------------------------------ MODULE MCDaemon ------------------------------
(***************************************************************************)
(* The Datarouter's configuration (SocketServer, DltLogServer) and one of  *)
(* its output channels (DltLogChannel), for TLC.  They share no variable:  *)
(* a behaviour is one of a single part, chosen in the initial state.  The  *)
(* configuration files have one and two channels, with and without the     *)
(* optional members; one has too many channels, one cannot be used.        *)
(***************************************************************************)
EXTENDS SocketServer, DltLogChannel, TLC

VARIABLE part

Channel(name, level) == [name |-> name, channelThreshold |-> level]

\* "LOST" is assigned but not defined; "bogus" is no level.
TwoChannels ==
  [channels |-> <<Channel("CORE", "kWarn"), Channel("DFLT", "bogus")>>,
   coredumpChannel |-> "CORE", defaultChannel |-> "DFLT",
   channelAssignments |-> (<<"A", "X">> :> {"CORE", "DFLT"} @@ <<"A", "">> :> {"LOST"}
                             @@ <<"", "X">> :> {}),
   filteringEnabled |-> FALSE, defaultThresold |-> "kInfo",
   messageThresholds |-> (<<"", "X">> :> "kDebug")]

OneChannel ==
  [channels |-> <<Channel("DFLT", "kError")>>, defaultChannel |-> "NONE",
   channelAssignments |-> <<>>, messageThresholds |-> <<>>]

TooManyChannels ==
  [channels |-> [i \in 1..kChannelmaskBits |-> Channel(<<"DFLT", "B", "C", "D">>[i], "kError")],
   defaultChannel |-> "DFLT", defaultThreshold |-> "kFatal",
   channelAssignments |-> <<>>, messageThresholds |-> <<>>]

Unusable == [defaultChannel |-> "DFLT"]

MCFiles == {TwoChannels, OneChannel, TooManyChannels, Unusable}
MCNames == {"DFLT", "LOST"}
MCKeys == {<<"A", "X">>, <<"A", "">>}

MCInit ==
  /\ part \in {"configuration", "output"}
  /\ SocketInit /\ ChannelInit
  /\ part = "output" \/ channel = NewChannel(TRUE)
  /\ part = "configuration" \/ dictionary = StubDictionary

MCNext ==
  /\ UNCHANGED part
  /\ \/ part = "configuration" /\ SocketNext /\ UNCHANGED channelVars
     \/ part = "output" /\ ChannelNext /\ UNCHANGED allVars

MCSpec == MCInit /\ [][MCNext]_<<part, allVars, channelVars>>
=============================================================================
