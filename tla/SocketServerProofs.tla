------------------------- MODULE SocketServerProofs -------------------------
(***************************************************************************)
(* Proofs about the daemon, for any static files, commands and sessions,   *)
(* any number of restarts, both kinds of builds and both kinds of          *)
(* dictionaries.  SocketServer: objects outlive the threads that use them, *)
(* the output is what was asked for, and the sessions follow it.           *)
(* DltLogServer: what is stored is read back, a reset restores the static  *)
(* configuration, and every message that is accepted has a channel.        *)
(***************************************************************************)
EXTENDS SocketServer, TLAPS

-----------------------------------------------------------------------------
(* SocketServer.                                                           *)

Switches == [step : {"write", "sources", "again"}, enable : BOOLEAN]

(* What is in progress needs the objects built before it.                  *)
OrderInv ==
  /\ built \in 0..5
  /\ phase = "building" => built < 5
  /\ sources = [s \in DOMAIN sources |-> sources[s]]
  /\ DOMAIN sources # {} \/ creation # Idle => built = 5
  /\ switch # Idle => built >= 4

(* While the switch is in progress the callback holds the value it writes, *)
(* which is the flag, and what was asked for, unless the build forces the  *)
(* output.  The stub never changes.                                        *)
SwitchInv ==
  /\ dlt_output_enabled \in BOOLEAN /\ asked \in BOOLEAN
  /\ dictionary.kind = "stub" => dictionary.dltOutputEnabled
  /\ dictionary.dltOutputEnabled \in BOOLEAN
  /\ dictionary = [kind |-> dictionary.kind, dltConfig |-> dictionary.dltConfig,
                   dltOutputEnabled |-> dictionary.dltOutputEnabled]
  /\ switch = Idle \/ switch \in Switches
  /\ switch # Idle => /\ switch.enable = (ForceOutput \/ dlt_output_enabled)
                      /\ switch.enable = (ForceOutput \/ asked)
  /\ switch.step \in {"sources", "again"} /\ dictionary.kind = "keeping"
       => dictionary.dltOutputEnabled = switch.enable
  /\ switch = Idle /\ built > 0 /\ dictionary.kind = "keeping"
       => dlt_output_enabled = (ForceOutput \/ dictionary.dltOutputEnabled)
  /\ switch = Idle /\ built > 0 => dlt_output_enabled = (ForceOutput \/ asked)

(* A session that is being created has the value of the flag, unless a     *)
(* switch came after it was read; so has one that was created, as soon as  *)
(* a switch has passed the list of sessions.                               *)
SessionInv ==
  /\ creation # Idle =>
       creation = [step |-> "create", session |-> creation.session,
                   enabled |-> creation.enabled, stale |-> creation.stale]
  /\ creation # Idle => creation.stale \/ creation.enabled = dlt_output_enabled
  /\ switch = Idle \/ (switch.step = "again" /\ switch.enable = dlt_output_enabled)
       => \A s \in DOMAIN sources : sources[s].stale \/ sources[s].enabled = dlt_output_enabled

SocketInv == OrderInv /\ SwitchInv /\ SessionInv

-----------------------------------------------------------------------------
(* Which objects exist says how many were built: DoWork has one order.     *)
LEMMA ObjectOrder ==
  ASSUME built \in 0..5
  PROVE  /\ Exists("pd") <=> built >= 1
         /\ Exists("dlt_server") <=> built >= 2
         /\ Exists("router") <=> built >= 3
         /\ Exists("unix_domain_server") <=> built >= 4
         /\ Exists("mp_server") <=> built = 5
BY DEF Exists, Objects

(* The two servers with threads are the last two objects of DoWork.        *)
LEMMA ObjectNumbers ==
  /\ Len(Objects) = 5
  /\ \A i \in 1..5 : /\ Objects[i] = "mp_server" <=> i = 5
                     /\ Objects[i] = "unix_domain_server" <=> i = 4
BY DEF Objects

(* A configuration command changes nothing of the dictionary but the       *)
(* stored configuration.                                                   *)
LEMMA CommandFrame ==
  ASSUME NEW c, OnConfigCommand(c),
         dictionary = [kind |-> dictionary.kind, dltConfig |-> dictionary.dltConfig,
                       dltOutputEnabled |-> dictionary.dltOutputEnabled]
  PROVE  \E text : dictionary' = [dictionary EXCEPT !.dltConfig = text]
<1>1. CASE UNCHANGED dictionary
  <2>1. dictionary' = [dictionary EXCEPT !.dltConfig = dictionary.dltConfig]
    BY <1>1
  <2> QED
    BY <2>1, ZenonT(30)
<1>2. ASSUME NEW value, dictionary' = SetString(dictionary, value)
      PROVE  \E text : dictionary' = [dictionary EXCEPT !.dltConfig = text]
  <2>1. CASE dictionary.kind = "stub"
    BY <1>1, <1>2, <2>1 DEF SetString
  <2>2. CASE dictionary.kind # "stub"
    BY <1>2, <2>2, ZenonT(30) DEF SetString, Keep
  <2> QED
    BY <2>1, <2>2
<1>3. \/ UNCHANGED dictionary
      \/ \E value : dictionary' = SetString(dictionary, value)
  BY
  DEF OnConfigCommand, OnConfigCommandError, Execute, ResetToDefault, ClearDatabase,
         StoreDltConfig, SetLogChannelThreshold, SetLogLevel,
         SetMessagingFilteringState,
         SetDefaultLogLevel, SetLogChannelAssignment, ReadLogChannelNames,
         SetTraceState,
         UnknownChannel, Configure
<1> QED
  BY <1>1, <1>2, <1>3

(* The invariant holds when the daemon starts.                             *)
LEMMA InitSocket == SocketInit => SocketInv
<1> SUFFICES ASSUME SocketInit PROVE SocketInv
  OBVIOUS
<1>1. OrderInv
  BY DEF SocketInit, OrderInv
<1>2. SwitchInv
  <2>1. PICK kind : dictionary = [kind |-> kind, dltConfig |-> <<>>, dltOutputEnabled |-> TRUE]
    BY ZenonT(30) DEF SocketInit, StubDictionary, KeepingDictionary
  <2>2. /\ dictionary = [kind |-> dictionary.kind, dltConfig |-> dictionary.dltConfig,
                         dltOutputEnabled |-> dictionary.dltOutputEnabled]
        /\ dictionary.dltOutputEnabled = TRUE
    BY <2>1
  <2>3. ~(built > 0)
    BY DEF SocketInit
  <2>4. switch = Idle /\ switch.step = "idle" /\ dlt_output_enabled \in BOOLEAN /\ asked \in BOOLEAN
    BY ZenonT(60) DEF SocketInit, Idle
  <2> QED
    BY <2>2, <2>3, <2>4, ZenonT(30) DEF SwitchInv
<1>3. SessionInv
  BY DEF SocketInit, SessionInv
<1> QED
  BY <1>1, <1>2, <1>3 DEF SocketInv

(* Construction, destruction and the work of the threads keep the order.   *)
LEMMA OrderKept == ASSUME SocketInv, SocketNext PROVE OrderInv'
<1> USE DEF SocketInv, OrderInv
<1>1. CASE InitializePersistentStorage
  BY <1>1 DEF InitializePersistentStorage
<1>2. ASSUME NEW doc, CreateDltServer(doc) PROVE OrderInv'
  BY <1>2 DEF CreateDltServer
<1>3. CASE CreateNext
  BY <1>3, ObjectNumbers DEF CreateNext
<1>4. CASE LeaveEventLoop
  BY <1>4 DEF LeaveEventLoop
<1>5. CASE DestroyLast
  BY <1>5, ObjectNumbers DEF DestroyLast
<1>6. CASE Restart
  BY <1>6 DEF Restart, NoProcess
<1>7. ASSUME NEW c, Command(c) PROVE OrderInv'
  BY <1>7 DEF Command, socketVars
<1>8. ASSUME NEW enable \in BOOLEAN, SetDltOutputEnable(enable) PROVE OrderInv'
  BY <1>8, ObjectOrder DEF SetDltOutputEnable, CompareExchange, Idle
<1>9. CASE WriteDltEnabled
  BY <1>9 DEF WriteDltEnabled, Idle
<1>10. CASE ForEachSource
  BY <1>10 DEF ForEachSource, Idle
<1>11. CASE SetDltOutputEnableAgain
  BY <1>11 DEF SetDltOutputEnableAgain, CompareExchange, Idle
<1>12. ASSUME NEW s, ReadOutputEnabled(s) PROVE OrderInv'
  BY <1>12, ObjectOrder DEF ReadOutputEnabled
<1>13. CASE NewSourceSession
  BY <1>13 DEF NewSourceSession, With
<1>14. CASE NoSourceSession
  BY <1>14 DEF NoSourceSession
<1>15. ASSUME NEW s, EndSourceSession(s) PROVE OrderInv'
  BY <1>15, ObjectOrder, SMTT(30) DEF EndSourceSession, Without, Restrict
<1> QED
  BY SMTT(30), <1>1, <1>2, <1>3, <1>4, <1>5, <1>6, <1>7, <1>8, <1>9, <1>10,
     <1>11, <1>12, <1>13, <1>14,
     <1>15
  DEF SocketNext

(* Every step keeps flag, dictionary and a switch in progress in           *)
(* agreement.                                                              *)
LEMMA SwitchKept == ASSUME SocketInv, SocketNext PROVE SwitchInv'
<1> USE DEF SocketInv, SwitchInv
<1>1. CASE InitializePersistentStorage
  BY <1>1, BuildAssumption DEF InitializePersistentStorage, configVars, OrderInv
<1>2. ASSUME NEW doc, CreateDltServer(doc) PROVE SwitchInv'
  BY <1>2 DEF CreateDltServer
<1>3. CASE CreateNext
  <2>1. built > 0 /\ UNCHANGED <<dictionary, dlt_output_enabled, asked, switch>>
    BY <1>3 DEF CreateNext, configVars, OrderInv
  <2> QED
    BY <2>1
<1>4. CASE LeaveEventLoop
  BY <1>4 DEF LeaveEventLoop, configVars
<1>5. CASE DestroyLast
  BY <1>5, ObjectNumbers DEF DestroyLast, configVars, OrderInv
<1>6. CASE Restart
  <2>1. ~(built' > 0)
    BY <1>6 DEF Restart, NoProcess
  <2>2. /\ switch' = Idle /\ switch'.step = "idle"
        /\ dlt_output_enabled' \in BOOLEAN /\ asked' \in BOOLEAN
        /\ dictionary' = dictionary
    BY <1>6, ZenonT(30) DEF Restart, NoProcess, Idle
  <2> QED
    BY <2>1, <2>2
<1>7. ASSUME NEW c, Command(c) PROVE SwitchInv'
  BY <1>7, CommandFrame DEF Command, socketVars
<1>8. ASSUME NEW enable \in BOOLEAN, SetDltOutputEnable(enable) PROVE SwitchInv'
  BY <1>8, BuildAssumption
  DEF SetDltOutputEnable, CompareExchange, Idle, Switches
<1>9. CASE WriteDltEnabled
  <2>1. dictionary' = IF dictionary.kind = "stub" THEN dictionary
                      ELSE [dictionary EXCEPT !.dltOutputEnabled = switch.enable]
    BY <1>9, ZenonT(30) DEF WriteDltEnabled, SetBool, Keep
  <2> QED
    BY <1>9, <2>1, BuildAssumption DEF WriteDltEnabled, Idle, Switches
<1>10. CASE ForEachSource
  BY <1>10, BuildAssumption DEF ForEachSource, Idle, configVars, Switches
<1>11. CASE SetDltOutputEnableAgain
  BY <1>11, BuildAssumption
  DEF SetDltOutputEnableAgain, CompareExchange, Idle, configVars, Switches
<1>12. ASSUME NEW s, ReadOutputEnabled(s) PROVE SwitchInv'
  BY <1>12 DEF ReadOutputEnabled, configVars
<1>13. CASE NewSourceSession
  BY <1>13 DEF NewSourceSession, configVars
<1>14. CASE NoSourceSession
  BY <1>14 DEF NoSourceSession, configVars
<1>15. ASSUME NEW s, EndSourceSession(s) PROVE SwitchInv'
  BY <1>15, SMTT(30) DEF EndSourceSession, configVars
<1> QED
  BY ZenonT(30), <1>1, <1>2, <1>3, <1>4, <1>5, <1>6, <1>7, <1>8, <1>9, <1>10,
     <1>11, <1>12, <1>13, <1>14,
     <1>15
  DEF SocketNext

(* Every step keeps flag and sessions in agreement.                        *)
LEMMA SessionsKept == ASSUME SocketInv, SocketNext PROVE SessionInv'
<1> USE DEF SocketInv, SessionInv
<1>1. CASE InitializePersistentStorage
  BY <1>1 DEF InitializePersistentStorage, OrderInv
<1>2. ASSUME NEW doc, CreateDltServer(doc) PROVE SessionInv'
  BY <1>2 DEF CreateDltServer
<1>3. CASE CreateNext
  BY <1>3 DEF CreateNext
<1>4. CASE LeaveEventLoop
  BY <1>4 DEF LeaveEventLoop
<1>5. CASE DestroyLast
  BY <1>5, ObjectNumbers DEF DestroyLast
<1>6. CASE Restart
  BY <1>6 DEF Restart, NoProcess, Idle
<1>7. ASSUME NEW c, Command(c) PROVE SessionInv'
  BY <1>7 DEF Command, socketVars
<1>8. ASSUME NEW enable \in BOOLEAN, SetDltOutputEnable(enable) PROVE SessionInv'
  BY <1>8, BuildAssumption DEF SetDltOutputEnable, CompareExchange, Idle
<1>9. CASE WriteDltEnabled
  BY <1>9 DEF WriteDltEnabled, Idle, Switches, SwitchInv
<1>10. CASE ForEachSource
  BY <1>10 DEF ForEachSource, Idle, Switches, SwitchInv
<1>11. CASE SetDltOutputEnableAgain
  BY <1>11, BuildAssumption
  DEF SetDltOutputEnableAgain, CompareExchange, Idle, SwitchInv, Switches
<1>12. ASSUME NEW s, ReadOutputEnabled(s) PROVE SessionInv'
  BY <1>12 DEF ReadOutputEnabled
<1>13. CASE NewSourceSession
  BY <1>13 DEF NewSourceSession, With, SourceSession
<1>14. CASE NoSourceSession
  BY <1>14 DEF NoSourceSession
<1>15. ASSUME NEW s, EndSourceSession(s) PROVE SessionInv'
  BY <1>15 DEF EndSourceSession, Without, Restrict
<1> QED
  BY SMTT(30), <1>1, <1>2, <1>3, <1>4, <1>5, <1>6, <1>7, <1>8, <1>9, <1>10,
     <1>11, <1>12, <1>13, <1>14,
     <1>15
  DEF SocketNext

(* Every step keeps the invariant.                                         *)
LEMMA NextSocket == SocketInv /\ [SocketNext]_allVars => SocketInv'
<1> SUFFICES ASSUME SocketInv, [SocketNext]_allVars PROVE SocketInv'
  OBVIOUS
<1>1. CASE UNCHANGED allVars
  <2>1. UNCHANGED <<built, phase, sources, creation, switch, dlt_output_enabled, asked, dictionary>>
    BY <1>1 DEF allVars, socketVars, configVars
  <2>2. OrderInv' /\ SessionInv'
    BY <2>1 DEF SocketInv, OrderInv, SessionInv
  <2>3. SwitchInv'
    BY <2>1 DEF SocketInv, SwitchInv
  <2> QED
    BY <2>2, <2>3 DEF SocketInv
<1>2. CASE SocketNext
  BY <1>2, OrderKept, SwitchKept, SessionsKept DEF SocketInv
<1> QED
  BY <1>1, <1>2

(* The invariant holds in every state DoWork and its threads reach.        *)
THEOREM SocketInvariant == SocketSpec => []SocketInv
BY InitSocket, NextSocket, PTL DEF SocketSpec

(* Whenever a session, its creation or a command is in progress, the       *)
(* objects of DoWork it uses are built and not yet destroyed.              *)
THEOREM ObjectsOutliveUsers == SocketSpec => []UsesOnlyLivingObjects
<1>1. ASSUME SocketInv PROVE UsesOnlyLivingObjects
  <2>1. sources # <<>> => DOMAIN sources # {}
    BY <1>1 DEF SocketInv, OrderInv
  <2> QED
    BY <1>1, <2>1, ObjectOrder DEF SocketInv, OrderInv, UsesOnlyLivingObjects
<1> QED
  BY <1>1, SocketInvariant, PTL

(* Between two switches the output is what the last command, or the start, *)
(* asked for, also when the build forces the output and the callback of    *)
(* CreateEnableHandler flips the flag back; a dictionary that keeps data   *)
(* agrees with it, and the stub is as it was at the start.                 *)
THEOREM SwitchObeyed == SocketSpec => []SwitchIsObeyed
<1>1. ASSUME SocketInv PROVE SwitchIsObeyed
  <2>1. Exists("pd") => built > 0
    BY <1>1, ObjectOrder DEF SocketInv, OrderInv
  <2> QED
    BY <1>1, <2>1 DEF SocketInv, SwitchInv, SwitchIsObeyed
<1> QED
  BY <1>1, SocketInvariant, PTL

(* Between two switches every session has the value of the flag, except    *)
(* those that read it before a switch and entered sources_ after it.       *)
THEOREM SwitchReachesSessions == SocketSpec => []SessionsFollowSwitch
<1>1. SocketInv => SessionsFollowSwitch
  BY DEF SocketInv, SessionInv, SessionsFollowSwitch
<1> QED
  BY <1>1, SocketInvariant, PTL

-----------------------------------------------------------------------------
(* DltLogServer.  The configuration is sound: every index is one of a      *)
(* channel, no list of assignments is empty, every threshold is a level,   *)
(* and the names stand for the channels that a fresh start gives them.     *)

StaticInv(static) ==
  /\ DOMAIN static.channels = 1 .. Len(static.channels) /\ Len(static.channels) \in Nat \ {0}
  /\ \A i \in DOMAIN static.channels : static.channels[i].threshold \in Levels
  /\ \A i, j \in DOMAIN static.channels : static.channels[i].name = static.channels[j].name => i = j
  /\ static.channel_assignments = [k \in DOMAIN static.channel_assignments |-> static.channel_assignments[k]]
  /\ \A k \in DOMAIN static.channel_assignments : static.channel_assignments[k] # {}
  /\ static.default_threshold \in Levels
  /\ static.message_thresholds \in [DOMAIN static.message_thresholds -> Levels]

NamesOf(static) == [i \in DOMAIN static.channels |-> static.channels[i].name]

(* Name n stands for channel i after a fresh start.                        *)
Stands(static, n, i) ==
  /\ n \in Range(NamesOf(static)) => i \in DOMAIN static.channels /\ static.channels[i].name = n
  /\ n \notin Range(NamesOf(static)) => i = 1

RecordForm(s) ==
  s = [channels |-> s.channels, channel_thresholds |-> s.channel_thresholds,
       channel_nums |-> s.channel_nums, default_channel |-> s.default_channel,
       coredump_channel |-> s.coredump_channel, channel_assignments |-> s.channel_assignments,
       filtering_enabled |-> s.filtering_enabled, default_threshold |-> s.default_threshold,
       message_thresholds |-> s.message_thresholds]

ServerInv(s, static) ==
  /\ RecordForm(s)
  /\ 1 \in DOMAIN s.channels
  /\ s.channel_thresholds \in [DOMAIN s.channels -> Levels]
  /\ \A n \in DOMAIN s.channel_nums : s.channel_nums[n] \in DOMAIN s.channels
  /\ s.default_channel \in DOMAIN s.channels /\ s.coredump_channel \subseteq DOMAIN s.channels
  /\ s.channel_assignments \in [DOMAIN s.channel_assignments -> (SUBSET DOMAIN s.channels) \ {{}}]
  /\ s.default_threshold \in Levels
  /\ s.message_thresholds \in [DOMAIN s.message_thresholds -> Levels]
  /\ ChannelsFit(static) =>
       /\ s.channels = NamesOf(static) /\ Range(s.channels) \subseteq DOMAIN s.channel_nums
       /\ \A n \in DOMAIN s.channel_nums : Stands(static, n, s.channel_nums[n])

(* What InitLogChannels gets: nothing, or a configuration it made before.  *)
Known(old, static) == old = None \/ ServerInv(old, static)

DictionaryInv(dict) ==
  /\ dict = [kind |-> dict.kind, dltConfig |-> dict.dltConfig, dltOutputEnabled |-> dict.dltOutputEnabled]
  /\ dict.kind = "stub" => dict.dltConfig = <<>>

ConfigInv ==
  /\ built \in Nat /\ commands \in Nat
  /\ built >= 2 => server # None
  /\ server # None => StaticInv(static_config) /\ ServerInv(server, static_config)
  /\ DictionaryInv(dictionary)
  /\ StoreRoundTrip

(* The names of the levels: reading a name gives a level, and reading the  *)
(* name that was written gives the level back.                             *)
LEMMA LevelRead ==
  ASSUME NEW name PROVE ToLogLevel(name) \in Levels
<1>1. \A n \in DOMAIN kLoglevelMap : kLoglevelMap[n] \in {0, 1, 2, 3, 4, 5, 6}
  BY SMTT(30) DEF kLoglevelMap
<1>2. \A l \in {0, 1, 2, 3, 4, 5, 6} : l \in Levels
  BY SMTT(30) DEF Levels, kOff, kVerbose
<1>3. kOff \in Levels
  BY SMTT(30) DEF Levels, kOff, kVerbose
<1>4. QED
  BY <1>1, <1>2, <1>3, ZenonT(30) DEF ToLogLevel

(* The name that is written for a level is read as that level.             *)
LEMMA LevelReadBack ==
  ASSUME NEW level \in Levels PROVE ToLogLevel(GetStringFromLogLevel(level)) = level
<1>1. level \in {0, 1, 2, 3, 4, 5, 6}
  BY SMTT(30) DEF Levels, kOff, kVerbose
<1> DEFINE texts == <<"kOff", "kFatal", "kError", "kWarn", "kInfo", "kDebug", "kVerbose">>
<1>2. /\ texts[0 + 1] = "kOff" /\ texts[1 + 1] = "kFatal" /\ texts[2 + 1] = "kError" /\ texts[3 + 1] = "kWarn"
      /\ texts[4 + 1] = "kInfo" /\ texts[5 + 1] = "kDebug" /\ texts[6 + 1] = "kVerbose"
  BY SMTT(30)
<1>3. GetStringFromLogLevel(level) = texts[level + 1]
  BY DEF GetStringFromLogLevel
<1>4. /\ ToLogLevel("kOff") = 0 /\ ToLogLevel("kFatal") = 1 /\ ToLogLevel("kError") = 2 /\ ToLogLevel("kWarn") = 3
      /\ ToLogLevel("kInfo") = 4 /\ ToLogLevel("kDebug") = 5 /\ ToLogLevel("kVerbose") = 6
  BY SMTT(30) DEF ToLogLevel, kLoglevelMap
<1> HIDE DEF texts
<1>5. QED
  BY <1>1, <1>2, <1>3, <1>4, SMTT(30)

(* Whatever texts a document has, what is read from them are levels.       *)
LEMMA NamedLevelsType ==
  ASSUME NEW f
  PROVE  DOMAIN NamedLevels(f) = DOMAIN f /\ NamedLevels(f) \in [DOMAIN f -> Levels]
BY LevelRead, ZenonT(30) DEF NamedLevels

(* A map of levels survives the conversion to names and back.              *)
LEMMA LevelsReadBack ==
  ASSUME NEW D, NEW f \in [D -> Levels]
  PROVE  NamedLevels(LevelNames(f)) = f
<1>1. DOMAIN LevelNames(f) = D /\ \A k \in D : LevelNames(f)[k] = GetStringFromLogLevel(f[k])
  BY ZenonT(30) DEF LevelNames
<1>2. NamedLevels(LevelNames(f)) = [k \in D |-> ToLogLevel(GetStringFromLogLevel(f[k]))]
  BY <1>1, ZenonT(30) DEF NamedLevels
<1>3. \A k \in D : ToLogLevel(GetStringFromLogLevel(f[k])) = f[k]
  BY LevelReadBack, ZenonT(30)
<1>4. QED
  BY <1>2, <1>3, ZenonT(30)

(* What is read from a list of assignments has no empty entry.             *)
LEMMA NonEmptyListsType ==
  ASSUME NEW f
  PROVE  /\ NonEmptyLists(f) = [k \in DOMAIN NonEmptyLists(f) |-> NonEmptyLists(f)[k]]
         /\ \A k \in DOMAIN NonEmptyLists(f) : NonEmptyLists(f)[k] # {}
BY ZenonT(30) DEF NonEmptyLists, Restrict

(* Nothing is lost from assignments without an empty list.                 *)
LEMMA NonEmptyListsKeep ==
  ASSUME NEW f, f = [k \in DOMAIN f |-> f[k]], \A k \in DOMAIN f : f[k] # {}
  PROVE  NonEmptyLists(f) = f
<1>1. {k \in DOMAIN f : f[k] # {}} = DOMAIN f
  BY ZenonT(30)
<1>2. QED
  BY <1>1, ZenonT(30) DEF NonEmptyLists, Restrict

(* The parts of the configuration that InitLogChannels loads.              *)
Source(static, doc) == IF ReadDlt(doc).channels # <<>> THEN ReadDlt(doc) ELSE static

ThresholdOf(static, doc, i) ==
  IF ReadDlt(doc).channels # <<>> THEN Member(ReadDlt(doc).channels, NamesOf(static)[i], kOff)
  ELSE static.channels[i].threshold

NumbersOf(static, old) ==
  IF old # None THEN old.channel_nums
  ELSE [n \in Range(NamesOf(static)) |-> CHOOSE i \in IndexOf(static, n) : TRUE]

Numbered(static, doc, old) ==
  WithNames(NumbersOf(static, old), UNION Range(Source(static, doc).channel_assignments))

DefaultOf(static) ==
  IF IndexOf(static, static.default_channel) = {} THEN 1
  ELSE CHOOSE i \in IndexOf(static, static.default_channel) : TRUE

AssignmentsOf(static, doc, old) ==
  [k \in DOMAIN Source(static, doc).channel_assignments |->
     {Numbered(static, doc, old)[n] : n \in Source(static, doc).channel_assignments[k]}]

(* What InitLogChannels makes, member by member.                           *)
LEMMA InitFields ==
  ASSUME NEW static, NEW doc, NEW old, ChannelsFit(static)
  PROVE  InitLogChannels(static, doc, old) =
           [channels |-> NamesOf(static),
            channel_thresholds |-> [i \in DOMAIN NamesOf(static) |-> ThresholdOf(static, doc, i)],
            channel_nums |-> Numbered(static, doc, old),
            default_channel |-> DefaultOf(static),
            coredump_channel |-> IF old # None THEN {} ELSE IndexOf(static, static.coredump_channel),
            channel_assignments |-> AssignmentsOf(static, doc, old),
            filtering_enabled |-> Source(static, doc).filtering_enabled,
            default_threshold |-> Source(static, doc).default_threshold,
            message_thresholds |-> Source(static, doc).message_thresholds]
BY ZenonT(30) DEF InitLogChannels, NamesOf, ThresholdOf, Numbered, NumbersOf, DefaultOf, AssignmentsOf, Source

(* Whatever document the dictionary holds, what is read from it is sound.  *)
SoundSource(config) ==
  /\ config.channel_assignments = [k \in DOMAIN config.channel_assignments |-> config.channel_assignments[k]]
  /\ \A k \in DOMAIN config.channel_assignments : config.channel_assignments[k] # {}
  /\ config.default_threshold \in Levels
  /\ config.message_thresholds \in [DOMAIN config.message_thresholds -> Levels]

(* Both sources, the dictionary and the static file, are sound.            *)
LEMMA SourceSound ==
  ASSUME NEW static, StaticInv(static), NEW doc
  PROVE  SoundSource(Source(static, doc))
<1>1. CASE ReadDlt(doc).channels = <<>>
  <2>1. Source(static, doc) = static
    BY <1>1, ZenonT(30) DEF Source
  <2>2. SoundSource(static)
    BY ZenonT(30) DEF SoundSource, StaticInv
  <2>3. QED
    BY <2>1, <2>2, ZenonT(30)
<1>2. CASE ReadDlt(doc).channels # <<>>
  <2>1. ~StaticDltError(doc)
    BY <1>2, ZenonT(30) DEF ReadDlt, PersistentConfig
  <2>2. /\ Source(static, doc).channel_assignments = NonEmptyLists(doc.channelAssignments)
        /\ Source(static, doc).default_threshold = ToLogLevel(doc.defaultThresold)
        /\ Source(static, doc).message_thresholds = NamedLevels(doc.messageThresholds)
    BY <1>2, <2>1, ZenonT(30) DEF Source, ReadDlt
  <2>3. QED
    BY <2>2, NonEmptyListsType, NamedLevelsType, LevelRead, ZenonT(30)
    DEF SoundSource
<1>3. QED
  BY <1>1, <1>2, ZenonT(30)

(* Every channel gets a level as its threshold, whether the dictionary     *)
(* knows the channel or not.                                               *)
LEMMA ThresholdSound ==
  ASSUME NEW static, StaticInv(static), NEW doc, NEW i \in DOMAIN static.channels
  PROVE  ThresholdOf(static, doc, i) \in Levels
<1>1. CASE ReadDlt(doc).channels = <<>>
  BY <1>1, ZenonT(30) DEF ThresholdOf, StaticInv
<1>2. CASE ReadDlt(doc).channels # <<>>
  <2>1. ~StaticDltError(doc)
    BY <1>2, ZenonT(30) DEF ReadDlt, PersistentConfig
  <2>2. ReadDlt(doc).channels = NamedLevels(doc.channels)
    BY <2>1, ZenonT(30) DEF ReadDlt
  <2>3. kOff \in Levels
    BY SMTT(30) DEF Levels, kOff, kVerbose
  <2>4. QED
    BY <1>2, <2>2, <2>3, NamedLevelsType, ZenonT(30)
    DEF ThresholdOf, Member, HasMember
<1>3. QED
  BY <1>1, <1>2, ZenonT(30)

(* The index a name stands for is unique.                                  *)
LEMMA StandsUnique ==
  ASSUME NEW static, StaticInv(static), NEW n, NEW i, NEW j, Stands(static, n, i), Stands(static, n, j)
  PROVE  i = j
BY ZenonT(30) DEF Stands, StaticInv

(* A name stands for a channel that exists.                                *)
LEMMA StandsRange ==
  ASSUME NEW static, StaticInv(static), NEW n, NEW i, Stands(static, n, i)
  PROVE  i \in DOMAIN static.channels
<1>1. 1 \in DOMAIN static.channels
  BY SMTT(30) DEF StaticInv
<1>2. QED
  BY <1>1, ZenonT(30) DEF Stands

(* The numbers a reload starts from stand for the same channels as those   *)
(* of a fresh start.                                                       *)
LEMMA NumbersStand ==
  ASSUME NEW static, StaticInv(static), ChannelsFit(static), NEW old, Known(old, static)
  PROVE  \A n \in DOMAIN NumbersOf(static, old) : Stands(static, n, NumbersOf(static, old)[n])
<1>1. CASE old # None
  BY <1>1, ZenonT(30) DEF NumbersOf, ServerInv, Known
<1>2. CASE old = None
  <2>1. SUFFICES ASSUME NEW n \in Range(NamesOf(static))
                 PROVE  Stands(static, n, CHOOSE i \in IndexOf(static, n) : TRUE)
    BY <1>2, ZenonT(30) DEF NumbersOf
  <2>2. PICK i \in DOMAIN static.channels : static.channels[i].name = n
    BY ZenonT(30) DEF Range, NamesOf
  <2>3. i \in IndexOf(static, n)
    BY <2>2, ZenonT(30) DEF IndexOf
  <2>4. (CHOOSE j \in IndexOf(static, n) : TRUE) \in IndexOf(static, n)
    BY <2>3, ZenonT(30)
  <2>5. QED
    BY <2>4, ZenonT(30) DEF Stands, IndexOf
<1>3. QED
  BY <1>1, <1>2, ZenonT(30)

(* A name that a list of assignments mentions gets a number: that of its   *)
(* channel, or of the first one if it has none.                            *)
LEMMA NumberedStand ==
  ASSUME NEW static, StaticInv(static), ChannelsFit(static), NEW doc,
         NEW old, Known(old, static)
  PROVE  /\ Range(NamesOf(static)) \subseteq DOMAIN Numbered(static, doc, old)
         /\ \A n \in DOMAIN Numbered(static, doc, old) : Stands(static, n, Numbered(static, doc, old)[n])
<1>1. Range(NamesOf(static)) \subseteq DOMAIN NumbersOf(static, old)
  BY ZenonT(30) DEF NumbersOf, ServerInv, Known
<1>2. Range(NamesOf(static)) \subseteq DOMAIN Numbered(static, doc, old)
  BY <1>1, ZenonT(30) DEF Numbered, WithNames
<1>3. ASSUME NEW n \in DOMAIN Numbered(static, doc, old)
      PROVE  Stands(static, n, Numbered(static, doc, old)[n])
  <2>1. CASE n \in DOMAIN NumbersOf(static, old)
    BY <2>1, NumbersStand, ZenonT(30) DEF Numbered, WithNames, ChannelNumber
  <2>2. CASE n \notin DOMAIN NumbersOf(static, old)
    <3>1. Numbered(static, doc, old)[n] = 1
      BY <1>3, <2>2, ZenonT(30) DEF Numbered, WithNames, ChannelNumber
    <3>2. QED
      BY <1>1, <2>2, <3>1, ZenonT(30) DEF Stands
  <2>3. QED
    BY <2>1, <2>2, ZenonT(30)
<1>4. QED
  BY <1>2, <1>3, ZenonT(30)

(* What InitLogChannels makes of any document is sound.                    *)
LEMMA AssignmentsSound ==
  ASSUME NEW static, StaticInv(static), ChannelsFit(static), NEW doc,
         NEW old, Known(old, static)
  PROVE  AssignmentsOf(static, doc, old) \in
           [DOMAIN AssignmentsOf(static, doc, old) -> (SUBSET DOMAIN static.channels) \ {{}}]
<1> DEFINE lists == Source(static, doc).channel_assignments
           nums == Numbered(static, doc, old)
<1>1. DOMAIN AssignmentsOf(static, doc, old) = DOMAIN lists
  BY ZenonT(30) DEF AssignmentsOf
<1>2. ASSUME NEW k \in DOMAIN lists
      PROVE  {nums[n] : n \in lists[k]} \in (SUBSET DOMAIN static.channels) \ {{}}
  <2>1. lists[k] # {}
    <3>1. SoundSource(Source(static, doc))
      BY SourceSound, ZenonT(30)
    <3>2. QED
      BY <1>2, <3>1, ZenonT(30) DEF SoundSource
  <2>2. \A n \in lists[k] : n \in UNION Range(lists)
    BY <1>2, ZenonT(30) DEF Range
  <2>3. \A n \in UNION Range(lists) : n \in DOMAIN nums
    BY ZenonT(30) DEF Numbered, WithNames
  <2> HIDE DEF nums
  <2>4. \A n \in DOMAIN nums : nums[n] \in DOMAIN static.channels
    BY NumberedStand, StandsRange, ZenonT(30) DEF nums
  <2>5. \A n \in lists[k] : nums[n] \in DOMAIN static.channels
    BY <2>2, <2>3, <2>4, ZenonT(30)
  <2> HIDE DEF lists
  <2>6. QED
    BY <2>1, <2>5, ZenonT(30)
<1>3. AssignmentsOf(static, doc, old) = [k \in DOMAIN lists |-> {nums[n] : n \in lists[k]}]
  BY ZenonT(30) DEF AssignmentsOf
<1> HIDE DEF lists, nums
<1>4. QED
  BY <1>1, <1>2, <1>3, ZenonT(30)

(* With a usable number of channels the result is sound.                   *)
LEMMA InitFitsSound ==
  ASSUME NEW static, StaticInv(static), ChannelsFit(static), NEW doc,
         NEW old, Known(old, static)
  PROVE  ServerInv(InitLogChannels(static, doc, old), static)
<1> DEFINE s == InitLogChannels(static, doc, old)
<1>1. /\ RecordForm(s) /\ s.channels = NamesOf(static)
      /\ s.channel_thresholds = [i \in DOMAIN NamesOf(static) |-> ThresholdOf(static, doc, i)]
      /\ s.channel_nums = Numbered(static, doc, old)
      /\ s.default_channel = DefaultOf(static)
      /\ s.coredump_channel = IF old # None THEN {} ELSE IndexOf(static, static.coredump_channel)
      /\ s.channel_assignments = AssignmentsOf(static, doc, old)
      /\ s.default_threshold = Source(static, doc).default_threshold
      /\ s.message_thresholds = Source(static, doc).message_thresholds
  <2>1. s = [channels |-> NamesOf(static),
            channel_thresholds |-> [i \in DOMAIN NamesOf(static) |-> ThresholdOf(static, doc, i)],
            channel_nums |-> Numbered(static, doc, old),
            default_channel |-> DefaultOf(static),
            coredump_channel |-> IF old # None THEN {} ELSE IndexOf(static, static.coredump_channel),
            channel_assignments |-> AssignmentsOf(static, doc, old),
            filtering_enabled |-> Source(static, doc).filtering_enabled,
            default_threshold |-> Source(static, doc).default_threshold,
            message_thresholds |-> Source(static, doc).message_thresholds]
    BY InitFields, ZenonT(30)
  <2> HIDE DEF s
  <2>2. QED
    BY <2>1, ZenonT(30) DEF RecordForm
<1>2. DOMAIN s.channels = DOMAIN static.channels
  BY <1>1, ZenonT(30) DEF NamesOf
<1>3. 1 \in DOMAIN static.channels
  BY SMTT(30) DEF StaticInv
<1>4. s.channel_thresholds \in [DOMAIN s.channels -> Levels]
  <2>1. \A i \in DOMAIN static.channels : ThresholdOf(static, doc, i) \in Levels
    BY ThresholdSound, ZenonT(30)
  <2>2. QED
    BY <1>1, <1>2, <2>1, ZenonT(30)
<1>5. s.default_channel \in DOMAIN s.channels /\ s.coredump_channel \subseteq DOMAIN s.channels
  BY <1>1, <1>2, <1>3, ZenonT(30) DEF DefaultOf, IndexOf
<1>6. s.channel_assignments \in [DOMAIN s.channel_assignments -> (SUBSET DOMAIN s.channels) \ {{}}]
  <2>1. AssignmentsOf(static, doc, old) \in
          [DOMAIN AssignmentsOf(static, doc, old) -> (SUBSET DOMAIN static.channels) \ {{}}]
    BY AssignmentsSound, ZenonT(30)
  <2>2. QED
    BY <1>1, <1>2, <2>1, ZenonT(30)
<1>7. /\ s.default_threshold \in Levels
      /\ s.message_thresholds \in [DOMAIN s.message_thresholds -> Levels]
  BY <1>1, SourceSound, ZenonT(30) DEF SoundSource
<1>8. /\ Range(s.channels) \subseteq DOMAIN s.channel_nums
      /\ \A n \in DOMAIN s.channel_nums : Stands(static, n, s.channel_nums[n])
  <2>1. /\ Range(NamesOf(static)) \subseteq DOMAIN Numbered(static, doc, old)
        /\ \A n \in DOMAIN Numbered(static, doc, old) : Stands(static, n, Numbered(static, doc, old)[n])
    BY NumberedStand, ZenonT(30)
  <2>2. QED
    BY <1>1, <2>1, ZenonT(30)
<1>9. \A n \in DOMAIN s.channel_nums : s.channel_nums[n] \in DOMAIN s.channels
  BY <1>2, <1>8, StandsRange, ZenonT(30)
<1>10. QED
  BY <1>1, <1>2, <1>3, <1>4, <1>5, <1>6, <1>7, <1>8, <1>9, ZenonT(30)
  DEF ServerInv, s

ServerFields == {"channels", "channel_thresholds", "channel_nums", "default_channel", "coredump_channel",
                 "channel_assignments", "filtering_enabled",
                 "default_threshold", "message_thresholds"}

(* A configuration in record form has all its members and no other.        *)
LEMMA FormDomain ==
  ASSUME NEW s, RecordForm(s)
  PROVE  DOMAIN s = ServerFields /\ s = [f \in ServerFields |-> s[f]]
BY SMTT(30) DEF RecordForm, ServerFields

(* And a function on these members is in record form.                      *)
LEMMA DomainForm ==
  ASSUME NEW s, s = [f \in ServerFields |-> s[f]]
  PROVE  RecordForm(s)
BY SMTT(30) DEF RecordForm, ServerFields

(* A command sets one member and leaves the others alone.                  *)
LEMMA SetField ==
  ASSUME NEW s, RecordForm(s), NEW f \in ServerFields, NEW v
  PROVE  /\ RecordForm([s EXCEPT ![f] = v]) /\ [s EXCEPT ![f] = v][f] = v
         /\ \A g \in ServerFields \ {f} : [s EXCEPT ![f] = v][g] = s[g]
<1> DEFINE r == [s EXCEPT ![f] = v]
<1>1. DOMAIN s = ServerFields
  BY FormDomain, ZenonT(30)
<1>2. DOMAIN r = ServerFields /\ r = [g \in ServerFields |-> r[g]]
  BY <1>1, ZenonT(30)
<1>3. r[f] = v /\ \A g \in ServerFields \ {f} : r[g] = s[g]
  BY <1>1, ZenonT(30)
<1> HIDE DEF r
<1>4. RecordForm(r)
  BY <1>2, DomainForm, ZenonT(30)
<1>5. QED
  BY <1>3, <1>4, ZenonT(30) DEF r

(* Too many channels: one channel for tests, or the channels there were.   *)
LEMMA InitDefaultSound ==
  ASSUME NEW static, ~ChannelsFit(static), NEW old, Known(old, static)
  PROVE  ServerInv(InitLogChannelsDefault(old), static)
<1>1. kOff \in Levels /\ kInfo \in Levels /\ kError \in Levels
  BY SMTT(30) DEF Levels, kOff, kInfo, kError, kVerbose
<1>2. CASE old # None
  <2> DEFINE t == [old.channel_thresholds EXCEPT ![1] = kOff]
             s == [old EXCEPT !.filtering_enabled = FALSE, !.default_threshold = kError,
                     !.default_channel = 1, !.coredump_channel = {}, !.channel_thresholds = t]
  <2>1. InitLogChannelsDefault(old) = s
    BY <1>2, ZenonT(30) DEF InitLogChannelsDefault
  <2>2. t \in [DOMAIN old.channels -> Levels]
    BY <1>1, <1>2, ZenonT(30) DEF ServerInv, Known
  <2> HIDE DEF t
  <2>3. ServerInv(old, static)
    BY <1>2, ZenonT(30) DEF Known
  <2>4. /\ RecordForm(s) /\ s.channels = old.channels /\ s.channel_thresholds = t
        /\ s.channel_nums = old.channel_nums /\ s.default_channel = 1 /\ s.coredump_channel = {}
        /\ s.channel_assignments = old.channel_assignments /\ s.default_threshold = kError
        /\ s.message_thresholds = old.message_thresholds
    <3>1. RecordForm(old)
      BY <2>3, ZenonT(30) DEF ServerInv
    <3> DEFINE r1 == [old EXCEPT !.filtering_enabled = FALSE]
               r2 == [r1 EXCEPT !.default_threshold = kError]
               r3 == [r2 EXCEPT !.default_channel = 1]
               r4 == [r3 EXCEPT !.coredump_channel = {}]
               r5 == [r4 EXCEPT !.channel_thresholds = t]
    <3>2. s = r5
      OBVIOUS
    <3>3. /\ "filtering_enabled" \in ServerFields /\ "default_threshold" \in ServerFields
          /\ "default_channel" \in ServerFields /\ "coredump_channel" \in ServerFields
          /\ "channel_thresholds" \in ServerFields
      BY ZenonT(30) DEF ServerFields
    <3>4. RecordForm(r1) /\ \A g \in ServerFields \ {"filtering_enabled"} : r1[g] = old[g]
      BY <3>1, <3>3, SetField, SMTT(30)
    <3> HIDE DEF r1
    <3>5. /\ RecordForm(r2) /\ r2.default_threshold = kError
          /\ \A g \in ServerFields \ {"default_threshold"} : r2[g] = r1[g]
      BY <3>4, <3>3, SetField, SMTT(30)
    <3> HIDE DEF r2
    <3>6. /\ RecordForm(r3) /\ r3.default_channel = 1
          /\ \A g \in ServerFields \ {"default_channel"} : r3[g] = r2[g]
      BY <3>5, <3>3, SetField, SMTT(30)
    <3> HIDE DEF r3
    <3>7. /\ RecordForm(r4) /\ r4.coredump_channel = {}
          /\ \A g \in ServerFields \ {"coredump_channel"} : r4[g] = r3[g]
      BY <3>6, <3>3, SetField, SMTT(30)
    <3> HIDE DEF r4
    <3>8. /\ RecordForm(r5) /\ r5.channel_thresholds = t
          /\ \A g \in ServerFields \ {"channel_thresholds"} : r5[g] = r4[g]
      BY <3>7, <3>3, SetField, SMTT(30)
    <3> HIDE DEF r5
    <3>9. /\ r5.channels = old.channels /\ r5.channel_nums = old.channel_nums
          /\ r5.default_channel = 1 /\ r5.coredump_channel = {} /\ r5.default_threshold = kError
          /\ r5.channel_assignments = old.channel_assignments
          /\ r5.message_thresholds = old.message_thresholds
      BY <3>4, <3>5, <3>6, <3>7, <3>8, SMTT(30) DEF ServerFields
    <3>10. QED
      BY <3>2, <3>8, <3>9, ZenonT(30)
  <2> HIDE DEF s
  <2>5. QED
    BY <1>1, <2>1, <2>2, <2>3, <2>4, ZenonT(30) DEF ServerInv
<1>3. CASE old = None
  <2> DEFINE s == InitLogChannelsDefault(old)
  <2>1. s = [channels |-> <<"TEST">>, channel_thresholds |-> <<kInfo>>,
          channel_nums |-> <<>>, default_channel |-> 1, coredump_channel |-> {},
          channel_assignments |-> <<>>, filtering_enabled |-> FALSE,
          default_threshold |-> kError, message_thresholds |-> <<>>]
    BY <1>3, ZenonT(30) DEF InitLogChannelsDefault
  <2> HIDE DEF s
  <2>2. /\ RecordForm(s) /\ s.channels = <<"TEST">> /\ s.channel_thresholds = <<kInfo>>
        /\ s.channel_nums = <<>> /\ s.default_channel = 1 /\ s.coredump_channel = {}
        /\ s.channel_assignments = <<>> /\ s.default_threshold = kError
        /\ s.message_thresholds = <<>>
    BY <2>1, ZenonT(30) DEF RecordForm
  <2>3. DOMAIN <<"TEST">> = {1} /\ <<kInfo>> \in [{1} -> Levels]
    BY <1>1, SMTT(30)
  <2>4. \A S : <<>> \in [DOMAIN <<>> -> S]
    BY SMTT(30)
  <2>5. \A n \in DOMAIN <<>> : FALSE
    BY SMTT(30)
  <2>6. QED
    BY <1>1, <2>2, <2>3, <2>4, <2>5, ZenonT(30) DEF ServerInv, s
<1>4. QED
  BY <1>2, <1>3, ZenonT(30)

(* In the constructor and on a reload, the result is sound.                *)
LEMMA InitSound ==
  ASSUME NEW static, StaticInv(static), NEW doc, NEW old, Known(old, static)
  PROVE  ServerInv(InitLogChannels(static, doc, old), static)
<1>1. CASE ChannelsFit(static)
  BY <1>1, InitFitsSound, ZenonT(30)
<1>2. CASE ~ChannelsFit(static)
  <2>1. InitLogChannels(static, doc, old) = InitLogChannelsDefault(old)
    BY <1>2, ZenonT(30) DEF InitLogChannels
  <2>2. QED
    BY <1>2, <2>1, InitDefaultSound, ZenonT(30)
<1>3. QED
  BY <1>1, <1>2, ZenonT(30)

(* Settings are compared member by member.                                 *)
LEMMA SameSettings ==
  ASSUME NEW r, NEW s,
         r.channel_thresholds = s.channel_thresholds, r.channel_assignments = s.channel_assignments,
         r.filtering_enabled = s.filtering_enabled, r.default_threshold = s.default_threshold,
         r.message_thresholds = s.message_thresholds
  PROVE  Settings(r) = Settings(s)
<1>1. \A f \in {"channel_thresholds", "channel_assignments", "filtering_enabled",
                "default_threshold", "message_thresholds"} : r[f] = s[f]
  BY SMTT(30)
<1>2. QED
  BY <1>1, ZenonT(30) DEF Settings

(* A function that is defined somewhere is not the empty sequence.         *)
LEMMA NotEmpty ==
  ASSUME NEW f, NEW x \in DOMAIN f PROVE f # <<>>
BY SMTT(30)

(* What SaveDatabase takes from a sound configuration.                     *)
LEMMA SavedFacts ==
  ASSUME NEW static, StaticInv(static), ChannelsFit(static), NEW s, ServerInv(s, static)
  PROVE  /\ SaveDatabase(s).channels \in [Range(s.channels) -> Levels]
         /\ \A i \in DOMAIN s.channels : SaveDatabase(s).channels[s.channels[i]] = s.channel_thresholds[i]
         /\ SaveDatabase(s).channel_assignments =
              [k \in DOMAIN s.channel_assignments |-> {s.channels[i] : i \in s.channel_assignments[k]}]
         /\ SaveDatabase(s).filtering_enabled = s.filtering_enabled
         /\ SaveDatabase(s).default_threshold = s.default_threshold
         /\ SaveDatabase(s).message_thresholds = s.message_thresholds
<1> DEFINE db == SaveDatabase(s)
<1>1. /\ db.channels = [n \in Range(s.channels) |->
            s.channel_thresholds[CHOOSE i \in DOMAIN s.channels : s.channels[i] = n]]
      /\ db.channel_assignments = [k \in DOMAIN s.channel_assignments |->
            {s.channels[i] : i \in s.channel_assignments[k] \cap DOMAIN s.channels}]
      /\ db.filtering_enabled = s.filtering_enabled /\ db.default_threshold = s.default_threshold
      /\ db.message_thresholds = s.message_thresholds
  BY ZenonT(30) DEF SaveDatabase
<1> HIDE DEF db
<1>2. \A i, j \in DOMAIN s.channels : s.channels[i] = s.channels[j] => i = j
  <2>1. s.channels = NamesOf(static)
    BY ZenonT(30) DEF ServerInv
  <2>2. DOMAIN s.channels = DOMAIN static.channels
    BY <2>1, ZenonT(30) DEF NamesOf
  <2>3. \A i \in DOMAIN static.channels : s.channels[i] = static.channels[i].name
    BY <2>1, ZenonT(30) DEF NamesOf
  <2>4. QED
    BY <2>2, <2>3, ZenonT(30) DEF StaticInv
<1>3. \A i \in DOMAIN s.channels : (CHOOSE j \in DOMAIN s.channels : s.channels[j] = s.channels[i]) = i
  BY <1>2, ZenonT(30)
<1>4. \A i \in DOMAIN s.channels : s.channels[i] \in Range(s.channels)
  BY ZenonT(30) DEF Range
<1>5. ASSUME NEW i \in DOMAIN s.channels
      PROVE  db.channels[s.channels[i]] = s.channel_thresholds[i]
  <2>1. db.channels[s.channels[i]] =
          s.channel_thresholds[CHOOSE j \in DOMAIN s.channels : s.channels[j] = s.channels[i]]
    BY <1>1, <1>4, ZenonT(30)
  <2>2. QED
    BY <1>3, <2>1, ZenonT(30)
<1>6. \A n \in Range(s.channels) : \E i \in DOMAIN s.channels : n = s.channels[i]
  BY ZenonT(30) DEF Range
<1>7. \A i \in DOMAIN s.channels : s.channel_thresholds[i] \in Levels
  BY ZenonT(30) DEF ServerInv
<1>8. \A n \in Range(s.channels) : db.channels[n] \in Levels
  BY <1>5, <1>6, <1>7, ZenonT(30)
<1>9. db.channels \in [Range(s.channels) -> Levels]
  BY <1>1, <1>8, ZenonT(30)
<1>10. \A k \in DOMAIN s.channel_assignments :
         s.channel_assignments[k] \cap DOMAIN s.channels = s.channel_assignments[k]
  BY ZenonT(30) DEF ServerInv
<1>11. db.channel_assignments =
         [k \in DOMAIN s.channel_assignments |-> {s.channels[i] : i \in s.channel_assignments[k]}]
  BY <1>1, <1>10, ZenonT(30)
<1>12. QED
  BY <1>1, <1>5, <1>9, <1>11, ZenonT(30) DEF db

(* Reading what was written: the conversions to names and lists and back   *)
(* lose nothing.                                                           *)
LEMMA ReadBack ==
  ASSUME NEW static, StaticInv(static), ChannelsFit(static), NEW s, ServerInv(s, static)
  PROVE  /\ ReadDlt(WriteDlt(SaveDatabase(s))) = SaveDatabase(s)
         /\ SaveDatabase(s).channels # <<>>
<1> DEFINE db == SaveDatabase(s)
           doc == WriteDlt(db)
<1>1. /\ db.channels \in [Range(s.channels) -> Levels]
      /\ db.channel_assignments =
              [k \in DOMAIN s.channel_assignments |-> {s.channels[i] : i \in s.channel_assignments[k]}]
      /\ db.default_threshold \in Levels
      /\ db.message_thresholds \in [DOMAIN db.message_thresholds -> Levels]
  <2>1. /\ db.channels \in [Range(s.channels) -> Levels]
        /\ \A i \in DOMAIN s.channels : db.channels[s.channels[i]] = s.channel_thresholds[i]
        /\ db.channel_assignments =
              [k \in DOMAIN s.channel_assignments |-> {s.channels[i] : i \in s.channel_assignments[k]}]
        /\ db.filtering_enabled = s.filtering_enabled
        /\ db.default_threshold = s.default_threshold /\ db.message_thresholds = s.message_thresholds
    BY SavedFacts, ZenonT(30)
  <2> HIDE DEF db
  <2>2. s.default_threshold \in Levels /\ s.message_thresholds \in [DOMAIN s.message_thresholds -> Levels]
    BY ZenonT(30) DEF ServerInv
  <2>3. QED
    BY <2>1, <2>2, ZenonT(30)
<1>2. db = [channels |-> db.channels, channel_assignments |-> db.channel_assignments,
            filtering_enabled |-> db.filtering_enabled, default_threshold |-> db.default_threshold,
            message_thresholds |-> db.message_thresholds]
  BY ZenonT(30) DEF SaveDatabase
<1> HIDE DEF db
<1>3. /\ doc.channels = LevelNames(db.channels) /\ doc.channelAssignments = db.channel_assignments
      /\ doc.filteringEnabled = db.filtering_enabled
      /\ doc.defaultThresold = GetStringFromLogLevel(db.default_threshold)
      /\ doc.messageThresholds = LevelNames(db.message_thresholds)
      /\ "channels" \in DOMAIN doc /\ "filteringEnabled" \in DOMAIN doc
  BY ZenonT(30) DEF WriteDlt
<1> HIDE DEF doc
<1>4. PICK n : n \in Range(s.channels)
  BY ZenonT(30) DEF ServerInv, Range
<1>5. n \in DOMAIN doc.channels /\ n \in DOMAIN db.channels
  BY <1>1, <1>3, <1>4, ZenonT(30) DEF LevelNames
<1>6. doc.channels # <<>> /\ db.channels # <<>>
  BY <1>5, NotEmpty, ZenonT(30)
<1>7. ~StaticDltError(doc)
  BY <1>3, <1>6, ZenonT(30) DEF StaticDltError, HasMember
<1>8. ReadDlt(doc) =
        [channels |-> NamedLevels(doc.channels),
         channel_assignments |-> NonEmptyLists(doc.channelAssignments),
         filtering_enabled |-> Member(doc, "filteringEnabled", TRUE),
         default_threshold |-> ToLogLevel(doc.defaultThresold),
         message_thresholds |-> NamedLevels(doc.messageThresholds)]
  BY <1>7, ZenonT(30) DEF ReadDlt
<1>9. NamedLevels(doc.channels) = db.channels /\ NamedLevels(doc.messageThresholds) = db.message_thresholds
  BY <1>1, <1>3, LevelsReadBack, ZenonT(30)
<1>10. Member(doc, "filteringEnabled", TRUE) = db.filtering_enabled
  BY <1>3, ZenonT(30) DEF Member, HasMember
<1>11. ToLogLevel(doc.defaultThresold) = db.default_threshold
  BY <1>1, <1>3, LevelReadBack, ZenonT(30)
<1>12. NonEmptyLists(db.channel_assignments) = db.channel_assignments
  <2>1. \A k \in DOMAIN s.channel_assignments : s.channel_assignments[k] # {}
    BY ZenonT(30) DEF ServerInv
  <2>2. ASSUME NEW k \in DOMAIN db.channel_assignments PROVE db.channel_assignments[k] # {}
    <3>1. k \in DOMAIN s.channel_assignments
      BY <1>1, ZenonT(30)
    <3>2. db.channel_assignments[k] = {s.channels[i] : i \in s.channel_assignments[k]}
      BY <1>1, <3>1, ZenonT(30)
    <3>3. PICK i : i \in s.channel_assignments[k]
      BY <2>1, <3>1, ZenonT(30)
    <3>4. s.channels[i] \in db.channel_assignments[k]
      BY <3>2, <3>3, ZenonT(30)
    <3>5. QED
      BY <3>4, ZenonT(30)
  <2>3. db.channel_assignments = [k \in DOMAIN db.channel_assignments |-> db.channel_assignments[k]]
    BY <1>1, ZenonT(30)
  <2>4. QED
    BY <2>2, <2>3, NonEmptyListsKeep, ZenonT(30)
<1>13. ReadDlt(doc) = db
  BY <1>2, <1>3, <1>8, <1>9, <1>10, <1>11, <1>12, ZenonT(30)
<1>14. QED
  BY <1>6, <1>13, ZenonT(30) DEF db, doc

(* The settings of a sound configuration survive StoreDltConfig and a      *)
(* fresh start.                                                            *)
LEMMA RoundTrip ==
  ASSUME NEW static, StaticInv(static), ChannelsFit(static), NEW s, ServerInv(s, static)
  PROVE  Settings(InitLogChannels(static, WriteDlt(SaveDatabase(s)), None)) = Settings(s)
<1> DEFINE db == SaveDatabase(s)
           doc == WriteDlt(db)
           r == InitLogChannels(static, doc, None)
<1>1. ReadDlt(doc) = db /\ db.channels # <<>>
  BY ReadBack, ZenonT(30)
<1>2. Source(static, doc) = db
  BY <1>1, ZenonT(30) DEF Source
<1>3. Known(None, static)
  BY ZenonT(30) DEF Known
<1>4. /\ db.channels \in [Range(s.channels) -> Levels]
      /\ \A i \in DOMAIN s.channels : db.channels[s.channels[i]] = s.channel_thresholds[i]
      /\ db.channel_assignments =
              [k \in DOMAIN s.channel_assignments |-> {s.channels[i] : i \in s.channel_assignments[k]}]
      /\ db.filtering_enabled = s.filtering_enabled
      /\ db.default_threshold = s.default_threshold /\ db.message_thresholds = s.message_thresholds
  BY SavedFacts, ZenonT(30)
<1>5. s.channels = NamesOf(static) /\ DOMAIN s.channels = DOMAIN static.channels
  BY ZenonT(30) DEF ServerInv, NamesOf
<1> HIDE DEF db, doc
<1>6. \A i \in DOMAIN s.channels : ThresholdOf(static, doc, i) = s.channel_thresholds[i]
  <2>1. \A i \in DOMAIN s.channels : s.channels[i] \in DOMAIN db.channels
    BY <1>4, ZenonT(30) DEF Range
  <2>2. QED
    BY <1>1, <1>4, <1>5, <2>1, ZenonT(30) DEF ThresholdOf, Member, HasMember
<1>7. [i \in DOMAIN NamesOf(static) |-> ThresholdOf(static, doc, i)] = s.channel_thresholds
  BY <1>5, <1>6, ZenonT(30) DEF ServerInv
<1> DEFINE nums == Numbered(static, doc, None)
<1>8. \A i \in DOMAIN s.channels : nums[s.channels[i]] = i
  <2>1. /\ Range(NamesOf(static)) \subseteq DOMAIN nums
        /\ \A n \in DOMAIN nums : Stands(static, n, nums[n])
    BY <1>3, NumberedStand, ZenonT(30)
  <2> HIDE DEF nums
  <2>2. \A i \in DOMAIN s.channels : s.channels[i] \in Range(NamesOf(static))
    BY <1>5, ZenonT(30) DEF Range
  <2>3. \A i \in DOMAIN s.channels : s.channels[i] = static.channels[i].name
    BY <1>5, ZenonT(30) DEF NamesOf
  <2>4. \A i \in DOMAIN s.channels : Stands(static, s.channels[i], i)
    BY <1>5, <2>2, <2>3, ZenonT(30) DEF Stands
  <2>5. QED
    BY <2>1, <2>2, <2>4, StandsUnique, ZenonT(30)
<1>9. AssignmentsOf(static, doc, None) = [k \in DOMAIN db.channel_assignments |->
        {nums[n] : n \in db.channel_assignments[k]}]
  BY <1>2, ZenonT(30) DEF AssignmentsOf
<1> HIDE DEF nums
<1>10. \A k \in DOMAIN s.channel_assignments :
         {nums[n] : n \in {s.channels[i] : i \in s.channel_assignments[k]}} = s.channel_assignments[k]
  <2>1. \A k \in DOMAIN s.channel_assignments : s.channel_assignments[k] \subseteq DOMAIN s.channels
    BY ZenonT(30) DEF ServerInv
  <2>2. ASSUME NEW k \in DOMAIN s.channel_assignments, NEW j
        PROVE  j \in {nums[n] : n \in {s.channels[i] : i \in s.channel_assignments[k]}}
                 <=> j \in s.channel_assignments[k]
    <3>1. ASSUME j \in s.channel_assignments[k]
          PROVE  j \in {nums[n] : n \in {s.channels[i] : i \in s.channel_assignments[k]}}
      <4>1. j = nums[s.channels[j]]
        BY <1>8, <2>1, <3>1, ZenonT(30)
      <4>2. QED
        BY <3>1, <4>1, ZenonT(30)
    <3>2. ASSUME j \in {nums[n] : n \in {s.channels[i] : i \in s.channel_assignments[k]}}
          PROVE  j \in s.channel_assignments[k]
      <4>1. PICK i \in s.channel_assignments[k] : j = nums[s.channels[i]]
        BY <3>2, ZenonT(30)
      <4>2. QED
        BY <1>8, <2>1, <4>1, ZenonT(30)
    <3>3. QED
      BY <3>1, <3>2, ZenonT(30)
  <2>3. QED
    BY <2>2, ZenonT(30)
<1>11. AssignmentsOf(static, doc, None) = s.channel_assignments
  <2>1. AssignmentsOf(static, doc, None) = [k \in DOMAIN s.channel_assignments |-> s.channel_assignments[k]]
    BY <1>4, <1>9, <1>10, ZenonT(30)
  <2>2. s.channel_assignments = [k \in DOMAIN s.channel_assignments |-> s.channel_assignments[k]]
    BY ZenonT(30) DEF ServerInv
  <2>3. QED
    BY <2>1, <2>2, ZenonT(30)
<1>12. /\ r.channel_thresholds = s.channel_thresholds /\ r.channel_assignments = s.channel_assignments
       /\ r.filtering_enabled = s.filtering_enabled /\ r.default_threshold = s.default_threshold
       /\ r.message_thresholds = s.message_thresholds
  <2>1. r = [channels |-> NamesOf(static),
            channel_thresholds |-> [i \in DOMAIN NamesOf(static) |-> ThresholdOf(static, doc, i)],
            channel_nums |-> Numbered(static, doc, None),
            default_channel |-> DefaultOf(static),
            coredump_channel |-> IF None # None THEN {} ELSE IndexOf(static, static.coredump_channel),
            channel_assignments |-> AssignmentsOf(static, doc, None),
            filtering_enabled |-> Source(static, doc).filtering_enabled,
            default_threshold |-> Source(static, doc).default_threshold,
            message_thresholds |-> Source(static, doc).message_thresholds]
    BY InitFields, ZenonT(30)
  <2> HIDE DEF r
  <2>2. QED
    BY <1>2, <1>4, <1>7, <1>11, <2>1, ZenonT(30)
<1> HIDE DEF r
<1>13. Settings(r) = Settings(s)
  BY <1>12, SameSettings, ZenonT(30)
<1>14. QED
  BY <1>13, ZenonT(30) DEF r, db, doc

(* A command changes one of the settings to another that is sound.         *)
SoundSettings(s, r) ==
  /\ RecordForm(r) /\ r.channels = s.channels /\ r.channel_nums = s.channel_nums
  /\ r.default_channel = s.default_channel /\ r.coredump_channel = s.coredump_channel
  /\ r.channel_thresholds \in [DOMAIN s.channels -> Levels]
  /\ r.channel_assignments \in [DOMAIN r.channel_assignments -> (SUBSET DOMAIN s.channels) \ {{}}]
  /\ r.default_threshold \in Levels
  /\ r.message_thresholds \in [DOMAIN r.message_thresholds -> Levels]

(* Sound settings keep the configuration sound.                            *)
LEMMA SettingsSound ==
  ASSUME NEW static, NEW s, ServerInv(s, static), NEW r, SoundSettings(s, r)
  PROVE  ServerInv(r, static)
BY ZenonT(30) DEF ServerInv, SoundSettings

(* A sound configuration has sound settings, and these are its members.    *)
LEMMA SoundFields ==
  ASSUME NEW static, NEW s, ServerInv(s, static)
  PROVE  /\ RecordForm(s) /\ SoundSettings(s, s)
         /\ \A f \in {"channels", "channel_thresholds", "channel_nums", "default_channel", "coredump_channel",
              "channel_assignments", "filtering_enabled", "default_threshold",
              "message_thresholds"} :
              f \in ServerFields
BY ZenonT(30) DEF ServerInv, SoundSettings, ServerFields

(* SetLogChannelThreshold keeps the configuration sound.                   *)
LEMMA ThresholdSet ==
  ASSUME NEW static, NEW s, ServerInv(s, static), NEW i, NEW l \in Levels
  PROVE  ServerInv([s EXCEPT !.channel_thresholds[i] = l], static)
<1> DEFINE t == [s.channel_thresholds EXCEPT ![i] = l]
           r == [s EXCEPT !.channel_thresholds = t]
<1>1. RecordForm(s) /\ SoundSettings(s, s) /\ "channel_thresholds" \in ServerFields
  BY SoundFields, ZenonT(30)
<1>2. t \in [DOMAIN s.channels -> Levels]
  BY <1>1, ZenonT(30) DEF SoundSettings
<1> HIDE DEF t
<1>3. RecordForm(r) /\ r.channel_thresholds = t /\ \A g \in ServerFields \ {"channel_thresholds"} : r[g] = s[g]
  BY <1>1, SetField, SMTT(30)
<1> HIDE DEF r
<1>4. /\ r.channels = s.channels /\ r.channel_nums = s.channel_nums /\ r.default_channel = s.default_channel
      /\ r.coredump_channel = s.coredump_channel /\ r.channel_assignments = s.channel_assignments
      /\ r.default_threshold = s.default_threshold /\ r.message_thresholds = s.message_thresholds
  BY <1>3, SMTT(30) DEF ServerFields
<1>5. SoundSettings(s, r)
  BY <1>1, <1>2, <1>3, <1>4, ZenonT(30) DEF SoundSettings
<1>6. [s EXCEPT !.channel_thresholds[i] = l] = r
  BY ZenonT(30) DEF r, t
<1>7. QED
  BY <1>5, <1>6, SettingsSound, ZenonT(30)

(* So does SetLogLevel.                                                    *)
LEMMA LevelSet ==
  ASSUME NEW static, NEW s, ServerInv(s, static), NEW m, m \in [DOMAIN m -> Levels]
  PROVE  ServerInv([s EXCEPT !.message_thresholds = m], static)
<1> DEFINE r == [s EXCEPT !.message_thresholds = m]
<1>1. RecordForm(s) /\ SoundSettings(s, s) /\ "message_thresholds" \in ServerFields
  BY SoundFields, ZenonT(30)
<1>2. RecordForm(r) /\ r.message_thresholds = m /\ \A g \in ServerFields \ {"message_thresholds"} : r[g] = s[g]
  BY <1>1, SetField, SMTT(30)
<1> HIDE DEF r
<1>3. /\ r.channels = s.channels /\ r.channel_nums = s.channel_nums /\ r.default_channel = s.default_channel
      /\ r.coredump_channel = s.coredump_channel /\ r.channel_assignments = s.channel_assignments
      /\ r.default_threshold = s.default_threshold /\ r.channel_thresholds = s.channel_thresholds
  BY <1>2, SMTT(30) DEF ServerFields
<1>4. SoundSettings(s, r)
  BY <1>1, <1>2, <1>3, ZenonT(30) DEF SoundSettings
<1>5. QED
  BY <1>4, SettingsSound, ZenonT(30) DEF r

(* So does SetMessagingFilteringState.                                     *)
LEMMA FilteringSet ==
  ASSUME NEW static, NEW s, ServerInv(s, static), NEW b
  PROVE  ServerInv([s EXCEPT !.filtering_enabled = b], static)
<1> DEFINE r == [s EXCEPT !.filtering_enabled = b]
<1>1. RecordForm(s) /\ SoundSettings(s, s) /\ "filtering_enabled" \in ServerFields
  BY SoundFields, ZenonT(30)
<1>2. RecordForm(r) /\ \A g \in ServerFields \ {"filtering_enabled"} : r[g] = s[g]
  BY <1>1, SetField, SMTT(30)
<1> HIDE DEF r
<1>3. /\ r.channels = s.channels /\ r.channel_nums = s.channel_nums /\ r.default_channel = s.default_channel
      /\ r.coredump_channel = s.coredump_channel /\ r.channel_assignments = s.channel_assignments
      /\ r.default_threshold = s.default_threshold /\ r.channel_thresholds = s.channel_thresholds
      /\ r.message_thresholds = s.message_thresholds
  BY <1>2, SMTT(30) DEF ServerFields
<1>4. SoundSettings(s, r)
  BY <1>1, <1>2, <1>3, ZenonT(30) DEF SoundSettings
<1>5. QED
  BY <1>4, SettingsSound, ZenonT(30) DEF r

(* So does SetDefaultLogLevel.                                             *)
LEMMA DefaultLevelSet ==
  ASSUME NEW static, NEW s, ServerInv(s, static), NEW l \in Levels
  PROVE  ServerInv([s EXCEPT !.default_threshold = l], static)
<1> DEFINE r == [s EXCEPT !.default_threshold = l]
<1>1. RecordForm(s) /\ SoundSettings(s, s) /\ "default_threshold" \in ServerFields
  BY SoundFields, ZenonT(30)
<1>2. RecordForm(r) /\ r.default_threshold = l /\ \A g \in ServerFields \ {"default_threshold"} : r[g] = s[g]
  BY <1>1, SetField, SMTT(30)
<1> HIDE DEF r
<1>3. /\ r.channels = s.channels /\ r.channel_nums = s.channel_nums /\ r.default_channel = s.default_channel
      /\ r.coredump_channel = s.coredump_channel /\ r.channel_assignments = s.channel_assignments
      /\ r.message_thresholds = s.message_thresholds /\ r.channel_thresholds = s.channel_thresholds
  BY <1>2, SMTT(30) DEF ServerFields
<1>4. SoundSettings(s, r)
  BY <1>1, <1>2, <1>3, ZenonT(30) DEF SoundSettings
<1>5. QED
  BY <1>4, SettingsSound, ZenonT(30) DEF r

(* So does SetLogChannelAssignment, if no list of channels becomes empty.  *)
LEMMA AssignmentSet ==
  ASSUME NEW static, NEW s, ServerInv(s, static), NEW a,
         a \in [DOMAIN a -> (SUBSET DOMAIN s.channels) \ {{}}]
  PROVE  ServerInv([s EXCEPT !.channel_assignments = a], static)
<1> DEFINE r == [s EXCEPT !.channel_assignments = a]
<1>1. RecordForm(s) /\ SoundSettings(s, s) /\ "channel_assignments" \in ServerFields
  BY SoundFields, ZenonT(30)
<1>2. RecordForm(r) /\ r.channel_assignments = a /\ \A g \in ServerFields \ {"channel_assignments"} : r[g] = s[g]
  BY <1>1, SetField, SMTT(30)
<1> HIDE DEF r
<1>3. /\ r.channels = s.channels /\ r.channel_nums = s.channel_nums /\ r.default_channel = s.default_channel
      /\ r.coredump_channel = s.coredump_channel /\ r.default_threshold = s.default_threshold
      /\ r.message_thresholds = s.message_thresholds /\ r.channel_thresholds = s.channel_thresholds
  BY <1>2, SMTT(30) DEF ServerFields
<1>4. SoundSettings(s, r)
  BY <1>1, <1>2, <1>3, ZenonT(30) DEF SoundSettings
<1>5. QED
  BY <1>4, SettingsSound, ZenonT(30) DEF r

(* The static file gives a sound static configuration.                     *)
LEMMA StaticSound ==
  ASSUME NEW doc \in Files, ~StaticDltError(doc) PROVE StaticInv(ReadStaticDlt(doc))
<1> DEFINE st == ReadStaticDlt(doc)
           chans == doc.channels
<1>1. /\ DOMAIN chans = 1..Len(chans) /\ Len(chans) \in Nat /\ chans # <<>>
      /\ \A i, j \in DOMAIN chans : chans[i].name = chans[j].name => i = j
  BY ServerConfigAssumption, ZenonT(30) DEF StaticDltError, HasMember
<1>2. /\ st.channels = [i \in DOMAIN chans |->
                  [name |-> chans[i].name, threshold |-> ToLogLevel(chans[i].channelThreshold)]]
      /\ st.channel_assignments = NonEmptyLists(doc.channelAssignments)
      /\ \E name : st.default_threshold = ToLogLevel(name) \/ st.default_threshold = kVerbose
      /\ st.message_thresholds = NamedLevels(doc.messageThresholds)
  BY ZenonT(30) DEF ReadStaticDlt
<1> HIDE DEF chans, st
<1>3. DOMAIN st.channels = DOMAIN chans
  BY <1>2, ZenonT(30)
<1>4. \A i \in DOMAIN chans : /\ st.channels[i].name = chans[i].name
                              /\ st.channels[i].threshold = ToLogLevel(chans[i].channelThreshold)
  BY <1>2, SMTT(30)
<1>5. DOMAIN st.channels = 1..Len(st.channels) /\ Len(st.channels) \in Nat \ {0}
  <2> DEFINE n == Len(chans)
             g == st.channels
  <2>1. n \in Nat /\ DOMAIN chans = 1..n
    BY <1>1, ZenonT(30)
  <2>2. DOMAIN g = 1..n
    BY <1>3, <2>1, ZenonT(30)
  <2>3. \E e : g = [i \in 1..n |-> g[i]]
    BY <1>2, <2>2, ZenonT(30)
  <2>4. n # 0
    BY <1>1 DEF chans
  <2> HIDE DEF n, g
  <2>5. Len(g) = n
    BY <2>1, <2>2, <2>3, SMTT(30)
  <2> QED
    BY <2>1, <2>2, <2>4, <2>5, ZenonT(30) DEF g
<1>6. \A i \in DOMAIN st.channels : st.channels[i].threshold \in Levels
  BY <1>3, <1>4, LevelRead, ZenonT(30)
<1>7. \A i, j \in DOMAIN st.channels : st.channels[i].name = st.channels[j].name => i = j
  BY <1>1, <1>3, <1>4, ZenonT(30)
<1>8. /\ st.channel_assignments = [k \in DOMAIN st.channel_assignments |-> st.channel_assignments[k]]
      /\ \A k \in DOMAIN st.channel_assignments : st.channel_assignments[k] # {}
  BY <1>2, NonEmptyListsType, ZenonT(30)
<1>9. kVerbose \in Levels
  BY SMTT(30) DEF Levels, kOff, kVerbose
<1>10. st.default_threshold \in Levels
  BY <1>2, <1>9, LevelRead, ZenonT(30)
<1>11. st.message_thresholds \in [DOMAIN st.message_thresholds -> Levels]
  BY <1>2, NamedLevelsType, ZenonT(30)
<1> QED
  BY <1>5, <1>6, <1>7, <1>8, <1>10, <1>11, ZenonT(30) DEF StaticInv, st

(* What the dictionary holds after a string or a flag was set.             *)
LEMMA StringSet ==
  ASSUME NEW dict, DictionaryInv(dict), NEW value
  PROVE  /\ DictionaryInv(SetString(dict, value)) /\ SetString(dict, value).kind = dict.kind
         /\ dict.kind # "stub" => SetString(dict, value).dltConfig = value
         /\ dict.kind = "stub" => SetString(dict, value).dltConfig = <<>>
<1>1. CASE dict.kind = "stub"
  BY <1>1, ZenonT(30) DEF SetString, DictionaryInv
<1>2. CASE dict.kind # "stub"
  <2>1. SetString(dict, value) = [dict EXCEPT !.dltConfig = value]
    BY <1>2, ZenonT(30) DEF SetString, Keep
  <2>2. \A k, t, o : [[kind |-> k, dltConfig |-> t, dltOutputEnabled |-> o] EXCEPT !.dltConfig = value] =
                     [kind |-> k, dltConfig |-> value, dltOutputEnabled |-> o]
    BY SMTT(30)
  <2>3. SetString(dict, value) =
          [kind |-> dict.kind, dltConfig |-> value, dltOutputEnabled |-> dict.dltOutputEnabled]
    BY <2>1, <2>2, ZenonT(30) DEF DictionaryInv
  <2> DEFINE r == SetString(dict, value)
  <2>4. r.kind = dict.kind /\ r.dltConfig = value /\ r.dltOutputEnabled = dict.dltOutputEnabled
    BY <2>3, SMTT(30)
  <2>5. r = [kind |-> r.kind, dltConfig |-> r.dltConfig, dltOutputEnabled |-> r.dltOutputEnabled]
    BY <2>3, <2>4, ZenonT(30)
  <2> QED
    BY <1>2, <2>4, <2>5, ZenonT(30) DEF DictionaryInv
<1> QED
  BY <1>1, <1>2, ZenonT(30)

(* Setting the flag leaves the stored configuration alone.                 *)
LEMMA BoolSet ==
  ASSUME NEW dict, DictionaryInv(dict), NEW value
  PROVE  /\ DictionaryInv(SetBool(dict, value)) /\ SetBool(dict, value).kind = dict.kind
         /\ SetBool(dict, value).dltConfig = dict.dltConfig
<1>1. CASE dict.kind = "stub"
  BY <1>1, ZenonT(30) DEF SetBool, DictionaryInv
<1>2. CASE dict.kind # "stub"
  <2>1. SetBool(dict, value) = [dict EXCEPT !.dltOutputEnabled = value]
    BY <1>2, ZenonT(30) DEF SetBool, Keep
  <2>2. \A k, t, o : [[kind |-> k, dltConfig |-> t, dltOutputEnabled |-> o] EXCEPT !.dltOutputEnabled = value] =
                     [kind |-> k, dltConfig |-> t, dltOutputEnabled |-> value]
    BY SMTT(30)
  <2>3. SetBool(dict, value) =
          [kind |-> dict.kind, dltConfig |-> dict.dltConfig, dltOutputEnabled |-> value]
    BY <2>1, <2>2, ZenonT(30) DEF DictionaryInv
  <2> DEFINE r == SetBool(dict, value)
  <2>4. r.kind = dict.kind /\ r.dltConfig = dict.dltConfig /\ r.dltOutputEnabled = value
    BY <2>3, SMTT(30)
  <2>5. r = [kind |-> r.kind, dltConfig |-> r.dltConfig, dltOutputEnabled |-> r.dltOutputEnabled]
    BY <2>3, <2>4, ZenonT(30)
  <2> QED
    BY <1>2, <2>4, <2>5, ZenonT(30) DEF DictionaryInv
<1> QED
  BY <1>1, <1>2, ZenonT(30)

(* A sound configuration is there.                                         *)
LEMMA SoundIsThere ==
  ASSUME NEW static, NEW s, ServerInv(s, static) PROVE s # None
<1>1. RecordForm(s)
  BY ZenonT(30) DEF ServerInv
<1>2. "channels" \in DOMAIN s
  BY <1>1, FormDomain, ZenonT(30) DEF ServerFields
<1> QED
  BY <1>2, NotEmpty, ZenonT(30) DEF None

(* The bytes of a command that is executed are levels.                     *)
LEMMA CommandFields ==
  ASSUME NEW c \in Commands, Parse(c)
  PROVE  /\ c.id \in {"SetLogChannelThreshold", "SetDefaultLogLevel"} => c.byte \in Levels
         /\ c.id = "SetLogLevel" => c.byte = kUseDefault \/ c.byte \in Levels
<1> DEFINE Levelled == {"SetLogChannelThreshold", "SetDefaultLogLevel", "SetLogLevel"}
<1>1. c.id \in Levelled => c.byte \in LevelBytes
  <2>1. CASE c \in {[id |-> i] : i \in {"ReadLogChannelNames", "ResetToDefault", "StoreDltConfig",
                       "SetTraceState", "SetDefaultTraceState", "malformed"}}
    BY <2>1, SMTT(30)
  <2>2. CASE c \in [id : {"SetLogChannelThreshold"}, channel : Names, byte : LevelBytes]
    BY <2>2, ZenonT(30)
  <2>3. CASE c \in [id : {"SetLogLevel"}, key : Keys, byte : LevelBytes]
    BY <2>3, ZenonT(30)
  <2>4. CASE c \in [id : {"SetMessagingFilteringState"}, byte : 0..1]
    BY <2>4, ZenonT(30)
  <2>5. CASE c \in [id : {"SetDefaultLogLevel"}, byte : LevelBytes]
    BY <2>5, ZenonT(30)
  <2>6. CASE c \in [id : {"SetLogChannelAssignment"}, key : Keys, channel : Names, byte : kRemove..kAdd]
    BY <2>6, ZenonT(30)
  <2> QED
    BY <2>1, <2>2, <2>3, <2>4, <2>5, <2>6, ZenonT(30) DEF Commands
<1>2. \A b \in LevelBytes : TryGetLogLevelFromU8(b) => b \in Levels
  BY ServerConfigAssumption, SMTT(30)
  DEF TryGetLogLevelFromU8, Levels, kOff, kVerbose
<1> QED
  BY <1>1, <1>2, ZenonT(30) DEF Parse, ArgumentFits

(* Entries that are set or removed leave a map of levels, and lists of     *)
(* channels that are not empty.                                            *)
LEMMA MapSet ==
  ASSUME NEW V, NEW f, f \in [DOMAIN f -> V], NEW k
  PROVE  /\ Without(f, k) \in [DOMAIN Without(f, k) -> V]
         /\ \A v \in V : With(f, k, v) \in [DOMAIN With(f, k, v) -> V]
<1>1. Without(f, k) = [x \in DOMAIN f \ {k} |-> f[x]]
  BY ZenonT(30) DEF Without, Restrict
<1>2. Without(f, k) \in [DOMAIN f \ {k} -> V]
  BY <1>1, ZenonT(30)
<1>3. ASSUME NEW v \in V PROVE With(f, k, v) \in [DOMAIN f \cup {k} -> V]
  <2>1. \A x \in DOMAIN f \cup {k} : (IF x = k THEN v ELSE f[x]) \in V
    BY ZenonT(30)
  <2> QED
    BY <2>1, ZenonT(30) DEF With
<1> QED
  BY <1>2, <1>3, ZenonT(30)

(* Adding or removing a channel leaves no empty list.                      *)
LEMMA AssignedSound ==
  ASSUME NEW C, NEW f, f \in [DOMAIN f -> (SUBSET C) \ {{}}], NEW k, NEW i \in C, NEW action
  PROVE  Assigned(f, k, i, action) \in [DOMAIN Assigned(f, k, i, action) -> (SUBSET C) \ {{}}]
<1> DEFINE have == IF k \in DOMAIN f THEN f[k] ELSE {}
           left == IF action = kAdd THEN have \cup {i} ELSE have \ {i}
           V == (SUBSET C) \ {{}}
<1>1. have \in SUBSET C
  BY ZenonT(30)
<1>2. left \in SUBSET C
  BY <1>1, ZenonT(30)
<1>3. Assigned(f, k, i, action) = IF left = {} THEN Without(f, k) ELSE With(f, k, left)
  BY ZenonT(30) DEF Assigned
<1> HIDE DEF have, left
<1>4. left # {} => left \in V
  BY <1>2, ZenonT(30)
<1> HIDE DEF V
<1>5. f \in [DOMAIN f -> V]
  BY ZenonT(30) DEF V
<1>6. /\ Without(f, k) \in [DOMAIN Without(f, k) -> V]
      /\ \A v \in V : With(f, k, v) \in [DOMAIN With(f, k, v) -> V]
  BY <1>5, MapSet, ZenonT(30)
<1>7. Assigned(f, k, i, action) \in [DOMAIN Assigned(f, k, i, action) -> V]
  BY <1>3, <1>4, <1>6, ZenonT(30)
<1> QED
  BY <1>7, ZenonT(30) DEF V

(* What a command does to a sound configuration.                           *)
LEMMA CommandSound ==
  ASSUME NEW c \in Commands, Parse(c), Execute(c), DictionaryInv(dictionary),
         StaticInv(static_config), ServerInv(server, static_config)
  PROVE  /\ static_config' = static_config
         /\ ServerInv(server', static_config) /\ DictionaryInv(dictionary')
         /\ \/ dictionary' = dictionary /\ stored' = stored
            \/ c.id = "ResetToDefault" /\ ResetToDefault(c) /\ stored' = None
            \/ /\ dictionary' = SetString(dictionary, WriteDlt(SaveDatabase(server)))
               /\ stored' = [static |-> static_config, settings |-> Settings(server)]
<1>1. CASE c.id = "ResetToDefault" /\ ResetToDefault(c)
  <2>1. Known(server, static_config)
    BY ZenonT(30) DEF Known
  <2>2. ServerInv(server', static_config)
    BY <1>1, <2>1, InitSound, ZenonT(30) DEF ResetToDefault
  <2>3. DictionaryInv(dictionary')
    BY <1>1, StringSet, ZenonT(30) DEF ResetToDefault, ClearDatabase
  <2> QED
    BY <1>1, <2>2, <2>3, ZenonT(30) DEF ResetToDefault
<1>2. CASE c.id = "StoreDltConfig" /\ StoreDltConfig(c)
  <2>1. DictionaryInv(dictionary')
    BY <1>2, StringSet, ZenonT(30) DEF StoreDltConfig
  <2> QED
    BY <1>2, <2>1, ZenonT(30) DEF StoreDltConfig, serverVars
<1>3. CASE c.id = "SetLogChannelThreshold" /\ SetLogChannelThreshold(c)
  <2>1. c.byte \in Levels
    BY <1>3, CommandFields, ZenonT(30)
  <2> QED
    BY <1>3, <2>1, ThresholdSet, ZenonT(30)
    DEF SetLogChannelThreshold, Configure
<1>4. CASE c.id = "SetLogLevel" /\ SetLogLevel(c)
  <2> DEFINE erased == Without(server.message_thresholds, c.key)
             m == IF c.byte = kUseDefault THEN erased ELSE With(erased, c.key, c.byte)
  <2>1. c.byte = kUseDefault \/ c.byte \in Levels
    BY <1>4, CommandFields, ZenonT(30)
  <2>2. server.message_thresholds \in [DOMAIN server.message_thresholds -> Levels]
    BY ZenonT(30) DEF ServerInv
  <2>3. erased \in [DOMAIN erased -> Levels]
    BY <2>2, MapSet, ZenonT(30)
  <2>4. Configure(c, [server EXCEPT !.message_thresholds = m])
    BY <1>4, ZenonT(30) DEF SetLogLevel
  <2> HIDE DEF erased
  <2>5. m \in [DOMAIN m -> Levels]
    <3>1. CASE c.byte = kUseDefault
      BY <2>3, <3>1, ZenonT(30)
    <3>2. CASE c.byte # kUseDefault
      BY <2>1, <2>3, <3>2, MapSet, ZenonT(30)
    <3> QED
      BY <3>1, <3>2, ZenonT(30)
  <2> HIDE DEF m
  <2>6. ServerInv([server EXCEPT !.message_thresholds = m], static_config)
    BY <2>5, LevelSet, ZenonT(30)
  <2> QED
    BY <2>4, <2>6, ZenonT(30) DEF Configure
<1>5. CASE c.id = "SetMessagingFilteringState" /\ SetMessagingFilteringState(c)
  BY <1>5, FilteringSet, ZenonT(30) DEF SetMessagingFilteringState, Configure
<1>6. CASE c.id = "SetDefaultLogLevel" /\ SetDefaultLogLevel(c)
  <2>1. c.byte \in Levels
    BY <1>6, CommandFields, ZenonT(30)
  <2> QED
    BY <1>6, <2>1, DefaultLevelSet, ZenonT(30) DEF SetDefaultLogLevel, Configure
<1>7. CASE c.id = "SetLogChannelAssignment" /\ SetLogChannelAssignment(c)
  <2> DEFINE i == server.channel_nums[c.channel]
             a == Assigned(server.channel_assignments, c.key, i, c.byte)
  <2>1. i \in DOMAIN server.channels
    BY <1>7, ZenonT(30) DEF ServerInv, SetLogChannelAssignment
  <2>2. Configure(c, [server EXCEPT !.channel_assignments = a])
    BY <1>7, ZenonT(30) DEF SetLogChannelAssignment
  <2>3. server.channel_assignments \in
          [DOMAIN server.channel_assignments -> (SUBSET DOMAIN server.channels) \ {{}}]
    BY ZenonT(30) DEF ServerInv
  <2> HIDE DEF i
  <2>4. a \in [DOMAIN a -> (SUBSET DOMAIN server.channels) \ {{}}]
    BY <2>1, <2>3, AssignedSound, ZenonT(30)
  <2> HIDE DEF a
  <2>5. ServerInv([server EXCEPT !.channel_assignments = a], static_config)
    BY <2>4, AssignmentSet, ZenonT(30)
  <2> QED
    BY <2>2, <2>5, ZenonT(30) DEF Configure
<1>8. CASE ReadLogChannelNames(c) \/ SetTraceState(c) \/ UnknownChannel(c)
  BY <1>8, ZenonT(30)
  DEF ReadLogChannelNames, SetTraceState, UnknownChannel, serverVars
<1> QED
  BY <1>1, <1>2, <1>3, <1>4, <1>5, <1>6, <1>7, <1>8, ZenonT(30) DEF Execute

(* What was stored is still what a start would read, unless it changes.    *)
LEMMA RoundTripKept ==
  ASSUME StoreRoundTrip, stored' = stored, dictionary'.kind = dictionary.kind,
         dictionary'.dltConfig = dictionary.dltConfig
  PROVE  StoreRoundTrip'
<1>1. InitLogChannels(stored.static, dictionary.dltConfig, None)' =
        InitLogChannels(stored.static, dictionary.dltConfig, None)
  BY ZenonT(30)
<1> QED
  BY <1>1, ZenonT(30) DEF StoreRoundTrip

(* After every command the stored configuration is one that a start reads  *)
(* back.                                                                   *)
LEMMA CommandRoundTrip ==
  ASSUME NEW c \in Commands, OnConfigCommand(c), ConfigInv, server # None
  PROVE  /\ static_config' = static_config /\ ServerInv(server', static_config)
         /\ DictionaryInv(dictionary') /\ StoreRoundTrip'
<1>1. StaticInv(static_config) /\ ServerInv(server, static_config) /\ DictionaryInv(dictionary) /\ StoreRoundTrip
  BY ZenonT(30) DEF ConfigInv
<1>2. CASE OnConfigCommandError(c)
  <2>1. dictionary' = dictionary /\ static_config' = static_config /\ server' = server /\ stored' = stored
    BY <1>2, ZenonT(30) DEF OnConfigCommandError, serverVars
  <2>2. StoreRoundTrip'
    BY <1>1, <2>1, RoundTripKept, ZenonT(30)
  <2> QED
    BY <1>1, <2>1, <2>2, ZenonT(30)
<1>3. CASE Parse(c) /\ Execute(c)
  <2>1. /\ static_config' = static_config
        /\ ServerInv(server', static_config) /\ DictionaryInv(dictionary')
        /\ \/ dictionary' = dictionary /\ stored' = stored
           \/ c.id = "ResetToDefault" /\ ResetToDefault(c) /\ stored' = None
           \/ /\ dictionary' = SetString(dictionary, WriteDlt(SaveDatabase(server)))
              /\ stored' = [static |-> static_config, settings |-> Settings(server)]
    BY <1>1, <1>3, CommandSound, ZenonT(30)
  <2>2. ASSUME dictionary' = dictionary, stored' = stored PROVE StoreRoundTrip'
    BY <1>1, <2>2, RoundTripKept, ZenonT(30)
  <2>3. ASSUME stored' = None PROVE StoreRoundTrip'
    BY <2>3, ZenonT(30) DEF StoreRoundTrip
  <2>4. ASSUME dictionary' = SetString(dictionary, WriteDlt(SaveDatabase(server))),
               stored' = [static |-> static_config, settings |-> Settings(server)]
        PROVE  StoreRoundTrip'
    <3>1. stored'.static = static_config /\ stored'.settings = Settings(server)
      BY <2>4, ZenonT(30)
    <3>2. dictionary'.kind = "keeping" => dictionary'.dltConfig = WriteDlt(SaveDatabase(server))
      BY <1>1, <2>4, StringSet, ZenonT(30)
    <3>3. ChannelsFit(static_config) =>
            Settings(InitLogChannels(static_config,
            WriteDlt(SaveDatabase(server)), None)) = Settings(server)
      BY <1>1, RoundTrip, ZenonT(30)
    <3> QED
      BY <3>1, <3>2, <3>3, ZenonT(30) DEF StoreRoundTrip
  <2>5. StoreRoundTrip'
    BY <2>1, <2>2, <2>3, <2>4, ZenonT(30)
  <2> QED
    BY <2>1, <2>5, ZenonT(30)
<1> QED
  BY <1>2, <1>3, ZenonT(30) DEF OnConfigCommand

(* The invariant holds before the daemon is built.                         *)
LEMMA ConfigInvInit == SocketInit => ConfigInv
<1> SUFFICES ASSUME SocketInit PROVE ConfigInv
  OBVIOUS
<1>1. built = 0 /\ commands = 0 /\ server = None /\ stored = None
  BY ZenonT(30) DEF SocketInit
<1>2. built \in Nat /\ commands \in Nat /\ ~(built >= 2)
  BY <1>1, SMTT(30)
<1>3. PICK kind : dictionary = [kind |-> kind, dltConfig |-> <<>>, dltOutputEnabled |-> TRUE]
  BY ZenonT(30) DEF SocketInit, StubDictionary, KeepingDictionary
<1>4. dictionary.kind = kind /\ dictionary.dltConfig = <<>> /\ dictionary.dltOutputEnabled = TRUE
  BY <1>3, SMTT(30)
<1>5. DictionaryInv(dictionary)
  BY <1>3, <1>4, ZenonT(30) DEF DictionaryInv
<1> QED
  BY <1>1, <1>2, <1>5, ZenonT(30) DEF ConfigInv, StoreRoundTrip

(* The steps that leave the configuration alone.                           *)
LEMMA ConfigKept ==
  ASSUME ConfigInv, commands' \in Nat, built' \in Nat, built' >= 2 => built >= 2,
         server' = server, static_config' = static_config, dictionary' = dictionary, stored' = stored
  PROVE  ConfigInv'
<1>1. StoreRoundTrip'
  BY RoundTripKept, ZenonT(30) DEF ConfigInv
<1>2. DictionaryInv(dictionary)' /\ (server' # None => StaticInv(static_config') /\ ServerInv(server', static_config'))
  BY ZenonT(30) DEF ConfigInv
<1> QED
  BY <1>1, <1>2, ZenonT(30) DEF ConfigInv

(* The command thread runs only when there is a configuration.             *)
LEMMA CommandNeedsServer ==
  ASSUME built \in Nat, Exists("unix_domain_server") PROVE built >= 2
<1>1. PICK i \in 1..built : Objects[i] = "unix_domain_server"
  BY ZenonT(30) DEF Exists
<1>2. Objects[1] # "unix_domain_server"
  BY SMTT(30) DEF Objects
<1>3. i # 1
  BY <1>1, <1>2, ZenonT(30)
<1> QED
  BY <1>1, <1>3, SMTT(30)

(* Every step keeps the invariant.                                         *)
LEMMA ConfigInvNext == ConfigInv /\ [SocketNext]_allVars => ConfigInv'
<1> SUFFICES ASSUME ConfigInv, [SocketNext]_allVars PROVE ConfigInv'
  OBVIOUS
<1>1. built \in Nat /\ (built >= 2 => server # None) /\ DictionaryInv(dictionary) /\ StoreRoundTrip
  BY ZenonT(30) DEF ConfigInv
<1>2. commands' \in Nat
  <2>1. commands' = commands \/ commands' = commands + 1
    BY ZenonT(60)
    DEF SocketNext, allVars, configVars, InitializePersistentStorage,
        CreateDltServer,
       CreateNext, LeaveEventLoop, DestroyLast, Restart, Command,
       OnConfigCommand, SetDltOutputEnable,
       WriteDltEnabled, ForEachSource, SetDltOutputEnableAgain,
       ReadOutputEnabled, NewSourceSession,
       NoSourceSession, EndSourceSession
  <2>2. commands \in Nat
    BY ZenonT(30) DEF ConfigInv
  <2> QED
    BY <2>1, <2>2, SMTT(30)
<1> DEFINE Keeps == server' = server /\ static_config' = static_config /\ dictionary' = dictionary /\ stored' = stored
<1>3. ASSUME Keeps, built' = built PROVE ConfigInv'
  BY <1>1, <1>3, <1>2, ConfigKept, ZenonT(30)
<1>4. CASE InitializePersistentStorage
  <2>1. Keeps
    BY <1>4, ZenonT(30) DEF InitializePersistentStorage, configVars
  <2>2. built' = 1
    BY <1>4, ZenonT(30) DEF InitializePersistentStorage
  <2>3. built' \in Nat /\ (built' >= 2 => built >= 2)
    BY <2>2, SMTT(30)
  <2> QED
    BY <2>1, <2>3, <1>2, ConfigKept, ZenonT(30)
<1>5. CASE \E doc \in Files : CreateDltServer(doc)
  <2>1. PICK doc \in Files : CreateDltServer(doc)
    BY <1>5, ZenonT(30)
  <2>2. CASE StaticDltError(doc)
    BY <1>3, <2>1, <2>2, ZenonT(30) DEF CreateDltServer, serverVars
  <2>3. CASE ~StaticDltError(doc)
    <3>1. /\ static_config' = ReadStaticDlt(doc) /\ built' = 2
          /\ server' = InitLogChannels(static_config', dictionary.dltConfig, None)
          /\ dictionary' = dictionary /\ stored' = stored
      BY <2>1, <2>3, ZenonT(30) DEF CreateDltServer, Start
    <3>2. StaticInv(static_config')
      BY <2>3, <3>1, StaticSound, ZenonT(30)
    <3>3. Known(None, static_config')
      BY ZenonT(30) DEF Known
    <3>4. ServerInv(server', static_config')
      BY <3>1, <3>2, <3>3, InitSound, ZenonT(30)
    <3>5. server' # None
      BY <3>4, SoundIsThere, ZenonT(30)
    <3>6. StoreRoundTrip'
      BY <1>1, <3>1, RoundTripKept, ZenonT(30)
    <3>7. built' \in Nat
      BY <3>1, SMTT(30)
    <3>8. DictionaryInv(dictionary)'
      BY <1>1, <3>1, ZenonT(30)
    <3> QED
      BY <1>2, <3>2, <3>4, <3>5, <3>6, <3>7, <3>8, ZenonT(30) DEF ConfigInv
  <2> QED
    BY <2>2, <2>3, ZenonT(30)
<1>6. CASE CreateNext
  <2>1. Keeps
    BY <1>6, ZenonT(30) DEF CreateNext, configVars
  <2>2. built >= 2 /\ built' = built + 1
    BY <1>6, ZenonT(30) DEF CreateNext
  <2>3. built' \in Nat
    BY <1>1, <2>2, SMTT(30)
  <2> QED
    BY <2>1, <2>2, <2>3, <1>2, ConfigKept, ZenonT(30)
<1>7. CASE DestroyLast
  <2>1. Keeps
    BY <1>7, ZenonT(30) DEF DestroyLast, configVars
  <2>2. built > 0 /\ built' = built - 1
    BY <1>7, ZenonT(30) DEF DestroyLast
  <2>3. built' \in Nat /\ (built' >= 2 => built >= 2)
    BY <1>1, <2>2, SMTT(30)
  <2> QED
    BY <2>1, <2>3, <1>2, ConfigKept, ZenonT(30)
<1>8. CASE Restart
  <2>1. server' = None /\ built' = 0 /\ dictionary' = dictionary /\ stored' = stored
    BY <1>8, ZenonT(30) DEF Restart, NoProcess
  <2>2. built' \in Nat /\ ~(built' >= 2)
    BY <2>1, SMTT(30)
  <2>3. StoreRoundTrip'
    BY <1>1, <2>1, RoundTripKept, ZenonT(30)
  <2>4. DictionaryInv(dictionary)'
    BY <1>1, <2>1, ZenonT(30)
  <2> QED
    BY <1>2, <2>1, <2>2, <2>3, <2>4, ZenonT(30) DEF ConfigInv
<1>9. CASE \E c \in Commands : Command(c)
  <2>1. PICK c \in Commands : Command(c)
    BY <1>9, ZenonT(30)
  <2>2. server # None
    BY <1>1, <2>1, CommandNeedsServer, ZenonT(30) DEF Command
  <2>3. StaticInv(static_config)
    BY <2>2, ZenonT(30) DEF ConfigInv
  <2>4. /\ static_config' = static_config /\ ServerInv(server', static_config)
        /\ DictionaryInv(dictionary') /\ StoreRoundTrip'
    BY <2>1, <2>2, CommandRoundTrip, ZenonT(30) DEF Command
  <2>5. server' # None
    BY <2>4, SoundIsThere, ZenonT(30)
  <2>6. built' = built
    BY <2>1, ZenonT(30) DEF Command, socketVars
  <2> QED
    BY <1>2, <1>1, <2>3, <2>4, <2>5, <2>6, ZenonT(30) DEF ConfigInv
<1>10. CASE \E enable \in BOOLEAN : SetDltOutputEnable(enable)
  BY <1>3, <1>10, ZenonT(30) DEF SetDltOutputEnable, serverVars
<1>11. CASE WriteDltEnabled
  <2>1. /\ server' = server /\ static_config' = static_config /\ stored' = stored /\ built' = built
        /\ dictionary' = SetBool(dictionary, switch.enable)
    BY <1>11, ZenonT(30) DEF WriteDltEnabled, serverVars
  <2>2. /\ DictionaryInv(dictionary') /\ dictionary'.kind = dictionary.kind
        /\ dictionary'.dltConfig = dictionary.dltConfig
    BY <1>1, <2>1, BoolSet, ZenonT(30)
  <2>3. StoreRoundTrip'
    BY <1>1, <2>1, <2>2, RoundTripKept, ZenonT(30)
  <2>4. server' # None => StaticInv(static_config') /\ ServerInv(server', static_config')
    BY <2>1, ZenonT(30) DEF ConfigInv
  <2> QED
    BY <1>1, <1>2, <2>1, <2>2, <2>3, <2>4, ZenonT(30) DEF ConfigInv
<1>12. CASE LeaveEventLoop \/ ForEachSource \/ SetDltOutputEnableAgain
  BY <1>3, <1>12, ZenonT(30)
  DEF LeaveEventLoop, ForEachSource, SetDltOutputEnableAgain, configVars
<1>13. CASE \/ NewSourceSession \/ NoSourceSession
            \/ \E s \in Sessions : ReadOutputEnabled(s) \/ EndSourceSession(s)
  BY <1>3, <1>13, ZenonT(30)
  DEF NewSourceSession, NoSourceSession, ReadOutputEnabled, EndSourceSession,
      configVars
<1>14. CASE UNCHANGED allVars
  BY <1>3, <1>14, ZenonT(30) DEF allVars, configVars, socketVars
<1> QED
  BY <1>4, <1>5, <1>6, <1>7, <1>8, <1>9, <1>10, <1>11, <1>12, <1>13, <1>14,
     ZenonT(30)
  DEF SocketNext

(* Whatever is set, stored, reset and restarted, the configuration stays   *)
(* sound: every number is the one of a channel, every level is a level,    *)
(* and no list of channels is empty.                                       *)
THEOREM ConfigurationSound == SocketSpec => []ConfigInv
<1> QED
  BY ConfigInvInit, ConfigInvNext, PTL DEF SocketSpec

(* StoreDltConfig writes what the next start reads back: the conversion to *)
(* level names and lists of channel names loses nothing, for every static  *)
(* file and any commands before it.                                        *)
THEOREM StoredIsReadBack == SocketSpec => []StoreRoundTrip
<1>1. ConfigInv => StoreRoundTrip
  BY DEF ConfigInv
<1> QED
  BY <1>1, ConfigurationSound, PTL

(* A document without a channel is read as no configuration: the empty     *)
(* dictionary is one, and so is what ClearDatabase writes.                 *)
LEMMA NothingStored ==
  /\ ReadDlt(<<>>).channels = <<>> /\ ReadDlt(WriteDlt(PersistentConfig)).channels = <<>>
<1>1. PersistentConfig.channels = <<>>
  BY ZenonT(30) DEF PersistentConfig
<1>2. StaticDltError(<<>>)
  BY SMTT(30) DEF StaticDltError, HasMember
<1>3. LevelNames(<<>>) = <<>>
  BY SMTT(30) DEF LevelNames
<1> DEFINE doc == WriteDlt(PersistentConfig)
<1>4. doc.channels = LevelNames(PersistentConfig.channels)
  BY ZenonT(30) DEF WriteDlt
<1>5. StaticDltError(doc)
  BY <1>1, <1>3, <1>4, ZenonT(30) DEF StaticDltError
<1> HIDE DEF doc
<1> QED
  BY <1>1, <1>2, <1>5, ZenonT(30) DEF ReadDlt, doc

(* Reloading without a stored configuration gives the settings of a fresh  *)
(* start, whatever names were numbered before.                             *)
LEMMA ReloadIsFreshStart ==
  ASSUME NEW static, StaticInv(static), ChannelsFit(static), NEW doc, ReadDlt(doc).channels = <<>>,
         NEW old, ServerInv(old, static)
  PROVE  Settings(InitLogChannels(static, doc, old)) = Settings(InitLogChannels(static, <<>>, None))
<1> DEFINE a == Numbered(static, doc, old)
           b == Numbered(static, <<>>, None)
           assigned == static.channel_assignments
           r == InitLogChannels(static, doc, old)
           s == InitLogChannels(static, <<>>, None)
<1>1. Source(static, doc) = static /\ Source(static, <<>>) = static
  BY NothingStored, ZenonT(30) DEF Source
<1>2. \A i : ThresholdOf(static, doc, i) = ThresholdOf(static, <<>>, i)
  BY NothingStored, ZenonT(30) DEF ThresholdOf
<1>3. Known(old, static) /\ Known(None, static)
  BY ZenonT(30) DEF Known
<1>4. \A n \in DOMAIN a : Stands(static, n, a[n])
  BY <1>3, NumberedStand, ZenonT(30)
<1>5. \A n \in DOMAIN b : Stands(static, n, b[n])
  BY <1>3, NumberedStand, ZenonT(30)
<1>6. UNION Range(assigned) \subseteq DOMAIN a /\ UNION Range(assigned) \subseteq DOMAIN b
  BY <1>1, ZenonT(30) DEF Numbered, WithNames
<1>7. /\ AssignmentsOf(static, doc, old) = [k \in DOMAIN assigned |-> {a[n] : n \in assigned[k]}]
      /\ AssignmentsOf(static, <<>>, None) = [k \in DOMAIN assigned |-> {b[n] : n \in assigned[k]}]
  BY <1>1, ZenonT(30) DEF AssignmentsOf
<1> HIDE DEF a, b
<1>8. ASSUME NEW k \in DOMAIN assigned, NEW n \in assigned[k] PROVE a[n] = b[n]
  <2>1. n \in UNION Range(assigned)
    BY ZenonT(30) DEF Range
  <2> QED
    BY <1>4, <1>5, <1>6, <2>1, StandsUnique, ZenonT(30)
<1>9. \A k \in DOMAIN assigned : {a[n] : n \in assigned[k]} = {b[n] : n \in assigned[k]}
  BY <1>8, ZenonT(30)
<1>10. AssignmentsOf(static, doc, old) = AssignmentsOf(static, <<>>, None)
  BY <1>7, <1>9, ZenonT(30)
<1>11. /\ r.channel_thresholds = [i \in DOMAIN NamesOf(static) |-> ThresholdOf(static, doc, i)]
       /\ r.channel_assignments = AssignmentsOf(static, doc, old)
       /\ r.filtering_enabled = Source(static, doc).filtering_enabled
       /\ r.default_threshold = Source(static, doc).default_threshold
       /\ r.message_thresholds = Source(static, doc).message_thresholds
  <2>1. r = [channels |-> NamesOf(static),
            channel_thresholds |-> [i \in DOMAIN NamesOf(static) |-> ThresholdOf(static, doc, i)],
            channel_nums |-> Numbered(static, doc, old),
            default_channel |-> DefaultOf(static),
            coredump_channel |-> IF old # None THEN {} ELSE IndexOf(static, static.coredump_channel),
            channel_assignments |-> AssignmentsOf(static, doc, old),
            filtering_enabled |-> Source(static, doc).filtering_enabled,
            default_threshold |-> Source(static, doc).default_threshold,
            message_thresholds |-> Source(static, doc).message_thresholds]
    BY InitFields, ZenonT(30)
  <2> HIDE DEF r
  <2> QED
    BY <2>1, ZenonT(30)
<1>12. /\ s.channel_thresholds = [i \in DOMAIN NamesOf(static) |-> ThresholdOf(static, <<>>, i)]
       /\ s.channel_assignments = AssignmentsOf(static, <<>>, None)
       /\ s.filtering_enabled = Source(static, <<>>).filtering_enabled
       /\ s.default_threshold = Source(static, <<>>).default_threshold
       /\ s.message_thresholds = Source(static, <<>>).message_thresholds
  <2>1. s = [channels |-> NamesOf(static),
            channel_thresholds |-> [i \in DOMAIN NamesOf(static) |-> ThresholdOf(static, <<>>, i)],
            channel_nums |-> Numbered(static, <<>>, None),
            default_channel |-> DefaultOf(static),
            coredump_channel |-> IF None # None THEN {} ELSE IndexOf(static, static.coredump_channel),
            channel_assignments |-> AssignmentsOf(static, <<>>, None),
            filtering_enabled |-> Source(static, <<>>).filtering_enabled,
            default_threshold |-> Source(static, <<>>).default_threshold,
            message_thresholds |-> Source(static, <<>>).message_thresholds]
    BY InitFields, ZenonT(30)
  <2> HIDE DEF s
  <2> QED
    BY <2>1, ZenonT(30)
<1> HIDE DEF r, s
<1>13. /\ r.channel_thresholds = s.channel_thresholds /\ r.channel_assignments = s.channel_assignments
       /\ r.filtering_enabled = s.filtering_enabled /\ r.default_threshold = s.default_threshold
       /\ r.message_thresholds = s.message_thresholds
  BY <1>1, <1>2, <1>10, <1>11, <1>12, ZenonT(30)
<1>14. Settings(r) = Settings(s)
  BY <1>13, SameSettings, ZenonT(30)
<1> QED
  BY <1>14, ZenonT(30) DEF r, s

(* A command that is answered as ResetToDefault is one.                    *)
LEMMA ResetAnswer ==
  ASSUME NEW c \in Commands, OnConfigCommand(c), response'.id = "ResetToDefault"
  PROVE  ResetToDefault(c)
<1>1. \E code : response' = [id |-> c.id, code |-> code]
  BY ZenonT(60)
  DEF OnConfigCommand, OnConfigCommandError, Execute, ResetToDefault,
      StoreDltConfig,
     SetLogChannelThreshold, SetLogLevel, SetMessagingFilteringState, SetDefaultLogLevel,
     SetLogChannelAssignment, ReadLogChannelNames, SetTraceState, UnknownChannel, Configure, Answer
<1>2. c.id = "ResetToDefault"
  BY <1>1, SMTT(30)
<1>3. Parse(c)
  BY <1>2, ZenonT(30) DEF Parse, ArgumentFits
<1>4. Execute(c)
  BY <1>3, ZenonT(30) DEF OnConfigCommand, OnConfigCommandError
<1> QED
  BY <1>2, <1>4, ZenonT(30) DEF Execute, UnknownChannel

(* The step of the theorem below.                                          *)
LEMMA ResetStep ==
  ASSUME ConfigInv, [SocketNext]_allVars, commands' > commands, response'.id = "ResetToDefault",
         ChannelsFit(static_config)
  PROVE  Settings(server') = Settings(InitLogChannels(static_config, <<>>, None))
<1>1. commands' # commands
  <2>1. commands \in Nat
    BY ZenonT(30) DEF ConfigInv
  <2> QED
    BY <2>1, SMTT(30)
<1>2. \/ \E c \in Commands : Command(c)
      \/ \E enable \in BOOLEAN : SetDltOutputEnable(enable)
  BY <1>1, ZenonT(60)
  DEF SocketNext, allVars, configVars, InitializePersistentStorage, CreateDltServer,
     CreateNext, LeaveEventLoop, DestroyLast, Restart, WriteDltEnabled, ForEachSource,
     SetDltOutputEnableAgain, ReadOutputEnabled, NewSourceSession, NoSourceSession, EndSourceSession
<1>3. ~ \E enable \in BOOLEAN : SetDltOutputEnable(enable)
  <2>1. SUFFICES ASSUME NEW enable \in BOOLEAN, SetDltOutputEnable(enable) PROVE FALSE
    BY ZenonT(30)
  <2>2. response' = [id |-> "SetDltOutputEnable", code |-> "kRetOk"]
    <3>1. [id |-> "SetDltOutputEnable"].id = "SetDltOutputEnable"
      BY ZenonT(30)
    <3>2. response' = [id |-> [id |-> "SetDltOutputEnable"].id, code |-> "kRetOk"]
      BY <2>1, ZenonT(30) DEF SetDltOutputEnable, Answer
    <3> QED
      BY <3>1, <3>2, ZenonT(30)
  <2> QED
    BY <2>2, ZenonT(30)
<1>4. PICK c \in Commands : Command(c)
  BY <1>2, <1>3, ZenonT(30)
<1>5. ResetToDefault(c)
  BY <1>4, ResetAnswer, ZenonT(30) DEF Command
<1>6. server # None
  BY <1>4, CommandNeedsServer, ZenonT(30) DEF Command, ConfigInv
<1>7. StaticInv(static_config) /\ ServerInv(server, static_config) /\ DictionaryInv(dictionary)
  BY <1>6, ZenonT(30) DEF ConfigInv
<1>8. dictionary'.dltConfig = <<>> \/ dictionary'.dltConfig = WriteDlt(PersistentConfig)
  BY <1>5, <1>7, StringSet, ZenonT(30) DEF ResetToDefault, ClearDatabase
<1>9. ReadDlt(dictionary'.dltConfig).channels = <<>>
  BY <1>8, NothingStored, ZenonT(30)
<1>10. server' = InitLogChannels(static_config, dictionary'.dltConfig, server)
  BY <1>5, ZenonT(30) DEF ResetToDefault
<1> QED
  BY <1>7, <1>9, <1>10, ReloadIsFreshStart, ZenonT(30)

(* ResetToDefault leaves the settings of a first start, for every static   *)
(* file, whatever was set, stored or reloaded before.                      *)
THEOREM ResetRestoresDefaults == SocketSpec => ResetIsFreshStart
<1>1. ConfigInv /\ [SocketNext]_allVars =>
        [commands' > commands /\ response'.id = "ResetToDefault" /\ ChannelsFit(static_config)
           => Settings(server') = Settings(InitLogChannels(static_config, <<>>, None))]_configVars
  BY ResetStep, ZenonT(30)
<1> QED
  BY <1>1, ConfigurationSound, PTL DEF SocketSpec, ResetIsFreshStart

(* What is found for a key is an entry of the map, or the default.         *)
LEMMA FoundInMap ==
  ASSUME NEW f, NEW key, NEW default
  PROVE  \/ FindInKeyMap(f, key, default) = default
         \/ \E k \in DOMAIN f : FindInKeyMap(f, key, default) = f[k]
<1> DEFINE found == {i \in 1..3 : Candidates(key)[i] \in DOMAIN f}
           first == CHOOSE i \in found : \A j \in found : i <= j
<1>1. CASE found = {}
  BY <1>1, ZenonT(30) DEF FindInKeyMap
<1>2. CASE found # {}
  <2>1. \E i \in found : \A j \in found : i <= j
    <3>1. found \subseteq {1, 2, 3}
      BY SMTT(30)
    <3> HIDE DEF found
    <3>2. CASE 1 \in found
      BY <3>1, <3>2, SMTT(30)
    <3>3. CASE 1 \notin found /\ 2 \in found
      BY <3>1, <3>3, SMTT(30)
    <3>4. CASE 1 \notin found /\ 2 \notin found
      <4>1. found = {3}
        BY <1>2, <3>1, <3>4, ZenonT(30)
      <4> QED
        BY <4>1, SMTT(30)
    <3> QED
      BY <3>2, <3>3, <3>4, ZenonT(30)
  <2>2. first \in found
    BY <2>1, ZenonT(30)
  <2>3. FindInKeyMap(f, key, default) = f[Candidates(key)[first]]
    BY <1>2, ZenonT(30) DEF FindInKeyMap
  <2> QED
    BY <2>2, <2>3, ZenonT(30)
<1> QED
  BY <1>1, <1>2, ZenonT(30)

(* Under the invariant no message that the filter accepts is lost.         *)
LEMMA RoutedSomewhere == ConfigInv => AcceptedReachesAChannel
<1> SUFFICES ASSUME ConfigInv, server # None, NEW key \in Keys
             PROVE  /\ FilterAndCall(server, key, kOff) # {}
                    /\ FilterAndCall(server, key, kOff) \cup SendFtVerbose(server, key, kOff)
                         \subseteq DOMAIN server.channels
  BY ZenonT(30) DEF AcceptedReachesAChannel
<1>1. ServerInv(server, static_config)
  BY ZenonT(30) DEF ConfigInv
<1> DEFINE limit == FindInKeyMap(server.message_thresholds, key, server.default_threshold)
           assigned == FindInKeyMap(server.channel_assignments, key, {})
<1>2. limit \in Levels
  <2>1. \/ limit = server.default_threshold
        \/ \E k \in DOMAIN server.message_thresholds : limit = server.message_thresholds[k]
    BY FoundInMap, ZenonT(30)
  <2> HIDE DEF limit
  <2> QED
    BY <1>1, <2>1, ZenonT(30) DEF ServerInv
<1>3. assigned \in SUBSET DOMAIN server.channels
  <2>1. \/ assigned = {}
        \/ \E k \in DOMAIN server.channel_assignments : assigned = server.channel_assignments[k]
    BY FoundInMap, ZenonT(30)
  <2> HIDE DEF assigned
  <2> QED
    BY <1>1, <2>1, ZenonT(30) DEF ServerInv
<1>4. kOff <= limit
  <2> HIDE DEF limit
  <2> QED
    BY <1>2, SMTT(30) DEF Levels, kOff, kVerbose
<1>5. IsAcceptedByFiltering(server, key, kOff)
  BY <1>4, ZenonT(30) DEF IsAcceptedByFiltering
<1>6. FilterAndCall(server, key, kOff) =
        IF assigned = {} THEN {server.default_channel} ELSE assigned \cap DOMAIN server.channels
  BY <1>5, ZenonT(30) DEF FilterAndCall, AssignedToChannels
<1> HIDE DEF assigned
<1>7. server.default_channel \in DOMAIN server.channels /\ server.coredump_channel \subseteq DOMAIN server.channels
  BY <1>1, ZenonT(30) DEF ServerInv
<1>8. FilterAndCall(server, key, kOff) # {} /\ FilterAndCall(server, key, kOff) \subseteq DOMAIN server.channels
  BY <1>3, <1>6, <1>7, ZenonT(30)
<1> QED
  BY <1>7, <1>8, ZenonT(30) DEF SendFtVerbose

(* No sequence of commands, stores, resets and restarts leaves an empty or *)
(* dangling assignment: a message of the highest severity always reaches a *)
(* channel that exists.                                                    *)
THEOREM AcceptedIsRouted == SocketSpec => []AcceptedReachesAChannel
<1> QED
  BY RoutedSomewhere, ConfigurationSound, PTL
=============================================================================
