---------------------------- MODULE DltLogServer ----------------------------
(***************************************************************************)
(* The configuration of the DLT output stage: what the static              *)
(* configuration file and the persistent dictionary say at start-up, what  *)
(* the diagnostic commands change, what StoreDltConfig writes and what     *)
(* ResetToDefault restores, and how a message is filtered and routed to    *)
(* the channels.                                                           *)
(*                                                                         *)
(* Every handler takes config_mutex_ for its whole body, so it is one      *)
(* step.  Documents (the static file, the string kept in the dictionary)   *)
(* are records: a member that is absent from the JSON object is absent     *)
(* from the record's domain.  Channel indices are 1-based.                 *)
(***************************************************************************)
EXTENDS Integers, FiniteSets, Sequences, Functions

CONSTANTS
  Files,          \* the documents the static configuration file may hold
  kChannelmaskBits,   \* size of the channel bit mask (32 in the code)
  Names,          \* channel names a command may use, known or not
  Keys,           \* <<app, ctx>> pairs a command or a message may name
  LevelBytes,     \* level bytes a command may carry
  MaxCommands,    \* bound: commands executed
  MaxRestarts     \* bound: restarts of the daemon

\* StaticConfig::channels is a map: no two channels have the same name.
ASSUME ServerConfigAssumption ==
  /\ kChannelmaskBits \in Nat /\ LevelBytes \subseteq Nat
  /\ \A doc \in Files : "channels" \in DOMAIN doc =>
       /\ DOMAIN doc.channels = 1..Len(doc.channels) /\ Len(doc.channels) \in Nat
       /\ \A i, j \in DOMAIN doc.channels : doc.channels[i].name = doc.channels[j].name => i = j

NoId == ""   \* DltidT{}
None == <<>>   \* std::nullopt, nothing stored

VARIABLES
  dictionary,     \* the persistent dictionary: [kind, dltConfig, dltOutputEnabled]
  static_config,  \* StaticConfig
  server,         \* configuration of DltLogServer
  response,       \* answer to the last command
  stored,         \* history: what the last StoreDltConfig saw
  commands,       \* number of commands executed
  restarts        \* number of restarts

serverVars == <<static_config, server>>
configVars == <<dictionary, static_config, server, response, stored, commands, restarts>>

-----------------------------------------------------------------------------
(* Log levels and their names.                                             *)

kOff == 0
kError == 2
kInfo == 4
kVerbose == 6
kUseDefault == 255

kLoglevelMap == [kOff |-> 0, kFatal |-> 1, kError |-> 2, kWarn |-> 3,
                 kInfo |-> 4, kDebug |-> 5, kVerbose |-> 6]

\* A name that is not a level is reported and read as kOff.
ToLogLevel(name) == IF name \in DOMAIN kLoglevelMap THEN kLoglevelMap[name] ELSE kOff

(* Mutant: two level names are exchanged.                                  *)
GetStringFromLogLevelSwapped(level) ==
  <<"kOff", "kFatal", "kError", "kWarn", "kInfo", "kVerbose", "kDebug">>[level + 1]

GetStringFromLogLevel(level) ==
  <<"kOff", "kFatal", "kError", "kWarn", "kInfo", "kDebug", "kVerbose">>[level + 1]

TryGetLogLevelFromU8(byte) == byte <= kVerbose

Levels == kOff .. kVerbose

-----------------------------------------------------------------------------
(* The static file and the persistent dictionary.                          *)

HasMember(doc, member) == member \in DOMAIN doc

Member(doc, member, default) == IF HasMember(doc, member) THEN doc[member] ELSE default

NamedLevels(f) == [k \in DOMAIN f |-> ToLogLevel(f[k])]

\* The keys whose list of channels is not empty: a list is created by its first element.
NonEmptyLists(f) == Restrict(f, {k \in DOMAIN f : f[k] # {}})

\* The file cannot be opened or parsed, is an array, or has no channel.
StaticDltError(doc) == ~HasMember(doc, "channels") \/ doc["channels"] = <<>>

ReadStaticDlt(doc) ==
  [channels |-> [i \in DOMAIN doc.channels |->
                  [name |-> doc.channels[i].name,
                   threshold |-> ToLogLevel(doc.channels[i].channelThreshold)]],
   coredump_channel |-> Member(doc, "coredumpChannel", NoId),
   default_channel |-> doc.defaultChannel,
   channel_assignments |-> NonEmptyLists(doc.channelAssignments),
   filtering_enabled |-> Member(doc, "filteringEnabled", TRUE),
   default_threshold |->
     IF HasMember(doc, "defaultThreshold") THEN ToLogLevel(doc.defaultThreshold)
     ELSE IF HasMember(doc, "defaultThresold") THEN ToLogLevel(doc.defaultThresold)
     ELSE kVerbose,
   message_thresholds |-> NamedLevels(doc.messageThresholds)]

\* PersistentConfig{}: no channel, so it counts as no stored configuration.
PersistentConfig ==
  [channels |-> <<>>, channel_assignments |-> <<>>, filtering_enabled |-> FALSE,
   default_threshold |-> kOff, message_thresholds |-> <<>>]

ReadDlt(doc) ==
  IF StaticDltError(doc) THEN PersistentConfig
  ELSE [channels |-> NamedLevels(doc.channels),
        channel_assignments |-> NonEmptyLists(doc.channelAssignments),
        filtering_enabled |-> Member(doc, "filteringEnabled", TRUE),
        default_threshold |-> ToLogLevel(doc.defaultThresold),
        message_thresholds |-> NamedLevels(doc.messageThresholds)]

LevelNames(f) == [k \in DOMAIN f |-> GetStringFromLogLevel(f[k])]

WriteDlt(config) ==
  [channels |-> LevelNames(config.channels),
   channelAssignments |-> config.channel_assignments,
   filteringEnabled |-> config.filtering_enabled,
   defaultThresold |-> GetStringFromLogLevel(config.default_threshold),
   messageThresholds |-> LevelNames(config.message_thresholds)]

\* IPersistentDictionary.  The repository builds StubPersistentDictionary only,
\* which drops what is set and returns the defaults; an integration may bring
\* one that keeps it.
StubDictionary == [kind |-> "stub", dltConfig |-> <<>>, dltOutputEnabled |-> TRUE]
KeepingDictionary == [kind |-> "keeping", dltConfig |-> <<>>, dltOutputEnabled |-> TRUE]

Keep(dict, key, value) == [dict EXCEPT ![key] = value]

SetString(dict, value) == IF dict.kind = "stub" THEN dict ELSE Keep(dict, "dltConfig", value)

SetBool(dict, value) == IF dict.kind = "stub" THEN dict ELSE Keep(dict, "dltOutputEnabled", value)

-----------------------------------------------------------------------------
(* Building the configuration.                                             *)

ChannelNumber(nums, name) == IF name \in DOMAIN nums THEN nums[name] ELSE 1

\* channel_nums_[name] creates an entry for a name that is no channel: it
\* stands for the first channel.
WithNames(nums, names) == [n \in DOMAIN nums \cup names |-> ChannelNumber(nums, n)]

InitLogChannelsDefault(old) ==
  IF old # None
    THEN [old EXCEPT !.filtering_enabled = FALSE, !.default_threshold = kError,
                     !.default_channel = 1, !.coredump_channel = {},
                     !.channel_thresholds[1] = kOff]
    ELSE [channels |-> <<"TEST">>, channel_thresholds |-> <<kInfo>>,
          channel_nums |-> <<>>, default_channel |-> 1, coredump_channel |-> {},
          channel_assignments |-> <<>>, filtering_enabled |-> FALSE,
          default_threshold |-> kError, message_thresholds |-> <<>>]

ChannelsFit(static) == Len(static.channels) \in 1..(kChannelmaskBits - 1)

\* The index of the channel with a name, if there is one.
IndexOf(static, name) ==
  {i \in DOMAIN static.channels : static.channels[i].name = name}

\* old is None in the constructor; on reloading it keeps its channels and
\* its default channel, and loses its coredump channel.
InitLogChannels(static, doc, old) ==
  LET persistent == ReadDlt(doc)
      has_persistent_config == persistent.channels # <<>>
      config == IF has_persistent_config THEN persistent ELSE static
      names == [i \in DOMAIN static.channels |-> static.channels[i].name]
      threshold(i) ==
        IF has_persistent_config
          THEN Member(persistent.channels, names[i], kOff)
          ELSE static.channels[i].threshold
      nums == IF old # None THEN old.channel_nums
              ELSE [n \in Range(names) |-> CHOOSE i \in IndexOf(static, n) : TRUE]
      numbered == WithNames(nums, UNION Range(config.channel_assignments))
      default == IndexOf(static, static.default_channel)
      coredump == IndexOf(static, static.coredump_channel)
  IN IF ~ChannelsFit(static) THEN InitLogChannelsDefault(old)
     ELSE [channels |-> names,
           channel_thresholds |-> [i \in DOMAIN names |-> threshold(i)],
           channel_nums |-> numbered,
           default_channel |-> IF default = {} THEN 1 ELSE CHOOSE i \in default : TRUE,
           coredump_channel |-> IF old # None THEN {} ELSE coredump,
           channel_assignments |->
             [k \in DOMAIN config.channel_assignments |->
                {numbered[n] : n \in config.channel_assignments[k]}],
           filtering_enabled |-> config.filtering_enabled,
           default_threshold |-> config.default_threshold,
           message_thresholds |-> config.message_thresholds]

SaveDatabase(s) ==
  [channels |-> [n \in Range(s.channels) |->
                   s.channel_thresholds[CHOOSE i \in DOMAIN s.channels : s.channels[i] = n]],
   channel_assignments |->
     [k \in DOMAIN s.channel_assignments |->
        {s.channels[i] : i \in s.channel_assignments[k] \cap DOMAIN s.channels}],
   filtering_enabled |-> s.filtering_enabled,
   default_threshold |-> s.default_threshold,
   message_thresholds |-> s.message_thresholds]

-----------------------------------------------------------------------------
(* Commands.                                                               *)

kRemove == 0
kAdd == 1

Commands ==
  {[id |-> i] : i \in {"ReadLogChannelNames", "ResetToDefault", "StoreDltConfig",
                       "SetTraceState", "SetDefaultTraceState", "malformed"}}
  \cup [id : {"SetLogChannelThreshold"}, channel : Names, byte : LevelBytes]
  \cup [id : {"SetLogLevel"}, key : Keys, byte : LevelBytes]
  \cup [id : {"SetMessagingFilteringState"}, byte : 0..1]
  \cup [id : {"SetDefaultLogLevel"}, byte : LevelBytes]
  \cup [id : {"SetLogChannelAssignment"}, key : Keys, channel : Names, byte : kRemove..kAdd]

\* What the byte of a command must be.  A malformed command is one with an
\* unknown identifier, no byte at all or a wrong size.
ArgumentFits(c) ==
  /\ c.id \in {"SetLogChannelThreshold", "SetDefaultLogLevel"} => TryGetLogLevelFromU8(c.byte)
  /\ c.id = "SetLogLevel" => c.byte = kUseDefault \/ TryGetLogLevelFromU8(c.byte)
  /\ c.id = "SetLogChannelAssignment" => c.byte \in kRemove..kAdd

Parse(c) == c.id # "malformed" /\ ArgumentFits(c)

Answer(c, code) == response' = [id |-> c.id, code |-> code]

\* A command that cannot be parsed is answered with kRetError.
OnConfigCommandError(c) ==
  /\ ~Parse(c)
  /\ Answer(c, "kRetError")
  /\ UNCHANGED <<dictionary, serverVars, stored>>

ReadLogChannelNames(c) ==
  /\ Answer(c, "kRetOk")
  /\ UNCHANGED <<dictionary, serverVars, stored>>

\* SetTraceState and SetDefaultTraceState only acknowledge.
SetTraceState(c) ==
  /\ Answer(c, "kRetOk")
  /\ UNCHANGED <<dictionary, serverVars, stored>>

ClearDatabase == SetString(dictionary, WriteDlt(PersistentConfig))

(* Mutant: the stored configuration is not cleared before the reload.      *)
ResetToDefaultUncleared(c) ==
  /\ server' = InitLogChannels(static_config, dictionary.dltConfig, server)
  /\ Answer(c, "kRetOk")
  /\ stored' = None
  /\ UNCHANGED <<dictionary, static_config>>

ResetToDefault(c) ==
  /\ dictionary' = ClearDatabase
  /\ server' = InitLogChannels(static_config, dictionary'.dltConfig, server)
  /\ Answer(c, "kRetOk")
  /\ stored' = None
  /\ UNCHANGED static_config

\* The configuration a restart must bring back, and the static configuration
\* it was made with.
Settings(s) ==
  [f \in {"channel_thresholds", "channel_assignments", "filtering_enabled",
          "default_threshold", "message_thresholds"} |-> s[f]]

StoreDltConfig(c) ==
  /\ dictionary' = SetString(dictionary, WriteDlt(SaveDatabase(server)))
  /\ Answer(c, "kRetOk")
  /\ stored' = [static |-> static_config, settings |-> Settings(server)]
  /\ UNCHANGED serverVars

\* The handlers that change the configuration alone.
Configure(c, s) ==
  /\ server' = s
  /\ Answer(c, "kRetOk")
  /\ UNCHANGED <<dictionary, static_config, stored>>

\* A command naming no channel of channel_nums_ is refused.
UnknownChannel(c) ==
  /\ c.id \in {"SetLogChannelThreshold", "SetLogChannelAssignment"}
  /\ c.channel \notin DOMAIN server.channel_nums
  /\ Answer(c, "kRetError")
  /\ UNCHANGED <<dictionary, serverVars, stored>>

SetLogChannelThreshold(c) ==
  /\ c.channel \in DOMAIN server.channel_nums
  /\ Configure(c, [server EXCEPT !.channel_thresholds[server.channel_nums[c.channel]] = c.byte])

Without(f, k) == Restrict(f, DOMAIN f \ {k})

With(f, k, v) == [x \in DOMAIN f \cup {k} |-> IF x = k THEN v ELSE f[x]]

SetLogLevel(c) ==
  LET erased == Without(server.message_thresholds, c.key)
  IN Configure(c, [server EXCEPT !.message_thresholds =
                  IF c.byte = kUseDefault THEN erased ELSE With(erased, c.key, c.byte)])

SetMessagingFilteringState(c) ==
  Configure(c, [server EXCEPT !.filtering_enabled = (c.byte # 0)])

SetDefaultLogLevel(c) == Configure(c, [server EXCEPT !.default_threshold = c.byte])

\* The assignments after a command that adds or removes one channel.
Assigned(f, key, number, action) ==
  LET have == IF key \in DOMAIN f THEN f[key] ELSE {}
      left == IF action = kAdd THEN have \cup {number} ELSE have \ {number}
  IN IF left = {} THEN Without(f, key) ELSE With(f, key, left)

SetLogChannelAssignment(c) ==
  /\ c.channel \in DOMAIN server.channel_nums
  /\ Configure(c, [server EXCEPT !.channel_assignments =
                  Assigned(@, c.key, server.channel_nums[c.channel], c.byte)])

Execute(c) ==
  \/ c.id = "ResetToDefault" /\ ResetToDefault(c)
  \/ c.id = "StoreDltConfig" /\ StoreDltConfig(c)
  \/ c.id = "SetLogChannelThreshold" /\ SetLogChannelThreshold(c)
  \/ c.id = "SetLogLevel" /\ SetLogLevel(c)
  \/ c.id = "SetMessagingFilteringState" /\ SetMessagingFilteringState(c)
  \/ c.id = "SetDefaultLogLevel" /\ SetDefaultLogLevel(c)
  \/ c.id = "SetLogChannelAssignment" /\ SetLogChannelAssignment(c)
  \/ c.id = "ReadLogChannelNames" /\ ReadLogChannelNames(c)
  \/ c.id \in {"SetTraceState", "SetDefaultTraceState"} /\ SetTraceState(c)
  \/ UnknownChannel(c)

OnConfigCommand(c) ==
  /\ commands < MaxCommands
  /\ commands' = commands + 1
  /\ \/ OnConfigCommandError(c)
     \/ Parse(c) /\ Execute(c)
  /\ UNCHANGED restarts

-----------------------------------------------------------------------------
(* Filtering and routing of a message, under config_mutex_.                *)

\* The entries that apply to a key, most specific first.
Candidates(key) == <<key, <<NoId, key[2]>>, <<key[1], NoId>>>>

FindInKeyMap(f, key, default) ==
  LET found == {i \in 1..3 : Candidates(key)[i] \in DOMAIN f}
  IN IF found = {} THEN default
     ELSE f[Candidates(key)[CHOOSE i \in found : \A j \in found : i <= j]]

IsAcceptedByFiltering(s, key, level) ==
  s.filtering_enabled => level <= FindInKeyMap(s.message_thresholds, key, s.default_threshold)

AssignedToChannels(s, key) == FindInKeyMap(s.channel_assignments, key, {})

\* The channels a message is handed to.
FilterAndCall(s, key, level) ==
  LET assigned == AssignedToChannels(s, key)
  IN IF ~IsAcceptedByFiltering(s, key, level) THEN {}
     ELSE IF assigned = {} THEN {s.default_channel}
     ELSE assigned \cap DOMAIN s.channels

SendFtVerbose(s, key, level) ==
  IF s.coredump_channel # {} THEN s.coredump_channel ELSE FilterAndCall(s, key, level)

-----------------------------------------------------------------------------
(* The constructor and the properties.                                     *)

Start(doc, dict) == InitLogChannels(ReadStaticDlt(doc), dict.dltConfig, None)

(* What StoreDltConfig wrote is what the next start reads: whatever        *)
(* commands were stored, in whatever order, converting them to the         *)
(* document with its level names and lists of channel names and back gives *)
(* the same thresholds, assignments and filter.  That needs a dictionary   *)
(* that keeps data, which the stub of the repository does not, and a       *)
(* static file with a usable number of channels.                           *)
StoreRoundTrip ==
  dictionary.kind = "keeping" /\ stored # None /\ ChannelsFit(stored.static)
    => Settings(InitLogChannels(stored.static, dictionary.dltConfig, None)) = stored.settings

(* ResetToDefault leaves the settings of a first start with the static     *)
(* file, no matter what was set, stored or reloaded before; only the       *)
(* coredump channel is not restored.                                       *)
ResetIsFreshStart ==
  [][commands' > commands /\ response'.id = "ResetToDefault" /\ ChannelsFit(static_config)
       => Settings(server') = Settings(InitLogChannels(static_config, <<>>, None))]_configVars

(* An accepted message always reaches a channel: no sequence of commands   *)
(* leaves an empty or dangling assignment that would swallow it.           *)
AcceptedReachesAChannel ==
  server # None =>
    \A key \in Keys :
      /\ FilterAndCall(server, key, kOff) # {}
      /\ FilterAndCall(server, key, kOff) \cup SendFtVerbose(server, key, kOff)
           \subseteq DOMAIN server.channels
=============================================================================
