---------------------------- MODULE SocketServer ----------------------------
(***************************************************************************)
(* SocketServer::DoWork: the objects of the Datarouter are built in order, *)
(* used by three threads while the event loop runs, and destroyed in the   *)
(* opposite order.  The thread of UnixDomainServer executes the            *)
(* configuration commands, the output switch among them; a thread of the   *)
(* message passing server creates and ends source sessions; the main       *)
(* thread builds, waits for the request to exit, and destroys.  The        *)
(* process may also be killed at any moment and started again.             *)
(***************************************************************************)
EXTENDS DltLogServer

CONSTANTS
  Sessions,       \* identities of source sessions
  ForceOutput     \* DLT_OUTPUT_ENABLED is defined in the build

ASSUME BuildAssumption == ForceOutput \in BOOLEAN

VARIABLES
  phase,               \* DoWork: "building", "running", "leaving"
  built,               \* how many of Objects exist
  dlt_output_enabled,  \* atomic flag of DltLogServer
  asked,               \* history: what the start or the last command asked for
  switch,              \* progress of SetDltOutputEnable on the command thread
  sources,             \* DataRouter::sources_, with enabled_logging_at_server
  creation             \* progress of CreateMessagePassingSession

socketVars == <<phase, built, dlt_output_enabled, asked, switch, sources, creation>>
allVars == <<configVars, socketVars>>

Objects == <<"pd", "dlt_server", "router", "unix_domain_server", "mp_server">>

Exists(object) == \E i \in 1..built : Objects[i] = object

Idle == [step |-> "idle"]

\* The process starts: nothing but the dictionary outlives it.
NoProcess ==
  /\ static_config' = None /\ server' = None
  /\ phase' = "building" /\ built' = 0
  /\ dlt_output_enabled' = FALSE /\ asked' = FALSE
  /\ switch' = Idle /\ sources' = <<>> /\ creation' = Idle

SocketInit ==
  /\ dictionary \in {StubDictionary, KeepingDictionary}
  /\ static_config = None /\ server = None
  /\ response = [id |-> "none", code |-> "none"] /\ stored = None
  /\ commands = 0 /\ restarts = 0
  /\ phase = "building" /\ built = 0
  /\ dlt_output_enabled = FALSE /\ asked = FALSE
  /\ switch = Idle /\ sources = <<>> /\ creation = Idle

-----------------------------------------------------------------------------
(* Construction and destruction, on the main thread.                       *)

InitializePersistentStorage ==
  /\ phase = "building" /\ built = 0
  /\ built' = 1
  /\ dlt_output_enabled' = (ForceOutput \/ dictionary.dltOutputEnabled)
  /\ asked' = dictionary.dltOutputEnabled
  /\ UNCHANGED <<configVars, phase, switch, sources, creation>>

\* Without a usable static file there is no server and DoWork returns.
CreateDltServer(doc) ==
  /\ phase = "building" /\ built = 1
  /\ IF StaticDltError(doc)
       THEN phase' = "leaving" /\ UNCHANGED <<serverVars, built>>
       ELSE /\ static_config' = ReadStaticDlt(doc)
            /\ server' = Start(doc, dictionary)
            /\ built' = 2
            /\ UNCHANGED phase
  /\ UNCHANGED <<dictionary, response, stored, commands, restarts, dlt_output_enabled,
                 asked, switch, sources, creation>>

\* The router with the enable callback, the unix domain server, the message
\* passing server; then the event loop runs.
CreateNext ==
  /\ phase = "building" /\ built >= 2
  /\ built' = built + 1
  /\ phase' = IF built' = Len(Objects) THEN "running" ELSE "building"
  /\ UNCHANGED <<configVars, dlt_output_enabled, asked, switch, sources, creation>>

\* RunEventLoop sees exit_requested.
LeaveEventLoop ==
  /\ phase = "running"
  /\ phase' = "leaving"
  /\ UNCHANGED <<configVars, built, dlt_output_enabled, asked, switch, sources, creation>>

(* Mutant: the message passing server does not wait for its threads.       *)
DestroyLastUnjoined ==
  /\ phase = "leaving" /\ built > 0
  /\ Objects[built] = "unix_domain_server" => switch = Idle
  /\ built' = built - 1
  /\ UNCHANGED <<configVars, phase, dlt_output_enabled, asked, switch, sources, creation>>

\* A server joins its threads first; with the message passing server go the
\* sessions.
DestroyLast ==
  /\ phase = "leaving" /\ built > 0
  /\ Objects[built] = "unix_domain_server" => switch = Idle
  /\ Objects[built] = "mp_server" => creation = Idle
  /\ sources' = IF Objects[built] = "mp_server" THEN <<>> ELSE sources
  /\ built' = built - 1
  /\ UNCHANGED <<configVars, phase, dlt_output_enabled, asked, switch, creation>>

\* The process is started again after it ended or was killed.
Restart ==
  /\ restarts < MaxRestarts
  /\ restarts' = restarts + 1
  /\ NoProcess
  /\ UNCHANGED <<dictionary, response, stored, commands>>

-----------------------------------------------------------------------------
(* The command thread.                                                     *)

\* UnixDomainServer passes a command to its session.
Command(c) ==
  /\ Exists("unix_domain_server") /\ switch = Idle
  /\ OnConfigCommand(c)
  /\ UNCHANGED socketVars

\* SetOutputEnabled: a compare-exchange; who flips the flag runs the callback
\* made by CreateEnableHandler.
CompareExchange(enabled) ==
  IF dlt_output_enabled = ~enabled
    THEN /\ dlt_output_enabled' = enabled
         /\ switch' = [step |-> "write", enable |-> ForceOutput \/ enabled]
         /\ creation' = IF creation = Idle THEN Idle ELSE [creation EXCEPT !.stale = TRUE]
    ELSE /\ switch' = Idle
         /\ UNCHANGED <<dlt_output_enabled, creation>>

SetDltOutputEnable(enable) ==
  /\ Exists("unix_domain_server") /\ switch = Idle
  /\ commands < MaxCommands
  /\ commands' = commands + 1
  /\ CompareExchange(enable)
  /\ asked' = enable
  /\ Answer([id |-> "SetDltOutputEnable"], "kRetOk")
  /\ UNCHANGED <<dictionary, serverVars, stored, restarts, phase, built, sources>>

(* Mutant: the persistent flag is not written.                             *)
WriteDltEnabledSkipped ==
  /\ switch.step = "write"
  /\ switch' = [switch EXCEPT !.step = "sources"]
  /\ UNCHANGED <<configVars, phase, built, dlt_output_enabled, asked, sources, creation>>

WriteDltEnabled ==
  /\ switch.step = "write"
  /\ dictionary' = SetBool(dictionary, switch.enable)
  /\ switch' = [switch EXCEPT !.step = "sources"]
  /\ UNCHANGED <<serverVars, response, stored, commands, restarts, phase, built,
                 dlt_output_enabled, asked, sources, creation>>

(* Mutant: the sessions are not told.                                      *)
ForEachSourceSkipped ==
  /\ switch.step = "sources"
  /\ switch' = [switch EXCEPT !.step = "again"]
  /\ UNCHANGED <<configVars, phase, built, dlt_output_enabled, asked, sources, creation>>

\* Under subscriber_mutex_.
ForEachSource ==
  /\ switch.step = "sources"
  /\ sources' = [s \in DOMAIN sources |-> [enabled |-> switch.enable, stale |-> FALSE]]
  /\ switch' = [switch EXCEPT !.step = "again"]
  /\ UNCHANGED <<configVars, phase, built, dlt_output_enabled, asked, creation>>

\* The callback calls SetDltOutputEnable once more.
SetDltOutputEnableAgain ==
  /\ switch.step = "again"
  /\ CompareExchange(switch.enable)
  /\ UNCHANGED <<configVars, phase, built, asked, sources>>

-----------------------------------------------------------------------------
(* The session thread.                                                     *)

\* CreateMessagePassingSession: the file is open, the flag is read.
ReadOutputEnabled(s) ==
  /\ Exists("mp_server") /\ creation = Idle /\ s \notin DOMAIN sources
  /\ creation' = [step |-> "create", session |-> s, enabled |-> dlt_output_enabled,
                  stale |-> FALSE]
  /\ UNCHANGED <<configVars, phase, built, dlt_output_enabled, asked, switch, sources>>

SourceSession(c) == [enabled |-> c.enabled, stale |-> c.stale]

\* NewSourceSession enters the session into sources_ under subscriber_mutex_.
NewSourceSession ==
  /\ creation # Idle
  /\ sources' = With(sources, creation.session, SourceSession(creation))
  /\ creation' = Idle
  /\ UNCHANGED <<configVars, phase, built, dlt_output_enabled, asked, switch>>

\* The shared memory of the client cannot be mapped.
NoSourceSession ==
  /\ creation # Idle
  /\ creation' = Idle
  /\ UNCHANGED <<configVars, phase, built, dlt_output_enabled, asked, switch, sources>>

EndSourceSession(s) ==
  /\ Exists("mp_server") /\ s \in DOMAIN sources
  /\ sources' = Without(sources, s)
  /\ UNCHANGED <<configVars, phase, built, dlt_output_enabled, asked, switch, creation>>

SocketNext ==
  \/ InitializePersistentStorage
  \/ \E doc \in Files : CreateDltServer(doc)
  \/ CreateNext
  \/ LeaveEventLoop
  \/ DestroyLast
  \/ Restart
  \/ \E c \in Commands : Command(c)
  \/ \E enable \in BOOLEAN : SetDltOutputEnable(enable)
  \/ WriteDltEnabled
  \/ ForEachSource
  \/ SetDltOutputEnableAgain
  \/ \E s \in Sessions : ReadOutputEnabled(s)
  \/ NewSourceSession
  \/ NoSourceSession
  \/ \E s \in Sessions : EndSourceSession(s)

SocketSpec == SocketInit /\ [][SocketNext]_allVars

-----------------------------------------------------------------------------
\* Type of the configuration, and the levels that survive the conversions.
SocketTypeOK ==
  /\ built \in 0..Len(Objects) /\ phase \in {"building", "running", "leaving"}
  /\ Exists("dlt_server") =>
       /\ server.default_channel \in DOMAIN server.channels
       /\ Range(server.channel_thresholds) \cup Range(server.message_thresholds)
            \cup {server.default_threshold} \subseteq Levels
       /\ UNION Range(server.channel_assignments) \subseteq 1..(kChannelmaskBits - 1)

(* No thread uses an object that is not built yet or already destroyed:    *)
(* sessions and their creation need the router, the DLT server and the     *)
(* message passing server; a command in progress needs the dictionary too. *)
(* This rests on the order of the local variables of DoWork and on the     *)
(* joins in the destructors.                                               *)
UsesOnlyLivingObjects ==
  /\ sources # <<>> \/ creation # Idle =>
       \A object \in {"dlt_server", "router", "mp_server"} : Exists(object)
  /\ switch # Idle =>
       \A object \in {"pd", "dlt_server", "router", "unix_domain_server"} : Exists(object)

(* When no switch is in progress the output is what the last command asked *)
(* for, or the dictionary at the start if there was none since; a build    *)
(* with DLT_OUTPUT_ENABLED has it on whatever was asked for.  A dictionary *)
(* that keeps data then holds the state of the output as well, so that the *)
(* next start resumes it.  With the stub of the repository the next start  *)
(* has the output on, whatever the last command was.                       *)
SwitchIsObeyed ==
  switch = Idle /\ Exists("pd") =>
    /\ dlt_output_enabled = (ForceOutput \/ asked)
    /\ dictionary.kind = "keeping"
         => dlt_output_enabled = (ForceOutput \/ dictionary.dltOutputEnabled)
    /\ dictionary.kind = "stub" => dictionary.dltOutputEnabled

(* When no switch is in progress every session asks for buffers exactly if *)
(* the output is enabled, however the creation of sessions interleaves     *)
(* with the switch; the one exception is a session whose creation read the *)
(* flag before a switch and entered sources_ after it.                     *)
SessionsFollowSwitch ==
  switch = Idle => \A s \in DOMAIN sources :
                     sources[s].stale \/ sources[s].enabled = dlt_output_enabled
=============================================================================
