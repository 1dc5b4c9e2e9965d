--------------------------- MODULE MCApplication ---------------------------
(***************************************************************************)
(* The parts of a logging application, for TLC: verbose recording, the     *)
(* tracing of types, the shared memory file and the message client.  They  *)
(* meet the same processes but share no variable, so a behaviour is one of *)
(* a single part, chosen in the initial state.                             *)
(***************************************************************************)
EXTENDS Recorder, TypeRegistration, SharedMemoryFile, DatarouterMessageClient

CONSTANTS T1, T2   \* two types, one of them with a message descriptor

VARIABLE part

\* The descriptor puts T1 into a context whose threshold is its level.
MCDescriptors == [T \in {T1} |-> [ctx_id |-> "ctx", level |-> kInfo]]
MCContexts == [c \in {"ctx"} |-> kInfo]
MCArguments == {[kind |-> "number", size |-> 2], [kind |-> "string", size |-> 3],
                [kind |-> "raw", size |-> 2]}

MCInit ==
  /\ part \in {"recorder", "trace", "file", "client"}
  /\ RecorderInit /\ TraceInit /\ SharedMemoryInit /\ ClientInit
  /\ part = "recorder" \/ backend = "file"
  /\ part = "trace" \/ has_writer

MCNext ==
  /\ UNCHANGED part
  /\ \/ /\ part = "recorder" /\ RecorderNext
        /\ UNCHANGED <<traceVars, sharedMemoryVars, clientVars>>
     \/ /\ part = "trace" /\ TraceNext
        /\ UNCHANGED <<recorderVars, sharedMemoryVars, clientVars>>
     \/ /\ part = "file" /\ SharedMemoryNext
        /\ UNCHANGED <<recorderVars, traceVars, clientVars>>
     \/ /\ part = "client" /\ ClientNext
        /\ UNCHANGED <<recorderVars, traceVars, sharedMemoryVars>>

MCSpec == MCInit /\ [][MCNext]_<<part, recorderVars, traceVars, sharedMemoryVars, clientVars>>
=============================================================================
