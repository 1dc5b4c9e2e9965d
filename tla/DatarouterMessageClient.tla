----------------------- MODULE DatarouterMessageClient -----------------------
(***************************************************************************)
(* The connection of an application to the Datarouter.  Three threads run  *)
(* in it: the owner (Run and Shutdown), the connect thread that Run starts,*)
(* and the thread of the message passing library (external), which calls   *)
(* the state and the notify callback, one at a time, and which the         *)
(* destructor of the sender waits for.                                     *)
(***************************************************************************)
EXTENDS Integers, FiniteSets

CONSTANTS
  MaxAcquires   \* bound on the acquire requests of the Datarouter

ASSUME ClientAssumption == MaxAcquires \in Nat

VARIABLES
  owner,                   \* where the owner is
  connect,                 \* where the connect thread is
  library,                 \* where the thread of the library is
  unlinking,               \* where each thread is in UnlinkSharedMemoryFile
  stop_requested,          \* state of stop_source_
  first_message_received_,
  unlinked_shared_memory_file_,
  unlinks,                 \* calls of unlink so far
  sender_,                 \* "null", "started", or "stopped" once it is destroyed
  sender_mutex_,           \* whether Shutdown holds it
  sender_state_,           \* last state reported to the callback
  acquires,                \* acquire requests received
  replies                  \* messages given to the sender: connect, responses

clientVars == <<owner, connect, library, unlinking, stop_requested,
                first_message_received_, unlinked_shared_memory_file_, unlinks,
                sender_, sender_mutex_, sender_state_, acquires, replies>>

ClientThreads == {"owner", "connect", "library"}

ClientInit ==
  /\ owner = "constructed" /\ connect = "none" /\ library = "none"
  /\ unlinking = [t \in ClientThreads |-> "no"]
  /\ stop_requested = FALSE
  /\ first_message_received_ = FALSE
  /\ unlinked_shared_memory_file_ = FALSE
  /\ unlinks = 0
  /\ sender_ = "null" /\ sender_mutex_ = FALSE /\ sender_state_ = "none"
  /\ acquires = 0
  /\ replies = [connect |-> 0, response |-> 0]

\* The connect thread keeps sender_state_change_mutex_ from the evaluation of
\* the predicate until it blocks on the condition variable.
StateMutexFree == connect # "falling asleep"

\* state_condition_.notify_all() wakes a thread that is blocked, no other.
NotifyAll == connect' = IF connect = "blocked" THEN "wait" ELSE connect

-----------------------------------------------------------------------------
\* UnlinkSharedMemoryFile: a plain flag is read, then set, then the file is
\* unlinked.  Several threads may be here at once.
CheckUnlinked(t) ==
  /\ unlinking[t] = "called"
  /\ unlinking' = [unlinking EXCEPT ![t] =
                     IF unlinked_shared_memory_file_ THEN "returned" ELSE "unset"]
  /\ UNCHANGED <<unlinked_shared_memory_file_, unlinks>>

SetUnlinked(t) ==
  /\ unlinking[t] = "unset"
  /\ unlinking' = [unlinking EXCEPT ![t] = "set"]
  /\ unlinked_shared_memory_file_' = TRUE
  /\ UNCHANGED unlinks

Unlink(t) ==
  /\ unlinking[t] = "set"
  /\ unlinking' = [unlinking EXCEPT ![t] = "returned"]
  /\ unlinks' = unlinks + 1
  /\ UNCHANGED unlinked_shared_memory_file_

UnlinkSharedMemoryFile(t) ==
  /\ CheckUnlinked(t) \/ SetUnlinked(t) \/ Unlink(t)
  /\ UNCHANGED <<owner, connect, library, stop_requested, first_message_received_,
                 sender_, sender_mutex_, sender_state_, acquires, replies>>

Call(t) == unlinking' = [unlinking EXCEPT ![t] = "called"]
Return(t) == unlinking[t] = "returned" /\ unlinking' = [unlinking EXCEPT ![t] = "no"]

UnlinkUnchanged == UNCHANGED <<unlinked_shared_memory_file_, unlinks>>

\* SendMessage, which waits for sender_mutex_; the sender may
\* fail, and when there is no sender any more nothing is sent.
SendMessage(message, ok) ==
  /\ ~sender_mutex_
  /\ ok => replies' = IF sender_ = "started" THEN [replies EXCEPT ![message] = @ + 1]
                      ELSE replies
  /\ ~ok => sender_ = "started" /\ UNCHANGED replies

-----------------------------------------------------------------------------
(* The owner.                                                              *)
Run ==
  /\ owner = "constructed"
  /\ owner' = "running"
  /\ connect' = "create"
  /\ UnlinkUnchanged
  /\ UNCHANGED <<library, unlinking, stop_requested, first_message_received_,
                 sender_, sender_mutex_, sender_state_, acquires, replies>>

OwnerUnchanged ==
  UNCHANGED <<library, first_message_received_, sender_state_, acquires, replies>>

ShutdownRequestStop ==
  /\ owner = "running"
  /\ owner' = "notify"
  /\ stop_requested' = TRUE
  /\ OwnerUnchanged /\ UnlinkUnchanged
  /\ UNCHANGED <<connect, unlinking, sender_, sender_mutex_>>

ShutdownNotify ==
  /\ owner = "notify"
  /\ owner' = "join"
  /\ NotifyAll
  /\ OwnerUnchanged /\ UnlinkUnchanged
  /\ UNCHANGED <<unlinking, stop_requested, sender_, sender_mutex_>>

(* Mutant: the connect thread is not joined.                               *)
ShutdownJoinSkipped ==
  /\ owner = "join"
  /\ owner' = "reset"
  /\ sender_mutex_' = TRUE
  /\ OwnerUnchanged /\ UnlinkUnchanged
  /\ UNCHANGED <<connect, unlinking, stop_requested, sender_>>

ShutdownJoin ==
  /\ owner = "join" /\ connect = "finished"
  /\ owner' = "reset"
  /\ sender_mutex_' = TRUE
  /\ OwnerUnchanged /\ UnlinkUnchanged
  /\ UNCHANGED <<connect, unlinking, stop_requested, sender_>>

\* sender_.reset() returns when the library has stopped.
ShutdownReset ==
  /\ owner = "reset" /\ library \in {"none", "stopped"}
  /\ owner' = "unlink"
  /\ sender_' = "stopped"
  /\ sender_mutex_' = FALSE
  /\ Call("owner")
  /\ OwnerUnchanged /\ UnlinkUnchanged
  /\ UNCHANGED <<connect, stop_requested>>

ShutdownReturn ==
  /\ owner = "unlink"
  /\ Return("owner")
  /\ owner' = "done"
  /\ OwnerUnchanged /\ UnlinkUnchanged
  /\ UNCHANGED <<connect, stop_requested, sender_, sender_mutex_>>

Shutdown ==
  \/ ShutdownRequestStop
  \/ ShutdownNotify
  \/ ShutdownJoin
  \/ ShutdownReset
  \/ ShutdownReturn
  \/ UnlinkSharedMemoryFile("owner")

-----------------------------------------------------------------------------
(* The connect thread: ConnectToDatarouter.                                *)
ConnectUnchanged ==
  /\ UnlinkUnchanged
  /\ UNCHANGED <<owner, first_message_received_, sender_mutex_, sender_state_, acquires>>

CreateSender ==
  /\ connect = "create"
  /\ \/ /\ sender_' = "started" /\ library' = "idle"
        /\ connect' = "wait"
        /\ UNCHANGED unlinking
     \/ /\ connect' = "shutdown"
        /\ Call("connect")
        /\ UNCHANGED <<sender_, library>>
  /\ ConnectUnchanged
  /\ UNCHANGED <<stop_requested, replies>>

WaitPredicate == sender_state_ = "ready" \/ stop_requested

WaitForState ==
  /\ \/ /\ connect = "wait"
        /\ connect' = IF WaitPredicate THEN "ready" ELSE "falling asleep"
     \/ /\ connect = "falling asleep"
        /\ connect' = "blocked"
  /\ ConnectUnchanged
  /\ UNCHANGED <<library, unlinking, stop_requested, sender_, replies>>

\* The two checks after the wait.
AfterWait ==
  /\ connect = "ready"
  /\ IF stop_requested \/ sender_state_ # "ready"
       THEN connect' = "shutdown" /\ Call("connect")
       ELSE connect' = "send" /\ UNCHANGED unlinking
  /\ ConnectUnchanged
  /\ UNCHANGED <<library, stop_requested, sender_, replies>>

CheckExitRequestAndSendConnectMessage(ok) ==
  /\ connect = "send"
  /\ \/ /\ stop_requested /\ ok
        /\ connect' = "finished"
        /\ UNCHANGED <<replies, unlinking>>
     \/ /\ ~stop_requested
        /\ SendMessage("connect", ok)
        /\ connect' = IF ok THEN "finished" ELSE "shutdown"
        /\ IF ok THEN UNCHANGED unlinking ELSE Call("connect")
  /\ ConnectUnchanged
  /\ UNCHANGED <<library, stop_requested, sender_>>

\* RequestInternalShutdown: unlink first, then request the stop.
ConnectRequestStop ==
  /\ connect = "shutdown"
  /\ Return("connect")
  /\ connect' = "finished"
  /\ stop_requested' = TRUE
  /\ ConnectUnchanged
  /\ UNCHANGED <<library, sender_, replies>>

ConnectThread ==
  \/ CreateSender
  \/ WaitForState
  \/ AfterWait
  \/ \E ok \in BOOLEAN : CheckExitRequestAndSendConnectMessage(ok)
  \/ ConnectRequestStop
  \/ UnlinkSharedMemoryFile("connect")

-----------------------------------------------------------------------------
(* The thread of the library.                                              *)
LibraryUnchanged ==
  /\ UnlinkUnchanged
  /\ UNCHANGED <<owner, sender_, sender_mutex_>>

\* state_callback: the connection is established, or has ended.  It ends when
\* the Datarouter goes away, and when the sender is being destroyed.
StateCallback(new_state) ==
  /\ library = "idle"
  /\ new_state = "ready" => sender_state_ = "none"
  /\ StateMutexFree
  /\ sender_state_' = new_state
  /\ NotifyAll
  /\ IF new_state = "stopped"
       THEN library' = "stopping" /\ Call("library")
       ELSE UNCHANGED <<library, unlinking>>
  /\ LibraryUnchanged
  /\ UNCHANGED <<stop_requested, first_message_received_, acquires, replies>>

\* RequestInternalShutdown, after a failed Send and after the end: nobody is
\* notified of the stop.
LibraryRequestStop ==
  /\ library \in {"failed", "stopping"}
  /\ Return("library")
  /\ library' = IF library = "failed" THEN "idle" ELSE "stopped"
  /\ stop_requested' = TRUE
  /\ LibraryUnchanged
  /\ UNCHANGED <<connect, first_message_received_, sender_state_, acquires, replies>>

\* notify_callback with an acquire request.
OnAcquireRequest ==
  /\ library = "idle" /\ sender_state_ = "ready"
  /\ replies.connect = 1
  /\ acquires < MaxAcquires
  /\ acquires' = acquires + 1
  /\ first_message_received_' = TRUE
  /\ IF first_message_received_
       THEN library' = "respond" /\ UNCHANGED unlinking
       ELSE library' = "first message" /\ Call("library")
  /\ LibraryUnchanged
  /\ UNCHANGED <<connect, stop_requested, sender_state_, replies>>

HandleFirstMessageReceived ==
  /\ library = "first message"
  /\ Return("library")
  /\ library' = "respond"
  /\ LibraryUnchanged
  /\ UNCHANGED <<connect, stop_requested, first_message_received_, sender_state_,
                 acquires, replies>>

AcquireResponse(ok) ==
  /\ library = "respond"
  /\ SendMessage("response", ok)
  /\ IF ok THEN library' = "idle" /\ UNCHANGED unlinking
           ELSE library' = "failed" /\ Call("library")
  /\ LibraryUnchanged
  /\ UNCHANGED <<connect, stop_requested, first_message_received_, sender_state_,
                 acquires>>

Callbacks ==
  \/ LibraryRequestStop
  \/ HandleFirstMessageReceived
  \/ \E ok \in BOOLEAN : AcquireResponse(ok)
  \/ UnlinkSharedMemoryFile("library")

LibraryStop == owner = "reset" /\ StateCallback("stopped")

ClientNext ==
  \/ Run
  \/ Shutdown
  \/ ConnectThread
  \/ \E new_state \in {"ready", "stopped"} : StateCallback(new_state)
  \/ OnAcquireRequest
  \/ Callbacks

ClientSpec == ClientInit /\ [][ClientNext]_clientVars

\* Threads run.  The Datarouter owes nothing, but the library stops when it
\* is asked to.
FairClientSpec ==
  /\ ClientSpec
  /\ WF_clientVars(Shutdown)
  /\ WF_clientVars(ConnectThread)
  /\ WF_clientVars(Callbacks)
  /\ WF_clientVars(LibraryStop)

-----------------------------------------------------------------------------
(* No callback and no connect thread runs any more when Shutdown returns,  *)
(* and the file of the shared memory has then been removed, even if it was *)
(* another thread that found the flag unset.                               *)
NothingLeftBehind ==
  owner = "done" =>
    /\ connect = "finished"
    /\ library \in {"none", "stopped"}
    /\ unlinks > 0

(* The file of the shared memory stays until the Datarouter has asked for  *)
(* data, unless logging is being shut down: whoever removed it before is   *)
(* about to request the stop, or somebody has.                             *)
FileKeptForDatarouter ==
  unlinks > 0 =>
    \/ first_message_received_
    \/ stop_requested
    \/ connect = "shutdown"
    \/ library \in {"failed", "stopping"}

(* Every acquire request is answered, or logging is being shut down.       *)
AcquireAnswered ==
  \/ replies.response = acquires
  \/ library \in {"first message", "respond"} /\ replies.response = acquires - 1
  \/ library = "failed"
  \/ stop_requested

(* A thread that waits for sender_mutex_ and the owner, which keeps it     *)
(* until that thread is done, never wait for each other, and the connect   *)
(* thread never misses the notification of the stop: Shutdown returns, as  *)
(* it should "Block until all pending tasks and threads have finished".    *)
ShutdownReturns == owner = "notify" ~> owner = "done"

=============================================================================
