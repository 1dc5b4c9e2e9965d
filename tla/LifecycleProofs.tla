-------------------------- MODULE LifecycleProofs ---------------------------
(***************************************************************************)
(* Proofs about the start and the end of a client process.                 *)
(* DatarouterMessageClient, for any number of acquire requests: what holds *)
(* when Shutdown returns, when the file of the shared memory may go, and   *)
(* what becomes of acquire requests.  SharedMemoryFile, for any number of  *)
(* processes, any sizes of the ring buffer and any failures of calls: a    *)
(* file is laid out once, by the process that made it, and a reader maps   *)
(* only what the process it belongs to has laid out.                       *)
(***************************************************************************)
EXTENDS DatarouterMessageClient, SharedMemoryFile, TLAPS

-----------------------------------------------------------------------------
(* DatarouterMessageClient.  The inductive invariant says which thread can *)
(* be inside UnlinkSharedMemoryFile, and what its unprotected flag tells   *)
(* about the calls of unlink.                                              *)

ClientTypeOK ==
  /\ owner \in {"constructed", "running", "notify", "join", "reset", "unlink", "done"}
  /\ connect \in {"none", "create", "wait", "falling asleep", "blocked", "ready", "send",
                  "shutdown", "finished"}
  /\ library \in {"none", "idle", "first message", "respond", "failed", "stopping", "stopped"}
  /\ unlinking \in [ClientThreads -> {"no", "called", "unset", "set", "returned"}]
  /\ sender_ \in {"null", "started", "stopped"}
  /\ sender_state_ \in {"none", "ready", "stopped"}

NumbersOK ==
  /\ unlinks \in Nat /\ acquires \in Nat
  /\ replies \in [connect : Nat, response : Nat]

(* A thread is in UnlinkSharedMemoryFile only where its code calls it.     *)
CallersKnown ==
  /\ unlinking["owner"] # "no" => owner = "unlink"
  /\ unlinking["connect"] # "no" => connect = "shutdown"
  /\ unlinking["library"] # "no" => library \in {"failed", "stopping", "first message"}

(* Shutdown goes on from its join and its reset only when the other        *)
(* threads are done, and it has requested the stop first.                  *)
ShutdownOrder ==
  /\ owner = "constructed" => connect = "none"
  /\ connect \in {"none", "create"} => library = "none"
  /\ owner \notin {"constructed", "running"} => stop_requested
  /\ owner \in {"reset", "unlink", "done"} => connect = "finished"
  /\ owner \in {"unlink", "done"} => library \in {"none", "stopped"}
  /\ library \notin {"none", "stopped"} => sender_ = "started"

(* The flag is set by a thread that is about to unlink or has done so, and *)
(* the owner, which is alone by then, relies on it.                        *)
FlagMeansUnlinked ==
  /\ unlinked_shared_memory_file_ =>
       unlinks > 0 \/ \E t \in ClientThreads : unlinking[t] = "set"
  /\ unlinking["owner"] = "returned" \/ owner = "done" => unlinks > 0

(* First messages are remembered, and requests are answered one at a time. *)
RequestsKnown ==
  /\ library = "first message" => first_message_received_
  /\ FileKeptForDatarouter
  /\ \/ stop_requested
     \/ library = "failed"
     \/ library \in {"first message", "respond"} /\ replies.response = acquires - 1
     \/ library \notin {"first message", "respond"} /\ replies.response = acquires

ClientInv ==
  /\ ClientTypeOK
  /\ NumbersOK
  /\ CallersKnown
  /\ ShutdownOrder
  /\ FlagMeansUnlinked
  /\ RequestsKnown

-----------------------------------------------------------------------------
(* A client that is constructed satisfies the invariant.                   *)
LEMMA InitClient == ClientInit => ClientInv
BY DEF ClientInit, ClientInv, ClientTypeOK, NumbersOK, CallersKnown, ShutdownOrder,
       FlagMeansUnlinked, RequestsKnown, FileKeptForDatarouter, ClientThreads

(* The places of the threads stay places of the code.  (This lemma and the *)
(* next ones: one per conjunct, with one step per action.)                 *)
LEMMA TypesKept == ASSUME ClientInv, ClientNext PROVE ClientTypeOK'
<1> USE DEF ClientInv, ClientThreads, ClientTypeOK
<1>1. CASE Run
  BY <1>1, ZenonT(30) DEF Run
<1>2. CASE ShutdownRequestStop
  BY <1>2, ZenonT(30) DEF ShutdownRequestStop, OwnerUnchanged
<1>3. CASE ShutdownNotify
  BY <1>3, ZenonT(30) DEF ShutdownNotify, NotifyAll, OwnerUnchanged
<1>4. CASE ShutdownJoin
  BY <1>4, ZenonT(30) DEF ShutdownJoin, OwnerUnchanged
<1>5. CASE ShutdownReset
  BY <1>5, ZenonT(30) DEF ShutdownReset, Call, OwnerUnchanged
<1>6. CASE ShutdownReturn
  BY <1>6, ZenonT(30) DEF ShutdownReturn, Return, OwnerUnchanged
<1>7. CASE CreateSender
  BY <1>7, ZenonT(60) DEF CreateSender, Call, ConnectUnchanged
<1>8. CASE WaitForState
  BY <1>8, ZenonT(30) DEF WaitForState, ConnectUnchanged
<1>9. CASE AfterWait
  BY <1>9, ZenonT(30) DEF AfterWait, Call, ConnectUnchanged
<1>10. ASSUME NEW ok \in BOOLEAN, CheckExitRequestAndSendConnectMessage(ok)
       PROVE  ClientTypeOK'
  BY <1>10, ZenonT(60)
  DEF CheckExitRequestAndSendConnectMessage, Call, ConnectUnchanged
<1>11. CASE ConnectRequestStop
  BY <1>11, ZenonT(30) DEF ConnectRequestStop, Return, ConnectUnchanged
<1>12. ASSUME NEW new_state \in {"ready", "stopped"}, StateCallback(new_state)
       PROVE  ClientTypeOK'
  BY <1>12, ZenonT(30) DEF StateCallback, NotifyAll, Call, LibraryUnchanged
<1>13. CASE OnAcquireRequest
  BY <1>13, ZenonT(30) DEF OnAcquireRequest, Call, LibraryUnchanged
<1>14. CASE LibraryRequestStop
  BY <1>14, ZenonT(60) DEF LibraryRequestStop, Return, LibraryUnchanged
<1>15. CASE HandleFirstMessageReceived
  BY <1>15, ZenonT(30) DEF HandleFirstMessageReceived, Return, LibraryUnchanged
<1>16. ASSUME NEW ok \in BOOLEAN, AcquireResponse(ok) PROVE ClientTypeOK'
  BY <1>16, ZenonT(60) DEF AcquireResponse, Call, LibraryUnchanged
<1>17. ASSUME NEW t \in ClientThreads, UnlinkSharedMemoryFile(t) PROVE ClientTypeOK'
  <2>1. UNCHANGED <<owner, connect, library, sender_, sender_state_>>
    BY <1>17, ZenonT(30) DEF UnlinkSharedMemoryFile
  <2>2. \E value \in {"unset", "set", "returned"} : unlinking' = [unlinking EXCEPT ![t] = value]
    BY <1>17, ZenonT(30)
    DEF UnlinkSharedMemoryFile, CheckUnlinked, SetUnlinked, Unlink
  <2>3. unlinking' \in [ClientThreads -> {"no", "called", "unset", "set", "returned"}]
    BY <2>2, ZenonT(30)
  <2> QED
    BY <2>1, <2>3, ZenonT(60)
<1> QED
  BY ZenonT(30), <1>1, <1>2, <1>3, <1>4, <1>5, <1>6, <1>7, <1>8, <1>9, <1>10,
     <1>11, <1>12, <1>13, <1>14,
     <1>15, <1>16, <1>17
  DEF ClientNext, Shutdown, ConnectThread, Callbacks

(* Counters of calls and messages stay natural numbers.                    *)
LEMMA NumbersKept == ASSUME ClientInv, ClientNext PROVE NumbersOK'
<1> USE DEF ClientInv, ClientThreads, NumbersOK
<1>1. CASE Run \/ ShutdownRequestStop
  BY <1>1 DEF Run, ShutdownRequestStop, OwnerUnchanged, UnlinkUnchanged
<1>2. CASE ShutdownNotify \/ ShutdownJoin
  BY <1>2
  DEF ShutdownNotify, NotifyAll, ShutdownJoin, OwnerUnchanged, UnlinkUnchanged
<1>3. CASE ShutdownReset \/ ShutdownReturn
  BY <1>3 DEF ShutdownReset, Call, ShutdownReturn, Return, OwnerUnchanged,
              UnlinkUnchanged
<1>4. CASE CreateSender
  BY <1>4 DEF CreateSender, Call, ConnectUnchanged, UnlinkUnchanged
<1>5. CASE WaitForState \/ AfterWait
  BY <1>5, ZenonT(30)
  DEF WaitForState, AfterWait, Call, ConnectUnchanged, UnlinkUnchanged
<1>6. ASSUME NEW ok \in BOOLEAN, CheckExitRequestAndSendConnectMessage(ok)
      PROVE  NumbersOK'
  BY <1>6
  DEF CheckExitRequestAndSendConnectMessage, SendMessage, Call, ConnectUnchanged,
              UnlinkUnchanged
<1>7. CASE ConnectRequestStop \/ LibraryRequestStop
  BY <1>7 DEF ConnectRequestStop, LibraryRequestStop, Return, ConnectUnchanged,
              LibraryUnchanged, UnlinkUnchanged
<1>8. ASSUME NEW new_state \in {"ready", "stopped"}, StateCallback(new_state)
      PROVE  NumbersOK'
  BY <1>8 DEF StateCallback, NotifyAll, Call, LibraryUnchanged, UnlinkUnchanged
<1>9. CASE OnAcquireRequest
  <2>1. acquires' = acquires + 1 /\ UNCHANGED <<unlinks, replies>>
    BY <1>9, ZenonT(30) DEF OnAcquireRequest, LibraryUnchanged, UnlinkUnchanged
  <2> QED
    BY <2>1
<1>10. CASE HandleFirstMessageReceived
  BY <1>10, ZenonT(30)
  DEF HandleFirstMessageReceived, Return, LibraryUnchanged, UnlinkUnchanged
<1>11. ASSUME NEW ok \in BOOLEAN, AcquireResponse(ok) PROVE NumbersOK'
  BY <1>11
  DEF AcquireResponse, SendMessage, Call, LibraryUnchanged, UnlinkUnchanged
<1>12. ASSUME NEW t \in ClientThreads, UnlinkSharedMemoryFile(t) PROVE NumbersOK'
  <2>1. CASE CheckUnlinked(t) \/ SetUnlinked(t)
    BY <1>12, <2>1 DEF UnlinkSharedMemoryFile, CheckUnlinked, SetUnlinked
  <2>2. CASE Unlink(t)
    BY <1>12, <2>2 DEF UnlinkSharedMemoryFile, Unlink
  <2> QED
    BY <1>12, <2>1, <2>2 DEF UnlinkSharedMemoryFile
<1> QED
  BY <1>1, <1>2, <1>3, <1>4, <1>5, <1>6, <1>7, <1>8, <1>9, <1>10, <1>11, <1>12
  DEF ClientNext, Shutdown, ConnectThread, Callbacks

(* A thread enters UnlinkSharedMemoryFile only from its callers.           *)
LEMMA CallersKept == ASSUME ClientInv, ClientNext PROVE CallersKnown'
<1> USE DEF ClientInv, ClientThreads, ClientTypeOK, CallersKnown, ShutdownOrder
<1>1. CASE Run \/ ShutdownRequestStop
  BY <1>1, ZenonT(30)
  DEF Run, ShutdownRequestStop, OwnerUnchanged, UnlinkUnchanged
<1>2. CASE ShutdownNotify \/ ShutdownJoin
  BY <1>2, ZenonT(30)
  DEF ShutdownNotify, NotifyAll, ShutdownJoin, OwnerUnchanged, UnlinkUnchanged
<1>3. CASE ShutdownReset \/ ShutdownReturn
  BY <1>3, ZenonT(30)
  DEF ShutdownReset, Call, ShutdownReturn, Return, OwnerUnchanged,
              UnlinkUnchanged
<1>4. CASE CreateSender
  BY <1>4, ZenonT(30) DEF CreateSender, Call, ConnectUnchanged, UnlinkUnchanged
<1>5. CASE WaitForState \/ AfterWait
  BY <1>5, ZenonT(30)
  DEF WaitForState, AfterWait, Call, ConnectUnchanged, UnlinkUnchanged
<1>6. ASSUME NEW ok \in BOOLEAN, CheckExitRequestAndSendConnectMessage(ok)
      PROVE  CallersKnown'
  BY <1>6, ZenonT(30)
  DEF CheckExitRequestAndSendConnectMessage, SendMessage, Call, ConnectUnchanged,
              UnlinkUnchanged
<1>7. CASE ConnectRequestStop \/ LibraryRequestStop
  BY <1>7, ZenonT(30)
  DEF ConnectRequestStop, LibraryRequestStop, Return, ConnectUnchanged,
              LibraryUnchanged, UnlinkUnchanged
<1>8. ASSUME NEW new_state \in {"ready", "stopped"}, StateCallback(new_state)
      PROVE  CallersKnown'
  BY <1>8, ZenonT(30)
  DEF StateCallback, NotifyAll, Call, LibraryUnchanged, UnlinkUnchanged
<1>9. CASE OnAcquireRequest
  BY <1>9, ZenonT(30)
  DEF OnAcquireRequest, Call, LibraryUnchanged, UnlinkUnchanged
<1>10. CASE HandleFirstMessageReceived
  BY <1>10, ZenonT(30)
  DEF HandleFirstMessageReceived, Return, LibraryUnchanged, UnlinkUnchanged
<1>11. ASSUME NEW ok \in BOOLEAN, AcquireResponse(ok) PROVE CallersKnown'
  BY <1>11, ZenonT(30)
  DEF AcquireResponse, SendMessage, Call, LibraryUnchanged, UnlinkUnchanged
<1>12. ASSUME NEW t \in ClientThreads, UnlinkSharedMemoryFile(t) PROVE CallersKnown'
  BY <1>12, ZenonT(30)
  DEF UnlinkSharedMemoryFile, CheckUnlinked, SetUnlinked, Unlink
<1> QED
  BY <1>1, <1>2, <1>3, <1>4, <1>5, <1>6, <1>7, <1>8, <1>9, <1>10, <1>11, <1>12,
     ZenonT(30)
  DEF ClientNext, Shutdown, ConnectThread, Callbacks

(* Shutdown keeps its order: request, join, reset, unlink.                 *)
LEMMA ShutdownOrderKept == ASSUME ClientInv, ClientNext PROVE ShutdownOrder'
<1> USE DEF ClientInv, ClientThreads, ClientTypeOK, CallersKnown, ShutdownOrder
<1>1. CASE Run \/ ShutdownRequestStop
  BY <1>1, ZenonT(30)
  DEF Run, ShutdownRequestStop, OwnerUnchanged, UnlinkUnchanged
<1>2. CASE ShutdownNotify \/ ShutdownJoin
  BY <1>2, ZenonT(30)
  DEF ShutdownNotify, NotifyAll, ShutdownJoin, OwnerUnchanged, UnlinkUnchanged
<1>3. CASE ShutdownReset \/ ShutdownReturn
  BY <1>3, ZenonT(30)
  DEF ShutdownReset, Call, ShutdownReturn, Return, OwnerUnchanged,
              UnlinkUnchanged
<1>4. CASE CreateSender
  BY <1>4 DEF CreateSender, Call, ConnectUnchanged, UnlinkUnchanged
<1>5. CASE WaitForState \/ AfterWait
  BY <1>5, ZenonT(30)
  DEF WaitForState, AfterWait, Call, ConnectUnchanged, UnlinkUnchanged
<1>6. ASSUME NEW ok \in BOOLEAN, CheckExitRequestAndSendConnectMessage(ok)
      PROVE  ShutdownOrder'
  BY <1>6, ZenonT(30)
  DEF CheckExitRequestAndSendConnectMessage, SendMessage, Call, ConnectUnchanged,
              UnlinkUnchanged
<1>7. CASE ConnectRequestStop \/ LibraryRequestStop
  BY <1>7, ZenonT(30)
  DEF ConnectRequestStop, LibraryRequestStop, Return, ConnectUnchanged,
              LibraryUnchanged, UnlinkUnchanged
<1>8. ASSUME NEW new_state \in {"ready", "stopped"}, StateCallback(new_state)
      PROVE  ShutdownOrder'
  BY <1>8, ZenonT(30)
  DEF StateCallback, NotifyAll, Call, LibraryUnchanged, UnlinkUnchanged
<1>9. CASE OnAcquireRequest
  BY <1>9, ZenonT(30)
  DEF OnAcquireRequest, Call, LibraryUnchanged, UnlinkUnchanged
<1>10. CASE HandleFirstMessageReceived
  BY <1>10, ZenonT(30)
  DEF HandleFirstMessageReceived, Return, LibraryUnchanged, UnlinkUnchanged
<1>11. ASSUME NEW ok \in BOOLEAN, AcquireResponse(ok) PROVE ShutdownOrder'
  BY <1>11, ZenonT(30)
  DEF AcquireResponse, SendMessage, Call, LibraryUnchanged, UnlinkUnchanged
<1>12. ASSUME NEW t \in ClientThreads, UnlinkSharedMemoryFile(t) PROVE ShutdownOrder'
  BY <1>12, ZenonT(30)
  DEF UnlinkSharedMemoryFile, CheckUnlinked, SetUnlinked, Unlink
<1> QED
  BY <1>1, <1>2, <1>3, <1>4, <1>5, <1>6, <1>7, <1>8, <1>9, <1>10, <1>11, <1>12,
     ZenonT(30)
  DEF ClientNext, Shutdown, ConnectThread, Callbacks

(* A flag that is set stands for an unlink, done or about to be.           *)
LEMMA FlagKept == ASSUME ClientInv, ClientNext PROVE FlagMeansUnlinked'
<1> USE DEF ClientInv, ClientThreads, ClientTypeOK, CallersKnown, ShutdownOrder, FlagMeansUnlinked
<1>1. CASE Run \/ ShutdownRequestStop
  <2>1. CASE Run
    BY <2>1 DEF Run, UnlinkUnchanged
  <2>2. CASE ShutdownRequestStop
    BY <2>2, ZenonT(30) DEF ShutdownRequestStop, OwnerUnchanged, UnlinkUnchanged
  <2> QED
    BY <1>1, <2>1, <2>2, ZenonT(30)
<1>2. CASE ShutdownNotify \/ ShutdownJoin
  <2>1. CASE ShutdownNotify
    BY <2>1, ZenonT(30)
    DEF ShutdownNotify, NotifyAll, OwnerUnchanged, UnlinkUnchanged
  <2>2. CASE ShutdownJoin
    BY <2>2, ZenonT(30) DEF ShutdownJoin, OwnerUnchanged, UnlinkUnchanged
  <2> QED
    BY <1>2, <2>1, <2>2, ZenonT(30)
<1>3. CASE ShutdownReset \/ ShutdownReturn
  <2>1. CASE ShutdownReset
    BY <2>1, ZenonT(30) DEF ShutdownReset, Call, OwnerUnchanged, UnlinkUnchanged
  <2>2. CASE ShutdownReturn
    BY <2>2, ZenonT(30)
    DEF ShutdownReturn, Return, OwnerUnchanged, UnlinkUnchanged
  <2> QED
    BY <1>3, <2>1, <2>2, ZenonT(30)
<1>4. CASE CreateSender
  BY <1>4 DEF CreateSender, Call, ConnectUnchanged, UnlinkUnchanged
<1>5. CASE WaitForState \/ AfterWait
  <2>1. CASE WaitForState
    BY <2>1, ZenonT(30) DEF WaitForState, ConnectUnchanged, UnlinkUnchanged
  <2>2. CASE AfterWait
    BY <2>2, ZenonT(30) DEF AfterWait, Call, ConnectUnchanged, UnlinkUnchanged
  <2> QED
    BY <1>5, <2>1, <2>2, ZenonT(30)
<1>6. ASSUME NEW ok \in BOOLEAN, CheckExitRequestAndSendConnectMessage(ok)
      PROVE  FlagMeansUnlinked'
  BY <1>6, ZenonT(30)
  DEF CheckExitRequestAndSendConnectMessage, SendMessage, Call, ConnectUnchanged,
              UnlinkUnchanged
<1>7. CASE ConnectRequestStop \/ LibraryRequestStop
  <2>1. CASE ConnectRequestStop
    BY <2>1, ZenonT(30)
    DEF ConnectRequestStop, Return, ConnectUnchanged, UnlinkUnchanged
  <2>2. CASE LibraryRequestStop
    BY <2>2, ZenonT(30)
    DEF LibraryRequestStop, Return, LibraryUnchanged, UnlinkUnchanged
  <2> QED
    BY <1>7, <2>1, <2>2, ZenonT(30)
<1>8. ASSUME NEW new_state \in {"ready", "stopped"}, StateCallback(new_state)
      PROVE  FlagMeansUnlinked'
  BY <1>8, ZenonT(30)
  DEF StateCallback, NotifyAll, Call, LibraryUnchanged, UnlinkUnchanged
<1>9. CASE OnAcquireRequest
  BY <1>9, ZenonT(30)
  DEF OnAcquireRequest, Call, LibraryUnchanged, UnlinkUnchanged
<1>10. CASE HandleFirstMessageReceived
  BY <1>10, ZenonT(30)
  DEF HandleFirstMessageReceived, Return, LibraryUnchanged, UnlinkUnchanged
<1>11. ASSUME NEW ok \in BOOLEAN, AcquireResponse(ok) PROVE FlagMeansUnlinked'
  BY <1>11, ZenonT(60)
  DEF AcquireResponse, SendMessage, Call, LibraryUnchanged, UnlinkUnchanged
<1>12. ASSUME NEW t \in ClientThreads, UnlinkSharedMemoryFile(t) PROVE FlagMeansUnlinked'
  <2>1. CASE CheckUnlinked(t)
    BY <1>12, <2>1, ZenonT(30) DEF UnlinkSharedMemoryFile, CheckUnlinked
  <2>2. CASE SetUnlinked(t)
    BY <1>12, <2>2, ZenonT(30) DEF UnlinkSharedMemoryFile, SetUnlinked
  <2>3. CASE Unlink(t)
    <3>1. unlinks \in Nat
      BY ZenonT(30) DEF NumbersOK
    <3> HIDE DEF ClientInv
    <3>2. unlinks' > 0
      BY <2>3, <3>1, SMTT(30) DEF Unlink
    <3> QED
      BY <3>2
  <2> QED
    BY <1>12, <2>1, <2>2, <2>3, ZenonT(30) DEF UnlinkSharedMemoryFile
<1> QED
  BY <1>1, <1>2, <1>3, <1>4, <1>5, <1>6, <1>7, <1>8, <1>9, <1>10, <1>11, <1>12,
     ZenonT(30)
  DEF ClientNext, Shutdown, ConnectThread, Callbacks

(* A request is answered before the next one is received.                  *)
LEMMA RequestsKept == ASSUME ClientInv, ClientNext PROVE RequestsKnown'
<1> USE DEF ClientInv, ClientThreads, ClientTypeOK, NumbersOK, CallersKnown, ShutdownOrder,
            RequestsKnown, FileKeptForDatarouter
<1>1. CASE Run \/ ShutdownRequestStop
  BY <1>1, ZenonT(30)
  DEF Run, ShutdownRequestStop, OwnerUnchanged, UnlinkUnchanged
<1>2. CASE ShutdownNotify \/ ShutdownJoin
  BY <1>2, ZenonT(30)
  DEF ShutdownNotify, NotifyAll, ShutdownJoin, OwnerUnchanged, UnlinkUnchanged
<1>3. CASE ShutdownReset \/ ShutdownReturn
  BY <1>3, ZenonT(30)
  DEF ShutdownReset, Call, ShutdownReturn, Return, OwnerUnchanged,
              UnlinkUnchanged
<1>4. CASE CreateSender
  BY <1>4, ZenonT(30) DEF CreateSender, Call, ConnectUnchanged, UnlinkUnchanged
<1>5. CASE WaitForState \/ AfterWait
  BY <1>5, ZenonT(30)
  DEF WaitForState, AfterWait, Call, ConnectUnchanged, UnlinkUnchanged
<1>6. ASSUME NEW ok \in BOOLEAN, CheckExitRequestAndSendConnectMessage(ok)
      PROVE  RequestsKnown'
  BY <1>6, ZenonT(30)
  DEF CheckExitRequestAndSendConnectMessage, SendMessage, Call, ConnectUnchanged,
              UnlinkUnchanged
<1>7. CASE ConnectRequestStop \/ LibraryRequestStop
  BY <1>7, ZenonT(30)
  DEF ConnectRequestStop, LibraryRequestStop, Return, ConnectUnchanged,
              LibraryUnchanged, UnlinkUnchanged
<1>8. ASSUME NEW new_state \in {"ready", "stopped"}, StateCallback(new_state)
      PROVE  RequestsKnown'
  BY <1>8, ZenonT(30)
  DEF StateCallback, NotifyAll, Call, LibraryUnchanged, UnlinkUnchanged
<1>9. CASE OnAcquireRequest
  <2>1. first_message_received_' /\ (stop_requested => stop_requested')
    BY <1>9, ZenonT(30) DEF OnAcquireRequest
  <2>2. library = "idle" /\ library' \in {"respond", "first message"}
    BY <1>9, ZenonT(30) DEF OnAcquireRequest
  <2>3. replies.response = acquires \/ stop_requested
    BY <2>2, ZenonT(30)
  <2>4. acquires' = acquires + 1 /\ replies' = replies /\ NumbersOK
    BY <1>9, ZenonT(30) DEF OnAcquireRequest
  <2> HIDE DEF ClientInv
  <2>5. replies.response = acquires => replies'.response = acquires' - 1
    BY <2>4
  <2> QED
    BY <2>1, <2>2, <2>3, <2>5, ZenonT(30)
<1>10. CASE HandleFirstMessageReceived
  BY <1>10, ZenonT(30)
  DEF HandleFirstMessageReceived, Return, LibraryUnchanged, UnlinkUnchanged
<1>11. ASSUME NEW ok \in BOOLEAN, AcquireResponse(ok) PROVE RequestsKnown'
  <2>1. /\ library = "respond" /\ library' \in {"idle", "failed"}
        /\ stop_requested => stop_requested'
    BY <1>11, ZenonT(30) DEF AcquireResponse
  <2>2. library' = "idle" => replies'.response = replies.response + 1
    BY <1>11, ZenonT(30) DEF AcquireResponse, SendMessage, ShutdownOrder
  <2>3. replies.response = acquires - 1 \/ stop_requested
    BY <2>1, ZenonT(30)
  <2>4. acquires' = acquires /\ NumbersOK
    BY <1>11, ZenonT(30) DEF AcquireResponse
  <2>5. FileKeptForDatarouter'
    BY <1>11, <2>1, ZenonT(30)
    DEF AcquireResponse, LibraryUnchanged, UnlinkUnchanged
  <2> HIDE DEF ClientInv
  <2>6. library' = "idle" /\ replies.response = acquires - 1 => replies'.response = acquires'
    BY <2>2, <2>4
  <2> QED
    BY <2>1, <2>3, <2>5, <2>6, ZenonT(30)
<1>12. ASSUME NEW t \in ClientThreads, UnlinkSharedMemoryFile(t) PROVE RequestsKnown'
  BY <1>12, ZenonT(30)
  DEF UnlinkSharedMemoryFile, CheckUnlinked, SetUnlinked, Unlink
<1> QED
  BY <1>1, <1>2, <1>3, <1>4, <1>5, <1>6, <1>7, <1>8, <1>9, <1>10, <1>11, <1>12,
     ZenonT(30)
  DEF ClientNext, Shutdown, ConnectThread, Callbacks

(* Every step of a thread of the client keeps the invariant.               *)
LEMMA NextClient == ClientInv /\ [ClientNext]_clientVars => ClientInv'
<1> SUFFICES ASSUME ClientInv, [ClientNext]_clientVars PROVE ClientInv'
  OBVIOUS
<1>1. CASE UNCHANGED clientVars
  <2>1. ClientTypeOK'
    BY <1>1, ZenonT(60) DEF clientVars, ClientInv, ClientTypeOK
  <2>2. NumbersOK'
    BY <1>1 DEF clientVars, ClientInv, NumbersOK
  <2>3. CallersKnown' /\ ShutdownOrder' /\ FlagMeansUnlinked' /\ RequestsKnown'
    BY <1>1, ZenonT(60)
    DEF clientVars, ClientInv, CallersKnown, ShutdownOrder, FlagMeansUnlinked,
                RequestsKnown, FileKeptForDatarouter
  <2> QED
    BY <2>1, <2>2, <2>3 DEF ClientInv
<1>2. CASE ClientNext
  BY <1>2, TypesKept, NumbersKept, CallersKept, ShutdownOrderKept, FlagKept, RequestsKept
  DEF ClientInv
<1> QED
  BY <1>1, <1>2

(* The invariant holds in every state the threads of the client reach.     *)
THEOREM ClientInvariant == ClientSpec => []ClientInv
BY InitClient, NextClient, PTL DEF ClientSpec

(* When Shutdown returns, no other thread of the client runs any more and  *)
(* unlink has been called, although three threads test and set the flag of *)
(* UnlinkSharedMemoryFile without a lock.                                  *)
THEOREM ShutdownLeavesNothing == ClientSpec => []NothingLeftBehind
<1>1. ClientInv => NothingLeftBehind
  BY DEF ClientInv, ShutdownOrder, FlagMeansUnlinked, NothingLeftBehind
<1> QED
  BY <1>1, ClientInvariant, PTL

(* UnlinkSharedMemoryFile is reached only after the first message of the   *)
(* Datarouter or on a way that requests the stop: a client that goes on    *)
(* has not removed a file the Datarouter may still have to open.           *)
THEOREM FileIsKept == ClientSpec => []FileKeptForDatarouter
<1>1. ClientInv => FileKeptForDatarouter
  BY ZenonT(30) DEF ClientInv, RequestsKnown
<1> QED
  BY <1>1, ClientInvariant, PTL

(* OnAcquireRequest answers each request before the next one, or the stop  *)
(* has been requested: none is dropped silently.                           *)
THEOREM RequestsAnswered == ClientSpec => []AcquireAnswered
<1>1. ClientInv => AcquireAnswered
  BY ZenonT(30) DEF ClientInv, RequestsKnown, AcquireAnswered
<1> QED
  BY <1>1, ClientInvariant, PTL

-----------------------------------------------------------------------------
(* SharedMemoryFile.                                                       *)

ProcessPcs == {"prepare", "open", "chmod", "truncate", "map", "construct", "connect", "connected",
        "unlinked", "failed", "refused", "dead"}
Working == {"chmod", "truncate", "map", "construct"}
Preparing == {"prepare", "open", "chmod", "truncate", "map", "construct"}

Numbers == Nat   \* kept folded in the proofs about records
ProcessRecords == [pc : ProcessPcs, dynamic : BOOLEAN, name : Processes \union {0},
                   ring : Numbers, inode : Numbers, fault : BOOLEAN, since : Numbers]
ProcessType == [Processes -> ProcessRecords \union {[pc |-> "none"]}]
InodeRecords == [creator : Processes, size : 0 .. SizeModulus - 1,
                 producer_pid : Processes \union {0},
                 offset1 : Nat, offset2 : Nat, half : Nat, constructed : 0..1]

(* A process works on its own file.                                        *)
ProcessInv ==
  /\ process \in ProcessType
  /\ \A p \in Processes :
       /\ process[p] \in ProcessRecords => Name(p) = NameOf(p, Dynamic(p))
       /\ ProcessAt(p) \in {"chmod", "truncate", "map", "construct"}
            => Inode(p) \in DOMAIN inodes /\ inodes[Inode(p)].creator = p

(* A dynamic name is the name of a file its process made.                  *)
NameInv ==
  /\ names = [n \in DOMAIN names |-> names[n]]
  /\ \A n \in DOMAIN names :
       names[n] \in DOMAIN inodes /\ (n \in Processes => inodes[names[n]].creator = n)

(* A file is blank until its process has laid it out.                      *)
InodeInv ==
  /\ inodes \in Seq(InodeRecords)
  /\ \A i \in DOMAIN inodes :
       /\ ProcessAt(inodes[i].creator) \in Preparing \union {"none"} => inodes[i].constructed = 0
       /\ inodes[i].producer_pid # 0 =>
            /\ inodes[i].constructed = 1 /\ inodes[i].producer_pid = inodes[i].creator
            /\ inodes[i].offset1 = SharedDataSize
            /\ inodes[i].offset2 = (SharedDataSize + inodes[i].half) % SizeModulus

ReaderInv ==
  /\ \A c \in connects : c.pid \in Processes
  /\ \A c \in opened : c.pid \in Processes /\ c.inode \in DOMAIN inodes
  /\ \A r \in readers : r.inode \in DOMAIN inodes
  /\ ReadersAreSound

FileInv == ProcessInv /\ NameInv /\ InodeInv /\ ReaderInv

-----------------------------------------------------------------------------
(* Before anything starts the invariant holds.                             *)
LEMMA InitFile == SharedMemoryInit => FileInv
<1> SUFFICES ASSUME SharedMemoryInit PROVE FileInv
  BY SMTT(30)
<1>1. ProcessInv
  BY
  DEF SharedMemoryInit, ProcessInv, ProcessType, ProcessRecords, ProcessAt,
      ProcessPcs
<1>2. NameInv
  BY DEF SharedMemoryInit, NameInv
<1>3. InodeInv
  BY DEF SharedMemoryInit, InodeInv
<1>4. ReaderInv
  BY DEF SharedMemoryInit, ReaderInv, ReadersAreSound
<1> QED
  BY <1>1, <1>2, <1>3, <1>4 DEF FileInv

(* What the ReaderFactory accepts lies inside the mapping: if the second   *)
(* offset had wrapped, the first block would already end behind the file.  *)
LEMMA LaidOut ==
  ASSUME NEW off1 \in Nat, NEW half \in Nat, NEW size \in 0 .. SizeModulus - 1,
         off1 = SharedDataSize, NEW off2,
         off2 = (SharedDataSize + half) % SizeModulus,
         LargerOf(off1 + half, off2 + half) <= size
  PROVE  off1 >= SharedDataSize /\ off1 + half <= off2 /\ off2 + half <= size
<1>1. off2 \in 0 .. SizeModulus - 1
  BY SharedMemoryAssumption
<1>2. off1 + half <= size /\ off2 + half <= size
  BY <1>1, SharedMemoryAssumption DEF LargerOf
<1>3. SharedDataSize + half \in 0 .. SizeModulus - 1
  BY <1>2, SharedMemoryAssumption
<1>4. off2 = SharedDataSize + half
  BY <1>3, SharedMemoryAssumption, SMTT(30)
<1> QED
  BY <1>2, <1>4, SharedMemoryAssumption

\* Process p goes to pc, possibly with another inode or after a fault.
Moves(p, pc) ==
  /\ process' \in ProcessType
  /\ process'[p] \in ProcessRecords
  /\ process'[p].pc = pc
  /\ process'[p].name = process[p].name /\ process'[p].dynamic = process[p].dynamic
  /\ \A q \in Processes \ {p} : process'[q] = process[q]

(* A process that has called Create has a record and its name.             *)
LEMMA Started ==
  ASSUME ProcessInv, NEW p \in Processes, ProcessAt(p) # "none"
  PROVE  process[p] \in ProcessRecords /\ Name(p) = NameOf(p, Dynamic(p))
BY DEF ProcessInv, ProcessType, ProcessAt

(* Going on and failing change the place and the fault alone.              *)
LEMMA GotoMoves ==
  ASSUME ProcessInv, NEW p \in Processes, ProcessAt(p) # "none", NEW pc \in ProcessPcs,
         ProcessGoto(p, pc) \/ Fault(p, pc)
  PROVE  Moves(p, pc) /\ process'[p].inode = process[p].inode
<1>1. process[p] \in ProcessRecords /\ process \in ProcessType
  BY Started DEF ProcessInv
<1>2. CASE ProcessGoto(p, pc)
  <2>1. process' = [process EXCEPT ![p].pc = pc]
    BY <1>2 DEF ProcessGoto
  <2>2. /\ process'[p] = [process[p] EXCEPT !.pc = pc]
        /\ \A q \in Processes \ {p} : process'[q] = process[q]
    BY <1>1, <2>1 DEF ProcessType
  <2>3. process'[p] \in ProcessRecords /\ process'[p].pc = pc
    BY <1>1, <2>2 DEF ProcessRecords
  <2>4. process' \in ProcessType
    BY <1>1, <2>1, <2>2, <2>3 DEF ProcessType
  <2> QED
    BY <1>1, <2>2, <2>3, <2>4 DEF Moves, ProcessRecords
<1>3. CASE Fault(p, pc)
  <2>1. process' = [process EXCEPT ![p].pc = pc, ![p].fault = TRUE]
    BY <1>3 DEF Fault
  <2>2. /\ process'[p] = [process[p] EXCEPT !.pc = pc, !.fault = TRUE]
        /\ \A q \in Processes \ {p} : process'[q] = process[q]
    BY <1>1, <2>1 DEF ProcessType
  <2>3. process'[p] \in ProcessRecords /\ process'[p].pc = pc
    BY <1>1, <2>2, ZenonT(30) DEF ProcessRecords
  <2>4. process' \in ProcessType
    BY <1>1, <2>1, <2>2, <2>3 DEF ProcessType
  <2> QED
    BY <1>1, <2>2, <2>3, <2>4 DEF Moves, ProcessRecords
<1> QED
  BY <1>2, <1>3, SMTT(30)

\* The record of a process that has opened its file.
Opened(r, pc, i) == [r EXCEPT !.pc = pc, !.inode = i]

(* Opening a file changes the place and the inode alone.                   *)
LEMMA OpenedRecord ==
  ASSUME NEW r \in ProcessRecords, NEW pc \in ProcessPcs, NEW i \in Numbers
  PROVE  /\ Opened(r, pc, i) \in ProcessRecords
         /\ Opened(r, pc, i).pc = pc /\ Opened(r, pc, i).inode = i
         /\ Opened(r, pc, i).name = r.name /\ Opened(r, pc, i).dynamic = r.dynamic
<1>1. Opened(r, pc, i) \in ProcessRecords
  BY ZenonT(30) DEF ProcessRecords, Opened
<1>2. /\ Opened(r, pc, i).pc = pc /\ Opened(r, pc, i).inode = i
      /\ Opened(r, pc, i).name = r.name /\ Opened(r, pc, i).dynamic = r.dynamic
  BY DEF ProcessRecords, Opened
<1> QED
  BY <1>1, <1>2

(* The same for the state of all processes.                                *)
LEMMA OpenMoves ==
  ASSUME ProcessInv, NEW p \in Processes, ProcessAt(p) # "none", NEW pc \in ProcessPcs,
         NEW i \in Numbers, process' = [process EXCEPT ![p] = Opened(process[p], pc, i)]
  PROVE  Moves(p, pc) /\ process'[p].inode = i
<1>1. process[p] \in ProcessRecords /\ process \in ProcessType
  BY Started DEF ProcessInv
<1>2. /\ process'[p] = Opened(process[p], pc, i)
      /\ \A q \in Processes \ {p} : process'[q] = process[q]
  BY <1>1, SMTT(30) DEF ProcessType
<1>3. /\ process'[p] \in ProcessRecords /\ process'[p].pc = pc /\ process'[p].inode = i
      /\ process'[p].name = process[p].name /\ process'[p].dynamic = process[p].dynamic
  BY <1>1, <1>2, OpenedRecord
<1>4. process' \in ProcessType
  BY <1>1, <1>3, SMTT(30) DEF ProcessType
<1> QED
  BY <1>2, <1>3, <1>4 DEF Moves

Shrinks == DOMAIN names' \subseteq DOMAIN names /\ names' = [n \in DOMAIN names' |-> names[n]]

(* A step of p that gives its file no other content and no new name keeps  *)
(* the invariant.                                                          *)
LEMMA Step ==
  ASSUME FileInv, NEW p \in Processes, ProcessAt(p) # "none",
         NEW pc \in ProcessPcs, Moves(p, pc), process'[p].inode = process[p].inode,
         pc \in Working => ProcessAt(p) \in Working,
         pc \in Preparing => ProcessAt(p) \in Preparing,
         Shrinks, UNCHANGED <<inodes, opened, readers>>,
         \A c \in connects' : c.pid \in Processes
  PROVE  FileInv'
<1>1. ProcessInv'
  <2>1. \A q \in Processes : process'[q] \in ProcessRecords => Name(q)' = NameOf(q, Dynamic(q)')
    BY Started, SMTT(30) DEF FileInv, ProcessInv, Moves, Name, Dynamic
  <2>2. \A q \in Processes : process'[q].pc \in Working
            => process'[q].inode \in DOMAIN inodes /\ inodes[process'[q].inode].creator = q
    BY SMTT(60) DEF FileInv, ProcessInv, Moves, ProcessAt, Inode, Working
  <2> QED
    BY <2>1, <2>2, ZenonT(30) DEF ProcessInv, Moves, Working, ProcessAt, Inode
<1>2. NameInv'
  BY SMTT(30) DEF FileInv, NameInv, Shrinks
<1>3. InodeInv'
  <2>1. \A i \in DOMAIN inodes : inodes[i].creator \in Processes
    <3>1. \A i \in DOMAIN inodes : inodes[i] \in InodeRecords
      BY SMTT(30) DEF FileInv, InodeInv
    <3> QED
      BY <3>1, SMTT(30) DEF InodeRecords
  <2>2. \A q \in Processes : process'[q].pc \in Preparing \union {"none"} =>
                process[q].pc \in Preparing \union {"none"}
    BY SMTT(30) DEF Moves, ProcessPcs, ProcessAt
  <2> QED
    BY <2>1, <2>2, ZenonT(30) DEF FileInv, InodeInv, ProcessAt
<1>4. ReaderInv'
  BY DEF FileInv, ReaderInv, ReadersAreSound
<1> QED
  BY <1>1, <1>2, <1>3, <1>4, SMTT(30) DEF FileInv

(* Every file was made by a process.                                       *)
LEMMA CreatorKnown ==
  ASSUME InodeInv, NEW i \in DOMAIN inodes
  PROVE  inodes[i] \in InodeRecords /\ inodes[i].creator \in Processes /\ i \in 1 .. Len(inodes)
<1>1. inodes[i] \in InodeRecords /\ i \in 1 .. Len(inodes)
  BY SMTT(30) DEF InodeInv
<1> QED
  BY <1>1 DEF InodeRecords

(* Making a file leaves the others as they are.                            *)
LEMMA Appended ==
  ASSUME InodeInv, NEW p \in Processes, inodes' = Append(inodes, NewInode(p))
  PROVE  /\ inodes' \in Seq(InodeRecords)
         /\ DOMAIN inodes' = DOMAIN inodes \union {Len(inodes) + 1}
         /\ \A i \in DOMAIN inodes : inodes'[i] = inodes[i]
         /\ inodes'[Len(inodes) + 1] = NewInode(p)
<1>1. NewInode(p) \in InodeRecords
  BY SharedMemoryAssumption DEF NewInode, InodeRecords
<1> QED
  BY <1>1 DEF InodeInv

(* A step of p that makes its file keeps the invariant.                    *)
LEMMA NewFileStep ==
  ASSUME FileInv, NEW p \in Processes, ProcessAt(p) \in {"prepare", "open"},
         NEW pc \in Preparing, Moves(p, pc),
         pc \in Working => process'[p].inode = Len(inodes) + 1,
         inodes' = Append(inodes, NewInode(p)), GiveName(Name(p), Len(inodes) + 1),
         UNCHANGED <<connects, opened, readers>>
  PROVE  FileInv'
<1>0. /\ DOMAIN inodes' = DOMAIN inodes \union {Len(inodes) + 1}
      /\ \A i \in DOMAIN inodes : inodes'[i] = inodes[i]
      /\ inodes'[Len(inodes) + 1] = NewInode(p)
      /\ inodes' \in Seq(InodeRecords)
  BY Appended, SMTT(30) DEF FileInv
<1>1. ProcessInv'
  <2>1. \A q \in Processes : process'[q] \in ProcessRecords => Name(q)' = NameOf(q, Dynamic(q)')
    BY Started, SMTT(30) DEF FileInv, ProcessInv, Moves, Name, Dynamic
  <2>2. \A q \in Processes \ {p} : process'[q].pc \in Working
            => process'[q].inode \in DOMAIN inodes' /\ inodes'[process'[q].inode].creator = q
    BY <1>0, SMTT(30) DEF FileInv, ProcessInv, Moves, ProcessAt, Inode, Working
  <2>3. process'[p].pc \in Working
            => process'[p].inode \in DOMAIN inodes' /\ inodes'[process'[p].inode].creator = p
    BY <1>0, SMTT(60) DEF Moves, NewInode
  <2> QED
    BY <2>1, <2>2, <2>3, SMTT(30)
    DEF ProcessInv, Moves, Working, ProcessAt, Inode
<1>2. NameInv'
  <2>1. /\ DOMAIN names' = DOMAIN names \union {Name(p)}
        /\ names'[Name(p)] = Len(inodes) + 1
        /\ (\A n \in DOMAIN names \ {Name(p)} : names'[n] = names[n])
        /\ names' = [n \in DOMAIN names' |-> names'[n]]
    BY DEF GiveName
  <2>2. Name(p) \in Processes => Name(p) = p
    BY Started, SharedMemoryAssumption DEF FileInv, NameOf, ProcessAt
  <2>3. inodes'[Len(inodes) + 1].creator = p
    BY <1>0, SMTT(30) DEF NewInode
  <2> QED
    BY <1>0, <2>1, <2>2, <2>3 DEF FileInv, NameInv
<1>3. InodeInv'
  <2>1. ASSUME NEW i \in DOMAIN inodes
        PROVE  process'[inodes[i].creator].pc \in Preparing \union {"none"} =>
                 process[inodes[i].creator].pc \in Preparing \union {"none"}
    BY CreatorKnown, ZenonT(30) DEF FileInv, Moves, ProcessAt, Preparing
  <2>2. inodes'[Len(inodes) + 1].constructed = 0 /\ inodes'[Len(inodes) + 1].producer_pid = 0
    BY <1>0, SMTT(60) DEF NewInode
  <2> QED
    BY <1>0, <2>1, <2>2, SMTT(30) DEF FileInv, InodeInv, ProcessAt
<1>4. ReaderInv'
  BY <1>0, ZenonT(30) DEF FileInv, ReaderInv, ReadersAreSound
<1> QED
  BY <1>1, <1>2, <1>3, <1>4, SMTT(30) DEF FileInv

(* Changing a file leaves the others as they are.                          *)
LEMMA Replaced ==
  ASSUME InodeInv, NEW i \in DOMAIN inodes, NEW node \in InodeRecords,
         inodes' = [inodes EXCEPT ![i] = node]
  PROVE  /\ inodes' \in Seq(InodeRecords)
         /\ DOMAIN inodes' = DOMAIN inodes /\ Len(inodes') = Len(inodes)
         /\ \A j \in DOMAIN inodes \ {i} : inodes'[j] = inodes[j]
         /\ inodes'[i] = node
BY DEF InodeInv

(* A step of p that changes its file, not yet laid out, keeps the          *)
(* invariant; no reader can have that file.                                *)
LEMMA ChangeFileStep ==
  ASSUME FileInv, NEW p \in Processes, ProcessAt(p) \in Working,
         NEW pc \in ProcessPcs, Moves(p, pc), process'[p].inode = process[p].inode,
         NEW node \in InodeRecords, inodes' = [inodes EXCEPT ![Inode(p)] = node],
         node.creator = p,
         pc \in Preparing => node.constructed = 0,
         node.producer_pid # 0 =>
            /\ node.constructed = 1 /\ node.producer_pid = node.creator
            /\ node.offset1 = SharedDataSize
            /\ node.offset2 = (SharedDataSize + node.half) % SizeModulus,
         UNCHANGED <<names, connects, opened, readers>>
  PROVE  FileInv'
<1>0. Inode(p) \in DOMAIN inodes /\ inodes[Inode(p)].creator = p
  BY ZenonT(30) DEF FileInv, ProcessInv, Working
<1>1. /\ DOMAIN inodes' = DOMAIN inodes
      /\ \A j \in DOMAIN inodes \ {Inode(p)} : inodes'[j] = inodes[j]
      /\ inodes'[Inode(p)] = node
      /\ inodes' \in Seq(InodeRecords)
  BY <1>0, Replaced, ZenonT(30) DEF FileInv
<1>2. \A i \in DOMAIN inodes : inodes'[i].creator = inodes[i].creator
  BY <1>0, <1>1
<1>3. ProcessInv'
  <2>1. \A q \in Processes : process'[q] \in ProcessRecords => Name(q)' = NameOf(q, Dynamic(q)')
    BY Started, SMTT(60)
    DEF FileInv, ProcessInv, Moves, Name, Dynamic, Working, ProcessAt
  <2>2. \A q \in Processes : process'[q].pc \in Working
            => process'[q].inode \in DOMAIN inodes /\ inodes[process'[q].inode].creator = q
    BY SMTT(60) DEF FileInv, ProcessInv, Moves, ProcessAt, Inode, Working
  <2> QED
    BY <1>1, <1>2, <2>1, <2>2, SMTT(60)
    DEF ProcessInv, Moves, Working, ProcessAt, Inode
<1>4. NameInv'
  BY <1>1, <1>2 DEF FileInv, NameInv
<1>5. InodeInv'
  <2>1. ASSUME NEW i \in DOMAIN inodes
        PROVE  process'[inodes[i].creator].pc \in Preparing \union {"none"} =>
                 process[inodes[i].creator].pc \in Preparing \union {"none"}
    BY CreatorKnown, SMTT(30) DEF FileInv, Moves, ProcessAt, Preparing, Working
  <2>2. process'[p].pc = pc /\ pc # "none"
    BY SMTT(30) DEF Moves, ProcessPcs
  <2> QED
    BY <1>1, <2>1, <2>2, ZenonT(30) DEF FileInv, InodeInv, ProcessAt
<1>6. ReaderInv'
  <2>1. \A r \in readers : r.inode # Inode(p)
    BY <1>0
    DEF FileInv, ReaderInv, ReadersAreSound, InodeInv, Working, Preparing
  <2> QED
    BY <1>1, <2>1, SMTT(30) DEF FileInv, ReaderInv, ReadersAreSound
<1> QED
  BY <1>3, <1>4, <1>5, <1>6, ZenonT(30) DEF FileInv

(* Create: the process knows the name of its file.                         *)
LEMMA CreateStep ==
  ASSUME FileInv, NEW p \in Processes, NEW dynamic \in BOOLEAN, NEW ring \in RingSizes,
         Create(p, dynamic, ring)
  PROVE  FileInv'
<1> DEFINE record == [pc |-> "prepare", dynamic |-> dynamic, name |-> NameOf(p, dynamic),
                      ring |-> ring, inode |-> NoInode, fault |-> FALSE, since |-> Len(inodes)]
<1>1. record \in ProcessRecords
  BY SharedMemoryAssumption, SMTT(60)
  DEF ProcessRecords, ProcessPcs, NameOf, Numbers, NoInode, FileInv, InodeInv
<1>2. /\ process'[p] = record
      /\ process' \in ProcessType
      /\ \A q \in Processes \ {p} : process'[q] = process[q]
  BY <1>1, ZenonT(30) DEF Create, FileInv, ProcessInv, ProcessType
<1>3. record.pc = "prepare" /\ record.name = NameOf(p, dynamic) /\ record.dynamic = dynamic
  BY SMTT(30)
<1> HIDE DEF record
<1>4. ProcessInv'
  BY <1>2, <1>3, SMTT(60)
  DEF Create, FileInv, ProcessInv, Name, Dynamic, ProcessAt, Inode
<1>5. NameInv' /\ ReaderInv'
  BY DEF Create, FileInv, NameInv, ReaderInv, ReadersAreSound
<1>6. InodeInv'
  BY <1>2, <1>3, CreatorKnown, SMTT(60) DEF Create, FileInv, InodeInv, ProcessAt
<1> QED
  BY <1>4, <1>5, <1>6, SMTT(30) DEF FileInv

(* mkstemps, which makes the file or fails.                                *)
LEMMA MakeTemporaryStep ==
  ASSUME FileInv, NEW p \in Processes, MakeTemporary(p) PROVE FileInv'
<1> USE DEF FileInv
<1>0. "open" \in ProcessPcs /\ "open" \in Preparing /\ "open" \notin Working /\ ProcessAt(p) \in Preparing
  BY DEF MakeTemporary, ProcessPcs, Preparing, Working
<1>1. Moves(p, "open") /\ process'[p].inode = process[p].inode
  BY <1>0, GotoMoves, ZenonT(30) DEF MakeTemporary
<1>2. CASE inodes' = Append(inodes, NewInode(p)) /\ GiveName(Name(p), Len(inodes) + 1)
  BY <1>0, <1>1, <1>2, NewFileStep, ZenonT(30) DEF MakeTemporary
<1>3. CASE UNCHANGED <<names, inodes>>
  <2>1. Shrinks
    BY <1>3 DEF Shrinks, NameInv
  <2> QED
    BY <1>0, <1>1, <1>3, <2>1, Step, ZenonT(30) DEF MakeTemporary, ReaderInv
<1> QED
  BY <1>2, <1>3 DEF MakeTemporary

(* open, which makes a file with the static name, finds the one with the   *)
(* dynamic name, is refused or fails.                                      *)
LEMMA OpenFileStep ==
  ASSUME FileInv, NEW p \in Processes, OpenFile(p) PROVE FileInv'
<1> USE DEF FileInv
<1>0. "chmod" \in ProcessPcs /\ "chmod" \in Preparing /\ "chmod" \in Working
  BY DEF ProcessPcs, Preparing, Working
<1>1. CASE /\ inodes' = Append(inodes, NewInode(p)) /\ GiveName(Name(p), Len(inodes) + 1)
           /\ process' = [process EXCEPT ![p].pc = "chmod", ![p].inode = Len(inodes) + 1]
  <2>1. Len(inodes) + 1 \in Numbers
    BY DEF InodeInv, Numbers
  <2>2. Moves(p, "chmod") /\ process'[p].inode = Len(inodes) + 1
    <3>1. process' = [process EXCEPT ![p] = Opened(process[p], "chmod", Len(inodes) + 1)]
      BY <1>1, ZenonT(30) DEF ProcessInv, ProcessType, Opened
    <3> QED
      BY <1>0, <2>1, <3>1, OpenMoves, ZenonT(30) DEF OpenFile
  <2> QED
    BY <1>0, <1>1, <2>2, NewFileStep, ZenonT(30) DEF OpenFile
<1>2. CASE /\ Dynamic(p) /\ Linked(Name(p)) /\ UNCHANGED <<names, inodes>>
           /\ process' = [process EXCEPT ![p].pc = "chmod", ![p].inode = names[Name(p)]]
  <2>1. Name(p) = p
    BY <1>2, Started DEF OpenFile, NameOf
  <2>2. names[p] \in DOMAIN inodes /\ inodes[names[p]].creator = p
    BY <1>2, <2>1 DEF NameInv, Linked
  <2>3. Moves(p, "chmod") /\ process'[p].inode = names[p]
    <3>1. names[p] \in Numbers
      BY <2>2 DEF InodeInv, Numbers
    <3>2. process' = [process EXCEPT ![p] = Opened(process[p], "chmod", names[p])]
      BY <1>2, <2>1, ZenonT(30) DEF ProcessInv, ProcessType, Opened
    <3> QED
      BY <1>0, <3>1, <3>2, OpenMoves, ZenonT(30) DEF OpenFile
  <2>4. ProcessInv'
    <3>1. \A q \in Processes : process'[q] \in ProcessRecords => Name(q)' = NameOf(q, Dynamic(q)')
      BY <2>3, Started DEF ProcessInv, Moves, Name, Dynamic, OpenFile
    <3>2. \A q \in Processes \ {p} : process'[q].pc \in Working
            => process'[q].inode \in DOMAIN inodes /\ inodes[process'[q].inode].creator = q
      BY <2>3, ZenonT(30) DEF ProcessInv, Moves, ProcessAt, Inode, Working
    <3> QED
      BY <1>2, <2>2, <2>3, <3>1, <3>2, ZenonT(30)
      DEF ProcessInv, Moves, Working, ProcessAt, Inode
  <2>5. NameInv' /\ ReaderInv'
    BY <1>2 DEF OpenFile, NameInv, ReaderInv, ReadersAreSound
  <2>6. InodeInv'
    <3>1. ASSUME NEW i \in DOMAIN inodes
          PROVE  process'[inodes[i].creator].pc \in Preparing \union {"none"} =>
                   process[inodes[i].creator].pc \in Preparing \union {"none"}
      BY <2>3, CreatorKnown DEF OpenFile, Moves, ProcessAt, Preparing
    <3> QED
      BY <1>2, <3>1, ZenonT(30) DEF InodeInv, ProcessAt
  <2> QED
    BY <2>4, <2>5, <2>6
<1>3. ASSUME NEW pc \in {"refused", "failed"}, ProcessGoto(p, pc) \/ Fault(p, pc),
             UNCHANGED <<names, inodes>>
      PROVE  FileInv'
  <2>1. pc \in ProcessPcs /\ pc \notin Preparing /\ pc \notin Working
    BY <1>3 DEF ProcessPcs, Preparing, Working
  <2>2. Moves(p, pc) /\ process'[p].inode = process[p].inode
    BY <1>3, <2>1, GotoMoves, SMTT(30) DEF OpenFile
  <2>3. Shrinks
    BY <1>3, SMTT(30) DEF Shrinks, NameInv
  <2> QED
    BY <1>3, <2>1, <2>2, <2>3, Step DEF OpenFile, ReaderInv
<1> QED
  BY <1>1, <1>2, <1>3 DEF OpenFile

(* The calls that change no content, and ftruncate when it fails.          *)
LEMMA OtherStep ==
  ASSUME FileInv, NEW p \in Processes,
         \/ UnlinkExistingFile(p) \/ ChangeMode(p) \/ MapSharedMemory(p)
         \/ SendConnectMessage(p) \/ UnlinkAfterConnect(p) \/ Crash(p)
         \/ TruncateFile(p) /\ UNCHANGED inodes /\ Fault(p, "failed")
  PROVE  FileInv'
<1> USE DEF FileInv
<1>1. PICK pc \in ProcessPcs :
        /\ ProcessGoto(p, pc) \/ Fault(p, pc)
        /\ pc \in Working => ProcessAt(p) \in Working
        /\ pc \in Preparing => ProcessAt(p) \in Preparing
  BY
  DEF UnlinkExistingFile, ChangeMode, MapSharedMemory, SendConnectMessage,
      UnlinkAfterConnect,
         Crash, TruncateFile, ProcessPcs, Working, Preparing
<1>2. ProcessAt(p) # "none"
  BY SMTT(30)
  DEF UnlinkExistingFile, ChangeMode, MapSharedMemory, SendConnectMessage,
      UnlinkAfterConnect,
         Crash, TruncateFile
<1>3. Moves(p, pc) /\ process'[p].inode = process[p].inode
  BY <1>1, <1>2, GotoMoves, ZenonT(30)
<1>4. Shrinks
  <2>1. RemoveName(Name(p)) \/ UNCHANGED names
    BY DEF UnlinkExistingFile, ChangeMode, MapSharedMemory, SendConnectMessage,
           UnlinkAfterConnect, Crash, TruncateFile
  <2> QED
    BY <2>1 DEF Shrinks, RemoveName, NameInv
<1>5. \A c \in connects' : c.pid \in Processes
  BY DEF UnlinkExistingFile, ChangeMode, MapSharedMemory, SendConnectMessage,
         UnlinkAfterConnect, Crash, TruncateFile, ReaderInv
<1>6. UNCHANGED <<inodes, opened, readers>>
  BY
  DEF UnlinkExistingFile, ChangeMode, MapSharedMemory, SendConnectMessage,
      UnlinkAfterConnect,
         Crash, TruncateFile
<1> QED
  BY <1>1, <1>2, <1>3, <1>4, <1>5, <1>6, Step, SMTT(30)

(* ftruncate when it succeeds: the size is that of the file, modulo 2^64.  *)
LEMMA TruncateStep ==
  ASSUME FileInv, NEW p \in Processes, TruncateFile(p),
         inodes' = [inodes EXCEPT ![Inode(p)].size = TotalSize(process[p].ring)],
         ProcessGoto(p, "map"), UNCHANGED names
  PROVE  FileInv'
<1> USE DEF FileInv
<1> DEFINE node == [inodes[Inode(p)] EXCEPT !.size = TotalSize(process[p].ring)]
<1>1. /\ ProcessAt(p) \in Working /\ ProcessAt(p) \in Preparing /\ ProcessAt(p) # "none"
      /\ "map" \in ProcessPcs
  BY DEF TruncateFile, Working, Preparing, ProcessPcs
<1>2. Inode(p) \in DOMAIN inodes /\ inodes[Inode(p)].creator = p
  BY <1>1 DEF ProcessInv, Working
<1>3. inodes[Inode(p)].constructed = 0 /\ inodes[Inode(p)].producer_pid = 0
  BY <1>1, <1>2 DEF InodeInv
<1>4. inodes[Inode(p)] \in InodeRecords
  BY <1>2, CreatorKnown
<1>5. TotalSize(process[p].ring) \in 0 .. SizeModulus - 1
  <2>1. process[p].ring \in Nat
    BY <1>1, Started DEF ProcessRecords, Numbers
  <2> QED
    BY <2>1, SharedMemoryAssumption DEF TotalSize
<1>6. /\ node \in InodeRecords
      /\ node.creator = p /\ node.constructed = 0 /\ node.producer_pid = 0
  BY <1>2, <1>3, <1>4, <1>5, SMTT(30) DEF InodeRecords
<1>7. inodes' = [inodes EXCEPT ![Inode(p)] = node]
  BY <1>2
<1>8. Moves(p, "map") /\ process'[p].inode = process[p].inode
  BY <1>1, GotoMoves, SMTT(30)
<1> HIDE DEF node
<1> QED
  BY <1>1, <1>6, <1>7, <1>8, ChangeFileStep, ZenonT(30) DEF TruncateFile

(* The layout of SharedData is written once.                               *)
LEMMA ConstructStep ==
  ASSUME FileInv, NEW p \in Processes, ConstructSharedData(p) PROVE FileInv'
<1> USE DEF FileInv
<1> DEFINE old == inodes[Inode(p)]
           half == process[p].ring \div 2
           offset == (SharedDataSize + half) % SizeModulus
           node == [old EXCEPT !.producer_pid = p, !.offset1 = SharedDataSize,
                               !.offset2 = offset, !.half = half, !.constructed = @ + 1]
<1>1. /\ ProcessAt(p) \in Working /\ ProcessAt(p) \in Preparing /\ ProcessAt(p) # "none"
      /\ "connect" \in ProcessPcs /\ "connect" \notin Preparing
  BY DEF ConstructSharedData, Working, Preparing, ProcessPcs
<1>2. Inode(p) \in DOMAIN inodes /\ old.creator = p
  BY <1>1 DEF ProcessInv, Working
<1>3. old.constructed = 0 /\ old \in InodeRecords
  BY <1>1, <1>2, CreatorKnown, SMTT(30) DEF InodeInv
<1>4. half \in Nat /\ offset \in Nat
  <2>1. process[p].ring \in Nat
    BY <1>1, Started, ZenonT(30) DEF ProcessRecords, Numbers
  <2>2. half \in Nat
    BY <2>1
  <2> QED
    BY <2>2, SharedMemoryAssumption, SMTT(30)
<1>5. inodes' = [inodes EXCEPT ![Inode(p)] = node]
  BY <1>2, ZenonT(30) DEF ConstructSharedData
<1> HIDE DEF half
<1>6. /\ node \in InodeRecords
      /\ node.creator = p /\ node.constructed = 1 /\ node.producer_pid = p
      /\ node.offset1 = SharedDataSize /\ node.offset2 = offset /\ node.half = half
  <2> HIDE DEF offset
  <2>1. DOMAIN old = {"creator", "size", "producer_pid", "offset1", "offset2", "half",
                      "constructed"}
    BY <1>3 DEF InodeRecords
  <2>2. /\ node.creator = p /\ node.constructed = old.constructed + 1 /\ node.producer_pid = p
        /\ node.offset1 = SharedDataSize /\ node.offset2 = offset /\ node.half = half
    BY <1>2, <2>1
  <2>3. node \in InodeRecords
    <3> HIDE DEF old
    <3>1. old.constructed + 1 \in 0..1
      BY <1>3
    <3>2. SharedDataSize \in Nat
      BY SharedMemoryAssumption
    <3> QED
      BY <1>3, <1>4, <3>1, <3>2, ZenonT(30) DEF InodeRecords
  <2> QED
    BY <1>3, <2>2, <2>3
<1>7. Moves(p, "connect") /\ process'[p].inode = process[p].inode
  BY <1>1, GotoMoves DEF ConstructSharedData
<1> HIDE DEF node
<1> QED
  BY <1>1, <1>5, <1>6, <1>7, ChangeFileStep, ZenonT(30) DEF ConstructSharedData

(* The Datarouter opens whatever has the name now.                         *)
LEMMA OpenConnectedStep == ASSUME FileInv, OpenConnected PROVE FileInv'
<1> USE DEF FileInv
<1>1. ProcessInv' /\ NameInv' /\ InodeInv'
  BY SMTT(30)
  DEF OpenConnected, ProcessInv, NameInv, InodeInv, ProcessAt, Name, Dynamic, Inode
<1>2. ReaderInv'
  BY DEF OpenConnected, ReaderInv, ReadersAreSound, NameInv, Linked
<1> QED
  BY <1>1, <1>2, SMTT(30)

(* The ReaderFactory accepts only what the process it belongs to has laid  *)
(* out.                                                                    *)
LEMMA CreateReaderStep == ASSUME FileInv, CreateReader PROVE FileInv'
<1> USE DEF FileInv
<1>1. ProcessInv' /\ NameInv' /\ InodeInv'
  BY SMTT(30)
  DEF CreateReader, ProcessInv, NameInv, InodeInv, ProcessAt, Name, Dynamic, Inode
<1>2. PICK c \in opened :
        readers' = IF Accepts(c, inodes[c.inode])
          THEN readers \union {[pid |-> c.pid, inode |-> c.inode, map_size |-> inodes[c.inode].size,
                 offset1 |-> inodes[c.inode].offset1, offset2 |-> inodes[c.inode].offset2,
                 half |-> inodes[c.inode].half]}
          ELSE readers
  BY ZenonT(30) DEF CreateReader
<1>3. opened' = {} /\ UNCHANGED <<inodes, connects>>
  BY DEF CreateReader
<1>4. c.pid \in Processes /\ c.pid # 0 /\ c.inode \in DOMAIN inodes
  BY SharedMemoryAssumption, SMTT(30) DEF ReaderInv
<1>5. ASSUME Accepts(c, inodes[c.inode])
      PROVE  /\ inodes[c.inode].constructed = 1 /\ inodes[c.inode].creator = c.pid
             /\ inodes[c.inode].offset1 >= SharedDataSize
             /\ inodes[c.inode].offset1 + inodes[c.inode].half <= inodes[c.inode].offset2
             /\ inodes[c.inode].offset2 + inodes[c.inode].half <= inodes[c.inode].size
  <2>1. /\ inodes[c.inode].producer_pid = c.pid /\ inodes[c.inode].producer_pid # 0
        /\ LargerOf(inodes[c.inode].offset1 + inodes[c.inode].half,
                    inodes[c.inode].offset2 + inodes[c.inode].half) <= inodes[c.inode].size
    BY <1>4, <1>5, SMTT(30) DEF Accepts
  <2>2. /\ inodes[c.inode].constructed = 1 /\ inodes[c.inode].creator = c.pid
        /\ inodes[c.inode].offset1 = SharedDataSize
        /\ inodes[c.inode].offset2 = (SharedDataSize + inodes[c.inode].half) % SizeModulus
    BY <1>4, <2>1, SMTT(30) DEF InodeInv
  <2>3. /\ inodes[c.inode].offset1 \in Nat /\ inodes[c.inode].half \in Nat
        /\ inodes[c.inode].size \in 0 .. SizeModulus - 1
    BY <1>4, CreatorKnown, SMTT(30) DEF InodeRecords
  <2> QED
    BY <2>1, <2>2, <2>3, LaidOut, ZenonT(30)
<1>6. ReaderInv'
  BY <1>2, <1>3, <1>4, <1>5, SMTT(60) DEF ReaderInv, ReadersAreSound
<1> QED
  BY <1>1, <1>6, SMTT(30)

(* Every step of a process and of the Datarouter keeps the invariant.      *)
LEMMA NextFile == FileInv /\ [SharedMemoryNext]_sharedMemoryVars => FileInv'
<1> SUFFICES ASSUME FileInv, [SharedMemoryNext]_sharedMemoryVars PROVE FileInv'
  OBVIOUS
<1>1. ASSUME NEW p \in Processes, TruncateFile(p) PROVE FileInv'
  BY <1>1, TruncateStep, OtherStep, SMTT(30) DEF TruncateFile
<1>2. CASE UNCHANGED sharedMemoryVars
  BY <1>2, SMTT(30)
  DEF sharedMemoryVars, FileInv, ProcessInv, NameInv, InodeInv, ReaderInv,
              ReadersAreSound, ProcessAt, Name, Dynamic, Inode
<1> QED
  BY SMTT(30), <1>1, <1>2, CreateStep, MakeTemporaryStep, OpenFileStep,
     OtherStep, ConstructStep,
     OpenConnectedStep, CreateReaderStep DEF SharedMemoryNext

(* The invariant holds whatever the processes, their failures and their    *)
(* order.                                                                  *)
THEOREM FileInvariant == SharedMemorySpec => []FileInv
BY InitFile, NextFile, PTL DEF SharedMemorySpec

(* A reader maps the file that the process of the connect message has made *)
(* and completely laid out, with both blocks behind SharedData, apart from *)
(* each other and inside the mapping, for every size of the ring buffer,   *)
(* also one that overflows.                                                *)
THEOREM ReadersSound == SharedMemorySpec => []ReadersAreSound
<1>1. FileInv => ReadersAreSound
  BY DEF FileInv, ReaderInv
<1> QED
  BY <1>1, FileInvariant, PTL

(* No process ever truncates or lays out again a file that has been laid   *)
(* out, whichever unlink failed before (writer_factory.cpp:65).            *)
THEOREM ContentsPreserved == SharedMemorySpec => ContentsArePreserved
<1> DEFINE Kept == \A i \in DOMAIN inodes : inodes[i].constructed > 0 => inodes'[i] = inodes[i]
<1>1. ASSUME FileInv, SharedMemoryNext PROVE Kept
  <2>1. CASE UNCHANGED inodes
    BY <2>1
  <2>2. ASSUME NEW p \in Processes, inodes' = Append(inodes, NewInode(p)) PROVE Kept
    BY <1>1, <2>2, Appended DEF FileInv
  <2>3. ASSUME NEW p \in Processes, TruncateFile(p) \/ ConstructSharedData(p) PROVE Kept
    <3>1. ProcessAt(p) \in Working /\ ProcessAt(p) \in Preparing
      BY <2>3, SMTT(30)
      DEF TruncateFile, ConstructSharedData, Working, Preparing
    <3>2. Inode(p) \in DOMAIN inodes /\ inodes[Inode(p)].constructed = 0
      BY <1>1, <3>1, ZenonT(30) DEF FileInv, ProcessInv, InodeInv, Working
    <3>3. \A i \in DOMAIN inodes \ {Inode(p)} : inodes'[i] = inodes[i]
      BY <1>1, <2>3 DEF FileInv, InodeInv, TruncateFile, ConstructSharedData
    <3> QED
      BY <3>2, <3>3, SMTT(30)
  <2> QED
    BY <1>1, <2>1, <2>2, <2>3, ZenonT(30)
    DEF SharedMemoryNext, Create, MakeTemporary, UnlinkExistingFile, OpenFile,
        ChangeMode,
        MapSharedMemory, SendConnectMessage, UnlinkAfterConnect, Crash,
        OpenConnected, CreateReader
<1>2. FileInv /\ [SharedMemoryNext]_sharedMemoryVars => [Kept]_sharedMemoryVars
  BY <1>1
<1> QED
  BY <1>2, FileInvariant, PTL DEF SharedMemorySpec, ContentsArePreserved


-----------------------------------------------------------------------------
(* What earlier processes left behind.  A process that has removed the old *)
(* file, or made its temporary one, and met no failure finds no file under *)
(* a static name that is older than its call of Create, and does find the  *)
(* one under its dynamic name.                                             *)

Leftover(r, linked, count) ==
  /\ r.since <= count
  /\ r.pc = "open" /\ ~r.fault /\ r.dynamic => r.name \in DOMAIN linked
  /\ r.pc = "open" /\ ~r.fault /\ ~r.dynamic /\ r.name \in DOMAIN linked => linked[r.name] > r.since

LeftoverInv ==
  \A p \in Processes : ProcessAt(p) # "none" => Leftover(process[p], names, Len(inodes))

(* A step of p gives a name to a new file only, and removes no name but    *)
(* its own.                                                                *)
NamesOfOthers(p) ==
  /\ Len(inodes) \in Nat /\ Len(inodes)' \in Nat /\ Len(inodes) <= Len(inodes)'
  /\ \A n \in DOMAIN names' : (n \in DOMAIN names /\ names'[n] = names[n]) \/ names'[n] = Len(inodes) + 1
  /\ \A q \in Processes \ {p} : q \in DOMAIN names => q \in DOMAIN names'

(* Then it spoils nothing for the others.                                  *)
LEMMA OthersLeft ==
  ASSUME FileInv, LeftoverInv, NEW p \in Processes, NamesOfOthers(p),
         NEW q \in Processes \ {p}, ProcessAt(q) # "none"
  PROVE  Leftover(process[q], names', Len(inodes)')
<1> DEFINE r == process[q]
<1>1. r \in ProcessRecords /\ r.name = NameOf(q, r.dynamic) /\ Leftover(r, names, Len(inodes))
  BY Started DEF FileInv, LeftoverInv, Name, Dynamic
<1>2. r.since \in Nat /\ r.dynamic \in BOOLEAN
  BY <1>1 DEF ProcessRecords, Numbers
<1>3. r.dynamic => r.name = q
  BY <1>1 DEF NameOf
<1> HIDE DEF r
<1>4. r.since <= Len(inodes)'
  BY <1>1, <1>2 DEF Leftover, NamesOfOthers
<1>5. ASSUME r.pc = "open", ~r.fault, r.dynamic PROVE r.name \in DOMAIN names'
  BY <1>1, <1>3, <1>5, ZenonT(30) DEF Leftover, NamesOfOthers
<1>6. ASSUME r.pc = "open", ~r.fault, ~r.dynamic, r.name \in DOMAIN names' PROVE names'[r.name] > r.since
  <2>1. CASE r.name \in DOMAIN names /\ names'[r.name] = names[r.name]
    BY <1>1, <1>6, <2>1, ZenonT(30) DEF Leftover
  <2>2. CASE names'[r.name] = Len(inodes) + 1
    BY <1>1, <1>2, <2>2 DEF Leftover, NamesOfOthers
  <2> QED
    BY <1>6, <2>1, <2>2, ZenonT(30) DEF NamesOfOthers
<1> QED
  BY <1>4, <1>5, <1>6, ZenonT(30) DEF Leftover, r

(* So the step keeps the invariant if it leaves p itself right.            *)
LEMMA LeftoverStep ==
  ASSUME FileInv, LeftoverInv, NEW p \in Processes, NamesOfOthers(p),
         \A q \in Processes \ {p} : process'[q] = process[q],
         Leftover(process'[p], names', Len(inodes)')
  PROVE  LeftoverInv'
<1>1. ASSUME NEW q \in Processes, process'[q].pc # "none" PROVE Leftover(process'[q], names', Len(inodes)')
  <2>1. CASE q = p
    BY <2>1, ZenonT(30)
  <2>2. CASE q # p
    BY <1>1, <2>2, OthersLeft, ZenonT(30) DEF ProcessAt
  <2> QED
    BY <2>1, <2>2, ZenonT(30)
<1> QED
  BY <1>1, ZenonT(30) DEF LeftoverInv, ProcessAt

(* Removing one's own name, making a file and leaving the names alone are  *)
(* all there is.                                                           *)
LEMMA NameChanges ==
  ASSUME FileInv, NEW p \in Processes, ProcessAt(p) # "none",
         \/ names' = names \/ RemoveName(Name(p))
         \/ GiveName(Name(p), Len(inodes) + 1),
         Len(inodes)' = Len(inodes) \/ Len(inodes)' = Len(inodes) + 1
  PROVE  NamesOfOthers(p)
<1>1. Len(inodes) \in Nat
  BY DEF FileInv, InodeInv
<1>2. Len(inodes)' \in Nat /\ Len(inodes) <= Len(inodes)'
  BY <1>1
<1>3. \A q \in Processes \ {p} : q # Name(p)
  BY Started, SharedMemoryAssumption DEF FileInv, NameOf
<1>4. CASE names' = names
  BY <1>1, <1>2, <1>4, ZenonT(30) DEF NamesOfOthers
<1>5. CASE RemoveName(Name(p))
  BY <1>1, <1>2, <1>3, <1>5, ZenonT(30) DEF NamesOfOthers, RemoveName
<1>6. CASE GiveName(Name(p), Len(inodes) + 1)
  BY <1>1, <1>2, <1>3, <1>6, ZenonT(30) DEF NamesOfOthers, GiveName
<1> QED
  BY <1>4, <1>5, <1>6

(* Create is remembered; a failure is too.                                 *)
LEMMA GotoLeft ==
  ASSUME FileInv, NEW p \in Processes, ProcessAt(p) # "none", NEW pc \in ProcessPcs,
         ProcessGoto(p, pc) \/ Fault(p, pc)
  PROVE  /\ process'[p].since = process[p].since
         /\ \A q \in Processes \ {p} : process'[q] = process[q]
         /\ Fault(p, pc) => process'[p].fault = TRUE
<1>1. process[p] \in ProcessRecords /\ process \in ProcessType
  BY Started DEF FileInv, ProcessInv
<1>2. \A q \in Processes \ {p} : process'[q] = process[q]
  BY GotoMoves DEF FileInv, Moves
<1>3. ASSUME ProcessGoto(p, pc) PROVE process'[p].since = process[p].since
  <2>1. process'[p] = [process[p] EXCEPT !.pc = pc]
    BY <1>1, <1>3 DEF ProcessGoto, ProcessType
  <2> QED
    BY <1>1, <2>1 DEF ProcessRecords
<1>4. ASSUME Fault(p, pc) PROVE process'[p].since = process[p].since /\ process'[p].fault = TRUE
  <2>1. process'[p] = [process[p] EXCEPT !.pc = pc, !.fault = TRUE]
    BY <1>1, <1>4 DEF Fault, ProcessType
  <2> QED
    BY <1>1, <2>1 DEF ProcessRecords
<1> QED
  BY <1>2, <1>3, <1>4, ZenonT(30)

(* Create begins after all files that are there.                           *)
LEMMA CreateLeft ==
  ASSUME FileInv, LeftoverInv, NEW p \in Processes, NEW dynamic \in BOOLEAN, NEW ring \in RingSizes,
         Create(p, dynamic, ring)
  PROVE  LeftoverInv'
<1> DEFINE new == [pc |-> "prepare", dynamic |-> dynamic, name |-> NameOf(p, dynamic), ring |-> ring,
                   inode |-> NoInode, fault |-> FALSE, since |-> Len(inodes)]
<1>1. Len(inodes) \in Nat /\ process \in ProcessType
  BY DEF FileInv, InodeInv, ProcessInv
<1>2. /\ process'[p] = new /\ \A q \in Processes \ {p} : process'[q] = process[q]
      /\ names' = names /\ inodes' = inodes
  BY <1>1, ZenonT(30) DEF Create, ProcessType
<1>3. process'[p].pc = "prepare" /\ process'[p].since = Len(inodes)
  BY <1>2, SMTT(30)
<1>4. Leftover(process'[p], names', Len(inodes)')
  <2>1. Len(inodes) <= Len(inodes)
    BY <1>1
  <2> QED
    BY <1>2, <1>3, <2>1, ZenonT(30) DEF Leftover
<1>5. NamesOfOthers(p)
  <2>1. Len(inodes)' \in Nat /\ Len(inodes) <= Len(inodes)'
    BY <1>1, <1>2
  <2> QED
    BY <1>1, <1>2, <2>1, ZenonT(30) DEF NamesOfOthers
<1> QED
  BY <1>2, <1>4, <1>5, LeftoverStep, ZenonT(30)

(* A step that goes anywhere but to opening the file, or fails.            *)
LEMMA AwayLeft ==
  ASSUME FileInv, LeftoverInv, NEW p \in Processes, ProcessAt(p) # "none", NEW pc \in ProcessPcs,
         (pc # "open" /\ ProcessGoto(p, pc)) \/ Fault(p, pc),
         \/ names' = names \/ RemoveName(Name(p))
         \/ GiveName(Name(p), Len(inodes) + 1),
         Len(inodes)' = Len(inodes) \/ Len(inodes)' = Len(inodes) + 1
  PROVE  LeftoverInv'
<1>1. NamesOfOthers(p)
  BY NameChanges, ZenonT(30)
<1>2. /\ process'[p].since = process[p].since
      /\ \A q \in Processes \ {p} : process'[q] = process[q]
      /\ pc # "open" \/ process'[p].fault = TRUE
  BY GotoLeft, ZenonT(30)
<1>3. process'[p].pc = pc
  BY GotoMoves, ZenonT(30) DEF FileInv, Moves
<1>4. process[p].since <= Len(inodes)' /\ process[p].since \in Nat
  <2>1. process[p].since <= Len(inodes)
    BY ZenonT(30) DEF LeftoverInv, Leftover
  <2>2. process[p].since \in Nat
    BY Started DEF FileInv, ProcessRecords, Numbers
  <2> QED
    BY <1>1, <2>1, <2>2 DEF NamesOfOthers
<1>5. Leftover(process'[p], names', Len(inodes)')
  BY <1>2, <1>3, <1>4, ZenonT(30) DEF Leftover
<1> QED
  BY <1>1, <1>2, <1>5, LeftoverStep, ZenonT(30)

(* The step to opening the file, for both kinds of names.                  *)
LEMMA PreparedLeft ==
  ASSUME FileInv, LeftoverInv, NEW p \in Processes, ProcessAt(p) # "none", ProcessGoto(p, "open"),
         \/ Dynamic(p) /\ GiveName(Name(p), Len(inodes) + 1) /\ Len(inodes)' = Len(inodes) + 1
         \/ ~Dynamic(p) /\ RemoveName(Name(p)) /\ Len(inodes)' = Len(inodes)
  PROVE  LeftoverInv'
<1>1. NamesOfOthers(p)
  BY NameChanges, ZenonT(30)
<1>2. "open" \in ProcessPcs
  BY DEF ProcessPcs
<1>3. /\ process'[p].since = process[p].since
      /\ \A q \in Processes \ {p} : process'[q] = process[q]
  BY <1>2, GotoLeft, ZenonT(30)
<1>4. process'[p].name = Name(p) /\ process'[p].dynamic = Dynamic(p)
  BY <1>2, GotoMoves, ZenonT(30) DEF FileInv, Moves, Name, Dynamic
<1>5. process[p].since <= Len(inodes)'
  <2>1. process[p].since <= Len(inodes)
    BY ZenonT(30) DEF LeftoverInv, Leftover
  <2>2. process[p].since \in Nat
    BY Started DEF FileInv, ProcessRecords, Numbers
  <2> QED
    BY <1>1, <2>1, <2>2 DEF NamesOfOthers
<1>6. Dynamic(p) => Name(p) \in DOMAIN names'
  BY ZenonT(30) DEF GiveName
<1>7. ~Dynamic(p) => Name(p) \notin DOMAIN names'
  BY ZenonT(30) DEF RemoveName
<1>8. Leftover(process'[p], names', Len(inodes)')
  BY <1>3, <1>4, <1>5, <1>6, <1>7, ZenonT(30) DEF Leftover
<1> QED
  BY <1>1, <1>3, <1>8, LeftoverStep, ZenonT(30)

(* Opening the file.                                                       *)
LEMMA OpenLeft ==
  ASSUME FileInv, LeftoverInv, NEW p \in Processes, ProcessAt(p) # "none", NEW i \in Nat,
         process' = [process EXCEPT ![p].pc = "chmod", ![p].inode = i],
         names' = names \/ GiveName(Name(p), Len(inodes) + 1),
         Len(inodes)' = Len(inodes) \/ Len(inodes)' = Len(inodes) + 1
  PROVE  LeftoverInv'
<1>1. NamesOfOthers(p)
  BY NameChanges, ZenonT(30)
<1>2. process[p] \in ProcessRecords /\ process \in ProcessType
  BY Started DEF FileInv, ProcessInv
<1>3. /\ process'[p] = Opened(process[p], "chmod", i)
      /\ \A q \in Processes \ {p} : process'[q] = process[q]
  BY <1>2, ZenonT(30) DEF ProcessType, Opened
<1>4. process'[p].since = process[p].since /\ process'[p].pc = "chmod"
  BY <1>2, <1>3 DEF ProcessRecords, Opened
<1>5. process[p].since <= Len(inodes)'
  <2>1. process[p].since <= Len(inodes)
    BY ZenonT(30) DEF LeftoverInv, Leftover
  <2>2. process[p].since \in Nat
    BY <1>2 DEF ProcessRecords, Numbers
  <2> QED
    BY <1>1, <2>1, <2>2 DEF NamesOfOthers
<1>6. Leftover(process'[p], names', Len(inodes)')
  BY <1>4, <1>5, ZenonT(30) DEF Leftover
<1> QED
  BY <1>1, <1>3, <1>6, LeftoverStep, ZenonT(30)


(* Only a new file changes the number of files.                            *)
LEMMA InodeCount ==
  ASSUME FileInv, FileInv', NEW p \in Processes
  PROVE  /\ inodes' = inodes => Len(inodes)' = Len(inodes)
         /\ inodes' = Append(inodes, NewInode(p)) => Len(inodes)' = Len(inodes) + 1
         /\ TruncateFile(p) \/ ConstructSharedData(p) => Len(inodes)' = Len(inodes)
<1>1. inodes \in Seq(InodeRecords) /\ inodes' \in Seq(InodeRecords)
  BY DEF FileInv, InodeInv
<1>2. inodes' = Append(inodes, NewInode(p)) => Len(inodes') = Len(inodes) + 1
  BY <1>1, SMTT(30)
<1>3. ASSUME TruncateFile(p) \/ ConstructSharedData(p) PROVE Len(inodes') = Len(inodes)
  <2>1. DOMAIN inodes' = DOMAIN inodes
    BY <1>3, ZenonT(30) DEF TruncateFile, ConstructSharedData
  <2> QED
    BY <1>1, <2>1, SMTT(30)
<1> QED
  BY <1>2, <1>3, ZenonT(30)

(* Every step keeps the invariant.                                         *)
LEMMA LeftoverNext ==
  FileInv /\ LeftoverInv /\ [SharedMemoryNext]_sharedMemoryVars => LeftoverInv'
<1> SUFFICES ASSUME FileInv, LeftoverInv, [SharedMemoryNext]_sharedMemoryVars PROVE LeftoverInv'
  OBVIOUS
<1>1. FileInv'
  BY NextFile, ZenonT(30)
<1>2. ASSUME NEW p \in Processes
      PROVE  /\ inodes' = inodes => Len(inodes)' = Len(inodes)
             /\ inodes' = Append(inodes, NewInode(p)) => Len(inodes)' = Len(inodes) + 1
             /\ TruncateFile(p) \/ ConstructSharedData(p) => Len(inodes)' = Len(inodes)
  BY <1>1, InodeCount, ZenonT(30)
<1>3. /\ \A pc \in ProcessPcs : pc # "none"
      /\ {"open", "chmod", "truncate", "map", "construct", "connect", "connected", "unlinked",
          "failed", "refused", "dead"} \subseteq ProcessPcs
  BY ZenonT(30) DEF ProcessPcs
<1>4. ASSUME NEW p \in Processes, MakeTemporary(p) PROVE LeftoverInv'
  <2>1. ProcessAt(p) # "none" /\ Dynamic(p)
    BY <1>4, ZenonT(30) DEF MakeTemporary
  <2>2. CASE inodes' = Append(inodes, NewInode(p)) /\ GiveName(Name(p), Len(inodes) + 1) /\ ProcessGoto(p, "open")
    BY <1>2, <2>1, <2>2, PreparedLeft, ZenonT(30)
  <2>3. CASE Fault(p, "open") /\ UNCHANGED <<names, inodes>>
    BY <1>2, <1>3, <2>1, <2>3, AwayLeft, ZenonT(30)
  <2> QED
    BY <1>4, <2>2, <2>3, ZenonT(30) DEF MakeTemporary
<1>5. ASSUME NEW p \in Processes, UnlinkExistingFile(p) PROVE LeftoverInv'
  <2>1. ProcessAt(p) # "none" /\ ~Dynamic(p) /\ Len(inodes)' = Len(inodes)
    BY <1>2, <1>5, ZenonT(30) DEF UnlinkExistingFile
  <2>2. CASE RemoveName(Name(p)) /\ ProcessGoto(p, "open")
    BY <2>1, <2>2, PreparedLeft, ZenonT(30)
  <2>3. CASE Fault(p, "open") /\ UNCHANGED names
    BY <1>3, <2>1, <2>3, AwayLeft, ZenonT(30)
  <2> QED
    BY <1>5, <2>2, <2>3, ZenonT(30) DEF UnlinkExistingFile
<1>6. ASSUME NEW p \in Processes, OpenFile(p) PROVE LeftoverInv'
  <2>1. ProcessAt(p) # "none"
    BY <1>6, ZenonT(30) DEF OpenFile
  <2>2. CASE /\ inodes' = Append(inodes, NewInode(p)) /\ GiveName(Name(p), Len(inodes) + 1)
             /\ process' = [process EXCEPT ![p].pc = "chmod", ![p].inode = Len(inodes) + 1]
    <3>1. Len(inodes) + 1 \in Nat
      BY DEF FileInv, InodeInv
    <3> QED
      BY <1>2, <2>1, <2>2, <3>1, OpenLeft, ZenonT(30)
  <2>3. CASE /\ Linked(Name(p)) /\ UNCHANGED <<names, inodes>>
             /\ process' = [process EXCEPT ![p].pc = "chmod", ![p].inode = names[Name(p)]]
    <3>1. names[Name(p)] \in DOMAIN inodes
      BY <2>3, ZenonT(30) DEF FileInv, NameInv, Linked
    <3>2. names[Name(p)] \in Nat
      BY <3>1 DEF FileInv, InodeInv
    <3> QED
      BY <1>2, <2>1, <2>3, <3>2, OpenLeft, ZenonT(30)
  <2>4. CASE (ProcessGoto(p, "refused") \/ Fault(p, "failed")) /\ UNCHANGED <<names, inodes>>
    BY <1>2, <1>3, <2>1, <2>4, AwayLeft, ZenonT(30)
  <2> QED
    BY <1>6, <2>2, <2>3, <2>4, ZenonT(30) DEF OpenFile
<1>7. ASSUME NEW p \in Processes,
             \/ ChangeMode(p) \/ TruncateFile(p) \/ MapSharedMemory(p) \/ ConstructSharedData(p)
             \/ SendConnectMessage(p) \/ UnlinkAfterConnect(p) \/ Crash(p)
      PROVE  LeftoverInv'
  <2>1. ProcessAt(p) # "none"
    BY <1>7, ZenonT(30)
    DEF ChangeMode, TruncateFile, MapSharedMemory, ConstructSharedData,
        SendConnectMessage,
       UnlinkAfterConnect, Crash
  <2>2. names' = names \/ RemoveName(Name(p))
    BY <1>7, ZenonT(30)
    DEF ChangeMode, TruncateFile, MapSharedMemory, ConstructSharedData,
        SendConnectMessage,
       UnlinkAfterConnect, Crash
  <2>3. Len(inodes)' = Len(inodes)
    <3>1. CASE TruncateFile(p) \/ ConstructSharedData(p)
      BY <1>2, <3>1, ZenonT(30)
    <3>2. CASE inodes' = inodes
      BY <1>2, <3>2, ZenonT(30)
    <3> QED
      BY <1>7, <3>1, <3>2, ZenonT(30)
      DEF ChangeMode, MapSharedMemory, SendConnectMessage, UnlinkAfterConnect, Crash
  <2>4. \E pc \in ProcessPcs : (pc # "open" /\ ProcessGoto(p, pc)) \/ Fault(p, pc)
    BY <1>3, <1>7, ZenonT(30)
    DEF ChangeMode, TruncateFile, MapSharedMemory, ConstructSharedData,
        SendConnectMessage,
       UnlinkAfterConnect, Crash
  <2> QED
    BY <2>1, <2>2, <2>3, <2>4, AwayLeft, ZenonT(30)
<1>8. ASSUME UNCHANGED <<process, names, inodes>> PROVE LeftoverInv'
  BY <1>8, ZenonT(30) DEF LeftoverInv, ProcessAt
<1>9. CASE OpenConnected \/ CreateReader \/ UNCHANGED sharedMemoryVars
  BY <1>8, <1>9, ZenonT(30) DEF OpenConnected, CreateReader, sharedMemoryVars
<1> QED
  BY <1>4, <1>5, <1>6, <1>7, <1>9, CreateLeft, ZenonT(30) DEF SharedMemoryNext

(* A process that is refused its file opened it under O_EXCL.              *)
LEMMA RefusedOpening ==
  ASSUME FileInv, SharedMemoryNext, NEW p \in Processes, ProcessAt(p) = "open", process'[p].pc = "refused"
  PROVE  Dynamic(p) # Linked(Name(p)) /\ (Dynamic(p) \in BOOLEAN)
<1>1. process[p] \in ProcessRecords /\ process \in ProcessType
  BY Started, ZenonT(30) DEF FileInv, ProcessInv
<1>2. process'[p] # process[p]
  BY ZenonT(30) DEF ProcessAt
<1>3. ASSUME NEW q \in Processes, NEW pc \in ProcessPcs, ProcessAt(q) # "none",
             ProcessGoto(q, pc) \/ Fault(q, pc)
      PROVE  q = p /\ pc = "refused"
  <2>1. process'[q].pc = pc /\ \A u \in Processes \ {q} : process'[u] = process[u]
    BY <1>3, GotoMoves, ZenonT(30) DEF FileInv, Moves
  <2>2. q = p
    BY <1>2, <2>1, ZenonT(30)
  <2> QED
    BY <2>1, <2>2, ZenonT(30)
<1>4. ASSUME NEW q \in Processes, q # p, NEW r, process' = [process EXCEPT ![q] = r] PROVE FALSE
  BY <1>1, <1>2, <1>4, ZenonT(30) DEF ProcessType
<1>5. ~UNCHANGED process
  BY <1>2, ZenonT(30)
<1>6. /\ \A pc \in ProcessPcs : pc # "none"
      /\ {"open", "chmod", "truncate", "map", "construct", "connect", "connected", "unlinked",
          "failed", "refused", "dead"} \subseteq ProcessPcs
  BY ZenonT(30) DEF ProcessPcs
<1>7. ASSUME NEW q \in Processes, NEW dynamic \in BOOLEAN, NEW ring \in RingSizes, Create(q, dynamic, ring)
      PROVE  FALSE
  <2>1. q # p
    BY <1>7, ZenonT(30) DEF Create
  <2> QED
    BY <1>4, <1>7, <2>1, ZenonT(30) DEF Create
<1>8. ASSUME NEW q \in Processes,
             \/ MakeTemporary(q) \/ UnlinkExistingFile(q) \/ ChangeMode(q) \/ TruncateFile(q)
             \/ MapSharedMemory(q) \/ ConstructSharedData(q) \/ SendConnectMessage(q)
             \/ UnlinkAfterConnect(q) \/ Crash(q)
      PROVE  FALSE
  <2>1. ProcessAt(q) # "none" /\ (ProcessAt(q) = "open" => Crash(q))
    BY <1>8, ZenonT(30)
    DEF MakeTemporary, UnlinkExistingFile, ChangeMode, TruncateFile,
        MapSharedMemory,
       ConstructSharedData, SendConnectMessage, UnlinkAfterConnect, Crash
  <2>2. \E pc \in ProcessPcs : ProcessGoto(q, pc) \/ Fault(q, pc)
    BY <1>6, <1>8, ZenonT(30)
    DEF MakeTemporary, UnlinkExistingFile, ChangeMode, TruncateFile,
        MapSharedMemory,
       ConstructSharedData, SendConnectMessage, UnlinkAfterConnect, Crash
  <2>3. q = p
    BY <1>3, <2>1, <2>2, ZenonT(30)
  <2>4. ProcessGoto(q, "dead")
    BY <2>1, <2>3, ZenonT(30) DEF Crash
  <2> QED
    BY <1>3, <1>6, <2>1, <2>4, ZenonT(30)
<1>9. ~(OpenConnected \/ CreateReader)
  BY <1>5, ZenonT(30) DEF OpenConnected, CreateReader
<1>10. PICK q \in Processes : OpenFile(q)
  BY <1>7, <1>8, <1>9, ZenonT(30) DEF SharedMemoryNext
<1>11. ProcessAt(q) # "none"
  BY <1>10, ZenonT(30) DEF OpenFile
<1>12. ASSUME NEW i, process' = [process EXCEPT ![q].pc = "chmod", ![q].inode = i] PROVE FALSE
  <2>1. CASE q = p
    <3>1. process'[p] = [process[p] EXCEPT !.pc = "chmod", !.inode = i]
      BY <1>1, <1>12, <2>1, ZenonT(30) DEF ProcessType
    <3>2. process'[p].pc = "chmod"
      BY <1>1, <3>1 DEF ProcessRecords
    <3> QED
      BY <3>2, ZenonT(30)
  <2>2. CASE q # p
    <3>1. process' = [process EXCEPT ![q] = [@ EXCEPT !.pc = "chmod", !.inode = i]]
      BY <1>12, ZenonT(30)
    <3> QED
      BY <1>4, <2>2, <3>1, ZenonT(30)
  <2> QED
    BY <2>1, <2>2, ZenonT(30)
<1>13. ~Fault(q, "failed")
  BY <1>3, <1>6, <1>11, ZenonT(30)
<1>14. Dynamic(q) # Linked(Name(q)) /\ ProcessGoto(q, "refused")
  BY <1>10, <1>12, <1>13, ZenonT(30) DEF OpenFile
<1>15. q = p
  BY <1>3, <1>6, <1>11, <1>14, ZenonT(30)
<1> QED
  BY <1>1, <1>14, <1>15, ZenonT(30) DEF ProcessRecords, Dynamic

(* The step of the theorem below.                                          *)
LEMMA LeftoverRefusal ==
  ASSUME FileInv, LeftoverInv, [SharedMemoryNext]_sharedMemoryVars, NEW p \in Processes,
         ProcessAt(p) = "open", process'[p].pc = "refused", ~process[p].fault
  PROVE  Linked(Name(p)) /\ names[Name(p)] > process[p].since
<1>1. SharedMemoryNext
  BY ZenonT(30) DEF sharedMemoryVars, ProcessAt
<1>2. Dynamic(p) # Linked(Name(p)) /\ (Dynamic(p) \in BOOLEAN)
  BY <1>1, RefusedOpening, ZenonT(30)
<1>3. Leftover(process[p], names, Len(inodes))
  BY ZenonT(30) DEF LeftoverInv
<1>4. Dynamic(p) => Linked(Name(p))
  BY <1>3, ZenonT(30) DEF Leftover, Dynamic, Name, Linked, ProcessAt
<1>5. Linked(Name(p)) \in BOOLEAN
  BY SMTT(30) DEF Linked
<1>6. ~Dynamic(p) /\ Linked(Name(p))
  <2> HIDE DEF Dynamic, Linked
  <2> QED
    BY <1>2, <1>4, <1>5
<1> QED
  BY <1>3, <1>6, ZenonT(30) DEF Leftover, Dynamic, Name, Linked, ProcessAt

(* Whatever earlier processes left behind, a process that meets no failure *)
(* is refused its file only because another process made one under the     *)
(* same name after its own call of Create.                                 *)
THEOREM LeftoversHarmless == SharedMemorySpec => LeftoversDoNotBlock
<1>1. SharedMemoryInit => LeftoverInv
  BY SMTT(30) DEF SharedMemoryInit, LeftoverInv, ProcessAt
<1>2. SharedMemorySpec => []LeftoverInv
  BY <1>1, FileInvariant, LeftoverNext, PTL DEF SharedMemorySpec
<1>3. FileInv /\ LeftoverInv /\ [SharedMemoryNext]_sharedMemoryVars =>
        [\A p \in Processes :
           (ProcessAt(p) = "open" /\ process'[p].pc = "refused" /\ ~process[p].fault)
             => Linked(Name(p)) /\ names[Name(p)] > process[p].since]_sharedMemoryVars
  BY LeftoverRefusal, ZenonT(30)
<1> QED
  BY <1>2, <1>3, FileInvariant, PTL DEF SharedMemorySpec, LeftoversDoNotBlock

=============================================================================
