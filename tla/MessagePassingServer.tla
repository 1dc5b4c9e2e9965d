------------------------ MODULE MessagePassingServer ------------------------
(***************************************************************************)
(* The session server of the Datarouter                                    *)
(* (score/datarouter/src/daemon/message_passing_server.cpp) with the       *)
(* control part of its sessions                                            *)
(* (DataRouter::SourceSession, score/datarouter/datarouter/data_router.cpp).*)
(*                                                                         *)
(* Two threads share the state: the dispatch thread runs the callbacks of  *)
(* the message passing library (connect, disconnect, kConnect and          *)
(* kAcquireResponse messages), the worker thread ticks the sessions of the *)
(* work queue and is the watchdog of the outstanding acquire requests.     *)
(* What one thread does under mutex_ is one action, except where it waits  *)
(* for a second lock while it has mutex_ or waits for mutex_ while it has  *)
(* another lock; what the worker does without mutex_ is one action per     *)
(* access to the state that the dispatch thread also uses.                 *)
(*                                                                         *)
(* The clients are the environment: a client connects, sends kConnect,     *)
(* answers every acquire request once, may stop answering and may exit.    *)
(* Log data is modelled in module AcquireSession; here a block that a      *)
(* client hands over is only released by its writers or not yet.           *)
(***************************************************************************)
EXTENDS Integers, Sequences, FiniteSets

CONSTANTS
  Pids,                 \* process ids of clients
  Connections,          \* connections, numbered in the order they are opened
  ClientPid,            \* GetClientIdentity().pid of each connection
  Hanging,              \* connections whose client may stop answering
  Exiting,              \* connections whose client may exit
  NotifyResults,        \* what Notify() may return: "ok", "ENOBUFS", "error"
  FactoryMayFail,       \* the session factory may return no session
  MayShutDown,          \* the Datarouter may be stopped
  OutputMayBeOff,       \* enabled_logging_at_server may be false
  MaxMisses,            \* watchdog_config_.max_misses
  TicksWithoutAcquire   \* kTicksWithoutAcquireWhileNoWrites

NoConnection == 0
NoPid == "none"

ASSUME ServerAssumption ==
  /\ Connections \subseteq Nat \ {NoConnection}
  /\ ClientPid \in [Connections -> Pids]
  /\ Hanging \subseteq Connections /\ Exiting \subseteq Connections
  /\ NotifyResults \subseteq {"ok", "ENOBUFS", "error"}
  /\ FactoryMayFail \in BOOLEAN /\ MayShutDown \in BOOLEAN
  /\ OutputMayBeOff \in BOOLEAN
  /\ MaxMisses \in Nat \ {0}
  /\ TicksWithoutAcquire \in Nat
  /\ NoPid \notin Pids

VARIABLES
  pid_session_map,    \* the pids that have a session
  wrapper,            \* their SessionWrapper
  session,            \* their SourceSession
  work_queue,
  disconnected_pids,
  worker,             \* worker thread: its position and its locals
  t1,                 \* the worker's 100 ms period is over
  dispatch,           \* dispatch thread: the callback it is in
  shutdown,           \* progress of ~MessagePassingServer
  client,             \* state of the client of each connection
  requests,           \* acquire requests on their way to the client
  responses,          \* acquire responses on their way to the server
  writing             \* writers are left in the block handed over last

server == <<pid_session_map, wrapper, session, work_queue, disconnected_pids>>
threads == <<worker, t1, dispatch, shutdown>>
clients == <<client, requests, responses, writing>>
vars == <<server, threads, clients>>

-----------------------------------------------------------------------------
(* State                                                                   *)

Wrapper ==
  [connection : Connections \union {NoConnection},
   acquire_in_flight : BOOLEAN,
   acquire_deadline : {"none", "running", "over"},
   acquire_miss_count : 0 .. MaxMisses,
   enqueued : BOOLEAN, running : BOOLEAN, to_delete : BOOLEAN,
   closed_by_peer : BOOLEAN, to_force_finish : BOOLEAN]

NewWrapper(c) ==
  [connection |-> c,
   acquire_in_flight |-> FALSE,
   acquire_deadline |-> "none",
   acquire_miss_count |-> 0,
   enqueued |-> FALSE, running |-> FALSE, to_delete |-> FALSE,
   closed_by_peer |-> FALSE, to_force_finish |-> FALSE]

(* CommandData, and detach_on_closed_processed of LocalSubscriberData.     *)
(* data_acquired and block_expected_to_be_next are modelled by has_value();*)
(* source is the client whose memory reader_ has mapped.                   *)
Session ==
  [source : Connections \union {NoConnection},
   command_detach_on_closed : BOOLEAN,
   acquire_requested : BOOLEAN,
   ticks_without_write : 0 .. TicksWithoutAcquire + 1,
   block_expected_to_be_next : BOOLEAN,
   data_acquired : BOOLEAN,
   detach_on_closed_processed : BOOLEAN]

NewSession(c) ==
  [source |-> c,
   command_detach_on_closed |-> FALSE,
   acquire_requested |-> FALSE,
   ticks_without_write |-> 0,
   block_expected_to_be_next |-> FALSE,
   data_acquired |-> FALSE,
   detach_on_closed_processed |-> FALSE]

(* The worker between two ticks, without locals.                           *)
WorkerAt(pc) ==
  [pc |-> pc, pid |-> NoPid, todo |-> {},
   closed_by_peer |-> FALSE, finishing |-> FALSE,
   finalized |-> FALSE, detach_needed |-> FALSE]

Init ==
  /\ pid_session_map = {}
  /\ wrapper = [p \in Pids |-> NewWrapper(NoConnection)]
  /\ session = [p \in Pids |-> NewSession(NoConnection)]
  /\ work_queue = <<>>
  /\ disconnected_pids = {}
  /\ worker = WorkerAt("Wait")
  /\ t1 = FALSE
  /\ dispatch = [pc |-> "Idle", connection |-> NoConnection]
  /\ shutdown = "no"
  /\ client = [c \in Connections |-> "new"]
  /\ requests = [c \in Connections |-> 0]
  /\ responses = [c \in Connections |-> 0]
  /\ writing = [c \in Connections |-> FALSE]

(* Nobody is inside a section of mutex_ that takes more than one action.   *)
MutexFree == dispatch.pc # "Respond" /\ worker.pc # "Scan"

workers_exit == shutdown \in {"exit", "joined"}

-----------------------------------------------------------------------------
(* SessionWrapper: changes of the wrapper, and what they push              *)

(* Mutant: a session that waits for nothing is marked but not queued.      *)
EnqueuedForDeleteUnqueued(w) ==
  [w EXCEPT !.to_delete = TRUE, !.closed_by_peer = TRUE]

EnqueuedForDelete(w) ==
  [w EXCEPT !.to_delete = TRUE,
            !.closed_by_peer = TRUE,
            !.enqueued = w.enqueued \/ ~w.running]

EnqueuedTick(w) ==
  [w EXCEPT !.enqueued = w.enqueued \/ ~w.to_delete]

(* Mutant: a running session is pushed at once.                            *)
PushedRunning(queue, p, before, after) ==
  IF after.enqueued /\ ~before.enqueued THEN Append(queue, p) ELSE queue

(* A session that is running is not pushed: the worker pushes it when the  *)
(* tick is over.                                                           *)
Pushed(queue, p, before, after) ==
  IF after.enqueued /\ ~before.enqueued /\ ~before.running
  THEN Append(queue, p)
  ELSE queue

Enqueue(p, after) ==
  /\ wrapper' = [wrapper EXCEPT ![p] = after]
  /\ work_queue' = Pushed(work_queue, p, wrapper[p], after)

-----------------------------------------------------------------------------
(* Dispatch thread                                                         *)

(* connect_callback.  The server has one connection of a process at a time.*)
(* A process may connect again while the session of its former connection  *)
(* is still being created.                                                 *)
Connect(c) ==
  LET p == ClientPid[c] IN
  /\ MutexFree /\ shutdown = "no"
  /\ client[c] = "new"
  /\ \A d \in Connections \ {c} :
       ClientPid[d] = p => \/ d < c /\ client[d] = "closed"
                           \/ d > c
  /\ client' = [client EXCEPT ![c] = "connected"]
  /\ disconnected_pids' = disconnected_pids \ {p}
  /\ UNCHANGED <<pid_session_map, wrapper, session, work_queue, threads,
                 requests, responses, writing>>

(* OnConnectRequest up to the factory, which runs without mutex_.          *)
CreateSession(c) ==
  /\ dispatch.pc = "Idle" /\ shutdown = "no"
  /\ client[c] = "connected"
  /\ client' = [client EXCEPT ![c] = "attached"]
  /\ dispatch' = [pc |-> "Create", connection |-> c]
  /\ UNCHANGED <<server, worker, t1, shutdown, requests, responses, writing>>

(* The factory has failed: there is no session for this connection.        *)
CreateFailed ==
  /\ dispatch.pc = "Create" /\ FactoryMayFail
  /\ dispatch' = [pc |-> "Idle", connection |-> NoConnection]
  /\ UNCHANGED <<server, worker, t1, shutdown, clients>>

(* Mutant: disconnected_pids_ is not consulted.                            *)
EmplaceSessionUnchecked ==
  LET c == dispatch.connection
      p == ClientPid[c]
  IN
  /\ dispatch.pc = "Create" /\ MutexFree
  /\ dispatch' = [pc |-> "Idle", connection |-> NoConnection]
  /\ IF p \in pid_session_map
     THEN UNCHANGED <<pid_session_map, wrapper, session, work_queue>>
     ELSE /\ pid_session_map' = pid_session_map \union {p}
          /\ session' = [session EXCEPT ![p] = NewSession(c)]
          /\ Enqueue(p, EnqueuedTick(NewWrapper(c)))
  /\ UNCHANGED <<disconnected_pids, worker, t1, shutdown, clients>>

EmplaceSession ==
  LET c == dispatch.connection
      p == ClientPid[c]
  IN
  /\ dispatch.pc = "Create" /\ MutexFree
  /\ dispatch' = [pc |-> "Idle", connection |-> NoConnection]
  /\ IF p \in disconnected_pids \/ p \in pid_session_map
     THEN UNCHANGED <<pid_session_map, wrapper, session, work_queue>>
     ELSE /\ pid_session_map' = pid_session_map \union {p}
          /\ session' = [session EXCEPT ![p] = NewSession(c)]
          /\ Enqueue(p, EnqueuedTick(NewWrapper(c)))
  /\ UNCHANGED <<disconnected_pids, worker, t1, shutdown, clients>>

(* disconnect_callback.  It may run while the session is being created.    *)
Disconnect(c) ==
  LET p == ClientPid[c] IN
  /\ MutexFree /\ shutdown = "no"
  /\ client[c] = "exited"
  /\ client' = [client EXCEPT ![c] = "closed"]
  /\ requests' = [requests EXCEPT ![c] = 0]
  /\ responses' = [responses EXCEPT ![c] = 0]
  /\ disconnected_pids' = disconnected_pids \union {p}
  /\ IF p \in pid_session_map
     THEN Enqueue(p, EnqueuedForDelete(
                       [wrapper[p] EXCEPT !.connection = NoConnection,
                                          !.to_force_finish = TRUE]))
     ELSE UNCHANGED <<wrapper, work_queue>>
  /\ UNCHANGED <<pid_session_map, session, threads, writing>>

(* OnAcquireResponse: mutex_ is taken first ...                            *)
StartResponse(c) ==
  /\ dispatch.pc = "Idle" /\ MutexFree /\ shutdown = "no"
  /\ client[c] \in {"attached", "hung", "exited"}
  /\ responses[c] > 0
  /\ responses' = [responses EXCEPT ![c] = @ - 1]
  /\ dispatch' = [pc |-> "Respond", connection |-> c]
  /\ UNCHANGED <<server, worker, t1, shutdown, client, requests, writing>>

(* ... then command_data_ in SourceSession::OnAcquireResponse.             *)
CommandDataFree(p) == ~(worker.pc = "Request" /\ worker.pid = p)

OnAcquireResponse ==
  LET c == dispatch.connection
      p == ClientPid[c]
  IN
  /\ dispatch.pc = "Respond"
  /\ dispatch' = [pc |-> "Idle", connection |-> NoConnection]
  /\ IF p \in pid_session_map /\ wrapper[p].connection = c
     THEN /\ CommandDataFree(p)
          /\ session' = [session EXCEPT ![p].data_acquired = TRUE,
                                        ![p].block_expected_to_be_next = TRUE]
          /\ Enqueue(p, EnqueuedTick(
                          [wrapper[p] EXCEPT !.acquire_in_flight = FALSE,
                                             !.acquire_deadline = "none",
                                             !.acquire_miss_count = 0]))
     ELSE UNCHANGED <<session, wrapper, work_queue>>
  /\ UNCHANGED <<pid_session_map, disconnected_pids, worker, t1, shutdown,
                 clients>>

-----------------------------------------------------------------------------
(* Worker thread: wake-up and watchdog                                     *)

WakeUp ==
  /\ worker.pc = "Wait" /\ MutexFree
  /\ ~workers_exit
  /\ t1 \/ work_queue # <<>>
  /\ IF t1 /\ pid_session_map # {}
     THEN worker' = [worker EXCEPT !.pc = "Scan", !.todo = pid_session_map]
     ELSE worker' = [worker EXCEPT !.pc = "Drain"]
  /\ t1' = FALSE
  /\ UNCHANGED <<server, dispatch, shutdown, clients>>

Missed(w) == w.acquire_in_flight /\ w.acquire_deadline = "over"

AfterMiss(w) ==
  [w EXCEPT !.acquire_in_flight = FALSE,
            !.acquire_deadline = "none",
            !.acquire_miss_count = @ + 1]

(* What the periodic scan does to the wrapper of one session.              *)
Watched(s, w) ==
  IF s.detach_on_closed_processed THEN EnqueuedForDelete(w)
  ELSE IF ~Missed(w) THEN EnqueuedTick(w)
  ELSE IF w.acquire_miss_count + 1 >= MaxMisses
       THEN EnqueuedForDelete(AfterMiss(w))
       ELSE EnqueuedTick(AfterMiss(w))

ScanSession(p) ==
  /\ worker.pc = "Scan"
  /\ p \in worker.todo
  /\ Enqueue(p, Watched(session[p], wrapper[p]))
  /\ worker' = [worker EXCEPT
                  !.pc = IF worker.todo = {p} THEN "Drain" ELSE "Scan",
                  !.todo = @ \ {p}]
  /\ UNCHANGED <<pid_session_map, session, disconnected_pids, t1, dispatch,
                 shutdown, clients>>

-----------------------------------------------------------------------------
(* Worker thread: the ticks                                                *)

PopTick ==
  LET p == Head(work_queue) IN
  /\ worker.pc = "Drain" /\ MutexFree
  /\ ~workers_exit
  /\ work_queue # <<>>
  /\ work_queue' = Tail(work_queue)
  /\ wrapper' = [wrapper EXCEPT ![p].enqueued = FALSE,
                                ![p].running = TRUE,
                                ![p].closed_by_peer = FALSE]
  /\ worker' = [worker EXCEPT
                  !.pc = IF wrapper[p].closed_by_peer THEN "Notify" ELSE "Tick",
                  !.pid = p,
                  !.closed_by_peer = wrapper[p].closed_by_peer]
  /\ UNCHANGED <<pid_session_map, session, disconnected_pids, t1, dispatch,
                 shutdown, clients>>

DrainEnd ==
  /\ worker.pc = "Drain"
  /\ ~workers_exit
  /\ work_queue = <<>>
  /\ worker' = [worker EXCEPT !.pc = "Wait"]
  /\ UNCHANGED <<server, t1, dispatch, shutdown, clients>>

NotifyClosedByPeer ==
  /\ worker.pc = "Notify"
  /\ session' = [session EXCEPT ![worker.pid].command_detach_on_closed = TRUE]
  /\ worker' = [worker EXCEPT !.pc = "Tick"]
  /\ UNCHANGED <<pid_session_map, wrapper, work_queue, disconnected_pids, t1,
                 dispatch, shutdown, clients>>

(* SourceSession::Tick, and the copy of data_acquired at the start of      *)
(* TryFinalizeAcquisition.                                                 *)
StartTick ==
  LET s == session[worker.pid] IN
  /\ worker.pc = "Tick"
  /\ worker' = [worker EXCEPT
                  !.pc = IF s.detach_on_closed_processed THEN "Relock"
                         ELSE IF s.data_acquired THEN "Finalize" ELSE "Read",
                  !.finalized = FALSE]
  /\ UNCHANGED <<server, t1, dispatch, shutdown, clients>>

(* The rest of TryFinalizeAcquisition, when there was a response.          *)
BlockReleased(p) == ~writing[session[p].source]

FinalizeAcquisition ==
  LET p == worker.pid IN
  /\ worker.pc = "Finalize"
  /\ session' = [session EXCEPT ![p].data_acquired = @ /\ ~BlockReleased(p)]
  /\ worker' = [worker EXCEPT !.pc = "Read", !.finalized = BlockReleased(p)]
  /\ UNCHANGED <<pid_session_map, wrapper, work_queue, disconnected_pids, t1,
                 dispatch, shutdown, clients>>

(* reader_->Read() and, after a close, ProcessDetachedLogs.                *)
ReadBuffers ==
  LET p == worker.pid IN
  /\ worker.pc = "Read"
  /\ session' = [session EXCEPT
                   ![p].detach_on_closed_processed =
                     @ \/ session[p].command_detach_on_closed]
  /\ worker' = [worker EXCEPT
                  !.pc = "Command",
                  !.detach_needed = session[p].command_detach_on_closed]
  /\ UNCHANGED <<pid_session_map, wrapper, work_queue, disconnected_pids, t1,
                 dispatch, shutdown, clients>>

(* Mutant: acquire_requested stays set after an acquisition.               *)
AcquisitionDoneKept ==
  /\ worker.pc = "Command"
  /\ worker.finalized
  /\ session' = [session EXCEPT ![worker.pid].ticks_without_write = 0]
  /\ worker' = [worker EXCEPT !.pc = "Relock"]
  /\ UNCHANGED <<pid_session_map, wrapper, work_queue, disconnected_pids, t1,
                 dispatch, shutdown, clients>>

(* The section of command_data_ at the end of ProcessAndRouteLogMessages.  *)
AcquisitionDone ==
  /\ worker.pc = "Command"
  /\ worker.finalized
  /\ session' = [session EXCEPT ![worker.pid].acquire_requested = FALSE,
                                ![worker.pid].ticks_without_write = 0]
  /\ worker' = [worker EXCEPT !.pc = "Relock"]
  /\ UNCHANGED <<pid_session_map, wrapper, work_queue, disconnected_pids, t1,
                 dispatch, shutdown, clients>>

(* Mutant: acquire_requested does not keep the session from asking again.  *)
MayRequestAgain(s) == ~worker.finalized /\ ~worker.detach_needed

(* Unless enabled_logging_at_server is false.                              *)
MayRequest(s) ==
  ~worker.finalized /\ ~s.acquire_requested /\ ~worker.detach_needed

NothingToRequest ==
  /\ worker.pc = "Command"
  /\ ~worker.finalized
  /\ ~MayRequest(session[worker.pid]) \/ OutputMayBeOff
  /\ worker' = [worker EXCEPT !.pc = "Relock"]
  /\ UNCHANGED <<server, t1, dispatch, shutdown, clients>>

(* The expected block is empty and the client was asked recently.          *)
PostponeRequest ==
  LET s == session[worker.pid] IN
  /\ worker.pc = "Command"
  /\ MayRequest(s)
  /\ s.block_expected_to_be_next
  /\ s.ticks_without_write <= TicksWithoutAcquire
  /\ session' = [session EXCEPT ![worker.pid].ticks_without_write = @ + 1]
  /\ worker' = [worker EXCEPT !.pc = "Relock"]
  /\ UNCHANGED <<pid_session_map, wrapper, work_queue, disconnected_pids, t1,
                 dispatch, shutdown, clients>>

(* RequestAcquire is called with command_data_ locked.  The peek of the    *)
(* expected block may find bytes at any time.                              *)
DecideRequest ==
  /\ worker.pc = "Command"
  /\ MayRequest(session[worker.pid])
  /\ worker' = [worker EXCEPT !.pc = "Request"]
  /\ UNCHANGED <<server, t1, dispatch, shutdown, clients>>

(* NotifyAcquireRequest has returned result.                               *)
Requested(result) ==
  /\ session' = [session EXCEPT ![worker.pid].acquire_requested = result]
  /\ worker' = [worker EXCEPT !.pc = "Relock"]
  /\ UNCHANGED <<pid_session_map, disconnected_pids, t1, dispatch, shutdown,
                 client, responses, writing>>

(* It refuses after the shutdown has begun, without taking mutex_, and for *)
(* a session that has lost its connection.                                 *)
RequestRefused ==
  LET p == worker.pid IN
  /\ worker.pc = "Request"
  /\ \/ workers_exit
     \/ MutexFree /\ (p \notin pid_session_map
                      \/ wrapper[p].connection = NoConnection)
  /\ Requested(FALSE)
  /\ UNCHANGED <<wrapper, work_queue, requests>>

MaySend(p) ==
  /\ worker.pc = "Request" /\ worker.pid = p
  /\ MutexFree /\ ~workers_exit
  /\ p \in pid_session_map
  /\ wrapper[p].connection # NoConnection

(* Notify() puts the request into the notify pool of the connection, unless*)
(* one is in flight already.  If the connection has been destroyed, the    *)
(* call may return anything and no client gets the request.                *)
SendRequest ==
  LET p == worker.pid
      c == wrapper[p].connection
  IN
  /\ MaySend(p)
  /\ IF wrapper[p].acquire_in_flight THEN UNCHANGED <<requests, wrapper>>
     ELSE /\ "ok" \in NotifyResults
          /\ requests' = IF client[c] = "closed" THEN requests
                         ELSE [requests EXCEPT ![c] = @ + 1]
          /\ wrapper' = [wrapper EXCEPT ![p].acquire_in_flight = TRUE,
                                        ![p].acquire_deadline = "running"]
  /\ Requested(TRUE)
  /\ UNCHANGED work_queue

NotifyPoolExhausted ==
  LET p == worker.pid IN
  /\ MaySend(p)
  /\ ~wrapper[p].acquire_in_flight
  /\ "ENOBUFS" \in NotifyResults
  /\ Requested(TRUE)
  /\ UNCHANGED <<wrapper, work_queue, requests>>

NotifyFailed ==
  LET p == worker.pid IN
  /\ MaySend(p)
  /\ ~wrapper[p].acquire_in_flight
  /\ "error" \in NotifyResults
  /\ Enqueue(p, EnqueuedForDelete(wrapper[p]))
  /\ Requested(TRUE)
  /\ UNCHANGED requests

-----------------------------------------------------------------------------
(* Worker thread: after a tick, with mutex_ again.  Tick returns false.    *)

(* The client has disconnected during the tick: one more tick reads what   *)
(* it has left.                                                            *)
ForceFinish ==
  /\ worker.pc = "Relock" /\ MutexFree
  /\ wrapper[worker.pid].to_force_finish
  /\ ~worker.closed_by_peer /\ ~worker.finishing
  /\ session' = [session EXCEPT ![worker.pid].command_detach_on_closed = TRUE]
  /\ worker' = [worker EXCEPT !.pc = "Tick", !.finishing = TRUE]
  /\ UNCHANGED <<pid_session_map, wrapper, work_queue, disconnected_pids, t1,
                 dispatch, shutdown, clients>>

(* ResetRunningWhileLocked.                                                *)
Requeued(w) == w.closed_by_peer \/ w.enqueued

RequeueTick ==
  LET p == worker.pid IN
  /\ worker.pc = "Relock" /\ MutexFree
  /\ ~wrapper[p].to_force_finish
  /\ Requeued(wrapper[p])
  /\ wrapper' = [wrapper EXCEPT ![p].running = FALSE, ![p].enqueued = TRUE]
  /\ work_queue' = Append(work_queue, p)
  /\ worker' = WorkerAt("Drain")
  /\ UNCHANGED <<pid_session_map, session, disconnected_pids, t1, dispatch,
                 shutdown, clients>>

(* Mutant: a session to be finished is removed without another tick.       *)
MayRemoveAtOnce(w) ==
  IF w.to_force_finish THEN worker.pid # NoPid
                       ELSE ~Requeued(w) /\ w.to_delete

MayRemove(w) ==
  IF w.to_force_finish THEN worker.closed_by_peer \/ worker.finishing
                       ELSE ~Requeued(w) /\ w.to_delete

RemoveSession ==
  LET p == worker.pid IN
  /\ worker.pc = "Relock" /\ MutexFree
  /\ MayRemove(wrapper[p])
  /\ pid_session_map' = pid_session_map \ {p}
  /\ wrapper' = [wrapper EXCEPT ![p] = NewWrapper(NoConnection)]
  /\ session' = [session EXCEPT ![p] = NewSession(NoConnection)]
  /\ worker' = WorkerAt("Drain")
  /\ UNCHANGED <<work_queue, disconnected_pids, t1, dispatch, shutdown,
                 clients>>

TickEnd ==
  LET p == worker.pid IN
  /\ worker.pc = "Relock" /\ MutexFree
  /\ ~wrapper[p].to_force_finish /\ ~Requeued(wrapper[p])
  /\ ~wrapper[p].to_delete
  /\ wrapper' = [wrapper EXCEPT ![p].running = FALSE]
  /\ worker' = WorkerAt("Drain")
  /\ UNCHANGED <<pid_session_map, session, work_queue, disconnected_pids, t1,
                 dispatch, shutdown, clients>>

-----------------------------------------------------------------------------
(* ~MessagePassingServer                                                   *)

(* receiver_.reset() waits for the callbacks and allows no further ones.   *)
ResetReceiver ==
  /\ MayShutDown
  /\ shutdown = "no" /\ dispatch.pc = "Idle"
  /\ shutdown' = "receiver"
  /\ UNCHANGED <<server, worker, t1, dispatch, clients>>

ExitWorkers ==
  /\ shutdown = "receiver"
  /\ shutdown' = "exit"
  /\ UNCHANGED <<server, worker, t1, dispatch, clients>>

(* Mutant: a worker that waits is not woken up.                            *)
WorkerExitDraining ==
  /\ worker.pc = "Drain"
  /\ workers_exit
  /\ worker' = [worker EXCEPT !.pc = "Exited"]
  /\ UNCHANGED <<server, t1, dispatch, shutdown, clients>>

WorkerExit ==
  /\ worker.pc \in {"Wait", "Drain"}
  /\ workers_exit
  /\ worker' = [worker EXCEPT !.pc = "Exited"]
  /\ UNCHANGED <<server, t1, dispatch, shutdown, clients>>

(* join(), then pid_session_map_.clear().                                  *)
ClearSessions ==
  /\ shutdown = "exit" /\ worker.pc = "Exited"
  /\ shutdown' = "joined"
  /\ pid_session_map' = {}
  /\ wrapper' = [p \in Pids |-> NewWrapper(NoConnection)]
  /\ session' = [p \in Pids |-> NewSession(NoConnection)]
  /\ UNCHANGED <<work_queue, disconnected_pids, worker, t1, dispatch, clients>>

-----------------------------------------------------------------------------
(* Clients and time                                                        *)

(* DatarouterMessageClientImpl::OnAcquireRequest: switch, then respond.    *)
Answer(c) ==
  /\ client[c] = "attached"
  /\ requests[c] > 0
  /\ requests' = [requests EXCEPT ![c] = @ - 1]
  /\ responses' = [responses EXCEPT ![c] = @ + 1]
  /\ \E late \in BOOLEAN : writing' = [writing EXCEPT ![c] = late]
  /\ UNCHANGED <<server, threads, client>>

WritersRelease(c) ==
  /\ writing[c] /\ client[c] \in {"attached", "hung"}
  /\ writing' = [writing EXCEPT ![c] = FALSE]
  /\ UNCHANGED <<server, threads, client, requests, responses>>

Hang(c) ==
  /\ c \in Hanging /\ client[c] = "attached"
  /\ client' = [client EXCEPT ![c] = "hung"]
  /\ UNCHANGED <<server, threads, requests, responses, writing>>

(* The process of the client ends; its memory stays as it is.              *)
Exit(c) ==
  /\ c \in Exiting /\ client[c] \in {"connected", "attached"}
  /\ client' = [client EXCEPT ![c] = "exited"]
  /\ UNCHANGED <<server, threads, requests, responses, writing>>

PeriodOver ==
  /\ ~t1
  /\ t1' = TRUE
  /\ UNCHANGED <<server, worker, dispatch, shutdown, clients>>

DeadlineOver(p) ==
  /\ wrapper[p].acquire_deadline = "running"
  /\ wrapper' = [wrapper EXCEPT ![p].acquire_deadline = "over"]
  /\ UNCHANGED <<pid_session_map, session, work_queue, disconnected_pids,
                 threads, clients>>

-----------------------------------------------------------------------------
Tick ==
  \/ StartTick \/ FinalizeAcquisition \/ ReadBuffers
  \/ AcquisitionDone \/ NothingToRequest \/ PostponeRequest \/ DecideRequest
  \/ RequestRefused \/ SendRequest
  \/ NotifyPoolExhausted \/ NotifyFailed

WorkerStep ==
  \/ WakeUp \/ \E p \in Pids : ScanSession(p)
  \/ PopTick \/ DrainEnd \/ NotifyClosedByPeer
  \/ Tick
  \/ ForceFinish \/ RequeueTick \/ RemoveSession \/ TickEnd
  \/ WorkerExit

DispatchStep ==
  \/ \E c \in Connections : \/ Connect(c) \/ CreateSession(c)
                            \/ Disconnect(c) \/ StartResponse(c)
  \/ CreateFailed \/ EmplaceSession \/ OnAcquireResponse

Destructor == ResetReceiver \/ ExitWorkers \/ ClearSessions

ClientStep(c) == Answer(c) \/ WritersRelease(c) \/ Hang(c) \/ Exit(c)

Time == PeriodOver \/ \E p \in Pids : DeadlineOver(p)

Next ==
  \/ DispatchStep \/ WorkerStep \/ Destructor
  \/ \E c \in Connections : ClientStep(c)
  \/ Time

Spec == Init /\ [][Next]_vars

(* The worker runs on; the library delivers what has been sent, in the     *)
(* order of arrival, so that no event is passed over for ever, and the     *)
(* dispatch thread gets mutex_ (strong fairness, because the worker takes  *)
(* it in between); a client that does not hang answers and its writers     *)
(* finish; time passes.                                                    *)
Fairness ==
  /\ WF_vars(WorkerStep)
  /\ SF_vars(EmplaceSession \/ CreateFailed) /\ WF_vars(OnAcquireResponse)
  /\ \A c \in Connections \ Hanging :
       /\ SF_vars(CreateSession(c)) /\ SF_vars(StartResponse(c))
       /\ WF_vars(Answer(c)) /\ WF_vars(WritersRelease(c))
  /\ WF_vars(PeriodOver)
  /\ \A p \in Pids : WF_vars(DeadlineOver(p))
  /\ WF_vars(ExitWorkers) /\ WF_vars(ClearSessions)

FairSpec == Spec /\ Fairness

-----------------------------------------------------------------------------
(* Properties                                                              *)

TypeOK ==
  /\ pid_session_map \subseteq Pids
  /\ wrapper \in [Pids -> Wrapper]
  /\ session \in [Pids -> Session]
  /\ work_queue \in Seq(Pids)
  /\ disconnected_pids \subseteq Pids
  /\ worker \in [pc : {"Wait", "Scan", "Drain", "Notify", "Tick", "Finalize",
                       "Read", "Command", "Request", "Relock", "Exited"},
                 pid : Pids \union {NoPid}, todo : SUBSET Pids,
                 closed_by_peer : BOOLEAN, finishing : BOOLEAN,
                 finalized : BOOLEAN, detach_needed : BOOLEAN]
  /\ t1 \in BOOLEAN
  /\ dispatch \in [pc : {"Idle", "Create", "Respond"},
                   connection : Connections \union {NoConnection}]
  /\ shutdown \in {"no", "receiver", "exit", "joined"}
  /\ client \in [Connections -> {"new", "connected", "attached", "hung",
                                 "exited", "closed"}]
  /\ requests \in [Connections -> Nat]
  /\ responses \in [Connections -> Nat]
  /\ writing \in [Connections -> BOOLEAN]

Queued(p) == \E i \in DOMAIN work_queue : work_queue[i] = p

(* The work queue has every session that waits for a tick exactly once,    *)
(* and nothing else: pid_session_map_.at(pid) in RunWorkerThread finds the *)
(* session that was pushed, and no session with enqueued set is forgotten, *)
(* although a running session is marked and only pushed when its tick is   *)
(* over (EnqueueTickWhileLocked, ResetRunningWhileLocked).                 *)
QueueConsistent ==
  /\ \A i, j \in DOMAIN work_queue : work_queue[i] = work_queue[j] => i = j
  /\ shutdown # "joined" =>
       \A p \in Pids :
         /\ wrapper[p].running <=> worker.pid = p
         /\ Queued(p) <=> /\ p \in pid_session_map
                          /\ wrapper[p].enqueued /\ ~wrapper[p].running

(* The process of connection c has connected again.                        *)
Reconnected(c) ==
  \E d \in Connections :
    d > c /\ ClientPid[d] = ClientPid[c] /\ client[d] # "new"

(* The pointer that NotifyAcquireRequest uses is to a connection that the  *)
(* framework has not destroyed: disconnect_callback clears it, or it is    *)
(* not stored when the client was gone before its session was emplaced.    *)
(* There is one exception, a process that has connected again: see         *)
(* ConnectionAlive.                                                        *)
ConnectionOpen ==
  \A p \in pid_session_map :
    LET c == wrapper[p].connection IN
    c # NoConnection /\ client[c] = "closed" => Reconnected(c)

(* Without the exception: "Do not store &connection (may be already        *)
(* destroyed by the framework)" (message_passing_server.cpp:483).  A       *)
(* process that disconnects and connects again while the factory runs      *)
(* takes its pid off disconnected_pids_, and the old connection is stored. *)
ConnectionAlive ==
  \A p \in pid_session_map :
    wrapper[p].connection # NoConnection =>
      client[wrapper[p].connection] # "closed"

Responding(c) == dispatch.pc = "Respond" /\ dispatch.connection = c

Count(b) == IF b THEN 1 ELSE 0

(* Acquire requests, responses and unprocessed results of a session.       *)
Outstanding(p) ==
  LET c == wrapper[p].connection IN
  Count(session[p].data_acquired) +
    IF c = NoConnection THEN 0
    ELSE requests[c] + responses[c] + Count(Responding(c))

(* A session has at most one acquisition outstanding, and only while       *)
(* acquire_requested is set.  So no response overwrites a result that has  *)
(* not been read, or is wiped out when TryFinalizeAcquisition clears       *)
(* data_acquired after it has copied it without keeping the lock.          *)
OneAcquisition ==
  \A p \in pid_session_map :
    /\ Outstanding(p) <= 1
    /\ Outstanding(p) = 1 => session[p].acquire_requested

(* The dispatch thread takes mutex_ before command_data_                   *)
(* (OnAcquireResponse), the worker command_data_ before mutex_             *)
(* (RequestAcquire): they never wait for each other.                       *)
NoLockCycle ==
  ~ /\ dispatch.pc = "Respond" /\ worker.pc = "Request"
    /\ worker.pid \in pid_session_map
    /\ wrapper[worker.pid].connection = dispatch.connection

(* A session that the worker removes has read what its client has left     *)
(* behind (ProcessDetachedLogs), however the disconnect, the watchdog and  *)
(* a tick in progress meet.                                                *)
PostMortemRead ==
  [][\A p \in pid_session_map \ pid_session_map' :
       \/ session[p].detach_on_closed_processed
       \/ shutdown' = "joined"]_vars

Served(c) ==
  LET p == ClientPid[c] IN
  p \in pid_session_map /\ wrapper[p].connection = c /\ client[c] = "attached"

(* A client that answers is asked for its buffers again and again, and     *)
(* every acquisition is completed: the worker never waits for a client.    *)
KeepsAcquiring ==
  \A c \in Connections \ Hanging :
    LET asked == session[ClientPid[c]].acquire_requested IN
    /\ Served(c) /\ ~asked ~> ~Served(c) \/ asked \/ workers_exit
    /\ Served(c) /\ asked ~> ~Served(c) \/ ~asked \/ workers_exit

(* A session that is marked for delete is removed, also when the mark      *)
(* meets a tick in progress.                                               *)
MarkedIsRemoved ==
  \A p \in Pids :
    p \in pid_session_map /\ wrapper[p].to_delete ~> p \notin pid_session_map

(* The destructor ends: the worker is never left waiting, although         *)
(* workers_exit_ is set and notified without mutex_.                       *)
ShutdownEnds == shutdown = "receiver" ~> shutdown = "joined"

(* "A session is removed after a limited number of missed acquire          *)
(* deadlines" (docs/components/datarouter/detailed_design/index.rst).      *)
HungClientRemoved ==
  \A c \in Hanging : LET p == ClientPid[c] IN
    client[c] = "hung" /\ p \in pid_session_map /\ wrapper[p].connection = c
      ~> p \notin pid_session_map \/ wrapper[p].connection # c

(* acquire_requested is set, but there is nothing that could reset it.     *)
Stranded(p) ==
  /\ p \in pid_session_map /\ ~wrapper[p].to_delete
  /\ session[p].acquire_requested
  /\ Outstanding(p) = 0
  /\ ~wrapper[p].acquire_in_flight

(* "This is a transient condition - the watchdog will handle it if the     *)
(* client never responds" (message_passing_server.cpp, at ENOBUFS).        *)
SkippedRequestHandled ==
  \A p \in Pids : Stranded(p) ~> ~Stranded(p)

=============================================================================
