--------------------- MODULE MessagePassingServerProofs ---------------------
(***************************************************************************)
(* For every set of clients and connections, whatever the clients, the     *)
(* notify pool and the shutdown do: the work queue and the flags of the    *)
(* wrappers agree, a session keeps a closed connection only if its process *)
(* has connected again, a session has at most one acquisition outstanding, *)
(* the two threads never wait for each other, and a session is removed     *)
(* only after its buffers have been read.                                  *)
(***************************************************************************)
EXTENDS MessagePassingServer, SequenceTheorems, TLAPS

-----------------------------------------------------------------------------
(* The inductive invariant                                                 *)

Distinct(queue) == \A i, j \in DOMAIN queue : queue[i] = queue[j] => i = j

Members(queue) == {queue[i] : i \in DOMAIN queue}

WithoutTick == {"Wait", "Scan", "Drain", "Exited"}

(* Where the threads are.  A tick has a session of the map; a callback     *)
(* ends before the shutdown; a pid without a session has the initial       *)
(* wrapper and session.                                                    *)
PositionInv ==
  /\ worker.pid = NoPid <=> worker.pc \in WithoutTick
  /\ worker.pid # NoPid => worker.pid \in pid_session_map
  /\ worker.pid = NoPid => ~worker.finishing
  /\ worker.pc = "Scan" => worker.todo \subseteq pid_session_map
  /\ dispatch.pc # "Idle" => dispatch.connection \in Connections /\ shutdown = "no"
  /\ shutdown = "joined" => worker.pc = "Exited"
  /\ \A p \in Pids \ pid_session_map :
       wrapper[p] = NewWrapper(NoConnection) /\ session[p] = NewSession(NoConnection)

(* QueueConsistent without the map, which follows from PositionInv.        *)
QueueInv ==
  /\ Distinct(work_queue)
  /\ shutdown # "joined" =>
       \A p \in Pids :
         /\ wrapper[p].running <=> worker.pid = p
         /\ p \in Members(work_queue) <=> wrapper[p].enqueued /\ ~wrapper[p].running

Quiet(c) == requests[c] = 0 /\ responses[c] = 0

(* A session has a connection of its own pid, whose client has attached.   *)
(* While a session is being created, its connection has been asked for     *)
(* nothing.                                                                *)
ConnectionInv ==
  /\ \A p \in Pids : wrapper[p].connection # NoConnection =>
       /\ ClientPid[wrapper[p].connection] = p
       /\ client[wrapper[p].connection] \notin {"new", "connected"}
  /\ \A c \in Connections : client[c] \in {"new", "connected"} => Quiet(c)
  /\ dispatch.pc # "Idle" => client[dispatch.connection] \notin {"new", "connected"}
  /\ dispatch.pc = "Create" =>
       /\ Quiet(dispatch.connection)
       /\ wrapper[ClientPid[dispatch.connection]].connection # dispatch.connection

(* The process of connection c has connected again.                        *)
Followed(c, state) ==
  \E d \in Connections : d > c /\ ClientPid[d] = ClientPid[c] /\ state[d] # "new"

(* The connections of a process follow one another.  The disconnect of a   *)
(* client is seen by its session or, while that is being created, kept in  *)
(* disconnected_pids_, until the process connects again.                   *)
ClosedInv ==
  /\ \A c, d \in Connections :
       c < d /\ ClientPid[c] = ClientPid[d] /\ client[d] # "new" => client[c] = "closed"
  /\ \A p \in Pids :
       wrapper[p].connection # NoConnection /\ client[wrapper[p].connection] = "closed" =>
         Followed(wrapper[p].connection, client)
  /\ dispatch.pc = "Create" /\ client[dispatch.connection] = "closed" =>
       ClientPid[dispatch.connection] \in disconnected_pids \/ Followed(dispatch.connection, client)

Ticks(p, places) == worker.pid = p /\ worker.pc \in places

(* From the mark for delete to ProcessDetachedLogs: the mark is in the     *)
(* wrapper, on its way to the session, or has reached the session, which   *)
(* reads the rest in the tick it has reached it in.                        *)
Detach(p) ==
  /\ wrapper[p].to_delete =>
       \/ wrapper[p].closed_by_peer
       \/ Ticks(p, {"Notify"})
       \/ session[p].command_detach_on_closed
  /\ session[p].command_detach_on_closed =>
       session[p].detach_on_closed_processed \/ Ticks(p, {"Tick", "Finalize", "Read"})
  /\ worker.pid = p =>
       /\ worker.closed_by_peer /\ worker.pc # "Notify" => session[p].command_detach_on_closed
       /\ worker.finishing => session[p].command_detach_on_closed
       /\ worker.pc = "Command" =>
            (worker.detach_needed <=> session[p].command_detach_on_closed)
       /\ worker.pc = "Request" => ~session[p].command_detach_on_closed

(* The watchdog counts no miss of a session that it has given up.          *)
Misses(p) ==
  /\ wrapper[p].acquire_in_flight => wrapper[p].acquire_miss_count # MaxMisses
  /\ wrapper[p].acquire_miss_count = MaxMisses =>
       \/ wrapper[p].closed_by_peer /\ worker.pid # p
       \/ Ticks(p, {"Notify"})
       \/ session[p].command_detach_on_closed

MarkInv == \A p \in Pids : Detach(p) /\ Misses(p)

(* A connection has one request, one response on its way, or one response  *)
(* in its callback.                                                        *)
Load(c) == requests[c] + responses[c] <= 1 /\ (Responding(c) => Quiet(c))

Pending(c) == ~Quiet(c) \/ Responding(c)

(* What is pending, and a result that has not been read, belong to the     *)
(* request that acquire_requested stands for.                              *)
Acquisition(p) ==
  /\ wrapper[p].connection # NoConnection =>
       /\ Load(wrapper[p].connection)
       /\ Pending(wrapper[p].connection) =>
            session[p].acquire_requested /\ ~session[p].data_acquired
       /\ Ticks(p, {"Read", "Command"}) /\ worker.finalized => ~Pending(wrapper[p].connection)
  /\ session[p].data_acquired => session[p].acquire_requested
  /\ Ticks(p, {"Finalize"}) => session[p].data_acquired
  /\ Ticks(p, {"Read", "Command"}) /\ worker.finalized => ~session[p].data_acquired
  /\ Ticks(p, {"Request"}) => ~session[p].acquire_requested

AcquireInv == \A p \in Pids : Acquisition(p)

ServerInv ==
  /\ TypeOK /\ PositionInv /\ QueueInv /\ ConnectionInv /\ ClosedInv
  /\ MarkInv /\ AcquireInv

-----------------------------------------------------------------------------
(* Lemmas about the queue                                                  *)

(* Pushing a pid that is not queued keeps the entries distinct.            *)
LEMMA AppendedQueue ==
  ASSUME NEW S, NEW queue \in Seq(S), NEW p \in S, Distinct(queue), p \notin Members(queue)
  PROVE  /\ Append(queue, p) \in Seq(S)
         /\ Distinct(Append(queue, p))
         /\ Members(Append(queue, p)) = Members(queue) \union {p}
<1>1. /\ Append(queue, p) \in Seq(S)
      /\ Len(Append(queue, p)) = Len(queue) + 1
      /\ \A i \in 1 .. Len(queue) : Append(queue, p)[i] = queue[i]
      /\ Append(queue, p)[Len(queue) + 1] = p
  BY AppendProperties, SMTT(30), Z3T(30)
<1>2. /\ DOMAIN Append(queue, p) = 1 .. Len(queue) + 1
      /\ DOMAIN queue = 1 .. Len(queue)
      /\ Len(queue) \in Nat
  BY <1>1, LenProperties, ZenonT(30)
<1>3. QED
  BY <1>1, <1>2, SMTT(30), Z3T(30) DEF Distinct, Members

(* What is popped was queued, and is queued no longer.                     *)
LEMMA PoppedQueue ==
  ASSUME NEW S, NEW queue \in Seq(S), queue # <<>>, Distinct(queue)
  PROVE  /\ Head(queue) \in Members(queue) /\ Head(queue) \in S
         /\ Tail(queue) \in Seq(S)
         /\ Distinct(Tail(queue))
         /\ Members(Tail(queue)) = Members(queue) \ {Head(queue)}
<1>1. /\ Tail(queue) \in Seq(S) /\ Head(queue) \in S
      /\ Len(Tail(queue)) = Len(queue) - 1
      /\ \A i \in 1 .. Len(Tail(queue)) : Tail(queue)[i] = queue[i + 1]
  BY HeadTailProperties, ZenonT(30)
<1>2. /\ DOMAIN Tail(queue) = 1 .. Len(queue) - 1
      /\ DOMAIN queue = 1 .. Len(queue)
      /\ Len(queue) \in Nat \ {0}
      /\ Head(queue) = queue[1]
  BY <1>1, LenProperties, EmptySeq, SMTT(30), Z3T(30)
<1>3. Distinct(Tail(queue))
  BY <1>1, <1>2, SMTT(30), Z3T(30) DEF Distinct
<1>4. Members(Tail(queue)) \subseteq Members(queue) \ {Head(queue)}
  BY <1>1, <1>2, SMTT(30), Z3T(30) DEF Distinct, Members
<1>5. ASSUME NEW x \in Members(queue), x # Head(queue)
      PROVE  x \in Members(Tail(queue))
  <2>1. PICK i \in 1 .. Len(queue) : queue[i] = x
    BY <1>2, ZenonT(30) DEF Members
  <2>2. i - 1 \in DOMAIN Tail(queue) /\ Tail(queue)[i - 1] = x
    BY <1>1, <1>2, <1>5, <2>1, SMTT(30), Z3T(30)
  <2>3. QED
    BY <2>2, ZenonT(30) DEF Members
<1>6. Head(queue) \in Members(queue)
  BY <1>2, SMTT(30), Z3T(30) DEF Members
<1>7. QED
  BY <1>1, <1>3, <1>4, <1>5, <1>6, ZenonT(30)

-----------------------------------------------------------------------------
(* Lemmas about the records: what the operations leave of a wrapper and of *)
(* a session.                                                              *)

(* TryEnqueueForDelete.                                                    *)
LEMMA EnqueuedForDeleteFields ==
  ASSUME NEW w \in Wrapper
  PROVE  /\ EnqueuedForDelete(w) \in Wrapper
         /\ EnqueuedForDelete(w).enqueued <=> w.enqueued \/ ~w.running
         /\ EnqueuedForDelete(w).running <=> w.running
         /\ EnqueuedForDelete(w).to_delete
         /\ EnqueuedForDelete(w).closed_by_peer
         /\ EnqueuedForDelete(w).connection = w.connection
         /\ EnqueuedForDelete(w).acquire_miss_count = w.acquire_miss_count
         /\ EnqueuedForDelete(w).acquire_in_flight <=> w.acquire_in_flight
  BY ZenonT(30) DEF EnqueuedForDelete, Wrapper

(* EnqueueTickWhileLocked.                                                 *)
LEMMA EnqueuedTickFields ==
  ASSUME NEW w \in Wrapper
  PROVE  /\ EnqueuedTick(w) \in Wrapper
         /\ EnqueuedTick(w).enqueued <=> w.enqueued \/ ~w.to_delete
         /\ EnqueuedTick(w).running <=> w.running
         /\ EnqueuedTick(w).to_delete <=> w.to_delete
         /\ EnqueuedTick(w).closed_by_peer <=> w.closed_by_peer
         /\ EnqueuedTick(w).connection = w.connection
         /\ EnqueuedTick(w).acquire_miss_count = w.acquire_miss_count
         /\ EnqueuedTick(w).acquire_in_flight <=> w.acquire_in_flight
  BY ZenonT(30) DEF EnqueuedTick, Wrapper

(* A wrapper just constructed.                                             *)
LEMMA NewWrapperFields ==
  ASSUME NEW c \in Connections \union {NoConnection}
  PROVE  /\ NewWrapper(c) \in Wrapper
         /\ NewWrapper(c).connection = c
         /\ NewWrapper(c).acquire_miss_count = 0
         /\ ~NewWrapper(c).enqueued /\ ~NewWrapper(c).running
         /\ ~NewWrapper(c).to_delete /\ ~NewWrapper(c).closed_by_peer
         /\ ~NewWrapper(c).acquire_in_flight
  BY ServerAssumption, SMTT(30), Z3T(30) DEF NewWrapper, Wrapper

(* A missed deadline, below the limit.                                     *)
LEMMA AfterMissFields ==
  ASSUME NEW w \in Wrapper, w.acquire_miss_count < MaxMisses
  PROVE  /\ AfterMiss(w) \in Wrapper
         /\ AfterMiss(w).connection = w.connection
         /\ AfterMiss(w).acquire_miss_count = w.acquire_miss_count + 1
         /\ AfterMiss(w).enqueued <=> w.enqueued
         /\ AfterMiss(w).running <=> w.running
         /\ AfterMiss(w).to_delete <=> w.to_delete
         /\ AfterMiss(w).closed_by_peer <=> w.closed_by_peer
         /\ ~AfterMiss(w).acquire_in_flight
<1>1. w.acquire_miss_count + 1 \in 0 .. MaxMisses
  BY ServerAssumption, SMTT(30), Z3T(30) DEF Wrapper
<1>2. QED
  BY <1>1, ZenonT(30) DEF AfterMiss, Wrapper

(* disconnect_callback, before the mark.                                   *)
LEMMA DisconnectedFields ==
  ASSUME NEW w \in Wrapper,
         NEW v, v = [w EXCEPT !.connection = NoConnection, !.to_force_finish = TRUE]
  PROVE  /\ v \in Wrapper /\ v.connection = NoConnection
         /\ v.enqueued <=> w.enqueued
         /\ v.running <=> w.running
         /\ v.acquire_miss_count = w.acquire_miss_count
         /\ v.acquire_in_flight <=> w.acquire_in_flight
  BY ZenonT(30) DEF Wrapper

(* OnAcquireResponse, before the tick is enqueued.                         *)
LEMMA AnsweredFields ==
  ASSUME NEW w \in Wrapper,
         NEW v, v = [w EXCEPT !.acquire_in_flight = FALSE, !.acquire_deadline = "none", !.acquire_miss_count = 0]
  PROVE  /\ v \in Wrapper /\ v.connection = w.connection
         /\ v.enqueued <=> w.enqueued
         /\ v.running <=> w.running
         /\ v.to_delete <=> w.to_delete
         /\ v.closed_by_peer <=> w.closed_by_peer
         /\ v.acquire_miss_count = 0
         /\ ~v.acquire_in_flight
<1>1. 0 \in 0 .. MaxMisses
  BY ServerAssumption, SMTT(30), Z3T(30)
<1>2. QED
  BY <1>1, ZenonT(30) DEF Wrapper

(* SetRunningWhileLocked, and closed_by_peer taken.                        *)
LEMMA PoppedFields ==
  ASSUME NEW w \in Wrapper,
         NEW v, v = [w EXCEPT !.enqueued = FALSE, !.running = TRUE, !.closed_by_peer = FALSE]
  PROVE  /\ v \in Wrapper /\ v.connection = w.connection
         /\ ~v.enqueued /\ v.running /\ ~v.closed_by_peer
         /\ v.to_delete <=> w.to_delete
         /\ v.acquire_miss_count = w.acquire_miss_count
         /\ v.acquire_in_flight <=> w.acquire_in_flight
  BY ZenonT(30) DEF Wrapper

(* A request has been sent.                                                *)
LEMMA SentFields ==
  ASSUME NEW w \in Wrapper,
         NEW v, v = [w EXCEPT !.acquire_in_flight = TRUE, !.acquire_deadline = "running"]
  PROVE  /\ v \in Wrapper /\ v.connection = w.connection
         /\ v.enqueued <=> w.enqueued
         /\ v.running <=> w.running
         /\ v.to_delete <=> w.to_delete
         /\ v.closed_by_peer <=> w.closed_by_peer
         /\ v.acquire_miss_count = w.acquire_miss_count
  BY ZenonT(30) DEF Wrapper

(* NotifyOnClosedByPeer.                                                   *)
LEMMA DetachedFields ==
  ASSUME NEW s \in Session, NEW v, v = [s EXCEPT !.command_detach_on_closed = TRUE]
  PROVE  /\ v \in Session /\ v.command_detach_on_closed
         /\ v.acquire_requested <=> s.acquire_requested
         /\ v.data_acquired <=> s.data_acquired
         /\ v.detach_on_closed_processed <=> s.detach_on_closed_processed
  BY ZenonT(30) DEF Session

(* SourceSession::OnAcquireResponse.                                       *)
LEMMA RespondedFields ==
  ASSUME NEW s \in Session, NEW v, v = [s EXCEPT !.data_acquired = TRUE, !.block_expected_to_be_next = TRUE]
  PROVE  /\ v \in Session /\ v.data_acquired
         /\ v.command_detach_on_closed <=> s.command_detach_on_closed
         /\ v.acquire_requested <=> s.acquire_requested
         /\ v.detach_on_closed_processed <=> s.detach_on_closed_processed
  BY ZenonT(30) DEF Session

(* A session just constructed.                                             *)
LEMMA NewSessionFields ==
  ASSUME NEW c \in Connections \union {NoConnection}
  PROVE  /\ NewSession(c) \in Session
         /\ ~NewSession(c).command_detach_on_closed /\ ~NewSession(c).acquire_requested
         /\ ~NewSession(c).data_acquired /\ ~NewSession(c).detach_on_closed_processed
<1>1. 0 \in 0 .. TicksWithoutAcquire + 1
  BY ServerAssumption, SMTT(30), Z3T(30)
<1>2. QED
  BY <1>1, ZenonT(30) DEF NewSession, Session

-----------------------------------------------------------------------------
(* Effects: what the actions do to the wrapper and the session of one pid  *)

(* The wrapper of p after a step; the others are as before.                *)
WrapperIs(p, c, enqueued, running, to_delete, closed_by_peer) ==
  /\ wrapper' \in [Pids -> Wrapper]
  /\ \A q \in Pids \ {p} : wrapper'[q] = wrapper[q]
  /\ wrapper'[p].connection = c
  /\ wrapper'[p].enqueued <=> enqueued
  /\ wrapper'[p].running <=> running
  /\ wrapper'[p].to_delete <=> to_delete
  /\ wrapper'[p].closed_by_peer <=> closed_by_peer

(* The watchdog's counts of p are as before.                               *)
MissesKept(p) ==
  /\ wrapper'[p].acquire_miss_count = wrapper[p].acquire_miss_count
  /\ wrapper'[p].acquire_in_flight <=> wrapper[p].acquire_in_flight

PushedIfMarked(p) == work_queue' = Pushed(work_queue, p, wrapper[p], wrapper'[p])

(* The session of p after a step; the others are as before.                *)
SessionIs(p, detach, requested, acquired, processed) ==
  /\ session' \in [Pids -> Session]
  /\ \A q \in Pids \ {p} : session'[q] = session[q]
  /\ session'[p].command_detach_on_closed <=> detach
  /\ session'[p].acquire_requested <=> requested
  /\ session'[p].data_acquired <=> acquired
  /\ session'[p].detach_on_closed_processed <=> processed

(* A new wrapper of one session leaves the others.                         *)
LEMMA WrapperUpdate ==
  ASSUME TypeOK, NEW p \in Pids, NEW w \in Wrapper, wrapper' = [wrapper EXCEPT ![p] = w]
  PROVE  /\ wrapper' \in [Pids -> Wrapper] /\ wrapper'[p] = w
         /\ \A q \in Pids \ {p} : wrapper'[q] = wrapper[q]
  BY ZenonT(30) DEF TypeOK

(* A new state of one session leaves the others.                           *)
LEMMA SessionUpdate ==
  ASSUME TypeOK, NEW p \in Pids, NEW s \in Session, session' = [session EXCEPT ![p] = s]
  PROVE  /\ session' \in [Pids -> Session] /\ session'[p] = s
         /\ \A q \in Pids \ {p} : session'[q] = session[q]
  BY ZenonT(30) DEF TypeOK

(* disconnect_callback: the session loses its connection and is queued     *)
(* for its removal.                                                        *)
LEMMA DisconnectEffect ==
  ASSUME TypeOK, NEW c \in Connections, Disconnect(c),
         NEW p \in pid_session_map, p = ClientPid[c]
  PROVE  /\ WrapperIs(p, NoConnection, wrapper[p].enqueued \/ ~wrapper[p].running,
                      wrapper[p].running, TRUE, TRUE)
         /\ MissesKept(p) /\ PushedIfMarked(p)
<1> DEFINE v == [wrapper[p] EXCEPT !.connection = NoConnection, !.to_force_finish = TRUE]
           w == EnqueuedForDelete(v)
<1>1. p \in Pids /\ wrapper[p] \in Wrapper
  BY ZenonT(30) DEF TypeOK
<1>2. /\ v \in Wrapper /\ v.connection = NoConnection
      /\ v.enqueued <=> wrapper[p].enqueued
      /\ v.running <=> wrapper[p].running
      /\ v.acquire_miss_count = wrapper[p].acquire_miss_count
      /\ v.acquire_in_flight <=> wrapper[p].acquire_in_flight
  BY <1>1, DisconnectedFields, ZenonT(30)
<1>3. /\ wrapper' = [wrapper EXCEPT ![p] = w]
      /\ work_queue' = Pushed(work_queue, p, wrapper[p], w)
  BY ZenonT(30) DEF Disconnect, Enqueue
<1> HIDE DEF v
<1>4. /\ w \in Wrapper /\ w.connection = NoConnection
      /\ w.enqueued <=> wrapper[p].enqueued \/ ~wrapper[p].running
      /\ w.running <=> wrapper[p].running
      /\ w.to_delete /\ w.closed_by_peer
      /\ w.acquire_miss_count = wrapper[p].acquire_miss_count
      /\ w.acquire_in_flight <=> wrapper[p].acquire_in_flight
  BY <1>2, EnqueuedForDeleteFields, ZenonT(30)
<1> HIDE DEF w
<1>5. QED
  BY <1>1, <1>3, <1>4, WrapperUpdate, ZenonT(30)
  DEF WrapperIs, MissesKept, PushedIfMarked

(* OnConnectRequest: a new session with its first tick in the queue.       *)
LEMMA EmplaceEffect ==
  ASSUME TypeOK, EmplaceSession, NEW c \in Connections, c = dispatch.connection,
         NEW p \in Pids, p = ClientPid[c], p \notin disconnected_pids \union pid_session_map
  PROVE  /\ WrapperIs(p, c, TRUE, FALSE, FALSE, FALSE)
         /\ wrapper'[p].acquire_miss_count = 0 /\ ~wrapper'[p].acquire_in_flight
         /\ PushedIfMarked(p)
         /\ SessionIs(p, FALSE, FALSE, FALSE, FALSE)
         /\ pid_session_map' = pid_session_map \union {p}
<1> DEFINE v == NewWrapper(c)
           w == EnqueuedTick(v)
<1>1. /\ wrapper' = [wrapper EXCEPT ![p] = w]
      /\ work_queue' = Pushed(work_queue, p, wrapper[p], w)
      /\ session' = [session EXCEPT ![p] = NewSession(c)]
      /\ pid_session_map' = pid_session_map \union {p}
  BY ZenonT(30) DEF EmplaceSession, Enqueue
<1>6. /\ v \in Wrapper /\ v.connection = c
      /\ ~v.enqueued /\ ~v.running /\ ~v.to_delete /\ ~v.closed_by_peer
      /\ v.acquire_miss_count = 0 /\ ~v.acquire_in_flight
  BY NewWrapperFields, ZenonT(30)
<1> HIDE DEF v
<1>2. /\ w \in Wrapper /\ w.connection = c
      /\ w.enqueued /\ ~w.running /\ ~w.to_delete /\ ~w.closed_by_peer
      /\ w.acquire_miss_count = 0 /\ ~w.acquire_in_flight
  BY <1>6, EnqueuedTickFields, ZenonT(30)
<1> HIDE DEF w
<1>3. WrapperIs(p, c, TRUE, FALSE, FALSE, FALSE) /\ wrapper'[p] = w
  BY <1>1, <1>2, WrapperUpdate, ZenonT(30) DEF WrapperIs
<1>4. SessionIs(p, FALSE, FALSE, FALSE, FALSE)
  BY <1>1, NewSessionFields, SessionUpdate, ZenonT(30) DEF SessionIs
<1>5. QED
  BY <1>1, <1>2, <1>3, <1>4, ZenonT(30) DEF PushedIfMarked

(* OnAcquireResponse: the result is stored, the watchdog is reset and a    *)
(* tick is queued.                                                         *)
LEMMA ResponseEffect ==
  ASSUME TypeOK, OnAcquireResponse, NEW p \in pid_session_map,
         p = ClientPid[dispatch.connection], wrapper[p].connection = dispatch.connection
  PROVE  /\ WrapperIs(p, wrapper[p].connection, wrapper[p].enqueued \/ ~wrapper[p].to_delete,
                      wrapper[p].running, wrapper[p].to_delete,
                      wrapper[p].closed_by_peer)
         /\ wrapper'[p].acquire_miss_count = 0 /\ ~wrapper'[p].acquire_in_flight
         /\ PushedIfMarked(p)
         /\ SessionIs(p, session[p].command_detach_on_closed, session[p].acquire_requested,
                      TRUE, session[p].detach_on_closed_processed)
<1> DEFINE v == [wrapper[p] EXCEPT !.acquire_in_flight = FALSE, !.acquire_deadline = "none",
                                   !.acquire_miss_count = 0]
           w == EnqueuedTick(v)
           s == [session[p] EXCEPT !.data_acquired = TRUE, !.block_expected_to_be_next = TRUE]
<1>1. p \in Pids /\ wrapper[p] \in Wrapper /\ session[p] \in Session
  BY ZenonT(30) DEF TypeOK
<1>2. /\ v \in Wrapper /\ v.connection = wrapper[p].connection
      /\ v.enqueued <=> wrapper[p].enqueued
      /\ v.running <=> wrapper[p].running
      /\ v.to_delete <=> wrapper[p].to_delete
      /\ v.closed_by_peer <=> wrapper[p].closed_by_peer
      /\ v.acquire_miss_count = 0 /\ ~v.acquire_in_flight
  BY <1>1, AnsweredFields, ZenonT(30)
<1>3. /\ wrapper' = [wrapper EXCEPT ![p] = w]
      /\ work_queue' = Pushed(work_queue, p, wrapper[p], w)
      /\ session' = [session EXCEPT ![p] = s]
  BY <1>1, ZenonT(30) DEF OnAcquireResponse, Enqueue, TypeOK
<1> HIDE DEF v
<1>4. /\ w \in Wrapper /\ w.connection = wrapper[p].connection
      /\ w.enqueued <=> wrapper[p].enqueued \/ ~wrapper[p].to_delete
      /\ w.running <=> wrapper[p].running
      /\ w.to_delete <=> wrapper[p].to_delete
      /\ w.closed_by_peer <=> wrapper[p].closed_by_peer
      /\ w.acquire_miss_count = 0 /\ ~w.acquire_in_flight
  BY <1>2, EnqueuedTickFields, ZenonT(30)
<1>5. /\ s \in Session /\ s.data_acquired
      /\ s.command_detach_on_closed <=> session[p].command_detach_on_closed
      /\ s.acquire_requested <=> session[p].acquire_requested
      /\ s.detach_on_closed_processed <=> session[p].detach_on_closed_processed
  BY <1>1, RespondedFields, ZenonT(30)
<1> HIDE DEF w, s
<1>6. QED
  BY <1>1, <1>3, <1>4, <1>5, WrapperUpdate, SessionUpdate, ZenonT(60)
     DEF WrapperIs, SessionIs, PushedIfMarked

(* The periodic scan: a tick is queued, or the session is marked for       *)
(* delete, and a miss is counted at most up to the limit.                  *)
LEMMA ScanEffect ==
  ASSUME TypeOK, NEW p \in Pids, Misses(p), ScanSession(p)
  PROVE  /\ \/ WrapperIs(p, wrapper[p].connection, wrapper[p].enqueued \/ ~wrapper[p].to_delete,
                         wrapper[p].running, wrapper[p].to_delete,
                         wrapper[p].closed_by_peer)
            \/ WrapperIs(p, wrapper[p].connection, wrapper[p].enqueued \/ ~wrapper[p].running,
                         wrapper[p].running, TRUE, TRUE)
         /\ \/ MissesKept(p)
            \/ ~wrapper'[p].acquire_in_flight /\ wrapper'[p].acquire_miss_count # MaxMisses
            \/ ~wrapper'[p].acquire_in_flight /\ wrapper'[p].closed_by_peer
         /\ PushedIfMarked(p)
<1> DEFINE w == wrapper[p]
           v == Watched(session[p], w)
<1>1. w \in Wrapper /\ w.acquire_miss_count \in 0 .. MaxMisses
  BY ZenonT(30) DEF TypeOK, Wrapper
<1>2. wrapper' = [wrapper EXCEPT ![p] = v] /\ work_queue' = Pushed(work_queue, p, w, v)
  BY ZenonT(30) DEF ScanSession, Enqueue
<1> HIDE DEF v
<1>3. CASE session[p].detach_on_closed_processed
  <2>1. v = EnqueuedForDelete(w)
    BY <1>3, ZenonT(30) DEF Watched, v
  <2>2. v \in Wrapper
    BY <1>1, <2>1, EnqueuedForDeleteFields, ZenonT(30)
  <2>3. WrapperIs(p, w.connection, w.enqueued \/ ~w.running, w.running, TRUE, TRUE) /\ MissesKept(p)
    BY <1>1, <1>2, <2>1, <2>2, EnqueuedForDeleteFields, WrapperUpdate, ZenonT(30)
    DEF WrapperIs, MissesKept
  <2>4. QED
    BY <1>2, <2>2, <2>3, WrapperUpdate, ZenonT(30) DEF PushedIfMarked
<1>4. CASE ~session[p].detach_on_closed_processed /\ ~Missed(w)
  <2>1. v = EnqueuedTick(w)
    BY <1>4, ZenonT(30) DEF Watched, v
  <2>2. v \in Wrapper
    BY <1>1, <2>1, EnqueuedTickFields, ZenonT(30)
  <2>3. /\ WrapperIs(p, w.connection, w.enqueued \/ ~w.to_delete, w.running, w.to_delete, w.closed_by_peer)
        /\ MissesKept(p)
    BY <1>1, <1>2, <2>1, <2>2, EnqueuedTickFields, WrapperUpdate, ZenonT(30)
    DEF WrapperIs, MissesKept
  <2>4. QED
    BY <1>2, <2>2, <2>3, WrapperUpdate, ZenonT(30) DEF PushedIfMarked
<1>5. CASE ~session[p].detach_on_closed_processed /\ Missed(w)
  <2> DEFINE m == AfterMiss(w)
  <2>1. w.acquire_miss_count # MaxMisses
    BY <1>5, ZenonT(30) DEF Misses, Missed
  <2>2. w.acquire_miss_count < MaxMisses
    BY <1>1, <2>1, ServerAssumption, SMTT(30), Z3T(30)
  <2>3. m \in Wrapper /\ m.acquire_miss_count = w.acquire_miss_count + 1
    BY <1>1, <2>2, AfterMissFields, ZenonT(30)
  <2>4. /\ ~m.acquire_in_flight /\ m.connection = w.connection
        /\ m.enqueued <=> w.enqueued
        /\ m.running <=> w.running
        /\ m.to_delete <=> w.to_delete
        /\ m.closed_by_peer <=> w.closed_by_peer
    BY <1>1, <2>2, AfterMissFields, ZenonT(30)
  <2> HIDE DEF m
  <2>5. CASE w.acquire_miss_count + 1 >= MaxMisses
    <3>1. v = EnqueuedForDelete(m)
      BY <1>5, <2>5, ZenonT(30) DEF Watched, v, m
    <3>2. /\ v \in Wrapper /\ v.connection = w.connection
          /\ v.enqueued <=> w.enqueued \/ ~w.running
          /\ v.running <=> w.running
          /\ v.to_delete /\ v.closed_by_peer /\ ~v.acquire_in_flight
      BY <2>3, <2>4, <3>1, EnqueuedForDeleteFields, ZenonT(30)
    <3>3. /\ WrapperIs(p, w.connection, w.enqueued \/ ~w.running, w.running, TRUE, TRUE)
          /\ ~wrapper'[p].acquire_in_flight /\ wrapper'[p].closed_by_peer
      BY <1>2, <3>2, WrapperUpdate, ZenonT(30) DEF WrapperIs
    <3>4. QED
      BY <1>2, <3>2, <3>3, WrapperUpdate, ZenonT(30) DEF PushedIfMarked
  <2>6. CASE ~(w.acquire_miss_count + 1 >= MaxMisses)
    <3>1. v = EnqueuedTick(m)
      BY <1>5, <2>6, ZenonT(30) DEF Watched, v, m
    <3>2. /\ v \in Wrapper /\ v.connection = w.connection
          /\ v.enqueued <=> w.enqueued \/ ~w.to_delete
          /\ v.running <=> w.running
          /\ v.to_delete <=> w.to_delete
          /\ v.closed_by_peer <=> w.closed_by_peer
          /\ ~v.acquire_in_flight /\ v.acquire_miss_count = m.acquire_miss_count
      BY <2>3, <2>4, <3>1, EnqueuedTickFields, ZenonT(30)
    <3>3. m.acquire_miss_count # MaxMisses
      BY <1>1, <2>3, <2>6, ServerAssumption, SMTT(30), Z3T(30)
    <3>4. /\ WrapperIs(p, w.connection, w.enqueued \/ ~w.to_delete, w.running, w.to_delete, w.closed_by_peer)
          /\ ~wrapper'[p].acquire_in_flight /\ wrapper'[p].acquire_miss_count # MaxMisses
      BY <1>2, <3>2, <3>3, WrapperUpdate, ZenonT(30) DEF WrapperIs
    <3>5. QED
      BY <1>2, <3>2, <3>4, WrapperUpdate, ZenonT(30) DEF PushedIfMarked
  <2>7. QED
    BY <2>5, <2>6, ZenonT(30)
<1>6. QED
  BY <1>3, <1>4, <1>5, ZenonT(30)

(* The worker takes the session at the head of the queue and its mark.     *)
LEMMA PopEffect ==
  ASSUME TypeOK, PopTick, NEW p \in Pids, p = Head(work_queue)
  PROVE  /\ WrapperIs(p, wrapper[p].connection, FALSE, TRUE, wrapper[p].to_delete, FALSE)
         /\ MissesKept(p)
         /\ worker'.pid = p
         /\ worker'.pc = IF wrapper[p].closed_by_peer THEN "Notify" ELSE "Tick"
         /\ worker'.closed_by_peer <=> wrapper[p].closed_by_peer
         /\ worker'.finishing <=> worker.finishing
<1> DEFINE w == [wrapper[p] EXCEPT !.enqueued = FALSE, !.running = TRUE, !.closed_by_peer = FALSE]
<1>1. wrapper[p] \in Wrapper
  BY ZenonT(30) DEF TypeOK
<1>2. wrapper' = [wrapper EXCEPT ![p] = w]
  BY <1>1, ZenonT(30) DEF PopTick, TypeOK
<1>3. /\ w \in Wrapper /\ w.connection = wrapper[p].connection
      /\ ~w.enqueued /\ w.running /\ ~w.closed_by_peer
      /\ w.to_delete <=> wrapper[p].to_delete
      /\ w.acquire_miss_count = wrapper[p].acquire_miss_count
      /\ w.acquire_in_flight <=> wrapper[p].acquire_in_flight
  BY <1>1, PoppedFields, ZenonT(30)
<1> HIDE DEF w
<1>4. /\ WrapperIs(p, wrapper[p].connection, FALSE, TRUE, wrapper[p].to_delete, FALSE)
      /\ MissesKept(p)
  BY <1>2, <1>3, WrapperUpdate, ZenonT(30) DEF WrapperIs, MissesKept
<1>5. /\ worker'.pid = p
      /\ worker'.pc = IF wrapper[p].closed_by_peer THEN "Notify" ELSE "Tick"
      /\ worker'.closed_by_peer <=> wrapper[p].closed_by_peer
      /\ worker'.finishing <=> worker.finishing
  BY ZenonT(30) DEF PopTick, TypeOK
<1>6. QED
  BY <1>4, <1>5, ZenonT(30)

(* NotifyAcquireRequest: the request is in flight, the misses stay.        *)
LEMMA SendEffect ==
  ASSUME TypeOK, SendRequest, NEW p \in Pids, p = worker.pid, ~wrapper[p].acquire_in_flight
  PROVE  /\ WrapperIs(p, wrapper[p].connection, wrapper[p].enqueued, wrapper[p].running,
                      wrapper[p].to_delete, wrapper[p].closed_by_peer)
         /\ wrapper'[p].acquire_miss_count = wrapper[p].acquire_miss_count
<1> DEFINE w == [wrapper[p] EXCEPT !.acquire_in_flight = TRUE, !.acquire_deadline = "running"]
<1>1. wrapper[p] \in Wrapper
  BY ZenonT(30) DEF TypeOK
<1>2. wrapper' = [wrapper EXCEPT ![p] = w]
  BY <1>1, ZenonT(30) DEF SendRequest, TypeOK
<1>3. /\ w \in Wrapper /\ w.connection = wrapper[p].connection
      /\ w.enqueued <=> wrapper[p].enqueued
      /\ w.running <=> wrapper[p].running
      /\ w.to_delete <=> wrapper[p].to_delete
      /\ w.closed_by_peer <=> wrapper[p].closed_by_peer
      /\ w.acquire_miss_count = wrapper[p].acquire_miss_count
  BY <1>1, SentFields, ZenonT(30)
<1> HIDE DEF w
<1>4. QED
  BY <1>2, <1>3, WrapperUpdate, ZenonT(30) DEF WrapperIs

(* A failed Notify(): the session is marked for delete.                    *)
LEMMA NotifyFailedEffect ==
  ASSUME TypeOK, NotifyFailed, NEW p \in Pids, p = worker.pid
  PROVE  /\ WrapperIs(p, wrapper[p].connection, wrapper[p].enqueued \/ ~wrapper[p].running,
                      wrapper[p].running, TRUE, TRUE)
         /\ MissesKept(p) /\ PushedIfMarked(p)
<1> DEFINE w == EnqueuedForDelete(wrapper[p])
<1>1. wrapper[p] \in Wrapper
  BY ZenonT(30) DEF TypeOK
<1>2. wrapper' = [wrapper EXCEPT ![p] = w] /\ work_queue' = Pushed(work_queue, p, wrapper[p], w)
  BY ZenonT(30) DEF NotifyFailed, Enqueue
<1>3. /\ w \in Wrapper /\ w.connection = wrapper[p].connection
      /\ w.enqueued <=> wrapper[p].enqueued \/ ~wrapper[p].running
      /\ w.running <=> wrapper[p].running
      /\ w.to_delete /\ w.closed_by_peer
      /\ w.acquire_miss_count = wrapper[p].acquire_miss_count
      /\ w.acquire_in_flight <=> wrapper[p].acquire_in_flight
  BY <1>1, EnqueuedForDeleteFields, ZenonT(30)
<1> HIDE DEF w
<1>4. QED
  BY <1>2, <1>3, WrapperUpdate, ZenonT(30) DEF WrapperIs, MissesKept, PushedIfMarked

(* RequeueTick and TickEnd differ in the flag that they leave.             *)
LEMMA TickedEffect ==
  ASSUME TypeOK, NEW p \in Pids, p = worker.pid,
         RequeueTick \/ (TickEnd /\ ~wrapper[p].enqueued)
  PROVE  /\ WrapperIs(p, wrapper[p].connection, RequeueTick, FALSE, wrapper[p].to_delete,
                      wrapper[p].closed_by_peer)
         /\ MissesKept(p)
<1>1. wrapper[p] \in Wrapper
  BY ZenonT(30) DEF TypeOK
<1>2. ASSUME NEW again \in BOOLEAN,
             wrapper' = [wrapper EXCEPT ![p] = [wrapper[p] EXCEPT !.running = FALSE, !.enqueued = again]]
      PROVE  /\ WrapperIs(p, wrapper[p].connection, again, FALSE, wrapper[p].to_delete,
                          wrapper[p].closed_by_peer)
             /\ MissesKept(p)
  <2> DEFINE w == [wrapper[p] EXCEPT !.running = FALSE, !.enqueued = again]
  <2>1. wrapper' = [wrapper EXCEPT ![p] = w] /\ w = [wrapper[p] EXCEPT !.running = FALSE, !.enqueued = again]
    BY <1>2, ZenonT(30)
  <2> HIDE DEF w
  <2>2. /\ w \in Wrapper /\ w.connection = wrapper[p].connection
        /\ w.enqueued = again
        /\ ~w.running
        /\ w.to_delete <=> wrapper[p].to_delete
        /\ w.closed_by_peer <=> wrapper[p].closed_by_peer
        /\ w.acquire_miss_count = wrapper[p].acquire_miss_count
        /\ w.acquire_in_flight <=> wrapper[p].acquire_in_flight
    BY <1>1, <2>1, ZenonT(30) DEF Wrapper
  <2>3. QED
    BY <2>1, <2>2, WrapperUpdate, ZenonT(30) DEF WrapperIs, MissesKept
<1>3. CASE RequeueTick
  <2>1. wrapper' = [wrapper EXCEPT ![p] = [wrapper[p] EXCEPT !.running = FALSE, !.enqueued = TRUE]]
    BY <1>1, <1>3, ZenonT(30) DEF RequeueTick, TypeOK
  <2>2. QED
    BY <1>2, <1>3, <2>1, ZenonT(30) DEF WrapperIs
<1>4. CASE TickEnd /\ ~wrapper[p].enqueued
  <2>1. [wrapper[p] EXCEPT !.running = FALSE] = [wrapper[p] EXCEPT !.running = FALSE, !.enqueued = FALSE]
    BY <1>1, <1>4, ZenonT(30) DEF Wrapper
  <2>2. wrapper' = [wrapper EXCEPT ![p] = [wrapper[p] EXCEPT !.running = FALSE, !.enqueued = FALSE]]
    BY <1>1, <1>4, <2>1, ZenonT(30) DEF TickEnd, TypeOK
  <2>3. ~RequeueTick
    BY <1>4, ZenonT(30) DEF RequeueTick, TickEnd
  <2>4. QED
    BY <1>2, <2>2, <2>3, ZenonT(30) DEF WrapperIs
<1>5. QED
  BY <1>3, <1>4, ZenonT(30)

(* The deadline of a request changes nothing but the deadline.             *)
LEMMA DeadlineEffect ==
  ASSUME TypeOK, NEW p \in Pids, DeadlineOver(p)
  PROVE  /\ WrapperIs(p, wrapper[p].connection, wrapper[p].enqueued, wrapper[p].running,
                      wrapper[p].to_delete, wrapper[p].closed_by_peer)
         /\ MissesKept(p)
  BY ZenonT(60) DEF DeadlineOver, TypeOK, Wrapper, WrapperIs, MissesKept

(* A removed session leaves the initial wrapper and session.               *)
LEMMA RemoveEffect ==
  ASSUME TypeOK, RemoveSession, NEW p \in Pids, p = worker.pid
  PROVE  /\ WrapperIs(p, NoConnection, FALSE, FALSE, FALSE, FALSE)
         /\ wrapper'[p].acquire_miss_count = 0 /\ ~wrapper'[p].acquire_in_flight
         /\ SessionIs(p, FALSE, FALSE, FALSE, FALSE)
<1> DEFINE w == NewWrapper(NoConnection)
           s == NewSession(NoConnection)
<1>1. wrapper' = [wrapper EXCEPT ![p] = w] /\ session' = [session EXCEPT ![p] = s]
  BY ZenonT(30) DEF RemoveSession
<1>2. /\ w \in Wrapper /\ w.connection = NoConnection /\ w.acquire_miss_count = 0
      /\ ~w.enqueued /\ ~w.running /\ ~w.to_delete /\ ~w.closed_by_peer /\ ~w.acquire_in_flight
      /\ s \in Session /\ ~s.command_detach_on_closed /\ ~s.acquire_requested
      /\ ~s.data_acquired /\ ~s.detach_on_closed_processed
  BY NewWrapperFields, NewSessionFields, ZenonT(30)
<1> HIDE DEF w, s
<1>3. QED
  BY <1>1, <1>2, WrapperUpdate, SessionUpdate, ZenonT(30)
  DEF WrapperIs, SessionIs

(* The worker goes on with its tick, which keeps these locals.             *)
MovesTo(pc) ==
  /\ worker'.pc = pc /\ worker'.pid = worker.pid
  /\ worker'.closed_by_peer <=> worker.closed_by_peer
  /\ worker'.finishing <=> worker.finishing

(* A step that changes none of these flags of the session.                 *)
SameSession(p) ==
  SessionIs(p, session[p].command_detach_on_closed, session[p].acquire_requested,
            session[p].data_acquired, session[p].detach_on_closed_processed)

(* OnClosedByPeer: the command to detach has reached the session.          *)
LEMMA DetachEffect ==
  ASSUME TypeOK, NotifyClosedByPeer \/ ForceFinish, NEW p \in Pids, p = worker.pid
  PROVE  /\ SessionIs(p, TRUE, session[p].acquire_requested, session[p].data_acquired,
                      session[p].detach_on_closed_processed)
         /\ worker'.pc = "Tick" /\ worker'.pid = p
         /\ worker'.closed_by_peer <=> worker.closed_by_peer
<1> DEFINE s == [session[p] EXCEPT !.command_detach_on_closed = TRUE]
<1>1. session[p] \in Session
  BY ZenonT(30) DEF TypeOK
<1>2. session' = [session EXCEPT ![p] = s]
  BY <1>1, ZenonT(30) DEF NotifyClosedByPeer, ForceFinish, TypeOK
<1>3. /\ s \in Session /\ s.command_detach_on_closed
      /\ s.acquire_requested <=> session[p].acquire_requested
      /\ s.data_acquired <=> session[p].data_acquired
      /\ s.detach_on_closed_processed <=> session[p].detach_on_closed_processed
  BY <1>1, DetachedFields, ZenonT(30)
<1> HIDE DEF s
<1>4. /\ worker'.pc = "Tick" /\ worker'.pid = p
      /\ worker'.closed_by_peer <=> worker.closed_by_peer
  BY ZenonT(30) DEF NotifyClosedByPeer, ForceFinish, TypeOK
<1>5. QED
  BY <1>2, <1>3, <1>4, SessionUpdate, ZenonT(30) DEF SessionIs

(* TryFinalizeAcquisition: the result goes when its block is released.     *)
LEMMA FinalizeEffect ==
  ASSUME TypeOK, FinalizeAcquisition, NEW p \in Pids, p = worker.pid
  PROVE  /\ SessionIs(p, session[p].command_detach_on_closed, session[p].acquire_requested,
                      session[p].data_acquired /\ ~BlockReleased(p),
                      session[p].detach_on_closed_processed)
         /\ MovesTo("Read")
         /\ worker'.finalized <=> BlockReleased(p)
<1> DEFINE left == session[p].data_acquired /\ ~BlockReleased(p)
           s == [session[p] EXCEPT !.data_acquired = left]
<1>1. session[p] \in Session
  BY ZenonT(30) DEF TypeOK
<1>2. session' = [session EXCEPT ![p] = s]
  BY <1>1, ZenonT(30) DEF FinalizeAcquisition, TypeOK
<1>3. left \in BOOLEAN /\ s = [session[p] EXCEPT !.data_acquired = left]
  BY ZenonT(30)
<1> HIDE DEF s, left
<1>4. /\ s \in Session /\ s.data_acquired = left
      /\ s.command_detach_on_closed <=> session[p].command_detach_on_closed
      /\ s.acquire_requested <=> session[p].acquire_requested
      /\ s.detach_on_closed_processed <=> session[p].detach_on_closed_processed
  BY <1>1, <1>3, ZenonT(30) DEF Session
<1>5. SessionIs(p, session[p].command_detach_on_closed, session[p].acquire_requested, left,
                session[p].detach_on_closed_processed)
  BY <1>2, <1>4, SessionUpdate, ZenonT(30) DEF SessionIs
<1>6. MovesTo("Read") /\ (worker'.finalized <=> BlockReleased(p))
  BY ZenonT(30) DEF FinalizeAcquisition, TypeOK, MovesTo
<1>7. QED
  BY <1>5, <1>6, ZenonT(30) DEF left

(* Reading the buffers: a session told to detach has processed its rest.   *)
LEMMA ReadEffect ==
  ASSUME TypeOK, ReadBuffers, NEW p \in Pids, p = worker.pid
  PROVE  /\ SessionIs(p, session[p].command_detach_on_closed, session[p].acquire_requested,
                      session[p].data_acquired,
                      session[p].detach_on_closed_processed \/ session[p].command_detach_on_closed)
         /\ MovesTo("Command")
         /\ worker'.finalized <=> worker.finalized
         /\ worker'.detach_needed <=> session[p].command_detach_on_closed
<1> DEFINE done == session[p].detach_on_closed_processed \/ session[p].command_detach_on_closed
           s == [session[p] EXCEPT !.detach_on_closed_processed = done]
<1>1. session[p] \in Session
  BY ZenonT(30) DEF TypeOK
<1>2. session' = [session EXCEPT ![p] = s]
  BY <1>1, ZenonT(30) DEF ReadBuffers, TypeOK
<1>3. done \in BOOLEAN /\ s = [session[p] EXCEPT !.detach_on_closed_processed = done]
  BY ZenonT(30)
<1> HIDE DEF s, done
<1>4. /\ s \in Session /\ s.detach_on_closed_processed = done
      /\ s.command_detach_on_closed <=> session[p].command_detach_on_closed
      /\ s.acquire_requested <=> session[p].acquire_requested
      /\ s.data_acquired <=> session[p].data_acquired
  BY <1>1, <1>3, ZenonT(30) DEF Session
<1>5. SessionIs(p, session[p].command_detach_on_closed, session[p].acquire_requested,
                session[p].data_acquired, done)
  BY <1>2, <1>4, SessionUpdate, ZenonT(30) DEF SessionIs
<1>6. /\ MovesTo("Command")
      /\ worker'.finalized <=> worker.finalized
      /\ worker'.detach_needed <=> session[p].command_detach_on_closed
  BY ZenonT(30) DEF ReadBuffers, TypeOK, MovesTo
<1>7. QED
  BY <1>5, <1>6, ZenonT(30) DEF done

(* The end of an acquisition: the session may ask again.                   *)
LEMMA DoneEffect ==
  ASSUME TypeOK, AcquisitionDone, NEW p \in Pids, p = worker.pid
  PROVE  /\ SessionIs(p, session[p].command_detach_on_closed, FALSE, session[p].data_acquired,
                      session[p].detach_on_closed_processed)
         /\ MovesTo("Relock")
<1> DEFINE s == [session[p] EXCEPT !.acquire_requested = FALSE, !.ticks_without_write = 0]
<1>1. session[p] \in Session /\ 0 \in 0 .. TicksWithoutAcquire + 1
  BY ServerAssumption, SMTT(30), Z3T(30) DEF TypeOK
<1>2. session' = [session EXCEPT ![p] = s]
  BY <1>1, ZenonT(30) DEF AcquisitionDone, TypeOK
<1>3. /\ s \in Session /\ ~s.acquire_requested
      /\ s.command_detach_on_closed <=> session[p].command_detach_on_closed
      /\ s.data_acquired <=> session[p].data_acquired
      /\ s.detach_on_closed_processed <=> session[p].detach_on_closed_processed
  BY <1>1, ZenonT(30) DEF Session
<1> HIDE DEF s
<1>4. MovesTo("Relock")
  BY ZenonT(30) DEF AcquisitionDone, TypeOK, MovesTo
<1>5. QED
  BY <1>2, <1>3, <1>4, SessionUpdate, ZenonT(30) DEF SessionIs

(* A request that is put off changes no flag of the session.               *)
LEMMA PostponeEffect ==
  ASSUME TypeOK, PostponeRequest, NEW p \in Pids, p = worker.pid
  PROVE  SameSession(p) /\ MovesTo("Relock")
<1> DEFINE n == session[p].ticks_without_write + 1
           s == [session[p] EXCEPT !.ticks_without_write = n]
<1>1. session[p] \in Session
  BY ZenonT(30) DEF TypeOK
<1>2. session' = [session EXCEPT ![p] = s]
  BY <1>1, ZenonT(30) DEF PostponeRequest, TypeOK
<1>3. n \in 0 .. TicksWithoutAcquire + 1
  BY <1>1, ServerAssumption, SMTT(30), Z3T(30) DEF PostponeRequest, Session
<1> HIDE DEF n
<1>4. /\ s \in Session
      /\ s.acquire_requested <=> session[p].acquire_requested
      /\ s.command_detach_on_closed <=> session[p].command_detach_on_closed
      /\ s.data_acquired <=> session[p].data_acquired
      /\ s.detach_on_closed_processed <=> session[p].detach_on_closed_processed
  BY <1>1, <1>3, ZenonT(30) DEF Session
<1> HIDE DEF s
<1>5. MovesTo("Relock")
  BY ZenonT(30) DEF PostponeRequest, TypeOK, MovesTo
<1>6. QED
  BY <1>2, <1>4, <1>5, SessionUpdate, ZenonT(30) DEF SessionIs, SameSession

(* acquire_requested is what NotifyAcquireRequest has returned.            *)
LEMMA RequestedEffect ==
  ASSUME TypeOK, NEW result \in BOOLEAN, Requested(result), NEW p \in Pids, p = worker.pid
  PROVE  /\ SessionIs(p, session[p].command_detach_on_closed, result, session[p].data_acquired,
                      session[p].detach_on_closed_processed)
         /\ MovesTo("Relock")
<1> DEFINE s == [session[p] EXCEPT !.acquire_requested = result]
<1>1. session[p] \in Session
  BY ZenonT(30) DEF TypeOK
<1>2. session' = [session EXCEPT ![p] = s]
  BY <1>1, ZenonT(30) DEF Requested, TypeOK
<1>3. /\ s \in Session /\ s.acquire_requested = result
      /\ s.command_detach_on_closed <=> session[p].command_detach_on_closed
      /\ s.data_acquired <=> session[p].data_acquired
      /\ s.detach_on_closed_processed <=> session[p].detach_on_closed_processed
  BY <1>1, ZenonT(30) DEF Session
<1> HIDE DEF s
<1>4. MovesTo("Relock")
  BY ZenonT(30) DEF Requested, TypeOK, MovesTo
<1>5. QED
  BY <1>2, <1>3, <1>4, SessionUpdate, ZenonT(30) DEF SessionIs

-----------------------------------------------------------------------------
(* Every step keeps the types                                              *)

(* The type of worker.                                                     *)
WorkerRecord ==
  [pc : {"Wait", "Scan", "Drain", "Notify", "Tick", "Finalize",
         "Read", "Command", "Request", "Relock", "Exited"},
   pid : Pids \union {NoPid}, todo : SUBSET Pids,
   closed_by_peer : BOOLEAN, finishing : BOOLEAN,
   finalized : BOOLEAN, detach_needed : BOOLEAN]

(* Every step keeps the type of the worker's locals.                       *)
LEMMA WorkerTyped ==
  ASSUME ServerInv, Next
  PROVE  worker' \in WorkerRecord
<1> USE DEF ServerInv
<1>0. worker \in WorkerRecord /\ pid_session_map \subseteq Pids
  BY ZenonT(30) DEF TypeOK, WorkerRecord
<1>1. ASSUME NEW c \in Connections, ClientStep(c) PROVE worker' = worker
  BY <1>1, ZenonT(30)
  DEF ClientStep, Answer, WritersRelease, Hang, Exit, threads
<1>2. CASE DispatchStep \/ Destructor \/ Time
  BY <1>0, <1>2, ZenonT(30)
     DEF DispatchStep, Destructor, Time, Connect, CreateSession, Disconnect,
         StartResponse,
         CreateFailed, EmplaceSession, OnAcquireResponse, ResetReceiver,
         ExitWorkers,
         ClearSessions, PeriodOver, DeadlineOver, threads
<1>3. CASE WakeUp
  BY <1>0, <1>3, ZenonT(30) DEF WakeUp, WorkerRecord
<1>4. ASSUME NEW p \in Pids, ScanSession(p) PROVE worker' \in WorkerRecord
  BY <1>0, <1>4, ZenonT(30) DEF ScanSession, WorkerRecord
<1>5. CASE PopTick
  <2>1. Head(work_queue) \in Pids
    BY <1>5, HeadTailProperties, ZenonT(30) DEF PopTick, TypeOK
  <2>2. wrapper[Head(work_queue)].closed_by_peer \in BOOLEAN
    BY <2>1, ZenonT(30) DEF TypeOK, Wrapper
  <2>3. QED
    BY <1>0, <1>5, <2>1, <2>2, ZenonT(30) DEF PopTick, WorkerRecord
<1>6. CASE DrainEnd \/ NotifyClosedByPeer \/ StartTick \/ DecideRequest
  BY <1>0, <1>6, ZenonT(30)
  DEF DrainEnd, NotifyClosedByPeer, StartTick, DecideRequest, WorkerRecord
<1>7. CASE FinalizeAcquisition
  BY <1>0, <1>7, ZenonT(30) DEF FinalizeAcquisition, BlockReleased, WorkerRecord
<1>8. CASE ReadBuffers
  <2>1. worker.pid \in Pids
    BY <1>0, <1>8, ZenonT(30) DEF ReadBuffers, PositionInv, WithoutTick
  <2>2. session[worker.pid].command_detach_on_closed \in BOOLEAN
    BY <2>1, ZenonT(30) DEF TypeOK, Session
  <2>3. QED
    BY <1>0, <1>8, <2>2, ZenonT(30) DEF ReadBuffers, WorkerRecord
<1>9. CASE AcquisitionDone \/ NothingToRequest \/ PostponeRequest
  BY <1>0, <1>9, ZenonT(30)
  DEF AcquisitionDone, NothingToRequest, PostponeRequest, WorkerRecord
<1>10. CASE RequestRefused \/ SendRequest \/ NotifyPoolExhausted \/ NotifyFailed
  BY <1>0, <1>10, ZenonT(30)
  DEF RequestRefused, SendRequest, NotifyPoolExhausted, NotifyFailed,
                            Requested, WorkerRecord
<1>11. CASE ForceFinish \/ WorkerExit
  BY <1>0, <1>11, ZenonT(30) DEF ForceFinish, WorkerExit, WorkerRecord
<1>12. CASE RequeueTick \/ RemoveSession \/ TickEnd
  <2>1. WorkerAt("Drain") \in WorkerRecord
    BY ZenonT(30) DEF WorkerAt, WorkerRecord
  <2>2. QED
    BY <1>12, <2>1, ZenonT(30) DEF RequeueTick, RemoveSession, TickEnd
<1>13. QED
  BY <1>0, <1>1, <1>2, <1>3, <1>4, <1>5, <1>6, <1>7, <1>8, <1>9, <1>10, <1>11,
     <1>12, ZenonT(30)
     DEF Next, WorkerStep, Tick

(* A worker in a tick has a session of the map.                            *)
LEMMA TickPid ==
  ASSUME ServerInv, worker.pc \notin WithoutTick
  PROVE  worker.pid \in pid_session_map /\ worker.pid \in Pids
  BY ZenonT(30) DEF ServerInv, PositionInv, TypeOK

(* The variables with records: the wrappers and the sessions.              *)
LEMMA RecordsTyped ==
  ASSUME ServerInv, Next
  PROVE  wrapper' \in [Pids -> Wrapper] /\ session' \in [Pids -> Session]
<1> DEFINE Goal == wrapper' \in [Pids -> Wrapper] /\ session' \in [Pids -> Session]
           p == worker.pid
<1>0. TypeOK /\ wrapper \in [Pids -> Wrapper] /\ session \in [Pids -> Session]
  BY ZenonT(30) DEF ServerInv, TypeOK
<1>1. ASSUME UNCHANGED <<wrapper, session>> PROVE Goal
  BY <1>0, <1>1, ZenonT(30)
<1>2. ASSUME NEW c \in Connections, ClientStep(c) \/ Connect(c) \/ CreateSession(c) \/ StartResponse(c)
      PROVE  Goal
  BY <1>1, <1>2, ZenonT(30)
  DEF ClientStep, Answer, WritersRelease, Hang, Exit, Connect, CreateSession,
                                StartResponse, server
<1>3. ASSUME NEW c \in Connections, Disconnect(c) PROVE Goal
  <2>1. CASE ClientPid[c] \in pid_session_map
    BY <1>0, <1>3, <2>1, DisconnectEffect, ZenonT(30) DEF WrapperIs, Disconnect
  <2>2. CASE ClientPid[c] \notin pid_session_map
    BY <1>1, <1>3, <2>2, ZenonT(30) DEF Disconnect
  <2>3. QED
    BY <2>1, <2>2, ZenonT(30)
<1>4. CASE EmplaceSession
  <2> DEFINE q == ClientPid[dispatch.connection]
  <2>1. dispatch.connection \in Connections /\ q \in Pids
    BY <1>4, ServerAssumption, ZenonT(30)
    DEF ServerInv, PositionInv, EmplaceSession
  <2>2. CASE q \in disconnected_pids \/ q \in pid_session_map
    BY <1>1, <1>4, <2>2, ZenonT(30) DEF EmplaceSession
  <2>3. CASE ~(q \in disconnected_pids \/ q \in pid_session_map)
    BY <1>0, <1>4, <2>1, <2>3, EmplaceEffect, ZenonT(30) DEF WrapperIs, SessionIs
  <2>4. QED
    BY <2>2, <2>3, ZenonT(30)
<1>5. CASE OnAcquireResponse
  <2> DEFINE q == ClientPid[dispatch.connection]
  <2>1. CASE q \in pid_session_map /\ wrapper[q].connection = dispatch.connection
    BY <1>0, <1>5, <2>1, ResponseEffect, ZenonT(30) DEF WrapperIs, SessionIs
  <2>2. CASE ~(q \in pid_session_map /\ wrapper[q].connection = dispatch.connection)
    BY <1>1, <1>5, <2>2, ZenonT(30) DEF OnAcquireResponse
  <2>3. QED
    BY <2>1, <2>2, ZenonT(30)
<1>6. ASSUME NEW q \in Pids, ScanSession(q) \/ DeadlineOver(q) PROVE Goal
  BY <1>0, <1>6, ScanEffect, DeadlineEffect, ZenonT(30)
     DEF WrapperIs, ScanSession, DeadlineOver, ServerInv, MarkInv
<1>7. CASE PopTick
  BY <1>0, <1>7, HeadTailProperties, PopEffect, ZenonT(30)
  DEF WrapperIs, PopTick, TypeOK
<1>8. CASE CreateFailed \/ WakeUp \/ DrainEnd \/ WorkerExit \/ ResetReceiver \/ ExitWorkers \/ PeriodOver
           \/ StartTick \/ NothingToRequest \/ DecideRequest
  BY <1>1, <1>8, ZenonT(30)
  DEF CreateFailed, WakeUp, DrainEnd, WorkerExit, ResetReceiver, ExitWorkers,
      PeriodOver,
                           StartTick, NothingToRequest, DecideRequest, server
<1>9. CASE NotifyClosedByPeer \/ ForceFinish
  <2>1. p \in Pids
    BY <1>9, TickPid, ZenonT(30)
    DEF NotifyClosedByPeer, ForceFinish, WithoutTick
  <2>2. QED
    BY <1>0, <1>9, <2>1, DetachEffect, ZenonT(30)
    DEF SessionIs, NotifyClosedByPeer, ForceFinish
<1>10. CASE FinalizeAcquisition
  <2>1. p \in Pids
    BY <1>10, TickPid, ZenonT(30) DEF FinalizeAcquisition, WithoutTick
  <2>2. QED
    BY <1>0, <1>10, <2>1, FinalizeEffect, ZenonT(30)
    DEF SessionIs, FinalizeAcquisition
<1>11. CASE ReadBuffers
  <2>1. p \in Pids
    BY <1>11, TickPid, ZenonT(30) DEF ReadBuffers, WithoutTick
  <2>2. QED
    BY <1>0, <1>11, <2>1, ReadEffect, ZenonT(30) DEF SessionIs, ReadBuffers
<1>12. CASE AcquisitionDone \/ PostponeRequest
  <2>1. p \in Pids
    BY <1>12, TickPid, ZenonT(30)
    DEF AcquisitionDone, PostponeRequest, WithoutTick
  <2>2. QED
    BY <1>0, <1>12, <2>1, DoneEffect, PostponeEffect, ZenonT(30)
       DEF SessionIs, SameSession, AcquisitionDone, PostponeRequest
<1>13. CASE RequestRefused \/ NotifyPoolExhausted
  <2>1. p \in Pids
    BY <1>13, TickPid, ZenonT(30)
    DEF RequestRefused, NotifyPoolExhausted, MaySend, WithoutTick
  <2>2. TRUE \in BOOLEAN /\ FALSE \in BOOLEAN
    BY ZenonT(30)
  <2>3. QED
    BY <1>0, <1>13, <2>1, <2>2, RequestedEffect, ZenonT(30)
    DEF SessionIs, RequestRefused, NotifyPoolExhausted
<1>14. CASE SendRequest
  <2>1. p \in Pids /\ TRUE \in BOOLEAN
    BY <1>14, TickPid, ZenonT(30) DEF SendRequest, MaySend, WithoutTick
  <2>2. session' \in [Pids -> Session]
    BY <1>0, <1>14, <2>1, RequestedEffect, ZenonT(30) DEF SessionIs, SendRequest
  <2>3. CASE wrapper[p].acquire_in_flight
    BY <1>0, <1>14, <2>2, <2>3, ZenonT(30) DEF SendRequest
  <2>4. CASE ~wrapper[p].acquire_in_flight
    BY <1>0, <1>14, <2>1, <2>2, <2>4, SendEffect, ZenonT(30) DEF WrapperIs
  <2>5. QED
    BY <2>3, <2>4, ZenonT(30)
<1>15. CASE NotifyFailed
  <2>1. p \in Pids /\ TRUE \in BOOLEAN
    BY <1>15, TickPid, ZenonT(30) DEF NotifyFailed, MaySend, WithoutTick
  <2>2. QED
    BY <1>0, <1>15, <2>1, RequestedEffect, NotifyFailedEffect, ZenonT(30)
    DEF SessionIs, WrapperIs, NotifyFailed
<1>16. CASE RequeueTick \/ TickEnd
  <2>1. p \in Pids
    BY <1>16, TickPid, ZenonT(30) DEF RequeueTick, TickEnd, WithoutTick
  <2>2. RequeueTick \/ (TickEnd /\ ~wrapper[p].enqueued)
    BY <1>16, ZenonT(30) DEF TickEnd, Requeued
  <2>3. QED
    BY <1>0, <1>16, <2>1, <2>2, TickedEffect, ZenonT(30)
    DEF WrapperIs, RequeueTick, TickEnd
<1>17. CASE RemoveSession
  <2>1. p \in Pids
    BY <1>17, TickPid, ZenonT(30) DEF RemoveSession, WithoutTick
  <2>2. QED
    BY <1>0, <1>17, <2>1, RemoveEffect, ZenonT(30) DEF WrapperIs, SessionIs
<1>18. CASE ClearSessions
  <2>1. NewWrapper(NoConnection) \in Wrapper /\ NewSession(NoConnection) \in Session
    BY NewWrapperFields, NewSessionFields, ZenonT(30)
  <2>2. QED
    BY <1>18, <2>1, ZenonT(30) DEF ClearSessions
<1>19. QED
  BY ZenonT(30), <1>2, <1>3, <1>4, <1>5, <1>6, <1>7, <1>8, <1>9, <1>10, <1>11,
     <1>12, <1>13, <1>14, <1>15, <1>16,
     <1>17, <1>18
     DEF Next, DispatchStep, WorkerStep, Tick, Destructor, Time

-----------------------------------------------------------------------------
(* Every step keeps the positions                                          *)

(* Every step keeps the threads where PositionInv allows them.             *)
LEMMA PositionStep ==
  ASSUME ServerInv, Next
  PROVE  PositionInv'
<1> USE DEF ServerInv
<1>1. ASSUME NEW c \in Connections, ClientStep(c) PROVE PositionInv'
  BY <1>1, ZenonT(30)
  DEF ClientStep, Answer, WritersRelease, Hang, Exit, PositionInv, server, threads
<1>2. ASSUME NEW c \in Connections, Connect(c) PROVE PositionInv'
  BY <1>2, ZenonT(30) DEF Connect, PositionInv, threads
<1>3. ASSUME NEW c \in Connections, CreateSession(c) PROVE PositionInv'
  BY <1>3, ZenonT(30) DEF CreateSession, PositionInv, server
<1>4. ASSUME NEW c \in Connections, Disconnect(c) PROVE PositionInv'
  <2> DEFINE w == EnqueuedForDelete([wrapper[ClientPid[c]] EXCEPT !.connection = NoConnection,
                                                                 !.to_force_finish = TRUE])
  <2>1. /\ UNCHANGED <<pid_session_map, session, worker, dispatch, shutdown>>
        /\ wrapper' = [wrapper EXCEPT ![ClientPid[c]] = w] \/ wrapper' = wrapper
        /\ ClientPid[c] \notin pid_session_map => wrapper' = wrapper
    BY <1>4, ZenonT(30) DEF Disconnect, Enqueue, threads
  <2> HIDE DEF w
  <2>2. QED
    BY <2>1, ZenonT(30) DEF PositionInv, TypeOK
<1>5. ASSUME NEW c \in Connections, StartResponse(c) PROVE PositionInv'
  BY <1>5, ZenonT(30) DEF StartResponse, PositionInv, server
<1>6. CASE CreateFailed
  BY <1>6, ZenonT(30) DEF CreateFailed, PositionInv, server
<1>7. CASE EmplaceSession
  BY <1>7, ServerAssumption, SMTT(30), Z3T(30)
  DEF EmplaceSession, PositionInv, MutexFree, Enqueue, TypeOK
<1>8. CASE OnAcquireResponse
  BY <1>8, ZenonT(30) DEF OnAcquireResponse, PositionInv, Enqueue, TypeOK
<1>9. CASE WakeUp
  BY <1>9, ZenonT(30) DEF WakeUp, PositionInv, WithoutTick, server, TypeOK
<1>10. ASSUME NEW p \in Pids, ScanSession(p) PROVE PositionInv'
  BY <1>10, ZenonT(30)
  DEF ScanSession, PositionInv, WithoutTick, Enqueue, TypeOK
<1>11. CASE PopTick
  <2> DEFINE p == Head(work_queue)
  <2>1. p \in Pids /\ p \in Members(work_queue)
    BY <1>11, PoppedQueue, ZenonT(30) DEF PopTick, TypeOK, QueueInv
  <2>2. wrapper[p].enqueued
    BY <1>11, <2>1, ZenonT(30) DEF PopTick, workers_exit, QueueInv
  <2>3. p \in pid_session_map
    BY <2>1, <2>2, NewWrapperFields, SMTT(30), Z3T(30) DEF PositionInv
  <2> HIDE DEF p
  <2>4. /\ UNCHANGED <<pid_session_map, session, dispatch, shutdown>>
        /\ worker'.pc \in {"Notify", "Tick"} /\ worker'.pid = p
        /\ \A q \in Pids \ {p} : wrapper'[q] = wrapper[q]
        /\ shutdown # "joined"
    BY <1>11, ZenonT(30) DEF PopTick, TypeOK, p, workers_exit
  <2>5. p # NoPid
    BY <2>1, ServerAssumption, ZenonT(30)
  <2>6. QED
    BY <2>3, <2>4, <2>5, ZenonT(30) DEF PositionInv, WithoutTick
<1>12. CASE DrainEnd
  BY <1>12, ZenonT(30) DEF DrainEnd, PositionInv, WithoutTick, server, TypeOK
<1>13. CASE NotifyClosedByPeer
  BY <1>13, ZenonT(30) DEF NotifyClosedByPeer, PositionInv, WithoutTick, TypeOK
<1>14. CASE StartTick
  BY <1>14, ZenonT(30) DEF StartTick, PositionInv, WithoutTick, TypeOK, server
<1>15. CASE FinalizeAcquisition
  BY <1>15, ZenonT(30) DEF FinalizeAcquisition, PositionInv, WithoutTick, TypeOK
<1>16. CASE ReadBuffers
  BY <1>16, ZenonT(30) DEF ReadBuffers, PositionInv, WithoutTick, TypeOK
<1>17. CASE AcquisitionDone
  BY <1>17, ZenonT(30) DEF AcquisitionDone, PositionInv, WithoutTick, TypeOK
<1>18. CASE NothingToRequest
  BY <1>18, ZenonT(30)
  DEF NothingToRequest, PositionInv, WithoutTick, TypeOK, server
<1>19. CASE PostponeRequest
  BY <1>19, ZenonT(30) DEF PostponeRequest, PositionInv, WithoutTick, TypeOK
<1>20. CASE DecideRequest
  BY <1>20, ZenonT(30)
  DEF DecideRequest, PositionInv, WithoutTick, TypeOK, server
<1>21. CASE RequestRefused
  BY <1>21, ZenonT(30)
  DEF RequestRefused, Requested, PositionInv, WithoutTick, TypeOK
<1>22. CASE SendRequest
  BY <1>22, ZenonT(30)
  DEF SendRequest, MaySend, Requested, PositionInv, WithoutTick, TypeOK
<1>23. CASE NotifyPoolExhausted
  BY <1>23, ZenonT(30)
  DEF NotifyPoolExhausted, MaySend, Requested, PositionInv, WithoutTick, TypeOK
<1>24. CASE NotifyFailed
  BY <1>24, ZenonT(30)
  DEF NotifyFailed, MaySend, Requested, Enqueue, PositionInv, WithoutTick, TypeOK
<1>25. CASE ForceFinish
  BY <1>25, ZenonT(30) DEF ForceFinish, PositionInv, WithoutTick, TypeOK
<1>26. CASE RequeueTick
  BY <1>26, ZenonT(30)
  DEF RequeueTick, WorkerAt, PositionInv, WithoutTick, TypeOK
<1>27. CASE RemoveSession
  BY <1>27, ZenonT(30)
  DEF RemoveSession, WorkerAt, PositionInv, WithoutTick, TypeOK
<1>28. CASE TickEnd
  BY <1>28, ZenonT(30) DEF TickEnd, WorkerAt, PositionInv, WithoutTick, TypeOK
<1>29. CASE WorkerExit
  BY <1>29, ZenonT(30) DEF WorkerExit, PositionInv, WithoutTick, TypeOK, server
<1>30. CASE ResetReceiver
  BY <1>30, ZenonT(30) DEF ResetReceiver, PositionInv, server
<1>31. CASE ExitWorkers
  BY <1>31, ZenonT(30) DEF ExitWorkers, PositionInv, server
<1>32. CASE ClearSessions
  BY <1>32, ZenonT(30) DEF ClearSessions, PositionInv, WithoutTick
<1>33. CASE PeriodOver
  BY <1>33, ZenonT(30) DEF PeriodOver, PositionInv, server
<1>34. ASSUME NEW p \in Pids, DeadlineOver(p) PROVE PositionInv'
  <2>1. p \in pid_session_map
    BY <1>34, SMTT(30), Z3T(30) DEF DeadlineOver, PositionInv, NewWrapper
  <2>2. /\ UNCHANGED <<pid_session_map, session, worker, dispatch, shutdown>>
        /\ \A q \in Pids \ {p} : wrapper'[q] = wrapper[q]
    BY <1>34, ZenonT(30) DEF DeadlineOver, threads, TypeOK
  <2>3. QED
    BY <2>1, <2>2, ZenonT(30) DEF PositionInv
<1>35. QED
  BY ZenonT(30), <1>1, <1>2, <1>3, <1>4, <1>5, <1>6, <1>7, <1>8, <1>9, <1>10,
     <1>11, <1>12, <1>13, <1>14, <1>15,
     <1>16, <1>17, <1>18, <1>19, <1>20, <1>21, <1>22, <1>23, <1>24, <1>25, <1>26, <1>27, <1>28, <1>29,
     <1>30, <1>31, <1>32, <1>33, <1>34
     DEF Next, DispatchStep, WorkerStep, Tick, Destructor, Time

-----------------------------------------------------------------------------
(* Every step keeps the queue                                              *)

(* The queue, the flags and the session in its tick are as before.         *)
LEMMA QueueAfterQuiet ==
  ASSUME TypeOK, QueueInv, UNCHANGED work_queue, worker'.pid = worker.pid,
         shutdown = "joined" => shutdown' = "joined",
         \A q \in Pids : /\ wrapper'[q].enqueued <=> wrapper[q].enqueued
                         /\ wrapper'[q].running <=> wrapper[q].running
  PROVE  QueueInv' /\ work_queue' \in Seq(Pids)
<1>1. Members(work_queue') = Members(work_queue) /\ Distinct(work_queue') /\ work_queue' \in Seq(Pids)
  BY ZenonT(30) DEF QueueInv, TypeOK
<1>2. QED
  BY <1>1, ZenonT(30) DEF QueueInv

(* A step that marks one wrapper, pushes it unless it is in its tick.      *)
LEMMA QueueAfterPush ==
  ASSUME TypeOK, QueueInv, shutdown # "joined", NEW p \in Pids, worker'.pid = worker.pid,
         \A q \in Pids \ {p} : wrapper'[q] = wrapper[q],
         PushedIfMarked(p),
         wrapper'[p].running <=> wrapper[p].running,
         wrapper[p].enqueued => wrapper'[p].enqueued
  PROVE  QueueInv' /\ work_queue' \in Seq(Pids)
<1>1. CASE wrapper'[p].enqueued /\ ~wrapper[p].enqueued /\ ~wrapper[p].running
  <2>1. work_queue' = Append(work_queue, p)
    BY <1>1, ZenonT(30) DEF Pushed, PushedIfMarked
  <2>2. p \notin Members(work_queue) /\ Distinct(work_queue)
    BY <1>1, ZenonT(30) DEF QueueInv
  <2>3. work_queue' \in Seq(Pids) /\ Distinct(work_queue') /\ Members(work_queue') = Members(work_queue) \union {p}
    BY <2>1, <2>2, AppendedQueue, SMTT(30), Z3T(30) DEF TypeOK
  <2>4. ASSUME NEW q \in Pids
        PROVE  /\ wrapper'[q].running <=> worker'.pid = q
               /\ q \in Members(work_queue') <=> wrapper'[q].enqueued /\ ~wrapper'[q].running
    <3>1. CASE q = p
      BY <1>1, <2>3, <3>1, ZenonT(30) DEF QueueInv
    <3>2. CASE q # p
      BY <2>3, <3>2, ZenonT(30) DEF QueueInv
    <3>3. QED
      BY <3>1, <3>2, ZenonT(30)
  <2>5. QED
    BY <2>3, <2>4, ZenonT(30) DEF QueueInv, Members, Distinct
<1>2. CASE ~(wrapper'[p].enqueued /\ ~wrapper[p].enqueued /\ ~wrapper[p].running)
  <2>1. work_queue' = work_queue
    BY <1>2, ZenonT(30) DEF Pushed, PushedIfMarked
  <2>2. /\ work_queue' \in Seq(Pids) /\ Distinct(work_queue')
        /\ Members(work_queue') = Members(work_queue)
    BY <2>1, ZenonT(30) DEF QueueInv, TypeOK
  <2>4. ASSUME NEW q \in Pids
        PROVE  /\ wrapper'[q].running <=> worker'.pid = q
               /\ q \in Members(work_queue') <=> wrapper'[q].enqueued /\ ~wrapper'[q].running
    <3>1. CASE q = p
      BY <1>2, <2>2, <3>1, ZenonT(30) DEF QueueInv
    <3>2. CASE q # p
      BY <2>2, <3>2, ZenonT(30) DEF QueueInv
    <3>3. QED
      BY <3>1, <3>2, ZenonT(30)
  <2>5. QED
    BY <2>2, <2>4, ZenonT(30) DEF QueueInv, Members, Distinct
<1>3. QED
  BY <1>1, <1>2, ZenonT(30)

(* Every step keeps the work queue and the flags in agreement.             *)
LEMMA QueueStep ==
  ASSUME ServerInv, Next
  PROVE  QueueInv' /\ work_queue' \in Seq(Pids)
<1> USE DEF ServerInv
<1> DEFINE Goal == QueueInv' /\ work_queue' \in Seq(Pids)
           p == worker.pid
<1>0. wrapper \in [Pids -> Wrapper] /\ pid_session_map \subseteq Pids
  BY ZenonT(30) DEF TypeOK
<1>1. ASSUME UNCHANGED <<wrapper, work_queue>>, worker'.pid = worker.pid,
             shutdown = "joined" => shutdown' = "joined"
      PROVE  Goal
  BY <1>1, QueueAfterQuiet, ZenonT(30)
<1>2. ASSUME NEW c \in Connections, ClientStep(c) \/ Connect(c) \/ CreateSession(c) \/ StartResponse(c)
      PROVE  Goal
  BY <1>1, <1>2, ZenonT(30)
  DEF ClientStep, Answer, WritersRelease, Hang, Exit, Connect, CreateSession,
                                StartResponse, server, threads
<1>3. ASSUME NEW c \in Connections, Disconnect(c) PROVE Goal
  <2>1. CASE ClientPid[c] \in pid_session_map
    <3>1. shutdown # "joined" /\ UNCHANGED worker
      BY <1>3, ZenonT(30) DEF Disconnect, threads
    <3>2. QED
      BY <1>0, <1>3, <2>1, <3>1, DisconnectEffect, QueueAfterPush, ZenonT(30)
      DEF WrapperIs
  <2>2. CASE ClientPid[c] \notin pid_session_map
    BY <1>1, <1>3, <2>2, ZenonT(30) DEF Disconnect, threads
  <2>3. QED
    BY <2>1, <2>2, ZenonT(30)
<1>4. CASE EmplaceSession
  <2> DEFINE q == ClientPid[dispatch.connection]
  <2>1. /\ dispatch.connection \in Connections /\ q \in Pids
        /\ shutdown # "joined" /\ UNCHANGED <<worker, shutdown>>
    BY <1>4, ServerAssumption, ZenonT(30) DEF PositionInv, EmplaceSession
  <2>2. CASE q \in disconnected_pids \/ q \in pid_session_map
    BY <1>1, <1>4, <2>1, <2>2, ZenonT(30) DEF EmplaceSession
  <2>3. CASE ~(q \in disconnected_pids \/ q \in pid_session_map)
    <3>1. ~wrapper[q].enqueued /\ ~wrapper[q].running
      <4>1. wrapper[q] = NewWrapper(NoConnection)
        BY <2>1, <2>3, ZenonT(30) DEF PositionInv
      <4>2. QED
        BY <4>1, NewWrapperFields, ZenonT(30)
    <3>2. QED
      BY <1>4, <2>1, <2>3, <3>1, EmplaceEffect, QueueAfterPush, ZenonT(30)
      DEF WrapperIs
  <2>4. QED
    BY <2>2, <2>3, ZenonT(30)
<1>5. CASE OnAcquireResponse
  <2> DEFINE q == ClientPid[dispatch.connection]
  <2>1. shutdown # "joined" /\ UNCHANGED <<worker, shutdown>>
    BY <1>5, ZenonT(30) DEF PositionInv, OnAcquireResponse
  <2>2. CASE q \in pid_session_map /\ wrapper[q].connection = dispatch.connection
    BY <1>0, <1>5, <2>1, <2>2, ResponseEffect, QueueAfterPush, ZenonT(30)
    DEF WrapperIs
  <2>3. CASE ~(q \in pid_session_map /\ wrapper[q].connection = dispatch.connection)
    BY <1>1, <1>5, <2>1, <2>3, ZenonT(30) DEF OnAcquireResponse
  <2>4. QED
    BY <2>2, <2>3, ZenonT(30)
<1>6. ASSUME NEW q \in Pids, ScanSession(q) PROVE Goal
  <2>1. shutdown # "joined" /\ worker'.pid = worker.pid
    BY <1>6, ZenonT(30) DEF PositionInv, ScanSession, TypeOK
  <2>2. QED
    BY <1>6, <2>1, ScanEffect, QueueAfterPush, ZenonT(30) DEF WrapperIs, MarkInv
<1>7. ASSUME NEW q \in Pids, DeadlineOver(q) PROVE Goal
  BY <1>7, DeadlineEffect, QueueAfterQuiet, ZenonT(30)
  DEF WrapperIs, DeadlineOver, threads
<1>8. CASE PopTick
  <2> DEFINE q == Head(work_queue)
  <2>1. shutdown # "joined" /\ UNCHANGED shutdown /\ work_queue' = Tail(work_queue) /\ work_queue # <<>>
    BY <1>8, ZenonT(30) DEF PopTick, workers_exit
  <2>2. /\ q \in Members(work_queue) /\ q \in Pids
        /\ work_queue' \in Seq(Pids) /\ Distinct(work_queue')
        /\ Members(work_queue') = Members(work_queue) \ {q}
    BY <2>1, PoppedQueue, ZenonT(30) DEF QueueInv, TypeOK
  <2>3. WrapperIs(q, wrapper[q].connection, FALSE, TRUE, wrapper[q].to_delete, FALSE) /\ worker'.pid = q
    BY <1>8, <2>2, PopEffect, ZenonT(30)
  <2>4. worker.pid = NoPid
    BY <1>8, ZenonT(30) DEF PopTick, PositionInv, WithoutTick
  <2> HIDE DEF q
  <2>5. ASSUME NEW r \in Pids
        PROVE  /\ wrapper'[r].running <=> worker'.pid = r
               /\ r \in Members(work_queue') <=> wrapper'[r].enqueued /\ ~wrapper'[r].running
    <3>1. CASE r = q
      BY <2>2, <2>3, <3>1, ZenonT(30) DEF WrapperIs
    <3>2. CASE r # q
      <4>1. ~wrapper[r].running /\ wrapper'[r] = wrapper[r]
        BY <2>1, <2>3, <2>4, <3>2, ServerAssumption, ZenonT(30)
        DEF QueueInv, WrapperIs
      <4>2. QED
        BY <2>1, <2>2, <2>3, <3>2, <4>1, ZenonT(30) DEF QueueInv
    <3>3. QED
      BY <3>1, <3>2, ZenonT(30)
  <2>6. QED
    BY <2>2, <2>5, ZenonT(30) DEF QueueInv
<1>9. CASE CreateFailed \/ ResetReceiver \/ ExitWorkers \/ PeriodOver
  BY <1>1, <1>9, ZenonT(30)
  DEF CreateFailed, ResetReceiver, ExitWorkers, PeriodOver, server
<1>10. CASE WakeUp \/ DrainEnd \/ WorkerExit \/ StartTick \/ NothingToRequest \/ DecideRequest
  <2>1. worker'.pid = worker.pid
    BY <1>10, ZenonT(30)
    DEF WakeUp, DrainEnd, WorkerExit, StartTick, NothingToRequest,
        DecideRequest, TypeOK
  <2>2. QED
    BY <1>1, <1>10, <2>1, ZenonT(30)
    DEF WakeUp, DrainEnd, WorkerExit, StartTick, NothingToRequest,
                                    DecideRequest, server
<1>11. CASE NotifyClosedByPeer \/ FinalizeAcquisition \/ ReadBuffers \/ AcquisitionDone \/ PostponeRequest
            \/ ForceFinish
  <2>1. worker'.pid = worker.pid
    BY <1>11, ZenonT(30)
    DEF NotifyClosedByPeer, FinalizeAcquisition, ReadBuffers, AcquisitionDone,
                             PostponeRequest, ForceFinish, TypeOK
  <2>2. QED
    BY <1>1, <1>11, <2>1, ZenonT(30)
    DEF NotifyClosedByPeer, FinalizeAcquisition, ReadBuffers,
                                    AcquisitionDone, PostponeRequest, ForceFinish
<1>12. ASSUME NEW result \in BOOLEAN, Requested(result)
       PROVE  worker'.pid = worker.pid /\ UNCHANGED shutdown
  BY <1>12, ZenonT(30) DEF Requested, TypeOK
<1>13. CASE RequestRefused \/ NotifyPoolExhausted
  BY <1>1, <1>12, <1>13, ZenonT(30) DEF RequestRefused, NotifyPoolExhausted
<1>14. CASE SendRequest
  <2>1. p \in Pids /\ UNCHANGED <<shutdown, work_queue>> /\ worker'.pid = worker.pid
    BY <1>12, <1>14, TickPid, ZenonT(30) DEF SendRequest, MaySend, WithoutTick
  <2>2. CASE wrapper[p].acquire_in_flight
    BY <1>1, <1>14, <2>1, <2>2, ZenonT(30) DEF SendRequest
  <2>3. CASE ~wrapper[p].acquire_in_flight
    BY <1>14, <2>1, <2>3, SendEffect, QueueAfterQuiet, ZenonT(30) DEF WrapperIs
  <2>4. QED
    BY <2>2, <2>3, ZenonT(30)
<1>15. CASE NotifyFailed
  <2>1. p \in Pids /\ UNCHANGED shutdown /\ worker'.pid = worker.pid
    BY <1>12, <1>15, TickPid, ZenonT(30) DEF NotifyFailed, MaySend, WithoutTick
  <2>2. shutdown # "joined"
    BY <1>15, ZenonT(30) DEF NotifyFailed, MaySend, workers_exit
  <2>3. QED
    BY <1>15, <2>1, <2>2, NotifyFailedEffect, QueueAfterPush, ZenonT(30)
    DEF WrapperIs
<1>16. ASSUME RequeueTick \/ TickEnd \/ RemoveSession
       PROVE  /\ p \in Pids /\ shutdown # "joined" /\ worker'.pid = NoPid
              /\ wrapper[p].running /\ p \notin Members(work_queue)
  <2>1. p \in Pids /\ shutdown # "joined"
    BY <1>16, TickPid, ZenonT(30)
    DEF RequeueTick, TickEnd, RemoveSession, WithoutTick, PositionInv
  <2>2. worker'.pid = NoPid
    BY <1>16, SMTT(30), Z3T(30)
    DEF RequeueTick, TickEnd, RemoveSession, WorkerAt
  <2>3. QED
    BY <2>1, <2>2, ZenonT(30) DEF QueueInv
<1>17. ASSUME RequeueTick \/ TickEnd \/ RemoveSession,
              Distinct(work_queue'), work_queue' \in Seq(Pids),
              \A q \in Pids \ {p} : wrapper'[q] = wrapper[q],
              ~wrapper'[p].running,
              p \in Members(work_queue') <=> wrapper'[p].enqueued,
              \A q \in Pids \ {p} : q \in Members(work_queue') <=> q \in Members(work_queue)
       PROVE  Goal
  <2>1. /\ p \in Pids /\ shutdown # "joined" /\ worker'.pid = NoPid
        /\ wrapper[p].running /\ p \notin Members(work_queue)
    BY <1>16, <1>17, ZenonT(30)
  <2>2. ASSUME NEW r \in Pids
        PROVE  /\ wrapper'[r].running <=> worker'.pid = r
               /\ r \in Members(work_queue') <=> wrapper'[r].enqueued /\ ~wrapper'[r].running
    <3>1. CASE r = p
      BY <1>17, <2>1, <3>1, ServerAssumption, ZenonT(30)
    <3>2. CASE r # p
      BY <1>17, <2>1, <3>2, ServerAssumption, ZenonT(30) DEF QueueInv
    <3>3. QED
      BY <3>1, <3>2, ZenonT(30)
  <2>3. QED
    BY <1>17, <2>2, ZenonT(30) DEF QueueInv
<1>18. CASE RequeueTick
  <2>1. work_queue' = Append(work_queue, p)
    BY <1>18, ZenonT(30) DEF RequeueTick
  <2>2. /\ work_queue' \in Seq(Pids) /\ Distinct(work_queue')
        /\ Members(work_queue') = Members(work_queue) \union {p}
    BY <1>16, <1>18, <2>1, AppendedQueue, SMTT(30), Z3T(30) DEF QueueInv, TypeOK
  <2>3. QED
    BY <1>16, <1>17, <1>18, <2>2, TickedEffect, ZenonT(30) DEF WrapperIs
<1>19. CASE TickEnd
  <2>1. ~wrapper[p].enqueued /\ ~RequeueTick /\ UNCHANGED work_queue
    BY <1>19, ZenonT(30) DEF TickEnd, RequeueTick, Requeued
  <2>2. Members(work_queue') = Members(work_queue) /\ Distinct(work_queue') /\ work_queue' \in Seq(Pids)
    BY <2>1, ZenonT(30) DEF QueueInv, TypeOK
  <2>3. QED
    BY <1>16, <1>17, <1>19, <2>1, <2>2, TickedEffect, ZenonT(30) DEF WrapperIs
<1>20. CASE RemoveSession
  <2>1. Members(work_queue') = Members(work_queue) /\ Distinct(work_queue') /\ work_queue' \in Seq(Pids)
    BY <1>20, ZenonT(30) DEF RemoveSession, QueueInv, TypeOK
  <2>2. QED
    BY <1>16, <1>17, <1>20, <2>1, RemoveEffect, ZenonT(30) DEF WrapperIs
<1>21. CASE ClearSessions
  BY <1>21, ZenonT(30) DEF ClearSessions, QueueInv, TypeOK
<1>22. QED
  BY ZenonT(30), <1>2, <1>3, <1>4, <1>5, <1>6, <1>7, <1>8, <1>9, <1>10, <1>11,
     <1>13, <1>14, <1>15, <1>18, <1>19,
     <1>20, <1>21
     DEF Next, DispatchStep, WorkerStep, Tick, Destructor, Time

-----------------------------------------------------------------------------
(* Every step keeps the connections                                        *)

(* The threads and the time, except the dispatch thread, touch neither the *)
(* callbacks nor the clients, apart from the request that is sent.         *)
LEMMA WorkerLeaves ==
  ASSUME WorkerStep \/ Destructor \/ Time
  PROVE  /\ UNCHANGED <<disconnected_pids, dispatch, client, responses, writing>>
         /\ SendRequest \/ UNCHANGED requests
<1>1. CASE Destructor \/ Time
  BY <1>1, ZenonT(30)
  DEF Destructor, Time, ResetReceiver, ExitWorkers, ClearSessions, PeriodOver,
      DeadlineOver, server,
              threads, clients
<1>2. CASE Tick
  BY <1>2, ZenonT(30)
  DEF Tick, StartTick, FinalizeAcquisition, ReadBuffers, AcquisitionDone,
      NothingToRequest, PostponeRequest,
              DecideRequest, RequestRefused, SendRequest, NotifyPoolExhausted,
              NotifyFailed, Requested,
              server, clients
<1>3. CASE WorkerStep /\ ~Tick
  BY <1>3, ZenonT(30)
  DEF WorkerStep, WakeUp, ScanSession, PopTick, DrainEnd, NotifyClosedByPeer,
      ForceFinish, RequeueTick,
              RemoveSession, TickEnd, WorkerExit, server, clients
<1>4. QED
  BY <1>1, <1>2, <1>3, ZenonT(30)

(* They give no session a connection.                                      *)
LEMMA WorkerConnections ==
  ASSUME ServerInv, WorkerStep \/ Destructor \/ Time, NEW q \in Pids
  PROVE  wrapper'[q].connection \in {wrapper[q].connection, NoConnection}
<1> USE DEF ServerInv
<1> DEFINE Goal == wrapper'[q].connection \in {wrapper[q].connection, NoConnection}
           p == worker.pid
<1>1. ASSUME UNCHANGED wrapper PROVE Goal
  BY <1>1, ZenonT(30)
<1>2. ASSUME NEW r \in Pids, ScanSession(r) \/ DeadlineOver(r) PROVE Goal
  BY <1>2, ScanEffect, DeadlineEffect, ZenonT(30) DEF WrapperIs, MarkInv
<1>3. CASE PopTick
  <2>1. Head(work_queue) \in Pids
    BY <1>3, HeadTailProperties, ZenonT(30) DEF PopTick, TypeOK
  <2>2. QED
    BY <1>3, <2>1, PopEffect, ZenonT(30) DEF WrapperIs
<1>4. CASE SendRequest
  <2>1. p \in Pids
    BY <1>4, TickPid, ZenonT(30) DEF SendRequest, MaySend, WithoutTick
  <2>2. QED
    BY <1>1, <1>4, <2>1, SendEffect, ZenonT(30) DEF WrapperIs, SendRequest
<1>5. CASE NotifyFailed
  <2>1. p \in Pids
    BY <1>5, TickPid, ZenonT(30) DEF NotifyFailed, MaySend, WithoutTick
  <2>2. QED
    BY <1>5, <2>1, NotifyFailedEffect, ZenonT(30) DEF WrapperIs
<1>6. CASE RequeueTick \/ TickEnd
  <2>1. p \in Pids
    BY <1>6, TickPid, ZenonT(30) DEF RequeueTick, TickEnd, WithoutTick
  <2>2. RequeueTick \/ (TickEnd /\ ~wrapper[p].enqueued)
    BY <1>6, ZenonT(30) DEF TickEnd, Requeued
  <2>3. QED
    BY <2>1, <2>2, TickedEffect, ZenonT(30) DEF WrapperIs
<1>7. CASE RemoveSession
  <2>1. p \in Pids
    BY <1>7, TickPid, ZenonT(30) DEF RemoveSession, WithoutTick
  <2>2. QED
    BY <1>7, <2>1, RemoveEffect, ZenonT(30) DEF WrapperIs
<1>8. CASE ClearSessions
  <2>1. wrapper'[q] = NewWrapper(NoConnection)
    BY <1>8, ZenonT(30) DEF ClearSessions
  <2>2. QED
    BY <2>1, NewWrapperFields, ZenonT(30)
<1>9. CASE Tick /\ ~SendRequest /\ ~NotifyFailed
  BY <1>1, <1>9, ZenonT(30)
  DEF Tick, StartTick, FinalizeAcquisition, ReadBuffers, AcquisitionDone,
      NothingToRequest,
                    PostponeRequest, DecideRequest, RequestRefused,
                    NotifyPoolExhausted, server
<1>10. CASE WakeUp \/ DrainEnd \/ NotifyClosedByPeer \/ ForceFinish \/ WorkerExit \/ ResetReceiver
            \/ ExitWorkers \/ PeriodOver
  BY <1>1, <1>10, ZenonT(30)
  DEF WakeUp, DrainEnd, NotifyClosedByPeer, ForceFinish, WorkerExit, ResetReceiver,
                     ExitWorkers, PeriodOver, server
<1>11. QED
  BY <1>2, <1>3, <1>4, <1>5, <1>6, <1>7, <1>8, <1>9, <1>10, ZenonT(30)
  DEF WorkerStep, Destructor, Time

(* A request goes to the connection of a session.                          *)
LEMMA SentTo ==
  ASSUME ServerInv, SendRequest, requests' # requests
  PROVE  /\ worker.pid \in Pids
         /\ wrapper[worker.pid].connection \in Connections
         /\ requests' = [requests EXCEPT ![wrapper[worker.pid].connection] = @ + 1]
<1>1. worker.pid \in Pids
  BY TickPid, ZenonT(30) DEF SendRequest, MaySend, WithoutTick
<1>2. wrapper[worker.pid].connection \in Connections \union {NoConnection}
  BY <1>1, ZenonT(30) DEF ServerInv, TypeOK, Wrapper
<1>3. QED
  BY <1>1, <1>2, ZenonT(30) DEF SendRequest, MaySend

(* Every step keeps the connections of the sessions their own.             *)
LEMMA ConnectionStep ==
  ASSUME ServerInv, Next
  PROVE  ConnectionInv'
<1> USE DEF ServerInv
<1>0. /\ \A q \in Pids : wrapper[q].connection \in Connections \union {NoConnection}
      /\ \A c \in Connections : ClientPid[c] \in Pids
      /\ pid_session_map \subseteq Pids
      /\ client \in [Connections -> {"new", "connected", "attached", "hung", "exited", "closed"}]
      /\ requests \in [Connections -> Nat] /\ responses \in [Connections -> Nat]
      /\ dispatch.pc # "Idle" => dispatch.connection \in Connections
  BY ServerAssumption, ZenonT(30) DEF TypeOK, Wrapper, PositionInv
<1>1. CASE WorkerStep \/ Destructor \/ Time
  <2>1. \A q \in Pids : wrapper'[q].connection \in {wrapper[q].connection, NoConnection}
    BY <1>1, WorkerConnections, ZenonT(30)
  <2>2. UNCHANGED <<disconnected_pids, dispatch, client, responses>>
    BY <1>1, WorkerLeaves, ZenonT(30)
  <2>6. ASSUME NEW q \in Pids, wrapper'[q].connection # NoConnection
        PROVE  /\ ClientPid[wrapper'[q].connection] = q
               /\ client'[wrapper'[q].connection] \notin {"new", "connected"}
    <3>1. wrapper'[q].connection = wrapper[q].connection
      BY <2>1, <2>6, ZenonT(30)
    <3>2. QED
      BY <2>2, <2>6, <3>1, ZenonT(30) DEF ConnectionInv
  <2>7. dispatch.pc = "Create" => wrapper'[ClientPid[dispatch.connection]].connection # dispatch.connection
    BY <1>0, <2>1, ServerAssumption, ZenonT(30) DEF ConnectionInv
  <2>3. CASE UNCHANGED requests
    BY <2>2, <2>3, <2>6, <2>7, ZenonT(30) DEF ConnectionInv, Quiet
  <2>4. CASE requests' # requests
    <3>1. PICK q \in Pids : /\ wrapper[q].connection \in Connections
                            /\ requests' = [requests EXCEPT ![wrapper[q].connection] = @ + 1]
      BY <1>1, <2>4, WorkerLeaves, SentTo, ZenonT(30)
    <3>2. \A c \in Connections \ {wrapper[q].connection} : requests'[c] = requests[c]
      BY <1>0, <3>1, ZenonT(30)
    <3>3. wrapper[q].connection # NoConnection
      BY <3>1, ServerAssumption, ZenonT(30)
    <3>4. dispatch.pc = "Create" => dispatch.connection # wrapper[q].connection
      BY <3>3, ZenonT(30) DEF ConnectionInv
    <3>5. client[wrapper[q].connection] \notin {"new", "connected"}
      BY <3>3, ZenonT(30) DEF ConnectionInv
    <3>6. \A c \in Connections : client'[c] \in {"new", "connected"} => Quiet(c)'
      BY <2>2, <3>2, <3>5, ZenonT(30) DEF ConnectionInv, Quiet
    <3>7. dispatch.pc = "Create" => Quiet(dispatch.connection)'
      BY <1>0, <2>2, <3>2, <3>4, ZenonT(30) DEF ConnectionInv, Quiet
    <3>8. QED
      BY <2>2, <2>6, <2>7, <3>6, <3>7, ZenonT(30) DEF ConnectionInv
  <2>5. QED
    BY <2>3, <2>4, ZenonT(30)
<1>2. ASSUME NEW c \in Connections, ClientStep(c) PROVE ConnectionInv'
  <2>1. CASE Answer(c)
    BY <1>0, <2>1, ServerAssumption, SMTT(30), Z3T(30)
    DEF Answer, ConnectionInv, Quiet, server, threads
  <2>2. CASE WritersRelease(c)
    BY <1>0, <2>2, ZenonT(30)
    DEF WritersRelease, ConnectionInv, Quiet, server, threads
  <2>3. CASE Hang(c)
    BY <1>0, <2>3, ZenonT(30) DEF Hang, ConnectionInv, Quiet, server, threads
  <2>4. CASE Exit(c)
    BY <1>0, <2>4, ZenonT(30) DEF Exit, ConnectionInv, Quiet, server, threads
  <2>5. QED
    BY <1>2, <2>1, <2>2, <2>3, <2>4, ZenonT(30) DEF ClientStep
<1>3. ASSUME NEW c \in Connections, Connect(c) PROVE ConnectionInv'
  BY <1>0, <1>3, ServerAssumption, SMTT(30), Z3T(30)
  DEF Connect, ConnectionInv, Quiet, threads
<1>4. ASSUME NEW c \in Connections, CreateSession(c) PROVE ConnectionInv'
  BY <1>0, <1>4, ServerAssumption, SMTT(30), Z3T(30)
  DEF CreateSession, ConnectionInv, Quiet, server
<1>5. ASSUME NEW c \in Connections, StartResponse(c) PROVE ConnectionInv'
  BY <1>0, <1>5, ServerAssumption, SMTT(30), Z3T(30)
  DEF StartResponse, ConnectionInv, Quiet, server
<1>6. ASSUME NEW c \in Connections, Disconnect(c) PROVE ConnectionInv'
  <2> DEFINE p == ClientPid[c]
  <2>1. /\ \A q \in Pids \ {p} : wrapper'[q] = wrapper[q]
        /\ wrapper'[p].connection = NoConnection
    <3>1. CASE p \in pid_session_map
      BY <1>6, <3>1, DisconnectEffect, ZenonT(30) DEF WrapperIs
    <3>2. CASE p \notin pid_session_map
      <4>1. wrapper' = wrapper /\ wrapper[p] = NewWrapper(NoConnection)
        BY <1>0, <1>6, <3>2, ZenonT(30) DEF Disconnect, PositionInv
      <4>2. QED
        BY <4>1, NewWrapperFields, ZenonT(30)
    <3>3. QED
      BY <3>1, <3>2, ZenonT(30)
  <2>2. /\ client' = [client EXCEPT ![c] = "closed"]
        /\ requests' = [requests EXCEPT ![c] = 0]
        /\ responses' = [responses EXCEPT ![c] = 0]
        /\ disconnected_pids' = disconnected_pids \union {p}
        /\ UNCHANGED dispatch
        /\ client[c] = "exited"
    BY <1>6, ZenonT(30) DEF Disconnect, threads
  <2>3. \A q \in Pids \ {p} : wrapper[q].connection # NoConnection => wrapper[q].connection # c
    BY ZenonT(30) DEF ConnectionInv
  <2>4. ASSUME NEW q \in Pids, wrapper'[q].connection # NoConnection
        PROVE  /\ ClientPid[wrapper'[q].connection] = q
               /\ client'[wrapper'[q].connection] \notin {"new", "connected"}
    <3>1. q # p /\ wrapper'[q] = wrapper[q]
      BY <2>1, <2>4, ZenonT(30)
    <3>2. QED
      BY <1>0, <2>2, <2>3, <2>4, <3>1, SMTT(30), Z3T(30) DEF ConnectionInv
  <2>5. dispatch.pc = "Create" => wrapper'[ClientPid[dispatch.connection]].connection # dispatch.connection
    BY <1>0, <2>1, ServerAssumption, ZenonT(30) DEF ConnectionInv
  <2>6. QED
    BY <1>0, <2>2, <2>4, <2>5, ZenonT(30) DEF ConnectionInv, Quiet
<1>7. CASE CreateFailed
  BY <1>0, <1>7, ZenonT(30)
  DEF CreateFailed, ConnectionInv, Quiet, server, clients
<1>8. CASE EmplaceSession
  <2> DEFINE c == dispatch.connection
             p == ClientPid[dispatch.connection]
  <2>1. /\ c \in Connections /\ p \in Pids
        /\ dispatch' = [pc |-> "Idle", connection |-> NoConnection]
        /\ UNCHANGED <<client, requests, responses, disconnected_pids>>
        /\ dispatch.pc = "Create"
    BY <1>0, <1>8, ZenonT(30) DEF EmplaceSession, clients
  <2>2. CASE p \in disconnected_pids \/ p \in pid_session_map
    BY <1>0, <1>8, <2>1, <2>2, SMTT(30), Z3T(30)
    DEF EmplaceSession, ConnectionInv, Quiet
  <2>3. CASE ~(p \in disconnected_pids \/ p \in pid_session_map)
    <3>1. /\ \A q \in Pids \ {p} : wrapper'[q] = wrapper[q]
          /\ wrapper'[p].connection = c
      BY <1>8, <2>1, <2>3, EmplaceEffect, ZenonT(30) DEF WrapperIs
    <3>2. client[c] \notin {"new", "connected"}
      BY <2>1, ZenonT(30) DEF ConnectionInv
    <3>3. QED
      BY <2>1, <3>1, <3>2, SMTT(30), Z3T(30) DEF ConnectionInv, Quiet
  <2>4. QED
    BY <2>2, <2>3, ZenonT(30)
<1>9. CASE OnAcquireResponse
  <2> DEFINE p == ClientPid[dispatch.connection]
  <2>1. \A q \in Pids : wrapper'[q].connection = wrapper[q].connection
    <3>1. CASE p \in pid_session_map /\ wrapper[p].connection = dispatch.connection
      BY <1>9, <3>1, ResponseEffect, ZenonT(30) DEF WrapperIs
    <3>2. CASE ~(p \in pid_session_map /\ wrapper[p].connection = dispatch.connection)
      BY <1>9, <3>2, ZenonT(30) DEF OnAcquireResponse
    <3>3. QED
      BY <3>1, <3>2, ZenonT(30)
  <2>2. QED
    BY <1>0, <1>9, <2>1, ZenonT(30)
    DEF OnAcquireResponse, ConnectionInv, Quiet, clients
<1>10. QED
  BY <1>1, <1>2, <1>3, <1>4, <1>5, <1>6, <1>7, <1>8, <1>9, ZenonT(30)
  DEF Next, DispatchStep

(* A client never becomes new again, and a closed connection stays closed. *)
LEMMA ClientAdvances ==
  ASSUME TypeOK, Next, NEW c \in Connections
  PROVE  /\ client[c] # "new" => client'[c] # "new"
         /\ client[c] = "closed" => client'[c] = "closed"
<1>0. client \in [Connections -> {"new", "connected", "attached", "hung", "exited", "closed"}]
  BY ZenonT(30) DEF TypeOK
<1>1. CASE WorkerStep \/ Destructor \/ Time
  BY <1>1, WorkerLeaves, ZenonT(30)
<1>2. ASSUME NEW d \in Connections, ClientStep(d)
      PROVE  /\ client[c] # "new" => client'[c] # "new"
             /\ client[c] = "closed" => client'[c] = "closed"
  BY <1>0, <1>2, ZenonT(30) DEF ClientStep, Answer, WritersRelease, Hang, Exit
<1>3. CASE DispatchStep
  <2>1. ASSUME NEW d \in Connections,
               Connect(d) \/ CreateSession(d) \/ Disconnect(d) \/ StartResponse(d)
        PROVE  /\ client[c] # "new" => client'[c] # "new"
               /\ client[c] = "closed" => client'[c] = "closed"
    BY <1>0, <2>1, ZenonT(30) DEF Connect, CreateSession, Disconnect, StartResponse
  <2>2. CASE CreateFailed \/ EmplaceSession \/ OnAcquireResponse
    BY <2>2, ZenonT(30) DEF CreateFailed, EmplaceSession, OnAcquireResponse, clients
  <2>3. QED
    BY <1>3, <2>1, <2>2, ZenonT(30) DEF DispatchStep
<1>4. QED
  BY <1>1, <1>2, <1>3, ZenonT(30) DEF Next

(* Only Connect takes a client out of "new", and only Disconnect closes a  *)
(* connection.                                                             *)
LEMMA OthersKeepClients ==
  ASSUME TypeOK, Next, NEW c \in Connections, ~Connect(c), ~Disconnect(c)
  PROVE  /\ client'[c] # "new" => client[c] # "new"
         /\ client'[c] = "closed" => client[c] = "closed"
<1>0. client \in [Connections -> {"new", "connected", "attached", "hung", "exited", "closed"}]
  BY ZenonT(30) DEF TypeOK
<1>1. CASE WorkerStep \/ Destructor \/ Time
  BY <1>1, WorkerLeaves, ZenonT(30)
<1>2. ASSUME NEW d \in Connections, ClientStep(d)
      PROVE  /\ client'[c] # "new" => client[c] # "new"
             /\ client'[c] = "closed" => client[c] = "closed"
  BY <1>0, <1>2, ZenonT(30) DEF ClientStep, Answer, WritersRelease, Hang, Exit
<1>3. CASE DispatchStep
  <2>1. ASSUME NEW d \in Connections, CreateSession(d) \/ StartResponse(d)
        PROVE  /\ client'[c] # "new" => client[c] # "new"
               /\ client'[c] = "closed" => client[c] = "closed"
    BY <1>0, <2>1, ZenonT(30) DEF CreateSession, StartResponse
  <2>2. ASSUME NEW d \in Connections, d # c, Connect(d) \/ Disconnect(d)
        PROVE  client'[c] = client[c]
    BY <1>0, <2>2, ZenonT(30) DEF Connect, Disconnect
  <2>3. CASE CreateFailed \/ EmplaceSession \/ OnAcquireResponse
    BY <2>3, ZenonT(30) DEF CreateFailed, EmplaceSession, OnAcquireResponse, clients
  <2>4. QED
    BY <1>3, <2>1, <2>2, <2>3, ZenonT(30) DEF DispatchStep
<1>4. QED
  BY <1>1, <1>2, <1>3, ZenonT(30) DEF Next

(* A process that has connected again has done so for ever.                *)
LEMMA StaysReconnected ==
  ASSUME TypeOK, Next, NEW c \in Connections, Followed(c, client)
  PROVE  Followed(c, client')
<1>1. PICK d \in Connections : d > c /\ ClientPid[d] = ClientPid[c] /\ client[d] # "new"
  BY ZenonT(30) DEF Followed
<1>2. client'[d] # "new"
  BY <1>1, ClientAdvances, ZenonT(30)
<1>3. QED
  BY <1>1, <1>2, ZenonT(30) DEF Followed

(* A connection follows the closed ones of its process.                    *)
LEMMA OrderStep ==
  ASSUME ServerInv, Next,
         NEW c \in Connections, NEW d \in Connections,
         c < d, ClientPid[c] = ClientPid[d], client'[d] # "new"
  PROVE  client'[c] = "closed"
<1>1. c \in Nat /\ d \in Nat /\ c # d /\ ~(c > d)
  BY ServerAssumption, SMTT(30), Z3T(30)
<1>2. client[d] # "new" => client[c] = "closed"
  BY ZenonT(30) DEF ServerInv, ClosedInv
<1>3. CASE Connect(d)
  <2>1. client[c] = "closed"
    BY <1>1, <1>3, ZenonT(30) DEF Connect
  <2>2. QED
    BY <2>1, ClientAdvances, ZenonT(30) DEF ServerInv
<1>4. CASE Disconnect(d)
  <2>1. client[d] # "new"
    BY <1>4, ZenonT(30) DEF Disconnect
  <2>2. QED
    BY <1>2, <2>1, ClientAdvances, ZenonT(30) DEF ServerInv
<1>5. CASE ~Connect(d) /\ ~Disconnect(d)
  BY <1>2, <1>5, OthersKeepClients, ClientAdvances, ZenonT(30) DEF ServerInv
<1>6. QED
  BY <1>3, <1>4, <1>5, ZenonT(30)

(* The connection of a session is closed only if another has followed it.  *)
LEMMA KeptStep ==
  ASSUME ServerInv, Next, NEW p \in Pids,
         wrapper'[p].connection # NoConnection,
         client'[wrapper'[p].connection] = "closed"
  PROVE  Followed(wrapper'[p].connection, client')
<1> USE DEF ServerInv
<1> DEFINE w == wrapper'[p].connection
           v == wrapper[p].connection
<1>0. /\ \A q \in Pids : wrapper[q].connection \in Connections \union {NoConnection}
      /\ \A c \in Connections : ClientPid[c] \in Pids
      /\ dispatch.pc # "Idle" => dispatch.connection \in Connections
  BY ServerAssumption, ZenonT(30) DEF TypeOK, Wrapper, PositionInv
<1>1. ASSUME NEW c \in Connections, Followed(c, client) PROVE Followed(c, client')
  BY <1>1, StaysReconnected, ZenonT(30)
<1>2. ASSUME w = v, ~Disconnect(v) PROVE Followed(w, client')
  <2>1. v \in Connections /\ v # NoConnection
    BY <1>0, <1>2, ZenonT(30)
  <2>2. ~Connect(v)
    BY <2>1, ZenonT(30) DEF Connect, ConnectionInv
  <2>3. client[v] = "closed"
    BY <1>2, <2>1, <2>2, OthersKeepClients, ZenonT(30)
  <2>4. Followed(v, client)
    BY <2>1, <2>3, ZenonT(30) DEF ClosedInv
  <2>5. QED
    BY <1>1, <1>2, <2>1, <2>4, ZenonT(30)
<1>3. CASE WorkerStep \/ Destructor \/ Time
  <2>1. w = v
    BY <1>3, WorkerConnections, ZenonT(30)
  <2>2. UNCHANGED client
    BY <1>3, WorkerLeaves, ZenonT(30)
  <2>3. v \in Connections /\ v # NoConnection
    BY <1>0, <2>1, ZenonT(30)
  <2>4. Followed(v, client)
    BY <2>1, <2>2, <2>3, ZenonT(30) DEF ClosedInv
  <2>5. QED
    BY <1>1, <2>1, <2>3, <2>4, ZenonT(30)
<1>4. ASSUME NEW d \in Connections, Disconnect(d) PROVE Followed(w, client')
  <2>1. p # ClientPid[d] /\ wrapper'[p] = wrapper[p]
    <3>1. CASE ClientPid[d] \in pid_session_map
      <4> DEFINE q == ClientPid[d]
      <4>1. WrapperIs(q, NoConnection, wrapper[q].enqueued \/ ~wrapper[q].running,
                      wrapper[q].running, TRUE, TRUE)
        BY <1>0, <1>4, <3>1, DisconnectEffect, ZenonT(30)
      <4>2. wrapper'[q].connection = NoConnection
        BY <4>1, ZenonT(30) DEF WrapperIs
      <4>3. \A r \in Pids \ {q} : wrapper'[r] = wrapper[r]
        BY <4>1, ZenonT(30) DEF WrapperIs
      <4>4. QED
        BY <4>2, <4>3, ZenonT(30)
    <3>2. CASE ClientPid[d] \notin pid_session_map
      <4>1. wrapper' = wrapper
        BY <1>4, <3>2, ZenonT(30) DEF Disconnect
      <4>2. wrapper[ClientPid[d]].connection = NoConnection
        BY <1>0, <3>2, NewWrapperFields, ZenonT(30) DEF PositionInv
      <4>3. QED
        BY <4>1, <4>2, ZenonT(30)
    <3>3. QED
      BY <3>1, <3>2, ZenonT(30)
  <2>2. v \in Connections /\ ClientPid[v] = p
    BY <1>0, <2>1, ZenonT(30) DEF ConnectionInv
  <2>3. client[v] = "closed"
    BY <1>4, <2>1, <2>2, ZenonT(30) DEF Disconnect, TypeOK
  <2>4. Followed(v, client)
    BY <2>1, <2>3, ZenonT(30) DEF ClosedInv
  <2>5. QED
    BY <1>1, <2>1, <2>2, <2>4, ZenonT(30)
<1>5. CASE EmplaceSession
  <2> DEFINE c == dispatch.connection
             q == ClientPid[dispatch.connection]
  <2>1. c \in Connections /\ q \in Pids /\ dispatch.pc = "Create" /\ UNCHANGED client
    BY <1>0, <1>5, ZenonT(30) DEF EmplaceSession, clients
  <2>2. CASE p = q /\ ~(q \in disconnected_pids \/ q \in pid_session_map)
    <3>1. w = c
      BY <1>5, <2>1, <2>2, EmplaceEffect, ZenonT(30) DEF WrapperIs
    <3>2. Followed(c, client)
      BY <2>1, <2>2, <3>1, ZenonT(30) DEF ClosedInv
    <3>3. QED
      BY <1>1, <2>1, <3>1, <3>2, ZenonT(30)
  <2>3. CASE ~(p = q /\ ~(q \in disconnected_pids \/ q \in pid_session_map))
    <3>1. w = v
      <4>1. CASE q \in disconnected_pids \/ q \in pid_session_map
        BY <1>5, <4>1, ZenonT(30) DEF EmplaceSession
      <4>2. CASE ~(q \in disconnected_pids \/ q \in pid_session_map)
        <5>1. \A r \in Pids \ {q} : wrapper'[r] = wrapper[r]
          BY <1>5, <2>1, <4>2, EmplaceEffect, ZenonT(30) DEF WrapperIs
        <5>2. p # q
          BY <2>3, <4>2, ZenonT(30)
        <5>3. QED
          BY <5>1, <5>2, ZenonT(30)
      <4>3. QED
        BY <4>1, <4>2, ZenonT(30)
    <3>2. v \in Connections /\ v # NoConnection
      BY <1>0, <3>1, ZenonT(30)
    <3>3. Followed(v, client)
      BY <2>1, <3>1, <3>2, ZenonT(30) DEF ClosedInv
    <3>4. QED
      BY <1>1, <3>1, <3>2, <3>3, ZenonT(30)
  <2>4. QED
    BY <2>2, <2>3, ZenonT(30)
<1>6. CASE OnAcquireResponse
  <2> DEFINE q == ClientPid[dispatch.connection]
  <2>1. w = v
    <3>1. CASE q \in pid_session_map /\ wrapper[q].connection = dispatch.connection
      BY <1>6, <3>1, ResponseEffect, ZenonT(30) DEF WrapperIs
    <3>2. CASE ~(q \in pid_session_map /\ wrapper[q].connection = dispatch.connection)
      BY <1>6, <3>2, ZenonT(30) DEF OnAcquireResponse
    <3>3. QED
      BY <3>1, <3>2, ZenonT(30)
  <2>2. UNCHANGED client
    BY <1>6, ZenonT(30) DEF OnAcquireResponse, clients
  <2>3. v \in Connections /\ v # NoConnection
    BY <1>0, <2>1, ZenonT(30)
  <2>4. Followed(v, client)
    BY <2>1, <2>2, <2>3, ZenonT(30) DEF ClosedInv
  <2>5. QED
    BY <1>1, <2>1, <2>3, <2>4, ZenonT(30)
<1>7. CASE UNCHANGED wrapper /\ ~(\E d \in Connections : Disconnect(d))
  <2>1. w = v /\ v \in Connections
    BY <1>0, <1>7, ZenonT(30)
  <2>2. QED
    BY <1>2, <1>7, <2>1, ZenonT(30)
<1>8. ASSUME ~(\E d \in Connections : Disconnect(d)),
             (\E c \in Connections : ClientStep(c) \/ Connect(c) \/ CreateSession(c) \/ StartResponse(c))
               \/ CreateFailed
      PROVE  UNCHANGED wrapper
  BY <1>8, ZenonT(30)
  DEF ClientStep, Answer, WritersRelease, Hang, Exit, Connect, CreateSession,
      StartResponse, CreateFailed, server
<1>9. QED
  BY <1>3, <1>4, <1>5, <1>6, <1>7, <1>8, ZenonT(30) DEF Next, DispatchStep

(* The disconnect of a client whose session is being created is remembered *)
(* until its process connects again.                                       *)
LEMMA RememberedStep ==
  ASSUME ServerInv, Next, dispatch'.pc = "Create", client'[dispatch'.connection] = "closed"
  PROVE  ClientPid[dispatch'.connection] \in disconnected_pids' \/ Followed(dispatch'.connection, client')
<1> USE DEF ServerInv
<1> DEFINE c == dispatch.connection
           p == ClientPid[dispatch.connection]
<1>0. /\ client \in [Connections -> {"new", "connected", "attached", "hung", "exited", "closed"}]
      /\ \A d \in Connections : ClientPid[d] \in Pids /\ d \in Nat
      /\ dispatch.pc # "Idle" => dispatch.connection \in Connections
  BY ServerAssumption, ZenonT(30) DEF TypeOK, PositionInv
<1>1. ASSUME NEW d \in Connections, CreateSession(d) PROVE FALSE
  <2>1. dispatch'.connection = d /\ client'[d] = "attached"
    BY <1>0, <1>1, ZenonT(30) DEF CreateSession
  <2>2. QED
    BY <2>1, ZenonT(30)
<1>2. ASSUME ~(\E d \in Connections : CreateSession(d)) PROVE UNCHANGED dispatch
  <2>1. CASE WorkerStep \/ Destructor \/ Time
    BY <2>1, WorkerLeaves, ZenonT(30)
  <2>2. ASSUME NEW d \in Connections, ClientStep(d) \/ Connect(d) \/ Disconnect(d)
        PROVE  UNCHANGED dispatch
    BY <2>2, ZenonT(30)
    DEF ClientStep, Answer, WritersRelease, Hang, Exit, Connect, Disconnect, threads
  <2>3. ASSUME NEW d \in Connections, StartResponse(d) PROVE FALSE
    BY <2>3, ZenonT(30) DEF StartResponse
  <2>4. CASE CreateFailed \/ EmplaceSession \/ OnAcquireResponse
    <3>1. dispatch' = [pc |-> "Idle", connection |-> NoConnection]
      BY <2>4, ZenonT(30) DEF CreateFailed, EmplaceSession, OnAcquireResponse
    <3>2. QED
      BY <3>1, ZenonT(30)
  <2>5. QED
    BY <1>2, <2>1, <2>2, <2>3, <2>4, ZenonT(30) DEF Next, DispatchStep
<1>3. CASE UNCHANGED dispatch
  <2>1. c \in Connections /\ dispatch.pc = "Create" /\ client'[c] = "closed"
    BY <1>0, <1>3, ZenonT(30)
  <2>2. CASE Disconnect(c)
    BY <1>3, <2>2, ZenonT(30) DEF Disconnect
  <2>3. CASE ~Disconnect(c)
    <3>1. ~Connect(c)
      BY <2>1, ZenonT(30) DEF Connect, ConnectionInv
    <3>2. client[c] = "closed"
      BY <2>1, <2>3, <3>1, OthersKeepClients, ZenonT(30)
    <3>3. p \in disconnected_pids \/ Followed(c, client)
      BY <2>1, <3>2, ZenonT(30) DEF ClosedInv
    <3>4. CASE Followed(c, client)
      BY <1>3, <2>1, <3>4, StaysReconnected, ZenonT(30)
    <3>5. ASSUME NEW d \in Connections, Connect(d), ClientPid[d] = p PROVE Followed(c, client')
      <4>1. c # d /\ client[d] = "new"
        BY <3>1, <3>5, ZenonT(30) DEF Connect
      <4>2. ~(d < c)
        BY <2>1, <3>2, <3>5, <4>1, ZenonT(30) DEF ClosedInv
      <4>3. d > c
        BY <1>0, <2>1, <4>1, <4>2, SMTT(30), Z3T(30)
      <4>4. client'[d] # "new"
        BY <1>0, <3>5, ZenonT(30) DEF Connect
      <4>5. QED
        BY <3>5, <4>3, <4>4, ZenonT(30) DEF Followed
    <3>6. ASSUME p \in disconnected_pids,
                 ~(\E d \in Connections : Connect(d) /\ ClientPid[d] = p)
          PROVE  p \in disconnected_pids'
      <4>1. CASE WorkerStep \/ Destructor \/ Time
        BY <3>6, <4>1, WorkerLeaves, ZenonT(30)
      <4>2. ASSUME NEW d \in Connections,
                   ClientStep(d) \/ Connect(d) \/ Disconnect(d) \/ CreateSession(d) \/ StartResponse(d)
            PROVE  p \in disconnected_pids'
        BY <3>6, <4>2, ZenonT(30)
        DEF ClientStep, Answer, WritersRelease, Hang, Exit, Connect, Disconnect,
            CreateSession, StartResponse, server
      <4>3. CASE CreateFailed \/ EmplaceSession \/ OnAcquireResponse
        BY <3>6, <4>3, ZenonT(30) DEF CreateFailed, EmplaceSession, OnAcquireResponse, server
      <4>4. QED
        BY <4>1, <4>2, <4>3, ZenonT(30) DEF Next, DispatchStep
    <3>7. QED
      BY <1>3, <3>3, <3>4, <3>5, <3>6, ZenonT(30)
  <2>4. QED
    BY <2>2, <2>3, ZenonT(30)
<1>4. QED
  BY <1>1, <1>2, <1>3, ZenonT(30)

(* Every step keeps track of the closed connections.                       *)
LEMMA ClosedStep ==
  ASSUME ServerInv, Next
  PROVE  ClosedInv'
<1>1. \A c, d \in Connections :
        c < d /\ ClientPid[c] = ClientPid[d] /\ client'[d] # "new" => client'[c] = "closed"
  BY OrderStep, ZenonT(30)
<1>2. \A p \in Pids :
        wrapper'[p].connection # NoConnection /\ client'[wrapper'[p].connection] = "closed" =>
          Followed(wrapper'[p].connection, client')
  BY KeptStep, ZenonT(30)
<1>3. dispatch'.pc = "Create" /\ client'[dispatch'.connection] = "closed" =>
        ClientPid[dispatch'.connection] \in disconnected_pids' \/ Followed(dispatch'.connection, client')
  BY RememberedStep, ZenonT(30)
<1>4. QED
  BY <1>1, <1>2, <1>3, ZenonT(30) DEF ClosedInv

-----------------------------------------------------------------------------
(* Every step keeps the marks                                              *)

(* The marks of a wrapper may be set, not cleared, and its misses stay as  *)
(* they are or are below the limit; the session is as before.              *)
MarksGrow(q) ==
  /\ wrapper'[q].to_delete => wrapper[q].to_delete \/ wrapper'[q].closed_by_peer
  /\ wrapper[q].closed_by_peer => wrapper'[q].closed_by_peer
  /\ \/ MissesKept(q)
     \/ ~wrapper'[q].acquire_in_flight /\ wrapper'[q].acquire_miss_count # MaxMisses
  /\ session'[q].command_detach_on_closed <=> session[q].command_detach_on_closed
  /\ session'[q].detach_on_closed_processed <=> session[q].detach_on_closed_processed

(* A callback that takes back no mark keeps the path of the marks.         *)
LEMMA MarksAfterCallback ==
  ASSUME NEW q, Detach(q), Misses(q), MarksGrow(q), UNCHANGED worker
  PROVE  Detach(q)' /\ Misses(q)'
  BY ZenonT(30) DEF Detach, Misses, MarksGrow, MissesKept, Ticks

(* The same for a session that is not in its tick.                         *)
LEMMA MarksElsewhere ==
  ASSUME NEW q, Detach(q), Misses(q), MarksGrow(q), worker.pid # q, worker'.pid # q
  PROVE  Detach(q)' /\ Misses(q)'
  BY ZenonT(30) DEF Detach, Misses, MarksGrow, MissesKept, Ticks

(* What leaves a session alone takes back no mark.                         *)
LEMMA MarksUntouched ==
  ASSUME NEW q, wrapper'[q] = wrapper[q], session'[q] = session[q]
  PROVE  MarksGrow(q)
  BY ZenonT(30) DEF MarksGrow, MissesKept

(* The other sessions, while the worker goes on with its tick.             *)
LEMMA MarksOfOthers ==
  ASSUME MarkInv, NEW p \in Pids, worker.pid = p, worker'.pid \in {p, NoPid},
         NEW q \in Pids \ {p}, wrapper'[q] = wrapper[q], session'[q] = session[q]
  PROVE  Detach(q)' /\ Misses(q)'
<1>1. worker.pid # q /\ worker'.pid # q
  BY ServerAssumption, ZenonT(30)
<1>2. QED
  BY <1>1, MarksElsewhere, MarksUntouched, ZenonT(30) DEF MarkInv

(* The callbacks of the dispatch thread keep the path of the marks.        *)
LEMMA DispatchMarks ==
  ASSUME ServerInv, DispatchStep
  PROVE  MarkInv'
<1> USE DEF ServerInv
<1>0. UNCHANGED worker
  BY ZenonT(30)
  DEF DispatchStep, Connect, CreateSession, Disconnect, StartResponse,
      CreateFailed, EmplaceSession,
              OnAcquireResponse, threads
<1>1. ASSUME NEW p \in Pids, MarksGrow(p),
             \A q \in Pids \ {p} : wrapper'[q] = wrapper[q] /\ session'[q] = session[q]
      PROVE  MarkInv'
  <2>1. ASSUME NEW q \in Pids PROVE Detach(q)' /\ Misses(q)'
    BY <1>0, <1>1, <2>1, MarksAfterCallback, MarksUntouched, ZenonT(30) DEF MarkInv
  <2>2. QED
    BY <2>1, ZenonT(30) DEF MarkInv
<1>2. ASSUME UNCHANGED <<wrapper, session>> PROVE MarkInv'
  <2>1. ASSUME NEW q \in Pids PROVE Detach(q)' /\ Misses(q)'
    BY <1>0, <1>2, <2>1, MarksAfterCallback, MarksUntouched, ZenonT(30) DEF MarkInv
  <2>2. QED
    BY <2>1, ZenonT(30) DEF MarkInv
<1>3. ASSUME NEW c \in Connections, Connect(c) \/ CreateSession(c) \/ StartResponse(c) PROVE MarkInv'
  BY <1>2, <1>3, ZenonT(30) DEF Connect, CreateSession, StartResponse, server
<1>4. ASSUME NEW c \in Connections, Disconnect(c) PROVE MarkInv'
  <2> DEFINE p == ClientPid[c]
  <2>1. UNCHANGED session /\ (p \notin pid_session_map => UNCHANGED wrapper)
    BY <1>4, ZenonT(30) DEF Disconnect
  <2>2. CASE p \in pid_session_map
    <3>1. p \in Pids
      BY <2>2, ZenonT(30) DEF TypeOK
    <3>2. MarksGrow(p) /\ \A q \in Pids \ {p} : wrapper'[q] = wrapper[q]
      BY <1>4, <2>1, <2>2, DisconnectEffect, ZenonT(30) DEF WrapperIs, MarksGrow
    <3>3. QED
      BY <1>1, <2>1, <3>1, <3>2, ZenonT(30)
  <2>3. CASE p \notin pid_session_map
    BY <1>2, <2>1, <2>3, ZenonT(30)
  <2>4. QED
    BY <2>2, <2>3, ZenonT(30)
<1>5. CASE CreateFailed
  BY <1>2, <1>5, ZenonT(30) DEF CreateFailed, server
<1>6. CASE EmplaceSession
  <2> DEFINE c == dispatch.connection
             p == ClientPid[c]
  <2>1. c \in Connections /\ p \in Pids
    BY <1>6, ServerAssumption, ZenonT(30) DEF EmplaceSession, PositionInv
  <2>2. CASE p \in disconnected_pids \/ p \in pid_session_map
    BY <1>2, <1>6, <2>2, ZenonT(30) DEF EmplaceSession
  <2>3. CASE ~(p \in disconnected_pids \/ p \in pid_session_map)
    <3>1. wrapper[p] = NewWrapper(NoConnection) /\ session[p] = NewSession(NoConnection)
      BY <2>1, <2>3, ZenonT(30) DEF PositionInv
    <3>2. /\ ~wrapper[p].closed_by_peer
          /\ ~session[p].command_detach_on_closed /\ ~session[p].detach_on_closed_processed
      BY <3>1, NewWrapperFields, NewSessionFields, ZenonT(30)
    <3>3. 0 # MaxMisses
      BY ServerAssumption, ZenonT(30)
    <3>4. /\ WrapperIs(p, c, TRUE, FALSE, FALSE, FALSE)
          /\ wrapper'[p].acquire_miss_count = 0 /\ ~wrapper'[p].acquire_in_flight
          /\ SessionIs(p, FALSE, FALSE, FALSE, FALSE)
      BY <1>6, <2>1, <2>3, EmplaceEffect, ZenonT(30)
    <3>5. MarksGrow(p)
      BY <3>2, <3>3, <3>4, ZenonT(30) DEF WrapperIs, SessionIs, MarksGrow
    <3>6. QED
      BY <1>1, <2>1, <3>4, <3>5, ZenonT(30) DEF WrapperIs, SessionIs
  <2>4. QED
    BY <2>2, <2>3, ZenonT(30)
<1>7. CASE OnAcquireResponse
  <2> DEFINE p == ClientPid[dispatch.connection]
  <2>1. CASE p \in pid_session_map /\ wrapper[p].connection = dispatch.connection
    <3>1. p \in Pids /\ 0 # MaxMisses
      BY <2>1, ServerAssumption, ZenonT(30) DEF TypeOK
    <3>2. /\ WrapperIs(p, wrapper[p].connection, wrapper[p].enqueued \/ ~wrapper[p].to_delete,
                      wrapper[p].running, wrapper[p].to_delete,
                      wrapper[p].closed_by_peer)
          /\ wrapper'[p].acquire_miss_count = 0 /\ ~wrapper'[p].acquire_in_flight
          /\ SessionIs(p, session[p].command_detach_on_closed, session[p].acquire_requested,
                       TRUE, session[p].detach_on_closed_processed)
      BY <1>7, <2>1, ResponseEffect, ZenonT(30)
    <3>3. MarksGrow(p)
      BY <3>1, <3>2, ZenonT(30) DEF WrapperIs, SessionIs, MarksGrow
    <3>4. QED
      BY <1>1, <3>1, <3>2, <3>3, ZenonT(30) DEF WrapperIs, SessionIs
  <2>2. CASE ~(p \in pid_session_map /\ wrapper[p].connection = dispatch.connection)
    BY <1>2, <1>7, <2>2, ZenonT(30) DEF OnAcquireResponse
  <2>3. QED
    BY <2>1, <2>2, ZenonT(30)
<1>8. QED
  BY <1>3, <1>4, <1>5, <1>6, <1>7, ZenonT(30) DEF DispatchStep

(* One tick: the session of the worker.                                    *)
LEMMA TickMarks ==
  ASSUME ServerInv, NEW p \in Pids, p = worker.pid,
         \/ NotifyClosedByPeer \/ Tick
         \/ ForceFinish \/ RequeueTick \/ RemoveSession \/ TickEnd
  PROVE  MarkInv'
<1> USE DEF ServerInv
<1>1. ASSUME Detach(p)', Misses(p)', worker'.pid \in {p, NoPid},
             \A q \in Pids \ {p} : wrapper'[q] = wrapper[q] /\ session'[q] = session[q]
      PROVE  MarkInv'
  <2>1. ASSUME NEW q \in Pids PROVE Detach(q)' /\ Misses(q)'
    BY <1>1, <2>1, MarksOfOthers, ZenonT(30)
  <2>2. QED
    BY <2>1, ZenonT(30) DEF MarkInv
<1>2. Detach(p) /\ Misses(p) /\ p # NoPid
  BY ServerAssumption, ZenonT(30) DEF MarkInv
<1>3. ASSUME UNCHANGED wrapper, worker'.pid = p,
             \A q \in Pids \ {p} : session'[q] = session[q],
             session[p].command_detach_on_closed => session'[p].command_detach_on_closed,
             worker.pc = "Notify" => session'[p].command_detach_on_closed,
             Detach(p)'
      PROVE  MarkInv'
  <2>1. Misses(p)'
    BY <1>2, <1>3, ZenonT(30) DEF Misses, Ticks
  <2>2. QED
    BY <1>1, <1>3, <2>1, ZenonT(30)
<1>4. CASE NotifyClosedByPeer \/ ForceFinish
  <2>1. /\ SessionIs(p, TRUE, session[p].acquire_requested, session[p].data_acquired,
                     session[p].detach_on_closed_processed)
        /\ worker'.pc = "Tick" /\ worker'.pid = p
    BY <1>4, DetachEffect, ZenonT(30)
  <2>2. UNCHANGED wrapper /\ worker'.pc # "Command" /\ worker'.pc # "Request"
    BY <1>4, <2>1, ZenonT(30) DEF NotifyClosedByPeer, ForceFinish
  <2>3. Detach(p)'
    BY <2>1, <2>2, ZenonT(30) DEF Detach, Ticks, SessionIs
  <2>4. QED
    BY <1>3, <2>1, <2>2, <2>3, ZenonT(30) DEF SessionIs
<1>5. CASE StartTick
  <2>1. /\ worker.pc = "Tick" /\ worker'.pid = p /\ UNCHANGED <<wrapper, session>>
        /\ worker'.closed_by_peer <=> worker.closed_by_peer
        /\ worker'.finishing <=> worker.finishing
        /\ session[p].detach_on_closed_processed \/ worker'.pc \in {"Finalize", "Read"}
        /\ worker'.pc \in {"Relock", "Finalize", "Read"}
    BY <1>5, ZenonT(30) DEF StartTick, TypeOK, server
  <2>2. /\ worker'.pc # "Command" /\ worker'.pc # "Request"
        /\ worker.pc # "Notify"
    BY <2>1, ZenonT(30)
  <2>3. Detach(p)'
    BY <1>2, <2>1, <2>2, ZenonT(30) DEF Detach, Ticks
  <2>4. QED
    BY <1>3, <2>1, <2>2, <2>3, ZenonT(30)
<1>6. CASE FinalizeAcquisition
  <2>1. /\ SessionIs(p, session[p].command_detach_on_closed, session[p].acquire_requested,
                     session[p].data_acquired /\ ~BlockReleased(p),
                     session[p].detach_on_closed_processed)
        /\ MovesTo("Read")
    BY <1>6, FinalizeEffect, ZenonT(30)
  <2>2. /\ UNCHANGED wrapper /\ worker'.pc # "Command" /\ worker'.pc # "Request"
        /\ worker.pc # "Notify"
    BY <1>6, <2>1, ZenonT(30) DEF FinalizeAcquisition, MovesTo
  <2>3. Detach(p)'
    BY <1>2, <2>1, <2>2, ZenonT(30) DEF Detach, Ticks, SessionIs, MovesTo
  <2>4. QED
    BY <1>3, <2>1, <2>2, <2>3, ZenonT(30) DEF SessionIs, MovesTo
<1>7. CASE ReadBuffers
  <2>1. /\ SessionIs(p, session[p].command_detach_on_closed, session[p].acquire_requested,
                     session[p].data_acquired,
                     session[p].detach_on_closed_processed \/ session[p].command_detach_on_closed)
        /\ MovesTo("Command")
        /\ worker'.detach_needed <=> session[p].command_detach_on_closed
    BY <1>7, ReadEffect, ZenonT(30)
  <2>2. /\ UNCHANGED wrapper /\ worker'.pc # "Request"
        /\ worker.pc # "Notify"
    BY <1>7, <2>1, ZenonT(30) DEF ReadBuffers, MovesTo
  <2>3. Detach(p)'
    BY <1>2, <2>1, <2>2, ZenonT(30) DEF Detach, Ticks, SessionIs, MovesTo
  <2>4. QED
    BY <1>3, <2>1, <2>2, <2>3, ZenonT(30) DEF SessionIs, MovesTo
(* From the section of command_data_ to the end of the tick: the command   *)
(* to detach has been carried out.                                         *)
<1>8. ASSUME worker.pc \in {"Command", "Request"}, worker'.pc = "Relock", worker'.pid = p,
             worker'.closed_by_peer <=> worker.closed_by_peer,
             worker'.finishing <=> worker.finishing,
             wrapper'[p].to_delete => wrapper[p].to_delete \/ wrapper'[p].closed_by_peer,
             wrapper[p].closed_by_peer => wrapper'[p].closed_by_peer,
             session'[p].command_detach_on_closed <=> session[p].command_detach_on_closed,
             session'[p].detach_on_closed_processed <=> session[p].detach_on_closed_processed
      PROVE  Detach(p)'
  <2>1. worker'.pc # "Command" /\ worker'.pc # "Request" /\ worker.pc # "Notify"
        /\ worker.pc \notin {"Tick", "Finalize", "Read"} /\ worker.pc \notin {"Notify"}
    BY <1>8, ZenonT(30)
  <2>2. QED
    BY <1>2, <1>8, <2>1, ZenonT(30) DEF Detach, Ticks
<1>9. CASE AcquisitionDone
  <2>1. /\ SessionIs(p, session[p].command_detach_on_closed, FALSE, session[p].data_acquired,
                     session[p].detach_on_closed_processed)
        /\ MovesTo("Relock")
    BY <1>9, DoneEffect, ZenonT(30)
  <2>2. UNCHANGED wrapper /\ worker.pc = "Command" /\ worker.pc # "Notify"
    BY <1>9, ZenonT(30) DEF AcquisitionDone
  <2>3. Detach(p)'
    BY <1>8, <2>1, <2>2, ZenonT(30) DEF SessionIs, MovesTo
  <2>4. QED
    BY <1>3, <2>1, <2>2, <2>3, ZenonT(30) DEF SessionIs, MovesTo
<1>10. CASE PostponeRequest
  <2>1. SameSession(p) /\ MovesTo("Relock")
    BY <1>10, PostponeEffect, ZenonT(30)
  <2>2. UNCHANGED wrapper /\ worker.pc = "Command" /\ worker.pc # "Notify"
    BY <1>10, ZenonT(30) DEF PostponeRequest
  <2>3. Detach(p)'
    BY <1>8, <2>1, <2>2, ZenonT(30) DEF SessionIs, SameSession, MovesTo
  <2>4. QED
    BY <1>3, <2>1, <2>2, <2>3, ZenonT(30) DEF SessionIs, SameSession, MovesTo
<1>11. CASE NothingToRequest
  <2>1. UNCHANGED <<wrapper, session>> /\ MovesTo("Relock") /\ worker.pc = "Command"
    BY <1>11, ZenonT(30) DEF NothingToRequest, server, TypeOK, MovesTo
  <2>2. worker.pc # "Notify"
    BY <2>1, ZenonT(30)
  <2>3. Detach(p)'
    BY <1>8, <2>1, <2>2, ZenonT(30) DEF MovesTo
  <2>4. QED
    BY <1>3, <2>1, <2>2, <2>3, ZenonT(30) DEF MovesTo
<1>12. CASE DecideRequest
  <2>1. /\ UNCHANGED <<wrapper, session>> /\ MovesTo("Request") /\ worker.pc = "Command"
        /\ ~worker.detach_needed
    BY <1>12, ZenonT(30) DEF DecideRequest, MayRequest, server, TypeOK, MovesTo
  <2>2. /\ worker.pc # "Notify" /\ worker'.pc # "Command"
        /\ worker.pc \notin {"Tick", "Finalize", "Read"} /\ worker.pc \notin {"Notify"}
    BY <2>1, ZenonT(30) DEF MovesTo
  <2>3. Detach(p)'
    BY <1>2, <2>1, <2>2, ZenonT(30) DEF Detach, Ticks, MovesTo
  <2>4. QED
    BY <1>3, <2>1, <2>2, <2>3, ZenonT(30) DEF MovesTo
<1>13. ASSUME NEW result \in BOOLEAN, Requested(result), worker.pc = "Request"
       PROVE  /\ SessionIs(p, session[p].command_detach_on_closed, result, session[p].data_acquired,
                           session[p].detach_on_closed_processed)
              /\ MovesTo("Relock") /\ worker.pc # "Notify"
  BY <1>13, RequestedEffect, ZenonT(30)
<1>14. CASE RequestRefused \/ NotifyPoolExhausted
  <2>1. UNCHANGED wrapper /\ worker.pc = "Request" /\ \E result \in BOOLEAN : Requested(result)
    BY <1>14, ZenonT(30) DEF RequestRefused, NotifyPoolExhausted, MaySend
  <2>2. Detach(p)'
    BY <1>8, <1>13, <2>1, ZenonT(30) DEF SessionIs, MovesTo
  <2>3. QED
    BY <1>3, <1>13, <2>1, <2>2, ZenonT(30) DEF SessionIs, MovesTo
<1>15. CASE SendRequest
  <2>1. worker.pc = "Request" /\ Requested(TRUE) /\ TRUE \in BOOLEAN
    BY <1>15, ZenonT(30) DEF SendRequest, MaySend
  <2>2. CASE wrapper[p].acquire_in_flight
    <3>1. UNCHANGED wrapper
      BY <1>15, <2>2, ZenonT(30) DEF SendRequest
    <3>2. Detach(p)'
      BY <1>8, <1>13, <2>1, <3>1, ZenonT(30) DEF SessionIs, MovesTo
    <3>3. QED
      BY <1>3, <1>13, <2>1, <3>1, <3>2, ZenonT(30) DEF SessionIs, MovesTo
  <2>3. CASE ~wrapper[p].acquire_in_flight
    <3>1. /\ WrapperIs(p, wrapper[p].connection, wrapper[p].enqueued, wrapper[p].running,
                      wrapper[p].to_delete, wrapper[p].closed_by_peer)
          /\ wrapper'[p].acquire_miss_count = wrapper[p].acquire_miss_count
      BY <1>15, <2>3, SendEffect, ZenonT(30)
    <3>2. Detach(p)'
      BY <1>8, <1>13, <2>1, <3>1, ZenonT(30) DEF SessionIs, MovesTo, WrapperIs
    <3>3. wrapper[p].acquire_miss_count # MaxMisses
      <4>1. ~session[p].command_detach_on_closed
        BY <1>2, <2>1, ZenonT(30) DEF Detach
      <4>2. worker.pc \notin {"Notify"}
        BY <2>1, ZenonT(30)
      <4>3. QED
        BY <1>2, <4>1, <4>2, ZenonT(30) DEF Misses, Ticks
    <3>4. Misses(p)'
      BY <3>1, <3>3, ZenonT(30) DEF Misses
    <3>5. QED
      BY <1>1, <1>13, <2>1, <3>1, <3>2, <3>4, ZenonT(30)
      DEF SessionIs, MovesTo, WrapperIs
  <2>4. QED
    BY <2>2, <2>3, ZenonT(30)
<1>16. CASE NotifyFailed
  <2>1. worker.pc = "Request" /\ Requested(TRUE) /\ TRUE \in BOOLEAN
    BY <1>16, ZenonT(30) DEF NotifyFailed, MaySend
  <2>2. /\ WrapperIs(p, wrapper[p].connection, wrapper[p].enqueued \/ ~wrapper[p].running,
                     wrapper[p].running, TRUE, TRUE)
        /\ MissesKept(p)
    BY <1>16, NotifyFailedEffect, ZenonT(30)
  <2>3. Detach(p)'
    BY <1>8, <1>13, <2>1, <2>2, ZenonT(30) DEF SessionIs, MovesTo, WrapperIs
  <2>4. Misses(p)'
    <3>1. worker.pc \notin {"Notify"}
      BY <2>1, ZenonT(30)
    <3>2. QED
      BY <1>2, <1>13, <2>1, <2>2, <3>1, ZenonT(30)
      DEF Misses, Ticks, MissesKept, SessionIs
  <2>5. QED
    BY <1>1, <1>13, <2>1, <2>2, <2>3, <2>4, ZenonT(30)
    DEF SessionIs, MovesTo, WrapperIs
<1>17. ASSUME RequeueTick \/ TickEnd \/ RemoveSession
       PROVE  worker.pc = "Relock" /\ worker'.pid = NoPid /\ worker.pc # "Notify"
  BY <1>17, SMTT(30), Z3T(30) DEF RequeueTick, TickEnd, RemoveSession, WorkerAt
<1>18. CASE RequeueTick \/ TickEnd
  <2>1. RequeueTick \/ (TickEnd /\ ~wrapper[p].enqueued)
    BY <1>18, ZenonT(30) DEF TickEnd, Requeued
  <2>2. /\ WrapperIs(p, wrapper[p].connection, RequeueTick, FALSE, wrapper[p].to_delete,
                      wrapper[p].closed_by_peer)
        /\ MissesKept(p)
    BY <2>1, TickedEffect, ZenonT(30)
  <2>3. UNCHANGED session
    BY <1>18, ZenonT(30) DEF RequeueTick, TickEnd
  <2>4. worker.pc \notin {"Tick", "Finalize", "Read"} /\ worker.pc \notin {"Notify"} /\ worker'.pid # p
    BY <1>2, <1>17, <1>18, ZenonT(30)
  <2>5. Detach(p)'
    BY <1>2, <2>2, <2>3, <2>4, ZenonT(30) DEF Detach, Ticks, WrapperIs
  <2>6. Misses(p)'
    BY <1>2, <2>2, <2>3, <2>4, ZenonT(30) DEF Misses, Ticks, WrapperIs, MissesKept
  <2>7. QED
    BY <1>1, <1>17, <1>18, <2>2, <2>3, <2>5, <2>6, ZenonT(30) DEF WrapperIs
<1>19. CASE RemoveSession
  <2>1. /\ WrapperIs(p, NoConnection, FALSE, FALSE, FALSE, FALSE)
        /\ wrapper'[p].acquire_miss_count = 0 /\ ~wrapper'[p].acquire_in_flight
        /\ SessionIs(p, FALSE, FALSE, FALSE, FALSE)
    BY <1>19, RemoveEffect, ZenonT(30)
  <2>2. 0 # MaxMisses /\ worker'.pid # p
    BY <1>2, <1>17, <1>19, ServerAssumption, ZenonT(30)
  <2>3. Detach(p)' /\ Misses(p)'
    BY <2>1, <2>2, ZenonT(30) DEF Detach, Misses, Ticks, WrapperIs, SessionIs
  <2>4. QED
    BY <1>1, <1>17, <1>19, <2>1, <2>3, ZenonT(30) DEF WrapperIs, SessionIs
<1>20. QED
  BY <1>4, <1>5, <1>6, <1>7, <1>9, <1>10, <1>11, <1>12, <1>14, <1>15, <1>16,
     <1>18, <1>19, ZenonT(30)
  DEF Tick

(* Every step keeps the path of the marks.                                 *)
LEMMA MarkStep ==
  ASSUME ServerInv, Next
  PROVE  MarkInv'
<1> USE DEF ServerInv
<1> DEFINE Good(q) == Detach(q)' /\ Misses(q)'
<1>1. ASSUME NEW q \in Pids, worker'.pid = worker.pid, worker.pid = NoPid, MarksGrow(q) PROVE Good(q)
  BY <1>1, MarksElsewhere, ServerAssumption, ZenonT(30) DEF MarkInv
<1>2. ASSUME \A q \in Pids : Good(q) PROVE MarkInv'
  BY <1>2, ZenonT(30) DEF MarkInv
<1>3. ASSUME UNCHANGED wrapper, UNCHANGED session,
             UNCHANGED worker \/ (worker'.pid = NoPid /\ worker.pid = NoPid)
      PROVE  MarkInv'
  <2>1. ASSUME NEW q \in Pids PROVE Good(q)
    BY <1>1, <1>3, <2>1, MarksAfterCallback, MarksUntouched, ZenonT(30) DEF MarkInv
  <2>2. QED
    BY <1>2, <2>1, ZenonT(30)
<1>4. ASSUME NEW c \in Connections, ClientStep(c) PROVE MarkInv'
  <2>1. UNCHANGED wrapper /\ UNCHANGED session /\ UNCHANGED worker
    BY <1>4, ZenonT(30)
    DEF ClientStep, Answer, WritersRelease, Hang, Exit, server, threads
  <2>2. QED
    BY <1>3, <2>1, ZenonT(30)
<1>5. CASE ResetReceiver \/ ExitWorkers \/ PeriodOver
  <2>1. UNCHANGED wrapper /\ UNCHANGED session /\ UNCHANGED worker
    BY <1>5, ZenonT(30) DEF ResetReceiver, ExitWorkers, PeriodOver, server
  <2>2. QED
    BY <1>3, <2>1, ZenonT(30)
<1>6. ASSUME NEW r \in Pids, DeadlineOver(r) PROVE MarkInv'
  <2>1. ASSUME NEW q \in Pids PROVE Good(q)
    <3>1. UNCHANGED <<worker, session>>
      BY <1>6, ZenonT(30) DEF DeadlineOver, threads
    <3>2. MarksGrow(q)
      BY <1>6, <3>1, DeadlineEffect, MarksUntouched, ZenonT(30)
      DEF WrapperIs, MarksGrow
    <3>3. QED
      BY <3>1, <3>2, MarksAfterCallback, ZenonT(30) DEF MarkInv
  <2>2. QED
    BY <1>2, <2>1, ZenonT(30)
<1>7. CASE WakeUp \/ DrainEnd \/ WorkerExit
  <2>1. worker.pid = NoPid /\ worker'.pid = NoPid /\ UNCHANGED <<wrapper, session>>
    BY <1>7, ZenonT(30)
    DEF WakeUp, DrainEnd, WorkerExit, PositionInv, WithoutTick, TypeOK, server
  <2>2. QED
    BY <1>3, <2>1, ZenonT(30)
<1>8. ASSUME NEW r \in Pids, ScanSession(r) PROVE MarkInv'
  <2>1. worker.pid = NoPid /\ worker'.pid = NoPid /\ UNCHANGED session
    BY <1>8, ZenonT(30) DEF ScanSession, PositionInv, WithoutTick, TypeOK
  <2>2. ASSUME NEW q \in Pids PROVE Good(q)
    <3>1. CASE q = r
      <4>1. wrapper'[r].to_delete => wrapper[r].to_delete \/ wrapper'[r].closed_by_peer
        BY <1>8, ScanEffect, ZenonT(30) DEF WrapperIs, MarkInv
      <4>2. wrapper[r].closed_by_peer => wrapper'[r].closed_by_peer
        BY <1>8, ScanEffect, ZenonT(30) DEF WrapperIs, MarkInv
      <4>3. CASE MarksGrow(r)
        BY <1>1, <2>1, <3>1, <4>3, ZenonT(30)
      <4>4. CASE ~wrapper'[r].acquire_in_flight /\ wrapper'[r].closed_by_peer
        <5>1. r # NoPid
          BY ServerAssumption, ZenonT(30)
        <5>2. Detach(r) /\ Misses(r)
          BY ZenonT(30) DEF MarkInv
        <5>3. Detach(r)'
          BY <2>1, <4>4, <5>1, <5>2, ZenonT(30) DEF Detach, Ticks
        <5>4. Misses(r)'
          BY <2>1, <4>4, <5>1, ZenonT(30) DEF Misses
        <5>5. QED
          BY <3>1, <5>3, <5>4, ZenonT(30)
      <4>5. QED
        BY <1>8, <2>1, <4>1, <4>2, <4>3, <4>4, ScanEffect, ZenonT(30)
        DEF MarksGrow, MarkInv
    <3>2. CASE q # r
      <4>1. wrapper'[q] = wrapper[q] /\ session'[q] = session[q]
        BY <1>8, <2>1, <3>2, ScanEffect, ZenonT(30) DEF WrapperIs, MarkInv
      <4>2. QED
        BY <1>1, <2>1, <4>1, MarksUntouched, ZenonT(30)
    <3>3. QED
      BY <3>1, <3>2, ZenonT(30)
  <2>3. QED
    BY <1>2, <2>2, ZenonT(30)
<1>9. CASE PopTick
  <2>1. PICK r \in Pids : r = Head(work_queue)
    BY <1>9, HeadTailProperties, ZenonT(30) DEF PopTick, TypeOK
  <2>2. /\ WrapperIs(r, wrapper[r].connection, FALSE, TRUE, wrapper[r].to_delete, FALSE)
        /\ MissesKept(r)
        /\ worker'.pid = r
        /\ worker'.pc = IF wrapper[r].closed_by_peer THEN "Notify" ELSE "Tick"
        /\ worker'.closed_by_peer <=> wrapper[r].closed_by_peer
        /\ worker'.finishing <=> worker.finishing
    BY <1>9, <2>1, PopEffect, ZenonT(30)
  <2>3. worker.pid = NoPid /\ ~worker.finishing /\ UNCHANGED session
    BY <1>9, ZenonT(30) DEF PopTick, PositionInv, WithoutTick
  <2>4. ASSUME NEW q \in Pids PROVE Good(q)
    <3>1. CASE q = r
      <4>1. Detach(r) /\ Misses(r) /\ worker.pid # r
        BY <2>1, <2>3, ServerAssumption, ZenonT(30) DEF MarkInv
      <4>2. CASE wrapper[r].closed_by_peer
        <5>1. worker'.pc = "Notify" /\ worker'.pc # "Command" /\ worker'.pc # "Request"
          BY <2>2, <4>2, ZenonT(30)
        <5>2. Detach(r)'
          BY <2>2, <2>3, <4>1, <4>2, <5>1, ZenonT(30) DEF Detach, Ticks, WrapperIs
        <5>3. Misses(r)'
          BY <2>2, <2>3, <4>1, <5>1, ZenonT(30) DEF Misses, Ticks, MissesKept
        <5>4. QED
          BY <3>1, <5>2, <5>3, ZenonT(30)
      <4>3. CASE ~wrapper[r].closed_by_peer
        <5>1. worker'.pc = "Tick" /\ worker'.pc # "Command" /\ worker'.pc # "Request"
          BY <2>2, <4>3, ZenonT(30)
        <5>2. Detach(r)'
          BY <2>2, <2>3, <4>1, <4>3, <5>1, ZenonT(30) DEF Detach, Ticks, WrapperIs
        <5>3. Misses(r)'
          BY <2>2, <2>3, <4>1, <4>3, <5>1, ZenonT(30) DEF Misses, Ticks, MissesKept
        <5>4. QED
          BY <3>1, <5>2, <5>3, ZenonT(30)
      <4>4. QED
        BY <3>1, <4>2, <4>3, ZenonT(30)
    <3>2. CASE q # r
      <4>1. worker.pid # q /\ worker'.pid # q
        BY <2>2, <2>3, <3>2, ServerAssumption, ZenonT(30)
      <4>2. MarksGrow(q)
        BY <2>2, <2>3, <3>2, MarksUntouched, ZenonT(30) DEF WrapperIs
      <4>3. QED
        BY <4>1, <4>2, MarksElsewhere, ZenonT(30) DEF MarkInv
    <3>3. QED
      BY <3>1, <3>2, ZenonT(30)
  <2>5. QED
    BY <1>2, <2>4, ZenonT(30)
<1>10. CASE NotifyClosedByPeer \/ Tick \/ ForceFinish \/ RequeueTick \/ RemoveSession \/ TickEnd
  <2>1. worker.pid \in Pids
    BY <1>10, TickPid, ZenonT(30)
       DEF NotifyClosedByPeer, Tick, StartTick, FinalizeAcquisition,
           ReadBuffers, AcquisitionDone,
           NothingToRequest, PostponeRequest, DecideRequest, RequestRefused,
           SendRequest, NotifyPoolExhausted,
           NotifyFailed, MaySend, ForceFinish, RequeueTick, RemoveSession,
           TickEnd, WithoutTick
  <2>2. QED
    BY <1>10, <2>1, TickMarks, ZenonT(30)
<1>11. CASE ClearSessions
  <2>1. worker.pid = NoPid /\ UNCHANGED worker
    BY <1>11, ZenonT(30) DEF ClearSessions, PositionInv, WithoutTick
  <2>2. ASSUME NEW q \in Pids PROVE Good(q)
    <3>1. wrapper'[q] = NewWrapper(NoConnection) /\ session'[q] = NewSession(NoConnection)
      BY <1>11, ZenonT(30) DEF ClearSessions
    <3>2. /\ ~wrapper'[q].to_delete /\ ~wrapper'[q].acquire_in_flight /\ wrapper'[q].acquire_miss_count = 0
          /\ ~session'[q].command_detach_on_closed
      BY <3>1, NewWrapperFields, NewSessionFields, ZenonT(30)
    <3>3. worker'.pid # q /\ 0 # MaxMisses
      BY <2>1, ServerAssumption, ZenonT(30)
    <3>4. QED
      BY <3>2, <3>3, ZenonT(30) DEF Detach, Misses, Ticks
  <2>3. QED
    BY <1>2, <2>2, ZenonT(30)
<1>12. QED
  BY <1>4, <1>5, <1>6, <1>7, <1>8, <1>9, <1>10, <1>11, DispatchMarks, ZenonT(30)
     DEF Next, WorkerStep, Destructor, Time

-----------------------------------------------------------------------------
(* AcquireInv                                                              *)

(* A connection stays with one message, and gets none that it has not had. *)
TrafficKept(d) == Load(d) => Load(d)' /\ (Pending(d)' => Pending(d))

(* The session is not further in its tick than before.                     *)
TickKept(q) ==
  /\ Ticks(q, {"Finalize"})' => Ticks(q, {"Finalize"})
  /\ (Ticks(q, {"Read", "Command"}) /\ worker.finalized)'
       => Ticks(q, {"Read", "Command"}) /\ worker.finalized
  /\ Ticks(q, {"Request"})' => Ticks(q, {"Request"})

(* The session has asked, and has a result, as before.                     *)
SameRequest(q) ==
  /\ session'[q].acquire_requested <=> session[q].acquire_requested
  /\ session'[q].data_acquired <=> session[q].data_acquired

(* No callback and no other tick brings a session out of order.            *)
LEMMA AcquisitionKept ==
  ASSUME NEW q, Acquisition(q), TickKept(q), SameRequest(q),
         NEW d, d = wrapper[q].connection, TrafficKept(d) \/ d = NoConnection,
         wrapper'[q].connection \in {d, NoConnection}
  PROVE  Acquisition(q)'
<1>1. CASE wrapper'[q].connection = NoConnection
  BY <1>1, ZenonT(30) DEF Acquisition, TickKept, SameRequest
<1>2. CASE wrapper'[q].connection = d /\ d # NoConnection
  <2>1. /\ Load(d)' /\ (Pending(d)' => Pending(d))
    BY <1>2, ZenonT(30) DEF Acquisition, TrafficKept
  <2>2. QED
    BY <1>2, <2>1, ZenonT(30) DEF Acquisition, TickKept, SameRequest
<1>3. QED
  BY <1>1, <1>2, ZenonT(30)

(* A session that is not in a tick, or whose tick stands still.            *)
LEMMA TickElsewhere ==
  ASSUME NEW q, UNCHANGED worker \/ worker'.pid # q
  PROVE  TickKept(q)
  BY ZenonT(30) DEF TickKept, Ticks

(* A step that sends nothing and starts no callback keeps the messages.    *)
LEMMA SameTraffic ==
  ASSUME NEW d, UNCHANGED requests, UNCHANGED responses,
         UNCHANGED dispatch \/ ~(dispatch'.pc = "Respond")
  PROVE  TrafficKept(d)
  BY ZenonT(30) DEF TrafficKept, Load, Pending, Quiet, Responding

(* A session that is left alone keeps its request.                         *)
LEMMA SessionUnchanged ==
  ASSUME NEW q, session'[q] = session[q]
  PROVE  SameRequest(q)
  BY ZenonT(30) DEF SameRequest

(* What the environment and the dispatch thread do to the messages.        *)
LEMMA TrafficSteps ==
  ASSUME ServerInv, NEW c \in Connections,
         Answer(c) \/ StartResponse(c) \/ Disconnect(c), NEW d \in Connections
  PROVE  TrafficKept(d)
<1> USE DEF ServerInv
<1>1. /\ requests \in [Connections -> Nat] /\ responses \in [Connections -> Nat]
  BY ZenonT(30) DEF TypeOK
<1>2. CASE Answer(c)
  <2>1. UNCHANGED dispatch /\ requests[c] > 0
        /\ requests' = [requests EXCEPT ![c] = @ - 1]
        /\ responses' = [responses EXCEPT ![c] = @ + 1]
    BY <1>2, ZenonT(30) DEF Answer, threads
  <2>2. QED
    BY <1>1, <2>1, SMTT(30), Z3T(30)
    DEF TrafficKept, Load, Pending, Quiet, Responding
<1>3. CASE StartResponse(c)
  <2>1. /\ dispatch.pc = "Idle" /\ UNCHANGED requests /\ responses[c] > 0
        /\ responses' = [responses EXCEPT ![c] = @ - 1]
        /\ dispatch'.pc = "Respond" /\ dispatch'.connection = c
    BY <1>3, ZenonT(30) DEF StartResponse
  <2>2. QED
    BY <1>1, <2>1, SMTT(30), Z3T(30)
    DEF TrafficKept, Load, Pending, Quiet, Responding
<1>4. CASE Disconnect(c)
  <2>1. /\ dispatch.pc # "Respond" /\ UNCHANGED dispatch
        /\ requests' = [requests EXCEPT ![c] = 0]
        /\ responses' = [responses EXCEPT ![c] = 0]
    BY <1>4, ZenonT(30) DEF Disconnect, MutexFree, threads
  <2>2. QED
    BY <1>1, <2>1, SMTT(30), Z3T(30)
    DEF TrafficKept, Load, Pending, Quiet, Responding
<1>5. QED
  BY <1>2, <1>3, <1>4, ZenonT(30)

(* The callbacks and the clients.                                          *)
LEMMA CallbackAcquire ==
  ASSUME ServerInv, DispatchStep \/ \E c \in Connections : ClientStep(c), NEW q \in Pids
  PROVE  Acquisition(q)'
<1> USE DEF ServerInv
<1>1. Acquisition(q) /\ UNCHANGED worker
  BY ZenonT(30)
  DEF AcquireInv, DispatchStep, ClientStep, Connect, CreateSession, Disconnect,
      StartResponse,
               CreateFailed, EmplaceSession, OnAcquireResponse, Answer,
               WritersRelease, Hang, Exit, threads
<1>2. PICK d : d = wrapper[q].connection /\ d \in Connections \union {NoConnection}
  BY ZenonT(30) DEF TypeOK, Wrapper
<1>3. ASSUME TrafficKept(d) \/ d = NoConnection, SameRequest(q),
             wrapper'[q].connection \in {d, NoConnection}
      PROVE  Acquisition(q)'
  BY <1>1, <1>2, <1>3, AcquisitionKept, TickElsewhere, ZenonT(30)
<1>4. ASSUME UNCHANGED wrapper, UNCHANGED session, TrafficKept(d) \/ d = NoConnection
      PROVE  Acquisition(q)'
  BY <1>2, <1>3, <1>4, SessionUnchanged, ZenonT(30)
<1>5. ASSUME UNCHANGED wrapper, UNCHANGED session, UNCHANGED requests, UNCHANGED responses,
             UNCHANGED dispatch \/ ~(dispatch'.pc = "Respond")
      PROVE  Acquisition(q)'
  BY <1>4, <1>5, SameTraffic, ZenonT(30)
<1>6. ASSUME NEW c \in Connections, Answer(c) \/ StartResponse(c) PROVE Acquisition(q)'
  <2>1. UNCHANGED wrapper /\ UNCHANGED session
    BY <1>6, ZenonT(30) DEF Answer, StartResponse, server
  <2>2. TrafficKept(d) \/ d = NoConnection
    BY <1>2, <1>6, TrafficSteps, ZenonT(30)
  <2>3. QED
    BY <1>4, <2>1, <2>2, ZenonT(30)
<1>7. ASSUME NEW c \in Connections, WritersRelease(c) \/ Hang(c) \/ Exit(c) PROVE Acquisition(q)'
  <2>1. /\ UNCHANGED wrapper /\ UNCHANGED session /\ UNCHANGED requests /\ UNCHANGED responses
        /\ UNCHANGED dispatch
    BY <1>7, ZenonT(30) DEF WritersRelease, Hang, Exit, server, threads
  <2>2. QED
    BY <1>5, <2>1, ZenonT(30)
<1>8. ASSUME NEW c \in Connections, Connect(c) PROVE Acquisition(q)'
  <2>1. /\ UNCHANGED wrapper /\ UNCHANGED session /\ UNCHANGED requests /\ UNCHANGED responses
        /\ UNCHANGED dispatch
    BY <1>8, ZenonT(30) DEF Connect, threads
  <2>2. QED
    BY <1>5, <2>1, ZenonT(30)
<1>9. ASSUME NEW c \in Connections, CreateSession(c) PROVE Acquisition(q)'
  <2>1. /\ UNCHANGED wrapper /\ UNCHANGED session /\ UNCHANGED requests /\ UNCHANGED responses
        /\ dispatch'.pc = "Create"
    BY <1>9, ZenonT(30) DEF CreateSession, server
  <2>2. QED
    BY <1>5, <2>1, ZenonT(30)
<1>10. CASE CreateFailed
  <2>1. /\ UNCHANGED wrapper /\ UNCHANGED session /\ UNCHANGED requests /\ UNCHANGED responses
        /\ dispatch'.pc = "Idle"
    BY <1>10, ZenonT(30) DEF CreateFailed, server, clients
  <2>2. QED
    BY <1>5, <2>1, ZenonT(30)
<1>11. ASSUME NEW c \in Connections, Disconnect(c) PROVE Acquisition(q)'
  <2>1. wrapper'[q].connection \in {d, NoConnection}
    <3>1. ClientPid[c] \in Pids
      BY ServerAssumption, ZenonT(30)
    <3>2. CASE ClientPid[c] \in pid_session_map
      BY <1>2, <1>11, <3>2, DisconnectEffect, ZenonT(30) DEF WrapperIs
    <3>3. CASE ClientPid[c] \notin pid_session_map
      BY <1>2, <1>11, <3>3, ZenonT(30) DEF Disconnect
    <3>4. QED
      BY <3>2, <3>3, ZenonT(30)
  <2>2. TrafficKept(d) \/ d = NoConnection
    BY <1>2, <1>11, TrafficSteps, ZenonT(30)
  <2>3. SameRequest(q)
    BY <1>11, SessionUnchanged, ZenonT(30) DEF Disconnect
  <2>4. QED
    BY <1>3, <2>1, <2>2, <2>3, ZenonT(30)
<1>12. CASE EmplaceSession
  <2>1. PICK c \in Connections : c = dispatch.connection
    BY <1>12, ZenonT(30) DEF EmplaceSession, PositionInv
  <2>2. /\ UNCHANGED requests /\ UNCHANGED responses /\ dispatch'.pc = "Idle" /\ Quiet(c)
        /\ ClientPid[c] \in Pids
    BY <1>12, <2>1, ServerAssumption, ZenonT(30)
    DEF EmplaceSession, clients, ConnectionInv
  <2>3. CASE ClientPid[c] \in disconnected_pids \union pid_session_map
    <3>1. UNCHANGED wrapper /\ UNCHANGED session
      BY <1>12, <2>1, <2>3, ZenonT(30) DEF EmplaceSession
    <3>2. QED
      BY <1>5, <2>2, <3>1, ZenonT(30)
  <2>4. CASE ClientPid[c] \notin disconnected_pids \union pid_session_map
    <3>1. /\ WrapperIs(ClientPid[c], c, TRUE, FALSE, FALSE, FALSE)
          /\ SessionIs(ClientPid[c], FALSE, FALSE, FALSE, FALSE)
      BY <1>12, <2>1, <2>2, <2>4, EmplaceEffect, ZenonT(30)
    <3>2. CASE q # ClientPid[c]
      <4>1. wrapper'[q] = wrapper[q] /\ session'[q] = session[q]
        BY <3>1, <3>2, ZenonT(30) DEF WrapperIs, SessionIs
      <4>2. TrafficKept(d)
        BY <2>2, SameTraffic, ZenonT(30)
      <4>3. QED
        BY <1>2, <1>3, <4>1, <4>2, SessionUnchanged, ZenonT(30)
    <3>3. CASE q = ClientPid[c]
      <4>1. worker.pid # q
        BY <2>4, <3>3, ServerAssumption, ZenonT(30) DEF PositionInv
      <4>2. Load(c)' /\ ~Pending(c)'
        BY <2>2, SMTT(30), Z3T(30) DEF Load, Pending, Quiet, Responding
      <4>3. wrapper'[q].connection = c /\ ~session'[q].data_acquired
        BY <3>1, <3>3, ZenonT(30) DEF WrapperIs, SessionIs
      <4>4. QED
        BY <1>1, <4>1, <4>2, <4>3, ZenonT(30) DEF Acquisition, Ticks
    <3>4. QED
      BY <3>2, <3>3, ZenonT(30)
  <2>5. QED
    BY <2>3, <2>4, ZenonT(30)
<1>13. CASE OnAcquireResponse
  <2>1. PICK c \in Connections : c = dispatch.connection
    BY <1>13, ZenonT(30) DEF OnAcquireResponse, PositionInv
  <2>2. /\ UNCHANGED requests /\ UNCHANGED responses /\ dispatch'.pc = "Idle" /\ Responding(c)
        /\ ClientPid[c] \in Pids
    BY <1>13, <2>1, ServerAssumption, ZenonT(30)
    DEF OnAcquireResponse, clients, Responding
  <2>3. CASE ~(ClientPid[c] \in pid_session_map /\ wrapper[ClientPid[c]].connection = c)
    <3>1. UNCHANGED wrapper /\ UNCHANGED session
      BY <1>13, <2>1, <2>3, ZenonT(30) DEF OnAcquireResponse
    <3>2. QED
      BY <1>5, <2>2, <3>1, ZenonT(30)
  <2>4. CASE ClientPid[c] \in pid_session_map /\ wrapper[ClientPid[c]].connection = c
    <3>1. PICK p \in pid_session_map : p = ClientPid[c]
      BY <2>4, ZenonT(30)
    <3>2. /\ wrapper'[p].connection = c
          /\ session'[p].data_acquired
          /\ session'[p].acquire_requested <=> session[p].acquire_requested
          /\ \A r \in Pids \ {p} : wrapper'[r] = wrapper[r] /\ session'[r] = session[r]
      BY <1>13, <2>1, <2>4, <3>1, ResponseEffect, ZenonT(30) DEF WrapperIs, SessionIs
    <3>3. CASE q # p
      <4>1. wrapper'[q] = wrapper[q] /\ session'[q] = session[q]
        BY <3>2, <3>3, ZenonT(30)
      <4>2. TrafficKept(d)
        BY <2>2, SameTraffic, ZenonT(30)
      <4>3. QED
        BY <1>2, <1>3, <4>1, <4>2, SessionUnchanged, ZenonT(30)
    <3>4. CASE q = p
      <4>1. c # NoConnection /\ wrapper[q].connection = c /\ Pending(c)
        BY <2>2, <2>4, <3>1, <3>4, ServerAssumption, ZenonT(30) DEF Pending
      <4>2. /\ Load(c) /\ session[q].acquire_requested /\ ~session[q].data_acquired
            /\ ~(Ticks(q, {"Read", "Command"}) /\ worker.finalized)
            /\ ~Ticks(q, {"Request"})
        BY <1>1, <4>1, ZenonT(30) DEF Acquisition
      <4>3. Load(c)' /\ ~Pending(c)'
        BY <2>2, <4>2, ZenonT(30) DEF Load, Pending, Quiet, Responding
      <4>4. QED
        BY <1>1, <3>2, <3>4, <4>1, <4>2, <4>3, ZenonT(30) DEF Acquisition, Ticks
    <3>5. QED
      BY <3>3, <3>4, ZenonT(30)
  <2>5. QED
    BY <2>3, <2>4, ZenonT(30)
<1>14. QED
  BY <1>6, <1>7, <1>8, <1>9, <1>10, <1>11, <1>12, <1>13, ZenonT(30)
  DEF DispatchStep, ClientStep

(* The session that the worker ticks.                                      *)
LEMMA TickAcquire ==
  ASSUME ServerInv, NEW p \in Pids, p = worker.pid,
         \/ NotifyClosedByPeer \/ Tick
         \/ ForceFinish \/ RequeueTick \/ RemoveSession \/ TickEnd
  PROVE  Acquisition(p)'
<1> USE DEF ServerInv
<1>1. Acquisition(p) /\ p # NoPid
  BY ServerAssumption, ZenonT(30) DEF AcquireInv
<1>2. PICK d : d = wrapper[p].connection /\ d \in Connections \union {NoConnection}
  BY ZenonT(30) DEF TypeOK, Wrapper
<1>3. UNCHANGED responses /\ UNCHANGED dispatch /\ (SendRequest \/ UNCHANGED requests)
  BY WorkerLeaves, ZenonT(30) DEF WorkerStep
<1>4. ASSUME UNCHANGED requests PROVE TrafficKept(d)
  BY <1>3, <1>4, SameTraffic, ZenonT(30)
<1>5. ASSUME UNCHANGED requests, UNCHANGED wrapper, TickKept(p), SameRequest(p)
      PROVE  Acquisition(p)'
  BY <1>1, <1>2, <1>4, <1>5, AcquisitionKept, ZenonT(30)
<1>6. ASSUME worker'.pc \in {"Tick", "Relock"} PROVE TickKept(p)
  <2>1. /\ worker'.pc \notin {"Finalize"} /\ worker'.pc \notin {"Read", "Command"}
        /\ worker'.pc \notin {"Request"}
    BY <1>6, ZenonT(30)
  <2>2. QED
    BY <2>1, ZenonT(30) DEF TickKept, Ticks
<1>7. CASE NotifyClosedByPeer \/ ForceFinish
  <2>1. SameRequest(p) /\ worker'.pc = "Tick"
    BY <1>7, DetachEffect, ZenonT(30) DEF SessionIs, SameRequest
  <2>2. UNCHANGED requests /\ UNCHANGED wrapper
    BY <1>7, ZenonT(30) DEF NotifyClosedByPeer, ForceFinish, clients
  <2>3. QED
    BY <1>5, <1>6, <2>1, <2>2, ZenonT(30)
<1>8. CASE StartTick
  <2>1. /\ UNCHANGED requests /\ UNCHANGED wrapper /\ UNCHANGED session
        /\ worker'.pc \in {"Relock", "Finalize", "Read"}
        /\ worker'.pc = "Finalize" => session[p].data_acquired
        /\ ~worker'.finalized
    BY <1>8, ZenonT(30) DEF StartTick, TypeOK, server, clients
  <2>2. worker'.pc # "Request"
    BY <2>1, ZenonT(30)
  <2>3. Load(d)' <=> Load(d)
    BY <1>3, <2>1, ZenonT(30) DEF Load, Quiet, Responding
  <2>4. Pending(d)' <=> Pending(d)
    BY <1>3, <2>1, ZenonT(30) DEF Pending, Quiet, Responding
  <2>5. QED
    BY <1>1, <1>2, <2>1, <2>2, <2>3, <2>4, ZenonT(30) DEF Acquisition, Ticks
<1>9. CASE FinalizeAcquisition
  <2>1. /\ UNCHANGED requests /\ UNCHANGED wrapper
        /\ worker.pc = "Finalize" /\ worker.pc \in {"Finalize"}
    BY <1>9, ZenonT(30) DEF FinalizeAcquisition, clients
  <2>2. /\ worker'.pc = "Read"
        /\ session'[p].acquire_requested <=> session[p].acquire_requested
        /\ session'[p].data_acquired <=> session[p].data_acquired /\ ~BlockReleased(p)
        /\ worker'.finalized <=> BlockReleased(p)
    BY <1>9, FinalizeEffect, ZenonT(30) DEF SessionIs, MovesTo
  <2>3. worker'.pc \notin {"Finalize"} /\ worker'.pc \notin {"Request"}
    BY <2>2, ZenonT(30)
  <2>4. TrafficKept(d)
    BY <1>4, <2>1, ZenonT(30)
  <2>5. session[p].data_acquired /\ session[p].acquire_requested
    BY <1>1, <2>1, ZenonT(30) DEF Acquisition, Ticks
  <2>6. d # NoConnection => Load(d)' /\ ~Pending(d)'
    BY <1>1, <1>2, <2>4, <2>5, ZenonT(30) DEF Acquisition, TrafficKept
  <2>7. QED
    BY <1>2, <2>1, <2>2, <2>3, <2>5, <2>6, ZenonT(30) DEF Acquisition, Ticks
<1>10. CASE ReadBuffers
  <2>1. /\ UNCHANGED requests /\ UNCHANGED wrapper
        /\ worker.pc = "Read" /\ worker.pc \in {"Read", "Command"}
    BY <1>10, ZenonT(30) DEF ReadBuffers, clients
  <2>2. /\ worker'.pc = "Command" /\ SameRequest(p)
        /\ worker'.finalized <=> worker.finalized
    BY <1>10, ReadEffect, ZenonT(30) DEF SessionIs, MovesTo, SameRequest
  <2>3. worker'.pc \notin {"Finalize"} /\ worker'.pc \notin {"Request"}
    BY <2>2, ZenonT(30)
  <2>4. TickKept(p)
    BY <2>1, <2>2, <2>3, ZenonT(30) DEF TickKept, Ticks
  <2>5. QED
    BY <1>5, <2>1, <2>2, <2>4, ZenonT(30)
<1>11. CASE AcquisitionDone
  <2>1. /\ UNCHANGED requests /\ UNCHANGED wrapper /\ worker.finalized
        /\ worker.pc = "Command" /\ worker.pc \in {"Read", "Command"}
    BY <1>11, ZenonT(30) DEF AcquisitionDone, clients
  <2>2. session'[p].data_acquired <=> session[p].data_acquired
    BY <1>11, DoneEffect, ZenonT(30) DEF SessionIs
  <2>3. worker'.pc = "Relock"
    BY <1>11, DoneEffect, ZenonT(30) DEF MovesTo
  <2>4. /\ worker'.pc \notin {"Finalize"} /\ worker'.pc \notin {"Read", "Command"}
        /\ worker'.pc \notin {"Request"}
    BY <2>3, ZenonT(30)
  <2>5. ~session[p].data_acquired /\ (d # NoConnection => Load(d) /\ ~Pending(d))
    BY <1>1, <1>2, <2>1, ZenonT(30) DEF Acquisition, Ticks
  <2>6. d # NoConnection => Load(d)' /\ ~Pending(d)'
    BY <1>4, <2>1, <2>5, ZenonT(30) DEF TrafficKept
  <2>7. QED
    BY <1>2, <2>1, <2>2, <2>3, <2>4, <2>5, <2>6, ZenonT(30)
    DEF Acquisition, Ticks
<1>12. CASE PostponeRequest \/ NothingToRequest
  <2>1. UNCHANGED requests /\ UNCHANGED wrapper
    BY <1>12, ZenonT(30) DEF PostponeRequest, NothingToRequest, clients, server
  <2>2. worker'.pc = "Relock" /\ SameRequest(p)
    <3>1. CASE PostponeRequest
      BY <3>1, PostponeEffect, ZenonT(30)
      DEF SameSession, SessionIs, MovesTo, SameRequest
    <3>2. CASE NothingToRequest
      BY <3>2, ZenonT(30) DEF NothingToRequest, server, SameRequest, TypeOK
    <3>3. QED
      BY <1>12, <3>1, <3>2, ZenonT(30)
  <2>3. QED
    BY <1>5, <1>6, <2>1, <2>2, ZenonT(30)
<1>13. CASE DecideRequest
  <2>1. /\ UNCHANGED requests /\ UNCHANGED wrapper /\ UNCHANGED session
        /\ ~session[p].acquire_requested /\ worker'.pc = "Request"
    BY <1>13, ZenonT(30) DEF DecideRequest, MayRequest, clients, server, TypeOK
  <2>2. /\ worker'.pc \notin {"Finalize"} /\ worker'.pc \notin {"Read", "Command"}
    BY <2>1, ZenonT(30)
  <2>3. TrafficKept(d)
    BY <1>4, <2>1, ZenonT(30)
  <2>4. QED
    BY <1>1, <1>2, <2>1, <2>2, <2>3, ZenonT(30)
    DEF Acquisition, Ticks, TrafficKept
(* The answers of NotifyAcquireRequest: nothing was outstanding before.    *)
<1>14. ASSUME worker.pc = "Request", NEW result \in BOOLEAN, Requested(result)
       PROVE  /\ ~session'[p].data_acquired /\ worker'.pc = "Relock"
              /\ session'[p].acquire_requested <=> result
              /\ d # NoConnection => Load(d) /\ ~Pending(d)
  <2>1. /\ session'[p].acquire_requested <=> result
        /\ session'[p].data_acquired <=> session[p].data_acquired
        /\ worker'.pc = "Relock"
    BY <1>14, RequestedEffect, ZenonT(30) DEF SessionIs, MovesTo
  <2>2. worker.pc \in {"Request"}
    BY <1>14, ZenonT(30)
  <2>3. QED
    BY <1>1, <1>2, <2>1, <2>2, ZenonT(30) DEF Acquisition, Ticks
<1>15. ASSUME ~session'[p].data_acquired, worker'.pc = "Relock",
              wrapper'[p].connection = d,
              d # NoConnection => Load(d)' /\ (Pending(d)' => session'[p].acquire_requested)
       PROVE  Acquisition(p)'
  <2>1. /\ worker'.pc \notin {"Finalize"} /\ worker'.pc \notin {"Read", "Command"}
        /\ worker'.pc \notin {"Request"}
    BY <1>15, ZenonT(30)
  <2>2. QED
    BY <1>15, <2>1, ZenonT(30) DEF Acquisition, Ticks
<1>16. ASSUME worker.pc = "Request", NEW result \in BOOLEAN, Requested(result),
              UNCHANGED requests, wrapper'[p].connection = d
       PROVE  Acquisition(p)'
  <2>1. TrafficKept(d)
    BY <1>4, <1>16, ZenonT(30)
  <2>2. /\ ~session'[p].data_acquired /\ worker'.pc = "Relock"
        /\ d # NoConnection => Load(d) /\ ~Pending(d)
    BY <1>14, <1>16, ZenonT(30)
  <2>3. QED
    BY <1>15, <1>16, <2>1, <2>2, ZenonT(30) DEF TrafficKept
<1>17. CASE RequestRefused \/ NotifyPoolExhausted
  <2>1. /\ UNCHANGED requests /\ UNCHANGED wrapper /\ worker.pc = "Request"
        /\ \E result \in BOOLEAN : Requested(result)
    BY <1>17, ZenonT(30) DEF RequestRefused, NotifyPoolExhausted, MaySend
  <2>2. QED
    BY <1>2, <1>16, <2>1, ZenonT(30)
<1>18. CASE NotifyFailed
  <2>1. UNCHANGED requests /\ worker.pc = "Request" /\ Requested(TRUE) /\ TRUE \in BOOLEAN
    BY <1>18, ZenonT(30) DEF NotifyFailed, MaySend
  <2>2. wrapper'[p].connection = d
    BY <1>2, <1>18, NotifyFailedEffect, ZenonT(30) DEF WrapperIs
  <2>3. QED
    BY <1>16, <2>1, <2>2, ZenonT(30)
<1>19. CASE SendRequest
  <2>1. worker.pc = "Request" /\ Requested(TRUE) /\ TRUE \in BOOLEAN /\ d # NoConnection
    BY <1>2, <1>19, ZenonT(30) DEF SendRequest, MaySend
  <2>2. wrapper'[p].connection = d
    <3>1. CASE wrapper[p].acquire_in_flight
      BY <1>2, <1>19, <3>1, ZenonT(30) DEF SendRequest
    <3>2. CASE ~wrapper[p].acquire_in_flight
      BY <1>2, <1>19, <3>2, SendEffect, ZenonT(30) DEF WrapperIs
    <3>3. QED
      BY <3>1, <3>2, ZenonT(30)
  <2>3. CASE UNCHANGED requests
    BY <1>16, <2>1, <2>2, <2>3, ZenonT(30)
  <2>4. CASE requests' # requests
    <3>1. d \in Connections /\ requests' = [requests EXCEPT ![d] = @ + 1]
      BY <1>2, <1>19, <2>1, <2>4, SentTo, ZenonT(30)
    <3>2. /\ ~session'[p].data_acquired /\ worker'.pc = "Relock"
          /\ session'[p].acquire_requested
          /\ Load(d) /\ ~Pending(d)
      BY <1>14, <2>1, ZenonT(30)
    <3>3. Load(d)'
      <4>1. requests[d] = 0 /\ responses[d] = 0 /\ ~Responding(d)
        BY <3>2, ZenonT(30) DEF Pending, Quiet
      <4>2. requests'[d] = 1 /\ responses'[d] = 0 /\ ~Responding(d)'
        BY <1>3, <3>1, <4>1, SMTT(30), Z3T(30) DEF TypeOK, Responding
      <4>3. QED
        BY <4>2, SMTT(30), Z3T(30) DEF Load
    <3>4. QED
      BY <1>15, <2>2, <3>2, <3>3, ZenonT(30)
  <2>5. QED
    BY <2>3, <2>4, ZenonT(30)
<1>20. CASE RequeueTick \/ TickEnd
  <2>1. UNCHANGED requests /\ UNCHANGED session /\ worker'.pid = NoPid
    BY <1>20, SMTT(30), Z3T(30) DEF RequeueTick, TickEnd, WorkerAt, clients
  <2>2. RequeueTick \/ (TickEnd /\ ~wrapper[p].enqueued)
    BY <1>20, ZenonT(30) DEF TickEnd, Requeued
  <2>3. wrapper'[p].connection = d
    BY <1>2, <2>2, TickedEffect, ZenonT(30) DEF WrapperIs
  <2>4. TickKept(p) /\ SameRequest(p)
    BY <1>1, <2>1, TickElsewhere, SessionUnchanged, ZenonT(30)
  <2>5. QED
    BY <1>1, <1>2, <1>4, <2>1, <2>3, <2>4, AcquisitionKept, ZenonT(30)
<1>21. CASE RemoveSession
  <2>1. wrapper'[p].connection = NoConnection /\ ~session'[p].data_acquired
    BY <1>21, RemoveEffect, ZenonT(30) DEF WrapperIs, SessionIs
  <2>2. worker'.pid # p
    BY <1>1, <1>21, ZenonT(30) DEF RemoveSession, WorkerAt
  <2>3. QED
    BY <2>1, <2>2, ZenonT(30) DEF Acquisition, Ticks
<1>22. QED
  BY <1>7, <1>8, <1>9, <1>10, <1>11, <1>12, <1>13, <1>17, <1>18, <1>19, <1>20,
     <1>21, ZenonT(30)
  DEF Tick

(* A tick leaves the other sessions alone.                                 *)
LEMMA TickOthers ==
  ASSUME ServerInv,
         \/ NotifyClosedByPeer \/ Tick
         \/ ForceFinish \/ RequeueTick \/ RemoveSession \/ TickEnd,
         NEW q \in Pids, q # worker.pid
  PROVE  SameRequest(q) /\ TickKept(q)
<1>1. session \in [Pids -> Session] /\ q # NoPid
  BY ServerAssumption, ZenonT(30) DEF ServerInv, TypeOK
<1>2. session'[q] = session[q]
  <2>1. CASE NotifyClosedByPeer
    BY <1>1, <2>1, ZenonT(30) DEF NotifyClosedByPeer
  <2>2. CASE FinalizeAcquisition
    BY <1>1, <2>2, ZenonT(30) DEF FinalizeAcquisition
  <2>3. CASE ReadBuffers
    BY <1>1, <2>3, ZenonT(30) DEF ReadBuffers
  <2>4. CASE AcquisitionDone
    BY <1>1, <2>4, ZenonT(30) DEF AcquisitionDone
  <2>5. CASE PostponeRequest
    BY <1>1, <2>5, ZenonT(30) DEF PostponeRequest
  <2>6. CASE RequestRefused \/ SendRequest \/ NotifyPoolExhausted \/ NotifyFailed
    <3>1. PICK result : Requested(result)
      BY <2>6, ZenonT(30)
      DEF RequestRefused, SendRequest, NotifyPoolExhausted, NotifyFailed
    <3>2. QED
      BY <1>1, <3>1, ZenonT(30) DEF Requested
  <2>7. CASE ForceFinish
    BY <1>1, <2>7, ZenonT(30) DEF ForceFinish
  <2>8. CASE RemoveSession
    BY <1>1, <2>8, ZenonT(30) DEF RemoveSession
  <2>9. CASE StartTick \/ NothingToRequest \/ DecideRequest
    BY <2>9, ZenonT(30) DEF StartTick, NothingToRequest, DecideRequest, server
  <2>10. CASE RequeueTick \/ TickEnd
    BY <2>10, ZenonT(30) DEF RequeueTick, TickEnd
  <2>11. QED
    BY <2>1, <2>2, <2>3, <2>4, <2>5, <2>6, <2>7, <2>8, <2>9, <2>10, ZenonT(30)
    DEF Tick
<1>3. worker'.pid \in {worker.pid, NoPid}
  <2>1. CASE NotifyClosedByPeer \/ Tick \/ ForceFinish
    <3>1. worker'.pid = worker.pid
      BY <2>1, ZenonT(30)
         DEF ServerInv, TypeOK, NotifyClosedByPeer, Tick, StartTick,
             FinalizeAcquisition, ReadBuffers,
             AcquisitionDone, NothingToRequest, PostponeRequest, DecideRequest,
             RequestRefused, SendRequest,
             NotifyPoolExhausted, NotifyFailed, Requested, ForceFinish
    <3>2. QED
      BY <3>1, ZenonT(30)
  <2>2. CASE RequeueTick \/ RemoveSession \/ TickEnd
    BY <2>2, SMTT(30), Z3T(30) DEF RequeueTick, RemoveSession, TickEnd, WorkerAt
  <2>3. QED
    BY <2>1, <2>2, ZenonT(30)
<1>4. QED
  BY <1>1, <1>2, <1>3, SessionUnchanged, TickElsewhere, ZenonT(30)

(* The worker, the destructor and time.                                    *)
LEMMA WorkerAcquire ==
  ASSUME ServerInv, WorkerStep \/ Destructor \/ Time, NEW q \in Pids
  PROVE  Acquisition(q)'
<1> USE DEF ServerInv
<1>1. Acquisition(q) /\ q # NoPid
  BY ServerAssumption, ZenonT(30) DEF AcquireInv
<1>2. PICK d : d = wrapper[q].connection /\ d \in Connections \union {NoConnection}
  BY ZenonT(30) DEF TypeOK, Wrapper
<1>3. /\ UNCHANGED responses /\ UNCHANGED dispatch /\ (SendRequest \/ UNCHANGED requests)
      /\ wrapper'[q].connection \in {d, NoConnection}
  BY <1>2, WorkerLeaves, WorkerConnections, ZenonT(30)
<1>4. ASSUME SameRequest(q), TickKept(q), UNCHANGED requests PROVE Acquisition(q)'
  BY <1>1, <1>2, <1>3, <1>4, SameTraffic, AcquisitionKept, ZenonT(30)
<1>5. CASE NotifyClosedByPeer \/ Tick \/ ForceFinish \/ RequeueTick \/ RemoveSession \/ TickEnd
  <2>1. CASE q = worker.pid
    BY <1>5, <2>1, TickAcquire, ZenonT(30)
  <2>2. CASE q # worker.pid
    <3>1. SameRequest(q) /\ TickKept(q)
      BY <1>5, <2>2, TickOthers, ZenonT(30)
    <3>2. CASE UNCHANGED requests
      BY <1>4, <3>1, <3>2, ZenonT(30)
    <3>3. CASE requests' # requests /\ d # NoConnection
      <4>1. PICK c \in Connections : /\ c = wrapper[worker.pid].connection /\ worker.pid \in Pids
                                     /\ requests' = [requests EXCEPT ![c] = @ + 1]
        BY <1>3, <3>3, SentTo, ZenonT(30)
      <4>2. c # d
        BY <1>2, <2>2, <3>3, <4>1, ServerAssumption, ZenonT(30)
        DEF ConnectionInv
      <4>3. requests'[d] = requests[d]
        BY <1>2, <3>3, <4>1, <4>2, ZenonT(30) DEF TypeOK
      <4>4. TrafficKept(d)
        BY <1>3, <4>3, ZenonT(30) DEF TrafficKept, Load, Pending, Quiet, Responding
      <4>5. QED
        BY <1>1, <1>2, <1>3, <3>1, <4>4, AcquisitionKept, ZenonT(30)
    <3>4. CASE d = NoConnection
      BY <1>1, <1>2, <1>3, <3>1, <3>4, AcquisitionKept, ZenonT(30)
    <3>5. QED
      BY <3>2, <3>3, <3>4, ZenonT(30)
  <2>3. QED
    BY <2>1, <2>2, ZenonT(30)
<1>6. CASE WakeUp \/ DrainEnd \/ WorkerExit \/ ResetReceiver \/ ExitWorkers
           \/ PeriodOver \/ (\E r \in Pids : ScanSession(r) \/ DeadlineOver(r))
  <2>1. UNCHANGED session /\ UNCHANGED requests
    BY <1>6, ZenonT(30)
    DEF WakeUp, DrainEnd, WorkerExit, ResetReceiver, ExitWorkers, PeriodOver,
        ScanSession,
                       DeadlineOver, server, clients
  <2>2. UNCHANGED worker \/ worker'.pid = NoPid
    BY <1>6, ZenonT(30)
    DEF WakeUp, DrainEnd, WorkerExit, ResetReceiver, ExitWorkers, PeriodOver,
        ScanSession,
                DeadlineOver, threads, PositionInv, WithoutTick, TypeOK
  <2>3. QED
    BY <1>1, <1>4, <2>1, <2>2, SessionUnchanged, TickElsewhere, ZenonT(30)
<1>7. CASE PopTick
  <2>1. UNCHANGED session /\ UNCHANGED requests
    BY <1>7, ZenonT(30) DEF PopTick, clients
  <2>2. worker'.pc \in {"Notify", "Tick"}
    BY <1>7, ZenonT(30) DEF PopTick, TypeOK
  <2>3. /\ worker'.pc \notin {"Finalize"} /\ worker'.pc \notin {"Read", "Command"}
        /\ worker'.pc \notin {"Request"}
    BY <2>2, ZenonT(30)
  <2>4. TickKept(q)
    BY <2>3, ZenonT(30) DEF TickKept, Ticks
  <2>5. QED
    BY <1>4, <2>1, <2>4, SessionUnchanged, ZenonT(30)
<1>8. CASE ClearSessions
  <2>1. wrapper'[q] = NewWrapper(NoConnection) /\ session'[q] = NewSession(NoConnection)
    BY <1>8, ZenonT(30) DEF ClearSessions
  <2>2. wrapper'[q].connection = NoConnection /\ ~session'[q].data_acquired
    BY <2>1, NewWrapperFields, NewSessionFields, ZenonT(30)
  <2>3. worker'.pid # q
    BY <1>1, <1>8, ZenonT(30) DEF ClearSessions, PositionInv, WithoutTick
  <2>4. QED
    BY <2>2, <2>3, ZenonT(30) DEF Acquisition, Ticks
<1>9. QED
  BY <1>5, <1>6, <1>7, <1>8, ZenonT(30) DEF WorkerStep, Destructor, Time

(* Every step keeps the acquisitions in order.                             *)
LEMMA AcquireStep ==
  ASSUME ServerInv, Next
  PROVE  AcquireInv'
<1>1. ASSUME NEW q \in Pids PROVE Acquisition(q)'
  BY CallbackAcquire, WorkerAcquire, ZenonT(30) DEF Next
<1>2. QED
  BY <1>1, ZenonT(30) DEF AcquireInv

-----------------------------------------------------------------------------
(* The invariant                                                           *)

(* Only EmplaceSession, the end of a tick and the destructor change the    *)
(* set of sessions.                                                        *)
LEMMA MapSteps ==
  ASSUME Next
  PROVE  EmplaceSession \/ RemoveSession \/ ClearSessions \/ UNCHANGED pid_session_map
<1>1. CASE DispatchStep \/ \E c \in Connections : ClientStep(c)
  BY <1>1, ZenonT(30)
     DEF DispatchStep, ClientStep, Connect, CreateSession, Disconnect,
         StartResponse, CreateFailed,
         OnAcquireResponse, Answer, WritersRelease, Hang, Exit, server
<1>2. CASE Destructor \/ Time
  BY <1>2, ZenonT(30)
  DEF Destructor, Time, ResetReceiver, ExitWorkers, PeriodOver, DeadlineOver, server
<1>3. CASE Tick
  BY <1>3, ZenonT(30)
     DEF Tick, StartTick, FinalizeAcquisition, ReadBuffers, AcquisitionDone,
         NothingToRequest, PostponeRequest,
         DecideRequest, RequestRefused, SendRequest, NotifyPoolExhausted,
         NotifyFailed, Requested, server
<1>4. CASE WorkerStep /\ ~Tick
  BY <1>4, ZenonT(30)
     DEF WorkerStep, WakeUp, ScanSession, PopTick, DrainEnd,
         NotifyClosedByPeer, ForceFinish, RequeueTick,
         TickEnd, WorkerExit, server
<1>5. QED
  BY <1>1, <1>2, <1>3, <1>4, ZenonT(30) DEF Next

(* Every step keeps the types of the other variables.                      *)
LEMMA RestTyped ==
  ASSUME ServerInv, Next
  PROVE  TypeOK'
<1> USE DEF ServerInv
<1>1. wrapper' \in [Pids -> Wrapper] /\ session' \in [Pids -> Session] /\ work_queue' \in Seq(Pids)
  BY RecordsTyped, QueueStep, ZenonT(30)
<1>2. worker' \in [pc : {"Wait", "Scan", "Drain", "Notify", "Tick", "Finalize",
                         "Read", "Command", "Request", "Relock", "Exited"},
                   pid : Pids \union {NoPid}, todo : SUBSET Pids,
                   closed_by_peer : BOOLEAN, finishing : BOOLEAN,
                   finalized : BOOLEAN, detach_needed : BOOLEAN]
  BY WorkerTyped, ZenonT(30) DEF WorkerRecord
<1> DEFINE Rest == /\ pid_session_map' \subseteq Pids
                   /\ disconnected_pids' \subseteq Pids
                   /\ t1' \in BOOLEAN
                   /\ dispatch' \in [pc : {"Idle", "Create", "Respond"},
                                     connection : Connections \union {NoConnection}]
                   /\ shutdown' \in {"no", "receiver", "exit", "joined"}
                   /\ client' \in [Connections -> {"new", "connected", "attached", "hung",
                                                   "exited", "closed"}]
                   /\ requests' \in [Connections -> Nat]
                   /\ responses' \in [Connections -> Nat]
                   /\ writing' \in [Connections -> BOOLEAN]
<1>3. CASE WorkerStep \/ Destructor \/ Time
  <2>1. /\ UNCHANGED <<disconnected_pids, dispatch, client, responses, writing>>
        /\ SendRequest \/ UNCHANGED requests
    BY <1>3, WorkerLeaves, ZenonT(30)
  <2>2. requests' \in [Connections -> Nat]
    BY <2>1, SentTo, SMTT(30), Z3T(30) DEF TypeOK
  <2>3. pid_session_map' \subseteq Pids
    <3>1. pid_session_map \subseteq Pids
      BY ZenonT(30) DEF TypeOK
    <3>2. CASE EmplaceSession
      <4>1. ClientPid[dispatch.connection] \in Pids
        BY <3>2, ServerAssumption, ZenonT(30) DEF EmplaceSession, PositionInv
      <4>2. QED
        BY <3>1, <3>2, <4>1, ZenonT(30) DEF EmplaceSession
    <3>3. CASE RemoveSession
      BY <3>1, <3>3, ZenonT(30) DEF RemoveSession
    <3>4. CASE ClearSessions
      BY <3>4, ZenonT(30) DEF ClearSessions
    <3>5. QED
      BY <3>1, <3>2, <3>3, <3>4, MapSteps, ZenonT(30)
  <2>6. shutdown' \in {"no", "receiver", "exit", "joined"}
    <3>1. CASE Destructor
      BY <3>1, ZenonT(30)
      DEF Destructor, ResetReceiver, ExitWorkers, ClearSessions
    <3>2. CASE WorkerStep \/ Time
      <4>1. UNCHANGED shutdown
        BY <3>2, ZenonT(30)
           DEF WorkerStep, Time, WakeUp, ScanSession, PopTick, DrainEnd,
               NotifyClosedByPeer, Tick,
               StartTick, FinalizeAcquisition, ReadBuffers, AcquisitionDone,
               NothingToRequest, PostponeRequest,
               DecideRequest, RequestRefused, SendRequest, NotifyPoolExhausted,
               NotifyFailed, Requested,
               ForceFinish, RequeueTick, RemoveSession, TickEnd, WorkerExit,
               PeriodOver, DeadlineOver, threads
      <4>2. QED
        BY <4>1, ZenonT(30) DEF TypeOK
    <3>3. QED
      BY <1>3, <3>1, <3>2, ZenonT(30)
  <2>4. t1' \in BOOLEAN
    BY <1>3, ZenonT(30)
       DEF TypeOK, WorkerStep, Destructor, Time, WakeUp, ScanSession, PopTick,
           DrainEnd, NotifyClosedByPeer, Tick,
           StartTick, FinalizeAcquisition, ReadBuffers, AcquisitionDone,
           NothingToRequest, PostponeRequest,
           DecideRequest, RequestRefused, SendRequest, NotifyPoolExhausted,
           NotifyFailed, Requested,
           ForceFinish, RequeueTick, RemoveSession, TickEnd, WorkerExit,
           ResetReceiver, ExitWorkers,
           ClearSessions, PeriodOver, DeadlineOver, threads
  <2>5. QED
    BY <1>1, <1>2, <2>1, <2>2, <2>3, <2>4, <2>6, ZenonT(30) DEF TypeOK
<1>4. ASSUME UNCHANGED t1, UNCHANGED shutdown, UNCHANGED writing PROVE
        /\ t1' \in BOOLEAN
        /\ shutdown' \in {"no", "receiver", "exit", "joined"}
        /\ writing' \in [Connections -> BOOLEAN]
  BY <1>4, ZenonT(30) DEF TypeOK
<1>5. ASSUME NEW c \in Connections, Connect(c) \/ CreateSession(c) \/ Disconnect(c) \/ StartResponse(c)
      PROVE  TypeOK'
  <2>1. UNCHANGED t1 /\ UNCHANGED shutdown /\ UNCHANGED writing /\ UNCHANGED pid_session_map
    BY <1>5, ZenonT(30)
    DEF Connect, CreateSession, Disconnect, StartResponse, threads, server
  <2>2. ClientPid[c] \in Pids
    BY ServerAssumption, ZenonT(30)
  <2>3. /\ disconnected_pids' \subseteq Pids
        /\ dispatch' \in [pc : {"Idle", "Create", "Respond"},
                          connection : Connections \union {NoConnection}]
    BY <1>5, <2>2, SMTT(30), Z3T(30)
    DEF Connect, CreateSession, Disconnect, StartResponse, threads, server, TypeOK
  <2>4. client' \in [Connections -> {"new", "connected", "attached", "hung", "exited", "closed"}]
    BY <1>5, ZenonT(30)
    DEF Connect, CreateSession, Disconnect, StartResponse, TypeOK
  <2>5. requests' \in [Connections -> Nat] /\ responses' \in [Connections -> Nat]
    <3>1. requests \in [Connections -> Nat] /\ responses \in [Connections -> Nat]
      BY ZenonT(30) DEF TypeOK
    <3>2. CASE Connect(c) \/ CreateSession(c)
      BY <3>1, <3>2, ZenonT(30) DEF Connect, CreateSession
    <3>3. CASE Disconnect(c)
      BY <3>1, <3>3, ZenonT(30) DEF Disconnect
    <3>4. CASE StartResponse(c)
      BY <3>1, <3>4, SMTT(30), Z3T(30) DEF StartResponse
    <3>5. QED
      BY <1>5, <3>2, <3>3, <3>4, ZenonT(30)
  <2>6. pid_session_map' \subseteq Pids
    BY <2>1, ZenonT(30) DEF TypeOK
  <2>7. QED
    BY <1>1, <1>2, <1>4, <2>1, <2>3, <2>4, <2>5, <2>6, ZenonT(30) DEF TypeOK
<1>6. CASE CreateFailed \/ EmplaceSession \/ OnAcquireResponse
  <2>1. /\ UNCHANGED t1 /\ UNCHANGED shutdown /\ UNCHANGED writing
        /\ UNCHANGED client /\ UNCHANGED requests /\ UNCHANGED responses /\ UNCHANGED disconnected_pids
    BY <1>6, ZenonT(30)
    DEF CreateFailed, EmplaceSession, OnAcquireResponse, server, clients
  <2>2. dispatch' \in [pc : {"Idle", "Create", "Respond"}, connection : Connections \union {NoConnection}]
    BY <1>6, SMTT(30), Z3T(30)
    DEF CreateFailed, EmplaceSession, OnAcquireResponse
  <2>3. pid_session_map' \subseteq Pids
    BY <1>6, ServerAssumption, SMTT(30), Z3T(30)
       DEF CreateFailed, EmplaceSession, OnAcquireResponse, server, TypeOK,
           PositionInv
  <2>4. QED
    BY <1>1, <1>2, <1>4, <2>1, <2>2, <2>3, ZenonT(30) DEF TypeOK
<1>7. ASSUME NEW c \in Connections, ClientStep(c) PROVE TypeOK'
  <2>1. /\ UNCHANGED t1 /\ UNCHANGED shutdown /\ UNCHANGED dispatch
        /\ UNCHANGED pid_session_map /\ UNCHANGED disconnected_pids
    BY <1>7, ZenonT(30)
    DEF ClientStep, Answer, WritersRelease, Hang, Exit, server, threads
  <2>2. client' \in [Connections -> {"new", "connected", "attached", "hung", "exited", "closed"}]
    BY <1>7, ZenonT(30)
    DEF ClientStep, Answer, WritersRelease, Hang, Exit, TypeOK
  <2>3. requests' \in [Connections -> Nat] /\ responses' \in [Connections -> Nat]
    <3>1. requests \in [Connections -> Nat] /\ responses \in [Connections -> Nat]
      BY ZenonT(30) DEF TypeOK
    <3>2. CASE Answer(c)
      BY <3>1, <3>2, SMTT(30), Z3T(30) DEF Answer
    <3>3. CASE WritersRelease(c) \/ Hang(c) \/ Exit(c)
      BY <3>1, <3>3, ZenonT(30) DEF WritersRelease, Hang, Exit
    <3>4. QED
      BY <1>7, <3>2, <3>3, ZenonT(30) DEF ClientStep
  <2>4. writing' \in [Connections -> BOOLEAN]
    BY <1>7, ZenonT(30)
    DEF ClientStep, Answer, WritersRelease, Hang, Exit, TypeOK
  <2>5. QED
    BY <1>1, <1>2, <2>1, <2>2, <2>3, <2>4, ZenonT(30) DEF TypeOK
<1>8. QED
  BY <1>3, <1>5, <1>6, <1>7, ZenonT(30) DEF Next, DispatchStep

(* Nothing has been opened, queued or asked for when the server starts.    *)
LEMMA ServerStarts == Init => ServerInv
<1> SUFFICES ASSUME Init PROVE ServerInv
  BY ZenonT(30)
<1> USE DEF Init
<1>1. /\ NewWrapper(NoConnection) \in Wrapper /\ NewSession(NoConnection) \in Session
      /\ WorkerAt("Wait") \in WorkerRecord
  BY NewWrapperFields, NewSessionFields, ZenonT(30) DEF WorkerAt, WorkerRecord
<1>2. TypeOK
  <2>1. wrapper \in [Pids -> Wrapper] /\ session \in [Pids -> Session] /\ worker \in WorkerRecord
    BY <1>1, ZenonT(30)
  <2>2. work_queue \in Seq(Pids)
    BY EmptySeq, ZenonT(30)
  <2>3. /\ pid_session_map \subseteq Pids /\ disconnected_pids \subseteq Pids
        /\ dispatch \in [pc : {"Idle", "Create", "Respond"}, connection : Connections \union {NoConnection}]
        /\ client \in [Connections -> {"new", "connected", "attached", "hung", "exited", "closed"}]
        /\ requests \in [Connections -> Nat] /\ responses \in [Connections -> Nat]
        /\ shutdown \in {"no", "receiver", "exit", "joined"}
    BY ZenonT(30)
  <2>4. t1 \in BOOLEAN /\ writing \in [Connections -> BOOLEAN]
    BY ZenonT(30)
  <2>5. QED
    BY <2>1, <2>2, <2>3, <2>4, ZenonT(30) DEF TypeOK, WorkerRecord
<1>3. PositionInv
  BY ZenonT(30) DEF PositionInv, WithoutTick, WorkerAt
<1>4. \A p \in Pids : wrapper[p] = NewWrapper(NoConnection) /\ session[p] = NewSession(NoConnection)
  BY ZenonT(30)
<1>5. \A p \in Pids :
        /\ wrapper[p].connection = NoConnection /\ wrapper[p].acquire_miss_count = 0
        /\ ~wrapper[p].enqueued /\ ~wrapper[p].running /\ ~wrapper[p].to_delete
        /\ ~wrapper[p].acquire_in_flight
        /\ ~session[p].command_detach_on_closed /\ ~session[p].data_acquired
  BY <1>4, NewWrapperFields, NewSessionFields, ZenonT(30)
<1>6. worker.pid = NoPid /\ \A p \in Pids : worker.pid # p
  BY ServerAssumption, ZenonT(30) DEF WorkerAt
<1>7. QueueInv
  BY <1>5, <1>6, SMTT(30), Z3T(30) DEF QueueInv, Distinct, Members
<1>8. ConnectionInv
  BY <1>5, ZenonT(30) DEF ConnectionInv, Quiet
<1>13. ClosedInv
  BY <1>5, ZenonT(30) DEF ClosedInv
<1>9. 0 # MaxMisses
  BY ServerAssumption, ZenonT(30)
<1>10. MarkInv
  BY <1>5, <1>6, <1>9, ZenonT(30) DEF MarkInv, Detach, Misses, Ticks
<1>11. AcquireInv
  BY <1>5, <1>6, ZenonT(30) DEF AcquireInv, Acquisition, Ticks
<1>12. QED
  BY <1>2, <1>3, <1>7, <1>8, <1>10, <1>11, <1>13, ZenonT(30) DEF ServerInv

(* The server, its sessions and their clients stay in order, whatever the  *)
(* order of the callbacks, the ticks, the watchdog and the shutdown.       *)
THEOREM ServerInvariant == Spec => []ServerInv
<1>1. Init => ServerInv
  BY ServerStarts, ZenonT(30)
<1>2. ServerInv /\ [Next]_vars => ServerInv'
  <2>1. ASSUME ServerInv, Next PROVE ServerInv'
    BY <2>1, RestTyped, PositionStep, QueueStep, ConnectionStep, ClosedStep,
       MarkStep, AcquireStep, ZenonT(30)
    DEF ServerInv
  <2>2. ASSUME ServerInv, UNCHANGED vars PROVE ServerInv'
    <3>0. /\ UNCHANGED pid_session_map /\ UNCHANGED wrapper /\ UNCHANGED session
          /\ UNCHANGED work_queue /\ UNCHANGED disconnected_pids /\ UNCHANGED worker /\ UNCHANGED t1
          /\ UNCHANGED dispatch /\ UNCHANGED shutdown /\ UNCHANGED client
          /\ UNCHANGED requests /\ UNCHANGED responses /\ UNCHANGED writing
      BY <2>2, ZenonT(30) DEF vars, server, threads, clients
    <3>1. TypeOK'
      <4>1. TypeOK
        BY <2>2, ZenonT(30) DEF ServerInv
      <4>2. (worker \in WorkerRecord)' /\ (t1 \in BOOLEAN)' /\ (writing \in [Connections -> BOOLEAN])'
        BY <3>0, <4>1, ZenonT(30) DEF TypeOK, WorkerRecord
      <4>3. QED
        BY <3>0, <4>1, <4>2, ZenonT(30) DEF TypeOK, WorkerRecord
    <3>2. PositionInv'
      BY <2>2, <3>0, ZenonT(30) DEF PositionInv, WithoutTick, ServerInv
    <3>3. QueueInv'
      BY <2>2, <3>0, ZenonT(30) DEF QueueInv, ServerInv
    <3>4. ConnectionInv'
      BY <2>2, <3>0, ZenonT(30) DEF ConnectionInv, Quiet, ServerInv
    <3>8. ClosedInv'
      BY <2>2, <3>0, ZenonT(30) DEF ClosedInv, Followed, ServerInv
    <3>5. MarkInv'
      BY <2>2, <3>0, ZenonT(30) DEF MarkInv, Detach, Misses, Ticks, ServerInv
    <3>6. AcquireInv'
      BY <2>2, <3>0, ZenonT(30)
      DEF AcquireInv, Acquisition, Ticks, Load, Pending, Quiet, Responding,
          ServerInv
    <3>7. QED
      BY <3>1, <3>2, <3>3, <3>4, <3>5, <3>6, <3>8, ZenonT(30) DEF ServerInv
  <2>3. QED
    BY <2>1, <2>2, ZenonT(30)
<1>3. QED
  BY <1>1, <1>2, PTL DEF Spec

(* The work queue holds exactly the sessions that wait for a tick, each    *)
(* once (EnqueueTickWhileLocked, ResetRunningWhileLocked).                 *)
THEOREM QueueSound == Spec => []QueueConsistent
<1>1. ServerInv => QueueConsistent
  <2> SUFFICES ASSUME ServerInv PROVE QueueConsistent
    BY ZenonT(30)
  <2> USE DEF ServerInv
  <2>1. \A p \in Pids : p \notin pid_session_map => ~wrapper[p].enqueued
    BY NewWrapperFields, ZenonT(30) DEF PositionInv
  <2>2. \A p \in Pids : Queued(p) <=> p \in Members(work_queue)
    BY ZenonT(30) DEF Queued, Members
  <2>3. Distinct(work_queue)
    BY ZenonT(30) DEF QueueInv
  <2>4. QED
    BY <2>1, <2>2, <2>3, ZenonT(30) DEF QueueConsistent, QueueInv, Distinct
<1>2. QED
  BY <1>1, ServerInvariant, PTL

(* A session keeps a connection that the library has closed, and           *)
(* NotifyAcquireRequest may use it, only if its process has connected      *)
(* again: a disconnect while the session is created is remembered until    *)
(* then, and a later one takes the connection from the session.            *)
THEOREM ConnectionsOpen == Spec => []ConnectionOpen
<1>1. ServerInv => ConnectionOpen
  BY ZenonT(30) DEF ServerInv, ClosedInv, ConnectionOpen, Reconnected, Followed, TypeOK
<1>2. QED
  BY <1>1, ServerInvariant, PTL

(* No response meets a result that has not been read: at most one request, *)
(* response or result of a session is outstanding.                         *)
THEOREM SingleAcquisition == Spec => []OneAcquisition
<1>1. ServerInv => OneAcquisition
  <2> SUFFICES ASSUME ServerInv, NEW p \in pid_session_map
               PROVE  Outstanding(p) <= 1 /\ (Outstanding(p) = 1 => session[p].acquire_requested)
    BY ZenonT(30) DEF OneAcquisition
  <2> USE DEF ServerInv
  <2>1. PICK c : c = wrapper[p].connection /\ c \in Connections \union {NoConnection}
    BY ZenonT(30) DEF TypeOK, Wrapper
  <2>2. Acquisition(p)
    BY ZenonT(30) DEF AcquireInv, TypeOK
  <2>3. CASE c = NoConnection
    <3>1. CASE session[p].data_acquired
      <4>1. Outstanding(p) = 1
        BY <2>1, <2>3, <3>1, SMTT(30), Z3T(30) DEF Outstanding, Count
      <4>2. session[p].acquire_requested
        BY <2>2, <3>1, ZenonT(30) DEF Acquisition
      <4>3. QED
        BY <4>1, <4>2, SMTT(30), Z3T(30)
    <3>2. CASE ~session[p].data_acquired
      BY <2>1, <2>3, <3>2, SMTT(30), Z3T(30) DEF Outstanding, Count
    <3>3. QED
      BY <3>1, <3>2, ZenonT(30)
  <2>4. CASE c # NoConnection
    <3>1. /\ Load(c)
          /\ Pending(c) => session[p].acquire_requested /\ ~session[p].data_acquired
          /\ session[p].data_acquired => session[p].acquire_requested
      BY <2>1, <2>2, <2>4, ZenonT(30) DEF Acquisition
    <3>2. requests[c] \in Nat /\ responses[c] \in Nat
      BY <2>1, <2>4, ZenonT(30) DEF TypeOK
    <3>3. CASE session[p].data_acquired
      <4>1. requests[c] = 0 /\ responses[c] = 0 /\ ~Responding(c)
        BY <3>1, <3>3, ZenonT(30) DEF Pending, Quiet
      <4>2. Outstanding(p) = 1
        BY <2>1, <2>4, <3>3, <4>1, SMTT(30), Z3T(30) DEF Outstanding, Count
      <4>3. QED
        BY <3>1, <3>3, <4>2, SMTT(30), Z3T(30)
    <3>4. CASE ~session[p].data_acquired
      <4>1. Outstanding(p) = requests[c] + responses[c] + Count(Responding(c))
        BY <2>1, <2>4, <3>2, <3>4, SMTT(30), Z3T(30) DEF Outstanding, Count
      <4>2. Outstanding(p) <= 1
        BY <3>1, <3>2, <4>1, SMTT(30), Z3T(30) DEF Load, Quiet, Count
      <4>3. Outstanding(p) = 1 => Pending(c)
        BY <3>2, <4>1, SMTT(30), Z3T(30) DEF Pending, Quiet, Count
      <4>4. QED
        BY <3>1, <4>2, <4>3, ZenonT(30)
    <3>5. QED
      BY <3>3, <3>4, ZenonT(30)
  <2>5. QED
    BY <2>3, <2>4, ZenonT(30)
<1>2. QED
  BY <1>1, ServerInvariant, PTL

(* OnAcquireResponse has mutex_ and wants command_data_, RequestAcquire    *)
(* has command_data_ and wants mutex_: never for the same session.         *)
THEOREM LocksOrdered == Spec => []NoLockCycle
<1>1. ServerInv => NoLockCycle
  <2> SUFFICES ASSUME ServerInv, dispatch.pc = "Respond", worker.pc = "Request",
                      NEW p \in pid_session_map, p = worker.pid,
                      wrapper[p].connection = dispatch.connection
               PROVE  FALSE
    BY ZenonT(30) DEF NoLockCycle
  <2> USE DEF ServerInv
  <2>1. PICK c \in Connections : c = dispatch.connection
    BY ZenonT(30) DEF PositionInv
  <2>2. c # NoConnection /\ p \in Pids /\ worker.pc \in {"Request"}
    BY ServerAssumption, ZenonT(30) DEF TypeOK
  <2>3. Pending(c) /\ Acquisition(p)
    BY <2>1, <2>2, ZenonT(30) DEF Pending, Responding, AcquireInv
  <2>4. QED
    BY <2>1, <2>2, <2>3, ZenonT(30) DEF Acquisition, Ticks
<1>2. QED
  BY <1>1, ServerInvariant, PTL

(* The worker removes a session only after ProcessDetachedLogs has read    *)
(* what its client has left behind.                                        *)
THEOREM RemovedAfterRead == Spec => PostMortemRead
<1> DEFINE ReadBefore == \A p \in pid_session_map \ pid_session_map' :
                           \/ session[p].detach_on_closed_processed
                           \/ shutdown' = "joined"
<1>1. ASSUME ServerInv, Next PROVE ReadBefore
  <2> SUFFICES ASSUME NEW p \in pid_session_map \ pid_session_map'
               PROVE  session[p].detach_on_closed_processed \/ shutdown' = "joined"
    BY ZenonT(30)
  <2> USE <1>1 DEF ServerInv
  <2>1. (RemoveSession /\ p = worker.pid) \/ ClearSessions
    BY MapSteps, ZenonT(30) DEF EmplaceSession, RemoveSession
  <2>2. CASE ClearSessions
    BY <2>2, ZenonT(30) DEF ClearSessions
  <2>3. CASE RemoveSession /\ p = worker.pid
    <3>1. worker.pc = "Relock" /\ MayRemove(wrapper[p])
      BY <2>3, ZenonT(30) DEF RemoveSession
    <3>2. worker.pc # "Notify" /\ worker.pc \notin {"Notify"} /\ worker.pc \notin {"Tick", "Finalize", "Read"}
      BY <3>1, ZenonT(30)
    <3>3. Detach(p)
      BY ZenonT(30) DEF MarkInv, TypeOK
    <3>4. \/ worker.closed_by_peer \/ worker.finishing
          \/ ~wrapper[p].closed_by_peer /\ wrapper[p].to_delete
      BY <3>1, ZenonT(30) DEF MayRemove, Requeued
    <3>5. session[p].command_detach_on_closed
      BY <2>3, <3>2, <3>3, <3>4, ZenonT(30) DEF Detach, Ticks
    <3>6. QED
      BY <3>2, <3>3, <3>5, ZenonT(30) DEF Detach, Ticks
  <2>4. QED
    BY <2>1, <2>2, <2>3, ZenonT(30)
<1>2. ServerInv /\ [Next]_vars => [ReadBefore]_vars
  BY <1>1, ZenonT(30)
<1>3. QED
  BY <1>2, ServerInvariant, PTL DEF Spec, PostMortemRead

=============================================================================
