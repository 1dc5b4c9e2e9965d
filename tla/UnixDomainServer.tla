-------------------------- MODULE UnixDomainServer --------------------------
(***************************************************************************)
(* The server behind the configuration socket.  One thread polls, accepts  *)
(* at most one connection, reads one message of every readable connection, *)
(* works off the queue of ticks, and every 100 ms visits the silent        *)
(* connections as well.  The clients send, close and connect at any moment *)
(* between two steps of it.  A message is "command" (a text), "empty" (a   *)
(* ping) or "corrupt" (a header that does not fit).  A client that closes  *)
(* with answers unread leaves the server an error instead of an end.       *)
(***************************************************************************)
EXTENDS Integers, FiniteSets, FiniteSetsExt, Sequences, Functions

CONSTANTS
  Clients,       \* connections, each used once
  Fds,           \* descriptors accept can return
  MaxTexts,      \* bound: messages the clients send, together
  SessionTick    \* what ISession::Tick returns: FALSE for ConfigSession,
                 \* TRUE for StubConfigSession

ASSUME FdsAssumption == Fds \subseteq Nat /\ SessionTick \in BOOLEAN

VARIABLES
  connection_fd_map,        \* fd -> SessionWrapper
  connection_pollfd_list,   \* the polled descriptors, without the server's
  revents,                  \* descriptors found readable by the last poll
  todo,                     \* descriptors the current loop has still to visit
  work_queue,               \* queue of ticks: descriptors
  loop,                     \* where the server thread is
  idle_round,               \* 100 ms are over: a second half follows
  server_exit,
  peer                      \* the other ends of the connections

unixVars == <<connection_fd_map, connection_pollfd_list, revents, todo, work_queue,
              loop, idle_round, server_exit, peer>>
serverState == <<connection_fd_map, connection_pollfd_list, revents, todo, work_queue,
                 loop, idle_round>>

Wrappers == connection_fd_map

NewPeer == [state |-> "new", inbox |-> <<>>, sent |-> 0, commands |-> 0,
            answers |-> 0, lost |-> 0, served |-> FALSE, notified |-> FALSE]

NewWrapper(c) ==
  [client |-> c, session |-> FALSE, enqueued |-> FALSE, running |-> FALSE,
   to_delete |-> FALSE, closed_by_peer |-> FALSE, expired |-> FALSE]

\* SetupServerSocket ends the process when it cannot listen.
UnixInit ==
  /\ connection_fd_map = <<>> /\ connection_pollfd_list = {}
  /\ revents = {} /\ todo = {} /\ work_queue = <<>>
  /\ loop = "poll" /\ idle_round = FALSE /\ server_exit = FALSE
  /\ peer = [c \in Clients |-> NewPeer]

Put(f, k, v) == [x \in DOMAIN f \cup {k} |-> IF x = k THEN v ELSE f[x]]
Drop(f, k) == Restrict(f, DOMAIN f \ {k})

-----------------------------------------------------------------------------
(* SessionWrapper: an operation yields the wrapper and what it pushes.     *)

EnqueueTick(w, fd) ==
  IF ~w.enqueued /\ ~w.to_delete
    THEN [w |-> [w EXCEPT !.enqueued = TRUE], push |-> IF w.running THEN <<>> ELSE <<fd>>]
    ELSE [w |-> w, push |-> <<>>]

(* Mutant: the 500 ms are not looked at.                                   *)
KeepsUnnamed(w, text) == w.session \in BOOLEAN

\* FALSE: the connection named no session within its 500 ms.
Keeps(w, text) == w.session \/ text # "empty" \/ ~w.expired

\* The first text creates the session, the later ones are commands to it.
HandleCommand(w, text, fd) ==
  IF w.session \/ text # "empty"
    THEN EnqueueTick([w EXCEPT !.session = TRUE], fd)
    ELSE [w |-> w, push |-> <<>>]

(* Mutant: the connection is marked but not queued.                        *)
TryEnqueueForDeleteUnqueued(w, by_peer, fd) ==
  [w |-> [w EXCEPT !.to_delete = TRUE, !.closed_by_peer = by_peer], push |-> <<>>]

TryEnqueueForDelete(w, by_peer, fd) ==
  LET marked == [w EXCEPT !.to_delete = TRUE, !.closed_by_peer = by_peer]
  IN IF ~w.running /\ ~w.enqueued
       THEN [w |-> [marked EXCEPT !.enqueued = TRUE], push |-> <<fd>>]
       ELSE [w |-> marked, push |-> <<>>]

SetRunning(w) == [w EXCEPT !.enqueued = FALSE, !.running = TRUE]

ResetRunning(w, requeue) == [w EXCEPT !.running = FALSE, !.enqueued = @ \/ requeue]

\* GetResetClosedByPeer
Reset(w) == [w EXCEPT !.closed_by_peer = FALSE]

Update(fd, r) ==
  /\ connection_fd_map' = [connection_fd_map EXCEPT ![fd] = r.w]
  /\ work_queue' = work_queue \o r.push

-----------------------------------------------------------------------------
(* One iteration.                                                          *)

\* The connection has data, its end, or an error.
Readable(fd) ==
  LET p == peer[Wrappers[fd].client]
  IN p.inbox # <<>> \/ p.state \in {"closed", "reset"}

\* Connections wait for accept; their client may have gone already.
Waiting(c) == peer[c].state \in {"connecting", "gone"}

\* accept takes a free descriptor; a connection just accepted has no event yet.
Accept(c) ==
  LET fd == Min(Fds \ DOMAIN connection_fd_map)
  IN /\ Fds \ DOMAIN connection_fd_map # {}
     /\ Waiting(c)
     /\ connection_fd_map' = Put(connection_fd_map, fd, NewWrapper(c))
     /\ connection_pollfd_list' = connection_pollfd_list \cup {fd}
     /\ peer' = [peer EXCEPT ![c].state = IF @ = "gone" THEN "closed" ELSE "open"]

Poll(round) ==
  /\ loop = "poll" /\ ~server_exit
  /\ revents' = {fd \in connection_pollfd_list : Readable(fd)}
  /\ \/ \E c \in Clients : Accept(c)
     \/ /\ \A c \in Clients : ~Waiting(c)
        /\ UNCHANGED <<connection_fd_map, connection_pollfd_list, peer>>
  /\ todo' = revents'
  /\ loop' = "active" /\ idle_round' = round
  /\ UNCHANGED <<work_queue, server_exit>>

\* The process ends, and the descriptors with it.
ProcessEnds ==
  /\ connection_fd_map' = <<>> /\ connection_pollfd_list' = {}
  /\ revents' = {} /\ todo' = {} /\ work_queue' = <<>>
  /\ loop' = "aborted" /\ idle_round' = FALSE
  /\ UNCHANGED <<server_exit, peer>>

\* An accept that fails, for want of descriptors say, is answered by exit.
AcceptFails ==
  /\ loop = "poll" /\ ~server_exit
  /\ \E c \in Clients : Waiting(c)
  /\ ProcessEnds

PollIdle == Poll(TRUE)
PollActive == Poll(FALSE)

Visited(fd) == todo' = todo \ {fd}

(* Mutant: the size in the header is not checked.                          *)
RecvSocketMessageUnchecked(p) ==
  IF p.inbox = <<>> THEN "nullopt"
    ELSE IF Head(p.inbox) = "corrupt" THEN "command" ELSE Head(p.inbox)

\* The text of a message, "empty" when it has no characters; nullopt at the end
\* of the stream and for a corrupt header.  SendSocketMessage sends a header and
\* its text in one call, so that the second receive does not wait.  The socket
\* blocks and the signals are masked: no call times out or is interrupted.
RecvSocketMessage(p) ==
  IF p.inbox = <<>> \/ Head(p.inbox) = "corrupt" THEN "nullopt" ELSE Head(p.inbox)

\* Drop a connection: at once when it has no session, else by the queue.
Finish(fd, by_peer) ==
  /\ connection_pollfd_list' = connection_pollfd_list \ {fd}
  /\ IF Wrappers[fd].session
       THEN Update(fd, TryEnqueueForDelete(Wrappers[fd], by_peer, fd))
       ELSE /\ connection_fd_map' = Drop(connection_fd_map, fd)
            /\ UNCHANGED work_queue

\* PassMessage, the answer to a command: when sendmsg fails, because the peer has
\* closed its end, that is reported and nothing else.
PassMessage(p) ==
  IF p.state = "open" THEN [p EXCEPT !.answers = @ + 1] ELSE [p EXCEPT !.lost = @ + 1]

\* The peer once a message of it has been read: a text to a session is a command.
Received(p, text, session) ==
  LET q == [p EXCEPT !.inbox = IF @ = <<>> THEN @ ELSE Tail(@), !.served = @ \/ text = "command"]
  IN IF session /\ text = "command" THEN PassMessage(q) ELSE q

ProcessActiveConnections(fd) ==
  LET w == Wrappers[fd]
      p == peer[w.client]
      text == RecvSocketMessage(p)
  IN /\ loop = "active" /\ fd \in todo
     /\ peer' = [peer EXCEPT ![w.client] = Received(p, text, w.session)]
     /\ IF text = "nullopt" \/ ~Keeps(w, text)
          THEN Finish(fd, TRUE)
          ELSE Update(fd, HandleCommand(w, text, fd)) /\ UNCHANGED connection_pollfd_list
     /\ Visited(fd)
     /\ UNCHANGED <<revents, loop, idle_round, server_exit>>

\* Any other error of recvmsg is not returned: RecvSocketMessage goes on to the
\* value of a result that has none.  Either that ends the process, or it is taken
\* for a short header, which is the nullopt above.
RecvWithoutValue(fd) ==
  /\ loop = "active" /\ fd \in todo
  /\ peer[Wrappers[fd].client].state = "reset" /\ peer[Wrappers[fd].client].inbox = <<>>
  /\ ProcessEnds

ProcessIdleConnections(fd) ==
  /\ loop = "idle" /\ fd \in todo
  /\ IF Keeps(Wrappers[fd], "empty")
       THEN Update(fd, HandleCommand(Wrappers[fd], "empty", fd)) /\ UNCHANGED connection_pollfd_list
       ELSE Finish(fd, FALSE)
  /\ Visited(fd)
  /\ UNCHANGED <<revents, loop, idle_round, server_exit, peer>>

\* ProcessQueue follows both loops over the connections.
InQueue == loop \in {"active", "idle"} /\ todo = {}

\* One turn of the loop over the queue.
ProcessQueue ==
  /\ InQueue /\ work_queue # <<>>
  /\ LET fd == Head(work_queue)
         ticked == ResetRunning(Reset(SetRunning(Wrappers[fd])), SessionTick)
     IN IF fd \notin DOMAIN connection_fd_map
          THEN work_queue' = Tail(work_queue) /\ UNCHANGED <<connection_fd_map, peer>>
          ELSE /\ work_queue' = Tail(work_queue) \o (IF ticked.enqueued THEN <<fd>> ELSE <<>>)
               /\ connection_fd_map' = IF ~ticked.enqueued /\ ticked.to_delete
                                         THEN Drop(connection_fd_map, fd)
                                         ELSE [connection_fd_map EXCEPT ![fd] = ticked]
               /\ peer' = IF Wrappers[fd].closed_by_peer
                            THEN [peer EXCEPT ![Wrappers[fd].client].notified = TRUE]
                            ELSE peer
  /\ UNCHANGED <<connection_pollfd_list, revents, todo, loop, idle_round, server_exit>>

EndOfQueue ==
  /\ InQueue /\ work_queue = <<>>
  /\ IF loop = "active" /\ idle_round
       THEN loop' = "idle" /\ todo' = connection_pollfd_list \ revents
       ELSE loop' = "poll" /\ UNCHANGED todo
  /\ revents' = IF loop' = "poll" THEN {} ELSE revents
  /\ idle_round' = FALSE
  /\ UNCHANGED <<connection_fd_map, connection_pollfd_list, work_queue, server_exit, peer>>

\* The wrappers are destroyed with the map; what was queued is never looked at.
CleanupAllConnections ==
  /\ loop = "poll" /\ server_exit
  /\ connection_fd_map' = <<>> /\ connection_pollfd_list' = {}
  /\ loop' = "done"
  /\ UNCHANGED <<revents, todo, work_queue, idle_round, server_exit, peer>>

-----------------------------------------------------------------------------
(* The clients and the owner of the server.                                *)

\* The thread or the process has ended: there is nobody to talk to any more.
Ended == loop \in {"done", "aborted"}

Connect(c) ==
  /\ peer[c].state = "new" /\ ~Ended
  /\ peer' = [peer EXCEPT ![c].state = "connecting"]
  /\ UNCHANGED <<serverState, server_exit>>

TextsSent == FoldFunction(LAMBDA p, n : p.sent + n, 0, peer)

SendSocketMessage(c, m) ==
  /\ peer[c].state \in {"connecting", "open"} /\ ~Ended
  /\ TextsSent < MaxTexts
  /\ peer' = [peer EXCEPT ![c].inbox = Append(@, m), ![c].sent = @ + 1,
                          ![c].commands = @ + (IF m = "command" THEN 1 ELSE 0)]
  /\ UNCHANGED <<serverState, server_exit>>

Close(c) ==
  /\ peer[c].state \in {"connecting", "open"} /\ ~Ended
  /\ \E s \in {"closed", "reset"} :
       /\ s = "reset" => peer[c].answers > 0
       /\ peer' = [peer EXCEPT ![c].state = IF @ = "open" THEN s ELSE "gone"]
  /\ UNCHANGED <<serverState, server_exit>>

Expire(fd) ==
  /\ fd \in DOMAIN connection_fd_map /\ ~Wrappers[fd].expired /\ ~Wrappers[fd].session
  /\ connection_fd_map' = [connection_fd_map EXCEPT ![fd].expired = TRUE]
  /\ UNCHANGED <<connection_pollfd_list, revents, todo, work_queue, loop, idle_round,
                 server_exit, peer>>

StopServer ==
  /\ ~server_exit
  /\ server_exit' = TRUE
  /\ UNCHANGED <<serverState, peer>>

ServerStep ==
  \/ PollIdle
  \/ PollActive
  \/ AcceptFails
  \/ \E fd \in Fds : ProcessActiveConnections(fd) \/ RecvWithoutValue(fd)
  \/ \E fd \in Fds : ProcessIdleConnections(fd)
  \/ ProcessQueue
  \/ EndOfQueue
  \/ CleanupAllConnections

UnixNext ==
  \/ ServerStep
  \/ \E c \in Clients : Connect(c) \/ Close(c)
  \/ \E c \in Clients, m \in {"command", "empty", "corrupt"} : SendSocketMessage(c, m)
  \/ \E fd \in Fds : Expire(fd)
  \/ StopServer

UnixSpec == UnixInit /\ [][UnixNext]_unixVars

\* The thread runs, the 100 ms pass again and again, and so do the 500 ms.
UnixFairness ==
  /\ WF_unixVars(ServerStep)
  /\ SF_unixVars(PollIdle)
  /\ \A fd \in Fds : WF_unixVars(Expire(fd))

FairUnixSpec == UnixSpec /\ UnixFairness

-----------------------------------------------------------------------------
(* Only descriptors of the map are polled or waiting for their turn of the *)
(* loop: a descriptor the loop has closed is never touched again.          *)
UnixTypeOK ==
  /\ DOMAIN connection_fd_map \subseteq Fds
  /\ connection_pollfd_list \cup todo \subseteq DOMAIN connection_fd_map
  /\ work_queue \in Seq(Fds)
  /\ loop \in {"poll", "active", "idle", "done", "aborted"}

(* While the loop runs, the queue and the flags agree: no descriptor is    *)
(* queued twice, exactly the connections with enqueued_ are queued, and a  *)
(* descriptor that is no longer polled is still queued for its deletion,   *)
(* so that neither a stale entry reaches a connection that got the same    *)
(* descriptor later, nor a connection stays in the map for ever.           *)
QueueMatchesFlags ==
  ~Ended =>
    /\ IsInjective(work_queue)
    /\ Range(work_queue) = {fd \in DOMAIN connection_fd_map : Wrappers[fd].enqueued}
    /\ connection_pollfd_list = {fd \in DOMAIN connection_fd_map : ~Wrappers[fd].to_delete}
    /\ \A fd \in DOMAIN connection_fd_map : Wrappers[fd].to_delete => Wrappers[fd].enqueued

(* The texts that are waiting to be read.                                  *)
Texts(inbox) == Cardinality({i \in DOMAIN inbox : inbox[i] = "command"})

(* Commands are answered once each, whatever the order of the visits: of   *)
(* the texts a connected client has sent, the first one created its        *)
(* session, and every other one is still waiting or was answered, with an  *)
(* answer that arrived or one that found the client's end closed.          *)
EveryCommandAnswered ==
  \A fd \in DOMAIN connection_fd_map :
    LET p == peer[Wrappers[fd].client]
    IN p.commands = p.answers + p.lost + Texts(p.inbox)
                      + (IF Wrappers[fd].session THEN 1 ELSE 0)

(* A session that ends because its peer closed the connection is told so   *)
(* before it is destroyed, unless the server itself is going away.         *)
ClosedPeerIsNotified ==
  \A c \in Clients :
    peer[c].served /\ ~Ended /\ (\A fd \in DOMAIN connection_fd_map : Wrappers[fd].client # c)
      => peer[c].notified

\* The server holds a descriptor for a client that has closed its end, or for
\* one that has named no session.
Overdue(c) ==
  \E fd \in DOMAIN connection_fd_map :
    /\ Wrappers[fd].client = c
    /\ peer[c].state \in {"closed", "reset"} \/ ~Wrappers[fd].session

(* A connection whose client closed it is given up and its descriptor      *)
(* released, whether the server finds an end or an error; and a connection *)
(* does not stay without a session: its client names one, or it is given   *)
(* up once its 500 ms are over, whatever empty messages it sends.          *)
ReleasesDescriptors == \A c \in Clients : Overdue(c) ~> ~Overdue(c)

(* The destructor ends: once the exit is requested the thread leaves its   *)
(* loop, however many connections and ticks there are.                     *)
ExitEnds == server_exit ~> Ended

(* ProcessQueue comes back, as its comment "returns true if the queue is   *)
(* still not empty" promises even for sessions that ask for another tick.  *)
ProcessQueueReturns == InQueue ~> ~InQueue
=============================================================================
