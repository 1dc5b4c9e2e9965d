--------------------------- MODULE DltLogChannel ---------------------------
(***************************************************************************)
(* One DLT channel of the Datarouter: messages are packed into at most     *)
(* kVectorCount datagrams of kUdpMaxPayload units, which one sendmmsg call *)
(* sends when the last one fills up or the channel is flushed.             *)
(*                                                                         *)
(* Four threads meet here: the worker of the message passing server sends  *)
(* log messages, the file transfer thread sends its packets, the main      *)
(* thread flushes and shows statistics, the configuration thread sets the  *)
(* threshold.  mutex_ guards the buffers, but the worker reads the         *)
(* threshold, and the file transfer thread increments mcnt_, without it.   *)
(***************************************************************************)
EXTENDS Integers, Sequences, FiniteSets, Functions

CONSTANTS
  kUdpMaxPayload,   \* room of a datagram
  kVectorCount,     \* datagrams sent by one system call
  CounterModulus,   \* 2^8: mcnt_ and the counts of buffered messages
  Sizes,            \* sizes of messages, header included
  MaxMessages,      \* bound on the messages sent
  MaxReports,       \* bound on the messages shown by ShowStats
  MaxFailures       \* bound on the failures of a working socket

ASSUME ChannelAssumption ==
  /\ kUdpMaxPayload \in Nat \ {0} /\ kVectorCount \in Nat \ {0}
  /\ CounterModulus \in Nat \ {0} /\ Sizes \subseteq Nat \ {0}
  /\ MaxMessages \in Nat /\ MaxReports \in Nat /\ MaxFailures \in Nat

VARIABLES
  channel,            \* the members of the channel, a record; arrived is what
                      \* the two counts would sum up to had they no width,
                      \* unsent the datagrams lost without a trace
  channel_threshold,  \* whether the threshold lets messages pass
  pending,            \* what the worker and the file transfer thread have begun
  accepted,           \* number of messages that reached the buffers
  handed,             \* datagrams given to the socket, in order, taken or not
  shown               \* totals that ShowStats has reported and cleared

channelVars == <<channel, channel_threshold, pending, accepted, handed, shown>>

Kinds == {"verbose", "nonverbose"}
Threads == {"worker", "file_transfer"}
NothingPending == [step |-> "idle"]
PerKind(n) == [k \in Kinds |-> n]

\* DltLogChannel: socket_ stays -1 when the UDP socket could not be created,
\* whatever becomes of its options and of bind.
UdpStreamOutput == BOOLEAN

NewChannel(socket) ==
  [socket |-> socket, mcnt |-> 0, count |-> PerKind(0), arrived |-> 0, unsent |-> 0, vectors |-> <<>>,
   prebuf |-> <<>>, prebuf_size |-> 0, prebuf_is_verbose |-> FALSE,
   msgcnt |-> PerKind(0), send_failures |-> PerKind(0),
   send_errno |-> PerKind(0)]

ChannelInit ==
  /\ \E socket \in UdpStreamOutput : channel = NewChannel(socket)
  /\ channel_threshold = TRUE
  /\ pending = [t \in Threads |-> NothingPending]
  /\ accepted = 0
  /\ handed = <<>>
  /\ shown = [msgcnt |-> PerKind(0), send_failures |-> PerKind(0)]

Increment(n) == (n + 1) % CounterModulus

\* An error is counted for every kind that is buffered.
Failed(c, kinds) ==
  [c EXCEPT !.send_failures = [k \in Kinds |-> @[k] + (IF k \in kinds THEN 1 ELSE 0)],
            !.send_errno = [k \in Kinds |-> @[k] + (IF k \in kinds THEN 1 ELSE 0)]]

\* What a call of the socket does: it takes some of the datagrams, in order, and
\* reports an error when it takes none.
Outcomes(c) ==
  IF ~c.socket THEN {0}
  ELSE IF c.send_errno["verbose"] + c.send_errno["nonverbose"] + c.unsent < MaxFailures
    THEN 0..kVectorCount ELSE {kVectorCount}

\* What an operation has done so far: the channel, and the datagrams it gave
\* to the socket.
Store(s) ==
  IF s.c.prebuf_size > 0
    THEN [s EXCEPT !.c.vectors = Append(@, s.c.prebuf), !.c.prebuf = <<>>,
                   !.c.prebuf_size = 0]
    ELSE s

\* Nobody looks how many datagrams were taken if there was no error.
SendUdp(s, flush, taken) ==
  LET stored == Store(s)
      c == stored.c
      counted == {k \in Kinds : c.count[k] > 0}
      reported == IF taken = 0 THEN Failed(c, counted)
                  ELSE IF taken < Len(c.vectors)
                    THEN [c EXCEPT !.unsent = @ + Len(c.vectors) - taken] ELSE c
  IN IF (flush /\ c.vectors # <<>>) \/ Len(c.vectors) >= kVectorCount
       THEN [c |-> [reported EXCEPT !.vectors = <<>>, !.count = PerKind(0),
                                       !.arrived = 0],
             out |-> s.out \o c.vectors]
       ELSE stored

\* The headers of a message: its counter; the extended one tells the kind.
ConstructHeader(m, mcnt) == [m EXCEPT !.mcnt = mcnt]

\* Put a message into the current buffer.
Construct(s, m) ==
  [s EXCEPT !.c.prebuf = Append(@, ConstructHeader(m, s.c.mcnt)),
            !.c.prebuf_size = @ + m.size, !.c.mcnt = Increment(@)]

\* Send a message that no buffer can hold, alone, after what is buffered.
(* Mutant: what is buffered is not flushed before the big message.         *)
SendBigFirst(s, m, flushed_taken, taken) ==
  LET sent == [c |-> [s.c EXCEPT !.mcnt = Increment(@)],
               out |-> Append(s.out, <<ConstructHeader(m, s.c.mcnt)>>)]
  IN IF taken > 0 THEN sent ELSE [sent EXCEPT !.c = Failed(@, {m.kind})]

SendBig(s, m, flushed_taken, taken) ==
  LET flushed == SendUdp(s, TRUE, flushed_taken)
      sent == [c |-> [flushed.c EXCEPT !.mcnt = Increment(@)],
               out |-> Append(flushed.out, <<ConstructHeader(m, flushed.c.mcnt)>>)]
  IN IF taken > 0 THEN sent ELSE [sent EXCEPT !.c = Failed(@, {m.kind})]

Counted(c, kind) ==
  [c EXCEPT !.msgcnt[kind] = @ + 1, !.count[kind] = Increment(@), !.arrived = @ + 1]

\* Give up the buffer when it holds messages of the other kind.
ChangeKind(s, verbose, taken) ==
  IF s.c.prebuf_is_verbose # verbose
    THEN [SendUdp(s, FALSE, taken) EXCEPT !.c.prebuf_is_verbose = verbose]
    ELSE s

\* The common body of SendVerbose and SendNonVerbose.
Buffered(c, m, change, overflow, flush, single) ==
  LET counted == [c |-> Counted(c, m.kind), out |-> <<>>]
      changed == ChangeKind(counted, m.kind = "verbose", change)
      full == SendUdp(changed, FALSE, overflow)
  IN CASE changed.c.prebuf_size + m.size <= kUdpMaxPayload -> Construct(changed, m)
       [] changed.c.prebuf_size + m.size > kUdpMaxPayload /\ m.size < kUdpMaxPayload ->
            Construct(full, m)
       [] OTHER -> SendBig(full, m, flush, single)

\* Take over the result of an operation.
Commit(s) ==
  /\ channel' = s.c
  /\ handed' = handed \o s.out

Begun == accepted + Cardinality({t \in Threads : pending[t] # NothingPending})

\* The worker compares the level of a message with the threshold.
CheckThreshold(kind, size) ==
  /\ pending["worker"] = NothingPending
  /\ Begun < MaxMessages
  /\ channel_threshold
  /\ pending' = [pending EXCEPT !["worker"] =
                   [step |-> "accepted", kind |-> kind, size |-> size]]
  /\ UNCHANGED <<channel, channel_threshold, accepted, handed, shown>>

\* The locked part of SendVerbose and SendNonVerbose.
Send(kind) ==
  LET p == pending["worker"]
  IN /\ p.step = "accepted" /\ p.kind = kind
     /\ accepted' = accepted + 1
     /\ \E a, b, f, o \in Outcomes(channel) :
          Commit(Buffered(channel, [id |-> accepted', kind |-> kind, size |-> p.size,
                                    mcnt |-> 0], a, b, f, o))
     /\ pending' = [pending EXCEPT !["worker"] = NothingPending]
     /\ UNCHANGED <<channel_threshold, shown>>

SendNonVerbose == Send("nonverbose")
SendVerbose == Send("verbose")

\* SendFtVerbose takes mcnt_++ without the mutex: a read, then a write that
\* undoes the increments made between them.
TakeCounter ==
  /\ pending["file_transfer"] = NothingPending
  /\ Begun < MaxMessages
  /\ pending' = [pending EXCEPT !["file_transfer"] =
                   [step |-> "counted", mcnt |-> channel.mcnt]]
  /\ UNCHANGED <<channel, channel_threshold, accepted, handed, shown>>

StoreCounter ==
  LET p == pending["file_transfer"]
  IN /\ p.step = "counted"
     /\ channel' = [channel EXCEPT !.mcnt = Increment(p.mcnt)]
     /\ pending' = [pending EXCEPT !["file_transfer"].step = "packet"]
     /\ UNCHANGED <<channel_threshold, accepted, handed, shown>>

\* The locked part of SendFtVerbose.
ChannelSendFtVerbose ==
  LET p == pending["file_transfer"]
      packet == [id |-> accepted + 1, kind |-> "verbose", size |-> 0, mcnt |-> p.mcnt]
  IN /\ p.step = "packet"
     /\ accepted' = accepted + 1
     /\ \E f, single \in Outcomes(channel) :
          LET flushed == SendUdp([c |-> channel, out |-> <<>>], TRUE, f)
              tried == IF single > 0 THEN flushed.c ELSE Failed(flushed.c, {"verbose"})
          IN Commit([c |-> [tried EXCEPT !.msgcnt["verbose"] = @ + 1],
                     out |-> Append(flushed.out, <<packet>>)])
     /\ pending' = [pending EXCEPT !["file_transfer"] = NothingPending]
     /\ UNCHANGED <<channel_threshold, shown>>

Flush ==
  /\ channel.vectors # <<>> \/ channel.prebuf_size > 0
  /\ \E taken \in Outcomes(channel) :
       Commit(SendUdp([c |-> channel, out |-> <<>>], TRUE, taken))
  /\ UNCHANGED <<channel_threshold, pending, accepted, shown>>

\* The totals of both kinds are reported and cleared; the counts per error
\* code are reported but kept.
ClearStats(c) == [c EXCEPT !.msgcnt = PerKind(0), !.send_failures = PerKind(0)]

ShowStats ==
  /\ shown.msgcnt["verbose"] + shown.msgcnt["nonverbose"] < MaxReports
  /\ channel.msgcnt # PerKind(0)
  /\ shown' = [f \in DOMAIN shown |->
                 [k \in Kinds |-> shown[f][k] + channel[f][k]]]
  /\ channel' = ClearStats(channel)
  /\ UNCHANGED <<channel_threshold, pending, accepted, handed>>

\* The configuration thread stores a new threshold.
SetThreshold ==
  /\ channel_threshold' = ~channel_threshold
  /\ UNCHANGED <<channel, pending, accepted, handed, shown>>

ChannelNext ==
  \/ \E kind \in Kinds, size \in Sizes : CheckThreshold(kind, size)
  \/ SendNonVerbose
  \/ SendVerbose
  \/ TakeCounter
  \/ StoreCounter
  \/ ChannelSendFtVerbose
  \/ Flush
  \/ ShowStats
  \/ SetThreshold

ChannelSpec == ChannelInit /\ [][ChannelNext]_channelVars

-----------------------------------------------------------------------------
Messages == [id : Nat, kind : Kinds, size : Nat, mcnt : 0..(CounterModulus - 1)]

(* The buffers stay within their arrays: the current one never grows past  *)
(* kUdpMaxPayload and, whatever sequence of messages arrives, fewer than   *)
(* kVectorCount are waiting between operations, so that vector_index_ is   *)
(* always a valid index for the next message.                              *)
ChannelTypeOK ==
  /\ channel.mcnt \in 0..(CounterModulus - 1)
  /\ channel.prebuf \in Seq(Messages)
  /\ channel.prebuf_size \in 0..kUdpMaxPayload
  /\ Len(channel.vectors) < kVectorCount
  /\ channel.count \in [Kinds -> 0..(CounterModulus - 1)]
  /\ accepted \in 0..MaxMessages

(* Every datagram, waiting or sent, carries messages of one kind only: the *)
(* receiver of a datagram parses it as verbose or as non-verbose.          *)
OneKindPerDatagram ==
  \A d \in Range(handed) \cup Range(channel.vectors) \cup {channel.prebuf} :
    \A i, j \in DOMAIN d : d[i].kind = d[j].kind

\* The last message before the k-th of a sequence of datagrams.
LastBefore(ds, k) == IF k = 1 THEN 0 ELSE ds[k - 1][Len(ds[k - 1])].id

\* A datagram carries the messages that follow the n-th.
Continues(d, n) == \A i \in DOMAIN d : d[i].id = n + i

(* Messages leave the channel in the order in which they were accepted,    *)
(* each exactly once, whichever threads send, flush or overflow a buffer:  *)
(* every datagram given to the socket or waiting for it, and then the      *)
(* current buffer, continues where the one before it ends, and no datagram *)
(* is empty.  Each is given to one call only, which may fail or not take   *)
(* all its datagrams: nothing is sent again (see DatagramLossIsCounted).        *)
InOrderExactlyOnce ==
  LET all == handed \o channel.vectors
      last == LastBefore(all, Len(all) + 1)
  IN /\ \A k \in DOMAIN all : all[k] # <<>> /\ Continues(all[k], LastBefore(all, k))
     /\ Continues(channel.prebuf, last)
     /\ accepted = last + Len(channel.prebuf)

\* The messages in the buffers.
Waiting == UNION {Range(d) : d \in Range(channel.vectors) \cup {channel.prebuf}}

(* A failed send of two or more buffered messages is recorded in the       *)
(* statistics of some kind: the message whose arrival empties the buffers  *)
(* is counted before SendUdp resets the counts and buffered after it, so   *)
(* the counts miss it, but they never miss a second one (unless they have  *)
(* gone around).                                                           *)
FailureOfSeveralIsCounted ==
  (\E m, n \in Waiting : m.id # n.id) /\ channel.arrived < CounterModulus
    => \E k \in Kinds : channel.count[k] > 0

(* Statistics account for every accepted message exactly once however      *)
(* ShowStats interleaves with the senders, and the totals per error code,  *)
(* which are never cleared, are all the failures ever shown plus the       *)
(* failures not yet shown.                                                 *)
StatisticsBalance ==
  /\ \A k \in Kinds : channel.send_errno[k] =
                        shown.send_failures[k] + channel.send_failures[k]
  /\ shown.msgcnt["verbose"] + shown.msgcnt["nonverbose"]
       + channel.msgcnt["verbose"] + channel.msgcnt["nonverbose"] = accepted

(* Every datagram the socket does not take shows up in the statistics as a *)
(* failure: "failed to send: total count" of ShowStats.                    *)
DatagramLossIsCounted == channel.unsent = 0

(* The header of each message carries a message counter that "is increased *)
(* with each sent DLT message": no two messages waiting in the buffers     *)
(* carry the same number (unless the counter has gone around).             *)
CounterIncreases ==
  \A m, n \in Waiting : m.id < n.id /\ n.id - m.id < CounterModulus => m.mcnt # n.mcnt

=============================================================================
