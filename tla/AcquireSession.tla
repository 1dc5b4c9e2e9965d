--------------------------- MODULE AcquireSession ---------------------------
(***************************************************************************)
(* The data path of one session: the threads of a client write records     *)
(* into its shared memory (SharedMemoryWriter), an acquire request makes   *)
(* the client switch the two buffers, and SourceSession::Tick reads the    *)
(* buffer handed over through SharedMemoryReader.  After the client has    *)
(* exited, or its writer has been detached, the session reads what is left *)
(* ("post-mortem" or detached read).                                       *)
(*                                                                         *)
(* A writer chooses the active block, reserves its record in it and        *)
(* commits it: module AlternatingQueue shows that the atomic accesses of   *)
(* the queue amount to this.  A block is the sequence of the records       *)
(* reserved in it; acquired_index is its length and written_index the      *)
(* number of the committed ones, records being of one size.  The exchange  *)
(* of requests and responses is a single token: module                     *)
(* MessagePassingServer shows that no more than one is outstanding.        *)
(***************************************************************************)
EXTENDS Integers, Sequences, FiniteSets

CONSTANTS
  Writers,              \* threads of the client
  Capacity,             \* records that fit into a block
  MaxRecords,           \* bound on the records that are written
  SwitchCountModulus,   \* 2^32 in the code
  TicksWithoutAcquire,  \* kTicksWithoutAcquireWhileNoWrites
  ExitKinds,            \* how the client may end: "clean", "crash"
  QuotaEnforcement,     \* quota_enforcement_enabled
  OutputMayBeOff        \* enabled_logging_at_server may be false

ASSUME SessionAssumption ==
  /\ Capacity \in Nat \ {0}
  /\ MaxRecords \in Nat
  /\ SwitchCountModulus \in Nat \ {0} /\ SwitchCountModulus % 2 = 0
  /\ TicksWithoutAcquire \in Nat
  /\ ExitKinds \subseteq {"clean", "crash"}
  /\ QuotaEnforcement \in BOOLEAN /\ OutputMayBeOff \in BOOLEAN

VARIABLES
  (* shared memory; remains is what earlier rounds have left in a block *)
  switch_count, buffer, remains, writer_detached,
  (* client *)
  pc, target, number, alive, connected, quiet, settled,
  (* request, switch, response, result *)
  exchange, acquired,
  (* SharedMemoryReader *)
  linear_reader, buffer_expected_to_read_next, is_writer_detached,
  finished_reading_after_detach,
  (* SourceSession *)
  tick, finalized, command_detach_on_closed, detach_on_closed_processed,
  block_expected_to_be_next, ticks_without_write,
  quota_overlimit_detected, quota_limit_exceeded,
  (* what the session has passed on, and what it dropped over quota *)
  delivered, discarded

memory == <<switch_count, buffer, remains, writer_detached>>
threads == <<pc, target, number>>
process == <<alive, connected, quiet, settled>>
token == <<exchange, acquired>>
reader == <<linear_reader, buffer_expected_to_read_next, is_writer_detached,
            finished_reading_after_detach>>
control == <<finalized, command_detach_on_closed, detach_on_closed_processed>>
peek == <<block_expected_to_be_next, ticks_without_write>>
quota == <<quota_overlimit_detected, quota_limit_exceeded>>
output == <<delivered, discarded>>
vars == <<memory, threads, process, token, reader, tick, control, peek, quota,
          output>>

Blocks == {0, 1}
NoBlock == -1
Block(count) == count % 2
NextCount(count) == (count + 1) % SwitchCountModulus

Init ==
  /\ switch_count = 0
  /\ buffer = [b \in Blocks |-> <<>>]
  /\ remains = [b \in Blocks |-> <<>>]
  /\ writer_detached = FALSE
  /\ pc = [w \in Writers |-> "idle"]
  /\ target = [w \in Writers |-> 0]
  /\ number = 0
  /\ alive = TRUE /\ connected = TRUE
  /\ quiet = TRUE /\ settled = TRUE
  /\ exchange = "idle" /\ acquired = 0
  /\ linear_reader = <<>>
  /\ buffer_expected_to_read_next = 0
  /\ is_writer_detached = FALSE
  /\ finished_reading_after_detach = FALSE
  /\ tick = "idle" /\ finalized = FALSE
  /\ command_detach_on_closed = FALSE
  /\ detach_on_closed_processed = FALSE
  /\ block_expected_to_be_next = NoBlock /\ ticks_without_write = 0
  /\ quota_overlimit_detected = FALSE /\ quota_limit_exceeded = FALSE
  /\ delivered = <<>> /\ discarded = {}

-----------------------------------------------------------------------------
(* Writers of the client: AllocAndWrite                                    *)

Choose(w) ==
  /\ alive /\ pc[w] = "idle" /\ number < MaxRecords
  /\ pc' = [pc EXCEPT ![w] = "chosen"]
  /\ target' = [target EXCEPT ![w] = Block(switch_count)]
  /\ UNCHANGED <<memory, number, process, token, reader, tick, control, peek,
                 quota, output>>

Record(e) == <<"record", e.writer, e.number>>

(* The same record in a block that is filled again.                        *)
Remainder(e) == <<"remains", e.writer, e.number>>

Max2(m, n) == IF m < n THEN n ELSE m

(* The bytes of a block when it is filled again: its records lie over      *)
(* those of the rounds before.                                             *)
Overlaid(b) ==
  [i \in 1 .. Max2(Len(buffer[b]), Len(remains[b])) |->
     IF i <= Len(buffer[b]) THEN Remainder(buffer[b][i]) ELSE remains[b][i]]

(* Bytes that are no record.                                               *)
Garbage == <<"garbage">>

(* What an earlier round has left where the next record goes.              *)
Beneath(b) ==
  LET i == Len(buffer[b]) + 1 IN
  IF i <= Len(remains[b]) THEN remains[b][i] ELSE Garbage

Entry(w, k, b) ==
  [writer |-> w, number |-> k, committed |-> FALSE, beneath |-> Beneath(b)]

Reserve(w) ==
  LET b == target[w] IN
  /\ alive /\ pc[w] = "chosen"
  /\ Len(buffer[b]) < Capacity /\ number < MaxRecords
  /\ number' = number + 1
  /\ buffer' = [buffer EXCEPT ![b] = Append(@, Entry(w, number + 1, b))]
  /\ pc' = [pc EXCEPT ![w] = "reserved"]
  /\ quiet' = (quiet /\ connected)
  /\ UNCHANGED <<switch_count, remains, writer_detached, target, alive, connected,
                 settled, token, reader, tick, control, peek, quota, output>>

(* The buffer is full: the record is dropped.                              *)
Drop(w) ==
  /\ alive /\ pc[w] = "chosen"
  /\ Len(buffer[target[w]]) >= Capacity \/ number >= MaxRecords
  /\ pc' = [pc EXCEPT ![w] = "idle"]
  /\ UNCHANGED <<memory, target, number, process, token, reader, tick, control,
                 peek, quota, output>>

Commit(w) ==
  LET b == target[w] IN
  /\ alive /\ pc[w] = "reserved"
  /\ buffer' = [buffer EXCEPT
                  ![b] = [i \in DOMAIN @ |->
                            IF @[i].writer = w
                            THEN [@[i] EXCEPT !.committed = TRUE]
                            ELSE @[i]]]
  /\ pc' = [pc EXCEPT ![w] = "idle"]
  /\ UNCHANGED <<switch_count, remains, writer_detached, target, number, process, token,
                 reader, tick, control, peek, quota, output>>

-----------------------------------------------------------------------------
(* The client's side of the exchange, and its end                          *)

(* OnAcquireRequest: ReadAcquire switches the buffers ...                  *)
Switch ==
  LET b == Block(NextCount(switch_count)) IN
  /\ alive /\ connected /\ exchange = "request"
  /\ exchange' = "switched"
  /\ acquired' = switch_count
  /\ buffer' = [buffer EXCEPT ![b] = <<>>]
  /\ remains' = [remains EXCEPT ![b] = Overlaid(b)]
  /\ switch_count' = NextCount(switch_count)
  /\ UNCHANGED <<writer_detached, threads, process, reader, tick, control, peek,
                 quota, output>>

(* ... and then the response is sent.                                      *)
SendResponse ==
  /\ alive /\ exchange = "switched"
  /\ exchange' = "response"
  /\ UNCHANGED <<memory, threads, process, acquired, reader, tick, control,
                 peek, quota, output>>

(* A switch that the session has not finalised.                            *)
Unprocessed == exchange \in {"switched", "response", "acquired"}

(* The connection closes.  quiet remembers that nothing was being written  *)
(* then or has been since; settled, that no switch was on its way.         *)
Close ==
  /\ connected' = FALSE
  /\ quiet' = \A w \in Writers : pc[w] # "reserved"
  /\ settled' = ~Unprocessed

(* A clean exit first shuts down the message client, which waits for its   *)
(* callbacks: the connection closes while the writers may still run.       *)
Shutdown ==
  /\ "clean" \in ExitKinds
  /\ connected /\ exchange # "switched"
  /\ Close
  /\ UNCHANGED <<memory, threads, alive, token, reader, tick, control, peek,
                 quota, output>>

(* Then ~SharedMemoryWriter detaches the writer, and the process ends.     *)
DetachWriter ==
  /\ alive /\ ~connected /\ \A w \in Writers : pc[w] = "idle"
  /\ writer_detached' = TRUE
  /\ alive' = FALSE
  /\ UNCHANGED <<switch_count, buffer, remains, threads, connected, quiet, settled,
                 token, reader, tick, control, peek, quota, output>>

Crash ==
  /\ "crash" \in ExitKinds
  /\ alive /\ connected
  /\ alive' = FALSE
  /\ Close
  /\ UNCHANGED <<memory, threads, token, reader, tick, control, peek, quota,
                 output>>

-----------------------------------------------------------------------------
(* The session                                                             *)

(* Mutant: the block expected next is the one just acquired.               *)
OnAcquireResponseSame ==
  /\ exchange = "response"
  /\ exchange' = "acquired"
  /\ block_expected_to_be_next' = acquired
  /\ UNCHANGED <<memory, threads, process, acquired, reader, tick, control,
                 ticks_without_write, quota, output>>

OnAcquireResponse ==
  /\ exchange = "response"
  /\ exchange' = "acquired"
  /\ block_expected_to_be_next' = NextCount(acquired)
  /\ UNCHANGED <<memory, threads, process, acquired, reader, tick, control,
                 ticks_without_write, quota, output>>

(* Mutant: the session waits for its outstanding request first.            *)
OnClosedByPeerIdle ==
  /\ ~connected /\ ~command_detach_on_closed /\ tick = "idle"
  /\ exchange = "idle"
  /\ command_detach_on_closed' = TRUE
  /\ UNCHANGED <<memory, threads, process, token, reader, tick, finalized,
                 detach_on_closed_processed, peek, quota, output>>

(* The worker thread calls it between two ticks, after the disconnection   *)
(* has been seen; a response sent before that arrives first.               *)
OnClosedByPeer ==
  /\ ~connected /\ ~command_detach_on_closed /\ tick = "idle"
  /\ exchange # "response"
  /\ command_detach_on_closed' = TRUE
  /\ UNCHANGED <<memory, threads, process, token, reader, tick, finalized,
                 detach_on_closed_processed, peek, quota, output>>

(* Mutant: the block is taken as released once it is switched.             *)
IsBlockReleasedByWritersAssumed(b) == b \in Blocks

IsBlockReleasedByWriters(b) ==
  /\ \A w \in Writers : pc[w] # "idle" => target[w] # b
  /\ \A i \in DOMAIN buffer[b] : buffer[b][i].committed

(* written_index: the records of the block that have been committed.       *)
Written(b) == Cardinality({i \in DOMAIN buffer[b] : buffer[b][i].committed})

(* The first written_index bytes of the block.                             *)
CreateLinearReader(b) == SubSeq(buffer[b], 1, Written(b))

(* TryFinalizeAcquisition, and the start of ProcessAndRouteLogMessages.    *)
CanFinalize ==
  exchange = "acquired" /\ IsBlockReleasedByWriters(Block(acquired))

StartTick ==
  /\ tick = "idle" /\ ~detach_on_closed_processed
  /\ finalized' = CanFinalize
  /\ IF CanFinalize
     THEN /\ linear_reader' = CreateLinearReader(Block(acquired))
          /\ buffer_expected_to_read_next' = NextCount(acquired)
          /\ exchange' = "finalized"
     ELSE UNCHANGED <<linear_reader, buffer_expected_to_read_next, exchange>>
  /\ tick' = IF finished_reading_after_detach THEN "command" ELSE "read"
  /\ quota_limit_exceeded' = quota_overlimit_detected
  /\ UNCHANGED <<memory, threads, process, acquired, is_writer_detached,
                 finished_reading_after_detach, command_detach_on_closed,
                 detach_on_closed_processed, peek, quota_overlimit_detected,
                 output>>

(* One record of ReadLinearBuffer.  The detached read does not look at the *)
(* quota.  A record that was reserved but not committed is whatever the    *)
(* memory has: it ends the read, is skipped, or is taken for a record,     *)
(* which is then no record at all, the new one, or the one of an earlier   *)
(* round that it was to overwrite.                                         *)
ReadRecord ==
  LET e == Head(linear_reader)
      r == Record(e)
  IN
  /\ tick \in {"read", "detached"} /\ linear_reader # <<>>
  /\ IF e.committed
     THEN /\ linear_reader' = Tail(linear_reader)
          /\ IF tick = "read" /\ quota_limit_exceeded
             THEN discarded' = discarded \union {r} /\ UNCHANGED delivered
             ELSE delivered' = Append(delivered, r) /\ UNCHANGED discarded
     ELSE /\ linear_reader' \in {<<>>, Tail(linear_reader)}
          /\ delivered' \in {delivered} \union
               {Append(delivered, d) : d \in {Garbage, r, e.beneath}}
          /\ UNCHANGED discarded
  /\ UNCHANGED <<memory, threads, process, token, buffer_expected_to_read_next,
                 is_writer_detached, finished_reading_after_detach, tick,
                 control, peek, quota>>

IsWriterDetached == is_writer_detached \/ writer_detached

(* Mutant: nothing remembers that the detached block has been read.        *)
ReadDetachedBlockAgain ==
  /\ tick \in {"read", "detached"} /\ linear_reader = <<>>
  /\ IsWriterDetached
  /\ linear_reader' = CreateLinearReader(Block(buffer_expected_to_read_next))
  /\ finished_reading_after_detach' = TRUE
  /\ UNCHANGED <<memory, threads, process, token, buffer_expected_to_read_next,
                 is_writer_detached, tick, control, peek, quota, output>>

(* Read: after the block handed over, the block that would be next.        *)
ReadDetachedBlock ==
  /\ tick \in {"read", "detached"} /\ linear_reader = <<>>
  /\ IsWriterDetached /\ ~finished_reading_after_detach
  /\ linear_reader' = CreateLinearReader(Block(buffer_expected_to_read_next))
  /\ finished_reading_after_detach' = TRUE
  /\ UNCHANGED <<memory, threads, process, token, buffer_expected_to_read_next,
                 is_writer_detached, tick, control, peek, quota, output>>

ReadEnd ==
  /\ tick \in {"read", "detached"} /\ linear_reader = <<>>
  /\ IsWriterDetached => finished_reading_after_detach
  /\ tick' = IF tick = "read" THEN "command" ELSE "end"
  /\ UNCHANGED <<memory, threads, process, token, reader, control, peek,
                 quota, output>>

(* Mutant: the writer is detached but nothing more is read.                *)
ProcessDetachedLogsUnread ==
  /\ tick = "command" /\ command_detach_on_closed
  /\ detach_on_closed_processed' = TRUE
  /\ is_writer_detached' = TRUE
  /\ tick' = "end"
  /\ UNCHANGED <<memory, threads, process, token, linear_reader,
                 buffer_expected_to_read_next, finished_reading_after_detach,
                 finalized, command_detach_on_closed, peek, quota, output>>

(* ProcessDetachedLogs, if the peer has closed.                            *)
ProcessDetachedLogs ==
  /\ tick = "command" /\ command_detach_on_closed
  /\ detach_on_closed_processed' = TRUE
  /\ is_writer_detached' = TRUE
  /\ tick' = IF finished_reading_after_detach THEN "end" ELSE "detached"
  /\ UNCHANGED <<memory, threads, process, token, linear_reader,
                 buffer_expected_to_read_next, finished_reading_after_detach,
                 finalized, command_detach_on_closed, peek, quota, output>>

NotClosed ==
  /\ tick = "command" /\ ~command_detach_on_closed
  /\ tick' = "end"
  /\ UNCHANGED <<memory, threads, process, token, reader, control, peek,
                 quota, output>>

(* PeekNumberOfBytesAcquiredInBuffer, and the ticks without a record.      *)
WorthRequesting ==
  block_expected_to_be_next # NoBlock =>
    \/ buffer[Block(block_expected_to_be_next)] # <<>>
    \/ ticks_without_write > TicksWithoutAcquire

(* Mutant: acquire_requested stays set after an acquisition.               *)
RequestOrFinishKept ==
  \/ /\ finalized \/ exchange # "idle" \/ detach_on_closed_processed
     /\ UNCHANGED <<exchange, ticks_without_write>>
  \/ /\ ~finalized /\ exchange = "idle" /\ ~detach_on_closed_processed
     /\ exchange' = "request"
     /\ UNCHANGED ticks_without_write

(* The end of the tick: the acquisition is done, or the next request is    *)
(* sent (refused if the connection is gone), or it is put off; none is     *)
(* sent while output is off.                                               *)
RequestOrFinish ==
  \/ /\ finalized
     /\ exchange' = "idle" /\ ticks_without_write' = 0
  \/ /\ ~finalized /\ (exchange # "idle" \/ detach_on_closed_processed)
     /\ UNCHANGED <<exchange, ticks_without_write>>
  \/ /\ ~finalized /\ exchange = "idle" /\ ~detach_on_closed_processed
     /\ WorthRequesting
     /\ exchange' = "request" \/ (~connected /\ UNCHANGED exchange)
     /\ UNCHANGED ticks_without_write
  \/ /\ ~finalized /\ exchange = "idle" /\ ~detach_on_closed_processed
     /\ OutputMayBeOff
     /\ UNCHANGED <<exchange, ticks_without_write>>
  \/ /\ ~finalized /\ exchange = "idle" /\ ~detach_on_closed_processed
     /\ ~WorthRequesting
     /\ ticks_without_write' = ticks_without_write + 1
     /\ UNCHANGED exchange

(* CheckAndSetQuotaEnforcement: the rate depends on the clock.             *)
CheckAndSetQuotaEnforcement ==
  \/ UNCHANGED quota_overlimit_detected
  \/ QuotaEnforcement /\ quota_overlimit_detected' = TRUE

EndTick ==
  /\ tick = "end"
  /\ tick' = "idle"
  /\ finalized' = FALSE
  /\ RequestOrFinish
  /\ CheckAndSetQuotaEnforcement
  /\ quota_limit_exceeded' = FALSE
  /\ UNCHANGED <<memory, threads, process, acquired, reader,
                 command_detach_on_closed, detach_on_closed_processed,
                 block_expected_to_be_next, output>>

(* ShowStats, on the main thread.                                          *)
ShowStats ==
  /\ quota_overlimit_detected
  /\ quota_overlimit_detected' = FALSE
  /\ UNCHANGED <<memory, threads, process, token, reader, tick, control,
                 peek, quota_limit_exceeded, output>>

-----------------------------------------------------------------------------
ClientStep ==
  \/ \E w \in Writers : Choose(w) \/ Reserve(w) \/ Drop(w) \/ Commit(w)
  \/ Switch \/ SendResponse
  \/ Shutdown \/ DetachWriter \/ Crash

TickStep ==
  \/ StartTick \/ ReadRecord \/ ReadDetachedBlock \/ ReadEnd
  \/ ProcessDetachedLogs \/ NotClosed \/ EndTick

Next ==
  \/ ClientStep \/ TickStep
  \/ OnAcquireResponse \/ OnClosedByPeer \/ ShowStats

Spec == Init /\ [][Next]_vars

(* The threads of the client and the message passing make progress; the    *)
(* worker thread ticks every session again and again, and looks for closed *)
(* ones between two ticks.                                                 *)
Fairness ==
  /\ \A w \in Writers : WF_vars(Reserve(w) \/ Drop(w) \/ Commit(w))
  /\ WF_vars(Switch) /\ WF_vars(SendResponse) /\ WF_vars(OnAcquireResponse)
  /\ WF_vars(TickStep)
  /\ SF_vars(OnClosedByPeer)

FairSpec == Spec /\ Fairness

-----------------------------------------------------------------------------
(* Properties                                                              *)

Counts == 0 .. SwitchCountModulus - 1
Numbers == 1 .. MaxRecords
Records == {"record"} \X Writers \X Numbers
Remains == {"remains"} \X Writers \X Numbers
Entries == [writer : Writers, number : Numbers, committed : BOOLEAN,
            beneath : Remains \union {Garbage}]

\* The flags of the writer, of the session and of the Datarouter.
FlagTypes ==
  {writer_detached, alive, connected, quiet, settled, is_writer_detached,
   finished_reading_after_detach, finalized, command_detach_on_closed,
   detach_on_closed_processed, quota_overlimit_detected,
   quota_limit_exceeded} \subseteq BOOLEAN

(* The variables keep their types, a block never holds more than fits, and *)
(* ticks_without_write stays within one of its limit: the next tick sends  *)
(* the request.                                                            *)
TypeOK ==
  /\ switch_count \in Counts /\ acquired \in Counts
  /\ buffer \in [Blocks -> Seq(Entries)]
  /\ \A b \in Blocks : Len(buffer[b]) <= Capacity
  /\ remains \in [Blocks -> Seq(Remains)]
  /\ pc \in [Writers -> {"idle", "chosen", "reserved"}]
  /\ target \in [Writers -> Blocks] /\ number \in 0 .. MaxRecords
  /\ FlagTypes
  /\ exchange \in {"idle", "request", "switched", "response", "acquired",
                   "finalized"}
  /\ tick \in {"idle", "read", "command", "detached", "end"}
  /\ linear_reader \in Seq(Entries) /\ Len(linear_reader) <= Capacity
  /\ buffer_expected_to_read_next \in Counts
  /\ block_expected_to_be_next \in Counts \union {NoBlock}
  /\ ticks_without_write \in 0 .. TicksWithoutAcquire + 1
  /\ delivered \in Seq(Records \union Remains \union {Garbage})
  /\ discarded \subseteq Records

(* No record of a writer is delivered twice or before an earlier one of    *)
(* the same writer, not even when the detached read of the block expected  *)
(* next follows, in one tick or in a later one, the read of a block that   *)
(* was handed over (SharedMemoryReader::Read).  Only if the connection     *)
(* ended while a thread was writing, or one has written since, can the     *)
(* session be given what is no record or, once more, a record of an        *)
(* earlier round, because the detached read does not ask                   *)
(* IsBlockReleasedByWriters.                                               *)
DeliveredInOrder ==
  /\ \A i, j \in DOMAIN delivered :
       i < j /\ delivered[i][1] = "record" /\ delivered[j][1] = "record"
             /\ delivered[i][2] = delivered[j][2]
         => delivered[i][3] < delivered[j][3]
  /\ \A i \in DOMAIN delivered :
       delivered[i][1] # "record" => ~connected /\ ~quiet

(* While a block is being read its records are complete, unless the        *)
(* process died while writing: IsBlockReleasedByWriters is asked before    *)
(* every read of a client that is alive and connected.                     *)
ReadsCommitted ==
  tick = "read" /\ connected
    => \A i \in DOMAIN linear_reader : linear_reader[i].committed

(* The reader and the writer agree on the block that comes next: the one   *)
(* the reader expects (buffer_expected_to_read_next) is the active one, or *)
(* the one just switched as long as the session has not finalised it; the  *)
(* block the session peeks into is the active one before every request.    *)
BlocksAgree ==
  /\ switch_count = IF Unprocessed THEN NextCount(buffer_expected_to_read_next)
                    ELSE buffer_expected_to_read_next
  /\ exchange = "idle" /\ block_expected_to_be_next # NoBlock
       => block_expected_to_be_next = switch_count

Retrieved(e) ==
  Record(e) \in discarded \/ \E i \in DOMAIN delivered : delivered[i] = Record(e)

PostMortemDone == detach_on_closed_processed /\ tick = "idle"

AllRetrieved ==
  \A b \in Blocks : \A i \in DOMAIN buffer[b] :
    buffer[b][i].committed => Retrieved(buffer[b][i])

(* If the connection ends while no writer is writing, no switch is on its  *)
(* way to the session, and nothing is written afterwards, then the session *)
(* has retrieved every record of the shared memory when it is removed.     *)
SettledRetrieved == PostMortemDone /\ quiet /\ settled => AllRetrieved

(* What src/score/mw/log/design/backend/datarouter_backend/index.md:258    *)
(* says: "Datarouter should completely retrieve the all the logs of an     *)
(* application even after that app exited".  Here: the application shuts   *)
(* down cleanly and writes nothing after that.                             *)
ExitedRetrieved ==
  PostMortemDone /\ quiet /\ writer_detached => AllRetrieved

(* The records of the block that is filled, and those handed over but not  *)
(* delivered; the phase of the hand-over; what was delivered.              *)
AsRecords(batch) ==
  [i \in DOMAIN batch |-> Record(batch[i])]

OpenRecords == AsRecords(buffer[Block(switch_count)])

SealedRecords ==
  CASE Unprocessed -> AsRecords(buffer[Block(acquired)])
    [] exchange = "finalized" -> AsRecords(linear_reader)
    [] OTHER -> <<>>

TransportPhase ==
  CASE Unprocessed -> "draining"
    [] exchange = "finalized" -> "reading"
    [] OTHER -> "filling"

DeliveredRecords == {delivered[i] : i \in DOMAIN delivered}

Transport == INSTANCE LogTransport WITH
  Numbers <- Numbers,
  open <- OpenRecords,
  sealed <- SealedRecords,
  phase <- TransportPhase,
  delivered <- DeliveredRecords

(* The queue, the exchange and the reader together are a LogTransport: an  *)
(* accepted record is delivered exactly once, in the order of its writer,  *)
(* and a batch does not change while it is read.                           *)
ImplementsTransport == Transport!Spec

(* Every record that gets into a buffer is delivered, as long as the       *)
(* client stays: the session requests the next buffer again and again      *)
(* (peek, or too many ticks without a record), and the last record written *)
(* does not wait for another one.                                          *)
EventuallyDelivered ==
  \A k \in Numbers :
    (\E b \in Blocks : \E i \in DOMAIN buffer[b] : buffer[b][i].number = k)
      ~> (\E i \in DOMAIN delivered : delivered[i][3] = k)

(* After the connection is closed the session reads what is left and is    *)
(* done, whatever was in progress.                                         *)
EventuallyPostMortem == ~connected ~> PostMortemDone

=============================================================================
