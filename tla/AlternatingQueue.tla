-------------------------- MODULE AlternatingQueue --------------------------
(***************************************************************************)
(* The wait-free multiple-producer single-consumer queue of                *)
(* score/mw/log/detail/wait_free_producer_queue: two linear buffers in     *)
(* shared memory, a switch counter whose parity says which one is written, *)
(* the writers of the logging client (WaitFreeAlternatingWriter on top of  *)
(* WaitFreeLinearWriter), the switch that the client's message thread does *)
(* for the reader (AlternatingReaderProxy), and the reader of the          *)
(* Datarouter (AlternatingReadOnlyReader, LinearReader).                   *)
(*                                                                         *)
(* One action is one atomic access to shared memory.  A writer's pc names  *)
(* the access it performs next.  Atomic accesses are interleaved           *)
(* (sequential consistency); AlternatingQueueRelaxed has the weaker order  *)
(* that the memory_order_acquire of AcquireBlock allows.                   *)
(***************************************************************************)
EXTENDS Integers, Sequences, FiniteSets

CONSTANTS
  Writers,                   \* the user threads that write log records
  Size,                      \* bytes in each of the two linear buffers
  Lengths,                   \* payload length of the k-th record that is tried
  GetLengthOffsetBytes,      \* bytes of the length prefix of a record
  GetMaxAcquireLengthBytes,  \* longest payload that may be acquired
  GetMaxNumberOfConcurrentWriters,
  LengthMax,                 \* 2^64 - 1: the byte indices are uint64
  SwitchCountModulus,        \* 2^32: the switch counter is a uint32
  MaxRecords                 \* bound: records the writers try to write

ASSUME QueueAssumption ==
  /\ IsFiniteSet(Writers)
  /\ Size \in Nat
  /\ GetLengthOffsetBytes \in Nat \ {0}
  /\ GetMaxAcquireLengthBytes \in Nat
  /\ GetMaxNumberOfConcurrentWriters \in Nat
  /\ LengthMax \in Nat
  /\ SwitchCountModulus \in Nat \ {0} /\ SwitchCountModulus % 2 = 0
  /\ MaxRecords \in Nat
  /\ Lengths \in [1 .. MaxRecords -> Nat \ {0}]

VARIABLES
  \* AlternatingControlBlock and its two LinearControlBlocks
  switch_count, acquired_index, written_index, number_of_writers, data,
  \* one writer thread: next access and the locals of Acquire/Release
  pc, loaded, block, offset, length, number,
  \* the reader: next access, the acquired buffer, the LinearReader
  rpc, acquired_buffer, seen_written, data_size, read_index,
  \* history: records tried so far, records that got space in a buffer and
  \* are not read yet, in the order of their space, and records read
  attempts, accepted, delivered

control == <<switch_count, acquired_index, written_index, number_of_writers>>
writer  == <<pc, loaded, block, offset, length, number>>
reader  == <<rpc, acquired_buffer, seen_written, data_size, read_index>>
history == <<attempts, accepted, delivered>>
vars    == <<control, data, writer, reader, history>>

-----------------------------------------------------------------------------
(* The two control blocks.                                                 *)

Even == 0
Odd  == 1
Blocks == {Even, Odd}

SelectLinearControlBlockId(count) == IF count % 2 = 0 THEN Even ELSE Odd
GetOppositeLinearControlBlock(b)  == IF b = Even THEN Odd ELSE Even

GetMaxLinearBufferCapacityBytes ==
  LengthMax - GetMaxNumberOfConcurrentWriters
                * (GetMaxAcquireLengthBytes + GetLengthOffsetBytes)

NextCount(count) == (count + 1) % SwitchCountModulus
ActiveBlock == SelectLinearControlBlockId(switch_count)

(* Bytes.  A byte belongs to a length prefix or to the payload of the      *)
(* k-th record, by a writer; the file starts zeroed, which reads as length  *)
(* zero.                                                                   *)
LengthByte(n) == <<"length", n>>
Record(w, k)  == <<"record", w, k>>
Addresses     == 0 .. Size - 1

DoBytesFitInRemainingCapacity(size, off, n) == off <= size /\ n <= size - off

(* The bytes of a buffer after n bytes of value v were copied to off.      *)
Copy(bytes, off, n, v) ==
  [a \in Addresses |-> IF off <= a /\ a < off + n THEN v ELSE bytes[a]]

Total(w) == length[w] + GetLengthOffsetBytes

-----------------------------------------------------------------------------
Init ==
  /\ switch_count = 1
  /\ acquired_index = [b \in Blocks |-> 0]
  /\ written_index = [b \in Blocks |-> 0]
  /\ number_of_writers = [b \in Blocks |-> 0]
  /\ data = [b \in Blocks |-> [a \in Addresses |-> LengthByte(0)]]
  /\ pc = [w \in Writers |-> "Idle"]
  /\ loaded = [w \in Writers |-> 0]
  /\ block = [w \in Writers |-> Even]
  /\ offset = [w \in Writers |-> 0]
  /\ length = [w \in Writers |-> 0]
  /\ number = [w \in Writers |-> 0]
  /\ rpc = "Idle"
  /\ acquired_buffer = 0
  /\ seen_written = 0
  /\ data_size = 0
  /\ read_index = 0
  /\ attempts = 0
  /\ accepted = [b \in Blocks |-> <<>>]
  /\ delivered = {}

-----------------------------------------------------------------------------
(* Writers: WaitFreeAlternatingWriter::Acquire and AcquireBlock.           *)

Goto(w, next) == pc' = [pc EXCEPT ![w] = next]
AddWriters(b, n) ==
  number_of_writers' = [number_of_writers EXCEPT ![b] = @ + n]
Candidate(w) == SelectLinearControlBlockId(loaded[w])
Opposite(w)  == GetOppositeLinearControlBlock(Candidate(w))

(* The writer returns to its caller and forgets its locals.                *)
Return(w) ==
  /\ Goto(w, "Idle")
  /\ loaded' = [loaded EXCEPT ![w] = 0]
  /\ block' = [block EXCEPT ![w] = Even]
  /\ offset' = [offset EXCEPT ![w] = 0]
  /\ length' = [length EXCEPT ![w] = 0]
  /\ number' = [number EXCEPT ![w] = 0]

StartAcquire(w) ==
  /\ pc[w] = "Idle"
  /\ attempts < MaxRecords
  /\ attempts' = attempts + 1
  /\ length' = [length EXCEPT ![w] = Lengths[attempts']]
  /\ number' = [number EXCEPT ![w] = attempts']
  /\ loaded' = [loaded EXCEPT ![w] = switch_count]
  /\ Goto(w, "MarkCandidate")
  /\ UNCHANGED <<control, data, block, offset, reader, accepted, delivered>>

MarkCandidate(w) ==
  /\ pc[w] = "MarkCandidate"
  /\ AddWriters(Candidate(w), 1)
  /\ Goto(w, "CheckSwitch")
  /\ UNCHANGED <<switch_count, acquired_index, written_index, data, loaded,
                 block, offset, length, number, reader, history>>

(* The three outcomes of comparing the counter with the loaded value.      *)
CheckSwitch(w) ==
  /\ pc[w] = "CheckSwitch"
  /\ \/ /\ switch_count = loaded[w]
        /\ block' = [block EXCEPT ![w] = Candidate(w)]
        /\ Goto(w, "EnterLinear")
     \/ /\ switch_count # loaded[w]
        /\ switch_count = NextCount(loaded[w])
        /\ Goto(w, "MarkOpposite")
        /\ UNCHANGED block
     \/ /\ switch_count \notin {loaded[w], NextCount(loaded[w])}
        /\ Goto(w, "UnmarkLost")
        /\ UNCHANGED block
  /\ UNCHANGED <<control, data, loaded, offset, length, number, reader,
                 history>>

UnmarkLost(w) ==
  /\ pc[w] = "UnmarkLost"
  /\ AddWriters(Candidate(w), -1)
  /\ Return(w)
  /\ UNCHANGED <<switch_count, acquired_index, written_index, data, reader,
                 history>>

MarkOpposite(w) ==
  /\ pc[w] = "MarkOpposite"
  /\ AddWriters(Opposite(w), 1)
  /\ Goto(w, "RecheckSwitch")
  /\ UNCHANGED <<switch_count, acquired_index, written_index, data, loaded,
                 block, offset, length, number, reader, history>>

\* Mutant: the opposite block is taken without a second look at the counter.
RecheckSwitchSkipped(w) ==
  /\ pc[w] = "RecheckSwitch"
  /\ Goto(w, "UnmarkCandidate")
  /\ UNCHANGED <<control, data, loaded, block, offset, length, number, reader,
                 history>>

RecheckSwitch(w) ==
  /\ pc[w] = "RecheckSwitch"
  /\ Goto(w, IF switch_count = NextCount(loaded[w])
             THEN "UnmarkCandidate" ELSE "UnmarkBoth")
  /\ UNCHANGED <<control, data, loaded, block, offset, length, number, reader,
                 history>>

UnmarkCandidate(w) ==
  /\ pc[w] = "UnmarkCandidate"
  /\ AddWriters(Candidate(w), -1)
  /\ block' = [block EXCEPT ![w] = Opposite(w)]
  /\ Goto(w, "EnterLinear")
  /\ UNCHANGED <<switch_count, acquired_index, written_index, data, loaded,
                 offset, length, number, reader, history>>

UnmarkBoth(w) ==
  /\ pc[w] = "UnmarkBoth"
  /\ AddWriters(Candidate(w), -1)
  /\ Goto(w, "UnmarkOpposite")
  /\ UNCHANGED <<switch_count, acquired_index, written_index, data, loaded,
                 block, offset, length, number, reader, history>>

UnmarkOpposite(w) ==
  /\ pc[w] = "UnmarkOpposite"
  /\ AddWriters(Opposite(w), -1)
  /\ Return(w)
  /\ UNCHANGED <<switch_count, acquired_index, written_index, data, reader,
                 history>>

-----------------------------------------------------------------------------
(* Writers: WaitFreeLinearWriter::Acquire, CheckAndGetAcquireOffset and    *)
(* TerminateBuffer on the block won above.                                 *)

EnterLinear(w) ==
  /\ pc[w] = "EnterLinear"
  /\ AddWriters(block[w], 1)
  /\ Goto(w, "LoadConcurrency")
  /\ UNCHANGED <<switch_count, acquired_index, written_index, data, loaded,
                 block, offset, length, number, reader, history>>

LoadConcurrency(w) ==
  /\ pc[w] = "LoadConcurrency"
  /\ Goto(w, IF \/ number_of_writers[block[w]] > GetMaxNumberOfConcurrentWriters
                \/ length[w] > GetMaxAcquireLengthBytes
             THEN "LeaveFailed" ELSE "LoadAcquired")
  /\ UNCHANGED <<control, data, loaded, block, offset, length, number, reader,
                 history>>

LoadAcquired(w) ==
  LET old_offset == acquired_index[block[w]] IN
  /\ pc[w] = "LoadAcquired"
  /\ Goto(w, IF \/ old_offset >= GetMaxLinearBufferCapacityBytes
                \/ ~DoBytesFitInRemainingCapacity(Size, old_offset, Total(w))
             THEN "LeaveFailed" ELSE "FetchAdd")
  /\ UNCHANGED <<control, data, loaded, block, offset, length, number, reader,
                 history>>

AddIndex(index, b, n) ==
  [index EXCEPT ![b] = (@ + n) % (LengthMax + 1)]

FetchAdd(w) ==
  LET b == block[w]
      off == acquired_index[b]
      fits == DoBytesFitInRemainingCapacity(Size, off, Total(w))
  IN
  /\ pc[w] = "FetchAdd"
  /\ acquired_index' = AddIndex(acquired_index, b, Total(w))
  /\ offset' = [offset EXCEPT ![w] = off]
  /\ accepted' = IF fits
                 THEN [accepted EXCEPT ![b] = Append(@, Record(w, number[w]))]
                 ELSE accepted
  /\ Goto(w, IF fits THEN "WriteLength" ELSE "TerminateLength")
  /\ UNCHANGED <<switch_count, written_index, number_of_writers, data, loaded,
                 block, length, number, reader, attempts, delivered>>

\* Mutant: a failed acquisition leaves no length behind.
TerminateLengthSkipped(w) ==
  /\ pc[w] = "TerminateLength"
  /\ Goto(w, "TerminateWritten")
  /\ UNCHANGED <<control, data, loaded, block, offset, length, number, reader,
                 history>>

(* "Someone was faster": leave the length for the reader if it still fits, *)
(* and account for the bytes so that written_index catches up.             *)
TerminateLength(w) ==
  /\ pc[w] = "TerminateLength"
  /\ data' = IF DoBytesFitInRemainingCapacity(Size, offset[w], GetLengthOffsetBytes)
             THEN [data EXCEPT ![block[w]] =
                     Copy(@, offset[w], GetLengthOffsetBytes, LengthByte(length[w]))]
             ELSE data
  /\ Goto(w, "TerminateWritten")
  /\ UNCHANGED <<control, loaded, block, offset, length, number, reader,
                 history>>

\* Mutant: a failed acquisition is not counted as written.
TerminateWrittenSkipped(w) ==
  /\ pc[w] = "TerminateWritten"
  /\ Goto(w, "LeaveFailed")
  /\ UNCHANGED <<control, data, loaded, block, offset, length, number, reader,
                 history>>

TerminateWritten(w) ==
  /\ pc[w] = "TerminateWritten"
  /\ written_index' = AddIndex(written_index, block[w], Total(w))
  /\ Goto(w, "LeaveFailed")
  /\ UNCHANGED <<switch_count, acquired_index, number_of_writers, data, loaded,
                 block, offset, length, number, reader, history>>

LeaveFailed(w) ==
  /\ pc[w] = "LeaveFailed"
  /\ AddWriters(block[w], -1)
  /\ Goto(w, "ReleaseFailed")
  /\ UNCHANGED <<switch_count, acquired_index, written_index, data, loaded,
                 block, offset, length, number, reader, history>>

ReleaseFailed(w) ==
  /\ pc[w] = "ReleaseFailed"
  /\ AddWriters(block[w], -1)
  /\ Return(w)
  /\ UNCHANGED <<switch_count, acquired_index, written_index, data, reader,
                 history>>

WriteLength(w) ==
  /\ pc[w] = "WriteLength"
  /\ data' = [data EXCEPT ![block[w]] =
                Copy(@, offset[w], GetLengthOffsetBytes, LengthByte(length[w]))]
  /\ Goto(w, "ReleaseBlock")
  /\ UNCHANGED <<control, loaded, block, offset, length, number, reader,
                 history>>

(* WaitFreeAlternatingWriter::Acquire releases its own mark; the mark of   *)
(* the linear writer stays until Release.                                  *)
ReleaseBlock(w) ==
  /\ pc[w] = "ReleaseBlock"
  /\ AddWriters(block[w], -1)
  /\ Goto(w, "WritePayload")
  /\ UNCHANGED <<switch_count, acquired_index, written_index, data, loaded,
                 block, offset, length, number, reader, history>>

\* Mutant: the payload span starts at the length prefix.
WritePayloadAtOffset(w) ==
  /\ pc[w] = "WritePayload"
  /\ data' = [data EXCEPT ![block[w]] =
                Copy(@, offset[w], length[w], Record(w, number[w]))]
  /\ Goto(w, "AddWritten")
  /\ UNCHANGED <<control, loaded, block, offset, length, number, reader,
                 history>>

(* The caller of Acquire serializes its record into the acquired span.     *)
WritePayload(w) ==
  /\ pc[w] = "WritePayload"
  /\ data' = [data EXCEPT ![block[w]] =
                Copy(@, offset[w] + GetLengthOffsetBytes, length[w],
                     Record(w, number[w]))]
  /\ Goto(w, "AddWritten")
  /\ UNCHANGED <<control, loaded, block, offset, length, number, reader,
                 history>>

(* WaitFreeLinearWriter::Release.                                          *)
AddWritten(w) ==
  /\ pc[w] = "AddWritten"
  /\ written_index' = AddIndex(written_index, block[w], Total(w))
  /\ Goto(w, "LeaveLinear")
  /\ UNCHANGED <<switch_count, acquired_index, number_of_writers, data, loaded,
                 block, offset, length, number, reader, history>>

LeaveLinear(w) ==
  /\ pc[w] = "LeaveLinear"
  /\ AddWriters(block[w], -1)
  /\ Return(w)
  /\ UNCHANGED <<switch_count, acquired_index, written_index, data, reader,
                 history>>

WriterStep(w) ==
  \/ StartAcquire(w)    \/ MarkCandidate(w)    \/ CheckSwitch(w)
  \/ UnmarkLost(w)      \/ MarkOpposite(w)     \/ RecheckSwitch(w)
  \/ UnmarkCandidate(w) \/ UnmarkBoth(w)       \/ UnmarkOpposite(w)
  \/ EnterLinear(w)     \/ LoadConcurrency(w)  \/ LoadAcquired(w)
  \/ FetchAdd(w)        \/ TerminateLength(w)  \/ TerminateWritten(w)
  \/ LeaveFailed(w)     \/ ReleaseFailed(w)    \/ WriteLength(w)
  \/ ReleaseBlock(w)    \/ WritePayload(w)     \/ AddWritten(w)
  \/ LeaveLinear(w)

-----------------------------------------------------------------------------
(* The switch: AlternatingReaderProxy::Switch, run by the message thread   *)
(* of the client when the Datarouter asks for a buffer.  The Datarouter    *)
(* asks again only after it has read the buffer it got before.             *)

\* Mutant: the index of the block that stays active is reset.
SwitchResetAcquiredActive ==
  /\ rpc = "Idle"
  /\ acquired_index' = [acquired_index EXCEPT ![ActiveBlock] = 0]
  /\ rpc' = "SwitchResetWritten"
  /\ UNCHANGED <<switch_count, written_index, number_of_writers, data, writer,
                 acquired_buffer, seen_written, data_size, read_index,
                 history>>

SwitchResetAcquired ==
  /\ rpc = "Idle"
  /\ acquired_index' =
       [acquired_index EXCEPT ![GetOppositeLinearControlBlock(ActiveBlock)] = 0]
  /\ rpc' = "SwitchResetWritten"
  /\ UNCHANGED <<switch_count, written_index, number_of_writers, data, writer,
                 acquired_buffer, seen_written, data_size, read_index,
                 history>>

SwitchResetWritten ==
  /\ rpc = "SwitchResetWritten"
  /\ written_index' =
       [written_index EXCEPT ![GetOppositeLinearControlBlock(ActiveBlock)] = 0]
  /\ rpc' = "SwitchIncrement"
  /\ UNCHANGED <<switch_count, acquired_index, number_of_writers, data, writer,
                 acquired_buffer, seen_written, data_size, read_index,
                 history>>

SwitchIncrement ==
  /\ rpc = "SwitchIncrement"
  /\ acquired_buffer' = switch_count
  /\ switch_count' = NextCount(switch_count)
  /\ rpc' = "LoadWriters"
  /\ UNCHANGED <<acquired_index, written_index, number_of_writers, data, writer,
                 seen_written, data_size, read_index, history>>

-----------------------------------------------------------------------------
(* The reader: IsBlockReleasedByWriters makes three loads; a load that     *)
(* fails the test leaves the block for the next tick.                      *)

ReadBlock == SelectLinearControlBlockId(acquired_buffer)

LoadWriters ==
  /\ rpc = "LoadWriters"
  /\ number_of_writers[ReadBlock] = 0
  /\ rpc' = "LoadWritten"
  /\ UNCHANGED <<control, data, writer, acquired_buffer, seen_written,
                 data_size, read_index, history>>

LoadWritten ==
  /\ rpc = "LoadWritten"
  /\ seen_written' = written_index[ReadBlock]
  /\ rpc' = "CompareAcquired"
  /\ UNCHANGED <<control, data, writer, acquired_buffer, data_size, read_index,
                 history>>

CompareAcquired ==
  /\ rpc = "CompareAcquired"
  /\ rpc' = IF seen_written = acquired_index[ReadBlock]
            THEN "CreateLinearReader" ELSE "LoadWriters"
  /\ UNCHANGED <<control, data, writer, acquired_buffer, seen_written,
                 data_size, read_index, history>>

(* CreateLinearReader loads written_index again and crops the buffer.      *)
CreateLinearReader ==
  /\ rpc = "CreateLinearReader"
  /\ data_size' = IF written_index[ReadBlock] < Size
                  THEN written_index[ReadBlock] ELSE Size
  /\ read_index' = 0
  /\ seen_written' = 0
  /\ rpc' = "Read"
  /\ UNCHANGED <<control, data, writer, acquired_buffer, history>>

(* The lengths that the bytes at off may be read as: bytes that are not    *)
(* one intact prefix are read as an arbitrary number.                      *)
LengthsAt(bytes, off) ==
  LET prefix == {bytes[a] : a \in off .. off + GetLengthOffsetBytes - 1}
      intact == {n \in 0 .. GetMaxAcquireLengthBytes + 1 : prefix = {LengthByte(n)}}
  IN IF intact = {} THEN 0 .. GetMaxAcquireLengthBytes + 1 ELSE intact

(* What a payload is decoded as: the record whose bytes it has.            *)
Torn == <<"torn">>
Decode(bytes, off, n) ==
  IF \A a \in off .. off + n - 1 : bytes[a] = bytes[off]
  THEN bytes[off] ELSE Torn

FinishReading ==
  /\ rpc' = "Idle"
  /\ acquired_buffer' = 0
  /\ data_size' = 0
  /\ read_index' = 0
  /\ UNCHANGED <<control, data, writer, seen_written, history>>

(* LinearReader::Read and one turn of the loop in ReadLinearBuffer.        *)
ReadRecord(n) ==
  LET payload_offset == read_index + GetLengthOffsetBytes IN
  /\ rpc = "Read"
  /\ n <= GetMaxAcquireLengthBytes
  /\ DoBytesFitInRemainingCapacity(data_size, read_index, GetLengthOffsetBytes + n)
  /\ read_index' = payload_offset + n
  /\ IF n = 0
     THEN UNCHANGED <<accepted, delivered>>
     ELSE /\ delivered' = delivered \union {Decode(data[ReadBlock], payload_offset, n)}
          /\ accepted' = [accepted EXCEPT ![ReadBlock] = SubSeq(@, 2, Len(@))]
  /\ UNCHANGED <<control, data, writer, rpc, acquired_buffer, seen_written,
                 data_size, attempts>>

ReadFailedAcquisition(n) ==
  /\ rpc = "Read"
  /\ \/ n > GetMaxAcquireLengthBytes
     \/ ~DoBytesFitInRemainingCapacity(data_size, read_index,
                                       GetLengthOffsetBytes + n)
  /\ FinishReading

ReadEnd ==
  /\ rpc = "Read"
  /\ ~DoBytesFitInRemainingCapacity(data_size, read_index, GetLengthOffsetBytes)
  /\ FinishReading

Read ==
  \/ ReadEnd
  \/ /\ rpc = "Read"
     /\ DoBytesFitInRemainingCapacity(data_size, read_index, GetLengthOffsetBytes)
     /\ \E n \in LengthsAt(data[ReadBlock], read_index) :
          ReadRecord(n) \/ ReadFailedAcquisition(n)

ReaderStep ==
  \/ SwitchResetAcquired \/ SwitchResetWritten \/ SwitchIncrement
  \/ LoadWriters \/ LoadWritten \/ CompareAcquired \/ CreateLinearReader \/ Read

Next == ReaderStep \/ \E w \in Writers : WriterStep(w)

Spec == Init /\ [][Next]_vars

-----------------------------------------------------------------------------
(* Properties.                                                             *)

WriterPcs ==
  {"Idle", "MarkCandidate", "CheckSwitch", "UnmarkLost", "MarkOpposite",
   "RecheckSwitch", "UnmarkCandidate", "UnmarkBoth", "UnmarkOpposite",
   "EnterLinear", "LoadConcurrency", "LoadAcquired", "FetchAdd",
   "TerminateLength", "TerminateWritten", "LeaveFailed", "ReleaseFailed",
   "WriteLength", "ReleaseBlock", "WritePayload", "AddWritten", "LeaveLinear"}
ReaderPcs ==
  {"Idle", "SwitchResetWritten", "SwitchIncrement", "LoadWriters",
   "LoadWritten", "CompareAcquired", "CreateLinearReader", "Read"}

(* The type invariant of the control blocks and of the locals of the       *)
(* writers and of the reader.                                              *)
TypeOK ==
  /\ switch_count \in 0 .. SwitchCountModulus - 1
  /\ acquired_index \in [Blocks -> 0 .. LengthMax]
  /\ written_index \in [Blocks -> 0 .. LengthMax]
  /\ number_of_writers \in [Blocks -> Nat]
  /\ pc \in [Writers -> WriterPcs]
  /\ loaded \in [Writers -> 0 .. SwitchCountModulus - 1]
  /\ block \in [Writers -> Blocks]
  /\ offset \in [Writers -> 0 .. LengthMax]
  /\ length \in [Writers -> Nat]
  /\ rpc \in ReaderPcs
  /\ acquired_buffer \in 0 .. SwitchCountModulus - 1
  /\ attempts \in 0 .. MaxRecords

(* Writer w has won the arbitration for block[w] and may still touch it.   *)
HoldsBlock(w) ==
  pc[w] \in {"EnterLinear", "LoadConcurrency", "LoadAcquired", "FetchAdd",
            "TerminateLength", "TerminateWritten", "LeaveFailed",
            "ReleaseFailed", "WriteLength", "ReleaseBlock", "WritePayload",
            "AddWritten", "LeaveLinear"}

(* The reader has seen number_of_writers = 0 and not finished with it.     *)
ReaderOwnsBlock ==
  rpc \in {"LoadWritten", "CompareAcquired", "CreateLinearReader", "Read"}

(* "No overwriting": once IsBlockReleasedByWriters has seen no writer on   *)
(* the acquired buffer, no writer holds that buffer or wins it until it    *)
(* has been read, however late the writer's arbitration in AcquireBlock is *)
(* resolved.                                                               *)
ReaderExclusive ==
  ReaderOwnsBlock => \A w \in Writers : HoldsBlock(w) => block[w] # ReadBlock

(* Writer w owns the bytes offset[w] .. offset[w] + Total(w) - 1.          *)
OwnsRange(w) ==
  pc[w] \in {"TerminateLength", "TerminateWritten", "WriteLength",
            "ReleaseBlock", "WritePayload", "AddWritten"}

(* The ranges that fetch_add on acquired_index hands out in                *)
(* CheckAndGetAcquireOffset are disjoint: no two writers ever write the    *)
(* same byte of a buffer, not even after a reset of the indices.           *)
RangesDisjoint ==
  \A v, w \in Writers :
    v # w /\ OwnsRange(v) /\ OwnsRange(w) /\ block[v] = block[w] =>
      \/ offset[v] + Total(v) <= offset[w]
      \/ offset[w] + Total(w) <= offset[v]

(* Once no writer holds the block that is handed over, all bytes acquired  *)
(* on it count as written, failed acquisitions included (the comment in    *)
(* TerminateBuffer): the second half of IsBlockReleasedByWriters never     *)
(* keeps the reader waiting for good.                                      *)
WrittenCatchesUp ==
  rpc \in {"LoadWriters", "LoadWritten", "CompareAcquired",
          "CreateLinearReader", "Read"} =>
    \/ \E w \in Writers : HoldsBlock(w) /\ block[w] = ReadBlock
    \/ written_index[ReadBlock] = acquired_index[ReadBlock]

(* The running byte indices never wrap around: they only go back to zero,  *)
(* and only in Switch (GetMaxLinearBufferCapacityBytes and the limit on    *)
(* concurrent writers are there to "avoid that the acquired_index could    *)
(* overflow").                                                             *)
IndicesNeverWrap ==
  [][/\ \A b \in Blocks : \/ acquired_index'[b] >= acquired_index[b]
                          \/ rpc = "Idle" /\ acquired_index'[b] = 0
     /\ \A b \in Blocks : \/ written_index'[b] >= written_index[b]
                          \/ rpc = "SwitchResetWritten" /\ written_index'[b] = 0
    ]_vars

(* The queue implements LogTransport: what ReadLinearBuffer finds in the   *)
(* bytes of a buffer is exactly the sequence of the records accepted for   *)
(* that buffer since its last switch, each one intact and none from an     *)
(* earlier round.                                                          *)
OpenRecords == accepted[ActiveBlock]
SealedRecords == accepted[GetOppositeLinearControlBlock(ActiveBlock)]
TransportPhase ==
  CASE rpc \in {"Idle", "SwitchResetWritten", "SwitchIncrement"} -> "filling"
    [] rpc = "Read" -> "reading"
    [] OTHER -> "draining"
Transport == INSTANCE LogTransport WITH
  Numbers <- 1 .. MaxRecords,
  open <- OpenRecords,
  sealed <- SealedRecords,
  phase <- TransportPhase

ImplementsTransport == Transport!Spec

=============================================================================
