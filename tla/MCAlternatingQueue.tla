------------------------- MODULE MCAlternatingQueue -------------------------
(* Model-checking instances of AlternatingQueue: the lengths of the        *)
(* records that are tried, and a start in the middle of a session.         *)
EXTENDS AlternatingQueue, TLC

OneLength    == <<1>>
ShortLengths == <<1, 1, 1>>
MixedLengths == <<1, 3>>

WriterSymmetry == Permutations(Writers)

(* After two switches, with nothing pending: the odd buffer is filled      *)
(* again and still has the bytes of two records read before (number 0).    *)
UsedBuffer(w) ==
  [a \in Addresses |-> IF a % (GetLengthOffsetBytes + 1) < GetLengthOffsetBytes
                       THEN LengthByte(1) ELSE Record(w, 0)]
ReuseInit ==
  /\ \E w \in Writers :
       data = [b \in Blocks |-> IF b = Odd THEN UsedBuffer(w)
                                ELSE [a \in Addresses |-> LengthByte(0)]]
  /\ switch_count = 3
  /\ acquired_index = [b \in Blocks |-> 0]
  /\ written_index = [b \in Blocks |-> 0]
  /\ number_of_writers = [b \in Blocks |-> 0]
  /\ pc = [w \in Writers |-> "Idle"]
  /\ loaded = [w \in Writers |-> 0]
  /\ block = [w \in Writers |-> Even]
  /\ offset = [w \in Writers |-> 0]
  /\ length = [w \in Writers |-> 0]
  /\ number = [w \in Writers |-> 0]
  /\ rpc = "Idle" /\ acquired_buffer = 0
  /\ seen_written = 0 /\ data_size = 0 /\ read_index = 0
  /\ attempts = 0 /\ accepted = [b \in Blocks |-> <<>>] /\ delivered = {}

ReuseSpec == ReuseInit /\ [][Next]_vars

=============================================================================
