----------------------- MODULE AlternatingQueueProofs -----------------------
(***************************************************************************)
(* Proofs about AlternatingQueue for any finite set of writers, any buffer *)
(* size, any record lengths and any limits. First the arbitration between  *)
(* the writers and the reader: the inductive invariant says what           *)
(* number_of_writers counts (the marks that writers have left on a block)  *)
(* and which block a writer that won the arbitration can be on. On top of  *)
(* it the byte indices: they never wrap around, the ranges they hand out   *)
(* are disjoint, and acquired_index - written_index is the number of bytes *)
(* that writers still own, so that written_index catches up when they are  *)
(* gone.                                                                   *)
(***************************************************************************)
EXTENDS AlternatingQueue, FiniteSetTheorems, TLAPS

-----------------------------------------------------------------------------
(* Arithmetic of the counter.                                              *)

(* The two blocks alternate: the next counter value selects the other one, *)
(* also where the 32-bit counter wraps around (2^32 is even).              *)
LEMMA NextCountAlternates ==
  ASSUME NEW c \in 0 .. SwitchCountModulus - 1
  PROVE  /\ NextCount(c) \in 0 .. SwitchCountModulus - 1
         /\ SelectLinearControlBlockId(NextCount(c))
              = GetOppositeLinearControlBlock(SelectLinearControlBlockId(c))
         /\ SelectLinearControlBlockId(c) \in Blocks
<1> DEFINE m == SwitchCountModulus
<1>1. m \in Nat /\ m > 0 /\ m % 2 = 0
  BY QueueAssumption
<1>2. CASE c + 1 < m
  <2>1. (c + 1) % m = c + 1
    BY <1>1, <1>2
  <2>2. (c % 2 = 0 /\ (c + 1) % 2 = 1) \/ (c % 2 = 1 /\ (c + 1) % 2 = 0)
    OBVIOUS
  <2> QED
    BY <1>1, <1>2, <2>1, <2>2
    DEF NextCount, SelectLinearControlBlockId, GetOppositeLinearControlBlock,
        Even, Odd, Blocks
<1>3. CASE c + 1 = m
  <2>1. (c + 1) % m = 0
    BY <1>1, <1>3
  <2>2. c % 2 = 1
    BY <1>1, <1>3
  <2> QED
    BY <1>1, <2>1, <2>2
    DEF NextCount, SelectLinearControlBlockId, GetOppositeLinearControlBlock,
        Even, Odd, Blocks
<1> QED
  BY <1>1, <1>2, <1>3

-----------------------------------------------------------------------------
(* The inductive invariant.                                                *)

(* The marks of writer w on block b: the one AcquireBlock puts on the      *)
(* candidate, the one it puts on the opposite block (whichever of the two  *)
(* it keeps lasts until ReleaseBlock), and the one of the linear writer.   *)
BlockMarked(w) ==
  pc[w] \in {"EnterLinear", "LoadConcurrency", "LoadAcquired", "FetchAdd",
            "TerminateLength", "TerminateWritten", "LeaveFailed",
            "ReleaseFailed", "WriteLength", "ReleaseBlock"}
FirstMarks(b) ==
  {w \in Writers :
     \/ /\ pc[w] \in {"CheckSwitch", "UnmarkLost", "MarkOpposite",
                      "RecheckSwitch", "UnmarkCandidate", "UnmarkBoth"}
        /\ Candidate(w) = b
     \/ BlockMarked(w) /\ block[w] = b /\ Candidate(w) = b}
SecondMarks(b) ==
  {w \in Writers :
     \/ /\ pc[w] \in {"RecheckSwitch", "UnmarkCandidate", "UnmarkBoth",
                      "UnmarkOpposite"}
        /\ Opposite(w) = b
     \/ BlockMarked(w) /\ block[w] = b /\ Opposite(w) = b}
LinearMarks(b) ==
  {w \in Writers :
     /\ pc[w] \in {"LoadConcurrency", "LoadAcquired", "FetchAdd",
                   "TerminateLength", "TerminateWritten", "LeaveFailed",
                   "WriteLength", "ReleaseBlock", "WritePayload",
                   "AddWritten", "LeaveLinear"}
     /\ block[w] = b}

(* number_of_writers counts exactly the marks.                             *)
MarksCounted ==
  \A b \in Blocks :
    number_of_writers[b] = Cardinality(FirstMarks(b))
                             + Cardinality(SecondMarks(b))
                             + Cardinality(LinearMarks(b))

(* Writer w has won the arbitration for b.                                 *)
Claims(w, b) ==
  \/ HoldsBlock(w) /\ block[w] = b
  \/ pc[w] = "UnmarkCandidate" /\ Opposite(w) = b

(* A block that a writer has won is the active one, or the one just handed *)
(* over whose writers the reader has not looked at yet.                    *)
WinnersActive ==
  \A w \in Writers, b \in Blocks :
    Claims(w, b) => b = ActiveBlock \/ rpc = "LoadWriters"

(* The reader has the block that is not active.                            *)
ReaderBehind ==
  rpc \notin {"Idle", "SwitchResetWritten", "SwitchIncrement"} =>
    ReadBlock = GetOppositeLinearControlBlock(ActiveBlock)

Arbitration == TypeOK /\ MarksCounted /\ WinnersActive /\ ReaderBehind

-----------------------------------------------------------------------------
(* number_of_writers counts the marks.                                     *)

(* The writers that have marked a block can be counted.                    *)
LEMMA MarksFinite ==
  ASSUME NEW b
  PROVE  /\ IsFiniteSet(FirstMarks(b)) /\ Cardinality(FirstMarks(b)) \in Nat
         /\ IsFiniteSet(SecondMarks(b)) /\ Cardinality(SecondMarks(b)) \in Nat
         /\ IsFiniteSet(LinearMarks(b)) /\ Cardinality(LinearMarks(b)) \in Nat
         /\ Cardinality(FirstMarks(b)') \in Nat
         /\ Cardinality(SecondMarks(b)') \in Nat
         /\ Cardinality(LinearMarks(b)') \in Nat
<1>1. /\ FirstMarks(b) \subseteq Writers /\ SecondMarks(b) \subseteq Writers
      /\ LinearMarks(b) \subseteq Writers
      /\ FirstMarks(b)' \subseteq Writers /\ SecondMarks(b)' \subseteq Writers
      /\ LinearMarks(b)' \subseteq Writers
  BY ZenonT(30) DEF FirstMarks, SecondMarks, LinearMarks
<1> QED
  BY <1>1, QueueAssumption, FS_Subset, FS_CardinalityType, ZenonT(30)

(* A writer marks one of two different blocks, or both in turn.            *)
LEMMA BlocksOfWriter ==
  ASSUME TypeOK, NEW w \in Writers
  PROVE  /\ Candidate(w) \in Blocks /\ Opposite(w) \in Blocks
         /\ Candidate(w) # Opposite(w)
         /\ block[w] \in Blocks
         /\ block[w] # Candidate(w) => block[w] = Opposite(w)
BY DEF TypeOK, Candidate, Opposite, SelectLinearControlBlockId,
       GetOppositeLinearControlBlock, Blocks, Even, Odd

(* T is S with one mark of writer w more (n = 1) or less (n = -1).         *)
Moved(S, T, w, n) ==
  \/ n = 1 /\ w \notin S /\ T = S \union {w}
  \/ n = -1 /\ w \in S /\ T = S \ {w}

(* One mark more or less changes the count by one.                         *)
LEMMA MovedCardinality ==
  ASSUME NEW S, NEW T, NEW w, NEW n, IsFiniteSet(S), Moved(S, T, w, n)
  PROVE  n \in {-1, 1} /\ Cardinality(T) = Cardinality(S) + n
<1>1. Cardinality(S) \in Nat
  BY FS_CardinalityType, ZenonT(30)
<1>2. CASE n = 1
  BY <1>1, <1>2, FS_AddElement DEF Moved
<1>3. CASE n = -1
  BY <1>1, <1>3, FS_RemoveElement DEF Moved
<1> QED
  BY <1>2, <1>3, ZenonT(30) DEF Moved

(* A step of writer w that changes number_of_writers[c] by n and one kind  *)
(* of its marks on c accordingly keeps the count.                          *)
LEMMA MarkMovedCounted ==
  ASSUME TypeOK, MarksCounted, NEW w \in Writers, NEW c \in Blocks, NEW n,
         AddWriters(c, n),
         \A b \in Blocks \ {c} : /\ FirstMarks(b)' = FirstMarks(b)
                                 /\ SecondMarks(b)' = SecondMarks(b)
                                 /\ LinearMarks(b)' = LinearMarks(b),
         \/ /\ Moved(FirstMarks(c), FirstMarks(c)', w, n)
            /\ SecondMarks(c)' = SecondMarks(c)
            /\ LinearMarks(c)' = LinearMarks(c)
         \/ /\ Moved(SecondMarks(c), SecondMarks(c)', w, n)
            /\ FirstMarks(c)' = FirstMarks(c)
            /\ LinearMarks(c)' = LinearMarks(c)
         \/ /\ Moved(LinearMarks(c), LinearMarks(c)', w, n)
            /\ FirstMarks(c)' = FirstMarks(c)
            /\ SecondMarks(c)' = SecondMarks(c)
  PROVE  MarksCounted'
<1>1. \A b \in Blocks : number_of_writers'[b] =
        IF b = c THEN number_of_writers[b] + n ELSE number_of_writers[b]
  BY ZenonT(30) DEF TypeOK, AddWriters
<1>2. /\ n \in Int
      /\ Cardinality(FirstMarks(c)') + Cardinality(SecondMarks(c)')
           + Cardinality(LinearMarks(c)')
         = Cardinality(FirstMarks(c)) + Cardinality(SecondMarks(c))
             + Cardinality(LinearMarks(c)) + n
  BY MovedCardinality, MarksFinite
<1> QED
  BY <1>1, <1>2, MarksFinite, ZenonT(30) DEF MarksCounted

(* A step that changes neither the marks nor number_of_writers.            *)
LEMMA MarksUntouched ==
  ASSUME MarksCounted, UNCHANGED number_of_writers,
         \A b \in Blocks : /\ FirstMarks(b)' = FirstMarks(b)
                           /\ SecondMarks(b)' = SecondMarks(b)
                           /\ LinearMarks(b)' = LinearMarks(b)
  PROVE  MarksCounted'
BY ZenonT(30) DEF MarksCounted

(* A step of a writer changes number_of_writers and its marks together.    *)
LEMMA WriterMarks ==
  ASSUME TypeOK, MarksCounted, NEW w \in Writers, WriterStep(w)
  PROVE  MarksCounted'
<1> DEFINE Same(b) == /\ FirstMarks(b)' = FirstMarks(b)
                      /\ SecondMarks(b)' = SecondMarks(b)
                      /\ LinearMarks(b)' = LinearMarks(b)
<1>0. /\ Candidate(w) \in Blocks /\ Opposite(w) \in Blocks
      /\ Candidate(w) # Opposite(w) /\ block[w] \in Blocks
      /\ block[w] = Candidate(w) \/ block[w] = Opposite(w)
  BY BlocksOfWriter, ZenonT(30)
<1>c. PICK c \in Blocks : c = Candidate(w)
  BY <1>0, ZenonT(30)
<1>d. PICK d \in Blocks : d = Opposite(w)
  BY <1>0, ZenonT(30)
<1>e. PICK e \in Blocks : e = block[w]
  BY <1>0, ZenonT(30)
<1>1. CASE MarkCandidate(w)
  <2>1. /\ Moved(FirstMarks(c), FirstMarks(c)', w, 1)
        /\ SecondMarks(c)' = SecondMarks(c) /\ LinearMarks(c)' = LinearMarks(c)
        /\ \A b \in Blocks \ {c} : Same(b)
    BY <1>0, <1>c, <1>d, <1>e, <1>1, SMTT(30), Z3T(30)
    DEF TypeOK, MarkCandidate, Moved, Goto, FirstMarks, SecondMarks,
        LinearMarks, BlockMarked, Candidate, Opposite
  <2>2. AddWriters(c, 1)
    BY <1>c, <1>d, <1>e, <1>1, ZenonT(30) DEF MarkCandidate
  <2> QED
    BY <2>1, <2>2, MarkMovedCounted, ZenonT(30)
<1>2. CASE MarkOpposite(w)
  <2>1. /\ Moved(SecondMarks(d), SecondMarks(d)', w, 1)
        /\ FirstMarks(d)' = FirstMarks(d) /\ LinearMarks(d)' = LinearMarks(d)
        /\ \A b \in Blocks \ {d} : Same(b)
    BY <1>0, <1>c, <1>d, <1>e, <1>2, SMTT(30), Z3T(30)
    DEF TypeOK, MarkOpposite, Moved, Goto, FirstMarks, SecondMarks,
        LinearMarks, BlockMarked, Candidate, Opposite
  <2>2. AddWriters(d, 1)
    BY <1>c, <1>d, <1>e, <1>2, ZenonT(30) DEF MarkOpposite
  <2> QED
    BY <2>1, <2>2, MarkMovedCounted, ZenonT(30)
<1>3. CASE EnterLinear(w)
  <2>1. /\ Moved(LinearMarks(e), LinearMarks(e)', w, 1)
        /\ FirstMarks(e)' = FirstMarks(e) /\ SecondMarks(e)' = SecondMarks(e)
        /\ \A b \in Blocks \ {e} : Same(b)
    BY <1>0, <1>c, <1>d, <1>e, <1>3, SMTT(30), Z3T(30)
    DEF TypeOK, EnterLinear, Moved, Goto, FirstMarks, SecondMarks,
        LinearMarks, BlockMarked, Candidate, Opposite
  <2>2. AddWriters(e, 1)
    BY <1>c, <1>d, <1>e, <1>3, ZenonT(30) DEF EnterLinear
  <2> QED
    BY <2>1, <2>2, MarkMovedCounted, ZenonT(30)
<1>4. CASE UnmarkLost(w)
  <2>1. /\ Moved(FirstMarks(c), FirstMarks(c)', w, -1)
        /\ SecondMarks(c)' = SecondMarks(c) /\ LinearMarks(c)' = LinearMarks(c)
        /\ \A b \in Blocks \ {c} : Same(b)
    BY <1>0, <1>c, <1>d, <1>e, <1>4, SMTT(30), Z3T(30)
    DEF TypeOK, UnmarkLost, Moved, Goto, Return, FirstMarks, SecondMarks,
        LinearMarks, BlockMarked, Candidate, Opposite
  <2>2. AddWriters(c, -1)
    BY <1>c, <1>d, <1>e, <1>4, ZenonT(30) DEF UnmarkLost
  <2> QED
    BY <2>1, <2>2, MarkMovedCounted, ZenonT(30)
<1>5. CASE UnmarkCandidate(w)
  <2>1. /\ Moved(FirstMarks(c), FirstMarks(c)', w, -1)
        /\ SecondMarks(c)' = SecondMarks(c) /\ LinearMarks(c)' = LinearMarks(c)
        /\ \A b \in Blocks \ {c} : Same(b)
    BY <1>0, <1>c, <1>d, <1>e, <1>5
    DEF TypeOK, UnmarkCandidate, Moved, Goto, FirstMarks, SecondMarks,
        LinearMarks, BlockMarked, Candidate, Opposite
  <2>2. AddWriters(c, -1)
    BY <1>c, <1>d, <1>e, <1>5, ZenonT(30) DEF UnmarkCandidate
  <2> QED
    BY <2>1, <2>2, MarkMovedCounted, ZenonT(30)
<1>6. CASE UnmarkBoth(w)
  <2>1. /\ Moved(FirstMarks(c), FirstMarks(c)', w, -1)
        /\ SecondMarks(c)' = SecondMarks(c) /\ LinearMarks(c)' = LinearMarks(c)
        /\ \A b \in Blocks \ {c} : Same(b)
    BY <1>0, <1>c, <1>d, <1>e, <1>6, SMTT(30), Z3T(30)
    DEF TypeOK, UnmarkBoth, Moved, Goto, FirstMarks, SecondMarks,
        LinearMarks, BlockMarked, Candidate, Opposite
  <2>2. AddWriters(c, -1)
    BY <1>c, <1>d, <1>e, <1>6, ZenonT(30) DEF UnmarkBoth
  <2> QED
    BY <2>1, <2>2, MarkMovedCounted, ZenonT(30)
<1>7. CASE UnmarkOpposite(w)
  <2>1. /\ Moved(SecondMarks(d), SecondMarks(d)', w, -1)
        /\ FirstMarks(d)' = FirstMarks(d) /\ LinearMarks(d)' = LinearMarks(d)
        /\ \A b \in Blocks \ {d} : Same(b)
    BY <1>0, <1>c, <1>d, <1>e, <1>7, SMTT(30), Z3T(30)
    DEF TypeOK, UnmarkOpposite, Moved, Goto, Return, FirstMarks, SecondMarks,
        LinearMarks, BlockMarked, Candidate, Opposite
  <2>2. AddWriters(d, -1)
    BY <1>c, <1>d, <1>e, <1>7, ZenonT(30) DEF UnmarkOpposite
  <2> QED
    BY <2>1, <2>2, MarkMovedCounted, ZenonT(30)
<1>8. CASE LeaveFailed(w)
  <2>1. /\ Moved(LinearMarks(e), LinearMarks(e)', w, -1)
        /\ FirstMarks(e)' = FirstMarks(e) /\ SecondMarks(e)' = SecondMarks(e)
        /\ \A b \in Blocks \ {e} : Same(b)
    BY <1>0, <1>c, <1>d, <1>e, <1>8, SMTT(30), Z3T(30)
    DEF TypeOK, LeaveFailed, Moved, Goto, FirstMarks, SecondMarks,
        LinearMarks, BlockMarked, Candidate, Opposite
  <2>2. AddWriters(e, -1)
    BY <1>c, <1>d, <1>e, <1>8, ZenonT(30) DEF LeaveFailed
  <2> QED
    BY <2>1, <2>2, MarkMovedCounted, ZenonT(30)
<1>9. CASE LeaveLinear(w)
  <2>1. /\ Moved(LinearMarks(e), LinearMarks(e)', w, -1)
        /\ FirstMarks(e)' = FirstMarks(e) /\ SecondMarks(e)' = SecondMarks(e)
        /\ \A b \in Blocks \ {e} : Same(b)
    BY <1>0, <1>c, <1>d, <1>e, <1>9, SMTT(30), Z3T(30)
    DEF TypeOK, LeaveLinear, Moved, Goto, Return, FirstMarks, SecondMarks,
        LinearMarks, BlockMarked, Candidate, Opposite
  <2>2. AddWriters(e, -1)
    BY <1>c, <1>d, <1>e, <1>9, ZenonT(30) DEF LeaveLinear
  <2> QED
    BY <2>1, <2>2, MarkMovedCounted, ZenonT(30)
<1>10. CASE ReleaseFailed(w)
  <2>1. /\ \A b \in Blocks \ {e} : Same(b)
        /\ LinearMarks(e)' = LinearMarks(e)
    BY <1>0, <1>c, <1>d, <1>e, <1>10, SMTT(30), Z3T(30)
    DEF TypeOK, ReleaseFailed, Goto, Return, FirstMarks, SecondMarks, LinearMarks,
        BlockMarked, Candidate, Opposite
  <2>2. AddWriters(e, -1)
    BY <1>c, <1>d, <1>e, <1>10, ZenonT(30) DEF ReleaseFailed
  <2>3. CASE e = c
    <3>1. /\ Moved(FirstMarks(e), FirstMarks(e)', w, -1)
          /\ SecondMarks(e)' = SecondMarks(e)
      BY <1>0, <1>c, <1>d, <1>e, <1>10, <2>3, ZenonT(30)
      DEF TypeOK, ReleaseFailed, Moved, Goto, Return, FirstMarks, SecondMarks,
          BlockMarked, Candidate, Opposite
    <3> QED
      BY <2>1, <2>2, <3>1, MarkMovedCounted, ZenonT(30)
  <2>4. CASE e = d
    <3>1. /\ Moved(SecondMarks(e), SecondMarks(e)', w, -1)
          /\ FirstMarks(e)' = FirstMarks(e)
      BY <1>0, <1>c, <1>d, <1>e, <1>10, <2>4, ZenonT(30)
      DEF TypeOK, ReleaseFailed, Moved, Goto, Return, FirstMarks, SecondMarks,
          BlockMarked, Candidate, Opposite
    <3> QED
      BY <2>1, <2>2, <3>1, MarkMovedCounted, ZenonT(30)
  <2> QED
    BY <1>0, <1>c, <1>d, <1>e, <2>3, <2>4, ZenonT(30)
<1>11. CASE ReleaseBlock(w)
  <2>1. /\ \A b \in Blocks \ {e} : Same(b)
        /\ LinearMarks(e)' = LinearMarks(e)
    BY <1>0, <1>c, <1>d, <1>e, <1>11
    DEF TypeOK, ReleaseBlock, Goto, FirstMarks, SecondMarks, LinearMarks,
        BlockMarked, Candidate, Opposite
  <2>2. AddWriters(e, -1)
    BY <1>c, <1>d, <1>e, <1>11, ZenonT(30) DEF ReleaseBlock
  <2>3. CASE e = c
    <3>1. /\ Moved(FirstMarks(e), FirstMarks(e)', w, -1)
          /\ SecondMarks(e)' = SecondMarks(e)
      BY <1>0, <1>c, <1>d, <1>e, <1>11, <2>3, ZenonT(30)
      DEF TypeOK, ReleaseBlock, Moved, Goto, FirstMarks, SecondMarks,
          BlockMarked, Candidate, Opposite
    <3> QED
      BY <2>1, <2>2, <3>1, MarkMovedCounted, ZenonT(30)
  <2>4. CASE e = d
    <3>1. /\ Moved(SecondMarks(e), SecondMarks(e)', w, -1)
          /\ FirstMarks(e)' = FirstMarks(e)
      BY <1>0, <1>c, <1>d, <1>e, <1>11, <2>4, ZenonT(30)
      DEF TypeOK, ReleaseBlock, Moved, Goto, FirstMarks, SecondMarks,
          BlockMarked, Candidate, Opposite
    <3> QED
      BY <2>1, <2>2, <3>1, MarkMovedCounted, ZenonT(30)
  <2> QED
    BY <1>0, <1>c, <1>d, <1>e, <2>3, <2>4, ZenonT(30)
<1>12. CASE StartAcquire(w)
  BY <1>0, <1>12, MarksUntouched
  DEF TypeOK, StartAcquire, Goto, FirstMarks, SecondMarks, LinearMarks,
      BlockMarked, Candidate, Opposite, control
<1>13. CASE CheckSwitch(w)
  BY <1>0, <1>13, MarksUntouched
  DEF TypeOK, CheckSwitch, Goto, FirstMarks, SecondMarks, LinearMarks,
      BlockMarked, Candidate, Opposite, control
<1>14. CASE RecheckSwitch(w)
  BY <1>0, <1>14, MarksUntouched
  DEF TypeOK, RecheckSwitch, Goto, FirstMarks, SecondMarks, LinearMarks,
      BlockMarked, Candidate, Opposite, control
<1>15. CASE LoadConcurrency(w)
  BY <1>0, <1>15, MarksUntouched
  DEF TypeOK, LoadConcurrency, Goto, FirstMarks, SecondMarks, LinearMarks,
      BlockMarked, Candidate, Opposite, control
<1>16. CASE LoadAcquired(w)
  BY <1>0, <1>16, MarksUntouched, SMTT(30), Z3T(30)
  DEF TypeOK, LoadAcquired, Goto, FirstMarks, SecondMarks, LinearMarks,
      BlockMarked, Candidate, Opposite, control
<1>17. CASE FetchAdd(w)
  BY <1>0, <1>17, MarksUntouched, ZenonT(30)
  DEF TypeOK, FetchAdd, Goto, FirstMarks, SecondMarks, LinearMarks,
      BlockMarked, Candidate, Opposite, control
<1>18. CASE TerminateLength(w)
  BY <1>0, <1>18, MarksUntouched
  DEF TypeOK, TerminateLength, Goto, FirstMarks, SecondMarks, LinearMarks,
      BlockMarked, Candidate, Opposite, control
<1>19. CASE TerminateWritten(w)
  BY <1>0, <1>19, MarksUntouched
  DEF TypeOK, TerminateWritten, Goto, FirstMarks, SecondMarks, LinearMarks,
      BlockMarked, Candidate, Opposite, control
<1>20. CASE WriteLength(w)
  BY <1>0, <1>20, MarksUntouched
  DEF TypeOK, WriteLength, Goto, FirstMarks, SecondMarks, LinearMarks,
      BlockMarked, Candidate, Opposite, control
<1>21. CASE WritePayload(w)
  BY <1>0, <1>21, MarksUntouched
  DEF TypeOK, WritePayload, Goto, FirstMarks, SecondMarks, LinearMarks,
      BlockMarked, Candidate, Opposite, control
<1>22. CASE AddWritten(w)
  BY <1>0, <1>22, MarksUntouched
  DEF TypeOK, AddWritten, Goto, FirstMarks, SecondMarks, LinearMarks,
      BlockMarked, Candidate, Opposite, control
<1> QED
  BY ZenonT(30), <1>1, <1>2, <1>3, <1>4, <1>5, <1>6, <1>7, <1>8,
     <1>9, <1>10, <1>11, <1>12, <1>13, <1>14, <1>15, <1>16,
     <1>17, <1>18, <1>19, <1>20, <1>21, <1>22
  DEF WriterStep

(* The reader changes neither number_of_writers nor a mark.                *)
LEMMA ReaderMarks ==
  ASSUME MarksCounted, ReaderStep
  PROVE  MarksCounted'
<1>1. UNCHANGED <<number_of_writers, pc, loaded, block>>
  BY ZenonT(30)
  DEF ReaderStep, SwitchResetAcquired, SwitchResetWritten, SwitchIncrement,
         LoadWriters, LoadWritten, CompareAcquired, CreateLinearReader, Read,
         ReadEnd, ReadRecord, ReadFailedAcquisition, FinishReading, control,
         writer
<1> QED
  BY <1>1, MarksUntouched, SMTT(30), Z3T(30)
  DEF FirstMarks, SecondMarks, LinearMarks, BlockMarked, Candidate, Opposite

-----------------------------------------------------------------------------
(* Types.                                                                  *)

(* The initial state has the types.                                        *)
LEMMA InitType ==
  Init => TypeOK
<1>1. SwitchCountModulus > 1
  BY QueueAssumption
<1> QED
  BY <1>1, QueueAssumption
  DEF Init, TypeOK, Blocks, Even, Odd, WriterPcs, ReaderPcs

(* An index that is added to stays in the range of its integer.            *)
LEMMA WrappedIndex ==
  ASSUME NEW f \in [Blocks -> 0 .. LengthMax], NEW b \in Blocks, NEW n \in Nat
  PROVE  AddIndex(f, b, n) \in [Blocks -> 0 .. LengthMax]
<1>1. \A k \in Nat : k % (LengthMax + 1) \in 0 .. LengthMax
  BY QueueAssumption
<1> QED
  BY <1>1, QueueAssumption, SMTT(30), Z3T(30) DEF AddIndex

(* What a writer acquires is not empty.                                    *)
LEMMA TotalType ==
  ASSUME TypeOK, NEW w \in Writers
  PROVE  Total(w) \in Nat \ {0}
BY QueueAssumption, SMTT(30), Z3T(30) DEF TypeOK, Total

(* The types of all variables but number_of_writers, whose counts are      *)
(* natural numbers because they are cardinalities.                         *)
LEMMA WriterType ==
  ASSUME TypeOK, MarksCounted', NEW w \in Writers, WriterStep(w)
  PROVE  TypeOK'
<1>0. /\ Candidate(w) \in Blocks /\ Opposite(w) \in Blocks
      /\ block[w] \in Blocks /\ Total(w) \in Nat \ {0}
  BY BlocksOfWriter, TotalType, ZenonT(30)
<1>a. /\ 0 \in 0 .. SwitchCountModulus - 1 /\ 0 \in 0 .. LengthMax
      /\ Even \in Blocks /\ MaxRecords \in Nat
      /\ \A k \in 1 .. MaxRecords : Lengths[k] \in Nat
  BY QueueAssumption DEF Even, Blocks
<1> DEFINE Typed ==
      /\ switch_count \in 0 .. SwitchCountModulus - 1
      /\ acquired_index \in [Blocks -> 0 .. LengthMax]
      /\ written_index \in [Blocks -> 0 .. LengthMax]
      /\ pc \in [Writers -> WriterPcs]
      /\ loaded \in [Writers -> 0 .. SwitchCountModulus - 1]
      /\ block \in [Writers -> Blocks]
      /\ offset \in [Writers -> 0 .. LengthMax]
      /\ length \in [Writers -> Nat]
      /\ rpc \in ReaderPcs
      /\ acquired_buffer \in 0 .. SwitchCountModulus - 1
      /\ attempts \in 0 .. MaxRecords
      /\ DOMAIN number_of_writers = Blocks
      /\ number_of_writers = [b \in Blocks |-> number_of_writers[b]]
<1>1. ASSUME StartAcquire(w) PROVE Typed'
  BY <1>0, <1>1, <1>a, SMTT(30), Z3T(30)
  DEF TypeOK, WriterPcs, StartAcquire, Goto, control, reader, history
<1>2. ASSUME MarkCandidate(w) PROVE Typed'
  BY <1>0, <1>2, ZenonT(30)
  DEF TypeOK, WriterPcs, MarkCandidate, Goto, AddWriters, control, reader, history
<1>3. ASSUME CheckSwitch(w) PROVE Typed'
  BY <1>0, <1>3
  DEF TypeOK, WriterPcs, CheckSwitch, Goto, control, reader, history
<1>4. ASSUME UnmarkLost(w) PROVE Typed'
  BY <1>0, <1>4, <1>a, ZenonT(30)
  DEF TypeOK, WriterPcs, UnmarkLost, Goto, Return, AddWriters, control, reader,
      history
<1>5. ASSUME MarkOpposite(w) PROVE Typed'
  BY <1>0, <1>5, ZenonT(30)
  DEF TypeOK, WriterPcs, MarkOpposite, Goto, AddWriters, control, reader, history
<1>6. ASSUME RecheckSwitch(w) PROVE Typed'
  BY <1>0, <1>6, ZenonT(30)
  DEF TypeOK, WriterPcs, RecheckSwitch, Goto, control, reader, history
<1>7. ASSUME UnmarkCandidate(w) PROVE Typed'
  BY <1>0, <1>7, ZenonT(30)
  DEF TypeOK, WriterPcs, UnmarkCandidate, Goto, AddWriters, control, reader, history
<1>8. ASSUME UnmarkBoth(w) PROVE Typed'
  BY <1>0, <1>8, ZenonT(30)
  DEF TypeOK, WriterPcs, UnmarkBoth, Goto, AddWriters, control, reader, history
<1>9. ASSUME UnmarkOpposite(w) PROVE Typed'
  BY <1>0, <1>9, <1>a, ZenonT(30)
  DEF TypeOK, WriterPcs, UnmarkOpposite, Goto, Return, AddWriters, control,
      reader, history
<1>10. ASSUME EnterLinear(w) PROVE Typed'
  BY <1>0, <1>10, ZenonT(30)
  DEF TypeOK, WriterPcs, EnterLinear, Goto, AddWriters, control, reader, history
<1>11. ASSUME LoadConcurrency(w) PROVE Typed'
  BY <1>0, <1>11, ZenonT(30)
  DEF TypeOK, WriterPcs, LoadConcurrency, Goto, control, reader, history
<1>12. ASSUME LoadAcquired(w) PROVE Typed'
  BY <1>0, <1>12, ZenonT(30)
  DEF TypeOK, WriterPcs, LoadAcquired, Goto, control, reader, history
<1>13. ASSUME FetchAdd(w) PROVE Typed'
  BY <1>0, <1>13, WrappedIndex, ZenonT(30)
  DEF TypeOK, WriterPcs, FetchAdd, Goto, control, reader, history
<1>14. ASSUME TerminateLength(w) PROVE Typed'
  BY <1>0, <1>14, ZenonT(30)
  DEF TypeOK, WriterPcs, TerminateLength, Goto, control, reader, history
<1>15. ASSUME TerminateWritten(w) PROVE Typed'
  BY <1>0, <1>15, WrappedIndex, ZenonT(30)
  DEF TypeOK, WriterPcs, TerminateWritten, Goto, control, reader, history
<1>16. ASSUME LeaveFailed(w) PROVE Typed'
  BY <1>0, <1>16, ZenonT(30)
  DEF TypeOK, WriterPcs, LeaveFailed, Goto, AddWriters, control, reader, history
<1>17. ASSUME ReleaseFailed(w) PROVE Typed'
  BY <1>0, <1>17, <1>a, ZenonT(30)
  DEF TypeOK, WriterPcs, ReleaseFailed, Goto, Return, AddWriters, control,
      reader, history
<1>18. ASSUME WriteLength(w) PROVE Typed'
  BY <1>0, <1>18, ZenonT(30)
  DEF TypeOK, WriterPcs, WriteLength, Goto, control, reader, history
<1>19. ASSUME ReleaseBlock(w) PROVE Typed'
  BY <1>0, <1>19, ZenonT(30)
  DEF TypeOK, WriterPcs, ReleaseBlock, Goto, AddWriters, control, reader, history
<1>20. ASSUME WritePayload(w) PROVE Typed'
  BY <1>0, <1>20, ZenonT(30)
  DEF TypeOK, WriterPcs, WritePayload, Goto, control, reader, history
<1>21. ASSUME AddWritten(w) PROVE Typed'
  BY <1>0, <1>21, WrappedIndex, ZenonT(30)
  DEF TypeOK, WriterPcs, AddWritten, Goto, control, reader, history
<1>22. ASSUME LeaveLinear(w) PROVE Typed'
  BY <1>0, <1>22, <1>a, ZenonT(30)
  DEF TypeOK, WriterPcs, LeaveLinear, Goto, Return, AddWriters, control,
      reader, history
<1>23. Typed'
  BY ZenonT(30), <1>1, <1>2, <1>3, <1>4, <1>5, <1>6, <1>7, <1>8,
     <1>9, <1>10, <1>11, <1>12, <1>13, <1>14, <1>15, <1>16,
     <1>17, <1>18, <1>19, <1>20, <1>21, <1>22
  DEF WriterStep
<1> QED
  BY <1>23, MarksFinite DEF TypeOK, MarksCounted

(* A step of the reader keeps the types.                                   *)
LEMMA ReaderType ==
  ASSUME TypeOK, ReaderStep
  PROVE  TypeOK'
<1>0. /\ 0 \in 0 .. SwitchCountModulus - 1 /\ 0 \in 0 .. LengthMax
      /\ NextCount(switch_count) \in 0 .. SwitchCountModulus - 1
  BY QueueAssumption, NextCountAlternates DEF TypeOK
<1>1. CASE SwitchResetAcquired
  BY <1>0, <1>1, ZenonT(30)
  DEF TypeOK, ReaderPcs, SwitchResetAcquired, writer, history
<1>2. CASE SwitchResetWritten
  BY <1>0, <1>2, ZenonT(30)
  DEF TypeOK, ReaderPcs, SwitchResetWritten, writer, history
<1>3. CASE SwitchIncrement
  BY <1>0, <1>3, ZenonT(30)
  DEF TypeOK, ReaderPcs, SwitchIncrement, writer, history
<1>4. CASE LoadWriters \/ LoadWritten \/ CompareAcquired \/ CreateLinearReader
  BY <1>4, ZenonT(30)
  DEF TypeOK, ReaderPcs, LoadWriters, LoadWritten, CompareAcquired,
              CreateLinearReader, control, writer, history
<1>5. CASE Read
  BY <1>0, <1>5, ZenonT(30) DEF TypeOK, ReaderPcs, Read, ReadEnd, ReadRecord,
     ReadFailedAcquisition, FinishReading, control, writer, history
<1> QED
  BY <1>1, <1>2, <1>3, <1>4, <1>5, ZenonT(30) DEF ReaderStep

-----------------------------------------------------------------------------
(* The arbitration.                                                        *)

(* Whoever has won a block has a mark on it.                               *)
LEMMA WinnersMarked ==
  ASSUME TypeOK, NEW w \in Writers, NEW b \in Blocks, Claims(w, b)
  PROVE  w \in FirstMarks(b) \union SecondMarks(b) \union LinearMarks(b)
BY BlocksOfWriter, ZenonT(30)
DEF Claims, HoldsBlock, FirstMarks, SecondMarks, LinearMarks, BlockMarked

(* A block without marks has no winners.                                   *)
LEMMA NoMarksNoWinners ==
  ASSUME TypeOK, MarksCounted, NEW b \in Blocks, number_of_writers[b] = 0
  PROVE  \A w \in Writers : ~Claims(w, b)
<1>1. /\ Cardinality(FirstMarks(b)) = 0 /\ Cardinality(SecondMarks(b)) = 0
      /\ Cardinality(LinearMarks(b)) = 0
  BY MarksFinite DEF MarksCounted
<1>2. FirstMarks(b) = {} /\ SecondMarks(b) = {} /\ LinearMarks(b) = {}
  BY <1>1, MarksFinite, FS_EmptySet, ZenonT(30)
<1> QED
  BY <1>2, WinnersMarked, ZenonT(30)

(* The counter selects one block, and the other one is read.               *)
LEMMA ActiveBlocks ==
  ASSUME TypeOK
  PROVE  /\ ActiveBlock \in Blocks
         /\ ReadBlock \in Blocks
         /\ GetOppositeLinearControlBlock(ActiveBlock) \in Blocks
         /\ GetOppositeLinearControlBlock(ActiveBlock) # ActiveBlock
BY DEF TypeOK, ActiveBlock, ReadBlock, SelectLinearControlBlockId,
       GetOppositeLinearControlBlock, Blocks, Even, Odd

(* A writer wins a block only when the counter says that it is active.     *)
LEMMA WriterWinners ==
  ASSUME TypeOK, WinnersActive, NEW w \in Writers, WriterStep(w)
  PROVE  WinnersActive'
<1>0. UNCHANGED <<switch_count, rpc>> /\ ActiveBlock' = ActiveBlock
  BY ZenonT(30)
  DEF WriterStep, StartAcquire, MarkCandidate, CheckSwitch, UnmarkLost,
     MarkOpposite, RecheckSwitch, UnmarkCandidate, UnmarkBoth, UnmarkOpposite,
     EnterLinear, LoadConcurrency, LoadAcquired, FetchAdd, TerminateLength,
     TerminateWritten, LeaveFailed, ReleaseFailed, WriteLength, ReleaseBlock,
     WritePayload, AddWritten, LeaveLinear, control, reader, ActiveBlock
<1> SUFFICES ASSUME NEW v \in Writers, NEW b \in Blocks, Claims(v, b)',
                    ~Claims(v, b)
             PROVE  b = ActiveBlock
  BY <1>0, ZenonT(30) DEF WinnersActive
<1>1. CASE CheckSwitch(w)
  BY <1>1 DEF TypeOK, CheckSwitch, Goto, Claims, HoldsBlock, Candidate,
              Opposite, ActiveBlock
<1>2. CASE RecheckSwitch(w)
  <2>1. v = w /\ switch_count = NextCount(loaded[w]) /\ Opposite(w) = b
    BY <1>2, ZenonT(30)
    DEF TypeOK, RecheckSwitch, Goto, Claims, HoldsBlock, Candidate,
                Opposite
  <2> QED
    BY <2>1, NextCountAlternates, ZenonT(30)
    DEF TypeOK, Candidate, Opposite, ActiveBlock
<1>3. CASE UnmarkCandidate(w)
  BY <1>3, ZenonT(30)
  DEF TypeOK, UnmarkCandidate, Goto, Claims, HoldsBlock, Candidate,
              Opposite
<1>4. CASE UnmarkLost(w) \/ UnmarkOpposite(w) \/ ReleaseFailed(w) \/ LeaveLinear(w)
  BY <1>4, SMTT(30), Z3T(30)
  DEF TypeOK, UnmarkLost, UnmarkOpposite, ReleaseFailed, LeaveLinear,
     Return, Goto, Claims, HoldsBlock, Candidate, Opposite
<1>5. CASE \/ StartAcquire(w) \/ MarkCandidate(w) \/ MarkOpposite(w)
           \/ UnmarkBoth(w)
  BY <1>5, SMTT(30), Z3T(30)
  DEF TypeOK, StartAcquire, MarkCandidate, MarkOpposite, UnmarkBoth,
     Goto, Claims, HoldsBlock, Candidate, Opposite
<1>6. CASE \/ EnterLinear(w) \/ LoadConcurrency(w) \/ LoadAcquired(w)
           \/ FetchAdd(w) \/ TerminateLength(w) \/ TerminateWritten(w)
           \/ LeaveFailed(w) \/ WriteLength(w) \/ ReleaseBlock(w)
           \/ WritePayload(w) \/ AddWritten(w)
  BY <1>6, ZenonT(30)
  DEF TypeOK, EnterLinear, LoadConcurrency, LoadAcquired, FetchAdd,
     TerminateLength, TerminateWritten, LeaveFailed, WriteLength, ReleaseBlock,
     WritePayload, AddWritten, Goto, Claims, HoldsBlock, Candidate, Opposite
<1> QED
  BY <1>1, <1>2, <1>3, <1>4, <1>5, <1>6, ZenonT(30) DEF WriterStep

(* The reader looks at a block only after it has seen no mark on it.       *)
LEMMA ReaderWinners ==
  ASSUME TypeOK, MarksCounted, WinnersActive, ReaderBehind, ReaderStep
  PROVE  WinnersActive'
<1>0. UNCHANGED writer /\ \A w \in Writers, b \in Blocks : Claims(w, b)' = Claims(w, b)
  BY ZenonT(30)
  DEF ReaderStep, SwitchResetAcquired, SwitchResetWritten, SwitchIncrement,
     LoadWriters, LoadWritten, CompareAcquired, CreateLinearReader, Read,
     ReadEnd, ReadRecord, ReadFailedAcquisition, FinishReading, writer,
     Claims, HoldsBlock, Candidate, Opposite
<1>1. CASE SwitchIncrement
  BY <1>1, ZenonT(30) DEF SwitchIncrement, WinnersActive
<1>2. CASE LoadWriters
  <2>1. \A w \in Writers : ~Claims(w, ReadBlock)
    BY <1>2, ActiveBlocks, NoMarksNoWinners, ZenonT(30) DEF LoadWriters
  <2>2. \A b \in Blocks : b = ReadBlock \/ b = ActiveBlock
    BY <1>2, ActiveBlocks, ZenonT(30) DEF LoadWriters, ReaderBehind, Blocks
  <2> QED
    BY <1>0, <1>2, <2>1, <2>2, ZenonT(30)
    DEF WinnersActive, LoadWriters, ActiveBlock, control
<1>3. ASSUME \/ SwitchResetAcquired \/ SwitchResetWritten \/ LoadWritten
             \/ CompareAcquired \/ CreateLinearReader \/ Read
      PROVE  WinnersActive'
  <2>1. rpc # "LoadWriters" /\ UNCHANGED switch_count
    BY <1>3, ZenonT(30)
    DEF SwitchResetAcquired, SwitchResetWritten, LoadWritten,
       CompareAcquired, CreateLinearReader, Read, ReadEnd, ReadRecord,
       ReadFailedAcquisition, FinishReading, control
  <2> QED
    BY <1>0, <2>1, ZenonT(30) DEF WinnersActive, ActiveBlock
<1> QED
  BY <1>1, <1>2, <1>3, ZenonT(30) DEF ReaderStep

(* A writer does not move the reader.                                      *)
LEMMA WriterBehind ==
  ASSUME ReaderBehind, NEW w \in Writers, WriterStep(w)
  PROVE  ReaderBehind' /\ UNCHANGED <<switch_count, reader>>
<1>1. UNCHANGED <<switch_count, reader>>
  BY ZenonT(30)
  DEF WriterStep, StartAcquire, MarkCandidate, CheckSwitch, UnmarkLost,
     MarkOpposite, RecheckSwitch, UnmarkCandidate, UnmarkBoth, UnmarkOpposite,
     EnterLinear, LoadConcurrency, LoadAcquired, FetchAdd, TerminateLength,
     TerminateWritten, LeaveFailed, ReleaseFailed, WriteLength, ReleaseBlock,
     WritePayload, AddWritten, LeaveLinear, control
<1> QED
  BY <1>1, ZenonT(30) DEF ReaderBehind, ReadBlock, ActiveBlock, reader

(* The reader reads the block that is not active.                          *)
LEMMA ReaderStaysBehind ==
  ASSUME TypeOK, ReaderBehind, ReaderStep
  PROVE  ReaderBehind'
<1>1. CASE SwitchIncrement
  <2>1. SelectLinearControlBlockId(NextCount(switch_count))
          = GetOppositeLinearControlBlock(SelectLinearControlBlockId(switch_count))
    BY NextCountAlternates, ZenonT(30) DEF TypeOK
  <2>2. SelectLinearControlBlockId(switch_count) \in Blocks
    BY NextCountAlternates, ZenonT(30) DEF TypeOK
  <2> QED
    BY <1>1, <2>1, <2>2, ZenonT(30)
    DEF SwitchIncrement, ReaderBehind, ReadBlock, ActiveBlock,
        GetOppositeLinearControlBlock, Blocks, Even, Odd
<1>2. CASE SwitchResetAcquired \/ SwitchResetWritten
  BY <1>2, ZenonT(30) DEF SwitchResetAcquired, SwitchResetWritten, ReaderBehind
<1>3. CASE LoadWriters \/ LoadWritten \/ CompareAcquired \/ CreateLinearReader
  BY <1>3, ZenonT(30)
  DEF LoadWriters, LoadWritten, CompareAcquired, CreateLinearReader,
              ReaderBehind, ReadBlock, ActiveBlock, control
<1>4. CASE Read
  <2>1. rpc = "Read" /\ UNCHANGED switch_count
    BY <1>4, ZenonT(30) DEF Read, ReadEnd, ReadRecord, ReadFailedAcquisition,
                FinishReading, control
  <2>2. rpc' = "Idle" \/ UNCHANGED <<rpc, acquired_buffer>>
    BY <1>4, ZenonT(30)
    DEF Read, ReadEnd, ReadRecord, ReadFailedAcquisition, FinishReading
  <2> QED
    BY <2>1, <2>2, ZenonT(30) DEF ReaderBehind, ReadBlock, ActiveBlock
<1> QED
  BY <1>1, <1>2, <1>3, <1>4, ZenonT(30) DEF ReaderStep

-----------------------------------------------------------------------------
(* The theorems.                                                           *)

(* No block is marked at first.                                            *)
LEMMA InitArbitration ==
  Init => Arbitration
<1> SUFFICES ASSUME Init PROVE Arbitration
  BY ZenonT(30)
<1>1. TypeOK
  BY InitType, ZenonT(30)
<1>2. \A b \in Blocks : /\ FirstMarks(b) = {} /\ SecondMarks(b) = {}
                        /\ LinearMarks(b) = {} /\ number_of_writers[b] = 0
  BY ZenonT(30) DEF Init, FirstMarks, SecondMarks, LinearMarks, BlockMarked
<1>3. MarksCounted
  BY <1>2, FS_EmptySet DEF MarksCounted
<1>4. WinnersActive /\ ReaderBehind
  BY ZenonT(30) DEF Init, WinnersActive, Claims, HoldsBlock, ReaderBehind
<1> QED
  BY <1>1, <1>3, <1>4, ZenonT(30) DEF Arbitration

(* The invariant on the marks is about the variables only.                 *)
LEMMA StutterArbitration ==
  ASSUME Arbitration, UNCHANGED vars
  PROVE  Arbitration'
<1>1. TypeOK'
  BY ZenonT(30) DEF Arbitration, TypeOK, vars, control, writer, reader, history
<1>2. MarksCounted'
  BY MarksUntouched
  DEF Arbitration, vars, control, writer, FirstMarks, SecondMarks,
      LinearMarks, BlockMarked, Candidate, Opposite
<1>3. WinnersActive' /\ ReaderBehind'
  BY ZenonT(30)
  DEF Arbitration, vars, control, writer, reader, WinnersActive, Claims,
         HoldsBlock, Candidate, Opposite, ActiveBlock, ReaderBehind, ReadBlock
<1> QED
  BY <1>1, <1>2, <1>3, ZenonT(30) DEF Arbitration

(* Every step keeps the invariant on the marks.                            *)
LEMMA NextArbitration ==
  Arbitration /\ [Next]_vars => Arbitration'
<1> SUFFICES ASSUME Arbitration, [Next]_vars PROVE Arbitration'
  BY ZenonT(30)
<1>1. ASSUME NEW w \in Writers, WriterStep(w) PROVE Arbitration'
  BY <1>1, WriterMarks, WriterType, WriterWinners, WriterBehind, ZenonT(30)
  DEF Arbitration
<1>2. CASE ReaderStep
  BY <1>2, ReaderMarks, ReaderType, ReaderWinners, ReaderStaysBehind, ZenonT(30)
  DEF Arbitration
<1>3. CASE UNCHANGED vars
  BY <1>3, StutterArbitration, ZenonT(30)
<1> QED
  BY <1>1, <1>2, <1>3, ZenonT(30) DEF Next

(* In every reachable state number_of_writers counts the marks, and a      *)
(* writer that has won a block has the active one, or one that the reader  *)
(* waits for (WaitFreeAlternatingWriter::Acquire, Switch).                 *)
THEOREM ArbitrationInvariant == Spec => []Arbitration
BY InitArbitration, NextArbitration, PTL DEF Spec

(* Type correctness: no counter of a block goes below zero, and the        *)
(* indices and the switch counter stay in the range of their integers.     *)
THEOREM TypeCorrect == Spec => []TypeOK
<1>1. Arbitration => TypeOK
  BY ZenonT(30) DEF Arbitration
<1> QED
  BY <1>1, ArbitrationInvariant, PTL

(* Mutual exclusion of the reader and the writers: once                    *)
(* IsBlockReleasedByWriters has seen number_of_writers = 0 on the block    *)
(* that was handed over, no writer is inside or gets inside that block     *)
(* before the reader is done with it.  A writer that AcquireBlock lets     *)
(* through has its mark on the block before it finds the counter           *)
(* unchanged, so the reader either sees the mark or has made the writer    *)
(* see a newer counter.                                                    *)
THEOREM ReaderExclusion == Spec => []ReaderExclusive
<1>1. Arbitration => ReaderExclusive
  <2> SUFFICES ASSUME Arbitration, ReaderOwnsBlock, NEW w \in Writers,
                      HoldsBlock(w)
               PROVE  block[w] # ReadBlock
    BY ZenonT(30) DEF ReaderExclusive
  <2>1. block[w] \in Blocks /\ Claims(w, block[w])
    BY ZenonT(30) DEF Arbitration, TypeOK, Claims
  <2>2. block[w] = ActiveBlock
    BY <2>1, ZenonT(30) DEF Arbitration, WinnersActive, ReaderOwnsBlock
  <2>3. ReadBlock = GetOppositeLinearControlBlock(ActiveBlock)
    BY ZenonT(30) DEF Arbitration, ReaderBehind, ReaderOwnsBlock
  <2> QED
    BY <2>2, <2>3, ActiveBlocks, ZenonT(30) DEF Arbitration
<1> QED
  BY <1>1, ArbitrationInvariant, PTL

-----------------------------------------------------------------------------
(* Arithmetic of the indices.                                              *)

(* An index that stays within the width of the integer does not wrap.      *)
LEMMA AddWithoutWrap ==
  ASSUME NEW n \in 0 .. LengthMax
  PROVE  n % (LengthMax + 1) = n
BY QueueAssumption

(* Room for k writers is room for one and for k - 1.                       *)
LEMMA RoomForOne ==
  ASSUME NEW k \in Nat \ {0}, NEW t \in Nat
  PROVE  k * t = t + (k - 1) * t
OBVIOUS

(* A product of natural numbers is one.                                    *)
LEMMA ProductType ==
  ASSUME NEW j \in Nat, NEW k \in Nat
  PROVE  j * k \in Nat
OBVIOUS

(* Fewer writers need no more room.                                        *)
LEMMA RoomForFewer ==
  ASSUME NEW j \in Nat, NEW k \in Nat, NEW t \in Nat, j <= k
  PROVE  j * t <= k * t
OBVIOUS

-----------------------------------------------------------------------------
(* The inductive invariant.                                                *)

(* The writers on block b that CheckAndGetAcquireOffset has let through    *)
(* the limit on concurrent writers, and those of them that will fetch_add. *)
Admitted(b) ==
  {w \in Writers : pc[w] \in {"LoadAcquired", "FetchAdd"} /\ block[w] = b}
Committed(b) ==
  {w \in Writers : pc[w] = "FetchAdd" /\ block[w] = b}

LimitKept ==
  \A b \in Blocks :
    Cardinality(Admitted(b)) <= GetMaxNumberOfConcurrentWriters

LengthsChecked ==
  \A w \in Writers :
    pc[w] \in {"LoadAcquired", "FetchAdd"} =>
      length[w] <= GetMaxAcquireLengthBytes

(* All writers that are committed to a fetch_add may do it without a wrap. *)
RoomLeft ==
  \A b \in Blocks :
    acquired_index[b] + Cardinality(Committed(b))
                          * (GetMaxAcquireLengthBytes + GetLengthOffsetBytes)
      <= LengthMax

(* The bytes of block b that writers own, and what the indices say of      *)
(* them.  Switch resets acquired_index and written_index in two steps.     *)
RangesBelow ==
  \A w \in Writers :
    OwnsRange(w) => offset[w] + Total(w) <= acquired_index[block[w]]

Owned(b) ==
  {a \in 0 .. LengthMax :
     \E w \in Writers : /\ OwnsRange(w) /\ block[w] = b
                        /\ offset[w] <= a /\ a < offset[w] + Total(w)}

Resetting(b) ==
  /\ rpc = "SwitchResetWritten"
  /\ b = GetOppositeLinearControlBlock(ActiveBlock)

BytesCounted ==
  \A b \in Blocks :
    IF Resetting(b) THEN acquired_index[b] = 0
    ELSE written_index[b] + Cardinality(Owned(b)) = acquired_index[b]

Indices ==
  /\ LimitKept /\ LengthsChecked /\ RoomLeft
  /\ RangesBelow /\ RangesDisjoint /\ BytesCounted

-----------------------------------------------------------------------------
(* The limits that keep acquired_index from wrapping.                      *)

(* The writers admitted to a block, and those that committed, can be       *)
(* counted.                                                                *)
LEMMA AdmittedFinite ==
  ASSUME NEW b
  PROVE  /\ IsFiniteSet(Admitted(b)) /\ Cardinality(Admitted(b)) \in Nat
         /\ IsFiniteSet(Committed(b)) /\ Cardinality(Committed(b)) \in Nat
<1>1. Admitted(b) \subseteq Writers /\ Committed(b) \subseteq Writers
  BY ZenonT(30) DEF Admitted, Committed
<1> QED
  BY <1>1, QueueAssumption, FS_Subset, FS_CardinalityType, ZenonT(30)

(* The number of marks a writer sees on its block is at least the number   *)
(* of writers admitted there, itself included.                             *)
LEMMA WriterLimit ==
  ASSUME TypeOK, MarksCounted, LimitKept, NEW w \in Writers, WriterStep(w)
  PROVE  LimitKept'
<1>0. PICK e \in Blocks : e = block[w]
  BY BlocksOfWriter, ZenonT(30)
<1>1. ASSUME LoadConcurrency(w),
             number_of_writers[e] <= GetMaxNumberOfConcurrentWriters
      PROVE  LimitKept'
  <2>1. /\ Admitted(e)' \subseteq LinearMarks(e)
        /\ \A b \in Blocks \ {e} : Admitted(b)' = Admitted(b)
    BY <1>0, <1>1, ZenonT(30)
    DEF TypeOK, LoadConcurrency, Goto, Admitted, LinearMarks
  <2>2. Cardinality(Admitted(e)') <= Cardinality(LinearMarks(e))
    BY <2>1, MarksFinite, FS_Subset, ZenonT(30)
  <2>3. /\ Cardinality(LinearMarks(e)) <= number_of_writers[e]
        /\ IsFiniteSet(Admitted(e)')
    BY <2>1, MarksFinite, FS_Subset DEF MarksCounted
  <2>4. Cardinality(Admitted(e)') <= GetMaxNumberOfConcurrentWriters
    <3>1. /\ Cardinality(Admitted(e)') \in Nat
          /\ Cardinality(LinearMarks(e)) \in Nat
          /\ number_of_writers[e] \in Nat
          /\ GetMaxNumberOfConcurrentWriters \in Nat
      BY <2>3, MarksFinite, FS_CardinalityType, QueueAssumption, ZenonT(30)
      DEF TypeOK
    <3> QED
      BY <1>1, <2>2, <2>3, <3>1, SMTT(30), Z3T(30)
  <2> QED
    BY <2>1, <2>4, ZenonT(30) DEF LimitKept
<1>2. ASSUME ~(/\ LoadConcurrency(w)
               /\ number_of_writers[e] <= GetMaxNumberOfConcurrentWriters)
      PROVE  LimitKept'
  <2>1. \A b \in Blocks : Admitted(b)' \subseteq Admitted(b)
    <3>1. CASE LoadConcurrency(w)
      BY <1>0, <1>2, <3>1, QueueAssumption, SMTT(30), Z3T(30)
      DEF TypeOK, LoadConcurrency, Goto, Admitted
    <3>2. CASE LoadAcquired(w) \/ FetchAdd(w)
      BY <3>2, ZenonT(30) DEF TypeOK, LoadAcquired, FetchAdd, Goto, Admitted
    <3>3. CASE \/ UnmarkLost(w) \/ UnmarkOpposite(w) \/ ReleaseFailed(w)
               \/ LeaveLinear(w)
      BY <3>3, ZenonT(30) DEF TypeOK, UnmarkLost, UnmarkOpposite, ReleaseFailed,
         LeaveLinear, Return, Goto, Admitted
    <3>4. CASE \/ StartAcquire(w) \/ MarkCandidate(w) \/ CheckSwitch(w)
               \/ MarkOpposite(w) \/ RecheckSwitch(w) \/ UnmarkCandidate(w)
               \/ UnmarkBoth(w) \/ EnterLinear(w)
      BY <3>4, ZenonT(30) DEF TypeOK, StartAcquire, MarkCandidate, CheckSwitch,
         MarkOpposite, RecheckSwitch, UnmarkCandidate, UnmarkBoth,
         EnterLinear, Goto, Admitted
    <3>5. CASE \/ TerminateLength(w) \/ TerminateWritten(w) \/ LeaveFailed(w)
               \/ WriteLength(w) \/ ReleaseBlock(w) \/ WritePayload(w)
               \/ AddWritten(w)
      BY <3>5, ZenonT(30)
      DEF TypeOK, TerminateLength, TerminateWritten, LeaveFailed,
         WriteLength, ReleaseBlock, WritePayload, AddWritten, Goto, Admitted
    <3> QED
      BY <3>1, <3>2, <3>3, <3>4, <3>5, ZenonT(30) DEF WriterStep
  <2>2. \A b \in Blocks : Cardinality(Admitted(b)') <= Cardinality(Admitted(b))
    BY <2>1, AdmittedFinite, FS_Subset, ZenonT(30)
  <2>3. \A b \in Blocks : Cardinality(Admitted(b)') \in Nat
    BY <2>1, AdmittedFinite, FS_Subset, FS_CardinalityType, ZenonT(30)
  <2> QED
    BY <2>2, <2>3, AdmittedFinite, QueueAssumption DEF LimitKept
<1> QED
  BY <1>1, <1>2, ZenonT(30)

(* A step of a writer keeps the lengths that Acquire has checked.          *)
LEMMA WriterLengths ==
  ASSUME TypeOK, LengthsChecked, NEW w \in Writers, WriterStep(w)
  PROVE  LengthsChecked'
<1>0. GetMaxAcquireLengthBytes \in Nat
  BY QueueAssumption, ZenonT(30)
<1>1. CASE LoadConcurrency(w)
  BY <1>0, <1>1, SMTT(30), Z3T(30)
  DEF TypeOK, LengthsChecked, LoadConcurrency, Goto
<1>2. CASE LoadAcquired(w) \/ FetchAdd(w)
  BY <1>2, ZenonT(30) DEF TypeOK, LengthsChecked, LoadAcquired, FetchAdd, Goto
<1>3. CASE \/ UnmarkLost(w) \/ UnmarkOpposite(w) \/ ReleaseFailed(w)
           \/ LeaveLinear(w)
  BY <1>3, ZenonT(30) DEF TypeOK, LengthsChecked, UnmarkLost, UnmarkOpposite,
     ReleaseFailed, LeaveLinear, Return, Goto
<1>4. CASE \/ StartAcquire(w) \/ MarkCandidate(w) \/ CheckSwitch(w)
           \/ MarkOpposite(w) \/ RecheckSwitch(w) \/ UnmarkCandidate(w)
           \/ UnmarkBoth(w) \/ EnterLinear(w)
  BY <1>4, ZenonT(30)
  DEF TypeOK, LengthsChecked, StartAcquire, MarkCandidate, CheckSwitch,
     MarkOpposite, RecheckSwitch, UnmarkCandidate, UnmarkBoth, EnterLinear, Goto
<1>5. CASE \/ TerminateLength(w) \/ TerminateWritten(w) \/ LeaveFailed(w)
           \/ WriteLength(w) \/ ReleaseBlock(w) \/ WritePayload(w)
           \/ AddWritten(w)
  BY <1>5, ZenonT(30)
  DEF TypeOK, LengthsChecked, TerminateLength, TerminateWritten,
     LeaveFailed, WriteLength, ReleaseBlock, WritePayload, AddWritten, Goto
<1> QED
  BY <1>1, <1>2, <1>3, <1>4, <1>5, ZenonT(30) DEF WriterStep

(* fetch_add of a committed writer is exact.                               *)
LEMMA FetchAddExact ==
  ASSUME TypeOK, LengthsChecked, RoomLeft, NEW w \in Writers, FetchAdd(w)
  PROVE  /\ acquired_index[block[w]] + Total(w) <= LengthMax
         /\ \A b \in Blocks : acquired_index'[b] =
              IF b = block[w] THEN acquired_index[b] + Total(w)
              ELSE acquired_index[b]
<1> DEFINE t == GetMaxAcquireLengthBytes + GetLengthOffsetBytes
           n == Cardinality(Committed(block[w]))
<1>0. /\ t \in Nat /\ LengthMax \in Nat /\ Total(w) \in Nat /\ block[w] \in Blocks
      /\ acquired_index[block[w]] \in 0 .. LengthMax
  <2>1. t \in Nat /\ LengthMax \in Nat
    BY QueueAssumption, SMTT(30), Z3T(30)
  <2> QED
    BY <2>1, TotalType, ZenonT(30) DEF TypeOK
<1>1. n \in Nat \ {0}
  <2>1. w \in Committed(block[w])
    BY ZenonT(30) DEF FetchAdd, Committed
  <2> QED
    BY <2>1, AdmittedFinite, FS_EmptySet, ZenonT(30)
<1>2. Total(w) <= t
  <2>1. length[w] <= GetMaxAcquireLengthBytes /\ length[w] \in Nat
    BY ZenonT(30) DEF FetchAdd, LengthsChecked, TypeOK
  <2> QED
    BY <2>1, QueueAssumption, SMTT(30), Z3T(30) DEF Total
<1>3. n * t = t + (n - 1) * t /\ (n - 1) * t \in Nat
  BY <1>0, <1>1, RoomForOne
<1>4. acquired_index[block[w]] + n * t <= LengthMax
  BY <1>0, ZenonT(30) DEF RoomLeft
<1>5. acquired_index[block[w]] + Total(w) \in 0 .. LengthMax
  <2> HIDE DEF n, t
  <2> QED
    BY <1>0, <1>2, <1>3, <1>4
<1>6. (acquired_index[block[w]] + Total(w)) % (LengthMax + 1)
        = acquired_index[block[w]] + Total(w)
  BY <1>5, AddWithoutWrap, ZenonT(30)
<1> QED
  BY <1>0, <1>5, <1>6, SMTT(30), Z3T(30) DEF FetchAdd, AddIndex, TypeOK

(* LoadAcquired commits a writer only below the capacity, so that all      *)
(* admitted writers have room.                                             *)
LEMMA WriterRoom ==
  ASSUME TypeOK, LimitKept, LengthsChecked, RoomLeft, NEW w \in Writers,
         WriterStep(w)
  PROVE  RoomLeft'
<1> DEFINE t == GetMaxAcquireLengthBytes + GetLengthOffsetBytes
           N == GetMaxNumberOfConcurrentWriters
<1>0. PICK e \in Blocks : e = block[w]
  BY BlocksOfWriter, ZenonT(30)
<1>t. t \in Nat /\ N \in Nat /\ LengthMax \in Nat
  BY QueueAssumption
<1>1. CASE LoadAcquired(w) /\ pc'[w] = "FetchAdd"
  <2>1. /\ Committed(e)' \subseteq Admitted(e)
        /\ \A b \in Blocks \ {e} : Committed(b)' = Committed(b)
        /\ UNCHANGED acquired_index
    BY <1>0, <1>1, ZenonT(30)
    DEF TypeOK, LoadAcquired, Goto, Committed, Admitted, control
  <2>2. /\ Cardinality(Committed(e)') \in Nat
        /\ Cardinality(Committed(e)') <= Cardinality(Admitted(e))
    BY <2>1, AdmittedFinite, FS_Subset, FS_CardinalityType, ZenonT(30)
  <2>3. Cardinality(Committed(e)') <= N
    BY <1>t, <2>2, AdmittedFinite DEF LimitKept
  <2>4. Cardinality(Committed(e)') * t <= N * t
    BY <1>t, <2>2, <2>3, RoomForFewer, ZenonT(30)
  <2>5. acquired_index[e] < LengthMax - N * t
    <3>1. /\ GetMaxLinearBufferCapacityBytes = LengthMax - N * t
          /\ N * t \in Nat
      BY <1>t, ProductType, ZenonT(30) DEF GetMaxLinearBufferCapacityBytes
    <3>2. ~(acquired_index[e] >= GetMaxLinearBufferCapacityBytes)
      BY <1>0, <1>1, ZenonT(30) DEF TypeOK, LoadAcquired, Goto
    <3>3. acquired_index[e] \in Nat
      BY DEF TypeOK
    <3>4. \A m \in Nat : ~(acquired_index[e] >= LengthMax - m) =>
                           acquired_index[e] < LengthMax - m
      BY <1>t, <3>3
    <3> HIDE DEF N, t
    <3> QED
      BY <3>1, <3>2, <3>4, ZenonT(30)
  <2>6. acquired_index[e] + Cardinality(Committed(e)') * t <= LengthMax
    <3>1. Cardinality(Committed(e)') * t \in Nat /\ N * t \in Nat
      BY <1>t, <2>2, ProductType, ZenonT(30)
    <3>2. acquired_index[e] \in Nat
      BY DEF TypeOK
    <3>3. \A j, m \in Nat : j <= m /\ acquired_index[e] < LengthMax - m =>
                              acquired_index[e] + j <= LengthMax
      BY <1>t, <3>2, SMTT(30), Z3T(30)
    <3> HIDE DEF t, N
    <3> QED
      BY <2>4, <2>5, <3>1, <3>3, ZenonT(30)
  <2> QED
    BY <2>1, <2>6, ZenonT(30) DEF RoomLeft
<1>2. CASE FetchAdd(w)
  <2>1. /\ Committed(e)' = Committed(e) \ {w} /\ w \in Committed(e)
        /\ \A b \in Blocks \ {e} : Committed(b)' = Committed(b)
    BY <1>0, <1>2, ZenonT(30) DEF TypeOK, FetchAdd, Goto, Committed
  <2>2. /\ Cardinality(Committed(e)') = Cardinality(Committed(e)) - 1
        /\ Cardinality(Committed(e)) \in Nat \ {0}
    BY <2>1, AdmittedFinite, FS_RemoveElement, FS_EmptySet, ZenonT(30)
  <2>3. /\ Cardinality(Committed(e)) * t
             = t + Cardinality(Committed(e)') * t
        /\ Cardinality(Committed(e)') * t \in Nat
    <3> HIDE DEF t
    <3>1. Cardinality(Committed(e)') \in Nat
      BY <2>2
    <3> QED
      BY <1>t, <2>2, <3>1, RoomForOne, ProductType, ZenonT(30)
  <2>4. Total(w) <= t /\ Total(w) \in Nat /\ acquired_index[e] \in Nat
    <3>1. length[w] <= GetMaxAcquireLengthBytes /\ length[w] \in Nat
      BY <1>2, ZenonT(30) DEF FetchAdd, LengthsChecked, TypeOK
    <3>2. acquired_index[e] \in Nat
      BY DEF TypeOK
    <3>3. GetMaxAcquireLengthBytes \in Nat /\ GetLengthOffsetBytes \in Nat
      BY QueueAssumption, ZenonT(30)
    <3> QED
      BY <3>1, <3>2, <3>3 DEF Total
  <2>5. acquired_index[e] + Cardinality(Committed(e)) * t <= LengthMax
    BY ZenonT(30) DEF RoomLeft
  <2>6. /\ acquired_index'[e] = acquired_index[e] + Total(w)
        /\ \A b \in Blocks \ {e} : acquired_index'[b] = acquired_index[b]
    BY <1>0, <1>2, FetchAddExact, ZenonT(30)
  <2>7. acquired_index'[e] + Cardinality(Committed(e)') * t <= LengthMax
    <3> HIDE DEF t
    <3> QED
      BY <1>t, <2>3, <2>4, <2>5, <2>6, SMTT(30), Z3T(30)
  <2> QED
    BY <2>1, <2>6, <2>7, ZenonT(30) DEF RoomLeft
<1>3. ASSUME ~FetchAdd(w), ~(LoadAcquired(w) /\ pc'[w] = "FetchAdd")
      PROVE  RoomLeft'
  <2>1. /\ \A b \in Blocks : Committed(b)' = Committed(b)
        /\ UNCHANGED acquired_index
    <3>1. CASE LoadConcurrency(w) \/ LoadAcquired(w)
      BY <1>3, <3>1, ZenonT(30)
      DEF TypeOK, LoadConcurrency, LoadAcquired, Goto, Committed, control
    <3>2. CASE \/ UnmarkLost(w) \/ UnmarkOpposite(w) \/ ReleaseFailed(w)
               \/ LeaveLinear(w)
      BY <3>2, ZenonT(30) DEF TypeOK, UnmarkLost, UnmarkOpposite, ReleaseFailed,
         LeaveLinear, Return, Goto, Committed
    <3>3. CASE \/ StartAcquire(w) \/ MarkCandidate(w) \/ CheckSwitch(w)
               \/ MarkOpposite(w) \/ RecheckSwitch(w) \/ UnmarkCandidate(w)
               \/ UnmarkBoth(w) \/ EnterLinear(w)
      BY <3>3, ZenonT(30) DEF TypeOK, StartAcquire, MarkCandidate, CheckSwitch,
         MarkOpposite, RecheckSwitch, UnmarkCandidate, UnmarkBoth,
         EnterLinear, Goto, Committed, control
    <3>4. CASE \/ TerminateLength(w) \/ TerminateWritten(w) \/ LeaveFailed(w)
               \/ WriteLength(w) \/ ReleaseBlock(w) \/ WritePayload(w)
               \/ AddWritten(w)
      BY <3>4, ZenonT(30)
      DEF TypeOK, TerminateLength, TerminateWritten, LeaveFailed,
         WriteLength, ReleaseBlock, WritePayload, AddWritten, Goto, Committed,
         control
    <3> QED
      BY <1>3, <3>1, <3>2, <3>3, <3>4, ZenonT(30) DEF WriterStep
  <2> QED
    BY <2>1, ZenonT(30) DEF RoomLeft
<1> QED
  BY <1>1, <1>2, <1>3, ZenonT(30)

-----------------------------------------------------------------------------
(* The ranges.                                                             *)

(* The bytes that writers own in a block can be counted.                   *)
LEMMA OwnedFinite ==
  ASSUME NEW b
  PROVE  IsFiniteSet(Owned(b)) /\ Cardinality(Owned(b)) \in Nat
<1>1. Owned(b) \subseteq 0 .. LengthMax
  BY ZenonT(30) DEF Owned
<1>2. IsFiniteSet(0 .. LengthMax)
  BY FS_Interval, QueueAssumption
<1> QED
  BY <1>1, <1>2, FS_Subset, FS_CardinalityType, ZenonT(30)

(* A range of n bytes has n elements.                                      *)
LEMMA IntervalCardinality ==
  ASSUME NEW low \in Nat, NEW n \in Nat \ {0}
  PROVE  IsFiniteSet(low .. low + n - 1) /\ Cardinality(low .. low + n - 1) = n
<1>1. PICK high \in Int : high = low + n - 1
  OBVIOUS
<1>2. IsFiniteSet(low .. high) /\ Cardinality(low .. high) = high - low + 1
  BY <1>1, FS_Interval
<1> QED
  BY <1>1, <1>2

(* The bytes of two disjoint ranges add up.                                *)
LEMMA DisjointUnionCardinality ==
  ASSUME NEW S, NEW T, IsFiniteSet(S), IsFiniteSet(T), S \cap T = {}
  PROVE  Cardinality(S \union T) = Cardinality(S) + Cardinality(T)
<1>1. /\ Cardinality(S) \in Nat /\ Cardinality(T) \in Nat
      /\ Cardinality(S \cap T) = 0
  BY FS_CardinalityType, FS_EmptySet, ZenonT(30)
<1>2. Cardinality(S \union T)
        = Cardinality(S) + Cardinality(T) - Cardinality(S \cap T)
  BY FS_Union, ZenonT(30)
<1> QED
  BY <1>1, <1>2

(* Giving up a part of the bytes leaves the others.                        *)
LEMMA SubsetRemovedCardinality ==
  ASSUME NEW S, NEW T, IsFiniteSet(S), T \subseteq S
  PROVE  /\ Cardinality(S \ T) = Cardinality(S) - Cardinality(T)
         /\ Cardinality(T) <= Cardinality(S)
<1>1. S \cap T = T
  BY ZenonT(30)
<1>2. Cardinality(S \ T) = Cardinality(S) - Cardinality(S \cap T)
  BY FS_Difference, ZenonT(30)
<1>3. Cardinality(T) <= Cardinality(S)
  BY FS_Subset, ZenonT(30)
<1> QED
  BY <1>1, <1>2, <1>3, ZenonT(30)

(* A step that leaves all ranges and both indices alone.                   *)
LEMMA RangesUntouched ==
  ASSUME RangesBelow, RangesDisjoint, BytesCounted,
         UNCHANGED <<acquired_index, written_index, switch_count, rpc>>,
         \A v \in Writers :
           /\ OwnsRange(v)' = OwnsRange(v)
           /\ OwnsRange(v) => /\ offset'[v] = offset[v]
                              /\ block'[v] = block[v]
                              /\ length'[v] = length[v]
  PROVE  RangesBelow' /\ RangesDisjoint' /\ BytesCounted'
<1>1. \A v \in Writers : OwnsRange(v) => Total(v)' = Total(v)
  BY ZenonT(30) DEF Total
<1>2. RangesBelow'
  BY <1>1, ZenonT(30) DEF RangesBelow
<1>3. RangesDisjoint'
  BY <1>1, ZenonT(30) DEF RangesDisjoint
<1>4. \A b \in Blocks : Owned(b)' = Owned(b)
  BY <1>1, ZenonT(30) DEF Owned
<1>5. ActiveBlock' = ActiveBlock
  BY ZenonT(30) DEF ActiveBlock
<1>6. BytesCounted'
  BY <1>4, <1>5, ZenonT(30) DEF BytesCounted, Resetting
<1> QED
  BY <1>2, <1>3, <1>6, ZenonT(30)

(* fetch_add hands out the bytes above all those handed out before.        *)
LEMMA FetchAddRanges ==
  ASSUME Arbitration, LengthsChecked, RoomLeft, RangesBelow, RangesDisjoint,
         BytesCounted, NEW w \in Writers, FetchAdd(w)
  PROVE  RangesBelow' /\ RangesDisjoint' /\ BytesCounted'
<1>t. TypeOK
  BY ZenonT(30) DEF Arbitration
<1>0. PICK e \in Blocks : e = block[w]
  BY <1>t, BlocksOfWriter, ZenonT(30)
<1>1. PICK low \in 0 .. LengthMax : low = acquired_index[e]
  BY <1>t, ZenonT(30) DEF TypeOK
<1>2. PICK n \in Nat \ {0} : n = Total(w)
  BY <1>t, TotalType, ZenonT(30)
<1>3. /\ low + n <= LengthMax
      /\ acquired_index'[e] = low + n
      /\ \A b \in Blocks \ {e} : acquired_index'[b] = acquired_index[b]
  BY <1>t, <1>0, <1>1, <1>2, FetchAddExact, ZenonT(30)
<1>4. /\ ~OwnsRange(w) /\ OwnsRange(w)'
      /\ offset'[w] = low /\ block'[w] = e /\ Total(w)' = n
  BY <1>t, <1>0, <1>1, <1>2, ZenonT(30)
  DEF TypeOK, FetchAdd, Goto, OwnsRange, Total
<1>5. \A v \in Writers \ {w} :
        /\ OwnsRange(v)' = OwnsRange(v)
        /\ offset'[v] = offset[v] /\ block'[v] = block[v]
        /\ Total(v)' = Total(v)
  BY <1>t, ZenonT(30) DEF TypeOK, FetchAdd, Goto, OwnsRange, Total
<1>6. \A v \in Writers : /\ offset[v] \in Nat /\ Total(v) \in Nat \ {0}
                         /\ block[v] \in Blocks
                         /\ acquired_index[block[v]] \in Nat
  BY <1>t, TotalType, SMTT(30), Z3T(30) DEF TypeOK
<1>7. RangesBelow'
  BY <1>1, <1>2, <1>3, <1>4, <1>5, <1>6, SMTT(30), Z3T(30) DEF RangesBelow
<1>8. \A v \in Writers : OwnsRange(v) /\ block[v] = e => offset[v] + Total(v) <= low
  BY <1>1, ZenonT(30) DEF RangesBelow
<1>9. RangesDisjoint'
  BY <1>4, <1>5, <1>6, <1>8, ZenonT(30) DEF RangesDisjoint
<1>10. /\ Owned(e)' = Owned(e) \union (low .. low + n - 1)
       /\ \A b \in Blocks \ {e} : Owned(b)' = Owned(b)
  <2>1. \A b \in Blocks \ {e} : Owned(b)' = Owned(b)
    BY <1>4, <1>5, ZenonT(30) DEF Owned
  <2>2. \A a \in 0 .. LengthMax : a \in Owned(e)' <=>
          a \in Owned(e) \/ (low <= a /\ a < low + n)
    BY <1>4, <1>5, ZenonT(30) DEF Owned
  <2>3. Owned(e) \subseteq 0 .. LengthMax /\ Owned(e)' \subseteq 0 .. LengthMax
    BY ZenonT(30) DEF Owned
  <2>4. \A a : a \in low .. low + n - 1 <=>
                 a \in 0 .. LengthMax /\ low <= a /\ a < low + n
    BY <1>1, <1>2, <1>3, QueueAssumption, SMTT(30), Z3T(30)
  <2> QED
    BY <2>1, <2>2, <2>3, <2>4, ZenonT(30)
<1>11. Owned(e) \cap (low .. low + n - 1) = {}
  BY <1>1, <1>2, <1>6, <1>8, SMTT(30), Z3T(30) DEF Owned
<1>12. Cardinality(Owned(e)') = Cardinality(Owned(e)) + n
  <2>1. IsFiniteSet(low .. low + n - 1) /\ Cardinality(low .. low + n - 1) = n
    <3>1. low \in Nat
      BY <1>1
    <3> QED
      BY <3>1, <1>2, IntervalCardinality, ZenonT(30)
  <2>2. IsFiniteSet(Owned(e))
    BY OwnedFinite, ZenonT(30)
  <2>3. Cardinality(Owned(e) \union (low .. low + n - 1))
          = Cardinality(Owned(e)) + Cardinality(low .. low + n - 1)
    BY <1>11, <2>1, <2>2, DisjointUnionCardinality, ZenonT(30)
  <2> QED
    BY <1>10, <2>1, <2>3, ZenonT(30)
<1>13. BytesCounted'
  <2>1. UNCHANGED <<written_index, switch_count, rpc>> /\ ActiveBlock' = ActiveBlock
    BY ZenonT(30) DEF FetchAdd, reader, ActiveBlock
  <2>2. written_index[e] \in Nat /\ Cardinality(Owned(e)) \in Nat
    BY <1>t, OwnedFinite, SMTT(30), Z3T(30) DEF TypeOK
  <2>3. ~Resetting(e) /\ \A b \in Blocks : Resetting(b)' = Resetting(b)
    <3>1. Claims(w, e)
      BY <1>0, ZenonT(30) DEF FetchAdd, Claims, HoldsBlock
    <3> QED
      BY <1>t, <2>1, <3>1, ActiveBlocks, ZenonT(30)
      DEF Arbitration, WinnersActive, Resetting
  <2>4. written_index'[e] + Cardinality(Owned(e)') = acquired_index'[e]
    BY <1>1, <1>2, <1>3, <1>12, <2>1, <2>2, <2>3, SMTT(30), Z3T(30)
    DEF BytesCounted
  <2> QED
    BY <1>3, <1>10, <2>1, <2>3, <2>4, ZenonT(30) DEF BytesCounted
<1> QED
  BY <1>7, <1>9, <1>13, ZenonT(30)

(* What a writer adds to written_index are bytes it owns.                  *)
LEMMA WriteExact ==
  ASSUME Arbitration, RangesBelow, RangesDisjoint, BytesCounted,
         NEW w \in Writers, TerminateWritten(w) \/ AddWritten(w)
  PROVE  /\ \A b \in Blocks : written_index'[b] =
              IF b = block[w] THEN written_index[b] + Total(w)
              ELSE written_index[b]
         /\ RangesBelow' /\ RangesDisjoint' /\ BytesCounted'
<1>0. PICK e \in Blocks : e = block[w]
  BY BlocksOfWriter, ZenonT(30) DEF Arbitration
<1>1. PICK low \in Nat : low = offset[w]
  BY DEF Arbitration, TypeOK
<1>2. PICK n \in Nat \ {0} : n = Total(w)
  BY TotalType, ZenonT(30) DEF Arbitration
<1>3. OwnsRange(w) /\ ~OwnsRange(w)' /\ UNCHANGED <<offset, block, length>>
  BY ZenonT(30)
  DEF Arbitration, TypeOK, TerminateWritten, AddWritten, Goto, OwnsRange
<1>4. \A v \in Writers \ {w} : OwnsRange(v)' = OwnsRange(v)
  BY ZenonT(30)
  DEF Arbitration, TypeOK, TerminateWritten, AddWritten, Goto, OwnsRange
<1>5. \A v \in Writers : Total(v)' = Total(v)
  BY <1>3, ZenonT(30) DEF Total
<1>6. /\ acquired_index[e] \in 0 .. LengthMax /\ LengthMax \in Nat
      /\ written_index[e] \in Nat
      /\ UNCHANGED <<acquired_index, switch_count, rpc>>
      /\ ActiveBlock' = ActiveBlock
  BY QueueAssumption, SMTT(30), Z3T(30)
  DEF Arbitration, TypeOK, TerminateWritten, AddWritten,
     reader, ActiveBlock
<1>7. RangesBelow' /\ RangesDisjoint'
  BY <1>3, <1>4, <1>5, <1>6, ZenonT(30) DEF RangesBelow, RangesDisjoint
<1>8. low + n <= acquired_index[e]
  BY <1>0, <1>1, <1>2, <1>3, ZenonT(30) DEF RangesBelow
<1>9. (low .. low + n - 1) \subseteq Owned(e)
  <2> SUFFICES ASSUME NEW a \in low .. low + n - 1 PROVE a \in Owned(e)
    BY ZenonT(30)
  <2>1. a \in 0 .. LengthMax /\ low <= a /\ a < low + n
    BY <1>6, <1>8, SMTT(30), Z3T(30)
  <2> QED
    BY <1>0, <1>1, <1>2, <1>3, <2>1, ZenonT(30) DEF Owned
<1>10. \A v \in Writers \ {w} : OwnsRange(v) /\ block[v] = e =>
         \/ offset[v] + Total(v) <= low
         \/ low + n <= offset[v]
  BY <1>0, <1>1, <1>2, <1>3, ZenonT(30) DEF RangesDisjoint
<1>11. /\ Owned(e)' = Owned(e) \ (low .. low + n - 1)
       /\ \A b \in Blocks \ {e} : Owned(b)' = Owned(b)
  <2>1. \A b \in Blocks \ {e} : Owned(b)' = Owned(b)
    BY <1>0, <1>3, <1>4, <1>5, ZenonT(30) DEF Owned
  <2>2. Owned(e) \subseteq 0 .. LengthMax /\ Owned(e)' \subseteq 0 .. LengthMax
    BY ZenonT(30) DEF Owned
  <2>3. \A v \in Writers : offset[v] \in Nat /\ Total(v) \in Nat
    BY TotalType, SMTT(30), Z3T(30) DEF Arbitration, TypeOK
  <2>4. \A a \in 0 .. LengthMax : a \in Owned(e)' <=>
          \E v \in Writers \ {w} : /\ OwnsRange(v) /\ block[v] = e
                                   /\ offset[v] <= a /\ a < offset[v] + Total(v)
    BY <1>3, <1>4, <1>5, ZenonT(30) DEF Owned
  <2>5. \A a \in 0 .. LengthMax : a \in Owned(e) <=>
          \/ low <= a /\ a < low + n
          \/ \E v \in Writers \ {w} : /\ OwnsRange(v) /\ block[v] = e
                                      /\ offset[v] <= a /\ a < offset[v] + Total(v)
    BY <1>0, <1>1, <1>2, <1>3, ZenonT(30) DEF Owned
  <2>6. \A a \in 0 .. LengthMax :
          a \in low .. low + n - 1 <=> low <= a /\ a < low + n
    BY <1>6, SMTT(30), Z3T(30)
  <2>7. \A a \in 0 .. LengthMax :
          a \in Owned(e)' <=> a \in Owned(e) /\ ~(low <= a /\ a < low + n)
    BY <1>10, <2>3, <2>4, <2>5, <1>6, SMTT(30), Z3T(30)
  <2> QED
    BY <2>1, <2>2, <2>6, <2>7, ZenonT(30)
<1>12. /\ Cardinality(Owned(e)') = Cardinality(Owned(e)) - n
       /\ n <= Cardinality(Owned(e)) /\ Cardinality(Owned(e)) \in Nat
  <2>1. Cardinality(low .. low + n - 1) = n
    BY IntervalCardinality, ZenonT(30)
  <2> QED
    BY <1>9, <1>11, <2>1, OwnedFinite, SubsetRemovedCardinality, ZenonT(30)
<1>13. ~Resetting(e)
  <2>1. Claims(w, e)
    BY <1>0, ZenonT(30) DEF TerminateWritten, AddWritten, Claims, HoldsBlock
  <2> QED
    BY <2>1, ActiveBlocks, ZenonT(30) DEF Arbitration, WinnersActive, Resetting
<1>14. written_index[e] + Cardinality(Owned(e)) = acquired_index[e]
  BY <1>13, ZenonT(30) DEF BytesCounted
<1>15. (written_index[e] + n) % (LengthMax + 1) = written_index[e] + n
  <2>1. written_index[e] + n \in 0 .. LengthMax
    BY <1>6, <1>12, <1>14, SMTT(30), Z3T(30)
  <2> QED
    BY <2>1, AddWithoutWrap, ZenonT(30)
<1>16. /\ written_index'[e] = written_index[e] + n
       /\ \A b \in Blocks \ {e} : written_index'[b] = written_index[b]
  BY <1>0, <1>2, <1>15, SMTT(30), Z3T(30)
  DEF Arbitration, TypeOK, TerminateWritten, AddWritten,
     AddIndex
<1>17. BytesCounted'
  <2>1. \A b \in Blocks : Resetting(b)' = Resetting(b)
    BY <1>6, ZenonT(30) DEF Resetting
  <2>2. written_index'[e] + Cardinality(Owned(e)') = acquired_index'[e]
    BY <1>6, <1>12, <1>14, <1>16, SMTT(30), Z3T(30)
  <2> QED
    BY <1>6, <1>11, <1>13, <1>16, <2>1, <2>2, ZenonT(30) DEF BytesCounted
<1> QED
  BY <1>0, <1>2, <1>7, <1>16, <1>17, ZenonT(30)

(* Every step of a writer keeps the invariant on the indices.              *)
LEMMA WriterIndices ==
  ASSUME Arbitration, Indices, NEW w \in Writers, WriterStep(w)
  PROVE  Indices'
<1>0. TypeOK /\ MarksCounted
  BY ZenonT(30) DEF Arbitration
<1>1. LimitKept' /\ LengthsChecked' /\ RoomLeft'
  BY <1>0, WriterLimit, WriterLengths, WriterRoom, ZenonT(30) DEF Indices
<1>2. CASE FetchAdd(w)
  BY <1>1, <1>2, FetchAddRanges, ZenonT(30) DEF Indices
<1>3. CASE TerminateWritten(w) \/ AddWritten(w)
  BY <1>1, <1>3, WriteExact, ZenonT(30) DEF Indices
<1>4. ASSUME ~FetchAdd(w), ~TerminateWritten(w), ~AddWritten(w)
      PROVE  Indices'
  <2> DEFINE Kept ==
        /\ UNCHANGED <<acquired_index, written_index, switch_count, rpc>>
        /\ \A v \in Writers :
             /\ OwnsRange(v)' = OwnsRange(v)
             /\ OwnsRange(v) => /\ offset'[v] = offset[v]
                                /\ block'[v] = block[v]
                                /\ length'[v] = length[v]
  <2>1. ASSUME StartAcquire(w) PROVE Kept
    BY <1>0, <2>1, SMTT(30), Z3T(30)
    DEF TypeOK, StartAcquire, Goto, OwnsRange, reader, control
  <2>2. ASSUME MarkCandidate(w) PROVE Kept
    BY <1>0, <2>2, SMTT(30), Z3T(30)
    DEF TypeOK, MarkCandidate, Goto, OwnsRange, reader, control
  <2>3. ASSUME CheckSwitch(w) PROVE Kept
    BY <1>0, <2>3, SMTT(30), Z3T(30)
    DEF TypeOK, CheckSwitch, Goto, OwnsRange, reader, control
  <2>4. ASSUME MarkOpposite(w) PROVE Kept
    BY <1>0, <2>4, SMTT(30), Z3T(30)
    DEF TypeOK, MarkOpposite, Goto, OwnsRange, reader, control
  <2>5. ASSUME RecheckSwitch(w) PROVE Kept
    BY <1>0, <2>5, SMTT(30), Z3T(30)
    DEF TypeOK, RecheckSwitch, Goto, OwnsRange, reader, control
  <2>6. ASSUME UnmarkCandidate(w) PROVE Kept
    BY <1>0, <2>6, SMTT(30), Z3T(30)
    DEF TypeOK, UnmarkCandidate, Goto, OwnsRange, reader, control
  <2>7. ASSUME UnmarkBoth(w) PROVE Kept
    BY <1>0, <2>7, SMTT(30), Z3T(30)
    DEF TypeOK, UnmarkBoth, Goto, OwnsRange, reader, control
  <2>8. ASSUME EnterLinear(w) PROVE Kept
    BY <1>0, <2>8, SMTT(30), Z3T(30)
    DEF TypeOK, EnterLinear, Goto, OwnsRange, reader, control
  <2>9. ASSUME LoadConcurrency(w) PROVE Kept
    BY <1>0, <2>9, SMTT(30), Z3T(30)
    DEF TypeOK, LoadConcurrency, Goto, OwnsRange, reader, control
  <2>10. ASSUME LoadAcquired(w) PROVE Kept
    BY <1>0, <2>10, SMTT(30), Z3T(30)
    DEF TypeOK, LoadAcquired, Goto, OwnsRange, reader, control
  <2>11. ASSUME TerminateLength(w) PROVE Kept
    BY <1>0, <2>11, SMTT(30), Z3T(30)
    DEF TypeOK, TerminateLength, Goto, OwnsRange, reader, control
  <2>12. ASSUME LeaveFailed(w) PROVE Kept
    BY <1>0, <2>12, SMTT(30), Z3T(30)
    DEF TypeOK, LeaveFailed, Goto, OwnsRange, reader, control
  <2>13. ASSUME WriteLength(w) PROVE Kept
    BY <1>0, <2>13, SMTT(30), Z3T(30)
    DEF TypeOK, WriteLength, Goto, OwnsRange, reader, control
  <2>14. ASSUME ReleaseBlock(w) PROVE Kept
    BY <1>0, <2>14, SMTT(30), Z3T(30)
    DEF TypeOK, ReleaseBlock, Goto, OwnsRange, reader, control
  <2>15. ASSUME WritePayload(w) PROVE Kept
    BY <1>0, <2>15, SMTT(30), Z3T(30)
    DEF TypeOK, WritePayload, Goto, OwnsRange, reader, control
  <2>16. ASSUME UnmarkLost(w) PROVE Kept
    BY <1>0, <2>16, SMTT(30), Z3T(30)
    DEF TypeOK, UnmarkLost, Return, Goto, OwnsRange, reader
  <2>17. ASSUME UnmarkOpposite(w) PROVE Kept
    BY <1>0, <2>17, SMTT(30), Z3T(30)
    DEF TypeOK, UnmarkOpposite, Return, Goto, OwnsRange, reader
  <2>18. ASSUME ReleaseFailed(w) PROVE Kept
    BY <1>0, <2>18, SMTT(30), Z3T(30)
    DEF TypeOK, ReleaseFailed, Return, Goto, OwnsRange, reader
  <2>19. ASSUME LeaveLinear(w) PROVE Kept
    BY <1>0, <2>19, SMTT(30), Z3T(30)
    DEF TypeOK, LeaveLinear, Return, Goto, OwnsRange, reader
  <2>20. Kept
    BY ZenonT(30), <1>4, <2>1, <2>2, <2>3, <2>4, <2>5, <2>6, <2>7, <2>8,
       <2>9, <2>10, <2>11, <2>12, <2>13, <2>14, <2>15, <2>16,
       <2>17, <2>18, <2>19
    DEF WriterStep
  <2> QED
    BY <1>1, <2>20, RangesUntouched, ZenonT(30) DEF Indices
<1> QED
  BY <1>2, <1>3, <1>4, ZenonT(30)

(* The reader's side changes the indices only in Switch, on the block that *)
(* no writer can be on.                                                    *)
LEMMA IdleBlockUnowned ==
  ASSUME Arbitration, NEW b \in Blocks, b # ActiveBlock, rpc # "LoadWriters"
  PROVE  /\ \A w \in Writers : OwnsRange(w) => block[w] # b
         /\ Cardinality(Owned(b)) = 0
<1>1. \A w \in Writers : OwnsRange(w) => Claims(w, block[w])
  BY ZenonT(30) DEF OwnsRange, Claims, HoldsBlock
<1>2. \A w \in Writers : OwnsRange(w) => block[w] # b
  BY <1>1, ZenonT(30) DEF Arbitration, WinnersActive, TypeOK
<1>3. Owned(b) = {}
  BY <1>2, ZenonT(30) DEF Owned
<1> QED
  BY <1>2, <1>3, FS_EmptySet, ZenonT(30)

(* Every step of the reader keeps the invariant on the indices.            *)
LEMMA ReaderIndices ==
  ASSUME Arbitration, Indices, ReaderStep
  PROVE  Indices'
<1>0. /\ UNCHANGED writer
      /\ \A w \in Writers : /\ OwnsRange(w)' = OwnsRange(w)
                            /\ Total(w)' = Total(w)
      /\ \A b \in Blocks : /\ Admitted(b)' = Admitted(b)
                           /\ Committed(b)' = Committed(b)
                           /\ Owned(b)' = Owned(b)
  <2>1. UNCHANGED writer
    BY ZenonT(30) DEF ReaderStep, SwitchResetAcquired, SwitchResetWritten,
       SwitchIncrement, LoadWriters, LoadWritten, CompareAcquired,
       CreateLinearReader, Read, ReadEnd, ReadRecord, ReadFailedAcquisition,
       FinishReading
  <2>2. \A w \in Writers : OwnsRange(w)' = OwnsRange(w) /\ Total(w)' = Total(w)
    BY <2>1, ZenonT(30) DEF writer, OwnsRange, Total
  <2> QED
    BY <2>1, <2>2, ZenonT(30) DEF writer, Admitted, Committed, Owned
<1>1. LimitKept' /\ LengthsChecked' /\ RangesDisjoint'
  BY <1>0, ZenonT(30)
  DEF Indices, LimitKept, LengthsChecked, RangesDisjoint, writer
<1>a. TypeOK
  BY ZenonT(30) DEF Arbitration
<1>2. CASE SwitchResetAcquired
  <2>1. PICK r \in Blocks : r = GetOppositeLinearControlBlock(ActiveBlock)
    BY <1>a, ActiveBlocks, ZenonT(30)
  <2>2. /\ acquired_index'[r] = 0
        /\ \A b \in Blocks \ {r} : acquired_index'[b] = acquired_index[b]
        /\ UNCHANGED <<written_index, switch_count>>
        /\ rpc = "Idle" /\ rpc' = "SwitchResetWritten"
    BY <1>2, <1>a, <2>1, ZenonT(30) DEF SwitchResetAcquired, TypeOK
  <2>3. ActiveBlock' = ActiveBlock /\ r # ActiveBlock
    BY <1>a, <2>1, <2>2, ActiveBlocks, ZenonT(30) DEF ActiveBlock
  <2>4. \A w \in Writers : OwnsRange(w) => block[w] # r
    BY <2>2, <2>3, IdleBlockUnowned, ZenonT(30)
  <2>5. RangesBelow'
    BY <1>0, <1>a, <2>2, <2>4, ZenonT(30)
    DEF Indices, RangesBelow, writer, TypeOK
  <2>6. RoomLeft'
    <3>1. PICK t \in Nat : t = GetMaxAcquireLengthBytes + GetLengthOffsetBytes
      BY QueueAssumption, SMTT(30), Z3T(30)
    <3>2. /\ Cardinality(Committed(r)) * t \in Nat
          /\ acquired_index[r] \in Nat /\ LengthMax \in Nat
          /\ acquired_index[r] + Cardinality(Committed(r)) * t <= LengthMax
      <4>1. Cardinality(Committed(r)) * t \in Nat
        BY <3>1, AdmittedFinite, ProductType, ZenonT(30)
      <4>2. acquired_index[r] \in 0 .. LengthMax
        BY <1>a, ZenonT(30) DEF TypeOK
      <4>3. LengthMax \in Nat /\ acquired_index[r] \in Nat
        BY <4>2, QueueAssumption, SMTT(30), Z3T(30)
      <4> QED
        BY <3>1, <4>1, <4>3, ZenonT(30) DEF Indices, RoomLeft
    <3>3. 0 + Cardinality(Committed(r)) * t <= LengthMax
      BY <3>2, SMTT(30), Z3T(30)
    <3>4. \A b \in Blocks \ {r} :
            acquired_index'[b] + Cardinality(Committed(b)') * t <= LengthMax
      BY <1>0, <2>2, <3>1, ZenonT(30) DEF Indices, RoomLeft
    <3>5. acquired_index'[r] + Cardinality(Committed(r)') * t <= LengthMax
      BY <1>0, <2>2, <3>3, ZenonT(30)
    <3> QED
      BY <3>1, <3>4, <3>5, ZenonT(30) DEF RoomLeft
  <2>7. BytesCounted'
    <3>1. Resetting(r)' /\ \A b \in Blocks \ {r} : ~Resetting(b)' /\ ~Resetting(b)
      BY <2>1, <2>2, <2>3, ZenonT(30) DEF Resetting
    <3>2. \A b \in Blocks \ {r} :
            written_index'[b] + Cardinality(Owned(b)') = acquired_index'[b]
      BY <1>0, <2>2, <3>1, ZenonT(30) DEF Indices, BytesCounted
    <3> QED
      BY <2>2, <3>1, <3>2, ZenonT(30) DEF BytesCounted
  <2> QED
    BY <1>1, <2>5, <2>6, <2>7, ZenonT(30) DEF Indices
<1>3. CASE SwitchResetWritten
  <2>1. PICK r \in Blocks : r = GetOppositeLinearControlBlock(ActiveBlock)
    BY <1>a, ActiveBlocks, ZenonT(30)
  <2>2. /\ written_index'[r] = 0
        /\ \A b \in Blocks \ {r} : written_index'[b] = written_index[b]
        /\ UNCHANGED <<acquired_index, switch_count>>
        /\ rpc = "SwitchResetWritten" /\ rpc' = "SwitchIncrement"
    BY <1>3, <1>a, <2>1, ZenonT(30) DEF SwitchResetWritten, TypeOK
  <2>3. RangesBelow' /\ RoomLeft'
    BY <1>0, <2>2, ZenonT(30) DEF Indices, RangesBelow, RoomLeft, writer
  <2>4. Cardinality(Owned(r)) = 0
    BY <1>a, <2>1, <2>2, ActiveBlocks, IdleBlockUnowned, ZenonT(30)
  <2>5. Resetting(r) /\ \A b \in Blocks : ~Resetting(b)' /\ (Resetting(b) => b = r)
    BY <2>1, <2>2, ZenonT(30) DEF Resetting
  <2>6. acquired_index[r] = 0
    BY <2>5, ZenonT(30) DEF Indices, BytesCounted
  <2>7. written_index'[r] + Cardinality(Owned(r)') = acquired_index'[r]
    BY <1>0, <2>2, <2>4, <2>6, SMTT(30), Z3T(30)
  <2>8. \A b \in Blocks \ {r} :
          written_index'[b] + Cardinality(Owned(b)') = acquired_index'[b]
    BY <1>0, <2>2, <2>5, ZenonT(30) DEF Indices, BytesCounted
  <2>9. BytesCounted'
    BY <2>5, <2>7, <2>8, ZenonT(30) DEF BytesCounted
  <2> QED
    BY <1>1, <2>3, <2>9, ZenonT(30) DEF Indices
<1>4. ASSUME \/ SwitchIncrement \/ LoadWriters \/ LoadWritten
             \/ CompareAcquired \/ CreateLinearReader \/ Read
      PROVE  Indices'
  <2>1. /\ UNCHANGED <<acquired_index, written_index>>
        /\ rpc # "SwitchResetWritten" /\ rpc' # "SwitchResetWritten"
    BY <1>4, ZenonT(30)
    DEF SwitchIncrement, LoadWriters, LoadWritten, CompareAcquired,
       CreateLinearReader, Read, ReadEnd, ReadRecord, ReadFailedAcquisition,
       FinishReading, control
  <2>2. RangesBelow' /\ RoomLeft'
    BY <1>0, <2>1, ZenonT(30) DEF Indices, RangesBelow, RoomLeft, writer
  <2>3. BytesCounted'
    BY <1>0, <2>1, ZenonT(30) DEF Indices, BytesCounted, Resetting
  <2> QED
    BY <1>1, <2>2, <2>3, ZenonT(30) DEF Indices
<1> QED
  BY <1>2, <1>3, <1>4, ZenonT(30) DEF ReaderStep

-----------------------------------------------------------------------------
(* The theorems.                                                           *)

(* The indices start at zero, and nobody owns a byte.                      *)
LEMMA InitIndices ==
  Init => Indices
<1> SUFFICES ASSUME Init PROVE Indices
  BY ZenonT(30)
<1>1. \A w \in Writers : pc[w] = "Idle"
  BY ZenonT(30) DEF Init
<1>2. \A b \in Blocks : /\ Admitted(b) = {} /\ Committed(b) = {}
                        /\ Owned(b) = {}
  BY <1>1, ZenonT(30) DEF Admitted, Committed, Owned, OwnsRange
<1>3. LengthsChecked /\ RangesBelow /\ RangesDisjoint
  BY <1>1, ZenonT(30) DEF LengthsChecked, RangesBelow, RangesDisjoint, OwnsRange
<1>c. \A b \in Blocks : Cardinality(Admitted(b)) = 0 /\ Cardinality(Owned(b)) = 0
  BY <1>2, FS_EmptySet, ZenonT(30)
<1>4. LimitKept
  <2>1. GetMaxNumberOfConcurrentWriters \in Nat
    BY QueueAssumption, ZenonT(30)
  <2> QED
    BY <1>c, <2>1 DEF LimitKept
<1>5. RoomLeft
  <2>1. \A t \in Nat : 0 + 0 * t <= LengthMax
    BY QueueAssumption
  <2>2. GetMaxAcquireLengthBytes + GetLengthOffsetBytes \in Nat
    BY QueueAssumption
  <2> QED
    BY <1>2, <2>1, <2>2, FS_EmptySet, ZenonT(30) DEF Init, RoomLeft
<1>6. BytesCounted
  BY <1>c DEF Init, BytesCounted, Resetting
<1> QED
  BY <1>3, <1>4, <1>5, <1>6, ZenonT(30) DEF Indices

(* The invariant on the indices is about the variables only.               *)
LEMMA StutterIndices ==
  ASSUME Indices, UNCHANGED vars
  PROVE  Indices'
<1>1. \A w \in Writers : OwnsRange(w)' = OwnsRange(w)
  BY ZenonT(30) DEF vars, writer, OwnsRange
<1>2. RangesBelow' /\ RangesDisjoint' /\ BytesCounted'
  BY <1>1, RangesUntouched, ZenonT(30)
  DEF Indices, vars, control, writer, reader
<1>3. \A b \in Blocks : Admitted(b)' = Admitted(b) /\ Committed(b)' = Committed(b)
  BY ZenonT(30) DEF vars, writer, Admitted, Committed
<1>4. LimitKept' /\ LengthsChecked' /\ RoomLeft'
  BY <1>3, ZenonT(30)
  DEF Indices, LimitKept, LengthsChecked, RoomLeft, vars, control, writer
<1> QED
  BY <1>2, <1>4, ZenonT(30) DEF Indices

(* Every step keeps the invariant on the indices.                          *)
LEMMA NextIndices ==
  Arbitration /\ Indices /\ [Next]_vars => Indices'
<1> SUFFICES ASSUME Arbitration, Indices, [Next]_vars PROVE Indices'
  BY ZenonT(30)
<1>1. ASSUME NEW w \in Writers, WriterStep(w) PROVE Indices'
  BY <1>1, WriterIndices, ZenonT(30)
<1>2. CASE ReaderStep
  BY <1>2, ReaderIndices, ZenonT(30)
<1>3. CASE UNCHANGED vars
  BY <1>3, StutterIndices, ZenonT(30)
<1> QED
  BY <1>1, <1>2, <1>3, ZenonT(30) DEF Next

(* The indices of the blocks are exact in every reachable state: the       *)
(* ranges of the writers are below acquired_index, disjoint, and counted   *)
(* by written_index (Acquire, Release).                                    *)
THEOREM IndicesInvariant == Spec => [](Arbitration /\ Indices)
<1>1. Init => Arbitration /\ Indices
  BY InitArbitration, InitIndices, ZenonT(30)
<1>2. Arbitration /\ Indices /\ [Next]_vars => (Arbitration /\ Indices)'
  BY NextArbitration, NextIndices, ZenonT(30)
<1> QED
  BY <1>1, <1>2, PTL DEF Spec

(* No two writers own a common byte of a buffer: the bytes between offset  *)
(* and offset + length + prefix that fetch_add on acquired_index gives to  *)
(* a writer stay its own until it has added them to written_index.         *)
THEOREM DisjointRanges == Spec => []RangesDisjoint
<1>1. Indices => RangesDisjoint
  BY ZenonT(30) DEF Indices
<1> QED
  BY <1>1, IndicesInvariant, PTL

(* When the last writer has left the block that was handed over, its       *)
(* written_index equals its acquired_index, failed acquisitions included:  *)
(* the comparison in IsBlockReleasedByWriters cannot fail for good.        *)
THEOREM WrittenComplete == Spec => []WrittenCatchesUp
<1>1. Arbitration /\ Indices => WrittenCatchesUp
  <2> SUFFICES ASSUME Arbitration, Indices, rpc # "SwitchResetWritten",
                      \A w \in Writers : ~(HoldsBlock(w) /\ block[w] = ReadBlock)
               PROVE  written_index[ReadBlock] = acquired_index[ReadBlock]
    BY ZenonT(30) DEF WrittenCatchesUp
  <2>1. ReadBlock \in Blocks
    BY ActiveBlocks, ZenonT(30) DEF Arbitration
  <2>2. Owned(ReadBlock) = {}
    BY ZenonT(30) DEF Owned, OwnsRange, HoldsBlock
  <2>3. written_index[ReadBlock] + 0 = acquired_index[ReadBlock]
    BY <2>1, <2>2, FS_EmptySet, ZenonT(30) DEF Indices, BytesCounted, Resetting
  <2> QED
    BY <2>1, <2>3, SMTT(30), Z3T(30) DEF Arbitration, TypeOK
<1> QED
  BY <1>1, IndicesInvariant, PTL

(* The running indices never wrap around: acquired_index and written_index *)
(* go back only when Switch resets them to zero.  Fewer than               *)
(* GetMaxNumberOfConcurrentWriters writers are between the check of        *)
(* acquired_index and its fetch_add, each adds at most one maximal record, *)
(* and written_index stays below acquired_index.                           *)
THEOREM NoIndexWraps == Spec => IndicesNeverWrap
<1>1. Arbitration /\ Indices /\ [Next]_vars =>
        [/\ \A b \in Blocks : \/ acquired_index'[b] >= acquired_index[b]
                              \/ rpc = "Idle" /\ acquired_index'[b] = 0
         /\ \A b \in Blocks : \/ written_index'[b] >= written_index[b]
                              \/ rpc = "SwitchResetWritten" /\ written_index'[b] = 0
        ]_vars
  <2> SUFFICES ASSUME Arbitration, Indices, Next
               PROVE  \A b \in Blocks :
                        /\ \/ acquired_index'[b] >= acquired_index[b]
                           \/ rpc = "Idle" /\ acquired_index'[b] = 0
                        /\ \/ written_index'[b] >= written_index[b]
                           \/ rpc = "SwitchResetWritten" /\ written_index'[b] = 0
    BY ZenonT(30)
  <2>0. \A b \in Blocks : acquired_index[b] \in Nat /\ written_index[b] \in Nat
    BY DEF Arbitration, TypeOK
  <2>1. ASSUME NEW w \in Writers, FetchAdd(w)
        PROVE  \A b \in Blocks : /\ acquired_index'[b] >= acquired_index[b]
                                 /\ written_index'[b] >= written_index[b]
    <3>1. Total(w) \in Nat /\ UNCHANGED written_index
      BY <2>1, TotalType, ZenonT(30) DEF Arbitration, FetchAdd
    <3>2. \A b \in Blocks : acquired_index'[b] =
            IF b = block[w] THEN acquired_index[b] + Total(w)
            ELSE acquired_index[b]
      BY <2>1, FetchAddExact, ZenonT(30) DEF Arbitration, Indices
    <3> QED
      BY <2>0, <3>1, <3>2, SMTT(30), Z3T(30)
  <2>2. ASSUME NEW w \in Writers, TerminateWritten(w) \/ AddWritten(w)
        PROVE  \A b \in Blocks : /\ acquired_index'[b] >= acquired_index[b]
                                 /\ written_index'[b] >= written_index[b]
    <3>1. Total(w) \in Nat /\ UNCHANGED acquired_index
      BY <2>2, TotalType, ZenonT(30)
      DEF Arbitration, TerminateWritten, AddWritten
    <3>2. \A b \in Blocks : written_index'[b] =
            IF b = block[w] THEN written_index[b] + Total(w)
            ELSE written_index[b]
      BY <2>2, WriteExact, ZenonT(30) DEF Indices
    <3> QED
      BY <2>0, <3>1, <3>2, SMTT(30), Z3T(30)
  <2>3. ASSUME NEW w \in Writers, WriterStep(w), ~FetchAdd(w),
               ~TerminateWritten(w), ~AddWritten(w)
        PROVE  UNCHANGED <<acquired_index, written_index>>
    BY <2>3, ZenonT(30)
    DEF WriterStep, StartAcquire, MarkCandidate, CheckSwitch,
       UnmarkLost, MarkOpposite, RecheckSwitch, UnmarkCandidate, UnmarkBoth,
       UnmarkOpposite, EnterLinear, LoadConcurrency, LoadAcquired,
       TerminateLength, LeaveFailed, ReleaseFailed, WriteLength, ReleaseBlock,
       WritePayload, LeaveLinear, control
  <2>4. CASE SwitchResetAcquired
    BY <2>0, <2>4, SMTT(30), Z3T(30)
    DEF SwitchResetAcquired, Arbitration, TypeOK
  <2>5. CASE SwitchResetWritten
    BY <2>0, <2>5, SMTT(30), Z3T(30) DEF SwitchResetWritten, Arbitration, TypeOK
  <2>6. ASSUME ReaderStep, ~SwitchResetAcquired, ~SwitchResetWritten
        PROVE  UNCHANGED <<acquired_index, written_index>>
    BY <2>6, ZenonT(30)
    DEF ReaderStep, SwitchIncrement, LoadWriters, LoadWritten,
       CompareAcquired, CreateLinearReader, Read, ReadEnd, ReadRecord,
       ReadFailedAcquisition, FinishReading, control
  <2>7. ASSUME NEW w \in Writers, WriterStep(w)
        PROVE  \A b \in Blocks : /\ acquired_index'[b] >= acquired_index[b]
                                 /\ written_index'[b] >= written_index[b]
    <3>1. CASE FetchAdd(w)
      BY <2>1, <3>1, ZenonT(30)
    <3>2. CASE TerminateWritten(w) \/ AddWritten(w)
      BY <2>2, <3>2, ZenonT(30)
    <3>3. ASSUME ~FetchAdd(w), ~TerminateWritten(w), ~AddWritten(w)
          PROVE  \A b \in Blocks : /\ acquired_index'[b] >= acquired_index[b]
                                   /\ written_index'[b] >= written_index[b]
      <4>1. UNCHANGED <<acquired_index, written_index>>
        BY <2>3, <2>7, <3>3, ZenonT(30)
      <4> QED
        BY <2>0, <4>1
    <3> QED
      BY <3>1, <3>2, <3>3, ZenonT(30)
  <2>8. ASSUME ReaderStep, ~SwitchResetAcquired, ~SwitchResetWritten
        PROVE  \A b \in Blocks : /\ acquired_index'[b] >= acquired_index[b]
                                 /\ written_index'[b] >= written_index[b]
    <3>1. UNCHANGED <<acquired_index, written_index>>
      BY <2>6, <2>8, ZenonT(30)
    <3> QED
      BY <2>0, <3>1
  <2> QED
    BY <2>4, <2>5, <2>7, <2>8, ZenonT(30) DEF Next
<1> QED
  BY <1>1, IndicesInvariant, PTL DEF Spec, IndicesNeverWrap

=============================================================================
