---------------------- MODULE AlternatingQueueRelaxed ----------------------
(***************************************************************************)
(* AlternatingQueue with the memory order of the code.  AcquireBlock marks *)
(* its candidate with number_of_writers.fetch_add(1, memory_order_acquire) *)
(* and then loads the switch counter.  An acquire read-modify-write does   *)
(* not order its store before later loads of other locations, so on        *)
(* aarch64 (one of the platforms in .bazelrc) the load may take its value  *)
(* before the other process can see the mark.                              *)
(***************************************************************************)
EXTENDS MCAlternatingQueue

(* The load of the counter overtakes the mark and finds the loaded value.  *)
CheckBeforeMark(w) ==
  /\ pc[w] = "MarkCandidate"
  /\ switch_count = loaded[w]
  /\ Goto(w, "MarkLate")
  /\ UNCHANGED <<control, data, loaded, block, offset, length, number, reader,
                 history>>

MarkLate(w) ==
  /\ pc[w] = "MarkLate"
  /\ AddWriters(Candidate(w), 1)
  /\ block' = [block EXCEPT ![w] = Candidate(w)]
  /\ Goto(w, "EnterLinear")
  /\ UNCHANGED <<switch_count, acquired_index, written_index, data, loaded,
                 offset, length, number, reader, history>>

RelaxedNext == Next \/ \E w \in Writers : CheckBeforeMark(w) \/ MarkLate(w)

RelaxedSpec == Init /\ [][RelaxedNext]_vars

=============================================================================
