---------------------------- MODULE LogTransport ----------------------------
(***************************************************************************)
(* What the queue between the threads of a logging client and the          *)
(* Datarouter promises (requirements 2 to 5 in                             *)
(* score/mw/log/detail/wait_free_producer_queue/README.md): a record that  *)
(* is accepted is delivered exactly once, intact, and in the order in      *)
(* which its writer wrote it; the records are handed over in batches, and  *)
(* a batch that is being read does not change.                             *)
(***************************************************************************)
EXTENDS Integers, Sequences

CONSTANTS
  Writers,    \* threads of the client
  Numbers     \* numbers of the records, increasing over time

VARIABLES
  open,       \* records accepted for the batch that is being filled
  sealed,     \* records of the batch handed over, not yet delivered
  phase,      \* "filling", "draining" (late writers finish) or "reading"
  delivered   \* the records delivered so far

transport == <<open, sealed, phase, delivered>>

Record(w, k) == <<"record", w, k>>
In(r, batch) == \E i \in DOMAIN batch : batch[i] = r

(* Writer w already has a later record than k somewhere.                   *)
Overtaken(w, k) ==
  \E j \in Numbers : /\ j >= k
                     /\ \/ Record(w, j) \in delivered
                        \/ In(Record(w, j), open)
                        \/ In(Record(w, j), sealed)

Init == /\ open = <<>> /\ sealed = <<>>
        /\ phase = "filling"
        /\ delivered = {}

AcceptOpen(w, k) ==
  /\ ~Overtaken(w, k)
  /\ open' = Append(open, Record(w, k))
  /\ UNCHANGED <<sealed, phase, delivered>>

(* A writer that started before the hand-over may still join its batch,    *)
(* unless that would overtake a record of its own.                         *)
AcceptSealed(w, k) ==
  /\ phase = "draining"
  /\ ~Overtaken(w, k)
  /\ \A j \in Numbers : ~In(Record(w, j), open)
  /\ sealed' = Append(sealed, Record(w, k))
  /\ UNCHANGED <<open, phase, delivered>>

Seal ==
  /\ phase = "filling"
  /\ sealed' = open
  /\ open' = <<>>
  /\ phase' = "draining"
  /\ UNCHANGED delivered

StartReading ==
  /\ phase = "draining"
  /\ phase' = "reading"
  /\ UNCHANGED <<open, sealed, delivered>>

Deliver ==
  /\ phase = "reading"
  /\ sealed # <<>>
  /\ delivered' = delivered \union {Head(sealed)}
  /\ sealed' = Tail(sealed)
  /\ UNCHANGED <<open, phase>>

FinishReading ==
  /\ phase = "reading"
  /\ sealed = <<>>
  /\ phase' = "filling"
  /\ UNCHANGED <<open, sealed, delivered>>

Next ==
  \/ \E w \in Writers, k \in Numbers : AcceptOpen(w, k) \/ AcceptSealed(w, k)
  \/ Seal \/ StartReading \/ Deliver \/ FinishReading

Spec == Init /\ [][Next]_transport

=============================================================================
