-------------------------- MODULE TypeRegistration --------------------------
(***************************************************************************)
(* Non-verbose tracing from the call of TRACE to the handlers of the       *)
(* Datarouter.  Every type has one LogEntry in the application.  It is     *)
(* built by the first thread that needs it and registers the type, which   *)
(* writes a record with the name and the identifier of the type into the   *)
(* shared memory.  A registration that finds no space is tried again by    *)
(* the next message, by several threads at once if they meet there.  In    *)
(* the Datarouter the LogParser of the session collects the registrations  *)
(* and hands every message to the handlers of its type.                    *)
(*                                                                         *)
(* The queue in between is the one AlternatingQueue describes: what is     *)
(* acquired is read in the order of acquisition, a block at a time, once   *)
(* every writer has released its part of the block.                        *)
(***************************************************************************)
EXTENDS Integers, Sequences, FiniteSets, Functions

CONSTANTS
  Threads,             \* threads of the application
  Types,               \* the types traced
  nvconfig_,           \* message descriptors: some types, each with ctx_id and level
  context_log_level,   \* configured thresholds: some contexts, each with a level
  Levels,              \* levels used by the application
  BlockSize,           \* records that fit in one block
  IdModulus,           \* number of values of TypeIdentifier (2^16 in the code)
  MaxCalls             \* bound on the calls of TRACE and TraceLevel

kInfo == 4
kVerbose == 6
RegisterTypeToken == IdModulus - 1

Nobody == "nobody"   \* the holder of a record that has been released

ASSUME TraceAssumption ==
  /\ IsFiniteSet(Threads) /\ IsFiniteSet(Types)
  /\ BlockSize \in Nat \ {0} /\ MaxCalls \in Nat
  /\ IdModulus \in Nat /\ IdModulus > Cardinality(Types) * Cardinality(Threads)
  /\ DOMAIN nvconfig_ \subseteq Types /\ Levels \subseteq Nat
  /\ \A T \in DOMAIN nvconfig_ : nvconfig_[T].level \in Nat
  /\ \A c \in DOMAIN context_log_level : context_log_level[c] \in Nat
  /\ Nobody \notin Threads

VARIABLES
  has_writer,         \* whether Logger has a shared_memory_writer_
  entry,              \* per type: "none", "constructing" or "built"
  shared_memory_id_,  \* per type
  type_identifier_,   \* next identifier of the writer
  thread,             \* per thread: where it is, the type, its record, its identifier
  open, sealed,       \* block being filled, block handed to the Datarouter
  phase,              \* "filling", or "reading" while sealed belongs to the Datarouter
  index_parser_map_,  \* LogParser: identifier -> type
  calls, handled,     \* per type: calls that passed the level, messages handled
  drops,              \* counters in the shared memory, shown by the Datarouter
  dropped_logs        \* per type: dropped_logs_due_to_failed_registration_

traceVars == <<has_writer, entry, shared_memory_id_, type_identifier_, thread, open,
               sealed, phase, index_parser_map_, calls, handled, drops,
               dropped_logs>>

ThreadIdle == [pc |-> "idle"]

TraceInit ==
  /\ has_writer \in BOOLEAN
  /\ entry = [T \in Types |-> "none"]
  /\ shared_memory_id_ = [T \in Types |-> RegisterTypeToken]
  /\ type_identifier_ = 0
  /\ thread = [t \in Threads |-> ThreadIdle]
  /\ open = <<>> /\ sealed = <<>> /\ phase = "filling"
  /\ index_parser_map_ = <<>>
  /\ calls = [T \in Types |-> 0] /\ handled = [T \in Types |-> 0]
  /\ drops = [buffer_full |-> 0, invalid_size |-> 0, registration_failed |-> 0]
  /\ dropped_logs = [T \in Types |-> 0]

-----------------------------------------------------------------------------
(* Levels.                                                                 *)

GetTypeLevel(T) == IF T \in DOMAIN nvconfig_ THEN nvconfig_[T].level ELSE kInfo

HasContextLevel(T) ==
  T \in DOMAIN nvconfig_ /\ nvconfig_[T].ctx_id \in DOMAIN context_log_level

GetTypeThreshold(T) ==
  IF HasContextLevel(T) THEN context_log_level[nvconfig_[T].ctx_id] ELSE kVerbose

Enabled(T) == GetTypeThreshold(T) >= GetTypeLevel(T)
EnabledAt(T, level) == GetTypeThreshold(T) >= level

-----------------------------------------------------------------------------
(* The shared memory writer.  A record of thread t stays "held" until t    *)
(* releases it; the block cannot be read before.                           *)

TraceAt(t) == thread[t].pc
TypeOf(t) == thread[t].type
TraceGoto(t, pc) == [thread EXCEPT ![t].pc = pc]

HasSpace == Len(open) < BlockSize

Acquire(t, record) ==
  open' = Append(open, [record EXCEPT !.holder = t])

\* The record of t in a block, changed by Change.
HeldIn(block, t) == {i \in DOMAIN block : block[i].holder = t}
Update(block, t, Change(_)) ==
  [i \in DOMAIN block |-> IF i \in HeldIn(block, t) THEN Change(block[i]) ELSE block[i]]
ChangeHeld(t, Change(_)) ==
  /\ open' = Update(open, t, Change)
  /\ sealed' = Update(sealed, t, Change)

Release(t) ==
  LET Free(r) == [r EXCEPT !.holder = Nobody] IN ChangeHeld(t, Free)

Registration(T) == [kind |-> "registration", type |-> T, id |-> RegisterTypeToken, holder |-> Nobody]
Message(T) == [kind |-> "message", type |-> T, id |-> shared_memory_id_[T], holder |-> Nobody]

DropBufferFull == drops' = [drops EXCEPT !.buffer_full = @ + 1]

-----------------------------------------------------------------------------
(* The application.                                                        *)

\* What is called once the LogEntry exists: the level is checked, then the
\* identifier.  A thread that finds the token registers the type itself.
BeginMessage(t, T, enabled) ==
  IF ~enabled
    THEN thread' = [thread EXCEPT ![t] = ThreadIdle] /\ UNCHANGED calls
    ELSE /\ calls' = [calls EXCEPT ![T] = @ + 1]
         /\ thread' = [thread EXCEPT ![t] =
              [pc |-> IF shared_memory_id_'[T] = RegisterTypeToken THEN "register" ELSE "serialize",
               type |-> T, enabled |-> enabled, id |-> RegisterTypeToken]]

Total(f) == FoldFunction(+, 0, f)
CallsLeft == Total(calls) < MaxCalls

\* GetLogEntry, then the check of the level.  The first caller builds the
\* LogEntry; callers that come meanwhile wait for it.
Trace(t, T, enabled) ==
  /\ TraceAt(t) = "idle"
  /\ CallsLeft
  /\ \/ /\ entry[T] = "built"
        /\ UNCHANGED <<entry, shared_memory_id_>>
        /\ BeginMessage(t, T, enabled)
     \/ /\ entry[T] = "none"
        /\ entry' = [entry EXCEPT ![T] = "constructing"]
        /\ thread' = [thread EXCEPT ![t] =
             [pc |-> "register", type |-> T, enabled |-> enabled, id |-> RegisterTypeToken]]
        /\ UNCHANGED <<shared_memory_id_, calls>>
  /\ UNCHANGED <<has_writer, type_identifier_, open, sealed, phase, index_parser_map_,
                 handled, drops, dropped_logs>>

TRACE(t, T) == Trace(t, T, Enabled(T))
TraceLevel(t, T, level) == Trace(t, T, EnabledAt(T, level))

\* TraceVerbose ... TraceFatal: one function for each level.
TraceAtSomeLevel(t) == \E T \in Types, level \in Levels : TraceLevel(t, T, level)

\* t is in the constructor of the LogEntry of its type.
Constructs(t) == entry[TypeOf(t)] = "constructing"

\* The constructor stores the identifier, or the token, and the call goes on.
EndConstruction(t, id) ==
  /\ entry' = [entry EXCEPT ![TypeOf(t)] = "built"]
  /\ shared_memory_id_' = [shared_memory_id_ EXCEPT ![TypeOf(t)] = id]
  /\ BeginMessage(t, TypeOf(t), thread[t].enabled)

RegisterTypeAcquires(t) ==
  /\ TraceAt(t) = "register"
  /\ has_writer /\ HasSpace
  /\ Acquire(t, Registration(TypeOf(t)))
  /\ thread' = TraceGoto(t, "fetch")
  /\ UNCHANGED <<has_writer, entry, shared_memory_id_, type_identifier_, sealed, phase,
                 index_parser_map_, calls, handled, drops, dropped_logs>>

\* No writer, or no space.  A LogEntry is built without identifier then.
ConstructionFails(t) ==
  /\ TraceAt(t) = "register" /\ Constructs(t)
  /\ ~(has_writer /\ HasSpace)
  /\ IF has_writer THEN DropBufferFull ELSE UNCHANGED drops
  /\ EndConstruction(t, RegisterTypeToken)
  /\ UNCHANGED <<has_writer, type_identifier_, open, sealed, phase, index_parser_map_,
                 handled, dropped_logs>>

\* The counters are those of the fallback writer if there is no other.
CountRegistrationFailed ==
  drops' = IF has_writer
             THEN [drops EXCEPT !.buffer_full = @ + 1, !.registration_failed = @ + 1]
             ELSE drops

(* Mutant: a message whose type cannot be registered is dropped uncounted. *)
RegistrationFailsUncounted(t) ==
  /\ TraceAt(t) = "register" /\ ~Constructs(t)
  /\ ~(has_writer /\ HasSpace)
  /\ CountRegistrationFailed
  /\ thread' = [thread EXCEPT ![t] = ThreadIdle]
  /\ UNCHANGED <<has_writer, entry, shared_memory_id_, type_identifier_, open, sealed, phase,
                 index_parser_map_, calls, handled, dropped_logs>>

\* A message that finds no identifier and cannot get one is dropped.
RegistrationFails(t) ==
  /\ TraceAt(t) = "register" /\ ~Constructs(t)
  /\ ~(has_writer /\ HasSpace)
  /\ dropped_logs' = [dropped_logs EXCEPT ![TypeOf(t)] = @ + 1]
  /\ CountRegistrationFailed
  /\ thread' = [thread EXCEPT ![t] = ThreadIdle]
  /\ UNCHANGED <<has_writer, entry, shared_memory_id_, type_identifier_, open, sealed, phase,
                 index_parser_map_, calls, handled>>

(* Mutant: the identifier is read and not advanced.                        *)
FetchTypeIdentifierOnly(t) ==
  /\ TraceAt(t) = "fetch"
  /\ LET WithId(r) == [r EXCEPT !.id = type_identifier_] IN ChangeHeld(t, WithId)
  /\ thread' = [thread EXCEPT ![t].pc = "release registration", ![t].id = type_identifier_]
  /\ UNCHANGED <<has_writer, entry, shared_memory_id_, type_identifier_, phase, index_parser_map_, calls,
                 handled, drops, dropped_logs>>

\* The payload of the registration: the next identifier, the name of the type.
FetchTypeIdentifier(t) ==
  /\ TraceAt(t) = "fetch"
  /\ type_identifier_' = (type_identifier_ + 1) % IdModulus
  /\ LET WithId(r) == [r EXCEPT !.id = type_identifier_] IN ChangeHeld(t, WithId)
  /\ thread' = [thread EXCEPT ![t].pc = "release registration", ![t].id = type_identifier_]
  /\ UNCHANGED <<has_writer, entry, shared_memory_id_, phase, index_parser_map_, calls,
                 handled, drops, dropped_logs>>

ReleaseRegistration(t) ==
  /\ TraceAt(t) = "release registration"
  /\ Release(t)
  /\ IF Constructs(t) THEN EndConstruction(t, thread[t].id)
     ELSE thread' = TraceGoto(t, "update") /\ UNCHANGED <<entry, shared_memory_id_, calls>>
  /\ UNCHANGED <<has_writer, type_identifier_, phase, index_parser_map_, handled, drops, dropped_logs>>

\* Several threads may have registered the type.  The first one here wins.
UpdateSharedMemoryId(t) ==
  /\ TraceAt(t) = "update"
  /\ shared_memory_id_' = [shared_memory_id_ EXCEPT ![TypeOf(t)] =
                             IF @ = RegisterTypeToken THEN thread[t].id ELSE @]
  /\ thread' = TraceGoto(t, "serialize")
  /\ UNCHANGED <<has_writer, entry, type_identifier_, open, sealed, phase, index_parser_map_,
                 calls, handled, drops, dropped_logs>>

AllocAndWrite(t) ==
  /\ TraceAt(t) = "serialize"
  /\ IF HasSpace
       THEN /\ Acquire(t, Message(TypeOf(t)))
            /\ thread' = TraceGoto(t, "release message")
            /\ UNCHANGED drops
       ELSE /\ DropBufferFull
            /\ thread' = [thread EXCEPT ![t] = ThreadIdle]
            /\ UNCHANGED open
  /\ UNCHANGED <<has_writer, entry, shared_memory_id_, type_identifier_, sealed, phase,
                 index_parser_map_, calls, handled, dropped_logs>>

\* A payload larger than GetMaxPayloadSize is not even tried.
DropInvalidSize(t) ==
  /\ TraceAt(t) = "serialize"
  /\ drops' = [drops EXCEPT !.invalid_size = @ + 1]
  /\ thread' = [thread EXCEPT ![t] = ThreadIdle]
  /\ UNCHANGED <<has_writer, entry, shared_memory_id_, type_identifier_, open, sealed, phase,
                 index_parser_map_, calls, handled, dropped_logs>>

ReleaseMessage(t) ==
  /\ TraceAt(t) = "release message"
  /\ Release(t)
  /\ thread' = [thread EXCEPT ![t] = ThreadIdle]
  /\ UNCHANGED <<has_writer, entry, shared_memory_id_, type_identifier_, phase,
                 index_parser_map_, calls, handled, drops, dropped_logs>>

-----------------------------------------------------------------------------
(* The Datarouter.                                                         *)

Switch ==
  /\ phase = "filling"
  /\ open # <<>>
  /\ sealed' = open /\ open' = <<>>
  /\ phase' = "reading"
  /\ UNCHANGED <<has_writer, entry, shared_memory_id_, type_identifier_, thread,
                 index_parser_map_, calls, handled, drops, dropped_logs>>

Released == \A i \in DOMAIN sealed : sealed[i].holder = Nobody

\* emplace: an identifier that is known keeps its type.
AddIncomingType(r) ==
  /\ index_parser_map_' = [id \in DOMAIN index_parser_map_ \union {r.id} |->
       IF id \in DOMAIN index_parser_map_ THEN index_parser_map_[id] ELSE r.type]
  /\ UNCHANGED handled

\* A message with an unknown identifier is ignored.
ParseSharedMemoryRecord(r) ==
  /\ handled' = IF r.id \in DOMAIN index_parser_map_
                  THEN [handled EXCEPT ![index_parser_map_[r.id]] = @ + 1]
                  ELSE handled
  /\ UNCHANGED index_parser_map_

\* ReadLinearBuffer, one record of the block.
ReadRecord ==
  /\ phase = "reading" /\ Released
  /\ sealed # <<>>
  /\ IF Head(sealed).kind = "registration" THEN AddIncomingType(Head(sealed))
                                           ELSE ParseSharedMemoryRecord(Head(sealed))
  /\ sealed' = Tail(sealed)
  /\ phase' = IF Len(sealed) = 1 THEN "filling" ELSE "reading"
  /\ UNCHANGED <<has_writer, entry, shared_memory_id_, type_identifier_, thread, open, calls,
                 drops, dropped_logs>>

-----------------------------------------------------------------------------
ThreadStep(t) ==
  \/ \E T \in Types : TRACE(t, T)
  \/ TraceAtSomeLevel(t)
  \/ RegisterTypeAcquires(t)
  \/ ConstructionFails(t)
  \/ RegistrationFails(t)
  \/ FetchTypeIdentifier(t)
  \/ ReleaseRegistration(t)
  \/ UpdateSharedMemoryId(t)
  \/ AllocAndWrite(t) \/ DropInvalidSize(t)
  \/ ReleaseMessage(t)

TraceNext == (\E t \in Threads : ThreadStep(t)) \/ Switch \/ ReadRecord

TraceSpec == TraceInit /\ [][TraceNext]_traceVars

-----------------------------------------------------------------------------
(* Properties.                                                             *)

Ids == 0 .. IdModulus - 1
Records == [kind : {"registration", "message"}, type : Types, id : Ids,
            holder : Threads \union {Nobody}]

Pcs == {"register", "fetch", "release registration", "update", "serialize", "release message"}

(* The state is well formed: a block never holds more records than fit, a  *)
(* thread holds at most one record, and holds one exactly between Acquire  *)
(* and Release of AllocAndWrite.                                           *)
TraceTypeOK ==
  /\ has_writer \in BOOLEAN
  /\ entry \in [Types -> {"none", "constructing", "built"}]
  /\ shared_memory_id_ \in [Types -> Ids] /\ type_identifier_ \in Ids
  /\ \A t \in Threads :
       /\ thread[t] = ThreadIdle \/ thread[t] \in [pc : Pcs, type : Types, enabled : BOOLEAN, id : Ids]
       /\ Cardinality(HeldIn(open, t)) + Cardinality(HeldIn(sealed, t))
            = IF TraceAt(t) \in {"fetch", "release registration", "release message"} THEN 1 ELSE 0
  /\ open \in Seq(Records) /\ Len(open) <= BlockSize
  /\ sealed \in Seq(Records) /\ Len(sealed) <= BlockSize
  /\ phase = IF sealed = <<>> THEN "filling" ELSE "reading"
  /\ \A id \in DOMAIN index_parser_map_ : index_parser_map_[id] \in Types

(* Every message the LogParser meets was preceded by the registration of   *)
(* its identifier, for the type of the message: ParseSharedMemoryRecord    *)
(* never drops a message silently (logparser.cpp:159), nor gives it to the *)
(* handlers of another type, however the registrations of several threads  *)
(* interleave.                                                             *)
EveryMessageIsKnown ==
  (phase = "reading" /\ Released /\ Head(sealed).kind = "message") =>
    /\ Head(sealed).id \in DOMAIN index_parser_map_
    /\ index_parser_map_[Head(sealed).id] = Head(sealed).type

(* A type is registered at most once per thread, so the 16-bit identifiers *)
(* never reach RegisterTypeToken, whatever the number of messages: a       *)
(* thread that lost the compare_exchange of UpdateSharedMemoryId does not  *)
(* register again.                                                         *)
IdentifiersSuffice ==
  type_identifier_ <= Cardinality(Types) * Cardinality(Threads)

InBuffers == Len(SelectSeq(open \o sealed, LAMBDA r : r.kind = "message"))
Pending == Cardinality({t \in Threads : TraceAt(t) \notin {"idle", "release message"} /\ ~Constructs(t)})
Lost == Total(calls) - Total(handled) - InBuffers - Pending

(* No message is lost unnoticed.  With a shared memory, the drops that the *)
(* Datarouter shows, of both kinds, are the lost messages, plus at most    *)
(* one for each type whose first registration failed; the failed           *)
(* registrations it shows are those the LogEntries count.  Without one,    *)
(* the LogEntries count them.                                              *)
LossesAreCounted ==
  IF has_writer
    THEN /\ LET shown == drops.buffer_full + drops.invalid_size
            IN Lost \in shown - Cardinality(Types) .. shown
         /\ drops.registration_failed = Total(dropped_logs)
    ELSE Lost = Total(dropped_logs)
=============================================================================
