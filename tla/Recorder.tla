------------------------------ MODULE Recorder ------------------------------
(***************************************************************************)
(* Verbose logging inside an application.  A log stream of a thread starts *)
(* a record, adds arguments to it and stops it; the record lives in a slot *)
(* of the backend meanwhile.  DLTFormat encodes an argument into the       *)
(* payload of the slot if it fits.  StartRecord also lets the              *)
(* StatisticsReporter report, through the recorder itself, every interval. *)
(*                                                                         *)
(* A payload is a sequence of cells: the type info of an argument, the     *)
(* length of a string or raw buffer, its bytes one by one, or a number.    *)
(* A cell carries the position of its argument in what the thread logged.  *)
(***************************************************************************)
EXTENDS Integers, Sequences, FiniteSets, Functions

CONSTANTS
  LogThreads,      \* threads that log
  Slots,           \* slots of the backend
  LogLevels,       \* levels used, 0 is kOff
  Threshold,       \* configured log level
  Arguments,       \* what is logged: kind and size
  Capacity,        \* slot size
  TypeInfoSize, LengthSize, LengthMax,   \* 4, 2 and 2^16 - 1 in the code
  MaxArgs,         \* arguments a record may have (255, external)
  MaxFilePayload,  \* payload whose length the header of a file message can tell
  ReportInterval,  \* kStatisticsReportInterval
  MaxRecords, MaxTime, MaxLogs   \* bounds: records of a thread, clock, arguments logged per record

ASSUME RecorderAssumption ==
  /\ Arguments \subseteq [kind : {"number", "string", "raw"}, size : Nat]
  /\ {Capacity, TypeInfoSize, LengthSize, LengthMax, MaxArgs, MaxFilePayload,
      ReportInterval} \subseteq Nat \ {0}
  /\ {MaxRecords, MaxTime, MaxLogs} \subseteq Nat

VARIABLES
  backend,      \* "datarouter" or "file"
  slots,        \* records in the slots
  logger,       \* per thread: where it is
  clock,
  no_slot_available_counter_, message_too_long_counter_,
  last_report_time_, currently_reporting_,
  reports,      \* statistics published: pairs of counters, in order
  builder,      \* file backend: slots flushed, message and phase of DltMessageBuilder
  file          \* spans written to the file

recorderVars == <<backend, slots, logger, clock, no_slot_available_counter_,
                  message_too_long_counter_, last_report_time_, currently_reporting_,
                  reports, builder, file>>
statistics == <<no_slot_available_counter_, message_too_long_counter_, last_report_time_,
                currently_reporting_, reports>>
output == <<builder, file>>

Free == "free"
NoSlot == "none"
FreeSlot == [owner |-> Free, level |-> 0, num_of_args |-> 0, payload |-> <<>>]
NewBuilder == [queue |-> <<>>, record |-> NoSlot, phase |-> "header", header |-> <<>>, count |-> 0]
LoggerIdle(n) == [pc |-> "idle", records |-> n]

RecorderInit ==
  /\ backend \in {"datarouter", "file"}
  /\ slots = [s \in Slots |-> FreeSlot]
  /\ logger = [t \in LogThreads |-> LoggerIdle(0)]
  /\ clock = 0
  /\ no_slot_available_counter_ = 0 /\ message_too_long_counter_ = 0
  /\ last_report_time_ = 0 /\ currently_reporting_ = FALSE
  /\ reports = <<>>
  /\ builder = NewBuilder
  /\ file = <<>>

-----------------------------------------------------------------------------
(* DLTFormat.                                                              *)

CellSize(c) ==
  CASE c.cell = "type" -> TypeInfoSize
    [] c.cell = "length" -> LengthSize
    [] c.cell = "value" -> c.size
    [] OTHER -> 1                                  \* "byte", "null"
SizeOf(cells) == FoldFunction(LAMBDA c, n : n + CellSize(c), 0, cells)
RemainingCapacity(payload) == Capacity - SizeOf(payload)

Min2(a, b) == IF a < b THEN a ELSE b

TypeInfo(kind, i) == <<[cell |-> "type", kind |-> kind, arg |-> i]>>
Length16(n, i) == <<[cell |-> "length", value |-> n, arg |-> i]>>
Bytes(n, i) == [k \in 1 .. n |-> [cell |-> "byte", at |-> k, arg |-> i]]
Null(i) == <<[cell |-> "null", arg |-> i]>>

LogData(size, i) == TypeInfo("number", i) \o <<[cell |-> "value", size |-> size, arg |-> i]>>

\* The overloads for bool, integers, hexadecimal and binary values; floating
\* point values have another type info.
LogNumber(size, i) == LogData(size, i)

ClampAddNullTerminator(n) == IF n < LengthMax THEN n + 1 ELSE n

(* Mutant: the length leaves the terminating null out.                     *)
TryStoreWithoutNull(size, max_string_len_incl_null, i) ==
  LET cropped == Min2(size, max_string_len_incl_null - 1)
  IN TypeInfo("string", i) \o Length16(cropped, i) \o Bytes(cropped, i) \o Null(i)

TryStore(size, max_string_len_incl_null, i) ==
  LET cropped == Min2(size, max_string_len_incl_null - 1)
  IN TypeInfo("string", i) \o Length16(ClampAddNullTerminator(cropped), i)
       \o Bytes(cropped, i) \o Null(i)

LogRaw(size, max_length, i) ==
  LET cropped == Min2(size, max_length)
  IN TypeInfo("raw", i) \o Length16(cropped, i) \o Bytes(cropped, i)

\* The cells for argument i, cropped to what remains; none if a string or raw
\* buffer has no room for a single byte behind its header.
Encode(arg, i, payload) ==
  LET after_header == RemainingCapacity(payload) - (TypeInfoSize + LengthSize)
      max_length == Min2(after_header, LengthMax)
  IN CASE arg.kind = "number" -> LogNumber(arg.size, i)
       [] arg.kind = "string" /\ after_header > 0 -> TryStore(arg.size, max_length, i)
       [] arg.kind = "raw" /\ after_header > 0 -> LogRaw(arg.size, max_length, i)
       [] OTHER -> <<>>

WillMessageFit(cells, payload) == SizeOf(cells) <= RemainingCapacity(payload)

\* All of it or nothing.
Store(cells, payload) ==
  IF cells # <<>> /\ WillMessageFit(cells, payload) THEN payload \o cells ELSE payload

-----------------------------------------------------------------------------
(* StatisticsReporter and StartRecord.  While a thread reports it runs     *)
(* StartRecord a second time, inside the first; "outer" is the level of    *)
(* the record it is going to start itself.                                 *)

LoggerAt(t) == logger[t].pc
LoggerGoto(t, pc) == [logger EXCEPT ![t].pc = pc]

BeginRecord(t, level, pc) ==
  /\ LoggerAt(t) = "idle" /\ logger[t].records < MaxRecords
  /\ logger' = [logger EXCEPT ![t] =
       [pc |-> pc, records |-> logger[t].records + 1, level |-> level, outer |-> level,
        reporting |-> FALSE, now |-> clock, inner |-> clock, slot |-> NoSlot, said |-> <<>>]]
  /\ UNCHANGED <<backend, slots, clock, statistics, output>>

StartRecord(t, level) == backend = "datarouter" /\ BeginRecord(t, level, "update")

\* The FileRecorder has no statistics.
StartFileRecord(t, level) == backend = "file" /\ BeginRecord(t, level, "reserve")

IncrementNoSlotAvailable == no_slot_available_counter_' = no_slot_available_counter_ + 1
IncrementMessageTooLong == message_too_long_counter_' = message_too_long_counter_ + 1

IsReportOverdue(now) == now - last_report_time_ >= ReportInterval

CheckOverdue(t) ==
  /\ LoggerAt(t) = "update"
  /\ LET now == IF logger[t].reporting THEN logger[t].inner ELSE logger[t].now IN
     logger' = LoggerGoto(t, IF IsReportOverdue(now) THEN "acquire report" ELSE "reserve")
  /\ UNCHANGED <<backend, slots, clock, statistics, output>>

ReportLevel == IF no_slot_available_counter_ > 0 \/ message_too_long_counter_ > 0 THEN 3 ELSE 4

(* Mutant: two threads may report at once.                                 *)
AcquireReportingUnguarded(t) ==
  /\ LoggerAt(t) = "acquire report"
  /\ IF logger[t].reporting
       THEN logger' = LoggerGoto(t, "reserve") /\ UNCHANGED currently_reporting_
       ELSE /\ currently_reporting_' = TRUE
            /\ logger' = [logger EXCEPT ![t] = [@ EXCEPT !.pc = "update", !.reporting = TRUE, !.inner = clock,
                 !.level = ReportLevel,
                 !.said = <<no_slot_available_counter_, message_too_long_counter_>>]]
  /\ UNCHANGED <<backend, slots, clock, no_slot_available_counter_, message_too_long_counter_,
                 last_report_time_, reports, output>>

\* compare_exchange_weak, which may also fail for no reason.  The thread that
\* succeeds loads the counters and starts the record of the report.
AcquireReporting(t) ==
  /\ LoggerAt(t) = "acquire report"
  /\ \/ /\ ~currently_reporting_
        /\ currently_reporting_' = TRUE
        /\ logger' = [logger EXCEPT ![t] = [@ EXCEPT !.pc = "update", !.reporting = TRUE, !.inner = clock,
             !.level = ReportLevel,
             !.said = <<no_slot_available_counter_, message_too_long_counter_>>]]
     \/ logger' = LoggerGoto(t, "reserve") /\ UNCHANGED currently_reporting_
  /\ UNCHANGED <<backend, slots, clock, no_slot_available_counter_, message_too_long_counter_,
                 last_report_time_, reports, output>>

IsLogEnabled(level) == level <= Threshold

\* After StartRecord without a slot: the stream of the thread logs nothing.
\* A thread that reports goes on to release the reporting state.
WithoutSlot(t) ==
  logger' = IF logger[t].reporting THEN LoggerGoto(t, "reported")
            ELSE [logger EXCEPT ![t] = LoggerIdle(@.records)]

CleanLogRecord(t, s, level) ==
  [owner |-> t, level |-> level, num_of_args |-> 0, payload |-> <<>>]

ReserveSlot(t) ==
  /\ LoggerAt(t) = "reserve"
  /\ \/ /\ ~IsLogEnabled(logger[t].level)
        /\ WithoutSlot(t) /\ UNCHANGED <<slots, no_slot_available_counter_>>
     \/ /\ IsLogEnabled(logger[t].level)
        /\ \E s \in Slots :
             /\ slots[s].owner = Free
             /\ slots' = [slots EXCEPT ![s] = CleanLogRecord(t, s, logger[t].level)]
             /\ logger' = [logger EXCEPT ![t] = [@ EXCEPT !.pc = "log", !.slot = s]]
        /\ UNCHANGED no_slot_available_counter_
     \/ /\ IsLogEnabled(logger[t].level)
        /\ \A s \in Slots : slots[s].owner # Free
        /\ IF backend = "datarouter" THEN IncrementNoSlotAvailable
           ELSE UNCHANGED no_slot_available_counter_
        /\ WithoutSlot(t) /\ UNCHANGED slots
  /\ UNCHANGED <<backend, clock, message_too_long_counter_, last_report_time_,
                 currently_reporting_, reports, output>>

\* DltArgumentCounter refuses an argument beyond MaxArgs; DLTFormat adds the
\* argument or does not.
ArgumentsFull(t) == slots[logger[t].slot].num_of_args = MaxArgs
Stored(t, arg) ==
  LET payload == slots[logger[t].slot].payload
  IN Store(Encode(arg, Len(logger[t].said) + 1, payload), payload)
Added(t, arg) ==
  ~ArgumentsFull(t) /\ Len(Stored(t, arg)) > Len(slots[logger[t].slot].payload)

AddArgument(t, arg) ==
  /\ LoggerAt(t) = "log" /\ ~logger[t].reporting
  /\ Len(logger[t].said) < MaxLogs
  /\ slots' = IF Added(t, arg)
       THEN [slots EXCEPT ![logger[t].slot] =
               [@ EXCEPT !.payload = Stored(t, arg), !.num_of_args = @ + 1]]
       ELSE slots
  /\ logger' = [logger EXCEPT ![t].said = Append(@, arg)]
  /\ UNCHANGED <<backend, clock, no_slot_available_counter_, last_report_time_,
                 currently_reporting_, reports, output>>

\* The DataRouterRecorder counts what does not fit, the FileRecorder does not.
Log(t, arg) ==
  /\ backend = "datarouter" /\ AddArgument(t, arg)
  /\ IF ArgumentsFull(t) \/ Added(t, arg) THEN UNCHANGED message_too_long_counter_
     ELSE IncrementMessageTooLong

LogToFile(t, arg) ==
  /\ backend = "file" /\ AddArgument(t, arg)
  /\ UNCHANGED message_too_long_counter_

\* StopRecord of the DataRouterRecorder: FlushSlot traces the record as
\* TypeRegistration describes, and releases the slot.
StopRecord(t) ==
  /\ LoggerAt(t) = "log" /\ ~logger[t].reporting /\ backend = "datarouter"
  /\ slots' = [slots EXCEPT ![logger[t].slot].owner = Free]
  /\ logger' = [logger EXCEPT ![t] = LoggerIdle(@.records)]
  /\ UNCHANGED <<backend, clock, statistics, output>>

\* The same at the end of a report.  A slot is taken to be large enough for it.
StopReport(t) ==
  /\ LoggerAt(t) = "log" /\ logger[t].reporting
  /\ slots' = [slots EXCEPT ![logger[t].slot].owner = Free]
  /\ reports' = Append(reports, logger[t].said)
  /\ logger' = LoggerGoto(t, "reported")
  /\ UNCHANGED <<backend, clock, no_slot_available_counter_, message_too_long_counter_,
                 last_report_time_, currently_reporting_, output>>

\* The time that is stored is the one at which the thread called Update.
StoreReportTime(t) ==
  /\ LoggerAt(t) = "reported"
  /\ last_report_time_' = logger[t].now
  /\ logger' = LoggerGoto(t, "release report")
  /\ UNCHANGED <<backend, slots, clock, no_slot_available_counter_, message_too_long_counter_,
                 currently_reporting_, reports, output>>

ReleaseReporting(t) ==
  /\ LoggerAt(t) = "release report"
  /\ currently_reporting_' = FALSE
  /\ logger' = [logger EXCEPT ![t] = [@ EXCEPT !.pc = "reserve", !.reporting = FALSE,
                                               !.level = logger[t].outer, !.slot = NoSlot, !.said = <<>>]]
  /\ UNCHANGED <<backend, slots, clock, no_slot_available_counter_, message_too_long_counter_,
                 last_report_time_, reports, output>>

TimePasses ==
  /\ clock < MaxTime
  /\ clock' = clock + 1
  /\ UNCHANGED <<backend, slots, logger, statistics, output>>

-----------------------------------------------------------------------------
(* The file backend (external) hands the flushed slots to the              *)
(* DltMessageBuilder one by one and writes the spans it gets.              *)

(* Mutant: the slot is free before the message is written.                 *)
StopRecordFreed(t) ==
  /\ LoggerAt(t) = "log" /\ backend = "file"
  /\ slots' = [slots EXCEPT ![logger[t].slot].owner = Free]
  /\ builder' = [builder EXCEPT !.queue = Append(@, logger[t].slot)]
  /\ logger' = [logger EXCEPT ![t] = LoggerIdle(@.records)]
  /\ UNCHANGED <<backend, clock, statistics, file>>

StopFileRecord(t) ==
  /\ LoggerAt(t) = "log" /\ backend = "file"
  /\ slots' = [slots EXCEPT ![logger[t].slot].owner = "flushed"]
  /\ builder' = [builder EXCEPT !.queue = Append(@, logger[t].slot)]
  /\ logger' = [logger EXCEPT ![t] = LoggerIdle(@.records)]
  /\ UNCHANGED <<backend, clock, statistics, file>>

ConstructStorageVerbosePacket(r, count) ==
  [span |-> "header", len |-> Min2(SizeOf(r.payload), MaxFilePayload),
   noar |-> r.num_of_args, mcnt |-> count]

SetNextMessage ==
  /\ builder.record = NoSlot /\ builder.queue # <<>>
  /\ LET s == Head(builder.queue) IN
     builder' = [builder EXCEPT !.queue = Tail(@), !.record = s, !.count = @ + 1,
                                !.header = ConstructStorageVerbosePacket(slots[s], builder.count)]
  /\ UNCHANGED <<backend, slots, logger, clock, statistics, file>>

GetNextSpan ==
  /\ builder.record # NoSlot
  /\ \/ /\ builder.phase = "header"
        /\ file' = Append(file, builder.header)
        /\ builder' = [builder EXCEPT !.phase = "payload"]
        /\ UNCHANGED slots
     \/ /\ builder.phase = "payload"
        /\ file' = Append(file, [span |-> "payload", cells |-> slots[builder.record].payload])
        /\ builder' = [builder EXCEPT !.phase = "reinitialize"]
        /\ UNCHANGED slots
     \/ /\ builder.phase = "reinitialize"
        /\ slots' = [slots EXCEPT ![builder.record] = [@ EXCEPT !.owner = Free, !.payload = <<>>]]
        /\ builder' = [builder EXCEPT !.phase = "header", !.record = NoSlot, !.header = <<>>]
        /\ UNCHANGED file
  /\ UNCHANGED <<backend, logger, clock, statistics>>

-----------------------------------------------------------------------------
RecorderNext ==
  \/ \E t \in LogThreads :
       \/ \E level \in LogLevels : StartRecord(t, level) \/ StartFileRecord(t, level)
       \/ CheckOverdue(t) \/ AcquireReporting(t) \/ ReserveSlot(t)
       \/ \E arg \in Arguments : Log(t, arg) \/ LogToFile(t, arg)
       \/ StopRecord(t) \/ StopReport(t) \/ StoreReportTime(t) \/ ReleaseReporting(t)
       \/ StopFileRecord(t)
  \/ TimePasses \/ SetNextMessage \/ GetNextSpan

RecorderSpec == RecorderInit /\ [][RecorderNext]_recorderVars

-----------------------------------------------------------------------------
(* What a receiver makes of a payload: it starts at a type info, and reads *)
(* as many cells as that and the length behind it tell.                    *)
TypePositions(p) == {i \in DOMAIN p : p[i].cell = "type"}
EndOf(p, i) == IF p[i].kind = "number" THEN i + 1 ELSE i + 1 + p[i + 1].value
ContentOK(p, i) ==
  CASE p[i].kind = "number" -> p[i + 1].cell = "value"
    [] p[i].kind = "string" -> /\ p[i + 1].cell = "length" /\ p[EndOf(p, i)].cell = "null"
                               /\ \A j \in i + 2 .. EndOf(p, i) - 1 : p[j].cell = "byte" /\ p[j].at = j - i - 1
    [] p[i].kind = "raw" -> /\ p[i + 1].cell = "length"
                            /\ \A j \in i + 2 .. EndOf(p, i) : p[j].cell = "byte" /\ p[j].at = j - i - 1

Decodes(p) ==
  /\ p # <<>> => 1 \in TypePositions(p)
  /\ \A i \in TypePositions(p) :
       /\ i < Len(p) /\ EndOf(p, i) <= Len(p)
       /\ ContentOK(p, i)
       /\ \A j \in i .. EndOf(p, i) : p[j].arg = p[i].arg
       /\ EndOf(p, i) = Len(p) \/ EndOf(p, i) + 1 \in TypePositions(p)

ContentLength(p, i) == Cardinality({j \in i .. EndOf(p, i) : p[j].cell = "byte"})

(* The payload of a record that a thread fills is always readable: a       *)
(* receiver that follows the types and lengths finds num_of_args arguments *)
(* and no byte between or behind them.  They are arguments the thread      *)
(* logged since StartRecord, in that order, none twice, and each is        *)
(* complete unless it was cropped at the end of the slot or at the largest *)
(* length.  Nothing of an earlier record of the slot is left, nothing of   *)
(* another thread gets in.                                                 *)
PayloadIsWhatWasLogged ==
  \A t \in LogThreads : (LoggerAt(t) = "log" /\ ~logger[t].reporting) =>
    LET r == slots[logger[t].slot]
        p == r.payload
    IN /\ r.owner = t
       /\ SizeOf(p) <= Capacity
       /\ Decodes(p)
       /\ r.num_of_args = Cardinality(TypePositions(p))
       /\ \A i, j \in TypePositions(p) : i < j => p[i].arg < p[j].arg
       /\ \A i \in TypePositions(p) :
            LET arg == logger[t].said[p[i].arg] IN
            /\ p[i].kind = arg.kind
            /\ (arg.kind # "number" /\ ContentLength(p, i) # arg.size) =>
                  \/ EndOf(p, i) = Len(p) /\ SizeOf(p) = Capacity
                  \/ p[i + 1].value = LengthMax

(* The statistics that are published never go back: a report shows at      *)
(* least what the one before it shows, although any thread may report and  *)
(* the counters are loaded before the report waits for a slot.             *)
ReportsGrow ==
  \A i, j \in DOMAIN reports : i < j =>
    reports[i][1] <= reports[j][1] /\ reports[i][2] <= reports[j][2]

(* A reader of the file finds every header followed by its payload, with   *)
(* the number of arguments and the length the header tells, however late   *)
(* the message is written after StopRecord and whoever asks for the slot   *)
(* meanwhile.  Beyond MaxFilePayload, which a slot can hold when its size  *)
(* is configured so, the header tells MaxFilePayload and the payload is    *)
(* written whole: there the reader loses its place (see TruncatedToMax).   *)
FileIsReadable ==
  \A i \in DOMAIN file :
    IF i % 2 = 1 THEN file[i].span = "header" /\ file[i].mcnt = (i - 1) \div 2
    ELSE /\ file[i].span = "payload" /\ Decodes(file[i].cells)
         /\ file[i - 1].noar = Cardinality(TypePositions(file[i].cells))
         /\ \/ file[i - 1].len = SizeOf(file[i].cells)
            \/ file[i - 1].len = MaxFilePayload /\ SizeOf(file[i].cells) > MaxFilePayload

(* "truncate the message to max size if the msg size is exceeding the      *)
(* available buffer size" (dlt_message_builder.cpp:88): no message of the  *)
(* file is longer than its header can tell.                                *)
TruncatedToMax ==
  \A i \in DOMAIN file : file[i].span = "payload" => SizeOf(file[i].cells) <= MaxFilePayload
=============================================================================
