# Verification of the logging framework

TLA+ models, TLC runs and TLAPS proofs for the logging client library (`score/mw/log`) and the
Datarouter daemon (`score/datarouter`). `PROJECT.json` lists the components, the runs, the mutants,
the source lines each definition stands for, the findings, the hazards and the theorems.

## The system

A logging client has many threads that write records. Records go into a shared-memory file with two
linear buffers. The Datarouter asks the client for a buffer over message passing (*acquire request*);
a callback in the client switches the buffers and answers with the counter of the buffer it gives
away (*acquire response*). The Datarouter waits until the writers have left that buffer, reads it,
and asks for the next one in a later tick. When a client is gone, the Datarouter reads what is left
in the file (*post-mortem* or *detached* read).

In the Datarouter a dispatch thread runs the callbacks of the message passing library. A worker
thread ticks the sessions and watches the deadlines of the acquire requests. Records that are read go
through the log parser to the DLT log server, which filters them and assigns them to channels; a
channel collects them in datagrams and sends them over UDP. Requests to transfer a file go to a
thread of their own. A Unix domain server takes configuration commands, on one thread. All of this is
built, and destroyed in the opposite order, by `SocketServer::DoWork`.

### Inventory

| Part | Code | Modules |
| --- | --- | --- |
| Wait-free producer queue | `mw/log/detail/wait_free_producer_queue` | `AlternatingQueue` |
| Shared memory writer and reader | `mw/log/detail/data_router/shared_memory` | `AcquireSession`, `TypeRegistration` |
| Shared memory file factories | `writer_factory.cpp`, `reader_factory_impl.cpp` | `SharedMemoryFile` |
| Message client | `data_router_message_client_impl.cpp` | `DatarouterMessageClient` |
| Recorders, DLT formatting, statistics reporter | `mw/log/detail` | `Recorder` |
| Tracing API, log parser | `mw/log/legacy_non_verbose_api`, `datarouter/src/logparser` | `TypeRegistration` |
| Message passing server | `message_passing_server.cpp` | `MessagePassingServer` |
| Source session | `datarouter/datarouter/data_router.cpp` | `MessagePassingServer`, `AcquireSession`, `SocketServer` |
| Socket server | `socketserver.cpp` | `SocketServer` |
| DLT log server, diagnostic jobs, configuration | `datarouter/src/daemon` | `DltLogServer` |
| DLT log channel | `dlt_log_channel.cpp`, `dlt_log_channel.h` | `DltLogChannel` |
| Unix domain server | `datarouter/src/unix_domain` | `UnixDomainServer` |
| File transfer | `datarouter/src/file_transfer` | `FileTransfer` |

`PROJECT.json` has the full list, with the status of each part and the reason for what is left out.

## Modules

| Module | Models |
| --- | --- |
| `AlternatingQueue` | writers, switch and reader of the two linear buffers, one action per atomic access |
| `LogTransport` | the abstract specification: accepted records are delivered once, intact, in order per writer |
| `AlternatingQueueRelaxed` | the queue with the memory order that `AcquireBlock` asks for |
| `MessagePassingServer` | the two threads of the server, its sessions' control state, the watchdog, the destructor |
| `AcquireSession` | one session's data path, from the client's threads to the records passed on |
| `Recorder` | verbose records in slots, their encoding, the file builder, the statistics reporter |
| `TypeRegistration` | registration of types by several threads, messages, and the parser that must know them |
| `SharedMemoryFile` | creating, replacing, mapping, opening and checking the shared memory file |
| `DatarouterMessageClient` | connect thread, callbacks and `Shutdown` of the client |
| `DltLogServer` | configuration commands, static and stored configuration, routing |
| `DltLogChannel` | the datagrams of one channel, its statistics, sends that fail |
| `SocketServer` | life of the daemon's objects, output switch, session creation, crash and restart; extends `DltLogServer` |
| `UnixDomainServer` | the configuration socket: poll, accept, receive, work queue, exit |
| `FileTransfer` | the queue of requests and the packages of each transfer |
| `...Proofs` | the proofs, see below |
| `MC...` | instances for TLC |

`AlternatingQueue` and `AcquireSession` are both shown to implement `LogTransport`. `AcquireSession`
uses two results of the others in place of their detail: a write is *choose, reserve, commit*
(`AlternatingQueue`), and one acquisition is outstanding at a time (`OneAcquisition` of
`MessagePassingServer`). These links are arguments in the text, not a checked composition.

### AlternatingQueue

State: the switch counter, and for each block `acquired_index`, `written_index`, `number_of_writers`
and the bytes. A writer's `pc` names its next access; `loaded`, `block`, `offset`, `length` are the
locals of `Acquire` and `Release`. The reader's `rpc` runs through `Switch` (done in the client, but
only on request of the reader, so the two are one sequential process), `IsBlockReleasedByWriters`,
`CreateLinearReader` and `LinearReader::Read`.

Bytes are abstracted to what they belong to: a length prefix of value n, or the payload of a record.
Bytes that are not one intact prefix are read as an arbitrary length, a payload with mixed bytes is
`Torn`. `attempts`, `accepted` and `delivered` are history. Accesses are sequentially consistent
here; `AlternatingQueueRelaxed` lets the check of the counter precede the mark, which an acquire
read-modify-write does not forbid.

### MessagePassingServer

What a thread does under `mutex_` is one action, except where it waits for a second lock. What the
worker does without `mutex_` is one action per access to shared state: `Notify`, `Tick`, `Finalize`,
`Read`, `Command`, `Request` and `Relock` are positions in `RunWorkerThread` and in
`SourceSession::Tick`. `wrapper` is `SessionWrapper` and `session` the control part of
`SourceSession`. Time is abstract: the 100 ms period and a deadline may be over at any point. With
`OutputMayBeOff` a tick may find `enabled_logging_at_server` false and send no request.

Clients are the environment. A process has one open connection at a time. `Notify` may succeed, fail,
or find its pool exhausted. Left out: `stop_source_` (the model accepts connections until
`receiver_.reset()`, the code refuses some of them), `connection_timeout_`, which no code sets to a
time, and `FinishPreviousSessionWhileLocked`, which no code calls.

### AcquireSession

A block is the sequence of records reserved in it. A request, the switch, the response and its
processing are one token, `exchange`. A client ends by `Shutdown` and `DetachWriter`, or by `Crash`;
messages arrive in order, so a response that was sent arrives before the close. A detached read does
not ask whether writers have left the block, so it may meet a reservation without a commit. What it
reads there is what lies beneath the reservation: `remains` has the records that earlier rounds left in
the block, and the read gives such a record once more, or `Garbage` where there is none. `quiet` and
`settled` are history: nothing was being written when the connection ended, and no switch was on its
way. With `OutputMayBeOff` the output may be off at any tick. A request is assumed to be sent (an
exhausted pool is a matter of `MessagePassingServer`).

### Recorder and TypeRegistration

A payload is a sequence of cells (type info, length, content, number), so that cropping, the capacity
of a slot and the maximal length of a string are visible. A slot is owned from `StartRecord` to the
release after the record was written. Reports of the statistics go through the recorder itself. The
header of a message in the file announces at most `MaxFilePayload`, while the builder writes the whole
payload after it; `FileIsReadable` says so.

`TypeRegistration` follows `TRACE` from the level check through the registration, which several
threads may try at once, to `ParseSharedMemoryRecord`. A message whose size is invalid is dropped and
counted before the queue is asked. The queue in between is taken to be what `AlternatingQueue`
describes.

### SharedMemoryFile and DatarouterMessageClient

Every call to the operating system is a step that may fail. A file is an inode that has a name while
it is linked. Processes end at any step and start again under the same name; names of files are static
or unique.

`DatarouterMessageClient` has the owner, the connect thread and the library's thread, with
`sender_mutex_`, the stop source and the condition variable. The test of the wait's predicate and
falling asleep are two steps. `UnlinkSharedMemoryFile` tests and sets its plain flag in separate
steps. The message passing library is external.

### SocketServer, DltLogServer and DltLogChannel

Documents are records in which a member may be absent. A command of `DltLogServer` holds
`config_mutex_` throughout and is one step. The output switch is not: the flag, the dictionary and
`sources_` change one after another, while another thread creates sessions. `stale` is history: a
session whose creation read the flag before a switch and entered `sources_` after it. `asked` is what
the last command wanted. The dictionary is an interface with two kinds of implementation. The one in
the repository is a stub that keeps nothing and answers with the defaults; the interface is there for
one that keeps what it is given. The initial state chooses.

`DltLogChannel` measures sizes in units of which a datagram holds `kUdpMaxPayload`; the message
counter and the counts of the buffered messages wrap. A `sendmmsg` fails, or takes some or all of the
datagrams (`Outcomes`); `unsent` counts those it did not take without failing.

### UnixDomainServer and FileTransfer

Clients connect, send, and close or reset their end between any two steps of the server thread;
descriptors are used again, and an answer reaches a client that has not closed. `accept` may fail, and
receiving may end with an error of which one has no value: both end the process, as in the code. Files
are sizes that change while they are sent, sizes wrap at `SizeModulus`, and a `fread` may fail or return
less than there is.

## Runs

| Run | Instance | Shows |
| --- | --- | --- |
| `queue_safety` | 2 writers, 3 records, limit 3 | exclusion of reader and writers, disjoint ranges, implements `LogTransport` |
| `queue_reuse` | 2 writers, used buffer, limit 4 | written bytes catch up, old bytes are never taken for records |
| `server_safety` | 2 processes, exhausted pool, output on or off | queue and flags agree, one acquisition, no lock cycle, no removal without post-mortem read |
| `server_recovery` | 1 process, 2 connections | with reconnects, a hanging client, a failing `Notify` and factory, and the destructor: no closed connection is kept unless its process has connected again, an answering client is asked again, a marked session is removed, the destructor ends |
| `session_transport` | 2 threads, 3 records | the session implements `LogTransport`, and every record is delivered in the end |
| `session_exit` | 2 threads, exit or crash | detached reads duplicate and reorder nothing, unless a thread was writing at the end; blocks agree, a settled session loses nothing |
| `session_closed` | 1 thread, with quota | the post-mortem read happens |
| `application` | 4 parts of an application | payloads are what was logged, reports grow, the file is readable; every message is known to the parser, losses are counted; readers are sound, files are not destroyed and do not block a restart; nothing is left behind by `Shutdown` |
| `daemon` | configuration or one channel | objects outlive their users, the last switch is obeyed, kept if the dictionary keeps data, and reaches sessions, stored settings come back, reset is a fresh start; messages leave in order and once |
| `services` | Unix domain server or file transfer | queue and flags agree, commands are answered once, descriptors are released, an end message follows the packages it announced, requests are answered once, in order, and in the end |

In `application`, `daemon` and `services` several modules share a run. They have no common variable,
and the initial state chooses one of them: a behaviour is one of a single module, and the run checks
them side by side, not their composition.

Two runs end in a violation. Each states what a comment says:

- `queue_relaxed`: with the acquire order of the mark, a writer gets into the block being read,
  although the comment says that the mark "shall block reader to progress".
- `client_shutdown`: `Shutdown` requests the stop and notifies without the mutex of the condition
  variable. If this happens after the connect thread has tested its predicate and before it waits,
  nothing wakes it and the join does not return. Without this interleaving there is a second one:
  `Shutdown` destroys the connection with `sender_mutex_` locked (`:257-258`), the destruction waits for
  the running callback, and the callback waits for the mutex in `SendMessage` (`:350`).

### Bounds

Two writers are the fewest that compete for space and for the arbitration. The buffers are small
enough to fill, so that acquisitions fail. A writer that acquires has two marks. With a limit of 3
the second of two writers can be refused by it, but then no `fetch_add` ever fails; with a limit of 4
it is the other way round. So the two queue runs have different limits. Three or four switches fit,
and the counter wraps at 4 (a multiple of two, like 2^32), so that wrapping and a second switch during
an acquisition happen; in `session_transport` it wraps at 2, which keeps the liveness check small.

The server has the reconnects of one process in one run and two processes in the other, because the two
together are out of reach.

In `application`, two threads compete for one slot and for one registration, arguments are longer than
the capacity and than the maximal length, payloads exceed what the header of the file can say
(`MaxFilePayload` is below `Capacity`), and sizes of the shared memory overflow (`SizeModulus`). In
`daemon`, the files have one, two, too many and no usable channels; three commands are enough to
change, store and reset; both kinds of dictionary occur; one restart or crash happens at any point; a
channel fills both of its datagrams, a send takes none, one or both, and the counters wrap. In
`services`, two clients share two descriptors, and a file of size 0, 3 or 5 has one or two packages;
the size 5 wraps. Counters of commands, messages, restarts and faults are bounded by the `Max...`
constants.

`MaxMisses` and `TicksWithoutAcquire` are reached. Symmetry is used for writers, which run the same
code, and only in runs without liveness properties. `CHECK_DEADLOCK FALSE` is set where clients may
all be gone or the server destroyed.

### Fairness

Threads that can run do run (weak fairness). The library delivers what was sent. Strong fairness is
assumed where a callback competes with the worker for `mutex_` or a place between two ticks. Nothing
is assumed of a hanging client, and no writer has to start writing. Deadlines pass. In `services` the
server thread and the transfer thread run; the 100 ms without an event pass again and again even if
clients keep sending (strong fairness), because the server measures them with a clock; and the 500 ms
of a connection without a session pass. In `client_shutdown` the three threads run, and the library
stops when it is asked to; nothing is assumed of the Datarouter.

## Proofs

TLAPS proves, for every value of the constants that satisfies the named assumptions:

| Component | Module | Theorems | Assumption |
| --- | --- | --- | --- |
| queue | `AlternatingQueueProofs` | `TypeCorrect`, `ReaderExclusion`, `DisjointRanges`, `WrittenComplete`, `NoIndexWraps` | `QueueAssumption` |
| message passing server | `MessagePassingServerProofs` | `QueueSound`, `ConnectionsOpen`, `SingleAcquisition`, `LocksOrdered`, `RemovedAfterRead` | `ServerAssumption` |
| message client | `LifecycleProofs` | `ShutdownLeavesNothing`, `FileIsKept`, `RequestsAnswered` | `ClientAssumption` |
| shared memory file | `LifecycleProofs` | `ReadersSound`, `ContentsPreserved`, `LeftoversHarmless` | `SharedMemoryAssumption` |
| socket server | `SocketServerProofs` | `ObjectsOutliveUsers`, `SwitchObeyed`, `SwitchReachesSessions` | `BuildAssumption` |
| DLT log server | `SocketServerProofs` | `StoredIsReadBack`, `ResetRestoresDefaults`, `AcceptedIsRouted` | `ServerConfigAssumption`, `BuildAssumption` |

The assumptions say that sizes, bounds and moduli are numbers, that sets of threads are finite where
they are counted, and that the modulus of a switch counter is even. Each component has an inductive
invariant, which is the theorem `...Invariant` of its module (`ConfigurationSound` for the log server);
the other theorems follow from it.

**Queue.** The proofs rest on sequentially consistent accesses. `ReaderExclusive` is not inductive: it
does not say why a mark is seen. `Arbitration` adds that `number_of_writers` counts exactly the marks
of the writers, that a writer that has won is on the active block or keeps the reader out by its mark,
and how far the reader is behind the counter. `Indices` adds that `acquired_index - written_index`
counts the bytes writers own, that these ranges are disjoint and below `acquired_index`, and that the
admitted writers have room below the end of the index range.

**Message passing server.** `ServerInv` has a conjunct for each question. `PositionInv`: where the
threads are. `QueueInv`: the queue and the flags. `ConnectionInv`: a session has a connection of its own
process, and nothing is on its way on a connection that has not been used. `ClosedInv`: the connections
of a process follow one another, and a session whose connection is closed, or is closed while the
session is created, is remembered in `disconnected_pids_` unless the process has connected again; this
is what `ConnectionOpen` needs and does not say, since the creation runs without `mutex_`. `MarkInv`: the
path of a mark for delete, from the wrapper to the session that reads the rest; without it, a removal
could precede the read. `AcquireInv`: what is pending belongs to the request that `acquire_requested`
stands for; this is also why the lock orders never meet. The theorems cover any number of processes,
each with any number of connections, and all results of `Notify`, which no run has together.

**Message client.** `ClientInv` says which thread can be inside `UnlinkSharedMemoryFile`, and that its
unprotected flag, once set, means that a thread has unlinked the file or is about to.

**Shared memory file.** `FileInv` says that a process works on a file it made, and that a file is blank
until that process has laid it out; what the reader accepts lies inside the mapping even if an offset
has wrapped. `LeftoverInv` says that the name a process is about to open belongs to no file older than
its call of `Create`, unless a call failed.

**Socket server and log server.** `SocketInv` ties what is in progress to the number of objects that
exist, and the value a switch carries to the flag, the dictionary and the last command at each of its
steps. `ConfigInv` says that every configuration that commands, stores, resets and restarts can reach
is well formed (assignments are not empty and name channels that exist, thresholds are levels), and that
storing it and reading it back gives the same. The lemmas follow the conversions of `ReadStaticDlt`,
`ReadDlt` and `WriteDlt`, names of levels included.

Only model-checked: `AcquireSession`, `Recorder`, `TypeRegistration`, `DltLogChannel`,
`UnixDomainServer` and `FileTransfer`, the refinements of `LogTransport`, and all liveness. Fairness and
`ENABLED` are out of the prover's reach, and so is induction over data, which the properties that count
or concatenate need.

## Properties that are in no run

The modules define more properties than the runs check. The set that the runs repeat is kept small;
being left out does not mean that a property follows from those kept. Some are proved instead:
`FileKeptForDatarouter`, `AcquireAnswered`, `AcceptedReachesAChannel` and `IndicesNeverWrap` are the
theorems `FileIsKept`, `RequestsAnswered`, `AcceptedIsRouted` and `NoIndexWraps`.

These hold on the instances of the runs named, when they are added to the configuration: the type
invariants (`TypeOK` in `queue_safety`, `server_safety` and `session_transport`, `TraceTypeOK` in
`application`, `SocketTypeOK` and `ChannelTypeOK` in `daemon`, `UnixTypeOK` and `FileTypeOK` in
`services`); `ReadsCommitted` in `session_exit`; `IdentifiersSuffice`, `FileKeptForDatarouter` and
`AcquireAnswered` in `application`; `OneKindPerDatagram`, `StatisticsBalance`,
`FailureOfSeveralIsCounted` and `AcceptedReachesAChannel` in `daemon`; `ExitEnds`,
`DestructorReturns` and `ClosedPeerIsNotified` in `services`; the four properties of `server_safety` in
`server_recovery`.

These state what a comment or a document says, and TLC finds a counterexample:

- `HungClientRemoved` (configuration of `server_recovery`): a client that stops answering misses one
  deadline. `acquire_requested` stays set, so it is not asked again, no further deadline is missed and
  the session stays. `docs/components/datarouter/detailed_design/index.rst:106` says "A session is
  removed after a limited number of missed acquire deadlines".
- `SkippedRequestHandled` (`server_recovery` with `NotifyResults = {"ok", "ENOBUFS"}`): after an exhausted
  pool nothing is in flight, so there is no deadline to watch. The comment at
  `message_passing_server.cpp:580` says "the watchdog will handle it if the client never responds".
- `ConnectionAlive` (`server_recovery`): a process disconnects and connects again while the factory makes
  its first session. The second connect message takes the pid off `disconnected_pids_`, and the session
  gets the connection that is gone. The comment at `message_passing_server.cpp:483` says "Do not store
  &connection (may be already destroyed by the framework)". `ConnectionOpen`, which is checked and
  proved, has this case as its only exception.
- `ExitedRetrieved` (`session_exit`): a client exits right after answering a request. The worker sees the
  detached writer before the response, reads the wrong block as the last one, and loses the records of
  the other. `design/backend/datarouter_backend/index.md:258` says that the logs are retrieved
  completely "even after that app exited".
- `CounterIncreases` (`daemon` with `MaxMessages = 4`): a file transfer takes its message counter
  outside the lock, so two waiting messages can have the same one. `dlt_common.h:127` says that it "is
  increased with each sent DLT message".
- `DatagramLossIsCounted` (`daemon`): a `sendmmsg` that takes some of the datagrams is no failure to the
  code (`dlt_log_channel.h:206`), and the others are gone. `ShowStats` reports "failed to send: total
  count".
- `TruncatedToMax` (`application`): the header of a long message has the length of a truncated one, and the
  whole payload follows. `dlt_message_builder.cpp:88` says "truncate the message to max size if the msg
  size is exceeding the available buffer size".
- `ProcessQueueReturns` (`FairUnixSpec` with `SessionTick = TRUE`, which is what `StubConfigSession`
  returns): a session that always asks for another tick keeps the server thread in `ProcessQueue`. The
  comment at `unix_domain_server.h:178` says that it "returns true if the queue is still not empty".

## Observations

What the code does that the models show or had to follow, and that no property is about:

- A static file with too many channels is replaced by a default channel. `ResetToDefault` then takes
  the default path again and switches that channel off (`dlt_log_server.cpp:208`).
- `ResetToDefault` clears `coredump_channel_` (`:97`) and sets it again only when the channels are built,
  that is, at the next start.
- An assignment to a channel that does not exist becomes one to the first channel, because the lookup
  inserts a zero.
- A file transfer that is asked to exit between `fopen` and the test after it does not close the file
  (`filetransfer_stream.cpp:237`). A file to be deleted is deleted also after an error (`:332`), that is,
  although it was not sent.
- A transfer goes on after a failing or short `fread`, and after a change of the file; its end message is
  the same as that of a complete one. A size above 32 bits is cut, and so is the transfer.
- In the Unix domain server a failing `accept` ends the process, and so does a receive error that carries
  no value, such as that of a client that reset its connection.
- A session that is created while the output is switched may keep the old state until the next switch
  (`socketserver.cpp:303`); `SessionsFollowSwitch` exempts it.
- With the stub of the dictionary, a daemon that was told to switch its output off has it on after the
  next start.
- The report time of the statistics reporter is the time its thread read before it reported, so it can
  move back when threads overlap.
- Two processes with the same static name at the same time replace each other's file; `ReadersAreSound`
  holds because the reader compares the pid in the file.

## Not modelled

- `stop_source_` of the message passing server. The code refuses a connect message between the start of
  the destructor and `receiver_.reset()`, and the refusal resets the request (`:450`); the model accepts
  connections until `receiver_.reset()`.
- The contents of statistics, console output, and the bytes of messages.
- The slog and syslog back ends: one call of the operating system between taking and releasing a slot.
- The Rust bridge, whose functions forward to the recorder; the Unix domain client and the persistent
  logging configuration, which no other code of the repository uses apart from mocks and tests; the
  stub of the file transfer, which does nothing.
- Start-up, options, signal masks, priorities and VLAN settings: single calls of the operating system.
- The composition of the parts. `AcquireSession` and `TypeRegistration` take results of other modules as
  their environment; these links are arguments in the text. A run that composes the message client
  with `AcquireSession`, or the log server with its channels, would be the next step.
