# A TLA+ verification of the Snowflake Connector for Python

This directory holds TLA+ specifications of the parts of the connector whose
correctness is hard to test: those that depend on the order of events (threads,
callbacks, retries, answers that come late, processes that die between two steps), and
the native code under `nanoarrow_cpp/ArrowIterator/`, where a result in Arrow format is
verified, decoded, shared, converted and freed by hand. Each specification is
translated from the code (`PROJECT.json`, "map", names the lines of every definition),
is model-checked with TLC on small instances, and the safety properties of the Python
components and of the Arrow stream reader are proved for every value of their parameters with TLAPS.
Paths below are relative to `src/src/snowflake/connector/`; files of the native code are named without their
directory.

## 1. The system

A `SnowflakeConnection` owns one `SnowflakeRestful` (session and master token), one
query context cache, one heartbeat timer and any number of cursors. A cursor sends
a statement through `Connection.cmd_query` and `SnowflakeRestful.request`; the answer
brings rows (a `ResultSet` that downloads its batches on a thread pool), a file
transfer (a `SnowflakeFileTransferAgent` with three thread pools), or a query that is
still running and is polled. A batch in Arrow format is an IPC stream that the C++
iterator opens with nanoarrow, whose metadata are flatbuffers verified by flatcc. PEP 249
thread safety is level 2: threads share a connection.

| Component | State | Operations | Interacts with |
|---|---|---|---|
| Query context cache (`_query_context_cache.py`) | `_id_map`, `_priority_map`, `_intermediate_priority_map`, `_tree_set`, `_lock` | merge of a response, serialization into a request, trimming, clearing | called by `cmd_query` of any thread; cleared by `Connection.close` without the lock |
| File transfer agent (`file_transfer_agent.py`) and storage clients (`storage_client.py` and the clients of the services) | `TransferMetadata` counters, two condition variables, `SnowflakeFileMeta` per file, chunk counters per client | preprocess, chunk transfer, postprocess, their callbacks; `result` | thread pools call back into the agent; the main thread waits on `cv_main_thread` |
| REST client (`network.py`) | tokens under `_lock_token`, `Connection.expired` | `request`, `_post_request`, `_get_request`, `_token_request`, `update_tokens`, `delete_session`, `close` | all requests of all threads; the server |
| Connection (`connection.py`, `time_util.py`) | `_rest`, `heartbeat_thread`, `_async_sfqids`, `_done_async_sfqids` | connect, heartbeat, status of asynchronous queries, `close` | every other component |
| Result set (`result_set.py`, `result_batch.py`) | two deques, the futures of a pool | iteration, download with retries | the caller, who may stop at any row |
| Cursor (`cursor.py`, `_utils.py`) | request id, sequence counter, `_timebomb`, the SIGINT handler, result, `_prefetch_hook`, `multi_statement_savedIds` | `execute`, `fetch*`, `nextset`, asynchronous results, `reset`, `close` | its timer threads, signals, the connection, the result set |
| File lock and token cache (`file_lock.py`, `token_cache.py`) | a lock directory, one JSON file | store, retrieve, remove under the lock | other processes of the user |
| C++ Arrow iterator (`CArrow*.cpp`, `*Converter.cpp`) | arrays and views of the batches, row and batch index, a pending Python error | opening a chunk, next row, import of a table, conversion of columns | nanoarrow; Python and pyarrow, which take the arrays over |
| nanoarrow (`nanoarrow.c`, `nanoarrow.h`, end of `nanoarrow_ipc.c`) | buffers, bitmaps, arrays, views, schemas, metadata, the reader of a stream, reference counts of shared bodies | building, finishing, viewing, validating, copying, releasing; reading messages | the iterator; an allocator that may fail |
| flatcc (`flatcc.c`, `flatcc/`) and the generated code for Arrow's metadata (`nanoarrow_ipc.c`) | the builder with its emitter, vtable cache and reference map; a finished buffer | building, cloning, verifying, reading, sorting, searching | the bytes that came over the network |
| Dictionary caches (`cache.py`) | entries with expiry, a file | get, set, load, save | other processes |
| CRL and OCSP checks (`crl.py`, `crl_cache.py`, `ocsp_snowflake.py`) | memory and file caches, a cleanup thread | validation of a chain, download, cleanup | the TLS handshake of every connection |
| HTTP sessions (`session_manager.py`) | idle and active sessions per host | get, return, close | REST client, storage clients |
| Retry policies (`backoff_policies.py`, `time_util.py`) | counters, deadlines | next sleep, timeout test | REST client, authentication |
| Telemetry (`telemetry.py`) | batch under a lock, enabled flag | add, send, close | connection |
| Authentication (`auth/`) | tokens, browser or listener | login, reauthentication | REST client, identity providers |
| Conversion in Python, configuration, logging | none that is shared | pure functions of data | |

What is hard in this code, and what correctness means for each part:

* **Cache**: three indexes over one set of elements change in every insert, partly
  through an intermediate index; responses of concurrent queries come in any order;
  an entry may be malformed in the middle; `close()` clears everything without the
  lock. Correct: the indexes agree, an element never goes back in time, capacity is
  kept, no exception of the cache reaches the query that has already run.
* **Transfer**: hundreds of callbacks on three pools, two condition variables, a
  throttle inside a callback, exceptions at every step. Correct: `transfer()` ends;
  when it returns every file is finished, a file reported as transferred is
  complete, and no error is silent.
* **REST**: several threads meet one expired session; renewals, polls and repeated
  requests nest in one call. Correct: the two tokens always belong together, renewals
  do not multiply or disturb each other, every request ends, and a request that is
  repeated is the request that was made.
* **Close**: a heartbeat may be under way, two threads may close, each step may
  raise. Correct: no beat after closing, a session with a running asynchronous query is
  kept, no other one is left behind, `close()` returns and the connection is closed.
* **Result set**: downloads end in any order and may fail. Correct: rows in order,
  none skipped or repeated, bounded memory, a failure told in its place.
* **Cursor**: a timer thread reads the cursor's attributes when it fires, which may be
  when the cursor runs another statement; SIGINT may arrive between any two
  statements of `execute()`, and its handler shares a lock with the timer thread. Correct:
  neither timer nor handler outlives its statement, a query with a timeout ends, an
  interrupted `execute()` returns, and the rows given out belong to the query asked for.
* **Token cache**: processes share one file under a lock that is broken when it is
  old; a process may die holding it, or between the truncation and the write. Correct: one process at a time
  while no lock is old, no lock left by a live process, no token lost
  by another's update, nobody waits for ever.
* **Arrow reader**: streams cut at any byte, either byte order, allocations that fail,
  bodies shared by reference count and replaced by conversions. Correct: a chunk that opens was whole,
  every body is freed exactly once, rows come in order, every buffer reaches its field.
* **Arrow data**: bit runs at byte boundaries, validity bitmaps that appear late, offsets
  at the ends of children, scales, units and the ends of the 64-bit range. Correct: nothing is
  read or written outside its buffer, what was appended is read back, and the Python object
  or the table column is the value the data stand for.
* **Schemas**: calls in any order, repeated, half failed. Correct: every block has one
  owner, a view reads what was set and follows no pointer nobody set.
* **Flatbuffers**: offsets that wrap, vtables shared between tables, a builder used again
  after an attempt that was given up, one damaged byte. Correct: what was built is read back and
  verifies, and neither the verifier nor a reader of what it accepts leaves the buffer.

The full list of hazards, each at its line and with the properties that cover it, is
`PROJECT.json`, "hazards". Those no property covers say why.

## 2. Modules

| Module | Models | State and actions |
|---|---|---|
| `QueryContextCache` | `_query_context_cache.py`, `close()`'s clearing | `cache` is the record of the four containers, `pc`/`entries` the thread inside `deserialize_json_dict`. `insert`, `add_qce`, `remove_qce`, `sync_priority_map` are operators of the same names. Actions: one entry (`InsertEntry`, `InsertFails`), the merge of the priority index, one turn of `trim_cache`, the release of the lock, and `ClearContainer`, one statement of the unlocked `clear_cache` |
| `FileTransfer` | `SnowflakeFileTransferAgent.transfer` and `result`, the control flow of the storage clients' prepare, chunk and finish steps | `call` is one call with its parameters (direction, pools, which errors are raised); one `task` per submitted function with its place in the pool, the counters of `TransferMetadata` and of the clients, the file metas, and the main thread. Each block under one lock is one action; `Condition.notify` is lost when nobody waits |
| `RestRequest` | `SnowflakeRestful` | each thread has the stack of its calls (`post`, `get`, `renew`); an answer of the server and its handling are two steps, so answers may be late. `update_tokens` stores the session token and the master token in two steps under the lock (`StoreSession`, `StoreMaster`); a renewal reads the master token and then the session token in two steps without it (`Renew`, `ReadOld`); `close()` is two steps without it. A pair of tokens is its number; `token_at` and `master_at` count the stores |
| `ConnectionClose` | `Connection.close`, `_cancel_heartbeat`, `HeartBeatTimer`, `_all_async_queries_finished`, `get_query_status`, `delete_session` | the statements of `close()` that touch shared attributes, the timer thread, the pool of status checks |
| `InOrderDelivery` | (abstract) what iteration promises | batches delivered so far and how the iteration ended |
| `ResultSet` | `result_set_iterator`, `ResultBatch._download` | the two deques, the futures, the generator, which runs only while the caller asks. It is shown to implement `InOrderDelivery` by the mapping `delivered <- Len(delivered)`, `status <-` the final state |
| `Cursor` | `SnowflakeCursor.execute`, `_execute_helper`, `__cancel_query`, `nextset`, `get_results_from_sfqid`, `reset`, `close`; `_TrackedQueryCancellationTimer` | the application's thread (`pc`), one timer per query, the SIGINT handler and where it interrupted, the server's queries, and the attributes that outlive a statement |
| `TokenCache` | `FileLock`, `FileTokenCache` | every system call of a process on the lock directory or the file is a step: `Stat`, `Break`, `Mkdir`, `Read`, `Truncate`, `Write`, `Exit`, each of which may fail (`Denied` is a failing call on the directory). `Age` makes a lock old, `Crash` kills a process |
| `IpcDecoder` | the header prefix, field numbering, the walk over buffers and the byte swap of `nanoarrow_ipc.c` | operators over sequences of bytes; the recursions of the code over a schema are folds over `PreOrder`, the order in which they reach the fields of `Fields` |
| `ArrowReader` | the stream reader of `nanoarrow_ipc.c`, `CArrowIterator`, `CArrowChunkIterator`, `CArrowTableIterator`'s use of arrays, `SharedArrowBuffer` | the position in the stream, the reader's and decoder's state, the batches opened, the reference count of each body and who holds it. One action per step of the constructor, `NextRow`, `ImportTable`, `Convert`, `Delete` |
| `ArrowBuffers`, `ArrowArrays`, `ArrowViews` | `nanoarrow.h`'s buffers, bitmaps and appending; `nanoarrow.c`'s layouts, finishing, views, validation; reading of rows | operators. A buffer has a capacity and cells; a write outside it is remembered in `wild`, a read outside gives `Unset` |
| `ArrowBuilder` | a program that builds an array with them | the array, its rows as asked for, the children's rows; every append, reserve and finish, with memory that runs out. The program goes on after a call that failed. `flaws` remembers the calls after which the rows cannot be compared: one that failed half way (`torn`), a run that crossed a byte of a BOOL (`crossing`), an interval without a validity bit (`unmarked`), a validity bitmap shrunk before there was one (`displaced`) |
| `ArrowConvert` | `getConverterFromSchema`, all converters, `CArrowTableIterator::convertIfNeeded` and its conversions | one column on its way: decoded, viewed, then turned into Python objects or rebuilt for a table |
| `ArrowSchemas`, `ArrowSchemaViews` | `nanoarrow.c`'s schemas, metadata, format parser, schema views, array views and arrays from a schema | operators over a schema and an allocator that counts blocks of each kind |
| `ArrowSchemaUse` | a caller of them | the schema, a copy, a view, an array, a metadata buffer; calls in any order until the allocator runs out |
| `ArrowTables` | the tables, structs, unions and argument lists that flatcc generated for Arrow's Schema, Message, Tensor, SparseTensor and File | the definitions as data, which the next modules interpret |
| `FlatBuffers`, `FlatVerifier` | the generated readers; the verifier of `flatcc.c` | operators over a sequence of bytes; `Stray` is an access outside it or not aligned |
| `FlatBuilder`, `FlatObjects` | the builder and emitter of `flatcc.c`; the typed layer generated over it | the builder as a record, one operator per function |
| `FlatDecoder`, `FlatSearch` | nanoarrow's decoding of schema and batch headers; find, scan and sort | operators |
| `FlatMessages` | the life of a message | built call by call, perhaps abandoned and begun again, finalized, cloned, sorted or damaged in one byte, verified, read |
| `...Proofs` | | lemmas and theorems about the module of that name (section 4) |
| `MC...` | | the instances for TLC: responses, calls, scenarios, plans, streams, columns, shapes |

External code is modelled from its use: `sortedcontainers.SortedSet` (an element goes
behind those of its own priority; `add` of a member does nothing),
`ThreadPoolExecutor` (a queue and a number of threads), `threading.Condition` and `Timer`, the
closing of a Python generator, signals between two statements of the main thread, the calls of the file system, `malloc`, `strcmp`, and the server's answers. Data the properties do not
tell apart is left out: the opaque context string, file contents, SQL text apart from its identity, names.

The native models keep the control of the code and shrink its numbers: a byte of `FlatBuffers` has
`Radix` values, so that offsets wrap within reach; a decimal digit of `ArrowConvert` has
`Base` values and 64 bits end at `Int64Max`, so that the ends of the range are enumerated.

## 3. Runs

A property that joins several named parts is given with them; the comment at each part says
what it states.

| Run | Shows |
|---|---|
| `QueryContextCache` | all sequences of well-formed responses, with a malformed one and `close()` at any point. `CacheConsistent` (`TypeOK`, `TreeMatchesIdMap`, `PriorityMapLive`), `WithinCapacity`, `TimestampsNeverRegress`, `TrimKeepsMainElement`, `MergeEnds` |
| `FileTransfer` | a PUT with every kind of failure and reraising on, a GET over three pools, and a PUT whose callbacks wait at the throttle. `ThrottleSound` (`TypeOK`, `QueueCounterExact`, `BacklogBounded`), `ReportHonest` (`ReturnMeansFinished`, `SuccessMeansAllChunks`, `TransferErrorsReported`), `TransferEnds` |
| `RestRequest` | expiring tokens, `close()`, polls, renewals inside renewals, reauthentication. `TokensConsistent` (`TypeOK`, `TokensPaired`, `OldNotOlder`), `RenewalsIndependent` (`RefusedOnlyWhenDead`, `RenewalsBounded`), `EveryRequestEnds` |
| `ConnectionClose` | two closers, a heartbeat, two asynchronous queries. `HeartbeatStopped` (`TypeOK`, `NoBeatAfterClose`), `SessionDecided` (`DeleteOnlyWhenIdle`, `NoSessionLeftBehind`, `SomeCloseSucceeds`), `CloseReturns` |
| `ResultSet` | five batches, two threads, retries, early drop, row by row and with `is_fetch_all`. `WindowSound` (`TypeOK`, `InOrder`, `WindowBounded`), `FailureTold`, `ImplementsDelivery` |
| `Cursor` | two statements on one cursor with timers, signals, asynchronous and multi-statement queries. `NothingLeftBehind` (`TypeOK`, `TimerDisarmed`, `HandlerRestored`), `ResultsOfAsked` (`RowsOfAsked`, `NextsetInOrder`), `TimeoutEnds`, `InterruptReturns` |
| `TokenCache` | three processes, one of which may die, one failing call on the file or the directory. `LockSound` (`TypeOK`, `ExclusiveWhileFresh`, `LockReleased`), `NoTokenLost`, `LockNeverBlocks` (`EveryOperationEnds`, `DeadLockBroken`) |
| `ArrowReader` | whole, cut and defective streams in both byte orders, on machines of both. `BodiesOwned` (`TypeOK`, `RefcountExact`, `NothingLeaks`), `OpenedMeansWhole`, `ReadInOrder` (`RowsInOrder`, `TableUniform`), `DecodedRight` (`WalkCoversMessage`, `ValuesKept`) |
| `ArrowBuilder` | an array of every kind of storage, built with memory failing at any reallocation while the program goes on. `WritesInside` (`TypeOK`, `NoWildWrite`), `RowsKept` (`ReadBack`, `NullCountExact`, `FinishedIsExported`) |
| `ArrowConvert` | columns of every logical type in every storage the server uses, well formed and not, with every option. `TableRight` leaves out, by name, what the code converts wrongly (`Misread`, `PastTheEnd`; the violated properties below state it). `ReadsInside` (`TypeOK`, `NoStrayRead`), `RowsRight`, `TableSound` (`SchemaMatchesArray`, `TableRight`) |
| `ArrowSchemas` | calls in any order with the allocator running out at several points. `BlocksOwned` (`TypeOK`, `SchemaBlocksOwned`, `NoLeakWithMemory`), `ReadAsSet` (`ParsedAsAsked`, `ViewDefined`, `LookupAgrees`), `ShapeKept` (`CopyFaithful`, `MirrorsSchema`) |
| `FlatBuffers` | messages with every table, union and vector of the metadata, built in several ways, cloned, sorted, and damaged. `BuildFaithful` (`RoundTrip`, `BuiltVerifies`, `CloneFaithful`), `DamageContained` (`TypeOK`, `AcceptedWhole`), `SortedAndFound` (`SortedInPlace`, `SearchAgrees`), `SchemaDecoded` (`SchemaFaithful`, `UnknownRefused`) |

Run one with `tlc -workers 2 -config <run>.cfg <module>`; the module of each run is in
`PROJECT.json`. Every property has a mutant there: an operator
beside the definition it replaces, a plausible mistake under which the
property fails.

### Bounds

* Cache: three ids and priorities, two timestamps, capacity 2, responses of two entries.
  Three ids are needed to exceed the capacity and to have a pair of equal priorities
  next to a third element; two entries suffice for an element displaced by its id and
  another by its priority in one round. A round adds at most `MaxEntries` elements, so
  with the lock free (and nothing raised) the cache is at most `Capacity` large;
  `MaxElements` only stops merges on the oversized cache that an exception of
  `trim_cache` leaves behind. The entries of one response have distinct ids and
  distinct priorities (`WellFormed`): the server builds a response from its own keyed
  table. Malformed entries are allowed.
* Transfer: the calls `Put`, `Get` and `Throttled` of `MCFileTransfer`. Chunk counts cover one
  chunk (no multipart), two and three; with `MaxConcurrency` 1 the throttle closes at three
  chunks, so one file of three chunks already makes the next callback wait, and three files
  make two wait. `TransferEnds` speaks of the calls whose finish steps do not raise: `Get`, with failing
  work functions, and `Throttled`.
* REST: the four scenarios of `MCRestRequest`. Each thread starts a bounded number of
  requests, so the state in which nobody has anything left to do is allowed (deadlock is not
  checked there). Two expiries are needed for a token that dies again while its renewal is
  applied. The stamps of `OldNotOlder` count every store of a token. `polls` bounds the answers "in progress", `stack` how deep a renewal may itself be
  answered "session expired", for which the code has no bound.
* Close: two closers, two queries, `RetryLimit` 3 as in the code; all initial
  combinations of heartbeat, listed and running queries.
* Result set: five batches exceed the window of two by more than the one extra future;
  two attempts stand for `MAX_DOWNLOAD_RETRY` = 10.
* Cursor: two statements, so that a timer of the first meets the second; plans with and without
  timeouts, with two signals (the second inside the handler of the first, or before or after it),
  with SIG_DFL instead of a Python handler, outside the main thread, with the same and with different texts, asynchronous and multi-statement, with `reuse_results`.
* Token cache: three processes and three operations, so that one breaks a dead one's lock while
  another tries to take it; two keys, so that an update can lose another's token; `MaxRetries` 2 for 5;
  `MaxFaults` 1 failing call, `MaxCrashes` 1.
* Arrow reader: a schema and up to three batches, one of no rows, whole, cut after 0, 4, ... 84
  bytes (inside every part of the schema and of the first batch), or with one defect, a buffer
  of negative length or offset among them; schemas with every width the byte swap treats
  differently. `Fields` are these schemas and the fields below them.
* Arrow builder: lengths up to 9 for elements of a byte or a bit, which crosses a byte of the
  validity bitmap; up to 2 for the others. Runs of 1 and 8. `MaxOffset` 2 stands for 2^31 - 1. Two more
  calls follow a flaw (`MaxFlawed`), enough to use what was lost. Allocations fail at the lengths where they decide something
  (`Failing`, `MCResizeAt` for resizing), and a dense union has one row below (`MCMaxChild`).
* Arrow conversion: `Base` 2 for 10 with `MaxScale` 12 keeps the relation of nine digits of
  nanoseconds to the scales; `Int64Max` is chosen so that seconds, but not every nanosecond, at the
  end of the range fit.
* Schemas: four calls; allocators with memory for 1, 2, 4, 6, 9 or 30 blocks, so that the
  failure falls into each part of a copy, a child or a dictionary. Below the root the types INT32, MAP, UNINITIALIZED
  and unions are set, on children and on the entries of a map.
* Flatbuffers: `Radix` 32 for 256, `PageSize` 16, so that messages span pages of the emitter;
  `MaxLevels` 8 for 100. One byte is damaged, at every position and to every
  value, in the messages `MCFlatMessages` selects (`Damaged`). A clone uses the reference map only for a source without
  empty vectors, see below.

Deadlock is not checked where a program that has made its calls simply stops.

### Fairness

Weak fairness of a running thread or process only: nothing is assumed about the server, the
user, failures, expiries or `close()` being called. In `QueryContextCache` the holder of
the lock runs no blocking call. In `FileTransfer` and `ResultSet` every request carries a
timeout and its retries are counted, so a work function ends, with a result or an
exception. In `RestRequest` a `fetch()` ends: `network_timeout` (or the login timeout)
stops its retries; when no timeout is configured it retries until the network
recovers, and the property then says what it says for a network that does. That tokens expire
finitely often and a query ends are bounds of the model; without them a request
may be polled for as long as the query runs, as intended. In `ConnectionClose` the same holds
for the heartbeat's and the status requests. The caller of a result set either goes on
or drops it (`Abandon`). In `Cursor` the application's thread, a request whose query has ended, and the timers run;
the server need never end a query, which is what `TimeoutEnds` is about. In `TokenCache` a live
process goes on; one that dies takes no further step, and `DeadLockBroken` needs a later operation to find its lock old.
`ArrowReader`, `ArrowBuilder`, `ArrowConvert`, `ArrowSchemaUse` and `FlatMessages` are sequential and
have no liveness property.

### Disagreements between the code and its own words

The modules state these properties as well; no run lists them, because what the code does
violates them. Put the name in the run's cfg to see the counterexample.

| Property (run) | The code | Its words |
|---|---|---|
| `TrimNeverRaises` (`QueryContextCache`) | `_query_context_cache.py:131`: two elements that come to share a priority lose their entry in `_priority_map`; the next trim raises out of a statement that succeeded | :129 "remove the qce with highest priority value => element with least priority" |
| `TransferAlwaysEnds` (`FileTransfer`, as a PROPERTY) | `file_transfer_agent.py:687`: exceptions of callbacks are looked at only after a wait, and a notification before the wait is lost | :649 "We need to save these Exceptions somewhere and then re-raise by the main thread" |
| `DownloadErrorsRaised` (`FileTransfer`, with `FinishMayRaise` in `Get`) | `file_transfer_agent.py:587`: the postprocess step of a GET is given the wrong object for its file meta, so a file that could not be decrypted or moved is reported as downloaded | `cursor.py:945` "Whether to raise PUT and GET errors." |
| `AsyncReturnsAtOnce` (`RestRequest`) | `network.py:802`: `_no_results` is lost in the request after a renewal | `cursor.py:941` "just fire the query and return" |
| `OldOfPair` (`RestRequest`) | `network.py:569`: master and session token are read one after the other without the lock, so that a renewal may show the server tokens of two pairs | |
| `HandlerAlwaysRestored` (`Cursor`) | `cursor.py:722`, :756: `if original_sigint` is false for SIG_DFL (0) and None, so `interrupt_handler` or `exit_handler` stays installed after `execute()`. One that is left may run inside `close()`, which holds the lock it then waits for (:1709) | |
| `NextsetOfLast` (`Cursor`) | `cursor.py:1072`: ids of a multi-statement query survive a later query that fails, and `nextset()` gives them out | `cursor.py:1643` "Fetches the next set of results if the previously executed query was multi-statement" |
| `BlameIsTrue` (`Cursor`) | `_utils.py:98`: `executed` is set by a timer that was cancelled too, so an error is reported as a timeout that was not | `test/unit/test_util.py:27` asserts the opposite at an instant that is too early |
| `NoConcurrentAccess` (`TokenCache`) | `file_lock.py:33`: two processes that find the same old lock may both break it, the second one the first one's new lock | `token_cache.py:156` "Uses file locks to prevent concurrent access corruption." |
| `EndIsTheEnd` (`ArrowReader`) | `nanoarrow_ipc.c:32801`: a batch whose decoding fails after its array was begun is released, and the call reports success with a released array, which the caller takes for the end of the stream | `nanoarrow.h:135` "if no error and the array is released, the stream has ended" |
| `RowInsideBatch` (`ArrowReader`) | `CArrowChunkIterator.cpp:65`: the first row of the next batch is taken without asking whether it has one | `CArrowChunkIterator.hpp:56` "row index inside current record batch" |
| `SwapNeverLeaks` (`ArrowReader`) | `nanoarrow_ipc.c:32436`: a buffer is moved away before memory for its swapped copy is reserved | |
| `NeverWild` (`ArrowBuilder`) | `nanoarrow.h:2783`: a run of nulls on a BOOL array reserves room for `length + 1` bits and writes n; :2064, :2447: after an allocation that failed half way a bitmap's `size_bits` outlives its memory; :2889, :3098: the last offset is read from an offset buffer that was lost | |
| `ForcedMicroseconds` (`ArrowConvert`) | `CArrowTableIterator.cpp:896`, :1048: a column stored in 64 bits is declared to be of microseconds while its values are still scaled to nanoseconds | `cursor.py:1347` "all timestamp columns are converted to microsecond precision" |
| `ZonedMilliseconds` (`ArrowConvert`) | `CArrowTableIterator.cpp:1064`: an instant with a zone in three fields of scale 1 to 3 has its seconds multiplied by 10^(3 - scale) instead of 10^3 | |
| `SpansOf64Bits` (`ArrowConvert`) | `CArrowTableIterator.cpp:576`: a span stored in 64 bits is read as a decimal of 128 bits | |
| `DownscaleExact` (`ArrowConvert`) | `CArrowTableIterator.cpp:725`: the scan returns at the first row that overflows, before it has seen whether a later row has digits that microseconds lose | :702 "@throws std::overflow_error if overflow is detected but downscaling would lose precision" |
| `NoSilentOverflow` (`ArrowConvert`) | `CArrowTableIterator.cpp:713`: the last second of the range passes the test and overflows with its fraction | the text of the exception at :716 |
| `TypeKept` (`ArrowSchemas`) | `nanoarrow.c:529`: the same format is written for TIME32 and TIME64 of a unit, so the other width is read back | |
| `ViewAlwaysDefined`, `ViewIntactDefined` (`ArrowSchemas`) | `nanoarrow.c:1265`: the entries of a map are inspected without asking whether they have a format (or a first child). A failed call leaves them without, and so does `ArrowSchemaSetType(UNINITIALIZED)` on them, which succeeds; the second name speaks of calls that all succeeded | `nanoarrow.c:1226` "check that they won't segfault if inspected" |
| `UnionIdsKnown` (`ArrowSchemas`, `MaxCalls = 5`, `Fuels = {40}`) | `nanoarrow.c:2045`: only the root learns whether the type ids of a union are its child indices | |
| `DecodesWithoutNull` (`FlatBuffers`) | `nanoarrow_ipc.c:32153`, :31346: a message the verifier accepted may have a header type without a header, a type without its table, or a key/value pair without key or value; the decoder passes the null pointer on | |
| `NoLeak` (`ArrowSchemas`) | `nanoarrow.c:2037`: a failed allocation of children leaves blocks without an owner | |

Met while modelling and not stated as a property, in the connector: an error to be reraised by
`transfer()` is not when the last file completes before the main thread waits;
`Connection.expired` is set by late answers about a token that was replaced; a status
request that raises makes `close()` return with the connection open
(`SomeCloseSucceeds` says that this, and nothing else, does so); and a status answer
without "queries" counts as a finished query (one with an empty list counts as running), so that with
`StatusMayFail = TRUE` `DeleteOnlyWhenIdle` does not hold (the run assumes that the
server knows the queries it is asked about). In the iterator: a fixed-size list of length 0 divides by
it (`FixedSizeListConverter.cpp:36`). In the libraries: the reference map knows a vector by the address behind its length, so that it takes
an empty vector for the object after it (`nanoarrow_ipc.c:981`; `flatcc_refmap.h:11` "preserves identity of the source"); an interval is appended without a validity bit when the array has a bitmap (`nanoarrow.h:3161`), and
`ShrinkToFit` resizes also the buffer of a validity bitmap that was never allocated (:2766), after which that bitmap exists without bits for the rows before; `vector_push` allows one element more than
`max_count` (`flatcc.c:922`); the nesting limit of the verifier is stepped over by a vector of tables (:2609, :2646); a
union type without a value is accepted (:2906); offsets of a dense union may equal the child's length (`nanoarrow.c:3017`).
The models do what the code does in all these cases.

## 4. Proofs

Every theorem holds for all values of the constants that satisfy the assumptions of
the component's module. Those are facts about the parameters (sets that are finite or not
empty, numbers that are at least 1, the shape of a menu or of a plan); the others are named below.
TLC evaluates them on every run. A module `XProofs` extends `X`.

| Module | Theorem | Proves |
|---|---|---|
| `QueryContextCacheProofs` | `TypeCorrect` | `Spec => []TypeOK` |
| | `IndexesAgree` | `Spec => []CacheConsistent` |
| | `CapacityKept` | `Spec => []WithinCapacity` |
| | `NeverRegress` | `Spec => TimestampsNeverRegress`, an action property |
| | `MainElementKept` | `Spec => TrimKeepsMainElement`, an action property |
| `FileTransferProofs` | `ThrottleIsSound` | `Spec => []ThrottleSound` |
| | `ReportIsHonest` | `Spec => []ReportHonest` |
| `RestRequestProofs` | `TokensAreConsistent` | `Spec => []TokensConsistent` |
| | `RenewalsAreIndependent` | `Spec => []RenewalsIndependent` |
| `ConnectionCloseProofs` | `HeartbeatIsStopped` | `Spec => []HeartbeatStopped` |
| | `SomebodyClosesIt` | `Spec => [](NoSessionLeftBehind /\ SomeCloseSucceeds)` |
| | `SessionIsDecided` | `Spec => []SessionDecided`, assuming `~StatusMayFail` |
| `ResultSetProofs` | `WindowIsSound` | `Spec => []WindowSound` |
| | `FailureIsTold` | `Spec => []FailureTold` |
| | `DeliversInOrder` | the initial states and steps of `Spec` are those of `InOrderDelivery` |
| `CursorProofs` | `NothingIsLeftBehind` | `Spec => []NothingLeftBehind` |
| | `ResultsAreOfAsked` | `Spec => []ResultsOfAsked` |
| `TokenCacheProofs` | `LockIsSound` | `Spec => []LockSound` |
| | `NoTokenIsLost` | `Spec => []NoTokenLost` |
| `ArrowReaderProofs` | `ArrowBodiesOwned` | `Spec => []BodiesOwned` |
| | `ArrowOpenedMeansWhole` | `Spec => []OpenedMeansWhole` |
| | `ArrowReadInOrder` | `Spec => []ReadInOrder` |

### The arguments

**Query context cache.**
`TreeMatchesIdMap` alone is not inductive: an insert removes the element it displaces
by the key found in the priority index, so the priority index must be known to point at
live elements; and it may only do so if no entry of the round lands on a live element
of the intermediate index. `MergeInv` therefore adds to the two properties that the
intermediate index is empty outside a round, is live during one, and that the entries
still to come have ids and priorities new to the round, which is what `WellFormed`
gives at its start. `TreeAddShape` and `TreeRemoveShape` say where the sorted set puts and
takes an element (`PositionInRange` justifies the place), `TreeAddElements` and
`TreeRemoveElements` what that does to the set of its elements; `RemoveConsistent` and
`AddConsistent` lift them to one removal and one addition in all indexes;
`InsertSound` composes them for one entry, `SyncSound` merges the intermediate
index; `OperationTypes` and `InsertType` are the same for types; `MergeStep`
has one step per action. `NeverRegress` uses `TypeOK` (an id is mapped to an element of
that id) and the definition of `stale`. `CapacityKept` needs that the
only way to free the lock without an exception is `Release`. `MainElementKept` needs
`TreeIsSet`, that no element is in the sorted set twice, which unlike
`MergeInv` survives a `close()` in the middle of a merge: trimming looks for the
last element by value, and would take the first if the two were equal.

**File transfer.** `FileInv` says of each file where it is: nothing submitted; its chunks
submitted, its counters being exactly the numbers of chunks whose callback has run, and its last
step not begun before the last of them; or ended. `QueueCounterExact` follows action by action
because each chunk enters `InQueue` with its file and leaves it in its own callback; the bound on the backlog
(`BacklogBounded`) holds because only a callback that saw the counter below the limit submits, and it
submits one file. `MainInv` ties the main thread's wait to the number of files that
ended. `ReportHonest` then follows from the exact counters: `num_of_chunks` successes means all chunks.

**REST client.** `ShapeInv` is the nesting of the calls: a renewal is never the outermost call, a
poll is the second call of a post, and a renewal that met an expired session is not too deep.
`TokensPaired` needs `LockInv`: a thread that has stored one token of two holds the lock alone, and what others see
meanwhile is its session token or, after `close()`, none. `OldNotOlder` needs `StampInv`: the session token is always
stored at least as often as the master token, equally often while the lock is free, and a renewal
that has read its master token read one that was stored by then. The depth bound needs that `scenario.stack` is at least 2
(`ParametersAssumption`): a post, its poll and the poll's renewal are three calls.
For `RenewalsIndependent`, which is about renewals that do not nest,
`RefusalInv` says that a renewal under way asked with a
master token that was issued, or with none after `close()` began, so that a refusal has one of the two
causes. The bound on renewals is a counting argument: `LedgerInv` keeps an injection from the pairs
issued since the login to (thread, expired session token), the renewal each was issued
for. It is inductive because a thread never asks again with a token it has replaced
(`Ledger`), because of `PairsPrivate` (a pair that was issued and is not yet installed is nobody else's
token) and of `MetExpired` (whoever renews met an expired token). `LedgerMoves` sorts the steps of a
thread into four kinds: it takes the token in force, gets a pair, installs it, or logs in;
`LedgerKept`, `LedgerGrows` and `LedgerQuiet` treat them and the steps of no thread.

**Closing.** `HeartbeatInv`: only a closer past the join takes the tokens away. `CloserInv` says what each
closer still may rely on while another one takes the attributes from under it, and that as long as
the connection is open after a `close()`, somebody is closing or was stopped by a request that raised.
`CheckInv` covers the closer whose list of queries another one empties between its two looks at it, which makes its
`close()` raise: the other one is past its checks, or was stopped by a request that raised.
`QueriesInv` is the only part that assumes `~StatusMayFail`: as long as the tokens are there, a running query is
known and nobody has counted it as finished (section 3 says what happens otherwise).

**Result set.** `Window`: the futures followed by the unfetched batches are the batches after the
current one, in order. `Placed` adds that exactly these futures were submitted and that there is one to pop
while batches are left; `Given` that the caller has got the batches before; `Told` that what was given out was downloaded
and that an exception is that of the batch popped last, which gives `FailureTold`. The step simulation of
`InOrderDelivery` is read off `Given`.

**Cursor.** `TimerInv`: a timer that may still fire is that of the query under way, and the cursor can
reach it until it is cancelled. `HandlerInv` says, where the application's handler is a Python function, which signal handler is installed at each statement,
also inside the handler. `IdsOfOneQuery` and `ResultInv`: the ids kept for `nextset()` are the rest of one query's
statements, and what was given out is the beginning.

**Token cache.** `Fresh`: while no directory has been too old nobody is about to break one, and whoever is inside
made the one that is there; one process at most follows from that. A directory is left behind by a live process only
after a failed call on a directory (`denials`). `ReadIsCurrent` (what the
process inside has read is what the file still holds) gives `NoTokenLost`. The hypotheses (no old lock, no crash, no
failed access) are part of the properties, as history variables; without them the code
makes no such promise.

**Arrow reader.** The theorems hold for every set of input streams, of schemas and of allocations that
may fail. `Base` carries the rest: `Typed`; `Resting`, what is empty at which step of the constructor;
`Position`, where in the input the reader stands and that what it accepted so far is a schema followed by
batches; `Collected`, that the arrays kept are those of the batches read, in order. It has one lemma
per action.
- `BodiesOwned`: a reference count alone is not inductive, since a step that passes a buffer on
  must know that nobody else had it. `Owned` says that each count is the number of buffers that hold the body,
  that a body is live exactly if it is held, lost by a failed byte swap, or the one the reader is about to
  share, and that nobody holds a body that was not read yet. The steps that change holders are of four
  kinds: a holder goes (`OwnedDrop`, `OwnedRelease`), a holder moves (`Retag`, `OwnedMove`), all arrays go
  (`OwnedArraysGone`), and the walk shares a body with many buffers at once (`OwnedSetViews`);
  `CountChange` does the counting for all of them.
- `OpenedMeansWhole`: `HeaderResult` says that a header ends the reading without an error only at the end of the input or
  at an end marker; `AtEnd` keeps that fact until the chunk is opened, and `NoneLeft` concludes that no
  batch lies beyond.
- `ReadInOrder`: `Replaced` says that a converted column holds no body any more and that at the import every column
  that must be converted was, in every array, which gives `TableUniform`. `Returned` says that the rows given out are those up to the current row of the
  current batch; `BatchHere` (the j-th array kept is that of message j + 1) and `RowsHere` turn that into the numbering of
  `RowsInOrder`.

`StreamsAssumption` describes an input: messages follow each other without gaps, a prefix announces no header exactly
where there is none, a schema message has no body, the input may end anywhere. `WalkAssumption` says that the walk over the
buffers of a schema yields a sequence of buffer slots. It follows from the definitions by induction over the fields, which
the prover cannot do; TLC evaluates it for the schemas of the run.

### Only model-checked

* Liveness: `MergeEnds`, `TransferEnds`, `EveryRequestEnds`, `CloseReturns`, `TimeoutEnds`, `InterruptReturns`, `LockNeverBlocks`, and the fairness half
  of `ImplementsDelivery`. The prover does not reason about fairness and `ENABLED`.
* `DecodedRight` of `ArrowReader`: that the walk covers every buffer of a message and that the byte swap keeps the values is
  what functions recursive in the schema and in the bytes compute, so it needs induction over data.
* The rest of the native code (`ArrowArrays`, `ArrowSchemas`, `FlatBuffers` and the modules that use them). These follow
  trees of schemas, arrays and tables with recursive operators, which the prover does not handle, and their properties
  compare what is computed with what was put in, again for every input.

## 5. Not modelled, and the plan

Not modelled for good: conversion of values in Python, configuration,
logging, masking, URL and signature building (pure data, no protocol), vendored Python libraries,
ASN.1 handling, the portability headers of flatcc, its JSON and printing parts, `ArrowSchemaToString` and
error texts (formatting), the input stream over a `FILE` (never used by the connector), and the second,
include-guarded copies of the generated code in `nanoarrow_ipc.c` (7200-11871 and 14789-31020), which the
preprocessor drops. flatcc's builder, sorting and searching are
modelled although the connector itself only reads.

Left out of modelled parts: progress bars, compression detection and
file name expansion of transfers; new asynchronous queries started while `close()` runs;
merges begun after `close()`; the local file system's storage client; binding and frames of the cursor; the
time zone database and numpy's own conversions in the iterator.

Coarser than the code: an insert and a turn of `trim_cache` are one step each, so `clear_cache` of a concurrent
`close()` falls between them and not inside (`_query_context_cache.py:128`, :130; what differs is which exception
ends the merge on a cache that is being dropped). In `ArrowReader` the ways a column's conversion fails
(`CArrowTableIterator.cpp:98`, 140, 160, 316) are one outcome, the internal error of `nanoarrow_ipc.c:32592` about a scratch buffer that moved cannot happen
and is left out, a row whose conversion raised ends the reading, and body lengths are not negative. In
`ArrowViews` the type ids of a union are its child indices, as the views of the connector have them (`nanoarrow.c:3003`).

Planned, in order:

1. `RequestRetry`: the retry loop of `fetch` with `backoff_policies` and
   `TimeoutBackoffCtx`; `TransferRetry`: `_send_request_with_retry`,
   `StorageCredential.update` and presigned URLs, shared by the chunk threads.
2. `SFDictFileCache` over several processes; an abstract lock that `FileLock` implements while no lock is old.
3. `CRLCache` (layers, background cleanup), the OCSP decision with fail-open.
4. `SessionPool`, `Telemetry`, authentication retries, the asyncio twins where they differ.
5. A composition of `RestRequest` with the cursor's cancel path.
