---------------------------- MODULE FileTransfer ----------------------------
(***************************************************************************)
(* SnowflakeFileTransferAgent.transfer() and result(): a PUT or GET of     *)
(* several files over three thread pools (preprocess, network,             *)
(* postprocess), with the callbacks the pool threads run and the two       *)
(* condition variables they share with the main thread.                    *)
(*                                                                         *)
(* A task is one function_and_callback_wrapper call in a pool.  What a     *)
(* storage client does inside a work function is its outcome: it succeeds  *)
(* or raises.  Every block under one lock is one step.  A pool may start   *)
(* the queued tasks of different files in any order.  Failures to delete a *)
(* local file are left out.                                                *)
(***************************************************************************)
EXTENDS Integers, FiniteSets

CONSTANTS
    Calls,           \* the calls of transfer() to check, see CallOptions
    MaxFiles,        \* bound on len(metas)
    MaxChunks        \* bound on num_of_chunks of a file

(* What one call is made with.                                             *)
CallOptions ==
    [NumFiles : 1..MaxFiles,                \* len(metas)
     ChunkCounts : SUBSET (1..MaxChunks),   \* what a file may be cut into
     IOBoundLimit : Nat \ {0},              \* size of the pre- and the postprocess pool
     MaxConcurrency : Nat \ {0},            \* size of the network pool
     IsUpload : BOOLEAN,                    \* PUT, else GET
     MaySkip : BOOLEAN,          \* no overwrite, or contents are compared: PUT may skip
     Reraise : BOOLEAN,          \* _reraise_error_in_file_transfer_work_function
     RaisePutGetError : BOOLEAN,
     WorkMayRaise : BOOLEAN,     \* a work function may raise
     FinishMayRaise : BOOLEAN]   \* completing or aborting a multipart upload may raise

ASSUME ParametersAssumption ==
    /\ {MaxFiles, MaxChunks} \subseteq Nat \ {0}
    /\ \A c \in Calls : c \in CallOptions

VARIABLE call      \* the options of this call, constant after Init

NumFiles == call.NumFiles
ChunkCounts == call.ChunkCounts
MaxConcurrency == call.MaxConcurrency
IsUpload == call.IsUpload
MaySkip == call.MaySkip
Reraise == call.Reraise
RaisePutGetError == call.RaisePutGetError
FinishMayRaise == call.FinishMayRaise

Files == 1..NumFiles
Pre(f) == <<"preprocess", f, 0>>
Chunk(f, c) == <<"network", f, c>>
Post(f) == <<"postprocess", f, 0>>
Chunks(f) == {Chunk(f, c) : c \in 1..MaxChunks}
TasksOf(files) == {Pre(f) : f \in files} \cup {Post(f) : f \in files}
                    \cup UNION {Chunks(f) : f \in files}
Tasks == TasksOf(Files)
PoolOf(t) == t[1]
FileOf(t) == t[2]
PoolSize(pool) == IF pool = "network" THEN call.MaxConcurrency ELSE call.IOBoundLimit

VARIABLES
    task,          \* where each task is, see TaskStates
    num_of_chunks, successful_transfers, failed_transfers,  \* storage client
    result_status, error_details,                           \* SnowflakeFileMeta
    num_files_completed, chunks_in_queue,                   \* TransferMetadata
    exception_caught_in_work, exception_caught_in_callback,
    main,          \* where the main thread is, see MainStates
    completed_files  \* history: files notify_file_completed was called for

client == <<num_of_chunks, successful_transfers, failed_transfers>>
meta == <<result_status, error_details>>
exceptions == <<exception_caught_in_work, exception_caught_in_callback>>
vars == <<call, task, client, meta, num_files_completed, chunks_in_queue,
          exceptions, main, completed_files>>

(* "ok" and "failed": the work has ended and the callback is to run.       *)
(* "waiting" and "notified": the preprocess callback is in or has left     *)
(* cv_chunk_process.wait().  "ok2" and "failed2": transfer_done_cb has     *)
(* left cv_chunk_process and is about to take the client's lock.           *)
OnThread == {"working", "ok", "failed", "waiting", "notified", "ok2", "failed2"}
TaskStates == OnThread \cup {"absent", "queued", "done"}
Raised == {"raised_work", "raised_callback", "raised_result"}
MainStates == {"submitting", "entering", "waiting", "notified", "returned",
               "reported"} \cup Raised
Final == {"SKIPPED", "UPLOADED", "DOWNLOADED", "ERROR"}
Statuses == Final \cup {"None"}   \* "None" also stands for NOT_FOUND_FILE

-----------------------------------------------------------------------------
(* cv_main_thread.notify(): lost when the main thread is not waiting.      *)
NotifyMain == main' = IF main = "waiting" THEN "notified" ELSE main

notify_file_completed(f) ==
    /\ num_files_completed' = num_files_completed + 1
    /\ completed_files' = completed_files \cup {f}
    /\ NotifyMain

NoFileCompleted == UNCHANGED <<num_files_completed, completed_files>>

(* A callback raises: the wrapper stores the exception.                    *)
CallbackRaises ==
    /\ exception_caught_in_callback' = TRUE
    /\ NotifyMain
    /\ NoFileCompleted
    /\ UNCHANGED exception_caught_in_work

(* cv_chunk_process.notify() wakes one of the waiting callbacks, if any;   *)
(* new is the task function with the changes of the notifying task.        *)
ChunkWaiters == {f \in Files : task[Pre(f)] = "waiting"}

NotifyChunkProcess(new) ==
    IF ChunkWaiters = {} THEN task' = new
    ELSE \E f \in ChunkWaiters : task' = [new EXCEPT ![Pre(f)] = "notified"]

-----------------------------------------------------------------------------
Init ==
    /\ call \in Calls
    /\ task = [t \in Tasks |-> "absent"]
    /\ num_of_chunks = [f \in Files |-> 0]
    /\ successful_transfers = [f \in Files |-> 0]
    /\ failed_transfers = [f \in Files |-> 0]
    /\ result_status = [f \in Files |-> "None"]
    /\ error_details = [f \in Files |-> FALSE]
    /\ num_files_completed = 0
    /\ chunks_in_queue = 0
    /\ exception_caught_in_work = FALSE
    /\ exception_caught_in_callback = FALSE
    /\ main = "submitting"
    /\ completed_files = {}

(* The main thread submits the files' preprocessing in order.              *)
SubmitPreprocess(f) ==
    /\ main = "submitting"
    /\ \A g \in Files : task[Pre(g)] = "absent" <=> g >= f
    /\ task' = [task EXCEPT ![Pre(f)] = "queued"]
    /\ main' = IF f = NumFiles THEN "entering" ELSE main
    /\ UNCHANGED <<client, meta, num_files_completed, chunks_in_queue,
                   exceptions, completed_files>>

(* with cv_main_thread: while num_files_completed < num_total_files: wait  *)
MainEnter ==
    /\ main = "entering"
    /\ main' = IF num_files_completed < NumFiles THEN "waiting" ELSE "returned"
    /\ UNCHANGED <<task, client, meta, num_files_completed, chunks_in_queue,
                   exceptions, completed_files>>

MainWake ==
    /\ main = "notified"
    /\ main' = IF exception_caught_in_work THEN "raised_work"
               ELSE IF exception_caught_in_callback THEN "raised_callback"
               ELSE IF num_files_completed < NumFiles THEN "waiting"
               ELSE "returned"
    /\ UNCHANGED <<task, client, meta, num_files_completed, chunks_in_queue,
                   exceptions, completed_files>>

(* result(): the rows, or the first error when errors are to be raised.    *)
Report ==
    /\ main = "returned"
    /\ main' = IF RaisePutGetError /\ \E f \in Files : error_details[f]
               THEN "raised_result" ELSE "reported"
    /\ UNCHANGED <<task, client, meta, num_files_completed, chunks_in_queue,
                   exceptions, completed_files>>

-----------------------------------------------------------------------------
(* A free thread of the pool takes a task; the chunks of one file are      *)
(* taken in the order they were submitted in.                              *)
StartWork(t) ==
    /\ task[t] = "queued"
    /\ \A u \in Tasks : PoolOf(u) = PoolOf(t) /\ FileOf(u) = FileOf(t)
                           /\ task[u] = "queued" => u[3] >= t[3]
    /\ Cardinality({u \in Tasks : PoolOf(u) = PoolOf(t) /\ task[u] \in OnThread})
          < PoolSize(PoolOf(t))
    /\ task' = [task EXCEPT ![t] = "working"]
    /\ UNCHANGED <<client, meta, num_files_completed, chunks_in_queue,
                   exceptions, main, completed_files>>

(* What get_file_header and preprocess may leave in result_status: the     *)
(* object was found on the stage or not; an upload may be skipped for it.  *)
HeaderStatuses ==
    {"UPLOADED", "None"} \cup (IF IsUpload /\ MaySkip THEN {"SKIPPED"} ELSE {})

(* prepare_upload or prepare_download sets the number of chunks.           *)
Prepare(f, counts, statuses) ==
    /\ \E n \in counts : num_of_chunks' = [num_of_chunks EXCEPT ![f] = n]
    /\ \E s \in statuses : result_status' = [result_status EXCEPT ![f] = s]
    /\ UNCHANGED <<successful_transfers, failed_transfers>>

AllTransferred(f) ==
    successful_transfers[f] = num_of_chunks[f] /\ num_of_chunks[f] # 0

(* finish_download: the status is set before the file is decrypted.        *)
FinishDownloadStatus(f) ==
    [result_status EXCEPT ![f] =
        IF AllTransferred(f) THEN "DOWNLOADED" ELSE "ERROR"]

(* download_chunk of the S3 client sets DOWNLOADED for a file of one chunk *)
ChunkStatuses(f) ==
    {result_status[f]} \cup
        (IF ~IsUpload /\ num_of_chunks[f] = 1 THEN {"DOWNLOADED"} ELSE {})

WorkSucceeds(t) ==
    LET f == FileOf(t) IN
    /\ task[t] = "working"
    /\ task' = [task EXCEPT ![t] = "ok"]
    /\ CASE PoolOf(t) = "preprocess" ->
              Prepare(f, ChunkCounts, HeaderStatuses)
         [] PoolOf(t) = "network" ->
              /\ \E s \in ChunkStatuses(f) :
                   result_status' = [result_status EXCEPT ![f] = s]
              /\ UNCHANGED client
         [] OTHER -> result_status' = FinishDownloadStatus(f) /\ UNCHANGED client
    /\ UNCHANGED error_details
    /\ UNCHANGED <<num_files_completed, chunks_in_queue, exceptions, main,
                   completed_files>>

(* The wrapper keeps the exception in file_meta.error_details; the         *)
(* postprocess task is given the TransferMetadata for its file_meta, so    *)
(* there the exception never reaches the file's meta.                      *)
WorkRaises(t) ==
    LET f == FileOf(t) IN
    /\ task[t] = "working" /\ call.WorkMayRaise
    /\ task' = [task EXCEPT ![t] = "failed"]
    /\ CASE PoolOf(t) = "preprocess" ->
              /\ Prepare(f, {0} \cup ChunkCounts, HeaderStatuses)
              /\ error_details' = [error_details EXCEPT ![f] = TRUE]
         [] PoolOf(t) = "network" ->
              /\ error_details' = [error_details EXCEPT ![f] = TRUE]
              /\ UNCHANGED <<client, result_status>>
         [] OTHER ->
              /\ AllTransferred(f)
              /\ result_status' = FinishDownloadStatus(f)
              /\ UNCHANGED <<client, error_details>>
    /\ IF Reraise THEN exception_caught_in_work' = TRUE /\ NotifyMain
       ELSE UNCHANGED <<exception_caught_in_work, main>>
    /\ UNCHANGED <<num_files_completed, chunks_in_queue,
                   exception_caught_in_callback, completed_files>>

-----------------------------------------------------------------------------
Bug_FinishUpload(f, s) ==
    LET n == num_of_chunks[f] IN
    /\ result_status' = [result_status EXCEPT ![f] =
           IF s = 0 THEN "ERROR" ELSE "UPLOADED"]
    /\ notify_file_completed(f)
    /\ UNCHANGED <<error_details, exceptions>>

(* finish_upload, under the client's lock, with s successful transfers.    *)
(* Completing or aborting a multipart upload may raise.                    *)
FinishUpload(f, s) ==
    LET n == num_of_chunks[f] IN
    \/ /\ result_status' = [result_status EXCEPT ![f] =
              IF s = n /\ n # 0 THEN "UPLOADED" ELSE "ERROR"]
       /\ notify_file_completed(f)
       /\ UNCHANGED <<error_details, exceptions>>
    \/ /\ FinishMayRaise /\ n > 1
       /\ CallbackRaises
       /\ UNCHANGED meta

(* preprocess_done_cb after a failure.                                     *)
PreprocessFailed(f) ==
    /\ task[Pre(f)] = "failed"
    /\ task' = [task EXCEPT ![Pre(f)] = "done"]
    /\ IF IsUpload THEN FinishUpload(f, successful_transfers[f])
       ELSE /\ result_status' = FinishDownloadStatus(f)
            /\ notify_file_completed(f)
            /\ UNCHANGED <<error_details, exceptions>>
    /\ UNCHANGED <<client, chunks_in_queue>>

PreprocessSkipped(f) ==
    /\ task[Pre(f)] = "ok"
    /\ result_status[f] = "SKIPPED"
    /\ task' = [task EXCEPT ![Pre(f)] = "done"]
    /\ notify_file_completed(f)
    /\ UNCHANGED <<client, meta, chunks_in_queue, exceptions>>

(* preprocess_done_cb submits the file's chunks, or waits while the queue  *)
(* is busy.                                                                *)
QueueBusy == chunks_in_queue > 2 * MaxConcurrency

SubmitChunks(f) ==
    /\ \/ task[Pre(f)] = "ok" /\ result_status[f] # "SKIPPED"
       \/ task[Pre(f)] = "notified"
    /\ ~QueueBusy
    /\ NotifyChunkProcess([t \in Tasks |->
           IF t = Pre(f) THEN "done"
           ELSE IF t \in {Chunk(f, c) : c \in 1..num_of_chunks[f]} THEN "queued"
           ELSE task[t]])
    /\ chunks_in_queue' = chunks_in_queue + num_of_chunks[f]
    /\ UNCHANGED <<client, meta, num_files_completed, exceptions, main,
                   completed_files>>

WaitForQueue(f) ==
    /\ \/ task[Pre(f)] = "ok" /\ result_status[f] # "SKIPPED"
       \/ task[Pre(f)] = "notified"
    /\ QueueBusy
    /\ task' = [task EXCEPT ![Pre(f)] = "waiting"]
    /\ UNCHANGED <<client, meta, num_files_completed, chunks_in_queue,
                   exceptions, main, completed_files>>

Bug_ChunkLeavesQueue(t) ==
    /\ PoolOf(t) = "network" /\ task[t] \in {"ok", "failed"}
    /\ NotifyChunkProcess(
           [task EXCEPT ![t] = IF @ = "ok" THEN "ok2" ELSE "failed2"])
    /\ chunks_in_queue' = IF task[t] = "ok" THEN chunks_in_queue - 1
                          ELSE chunks_in_queue
    /\ UNCHANGED <<client, meta, num_files_completed, exceptions, main,
                   completed_files>>

(* transfer_done_cb, first under cv_chunk_process ...                      *)
ChunkLeavesQueue(t) ==
    /\ PoolOf(t) = "network" /\ task[t] \in {"ok", "failed"}
    /\ NotifyChunkProcess(
           [task EXCEPT ![t] = IF @ = "ok" THEN "ok2" ELSE "failed2"])
    /\ chunks_in_queue' = chunks_in_queue - 1
    /\ UNCHANGED <<client, meta, num_files_completed, exceptions, main,
                   completed_files>>

(* ... then under the client's lock: the last chunk finishes the file.     *)
ChunkCounted(t) ==
    LET f == FileOf(t)
        s == successful_transfers[f] + (IF task[t] = "ok2" THEN 1 ELSE 0)
        e == failed_transfers[f] + (IF task[t] = "failed2" THEN 1 ELSE 0)
        last == s + e = num_of_chunks[f]
    IN
    /\ task[t] \in {"ok2", "failed2"}
    /\ successful_transfers' = [successful_transfers EXCEPT ![f] = s]
    /\ failed_transfers' = [failed_transfers EXCEPT ![f] = e]
    /\ task' = [task EXCEPT ![t] = "done",
                   ![Post(f)] = IF last /\ ~IsUpload THEN "queued" ELSE @]
    /\ IF last /\ IsUpload THEN FinishUpload(f, s)
       ELSE NoFileCompleted /\ UNCHANGED <<meta, exceptions, main>>
    /\ UNCHANGED <<num_of_chunks, chunks_in_queue>>

Bug_PostprocessDone(f) ==
    /\ task[Post(f)] \in {"ok", "failed"}
    /\ task' = [task EXCEPT ![Post(f)] = "done"]
    /\ IF task[Post(f)] = "ok"
       THEN notify_file_completed(f) /\ UNCHANGED failed_transfers
       ELSE /\ failed_transfers' = [failed_transfers EXCEPT ![f] = @ + 1]
            /\ NoFileCompleted /\ UNCHANGED main
    /\ UNCHANGED <<num_of_chunks, successful_transfers, meta, chunks_in_queue,
                   exceptions>>

(* postprocess_done_cb.                                                    *)
PostprocessDone(f) ==
    /\ task[Post(f)] \in {"ok", "failed"}
    /\ task' = [task EXCEPT ![Post(f)] = "done"]
    /\ failed_transfers' = [failed_transfers EXCEPT ![f] =
           IF task[Post(f)] = "failed" THEN @ + 1 ELSE @]
    /\ notify_file_completed(f)
    /\ UNCHANGED <<num_of_chunks, successful_transfers, meta, chunks_in_queue,
                   exceptions>>

-----------------------------------------------------------------------------
Main == (\E f \in Files : SubmitPreprocess(f)) \/ MainEnter \/ MainWake \/ Report

PoolThread(t) ==
    \/ StartWork(t)
    \/ WorkSucceeds(t)
    \/ WorkRaises(t)
    \/ ChunkLeavesQueue(t)
    \/ ChunkCounted(t)

Callback(f) ==
    \/ PreprocessFailed(f)
    \/ PreprocessSkipped(f)
    \/ SubmitChunks(f)
    \/ WaitForQueue(f)
    \/ PostprocessDone(f)

Over == main \in {"reported"} \cup Raised
Quiet == \A t \in Tasks : task[t] \in {"absent", "done"}
Finished == Over /\ Quiet /\ UNCHANGED vars

Next ==
    /\ \/ Main
       \/ \E t \in Tasks : PoolThread(t)
       \/ \E f \in Files : Callback(f)
       \/ Finished
    /\ UNCHANGED call

(* The main thread and every pool thread keep running: requests have       *)
(* timeouts and their retries are bounded, so every work function ends.    *)
Spec ==
    /\ Init /\ [][Next]_vars
    /\ WF_vars(Main /\ UNCHANGED call)
    /\ \A t \in TasksOf(1..MaxFiles) : WF_vars(t \in Tasks /\ PoolThread(t) /\ UNCHANGED call)
    /\ \A f \in 1..MaxFiles : WF_vars(f \in Files /\ Callback(f) /\ UNCHANGED call)

-----------------------------------------------------------------------------
TypeOK ==
    /\ call \in Calls
    /\ task \in [Tasks -> TaskStates]
    /\ num_of_chunks \in [Files -> 0..MaxChunks]
    /\ successful_transfers \in [Files -> 0..MaxChunks]
    /\ failed_transfers \in [Files -> 0..MaxChunks + 1]
    /\ result_status \in [Files -> Statuses]
    /\ error_details \in [Files -> BOOLEAN]
    /\ num_files_completed \in 0..NumFiles
    /\ chunks_in_queue \in 0..NumFiles * MaxChunks
    /\ exceptions \in BOOLEAN \X BOOLEAN
    /\ main \in MainStates
    /\ completed_files \subseteq Files

(* The chunk counter that throttles the callbacks is exact: it counts the  *)
(* chunks that were submitted and have not reached their callback, so it   *)
(* is zero again when the pools are idle.                                  *)
QueueCounterExact ==
    chunks_in_queue =
        Cardinality({t \in Tasks : PoolOf(t) = "network"
                        /\ task[t] \in {"queued", "working", "ok", "failed"}})

(* The throttle bounds the backlog of the network pool: one file's chunks  *)
(* on top of twice the pool's size, however many files are ready.          *)
BacklogBounded == chunks_in_queue <= 2 * MaxConcurrency + MaxChunks

(* When transfer() returns, every file has been reported exactly once, has *)
(* a final status, and no pool thread is still at work on any of them.     *)
ReturnMeansFinished ==
    main \in {"returned", "reported", "raised_result"} =>
        /\ completed_files = Files
        /\ num_files_completed = NumFiles
        /\ \A f \in Files : result_status[f] \in Final
        /\ Quiet

(* A file that was reported complete has a status of success only when     *)
(* every chunk was transferred, although header requests and single chunks *)
(* set the same statuses on the way: none failed, none is still under way. *)
SuccessMeansAllChunks ==
    \A f \in completed_files :
        result_status[f] \in {"UPLOADED", "DOWNLOADED"} =>
            /\ successful_transfers[f] = num_of_chunks[f]
            /\ \A c \in 1..num_of_chunks[f] : task[Chunk(f, c)] = "done"
            /\ ~error_details[f]

(* A preparation or a chunk that raised is never silent: when transfer()   *)
(* has returned, the file has status ERROR, and with RaisePutGetError the  *)
(* caller gets an exception.                                               *)
TransferErrorsReported ==
    \A f \in Files :
        /\ error_details[f] /\ main \in {"returned", "reported"}
              => result_status[f] = "ERROR"
        /\ error_details[f] /\ RaisePutGetError => main # "reported"

(* The call ends, by returning or by raising, when the pools' work         *)
(* functions may raise and the callbacks do not.                           *)
TransferEnds == ~FinishMayRaise => <>Over

(* The call ends, by returning or by raising, whatever the pools meet.     *)
TransferAlwaysEnds == <>Over

(* With RaisePutGetError, a GET whose finish_download raised for some file *)
(* does not end with a plain report.                                       *)
DownloadErrorsRaised ==
    RaisePutGetError /\ ~IsUpload /\ main = "reported" =>
        \A f \in Files : failed_transfers[f] = 0

(* The throttle of the network pool works: its counter is exact, so it     *)
(* returns to zero and never below, and it bounds the backlog.             *)
ThrottleSound == TypeOK /\ QueueCounterExact /\ BacklogBounded

(* What transfer() and result() tell the caller is true: a return means    *)
(* that everything has ended, a success that every chunk was transferred,  *)
(* and an error of a preparation or a chunk is never swallowed.            *)
ReportHonest == ReturnMeansFinished /\ SuccessMeansAllChunks /\ TransferErrorsReported
=============================================================================
