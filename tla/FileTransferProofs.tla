------------------------- MODULE FileTransferProofs -------------------------
(* Proofs about FileTransfer, for every set of calls: any number of files   *)
(* and of chunks, any sizes of the pools, PUT and GET, and work functions   *)
(* and callbacks that raise at any point.                                   *)
EXTENDS FileTransfer, FiniteSetTheorems, TLAPS

Typed ==
    /\ call \in Calls
    /\ task \in [Tasks -> TaskStates]
    /\ num_of_chunks \in [Files -> 0..MaxChunks]
    /\ successful_transfers \in [Files -> Nat]
    /\ failed_transfers \in [Files -> Nat]
    /\ result_status \in [Files -> Statuses]
    /\ error_details \in [Files -> BOOLEAN]
    /\ chunks_in_queue \in Int
    /\ exception_caught_in_work \in BOOLEAN /\ exception_caught_in_callback \in BOOLEAN
    /\ main \in MainStates
    /\ completed_files \in SUBSET Files

\* No chunk of the file was submitted.
NothingSubmitted(f) ==
    /\ \A c \in 1..MaxChunks : task[Chunk(f, c)] = "absent"
    /\ task[Post(f)] = "absent"
    /\ successful_transfers[f] = 0 /\ failed_transfers[f] = 0

DoneChunks(f) == {c \in 1..num_of_chunks[f] : task[Chunk(f, c)] = "done"}

\* The chunks were submitted: the counters are those of the chunks whose
\* callback has run, and the file ends only after the last of them.
ChunksSubmitted(f) ==
    LET n == num_of_chunks[f]
        s == successful_transfers[f]
        e == failed_transfers[f]
        d == Cardinality(DoneChunks(f))
    IN
    /\ n > 0 /\ s <= d
    /\ \A c \in 1..MaxChunks : task[Chunk(f, c)] = "absent" <=> c > n
    /\ error_details[f] =>
         s < d \/ \E c \in 1..n : task[Chunk(f, c)] \in {"failed", "failed2"}
    /\ task[Post(f)] # "done" => s + e = d
    /\ task[Post(f)] = "done" => e <= n + 1
    /\ task[Post(f)] # "absent" => ~IsUpload /\ d = n
    /\ task[Post(f)] \in {"ok", "failed", "done"} =>
         result_status[f] = IF s = n THEN "DOWNLOADED" ELSE "ERROR"
    /\ f \in completed_files =>
         /\ d = n
         /\ ~IsUpload => task[Post(f)] = "done"
         /\ IsUpload => result_status[f] = IF s = n THEN "UPLOADED" ELSE "ERROR"

\* Where one file is.
FileInv(f) ==
    /\ task[Pre(f)] \notin {"ok2", "failed2"} /\ task[Post(f)] \notin {"ok2", "failed2"}
    /\ task[Pre(f)] # "done" => NothingSubmitted(f) /\ f \notin completed_files
    /\ task[Pre(f)] \in {"absent", "queued", "working", "ok", "waiting", "notified"}
         => ~error_details[f]
    /\ task[Pre(f)] \in {"ok", "waiting", "notified"} => num_of_chunks[f] > 0
    /\ task[Pre(f)] = "failed" => error_details[f]
    /\ task[Pre(f)] = "done" =>
         \/ ChunksSubmitted(f)
         \/ /\ NothingSubmitted(f)
            /\ f \in completed_files =>
                 \/ result_status[f] = "SKIPPED" /\ ~error_details[f]
                 \/ result_status[f] = "ERROR"

\* The main thread has left its loop only after the last file.
MainInv ==
    /\ num_files_completed = Cardinality(completed_files)
    /\ main \in {"returned", "reported", "raised_result"} => num_files_completed >= NumFiles
    /\ main = "reported" /\ RaisePutGetError => \A f \in Files : ~error_details[f]

InQueue == {t \in Tasks : PoolOf(t) = "network"
                            /\ task[t] \in {"queued", "working", "ok", "failed"}}

FilesInv == \A f \in Files : FileInv(f)

Inv == Typed /\ FilesInv /\ MainInv /\ QueueCounterExact /\ BacklogBounded

(* The parameters of a call of transfer().                                  *)
LEMMA CallFacts ==
    ASSUME call \in Calls
    PROVE  /\ NumFiles \in Nat \ {0} /\ MaxConcurrency \in Nat \ {0} /\ MaxChunks \in Nat \ {0}
           /\ ChunkCounts \subseteq 1..MaxChunks
           /\ IsUpload \in BOOLEAN /\ MaySkip \in BOOLEAN /\ Reraise \in BOOLEAN
           /\ RaisePutGetError \in BOOLEAN /\ FinishMayRaise \in BOOLEAN
BY ParametersAssumption
   DEF CallOptions, NumFiles, MaxConcurrency, ChunkCounts, IsUpload, MaySkip, Reraise,
       RaisePutGetError, FinishMayRaise

(* The tasks of the three pools are different tasks, and there are no more. *)
LEMMA TaskFacts ==
    /\ \A f \in Files : Pre(f) \in Tasks /\ Post(f) \in Tasks
    /\ \A f \in Files, c \in 1..MaxChunks : Chunk(f, c) \in Tasks
    /\ \A t \in Tasks : \E f \in Files :
         t = Pre(f) \/ t = Post(f) \/ \E c \in 1..MaxChunks : t = Chunk(f, c)
BY DEF Tasks, TasksOf, Chunks

(* The pool and the file of a task, and which chunk of the file it is.      *)
LEMMA TaskParts ==
    /\ \A f : PoolOf(Pre(f)) = "preprocess" /\ FileOf(Pre(f)) = f
    /\ \A f : PoolOf(Post(f)) = "postprocess" /\ FileOf(Post(f)) = f
    /\ \A f, c : PoolOf(Chunk(f, c)) = "network" /\ FileOf(Chunk(f, c)) = f
    /\ \A f, g, c, d : Chunk(f, c) = Chunk(g, d) => f = g /\ c = d
BY DEF Pre, Post, Chunk, PoolOf, FileOf

(* The options of the call, and with them the files and tasks, stay.        *)
LEMMA SameCall ==
    ASSUME call' = call
    PROVE  /\ NumFiles' = NumFiles /\ Files' = Files /\ Tasks' = Tasks
           /\ MaxConcurrency' = MaxConcurrency /\ ChunkCounts' = ChunkCounts
           /\ IsUpload' = IsUpload /\ RaisePutGetError' = RaisePutGetError
           /\ Calls' = Calls
BY DEF NumFiles, Files, Tasks, TasksOf, Chunks, MaxConcurrency, ChunkCounts, IsUpload,
       RaisePutGetError

(* Every step keeps the types.                                              *)
LEMMA TypedStep == Typed /\ [Next]_vars => Typed'
<1> SUFFICES ASSUME Typed, [Next]_vars PROVE Typed'
  OBVIOUS
<1>1. CASE UNCHANGED vars
  BY <1>1 DEF vars, client, meta, exceptions, Typed, Files, Tasks, TasksOf, Chunks, NumFiles
<1>2. CASE Next
  <2>0. /\ call' = call /\ call \in Calls
    BY <1>2 DEF Next, Typed
  <2>1. /\ NumFiles \in Nat \ {0} /\ MaxChunks \in Nat \ {0} /\ ChunkCounts \subseteq 1..MaxChunks
        /\ Files' = Files /\ Tasks' = Tasks
    BY <2>0, CallFacts, SameCall
  <2>2. /\ \A f \in Files : Pre(f) \in Tasks /\ Post(f) \in Tasks
        /\ \A t \in Tasks : FileOf(t) \in Files
    BY TaskFacts, TaskParts
  <2>3. /\ task \in [Tasks -> TaskStates] /\ num_of_chunks \in [Files -> 0..MaxChunks]
        /\ successful_transfers \in [Files -> Nat] /\ failed_transfers \in [Files -> Nat]
        /\ result_status \in [Files -> Statuses] /\ error_details \in [Files -> BOOLEAN]
        /\ chunks_in_queue \in Int
        /\ exception_caught_in_work \in BOOLEAN /\ exception_caught_in_callback \in BOOLEAN
        /\ main \in MainStates /\ completed_files \in SUBSET Files
    BY DEF Typed
  <2> DEFINE TypedParts ==
        /\ task' \in [Tasks -> TaskStates] /\ num_of_chunks' \in [Files -> 0..MaxChunks]
        /\ successful_transfers' \in [Files -> Nat] /\ failed_transfers' \in [Files -> Nat]
        /\ result_status' \in [Files -> Statuses] /\ error_details' \in [Files -> BOOLEAN]
        /\ chunks_in_queue' \in Int
        /\ exception_caught_in_work' \in BOOLEAN /\ exception_caught_in_callback' \in BOOLEAN
        /\ main' \in MainStates /\ completed_files' \in SUBSET Files
  <2>4. SUFFICES TypedParts
    BY <2>0, <2>1 DEF Typed
  <2> HIDE DEF Files, Tasks
  <2> USE <2>1, <2>2, <2>3 DEF TaskStates, OnThread, MainStates, Raised, Statuses, Final, client,
        meta, exceptions
  <2>5. ASSUME NEW f \in Files, SubmitPreprocess(f) PROVE TypedParts
    BY <2>5 DEF SubmitPreprocess
  <2>6. CASE MainEnter
    BY <2>6 DEF MainEnter
  <2>7. CASE MainWake
    BY <2>7 DEF MainWake
  <2>8. CASE Report
    BY <2>8 DEF Report
  <2>9. ASSUME NEW t \in Tasks, StartWork(t) PROVE TypedParts
    BY <2>9 DEF StartWork
  <2>10. ASSUME NEW t \in Tasks, WorkSucceeds(t) PROVE TypedParts
    BY <2>10 DEF WorkSucceeds, Prepare, HeaderStatuses, ChunkStatuses, FinishDownloadStatus
  <2>11. ASSUME NEW t \in Tasks, WorkRaises(t) PROVE TypedParts
    <3>1. exception_caught_in_work' \in BOOLEAN
      BY <2>11, Zenon DEF WorkRaises
    <3>2. error_details' \in [Files -> BOOLEAN]
      BY <2>11 DEF WorkRaises
    <3>3. /\ result_status' \in [Files -> Statuses] /\ num_of_chunks' \in [Files -> 0..MaxChunks]
          /\ UNCHANGED <<successful_transfers, failed_transfers>>
      BY <2>11 DEF WorkRaises, Prepare, HeaderStatuses, FinishDownloadStatus
    <3>4. task' \in [Tasks -> TaskStates] /\ main' \in MainStates
      BY <2>11 DEF WorkRaises, NotifyMain
    <3> QED
      BY <2>11, <3>1, <3>2, <3>3, <3>4 DEF WorkRaises
  <2>12. ASSUME NEW t \in Tasks, ChunkLeavesQueue(t) PROVE TypedParts
    BY <2>12 DEF ChunkLeavesQueue, NotifyChunkProcess, ChunkWaiters
  <2>13. ASSUME NEW t \in Tasks, ChunkCounted(t) PROVE TypedParts
    <3>1. task' \in [Tasks -> TaskStates]
      BY <2>13 DEF ChunkCounted
    <3>2. successful_transfers' \in [Files -> Nat] /\ failed_transfers' \in [Files -> Nat]
      BY <2>13 DEF ChunkCounted
    <3>3. exception_caught_in_callback' \in BOOLEAN
      BY <2>13, Zenon DEF ChunkCounted, FinishUpload, CallbackRaises
    <3>4. /\ result_status' \in [Files -> Statuses] /\ main' \in MainStates
          /\ completed_files' \in SUBSET Files
          /\ UNCHANGED <<num_of_chunks, error_details, chunks_in_queue, exception_caught_in_work>>
      BY <2>13 DEF ChunkCounted, FinishUpload, notify_file_completed, NotifyMain, CallbackRaises,
                   NoFileCompleted
    <3> QED
      BY <3>1, <3>2, <3>3, <3>4
  <2>14. ASSUME NEW f \in Files, PreprocessFailed(f) PROVE TypedParts
    BY <2>14 DEF PreprocessFailed, FinishUpload, FinishDownloadStatus, notify_file_completed,
                 NotifyMain, CallbackRaises, NoFileCompleted
  <2>15. ASSUME NEW f \in Files, PreprocessSkipped(f) PROVE TypedParts
    BY <2>15 DEF PreprocessSkipped, notify_file_completed, NotifyMain
  <2>16. ASSUME NEW f \in Files, SubmitChunks(f) PROVE TypedParts
    <3> DEFINE new == [t \in Tasks |->
                         IF t = Pre(f) THEN "done"
                         ELSE IF t \in {Chunk(f, c) : c \in 1..num_of_chunks[f]} THEN "queued"
                         ELSE task[t]]
    <3>1. new \in [Tasks -> TaskStates] /\ NotifyChunkProcess(new)
      BY <2>16 DEF SubmitChunks
    <3> HIDE DEF new
    <3>2. task' \in [Tasks -> TaskStates]
      BY <3>1 DEF NotifyChunkProcess, ChunkWaiters
    <3> QED
      BY <2>16, <3>2 DEF SubmitChunks
  <2>17. ASSUME NEW f \in Files, WaitForQueue(f) PROVE TypedParts
    BY <2>17 DEF WaitForQueue
  <2>18. ASSUME NEW f \in Files, PostprocessDone(f) PROVE TypedParts
    BY <2>18 DEF PostprocessDone, notify_file_completed, NotifyMain
  <2>19. CASE Finished
    BY <2>19 DEF Finished, vars
  <2> HIDE DEF TypedParts
  <2> QED
    BY <1>2, <2>5, <2>6, <2>7, <2>8, <2>9, <2>10, <2>11, <2>12, <2>13, <2>14, <2>15, <2>16,
       <2>17, <2>18, <2>19
       DEF Next, Main, PoolThread, Callback
<1> QED
  BY <1>1, <1>2

-----------------------------------------------------------------------------
\* A step that is about another file: it may at most wake this file's callback.
SameFile(g) ==
    /\ \/ task'[Pre(g)] = task[Pre(g)]
       \/ task[Pre(g)] = "waiting" /\ task'[Pre(g)] = "notified"
    /\ task'[Post(g)] = task[Post(g)]
    /\ \A c \in 1..MaxChunks : task'[Chunk(g, c)] = task[Chunk(g, c)]
    /\ num_of_chunks'[g] = num_of_chunks[g]
    /\ successful_transfers'[g] = successful_transfers[g]
    /\ failed_transfers'[g] = failed_transfers[g]
    /\ result_status'[g] = result_status[g]
    /\ error_details'[g] = error_details[g]
    /\ g \in completed_files' <=> g \in completed_files

(* The chunks that are done are some of the file's chunks.                  *)
LEMMA DoneChunksFacts ==
    ASSUME Typed, NEW f \in Files
    PROVE  /\ IsFiniteSet(DoneChunks(f)) /\ Cardinality(DoneChunks(f)) \in Nat
           /\ Cardinality(DoneChunks(f)) <= num_of_chunks[f]
           /\ Cardinality(DoneChunks(f)) = num_of_chunks[f]
                => \A c \in 1..num_of_chunks[f] : task[Chunk(f, c)] = "done"
<1> DEFINE n == num_of_chunks[f]
<1>1. n \in Nat
  BY CallFacts DEF Typed
<1> HIDE DEF n
<1>2. IsFiniteSet(1..n) /\ Cardinality(1..n) = n
  BY <1>1, FS_Interval
<1>3. DoneChunks(f) \in SUBSET (1..n)
  BY DEF DoneChunks, n
<1>4. /\ IsFiniteSet(DoneChunks(f)) /\ Cardinality(DoneChunks(f)) <= n
      /\ Cardinality(DoneChunks(f)) = n => DoneChunks(f) = 1..n
  BY <1>2, <1>3, FS_Subset
<1>5. Cardinality(DoneChunks(f)) \in Nat
  BY <1>4, FS_CardinalityType
<1> QED
  BY <1>4, <1>5 DEF n, DoneChunks

(* The chunks that are done stay the same when no chunk becomes done.       *)
LEMMA SameDoneChunks ==
    ASSUME Typed, NEW g \in Files, num_of_chunks'[g] = num_of_chunks[g],
           \A c \in 1..MaxChunks : task'[Chunk(g, c)] = "done" <=> task[Chunk(g, c)] = "done"
    PROVE  DoneChunks(g)' = DoneChunks(g)
<1>1. num_of_chunks[g] \in 0..MaxChunks /\ MaxChunks \in Nat
  BY CallFacts DEF Typed
<1> QED
  BY <1>1 DEF DoneChunks

(* What holds of a file still holds after a step that is about another one. *)
LEMMA SameFileInv ==
    ASSUME Typed, call' = call, NEW g \in Files, FileInv(g), SameFile(g)
    PROVE  FileInv(g)'
<1>1. DoneChunks(g)' = DoneChunks(g)
  BY SameDoneChunks DEF SameFile
<1>2. num_of_chunks[g] \in 0..MaxChunks /\ MaxChunks \in Nat /\ IsUpload' = IsUpload
  BY CallFacts, SameCall DEF Typed
<1>3. NothingSubmitted(g)' <=> NothingSubmitted(g)
  BY <1>2 DEF SameFile, NothingSubmitted
<1>4. ChunksSubmitted(g)' <=> ChunksSubmitted(g)
  BY <1>1, <1>2 DEF SameFile, ChunksSubmitted
<1> QED
  BY <1>2, <1>3, <1>4 DEF SameFile, FileInv

(* So a step keeps what holds of the files when it keeps it for its own.    *)
LEMMA OneFileStep ==
    ASSUME Typed, FilesInv, call' = call, NEW f \in Files,
           \A g \in Files \ {f} : SameFile(g), FileInv(f)'
    PROVE  FilesInv'
<1>1. \A g \in Files \ {f} : FileInv(g)'
  BY SameFileInv DEF FilesInv
<1> QED
  BY <1>1, SameCall DEF FilesInv

(* Waking a callback changes nothing but the task of a callback that waits. *)
LEMMA NotifyFacts ==
    ASSUME NEW new \in [Tasks -> TaskStates], NotifyChunkProcess(new)
    PROVE  /\ task' \in [Tasks -> TaskStates]
           /\ \A t \in Tasks :
                \/ task'[t] = new[t]
                \/ \E g \in Files : t = Pre(g) /\ task[t] = "waiting" /\ task'[t] = "notified"
BY TaskFacts DEF NotifyChunkProcess, ChunkWaiters, TaskStates, OnThread

-----------------------------------------------------------------------------
\* What the types and the parameters say, for the lemmas below.
TypedFacts ==
    /\ MaxChunks \in Nat \ {0} /\ ChunkCounts \subseteq 1..MaxChunks
    /\ IsUpload \in BOOLEAN /\ IsUpload' = IsUpload
    /\ \A f \in Files : Pre(f) \in Tasks /\ Post(f) \in Tasks
    /\ \A f \in Files, c \in 1..MaxChunks : Chunk(f, c) \in Tasks
    /\ \A f, g : /\ Pre(f) # Post(g) /\ (Pre(f) = Pre(g) => f = g)
                 /\ (Post(f) = Post(g) => f = g)
    /\ \A f, g, c : Pre(f) # Chunk(g, c) /\ Post(f) # Chunk(g, c)
    /\ \A f, g, c, d : Chunk(f, c) = Chunk(g, d) => f = g /\ c = d
    /\ task \in [Tasks -> TaskStates]
    /\ num_of_chunks \in [Files -> 0..MaxChunks]
    /\ successful_transfers \in [Files -> Nat] /\ failed_transfers \in [Files -> Nat]
    /\ result_status \in [Files -> Statuses] /\ error_details \in [Files -> BOOLEAN]
    /\ completed_files \in SUBSET Files

(* They hold in every typed state of one call.                              *)
LEMMA TypedFactsHold == ASSUME Typed, call' = call PROVE TypedFacts
<1>1. call \in Calls
  BY DEF Typed
<1>2. /\ MaxChunks \in Nat \ {0} /\ ChunkCounts \subseteq 1..MaxChunks
      /\ IsUpload \in BOOLEAN /\ IsUpload' = IsUpload
  BY <1>1, CallFacts, SameCall
<1>3. /\ \A f, g : /\ Pre(f) # Post(g) /\ (Pre(f) = Pre(g) => f = g)
                   /\ (Post(f) = Post(g) => f = g)
      /\ \A f, g, c : Pre(f) # Chunk(g, c) /\ Post(f) # Chunk(g, c)
      /\ \A f, g, c, d : Chunk(f, c) = Chunk(g, d) => f = g /\ c = d
  BY TaskParts
<1> QED
  BY <1>2, <1>3, TaskFacts DEF Typed, TypedFacts

(* The main thread that submits the preprocessing of a file.                *)
LEMMA SubmitPreprocessFile ==
    ASSUME Typed, FilesInv, call' = call, NEW f \in Files, SubmitPreprocess(f)
    PROVE  FilesInv'
<1> USE TypedFactsHold DEF TypedFacts
<1>1. \A g \in Files \ {f} : SameFile(g)
  BY DEF SubmitPreprocess, SameFile, client, meta
<1>2. task[Pre(f)] = "absent" /\ FileInv(f)
  BY CallFacts DEF SubmitPreprocess, FilesInv, Files, Typed
<1>3. FileInv(f)'
  BY <1>2 DEF SubmitPreprocess, FileInv, NothingSubmitted, client, meta
<1> QED
  BY <1>1, <1>3, OneFileStep

(* A thread that takes a task.                                              *)
LEMMA StartWorkFile ==
    ASSUME Typed, FilesInv, call' = call, NEW t \in Tasks, StartWork(t)
    PROVE  FilesInv'
<1> USE TypedFactsHold DEF TypedFacts
<1>1. PICK f \in Files : t = Pre(f) \/ t = Post(f) \/ \E c \in 1..MaxChunks : t = Chunk(f, c)
  BY TaskFacts
<1>2. task[t] = "queued" /\ task' = [task EXCEPT ![t] = "working"]
      /\ UNCHANGED <<client, meta, completed_files>>
  BY DEF StartWork
<1>3. FileInv(f)
  BY DEF FilesInv
<1>4. \A g \in Files \ {f} : SameFile(g)
  BY <1>1, <1>2 DEF SameFile, client, meta
<1>5. DoneChunks(f)' = DoneChunks(f)
  BY <1>1, <1>2, SameDoneChunks DEF client
<1>6. ChunksSubmitted(f) => ChunksSubmitted(f)'
  BY <1>1, <1>2, <1>5 DEF ChunksSubmitted, client, meta
<1>7. NothingSubmitted(f) => NothingSubmitted(f)'
  BY <1>1, <1>2 DEF NothingSubmitted, client, meta
<1>8. FileInv(f)'
  BY <1>1, <1>2, <1>3, <1>6, <1>7 DEF FileInv, client, meta
<1> QED
  BY <1>4, <1>8, OneFileStep

(* A chunk that is under way is one of a file whose chunks were submitted   *)
(* and which has not ended.                                                 *)
LEMMA ChunkUnderWay ==
    ASSUME Typed, FilesInv, call' = call, NEW f \in Files, NEW c \in 1..MaxChunks,
           task[Chunk(f, c)] \notin {"absent", "done"}
    PROVE  /\ FileInv(f) /\ task[Pre(f)] = "done" /\ ChunksSubmitted(f)
           /\ c \in 1..num_of_chunks[f] /\ task[Post(f)] = "absent"
           /\ Cardinality(DoneChunks(f)) \in Nat
           /\ Cardinality(DoneChunks(f)) < num_of_chunks[f]
           /\ f \notin completed_files
<1> USE TypedFactsHold DEF TypedFacts
<1>1. FileInv(f)
  BY DEF FilesInv
<1>2. ~NothingSubmitted(f)
  BY DEF NothingSubmitted
<1>3. task[Pre(f)] = "done" /\ ChunksSubmitted(f)
  BY <1>1, <1>2 DEF FileInv
<1>4. c \in 1..num_of_chunks[f]
  BY <1>3 DEF ChunksSubmitted
<1>5. /\ Cardinality(DoneChunks(f)) \in Nat
      /\ Cardinality(DoneChunks(f)) < num_of_chunks[f]
  BY <1>4, DoneChunksFacts
<1> QED
  BY <1>1, <1>3, <1>4, <1>5 DEF ChunksSubmitted

(* A postprocess task that is under way is one of a download all of whose   *)
(* chunks are done.                                                         *)
LEMMA PostUnderWay ==
    ASSUME Typed, FilesInv, call' = call, NEW f \in Files, task[Post(f)] \notin {"absent", "done"}
    PROVE  /\ FileInv(f) /\ task[Pre(f)] = "done" /\ ChunksSubmitted(f) /\ ~IsUpload
           /\ Cardinality(DoneChunks(f)) = num_of_chunks[f]
           /\ f \notin completed_files
<1> USE TypedFactsHold DEF TypedFacts
<1>1. FileInv(f)
  BY DEF FilesInv
<1>2. ~NothingSubmitted(f)
  BY DEF NothingSubmitted
<1>3. task[Pre(f)] = "done" /\ ChunksSubmitted(f)
  BY <1>1, <1>2 DEF FileInv
<1> QED
  BY <1>1, <1>3 DEF ChunksSubmitted

(* A work function that succeeds.                                           *)
LEMMA WorkSucceedsFile ==
    ASSUME Typed, FilesInv, call' = call, NEW t \in Tasks, WorkSucceeds(t)
    PROVE  FilesInv'
<1> USE TypedFactsHold DEF TypedFacts
<1>0. /\ task[t] = "working" /\ task' = [task EXCEPT ![t] = "ok"]
      /\ UNCHANGED <<error_details, completed_files>>
  BY DEF WorkSucceeds
<1>1. ASSUME NEW f \in Files, t = Pre(f) PROVE FilesInv'
  <2>1. PICK n \in ChunkCounts, st \in HeaderStatuses :
          /\ num_of_chunks' = [num_of_chunks EXCEPT ![f] = n]
          /\ result_status' = [result_status EXCEPT ![f] = st]
          /\ UNCHANGED <<successful_transfers, failed_transfers>>
    BY <1>1, TaskParts DEF WorkSucceeds, Prepare
  <2>2. \A g \in Files \ {f} : SameFile(g)
    BY <1>0, <1>1, <2>1 DEF SameFile
  <2>3. FileInv(f)
    BY DEF FilesInv
  <2>4. FileInv(f)'
    BY <1>0, <1>1, <2>1, <2>3 DEF FileInv, NothingSubmitted
  <2> QED
    BY <2>2, <2>4, OneFileStep
<1>2. ASSUME NEW f \in Files, NEW c \in 1..MaxChunks, t = Chunk(f, c) PROVE FilesInv'
  <2>1. PICK st : result_status' = [result_status EXCEPT ![f] = st] /\ UNCHANGED client
    BY <1>2, TaskParts DEF WorkSucceeds
  <2>2. \A g \in Files \ {f} : SameFile(g)
    BY <1>0, <1>2, <2>1 DEF SameFile, client
  <2>3. /\ FileInv(f) /\ task[Pre(f)] = "done" /\ ChunksSubmitted(f)
        /\ task[Post(f)] = "absent" /\ f \notin completed_files
    BY <1>0, <1>2, ChunkUnderWay
  <2>4. DoneChunks(f)' = DoneChunks(f)
    BY <1>0, <1>2, <2>1, SameDoneChunks DEF client
  <2>5. ChunksSubmitted(f)'
    BY <1>0, <1>2, <2>1, <2>3, <2>4 DEF ChunksSubmitted, client
  <2>6. FileInv(f)'
    BY <1>0, <1>2, <2>3, <2>5 DEF FileInv
  <2> QED
    BY <2>2, <2>6, OneFileStep
<1>3. ASSUME NEW f \in Files, t = Post(f) PROVE FilesInv'
  <2>1. result_status' = FinishDownloadStatus(f) /\ UNCHANGED client
    BY <1>3, TaskParts DEF WorkSucceeds
  <2>2. \A g \in Files \ {f} : SameFile(g)
    BY <1>0, <1>3, <2>1 DEF SameFile, client, FinishDownloadStatus
  <2>3. /\ FileInv(f) /\ task[Pre(f)] = "done" /\ ChunksSubmitted(f) /\ ~IsUpload
        /\ f \notin completed_files
    BY <1>0, <1>3, PostUnderWay
  <2>4. DoneChunks(f)' = DoneChunks(f)
    BY <1>0, <1>3, <2>1, SameDoneChunks DEF client
  <2>5. ChunksSubmitted(f)'
    BY <1>0, <1>3, <2>1, <2>3, <2>4
       DEF ChunksSubmitted, client, FinishDownloadStatus, AllTransferred
  <2>6. FileInv(f)'
    BY <1>0, <1>3, <2>3, <2>5 DEF FileInv
  <2> QED
    BY <2>2, <2>6, OneFileStep
<1> QED
  BY <1>1, <1>2, <1>3, TaskFacts

(* A work function that raises.                                             *)
LEMMA WorkRaisesFile ==
    ASSUME Typed, FilesInv, call' = call, NEW t \in Tasks, WorkRaises(t)
    PROVE  FilesInv'
<1> USE TypedFactsHold DEF TypedFacts
<1>0. /\ task[t] = "working" /\ task' = [task EXCEPT ![t] = "failed"]
      /\ UNCHANGED completed_files
  BY DEF WorkRaises
<1>1. ASSUME NEW f \in Files, t = Pre(f) PROVE FilesInv'
  <2>1. PICK n \in {0} \cup ChunkCounts, st \in HeaderStatuses :
          /\ num_of_chunks' = [num_of_chunks EXCEPT ![f] = n]
          /\ result_status' = [result_status EXCEPT ![f] = st]
          /\ UNCHANGED <<successful_transfers, failed_transfers>>
    BY <1>1, TaskParts DEF WorkRaises, Prepare
  <2>2. error_details' = [error_details EXCEPT ![f] = TRUE]
    BY <1>1, TaskParts, Zenon DEF WorkRaises
  <2>3. \A g \in Files \ {f} : SameFile(g)
    BY <1>0, <1>1, <2>1, <2>2 DEF SameFile
  <2>4. FileInv(f)
    BY DEF FilesInv
  <2>5. FileInv(f)'
    BY <1>0, <1>1, <2>1, <2>2, <2>4 DEF FileInv, NothingSubmitted
  <2> QED
    BY <2>3, <2>5, OneFileStep
<1>2. ASSUME NEW f \in Files, NEW c \in 1..MaxChunks, t = Chunk(f, c) PROVE FilesInv'
  <2>1. error_details' = [error_details EXCEPT ![f] = TRUE] /\ UNCHANGED <<client, result_status>>
    BY <1>2, TaskParts DEF WorkRaises
  <2>2. \A g \in Files \ {f} : SameFile(g)
    BY <1>0, <1>2, <2>1 DEF SameFile, client
  <2>3. /\ FileInv(f) /\ task[Pre(f)] = "done" /\ ChunksSubmitted(f)
        /\ task[Post(f)] = "absent" /\ f \notin completed_files
        /\ c \in 1..num_of_chunks[f]
    BY <1>0, <1>2, ChunkUnderWay
  <2>4. DoneChunks(f)' = DoneChunks(f)
    BY <1>0, <1>2, <2>1, SameDoneChunks DEF client
  <2>5. ChunksSubmitted(f)'
    BY <1>0, <1>2, <2>1, <2>3, <2>4 DEF ChunksSubmitted, client
  <2>6. FileInv(f)'
    BY <1>0, <1>2, <2>3, <2>5 DEF FileInv
  <2> QED
    BY <2>2, <2>6, OneFileStep
<1>3. ASSUME NEW f \in Files, t = Post(f) PROVE FilesInv'
  <2>1. result_status' = FinishDownloadStatus(f) /\ UNCHANGED <<client, error_details>>
    BY <1>3, TaskParts DEF WorkRaises
  <2>2. \A g \in Files \ {f} : SameFile(g)
    BY <1>0, <1>3, <2>1 DEF SameFile, client, FinishDownloadStatus
  <2>3. /\ FileInv(f) /\ task[Pre(f)] = "done" /\ ChunksSubmitted(f) /\ ~IsUpload
        /\ f \notin completed_files
    BY <1>0, <1>3, PostUnderWay
  <2>4. DoneChunks(f)' = DoneChunks(f)
    BY <1>0, <1>3, <2>1, SameDoneChunks DEF client
  <2>5. ChunksSubmitted(f)'
    BY <1>0, <1>3, <2>1, <2>3, <2>4
       DEF ChunksSubmitted, client, FinishDownloadStatus, AllTransferred
  <2>6. FileInv(f)'
    BY <1>0, <1>3, <2>3, <2>5 DEF FileInv
  <2> QED
    BY <2>2, <2>6, OneFileStep
<1> QED
  BY <1>1, <1>2, <1>3, TaskFacts

(* preprocess_done_cb after a failure: the file is reported, or the         *)
(* callback itself raises and it is not.                                    *)
LEMMA PreprocessFailedFile ==
    ASSUME Typed, FilesInv, call' = call, NEW f \in Files, PreprocessFailed(f)
    PROVE  FilesInv'
<1> USE TypedFactsHold DEF TypedFacts
<1>1. task[Pre(f)] = "failed" /\ task' = [task EXCEPT ![Pre(f)] = "done"] /\ UNCHANGED client
  BY DEF PreprocessFailed
<1>2. FileInv(f) /\ NothingSubmitted(f)
  BY <1>1 DEF FilesInv, FileInv
<1>3. \/ /\ result_status' = [result_status EXCEPT ![f] = "ERROR"]
         /\ completed_files' = completed_files \cup {f}
         /\ UNCHANGED error_details
      \/ UNCHANGED <<meta, completed_files>>
  BY <1>2 DEF PreprocessFailed, FinishUpload, FinishDownloadStatus, AllTransferred,
              notify_file_completed, CallbackRaises, NoFileCompleted, NothingSubmitted
<1>4. \A g \in Files \ {f} : SameFile(g)
  BY <1>1, <1>3 DEF SameFile, client, meta
<1>5. FileInv(f)'
  <2>1. NothingSubmitted(f)'
    BY <1>1, <1>2 DEF NothingSubmitted, client
  <2> QED
    BY <1>1, <1>2, <1>3, <2>1 DEF FileInv, meta
<1> QED
  BY <1>4, <1>5, OneFileStep

(* preprocess_done_cb of a file that is skipped.                            *)
LEMMA PreprocessSkippedFile ==
    ASSUME Typed, FilesInv, call' = call, NEW f \in Files, PreprocessSkipped(f)
    PROVE  FilesInv'
<1> USE TypedFactsHold DEF TypedFacts
<1>1. /\ task[Pre(f)] = "ok" /\ task' = [task EXCEPT ![Pre(f)] = "done"]
      /\ result_status[f] = "SKIPPED"
      /\ UNCHANGED <<client, meta>> /\ completed_files' = completed_files \cup {f}
  BY DEF PreprocessSkipped, notify_file_completed
<1>2. FileInv(f) /\ NothingSubmitted(f)
  BY <1>1 DEF FilesInv, FileInv
<1>3. \A g \in Files \ {f} : SameFile(g)
  BY <1>1 DEF SameFile, client, meta
<1>4. FileInv(f)'
  BY <1>1, <1>2 DEF FileInv, NothingSubmitted, client, meta
<1> QED
  BY <1>3, <1>4, OneFileStep

(* preprocess_done_cb that waits for the queue.                             *)
LEMMA WaitForQueueFile ==
    ASSUME Typed, FilesInv, call' = call, NEW f \in Files, WaitForQueue(f)
    PROVE  FilesInv'
<1> USE TypedFactsHold DEF TypedFacts
<1>1. /\ task[Pre(f)] \in {"ok", "notified"} /\ task' = [task EXCEPT ![Pre(f)] = "waiting"]
      /\ UNCHANGED <<client, meta, completed_files>>
  BY DEF WaitForQueue
<1>2. FileInv(f) /\ NothingSubmitted(f)
  BY <1>1 DEF FilesInv, FileInv
<1>3. \A g \in Files \ {f} : SameFile(g)
  BY <1>1 DEF SameFile, client, meta
<1>4. FileInv(f)'
  BY <1>1, <1>2 DEF FileInv, NothingSubmitted, client, meta
<1> QED
  BY <1>3, <1>4, OneFileStep

(* What SubmitChunks does to the tasks: the file's own, and at most a       *)
(* waiting callback of another file.                                        *)
LEMMA SubmitChunksTasks ==
    ASSUME Typed, FilesInv, call' = call, NEW f \in Files, SubmitChunks(f)
    PROVE  /\ FileInv(f) /\ NothingSubmitted(f) /\ num_of_chunks[f] > 0
           /\ task[Pre(f)] \in {"ok", "notified"} /\ task'[Pre(f)] = "done"
           /\ \A c \in 1..num_of_chunks[f] : task'[Chunk(f, c)] = "queued"
           /\ \A g \in Files, c \in 1..MaxChunks :
                g # f \/ c > num_of_chunks[f] => task'[Chunk(g, c)] = task[Chunk(g, c)]
           /\ \A g \in Files : task'[Post(g)] = task[Post(g)]
           /\ \A g \in Files \ {f} :
                \/ task'[Pre(g)] = task[Pre(g)]
                \/ task[Pre(g)] = "waiting" /\ task'[Pre(g)] = "notified"
<1> USE TypedFactsHold DEF TypedFacts
<1> DEFINE new == [t \in Tasks |->
                     IF t = Pre(f) THEN "done"
                     ELSE IF t \in {Chunk(f, c) : c \in 1..num_of_chunks[f]} THEN "queued"
                     ELSE task[t]]
<1>1. new \in [Tasks -> TaskStates] /\ NotifyChunkProcess(new)
  BY DEF SubmitChunks, TaskStates, OnThread
<1>2. /\ new[Pre(f)] = "done"
      /\ \A c \in 1..num_of_chunks[f] : new[Chunk(f, c)] = "queued"
      /\ \A g \in Files, c \in 1..MaxChunks :
           g # f \/ c > num_of_chunks[f] => new[Chunk(g, c)] = task[Chunk(g, c)]
      /\ \A g \in Files : new[Post(g)] = task[Post(g)]
      /\ \A g \in Files \ {f} : new[Pre(g)] = task[Pre(g)]
  OBVIOUS
<1> HIDE DEF new
<1>3. \A t \in Tasks :
        \/ task'[t] = new[t]
        \/ \E g \in Files : t = Pre(g) /\ task[t] = "waiting" /\ task'[t] = "notified"
  BY <1>1, NotifyFacts
<1>4. task[Pre(f)] \in {"ok", "notified"}
  BY DEF SubmitChunks
<1>5. FileInv(f) /\ NothingSubmitted(f) /\ num_of_chunks[f] > 0
  BY <1>4 DEF FilesInv, FileInv
<1>6. task'[Pre(f)] = "done"
  BY <1>2, <1>3, <1>4
<1>7. \A g \in Files : task'[Post(g)] = new[Post(g)]
  BY <1>3
<1>8. \A g \in Files, c \in 1..MaxChunks : task'[Chunk(g, c)] = new[Chunk(g, c)]
  BY <1>3
<1>9. 1..num_of_chunks[f] \subseteq 1..MaxChunks
  OBVIOUS
<1>10. \A g \in Files \ {f} :
         \/ task'[Pre(g)] = task[Pre(g)]
         \/ task[Pre(g)] = "waiting" /\ task'[Pre(g)] = "notified"
  BY <1>2, <1>3
<1> QED
  BY <1>2, <1>4, <1>5, <1>6, <1>7, <1>8, <1>9, <1>10

(* preprocess_done_cb that submits the file's chunks.                       *)
LEMMA SubmitChunksFile ==
    ASSUME Typed, FilesInv, call' = call, NEW f \in Files, SubmitChunks(f)
    PROVE  FilesInv'
<1> USE TypedFactsHold DEF TypedFacts
<1>1. UNCHANGED <<num_of_chunks, successful_transfers, failed_transfers, result_status,
                  error_details, completed_files>>
  BY DEF SubmitChunks, client, meta
<1>2. \A g \in Files \ {f} : SameFile(g)
  BY <1>1, SubmitChunksTasks DEF SameFile
<1>3. DoneChunks(f)' = {}
  <2>1. \A c \in 1..num_of_chunks[f] : task'[Chunk(f, c)] # "done"
    BY SubmitChunksTasks
  <2> QED
    BY <1>1, <2>1 DEF DoneChunks
<1>4. Cardinality(DoneChunks(f)') = 0
  BY <1>3, FS_EmptySet
<1>5. ~error_details[f] /\ f \notin completed_files
  BY SubmitChunksTasks DEF FileInv
<1>6. ChunksSubmitted(f)'
  BY <1>1, <1>4, <1>5, SubmitChunksTasks DEF ChunksSubmitted, NothingSubmitted
<1>7. FileInv(f)'
  BY <1>1, <1>6, SubmitChunksTasks DEF FileInv
<1> QED
  BY <1>2, <1>7, OneFileStep

(* postprocess_done_cb reports the file.                                    *)
LEMMA PostprocessDoneFile ==
    ASSUME Typed, FilesInv, call' = call, NEW f \in Files, PostprocessDone(f)
    PROVE  FilesInv'
<1> USE TypedFactsHold DEF TypedFacts
<1>1. /\ task[Post(f)] \in {"ok", "failed"} /\ task' = [task EXCEPT ![Post(f)] = "done"]
      /\ failed_transfers' = [failed_transfers EXCEPT ![f] =
             IF task[Post(f)] = "failed" THEN @ + 1 ELSE @]
      /\ completed_files' = completed_files \cup {f}
      /\ UNCHANGED <<num_of_chunks, successful_transfers, meta>>
  BY DEF PostprocessDone, notify_file_completed
<1>2. /\ FileInv(f) /\ task[Pre(f)] = "done" /\ ChunksSubmitted(f) /\ ~IsUpload
      /\ Cardinality(DoneChunks(f)) = num_of_chunks[f]
  BY <1>1, PostUnderWay
<1>3. \A g \in Files \ {f} : SameFile(g)
  BY <1>1 DEF SameFile, meta
<1>4. DoneChunks(f)' = DoneChunks(f)
  BY <1>1, SameDoneChunks
<1>5. ChunksSubmitted(f)'
  BY <1>1, <1>2, <1>4 DEF ChunksSubmitted, meta
<1>6. FileInv(f)'
  BY <1>1, <1>2, <1>5 DEF FileInv
<1> QED
  BY <1>3, <1>6, OneFileStep

(* What ChunkLeavesQueue does to the tasks: the chunk's own, and at most a  *)
(* waiting callback of another file.                                        *)
LEMMA ChunkLeavesQueueTasks ==
    ASSUME Typed, FilesInv, call' = call, NEW t \in Tasks, ChunkLeavesQueue(t)
    PROVE  \E f \in Files, c \in 1..MaxChunks :
             /\ t = Chunk(f, c) /\ task[t] \in {"ok", "failed"}
             /\ task'[t] = IF task[t] = "ok" THEN "ok2" ELSE "failed2"
             /\ \A g \in Files, d \in 1..MaxChunks :
                  g # f \/ d # c => task'[Chunk(g, d)] = task[Chunk(g, d)]
             /\ \A g \in Files : task'[Post(g)] = task[Post(g)]
             /\ task'[Pre(f)] = task[Pre(f)]
             /\ \A g \in Files \ {f} :
                  \/ task'[Pre(g)] = task[Pre(g)]
                  \/ task[Pre(g)] = "waiting" /\ task'[Pre(g)] = "notified"
<1> USE TypedFactsHold DEF TypedFacts
<1> DEFINE new == [task EXCEPT ![t] = IF @ = "ok" THEN "ok2" ELSE "failed2"]
<1>1. new \in [Tasks -> TaskStates] /\ NotifyChunkProcess(new)
  BY DEF ChunkLeavesQueue, TaskStates, OnThread
<1>2. PICK f \in Files, c \in 1..MaxChunks : t = Chunk(f, c)
  BY TaskFacts, TaskParts DEF ChunkLeavesQueue
<1>3. task[t] \in {"ok", "failed"}
  BY DEF ChunkLeavesQueue
<1>4. /\ new[t] = IF task[t] = "ok" THEN "ok2" ELSE "failed2"
      /\ \A g \in Files, d \in 1..MaxChunks :
           g # f \/ d # c => new[Chunk(g, d)] = task[Chunk(g, d)]
      /\ \A g \in Files : new[Post(g)] = task[Post(g)] /\ new[Pre(g)] = task[Pre(g)]
  BY <1>2
<1> HIDE DEF new
<1>5. \A u \in Tasks :
        \/ task'[u] = new[u]
        \/ \E g \in Files : u = Pre(g) /\ task[u] = "waiting" /\ task'[u] = "notified"
  BY <1>1, NotifyFacts
<1>6. task[Pre(f)] = "done"
  BY <1>2, <1>3, ChunkUnderWay
<1>7. \A g \in Files : task'[Post(g)] = new[Post(g)]
  BY <1>5
<1>8. \A g \in Files, d \in 1..MaxChunks : task'[Chunk(g, d)] = new[Chunk(g, d)]
  BY <1>5
<1>9. \A g \in Files :
        \/ task'[Pre(g)] = task[Pre(g)]
        \/ task[Pre(g)] = "waiting" /\ task'[Pre(g)] = "notified"
  BY <1>4, <1>5
<1>10. task'[t] = new[t]
  BY <1>2, <1>8
<1>11. task'[Pre(f)] = task[Pre(f)]
  BY <1>6, <1>9
<1> QED
  BY <1>2, <1>3, <1>4, <1>7, <1>8, <1>9, <1>10, <1>11

(* transfer_done_cb up to the end of its block under cv_chunk_process.      *)
LEMMA ChunkLeavesQueueFile ==
    ASSUME Typed, FilesInv, call' = call, NEW t \in Tasks, ChunkLeavesQueue(t)
    PROVE  FilesInv'
<1> USE TypedFactsHold DEF TypedFacts
<1>1. UNCHANGED <<num_of_chunks, successful_transfers, failed_transfers, result_status,
                  error_details, completed_files>>
  BY DEF ChunkLeavesQueue, client, meta
<1>2. PICK f \in Files, c \in 1..MaxChunks :
        /\ t = Chunk(f, c) /\ task[t] \in {"ok", "failed"}
        /\ task'[t] = IF task[t] = "ok" THEN "ok2" ELSE "failed2"
        /\ \A g \in Files, d \in 1..MaxChunks :
             g # f \/ d # c => task'[Chunk(g, d)] = task[Chunk(g, d)]
        /\ \A g \in Files : task'[Post(g)] = task[Post(g)]
        /\ task'[Pre(f)] = task[Pre(f)]
        /\ \A g \in Files \ {f} :
             \/ task'[Pre(g)] = task[Pre(g)]
             \/ task[Pre(g)] = "waiting" /\ task'[Pre(g)] = "notified"
  BY ChunkLeavesQueueTasks
<1>3. \A g \in Files \ {f} : SameFile(g)
  BY <1>1, <1>2 DEF SameFile
<1>4. /\ FileInv(f) /\ task[Pre(f)] = "done" /\ ChunksSubmitted(f)
      /\ task[Post(f)] = "absent" /\ f \notin completed_files
  BY <1>2, ChunkUnderWay
<1>5. DoneChunks(f)' = DoneChunks(f)
  BY <1>1, <1>2, SameDoneChunks
<1>6. ChunksSubmitted(f)'
  BY <1>1, <1>2, <1>4, <1>5 DEF ChunksSubmitted
<1>7. FileInv(f)'
  BY <1>1, <1>2, <1>4, <1>6 DEF FileInv
<1> QED
  BY <1>3, <1>7, OneFileStep

(* The rest of transfer_done_cb, under the client's lock: the chunk is      *)
(* counted, and the last one ends the file.                                 *)
LEMMA ChunkCountedFile ==
    ASSUME Typed, FilesInv, call' = call, NEW t \in Tasks, ChunkCounted(t)
    PROVE  FilesInv'
<1> USE TypedFactsHold DEF TypedFacts
<1>1. PICK f \in Files, c \in 1..MaxChunks : t = Chunk(f, c)
  BY TaskFacts DEF ChunkCounted, FilesInv, FileInv
<1> DEFINE n == num_of_chunks[f]
           s == successful_transfers[f] + (IF task[t] = "ok2" THEN 1 ELSE 0)
           e == failed_transfers[f] + (IF task[t] = "failed2" THEN 1 ELSE 0)
           d == Cardinality(DoneChunks(f))
<1>2. /\ task[t] \in {"ok2", "failed2"}
      /\ successful_transfers' = [successful_transfers EXCEPT ![f] = s]
      /\ failed_transfers' = [failed_transfers EXCEPT ![f] = e]
      /\ task' = [task EXCEPT ![t] = "done",
                     ![Post(f)] = IF s + e = n /\ ~IsUpload THEN "queued" ELSE @]
      /\ UNCHANGED num_of_chunks
  BY <1>1, TaskParts DEF ChunkCounted
<1>3. /\ UNCHANGED error_details
      /\ \/ /\ s + e = n /\ IsUpload
            /\ result_status' = [result_status EXCEPT ![f] =
                   IF s = n /\ n # 0 THEN "UPLOADED" ELSE "ERROR"]
            /\ completed_files' = completed_files \cup {f}
         \/ UNCHANGED <<result_status, completed_files>>
  BY <1>1, TaskParts DEF ChunkCounted, FinishUpload, notify_file_completed, CallbackRaises,
                         NoFileCompleted, meta
<1>4. /\ FileInv(f) /\ task[Pre(f)] = "done" /\ ChunksSubmitted(f) /\ c \in 1..n
      /\ task[Post(f)] = "absent" /\ f \notin completed_files
      /\ d \in Nat /\ d < n
  BY <1>1, <1>2, ChunkUnderWay
<1>5. \A g \in Files \ {f} : SameFile(g)
  BY <1>1, <1>2, <1>3 DEF SameFile
<1>6. /\ task'[t] = "done" /\ task'[Pre(f)] = "done"
      /\ \A b \in 1..MaxChunks : b # c => task'[Chunk(f, b)] = task[Chunk(f, b)]
      /\ task'[Post(f)] = IF s + e = n /\ ~IsUpload THEN "queued" ELSE "absent"
  BY <1>1, <1>2, <1>4
<1>7. Cardinality(DoneChunks(f)') = d + 1
  <2>1. DoneChunks(f)' = DoneChunks(f) \cup {c}
    BY <1>1, <1>2, <1>4, <1>6 DEF DoneChunks
  <2>2. c \notin DoneChunks(f) /\ IsFiniteSet(DoneChunks(f))
    BY <1>1, <1>2, DoneChunksFacts DEF DoneChunks
  <2>3. Cardinality(DoneChunks(f) \cup {c}) = d + 1
    BY <2>2, FS_AddElement
  <2> QED
    BY <2>1, <2>3
<1>8. s + e = d + 1 /\ s <= d + 1 /\ s \in Nat /\ e \in Nat
  BY <1>1, <1>2, <1>4 DEF ChunksSubmitted
<1>9. error_details'[f] =>
        s < d + 1 \/ \E b \in 1..n : task'[Chunk(f, b)] \in {"failed", "failed2"}
  BY <1>1, <1>2, <1>3, <1>4, <1>6 DEF ChunksSubmitted
<1>10. /\ successful_transfers'[f] = s /\ failed_transfers'[f] = e /\ num_of_chunks'[f] = n
  BY <1>2
<1>11. \A b \in 1..MaxChunks : task'[Chunk(f, b)] = "absent" <=> b > n
  BY <1>1, <1>4, <1>6 DEF ChunksSubmitted
<1>12. f \in completed_files' =>
         s + e = n /\ IsUpload /\ result_status'[f] = IF s = n THEN "UPLOADED" ELSE "ERROR"
  BY <1>3, <1>4
<1>13. ChunksSubmitted(f)'
  <2> HIDE DEF n, s, e, d
  <2>1. n \in Nat /\ n > 0
    BY <1>4 DEF n
  <2> QED
    BY <1>6, <1>7, <1>8, <1>9, <1>10, <1>11, <1>12, <1>4, <2>1 DEF ChunksSubmitted
<1>14. FileInv(f)'
  BY <1>6, <1>13 DEF FileInv
<1> QED
  BY <1>5, <1>14, OneFileStep

-----------------------------------------------------------------------------
(* Every step keeps what holds of each file.                                *)
LEMMA FilesStep == Typed /\ FilesInv /\ [Next]_vars => FilesInv'
<1> SUFFICES ASSUME Typed, FilesInv, [Next]_vars PROVE FilesInv'
  OBVIOUS
<1>1. ASSUME call' = call,
             UNCHANGED <<task, num_of_chunks, successful_transfers, failed_transfers,
                         result_status, error_details, completed_files>>
      PROVE  FilesInv'
  <2>1. \A g \in Files : SameFile(g)
    BY <1>1 DEF SameFile
  <2>2. \A g \in Files : FileInv(g)'
    BY <1>1, <2>1, SameFileInv DEF FilesInv
  <2> QED
    BY <1>1, <2>2, SameCall DEF FilesInv
<1>2. CASE UNCHANGED vars
  BY <1>1, <1>2 DEF vars, client, meta
<1>3. CASE Next
  <2>0. call' = call
    BY <1>3 DEF Next
  <2>1. CASE MainEnter \/ MainWake \/ Report \/ Finished
    BY <1>1, <2>0, <2>1 DEF MainEnter, MainWake, Report, Finished, vars, client, meta
  <2>2. ASSUME NEW f \in Files, SubmitPreprocess(f) \/ Callback(f) PROVE FilesInv'
    BY <2>0, <2>2, SubmitPreprocessFile, PreprocessFailedFile, PreprocessSkippedFile,
       SubmitChunksFile, WaitForQueueFile, PostprocessDoneFile DEF Callback
  <2>3. ASSUME NEW t \in Tasks, PoolThread(t) PROVE FilesInv'
    BY <2>0, <2>3, StartWorkFile, WorkSucceedsFile, WorkRaisesFile, ChunkLeavesQueueFile,
       ChunkCountedFile DEF PoolThread
  <2> QED
    BY <1>3, <2>1, <2>2, <2>3 DEF Next, Main
<1> QED
  BY <1>2, <1>3

(* A file that was reported has ended: nothing of it is under way, and its  *)
(* status says how it ended.                                                *)
LEMMA ReportedHasEnded ==
    ASSUME Typed, FilesInv, NEW f \in completed_files
    PROVE  /\ f \in Files /\ task[Pre(f)] = "done" /\ task[Post(f)] \in {"absent", "done"}
           /\ \A c \in 1..MaxChunks : task[Chunk(f, c)] \in {"absent", "done"}
           /\ result_status[f] \in Final
           /\ error_details[f] => result_status[f] = "ERROR"
           /\ result_status[f] \in {"UPLOADED", "DOWNLOADED"} =>
                /\ successful_transfers[f] = num_of_chunks[f]
                /\ \A c \in 1..num_of_chunks[f] : task[Chunk(f, c)] = "done"
<1>1. f \in Files /\ num_of_chunks[f] \in 0..MaxChunks /\ MaxChunks \in Nat
      /\ IsUpload \in BOOLEAN
  BY CallFacts DEF Typed
<1>2. FileInv(f)
  BY <1>1 DEF FilesInv
<1>3. task[Pre(f)] = "done"
  BY <1>2 DEF FileInv
<1>4. CASE ChunksSubmitted(f)
  <2>1. /\ \A c \in 1..num_of_chunks[f] : task[Chunk(f, c)] = "done"
        /\ Cardinality(DoneChunks(f)) = num_of_chunks[f]
    BY <1>1, <1>4, DoneChunksFacts DEF ChunksSubmitted
  <2>2. \A c \in 1..MaxChunks : task[Chunk(f, c)] \in {"absent", "done"}
    BY <1>1, <1>4, <2>1 DEF ChunksSubmitted
  <2>3. task[Post(f)] \in {"absent", "done"}
    BY <1>1, <1>4 DEF ChunksSubmitted
  <2>4. \/ result_status[f] = "ERROR"
        \/ /\ result_status[f] \in {"UPLOADED", "DOWNLOADED"}
           /\ successful_transfers[f] = num_of_chunks[f]
    BY <1>1, <1>4 DEF ChunksSubmitted
  <2>5. error_details[f] => successful_transfers[f] # num_of_chunks[f]
    BY <1>1, <1>4, <2>1 DEF ChunksSubmitted
  <2> QED
    BY <1>1, <1>3, <2>1, <2>2, <2>3, <2>4, <2>5 DEF Final
<1>5. CASE ~ChunksSubmitted(f)
  BY <1>1, <1>2, <1>3, <1>5 DEF FileInv, NothingSubmitted, Final
<1> QED
  BY <1>4, <1>5

(* When the main thread has left its loop, every file was reported.         *)
LEMMA AllReported ==
    ASSUME Typed, MainInv, main \in {"returned", "reported", "raised_result"}
    PROVE  completed_files = Files /\ num_files_completed = NumFiles
<1>1. NumFiles \in Nat
  BY CallFacts DEF Typed
<1>2. IsFiniteSet(Files) /\ Cardinality(Files) = NumFiles
  BY <1>1, FS_Interval DEF Files
<1>3. /\ completed_files \in SUBSET Files
      /\ num_files_completed = Cardinality(completed_files)
      /\ num_files_completed >= NumFiles
  BY DEF Typed, MainInv
<1>4. /\ Cardinality(completed_files) <= Cardinality(Files)
      /\ Cardinality(completed_files) = Cardinality(Files) => completed_files = Files
      /\ IsFiniteSet(completed_files)
  BY <1>2, <1>3, FS_Subset
<1>5. Cardinality(completed_files) \in Nat
  BY <1>4, FS_CardinalityType
<1> QED
  BY <1>1, <1>2, <1>3, <1>4, <1>5

(* ... and no task is under way.                                            *)
LEMMA AllQuiet ==
    ASSUME Typed, FilesInv, MainInv, main \in {"returned", "reported", "raised_result"}
    PROVE  Quiet
BY AllReported, ReportedHasEnded, TaskFacts DEF Quiet

(* A step reports no file, or one that was not reported before.             *)
LEMMA ReportedOnce ==
    ASSUME Typed, FilesInv, Next
    PROVE  \/ UNCHANGED <<num_files_completed, completed_files>>
           \/ \E f \in Files \ completed_files :
                /\ num_files_completed' = num_files_completed + 1
                /\ completed_files' = completed_files \cup {f}
<1>0. call' = call
  BY DEF Next
<1>1. CASE Main \/ Finished
  BY <1>1 DEF Main, SubmitPreprocess, MainEnter, MainWake, Report, Finished, vars
<1>2. ASSUME NEW t \in Tasks, StartWork(t) \/ WorkSucceeds(t) \/ WorkRaises(t)
                                \/ ChunkLeavesQueue(t)
      PROVE  UNCHANGED <<num_files_completed, completed_files>>
  BY <1>2 DEF StartWork, WorkSucceeds, WorkRaises, ChunkLeavesQueue
<1>3. ASSUME NEW t \in Tasks, ChunkCounted(t)
      PROVE  \/ UNCHANGED <<num_files_completed, completed_files>>
             \/ \E f \in Files \ completed_files :
                  /\ num_files_completed' = num_files_completed + 1
                  /\ completed_files' = completed_files \cup {f}
  <2>1. PICK f \in Files, c \in 1..MaxChunks : t = Chunk(f, c)
    BY <1>3, TaskFacts DEF ChunkCounted, FilesInv, FileInv
  <2>2. f \notin completed_files
    BY <1>0, <1>3, <2>1, ChunkUnderWay DEF ChunkCounted
  <2>3. FileOf(t) = f
    BY <2>1, TaskParts
  <2> QED
    BY <1>3, <2>2, <2>3 DEF ChunkCounted, FinishUpload, notify_file_completed, CallbackRaises,
                            NoFileCompleted
<1>4. ASSUME NEW f \in Files, Callback(f)
      PROVE  \/ UNCHANGED <<num_files_completed, completed_files>>
             \/ /\ f \notin completed_files
                /\ num_files_completed' = num_files_completed + 1
                /\ completed_files' = completed_files \cup {f}
  <2>1. CASE PreprocessFailed(f) \/ PreprocessSkipped(f)
    <3>1. f \notin completed_files
      BY <2>1 DEF PreprocessFailed, PreprocessSkipped, FilesInv, FileInv
    <3> QED
      BY <2>1, <3>1 DEF PreprocessFailed, PreprocessSkipped, FinishUpload, notify_file_completed,
                        CallbackRaises, NoFileCompleted
  <2>2. CASE PostprocessDone(f)
    <3>1. f \notin completed_files
      BY <1>0, <2>2, PostUnderWay DEF PostprocessDone
    <3> QED
      BY <2>2, <3>1 DEF PostprocessDone, notify_file_completed
  <2>3. CASE SubmitChunks(f) \/ WaitForQueue(f)
    BY <2>3 DEF SubmitChunks, WaitForQueue
  <2> QED
    BY <1>4, <2>1, <2>2, <2>3 DEF Callback
<1> QED
  BY <1>1, <1>2, <1>3, <1>4 DEF Next, PoolThread

(* Every step keeps the count of the reported files and what the main       *)
(* thread knows when it has left its loop.                                  *)
LEMMA MainStep == Typed /\ FilesInv /\ MainInv /\ [Next]_vars => MainInv'
<1> SUFFICES ASSUME Typed, FilesInv, MainInv, [Next]_vars PROVE MainInv'
  OBVIOUS
<1>1. CASE UNCHANGED vars
  BY <1>1 DEF vars, client, meta, MainInv, RaisePutGetError, Files, NumFiles
<1>2. CASE Next
  <2>0. /\ call' = call /\ NumFiles' = NumFiles /\ Files' = Files
        /\ RaisePutGetError' = RaisePutGetError
        /\ NumFiles \in Nat /\ IsFiniteSet(Files)
    <3>1. call' = call /\ call \in Calls
      BY <1>2 DEF Next, Typed
    <3> QED
      BY <3>1, CallFacts, SameCall, FS_Interval DEF Files
  <2>1. IsFiniteSet(completed_files) /\ num_files_completed \in Nat
    BY <2>0, FS_Subset, FS_CardinalityType DEF Typed, MainInv
  <2>2. num_files_completed' = Cardinality(completed_files') /\
        num_files_completed' >= num_files_completed
    <3>1. CASE UNCHANGED <<num_files_completed, completed_files>>
      BY <2>1, <3>1 DEF MainInv
    <3>2. ASSUME NEW f \in Files \ completed_files,
                 num_files_completed' = num_files_completed + 1,
                 completed_files' = completed_files \cup {f}
          PROVE  num_files_completed' = Cardinality(completed_files') /\
                 num_files_completed' >= num_files_completed
      <4>1. Cardinality(completed_files \cup {f}) = Cardinality(completed_files) + 1
        BY <2>1, <3>2, FS_AddElement
      <4> QED
        BY <2>1, <3>2, <4>1 DEF MainInv
    <3> QED
      BY <1>2, <3>1, <3>2, ReportedOnce
  <2>3. /\ num_files_completed' \in Nat
        /\ main \in {"returned", "reported", "raised_result"} => num_files_completed >= NumFiles
    BY <2>1, ReportedOnce, <1>2 DEF MainInv
  <2> DEFINE Kept ==
        /\ main' \in {"returned", "reported", "raised_result"} => num_files_completed >= NumFiles
        /\ main' = "reported" /\ RaisePutGetError => \A f \in Files : ~error_details'[f]
  <2>4. ASSUME main' \in {main, "notified"}, UNCHANGED error_details PROVE Kept
    BY <2>4 DEF MainInv
  <2>5. ASSUME NEW f \in Files, SubmitPreprocess(f) PROVE Kept
    <3>1. main' \in {"submitting", "entering"}
      BY <2>5 DEF SubmitPreprocess
    <3> QED
      BY <3>1
  <2>6. ASSUME MainEnter \/ MainWake PROVE Kept
    <3>1. main' \notin {"reported", "raised_result"}
          /\ (main' = "returned" => ~(num_files_completed < NumFiles))
      BY <2>6 DEF MainEnter, MainWake
    <3> QED
      BY <2>0, <2>1, <3>1
  <2>7. ASSUME Report PROVE Kept
    <3>1. num_files_completed >= NumFiles
      BY <2>7, <2>3 DEF Report
    <3>2. main' = "reported" /\ RaisePutGetError => \A f \in Files : ~error_details'[f]
      BY <2>7 DEF Report, meta
    <3> QED
      BY <3>1, <3>2
  <2>8. ASSUME Finished PROVE Kept
    BY <2>4, <2>8 DEF Finished, vars, meta
  <2>9. ASSUME NEW t \in Tasks, PoolThread(t) PROVE Kept
    <3>1. CASE StartWork(t) \/ WorkSucceeds(t) \/ ChunkLeavesQueue(t)
      BY <2>4, <3>1 DEF StartWork, WorkSucceeds, ChunkLeavesQueue, meta
    <3>2. CASE ChunkCounted(t)
      BY <2>4, <3>2 DEF ChunkCounted, FinishUpload, notify_file_completed, CallbackRaises,
                        NotifyMain, meta
    <3>3. CASE WorkRaises(t)
      <4>1. task[t] = "working" /\ main' \in {main, "notified"}
        BY <3>3 DEF WorkRaises, NotifyMain
      <4>2. main \notin {"returned", "reported", "raised_result"}
        BY <4>1, AllQuiet DEF Quiet
      <4> QED
        BY <4>1, <4>2
    <3> QED
      BY <2>9, <3>1, <3>2, <3>3 DEF PoolThread
  <2>10. ASSUME NEW f \in Files, Callback(f) PROVE Kept
    <3>1. main' \in {main, "notified"} /\ UNCHANGED error_details
      BY <2>10 DEF Callback, PreprocessFailed, PreprocessSkipped, SubmitChunks, WaitForQueue,
                   PostprocessDone, FinishUpload, notify_file_completed, CallbackRaises,
                   NotifyMain, meta
    <3> QED
      BY <2>4, <3>1
  <2> HIDE DEF Kept
  <2>11. Kept
    BY <1>2, <2>5, <2>6, <2>7, <2>8, <2>9, <2>10 DEF Next, Main
  <2> QED
    BY <2>0, <2>1, <2>2, <2>3, <2>11 DEF MainInv, Kept
<1> QED
  BY <1>1, <1>2

-----------------------------------------------------------------------------
(* The chunks in the queue are finitely many, at most all chunks there are. *)
LEMMA QueueFinite ==
    ASSUME call \in Calls
    PROVE  /\ IsFiniteSet(InQueue) /\ Cardinality(InQueue) \in Nat
           /\ Cardinality(InQueue) <= NumFiles * MaxChunks
<1> DEFINE P == Files \X (1..MaxChunks)
           h == [t \in InQueue |-> <<t[2], t[3]>>]
<1>1. NumFiles \in Nat /\ MaxChunks \in Nat
  BY CallFacts
<1>2. /\ IsFiniteSet(Files) /\ Cardinality(Files) = NumFiles
      /\ IsFiniteSet(1..MaxChunks) /\ Cardinality(1..MaxChunks) = MaxChunks
  BY <1>1, FS_Interval DEF Files
<1>3. IsFiniteSet(P) /\ Cardinality(P) = NumFiles * MaxChunks
  BY <1>2, FS_Product
<1>4. \A t \in InQueue : \E f \in Files, c \in 1..MaxChunks : t = <<"network", f, c>>
  BY TaskFacts, TaskParts DEF InQueue, Chunk
<1>5. h \in [InQueue -> P]
  BY <1>4
<1>6. \A t, u \in InQueue : h[t] = h[u] => t = u
  BY <1>4
<1>7. h \in Injection(InQueue, P)
  BY <1>5, <1>6 DEF Injection, IsInjective
<1> HIDE DEF h, P
<1>8. IsFiniteSet(InQueue) /\ Cardinality(InQueue) <= Cardinality(P)
  BY <1>3, <1>7, FS_Injection
<1> QED
  BY <1>3, <1>8, FS_CardinalityType

\* The tasks of a file that is cut into n chunks.
ChunkTasks(f, n) == {Chunk(f, c) : c \in 1..n}

(* A file that is cut into n chunks has n tasks in the network pool.        *)
LEMMA ChunkCount ==
    ASSUME NEW f, NEW n \in Nat
    PROVE  IsFiniteSet(ChunkTasks(f, n)) /\ Cardinality(ChunkTasks(f, n)) = n
<1> DEFINE T == {Chunk(f, c) : c \in 1..n}
           h == [c \in 1..n |-> Chunk(f, c)]
<1>1. h \in [1..n -> T] /\ \A t \in T : \E c \in 1..n : h[c] = t
  OBVIOUS
<1>2. \A c, d \in 1..n : h[c] = h[d] => c = d
  BY TaskParts
<1>3. h \in Bijection(1..n, T)
  BY <1>1, <1>2 DEF Bijection, Injection, IsInjective, Surjection
<1>4. ExistsBijection(1..n, T)
  BY <1>3 DEF ExistsBijection
<1> HIDE DEF T
<1>5. IsFiniteSet(1..n) /\ Cardinality(1..n) = n
  BY FS_Interval
<1> QED
  <2>1. IsFiniteSet(T) /\ Cardinality(T) = n
    BY <1>4, <1>5, FS_Bijection
  <2> QED
    BY <2>1 DEF T, ChunkTasks

\* A chunk is in the queue until its callback has taken it off.
Enqueued == {"queued", "working", "ok", "failed"}

(* The tasks of the network pool are chunks of the files.                   *)
LEMMA NetworkTasks ==
    \A t \in Tasks : PoolOf(t) = "network"
      => \E f \in Files, c \in 1..MaxChunks : t = Chunk(f, c)
BY TaskFacts, TaskParts

(* The queue stays the same when no chunk enters or leaves it.              *)
LEMMA SameQueue ==
    ASSUME call' = call,
           \A f \in Files, c \in 1..MaxChunks :
             task'[Chunk(f, c)] \in Enqueued <=> task[Chunk(f, c)] \in Enqueued
    PROVE  InQueue' = InQueue
<1>1. Tasks' = Tasks
  BY SameCall
<1> QED
  BY <1>1, NetworkTasks DEF InQueue, Enqueued

(* Every step keeps the chunk counter exact, and within its bound.          *)
LEMMA QueueStep ==
    Typed /\ FilesInv /\ QueueCounterExact /\ BacklogBounded /\ [Next]_vars
      => QueueCounterExact' /\ BacklogBounded'
<1> SUFFICES ASSUME Typed, FilesInv, QueueCounterExact, BacklogBounded, [Next]_vars
             PROVE  QueueCounterExact' /\ BacklogBounded'
  OBVIOUS
<1>1. call' = call /\ call \in Calls
  BY DEF Next, vars, Typed
<1>2. /\ MaxConcurrency' = MaxConcurrency /\ MaxConcurrency \in Nat /\ MaxChunks \in Nat
      /\ TypedFacts
  BY <1>1, SameCall, CallFacts, TypedFactsHold
<1>3. /\ chunks_in_queue = Cardinality(InQueue) /\ IsFiniteSet(InQueue) /\ chunks_in_queue \in Nat
      /\ chunks_in_queue <= 2 * MaxConcurrency + MaxChunks
  BY <1>1, QueueFinite DEF QueueCounterExact, BacklogBounded, InQueue
<1>4. SUFFICES /\ chunks_in_queue' = Cardinality(InQueue')
               /\ chunks_in_queue' <= 2 * MaxConcurrency + MaxChunks
  BY <1>2 DEF QueueCounterExact, BacklogBounded, InQueue
<1> USE <1>2 DEF TypedFacts
<1>5. ASSUME UNCHANGED chunks_in_queue,
             \A f \in Files, c \in 1..MaxChunks :
               task'[Chunk(f, c)] \in Enqueued <=> task[Chunk(f, c)] \in Enqueued
      PROVE  /\ chunks_in_queue' = Cardinality(InQueue')
             /\ chunks_in_queue' <= 2 * MaxConcurrency + MaxChunks
  BY <1>1, <1>3, <1>5, SameQueue
<1>6. CASE UNCHANGED vars
  BY <1>5, <1>6 DEF vars
<1>7. CASE MainEnter \/ MainWake \/ Report \/ Finished
  BY <1>5, <1>7 DEF MainEnter, MainWake, Report, Finished, vars
<1>8. ASSUME NEW f \in Files,
             \/ SubmitPreprocess(f) \/ PreprocessFailed(f) \/ PreprocessSkipped(f)
             \/ WaitForQueue(f) \/ PostprocessDone(f)
      PROVE  /\ chunks_in_queue' = Cardinality(InQueue')
             /\ chunks_in_queue' <= 2 * MaxConcurrency + MaxChunks
  <2>1. /\ UNCHANGED chunks_in_queue
        /\ \E st : task' = [task EXCEPT ![Pre(f)] = st] \/ task' = [task EXCEPT ![Post(f)] = st]
    BY <1>8 DEF SubmitPreprocess, PreprocessFailed, PreprocessSkipped, WaitForQueue, PostprocessDone
  <2> QED
    BY <1>5, <2>1
<1>9. ASSUME NEW t \in Tasks, StartWork(t) \/ WorkSucceeds(t) \/ WorkRaises(t) \/ ChunkCounted(t)
      PROVE  /\ chunks_in_queue' = Cardinality(InQueue')
             /\ chunks_in_queue' <= 2 * MaxConcurrency + MaxChunks
  <2>1. CASE StartWork(t) \/ WorkSucceeds(t) \/ WorkRaises(t)
    <3>1. /\ UNCHANGED chunks_in_queue /\ task[t] \in Enqueued
          /\ \E st \in Enqueued : task' = [task EXCEPT ![t] = st]
      BY <2>1 DEF StartWork, WorkSucceeds, WorkRaises, Enqueued
    <3> QED
      BY <1>5, <3>1
  <2>2. CASE ChunkCounted(t)
    <3>1. UNCHANGED chunks_in_queue /\ task[t] \in {"ok2", "failed2"}
      BY <2>2 DEF ChunkCounted
    <3>2. \A f \in Files, c \in 1..MaxChunks :
            task'[Chunk(f, c)] = IF Chunk(f, c) = t THEN "done" ELSE task[Chunk(f, c)]
      BY <2>2 DEF ChunkCounted
    <3> QED
      BY <1>5, <3>1, <3>2 DEF Enqueued
  <2> QED
    BY <1>9, <2>1, <2>2
<1>10. ASSUME NEW t \in Tasks, ChunkLeavesQueue(t)
       PROVE  /\ chunks_in_queue' = Cardinality(InQueue')
              /\ chunks_in_queue' <= 2 * MaxConcurrency + MaxChunks
  <2>1. PICK f \in Files, c \in 1..MaxChunks :
          /\ t = Chunk(f, c) /\ task[t] \in {"ok", "failed"}
          /\ task'[t] \notin Enqueued
          /\ \A g \in Files, d \in 1..MaxChunks :
               g # f \/ d # c => task'[Chunk(g, d)] = task[Chunk(g, d)]
    BY <1>1, <1>10, ChunkLeavesQueueTasks DEF Enqueued
  <2>2. InQueue' = InQueue \ {t}
    <3>1. Tasks' = Tasks
      BY <1>1, SameCall
    <3>2. \A u \in Tasks : PoolOf(u) = "network" /\ u # t => task'[u] = task[u]
      BY <2>1, NetworkTasks
    <3>3. task'[t] \notin {"queued", "working", "ok", "failed"}
      BY <2>1 DEF Enqueued
    <3>4. \A u : u \in InQueue' <=> u \in InQueue /\ u # t
      BY <3>1, <3>2, <3>3 DEF InQueue
    <3> QED
      BY <3>4
  <2>3. t \in InQueue
    BY <2>1, TaskParts DEF InQueue
  <2>4. Cardinality(InQueue \ {t}) = Cardinality(InQueue) - 1
    BY <1>3, <2>3, FS_RemoveElement
  <2>5. chunks_in_queue' = chunks_in_queue - 1
    BY <1>10 DEF ChunkLeavesQueue
  <2> QED
    BY <1>3, <2>2, <2>4, <2>5
<1>11. ASSUME NEW f \in Files, SubmitChunks(f)
       PROVE  /\ chunks_in_queue' = Cardinality(InQueue')
              /\ chunks_in_queue' <= 2 * MaxConcurrency + MaxChunks
  <2> DEFINE n == num_of_chunks[f]
             T == {Chunk(f, c) : c \in 1..n}
  <2>1. n \in Nat /\ n <= MaxChunks
    OBVIOUS
  <2> HIDE DEF n
  <2>2. IsFiniteSet(T) /\ Cardinality(T) = n
    <3>1. IsFiniteSet(ChunkTasks(f, n)) /\ Cardinality(ChunkTasks(f, n)) = n
      BY <2>1, ChunkCount
    <3> QED
      BY <3>1 DEF ChunkTasks
  <2>3. /\ \A c \in 1..MaxChunks : task[Chunk(f, c)] = "absent"
        /\ \A c \in 1..n : task'[Chunk(f, c)] = "queued"
        /\ \A g \in Files, c \in 1..MaxChunks :
             g # f \/ c > n => task'[Chunk(g, c)] = task[Chunk(g, c)]
    BY <1>1, <1>11, SubmitChunksTasks DEF NothingSubmitted, n
  <2>4. InQueue \cap T = {}
    BY <2>1, <2>3 DEF InQueue
  <2>5. InQueue' = InQueue \cup T
    <3>1. Tasks' = Tasks
      BY <1>1, SameCall
    <3>2. T \subseteq InQueue'
      BY <2>1, <2>3, <3>1, TaskParts DEF InQueue
    <3>3. \A u \in Tasks : PoolOf(u) = "network" /\ u \notin T => task'[u] = task[u]
      <4>1. \A g \in Files, d \in 1..MaxChunks : Chunk(g, d) \notin T => g # f \/ d > n
        BY <2>1
      <4> QED
        BY <2>3, <4>1, NetworkTasks
    <3>4. \A u : u \notin T => (u \in InQueue' <=> u \in InQueue)
      BY <3>1, <3>3 DEF InQueue
    <3>5. \A u \in T : u \notin InQueue
      BY <2>4
    <3> QED
      BY <3>2, <3>4
  <2>6. Cardinality(InQueue \cup T) = Cardinality(InQueue) + n
    <3> HIDE DEF T
    <3>1. Cardinality(InQueue \cup T) =
            Cardinality(InQueue) + Cardinality(T) - Cardinality(InQueue \cap T)
      BY <1>3, <2>2, FS_Union
    <3>2. Cardinality(InQueue \cap T) = 0
      BY <2>4, FS_EmptySet
    <3> QED
      BY <1>3, <2>1, <2>2, <3>1, <3>2
  <2>7. chunks_in_queue' = chunks_in_queue + n /\ chunks_in_queue <= 2 * MaxConcurrency
    BY <1>3, <1>11 DEF SubmitChunks, QueueBusy, n
  <2> HIDE DEF T
  <2> QED
    BY <1>3, <2>1, <2>5, <2>6, <2>7
<1> QED
  BY <1>6, <1>7, <1>8, <1>9, <1>10, <1>11 DEF Next, Main, PoolThread, Callback

-----------------------------------------------------------------------------
(* The initial states satisfy the invariant.                                *)
LEMMA InitInv == Init => Inv
<1> SUFFICES ASSUME Init PROVE Inv
  OBVIOUS
<1>1. /\ NumFiles \in Nat /\ MaxConcurrency \in Nat /\ MaxChunks \in Nat
  BY CallFacts DEF Init
<1>2. Typed
  <2>1. exception_caught_in_work \in BOOLEAN /\ exception_caught_in_callback \in BOOLEAN
    BY Zenon DEF Init
  <2> QED
    BY <1>1, <2>1 DEF Init, Typed, TaskStates, Statuses, MainStates
<1>3. FilesInv
  BY TaskFacts DEF Init, FilesInv, FileInv, NothingSubmitted
<1>4. MainInv
  BY FS_EmptySet DEF Init, MainInv
<1>5. InQueue = {}
  BY DEF Init, InQueue
<1>6. QueueCounterExact /\ BacklogBounded
  <2>1. Cardinality(InQueue) = 0 /\ chunks_in_queue = 0
    BY <1>5, FS_EmptySet DEF Init
  <2> QED
    BY <1>1, <2>1 DEF QueueCounterExact, BacklogBounded, InQueue
<1> QED
  BY <1>2, <1>3, <1>4, <1>6 DEF Inv

(* The invariant holds in every state of every call of transfer().          *)
LEMMA InvHolds == Spec => []Inv
<1>1. Inv /\ [Next]_vars => Inv'
  BY TypedStep, FilesStep, MainStep, QueueStep DEF Inv
<1> QED
  BY <1>1, InitInv, PTL DEF Spec

(* The invariant implies the bounds of the type invariant: no transfer is   *)
(* counted twice, and no file reported twice.                               *)
LEMMA InvTypeOK == Inv => TypeOK
<1> SUFFICES ASSUME Inv PROVE TypeOK
  OBVIOUS
<1>1. Typed /\ FilesInv /\ MainInv /\ QueueCounterExact
  BY DEF Inv
<1>2. NumFiles \in Nat /\ MaxChunks \in Nat /\ call \in Calls
  BY <1>1, CallFacts DEF Typed
<1>3. \A f \in Files : successful_transfers[f] \in 0..MaxChunks
                         /\ failed_transfers[f] \in 0..MaxChunks + 1
  <2> SUFFICES ASSUME NEW f \in Files
               PROVE  /\ successful_transfers[f] \in 0..MaxChunks
                      /\ failed_transfers[f] \in 0..MaxChunks + 1
    OBVIOUS
  <2>1. /\ successful_transfers[f] \in Nat /\ failed_transfers[f] \in Nat
        /\ num_of_chunks[f] \in 0..MaxChunks
        /\ NothingSubmitted(f) \/ ChunksSubmitted(f)
    BY <1>1 DEF Typed, FilesInv, FileInv
  <2>2. /\ Cardinality(DoneChunks(f)) \in Nat
        /\ Cardinality(DoneChunks(f)) <= num_of_chunks[f]
    BY <1>1, DoneChunksFacts
  <2>3. CASE NothingSubmitted(f)
    BY <1>2, <2>3 DEF NothingSubmitted
  <2>4. CASE ChunksSubmitted(f)
    BY <1>2, <2>1, <2>2, <2>4 DEF ChunksSubmitted
  <2> QED
    BY <2>1, <2>3, <2>4
<1>4. num_files_completed \in 0..NumFiles
  <2>1. IsFiniteSet(Files) /\ Cardinality(Files) = NumFiles
    BY <1>2, FS_Interval DEF Files
  <2>2. IsFiniteSet(completed_files) /\ Cardinality(completed_files) <= NumFiles
    BY <1>1, <2>1, FS_Subset DEF Typed
  <2> QED
    BY <1>1, <1>2, <2>2, FS_CardinalityType DEF MainInv
<1>5. chunks_in_queue \in 0..NumFiles * MaxChunks
  <2>1. chunks_in_queue = Cardinality(InQueue)
    BY <1>1 DEF QueueCounterExact, InQueue
  <2>2. Cardinality(InQueue) \in Nat /\ Cardinality(InQueue) <= NumFiles * MaxChunks
    BY <1>2, QueueFinite
  <2>3. NumFiles * MaxChunks \in Nat
    BY <1>2
  <2> HIDE DEF NumFiles
  <2> QED
    BY <2>1, <2>2, <2>3
<1>6. exceptions \in BOOLEAN \X BOOLEAN
  BY <1>1 DEF Typed, exceptions
<1>7. /\ successful_transfers \in [Files -> 0..MaxChunks]
      /\ failed_transfers \in [Files -> 0..MaxChunks + 1]
  BY <1>1, <1>3 DEF Typed
<1> QED
  BY <1>1, <1>4, <1>5, <1>6, <1>7 DEF Typed, TypeOK

(* The throttle of preprocess_done_cb and transfer_done_cb works, for every *)
(* number of files and chunks and every size of the pools: chunks_in_queue  *)
(* is exactly the number of chunks in the queue, and never more than one    *)
(* file's chunks above twice the size of the network pool.                  *)
THEOREM ThrottleIsSound == Spec => []ThrottleSound
<1>1. Inv => ThrottleSound
  BY InvTypeOK DEF Inv, ThrottleSound
<1> QED
  BY <1>1, InvHolds, PTL

(* What transfer() and result() tell the caller is true, for every number   *)
(* of files and chunks and whichever work functions and callbacks raise: a  *)
(* return means that every file has ended, a success that every chunk of it *)
(* was transferred, and an error of a preparation or a chunk is reported.   *)
THEOREM ReportIsHonest == Spec => []ReportHonest
<1>1. Inv => ReportHonest
  <2> SUFFICES ASSUME Inv PROVE ReportHonest
    OBVIOUS
  <2>1. Typed /\ FilesInv /\ MainInv
    BY DEF Inv
  <2>2. ReturnMeansFinished
    BY <2>1, AllReported, AllQuiet, ReportedHasEnded DEF ReturnMeansFinished
  <2>3. SuccessMeansAllChunks
    BY <2>1, ReportedHasEnded DEF SuccessMeansAllChunks
  <2>4. TransferErrorsReported
    <3>1. ASSUME NEW f \in Files, error_details[f], main \in {"returned", "reported"}
          PROVE  result_status[f] = "ERROR"
      BY <2>1, <3>1, AllReported, ReportedHasEnded
    <3>2. ASSUME NEW f \in Files, error_details[f], RaisePutGetError
          PROVE  main # "reported"
      BY <2>1, <3>2 DEF MainInv
    <3> QED
      BY <3>1, <3>2 DEF TransferErrorsReported
  <2> QED
    BY <2>2, <2>3, <2>4 DEF ReportHonest
<1> QED
  BY <1>1, InvHolds, PTL
=============================================================================
