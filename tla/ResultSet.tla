----------------------------- MODULE ResultSet -----------------------------
(***************************************************************************)
(* result_set_iterator (result_set.py): the generator that hands the       *)
(* batches of a query's result to the caller in order while a thread pool  *)
(* downloads the next ones, and ResultBatch._download with its retries.    *)
(*                                                                         *)
(* Batch 1 came with the query's response.  A batch is delivered as a      *)
(* whole.  The generator only runs while the caller asks for rows; it is   *)
(* suspended where the code yields, and there the caller may drop it.      *)
(***************************************************************************)
EXTENDS Integers, Sequences, FiniteSets

CONSTANTS
    NumBatches,
    PrefetchThreads,   \* prefetch_thread_num, also the size of the pool
    MaxDownloadRetry   \* MAX_DOWNLOAD_RETRY

ASSUME ParametersAssumption ==
    {NumBatches, PrefetchThreads, MaxDownloadRetry} \subseteq Nat \ {0}

Batches == 1..NumBatches

VARIABLES
    is_fetch_all,        \* the argument: fetchall(), not row by row
    unfetched_batches,   \* deque of ResultBatch
    unconsumed_batches,  \* deque of futures, each named by its batch
    future,     \* per batch: "none", "queued", "downloading", "ok" or "failed"
    retry,      \* per batch, failed attempts of _download
    pc,         \* where the generator is
    current,    \* the batch whose future was popped, 0 before
    delivered   \* the batches the caller has got, in order

vars == <<is_fetch_all, unfetched_batches, unconsumed_batches, future, retry, pc, current,
          delivered>>

Smaller(a, b) == IF a < b THEN a ELSE b

Init ==
    /\ is_fetch_all \in BOOLEAN
    /\ unfetched_batches = [i \in 1..NumBatches - 1 |-> i + 1]
    /\ unconsumed_batches = <<>>
    /\ future = [b \in Batches |-> "none"]
    /\ retry = [b \in Batches |-> 0]
    /\ pc = "created"
    /\ current = 0
    /\ delivered = <<>>

-----------------------------------------------------------------------------
(* pool.submit of the first n unfetched batches.                           *)
Submit(n) ==
    LET batches == SubSeq(unfetched_batches, 1, n) IN
    /\ unfetched_batches' =
         SubSeq(unfetched_batches, n + 1, Len(unfetched_batches))
    /\ future' = [b \in Batches |->
         IF \E i \in DOMAIN batches : batches[i] = b THEN "queued" ELSE future[b]]

(* The first next(): the window is filled, the first batch is yielded.     *)
Start ==
    /\ pc = "created"
    /\ IF is_fetch_all
       THEN UNCHANGED <<unfetched_batches, unconsumed_batches, future>>
       ELSE LET n == Smaller(PrefetchThreads, Len(unfetched_batches)) IN
            /\ Submit(n)
            /\ unconsumed_batches' = SubSeq(unfetched_batches, 1, n)
    /\ delivered' = <<1>>
    /\ pc' = "yielding"
    /\ UNCHANGED <<retry, current>>

(* is_fetch_all: everything is submitted, then all of it is waited for.    *)
SubmitAll ==
    /\ is_fetch_all /\ pc = "yielding" /\ current = 0
    /\ Submit(Len(unfetched_batches))
    /\ unconsumed_batches' = unfetched_batches
    /\ pc' = "wait_all"
    /\ UNCHANGED <<retry, current, delivered>>

WaitAll ==
    /\ pc = "wait_all"
    /\ \A i \in DOMAIN unconsumed_batches :
         future[unconsumed_batches[i]] \in {"ok", "failed"}
    /\ pc' = "loop"
    /\ UNCHANGED <<unfetched_batches, unconsumed_batches, future, retry, current,
                   delivered>>

(* The caller asks for more than the batch it has.                         *)
Resume ==
    /\ pc = "yielding"
    /\ ~(is_fetch_all /\ current = 0)
    /\ pc' = "loop"
    /\ UNCHANGED <<unfetched_batches, unconsumed_batches, future, retry, current,
                   delivered>>

Bug_Loop_twice ==
    /\ pc = "loop" /\ unconsumed_batches # <<>>
    /\ LET n == Smaller(2, Len(unfetched_batches))
           futures == unconsumed_batches \o SubSeq(unfetched_batches, 1, n)
       IN
       /\ Submit(n)
       /\ current' = Head(futures)
       /\ unconsumed_batches' = Tail(futures)
    /\ pc' = "result"
    /\ UNCHANGED <<retry, delivered>>

(* One turn of the loop: submit the next batch, pop the oldest future.     *)
Loop ==
    /\ pc = "loop" /\ unconsumed_batches # <<>>
    /\ LET n == Smaller(1, Len(unfetched_batches))
           futures == unconsumed_batches \o SubSeq(unfetched_batches, 1, n)
       IN
       /\ Submit(n)
       /\ current' = Head(futures)
       /\ unconsumed_batches' = Tail(futures)
    /\ pc' = "result"
    /\ UNCHANGED <<retry, delivered>>

Bug_Result ==
    /\ pc = "result"
    /\ \/ /\ future[current] = "ok"
          /\ delivered' = Append(delivered, current)
          /\ pc' = "yielding"
       \/ /\ future[current] = "failed"
          /\ pc' = "loop"
          /\ UNCHANGED delivered
    /\ UNCHANGED <<unfetched_batches, unconsumed_batches, future, retry, current>>

Bug_Result_early ==
    /\ pc = "result"
    /\ \/ /\ future[current] = "ok" /\ \A b \in Batches : future[b] # "failed"
          /\ delivered' = Append(delivered, current)
          /\ pc' = "yielding"
       \/ /\ \E b \in Batches : future[b] = "failed"
          /\ pc' = "exit_failed"
          /\ UNCHANGED delivered
    /\ UNCHANGED <<unfetched_batches, unconsumed_batches, future, retry, current>>

(* future.result(): the batch is yielded, or the exception leaves the loop *)
Result ==
    /\ pc = "result"
    /\ \/ /\ future[current] = "ok"
          /\ delivered' = Append(delivered, current)
          /\ pc' = "yielding"
       \/ /\ future[current] = "failed"
          /\ pc' = "exit_failed"
          /\ UNCHANGED delivered
    /\ UNCHANGED <<unfetched_batches, unconsumed_batches, future, retry, current>>

LoopEnds ==
    /\ pc = "loop" /\ unconsumed_batches = <<>>
    /\ pc' = "exit_ended"
    /\ UNCHANGED <<unfetched_batches, unconsumed_batches, future, retry, current,
                   delivered>>

(* The caller drops the generator: GeneratorExit at the yield.             *)
Abandon ==
    /\ pc \in {"created", "yielding"}
    /\ pc' = IF pc = "created" THEN "closed" ELSE "exit_closed"
    /\ UNCHANGED <<unfetched_batches, unconsumed_batches, future, retry, current,
                   delivered>>

(* Leaving the with block waits for every submitted download.              *)
PoolExits ==
    /\ pc \in {"exit_ended", "exit_failed", "exit_closed"}
    /\ \A b \in Batches : future[b] \notin {"queued", "downloading"}
    /\ pc' = CASE pc = "exit_ended" -> "ended"
               [] pc = "exit_failed" -> "failed"
               [] OTHER -> "closed"
    /\ UNCHANGED <<unfetched_batches, unconsumed_batches, future, retry, current,
                   delivered>>

-----------------------------------------------------------------------------
(* The pool starts the downloads in the order they were submitted in.      *)
StartDownload(b) ==
    /\ future[b] = "queued"
    /\ \A a \in Batches : future[a] = "queued" => b <= a
    /\ Cardinality({a \in Batches : future[a] = "downloading"}) < PrefetchThreads
    /\ future' = [future EXCEPT ![b] = "downloading"]
    /\ UNCHANGED <<unfetched_batches, unconsumed_batches, retry, pc, current, delivered>>

(* _download ends, and create_iter with it.                                *)
DownloadSucceeds(b) ==
    /\ future[b] = "downloading"
    /\ future' = [future EXCEPT ![b] = "ok"]
    /\ UNCHANGED <<unfetched_batches, unconsumed_batches, retry, pc, current, delivered>>

(* An attempt fails: try again after a pause, or raise after the last.     *)
AttemptFails(b) ==
    /\ future[b] = "downloading"
    /\ retry' = [retry EXCEPT ![b] = @ + 1]
    /\ future' = [future EXCEPT ![b] =
           IF retry[b] = MaxDownloadRetry - 1 THEN "failed" ELSE @]
    /\ UNCHANGED <<unfetched_batches, unconsumed_batches, pc, current, delivered>>

-----------------------------------------------------------------------------
Generator ==
    /\ \/ Start \/ SubmitAll \/ WaitAll \/ Resume
       \/ Loop \/ Result \/ LoopEnds \/ PoolExits
    /\ UNCHANGED is_fetch_all

Pool ==
    /\ \E b \in Batches : StartDownload(b) \/ DownloadSucceeds(b) \/ AttemptFails(b)
    /\ UNCHANGED is_fetch_all

Over == pc \in {"ended", "failed", "closed"}

Next == Generator \/ (Abandon /\ UNCHANGED is_fetch_all) \/ Pool \/ (Over /\ UNCHANGED vars)

(* The caller goes on asking for rows unless it drops the generator; the   *)
(* pool's threads keep running and every request has a timeout.            *)
Spec == Init /\ [][Next]_vars /\ WF_vars(Generator) /\ WF_vars(Pool)

-----------------------------------------------------------------------------
(* The deques partition the batches that were not popped yet, in order,    *)
(* between futures and batches; attempts stay within MAX_DOWNLOAD_RETRY.   *)
TypeOK ==
    /\ is_fetch_all \in BOOLEAN
    /\ pc \in {"created", "yielding", "wait_all", "loop", "result", "exit_ended",
               "exit_failed", "exit_closed", "ended", "failed", "closed"}
    /\ current \in 0..NumBatches
    /\ future \in [Batches -> {"none", "queued", "downloading", "ok", "failed"}]
    /\ retry \in [Batches -> 0..MaxDownloadRetry]
    /\ unconsumed_batches \o unfetched_batches =
           [i \in 1..NumBatches - Smaller(NumBatches, IF current = 0 THEN 1 ELSE current)
                |-> i + (IF current = 0 THEN 1 ELSE current)]

(* Memory is bounded by the window: besides the batch the caller works on, *)
(* at most one more than prefetch_thread_num downloads are under way or    *)
(* kept (the one in excess is submitted just before the oldest is taken).  *)
WindowBounded ==
    ~is_fetch_all =>
        Cardinality({b \in Batches :
                        future[b] # "none" /\ \A i \in DOMAIN delivered : delivered[i] # b})
            <= PrefetchThreads + 1

(* A download that failed is told in its place: the exception the caller   *)
(* gets is that of the first batch it has not got, also when a later one   *)
(* failed before it was even started; and the end is not reported while a  *)
(* failure is untold.                                                      *)
FailureTold ==
    /\ pc = "failed" => future[Len(delivered) + 1] = "failed"
    /\ pc = "ended" => \A b \in Batches : future[b] # "failed"

(* The batches reach the caller in the order of the result, each once,     *)
(* whatever order their downloads complete in.                             *)
InOrder == \A i \in DOMAIN delivered : delivered[i] = i

Delivery == INSTANCE InOrderDelivery WITH
    delivered <- Len(delivered),
    status <- IF Over THEN pc ELSE "open"

(* The generator implements in-order delivery: the window of futures,      *)
(* failed downloads and an early drop never skip or repeat a batch, the    *)
(* normal end comes only after the last batch, and an end does come.       *)
ImplementsDelivery == Delivery!Spec

(* The window of futures slides without losing its place: the batches not  *)
(* yet given out are the futures followed by the unfetched ones, in order, *)
(* each once, and no more of them than the window are held.                *)
WindowSound == TypeOK /\ InOrder /\ WindowBounded
=============================================================================
