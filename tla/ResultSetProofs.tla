-------------------------- MODULE ResultSetProofs ---------------------------
(* Proofs about ResultSet, for every number of batches, every size of the   *)
(* pool and every number of attempts per download.                          *)
EXTENDS ResultSet, FiniteSetTheorems, SequenceTheorems, TLAPS

\* The batch the generator has got to, which is the first before any was popped.
First == IF current = 0 THEN 1 ELSE current

\* s and t together are the batches after `first`, in order.
Window(first, s, t) ==
    /\ s \in Seq(Int) /\ t \in Seq(Int)
    /\ first + Len(s) + Len(t) = NumBatches
    /\ \A i \in 1..Len(s) : s[i] = first + i
    /\ \A i \in 1..Len(t) : t[i] = first + Len(s) + i

Typed ==
    /\ is_fetch_all \in BOOLEAN
    /\ pc \in {"created", "yielding", "wait_all", "loop", "result", "exit_ended",
               "exit_failed", "exit_closed", "ended", "failed", "closed"}
    /\ current \in 0..NumBatches
    /\ future \in [Batches -> {"none", "queued", "downloading", "ok", "failed"}]
    /\ retry \in [Batches -> 0..MaxDownloadRetry]
    /\ \A b \in Batches :
         /\ future[b] \in {"none", "queued"} => retry[b] = 0
         /\ future[b] = "downloading" => retry[b] < MaxDownloadRetry

\* fetchall() has got the first batch and has not submitted the others yet.
BeforeSubmitAll == is_fetch_all /\ pc = "yielding" /\ current = 0

\* The futures are the next batches, no others were submitted, and while the
\* loop runs there is a future to pop as long as a batch is unfetched.
Placed ==
    /\ Window(First, unconsumed_batches, unfetched_batches)
    /\ \A b \in Batches : future[b] # "none" => b <= First + Len(unconsumed_batches)
    /\ pc = "created" => /\ current = 0 /\ Len(unconsumed_batches) = 0
                         /\ \A b \in Batches : future[b] = "none"
    /\ BeforeSubmitAll => Len(unconsumed_batches) = 0
    /\ ~is_fetch_all => Len(unconsumed_batches) <= PrefetchThreads
    /\ pc \in {"yielding", "wait_all", "loop", "result"} /\ ~BeforeSubmitAll
         /\ Len(unfetched_batches) > 0 => Len(unconsumed_batches) > 0

\* How far the caller has got: up to the popped batch, or just before it.
Given ==
    /\ delivered \in Seq(Nat) /\ InOrder
    /\ Len(delivered) \in {First - 1, First}
    /\ pc = "created" => Len(delivered) = 0
    /\ pc \in {"yielding", "wait_all", "loop", "exit_ended"} => Len(delivered) = First
    /\ pc = "result" => current # 0 /\ Len(delivered) = current - 1
    /\ pc = "exit_ended" => Len(delivered) = NumBatches

\* What was given out was downloaded, and the exception is that of the popped batch.
Told ==
    /\ future[1] = "none" /\ \A b \in 2..Len(delivered) : future[b] = "ok"
    /\ pc \in {"exit_failed", "failed"} =>
         current # 0 /\ Len(delivered) = current - 1 /\ future[current] = "failed"
    /\ pc = "ended" => Len(delivered) = NumBatches

Inv == Typed /\ Placed /\ Given /\ Told

(* The next n unfetched batches become futures and nothing else moves.      *)
LEMMA WindowSubmit ==
    ASSUME NEW first \in Nat, NEW s, NEW t, Window(first, s, t), NEW n \in 0..Len(t)
    PROVE  /\ Window(first, s \o SubSeq(t, 1, n), SubSeq(t, n + 1, Len(t)))
           /\ Len(s \o SubSeq(t, 1, n)) = Len(s) + n
           /\ Len(SubSeq(t, n + 1, Len(t))) = Len(t) - n
           /\ \A i \in 1..n : SubSeq(t, 1, n)[i] = first + Len(s) + i
           /\ DOMAIN SubSeq(t, 1, n) = 1..n
<1> DEFINE a == SubSeq(t, 1, n)
           b == SubSeq(t, n + 1, Len(t))
<1>0. /\ s \in Seq(Int) /\ t \in Seq(Int) /\ Len(s) \in Nat /\ Len(t) \in Nat
      /\ n \in Nat /\ n <= Len(t)
  BY DEF Window
<1>1. /\ a \in Seq(Int) /\ Len(a) = n
      /\ \A i \in 1..n : a[i] = t[i]
  BY <1>0
<1>2. /\ b \in Seq(Int) /\ Len(b) = Len(t) - n
      /\ \A i \in 1..Len(t) - n : b[i] = t[n + i]
  BY <1>0
<1> HIDE DEF a, b
<1> DEFINE c == s \o a
<1>3. /\ c \in Seq(Int) /\ Len(c) = Len(s) + n
      /\ \A i \in 1..Len(s) + n : c[i] = IF i <= Len(s) THEN s[i] ELSE a[i - Len(s)]
  BY <1>0, <1>1, ConcatProperties, Zenon
<1> HIDE DEF c
<1>w. /\ \A i \in 1..Len(s) : s[i] = first + i
      /\ \A i \in 1..Len(t) : t[i] = first + Len(s) + i
  BY DEF Window
<1>7. \A i \in 1..n : a[i] = first + Len(s) + i
  <2> SUFFICES ASSUME NEW i \in 1..n PROVE a[i] = first + Len(s) + i
    OBVIOUS
  <2>1. i \in 1..Len(t) /\ a[i] = t[i]
    BY <1>0, <1>1
  <2> QED
    BY <2>1, <1>w
<1>4. \A i \in 1..Len(c) : c[i] = first + i
  <2> SUFFICES ASSUME NEW i \in 1..Len(c) PROVE c[i] = first + i
    OBVIOUS
  <2>1. CASE i <= Len(s)
    <3>1. i \in 1..Len(s) /\ c[i] = s[i]
      BY <2>1, <1>0, <1>3
    <3> QED
      BY <3>1, <1>w
  <2>2. CASE i > Len(s)
    <3>1. i - Len(s) \in 1..n /\ c[i] = a[i - Len(s)]
      BY <2>2, <1>0, <1>3
    <3> QED
      BY <3>1, <1>0, <1>3, <1>7
  <2> QED
    BY <2>1, <2>2, <1>0, <1>3
<1>5. \A i \in 1..Len(b) : b[i] = first + Len(c) + i
  <2> SUFFICES ASSUME NEW i \in 1..Len(b) PROVE b[i] = first + Len(c) + i
    OBVIOUS
  <2>1. n + i \in 1..Len(t) /\ b[i] = t[n + i]
    BY <1>0, <1>2
  <2> QED
    BY <2>1, <1>0, <1>3 DEF Window
<1>6. Window(first, c, b)
  <2>1. first + Len(c) + Len(b) = NumBatches
    BY <1>0, <1>2, <1>3 DEF Window
  <2> QED
    BY <2>1, <1>2, <1>3, <1>4, <1>5 DEF Window
<1>8. DOMAIN a = 1..n
  BY <1>1
<1> QED
  BY <1>2, <1>3, <1>6, <1>7, <1>8 DEF a, b, c

(* Popping the oldest future moves the window on by one batch.              *)
LEMMA WindowPop ==
    ASSUME NEW first \in Nat, NEW s, NEW t, Window(first, s, t), Len(s) > 0
    PROVE  /\ Head(s) = first + 1
           /\ Len(Tail(s)) = Len(s) - 1
           /\ Window(first + 1, Tail(s), t)
<1>0. s \in Seq(Int) /\ t \in Seq(Int) /\ s # <<>> /\ Len(s) \in Nat /\ Len(t) \in Nat
  BY DEF Window
<1>1. Head(s) = first + 1
  BY <1>0 DEF Window
<1>2. /\ Tail(s) \in Seq(Int) /\ Len(Tail(s)) = Len(s) - 1
      /\ \A i \in 1..Len(s) - 1 : Tail(s)[i] = s[i + 1]
  BY <1>0
<1>3. \A i \in 1..Len(s) - 1 : Tail(s)[i] = first + 1 + i
  <2> SUFFICES ASSUME NEW i \in 1..Len(s) - 1 PROVE Tail(s)[i] = first + 1 + i
    OBVIOUS
  <2>1. i + 1 \in 1..Len(s)
    BY <1>0
  <2> QED
    BY <1>0, <1>2, <2>1 DEF Window
<1>4. \A i \in 1..Len(t) : t[i] = first + 1 + Len(Tail(s)) + i
  BY <1>0, <1>2 DEF Window
<1> QED
  BY <1>0, <1>1, <1>2, <1>3, <1>4 DEF Window

(* The two deques, one after the other, are what TypeOK says they are.      *)
LEMMA WindowConcatenated ==
    ASSUME NEW first \in 1..NumBatches, NEW s, NEW t, Window(first, s, t)
    PROVE  s \o t = [i \in 1..NumBatches - Smaller(NumBatches, first) |-> i + first]
<1>0. s \in Seq(Int) /\ t \in Seq(Int) /\ Len(s) \in Nat /\ Len(t) \in Nat
  BY DEF Window
<1>1. NumBatches - Smaller(NumBatches, first) = Len(s) + Len(t)
  BY <1>0, ParametersAssumption DEF Smaller, Window
<1> DEFINE c == s \o t
<1>2. /\ c \in Seq(Int) /\ Len(c) = Len(s) + Len(t)
      /\ \A i \in 1..Len(s) + Len(t) : c[i] = IF i <= Len(s) THEN s[i] ELSE t[i - Len(s)]
  BY <1>0, ConcatProperties, Zenon
<1> HIDE DEF c
<1>3. \A i \in 1..Len(s) + Len(t) : c[i] = i + first
  <2> SUFFICES ASSUME NEW i \in 1..Len(s) + Len(t) PROVE c[i] = i + first
    OBVIOUS
  <2>1. CASE i <= Len(s)
    <3>1. i \in 1..Len(s) /\ c[i] = s[i]
      BY <2>1, <1>0, <1>2
    <3> QED
      BY <3>1, <1>0 DEF Window
  <2>2. CASE i > Len(s)
    <3>1. i - Len(s) \in 1..Len(t) /\ c[i] = t[i - Len(s)]
      BY <2>2, <1>0, <1>2
    <3> QED
      BY <3>1, <1>0 DEF Window
  <2> QED
    BY <2>1, <2>2, <1>0
<1>4. c = [i \in 1..Len(s) + Len(t) |-> i + first]
  BY <1>0, <1>2, <1>3
<1> QED
  BY <1>1, <1>4 DEF c

(* pool.submit: the batches after the window get a future, the others keep  *)
(* what they have, and no attempt to download a new one was made yet.       *)
LEMMA SubmitFutures ==
    ASSUME Typed, Placed, NEW n \in 0..Len(unfetched_batches), Submit(n)
    PROVE  /\ future' \in [Batches -> {"none", "queued", "downloading", "ok", "failed"}]
           /\ \A b \in Batches :
                 /\ future'[b] \in {"none", "queued"} => retry[b] = 0
                 /\ future'[b] = "downloading" => retry[b] < MaxDownloadRetry
                 /\ future'[b] # "none" => b <= First + Len(unconsumed_batches) + n
                 /\ b <= First + Len(unconsumed_batches) => future'[b] = future[b]
<1> DEFINE w == First + Len(unconsumed_batches)
           batches == SubSeq(unfetched_batches, 1, n)
<1>0. /\ First \in Nat /\ Len(unconsumed_batches) \in Nat
      /\ Window(First, unconsumed_batches, unfetched_batches)
  BY ParametersAssumption DEF Typed, Placed, Window, First
<1>1. /\ DOMAIN batches = 1..n
      /\ \A i \in 1..n : batches[i] = w + i
  BY <1>0, WindowSubmit
<1>2. future' = [b \in Batches |->
          IF \E i \in DOMAIN batches : batches[i] = b THEN "queued" ELSE future[b]]
  BY DEF Submit
<1> HIDE DEF batches
<1>3. \A b \in Batches : future'[b] = IF \E i \in 1..n : w + i = b THEN "queued" ELSE future[b]
  BY <1>1, <1>2
<1>4. future' \in [Batches -> {"none", "queued", "downloading", "ok", "failed"}]
  BY <1>2 DEF Typed
<1>5. ASSUME NEW b \in Batches
      PROVE  /\ future'[b] \in {"none", "queued"} => retry[b] = 0
             /\ future'[b] = "downloading" => retry[b] < MaxDownloadRetry
             /\ future'[b] # "none" => b <= w + n
             /\ b <= w => future'[b] = future[b]
  <2>0. b \in Nat /\ w \in Nat /\ n \in Nat
    BY <1>0, ParametersAssumption DEF Batches
  <2>1. CASE \E i \in 1..n : w + i = b
    <3>1. b > w /\ b <= w + n
      BY <2>0, <2>1
    <3>2. future[b] = "none"
      BY <3>1, <2>0 DEF Placed
    <3> QED
      BY <3>1, <3>2, <1>3, <2>0, <2>1 DEF Typed
  <2>2. CASE ~ \E i \in 1..n : w + i = b
    <3>1. future'[b] = future[b]
      BY <1>3, <2>2
    <3>2. future[b] # "none" => b <= w
      BY DEF Placed
    <3> QED
      BY <3>1, <3>2, <2>0 DEF Typed
  <2> QED
    BY <2>1, <2>2
<1> QED
  BY <1>4, <1>5

(* Before the first next() nothing is submitted and nothing given out.      *)
LEMMA InvInit == Init => Inv
<1> SUFFICES ASSUME Init PROVE Inv
  OBVIOUS
<1> USE ParametersAssumption DEF Init
<1>1. Typed
  BY DEF Typed, Batches
<1>2. First = 1
  BY DEF First
<1>3. /\ unconsumed_batches \in Seq(Int) /\ Len(unconsumed_batches) = 0
      /\ unfetched_batches \in Seq(Int) /\ Len(unfetched_batches) = NumBatches - 1
      /\ \A i \in 1..NumBatches - 1 : unfetched_batches[i] = 1 + i
  OBVIOUS
<1>4. Window(1, unconsumed_batches, unfetched_batches)
  BY <1>3 DEF Window
<1>5. Placed
  BY <1>2, <1>3, <1>4 DEF Placed, BeforeSubmitAll, Batches
<1>6. Given
  BY <1>2 DEF Given, InOrder
<1>7. Told
  <2>1. 1 \in Batches /\ 2..0 = {} /\ Len(<<>>) = 0
    BY ParametersAssumption DEF Batches
  <2> QED
    BY <2>1 DEF Told
<1> QED
  BY <1>1, <1>5, <1>6, <1>7 DEF Inv

(* The first next(), fetchall()'s submission of the rest, and a turn of the *)
(* loop: the steps that move the window.                                    *)
LEMMA WindowStep ==
    ASSUME Inv, is_fetch_all' = is_fetch_all, Start \/ SubmitAll \/ Loop
    PROVE  Inv'
<1> DEFINE u == unconsumed_batches
           t == unfetched_batches
<1>0. /\ First \in Nat /\ First >= 1 /\ Len(u) \in Nat /\ Len(t) \in Nat
      /\ u \in Seq(Int) /\ t \in Seq(Int)
      /\ Window(First, u, t) /\ First + Len(u) + Len(t) = NumBatches
      /\ current \in Nat
  BY ParametersAssumption DEF Inv, Typed, Placed, Window, First
<1>p. PrefetchThreads \in Nat /\ PrefetchThreads > 0 /\ NumBatches \in Nat /\ NumBatches > 0
  BY ParametersAssumption
<1>1. CASE Start
  <2>0. /\ pc = "created" /\ current = 0 /\ Len(u) = 0 /\ First = 1 /\ First' = 1
        /\ pc' = "yielding" /\ current' = current /\ retry' = retry /\ delivered' = <<1>>
    BY <1>1, <1>0 DEF Start, Inv, Placed, First
  <2>1. Given'
    <3>1. delivered' \in Seq(Nat) /\ Len(delivered') = 1 /\ delivered'[1] = 1
      BY <2>0
    <3>2. InOrder'
      BY <2>0, <3>1 DEF InOrder
    <3> QED
      BY <2>0, <3>1, <3>2, <1>p DEF Given
  <2>2. ASSUME future'[1] = "none" PROVE Told'
    <3>1. Len(delivered') = 1 /\ 2..1 = {}
      BY <2>0
    <3> QED
      BY <2>0, <2>2, <3>1 DEF Told
  <2>3. CASE is_fetch_all
    <3>1. UNCHANGED <<unfetched_batches, unconsumed_batches, future>>
      BY <1>1, <2>3 DEF Start
    <3>2. Typed' /\ future'[1] = "none"
      BY <3>1, <2>0 DEF Inv, Typed, Told
    <3>3. Placed'
      BY <3>1, <2>0, <2>3 DEF Inv, Placed, BeforeSubmitAll
    <3> QED
      BY <3>2, <3>3, <2>1, <2>2 DEF Inv
  <2>4. CASE ~is_fetch_all
    <3> DEFINE n == Smaller(PrefetchThreads, Len(t))
    <3>1. /\ Submit(n)
          /\ unconsumed_batches' = SubSeq(t, 1, n)
          /\ unfetched_batches' = SubSeq(t, n + 1, Len(t))
      BY <1>1, <2>4 DEF Start, Submit
    <3>2. n \in 0..Len(t) /\ n <= PrefetchThreads /\ (n < Len(t) => n > 0)
      BY <1>0, <1>p DEF Smaller
    <3> HIDE DEF n
    <3>3. Typed' /\ future'[1] = "none"
      <4>1. 1 \in Batches /\ 1 <= First + Len(u)
        BY <1>0, <1>p, <2>0 DEF Batches
      <4> QED
        BY <2>0, <3>1, <3>2, <4>1, SubmitFutures DEF Inv, Typed, Told
    <3>4. SubSeq(t, 1, n) \in Seq(Int) /\ u = <<>>
      BY <1>0, <2>0, <3>2
    <3>5. u \o SubSeq(t, 1, n) = unconsumed_batches'
      BY <3>1, <3>4, ConcatEmptySeq, Zenon
    <3>6. /\ Window(First, unconsumed_batches', unfetched_batches')
          /\ Len(unconsumed_batches') = n
          /\ Len(unfetched_batches') = Len(t) - n
      <4>1. /\ Window(First, u \o SubSeq(t, 1, n), SubSeq(t, n + 1, Len(t)))
            /\ Len(u \o SubSeq(t, 1, n)) = Len(u) + n
            /\ Len(SubSeq(t, n + 1, Len(t))) = Len(t) - n
        <5>1. First \in Nat /\ Window(First, u, t) /\ n \in 0..Len(t)
          BY <1>0, <3>2
        <5> HIDE DEF u, t
        <5> QED
          BY <5>1, WindowSubmit
      <4> QED
        BY <1>0, <2>0, <3>1, <3>2, <3>5, <4>1
    <3>7. \A b \in Batches : future'[b] # "none" => b <= 1 + n
      BY <2>0, <3>1, <3>2, SubmitFutures DEF Inv
    <3>8. Placed'
      BY <1>0, <2>0, <2>4, <3>2, <3>6, <3>7 DEF Placed, BeforeSubmitAll
    <3> QED
      BY <3>3, <3>8, <2>1, <2>2 DEF Inv
  <2> QED
    BY <2>3, <2>4
<1>2. CASE SubmitAll
  <2>0. /\ is_fetch_all /\ pc = "yielding" /\ current = 0 /\ Len(u) = 0
        /\ First = 1 /\ First' = 1 /\ pc' = "wait_all" /\ current' = current
        /\ retry' = retry /\ delivered' = delivered
        /\ unconsumed_batches' = t /\ unfetched_batches' = SubSeq(t, Len(t) + 1, Len(t))
        /\ Submit(Len(t))
    BY <1>2, <1>0 DEF SubmitAll, Submit, Inv, Placed, First, BeforeSubmitAll
  <2>1. Len(t) \in 0..Len(t)
    BY <1>0
  <2>2. Typed'
    BY <2>0, <2>1, SubmitFutures DEF Inv, Typed
  <2>3. SubSeq(t, Len(t) + 1, Len(t)) \in Seq(Int) /\ Len(SubSeq(t, Len(t) + 1, Len(t))) = 0
    BY <1>0
  <2>4. \A i \in 1..Len(t) : t[i] = 1 + i
    BY <1>0, <2>0 DEF Window
  <2>5. Window(First', unconsumed_batches', unfetched_batches')
    BY <1>0, <2>0, <2>3, <2>4 DEF Window
  <2>6. \A b \in Batches : future'[b] # "none" => b <= 1 + Len(t)
    BY <2>0, <2>1, SubmitFutures DEF Inv
  <2>7. Placed'
    BY <1>0, <2>0, <2>3, <2>5, <2>6 DEF Placed, BeforeSubmitAll
  <2>8. Given' /\ Told'
    <3>1. 1 \in Batches /\ 1 <= First + Len(u) /\ Len(delivered) = 1 /\ 2..1 = {}
      BY <1>0, <1>p, <2>0 DEF Batches, Inv, Given
    <3>2. future'[1] = "none"
      BY <2>0, <2>1, <3>1, SubmitFutures DEF Inv, Told
    <3>3. Told'
      BY <2>0, <3>1, <3>2 DEF Told
    <3> QED
      BY <2>0, <3>3 DEF Inv, Given, InOrder
  <2> QED
    BY <2>2, <2>7, <2>8 DEF Inv
<1>3. CASE Loop
  <2> DEFINE n == Smaller(1, Len(t))
             futures == u \o SubSeq(t, 1, n)
  <2>1. /\ pc = "loop" /\ u # <<>> /\ Submit(n)
        /\ current' = Head(futures) /\ unconsumed_batches' = Tail(futures)
        /\ unfetched_batches' = SubSeq(t, n + 1, Len(t))
        /\ pc' = "result" /\ retry' = retry /\ delivered' = delivered
    BY <1>3 DEF Loop, Submit
  <2>2. n \in 0..Len(t) /\ n <= 1 /\ (n = 0 => Len(t) = 0)
    BY <1>0 DEF Smaller
  <2>3. Len(u) > 0
    BY <1>0, <2>1
  <2>4. /\ Window(First, futures, unfetched_batches')
        /\ Len(futures) = Len(u) + n /\ Len(unfetched_batches') = Len(t) - n
    <3>1. /\ Window(First, u \o SubSeq(t, 1, n), SubSeq(t, n + 1, Len(t)))
          /\ Len(u \o SubSeq(t, 1, n)) = Len(u) + n
          /\ Len(SubSeq(t, n + 1, Len(t))) = Len(t) - n
      <4>1. First \in Nat /\ Window(First, u, t) /\ n \in 0..Len(t)
        BY <1>0, <2>2
      <4> HIDE DEF u, t, n
      <4> QED
        BY <4>1, WindowSubmit
    <3> QED
      BY <2>1, <3>1, Zenon
  <2> HIDE DEF n, futures
  <2>5. /\ current' = First + 1
        /\ Window(First + 1, unconsumed_batches', unfetched_batches')
        /\ Len(unconsumed_batches') = Len(u) + n - 1
    <3>1. Len(futures) > 0
      BY <1>0, <2>2, <2>3, <2>4
    <3>2. /\ Head(futures) = First + 1
          /\ Len(Tail(futures)) = Len(futures) - 1
          /\ Window(First + 1, Tail(futures), unfetched_batches')
      BY <1>0, <2>4, <3>1, WindowPop, Zenon
    <3> QED
      BY <1>0, <2>1, <2>2, <2>4, <3>2
  <2>6. current' \in 1..NumBatches /\ First' = First + 1
    BY <1>0, <2>2, <2>3, <2>5 DEF First
  <2>7. Typed'
    BY <2>1, <2>2, <2>6, SubmitFutures DEF Inv, Typed
  <2>8. \A b \in Batches : future'[b] # "none" => b <= First + Len(u) + n
    BY <2>1, <2>2, SubmitFutures DEF Inv
  <2>9. Placed'
    <3>1. \A b \in Batches : future'[b] # "none" => b <= First' + Len(unconsumed_batches')
      BY <1>0, <2>2, <2>5, <2>6, <2>8
    <3>2. ~is_fetch_all => Len(unconsumed_batches') <= PrefetchThreads
      BY <1>0, <1>p, <2>2, <2>5 DEF Inv, Placed
    <3>3. Len(unfetched_batches') > 0 => Len(unconsumed_batches') > 0
      BY <1>0, <2>2, <2>3, <2>4, <2>5
    <3> QED
      BY <2>1, <2>5, <2>6, <3>1, <3>2, <3>3 DEF Placed, BeforeSubmitAll
  <2>10. Given' /\ Told'
    <3>1. \A b \in 1..First : b \in Batches /\ b <= First + Len(u)
      BY <1>0, <1>p DEF Batches
    <3>2. \A b \in 1..First : future'[b] = future[b]
      BY <2>1, <2>2, <3>1, SubmitFutures DEF Inv
    <3>3. Len(delivered) = First
      BY <2>1 DEF Inv, Given
    <3>4. Told'
      BY <1>0, <2>1, <3>2, <3>3 DEF Inv, Told
    <3> QED
      BY <1>0, <2>1, <2>5, <2>6, <3>4 DEF Inv, Given, InOrder
  <2> QED
    BY <2>7, <2>9, <2>10 DEF Inv
<1> QED
  BY <1>1, <1>2, <1>3

(* A download that starts, succeeds or fails changes its own future only,   *)
(* and gives up after MAX_DOWNLOAD_RETRY attempts.                          *)
LEMMA PoolStep ==
    ASSUME Inv, NEW b \in Batches, is_fetch_all' = is_fetch_all,
           StartDownload(b) \/ DownloadSucceeds(b) \/ AttemptFails(b)
    PROVE  Inv'
<1>0. /\ UNCHANGED <<unfetched_batches, unconsumed_batches, pc, current, delivered>>
      /\ First' = First
      /\ future[b] \in {"queued", "downloading"}
      /\ \A a \in Batches : a # b => future'[a] = future[a] /\ retry'[a] = retry[a]
  BY DEF StartDownload, DownloadSucceeds, AttemptFails, First, Inv, Typed
<1>1. Typed'
  <2>1. /\ future' \in [Batches -> {"none", "queued", "downloading", "ok", "failed"}]
        /\ retry' \in [Batches -> 0..MaxDownloadRetry]
        /\ future'[b] \in {"none", "queued"} => retry'[b] = 0
        /\ future'[b] = "downloading" => retry'[b] < MaxDownloadRetry
    <3>1. CASE StartDownload(b)
      BY <3>1, ParametersAssumption DEF StartDownload, Inv, Typed
    <3>2. CASE DownloadSucceeds(b)
      BY <3>2 DEF DownloadSucceeds, Inv, Typed
    <3>3. CASE AttemptFails(b)
      BY <3>3, ParametersAssumption DEF AttemptFails, Inv, Typed
    <3> QED
      BY <3>1, <3>2, <3>3
  <2> QED
    BY <1>0, <2>1 DEF Inv, Typed
<1>2. future[b] # "none"
  BY <1>0
<1>3. Placed'
  BY <1>0, <1>2 DEF Inv, Placed, BeforeSubmitAll
<1>4. Given'
  BY <1>0 DEF Inv, Given, InOrder
<1>5. Told'
  <2>1. Len(delivered) \in Nat /\ Len(delivered) <= NumBatches /\ NumBatches \in Nat \ {0}
        /\ current \in 0..NumBatches
    <3>1. NumBatches \in Nat \ {0} /\ current \in 0..NumBatches
      BY ParametersAssumption DEF Inv, Typed
    <3>2. First \in 1..NumBatches
      BY <3>1 DEF First
    <3>3. Len(delivered) \in Nat /\ Len(delivered) \in {First - 1, First}
      BY DEF Inv, Given
    <3> QED
      BY <3>1, <3>2, <3>3
  <2>2. 1 \in Batches /\ \A a \in 2..Len(delivered) : a \in Batches
    BY <2>1 DEF Batches
  <2>3. b # 1 /\ \A a \in 2..Len(delivered) : a # b
    BY <1>0 DEF Inv, Told
  <2>4. pc \in {"exit_failed", "failed"} => current \in Batches /\ current # b
    BY <1>0, <2>1 DEF Inv, Told, Batches
  <2> QED
    BY <1>0, <2>2, <2>3, <2>4 DEF Inv, Told
<1> QED
  BY <1>1, <1>3, <1>4, <1>5 DEF Inv

(* Every step of the generator, of its caller and of the pool.              *)
LEMMA InvStep == Inv /\ [Next]_vars => Inv'
<1> SUFFICES ASSUME Inv, [Next]_vars PROVE Inv'
  OBVIOUS
<1>0. current \in Nat /\ First \in Nat /\ Len(unconsumed_batches) \in Nat
      /\ Len(unfetched_batches) \in Nat /\ NumBatches \in Nat
  BY ParametersAssumption DEF Inv, Typed, Placed, Window, First
<1>1. CASE (Start \/ SubmitAll \/ Loop) /\ UNCHANGED is_fetch_all
  BY <1>1, WindowStep
<1>2. CASE (WaitAll \/ Resume) /\ UNCHANGED is_fetch_all
  BY <1>2 DEF WaitAll, Resume, Inv, Typed, Placed, Given, Told, First,
              InOrder, BeforeSubmitAll
<1>3. CASE Result /\ UNCHANGED is_fetch_all
  <2>0. /\ pc = "result" /\ pc' \in {"yielding", "exit_failed"} /\ current # 0
        /\ First' = First /\ First = current /\ Len(delivered) = current - 1
        /\ UNCHANGED <<unfetched_batches, unconsumed_batches, future, retry, current,
                       is_fetch_all>>
        /\ delivered \in Seq(Nat)
    BY <1>3 DEF Result, Inv, Given, First
  <2>1. Typed' /\ future[1] = "none" /\ \A b \in 2..Len(delivered) : future[b] = "ok"
    BY <2>0 DEF Inv, Typed, Told
  <2>2. Placed'
    BY <2>0 DEF Inv, Placed, BeforeSubmitAll
  <2>3. CASE delivered' = Append(delivered, current) /\ pc' = "yielding"
    <3>1. /\ delivered' \in Seq(Nat) /\ Len(delivered') = current
          /\ delivered'[current] = current
          /\ \A i \in 1..current - 1 : delivered'[i] = delivered[i]
      BY <1>0, <2>0, <2>3
    <3>2. InOrder'
      BY <1>0, <2>0, <3>1 DEF Inv, Given, InOrder
    <3>3. Told'
      <4>1. future[current] = "ok"
        BY <1>3, <2>3 DEF Result
      <4>2. \A b \in 2..current : b = current \/ b \in 2..Len(delivered)
        BY <1>0, <2>0
      <4> QED
        BY <2>0, <2>1, <2>3, <3>1, <4>1, <4>2 DEF Told
    <3> QED
      BY <1>0, <2>0, <2>1, <2>2, <2>3, <3>1, <3>2, <3>3 DEF Inv, Given
  <2>4. CASE delivered' = delivered /\ pc' = "exit_failed"
    <3>1. Told'
      BY <1>3, <2>0, <2>1, <2>4 DEF Told, Result
    <3> QED
      BY <2>0, <2>1, <2>2, <2>4, <3>1 DEF Inv, Given, InOrder
  <2> QED
    BY <1>3, <2>3, <2>4 DEF Result
<1>4. CASE LoopEnds /\ UNCHANGED is_fetch_all
  <2>1. Len(unconsumed_batches) = 0 /\ Len(unfetched_batches) = 0
    BY <1>0, <1>4 DEF LoopEnds, Inv, Placed, BeforeSubmitAll
  <2>2. First = NumBatches
    BY <1>0, <2>1 DEF Inv, Placed, Window
  <2> QED
    BY <1>4, <2>2 DEF LoopEnds, Inv, Typed, Placed, Given, Told, First,
                      InOrder, BeforeSubmitAll
<1>5. CASE PoolExits /\ UNCHANGED is_fetch_all
  BY <1>5 DEF PoolExits, Inv, Typed, Placed, Given, Told, First, InOrder,
              BeforeSubmitAll
<1>6. CASE Abandon /\ UNCHANGED is_fetch_all
  BY <1>6 DEF Abandon, Inv, Typed, Placed, Given, Told, First, InOrder,
              BeforeSubmitAll
<1>7. CASE Pool
  BY <1>7, PoolStep DEF Pool
<1>8. CASE UNCHANGED vars
  BY <1>8 DEF vars, Inv, Typed, Placed, Given, Told, First, InOrder,
              BeforeSubmitAll
<1> QED
  BY <1>1, <1>2, <1>3, <1>4, <1>5, <1>6, <1>7, <1>8 DEF Next, Generator

(* The batches held besides those given out fit in the window.              *)
LEMMA WindowHolds ==
    ASSUME Inv
    PROVE  WindowBounded
<1> SUFFICES ASSUME ~is_fetch_all
             PROVE  Cardinality({b \in Batches :
                        future[b] # "none" /\ \A i \in DOMAIN delivered : delivered[i] # b})
                    <= PrefetchThreads + 1
  BY DEF WindowBounded
<1> DEFINE w == Len(unconsumed_batches)
           Held == {b \in Batches :
                      future[b] # "none" /\ \A i \in DOMAIN delivered : delivered[i] # b}
<1>0. /\ First \in Nat /\ w \in Nat /\ PrefetchThreads \in Nat /\ w <= PrefetchThreads
      /\ Len(delivered) \in Nat /\ Len(delivered) >= First - 1
      /\ \A i \in 1..Len(delivered) : delivered[i] = i
      /\ DOMAIN delivered = 1..Len(delivered)
  BY ParametersAssumption DEF Inv, Typed, Placed, Window, Given, InOrder, First
<1>1. Held \subseteq First..(First + w)
  <2> SUFFICES ASSUME NEW b \in Held PROVE b \in First..(First + w)
    OBVIOUS
  <2>1. b \in Nat /\ b >= 1 /\ b <= First + w
    BY ParametersAssumption DEF Batches, Inv, Placed
  <2>2. ~(b <= Len(delivered))
    BY <1>0, <2>1
  <2> QED
    BY <1>0, <2>1, <2>2
<1>2. IsFiniteSet(First..(First + w)) /\ Cardinality(First..(First + w)) = w + 1
  <2>1. First \in Int /\ First + w \in Int
    BY <1>0
  <2>2. /\ IsFiniteSet(First..(First + w))
        /\ Cardinality(First..(First + w)) =
             IF First > First + w THEN 0 ELSE (First + w) - First + 1
    BY <2>1, FS_Interval, Zenon
  <2> QED
    BY <1>0, <2>2
<1>3. IsFiniteSet(Held) /\ Cardinality(Held) <= w + 1
  BY <1>1, <1>2, FS_Subset
<1>4. Cardinality(Held) \in Nat
  BY <1>3, FS_CardinalityType
<1> QED
  BY <1>0, <1>3, <1>4

(* result_set_iterator: the futures and the unfetched batches stay the rest *)
(* of the result in order, what was given out is its beginning, and no more *)
(* than prefetch_thread_num + 1 batches are held at a time.                 *)
THEOREM WindowIsSound == Spec => []WindowSound
<1>1. Inv => WindowSound
  <2> SUFFICES ASSUME Inv PROVE WindowSound
    OBVIOUS
  <2>1. First \in 1..NumBatches /\ Window(First, unconsumed_batches, unfetched_batches)
    BY ParametersAssumption DEF Inv, Typed, Placed, First
  <2>2. unconsumed_batches \o unfetched_batches =
           [i \in 1..NumBatches - Smaller(NumBatches, First) |-> i + First]
    BY <2>1, WindowConcatenated
  <2>3. TypeOK
    BY <2>2 DEF TypeOK, Inv, Typed, First
  <2> QED
    BY <2>3, WindowHolds DEF WindowSound, Inv, Given
<1> QED
  BY <1>1, InvInit, InvStep, PTL DEF Spec

(* future.result() raises in its turn: the caller's exception is that of    *)
(* the first batch it has not got, and the normal end means that nothing    *)
(* failed, for every number of batches and threads.                         *)
THEOREM FailureIsTold == Spec => []FailureTold
<1>1. Inv => FailureTold
  <2> SUFFICES ASSUME Inv PROVE FailureTold
    OBVIOUS
  <2>1. pc = "failed" => future[Len(delivered) + 1] = "failed"
    BY DEF Inv, Told, Typed
  <2>2. ASSUME pc = "ended", NEW b \in Batches PROVE future[b] # "failed"
    <3>1. CASE b = 1
      BY <3>1 DEF Inv, Told
    <3>2. CASE b # 1
      BY <2>2, <3>2, ParametersAssumption DEF Inv, Told, Batches
    <3> QED
      BY <3>1, <3>2
  <2> QED
    BY <2>1, <2>2 DEF FailureTold
<1> QED
  BY <1>1, InvInit, InvStep, PTL DEF Spec

(* result_set_iterator implements in-order delivery, safety part: whatever  *)
(* the downloads do, the caller gets the next batch or the end, the end     *)
(* only after the last batch.  Liveness is left to the model checker.       *)
THEOREM DeliversInOrder ==
    Spec => Delivery!Init /\ [][Delivery!Next]_(Delivery!vars)
<1>1. Init => Delivery!Init
  BY DEF Init, Delivery!Init, Over
<1>2. Inv /\ [Next]_vars => [Delivery!Next]_(Delivery!vars)
  <2> SUFFICES ASSUME Inv, [Next]_vars PROVE [Delivery!Next]_(Delivery!vars)
    OBVIOUS
  <2> USE DEF Delivery!Next, Delivery!vars, Over
  <2>0. NumBatches \in Nat \ {0} /\ Len(delivered) \in Nat
    BY ParametersAssumption DEF Inv, Given
  <2>1. CASE Start
    BY <2>0, <2>1 DEF Start, Inv, Given, Delivery!Deliver
  <2>2. CASE Result
    <3>1. Len(delivered) = current - 1 /\ delivered \in Seq(Nat) /\ current \in 1..NumBatches
      BY <2>2 DEF Result, Inv, Given, Typed
    <3>2. delivered' = Append(delivered, current) => Len(delivered') = Len(delivered) + 1
      BY <3>1
    <3> QED
      BY <2>0, <2>2, <3>1, <3>2 DEF Result, Delivery!Deliver
  <2>3. CASE PoolExits
    BY <2>0, <2>3 DEF PoolExits, Inv, Given, Delivery!Finish, Delivery!Stop
  <2>4. CASE Abandon
    BY <2>4 DEF Abandon, Delivery!Stop
  <2>5. CASE SubmitAll \/ WaitAll \/ Resume \/ Loop \/ LoopEnds
    BY <2>5 DEF SubmitAll, WaitAll, Resume, Loop, LoopEnds
  <2>6. CASE Pool
    BY <2>6 DEF Pool, StartDownload, DownloadSucceeds, AttemptFails
  <2>7. CASE UNCHANGED vars
    BY <2>7 DEF vars
  <2> QED
    BY <2>1, <2>2, <2>3, <2>4, <2>5, <2>6, <2>7 DEF Next, Generator
<1> QED
  BY <1>1, <1>2, InvInit, InvStep, PTL DEF Spec
=============================================================================
