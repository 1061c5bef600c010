---------------------------- MODULE CursorProofs ----------------------------
(* Proofs about Cursor, for every number of calls of execute(), every kind  *)
(* of query, any number of signals at any point, and any number of          *)
(* statements per query.                                                    *)
EXTENDS Cursor, FiniteSetTheorems, SequenceTheorems, TLAPS

Typed ==
    /\ plan \in Plans /\ n \in {0} \cup Queries
    /\ pc \in MainStates /\ answer \in {"ok", "failed", "canceled", "raise", "exit"}
    /\ sequence_counter \in {-1} \cup Queries
    /\ request_id \in {None} \cup Queries /\ timebomb \in {None} \cup Queries
    /\ hook \in {None} \cup Queries /\ asked \in {None} \cup Queries
    /\ timer \in [Queries -> {"none", "waiting", "fired", "checked", "locked", "called",
                              "ended", "died"}]
    /\ server \in [Queries -> {"none", "running", "ok", "failed", "canceled"}]
    /\ finished \in [Queries -> BOOLEAN] /\ executed \in [Queries -> BOOLEAN]
    /\ blamed \in [Queries -> BOOLEAN]
    /\ canceler \in [Queries -> {None} \cup Queries]
    /\ handler \in Handlers /\ original_sigint \in [Queries -> Handlers]
    /\ resume \in {"idle", "raise", "restore"} /\ handling \in {None} \cup Queries
    /\ pc \in InHelper \cup InHandler \/ (\E q \in Queries : handler = InterruptOf(q))
         => n \in Queries
    /\ pc \in InHandler => handling \in Queries
    /\ pc = "sent" => server[n] # "none"

\* A timer that may still fire is that of the query under way, and the cursor
\* can reach it until one of the two places that cancel it has done so.
TimerInv ==
    /\ \A q \in Queries : q > n \/ (q = n /\ pc \in {"identify", "arm"}) => timer[q] = "none"
    /\ \A q \in Queries \ rude : timer[q] = "waiting" /\ ~finished[q] =>
         /\ q = n /\ timebomb = q
         /\ pc \in {"install", "send", "sent", "restore", "disarm", "interrupted", "exited"}

\* When the application has a handler of its own, interrupt_handler is there only
\* around the request, exit_handler only while that runs or an exit is under way,
\* and both know which handler to put back.
HandlerInv ==
    plan.original = "python" =>
        /\ handler \in {Python, Exit, InterruptOf(n)}
        /\ handler # Python => plan.inMain
        /\ handler = InterruptOf(n) => pc \in {"send", "sent", "restore"}
        /\ handler = Exit => pc \in InHandler \cup {"exited"} \/ (pc = "restore" /\ answer = "exit")
        /\ pc \in InHandler => handler = Exit /\ handling = n
        /\ pc \in {"send", "sent", "restore"} \cup InHandler => original_sigint[n] = Python

\* execute() is under way, or interrupted by a signal.
InExecute == pc \in InHelper \/ (pc \in InHandler /\ resume # "idle")

HelperInv == Typed /\ TimerInv /\ HandlerInv

NumStatements == Cardinality(Statements)

\* The results of the first k statements of q, and the ids of the others.
GivenOut(q, k) == [i \in 1..k |-> <<q, i>>]
Rest(q, k) == [i \in 1..(NumStatements - k) |-> <<q, k + i>>]

\* The ids kept are those of the rest of one query.  When that is the query
\* asked for, the others have been given out.
IdsOfOneQuery ==
    \/ resultIds = <<>>
    \/ \E q \in Queries, k \in 0..(NumStatements - 1) :
         /\ q <= n /\ kind[q] \in {"multi", "async_multi"} /\ (InExecute => q < n)
         /\ resultIds = Rest(q, k)
         /\ q = asked /\ hook = None /\ ~stale /\ ~closed => served = GivenOut(q, k)

\* What is asked for has not been given out before the call that waits for it ends.
ResultInv ==
    /\ result \in {NoResult} \cup (Queries \X ({0} \cup Statements))
    /\ InExecute => asked = n /\ hook = None /\ served = <<>>
    /\ hook # None => asked = hook /\ hook <= n /\ served = <<>>
    /\ IdsOfOneQuery
    /\ ResultsOfAsked

(* Every step of the application, of a timer thread, of a signal handler    *)
(* and of the server keeps the types.                                       *)
LEMMA TypedStep == Typed /\ [Next]_vars => Typed'
<1> SUFFICES ASSUME Typed, [Next]_vars PROVE Typed'
  OBVIOUS
<1> USE DEF Typed, Handlers, Python, Exit, Default, InterruptOf, MainStates, InHelper,
   InHandler, query, interrupt, attrs, timers, remote, results
<1>0. Queries \subseteq Nat \ {0} /\ None \notin Queries /\ plan.timeout \in [Queries -> BOOLEAN]
  BY CallsAssumption DEF None
<1>1. CASE Execute
  BY <1>0, <1>1 DEF Execute, Reset
<1>2. CASE SetRequestId \/ RefuseRequestId
  BY <1>0, <1>2 DEF SetRequestId, RefuseRequestId
<1>3. CASE ArmTimer
  BY <1>0, <1>3 DEF ArmTimer
<1>4. CASE InstallHandler
  BY <1>0, <1>4 DEF InstallHandler
<1>5. CASE Send
  BY <1>0, <1>5 DEF Send
<1>6. CASE CmdQuery
  BY <1>0, <1>6 DEF CmdQuery
<1>7. CASE Restore
  BY <1>0, <1>7 DEF Restore, PutBack, Truthy
<1>8. CASE Disarm
  BY <1>0, <1>8 DEF Disarm, AfterFinally
<1>9. CASE LeaveHelper
  BY <1>0, <1>9 DEF LeaveHelper
<1>10. CASE Evaluate
  <2>1. blamed' \in [Queries -> BOOLEAN]
    <3>1. CASE UNCHANGED blamed
      BY <3>1
    <3>2. ASSUME NEW b \in BOOLEAN, blamed' = [blamed EXCEPT ![n] = b]
          PROVE  blamed' \in [Queries -> BOOLEAN]
      BY <3>2
    <3> QED
      BY <1>10, <3>1, <3>2 DEF Evaluate
  <2>2. hook' \in {None} \cup Queries
    BY <1>0, <1>10 DEF Evaluate, Nextset, Serve, Reset
  <2> QED
    BY <1>0, <1>10, <2>1, <2>2 DEF Evaluate
<1>11. CASE Interrupt
  BY <1>0, <1>11 DEF Interrupt, Meets
<1>12. CASE HandlerDisarms
  BY <1>0, <1>12 DEF HandlerDisarms
<1>13. CASE HandlerLocks
  BY <1>0, <1>13 DEF HandlerLocks
<1>14. CASE HandlerCancels
  BY <1>0, <1>14 DEF HandlerCancels, Abort, SqlOf
<1>15. CASE HandlerEnds
  BY <1>0, <1>15 DEF HandlerEnds, PutBack, Truthy, Unlocked
<1>16. CASE ForceExit
  BY <1>0, <1>16 DEF ForceExit, PutBack, Truthy, Unlocked, Meets
<1>17. CASE OriginalHandler
  BY <1>0, <1>17 DEF OriginalHandler
<1>18. CASE Fetch
  BY <1>0, <1>18 DEF Fetch, Hook, Nextset, Serve, Reset
<1>19. CASE CallNextset
  BY <1>0, <1>19 DEF CallNextset, Nextset, Serve, Reset
<1>20. CASE Close \/ CloseEnds
  BY <1>0, <1>20 DEF Close, CloseEnds, Reset
<1>21. ASSUME NEW q \in Queries, ServerEnds(q) PROVE Typed'
  BY <1>0, <1>21 DEF ServerEnds
<1>22. ASSUME NEW q \in Queries, GetResults(q) PROVE Typed'
  BY <1>0, <1>22 DEF GetResults
<1>23. ASSUME NEW q \in Queries, TimerFires(q) PROVE Typed'
  BY <1>0, <1>23 DEF TimerFires
<1>24. ASSUME NEW q \in Queries, TimerEnds(q) PROVE Typed'
  BY <1>0, <1>24 DEF TimerEnds
<1>25. ASSUME NEW q \in Queries, TimerChecks(q) PROVE Typed'
  BY <1>0, <1>25 DEF TimerChecks
<1>26. ASSUME NEW q \in Queries, TimerLocks(q) PROVE Typed'
  BY <1>0, <1>26 DEF TimerLocks
<1>27. ASSUME NEW q \in Queries, TimerCancels(q) PROVE Typed'
  BY <1>0, <1>27 DEF TimerCancels, Abort, SqlOf
<1>28. CASE UNCHANGED vars
  BY <1>28 DEF vars
<1> QED
  BY <1>1, <1>2, <1>3, <1>4, <1>5, <1>6, <1>7, <1>8, <1>9, <1>10, <1>11, <1>12, <1>13,
     <1>14, <1>15, <1>16, <1>17, <1>18, <1>19, <1>20, <1>21, <1>22, <1>23, <1>24, <1>25,
     <1>26, <1>27, <1>28
     DEF Next, Main, Calls, Timer

(* Every step keeps the timers that may fire within reach of the cursor.    *)
LEMMA TimerStep == Typed /\ TimerInv /\ HandlerInv /\ [Next]_vars => TimerInv'
<1> SUFFICES ASSUME Typed, TimerInv, HandlerInv, [Next]_vars PROVE TimerInv'
  OBVIOUS
<1> USE DEF TimerInv, HandlerInv, MainStates, InHelper, InHandler, query, interrupt, attrs,
   timers, remote,
            results
<1>0. /\ Queries \subseteq Nat \ {0} /\ None \notin Queries /\ n \in {0} \cup Queries
      /\ plan.timeout \in [Queries -> BOOLEAN]
      /\ (pc \in InHelper \cup InHandler => n \in Queries)
      /\ timer \in [Queries -> {"none", "waiting", "fired", "checked", "locked", "called",
                                "ended", "died"}]
      /\ finished \in [Queries -> BOOLEAN] /\ timebomb \in {None} \cup Queries
  BY CallsAssumption DEF None, Typed
<1>1. CASE Execute
  BY <1>0, <1>1 DEF Execute, Reset
<1>2. CASE SetRequestId \/ RefuseRequestId
  BY <1>0, <1>2 DEF SetRequestId, RefuseRequestId
<1>3. CASE ArmTimer
  BY <1>0, <1>3 DEF ArmTimer
<1>4. CASE InstallHandler
  BY <1>0, <1>4 DEF InstallHandler
<1>5. CASE Send
  BY <1>0, <1>5 DEF Send
<1>6. CASE CmdQuery
  BY <1>0, <1>6 DEF CmdQuery
<1>7. CASE Restore
  BY <1>0, <1>7 DEF Restore, PutBack, Truthy
<1>8. CASE Disarm
  BY <1>0, <1>8 DEF Disarm, AfterFinally
<1>9. CASE LeaveHelper
  BY <1>0, <1>9 DEF LeaveHelper
<1>10. CASE Evaluate
  BY <1>0, <1>10 DEF Evaluate, Nextset, Serve, Reset
<1>11. CASE Interrupt
  BY <1>0, <1>11 DEF Interrupt, Meets
<1>12. CASE HandlerDisarms
  BY <1>0, <1>12 DEF HandlerDisarms
<1>13. CASE HandlerLocks
  BY <1>0, <1>13 DEF HandlerLocks
<1>14. CASE HandlerCancels
  BY <1>0, <1>14 DEF HandlerCancels, Abort, SqlOf
<1>15. CASE HandlerEnds
  BY <1>0, <1>15 DEF HandlerEnds, PutBack, Truthy, Unlocked
<1>16. CASE ForceExit
  BY <1>0, <1>16 DEF ForceExit, PutBack, Truthy, Unlocked, Meets
<1>17. CASE OriginalHandler
  BY <1>0, <1>17 DEF OriginalHandler
<1>18. CASE Fetch
  BY <1>0, <1>18 DEF Fetch, Hook, Nextset, Serve, Reset
<1>19. CASE CallNextset
  BY <1>0, <1>19 DEF CallNextset, Nextset, Serve, Reset
<1>20. CASE Close \/ CloseEnds
  BY <1>0, <1>20 DEF Close, CloseEnds, Reset
<1>21. ASSUME NEW q \in Queries, ServerEnds(q) PROVE TimerInv'
  BY <1>0, <1>21 DEF ServerEnds
<1>22. ASSUME NEW q \in Queries, GetResults(q) PROVE TimerInv'
  BY <1>0, <1>22 DEF GetResults
<1>23. ASSUME NEW q \in Queries, TimerFires(q) PROVE TimerInv'
  BY <1>0, <1>23 DEF TimerFires
<1>24. ASSUME NEW q \in Queries, TimerEnds(q) PROVE TimerInv'
  BY <1>0, <1>24 DEF TimerEnds
<1>25. ASSUME NEW q \in Queries, TimerChecks(q) PROVE TimerInv'
  BY <1>0, <1>25 DEF TimerChecks
<1>26. ASSUME NEW q \in Queries, TimerLocks(q) PROVE TimerInv'
  BY <1>0, <1>26 DEF TimerLocks
<1>27. ASSUME NEW q \in Queries, TimerCancels(q) PROVE TimerInv'
  BY <1>0, <1>27 DEF TimerCancels, Abort, SqlOf
<1>28. CASE UNCHANGED vars
  BY <1>28 DEF vars
<1> QED
  BY <1>1, <1>2, <1>3, <1>4, <1>5, <1>6, <1>7, <1>8, <1>9, <1>10, <1>11, <1>12, <1>13,
     <1>14, <1>15, <1>16, <1>17, <1>18, <1>19, <1>20, <1>21, <1>22, <1>23, <1>24, <1>25,
     <1>26, <1>27, <1>28
     DEF Next, Main, Calls, Timer

(* Every step leaves the handler where the code of execute() expects it.    *)
LEMMA HandlerStep == Typed /\ HandlerInv /\ [Next]_vars => HandlerInv'
<1> SUFFICES ASSUME Typed, HandlerInv, [Next]_vars PROVE HandlerInv'
  OBVIOUS
<1> USE DEF HandlerInv, InHelper, InHandler, query, interrupt, Handlers, Python, Exit, Default,
            InterruptOf
<1>0. /\ handler \in Handlers /\ pc \in MainStates /\ original_sigint \in [Queries -> Handlers]
      /\ (pc \in InHelper \cup InHandler => n \in Queries) /\ Queries \subseteq Nat
  BY CallsAssumption DEF Typed
<1>1. CASE Execute
  BY <1>0, <1>1 DEF Execute, Reset
<1>2. CASE SetRequestId \/ RefuseRequestId
  BY <1>0, <1>2 DEF SetRequestId, RefuseRequestId
<1>3. CASE ArmTimer
  BY <1>0, <1>3 DEF ArmTimer
<1>4. CASE InstallHandler
  BY <1>0, <1>4 DEF InstallHandler
<1>5. CASE Send
  BY <1>0, <1>5 DEF Send
<1>6. CASE CmdQuery
  BY <1>0, <1>6 DEF CmdQuery
<1>7. CASE Restore
  BY <1>0, <1>7 DEF Restore, PutBack, Truthy
<1>8. CASE Disarm
  BY <1>0, <1>8 DEF Disarm, AfterFinally
<1>9. CASE LeaveHelper
  BY <1>0, <1>9 DEF LeaveHelper
<1>10. CASE Evaluate
  BY <1>0, <1>10 DEF Evaluate, Nextset, Serve, Reset
<1>11. CASE Interrupt
  BY <1>0, <1>11 DEF Interrupt, Meets
<1>12. CASE HandlerDisarms
  BY <1>0, <1>12 DEF HandlerDisarms
<1>13. CASE HandlerLocks
  BY <1>0, <1>13 DEF HandlerLocks
<1>14. CASE HandlerCancels
  BY <1>0, <1>14 DEF HandlerCancels, Abort, SqlOf
<1>15. CASE HandlerEnds
  BY <1>0, <1>15 DEF HandlerEnds, PutBack, Truthy, Unlocked
<1>16. CASE ForceExit
  BY <1>0, <1>16 DEF ForceExit, PutBack, Truthy, Unlocked, Meets
<1>17. CASE OriginalHandler
  BY <1>0, <1>17 DEF OriginalHandler
<1>18. CASE Fetch
  BY <1>0, <1>18 DEF Fetch, Hook, Nextset, Serve, Reset
<1>19. CASE CallNextset
  BY <1>0, <1>19 DEF CallNextset, Nextset, Serve, Reset
<1>20. CASE Close \/ CloseEnds
  BY <1>0, <1>20 DEF Close, CloseEnds, Reset
<1>21. ASSUME NEW q \in Queries, ServerEnds(q) PROVE HandlerInv'
  BY <1>0, <1>21 DEF ServerEnds
<1>22. ASSUME NEW q \in Queries, GetResults(q) PROVE HandlerInv'
  BY <1>0, <1>22 DEF GetResults
<1>23. ASSUME NEW q \in Queries, TimerFires(q) PROVE HandlerInv'
  BY <1>0, <1>23 DEF TimerFires
<1>24. ASSUME NEW q \in Queries, TimerEnds(q) PROVE HandlerInv'
  BY <1>0, <1>24 DEF TimerEnds
<1>25. ASSUME NEW q \in Queries, TimerChecks(q) PROVE HandlerInv'
  BY <1>0, <1>25 DEF TimerChecks
<1>26. ASSUME NEW q \in Queries, TimerLocks(q) PROVE HandlerInv'
  BY <1>0, <1>26 DEF TimerLocks
<1>27. ASSUME NEW q \in Queries, TimerCancels(q) PROVE HandlerInv'
  BY <1>0, <1>27 DEF TimerCancels, Abort, SqlOf
<1>28. CASE UNCHANGED vars
  BY <1>28 DEF vars
<1> QED
  BY <1>1, <1>2, <1>3, <1>4, <1>5, <1>6, <1>7, <1>8, <1>9, <1>10, <1>11, <1>12, <1>13,
     <1>14, <1>15, <1>16, <1>17, <1>18, <1>19, <1>20, <1>21, <1>22, <1>23, <1>24, <1>25,
     <1>26, <1>27, <1>28
     DEF Next, Main, Calls, Timer

(* The number of statements of a query.                                     *)
LEMMA StatementsAreNumbered == NumStatements \in Nat /\ Statements = 1..NumStatements
BY CallsAssumption, FS_CardinalityType DEF NumStatements

(* popleft: the first id of the rest is that of the next statement.         *)
LEMMA RestOf ==
    ASSUME NEW q \in Queries, NEW k \in 0..(NumStatements - 1)
    PROVE  /\ Rest(q, k) # <<>>
           /\ Head(Rest(q, k)) = <<q, k + 1>>
           /\ Tail(Rest(q, k)) = Rest(q, k + 1)
           /\ Append(GivenOut(q, k), <<q, k + 1>>) = GivenOut(q, k + 1)
           /\ Head(Rest(q, k))[1] = q
<1> DEFINE r == Rest(q, k)
           g == GivenOut(q, k)
           T == Queries \X Nat
<1>0. NumStatements \in Nat /\ k \in Nat /\ k < NumStatements
  BY StatementsAreNumbered
<1>1. /\ r \in Seq(T) /\ Len(r) = NumStatements - k
      /\ \A i \in 1..(NumStatements - k) : r[i] = <<q, k + i>>
  BY <1>0 DEF Rest
<1>2. /\ g \in Seq(T) /\ Len(g) = k
      /\ \A i \in 1..k : g[i] = <<q, i>>
  BY <1>0 DEF GivenOut
<1> HIDE DEF r, g
<1>3. r # <<>> /\ Head(r) = <<q, k + 1>>
  BY <1>0, <1>1
<1>4. Tail(r) = Rest(q, k + 1)
  <2>1. /\ Tail(r) \in Seq(T) /\ Len(Tail(r)) = NumStatements - (k + 1)
        /\ \A i \in 1..(NumStatements - (k + 1)) : Tail(r)[i] = r[i + 1]
    BY <1>0, <1>1, <1>3
  <2>2. \A i \in 1..(NumStatements - (k + 1)) : Tail(r)[i] = <<q, (k + 1) + i>>
    <3> SUFFICES ASSUME NEW i \in 1..(NumStatements - (k + 1))
                 PROVE  Tail(r)[i] = <<q, (k + 1) + i>>
      OBVIOUS
    <3>1. i + 1 \in 1..(NumStatements - k) /\ k + (i + 1) = (k + 1) + i
      BY <1>0
    <3> QED
      BY <1>1, <2>1, <3>1
  <2> DEFINE t == Tail(r)
  <2> HIDE DEF t
  <2>3. t = [i \in 1..(NumStatements - (k + 1)) |-> <<q, (k + 1) + i>>]
    <3>1. t \in Seq(T) /\ Len(t) = NumStatements - (k + 1)
      BY <2>1 DEF t
    <3>2. \A i \in 1..(NumStatements - (k + 1)) : t[i] = <<q, (k + 1) + i>>
      BY <2>2 DEF t
    <3> QED
      BY <1>0, <3>1, <3>2
  <2> QED
    BY <2>3 DEF Rest, t
<1>5. Append(g, <<q, k + 1>>) = GivenOut(q, k + 1)
  <2> DEFINE a == Append(g, <<q, k + 1>>)
  <2>1. /\ a \in Seq(T) /\ Len(a) = k + 1
        /\ \A i \in 1..k : a[i] = g[i]
        /\ a[k + 1] = <<q, k + 1>>
    <3>1. <<q, k + 1>> \in T
      BY <1>0
    <3> QED
      BY <1>0, <1>2, <3>1, AppendProperties
  <2> HIDE DEF a
  <2>2. \A i \in 1..(k + 1) : a[i] = <<q, i>>
    BY <1>0, <1>2, <2>1
  <2>3. a = [i \in 1..(k + 1) |-> <<q, i>>]
    BY <1>0, <2>1, <2>2
  <2> QED
    BY <2>3 DEF GivenOut, a
<1> QED
  BY <1>3, <1>4, <1>5 DEF r, g

(* All the ids of a query, and none.                                        *)
LEMMA RestEdges ==
    ASSUME NEW q \in Queries
    PROVE  /\ IdsOf(q) = Rest(q, 0) /\ GivenOut(q, 0) = <<>>
           /\ Rest(q, NumStatements) = <<>>
BY StatementsAreNumbered DEF IdsOf, Rest, GivenOut

(* nextset() of the rest of a query gives out its next statement, or leaves *)
(* the ids as they are.                                                     *)
LEMMA NextsetOfRest ==
    ASSUME NEW q \in Queries, NEW k \in 0..(NumStatements - 1), Nextset(Rest(q, k))
    PROVE  \/ /\ hook' = None /\ result' = <<q, k + 1>>
              /\ served' = Append(served, <<q, k + 1>>) /\ resultIds' = Rest(q, k + 1)
           \/ Reset /\ resultIds' = Rest(q, k) /\ served' = served
BY RestOf DEF Nextset, Serve

(* The first results of a query of several statements.                      *)
LEMMA FirstNextset ==
    ASSUME Typed, ResultInv, NEW q \in Queries, asked = q, q <= n, served = <<>>,
           kind[q] \in {"multi", "async_multi"}, Nextset(IdsOf(q)), pc' = "idle",
           UNCHANGED <<plan, n, asked, stale, closed>>
    PROVE  ResultInv'
<1> USE DEF kind, reuse_results, InExecute, InHelper, InHandler
<1>0. /\ NumStatements \in Nat /\ Statements = 1..NumStatements
      /\ Queries \subseteq Nat \ {0} /\ None \notin Queries
  BY StatementsAreNumbered, CallsAssumption DEF None
<1>1. hook' = None
  BY DEF Nextset, Reset
<1>2. CASE NumStatements = 0
  <2>1. Reset /\ resultIds' = <<>> /\ served' = served
    BY <1>2, RestEdges DEF Nextset
  <2>2. RowsOfAsked'
    BY <2>1 DEF Reset, RowsOfAsked
  <2>3. result' \in {NoResult} \cup (Queries \X ({0} \cup Statements))
    BY <2>1 DEF Reset, ResultInv
  <2>4. IdsOfOneQuery' /\ NextsetInOrder'
    BY <2>1 DEF IdsOfOneQuery, NextsetInOrder
  <2> QED
    BY <1>1, <2>2, <2>3, <2>4 DEF ResultInv, ResultsOfAsked
<1>3. CASE NumStatements > 0
  <2>0. 0 \in 0..(NumStatements - 1) /\ Nextset(Rest(q, 0)) /\ GivenOut(q, 0) = <<>>
    BY <1>0, <1>3, RestEdges
  <2>1. CASE /\ hook' = None /\ result' = <<q, 1>>
             /\ served' = Append(served, <<q, 1>>) /\ resultIds' = Rest(q, 1)
    <3>1. served' = GivenOut(q, 1)
      BY <2>0, <2>1, RestOf
    <3>2. NextsetInOrder'
      BY <1>0, <1>3, <3>1 DEF NextsetInOrder, GivenOut
    <3>3. RowsOfAsked' /\ result' \in {NoResult} \cup (Queries \X ({0} \cup Statements))
      BY <1>0, <1>3, <2>1 DEF RowsOfAsked
    <3>4. IdsOfOneQuery'
      <4>1. CASE NumStatements = 1
        BY <2>1, <4>1, RestEdges DEF IdsOfOneQuery
      <4>2. CASE NumStatements # 1
        <5>1. 1 \in 0..(NumStatements - 1)
          BY <1>0, <1>3, <4>2
        <5> QED
          BY <2>1, <3>1, <5>1 DEF IdsOfOneQuery
      <4> QED
        BY <4>1, <4>2
    <3> QED
      BY <1>1, <3>2, <3>3, <3>4 DEF ResultInv, ResultsOfAsked
  <2>2. CASE Reset /\ resultIds' = Rest(q, 0) /\ served' = served
    <3>1. RowsOfAsked' /\ result' \in {NoResult} \cup (Queries \X ({0} \cup Statements))
      BY <2>2 DEF Reset, RowsOfAsked, ResultInv
    <3>2. IdsOfOneQuery' /\ NextsetInOrder'
      BY <2>0, <2>2 DEF IdsOfOneQuery, NextsetInOrder
    <3> QED
      BY <1>1, <3>1, <3>2 DEF ResultInv, ResultsOfAsked
  <2> QED
    BY <2>0, <2>1, <2>2, NextsetOfRest
<1> QED
  BY <1>0, <1>2, <1>3

(* The steps that touch no result: all of the timers, the handler and the   *)
(* server, and those of execute() before its answer is evaluated.           *)
LEMMA QuietStep ==
    ASSUME ResultInv, UNCHANGED <<plan, n, closed, result, resultIds, hook, asked, served,
       stale>>,
           InExecute' => InExecute
    PROVE  ResultInv'
<1>1. IdsOfOneQuery'
  BY DEF ResultInv, IdsOfOneQuery, kind
<1>2. ResultsOfAsked'
  BY DEF ResultInv, ResultsOfAsked, RowsOfAsked, NextsetInOrder, reuse_results
<1> QED
  BY <1>1, <1>2 DEF ResultInv

(* nextset() called by the application goes on with the statements of the   *)
(* query asked for, or is found to use the ids of another one.              *)
LEMMA NextsetStep ==
    ASSUME Typed, ResultInv, CallNextset
    PROVE  ResultInv'
<1> USE DEF kind, reuse_results, InExecute, InHelper, InHandler
<1>0. /\ NumStatements \in Nat /\ Statements = 1..NumStatements
      /\ Queries \subseteq Nat \ {0} /\ None \notin Queries
      /\ result \in {NoResult} \cup (Queries \X ({0} \cup Statements))
      /\ pc = "idle" /\ ~closed /\ hook = None /\ Nextset(resultIds)
      /\ UNCHANGED <<plan, n, pc, closed, asked>>
      /\ stale' = (stale \/ (resultIds # <<>> /\ Head(resultIds)[1] # asked))
  BY StatementsAreNumbered, CallsAssumption DEF None, CallNextset, ResultInv, query, attrs
<1>1. hook' = None
  BY <1>0 DEF Nextset, Reset
<1>2. CASE resultIds = <<>>
  <2>1. Reset /\ resultIds' = <<>> /\ served' = served
    BY <1>0, <1>2 DEF Nextset
  <2>2. stale' => stale
    BY <1>0, <1>2
  <2>3. ~stale' => ~stale
    BY <1>0
  <2>4. RowsOfAsked' /\ result' \in {NoResult} \cup (Queries \X ({0} \cup Statements))
    BY <1>0, <2>1 DEF Reset, RowsOfAsked
  <2>5. NextsetInOrder'
    BY <1>0, <2>1, <2>3 DEF NextsetInOrder, ResultInv, ResultsOfAsked
  <2>6. IdsOfOneQuery'
    BY <2>1 DEF IdsOfOneQuery
  <2> QED
    BY <1>0, <1>1, <2>4, <2>5, <2>6 DEF ResultInv, ResultsOfAsked
<1>3. ASSUME NEW q \in Queries, NEW k \in 0..(NumStatements - 1), q <= n,
             kind[q] \in {"multi", "async_multi"}, resultIds = Rest(q, k),
             q = asked /\ ~stale => served = GivenOut(q, k)
      PROVE  ResultInv'
  <2>0. Head(resultIds)[1] = q /\ resultIds # <<>>
    BY <1>3, RestOf
  <2>1. ~stale' => ~stale /\ q = asked
    BY <1>0, <2>0
  <2>2. CASE /\ result' = <<q, k + 1>> /\ served' = Append(served, <<q, k + 1>>)
             /\ resultIds' = Rest(q, k + 1)
    <3>0. k \in Nat /\ k + 1 \in Statements
      BY <1>0
    <3>1. ~stale' => served' = GivenOut(q, k + 1)
      BY <1>3, <2>1, <2>2, RestOf
    <3>2. NextsetInOrder'
      BY <1>0, <2>1, <3>0, <3>1 DEF NextsetInOrder, GivenOut
    <3>3. RowsOfAsked' /\ result' \in {NoResult} \cup (Queries \X ({0} \cup Statements))
      BY <1>0, <2>1, <2>2, <3>0 DEF RowsOfAsked
    <3>4. IdsOfOneQuery'
      <4>1. CASE k + 1 = NumStatements
        BY <2>2, <4>1, RestEdges DEF IdsOfOneQuery
      <4>2. CASE k + 1 # NumStatements
        <5>1. k + 1 \in 0..(NumStatements - 1)
          BY <1>0, <3>0, <4>2
        <5> QED
          BY <1>0, <1>3, <2>2, <3>1, <5>1 DEF IdsOfOneQuery
      <4> QED
        BY <4>1, <4>2
    <3> QED
      BY <1>0, <1>1, <3>2, <3>3, <3>4 DEF ResultInv, ResultsOfAsked
  <2>3. CASE Reset /\ resultIds' = Rest(q, k) /\ served' = served
    <3>1. RowsOfAsked' /\ result' \in {NoResult} \cup (Queries \X ({0} \cup Statements))
      BY <1>0, <2>3 DEF Reset, RowsOfAsked
    <3>2. NextsetInOrder'
      BY <1>0, <2>1, <2>3 DEF NextsetInOrder, ResultInv, ResultsOfAsked
    <3>3. IdsOfOneQuery'
      BY <1>0, <1>3, <2>1, <2>3 DEF IdsOfOneQuery
    <3> QED
      BY <1>0, <1>1, <3>1, <3>2, <3>3 DEF ResultInv, ResultsOfAsked
  <2> QED
    BY <1>0, <1>3, <2>2, <2>3, NextsetOfRest
<1> QED
  BY <1>0, <1>2, <1>3 DEF ResultInv, IdsOfOneQuery

(* Every step keeps the rows and the ids of the query that was asked for.   *)
LEMMA ResultStep == HelperInv /\ ResultInv /\ [Next]_vars => ResultInv'
<1> SUFFICES ASSUME Typed, ResultInv, [Next]_vars PROVE ResultInv'
  BY DEF HelperInv
<1> USE DEF query, interrupt, attrs, results, InExecute, InHelper, InHandler
<1>0. /\ Queries \subseteq Nat \ {0} /\ None \notin Queries /\ n \in {0} \cup Queries
      /\ (pc \in InHelper \cup InHandler => n \in Queries) /\ asked \in {None} \cup Queries
      /\ hook \in {None} \cup Queries
      /\ result \in {NoResult} \cup (Queries \X ({0} \cup Statements))
  BY CallsAssumption DEF None, Typed, ResultInv
<1>1. CASE Execute
  <2>1. /\ n' = n + 1 /\ n' \in Queries /\ asked' = n + 1 /\ served' = <<>> /\ hook' = None
        /\ pc = "idle" /\ UNCHANGED <<plan, closed, resultIds, stale>>
        /\ n \in Nat
    BY <1>0, <1>1 DEF Execute, Reset
  <2>2. RowsOfAsked' /\ result' \in {NoResult} \cup (Queries \X ({0} \cup Statements))
    BY <1>0, <1>1 DEF Execute, Reset, RowsOfAsked, reuse_results
  <2>3. NextsetInOrder'
    BY <2>1 DEF NextsetInOrder
  <2>4. IdsOfOneQuery'
    <3>1. CASE resultIds = <<>>
      BY <2>1, <3>1 DEF IdsOfOneQuery
    <3>2. CASE resultIds # <<>>
      <4>1. PICK q \in Queries, k \in 0..(NumStatements - 1) :
               /\ q <= n /\ kind[q] \in {"multi", "async_multi"}
               /\ resultIds = Rest(q, k)
        BY <3>2 DEF ResultInv, IdsOfOneQuery
      <4>2. q < n' /\ q # asked' /\ q <= n' /\ kind'[q] = kind[q]
        BY <1>0, <2>1, <4>1 DEF kind
      <4> QED
        BY <2>1, <4>1, <4>2 DEF IdsOfOneQuery
    <3> QED
      BY <3>1, <3>2
  <2> QED
    BY <2>1, <2>2, <2>3, <2>4 DEF ResultInv, ResultsOfAsked
<1>2. CASE Evaluate
  <2>1. /\ pc = "evaluate" /\ pc' = "idle" /\ n \in Queries /\ asked = n /\ served = <<>>
        /\ hook = None /\ UNCHANGED <<plan, n, asked, stale, closed>> /\ n \in Nat
    BY <1>0, <1>2 DEF Evaluate, ResultInv
  <2>2. CASE kind[n] = "multi" /\ Nextset(IdsOf(n))
    BY <2>1, <2>2, FirstNextset
  <2>i. ASSUME UNCHANGED <<resultIds, hook>> PROVE IdsOfOneQuery'
    <3>1. CASE resultIds = <<>>
      BY <2>i, <3>1 DEF IdsOfOneQuery
    <3>2. CASE resultIds # <<>>
      <4>1. PICK q \in Queries, k \in 0..(NumStatements - 1) :
               /\ q < n /\ kind[q] \in {"multi", "async_multi"}
               /\ resultIds = Rest(q, k)
        BY <2>1, <3>2 DEF ResultInv, IdsOfOneQuery
      <4>2. q # asked' /\ q <= n' /\ kind'[q] = kind[q]
        BY <1>0, <2>1, <4>1 DEF kind
      <4> QED
        BY <2>1, <2>i, <4>1, <4>2 DEF IdsOfOneQuery
    <3> QED
      BY <3>1, <3>2
  <2>3. CASE Serve(<<n, 0>>) /\ UNCHANGED <<resultIds, hook>>
    <3>1. served' = <<<<asked', 0>>>> /\ result' = <<n, 0>>
      BY <2>1, <2>3 DEF Serve
    <3>2. NextsetInOrder' /\ RowsOfAsked'
      BY <2>1, <3>1 DEF NextsetInOrder, RowsOfAsked
    <3> QED
      BY <2>1, <2>3, <2>i, <3>1, <3>2 DEF ResultInv, ResultsOfAsked
  <2>4. CASE UNCHANGED <<result, resultIds, hook, served>>
    <3>1. NextsetInOrder' /\ RowsOfAsked'
      BY <2>1, <2>4 DEF NextsetInOrder, RowsOfAsked, ResultInv, ResultsOfAsked, reuse_results
    <3> QED
      BY <1>0, <2>1, <2>4, <2>i, <3>1 DEF ResultInv, ResultsOfAsked
  <2> QED
    BY <1>2, <2>2, <2>3, <2>4 DEF Evaluate
<1>3. ASSUME NEW q \in Queries, GetResults(q) PROVE ResultInv'
  <2>1. /\ hook' = q /\ q <= n /\ asked' = q /\ served' = <<>> /\ pc' = "idle" /\ q # None
        /\ UNCHANGED <<plan, n, pc, closed, result, resultIds, stale>>
    BY <1>0, <1>3 DEF GetResults
  <2>2. RowsOfAsked' /\ NextsetInOrder'
    BY <2>1 DEF RowsOfAsked, NextsetInOrder
  <2>3. IdsOfOneQuery'
    BY <2>1 DEF ResultInv, IdsOfOneQuery, kind
  <2> QED
    BY <1>0, <2>1, <2>2, <2>3 DEF ResultInv, ResultsOfAsked
<1>4. CASE Fetch
  <2> DEFINE q == hook
  <2>1. /\ q \in Queries /\ asked = q /\ served = <<>> /\ pc = "idle"
        /\ UNCHANGED <<plan, n, pc, closed, asked, stale>>
    BY <1>0, <1>4 DEF Fetch, ResultInv
  <2>2. q <= n
    BY <1>4, <2>1 DEF Fetch, ResultInv
  <2>3. CASE kind[q] = "async_multi" /\ Nextset(IdsOf(q))
    BY <2>1, <2>2, <2>3, FirstNextset
  <2>4. CASE kind[q] = "async" /\ hook' = None /\ Serve(<<q, 0>>) /\ UNCHANGED resultIds
    <3>1. served' = <<<<asked', 0>>>> /\ result' = <<q, 0>>
      BY <2>1, <2>4 DEF Serve
    <3>2. NextsetInOrder' /\ RowsOfAsked'
      BY <2>1, <3>1 DEF NextsetInOrder, RowsOfAsked
    <3>3. \A r \in Queries : /\ kind'[r] = kind[r]
                             /\ kind[r] \in {"multi", "async_multi"} => r # asked'
      BY <2>1, <2>4 DEF kind
    <3>4. IdsOfOneQuery'
      BY <2>1, <2>4, <3>3 DEF ResultInv, IdsOfOneQuery
    <3> QED
      BY <2>1, <2>4, <3>1, <3>2, <3>4 DEF ResultInv, ResultsOfAsked
  <2> QED
    BY <1>4, <2>3, <2>4 DEF Fetch, Hook
<1>5. CASE CallNextset
  BY <1>5, NextsetStep
<1>6. CASE CloseEnds
  <2>1. /\ hook' = None /\ pc' = "idle" /\ closed'
        /\ UNCHANGED <<plan, n, resultIds, asked, served, stale>>
    BY <1>6 DEF CloseEnds, Reset
  <2>2. RowsOfAsked' /\ result' \in {NoResult} \cup (Queries \X ({0} \cup Statements))
    BY <1>0, <1>6 DEF CloseEnds, Reset, RowsOfAsked, reuse_results
  <2>3. NextsetInOrder'
    BY <2>1 DEF NextsetInOrder, ResultInv, ResultsOfAsked
  <2>4. IdsOfOneQuery'
    BY <2>1 DEF ResultInv, IdsOfOneQuery, kind
  <2> QED
    BY <2>1, <2>2, <2>3, <2>4 DEF ResultInv, ResultsOfAsked
<1>7. CASE /\ UNCHANGED <<plan, n, closed, result, resultIds, hook, asked, served, stale>>
           /\ InExecute' => InExecute
  BY <1>7, QuietStep
<1>8. CASE Interrupt \/ HandlerDisarms \/ HandlerLocks \/ HandlerCancels \/ HandlerEnds \/ ForceExit
             \/ OriginalHandler
  BY <1>7, <1>8 DEF Interrupt, Meets, HandlerDisarms, HandlerLocks, HandlerCancels, HandlerEnds,
     ForceExit, OriginalHandler
<1>9. CASE SetRequestId \/ RefuseRequestId \/ ArmTimer \/ InstallHandler \/ Send \/ CmdQuery
             \/ Restore \/ Disarm \/ LeaveHelper \/ Close
  BY <1>7, <1>9 DEF SetRequestId, RefuseRequestId, ArmTimer, InstallHandler, Send, CmdQuery,
     Restore, Disarm, LeaveHelper, Close
<1>10. ASSUME NEW q \in Queries, Timer(q) \/ ServerEnds(q) PROVE ResultInv'
  BY <1>7, <1>10 DEF Timer, ServerEnds, TimerFires, TimerEnds, TimerChecks, TimerLocks,
     TimerCancels
<1>11. CASE UNCHANGED vars
  BY <1>7, <1>11 DEF vars
<1> QED
  BY <1>1, <1>2, <1>3, <1>4, <1>5, <1>6, <1>8, <1>9, <1>10, <1>11 DEF Next, Main, Calls

(* What holds of the cursor at every moment.                                *)
LEMMA InvAlways == Spec => [](HelperInv /\ ResultInv)
<1>1. Init => HelperInv
  <2> SUFFICES ASSUME Init PROVE HelperInv
    OBVIOUS
  <2>1. /\ finished \in [Queries -> BOOLEAN] /\ executed \in [Queries -> BOOLEAN]
        /\ blamed \in [Queries -> BOOLEAN]
    BY Zenon DEF Init
  <2>2. Typed
    BY <2>1, CallsAssumption DEF Init, Typed, MainStates, InHelper, InHandler, None,
       Handlers, Original, Python, Default,
       Exit, InterruptOf
  <2> QED
    BY <2>2 DEF Init, HelperInv, TimerInv, HandlerInv, InHandler, Original, Python, Exit,
       InterruptOf
<1>2. Init => ResultInv
  BY DEF Init, InExecute, InHelper, InHandler, ResultInv, IdsOfOneQuery, ResultsOfAsked,
     RowsOfAsked, NextsetInOrder, NoResult
<1>3. HelperInv /\ [Next]_vars => HelperInv'
  BY TypedStep, TimerStep, HandlerStep DEF HelperInv
<1> QED
  BY <1>1, <1>2, <1>3, ResultStep, PTL DEF Spec

(* _execute_helper and interrupt_handler: when execute() has returned or    *)
(* raised, its timer cannot fire any more and the signal handler is the     *)
(* original one, wherever the signals came in.                              *)
THEOREM NothingIsLeftBehind == Spec => []NothingLeftBehind
<1>1. HelperInv /\ ResultInv => NothingLeftBehind
  <2> SUFFICES ASSUME HelperInv, ResultInv PROVE NothingLeftBehind
    OBVIOUS
  <2>1. TypeOK
    BY DEF HelperInv, ResultInv, Typed, TypeOK
  <2>2. TimerDisarmed
    BY DEF HelperInv, TimerInv, TimerDisarmed
  <2>3. HandlerRestored
    BY CallsAssumption DEF HelperInv, HandlerInv, Typed, HandlerRestored, InHandler, Truthy,
       Original, Python, Exit,
           Default, InterruptOf, MainStates, InHelper
  <2> QED
    BY <2>1, <2>2, <2>3 DEF NothingLeftBehind
<1> QED
  BY <1>1, InvAlways, PTL

(* execute, nextset, get_results_from_sfqid and the hook of fetchone: the   *)
(* rows and the results of statements are those of the query asked for, in  *)
(* the order of the statements, as long as nextset() is not called with the *)
(* ids of an earlier query left.                                            *)
THEOREM ResultsAreOfAsked == Spec => []ResultsOfAsked
<1>1. ResultInv => ResultsOfAsked
  BY DEF ResultInv
<1> QED
  BY <1>1, InvAlways, PTL
=============================================================================
