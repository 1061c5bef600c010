------------------------------- MODULE Cursor -------------------------------
(***************************************************************************)
(* SnowflakeCursor: execute() with its cancellation timer and its SIGINT    *)
(* handler, and what the calls after it (fetchone, nextset,                 *)
(* get_results_from_sfqid, close) find in the cursor.                       *)
(*                                                                         *)
(* The application is one thread.  Each execute() with a timeout starts a   *)
(* timer thread that reads the cursor's attributes when it fires.  Queries  *)
(* are numbered as they are executed; the number is also the request id     *)
(* and the sequence counter.  A result is <<query, statement>>, statement 0 *)
(* for a query of one statement.                                           *)
(***************************************************************************)
EXTENDS Integers, Sequences, FiniteSets

CONSTANTS
    Queries,        \* 1..n: the calls of execute()
    Statements,     \* 1..n: the statements of a multi-statement query
    Plans           \* what the application may do: see the fields below

(* A plan has, per query, its text `sql`, its `kind` ("single", "multi",     *)
(* "async" or "async_multi") and whether it has a `timeout`; how many `signals` and calls of   *)
(* get_results_from_sfqid (`hooks`) there may be; whether the thread is       *)
(* Python's main thread (`inMain`); the SIGINT handler it starts with         *)
(* (`original`); and the connection's reuse_results (`reuse`).                *)
ASSUME CallsAssumption ==
    /\ Queries \subseteq Nat \ {0}
    /\ IsFiniteSet(Statements) /\ Statements = 1..Cardinality(Statements)
    /\ \A p \in Plans :
         /\ p.kind \in [Queries -> {"single", "multi", "async", "async_multi"}]
         /\ p.timeout \in [Queries -> BOOLEAN]
         /\ {p.signals, p.hooks} \subseteq Nat /\ {p.inMain, p.reuse} \subseteq BOOLEAN
         /\ p.original \in {"python", "default"}

VARIABLE plan       \* constant after Init

sql == plan.sql
kind == plan.kind
reuse_results == plan.reuse
IsAsync(q) == kind[q] \in {"async", "async_multi"}

None == 0
Free == 0
MainThread == -1
NoResult == <<0, 0>>

(* What signal.getsignal(SIGINT) returns: Python's own handler, SIG_DFL (or   *)
(* None, for a handler Python did not install), exit_handler, or the          *)
(* interrupt_handler of a query, a closure over its text and original_sigint. *)
Python == <<"python", 0>>
Default == <<"default", 0>>
Exit == <<"exit", 0>>
InterruptOf(q) == <<"interrupt", q>>
Handlers == {Python, Default, Exit} \cup {InterruptOf(q) : q \in Queries}

\* SIG_DFL is 0: `if original_sigint` is false for it, as for None.
Truthy(h) == h # Default
Original == <<plan.original, 0>>

VARIABLES
    n,              \* number of execute() calls so far
    pc,             \* where the application thread is, see MainStates
    answer,         \* what cmd_query returned, or an exception: "raise", "exit" (SystemExit)
    signals,        \* history: number of SIGINTs so far
    handling,       \* the query whose interrupt_handler runs
    resume,         \* what its exception meets: the finally of cmd_query ("restore"),
                    \* the end of execute() ("raise") or the application ("idle")
    rude,           \* history: the queries whose execute() the original handler broke
    sequence_counter, request_id, timebomb,    \* attributes of the cursor
    closed,
    timer,          \* per query: where its timer thread is
    finished,       \* per query: the timer's event, set by cancel()
    executed,       \* per query: the timer's flag
    handler,        \* the SIGINT handler
    original_sigint,    \* per query: the handler its execute() found
    lock,           \* _lock_canceling: Free, MainThread or a timer's query
    server,         \* per query: "none", "running", "ok", "failed" or "canceled"
    canceler,       \* history, per query: the query whose timer or handler canceled it
    blamed,         \* history, per query: reported as canceled due to a timeout
    result,         \* _result and _result_set: the rows that fetchone returns
    resultIds,      \* _multi_statement_resultIds
    hook,           \* _prefetch_hook (and _inner_cursor): the query it waits for
    asked,          \* history: the query whose rows the application asked for last
    served,         \* history: results given out since then, in order
    stale,          \* history: nextset() used ids of another query
    hooks           \* history: number of get_results_from_sfqid() calls

attrs   == <<sequence_counter, request_id, timebomb, closed>>
timers  == <<timer, finished, executed>>
remote  == <<server, canceler>>
results == <<result, resultIds, hook, asked, served, stale, hooks>>
query   == <<plan, n>>
interrupt == <<signals, handling, resume, original_sigint>>
vars    == <<query, pc, answer, interrupt, rude, attrs, timers, handler, lock, remote,
             blamed, results>>

InHelper == {"identify", "arm", "install", "send", "sent", "restore", "disarm", "leave", "evaluate"}
InHandler == {"interrupted", "cancel", "locked", "rehandle"}
MainStates == {"idle", "closing", "exited"} \cup InHelper \cup InHandler

Init ==
    /\ plan \in Plans /\ n = 0
    /\ pc = "idle" /\ answer = "ok" /\ signals = 0 /\ rude = {}
    /\ handling = None /\ resume = "idle" /\ original_sigint = [q \in Queries |-> Original]
    /\ sequence_counter = -1 /\ request_id = None /\ timebomb = None /\ closed = FALSE
    /\ timer = [q \in Queries |-> "none"]
    /\ finished = [q \in Queries |-> FALSE] /\ executed = [q \in Queries |-> FALSE]
    /\ handler = Original /\ lock = Free
    /\ server = [q \in Queries |-> "none"] /\ canceler = [q \in Queries |-> None]
    /\ blamed = [q \in Queries |-> FALSE]
    /\ result = NoResult /\ resultIds = <<>> /\ hook = None
    /\ asked = None /\ served = <<>> /\ stale = FALSE /\ hooks = 0

-----------------------------------------------------------------------------
(* execute() up to the request.                                             *)

ResetKeepsRows == UNCHANGED result /\ hook' = None

\* reset(): the iterator goes; the result set stays only with reuse_results.
Reset ==
    /\ result' = IF reuse_results THEN result ELSE NoResult
    /\ hook' = None

ExecuteUncounted ==
    /\ pc = "idle" /\ ~closed /\ n + 1 \in Queries
    /\ n' = n + 1
    /\ Reset
    /\ pc' = "identify"
    /\ asked' = n + 1 /\ served' = <<>>
    /\ UNCHANGED <<plan, answer, interrupt, rude, attrs, timers, handler, lock, remote, blamed,
                   resultIds, stale, hooks>>

\* execute() checks that the cursor is open, resets it and enters
\* _execute_helper, which takes the next sequence number.
Execute ==
    /\ pc = "idle" /\ ~closed /\ n + 1 \in Queries
    /\ n' = n + 1
    /\ Reset
    /\ sequence_counter' = n + 1
    /\ pc' = "identify"
    /\ asked' = n + 1 /\ served' = <<>>
    /\ UNCHANGED <<plan, answer, interrupt, rude, request_id, timebomb, closed, timers, handler, lock,
                   remote, blamed, resultIds, stale, hooks>>

\* A requestId parameter that is no UUID raises.
RefuseRequestId ==
    /\ pc = "identify" /\ pc' = "idle"
    /\ UNCHANGED <<query, answer, interrupt, rude, attrs, timers, handler, lock, remote, blamed,
                   results>>

SetRequestId ==
    /\ pc = "identify" /\ pc' = "arm"
    /\ request_id' = n
    /\ UNCHANGED <<query, answer, interrupt, rude, sequence_counter, timebomb, closed, timers,
                   handler, lock, remote, blamed, results>>

\* The timer is created and started, or the attribute is set to None.
ArmTimer ==
    /\ pc = "arm" /\ pc' = "install"
    /\ timebomb' = IF plan.timeout[n] THEN n ELSE None
    /\ timer' = IF plan.timeout[n] THEN [timer EXCEPT ![n] = "waiting"] ELSE timer
    /\ UNCHANGED <<query, answer, interrupt, rude, sequence_counter, request_id, closed,
                   finished, executed, handler, lock, remote, blamed, results>>

\* signal.signal(SIGINT, interrupt_handler), unless exit_handler is there; a
\* thread that is not the main one cannot install it and goes on.
InstallHandler ==
    /\ pc = "install" /\ pc' = "send"
    /\ original_sigint' = [original_sigint EXCEPT ![n] = handler]
    /\ handler' = IF plan.inMain /\ handler # Exit THEN InterruptOf(n) ELSE handler
    /\ UNCHANGED <<query, answer, signals, handling, resume, rude, attrs, timers, lock, remote, blamed,
                   results>>

\* cmd_query sends the request.
Send ==
    /\ pc = "send" /\ pc' = "sent"
    /\ server' = [server EXCEPT ![n] = "running"]
    /\ UNCHANGED <<query, answer, interrupt, rude, attrs, timers, handler, lock, canceler,
                   blamed, results>>

\* The query ends on the server, by itself or canceled by another client.
ServerEnds(q) ==
    /\ server[q] = "running"
    /\ server' = [server EXCEPT ![q] = "ok"] \/ server' = [server EXCEPT ![q] = "failed"]
          \/ server' = [server EXCEPT ![q] = "canceled"]
    /\ UNCHANGED <<query, pc, answer, interrupt, rude, attrs, timers, handler, lock, canceler,
                   blamed, results>>

\* cmd_query returns the answer of the server (of an asynchronous query: that
\* it has started), or raises.
CmdQuery ==
    /\ pc = "sent" /\ pc' = "restore"
    /\ \/ server[n] # "running" /\ answer' = server[n]
       \/ IsAsync(n) /\ server[n] = "running" /\ answer' = "ok"
       \/ answer' = "raise"
    /\ UNCHANGED <<query, interrupt, rude, attrs, timers, handler, lock, remote, blamed, results>>

-----------------------------------------------------------------------------
(* The finally of _execute_helper, and the rest of execute().               *)

\* if original_sigint: signal.signal(SIGINT, original_sigint), for query q.
PutBack(q) == IF plan.inMain /\ Truthy(original_sigint[q]) THEN original_sigint[q] ELSE handler

Restore ==
    /\ pc = "restore" /\ pc' = "disarm"
    /\ handler' = PutBack(n)
    /\ UNCHANGED <<query, answer, interrupt, rude, attrs, timers, lock, remote, blamed, results>>

\* Where the end of the finally leads.
AfterFinally ==
    CASE answer = "raise" -> "idle"
      [] answer = "exit"  -> "exited"
      [] OTHER            -> "leave"

DisarmOnSuccess ==
    /\ pc = "disarm"
    /\ finished' = IF timebomb # None /\ answer # "raise"
                     THEN [finished EXCEPT ![timebomb] = TRUE] ELSE finished
    /\ pc' = AfterFinally
    /\ UNCHANGED <<query, answer, interrupt, rude, attrs, timer, executed, handler, lock,
                   remote, blamed, results>>

\* _timebomb.cancel(), on every way out.
Disarm ==
    /\ pc = "disarm"
    /\ finished' = IF timebomb # None THEN [finished EXCEPT ![timebomb] = TRUE] ELSE finished
    /\ pc' = AfterFinally
    /\ UNCHANGED <<query, answer, interrupt, rude, attrs, timer, executed, handler, lock,
                   remote, blamed, results>>

\* The end of _execute_helper.
LeaveHelper ==
    /\ pc = "leave" /\ pc' = "evaluate"
    /\ sequence_counter' = -1
    /\ UNCHANGED <<query, answer, interrupt, rude, request_id, timebomb, closed, timers,
                   handler, lock, remote, blamed, results>>

Serve(r) == result' = r /\ served' = Append(served, r)

IdsOf(q) == [i \in Statements |-> <<q, i>>]

\* nextset() without its hook: reset, query_result of the first id, which may
\* raise, and only then popleft.
Nextset(ids) ==
    \/ ids = <<>> /\ Reset /\ resultIds' = ids /\ UNCHANGED served
    \/ ids # <<>> /\ hook' = None /\ Serve(Head(ids)) /\ resultIds' = Tail(ids)
    \/ ids # <<>> /\ Reset /\ resultIds' = ids /\ UNCHANGED served

\* The answer is turned into a result or an error.  A file transfer, or a
\* result that cannot be read, may raise.
Evaluate ==
    /\ pc = "evaluate" /\ pc' = "idle"
    /\ \/ /\ answer = "ok" /\ kind[n] = "multi"
          /\ Nextset(IdsOf(n))
          /\ UNCHANGED blamed
       \/ /\ answer = "ok" /\ kind[n] = "single"
          /\ Serve(<<n, 0>>)
          /\ UNCHANGED <<blamed, resultIds, hook>>
       \/ /\ answer # "ok" \/ kind[n] # "multi"
          /\ blamed' = [blamed EXCEPT ![n] = answer = "canceled" /\ timebomb # None /\ executed[timebomb]]
          /\ UNCHANGED <<result, resultIds, hook, served>>
    /\ UNCHANGED <<query, answer, interrupt, rude, attrs, timers, handler, lock, remote,
                   asked, stale, hooks>>

-----------------------------------------------------------------------------
(* The timer thread: Timer.run, then executed = True.                       *)

TimerFires(q) ==
    /\ timer[q] = "waiting" /\ ~finished[q]
    /\ timer' = [timer EXCEPT ![q] = "fired"]
    /\ UNCHANGED <<query, pc, answer, interrupt, rude, attrs, finished, executed, handler,
                   lock, remote, blamed, results>>

\* run() ends: the function was called, or cancel() came first.
TimerEnds(q) ==
    /\ timer[q] = "called" \/ (timer[q] = "waiting" /\ finished[q])
    /\ timer' = [timer EXCEPT ![q] = "ended"]
    /\ finished' = [finished EXCEPT ![q] = TRUE]
    /\ executed' = [executed EXCEPT ![q] = TRUE]
    /\ UNCHANGED <<query, pc, answer, interrupt, rude, attrs, handler, lock, remote, blamed,
                   results>>

\* The test of __cancel_query.
TimerChecks(q) ==
    /\ timer[q] = "fired"
    /\ timer' = [timer EXCEPT ![q] = IF sequence_counter >= 0 /\ ~closed THEN "checked" ELSE "called"]
    /\ UNCHANGED <<query, pc, answer, interrupt, rude, attrs, finished, executed, handler,
                   lock, remote, blamed, results>>

TimerLocks(q) ==
    /\ timer[q] = "checked" /\ lock = Free
    /\ lock' = q
    /\ timer' = [timer EXCEPT ![q] = "locked"]
    /\ UNCHANGED <<query, pc, answer, interrupt, rude, attrs, finished, executed, handler,
                   remote, blamed, results>>

\* The text that a cancellation for query q carries: an argument of the timer.
SqlOf(q) == sql[q]

\* The server cancels the query with that request id and that text.
Abort(q) ==
    IF /\ request_id # None /\ server[request_id] = "running" /\ sql[request_id] = SqlOf(q)
      THEN /\ server' = [server EXCEPT ![request_id] = "canceled"]
           /\ canceler' = [canceler EXCEPT ![request_id] = q]
      ELSE UNCHANGED remote

\* The lock is not given back when the request raises.
TimerCancelsKeepsLock(q) ==
    /\ timer[q] = "locked"
    /\ \/ timer' = [timer EXCEPT ![q] = "called"] /\ Abort(q) /\ lock' = Free
       \/ timer' = [timer EXCEPT ![q] = "died"] /\ UNCHANGED <<remote, lock>>
    /\ UNCHANGED <<query, pc, answer, interrupt, rude, attrs, finished, executed, handler,
                   blamed, results>>

\* _cancel_query with the request id that the cursor has now; an exception
\* ends the thread without setting `executed`.
TimerCancels(q) ==
    /\ timer[q] = "locked"
    /\ lock' = Free
    /\ \/ timer' = [timer EXCEPT ![q] = "called"] /\ Abort(q)
       \/ timer' = [timer EXCEPT ![q] = "died"] /\ UNCHANGED remote
    /\ UNCHANGED <<query, pc, answer, interrupt, rude, attrs, finished, executed, handler,
                   blamed, results>>

-----------------------------------------------------------------------------
(* SIGINT.  The application thread is at any point of execute(), or, when a *)
(* handler of execute() was left behind, anywhere else.                     *)

\* What an exception meets that a handler raises at this point: the try of
\* cmd_query begins somewhere between the handler's installation and the request.
Meets ==
    CASE pc = "sent"                 -> {"restore"}
      [] pc = "send"                 -> {"restore", "raise"}
      [] pc \in InHandler            -> {resume}
      [] pc \in {"idle", "closing"}  -> {"idle"}
      [] OTHER                       -> {"raise"}

\* The exception leaves close() or __cancel_query, which give the lock back.
Unlocked == IF lock = MainThread THEN Free ELSE lock

\* interrupt_handler begins: a second SIGINT will exit.
Interrupt ==
    /\ pc \in InHelper \cup {"idle", "closing"} /\ signals < plan.signals
    /\ \E q \in Queries : handler = InterruptOf(q) /\ handling' = q
    /\ signals' = signals + 1
    /\ handler' = Exit
    /\ resume' \in Meets
    /\ pc' = "interrupted"
    /\ UNCHANGED <<query, answer, original_sigint, rude, attrs, timers, lock, remote, blamed, results>>

\* The timer is canceled, then __cancel_query tests and locks.
HandlerDisarms ==
    /\ pc = "interrupted"
    /\ finished' = IF timebomb # None THEN [finished EXCEPT ![timebomb] = TRUE] ELSE finished
    /\ timebomb' = None
    /\ pc' = IF sequence_counter >= 0 /\ ~closed THEN "cancel" ELSE "rehandle"
    /\ UNCHANGED <<query, answer, interrupt, rude, sequence_counter, request_id, closed,
                   timer, executed, handler, lock, remote, blamed, results>>

HandlerLocks ==
    /\ pc = "cancel" /\ lock = Free
    /\ lock' = MainThread /\ pc' = "locked"
    /\ UNCHANGED <<query, answer, interrupt, rude, attrs, timers, handler, remote, blamed, results>>

\* The cancellation may raise; the finally of the handler follows either way.
HandlerCancels ==
    /\ pc = "locked" /\ pc' = "rehandle"
    /\ lock' = Free
    /\ Abort(handling) \/ UNCHANGED remote
    /\ UNCHANGED <<query, answer, interrupt, rude, attrs, timers, handler, blamed, results>>

\* The handler it found is put back and KeyboardInterrupt (or the exception of
\* the cancellation) is raised where the signal came.
HandlerEnds ==
    /\ pc = "rehandle"
    /\ handler' = PutBack(handling)
    /\ lock' = Unlocked
    /\ answer' = "raise"
    /\ pc' = IF resume = "restore" THEN "restore" ELSE "idle"
    /\ UNCHANGED <<query, interrupt, rude, attrs, timers, remote, blamed, results>>

\* exit_handler: sys.exit, through the finally of interrupt_handler if it is
\* inside its try, and through that of cmd_query.
ForceExit ==
    /\ pc # "exited" /\ handler = Exit /\ plan.inMain /\ signals < plan.signals
    /\ signals' = signals + 1
    /\ \/ pc \in InHandler /\ handler' = PutBack(handling)
       \/ pc \notin {"cancel", "locked"} /\ UNCHANGED handler
    /\ lock' = Unlocked
    /\ answer' = "exit"
    /\ \E at \in Meets : pc' = IF at = "restore" THEN "restore" ELSE "exited"
    /\ UNCHANGED <<query, handling, resume, original_sigint, rude, attrs, timers, remote, blamed, results>>

\* Outside the window of interrupt_handler Python's own handler raises, and
\* without one the process ends.
OriginalHandler ==
    /\ pc \in InHelper /\ handler \in {Python, Default} /\ plan.inMain /\ signals < plan.signals
    /\ signals' = signals + 1
    /\ pc' = IF handler = Python THEN "idle" ELSE "exited"
    /\ rude' = rude \cup {n}
    /\ UNCHANGED <<query, answer, handling, resume, original_sigint, attrs, timers, handler, lock, remote,
                   blamed, results>>

-----------------------------------------------------------------------------
(* The calls after execute().                                               *)

\* get_results_from_sfqid(q): an inner cursor and a hook for the next fetch.
GetResults(q) ==
    /\ pc = "idle" /\ ~closed /\ hooks < plan.hooks
    /\ q <= n /\ IsAsync(q) /\ server[q] \in {"running", "ok"}
    /\ hook' = q /\ asked' = q /\ served' = <<>> /\ hooks' = hooks + 1
    /\ UNCHANGED <<query, pc, answer, interrupt, rude, attrs, timers, handler, lock, remote,
                   blamed, result, resultIds, stale>>

\* wait_until_ready succeeded: the rows of the inner cursor, or, when q was a
\* query of several statements, those of the first of them.
Hook(q) ==
    /\ server[q] = "ok"
    /\ \/ kind[q] = "async" /\ hook' = None /\ Serve(<<q, 0>>) /\ UNCHANGED resultIds
       \/ kind[q] = "async_multi" /\ Nextset(IdsOf(q))

\* fetchone() of the first row; with a hook it waits for the query first.  A
\* query that failed raises and leaves the hook.
Fetch ==
    /\ pc = "idle" /\ ~closed /\ hook # None
    /\ Hook(hook)
    /\ UNCHANGED <<query, pc, answer, interrupt, rude, attrs, timers, handler, lock, remote,
                   blamed, asked, stale, hooks>>

\* The application calls nextset(), with a hook only after the hook.
CallNextset ==
    /\ pc = "idle" /\ ~closed /\ hook = None
    /\ Nextset(resultIds)
    /\ stale' = (stale \/ (resultIds # <<>> /\ Head(resultIds)[1] # asked))
    /\ UNCHANGED <<query, pc, answer, interrupt, rude, attrs, timers, handler, lock, remote,
                   blamed, asked, hooks>>

\* close() waits for a cancellation under way.
Close ==
    /\ pc = "idle" /\ ~closed /\ lock = Free
    /\ pc' = "closing" /\ lock' = MainThread
    /\ UNCHANGED <<query, answer, interrupt, rude, attrs, timers, handler, remote, blamed, results>>

CloseEnds ==
    /\ pc = "closing" /\ pc' = "idle"
    /\ closed' = TRUE /\ lock' = Free
    /\ Reset
    /\ UNCHANGED <<query, answer, interrupt, rude, sequence_counter, request_id, timebomb,
                   timers, handler, remote, blamed, resultIds, asked, served, stale, hooks>>

-----------------------------------------------------------------------------
Main ==
    \/ RefuseRequestId \/ SetRequestId \/ ArmTimer \/ InstallHandler \/ Send \/ Restore \/ Disarm
    \/ LeaveHelper \/ Evaluate \/ HandlerDisarms \/ HandlerLocks \/ HandlerCancels \/ HandlerEnds
    \/ CloseEnds

Timer(q) == TimerFires(q) \/ TimerEnds(q) \/ TimerChecks(q) \/ TimerLocks(q) \/ TimerCancels(q)

Returned == pc = "sent" /\ server[n] # "running" /\ CmdQuery

Calls ==
    \/ Execute
    \/ \E q \in Queries : GetResults(q)
    \/ Fetch \/ CallNextset \/ Close

Next ==
    \/ Main \/ CmdQuery \/ Calls
    \/ Interrupt \/ ForceExit \/ OriginalHandler
    \/ \E q \in Queries : Timer(q) \/ ServerEnds(q)

\* The threads run, and a request that the server has ended is answered.  The
\* server need not end a query.
Spec ==
    /\ Init /\ [][Next]_vars
    /\ WF_vars(Main) /\ WF_vars(Returned)
    /\ \A q \in Queries : WF_vars(Timer(q))

-----------------------------------------------------------------------------
TypeOK ==
    /\ n \in {0} \cup Queries
    /\ pc \in MainStates /\ answer \in {"ok", "failed", "canceled", "raise", "exit"}
    /\ sequence_counter \in {-1} \cup Queries
    /\ {request_id, timebomb, hook, asked} \subseteq {None} \cup Queries
    /\ \A q \in Queries :
         /\ timer[q] \in {"none", "waiting", "fired", "checked", "locked", "called", "ended", "died"}
         /\ server[q] \in {"none", "running", "ok", "failed", "canceled"}
         /\ {finished[q], executed[q], blamed[q]} \subseteq BOOLEAN
         /\ canceler[q] \in {None} \cup Queries
    /\ handler \in Handlers /\ \A q \in Queries : original_sigint[q] \in Handlers
    /\ result \in {NoResult} \cup (Queries \X ({0} \cup Statements))

\* The finally of _execute_helper and interrupt_handler together: when
\* execute() has returned or raised, no timer is left that could still fire,
\* unless SIGINT came outside the window of the handler.
TimerDisarmed ==
    pc = "idle" => \A q \in Queries \ rude : timer[q] = "waiting" => finished[q]

\* Whatever happens in execute(), SIGINT signals at any point included, the
\* handler is the one the application had when execute() returns or raises,
\* if that one is a function.  (SIG_DFL and None are not put back, and after
\* sys.exit exit_handler may be left.)
HandlerRestored == pc = "idle" /\ Truthy(Original) => handler = Original

\* The same for every handler: no code does it for SIG_DFL and None.
HandlerAlwaysRestored == pc = "idle" => handler = Original

\* SIGINT gets the application out of execute(), whatever the timer thread does
\* with _lock_canceling meanwhile.  (A handler left behind, for SIG_DFL or None,
\* may run inside close(), which holds that lock.)
InterruptReturns == Truthy(Original) => (pc \in InHandler ~> pc \in {"idle", "exited"})

\* The rows in the cursor are those of the query that was asked for last: no
\* call leaves the rows of an earlier query for fetchone() to return.
RowsOfAsked ==
    ~reuse_results /\ ~stale /\ hook = None => result = NoResult \/ result[1] = asked

\* The results of a query of several statements are given out in the order of
\* the statements, each once, also when query_result raises in between.
NextsetInOrder ==
    ~stale =>
        \/ served \in {<<>>, <<<<asked, 0>>>>}
        \/ \E k \in Statements : served = [i \in 1..k |-> <<asked, i>>]

\* nextset() "Fetches the next set of results if the previously executed query
\* was multi-statement": it must not return those of an earlier query.
NextsetOfLast == ~stale

\* "SQL execution was cancelled by the client due to a timeout": only if the
\* timer of that query canceled it.
BlameIsTrue == \A q \in Queries : blamed[q] => canceler[q] = q

\* A query with a timeout does not keep execute() for ever although the server
\* never ends it: a timer that has not fired when the request is sent cancels
\* it, unless the cancellation itself fails.
TimeoutEnds ==
    \A q \in Queries :
        (pc = "sent" /\ n = q /\ timer[q] = "waiting") ~> (pc # "sent" \/ n # q \/ timer[q] = "died")

\* execute() leaves neither a timer nor a signal handler behind, however it ends.
NothingLeftBehind == TypeOK /\ TimerDisarmed /\ HandlerRestored

\* The rows the cursor holds and the results nextset() gives out are those of the query asked for.
ResultsOfAsked == RowsOfAsked /\ NextsetInOrder
=============================================================================
