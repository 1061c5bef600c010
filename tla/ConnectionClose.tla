-------------------------- MODULE ConnectionClose --------------------------
(***************************************************************************)
(* SnowflakeConnection.close(): stopping the heartbeat thread, asking for  *)
(* the status of the asynchronous queries over a thread pool, deleting the *)
(* session, closing the REST object.  close() may be called by more than   *)
(* one thread (the application, __exit__, _close_at_exit).  Every step     *)
(* that reads or writes an attribute another thread changes is a step of   *)
(* its own; an exception anywhere in close() is swallowed by its except.   *)
(*                                                                         *)
(* The server (external) runs the asynchronous queries, which finish at    *)
(* any time.  Telemetry.close() neither raises nor touches this state.     *)
(***************************************************************************)
EXTENDS Integers, FiniteSets

CONSTANTS
    Closers,                     \* the threads that call close()
    Queries,                     \* asynchronous queries of this connection
    Workers,                     \* client_prefetch_threads
    RetryLimit,                  \* attempts of delete_session: 3, or 1 at exit
    server_session_keep_alive,
    StatusMayFail,     \* a status request may be answered without "queries"
    StatusMayRaise     \* a status request may raise

ASSUME ParametersAssumption ==
    /\ IsFiniteSet(Queries) /\ Closers # {}
    /\ {Workers, RetryLimit} \subseteq Nat \ {0}
    /\ {server_session_keep_alive, StatusMayFail, StatusMayRaise} \subseteq BOOLEAN

VARIABLES
    rest,              \* self._rest is not None
    tokens,            \* the REST object still has its tokens
    heartbeat_thread,  \* the attribute is not None
    finished,          \* HeartBeatTimer.finished is set
    timer,             \* the timer thread: "waiting", "beating" or "ended"
    async_sfqids,
    running,           \* server: the queries that still run
    session,           \* server: the session exists
    pc,                \* per closer, where close() is
    check,             \* per closer and query, its future; see CheckStates
    found,             \* per closer, found_unfinished_query
    tries              \* per closer, num_retries

beat == <<heartbeat_thread, finished, timer>>
vars == <<rest, tokens, beat, async_sfqids, running, session, pc, check, found, tries>>

CheckStates == {"none", "submitted", "asking", "True", "False", "raised", "collected"}

Goto(c, l) == pc' = [pc EXCEPT ![c] = l]

Init ==
    /\ rest = TRUE /\ tokens = TRUE
    /\ heartbeat_thread \in BOOLEAN
    /\ finished = FALSE
    /\ timer = IF heartbeat_thread THEN "waiting" ELSE "ended"
    /\ async_sfqids \in SUBSET Queries /\ running \in SUBSET async_sfqids
    /\ session = TRUE
    /\ pc = [c \in Closers |-> "idle"]
    /\ check = [c \in Closers |-> [q \in Queries |-> "none"]]
    /\ found = [c \in Closers |-> FALSE]
    /\ tries = [c \in Closers |-> 0]

-----------------------------------------------------------------------------
(* HeartBeatTimer.run and _heartbeat_tick: no beat once close() is through.*)
TimerWakes ==
    /\ timer = "waiting"
    /\ timer' = IF finished THEN "ended" ELSE IF rest THEN "beating" ELSE "waiting"
    /\ UNCHANGED <<rest, tokens, heartbeat_thread, finished, async_sfqids,
                   running, session, pc, check, found, tries>>

(* rest._heartbeat() returns or raises; either way the loop goes on.       *)
BeatEnds ==
    /\ timer = "beating"
    /\ timer' = IF finished THEN "ended" ELSE "waiting"
    /\ UNCHANGED <<rest, tokens, heartbeat_thread, finished, async_sfqids,
                   running, session, pc, check, found, tries>>

QueryFinishes(q) ==
    /\ q \in running
    /\ running' = running \ {q}
    /\ UNCHANGED <<rest, tokens, beat, async_sfqids, session, pc, check, found, tries>>

-----------------------------------------------------------------------------
CloseBegins(c) ==
    /\ pc[c] = "idle"
    /\ Goto(c, IF rest THEN "cancel_heartbeat" ELSE "returned")
    /\ UNCHANGED <<rest, tokens, beat, async_sfqids, running, session, check, found, tries>>

(* _cancel_heartbeat: the attribute is read three times.                   *)
CancelHeartbeat(c) ==
    /\ pc[c] = "cancel_heartbeat"
    /\ Goto(c, IF heartbeat_thread THEN "cancel" ELSE "queries")
    /\ UNCHANGED <<rest, tokens, beat, async_sfqids, running, session, check, found, tries>>

Cancel(c) ==
    /\ pc[c] = "cancel"
    /\ Goto(c, IF heartbeat_thread THEN "join" ELSE "returned")
    /\ finished' = (finished \/ heartbeat_thread)
    /\ UNCHANGED <<rest, tokens, heartbeat_thread, timer, async_sfqids, running,
                   session, check, found, tries>>

Bug_Join(c) ==
    /\ pc[c] = "join"
    /\ Goto(c, IF heartbeat_thread THEN "queries" ELSE "returned")
    /\ heartbeat_thread' = FALSE
    /\ UNCHANGED <<rest, tokens, finished, timer, async_sfqids, running,
                   session, check, found, tries>>

Join(c) ==
    /\ pc[c] = "join"
    /\ Goto(c, IF heartbeat_thread THEN "joining" ELSE "returned")
    /\ UNCHANGED <<rest, tokens, beat, async_sfqids, running, session, check, found, tries>>

Joined(c) ==
    /\ pc[c] = "joining" /\ timer = "ended"
    /\ heartbeat_thread' = FALSE
    /\ Goto(c, "queries")
    /\ UNCHANGED <<rest, tokens, finished, timer, async_sfqids, running, session,
                   check, found, tries>>

(* _all_async_queries_finished asks whether there are queries ...          *)
HasQueries(c) ==
    /\ pc[c] = "queries"
    /\ Goto(c, IF server_session_keep_alive THEN "rest_close"
               ELSE IF async_sfqids = {} THEN "delete" ELSE "submit")
    /\ UNCHANGED <<rest, tokens, beat, async_sfqids, running, session, check, found, tries>>

(* ... and reads them again to submit a check of each.  A pool for none,   *)
(* when another closer has emptied the list, raises.                       *)
SubmitChecks(c) ==
    /\ pc[c] = "submit"
    /\ Goto(c, IF async_sfqids = {} THEN "returned" ELSE "collect")
    /\ check' = [check EXCEPT ![c] =
           [q \in Queries |-> IF q \in async_sfqids THEN "submitted" ELSE "none"]]
    /\ UNCHANGED <<rest, tokens, beat, async_sfqids, running, session, found, tries>>

In(c, states) == {q \in Queries : check[c][q] \in states}

(* ... a worker takes one; nothing is asked once found_unfinished_query.   *)
StartCheck(c, q) ==
    /\ check[c][q] = "submitted"
    /\ Cardinality(In(c, {"asking"})) < Workers
    /\ check' = [check EXCEPT ![c][q] = IF found[c] THEN "True" ELSE "asking"]
    /\ UNCHANGED <<rest, tokens, beat, async_sfqids, running, session, pc, found, tries>>

(* get_query_status: a connection found closed (DISCONNECTED) and an       *)
(* answer without "queries" (FAILED_WITH_ERROR) do not count as running,   *)
(* one with no query in it (NO_DATA) does; a query that does not run is    *)
(* taken off the list.                                                     *)
Statuses(q) ==
    {"True"} \cup (IF q \in running THEN {} ELSE {"False"})
        \cup (IF ~rest \/ StatusMayFail THEN {"False"} ELSE {})
        \cup (IF ~tokens \/ StatusMayRaise THEN {"raised"} ELSE {})

get_query_status(c, q) ==
    /\ check[c][q] = "asking"
    /\ \E r \in Statuses(q) :
         /\ check' = [check EXCEPT ![c][q] = r]
         /\ async_sfqids' = IF r = "False" THEN async_sfqids \ {q} ELSE async_sfqids
    /\ UNCHANGED <<rest, tokens, beat, running, session, pc, found, tries>>

(* as_completed: results in the order they come, until one is True or      *)
(* raises (and stays "raised"); leaving the pool waits for the rest.       *)
Collect(c, q) ==
    /\ pc[c] = "collect"
    /\ check[c][q] \in {"True", "False", "raised"}
    /\ check' = [check EXCEPT ![c][q] = IF @ = "raised" THEN @ ELSE "collected"]
    /\ found' = [found EXCEPT ![c] = check[c][q] = "True"]
    /\ Goto(c, CASE check[c][q] = "True" -> "drain"
                 [] check[c][q] = "raised" -> "drain_raise"
                 [] OTHER -> "collect")
    /\ UNCHANGED <<rest, tokens, beat, async_sfqids, running, session, tries>>

Bug_ChecksDone(c) ==
    /\ pc[c] \in {"collect", "drain", "drain_raise"}
    /\ In(c, {"submitted", "asking"}) = {}
    /\ Goto(c, CASE pc[c] = "drain_raise" -> "returned"
                 [] OTHER -> "delete")
    /\ UNCHANGED <<rest, tokens, beat, async_sfqids, running, session, check, found, tries>>

ChecksDone(c) ==
    /\ pc[c] \in {"collect", "drain", "drain_raise"}
    /\ In(c, {"submitted", "asking"}) = {}
    /\ pc[c] = "collect" => In(c, {"True", "False", "raised"}) = {}
    /\ Goto(c, CASE pc[c] = "drain_raise" -> "returned"
                 [] pc[c] = "drain" -> "rest_close"
                 [] OTHER -> "delete")
    /\ UNCHANGED <<rest, tokens, beat, async_sfqids, running, session, check, found, tries>>

(* rest.delete_session: raises when rest or its tokens are gone.           *)
DeleteRefused(c) ==
    /\ pc[c] = "delete" /\ tries[c] = 0
    /\ ~rest \/ ~tokens
    /\ Goto(c, "returned")
    /\ UNCHANGED <<rest, tokens, beat, async_sfqids, running, session, check, found, tries>>

CanDelete(c) == pc[c] = "delete" /\ (tries[c] > 0 \/ (rest /\ tokens))

Bug_DeleteSession_forever(c) ==
    /\ CanDelete(c)
    /\ session' \in {session, session /\ ~tokens}
    /\ tries' = [tries EXCEPT ![c] = IF @ < RetryLimit THEN @ + 1 ELSE @]
    /\ UNCHANGED <<rest, tokens, beat, async_sfqids, running, pc, check, found>>

(* One attempt: an empty answer is tried again, everything else ends it;   *)
(* the session is gone when the server was reached.                        *)
DeleteSession(c) ==
    /\ CanDelete(c)
    /\ session' \in {session, session /\ ~tokens}
    /\ tries' = [tries EXCEPT ![c] = @ + 1]
    /\ \/ Goto(c, "rest_close")
       \/ tries[c] + 1 < RetryLimit /\ UNCHANGED pc
    /\ UNCHANGED <<rest, tokens, beat, async_sfqids, running, check, found>>

RestClose(c) ==
    /\ pc[c] = "rest_close"
    /\ Goto(c, IF rest THEN "forget" ELSE "returned")
    /\ tokens' = (tokens /\ ~rest)
    /\ UNCHANGED <<rest, beat, async_sfqids, running, session, check, found, tries>>

(* self._rest = None; then the query context cache is cleared.             *)
Forget(c) ==
    /\ pc[c] = "forget"
    /\ rest' = FALSE
    /\ Goto(c, "returned")
    /\ UNCHANGED <<tokens, beat, async_sfqids, running, session, check, found, tries>>

-----------------------------------------------------------------------------
Closer(c) ==
    \/ CancelHeartbeat(c) \/ Cancel(c) \/ Join(c) \/ Joined(c)
    \/ HasQueries(c) \/ SubmitChecks(c) \/ (\E q \in Queries : Collect(c, q)) \/ ChecksDone(c)
    \/ DeleteRefused(c) \/ DeleteSession(c) \/ RestClose(c) \/ Forget(c)

Worker(c) == \E q \in Queries : StartCheck(c, q) \/ get_query_status(c, q)

Timer == TimerWakes \/ BeatEnds

Returned == \A c \in Closers : pc[c] = "returned"
Done == Returned /\ timer = "ended" /\ running = {} /\ UNCHANGED vars

Next ==
    \/ Timer
    \/ \E q \in Queries : QueryFinishes(q)
    \/ \E c \in Closers : CloseBegins(c) \/ Closer(c) \/ Worker(c)
    \/ Done

(* The threads keep running, and a request ends: it has a timeout.         *)
Spec ==
    /\ Init /\ [][Next]_vars
    /\ WF_vars(Timer)
    /\ \A c \in Closers : WF_vars(Closer(c)) /\ WF_vars(Worker(c))

-----------------------------------------------------------------------------
TypeOK ==
    /\ {rest, tokens, heartbeat_thread, finished, session} \subseteq BOOLEAN
    /\ timer \in {"waiting", "beating", "ended"}
    /\ async_sfqids \subseteq Queries /\ running \subseteq Queries
    /\ pc \in [Closers -> {"idle", "cancel_heartbeat", "cancel", "join", "joining",
                           "queries", "submit", "collect", "drain", "drain_raise", "delete",
                           "rest_close", "forget", "returned"}]
    /\ check \in [Closers -> [Queries -> CheckStates]]
    /\ found \in [Closers -> BOOLEAN]
    /\ tries \in [Closers -> 0..RetryLimit]

(* Once the connection is closed the heartbeat thread has ended: no beat   *)
(* is under way on a session whose tokens are gone, and no timer thread is *)
(* left behind, also when two threads close and one of them fails.         *)
NoBeatAfterClose == ~tokens => timer = "ended" /\ ~heartbeat_thread

(* close() deletes the session only when every asynchronous query of the   *)
(* connection has finished, as far as the server's answers can tell.       *)
DeleteOnlyWhenIdle == ~session => running = {}

(* When an asynchronous query was found running, or the application asked  *)
(* to keep the session, close() leaves the session alone; otherwise it     *)
(* never drops the connection without trying to delete the session.        *)
NoSessionLeftBehind ==
    ~rest => \/ server_session_keep_alive
             \/ \E c \in Closers : found[c] \/ tries[c] > 0

(* close() returns, whatever the heartbeat, the checks and another close() *)
(* do.                                                                     *)
CloseReturns == \A c \in Closers : pc[c] = "cancel_heartbeat" ~> pc[c] = "returned"

(* After close() the connection is closed, unless a status request raised: *)
(* two threads that close at once may make one another's close() fail, but *)
(* never both.                                                             *)
SomeCloseSucceeds ==
    Returned /\ rest => \E c \in Closers : In(c, {"raised"}) # {}

(* The heartbeat thread has ended before the tokens go, whoever closes.    *)
HeartbeatStopped == TypeOK /\ NoBeatAfterClose

(* The session is deleted when, and only when, no asynchronous query needs *)
(* it, although the decision rests on answers collected while queries run  *)
(* and another thread closes too; and one of the closers does close.       *)
SessionDecided == DeleteOnlyWhenIdle /\ NoSessionLeftBehind /\ SomeCloseSucceeds
=============================================================================
