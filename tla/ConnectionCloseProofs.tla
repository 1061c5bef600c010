----------------------- MODULE ConnectionCloseProofs ------------------------
(* Proofs about ConnectionClose, for every set of threads that close, every *)
(* set of asynchronous queries and every number of workers and attempts.    *)
EXTENDS ConnectionClose, TLAPS

Labels == {"idle", "cancel_heartbeat", "cancel", "join", "joining", "queries", "submit",
           "collect", "drain", "drain_raise", "delete", "rest_close", "forget", "returned"}

\* close() has not yet come to the asynchronous queries ...
Early == {"idle", "cancel_heartbeat", "cancel", "join", "joining"}
\* ... or it has, and has not returned yet.
Late == {"queries", "submit", "collect", "drain", "drain_raise", "delete", "rest_close",
         "forget"}

\* Only a thread that has passed the heartbeat takes the tokens away.
HeartbeatInv ==
    /\ TypeOK
    /\ \A c \in Closers : pc[c] \in Early \cup {"queries", "submit", "collect", "drain", "drain_raise"}
                            => tries[c] = 0
    /\ \A c \in Closers : pc[c] = "delete" => tries[c] < RetryLimit
    /\ ~heartbeat_thread => timer = "ended"
    /\ \A c \in Closers : pc[c] \in Late => ~heartbeat_thread
    /\ ~tokens => ~heartbeat_thread

Raised(c) == \E q \in Queries : check[c][q] = "raised"

\* Somebody is still closing, or was stopped by a request that raised.
SomebodyCloses == \E c \in Closers : pc[c] \in Late \/ Raised(c)

\* What the closers know, while another one may take away what they rely on.
CloserInv ==
    /\ \A c \in Closers : pc[c] \in Early \cup {"queries", "submit"} =>
         \A q \in Queries : check[c][q] = "none"
    /\ \A c \in Closers : pc[c] \in Early \cup {"queries", "submit", "collect"} => ~found[c]
    /\ \A c \in Closers : pc[c] = "drain" => found[c]
    /\ \A c \in Closers : pc[c] = "drain_raise" => Raised(c)
    /\ \A c \in Closers : pc[c] \in {"rest_close", "forget"} =>
         server_session_keep_alive \/ found[c] \/ tries[c] > 0
    /\ \A c \in Closers : pc[c] = "forget" => ~tokens
    /\ ~tokens /\ rest => \E c \in Closers : pc[c] = "forget"
    /\ rest /\ (\E c \in Closers : pc[c] = "returned") => SomebodyCloses
    /\ rest /\ ~heartbeat_thread /\ (\E c \in Closers : pc[c] \in {"cancel", "join", "joining"})
         => SomebodyCloses
    /\ ~rest => ~tokens

\* A status is asked for on behalf of a closer that waits for it; so when a closer
\* finds that the queries it meant to check are gone, the one whose checks took them
\* off the list is closing, or was stopped by a request that raised.
Asking == {"collect", "drain", "drain_raise"}
CheckInv ==
    /\ \A c \in Closers, q \in Queries :
         check[c][q] \in {"submitted", "asking"} => pc[c] \in Asking
    /\ rest /\ async_sfqids = {} /\ (\E c \in Closers : pc[c] = "submit") =>
         \E c \in Closers : pc[c] \in Asking \cup {"delete", "rest_close", "forget"}
                              \/ Raised(c)

\* As long as the tokens are there, a query that runs is known to, and its
\* status has not been counted as finished by anybody.
QueriesInv ==
    /\ tokens => running \subseteq async_sfqids
    /\ tokens => \A c \in Closers : pc[c] = "collect" =>
         \A q \in running : check[c][q] \in {"submitted", "asking", "True", "raised"}
    /\ tokens => \A c \in Closers : pc[c] = "delete" => running = {}

Inv == HeartbeatInv /\ CloserInv /\ CheckInv /\ NoSessionLeftBehind

(* The types, in the form the provers use them.                             *)
LEMMA Types ==
    TypeOK => /\ rest \in BOOLEAN /\ tokens \in BOOLEAN /\ heartbeat_thread \in BOOLEAN
              /\ finished \in BOOLEAN /\ session \in BOOLEAN
              /\ async_sfqids \subseteq Queries /\ running \subseteq Queries
              /\ pc \in [Closers -> Labels]
              /\ check \in [Closers -> [Queries -> CheckStates]]
              /\ found \in [Closers -> BOOLEAN]
              /\ tries \in [Closers -> 0..RetryLimit]
BY DEF TypeOK, Labels

(* Every step of a closer keeps the types, the number of attempts, and the  *)
(* heartbeat stopped before the tokens go.                                  *)
LEMMA HeartbeatStep == HeartbeatInv /\ [Next]_vars => HeartbeatInv'
<1> SUFFICES ASSUME HeartbeatInv, [Next]_vars PROVE HeartbeatInv'
  OBVIOUS
<1> USE DEF HeartbeatInv, TypeOK, Early, Late, Goto, beat
<1>0. RetryLimit \in Nat \ {0}
  BY ParametersAssumption
<1>1. ASSUME NEW c \in Closers, CloseBegins(c) PROVE HeartbeatInv'
  BY <1>0, <1>1 DEF CloseBegins
<1>2. ASSUME NEW c \in Closers, CancelHeartbeat(c) PROVE HeartbeatInv'
  BY <1>0, <1>2 DEF CancelHeartbeat
<1>3. ASSUME NEW c \in Closers, Cancel(c) PROVE HeartbeatInv'
  BY <1>0, <1>3 DEF Cancel
<1>4. ASSUME NEW c \in Closers, Join(c) PROVE HeartbeatInv'
  BY <1>0, <1>4 DEF Join
<1>5. ASSUME NEW c \in Closers, Joined(c) PROVE HeartbeatInv'
  BY <1>0, <1>5 DEF Joined
<1>18. ASSUME NEW c \in Closers, HasQueries(c) PROVE HeartbeatInv'
  BY <1>0, <1>18 DEF HasQueries
<1>6. ASSUME NEW c \in Closers, SubmitChecks(c) PROVE HeartbeatInv'
  BY <1>0, <1>6 DEF SubmitChecks, CheckStates
<1>7. ASSUME NEW c \in Closers, ChecksDone(c) PROVE HeartbeatInv'
  BY <1>0, <1>7 DEF ChecksDone
<1>8. ASSUME NEW c \in Closers, DeleteRefused(c) PROVE HeartbeatInv'
  BY <1>0, <1>8 DEF DeleteRefused
<1>9. ASSUME NEW c \in Closers, DeleteSession(c) PROVE HeartbeatInv'
  BY <1>0, <1>9 DEF DeleteSession, CanDelete
<1>10. ASSUME NEW c \in Closers, RestClose(c) PROVE HeartbeatInv'
  BY <1>0, <1>10 DEF RestClose
<1>11. ASSUME NEW c \in Closers, Forget(c) PROVE HeartbeatInv'
  BY <1>0, <1>11 DEF Forget
<1>12. ASSUME NEW c \in Closers, NEW q \in Queries, Collect(c, q) PROVE HeartbeatInv'
  BY <1>0, <1>12 DEF Collect, CheckStates
<1>13. ASSUME NEW c \in Closers, NEW q \in Queries, StartCheck(c, q) PROVE HeartbeatInv'
  BY <1>0, <1>13 DEF StartCheck, CheckStates
<1>14. ASSUME NEW c \in Closers, NEW q \in Queries, get_query_status(c, q) PROVE HeartbeatInv'
  BY <1>0, <1>14 DEF get_query_status, CheckStates, Statuses
<1>15. CASE Timer
  BY <1>15 DEF Timer, TimerWakes, BeatEnds
<1>16. CASE \E q \in Queries : QueryFinishes(q)
  BY <1>16 DEF QueryFinishes
<1>17. CASE UNCHANGED vars
  BY <1>17 DEF vars
<1> QED
  BY <1>1, <1>2, <1>3, <1>4, <1>5, <1>6, <1>7, <1>8, <1>9, <1>10, <1>11, <1>12, <1>13,
     <1>14, <1>15, <1>16, <1>17, <1>18
     DEF Next, Closer, Worker, Done

(* Before close() the tokens are there and the timer runs or never did.     *)
LEMMA HeartbeatInit == Init => HeartbeatInv
<1> SUFFICES ASSUME Init PROVE HeartbeatInv
  OBVIOUS
<1>1. {rest, tokens, heartbeat_thread, finished, session} \subseteq BOOLEAN /\ tokens
  BY Zenon DEF Init
<1>2. /\ timer \in {"waiting", "beating", "ended"} /\ (~heartbeat_thread => timer = "ended")
      /\ async_sfqids \subseteq Queries /\ running \subseteq Queries
  BY DEF Init
<1>3. /\ pc \in [Closers -> {"idle"}] /\ tries \in [Closers -> {0}]
      /\ check \in [Closers -> [Queries -> {"none"}]]
  BY DEF Init
<1>4. found \in [Closers -> BOOLEAN]
  BY Zenon DEF Init
<1>5. RetryLimit \in Nat \ {0}
  BY ParametersAssumption
<1>6. TypeOK
  BY <1>1, <1>2, <1>3, <1>4, <1>5 DEF TypeOK, CheckStates
<1> QED
  BY <1>1, <1>2, <1>3, <1>5, <1>6 DEF HeartbeatInv, Early, Late

(* No heartbeat is under way, and no timer thread left, once the tokens are *)
(* gone: HeartBeatTimer is joined before delete_session and rest.close.     *)
THEOREM HeartbeatIsStopped == Spec => []HeartbeatStopped
<1>1. HeartbeatInv => HeartbeatStopped
  BY DEF HeartbeatInv, HeartbeatStopped, NoBeatAfterClose
<1> QED
  BY <1>1, HeartbeatInit, HeartbeatStep, PTL DEF Spec

(* Every step keeps what each closer knows of its own checks and attempts,  *)
(* and somebody responsible for the closing that others have given up.      *)
LEMMA CloserStep == HeartbeatInv /\ CloserInv /\ CheckInv /\ [Next]_vars => CloserInv'
<1> SUFFICES ASSUME HeartbeatInv, CloserInv, CheckInv, [Next]_vars PROVE CloserInv'
  OBVIOUS
<1> USE DEF CloserInv, SomebodyCloses, Raised, Early, Late, Goto, beat
<1>0. /\ TypeOK /\ RetryLimit \in Nat \ {0}
      /\ pc \in [Closers -> Labels] /\ check \in [Closers -> [Queries -> CheckStates]]
      /\ found \in [Closers -> BOOLEAN] /\ tries \in [Closers -> 0..RetryLimit]
      /\ \A c \in Closers : pc[c] \in Late => ~heartbeat_thread
  BY ParametersAssumption, Types DEF HeartbeatInv
<1>1. ASSUME NEW c \in Closers, CloseBegins(c) PROVE CloserInv'
  BY <1>0, <1>1 DEF CloseBegins
<1>2. ASSUME NEW c \in Closers, CancelHeartbeat(c) PROVE CloserInv'
  BY <1>0, <1>2 DEF CancelHeartbeat
<1>3. ASSUME NEW c \in Closers, Cancel(c) PROVE CloserInv'
  BY <1>0, <1>3 DEF Cancel
<1>4. ASSUME NEW c \in Closers, Join(c) PROVE CloserInv'
  BY <1>0, <1>4 DEF Join
<1>5. ASSUME NEW c \in Closers, Joined(c) PROVE CloserInv'
  BY <1>0, <1>5 DEF Joined
<1>18. ASSUME NEW c \in Closers, HasQueries(c) PROVE CloserInv'
  BY <1>0, <1>18 DEF HasQueries
<1>6. ASSUME NEW c \in Closers, SubmitChecks(c) PROVE CloserInv'
  <2>1. /\ pc[c] = "submit" /\ pc'[c] = IF async_sfqids = {} THEN "returned" ELSE "collect"
        /\ \A d \in Closers : d # c => pc'[d] = pc[d] /\ check'[d] = check[d]
        /\ UNCHANGED <<rest, tokens, heartbeat_thread, found, tries>>
    BY <1>0, <1>6 DEF SubmitChecks
  <2>2. rest => SomebodyCloses'
    BY <2>1 DEF CheckInv, Asking
  <2> QED
    BY <2>1, <2>2
<1>7. ASSUME NEW c \in Closers, ChecksDone(c) PROVE CloserInv'
  BY <1>0, <1>7 DEF ChecksDone
<1>8. ASSUME NEW c \in Closers, DeleteRefused(c) PROVE CloserInv'
  BY <1>0, <1>8 DEF DeleteRefused
<1>9. ASSUME NEW c \in Closers, DeleteSession(c) PROVE CloserInv'
  <2>1. /\ pc[c] = "delete" /\ pc'[c] \in {"rest_close", "delete"} /\ tries'[c] > 0
        /\ \A d \in Closers : d # c => pc'[d] = pc[d] /\ tries'[d] = tries[d]
        /\ UNCHANGED <<rest, tokens, heartbeat_thread, check, found>>
    BY <1>0, <1>9 DEF DeleteSession, CanDelete
  <2>2. SomebodyCloses'
    BY <2>1
  <2> QED
    BY <2>1, <2>2
<1>10. ASSUME NEW c \in Closers, RestClose(c) PROVE CloserInv'
  <2>1. /\ pc[c] = "rest_close" /\ pc'[c] = IF rest THEN "forget" ELSE "returned"
        /\ \A d \in Closers : d # c => pc'[d] = pc[d]
        /\ UNCHANGED <<rest, heartbeat_thread, check, found, tries>>
    BY <1>0, <1>10 DEF RestClose
  <2>2. ~tokens'
    BY <1>10, Zenon DEF RestClose
  <2>3. rest => pc'[c] = "forget" /\ SomebodyCloses'
    BY <2>1
  <2> QED
    BY <2>1, <2>2, <2>3
<1>11. ASSUME NEW c \in Closers, Forget(c) PROVE CloserInv'
  BY <1>0, <1>11 DEF Forget
<1>12. ASSUME NEW c \in Closers, NEW q \in Queries, Collect(c, q) PROVE CloserInv'
  <2>1. /\ pc[c] = "collect" /\ pc'[c] \in {"collect", "drain", "drain_raise"}
        /\ \A d \in Closers : d # c => /\ pc'[d] = pc[d] /\ check'[d] = check[d]
                                       /\ found'[d] = found[d]
        /\ \A r \in Queries : check[c][r] = "raised" => check'[c][r] = "raised"
        /\ pc'[c] = "drain_raise" => check'[c][q] = "raised"
        /\ UNCHANGED <<rest, tokens, heartbeat_thread, tries>>
    BY <1>0, <1>12 DEF Collect
  <2>2. found'[c] <=> pc'[c] = "drain"
    <3>1. found'[c] = (check[c][q] = "True")
      BY <1>0, <1>12 DEF Collect
    <3>2. pc'[c] = CASE check[c][q] = "True" -> "drain"
                     [] check[c][q] = "raised" -> "drain_raise"
                     [] OTHER -> "collect"
      BY <1>0, <1>12 DEF Collect
    <3> QED
      BY <3>1, <3>2
  <2>3. SomebodyCloses'
    BY <2>1
  <2> QED
    BY <2>1, <2>2, <2>3
<1>13. ASSUME NEW c \in Closers, NEW q \in Queries, StartCheck(c, q) PROVE CloserInv'
  BY <1>0, <1>13 DEF StartCheck
<1>14. ASSUME NEW c \in Closers, NEW q \in Queries, get_query_status(c, q) PROVE CloserInv'
  BY <1>0, <1>14 DEF get_query_status, Statuses
<1>15. CASE Timer
  BY <1>15 DEF Timer, TimerWakes, BeatEnds
<1>16. CASE \E q \in Queries : QueryFinishes(q)
  BY <1>16 DEF QueryFinishes
<1>17. CASE UNCHANGED vars
  BY <1>17 DEF vars
<1> QED
  BY <1>1, <1>2, <1>3, <1>4, <1>5, <1>6, <1>7, <1>8, <1>9, <1>10, <1>11, <1>12, <1>13,
     <1>14, <1>15, <1>16, <1>17, <1>18
     DEF Next, Closer, Worker, Done

(* Every step keeps the checks with a closer that waits for them, and a     *)
(* closer for the queries that were taken off the list.                     *)
LEMMA CheckStep == HeartbeatInv /\ CloserInv /\ CheckInv /\ [Next]_vars => CheckInv'
<1> SUFFICES ASSUME HeartbeatInv, CloserInv, CheckInv, [Next]_vars PROVE CheckInv'
  OBVIOUS
<1> USE DEF CheckInv, Raised, Asking, Goto, beat
<1>0. /\ pc \in [Closers -> Labels] /\ check \in [Closers -> [Queries -> CheckStates]]
      /\ async_sfqids \subseteq Queries
  BY Types DEF HeartbeatInv
<1>1. ASSUME NEW c \in Closers, CloseBegins(c) PROVE CheckInv'
  BY <1>0, <1>1 DEF CloseBegins
<1>2. ASSUME NEW c \in Closers, CancelHeartbeat(c) PROVE CheckInv'
  BY <1>0, <1>2 DEF CancelHeartbeat
<1>3. ASSUME NEW c \in Closers, Cancel(c) PROVE CheckInv'
  BY <1>0, <1>3 DEF Cancel
<1>4. ASSUME NEW c \in Closers, Join(c) PROVE CheckInv'
  BY <1>0, <1>4 DEF Join
<1>5. ASSUME NEW c \in Closers, Joined(c) PROVE CheckInv'
  BY <1>0, <1>5 DEF Joined
<1>18. ASSUME NEW c \in Closers, HasQueries(c) PROVE CheckInv'
  BY <1>0, <1>18 DEF HasQueries
<1>6. ASSUME NEW c \in Closers, SubmitChecks(c) PROVE CheckInv'
  BY <1>0, <1>6 DEF SubmitChecks, CloserInv, Early
<1>7. ASSUME NEW c \in Closers, ChecksDone(c) PROVE CheckInv'
  BY <1>0, <1>7 DEF ChecksDone, In, CloserInv
<1>8. ASSUME NEW c \in Closers, DeleteRefused(c) PROVE CheckInv'
  BY <1>0, <1>8 DEF DeleteRefused, CloserInv
<1>9. ASSUME NEW c \in Closers, DeleteSession(c) PROVE CheckInv'
  BY <1>0, <1>9 DEF DeleteSession, CanDelete
<1>10. ASSUME NEW c \in Closers, RestClose(c) PROVE CheckInv'
  BY <1>0, <1>10 DEF RestClose
<1>11. ASSUME NEW c \in Closers, Forget(c) PROVE CheckInv'
  BY <1>0, <1>11 DEF Forget
<1>12. ASSUME NEW c \in Closers, NEW q \in Queries, Collect(c, q) PROVE CheckInv'
  BY <1>0, <1>12 DEF Collect
<1>13. ASSUME NEW c \in Closers, NEW q \in Queries, StartCheck(c, q) PROVE CheckInv'
  BY <1>0, <1>13 DEF StartCheck
<1>14. ASSUME NEW c \in Closers, NEW q \in Queries, get_query_status(c, q) PROVE CheckInv'
  BY <1>0, <1>14 DEF get_query_status, Statuses
<1>15. CASE Timer
  BY <1>15 DEF Timer, TimerWakes, BeatEnds
<1>16. CASE \E q \in Queries : QueryFinishes(q)
  BY <1>16 DEF QueryFinishes
<1>17. CASE UNCHANGED vars
  BY <1>17 DEF vars
<1> QED
  BY <1>1, <1>2, <1>3, <1>4, <1>5, <1>6, <1>7, <1>8, <1>9, <1>10, <1>11, <1>12, <1>13,
     <1>14, <1>15, <1>16, <1>17, <1>18
     DEF Next, Closer, Worker, Done

(* The connection is dropped only by a closer that kept the session for a   *)
(* reason or tried to delete it.                                            *)
LEMMA LeftBehindStep ==
    HeartbeatInv /\ CloserInv /\ NoSessionLeftBehind /\ [Next]_vars => NoSessionLeftBehind'
<1> SUFFICES ASSUME HeartbeatInv, CloserInv, NoSessionLeftBehind, [Next]_vars, ~rest',
                    ~server_session_keep_alive
             PROVE  \E c \in Closers : found'[c] \/ tries'[c] > 0
  BY DEF NoSessionLeftBehind
<1>0. /\ found \in [Closers -> BOOLEAN] /\ tries \in [Closers -> 0..RetryLimit]
      /\ RetryLimit \in Nat
  BY ParametersAssumption, Types DEF HeartbeatInv
<1>1. \E c \in Closers : found[c] \/ tries[c] > 0
  <2>1. CASE ~rest
    BY <2>1 DEF NoSessionLeftBehind
  <2>2. CASE \E c \in Closers : Forget(c)
    BY <2>2 DEF Forget, CloserInv
  <2>3. CASE UNCHANGED rest
    BY <2>1, <2>3
  <2> QED
    BY <2>1, <2>2, <2>3
       DEF Next, Closer, Worker, Done, Timer, TimerWakes, BeatEnds, QueryFinishes, CloseBegins,
           CancelHeartbeat, Cancel, Join, Joined, HasQueries, SubmitChecks, Collect, ChecksDone,
           DeleteRefused, DeleteSession, RestClose, StartCheck, get_query_status, vars
<1>2. PICK c \in Closers : found[c] \/ tries[c] > 0
  BY <1>1
<1>3. \A d \in Closers : tries[d] > 0 => tries'[d] > 0
  <2>1. CASE \E d \in Closers : DeleteSession(d)
    BY <1>0, <2>1 DEF DeleteSession
  <2>2. CASE UNCHANGED tries
    BY <2>2
  <2> QED
    BY <2>1, <2>2
       DEF Next, Closer, Worker, Done, Timer, TimerWakes, BeatEnds, QueryFinishes, CloseBegins,
           CancelHeartbeat, Cancel, Join, Joined, HasQueries, SubmitChecks, Collect, ChecksDone,
           DeleteRefused, RestClose, Forget, StartCheck, get_query_status, vars
<1>4. \A d \in Closers : found[d] => found'[d]
  <2>1. CASE \E d \in Closers, q \in Queries : Collect(d, q)
    <3>1. PICK d \in Closers, q \in Queries : Collect(d, q)
      BY <2>1
    <3>2. ~found[d] /\ \A e \in Closers : e # d => found'[e] = found[e]
      BY <1>0, <3>1 DEF Collect, CloserInv
    <3> QED
      BY <3>2
  <2>2. CASE UNCHANGED found
    BY <2>2
  <2> QED
    BY <2>1, <2>2
       DEF Next, Closer, Worker, Done, Timer, TimerWakes, BeatEnds, QueryFinishes, CloseBegins,
           CancelHeartbeat, Cancel, Join, Joined, HasQueries, SubmitChecks, ChecksDone,
           DeleteRefused, DeleteSession, RestClose, Forget, StartCheck, get_query_status, vars
<1> QED
  BY <1>2, <1>3, <1>4

(* close() in two threads, with queries that finish, statuses that raise or *)
(* fail and attempts that fail: at every moment each knows what it decided. *)
LEMMA InvAlways == Spec => []Inv
<1>1. Init => Inv
  <2> SUFFICES ASSUME Init PROVE Inv
    OBVIOUS
  <2>1. HeartbeatInv
    BY HeartbeatInit
  <2>2. /\ rest /\ tokens /\ \A c \in Closers : ~found[c]
    BY Zenon DEF Init
  <2>3. \A c \in Closers : pc[c] = "idle" /\ \A q \in Queries : check[c][q] = "none"
    BY DEF Init
  <2>4. CloserInv
    BY <2>2, <2>3 DEF CloserInv
  <2>5. CheckInv
    BY <2>3 DEF CheckInv
  <2> QED
    BY <2>1, <2>2, <2>4, <2>5 DEF Inv, NoSessionLeftBehind
<1>2. Inv /\ [Next]_vars => Inv'
  BY HeartbeatStep, CloserStep, CheckStep, LeftBehindStep DEF Inv
<1> QED
  BY <1>1, <1>2, PTL DEF Spec

(* close(): a connection is never dropped without a reason to keep the      *)
(* session or an attempt to delete it, and of several threads that close at *)
(* once one does close it, unless a status request raised.                  *)
THEOREM SomebodyClosesIt == Spec => [](NoSessionLeftBehind /\ SomeCloseSucceeds)
<1>1. Inv => NoSessionLeftBehind /\ SomeCloseSucceeds
  <2> SUFFICES ASSUME Inv, Returned, rest
               PROVE  \E c \in Closers : In(c, {"raised"}) # {}
    BY DEF Inv, SomeCloseSucceeds
  <2>1. SomebodyCloses
    BY ParametersAssumption DEF Inv, CloserInv, Returned
  <2> QED
    BY <2>1 DEF SomebodyCloses, Raised, In, Returned, Late
<1> QED
  BY <1>1, InvAlways, PTL

(* The answers about the queries are sound while the tokens are there, when *)
(* every answered status request names the query.                           *)
LEMMA QueriesStep ==
    ASSUME ~StatusMayFail
    PROVE  HeartbeatInv /\ CloserInv /\ QueriesInv /\ DeleteOnlyWhenIdle /\ [Next]_vars
             => QueriesInv' /\ DeleteOnlyWhenIdle'
<1> SUFFICES ASSUME HeartbeatInv, CloserInv, QueriesInv, DeleteOnlyWhenIdle, [Next]_vars
             PROVE  QueriesInv' /\ DeleteOnlyWhenIdle'
  OBVIOUS
<1> USE DEF QueriesInv, DeleteOnlyWhenIdle, Goto, beat
<1>0. /\ running \subseteq Queries
      /\ pc \in [Closers -> Labels] /\ check \in [Closers -> [Queries -> CheckStates]]
      /\ tokens \in BOOLEAN /\ session \in BOOLEAN /\ rest \in BOOLEAN /\ (tokens => rest)
  BY Types DEF HeartbeatInv, CloserInv
<1>1. ASSUME NEW c \in Closers, CloseBegins(c) PROVE QueriesInv' /\ DeleteOnlyWhenIdle'
  BY <1>0, <1>1 DEF CloseBegins
<1>2. ASSUME NEW c \in Closers, CancelHeartbeat(c) PROVE QueriesInv' /\ DeleteOnlyWhenIdle'
  BY <1>0, <1>2 DEF CancelHeartbeat
<1>3. ASSUME NEW c \in Closers, Cancel(c) PROVE QueriesInv' /\ DeleteOnlyWhenIdle'
  BY <1>0, <1>3 DEF Cancel
<1>4. ASSUME NEW c \in Closers, Join(c) PROVE QueriesInv' /\ DeleteOnlyWhenIdle'
  BY <1>0, <1>4 DEF Join
<1>5. ASSUME NEW c \in Closers, Joined(c) PROVE QueriesInv' /\ DeleteOnlyWhenIdle'
  BY <1>0, <1>5 DEF Joined
<1>18. ASSUME NEW c \in Closers, HasQueries(c) PROVE QueriesInv' /\ DeleteOnlyWhenIdle'
  BY <1>0, <1>18 DEF HasQueries
<1>6. ASSUME NEW c \in Closers, SubmitChecks(c) PROVE QueriesInv' /\ DeleteOnlyWhenIdle'
  BY <1>0, <1>6 DEF SubmitChecks
<1>7. ASSUME NEW c \in Closers, ChecksDone(c) PROVE QueriesInv' /\ DeleteOnlyWhenIdle'
  BY <1>0, <1>7 DEF ChecksDone, In
<1>8. ASSUME NEW c \in Closers, DeleteRefused(c) PROVE QueriesInv' /\ DeleteOnlyWhenIdle'
  BY <1>0, <1>8 DEF DeleteRefused
<1>9. ASSUME NEW c \in Closers, DeleteSession(c) PROVE QueriesInv' /\ DeleteOnlyWhenIdle'
  BY <1>0, <1>9 DEF DeleteSession, CanDelete
<1>10. ASSUME NEW c \in Closers, RestClose(c) PROVE QueriesInv' /\ DeleteOnlyWhenIdle'
  BY <1>0, <1>10 DEF RestClose
<1>11. ASSUME NEW c \in Closers, Forget(c) PROVE QueriesInv' /\ DeleteOnlyWhenIdle'
  BY <1>0, <1>11 DEF Forget
<1>12. ASSUME NEW c \in Closers, NEW q \in Queries, Collect(c, q)
       PROVE  QueriesInv' /\ DeleteOnlyWhenIdle'
  BY <1>0, <1>12 DEF Collect
<1>13. ASSUME NEW c \in Closers, NEW q \in Queries, StartCheck(c, q)
       PROVE  QueriesInv' /\ DeleteOnlyWhenIdle'
  BY <1>0, <1>13 DEF StartCheck
<1>14. ASSUME NEW c \in Closers, NEW q \in Queries, get_query_status(c, q)
       PROVE  QueriesInv' /\ DeleteOnlyWhenIdle'
  BY <1>0, <1>14 DEF get_query_status, Statuses
<1>15. CASE Timer
  BY <1>15 DEF Timer, TimerWakes, BeatEnds
<1>16. CASE \E q \in Queries : QueryFinishes(q)
  BY <1>16 DEF QueryFinishes
<1>17. CASE UNCHANGED vars
  BY <1>17 DEF vars
<1> QED
  BY <1>1, <1>2, <1>3, <1>4, <1>5, <1>6, <1>7, <1>8, <1>9, <1>10, <1>11, <1>12, <1>13,
     <1>14, <1>15, <1>16, <1>17, <1>18
     DEF Next, Closer, Worker, Done

(* close() deletes the session only when no asynchronous query runs, drops  *)
(* the connection only with a decision about the session, and one of the    *)
(* closers does close.  A status answered without the query counts as       *)
(* finished in the code, so the theorem assumes there is none.              *)
THEOREM SessionIsDecided ==
    ASSUME ~StatusMayFail
    PROVE  Spec => []SessionDecided
<1>1. Init => QueriesInv /\ DeleteOnlyWhenIdle
  <2> SUFFICES ASSUME Init PROVE QueriesInv /\ DeleteOnlyWhenIdle
    OBVIOUS
  <2>1. session
    BY Zenon DEF Init
  <2>2. running \subseteq async_sfqids /\ \A c \in Closers : pc[c] = "idle"
    BY DEF Init
  <2> QED
    BY <2>1, <2>2 DEF QueriesInv, DeleteOnlyWhenIdle
<1>2. Inv /\ QueriesInv /\ DeleteOnlyWhenIdle /\ [Next]_vars => QueriesInv' /\ DeleteOnlyWhenIdle'
  BY QueriesStep DEF Inv
<1>3. Spec => []DeleteOnlyWhenIdle
  BY <1>1, <1>2, InvAlways, PTL DEF Spec
<1> QED
  BY <1>3, SomebodyClosesIt, PTL DEF SessionDecided
=============================================================================
