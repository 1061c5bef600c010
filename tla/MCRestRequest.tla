--------------------------- MODULE MCRestRequest ---------------------------
(* RestRequest for TLC. *)
EXTENDS RestRequest

CONSTANTS t1, t2

Limits(authenticator, threads, requests, perRequest, expire, depth, closes) ==
    [authenticator |-> authenticator, threads |-> threads, requests |-> requests,
     polls |-> perRequest, expiries |-> expire, masterExpiries |-> 1, stack |-> depth,
     closes |-> closes]

\* Two threads that renew at the same time, twice over or while close() runs; and one whose
\* renewals nest and reauthenticate and whose queries are polled for; and one that never renews.
MCScenarios ==
    {Limits("DEFAULT", {t1, t2}, 1, 0, 2, 2, FALSE), Limits("DEFAULT", {t1, t2}, 1, 0, 1, 2, TRUE),
     Limits("EXTERNALBROWSER", {t1}, 2, 1, 2, 4, TRUE),
     Limits("PAT_WITH_EXTERNAL_SESSION", {t1}, 2, 1, 1, 2, TRUE)}
=============================================================================
