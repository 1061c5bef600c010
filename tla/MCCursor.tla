------------------------------ MODULE MCCursor ------------------------------
(* The calls an application makes on a cursor.                              *)
EXTENDS Cursor

Twice ==
    [sql |-> <<"a", "b">>, kind |-> <<"single", "single">>, timeout |-> <<TRUE, TRUE>>,
     signals |-> 0, hooks |-> 0, inMain |-> TRUE, original |-> "python",
     reuse |-> FALSE]

MCPlans ==
    {Twice,
     [Twice EXCEPT !.sql = <<"a", "a">>, !.inMain = FALSE],
     [Twice EXCEPT !.signals = 2, !.timeout = <<TRUE, FALSE>>],
     [Twice EXCEPT !.signals = 3, !.timeout = <<TRUE, FALSE>>, !.original = "default"],
     [Twice EXCEPT !.kind = <<"multi", "single">>, !.timeout = <<FALSE, FALSE>>, !.reuse = TRUE],
     [Twice EXCEPT !.kind = <<"async", "async_multi">>, !.hooks = 2, !.timeout = <<TRUE, FALSE>>],
     [Twice EXCEPT !.kind = <<"async_multi", "multi">>, !.hooks = 2, !.timeout = <<FALSE, FALSE>>]}
=============================================================================
