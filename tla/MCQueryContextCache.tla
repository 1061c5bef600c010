------------------------- MODULE MCQueryContextCache -------------------------
(* Instances of QueryContextCache for TLC: every response of at most       *)
(* MaxEntries entries read at one time, in every order, and one that is    *)
(* malformed after its first entry.                                        *)
EXTENDS QueryContextCache

CONSTANT MaxEntries

MCIds == 10..12
MCPriorities == 0..2
MCTimestamps == 1..2
MCResponses ==
    {m \in BoundedSeq(QCE, MaxEntries) :
        /\ WellFormed(m)
        /\ \A i \in DOMAIN m : m[i].read_timestamp = m[1].read_timestamp}
    \cup {<<[id |-> 10, read_timestamp |-> 2, priority |-> 0], Malformed>>}
=============================================================================
