-------------------------- MODULE InOrderDelivery --------------------------
(***************************************************************************)
(* What iterating over a result set promises its caller: the batches one   *)
(* after the other, none skipped and none twice; then the end, reported    *)
(* only after the last batch.  The iteration may instead fail, or be       *)
(* abandoned by the caller, after any number of batches.                   *)
(***************************************************************************)
EXTENDS Integers

CONSTANT NumBatches

VARIABLES delivered, status

vars == <<delivered, status>>

Init == delivered = 0 /\ status = "open"

Deliver ==
    /\ status = "open" /\ delivered < NumBatches
    /\ delivered' = delivered + 1
    /\ UNCHANGED status

Finish ==
    /\ status = "open" /\ delivered = NumBatches
    /\ status' = "ended"
    /\ UNCHANGED delivered

Stop(how) ==
    /\ status = "open"
    /\ status' = how
    /\ UNCHANGED delivered

Next == Deliver \/ Finish \/ Stop("failed") \/ Stop("closed")

Spec == Init /\ [][Next]_vars /\ WF_vars(Next)
=============================================================================
