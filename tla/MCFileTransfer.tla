--------------------------- MODULE MCFileTransfer ---------------------------
(* The calls of FileTransfer that TLC explores.                            *)
EXTENDS FileTransfer

Put ==
    [NumFiles |-> 2, ChunkCounts |-> {1, 2, 3}, IOBoundLimit |-> 2, MaxConcurrency |-> 1,
     IsUpload |-> TRUE, MaySkip |-> TRUE, Reraise |-> TRUE, RaisePutGetError |-> TRUE,
     WorkMayRaise |-> TRUE, FinishMayRaise |-> TRUE]

Get ==
    [Put EXCEPT !.ChunkCounts = {1, 3}, !.MaxConcurrency = 2, !.IsUpload = FALSE,
                !.MaySkip = FALSE, !.Reraise = FALSE, !.FinishMayRaise = FALSE]

\* Three files whose chunks exceed the limit of the queue at once.
Throttled ==
    [Put EXCEPT !.NumFiles = 3, !.ChunkCounts = {3}, !.IOBoundLimit = 3,
                !.MaySkip = FALSE, !.WorkMayRaise = FALSE, !.FinishMayRaise = FALSE]

MCCalls == {Put, Get, Throttled}
=============================================================================
