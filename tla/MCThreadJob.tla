---------------------------- MODULE MCThreadJob ----------------------------
(* Instances of ThreadJob for TLC: two ranks on one queue, one worker each,  *)
(* and a rank of another set on that queue, of which only the worker is seen. *)
EXTENDS ThreadJob, TLC

CONSTANTS r1, r2, r3, w1, w2, w3, q0

MCQueueIdx == [r \in Ranks |-> q0]
MCThreadRank == (w1 :> r1) @@ (w2 :> r2)
MCThreadRankOther == (w1 :> r1) @@ (w2 :> r2) @@ (w3 :> r3)
MCOneSet == {<<r1, r2>>}

Op(t, s, n, k) == [type |-> t, sync |-> s, nonblocking |-> n, single |-> k]
AsyncWork == Op("work", FALSE, FALSE, FALSE)
SyncWork == Op("work", TRUE, FALSE, FALSE)
DpuSync == Op("sync", TRUE, FALSE, FALSE)
CopyOps == {AsyncWork, SyncWork, DpuSync}

AsyncCallback == Op("callback", FALSE, FALSE, FALSE)
AsyncSingle == Op("callback", FALSE, FALSE, TRUE)
Nonblocking == Op("callback", FALSE, TRUE, FALSE)
NonblockingSingle == Op("callback", FALSE, TRUE, TRUE)
SyncCallback == Op("callback", TRUE, FALSE, FALSE)
SyncSingle == Op("callback", TRUE, FALSE, TRUE)
CallbackOps == {AsyncCallback, AsyncSingle, Nonblocking, NonblockingSingle,
                SyncCallback, SyncSingle, DpuSync}
=============================================================================
