----------------------------- MODULE MCPolling -----------------------------
(* Instance of Polling for TLC: one launcher for a rank, because the jobs of a *)
(* rank are executed one at a time (ThreadJob!OneCarrier), and a second rank   *)
(* that is polled and freed around it.                                         *)
EXTENDS Polling, TLC

CONSTANTS r1, r2, d1, d2, l1

OneRank == l1 :> r1
AllLaunches == {Dpus} \cup {{d} : d \in Dpus}
=============================================================================
