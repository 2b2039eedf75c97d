----------------------------- MODULE MCRelocate -----------------------------
(* Launches of the relocation kernels as the PID-Comm calls make them: the *)
(* arguments each collective passes, on a few DPUs, with blocks of one to  *)
(* three cells and a cache of two, so that a block has a full chunk, a     *)
(* leftover, or both.                                                      *)
EXTENDS Relocate

L(kernel, dpu, ncomm, ncr, ctype, norot, inplace, w) ==
  [kernel |-> kernel, dpu |-> dpu, ncomm |-> ncomm, ncr |-> ncr, ctype |-> ctype,
   norot |-> norot, inplace |-> inplace, cells |-> ncomm * w]

\* x at least 8 wide: eight tasklets, in place before the host's work
WideLaunches ==
  { L("clockwise", 3, 8, 8, FALSE, FALSE, TRUE, 3),
    L("clockwise", 5, 16, 8, FALSE, FALSE, TRUE, 1),
    L("clockwise", 6, 8, 1, TRUE, TRUE, FALSE, 1),
    L("reverse_clockwise", 5, 16, 8, FALSE, FALSE, FALSE, 1),
    L("counterclockwise", 3, 16, 8, FALSE, FALSE, FALSE, 1),
    L("incremental_counterclockwise", 6, 8, 1, TRUE, FALSE, FALSE, 1) }

\* x narrower than 8: a few tasklets, and the two-stage kernels
NarrowLaunches ==
  { L("clockwise", 5, 4, 4, FALSE, FALSE, TRUE, 3),
    L("clockwise", 1, 4, 1, TRUE, TRUE, FALSE, 1),
    L("incremental_counterclockwise", 6, 2, 1, TRUE, FALSE, FALSE, 3),
    L("counterclockwise", 6, 4, 4, FALSE, FALSE, FALSE, 1),
    L("clockwise_short", 3, 8, 4, FALSE, FALSE, TRUE, 3),
    L("clockwise_short", 6, 4, 2, TRUE, FALSE, FALSE, 3),
    L("reverse_clockwise", 6, 8, 4, FALSE, FALSE, FALSE, 1),
    L("reverse_clockwise", 3, 4, 2, TRUE, FALSE, FALSE, 1),
    L("reverse_clockwise_short", 6, 8, 2, FALSE, FALSE, FALSE, 3),
    L("reverse_clockwise_short", 6, 8, 2, TRUE, FALSE, FALSE, 1),
    L("modified_clockwise", 6, 8, 2, FALSE, FALSE, FALSE, 3),
    L("modified_clockwise", 1, 4, 2, FALSE, FALSE, FALSE, 1),
    L("modified_clockwise", 6, 4, 2, TRUE, FALSE, FALSE, 3),
    L("modified_reverse_clockwise", 5, 8, 2, FALSE, FALSE, TRUE, 3),
    L("modified_reverse_clockwise", 5, 4, 2, FALSE, FALSE, FALSE, 1),
    L("modified_reverse_clockwise", 6, 4, 2, TRUE, FALSE, FALSE, 3) }

AllLaunches == WideLaunches \cup NarrowLaunches
=============================================================================
