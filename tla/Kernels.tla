-------------------------------- MODULE Kernels --------------------------------
(***************************************************************************)
(* The relocation kernels of PID-Comm (pidcomm_lib/data_relocate_...), each *)
(* as the list of stages its arguments make it go through, and what a      *)
(* stage makes of the memory when its blocks are moved all at once.        *)
(* Relocate runs the stages with tasklets; PidComm uses their result.      *)
(***************************************************************************)
EXTENDS Integers, Sequences

(* What a kernel does is a sequence of stages.  In a stage the tasklets    *)
(* below crew take the blocks crew apart; block b goes to into[b], its     *)
(* group of m blocks and in it the offset computed from the DPU number.    *)
(* sync is the size of the barrier around the writes and entry the size of *)
(* the barrier before the first read, 0 when there is none.                *)

Stage(a, crew, step, entry, sync, blocks, local, m, off) ==
  [crew |-> crew, step |-> step, entry |-> entry, sync |-> sync, blocks |-> blocks,
   to |-> IF local \/ a.inplace THEN "start" ELSE "target",
   into |-> [b \in 0 .. blocks - 1 |->
               IF a.norot THEN b ELSE (b \div m) * m + (off[b] % m)]]

clockwise_8(a) ==
  LET off == [b \in 0 .. a.ncomm - 1 |-> b - a.dpu]
  IN  << Stage(a, 8, 8, 8, 8, a.ncomm, FALSE, 8, off) >>

clockwise_few_unsynced(a) ==
  LET off == [b \in 0 .. a.ncomm - 1 |-> b - a.dpu]
  IN  << Stage(a, a.ncomm, a.ncomm, a.ncomm, 0, a.ncomm, FALSE, a.ncomm, off) >>
clockwise_few_all(a) ==
  LET off == [b \in 0 .. a.ncomm - 1 |-> b - a.dpu]
  IN  << Stage(a, a.ncomm, a.ncomm, 8, 8, a.ncomm, FALSE, a.ncomm, off) >>
clockwise_few(a) ==
  LET off == [b \in 0 .. a.ncomm - 1 |-> b - a.dpu]
  IN  << Stage(a, a.ncomm, a.ncomm, a.ncomm, a.ncomm, a.ncomm, FALSE, a.ncomm, off) >>

clockwise(a) ==
  IF a.ncomm % 8 = 0 THEN clockwise_8(a)
  ELSE IF a.ncomm \in {2, 4} THEN clockwise_few(a) ELSE << >>

reverse_8(a) ==
  LET off == [b \in 0 .. a.ncomm - 1 |-> a.dpu - b]
  IN  << Stage(a, 8, 8, 8, 8, a.ncomm, FALSE, 8, off) >>

\* ncomm_rg < 8 with the x axis: no barrier
reverse_x(a) ==
  LET off == [b \in 0 .. a.ncomm - 1 |-> a.dpu - b]
  IN  << Stage(a, a.ncr, a.ncr, 0, 0, a.ncomm, FALSE, a.ncr, off) >>

\* ncomm_rg < 8 without the x axis: 8/ncomm_rg tasklets, no barrier
reverse_y(a) ==
  LET n == 8 \div a.ncr
      off == [b \in 0 .. a.ncomm - 1 |-> a.dpu \div n - b]
  IN  << Stage(a, n, n, 0, 0, a.ncomm, FALSE, a.ncr, off) >>

reverse_few(a) ==
  LET off == [b \in 0 .. a.ncomm - 1 |-> a.dpu - b]
  IN  << Stage(a, a.ncomm, a.ncomm, a.ncomm, a.ncomm, a.ncomm, FALSE, a.ncomm, off) >>

reverse_clockwise(a) ==
  IF a.ncomm % 8 = 0 /\ a.ncr = 8 THEN reverse_8(a)
  ELSE IF a.ncr < 8 THEN IF a.ctype THEN reverse_y(a) ELSE reverse_x(a)
  ELSE IF a.ncomm \in {2, 4} THEN reverse_few(a) ELSE << >>

counter_8(a) ==
  LET off == [b \in 0 .. a.ncomm - 1 |-> b + a.dpu]
  IN  << Stage(a, 8, 8, 8, 8, a.ncomm, FALSE, 8, off) >>

counter_few(a) ==
  LET off == [b \in 0 .. a.ncomm - 1 |-> b + a.dpu]
  IN  << Stage(a, a.ncomm, a.ncomm, a.ncomm, a.ncomm, a.ncomm, FALSE, a.ncomm, off) >>

counterclockwise(a) ==
  IF a.ncomm % 8 = 0 THEN counter_8(a)
  ELSE IF a.ncomm \in {2, 4} THEN counter_few(a) ELSE << >>

incremental_8(a) ==
  LET off == [b \in 0 .. a.ncomm - 1 |-> b + (a.dpu - (a.dpu % 8))]
  IN  << Stage(a, 8, 8, 8, 8, a.ncomm, FALSE, 8, off) >>

incremental_few(a) ==
  LET off == [b \in 0 .. a.ncomm - 1 |-> b + (a.dpu - (a.dpu % a.ncomm))]
  IN  << Stage(a, a.ncomm, a.ncomm, a.ncomm, a.ncomm, a.ncomm, FALSE, a.ncomm, off) >>

incremental_counterclockwise(a) ==
  IF a.ncomm % 8 = 0 THEN incremental_8(a)
  ELSE IF a.ncomm \in {2, 4} THEN incremental_few(a) ELSE << >>

\* pairs of blocks, always inside the start region
modified_pairs(a) ==
  LET off == [b \in 0 .. a.ncomm - 1 |-> a.dpu - b]
  IN  Stage(a, 4, 4, 0, 4, a.ncomm, TRUE, 2, off)

\* then pairs of double blocks, to the target region and with no barrier
modified_doubles(a) ==
  LET off == [b \in 0 .. a.ncomm - 1 |-> a.dpu \div 4 - b]
  IN  Stage(a, 2, 2, 0, 0, a.ncomm \div 2, FALSE, 2, off)

modified_y(a) ==
  LET off == [b \in 0 .. a.ncomm - 1 |-> a.dpu \div 2 - b]
  IN  << Stage(a, 2, 2, 0, 0, a.ncomm, FALSE, 2, off) >>

modified_clockwise(a) ==
  IF a.ncr >= 8 THEN << >>
  ELSE IF a.ctype THEN modified_y(a)
  ELSE << modified_pairs(a), modified_doubles(a) >>

short_x(a) ==
  LET off == [b \in 0 .. a.ncomm - 1 |-> b - a.dpu]
  IN  << Stage(a, a.ncr, a.ncr, 0, IF a.ncr \in {2, 4} THEN a.ncr ELSE 0,
               a.ncomm, FALSE, a.ncr, off) >>

\* without the x axis there is no barrier, whatever the offsets
short_y(a) ==
  LET off == [b \in 0 .. a.ncomm - 1 |-> b - a.dpu \div (8 \div a.ncr)]
  IN  << Stage(a, a.ncr, a.ncr, 0, 0, a.ncomm, FALSE, a.ncr, off) >>

clockwise_short(a) == IF a.ctype THEN short_y(a) ELSE short_x(a)

reverse_short_x(a) ==
  LET off == [b \in 0 .. a.ncomm - 1 |-> a.dpu - b]
  IN  << Stage(a, a.ncr, a.ncr, 0, IF a.ncr \in {2, 4} THEN a.ncr ELSE 0,
               a.ncomm, FALSE, a.ncr, off) >>

reverse_short_y(a) ==
  LET off == [b \in 0 .. a.ncomm - 1 |-> a.dpu \div (8 \div a.ncr) - b]
  IN  << Stage(a, a.ncr, a.ncr, 0, 0, a.ncomm, FALSE, a.ncr, off) >>

reverse_clockwise_short(a) == IF a.ctype THEN reverse_short_y(a) ELSE reverse_short_x(a)

modified_reverse_pairs(a) ==
  LET off == [b \in 0 .. a.ncomm - 1 |-> b - a.dpu]
  IN  Stage(a, a.ncr, a.ncr, 0, 2, a.ncomm, TRUE, a.ncr, off)

modified_reverse_doubles(a) ==
  LET off == [b \in 0 .. a.ncomm - 1 |-> b - a.dpu \div 4]
  IN  Stage(a, a.ncr, a.ncr, 0, 2, a.ncomm \div 2, FALSE, a.ncr, off)

modified_reverse_y(a) ==
  LET off == [b \in 0 .. a.ncomm - 1 |-> b - a.dpu \div 2]
  IN  << Stage(a, a.ncr, a.ncr, 0, 0, a.ncomm, FALSE, a.ncr, off) >>

modified_reverse_clockwise(a) ==
  IF a.ctype THEN modified_reverse_y(a)
  ELSE << modified_reverse_pairs(a), modified_reverse_doubles(a) >>

Stages(a) ==
  CASE a.kernel = "clockwise" -> clockwise(a)
    [] a.kernel = "reverse_clockwise" -> reverse_clockwise(a)
    [] a.kernel = "counterclockwise" -> counterclockwise(a)
    [] a.kernel = "incremental_counterclockwise" -> incremental_counterclockwise(a)
    [] a.kernel = "modified_clockwise" -> modified_clockwise(a)
    [] a.kernel = "modified_reverse_clockwise" -> modified_reverse_clockwise(a)
    [] a.kernel = "clockwise_short" -> clockwise_short(a)
    [] a.kernel = "reverse_clockwise_short" -> reverse_clockwise_short(a)

-----------------------------------------------------------------------------
\* The region s writes, when its blocks are moved from region src to region dst.
Moved(s, src, dst, cells) ==
  LET w == cells \div s.blocks
  IN  [c \in 0 .. cells - 1 |->
         IF \E b \in DOMAIN s.into : s.into[b] = c \div w
         THEN src[w * (CHOOSE b \in DOMAIN s.into : s.into[b] = c \div w) + (c % w)]
         ELSE dst[c]]

StageMem(s, m, cells) == [m EXCEPT ![s.to] = Moved(s, m["start"], @, cells)]

LaunchMem(a, m) ==
  LET ss == Stages(a)
  IN  CASE Len(ss) = 0 -> m
        [] Len(ss) = 1 -> StageMem(ss[1], m, a.cells)
        [] Len(ss) = 2 -> StageMem(ss[2], StageMem(ss[1], m, a.cells), a.cells)
=============================================================================
