------------------------------- MODULE PidLines -------------------------------
(***************************************************************************)
(* The host side of PID-Comm on one entangled group after another          *)
(* (hw/src/mappings/xeon_sp/pid_comm.c).  A cache line of an entangled     *)
(* group holds one word of each of its 8 DPUs, so moving data between the  *)
(* DPUs of a group is a permutation of the 8 lanes of a line: the macros   *)
(* load lines, turn them with vector rotations, add them up or not, and    *)
(* store them.  All words of a block are treated alike: a block of the 8   *)
(* DPUs of a group is one line here.                                       *)
(*                                                                         *)
(* Memory: m[region][group][block] is a line, a function on Lanes.  The    *)
(* value of a lane is the bag of the original words added up in it.        *)
(***************************************************************************)
EXTENDS Integers, Sequences, Bags, FiniteSets, FiniteSetsExt, Functions

Lanes == 0 .. 7

-----------------------------------------------------------------------------
(* Vector instructions on a line                                           *)

\* rol_epi64 by 8 * k bits, rol_epi32 by 8 * k bits, shuffle_epi8 with mask_ar
Rot64(l, k) == [i \in Lanes |-> l[(i - k) % 8]]
Rot32(l, k) == [i \in Lanes |-> l[4 * (i \div 4) + ((i - k) % 4)]]
Swap(l) == [i \in Lanes |-> l[IF i % 2 = 0 THEN i + 1 ELSE i - 1]]

\* mask, vindex and perm: the 8 x 8 byte transposition that brings the 8 bytes
\* of a DPU's word together.  Words wider than a byte are added in that form only.
Transpose(l) == [words |-> l]
Untranspose(x) == x.words

Zero == [i \in Lanes |-> EmptyBag]

\* The original word with the largest value decides a maximum; 0 is the empty bag.
Key(v) == IF v = EmptyBag THEN 0 ELSE LET o == CHOOSE o \in DOMAIN v : TRUE
                                      IN  100 * o[1] + o[2] + 1

AddLanes(x, y) == [i \in Lanes |-> x[i] (+) y[i]]
MaxLanes(x, y) == [i \in Lanes |-> IF Key(x[i]) >= Key(y[i]) THEN x[i] ELSE y[i]]
OrLanes(x, y) == [i \in Lanes |-> SetToBag(BagToSet(x[i]) \cup BagToSet(y[i]))]

\* add_epi8 / max_epi8 on a striped line, add_epi16 ... on a transposed one;
\* any other reduce_type leaves the sum as it is.
Reduce(x, y, rtype) ==
  CASE rtype = 0 -> AddLanes(x, y) [] rtype = 1 -> MaxLanes(x, y) [] OTHER -> x
ReduceWords(x, y, rtype) == [words |-> Reduce(x.words, y.words, rtype)]

(* The sum over num_iter_src groups of n turned blocks each; ls[j][k] is   *)
(* block k of source group j.  size = 1 adds bytes, larger sizes add words *)
(* in their transposed form.                                               *)
BlocksOf(ls, n) == (1 .. Len(ls)) \X (0 .. n - 1)
SumBytes(ls, n, Turn(_, _), rtype) ==
  LET add(p, acc) == Reduce(acc, Turn(ls[p[1]][p[2]], p[2]), rtype)
  IN  FoldSet(add, Zero, BlocksOf(ls, n))
SumWords(ls, n, Turn(_, _), rtype) ==
  LET add(p, acc) == ReduceWords(acc, Transpose(Turn(ls[p[1]][p[2]], p[2])), rtype)
  IN  Untranspose(FoldSet(add, Transpose(Zero), BlocksOf(ls, n)))
SumOver(ls, n, Turn(_, _), size, rtype) ==
  IF size = 1 THEN SumBytes(ls, n, Turn, rtype) ELSE SumWords(ls, n, Turn, rtype)
\* The sum for each of n blocks.
ForEach(sum, n, Turn(_, _)) == [k \in 0 .. n - 1 |-> Turn(sum, k)]

-----------------------------------------------------------------------------
(* The turns: how block k of a group is turned on its way                  *)

TurnX(l, k) == Rot64(l, k)
TurnBack(l, k) == Rot64(l, -k)
TurnNone(l, k) == l
\* x axis alone, 4 or 2 DPUs of it in a group
TurnX4(l, k) == Rot32(l, k)
TurnX2(l, k) == IF k = 0 THEN l ELSE Swap(l)
\* y axis alone: 8 / a blocks, a lanes apart
TurnY4(l, k) == Rot64(l, 4 * k)
TurnY2(l, k) == Rot64(l, 2 * k)
\* 2 x 2 cubes: x and z, or y alone
TurnXZ(l, k) == CASE k = 0 -> l [] k = 1 -> Swap(l) [] k = 2 -> Rot64(l, 4)
                  [] k = 3 -> Swap(Rot64(l, 4))
TurnY22(l, k) == IF k = 0 THEN l ELSE Rot32(l, 2)

-----------------------------------------------------------------------------
(* The macros that copy                                                    *)

RNS_COPY_a2a(ls) == [k \in 0 .. 7 |-> TurnX(ls[k], k)]
S_COPY_a2a(ls) == [k \in 0 .. 0 |-> ls[k]]

RNS_COPY_ag(l) == [k \in 0 .. 7 |-> TurnX(l, k)]
S_COPY_ag(l) == [k \in 0 .. 0 |-> l]
RNS_COPY_ag_24(l, a) ==
  [k \in 0 .. a - 1 |-> IF a = 4 THEN TurnX4(l, k) ELSE TurnX2(l, k)]
S_COPY_ag_24(l, a) ==
  [k \in 0 .. (8 \div a) - 1 |-> IF a = 4 THEN TurnY4(l, k) ELSE TurnY2(l, k)]
RNS_COPY_ag_22(l) == [k \in 0 .. 3 |-> TurnXZ(l, k)]
S_COPY_ag_22(l) == [k \in 0 .. 1 |-> TurnY22(l, k)]

(* The macros that reduce, one line stored                                 *)

RNS_SUM_RS_byte(ls) == SumBytes(ls, 8, TurnX, 0)
RNS_SUM_RS_word(ls) == SumWords(ls, 8, TurnX, 0)
RNS_SUM_RS(ls, size) == IF size = 1 THEN RNS_SUM_RS_byte(ls) ELSE RNS_SUM_RS_word(ls)
S_SUM_RS(ls, size) == SumOver(ls, 1, TurnNone, size, 0)
REDUCE_SCATTER_CPU_X_24_byte(ls, a) ==
  IF a = 4 THEN SumBytes(ls, 4, TurnX4, 0) ELSE SumBytes(ls, 2, TurnX2, 0)
REDUCE_SCATTER_CPU_X_24_word(ls, a) ==
  IF a = 4 THEN SumWords(ls, 4, TurnX4, 0) ELSE SumWords(ls, 2, TurnX2, 0)
REDUCE_SCATTER_CPU_X_24(ls, size, a) ==
  IF size = 1 THEN REDUCE_SCATTER_CPU_X_24_byte(ls, a) ELSE REDUCE_SCATTER_CPU_X_24_word(ls, a)
REDUCE_SCATTER_CPU_Y_24_byte(ls, a) ==
  IF a = 4 THEN SumBytes(ls, 2, TurnY4, 0) ELSE SumBytes(ls, 4, TurnY2, 0)
REDUCE_SCATTER_CPU_Y_24_word(ls, a) ==
  IF a = 4 THEN SumWords(ls, 2, TurnY4, 0) ELSE SumWords(ls, 4, TurnY2, 0)
REDUCE_SCATTER_CPU_Y_24(ls, size, a) ==
  IF size = 1 THEN REDUCE_SCATTER_CPU_Y_24_byte(ls, a) ELSE REDUCE_SCATTER_CPU_Y_24_word(ls, a)
REDUCE_SCATTER_CPU_X_22(ls, size) == SumOver(ls, 4, TurnXZ, size, 0)
REDUCE_SCATTER_CPU_Y_22(ls, size) == SumOver(ls, 2, TurnY22, size, 0)

(* The macros that reduce and turn the result back for each block          *)

RNS_SUM_AR_or(ls) ==
  LET or(p, acc) == OrLanes(acc, TurnX(ls[p[1]][p[2]], p[2]))
  IN  ForEach(FoldSet(or, Zero, BlocksOf(ls, 8)), 8, TurnBack)
RNS_SUM_AR_byte(ls, rtype) == ForEach(SumBytes(ls, 8, TurnX, rtype), 8, TurnBack)
RNS_SUM_AR_word(ls, rtype) == SumWords(ls, 8, TurnX, rtype)
RNS_SUM_AR_word_back(sum) == ForEach(sum, 8, TurnBack)
RNS_SUM_AR(ls, size, rtype) ==
  CASE size = 0 -> RNS_SUM_AR_or(ls)
    [] size = 1 -> RNS_SUM_AR_byte(ls, rtype)
    [] OTHER -> RNS_SUM_AR_word_back(RNS_SUM_AR_word(ls, rtype))
S_SUM_AR(ls, size, rtype) == ForEach(SumOver(ls, 1, TurnNone, size, rtype), 1, TurnNone)
RNS_SUM_AR_24_byte(ls, a) ==
  IF a = 4 THEN ForEach(SumBytes(ls, 4, TurnX4, 0), 4, TurnX4)
  ELSE ForEach(SumBytes(ls, 2, TurnX2, 0), 2, TurnX2)
RNS_SUM_AR_24_word(ls, a) ==
  IF a = 4 THEN ForEach(SumWords(ls, 4, TurnX4, 0), 4, TurnX4)
  ELSE ForEach(SumWords(ls, 2, TurnX2, 0), 2, TurnX2)
RNS_SUM_AR_24(ls, size, a) ==
  IF size = 1 THEN RNS_SUM_AR_24_byte(ls, a) ELSE RNS_SUM_AR_24_word(ls, a)
S_SUM_AR_24_byte(ls, a) ==
  IF a = 4 THEN ForEach(SumBytes(ls, 2, TurnY4, 0), 2, TurnY4)
  ELSE ForEach(SumBytes(ls, 4, TurnY2, 0), 4, TurnY2)
S_SUM_AR_24_word(ls, a) ==
  IF a = 4 THEN ForEach(SumWords(ls, 2, TurnY4, 0), 2, TurnY4)
  ELSE ForEach(SumWords(ls, 4, TurnY2, 0), 4, TurnY2)
S_SUM_AR_24(ls, size, a) ==
  IF size = 1 THEN S_SUM_AR_24_byte(ls, a) ELSE S_SUM_AR_24_word(ls, a)
RNS_SUM_AR_22(ls, size) == ForEach(SumOver(ls, 4, TurnXZ, size, 0), 4, TurnXZ)
S_SUM_AR_22(ls, size) == ForEach(SumOver(ls, 2, TurnY22, size, 0), 2, TurnY22)

-----------------------------------------------------------------------------
(* xeon_sp_trans_..._rg: one item of a host thread.  An item q names the   *)
(* source and destination groups and their first blocks.  The host reads   *)
(* start and writes buffer (start_offset + communication_buffer_offset),   *)
(* except the reductions to one block, which read buffer and write target. *)

Put(m, r, gs, b0, lines) ==
  [m EXCEPT ![r] = [g \in DOMAIN @ |->
     IF g \in gs
     THEN [b \in DOMAIN @[g] |-> IF b - b0 \in DOMAIN lines THEN lines[b - b0] ELSE @[g][b]]
     ELSE @[g]]]

\* n blocks of each source group of q from its first block
Loads(m, r, q, n) ==
  [j \in 1 .. Len(q.srcs) |-> [k \in 0 .. n - 1 |-> m[r][q.srcs[j]][q.sblk + k]]]
First(m, r, q) == m[r][q.srcs[1]][q.sblk]

\* Parallel to the entangled group, perpendicular to it.
all_to_all_x(m, q) == RNS_COPY_a2a([k \in 0 .. 7 |-> m["start"][q.srcs[1]][q.sblk + k]])
all_to_all_y(m, q) == S_COPY_a2a([k \in 0 .. 0 |-> First(m, "start", q)])
all_to_all_rg(m, q, ctype) ==
  Put(m, "buffer", Range(q.dsts), q.dblk, IF ctype = 0 THEN all_to_all_x(m, q) ELSE all_to_all_y(m, q))

all_gather_rg(m, q, ctype) ==
  LET l == First(m, "start", q)
  IN  Put(m, "buffer", Range(q.dsts), q.dblk, IF ctype = 0 THEN RNS_COPY_ag(l) ELSE S_COPY_ag(l))

all_gather_rg_24(m, q, ctype, a) ==
  LET l == First(m, "start", q)
  IN  Put(m, "buffer", Range(q.dsts), q.dblk,
          IF ctype = 0 THEN RNS_COPY_ag_24(l, a) ELSE S_COPY_ag_24(l, a))

\* comm_axis 101 or 010
all_gather_rg_22(m, q, x) ==
  LET l == First(m, "start", q)
  IN  Put(m, "buffer", Range(q.dsts), q.dblk, IF x THEN RNS_COPY_ag_22(l) ELSE S_COPY_ag_22(l))

all_reduce_rg(m, q, c) ==
  Put(m, "buffer", Range(q.srcs), q.dblk, RNS_SUM_AR(Loads(m, "start", q, 8), c.size, c.rtype))

all_reduce_y_rg(m, q, c) ==
  Put(m, "buffer", Range(q.srcs), q.dblk, S_SUM_AR(Loads(m, "start", q, 1), c.size, c.rtype))

all_reduce_rg_24(m, q, ctype, c, a) ==
  Put(m, "buffer", Range(q.srcs), q.dblk,
      IF ctype = 0 THEN RNS_SUM_AR_24(Loads(m, "start", q, a), c.size, a)
      ELSE S_SUM_AR_24(Loads(m, "start", q, 8 \div a), c.size, a))

all_reduce_rg_22(m, q, c, x) ==
  Put(m, "buffer", Range(q.srcs), q.dblk,
      IF x THEN RNS_SUM_AR_22(Loads(m, "start", q, 4), c.size)
      ELSE S_SUM_AR_22(Loads(m, "start", q, 2), c.size))

One(l) == [k \in 0 .. 0 |-> l]

reduce_scatter_cpu_rg(m, q, c) ==
  Put(m, "target", Range(q.dsts), q.dblk, One(RNS_SUM_RS(Loads(m, "buffer", q, 8), c.size)))

reduce_scatter_cpu_y_rg(m, q, c) ==
  Put(m, "target", Range(q.dsts), q.dblk, One(S_SUM_RS(Loads(m, "buffer", q, 1), c.size)))

reduce_scatter_cpu_rg_24(m, q, ctype, c, a) ==
  Put(m, "target", Range(q.dsts), q.dblk,
      One(IF ctype = 0 THEN REDUCE_SCATTER_CPU_X_24(Loads(m, "buffer", q, a), c.size, a)
          ELSE REDUCE_SCATTER_CPU_Y_24(Loads(m, "buffer", q, 8 \div a), c.size, a)))

reduce_scatter_cpu_rg_22(m, q, c, x) ==
  Put(m, "target", Range(q.dsts), q.dblk,
      One(IF x THEN REDUCE_SCATTER_CPU_X_22(Loads(m, "buffer", q, 4), c.size)
          ELSE REDUCE_SCATTER_CPU_Y_22(Loads(m, "buffer", q, 2), c.size)))
=============================================================================
