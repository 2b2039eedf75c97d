------------------------------ MODULE PidThreads ------------------------------
(***************************************************************************)
(* The host threads of PID-Comm (hw/src/rank/hw_dpu_rank.c): how a thread  *)
(* turns the number of an item into entangled groups and blocks, and which *)
(* function of pid_comm.c it calls on them.                                *)
(*                                                                         *)
(* A call c names the collective (op), the lengths of the hypercube's axes *)
(* (axis, from 0), the axes that communicate (comm), the size of a word in *)
(* bytes and the reduction.  DPU number n has coordinate n % axis[0] on    *)
(* axis 0 and so on; 8 consecutive DPUs are an entangled group and 8       *)
(* groups a rank.                                                          *)
(***************************************************************************)
EXTENDS PidLines

LOCAL Product(f, S) == FoldFunctionOnSet(LAMBDA x, y : x * y, 1, f, S)
LOCAL Total(f, S) == FoldFunctionOnSet(LAMBDA x, y : x + y, 0, f, S)

Dims(c) == DOMAIN c.axis
Dpus(c) == 0 .. Product(c.axis, Dims(c)) - 1
Groups(c) == 0 .. (Product(c.axis, Dims(c)) \div 8) - 1
comm_type(c) == IF 0 \in c.comm THEN 0 ELSE 1
num_comm_dpu(c) == Product(c.axis, c.comm)

\* The axis whose neighbours leave the group: 0 for the plain threads, 1 for the
\* _24 and 2 for the _22 ones.
Level(c) ==
  IF c.axis[0] >= 8 THEN 0 ELSE IF c.axis[0] * c.axis[1] >= 8 THEN 1 ELSE 2

GroupDims(c) == {d \in Dims(c) : d >= Level(c)}

\* The length of each axis counted in groups
GroupLen(c) ==
  [d \in GroupDims(c) |->
     IF d > Level(c) THEN c.axis[d]
     ELSE IF Level(c) = 2 THEN (4 * c.axis[2]) \div 8
     ELSE Product(c.axis, 0 .. d) \div 8]

\* total_axis_product and total_iter_num
Peers(c) == Product(GroupLen(c), c.comm \cap GroupDims(c))
Items(c) == Cardinality(Groups(c)) * (IF c.op = "AllToAll" THEN Peers(c) ELSE 1)

-----------------------------------------------------------------------------
(* From an item to coordinates                                             *)

\* The reductions number their items by Peers(c)
Scale(c) == IF c.op \in {"AllReduce", "ReduceScatter"} THEN Peers(c) ELSE 1

\* cur_iter_num once the axes from d up that do not communicate are divided out
Left(c, d) ==
  (Items(c) * Scale(c)) \div Product(GroupLen(c), {e \in GroupDims(c) \ c.comm : e >= d})

FixedCoord(c, i, d) == ((i * Scale(c)) % Left(c, d + 1)) \div Left(c, d)
cur_remain(c, i) == (i * Scale(c)) % Left(c, Level(c))

cur_iter_src(c, i) ==
  CASE c.op = "AllToAll" -> cur_remain(c, i) \div Peers(c)
    [] c.op = "AllGather" -> cur_remain(c, i)
    [] OTHER -> cur_remain(c, i) % Peers(c)
cur_iter_dst(c, i) ==
  CASE c.op = "AllToAll" -> cur_remain(c, i) % Peers(c)
    [] c.op = "AllGather" -> cur_remain(c, i)
    [] OTHER -> cur_remain(c, i) \div Peers(c)

\* The _22 threads of the reductions take axis 2 at its full length: their
\* tests for the first axis (dim == 1) are in loops that start at 2.
CommLen(c) ==
  [d \in GroupDims(c) |->
     IF Level(c) = 2 /\ d = 2 /\ c.op \in {"AllReduce", "ReduceScatter"}
     THEN c.axis[2] ELSE GroupLen(c)[d]]

\* Coordinate d of member q of a communication, and of entry j of the list of members
IterCoord(c, q, d) ==
  (q \div Product(CommLen(c), {e \in c.comm \cap GroupDims(c) : e < d})) % CommLen(c)[d]
ListCoord(c, j, d) ==
  (j \div Product(GroupLen(c), {e \in c.comm \cap GroupDims(c) : e < d})) % CommLen(c)[d]

\* rank_id and rg_id, each summed up over the axes
GroupAt(c, coord) ==
  LET at == [d \in GroupDims(c) |->
               coord[d] * Product(GroupLen(c), {e \in GroupDims(c) : e < d})]
      rank_id == Total([d \in GroupDims(c) |-> at[d] \div 8], GroupDims(c))
      rg_id == Total(at, GroupDims(c)) % 8
  IN  8 * rank_id + rg_id

IterGroup(c, i, q) ==
  GroupAt(c, [d \in GroupDims(c) |-> IF d \in c.comm THEN IterCoord(c, q, d)
                                     ELSE FixedCoord(c, i, d)])
ListGroups(c, i) ==
  [j \in 1 .. Peers(c) |->
     GroupAt(c, [d \in GroupDims(c) |-> IF d \in c.comm THEN ListCoord(c, j - 1, d)
                                        ELSE FixedCoord(c, i, d)])]

\* How many DPUs of one communication a group holds: the step between blocks
BlocksPerGroup(c) ==
  CASE Level(c) = 0 -> IF comm_type(c) = 0 THEN 8 ELSE 1
    [] Level(c) = 1 -> (IF 0 \in c.comm THEN c.axis[0] ELSE 1)
                       * (IF 1 \in c.comm THEN 8 \div c.axis[0] ELSE 1)
    [] Level(c) = 2 -> 2 ^ Cardinality(c.comm \cap {0, 1, 2})

-----------------------------------------------------------------------------
(* The threads: what item i of call c makes of the memory m                *)

ToAll(c, i) ==
  [srcs |-> << IterGroup(c, i, cur_iter_src(c, i)) >>,
   dsts |-> << IterGroup(c, i, cur_iter_dst(c, i)) >>,
   sblk |-> cur_iter_dst(c, i) * BlocksPerGroup(c),
   dblk |-> cur_iter_src(c, i) * BlocksPerGroup(c)]

thread_all_to_all_rns(c, m, i) == all_to_all_rg(m, ToAll(c, i), comm_type(c))

Gather(c, i, sblk) ==
  [srcs |-> << IterGroup(c, i, cur_iter_src(c, i)) >>, dsts |-> ListGroups(c, i),
   sblk |-> sblk, dblk |-> cur_iter_src(c, i) * BlocksPerGroup(c)]

\* The plain threads read the one block of the source; the others read further
\* on for every member but the first.
thread_all_gather_rns(c, m, i) == all_gather_rg(m, Gather(c, i, 0), comm_type(c))

thread_all_gather_24_rns(c, m, i) ==
  LET q == Gather(c, i, cur_iter_dst(c, i) * BlocksPerGroup(c))
  IN  IF (0 \in c.comm) = (1 \in c.comm) THEN all_gather_rg(m, q, comm_type(c))
      ELSE all_gather_rg_24(m, q, comm_type(c), c.axis[0])

\* Which function serves a 2 x 2 x n cube, by its first three axes
Pattern22(c) ==
  LET near == c.comm \cap {0, 1, 2}
  IN  IF near \in {{0, 1, 2}, {}} THEN "rg"
      ELSE IF near \in {{0, 2}, {1}} THEN "rg_22" ELSE "rg_24"
Length22(c) == IF c.comm \cap {0, 1, 2} \in {{0, 1}, {2}} THEN 4 ELSE 2

\* It serves the item twice, first as a _24 thread would
all_gather_22_calls(c, m, q) ==
  LET m1 == IF (0 \in c.comm) = (1 \in c.comm) THEN all_gather_rg(m, q, comm_type(c))
            ELSE all_gather_rg_24(m, q, comm_type(c), c.axis[0])
  IN  CASE Pattern22(c) = "rg" -> all_gather_rg(m1, q, comm_type(c))
        [] Pattern22(c) = "rg_24" -> all_gather_rg_24(m1, q, comm_type(c), Length22(c))
        [] Pattern22(c) = "rg_22" -> all_gather_rg_22(m1, q, 0 \in c.comm)
thread_all_gather_22_rns(c, m, i) ==
  all_gather_22_calls(c, m, Gather(c, i, cur_iter_dst(c, i) * BlocksPerGroup(c)))

Combine(c, i, dblk) ==
  [srcs |-> ListGroups(c, i), dsts |-> << IterGroup(c, i, cur_iter_dst(c, i)) >>,
   sblk |-> cur_iter_dst(c, i) * BlocksPerGroup(c), dblk |-> dblk]

\* The result of an all-reduce goes to the same blocks of every source group
Reduced(c, i) == Combine(c, i, cur_iter_dst(c, i) * BlocksPerGroup(c))
ScatteredInPlace(c, i) == Combine(c, i, cur_iter_dst(c, i) * BlocksPerGroup(c))
Scattered(c, i) == Combine(c, i, cur_iter_src(c, i) * BlocksPerGroup(c))

thread_all_reduce_rns(c, m, i) ==
  IF comm_type(c) = 0 THEN all_reduce_rg(m, Reduced(c, i), c)
  ELSE all_reduce_y_rg(m, Reduced(c, i), c)

thread_all_reduce_24_rns(c, m, i) ==
  IF (0 \in c.comm) # (1 \in c.comm)
  THEN all_reduce_rg_24(m, Reduced(c, i), comm_type(c), c, c.axis[0])
  ELSE IF comm_type(c) = 0 THEN all_reduce_rg(m, Reduced(c, i), c)
       ELSE all_reduce_y_rg(m, Reduced(c, i), c)

all_reduce_22_calls(c, m, q) ==
  CASE Pattern22(c) = "rg_24" -> all_reduce_rg_24(m, q, comm_type(c), c, Length22(c))
    [] Pattern22(c) = "rg_22" -> all_reduce_rg_22(m, q, c, 0 \in c.comm)
    [] OTHER -> IF comm_type(c) = 0 THEN all_reduce_rg(m, q, c) ELSE all_reduce_y_rg(m, q, c)
thread_all_reduce_22_rns(c, m, i) == all_reduce_22_calls(c, m, Reduced(c, i))

thread_reduce_scatter_rns(c, m, i) ==
  IF comm_type(c) = 0 THEN reduce_scatter_cpu_rg(m, Scattered(c, i), c)
  ELSE reduce_scatter_cpu_y_rg(m, Scattered(c, i), c)

thread_reduce_scatter_24_rns(c, m, i) ==
  IF (0 \in c.comm) # (1 \in c.comm)
  THEN reduce_scatter_cpu_rg_24(m, Scattered(c, i), comm_type(c), c, c.axis[0])
  ELSE IF comm_type(c) = 0 THEN reduce_scatter_cpu_rg(m, Scattered(c, i), c)
       ELSE reduce_scatter_cpu_y_rg(m, Scattered(c, i), c)

reduce_scatter_22_calls(c, m, q) ==
  CASE Pattern22(c) = "rg_24" -> reduce_scatter_cpu_rg_24(m, q, comm_type(c), c, Length22(c))
    [] Pattern22(c) = "rg_22" -> reduce_scatter_cpu_rg_22(m, q, c, 0 \in c.comm)
    [] OTHER -> IF comm_type(c) = 0 THEN reduce_scatter_cpu_rg(m, q, c)
                ELSE reduce_scatter_cpu_y_rg(m, q, c)
thread_reduce_scatter_22_rns(c, m, i) == reduce_scatter_22_calls(c, m, Scattered(c, i))

-----------------------------------------------------------------------------
(* hw_..._rns: the thread function a call starts                           *)

\* Only the plain all-to-all is started; the others are commented out
hw_all_to_all_rns(c, m, i) == thread_all_to_all_rns(c, m, i)
hw_all_gather_rns(c, m, i) ==
  CASE Level(c) = 0 -> thread_all_gather_rns(c, m, i)
    [] Level(c) = 1 -> thread_all_gather_24_rns(c, m, i)
    [] Level(c) = 2 -> thread_all_gather_22_rns(c, m, i)
hw_all_reduce_rns(c, m, i) ==
  CASE Level(c) = 0 -> thread_all_reduce_rns(c, m, i)
    [] Level(c) = 1 -> thread_all_reduce_24_rns(c, m, i)
    [] Level(c) = 2 -> thread_all_reduce_22_rns(c, m, i)
hw_reduce_scatter_rns(c, m, i) ==
  CASE Level(c) = 0 -> thread_reduce_scatter_rns(c, m, i)
    [] Level(c) = 1 -> thread_reduce_scatter_24_rns(c, m, i)
    [] Level(c) = 2 -> thread_reduce_scatter_22_rns(c, m, i)
ThreadsStarted(c) == c.op # "AllToAll" \/ Level(c) = 0

HostItem(c, m, i) ==
  CASE c.op = "AllToAll" -> hw_all_to_all_rns(c, m, i)
    [] c.op = "AllGather" -> hw_all_gather_rns(c, m, i)
    [] c.op = "AllReduce" -> hw_all_reduce_rns(c, m, i)
    [] c.op = "ReduceScatter" -> hw_reduce_scatter_rns(c, m, i)

\* share, remainder and start_point: the items of thread t of n are the numbers
\* from ItemsStart(c, t, n) up to the start of thread t + 1
ItemsStart(c, t, n) ==
  LET share == Items(c) \div n
      remainder == Items(c) % n
  IN  share * t + (IF t < remainder THEN t ELSE remainder)
ItemsEndEven(c, t, n) == ItemsStart(c, t, n) + (Items(c) \div n)
ItemsEnd(c, t, n) ==
  ItemsStart(c, t, n) + (Items(c) \div n) + (IF t < Items(c) % n THEN 1 ELSE 0)
=============================================================================
