-------------------------------- MODULE PidComm --------------------------------
(***************************************************************************)
(* The PID-Comm collectives (api/src/api/dpu_memory.c): a collective on a  *)
(* hypercube of DPUs launches a relocation kernel on every DPU, lets a     *)
(* team of host threads move cache lines between entangled groups, and     *)
(* launches a second kernel.  The three phases are fork-join: dpu_launch   *)
(* is synchronous and the host threads are joined.                         *)
(*                                                                         *)
(* mram[region][group][block][lane] is the bag of the original words       *)
(* <<dpu, block>> added up there.  The host reads region start and writes  *)
(* region buffer (or buffer and target), never the region it reads, so an  *)
(* item of a host thread is one step.  Kernels that race in place (see     *)
(* Relocate) are taken by their race-free result.                          *)
(***************************************************************************)
EXTENDS PidThreads, Kernels

CONSTANTS Calls,       \* the calls considered, see IsCall
          NumThread    \* host threads (thread_num, 32 in the code)

IsCall(c) ==
  /\ DOMAIN c = {"lib", "op", "axis", "comm", "size", "rtype"}
  /\ c.lib \in {"api", "pidcomm_lib"}
  /\ c.op \in {"AllToAll", "AllGather", "AllReduce", "ReduceScatter"}
  /\ c.comm # {} /\ c.comm \subseteq Dims(c)
  /\ \E k \in 1 .. 5 : Dims(c) = 0 .. k - 1
  /\ Cardinality(Dpus(c)) % 8 = 0
  /\ c.size \in {0, 1, 2, 4, 8} /\ c.rtype \in Nat

ASSUME CallsAssumption == \A c \in Calls : IsCall(c)
ASSUME NumThreadAssumption == NumThread \in Nat \ {0}

Threads == 0 .. NumThread - 1
Regions == {"start", "buffer", "target"}

-----------------------------------------------------------------------------
VARIABLES call,    \* the collective called
          phase,   \* "pre", "host" or "done"
          mram,    \* the MRAM of every DPU, by region, group, block and lane
          iter     \* per host thread, the next item

vars == <<call, phase, mram, iter>>

\* The blocks of a region, and the eight behind it to show an overrun.
Blocks(c) == 0 .. num_comm_dpu(c) + 7

\* The words a DPU starts from; what lies beyond them, and in the other regions,
\* is marked as foreign.
Foreign(r, d, b) == SetToBag({<<r, d, b>>})
DataBlocks(c) == IF c.op = "AllGather" THEN 1 ELSE num_comm_dpu(c)
InitialMram(c) ==
  [r \in Regions |-> [g \in Groups(c) |-> [b \in Blocks(c) |-> [l \in Lanes |->
     IF r = "start" /\ b < DataBlocks(c) THEN SetToBag({<<8 * g + l, b>>})
     ELSE Foreign(r, 8 * g + l, b)]]]]

Init ==
  /\ call \in Calls
  /\ phase = "pre"
  /\ mram = InitialMram(call)
  /\ iter = [t \in Threads |-> ItemsStart(call, t, NumThread)]

-----------------------------------------------------------------------------
(* Launching a kernel on every DPU                                         *)

\* num_comm_rg: how many DPUs of a communication share a group
num_comm_rg(c) ==
  LET before(d) == FoldFunctionOnSet(LAMBDA x, y : x * y, 1, c.axis, 0 .. d - 1)
      part(d) == IF before(d) < 8 /\ d \in c.comm
                 THEN IF c.axis[d] <= 8 \div before(d) THEN c.axis[d] ELSE 8 \div before(d)
                 ELSE 1
  IN  FoldFunctionOnSet(LAMBDA x, y : x * y, 1, [d \in Dims(c) |-> part(d)], Dims(c))

Launch(c, kernel, src, dst, norot, ncr) ==
  [kernel |-> kernel, src |-> src, dst |-> dst, norot |-> norot, ncr |-> ncr]
NoLaunch == [kernel |-> "none"]

\* dpu_arguments_comm_t of DPU d, and dpu_launch on all of them
Arguments(c, k, d) ==
  [kernel |-> k.kernel, dpu |-> d, ncomm |-> num_comm_dpu(c), ncr |-> k.ncr,
   ctype |-> comm_type(c) = 1, norot |-> k.norot, inplace |-> k.src = k.dst,
   cells |-> num_comm_dpu(c)]

Launched(c, k, m) ==
  LET n == num_comm_dpu(c)
      own(d) == LaunchMem(Arguments(c, k, d),
                  [start |-> [b \in 0 .. n - 1 |-> m[k.src][d \div 8][b][d % 8]],
                   target |-> [b \in 0 .. n - 1 |-> m[k.dst][d \div 8][b][d % 8]]])
      res == [d \in Dpus(c) |-> own(d)]
      put(r, d, b) == IF b >= n \/ r \notin {k.src, k.dst} THEN m[r][d \div 8][b][d % 8]
                      ELSE res[d][IF r = k.src THEN "start" ELSE "target"][b]
  IN  IF k = NoLaunch THEN m
      ELSE [r \in Regions |-> [g \in Groups(c) |-> [b \in Blocks(c) |-> [l \in Lanes |->
              put(r, 8 * g + l, b)]]]]

\* axis 0 and 1 of length 2, communication 101 or 010
Cube22(c) ==
  c.axis[0] = 2 /\ c.axis[1] = 2 /\ c.comm \cap {0, 1, 2} \in {{0, 2}, {1}}

\* Few DPUs of a communication in a group
Short(c) == c.axis[0] < 8 /\ num_comm_rg(c) \in 2 .. 7

GatherBack(c) ==
  IF Cube22(c) THEN Launch(c, "modified_clockwise", "buffer", "target", FALSE, 2)
  ELSE IF \/ comm_type(c) = 0 \/ (c.axis[0] < 8 /\ 1 \in c.comm)
          \/ (c.axis[0] * c.axis[1] = 4 /\ c.comm \cap {1, 2} # {})
  THEN Launch(c, "reverse_clockwise", "buffer", "target", FALSE, num_comm_rg(c))
  ELSE Launch(c, "clockwise", "buffer", "target", TRUE, 1)

pidcomm_alltoall_pre(c) ==
  IF comm_type(c) = 0 THEN Launch(c, "clockwise", "start", "start", FALSE, 1) ELSE NoLaunch
pidcomm_alltoall_post(c) == GatherBack(c)

pidcomm_allgather_post(c) == GatherBack(c)

pidcomm_all_reduce_pre(c) ==
  IF Cube22(c) THEN Launch(c, "modified_reverse_clockwise", "start", "start", FALSE, 2)
  ELSE IF Short(c) THEN Launch(c, "clockwise_short", "start", "start", FALSE, num_comm_rg(c))
  ELSE IF comm_type(c) = 0
  THEN Launch(c, "clockwise", "start", "start", FALSE, num_comm_rg(c)) ELSE NoLaunch
pidcomm_all_reduce_post(c) ==
  IF Cube22(c) THEN Launch(c, "modified_clockwise", "buffer", "target", FALSE, 2)
  ELSE IF Short(c)
  THEN Launch(c, "reverse_clockwise_short", "buffer", "target", FALSE, num_comm_rg(c))
  ELSE IF comm_type(c) = 0
  THEN Launch(c, "counterclockwise", "buffer", "target", FALSE, num_comm_rg(c))
  ELSE Launch(c, "incremental_counterclockwise", "buffer", "target", FALSE, num_comm_rg(c))

pidcomm_reduce_scatter_pre(c) ==
  IF Cube22(c) THEN Launch(c, "modified_reverse_clockwise", "start", "buffer", FALSE, 2)
  ELSE IF Short(c) THEN Launch(c, "clockwise_short", "start", "buffer", FALSE, num_comm_rg(c))
  ELSE Launch(c, "clockwise", "start", "buffer", comm_type(c) = 1, num_comm_rg(c))

\* pidcomm_lib/support/commlib.c: the same launches, written against the kernels
\* under the names its Makefile builds them with (relocate_2 is clockwise, ar_2
\* counterclockwise, alltoall_x_2 reverse_clockwise, rs_24 clockwise_short, ...).
commlib_alltoall_pre(c) ==
  IF comm_type(c) = 0 THEN Launch(c, "clockwise", "start", "start", FALSE, 1) ELSE NoLaunch
commlib_gather_back(c) == GatherBack(c)
commlib_all_reduce_pre(c) == pidcomm_all_reduce_pre(c)
commlib_all_reduce_post(c) == pidcomm_all_reduce_post(c)
commlib_reduce_scatter_pre(c) ==
  IF Cube22(c) \/ Short(c) \/ comm_type(c) = 0 THEN pidcomm_reduce_scatter_pre(c)
  ELSE Launch(c, "clockwise", "start", "buffer", TRUE, 1)

PreLaunch(c) ==
  LET api == c.lib = "api"
  IN  CASE c.op = "AllToAll" -> IF api THEN pidcomm_alltoall_pre(c) ELSE commlib_alltoall_pre(c)
        [] c.op = "AllReduce" ->
             IF api THEN pidcomm_all_reduce_pre(c) ELSE commlib_all_reduce_pre(c)
        [] c.op = "ReduceScatter" ->
             IF api THEN pidcomm_reduce_scatter_pre(c) ELSE commlib_reduce_scatter_pre(c)
        [] OTHER -> NoLaunch
PostLaunch(c) ==
  LET api == c.lib = "api"
  IN  CASE c.op = "AllToAll" -> IF api THEN pidcomm_alltoall_post(c) ELSE commlib_gather_back(c)
        [] c.op = "AllGather" -> IF api THEN pidcomm_allgather_post(c) ELSE commlib_gather_back(c)
        [] c.op = "AllReduce" ->
             IF api THEN pidcomm_all_reduce_post(c) ELSE commlib_all_reduce_post(c)
        [] OTHER -> NoLaunch

-----------------------------------------------------------------------------
PreKernel ==
  /\ phase = "pre"
  /\ mram' = Launched(call, PreLaunch(call), mram)
  /\ phase' = "host"
  /\ UNCHANGED <<call, iter>>

\* Thread t takes the next of its items
HostThread(t) ==
  /\ phase = "host"
  /\ ThreadsStarted(call) /\ iter[t] < ItemsEnd(call, t, NumThread)
  /\ mram' = HostItem(call, mram, iter[t])
  /\ iter' = [iter EXCEPT ![t] = @ + 1]
  /\ UNCHANGED <<call, phase>>

\* pthread_join on every thread, then the second launch
PostKernel ==
  /\ phase = "host"
  /\ ThreadsStarted(call) => \A t \in Threads : iter[t] = ItemsEnd(call, t, NumThread)
  /\ mram' = Launched(call, PostLaunch(call), mram)
  /\ phase' = "done"
  /\ UNCHANGED <<call, iter>>

Next == PreKernel \/ (\E t \in Threads : HostThread(t)) \/ PostKernel

Spec == Init /\ [][Next]_vars

-----------------------------------------------------------------------------
(* What a collective promises, from the coordinates of the DPUs            *)

Stride(c, d) == FoldFunctionOnSet(LAMBDA x, y : x * y, 1, c.axis, 0 .. d - 1)
Coord(c, n, d) == (n \div Stride(c, d)) % c.axis[d]

\* The DPUs that communicate with n, and the number of n among them
Community(c, n) == {m \in Dpus(c) : \A d \in Dims(c) \ c.comm : Coord(c, m, d) = Coord(c, n, d)}
IndexOf(c, n) == Cardinality({m \in Community(c, n) : m < n})

Sum(c, n, b) == SetToBag({<<m, b>> : m \in Community(c, n)})
\* A maximum keeps the word whose key is the largest
Extreme(c, n, b) == SetToBag({<<Max(Community(c, n)), b>>})

Expected(c, n, b) ==
  CASE c.op = "AllToAll" ->
         SetToBag({<<m, IndexOf(c, n)>> : m \in {m \in Community(c, n) : IndexOf(c, m) = b}})
    [] c.op = "AllGather" -> SetToBag({<<m, 0>> : m \in {m \in Community(c, n) : IndexOf(c, m) = b}})
    [] c.op = "ReduceScatter" -> Sum(c, n, IndexOf(c, n))
    [] c.op = "AllReduce" -> IF c.rtype = 1 THEN Extreme(c, n, b) ELSE Sum(c, n, b)

ResultBlocks(c) == IF c.op = "ReduceScatter" THEN 1 ELSE num_comm_dpu(c)

TypeOK ==
  /\ call \in Calls /\ phase \in {"pre", "host", "done"}
  /\ DOMAIN mram = Regions
  /\ \A t \in Threads : iter[t] \in ItemsStart(call, t, NumThread) .. ItemsEnd(call, t, NumThread)

\* When the call returns, every DPU holds what the collective promises: each block
\* from the right member, in the right order, or the reduction over exactly the
\* members of its communication, whichever way the host threads interleaved.
Collective ==
  phase = "done" =>
    \A n \in Dpus(call) : \A b \in 0 .. ResultBlocks(call) - 1 :
      mram["target"][n \div 8][b][n % 8] = Expected(call, n, b)

\* No call writes past its result in the target region of any DPU, nor past the
\* data in the region it starts from: what lies there belongs to the application.
StaysInside ==
  \A g \in Groups(call) : \A b \in Blocks(call) :
    /\ b >= ResultBlocks(call) => mram["target"][g][b] = InitialMram(call)["target"][g][b]
    /\ b >= num_comm_dpu(call) => mram["start"][g][b] = InitialMram(call)["start"][g][b]
=============================================================================
