------------------------------ MODULE XferPool ------------------------------
(* The MRAM transfer threads of the xeon_sp mapping.                         *)
(*                                                                           *)
(* The ranks of a memory channel share one pool of threads, created with the *)
(* first of them and joined with the last. A transfer takes the mutex of the *)
(* channel, fills the fields of the pool and meets the threads twice at the  *)
(* barrier of the pool: once to start them, once when all are done. The      *)
(* threads split the lines (the DPU numbers 0 .. NrDpusPerCi-1) between them.*)
(* Calls on one rank are made one at a time: its callers hold the rank lock. *)
EXTENDS FiniteSets, LineLayout

CONSTANTS
  Ranks,          \* the ranks the program uses
  ChannelOf,      \* the memory channel of each rank, 255 when it is unknown
  Conf,           \* the xfer_thread_conf each rank is given
  NrDpusPerCi,    \* nr_of_dpus_per_control_interface
  Transfers,      \* [size, offset, lines]; lines: the rows that have a buffer
  NoXfer,
  MaxInits,       \* bound: openings of each rank
  MaxCalls,       \* bound: transfers of each rank
  MaxFailures     \* bound: failures of pthread_barrier_init and pthread_create

MAX_NB_POOL == 31
MAX_NB_CHANNEL == MAX_NB_POOL
MAX_THREAD_PER_POOL == 8
DPU_XFER_THREAD_CONF_DEFAULT == -1
\* Who meets the threads of a pool at its barrier: a transfer, the last close.
Caller == -1
Destroyer == -2

\* The channel numbers for which init, the mutex and the pool agree.
ASSUME ChannelAssumption == \A r \in Ranks : ChannelOf[r] \in 0 .. (MAX_NB_CHANNEL - 1) \cup {255}
ASSUME NrDpusPerCiAssumption == NrDpusPerCi \in 1 .. 8
\* dpu_copy_to_mrams and dpu_copy_from_mrams align what they are given.
ASSUME TransfersAssumption ==
  \A x \in Transfers : /\ x.size \in Nat /\ x.offset \in Nat /\ x.offset % 8 = 0
                       /\ x.lines \subseteq 0 .. (NrDpusPerCi - 1)

\* Finitely many ranks, and none is called like the absence of one.
ASSUME RanksAssumption == IsFiniteSet(Ranks) /\ "none" \notin Ranks
\* The configuration is unsigned; no profile asks for a pool without threads.
ASSUME ConfAssumption ==
  \A r \in Ranks :
    /\ Conf[r].nb_thread_per_pool \in {DPU_XFER_THREAD_CONF_DEFAULT} \cup (Nat \ {0})
    /\ \A f \in {"threshold_1_thread", "threshold_2_threads", "threshold_4_threads"} :
         Conf[r][f] \in {DPU_XFER_THREAD_CONF_DEFAULT} \cup Nat

VARIABLES
  nb_region_per_channel,
  pool,           \* the fields of each struct xeon_sp_private in use
  arrived,        \* who waits at the barrier of each pool
  worker,         \* the threads of each pool
  chan_mutex,     \* holder of each channel mutex
  ctx_mutex,      \* holder of xeon_sp_ctx.mutex
  pc,             \* what each rank's caller does
  req,            \* the transfer it asked for
  moved,          \* how often each line of it was moved; 2 for foreign data too
  broken,         \* the pools of which a creation has failed, and for good
  inits, calls, failures
vars == <<nb_region_per_channel, pool, arrived, worker, chan_mutex, ctx_mutex, pc, req,
          moved, broken, inits, calls, failures>>

Lines == 0 .. (NrDpusPerCi - 1)
Threads == 0 .. (MAX_THREAD_PER_POOL - 1)
NoRank == "none"

\* channel_id_to_pool_id; the channel and its mutex have the same number.
PoolOf(r) == IF ChannelOf[r] = 255 THEN MAX_NB_CHANNEL - 1 ELSE ChannelOf[r]
Pools == {PoolOf(r) : r \in Ranks}

\* xeon_sp_set_configuration.
ThreadsPerPool(r) ==
  IF Conf[r].nb_thread_per_pool = DPU_XFER_THREAD_CONF_DEFAULT THEN 4
  ELSE IF Conf[r].nb_thread_per_pool > MAX_THREAD_PER_POOL THEN MAX_THREAD_PER_POOL
  ELSE Conf[r].nb_thread_per_pool
Threshold(r, field, default) ==
  IF Conf[r][field] = DPU_XFER_THREAD_CONF_DEFAULT THEN default ELSE Conf[r][field]

\* The ranks of a channel come from allocations with the same number of threads:
\* the pool is created for the first of them.
ASSUME UniformPoolsAssumption ==
  \A q, r \in Ranks : PoolOf(q) = PoolOf(r) => ThreadsPerPool(q) = ThreadsPerPool(r)

\* The threads that take part, from the size and the configuration of the rank.
ThreadsForXfer(r, size) ==
  IF size < Threshold(r, "threshold_1_thread", 1024) THEN 1
  ELSE IF size < Threshold(r, "threshold_2_threads", 2048) /\ ThreadsPerPool(r) >= 2 THEN 2
  ELSE IF size < Threshold(r, "threshold_4_threads", 32768) /\ ThreadsPerPool(r) >= 4 THEN 4
  ELSE ThreadsPerPool(r)

\* thread_do_mram_xfer: the lines of thread t among n, [first, last).
SliceStart(t, n, nr) == t * (nr \div n)
SliceStopEven(t, n, nr) == (t + 1) * (nr \div n)
SliceStop(t, n, nr) == IF t = n - 1 THEN nr ELSE (t + 1) * (nr \div n)

Idle == [pc |-> "none", next |-> 0, stop |-> 0, matrix |-> NoRank]
At(p, t) == worker[p][t].pc

Init ==
  /\ nb_region_per_channel = [p \in Pools |-> 0]
  /\ pool = [p \in Pools |-> [tr |-> NoRank, nb_dpus_per_ci |-> 0, nb_threads |-> 0,
                              for_xfer |-> 0, stop_thread |-> FALSE]]
  /\ arrived = [p \in Pools |-> {}]
  /\ worker = [p \in Pools |-> [t \in Threads |-> Idle]]
  /\ chan_mutex = [p \in Pools |-> NoRank]
  /\ ctx_mutex = NoRank
  /\ pc = [r \in Ranks |-> "down"]
  /\ req = [r \in Ranks |-> NoXfer]
  /\ moved = [r \in Ranks |-> [d \in Lines |-> 0]]
  /\ broken = {}
  /\ inits = [r \in Ranks |-> 0]
  /\ calls = [r \in Ranks |-> 0]
  /\ failures = 0

-----------------------------------------------------------------------------
(* xeon_sp_init_rank and xeon_sp_destroy_rank                                *)

CanInit(r) == pc[r] = "down" /\ ctx_mutex = NoRank /\ inits[r] < MaxInits

\* A pool nobody uses: no thread of it runs and nobody is at its barrier.
Quiet(p) == arrived[p] = {} /\ \A t \in Threads : At(p, t) = "none"

\* The fields of the pool and its first k threads.
Created(r, k) ==
  LET p == PoolOf(r)
  IN  /\ pool' = [pool EXCEPT ![p] = [@ EXCEPT !.nb_dpus_per_ci = NrDpusPerCi,
                                               !.nb_threads = ThreadsPerPool(r),
                                               !.stop_thread = FALSE]]
      /\ worker' = [worker EXCEPT ![p] =
                      [t \in Threads |-> IF t < k THEN [Idle EXCEPT !.pc = "loop"] ELSE @[t]]]

\* The count is unsigned: -1 stands for its largest value, which is not 0 either.
xeon_sp_init_rank(r) ==
  /\ CanInit(r)
  /\ inits' = [inits EXCEPT ![r] = @ + 1]
  /\ nb_region_per_channel' = [nb_region_per_channel EXCEPT ![PoolOf(r)] = @ + 1]
  /\ IF nb_region_per_channel[PoolOf(r)] # 0
     THEN UNCHANGED <<pool, worker>>
     ELSE Quiet(PoolOf(r)) /\ Created(r, ThreadsPerPool(r))
  /\ pc' = [pc EXCEPT ![r] = "up"]
  /\ UNCHANGED <<arrived, chan_mutex, ctx_mutex, req, moved, broken, calls, failures>>

\* The barrier, or the thread after the first k, cannot be created: the rank is
\* not counted. The error is a positive number, and hw_allocate looks for a
\* negative one: the rank is up with the pool as it is.
InitFails(r) ==
  /\ CanInit(r)
  /\ nb_region_per_channel[PoolOf(r)] = 0 /\ Quiet(PoolOf(r))
  /\ failures < MaxFailures
  /\ failures' = failures + 1
  /\ inits' = [inits EXCEPT ![r] = @ + 1]
  /\ \E k \in 0 .. (ThreadsPerPool(r) - 1) : Created(r, k)
  /\ broken' = broken \cup {PoolOf(r)}
  /\ pc' = [pc EXCEPT ![r] = "up"]
  /\ UNCHANGED <<nb_region_per_channel, arrived, chan_mutex, ctx_mutex, req, moved, calls>>

\* A pool is created while threads of it run or somebody waits at its barrier,
\* which is initialised again: undefined. The pool is not followed further.
InitUndefined(r) ==
  LET p == PoolOf(r)
  IN  /\ CanInit(r)
      /\ nb_region_per_channel[p] = 0 /\ ~Quiet(p)
      /\ inits' = [inits EXCEPT ![r] = @ + 1]
      /\ pc' = [q \in Ranks |-> IF PoolOf(q) = p THEN "undefined" ELSE pc[q]]
      /\ worker' = [worker EXCEPT ![p] = [t \in Threads |-> Idle]]
      /\ arrived' = [arrived EXCEPT ![p] = {}]
      /\ UNCHANGED <<nb_region_per_channel, pool, chan_mutex, ctx_mutex, req, moved, broken,
                     calls, failures>>

\* The barrier of a pool is for its threads and one caller.
BarrierSizeMax(p) == MAX_THREAD_PER_POOL + 1
BarrierSize(p) == pool[p].nb_threads + 1

\* A barrier that is full opens before anybody else reaches it.
RoomAtBarrier(p) == Cardinality(arrived[p]) < BarrierSize(p)

xeon_sp_destroy_rank(r) ==
  LET p == PoolOf(r)
  IN  /\ pc[r] = "up"
      /\ ctx_mutex = NoRank
      /\ nb_region_per_channel' = [nb_region_per_channel EXCEPT ![p] = @ - 1]
      /\ IF nb_region_per_channel[p] # 1
         THEN /\ pc' = [pc EXCEPT ![r] = "down"]
              /\ UNCHANGED <<pool, arrived, ctx_mutex>>
         ELSE /\ RoomAtBarrier(p)
              /\ pool' = [pool EXCEPT ![p].stop_thread = TRUE]
              /\ arrived' = [arrived EXCEPT ![p] = @ \cup {Destroyer}]
              /\ pc' = [pc EXCEPT ![r] = "destroy"]
              /\ ctx_mutex' = r
      /\ UNCHANGED <<worker, chan_mutex, req, moved, inits, calls, failures, broken>>

\* The joins return once every thread of the pool has left its loop.
Joined(r) ==
  LET p == PoolOf(r)
  IN  /\ pc[r] = "join"
      /\ \A t \in 0 .. (pool[p].nb_threads - 1) : At(p, t) = "ended"
      /\ worker' = [worker EXCEPT ![p] = [t \in Threads |-> Idle]]
      /\ pc' = [pc EXCEPT ![r] = "down"]
      /\ ctx_mutex' = NoRank
      /\ UNCHANGED <<nb_region_per_channel, pool, arrived, chan_mutex, req, moved, inits,
                     calls, failures, broken>>

-----------------------------------------------------------------------------
(* xeon_sp_write_to_rank and xeon_sp_read_from_rank                          *)

CallXfer(r, x) ==
  /\ pc[r] = "up"
  /\ calls[r] < MaxCalls
  /\ calls' = [calls EXCEPT ![r] = @ + 1]
  /\ req' = [req EXCEPT ![r] = x]
  /\ moved' = [moved EXCEPT ![r] = [d \in Lines |-> 0]]
  /\ pc' = [pc EXCEPT ![r] = "lock"]
  /\ UNCHANGED <<nb_region_per_channel, pool, arrived, worker, chan_mutex, ctx_mutex, inits,
                 failures, broken>>

\* xeon_sp_acquire_pool, the fields of the pool, the first barrier.
xeon_sp_init_and_do_xfer(r) ==
  LET p == PoolOf(r)
  IN  /\ pc[r] = "lock"
      /\ chan_mutex[p] = NoRank
      /\ RoomAtBarrier(p)
      /\ chan_mutex' = [chan_mutex EXCEPT ![p] = r]
      /\ pool' = [pool EXCEPT ![p] = [@ EXCEPT !.tr = r,
                                               !.for_xfer = ThreadsForXfer(r, req[r].size)]]
      /\ arrived' = [arrived EXCEPT ![p] = @ \cup {Caller}]
      /\ pc' = [pc EXCEPT ![r] = "first"]
      /\ UNCHANGED <<nb_region_per_channel, worker, ctx_mutex, req, moved, inits, calls,
                     failures, broken>>

xeon_sp_release_pool(r) ==
  /\ pc[r] = "release"
  /\ chan_mutex' = [chan_mutex EXCEPT ![PoolOf(r)] = NoRank]
  /\ pc' = [pc EXCEPT ![r] = "up"]
  /\ UNCHANGED <<nb_region_per_channel, pool, arrived, worker, ctx_mutex, req, moved, inits,
                 calls, failures, broken>>

-----------------------------------------------------------------------------
(* The barrier and thread_mram                                               *)

\* The last one in lets everybody go. The caller of a transfer has nothing to
\* do between its two waits: it waits again at once.
Released(w) == CASE w = "first"  -> "go"
                 [] w = "second" -> "loop"
                 [] OTHER        -> w
CallerReleased(w) == CASE w = "first"   -> "second"
                       [] w = "second"  -> "release"
                       [] w = "destroy" -> "join"
                       [] OTHER         -> w

Barrier(p) ==
  /\ Cardinality(arrived[p]) = BarrierSize(p)
  /\ worker' = [worker EXCEPT ![p] =
                  [t \in Threads |-> IF t \in arrived[p]
                                     THEN [worker[p][t] EXCEPT !.pc = Released(@)]
                                     ELSE worker[p][t]]]
  /\ LET mine == {r \in Ranks : PoolOf(r) = p /\ pc[r] \in {"first", "second", "destroy"}}
     IN  /\ pc' = [r \in Ranks |-> IF r \in mine THEN CallerReleased(pc[r]) ELSE pc[r]]
         /\ arrived' = [arrived EXCEPT ![p] =
                          IF \E r \in mine : pc[r] = "first" THEN {Caller} ELSE {}]
  /\ UNCHANGED <<nb_region_per_channel, pool, chan_mutex, ctx_mutex, req, moved, inits,
                 calls, failures, broken>>

\* "loop" is the top of the loop, "done" the end of thread_do_mram_xfer.
Wait(p, t) ==
  /\ At(p, t) \in {"loop", "done"}
  /\ RoomAtBarrier(p)
  /\ worker' = [worker EXCEPT ![p][t].pc = IF @ = "loop" THEN "first" ELSE "second"]
  /\ arrived' = [arrived EXCEPT ![p] = @ \cup {t}]
  /\ UNCHANGED <<nb_region_per_channel, pool, chan_mutex, ctx_mutex, pc, req, moved, inits,
                 calls, failures, broken>>

\* The stop test, then the entry of thread_do_mram_xfer: a thread that has no
\* slice returns at once; the others read the fields of the pool.
Start(p, t) ==
  LET n == pool[p].for_xfer
  IN  /\ At(p, t) = "go"
      /\ worker' = [worker EXCEPT ![p][t] =
           IF pool[p].stop_thread THEN [@ EXCEPT !.pc = "ended"]
           ELSE IF t >= n THEN [@ EXCEPT !.pc = "done"]
           ELSE [pc |-> "work",
                 next |-> SliceStart(t, n, pool[p].nb_dpus_per_ci),
                 stop |-> SliceStop(t, n, pool[p].nb_dpus_per_ci),
                 matrix |-> pool[p].tr]]
      /\ UNCHANGED <<nb_region_per_channel, pool, arrived, chan_mutex, ctx_mutex, pc, req,
                     moved, inits, calls, failures, broken>>

\* One turn of the loop of threads_write_to_rank or threads_read_from_rank: a
\* line without any buffer, and every line of an empty transfer, is skipped.
Line(p, t) ==
  LET w == worker[p][t]
      x == req[w.matrix]
      base == pool[p].tr
  IN  /\ w.pc = "work"
      /\ IF w.next >= w.stop \/ x.size = 0
         THEN worker' = [worker EXCEPT ![p][t] = [Idle EXCEPT !.pc = "done"]] /\ UNCHANGED moved
         ELSE /\ worker' = [worker EXCEPT ![p][t].next = @ + 1]
              /\ moved' = IF w.next \in x.lines
                          THEN [moved EXCEPT ![base][w.next] =
                                  IF @ = 0 /\ base = w.matrix THEN 1 ELSE 2]
                          ELSE moved
      /\ UNCHANGED <<nb_region_per_channel, pool, arrived, chan_mutex, ctx_mutex, pc, req,
                     inits, calls, failures, broken>>

thread_mram(p, t) == Wait(p, t) \/ Start(p, t) \/ Line(p, t)

-----------------------------------------------------------------------------
Next ==
  \/ \E r \in Ranks :
       \/ xeon_sp_init_rank(r) \/ InitFails(r) \/ InitUndefined(r)
       \/ xeon_sp_destroy_rank(r) \/ Joined(r)
       \/ \E x \in Transfers : CallXfer(r, x)
       \/ xeon_sp_init_and_do_xfer(r) \/ xeon_sp_release_pool(r)
  \/ \E p \in Pools : Barrier(p) \/ \E t \in Threads : thread_mram(p, t)

\* Threads are scheduled, a barrier that is full opens, a free mutex is taken;
\* the program closes the ranks it opened.
Fairness ==
  /\ \A r \in Ranks : /\ WF_vars(xeon_sp_init_and_do_xfer(r))
                      /\ WF_vars(xeon_sp_release_pool(r))
                      /\ WF_vars(Joined(r))
  /\ \A p \in Pools : WF_vars(Barrier(p)) /\ \A t \in Threads : WF_vars(thread_mram(p, t))

Spec == Init /\ [][Next]_vars
FairSpec == Spec /\ Fairness

-----------------------------------------------------------------------------
(* Properties                                                                *)

\* The fields of the pools, the threads and the callers have their types. In a
\* pool whose creations succeeded, the count is that of its ranks, no more than
\* its threads and one caller meet at the barrier, and no line of a transfer is
\* moved twice or with the data of another rank.
TypeOK ==
  /\ broken \subseteq Pools
  /\ nb_region_per_channel \in [Pools -> Int]
  /\ \A p \in Pools : /\ pool[p].tr \in Ranks \cup {NoRank}
                      /\ pool[p].nb_threads \in 0 .. MAX_THREAD_PER_POOL
                      /\ pool[p].for_xfer \in 0 .. MAX_THREAD_PER_POOL
                      /\ arrived[p] \subseteq Threads \cup {Caller, Destroyer}
                      /\ \A t \in Threads : worker[p][t].stop \in 0 .. NrDpusPerCi
  /\ \A p \in Pools \ broken : /\ nb_region_per_channel[p] \in 0 .. Cardinality(Ranks)
                               /\ Cardinality(arrived[p]) <= BarrierSize(p)
  /\ pc \in [Ranks -> {"down", "up", "lock", "first", "second", "release", "destroy", "join",
                       "undefined"}]
  /\ \A r \in Ranks : PoolOf(r) \notin broken => pc[r] # "undefined" /\ moved[r] \in [Lines -> {0, 1}]

\* A rank is busy from the call of a transfer to its return, and the lines of
\* its transfer that are done were moved once; after a creation that failed the
\* ranks of the pool are lost.
Status(w) == CASE w = "down" -> "down"
               [] w \in {"up", "destroy", "join"} -> "up"
               [] OTHER -> "busy"
Lost(r) == PoolOf(r) \in broken
LinesOnce(m) == {d \in Lines : m[d] = 1}
Xfer == INSTANCE MramXfer WITH
  ChannelOf <- [r \in Ranks |-> PoolOf(r)],
  status <- [r \in Ranks |-> IF Lost(r) THEN "lost" ELSE Status(pc[r])],
  req <- [r \in Ranks |-> IF Lost(r) THEN NoXfer ELSE req[r]],
  done <- [r \in Ranks |-> IF Lost(r) THEN {} ELSE LinesOnce(moved[r])]

\* The threads implement MramXfer: a transfer that returns moved every line of
\* its matrix exactly once, for its own rank, and transfers of the ranks of a
\* channel do not overlap (write_to_rank, read_from_rank). Channels are lost only
\* by a creation of their threads that fails, while none of their ranks is up.
ImplementsXfer == Xfer!Spec

\* The words of a transfer, <<line, offset in the MRAM>>.
Words(x) == x.lines \X {x.offset + 8 * i : i \in 0 .. ((x.size \div 8) - 1)}

\* The words of the lines that are being moved have addresses of their own,
\* apart from those of the control interfaces.
LinesApart ==
  \A r \in Ranks :
    pc[r] \in {"first", "second"} =>
      LET address == [w \in Words(req[r]) |-> LineAddress(w[1], w[2])]
      IN  \A i, j \in Words(req[r]) :
            /\ address[i] % 64 = 0 /\ address[i] \notin {CI_WRITE_LINE, CI_READ_LINE}
            /\ address[i] = address[j] => i = j

\* The implementations the transfers use are the same function: writes interleave
\* with AVX-512 instructions, reads with AVX2 ones, and both put the bytes where
\* byte_interleave and the SSE4.1 implementation put them, so that what a write
\* interleaves a read restores. The AVX-512 VBMI one, which nothing calls, is
\* another function: it would not restore what it writes.
InterleavesAgree ==
  (\E r \in Ranks : pc[r] = "release") =>
    /\ byte_interleave_avx512 = byte_interleave
    /\ byte_interleave_avx2 = byte_interleave
    /\ byte_interleave_sse4_1 = byte_interleave
    /\ \A k \in 0 .. 63 : byte_interleave_avx2[byte_interleave_avx512[k]] = k
    /\ byte_interleave_avx512vbmi # byte_interleave

\* Every transfer returns and every destroy joins its threads, on the channels
\* whose threads could be created each time (xeon_sp_init_rank).
XferReturns ==
  \A r \in Ranks :
    /\ (pc[r] = "lock") ~> (pc[r] = "up" \/ Lost(r))
    /\ (pc[r] = "destroy") ~> (pc[r] = "down" \/ Lost(r))
=============================================================================
