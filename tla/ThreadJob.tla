------------------------------ MODULE ThreadJob ------------------------------
(***************************************************************************)
(* The asynchronous job engine of the high-level host API                  *)
(* (api/src/api/dpu_thread_job.c): every rank owns a fixed table of job    *)
(* slots and a FIFO of queued jobs; the ranks of one NUMA node share a     *)
(* queue of ranks that have work; worker threads take a rank from the      *)
(* queue and run its FIFO until it is empty.  Callers (application         *)
(* threads) take free slots, fill them, append them to the FIFOs and, when *)
(* the call is synchronous, wait on a counter that one SYNC job per rank   *)
(* decrements.                                                             *)
(*                                                                         *)
(* One action stands for the code from one blocking acquisition (mutex or  *)
(* condition variable) to the next.  A mutex that is released before the   *)
(* next acquisition only appears in the guard.                             *)
(***************************************************************************)
EXTENDS Naturals, Sequences, FiniteSets

CONSTANTS
  Ranks,       \* struct dpu_rank_t
  Queues,      \* indexes of queues[NR_QUEUES], one per NUMA node
  Workers,     \* threads running dpu_thread_job_fct
  Callers,     \* application threads calling the API
  QueueIdx,    \* rank -> thread_info.queue_idx
  ThreadRank,  \* worker -> the rank whose thread_info it was created with
  NrJobs,      \* rank->api.nr_jobs, the slots of a rank
  Sets,        \* dpu_set_t.list.ranks of the DPU sets the application uses
  Allocated,   \* those of Sets that dpu_alloc returned and dpu_free accepts
  Ops,         \* the API calls the application makes, a set of OpType
  MaxCalls,    \* bound: API calls per caller
  MaxFaults,   \* bound: jobs and callbacks that fail
  Disciplined, \* synchronous calls (but dpu_sync) only on ranks with no job
  NoThread,    \* owner of a free mutex
  NoSlot       \* NULL job

Slots == Ranks \X (1 .. NrJobs)
RankOf(s) == s[1]
Threads == Workers \cup Callers

OpType == [type : {"work", "sync", "callback"}, sync : BOOLEAN,
           nonblocking : BOOLEAN, single : BOOLEAN]

ASSUME RanksAssumption ==
  Ranks # {} /\ QueueIdx \in [Ranks -> Queues] /\ ThreadRank \in [Workers -> Ranks]
\* A synchronous call holds two slots of a rank at once (job and SYNC job).
ASSUME NrJobsAssumption == NrJobs \in Nat /\ NrJobs >= 2
ASSUME SetsAssumption ==
  /\ Allocated \subseteq Sets
  /\ \A S \in Sets : /\ S \in Seq(Ranks) /\ S # <<>>
                     /\ \A i, j \in 1 .. Len(S) : S[i] = S[j] => i = j
\* dpu_callback refuses a synchronous nonblocking callback; dpu_sync always waits.
ASSUME OpsAssumption ==
  /\ Ops \subseteq OpType
  /\ \A op \in Ops : /\ op.type = "sync" => op.sync
                     /\ op.nonblocking => op.type = "callback" /\ ~op.sync
                     /\ op.single => op.type = "callback"
ASSUME ThreadsAssumption ==
  /\ Callers # {} /\ Workers \cap Callers = {}
  /\ NoThread \notin Threads /\ NoSlot \notin Slots
ASSUME BoundsAssumption == MaxCalls \in Nat /\ MaxFaults \in Nat /\ Disciplined \in BOOLEAN

VARIABLES
  available,   \* rank -> available_jobs, the free slots
  jobs,        \* rank -> api.jobs, the FIFO
  job,         \* slot -> struct dpu_thread_job
  list,        \* queue -> list, the first job of every rank that has work
  jobError,    \* rank -> api.job_error # DPU_OK
  callbackSet, \* rank -> api.callback_tid_set
  shouldStop,  \* rank -> thread_info.should_stop
  parked,      \* auxiliary: FIFOs left without a worker by a blocking callback
  jobsMutex, queueMutex, rankMutex,  \* owners of the mutexes
  syncMutex,   \* caller -> owner of the mutex of its struct dpu_thread_job_sync
  sync,        \* caller -> its struct dpu_thread_job_sync (on its stack)
  cpc, call, cidx, got, \* caller: program counter, arguments, each_rank, jobs[]
  dirty,       \* auxiliary: ranks given asynchronous jobs since the last wait
  calls,       \* caller -> API calls made so far
  wpc, wjob, wcb, widx, \* worker: program counter, job, callback locals, each_rank
  faults,      \* failures so far
  crashed      \* the process has died (or met undefined behaviour)

fifo  == <<available, jobs, job, list, parked>>
flags == <<jobError, callbackSet, shouldStop>>
locks == <<jobsMutex, queueMutex, rankMutex, syncMutex>>
app   == <<call, cidx, got, dirty, calls>>
wrk   == <<wjob, wcb, widx>>
vars  == <<fifo, flags, locks, sync, cpc, app, wpc, wrk, faults, crashed>>

Elems(s) == {s[i] : i \in 1 .. Len(s)}
Update(f, D, v) == [x \in DOMAIN f |-> IF x \in D THEN v ELSE f[x]]

-----------------------------------------------------------------------------
(* State and its types.                                                    *)

JobType == [type : {"work", "sync", "callback"},
            owner : Callers,          \* who queued it; job->sync is its sync object
            master : Slots \cup {NoSlot}, \* callback.master_job
            set : Seq(Ranks),         \* callback.dpu_set
            nr : Nat,                 \* callback.sync.nr_ranks
            sync : BOOLEAN, nonblocking : BOOLEAN, single : BOOLEAN]

\* Fields of one API call: ranks/nr_ranks, nr_jobs_per_rank, the master's rank.
CallType == [op : OpType, set : Seq(Ranks), ranks : Seq(Ranks), nj : {1, 2}, owner : Ranks]

CallbackType == [set : Seq(Ranks), master : Slots \cup {NoSlot}, sync : BOOLEAN,
                 nonblocking : BOOLEAN, single : BOOLEAN, failed : BOOLEAN]

CallerPC == {"idle", "get", "waitget", "choose", "master", "waitmaster", "unget",
             "set", "set_direct", "do", "do_seen", "direct", "add", "addq",
             "wait", "woken", "clear", "join", "freed"}
WorkerPC == {"main", "wait", "lock", "compute", "advance", "signal", "update",
             "drain", "drainsig", "cbadvance", "cbinsert", "cblock", "cbrun",
             "block", "relmaster", "done"}

TypeOK ==
  /\ available \in [Ranks -> Seq(Slots)] /\ jobs \in [Ranks -> Seq(Slots)]
  /\ job \in [Slots -> JobType] /\ list \in [Queues -> Seq(Slots)]
  /\ jobError \in [Ranks -> BOOLEAN] /\ callbackSet \in [Ranks -> BOOLEAN]
  /\ shouldStop \in [Ranks -> BOOLEAN] /\ parked \in [Ranks -> BOOLEAN]
  /\ jobsMutex \in [Ranks -> Threads \cup {NoThread}]
  /\ queueMutex \in [Queues -> Threads \cup {NoThread}]
  /\ rankMutex \in [Ranks -> Threads \cup {NoThread}]
  /\ syncMutex \in [Callers -> Threads \cup {NoThread}]
  /\ sync \in [Callers -> [nr : Nat, failed : BOOLEAN]]
  /\ cpc \in [Callers -> CallerPC] /\ call \in [Callers -> CallType]
  /\ cidx \in [Callers -> Nat] /\ got \in [Callers -> Seq(Slots)]
  /\ dirty \in [Callers -> SUBSET Ranks] /\ calls \in [Callers -> Nat]
  /\ wpc \in [Workers -> WorkerPC] /\ wjob \in [Workers -> Slots]
  /\ wcb \in [Workers -> CallbackType] /\ widx \in [Workers -> Nat]
  /\ faults \in Nat /\ crashed \in BOOLEAN

\* Placeholders for locals that are not initialised yet.
AnySlot == CHOOSE s \in Slots : TRUE
NoJob == [type |-> "work", owner |-> CHOOSE c \in Callers : TRUE, master |-> NoSlot,
          set |-> <<>>, nr |-> 0, sync |-> FALSE, nonblocking |-> FALSE, single |-> FALSE]
NoCall == [op |-> [type |-> "work", sync |-> FALSE, nonblocking |-> FALSE, single |-> FALSE],
           set |-> <<>>, ranks |-> <<>>, nj |-> 1, owner |-> CHOOSE r \in Ranks : TRUE]
NoCallback == [set |-> <<>>, master |-> NoSlot, sync |-> FALSE, nonblocking |-> FALSE,
               single |-> FALSE, failed |-> FALSE]

\* dpu_thread_job_create has run: the table is on the free list (filled from
\* the head), the workers are at the top of their loop.
Init ==
  /\ available = [r \in Ranks |-> [i \in 1 .. NrJobs |-> <<r, NrJobs + 1 - i>>]]
  /\ jobs = [r \in Ranks |-> <<>>] /\ list = [q \in Queues |-> <<>>]
  /\ job = [s \in Slots |-> NoJob]
  /\ jobError = [r \in Ranks |-> FALSE] /\ callbackSet = [r \in Ranks |-> FALSE]
  /\ shouldStop = [r \in Ranks |-> FALSE] /\ parked = [r \in Ranks |-> FALSE]
  /\ jobsMutex = [r \in Ranks |-> NoThread] /\ queueMutex = [q \in Queues |-> NoThread]
  /\ rankMutex = [r \in Ranks |-> NoThread] /\ syncMutex = [c \in Callers |-> NoThread]
  /\ sync = [c \in Callers |-> [nr |-> 0, failed |-> FALSE]]
  /\ cpc = [c \in Callers |-> "idle"] /\ call = [c \in Callers |-> NoCall]
  /\ cidx = [c \in Callers |-> 1] /\ got = [c \in Callers |-> <<>>]
  /\ dirty = [c \in Callers |-> {}] /\ calls = [c \in Callers |-> 0]
  /\ wpc = [w \in Workers |-> "main"] /\ wjob = [w \in Workers |-> AnySlot]
  /\ wcb = [w \in Workers |-> NoCallback] /\ widx = [w \in Workers |-> 1]
  /\ faults = 0 /\ crashed = FALSE

-----------------------------------------------------------------------------
(* Condition variables and the operations shared by callers and workers.   *)

\* The rank whose jobs_mutex caller c uses in get_jobs or for the master job.
WaitRank(c) == IF cpc[c] = "waitmaster" THEN call[c].owner ELSE call[c].ranks[cidx[c]]
SlotWaiters(r) == {c \in Callers : cpc[c] \in {"waitget", "waitmaster"} /\ WaitRank(c) = r}
Resumed(c) == IF cpc[c] = "waitmaster" THEN "master" ELSE "get"

\* dpu_thread_job_pop_unlocked on the free list.
PoppedKept(r) == available
Popped(r) == [available EXCEPT ![r] = Tail(@)]

\* dpu_thread_release_job_slot_unlocked: append to the free list and signal one
\* waiter when the list was empty (SlotSignal: what that may make of cpc).
ReleasedNowhere(s) == available
Released(s) == [available EXCEPT ![RankOf(s)] = Append(@, s)]
SlotSignal(s) ==
  IF available[RankOf(s)] = <<>> /\ SlotWaiters(RankOf(s)) # {}
    THEN {[cpc EXCEPT ![c] = Resumed(c)] : c \in SlotWaiters(RankOf(s))}
    ELSE {cpc}

\* pthread_cond_broadcast on the queues of Q, applied to program counters pcs.
QueueOf(w) == QueueIdx[ThreadRank[w]]
BroadcastMissing(Q, pcs) == pcs
Broadcast(Q, pcs) ==
  [w \in Workers |-> IF pcs[w] = "wait" /\ QueueOf(w) \in Q THEN "main" ELSE pcs[w]]

HeldQueues(t) == {q \in Queues : queueMutex[q] = t}

\* pthread_cond_signal on the sync object of caller c, applied to pcs.
SyncSignalMissing(c, pcs) == pcs
SyncSignal(c, pcs) == IF pcs[c] = "wait" THEN [pcs EXCEPT ![c] = "woken"] ELSE pcs

\* dpu_thread_job_init_sync_job
InitSync(n) == [nr |-> n, failed |-> FALSE]

\* The rank has no queued job and must enter its queue (dpu_thread_job_add_jobs).
EntersQueueAlways(r) == TRUE
EntersQueue(r) == jobs[r] = <<>>

\* Whether DPU_THREAD_JOB_GET_JOBS, SET_JOBS and do_jobs see callback_tid_set.
SeesCallback(op, ranks) ==
  op.sync /\ op.type # "sync" /\ Len(ranks) = 1 /\ callbackSet[ranks[1]]

-----------------------------------------------------------------------------
(* Callers: DPU_THREAD_JOB_GET_JOBS, SET_JOBS and dpu_thread_job_do_jobs.   *)

Goto(c, pc) == cpc' = [cpc EXCEPT ![c] = pc]
Return(c) == Goto(c, "idle")

\* The caller enters the API.  A synchronous single-call callback only goes to
\* the first rank.  A synchronous call initialises (and locks) its sync object
\* and asks for two slots per rank, except on the path taken inside a callback.
Call(c, op, S) ==
  LET ranks  == IF op.single /\ op.sync THEN <<S[1]>> ELSE S
      direct == SeesCallback(op, ranks)
      nj     == IF op.sync /\ op.type # "sync" /\ ~direct THEN 2 ELSE 1
  IN
  /\ cpc[c] = "idle" /\ calls[c] < MaxCalls
  /\ Disciplined /\ op.sync /\ op.type # "sync" => Elems(ranks) \cap dirty[c] = {}
  /\ calls' = [calls EXCEPT ![c] = @ + 1]
  /\ call' = [call EXCEPT ![c] = [op |-> op, set |-> S, ranks |-> ranks, nj |-> nj,
                                  owner |-> ranks[1]]]
  /\ got' = [got EXCEPT ![c] = <<>>] /\ cidx' = [cidx EXCEPT ![c] = 1]
  /\ Goto(c, IF direct THEN "set_direct" ELSE "get")
  /\ IF op.sync /\ ~direct
       THEN /\ syncMutex' = [syncMutex EXCEPT ![c] = c]
            /\ sync' = [sync EXCEPT ![c] = InitSync(Len(ranks))]
       ELSE UNCHANGED <<syncMutex, sync>>
  /\ UNCHANGED <<fifo, flags, jobsMutex, queueMutex, rankMutex, dirty, wpc, wrk, faults, crashed>>

\* dpu_thread_job_get_jobs, one slot: the mutex is kept until the rank's nj
\* slots are taken.
GetJob(c) ==
  LET r    == call[c].ranks[cidx[c]]
      full == Len(got[c]) + 1 = cidx[c] * call[c].nj
      last == cidx[c] = Len(call[c].ranks)
  IN
  /\ cpc[c] = "get" /\ jobsMutex[r] \in {NoThread, c}
  /\ ~jobError[r] /\ available[r] # <<>>
  /\ got' = [got EXCEPT ![c] = Append(@, Head(available[r]))]
  /\ available' = Popped(r)
  /\ jobsMutex' = [jobsMutex EXCEPT ![r] = IF full THEN NoThread ELSE c]
  /\ cidx' = [cidx EXCEPT ![c] = IF full THEN @ + 1 ELSE @]
  /\ Goto(c, CASE ~(full /\ last) -> "get"
               [] full /\ last /\ call[c].op.single /\ Len(call[c].ranks) # 1 -> "choose"
               [] OTHER -> "set")
  /\ UNCHANGED <<jobs, job, list, parked, flags, queueMutex, rankMutex, syncMutex, sync,
                 call, dirty, calls, wpc, wrk, faults, crashed>>

\* No free slot: wait on available_jobs_cond, which releases the mutex.
GetWait(c) ==
  LET r == call[c].ranks[cidx[c]] IN
  /\ cpc[c] = "get" /\ jobsMutex[r] \in {NoThread, c}
  /\ ~jobError[r] /\ available[r] = <<>>
  /\ jobsMutex' = [jobsMutex EXCEPT ![r] = NoThread]
  /\ Goto(c, "waitget")
  /\ UNCHANGED <<fifo, flags, queueMutex, rankMutex, syncMutex, sync, app, wpc, wrk, faults, crashed>>

\* The rank is in error: the slots of the ranks before it are given back while
\* its mutex is held; a slot already taken from this rank is not.
GetFail(c) ==
  LET r == call[c].ranks[cidx[c]] IN
  /\ cpc[c] = "get" /\ jobsMutex[r] \in {NoThread, c} /\ jobError[r]
  /\ jobsMutex' = [jobsMutex EXCEPT ![r] = c]
  /\ got' = [got EXCEPT ![c] = SubSeq(@, 1, (cidx[c] - 1) * call[c].nj)]
  /\ Goto(c, "unget")
  /\ UNCHANGED <<fifo, flags, queueMutex, rankMutex, syncMutex, sync, call, cidx, dirty, calls,
                 wpc, wrk, faults, crashed>>

\* dpu_callback looks for the rank that gives the master slot.  The lengths are
\* read without a lock, so any rank may be found the best.
ChooseMaster(c, r) ==
  /\ cpc[c] = "choose" /\ r \in Elems(call[c].ranks)
  /\ ~call[c].op.nonblocking => r = call[c].ranks[1]
  /\ call' = [call EXCEPT ![c].owner = r] /\ Goto(c, "master")
  /\ UNCHANGED <<fifo, flags, locks, sync, cidx, got, dirty, calls, wpc, wrk, faults, crashed>>

\* dpu_thread_job_get_job_unlocked for the master job; it is kept as the last
\* element of got.
GetMaster(c) ==
  LET r == call[c].owner IN
  /\ cpc[c] = "master" /\ jobsMutex[r] = NoThread
  /\ CASE jobError[r] ->
            Goto(c, "unget") /\ UNCHANGED <<available, got>>
       [] ~jobError[r] /\ available[r] = <<>> ->
            Goto(c, "waitmaster") /\ UNCHANGED <<available, got>>
       [] ~jobError[r] /\ available[r] # <<>> ->
            /\ got' = [got EXCEPT ![c] = Append(@, Head(available[r]))]
            /\ available' = Popped(r)
            /\ Goto(c, "set")
  /\ UNCHANGED <<jobs, job, list, parked, flags, locks, sync, call, cidx, dirty, calls,
                 wpc, wrk, faults, crashed>>

\* dpu_thread_job_unget_jobs, one rank: its slots go to the head of the list.
\* There is no signal.
Unget(c) ==
  LET r == RankOf(got[c][1]) IN
  /\ cpc[c] = "unget" /\ got[c] # <<>> /\ jobsMutex[r] = NoThread
  /\ available' = [available EXCEPT ![r] =
       IF call[c].nj = 1 THEN <<got[c][1]>> \o @ ELSE <<got[c][2], got[c][1]>> \o @]
  /\ got' = [got EXCEPT ![c] = SubSeq(@, call[c].nj + 1, Len(@))]
  /\ UNCHANGED <<jobs, job, list, parked, flags, locks, sync, cpc, call, cidx, dirty, calls,
                 wpc, wrk, faults, crashed>>

\* The call returns the error.
UngetDone(c) ==
  /\ cpc[c] = "unget" /\ got[c] = <<>>
  /\ jobsMutex' = [r \in Ranks |-> IF jobsMutex[r] = c THEN NoThread ELSE jobsMutex[r]]
  /\ Return(c)
  /\ UNCHANGED <<fifo, flags, queueMutex, rankMutex, syncMutex, sync, app, wpc, wrk, faults, crashed>>

\* The second of the two slots of a rank is the SYNC job.
SyncSlotFirst(i) == i % 2 = 1
SyncSlot(i) == i % 2 = 0

\* callback.sync.nr_ranks of a master job.
MasterCountOneLess(n) == n - 1
MasterCount(n) == n

\* A single-call callback of several ranks, counted in by its master job.
Single(c) == call[c].op.single /\ Len(call[c].ranks) # 1

\* What DPU_THREAD_JOB_SET_JOBS and its counterpart in dpu_callback make of slot
\* s.  callback_tid_set is read again: when it has become true, the SYNC job of
\* the only rank is not written.
Filled(c, s) ==
  LET k      == call[c]
      master == got[c][Len(got[c])]
      new(type, m, S) == [type |-> type, owner |-> c, master |-> m, set |-> S,
                          nr |-> IF m = NoSlot /\ Single(c) THEN MasterCount(Len(k.ranks)) ELSE 1,
                          sync |-> k.op.sync, nonblocking |-> k.op.nonblocking,
                          single |-> Single(c)]
      rankSet == IF k.op.single THEN k.set ELSE <<RankOf(s)>>
      i == CHOOSE i \in 1 .. Len(got[c]) : got[c][i] = s
  IN
  CASE Single(c) /\ s = master  -> new("callback", NoSlot, k.set)
    [] Single(c) /\ s # master  -> new("callback", master, k.set)
    [] ~Single(c) /\ k.nj = 1   -> new(k.op.type, NoSlot, rankSet)
    [] ~Single(c) /\ k.nj = 2 /\ ~SyncSlot(i) -> new(k.op.type, NoSlot, rankSet)
    [] ~Single(c) /\ k.nj = 2 /\ SyncSlot(i) ->
         IF SeesCallback(k.op, k.ranks) THEN job[s] ELSE new("sync", NoSlot, k.set)

\* The slots of the call are filled; the master's is not queued.
SetJobs(c) ==
  /\ cpc[c] = "set"
  /\ job' = [s \in Slots |-> IF s \in Elems(got[c]) THEN Filled(c, s) ELSE job[s]]
  /\ got' = [got EXCEPT ![c] = IF Single(c) THEN SubSeq(@, 1, Len(call[c].ranks)) ELSE @]
  /\ Goto(c, IF SeesCallback(call[c].op, call[c].ranks) THEN "do_seen" ELSE "do")
  /\ UNCHANGED <<available, jobs, list, parked, flags, locks, sync, call, cidx, dirty, calls,
                 wpc, wrk, faults, crashed>>

\* dpu_thread_job_do_jobs reads callback_tid_set once more.
DoJobs(c) ==
  /\ cpc[c] = "do"
  /\ Goto(c, IF SeesCallback(call[c].op, call[c].ranks) THEN "direct" ELSE "add")
  /\ UNCHANGED <<fifo, flags, locks, sync, app, wpc, wrk, faults, crashed>>

\* The caller has seen callback_tid_set; if it is false now, the caller works
\* on a job pointer or a sync object that was never set: undefined behaviour.
SeenAgain(c) ==
  /\ cpc[c] \in {"set_direct", "do_seen"}
  /\ IF callbackSet[call[c].ranks[1]]
       THEN Goto(c, IF cpc[c] = "set_direct" THEN "do_seen" ELSE "direct") /\ UNCHANGED crashed
       ELSE crashed' = TRUE /\ UNCHANGED cpc
  /\ UNCHANGED <<fifo, flags, locks, sync, app, wpc, wrk, faults>>

\* The job is computed by the caller under the rank's mutex, outside the FIFO.
\* Slots that get_jobs gave to the call are not returned.
Direct(c) ==
  LET r == call[c].ranks[1] IN
  /\ cpc[c] = "direct" /\ rankMutex[r] = NoThread
  /\ callbackSet' = IF call[c].op.type = "callback"
       THEN Update(callbackSet, Elems(call[c].set), FALSE) ELSE callbackSet
  /\ got' = [got EXCEPT ![c] = <<>>]
  /\ Return(c)
  /\ UNCHANGED <<fifo, jobError, shouldStop, locks, sync, call, cidx, dirty, calls,
                 wpc, wrk, faults, crashed>>

\* jobs_to_add[job_id], the job of the rank that enters the queue.
FirstJob(c) == got[c][1]

\* dpu_thread_job_add_jobs, one rank.  A rank whose FIFO was empty enters its
\* queue; the queue's mutex is taken once and kept until the end of the call.
AddJobs(c) ==
  LET r == RankOf(got[c][1])
      q == QueueIdx[r]
      first == EntersQueue(r)
  IN
  /\ cpc[c] = "add" /\ got[c] # <<>> /\ jobsMutex[r] = NoThread
  /\ IF first /\ queueMutex[q] # c
       THEN /\ jobsMutex' = [jobsMutex EXCEPT ![r] = c]
            /\ Goto(c, "addq")
            /\ UNCHANGED <<jobs, list, got>>
       ELSE /\ jobs' = [jobs EXCEPT ![r] = @ \o SubSeq(got[c], 1, call[c].nj)]
            /\ list' = IF first THEN [list EXCEPT ![q] = Append(@, FirstJob(c))] ELSE list
            /\ got' = [got EXCEPT ![c] = SubSeq(@, call[c].nj + 1, Len(@))]
            /\ UNCHANGED <<jobsMutex, cpc>>
  /\ UNCHANGED <<available, job, parked, flags, queueMutex, rankMutex, syncMutex, sync, call, cidx,
                 dirty, calls, wpc, wrk, faults, crashed>>

\* The same, once the queue's mutex is obtained under the rank's jobs_mutex.
AddFirst(c) ==
  LET r == RankOf(got[c][1])
      q == QueueIdx[r]
  IN
  /\ cpc[c] = "addq" /\ queueMutex[q] = NoThread
  /\ queueMutex' = [queueMutex EXCEPT ![q] = c]
  /\ jobsMutex' = [jobsMutex EXCEPT ![r] = NoThread]
  /\ jobs' = [jobs EXCEPT ![r] = @ \o SubSeq(got[c], 1, call[c].nj)]
  /\ list' = [list EXCEPT ![q] = Append(@, FirstJob(c))]
  /\ got' = [got EXCEPT ![c] = SubSeq(@, call[c].nj + 1, Len(@))]
  /\ Goto(c, "add")
  /\ UNCHANGED <<available, job, parked, flags, rankMutex, syncMutex, sync, call, cidx, dirty,
                 calls, wpc, wrk, faults, crashed>>

\* dpu_thread_job_wait_sync_job waits before it looks at the counter.
AfterAddLooksFirst(c) == IF call[c].op.sync /\ sync[c].nr # 0 THEN "wait" ELSE "idle"
AfterAdd(c) == IF call[c].op.sync THEN "wait" ELSE "idle"

\* Wake the workers of the queues and return, or wait on the sync object.
AddDone(c) ==
  LET synchronous == call[c].op.sync IN
  /\ cpc[c] = "add" /\ got[c] = <<>>
  /\ wpc' = Broadcast(HeldQueues(c), wpc)
  /\ queueMutex' = Update(queueMutex, HeldQueues(c), NoThread)
  /\ syncMutex' = IF synchronous THEN [syncMutex EXCEPT ![c] = NoThread] ELSE syncMutex
  /\ dirty' = IF synchronous THEN dirty ELSE [dirty EXCEPT ![c] = @ \cup Elems(call[c].ranks)]
  /\ Goto(c, AfterAdd(c))
  /\ UNCHANGED <<fifo, flags, jobsMutex, rankMutex, sync, call, cidx, got, calls, wrk, faults, crashed>>

\* dpu_thread_job_wait_sync_job after a signal.
WaitSync(c) ==
  /\ cpc[c] = "woken" /\ syncMutex[c] = NoThread
  /\ Goto(c, CASE sync[c].nr # 0 -> "wait"
               [] sync[c].nr = 0 /\ sync[c].failed -> "clear"
               [] sync[c].nr = 0 /\ ~sync[c].failed -> "idle")
  /\ dirty' = IF sync[c].nr = 0 THEN [dirty EXCEPT ![c] = @ \ Elems(call[c].ranks)] ELSE dirty
  /\ cidx' = [cidx EXCEPT ![c] = 1]
  /\ UNCHANGED <<fifo, flags, locks, sync, call, got, calls, wpc, wrk, faults, crashed>>

\* pthread_cond_wait may return without a signal.  The caller then waits again,
\* unless the counter is zero already: a worker has still to lock the mutex and
\* to signal, the call returns, and the worker uses a sync object on a stack
\* frame that is gone (undefined behaviour).
ToSignal(c) == {w \in Workers : wpc[w] \in {"signal", "drainsig"} /\ job[wjob[w]].owner = c}
ReturnEarly(c) ==
  /\ cpc[c] = "wait" /\ syncMutex[c] = NoThread /\ sync[c].nr = 0 /\ ToSignal(c) # {}
  /\ crashed' = TRUE
  /\ UNCHANGED <<fifo, flags, locks, sync, cpc, app, wpc, wrk, faults>>

\* A failed synchronous call resets job_error of its ranks, without a lock.
ClearError(c) ==
  /\ cpc[c] = "clear"
  /\ jobError' = [jobError EXCEPT ![call[c].ranks[cidx[c]]] = FALSE]
  /\ cidx' = [cidx EXCEPT ![c] = @ + 1]
  /\ Goto(c, IF cidx[c] = Len(call[c].ranks) THEN "idle" ELSE "clear")
  /\ UNCHANGED <<fifo, callbackSet, shouldStop, locks, sync, call, got, dirty, calls,
                 wpc, wrk, faults, crashed>>

\* dpu_thread_job_free: stop the workers of the set's ranks and join them.
Free(c, S) ==
  /\ cpc[c] = "idle" /\ \A q \in Queues : queueMutex[q] = NoThread
  /\ Disciplined => Elems(S) \cap dirty[c] = {}
  /\ shouldStop' = Update(shouldStop, Elems(S), TRUE)
  /\ wpc' = Broadcast(Queues, wpc)
  /\ call' = [call EXCEPT ![c].ranks = S]
  /\ Goto(c, "join")
  /\ UNCHANGED <<fifo, jobError, callbackSet, locks, sync, cidx, got, dirty, calls, wrk, faults, crashed>>

JoinedAtOnce(c) == TRUE
Joined(c) == \A w \in Workers : ThreadRank[w] \in Elems(call[c].ranks) => wpc[w] = "done"

Join(c) ==
  /\ cpc[c] = "join" /\ Joined(c)
  /\ Goto(c, "freed")
  /\ UNCHANGED <<fifo, flags, locks, sync, app, wpc, wrk, faults, crashed>>

-----------------------------------------------------------------------------
(* Workers: dpu_thread_job_fct, dpu_thread_compute_job and what they call.  *)

WGoto(w, pc) == wpc' = [wpc EXCEPT ![w] = pc]
FreeRank(r) == rankMutex' = [rankMutex EXCEPT ![r] = NoThread]
\* Back to the top of the loop; the worker's job is a dead local from here on.
MainLoop(w) == WGoto(w, "main") /\ wjob' = [wjob EXCEPT ![w] = AnySlot]

\* The top of the loop, under the queue's mutex.
WorkerStop(w) ==
  /\ wpc[w] = "main" /\ queueMutex[QueueOf(w)] = NoThread /\ shouldStop[ThreadRank[w]]
  /\ WGoto(w, "done")
  /\ UNCHANGED <<fifo, flags, locks, sync, cpc, app, wrk, faults, crashed>>

WorkerWait(w) ==
  /\ wpc[w] = "main" /\ queueMutex[QueueOf(w)] = NoThread /\ ~shouldStop[ThreadRank[w]]
  /\ list[QueueOf(w)] = <<>>
  /\ WGoto(w, "wait")
  /\ UNCHANGED <<fifo, flags, locks, sync, cpc, app, wrk, faults, crashed>>

WorkerTake(w) ==
  LET q == QueueOf(w) IN
  /\ wpc[w] = "main" /\ queueMutex[q] = NoThread /\ ~shouldStop[ThreadRank[w]]
  /\ list[q] # <<>>
  /\ wjob' = [wjob EXCEPT ![w] = Head(list[q])]
  /\ list' = [list EXCEPT ![q] = Tail(@)]
  /\ WGoto(w, "lock")
  /\ UNCHANGED <<available, jobs, job, parked, flags, locks, sync, cpc, app, wcb, widx, faults, crashed>>

\* dpu_lock_rank(job->rank)
WorkerLock(w) ==
  LET r == RankOf(wjob[w]) IN
  /\ wpc[w] = "lock" /\ rankMutex[r] = NoThread
  /\ rankMutex' = [rankMutex EXCEPT ![r] = w]
  /\ WGoto(w, "compute")
  /\ UNCHANGED <<fifo, flags, jobsMutex, queueMutex, syncMutex, sync, cpc, app, wrk, faults, crashed>>

\* Launches, copies and loads: they succeed or fail.
ComputeWork(w, ok) ==
  /\ wpc[w] = "compute" /\ job[wjob[w]].type = "work"
  /\ ok \/ faults < MaxFaults
  /\ faults' = IF ok THEN faults ELSE faults + 1
  /\ WGoto(w, IF ok THEN "advance" ELSE "update")
  /\ UNCHANGED <<fifo, flags, locks, sync, cpc, app, wrk, crashed>>

\* do_sync_job: the decrement is atomic, the signal is a step of its own.
ComputeSync(w) ==
  LET c == job[wjob[w]].owner IN
  /\ wpc[w] = "compute" /\ job[wjob[w]].type = "sync"
  /\ sync' = [sync EXCEPT ![c].nr = @ - 1]
  /\ WGoto(w, IF sync[c].nr = 1 THEN "signal" ELSE "advance")
  /\ UNCHANGED <<fifo, flags, locks, cpc, app, wrk, faults, crashed>>

Signal(w) ==
  LET c == job[wjob[w]].owner IN
  /\ wpc[w] = "signal" /\ syncMutex[c] = NoThread
  /\ cpc' = SyncSignal(c, cpc)
  /\ WGoto(w, "advance")
  /\ UNCHANGED <<fifo, flags, locks, sync, app, wrk, faults, crashed>>

\* dpu_thread_advance_to_next_job and the loop over the FIFO.
Advance(w) ==
  LET r == RankOf(wjob[w])
      next == Tail(jobs[r])
  IN
  /\ wpc[w] = "advance" /\ jobsMutex[r] = NoThread
  /\ jobs' = [jobs EXCEPT ![r] = next]
  /\ available' = Released(Head(jobs[r])) /\ cpc' \in SlotSignal(Head(jobs[r]))
  /\ IF next = <<>>
       THEN FreeRank(r) /\ MainLoop(w)
       ELSE wjob' = [wjob EXCEPT ![w] = Head(next)] /\ WGoto(w, "compute") /\ UNCHANGED rankMutex
  /\ UNCHANGED <<job, list, parked, flags, jobsMutex, queueMutex, syncMutex, sync, app, wcb, widx,
                 faults, crashed>>

\* A rank that is not the last of a blocking single-call callback leaves its FIFO.
Parks(cb) == cb.single /\ ~cb.nonblocking /\ ~cb.sync

\* A callback job counts its rank in.  The last rank runs the function; the
\* others leave their FIFO when the callback is single-call and blocking.
ComputeCallback(w) ==
  LET j == wjob[w]
      r == RankOf(j)
      m == IF job[j].master = NoSlot THEN j ELSE job[j].master
      cb == job[m]
  IN
  /\ wpc[w] = "compute" /\ job[j].type = "callback"
  /\ job' = [job EXCEPT ![m].nr = @ - 1]
  /\ IF cb.nr = 1
       THEN /\ wcb' = [wcb EXCEPT ![w] =
                 [set |-> cb.set, master |-> job[j].master, sync |-> cb.sync,
                  nonblocking |-> cb.nonblocking, single |-> cb.single, failed |-> FALSE]]
            /\ widx' = [widx EXCEPT ![w] = 1]
            /\ CASE cb.nonblocking ->
                      WGoto(w, "cbadvance") /\ FreeRank(r) /\ UNCHANGED callbackSet
                 [] ~cb.nonblocking /\ cb.single ->
                      WGoto(w, "cblock") /\ UNCHANGED <<rankMutex, callbackSet>>
                 [] ~cb.nonblocking /\ ~cb.single ->
                      /\ callbackSet' = Update(callbackSet, Elems(cb.set), TRUE)
                      /\ WGoto(w, "cbrun") /\ UNCHANGED rankMutex
            /\ UNCHANGED <<parked, wjob>>
       ELSE /\ IF Parks(cb)
                 THEN FreeRank(r) /\ parked' = [parked EXCEPT ![r] = TRUE] /\ MainLoop(w)
                 ELSE UNCHANGED <<rankMutex, parked, wjob>> /\ WGoto(w, "advance")
            /\ UNCHANGED <<wcb, widx, callbackSet>>
  /\ UNCHANGED <<available, jobs, list, jobError, shouldStop, jobsMutex, queueMutex, syncMutex,
                 sync, cpc, app, faults, crashed>>

\* Nonblocking callback: give the rest of the FIFO back before the function
\* runs (dpu_thread_advance_to_next_job, then dpu_thread_insert_rank_list).
CallbackAdvance(w) ==
  LET r == RankOf(wjob[w])
      next == Tail(jobs[r])
  IN
  /\ wpc[w] = "cbadvance" /\ jobsMutex[r] = NoThread
  /\ jobs' = [jobs EXCEPT ![r] = next]
  /\ available' = Released(Head(jobs[r])) /\ cpc' \in SlotSignal(Head(jobs[r]))
  /\ IF next = <<>>
       THEN WGoto(w, "cbrun") /\ UNCHANGED wjob
       ELSE WGoto(w, "cbinsert") /\ wjob' = [wjob EXCEPT ![w] = Head(next)]
  /\ UNCHANGED <<job, list, parked, flags, locks, sync, app, wcb, widx, faults, crashed>>

CallbackInsert(w) ==
  LET q == QueueIdx[RankOf(wjob[w])] IN
  /\ wpc[w] = "cbinsert" /\ queueMutex[q] = NoThread
  /\ list' = [list EXCEPT ![q] = Append(@, wjob[w])]
  /\ wpc' = Broadcast({q}, [wpc EXCEPT ![w] = "cbrun"])
  /\ UNCHANGED <<available, jobs, job, parked, flags, locks, sync, cpc, app, wrk, faults, crashed>>

\* Blocking single-call callback: lock every rank of the set (the mutexes are
\* recursive, the worker's own rank is already locked).
CallbackLock(w) ==
  LET S == wcb[w].set
      r == S[widx[w]]
  IN
  /\ wpc[w] = "cblock" /\ rankMutex[r] \in {NoThread, w}
  /\ rankMutex' = [rankMutex EXCEPT ![r] = w]
  /\ widx' = [widx EXCEPT ![w] = @ + 1]
  /\ IF widx[w] = Len(S)
       THEN callbackSet' = Update(callbackSet, Elems(S), TRUE) /\ WGoto(w, "cbrun")
       ELSE UNCHANGED <<callbackSet, wpc>>
  /\ UNCHANGED <<fifo, jobError, shouldStop, jobsMutex, queueMutex, syncMutex, sync, cpc, app,
                 wjob, wcb, faults, crashed>>

\* Where the worker goes once the callback is over: a nonblocking callback has
\* no FIFO left, and its status is dropped.
AfterCallback(cb) ==
  CASE cb.nonblocking -> "main"
    [] ~cb.nonblocking /\ cb.failed -> "update"
    [] ~cb.nonblocking /\ ~cb.failed -> "advance"

\* The user's function returns; locks and flags of a blocking callback go.
CallbackReturn(w, ok) ==
  LET cb == wcb[w]
      own == RankOf(wjob[w])
      held == IF cb.single /\ ~cb.nonblocking THEN Elems(cb.set) \ {own} ELSE {}
  IN
  /\ wpc[w] = "cbrun"
  /\ ok \/ faults < MaxFaults
  /\ faults' = IF ok THEN faults ELSE faults + 1
  /\ wcb' = [wcb EXCEPT ![w].failed = ~ok]
  /\ widx' = [widx EXCEPT ![w] = 1]
  /\ callbackSet' = IF cb.nonblocking THEN callbackSet ELSE Update(callbackSet, Elems(cb.set), FALSE)
  /\ rankMutex' = Update(rankMutex, held, NoThread)
  /\ WGoto(w, CASE cb.single /\ ~cb.nonblocking /\ ~cb.sync -> "block"
                [] ~(cb.single /\ ~cb.nonblocking /\ ~cb.sync) /\ cb.master # NoSlot -> "relmaster"
                [] cb.master = NoSlot -> AfterCallback([cb EXCEPT !.failed = ~ok]))
  /\ UNCHANGED <<fifo, jobError, shouldStop, jobsMutex, queueMutex, syncMutex, sync, cpc, app,
                 wjob, crashed>>

\* dpu_thread_handle_global_block: every other rank of the set advances and
\* enters its queue, under the queue's mutex.
BlockSkip(w) ==
  /\ wpc[w] = "block" /\ widx[w] <= Len(wcb[w].set) /\ wcb[w].set[widx[w]] = RankOf(wjob[w])
  /\ widx' = [widx EXCEPT ![w] = @ + 1]
  /\ UNCHANGED <<fifo, flags, locks, sync, cpc, app, wpc, wjob, wcb, faults, crashed>>

BlockLock(w) ==
  LET r == wcb[w].set[widx[w]]
      q == QueueIdx[r]
  IN
  /\ wpc[w] = "block" /\ widx[w] <= Len(wcb[w].set) /\ r # RankOf(wjob[w])
  /\ queueMutex[q] = NoThread
  /\ queueMutex' = [queueMutex EXCEPT ![q] = w]
  /\ UNCHANGED <<fifo, flags, jobsMutex, rankMutex, syncMutex, sync, cpc, app, wpc, wrk, faults, crashed>>

\* The next job is inserted without a test: there may be none (NULL).
BlockAdvance(w) ==
  LET r == wcb[w].set[widx[w]]
      q == QueueIdx[r]
      next == Tail(jobs[r])
  IN
  /\ wpc[w] = "block" /\ widx[w] <= Len(wcb[w].set) /\ r # RankOf(wjob[w])
  /\ queueMutex[q] = w /\ jobsMutex[r] = NoThread
  /\ jobs' = [jobs EXCEPT ![r] = next]
  /\ available' = Released(Head(jobs[r])) /\ cpc' \in SlotSignal(Head(jobs[r]))
  /\ parked' = [parked EXCEPT ![r] = FALSE]
  /\ IF next = <<>>
       THEN crashed' = TRUE /\ UNCHANGED list
       ELSE list' = [list EXCEPT ![q] = Append(@, Head(next))] /\ UNCHANGED crashed
  /\ widx' = [widx EXCEPT ![w] = @ + 1]
  /\ UNCHANGED <<job, flags, locks, sync, app, wpc, wjob, wcb, faults>>

BlockDone(w) ==
  /\ wpc[w] = "block" /\ widx[w] > Len(wcb[w].set)
  /\ wpc' = Broadcast(HeldQueues(w), [wpc EXCEPT ![w] = "relmaster"])
  /\ queueMutex' = Update(queueMutex, HeldQueues(w), NoThread)
  /\ UNCHANGED <<fifo, flags, jobsMutex, rankMutex, syncMutex, sync, cpc, app, wrk, faults, crashed>>

\* The master job goes back to the free list of its slot_owner.
ReleaseMaster(w) ==
  LET m == wcb[w].master IN
  /\ wpc[w] = "relmaster" /\ jobsMutex[RankOf(m)] = NoThread
  /\ available' = Released(m) /\ cpc' \in SlotSignal(m)
  /\ WGoto(w, AfterCallback(wcb[w]))
  /\ UNCHANGED <<jobs, job, list, parked, flags, locks, sync, app, wrk, faults, crashed>>

\* dpu_thread_update_status: record the error, then empty the FIFO; a SYNC job
\* gets the error and is counted, any other job is only discarded.
UpdateStatus(w) ==
  LET r == RankOf(wjob[w]) IN
  /\ wpc[w] = "update" /\ jobsMutex[r] = NoThread
  /\ jobsMutex' = [jobsMutex EXCEPT ![r] = w]
  /\ jobError' = [jobError EXCEPT ![r] = TRUE]
  /\ WGoto(w, "drain")
  /\ UNCHANGED <<fifo, callbackSet, shouldStop, queueMutex, rankMutex, syncMutex, sync, cpc, app,
                 wrk, faults, crashed>>

Drain(w) ==
  LET r == RankOf(wjob[w])
      s == Head(jobs[r])
  IN
  /\ wpc[w] = "drain" /\ jobs[r] # <<>> /\ job[s].type # "sync"
  /\ jobs' = [jobs EXCEPT ![r] = Tail(@)]
  /\ available' = Released(s) /\ cpc' \in SlotSignal(s)
  /\ UNCHANGED <<job, list, parked, flags, locks, sync, app, wpc, wrk, faults, crashed>>

DrainSync(w) ==
  LET r == RankOf(wjob[w])
      s == Head(jobs[r])
      c == job[s].owner
  IN
  /\ wpc[w] = "drain" /\ jobs[r] # <<>> /\ job[s].type = "sync" /\ syncMutex[c] = NoThread
  /\ jobs' = [jobs EXCEPT ![r] = Tail(@)]
  /\ sync' = [sync EXCEPT ![c] = [nr |-> @.nr - 1, failed |-> TRUE]]
  /\ IF sync[c].nr = 1
       THEN WGoto(w, "drainsig") /\ wjob' = [wjob EXCEPT ![w] = s] /\ UNCHANGED <<available, cpc>>
       ELSE available' = Released(s) /\ cpc' \in SlotSignal(s) /\ UNCHANGED <<wpc, wjob>>
  /\ UNCHANGED <<job, list, parked, flags, locks, app, wcb, widx, faults, crashed>>

DrainSignal(w) ==
  LET s == wjob[w]
      c == job[s].owner
  IN
  /\ wpc[w] = "drainsig" /\ syncMutex[c] = NoThread
  /\ available' = Released(s)
  /\ \E pcs \in SlotSignal(s) : cpc' = SyncSignal(c, pcs)
  /\ WGoto(w, "drain")
  /\ UNCHANGED <<jobs, job, list, parked, flags, locks, sync, app, wrk, faults, crashed>>

DrainDone(w) ==
  LET r == RankOf(wjob[w]) IN
  /\ wpc[w] = "drain" /\ jobs[r] = <<>>
  /\ jobsMutex' = [jobsMutex EXCEPT ![r] = NoThread]
  /\ FreeRank(r) /\ MainLoop(w)
  /\ UNCHANGED <<fifo, flags, queueMutex, syncMutex, sync, cpc, app, wcb, widx, faults, crashed>>

-----------------------------------------------------------------------------
CallerStep(c) ==
  \/ GetJob(c) \/ GetWait(c) \/ GetFail(c)
  \/ \E r \in Ranks : ChooseMaster(c, r)
  \/ GetMaster(c) \/ Unget(c) \/ UngetDone(c)
  \/ SetJobs(c) \/ DoJobs(c) \/ SeenAgain(c) \/ Direct(c)
  \/ AddJobs(c) \/ AddFirst(c) \/ AddDone(c)
  \/ WaitSync(c) \/ ClearError(c) \/ Join(c)

WorkerStep(w) ==
  \/ WorkerStop(w) \/ WorkerWait(w) \/ WorkerTake(w) \/ WorkerLock(w)
  \/ \E ok \in BOOLEAN : ComputeWork(w, ok) \/ CallbackReturn(w, ok)
  \/ ComputeSync(w) \/ Signal(w) \/ Advance(w)
  \/ ComputeCallback(w) \/ CallbackAdvance(w) \/ CallbackInsert(w) \/ CallbackLock(w)
  \/ BlockSkip(w) \/ BlockLock(w) \/ BlockAdvance(w) \/ BlockDone(w) \/ ReleaseMaster(w)
  \/ UpdateStatus(w) \/ Drain(w) \/ DrainSync(w) \/ DrainSignal(w) \/ DrainDone(w)

Next ==
  \/ ~crashed /\ \E c \in Callers :
        \/ CallerStep(c) \/ ReturnEarly(c) \/ \E S \in Allocated : Free(c, S)
        \/ \E op \in Ops, S \in Sets : Call(c, op, S)
  \/ ~crashed /\ \E w \in Workers : WorkerStep(w)

\* Every thread that can run is eventually scheduled, user callbacks and jobs
\* end; nothing obliges the application to make another call.
Fairness ==
  /\ \A c \in Callers : WF_vars(~crashed /\ CallerStep(c))
  /\ \A w \in Workers : WF_vars(~crashed /\ WorkerStep(w))

Spec == Init /\ [][Next]_vars /\ Fairness

-----------------------------------------------------------------------------
(* Properties.                                                             *)

NoDuplicate(s) == \A i, j \in 1 .. Len(s) : s[i] = s[j] => i = j

\* The callback job t has counted its rank in and does not touch its master again.
CountedIn(t) ==
  \/ parked[RankOf(t)] /\ Head(jobs[RankOf(t)]) = t
  \/ \E w \in Workers : wjob[w] = t /\ wpc[w] \in {"advance", "update", "drain"}

\* Masters of callbacks in flight: named by a job that has yet to count its
\* rank in, by a job about to be queued, or by the worker that runs the callback.
Referenced(s) ==
  \/ \E r \in Ranks : \E t \in Elems(jobs[r]) :
       job[t].type = "callback" /\ job[t].master = s /\ ~CountedIn(t)
  \/ \E c \in Callers : /\ cpc[c] \in {"do", "do_seen", "add", "addq"}
                        /\ \E t \in Elems(got[c]) : job[t].type = "callback" /\ job[t].master = s
  \/ \E w \in Workers : /\ wpc[w] \in {"cbadvance", "cbinsert", "cblock", "cbrun", "block", "relmaster"}
                        /\ wcb[w].master = s

\* The places a slot is in.
Owners(s) ==
  {<<"free", r>> : r \in {r \in Ranks : s \in Elems(available[r])}}
  \cup {<<"fifo", r>> : r \in {r \in Ranks : s \in Elems(jobs[r])}}
  \cup {<<"caller", c>> : c \in {c \in Callers : s \in Elems(got[c])}}
  \cup {<<"worker", w>> : w \in {w \in Workers : wpc[w] = "drainsig" /\ wjob[w] = s}}
  \cup (IF Referenced(s) THEN {<<"master", s>>} ELSE {})

\* Every slot is in one place: never free while queued, queued twice or given
\* to two callers, the master of a running callback is not reused, and no slot
\* of a rank that works is lost: get/unget, advance, the error path and the
\* callbacks give back every slot they took.
NoSlotLost == \A s \in Slots : Owners(s) # {} \/ jobError[RankOf(s)]
SlotsExclusive ==
  /\ \A s \in Slots : Cardinality(Owners(s)) <= 1
  /\ \A r \in Ranks : NoDuplicate(available[r]) /\ NoDuplicate(jobs[r])
SlotsConserved == SlotsExclusive /\ NoSlotLost

\* Workers that own the FIFO of the rank of their job.
Busy(w) ==
  \/ wpc[w] \in {"lock", "compute", "advance", "signal", "update", "drain", "drainsig",
                 "cbadvance", "cbinsert", "cblock", "block"}
  \/ wpc[w] \in {"cbrun", "relmaster"} /\ ~wcb[w].nonblocking

\* Where rank r is in queue q, and in the queues.
Places(q, r) == {q} \X {i \in 1 .. Len(list[q]) : RankOf(list[q][i]) = r}
Queued(r) == UNION {Places(q, r) : q \in Queues}

Carriers(r) ==
  Queued(r)
  \cup {w \in Workers : Busy(w) /\ RankOf(wjob[w]) = r}
  \cup (IF parked[r] THEN {r} ELSE {})

\* A FIFO that holds jobs is carried exactly once: its rank is in its queue, or
\* one worker runs it, or a blocking callback has parked it.  So no two workers
\* run one rank and no rank with work is forgotten.
OneCarrier ==
  \A r \in Ranks :
    /\ Cardinality(Carriers(r)) <= 1
    /\ jobs[r] # <<>> /\ ~crashed => Carriers(r) # {}

Completed(c) == cpc[c] = "woken" /\ sync[c].nr = 0

\* When a synchronous call completes, no earlier job of the caller is left in
\* the FIFOs of its ranks.
SyncDrains ==
  \A c \in Callers : Completed(c) =>
    \A r \in Elems(call[c].ranks) : \A s \in Elems(jobs[r]) :
      job[s].owner = c => job[s].type = "sync"

\* A sync object lives on the stack of its caller: as long as a worker or a
\* queued job can still reach it, the caller has not returned.  It holds up to
\* one case, ReturnEarly, which ends the behaviour: a spurious wake-up between
\* the decrement and the lock of do_sync_job.
SyncObjectLive ==
  ~crashed =>
    /\ \A w \in Workers : wpc[w] \in {"signal", "drainsig"} =>
         cpc[job[wjob[w]].owner] \in {"add", "addq", "wait"}
    /\ \A r \in Ranks : \A s \in Elems(jobs[r]) :
         /\ job[s].type = "sync"
         /\ \A w \in Workers : wpc[w] = "advance" => wjob[w] # s
         => cpc[job[s].owner] \in {"add", "addq", "wait"}

\* While a blocking asynchronous callback runs, no other worker runs a rank of
\* its set.
BlockingExcludes ==
  \A w \in Workers : wpc[w] = "cbrun" /\ ~wcb[w].nonblocking /\ ~wcb[w].sync =>
    \A v \in Workers : v # w /\ Busy(v) => RankOf(wjob[v]) \notin Elems(wcb[w].set)

\* As long as no callback fails, callbacks too give back every slot, the master's
\* included, and a synchronous call waits for the caller's callbacks.
CallbackSlots == faults = 0 => NoSlotLost /\ SyncDrains

\* Once dpu_free has joined the workers of a set, its ranks are in no queue and
\* have no job to run.  The workers of other sets are not joined: one that shares
\* the queue may still be leaving a freed rank, after the SYNC job that was the
\* last one of its FIFO (and then gives a slot back to a table that is freed).
Leaves(w) == wpc[w] \in {"advance", "drain"}
FreedQuiescent ==
  \A c \in Callers : cpc[c] = "freed" => \A r \in Elems(call[c].ranks) :
    /\ Queued(r) = {} /\ ~parked[r] /\ Len(jobs[r]) <= 1
    /\ \A w \in Workers : Busy(w) /\ RankOf(wjob[w]) = r =>
         Leaves(w) /\ ThreadRank[w] \notin Elems(call[c].ranks)
    /\ jobs[r] # <<>> => \E w \in Workers : wpc[w] = "advance" /\ wjob[w] = jobs[r][1]

\* Every API call returns.
CallsReturn ==
  \A c \in Callers : cpc[c] \notin {"idle", "freed"} ~> (cpc[c] \in {"idle", "freed"} \/ crashed)

\* With callbacks, as long as none of them fails (a single-call callback that
\* fails leaves ranks parked): every call returns and every FIFO is run, over
\* the blocking, nonblocking and single-call ways through compute_callback.
CallbacksReturn ==
  /\ \A c \in Callers : cpc[c] \notin {"idle", "freed"} ~> (cpc[c] \in {"idle", "freed"} \/ crashed \/ faults > 0)
  /\ \A r \in Ranks : jobs[r] # <<>> ~> (jobs[r] = <<>> \/ crashed \/ shouldStop[r] \/ faults > 0)
=============================================================================
