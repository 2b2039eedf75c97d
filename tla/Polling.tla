------------------------------- MODULE Polling -------------------------------
(***************************************************************************)
(* One polling thread (api/src/api/dpu_polling.c) and the threads that     *)
(* launch DPUs of the ranks it watches (api/src/dpu_runner.c, and the      *)
(* LAUNCH jobs of dpu_thread_job.c).  A launcher boots DPUs, tells the     *)
(* polling thread, and sleeps on the rank's poll_cond; the polling thread  *)
(* reads nb_dpu_running without a lock, polls the rank under its mutex if  *)
(* trylock obtains it, and wakes the sleepers when DPUs have stopped.  A   *)
(* rank is freed under its mutex and leaves the list of ranks under the    *)
(* writer side of the list's lock (dpu_rank_handler_allocator.c).          *)
(*                                                                         *)
(* The DPUs are the environment: a running DPU stops or faults by itself.  *)
(***************************************************************************)
EXTENDS Naturals, FiniteSets

CONSTANTS
  Ranks,
  Dpus,        \* enabled DPUs of every rank
  Launchers,   \* threads that execute LAUNCH jobs
  LRank,       \* launcher -> the rank it works on
  Targets,     \* what a launch names: Dpus (dpu_launch on ranks) or one DPU
  MaxLaunches, \* bound: launches per launcher
  MaxFailures, \* bound: hardware accesses that fail and spurious wake-ups
  Nobody       \* owner of a free mutex; no current rank

\* The jobs of a rank are executed one at a time (ThreadJob!OneCarrier).
ASSUME LaunchersAssumption ==
  LRank \in [Launchers -> Ranks] /\ \A k, l \in Launchers : LRank[k] = LRank[l] => k = l
ASSUME TargetsAssumption ==
  /\ Dpus # {} /\ IsFiniteSet(Dpus)
  /\ \A T \in Targets : T = Dpus \/ \E d \in Dpus : T = {d}
ASSUME NobodyAssumption == Nobody \notin Launchers \cup Ranks /\ Launchers \cap Ranks = {}
ASSUME BoundsAssumption == MaxLaunches \in Nat /\ MaxFailures \in Nat

VARIABLES
  hwRunning, hwFault,     \* rank -> DPUs that run, that are in fault
  dpuRunning, dpuInFault, \* rank -> run_context, as of the last poll or boot
  pollFailed,             \* rank -> run_context.poll_status # DPU_OK
  rankMutex,              \* rank -> owner: a launcher, the rank itself when freed, Nobody
  listed,                 \* rank -> in dpu_rank_handler_dpu_rank_list
  isDpuRunning, isRunning,\* fields of struct polling_thread
  ppc, todo, cur, nbRead, oneRankRunning, \* polling thread and its locals
  lpc, target, status, seen, launches,    \* launchers and their locals
  failures

hw   == <<hwRunning, hwFault>>
ctx  == <<dpuRunning, dpuInFault, pollFailed>>
poll == <<todo, cur, nbRead, oneRankRunning>>
lnch == <<target, status, seen, launches>>
vars == <<hw, ctx, rankMutex, listed, isDpuRunning, isRunning, ppc, poll, lpc, lnch, failures>>

TypeOK ==
  /\ hwRunning \in [Ranks -> SUBSET Dpus] /\ hwFault \in [Ranks -> SUBSET Dpus]
  /\ dpuRunning \in [Ranks -> SUBSET Dpus] /\ dpuInFault \in [Ranks -> SUBSET Dpus]
  /\ pollFailed \in [Ranks -> BOOLEAN] /\ listed \in [Ranks -> BOOLEAN]
  /\ rankMutex \in [Ranks -> Launchers \cup Ranks \cup {Nobody}]
  /\ isDpuRunning \in BOOLEAN /\ isRunning \in BOOLEAN /\ oneRankRunning \in BOOLEAN
  /\ ppc \in {"head", "top", "wait", "enter", "scan", "try", "stopped"}
  /\ todo \in SUBSET Ranks /\ cur \in Ranks \cup {Nobody} /\ nbRead \in Nat
  /\ ppc = "try" => cur \in todo /\ nbRead > 0
  /\ lpc \in [Launchers -> {"idle", "boot", "notify", "sync", "wait", "woken"}]
  /\ target \in [Launchers -> SUBSET Dpus]
  /\ status \in [Launchers -> {"ok", "fault", "poll_error", "already_running", "boot_error"}]
  /\ seen \in [Launchers -> SUBSET Dpus]
  /\ launches \in [Launchers -> Nat] /\ failures \in Nat

Init ==
  /\ hwRunning = [r \in Ranks |-> {}] /\ hwFault = [r \in Ranks |-> {}]
  /\ dpuRunning = [r \in Ranks |-> {}] /\ dpuInFault = [r \in Ranks |-> {}]
  /\ pollFailed = [r \in Ranks |-> FALSE] /\ listed = [r \in Ranks |-> TRUE]
  /\ rankMutex = [r \in Ranks |-> Nobody]
  /\ isDpuRunning = FALSE /\ isRunning = TRUE /\ oneRankRunning = FALSE
  /\ ppc = "head" /\ todo = {} /\ cur = Nobody /\ nbRead = 0
  /\ lpc = [l \in Launchers |-> "idle"] /\ target = [l \in Launchers |-> {}]
  /\ status = [l \in Launchers |-> "ok"] /\ seen = [l \in Launchers |-> {}]
  /\ launches = [l \in Launchers |-> 0] /\ failures = 0

-----------------------------------------------------------------------------
(* The hardware.                                                           *)

DpuStops(r, d) ==
  /\ d \in hwRunning[r]
  /\ hwRunning' = [hwRunning EXCEPT ![r] = @ \ {d}]
  /\ UNCHANGED <<hwFault, ctx, rankMutex, listed, isDpuRunning, isRunning, ppc, poll, lpc, lnch, failures>>

DpuFaults(r, d) ==
  /\ d \in hwRunning[r] /\ d \notin hwFault[r]
  /\ hwRunning' = [hwRunning EXCEPT ![r] = @ \ {d}]
  /\ hwFault' = [hwFault EXCEPT ![r] = @ \cup {d}]
  /\ UNCHANGED <<ctx, rankMutex, listed, isDpuRunning, isRunning, ppc, poll, lpc, lnch, failures>>

-----------------------------------------------------------------------------
(* dpu_poll_rank, by whoever holds the rank's mutex.                       *)

PolledRunning(r) == hwRunning[r] \ hwFault[r]
Polls(r) ==
  /\ dpuRunning' = [dpuRunning EXCEPT ![r] = PolledRunning(r)]
  /\ dpuInFault' = [dpuInFault EXCEPT ![r] = hwFault[r]]
Mishap == failures < MaxFailures /\ failures' = failures + 1

\* pthread_cond_broadcast(&rank->api.poll_cond)
BroadcastMissing(r) == lpc
Broadcast(r) == [l \in Launchers |-> IF lpc[l] = "wait" /\ LRank[l] = r THEN "woken" ELSE lpc[l]]

-----------------------------------------------------------------------------
(* Launchers: dpu_boot_rank/dpu_boot_dpu, polling_thread_set_dpu_running,   *)
(* dpu_sync_rank/dpu_sync_dpu.                                             *)

LGoto(l, pc) == lpc' = [lpc EXCEPT ![l] = pc]
Unlock(r) == rankMutex' = [rankMutex EXCEPT ![r] = Nobody]

\* The launch returns st and the mutex is released.
Returns(l, st) ==
  /\ status' = [status EXCEPT ![l] = st]
  /\ LGoto(l, "idle") /\ Unlock(LRank[l])

\* The thread locks the rank and checks that the target does not run yet.
Launch(l, T) ==
  LET r == LRank[l] IN
  /\ lpc[l] = "idle" /\ launches[l] < MaxLaunches /\ rankMutex[r] = Nobody /\ listed[r]
  /\ launches' = [launches EXCEPT ![l] = @ + 1]
  /\ target' = [target EXCEPT ![l] = T]
  /\ seen' = [seen EXCEPT ![l] = {}]
  /\ IF dpuRunning[r] \cap T # {}
       THEN status' = [status EXCEPT ![l] = "already_running"] /\ UNCHANGED <<lpc, rankMutex>>
       ELSE /\ status' = [status EXCEPT ![l] = "ok"]
            /\ rankMutex' = [rankMutex EXCEPT ![r] = l] /\ LGoto(l, "boot")
  /\ UNCHANGED <<hw, ctx, listed, isDpuRunning, isRunning, ppc, poll, failures>>

\* The rank is polled and the boot thread of the target started; a DPU in fault
\* (nothing here clears a fault) is counted as running, but does not run.
Boot(l) ==
  LET r == LRank[l] IN
  /\ lpc[l] = "boot"
  /\ hwRunning' = [hwRunning EXCEPT ![r] = @ \cup (target[l] \ hwFault[r])]
  /\ dpuRunning' = [dpuRunning EXCEPT ![r] =
       IF target[l] = Dpus THEN Dpus ELSE PolledRunning(r) \cup target[l]]
  /\ dpuInFault' = [dpuInFault EXCEPT ![r] = hwFault[r]]
  /\ LGoto(l, "notify")
  /\ UNCHANGED <<hwFault, pollFailed, rankMutex, listed, isDpuRunning, isRunning, ppc, poll,
                 lnch, failures>>

\* The poll fails, or the command that starts the thread: some DPUs may run, none
\* is recorded.  The launch returns an error.
BootFails(l) ==
  LET r == LRank[l] IN
  /\ lpc[l] = "boot" /\ Mishap
  /\ \/ UNCHANGED <<hwRunning, dpuRunning, dpuInFault>>
     \/ /\ Polls(r)
        /\ \E S \in SUBSET (target[l] \ hwFault[r]) :
             hwRunning' = [hwRunning EXCEPT ![r] = @ \cup S]
  /\ Returns(l, "boot_error")
  /\ UNCHANGED <<hwFault, pollFailed, listed, isDpuRunning, isRunning, ppc, poll, target, seen, launches>>

\* polling_thread_set_dpu_running
Notify(l) ==
  /\ lpc[l] = "notify"
  /\ isDpuRunning' = TRUE
  /\ ppc' = IF ppc = "wait" THEN "enter" ELSE ppc
  /\ LGoto(l, "sync")
  /\ UNCHANGED <<hw, ctx, rankMutex, listed, isRunning, poll, lnch, failures>>

\* dpu_check_fault_rank
CheckedPollOnly(r, st, known) == IF pollFailed[r] THEN "poll_error" ELSE st
Checked(r, st, known) ==
  CASE pollFailed[r] -> "poll_error"
    [] ~pollFailed[r] /\ known # dpuInFault[r] -> "fault"
    [] ~pollFailed[r] /\ known = dpuInFault[r] -> st

\* What the loop of dpu_sync_rank (any DPU runs and no poll error) or of
\* dpu_sync_dpu (its DPU runs) waits for.
MustWaitUntilFault(l) ==
  LET r == LRank[l] IN
  IF target[l] = Dpus
    THEN dpuRunning[r] # {} /\ status[l] = "ok"
    ELSE dpuRunning[r] \cap target[l] # {} /\ dpuInFault[r] = {}
MustWait(l) ==
  LET r == LRank[l] IN
  IF target[l] = Dpus
    THEN dpuRunning[r] # {} /\ status[l] \in {"ok", "fault"}
    ELSE dpuRunning[r] \cap target[l] # {}

\* The status of the launch when the loop is over.
Result(l) ==
  LET r == LRank[l] IN
  IF target[l] = Dpus THEN Checked(r, status[l], seen[l])
  ELSE IF dpuInFault[r] \cap target[l] # {} THEN "fault" ELSE "ok"

\* Test the loop's condition, then sleep (the mutex is released) or return.
Sync(l) ==
  /\ lpc[l] = "sync"
  /\ IF MustWait(l)
       THEN LGoto(l, "wait") /\ Unlock(LRank[l]) /\ UNCHANGED status
       ELSE Returns(l, Result(l))
  /\ UNCHANGED <<hw, ctx, listed, isDpuRunning, isRunning, ppc, poll, target, seen, launches, failures>>

\* Woken on poll_cond: take the mutex again and note new faults.
Woken(l) ==
  LET r == LRank[l] IN
  /\ lpc[l] = "woken" /\ rankMutex[r] = Nobody
  /\ rankMutex' = [rankMutex EXCEPT ![r] = l]
  /\ IF target[l] = Dpus
       THEN /\ status' = [status EXCEPT ![l] = Checked(r, @, seen[l])]
            /\ seen' = [seen EXCEPT ![l] = IF pollFailed[r] THEN @ ELSE dpuInFault[r]]
       ELSE UNCHANGED <<status, seen>>
  /\ LGoto(l, "sync")
  /\ UNCHANGED <<hw, ctx, listed, isDpuRunning, isRunning, ppc, poll, target, launches, failures>>

\* pthread_cond_wait may return without a signal, but not for ever.
SpuriousWakeup(l) ==
  /\ lpc[l] = "wait" /\ LGoto(l, "woken") /\ Mishap
  /\ UNCHANGED <<hw, ctx, rankMutex, listed, isDpuRunning, isRunning, ppc, poll, lnch>>

-----------------------------------------------------------------------------
(* The polling thread: polling_thread_fct and polling_thread_rank.         *)

\* The loop's test, without a lock.
LoopTest ==
  /\ ppc = "head"
  /\ ppc' = IF isRunning THEN "top" ELSE "stopped"
  /\ UNCHANGED <<hw, ctx, rankMutex, listed, isDpuRunning, isRunning, poll, lpc, lnch, failures>>

MaySleepIgnoringFlag == ~oneRankRunning /\ isRunning
MaySleep == ~isDpuRunning /\ ~oneRankRunning /\ isRunning

\* Under the thread's mutex: sleep, or consume the reasons not to.
Decide ==
  /\ ppc = "top"
  /\ IF MaySleep
       THEN ppc' = "wait" /\ UNCHANGED <<isDpuRunning, oneRankRunning>>
       ELSE ppc' = "enter" /\ isDpuRunning' = FALSE /\ oneRankRunning' = FALSE
  /\ UNCHANGED <<hw, ctx, rankMutex, listed, isRunning, todo, cur, nbRead, lpc, lnch, failures>>

SpuriousPoll ==
  /\ ppc = "wait" /\ ppc' = "enter"
  /\ UNCHANGED <<hw, ctx, rankMutex, listed, isDpuRunning, isRunning, poll, lpc, lnch, failures>>

\* dpu_rank_handler_start_iteration: the reader side of the list's lock.
StartIteration ==
  /\ ppc = "enter"
  /\ todo' = {r \in Ranks : listed[r]}
  /\ ppc' = "scan"
  /\ UNCHANGED <<hw, ctx, rankMutex, listed, isDpuRunning, isRunning, cur, nbRead,
                 oneRankRunning, lpc, lnch, failures>>

\* The unlocked read of nb_dpu_running.
ReadNb(r) ==
  /\ ppc = "scan" /\ r \in todo
  /\ nbRead' = Cardinality(dpuRunning[r])
  /\ IF dpuRunning[r] = {}
       THEN todo' = todo \ {r} /\ UNCHANGED <<ppc, cur>>
       ELSE ppc' = "try" /\ cur' = r /\ UNCHANGED todo
  /\ UNCHANGED <<hw, ctx, rankMutex, listed, isDpuRunning, isRunning, oneRankRunning, lpc, lnch, failures>>

\* The rest of polling_thread_rank returns `running` for the current rank.
RankDone(running) ==
  /\ oneRankRunning' = (oneRankRunning \/ running)
  /\ todo' = todo \ {cur} /\ cur' = Nobody /\ nbRead' = 0 /\ ppc' = "scan"

TryLockWaits == FALSE /\ UNCHANGED vars
TryLockFails ==
  /\ ppc = "try" /\ rankMutex[cur] # Nobody
  /\ RankDone(TRUE)
  /\ UNCHANGED <<hw, ctx, rankMutex, listed, isDpuRunning, isRunning, lpc, lnch, failures>>

PollRank ==
  /\ ppc = "try" /\ rankMutex[cur] = Nobody
  /\ Polls(cur) /\ pollFailed' = [pollFailed EXCEPT ![cur] = FALSE]
  /\ lpc' = IF nbRead > Cardinality(PolledRunning(cur)) THEN Broadcast(cur) ELSE lpc
  /\ RankDone(PolledRunning(cur) # {})
  /\ UNCHANGED <<hw, rankMutex, listed, isDpuRunning, isRunning, lnch, failures>>

PollRankFails ==
  /\ ppc = "try" /\ rankMutex[cur] = Nobody /\ Mishap
  /\ pollFailed' = [pollFailed EXCEPT ![cur] = TRUE]
  /\ lpc' = Broadcast(cur)
  /\ RankDone(FALSE)
  /\ UNCHANGED <<hw, dpuRunning, dpuInFault, rankMutex, listed, isDpuRunning, isRunning, lnch>>

\* dpu_rank_handler_end_iteration
EndIteration ==
  /\ ppc = "scan" /\ todo = {}
  /\ ppc' = "head"
  /\ UNCHANGED <<hw, ctx, rankMutex, listed, isDpuRunning, isRunning, poll, lpc, lnch, failures>>

\* polling_thread_destroy, when the process exits, whatever its threads do.
Destroy ==
  /\ isRunning
  /\ isRunning' = FALSE
  /\ ppc' = IF ppc = "wait" THEN "enter" ELSE ppc
  /\ UNCHANGED <<hw, ctx, rankMutex, listed, isDpuRunning, poll, lpc, lnch, failures>>

-----------------------------------------------------------------------------
(* dpu_free_rank: the rank is locked, then removed from the list.          *)

FreeLock(r) ==
  /\ listed[r] /\ rankMutex[r] = Nobody /\ \A l \in Launchers : LRank[l] = r => lpc[l] = "idle"
  /\ rankMutex' = [rankMutex EXCEPT ![r] = r]
  /\ UNCHANGED <<hw, ctx, listed, isDpuRunning, isRunning, ppc, poll, lpc, lnch, failures>>

\* dpu_rank_list_remove waits for the reader; then the rank is unlocked and freed.
NoReaderIgnored == TRUE
NoReader == ppc \notin {"scan", "try"}

FreeRemove(r) ==
  /\ rankMutex[r] = r /\ NoReader
  /\ listed' = [listed EXCEPT ![r] = FALSE]
  /\ Unlock(r)
  /\ UNCHANGED <<hw, ctx, isDpuRunning, isRunning, ppc, poll, lpc, lnch, failures>>

-----------------------------------------------------------------------------
LaunchStep(l) == Boot(l) \/ BootFails(l) \/ Notify(l) \/ Sync(l) \/ Woken(l)
PollStep ==
  \/ LoopTest \/ Decide \/ StartIteration \/ TryLockFails \/ PollRank \/ PollRankFails
  \/ EndIteration \/ \E r \in Ranks : ReadNb(r)

Next ==
  \/ \E l \in Launchers : LaunchStep(l) \/ \E T \in Targets : Launch(l, T)
  \/ \E l \in Launchers : SpuriousWakeup(l)
  \/ PollStep \/ SpuriousPoll \/ Destroy
  \/ \E r \in Ranks : FreeLock(r) \/ FreeRemove(r)
  \/ \E r \in Ranks, d \in Dpus : DpuStops(r, d) \/ DpuFaults(r, d)

\* The threads are scheduled and the programs of the DPUs end; nobody is obliged
\* to launch or to free.  The writer of the list's lock is only strongly fair: the
\* lock may be taken again by the reader any number of times, not for ever.
Fairness ==
  /\ WF_vars(PollStep) /\ \A l \in Launchers : WF_vars(LaunchStep(l))
  /\ \A r \in Ranks : SF_vars(FreeRemove(r))
  /\ \A r \in Ranks, d \in Dpus : WF_vars(DpuStops(r, d) \/ DpuFaults(r, d))

Spec == Init /\ [][Next]_vars /\ Fairness

-----------------------------------------------------------------------------
(* Properties.                                                             *)

\* A launcher depends on the polling thread: its launch is announced and not
\* over, DPUs of its rank run as far as the run context knows, and no failed poll
\* has ended the wait.
Depends(l) ==
  /\ lpc[l] \in {"sync", "wait", "woken"}
  /\ listed[LRank[l]] /\ dpuRunning[LRank[l]] # {} /\ ~pollFailed[LRank[l]]

\* No lost wake-up: the unlocked read, the skipped rank and the flag together
\* never let the polling thread sleep while a launcher depends on it.
NeverSleepsOnRunningRank == ppc = "wait" => \A l \in Launchers : ~Depends(l)

\* The polling thread only touches ranks that have not been freed.
OnlyLiveRanks == ppc \in {"scan", "try"} => \A r \in todo : listed[r]

\* The step by which a launch that booted its DPUs returns st.
LaunchEnds(l, st) == lpc[l] = "sync" /\ lpc'[l] = "idle" /\ status'[l] = st

\* A launch that returns without a poll error has seen its DPUs stop.
StoppedStep ==
  \A l \in Launchers :
    LaunchEnds(l, "ok") \/ LaunchEnds(l, "fault") => hwRunning[LRank[l]] \cap target[l] = {}
ReturnsWhenStopped == [][StoppedStep]_vars

\* A fault of a DPU of the launched rank that was polled before the launch
\* returned is reported.
FaultStep ==
  \A l \in Launchers : LaunchEnds(l, "ok") => dpuInFault[LRank[l]] \cap target[l] = {}
FaultReported == [][FaultStep]_vars

\* Every launch returns once the DPUs have stopped, unless the process exits, and
\* except that dpu_sync_dpu does not look at poll_status: a failed poll may leave
\* it waiting.
Stranded(l) == ~isRunning \/ (target[l] # Dpus /\ pollFailed[LRank[l]])
LaunchReturns == \A l \in Launchers : lpc[l] # "idle" ~> (lpc[l] = "idle" \/ Stranded(l))

\* Teardown ends: a rank being freed is freed, because the writer never waits for
\* a reader that waits for the rank's mutex, and the destructor's join returns.
TeardownReturns ==
  /\ \A r \in Ranks : rankMutex[r] = r ~> ~listed[r]
  /\ ~isRunning ~> ppc = "stopped"

=============================================================================
