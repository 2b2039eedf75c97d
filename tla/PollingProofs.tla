--------------------------- MODULE PollingProofs ---------------------------
(***************************************************************************)
(* Proofs about Polling for every set of ranks, DPUs and launchers (at     *)
(* most one launcher per rank) and any bound.                              *)
(*                                                                         *)
(* The inductive invariant Inv has, besides the type invariant:            *)
(*   ContextSound    the run context never forgets a launched DPU,         *)
(*   MutexHeld       a launcher owns its rank from boot to sync,           *)
(*   StatusFresh     the poll error a launcher saw is still there when it  *)
(*                   leaves its loop,                                      *)
(*   AsleepIdle      the polling thread sleeps with both its flags down,   *)
(*   Accounted       whenever a launcher depends on the polling thread,    *)
(*                   there is a reason for the thread to poll its rank,    *)
(*   OnlyLiveRanks   and only ranks that have not been freed are polled.   *)
(***************************************************************************)
EXTENDS Polling, FiniteSetTheorems, TLAPS

\* Once dpu_boot_rank has succeeded, the run context does not forget a DPU of the
\* launch that runs.  (After a boot that failed it may.)
ContextSound ==
  /\ \A r \in Ranks : hwRunning[r] \cap hwFault[r] = {}
  /\ \A l \in Launchers :
       lpc[l] \in {"notify", "sync", "wait", "woken"} =>
         hwRunning[LRank[l]] \cap target[l] \subseteq dpuRunning[LRank[l]]

MutexHeld ==
  \A l \in Launchers : lpc[l] \in {"boot", "notify", "sync"} => rankMutex[LRank[l]] = l

StatusFresh ==
  \A l \in Launchers :
    /\ target[l] \in Targets \/ lpc[l] = "idle"
    /\ lpc[l] \in {"boot", "notify", "sync", "wait", "woken"} =>
         status[l] \in {"ok", "fault", "poll_error"}
    /\ lpc[l] = "sync" /\ status[l] = "poll_error" => pollFailed[LRank[l]] /\ target[l] = Dpus
    /\ lpc[l] # "idle" /\ status[l] = "ok" => seen[l] = {}
    /\ lpc[l] \in {"boot", "notify", "wait", "woken"} => status[l] \in {"ok", "fault"}

AsleepIdle == ppc = "wait" => ~isDpuRunning /\ ~oneRankRunning

\* Why the polling thread comes back to r: a flag, the coming or the current
\* iteration.
Reason(r) ==
  \/ isDpuRunning \/ oneRankRunning \/ ppc = "enter"
  \/ ppc \in {"scan", "try"} /\ r \in todo

Accounted == \A l \in Launchers : Depends(l) => Reason(LRank[l])

Inv == /\ TypeOK /\ ContextSound /\ MutexHeld /\ StatusFresh
       /\ AsleepIdle /\ Accounted /\ OnlyLiveRanks

-----------------------------------------------------------------------------
\* What a launch names is made of DPUs of the rank.
LEMMA TargetsAreDpus == \A T \in Targets : T \in SUBSET Dpus
  BY TargetsAssumption

\* nb_dpu_running is 0 exactly when no DPU runs.
LEMMA NbIsCount ==
  ASSUME NEW S \in SUBSET Dpus
  PROVE  Cardinality(S) \in Nat /\ (Cardinality(S) = 0 <=> S = {})
  BY TargetsAssumption, FS_Subset, FS_CardinalityType, FS_EmptySet

\* A boot that fails changes its own rank only; the DPUs that it may have started
\* are not in fault.
LEMMA FailedBoot ==
  ASSUME TypeOK, NEW l \in Launchers, BootFails(l)
  PROVE  /\ hwRunning' \in [Ranks -> SUBSET Dpus] /\ hwFault' = hwFault
         /\ dpuRunning' \in [Ranks -> SUBSET Dpus] /\ dpuInFault' \in [Ranks -> SUBSET Dpus]
         /\ lpc' = [lpc EXCEPT ![l] = "idle"]
         /\ \A r \in Ranks : r # LRank[l] =>
              hwRunning'[r] = hwRunning[r] /\ dpuRunning'[r] = dpuRunning[r]
         /\ \A r \in Ranks : hwRunning[r] \cap hwFault[r] = {} => hwRunning'[r] \cap hwFault[r] = {}
<1> USE DEF TypeOK
<1>0. LRank[l] \in Ranks
  BY LaunchersAssumption
<1>1. hwFault' = hwFault /\ lpc' = [lpc EXCEPT ![l] = "idle"]
  BY DEF BootFails, Returns, LGoto
<1>2. CASE UNCHANGED <<hwRunning, dpuRunning, dpuInFault>>
  BY <1>1, <1>2
<1>3. CASE Polls(LRank[l]) /\ \E S \in SUBSET (target[l] \ hwFault[LRank[l]]) :
             hwRunning' = [hwRunning EXCEPT ![LRank[l]] = @ \cup S]
  <2>1. PICK S \in SUBSET (target[l] \ hwFault[LRank[l]]) :
          hwRunning' = [hwRunning EXCEPT ![LRank[l]] = @ \cup S]
    BY <1>3
  <2>2. target[l] \in SUBSET Dpus
    OBVIOUS
  <2>3. hwRunning' \in [Ranks -> SUBSET Dpus]
        /\ \A r \in Ranks : r # LRank[l] => hwRunning'[r] = hwRunning[r]
    BY <1>0, <2>1, <2>2
  <2>4. dpuRunning' \in [Ranks -> SUBSET Dpus] /\ dpuInFault' \in [Ranks -> SUBSET Dpus]
        /\ \A r \in Ranks : r # LRank[l] => dpuRunning'[r] = dpuRunning[r]
    BY <1>0, <1>3 DEF Polls, PolledRunning
  <2>5. \A r \in Ranks : hwRunning[r] \cap hwFault[r] = {} => hwRunning'[r] \cap hwFault[r] = {}
    BY <1>0, <2>1
  <2> QED BY <1>1, <2>3, <2>4, <2>5
<1> QED BY <1>2, <1>3 DEF BootFails

\* Every step of the launchers, the polling thread and the DPUs keeps the types.
LEMMA TypeStep ==
  ASSUME TypeOK, [Next]_vars
  PROVE  TypeOK'
<1> USE DEF TypeOK, hw, ctx, poll, lnch
<1>1. ASSUME NEW l \in Launchers, Boot(l) PROVE TypeOK'
  BY <1>1, LaunchersAssumption, BoundsAssumption, TargetsAreDpus, NbIsCount DEF Boot, LGoto,
     PolledRunning
<1>2. ASSUME NEW l \in Launchers, BootFails(l) PROVE TypeOK'
  <2>1. LRank[l] \in Ranks
    BY LaunchersAssumption
  <2>2. hwRunning' \in [Ranks -> SUBSET Dpus] /\ hwFault' = hwFault /\ failures' \in Nat
    BY <1>2, FailedBoot, BoundsAssumption DEF BootFails, Mishap
  <2>3. dpuRunning' \in [Ranks -> SUBSET Dpus] /\ dpuInFault' \in [Ranks -> SUBSET Dpus]
    BY <1>2, FailedBoot
  <2>4. lpc' = [lpc EXCEPT ![l] = "idle"] /\ status' = [status EXCEPT ![l] = "boot_error"]
        /\ rankMutex' = [rankMutex EXCEPT ![LRank[l]] = Nobody]
    BY <1>2 DEF BootFails, Returns, LGoto, Unlock
  <2> QED BY <1>2, <2>1, <2>2, <2>3, <2>4 DEF BootFails
<1>3. ASSUME NEW l \in Launchers, Notify(l) PROVE TypeOK'
  BY <1>3, LaunchersAssumption, BoundsAssumption, TargetsAreDpus, NbIsCount DEF Notify,
     LGoto
<1>4. ASSUME NEW l \in Launchers, Sync(l) PROVE TypeOK'
  BY <1>4, LaunchersAssumption, BoundsAssumption, TargetsAreDpus, NbIsCount DEF Sync, LGoto,
     Unlock, Returns, Result, Checked, MustWait
<1>5. ASSUME NEW l \in Launchers, Woken(l) PROVE TypeOK'
  <2>1. LRank[l] \in Ranks
    BY LaunchersAssumption
  <2>2. Checked(LRank[l], status[l], seen[l])
          \in {"ok", "fault", "poll_error", "already_running", "boot_error"}
    BY <2>1 DEF Checked
  <2>3. status' \in [Launchers -> {"ok", "fault", "poll_error", "already_running", "boot_error"}]
        /\ seen' \in [Launchers -> SUBSET Dpus]
    BY <1>5, <2>1, <2>2 DEF Woken
  <2> QED BY <1>5, <2>1, <2>3 DEF Woken, LGoto
<1>6. ASSUME NEW l \in Launchers, NEW T \in Targets, Launch(l, T) PROVE TypeOK'
  BY <1>6, LaunchersAssumption, BoundsAssumption, TargetsAreDpus, NbIsCount DEF Launch,
     LGoto
<1>7. ASSUME NEW l \in Launchers, SpuriousWakeup(l) PROVE TypeOK'
  BY <1>7, LaunchersAssumption, BoundsAssumption, TargetsAreDpus, NbIsCount DEF
     SpuriousWakeup, LGoto, Mishap
<1>8. CASE LoopTest
  BY <1>8, LaunchersAssumption, BoundsAssumption, TargetsAreDpus, NbIsCount DEF LoopTest
<1>9. CASE Decide
  BY <1>9, LaunchersAssumption, BoundsAssumption, TargetsAreDpus, NbIsCount DEF Decide,
     MaySleep
<1>10. CASE StartIteration
  BY <1>10, LaunchersAssumption, BoundsAssumption, TargetsAreDpus, NbIsCount DEF
     StartIteration
<1>11. CASE TryLockFails
  BY <1>11, LaunchersAssumption, BoundsAssumption, TargetsAreDpus, NbIsCount DEF
     TryLockFails, RankDone
<1>12. CASE PollRank
  BY <1>12, LaunchersAssumption, BoundsAssumption, TargetsAreDpus, NbIsCount DEF PollRank,
     Polls, PolledRunning, RankDone, Broadcast
<1>13. CASE PollRankFails
  BY <1>13, LaunchersAssumption, BoundsAssumption, TargetsAreDpus, NbIsCount DEF
     PollRankFails, Mishap, RankDone, Broadcast
<1>14. CASE EndIteration
  BY <1>14, LaunchersAssumption, BoundsAssumption, TargetsAreDpus, NbIsCount DEF
     EndIteration
<1>15. ASSUME NEW r \in Ranks, ReadNb(r) PROVE TypeOK'
  BY <1>15, LaunchersAssumption, BoundsAssumption, TargetsAreDpus, NbIsCount DEF ReadNb
<1>16. CASE SpuriousPoll
  BY <1>16, LaunchersAssumption, BoundsAssumption, TargetsAreDpus, NbIsCount DEF
     SpuriousPoll
<1>17. CASE Destroy
  BY <1>17, LaunchersAssumption, BoundsAssumption, TargetsAreDpus, NbIsCount DEF Destroy
<1>18. ASSUME NEW r \in Ranks, FreeLock(r) PROVE TypeOK'
  BY <1>18, LaunchersAssumption, BoundsAssumption, TargetsAreDpus, NbIsCount DEF FreeLock
<1>19. ASSUME NEW r \in Ranks, FreeRemove(r) PROVE TypeOK'
  BY <1>19, LaunchersAssumption, BoundsAssumption, TargetsAreDpus, NbIsCount DEF FreeRemove,
     NoReader, Unlock
<1>20. ASSUME NEW r \in Ranks, NEW d \in Dpus, DpuStops(r, d) PROVE TypeOK'
  BY <1>20, LaunchersAssumption, BoundsAssumption, TargetsAreDpus, NbIsCount DEF DpuStops
<1>21. ASSUME NEW r \in Ranks, NEW d \in Dpus, DpuFaults(r, d) PROVE TypeOK'
  BY <1>21, LaunchersAssumption, BoundsAssumption, TargetsAreDpus, NbIsCount DEF DpuFaults
<1>22. CASE UNCHANGED vars
  BY <1>22 DEF vars
<1> QED BY <1>1, <1>2, <1>3, <1>4, <1>5, <1>6, <1>7, <1>8, <1>9, <1>10, <1>11, <1>12, <1>13,
   <1>14, <1>15, <1>16, <1>17, <1>18, <1>19, <1>20, <1>21, <1>22 DEF Next, LaunchStep,
   PollStep

\* No step makes the run context forget a DPU that runs.
LEMMA ContextStep ==
  ASSUME TypeOK, ContextSound, [Next]_vars
  PROVE  ContextSound'
<1> USE DEF TypeOK, ContextSound, hw, ctx, poll, lnch
<1>1. ASSUME NEW l \in Launchers, Boot(l) PROVE ContextSound'
  BY <1>1, LaunchersAssumption, TargetsAreDpus DEF Boot, LGoto, PolledRunning
<1>2. ASSUME NEW l \in Launchers, BootFails(l) PROVE ContextSound'
  <2>1. target' = target
    BY <1>2 DEF BootFails
  <2> QED BY <1>2, <2>1, FailedBoot, LaunchersAssumption
<1>3. ASSUME NEW l \in Launchers, Notify(l) PROVE ContextSound'
  BY <1>3, LaunchersAssumption, TargetsAreDpus DEF Notify, LGoto
<1>4. ASSUME NEW l \in Launchers, Sync(l) PROVE ContextSound'
  BY <1>4, LaunchersAssumption, TargetsAreDpus DEF Sync, LGoto, Unlock, Returns, Result,
     Checked, MustWait
<1>5. ASSUME NEW l \in Launchers, Woken(l) PROVE ContextSound'
  BY <1>5, LaunchersAssumption, TargetsAreDpus DEF Woken, LGoto, Checked
<1>6. ASSUME NEW l \in Launchers, NEW T \in Targets, Launch(l, T) PROVE ContextSound'
  BY <1>6, LaunchersAssumption, TargetsAreDpus DEF Launch, LGoto
<1>7. ASSUME NEW l \in Launchers, SpuriousWakeup(l) PROVE ContextSound'
  BY <1>7, LaunchersAssumption, TargetsAreDpus DEF SpuriousWakeup, LGoto, Mishap
<1>8. CASE LoopTest
  BY <1>8, LaunchersAssumption, TargetsAreDpus DEF LoopTest
<1>9. CASE Decide
  BY <1>9, LaunchersAssumption, TargetsAreDpus DEF Decide, MaySleep
<1>10. CASE StartIteration
  BY <1>10, LaunchersAssumption, TargetsAreDpus DEF StartIteration
<1>11. CASE TryLockFails
  BY <1>11, LaunchersAssumption, TargetsAreDpus DEF TryLockFails, RankDone
<1>12. CASE PollRank
  BY <1>12, LaunchersAssumption, TargetsAreDpus DEF PollRank, Polls, PolledRunning,
     RankDone, Broadcast
<1>13. CASE PollRankFails
  BY <1>13, LaunchersAssumption, TargetsAreDpus DEF PollRankFails, Mishap, RankDone,
     Broadcast
<1>14. CASE EndIteration
  BY <1>14, LaunchersAssumption, TargetsAreDpus DEF EndIteration
<1>15. ASSUME NEW r \in Ranks, ReadNb(r) PROVE ContextSound'
  BY <1>15, LaunchersAssumption, TargetsAreDpus DEF ReadNb
<1>16. CASE SpuriousPoll
  BY <1>16, LaunchersAssumption, TargetsAreDpus DEF SpuriousPoll
<1>17. CASE Destroy
  BY <1>17, LaunchersAssumption, TargetsAreDpus DEF Destroy
<1>18. ASSUME NEW r \in Ranks, FreeLock(r) PROVE ContextSound'
  BY <1>18, LaunchersAssumption, TargetsAreDpus DEF FreeLock
<1>19. ASSUME NEW r \in Ranks, FreeRemove(r) PROVE ContextSound'
  BY <1>19, LaunchersAssumption, TargetsAreDpus DEF FreeRemove, NoReader, Unlock
<1>20. ASSUME NEW r \in Ranks, NEW d \in Dpus, DpuStops(r, d) PROVE ContextSound'
  BY <1>20, LaunchersAssumption, TargetsAreDpus DEF DpuStops
<1>21. ASSUME NEW r \in Ranks, NEW d \in Dpus, DpuFaults(r, d) PROVE ContextSound'
  BY <1>21, LaunchersAssumption, TargetsAreDpus DEF DpuFaults
<1>22. CASE UNCHANGED vars
  BY <1>22 DEF vars
<1> QED BY <1>1, <1>2, <1>3, <1>4, <1>5, <1>6, <1>7, <1>8, <1>9, <1>10, <1>11, <1>12, <1>13,
   <1>14, <1>15, <1>16, <1>17, <1>18, <1>19, <1>20, <1>21, <1>22 DEF Next, LaunchStep,
   PollStep

\* A launcher keeps its rank's mutex until it sleeps or returns.
LEMMA MutexStep ==
  ASSUME TypeOK, MutexHeld, [Next]_vars
  PROVE  MutexHeld'
<1> USE DEF TypeOK, MutexHeld, hw, ctx, poll, lnch
<1>1. ASSUME NEW l \in Launchers, Boot(l) PROVE MutexHeld'
  BY <1>1, LaunchersAssumption, NobodyAssumption DEF Boot, LGoto, PolledRunning
<1>2. ASSUME NEW l \in Launchers, BootFails(l) PROVE MutexHeld'
  BY <1>2, LaunchersAssumption, NobodyAssumption DEF BootFails, Mishap, Polls,
     PolledRunning, Returns, LGoto, Unlock
<1>3. ASSUME NEW l \in Launchers, Notify(l) PROVE MutexHeld'
  BY <1>3, LaunchersAssumption, NobodyAssumption DEF Notify, LGoto
<1>4. ASSUME NEW l \in Launchers, Sync(l) PROVE MutexHeld'
  BY <1>4, LaunchersAssumption, NobodyAssumption DEF Sync, LGoto, Unlock, Returns, Result,
     Checked, MustWait
<1>5. ASSUME NEW l \in Launchers, Woken(l) PROVE MutexHeld'
  BY <1>5, LaunchersAssumption, NobodyAssumption DEF Woken, LGoto, Checked
<1>6. ASSUME NEW l \in Launchers, NEW T \in Targets, Launch(l, T) PROVE MutexHeld'
  <2>1. LRank[l] \in Ranks /\ rankMutex[LRank[l]] = Nobody
    BY <1>6, LaunchersAssumption DEF Launch
  <2>2. ASSUME NEW k \in Launchers, lpc'[k] \in {"boot", "notify", "sync"}
        PROVE  rankMutex'[LRank[k]] = k
    <3>1. CASE lpc' = lpc /\ rankMutex' = rankMutex
      BY <2>2, <3>1
    <3>2. CASE lpc' = [lpc EXCEPT ![l] = "boot"]
               /\ rankMutex' = [rankMutex EXCEPT ![LRank[l]] = l]
      BY <2>1, <2>2, <3>2, LaunchersAssumption, NobodyAssumption
    <3> QED BY <1>6, <3>1, <3>2 DEF Launch, LGoto
  <2> QED BY <2>2
<1>7. ASSUME NEW l \in Launchers, SpuriousWakeup(l) PROVE MutexHeld'
  BY <1>7, LaunchersAssumption, NobodyAssumption DEF SpuriousWakeup, LGoto, Mishap
<1>8. CASE LoopTest
  BY <1>8, LaunchersAssumption, NobodyAssumption DEF LoopTest
<1>9. CASE Decide
  BY <1>9, LaunchersAssumption, NobodyAssumption DEF Decide, MaySleep
<1>10. CASE StartIteration
  BY <1>10, LaunchersAssumption, NobodyAssumption DEF StartIteration
<1>11. CASE TryLockFails
  BY <1>11, LaunchersAssumption, NobodyAssumption DEF TryLockFails, RankDone
<1>12. CASE PollRank
  BY <1>12, LaunchersAssumption, NobodyAssumption DEF PollRank, Polls, PolledRunning,
     RankDone, Broadcast
<1>13. CASE PollRankFails
  BY <1>13, LaunchersAssumption, NobodyAssumption DEF PollRankFails, Mishap, RankDone,
     Broadcast
<1>14. CASE EndIteration
  BY <1>14, LaunchersAssumption, NobodyAssumption DEF EndIteration
<1>15. ASSUME NEW r \in Ranks, ReadNb(r) PROVE MutexHeld'
  BY <1>15, LaunchersAssumption, NobodyAssumption DEF ReadNb
<1>16. CASE SpuriousPoll
  BY <1>16, LaunchersAssumption, NobodyAssumption DEF SpuriousPoll
<1>17. CASE Destroy
  BY <1>17, LaunchersAssumption, NobodyAssumption DEF Destroy
<1>18. ASSUME NEW r \in Ranks, FreeLock(r) PROVE MutexHeld'
  BY <1>18, LaunchersAssumption, NobodyAssumption DEF FreeLock
<1>19. ASSUME NEW r \in Ranks, FreeRemove(r) PROVE MutexHeld'
  BY <1>19, LaunchersAssumption, NobodyAssumption DEF FreeRemove, NoReader, Unlock
<1>20. ASSUME NEW r \in Ranks, NEW d \in Dpus, DpuStops(r, d) PROVE MutexHeld'
  BY <1>20, LaunchersAssumption, NobodyAssumption DEF DpuStops
<1>21. ASSUME NEW r \in Ranks, NEW d \in Dpus, DpuFaults(r, d) PROVE MutexHeld'
  BY <1>21, LaunchersAssumption, NobodyAssumption DEF DpuFaults
<1>22. CASE UNCHANGED vars
  BY <1>22 DEF vars
<1> QED BY <1>1, <1>2, <1>3, <1>4, <1>5, <1>6, <1>7, <1>8, <1>9, <1>10, <1>11, <1>12, <1>13,
   <1>14, <1>15, <1>16, <1>17, <1>18, <1>19, <1>20, <1>21, <1>22 DEF Next, LaunchStep,
   PollStep

\* What a launcher knows of the last poll stays true while it holds the mutex.
LEMMA StatusStep ==
  ASSUME TypeOK, MutexHeld, StatusFresh, [Next]_vars
  PROVE  StatusFresh'
<1> USE DEF TypeOK, MutexHeld, StatusFresh, hw, ctx, poll, lnch
<1>1. ASSUME NEW l \in Launchers, Boot(l) PROVE StatusFresh'
  BY <1>1, LaunchersAssumption, NobodyAssumption, TargetsAssumption DEF Boot, LGoto,
     PolledRunning
<1>2. ASSUME NEW l \in Launchers, BootFails(l) PROVE StatusFresh'
  BY <1>2, LaunchersAssumption, NobodyAssumption, TargetsAssumption DEF BootFails, Mishap,
     Polls, PolledRunning, Returns, LGoto, Unlock
<1>3. ASSUME NEW l \in Launchers, Notify(l) PROVE StatusFresh'
  BY <1>3, LaunchersAssumption, NobodyAssumption, TargetsAssumption DEF Notify, LGoto
<1>4. ASSUME NEW l \in Launchers, Sync(l) PROVE StatusFresh'
  BY <1>4, LaunchersAssumption, NobodyAssumption, TargetsAssumption DEF Sync, LGoto, Unlock,
     Returns, Result, Checked, MustWait
<1>5. ASSUME NEW l \in Launchers, Woken(l) PROVE StatusFresh'
  BY <1>5, LaunchersAssumption, NobodyAssumption, TargetsAssumption DEF Woken, LGoto,
     Checked
<1>6. ASSUME NEW l \in Launchers, NEW T \in Targets, Launch(l, T) PROVE StatusFresh'
  BY <1>6, LaunchersAssumption, NobodyAssumption, TargetsAssumption DEF Launch, LGoto
<1>7. ASSUME NEW l \in Launchers, SpuriousWakeup(l) PROVE StatusFresh'
  BY <1>7, LaunchersAssumption, NobodyAssumption, TargetsAssumption DEF SpuriousWakeup,
     LGoto, Mishap
<1>8. CASE LoopTest
  BY <1>8, LaunchersAssumption, NobodyAssumption, TargetsAssumption DEF LoopTest
<1>9. CASE Decide
  BY <1>9, LaunchersAssumption, NobodyAssumption, TargetsAssumption DEF Decide, MaySleep
<1>10. CASE StartIteration
  BY <1>10, LaunchersAssumption, NobodyAssumption, TargetsAssumption DEF StartIteration
<1>11. CASE TryLockFails
  BY <1>11, LaunchersAssumption, NobodyAssumption, TargetsAssumption DEF TryLockFails,
     RankDone
<1>12. CASE PollRank
  BY <1>12, LaunchersAssumption, NobodyAssumption, TargetsAssumption DEF PollRank, Polls,
     PolledRunning, RankDone, Broadcast
<1>13. CASE PollRankFails
  BY <1>13, LaunchersAssumption, NobodyAssumption, TargetsAssumption DEF PollRankFails,
     Mishap, RankDone, Broadcast
<1>14. CASE EndIteration
  BY <1>14, LaunchersAssumption, NobodyAssumption, TargetsAssumption DEF EndIteration
<1>15. ASSUME NEW r \in Ranks, ReadNb(r) PROVE StatusFresh'
  BY <1>15, LaunchersAssumption, NobodyAssumption, TargetsAssumption DEF ReadNb
<1>16. CASE SpuriousPoll
  BY <1>16, LaunchersAssumption, NobodyAssumption, TargetsAssumption DEF SpuriousPoll
<1>17. CASE Destroy
  BY <1>17, LaunchersAssumption, NobodyAssumption, TargetsAssumption DEF Destroy
<1>18. ASSUME NEW r \in Ranks, FreeLock(r) PROVE StatusFresh'
  BY <1>18, LaunchersAssumption, NobodyAssumption, TargetsAssumption DEF FreeLock
<1>19. ASSUME NEW r \in Ranks, FreeRemove(r) PROVE StatusFresh'
  BY <1>19, LaunchersAssumption, NobodyAssumption, TargetsAssumption DEF FreeRemove,
     NoReader, Unlock
<1>20. ASSUME NEW r \in Ranks, NEW d \in Dpus, DpuStops(r, d) PROVE StatusFresh'
  BY <1>20, LaunchersAssumption, NobodyAssumption, TargetsAssumption DEF DpuStops
<1>21. ASSUME NEW r \in Ranks, NEW d \in Dpus, DpuFaults(r, d) PROVE StatusFresh'
  BY <1>21, LaunchersAssumption, NobodyAssumption, TargetsAssumption DEF DpuFaults
<1>22. CASE UNCHANGED vars
  BY <1>22 DEF vars
<1> QED BY <1>1, <1>2, <1>3, <1>4, <1>5, <1>6, <1>7, <1>8, <1>9, <1>10, <1>11, <1>12, <1>13,
   <1>14, <1>15, <1>16, <1>17, <1>18, <1>19, <1>20, <1>21, <1>22 DEF Next, LaunchStep,
   PollStep

\* No step takes away the last reason to poll a rank that needs it.
LEMMA AccountedStep ==
  ASSUME TypeOK, ContextSound, Accounted, [Next]_vars
  PROVE  Accounted'
<1> USE DEF TypeOK, ContextSound, Accounted, Depends, Reason, hw, ctx, poll, lnch
<1>1. ASSUME NEW l \in Launchers, Boot(l) PROVE Accounted'
  BY <1>1, LaunchersAssumption DEF Boot, LGoto, PolledRunning
<1>2. ASSUME NEW l \in Launchers, BootFails(l) PROVE Accounted'
  <2>1. /\ pollFailed' = pollFailed /\ listed' = listed /\ isDpuRunning' = isDpuRunning
        /\ ppc' = ppc /\ todo' = todo /\ oneRankRunning' = oneRankRunning
    BY <1>2 DEF BootFails
  <2> QED BY <1>2, <2>1, FailedBoot, LaunchersAssumption
<1>3. ASSUME NEW l \in Launchers, Notify(l) PROVE Accounted'
  BY <1>3, LaunchersAssumption DEF Notify, LGoto
<1>4. ASSUME NEW l \in Launchers, Sync(l) PROVE Accounted'
  BY <1>4, LaunchersAssumption DEF Sync, LGoto, Unlock, Returns, Result, Checked, MustWait
<1>5. ASSUME NEW l \in Launchers, Woken(l) PROVE Accounted'
  BY <1>5, LaunchersAssumption DEF Woken, LGoto, Checked
<1>6. ASSUME NEW l \in Launchers, NEW T \in Targets, Launch(l, T) PROVE Accounted'
  BY <1>6, LaunchersAssumption DEF Launch, LGoto
<1>7. ASSUME NEW l \in Launchers, SpuriousWakeup(l) PROVE Accounted'
  BY <1>7, LaunchersAssumption DEF SpuriousWakeup, LGoto, Mishap
<1>8. CASE LoopTest
  BY <1>8, LaunchersAssumption DEF LoopTest
<1>9. CASE Decide
  BY <1>9, LaunchersAssumption DEF Decide, MaySleep
<1>10. CASE StartIteration
  BY <1>10, LaunchersAssumption DEF StartIteration
<1>11. CASE TryLockFails
  BY <1>11, LaunchersAssumption DEF TryLockFails, RankDone
<1>12. CASE PollRank
  BY <1>12, LaunchersAssumption DEF PollRank, Polls, PolledRunning, RankDone, Broadcast
<1>13. CASE PollRankFails
  BY <1>13, LaunchersAssumption DEF PollRankFails, Mishap, RankDone, Broadcast
<1>14. CASE EndIteration
  BY <1>14, LaunchersAssumption DEF EndIteration
<1>15. ASSUME NEW r \in Ranks, ReadNb(r) PROVE Accounted'
  BY <1>15, LaunchersAssumption DEF ReadNb
<1>16. CASE SpuriousPoll
  BY <1>16, LaunchersAssumption DEF SpuriousPoll
<1>17. CASE Destroy
  BY <1>17, LaunchersAssumption DEF Destroy
<1>18. ASSUME NEW r \in Ranks, FreeLock(r) PROVE Accounted'
  BY <1>18, LaunchersAssumption DEF FreeLock
<1>19. ASSUME NEW r \in Ranks, FreeRemove(r) PROVE Accounted'
  BY <1>19, LaunchersAssumption DEF FreeRemove, NoReader, Unlock
<1>20. ASSUME NEW r \in Ranks, NEW d \in Dpus, DpuStops(r, d) PROVE Accounted'
  BY <1>20, LaunchersAssumption DEF DpuStops
<1>21. ASSUME NEW r \in Ranks, NEW d \in Dpus, DpuFaults(r, d) PROVE Accounted'
  BY <1>21, LaunchersAssumption DEF DpuFaults
<1>22. CASE UNCHANGED vars
  BY <1>22 DEF vars
<1> QED BY <1>1, <1>2, <1>3, <1>4, <1>5, <1>6, <1>7, <1>8, <1>9, <1>10, <1>11, <1>12, <1>13,
   <1>14, <1>15, <1>16, <1>17, <1>18, <1>19, <1>20, <1>21, <1>22 DEF Next, LaunchStep,
   PollStep

\* Whoever raises a flag wakes the polling thread.
LEMMA AsleepStep ==
  ASSUME TypeOK, AsleepIdle, [Next]_vars
  PROVE  AsleepIdle'
<1> USE DEF TypeOK, AsleepIdle, hw, ctx, poll, lnch
<1>1. ASSUME NEW l \in Launchers, Boot(l) PROVE AsleepIdle'
  BY <1>1 DEF Boot, LGoto, PolledRunning
<1>2. ASSUME NEW l \in Launchers, BootFails(l) PROVE AsleepIdle'
  BY <1>2 DEF BootFails, Mishap, Polls, PolledRunning, Returns, LGoto, Unlock
<1>3. ASSUME NEW l \in Launchers, Notify(l) PROVE AsleepIdle'
  BY <1>3 DEF Notify, LGoto
<1>4. ASSUME NEW l \in Launchers, Sync(l) PROVE AsleepIdle'
  BY <1>4 DEF Sync, LGoto, Unlock, Returns, Result, Checked, MustWait
<1>5. ASSUME NEW l \in Launchers, Woken(l) PROVE AsleepIdle'
  BY <1>5 DEF Woken, LGoto, Checked
<1>6. ASSUME NEW l \in Launchers, NEW T \in Targets, Launch(l, T) PROVE AsleepIdle'
  BY <1>6 DEF Launch, LGoto
<1>7. ASSUME NEW l \in Launchers, SpuriousWakeup(l) PROVE AsleepIdle'
  BY <1>7 DEF SpuriousWakeup, LGoto, Mishap
<1>8. CASE LoopTest
  BY <1>8 DEF LoopTest
<1>9. CASE Decide
  BY <1>9 DEF Decide, MaySleep
<1>10. CASE StartIteration
  BY <1>10 DEF StartIteration
<1>11. CASE TryLockFails
  BY <1>11 DEF TryLockFails, RankDone
<1>12. CASE PollRank
  BY <1>12 DEF PollRank, Polls, PolledRunning, RankDone, Broadcast
<1>13. CASE PollRankFails
  BY <1>13 DEF PollRankFails, Mishap, RankDone, Broadcast
<1>14. CASE EndIteration
  BY <1>14 DEF EndIteration
<1>15. ASSUME NEW r \in Ranks, ReadNb(r) PROVE AsleepIdle'
  BY <1>15 DEF ReadNb
<1>16. CASE SpuriousPoll
  BY <1>16 DEF SpuriousPoll
<1>17. CASE Destroy
  BY <1>17 DEF Destroy
<1>18. ASSUME NEW r \in Ranks, FreeLock(r) PROVE AsleepIdle'
  BY <1>18 DEF FreeLock
<1>19. ASSUME NEW r \in Ranks, FreeRemove(r) PROVE AsleepIdle'
  BY <1>19 DEF FreeRemove, NoReader, Unlock
<1>20. ASSUME NEW r \in Ranks, NEW d \in Dpus, DpuStops(r, d) PROVE AsleepIdle'
  BY <1>20 DEF DpuStops
<1>21. ASSUME NEW r \in Ranks, NEW d \in Dpus, DpuFaults(r, d) PROVE AsleepIdle'
  BY <1>21 DEF DpuFaults
<1>22. CASE UNCHANGED vars
  BY <1>22 DEF vars
<1> QED BY <1>1, <1>2, <1>3, <1>4, <1>5, <1>6, <1>7, <1>8, <1>9, <1>10, <1>11, <1>12, <1>13,
   <1>14, <1>15, <1>16, <1>17, <1>18, <1>19, <1>20, <1>21, <1>22 DEF Next, LaunchStep,
   PollStep

\* The writer of the list waits for the iteration to end.
LEMMA LiveStep ==
  ASSUME TypeOK, OnlyLiveRanks, [Next]_vars
  PROVE  OnlyLiveRanks'
<1> USE DEF TypeOK, OnlyLiveRanks, hw, ctx, poll, lnch
<1>1. ASSUME NEW l \in Launchers, Boot(l) PROVE OnlyLiveRanks'
  BY <1>1 DEF Boot, LGoto, PolledRunning
<1>2. ASSUME NEW l \in Launchers, BootFails(l) PROVE OnlyLiveRanks'
  BY <1>2 DEF BootFails, Mishap, Polls, PolledRunning, Returns, LGoto, Unlock
<1>3. ASSUME NEW l \in Launchers, Notify(l) PROVE OnlyLiveRanks'
  BY <1>3 DEF Notify, LGoto
<1>4. ASSUME NEW l \in Launchers, Sync(l) PROVE OnlyLiveRanks'
  BY <1>4 DEF Sync, LGoto, Unlock, Returns, Result, Checked, MustWait
<1>5. ASSUME NEW l \in Launchers, Woken(l) PROVE OnlyLiveRanks'
  BY <1>5 DEF Woken, LGoto, Checked
<1>6. ASSUME NEW l \in Launchers, NEW T \in Targets, Launch(l, T) PROVE OnlyLiveRanks'
  BY <1>6 DEF Launch, LGoto
<1>7. ASSUME NEW l \in Launchers, SpuriousWakeup(l) PROVE OnlyLiveRanks'
  BY <1>7 DEF SpuriousWakeup, LGoto, Mishap
<1>8. CASE LoopTest
  BY <1>8 DEF LoopTest
<1>9. CASE Decide
  BY <1>9 DEF Decide, MaySleep
<1>10. CASE StartIteration
  BY <1>10 DEF StartIteration
<1>11. CASE TryLockFails
  BY <1>11 DEF TryLockFails, RankDone
<1>12. CASE PollRank
  BY <1>12 DEF PollRank, Polls, PolledRunning, RankDone, Broadcast
<1>13. CASE PollRankFails
  BY <1>13 DEF PollRankFails, Mishap, RankDone, Broadcast
<1>14. CASE EndIteration
  BY <1>14 DEF EndIteration
<1>15. ASSUME NEW r \in Ranks, ReadNb(r) PROVE OnlyLiveRanks'
  BY <1>15 DEF ReadNb
<1>16. CASE SpuriousPoll
  BY <1>16 DEF SpuriousPoll
<1>17. CASE Destroy
  BY <1>17 DEF Destroy
<1>18. ASSUME NEW r \in Ranks, FreeLock(r) PROVE OnlyLiveRanks'
  BY <1>18 DEF FreeLock
<1>19. ASSUME NEW r \in Ranks, FreeRemove(r) PROVE OnlyLiveRanks'
  BY <1>19 DEF FreeRemove, NoReader, Unlock
<1>20. ASSUME NEW r \in Ranks, NEW d \in Dpus, DpuStops(r, d) PROVE OnlyLiveRanks'
  BY <1>20 DEF DpuStops
<1>21. ASSUME NEW r \in Ranks, NEW d \in Dpus, DpuFaults(r, d) PROVE OnlyLiveRanks'
  BY <1>21 DEF DpuFaults
<1>22. CASE UNCHANGED vars
  BY <1>22 DEF vars
<1> QED BY <1>1, <1>2, <1>3, <1>4, <1>5, <1>6, <1>7, <1>8, <1>9, <1>10, <1>11, <1>12, <1>13,
   <1>14, <1>15, <1>16, <1>17, <1>18, <1>19, <1>20, <1>21, <1>22 DEF Next, LaunchStep,
   PollStep

-----------------------------------------------------------------------------
\* The state after dpu_alloc satisfies the inductive invariant.
LEMMA InvInit == Init => Inv
<1> SUFFICES ASSUME Init PROVE Inv
  OBVIOUS
<1>1. TypeOK
  BY DEF Init, TypeOK
<1>2. ContextSound /\ MutexHeld /\ StatusFresh
  BY DEF Init, ContextSound, MutexHeld, StatusFresh
<1>3. AsleepIdle /\ Accounted /\ OnlyLiveRanks
  BY DEF Init, AsleepIdle, Accounted, Depends, OnlyLiveRanks
<1> QED BY <1>1, <1>2, <1>3 DEF Inv

\* Every step preserves the inductive invariant.
LEMMA InvStep == Inv /\ [Next]_vars => Inv'
  BY TypeStep, ContextStep, MutexStep, StatusStep, AsleepStep, AccountedStep, LiveStep DEF Inv

\* Inv holds in every reachable state.
THEOREM InvHolds == Spec => []Inv
  BY InvInit, InvStep, PTL DEF Spec

\* The variables keep their types: the state of the run contexts, mutexes and
\* flags that dpu_polling.c and dpu_runner.c update.
THEOREM TypeCorrect == Spec => []TypeOK
<1>1. Inv => TypeOK
  BY DEF Inv
<1> QED BY <1>1, InvHolds, PTL

\* No lost wake-up: polling_thread_fct never sleeps while a launcher waits for
\* DPUs that run, whatever the interleaving of the unlocked read, the failed
\* trylock and the flag.
THEOREM NoLostWakeup == Spec => []NeverSleepsOnRunningRank
<1>1. Inv => NeverSleepsOnRunningRank
  <2> SUFFICES ASSUME Inv, ppc = "wait", NEW l \in Launchers, Depends(l) PROVE FALSE
    BY DEF NeverSleepsOnRunningRank
  <2>1. Reason(LRank[l])
    BY DEF Inv, Accounted
  <2>2. isDpuRunning \/ oneRankRunning
    BY <2>1 DEF Reason
  <2> QED BY <2>2 DEF Inv, AsleepIdle
<1> QED BY <1>1, InvHolds, PTL

\* polling_thread_rank is never called on a rank that dpu_rank_list_remove took
\* out of the list.
THEOREM PolledRanksLive == Spec => []OnlyLiveRanks
<1>1. Inv => OnlyLiveRanks
  BY DEF Inv
<1> QED BY <1>1, InvHolds, PTL

\* A launcher in dpu_sync_rank or dpu_sync_dpu returns by its own step.
LEMMA OnlySyncEnds ==
  ASSUME TypeOK, [Next]_vars, NEW k \in Launchers, lpc[k] = "sync", lpc'[k] = "idle"
  PROVE  Sync(k)
<1> USE DEF TypeOK
<1>1. ASSUME NEW l \in Launchers, LaunchStep(l) PROVE Sync(k)
  BY <1>1 DEF LaunchStep, Boot, BootFails, Notify, Sync, Woken, Returns, LGoto
<1>2. ASSUME NEW l \in Launchers, NEW T \in Targets, Launch(l, T) PROVE FALSE
  BY <1>2 DEF Launch, LGoto
<1>3. ASSUME NEW l \in Launchers, SpuriousWakeup(l) PROVE FALSE
  BY <1>3 DEF SpuriousWakeup, LGoto
<1>4. CASE PollRank \/ PollRankFails
  BY <1>4 DEF PollRank, PollRankFails, Broadcast
<1>5. CASE lpc' = lpc
  BY <1>5
<1>6. CASE PollStep
  BY <1>4, <1>5, <1>6
     DEF PollStep, LoopTest, Decide, StartIteration, TryLockFails, EndIteration, ReadNb
<1>7. CASE SpuriousPoll \/ Destroy \/ UNCHANGED vars
  BY <1>5, <1>7 DEF SpuriousPoll, Destroy, vars
<1>8. ASSUME NEW r \in Ranks, FreeLock(r) \/ FreeRemove(r) PROVE FALSE
  BY <1>5, <1>8 DEF FreeLock, FreeRemove
<1>9. ASSUME NEW r \in Ranks, NEW d \in Dpus, DpuStops(r, d) \/ DpuFaults(r, d) PROVE FALSE
  BY <1>5, <1>9 DEF DpuStops, DpuFaults
<1> QED BY <1>1, <1>2, <1>3, <1>6, <1>7, <1>8, <1>9 DEF Next

\* dpu_sync_rank and dpu_sync_dpu return without a poll error only once the DPUs
\* of the launch have stopped.
THEOREM StoppedAtReturn == Spec => ReturnsWhenStopped
<1>1. ASSUME Inv, [Next]_vars PROVE StoppedStep
  <2> SUFFICES ASSUME NEW l \in Launchers, LaunchEnds(l, "ok") \/ LaunchEnds(l, "fault")
               PROVE  hwRunning[LRank[l]] \cap target[l] = {}
    BY DEF StoppedStep
  <2>1. Sync(l) /\ ~MustWait(l) /\ status'[l] = Result(l) /\ Result(l) # "poll_error"
    BY <1>1, OnlySyncEnds DEF LaunchEnds, Inv, TypeOK, Sync, Returns, LGoto
  <2>2. hwRunning[LRank[l]] \cap target[l] \subseteq dpuRunning[LRank[l]]
    BY <1>1, LaunchersAssumption DEF Inv, ContextSound, LaunchEnds
  <2>3. target[l] = Dpus => dpuRunning[LRank[l]] = {}
    BY <1>1, <2>1 DEF Inv, StatusFresh, LaunchEnds, MustWait, Result, Checked
  <2> QED BY <2>1, <2>2, <2>3 DEF MustWait
<1> QED BY <1>1, InvHolds, PTL DEF Spec, ReturnsWhenStopped

\* A fault that a poll noted before the launch returned is reported by
\* dpu_check_fault_rank or dpu_sync_dpu.
THEOREM FaultAtReturn == Spec => FaultReported
<1>1. ASSUME Inv, [Next]_vars PROVE FaultStep
  <2> SUFFICES ASSUME NEW l \in Launchers, LaunchEnds(l, "ok")
               PROVE  dpuInFault[LRank[l]] \cap target[l] = {}
    BY DEF FaultStep
  <2>1. Result(l) = "ok"
    BY <1>1, OnlySyncEnds DEF LaunchEnds, Inv, TypeOK, Sync, Returns, LGoto
  <2>2. target[l] = Dpus => dpuInFault[LRank[l]] = {}
    BY <1>1, <2>1 DEF Inv, StatusFresh, LaunchEnds, Result, Checked
  <2> QED BY <2>1, <2>2 DEF Result
<1> QED BY <1>1, InvHolds, PTL DEF Spec, FaultReported

=============================================================================
