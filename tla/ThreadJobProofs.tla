--------------------------- MODULE ThreadJobProofs ---------------------------
(***************************************************************************)
(* Proofs about ThreadJob: every FIFO that holds jobs is carried exactly   *)
(* once, for every number of ranks, queues, workers, callers, slots, calls *)
(* and failures, and for any sets, as long as the application makes no     *)
(* blocking single-call callback (NoParking), the one operation that       *)
(* leaves FIFOs without a carrier.                                         *)
(***************************************************************************)
EXTENDS ThreadJob, FiniteSetTheorems, SequenceTheorems, TLAPS

\* No call is a blocking asynchronous single-call callback.
NoParking == \A op \in Ops : ~Parks(op)

-----------------------------------------------------------------------------
(* The inductive invariant                                                 *)

\* The counter of a callback is left out of the type: nothing here rests on it.
JobRecord == [type : {"work", "sync", "callback"}, owner : Callers,
              master : Slots \cup {NoSlot}, set : Seq(Ranks), nr : Int,
              sync : BOOLEAN, nonblocking : BOOLEAN, single : BOOLEAN]

Typed ==
  /\ available \in [Ranks -> Seq(Slots)] /\ jobs \in [Ranks -> Seq(Slots)]
  /\ job \in [Slots -> JobRecord] /\ list \in [Queues -> Seq(Slots)]
  /\ parked = [r \in Ranks |-> FALSE]
  /\ jobsMutex \in [Ranks -> Threads \cup {NoThread}]
  /\ queueMutex \in [Queues -> Threads \cup {NoThread}]
  /\ cpc \in [Callers -> CallerPC] /\ call \in [Callers -> CallType]
  /\ cidx \in [Callers -> Nat] /\ got \in [Callers -> Seq(Slots)]
  /\ wpc \in [Workers -> WorkerPC] /\ wjob \in [Workers -> Slots]
  /\ wcb \in [Workers -> CallbackType]

\* No slot holds a job that would park its rank.
JobsRun == \A s \in Slots : job[s].single => job[s].nonblocking

\* The free list and the FIFO of a rank hold slots of this rank.
OwnSlots(r) ==
  /\ \A i \in 1 .. Len(available[r]) : RankOf(available[r][i]) = r
  /\ \A i \in 1 .. Len(jobs[r]) : RankOf(jobs[r][i]) = r

\* The slots a caller has got: one per rank, or pairs of one rank.
Pairs(c) ==
  \A k \in Nat : 2 * k + 2 <= Len(got[c]) => RankOf(got[c][2 * k + 1]) = RankOf(got[c][2 * k + 2])

Getting(c) ==
  /\ cidx[c] \in 1 .. Len(call[c].ranks)
  /\ call[c].nj = 1 => Len(got[c]) = cidx[c] - 1
  /\ call[c].nj = 2 =>
       \/ Len(got[c]) = 2 * cidx[c] - 2
       \/ /\ Len(got[c]) = 2 * cidx[c] - 1
          /\ RankOf(got[c][Len(got[c])]) = call[c].ranks[cidx[c]]

CallerInv(c) ==
  /\ cpc[c] \notin {"idle", "join", "freed"} =>
       /\ call[c].ranks # <<>> /\ call[c].op \in Ops
       /\ call[c].op.single /\ Len(call[c].ranks) # 1 => call[c].nj = 1 /\ ~call[c].op.sync
       /\ call[c].nj = 2 => Pairs(c)
  /\ cpc[c] \in {"get", "waitget"} => Getting(c)
  /\ cpc[c] \in {"choose", "master", "waitmaster"} =>
       /\ call[c].op.single /\ Len(call[c].ranks) # 1
       /\ Len(got[c]) = Len(call[c].ranks)
  /\ cpc[c] = "set" /\ call[c].op.single /\ Len(call[c].ranks) # 1 =>
       Len(got[c]) = Len(call[c].ranks) + 1
  /\ cpc[c] \in {"set", "do", "add", "addq", "unget"} /\ call[c].nj = 2 =>
       \E k \in Nat : Len(got[c]) = 2 * k

\* A caller that waits for a queue's mutex has found the FIFO empty and keeps
\* it so, with jobs_mutex.
Entering(c) ==
  cpc[c] = "addq" =>
    /\ got[c] # <<>>
    /\ jobs[RankOf(got[c][1])] = <<>> /\ jobsMutex[RankOf(got[c][1])] = c

WorkerInv(w) ==
  /\ wpc[w] \notin {"cblock", "block"}
  /\ wcb[w].single => wcb[w].nonblocking
  /\ wpc[w] \in {"cbadvance", "cbinsert"} => wcb[w].nonblocking
  /\ wpc[w] = "relmaster" => wcb[w].master \in Slots

\* A queue holds ranks of its own, each of them once.
QueueInv(q) ==
  /\ \A i \in 1 .. Len(list[q]) : QueueIdx[RankOf(list[q][i])] = q
  /\ \A i, j \in 1 .. Len(list[q]) : RankOf(list[q][i]) = RankOf(list[q][j]) => i = j

Listed(r) == \E q \in Queues : \E i \in 1 .. Len(list[q]) : RankOf(list[q][i]) = r
BusyOn(w, r) == Busy(w) /\ RankOf(wjob[w]) = r
Draining(w) == wpc[w] \in {"drain", "drainsig"}

\* One carrier, and none for an empty FIFO unless a worker that drains it
\* still holds its mutex.
Carried(r) ==
  /\ Listed(r) => jobs[r] # <<>> /\ \A w \in Workers : ~BusyOn(w, r)
  /\ \A w, v \in Workers : BusyOn(w, r) /\ BusyOn(v, r) => w = v
  /\ \A w \in Workers : BusyOn(w, r) => IF Draining(w) THEN jobsMutex[r] = w ELSE jobs[r] # <<>>
  /\ jobs[r] # <<>> => Listed(r) \/ \E w \in Workers : BusyOn(w, r)

Inv ==
  /\ Typed /\ JobsRun
  /\ \A r \in Ranks : OwnSlots(r) /\ Carried(r)
  /\ \A c \in Callers : CallerInv(c) /\ Entering(c)
  /\ \A w \in Workers : WorkerInv(w)
  /\ \A q \in Queues : QueueInv(q)

-----------------------------------------------------------------------------
(* Frames: what a step leaves alone                                        *)

\* What a signal may do to the program counter of a caller.
Woken(a, b) ==
  \/ b = a
  \/ a = "waitget" /\ b = "get"
  \/ a = "waitmaster" /\ b = "master"
  \/ a = "wait" /\ b = "woken"

\* A caller that is only woken up keeps its invariant.
LEMMA CallerKept ==
  ASSUME NEW c \in Callers, CallerInv(c), Woken(cpc[c], cpc'[c]),
         call'[c] = call[c], cidx'[c] = cidx[c], got'[c] = got[c]
  PROVE  CallerInv(c)'
BY DEF CallerInv, Woken, Getting, Pairs

LEMMA EnteringKept ==
  ASSUME NEW c \in Callers, Entering(c), Woken(cpc[c], cpc'[c]), got'[c] = got[c],
         \A r : jobsMutex[r] = c => jobs'[r] = jobs[r] /\ jobsMutex'[r] = c
  PROVE  Entering(c)'
BY DEF Entering, Woken

\* A signal on available_jobs_cond wakes at most one caller that waits for it.
LEMMA SlotSignalWakes ==
  ASSUME Typed, NEW s, NEW pcs \in SlotSignal(s)
  PROVE  pcs \in [Callers -> CallerPC] /\ \A c \in Callers : Woken(cpc[c], pcs[c])
<1>1. cpc \in [Callers -> CallerPC]
  BY DEF Typed
<1>2. CASE pcs = cpc
  BY <1>1, <1>2 DEF Woken
<1>3. ASSUME NEW d \in SlotWaiters(RankOf(s)), pcs = [cpc EXCEPT ![d] = Resumed(d)]
      PROVE  pcs \in [Callers -> CallerPC] /\ \A c \in Callers : Woken(cpc[c], pcs[c])
  <2>1. d \in Callers /\ cpc[d] \in {"waitget", "waitmaster"}
    BY DEF SlotWaiters
  <2>2. Resumed(d) \in CallerPC /\ Woken(cpc[d], Resumed(d))
    BY <2>1 DEF Resumed, CallerPC, Woken
  <2>3. pcs \in [Callers -> CallerPC]
    BY <1>1, <1>3, <2>1, <2>2
  <2>4. \A c \in Callers : pcs[c] = IF c = d THEN Resumed(d) ELSE cpc[c]
    BY <1>1, <1>3, <2>1
  <2> QED
    BY <2>2, <2>3, <2>4 DEF Woken
<1> QED
  BY <1>2, <1>3 DEF SlotSignal

LEMMA SyncSignalWakes ==
  ASSUME NEW c, NEW pcs \in [Callers -> CallerPC]
  PROVE  /\ SyncSignal(c, pcs) \in [Callers -> CallerPC]
         /\ \A d \in Callers : Woken(pcs[d], SyncSignal(c, pcs)[d])
<1>1. CASE pcs[c] = "wait"
  <2>1. SyncSignal(c, pcs) = [pcs EXCEPT ![c] = "woken"]
    BY <1>1 DEF SyncSignal
  <2>2. "woken" \in CallerPC
    BY DEF CallerPC
  <2> QED
    BY <1>1, <2>1, <2>2 DEF Woken
<1>2. CASE pcs[c] # "wait"
  <2>1. SyncSignal(c, pcs) = pcs
    BY <1>2 DEF SyncSignal
  <2> QED
    BY <2>1 DEF Woken
<1> QED
  BY <1>1, <1>2

\* A broadcast moves waiting workers to the top of their loop.
LEMMA BroadcastWakes ==
  ASSUME NEW Q, NEW pcs \in [Workers -> WorkerPC]
  PROVE  /\ Broadcast(Q, pcs) \in [Workers -> WorkerPC]
         /\ \A w \in Workers : \/ Broadcast(Q, pcs)[w] = pcs[w]
                               \/ pcs[w] = "wait" /\ Broadcast(Q, pcs)[w] = "main"
BY DEF Broadcast, WorkerPC

\* What a worker that is not scheduled looks like after a step.
Idles(w) ==
  /\ wjob'[w] = wjob[w] /\ wcb'[w] = wcb[w]
  /\ wpc'[w] = wpc[w] \/ (wpc[w] = "wait" /\ wpc'[w] = "main")

LEMMA WorkerKept ==
  ASSUME NEW w \in Workers, WorkerInv(w), Idles(w)
  PROVE  /\ WorkerInv(w)' /\ (Draining(w)' <=> Draining(w))
         /\ \A r : BusyOn(w, r)' <=> BusyOn(w, r)
<1>1. CASE wpc'[w] = wpc[w]
  BY <1>1 DEF WorkerInv, Idles, Draining, BusyOn, Busy
<1>2. CASE wpc[w] = "wait" /\ wpc'[w] = "main"
  BY <1>2 DEF WorkerInv, Idles, Draining, BusyOn, Busy
<1> QED
  BY <1>1, <1>2 DEF Idles

\* A rank that nothing is done to.
LEMMA CarriedKept ==
  ASSUME NEW r \in Ranks, Carried(r), Listed(r)' <=> Listed(r), jobs'[r] = jobs[r],
         \A w \in Workers : BusyOn(w, r)' <=> BusyOn(w, r),
         \A w \in Workers : BusyOn(w, r) => (Draining(w)' <=> Draining(w)),
         \A w \in Workers : jobsMutex[r] = w => jobsMutex'[r] = w
  PROVE  Carried(r)'
BY DEF Carried

\* The worker of a rank goes on with it.
LEMMA CarriedBy ==
  ASSUME NEW r \in Ranks, Carried(r), Listed(r)' <=> Listed(r),
         NEW w \in Workers, BusyOn(w, r), BusyOn(w, r)',
         \A v \in Workers \ {w} : BusyOn(v, r)' <=> BusyOn(v, r),
         IF Draining(w)' THEN jobsMutex'[r] = w ELSE jobs'[r] # <<>>
  PROVE  Carried(r)'
BY DEF Carried

\* The worker of a rank leaves its FIFO empty.
LEMMA CarriedLeft ==
  ASSUME NEW r \in Ranks, Carried(r), Listed(r)' <=> Listed(r),
         NEW w \in Workers, BusyOn(w, r), ~BusyOn(w, r)',
         \A v \in Workers \ {w} : BusyOn(v, r)' <=> BusyOn(v, r),
         jobs'[r] = <<>>
  PROVE  Carried(r)'
BY DEF Carried

\* A step of caller c that adds nothing to a FIFO: the other callers, the
\* workers and the carriers are as they were.
LEMMA CallerFrame ==
  ASSUME Inv, NEW c \in Callers, Typed', JobsRun', CallerInv(c)',
         \A r \in Ranks : OwnSlots(r)',
         cpc[c] # "addq", cpc'[c] # "addq",
         UNCHANGED <<jobs, list, wjob, wcb>>,
         \A w \in Workers : wpc'[w] = wpc[w] \/ (wpc[w] = "wait" /\ wpc'[w] = "main"),
         \A r \in Ranks : jobsMutex[r] \in {NoThread, c} \/ jobsMutex'[r] = jobsMutex[r],
         \A d \in Callers \ {c} : /\ cpc'[d] = cpc[d] /\ call'[d] = call[d]
                                  /\ cidx'[d] = cidx[d] /\ got'[d] = got[d]
  PROVE  Inv'
<1>1. \A w \in Workers : Idles(w)
  BY DEF Idles
<1>2. \A w \in Workers : /\ WorkerInv(w)' /\ (Draining(w)' <=> Draining(w))
                         /\ \A r : BusyOn(w, r)' <=> BusyOn(w, r)
  BY <1>1, WorkerKept DEF Inv
<1>3. \A q \in Queues : QueueInv(q)'
  BY DEF Inv, QueueInv
<1>4. \A r \in Ranks : Listed(r)' <=> Listed(r)
  BY DEF Listed
<1>5. \A w \in Workers : w # NoThread /\ w # c
  BY ThreadsAssumption DEF Threads
<1>6. \A r \in Ranks : Carried(r)'
  <2> SUFFICES ASSUME NEW r \in Ranks PROVE Carried(r)'
    OBVIOUS
  <2>1. Carried(r) /\ jobs'[r] = jobs[r]
    BY DEF Inv
  <2>2. \A w \in Workers : jobsMutex[r] = w => jobsMutex'[r] = w
    BY <1>5
  <2> QED
    BY <1>2, <1>4, <2>1, <2>2, CarriedKept
<1>7. \A d \in Callers : CallerInv(d)' /\ Entering(d)'
  <2> SUFFICES ASSUME NEW d \in Callers PROVE CallerInv(d)' /\ Entering(d)'
    OBVIOUS
  <2>1. CASE d = c
    BY <2>1 DEF Entering
  <2>2. CASE d # c
    <3>1. CallerInv(d)'
      BY <2>2, CallerKept DEF Inv, Woken
    <3>2. d # NoThread
      BY ThreadsAssumption DEF Threads
    <3>3. ASSUME cpc[d] = "addq"
          PROVE  Entering(d)'
      <4>1. Entering(d) /\ got[d] \in Seq(Slots)
        BY DEF Inv, Typed
      <4>2. RankOf(got[d][1]) \in Ranks
        BY <3>3, <4>1 DEF Entering, Slots, RankOf
      <4>3. jobsMutex'[RankOf(got[d][1])] = d
        BY <2>2, <3>2, <3>3, <4>1, <4>2 DEF Entering
      <4> QED
        BY <2>2, <3>3, <4>1, <4>3 DEF Entering
    <3>4. cpc[d] # "addq" => Entering(d)'
      BY <2>2 DEF Entering
    <3> QED
      BY <3>1, <3>3, <3>4
  <2> QED
    BY <2>1, <2>2
<1> QED
  BY <1>2, <1>3, <1>6, <1>7 DEF Inv

\* A step of worker w on rank r: callers are at most woken up, the FIFO and
\* the mutex of another rank are as they were.
LEMMA WorkerFrame ==
  ASSUME Inv, NEW w \in Workers, NEW r \in Ranks, Typed', JobsRun', WorkerInv(w)',
         \A x \in Ranks : OwnSlots(x)', \A q \in Queues : QueueInv(q)',
         UNCHANGED <<call, cidx, got>>,
         \A c \in Callers : Woken(cpc[c], cpc'[c]),
         \A x \in Ranks : jobsMutex[x] \notin {NoThread, w} => jobsMutex'[x] = jobsMutex[x],
         jobsMutex[r] \in {NoThread, w} \/ jobs'[r] = jobs[r],
         \A x \in Ranks \ {r} : /\ jobs'[x] = jobs[x] /\ jobsMutex'[x] = jobsMutex[x]
                                /\ Listed(x)' <=> Listed(x)
                                /\ ~BusyOn(w, x) /\ ~BusyOn(w, x)',
         \A v \in Workers \ {w} : Idles(v),
         (\A v \in Workers \ {w} : BusyOn(v, r)' <=> BusyOn(v, r)) => Carried(r)'
  PROVE  Inv'
<1>1. \A v \in Workers \ {w} : /\ WorkerInv(v)' /\ (Draining(v)' <=> Draining(v))
                               /\ \A x : BusyOn(v, x)' <=> BusyOn(v, x)
  BY WorkerKept DEF Inv
<1>2. \A x \in Ranks : Carried(x)'
  <2> SUFFICES ASSUME NEW x \in Ranks, x # r PROVE Carried(x)'
    BY <1>1
  <2>1. Carried(x) /\ jobs'[x] = jobs[x] /\ jobsMutex'[x] = jobsMutex[x]
    BY DEF Inv
  <2>2. \A v \in Workers : BusyOn(v, x)' <=> BusyOn(v, x)
    BY <1>1
  <2>3. \A v \in Workers : BusyOn(v, x) => (Draining(v)' <=> Draining(v))
    BY <1>1
  <2>4. Listed(x)' <=> Listed(x)
    OBVIOUS
  <2> QED
    BY <2>1, <2>2, <2>3, <2>4, CarriedKept
<1>3. \A c \in Callers : CallerInv(c)'
  BY CallerKept DEF Inv
<1>4. \A c \in Callers : Entering(c)'
  <2> SUFFICES ASSUME NEW c \in Callers, cpc'[c] = "addq" PROVE Entering(c)'
    BY DEF Entering
  <2>1. Entering(c) /\ cpc[c] = "addq" /\ got'[c] = got[c] /\ got[c] \in Seq(Slots)
    BY DEF Inv, Typed, Woken
  <2>2. RankOf(got[c][1]) \in Ranks
    BY <2>1 DEF Entering, Slots, RankOf
  <2>3. c # NoThread /\ c # w
    BY ThreadsAssumption DEF Threads
  <2>4. /\ jobsMutex'[RankOf(got[c][1])] = c
        /\ jobs'[RankOf(got[c][1])] = jobs[RankOf(got[c][1])]
    BY <2>1, <2>2, <2>3 DEF Entering
  <2> QED
    BY <2>1, <2>4 DEF Entering
<1>5. \A v \in Workers : WorkerInv(v)'
  BY <1>1
<1> QED
  BY <1>2, <1>3, <1>4, <1>5 DEF Inv

\* A worker goes on with its rank, or with none, and the FIFOs stay as they are.
LEMMA SameCarrier ==
  ASSUME Inv, NEW w \in Workers, Typed', JobsRun', WorkerInv(w)',
         \A x \in Ranks : OwnSlots(x)',
         UNCHANGED <<jobs, list, jobsMutex, call, cidx, got, wjob>>,
         \A c \in Callers : Woken(cpc[c], cpc'[c]),
         Busy(w)' <=> Busy(w), ~Draining(w), ~Draining(w)',
         \A v \in Workers \ {w} : Idles(v)
  PROVE  Inv'
<1>1. PICK r \in Ranks : r = RankOf(wjob[w])
  BY DEF Inv, Typed, Slots, RankOf
<1>2. \A q \in Queues : QueueInv(q)'
  BY DEF Inv, QueueInv
<1>3. \A x \in Ranks : Listed(x)' <=> Listed(x)
  BY DEF Listed
<1>4. \A x \in Ranks \ {r} : ~BusyOn(w, x) /\ ~BusyOn(w, x)'
  BY <1>1 DEF BusyOn
<1>5. BusyOn(w, r)' <=> BusyOn(w, r)
  BY DEF BusyOn
<1>6. ASSUME \A v \in Workers \ {w} : BusyOn(v, r)' <=> BusyOn(v, r)
      PROVE  Carried(r)'
  <2>1. Carried(r) /\ jobs'[r] = jobs[r] /\ jobsMutex'[r] = jobsMutex[r]
    BY DEF Inv
  <2>2. \A v \in Workers : BusyOn(v, r)' <=> BusyOn(v, r)
    BY <1>5, <1>6
  <2>3. \A v \in Workers : Draining(v)' <=> Draining(v)
    BY WorkerKept DEF Inv
  <2> QED
    BY <1>3, <2>1, <2>2, <2>3, CarriedKept
<1> QED
  BY <1>2, <1>3, <1>4, <1>6, WorkerFrame

-----------------------------------------------------------------------------
(* Slots and sequences                                                     *)

LEMMA SlotRank ==
  ASSUME NEW s \in Slots
  PROVE  RankOf(s) \in Ranks
BY DEF Slots, RankOf

LEMMA AnySlotIsSlot == AnySlot \in Slots
<1>1. PICK r \in Ranks : TRUE
  BY RanksAssumption
<1>2. <<r, 1>> \in Slots
  BY NrJobsAssumption DEF Slots
<1> QED
  BY <1>2 DEF AnySlot

\* The first job of a FIFO and what is left after it.
LEMMA FirstOfFifo ==
  ASSUME Inv, NEW r \in Ranks, jobs[r] # <<>>
  PROVE  /\ Head(jobs[r]) \in Slots /\ RankOf(Head(jobs[r])) = r
         /\ Tail(jobs[r]) \in Seq(Slots)
         /\ \A i \in 1 .. Len(Tail(jobs[r])) : RankOf(Tail(jobs[r])[i]) = r
         /\ Tail(jobs[r]) # <<>> =>
              Head(Tail(jobs[r])) \in Slots /\ RankOf(Head(Tail(jobs[r]))) = r
<1>1. jobs[r] \in Seq(Slots) /\ \A i \in 1 .. Len(jobs[r]) : RankOf(jobs[r][i]) = r
  BY DEF Inv, Typed, OwnSlots
<1>2. /\ Head(jobs[r]) \in Slots /\ Head(jobs[r]) = jobs[r][1] /\ Len(jobs[r]) \in Nat \ {0}
  BY <1>1
<1>3. /\ Tail(jobs[r]) \in Seq(Slots) /\ Len(Tail(jobs[r])) = Len(jobs[r]) - 1
      /\ \A i \in 1 .. Len(Tail(jobs[r])) : Tail(jobs[r])[i] = jobs[r][i + 1]
  BY <1>1, <1>2
<1>4. \A i \in 1 .. Len(Tail(jobs[r])) : RankOf(Tail(jobs[r])[i]) = r
  BY <1>1, <1>2, <1>3
<1>5. Tail(jobs[r]) # <<>> =>
        /\ Head(Tail(jobs[r])) \in Slots /\ Head(Tail(jobs[r])) = Tail(jobs[r])[1]
        /\ 1 \in 1 .. Len(Tail(jobs[r]))
  BY <1>3
<1> QED
  BY <1>1, <1>2, <1>3, <1>4, <1>5

\* A released slot goes to the free list of its rank.
LEMMA ReleasedOwn ==
  ASSUME Inv, NEW s \in Slots, available' = Released(s)
  PROVE  /\ available' \in [Ranks -> Seq(Slots)]
         /\ \A r \in Ranks : \A i \in 1 .. Len(available'[r]) : RankOf(available'[r][i]) = r
<1>1. PICK x \in Ranks : x = RankOf(s)
  BY SlotRank
<1>2. available \in [Ranks -> Seq(Slots)] /\ \A r \in Ranks : OwnSlots(r)
  BY DEF Inv, Typed
<1>3. available' = [available EXCEPT ![x] = Append(@, s)]
  BY <1>1 DEF Released
<1>4. available' \in [Ranks -> Seq(Slots)]
  BY <1>2, <1>3
<1>5. ASSUME NEW i \in 1 .. Len(available'[x])
      PROVE  RankOf(available'[x][i]) = x
  <2>1. available[x] \in Seq(Slots) /\ available'[x] = Append(available[x], s)
    BY <1>2, <1>3
  <2>2. i \in 1 .. Len(available[x]) \/ i = Len(available[x]) + 1
    BY <1>5, <2>1
  <2> QED
    BY <1>1, <1>2, <2>1, <2>2 DEF OwnSlots
<1>6. \A r \in Ranks : r # x => available'[r] = available[r]
  BY <1>2, <1>3
<1> QED
  BY <1>2, <1>4, <1>5, <1>6 DEF OwnSlots

-----------------------------------------------------------------------------
(* Steps of the workers                                                    *)

LEMMA WGotoFacts ==
  ASSUME Inv, NEW w \in Workers, NEW pc \in WorkerPC, WGoto(w, pc)
  PROVE  /\ wpc' \in [Workers -> WorkerPC] /\ wpc'[w] = pc
         /\ \A v \in Workers \ {w} : wpc'[v] = wpc[v]
BY DEF Inv, Typed, WGoto

\* Steps that only move the program counter.
LEMMA PlainStep ==
  ASSUME Inv, NEW w \in Workers, NEW pc \in WorkerPC, WGoto(w, pc),
         UNCHANGED <<fifo, jobsMutex, queueMutex, app, wrk>>,
         cpc' \in [Callers -> CallerPC], \A c \in Callers : Woken(cpc[c], cpc'[c]),
         \/ /\ wpc[w] \in {"lock", "compute", "signal"}
            /\ pc \in {"compute", "signal", "advance", "update"}
         \/ wpc[w] = "main" /\ pc \in {"wait", "done"}
  PROVE  Inv'
<1>1. /\ wpc' \in [Workers -> WorkerPC] /\ wpc'[w] = pc
      /\ \A v \in Workers \ {w} : wpc'[v] = wpc[v]
  BY WGotoFacts
<1>2. Typed'
  BY <1>1 DEF Inv, Typed, fifo, app, wrk
<1>3. JobsRun'
  BY DEF Inv, JobsRun, fifo
<1>4. \A r \in Ranks : OwnSlots(r)'
  BY DEF Inv, OwnSlots, fifo
<1>5. WorkerInv(w)'
  BY <1>1 DEF Inv, WorkerInv, wrk
<1>6. \A v \in Workers \ {w} : Idles(v)
  BY <1>1 DEF Idles, wrk
<1>7. (Busy(w)' <=> Busy(w)) /\ ~Draining(w) /\ ~Draining(w)'
  BY <1>1 DEF Busy, Draining
<1>8. UNCHANGED <<jobs, list, jobsMutex, call, cidx, got, wjob>>
  BY DEF fifo, app, wrk
<1> QED
  BY <1>2, <1>3, <1>4, <1>5, <1>6, <1>7, <1>8, SameCarrier

LEMMA InvWorkerStop ==
  ASSUME Inv, NEW w \in Workers, WorkerStop(w) \/ WorkerWait(w)
  PROVE  Inv'
<1>1. "done" \in WorkerPC /\ "wait" \in WorkerPC
  BY DEF WorkerPC
<1>2. cpc' \in [Callers -> CallerPC] /\ \A c \in Callers : Woken(cpc[c], cpc'[c])
  BY DEF Inv, Typed, WorkerStop, WorkerWait, Woken
<1>3. CASE WorkerStop(w)
  BY <1>1, <1>2, <1>3, PlainStep DEF WorkerStop, locks
<1>4. CASE WorkerWait(w)
  BY <1>1, <1>2, <1>4, PlainStep DEF WorkerWait, locks
<1> QED
  BY <1>3, <1>4

LEMMA InvWorkerLock ==
  ASSUME Inv, NEW w \in Workers, WorkerLock(w)
  PROVE  Inv'
<1>1. "compute" \in WorkerPC
  BY DEF WorkerPC
<1>2. cpc' \in [Callers -> CallerPC] /\ \A c \in Callers : Woken(cpc[c], cpc'[c])
  BY DEF Inv, Typed, WorkerLock, Woken
<1> QED
  BY <1>1, <1>2, PlainStep DEF WorkerLock

LEMMA InvComputeWork ==
  ASSUME Inv, NEW w \in Workers, NEW ok \in BOOLEAN, ComputeWork(w, ok)
  PROVE  Inv'
<1>1. PICK pc \in WorkerPC : pc \in {"advance", "update"} /\ WGoto(w, pc)
  BY DEF WorkerPC, ComputeWork
<1>2. cpc' \in [Callers -> CallerPC] /\ \A c \in Callers : Woken(cpc[c], cpc'[c])
  BY DEF Inv, Typed, ComputeWork, Woken
<1> QED
  BY <1>1, <1>2, PlainStep DEF ComputeWork, locks

LEMMA InvComputeSync ==
  ASSUME Inv, NEW w \in Workers, ComputeSync(w)
  PROVE  Inv'
<1>1. PICK pc \in WorkerPC : pc \in {"advance", "signal"} /\ WGoto(w, pc)
  BY DEF WorkerPC, ComputeSync
<1>2. cpc' \in [Callers -> CallerPC] /\ \A c \in Callers : Woken(cpc[c], cpc'[c])
  BY DEF Inv, Typed, ComputeSync, Woken
<1> QED
  BY <1>1, <1>2, PlainStep DEF ComputeSync, locks

LEMMA InvSignal ==
  ASSUME Inv, NEW w \in Workers, Signal(w)
  PROVE  Inv'
<1>1. "advance" \in WorkerPC
  BY DEF WorkerPC
<1>2. cpc' \in [Callers -> CallerPC] /\ \A c \in Callers : Woken(cpc[c], cpc'[c])
  BY SyncSignalWakes DEF Inv, Typed, Signal
<1> QED
  BY <1>1, <1>2, PlainStep DEF Signal, locks

\* A callback job: a worker that runs the function stays with its rank, unless
\* the callback is nonblocking, and then first gives the FIFO back.
LEMMA InvComputeCallback ==
  ASSUME Inv, NEW w \in Workers, ComputeCallback(w)
  PROVE  Inv'
<1>1. PICK m \in Slots :
        /\ job' = [job EXCEPT ![m].nr = @ - 1]
        /\ \/ /\ wcb' = [wcb EXCEPT ![w] =
                   [set |-> job[m].set, master |-> job[wjob[w]].master, sync |-> job[m].sync,
                    nonblocking |-> job[m].nonblocking, single |-> job[m].single, failed |-> FALSE]]
              /\ CASE job[m].nonblocking -> WGoto(w, "cbadvance")
                   [] ~job[m].nonblocking /\ job[m].single -> WGoto(w, "cblock")
                   [] ~job[m].nonblocking /\ ~job[m].single -> WGoto(w, "cbrun")
              /\ UNCHANGED <<parked, wjob>>
           \/ /\ ~Parks(job[m])
              /\ UNCHANGED <<parked, wjob, wcb>> /\ WGoto(w, "advance")
  <2>1. wjob[w] \in Slots /\ job[wjob[w]].master \in Slots \cup {NoSlot}
    BY DEF Inv, Typed, JobRecord
  <2>2. PICK m \in Slots : m = IF job[wjob[w]].master = NoSlot THEN wjob[w] ELSE job[wjob[w]].master
    BY <2>1
  <2>3. ~Parks(job[m])
    BY DEF Inv, JobsRun, Parks
  <2> QED
    BY <2>2, <2>3 DEF ComputeCallback
<1>2. job \in [Slots -> JobRecord] /\ wcb \in [Workers -> CallbackType] /\ wjob \in [Workers -> Slots]
  BY DEF Inv, Typed
<1>3. job[m] \in JobRecord /\ job[m].nr - 1 \in Int
  BY <1>2 DEF JobRecord
<1>4. job' \in [Slots -> JobRecord] /\ \A s \in Slots : /\ job'[s].single = job[s].single
                                                       /\ job'[s].nonblocking = job[s].nonblocking
  <2>1. job' = [job EXCEPT ![m] = [job[m] EXCEPT !.nr = job[m].nr - 1]]
    BY <1>1, <1>2
  <2>2. /\ [job[m] EXCEPT !.nr = job[m].nr - 1] \in JobRecord
        /\ [job[m] EXCEPT !.nr = job[m].nr - 1].single = job[m].single
        /\ [job[m] EXCEPT !.nr = job[m].nr - 1].nonblocking = job[m].nonblocking
    BY <1>3 DEF JobRecord
  <2> QED
    BY <1>2, <2>1, <2>2
<1>5. JobsRun'
  BY <1>4 DEF Inv, JobsRun
<1>6. job[m].single => job[m].nonblocking
  BY DEF Inv, JobsRun
<1>7. /\ UNCHANGED <<available, jobs, list, jobsMutex, queueMutex, cpc, app>> /\ wpc[w] = "compute"
  BY DEF ComputeCallback
<1>8. \A r \in Ranks : OwnSlots(r)'
  BY <1>7 DEF Inv, OwnSlots
<1>9. \A c \in Callers : Woken(cpc[c], cpc'[c])
  BY <1>7 DEF Woken
<1>10. ~Draining(w)
  BY <1>7 DEF Draining
<1>11. CASE /\ wcb' = [wcb EXCEPT ![w] =
                   [set |-> job[m].set, master |-> job[wjob[w]].master, sync |-> job[m].sync,
                    nonblocking |-> job[m].nonblocking, single |-> job[m].single, failed |-> FALSE]]
            /\ CASE job[m].nonblocking -> WGoto(w, "cbadvance")
                 [] ~job[m].nonblocking /\ job[m].single -> WGoto(w, "cblock")
                 [] ~job[m].nonblocking /\ ~job[m].single -> WGoto(w, "cbrun")
            /\ UNCHANGED <<parked, wjob>>
  <2>1. PICK pc \in WorkerPC : /\ WGoto(w, pc)
                               /\ \/ pc = "cbadvance" /\ job[m].nonblocking
                                  \/ pc = "cbrun" /\ ~job[m].nonblocking
    BY <1>3, <1>6, <1>11 DEF WorkerPC, JobRecord
  <2>2. /\ wpc' \in [Workers -> WorkerPC] /\ wpc'[w] = pc
        /\ \A v \in Workers \ {w} : wpc'[v] = wpc[v]
    BY <2>1, WGotoFacts
  <2>3. wcb' \in [Workers -> CallbackType]
    BY <1>2, <1>3, <1>11 DEF JobRecord, CallbackType
  <2>4. /\ wcb'[w].nonblocking = job[m].nonblocking /\ wcb'[w].single = job[m].single
        /\ \A v \in Workers \ {w} : wcb'[v] = wcb[v]
    BY <1>2, <1>11
  <2>5. Typed'
    BY <1>4, <1>7, <1>11, <2>2, <2>3 DEF Inv, Typed, app
  <2>6. WorkerInv(w)'
    BY <1>6, <2>1, <2>2, <2>4 DEF WorkerInv
  <2>7. (Busy(w)' <=> Busy(w)) /\ ~Draining(w)'
    BY <1>7, <2>1, <2>2, <2>4 DEF Busy, Draining
  <2>8. \A v \in Workers \ {w} : Idles(v)
    BY <1>11, <2>2, <2>4 DEF Idles
  <2> QED
    BY <1>5, <1>7, <1>8, <1>9, <1>10, <1>11, <2>5, <2>6, <2>7, <2>8, SameCarrier DEF app
<1>12. CASE UNCHANGED <<parked, wjob, wcb>> /\ WGoto(w, "advance")
  <2>1. "advance" \in WorkerPC
    BY DEF WorkerPC
  <2>2. /\ wpc' \in [Workers -> WorkerPC] /\ wpc'[w] = "advance"
        /\ \A v \in Workers \ {w} : wpc'[v] = wpc[v]
    BY <1>12, <2>1, WGotoFacts
  <2>3. Typed'
    BY <1>4, <1>7, <1>12, <2>2 DEF Inv, Typed, app
  <2>4. WorkerInv(w)'
    BY <1>12, <2>2 DEF Inv, WorkerInv
  <2>5. (Busy(w)' <=> Busy(w)) /\ ~Draining(w)'
    BY <1>7, <2>2 DEF Busy, Draining
  <2>6. \A v \in Workers \ {w} : Idles(v)
    BY <1>12, <2>2 DEF Idles
  <2> QED
    BY <1>5, <1>7, <1>8, <1>9, <1>10, <1>12, <2>3, <2>4, <2>5, <2>6, SameCarrier DEF app
<1> QED
  BY <1>1, <1>11, <1>12

\* The function of a callback returns.
LEMMA InvCallbackReturn ==
  ASSUME Inv, NEW w \in Workers, NEW ok \in BOOLEAN, CallbackReturn(w, ok)
  PROVE  Inv'
<1>1. wcb \in [Workers -> CallbackType] /\ wcb[w] \in CallbackType
  BY DEF Inv, Typed
<1>2. wcb' = [wcb EXCEPT ![w] = [wcb[w] EXCEPT !.failed = ~ok]]
  BY <1>1 DEF CallbackReturn
<1>3. PICK cb : cb = [wcb[w] EXCEPT !.failed = ~ok]
  OBVIOUS
<1>4. /\ cb \in CallbackType /\ cb.failed = ~ok
      /\ cb.nonblocking = wcb[w].nonblocking /\ cb.single = wcb[w].single
      /\ cb.master = wcb[w].master
  BY <1>1, <1>3 DEF CallbackType
<1>5. /\ wcb' \in [Workers -> CallbackType] /\ wcb'[w] = cb
      /\ \A v \in Workers \ {w} : wcb'[v] = wcb[v]
  BY <1>1, <1>2, <1>3, <1>4
<1>6. /\ wcb[w].single \in BOOLEAN /\ wcb[w].nonblocking \in BOOLEAN
      /\ wcb[w].master \in Slots \cup {NoSlot}
  BY <1>1 DEF CallbackType
<1>7. wcb[w].single => wcb[w].nonblocking
  BY DEF Inv, WorkerInv
<1>8. WGoto(w, IF wcb[w].master # NoSlot THEN "relmaster" ELSE AfterCallback(cb))
  <2>1. ~(wcb[w].single /\ ~wcb[w].nonblocking /\ ~wcb[w].sync)
    BY <1>7
  <2> QED
    BY <1>3, <2>1 DEF CallbackReturn
<1>9. PICK pc \in WorkerPC :
        /\ WGoto(w, pc)
        /\ \/ pc = "relmaster" /\ wcb[w].master \in Slots
           \/ pc = "main" /\ wcb[w].nonblocking
           \/ pc \in {"update", "advance"} /\ ~wcb[w].nonblocking
  <2>1. CASE wcb[w].master # NoSlot
    BY <1>6, <1>8, <2>1 DEF WorkerPC
  <2>2. CASE wcb[w].master = NoSlot /\ cb.nonblocking
    <3>1. AfterCallback(cb) = "main"
      BY <2>2 DEF AfterCallback
    <3> QED
      BY <1>4, <1>8, <2>2, <3>1 DEF WorkerPC
  <2>3. CASE wcb[w].master = NoSlot /\ ~cb.nonblocking
    <3>1. AfterCallback(cb) \in {"update", "advance"}
      BY <1>4, <2>3 DEF AfterCallback
    <3> QED
      BY <1>4, <1>8, <2>3, <3>1 DEF WorkerPC
  <2> QED
    BY <2>1, <2>2, <2>3
<1>10. /\ wpc' \in [Workers -> WorkerPC] /\ wpc'[w] = pc
       /\ \A v \in Workers \ {w} : wpc'[v] = wpc[v]
  BY <1>9, WGotoFacts
<1>11. UNCHANGED <<fifo, jobsMutex, queueMutex, cpc, app, wjob>> /\ wpc[w] = "cbrun"
  BY DEF CallbackReturn
<1>12. Typed'
  BY <1>5, <1>10, <1>11 DEF Inv, Typed, app, fifo
<1>13. JobsRun' /\ \A r \in Ranks : OwnSlots(r)'
  BY <1>11 DEF Inv, JobsRun, OwnSlots, fifo
<1>14. WorkerInv(w)'
  BY <1>4, <1>5, <1>7, <1>9, <1>10 DEF WorkerInv
<1>15. (Busy(w)' <=> Busy(w)) /\ ~Draining(w) /\ ~Draining(w)'
  BY <1>4, <1>5, <1>6, <1>9, <1>10, <1>11 DEF Busy, Draining
<1>16. \A v \in Workers \ {w} : Idles(v)
  BY <1>5, <1>10, <1>11 DEF Idles
<1>17. \A c \in Callers : Woken(cpc[c], cpc'[c])
  BY <1>11 DEF Woken
<1> QED
  BY <1>11, <1>12, <1>13, <1>14, <1>15, <1>16, <1>17, SameCarrier DEF app, fifo

LEMMA InvReleaseMaster ==
  ASSUME Inv, NEW w \in Workers, ReleaseMaster(w)
  PROVE  Inv'
<1>1. /\ wpc[w] = "relmaster" /\ wcb[w].master \in Slots /\ wcb[w] \in CallbackType
  BY DEF Inv, Typed, WorkerInv, ReleaseMaster
<1>2. wcb[w].nonblocking \in BOOLEAN /\ wcb[w].failed \in BOOLEAN
  BY <1>1 DEF CallbackType
<1>3. PICK pc \in WorkerPC :
        /\ WGoto(w, pc)
        /\ \/ pc = "main" /\ wcb[w].nonblocking
           \/ pc \in {"update", "advance"} /\ ~wcb[w].nonblocking
  BY <1>2 DEF WorkerPC, ReleaseMaster, AfterCallback
<1>4. /\ wpc' \in [Workers -> WorkerPC] /\ wpc'[w] = pc
      /\ \A v \in Workers \ {w} : wpc'[v] = wpc[v]
  BY <1>3, WGotoFacts
<1>5. /\ available' \in [Ranks -> Seq(Slots)]
      /\ \A r \in Ranks : \A i \in 1 .. Len(available'[r]) : RankOf(available'[r][i]) = r
  BY <1>1, ReleasedOwn DEF ReleaseMaster
<1>6. cpc' \in [Callers -> CallerPC] /\ \A c \in Callers : Woken(cpc[c], cpc'[c])
  BY SlotSignalWakes DEF Inv, ReleaseMaster
<1>7. UNCHANGED <<jobs, job, list, parked, jobsMutex, queueMutex, call, cidx, got, wjob, wcb>>
  BY DEF ReleaseMaster, locks, app, wrk
<1>8. Typed'
  BY <1>4, <1>5, <1>6, <1>7 DEF Inv, Typed
<1>9. JobsRun' /\ \A r \in Ranks : OwnSlots(r)'
  BY <1>5, <1>7 DEF Inv, JobsRun, OwnSlots
<1>10. WorkerInv(w)'
  BY <1>3, <1>4, <1>7 DEF Inv, WorkerInv
<1>11. (Busy(w)' <=> Busy(w)) /\ ~Draining(w) /\ ~Draining(w)'
  BY <1>1, <1>2, <1>3, <1>4, <1>7 DEF Busy, Draining
<1>12. \A v \in Workers \ {w} : Idles(v)
  BY <1>4, <1>7 DEF Idles
<1> QED
  BY <1>6, <1>7, <1>8, <1>9, <1>10, <1>11, <1>12, SameCarrier

\* A worker takes the first rank of its queue.
LEMMA InvWorkerTake ==
  ASSUME Inv, NEW w \in Workers, WorkerTake(w)
  PROVE  Inv'
<1>1. PICK q \in Queues : q = QueueOf(w)
  BY RanksAssumption DEF QueueOf
<1>2. /\ wpc[w] = "main" /\ list[q] # <<>>
      /\ wjob' = [wjob EXCEPT ![w] = Head(list[q])]
      /\ list' = [list EXCEPT ![q] = Tail(@)]
      /\ WGoto(w, "lock")
      /\ UNCHANGED <<available, jobs, job, parked, jobsMutex, queueMutex, cpc, call, cidx, got, wcb>>
  BY <1>1 DEF WorkerTake, locks, app
<1>3. /\ list \in [Queues -> Seq(Slots)] /\ list[q] \in Seq(Slots) /\ wjob \in [Workers -> Slots]
  BY DEF Inv, Typed
<1>4. /\ Head(list[q]) \in Slots /\ Head(list[q]) = list[q][1] /\ Len(list[q]) \in Nat \ {0}
      /\ Tail(list[q]) \in Seq(Slots) /\ Len(Tail(list[q])) = Len(list[q]) - 1
      /\ \A i \in 1 .. (Len(list[q]) - 1) : Tail(list[q])[i] = list[q][i + 1]
  BY <1>2, <1>3
<1>5. PICK r \in Ranks : r = RankOf(list[q][1])
  BY <1>4, SlotRank
<1>6. /\ list' \in [Queues -> Seq(Slots)] /\ list'[q] = Tail(list[q])
      /\ \A p \in Queues \ {q} : list'[p] = list[p]
  BY <1>2, <1>3, <1>4
<1>7. /\ wjob' \in [Workers -> Slots] /\ RankOf(wjob'[w]) = r
      /\ \A v \in Workers \ {w} : wjob'[v] = wjob[v]
  BY <1>2, <1>3, <1>4, <1>5
<1>8. /\ wpc' \in [Workers -> WorkerPC] /\ wpc'[w] = "lock"
      /\ \A v \in Workers \ {w} : wpc'[v] = wpc[v]
  <2>1. "lock" \in WorkerPC
    BY DEF WorkerPC
  <2> QED
    BY <1>2, <2>1, WGotoFacts
<1>9. Typed'
  BY <1>2, <1>6, <1>7, <1>8 DEF Inv, Typed
<1>10. JobsRun' /\ \A x \in Ranks : OwnSlots(x)'
  BY <1>2 DEF Inv, JobsRun, OwnSlots
<1>11. WorkerInv(w)'
  BY <1>2, <1>8 DEF Inv, WorkerInv
<1>12. \A v \in Workers \ {w} : Idles(v)
  BY <1>2, <1>7, <1>8 DEF Idles
<1>13. QueueInv(q) /\ Carried(r)
  BY DEF Inv
<1>14. \A i \in 1 .. Len(list'[q]) :
         i + 1 \in 1 .. Len(list[q]) /\ i \in Nat \ {0} /\ list'[q][i] = list[q][i + 1]
  BY <1>4, <1>6
<1>15. 1 \in 1 .. Len(list[q])
  BY <1>4
<1>16. QueueInv(q)'
  <2>1. ASSUME NEW i \in 1 .. Len(list'[q]), NEW j \in 1 .. Len(list'[q]),
               RankOf(list'[q][i]) = RankOf(list'[q][j])
        PROVE  i = j
    <3>1. i + 1 = j + 1
      BY <1>13, <1>14, <2>1 DEF QueueInv
    <3> QED
      BY <1>14, <3>1
  <2> QED
    BY <1>13, <1>14, <2>1 DEF QueueInv
<1>17. \A p \in Queues : QueueInv(p)'
  BY <1>6, <1>16 DEF Inv, QueueInv
<1>18. QueueIdx[r] = q /\ Listed(r)
  BY <1>5, <1>13, <1>15 DEF QueueInv, Listed
<1>19. ~Listed(r)'
  <2> SUFFICES ASSUME NEW p \in Queues, NEW i \in 1 .. Len(list'[p]), RankOf(list'[p][i]) = r
               PROVE  FALSE
    BY DEF Listed
  <2>1. p = q
    BY <1>17, <1>18 DEF QueueInv
  <2>2. i + 1 = 1
    BY <1>5, <1>13, <1>14, <1>15, <2>1 DEF QueueInv
  <2> QED
    BY <1>14, <2>1, <2>2
<1>20. \A x \in Ranks \ {r} : Listed(x)' <=> Listed(x)
  <2> SUFFICES ASSUME NEW x \in Ranks \ {r} PROVE Listed(x)' <=> Listed(x)
    OBVIOUS
  <2>1. ASSUME NEW i \in 1 .. Len(list[q]), RankOf(list[q][i]) = x
        PROVE  \E j \in 1 .. Len(list'[q]) : RankOf(list'[q][j]) = x
    <3>1. i # 1
      BY <1>5, <2>1
    <3>2. i - 1 \in 1 .. Len(list'[q]) /\ list'[q][i - 1] = list[q][i]
      BY <1>4, <1>6, <3>1
    <3> QED
      BY <2>1, <3>2
  <2>2. ASSUME NEW i \in 1 .. Len(list'[q]), RankOf(list'[q][i]) = x
        PROVE  \E j \in 1 .. Len(list[q]) : RankOf(list[q][j]) = x
    BY <1>14, <2>2
  <2> QED
    BY <1>6, <2>1, <2>2 DEF Listed
<1>21. \A x \in Ranks \ {r} : ~BusyOn(w, x) /\ ~BusyOn(w, x)'
  BY <1>2, <1>7 DEF BusyOn, Busy
<1>22. ~BusyOn(w, r) /\ BusyOn(w, r)' /\ ~Draining(w)'
  BY <1>2, <1>7, <1>8 DEF BusyOn, Busy, Draining
<1>23. ASSUME \A v \in Workers \ {w} : BusyOn(v, r)' <=> BusyOn(v, r)
       PROVE  Carried(r)'
  BY <1>2, <1>13, <1>18, <1>19, <1>22, <1>23 DEF Carried
<1>24. \A c \in Callers : Woken(cpc[c], cpc'[c])
  BY <1>2 DEF Woken
<1>25. /\ \A x \in Ranks : jobsMutex'[x] = jobsMutex[x] /\ jobs'[x] = jobs[x]
       /\ UNCHANGED <<call, cidx, got>>
  BY <1>2
<1> QED
  BY <1>9, <1>10, <1>11, <1>12, <1>17, <1>20, <1>21, <1>23, <1>24, <1>25, WorkerFrame

\* The worker of rank r, with jobs_mutex free or its own, works on its FIFO: it
\* goes on with it or leaves it empty.
LEMMA OwnRankStep ==
  ASSUME Inv, NEW w \in Workers, NEW r \in Ranks, BusyOn(w, r), jobsMutex[r] \in {NoThread, w},
         Typed', JobsRun', WorkerInv(w)', \A x \in Ranks : OwnSlots(x)',
         UNCHANGED <<list, call, cidx, got>>,
         \A c \in Callers : Woken(cpc[c], cpc'[c]),
         \A x \in Ranks \ {r} : jobs'[x] = jobs[x] /\ jobsMutex'[x] = jobsMutex[x],
         \A v \in Workers \ {w} : Idles(v),
         \/ /\ BusyOn(w, r)'
            /\ IF Draining(w)' THEN jobsMutex'[r] = w ELSE jobs'[r] # <<>>
         \/ ~Busy(w)' /\ jobs'[r] = <<>>
  PROVE  Inv'
<1>1. \A q \in Queues : QueueInv(q)'
  BY DEF Inv, QueueInv
<1>2. \A x \in Ranks : Listed(x)' <=> Listed(x)
  BY DEF Listed
<1>3. \A x \in Ranks \ {r} : ~BusyOn(w, x) /\ ~BusyOn(w, x)'
  BY DEF BusyOn
<1>4. ASSUME \A v \in Workers \ {w} : BusyOn(v, r)' <=> BusyOn(v, r)
      PROVE  Carried(r)'
  <2>1. Carried(r) /\ (Listed(r)' <=> Listed(r))
    BY <1>2 DEF Inv
  <2>2. CASE /\ BusyOn(w, r)'
             /\ IF Draining(w)' THEN jobsMutex'[r] = w ELSE jobs'[r] # <<>>
    BY <1>4, <2>1, <2>2, CarriedBy
  <2>3. CASE ~Busy(w)' /\ jobs'[r] = <<>>
    <3>1. ~BusyOn(w, r)'
      BY <2>3 DEF BusyOn
    <3> QED
      BY <1>4, <2>1, <2>3, <3>1, CarriedLeft
  <2> QED
    BY <2>2, <2>3
<1>5. \A x \in Ranks : jobsMutex[x] \notin {NoThread, w} => jobsMutex'[x] = jobsMutex[x]
  OBVIOUS
<1> QED
  BY <1>1, <1>2, <1>3, <1>4, <1>5, WorkerFrame

\* The first job leaves the FIFO of a rank; its slot may be given back.
LEMMA FifoAdvanced ==
  ASSUME Inv, NEW r \in Ranks, jobs[r] # <<>>, jobs' = [jobs EXCEPT ![r] = Tail(jobs[r])],
         available' = available \/ available' = Released(Head(jobs[r]))
  PROVE  /\ jobs' \in [Ranks -> Seq(Slots)] /\ jobs'[r] = Tail(jobs[r])
         /\ \A x \in Ranks \ {r} : jobs'[x] = jobs[x]
         /\ available' \in [Ranks -> Seq(Slots)]
         /\ \A x \in Ranks : OwnSlots(x)'
<1>1. jobs \in [Ranks -> Seq(Slots)] /\ \A x \in Ranks : OwnSlots(x)
  BY DEF Inv, Typed
<1>2. /\ Head(jobs[r]) \in Slots /\ Tail(jobs[r]) \in Seq(Slots)
      /\ \A i \in 1 .. Len(Tail(jobs[r])) : RankOf(Tail(jobs[r])[i]) = r
  BY FirstOfFifo
<1>3. /\ jobs' \in [Ranks -> Seq(Slots)] /\ jobs'[r] = Tail(jobs[r])
      /\ \A x \in Ranks \ {r} : jobs'[x] = jobs[x]
  BY <1>1, <1>2
<1>4. /\ available' \in [Ranks -> Seq(Slots)]
      /\ \A x \in Ranks : \A i \in 1 .. Len(available'[x]) : RankOf(available'[x][i]) = x
  <2>1. CASE available' = available
    BY <1>1, <2>1 DEF Inv, Typed, OwnSlots
  <2>2. CASE available' = Released(Head(jobs[r]))
    BY <1>2, <2>2, ReleasedOwn
  <2> QED
    BY <2>1, <2>2
<1>5. \A x \in Ranks : \A i \in 1 .. Len(jobs'[x]) : RankOf(jobs'[x][i]) = x
  BY <1>1, <1>2, <1>3 DEF OwnSlots
<1> QED
  BY <1>3, <1>4, <1>5 DEF OwnSlots

\* The job of the worker and what is left: the next one of its rank.
LEMMA InvAdvance ==
  ASSUME Inv, NEW w \in Workers, Advance(w)
  PROVE  Inv'
<1>1. PICK r \in Ranks : r = RankOf(wjob[w])
  BY SlotRank DEF Inv, Typed
<1>2. /\ wpc[w] = "advance" /\ jobsMutex[r] = NoThread
      /\ jobs' = [jobs EXCEPT ![r] = Tail(jobs[r])]
      /\ available' = Released(Head(jobs[r])) /\ cpc' \in SlotSignal(Head(jobs[r]))
      /\ UNCHANGED <<job, list, parked, jobsMutex, queueMutex, call, cidx, got, wcb>>
  BY <1>1 DEF Advance, app
<1>3. BusyOn(w, r) /\ ~Draining(w)
  BY <1>1, <1>2 DEF BusyOn, Busy, Draining
<1>4. jobs[r] # <<>>
  BY <1>3 DEF Inv, Carried
<1>5. /\ jobs' \in [Ranks -> Seq(Slots)] /\ jobs'[r] = Tail(jobs[r])
      /\ \A x \in Ranks \ {r} : jobs'[x] = jobs[x]
      /\ available' \in [Ranks -> Seq(Slots)]
      /\ \A x \in Ranks : OwnSlots(x)'
  BY <1>2, <1>4, FifoAdvanced
<1>6. cpc' \in [Callers -> CallerPC] /\ \A c \in Callers : Woken(cpc[c], cpc'[c])
  BY <1>2, SlotSignalWakes DEF Inv
<1>7. PICK pc \in WorkerPC, s \in Slots :
        /\ WGoto(w, pc) /\ wjob' = [wjob EXCEPT ![w] = s]
        /\ \/ pc = "main" /\ Tail(jobs[r]) = <<>>
           \/ pc = "compute" /\ Tail(jobs[r]) # <<>> /\ RankOf(s) = r
  <2>1. CASE Tail(jobs[r]) = <<>>
    BY <1>1, <2>1, AnySlotIsSlot DEF Advance, MainLoop, WorkerPC
  <2>2. CASE Tail(jobs[r]) # <<>>
    BY <1>1, <1>4, <2>2, FirstOfFifo DEF Advance, WorkerPC
  <2> QED
    BY <2>1, <2>2
<1>8. /\ wpc' \in [Workers -> WorkerPC] /\ wpc'[w] = pc
      /\ \A v \in Workers \ {w} : wpc'[v] = wpc[v]
  BY <1>7, WGotoFacts
<1>9. /\ wjob' \in [Workers -> Slots] /\ wjob'[w] = s
      /\ \A v \in Workers \ {w} : wjob'[v] = wjob[v]
  BY <1>7 DEF Inv, Typed
<1>10. Typed'
  BY <1>2, <1>5, <1>6, <1>8, <1>9 DEF Inv, Typed
<1>11. JobsRun'
  BY <1>2 DEF Inv, JobsRun
<1>12. WorkerInv(w)'
  BY <1>2, <1>7, <1>8 DEF Inv, WorkerInv
<1>13. \A v \in Workers \ {w} : Idles(v)
  BY <1>2, <1>8, <1>9 DEF Idles
<1>14. \/ BusyOn(w, r)' /\ ~Draining(w)' /\ jobs'[r] # <<>>
       \/ ~Busy(w)' /\ jobs'[r] = <<>>
  BY <1>5, <1>7, <1>8, <1>9 DEF BusyOn, Busy, Draining
<1> QED
  BY <1>2, <1>3, <1>5, <1>6, <1>10, <1>11, <1>12, <1>13, <1>14, OwnRankStep

\* A nonblocking callback leaves the FIFO, empty or to be listed again.
LEMMA InvCallbackAdvance ==
  ASSUME Inv, NEW w \in Workers, CallbackAdvance(w)
  PROVE  Inv'
<1>1. PICK r \in Ranks : r = RankOf(wjob[w])
  BY SlotRank DEF Inv, Typed
<1>2. /\ wpc[w] = "cbadvance" /\ jobsMutex[r] = NoThread
      /\ jobs' = [jobs EXCEPT ![r] = Tail(jobs[r])]
      /\ available' = Released(Head(jobs[r])) /\ cpc' \in SlotSignal(Head(jobs[r]))
      /\ UNCHANGED <<job, list, parked, jobsMutex, queueMutex, call, cidx, got, wcb>>
  BY <1>1 DEF CallbackAdvance, app, locks
<1>3. BusyOn(w, r) /\ ~Draining(w) /\ wcb[w].nonblocking
  BY <1>1, <1>2 DEF BusyOn, Busy, Draining, Inv, WorkerInv
<1>4. jobs[r] # <<>>
  BY <1>3 DEF Inv, Carried
<1>5. /\ jobs' \in [Ranks -> Seq(Slots)] /\ jobs'[r] = Tail(jobs[r])
      /\ \A x \in Ranks \ {r} : jobs'[x] = jobs[x]
      /\ available' \in [Ranks -> Seq(Slots)]
      /\ \A x \in Ranks : OwnSlots(x)'
  BY <1>2, <1>4, FifoAdvanced
<1>6. cpc' \in [Callers -> CallerPC] /\ \A c \in Callers : Woken(cpc[c], cpc'[c])
  BY <1>2, SlotSignalWakes DEF Inv
<1>7. PICK pc \in WorkerPC, s \in Slots :
        /\ WGoto(w, pc) /\ wjob' = [wjob EXCEPT ![w] = s]
        /\ \/ pc = "cbrun" /\ Tail(jobs[r]) = <<>>
           \/ pc = "cbinsert" /\ Tail(jobs[r]) # <<>> /\ RankOf(s) = r
  <2>1. CASE Tail(jobs[r]) = <<>>
    <3>1. wjob' = [wjob EXCEPT ![w] = wjob[w]] /\ wjob[w] \in Slots
      BY <1>1, <2>1 DEF CallbackAdvance, Inv, Typed
    <3> QED
      BY <1>1, <2>1, <3>1 DEF CallbackAdvance, WorkerPC
  <2>2. CASE Tail(jobs[r]) # <<>>
    BY <1>1, <1>4, <2>2, FirstOfFifo DEF CallbackAdvance, WorkerPC
  <2> QED
    BY <2>1, <2>2
<1>8. /\ wpc' \in [Workers -> WorkerPC] /\ wpc'[w] = pc
      /\ \A v \in Workers \ {w} : wpc'[v] = wpc[v]
  BY <1>7, WGotoFacts
<1>9. /\ wjob' \in [Workers -> Slots] /\ wjob'[w] = s
      /\ \A v \in Workers \ {w} : wjob'[v] = wjob[v]
  BY <1>7 DEF Inv, Typed
<1>10. Typed'
  BY <1>2, <1>5, <1>6, <1>8, <1>9 DEF Inv, Typed
<1>11. JobsRun'
  BY <1>2 DEF Inv, JobsRun
<1>12. WorkerInv(w)'
  BY <1>2, <1>3, <1>7, <1>8 DEF Inv, WorkerInv
<1>13. \A v \in Workers \ {w} : Idles(v)
  BY <1>2, <1>8, <1>9 DEF Idles
<1>14. \/ BusyOn(w, r)' /\ ~Draining(w)' /\ jobs'[r] # <<>>
       \/ ~Busy(w)' /\ jobs'[r] = <<>>
  BY <1>2, <1>3, <1>5, <1>7, <1>8, <1>9 DEF BusyOn, Busy, Draining
<1> QED
  BY <1>2, <1>3, <1>5, <1>6, <1>10, <1>11, <1>12, <1>13, <1>14, OwnRankStep

\* A rank that is in no queue enters its own.
LEMMA ListAppended ==
  ASSUME Inv, NEW r \in Ranks, NEW s \in Slots, RankOf(s) = r, ~Listed(r),
         list' = [list EXCEPT ![QueueIdx[r]] = Append(@, s)]
  PROVE  /\ list' \in [Queues -> Seq(Slots)] /\ \A p \in Queues : QueueInv(p)'
         /\ Listed(r)' /\ \A x \in Ranks \ {r} : Listed(x)' <=> Listed(x)
<1>1. PICK q \in Queues : q = QueueIdx[r]
  BY RanksAssumption
<1>2. list \in [Queues -> Seq(Slots)] /\ list[q] \in Seq(Slots)
  BY DEF Inv, Typed
<1>3. /\ list' \in [Queues -> Seq(Slots)] /\ list'[q] = Append(list[q], s)
      /\ \A p \in Queues \ {q} : list'[p] = list[p]
  BY <1>1, <1>2
<1>4. /\ Len(list[q]) \in Nat /\ Len(list'[q]) = Len(list[q]) + 1
      /\ \A i \in 1 .. Len(list[q]) : list'[q][i] = list[q][i]
      /\ list'[q][Len(list[q]) + 1] = s
      /\ \A i \in 1 .. Len(list'[q]) : i \in 1 .. Len(list[q]) \/ i = Len(list[q]) + 1
      /\ Len(list[q]) + 1 \in 1 .. Len(list'[q]) /\ 1 .. Len(list[q]) \subseteq 1 .. Len(list'[q])
  BY <1>2, <1>3
<1>5. \A i \in 1 .. Len(list[q]) : RankOf(list[q][i]) # r
  BY DEF Listed
<1>6. QueueInv(q)
  BY DEF Inv
<1>7. QueueInv(q)'
  <2>1. \A i \in 1 .. Len(list'[q]) : QueueIdx[RankOf(list'[q][i])] = q
    BY <1>1, <1>4, <1>6 DEF QueueInv
  <2>2. ASSUME NEW i \in 1 .. Len(list'[q]), NEW j \in 1 .. Len(list'[q]),
               RankOf(list'[q][i]) = RankOf(list'[q][j])
        PROVE  i = j
    <3>1. CASE i \in 1 .. Len(list[q]) /\ j \in 1 .. Len(list[q])
      BY <1>4, <1>6, <2>2, <3>1 DEF QueueInv
    <3>2. CASE i = Len(list[q]) + 1 /\ j \in 1 .. Len(list[q])
      BY <1>4, <1>5, <2>2, <3>2
    <3>3. CASE j = Len(list[q]) + 1 /\ i \in 1 .. Len(list[q])
      BY <1>4, <1>5, <2>2, <3>3
    <3> QED
      BY <1>4, <3>1, <3>2, <3>3
  <2> QED
    BY <2>1, <2>2 DEF QueueInv
<1>8. \A p \in Queues : QueueInv(p)'
  BY <1>3, <1>7 DEF Inv, QueueInv
<1>9. Listed(r)'
  BY <1>4 DEF Listed
<1>10. \A x \in Ranks \ {r} : Listed(x)' <=> Listed(x)
  <2> SUFFICES ASSUME NEW x \in Ranks \ {r} PROVE Listed(x)' <=> Listed(x)
    OBVIOUS
  <2>1. (\E i \in 1 .. Len(list'[q]) : RankOf(list'[q][i]) = x)
          <=> (\E i \in 1 .. Len(list[q]) : RankOf(list[q][i]) = x)
    BY <1>4
  <2> QED
    BY <1>3, <2>1 DEF Listed
<1> QED
  BY <1>3, <1>8, <1>9, <1>10

LEMMA InvCallbackInsert ==
  ASSUME Inv, NEW w \in Workers, CallbackInsert(w)
  PROVE  Inv'
<1>1. PICK r \in Ranks : r = RankOf(wjob[w])
  BY SlotRank DEF Inv, Typed
<1>2. /\ wpc[w] = "cbinsert" /\ wjob[w] \in Slots
      /\ list' = [list EXCEPT ![QueueIdx[r]] = Append(@, wjob[w])]
      /\ UNCHANGED <<available, jobs, job, parked, jobsMutex, queueMutex, cpc, call, cidx, got,
                     wjob, wcb>>
  BY <1>1 DEF CallbackInsert, locks, app, wrk, Inv, Typed
<1>3. BusyOn(w, r) /\ ~Draining(w) /\ wcb[w].nonblocking
  BY <1>1, <1>2 DEF BusyOn, Busy, Draining, Inv, WorkerInv
<1>4. Carried(r) /\ ~Listed(r) /\ jobs[r] # <<>>
  BY <1>3 DEF Inv, Carried
<1>5. /\ list' \in [Queues -> Seq(Slots)] /\ \A p \in Queues : QueueInv(p)'
      /\ Listed(r)' /\ \A x \in Ranks \ {r} : Listed(x)' <=> Listed(x)
  BY <1>1, <1>2, <1>4, ListAppended
<1>6. /\ wpc' \in [Workers -> WorkerPC] /\ wpc'[w] = "cbrun"
      /\ \A v \in Workers \ {w} : wpc'[v] = wpc[v] \/ (wpc[v] = "wait" /\ wpc'[v] = "main")
  <2>1. PICK pcs : pcs = [wpc EXCEPT ![w] = "cbrun"]
    OBVIOUS
  <2>2. /\ pcs \in [Workers -> WorkerPC] /\ pcs[w] = "cbrun"
        /\ \A v \in Workers \ {w} : pcs[v] = wpc[v]
    BY <2>1 DEF Inv, Typed, WorkerPC
  <2>3. wpc' = Broadcast({QueueIdx[RankOf(wjob[w])]}, pcs)
    BY <2>1 DEF CallbackInsert
  <2> QED
    BY <2>2, <2>3, BroadcastWakes
<1>7. Typed'
  BY <1>2, <1>5, <1>6 DEF Inv, Typed
<1>8. JobsRun' /\ \A x \in Ranks : OwnSlots(x)'
  BY <1>2 DEF Inv, JobsRun, OwnSlots
<1>9. WorkerInv(w)'
  BY <1>2, <1>6 DEF Inv, WorkerInv
<1>10. \A v \in Workers \ {w} : Idles(v)
  BY <1>2, <1>6 DEF Idles
<1>11. ~Busy(w)'
  BY <1>2, <1>3, <1>6 DEF Busy
<1>12. \A x \in Ranks \ {r} : ~BusyOn(w, x) /\ ~BusyOn(w, x)'
  BY <1>1, <1>11 DEF BusyOn
<1>13. ASSUME \A v \in Workers \ {w} : BusyOn(v, r)' <=> BusyOn(v, r)
       PROVE  Carried(r)'
  <2>1. \A v \in Workers : ~BusyOn(v, r)'
    BY <1>3, <1>4, <1>11, <1>13 DEF Carried, BusyOn
  <2>2. jobs'[r] # <<>>
    BY <1>2, <1>4
  <2> QED
    BY <1>5, <2>1, <2>2 DEF Carried
<1>14. \A c \in Callers : Woken(cpc[c], cpc'[c])
  BY <1>2 DEF Woken
<1>15. /\ \A x \in Ranks : jobsMutex'[x] = jobsMutex[x] /\ jobs'[x] = jobs[x]
       /\ UNCHANGED <<call, cidx, got>>
  BY <1>2
<1> QED
  BY <1>5, <1>7, <1>8, <1>9, <1>10, <1>12, <1>13, <1>14, <1>15, WorkerFrame

\* The error path takes jobs_mutex and keeps it until the FIFO is empty.
LEMMA InvUpdateStatus ==
  ASSUME Inv, NEW w \in Workers, UpdateStatus(w)
  PROVE  Inv'
<1>1. PICK r \in Ranks : r = RankOf(wjob[w])
  BY SlotRank DEF Inv, Typed
<1>2. /\ wpc[w] = "update" /\ jobsMutex[r] = NoThread
      /\ jobsMutex' = [jobsMutex EXCEPT ![r] = w] /\ WGoto(w, "drain")
      /\ UNCHANGED <<available, jobs, job, list, parked, queueMutex, cpc, call, cidx, got,
                     wjob, wcb>>
  BY <1>1 DEF UpdateStatus, fifo, app, wrk
<1>3. BusyOn(w, r)
  BY <1>1, <1>2 DEF BusyOn, Busy
<1>4. /\ wpc' \in [Workers -> WorkerPC] /\ wpc'[w] = "drain"
      /\ \A v \in Workers \ {w} : wpc'[v] = wpc[v]
  <2>1. "drain" \in WorkerPC
    BY DEF WorkerPC
  <2> QED
    BY <1>2, <2>1, WGotoFacts
<1>5. /\ jobsMutex' \in [Ranks -> Threads \cup {NoThread}] /\ jobsMutex'[r] = w
      /\ \A x \in Ranks \ {r} : jobsMutex'[x] = jobsMutex[x] /\ jobs'[x] = jobs[x]
  BY <1>2 DEF Inv, Typed, Threads
<1>6. Typed'
  BY <1>2, <1>4, <1>5 DEF Inv, Typed
<1>7. JobsRun' /\ \A x \in Ranks : OwnSlots(x)'
  BY <1>2 DEF Inv, JobsRun, OwnSlots
<1>8. WorkerInv(w)'
  BY <1>2, <1>4 DEF Inv, WorkerInv
<1>9. \A v \in Workers \ {w} : Idles(v)
  BY <1>2, <1>4 DEF Idles
<1>10. BusyOn(w, r)' /\ Draining(w)'
  BY <1>1, <1>2, <1>4 DEF BusyOn, Busy, Draining
<1>11. \A c \in Callers : Woken(cpc[c], cpc'[c])
  BY <1>2 DEF Woken
<1> QED
  BY <1>2, <1>3, <1>5, <1>6, <1>7, <1>8, <1>9, <1>10, <1>11, OwnRankStep

LEMMA InvDrain ==
  ASSUME Inv, NEW w \in Workers, Drain(w)
  PROVE  Inv'
<1>1. PICK r \in Ranks : r = RankOf(wjob[w])
  BY SlotRank DEF Inv, Typed
<1>2. /\ wpc[w] = "drain" /\ jobs[r] # <<>>
      /\ jobs' = [jobs EXCEPT ![r] = Tail(jobs[r])]
      /\ available' = Released(Head(jobs[r])) /\ cpc' \in SlotSignal(Head(jobs[r]))
      /\ UNCHANGED <<job, list, parked, jobsMutex, queueMutex, call, cidx, got, wpc, wjob, wcb>>
  BY <1>1 DEF Drain, app, locks, wrk
<1>3. BusyOn(w, r) /\ Draining(w) /\ BusyOn(w, r)' /\ Draining(w)'
  BY <1>1, <1>2 DEF BusyOn, Busy, Draining
<1>4. jobsMutex[r] = w /\ jobsMutex'[r] = w
  BY <1>2, <1>3 DEF Inv, Carried
<1>5. /\ jobs' \in [Ranks -> Seq(Slots)] /\ jobs'[r] = Tail(jobs[r])
      /\ \A x \in Ranks \ {r} : jobs'[x] = jobs[x]
      /\ available' \in [Ranks -> Seq(Slots)]
      /\ \A x \in Ranks : OwnSlots(x)'
  BY <1>2, FifoAdvanced
<1>6. cpc' \in [Callers -> CallerPC] /\ \A c \in Callers : Woken(cpc[c], cpc'[c])
  BY <1>2, SlotSignalWakes DEF Inv
<1>7. Typed' /\ JobsRun'
  BY <1>2, <1>5, <1>6 DEF Inv, Typed, JobsRun
<1>8. WorkerInv(w)' /\ \A v \in Workers \ {w} : Idles(v)
  BY <1>2 DEF Inv, WorkerInv, Idles
<1> QED
  BY <1>2, <1>3, <1>4, <1>5, <1>6, <1>7, <1>8, OwnRankStep

LEMMA InvDrainSync ==
  ASSUME Inv, NEW w \in Workers, DrainSync(w)
  PROVE  Inv'
<1>1. PICK r \in Ranks : r = RankOf(wjob[w])
  BY SlotRank DEF Inv, Typed
<1>2. /\ wpc[w] = "drain" /\ jobs[r] # <<>>
      /\ jobs' = [jobs EXCEPT ![r] = Tail(jobs[r])]
      /\ UNCHANGED <<job, list, parked, jobsMutex, queueMutex, call, cidx, got, wcb>>
      /\ \/ /\ WGoto(w, "drainsig") /\ wjob' = [wjob EXCEPT ![w] = Head(jobs[r])]
            /\ UNCHANGED <<available, cpc>>
         \/ /\ available' = Released(Head(jobs[r])) /\ cpc' \in SlotSignal(Head(jobs[r]))
            /\ UNCHANGED <<wpc, wjob>>
  BY <1>1 DEF DrainSync, app, locks
<1>3. BusyOn(w, r) /\ Draining(w)
  BY <1>1, <1>2 DEF BusyOn, Busy, Draining
<1>4. jobsMutex[r] = w /\ jobsMutex'[r] = w
  BY <1>2, <1>3 DEF Inv, Carried
<1>5. /\ jobs' \in [Ranks -> Seq(Slots)] /\ jobs'[r] = Tail(jobs[r])
      /\ \A x \in Ranks \ {r} : jobs'[x] = jobs[x]
      /\ available' \in [Ranks -> Seq(Slots)]
      /\ \A x \in Ranks : OwnSlots(x)'
  BY <1>2, FifoAdvanced
<1>6. Head(jobs[r]) \in Slots /\ RankOf(Head(jobs[r])) = r
  BY <1>2, FirstOfFifo
<1>7. cpc' \in [Callers -> CallerPC] /\ \A c \in Callers : Woken(cpc[c], cpc'[c])
  <2>1. CASE UNCHANGED cpc
    BY <2>1 DEF Inv, Typed, Woken
  <2>2. CASE cpc' \in SlotSignal(Head(jobs[r]))
    BY <2>2, SlotSignalWakes DEF Inv
  <2> QED
    BY <1>2, <2>1, <2>2
<1>8. /\ wpc' \in [Workers -> WorkerPC] /\ wpc'[w] \in {"drain", "drainsig"}
      /\ \A v \in Workers \ {w} : wpc'[v] = wpc[v] /\ wjob'[v] = wjob[v]
      /\ wjob' \in [Workers -> Slots] /\ RankOf(wjob'[w]) = r
  <2>1. CASE WGoto(w, "drainsig") /\ wjob' = [wjob EXCEPT ![w] = Head(jobs[r])]
    BY <1>6, <2>1 DEF WGoto, Inv, Typed, WorkerPC
  <2>2. CASE UNCHANGED <<wpc, wjob>>
    BY <1>1, <1>2, <2>2 DEF Inv, Typed
  <2> QED
    BY <1>2, <2>1, <2>2
<1>9. Typed' /\ JobsRun'
  BY <1>2, <1>5, <1>7, <1>8 DEF Inv, Typed, JobsRun
<1>10. WorkerInv(w)' /\ \A v \in Workers \ {w} : Idles(v)
  BY <1>2, <1>8 DEF Inv, WorkerInv, Idles
<1>11. BusyOn(w, r)' /\ Draining(w)'
  BY <1>8 DEF BusyOn, Busy, Draining
<1> QED
  BY <1>2, <1>3, <1>4, <1>5, <1>7, <1>9, <1>10, <1>11, OwnRankStep

LEMMA InvDrainSignal ==
  ASSUME Inv, NEW w \in Workers, DrainSignal(w)
  PROVE  Inv'
<1>1. PICK r \in Ranks : r = RankOf(wjob[w])
  BY SlotRank DEF Inv, Typed
<1>2. /\ wpc[w] = "drainsig" /\ wjob[w] \in Slots
      /\ available' = Released(wjob[w]) /\ WGoto(w, "drain")
      /\ UNCHANGED <<jobs, job, list, parked, jobsMutex, queueMutex, call, cidx, got, wjob, wcb>>
  BY DEF DrainSignal, app, locks, wrk, Inv, Typed
<1>3. BusyOn(w, r) /\ Draining(w)
  BY <1>1, <1>2 DEF BusyOn, Busy, Draining
<1>4. jobsMutex[r] = w /\ jobsMutex'[r] = w
  BY <1>2, <1>3 DEF Inv, Carried
<1>5. /\ available' \in [Ranks -> Seq(Slots)] /\ \A x \in Ranks : OwnSlots(x)'
  BY <1>2, ReleasedOwn DEF Inv, OwnSlots
<1>6. cpc' \in [Callers -> CallerPC] /\ \A c \in Callers : Woken(cpc[c], cpc'[c])
  <2>1. PICK pcs \in SlotSignal(wjob[w]) : cpc' = SyncSignal(job[wjob[w]].owner, pcs)
    BY DEF DrainSignal
  <2>2. pcs \in [Callers -> CallerPC] /\ \A c \in Callers : Woken(cpc[c], pcs[c])
    BY SlotSignalWakes DEF Inv
  <2>3. cpc' \in [Callers -> CallerPC] /\ \A c \in Callers : Woken(pcs[c], cpc'[c])
    BY <2>1, <2>2, SyncSignalWakes
  <2> QED
    BY <2>2, <2>3 DEF Woken
<1>7. /\ wpc' \in [Workers -> WorkerPC] /\ wpc'[w] = "drain"
      /\ \A v \in Workers \ {w} : wpc'[v] = wpc[v]
  <2>1. "drain" \in WorkerPC
    BY DEF WorkerPC
  <2> QED
    BY <1>2, <2>1, WGotoFacts
<1>8. Typed' /\ JobsRun'
  BY <1>2, <1>5, <1>6, <1>7 DEF Inv, Typed, JobsRun
<1>9. WorkerInv(w)' /\ \A v \in Workers \ {w} : Idles(v)
  BY <1>2, <1>7 DEF Inv, WorkerInv, Idles
<1>10. BusyOn(w, r)' /\ Draining(w)'
  BY <1>1, <1>2, <1>7 DEF BusyOn, Busy, Draining
<1>11. \A x \in Ranks \ {r} : jobs'[x] = jobs[x] /\ jobsMutex'[x] = jobsMutex[x]
  BY <1>2
<1> QED
  BY <1>2, <1>3, <1>4, <1>5, <1>6, <1>8, <1>9, <1>10, <1>11, OwnRankStep

LEMMA InvDrainDone ==
  ASSUME Inv, NEW w \in Workers, DrainDone(w)
  PROVE  Inv'
<1>1. PICK r \in Ranks : r = RankOf(wjob[w])
  BY SlotRank DEF Inv, Typed
<1>2. /\ wpc[w] = "drain" /\ jobs[r] = <<>>
      /\ jobsMutex' = [jobsMutex EXCEPT ![r] = NoThread]
      /\ WGoto(w, "main") /\ wjob' = [wjob EXCEPT ![w] = AnySlot]
      /\ UNCHANGED <<available, jobs, job, list, parked, queueMutex, cpc, call, cidx, got, wcb>>
  BY <1>1 DEF DrainDone, MainLoop, app, fifo
<1>3. BusyOn(w, r) /\ Draining(w)
  BY <1>1, <1>2 DEF BusyOn, Busy, Draining
<1>4. jobsMutex[r] = w
  BY <1>3 DEF Inv, Carried
<1>5. /\ wpc' \in [Workers -> WorkerPC] /\ wpc'[w] = "main"
      /\ \A v \in Workers \ {w} : wpc'[v] = wpc[v]
  <2>1. "main" \in WorkerPC
    BY DEF WorkerPC
  <2> QED
    BY <1>2, <2>1, WGotoFacts
<1>6. /\ wjob' \in [Workers -> Slots] /\ \A v \in Workers \ {w} : wjob'[v] = wjob[v]
  BY <1>2, AnySlotIsSlot DEF Inv, Typed
<1>7. /\ jobsMutex' \in [Ranks -> Threads \cup {NoThread}]
      /\ \A x \in Ranks \ {r} : jobs'[x] = jobs[x] /\ jobsMutex'[x] = jobsMutex[x]
  BY <1>2 DEF Inv, Typed
<1>8. Typed' /\ JobsRun'
  BY <1>2, <1>5, <1>6, <1>7 DEF Inv, Typed, JobsRun
<1>9. \A x \in Ranks : OwnSlots(x)'
  BY <1>2 DEF Inv, OwnSlots
<1>10. WorkerInv(w)' /\ \A v \in Workers \ {w} : Idles(v)
  BY <1>2, <1>5, <1>6 DEF Inv, WorkerInv, Idles
<1>11. ~Busy(w)' /\ jobs'[r] = <<>>
  BY <1>2, <1>5 DEF Busy
<1>12. \A c \in Callers : Woken(cpc[c], cpc'[c])
  BY <1>2 DEF Woken
<1> QED
  BY <1>2, <1>3, <1>4, <1>7, <1>8, <1>9, <1>10, <1>11, <1>12, OwnRankStep

LEMMA InvWorkerStep ==
  ASSUME Inv, NEW w \in Workers, WorkerStep(w)
  PROVE  Inv'
<1>1. wpc[w] \notin {"cblock", "block"}
  BY DEF Inv, WorkerInv
<1>2. ~(CallbackLock(w) \/ BlockSkip(w) \/ BlockLock(w) \/ BlockAdvance(w) \/ BlockDone(w))
  BY <1>1 DEF CallbackLock, BlockSkip, BlockLock, BlockAdvance, BlockDone
<1> QED
  BY <1>2, InvWorkerStop, InvWorkerLock, InvWorkerTake, InvComputeWork, InvComputeSync, InvSignal,
     InvAdvance, InvComputeCallback, InvCallbackReturn, InvCallbackAdvance, InvCallbackInsert,
     InvReleaseMaster, InvUpdateStatus, InvDrain, InvDrainSync, InvDrainSignal, InvDrainDone
     DEF WorkerStep

-----------------------------------------------------------------------------
(* Steps of the callers                                                    *)

LEMMA GotoFacts ==
  ASSUME Inv, NEW c \in Callers, NEW pc \in CallerPC, Goto(c, pc)
  PROVE  /\ cpc' \in [Callers -> CallerPC] /\ cpc'[c] = pc
         /\ \A d \in Callers \ {c} : cpc'[d] = cpc[d]
BY DEF Inv, Typed, Goto

\* Types of what a caller keeps.
LEMMA CallTypes ==
  ASSUME Inv, NEW c \in Callers
  PROVE  /\ call[c] \in CallType /\ call[c].op \in OpType /\ call[c].ranks \in Seq(Ranks)
         /\ call[c].set \in Seq(Ranks) /\ call[c].nj \in {1, 2} /\ call[c].owner \in Ranks
         /\ call[c].op.single \in BOOLEAN /\ call[c].op.sync \in BOOLEAN
         /\ cidx[c] \in Nat /\ got[c] \in Seq(Slots) /\ Len(got[c]) \in Nat
         /\ Len(call[c].ranks) \in Nat
         /\ call[c].ranks # <<>> => Len(call[c].ranks) > 0
<1>1. call[c] \in CallType /\ cidx[c] \in Nat /\ got[c] \in Seq(Slots)
  BY DEF Inv, Typed
<1>2. /\ call[c].op \in OpType /\ call[c].ranks \in Seq(Ranks)
      /\ call[c].set \in Seq(Ranks) /\ call[c].nj \in {1, 2} /\ call[c].owner \in Ranks
  BY <1>1 DEF CallType
<1>3. call[c].op.single \in BOOLEAN /\ call[c].op.sync \in BOOLEAN
  BY <1>2 DEF OpType
<1> QED
  BY <1>1, <1>2, <1>3

\* Steps that leave the slots and the FIFOs alone.
LEMMA PlainCaller ==
  ASSUME Inv, NEW c \in Callers, NEW pc \in CallerPC, Goto(c, pc),
         UNCHANGED <<fifo, call, got, wjob, wcb>>,
         wpc' \in [Workers -> WorkerPC],
         \A w \in Workers : wpc'[w] = wpc[w] \/ (wpc[w] = "wait" /\ wpc'[w] = "main"),
         cidx' \in [Callers -> Nat], \A d \in Callers \ {c} : cidx'[d] = cidx[d],
         queueMutex' \in [Queues -> Threads \cup {NoThread}],
         jobsMutex' \in [Ranks -> Threads \cup {NoThread}],
         \A r \in Ranks : jobsMutex[r] \in {NoThread, c} \/ jobsMutex'[r] = jobsMutex[r],
         cpc[c] # "addq", pc # "addq", CallerInv(c)'
  PROVE  Inv'
<1>1. /\ cpc' \in [Callers -> CallerPC] /\ cpc'[c] = pc
      /\ \A d \in Callers \ {c} : cpc'[d] = cpc[d]
  BY GotoFacts
<1>2. Typed'
  BY <1>1 DEF Inv, Typed, fifo
<1>3. JobsRun' /\ \A r \in Ranks : OwnSlots(r)'
  BY DEF Inv, JobsRun, OwnSlots, fifo
<1>4. UNCHANGED <<jobs, list, wjob, wcb>>
  BY DEF fifo
<1>5. \A d \in Callers \ {c} : /\ cpc'[d] = cpc[d] /\ call'[d] = call[d]
                               /\ cidx'[d] = cidx[d] /\ got'[d] = got[d]
  BY <1>1
<1> QED
  BY <1>1, <1>2, <1>3, <1>4, <1>5, CallerFrame

\* No free slot: the caller waits and gives the mutex back.
LEMMA InvGetWait ==
  ASSUME Inv, NEW c \in Callers, GetWait(c)
  PROVE  Inv'
<1>1. "waitget" \in CallerPC
  BY DEF CallerPC
<1>2. /\ cpc[c] = "get" /\ Goto(c, "waitget")
      /\ UNCHANGED <<fifo, call, cidx, got, wjob, wcb, wpc, queueMutex>>
      /\ jobsMutex' = [jobsMutex EXCEPT ![call[c].ranks[cidx[c]]] = NoThread]
      /\ jobsMutex[call[c].ranks[cidx[c]]] \in {NoThread, c}
  BY DEF GetWait, app, wrk
<1>3. /\ jobsMutex' \in [Ranks -> Threads \cup {NoThread}]
      /\ \A r \in Ranks : jobsMutex[r] \in {NoThread, c} \/ jobsMutex'[r] = jobsMutex[r]
  BY <1>2 DEF Inv, Typed
<1>4. cpc'[c] = "waitget"
  BY <1>1, <1>2, GotoFacts
<1>5. CallerInv(c)'
  BY <1>2, <1>4 DEF Inv, CallerInv, Getting, Pairs
<1>6. /\ wpc' \in [Workers -> WorkerPC] /\ cidx' \in [Callers -> Nat]
      /\ queueMutex' \in [Queues -> Threads \cup {NoThread}]
  BY <1>2 DEF Inv, Typed
<1> QED
  BY <1>1, <1>2, <1>3, <1>5, <1>6, PlainCaller

LEMMA InvUngetDone ==
  ASSUME Inv, NEW c \in Callers, UngetDone(c)
  PROVE  Inv'
<1>1. "idle" \in CallerPC
  BY DEF CallerPC
<1>2. /\ cpc[c] = "unget" /\ Goto(c, "idle")
      /\ UNCHANGED <<fifo, call, cidx, got, wjob, wcb, wpc, queueMutex>>
      /\ jobsMutex' = [r \in Ranks |-> IF jobsMutex[r] = c THEN NoThread ELSE jobsMutex[r]]
  BY DEF UngetDone, Return, app, wrk
<1>3. /\ jobsMutex' \in [Ranks -> Threads \cup {NoThread}]
      /\ \A r \in Ranks : jobsMutex[r] \in {NoThread, c} \/ jobsMutex'[r] = jobsMutex[r]
  BY <1>2 DEF Inv, Typed
<1>4. cpc'[c] = "idle"
  BY <1>1, <1>2, GotoFacts
<1>5. CallerInv(c)'
  BY <1>4 DEF CallerInv
<1>6. /\ wpc' \in [Workers -> WorkerPC] /\ cidx' \in [Callers -> Nat]
      /\ queueMutex' \in [Queues -> Threads \cup {NoThread}]
  BY <1>2 DEF Inv, Typed
<1> QED
  BY <1>1, <1>2, <1>3, <1>5, <1>6, PlainCaller

LEMMA InvDoJobs ==
  ASSUME Inv, NEW c \in Callers, DoJobs(c)
  PROVE  Inv'
<1>1. PICK pc \in CallerPC : pc \in {"direct", "add"} /\ Goto(c, pc)
  BY DEF CallerPC, DoJobs
<1>2. /\ cpc[c] = "do" /\ UNCHANGED <<fifo, call, cidx, got, wjob, wcb, wpc, queueMutex, jobsMutex>>
  BY DEF DoJobs, app, wrk, locks
<1>3. cpc'[c] = pc
  BY <1>1, GotoFacts
<1>4. CallerInv(c)'
  BY <1>1, <1>2, <1>3 DEF Inv, CallerInv, Pairs
<1>5. /\ wpc' \in [Workers -> WorkerPC] /\ cidx' \in [Callers -> Nat]
      /\ queueMutex' \in [Queues -> Threads \cup {NoThread}]
      /\ jobsMutex' \in [Ranks -> Threads \cup {NoThread}]
  BY <1>2 DEF Inv, Typed
<1> QED
  BY <1>1, <1>2, <1>4, <1>5, PlainCaller

LEMMA InvSeenAgain ==
  ASSUME Inv, NEW c \in Callers, SeenAgain(c)
  PROVE  Inv'
<1>1. PICK pc \in CallerPC : pc \in {"set_direct", "do_seen", "direct"} /\ Goto(c, pc)
  <2>1. CASE UNCHANGED cpc
    <3>1. Goto(c, cpc[c]) /\ cpc[c] \in CallerPC
      BY <2>1 DEF Goto, Inv, Typed
    <3> QED
      BY <3>1 DEF SeenAgain
  <2>2. CASE Goto(c, IF cpc[c] = "set_direct" THEN "do_seen" ELSE "direct")
    BY <2>2 DEF CallerPC
  <2> QED
    BY <2>1, <2>2 DEF SeenAgain
<1>2. /\ cpc[c] \in {"set_direct", "do_seen"}
      /\ UNCHANGED <<fifo, call, cidx, got, wjob, wcb, wpc, queueMutex, jobsMutex>>
  BY DEF SeenAgain, app, wrk, locks
<1>3. cpc'[c] = pc
  BY <1>1, GotoFacts
<1>4. CallerInv(c)'
  BY <1>1, <1>2, <1>3 DEF Inv, CallerInv, Pairs
<1>5. /\ wpc' \in [Workers -> WorkerPC] /\ cidx' \in [Callers -> Nat]
      /\ queueMutex' \in [Queues -> Threads \cup {NoThread}]
      /\ jobsMutex' \in [Ranks -> Threads \cup {NoThread}]
  BY <1>2 DEF Inv, Typed
<1> QED
  BY <1>1, <1>2, <1>4, <1>5, PlainCaller

\* The callers' broadcast at the end of add_jobs.
LEMMA InvAddDone ==
  ASSUME Inv, NEW c \in Callers, AddDone(c)
  PROVE  Inv'
<1>1. PICK pc \in CallerPC : pc \in {"wait", "idle"} /\ Goto(c, pc)
  BY DEF CallerPC, AddDone, AfterAdd
<1>2. /\ cpc[c] = "add" /\ UNCHANGED <<fifo, call, cidx, got, wjob, wcb, jobsMutex>>
      /\ wpc' = Broadcast(HeldQueues(c), wpc)
      /\ queueMutex' = Update(queueMutex, HeldQueues(c), NoThread)
  BY DEF AddDone, wrk
<1>3. cpc'[c] = pc
  BY <1>1, GotoFacts
<1>4. CallerInv(c)'
  BY <1>1, <1>2, <1>3 DEF Inv, CallerInv, Pairs
<1>5. /\ wpc' \in [Workers -> WorkerPC]
      /\ \A w \in Workers : wpc'[w] = wpc[w] \/ (wpc[w] = "wait" /\ wpc'[w] = "main")
  <2>1. wpc \in [Workers -> WorkerPC]
    BY DEF Inv, Typed
  <2> QED
    BY <1>2, <2>1, BroadcastWakes
<1>6. /\ cidx' \in [Callers -> Nat]
      /\ queueMutex' \in [Queues -> Threads \cup {NoThread}]
      /\ jobsMutex' \in [Ranks -> Threads \cup {NoThread}]
  BY <1>2 DEF Inv, Typed, Update
<1> QED
  BY <1>1, <1>2, <1>4, <1>5, <1>6, PlainCaller

LEMMA InvWaitSync ==
  ASSUME Inv, NEW c \in Callers, WaitSync(c)
  PROVE  Inv'
<1>1. PICK pc \in CallerPC : pc \in {"wait", "clear", "idle"} /\ Goto(c, pc)
  <2>1. Goto(c, IF sync[c].nr # 0 THEN "wait" ELSE IF sync[c].failed THEN "clear" ELSE "idle")
    BY DEF WaitSync
  <2> QED
    BY <2>1 DEF CallerPC
<1>2. /\ cpc[c] = "woken" /\ UNCHANGED <<fifo, call, got, wjob, wcb, wpc, queueMutex, jobsMutex>>
      /\ cidx' = [cidx EXCEPT ![c] = 1]
  BY DEF WaitSync, wrk, locks
<1>3. cpc'[c] = pc
  BY <1>1, GotoFacts
<1>4. CallerInv(c)'
  BY <1>1, <1>2, <1>3 DEF Inv, CallerInv, Pairs
<1>5. /\ wpc' \in [Workers -> WorkerPC] /\ cidx' \in [Callers -> Nat]
      /\ \A d \in Callers \ {c} : cidx'[d] = cidx[d]
      /\ queueMutex' \in [Queues -> Threads \cup {NoThread}]
      /\ jobsMutex' \in [Ranks -> Threads \cup {NoThread}]
  BY <1>2 DEF Inv, Typed
<1> QED
  BY <1>1, <1>2, <1>4, <1>5, PlainCaller

LEMMA InvClearError ==
  ASSUME Inv, NEW c \in Callers, ClearError(c)
  PROVE  Inv'
<1>1. PICK pc \in CallerPC : pc \in {"clear", "idle"} /\ Goto(c, pc)
  BY DEF CallerPC, ClearError
<1>2. /\ cpc[c] = "clear" /\ UNCHANGED <<fifo, call, got, wjob, wcb, wpc, queueMutex, jobsMutex>>
      /\ cidx' = [cidx EXCEPT ![c] = @ + 1]
  BY DEF ClearError, wrk, locks
<1>3. cpc'[c] = pc
  BY <1>1, GotoFacts
<1>4. CallerInv(c)'
  BY <1>1, <1>2, <1>3 DEF Inv, CallerInv, Pairs
<1>5. /\ wpc' \in [Workers -> WorkerPC] /\ cidx' \in [Callers -> Nat]
      /\ \A d \in Callers \ {c} : cidx'[d] = cidx[d]
      /\ queueMutex' \in [Queues -> Threads \cup {NoThread}]
      /\ jobsMutex' \in [Ranks -> Threads \cup {NoThread}]
  BY <1>2 DEF Inv, Typed
<1> QED
  BY <1>1, <1>2, <1>4, <1>5, PlainCaller

LEMMA InvJoin ==
  ASSUME Inv, NEW c \in Callers, Join(c)
  PROVE  Inv'
<1>1. "freed" \in CallerPC /\ Goto(c, "freed")
  BY DEF CallerPC, Join
<1>2. /\ cpc[c] = "join" /\ UNCHANGED <<fifo, call, cidx, got, wjob, wcb, wpc, queueMutex, jobsMutex>>
  BY DEF Join, app, wrk, locks
<1>3. cpc'[c] = "freed"
  BY <1>1, GotoFacts
<1>4. CallerInv(c)'
  BY <1>3 DEF CallerInv
<1>5. /\ wpc' \in [Workers -> WorkerPC] /\ cidx' \in [Callers -> Nat]
      /\ queueMutex' \in [Queues -> Threads \cup {NoThread}]
      /\ jobsMutex' \in [Ranks -> Threads \cup {NoThread}]
  BY <1>2 DEF Inv, Typed
<1> QED
  BY <1>1, <1>2, <1>4, <1>5, PlainCaller

LEMMA InvFree ==
  ASSUME Inv, NEW c \in Callers, NEW S \in Allocated, Free(c, S)
  PROVE  Inv'
<1>1. "join" \in CallerPC /\ Goto(c, "join") /\ S \in Seq(Ranks)
  BY SetsAssumption DEF CallerPC, Free
<1>2. /\ cpc[c] = "idle" /\ call' = [call EXCEPT ![c].ranks = S]
      /\ wpc' = Broadcast(Queues, wpc)
      /\ UNCHANGED <<fifo, jobsMutex, queueMutex, cidx, got, wjob, wcb>>
  BY DEF Free, locks, wrk
<1>3. /\ cpc' \in [Callers -> CallerPC] /\ cpc'[c] = "join"
      /\ \A d \in Callers \ {c} : cpc'[d] = cpc[d]
  BY <1>1, GotoFacts
<1>4. /\ wpc' \in [Workers -> WorkerPC]
      /\ \A w \in Workers : wpc'[w] = wpc[w] \/ (wpc[w] = "wait" /\ wpc'[w] = "main")
  <2>1. wpc \in [Workers -> WorkerPC]
    BY DEF Inv, Typed
  <2> QED
    BY <1>2, <2>1, BroadcastWakes
<1>5. /\ call' \in [Callers -> CallType] /\ \A d \in Callers \ {c} : call'[d] = call[d]
  <2>1. call \in [Callers -> CallType] /\ call[c] \in CallType
    BY DEF Inv, Typed
  <2>2. [call[c] EXCEPT !.ranks = S] \in CallType
    BY <1>1, <2>1 DEF CallType
  <2>3. call' = [call EXCEPT ![c] = [call[c] EXCEPT !.ranks = S]]
    BY <1>2, <2>1
  <2> QED
    BY <2>1, <2>2, <2>3
<1>6. Typed'
  BY <1>2, <1>3, <1>4, <1>5 DEF Inv, Typed, fifo
<1>7. JobsRun' /\ \A r \in Ranks : OwnSlots(r)'
  BY <1>2 DEF Inv, JobsRun, OwnSlots, fifo
<1>8. CallerInv(c)'
  BY <1>3 DEF CallerInv
<1>9. \A d \in Callers \ {c} : /\ cpc'[d] = cpc[d] /\ call'[d] = call[d]
                               /\ cidx'[d] = cidx[d] /\ got'[d] = got[d]
  BY <1>2, <1>3, <1>5
<1>10. UNCHANGED <<jobs, list, wjob, wcb>> /\ \A r \in Ranks : jobsMutex'[r] = jobsMutex[r]
  BY <1>2 DEF fifo
<1> QED
  BY <1>2, <1>3, <1>4, <1>6, <1>7, <1>8, <1>9, <1>10, CallerFrame

\* A call starts with no slot, at its first rank.
LEMMA InvCall ==
  ASSUME Inv, NEW c \in Callers, NEW op \in Ops, NEW S \in Sets, Call(c, op, S)
  PROVE  Inv'
<1>1. S \in Seq(Ranks) /\ S # <<>> /\ S[1] \in Ranks
  BY SetsAssumption
<1>2. op \in OpType /\ op.single \in BOOLEAN /\ op.sync \in BOOLEAN
  BY OpsAssumption DEF OpType
<1>3. PICK ranks : ranks = IF op.single /\ op.sync THEN <<S[1]>> ELSE S
  OBVIOUS
<1>4. /\ ranks \in Seq(Ranks) /\ ranks # <<>> /\ ranks[1] \in Ranks
      /\ Len(ranks) \in Nat \ {0} /\ (op.single /\ Len(ranks) # 1 => ~op.sync)
  BY <1>1, <1>2, <1>3
<1>5. PICK nj \in {1, 2}, pc \in {"set_direct", "get"} :
        /\ nj = 2 => op.sync
        /\ call' = [call EXCEPT ![c] = [op |-> op, set |-> S, ranks |-> ranks, nj |-> nj,
                                        owner |-> ranks[1]]]
        /\ Goto(c, pc)
  <2>1. /\ call' = [call EXCEPT ![c] =
                    [op |-> op, set |-> S, ranks |-> ranks,
                     nj |-> IF op.sync /\ op.type # "sync" /\ ~SeesCallback(op, ranks) THEN 2 ELSE 1,
                     owner |-> ranks[1]]]
        /\ Goto(c, IF SeesCallback(op, ranks) THEN "set_direct" ELSE "get")
    BY <1>3 DEF Call
  <2>2. PICK nj : nj = IF op.sync /\ op.type # "sync" /\ ~SeesCallback(op, ranks) THEN 2 ELSE 1
    OBVIOUS
  <2>3. PICK pc : pc = IF SeesCallback(op, ranks) THEN "set_direct" ELSE "get"
    OBVIOUS
  <2>4. nj \in {1, 2} /\ (nj = 2 => op.sync) /\ pc \in {"set_direct", "get"}
    BY <2>2, <2>3
  <2> QED
    BY <2>1, <2>2, <2>3, <2>4
<1>6. /\ cpc[c] = "idle"
      /\ got' = [got EXCEPT ![c] = <<>>] /\ cidx' = [cidx EXCEPT ![c] = 1]
      /\ UNCHANGED <<fifo, jobsMutex, queueMutex, wpc, wjob, wcb>>
  BY DEF Call, wrk
<1>7. pc \in CallerPC
  BY <1>5 DEF CallerPC
<1>8. /\ cpc' \in [Callers -> CallerPC] /\ cpc'[c] = pc
      /\ \A d \in Callers \ {c} : cpc'[d] = cpc[d]
  BY <1>5, <1>7, GotoFacts
<1>9. PICK new : new = [op |-> op, set |-> S, ranks |-> ranks, nj |-> nj, owner |-> ranks[1]]
  OBVIOUS
<1>10. /\ new \in CallType /\ new.op = op /\ new.ranks = ranks /\ new.nj = nj
  BY <1>1, <1>2, <1>4, <1>9 DEF CallType
<1>11. /\ call' \in [Callers -> CallType] /\ call'[c] = new
       /\ \A d \in Callers \ {c} : call'[d] = call[d]
  BY <1>5, <1>9, <1>10 DEF Inv, Typed
<1>12. /\ got' \in [Callers -> Seq(Slots)] /\ got'[c] = <<>>
       /\ \A d \in Callers \ {c} : got'[d] = got[d]
       /\ cidx' \in [Callers -> Nat] /\ cidx'[c] = 1
       /\ \A d \in Callers \ {c} : cidx'[d] = cidx[d]
  BY <1>6 DEF Inv, Typed
<1>13. Typed'
  BY <1>6, <1>8, <1>11, <1>12 DEF Inv, Typed, fifo
<1>14. JobsRun' /\ \A r \in Ranks : OwnSlots(r)'
  BY <1>6 DEF Inv, JobsRun, OwnSlots, fifo
<1>15. Len(got'[c]) = 0
  BY <1>12
<1>16. CallerInv(c)'
  <2>1. Pairs(c)'
    BY <1>15 DEF Pairs
  <2>2. Getting(c)'
    BY <1>4, <1>10, <1>11, <1>12, <1>15 DEF Getting
  <2>3. /\ call'[c].ranks # <<>> /\ call'[c].op \in Ops
        /\ call'[c].op.single /\ Len(call'[c].ranks) # 1 => call'[c].nj = 1 /\ ~call'[c].op.sync
    BY <1>4, <1>5, <1>10, <1>11
  <2> QED
    BY <1>5, <1>8, <2>1, <2>2, <2>3 DEF CallerInv
<1>17. \A d \in Callers \ {c} : /\ cpc'[d] = cpc[d] /\ call'[d] = call[d]
                                /\ cidx'[d] = cidx[d] /\ got'[d] = got[d]
  BY <1>8, <1>11, <1>12
<1>18. /\ UNCHANGED <<jobs, list, wjob, wcb>> /\ \A r \in Ranks : jobsMutex'[r] = jobsMutex[r]
       /\ cpc[c] # "addq" /\ cpc'[c] # "addq" /\ \A w \in Workers : wpc'[w] = wpc[w]
  BY <1>5, <1>6, <1>8 DEF fifo
<1> QED
  BY <1>13, <1>14, <1>16, <1>17, <1>18, CallerFrame

LEMMA InvDirect ==
  ASSUME Inv, NEW c \in Callers, Direct(c)
  PROVE  Inv'
<1>1. "idle" \in CallerPC /\ Goto(c, "idle")
  BY DEF CallerPC, Direct, Return
<1>2. /\ cpc[c] = "direct" /\ got' = [got EXCEPT ![c] = <<>>]
      /\ UNCHANGED <<fifo, jobsMutex, queueMutex, call, cidx, wpc, wjob, wcb>>
  BY DEF Direct, wrk, locks
<1>3. /\ cpc' \in [Callers -> CallerPC] /\ cpc'[c] = "idle"
      /\ \A d \in Callers \ {c} : cpc'[d] = cpc[d]
  BY <1>1, GotoFacts
<1>4. /\ got' \in [Callers -> Seq(Slots)] /\ \A d \in Callers \ {c} : got'[d] = got[d]
  BY <1>2 DEF Inv, Typed
<1>5. Typed'
  BY <1>2, <1>3, <1>4 DEF Inv, Typed, fifo
<1>6. JobsRun' /\ \A r \in Ranks : OwnSlots(r)'
  BY <1>2 DEF Inv, JobsRun, OwnSlots, fifo
<1>7. CallerInv(c)'
  BY <1>3 DEF CallerInv
<1>8. \A d \in Callers \ {c} : /\ cpc'[d] = cpc[d] /\ call'[d] = call[d]
                               /\ cidx'[d] = cidx[d] /\ got'[d] = got[d]
  BY <1>2, <1>3, <1>4
<1>9. /\ UNCHANGED <<jobs, list, wjob, wcb>> /\ \A r \in Ranks : jobsMutex'[r] = jobsMutex[r]
      /\ cpc[c] # "addq" /\ cpc'[c] # "addq" /\ \A w \in Workers : wpc'[w] = wpc[w]
  BY <1>2, <1>3 DEF fifo
<1> QED
  BY <1>5, <1>6, <1>7, <1>8, <1>9, CallerFrame

\* What a slot taken from the free list of r is.
LEMMA PoppedOwn ==
  ASSUME Inv, NEW r \in Ranks, available[r] # <<>>
  PROVE  /\ Head(available[r]) \in Slots /\ RankOf(Head(available[r])) = r
         /\ Popped(r) \in [Ranks -> Seq(Slots)]
         /\ \A x \in Ranks : \A i \in 1 .. Len(Popped(r)[x]) : RankOf(Popped(r)[x][i]) = x
<1>1. /\ available \in [Ranks -> Seq(Slots)]
      /\ \A x \in Ranks : \A i \in 1 .. Len(available[x]) : RankOf(available[x][i]) = x
  BY DEF Inv, Typed, OwnSlots
<1>2. /\ available[r] \in Seq(Slots) /\ Len(available[r]) \in Nat \ {0}
      /\ Head(available[r]) = available[r][1] /\ Head(available[r]) \in Slots
      /\ Tail(available[r]) \in Seq(Slots) /\ Len(Tail(available[r])) = Len(available[r]) - 1
      /\ \A i \in 1 .. Len(Tail(available[r])) : Tail(available[r])[i] = available[r][i + 1]
  BY <1>1
<1>3. /\ Popped(r) \in [Ranks -> Seq(Slots)] /\ Popped(r)[r] = Tail(available[r])
      /\ \A x \in Ranks \ {r} : Popped(r)[x] = available[x]
  BY <1>1, <1>2 DEF Popped
<1>4. \A i \in 1 .. Len(Tail(available[r])) : RankOf(Tail(available[r])[i]) = r
  BY <1>1, <1>2
<1>5. RankOf(Head(available[r])) = r
  BY <1>1, <1>2
<1> QED
  BY <1>1, <1>2, <1>3, <1>4, <1>5

LEMMA LastPair ==
  ASSUME NEW n \in Nat, NEW m \in Nat, NEW k \in Nat,
         n = 2 * m - 1, 2 * k + 2 <= n + 1, ~(2 * k + 2 <= n)
  PROVE  2 * k + 1 = n /\ 2 * k + 2 = n + 1 /\ n \in 1 .. n
OBVIOUS

\* One slot of the rank at hand: the pairs of slots of a synchronous call come
\* from one rank.
LEMMA InvGetJob ==
  ASSUME Inv, NEW c \in Callers, GetJob(c)
  PROVE  Inv'
<1>1. /\ cpc[c] = "get" /\ CallerInv(c) /\ Getting(c)
  BY DEF GetJob, Inv, CallerInv
<1>2. /\ call[c].ranks \in Seq(Ranks) /\ call[c].nj \in {1, 2} /\ cidx[c] \in Nat
      /\ got[c] \in Seq(Slots) /\ Len(got[c]) \in Nat /\ Len(call[c].ranks) \in Nat
  BY CallTypes
<1>3. PICK r \in Ranks : r = call[c].ranks[cidx[c]]
  BY <1>1, <1>2 DEF Getting
<1>4. PICK s : s = Head(available[r])
  OBVIOUS
<1>5. /\ jobsMutex[r] \in {NoThread, c} /\ available[r] # <<>>
      /\ got' = [got EXCEPT ![c] = Append(@, s)] /\ available' = Popped(r)
      /\ UNCHANGED <<jobs, job, list, parked, queueMutex, call, wpc, wjob, wcb>>
  BY <1>3, <1>4 DEF GetJob, wrk
<1>6. /\ s \in Slots /\ RankOf(s) = r /\ available' \in [Ranks -> Seq(Slots)]
      /\ \A x \in Ranks : \A i \in 1 .. Len(available'[x]) : RankOf(available'[x][i]) = x
  BY <1>4, <1>5, PoppedOwn
<1>7. /\ got' \in [Callers -> Seq(Slots)] /\ got'[c] = Append(got[c], s)
      /\ \A d \in Callers \ {c} : got'[d] = got[d]
  BY <1>2, <1>5, <1>6 DEF Inv, Typed
<1>8. /\ Len(got'[c]) = Len(got[c]) + 1 /\ got'[c][Len(got[c]) + 1] = s
      /\ \A i \in 1 .. Len(got[c]) : got'[c][i] = got[c][i]
  BY <1>2, <1>6, <1>7
<1>9. PICK full \in BOOLEAN : full <=> Len(got[c]) + 1 = cidx[c] * call[c].nj
  OBVIOUS
<1>10. /\ jobsMutex' = [jobsMutex EXCEPT ![r] = IF full THEN NoThread ELSE c]
       /\ cidx' = [cidx EXCEPT ![c] = IF full THEN cidx[c] + 1 ELSE cidx[c]]
  BY <1>3, <1>9 DEF GetJob
<1>11. PICK pc : /\ Goto(c, pc)
                 /\ \/ pc = "get" /\ ~(full /\ cidx[c] = Len(call[c].ranks))
                    \/ /\ pc = "choose" /\ full /\ cidx[c] = Len(call[c].ranks)
                       /\ call[c].op.single /\ Len(call[c].ranks) # 1
                    \/ /\ pc = "set" /\ full /\ cidx[c] = Len(call[c].ranks)
                       /\ ~(call[c].op.single /\ Len(call[c].ranks) # 1)
  <2>1. CASE ~(full /\ cidx[c] = Len(call[c].ranks))
    BY <1>9, <2>1 DEF GetJob
  <2>2. CASE full /\ cidx[c] = Len(call[c].ranks) /\ call[c].op.single /\ Len(call[c].ranks) # 1
    BY <1>9, <2>2 DEF GetJob
  <2>3. CASE full /\ cidx[c] = Len(call[c].ranks) /\ ~(call[c].op.single /\ Len(call[c].ranks) # 1)
    BY <1>9, <2>3 DEF GetJob
  <2> QED
    BY <2>1, <2>2, <2>3
<1>12. pc \in CallerPC
  BY <1>11 DEF CallerPC
<1>13. /\ cpc' \in [Callers -> CallerPC] /\ cpc'[c] = pc
       /\ \A d \in Callers \ {c} : cpc'[d] = cpc[d]
  BY <1>11, <1>12, GotoFacts
<1>14. /\ cidx' \in [Callers -> Nat] /\ cidx'[c] = IF full THEN cidx[c] + 1 ELSE cidx[c]
       /\ \A d \in Callers \ {c} : cidx'[d] = cidx[d]
  BY <1>2, <1>10 DEF Inv, Typed
<1>15. /\ jobsMutex' \in [Ranks -> Threads \cup {NoThread}]
       /\ \A x \in Ranks : jobsMutex[x] \in {NoThread, c} \/ jobsMutex'[x] = jobsMutex[x]
  BY <1>5, <1>10 DEF Inv, Typed, Threads
<1>16. Typed'
  BY <1>5, <1>6, <1>7, <1>13, <1>14, <1>15 DEF Inv, Typed
<1>17. JobsRun' /\ \A x \in Ranks : OwnSlots(x)'
  BY <1>5, <1>6 DEF Inv, JobsRun, OwnSlots
<1>18. cidx[c] \in 1 .. Len(call[c].ranks) /\ call'[c] = call[c]
  BY <1>1, <1>5 DEF Getting
<1>19. CallerInv(c)'
  <2>1. CASE call[c].nj = 1
    <3>1. Len(got[c]) = cidx[c] - 1 /\ full
      BY <1>1, <1>2, <1>9, <2>1 DEF Getting
    <3>2. Len(got'[c]) = cidx[c] /\ cidx'[c] = cidx[c] + 1
      BY <1>2, <1>8, <1>14, <3>1
    <3>3. pc = "get" => Getting(c)'
      BY <1>2, <1>11, <1>18, <2>1, <3>1, <3>2 DEF Getting
    <3> QED
      BY <1>1, <1>11, <1>13, <1>18, <2>1, <3>1, <3>2, <3>3 DEF CallerInv
  <2>2. CASE call[c].nj = 2 /\ Len(got[c]) = 2 * cidx[c] - 2
    <3>1. ~full /\ pc = "get"
      BY <1>2, <1>9, <1>11, <2>2
    <3>2. Len(got'[c]) = 2 * cidx[c] - 1 /\ cidx'[c] = cidx[c]
      BY <1>2, <1>8, <1>14, <2>2, <3>1
    <3>3. Getting(c)'
      BY <1>2, <1>3, <1>6, <1>8, <1>18, <2>2, <3>2 DEF Getting
    <3>4. Pairs(c)'
      <4>1. SUFFICES ASSUME NEW k \in Nat, 2 * k + 2 <= Len(got'[c])
                     PROVE  RankOf(got'[c][2 * k + 1]) = RankOf(got'[c][2 * k + 2])
        BY DEF Pairs
      <4>2. 2 * k + 2 <= Len(got[c]) /\ 2 * k + 1 \in 1 .. Len(got[c]) /\ 2 * k + 2 \in 1 .. Len(got[c])
        BY <1>2, <2>2, <3>2, <4>1
      <4>3. RankOf(got[c][2 * k + 1]) = RankOf(got[c][2 * k + 2])
        BY <1>1, <2>2, <4>2 DEF CallerInv, Pairs
      <4> QED
        BY <1>8, <4>2, <4>3
    <3> QED
      BY <1>1, <1>13, <1>18, <2>2, <3>1, <3>3, <3>4 DEF CallerInv
  <2>3. CASE /\ call[c].nj = 2 /\ Len(got[c]) = 2 * cidx[c] - 1
             /\ RankOf(got[c][Len(got[c])]) = call[c].ranks[cidx[c]]
    <3>1. full
      BY <1>2, <1>9, <2>3
    <3>2. Len(got'[c]) = 2 * cidx[c] /\ cidx'[c] = cidx[c] + 1
      BY <1>2, <1>8, <1>14, <2>3, <3>1
    <3>3. pc = "get" => Getting(c)'
      <4> SUFFICES ASSUME pc = "get" PROVE Getting(c)'
        OBVIOUS
      <4>1. cidx[c] # Len(call[c].ranks)
        BY <1>11, <3>1
      <4>2. cidx'[c] \in 1 .. Len(call'[c].ranks)
        BY <1>2, <1>18, <3>2, <4>1
      <4>3. Len(got'[c]) = 2 * cidx'[c] - 2
        BY <1>2, <3>2
      <4> QED
        BY <1>18, <2>3, <4>2, <4>3 DEF Getting
    <3>4. Pairs(c)'
      <4>1. SUFFICES ASSUME NEW k \in Nat, 2 * k + 2 <= Len(got'[c])
                     PROVE  RankOf(got'[c][2 * k + 1]) = RankOf(got'[c][2 * k + 2])
        BY DEF Pairs
      <4>2. CASE 2 * k + 2 <= Len(got[c])
        <5>1. RankOf(got[c][2 * k + 1]) = RankOf(got[c][2 * k + 2])
          BY <1>1, <2>3, <4>2 DEF CallerInv, Pairs
        <5>2. 2 * k + 1 \in 1 .. Len(got[c]) /\ 2 * k + 2 \in 1 .. Len(got[c])
          BY <1>2, <4>2
        <5> QED
          BY <1>8, <5>1, <5>2
      <4>3. CASE ~(2 * k + 2 <= Len(got[c]))
        <5>1. 2 * k + 1 = Len(got[c]) /\ 2 * k + 2 = Len(got[c]) + 1 /\ Len(got[c]) \in 1 .. Len(got[c])
          BY <1>2, <1>8, <2>3, <4>1, <4>3, LastPair
        <5> QED
          BY <1>3, <1>6, <1>8, <2>3, <5>1
      <4> QED
        BY <4>2, <4>3
    <3>5. pc # "choose"
      BY <1>1, <1>11, <2>3 DEF CallerInv
    <3> QED
      BY <1>1, <1>2, <1>11, <1>13, <1>18, <2>3, <3>2, <3>3, <3>4, <3>5 DEF CallerInv
  <2> QED
    BY <1>1, <1>2, <2>1, <2>2, <2>3 DEF Getting
<1>20. \A d \in Callers \ {c} : /\ cpc'[d] = cpc[d] /\ call'[d] = call[d]
                                /\ cidx'[d] = cidx[d] /\ got'[d] = got[d]
  BY <1>5, <1>7, <1>13, <1>14
<1>21. /\ UNCHANGED <<jobs, list, wjob, wcb>>
       /\ cpc[c] # "addq" /\ cpc'[c] # "addq" /\ \A w \in Workers : wpc'[w] = wpc[w]
  BY <1>1, <1>5, <1>11, <1>13
<1> QED
  BY <1>15, <1>16, <1>17, <1>19, <1>20, <1>21, CallerFrame


\* Steps that take slots or give them back.
LEMMA SlotsCaller ==
  ASSUME Inv, NEW c \in Callers, NEW pc \in CallerPC, Goto(c, pc),
         UNCHANGED <<jobs, job, list, parked, queueMutex, cidx, wpc, wjob, wcb>>,
         available' \in [Ranks -> Seq(Slots)],
         \A x \in Ranks : \A i \in 1 .. Len(available'[x]) : RankOf(available'[x][i]) = x,
         NEW g \in Seq(Slots), got' = [got EXCEPT ![c] = g],
         NEW k \in CallType, call' = [call EXCEPT ![c] = k],
         jobsMutex' \in [Ranks -> Threads \cup {NoThread}],
         \A r \in Ranks : jobsMutex[r] \in {NoThread, c} \/ jobsMutex'[r] = jobsMutex[r],
         cpc[c] # "addq", pc # "addq",
         CallerInv(c)'
  PROVE  Inv'
<1>1. /\ cpc' \in [Callers -> CallerPC] /\ cpc'[c] = pc
      /\ \A d \in Callers \ {c} : cpc'[d] = cpc[d]
  BY GotoFacts
<1>2. /\ got' \in [Callers -> Seq(Slots)] /\ got'[c] = g
      /\ \A d \in Callers \ {c} : got'[d] = got[d]
  BY DEF Inv, Typed
<1>3. /\ call' \in [Callers -> CallType] /\ call'[c] = k
      /\ \A d \in Callers \ {c} : call'[d] = call[d]
  BY DEF Inv, Typed
<1>4. Typed'
  BY <1>1, <1>2, <1>3 DEF Inv, Typed
<1>5. JobsRun' /\ \A x \in Ranks : OwnSlots(x)'
  BY DEF Inv, JobsRun, OwnSlots
<1>6. \A d \in Callers \ {c} : /\ cpc'[d] = cpc[d] /\ call'[d] = call[d]
                               /\ cidx'[d] = cidx[d] /\ got'[d] = got[d]
  BY <1>1, <1>2, <1>3
<1>7. /\ UNCHANGED <<jobs, list, wjob, wcb>>
      /\ cpc[c] # "addq" /\ cpc'[c] # "addq" /\ \A w \in Workers : wpc'[w] = wpc[w]
  BY <1>1
<1> QED
  BY <1>4, <1>5, <1>6, <1>7, CallerFrame

\* What such a step makes of the caller.
LEMMA CallerNow ==
  ASSUME Inv, NEW c \in Callers, NEW pc \in CallerPC, Goto(c, pc),
         NEW g, got' = [got EXCEPT ![c] = g], NEW k, call' = [call EXCEPT ![c] = k]
  PROVE  cpc'[c] = pc /\ got'[c] = g /\ call'[c] = k
BY DEF Inv, Typed, Goto

\* The first n elements of a sequence.
LEMMA FirstOf ==
  ASSUME NEW S, NEW s \in Seq(S), NEW n \in Nat, n <= Len(s)
  PROVE  /\ SubSeq(s, 1, n) \in Seq(S) /\ Len(SubSeq(s, 1, n)) = n
         /\ \A i \in 1 .. n : SubSeq(s, 1, n)[i] = s[i]
OBVIOUS

\* The elements after the first n.
LEMMA RestOf ==
  ASSUME NEW S, NEW s \in Seq(S), NEW n \in {1, 2}, n <= Len(s)
  PROVE  /\ SubSeq(s, n + 1, Len(s)) \in Seq(S) /\ Len(SubSeq(s, n + 1, Len(s))) = Len(s) - n
         /\ \A i \in 1 .. Len(s) - n : SubSeq(s, n + 1, Len(s))[i] = s[i + n]
OBVIOUS

\* The slots of the ranks before the one in error are whole pairs.
LEMMA InvGetFail ==
  ASSUME Inv, NEW c \in Callers, GetFail(c)
  PROVE  Inv'
<1>1. /\ cpc[c] = "get" /\ CallerInv(c) /\ Getting(c)
  BY DEF GetFail, Inv, CallerInv
<1>2. /\ call[c].ranks \in Seq(Ranks) /\ call[c].nj \in {1, 2} /\ cidx[c] \in Nat
      /\ got[c] \in Seq(Slots) /\ Len(got[c]) \in Nat /\ Len(call[c].ranks) \in Nat
      /\ call[c] \in CallType
  BY CallTypes
<1>3. PICK r \in Ranks : r = call[c].ranks[cidx[c]]
  BY <1>1, <1>2 DEF Getting
<1>4. PICK n : n = (cidx[c] - 1) * call[c].nj
  OBVIOUS
<1>5. /\ jobsMutex[r] \in {NoThread, c} /\ jobsMutex' = [jobsMutex EXCEPT ![r] = c]
      /\ got' = [got EXCEPT ![c] = SubSeq(got[c], 1, n)] /\ Goto(c, "unget")
      /\ UNCHANGED <<available, jobs, job, list, parked, queueMutex, call, cidx, wpc, wjob, wcb>>
  BY <1>3, <1>4 DEF GetFail, fifo, wrk
<1>6. n \in Nat /\ n <= Len(got[c]) /\ (call[c].nj = 2 => n = 2 * (cidx[c] - 1) /\ cidx[c] - 1 \in Nat)
  <2>1. CASE call[c].nj = 1
    BY <1>1, <1>2, <1>4, <2>1 DEF Getting
  <2>2. CASE call[c].nj = 2
    BY <1>1, <1>2, <1>4, <2>2 DEF Getting
  <2> QED
    BY <1>2, <2>1, <2>2
<1>7. PICK g : g = SubSeq(got[c], 1, n)
  OBVIOUS
<1>8. g \in Seq(Slots) /\ Len(g) = n /\ \A i \in 1 .. n : g[i] = got[c][i]
  BY <1>2, <1>6, <1>7, FirstOf
<1>9. /\ jobsMutex' \in [Ranks -> Threads \cup {NoThread}]
      /\ \A x \in Ranks : jobsMutex[x] \in {NoThread, c} \/ jobsMutex'[x] = jobsMutex[x]
  BY <1>5 DEF Inv, Typed, Threads
<1>10. call' = [call EXCEPT ![c] = call[c]] /\ got' = [got EXCEPT ![c] = g]
  BY <1>5, <1>7 DEF Inv, Typed
<1>11. /\ Goto(c, "unget")
       /\ UNCHANGED <<jobs, job, list, parked, queueMutex, cidx, wpc, wjob, wcb>>
  BY <1>5
<1>12. "unget" \in CallerPC /\ cpc[c] # "addq"
  BY <1>1 DEF CallerPC
<1>13. cpc'[c] = "unget" /\ got'[c] = g /\ call'[c] = call[c]
  BY <1>10, <1>11, <1>12, CallerNow
<1>14. CallerInv(c)'
  <2>1. ASSUME call[c].nj = 2 PROVE Pairs(c)'
    <3> SUFFICES ASSUME NEW k \in Nat, 2 * k + 2 <= Len(g)
                 PROVE  RankOf(g[2 * k + 1]) = RankOf(g[2 * k + 2])
      BY <1>13 DEF Pairs
    <3>1. 2 * k + 2 <= Len(got[c]) /\ 2 * k + 1 \in 1 .. n /\ 2 * k + 2 \in 1 .. n
      BY <1>2, <1>6, <1>8
    <3>2. RankOf(got[c][2 * k + 1]) = RankOf(got[c][2 * k + 2])
      BY <1>1, <2>1, <3>1 DEF CallerInv, Pairs
    <3> QED
      BY <1>8, <3>1, <3>2
  <2>2. call[c].nj = 2 => \E k \in Nat : Len(got'[c]) = 2 * k
    BY <1>6, <1>8, <1>13
  <2> QED
    BY <1>1, <1>13, <2>1, <2>2 DEF CallerInv
<1>15. /\ available' \in [Ranks -> Seq(Slots)]
       /\ \A x \in Ranks : \A i \in 1 .. Len(available'[x]) : RankOf(available'[x][i]) = x
  BY <1>5 DEF Inv, Typed, OwnSlots
<1> QED
  BY <1>2, <1>8, <1>9, <1>10, <1>11, <1>12, <1>14, <1>15, SlotsCaller

LEMMA InvChooseMaster ==
  ASSUME Inv, NEW c \in Callers, NEW r \in Ranks, ChooseMaster(c, r)
  PROVE  Inv'
<1>1. /\ cpc[c] = "choose" /\ CallerInv(c) /\ Goto(c, "master")
      /\ call' = [call EXCEPT ![c] = [call[c] EXCEPT !.owner = r]]
      /\ UNCHANGED <<available, jobs, job, list, parked, jobsMutex, queueMutex, cidx, got,
                     wpc, wjob, wcb>>
  BY DEF ChooseMaster, Inv, fifo, wrk, locks
<1>2. call[c] \in CallType /\ got[c] \in Seq(Slots)
  BY CallTypes
<1>3. PICK k : k = [call[c] EXCEPT !.owner = r]
  OBVIOUS
<1>4. /\ k \in CallType /\ k.ranks = call[c].ranks /\ k.op = call[c].op /\ k.nj = call[c].nj
  BY <1>2, <1>3 DEF CallType
<1>5. got' = [got EXCEPT ![c] = got[c]]
  BY <1>1 DEF Inv, Typed
<1>6. "master" \in CallerPC /\ cpc[c] # "addq"
  BY <1>1 DEF CallerPC
<1>7. cpc'[c] = "master" /\ got'[c] = got[c] /\ call'[c] = k
  BY <1>1, <1>3, <1>5, <1>6, CallerNow
<1>8. CallerInv(c)'
  BY <1>1, <1>4, <1>7 DEF CallerInv, Pairs
<1>9. /\ available' \in [Ranks -> Seq(Slots)]
      /\ \A x \in Ranks : \A i \in 1 .. Len(available'[x]) : RankOf(available'[x][i]) = x
      /\ jobsMutex' \in [Ranks -> Threads \cup {NoThread}]
      /\ \A x \in Ranks : jobsMutex[x] \in {NoThread, c} \/ jobsMutex'[x] = jobsMutex[x]
  BY <1>1 DEF Inv, Typed, OwnSlots
<1> QED
  BY <1>1, <1>2, <1>3, <1>4, <1>5, <1>6, <1>8, <1>9, SlotsCaller

LEMMA InvGetMaster ==
  ASSUME Inv, NEW c \in Callers, GetMaster(c)
  PROVE  Inv'
<1>1. /\ cpc[c] = "master" /\ CallerInv(c) /\ call[c].owner \in Ranks
      /\ UNCHANGED <<jobs, job, list, parked, jobsMutex, queueMutex, call, cidx, wpc, wjob, wcb>>
      /\ call[c] \in CallType /\ got[c] \in Seq(Slots) /\ Len(got[c]) \in Nat
      /\ Len(call[c].ranks) \in Nat
  BY CallTypes DEF GetMaster, Inv, wrk, locks
<1>2. call' = [call EXCEPT ![c] = call[c]]
  BY <1>1 DEF Inv, Typed
<1>3. /\ call[c].op.single /\ Len(call[c].ranks) # 1 /\ call[c].nj = 1
      /\ Len(got[c]) = Len(call[c].ranks) /\ call[c].ranks # <<>> /\ call[c].op \in Ops
      /\ ~call[c].op.sync
  BY <1>1 DEF CallerInv
<1>4. /\ jobsMutex' \in [Ranks -> Threads \cup {NoThread}]
      /\ \A x \in Ranks : jobsMutex[x] \in {NoThread, c} \/ jobsMutex'[x] = jobsMutex[x]
  BY <1>1 DEF Inv, Typed
<1>5. ASSUME NEW pc \in {"unget", "waitmaster"}, Goto(c, pc), UNCHANGED <<available, got>>
      PROVE  Inv'
  <2>1. got' = [got EXCEPT ![c] = got[c]]
    BY <1>5 DEF Inv, Typed
  <2>2. pc \in CallerPC /\ cpc[c] # "addq" /\ pc # "addq"
    BY <1>1, <1>5 DEF CallerPC
  <2>3. cpc'[c] = pc /\ got'[c] = got[c] /\ call'[c] = call[c]
    BY <1>2, <1>5, <2>1, <2>2, CallerNow
  <2>4. CallerInv(c)'
    BY <1>3, <1>5, <2>3 DEF CallerInv
  <2>5. /\ available' \in [Ranks -> Seq(Slots)]
        /\ \A x \in Ranks : \A i \in 1 .. Len(available'[x]) : RankOf(available'[x][i]) = x
    BY <1>5 DEF Inv, Typed, OwnSlots
  <2> QED
    BY <1>1, <1>2, <1>4, <1>5, <2>1, <2>2, <2>4, <2>5, SlotsCaller
<1>6. ASSUME available[call[c].owner] # <<>>, Goto(c, "set"),
             got' = [got EXCEPT ![c] = Append(got[c], Head(available[call[c].owner]))],
             available' = Popped(call[c].owner)
      PROVE  Inv'
  <2>1. PICK g : g = Append(got[c], Head(available[call[c].owner]))
    OBVIOUS
  <2>2. /\ Head(available[call[c].owner]) \in Slots
        /\ available' \in [Ranks -> Seq(Slots)]
        /\ \A x \in Ranks : \A i \in 1 .. Len(available'[x]) : RankOf(available'[x][i]) = x
    BY <1>1, <1>6, PoppedOwn
  <2>3. g \in Seq(Slots) /\ Len(g) = Len(got[c]) + 1
    BY <1>1, <2>1, <2>2
  <2>4. "set" \in CallerPC /\ cpc[c] # "addq"
    BY <1>1 DEF CallerPC
  <2>5. cpc'[c] = "set" /\ got'[c] = g /\ call'[c] = call[c]
    BY <1>2, <1>6, <2>1, <2>4, CallerNow
  <2>6. CallerInv(c)'
    BY <1>3, <2>3, <2>5 DEF CallerInv
  <2> QED
    BY <1>1, <1>2, <1>4, <1>6, <2>1, <2>2, <2>3, <2>4, <2>6, SlotsCaller
<1> QED
  BY <1>5, <1>6 DEF GetMaster


\* The slots at the head of got, one or two, are of one rank.
LEMMA HeadSlots ==
  ASSUME Inv, NEW c \in Callers, cpc[c] \in {"unget", "add", "addq"}, got[c] # <<>>
  PROVE  /\ call[c].nj \in {1, 2} /\ call[c].nj <= Len(got[c]) /\ got[c] \in Seq(Slots)
         /\ Len(got[c]) \in Nat /\ got[c][1] \in Slots /\ RankOf(got[c][1]) \in Ranks
         /\ \A i \in 1 .. call[c].nj :
              got[c][i] \in Slots /\ RankOf(got[c][i]) = RankOf(got[c][1])
<1>1. call[c].nj \in {1, 2} /\ got[c] \in Seq(Slots) /\ Len(got[c]) \in Nat /\ CallerInv(c)
  BY CallTypes DEF Inv
<1>2. Len(got[c]) >= 1 /\ got[c][1] \in Slots /\ RankOf(got[c][1]) \in Ranks
  BY <1>1 DEF Slots, RankOf
<1>3. ASSUME call[c].nj = 2
      PROVE  Len(got[c]) >= 2 /\ got[c][2] \in Slots /\ RankOf(got[c][2]) = RankOf(got[c][1])
  <2>1. PICK k \in Nat : Len(got[c]) = 2 * k
    BY <1>1, <1>3 DEF CallerInv
  <2>2. Len(got[c]) >= 2 /\ got[c][2] \in Slots
    BY <1>1, <1>2, <2>1
  <2>3. Pairs(c)
    BY <1>1, <1>3 DEF CallerInv
  <2>4. 0 \in Nat /\ 2 * 0 + 2 = 2 /\ 2 * 0 + 1 = 1
    OBVIOUS
  <2>5. RankOf(got[c][2 * 0 + 1]) = RankOf(got[c][2 * 0 + 2])
    BY <2>2, <2>3, <2>4 DEF Pairs
  <2> QED
    BY <2>2, <2>4, <2>5
<1>4. \A i \in 1 .. call[c].nj : i = 1 \/ (i = 2 /\ call[c].nj = 2)
  <2>1. \A i \in 1 .. 1 : i = 1
    OBVIOUS
  <2>2. \A i \in 1 .. 2 : i = 1 \/ i = 2
    OBVIOUS
  <2> QED
    BY <1>1, <2>1, <2>2
<1>5. call[c].nj <= Len(got[c])
  BY <1>1, <1>2, <1>3
<1> QED
  BY <1>1, <1>2, <1>3, <1>4, <1>5

\* What is left once they are gone.
LEMMA RestCaller ==
  ASSUME Inv, NEW c \in Callers, cpc[c] \in {"unget", "add", "addq"}, got[c] # <<>>,
         cpc'[c] \in {"unget", "add"}, call'[c] = call[c],
         got'[c] = SubSeq(got[c], call[c].nj + 1, Len(got[c]))
  PROVE  CallerInv(c)'
<1>1. /\ call[c].nj \in {1, 2} /\ call[c].nj <= Len(got[c]) /\ got[c] \in Seq(Slots)
      /\ Len(got[c]) \in Nat /\ CallerInv(c)
  BY HeadSlots DEF Inv
<1>2. /\ Len(got'[c]) = Len(got[c]) - call[c].nj
      /\ \A i \in 1 .. Len(got[c]) - call[c].nj : got'[c][i] = got[c][i + call[c].nj]
  <2>1. PICK n, g : n = call[c].nj /\ g = got[c]
    OBVIOUS
  <2>2. n \in {1, 2} /\ g \in Seq(Slots) /\ n <= Len(g)
    BY <1>1, <2>1
  <2>3. /\ Len(SubSeq(g, n + 1, Len(g))) = Len(g) - n
        /\ \A i \in 1 .. Len(g) - n : SubSeq(g, n + 1, Len(g))[i] = g[i + n]
    BY <2>2, RestOf
  <2>4. got'[c] = SubSeq(g, n + 1, Len(g))
    BY <2>1
  <2> QED
    BY <2>1, <2>3, <2>4
<1>3. ASSUME call[c].nj = 2
      PROVE  Pairs(c)' /\ \E k \in Nat : Len(got'[c]) = 2 * k
  <2>1. PICK k \in Nat : Len(got[c]) = 2 * k
    BY <1>1, <1>3 DEF CallerInv
  <2>2. k - 1 \in Nat /\ Len(got'[c]) = 2 * (k - 1)
    BY <1>1, <1>2, <1>3, <2>1
  <2>3. Pairs(c)'
    <3> SUFFICES ASSUME NEW i \in Nat, 2 * i + 2 <= Len(got'[c])
                 PROVE  RankOf(got'[c][2 * i + 1]) = RankOf(got'[c][2 * i + 2])
      BY DEF Pairs
    <3>1. /\ i + 1 \in Nat /\ 2 * (i + 1) + 2 <= Len(got[c])
          /\ 2 * i + 1 \in 1 .. Len(got[c]) - call[c].nj
          /\ 2 * i + 2 \in 1 .. Len(got[c]) - call[c].nj
          /\ 2 * i + 1 + call[c].nj = 2 * (i + 1) + 1
          /\ 2 * i + 2 + call[c].nj = 2 * (i + 1) + 2
      BY <1>1, <1>2, <1>3
    <3>2. RankOf(got[c][2 * (i + 1) + 1]) = RankOf(got[c][2 * (i + 1) + 2])
      BY <1>1, <1>3, <3>1 DEF CallerInv, Pairs
    <3>3. /\ got'[c][2 * i + 1] = got[c][2 * (i + 1) + 1]
          /\ got'[c][2 * i + 2] = got[c][2 * (i + 1) + 2]
      BY <1>2, <3>1
    <3> QED
      BY <3>2, <3>3
  <2> QED
    BY <2>2, <2>3
<1> QED
  BY <1>1, <1>3 DEF CallerInv

\* The slots of one rank go back to its free list.
LEMMA InvUnget ==
  ASSUME Inv, NEW c \in Callers, Unget(c)
  PROVE  Inv'
<1>1. cpc[c] = "unget" /\ got[c] # <<>>
  BY DEF Unget
<1>2. /\ call[c].nj \in {1, 2} /\ call[c].nj <= Len(got[c]) /\ got[c] \in Seq(Slots)
      /\ Len(got[c]) \in Nat /\ got[c][1] \in Slots
      /\ \A i \in 1 .. call[c].nj :
           got[c][i] \in Slots /\ RankOf(got[c][i]) = RankOf(got[c][1])
  BY <1>1, HeadSlots
<1>3. PICK r \in Ranks : r = RankOf(got[c][1])
  BY <1>1, HeadSlots
<1>4. PICK back : back = IF call[c].nj = 1 THEN <<got[c][1]>> ELSE <<got[c][2], got[c][1]>>
  OBVIOUS
<1>5. back \in Seq(Slots) /\ \A i \in 1 .. Len(back) : RankOf(back[i]) = r
  <2>1. CASE call[c].nj = 1
    BY <1>2, <1>3, <1>4, <2>1
  <2>2. CASE call[c].nj = 2
    <3>1. back = <<got[c][2], got[c][1]>> /\ got[c][2] \in Slots /\ RankOf(got[c][2]) = r
      BY <1>2, <1>3, <1>4, <2>2
    <3> QED
      BY <1>2, <1>3, <3>1
  <2> QED
    BY <1>2, <2>1, <2>2
<1>6. /\ available' = [available EXCEPT ![r] = back \o available[r]]
      /\ got' = [got EXCEPT ![c] = SubSeq(got[c], call[c].nj + 1, Len(got[c]))]
      /\ UNCHANGED <<jobs, job, list, parked, jobsMutex, queueMutex, cpc, call, cidx,
                     wpc, wjob, wcb>>
  <2>1. CASE call[c].nj = 1
    BY <1>3, <1>4, <2>1 DEF Unget, wrk, locks
  <2>2. CASE call[c].nj = 2
    BY <1>3, <1>4, <2>2 DEF Unget, wrk, locks
  <2> QED
    BY <1>2, <2>1, <2>2
<1>7. /\ available \in [Ranks -> Seq(Slots)]
      /\ \A x \in Ranks : \A i \in 1 .. Len(available[x]) : RankOf(available[x][i]) = x
  BY DEF Inv, Typed, OwnSlots
<1>8. PICK free : free = back \o available[r]
  OBVIOUS
<1>9. free \in Seq(Slots) /\ \A i \in 1 .. Len(free) : RankOf(free[i]) = r
  <2>1. /\ free \in Seq(Slots) /\ Len(free) = Len(back) + Len(available[r])
        /\ \A i \in 1 .. Len(free) :
             free[i] = IF i <= Len(back) THEN back[i] ELSE available[r][i - Len(back)]
    BY <1>5, <1>7, <1>8
  <2> SUFFICES ASSUME NEW i \in 1 .. Len(free) PROVE RankOf(free[i]) = r
    BY <2>1
  <2>2. Len(back) \in Nat /\ Len(available[r]) \in Nat
    BY <1>5, <1>7
  <2>3. CASE i <= Len(back)
    BY <1>5, <2>1, <2>2, <2>3
  <2>4. CASE ~(i <= Len(back))
    <3>1. i - Len(back) \in 1 .. Len(available[r])
      BY <2>1, <2>2, <2>4
    <3> QED
      BY <1>7, <2>1, <2>4, <3>1
  <2> QED
    BY <2>3, <2>4
<1>10. /\ available' \in [Ranks -> Seq(Slots)]
       /\ \A x \in Ranks : \A i \in 1 .. Len(available'[x]) : RankOf(available'[x][i]) = x
  <2>1. /\ available' \in [Ranks -> Seq(Slots)] /\ available'[r] = free
        /\ \A x \in Ranks \ {r} : available'[x] = available[x]
    BY <1>6, <1>7, <1>8, <1>9
  <2> QED
    BY <1>7, <1>9, <2>1
<1>11. PICK g : g = SubSeq(got[c], call[c].nj + 1, Len(got[c]))
  OBVIOUS
<1>12. g \in Seq(Slots)
  BY <1>2, <1>11, RestOf
<1>13. /\ call' = [call EXCEPT ![c] = call[c]] /\ got' = [got EXCEPT ![c] = g]
       /\ Goto(c, "unget") /\ "unget" \in CallerPC /\ call[c] \in CallType
  BY <1>1, <1>6, <1>11, CallTypes DEF Inv, Typed, Goto, CallerPC
<1>14. cpc'[c] = "unget" /\ got'[c] = g /\ call'[c] = call[c]
  BY <1>13, CallerNow
<1>15. CallerInv(c)'
  BY <1>1, <1>11, <1>14, RestCaller
<1>16. /\ jobsMutex' \in [Ranks -> Threads \cup {NoThread}]
       /\ \A x \in Ranks : jobsMutex[x] \in {NoThread, c} \/ jobsMutex'[x] = jobsMutex[x]
       /\ UNCHANGED <<jobs, job, list, parked, queueMutex, cidx, wpc, wjob, wcb>>
       /\ cpc[c] # "addq"
  BY <1>1, <1>6 DEF Inv, Typed
<1> QED
  BY <1>10, <1>12, <1>13, <1>15, <1>16, SlotsCaller


\* What SetJobs writes in a slot.
LEMMA FilledJob ==
  ASSUME Inv, NEW c \in Callers, cpc[c] = "set", NEW s \in Slots
  PROVE  \/ Filled(c, s) = job[s]
         \/ \E t \in {"work", "sync", "callback"}, m \in Slots \cup {NoSlot}, S \in Seq(Ranks), nr \in Int :
              Filled(c, s) = [type |-> t, owner |-> c, master |-> m, set |-> S, nr |-> nr,
                              sync |-> call[c].op.sync, nonblocking |-> call[c].op.nonblocking,
                              single |-> Single(c)]
<1> DEFINE seen == SeesCallback(call[c].op, call[c].ranks)
           master == got[c][Len(got[c])]
           new(t, m, S) == [type |-> t, owner |-> c, master |-> m, set |-> S,
                            nr |-> IF m = NoSlot /\ Single(c) THEN MasterCount(Len(call[c].ranks)) ELSE 1,
                            sync |-> call[c].op.sync, nonblocking |-> call[c].op.nonblocking,
                            single |-> Single(c)]
           rankSet == IF call[c].op.single THEN call[c].set ELSE <<RankOf(s)>>
           idx == CHOOSE i \in 1 .. Len(got[c]) : got[c][i] = s
<1>1. /\ CallerInv(c)
      /\ call[c].op \in OpType /\ call[c].ranks \in Seq(Ranks) /\ call[c].set \in Seq(Ranks)
      /\ call[c].nj \in {1, 2} /\ got[c] \in Seq(Slots) /\ Len(call[c].ranks) \in Nat
      /\ Len(got[c]) \in Nat /\ call[c].op.single \in BOOLEAN
  BY CallTypes DEF Inv
<1>2. call[c].op.type \in {"work", "sync", "callback"}
  BY <1>1 DEF OpType
<1>3. rankSet \in Seq(Ranks)
  BY <1>1 DEF Slots, RankOf
<1>4. Single(c) => master \in Slots
  BY <1>1 DEF CallerInv, Single
<1>5. ASSUME NEW t \in {"work", "sync", "callback"}, NEW m \in Slots \cup {NoSlot}, NEW S \in Seq(Ranks)
      PROVE  \E nr \in Int :
               new(t, m, S) = [type |-> t, owner |-> c, master |-> m, set |-> S, nr |-> nr,
                               sync |-> call[c].op.sync, nonblocking |-> call[c].op.nonblocking,
                               single |-> Single(c)]
  <2>1. PICK nr : nr = IF m = NoSlot /\ Single(c) THEN MasterCount(Len(call[c].ranks)) ELSE 1
    OBVIOUS
  <2>2. nr \in Int
    BY <1>1, <2>1 DEF MasterCount
  <2> QED
    BY <2>1, <2>2
<1>6. Filled(c, s) =
        CASE Single(c) /\ s = master -> new("callback", NoSlot, call[c].set)
          [] Single(c) /\ s # master -> new("callback", master, call[c].set)
          [] ~Single(c) /\ call[c].nj = 1 -> new(call[c].op.type, NoSlot, rankSet)
          [] ~Single(c) /\ call[c].nj = 2 /\ ~SyncSlot(idx) -> new(call[c].op.type, NoSlot, rankSet)
          [] ~Single(c) /\ call[c].nj = 2 /\ SyncSlot(idx) ->
               IF seen THEN job[s] ELSE new("sync", NoSlot, call[c].set)
  BY DEF Filled
<1>7. \/ Filled(c, s) = job[s]
      \/ \E t \in {"work", "sync", "callback"}, m \in Slots \cup {NoSlot}, S \in Seq(Ranks) :
           Filled(c, s) = new(t, m, S)
  <2> HIDE DEF new, rankSet, idx, seen, master
  <2>1. CASE Single(c) /\ s = master
    <3>1. Filled(c, s) = new("callback", NoSlot, call[c].set)
      BY <1>6, <2>1
    <3> QED
      BY <1>1, <3>1
  <2>2. CASE Single(c) /\ s # master
    <3>1. Filled(c, s) = new("callback", master, call[c].set)
      BY <1>6, <2>2
    <3> QED
      BY <1>1, <1>4, <2>2, <3>1
  <2>3. CASE ~Single(c) /\ call[c].nj = 1
    <3>1. Filled(c, s) = new(call[c].op.type, NoSlot, rankSet)
      BY <1>6, <2>3
    <3> QED
      BY <1>2, <1>3, <3>1
  <2>4. CASE ~Single(c) /\ call[c].nj = 2 /\ ~SyncSlot(idx)
    <3>1. Filled(c, s) = new(call[c].op.type, NoSlot, rankSet)
      BY <1>6, <2>4
    <3> QED
      BY <1>2, <1>3, <3>1
  <2>5. CASE ~Single(c) /\ call[c].nj = 2 /\ SyncSlot(idx)
    <3>1. Filled(c, s) = IF seen THEN job[s] ELSE new("sync", NoSlot, call[c].set)
      BY <1>6, <2>5
    <3> QED
      BY <1>1, <3>1
  <2> QED
    BY <1>1, <2>1, <2>2, <2>3, <2>4, <2>5
<1> HIDE DEF new
<1>8. CASE Filled(c, s) # job[s]
  <2>1. PICK t \in {"work", "sync", "callback"}, m \in Slots \cup {NoSlot}, S \in Seq(Ranks) :
          Filled(c, s) = new(t, m, S)
    BY <1>7, <1>8
  <2>2. PICK nr \in Int :
          new(t, m, S) = [type |-> t, owner |-> c, master |-> m, set |-> S, nr |-> nr,
                          sync |-> call[c].op.sync, nonblocking |-> call[c].op.nonblocking,
                          single |-> Single(c)]
    BY <1>5
  <2> QED
    BY <2>1, <2>2
<1> QED
  BY <1>8

\* Without a blocking asynchronous single-call callback no job parks its rank.
LEMMA InvSetJobs ==
  ASSUME NoParking, Inv, NEW c \in Callers, SetJobs(c)
  PROVE  Inv'
<1>1. /\ cpc[c] = "set" /\ CallerInv(c) /\ call[c].op \in OpType /\ call[c].op \in Ops
      /\ call[c].nj \in {1, 2} /\ got[c] \in Seq(Slots) /\ Len(call[c].ranks) \in Nat
      /\ Len(got[c]) \in Nat /\ call[c].op.single \in BOOLEAN
  BY CallTypes DEF SetJobs, Inv, CallerInv
<1>2. PICK single \in BOOLEAN : single = Single(c)
  BY DEF Single
<1>3. /\ job' = [s \in Slots |-> IF s \in Elems(got[c]) THEN Filled(c, s) ELSE job[s]]
      /\ got' = [got EXCEPT ![c] = IF single THEN SubSeq(got[c], 1, Len(call[c].ranks)) ELSE got[c]]
      /\ UNCHANGED <<available, jobs, list, parked, jobsMutex, queueMutex, call, cidx, wpc, wjob, wcb>>
  <2>1. job' = [s \in Slots |-> IF s \in Elems(got[c]) THEN Filled(c, s) ELSE job[s]]
    BY DEF SetJobs
  <2>2. got' = [got EXCEPT ![c] = IF single THEN SubSeq(got[c], 1, Len(call[c].ranks)) ELSE got[c]]
    BY <1>2 DEF SetJobs
  <2>3. UNCHANGED <<available, jobs, list, parked, jobsMutex, queueMutex, call, cidx, wpc, wjob, wcb>>
    BY DEF SetJobs, locks, wrk
  <2> QED
    BY <2>1, <2>2, <2>3
<1>4. PICK pc \in CallerPC : pc \in {"do_seen", "do"} /\ Goto(c, pc)
  BY DEF SetJobs, CallerPC
<1>5. single => call[c].op.nonblocking /\ call[c].nj = 1 /\ Len(got[c]) = Len(call[c].ranks) + 1
  <2>1. single => ~call[c].op.sync /\ call[c].nj = 1 /\ Len(got[c]) = Len(call[c].ranks) + 1
    BY <1>1, <1>2 DEF CallerInv, Single
  <2>2. ~Parks(call[c].op)
    BY <1>1 DEF NoParking
  <2> QED
    BY <1>2, <2>1, <2>2 DEF Parks, Single
<1>6. ASSUME NEW s \in Slots
      PROVE  job'[s] \in JobRecord /\ (job'[s].single => job'[s].nonblocking)
  <2>0. job'[s] = job[s] \/ job'[s] = Filled(c, s)
    BY <1>3
  <2>1. CASE job'[s] = job[s]
    BY <2>1 DEF Inv, Typed, JobsRun
  <2>2. ASSUME NEW t \in {"work", "sync", "callback"}, NEW m \in Slots \cup {NoSlot},
               NEW S \in Seq(Ranks), NEW nr \in Int,
               job'[s] = [type |-> t, owner |-> c, master |-> m, set |-> S, nr |-> nr,
                          sync |-> call[c].op.sync, nonblocking |-> call[c].op.nonblocking,
                          single |-> single]
        PROVE  job'[s] \in JobRecord /\ (job'[s].single => job'[s].nonblocking)
    <3>1. call[c].op.sync \in BOOLEAN /\ call[c].op.nonblocking \in BOOLEAN
      BY <1>1 DEF OpType
    <3> QED
      BY <1>2, <1>5, <2>2, <3>1 DEF JobRecord
  <2>3. CASE job'[s] # job[s]
    <3>1. job'[s] = Filled(c, s) /\ Filled(c, s) # job[s]
      BY <2>0, <2>3
    <3>2. PICK t \in {"work", "sync", "callback"}, m \in Slots \cup {NoSlot}, S \in Seq(Ranks), nr \in Int :
            Filled(c, s) = [type |-> t, owner |-> c, master |-> m, set |-> S, nr |-> nr,
                            sync |-> call[c].op.sync, nonblocking |-> call[c].op.nonblocking,
                            single |-> Single(c)]
      BY <1>1, <3>1, FilledJob
    <3>3. job'[s] = [type |-> t, owner |-> c, master |-> m, set |-> S, nr |-> nr,
                     sync |-> call[c].op.sync, nonblocking |-> call[c].op.nonblocking,
                     single |-> single]
      BY <1>2, <3>1, <3>2
    <3> QED
      BY <2>2, <3>3
  <2> QED
    BY <2>1, <2>3
<1>7. job' \in [Slots -> JobRecord] /\ JobsRun'
  BY <1>3, <1>6 DEF JobsRun
<1>8. PICK g : g = IF single THEN SubSeq(got[c], 1, Len(call[c].ranks)) ELSE got[c]
  OBVIOUS
<1>9. g \in Seq(Slots) /\ (call[c].nj = 2 => g = got[c])
  <2>1. CASE single
    BY <1>1, <1>5, <1>8, <2>1, FirstOf
  <2>2. CASE ~single
    BY <1>1, <1>8, <2>2
  <2> QED
    BY <2>1, <2>2
<1>10. /\ got' \in [Callers -> Seq(Slots)] /\ got'[c] = g
       /\ \A d \in Callers \ {c} : got'[d] = got[d]
  BY <1>3, <1>8, <1>9 DEF Inv, Typed
<1>11. /\ cpc' \in [Callers -> CallerPC] /\ cpc'[c] = pc
       /\ \A d \in Callers \ {c} : cpc'[d] = cpc[d]
  BY <1>4, GotoFacts
<1>12. Typed'
  BY <1>3, <1>7, <1>10, <1>11 DEF Inv, Typed
<1>13. \A x \in Ranks : OwnSlots(x)'
  BY <1>3 DEF Inv, OwnSlots
<1>14. CallerInv(c)'
  <2>1. call'[c] = call[c] /\ (call[c].nj = 2 => got'[c] = got[c])
    BY <1>3, <1>9, <1>10
  <2> QED
    BY <1>1, <1>4, <1>11, <2>1 DEF CallerInv, Pairs
<1>15. \A d \in Callers \ {c} : /\ cpc'[d] = cpc[d] /\ call'[d] = call[d]
                                /\ cidx'[d] = cidx[d] /\ got'[d] = got[d]
  BY <1>3, <1>10, <1>11
<1>16. /\ UNCHANGED <<jobs, list, wjob, wcb>> /\ \A r \in Ranks : jobsMutex'[r] = jobsMutex[r]
       /\ cpc[c] # "addq" /\ cpc'[c] # "addq" /\ \A w \in Workers : wpc'[w] = wpc[w]
  BY <1>1, <1>3, <1>4, <1>11
<1> QED
  BY <1>7, <1>12, <1>13, <1>14, <1>15, <1>16, CallerFrame

\* A step of caller c on the FIFO of rank r, whose mutex it holds or takes.
LEMMA AddFrame ==
  ASSUME Inv, NEW c \in Callers, NEW r \in Ranks, Typed', JobsRun',
         \A x \in Ranks : OwnSlots(x)', \A q \in Queues : QueueInv(q)',
         CallerInv(c)', Entering(c)', UNCHANGED <<wpc, wjob, wcb>>,
         jobsMutex[r] \in {NoThread, c},
         \A x \in Ranks \ {r} : /\ jobs'[x] = jobs[x] /\ jobsMutex'[x] = jobsMutex[x]
                                /\ Listed(x)' <=> Listed(x),
         \A d \in Callers \ {c} : /\ cpc'[d] = cpc[d] /\ call'[d] = call[d]
                                  /\ cidx'[d] = cidx[d] /\ got'[d] = got[d],
         (\A w \in Workers : (BusyOn(w, r)' <=> BusyOn(w, r)) /\ (Draining(w)' <=> Draining(w)))
           => Carried(r)'
  PROVE  Inv'
<1>1. \A w \in Workers : Idles(w)
  BY DEF Idles
<1>2. \A w \in Workers : /\ WorkerInv(w)' /\ (Draining(w)' <=> Draining(w))
                         /\ \A x : BusyOn(w, x)' <=> BusyOn(w, x)
  BY <1>1, WorkerKept DEF Inv
<1>3. \A x \in Ranks : Carried(x)'
  <2> SUFFICES ASSUME NEW x \in Ranks, x # r PROVE Carried(x)'
    BY <1>2
  <2>1. Carried(x) /\ jobs'[x] = jobs[x] /\ jobsMutex'[x] = jobsMutex[x] /\ (Listed(x)' <=> Listed(x))
    BY DEF Inv
  <2> QED
    BY <1>2, <2>1, CarriedKept
<1>4. \A d \in Callers : CallerInv(d)' /\ Entering(d)'
  <2> SUFFICES ASSUME NEW d \in Callers, d # c PROVE CallerInv(d)' /\ Entering(d)'
    OBVIOUS
  <2>1. CallerInv(d)'
    BY CallerKept DEF Inv, Woken
  <2>2. ASSUME cpc[d] = "addq" PROVE Entering(d)'
    <3>1. Entering(d) /\ got[d] \in Seq(Slots)
      BY DEF Inv, Typed
    <3>2. RankOf(got[d][1]) \in Ranks /\ jobsMutex[RankOf(got[d][1])] = d
      BY <2>2, <3>1 DEF Entering, Slots, RankOf
    <3>3. RankOf(got[d][1]) # r
      BY <3>2, ThreadsAssumption DEF Threads
    <3> QED
      BY <2>2, <3>1, <3>2, <3>3 DEF Entering
  <2>3. cpc[d] # "addq" => Entering(d)'
    BY DEF Entering
  <2> QED
    BY <2>1, <2>2, <2>3
<1> QED
  BY <1>2, <1>3, <1>4 DEF Inv

\* The slots of one rank are appended to its FIFO.
LEMMA FifoAppended ==
  ASSUME Inv, NEW c \in Callers, cpc[c] \in {"add", "addq"}, got[c] # <<>>,
         NEW r \in Ranks, r = RankOf(got[c][1]),
         jobs' = [jobs EXCEPT ![r] = jobs[r] \o SubSeq(got[c], 1, call[c].nj)],
         got' = [got EXCEPT ![c] = SubSeq(got[c], call[c].nj + 1, Len(got[c]))],
         available' = available
  PROVE  /\ jobs' \in [Ranks -> Seq(Slots)] /\ jobs'[r] # <<>>
         /\ \A x \in Ranks \ {r} : jobs'[x] = jobs[x]
         /\ \A x \in Ranks : OwnSlots(x)'
         /\ got' \in [Callers -> Seq(Slots)]
         /\ got'[c] = SubSeq(got[c], call[c].nj + 1, Len(got[c]))
         /\ \A d \in Callers \ {c} : got'[d] = got[d]
<1>1. PICK n, g : n = call[c].nj /\ g = got[c]
  OBVIOUS
<1>2. /\ n \in {1, 2} /\ n \in Nat /\ n <= Len(g) /\ g \in Seq(Slots)
      /\ \A i \in 1 .. n : g[i] \in Slots /\ RankOf(g[i]) = r
  BY <1>1, HeadSlots
<1>3. PICK new : new = SubSeq(g, 1, n)
  OBVIOUS
<1>4. /\ new \in Seq(Slots) /\ Len(new) = n /\ \A i \in 1 .. n : new[i] = g[i]
  BY <1>2, <1>3, FirstOf
<1>5. /\ jobs \in [Ranks -> Seq(Slots)] /\ jobs[r] \in Seq(Slots) /\ Len(jobs[r]) \in Nat
      /\ \A x \in Ranks : OwnSlots(x)
  BY DEF Inv, Typed
<1>6. PICK f : f = jobs[r] \o new
  OBVIOUS
<1>7. /\ f \in Seq(Slots) /\ Len(f) = Len(jobs[r]) + n
      /\ \A i \in 1 .. Len(f) : f[i] = IF i <= Len(jobs[r]) THEN jobs[r][i] ELSE new[i - Len(jobs[r])]
  BY <1>2, <1>4, <1>5, <1>6
<1>8. f # <<>>
  BY <1>2, <1>5, <1>7
<1>9. \A i \in 1 .. Len(f) : RankOf(f[i]) = r
  <2> SUFFICES ASSUME NEW i \in 1 .. Len(f) PROVE RankOf(f[i]) = r
    OBVIOUS
  <2>1. CASE i <= Len(jobs[r])
    BY <1>5, <1>7, <2>1 DEF OwnSlots
  <2>2. CASE ~(i <= Len(jobs[r]))
    <3>1. i - Len(jobs[r]) \in 1 .. n
      BY <1>2, <1>5, <1>7, <2>2
    <3>2. f[i] = new[i - Len(jobs[r])]
      BY <1>7, <2>2
    <3>3. new[i - Len(jobs[r])] = g[i - Len(jobs[r])]
      BY <1>4, <3>1
    <3> QED
      BY <1>2, <3>1, <3>2, <3>3
  <2> QED
    BY <2>1, <2>2
<1>10. /\ jobs' \in [Ranks -> Seq(Slots)] /\ jobs'[r] = f
       /\ \A x \in Ranks \ {r} : jobs'[x] = jobs[x]
  BY <1>1, <1>3, <1>5, <1>6, <1>7
<1>11. \A x \in Ranks : OwnSlots(x)'
  BY <1>5, <1>9, <1>10 DEF OwnSlots
<1>12. SubSeq(g, n + 1, Len(g)) \in Seq(Slots)
  BY <1>2, RestOf
<1>13. /\ got' \in [Callers -> Seq(Slots)]
       /\ got'[c] = SubSeq(g, n + 1, Len(g))
       /\ \A d \in Callers \ {c} : got'[d] = got[d]
  BY <1>1, <1>12 DEF Inv, Typed
<1> QED
  BY <1>1, <1>8, <1>10, <1>11, <1>13


\* A FIFO that had jobs gets more.
LEMMA CarriedLonger ==
  ASSUME NEW r \in Ranks, Carried(r), Listed(r)' <=> Listed(r), jobs[r] # <<>>, jobs'[r] # <<>>,
         \A w \in Workers : (BusyOn(w, r)' <=> BusyOn(w, r)) /\ (Draining(w)' <=> Draining(w)),
         \A w \in Workers : jobsMutex[r] # w
  PROVE  Carried(r)'
BY DEF Carried

\* An empty FIFO gets jobs and enters its queue.
LEMMA CarriedAnew ==
  ASSUME NEW r \in Ranks, Carried(r), Listed(r)', jobs[r] = <<>>, jobs'[r] # <<>>,
         \A w \in Workers : (BusyOn(w, r)' <=> BusyOn(w, r)) /\ (Draining(w)' <=> Draining(w)),
         \A w \in Workers : jobsMutex[r] # w
  PROVE  Carried(r)'
BY DEF Carried

\* The first rank of the call gets its jobs; its queue's mutex is held if it
\* has to enter it, or else taken next.
LEMMA InvAddJobs ==
  ASSUME Inv, NEW c \in Callers, AddJobs(c)
  PROVE  Inv'
<1>1. cpc[c] = "add" /\ got[c] # <<>> /\ CallerInv(c) /\ got[c][1] \in Slots
  BY HeadSlots DEF AddJobs, Inv
<1>2. PICK r \in Ranks : r = RankOf(got[c][1])
  BY <1>1, HeadSlots
<1>3. /\ jobsMutex[r] = NoThread
      /\ UNCHANGED <<available, job, parked, queueMutex, call, cidx, wpc, wjob, wcb>>
      /\ \/ /\ jobs[r] = <<>> /\ jobsMutex' = [jobsMutex EXCEPT ![r] = c] /\ Goto(c, "addq")
            /\ UNCHANGED <<jobs, list, got>>
         \/ /\ jobs' = [jobs EXCEPT ![r] = jobs[r] \o SubSeq(got[c], 1, call[c].nj)]
            /\ list' = IF jobs[r] = <<>> THEN [list EXCEPT ![QueueIdx[r]] = Append(@, got[c][1])] ELSE list
            /\ got' = [got EXCEPT ![c] = SubSeq(got[c], call[c].nj + 1, Len(got[c]))]
            /\ UNCHANGED <<jobsMutex, cpc>>
  BY <1>2 DEF AddJobs, EntersQueue, FirstJob, wrk
<1>4. \A w \in Workers : jobsMutex[r] # w
  BY <1>3, ThreadsAssumption DEF Threads
<1>5. Carried(r)
  BY DEF Inv
<1>6. JobsRun'
  BY <1>3 DEF Inv, JobsRun
<1>7. ASSUME jobs[r] = <<>>, jobsMutex' = [jobsMutex EXCEPT ![r] = c], Goto(c, "addq"),
             UNCHANGED <<jobs, list, got>>
      PROVE  Inv'
  <2>1. "addq" \in CallerPC
    BY DEF CallerPC
  <2>2. /\ cpc' \in [Callers -> CallerPC] /\ cpc'[c] = "addq"
        /\ \A d \in Callers \ {c} : cpc'[d] = cpc[d]
    BY <1>7, <2>1, GotoFacts
  <2>3. /\ jobsMutex' \in [Ranks -> Threads \cup {NoThread}] /\ jobsMutex'[r] = c
        /\ \A x \in Ranks \ {r} : jobsMutex'[x] = jobsMutex[x]
    BY <1>7 DEF Inv, Typed, Threads
  <2>4. Typed'
    BY <1>3, <1>7, <2>2, <2>3 DEF Inv, Typed
  <2>5. (\A x \in Ranks : OwnSlots(x)') /\ \A q \in Queues : QueueInv(q)'
    BY <1>3, <1>7 DEF Inv, OwnSlots, QueueInv
  <2>6. \A x \in Ranks : Listed(x)' <=> Listed(x)
    BY <1>7 DEF Listed
  <2>7. CallerInv(c)'
    BY <1>1, <1>3, <1>7, <2>2 DEF CallerInv, Pairs
  <2>8. Entering(c)'
    BY <1>1, <1>2, <1>7, <2>3 DEF Entering
  <2>9. \A d \in Callers \ {c} : /\ cpc'[d] = cpc[d] /\ call'[d] = call[d]
                                 /\ cidx'[d] = cidx[d] /\ got'[d] = got[d]
    BY <1>3, <1>7, <2>2
  <2>10. ASSUME \A w \in Workers : (BusyOn(w, r)' <=> BusyOn(w, r)) /\ (Draining(w)' <=> Draining(w))
         PROVE  Carried(r)'
    BY <1>4, <1>5, <1>7, <2>6, <2>10, CarriedKept
  <2>11. /\ \A x \in Ranks \ {r} : jobs'[x] = jobs[x] /\ jobsMutex'[x] = jobsMutex[x]
         /\ UNCHANGED <<wpc, wjob, wcb>> /\ jobsMutex[r] \in {NoThread, c}
    BY <1>3, <1>7, <2>3
  <2> QED
    BY <1>6, <2>4, <2>5, <2>6, <2>7, <2>8, <2>9, <2>10, <2>11, AddFrame
<1>8. ASSUME jobs' = [jobs EXCEPT ![r] = jobs[r] \o SubSeq(got[c], 1, call[c].nj)],
             list' = IF jobs[r] = <<>> THEN [list EXCEPT ![QueueIdx[r]] = Append(@, got[c][1])] ELSE list,
             got' = [got EXCEPT ![c] = SubSeq(got[c], call[c].nj + 1, Len(got[c]))],
             UNCHANGED <<jobsMutex, cpc>>
      PROVE  Inv'
  <2>1. /\ jobs' \in [Ranks -> Seq(Slots)] /\ jobs'[r] # <<>>
        /\ \A x \in Ranks \ {r} : jobs'[x] = jobs[x]
        /\ \A x \in Ranks : OwnSlots(x)'
        /\ got' \in [Callers -> Seq(Slots)]
        /\ got'[c] = SubSeq(got[c], call[c].nj + 1, Len(got[c]))
        /\ \A d \in Callers \ {c} : got'[d] = got[d]
    BY <1>1, <1>2, <1>3, <1>8, FifoAppended
  <2>2. jobs[r] = <<>> => ~Listed(r)
    BY <1>5 DEF Carried
  <2>3. /\ list' \in [Queues -> Seq(Slots)] /\ \A p \in Queues : QueueInv(p)'
        /\ \A x \in Ranks \ {r} : Listed(x)' <=> Listed(x)
        /\ IF jobs[r] = <<>> THEN Listed(r)' ELSE Listed(r)' <=> Listed(r)
    <3>1. CASE jobs[r] = <<>>
      <4>1. list' = [list EXCEPT ![QueueIdx[r]] = Append(@, got[c][1])]
        BY <1>8, <3>1
      <4> QED
        BY <1>1, <1>2, <2>2, <3>1, <4>1, ListAppended
    <3>2. CASE jobs[r] # <<>>
      <4>1. list' = list
        BY <1>8, <3>2
      <4> QED
        BY <3>2, <4>1 DEF Inv, Typed, QueueInv, Listed
    <3> QED
      BY <3>1, <3>2
  <2>4. Typed'
    BY <1>3, <1>8, <2>1, <2>3 DEF Inv, Typed
  <2>5. CallerInv(c)'
    BY <1>1, <1>3, <1>8, <2>1, RestCaller
  <2>6. Entering(c)'
    BY <1>1, <1>8 DEF Entering
  <2>7. \A d \in Callers \ {c} : /\ cpc'[d] = cpc[d] /\ call'[d] = call[d]
                                 /\ cidx'[d] = cidx[d] /\ got'[d] = got[d]
    BY <1>3, <1>8, <2>1
  <2>8. ASSUME \A w \in Workers : (BusyOn(w, r)' <=> BusyOn(w, r)) /\ (Draining(w)' <=> Draining(w))
        PROVE  Carried(r)'
    <3>1. CASE jobs[r] = <<>>
      BY <1>4, <1>5, <2>1, <2>3, <2>8, <3>1, CarriedAnew
    <3>2. CASE jobs[r] # <<>>
      BY <1>4, <1>5, <2>1, <2>3, <2>8, <3>2, CarriedLonger
    <3> QED
      BY <3>1, <3>2
  <2>9. /\ \A x \in Ranks \ {r} : jobs'[x] = jobs[x] /\ jobsMutex'[x] = jobsMutex[x]
        /\ UNCHANGED <<wpc, wjob, wcb>> /\ jobsMutex[r] \in {NoThread, c}
    BY <1>3, <1>8, <2>1
  <2> QED
    BY <1>6, <2>1, <2>3, <2>4, <2>5, <2>6, <2>7, <2>8, <2>9, AddFrame
<1> QED
  BY <1>3, <1>7, <1>8

\* The same with the queue's mutex just taken: the FIFO is still empty.
LEMMA InvAddFirst ==
  ASSUME Inv, NEW c \in Callers, AddFirst(c)
  PROVE  Inv'
<1>1. cpc[c] = "addq" /\ got[c] # <<>>
  BY DEF AddFirst, Inv, Entering
<1>2. CallerInv(c) /\ got[c][1] \in Slots
  BY <1>1, HeadSlots DEF Inv
<1>3. PICK r \in Ranks : r = RankOf(got[c][1])
  BY <1>1, HeadSlots
<1>4. PICK q \in Queues : q = QueueIdx[r]
  BY RanksAssumption
<1>5. jobs[r] = <<>> /\ jobsMutex[r] = c
  BY <1>1, <1>3 DEF Inv, Entering
<1>6. /\ queueMutex' = [queueMutex EXCEPT ![q] = c]
      /\ jobsMutex' = [jobsMutex EXCEPT ![r] = NoThread]
      /\ jobs' = [jobs EXCEPT ![r] = jobs[r] \o SubSeq(got[c], 1, call[c].nj)]
      /\ list' = [list EXCEPT ![QueueIdx[r]] = Append(@, got[c][1])]
      /\ got' = [got EXCEPT ![c] = SubSeq(got[c], call[c].nj + 1, Len(got[c]))]
      /\ Goto(c, "add")
      /\ UNCHANGED <<available, job, parked, call, cidx, wpc, wjob, wcb>>
  BY <1>3, <1>4 DEF AddFirst, FirstJob, wrk
<1>7. \A w \in Workers : jobsMutex[r] # w
  BY <1>5, ThreadsAssumption
<1>8. Carried(r) /\ ~Listed(r)
  BY <1>5 DEF Inv, Carried
<1>9. JobsRun'
  BY <1>6 DEF Inv, JobsRun
<1>10. /\ jobs' \in [Ranks -> Seq(Slots)] /\ jobs'[r] # <<>>
       /\ \A x \in Ranks \ {r} : jobs'[x] = jobs[x]
       /\ \A x \in Ranks : OwnSlots(x)'
       /\ got' \in [Callers -> Seq(Slots)]
       /\ got'[c] = SubSeq(got[c], call[c].nj + 1, Len(got[c]))
       /\ \A d \in Callers \ {c} : got'[d] = got[d]
  BY <1>1, <1>3, <1>6, FifoAppended
<1>11. /\ list' \in [Queues -> Seq(Slots)] /\ \A p \in Queues : QueueInv(p)'
       /\ Listed(r)' /\ \A x \in Ranks \ {r} : Listed(x)' <=> Listed(x)
  BY <1>2, <1>3, <1>6, <1>8, ListAppended
<1>12. "add" \in CallerPC
  BY DEF CallerPC
<1>13. /\ cpc' \in [Callers -> CallerPC] /\ cpc'[c] = "add"
       /\ \A d \in Callers \ {c} : cpc'[d] = cpc[d]
  BY <1>6, <1>12, GotoFacts
<1>14. /\ jobsMutex' \in [Ranks -> Threads \cup {NoThread}]
       /\ \A x \in Ranks \ {r} : jobsMutex'[x] = jobsMutex[x]
       /\ queueMutex' \in [Queues -> Threads \cup {NoThread}]
  BY <1>6 DEF Inv, Typed, Threads
<1>15. Typed'
  BY <1>6, <1>10, <1>11, <1>13, <1>14 DEF Inv, Typed
<1>16. CallerInv(c)'
  BY <1>1, <1>6, <1>10, <1>13, RestCaller
<1>17. Entering(c)'
  BY <1>13 DEF Entering
<1>18. \A d \in Callers \ {c} : /\ cpc'[d] = cpc[d] /\ call'[d] = call[d]
                                /\ cidx'[d] = cidx[d] /\ got'[d] = got[d]
  BY <1>6, <1>10, <1>13
<1>19. ASSUME \A w \in Workers : (BusyOn(w, r)' <=> BusyOn(w, r)) /\ (Draining(w)' <=> Draining(w))
       PROVE  Carried(r)'
  BY <1>5, <1>7, <1>8, <1>10, <1>11, <1>19, CarriedAnew
<1>20. /\ \A x \in Ranks \ {r} : jobs'[x] = jobs[x] /\ jobsMutex'[x] = jobsMutex[x]
       /\ UNCHANGED <<wpc, wjob, wcb>> /\ jobsMutex[r] \in {NoThread, c}
  BY <1>5, <1>6, <1>10, <1>14
<1> QED
  BY <1>9, <1>10, <1>11, <1>15, <1>16, <1>17, <1>18, <1>19, <1>20, AddFrame

LEMMA InvCallerStep ==
  ASSUME NoParking, Inv, NEW c \in Callers, CallerStep(c)
  PROVE  Inv'
BY InvGetJob, InvGetWait, InvGetFail, InvChooseMaster, InvGetMaster, InvUnget, InvUngetDone,
   InvSetJobs, InvDoJobs, InvSeenAgain, InvDirect, InvAddJobs, InvAddFirst, InvAddDone,
   InvWaitSync, InvClearError, InvJoin DEF CallerStep


-----------------------------------------------------------------------------
(* The invariant holds, and OneCarrier follows                             *)

LEMMA InvInit ==
  ASSUME Init
  PROVE  Inv
<1>1. PICK free : free = [r \in Ranks |-> [i \in 1 .. NrJobs |-> <<r, NrJobs + 1 - i>>]]
  OBVIOUS
<1>2. ASSUME NEW r \in Ranks
      PROVE  /\ free[r] \in Seq(Slots)
             /\ \A i \in 1 .. Len(free[r]) : RankOf(free[r][i]) = r
  <2>1. free[r] = [i \in 1 .. NrJobs |-> <<r, NrJobs + 1 - i>>]
    BY <1>1
  <2>2. \A i \in 1 .. NrJobs : <<r, NrJobs + 1 - i>> \in Slots
    BY NrJobsAssumption DEF Slots
  <2>3. free[r] \in [1 .. NrJobs -> Slots]
    BY <2>1, <2>2
  <2>4. free[r] \in Seq(Slots)
    BY <2>3, NrJobsAssumption, SeqDef
  <2>5. DOMAIN free[r] = 1 .. NrJobs /\ DOMAIN free[r] = 1 .. Len(free[r])
    BY <2>3, <2>4, LenProperties
  <2>6. \A i \in 1 .. NrJobs : RankOf(free[r][i]) = r
    BY <2>1 DEF RankOf
  <2> QED
    BY <2>4, <2>5, <2>6
<1>3. available \in [Ranks -> Seq(Slots)] /\ available = free
  BY <1>1, <1>2 DEF Init
<1>4. NoJob \in JobRecord /\ ~NoJob.single
  <2>1. (CHOOSE c \in Callers : TRUE) \in Callers
    BY ThreadsAssumption
  <2>2. <<>> \in Seq(Ranks)
    OBVIOUS
  <2> QED
    BY <2>1, <2>2 DEF NoJob, JobRecord
<1>5. NoCall \in CallType
  <2>1. (CHOOSE r \in Ranks : TRUE) \in Ranks
    BY RanksAssumption
  <2> QED
    BY <2>1 DEF NoCall, CallType, OpType
<1>6. NoCallback \in CallbackType /\ ~NoCallback.single
  BY DEF NoCallback, CallbackType
<1>7. Typed
  <2>1. /\ jobs \in [Ranks -> Seq(Slots)] /\ list \in [Queues -> Seq(Slots)]
        /\ parked = [r \in Ranks |-> FALSE] /\ job \in [Slots -> JobRecord]
    BY <1>4 DEF Init
  <2>2. /\ jobsMutex \in [Ranks -> Threads \cup {NoThread}]
        /\ queueMutex \in [Queues -> Threads \cup {NoThread}]
    BY DEF Init
  <2>3. /\ cpc \in [Callers -> CallerPC] /\ call \in [Callers -> CallType]
        /\ cidx \in [Callers -> Nat] /\ got \in [Callers -> Seq(Slots)]
    BY <1>5 DEF Init, CallerPC
  <2>4. /\ wpc \in [Workers -> WorkerPC] /\ wjob \in [Workers -> Slots]
        /\ wcb \in [Workers -> CallbackType]
    BY <1>6, AnySlotIsSlot DEF Init, WorkerPC
  <2> QED
    BY <1>3, <2>1, <2>2, <2>3, <2>4 DEF Typed
<1>8. JobsRun
  BY <1>4 DEF Init, JobsRun
<1>9. \A r \in Ranks : jobs[r] = <<>> /\ Len(jobs[r]) = 0
  BY DEF Init
<1>10. \A r \in Ranks : OwnSlots(r)
  BY <1>2, <1>3, <1>9 DEF OwnSlots
<1>11. \A q \in Queues : Len(list[q]) = 0
  BY DEF Init
<1>12. \A w \in Workers : WorkerInv(w) /\ ~Busy(w)
  BY <1>6 DEF Init, WorkerInv, Busy
<1>13. \A r \in Ranks : Carried(r)
  BY <1>9, <1>11, <1>12 DEF Carried, Listed, BusyOn
<1>14. \A c \in Callers : CallerInv(c) /\ Entering(c)
  BY DEF Init, CallerInv, Entering
<1>15. \A q \in Queues : QueueInv(q)
  BY <1>11 DEF QueueInv
<1> QED
  BY <1>7, <1>8, <1>10, <1>12, <1>13, <1>14, <1>15 DEF Inv

\* A call that returns early ends the process, and changes nothing else here.
AllIdle == UNCHANGED <<fifo, flags, locks, sync, cpc, app, wpc, wrk>>

LEMMA AllIdleWhen ==
  /\ UNCHANGED vars => AllIdle
  /\ \A c \in Callers : ReturnEarly(c) => AllIdle
BY DEF AllIdle, ReturnEarly, vars

LEMMA InvStutter ==
  ASSUME Inv, AllIdle
  PROVE  Inv'
<1>1. UNCHANGED <<available, jobs, job, list, parked, jobsMutex, queueMutex, cpc, call, cidx, got,
                  wpc, wjob, wcb>>
  BY DEF AllIdle, fifo, locks, app, wrk
<1>2. Typed' /\ JobsRun'
  BY <1>1 DEF Inv, Typed, JobsRun
<1>3. \A r \in Ranks : OwnSlots(r)' /\ Carried(r)'
  BY <1>1 DEF Inv, OwnSlots, Carried, Listed, BusyOn, Busy, Draining
<1>4. \A c \in Callers : CallerInv(c)' /\ Entering(c)'
  BY <1>1 DEF Inv, CallerInv, Entering, Getting, Pairs
<1>5. (\A w \in Workers : WorkerInv(w)') /\ \A q \in Queues : QueueInv(q)'
  BY <1>1 DEF Inv, WorkerInv, QueueInv
<1> QED
  BY <1>2, <1>3, <1>4, <1>5 DEF Inv

LEMMA InvNext ==
  ASSUME NoParking, Inv, [Next]_vars
  PROVE  Inv'
BY AllIdleWhen, InvStutter, InvCallerStep, InvFree, InvCall, InvWorkerStep DEF Next

LEMMA CarriersAre ==
  ASSUME Inv, NEW r \in Ranks
  PROVE  \A x : x \in Carriers(r) <=>
           \/ \E q \in Queues : \E i \in 1 .. Len(list[q]) : x = <<q, i>> /\ RankOf(list[q][i]) = r
           \/ x \in Workers /\ BusyOn(x, r)
<1>1. ~parked[r]
  BY DEF Inv, Typed
<1>2. \A x : x \in Queued(r) <=> \E q \in Queues : x \in Places(q, r)
  BY DEF Queued
<1>3. \A q, x : x \in Places(q, r) <=>
        \E i \in 1 .. Len(list[q]) : x = <<q, i>> /\ RankOf(list[q][i]) = r
  BY DEF Places
<1>4. \A x : x \in Carriers(r) <=> x \in Queued(r) \/ (x \in Workers /\ BusyOn(x, r))
  BY <1>1 DEF Carriers, BusyOn
<1> QED
  BY <1>2, <1>3, <1>4

\* One carrier at most: two of them would be two places of one queue, or a
\* queue and a worker, or two workers.
LEMMA CarriersAgree ==
  ASSUME Inv, NEW r \in Ranks, NEW a \in Carriers(r), NEW b \in Carriers(r)
  PROVE  a = b
<1>1. Carried(r) /\ \A q \in Queues : QueueInv(q)
  BY DEF Inv
<1>2. \A x \in Carriers(r) :
        \/ \E q \in Queues : \E i \in 1 .. Len(list[q]) : x = <<q, i>> /\ RankOf(list[q][i]) = r
        \/ x \in Workers /\ BusyOn(x, r)
  BY CarriersAre
<1>3. CASE \E x \in {a, b} : x \in Workers /\ BusyOn(x, r)
  <2>1. ~Listed(r)
    BY <1>1, <1>3 DEF Carried
  <2>2. a \in Workers /\ BusyOn(a, r) /\ b \in Workers /\ BusyOn(b, r)
    BY <1>2, <2>1 DEF Listed
  <2> QED
    BY <1>1, <2>2 DEF Carried
<1>4. CASE ~\E x \in {a, b} : x \in Workers /\ BusyOn(x, r)
  <2>1. PICK q \in Queues : \E i \in 1 .. Len(list[q]) : a = <<q, i>> /\ RankOf(list[q][i]) = r
    BY <1>2, <1>4
  <2>2. PICK i \in 1 .. Len(list[q]) : a = <<q, i>> /\ RankOf(list[q][i]) = r
    BY <2>1
  <2>3. PICK p \in Queues : \E j \in 1 .. Len(list[p]) : b = <<p, j>> /\ RankOf(list[p][j]) = r
    BY <1>2, <1>4
  <2>4. PICK j \in 1 .. Len(list[p]) : b = <<p, j>> /\ RankOf(list[p][j]) = r
    BY <2>3
  <2>5. q = QueueIdx[r] /\ p = QueueIdx[r]
    BY <1>1, <2>2, <2>4 DEF QueueInv
  <2>6. i = j
    BY <1>1, <2>2, <2>4, <2>5 DEF QueueInv
  <2> QED
    BY <2>2, <2>4, <2>5, <2>6
<1> QED
  BY <1>3, <1>4

LEMMA InvImpliesOneCarrier ==
  ASSUME Inv
  PROVE  OneCarrier
<1> SUFFICES ASSUME NEW r \in Ranks
             PROVE  Cardinality(Carriers(r)) <= 1 /\ (jobs[r] # <<>> => Carriers(r) # {})
  BY DEF OneCarrier
<1>1. Cardinality(Carriers(r)) <= 1
  <2>1. CASE Carriers(r) = {}
    BY <2>1, FS_EmptySet
  <2>2. CASE Carriers(r) # {}
    <3>1. PICK a : a \in Carriers(r)
      BY <2>2
    <3>2. Carriers(r) = {a}
      BY <3>1, CarriersAgree
    <3> QED
      BY <3>2, FS_Singleton
  <2> QED
    BY <2>1, <2>2
<1>2. ASSUME jobs[r] # <<>>
      PROVE  Carriers(r) # {}
  <2>1. Listed(r) \/ \E w \in Workers : BusyOn(w, r)
    BY <1>2 DEF Inv, Carried
  <2>2. CASE Listed(r)
    <3>1. PICK q \in Queues : \E i \in 1 .. Len(list[q]) : RankOf(list[q][i]) = r
      BY <2>2 DEF Listed
    <3>2. PICK i \in 1 .. Len(list[q]) : RankOf(list[q][i]) = r
      BY <3>1
    <3>3. <<q, i>> \in Carriers(r)
      BY <3>2, CarriersAre
    <3> QED
      BY <3>3
  <2>3. CASE \E w \in Workers : BusyOn(w, r)
    BY <2>3, CarriersAre
  <2> QED
    BY <2>1, <2>2, <2>3
<1> QED
  BY <1>1, <1>2

\* A FIFO that holds jobs is carried exactly once: its rank is in its queue
\* (list of dpu_thread_job.c) or one worker runs it, never both, never two.
THEOREM OneCarrierHolds ==
  ASSUME NoParking
  PROVE  Spec => []OneCarrier
<1>1. Init => Inv
  BY InvInit
<1>2. Inv /\ [Next]_vars => Inv'
  BY InvNext
<1>3. Inv => OneCarrier
  BY InvImpliesOneCarrier
<1> QED
  BY <1>1, <1>2, <1>3, PTL DEF Spec
=============================================================================
