--------------------------- MODULE ThreadSyncProofs ---------------------------
(***************************************************************************)
(* Proofs about ThreadJob: a slot of the job table is in one place, and a  *)
(* synchronous call outlives the jobs that reach its sync object and       *)
(* returns after its earlier jobs.  They rest on the invariant of          *)
(* ThreadJobProofs.                                                        *)
(***************************************************************************)
EXTENDS ThreadJobProofs

-----------------------------------------------------------------------------
(* Sequences without duplicates                                            *)

LEMMA TailElems ==
  ASSUME NEW S, NEW s \in Seq(S), s # <<>>, NoDuplicate(s)
  PROVE  /\ Head(s) \in Elems(s) /\ Elems(Tail(s)) \subseteq Elems(s) \ {Head(s)}
         /\ NoDuplicate(Tail(s)) /\ Elems(s) \subseteq S
<1>1. /\ Tail(s) \in Seq(S) /\ Len(Tail(s)) = Len(s) - 1 /\ Len(s) \in Nat /\ Len(s) >= 1 /\ Head(s) = s[1]
      /\ \A i \in 1 .. Len(Tail(s)) : Tail(s)[i] = s[i + 1]
  OBVIOUS
<1>2. \A i \in 1 .. Len(Tail(s)) : i + 1 \in 1 .. Len(s) /\ i + 1 # 1
  BY <1>1
<1>3. Head(s) \in Elems(s) /\ Elems(s) \subseteq S
  BY <1>1 DEF Elems
<1>4. NoDuplicate(Tail(s))
  <2> SUFFICES ASSUME NEW i \in 1 .. Len(Tail(s)), NEW j \in 1 .. Len(Tail(s)), Tail(s)[i] = Tail(s)[j]
               PROVE  i = j
    BY DEF NoDuplicate
  <2>1. s[i + 1] = s[j + 1] /\ i + 1 \in 1 .. Len(s) /\ j + 1 \in 1 .. Len(s)
    BY <1>1, <1>2
  <2>2. i + 1 = j + 1
    BY <2>1 DEF NoDuplicate
  <2> QED BY <2>2, <1>1
<1>5. ASSUME NEW x \in Elems(Tail(s)) PROVE x \in Elems(s) /\ x # Head(s)
  <2>1. PICK i \in 1 .. Len(Tail(s)) : x = Tail(s)[i]
    BY DEF Elems
  <2>2. x = s[i + 1] /\ i + 1 \in 1 .. Len(s) /\ 1 \in 1 .. Len(s)
    BY <1>1, <1>2, <2>1
  <2>3. s[i + 1] # s[1]
    BY <1>2, <2>1, <2>2 DEF NoDuplicate
  <2> QED BY <1>1, <2>2, <2>3 DEF Elems
<1> QED BY <1>3, <1>4, <1>5

LEMMA ConcatElems ==
  ASSUME NEW S, NEW s \in Seq(S), NEW t \in Seq(S)
  PROVE  /\ Elems(s \o t) = Elems(s) \cup Elems(t)
         /\ (NoDuplicate(s) /\ NoDuplicate(t) /\ Elems(s) \cap Elems(t) = {}) => NoDuplicate(s \o t)
<1>1. /\ s \o t \in Seq(S) /\ Len(s \o t) = Len(s) + Len(t) /\ Len(s) \in Nat /\ Len(t) \in Nat
      /\ \A i \in 1 .. Len(s) : (s \o t)[i] = s[i]
      /\ \A i \in 1 .. Len(t) : (s \o t)[Len(s) + i] = t[i]
  OBVIOUS
<1>2. \A i \in 1 .. Len(s \o t) : i \in 1 .. Len(s) \/ \E k \in 1 .. Len(t) : i = Len(s) + k
  <2> SUFFICES ASSUME NEW i \in 1 .. Len(s \o t), i \notin 1 .. Len(s)
               PROVE  \E k \in 1 .. Len(t) : i = Len(s) + k
    OBVIOUS
  <2>1. i - Len(s) \in 1 .. Len(t) /\ i = Len(s) + (i - Len(s))
    BY <1>1
  <2> QED BY <2>1
<1>3. \A k \in 1 .. Len(t) : Len(s) + k \in 1 .. Len(s \o t)
  BY <1>1
<1>4. \A i \in 1 .. Len(s) : i \in 1 .. Len(s \o t)
  BY <1>1
<1>5. Elems(s \o t) \subseteq Elems(s) \cup Elems(t)
  BY <1>1, <1>2 DEF Elems
<1>6. Elems(s) \cup Elems(t) \subseteq Elems(s \o t)
  BY <1>1, <1>3, <1>4 DEF Elems
<1>7. ASSUME NoDuplicate(s), NoDuplicate(t), Elems(s) \cap Elems(t) = {},
             NEW i \in 1 .. Len(s \o t), NEW j \in 1 .. Len(s \o t), (s \o t)[i] = (s \o t)[j]
      PROVE  i = j
  <2>1. \A a \in 1 .. Len(s), b \in 1 .. Len(t) : s[a] # t[b]
    BY <1>7 DEF Elems
  <2>2. CASE i \in 1 .. Len(s) /\ j \in 1 .. Len(s)
    BY <1>1, <1>7, <2>2 DEF NoDuplicate
  <2>3. CASE i \in 1 .. Len(s) /\ j \notin 1 .. Len(s)
    BY <1>1, <1>2, <1>7, <2>1, <2>3
  <2>4. CASE i \notin 1 .. Len(s) /\ j \in 1 .. Len(s)
    BY <1>1, <1>2, <1>7, <2>1, <2>4
  <2>5. CASE i \notin 1 .. Len(s) /\ j \notin 1 .. Len(s)
    <3>1. PICK k \in 1 .. Len(t) : i = Len(s) + k
      BY <1>2, <2>5
    <3>2. PICK l \in 1 .. Len(t) : j = Len(s) + l
      BY <1>2, <2>5
    <3>3. t[k] = t[l]
      BY <1>1, <1>7, <3>1, <3>2
    <3> QED BY <1>7, <3>1, <3>2, <3>3 DEF NoDuplicate
  <2> QED BY <2>2, <2>3, <2>4, <2>5
<1>8. (NoDuplicate(s) /\ NoDuplicate(t) /\ Elems(s) \cap Elems(t) = {}) => NoDuplicate(s \o t)
  BY <1>7 DEF NoDuplicate
<1> QED BY <1>5, <1>6, <1>8

LEMMA AppendElems ==
  ASSUME NEW S, NEW s \in Seq(S), NEW x \in S
  PROVE  /\ Elems(Append(s, x)) = Elems(s) \cup {x}
         /\ NoDuplicate(s) /\ x \notin Elems(s) => NoDuplicate(Append(s, x))
<1>1. Append(s, x) = s \o <<x>> /\ <<x>> \in Seq(S)
  OBVIOUS
<1>2. Elems(<<x>>) = {x} /\ NoDuplicate(<<x>>)
  BY DEF Elems, NoDuplicate
<1>3. x \notin Elems(s) => Elems(s) \cap Elems(<<x>>) = {}
  BY <1>2
<1>4. /\ Elems(s \o <<x>>) = Elems(s) \cup Elems(<<x>>)
      /\ (NoDuplicate(s) /\ NoDuplicate(<<x>>) /\ Elems(s) \cap Elems(<<x>>) = {}) => NoDuplicate(s \o <<x>>)
  BY <1>1, ConcatElems
<1> QED BY <1>1, <1>2, <1>3, <1>4

\* A sequence cut in two.
LEMMA CutElems ==
  ASSUME NEW S, NEW s \in Seq(S), NoDuplicate(s), NEW n \in Nat, n <= Len(s)
  PROVE  LET a == SubSeq(s, 1, n)
             b == SubSeq(s, n + 1, Len(s))
         IN  /\ a \in Seq(S) /\ b \in Seq(S) /\ NoDuplicate(a) /\ NoDuplicate(b)
             /\ Elems(a) \subseteq Elems(s) /\ Elems(b) \subseteq Elems(s) \ Elems(a)
<1> DEFINE a == SubSeq(s, 1, n)
           b == SubSeq(s, n + 1, Len(s))
<1>1. /\ a \in Seq(S) /\ b \in Seq(S) /\ Len(a) = n /\ Len(b) = Len(s) - n /\ Len(s) \in Nat
      /\ \A i \in 1 .. n : a[i] = s[i]
      /\ \A i \in 1 .. Len(b) : b[i] = s[i + n]
  OBVIOUS
<1>2. (\A i \in 1 .. n : i \in 1 .. Len(s)) /\ \A i \in 1 .. Len(b) : i + n \in 1 .. Len(s) /\ i + n \notin 1 .. n
  BY <1>1
<1> HIDE DEF a, b
<1>3. NoDuplicate(a)
  BY <1>1, <1>2 DEF NoDuplicate
<1>4. NoDuplicate(b)
  <2> SUFFICES ASSUME NEW i \in 1 .. Len(b), NEW j \in 1 .. Len(b), b[i] = b[j] PROVE i = j
    BY DEF NoDuplicate
  <2>1. i + n = j + n
    BY <1>1, <1>2 DEF NoDuplicate
  <2> QED BY <1>1, <2>1
<1>5. Elems(a) \subseteq Elems(s)
  BY <1>1, <1>2 DEF Elems
<1>6. ASSUME NEW x \in Elems(b) PROVE x \in Elems(s) /\ x \notin Elems(a)
  <2>1. PICK i \in 1 .. Len(b) : x = b[i]
    BY DEF Elems
  <2>2. x = s[i + n] /\ i + n \in 1 .. Len(s) /\ i + n \notin 1 .. n
    BY <1>1, <1>2, <2>1
  <2>3. \A k \in 1 .. n : s[k] # s[i + n]
    BY <1>2, <2>2 DEF NoDuplicate
  <2> QED BY <1>1, <2>2, <2>3 DEF Elems
<1> QED BY <1>1, <1>3, <1>4, <1>5, <1>6 DEF a, b

-----------------------------------------------------------------------------
(* The places of the slots                                                 *)

\* No call is a single-call callback: no job has a master.
NoSingle == \A op \in Ops : ~op.single

\* A slot is in a free list, in a FIFO, with a caller that has taken it and not
\* queued it, or with a worker that has drained it and not given it back.
Homes == ({"free", "fifo"} \X Ranks) \cup ({"caller"} \X Callers) \cup ({"worker"} \X Workers)
Content(p) ==
  CASE p[1] = "free" -> Elems(available[p[2]])
    [] p[1] = "fifo" -> Elems(jobs[p[2]])
    [] p[1] = "caller" -> Elems(got[p[2]])
    [] p[1] = "worker" -> IF wpc[p[2]] = "drainsig" THEN {wjob[p[2]]} ELSE {}

Apart == \A p, q \in Homes : p # q => Content(p) \cap Content(q) = {}
NoTwice ==
  /\ \A r \in Ranks : NoDuplicate(available[r]) /\ NoDuplicate(jobs[r])
  /\ \A c \in Callers : NoDuplicate(got[c])
NoMasters == (\A s \in Slots : job[s].master = NoSlot) /\ \A w \in Workers : wcb[w].master = NoSlot
SlotInv == Apart /\ NoTwice /\ NoMasters

LEMMA ContentIs ==
  /\ \A r \in Ranks : /\ <<"free", r>> \in Homes /\ Content(<<"free", r>>) = Elems(available[r])
                      /\ <<"fifo", r>> \in Homes /\ Content(<<"fifo", r>>) = Elems(jobs[r])
  /\ \A c \in Callers : <<"caller", c>> \in Homes /\ Content(<<"caller", c>>) = Elems(got[c])
  /\ \A w \in Workers : <<"worker", w>> \in Homes
                        /\ Content(<<"worker", w>>) = IF wpc[w] = "drainsig" THEN {wjob[w]} ELSE {}
  /\ \A p \in Homes : \/ \E r \in Ranks : p = <<"free", r>> \/ p = <<"fifo", r>>
                      \/ \E c \in Callers : p = <<"caller", c>>
                      \/ \E w \in Workers : p = <<"worker", w>>
BY DEF Homes, Content

\* What is moved from one place to another is in the other one only.
LEMMA MovedApart ==
  ASSUME Apart, NEW a \in Homes, NEW b \in Homes, a # b, NEW M, M \subseteq Content(a),
         Content(a)' \subseteq Content(a) \ M, Content(b)' \subseteq Content(b) \cup M,
         \A p \in Homes : p # a /\ p # b => Content(p)' \subseteq Content(p)
  PROVE  Apart'
<1>1. \A p \in Homes : p # b => Content(p)' \subseteq Content(p) /\ Content(p)' \cap M = {}
  BY DEF Apart
<1> SUFFICES ASSUME NEW p \in Homes, NEW q \in Homes, p # q PROVE (Content(p) \cap Content(q))' = {}
  BY DEF Apart, Homes
<1>2. Content(p) \cap Content(q) = {}
  BY DEF Apart
<1>3. CASE p # b /\ q # b
  BY <1>1, <1>2, <1>3
<1>4. CASE p = b
  BY <1>1, <1>2, <1>4
<1>5. CASE q = b
  BY <1>1, <1>2, <1>5
<1> QED BY <1>3, <1>4, <1>5

\* Nothing is moved; a caller may drop slots.
LEMMA SlotsKept ==
  ASSUME SlotInv, UNCHANGED <<available, jobs>>,
         \A c \in Callers : Elems(got'[c]) \subseteq Elems(got[c]) /\ NoDuplicate(got'[c]),
         \A w \in Workers : wpc'[w] = "drainsig" => wpc[w] = "drainsig" /\ wjob'[w] = wjob[w],
         NoMasters'
  PROVE  SlotInv'
<1>1. ASSUME NEW p \in Homes PROVE Content(p)' \subseteq Content(p)
  <2>1. CASE \E r \in Ranks : p = <<"free", r>> \/ p = <<"fifo", r>>
    BY <2>1, ContentIs DEF Content
  <2>2. CASE \E c \in Callers : p = <<"caller", c>>
    BY <2>2 DEF Content
  <2>3. CASE \E w \in Workers : p = <<"worker", w>>
    BY <2>3 DEF Content
  <2> QED BY <2>1, <2>2, <2>3, ContentIs
<1>2. Apart'
  BY <1>1 DEF SlotInv, Apart, Homes
<1>3. NoTwice'
  BY DEF SlotInv, NoTwice
<1> QED BY <1>2, <1>3 DEF SlotInv

LEMMA SlotsWorker ==
  ASSUME Inv, SlotInv, NEW w \in Workers, NEW pc \in WorkerPC, pc # "drainsig", WGoto(w, pc),
         UNCHANGED <<available, jobs, got>>, \A v \in Workers \ {w} : wjob'[v] = wjob[v], NoMasters'
  PROVE  SlotInv'
<1>1. wpc'[w] = pc /\ \A v \in Workers \ {w} : wpc'[v] = wpc[v]
  BY WGotoFacts
<1>2. \A v \in Workers : wpc'[v] = "drainsig" => wpc[v] = "drainsig" /\ wjob'[v] = wjob[v]
  BY <1>1
<1>3. \A c \in Callers : Elems(got'[c]) \subseteq Elems(got[c]) /\ NoDuplicate(got'[c])
  BY DEF SlotInv, NoTwice
<1> QED BY <1>2, <1>3, SlotsKept

LEMMA WorkerPCs ==
  {"main", "wait", "lock", "compute", "advance", "signal", "update", "drain", "drainsig", "cbadvance",
   "cbinsert", "cblock", "cbrun", "block", "relmaster", "done"} \subseteq WorkerPC
BY DEF WorkerPC

LEMMA SlotsWorkerPlain ==
  ASSUME Inv, SlotInv, NEW w \in Workers,
         \/ WorkerStop(w) \/ WorkerWait(w) \/ WorkerTake(w) \/ WorkerLock(w)
         \/ \E ok \in BOOLEAN : ComputeWork(w, ok)
         \/ ComputeSync(w) \/ Signal(w) \/ UpdateStatus(w) \/ DrainDone(w)
  PROVE  SlotInv'
<1>1. wjob \in [Workers -> Slots] /\ NoMasters
  BY DEF Inv, Typed, SlotInv
<1>2. UNCHANGED <<available, jobs, got, job, wcb>>
  BY DEF WorkerStop, WorkerWait, WorkerTake, WorkerLock, ComputeWork, ComputeSync, Signal, UpdateStatus, DrainDone,
         fifo, app, wrk
<1>3. PICK pc \in WorkerPC : pc # "drainsig" /\ WGoto(w, pc)
  BY WorkerPCs DEF WorkerStop, WorkerWait, WorkerTake, WorkerLock, ComputeWork, ComputeSync, Signal, UpdateStatus,
         DrainDone, MainLoop
<1>4. \A v \in Workers \ {w} : wjob'[v] = wjob[v]
  BY <1>1 DEF WorkerStop, WorkerWait, WorkerTake, WorkerLock, ComputeWork, ComputeSync, Signal, UpdateStatus,
         DrainDone, MainLoop, wrk
<1>5. NoMasters'
  BY <1>1, <1>2 DEF NoMasters
<1> QED BY <1>2, <1>3, <1>4, <1>5, SlotsWorker

LEMMA SlotsComputeCallback ==
  ASSUME Inv, SlotInv, NEW w \in Workers, ComputeCallback(w)
  PROVE  SlotInv'
<1> DEFINE j == wjob[w]
           m == IF job[j].master = NoSlot THEN j ELSE job[j].master
<1>1. wjob \in [Workers -> Slots] /\ NoMasters /\ job \in [Slots -> JobRecord] /\ wcb \in [Workers -> CallbackType]
  BY DEF Inv, Typed, SlotInv
<1>2. j \in Slots /\ job[j].master = NoSlot /\ m = j
  BY <1>1 DEF NoMasters
<1>3. job' = [job EXCEPT ![j].nr = @ - 1]
  BY <1>2 DEF ComputeCallback
<1>4. \A s \in Slots : job'[s].master = NoSlot
  BY <1>1, <1>2, <1>3 DEF NoMasters, JobRecord
<1>5. UNCHANGED <<available, jobs, got>>
  BY DEF ComputeCallback, app
<1>6. PICK pc \in WorkerPC : pc # "drainsig" /\ WGoto(w, pc)
  BY WorkerPCs DEF ComputeCallback, MainLoop
<1>7. \A v \in Workers \ {w} : wjob'[v] = wjob[v]
  BY <1>1 DEF ComputeCallback, MainLoop
<1>8. \/ wcb' = wcb
      \/ \E cb : wcb' = [wcb EXCEPT ![w] = [set |-> cb.set, master |-> job[j].master, sync |-> cb.sync,
                  nonblocking |-> cb.nonblocking, single |-> cb.single, failed |-> FALSE]]
  BY DEF ComputeCallback
<1> HIDE DEF j, m
<1>9. \A v \in Workers : wcb'[v].master = NoSlot
  BY <1>1, <1>2, <1>8 DEF NoMasters
<1> QED BY <1>4, <1>5, <1>6, <1>7, <1>9, SlotsWorker DEF NoMasters

LEMMA SlotsCallbackEnds ==
  ASSUME Inv, SlotInv, NEW w \in Workers, CallbackInsert(w) \/ \E ok \in BOOLEAN : CallbackReturn(w, ok)
  PROVE  SlotInv'
<1>1. /\ wjob \in [Workers -> Slots] /\ NoMasters /\ wcb \in [Workers -> CallbackType] /\ wpc \in [Workers -> WorkerPC]
  BY DEF Inv, Typed, SlotInv
<1>2. UNCHANGED <<available, jobs, got, job, wjob>>
  BY DEF CallbackInsert, CallbackReturn, fifo, app, wrk
<1>3. NoMasters'
  <2>1. wcb' = wcb \/ \E b : wcb' = [wcb EXCEPT ![w].failed = b]
    BY DEF CallbackInsert, CallbackReturn, wrk
  <2>2. ASSUME NEW v \in Workers PROVE wcb'[v].master = wcb[v].master
    <3>1. CASE wcb' = wcb
      BY <3>1
    <3>2. ASSUME NEW b, wcb' = [wcb EXCEPT ![w].failed = b] PROVE wcb'[v].master = wcb[v].master
      <4>1. wcb'[v] = IF v = w THEN [wcb[w] EXCEPT !.failed = b] ELSE wcb[v]
        BY <1>1, <3>2
      <4>2. [wcb[w] EXCEPT !.failed = b].master = wcb[w].master
        BY <1>1 DEF CallbackType
      <4> QED BY <4>1, <4>2
    <3> QED BY <2>1, <3>1, <3>2
  <2> QED BY <1>1, <1>2, <2>2 DEF NoMasters
<1>4. CASE CallbackInsert(w)
  <2>1. PICK Q : wpc' = Broadcast(Q, [wpc EXCEPT ![w] = "cbrun"])
    BY <1>4 DEF CallbackInsert
  <2>2. [wpc EXCEPT ![w] = "cbrun"] \in [Workers -> WorkerPC]
    BY <1>1, WorkerPCs
  <2>3. \A v \in Workers : wpc'[v] = "drainsig" => wpc[v] = "drainsig" /\ wjob'[v] = wjob[v]
    BY <1>1, <1>2, <2>1, <2>2, BroadcastWakes
  <2>4. \A c \in Callers : Elems(got'[c]) \subseteq Elems(got[c]) /\ NoDuplicate(got'[c])
    BY <1>2 DEF SlotInv, NoTwice
  <2> QED BY <1>2, <1>3, <2>3, <2>4, SlotsKept
<1>5. CASE \E ok \in BOOLEAN : CallbackReturn(w, ok)
  <2>1. PICK pc \in WorkerPC : pc # "drainsig" /\ WGoto(w, pc)
    <3>1. PICK ok \in BOOLEAN : CallbackReturn(w, ok)
      BY <1>5
    <3>2. wcb[w].master = NoSlot /\ ~(wcb[w].single /\ ~wcb[w].nonblocking)
      BY <1>1 DEF Inv, WorkerInv, NoMasters
    <3>3. WGoto(w, AfterCallback([wcb[w] EXCEPT !.failed = ~ok]))
      BY <3>1, <3>2 DEF CallbackReturn
    <3>4. AfterCallback([wcb[w] EXCEPT !.failed = ~ok]) \in {"main", "update", "advance"}
      <4>1. [wcb[w] EXCEPT !.failed = ~ok].nonblocking \in BOOLEAN /\ [wcb[w] EXCEPT !.failed = ~ok].failed \in BOOLEAN
        BY <1>1 DEF CallbackType
      <4> QED BY <4>1 DEF AfterCallback
    <3> QED BY <3>3, <3>4, WorkerPCs
  <2> QED BY <1>2, <1>3, <2>1, SlotsWorker
<1> QED BY <1>4, <1>5

-----------------------------------------------------------------------------
(* Slots that move                                                         *)

\* The free list of the rank of a released slot gets it, and no other one.
LEMMA ReleasedIs ==
  ASSUME Inv, NEW s \in Slots, available' = Released(s)
  PROVE  /\ Elems(available'[RankOf(s)]) = Elems(available[RankOf(s)]) \cup {s}
         /\ NoDuplicate(available[RankOf(s)]) /\ s \notin Elems(available[RankOf(s)])
              => NoDuplicate(available'[RankOf(s)])
         /\ \A x \in Ranks \ {RankOf(s)} : available'[x] = available[x]
<1>1. available \in [Ranks -> Seq(Slots)] /\ RankOf(s) \in Ranks
  BY SlotRank DEF Inv, Typed
<1>2. available'[RankOf(s)] = Append(available[RankOf(s)], s) /\ available[RankOf(s)] \in Seq(Slots)
  BY <1>1 DEF Released
<1>3. \A x \in Ranks \ {RankOf(s)} : available'[x] = available[x]
  BY <1>1 DEF Released
<1> QED BY <1>2, <1>3, AppendElems

\* The first job of a FIFO goes to the free list of its rank.
LEMMA SlotsAdvanced ==
  ASSUME Inv, SlotInv, NEW r \in Ranks, jobs[r] # <<>>,
         jobs' = [jobs EXCEPT ![r] = Tail(jobs[r])], available' = Released(Head(jobs[r])),
         UNCHANGED <<got, job, wcb>>,
         \A w \in Workers : wpc'[w] = "drainsig" => wpc[w] = "drainsig" /\ wjob'[w] = wjob[w]
  PROVE  SlotInv'
<1>1. PICK s \in Slots : s = Head(jobs[r]) /\ RankOf(s) = r
  BY FirstOfFifo
<1>2. jobs[r] \in Seq(Slots) /\ NoDuplicate(jobs[r]) /\ NoDuplicate(available[r])
  BY DEF Inv, Typed, SlotInv, NoTwice
<1>3. /\ jobs'[r] = Tail(jobs[r]) /\ \A x \in Ranks \ {r} : jobs'[x] = jobs[x]
  BY FifoAdvanced
<1>4. /\ s \in Elems(jobs[r]) /\ Elems(jobs'[r]) \subseteq Elems(jobs[r]) \ {s} /\ NoDuplicate(jobs'[r])
  BY <1>1, <1>2, <1>3, TailElems
<1>5. /\ Elems(available'[r]) = Elems(available[r]) \cup {s}
      /\ s \notin Elems(available[r]) => NoDuplicate(available'[r])
      /\ \A x \in Ranks \ {r} : available'[x] = available[x]
  BY <1>1, <1>2, ReleasedIs
<1> DEFINE a == <<"fifo", r>>
           b == <<"free", r>>
<1>6. /\ a \in Homes /\ b \in Homes /\ a # b /\ {s} \subseteq Content(a)
      /\ Content(a)' \subseteq Content(a) \ {s} /\ Content(b)' \subseteq Content(b) \cup {s}
  BY <1>4, <1>5, ContentIs DEF Content
<1>7. s \notin Elems(available[r])
  <2>1. Content(a) \cap Content(b) = {}
    BY <1>6 DEF SlotInv, Apart
  <2>2. s \in Content(a) /\ Content(b) = Elems(available[r])
    BY <1>6, ContentIs
  <2> QED BY <2>1, <2>2
<1>8. ASSUME NEW p \in Homes, p # a, p # b PROVE Content(p)' \subseteq Content(p)
  <2>1. CASE \E x \in Ranks : p = <<"free", x>> \/ p = <<"fifo", x>>
    BY <1>3, <1>5, <1>8, <2>1 DEF Content
  <2>2. CASE \E c \in Callers : p = <<"caller", c>>
    BY <2>2 DEF Content
  <2>3. CASE \E w \in Workers : p = <<"worker", w>>
    BY <2>3 DEF Content
  <2> QED BY <2>1, <2>2, <2>3, ContentIs
<1> HIDE DEF a, b
<1>9. Apart'
  BY <1>6, <1>8, MovedApart DEF SlotInv
<1>10. NoTwice'
  <2>1. ASSUME NEW x \in Ranks PROVE NoDuplicate(available'[x]) /\ NoDuplicate(jobs'[x])
    BY <1>3, <1>4, <1>5, <1>7 DEF SlotInv, NoTwice
  <2> QED BY <2>1 DEF SlotInv, NoTwice
<1>11. NoMasters'
  BY DEF SlotInv, NoMasters
<1> QED BY <1>9, <1>10, <1>11 DEF SlotInv

LEMMA SlotsAdvance ==
  ASSUME Inv, SlotInv, NEW w \in Workers, Advance(w) \/ CallbackAdvance(w) \/ Drain(w)
  PROVE  SlotInv'
<1>1. PICK r \in Ranks : r = RankOf(wjob[w])
  BY SlotRank DEF Inv, Typed
<1>2. /\ jobs' = [jobs EXCEPT ![r] = Tail(jobs[r])] /\ available' = Released(Head(jobs[r]))
      /\ UNCHANGED <<got, job, wcb>>
  BY <1>1 DEF Advance, CallbackAdvance, Drain, app, wrk
<1>3. jobs[r] # <<>>
  <2>1. CASE Drain(w)
    BY <1>1, <2>1 DEF Drain
  <2>2. CASE Advance(w) \/ CallbackAdvance(w)
    <3>1. wpc[w] \in {"advance", "cbadvance"}
      BY <2>2 DEF Advance, CallbackAdvance
    <3>2. BusyOn(w, r) /\ ~Draining(w)
      BY <1>1, <3>1 DEF BusyOn, Busy, Draining
    <3> QED BY <3>2 DEF Inv, Carried
  <2> QED BY <2>1, <2>2
<1>4. \A v \in Workers : wpc'[v] = "drainsig" => wpc[v] = "drainsig" /\ wjob'[v] = wjob[v]
  <2>1. CASE Drain(w)
    BY <2>1 DEF Drain, wrk
  <2>2. CASE Advance(w) \/ CallbackAdvance(w)
    <3>1. PICK pc \in WorkerPC : pc # "drainsig" /\ WGoto(w, pc)
      BY <2>2, WorkerPCs DEF Advance, CallbackAdvance, MainLoop
    <3>2. wpc'[w] = pc /\ \A v \in Workers \ {w} : wpc'[v] = wpc[v]
      BY <3>1, WGotoFacts
    <3>3. wjob \in [Workers -> Slots]
      BY DEF Inv, Typed
    <3>4. \A v \in Workers \ {w} : wjob'[v] = wjob[v]
      BY <2>2, <3>3 DEF Advance, CallbackAdvance, MainLoop
    <3> QED BY <3>1, <3>2, <3>4
  <2> QED BY <2>1, <2>2
<1> QED BY <1>2, <1>3, <1>4, SlotsAdvanced

LEMMA SlotsDrainSync ==
  ASSUME Inv, SlotInv, NEW w \in Workers, DrainSync(w)
  PROVE  SlotInv'
<1>1. PICK r \in Ranks : r = RankOf(wjob[w])
  BY SlotRank DEF Inv, Typed
<1>2. /\ jobs[r] # <<>> /\ wpc[w] = "drain" /\ jobs' = [jobs EXCEPT ![r] = Tail(jobs[r])]
      /\ UNCHANGED <<got, job, wcb>>
      /\ \/ available' = Released(Head(jobs[r])) /\ UNCHANGED <<wpc, wjob>>
         \/ WGoto(w, "drainsig") /\ wjob' = [wjob EXCEPT ![w] = Head(jobs[r])] /\ available' = available
  BY <1>1 DEF DrainSync, app, Inv, Typed
<1>3. CASE available' = Released(Head(jobs[r])) /\ UNCHANGED <<wpc, wjob>>
  BY <1>2, <1>3, SlotsAdvanced
<1>4. CASE WGoto(w, "drainsig") /\ wjob' = [wjob EXCEPT ![w] = Head(jobs[r])] /\ available' = available
  <2>1. PICK s \in Slots : s = Head(jobs[r]) /\ RankOf(s) = r
    BY <1>2, FirstOfFifo
  <2>2. jobs[r] \in Seq(Slots) /\ NoDuplicate(jobs[r])
    BY DEF Inv, Typed, SlotInv, NoTwice
  <2>3. jobs'[r] = Tail(jobs[r]) /\ \A x \in Ranks \ {r} : jobs'[x] = jobs[x]
    BY <1>2, <1>4, FifoAdvanced
  <2>4. s \in Elems(jobs[r]) /\ Elems(jobs'[r]) \subseteq Elems(jobs[r]) \ {s} /\ NoDuplicate(jobs'[r])
    BY <1>2, <2>1, <2>2, <2>3, TailElems
  <2>5. wpc'[w] = "drainsig" /\ \A v \in Workers \ {w} : wpc'[v] = wpc[v]
    BY <1>4, WGotoFacts, WorkerPCs
  <2>6. wjob'[w] = s /\ \A v \in Workers \ {w} : wjob'[v] = wjob[v]
    BY <1>4, <2>1 DEF Inv, Typed
  <2> DEFINE a == <<"fifo", r>>
             b == <<"worker", w>>
  <2>7. /\ a \in Homes /\ b \in Homes /\ a # b /\ {s} \subseteq Content(a)
        /\ Content(a)' \subseteq Content(a) \ {s} /\ Content(b)' \subseteq Content(b) \cup {s}
    BY <2>4, <2>5, <2>6, ContentIs DEF Content
  <2>8. ASSUME NEW p \in Homes, p # a, p # b PROVE Content(p)' \subseteq Content(p)
    <3>1. CASE \E x \in Ranks : p = <<"free", x>> \/ p = <<"fifo", x>>
      BY <1>4, <2>3, <2>8, <3>1 DEF Content
    <3>2. CASE \E c \in Callers : p = <<"caller", c>>
      BY <1>2, <3>2 DEF Content
    <3>3. CASE \E v \in Workers : p = <<"worker", v>>
      BY <2>5, <2>6, <2>8, <3>3 DEF Content
    <3> QED BY <3>1, <3>2, <3>3, ContentIs
  <2> HIDE DEF a, b
  <2>9. Apart'
    BY <2>7, <2>8, MovedApart DEF SlotInv
  <2>10. NoTwice'
    BY <1>2, <1>4, <2>3, <2>4 DEF SlotInv, NoTwice
  <2>11. NoMasters'
    BY <1>2 DEF SlotInv, NoMasters
  <2> QED BY <2>9, <2>10, <2>11 DEF SlotInv
<1> QED BY <1>2, <1>3, <1>4

LEMMA SlotsDrainSignal ==
  ASSUME Inv, SlotInv, NEW w \in Workers, DrainSignal(w)
  PROVE  SlotInv'
<1>1. PICK s \in Slots : s = wjob[w]
  BY DEF Inv, Typed
<1>2. /\ wpc[w] = "drainsig" /\ available' = Released(s) /\ WGoto(w, "drain")
      /\ UNCHANGED <<jobs, got, job, wjob, wcb>>
  BY <1>1 DEF DrainSignal, app, wrk
<1>3. PICK r \in Ranks : r = RankOf(s)
  BY SlotRank
<1>4. /\ Elems(available'[r]) = Elems(available[r]) \cup {s}
      /\ NoDuplicate(available[r]) /\ s \notin Elems(available[r]) => NoDuplicate(available'[r])
      /\ \A x \in Ranks \ {r} : available'[x] = available[x]
  BY <1>2, <1>3, ReleasedIs
<1>5. wpc'[w] = "drain" /\ \A v \in Workers \ {w} : wpc'[v] = wpc[v]
  BY <1>2, WGotoFacts, WorkerPCs
<1> DEFINE a == <<"worker", w>>
           b == <<"free", r>>
<1>6. /\ a \in Homes /\ b \in Homes /\ a # b /\ {s} \subseteq Content(a)
      /\ Content(a)' \subseteq Content(a) \ {s} /\ Content(b)' \subseteq Content(b) \cup {s}
  BY <1>1, <1>2, <1>4, <1>5, ContentIs DEF Content
<1>7. s \notin Elems(available[r])
  <2>1. Content(a) \cap Content(b) = {}
    BY <1>6 DEF SlotInv, Apart
  <2>2. s \in Content(a) /\ Content(b) = Elems(available[r])
    BY <1>6, ContentIs
  <2> QED BY <2>1, <2>2
<1>8. ASSUME NEW p \in Homes, p # a, p # b PROVE Content(p)' \subseteq Content(p)
  <2>1. CASE \E x \in Ranks : p = <<"free", x>> \/ p = <<"fifo", x>>
    BY <1>2, <1>4, <1>8, <2>1 DEF Content
  <2>2. CASE \E c \in Callers : p = <<"caller", c>>
    BY <1>2, <2>2 DEF Content
  <2>3. CASE \E v \in Workers : p = <<"worker", v>>
    BY <1>2, <1>5, <1>8, <2>3 DEF Content
  <2> QED BY <2>1, <2>2, <2>3, ContentIs
<1> HIDE DEF a, b
<1>9. Apart'
  BY <1>6, <1>8, MovedApart DEF SlotInv
<1>10. NoTwice'
  BY <1>2, <1>4, <1>7 DEF SlotInv, NoTwice
<1>11. NoMasters'
  BY <1>2 DEF SlotInv, NoMasters
<1> QED BY <1>9, <1>10, <1>11 DEF SlotInv

LEMMA SlotsWorkerStep ==
  ASSUME Inv, SlotInv, NEW w \in Workers, WorkerStep(w)
  PROVE  SlotInv'
<1>1. wpc[w] \notin {"cblock", "block", "relmaster"}
  <2>1. wpc[w] # "relmaster"
    BY ThreadsAssumption DEF Inv, WorkerInv, SlotInv, NoMasters
  <2> QED BY <2>1 DEF Inv, WorkerInv
<1>2. /\ ~CallbackLock(w) /\ ~BlockSkip(w) /\ ~BlockLock(w) /\ ~BlockAdvance(w) /\ ~BlockDone(w)
      /\ ~ReleaseMaster(w)
  BY <1>1 DEF CallbackLock, BlockSkip, BlockLock, BlockAdvance, BlockDone, ReleaseMaster
<1> QED
  BY <1>2, SlotsWorkerPlain, SlotsComputeCallback, SlotsCallbackEnds, SlotsAdvance, SlotsDrainSync,
     SlotsDrainSignal DEF WorkerStep

-----------------------------------------------------------------------------
(* Slots of the callers                                                    *)

\* A step of a caller that moves no slot; it may drop some of its own.
LEMMA SlotsCallerPlain ==
  ASSUME Inv, SlotInv, UNCHANGED <<available, jobs, wjob, wcb>>,
         \A d \in Callers : Elems(got'[d]) \subseteq Elems(got[d]) /\ NoDuplicate(got'[d]),
         \A w \in Workers : wpc'[w] = wpc[w] \/ (wpc[w] = "wait" /\ wpc'[w] = "main"),
         \A s \in Slots : job'[s].master = NoSlot
  PROVE  SlotInv'
<1>1. NoMasters'
  BY DEF SlotInv, NoMasters
<1>2. \A w \in Workers : wpc'[w] = "drainsig" => wpc[w] = "drainsig" /\ wjob'[w] = wjob[w]
  OBVIOUS
<1> QED BY <1>1, <1>2, SlotsKept

LEMMA NoElems ==
  ASSUME NEW s, s = <<>>
  PROVE  Elems(s) = {} /\ NoDuplicate(s)
<1>1. Len(s) = 0
  OBVIOUS
<1>2. \A i \in 1 .. Len(s) : FALSE
  BY <1>1
<1> QED BY <1>2 DEF Elems, NoDuplicate

\* Steps that change no slot of the callers.
LEMMA SlotsCallerStays ==
  ASSUME Inv, SlotInv, NEW c \in Callers,
         \/ GetWait(c) \/ UngetDone(c) \/ DoJobs(c) \/ SeenAgain(c) \/ AddDone(c) \/ WaitSync(c)
         \/ ClearError(c) \/ Join(c) \/ \E S \in Allocated : Free(c, S)
  PROVE  SlotInv'
<1>1. UNCHANGED <<available, jobs, job, wjob, wcb, got>>
  BY DEF GetWait, UngetDone, DoJobs, SeenAgain, AddDone, WaitSync, ClearError, Join, Free, fifo, app, wrk
<1>2. wpc' = wpc \/ \E Q : wpc' = Broadcast(Q, wpc)
  BY DEF GetWait, UngetDone, DoJobs, SeenAgain, AddDone, WaitSync, ClearError, Join, Free
<1>3. wpc \in [Workers -> WorkerPC]
  BY DEF Inv, Typed
<1>4. \A w \in Workers : wpc'[w] = wpc[w] \/ (wpc[w] = "wait" /\ wpc'[w] = "main")
  BY <1>2, <1>3, BroadcastWakes
<1>5. \A d \in Callers : Elems(got'[d]) \subseteq Elems(got[d]) /\ NoDuplicate(got'[d])
  BY <1>1 DEF SlotInv, NoTwice
<1>6. \A s \in Slots : job'[s].master = NoSlot
  BY <1>1 DEF SlotInv, NoMasters
<1> QED BY <1>1, <1>4, <1>5, <1>6, SlotsCallerPlain

\* Steps that make a caller forget its slots.
LEMMA SlotsCallerForgets ==
  ASSUME Inv, SlotInv, NEW c \in Callers,
         Direct(c) \/ \E op \in Ops, S \in Sets : Call(c, op, S)
  PROVE  SlotInv'
<1>1. UNCHANGED <<available, jobs, job, wjob, wcb, wpc>> /\ got' = [got EXCEPT ![c] = <<>>]
  BY DEF Direct, Call, fifo, app, wrk
<1>2. got'[c] = <<>> /\ \A d \in Callers \ {c} : got'[d] = got[d]
  BY <1>1 DEF Inv, Typed
<1>3. \A d \in Callers : Elems(got'[d]) \subseteq Elems(got[d]) /\ NoDuplicate(got'[d])
  <2>1. Elems(got'[c]) = {} /\ NoDuplicate(got'[c])
    BY <1>2, NoElems
  <2> QED BY <1>2, <2>1 DEF SlotInv, NoTwice
<1>4. \A s \in Slots : job'[s].master = NoSlot
  BY <1>1 DEF SlotInv, NoMasters
<1>5. \A w \in Workers : wpc'[w] = wpc[w]
  BY <1>1
<1> QED BY <1>1, <1>3, <1>4, <1>5, SlotsCallerPlain

\* The slots of the rank in error are dropped.
LEMMA SlotsGetFail ==
  ASSUME Inv, SlotInv, NEW c \in Callers, GetFail(c)
  PROVE  SlotInv'
<1>1. PICK n : n = (cidx[c] - 1) * call[c].nj
  OBVIOUS
<1>2. UNCHANGED <<available, jobs, job, wjob, wcb, wpc>> /\ got' = [got EXCEPT ![c] = SubSeq(@, 1, n)]
  BY <1>1 DEF GetFail, fifo, wrk
<1>3. got[c] \in Seq(Slots) /\ NoDuplicate(got[c]) /\ n \in Nat /\ n <= Len(got[c])
  <2>1. Getting(c) /\ call[c].nj \in {1, 2} /\ got[c] \in Seq(Slots) /\ cidx[c] \in Nat
        /\ Len(got[c]) \in Nat /\ Len(call[c].ranks) \in Nat
    BY CallTypes DEF GetFail, Inv, CallerInv
  <2>2. CASE call[c].nj = 1
    BY <1>1, <2>1, <2>2 DEF Getting, SlotInv, NoTwice
  <2>3. CASE call[c].nj = 2
    BY <1>1, <2>1, <2>3 DEF Getting, SlotInv, NoTwice
  <2> QED BY <2>1, <2>2, <2>3
<1>4. got'[c] = SubSeq(got[c], 1, n) /\ \A d \in Callers \ {c} : got'[d] = got[d]
  BY <1>2 DEF Inv, Typed
<1>5. NoDuplicate(SubSeq(got[c], 1, n)) /\ Elems(SubSeq(got[c], 1, n)) \subseteq Elems(got[c])
  BY <1>3, CutElems
<1>6. \A d \in Callers : Elems(got'[d]) \subseteq Elems(got[d]) /\ NoDuplicate(got'[d])
  <2>1. Elems(got'[c]) \subseteq Elems(got[c]) /\ NoDuplicate(got'[c])
    BY <1>4, <1>5
  <2> QED BY <1>4, <2>1 DEF SlotInv, NoTwice
<1>7. \A s \in Slots : job'[s].master = NoSlot
  BY <1>2 DEF SlotInv, NoMasters
<1>8. \A w \in Workers : wpc'[w] = wpc[w]
  BY <1>2
<1> QED BY <1>2, <1>6, <1>7, <1>8, SlotsCallerPlain

\* What SET_JOBS writes when no call is single.
LEMMA FilledPlain ==
  ASSUME NoSingle, Inv, SlotInv, NEW c \in Callers, cpc[c] = "set", NEW s \in Slots
  PROVE  ~Single(c) /\ Filled(c, s).master = NoSlot
<1>1. call[c].op \in Ops /\ call[c].nj \in {1, 2}
  BY CallTypes DEF Inv, CallerInv
<1>2. ~Single(c)
  BY <1>1 DEF NoSingle, Single
<1>3. job[s].master = NoSlot
  BY DEF SlotInv, NoMasters
<1>4. PICK i : i = CHOOSE k \in 1 .. Len(got[c]) : got[c][k] = s
  OBVIOUS
<1>5. CASE call[c].nj = 1
  BY <1>2, <1>5 DEF Filled
<1>6. CASE call[c].nj = 2 /\ ~SyncSlot(i)
  BY <1>2, <1>4, <1>6 DEF Filled
<1>7. CASE call[c].nj = 2 /\ SyncSlot(i)
  BY <1>2, <1>3, <1>4, <1>7 DEF Filled
<1> QED BY <1>1, <1>2, <1>5, <1>6, <1>7

LEMMA SlotsSetJobs ==
  ASSUME NoSingle, Inv, SlotInv, NEW c \in Callers, SetJobs(c)
  PROVE  SlotInv'
<1>1. cpc[c] = "set" /\ AnySlot \in Slots
  BY AnySlotIsSlot DEF SetJobs
<1>2. ~Single(c)
  BY <1>1, FilledPlain
<1>3. /\ UNCHANGED <<available, jobs, wjob, wcb, wpc>>
      /\ job' = [s \in Slots |-> IF s \in Elems(got[c]) THEN Filled(c, s) ELSE job[s]]
      /\ got' = [got EXCEPT ![c] = got[c]]
  BY <1>2 DEF SetJobs, wrk
<1>4. got' = got
  BY <1>3 DEF Inv, Typed
<1>5. \A d \in Callers : Elems(got'[d]) \subseteq Elems(got[d]) /\ NoDuplicate(got'[d])
  BY <1>4 DEF SlotInv, NoTwice
<1>6. \A s \in Slots : job'[s].master = NoSlot
  BY <1>1, <1>3, FilledPlain DEF SlotInv, NoMasters
<1>7. \A w \in Workers : wpc'[w] = wpc[w]
  BY <1>3
<1> QED BY <1>3, <1>5, <1>6, <1>7, SlotsCallerPlain

\* The first free slot of a rank goes to a caller.
LEMMA SlotsGetJob ==
  ASSUME Inv, SlotInv, NEW c \in Callers, GetJob(c)
  PROVE  SlotInv'
<1>1. call[c].ranks \in Seq(Ranks) /\ Getting(c)
  BY CallTypes DEF GetJob, Inv, CallerInv
<1>2. PICK r \in Ranks : r = call[c].ranks[cidx[c]]
  BY <1>1 DEF Getting
<1>3. /\ available[r] # <<>> /\ got' = [got EXCEPT ![c] = Append(@, Head(available[r]))]
      /\ available' = Popped(r) /\ UNCHANGED <<jobs, job, wpc, wjob, wcb>>
  BY <1>2 DEF GetJob, wrk
<1>4. /\ available \in [Ranks -> Seq(Slots)] /\ got \in [Callers -> Seq(Slots)]
      /\ NoDuplicate(available[r]) /\ NoDuplicate(got[c])
  BY DEF Inv, Typed, SlotInv, NoTwice
<1>5. PICK s \in Slots : s = Head(available[r])
  BY <1>3, PoppedOwn
<1>6. available'[r] = Tail(available[r]) /\ \A x \in Ranks \ {r} : available'[x] = available[x]
  BY <1>3, <1>4 DEF Popped
<1>7. got'[c] = Append(got[c], s) /\ \A d \in Callers \ {c} : got'[d] = got[d]
  BY <1>3, <1>4, <1>5
<1>8. /\ s \in Elems(available[r]) /\ Elems(available'[r]) \subseteq Elems(available[r]) \ {s}
      /\ NoDuplicate(available'[r])
  BY <1>3, <1>4, <1>5, <1>6, TailElems
<1>9. /\ Elems(got'[c]) = Elems(got[c]) \cup {s}
      /\ s \notin Elems(got[c]) => NoDuplicate(got'[c])
  BY <1>4, <1>7, AppendElems
<1> DEFINE a == <<"free", r>>
           b == <<"caller", c>>
<1>10. /\ a \in Homes /\ b \in Homes /\ a # b /\ {s} \subseteq Content(a)
       /\ Content(a)' \subseteq Content(a) \ {s} /\ Content(b)' \subseteq Content(b) \cup {s}
  BY <1>8, <1>9, ContentIs DEF Content
<1>11. s \notin Elems(got[c])
  BY <1>10, ContentIs DEF SlotInv, Apart
<1>12. ASSUME NEW p \in Homes, p # a, p # b PROVE Content(p)' \subseteq Content(p)
  <2>1. CASE \E x \in Ranks : p = <<"free", x>> \/ p = <<"fifo", x>>
    BY <1>3, <1>6, <1>12, <2>1 DEF Content
  <2>2. CASE \E d \in Callers : p = <<"caller", d>>
    BY <1>7, <1>12, <2>2 DEF Content
  <2>3. CASE \E v \in Workers : p = <<"worker", v>>
    BY <1>3, <2>3 DEF Content
  <2> QED BY <2>1, <2>2, <2>3, ContentIs
<1> HIDE DEF a, b
<1>13. Apart'
  BY <1>10, <1>12, MovedApart DEF SlotInv
<1>14. NoTwice'
  BY <1>3, <1>6, <1>7, <1>8, <1>9, <1>11 DEF SlotInv, NoTwice
<1>15. NoMasters'
  BY <1>3 DEF SlotInv, NoMasters
<1> QED BY <1>13, <1>14, <1>15 DEF SlotInv

\* The slots of the first rank of a call, and the rest.
Taken(c) == SubSeq(got[c], 1, call[c].nj)
Left(c) == SubSeq(got[c], call[c].nj + 1, Len(got[c]))

LEMMA HeadCut ==
  ASSUME Inv, SlotInv, NEW c \in Callers, cpc[c] \in {"unget", "add", "addq"}, got[c] # <<>>
  PROVE  /\ Taken(c) \in Seq(Slots) /\ Left(c) \in Seq(Slots)
         /\ NoDuplicate(Taken(c)) /\ NoDuplicate(Left(c))
         /\ Elems(Taken(c)) \subseteq Elems(got[c]) /\ Elems(Left(c)) \subseteq Elems(got[c]) \ Elems(Taken(c))
         /\ Len(Taken(c)) = call[c].nj /\ Taken(c)[1] = got[c][1]
         /\ call[c].nj = 2 => Taken(c)[2] = got[c][2]
<1> DEFINE a == SubSeq(got[c], 1, call[c].nj)
           b == SubSeq(got[c], call[c].nj + 1, Len(got[c]))
<1>0. call[c].nj \in {1, 2} /\ call[c].nj <= Len(got[c]) /\ got[c] \in Seq(Slots)
  BY HeadSlots
<1>1. PICK n \in {1, 2} : n = call[c].nj
  BY <1>0
<1>2. n \in Nat /\ n <= Len(got[c]) /\ got[c] \in Seq(Slots) /\ NoDuplicate(got[c])
  BY <1>0, <1>1 DEF SlotInv, NoTwice
<1>3. Len(a) = n /\ \A i \in 1 .. n : a[i] = got[c][i]
  BY <1>1, <1>2, FirstOf
<1>4. /\ a \in Seq(Slots) /\ b \in Seq(Slots) /\ NoDuplicate(a) /\ NoDuplicate(b)
      /\ Elems(a) \subseteq Elems(got[c]) /\ Elems(b) \subseteq Elems(got[c]) \ Elems(a)
  BY <1>1, <1>2, CutElems
<1> HIDE DEF a, b
<1>5. a[1] = got[c][1] /\ (n = 2 => a[2] = got[c][2])
  <2>1. 1 \in 1 .. n /\ (n = 2 => 2 \in 1 .. n)
    OBVIOUS
  <2> QED BY <1>3, <2>1
<1> QED BY <1>1, <1>3, <1>4, <1>5 DEF a, b, Taken, Left

\* The slots of a rank go back to the head of its free list.
LEMMA SlotsUnget ==
  ASSUME Inv, SlotInv, NEW c \in Callers, Unget(c)
  PROVE  SlotInv'
<1>1. cpc[c] = "unget" /\ got[c] # <<>>
  BY DEF Unget
<1>2. PICK r \in Ranks : r = RankOf(got[c][1])
  BY <1>1, HeadSlots
<1>3. PICK h : h = Taken(c)
  OBVIOUS
<1>4. PICK g : g = Left(c)
  OBVIOUS
<1>5. /\ h \in Seq(Slots) /\ g \in Seq(Slots) /\ NoDuplicate(h) /\ NoDuplicate(g)
      /\ Elems(h) \subseteq Elems(got[c]) /\ Elems(g) \subseteq Elems(got[c]) \ Elems(h)
      /\ Len(h) = call[c].nj /\ h[1] = got[c][1] /\ (call[c].nj = 2 => h[2] = got[c][2])
      /\ call[c].nj \in {1, 2}
  <2>1. cpc[c] \in {"unget", "add", "addq"}
    BY <1>1
  <2>2. call[c].nj \in {1, 2}
    BY <1>1, <2>1, HeadSlots
  <2> QED BY <1>1, <1>3, <1>4, <2>1, <2>2, HeadCut
<1>6. PICK back : back = IF call[c].nj = 1 THEN <<got[c][1]>> ELSE <<got[c][2], got[c][1]>>
  OBVIOUS
<1>7. back \in Seq(Slots) /\ NoDuplicate(back) /\ Elems(back) = Elems(h)
  <2>1. CASE call[c].nj = 1
    <3>1. back = <<h[1]>> /\ h[1] \in Slots
      <4>1. 1 \in 1 .. Len(h)
        BY <1>5, <2>1
      <4>2. h[1] \in Slots
        BY <1>5, <4>1
      <4>3. back = <<got[c][1]>>
        BY <1>6, <2>1
      <4> QED BY <1>5, <4>2, <4>3
    <3>2. Elems(h) = {h[1]}
      BY <1>5, <2>1 DEF Elems
    <3> QED BY <3>1, <3>2 DEF Elems, NoDuplicate
  <2>2. CASE call[c].nj = 2
    <3>1. back = <<h[2], h[1]>> /\ h[1] \in Slots /\ h[2] \in Slots /\ h[1] # h[2]
      <4>1. 1 \in 1 .. Len(h) /\ 2 \in 1 .. Len(h) /\ 1 # 2
        BY <1>5, <2>2
      <4>2. h[1] \in Slots /\ h[2] \in Slots
        BY <1>5, <4>1
      <4>3. h[1] # h[2]
        BY <1>5, <4>1 DEF NoDuplicate
      <4> QED BY <1>5, <1>6, <2>2, <4>2, <4>3
    <3>2. Elems(h) = {h[1], h[2]}
      BY <1>5, <2>2 DEF Elems
    <3>3. Len(back) = 2 /\ back[1] = h[2] /\ back[2] = h[1] /\ back \in Seq(Slots)
      BY <3>1
    <3>4. \A i \in 1 .. Len(back) : i = 1 \/ i = 2
      BY <3>3
    <3>5. 1 \in 1 .. Len(back) /\ 2 \in 1 .. Len(back)
      BY <3>3
    <3>6. NoDuplicate(back)
      BY <3>1, <3>3, <3>4 DEF NoDuplicate
    <3>7. Elems(back) = {h[1], h[2]}
      BY <3>3, <3>4, <3>5 DEF Elems
    <3> QED BY <3>2, <3>3, <3>6, <3>7
  <2> QED BY <1>5, <2>1, <2>2
<1>8. /\ available' = [available EXCEPT ![r] = back \o @] /\ got' = [got EXCEPT ![c] = g]
      /\ UNCHANGED <<jobs, job, wpc, wjob, wcb>>
  BY <1>2, <1>4, <1>5, <1>6 DEF Unget, Left, wrk
<1>9. /\ available \in [Ranks -> Seq(Slots)] /\ got \in [Callers -> Seq(Slots)]
      /\ NoDuplicate(available[r])
  BY DEF Inv, Typed, SlotInv, NoTwice
<1>10. available'[r] = back \o available[r] /\ \A x \in Ranks \ {r} : available'[x] = available[x]
  BY <1>8, <1>9
<1>11. got'[c] = g /\ \A d \in Callers \ {c} : got'[d] = got[d]
  BY <1>8, <1>9
<1>12. /\ Elems(back \o available[r]) = Elems(back) \cup Elems(available[r])
       /\ Elems(back) \cap Elems(available[r]) = {} => NoDuplicate(back \o available[r])
  BY <1>7, <1>9, ConcatElems
<1> DEFINE a == <<"caller", c>>
           b == <<"free", r>>
<1>13. /\ a \in Homes /\ b \in Homes /\ a # b /\ Elems(h) \subseteq Content(a)
       /\ Content(a)' \subseteq Content(a) \ Elems(h) /\ Content(b)' \subseteq Content(b) \cup Elems(h)
  BY <1>5, <1>7, <1>10, <1>11, <1>12, ContentIs DEF Content
<1>14. Elems(back) \cap Elems(available[r]) = {}
  <2>1. Content(a) \cap Content(b) = {}
    BY <1>13 DEF SlotInv, Apart
  <2>2. Content(b) = Elems(available[r])
    BY ContentIs
  <2> QED BY <1>7, <1>13, <2>1, <2>2
<1>15. ASSUME NEW p \in Homes, p # a, p # b PROVE Content(p)' \subseteq Content(p)
  <2>1. CASE \E x \in Ranks : p = <<"free", x>> \/ p = <<"fifo", x>>
    BY <1>8, <1>10, <1>15, <2>1 DEF Content
  <2>2. CASE \E d \in Callers : p = <<"caller", d>>
    BY <1>11, <1>15, <2>2 DEF Content
  <2>3. CASE \E v \in Workers : p = <<"worker", v>>
    BY <1>8, <2>3 DEF Content
  <2> QED BY <2>1, <2>2, <2>3, ContentIs
<1> HIDE DEF a, b
<1>16. Apart'
  BY <1>13, <1>15, MovedApart DEF SlotInv
<1>17. NoTwice'
  BY <1>5, <1>8, <1>10, <1>11, <1>12, <1>14 DEF SlotInv, NoTwice
<1>18. NoMasters'
  BY <1>8 DEF SlotInv, NoMasters
<1> QED BY <1>16, <1>17, <1>18 DEF SlotInv

\* The slots of a rank go to the end of its FIFO.
LEMMA SlotsAppended ==
  ASSUME Inv, SlotInv, NEW c \in Callers, cpc[c] \in {"add", "addq"}, got[c] # <<>>,
         NEW r \in Ranks, r = RankOf(got[c][1]),
         jobs' = [jobs EXCEPT ![r] = jobs[r] \o SubSeq(got[c], 1, call[c].nj)],
         got' = [got EXCEPT ![c] = SubSeq(got[c], call[c].nj + 1, Len(got[c]))],
         UNCHANGED <<available, job, wpc, wjob, wcb>>
  PROVE  SlotInv'
<1>1. PICK h : h = Taken(c)
  OBVIOUS
<1>2. PICK g : g = Left(c)
  OBVIOUS
<1>3. /\ h \in Seq(Slots) /\ g \in Seq(Slots) /\ NoDuplicate(h) /\ NoDuplicate(g)
      /\ Elems(h) \subseteq Elems(got[c]) /\ Elems(g) \subseteq Elems(got[c]) \ Elems(h)
  <2>1. cpc[c] \in {"unget", "add", "addq"}
    OBVIOUS
  <2> QED BY <1>1, <1>2, <2>1, HeadCut
<1>4. /\ jobs \in [Ranks -> Seq(Slots)] /\ got \in [Callers -> Seq(Slots)] /\ NoDuplicate(jobs[r])
  BY DEF Inv, Typed, SlotInv, NoTwice
<1>5. jobs'[r] = jobs[r] \o h /\ \A x \in Ranks \ {r} : jobs'[x] = jobs[x]
  BY <1>1, <1>4 DEF Taken
<1>6. got'[c] = g /\ \A d \in Callers \ {c} : got'[d] = got[d]
  BY <1>2, <1>4 DEF Left
<1>7. /\ Elems(jobs[r] \o h) = Elems(jobs[r]) \cup Elems(h)
      /\ Elems(jobs[r]) \cap Elems(h) = {} => NoDuplicate(jobs[r] \o h)
  <2>1. jobs[r] \in Seq(Slots) /\ h \in Seq(Slots) /\ NoDuplicate(jobs[r]) /\ NoDuplicate(h)
    BY <1>3, <1>4
  <2> QED BY <2>1, ConcatElems
<1> DEFINE a == <<"caller", c>>
           b == <<"fifo", r>>
<1>8. /\ a \in Homes /\ b \in Homes /\ a # b /\ Elems(h) \subseteq Content(a)
      /\ Content(a)' \subseteq Content(a) \ Elems(h) /\ Content(b)' \subseteq Content(b) \cup Elems(h)
  <2>1. a \in Homes /\ Content(a) = Elems(got[c]) /\ b \in Homes /\ Content(b) = Elems(jobs[r])
    BY ContentIs
  <2>2. Content(a)' = Elems(got'[c]) /\ Content(b)' = Elems(jobs'[r]) /\ a # b
    BY DEF Content
  <2> HIDE DEF a, b
  <2> QED BY <1>3, <1>5, <1>6, <1>7, <2>1, <2>2
<1>9. Elems(jobs[r]) \cap Elems(h) = {}
  <2>1. Content(a) \cap Content(b) = {}
    BY <1>8 DEF SlotInv, Apart
  <2>2. Content(b) = Elems(jobs[r])
    BY ContentIs
  <2> QED BY <1>8, <2>1, <2>2
<1>10. ASSUME NEW p \in Homes, p # a, p # b PROVE Content(p)' \subseteq Content(p)
  <2>1. CASE \E x \in Ranks : p = <<"free", x>> \/ p = <<"fifo", x>>
    BY <1>5, <1>10, <2>1 DEF Content
  <2>2. CASE \E d \in Callers : p = <<"caller", d>>
    BY <1>6, <1>10, <2>2 DEF Content
  <2>3. CASE \E v \in Workers : p = <<"worker", v>>
    BY <2>3 DEF Content
  <2> QED BY <2>1, <2>2, <2>3, ContentIs
<1> HIDE DEF a, b
<1>11. Apart'
  BY <1>8, <1>10, MovedApart DEF SlotInv
<1>12. NoTwice'
  BY <1>3, <1>5, <1>6, <1>7, <1>9 DEF SlotInv, NoTwice
<1>13. NoMasters'
  BY DEF SlotInv, NoMasters
<1> QED BY <1>11, <1>12, <1>13 DEF SlotInv

LEMMA SlotsAdd ==
  ASSUME Inv, SlotInv, NEW c \in Callers, AddJobs(c) \/ AddFirst(c)
  PROVE  SlotInv'
<1>1. cpc[c] \in {"add", "addq"} /\ got[c] # <<>>
  BY DEF AddJobs, AddFirst, Inv, Entering
<1>2. PICK r \in Ranks : r = RankOf(got[c][1])
  BY <1>1, HeadSlots
<1>3. UNCHANGED <<available, job, wpc, wjob, wcb>>
  BY DEF AddJobs, AddFirst, wrk
<1>4. \/ UNCHANGED <<jobs, got>>
      \/ /\ jobs' = [jobs EXCEPT ![r] = jobs[r] \o SubSeq(got[c], 1, call[c].nj)]
         /\ got' = [got EXCEPT ![c] = SubSeq(got[c], call[c].nj + 1, Len(got[c]))]
  BY <1>2 DEF AddJobs, AddFirst, Inv, Typed
<1>5. CASE UNCHANGED <<jobs, got>>
  <2>1. \A d \in Callers : Elems(got'[d]) \subseteq Elems(got[d]) /\ NoDuplicate(got'[d])
    BY <1>5 DEF SlotInv, NoTwice
  <2>2. \A s \in Slots : job'[s].master = NoSlot
    BY <1>3 DEF SlotInv, NoMasters
  <2>3. \A w \in Workers : wpc'[w] = wpc[w]
    BY <1>3
  <2> QED BY <1>3, <1>5, <2>1, <2>2, <2>3, SlotsCallerPlain
<1> QED BY <1>1, <1>2, <1>3, <1>4, <1>5, SlotsAppended

LEMMA SlotsCallerStep ==
  ASSUME NoSingle, Inv, SlotInv, NEW c \in Callers,
         \/ CallerStep(c)
         \/ \E S \in Allocated : Free(c, S)
         \/ \E op \in Ops, S \in Sets : Call(c, op, S)
  PROVE  SlotInv'
<1>1. cpc[c] \notin {"choose", "master"}
  BY DEF Inv, CallerInv, NoSingle
<1>2. ~GetMaster(c) /\ \A r \in Ranks : ~ChooseMaster(c, r)
  BY <1>1 DEF GetMaster, ChooseMaster
<1> QED
  BY <1>2, SlotsCallerStays, SlotsCallerForgets, SlotsGetFail, SlotsSetJobs, SlotsGetJob, SlotsUnget, SlotsAdd
     DEF CallerStep

-----------------------------------------------------------------------------
(* A slot is in one place                                                  *)

LEMMA SlotsInit ==
  ASSUME Init
  PROVE  SlotInv
<1>1. PICK free : free = [r \in Ranks |-> [i \in 1 .. NrJobs |-> <<r, NrJobs + 1 - i>>]]
  OBVIOUS
<1>2. /\ available = free /\ jobs = [r \in Ranks |-> <<>>] /\ got = [c \in Callers |-> <<>>]
      /\ wpc = [w \in Workers |-> "main"] /\ job = [s \in Slots |-> NoJob] /\ wcb = [w \in Workers |-> NoCallback]
  BY <1>1 DEF Init
<1>3. ASSUME NEW r \in Ranks
      PROVE  NoDuplicate(free[r]) /\ \A s \in Elems(free[r]) : s[1] = r
  <2>1. free[r] = [i \in 1 .. NrJobs |-> <<r, NrJobs + 1 - i>>]
    BY <1>1
  <2>2. Len(free[r]) = NrJobs /\ \A i \in 1 .. NrJobs : free[r][i] = <<r, NrJobs + 1 - i>>
    BY <2>1, NrJobsAssumption, LenProperties
  <2>3. ASSUME NEW i \in 1 .. NrJobs, NEW j \in 1 .. NrJobs, free[r][i] = free[r][j] PROVE i = j
    <3>1. NrJobs + 1 - i = NrJobs + 1 - j
      BY <2>2, <2>3
    <3> QED BY <3>1, NrJobsAssumption
  <2>4. NoDuplicate(free[r])
    BY <2>2, <2>3 DEF NoDuplicate
  <2>5. \A s \in Elems(free[r]) : s[1] = r
    BY <2>2 DEF Elems
  <2> QED BY <2>4, <2>5
<1>4. \A r \in Ranks : Elems(jobs[r]) = {} /\ NoDuplicate(jobs[r])
  BY <1>2, NoElems
<1>5. \A c \in Callers : Elems(got[c]) = {} /\ NoDuplicate(got[c])
  BY <1>2, NoElems
<1>6. \A w \in Workers : wpc[w] # "drainsig"
  BY <1>2
<1>7. ASSUME NEW p \in Homes PROVE Content(p) = {} \/ \E r \in Ranks : p = <<"free", r>> /\ Content(p) = Elems(free[r])
  <2>1. CASE \E r \in Ranks : p = <<"free", r>> \/ p = <<"fifo", r>>
    BY <1>2, <1>4, <2>1, ContentIs
  <2>2. CASE \E c \in Callers : p = <<"caller", c>>
    BY <1>5, <2>2, ContentIs
  <2>3. CASE \E w \in Workers : p = <<"worker", w>>
    BY <1>6, <2>3, ContentIs
  <2> QED BY <2>1, <2>2, <2>3, ContentIs
<1>8. Apart
  <2> SUFFICES ASSUME NEW p \in Homes, NEW q \in Homes, p # q, NEW s \in Content(p), s \in Content(q) PROVE FALSE
    BY DEF Apart
  <2>1. PICK r \in Ranks : p = <<"free", r>> /\ Content(p) = Elems(free[r])
    BY <1>7
  <2>2. PICK x \in Ranks : q = <<"free", x>> /\ Content(q) = Elems(free[x])
    BY <1>7
  <2>3. s[1] = r /\ s[1] = x
    BY <1>3, <2>1, <2>2
  <2> QED BY <2>1, <2>2, <2>3
<1>9. NoTwice
  BY <1>2, <1>3, <1>4, <1>5 DEF NoTwice
<1>10. NoMasters
  BY <1>2 DEF NoMasters, NoJob, NoCallback
<1> QED BY <1>8, <1>9, <1>10 DEF SlotInv

LEMMA SlotsNext ==
  ASSUME NoSingle, Inv, SlotInv, [Next]_vars
  PROVE  SlotInv'
<1>1. CASE AllIdle
  <2>1. UNCHANGED <<available, jobs, job, wjob, wcb, wpc, got>>
    BY <1>1 DEF AllIdle, fifo, app, wrk
  <2>2. \A d \in Callers : Elems(got'[d]) \subseteq Elems(got[d]) /\ NoDuplicate(got'[d])
    BY <2>1 DEF SlotInv, NoTwice
  <2>3. \A s \in Slots : job'[s].master = NoSlot
    BY <2>1 DEF SlotInv, NoMasters
  <2> QED BY <2>1, <2>2, <2>3, SlotsCallerPlain
<1> QED BY <1>1, AllIdleWhen, SlotsCallerStep, SlotsWorkerStep DEF Next

LEMMA OwnersAre ==
  ASSUME SlotInv, Inv, NEW s \in Slots
  PROVE  Owners(s) = {p \in Homes : s \in Content(p)}
<1>1. ~Referenced(s)
  <2>1. \A r \in Ranks : Elems(jobs[r]) \subseteq Slots
    BY DEF Inv, Typed, Elems
  <2>2. \A c \in Callers : Elems(got[c]) \subseteq Slots
    BY DEF Inv, Typed, Elems
  <2>3. \A t \in Slots : job[t].master # s
    BY ThreadsAssumption DEF SlotInv, NoMasters
  <2>4. \A w \in Workers : wcb[w].master # s
    BY ThreadsAssumption DEF SlotInv, NoMasters
  <2> QED BY <2>1, <2>2, <2>3, <2>4 DEF Referenced
<1>2. \A p : p \in Owners(s) <=>
        \/ \E r \in Ranks : p = <<"free", r>> /\ s \in Elems(available[r])
        \/ \E r \in Ranks : p = <<"fifo", r>> /\ s \in Elems(jobs[r])
        \/ \E c \in Callers : p = <<"caller", c>> /\ s \in Elems(got[c])
        \/ \E w \in Workers : p = <<"worker", w>> /\ wpc[w] = "drainsig" /\ wjob[w] = s
  BY <1>1 DEF Owners
<1>3. ASSUME NEW p \in Owners(s) PROVE p \in Homes /\ s \in Content(p)
  <2>1. CASE \E r \in Ranks : p = <<"free", r>> /\ s \in Elems(available[r])
    BY <2>1, ContentIs
  <2>2. CASE \E r \in Ranks : p = <<"fifo", r>> /\ s \in Elems(jobs[r])
    BY <2>2, ContentIs
  <2>3. CASE \E c \in Callers : p = <<"caller", c>> /\ s \in Elems(got[c])
    BY <2>3, ContentIs
  <2>4. CASE \E w \in Workers : p = <<"worker", w>> /\ wpc[w] = "drainsig" /\ wjob[w] = s
    BY <2>4, ContentIs
  <2> QED BY <1>2, <2>1, <2>2, <2>3, <2>4
<1>4. ASSUME NEW p \in Homes, s \in Content(p) PROVE p \in Owners(s)
  <2>1. ASSUME NEW r \in Ranks, p = <<"free", r>> PROVE p \in Owners(s)
    <3>1. s \in Elems(available[r])
      BY <1>4, <2>1, ContentIs
    <3> QED BY <1>2, <2>1, <3>1
  <2>2. ASSUME NEW r \in Ranks, p = <<"fifo", r>> PROVE p \in Owners(s)
    <3>1. s \in Elems(jobs[r])
      BY <1>4, <2>2, ContentIs
    <3> QED BY <1>2, <2>2, <3>1
  <2>3. ASSUME NEW c \in Callers, p = <<"caller", c>> PROVE p \in Owners(s)
    <3>1. s \in Elems(got[c])
      BY <1>4, <2>3, ContentIs
    <3> QED BY <1>2, <2>3, <3>1
  <2>4. ASSUME NEW w \in Workers, p = <<"worker", w>> PROVE p \in Owners(s)
    <3>1. wpc[w] = "drainsig" /\ wjob[w] = s
      BY <1>4, <2>4, ContentIs
    <3> QED BY <1>2, <2>4, <3>1
  <2> QED BY <2>1, <2>2, <2>3, <2>4, ContentIs
<1> QED BY <1>3, <1>4

LEMMA SlotInvImplies ==
  ASSUME Inv, SlotInv
  PROVE  SlotsExclusive
<1>1. ASSUME NEW s \in Slots PROVE Cardinality(Owners(s)) <= 1
  <2>1. CASE Owners(s) = {}
    BY <2>1, FS_EmptySet
  <2>2. ASSUME NEW p \in Owners(s) PROVE Cardinality(Owners(s)) <= 1
    <3>1. \A q \in Owners(s) : q = p
      <4>1. \A q \in Owners(s) : q \in Homes /\ s \in Content(q)
        BY OwnersAre
      <4> QED BY <4>1 DEF SlotInv, Apart
    <3>2. Owners(s) = {p}
      BY <3>1
    <3>3. Cardinality({p}) = 1
      BY FS_Singleton
    <3> QED BY <3>2, <3>3
  <2> QED BY <2>1, <2>2
<1> QED BY <1>1 DEF SlotsExclusive, SlotInv, NoTwice

LEMMA NoSingleNoParking ==
  ASSUME NoSingle
  PROVE  NoParking
BY DEF NoSingle, NoParking, Parks

\* When no call is a single-call callback, a slot of a rank's job table is in at
\* most one place: get_jobs never hands one slot to two callers, a queued job is
\* never on the free list, and unget_jobs, advance_to_next_job and the error path
\* of update_status give a slot back once.
THEOREM SlotsExclusiveHolds ==
  ASSUME NoSingle
  PROVE  Spec => []SlotsExclusive
<1>1. Init => Inv /\ SlotInv
  BY InvInit, SlotsInit
<1>2. Inv /\ SlotInv /\ [Next]_vars => Inv' /\ SlotInv'
  BY InvNext, SlotsNext, NoSingleNoParking
<1>3. Inv /\ SlotInv => SlotsExclusive
  BY SlotInvImplies
<1> QED
  BY <1>1, <1>2, <1>3, PTL DEF Spec

-----------------------------------------------------------------------------
(* No callbacks                                                            *)

\* The application makes no dpu_callback.
NoCallbacks == \A op \in Ops : op.type # "callback"

LEMMA NoCallbacksNoSingle ==
  ASSUME NoCallbacks
  PROVE  NoSingle
BY OpsAssumption DEF NoCallbacks, NoSingle

\* Nobody is on the path of a callback; the sync objects have their types.
PlainInv ==
  /\ sync \in [Callers -> [nr : Int, failed : BOOLEAN]]
  /\ syncMutex \in [Callers -> Threads \cup {NoThread}]
  /\ callbackSet = [r \in Ranks |-> FALSE]
  /\ \A s \in Slots : job[s].type # "callback"
  /\ \A w \in Workers : wpc[w] \notin {"cbadvance", "cbinsert", "cbrun"}
  /\ \A c \in Callers : cpc[c] \notin {"set_direct", "do_seen", "direct"}

\* What workers and callers do then.
WorkerPlain(w) ==
  \/ WorkerStop(w) \/ WorkerWait(w) \/ WorkerTake(w) \/ WorkerLock(w)
  \/ \E ok \in BOOLEAN : ComputeWork(w, ok)
  \/ ComputeSync(w) \/ Signal(w) \/ Advance(w)
  \/ UpdateStatus(w) \/ Drain(w) \/ DrainSync(w) \/ DrainSignal(w) \/ DrainDone(w)
CallerPlain(c) ==
  \/ GetJob(c) \/ GetWait(c) \/ GetFail(c) \/ Unget(c) \/ UngetDone(c)
  \/ SetJobs(c) \/ DoJobs(c) \/ AddJobs(c) \/ AddFirst(c) \/ AddDone(c)
  \/ WaitSync(c) \/ ClearError(c) \/ Join(c)
  \/ \E S \in Allocated : Free(c, S)
  \/ \E op \in Ops, S \in Sets : Call(c, op, S)

LEMMA PlainSteps ==
  ASSUME NoCallbacks, Inv, SlotInv, PlainInv, [Next]_vars
  PROVE  \/ AllIdle
         \/ \E w \in Workers : WorkerPlain(w)
         \/ \E c \in Callers : CallerPlain(c)
<1>1. ASSUME NEW w \in Workers, WorkerStep(w)
      PROVE  WorkerPlain(w)
  <2>1. wpc[w] \notin {"cblock", "block", "relmaster", "cbadvance", "cbinsert", "cbrun"}
    <3>1. wpc[w] # "relmaster"
      BY ThreadsAssumption DEF Inv, WorkerInv, SlotInv, NoMasters
    <3> QED BY <3>1 DEF Inv, WorkerInv, PlainInv
  <2>2. ~ComputeCallback(w)
    BY DEF ComputeCallback, PlainInv, Inv, Typed
  <2>3. /\ ~CallbackLock(w) /\ ~BlockSkip(w) /\ ~BlockLock(w) /\ ~BlockAdvance(w) /\ ~BlockDone(w)
        /\ ~ReleaseMaster(w) /\ ~CallbackAdvance(w) /\ ~CallbackInsert(w)
        /\ \A ok \in BOOLEAN : ~CallbackReturn(w, ok)
    BY <2>1 DEF CallbackLock, BlockSkip, BlockLock, BlockAdvance, BlockDone, ReleaseMaster,
                CallbackAdvance, CallbackInsert, CallbackReturn
  <2> QED BY <1>1, <2>2, <2>3 DEF WorkerStep, WorkerPlain
<1>2. ASSUME NEW c \in Callers, CallerStep(c)
      PROVE  CallerPlain(c)
  <2>1. cpc[c] \notin {"choose", "master", "set_direct", "do_seen", "direct"}
    BY NoCallbacksNoSingle DEF Inv, CallerInv, NoSingle, PlainInv
  <2>2. ~GetMaster(c) /\ (\A r \in Ranks : ~ChooseMaster(c, r)) /\ ~SeenAgain(c) /\ ~Direct(c)
    BY <2>1 DEF GetMaster, ChooseMaster, SeenAgain, Direct
  <2> QED BY <1>2, <2>2 DEF CallerStep, CallerPlain
<1>3. \A c \in Callers : (\E S \in Allocated : Free(c, S)) => CallerPlain(c)
  BY DEF CallerPlain
<1>4. \A c \in Callers : (\E op \in Ops, S \in Sets : Call(c, op, S)) => CallerPlain(c)
  BY DEF CallerPlain
<1> QED BY <1>1, <1>2, <1>3, <1>4, AllIdleWhen DEF Next

LEMMA PlainWorker ==
  ASSUME Inv, PlainInv, NEW w \in Workers, WorkerPlain(w)
  PROVE  PlainInv'
<1>1. UNCHANGED <<callbackSet, job, syncMutex>>
  BY DEF WorkerPlain, WorkerStop, WorkerWait, WorkerTake, WorkerLock, ComputeWork, ComputeSync, Signal, Advance,
         UpdateStatus, Drain, DrainSync, DrainSignal, DrainDone, fifo, flags, locks
<1>2. \A c \in Callers : cpc'[c] \notin {"set_direct", "do_seen", "direct"}
  <2>1. \A c \in Callers : Woken(cpc[c], cpc'[c]) \/ \E b : Woken(cpc[c], b) /\ Woken(b, cpc'[c])
    <3>1. CASE \E s : cpc' \in SlotSignal(s)
      BY <3>1, SlotSignalWakes DEF Inv
    <3>2. CASE cpc' = cpc
      BY <3>2 DEF Woken
    <3>3. CASE \E c : cpc' = SyncSignal(c, cpc)
      BY <3>3, SyncSignalWakes DEF Inv, Typed
    <3>4. CASE \E s, c : \E pcs \in SlotSignal(s) : cpc' = SyncSignal(c, pcs)
      <4>1. PICK s, d, pcs : pcs \in SlotSignal(s) /\ cpc' = SyncSignal(d, pcs)
        BY <3>4
      <4>2. pcs \in [Callers -> CallerPC] /\ \A c \in Callers : Woken(cpc[c], pcs[c])
        BY <4>1, SlotSignalWakes DEF Inv
      <4>3. \A c \in Callers : Woken(pcs[c], cpc'[c])
        BY <4>1, <4>2, SyncSignalWakes
      <4> QED BY <4>2, <4>3
    <3> QED
      BY <3>1, <3>2, <3>3, <3>4
      DEF WorkerPlain, WorkerStop, WorkerWait, WorkerTake, WorkerLock, ComputeWork, ComputeSync, Signal, Advance,
          UpdateStatus, Drain, DrainSync, DrainSignal, DrainDone
  <2> QED BY <2>1 DEF PlainInv, Woken
<1>3. \A v \in Workers : wpc'[v] \notin {"cbadvance", "cbinsert", "cbrun"}
  <2>1. CASE wpc' = wpc
    BY <2>1 DEF PlainInv
  <2>2. ASSUME NEW pc \in WorkerPC, pc \notin {"cbadvance", "cbinsert", "cbrun"}, WGoto(w, pc)
        PROVE  \A v \in Workers : wpc'[v] \notin {"cbadvance", "cbinsert", "cbrun"}
    BY <2>2, WGotoFacts DEF PlainInv
  <2>3. \/ wpc' = wpc
        \/ \E pc \in WorkerPC : pc \notin {"cbadvance", "cbinsert", "cbrun"} /\ WGoto(w, pc)
    BY WorkerPCs
    DEF WorkerPlain, WorkerStop, WorkerWait, WorkerTake, WorkerLock, ComputeWork, ComputeSync, Signal, Advance,
        UpdateStatus, Drain, DrainSync, DrainSignal, DrainDone, MainLoop
  <2> QED BY <2>1, <2>2, <2>3
<1>4. sync' \in [Callers -> [nr : Int, failed : BOOLEAN]]
  <2>1. sync \in [Callers -> [nr : Int, failed : BOOLEAN]]
    BY DEF PlainInv
  <2>2. CASE sync' = sync
    BY <2>1, <2>2
  <2>3. ASSUME NEW c, NEW b \in BOOLEAN, sync' = [sync EXCEPT ![c] = [nr |-> @.nr - 1, failed |-> b]]
        PROVE  sync' \in [Callers -> [nr : Int, failed : BOOLEAN]]
    <3>1. CASE c \in Callers
      <4>1. sync[c].nr - 1 \in Int
        BY <2>1, <3>1
      <4> QED BY <2>1, <2>3, <3>1, <4>1
    <3>2. CASE c \notin Callers
      BY <2>1, <2>3, <3>2
    <3> QED BY <3>1, <3>2
  <2>4. CASE ComputeSync(w)
    <3>1. PICK c : sync' = [sync EXCEPT ![c] = [sync[c] EXCEPT !.nr = sync[c].nr - 1]]
      BY <2>4 DEF ComputeSync
    <3>2. CASE c \in Callers
      <4>1. [sync[c] EXCEPT !.nr = sync[c].nr - 1] \in [nr : Int, failed : BOOLEAN]
        BY <2>1, <3>2
      <4> QED BY <2>1, <3>1, <3>2, <4>1
    <3>3. CASE c \notin Callers
      BY <2>1, <3>1, <3>3
    <3> QED BY <3>2, <3>3
  <2> QED
    BY <2>2, <2>3, <2>4
    DEF WorkerPlain, WorkerStop, WorkerWait, WorkerTake, WorkerLock, ComputeWork, Signal, Advance,
        UpdateStatus, Drain, DrainSync, DrainSignal, DrainDone
<1> QED BY <1>1, <1>2, <1>3, <1>4 DEF PlainInv

LEMMA SeesNone ==
  ASSUME PlainInv, NEW op, NEW ranks \in Seq(Ranks)
  PROVE  ~SeesCallback(op, ranks)
<1>1. CASE Len(ranks) = 1
  <2>1. ranks[1] \in Ranks
    BY <1>1
  <2>2. ~callbackSet[ranks[1]]
    BY <2>1 DEF PlainInv
  <2> QED BY <2>2 DEF SeesCallback
<1>2. CASE Len(ranks) # 1
  BY <1>2 DEF SeesCallback
<1> QED BY <1>1, <1>2

\* What SET_JOBS writes: the second slot of a pair is the SYNC job.
LEMMA FilledAs ==
  ASSUME NoCallbacks, Inv, SlotInv, PlainInv, NEW c \in Callers, cpc[c] = "set",
         NEW i \in 1 .. Len(got[c])
  PROVE  /\ Filled(c, got[c][i]).owner = c
         /\ Filled(c, got[c][i]).type = IF call[c].nj = 2 /\ SyncSlot(i) THEN "sync" ELSE call[c].op.type
<1>1. call[c].op \in Ops /\ call[c].nj \in {1, 2} /\ call[c].ranks \in Seq(Ranks)
  BY CallTypes DEF Inv, CallerInv
<1>2. ~Single(c)
  BY <1>1, NoCallbacksNoSingle DEF NoSingle, Single
<1>3. ~SeesCallback(call[c].op, call[c].ranks)
  BY <1>1, SeesNone
<1>4. NoDuplicate(got[c])
  BY DEF SlotInv, NoTwice
<1>5. PICK s : s = got[c][i]
  OBVIOUS
<1>6. \A k \in 1 .. Len(got[c]) : got[c][k] = s => k = i
  BY <1>4, <1>5 DEF NoDuplicate
<1>7. (CHOOSE k \in 1 .. Len(got[c]) : got[c][k] = s) = i
  BY <1>5, <1>6
<1>8. CASE call[c].nj = 1
  BY <1>2, <1>5, <1>8 DEF Filled
<1>9. CASE call[c].nj = 2 /\ ~SyncSlot(i)
  BY <1>2, <1>5, <1>7, <1>9 DEF Filled
<1>10. CASE call[c].nj = 2 /\ SyncSlot(i)
  <2> DEFINE seen == SeesCallback(call[c].op, call[c].ranks)
             master == got[c][Len(got[c])]
             new(t, m, S) == [type |-> t, owner |-> c, master |-> m, set |-> S,
                              nr |-> IF m = NoSlot /\ Single(c) THEN MasterCount(Len(call[c].ranks)) ELSE 1,
                              sync |-> call[c].op.sync, nonblocking |-> call[c].op.nonblocking,
                              single |-> Single(c)]
             rankSet == IF call[c].op.single THEN call[c].set ELSE <<RankOf(s)>>
             idx == CHOOSE k \in 1 .. Len(got[c]) : got[c][k] = s
  <2>1. Filled(c, s) =
          CASE Single(c) /\ s = master -> new("callback", NoSlot, call[c].set)
            [] Single(c) /\ s # master -> new("callback", master, call[c].set)
            [] ~Single(c) /\ call[c].nj = 1 -> new(call[c].op.type, NoSlot, rankSet)
            [] ~Single(c) /\ call[c].nj = 2 /\ ~SyncSlot(idx) -> new(call[c].op.type, NoSlot, rankSet)
            [] ~Single(c) /\ call[c].nj = 2 /\ SyncSlot(idx) ->
                 IF seen THEN job[s] ELSE new("sync", NoSlot, call[c].set)
    BY DEF Filled
  <2>2. new("sync", NoSlot, call[c].set).owner = c /\ new("sync", NoSlot, call[c].set).type = "sync"
    OBVIOUS
  <2>3. idx = i /\ ~seen
    BY <1>3, <1>7
  <2> HIDE DEF new, rankSet, idx, seen, master
  <2>4. Filled(c, s) = new("sync", NoSlot, call[c].set)
    BY <1>2, <1>10, <2>1, <2>3
  <2> QED BY <1>5, <1>10, <2>2, <2>4
<1> QED BY <1>1, <1>8, <1>9, <1>10

LEMMA PlainCallerSteps ==
  ASSUME NoCallbacks, Inv, SlotInv, PlainInv, NEW c \in Callers, CallerPlain(c)
  PROVE  PlainInv'
<1>1. callbackSet' = callbackSet
  BY DEF CallerPlain, GetJob, GetWait, GetFail, Unget, UngetDone, SetJobs, DoJobs, AddJobs, AddFirst, AddDone,
         WaitSync, ClearError, Join, Free, Call, flags
<1>2. \A s \in Slots : job'[s].type # "callback"
  <2>1. CASE job' = job
    BY <2>1 DEF PlainInv
  <2>2. CASE SetJobs(c)
    <3>1. cpc[c] = "set" /\ job' = [s \in Slots |-> IF s \in Elems(got[c]) THEN Filled(c, s) ELSE job[s]]
      BY <2>2 DEF SetJobs
    <3>2. call[c].op \in Ops
      BY <3>1 DEF Inv, CallerInv
    <3>3. \A s \in Elems(got[c]) : Filled(c, s).type # "callback"
      BY <3>1, <3>2, FilledAs DEF Elems, NoCallbacks
    <3> QED BY <3>1, <3>3 DEF PlainInv
  <2> QED
    BY <2>1, <2>2, Zenon
    DEF CallerPlain, GetJob, GetWait, GetFail, Unget, UngetDone, DoJobs, AddJobs, AddFirst, AddDone,
        WaitSync, ClearError, Join, Free, Call, fifo
<1>3. \A w \in Workers : wpc'[w] \notin {"cbadvance", "cbinsert", "cbrun"}
  <2>1. wpc' = wpc \/ \E Q : wpc' = Broadcast(Q, wpc)
    BY DEF CallerPlain, GetJob, GetWait, GetFail, Unget, UngetDone, SetJobs, DoJobs, AddJobs, AddFirst, AddDone,
           WaitSync, ClearError, Join, Free, Call
  <2>2. wpc \in [Workers -> WorkerPC]
    BY DEF Inv, Typed
  <2> QED BY <2>1, <2>2, BroadcastWakes DEF PlainInv
<1>4. \A d \in Callers : cpc'[d] \notin {"set_direct", "do_seen", "direct"}
  <2>1. CASE cpc' = cpc
    BY <2>1 DEF PlainInv
  <2>2. ASSUME NEW pc \in CallerPC, pc \notin {"set_direct", "do_seen", "direct"}, Goto(c, pc)
        PROVE  \A d \in Callers : cpc'[d] \notin {"set_direct", "do_seen", "direct"}
    BY <2>2, GotoFacts DEF PlainInv
  <2>3. call[c].ranks \in Seq(Ranks)
    BY CallTypes
  <2>4. CASE SetJobs(c) \/ DoJobs(c)
    <3>1. ~SeesCallback(call[c].op, call[c].ranks)
      BY <2>3, SeesNone
    <3>2. Goto(c, "do") \/ Goto(c, "add")
      BY <2>4, <3>1 DEF SetJobs, DoJobs
    <3> QED BY <2>2, <3>2 DEF CallerPC
  <2>5. CASE \E op \in Ops, S \in Sets : Call(c, op, S)
    <3>1. PICK op \in Ops, S \in Sets : Call(c, op, S)
      BY <2>5
    <3>2. PICK ranks : ranks = IF op.single /\ op.sync THEN <<S[1]>> ELSE S
      OBVIOUS
    <3>3. ranks \in Seq(Ranks)
      BY <3>2, SetsAssumption
    <3>4. ~SeesCallback(op, ranks)
      BY <3>3, SeesNone
    <3>5. Goto(c, "get")
      BY <3>1, <3>2, <3>4 DEF Call
    <3> QED BY <2>2, <3>5 DEF CallerPC
  <2>6. CASE WaitSync(c)
    <3>1. Goto(c, "wait") \/ Goto(c, "clear") \/ Goto(c, "idle")
      <4>1. sync[c].failed \in BOOLEAN
        BY DEF PlainInv
      <4> QED BY <2>6, <4>1 DEF WaitSync
    <3> QED BY <2>2, <3>1 DEF CallerPC
  <2>7. CASE GetJob(c)
    <3>1. Goto(c, "get") \/ Goto(c, "choose") \/ Goto(c, "set")
      BY <2>7 DEF GetJob
    <3> QED BY <2>2, <3>1 DEF CallerPC
  <2>8. CASE \/ GetWait(c) \/ GetFail(c) \/ Unget(c) \/ UngetDone(c) \/ AddJobs(c) \/ AddFirst(c) \/ AddDone(c)
             \/ ClearError(c) \/ Join(c) \/ \E S \in Allocated : Free(c, S)
    <3>1. \/ cpc' = cpc \/ Goto(c, "waitget") \/ Goto(c, "unget") \/ Goto(c, "idle") \/ Goto(c, "addq")
          \/ Goto(c, "add") \/ Goto(c, "wait") \/ Goto(c, "clear") \/ Goto(c, "freed") \/ Goto(c, "join")
      BY <2>8 DEF GetWait, GetFail, Unget, UngetDone, Return, AddJobs, AddFirst, AddDone, AfterAdd, ClearError,
                  Join, Free
    <3> QED BY <2>1, <2>2, <3>1 DEF CallerPC
  <2> QED BY <2>4, <2>5, <2>6, <2>7, <2>8 DEF CallerPlain
<1>5. sync' \in [Callers -> [nr : Int, failed : BOOLEAN]] /\ syncMutex' \in [Callers -> Threads \cup {NoThread}]
  <2>1. sync \in [Callers -> [nr : Int, failed : BOOLEAN]] /\ syncMutex \in [Callers -> Threads \cup {NoThread}]
    BY DEF PlainInv
  <2>2. CASE sync' = sync /\ (syncMutex' = syncMutex \/ AddDone(c))
    BY <2>1, <2>2 DEF AddDone
  <2>3. CASE \E op \in Ops, S \in Sets : Call(c, op, S)
    <3>1. PICK op \in Ops, S \in Sets : Call(c, op, S)
      BY <2>3
    <3>2. PICK ranks : ranks = IF op.single /\ op.sync THEN <<S[1]>> ELSE S
      OBVIOUS
    <3>3. Len(ranks) \in Int /\ c \in Threads
      BY <3>2, SetsAssumption DEF Threads
    <3>4. \/ UNCHANGED <<syncMutex, sync>>
          \/ /\ syncMutex' = [syncMutex EXCEPT ![c] = c]
             /\ sync' = [sync EXCEPT ![c] = [nr |-> Len(ranks), failed |-> FALSE]]
      BY <3>1, <3>2 DEF Call, InitSync
    <3>5. CASE UNCHANGED <<syncMutex, sync>>
      BY <2>1, <3>5
    <3>6. CASE /\ syncMutex' = [syncMutex EXCEPT ![c] = c]
               /\ sync' = [sync EXCEPT ![c] = [nr |-> Len(ranks), failed |-> FALSE]]
      <4>1. [nr |-> Len(ranks), failed |-> FALSE] \in [nr : Int, failed : BOOLEAN]
        BY <3>3
      <4>2. sync' \in [Callers -> [nr : Int, failed : BOOLEAN]]
        BY <2>1, <3>6, <4>1
      <4>3. syncMutex' \in [Callers -> Threads \cup {NoThread}]
        BY <2>1, <3>3, <3>6
      <4> QED BY <4>2, <4>3
    <3> QED BY <3>4, <3>5, <3>6
  <2> QED
    BY <2>2, <2>3
    DEF CallerPlain, GetJob, GetWait, GetFail, Unget, UngetDone, SetJobs, DoJobs, AddJobs, AddFirst, AddDone,
        WaitSync, ClearError, Join, Free, locks
<1> QED BY <1>1, <1>2, <1>3, <1>4, <1>5 DEF PlainInv

-----------------------------------------------------------------------------
(* The job a worker runs is the first of its FIFO                          *)

Runs(w) == wpc[w] \in {"lock", "compute", "advance", "signal", "update"}
HeadInv ==
  /\ \A w \in Workers : Runs(w) => wjob[w] = Head(jobs[RankOf(wjob[w])])
  /\ \A q \in Queues : \A i \in 1 .. Len(list[q]) : list[q][i] = Head(jobs[RankOf(list[q][i])])
  /\ \A w \in Workers : wpc[w] \in {"signal", "drainsig"} => job[wjob[w]].type = "sync"

LEMMA RunsHead ==
  ASSUME Inv, HeadInv, NEW w \in Workers, Runs(w)
  PROVE  /\ RankOf(wjob[w]) \in Ranks /\ BusyOn(w, RankOf(wjob[w])) /\ ~Draining(w) /\ wjob[w] \in Slots
         /\ jobs[RankOf(wjob[w])] # <<>> /\ wjob[w] = Head(jobs[RankOf(wjob[w])])
         /\ wjob[w] \in Elems(jobs[RankOf(wjob[w])])
<1>1. wjob[w] \in Slots /\ RankOf(wjob[w]) \in Ranks
  BY SlotRank DEF Inv, Typed
<1>2. BusyOn(w, RankOf(wjob[w])) /\ ~Draining(w)
  BY DEF Runs, BusyOn, Busy, Draining
<1>3. jobs[RankOf(wjob[w])] # <<>> /\ jobs[RankOf(wjob[w])] \in Seq(Slots)
  BY <1>1, <1>2 DEF Inv, Carried, Typed
<1>4. wjob[w] = Head(jobs[RankOf(wjob[w])])
  BY DEF HeadInv
<1>5. PICK s : s = jobs[RankOf(wjob[w])]
  OBVIOUS
<1>6. s \in Seq(Slots) /\ s # <<>> /\ wjob[w] = Head(s)
  BY <1>3, <1>4, <1>5
<1>7. Head(s) = s[1] /\ 1 \in 1 .. Len(s)
  BY <1>6
<1>8. wjob[w] \in Elems(s)
  BY <1>6, <1>7 DEF Elems
<1> QED BY <1>1, <1>2, <1>3, <1>4, <1>5, <1>8

\* The FIFO of rank r changes; nobody but w runs it and it is in no queue.
LEMMA HeadKept ==
  ASSUME Inv, HeadInv, NEW w \in Workers, NEW r \in Ranks, BusyOn(w, r),
         \A x \in Ranks \ {r} : jobs'[x] = jobs[x], UNCHANGED <<list, job>>,
         \A v \in Workers \ {w} : wjob'[v] = wjob[v] /\ wpc'[v] = wpc[v],
         Runs(w)' => wjob'[w] = Head(jobs'[RankOf(wjob'[w])]),
         wpc'[w] \in {"signal", "drainsig"} => job[wjob'[w]].type = "sync"
  PROVE  HeadInv'
<1>1. ASSUME NEW v \in Workers, Runs(v)' PROVE wjob'[v] = Head(jobs'[RankOf(wjob'[v])])
  <2>1. CASE v = w
    BY <1>1, <2>1
  <2>2. CASE v # w
    <3>1. wjob'[v] = wjob[v] /\ Runs(v)
      BY <1>1, <2>2 DEF Runs
    <3>2. RankOf(wjob[v]) \in Ranks /\ BusyOn(v, RankOf(wjob[v])) /\ wjob[v] = Head(jobs[RankOf(wjob[v])])
      BY <3>1, RunsHead
    <3>3. RankOf(wjob[v]) # r
      BY <2>2, <3>2 DEF Inv, Carried
    <3> QED BY <3>1, <3>2, <3>3
  <2> QED BY <2>1, <2>2
<1>2. ASSUME NEW q \in Queues, NEW i \in 1 .. Len(list[q]) PROVE list[q][i] = Head(jobs'[RankOf(list[q][i])])
  <2>1. list[q] \in Seq(Slots) /\ list[q][i] \in Slots
    BY DEF Inv, Typed
  <2>2. RankOf(list[q][i]) \in Ranks /\ Listed(RankOf(list[q][i]))
    BY <2>1, SlotRank DEF Listed
  <2>3. RankOf(list[q][i]) # r
    BY <2>2 DEF Inv, Carried
  <2> QED BY <2>2, <2>3 DEF HeadInv
<1>3. ASSUME NEW v \in Workers, wpc'[v] \in {"signal", "drainsig"} PROVE job'[wjob'[v]].type = "sync"
  BY <1>3 DEF HeadInv
<1> QED BY <1>1, <1>2, <1>3 DEF HeadInv, Runs

\* Steps that leave the FIFOs alone.
LEMMA HeadSame ==
  ASSUME Inv, HeadInv, UNCHANGED <<jobs, list, job>>,
         \A v \in Workers : Runs(v)' => Runs(v) /\ wjob'[v] = wjob[v],
         \A v \in Workers : wpc'[v] \in {"signal", "drainsig"} => job[wjob'[v]].type = "sync"
  PROVE  HeadInv'
<1>1. ASSUME NEW v \in Workers, Runs(v)' PROVE wjob'[v] = Head(jobs'[RankOf(wjob'[v])])
  BY <1>1 DEF HeadInv
<1>2. ASSUME NEW v \in Workers, wpc'[v] \in {"signal", "drainsig"} PROVE job'[wjob'[v]].type = "sync"
  BY <1>2
<1>3. \A q \in Queues : \A i \in 1 .. Len(list'[q]) : list'[q][i] = Head(jobs'[RankOf(list'[q][i])])
  BY DEF HeadInv
<1> QED BY <1>1, <1>2, <1>3 DEF HeadInv, Runs

LEMMA HeadWorkerPlain ==
  ASSUME Inv, HeadInv, NEW w \in Workers,
         \/ WorkerStop(w) \/ WorkerWait(w) \/ WorkerLock(w) \/ \E ok \in BOOLEAN : ComputeWork(w, ok)
         \/ ComputeSync(w) \/ Signal(w) \/ UpdateStatus(w) \/ DrainSignal(w) \/ DrainDone(w)
  PROVE  HeadInv'
<1>1. UNCHANGED <<jobs, list, job>>
  BY DEF WorkerStop, WorkerWait, WorkerLock, ComputeWork, ComputeSync, Signal, UpdateStatus, DrainSignal, DrainDone, fifo
<1>2. wjob \in [Workers -> Slots] /\ wpc \in [Workers -> WorkerPC]
  BY DEF Inv, Typed
<1>3. PICK pc \in WorkerPC :
         /\ WGoto(w, pc) /\ pc # "lock" /\ pc # "drainsig"
         /\ pc \in {"compute", "advance", "signal", "update"} =>
              wpc[w] \in {"lock", "compute", "signal"} /\ wjob' = wjob
         /\ pc = "signal" => job[wjob[w]].type = "sync"
  <2>1. CASE WorkerStop(w) \/ WorkerWait(w) \/ UpdateStatus(w) \/ DrainSignal(w) \/ DrainDone(w)
    <3>1. WGoto(w, "done") \/ WGoto(w, "wait") \/ WGoto(w, "drain") \/ WGoto(w, "main")
      BY <2>1 DEF WorkerStop, WorkerWait, UpdateStatus, DrainSignal, DrainDone, MainLoop
    <3> QED BY <3>1, WorkerPCs
  <2>2. CASE WorkerLock(w) \/ (\E ok \in BOOLEAN : ComputeWork(w, ok)) \/ Signal(w)
    <3>1. WGoto(w, "compute") \/ WGoto(w, "advance") \/ WGoto(w, "update")
      BY <2>2 DEF WorkerLock, ComputeWork, Signal
    <3>2. wpc[w] \in {"lock", "compute", "signal"} /\ wjob' = wjob
      BY <2>2 DEF WorkerLock, ComputeWork, Signal, wrk
    <3> QED BY <3>1, <3>2, WorkerPCs
  <2>3. CASE ComputeSync(w)
    <3>1. WGoto(w, "signal") \/ WGoto(w, "advance")
      BY <2>3 DEF ComputeSync
    <3>2. wpc[w] = "compute" /\ wjob' = wjob /\ job[wjob[w]].type = "sync"
      BY <2>3 DEF ComputeSync, wrk
    <3> QED BY <3>1, <3>2, WorkerPCs
  <2> QED BY <2>1, <2>2, <2>3
<1>4. wpc'[w] = pc /\ \A v \in Workers \ {w} : wpc'[v] = wpc[v]
  BY <1>3, WGotoFacts
<1>5. \A v \in Workers \ {w} : wjob'[v] = wjob[v]
  BY <1>2 DEF WorkerStop, WorkerWait, WorkerLock, ComputeWork, ComputeSync, Signal, UpdateStatus, DrainSignal,
              DrainDone, MainLoop, wrk
<1>6. ASSUME NEW v \in Workers, Runs(v)' PROVE Runs(v) /\ wjob'[v] = wjob[v]
  BY <1>3, <1>4, <1>5, <1>6 DEF Runs
<1>7. ASSUME NEW v \in Workers, wpc'[v] \in {"signal", "drainsig"} PROVE job[wjob'[v]].type = "sync"
  BY <1>3, <1>4, <1>5, <1>7 DEF HeadInv
<1> QED BY <1>1, <1>6, <1>7, HeadSame

LEMMA HeadTake ==
  ASSUME Inv, HeadInv, NEW w \in Workers, WorkerTake(w)
  PROVE  HeadInv'
<1>1. PICK q \in Queues : q = QueueOf(w)
  BY RanksAssumption DEF QueueOf
<1>2. /\ list[q] # <<>> /\ wjob' = [wjob EXCEPT ![w] = Head(list[q])]
      /\ list' = [list EXCEPT ![q] = Tail(list[q])] /\ WGoto(w, "lock") /\ UNCHANGED <<jobs, job>>
  BY <1>1 DEF WorkerTake
<1>3. wjob \in [Workers -> Slots] /\ list \in [Queues -> Seq(Slots)]
  BY DEF Inv, Typed
<1>4. /\ list[q] \in Seq(Slots) /\ Head(list[q]) = list[q][1] /\ 1 \in 1 .. Len(list[q])
      /\ Tail(list[q]) \in Seq(Slots) /\ Len(Tail(list[q])) = Len(list[q]) - 1 /\ Len(list[q]) \in Nat
      /\ \A i \in 1 .. Len(Tail(list[q])) : Tail(list[q])[i] = list[q][i + 1]
  BY <1>2, <1>3
<1>5. wpc'[w] = "lock" /\ \A v \in Workers \ {w} : wpc'[v] = wpc[v]
  BY <1>2, WGotoFacts, WorkerPCs
<1>6. wjob'[w] = list[q][1] /\ \A v \in Workers \ {w} : wjob'[v] = wjob[v]
  BY <1>2, <1>3, <1>4
<1>7. list'[q] = Tail(list[q]) /\ \A p \in Queues \ {q} : list'[p] = list[p]
  BY <1>2, <1>3
<1>8. list[q][1] = Head(jobs[RankOf(list[q][1])])
  BY <1>4 DEF HeadInv
<1>9. ASSUME NEW v \in Workers, Runs(v)' PROVE wjob'[v] = Head(jobs'[RankOf(wjob'[v])])
  <2>1. CASE v = w
    BY <1>2, <1>6, <1>8, <2>1
  <2>2. CASE v # w
    BY <1>2, <1>5, <1>6, <1>9, <2>2 DEF HeadInv, Runs
  <2> QED BY <2>1, <2>2
<1>10. ASSUME NEW p \in Queues, NEW i \in 1 .. Len(list'[p]) PROVE list'[p][i] = Head(jobs'[RankOf(list'[p][i])])
  <2>1. CASE p = q
    <3>1. list'[p][i] = list[q][i + 1] /\ i + 1 \in 1 .. Len(list[q])
      <4>1. PICK t, n : t = Tail(list[q]) /\ n = Len(list[q])
        OBVIOUS
      <4>2. list'[p] = t /\ Len(t) = n - 1 /\ n \in Nat
        BY <1>4, <1>7, <2>1, <4>1
      <4>3. i \in 1 .. Len(t)
        BY <4>2
      <4>4. t[i] = list[q][i + 1] /\ i + 1 \in 1 .. n
        BY <1>4, <4>1, <4>2, <4>3
      <4> QED BY <4>1, <4>2, <4>4
    <3>2. PICK k \in 1 .. Len(list[q]) : list'[p][i] = list[q][k]
      BY <3>1
    <3>3. list[q][k] = Head(jobs[RankOf(list[q][k])])
      BY DEF HeadInv
    <3> QED BY <1>2, <3>2, <3>3
  <2>2. CASE p # q
    BY <1>2, <1>7, <2>2 DEF HeadInv
  <2> QED BY <2>1, <2>2
<1>11. ASSUME NEW v \in Workers, wpc'[v] \in {"signal", "drainsig"} PROVE job'[wjob'[v]].type = "sync"
  BY <1>2, <1>5, <1>6, <1>11 DEF HeadInv
<1> QED BY <1>9, <1>10, <1>11 DEF HeadInv, Runs

LEMMA HeadAdvance ==
  ASSUME Inv, HeadInv, NEW w \in Workers, Advance(w) \/ Drain(w) \/ DrainSync(w)
  PROVE  HeadInv'
<1>1. wjob \in [Workers -> Slots] /\ wpc \in [Workers -> WorkerPC] /\ jobs \in [Ranks -> Seq(Slots)]
  BY DEF Inv, Typed
<1>2. PICK r \in Ranks : r = RankOf(wjob[w])
  BY <1>1, SlotRank
<1>3. wpc[w] \in {"advance", "drain"} /\ BusyOn(w, r)
  BY <1>2 DEF Advance, Drain, DrainSync, BusyOn, Busy
<1>4. jobs[r] # <<>>
  <2>1. CASE Advance(w)
    BY <1>2, <1>3, <2>1 DEF Advance, Draining, Inv, Carried
  <2> QED BY <1>2, <2>1 DEF Drain, DrainSync
<1>5. /\ jobs' = [jobs EXCEPT ![r] = Tail(jobs[r])] /\ UNCHANGED <<list, job>>
  BY <1>2 DEF Advance, Drain, DrainSync
<1>6. jobs'[r] = Tail(jobs[r]) /\ \A x \in Ranks \ {r} : jobs'[x] = jobs[x]
  BY <1>1, <1>5
<1>7. Head(jobs[r]) \in Slots /\ RankOf(Head(jobs[r])) = r
      /\ (Tail(jobs[r]) # <<>> => RankOf(Head(Tail(jobs[r]))) = r)
  BY <1>4, FirstOfFifo
<1>8. /\ \A v \in Workers \ {w} : wjob'[v] = wjob[v] /\ wpc'[v] = wpc[v]
      /\ Runs(w)' => wjob'[w] = Head(jobs'[RankOf(wjob'[w])])
      /\ wpc'[w] \in {"signal", "drainsig"} => job[wjob'[w]].type = "sync"
  <2>1. CASE Advance(w)
    <3>1. \/ WGoto(w, "main") /\ wjob' = [wjob EXCEPT ![w] = AnySlot]
          \/ /\ Tail(jobs[r]) # <<>> /\ WGoto(w, "compute")
             /\ wjob' = [wjob EXCEPT ![w] = Head(Tail(jobs[r]))]
      BY <1>2, <2>1 DEF Advance, MainLoop
    <3>2. CASE WGoto(w, "main") /\ wjob' = [wjob EXCEPT ![w] = AnySlot]
      <4>1. wpc'[w] = "main" /\ \A v \in Workers \ {w} : wpc'[v] = wpc[v]
        BY <3>2, WGotoFacts, WorkerPCs
      <4> QED BY <1>1, <3>2, <4>1 DEF Runs
    <3>3. CASE Tail(jobs[r]) # <<>> /\ WGoto(w, "compute") /\ wjob' = [wjob EXCEPT ![w] = Head(Tail(jobs[r]))]
      <4>1. wpc'[w] = "compute" /\ \A v \in Workers \ {w} : wpc'[v] = wpc[v]
        BY <3>3, WGotoFacts, WorkerPCs
      <4>2. wjob'[w] = Head(Tail(jobs[r])) /\ \A v \in Workers \ {w} : wjob'[v] = wjob[v]
        BY <1>1, <3>3
      <4> QED BY <1>6, <1>7, <3>3, <4>1, <4>2
    <3> QED BY <3>1, <3>2, <3>3
  <2>2. CASE Drain(w)
    <3>1. UNCHANGED <<wpc, wjob>> /\ wpc[w] = "drain"
      BY <2>2 DEF Drain, wrk
    <3> QED BY <3>1 DEF Runs
  <2>3. CASE DrainSync(w)
    <3>1. /\ wpc[w] = "drain" /\ job[Head(jobs[r])].type = "sync"
          /\ \/ WGoto(w, "drainsig") /\ wjob' = [wjob EXCEPT ![w] = Head(jobs[r])]
             \/ UNCHANGED <<wpc, wjob>>
      BY <1>2, <2>3 DEF DrainSync
    <3>2. CASE UNCHANGED <<wpc, wjob>>
      BY <3>1, <3>2 DEF Runs
    <3>3. CASE WGoto(w, "drainsig") /\ wjob' = [wjob EXCEPT ![w] = Head(jobs[r])]
      <4>1. wpc'[w] = "drainsig" /\ \A v \in Workers \ {w} : wpc'[v] = wpc[v]
        BY <3>3, WGotoFacts, WorkerPCs
      <4>2. wjob'[w] = Head(jobs[r]) /\ \A v \in Workers \ {w} : wjob'[v] = wjob[v]
        BY <1>1, <3>3
      <4> QED BY <3>1, <4>1, <4>2 DEF Runs
    <3> QED BY <3>1, <3>2, <3>3
  <2> QED BY <2>1, <2>2, <2>3
<1> QED BY <1>3, <1>5, <1>6, <1>8, HeadKept

LEMMA HeadCallerPlain ==
  ASSUME Inv, HeadInv, NEW c \in Callers,
         \/ GetJob(c) \/ GetWait(c) \/ GetFail(c) \/ Unget(c) \/ UngetDone(c) \/ DoJobs(c) \/ AddDone(c)
         \/ WaitSync(c) \/ ClearError(c) \/ Join(c)
         \/ (\E S \in Allocated : Free(c, S))
         \/ (\E op \in Ops, S \in Sets : Call(c, op, S))
  PROVE  HeadInv'
<1>1. UNCHANGED <<jobs, list, job, wjob>>
  BY DEF GetJob, GetWait, GetFail, Unget, UngetDone, DoJobs, AddDone, WaitSync, ClearError, Join, Free, Call, fifo, wrk
<1>2. wpc' = wpc \/ \E Q : wpc' = Broadcast(Q, wpc)
  BY DEF GetJob, GetWait, GetFail, Unget, UngetDone, DoJobs, AddDone, WaitSync, ClearError, Join, Free, Call
<1>3. wpc \in [Workers -> WorkerPC]
  BY DEF Inv, Typed
<1>4. \A w \in Workers : wpc'[w] = wpc[w] \/ (wpc[w] = "wait" /\ wpc'[w] = "main")
  BY <1>2, <1>3, BroadcastWakes
<1>5. \A v \in Workers : Runs(v)' => Runs(v) /\ wjob'[v] = wjob[v]
  BY <1>1, <1>4 DEF Runs
<1>6. \A v \in Workers : wpc'[v] \in {"signal", "drainsig"} => job[wjob'[v]].type = "sync"
  BY <1>1, <1>4 DEF HeadInv
<1> QED BY <1>1, <1>5, <1>6, HeadSame

\* The slots a caller fills are in no FIFO and with no worker.
LEMMA GotApart ==
  ASSUME Inv, SlotInv, HeadInv, NEW c \in Callers, NEW s \in Elems(got[c])
  PROVE  /\ \A r \in Ranks : s \notin Elems(jobs[r])
         /\ \A d \in Callers : d # c => s \notin Elems(got[d])
         /\ \A w \in Workers : Runs(w) \/ wpc[w] = "drainsig" => wjob[w] # s
<1>1. <<"caller", c>> \in Homes /\ s \in Content(<<"caller", c>>)
  BY ContentIs
<1>2. ASSUME NEW r \in Ranks PROVE s \notin Elems(jobs[r])
  <2>1. /\ <<"fifo", r>> \in Homes /\ Content(<<"fifo", r>>) = Elems(jobs[r])
        /\ <<"fifo", r>> # <<"caller", c>>
    BY ContentIs
  <2> QED BY <1>1, <2>1 DEF SlotInv, Apart
<1>3. ASSUME NEW d \in Callers, d # c PROVE s \notin Elems(got[d])
  <2>1. /\ <<"caller", d>> \in Homes /\ Content(<<"caller", d>>) = Elems(got[d])
        /\ <<"caller", d>> # <<"caller", c>>
    BY <1>3, ContentIs
  <2> QED BY <1>1, <2>1 DEF SlotInv, Apart
<1>4. ASSUME NEW w \in Workers, Runs(w) PROVE wjob[w] # s
  BY <1>2, <1>4, RunsHead
<1>5. ASSUME NEW w \in Workers, wpc[w] = "drainsig" PROVE wjob[w] # s
  <2>1. /\ <<"worker", w>> \in Homes /\ Content(<<"worker", w>>) = {wjob[w]}
        /\ <<"worker", w>> # <<"caller", c>>
    BY <1>5, ContentIs
  <2> QED BY <1>1, <2>1 DEF SlotInv, Apart
<1> QED BY <1>2, <1>3, <1>4, <1>5

LEMMA HeadSetJobs ==
  ASSUME Inv, SlotInv, HeadInv, NEW c \in Callers, SetJobs(c)
  PROVE  HeadInv'
<1>1. /\ UNCHANGED <<jobs, list, wpc, wjob>>
      /\ job' = [s \in Slots |-> IF s \in Elems(got[c]) THEN Filled(c, s) ELSE job[s]]
  BY DEF SetJobs, wrk
<1>2. ASSUME NEW w \in Workers, wpc[w] \in {"signal", "drainsig"} PROVE job'[wjob[w]].type = "sync"
  <2>1. wjob[w] \in Slots /\ job[wjob[w]].type = "sync"
    BY <1>2 DEF Inv, Typed, HeadInv
  <2>2. wjob[w] \notin Elems(got[c])
    BY <1>2, GotApart DEF Runs
  <2> QED BY <1>1, <2>1, <2>2
<1> QED BY <1>1, <1>2 DEF HeadInv, Runs

\* The first element of a sequence that grows.
LEMMA HeadOfConcat ==
  ASSUME NEW S, NEW s \in Seq(S), NEW h \in Seq(S), h # <<>>
  PROVE  Head(s \o h) = IF s = <<>> THEN h[1] ELSE Head(s)
<1>1. CASE s = <<>>
  <2>1. s \o h = h
    BY <1>1
  <2> QED BY <1>1, <2>1
<1>2. CASE s # <<>>
  <2>1. s \o h \in Seq(S) /\ (s \o h)[1] = s[1] /\ Len(s \o h) > 0
    BY <1>2
  <2> QED BY <1>2, <2>1
<1> QED BY <1>1, <1>2

LEMMA HeadAdd ==
  ASSUME Inv, SlotInv, HeadInv, NEW c \in Callers, AddJobs(c) \/ AddFirst(c)
  PROVE  HeadInv'
<1>1. cpc[c] \in {"add", "addq"} /\ got[c] # <<>>
  BY DEF AddJobs, AddFirst, Inv, Entering
<1>2. PICK r \in Ranks : r = RankOf(got[c][1])
  BY <1>1, HeadSlots
<1>3. UNCHANGED <<job, wpc, wjob>>
  BY DEF AddJobs, AddFirst, wrk
<1>4. CASE UNCHANGED <<jobs, list>>
  <2>1. \A v \in Workers : Runs(v)' => Runs(v) /\ wjob'[v] = wjob[v]
    BY <1>3 DEF Runs
  <2>2. \A v \in Workers : wpc'[v] \in {"signal", "drainsig"} => job[wjob'[v]].type = "sync"
    BY <1>3 DEF HeadInv
  <2> QED BY <1>3, <1>4, <2>1, <2>2, HeadSame
<1>5. CASE /\ jobs' = [jobs EXCEPT ![r] = jobs[r] \o Taken(c)]
           /\ \/ list' = list /\ jobs[r] # <<>>
              \/ jobs[r] = <<>> /\ list' = [list EXCEPT ![QueueIdx[r]] = Append(@, got[c][1])]
  <2>1. /\ jobs \in [Ranks -> Seq(Slots)] /\ list \in [Queues -> Seq(Slots)] /\ QueueIdx[r] \in Queues
    BY RanksAssumption DEF Inv, Typed
  <2>2. Taken(c) \in Seq(Slots) /\ Taken(c) # <<>> /\ Taken(c)[1] = got[c][1] /\ got[c][1] \in Slots
    <3>1. cpc[c] \in {"unget", "add", "addq"}
      BY <1>1
    <3>2. Taken(c) \in Seq(Slots) /\ Len(Taken(c)) = call[c].nj /\ Taken(c)[1] = got[c][1]
      BY <1>1, <3>1, HeadCut
    <3>3. call[c].nj \in {1, 2} /\ got[c][1] \in Slots
      BY <1>1, <3>1, HeadSlots
    <3> QED BY <3>2, <3>3
  <2>3. jobs'[r] = jobs[r] \o Taken(c) /\ \A x \in Ranks \ {r} : jobs'[x] = jobs[x]
    BY <1>5, <2>1
  <2>4. Head(jobs'[r]) = IF jobs[r] = <<>> THEN got[c][1] ELSE Head(jobs[r])
    BY <2>1, <2>2, <2>3, HeadOfConcat
  <2>5. ASSUME NEW x \in Ranks, jobs[x] # <<>> PROVE Head(jobs'[x]) = Head(jobs[x])
    BY <2>3, <2>4, <2>5
  <2>6. ASSUME NEW v \in Workers, Runs(v)' PROVE wjob'[v] = Head(jobs'[RankOf(wjob'[v])])
    <3>1. Runs(v) /\ wjob'[v] = wjob[v]
      BY <1>3, <2>6 DEF Runs
    <3>2. RankOf(wjob[v]) \in Ranks /\ jobs[RankOf(wjob[v])] # <<>> /\ wjob[v] = Head(jobs[RankOf(wjob[v])])
      BY <3>1, RunsHead
    <3> QED BY <2>5, <3>1, <3>2
  <2>7. ASSUME NEW q \in Queues, NEW i \in 1 .. Len(list[q])
        PROVE  list[q][i] = Head(jobs'[RankOf(list[q][i])])
    <3>1. list[q][i] \in Slots
      BY <2>1
    <3>2. RankOf(list[q][i]) \in Ranks /\ Listed(RankOf(list[q][i]))
      BY <3>1, SlotRank DEF Listed
    <3>3. jobs[RankOf(list[q][i])] # <<>>
      BY <3>2 DEF Inv, Carried
    <3>4. list[q][i] = Head(jobs[RankOf(list[q][i])])
      BY DEF HeadInv
    <3> QED BY <2>5, <3>2, <3>3, <3>4
  <2>8. ASSUME NEW q \in Queues, NEW i \in 1 .. Len(list'[q])
        PROVE  list'[q][i] = Head(jobs'[RankOf(list'[q][i])])
    <3>1. CASE list'[q] = list[q]
      BY <2>7, <3>1
    <3>2. CASE list'[q] # list[q]
      <4>1. jobs[r] = <<>> /\ list'[q] = Append(list[q], got[c][1])
        BY <1>5, <2>1, <3>2
      <4>2. CASE i \in 1 .. Len(list[q])
        <5>1. list'[q][i] = list[q][i]
          BY <2>1, <2>2, <4>1, <4>2
        <5> QED BY <2>7, <4>2, <5>1
      <4>3. CASE i \notin 1 .. Len(list[q])
        <5>1. list'[q][i] = got[c][1]
          BY <2>1, <2>2, <4>1, <4>3
        <5> QED BY <1>2, <2>4, <4>1, <5>1
      <4> QED BY <4>2, <4>3
    <3> QED BY <3>1, <3>2
  <2>9. ASSUME NEW v \in Workers, wpc'[v] \in {"signal", "drainsig"} PROVE job'[wjob'[v]].type = "sync"
    BY <1>3, <2>9 DEF HeadInv
  <2> QED BY <2>6, <2>8, <2>9 DEF HeadInv, Runs
<1>6. \/ UNCHANGED <<jobs, list>>
      \/ /\ jobs' = [jobs EXCEPT ![r] = jobs[r] \o Taken(c)]
         /\ \/ list' = list /\ jobs[r] # <<>>
            \/ jobs[r] = <<>> /\ list' = [list EXCEPT ![QueueIdx[r]] = Append(@, got[c][1])]
  <2>1. CASE AddJobs(c)
    BY <1>2, <2>1 DEF AddJobs, Taken, EntersQueue, FirstJob
  <2>2. CASE AddFirst(c)
    <3>1. jobs[r] = <<>>
      BY <1>2, <2>2 DEF AddFirst, Inv, Entering
    <3> QED BY <1>2, <2>2, <3>1 DEF AddFirst, Taken, FirstJob
  <2> QED BY <2>1, <2>2
<1> QED BY <1>4, <1>5, <1>6

-----------------------------------------------------------------------------
(* The counter of a synchronous call                                       *)

\* A SYNC job whose decrement has been done is still the first of its FIFO.
Counted(s) == \E w \in Workers : wjob[w] = s /\ wpc[w] \in {"advance", "signal"}

\* The SYNC jobs of a caller that are still to be counted: queued, or about to be.
Queue(c) ==
  {s \in Slots : /\ s \in Elems(jobs[RankOf(s)]) /\ ~Counted(s)
                 /\ job[s].type = "sync" /\ job[s].owner = c}
Hold(c) == IF cpc[c] \in {"do", "add", "addq"} THEN {s \in Elems(got[c]) : job[s].type = "sync"} ELSE {}
Pend(c) == Queue(c) \cup Hold(c)

\* Worker w has done the last decrement and is about to signal caller c.
Signals(w, c) == wpc[w] \in {"signal", "drainsig"} /\ job[wjob[w]].owner = c

\* Every job of the caller in the FIFO is followed by a SYNC job of the caller.
Ordered(r, c) ==
  \A i \in 1 .. Len(jobs[r]) : job[jobs[r][i]].owner = c /\ job[jobs[r][i]].type # "sync" =>
    \E j \in 1 .. Len(jobs[r]) : j > i /\ job[jobs[r][j]].owner = c /\ job[jobs[r][j]].type = "sync"

Has(c, r) == \E i \in 1 .. Len(got[c]) : RankOf(got[c][i]) = r

\* dpu_sync asks for one slot per rank, another synchronous call for two.
CallShape(c) ==
  /\ cpc[c] \in {"get", "waitget", "set", "do", "add", "addq"} =>
       /\ call[c].op.sync /\ call[c].nj = 1 <=> call[c].op.type = "sync"
       /\ call[c].nj = 2 => call[c].op.sync
  /\ cpc[c] \in {"wait", "woken"} => call[c].op.sync /\ got[c] = <<>>
\* The call has slots of every rank it is past.
Covers(c) ==
  /\ cpc[c] \in {"get", "waitget"} => \A i \in 1 .. cidx[c] - 1 : Has(c, call[c].ranks[i])
  /\ cpc[c] \in {"set", "do"} =>
       /\ Len(got[c]) = Len(call[c].ranks) * call[c].nj
       /\ \A i \in 1 .. Len(call[c].ranks) : Has(c, call[c].ranks[i])
\* What the slots of the call hold.
Marked(c) ==
  cpc[c] \in {"do", "add", "addq"} => \A i \in 1 .. Len(got[c]) :
    /\ job[got[c][i]].owner = c
    /\ job[got[c][i]].type = "sync" <=> call[c].op.sync /\ (call[c].nj = 1 \/ SyncSlot(i))
\* The counter is the number of SYNC jobs to come.
Counts(c) ==
  /\ cpc[c] \in {"get", "waitget", "set"} /\ call[c].op.sync => sync[c].nr = Len(call[c].ranks)
  /\ cpc[c] \in {"do", "add", "addq", "wait"} /\ call[c].op.sync =>
       IsFiniteSet(Pend(c)) /\ sync[c].nr = Cardinality(Pend(c))
  /\ cpc[c] = "woken" => sync[c].nr = 0
  /\ cpc[c] \in {"get", "waitget", "set", "do", "add", "addq"} /\ call[c].op.sync => syncMutex[c] = c
\* Who reaches the sync object.
Reached(c) ==
  /\ Queue(c) # {} => call[c].op.sync /\ cpc[c] \in {"add", "addq", "wait"}
  /\ \A w \in Workers : Signals(w, c) =>
       /\ call[c].op.sync /\ cpc[c] \in {"add", "addq", "wait"} /\ Pend(c) = {}
       /\ \A v \in Workers : Signals(v, c) => v = w
Orders(c) ==
  cpc[c] \in {"add", "addq", "wait", "woken"} /\ call[c].op.sync =>
    \A i \in 1 .. Len(call[c].ranks) : Has(c, call[c].ranks[i]) \/ Ordered(call[c].ranks[i], c)

SyncInv(c) == CallShape(c) /\ Covers(c) /\ Marked(c) /\ Counts(c) /\ Reached(c) /\ Orders(c)

\* What a signal on available_jobs_cond may do to a caller.
Stays(a, b) ==
  \/ b = a
  \/ a = "waitget" /\ b = "get"
  \/ a = "waitmaster" /\ b = "master"

LEMMA SlotSignalStays ==
  ASSUME Inv, NEW s, NEW pcs \in SlotSignal(s)
  PROVE  \A c \in Callers : Stays(cpc[c], pcs[c])
<1>1. cpc \in [Callers -> CallerPC]
  BY DEF Inv, Typed
<1>2. CASE pcs = cpc
  BY <1>2 DEF Stays
<1>3. ASSUME NEW d \in SlotWaiters(RankOf(s)), pcs = [cpc EXCEPT ![d] = Resumed(d)]
      PROVE  \A c \in Callers : Stays(cpc[c], pcs[c])
  <2>1. d \in Callers /\ cpc[d] \in {"waitget", "waitmaster"}
    BY DEF SlotWaiters
  <2>2. Stays(cpc[d], Resumed(d))
    BY <2>1 DEF Resumed, Stays
  <2>3. \A c \in Callers : pcs[c] = IF c = d THEN Resumed(d) ELSE cpc[c]
    BY <1>1, <1>3, <2>1
  <2> QED BY <2>2, <2>3 DEF Stays
<1> QED BY <1>2, <1>3 DEF SlotSignal

\* A caller whose sync object is left alone.
LEMMA SyncFrame ==
  ASSUME Inv, NEW c \in Callers, SyncInv(c), Stays(cpc[c], cpc'[c]),
         call'[c] = call[c], cidx'[c] = cidx[c], got'[c] = got[c],
         sync'[c] = sync[c], syncMutex'[c] = syncMutex[c],
         cpc[c] \in {"do", "add", "addq"} => \A i \in 1 .. Len(got[c]) : job'[got[c][i]] = job[got[c][i]],
         Queue(c)' = Queue(c), \A w \in Workers : Signals(w, c)' => Signals(w, c),
         \A r \in Ranks : Ordered(r, c) => Ordered(r, c)'
  PROVE  SyncInv(c)'
<1>1. \A r : Has(c, r)' <=> Has(c, r)
  BY DEF Has
<1>2. call[c].ranks \in Seq(Ranks)
  BY CallTypes
<1>3. CallShape(c)' /\ Covers(c)' /\ Orders(c)'
  <2>1. CallShape(c)'
    BY DEF SyncInv, CallShape, Stays
  <2>2. Covers(c)'
    BY <1>1 DEF SyncInv, Covers, Stays
  <2>3. Orders(c)'
    BY <1>1, <1>2 DEF SyncInv, Orders, Stays
  <2> QED BY <2>1, <2>2, <2>3
<1>4. Marked(c)'
  BY DEF SyncInv, Marked, Stays
<1>5. Hold(c)' = Hold(c)
  <2>1. CASE cpc[c] \in {"do", "add", "addq"}
    BY <2>1 DEF Hold, Elems, Stays
  <2>2. CASE cpc[c] \notin {"do", "add", "addq"}
    BY <2>2 DEF Hold, Stays
  <2> QED BY <2>1, <2>2
<1>6. Pend(c)' = Pend(c)
  BY <1>5 DEF Pend
<1>7. Counts(c)'
  BY <1>6 DEF SyncInv, Counts, Stays
<1>8. Reached(c)'
  BY <1>6 DEF SyncInv, Reached, Stays
<1> QED BY <1>3, <1>4, <1>7, <1>8 DEF SyncInv

\* FIFOs and what their jobs are: how Ordered is kept.
LEMMA OrderedSame ==
  ASSUME NEW r, NEW c, Ordered(r, c), jobs'[r] = jobs[r],
         \A i \in 1 .. Len(jobs[r]) : job'[jobs[r][i]] = job[jobs[r][i]]
  PROVE  Ordered(r, c)'
BY DEF Ordered

LEMMA OrderedTail ==
  ASSUME Inv, NEW r \in Ranks, NEW c, Ordered(r, c), jobs[r] # <<>>, jobs'[r] = Tail(jobs[r]), job' = job
  PROVE  Ordered(r, c)'
<1>1. PICK s : s = jobs[r]
  OBVIOUS
<1>2. s \in Seq(Slots) /\ s # <<>>
  BY <1>1 DEF Inv, Typed
<1>3. /\ Len(Tail(s)) = Len(s) - 1 /\ Len(s) \in Nat
      /\ \A i \in 1 .. Len(Tail(s)) : Tail(s)[i] = s[i + 1]
  BY <1>2
<1>4. PICK t : t = Tail(s)
  OBVIOUS
<1>10. jobs'[r] = t /\ job' = job
  BY <1>1, <1>4
<1> SUFFICES ASSUME NEW i \in 1 .. Len(jobs'[r]), job'[jobs'[r][i]].owner = c, job'[jobs'[r][i]].type # "sync"
             PROVE  \E j \in 1 .. Len(jobs'[r]) :
                      j > i /\ job'[jobs'[r][j]].owner = c /\ job'[jobs'[r][j]].type = "sync"
  BY Zenon DEF Ordered
<1>11. i \in 1 .. Len(t) /\ job[t[i]].owner = c /\ job[t[i]].type # "sync"
  BY <1>10
<1> SUFFICES \E j \in 1 .. Len(t) : j > i /\ job[t[j]].owner = c /\ job[t[j]].type = "sync"
  BY <1>10
<1>5. PICK k \in 1 .. Len(s) : k = i + 1
  BY <1>3, <1>4, <1>11
<1>6. s[k] = t[i]
  BY <1>3, <1>4, <1>5, <1>11
<1>7. PICK j \in 1 .. Len(s) : j > k /\ job[s[j]].owner = c /\ job[s[j]].type = "sync"
  BY <1>1, <1>6, <1>11 DEF Ordered
<1>8. PICK l \in 1 .. Len(t) : l + 1 = j
  <2>1. j - 1 \in 1 .. Len(t) /\ (j - 1) + 1 = j
    BY <1>3, <1>4, <1>5, <1>7
  <2> QED BY <2>1
<1>9. t[l] = s[j] /\ l > i
  BY <1>3, <1>4, <1>5, <1>7, <1>8, <1>11
<1> QED BY <1>7, <1>9

\* Jobs of another caller are appended, or jobs that end with a SYNC job.
LEMMA OrderedAppended ==
  ASSUME Inv, NEW r \in Ranks, NEW c, NEW h \in Seq(Slots), jobs'[r] = jobs[r] \o h, job' = job,
         \/ Ordered(r, c) /\ \A i \in 1 .. Len(h) : job[h[i]].owner # c
         \/ h # <<>> /\ job[h[Len(h)]].owner = c /\ job[h[Len(h)]].type = "sync"
  PROVE  Ordered(r, c)'
<1>1. PICK s, t : s = jobs[r] /\ t = s \o h
  OBVIOUS
<1>2. s \in Seq(Slots)
  BY <1>1 DEF Inv, Typed
<1>3. /\ Len(t) = Len(s) + Len(h) /\ Len(s) \in Nat /\ Len(h) \in Nat
      /\ \A i \in 1 .. Len(s) : t[i] = s[i]
      /\ \A i \in 1 .. Len(h) : t[Len(s) + i] = h[i]
  BY <1>1, <1>2
<1>7. jobs'[r] = t /\ job' = job
  BY <1>1
<1> SUFFICES ASSUME NEW i \in 1 .. Len(jobs'[r]), job'[jobs'[r][i]].owner = c, job'[jobs'[r][i]].type # "sync"
             PROVE  \E j \in 1 .. Len(jobs'[r]) :
                      j > i /\ job'[jobs'[r][j]].owner = c /\ job'[jobs'[r][j]].type = "sync"
  BY Zenon DEF Ordered
<1>11. i \in 1 .. Len(t) /\ job[t[i]].owner = c /\ job[t[i]].type # "sync"
  BY <1>7
<1> SUFFICES \E j \in 1 .. Len(t) : j > i /\ job[t[j]].owner = c /\ job[t[j]].type = "sync"
  BY <1>7
<1>4. i \in 1 .. Len(s) \/ \E k \in 1 .. Len(h) : i = Len(s) + k
  <2>1. i \notin 1 .. Len(s) => i - Len(s) \in 1 .. Len(h) /\ i = Len(s) + (i - Len(s))
    BY <1>3, <1>11
  <2> QED BY <2>1
<1>5. CASE Ordered(r, c) /\ \A k \in 1 .. Len(h) : job[h[k]].owner # c
  <2>1. i \in 1 .. Len(s) /\ s[i] = t[i]
    BY <1>3, <1>4, <1>5, <1>11
  <2>2. PICK j \in 1 .. Len(s) : j > i /\ job[s[j]].owner = c /\ job[s[j]].type = "sync"
    BY <1>1, <1>5, <2>1, <1>11 DEF Ordered
  <2>3. j \in 1 .. Len(t) /\ t[j] = s[j]
    BY <1>3
  <2> QED BY <2>2, <2>3
<1>6. CASE h # <<>> /\ job[h[Len(h)]].owner = c /\ job[h[Len(h)]].type = "sync"
  <2>1. Len(h) \in 1 .. Len(h) /\ Len(t) \in 1 .. Len(t)
    BY <1>3, <1>6
  <2>2. t[Len(t)] = h[Len(h)]
    BY <1>3, <2>1
  <2>3. i # Len(t)
    BY <1>6, <1>11, <2>2
  <2>4. Len(t) > i
    BY <1>3, <1>11, <2>3
  <2> QED BY <1>6, <2>1, <2>2, <2>4
<1> QED BY <1>5, <1>6


-----------------------------------------------------------------------------
(* What holds of every state that is not about one sync object             *)

Base == Inv /\ SlotInv /\ PlainInv /\ HeadInv

LEMMA BaseInit ==
  ASSUME NoCallbacks, Init
  PROVE  Base
<1>1. Inv /\ SlotInv
  BY InvInit, SlotsInit, NoCallbacksNoSingle, NoSingleNoParking
<1>2. sync \in [Callers -> [nr : Int, failed : BOOLEAN]]
  <2>1. [nr |-> 0, failed |-> FALSE] \in [nr : Int, failed : BOOLEAN]
    OBVIOUS
  <2> QED BY <2>1 DEF Init
<1>3. \A s \in Slots : job[s].type # "callback"
  BY DEF Init, NoJob
<1>4. \A w \in Workers : wpc[w] = "main"
  BY DEF Init
<1>5. PlainInv
  BY <1>2, <1>3, <1>4 DEF Init, PlainInv
<1>6. \A q \in Queues : Len(list[q]) = 0
  BY DEF Init
<1>7. \A q \in Queues : 1 .. Len(list[q]) = {}
  BY <1>6
<1>8. HeadInv
  BY <1>4, <1>7 DEF HeadInv, Runs
<1> QED BY <1>1, <1>5, <1>8 DEF Base

LEMMA BaseNext ==
  ASSUME NoCallbacks, Base, [Next]_vars
  PROVE  Base'
<1>1. Inv /\ SlotInv /\ PlainInv /\ HeadInv
  BY DEF Base
<1>2. Inv' /\ SlotInv'
  BY <1>1, InvNext, SlotsNext, NoCallbacksNoSingle, NoSingleNoParking
<1>3. CASE AllIdle
  BY <1>1, <1>2, <1>3 DEF Base, PlainInv, HeadInv, Runs, AllIdle, fifo, flags, locks, wrk
<1>4. ASSUME NEW w \in Workers, WorkerPlain(w) PROVE PlainInv' /\ HeadInv'
  <2>1. PlainInv'
    BY <1>1, <1>4, PlainWorker
  <2>2. CASE WorkerTake(w)
    BY <1>1, <2>1, <2>2, HeadTake
  <2>3. CASE Advance(w) \/ Drain(w) \/ DrainSync(w)
    BY <1>1, <2>1, <2>3, HeadAdvance
  <2>4. CASE \/ WorkerStop(w) \/ WorkerWait(w) \/ WorkerLock(w) \/ (\E ok \in BOOLEAN : ComputeWork(w, ok))
             \/ ComputeSync(w) \/ Signal(w) \/ UpdateStatus(w) \/ DrainSignal(w) \/ DrainDone(w)
    BY <1>1, <2>1, <2>4, HeadWorkerPlain
  <2> QED BY <1>4, <2>2, <2>3, <2>4 DEF WorkerPlain
<1>5. ASSUME NEW c \in Callers, CallerPlain(c) PROVE PlainInv' /\ HeadInv'
  <2>1. PlainInv'
    BY <1>1, <1>5, PlainCallerSteps
  <2>2. CASE SetJobs(c)
    BY <1>1, <2>1, <2>2, HeadSetJobs
  <2>3. CASE AddJobs(c) \/ AddFirst(c)
    BY <1>1, <2>1, <2>3, HeadAdd
  <2>4. CASE \/ GetJob(c) \/ GetWait(c) \/ GetFail(c) \/ Unget(c) \/ UngetDone(c) \/ DoJobs(c) \/ AddDone(c)
             \/ WaitSync(c) \/ ClearError(c) \/ Join(c)
             \/ (\E S \in Allocated : Free(c, S))
             \/ (\E op \in Ops, S \in Sets : Call(c, op, S))
    BY <1>1, <2>1, <2>4, HeadCallerPlain
  <2> QED BY <1>5, <2>2, <2>3, <2>4 DEF CallerPlain
<1> QED BY <1>1, <1>2, <1>3, <1>4, <1>5, PlainSteps DEF Base

-----------------------------------------------------------------------------
(* Workers and the counter                                                 *)

LEMMA CountedKept ==
  ASSUME NEW w \in Workers, NEW s,
         \A v \in Workers \ {w} : wpc'[v] = wpc[v] /\ wjob'[v] = wjob[v],
         wjob'[w] = s /\ wpc'[w] \in {"advance", "signal"} <=> wjob[w] = s /\ wpc[w] \in {"advance", "signal"}
  PROVE  Counted(s)' <=> Counted(s)
BY DEF Counted

LEMMA QueueSame ==
  ASSUME NEW c \in Callers, jobs' = jobs, job' = job,
         \A s \in Slots : job[s].type = "sync" => (Counted(s)' <=> Counted(s))
  PROVE  Queue(c)' = Queue(c)
BY DEF Queue

\* Neither the FIFOs nor the jobs counted change.
LEMMA SyncWorkerPlain ==
  ASSUME Base, NEW c \in Callers, SyncInv(c), NEW w \in Workers,
         \/ WorkerStop(w) \/ WorkerWait(w) \/ WorkerTake(w) \/ WorkerLock(w)
         \/ (\E ok \in BOOLEAN : ComputeWork(w, ok)) \/ UpdateStatus(w) \/ DrainDone(w)
  PROVE  SyncInv(c)'
<1>1. UNCHANGED <<jobs, job, cpc, call, cidx, got, sync, syncMutex>>
  BY DEF WorkerStop, WorkerWait, WorkerTake, WorkerLock, ComputeWork, UpdateStatus, DrainDone, fifo, locks, app
<1>2. wjob \in [Workers -> Slots] /\ wpc \in [Workers -> WorkerPC]
  BY DEF Base, Inv, Typed
<1>3. wpc[w] \in {"main", "lock", "compute", "update", "drain"}
  BY DEF WorkerStop, WorkerWait, WorkerTake, WorkerLock, ComputeWork, UpdateStatus, DrainDone
<1>4. PICK pc \in WorkerPC : WGoto(w, pc) /\ pc \notin {"signal", "drainsig"}
                             /\ (pc = "advance" => wjob' = wjob /\ job[wjob[w]].type # "sync")
  <2>1. CASE \E ok \in BOOLEAN : ComputeWork(w, ok)
    <3>1. /\ WGoto(w, "advance") \/ WGoto(w, "update")
          /\ wjob' = wjob /\ job[wjob[w]].type # "sync"
      BY <2>1 DEF ComputeWork, wrk
    <3> QED BY <3>1, WorkerPCs
  <2>2. CASE \/ WorkerStop(w) \/ WorkerWait(w) \/ WorkerTake(w) \/ WorkerLock(w) \/ UpdateStatus(w) \/ DrainDone(w)
    <3>1. WGoto(w, "done") \/ WGoto(w, "wait") \/ WGoto(w, "lock") \/ WGoto(w, "compute") \/ WGoto(w, "drain")
          \/ WGoto(w, "main")
      BY <2>2 DEF WorkerStop, WorkerWait, WorkerTake, WorkerLock, UpdateStatus, DrainDone, MainLoop
    <3> QED BY <3>1, WorkerPCs
  <2> QED BY <2>1, <2>2
<1>5. wpc'[w] = pc /\ \A v \in Workers \ {w} : wpc'[v] = wpc[v]
  BY <1>4, WGotoFacts DEF Base
<1>6. \A v \in Workers \ {w} : wjob'[v] = wjob[v]
  BY <1>2 DEF WorkerStop, WorkerWait, WorkerTake, WorkerLock, ComputeWork, UpdateStatus, DrainDone, MainLoop, wrk
<1>7. ASSUME NEW s \in Slots, job[s].type = "sync" PROVE Counted(s)' <=> Counted(s)
  BY <1>3, <1>4, <1>5, <1>6, <1>7, CountedKept
<1>8. Queue(c)' = Queue(c)
  BY <1>1, <1>7, QueueSame
<1>9. ASSUME NEW v \in Workers, Signals(v, c)' PROVE Signals(v, c)
  BY <1>1, <1>4, <1>5, <1>6, <1>9 DEF Signals
<1>10. \A r \in Ranks : Ordered(r, c) => Ordered(r, c)'
  BY <1>1 DEF Ordered
<1>11. Stays(cpc[c], cpc'[c])
  BY <1>1 DEF Stays
<1> QED BY <1>1, <1>8, <1>9, <1>10, <1>11, SyncFrame DEF Base


LEMMA TailKeeps ==
  ASSUME NEW S, NEW s \in Seq(S), s # <<>>
  PROVE  Elems(s) \ {Head(s)} \subseteq Elems(Tail(s))
<1>1. /\ Len(Tail(s)) = Len(s) - 1 /\ Len(s) \in Nat /\ Head(s) = s[1]
      /\ \A i \in 1 .. Len(Tail(s)) : Tail(s)[i] = s[i + 1]
  OBVIOUS
<1> SUFFICES ASSUME NEW x \in Elems(s), x # Head(s) PROVE x \in Elems(Tail(s))
  OBVIOUS
<1>2. PICK i \in 1 .. Len(s) : x = s[i]
  BY DEF Elems
<1>3. i # 1
  BY <1>1, <1>2
<1>4. PICK k \in 1 .. Len(Tail(s)) : k + 1 = i
  <2>1. i - 1 \in 1 .. Len(Tail(s)) /\ (i - 1) + 1 = i
    BY <1>1, <1>3
  <2> QED BY <2>1
<1>5. x = Tail(s)[k]
  BY <1>1, <1>2, <1>4
<1> QED BY <1>5 DEF Elems

\* The first job of a FIFO is counted or leaves the FIFO.
LEMMA QueueWithout ==
  ASSUME Base, NEW c \in Callers, NEW r \in Ranks, jobs[r] # <<>>, job' = job,
         \/ jobs' = jobs /\ Counted(Head(jobs[r]))'
         \/ jobs' = [jobs EXCEPT ![r] = Tail(jobs[r])],
         \A x \in Slots : x # Head(jobs[r]) => (Counted(x)' <=> Counted(x))
  PROVE  Queue(c)' = Queue(c) \ {Head(jobs[r])}
<1>1. Inv /\ jobs \in [Ranks -> Seq(Slots)] /\ jobs[r] \in Seq(Slots) /\ NoDuplicate(jobs[r])
  BY DEF Base, Inv, Typed, SlotInv, NoTwice
<1>2. PICK s \in Slots : s = Head(jobs[r]) /\ RankOf(s) = r
  BY <1>1, FirstOfFifo
<1>3. ASSUME NEW x \in Slots, x # s
      PROVE  x \in Elems(jobs'[RankOf(x)]) <=> x \in Elems(jobs[RankOf(x)])
  <2>1. CASE jobs' = jobs
    BY <2>1
  <2>2. CASE jobs' = [jobs EXCEPT ![r] = Tail(jobs[r])]
    <3>1. jobs'[r] = Tail(jobs[r]) /\ \A y \in Ranks \ {r} : jobs'[y] = jobs[y]
      BY <1>1, <2>2
    <3>2. RankOf(x) \in Ranks
      BY SlotRank
    <3>3. CASE RankOf(x) = r
      <4>1. Elems(Tail(jobs[r])) \subseteq Elems(jobs[r]) /\ Elems(jobs[r]) \ {s} \subseteq Elems(Tail(jobs[r]))
        BY <1>1, <1>2, TailElems, TailKeeps
      <4> QED BY <1>3, <3>1, <3>3, <4>1
    <3>4. CASE RankOf(x) # r
      BY <3>1, <3>2, <3>4
    <3> QED BY <3>3, <3>4
  <2> QED BY <2>1, <2>2
<1>4. s \notin Queue(c)'
  <2>1. CASE jobs' = jobs /\ Counted(s)'
    BY <2>1 DEF Queue
  <2>2. CASE jobs' = [jobs EXCEPT ![r] = Tail(jobs[r])]
    <3>1. jobs'[r] = Tail(jobs[r])
      BY <1>1, <2>2
    <3>2. s \notin Elems(Tail(jobs[r]))
      BY <1>1, <1>2, TailElems
    <3> QED BY <1>2, <3>1, <3>2 DEF Queue
  <2> QED BY <1>2, <2>1, <2>2
<1>5. ASSUME NEW x \in Slots, x # s PROVE x \in Queue(c)' <=> x \in Queue(c)
  BY <1>2, <1>3, <1>5 DEF Queue
<1>6. Queue(c) \subseteq Slots /\ Queue(c)' \subseteq Slots
  BY DEF Queue
<1> QED BY <1>2, <1>4, <1>5, <1>6

\* A job that is counted already, or is no SYNC job, leaves its FIFO.
LEMMA SyncAdvance ==
  ASSUME Base, NEW c \in Callers, SyncInv(c), NEW w \in Workers, Advance(w) \/ Drain(w)
  PROVE  SyncInv(c)'
<1>1. Inv /\ HeadInv /\ wjob \in [Workers -> Slots] /\ wpc \in [Workers -> WorkerPC] /\ jobs \in [Ranks -> Seq(Slots)]
  BY DEF Base, Inv, Typed
<1>2. PICK r \in Ranks : r = RankOf(wjob[w])
  BY <1>1, SlotRank
<1>3. jobs[r] # <<>> /\ (wpc[w] = "advance" => wjob[w] = Head(jobs[r]))
  <2>1. CASE Advance(w)
    <3>1. Runs(w)
      BY <2>1 DEF Advance, Runs
    <3> QED BY <1>1, <1>2, <3>1, RunsHead
  <2>2. CASE Drain(w)
    BY <1>2, <2>2 DEF Drain
  <2> QED BY <2>1, <2>2
<1>4. /\ jobs' = [jobs EXCEPT ![r] = Tail(jobs[r])] /\ cpc' \in SlotSignal(Head(jobs[r]))
      /\ UNCHANGED <<job, call, cidx, got, sync, syncMutex>>
  BY <1>2 DEF Advance, Drain, app, locks
<1>5. \/ wpc[w] = "advance" /\ Advance(w)
      \/ wpc[w] = "drain" /\ job[Head(jobs[r])].type # "sync" /\ UNCHANGED <<wpc, wjob>>
  BY <1>2 DEF Advance, Drain, wrk
<1>6. /\ \A v \in Workers \ {w} : wpc'[v] = wpc[v] /\ wjob'[v] = wjob[v]
      /\ wpc'[w] \notin {"advance", "signal", "drainsig"}
  <2>1. CASE wpc[w] = "drain" /\ UNCHANGED <<wpc, wjob>>
    BY <2>1
  <2>2. CASE Advance(w)
    <3>1. WGoto(w, "main") \/ WGoto(w, "compute")
      BY <2>2 DEF Advance, MainLoop
    <3>2. wpc'[w] \in {"main", "compute"} /\ \A v \in Workers \ {w} : wpc'[v] = wpc[v]
      BY <1>1, <3>1, WGotoFacts, WorkerPCs
    <3>3. \A v \in Workers \ {w} : wjob'[v] = wjob[v]
      BY <1>1, <2>2 DEF Advance, MainLoop
    <3> QED BY <3>2, <3>3
  <2> QED BY <1>5, <2>1, <2>2
<1>7. Head(jobs[r]) \notin Queue(c)
  <2>1. CASE wpc[w] = "advance"
    BY <1>3, <2>1 DEF Queue, Counted
  <2>2. CASE job[Head(jobs[r])].type # "sync"
    BY <2>2 DEF Queue
  <2> QED BY <1>5, <2>1, <2>2
<1>8. ASSUME NEW x \in Slots, x # Head(jobs[r]) PROVE Counted(x)' <=> Counted(x)
  <2>1. ~(wjob[w] = x /\ wpc[w] \in {"advance", "signal"})
    BY <1>3, <1>5, <1>8
  <2> QED BY <1>6, <2>1, CountedKept
<1>9. Queue(c)' = Queue(c)
  <2>1. Queue(c)' = Queue(c) \ {Head(jobs[r])}
    BY <1>3, <1>4, <1>8, QueueWithout
  <2> QED BY <1>7, <2>1
<1>10. \A v \in Workers : Signals(v, c)' => Signals(v, c)
  BY <1>4, <1>6 DEF Signals
<1>11. ASSUME NEW x \in Ranks, Ordered(x, c) PROVE Ordered(x, c)'
  <2>1. jobs'[r] = Tail(jobs[r]) /\ \A y \in Ranks \ {r} : jobs'[y] = jobs[y]
    BY <1>1, <1>4
  <2>2. CASE x = r
    BY <1>1, <1>3, <1>4, <1>11, <2>1, <2>2, OrderedTail
  <2>3. CASE x # r
    BY <1>4, <1>11, <2>1, <2>3, OrderedSame
  <2> QED BY <2>2, <2>3
<1>12. Stays(cpc[c], cpc'[c])
  BY <1>1, <1>4, SlotSignalStays
<1> QED BY <1>1, <1>4, <1>9, <1>10, <1>11, <1>12, SyncFrame

\* The decrement: one SYNC job fewer to come.
LEMMA SyncDecrement ==
  ASSUME Base, NEW c \in Callers, SyncInv(c), NEW s \in Queue(c), NEW w \in Workers,
         Stays(cpc[c], cpc'[c]), job' = job,
         call'[c] = call[c], cidx'[c] = cidx[c], got'[c] = got[c], syncMutex'[c] = syncMutex[c],
         sync'[c].nr = sync[c].nr - 1, Queue(c)' = Queue(c) \ {s},
         \A v \in Workers \ {w} : Signals(v, c)' => Signals(v, c),
         Signals(w, c)' => sync[c].nr = 1,
         \A r \in Ranks : Ordered(r, c) => Ordered(r, c)'
  PROVE  SyncInv(c)'
<1>1. Inv /\ SlotInv /\ HeadInv
  BY DEF Base
<1>2. call[c].op.sync /\ cpc[c] \in {"add", "addq", "wait"}
  BY DEF SyncInv, Reached
<1>3. cpc'[c] = cpc[c]
  BY <1>2 DEF Stays
<1>4. \A r : Has(c, r)' <=> Has(c, r)
  BY DEF Has
<1>5. call[c].ranks \in Seq(Ranks)
  BY <1>1, CallTypes
<1>6. CallShape(c)' /\ Covers(c)' /\ Marked(c)' /\ Orders(c)'
  <2>1. CallShape(c)'
    BY <1>3 DEF SyncInv, CallShape
  <2>2. Covers(c)'
    BY <1>3, <1>4 DEF SyncInv, Covers
  <2>3. Orders(c)'
    BY <1>3, <1>4, <1>5 DEF SyncInv, Orders
  <2>4. Marked(c)'
    BY <1>3 DEF SyncInv, Marked
  <2> QED BY <2>1, <2>2, <2>3, <2>4
<1>7. Hold(c)' = Hold(c)
  BY <1>3 DEF Hold, Elems
<1>8. s \notin Hold(c)
  <2>1. s \in Slots /\ s \in Elems(jobs[RankOf(s)])
    BY DEF Queue
  <2>2. RankOf(s) \in Ranks
    BY <2>1, SlotRank
  <2>3. s \notin Elems(got[c])
    BY <1>1, <2>1, <2>2, GotApart
  <2> QED BY <2>3 DEF Hold
<1>9. s \in Pend(c) /\ Pend(c)' = Pend(c) \ {s}
  BY <1>7, <1>8 DEF Pend
<1>10. IsFiniteSet(Pend(c)) /\ sync[c].nr = Cardinality(Pend(c))
  BY <1>2 DEF SyncInv, Counts
<1>11. IsFiniteSet(Pend(c)') /\ sync'[c].nr = Cardinality(Pend(c)')
  <2>1. IsFiniteSet(Pend(c) \ {s}) /\ Cardinality(Pend(c) \ {s}) = Cardinality(Pend(c)) - 1
    BY <1>9, <1>10, FS_RemoveElement
  <2> QED BY <1>9, <1>10, <2>1
<1>12. Counts(c)'
  BY <1>2, <1>3, <1>11 DEF SyncInv, Counts
<1>13. \A v \in Workers : ~Signals(v, c)
  BY <1>9 DEF SyncInv, Reached
<1>14. sync[c].nr = 1 => Pend(c)' = {}
  <2>1. ASSUME sync[c].nr = 1 PROVE Pend(c)' = {}
    <3>1. Cardinality(Pend(c)') = 0
      BY <1>11, <2>1
    <3> QED BY <1>11, <3>1, FS_EmptySet
  <2> QED BY <2>1
<1>15. Reached(c)'
  BY <1>2, <1>3, <1>13, <1>14 DEF Reached
<1> QED BY <1>6, <1>12, <1>15 DEF SyncInv


\* The SYNC job at the head of a FIFO that worker w has and has not counted yet.
LEMMA HeadToCount ==
  ASSUME Base, NEW w \in Workers, NEW r \in Ranks, BusyOn(w, r), wpc[w] \notin {"advance", "signal"},
         jobs[r] # <<>>, job[Head(jobs[r])].type = "sync"
  PROVE  /\ job[Head(jobs[r])].owner \in Callers /\ Head(jobs[r]) \in Queue(job[Head(jobs[r])].owner)
         /\ Head(jobs[r]) \in Slots
         /\ \A c \in Callers : c # job[Head(jobs[r])].owner => Head(jobs[r]) \notin Queue(c)
<1>1. Inv /\ HeadInv /\ jobs[r] \in Seq(Slots) /\ NoDuplicate(jobs[r])
  BY DEF Base, Inv, Typed, SlotInv, NoTwice
<1>2. PICK s \in Slots : s = Head(jobs[r]) /\ RankOf(s) = r
  BY <1>1, FirstOfFifo
<1>3. s \in Elems(jobs[r])
  BY <1>1, <1>2, TailElems
<1>4. ~Counted(s)
  <2> SUFFICES ASSUME NEW v \in Workers, wjob[v] = s, wpc[v] \in {"advance", "signal"} PROVE FALSE
    BY DEF Counted
  <2>1. BusyOn(v, r)
    BY <1>2 DEF BusyOn, Busy
  <2>2. v = w
    BY <1>1, <2>1 DEF Inv, Carried
  <2> QED BY <2>2
<1>5. job[s].owner \in Callers
  BY <1>1 DEF Inv, Typed, JobRecord
<1> QED BY <1>2, <1>3, <1>4, <1>5 DEF Queue

LEMMA SyncComputeSync ==
  ASSUME Base, NEW c \in Callers, SyncInv(c), NEW w \in Workers, ComputeSync(w)
  PROVE  SyncInv(c)'
<1>1. Inv /\ HeadInv /\ sync \in [Callers -> [nr : Int, failed : BOOLEAN]] /\ wpc \in [Workers -> WorkerPC]
  BY DEF Base, Inv, Typed, PlainInv
<1>2. PICK s : s = wjob[w]
  OBVIOUS
<1>3. wpc[w] = "compute" /\ Runs(w) /\ job[s].type = "sync"
  BY <1>2 DEF ComputeSync, Runs
<1>4. PICK r \in Ranks : r = RankOf(s) /\ BusyOn(w, r) /\ jobs[r] # <<>> /\ s = Head(jobs[r])
  BY <1>1, <1>2, <1>3, RunsHead
<1>5. PICK d \in Callers : d = job[s].owner /\ s \in Slots /\ s \in Queue(d) /\ \A b \in Callers : b # d => s \notin Queue(b)
  BY <1>3, <1>4, HeadToCount
<1>6. /\ sync' = [sync EXCEPT ![d].nr = sync[d].nr - 1]
      /\ WGoto(w, IF sync[d].nr = 1 THEN "signal" ELSE "advance")
      /\ UNCHANGED <<jobs, job, wjob, cpc, call, cidx, got, syncMutex>>
  BY <1>2, <1>5 DEF ComputeSync, fifo, wrk, app, locks
<1>7. /\ wpc'[w] = IF sync[d].nr = 1 THEN "signal" ELSE "advance"
      /\ \A v \in Workers \ {w} : wpc'[v] = wpc[v]
  BY <1>1, <1>6, WGotoFacts, WorkerPCs
<1>8. ASSUME NEW x \in Slots, x # s PROVE Counted(x)' <=> Counted(x)
  BY <1>2, <1>6, <1>7, <1>8, CountedKept
<1>9. Counted(s)'
  BY <1>2, <1>6, <1>7 DEF Counted
<1>10. Queue(c)' = Queue(c) \ {s}
  BY <1>4, <1>6, <1>8, <1>9, QueueWithout
<1>11. \A x \in Ranks : Ordered(x, c) => Ordered(x, c)'
  BY <1>6 DEF Ordered
<1>12. Stays(cpc[c], cpc'[c])
  BY <1>6 DEF Stays
<1>13. \A v \in Workers \ {w} : Signals(v, c)' => Signals(v, c)
  BY <1>6, <1>7 DEF Signals
<1>14. CASE c = d
  <2>1. sync'[c].nr = sync[c].nr - 1
    BY <1>1, <1>6, <1>14
  <2>2. Signals(w, c)' => sync[c].nr = 1
    BY <1>7, <1>14 DEF Signals
  <2> QED BY <1>5, <1>6, <1>10, <1>11, <1>12, <1>13, <1>14, <2>1, <2>2, SyncDecrement
<1>15. CASE c # d
  <2>1. sync'[c] = sync[c]
    BY <1>1, <1>6, <1>15
  <2>2. ~Signals(w, c)'
    BY <1>2, <1>5, <1>6, <1>15 DEF Signals
  <2>3. Queue(c)' = Queue(c)
    BY <1>5, <1>10, <1>15
  <2>4. \A v \in Workers : Signals(v, c)' => Signals(v, c)
    BY <1>13, <2>2
  <2> QED BY <1>1, <1>6, <1>11, <1>12, <2>1, <2>3, <2>4, SyncFrame
<1> QED BY <1>14, <1>15

LEMMA SyncDrainSync ==
  ASSUME Base, NEW c \in Callers, SyncInv(c), NEW w \in Workers, DrainSync(w)
  PROVE  SyncInv(c)'
<1>1. /\ Inv /\ sync \in [Callers -> [nr : Int, failed : BOOLEAN]] /\ wpc \in [Workers -> WorkerPC]
      /\ wjob \in [Workers -> Slots] /\ jobs \in [Ranks -> Seq(Slots)]
  BY DEF Base, Inv, Typed, PlainInv
<1>2. PICK r \in Ranks : r = RankOf(wjob[w])
  BY <1>1, SlotRank
<1>3. PICK s : s = Head(jobs[r])
  OBVIOUS
<1>4. wpc[w] = "drain" /\ BusyOn(w, r) /\ jobs[r] # <<>> /\ job[s].type = "sync"
  BY <1>2, <1>3 DEF DrainSync, BusyOn, Busy
<1>5. PICK d \in Callers : d = job[s].owner /\ s \in Slots /\ s \in Queue(d) /\ \A b \in Callers : b # d => s \notin Queue(b)
  BY <1>3, <1>4, HeadToCount
<1>6. /\ jobs' = [jobs EXCEPT ![r] = Tail(jobs[r])]
      /\ sync' = [sync EXCEPT ![d] = [nr |-> sync[d].nr - 1, failed |-> TRUE]]
      /\ \/ sync[d].nr = 1 /\ WGoto(w, "drainsig") /\ wjob' = [wjob EXCEPT ![w] = s] /\ cpc' = cpc
         \/ cpc' \in SlotSignal(s) /\ UNCHANGED <<wpc, wjob>>
      /\ UNCHANGED <<job, call, cidx, got, syncMutex>>
  BY <1>2, <1>3, <1>5 DEF DrainSync, app, locks
<1>7. /\ \A v \in Workers \ {w} : wpc'[v] = wpc[v] /\ wjob'[v] = wjob[v]
      /\ \/ wpc'[w] = "drainsig" /\ wjob'[w] = s /\ sync[d].nr = 1
         \/ wpc'[w] = "drain"
  <2>1. CASE UNCHANGED <<wpc, wjob>>
    BY <1>4, <2>1
  <2>2. CASE sync[d].nr = 1 /\ WGoto(w, "drainsig") /\ wjob' = [wjob EXCEPT ![w] = s]
    <3>1. wpc'[w] = "drainsig" /\ \A v \in Workers \ {w} : wpc'[v] = wpc[v]
      BY <1>1, <2>2, WGotoFacts, WorkerPCs
    <3>2. wjob'[w] = s /\ \A v \in Workers \ {w} : wjob'[v] = wjob[v]
      BY <1>1, <2>2
    <3> QED BY <2>2, <3>1, <3>2
  <2> QED BY <1>6, <2>1, <2>2
<1>8. ASSUME NEW x \in Slots PROVE Counted(x)' <=> Counted(x)
  BY <1>4, <1>7, CountedKept
<1>9. Queue(c)' = Queue(c) \ {s}
  BY <1>3, <1>4, <1>6, <1>8, QueueWithout
<1>10. ASSUME NEW x \in Ranks, Ordered(x, c) PROVE Ordered(x, c)'
  <2>1. jobs'[r] = Tail(jobs[r]) /\ \A y \in Ranks \ {r} : jobs'[y] = jobs[y]
    BY <1>1, <1>6
  <2>2. CASE x = r
    BY <1>1, <1>4, <1>6, <1>10, <2>1, <2>2, OrderedTail
  <2>3. CASE x # r
    BY <1>6, <1>10, <2>1, <2>3, OrderedSame
  <2> QED BY <2>2, <2>3
<1>11. Stays(cpc[c], cpc'[c])
  <2>1. CASE cpc' = cpc
    BY <2>1 DEF Stays
  <2>2. CASE cpc' \in SlotSignal(s)
    BY <1>1, <2>2, SlotSignalStays
  <2> QED BY <1>6, <2>1, <2>2
<1>12. \A v \in Workers \ {w} : Signals(v, c)' => Signals(v, c)
  BY <1>6, <1>7 DEF Signals
<1>13. CASE c = d
  <2>1. sync'[c].nr = sync[c].nr - 1
    BY <1>1, <1>6, <1>13
  <2>2. Signals(w, c)' => sync[c].nr = 1
    BY <1>7, <1>13 DEF Signals
  <2> QED BY <1>5, <1>6, <1>9, <1>10, <1>11, <1>12, <1>13, <2>1, <2>2, SyncDecrement
<1>14. CASE c # d
  <2>1. sync'[c] = sync[c]
    BY <1>1, <1>6, <1>14
  <2>2. ~Signals(w, c)'
    BY <1>5, <1>6, <1>7, <1>14 DEF Signals
  <2>3. Queue(c)' = Queue(c)
    BY <1>5, <1>9, <1>14
  <2>4. \A v \in Workers : Signals(v, c)' => Signals(v, c)
    BY <1>12, <2>2
  <2> QED BY <1>1, <1>6, <1>10, <1>11, <2>1, <2>3, <2>4, SyncFrame
<1> QED BY <1>13, <1>14

\* The signal: the caller waits, and no SYNC job of it is left.
LEMMA SyncSignalStep ==
  ASSUME Base, NEW c \in Callers, SyncInv(c), NEW w \in Workers, Signal(w) \/ DrainSignal(w)
  PROVE  SyncInv(c)'
<1>1. Inv /\ wpc \in [Workers -> WorkerPC] /\ cpc \in [Callers -> CallerPC] /\ wjob \in [Workers -> Slots]
  BY DEF Base, Inv, Typed
<1>2. PICK s \in Slots : s = wjob[w]
  BY <1>1
<1>3. PICK d \in Callers : d = job[s].owner
  BY <1>1 DEF Inv, Typed, JobRecord
<1>4. /\ wpc[w] \in {"signal", "drainsig"} /\ syncMutex[d] = NoThread
      /\ UNCHANGED <<jobs, job, wjob, call, cidx, got, sync, syncMutex>>
      /\ \/ wpc[w] = "signal" /\ WGoto(w, "advance")
         \/ wpc[w] = "drainsig" /\ WGoto(w, "drain")
  <2>1. CASE Signal(w)
    BY <1>2, <1>3, <2>1 DEF Signal, fifo, wrk, app, locks
  <2>2. CASE DrainSignal(w)
    BY <1>2, <1>3, <2>2 DEF DrainSignal, wrk, app, locks
  <2> QED BY <2>1, <2>2
<1>5. PICK pcs : (pcs = cpc \/ pcs \in SlotSignal(s)) /\ cpc' = SyncSignal(d, pcs)
  BY <1>2, <1>3 DEF Signal, DrainSignal
<1>6. pcs \in [Callers -> CallerPC] /\ \A b \in Callers : Stays(cpc[b], pcs[b])
  <2>1. CASE pcs = cpc
    BY <1>1, <2>1 DEF Stays
  <2>2. CASE pcs \in SlotSignal(s)
    BY <1>1, <2>2, SlotSignalStays, SlotSignalWakes DEF Inv
  <2> QED BY <1>5, <2>1, <2>2
<1>7. /\ \A v \in Workers \ {w} : wpc'[v] = wpc[v]
      /\ \/ wpc[w] = "signal" /\ wpc'[w] = "advance"
         \/ wpc[w] = "drainsig" /\ wpc'[w] = "drain"
  BY <1>1, <1>4, WGotoFacts, WorkerPCs
<1>8. ASSUME NEW x \in Slots PROVE Counted(x)' <=> Counted(x)
  BY <1>4, <1>7, CountedKept
<1>9. Queue(c)' = Queue(c)
  BY <1>4, <1>8, QueueSame
<1>10. \A v \in Workers : Signals(v, c)' => Signals(v, c) /\ v # w
  BY <1>4, <1>7 DEF Signals
<1>11. \A x \in Ranks : Ordered(x, c) => Ordered(x, c)'
  BY <1>4 DEF Ordered
<1>12. CASE c # d
  <2>1. cpc'[c] = pcs[c]
    BY <1>5, <1>6, <1>12 DEF SyncSignal
  <2>2. Stays(cpc[c], cpc'[c])
    BY <1>6, <2>1
  <2> QED BY <1>1, <1>4, <1>9, <1>10, <1>11, <2>2, SyncFrame
<1>13. CASE c = d
  <2>1. Signals(w, c)
    BY <1>2, <1>3, <1>4, <1>13 DEF Signals
  <2>2. /\ call[c].op.sync /\ cpc[c] \in {"add", "addq", "wait"} /\ Pend(c) = {}
        /\ \A v \in Workers : Signals(v, c) => v = w
    BY <2>1 DEF SyncInv, Reached
  <2>3. cpc[c] = "wait"
    <3>1. c # NoThread
      BY ThreadsAssumption DEF Threads
    <3> QED BY <1>4, <1>13, <2>2, <3>1 DEF SyncInv, Counts
  <2>4. cpc'[c] = "woken"
    <3>1. pcs[c] = "wait"
      BY <1>6, <2>3 DEF Stays
    <3> QED BY <1>5, <1>6, <1>13, <3>1 DEF SyncSignal
  <2>5. sync[c].nr = 0
    BY <2>2, <2>3, FS_EmptySet DEF SyncInv, Counts
  <2>6. Queue(c)' = {} /\ \A v \in Workers : ~Signals(v, c)'
    BY <1>9, <1>10, <2>2 DEF Pend
  <2>7. \A r : Has(c, r)' <=> Has(c, r)
    BY <1>4 DEF Has
  <2>8. call[c].ranks \in Seq(Ranks)
    BY <1>1, CallTypes
  <2>9. CallShape(c)' /\ Covers(c)' /\ Marked(c)' /\ Counts(c)' /\ Reached(c)'
    BY <1>4, <2>3, <2>4, <2>5, <2>6 DEF SyncInv, CallShape, Covers, Marked, Counts, Reached
  <2>10. Orders(c)'
    BY <1>4, <1>11, <2>2, <2>3, <2>4, <2>7, <2>8 DEF SyncInv, Orders
  <2> QED BY <2>9, <2>10 DEF SyncInv
<1> QED BY <1>12, <1>13

LEMMA SyncWorker ==
  ASSUME Base, NEW c \in Callers, SyncInv(c), NEW w \in Workers, WorkerPlain(w)
  PROVE  SyncInv(c)'
<1>1. CASE \/ WorkerStop(w) \/ WorkerWait(w) \/ WorkerTake(w) \/ WorkerLock(w)
           \/ (\E ok \in BOOLEAN : ComputeWork(w, ok)) \/ UpdateStatus(w) \/ DrainDone(w)
  BY <1>1, SyncWorkerPlain
<1>2. CASE Advance(w) \/ Drain(w)
  BY <1>2, SyncAdvance
<1>3. CASE Signal(w) \/ DrainSignal(w)
  BY <1>3, SyncSignalStep
<1> QED BY <1>1, <1>2, <1>3, SyncComputeSync, SyncDrainSync DEF WorkerPlain


-----------------------------------------------------------------------------
(* Callers and the counter                                                 *)

\* A step of a caller that leaves the FIFOs and the jobs alone.
LEMMA CallerSame ==
  ASSUME Base, NEW c \in Callers,
         \/ GetJob(c) \/ GetWait(c) \/ GetFail(c) \/ Unget(c) \/ UngetDone(c) \/ DoJobs(c) \/ AddDone(c)
         \/ WaitSync(c) \/ ClearError(c) \/ Join(c)
         \/ (\E S \in Allocated : Free(c, S))
         \/ (\E op \in Ops, S \in Sets : Call(c, op, S))
  PROVE  /\ UNCHANGED <<jobs, job, wjob>>
         /\ \A d \in Callers :
              /\ Queue(d)' = Queue(d)
              /\ \A w \in Workers : Signals(w, d)' <=> Signals(w, d)
              /\ \A r \in Ranks : Ordered(r, d)' <=> Ordered(r, d)
         /\ \A d \in Callers \ {c} :
              /\ cpc'[d] = cpc[d] /\ call'[d] = call[d] /\ cidx'[d] = cidx[d] /\ got'[d] = got[d]
              /\ sync'[d] = sync[d] /\ syncMutex'[d] = syncMutex[d]
<1>1. UNCHANGED <<jobs, job, wjob>>
  BY DEF GetJob, GetWait, GetFail, Unget, UngetDone, DoJobs, AddDone, WaitSync, ClearError, Join, Free, Call, fifo, wrk
<1>2. wpc' = wpc \/ \E Q : wpc' = Broadcast(Q, wpc)
  BY DEF GetJob, GetWait, GetFail, Unget, UngetDone, DoJobs, AddDone, WaitSync, ClearError, Join, Free, Call
<1>3. /\ wpc \in [Workers -> WorkerPC] /\ cpc \in [Callers -> CallerPC] /\ call \in [Callers -> CallType]
      /\ cidx \in [Callers -> Nat] /\ got \in [Callers -> Seq(Slots)]
      /\ sync \in [Callers -> [nr : Int, failed : BOOLEAN]] /\ syncMutex \in [Callers -> Threads \cup {NoThread}]
  BY DEF Base, Inv, Typed, PlainInv
<1>4. \A w \in Workers : wpc'[w] = wpc[w] \/ (wpc[w] = "wait" /\ wpc'[w] = "main")
  BY <1>2, <1>3, BroadcastWakes
<1>5. \A s : Counted(s)' <=> Counted(s)
  BY <1>1, <1>4 DEF Counted
<1>6. ASSUME NEW d \in Callers
      PROVE  /\ Queue(d)' = Queue(d)
             /\ \A w \in Workers : Signals(w, d)' <=> Signals(w, d)
             /\ \A r \in Ranks : Ordered(r, d)' <=> Ordered(r, d)
  <2>1. Queue(d)' = Queue(d)
    BY <1>1, <1>5, QueueSame
  <2>2. \A w \in Workers : Signals(w, d)' <=> Signals(w, d)
    BY <1>1, <1>4 DEF Signals
  <2>3. \A r \in Ranks : Ordered(r, d)' <=> Ordered(r, d)
    BY <1>1 DEF Ordered
  <2> QED BY <2>1, <2>2, <2>3
<1>7. ASSUME NEW d \in Callers \ {c}
      PROVE  /\ cpc'[d] = cpc[d] /\ call'[d] = call[d] /\ cidx'[d] = cidx[d] /\ got'[d] = got[d]
             /\ sync'[d] = sync[d] /\ syncMutex'[d] = syncMutex[d]
  <2>1. CASE GetJob(c) \/ GetWait(c) \/ GetFail(c) \/ Unget(c) \/ UngetDone(c) \/ DoJobs(c)
    BY <1>3, <2>1 DEF GetJob, GetWait, GetFail, Unget, UngetDone, DoJobs, Return, Goto, app, locks
  <2>2. CASE AddDone(c) \/ WaitSync(c) \/ ClearError(c) \/ Join(c)
    BY <1>3, <2>2 DEF AddDone, WaitSync, ClearError, Join, Goto, app, locks
  <2>3. CASE \E S \in Allocated : Free(c, S)
    BY <1>3, <2>3 DEF Free, Goto, app, locks
  <2>4. CASE \E op \in Ops, S \in Sets : Call(c, op, S)
    BY <1>3, <2>4 DEF Call, Goto
  <2> QED BY <2>1, <2>2, <2>3, <2>4
<1> QED BY <1>1, <1>6, <1>7

LEMMA SyncOthers ==
  ASSUME Base, NEW c \in Callers, NEW d \in Callers, d # c, SyncInv(d),
         \/ GetJob(c) \/ GetWait(c) \/ GetFail(c) \/ Unget(c) \/ UngetDone(c) \/ DoJobs(c) \/ AddDone(c)
         \/ WaitSync(c) \/ ClearError(c) \/ Join(c)
         \/ (\E S \in Allocated : Free(c, S))
         \/ (\E op \in Ops, S \in Sets : Call(c, op, S))
  PROVE  SyncInv(d)'
<1>1. UNCHANGED <<jobs, job, wjob>>
  BY CallerSame
<1>2. /\ Queue(d)' = Queue(d)
      /\ \A w \in Workers : Signals(w, d)' <=> Signals(w, d)
      /\ \A r \in Ranks : Ordered(r, d)' <=> Ordered(r, d)
  BY CallerSame
<1>3. /\ cpc'[d] = cpc[d] /\ call'[d] = call[d] /\ cidx'[d] = cidx[d] /\ got'[d] = got[d]
      /\ sync'[d] = sync[d] /\ syncMutex'[d] = syncMutex[d]
  BY CallerSame
<1>4. Stays(cpc[d], cpc'[d])
  BY <1>3 DEF Stays
<1> QED BY <1>1, <1>2, <1>3, <1>4, SyncFrame DEF Base

\* A caller outside a call, or whose call is given up.
LEMMA SyncQuiet ==
  ASSUME NEW c \in Callers, cpc'[c] \in {"idle", "unget", "clear", "join", "freed"},
         Queue(c)' = {}, \A w \in Workers : ~Signals(w, c)'
  PROVE  SyncInv(c)'
BY DEF SyncInv, CallShape, Covers, Marked, Counts, Reached, Orders

LEMMA SyncLeaves ==
  ASSUME Base, NEW c \in Callers, SyncInv(c),
         \/ GetFail(c) \/ Unget(c) \/ UngetDone(c) \/ WaitSync(c) \/ ClearError(c) \/ Join(c)
         \/ \E S \in Allocated : Free(c, S)
  PROVE  SyncInv(c)'
<1>1. cpc[c] \in {"get", "unget", "woken", "clear", "join", "idle"}
  BY DEF GetFail, Unget, UngetDone, WaitSync, ClearError, Join, Free
<1>2. Queue(c) = {} /\ \A w \in Workers : ~Signals(w, c)
  BY <1>1 DEF SyncInv, Reached
<1>3. Queue(c)' = Queue(c) /\ \A w \in Workers : Signals(w, c)' <=> Signals(w, c)
  BY CallerSame
<1>4. cpc \in [Callers -> CallerPC] /\ sync[c].failed \in BOOLEAN
  BY DEF Base, Inv, Typed, PlainInv
<1>5. cpc'[c] \in {"idle", "unget", "clear", "join", "freed"}
  <2>1. CASE Unget(c)
    BY <2>1 DEF Unget
  <2>2. CASE GetFail(c) \/ UngetDone(c) \/ ClearError(c) \/ Join(c)
    BY <1>4, <2>2 DEF GetFail, UngetDone, Return, ClearError, Join, Goto
  <2>3. CASE \E S \in Allocated : Free(c, S)
    BY <1>4, <2>3 DEF Free, Goto
  <2>4. CASE WaitSync(c)
    <3>1. sync[c].nr = 0
      BY <2>4 DEF WaitSync, SyncInv, Counts
    <3>2. Goto(c, "clear") \/ Goto(c, "idle")
      BY <1>4, <2>4, <3>1 DEF WaitSync
    <3> QED BY <1>4, <3>2 DEF Goto
  <2> QED BY <2>1, <2>2, <2>3, <2>4
<1> QED BY <1>2, <1>3, <1>5, SyncQuiet

LEMMA SyncCall ==
  ASSUME NoCallbacks, Base, NEW c \in Callers, SyncInv(c), NEW op \in Ops, NEW S \in Sets, Call(c, op, S)
  PROVE  SyncInv(c)'
<1>1. /\ cpc \in [Callers -> CallerPC] /\ call \in [Callers -> CallType] /\ cidx \in [Callers -> Nat]
      /\ got \in [Callers -> Seq(Slots)] /\ PlainInv
      /\ sync \in [Callers -> [nr : Int, failed : BOOLEAN]] /\ syncMutex \in [Callers -> Threads \cup {NoThread}]
  BY DEF Base, Inv, Typed, PlainInv
<1>2. ~op.single /\ S \in Seq(Ranks)
  BY NoCallbacksNoSingle, SetsAssumption DEF NoSingle
<1>3. ~SeesCallback(op, S)
  BY <1>1, <1>2, SeesNone
<1>4. PICK nj : nj = IF op.sync /\ op.type # "sync" THEN 2 ELSE 1
  OBVIOUS
<1>5. /\ cpc[c] = "idle" /\ Goto(c, "get")
      /\ call' = [call EXCEPT ![c] = [op |-> op, set |-> S, ranks |-> S, nj |-> nj, owner |-> S[1]]]
      /\ got' = [got EXCEPT ![c] = <<>>] /\ cidx' = [cidx EXCEPT ![c] = 1]
      /\ op.sync => /\ syncMutex' = [syncMutex EXCEPT ![c] = c]
                    /\ sync' = [sync EXCEPT ![c] = InitSync(Len(S))]
  BY <1>2, <1>3, <1>4 DEF Call
<1>6. /\ cpc'[c] = "get" /\ got'[c] = <<>> /\ cidx'[c] = 1
      /\ call'[c].op = op /\ call'[c].ranks = S /\ call'[c].nj = nj
  BY <1>1, <1>5 DEF Goto
<1>7. op.sync => syncMutex'[c] = c /\ sync'[c].nr = Len(S)
  BY <1>1, <1>5 DEF InitSync
<1>8. Queue(c)' = {} /\ \A w \in Workers : ~Signals(w, c)'
  <2>1. Queue(c) = {} /\ \A w \in Workers : ~Signals(w, c)
    BY <1>5 DEF SyncInv, Reached
  <2>2. Queue(c)' = Queue(c) /\ \A w \in Workers : Signals(w, c)' <=> Signals(w, c)
    BY CallerSame
  <2> QED BY <2>1, <2>2
<1>9. CallShape(c)'
  <2>1. op.type = "sync" => op.sync
    BY OpsAssumption
  <2> QED BY <1>4, <1>6, <2>1 DEF CallShape
<1>10. Covers(c)'
  BY <1>6 DEF Covers
<1>11. Marked(c)' /\ Counts(c)' /\ Reached(c)' /\ Orders(c)'
  BY <1>6, <1>7, <1>8 DEF Marked, Counts, Reached, Orders
<1> QED BY <1>9, <1>10, <1>11 DEF SyncInv


LEMMA SyncGetWait ==
  ASSUME Base, NEW c \in Callers, SyncInv(c), GetWait(c)
  PROVE  SyncInv(c)'
<1>1. cpc[c] = "get" /\ cpc' = [cpc EXCEPT ![c] = "waitget"] /\ UNCHANGED <<call, cidx, got, sync, syncMutex>>
  BY DEF GetWait, Goto, app
<1>2. cpc'[c] = "waitget"
  BY <1>1 DEF Base, Inv, Typed
<1>3. Queue(c)' = {} /\ \A w \in Workers : ~Signals(w, c)'
  <2>1. Queue(c) = {} /\ \A w \in Workers : ~Signals(w, c)
    BY <1>1 DEF SyncInv, Reached
  <2>2. Queue(c)' = Queue(c) /\ \A w \in Workers : Signals(w, c)' <=> Signals(w, c)
    BY CallerSame
  <2> QED BY <2>1, <2>2
<1>4. \A r : Has(c, r)' <=> Has(c, r)
  BY <1>1 DEF Has
<1>5. Covers(c)'
  BY <1>1, <1>2, <1>4 DEF SyncInv, Covers
<1> QED BY <1>1, <1>2, <1>3, <1>5 DEF SyncInv, CallShape, Marked, Counts, Reached, Orders

LEMMA SyncGetJob ==
  ASSUME NoCallbacks, Base, NEW c \in Callers, SyncInv(c), GetJob(c)
  PROVE  SyncInv(c)'
<1>1. Inv /\ cpc[c] = "get" /\ CallerInv(c) /\ Getting(c) /\ call[c].op \in Ops
  BY DEF Base, GetJob, Inv, CallerInv
<1>2. /\ call[c].ranks \in Seq(Ranks) /\ call[c].nj \in {1, 2} /\ cidx[c] \in Nat
      /\ got[c] \in Seq(Slots) /\ Len(got[c]) \in Nat /\ Len(call[c].ranks) \in Nat
  BY <1>1, CallTypes
<1>3. PICK r \in Ranks : r = call[c].ranks[cidx[c]]
  BY <1>1, <1>2 DEF Getting
<1>4. PICK s : s = Head(available[r])
  OBVIOUS
<1>5. /\ available[r] # <<>> /\ got' = [got EXCEPT ![c] = Append(@, s)]
      /\ UNCHANGED <<call, sync, syncMutex>>
  BY <1>3, <1>4 DEF GetJob
<1>6. s \in Slots /\ RankOf(s) = r
  BY <1>1, <1>4, <1>5, PoppedOwn
<1>7. got'[c] = Append(got[c], s)
  BY <1>1, <1>5 DEF Inv, Typed
<1>8. /\ Len(got'[c]) = Len(got[c]) + 1 /\ got'[c][Len(got[c]) + 1] = s
      /\ \A i \in 1 .. Len(got[c]) : got'[c][i] = got[c][i]
  BY <1>2, <1>6, <1>7
<1>9. PICK full \in BOOLEAN : full <=> Len(got[c]) + 1 = cidx[c] * call[c].nj
  OBVIOUS
<1>10. cidx'[c] = IF full THEN cidx[c] + 1 ELSE cidx[c]
  BY <1>1, <1>9 DEF GetJob, Inv, Typed
<1>11. /\ cpc'[c] \in {"get", "set"}
       /\ cpc'[c] = "set" => full /\ cidx[c] = Len(call[c].ranks)
  <2>1. ~call[c].op.single
    BY <1>1, NoCallbacksNoSingle DEF NoSingle
  <2>2. \/ Goto(c, "get")
        \/ Goto(c, "set") /\ full /\ cidx[c] = Len(call[c].ranks)
    BY <1>9, <2>1 DEF GetJob
  <2> QED BY <1>1, <2>2 DEF Goto, Inv, Typed
<1>12. Queue(c)' = {} /\ \A w \in Workers : ~Signals(w, c)'
  <2>1. Queue(c) = {} /\ \A w \in Workers : ~Signals(w, c)
    BY <1>1 DEF SyncInv, Reached
  <2>2. Queue(c)' = Queue(c) /\ \A w \in Workers : Signals(w, c)' <=> Signals(w, c)
    BY CallerSame
  <2> QED BY <2>1, <2>2
<1>13. Has(c, r)' /\ \A x : Has(c, x) => Has(c, x)'
  <2>1. Len(got[c]) + 1 \in 1 .. Len(got'[c]) /\ \A i \in 1 .. Len(got[c]) : i \in 1 .. Len(got'[c])
    BY <1>2, <1>8
  <2>2. Has(c, r)'
    BY <1>6, <1>8, <2>1 DEF Has
  <2>3. ASSUME NEW x, Has(c, x) PROVE Has(c, x)'
    <3>1. PICK i \in 1 .. Len(got[c]) : RankOf(got[c][i]) = x
      BY <2>3 DEF Has
    <3>2. i \in 1 .. Len(got'[c]) /\ RankOf(got'[c][i]) = x
      BY <1>8, <2>1, <3>1
    <3> QED BY <3>2 DEF Has
  <2> QED BY <2>2, <2>3
<1>14. \A i \in 1 .. cidx'[c] - 1 : \A x : x = call[c].ranks[i] => Has(c, x)'
  <2> SUFFICES ASSUME NEW i \in 1 .. cidx'[c] - 1, NEW x, x = call[c].ranks[i] PROVE Has(c, x)'
    OBVIOUS
  <2>1. i = cidx[c] \/ i \in 1 .. cidx[c] - 1
    BY <1>2, <1>10
  <2>2. CASE i = cidx[c]
    BY <1>3, <1>13, <2>2
  <2>3. CASE i \in 1 .. cidx[c] - 1
    <3>1. Has(c, x)
      BY <1>1, <2>3 DEF SyncInv, Covers
    <3> QED BY <1>13, <3>1
  <2> QED BY <2>1, <2>2, <2>3
<1>15. Covers(c)'
  <2>1. CASE cpc'[c] = "get"
    BY <1>5, <1>14, <2>1 DEF Covers
  <2>2. CASE cpc'[c] = "set"
    <3>1. full /\ cidx[c] = Len(call[c].ranks) /\ cidx'[c] - 1 = Len(call[c].ranks)
      BY <1>2, <1>10, <1>11, <2>2
    <3>2. Len(got'[c]) = Len(call[c].ranks) * call[c].nj
      BY <1>8, <1>9, <3>1
    <3>3. \A i \in 1 .. Len(call[c].ranks) : \A x : x = call[c].ranks[i] => Has(c, x)'
      BY <1>14, <3>1
    <3> QED BY <1>5, <2>2, <3>2, <3>3 DEF Covers
  <2> QED BY <1>11, <2>1, <2>2
<1> QED BY <1>1, <1>5, <1>11, <1>12, <1>15 DEF SyncInv, CallShape, Marked, Counts, Reached, Orders

LEMMA SyncDoJobs ==
  ASSUME Base, NEW c \in Callers, SyncInv(c), DoJobs(c)
  PROVE  SyncInv(c)'
<1>1. Inv /\ PlainInv /\ call[c].ranks \in Seq(Ranks)
  BY CallTypes DEF Base
<1>2. ~SeesCallback(call[c].op, call[c].ranks)
  BY <1>1, SeesNone
<1>3. cpc[c] = "do" /\ cpc' = [cpc EXCEPT ![c] = "add"] /\ UNCHANGED <<job, call, cidx, got, sync, syncMutex>>
  BY <1>2 DEF DoJobs, Goto, app, fifo, locks
<1>4. cpc'[c] = "add"
  BY <1>1, <1>3 DEF Inv, Typed
<1>5. Queue(c)' = {} /\ Queue(c) = {} /\ \A w \in Workers : ~Signals(w, c)'
  <2>1. Queue(c) = {} /\ \A w \in Workers : ~Signals(w, c)
    BY <1>3 DEF SyncInv, Reached
  <2>2. Queue(c)' = Queue(c) /\ \A w \in Workers : Signals(w, c)' <=> Signals(w, c)
    BY CallerSame
  <2> QED BY <2>1, <2>2
<1>6. \A r : Has(c, r)' <=> Has(c, r)
  BY <1>3 DEF Has
<1>7. Orders(c)'
  BY <1>3, <1>6 DEF SyncInv, Covers, Orders
<1>8. Hold(c)' = Hold(c)
  BY <1>3, <1>4 DEF Hold, Elems
<1>9. Pend(c)' = Pend(c)
  BY <1>5, <1>8 DEF Pend
<1>10. Marked(c)'
  BY <1>3, <1>4 DEF SyncInv, Marked
<1>11. Counts(c)'
  BY <1>3, <1>4, <1>9 DEF SyncInv, Counts
<1> QED BY <1>3, <1>4, <1>5, <1>7, <1>10, <1>11 DEF SyncInv, CallShape, Covers, Reached

LEMMA SyncAddDone ==
  ASSUME Base, NEW c \in Callers, SyncInv(c), AddDone(c)
  PROVE  SyncInv(c)'
<1>1. Inv /\ call[c].ranks \in Seq(Ranks)
  BY CallTypes DEF Base
<1>2. /\ cpc[c] = "add" /\ got[c] = <<>> /\ UNCHANGED <<job, call, cidx, got, sync>>
      /\ cpc' = [cpc EXCEPT ![c] = IF call[c].op.sync THEN "wait" ELSE "idle"]
  BY DEF AddDone, AfterAdd, Goto, fifo
<1>3. cpc'[c] = IF call[c].op.sync THEN "wait" ELSE "idle"
  BY <1>1, <1>2 DEF Inv, Typed
<1>4. /\ Queue(c)' = Queue(c) /\ \A w \in Workers : Signals(w, c)' <=> Signals(w, c)
      /\ \A r \in Ranks : Ordered(r, c)' <=> Ordered(r, c)
  BY CallerSame
<1>5. CASE ~call[c].op.sync
  <2>1. Queue(c) = {} /\ \A w \in Workers : ~Signals(w, c)
    BY <1>5 DEF SyncInv, Reached
  <2> QED BY <1>3, <1>4, <1>5, <2>1, SyncQuiet
<1>6. CASE call[c].op.sync
  <2>1. cpc'[c] = "wait"
    BY <1>3, <1>6
  <2>2. \A r : Has(c, r)' <=> Has(c, r)
    BY <1>2 DEF Has
  <2>3. Hold(c) = {} /\ Hold(c)' = {}
    <3>1. Elems(got[c]) = {}
      BY <1>2 DEF Elems
    <3> QED BY <2>1, <3>1 DEF Hold
  <2>4. Pend(c)' = Pend(c)
    BY <1>4, <2>3 DEF Pend
  <2>5. Orders(c)'
    BY <1>1, <1>2, <1>4, <2>1, <2>2 DEF SyncInv, Orders
  <2>6. Counts(c)'
    BY <1>2, <1>6, <2>1, <2>4 DEF SyncInv, Counts
  <2>7. Reached(c)'
    BY <1>2, <1>4, <1>6, <2>1, <2>4 DEF SyncInv, Reached
  <2> QED BY <1>2, <1>6, <2>1, <2>5, <2>6, <2>7 DEF SyncInv, CallShape, Covers, Marked
<1> QED BY <1>5, <1>6


\* One slot of every rank is the SYNC job: the only one, or the second of two.
LEMMA SyncSlots ==
  ASSUME NEW S, NEW g \in Seq(S), NoDuplicate(g), NEW n \in Nat, NEW j \in {1, 2}, Len(g) = n * j
  PROVE  /\ IsFiniteSet({g[i] : i \in {k \in 1 .. Len(g) : j = 1 \/ SyncSlot(k)}})
         /\ Cardinality({g[i] : i \in {k \in 1 .. Len(g) : j = 1 \/ SyncSlot(k)}}) = n
<1> DEFINE T == {g[i] : i \in {k \in 1 .. Len(g) : j = 1 \/ SyncSlot(k)}}
           f == [k \in 1 .. n |-> g[k * j]]
<1>1. ASSUME NEW k \in 1 .. n PROVE k * j \in 1 .. Len(g) /\ (j = 1 \/ SyncSlot(k * j))
  <2>1. CASE j = 1
    BY <2>1
  <2>2. CASE j = 2
    <3>1. (2 * k) % 2 = 0
      OBVIOUS
    <3>2. k * j = 2 * k /\ 2 * k \in 1 .. Len(g)
      BY <2>2
    <3> QED BY <3>1, <3>2 DEF SyncSlot
  <2> QED BY <2>1, <2>2
<1>2. f \in [1 .. n -> T]
  BY <1>1
<1>3. ASSUME NEW k \in 1 .. n, NEW l \in 1 .. n, f[k] = f[l] PROVE k = l
  <2>1. k * j = l * j
    BY <1>1, <1>3 DEF NoDuplicate
  <2> QED BY <2>1
<1>4. ASSUME NEW x \in T PROVE \E k \in 1 .. n : f[k] = x
  <2>1. PICK i \in 1 .. Len(g) : x = g[i] /\ (j = 1 \/ SyncSlot(i))
    OBVIOUS
  <2>2. CASE j = 1
    <3>1. i \in 1 .. n /\ i * j = i
      BY <2>2
    <3> QED BY <2>1, <3>1
  <2>3. CASE j = 2
    <3>1. i % 2 = 0 /\ Len(g) = 2 * n
      BY <2>1, <2>3 DEF SyncSlot
    <3>2. i = 2 * (i \div 2) /\ i \div 2 \in 1 .. n
      BY <3>1
    <3>3. PICK k \in 1 .. n : i = 2 * k
      BY <3>2
    <3>4. k * j = i
      BY <2>3, <3>3
    <3> QED BY <2>1, <3>4
  <2> QED BY <2>2, <2>3
<1> HIDE DEF f, T
<1>5. f \in Injection(1 .. n, T)
  BY <1>2, <1>3 DEF Injection, IsInjective
<1>6. f \in Surjection(1 .. n, T)
  BY <1>2, <1>4 DEF Surjection
<1>7. IsFiniteSet(1 .. n) /\ Cardinality(1 .. n) = n
  <2>1. IsFiniteSet(1 .. n) /\ Cardinality(1 .. n) = IF 1 > n THEN 0 ELSE n - 1 + 1
    BY FS_Interval
  <2> QED BY <2>1
<1>8. IsFiniteSet(T) /\ Cardinality(T) = n
  BY <1>5, <1>6, <1>7, FS_Surjection
<1> QED BY <1>8 DEF T

\* What SET_JOBS makes of the state.
LEMMA SetJobsIs ==
  ASSUME NoCallbacks, Base, NEW c \in Callers, SetJobs(c)
  PROVE  /\ cpc[c] = "set" /\ cpc'[c] = "do" /\ \A d \in Callers \ {c} : cpc'[d] = cpc[d]
         /\ got' = got /\ UNCHANGED <<jobs, wpc, wjob, call, cidx, sync, syncMutex>>
         /\ \A s \in Slots : s \notin Elems(got[c]) => job'[s] = job[s]
         /\ \A i \in 1 .. Len(got[c]) :
              /\ job'[got[c][i]].owner = c
              /\ job'[got[c][i]].type = IF call[c].nj = 2 /\ SyncSlot(i) THEN "sync" ELSE call[c].op.type
<1>1. Inv /\ SlotInv /\ PlainInv /\ call[c].ranks \in Seq(Ranks)
  BY CallTypes DEF Base
<1>2. cpc[c] = "set"
  BY DEF SetJobs
<1>3. ~Single(c)
  BY <1>1, <1>2, NoCallbacksNoSingle DEF Inv, CallerInv, NoSingle, Single
<1>4. ~SeesCallback(call[c].op, call[c].ranks)
  BY <1>1, SeesNone
<1>5. /\ cpc' = [cpc EXCEPT ![c] = "do"] /\ got' = [got EXCEPT ![c] = got[c]]
      /\ job' = [s \in Slots |-> IF s \in Elems(got[c]) THEN Filled(c, s) ELSE job[s]]
      /\ UNCHANGED <<jobs, wpc, wjob, call, cidx, sync, syncMutex>>
  BY <1>3, <1>4 DEF SetJobs, Goto, wrk, locks
<1>6. cpc'[c] = "do" /\ got' = got /\ \A d \in Callers \ {c} : cpc'[d] = cpc[d]
  BY <1>1, <1>5 DEF Inv, Typed
<1>7. ASSUME NEW i \in 1 .. Len(got[c])
      PROVE  /\ job'[got[c][i]].owner = c
             /\ job'[got[c][i]].type = IF call[c].nj = 2 /\ SyncSlot(i) THEN "sync" ELSE call[c].op.type
  <2>1. got[c][i] \in Slots /\ got[c][i] \in Elems(got[c])
    BY <1>1 DEF Inv, Typed, Elems
  <2>2. job'[got[c][i]] = Filled(c, got[c][i])
    BY <1>5, <2>1
  <2>3. /\ Filled(c, got[c][i]).owner = c
        /\ Filled(c, got[c][i]).type = IF call[c].nj = 2 /\ SyncSlot(i) THEN "sync" ELSE call[c].op.type
    BY <1>1, <1>2, FilledAs
  <2> QED BY <2>2, <2>3
<1>8. \A s \in Slots : s \notin Elems(got[c]) => job'[s] = job[s]
  BY <1>5
<1> QED BY <1>2, <1>5, <1>6, <1>7, <1>8

\* The jobs of the FIFOs, and those workers signal for, are not written.
LEMMA SetJobsApart ==
  ASSUME NoCallbacks, Base, NEW c \in Callers, SetJobs(c), NEW d \in Callers
  PROVE  /\ Queue(d)' = Queue(d)
         /\ \A w \in Workers : Signals(w, d)' <=> Signals(w, d)
         /\ \A r \in Ranks : Ordered(r, d)' <=> Ordered(r, d)
<1>1. Inv /\ SlotInv /\ HeadInv
  BY DEF Base
<1>2. UNCHANGED <<jobs, wpc, wjob>> /\ \A s \in Slots : s \notin Elems(got[c]) => job'[s] = job[s]
  BY SetJobsIs
<1>3. ASSUME NEW r \in Ranks, NEW s \in Elems(jobs[r]) PROVE s \in Slots /\ job'[s] = job[s]
  <2>1. s \in Slots
    BY <1>1 DEF Inv, Typed, Elems
  <2>2. s \notin Elems(got[c])
    BY <1>1, GotApart
  <2> QED BY <1>2, <2>1, <2>2
<1>4. Queue(d)' = Queue(d)
  <2>1. \A s \in Slots : RankOf(s) \in Ranks
    BY SlotRank
  <2>2. \A s : Counted(s)' <=> Counted(s)
    BY <1>2 DEF Counted
  <2> QED BY <1>2, <1>3, <2>1, <2>2 DEF Queue
<1>5. ASSUME NEW w \in Workers PROVE Signals(w, d)' <=> Signals(w, d)
  <2>1. CASE wpc[w] \in {"signal", "drainsig"}
    <3>1. wjob[w] \in Slots
      BY <1>1 DEF Inv, Typed
    <3>2. wjob[w] \notin Elems(got[c])
      BY <1>1, <2>1, GotApart DEF Runs
    <3> QED BY <1>2, <3>1, <3>2 DEF Signals
  <2>2. CASE wpc[w] \notin {"signal", "drainsig"}
    BY <1>2, <2>2 DEF Signals
  <2> QED BY <2>1, <2>2
<1>6. ASSUME NEW r \in Ranks PROVE Ordered(r, d)' <=> Ordered(r, d)
  <2>1. \A i \in 1 .. Len(jobs[r]) : job'[jobs[r][i]] = job[jobs[r][i]]
    BY <1>3 DEF Elems
  <2> QED BY <1>2, <2>1 DEF Ordered
<1> QED BY <1>4, <1>5, <1>6


LEMMA SyncSetJobsOthers ==
  ASSUME NoCallbacks, Base, NEW c \in Callers, SetJobs(c), NEW d \in Callers, d # c, SyncInv(d)
  PROVE  SyncInv(d)'
<1>1. Inv /\ SlotInv /\ HeadInv
  BY DEF Base
<1>2. /\ cpc'[d] = cpc[d] /\ got' = got /\ UNCHANGED <<call, cidx, sync, syncMutex>>
      /\ \A s \in Slots : s \notin Elems(got[c]) => job'[s] = job[s]
  BY SetJobsIs
<1>3. /\ Queue(d)' = Queue(d) /\ \A w \in Workers : Signals(w, d)' <=> Signals(w, d)
      /\ \A r \in Ranks : Ordered(r, d)' <=> Ordered(r, d)
  BY SetJobsApart
<1>4. \A i \in 1 .. Len(got[d]) : job'[got[d][i]] = job[got[d][i]]
  <2> SUFFICES ASSUME NEW i \in 1 .. Len(got[d]) PROVE job'[got[d][i]] = job[got[d][i]]
    OBVIOUS
  <2>1. got[d][i] \in Slots /\ got[d][i] \in Elems(got[d])
    BY <1>1 DEF Inv, Typed, Elems
  <2>2. got[d][i] \notin Elems(got[c])
    BY <1>1, <2>1, GotApart
  <2> QED BY <1>2, <2>1, <2>2
<1>5. Stays(cpc[d], cpc'[d])
  BY <1>2 DEF Stays
<1> QED BY <1>1, <1>2, <1>3, <1>4, <1>5, SyncFrame

LEMMA SyncSetJobs ==
  ASSUME NoCallbacks, Base, NEW c \in Callers, SyncInv(c), SetJobs(c)
  PROVE  SyncInv(c)'
<1>1. /\ Inv /\ SlotInv /\ call[c].nj \in {1, 2} /\ got[c] \in Seq(Slots) /\ Len(call[c].ranks) \in Nat
      /\ NoDuplicate(got[c])
  BY CallTypes DEF Base, SlotInv, NoTwice
<1>2. /\ cpc[c] = "set" /\ cpc'[c] = "do" /\ got' = got
      /\ UNCHANGED <<call, cidx, sync, syncMutex>>
  BY SetJobsIs
<1>3. \A i \in 1 .. Len(got[c]) :
        /\ job'[got[c][i]].owner = c
        /\ job'[got[c][i]].type = IF call[c].nj = 2 /\ SyncSlot(i) THEN "sync" ELSE call[c].op.type
  BY SetJobsIs
<1>4. /\ call[c].op.sync /\ call[c].nj = 1 <=> call[c].op.type = "sync"
      /\ call[c].nj = 2 => call[c].op.sync
  BY <1>2 DEF SyncInv, CallShape
<1>5. \A i \in 1 .. Len(got[c]) :
        job'[got[c][i]].type = "sync" <=> call[c].op.sync /\ (call[c].nj = 1 \/ SyncSlot(i))
  BY <1>1, <1>3, <1>4
<1>6. Marked(c)'
  BY <1>2, <1>3, <1>5 DEF Marked
<1>7. Queue(c)' = {} /\ \A w \in Workers : ~Signals(w, c)'
  <2>1. Queue(c) = {} /\ \A w \in Workers : ~Signals(w, c)
    BY <1>2 DEF SyncInv, Reached
  <2>2. Queue(c)' = Queue(c) /\ \A w \in Workers : Signals(w, c)' <=> Signals(w, c)
    BY SetJobsApart
  <2> QED BY <2>1, <2>2
<1>8. Covers(c)'
  <2>1. \A r : Has(c, r)' <=> Has(c, r)
    BY <1>2 DEF Has
  <2> QED BY <1>2, <2>1 DEF SyncInv, Covers
<1>9. call[c].op.sync => IsFiniteSet(Pend(c)') /\ sync'[c].nr = Cardinality(Pend(c)')
  <2> SUFFICES ASSUME call[c].op.sync PROVE IsFiniteSet(Pend(c)') /\ sync'[c].nr = Cardinality(Pend(c)')
    OBVIOUS
  <2>1. PICK g : g = got[c]
    OBVIOUS
  <2>2. PICK n \in Nat : n = Len(call[c].ranks)
    BY <1>1
  <2>3. PICK j \in {1, 2} : j = call[c].nj
    BY <1>1
  <2>4. PICK T : T = {g[i] : i \in {k \in 1 .. Len(g) : j = 1 \/ SyncSlot(k)}}
    OBVIOUS
  <2>5. Len(g) = n * j
    BY <1>2, <2>1, <2>2, <2>3 DEF SyncInv, Covers
  <2>6. IsFiniteSet(T) /\ Cardinality(T) = n
    <3>1. g \in Seq(Slots) /\ NoDuplicate(g)
      BY <1>1, <2>1
    <3>2. /\ IsFiniteSet({g[i] : i \in {k \in 1 .. Len(g) : j = 1 \/ SyncSlot(k)}})
          /\ Cardinality({g[i] : i \in {k \in 1 .. Len(g) : j = 1 \/ SyncSlot(k)}}) = n
      BY <2>5, <3>1, SyncSlots
    <3> QED BY <2>4, <3>2, Zenon
  <2>7. Hold(c)' = T
    <3>1. Hold(c)' = {s \in Elems(got[c]) : job'[s].type = "sync"}
      BY <1>2 DEF Hold, Elems
    <3>2. \A i \in 1 .. Len(g) : job'[g[i]].type = "sync" <=> j = 1 \/ SyncSlot(i)
      BY <1>5, <2>1, <2>3
    <3>3. {s \in Elems(g) : job'[s].type = "sync"} = T
      BY <2>4, <3>2 DEF Elems
    <3> QED BY <2>1, <3>1, <3>3
  <2>8. Pend(c)' = T
    BY <1>7, <2>7 DEF Pend
  <2>9. sync'[c].nr = n
    BY <1>2, <2>2 DEF SyncInv, Counts
  <2> QED BY <2>6, <2>8, <2>9
<1>10. Counts(c)'
  BY <1>2, <1>9 DEF SyncInv, Counts
<1>11. Reached(c)'
  BY <1>7 DEF Reached
<1>12. CallShape(c)' /\ Orders(c)'
  BY <1>2, <1>4 DEF CallShape, Orders
<1> QED BY <1>6, <1>8, <1>10, <1>11, <1>12 DEF SyncInv

-----------------------------------------------------------------------------
(* Jobs enter the FIFOs                                                    *)

\* The slots of one rank are appended, or the caller goes for the queue's mutex.
Appends(c, r) ==
  /\ jobs' = [jobs EXCEPT ![r] = jobs[r] \o Taken(c)] /\ got' = [got EXCEPT ![c] = Left(c)]
  /\ cpc' = [cpc EXCEPT ![c] = "add"]

LEMMA AddIs ==
  ASSUME Base, NEW c \in Callers, AddJobs(c) \/ AddFirst(c)
  PROVE  /\ cpc[c] \in {"add", "addq"} /\ got[c] # <<>> /\ RankOf(got[c][1]) \in Ranks
         /\ UNCHANGED <<job, wpc, wjob, call, cidx, sync, syncMutex>>
         /\ \/ UNCHANGED <<jobs, got>> /\ cpc[c] = "add" /\ cpc' = [cpc EXCEPT ![c] = "addq"]
            \/ Appends(c, RankOf(got[c][1]))
<1>1. Inv /\ cpc \in [Callers -> CallerPC]
  BY DEF Base, Inv, Typed
<1>2. cpc[c] \in {"add", "addq"} /\ got[c] # <<>>
  BY <1>1 DEF AddJobs, AddFirst, Inv, Entering
<1>3. RankOf(got[c][1]) \in Ranks
  BY <1>1, <1>2, HeadSlots
<1>4. UNCHANGED <<job, wpc, wjob, call, cidx, sync, syncMutex>>
  BY DEF AddJobs, AddFirst, wrk
<1>5. CASE AddJobs(c)
  <2>1. \/ UNCHANGED <<jobs, got>> /\ cpc[c] = "add" /\ cpc' = [cpc EXCEPT ![c] = "addq"]
        \/ /\ jobs' = [jobs EXCEPT ![RankOf(got[c][1])] = jobs[RankOf(got[c][1])] \o Taken(c)]
           /\ got' = [got EXCEPT ![c] = Left(c)] /\ cpc' = cpc /\ cpc[c] = "add"
    BY <1>5 DEF AddJobs, Goto, Taken, Left
  <2>2. cpc[c] = "add" => cpc = [cpc EXCEPT ![c] = "add"]
    BY <1>1
  <2> QED BY <1>2, <1>3, <1>4, <2>1, <2>2 DEF Appends
<1>6. CASE AddFirst(c)
  BY <1>2, <1>3, <1>4, <1>6 DEF AddFirst, Goto, Taken, Left, Appends
<1> QED BY <1>5, <1>6

\* What is appended: jobs of the caller, the last one a SYNC job in a
\* synchronous call.
LEMMA TakenIs ==
  ASSUME Base, NEW c \in Callers, SyncInv(c), cpc[c] \in {"add", "addq"}, got[c] # <<>>
  PROVE  /\ Taken(c) \in Seq(Slots) /\ Left(c) \in Seq(Slots) /\ Taken(c) # <<>>
         /\ Elems(got[c]) = Elems(Taken(c)) \cup Elems(Left(c))
         /\ Elems(Taken(c)) \cap Elems(Left(c)) = {}
         /\ \A i \in 1 .. Len(Taken(c)) : job[Taken(c)[i]].owner = c /\ RankOf(Taken(c)[i]) = RankOf(got[c][1])
         /\ call[c].op.sync => job[Taken(c)[Len(Taken(c))]].type = "sync"
         /\ call[c].nj \in {1, 2} /\ Len(Left(c)) = Len(got[c]) - call[c].nj /\ Len(got[c]) \in Nat
         /\ \A i \in 1 .. Len(Left(c)) : Left(c)[i] = got[c][i + call[c].nj]
<1>1. Inv /\ SlotInv /\ cpc[c] \in {"unget", "add", "addq"}
  BY DEF Base
<1>2. /\ Taken(c) \in Seq(Slots) /\ Left(c) \in Seq(Slots)
      /\ Elems(Taken(c)) \subseteq Elems(got[c]) /\ Elems(Left(c)) \subseteq Elems(got[c]) \ Elems(Taken(c))
      /\ Len(Taken(c)) = call[c].nj /\ Taken(c)[1] = got[c][1]
      /\ call[c].nj = 2 => Taken(c)[2] = got[c][2]
  BY <1>1, HeadCut
<1>3. /\ call[c].nj \in {1, 2} /\ call[c].nj <= Len(got[c]) /\ got[c] \in Seq(Slots) /\ Len(got[c]) \in Nat
      /\ \A i \in 1 .. call[c].nj : RankOf(got[c][i]) = RankOf(got[c][1])
  BY <1>1, HeadSlots
<1>4. PICK g, n, a, b : g = got[c] /\ n = call[c].nj /\ a = Taken(c) /\ b = Left(c)
  OBVIOUS
<1>5. n \in {1, 2} /\ n <= Len(g) /\ g \in Seq(Slots) /\ n \in Nat
  BY <1>3, <1>4
<1>6. /\ Len(b) = Len(g) - n
      /\ \A i \in 1 .. Len(g) - n : b[i] = g[i + n]
  <2>1. b = SubSeq(g, n + 1, Len(g))
    BY <1>4 DEF Left
  <2> QED BY <1>5, <2>1, RestOf
<1>7. \A i \in 1 .. n : a[i] = g[i] /\ i \in 1 .. Len(g)
  <2>1. \A i \in 1 .. n : i = 1 \/ (i = 2 /\ n = 2)
    BY <1>5
  <2>2. \A i \in 1 .. n : i \in 1 .. Len(g)
    BY <1>5
  <2> QED BY <1>2, <1>4, <2>1, <2>2
<1>8. \A i \in 1 .. Len(g) : job[g[i]].owner = c /\ (job[g[i]].type = "sync" <=> call[c].op.sync /\ (n = 1 \/ SyncSlot(i)))
  BY <1>4 DEF SyncInv, Marked
<1>9. \A i \in 1 .. Len(a) : job[a[i]].owner = c /\ RankOf(a[i]) = RankOf(g[1])
  BY <1>2, <1>3, <1>4, <1>7, <1>8
<1>10. call[c].op.sync => job[a[Len(a)]].type = "sync"
  <2>1. Len(a) = n /\ n \in 1 .. n
    BY <1>2, <1>4, <1>5
  <2>2. n = 1 \/ SyncSlot(n)
    BY <1>5 DEF SyncSlot
  <2> QED BY <1>7, <1>8, <2>1, <2>2
<1>11. a # <<>>
  BY <1>2, <1>4, <1>5
<1>12. ASSUME NEW x \in Elems(g), x \notin Elems(b) PROVE x \in Elems(a)
  <2>1. PICK i \in 1 .. Len(g) : x = g[i]
    BY DEF Elems
  <2>2. CASE i \in 1 .. n
    <3>1. x = a[i] /\ i \in 1 .. Len(a)
      BY <1>2, <1>4, <1>7, <2>1, <2>2
    <3> QED BY <3>1 DEF Elems
  <2>3. CASE i \notin 1 .. n
    <3>1. PICK k \in 1 .. Len(b) : k + n = i
      <4>1. i - n \in 1 .. Len(b) /\ (i - n) + n = i
        BY <1>5, <1>6, <2>3
      <4> QED BY <4>1
    <3>2. b[k] = x
      BY <1>6, <2>1, <3>1
    <3> QED BY <1>12, <3>2 DEF Elems
  <2> QED BY <2>2, <2>3
<1>13. Elems(g) = Elems(a) \cup Elems(b) /\ Elems(a) \cap Elems(b) = {}
  BY <1>2, <1>4, <1>12
<1> QED BY <1>2, <1>3, <1>4, <1>6, <1>9, <1>10, <1>11, <1>13


LEMMA AppendedQueue ==
  ASSUME Base, NEW c \in Callers, SyncInv(c), cpc[c] \in {"add", "addq"}, got[c] # <<>>,
         NEW r \in Ranks, r = RankOf(got[c][1]), Appends(c, r), UNCHANGED <<job, wpc, wjob>>, NEW d \in Callers
  PROVE  /\ Queue(d)' = Queue(d) \cup {s \in Elems(Taken(c)) : job[s].type = "sync" /\ d = c}
         /\ \A w \in Workers : Signals(w, d)' <=> Signals(w, d)
<1>1. Inv /\ SlotInv /\ HeadInv /\ jobs \in [Ranks -> Seq(Slots)]
  BY DEF Base, Inv, Typed
<1>2. PICK t : t = Taken(c)
  OBVIOUS
<1>3. t \in Seq(Slots) /\ Elems(t) \subseteq Elems(got[c]) /\ \A i \in 1 .. Len(t) : job[t[i]].owner = c /\ RankOf(t[i]) = r
  BY <1>2, TakenIs
<1>4. jobs'[r] = jobs[r] \o t /\ \A x \in Ranks \ {r} : jobs'[x] = jobs[x]
  BY <1>1, <1>2 DEF Appends
<1>5. Elems(jobs'[r]) = Elems(jobs[r]) \cup Elems(t)
  BY <1>1, <1>3, <1>4, ConcatElems
<1>6. \A s : Counted(s)' <=> Counted(s)
  BY DEF Counted
<1>7. \A s \in Elems(t) : s \in Slots /\ job[s].owner = c /\ RankOf(s) = r /\ ~Counted(s)
  <2> SUFFICES ASSUME NEW s \in Elems(t) PROVE s \in Slots /\ job[s].owner = c /\ RankOf(s) = r /\ ~Counted(s)
    OBVIOUS
  <2>1. s \in Slots /\ job[s].owner = c /\ RankOf(s) = r
    BY <1>3 DEF Elems
  <2>2. s \in Elems(got[c])
    BY <1>3
  <2>3. ~Counted(s)
    BY <1>1, <2>2, GotApart DEF Counted, Runs
  <2> QED BY <2>1, <2>3
<1>8. ASSUME NEW s \in Slots
      PROVE  s \in Queue(d)' <=> s \in Queue(d) \/ (s \in Elems(t) /\ job[s].type = "sync" /\ d = c)
  <2>1. RankOf(s) \in Ranks
    BY SlotRank
  <2>2. s \in Elems(jobs'[RankOf(s)]) <=> s \in Elems(jobs[RankOf(s)]) \/ s \in Elems(t)
    BY <1>4, <1>5, <1>7, <2>1
  <2> QED BY <1>6, <1>7, <2>2 DEF Queue
<1>9. Queue(d)' = Queue(d) \cup {s \in Elems(t) : job[s].type = "sync" /\ d = c}
  <2>1. Queue(d) \subseteq Slots /\ Queue(d)' \subseteq Slots
    BY DEF Queue
  <2> QED BY <1>7, <1>8, <2>1
<1>10. \A w \in Workers : Signals(w, d)' <=> Signals(w, d)
  BY DEF Signals
<1> QED BY <1>2, <1>9, <1>10

LEMMA SyncAddOthers ==
  ASSUME Base, NEW c \in Callers, SyncInv(c), AddJobs(c) \/ AddFirst(c), NEW d \in Callers, d # c, SyncInv(d)
  PROVE  SyncInv(d)'
<1>1. Inv /\ cpc \in [Callers -> CallerPC] /\ got \in [Callers -> Seq(Slots)] /\ jobs \in [Ranks -> Seq(Slots)]
  BY DEF Base, Inv, Typed
<1>2. PICK r \in Ranks : r = RankOf(got[c][1])
  BY AddIs
<1>3. /\ cpc[c] \in {"add", "addq"} /\ got[c] # <<>> /\ UNCHANGED <<job, wpc, wjob, call, cidx, sync, syncMutex>>
      /\ \/ UNCHANGED <<jobs, got>> /\ cpc' = [cpc EXCEPT ![c] = "addq"]
         \/ Appends(c, r)
  BY <1>2, AddIs
<1>4. cpc'[d] = cpc[d] /\ got'[d] = got[d]
  BY <1>1, <1>3 DEF Appends
<1>5. Stays(cpc[d], cpc'[d])
  BY <1>4 DEF Stays
<1>6. CASE UNCHANGED <<jobs, got>>
  <2>1. Queue(d)' = Queue(d)
    BY <1>3, <1>6 DEF Queue, Counted
  <2>2. \A w \in Workers : Signals(w, d)' => Signals(w, d)
    BY <1>3 DEF Signals
  <2>3. \A x \in Ranks : Ordered(x, d) => Ordered(x, d)'
    BY <1>3, <1>6 DEF Ordered
  <2> QED BY <1>1, <1>3, <1>4, <1>5, <2>1, <2>2, <2>3, SyncFrame
<1>7. CASE Appends(c, r)
  <2>1. Queue(d)' = Queue(d) /\ \A w \in Workers : Signals(w, d)' => Signals(w, d)
    <3>1. /\ Queue(d)' = Queue(d) \cup {s \in Elems(Taken(c)) : job[s].type = "sync" /\ d = c}
          /\ \A w \in Workers : Signals(w, d)' <=> Signals(w, d)
      BY <1>2, <1>3, <1>7, AppendedQueue
    <3> QED BY <3>1
  <2>2. Taken(c) \in Seq(Slots) /\ \A i \in 1 .. Len(Taken(c)) : job[Taken(c)[i]].owner # d
    <3>1. Taken(c) \in Seq(Slots) /\ \A i \in 1 .. Len(Taken(c)) : job[Taken(c)[i]].owner = c
      BY <1>3, TakenIs
    <3> QED BY <3>1
  <2>3. jobs'[r] = jobs[r] \o Taken(c) /\ \A x \in Ranks \ {r} : jobs'[x] = jobs[x]
    BY <1>1, <1>7 DEF Appends
  <2>4. ASSUME NEW x \in Ranks, Ordered(x, d) PROVE Ordered(x, d)'
    <3>1. CASE x = r
      BY <1>1, <1>3, <2>2, <2>3, <2>4, <3>1, OrderedAppended
    <3>2. CASE x # r
      BY <1>3, <2>3, <2>4, <3>2, OrderedSame
    <3> QED BY <3>1, <3>2
  <2> QED BY <1>1, <1>3, <1>4, <1>5, <2>1, <2>4, SyncFrame
<1> QED BY <1>3, <1>6, <1>7

LEMMA OrdersKept ==
  ASSUME NEW c \in Callers, call[c].ranks \in Seq(Ranks), call'[c] = call[c], Orders(c),
         cpc[c] \in {"add", "addq", "wait", "woken"},
         \A x \in Ranks : call[c].op.sync /\ (Has(c, x) \/ Ordered(x, c)) => Has(c, x)' \/ Ordered(x, c)'
  PROVE  Orders(c)'
<1> SUFFICES ASSUME call[c].op.sync, NEW i \in 1 .. Len(call[c].ranks), NEW x, x = call[c].ranks[i]
             PROVE  Has(c, x)' \/ Ordered(x, c)'
  BY DEF Orders
<1>1. x \in Ranks
  OBVIOUS
<1>2. Has(c, x) \/ Ordered(x, c)
  BY DEF Orders
<1> QED BY <1>1, <1>2

LEMMA SyncAdd ==
  ASSUME Base, NEW c \in Callers, SyncInv(c), AddJobs(c) \/ AddFirst(c)
  PROVE  SyncInv(c)'
<1>1. /\ Inv /\ cpc \in [Callers -> CallerPC] /\ got \in [Callers -> Seq(Slots)] /\ jobs \in [Ranks -> Seq(Slots)]
      /\ call[c].ranks \in Seq(Ranks)
  BY CallTypes DEF Base, Inv, Typed
<1>2. PICK r \in Ranks : r = RankOf(got[c][1])
  BY AddIs
<1>3. /\ cpc[c] \in {"add", "addq"} /\ got[c] # <<>> /\ UNCHANGED <<job, wpc, wjob, call, cidx, sync, syncMutex>>
      /\ \/ UNCHANGED <<jobs, got>> /\ cpc' = [cpc EXCEPT ![c] = "addq"]
         \/ Appends(c, r)
  BY <1>2, AddIs
<1>4. CASE UNCHANGED <<jobs, got>> /\ cpc' = [cpc EXCEPT ![c] = "addq"]
  <2>1. cpc'[c] = "addq"
    BY <1>1, <1>4
  <2>2. Queue(c)' = Queue(c)
    BY <1>3, <1>4 DEF Queue, Counted
  <2>3. Hold(c)' = Hold(c)
    BY <1>3, <1>4, <2>1 DEF Hold, Elems
  <2>4. Pend(c)' = Pend(c)
    BY <2>2, <2>3 DEF Pend
  <2>5. \A w \in Workers : Signals(w, c)' <=> Signals(w, c)
    BY <1>3 DEF Signals
  <2>6. CallShape(c)' /\ Covers(c)'
    BY <1>3, <2>1 DEF SyncInv, CallShape, Covers
  <2>7. Marked(c)'
    BY <1>3, <1>4, <2>1 DEF SyncInv, Marked
  <2>8. Counts(c)'
    BY <1>3, <2>1, <2>4 DEF SyncInv, Counts
  <2>9. Reached(c)'
    BY <1>3, <2>1, <2>2, <2>4, <2>5 DEF SyncInv, Reached
  <2>10. Orders(c)'
    <3>1. \A x : Has(c, x)' <=> Has(c, x)
      BY <1>4 DEF Has
    <3>2. \A x \in Ranks : Ordered(x, c)' <=> Ordered(x, c)
      BY <1>3, <1>4 DEF Ordered
    <3>3. \A x \in Ranks : call[c].op.sync /\ (Has(c, x) \/ Ordered(x, c)) => Has(c, x)' \/ Ordered(x, c)'
      BY <3>1, <3>2
    <3> QED BY <1>1, <1>3, <3>3, OrdersKept DEF SyncInv
  <2> QED BY <2>6, <2>7, <2>8, <2>9, <2>10 DEF SyncInv
<1>5. CASE Appends(c, r)
  <2>1. PICK t, g, n : t = Taken(c) /\ g = Left(c) /\ n = call[c].nj
    OBVIOUS
  <2>2. /\ t \in Seq(Slots) /\ g \in Seq(Slots) /\ t # <<>> /\ Elems(got[c]) = Elems(t) \cup Elems(g)
        /\ Elems(t) \cap Elems(g) = {}
        /\ \A i \in 1 .. Len(t) : job[t[i]].owner = c /\ RankOf(t[i]) = r
        /\ call[c].op.sync => job[t[Len(t)]].type = "sync"
        /\ n \in {1, 2} /\ Len(g) = Len(got[c]) - n /\ Len(got[c]) \in Nat
        /\ \A i \in 1 .. Len(g) : g[i] = got[c][i + n]
    BY <1>2, <1>3, <2>1, TakenIs
  <2>3. cpc'[c] = "add" /\ got'[c] = g
    BY <1>1, <1>5, <2>1 DEF Appends
  <2>4. jobs'[r] = jobs[r] \o t /\ \A x \in Ranks \ {r} : jobs'[x] = jobs[x]
    BY <1>1, <1>5, <2>1 DEF Appends
  <2>5. Queue(c)' = Queue(c) \cup {s \in Elems(t) : job[s].type = "sync"}
        /\ \A w \in Workers : Signals(w, c)' <=> Signals(w, c)
    <3>1. /\ Queue(c)' = Queue(c) \cup {s \in Elems(Taken(c)) : job[s].type = "sync" /\ c = c}
          /\ \A w \in Workers : Signals(w, c)' <=> Signals(w, c)
      BY <1>2, <1>3, <1>5, AppendedQueue
    <3> QED BY <2>1, <3>1
  <2>6. Hold(c) = {s \in Elems(got[c]) : job[s].type = "sync"} /\ Hold(c)' = {s \in Elems(g) : job[s].type = "sync"}
    BY <1>3, <2>3 DEF Hold, Elems
  <2>7. Pend(c)' = Pend(c)
    BY <2>2, <2>5, <2>6 DEF Pend
  <2>8. ASSUME NEW i \in 1 .. Len(g)
        PROVE  i + n \in 1 .. Len(got[c]) /\ (n = 1 \/ (SyncSlot(i + n) <=> SyncSlot(i)))
    <3>1. i + n \in 1 .. Len(got[c])
      BY <2>2
    <3>2. (i + 2) % 2 = 0 <=> i % 2 = 0
      OBVIOUS
    <3>3. n = 1 \/ n = 2
      BY <2>2
    <3> QED BY <3>1, <3>2, <3>3 DEF SyncSlot
  <2>9. Marked(c)'
    <3>1. \A i \in 1 .. Len(got[c]) :
            /\ job[got[c][i]].owner = c
            /\ job[got[c][i]].type = "sync" <=> call[c].op.sync /\ (n = 1 \/ SyncSlot(i))
      BY <1>3, <2>1 DEF SyncInv, Marked
    <3>2. ASSUME NEW i \in 1 .. Len(g)
          PROVE  job[g[i]].owner = c /\ (job[g[i]].type = "sync" <=> call[c].op.sync /\ (n = 1 \/ SyncSlot(i)))
      <4>1. PICK k \in 1 .. Len(got[c]) : k = i + n /\ (n = 1 \/ (SyncSlot(k) <=> SyncSlot(i)))
        BY <2>8
      <4>2. g[i] = got[c][k]
        BY <2>2, <4>1
      <4> QED BY <3>1, <4>1, <4>2
    <3> QED BY <1>3, <2>1, <2>3, <3>2 DEF Marked
  <2>10. CallShape(c)' /\ Covers(c)'
    BY <1>3, <2>3 DEF SyncInv, CallShape, Covers
  <2>11. Counts(c)'
    BY <1>3, <2>3, <2>7 DEF SyncInv, Counts
  <2>12. Reached(c)'
    <3>1. Queue(c)' # {} => Pend(c) # {}
      BY <2>7 DEF Pend
    <3>2. Pend(c) # {} => call[c].op.sync
      <4>1. Queue(c) # {} => call[c].op.sync
        BY DEF SyncInv, Reached
      <4>2. Hold(c) # {} => call[c].op.sync
        BY <1>3, <2>6 DEF SyncInv, Marked, Elems
      <4> QED BY <4>1, <4>2 DEF Pend
    <3> QED BY <1>3, <2>3, <2>5, <2>7, <3>1, <3>2 DEF SyncInv, Reached
  <2>13. Orders(c)'
    <3> SUFFICES ASSUME call[c].op.sync, NEW x \in Ranks, Has(c, x) \/ Ordered(x, c)
                 PROVE  Has(c, x)' \/ Ordered(x, c)'
      <4>1. \A x \in Ranks : call[c].op.sync /\ (Has(c, x) \/ Ordered(x, c)) => Has(c, x)' \/ Ordered(x, c)'
        OBVIOUS
      <4> QED BY <1>1, <1>3, <4>1, OrdersKept DEF SyncInv
    <3>1. CASE x = r
      <4>1. job[t[Len(t)]].owner = c /\ job[t[Len(t)]].type = "sync"
        <5>1. Len(t) \in 1 .. Len(t)
          BY <2>2
        <5> QED BY <2>2, <5>1
      <4> QED BY <1>1, <1>3, <2>2, <2>4, <3>1, <4>1, OrderedAppended
    <3>2. CASE x # r /\ Ordered(x, c)
      BY <1>3, <2>4, <3>2, OrderedSame
    <3>3. CASE x # r /\ Has(c, x)
      <4>1. PICK i \in 1 .. Len(got[c]) : RankOf(got[c][i]) = x
        BY <3>3 DEF Has
      <4>2. got[c][i] \in Elems(got[c])
        BY DEF Elems
      <4>3. got[c][i] \notin Elems(t)
        BY <2>2, <3>3, <4>1 DEF Elems
      <4>4. PICK k \in 1 .. Len(g) : g[k] = got[c][i]
        <5>1. got[c][i] \in Elems(g)
          BY <2>2, <4>2, <4>3
        <5> QED BY <5>1 DEF Elems
      <4>5. k \in 1 .. Len(got'[c]) /\ RankOf(got'[c][k]) = x
        BY <2>3, <4>1, <4>4
      <4> QED BY <4>5 DEF Has
    <3> QED BY <3>1, <3>2, <3>3
  <2> QED BY <2>9, <2>10, <2>11, <2>12, <2>13 DEF SyncInv
<1> QED BY <1>3, <1>4, <1>5


-----------------------------------------------------------------------------
(* The theorems                                                            *)

Synced == \A c \in Callers : SyncInv(c)

LEMMA SyncInit ==
  ASSUME Init
  PROVE  Synced
<1> SUFFICES ASSUME NEW c \in Callers PROVE SyncInv(c)
  BY DEF Synced
<1>1. cpc[c] = "idle" /\ \A w \in Workers : wpc[w] = "main"
  BY DEF Init
<1>2. Queue(c) = {}
  <2>1. \A s \in Slots : Len(jobs[RankOf(s)]) = 0
    BY SlotRank DEF Init
  <2>2. \A s \in Slots : Elems(jobs[RankOf(s)]) = {}
    BY <2>1 DEF Elems
  <2> QED BY <2>2 DEF Queue
<1>3. \A w \in Workers : ~Signals(w, c)
  BY <1>1 DEF Signals
<1> QED BY <1>1, <1>2, <1>3 DEF SyncInv, CallShape, Covers, Marked, Counts, Reached, Orders

LEMMA SyncCaller ==
  ASSUME NoCallbacks, Base, Synced, NEW c \in Callers, CallerPlain(c), NEW d \in Callers
  PROVE  SyncInv(d)'
<1>1. SyncInv(c) /\ SyncInv(d)
  BY DEF Synced
<1>2. CASE SetJobs(c)
  BY <1>1, <1>2, SyncSetJobs, SyncSetJobsOthers
<1>3. CASE AddJobs(c) \/ AddFirst(c)
  BY <1>1, <1>3, SyncAdd, SyncAddOthers
<1>4. CASE \/ GetJob(c) \/ GetWait(c) \/ GetFail(c) \/ Unget(c) \/ UngetDone(c) \/ DoJobs(c) \/ AddDone(c)
           \/ WaitSync(c) \/ ClearError(c) \/ Join(c)
           \/ (\E S \in Allocated : Free(c, S))
           \/ (\E op \in Ops, S \in Sets : Call(c, op, S))
  <2>1. CASE d # c
    BY <1>1, <1>4, <2>1, SyncOthers
  <2>2. CASE d = c /\ (\E op \in Ops, S \in Sets : Call(c, op, S))
    BY <1>1, <2>2, SyncCall
  <2>3. CASE d = c /\ (\/ GetFail(c) \/ Unget(c) \/ UngetDone(c) \/ WaitSync(c) \/ ClearError(c) \/ Join(c)
                       \/ (\E S \in Allocated : Free(c, S)))
    BY <1>1, <2>3, SyncLeaves
  <2>4. CASE d = c /\ (GetJob(c) \/ GetWait(c) \/ DoJobs(c) \/ AddDone(c))
    BY <1>1, <2>4, SyncGetJob, SyncGetWait, SyncDoJobs, SyncAddDone
  <2> QED BY <1>4, <2>1, <2>2, <2>3, <2>4
<1> QED BY <1>2, <1>3, <1>4 DEF CallerPlain

LEMMA SyncNext ==
  ASSUME NoCallbacks, Base, Synced, [Next]_vars
  PROVE  Synced'
<1> SUFFICES ASSUME NEW d \in Callers PROVE SyncInv(d)'
  BY DEF Synced
<1>1. Inv /\ SlotInv /\ PlainInv /\ SyncInv(d)
  BY DEF Base, Synced
<1>2. CASE AllIdle
  <2>1. UNCHANGED <<jobs, job, wpc, wjob, cpc, call, cidx, got, sync, syncMutex>>
    BY <1>2 DEF AllIdle, fifo, locks, app, wrk
  <2>2. Queue(d)' = Queue(d)
    BY <2>1 DEF Queue, Counted
  <2>3. \A w \in Workers : Signals(w, d)' => Signals(w, d)
    BY <2>1 DEF Signals
  <2>4. \A r \in Ranks : Ordered(r, d) => Ordered(r, d)'
    BY <2>1 DEF Ordered
  <2>5. Stays(cpc[d], cpc'[d])
    BY <2>1 DEF Stays
  <2> QED BY <1>1, <2>1, <2>2, <2>3, <2>4, <2>5, SyncFrame
<1>3. ASSUME NEW w \in Workers, WorkerPlain(w) PROVE SyncInv(d)'
  BY <1>1, <1>3, SyncWorker
<1>4. ASSUME NEW c \in Callers, CallerPlain(c) PROVE SyncInv(d)'
  BY <1>4, SyncCaller
<1> QED BY <1>1, <1>2, <1>3, <1>4, PlainSteps

LEMMA SyncedLive ==
  ASSUME Base, Synced
  PROVE  SyncObjectLive
<1>1. Inv /\ job \in [Slots -> JobRecord] /\ wjob \in [Workers -> Slots] /\ jobs \in [Ranks -> Seq(Slots)]
  BY DEF Base, Inv, Typed
<1>2. \A s \in Slots : job[s].owner \in Callers
  BY <1>1 DEF JobRecord
<1>3. ASSUME NEW w \in Workers, wpc[w] \in {"signal", "drainsig"}
      PROVE  cpc[job[wjob[w]].owner] \in {"add", "addq", "wait"}
  <2>1. PICK c \in Callers : c = job[wjob[w]].owner
    BY <1>1, <1>2
  <2>2. Signals(w, c)
    BY <1>3, <2>1 DEF Signals
  <2> QED BY <2>1, <2>2 DEF Synced, SyncInv, Reached
<1>4. ASSUME NEW r \in Ranks, NEW s \in Elems(jobs[r]), job[s].type = "sync",
             \A w \in Workers : wpc[w] = "advance" => wjob[w] # s
      PROVE  cpc[job[s].owner] \in {"add", "addq", "wait"}
  <2>1. s \in Slots /\ RankOf(s) = r
    BY <1>1 DEF Inv, OwnSlots, Elems
  <2>2. PICK c \in Callers : c = job[s].owner
    BY <1>2, <2>1
  <2>3. CASE Counted(s)
    <3>1. PICK w \in Workers : wjob[w] = s /\ wpc[w] = "signal"
      BY <1>4, <2>3 DEF Counted
    <3> QED BY <1>3, <3>1
  <2>4. CASE ~Counted(s)
    <3>1. s \in Queue(c)
      BY <1>4, <2>1, <2>2, <2>4 DEF Queue
    <3> QED BY <2>2, <3>1 DEF Synced, SyncInv, Reached
  <2> QED BY <2>3, <2>4
<1> QED BY <1>3, <1>4 DEF SyncObjectLive

LEMMA SyncedDrains ==
  ASSUME Base, Synced
  PROVE  SyncDrains
<1>1. Inv /\ HeadInv /\ jobs \in [Ranks -> Seq(Slots)] /\ \A r \in Ranks : NoDuplicate(jobs[r])
  BY DEF Base, Inv, Typed, SlotInv, NoTwice
<1> SUFFICES ASSUME NEW c \in Callers, Completed(c), NEW r \in Elems(call[c].ranks),
                    NEW s \in Elems(jobs[r]), job[s].owner = c, job[s].type # "sync"
             PROVE  FALSE
  BY DEF SyncDrains
<1>15. PICK k \in 1 .. Len(call[c].ranks) : r = call[c].ranks[k]
  BY DEF Elems
<1>2. r \in Ranks
  BY <1>1, <1>15, CallTypes
<1>3. cpc[c] = "woken" /\ SyncInv(c)
  BY DEF Completed, Synced
<1>4. call[c].op.sync /\ got[c] = <<>> /\ Queue(c) = {}
  BY <1>3 DEF SyncInv, CallShape, Reached
<1>5. ~Has(c, r)
  BY <1>4 DEF Has
<1>6. Ordered(r, c)
  BY <1>3, <1>4, <1>5, <1>15 DEF SyncInv, Orders
<1>7. PICK i \in 1 .. Len(jobs[r]) : s = jobs[r][i]
  BY DEF Elems
<1>8. PICK j \in 1 .. Len(jobs[r]) : j > i /\ job[jobs[r][j]].owner = c /\ job[jobs[r][j]].type = "sync"
  BY <1>6, <1>7 DEF Ordered
<1>9. PICK x : x = jobs[r][j]
  OBVIOUS
<1>10. x \in Slots /\ RankOf(x) = r /\ x \in Elems(jobs[r])
  BY <1>1, <1>2, <1>9 DEF Inv, OwnSlots, Elems
<1>11. Counted(x)
  BY <1>4, <1>8, <1>9, <1>10 DEF Queue
<1>12. PICK w \in Workers : wjob[w] = x /\ Runs(w)
  BY <1>11 DEF Counted, Runs
<1>13. x = Head(jobs[r])
  BY <1>10, <1>12 DEF Base, HeadInv
<1>14. x = jobs[r][1] /\ 1 \in 1 .. Len(jobs[r])
  BY <1>1, <1>2, <1>13
<1>16. j = 1
  BY <1>1, <1>2, <1>9, <1>14 DEF NoDuplicate
<1> QED BY <1>8, <1>16

\* Without callbacks, a sync object outlives what reaches it: as long as a SYNC
\* job of a call is queued, or a worker is about to signal its counter, the
\* caller is still inside dpu_thread_job_add_jobs or waits, so the counter on
\* its stack exists and no decrement is lost or done twice; unless it was woken
\* spuriously between the last decrement and its signal (ReturnEarly), which is
\* the only way to break it.
THEOREM SyncObjectLiveHolds ==
  ASSUME NoCallbacks
  PROVE  Spec => []SyncObjectLive
<1>1. Init => Base /\ Synced
  BY BaseInit, SyncInit
<1>2. Base /\ Synced /\ [Next]_vars => Base' /\ Synced'
  BY BaseNext, SyncNext
<1>3. Base /\ Synced => SyncObjectLive
  BY SyncedLive
<1> QED
  BY <1>1, <1>2, <1>3, PTL DEF Spec

\* Without callbacks, a synchronous call is a barrier: when its counter has come
\* to zero and it was woken, no job the caller queued before on one of its ranks
\* is left, failed ranks whose FIFOs dpu_thread_update_status emptied included.
THEOREM SyncDrainsHolds ==
  ASSUME NoCallbacks
  PROVE  Spec => []SyncDrains
<1>1. Init => Base /\ Synced
  BY BaseInit, SyncInit
<1>2. Base /\ Synced /\ [Next]_vars => Base' /\ Synced'
  BY BaseNext, SyncNext
<1>3. Base /\ Synced => SyncDrains
  BY SyncedDrains
<1> QED
  BY <1>1, <1>2, <1>3, PTL DEF Spec
==============================================================================
