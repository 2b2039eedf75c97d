---------------------------- MODULE SetAllocProofs ----------------------------
(***************************************************************************)
(* Proofs about SetAlloc: what dpu_alloc takes is in a set or given back,  *)
(* and the handler is loaded when it is called, for any number of devices, *)
(* threads, calls and failures.                                            *)
(***************************************************************************)
EXTENDS SetAlloc, FiniteSetTheorems, WellFoundedInduction, TLAPS

-----------------------------------------------------------------------------
(* Numbers and sequences.                                                  *)

\* A set of numbers that is not empty has a least element.
LEMMA LeastElement ==
  ASSUME NEW S \in SUBSET Nat, S # {}
  PROVE  \E n \in S : \A m \in S : n <= m
<1>1. PICK x \in S : \A y \in S : ~ (<<y, x>> \in OpToRel(<, Nat))
  BY NatLessThanWellFounded, WFMin
<1>2. \A y \in S : ~(y < x)
  BY <1>1 DEF OpToRel
<1> QED BY <1>2

LEMMA MinIsIn ==
  ASSUME NEW S \in SUBSET Nat, S # {}
  PROVE  Min(S) \in S /\ \A m \in S : Min(S) <= m
<1>1. \E n \in S : \A m \in S : n <= m
  BY LeastElement
<1> QED BY <1>1, Zenon DEF Min

LEMMA SeqDomain ==
  ASSUME NEW A, NEW s \in Seq(A)
  PROVE  DOMAIN s = 1 .. Len(s) /\ Len(s) \in Nat /\ \A i \in 1 .. Len(s) : s[i] \in A
OBVIOUS

LEMMA RangeInside ==
  ASSUME NEW A, NEW s \in Seq(A)
  PROVE  Range(s) \subseteq A
<1>1. \A i \in DOMAIN s : s[i] \in A
  OBVIOUS
<1> QED BY <1>1 DEF Range

LEMMA EmptyRange ==
  ASSUME NEW A, NEW s \in Seq(A)
  PROVE  s = <<>> <=> Range(s) = {}
<1>1. s # <<>> => s[1] \in Range(s)
  BY DEF Range
<1>2. s = <<>> => Range(s) = {}
  BY DEF Range
<1> QED BY <1>1, <1>2

LEMMA EmptyFacts ==
  ASSUME NEW A
  PROVE  <<>> \in Seq(A) /\ IsInjective(<<>>) /\ Range(<<>>) = {}
<1>1. <<>> \in Seq(A) /\ DOMAIN <<>> = {}
  OBVIOUS
<1>2. IsInjective(<<>>)
  BY <1>1, Zenon DEF IsInjective
<1> QED BY <1>1, <1>2, EmptyRange

LEMMA AppendRange ==
  ASSUME NEW A, NEW s \in Seq(A), NEW x \in A
  PROVE  /\ Append(s, x) \in Seq(A) /\ Append(s, x) # <<>> /\ Range(Append(s, x)) = Range(s) \cup {x}
         /\ IsInjective(s) /\ x \notin Range(s) => IsInjective(Append(s, x))
<1> DEFINE n == Len(s)
           a == Append(s, x)
<1>1. a \in Seq(A) /\ n \in Nat /\ Len(a) = n + 1 /\ a[n + 1] = x /\ \A i \in 1 .. n : a[i] = s[i]
  OBVIOUS
<1>2. DOMAIN a = 1 .. (n + 1) /\ DOMAIN s = 1 .. n
  BY <1>1
<1>3. \A i \in 1 .. (n + 1) : i = n + 1 \/ i \in 1 .. n
  BY <1>1
<1>4. \A i \in 1 .. n : i \in 1 .. (n + 1)
  BY <1>1
<1>5. n + 1 \in 1 .. (n + 1)
  BY <1>1
<1> HIDE DEF a, n
<1>6. Range(a) = Range(s) \cup {x}
  BY <1>1, <1>2, <1>3, <1>4, <1>5 DEF Range
<1>7. IsInjective(s) /\ x \notin Range(s) => IsInjective(a)
  BY <1>1, <1>2, <1>3 DEF Range, IsInjective
<1>8. a # <<>>
  BY <1>1
<1> QED BY <1>1, <1>6, <1>7, <1>8 DEF a

LEMMA TailRange ==
  ASSUME NEW A, NEW s \in Seq(A), s # <<>>, IsInjective(s)
  PROVE  /\ Tail(s) \in Seq(A) /\ IsInjective(Tail(s)) /\ Range(Tail(s)) = Range(s) \ {Head(s)}
         /\ Head(s) \in Range(s)
<1> DEFINE n == Len(s)
           a == Tail(s)
<1>1. /\ a \in Seq(A) /\ n \in Nat /\ n >= 1 /\ Len(a) = n - 1 /\ Head(s) = s[1]
      /\ \A i \in 1 .. (n - 1) : a[i] = s[i + 1]
  OBVIOUS
<1>2. DOMAIN a = 1 .. (n - 1) /\ DOMAIN s = 1 .. n
  BY <1>1
<1>3. \A i \in 1 .. n : i # 1 => i - 1 \in 1 .. (n - 1) /\ (i - 1) + 1 = i
  BY <1>1
<1>4. \A i \in 1 .. (n - 1) : i + 1 \in 1 .. n /\ i + 1 # 1
  BY <1>1
<1>5. 1 \in 1 .. n
  BY <1>1
<1> HIDE DEF a, n
<1>6. ASSUME NEW y \in Range(a) PROVE y \in Range(s) /\ y # s[1]
  <2>1. PICK i \in 1 .. (n - 1) : y = a[i]
    BY <1>2 DEF Range
  <2>2. y = s[i + 1] /\ i + 1 \in 1 .. n /\ i + 1 # 1
    BY <1>1, <1>4, <2>1
  <2>3. s[i + 1] # s[1]
    BY <1>2, <1>5, <2>2 DEF IsInjective
  <2> QED BY <1>2, <2>2, <2>3 DEF Range
<1>7. ASSUME NEW y \in Range(s), y # s[1] PROVE y \in Range(a)
  <2>1. PICK i \in 1 .. n : y = s[i]
    BY <1>2 DEF Range
  <2>2. i - 1 \in 1 .. (n - 1) /\ a[i - 1] = s[i]
    BY <1>1, <1>3, <1>7, <2>1
  <2> QED BY <1>2, <2>1, <2>2 DEF Range
<1>8. IsInjective(a)
  <2> SUFFICES ASSUME NEW i \in 1 .. (n - 1), NEW j \in 1 .. (n - 1), a[i] = a[j] PROVE i = j
    BY <1>2 DEF IsInjective
  <2>1. s[i + 1] = s[j + 1] /\ i + 1 \in DOMAIN s /\ j + 1 \in DOMAIN s
    BY <1>1, <1>2, <1>4
  <2>2. i + 1 = j + 1
    BY <2>1 DEF IsInjective
  <2> QED BY <2>2, <1>1
<1>9. s[1] \in Range(s)
  BY <1>2, <1>5 DEF Range
<1> QED BY <1>1, <1>6, <1>7, <1>8, <1>9 DEF a

\* f is what step makes of first in n - 1 steps.
Recurs(f, n, V, first, step) ==
  /\ f \in [1 .. n -> V]
  /\ \A i \in 1 .. n : f[i] = IF i = 1 THEN first ELSE step[i][f[i - 1]]

\* There is such a function: the one for n extends the one for n - 1.
LEMMA RecursionExists ==
  ASSUME NEW V, NEW first \in V, NEW N \in Nat, NEW step \in [1 .. N -> [V -> V]]
  PROVE  \A n \in 1 .. N : \E f : Recurs(f, n, V, first, step)
<1> DEFINE T == {n \in 1 .. N : ~\E f : Recurs(f, n, V, first, step)}
<1> SUFFICES ASSUME T # {} PROVE FALSE
  OBVIOUS
<1>1. T \in SUBSET Nat
  OBVIOUS
<1>2. PICK n \in T : \A m \in T : n <= m
  BY <1>1, LeastElement
<1>3. n \in 1 .. N /\ ~\E f : Recurs(f, n, V, first, step)
  BY <1>2
<1>4. n # 1
  <2>1. Recurs([i \in 1 .. 1 |-> first], 1, V, first, step)
    BY DEF Recurs
  <2> QED BY <2>1, <1>3
<1>5. n - 1 \in 1 .. N /\ n - 1 \notin T
  BY <1>2, <1>3, <1>4
<1>6. PICK g : Recurs(g, n - 1, V, first, step)
  BY <1>5
<1> HIDE DEF T
<1>7. g[n - 1] \in V /\ step[n][g[n - 1]] \in V
  <2>1. n - 1 \in 1 .. (n - 1)
    BY <1>3, <1>4
  <2> QED BY <2>1, <1>3, <1>6 DEF Recurs
<1> DEFINE f == [i \in 1 .. n |-> IF i = n THEN step[n][g[n - 1]] ELSE g[i]]
<1>8. \A i \in 1 .. n : i # n => i \in 1 .. (n - 1)
  BY <1>3
<1>9. f \in [1 .. n -> V]
  BY <1>6, <1>7, <1>8 DEF Recurs
<1>10. ASSUME NEW i \in 1 .. n
       PROVE  f[i] = IF i = 1 THEN first ELSE step[i][f[i - 1]]
  <2>1. CASE i = n
    <3>1. n - 1 \in 1 .. n /\ n - 1 # n
      BY <1>3, <1>4
    <3> QED BY <1>3, <1>4, <2>1, <3>1
  <2>2. CASE i # n
    <3>1. f[i] = g[i]
      BY <2>2
    <3>2. i # 1 => i - 1 \in 1 .. n /\ i - 1 # n
      BY <1>3
    <3>3. i # 1 => f[i - 1] = g[i - 1]
      BY <3>2
    <3>4. g[i] = IF i = 1 THEN first ELSE step[i][g[i - 1]]
      BY <1>6, <1>8, <2>2 DEF Recurs
    <3> HIDE DEF f
    <3> QED BY <3>1, <3>3, <3>4
  <2> QED BY <2>1, <2>2
<1> HIDE DEF f
<1> QED BY <1>3, <1>9, <1>10 DEF Recurs


\* What is left of a sequence: its elements in S, each once.
LEMMA ThoseFacts ==
  ASSUME NEW A, NEW s \in Seq(A), IsInjective(s), NEW S
  PROVE  /\ Those(s, S) \in Seq(A) /\ IsInjective(Those(s, S))
         /\ Range(Those(s, S)) = Range(s) \cap S
<1> DEFINE N == Len(s)
           V == Seq(A)
           seqs == [i \in DOMAIN s |-> IF s[i] \in S THEN <<s[i]>> ELSE <<>>]
           step == [i \in 1 .. N |-> [x \in V |-> x \o seqs[i]]]
<1>0. DOMAIN s = 1 .. N /\ N \in Nat /\ \A i \in 1 .. N : s[i] \in A
  BY SeqDomain
<1>1. seqs \in Seq(V) /\ Len(seqs) = N /\ \A i \in 1 .. N : seqs[i] = IF s[i] \in S THEN <<s[i]>> ELSE <<>>
  <2>1. \A i \in 1 .. N : (IF s[i] \in S THEN <<s[i]>> ELSE <<>>) \in V
    BY <1>0
  <2> QED BY <1>0, <2>1
<1>2. Those(s, S) = FlattenSeq(seqs)
  BY DEF Those
<1> HIDE DEF seqs
<1>3. CASE N = 0
  <2>1. s = <<>> /\ seqs = <<>>
    BY <1>1, <1>3
  <2>2. FlattenSeq(seqs) = <<>>
    BY <2>1 DEF FlattenSeq
  <2>3. Those(s, S) = <<>> /\ Range(s) = {}
    BY <1>2, <2>1, <2>2, EmptyFacts
  <2> QED BY <2>3, EmptyFacts
<1>4. CASE N # 0
  <2>1. N \in Nat /\ N \in 1 .. N /\ 1 \in 1 .. N
    BY <1>0, <1>4
  <2>2. \A i \in 1 .. N : seqs[i] \in V
    BY <1>1
  <2>3. step \in [1 .. N -> [V -> V]]
    BY <2>2
  <2>4. PICK f : Recurs(f, N, V, seqs[1], step)
    <3> HIDE DEF step, V, N
    <3> QED BY <2>1, <2>2, <2>3, RecursionExists
  <2> DEFINE Flat(g) == g = [i \in 1 .. N |-> IF i = 1 THEN seqs[i] ELSE g[i - 1] \o seqs[i]]
             flatten == CHOOSE g : Flat(g)
  <2>5. ASSUME NEW i \in 1 .. N PROVE f[i] = IF i = 1 THEN seqs[i] ELSE f[i - 1] \o seqs[i]
    <3>1. i # 1 => i - 1 \in 1 .. N
      BY <2>1
    <3>2. i # 1 => f[i - 1] \in V
      BY <3>1, <2>4 DEF Recurs
    <3>3. i # 1 => step[i][f[i - 1]] = f[i - 1] \o seqs[i]
      BY <3>2
    <3>4. f[i] = IF i = 1 THEN seqs[1] ELSE step[i][f[i - 1]]
      BY <2>4 DEF Recurs
    <3> QED BY <3>3, <3>4
  <2>6. Flat(f)
    <3>1. f = [i \in 1 .. N |-> f[i]]
      BY <2>4 DEF Recurs
    <3> QED BY <3>1, <2>5
  <2>7. Flat(flatten)
    BY <2>6
  <2>8. FlattenSeq(seqs) = flatten[N]
    BY <1>1, <1>4 DEF FlattenSeq
  <2> DEFINE Upto(i) == {s[j] : j \in 1 .. i}
             Good(i) == /\ flatten[i] \in V /\ IsInjective(flatten[i])
                        /\ Range(flatten[i]) = Upto(i) \cap S
             D == {i \in 1 .. N : ~Good(i)}
  <2> HIDE DEF flatten
  <2>9. \A i \in 1 .. N : flatten[i] = IF i = 1 THEN seqs[i] ELSE flatten[i - 1] \o seqs[i]
    BY <2>7
  <2>10. ASSUME D # {} PROVE FALSE
    <3>0. D \in SUBSET Nat
      OBVIOUS
    <3>1. PICK i \in D : \A j \in D : i <= j
      BY <3>0, <2>10, LeastElement
    <3>2. i \in 1 .. N /\ ~Good(i)
      BY <3>1
    <3> DEFINE old == IF i = 1 THEN <<>> ELSE flatten[i - 1]
               before == {s[j] : j \in 1 .. (i - 1)}
    <3>3. old \in V /\ IsInjective(old) /\ Range(old) = before \cap S
      <4>1. CASE i = 1
        <5>1. before = {} /\ old = <<>>
          BY <4>1
        <5>2. old \in V /\ IsInjective(old) /\ Range(old) = {}
          BY <5>1, EmptyFacts
        <5> QED BY <5>1, <5>2
      <4>2. CASE i # 1
        <5>1. i - 1 \in 1 .. N /\ i - 1 \notin D
          BY <2>1, <3>1, <4>2
        <5>2. Good(i - 1)
          BY <5>1
        <5>3. Upto(i - 1) = before
          OBVIOUS
        <5> QED BY <4>2, <5>2, <5>3
      <4> QED BY <4>1, <4>2
    <3>4. flatten[i] = old \o seqs[i]
      <4>1. CASE i = 1
        <5>1. seqs[i] \in V
          BY <2>2, <3>2
        <5>2. <<>> \o seqs[i] = seqs[i]
          BY <5>1
        <5> QED BY <2>9, <3>2, <4>1, <5>2
      <4>2. CASE i # 1
        BY <2>9, <3>2, <4>2
      <4> QED BY <4>1, <4>2
    <3>5. Upto(i) = before \cup {s[i]}
      <4>1. \A j : j \in 1 .. i <=> j \in 1 .. (i - 1) \/ j = i
        BY <3>2, <2>1
      <4> QED BY <4>1
    <3>6. s[i] \notin before /\ s[i] \in A
      <4>1. \A j \in 1 .. (i - 1) : j \in 1 .. N /\ j # i
        BY <3>2, <2>1
      <4> QED BY <4>1, <3>2, <1>0 DEF IsInjective
    <3> HIDE DEF old, before, Upto
    <3>7. CASE s[i] \in S
      <4>1. flatten[i] = Append(old, s[i])
        <5>1. seqs[i] = <<s[i]>>
          BY <1>1, <3>2, <3>7
        <5>2. old \o <<s[i]>> = Append(old, s[i])
          BY <3>3, <3>6
        <5> QED BY <3>4, <5>1, <5>2
      <4>2. s[i] \notin Range(old)
        BY <3>3, <3>6
      <4>3. /\ Append(old, s[i]) \in Seq(A) /\ Range(Append(old, s[i])) = Range(old) \cup {s[i]}
            /\ IsInjective(Append(old, s[i]))
        BY <3>3, <3>6, <4>2, AppendRange
      <4>4. Range(flatten[i]) = Upto(i) \cap S
        BY <3>3, <3>5, <3>7, <4>1, <4>3
      <4> QED BY <3>2, <4>1, <4>3, <4>4
    <3>8. CASE s[i] \notin S
      <4>1. flatten[i] = old
        <5>1. seqs[i] = <<>>
          BY <1>1, <3>2, <3>8
        <5> QED BY <3>3, <3>4, <5>1
      <4>2. Range(old) = Upto(i) \cap S
        BY <3>3, <3>5, <3>8
      <4> QED BY <3>2, <3>3, <4>1, <4>2
    <3> QED BY <3>7, <3>8
  <2>11. Good(N)
    BY <2>1, <2>10
  <2>12. Upto(N) = Range(s)
    BY <1>0 DEF Range
  <2> QED BY <1>2, <2>8, <2>11, <2>12
<1> QED BY <1>3, <1>4


-----------------------------------------------------------------------------
(* The invariant.                                                          *)

ThreadFields == {"pc", "call", "cur", "nd", "part", "new", "drop", "then", "status", "alone", "free"}
RankFields == {"live", "hw", "id", "on", "jobs"}
Early == {"probe_get", "query", "put", "unload", "inst", "get"}
Late == {"fill", "open", "list", "configure"}
Freeing == {"drop", "close", "release", "giveback", "dropunload"}
Points == {"idle", "rank", "norank", "trim", "disable", "jobs", "sg", "return"} \cup Early \cup Late \cup Freeing

\* One thread: new is the rank it makes, cur those it has, drop those it frees.
ThreadOk(s) ==
  /\ DOMAIN s = ThreadFields /\ s.pc \in Points
  /\ s.cur \in Seq(Objects) /\ s.drop \in Seq(Objects) /\ s.new \in Objects \cup {NoRank}
  /\ IsInjective(s.cur) /\ IsInjective(s.drop) /\ s.new \notin Range(s.cur)
  /\ s.pc = "idle" \/ s.call.kind = "describe" => s.cur = <<>>
  /\ s.drop # <<>> <=> s.pc \in Freeing
  /\ s.pc \in Freeing => s.then \in {"return", "disable"}
  /\ s.pc \in {"put", "unload"} => s.then \in {"inst", "norank"}
  /\ s.new # NoRank <=> /\ s.pc \in Early \cup Late /\ (s.pc \in {"put", "unload"} => s.then = "inst")
                        /\ s.call.kind # "describe"
  /\ s.pc \in {"open", "list", "configure"} => s.call.kind # "describe"
  /\ (s.pc \in Freeing /\ s.then = "disable") => Range(s.cur) \cap Range(s.drop) = {}

\* The ranks of a thread that are in no set yet, or in none any more.
Settled(s) == s.pc \in {"sg", "return"} \/ (s.pc \in Freeing /\ s.then = "return")
Mine(s) == IF Settled(s) THEN {} ELSE Range(s.cur)
Leaving(s) == IF s.pc = "dropunload" THEN Range(Tail(s.drop)) ELSE Range(s.drop)
Own(s) == Mine(s) \cup Leaving(s) \cup ({s.new} \ {NoRank})

\* The ranks that have come as far as P; all but those that are being made have.
Ready(P) == {o \in Objects : rank[o].live /\ \A t \in Threads : th[t].new = o => th[t].pc \in P}
\* The ranks that are being freed, by how much of them is gone.
Past(P) == {o \in Objects : \E t \in Threads : th[t].pc \in P /\ Head(th[t].drop) = o}
Counted == Ready(Late)
Named == Ready({"open", "list", "configure"}) \ Past({"giveback"})
Opened == Ready({"list", "configure"}) \ Past({"release", "giveback"})
Shown == Ready({"configure"}) \ Past({"close", "release", "giveback"})
Probing == {t \in Threads : th[t].pc \in {"query", "put"}}

RanksOk == DOMAIN rank = Objects /\ \A o \in Objects : DOMAIN rank[o] = RankFields /\ rank[o].live \in BOOLEAN
SetsOk == \A s \in sets : s.ranks \in Seq(Objects) /\ IsInjective(s.ranks)
Typed ==
  /\ handler \in [loaded : BOOLEAN, refcount : Nat] /\ leaked \in Nat
  /\ ids \subseteq 0 .. (MAX_NUMBER_OF_RANKS - 1)
  /\ list \in Seq(Objects \cup {NoRank}) /\ next \in 1 .. Len(list)
  /\ RanksOk /\ fd \in [HwRanks -> Objects \cup {NoRank}] /\ SetsOk /\ lost \subseteq Objects
  /\ DOMAIN th = Threads /\ \A t \in Threads : ThreadOk(th[t])

\* A live rank is in one set, with one thread, or lost.
Owned ==
  /\ \A o \in Objects : rank[o].live <=> (o \in Held \/ \E t \in Threads : o \in Own(th[t]))
  /\ \A t, u \in Threads : t # u => Own(th[t]) \cap Own(th[u]) = {}
  /\ \A t \in Threads : Own(th[t]) \cap Held = {}
  /\ \A s, z \in sets : s # z => Range(s.ranks) \cap Range(z.ranks) = {}
  /\ \A s \in sets : Range(s.ranks) \cap lost = {}

\* The numbers, the devices, the list and the references are those of the
\* ranks that have come so far.
IdsInv == ids = {rank[o].id : o \in Named} /\ \A o, p \in Named : rank[o].id = rank[p].id => o = p
FdInv ==
  /\ \A h \in HwRanks : fd[h] # NoRank => fd[h] \in Opened /\ rank[fd[h]].hw = h
  /\ \A o \in Opened : rank[o].hw \in HwRanks /\ fd[rank[o].hw] = o
ListInv ==
  /\ list[next] = NoRank
  /\ \A o \in Objects : o \in Shown <=> \E i \in 1 .. Len(list) : list[i] = o
  /\ \A i, j \in 1 .. Len(list) : list[i] = list[j] /\ list[i] # NoRank => i = j
RefInv == handler.refcount = leaked + Cardinality(Counted) + Cardinality(Probing)

\* The handler stays loaded as long as there are references.
LoadInv ==
  /\ handler.refcount > 0 => handler.loaded
  /\ \A t \in Threads : th[t].pc \in {"unload", "dropunload"} => handler.refcount = 0
  /\ \A t \in Threads : th[t].pc = "fill" /\ th[t].call.kind = "describe" => leaked > 0

Inv == Typed /\ Owned /\ IdsInv /\ FdInv /\ ListInv /\ RefInv /\ LoadInv

-----------------------------------------------------------------------------
(* Steps of one thread.                                                    *)

\* A thread that another one's step disturbs at most.
Alike(a, b) ==
  /\ DOMAIN b = ThreadFields /\ b.pc = a.pc /\ b.cur = a.cur /\ b.drop = a.drop /\ b.new = a.new
  /\ b.then = a.then /\ b.call = a.call
StepBy(t) ==
  /\ DOMAIN th' = Threads /\ DOMAIN th'[t] = ThreadFields
  /\ \A u \in Threads \ {t} : Alike(th[u], th'[u])

LEMMA NoRankIsNone == NoRank \notin Objects /\ Objects \subseteq Nat
BY DEF NoRank, Objects

LEMMA AlikeOk ==
  ASSUME NEW a, NEW b, ThreadOk(a), Alike(a, b)
  PROVE  ThreadOk(b) /\ Own(b) = Own(a)
BY DEF ThreadOk, Alike, Own, Mine, Leaving, Settled

LEMMA DisturbedFacts ==
  ASSUME Typed
  PROVE  /\ DOMAIN Disturbed = Threads
         /\ \A u \in Threads : Alike(th[u], Disturbed[u])
<1>1. \A u \in Threads : DOMAIN th[u] = ThreadFields
  BY DEF Typed, ThreadOk
<1> QED BY <1>1 DEF Disturbed, Alike, ThreadFields

LEMMA ThreadsKept ==
  ASSUME Typed, NEW t \in Threads, StepBy(t), ThreadOk(th'[t])
  PROVE  /\ \A u \in Threads : ThreadOk(th'[u])
         /\ \A u \in Threads \ {t} : Own(th'[u]) = Own(th[u])
BY AlikeOk DEF Typed, StepBy

LEMMA OwnedKept ==
  ASSUME Typed, Owned, NEW t \in Threads, StepBy(t), ThreadOk(th'[t]), Own(th'[t]) = Own(th[t]), sets' = sets, lost' = lost,
         \A o \in Objects : rank'[o].live <=> rank[o].live
  PROVE  Owned'
<1>1. \A u \in Threads : Own(th'[u]) = Own(th[u])
  BY ThreadsKept
<1>2. Held' = Held
  BY DEF Held
<1> QED BY <1>1, <1>2 DEF Owned

\* Ranks go from a thread to a set, or from a set to a thread.
LEMMA OwnedMoves ==
  ASSUME Typed, Owned, NEW t \in Threads, StepBy(t), ThreadOk(th'[t]), \A o \in Objects : rank'[o].live <=> rank[o].live,
         Own(th'[t]) \cup Held' = Own(th[t]) \cup Held, Own(th'[t]) \cap Held' = {},
         \A s, z \in sets' : s # z => Range(s.ranks) \cap Range(z.ranks) = {},
         \A s \in sets' : Range(s.ranks) \cap lost' = {}
  PROVE  Owned'
<1>1. \A u \in Threads \ {t} : Own(th'[u]) = Own(th[u])
  BY ThreadsKept
<1>2. \A u \in Threads \ {t} : Own(th[u]) \cap (Own(th[t]) \cup Held) = {}
  BY DEF Owned
<1>3. \A u \in Threads \ {t} : Own(th'[u]) \cap (Own(th'[t]) \cup Held') = {}
  BY <1>1, <1>2
<1>4. \A u, v \in Threads \ {t} : u # v => Own(th'[u]) \cap Own(th'[v]) = {}
  BY <1>1 DEF Owned
<1>5. /\ \A u, v \in Threads : u # v => Own(th'[u]) \cap Own(th'[v]) = {}
      /\ \A u \in Threads : Own(th'[u]) \cap Held' = {}
  BY <1>3, <1>4
<1>6. ASSUME NEW o
      PROVE  (o \in Held' \/ \E u \in Threads : o \in Own(th'[u])) <=> (o \in Held \/ \E u \in Threads : o \in Own(th[u]))
  <2>1. (o \in Held' \/ o \in Own(th'[t])) <=> (o \in Held \/ o \in Own(th[t]))
    OBVIOUS
  <2> QED BY <1>1, <2>1
<1>7. \A o \in Objects : rank'[o].live <=> (o \in Held' \/ \E u \in Threads : o \in Own(th'[u]))
  BY <1>6 DEF Owned
<1> QED BY <1>5, <1>7 DEF Owned

\* The thread makes the same rank, and has not come further, or has made it.
StageSame(a, b) ==
  \/ b.new = a.new /\ (a.new = NoRank \/ b.pc = a.pc \/ {a.pc, b.pc} \subseteq Early)
  \/ b.new = NoRank /\ a.pc = "configure"

LEMMA ReadyKept ==
  ASSUME Typed, NEW t \in Threads, StepBy(t), StageSame(th[t], th'[t]), NEW P, P \cap Early = {}, "configure" \in P,
         \A o \in Objects : rank'[o].live <=> rank[o].live
  PROVE  Ready(P)' = Ready(P)
<1>1. \A u \in Threads : th[u].new \in Objects \cup {NoRank}
  BY DEF Typed, ThreadOk
<1>2. ASSUME NEW o \in Objects, NEW u \in Threads
      PROVE  (th'[u].new = o => th'[u].pc \in P) <=> (th[u].new = o => th[u].pc \in P)
  <2>1. CASE u = t
    BY <2>1, <1>1, NoRankIsNone DEF StageSame
  <2>2. CASE u # t
    BY <2>2 DEF StepBy, Alike
  <2> QED BY <2>1, <2>2
<1> QED BY <1>2 DEF Ready

\* A step that leaves the numbers, the devices, the list and the sets alone,
\* and the ranks of the thread what they were.
Books == Typed /\ Owned /\ IdsInv /\ FdInv /\ ListInv
Plainly(t) ==
  /\ StepBy(t) /\ ThreadOk(th'[t]) /\ Own(th'[t]) = Own(th[t]) /\ StageSame(th[t], th'[t])
  /\ th[t].pc \notin {"close", "release", "giveback"} /\ th'[t].pc \notin {"close", "release", "giveback"}
  /\ UNCHANGED <<ids, list, next, fd, sets, lost>>
RanksSame ==
  /\ RanksOk'
  /\ \A o \in Objects : rank'[o].live = rank[o].live /\ rank'[o].id = rank[o].id /\ rank'[o].hw = rank[o].hw

LEMMA PastKept ==
  ASSUME NEW t \in Threads, StepBy(t), NEW P, th[t].pc \notin P, th'[t].pc \notin P
  PROVE  Past(P)' = Past(P)
<1>1. ASSUME NEW o, NEW u \in Threads
      PROVE  (th'[u].pc \in P /\ Head(th'[u].drop) = o) <=> (th[u].pc \in P /\ Head(th[u].drop) = o)
  BY DEF StepBy, Alike
<1> QED BY <1>1 DEF Past

\* No step of a thread that frees nothing changes what is being freed.
LEMMA AllPastKept ==
  ASSUME NEW t \in Threads, StepBy(t), th[t].pc \notin {"close", "release", "giveback"},
         th'[t].pc \notin {"close", "release", "giveback"}
  PROVE  /\ Past({"giveback"})' = Past({"giveback"})
         /\ Past({"release", "giveback"})' = Past({"release", "giveback"})
         /\ Past({"close", "release", "giveback"})' = Past({"close", "release", "giveback"})
<1>1. Past({"giveback"})' = Past({"giveback"})
  BY PastKept
<1>2. Past({"release", "giveback"})' = Past({"release", "giveback"})
  BY PastKept
<1>3. Past({"close", "release", "giveback"})' = Past({"close", "release", "giveback"})
  BY PastKept
<1> QED BY <1>1, <1>2, <1>3

LEMMA AllReadyKept ==
  ASSUME Typed, NEW t \in Threads, StepBy(t), StageSame(th[t], th'[t]),
         \A o \in Objects : rank'[o].live <=> rank[o].live
  PROVE  /\ Counted' = Counted
         /\ Ready({"open", "list", "configure"})' = Ready({"open", "list", "configure"})
         /\ Ready({"list", "configure"})' = Ready({"list", "configure"})
         /\ Ready({"configure"})' = Ready({"configure"})
<1>1. Counted' = Counted
  BY ReadyKept DEF Counted, Early, Late
<1>2. Ready({"open", "list", "configure"})' = Ready({"open", "list", "configure"})
  BY ReadyKept DEF Early
<1>3. Ready({"list", "configure"})' = Ready({"list", "configure"})
  BY ReadyKept DEF Early
<1>4. Ready({"configure"})' = Ready({"configure"})
  BY ReadyKept DEF Early
<1> QED BY <1>1, <1>2, <1>3, <1>4

LEMMA BooksMoved ==
  ASSUME Books, NEW t \in Threads, StepBy(t), ThreadOk(th'[t]), StageSame(th[t], th'[t]), Owned', SetsOk',
         th[t].pc \notin {"close", "release", "giveback"}, th'[t].pc \notin {"close", "release", "giveback"},
         UNCHANGED <<ids, list, next, fd>>, RanksSame,
         handler' \in [loaded : BOOLEAN, refcount : Nat], leaked' \in Nat, lost' \subseteq Objects
  PROVE  Books' /\ Counted' = Counted
<1>1. Typed'
  BY ThreadsKept DEF Books, Typed, RanksSame, StepBy
<1>2. \A o \in Objects : rank'[o].live <=> rank[o].live
  BY DEF RanksSame
<1>3. /\ Counted' = Counted
      /\ Ready({"open", "list", "configure"})' = Ready({"open", "list", "configure"})
      /\ Ready({"list", "configure"})' = Ready({"list", "configure"})
      /\ Ready({"configure"})' = Ready({"configure"})
  BY <1>2, AllReadyKept DEF Books
<1>4. Named' = Named /\ Opened' = Opened /\ Shown' = Shown
  BY <1>3, AllPastKept DEF Named, Opened, Shown
<1>5. \A o \in Named : rank'[o].id = rank[o].id
  BY DEF RanksSame, Named, Ready
<1>6. \A o \in Opened : rank'[o].hw = rank[o].hw
  BY DEF RanksSame, Opened, Ready
<1>7. IdsInv'
  BY <1>4, <1>5 DEF Books, IdsInv
<1>8. FdInv'
  BY <1>4, <1>6 DEF Books, FdInv
<1>9. ListInv'
  BY <1>4 DEF Books, ListInv
<1> QED BY <1>1, <1>3, <1>7, <1>8, <1>9 DEF Books

LEMMA BooksKept ==
  ASSUME Books, NEW t \in Threads, Plainly(t), RanksSame,
         handler' \in [loaded : BOOLEAN, refcount : Nat], leaked' \in Nat
  PROVE  Books' /\ Counted' = Counted
<1>1. Owned'
  BY OwnedKept DEF Books, Plainly, RanksSame
<1>2. SetsOk' /\ lost' \subseteq Objects
  BY DEF Books, Typed, Plainly, SetsOk
<1> QED BY <1>1, <1>2, BooksMoved DEF Plainly

\* The references and the handler, when the ranks counted are the same.
Referenced == RefInv /\ LoadInv
LEMMA ReferencedKept ==
  ASSUME Referenced, NEW t \in Threads, StepBy(t), Counted' = Counted, leaked' = leaked,
         handler'.refcount = handler.refcount, handler.loaded => handler'.loaded,
         th[t].pc \in {"query", "put"} <=> th'[t].pc \in {"query", "put"},
         th'[t].pc \notin {"unload", "dropunload", "fill"}
  PROVE  Referenced'
<1>1. Probing' = Probing
  BY DEF Probing, StepBy, Alike
<1>2. RefInv'
  BY <1>1 DEF Referenced, RefInv
<1>3. \A u \in Threads \ {t} : th'[u].pc = th[u].pc /\ th'[u].call = th[u].call
  BY DEF StepBy, Alike
<1>4. LoadInv'
  BY <1>3 DEF Referenced, LoadInv
<1> QED BY <1>2, <1>4 DEF Referenced

LEMMA InvParts == Inv <=> Books /\ Referenced
BY DEF Inv, Books, Referenced

LEMMA RanksSameFacts ==
  ASSUME Typed, rank' = rank
  PROVE  RanksSame
BY DEF Typed, RanksSame, RanksOk

-----------------------------------------------------------------------------
(* The steps that take and give back nothing.                              *)

\* What a thread owns, by where it is.
LEMMA OwnAt ==
  ASSUME NEW s, ThreadOk(s)
  PROVE  /\ s.pc \notin Freeing => s.drop = <<>> /\ Leaving(s) = {}
         /\ Settled(s) /\ s.pc \notin Freeing => Own(s) = {}
         /\ s.cur = <<>> /\ s.pc \notin Freeing => Own(s) = {s.new} \ {NoRank}
         /\ s.pc \in {"rank", "norank", "trim", "disable", "jobs"} => Own(s) = Range(s.cur)
<1>1. s.pc \notin Freeing => Leaving(s) = {}
  BY EmptyFacts DEF ThreadOk, Leaving, Freeing
<1>2. s.pc \in {"rank", "norank", "trim", "disable", "jobs", "sg", "return"} => s.new = NoRank
  BY DEF ThreadOk, Early, Late
<1>3. s.pc \in {"rank", "norank", "trim", "disable", "jobs"} => ~Settled(s) /\ s.pc \notin Freeing
  BY DEF Settled, Freeing
<1>4. Settled(s) /\ s.pc \notin Freeing => s.new = NoRank
  BY <1>2 DEF Settled
<1>5. s.cur = <<>> => Mine(s) = {}
  BY EmptyFacts DEF Mine
<1> QED BY <1>1, <1>2, <1>3, <1>4, <1>5 DEF ThreadOk, Own, Mine

LEMMA BeginKeeps ==
  ASSUME Inv, NEW t \in Threads, NEW k \in Calls, Begin(t, k)
  PROVE  Inv'
<1>0. Books /\ Referenced /\ Typed /\ ThreadOk(th[t]) /\ th[t].pc = "idle"
  BY InvParts DEF Books, Typed, Begin, MayCall, At
<1> DEFINE quiet == \A u \in Threads : At(u, "idle")
           refused == k.kind # "describe" /\ k.n = 0
           pc == IF refused THEN "return" ELSE "rank"
           status == IF refused THEN "DPU_ERR_ALLOCATION" ELSE "DPU_OK"
           s == IF quiet THEN th ELSE Disturbed
           call == [k EXCEPT !.kind = IF @ = "ranks" /\ k.n = DPU_ALLOCATE_ALL THEN "alloc" ELSE @,
                             !.p.dispatch = @ /\ ~(k.n = DPU_ALLOCATE_ALL)]
           x == [Idle EXCEPT !.pc = pc, !.call = call, !.alone = quiet, !.free = Closed, !.status = status]
<1>1. th' = [s EXCEPT ![t] = x] /\ s \in {th, Disturbed} /\ pc \in {"rank", "return"}
  BY DEF Begin
<1>5. UNCHANGED <<handler, ids, list, next, rank, fd, sets, leaked, lost>>
  BY DEF Begin
<1> HIDE DEF call, quiet, status, s, pc
<1>7. /\ DOMAIN x = ThreadFields
      /\ x.pc = pc /\ x.call = call /\ x.cur = <<>> /\ x.drop = <<>> /\ x.new = NoRank
  BY DEF Idle, ThreadFields
<1> HIDE DEF x
<1>9. DOMAIN s = Threads /\ \A u \in Threads : Alike(th[u], s[u])
  <2>1. CASE s = th
    BY <1>0, <2>1 DEF Typed, ThreadOk, Alike
  <2>2. CASE s = Disturbed
    BY <1>0, <2>2, DisturbedFacts
  <2> QED BY <1>1, <2>1, <2>2
<1>10. StepBy(t) /\ th'[t] = x
  BY <1>1, <1>7, <1>9 DEF StepBy
<1>11. ThreadOk(x)
  BY <1>1, <1>7, EmptyFacts DEF ThreadOk, Points, Early, Late, Freeing
<1>12. Own(x) = {} /\ Own(th[t]) = {}
  <2>1. th[t].new = NoRank /\ th[t].cur = <<>>
    BY <1>0 DEF ThreadOk, Early, Late
  <2>2. th[t].pc \notin Freeing /\ x.pc \notin Freeing
    BY <1>0, <1>1, <1>7 DEF Freeing
  <2> QED BY <1>0, <1>7, <1>11, <2>1, <2>2, OwnAt
<1>13. StageSame(th[t], x)
  BY <1>0, <1>7 DEF ThreadOk, StageSame, Early, Late
<1>14. Plainly(t) /\ RanksSame
  BY <1>0, <1>1, <1>5, <1>7, <1>10, <1>11, <1>12, <1>13, RanksSameFacts DEF Plainly
<1>15. Books' /\ Counted' = Counted
  BY <1>0, <1>5, <1>14, BooksKept DEF Typed
<1>16. Referenced'
  BY <1>0, <1>1, <1>5, <1>7, <1>10, <1>15, ReferencedKept
<1> QED BY <1>15, <1>16 DEF Inv, Books, Referenced

LEMMA QuietStep ==
  ASSUME Inv, NEW t \in Threads, StepBy(t), ThreadOk(th'[t]), Own(th'[t]) = Own(th[t]), StageSame(th[t], th'[t]),
         th[t].pc \notin {"query", "put", "close", "release", "giveback"},
         th'[t].pc \notin {"query", "put", "unload", "dropunload", "fill", "close", "release", "giveback"},
         UNCHANGED <<handler, ids, list, next, fd, sets, leaked, lost>>, RanksSame
  PROVE  Inv'
<1>1. Books /\ Referenced /\ Typed /\ Plainly(t)
  BY InvParts DEF Books, Plainly
<1>2. Books' /\ Counted' = Counted
  BY <1>1, BooksKept DEF Typed
<1>3. Referenced'
  BY <1>1, <1>2, ReferencedKept
<1> QED BY <1>2, <1>3 DEF Inv, Books, Referenced

LEMMA DroppingFacts ==
  ASSUME NEW s, DOMAIN s = ThreadFields, NEW drop, NEW pc
  PROVE  /\ DOMAIN Dropping(s, drop, pc) = ThreadFields
         /\ Dropping(s, drop, pc).pc = (IF drop = <<>> THEN pc ELSE "drop")
         /\ Dropping(s, drop, pc).drop = drop /\ Dropping(s, drop, pc).then = pc
         /\ Dropping(s, drop, pc).cur = s.cur /\ Dropping(s, drop, pc).new = s.new
         /\ Dropping(s, drop, pc).call = s.call
BY DEF Dropping, ThreadFields

\* An error path of dpu_alloc frees the ranks there are, one after the other.
LEMMA ErrorFacts ==
  ASSUME NEW t \in Threads, NEW s, NEW status,
         DOMAIN s = Threads, DOMAIN s[t] = ThreadFields, \A u \in Threads \ {t} : Alike(th[u], s[u]),
         s[t].cur \in Seq(Objects), IsInjective(s[t].cur), s[t].call.kind = "describe" => s[t].cur = <<>>,
         th' = Error(t, s, status)
  PROVE  /\ StepBy(t) /\ ThreadOk(th'[t]) /\ th'[t].pc \in {"return", "drop"} /\ th'[t].new = NoRank
         /\ Own(th'[t]) = Range(s[t].cur)
<1> DEFINE a == [s[t] EXCEPT !.status = status, !.new = NoRank]
           x == Dropping(a, s[t].cur, "return")
<1>1. DOMAIN a = ThreadFields /\ a.cur = s[t].cur /\ a.new = NoRank /\ a.call = s[t].call
  BY DEF ThreadFields
<1>2. th' = [s EXCEPT ![t] = x]
  BY DEF Error
<1> HIDE DEF a
<1>3. /\ DOMAIN x = ThreadFields /\ x.pc = (IF s[t].cur = <<>> THEN "return" ELSE "drop")
      /\ x.drop = s[t].cur /\ x.then = "return" /\ x.cur = s[t].cur /\ x.new = NoRank /\ x.call = s[t].call
  BY <1>1, DroppingFacts
<1> HIDE DEF x
<1>4. StepBy(t) /\ th'[t] = x
  BY <1>2, <1>3 DEF StepBy
<1>5. ThreadOk(x)
  BY <1>3, NoRankIsNone, RangeInside DEF ThreadOk, Points, Early, Late, Freeing
<1>6. Settled(x) /\ Leaving(x) = Range(s[t].cur)
  BY <1>3 DEF Settled, Leaving, Freeing
<1>7. Own(x) = Range(s[t].cur)
  BY <1>3, <1>6 DEF Own, Mine
<1> QED BY <1>3, <1>4, <1>5, <1>7

LEMMA NoMoreRanksKeeps ==
  ASSUME Inv, NEW t \in Threads, NoMoreRanks(t)
  PROVE  Inv'
<1>0. Typed /\ ThreadOk(th[t]) /\ th[t].pc = "norank" /\ DOMAIN th = Threads /\ RanksSame
  BY RanksSameFacts DEF Inv, Typed, NoMoreRanks, At
<1>1. th[t].new = NoRank /\ Own(th[t]) = Range(th[t].cur)
  BY <1>0, OwnAt DEF ThreadOk, Early, Late
<1>2. CASE EnoughFound(th[t])
  <2> DEFINE pc == Trimmed(th[t].call)
  <2>1. th' = [th EXCEPT ![t].pc = pc] /\ pc \in {"trim", "disable"}
    BY <1>2 DEF NoMoreRanks, Trimmed
  <2> HIDE DEF pc
  <2>2. /\ th'[t] = [th[t] EXCEPT !.pc = pc] /\ StepBy(t)
        /\ th'[t].pc = pc /\ th'[t].cur = th[t].cur /\ th'[t].drop = th[t].drop /\ th'[t].new = NoRank
        /\ th'[t].then = th[t].then /\ th'[t].call = th[t].call
    BY <1>0, <1>1, <2>1 DEF StepBy, Alike, Typed, ThreadOk, ThreadFields
  <2>3. ThreadOk(th'[t])
    BY <1>0, <1>1, <2>1, <2>2 DEF ThreadOk, ThreadFields, Points, Early, Late, Freeing
  <2>4. Own(th'[t]) = Range(th[t].cur)
    BY <2>1, <2>2, <2>3, OwnAt
  <2> QED BY <1>0, <1>1, <2>1, <2>2, <2>3, <2>4, QuietStep DEF NoMoreRanks, StageSame
<1>3. CASE ~EnoughFound(th[t])
  <2>1. th' = Error(t, th, th[t].status)
    BY <1>3 DEF NoMoreRanks
  <2>2. \A u \in Threads \ {t} : Alike(th[u], th[u])
    BY <1>0 DEF Typed, ThreadOk, Alike
  <2>3. /\ StepBy(t) /\ ThreadOk(th'[t]) /\ th'[t].pc \in {"return", "drop"} /\ th'[t].new = NoRank
        /\ Own(th'[t]) = Range(th[t].cur)
    BY <1>0, <2>1, <2>2, ErrorFacts DEF ThreadOk
  <2> QED BY <1>0, <1>1, <2>3, QuietStep DEF NoMoreRanks, StageSame
<1> QED BY <1>2, <1>3

LEMMA TrimKeeps ==
  ASSUME Inv, NEW t \in Threads, Trim(t)
  PROVE  Inv'
<1>0. Typed /\ ThreadOk(th[t]) /\ th[t].pc = "trim" /\ DOMAIN th = Threads /\ RanksSame
  BY RanksSameFacts DEF Inv, Typed, Trim, At
<1>1. th[t].new = NoRank /\ Own(th[t]) = Range(th[t].cur) /\ DOMAIN th[t] = ThreadFields
  BY <1>0, OwnAt DEF ThreadOk, Early, Late
<1> DEFINE cur == th[t].cur
           complete == {o \in Objects : get_nr_of_dpus_in_rank(o) = COMPLETE}
           kept == Those(cur, complete)
           freed == Those(cur, Objects \ complete)
           a == [th[t] EXCEPT !.cur = kept, !.nd = @ - th[t].part]
           x == Dropping(a, freed, "disable")
<1>2. th' = [th EXCEPT ![t] = x]
  BY DEF Trim
<1>3. cur \in Seq(Objects) /\ IsInjective(cur) /\ Range(cur) \subseteq Objects
  BY <1>0, RangeInside DEF ThreadOk
<1>4. /\ kept \in Seq(Objects) /\ IsInjective(kept) /\ Range(kept) = Range(cur) \cap complete
      /\ freed \in Seq(Objects) /\ IsInjective(freed) /\ Range(freed) = Range(cur) \cap (Objects \ complete)
  BY <1>3, ThoseFacts
<1>5. UNCHANGED <<handler, ids, list, next, fd, sets, leaked, lost>>
  BY DEF Trim
<1> HIDE DEF kept, freed, complete
<1>6. DOMAIN a = ThreadFields /\ a.cur = kept /\ a.new = NoRank /\ a.call = th[t].call
  BY <1>1 DEF ThreadFields
<1> HIDE DEF a
<1>7. /\ DOMAIN x = ThreadFields /\ x.pc = (IF freed = <<>> THEN "disable" ELSE "drop")
      /\ x.drop = freed /\ x.then = "disable" /\ x.cur = kept /\ x.new = NoRank /\ x.call = th[t].call
  BY <1>6, DroppingFacts
<1> HIDE DEF x
<1>8. StepBy(t) /\ th'[t] = x
  BY <1>0, <1>2, <1>7 DEF StepBy, Alike, Typed, ThreadOk
<1>9. x.call.kind = "describe" => kept = <<>>
  <2>1. x.call.kind = "describe" => Range(cur) = {}
    BY <1>0, <1>3, <1>7, EmptyRange DEF ThreadOk
  <2> QED BY <1>4, <2>1, EmptyRange
<1>11. NoRank \notin Range(kept) /\ Range(kept) \cap Range(freed) = {}
  BY <1>3, <1>4, NoRankIsNone
<1>12. ThreadOk(x)
  BY <1>4, <1>7, <1>9, <1>11 DEF ThreadOk, Points, Early, Late, Freeing
<1>13. Own(x) = Range(kept) \cup Range(freed)
  <2>1. ~Settled(x) /\ Leaving(x) = Range(freed)
    BY <1>7 DEF Settled, Leaving, Freeing
  <2> QED BY <1>7, <2>1 DEF Own, Mine
<1>14. Own(x) = Own(th[t])
  BY <1>1, <1>3, <1>4, <1>13
<1>15. x.pc \in {"disable", "drop"}
  BY <1>7
<1> QED BY <1>0, <1>1, <1>5, <1>7, <1>8, <1>12, <1>14, <1>15, QuietStep DEF StageSame

LEMMA DisableUnusedKeeps ==
  ASSUME Inv, NEW t \in Threads, DisableUnused(t)
  PROVE  Inv'
<1>0. Typed /\ ThreadOk(th[t]) /\ th[t].pc = "disable" /\ DOMAIN th = Threads
  BY DEF Inv, Typed, DisableUnused, At
<1>1. th[t].new = NoRank /\ Own(th[t]) = Range(th[t].cur) /\ DOMAIN th[t] = ThreadFields
  BY <1>0, OwnAt DEF ThreadOk, Early, Late
<1>2. UNCHANGED <<handler, ids, list, next, fd, sets, leaked, lost>>
  BY DEF DisableUnused
<1>3. ASSUME NEW on, rank' = [o \in Objects |-> [rank[o] EXCEPT !.on = on[o]]], Goto(t, "jobs")
      PROVE  Inv'
  <2>1. RanksSame
    BY <1>0, <1>3 DEF Typed, RanksOk, RanksSame, RankFields
  <2>2. /\ StepBy(t) /\ th'[t] = [th[t] EXCEPT !.pc = "jobs"]
        /\ th'[t].pc = "jobs" /\ th'[t].cur = th[t].cur /\ th'[t].drop = th[t].drop /\ th'[t].new = NoRank
        /\ th'[t].then = th[t].then /\ th'[t].call = th[t].call
    BY <1>0, <1>1, <1>3 DEF Goto, StepBy, Alike, Typed, ThreadOk, ThreadFields
  <2>3. ThreadOk(th'[t])
    BY <1>0, <1>1, <2>2 DEF ThreadOk, ThreadFields, Points, Early, Late, Freeing
  <2>4. Own(th'[t]) = Range(th[t].cur)
    BY <2>2, <2>3, OwnAt
  <2> QED BY <1>0, <1>1, <1>2, <2>1, <2>2, <2>3, <2>4, QuietStep DEF StageSame
<1>4. ASSUME NEW status, rank' = rank, th' = Error(t, Disturbed, status)
      PROVE  Inv'
  <2>1. RanksSame
    BY <1>0, <1>4, RanksSameFacts
  <2>2. /\ DOMAIN Disturbed = Threads /\ \A u \in Threads : Alike(th[u], Disturbed[u])
    BY <1>0, DisturbedFacts
  <2>3. /\ DOMAIN Disturbed[t] = ThreadFields /\ Disturbed[t].cur = th[t].cur /\ Disturbed[t].call = th[t].call
    BY <2>2 DEF Alike
  <2>4. th[t].cur \in Seq(Objects) /\ IsInjective(th[t].cur) /\ (th[t].call.kind = "describe" => th[t].cur = <<>>)
    BY <1>0 DEF ThreadOk
  <2>5. /\ StepBy(t) /\ ThreadOk(th'[t]) /\ th'[t].pc \in {"return", "drop"} /\ th'[t].new = NoRank
        /\ Own(th'[t]) = Range(th[t].cur)
    BY <1>4, <2>2, <2>3, <2>4, ErrorFacts
  <2> QED BY <1>0, <1>1, <1>2, <2>1, <2>5, QuietStep DEF StageSame
<1> DEFINE k == th[t].call
           too_many == IF k.kind \in {"ranks", "custom"} \/ k.n = DPU_ALLOCATE_ALL THEN 0 ELSE th[t].nd - k.n
           on == Disabled(th[t].cur, too_many, IF k.kind = "comm" /\ k.p.type = 2 THEN 1 ELSE 2)
           status == IF k.kind = "comm" THEN "DPU_ERR_INTERNAL" ELSE "DPU_ERR_TIMEOUT"
<1>5. \/ rank' = [o \in Objects |-> [rank[o] EXCEPT !.on = on[o]]] /\ Goto(t, "jobs")
      \/ rank' = rank /\ th' = Error(t, Disturbed, status)
  BY DEF DisableUnused
<1> HIDE DEF on, status
<1> QED BY <1>3, <1>4, <1>5

LEMMA GotoFacts ==
  ASSUME Typed, NEW t \in Threads, NEW pc, Goto(t, pc)
  PROVE  /\ StepBy(t) /\ th'[t].pc = pc /\ th'[t].cur = th[t].cur /\ th'[t].drop = th[t].drop
         /\ th'[t].new = th[t].new /\ th'[t].then = th[t].then /\ th'[t].call = th[t].call
<1>1. DOMAIN th = Threads /\ \A u \in Threads : DOMAIN th[u] = ThreadFields
  BY DEF Typed, ThreadOk
<1> QED BY <1>1 DEF Goto, StepBy, Alike, ThreadFields

\* dpu_alloc_ranks counts a rank after its reset, and loses it when that fails;
\* the others count it before.
LEMMA ConfigureKeeps ==
  ASSUME Inv, NEW t \in Threads, Configure(t), ~spoiled'
  PROVE  Inv'
<1>0. Typed /\ ThreadOk(th[t]) /\ th[t].pc = "configure" /\ DOMAIN th = Threads
  BY DEF Inv, Typed, Configure, At
<1>1. /\ th[t].new \in Objects /\ th[t].call.kind # "describe" /\ DOMAIN th[t] = ThreadFields
      /\ th[t].cur \in Seq(Objects) /\ IsInjective(th[t].cur) /\ th[t].new \notin Range(th[t].cur)
      /\ th[t].drop = <<>> /\ th[t].new # NoRank
  BY <1>0, NoRankIsNone DEF ThreadOk, Early, Late, Points, Freeing
<1>2. UNCHANGED <<handler, ids, list, next, fd, sets, leaked>>
  BY DEF Configure
<1> DEFINE k == th[t].call
           grown == Append(th[t].cur, th[t].new)
           here == get_nr_of_dpus_in_rank(th[t].new)
           nd == th[t].nd + here
           part == th[t].part + (IF here = COMPLETE THEN 0 ELSE here)
           pc == IF More(k, Len(grown), nd, part) THEN "rank" ELSE Trimmed(k)
<1>3. grown \in Seq(Objects) /\ IsInjective(grown) /\ Range(grown) = Range(th[t].cur) \cup {th[t].new}
  BY <1>1, AppendRange
<1>4. Own(th[t]) = Range(grown)
  <2>1. ~Settled(th[t]) /\ Leaving(th[t]) = {}
    BY <1>0, <1>1, OwnAt DEF Settled, Freeing
  <2> QED BY <1>1, <1>3, <2>1 DEF Own, Mine
<1>5. CASE /\ th' = [th EXCEPT ![t].cur = grown, ![t].nd = nd, ![t].part = part, ![t].new = NoRank, ![t].pc = pc]
           /\ rank' = rank /\ lost' = lost
  <2>0. pc \in {"rank", "trim", "disable"}
    BY DEF Trimmed
  <2> HIDE DEF grown, nd, part, pc
  <2>1. /\ StepBy(t) /\ th'[t].pc = pc /\ th'[t].cur = grown /\ th'[t].drop = <<>> /\ th'[t].new = NoRank
        /\ th'[t].then = th[t].then /\ th'[t].call = k /\ DOMAIN th'[t] = ThreadFields
    <3>1. \A u \in Threads \ {t} : th'[u] = th[u] /\ DOMAIN th[u] = ThreadFields
      BY <1>0, <1>5 DEF Typed, ThreadOk
    <3>2. DOMAIN th' = Threads /\ DOMAIN th'[t] = ThreadFields
      BY <1>0, <1>1, <1>5
    <3>3. StepBy(t)
      BY <3>1, <3>2 DEF StepBy, Alike
    <3> QED BY <1>0, <1>1, <1>5, <3>2, <3>3 DEF ThreadFields
  <2>2. NoRank \notin Range(grown)
    BY <1>3, NoRankIsNone, RangeInside
  <2>3. ThreadOk(th'[t])
    BY <1>1, <1>3, <2>0, <2>1, <2>2, EmptyFacts DEF ThreadOk, Points, Early, Late, Freeing
  <2>4. Own(th'[t]) = Range(grown)
    BY <2>0, <2>1, <2>3, OwnAt
  <2>5. RanksSame
    BY <1>0, <1>5, RanksSameFacts
  <2> QED BY <1>0, <1>2, <1>4, <1>5, <2>0, <2>1, <2>3, <2>4, <2>5, QuietStep DEF StageSame
<1>6. CASE /\ th' = Error(t, [Disturbed EXCEPT ![t].cur = IF k.kind = "ranks" THEN @ ELSE grown], "DPU_ERR_TIMEOUT")
           /\ rank' = rank /\ lost' = IF k.kind = "ranks" THEN lost \cup {th[t].new} ELSE lost
  <2> DEFINE s == [Disturbed EXCEPT ![t].cur = IF k.kind = "ranks" THEN @ ELSE grown]
             cur == IF k.kind = "ranks" THEN th[t].cur ELSE grown
  <2>1. cur \in Seq(Objects) /\ IsInjective(cur)
    BY <1>1, <1>3
  <2>2. DOMAIN Disturbed = Threads /\ \A u \in Threads : Alike(th[u], Disturbed[u])
    BY <1>0, DisturbedFacts
  <2>3. DOMAIN Disturbed[t] = ThreadFields /\ Disturbed[t].call = k /\ Disturbed[t].cur = th[t].cur
    BY <2>2 DEF Alike
  <2> HIDE DEF grown
  <2>4. /\ DOMAIN s = Threads /\ DOMAIN s[t] = ThreadFields /\ \A u \in Threads \ {t} : Alike(th[u], s[u])
        /\ s[t].cur = cur /\ s[t].call = k
    BY <2>2, <2>3 DEF ThreadFields
  <2>5. th' = Error(t, s, "DPU_ERR_TIMEOUT")
    BY <1>6
  <2> HIDE DEF s, cur
  <2>6. s[t].call.kind = "describe" => s[t].cur = <<>>
    BY <1>1, <2>4
  <2>7. /\ StepBy(t) /\ ThreadOk(th'[t]) /\ th'[t].pc \in {"return", "drop"} /\ th'[t].new = NoRank
        /\ Own(th'[t]) = Range(cur)
    BY <2>1, <2>4, <2>5, <2>6, ErrorFacts
  <2>8. RanksSame
    BY <1>0, <1>6, RanksSameFacts
  <2>9. CASE k.kind # "ranks"
    <3>1. lost' = lost /\ cur = grown
      BY <1>6, <2>9 DEF cur
    <3> QED BY <1>0, <1>2, <1>4, <2>7, <2>8, <3>1, QuietStep DEF StageSame
  <2>10. CASE k.kind = "ranks"
    <3>1. lost' = lost \cup {th[t].new} /\ cur = th[t].cur
      BY <1>6, <2>10 DEF cur
    <3>2. Books /\ Referenced /\ Owned /\ SetsOk
      BY DEF Inv, Books, Referenced, Typed
    <3>3. Held' = Held \cup {th[t].new}
      BY <1>2, <3>1 DEF Held
    <3>4. th[t].new \notin Held
      BY <1>1, <3>2 DEF Owned, Own
    <3>5. Owned'
      <4>1. \A o \in Objects : rank'[o].live <=> rank[o].live
        BY <2>8 DEF RanksSame
      <4>2. Own(th'[t]) \cup Held' = Own(th[t]) \cup Held
        BY <1>3, <1>4, <2>7, <3>1, <3>3
      <4>3. Own(th'[t]) \cap Held' = {}
        BY <1>1, <1>3, <1>4, <2>7, <3>1, <3>2, <3>3 DEF Owned
      <4>4. /\ \A a, z \in sets' : a # z => Range(a.ranks) \cap Range(z.ranks) = {}
            /\ \A a \in sets' : Range(a.ranks) \cap lost' = {}
        BY <1>2, <3>1, <3>2, <3>4 DEF Owned, Held
      <4> QED BY <1>0, <2>7, <3>2, <4>1, <4>2, <4>3, <4>4, OwnedMoves
    <3>6. SetsOk' /\ lost' \subseteq Objects
      BY <1>0, <1>1, <1>2, <3>1, <3>2 DEF SetsOk, Typed
    <3>7. StageSame(th[t], th'[t]) /\ handler' \in [loaded : BOOLEAN, refcount : Nat] /\ leaked' \in Nat
      BY <1>0, <1>2, <2>7 DEF StageSame, Typed
    <3>8. Books' /\ Counted' = Counted
      BY <1>0, <1>2, <2>7, <2>8, <3>2, <3>5, <3>6, <3>7, BooksMoved
    <3>9. Referenced'
      BY <1>0, <1>2, <2>7, <3>2, <3>8, ReferencedKept
    <3> QED BY <3>8, <3>9 DEF Inv, Books, Referenced
  <2> QED BY <2>9, <2>10
<1> HIDE DEF grown, here, nd, part, pc
<1> QED BY <1>5, <1>6 DEF Configure, grown, here, nd, part, pc

\* The set is given to the program; its ranks are not freed under it (SPOILED).
LEMMA ScatterGatherKeeps ==
  ASSUME Inv, NEW t \in Threads, init_scatter_gather_transfer_buffer(t), ~spoiled'
  PROVE  Inv'
<1>0. Typed /\ ThreadOk(th[t]) /\ th[t].pc = "sg" /\ DOMAIN th = Threads /\ RanksSame /\ DOMAIN th[t] = ThreadFields
  BY RanksSameFacts DEF Inv, Typed, init_scatter_gather_transfer_buffer, At, ThreadOk
<1>2. th' = [th EXCEPT ![t].pc = "return", ![t].status = "DPU_OK"]
  BY DEF init_scatter_gather_transfer_buffer
<1>3. /\ th'[t].pc = "return" /\ th'[t].cur = th[t].cur /\ th'[t].drop = th[t].drop
      /\ th'[t].new = th[t].new /\ th'[t].then = th[t].then /\ th'[t].call = th[t].call
      /\ DOMAIN th'[t] = ThreadFields
  BY <1>0, <1>2 DEF ThreadFields
<1>4. StepBy(t)
  <2>1. \A u \in Threads \ {t} : th'[u] = th[u] /\ DOMAIN th[u] = ThreadFields
    BY <1>0, <1>2 DEF Typed, ThreadOk
  <2>2. DOMAIN th' = Threads
    BY <1>0, <1>2
  <2> QED BY <1>3, <2>1, <2>2 DEF StepBy, Alike
<1>5. ThreadOk(th'[t])
  BY <1>0, <1>3 DEF ThreadOk, Points, Early, Late, Freeing
<1>6. Own(th[t]) = {} /\ Own(th'[t]) = {}
  BY <1>0, <1>3, <1>5, OwnAt DEF Settled, Freeing
<1>7. StageSame(th[t], th'[t])
  BY <1>0, <1>3 DEF StageSame, ThreadOk, Early, Late
<1> QED BY <1>0, <1>3, <1>4, <1>5, <1>6, <1>7, QuietStep DEF init_scatter_gather_transfer_buffer

LEMMA ReturnKeeps ==
  ASSUME Inv, NEW t \in Threads, Return(t)
  PROVE  Inv'
<1>0. Typed /\ ThreadOk(th[t]) /\ th[t].pc = "return" /\ DOMAIN th = Threads /\ RanksSame
  BY RanksSameFacts DEF Inv, Typed, Return, At
<1>1. th' = [th EXCEPT ![t] = Idle]
  BY DEF Return
<1>2. /\ DOMAIN Idle = ThreadFields /\ Idle.pc = "idle" /\ Idle.cur = <<>> /\ Idle.drop = <<>>
      /\ Idle.new = NoRank /\ Idle.call.kind = "none"
  BY DEF Idle, ThreadFields
<1>3. th'[t] = Idle /\ StepBy(t)
  <2>1. \A u \in Threads \ {t} : th'[u] = th[u] /\ DOMAIN th[u] = ThreadFields
    BY <1>0, <1>1 DEF Typed, ThreadOk
  <2>2. DOMAIN th' = Threads /\ th'[t] = Idle
    BY <1>0, <1>1
  <2> QED BY <1>2, <2>1, <2>2 DEF StepBy, Alike
<1>4. ThreadOk(Idle)
  BY <1>2, EmptyFacts DEF ThreadOk, Points, Early, Late, Freeing
<1>5. Own(th[t]) = {} /\ Own(Idle) = {}
  BY <1>0, <1>2, <1>4, OwnAt DEF Settled, Freeing
<1>6. StageSame(th[t], Idle)
  BY <1>0, <1>2 DEF StageSame, ThreadOk, Early, Late
<1> QED BY <1>0, <1>2, <1>3, <1>4, <1>5, <1>6, QuietStep DEF Return

LEMMA DescriptionKeeps ==
  ASSUME Inv, NEW t \in Threads, dpu_get_profile_description(t)
  PROVE  Inv'
<1>0. /\ Typed /\ ThreadOk(th[t]) /\ th[t].pc = "fill" /\ th[t].call.kind = "describe" /\ DOMAIN th = Threads
      /\ RanksSame /\ DOMAIN th[t] = ThreadFields
  BY RanksSameFacts DEF Inv, Typed, dpu_get_profile_description, At, ThreadOk
<1>1. th[t].cur = <<>> /\ th[t].new = NoRank /\ th[t].drop = <<>>
  BY <1>0 DEF ThreadOk, Freeing
<1>2. \/ Goto(t, "return")
      \/ th' = [Disturbed EXCEPT ![t].pc = "return", ![t].status = "DPU_ERR_INVALID_PROFILE"]
  BY DEF dpu_get_profile_description
<1>3. /\ StepBy(t) /\ DOMAIN th'[t] = ThreadFields
      /\ th'[t].pc = "return" /\ th'[t].cur = <<>> /\ th'[t].drop = <<>> /\ th'[t].new = NoRank
  <2>1. CASE Goto(t, "return")
    BY <1>0, <1>1, <2>1, GotoFacts DEF StepBy
  <2>2. CASE th' = [Disturbed EXCEPT ![t].pc = "return", ![t].status = "DPU_ERR_INVALID_PROFILE"]
    <3>1. DOMAIN Disturbed = Threads /\ \A u \in Threads : Alike(th[u], Disturbed[u])
      BY <1>0, DisturbedFacts
    <3>2. DOMAIN th' = Threads /\ \A u \in Threads \ {t} : th'[u] = Disturbed[u]
      BY <2>2, <3>1
    <3>3. /\ DOMAIN Disturbed[t] = ThreadFields /\ Disturbed[t].cur = <<>> /\ Disturbed[t].drop = <<>>
          /\ Disturbed[t].new = NoRank
      BY <1>1, <3>1 DEF Alike
    <3>4. /\ DOMAIN th'[t] = ThreadFields
          /\ th'[t].pc = "return" /\ th'[t].cur = <<>> /\ th'[t].drop = <<>> /\ th'[t].new = NoRank
      BY <2>2, <3>1, <3>3 DEF ThreadFields
    <3> QED BY <3>1, <3>2, <3>4 DEF StepBy
  <2> QED BY <1>2, <2>1, <2>2
<1>4. ThreadOk(th'[t])
  BY <1>3, EmptyFacts DEF ThreadOk, Points, Early, Late, Freeing
<1>5. Own(th[t]) = {} /\ Own(th'[t]) = {}
  BY <1>0, <1>1, <1>3, <1>4, OwnAt DEF Settled, Freeing
<1>6. StageSame(th[t], th'[t])
  BY <1>1, <1>3 DEF StageSame
<1> QED BY <1>0, <1>3, <1>4, <1>5, <1>6, QuietStep DEF dpu_get_profile_description

-----------------------------------------------------------------------------
(* The references of the handler.                                          *)

LEMMA ReadyFinite ==
  /\ \A P : IsFiniteSet(Ready(P)) /\ Cardinality(Ready(P)) \in Nat
  /\ IsFiniteSet(Counted) /\ Cardinality(Counted) \in Nat
  /\ IsFiniteSet(Probing) /\ Cardinality(Probing) \in Nat
<1>1. IsFiniteSet(Threads) /\ Cardinality(Threads) \in Nat /\ NrHwRanks \in Nat
  BY SetAllocAssumption, FS_CardinalityType
<1>2. NrHwRanks + Cardinality(Threads) \in Nat
  BY <1>1
<1>3. IsFiniteSet(Objects)
  BY <1>2, FS_Interval DEF Objects
<1>4. \A P : IsFiniteSet(Ready(P))
  BY <1>3, FS_Subset DEF Ready
<1>5. IsFiniteSet(Probing)
  BY <1>1, FS_Subset DEF Probing
<1> QED BY <1>4, <1>5, FS_CardinalityType DEF Counted

\* Until the handler is taken for it, a rank is not counted.
LEMMA StaysEarly ==
  ASSUME Inv, NEW t \in Threads, NEW pc \in Points, Goto(t, pc),
         th[t].pc \in Early, pc \in Early \cup {"norank"},
         pc \in {"put", "unload", "norank"} => th[t].pc \in {"put", "unload"}, th[t].pc \in {"put", "unload"} => pc \in {"unload", th[t].then},
         UNCHANGED <<ids, list, next, rank, fd, sets, lost>>,
         handler' \in [loaded : BOOLEAN, refcount : Nat], leaked' \in Nat
  PROVE  Books' /\ Counted' = Counted /\ StepBy(t) /\ th'[t].pc = pc /\ th'[t].call = th[t].call
<1>0. Books /\ Typed /\ ThreadOk(th[t]) /\ RanksSame
  BY RanksSameFacts DEF Inv, Books, Typed
<1>1. /\ StepBy(t) /\ th'[t].pc = pc /\ th'[t].cur = th[t].cur /\ th'[t].drop = th[t].drop
      /\ th'[t].new = th[t].new /\ th'[t].then = th[t].then /\ th'[t].call = th[t].call /\ DOMAIN th'[t] = ThreadFields
  BY <1>0, GotoFacts DEF StepBy
<1>2. ThreadOk(th'[t])
  BY <1>0, <1>1 DEF ThreadOk, Points, Early, Late, Freeing
<1>3. Own(th'[t]) = Own(th[t])
  BY <1>1 DEF Own, Mine, Leaving, Settled, Early, Freeing
<1>4. StageSame(th[t], th'[t])
  BY <1>0, <1>1 DEF StageSame, ThreadOk, Early, Late
<1>5. Plainly(t)
  BY <1>1, <1>2, <1>3, <1>4 DEF Plainly, Early
<1> QED BY <1>0, <1>1, <1>5, BooksKept

LEMMA InstantiateKeeps ==
  ASSUME Inv, NEW t \in Threads, dpu_rank_handler_instantiate(t)
  PROVE  Inv'
<1>0. /\ Books /\ Referenced /\ Typed /\ th[t].pc = "inst" /\ handler \in [loaded : BOOLEAN, refcount : Nat] /\ leaked \in Nat
      /\ Goto(t, "get") /\ UNCHANGED <<ids, list, next, rank, fd, sets, leaked, lost>> /\ handler' = Instantiated
  BY DEF Inv, Books, Referenced, Typed, dpu_rank_handler_instantiate, At
<1>1. handler' \in [loaded : BOOLEAN, refcount : Nat] /\ handler'.refcount = handler.refcount /\ handler'.loaded
  BY <1>0 DEF Instantiated, Referenced, LoadInv
<1>2. Books' /\ Counted' = Counted /\ StepBy(t) /\ th'[t].pc = "get"
  BY <1>0, <1>1, StaysEarly DEF Points, Early
<1>3. Referenced'
  BY <1>0, <1>1, <1>2, ReferencedKept
<1> QED BY <1>2, <1>3 DEF Inv, Books, Referenced

LEMMA QueryKeeps ==
  ASSUME Inv, NEW t \in Threads, Query(t)
  PROVE  Inv'
<1>0. Books /\ Referenced /\ Typed /\ ThreadOk(th[t]) /\ th[t].pc = "query" /\ DOMAIN th = Threads /\ RanksSame
  BY RanksSameFacts DEF Inv, Books, Referenced, Typed, Query, At
<1>1. th' = [th EXCEPT ![t].pc = "put", ![t].then = "inst"] /\ UNCHANGED <<handler, ids, list, next, fd, sets, leaked, lost>>
  BY DEF Query
<1>2. DOMAIN th' = Threads /\ \A u \in Threads \ {t} : th'[u] = th[u] /\ DOMAIN th[u] = ThreadFields
  BY <1>0, <1>1 DEF Typed, ThreadOk
<1>3. /\ th'[t].pc = "put" /\ th'[t].cur = th[t].cur /\ th'[t].drop = th[t].drop /\ DOMAIN th'[t] = ThreadFields
      /\ th'[t].new = th[t].new /\ th'[t].then = "inst" /\ th'[t].call = th[t].call
  BY <1>0, <1>1 DEF ThreadOk, ThreadFields
<1>4. StepBy(t)
  BY <1>2, <1>3 DEF StepBy, Alike
<1>5. ThreadOk(th'[t])
  BY <1>0, <1>3 DEF ThreadOk, Points, Early, Late, Freeing
<1>6. Own(th'[t]) = Own(th[t])
  BY <1>0, <1>3 DEF Own, Mine, Leaving, Settled, Freeing
<1>7. Plainly(t)
  BY <1>0, <1>1, <1>3, <1>4, <1>5, <1>6 DEF Plainly, StageSame, Early
<1>8. Books' /\ Counted' = Counted
  BY <1>0, <1>1, <1>7, BooksKept DEF Typed
<1>9. Referenced'
  BY <1>0, <1>1, <1>3, <1>4, <1>8, ReferencedKept
<1> QED BY <1>8, <1>9 DEF Inv, Books, Referenced

\* dpu_rank_handler_put of determine_default_backend_type, or of
\* dpu_get_rank_of_type: the last reference unloads the library.
LEMMA PutKeeps ==
  ASSUME Inv, NEW t \in Threads, dpu_rank_handler_put(t)
  PROVE  Inv'
<1>0. /\ Books /\ Referenced /\ Typed /\ ThreadOk(th[t]) /\ th[t].pc = "put"
      /\ handler \in [loaded : BOOLEAN, refcount : Nat] /\ leaked \in Nat
  BY DEF Inv, Books, Referenced, Typed, dpu_rank_handler_put, At
<1> DEFINE pc == IF handler.refcount = 1 THEN "unload" ELSE th[t].then
<1>1. /\ handler' = [handler EXCEPT !.refcount = @ - 1] /\ Goto(t, pc)
      /\ UNCHANGED <<ids, list, next, rank, fd, sets, leaked, lost>>
  BY DEF dpu_rank_handler_put
<1>2. pc \in {"unload", th[t].then} /\ pc \in {"unload", "inst", "norank"}
  BY <1>0 DEF ThreadOk
<1>3. t \in Probing
  BY <1>0 DEF Probing
<1>4. Cardinality(Probing) >= 1
  <2>1. Cardinality(Probing \ {t}) = Cardinality(Probing) - 1
    BY <1>3, ReadyFinite, FS_RemoveElement
  <2>2. Cardinality(Probing \ {t}) \in Nat
    BY ReadyFinite, FS_Subset, FS_CardinalityType
  <2> QED BY <2>1, <2>2, ReadyFinite
<1>5. handler.refcount >= 1 /\ handler.refcount \in Nat
  BY <1>0, <1>4, ReadyFinite DEF Referenced, RefInv
<1>6. handler' \in [loaded : BOOLEAN, refcount : Nat] /\ handler'.refcount = handler.refcount - 1 /\ handler'.loaded
  BY <1>0, <1>1, <1>5 DEF Referenced, LoadInv
<1>7. Books' /\ Counted' = Counted /\ StepBy(t) /\ th'[t].pc = pc
  <2> HIDE DEF pc
  <2> QED BY <1>0, <1>1, <1>2, <1>6, StaysEarly DEF Points, Early
<1>8. Probing' = Probing \ {t}
  BY <1>2, <1>7 DEF Probing, StepBy, Alike
<1>9. Cardinality(Probing') = Cardinality(Probing) - 1
  BY <1>3, <1>8, ReadyFinite, FS_RemoveElement
<1>10. RefInv'
  BY <1>0, <1>1, <1>5, <1>6, <1>7, <1>9, ReadyFinite DEF Referenced, RefInv
<1>11. \A u \in Threads \ {t} : th'[u].pc = th[u].pc /\ th'[u].call = th[u].call
  BY <1>7 DEF StepBy, Alike
<1>12. \A u \in Threads : th'[u].pc \in {"unload", "dropunload"} => handler'.refcount = 0
  <2>1. \A u \in Threads \ {t} : th'[u].pc \notin {"unload", "dropunload"}
    BY <1>0, <1>5, <1>11 DEF Referenced, LoadInv
  <2>2. th'[t].pc \in {"unload", "dropunload"} => handler.refcount = 1
    BY <1>2, <1>7, <1>0 DEF ThreadOk
  <2> QED BY <2>1, <2>2, <1>6
<1>13. LoadInv'
  BY <1>0, <1>1, <1>2, <1>6, <1>7, <1>11, <1>12 DEF Referenced, LoadInv
<1> QED BY <1>7, <1>10, <1>13 DEF Inv, Books

\* The library is unloaded outside the lock; there is no reference then.
LEMMA UnloadKeeps ==
  ASSUME Inv, NEW t \in Threads, dpu_rank_handler_free(t)
  PROVE  Inv'
<1>0. /\ Books /\ Referenced /\ Typed /\ ThreadOk(th[t]) /\ th[t].pc = "unload"
      /\ handler \in [loaded : BOOLEAN, refcount : Nat] /\ leaked \in Nat
  BY DEF Inv, Books, Referenced, Typed, dpu_rank_handler_free, At
<1>1. /\ handler' = [handler EXCEPT !.loaded = FALSE] /\ Goto(t, th[t].then)
      /\ UNCHANGED <<ids, list, next, rank, fd, sets, leaked, lost>>
  BY DEF dpu_rank_handler_free
<1>2. th[t].then \in {"inst", "norank"}
  BY <1>0 DEF ThreadOk
<1>3. handler' \in [loaded : BOOLEAN, refcount : Nat] /\ handler'.refcount = handler.refcount /\ handler.refcount = 0
  BY <1>0, <1>1 DEF Referenced, LoadInv
<1>4. Books' /\ Counted' = Counted /\ StepBy(t) /\ th'[t].pc = th[t].then
  BY <1>0, <1>1, <1>2, <1>3, StaysEarly DEF Points, Early
<1>6. \A u \in Threads \ {t} : th'[u].pc = th[u].pc /\ th'[u].call = th[u].call
  BY <1>4 DEF StepBy, Alike
<1>7. Probing' = Probing
  BY <1>0, <1>2, <1>4 DEF Probing, StepBy, Alike
<1>8. RefInv'
  BY <1>0, <1>1, <1>3, <1>4, <1>7 DEF Referenced, RefInv
<1>9. LoadInv'
  BY <1>0, <1>1, <1>2, <1>3, <1>4, <1>6 DEF LoadInv, Referenced
<1> QED BY <1>4, <1>8, <1>9 DEF Inv, Books

LEMMA NewIsOwn ==
  ASSUME Typed, Owned, NEW t \in Threads, th[t].new # NoRank
  PROVE  /\ th[t].new \in Objects /\ th[t].new \in Own(th[t]) /\ rank[th[t].new].live
         /\ \A u \in Threads \ {t} : th[u].new # th[t].new
<1>1. th[t].new \in Objects /\ th[t].new \in Own(th[t])
  BY DEF Typed, ThreadOk, Own
<1>2. \A u \in Threads \ {t} : th[t].new \notin Own(th[u])
  BY <1>1 DEF Owned
<1>3. \A u \in Threads \ {t} : th[u].new = th[t].new => th[t].new \in Own(th[u])
  BY DEF Own
<1>4. rank[th[t].new].live
  BY <1>1 DEF Owned
<1> QED BY <1>1, <1>2, <1>3, <1>4

LEMMA NewNotPast ==
  ASSUME Typed, Owned, NEW t \in Threads, th[t].new # NoRank
  PROVE  /\ th[t].new \notin Past({"giveback"})
         /\ th[t].new \notin Past({"release", "giveback"})
         /\ th[t].new \notin Past({"close", "release", "giveback"})
<1>1. th[t].pc \notin Freeing /\ th[t].new \in Own(th[t])
  BY DEF Typed, ThreadOk, Own, Early, Late, Freeing
<1>2. ASSUME NEW u \in Threads, th[u].pc \in {"close", "release", "giveback"}, Head(th[u].drop) = th[t].new PROVE FALSE
  <2>1. u # t
    BY <1>1, <1>2 DEF Freeing
  <2>2. th[u].drop \in Seq(Objects) /\ th[u].drop # <<>> /\ IsInjective(th[u].drop)
    BY <1>2 DEF Typed, ThreadOk, Freeing
  <2>3. Head(th[u].drop) \in Range(th[u].drop)
    BY <2>2, TailRange
  <2>4. Head(th[u].drop) \in Own(th[u])
    BY <1>2, <2>3 DEF Own, Leaving
  <2> QED BY <1>1, <1>2, <2>1, <2>4 DEF Owned
<1> QED BY <1>2 DEF Past

LEMMA ReadyOf ==
  ASSUME NEW t \in Threads, StepBy(t), NEW P, NEW o \in Objects
  PROVE  o \in Ready(P)' <=> /\ rank'[o].live /\ (th'[t].new = o => th'[t].pc \in P)
                             /\ \A u \in Threads \ {t} : th[u].new = o => th[u].pc \in P
BY DEF Ready, StepBy, Alike

\* The rank that the thread makes comes one step further.
LEMMA ReadyMoves ==
  ASSUME Typed, Owned, NEW t \in Threads, StepBy(t), th[t].new # NoRank, th'[t].new = th[t].new, NEW P,
         \A o \in Objects : rank'[o].live <=> rank[o].live
  PROVE  /\ (th[t].pc \in P <=> th'[t].pc \in P) => Ready(P)' = Ready(P)
         /\ th[t].pc \notin P /\ th'[t].pc \in P =>
              Ready(P)' = Ready(P) \cup {th[t].new} /\ th[t].new \notin Ready(P)
<1> DEFINE n == th[t].new
<1>1. n \in Objects /\ rank[n].live /\ \A u \in Threads \ {t} : th[u].new # n
  BY NewIsOwn
<1>2. \A o \in Objects : o \in Ready(P) <=> /\ rank[o].live /\ (n = o => th[t].pc \in P)
                                            /\ \A u \in Threads \ {t} : th[u].new = o => th[u].pc \in P
  BY DEF Ready
<1>3. \A o \in Objects : o \in Ready(P)' <=> /\ rank'[o].live /\ (n = o => th'[t].pc \in P)
                                             /\ \A u \in Threads \ {t} : th[u].new = o => th[u].pc \in P
  BY ReadyOf
<1>4. Ready(P) \subseteq Objects /\ Ready(P)' \subseteq Objects
  BY DEF Ready
<1>5. \A o \in Objects \ {n} : o \in Ready(P)' <=> o \in Ready(P)
  BY <1>2, <1>3
<1>6. (n \in Ready(P) <=> th[t].pc \in P) /\ (n \in Ready(P)' <=> th'[t].pc \in P)
  BY <1>1, <1>2, <1>3
<1>7. (th[t].pc \in P <=> th'[t].pc \in P) => Ready(P)' = Ready(P)
  <2>1. (th[t].pc \in P <=> th'[t].pc \in P) => \A o \in Objects : o \in Ready(P)' <=> o \in Ready(P)
    BY <1>5, <1>6
  <2> QED BY <1>4, <2>1
<1>8. th[t].pc \notin P /\ th'[t].pc \in P => Ready(P)' = Ready(P) \cup {n} /\ n \notin Ready(P)
  BY <1>1, <1>4, <1>5, <1>6
<1> QED BY <1>7, <1>8

\* The thread goes on with the rank it makes.
GoesOn(t, pc) ==
  /\ Goto(t, pc) /\ th[t].pc \in (Early \cup Late) \ {"put", "unload"} /\ pc \in Late
  /\ pc \in {"open", "list", "configure"} => th[t].call.kind # "describe"

LEMMA GoesOnFacts ==
  ASSUME Books, NEW t \in Threads, NEW pc, GoesOn(t, pc), sets' = sets, lost' = lost, \A o \in Objects : rank'[o].live = rank[o].live
  PROVE  /\ StepBy(t) /\ ThreadOk(th'[t]) /\ Own(th'[t]) = Own(th[t]) /\ Owned'
         /\ th'[t].pc = pc /\ th'[t].new = th[t].new /\ th'[t].call = th[t].call /\ th'[t].drop = th[t].drop
         /\ DOMAIN th' = Threads /\ \A u \in Threads : ThreadOk(th'[u])
<1>0. Typed /\ Owned /\ ThreadOk(th[t])
  BY DEF Books, Typed
<1>1. /\ StepBy(t) /\ th'[t].pc = pc /\ th'[t].cur = th[t].cur /\ th'[t].drop = th[t].drop
      /\ th'[t].new = th[t].new /\ th'[t].then = th[t].then /\ th'[t].call = th[t].call /\ DOMAIN th'[t] = ThreadFields
  BY <1>0, GotoFacts DEF StepBy, GoesOn
<1>2. ThreadOk(th'[t])
  BY <1>0, <1>1 DEF ThreadOk, GoesOn, Points, Early, Late, Freeing
<1>3. Own(th'[t]) = Own(th[t])
  BY <1>1 DEF Own, Mine, Leaving, Settled, Early, Late, Freeing, GoesOn
<1>4. Owned'
  BY <1>0, <1>1, <1>2, <1>3, OwnedKept
<1>5. \A u \in Threads : ThreadOk(th'[u])
  BY <1>0, <1>1, <1>2, ThreadsKept
<1> QED BY <1>1, <1>2, <1>3, <1>4, <1>5 DEF StepBy

\* What LoadInv says of the others when references are only taken.
LEMMA LoadKept ==
  ASSUME LoadInv, NEW t \in Threads, StepBy(t), handler'.loaded, leaked' \in Nat, leaked \in Nat, leaked' >= leaked,
         \A u \in Threads \ {t} : th[u].pc \notin {"unload", "dropunload"},
         th'[t].pc \notin {"unload", "dropunload"},
         th'[t].pc = "fill" /\ th'[t].call.kind = "describe" => leaked' > 0
  PROVE  LoadInv'
<1>1. \A u \in Threads \ {t} : th'[u].pc = th[u].pc /\ th'[u].call = th[u].call
  BY DEF StepBy, Alike
<1>2. leaked > 0 => leaked' > 0
  OBVIOUS
<1> QED BY <1>1, <1>2 DEF LoadInv

\* Nobody unloads the library while there is a reference.
LEMMA NobodyUnloads ==
  ASSUME Typed, Referenced, handler.refcount > 0
  PROVE  handler.loaded /\ \A u \in Threads : th[u].pc \notin {"unload", "dropunload"}
BY DEF Referenced, LoadInv, Typed

\* A reference is taken; not from a handler that is on its way out (SPOILED).
LEMMA GetKeeps ==
  ASSUME Inv, NEW t \in Threads, dpu_rank_handler_get(t), ~spoiled'
  PROVE  Inv'
<1>0. /\ Books /\ Referenced /\ Typed /\ Owned /\ ThreadOk(th[t]) /\ th[t].pc \in {"probe_get", "get"} /\ RanksOk
      /\ handler \in [loaded : BOOLEAN, refcount : Nat] /\ leaked \in Nat
  BY DEF Inv, Books, Referenced, Typed, dpu_rank_handler_get, At
<1>1. /\ handler' = [handler EXCEPT !.refcount = @ + 1] /\ UNCHANGED <<ids, list, next, rank, fd, sets, lost>>
      /\ leaked' = (IF th[t].pc = "get" /\ th[t].call.kind = "describe" THEN leaked + 1 ELSE leaked)
      /\ Goto(t, IF th[t].pc = "get" THEN "fill" ELSE "query")
  BY DEF dpu_rank_handler_get, At
<1>3. handler.loaded /\ \A u \in Threads : th[u].pc \notin {"unload", "dropunload"}
  BY DEF dpu_rank_handler_get, LettingGo, At
<1>2. /\ handler' \in [loaded : BOOLEAN, refcount : Nat] /\ handler'.refcount = handler.refcount + 1
      /\ handler.loaded /\ handler'.loaded /\ leaked' \in Nat
  BY <1>0, <1>1, <1>3
<1>4. CASE th[t].pc = "probe_get"
  <2>1. Books' /\ Counted' = Counted /\ StepBy(t) /\ th'[t].pc = "query"
    BY <1>0, <1>1, <1>2, <1>4, StaysEarly DEF Points, Early
  <2>2. Probing' = Probing \cup {t} /\ t \notin Probing
    BY <1>4, <2>1 DEF Probing, StepBy, Alike
  <2>3. Cardinality(Probing') = Cardinality(Probing) + 1
    BY <2>2, ReadyFinite, FS_AddElement
  <2>4. RefInv'
    BY <1>0, <1>1, <1>2, <1>4, <2>1, <2>3, ReadyFinite DEF Referenced, RefInv
  <2>5. LoadInv'
    BY <1>0, <1>1, <1>2, <1>3, <1>4, <2>1, LoadKept DEF Referenced
  <2> QED BY <2>1, <2>4, <2>5 DEF Inv, Books
<1>5. CASE th[t].pc = "get"
  <2>1. GoesOn(t, "fill")
    BY <1>1, <1>5 DEF GoesOn, Early, Late
  <2>2. /\ StepBy(t) /\ ThreadOk(th'[t]) /\ Own(th'[t]) = Own(th[t]) /\ Owned'
        /\ th'[t].pc = "fill" /\ th'[t].new = th[t].new /\ th'[t].call = th[t].call /\ th'[t].drop = th[t].drop
        /\ DOMAIN th' = Threads /\ \A u \in Threads : ThreadOk(th'[u])
    BY <1>0, <1>1, <2>1, GoesOnFacts
  <2>3. Probing' = Probing
    BY <1>5, <2>2 DEF Probing, StepBy, Alike
  <2>4. LoadInv'
    BY <1>0, <1>1, <1>2, <1>3, <1>5, <2>2, LoadKept DEF Referenced
  <2>5. RanksSame
    BY <1>0, <1>1, RanksSameFacts
  <2>6. CASE th[t].call.kind = "describe"
    <3>1. th[t].new = NoRank
      BY <1>0, <2>6 DEF ThreadOk
    <3>2. Plainly(t)
      BY <1>1, <1>5, <2>2, <3>1 DEF Plainly, StageSame
    <3>3. Books' /\ Counted' = Counted
      BY <1>0, <1>2, <2>5, <3>2, BooksKept
    <3>4. RefInv'
      BY <1>0, <1>1, <1>2, <1>5, <2>3, <2>6, <3>3, ReadyFinite DEF Referenced, RefInv
    <3> QED BY <2>4, <3>3, <3>4 DEF Inv, Books
  <2>7. CASE th[t].call.kind # "describe"
    <3>1. th[t].new # NoRank
      BY <1>0, <1>5, <2>7 DEF ThreadOk, Early, Late
    <3>2. Counted' = Counted \cup {th[t].new} /\ th[t].new \notin Counted
      BY <1>0, <1>1, <1>5, <2>2, <3>1, ReadyMoves DEF Counted, Late
    <3>3. Named' = Named /\ Opened' = Opened /\ Shown' = Shown
      <4>1. Ready({"open", "list", "configure"})' = Ready({"open", "list", "configure"})
        BY <1>0, <1>1, <1>5, <2>2, <3>1, ReadyMoves
      <4>2. Ready({"list", "configure"})' = Ready({"list", "configure"})
        BY <1>0, <1>1, <1>5, <2>2, <3>1, ReadyMoves
      <4>3. Ready({"configure"})' = Ready({"configure"})
        BY <1>0, <1>1, <1>5, <2>2, <3>1, ReadyMoves
      <4> QED BY <1>5, <2>2, <4>1, <4>2, <4>3, AllPastKept DEF Named, Opened, Shown
    <3>4. Typed'
      BY <1>0, <1>1, <1>2, <2>2, <2>5 DEF Typed, RanksSame, SetsOk
    <3>5. IdsInv' /\ FdInv' /\ ListInv'
      BY <1>0, <1>1, <3>3 DEF Books, IdsInv, FdInv, ListInv
    <3>6. Cardinality(Counted') = Cardinality(Counted) + 1
      BY <3>2, ReadyFinite, FS_AddElement
    <3>7. RefInv'
      BY <1>0, <1>1, <1>2, <2>3, <2>7, <3>6, ReadyFinite DEF Referenced, RefInv
    <3> QED BY <2>2, <2>4, <3>4, <3>5, <3>7 DEF Inv
  <2> QED BY <2>6, <2>7
<1> QED BY <1>0, <1>4, <1>5

-----------------------------------------------------------------------------
(* A rank is made: its number, its device, its place in the list.          *)

LEMMA LateFacts ==
  ASSUME Inv, NEW t \in Threads, th[t].pc \in {"fill", "open", "list"}, th[t].call.kind # "describe"
  PROVE  /\ Books /\ Referenced /\ Typed /\ Owned /\ ThreadOk(th[t]) /\ RanksOk /\ leaked \in Nat
         /\ th[t].new # NoRank /\ th[t].new \in Objects /\ handler \in [loaded : BOOLEAN, refcount : Nat]
         /\ handler.loaded /\ \A u \in Threads : th[u].pc \notin {"unload", "dropunload"}
<1>1. Books /\ Referenced /\ Typed /\ Owned /\ ThreadOk(th[t]) /\ RanksOk /\ leaked \in Nat
      /\ handler \in [loaded : BOOLEAN, refcount : Nat]
  BY DEF Inv, Books, Referenced, Typed
<1>2. th[t].new # NoRank
  BY <1>1 DEF ThreadOk, Early, Late
<1>3. th[t].new \in Objects /\ rank[th[t].new].live /\ \A u \in Threads \ {t} : th[u].new # th[t].new
  BY <1>1, <1>2, NewIsOwn
<1>4. th[t].new \in Counted
  BY <1>3 DEF Counted, Ready, Late
<1>5. Cardinality(Counted) # 0
  BY <1>4, ReadyFinite, FS_EmptySet
<1>6. handler.refcount > 0
  BY <1>1, <1>5, ReadyFinite DEF Referenced, RefInv
<1> QED BY <1>1, <1>2, <1>3, <1>6, NobodyUnloads DEF Referenced, LoadInv

\* The references stay when the thread goes on with a rank it has.
LEMMA ReferencedGoesOn ==
  ASSUME Inv, NEW t \in Threads, th[t].pc \in {"fill", "open", "list"}, NEW pc \in {"open", "list", "configure"},
         GoesOn(t, pc), UNCHANGED <<handler, leaked, sets, lost>>, \A o \in Objects : rank'[o].live = rank[o].live,
         th[t].call.kind # "describe"
  PROVE  Referenced'
<1>1. /\ Books /\ Referenced /\ Typed /\ Owned /\ leaked \in Nat /\ th[t].new # NoRank
      /\ handler.loaded /\ \A u \in Threads : th[u].pc \notin {"unload", "dropunload"}
  BY LateFacts
<1>2. /\ StepBy(t) /\ ThreadOk(th'[t]) /\ th'[t].pc = pc /\ th'[t].new = th[t].new /\ th'[t].call = th[t].call
  BY <1>1, GoesOnFacts
<1>3. Counted' = Counted
  BY <1>1, <1>2, ReadyMoves DEF Counted, Late
<1> QED BY <1>1, <1>2, <1>3, ReferencedKept

Numbers(t) ==
  /\ th[t].pc = "fill" /\ th[t].call.kind # "describe" /\ dpu_get_next_rank_id < MAX_NUMBER_OF_RANKS
  /\ ids' = ids \cup {dpu_get_next_rank_id} /\ rank' = [rank EXCEPT ![th[t].new].id = dpu_get_next_rank_id]
  /\ Goto(t, "open") /\ UNCHANGED <<handler, list, next, fd, sets, leaked, lost>>

LEMMA FillKeeps ==
  ASSUME Inv, NEW t \in Threads, Numbers(t)
  PROVE  Inv'
<1> DEFINE id == dpu_get_next_rank_id
           n == th[t].new
<1>0. /\ Books /\ Typed /\ Owned /\ n # NoRank /\ n \in Objects /\ RanksOk
      /\ th[t].pc = "fill" /\ th[t].call.kind # "describe" /\ id < MAX_NUMBER_OF_RANKS
      /\ ids' = ids \cup {id} /\ Goto(t, "open") /\ UNCHANGED <<handler, list, next, fd, sets, leaked, lost>>
  BY LateFacts DEF Numbers
<1>1. id \in 0 .. (MAX_NUMBER_OF_RANKS - 1) /\ id \notin ids
  <2>1. MAX_NUMBER_OF_RANKS \in Nat
    BY SetAllocAssumption
  <2>2. MAX_NUMBER_OF_RANKS \in (0 .. MAX_NUMBER_OF_RANKS) \ ids
    BY <2>1, <1>0 DEF Typed
  <2>3. (0 .. MAX_NUMBER_OF_RANKS) \ ids \in SUBSET Nat
    BY <2>1
  <2>4. id \in (0 .. MAX_NUMBER_OF_RANKS) \ ids
    BY <2>2, <2>3, MinIsIn DEF dpu_get_next_rank_id
  <2> QED BY <1>0, <2>1, <2>4
<1>2. GoesOn(t, "open")
  BY <1>0 DEF GoesOn, Early, Late
<1> HIDE DEF id
<1>3. /\ rank'[n].id = id /\ \A o \in Objects \ {n} : rank'[o] = rank[o]
      /\ \A o \in Objects : rank'[o].live = rank[o].live /\ rank'[o].hw = rank[o].hw
      /\ RanksOk'
  BY <1>0 DEF RanksOk, RankFields, Numbers, id
<1>4. /\ StepBy(t) /\ ThreadOk(th'[t]) /\ Owned' /\ th'[t].pc = "open" /\ th'[t].new = n
      /\ DOMAIN th' = Threads /\ \A u \in Threads : ThreadOk(th'[u])
  BY <1>0, <1>2, <1>3, GoesOnFacts
<1>5. Typed'
  BY <1>0, <1>1, <1>3, <1>4 DEF Typed, SetsOk, id
<1>6. Named' = Named \cup {n} /\ n \notin Named /\ Opened' = Opened /\ Shown' = Shown
  <2>1. \A o \in Objects : rank'[o].live <=> rank[o].live
    BY <1>3
  <2>2. LET P == {"open", "list", "configure"} IN Ready(P)' = Ready(P) \cup {n} /\ n \notin Ready(P)
    BY <1>0, <1>4, <2>1, ReadyMoves
  <2>3. Ready({"list", "configure"})' = Ready({"list", "configure"})
    BY <1>0, <1>4, <2>1, ReadyMoves
  <2>4. Ready({"configure"})' = Ready({"configure"})
    BY <1>0, <1>4, <2>1, ReadyMoves
  <2> QED BY <1>0, <1>4, <2>2, <2>3, <2>4, AllPastKept, NewNotPast DEF Named, Opened, Shown
<1>8. \A o \in Named : rank'[o].id = rank[o].id /\ rank[o].id \in ids
  BY <1>0, <1>3, <1>6 DEF Books, IdsInv, Named, Ready
<1>9. ids' = {rank'[o].id : o \in Named'}
  BY <1>0, <1>3, <1>6, <1>8 DEF Books, IdsInv, id
<1>10. IdsInv'
  BY <1>0, <1>1, <1>3, <1>6, <1>8, <1>9 DEF Books, IdsInv
<1>11. \A o \in Opened : rank'[o].hw = rank[o].hw
  BY <1>3 DEF Opened, Ready
<1>12. FdInv' /\ ListInv'
  BY <1>0, <1>6, <1>11 DEF Books, FdInv, ListInv
<1>13. Referenced'
  BY <1>0, <1>2, <1>3, ReferencedGoesOn
<1> QED BY <1>4, <1>5, <1>10, <1>12, <1>13 DEF Inv, Referenced

Opens(t, on) ==
  /\ th[t].pc = "open" /\ th[t].call.kind # "describe" /\ Closed # {}
  /\ fd' = [fd EXCEPT ![Min(Closed)] = th[t].new]
  /\ rank' = [rank EXCEPT ![th[t].new].hw = Min(Closed), ![th[t].new].on = on]
  /\ Goto(t, "list") /\ UNCHANGED <<handler, ids, list, next, sets, leaked, lost>>

LEMMA OpenKeeps ==
  ASSUME Inv, NEW t \in Threads, NEW on, Opens(t, on)
  PROVE  Inv'
<1> DEFINE h == Min(Closed)
           n == th[t].new
<1>0. /\ Books /\ Typed /\ Owned /\ n # NoRank /\ n \in Objects /\ RanksOk
      /\ th[t].pc = "open" /\ th[t].call.kind # "describe" /\ Closed # {}
      /\ fd' = [fd EXCEPT ![h] = n] /\ Goto(t, "list") /\ UNCHANGED <<handler, ids, list, next, sets, leaked, lost>>
  BY LateFacts DEF Opens
<1>1. h \in HwRanks /\ fd[h] = NoRank
  <2>1. Closed \in SUBSET Nat /\ Closed \subseteq HwRanks
    BY DEF Closed, HwRanks
  <2>2. h \in Closed
    BY <1>0, <2>1, MinIsIn
  <2> QED BY <2>1, <2>2 DEF Closed
<1>2. GoesOn(t, "list")
  BY <1>0 DEF GoesOn, Early, Late
<1> HIDE DEF h
<1>3. /\ rank'[n].hw = h /\ \A o \in Objects \ {n} : rank'[o] = rank[o]
      /\ \A o \in Objects : rank'[o].live = rank[o].live /\ rank'[o].id = rank[o].id
      /\ RanksOk'
  BY <1>0 DEF RanksOk, RankFields, Opens, h
<1>4. /\ StepBy(t) /\ ThreadOk(th'[t]) /\ Owned' /\ th'[t].pc = "list" /\ th'[t].new = n
      /\ DOMAIN th' = Threads /\ \A u \in Threads : ThreadOk(th'[u])
  BY <1>0, <1>2, <1>3, GoesOnFacts
<1>5. Opened' = Opened \cup {n} /\ n \notin Opened /\ Named' = Named /\ Shown' = Shown
  <2>1. \A o \in Objects : rank'[o].live <=> rank[o].live
    BY <1>3
  <2>2. LET P == {"list", "configure"} IN Ready(P)' = Ready(P) \cup {n} /\ n \notin Ready(P)
    BY <1>0, <1>4, <2>1, ReadyMoves
  <2>3. Ready({"open", "list", "configure"})' = Ready({"open", "list", "configure"})
    BY <1>0, <1>4, <2>1, ReadyMoves
  <2>4. Ready({"configure"})' = Ready({"configure"})
    BY <1>0, <1>4, <2>1, ReadyMoves
  <2> QED BY <1>0, <1>4, <2>2, <2>3, <2>4, AllPastKept, NewNotPast DEF Named, Opened, Shown
<1>6. fd' = [fd EXCEPT ![h] = n] /\ fd \in [HwRanks -> Objects \cup {NoRank}]
  BY <1>0 DEF h, Typed
<1>7. Typed'
  BY <1>0, <1>1, <1>3, <1>4, <1>6 DEF Typed, SetsOk
<1>9. \A o \in Named : rank'[o].id = rank[o].id
  BY <1>3 DEF Named, Ready
<1>10. \A o \in Opened : rank'[o].hw = rank[o].hw /\ fd[rank[o].hw] = o /\ rank[o].hw \in HwRanks /\ o \in Objects
  BY <1>0, <1>3, <1>5 DEF Books, FdInv, Opened, Ready
<1>11. IdsInv' /\ ListInv'
  <2>1. IdsInv'
    BY <1>0, <1>5, <1>9 DEF Books, IdsInv
  <2>2. ListInv'
    BY <1>0, <1>5 DEF Books, ListInv
  <2> QED BY <2>1, <2>2
<1>12. ASSUME NEW g \in HwRanks, fd'[g] # NoRank PROVE fd'[g] \in Opened' /\ rank'[fd'[g]].hw = g
  <2>1. CASE g = h
    <3>1. fd'[g] = n
      BY <1>1, <1>6, <2>1
    <3> QED BY <1>3, <1>5, <2>1, <3>1
  <2>2. CASE g # h
    <3>1. fd'[g] = fd[g] /\ fd[g] # NoRank
      BY <1>6, <1>12, <2>2
    <3>2. fd[g] \in Opened /\ rank[fd[g]].hw = g
      BY <1>0, <3>1 DEF Books, FdInv
    <3> QED BY <3>1, <3>2, <1>5, <1>10
  <2> QED BY <2>1, <2>2
<1>13. ASSUME NEW o \in Opened' PROVE rank'[o].hw \in HwRanks /\ fd'[rank'[o].hw] = o
  <2>1. CASE o = n
    BY <1>1, <1>3, <1>6, <2>1
  <2>2. CASE o \in Opened
    <3>1. rank'[o].hw = rank[o].hw /\ rank[o].hw # h
      BY <1>0, <1>1, <1>10, <2>2, NoRankIsNone
    <3> QED BY <3>1, <1>6, <1>10, <2>2
  <2> QED BY <1>5, <2>1, <2>2
<1>14. FdInv'
  BY <1>12, <1>13 DEF FdInv
<1>15. Referenced'
  BY <1>0, <1>2, <1>3, ReferencedGoesOn
<1> QED BY <1>4, <1>7, <1>11, <1>14, <1>15 DEF Inv, Referenced

\* dpu_rank_list_update_next: a free slot is found, or the list grows.
LEMMA NextFree ==
  ASSUME NEW A, NoRank \in A, NEW l \in Seq(A)
  PROVE  LET nx == FirstEmpty(l)
             nl == IF NoRank \in Range(l) THEN l ELSE Grown(l)
         IN  /\ nl \in Seq(A) /\ nx \in 1 .. Len(nl) /\ nl[nx] = NoRank /\ Len(l) <= Len(nl)
             /\ \A i \in 1 .. Len(l) : nl[i] = l[i]
             /\ \A i \in 1 .. Len(nl) : i \notin 1 .. Len(l) => nl[i] = NoRank
<1> DEFINE n == Len(l)
<1>0. n \in Nat /\ DOMAIN l = 1 .. n
  OBVIOUS
<1>1. CASE NoRank \in Range(l)
  <2> DEFINE empty == {i \in DOMAIN l : l[i] = NoRank}
  <2>1. empty \in SUBSET Nat /\ empty # {}
    BY <1>0, <1>1 DEF Range
  <2>2. Min(empty) \in empty
    BY <2>1, MinIsIn
  <2>3. FirstEmpty(l) = Min(empty)
    BY <1>1 DEF FirstEmpty
  <2> QED BY <1>0, <1>1, <2>2, <2>3
<1>2. CASE NoRank \notin Range(l)
  <2> DEFINE more == [i \in 1 .. n + 1 |-> NoRank]
             nl == l \o more
  <2>1. more \in Seq(A) /\ Len(more) = n + 1 /\ \A i \in 1 .. n + 1 : more[i] = NoRank
    BY <1>0
  <2> HIDE DEF more
  <2>2. /\ nl \in Seq(A) /\ Len(nl) = n + (n + 1)
        /\ \A i \in 1 .. Len(nl) : nl[i] = IF i <= n THEN l[i] ELSE more[i - n]
    BY <1>0, <2>1
  <2>3. Grown(l) = nl /\ FirstEmpty(l) = n + 1
    BY <1>2 DEF Grown, FirstEmpty, more
  <2> HIDE DEF nl
  <2>4. n + 1 \in 1 .. Len(nl) /\ \A i \in 1 .. n : i \in 1 .. Len(nl) /\ i <= n
    BY <1>0, <2>2
  <2>5. \A i \in 1 .. Len(nl) : i \notin 1 .. n => ~(i <= n) /\ i - n \in 1 .. n + 1
    BY <1>0, <2>2
  <2>6. n + 1 \notin 1 .. n
    BY <1>0
  <2>7. \A i \in 1 .. n : nl[i] = l[i]
    BY <2>2, <2>4
  <2>8. \A i \in 1 .. Len(nl) : i \notin 1 .. n => nl[i] = NoRank
    BY <2>1, <2>2, <2>5
  <2> QED BY <1>0, <1>2, <2>2, <2>3, <2>4, <2>6, <2>7, <2>8
<1> QED BY <1>1, <1>2

LEMMA ListAddKeeps ==
  ASSUME Inv, NEW t \in Threads, dpu_rank_list_add(t)
  PROVE  Inv'
<1> DEFINE n == th[t].new
           full == [list EXCEPT ![next] = n]
<1>0. ThreadOk(th[t]) /\ th[t].pc = "list" /\ Goto(t, "configure") /\ UNCHANGED <<handler, ids, rank, fd, sets, leaked, lost>>
  BY DEF Inv, Typed, dpu_rank_list_add, At
<1>1. th[t].call.kind # "describe"
  BY <1>0 DEF ThreadOk
<1>2. /\ Books /\ Typed /\ Owned /\ n # NoRank /\ n \in Objects /\ RanksOk
      /\ list \in Seq(Objects \cup {NoRank}) /\ next \in 1 .. Len(list)
  BY <1>0, <1>1, LateFacts DEF Typed
<1>3. next' = FirstEmpty(full) /\ list' = IF NoRank \in Range(full) THEN full ELSE Grown(full)
  BY DEF dpu_rank_list_add
<1>4. /\ full \in Seq(Objects \cup {NoRank}) /\ Len(full) = Len(list)
      /\ full[next] = n /\ \A i \in 1 .. Len(list) : i # next => full[i] = list[i]
  BY <1>2
<1> HIDE DEF full
<1>5. /\ list' \in Seq(Objects \cup {NoRank}) /\ next' \in 1 .. Len(list') /\ list'[next'] = NoRank
      /\ \A i \in 1 .. Len(list) : i \in 1 .. Len(list') /\ list'[i] = full[i]
      /\ \A i \in 1 .. Len(list') : i \notin 1 .. Len(list) => list'[i] = NoRank
  <2>1. /\ list' \in Seq(Objects \cup {NoRank}) /\ next' \in 1 .. Len(list') /\ list'[next'] = NoRank
        /\ Len(list) <= Len(list')
        /\ \A i \in 1 .. Len(list) : list'[i] = full[i]
        /\ \A i \in 1 .. Len(list') : i \notin 1 .. Len(list) => list'[i] = NoRank
    BY <1>3, <1>4, NextFree
  <2>2. \A i \in 1 .. Len(list) : i \in 1 .. Len(list')
    BY <1>2, <2>1
  <2> QED BY <2>1, <2>2
<1>6. GoesOn(t, "configure")
  BY <1>0, <1>1 DEF GoesOn, Early, Late
<1>7. /\ StepBy(t) /\ ThreadOk(th'[t]) /\ Owned' /\ th'[t].pc = "configure" /\ th'[t].new = n
      /\ DOMAIN th' = Threads /\ \A u \in Threads : ThreadOk(th'[u])
  BY <1>0, <1>2, <1>6, GoesOnFacts
<1>8. Typed'
  BY <1>0, <1>2, <1>5, <1>7 DEF Typed, SetsOk, RanksOk
<1>9. Opened' = Opened /\ Named' = Named /\ Shown' = Shown \cup {n} /\ n \notin Shown
  <2>1. Ready({"open", "list", "configure"})' = Ready({"open", "list", "configure"})
    BY <1>0, <1>2, <1>7, ReadyMoves
  <2>2. Ready({"list", "configure"})' = Ready({"list", "configure"})
    BY <1>0, <1>2, <1>7, ReadyMoves
  <2>3. LET P == {"configure"} IN Ready(P)' = Ready(P) \cup {n} /\ n \notin Ready(P)
    BY <1>0, <1>2, <1>7, ReadyMoves
  <2> QED BY <1>0, <1>2, <1>7, <2>1, <2>2, <2>3, AllPastKept, NewNotPast DEF Named, Opened, Shown
<1>11. IdsInv' /\ FdInv'
  BY <1>0, <1>2, <1>9 DEF Books, IdsInv, FdInv
<1>15. \A o \in Objects : o \in Shown <=> \E i \in 1 .. Len(list) : list[i] = o
  BY <1>2 DEF Books, ListInv
<1>16. list[next] = NoRank /\ \A i, j \in 1 .. Len(list) : list[i] = list[j] /\ list[i] # NoRank => i = j
  BY <1>2 DEF Books, ListInv
<1>17. \A i \in 1 .. Len(list) : list[i] # n
  BY <1>2, <1>9, <1>15
<1>18. \A i \in 1 .. Len(list') : list'[i] # NoRank =>
          i \in 1 .. Len(list) /\ ((i = next /\ list'[i] = n) \/ (i # next /\ list'[i] = list[i]))
  BY <1>4, <1>5
<1>19. \A o \in Objects : o \in Shown' <=> \E i \in 1 .. Len(list') : list'[i] = o
  <2>1. ASSUME NEW o \in Shown PROVE \E i \in 1 .. Len(list') : list'[i] = o
    <3>1. o \in Objects
      BY DEF Shown, Ready
    <3>2. PICK i \in 1 .. Len(list) : list[i] = o
      BY <1>15, <3>1
    <3>3. i # next
      BY <1>16, <3>1, <3>2, NoRankIsNone
    <3> QED BY <1>4, <1>5, <3>2, <3>3
  <2>2. \E i \in 1 .. Len(list') : list'[i] = n
    BY <1>2, <1>4, <1>5
  <2>3. ASSUME NEW o \in Objects, NEW i \in 1 .. Len(list'), list'[i] = o PROVE o \in Shown \cup {n}
    BY <1>15, <1>18, <2>3, NoRankIsNone
  <2> QED BY <1>9, <2>1, <2>2, <2>3
<1>20. ASSUME NEW i \in 1 .. Len(list'), NEW j \in 1 .. Len(list'), list'[i] = list'[j], list'[i] # NoRank PROVE i = j
  BY <1>16, <1>17, <1>18, <1>20
<1>21. ListInv'
  BY <1>5, <1>19, <1>20 DEF ListInv
<1>22. Referenced'
  BY <1>0, <1>1, <1>6, ReferencedGoesOn
<1> QED BY <1>7, <1>8, <1>11, <1>21, <1>22 DEF Inv, Referenced

\* release_handler and free_link of dpu_get_rank_of_type: the structure, the
\* number when there is one already, and next the reference are given back.
LEMMA GiveUpKeeps ==
  ASSUME Inv, NEW t \in Threads, th[t].pc \in {"fill", "open"}, th[t].call.kind # "describe", NEW status, GiveUp(t, status),
         UNCHANGED <<handler, list, next, fd, sets, leaked, lost>>,
         ids' = IF th[t].pc = "fill" THEN ids ELSE ids \ {rank[th[t].new].id}
  PROVE  Inv'
<1> DEFINE n == th[t].new
           s == IF failures' = failures THEN th ELSE Disturbed
<1>0. /\ Books /\ Referenced /\ Typed /\ Owned /\ ThreadOk(th[t]) /\ RanksOk /\ leaked \in Nat
      /\ n # NoRank /\ n \in Objects /\ handler \in [loaded : BOOLEAN, refcount : Nat]
      /\ handler.loaded /\ \A u \in Threads : th[u].pc \notin {"unload", "dropunload"}
  BY LateFacts
<1>1. /\ th' = [s EXCEPT ![t].pc = "put", ![t].then = "norank", ![t].new = NoRank, ![t].status = status,
                         ![t].alone = @ /\ failures' = failures]
      /\ rank' = [rank EXCEPT ![n] = Unused]
  BY DEF GiveUp
<1>2. DOMAIN s = Threads /\ \A u \in Threads : Alike(th[u], s[u])
  <2>1. CASE s = th
    BY <1>0, <2>1 DEF Typed, ThreadOk, Alike
  <2>2. CASE s = Disturbed
    BY <1>0, <2>2, DisturbedFacts
  <2> QED BY <2>1, <2>2
<1> HIDE DEF s
<1>3. /\ DOMAIN th'[t] = ThreadFields /\ th'[t].pc = "put" /\ th'[t].then = "norank" /\ th'[t].new = NoRank
      /\ th'[t].cur = th[t].cur /\ th'[t].drop = th[t].drop /\ th'[t].call = th[t].call
  <2>1. /\ DOMAIN s[t] = ThreadFields /\ s[t].cur = th[t].cur /\ s[t].drop = th[t].drop /\ s[t].call = th[t].call
    BY <1>2 DEF Alike
  <2> QED BY <1>1, <1>2, <2>1 DEF ThreadFields
<1>4. StepBy(t)
  <2>1. DOMAIN th' = Threads /\ \A u \in Threads \ {t} : th'[u] = s[u]
    BY <1>1, <1>2
  <2> QED BY <1>2, <1>3, <2>1 DEF StepBy
<1>5. ThreadOk(th'[t])
  BY <1>0, <1>3, NoRankIsNone, RangeInside DEF ThreadOk, Points, Early, Late, Freeing
<1>6. Own(th[t]) = Range(th[t].cur) \cup {n} /\ Own(th'[t]) = Range(th[t].cur) /\ n \notin Range(th[t].cur)
  <2>1. ~Settled(th[t]) /\ ~Settled(th'[t]) /\ Leaving(th[t]) = {} /\ Leaving(th'[t]) = {}
    BY <1>0, <1>3, <1>5, OwnAt DEF Settled, Freeing
  <2> QED BY <1>0, <1>3, <2>1 DEF Own, Mine, ThreadOk
<1>7. /\ rank'[n] = Unused /\ \A o \in Objects \ {n} : rank'[o] = rank[o]
      /\ RanksOk' /\ ~rank'[n].live /\ DOMAIN rank' = Objects
  BY <1>0, <1>1 DEF RanksOk, RankFields, Unused
<1>8. /\ \A u \in Threads : ThreadOk(th'[u])
      /\ \A u \in Threads \ {t} : Own(th'[u]) = Own(th[u])
  BY <1>0, <1>4, <1>5, ThreadsKept
<1>9. ids' \subseteq ids
  OBVIOUS
<1>10. Typed'
  BY <1>0, <1>4, <1>7, <1>8, <1>9 DEF Typed, SetsOk, StepBy
<1>11. Owned'
  <2>1. Held' = Held
    BY DEF Held
  <2>2. n \notin Held /\ \A u \in Threads \ {t} : n \notin Own(th[u])
    BY <1>0, <1>6 DEF Owned
  <2>3. \A o \in Objects : rank'[o].live <=> (o \in Held' \/ \E u \in Threads : o \in Own(th'[u]))
    <3>1. ASSUME NEW o \in Objects \ {n}
          PROVE  (\E u \in Threads : o \in Own(th'[u])) <=> (\E u \in Threads : o \in Own(th[u]))
      <4>1. \A u \in Threads : o \in Own(th'[u]) <=> o \in Own(th[u])
        BY <1>6, <1>8
      <4> QED BY <4>1
    <3>2. \A u \in Threads : n \notin Own(th'[u])
      BY <1>6, <1>8, <2>2
    <3>3. \A o \in Objects \ {n} : rank'[o].live <=> (o \in Held' \/ \E u \in Threads : o \in Own(th'[u]))
      BY <1>0, <1>7, <2>1, <3>1 DEF Owned
    <3> QED BY <1>7, <2>1, <2>2, <3>2, <3>3
  <2>4. \A u \in Threads : Own(th'[u]) \subseteq Own(th[u])
    BY <1>6, <1>8
  <2>5. /\ \A u, v \in Threads : u # v => Own(th[u]) \cap Own(th[v]) = {}
        /\ \A u \in Threads : Own(th[u]) \cap Held = {}
        /\ \A a, z \in sets : a # z => Range(a.ranks) \cap Range(z.ranks) = {}
        /\ \A a \in sets : Range(a.ranks) \cap lost = {}
    BY <1>0 DEF Owned
  <2>6. /\ \A u, v \in Threads : u # v => Own(th'[u]) \cap Own(th'[v]) = {}
        /\ \A u \in Threads : Own(th'[u]) \cap Held' = {}
    BY <2>1, <2>4, <2>5
  <2> QED BY <2>3, <2>5, <2>6 DEF Owned
<1>12. rank[n].live /\ \A u \in Threads \ {t} : th[u].new # n
  BY <1>0, NewIsOwn
<1>13. ASSUME NEW P PROVE Ready(P)' = Ready(P) \ {n} /\ (n \in Ready(P) <=> th[t].pc \in P)
  <2>1. ASSUME NEW o \in Objects \ {n} PROVE o \in Ready(P)' <=> o \in Ready(P)
    <3>1. th'[t].new # o /\ th[t].new # o
      BY <1>3, NoRankIsNone
    <3>2. o \in Ready(P) <=> rank[o].live /\ \A u \in Threads \ {t} : th[u].new = o => th[u].pc \in P
      BY <3>1 DEF Ready
    <3>3. o \in Ready(P)' <=> rank'[o].live /\ \A u \in Threads \ {t} : th[u].new = o => th[u].pc \in P
      BY <1>4, <3>1, ReadyOf
    <3> QED BY <1>7, <3>2, <3>3
  <2>2. n \notin Ready(P)'
    BY <1>4, <1>7, <1>0, ReadyOf
  <2>3. Ready(P) \subseteq Objects /\ Ready(P)' \subseteq Objects
    BY DEF Ready
  <2>4. Ready(P)' = Ready(P) \ {n}
    BY <2>1, <2>2, <2>3
  <2>5. n \in Ready(P) <=> th[t].pc \in P
    BY <1>0, <1>12 DEF Ready
  <2> QED BY <2>4, <2>5
<1>14. Counted' = Counted \ {n} /\ n \in Counted
  BY <1>13 DEF Counted, Late
<1>15. Opened' = Opened /\ n \notin Opened /\ Shown' = Shown /\ Named' = Named \ {n} /\ (n \in Named <=> th[t].pc = "open")
  <2>1. Ready({"list", "configure"})' = Ready({"list", "configure"}) /\ n \notin Ready({"list", "configure"})
    BY <1>13
  <2>2. Ready({"configure"})' = Ready({"configure"})
    BY <1>13
  <2>3. LET P == {"open", "list", "configure"} IN Ready(P)' = Ready(P) \ {n} /\ (n \in Ready(P) <=> th[t].pc = "open")
    BY <1>13
  <2>4. th[t].pc \notin {"close", "release", "giveback"}
    OBVIOUS
  <2> QED BY <1>0, <1>3, <1>4, <2>1, <2>2, <2>3, <2>4, AllPastKept, NewNotPast DEF Named, Opened, Shown
<1>18. \A o \in Objects \ {n} : rank'[o].id = rank[o].id /\ rank'[o].hw = rank[o].hw
  BY <1>7
<1>19. IdsInv'
  <2>1. ids = {rank[o].id : o \in Named} /\ \A o, p \in Named : rank[o].id = rank[p].id => o = p
    BY <1>0 DEF Books, IdsInv
  <2>2. Named \subseteq Objects /\ \A o \in Named' : o # n /\ o \in Named /\ rank'[o].id = rank[o].id
    BY <1>15, <1>18 DEF Named, Ready
  <2>3. \A o, p \in Named' : rank'[o].id = rank'[p].id => o = p
    BY <2>1, <2>2
  <2>4. \A x : x \in ids' <=> \E o \in Named' : x = rank'[o].id
    <3>1. CASE th[t].pc = "fill"
      BY <1>15, <2>1, <2>2, <3>1
    <3>2. CASE th[t].pc = "open"
      <4>1. n \in Named /\ ids' = ids \ {rank[n].id}
        BY <1>15, <3>2
      <4>2. ASSUME NEW x \in ids' PROVE \E o \in Named' : x = rank'[o].id
        <5>1. PICK o \in Named : x = rank[o].id
          BY <2>1, <4>1
        <5>2. o # n
          BY <4>1, <5>1
        <5> QED BY <1>15, <2>2, <5>1, <5>2
      <4>3. ASSUME NEW o \in Named' PROVE rank'[o].id \in ids'
        BY <2>1, <2>2, <4>1
      <4> QED BY <4>2, <4>3
    <3> QED BY <3>1, <3>2
  <2> QED BY <2>3, <2>4 DEF IdsInv
<1>20. FdInv'
  <2>1. \A o \in Opened : o # n /\ rank'[o].hw = rank[o].hw
    BY <1>15, <1>18 DEF Opened, Ready
  <2> QED BY <1>0, <1>15, <2>1 DEF Books, FdInv
<1>21. ListInv'
  BY <1>0, <1>15 DEF Books, ListInv
<1>22. Probing' = Probing \cup {t} /\ t \notin Probing
  BY <1>3, <1>4 DEF Probing, StepBy, Alike
<1>23. Cardinality(Counted') = Cardinality(Counted) - 1 /\ Cardinality(Probing') = Cardinality(Probing) + 1
  BY <1>14, <1>22, ReadyFinite, FS_AddElement, FS_RemoveElement
<1>24. RefInv'
  BY <1>0, <1>23, ReadyFinite DEF Referenced, RefInv
<1>25. LoadInv'
  BY <1>0, <1>3, <1>4, LoadKept DEF Referenced
<1> QED BY <1>10, <1>11, <1>19, <1>20, <1>21, <1>24, <1>25 DEF Inv

LEMMA FillDescriptionKeeps ==
  ASSUME Inv, NEW t \in Threads, FillDescription(t)
  PROVE  Inv'
<1>1. CASE Numbers(t)
  BY <1>1, FillKeeps
<1>2. CASE GiveUp(t, "DPU_ERR_ALLOCATION") /\ UNCHANGED ids
  BY <1>2, GiveUpKeeps DEF FillDescription, At
<1> QED BY <1>1, <1>2 DEF FillDescription, Numbers, At

LEMMA HwAllocateKeeps ==
  ASSUME Inv, NEW t \in Threads, hw_allocate(t)
  PROVE  Inv'
<1>1. th[t].pc = "open" /\ ThreadOk(th[t])
  BY DEF hw_allocate, At, Inv, Typed
<1>2. th[t].call.kind # "describe"
  BY <1>1 DEF ThreadOk
<1>3. CASE Opens(t, UsableOf(Min(Closed), Profile(t)))
  BY <1>3, OpenKeeps
<1>4. CASE GiveUp(t, "DPU_ERR_ALLOCATION") /\ dpu_release_rank_id(th[t].new) /\ UNCHANGED fd
  BY <1>1, <1>2, <1>4, GiveUpKeeps DEF hw_allocate, dpu_release_rank_id
<1> QED BY <1>1, <1>2, <1>3, <1>4 DEF hw_allocate, Opens

-----------------------------------------------------------------------------
(* A structure for a rank: the model has one that is free.                 *)

LEMMA InjectionBound ==
  ASSUME NEW S, NEW T, IsFiniteSet(T), NEW f \in [S -> T], \A a, b \in S : f[a] = f[b] => a = b
  PROVE  IsFiniteSet(S) /\ Cardinality(S) <= Cardinality(T)
<1>1. f \in Injection(S, T)
  BY DEF Injection, IsInjective
<1> QED BY <1>1, FS_Injection

LEMMA FreshExists ==
  ASSUME Inv, NEW t \in Threads, th[t].new = NoRank, th[t].pc \notin Freeing
  PROVE  Fresh \in Objects /\ ~rank[Fresh].live
<1>0. Typed /\ Owned /\ FdInv /\ ListInv /\ \A u \in Threads : ThreadOk(th[u])
  BY DEF Inv, Typed
<1> DEFINE making == Objects \ Opened
           With(u, o) == th[u].new = o \/ (th[u].pc \in {"release", "giveback"} /\ Head(th[u].drop) = o)
           of == [o \in making |-> CHOOSE u \in Threads : With(u, o)]
           free == {o \in Objects : ~rank[o].live /\ o \notin Range(list)}
<1>1. \A o \in Objects : o \in Range(list) => rank[o].live
  <2>1. list \in Seq(Objects \cup {NoRank})
    BY <1>0 DEF Typed
  <2>2. \A o \in Objects : o \in Range(list) => o \in Shown
    BY <1>0, <2>1 DEF ListInv, Range
  <2> QED BY <2>2 DEF Shown, Ready
<1>2. ASSUME \A o \in Objects : rank[o].live PROVE FALSE
  <2>1. \A o \in making : \E u \in Threads : With(u, o)
    <3> SUFFICES ASSUME NEW o \in making PROVE \E u \in Threads : With(u, o)
      OBVIOUS
    <3>1. CASE o \in Past({"release", "giveback"})
      BY <3>1 DEF Past
    <3>2. CASE o \notin Ready({"list", "configure"})
      BY <1>2, <3>2 DEF Ready
    <3> QED BY <3>1, <3>2 DEF Opened
  <2>2. \A o \in making : of[o] \in Threads /\ With(of[o], o)
    BY <2>1
  <2>3. \A o \in making : of[o] # t
    BY <2>2, NoRankIsNone DEF Freeing
  <2>4. of \in [making -> Threads \ {t}]
    BY <2>2, <2>3
  <2>5. \A a, b \in making : of[a] = of[b] => a = b
    <3>1. \A u \in Threads : th[u].pc \in {"release", "giveback"} => th[u].new = NoRank
      BY <1>0 DEF ThreadOk, Early, Late
    <3>2. \A u \in Threads : \A a, b \in Objects : With(u, a) /\ With(u, b) => a = b
      BY <3>1, NoRankIsNone
    <3> HIDE DEF With, of
    <3> QED BY <2>2, <3>2
  <2>6. IsFiniteSet(Threads) /\ Cardinality(Threads) \in Nat
    BY SetAllocAssumption, FS_CardinalityType
  <2>7. IsFiniteSet(Threads \ {t}) /\ Cardinality(Threads \ {t}) = Cardinality(Threads) - 1
    BY <2>6, FS_RemoveElement
  <2> HIDE DEF of, making
  <2>8. IsFiniteSet(making) /\ Cardinality(making) <= Cardinality(Threads) - 1
    BY <2>4, <2>5, <2>7, InjectionBound
  <2>9. IsFiniteSet(HwRanks) /\ Cardinality(HwRanks) = NrHwRanks /\ NrHwRanks \in Nat
    BY SetAllocAssumption, FS_Interval DEF HwRanks
  <2>10. IsFiniteSet(Opened) /\ Cardinality(Opened) <= NrHwRanks
    <3> DEFINE at == [o \in Opened |-> rank[o].hw]
    <3>1. at \in [Opened -> HwRanks] /\ \A a, b \in Opened : at[a] = at[b] => a = b
      BY <1>0 DEF FdInv
    <3> HIDE DEF at
    <3> QED BY <2>9, <3>1, InjectionBound
  <2>11. Objects = making \cup Opened
    BY DEF making, Opened, Ready
  <2>12. Cardinality(Objects) <= Cardinality(making) + Cardinality(Opened)
    <3>1. Cardinality(making \cap Opened) \in Nat
      BY <2>8, FS_Intersection, FS_CardinalityType
    <3>2. Cardinality(making) \in Nat /\ Cardinality(Opened) \in Nat
      BY <2>8, <2>10, FS_CardinalityType
    <3>3. Cardinality(making \cup Opened) = Cardinality(making) + Cardinality(Opened) - Cardinality(making \cap Opened)
      BY <2>8, <2>10, FS_Union
    <3> QED BY <2>11, <3>1, <3>2, <3>3
  <2>13. Cardinality(Objects) = NrHwRanks + Cardinality(Threads)
    <3>1. NrHwRanks + Cardinality(Threads) \in Nat
      BY <2>6, <2>9
    <3> QED BY <3>1, FS_Interval DEF Objects
  <2>14. Cardinality(making) \in Nat /\ Cardinality(Opened) \in Nat
    BY <2>8, <2>10, FS_CardinalityType
  <2> QED BY <2>6, <2>8, <2>9, <2>10, <2>12, <2>13, <2>14
<1>3. free # {} /\ free \in SUBSET Nat
  BY <1>1, <1>2, NoRankIsNone
<1>4. PICK o \in free : \A q \in free : o <= q
  BY <1>3, LeastElement
<1>5. \A q \in Objects : q < o => q \notin free
  BY <1>4, NoRankIsNone
<1>6. /\ ~rank[o].live /\ o \notin Range(list)
      /\ \A q \in Objects : q < o => rank[q].live \/ q \in Range(list)
  BY <1>4, <1>5
<1>7. Fresh \in Objects /\ ~rank[Fresh].live
  BY <1>4, <1>6, Zenon DEF Fresh
<1> QED BY <1>7

LEMMA NewRankKeeps ==
  ASSUME Inv, NEW t \in Threads, NewRank(t)
  PROVE  Inv'
<1> DEFINE describe == th[t].call.kind = "describe"
           pc == IF Profile(t).backend = "default" THEN "probe_get" ELSE "get"
           n == IF describe THEN NoRank ELSE Fresh
<1>0. /\ Books /\ Referenced /\ Typed /\ Owned /\ ThreadOk(th[t]) /\ th[t].pc = "rank" /\ DOMAIN th = Threads /\ RanksOk
      /\ handler \in [loaded : BOOLEAN, refcount : Nat] /\ leaked \in Nat /\ DOMAIN th[t] = ThreadFields
  BY DEF Inv, Books, Referenced, Typed, NewRank, At, ThreadOk
<1>1. /\ th' = [th EXCEPT ![t].new = n, ![t].pc = pc] /\ handler' = Instantiated
      /\ UNCHANGED <<ids, list, next, fd, sets, leaked, lost>>
      /\ rank' = IF describe THEN rank ELSE [rank EXCEPT ![n] = [Unused EXCEPT !.live = TRUE]]
  BY DEF NewRank
<1>2. pc \in {"probe_get", "get"}
  OBVIOUS
<1>3. th[t].new = NoRank /\ Own(th[t]) = Range(th[t].cur) /\ th[t].drop = <<>> /\ th[t].pc \notin Freeing
      /\ (describe => th[t].cur = <<>>)
  BY <1>0, OwnAt DEF ThreadOk, Points, Early, Late, Freeing
<1>4. /\ handler' \in [loaded : BOOLEAN, refcount : Nat] /\ handler'.refcount = handler.refcount /\ handler'.loaded
  BY <1>0, <1>1 DEF Instantiated, Referenced, LoadInv
<1> HIDE DEF pc
<1>5. ~describe => n \in Objects /\ ~rank[n].live /\ n # NoRank
  BY <1>3, FreshExists, NoRankIsNone
<1>6. n \notin Range(th[t].cur) /\ Range(th[t].cur) \subseteq Objects
  <2>1. Range(th[t].cur) \subseteq Objects
    BY <1>0, RangeInside DEF ThreadOk
  <2>2. \A o \in Range(th[t].cur) : rank[o].live
    BY <1>0, <1>3, <2>1 DEF Owned
  <2> QED BY <1>5, <2>1, <2>2, NoRankIsNone
<1> HIDE DEF n
<1>7. /\ DOMAIN th'[t] = ThreadFields /\ th'[t].pc = pc /\ th'[t].new = n /\ th'[t].cur = th[t].cur
      /\ th'[t].drop = <<>> /\ th'[t].then = th[t].then /\ th'[t].call = th[t].call
  BY <1>0, <1>1, <1>3 DEF ThreadFields
<1>8. StepBy(t)
  <2>1. DOMAIN th' = Threads /\ \A u \in Threads \ {t} : th'[u] = th[u] /\ DOMAIN th[u] = ThreadFields
    BY <1>0, <1>1 DEF Typed, ThreadOk
  <2> QED BY <1>7, <2>1 DEF StepBy, Alike
<1>9. ThreadOk(th'[t])
  <2>1. th'[t].new \in Objects \cup {NoRank} /\ (th'[t].new # NoRank <=> ~describe)
    BY <1>5, <1>7 DEF n
  <2>2. th[t].cur \in Seq(Objects) /\ IsInjective(th[t].cur)
    BY <1>0 DEF ThreadOk
  <2> QED BY <1>2, <1>3, <1>6, <1>7, <2>1, <2>2, EmptyFacts DEF ThreadOk, Points, Early, Late, Freeing
<1>10. Own(th'[t]) = Range(th[t].cur) \cup ({n} \ {NoRank})
  <2>1. ~Settled(th'[t]) /\ Leaving(th'[t]) = {}
    BY <1>2, <1>7, <1>9, OwnAt DEF Settled, Freeing
  <2> QED BY <1>7, <2>1 DEF Own, Mine
<1>11. CASE describe
  <2>1. RanksSame
    BY <1>0, <1>1, <1>11, RanksSameFacts
  <2>2. Plainly(t)
    BY <1>0, <1>1, <1>2, <1>3, <1>7, <1>8, <1>9, <1>10, <1>11 DEF Plainly, StageSame, n
  <2>3. Books' /\ Counted' = Counted
    BY <1>0, <1>1, <1>4, <2>1, <2>2, BooksKept
  <2>4. Referenced'
    BY <1>0, <1>1, <1>2, <1>4, <1>7, <1>8, <2>3, ReferencedKept
  <2> QED BY <2>3, <2>4 DEF Inv, Books, Referenced
<1>12. CASE ~describe
  <2>1. /\ n \in Objects /\ ~rank[n].live /\ n # NoRank /\ rank' = [rank EXCEPT ![n] = [Unused EXCEPT !.live = TRUE]]
    BY <1>1, <1>5, <1>12
  <2>2. /\ rank'[n].live /\ \A o \in Objects \ {n} : rank'[o] = rank[o]
        /\ RanksOk'
    BY <1>0, <2>1 DEF RanksOk, RankFields, Unused
  <2>3. \A u \in Threads : ThreadOk(th'[u])
    BY <1>0, <1>8, <1>9, ThreadsKept
  <2>4. Typed'
    BY <1>0, <1>1, <1>4, <1>8, <2>2, <2>3 DEF Typed, SetsOk, StepBy
  <2>5. \A u \in Threads \ {t} : Own(th'[u]) = Own(th[u])
    BY <1>0, <1>8, <1>9, ThreadsKept
  <2>6. Own(th'[t]) = Own(th[t]) \cup {n} /\ Held' = Held
    BY <1>1, <1>3, <1>10, <2>1 DEF Held
  <2>7. n \notin Held /\ \A u \in Threads : n \notin Own(th[u])
    BY <1>0, <2>1 DEF Owned
  <2>8. \A o \in Objects : rank'[o].live <=> (o \in Held' \/ \E u \in Threads : o \in Own(th'[u]))
    <3>1. ASSUME NEW o \in Objects \ {n}
          PROVE  (\E u \in Threads : o \in Own(th'[u])) <=> (\E u \in Threads : o \in Own(th[u]))
      <4>1. \A u \in Threads : o \in Own(th'[u]) <=> o \in Own(th[u])
        BY <2>5, <2>6
      <4> QED BY <4>1
    <3>2. \A o \in Objects \ {n} : rank'[o].live <=> (o \in Held' \/ \E u \in Threads : o \in Own(th'[u]))
      BY <1>0, <2>2, <2>6, <3>1 DEF Owned
    <3> QED BY <2>2, <2>6, <3>2
  <2>9. /\ \A u, v \in Threads : u # v => Own(th[u]) \cap Own(th[v]) = {}
        /\ \A u \in Threads : Own(th[u]) \cap Held = {}
        /\ \A a, z \in sets : a # z => Range(a.ranks) \cap Range(z.ranks) = {}
        /\ \A a \in sets : Range(a.ranks) \cap lost = {}
    BY <1>0 DEF Owned
  <2>10. Owned'
    <3>1. \A u, v \in Threads : u # v => Own(th'[u]) \cap Own(th'[v]) = {}
      BY <2>5, <2>6, <2>7, <2>9
    <3>2. \A u \in Threads : Own(th'[u]) \cap Held' = {}
      BY <2>5, <2>6, <2>7, <2>9
    <3> QED BY <1>1, <2>8, <2>9, <3>1, <3>2 DEF Owned
  <2>11. ASSUME NEW P, pc \notin P PROVE Ready(P)' = Ready(P)
    <3>1. ASSUME NEW o \in Objects \ {n} PROVE o \in Ready(P)' <=> o \in Ready(P)
      <4>1. th'[t].new # o /\ th[t].new # o
        BY <1>3, <1>7, NoRankIsNone
      <4>2. o \in Ready(P) <=> rank[o].live /\ \A u \in Threads \ {t} : th[u].new = o => th[u].pc \in P
        BY <4>1 DEF Ready
      <4>3. o \in Ready(P)' <=> rank'[o].live /\ \A u \in Threads \ {t} : th[u].new = o => th[u].pc \in P
        BY <1>8, <4>1, ReadyOf
      <4> QED BY <2>2, <4>2, <4>3
    <3>2. n \notin Ready(P)' /\ n \notin Ready(P)
      <4>1. n \notin Ready(P)
        BY <2>1 DEF Ready
      <4>2. n \notin Ready(P)'
        BY <1>7, <1>8, <2>1, <2>11, ReadyOf
      <4> QED BY <4>1, <4>2
    <3>3. Ready(P) \subseteq Objects /\ Ready(P)' \subseteq Objects
      BY DEF Ready
    <3> QED BY <3>1, <3>2, <3>3
  <2>12. Counted' = Counted
    BY <1>2, <2>11 DEF Counted, Late
  <2>13. Named' = Named /\ Opened' = Opened /\ Shown' = Shown
    <3>1. Ready({"open", "list", "configure"})' = Ready({"open", "list", "configure"})
      BY <1>2, <2>11
    <3>2. Ready({"list", "configure"})' = Ready({"list", "configure"})
      BY <1>2, <2>11
    <3>3. Ready({"configure"})' = Ready({"configure"})
      BY <1>2, <2>11
    <3> QED BY <1>0, <1>2, <1>7, <1>8, <3>1, <3>2, <3>3, AllPastKept DEF Named, Opened, Shown
  <2>14. \A o \in Objects : rank[o].live => rank'[o].id = rank[o].id /\ rank'[o].hw = rank[o].hw
    BY <2>1, <2>2
  <2>15. IdsInv'
    <3>1. \A o \in Named : rank'[o].id = rank[o].id
      BY <2>14 DEF Named, Ready
    <3> QED BY <1>0, <1>1, <2>13, <3>1 DEF Books, IdsInv
  <2>16. FdInv'
    <3>1. \A o \in Opened : rank'[o].hw = rank[o].hw
      BY <2>14 DEF Opened, Ready
    <3> QED BY <1>0, <1>1, <2>13, <3>1 DEF Books, FdInv
  <2>17. ListInv'
    BY <1>0, <1>1, <2>13 DEF Books, ListInv
  <2>18. Referenced'
    BY <1>0, <1>1, <1>2, <1>4, <1>7, <1>8, <2>12, ReferencedKept
  <2> QED BY <2>4, <2>10, <2>15, <2>16, <2>17, <2>18 DEF Inv, Referenced
<1> QED BY <1>11, <1>12

-----------------------------------------------------------------------------
(* A set is registered, and unregistered.                                  *)

LEMMA InitSetKeeps ==
  ASSUME Inv, NEW t \in Threads, init_dpu_set(t)
  PROVE  Inv'
<1>0. /\ Books /\ Referenced /\ Typed /\ Owned /\ ThreadOk(th[t]) /\ th[t].pc = "jobs" /\ DOMAIN th = Threads /\ RanksOk /\ SetsOk
      /\ handler \in [loaded : BOOLEAN, refcount : Nat] /\ leaked \in Nat /\ lost \subseteq Objects
  BY DEF Inv, Books, Referenced, Typed, init_dpu_set, At
<1>1. th[t].new = NoRank /\ Own(th[t]) = Range(th[t].cur) /\ th[t].cur \in Seq(Objects) /\ IsInjective(th[t].cur)
  BY <1>0, OwnAt DEF ThreadOk, Early, Late
<1>2. UNCHANGED <<handler, ids, list, next, fd, leaked, lost>>
  BY DEF init_dpu_set
<1>3. CASE /\ rank' = [o \in Objects |-> IF o \in Range(th[t].cur) THEN [rank[o] EXCEPT !.jobs = TRUE] ELSE rank[o]]
           /\ sets' = sets \cup {[ranks |-> th[t].cur, call |-> th[t].call]}
           /\ Goto(t, "sg")
  <2> DEFINE z == [ranks |-> th[t].cur, call |-> th[t].call]
  <2>1. RanksSame
    BY <1>0, <1>3 DEF RanksOk, RanksSame, RankFields
  <2>2. /\ StepBy(t) /\ th'[t].pc = "sg" /\ th'[t].cur = th[t].cur /\ th'[t].drop = th[t].drop
        /\ th'[t].new = NoRank /\ th'[t].then = th[t].then /\ th'[t].call = th[t].call /\ DOMAIN th'[t] = ThreadFields
    BY <1>0, <1>1, <1>3, GotoFacts DEF StepBy
  <2>3. ThreadOk(th'[t])
    BY <1>0, <1>1, <2>2 DEF ThreadOk, Points, Early, Late, Freeing
  <2>4. Own(th'[t]) = {}
    BY <2>2, <2>3, OwnAt DEF Settled, Freeing
  <2>5. z.ranks = th[t].cur /\ sets' = sets \cup {z}
    BY <1>3
  <2> HIDE DEF z
  <2>6. SetsOk'
    BY <1>0, <1>1, <2>5 DEF SetsOk
  <2>7. Held' = Held \cup Range(th[t].cur)
    BY <1>2, <2>5 DEF Held
  <2>8. \A a \in sets : Range(a.ranks) \cap Range(z.ranks) = {}
    <3>1. \A a \in sets : Range(a.ranks) \subseteq Held
      BY DEF Held
    <3>2. Own(th[t]) \cap Held = {}
      BY <1>0 DEF Owned
    <3> QED BY <1>1, <2>5, <3>1, <3>2
  <2>9. \A a, y \in sets' : a # y => Range(a.ranks) \cap Range(y.ranks) = {}
    <3>1. \A a, y \in sets : a # y => Range(a.ranks) \cap Range(y.ranks) = {}
      BY <1>0 DEF Owned
    <3> QED BY <2>5, <2>8, <3>1
  <2>10. Owned'
    <3>1. \A o \in Objects : rank'[o].live <=> rank[o].live
      BY <2>1 DEF RanksSame
    <3>2. Own(th'[t]) \cup Held' = Own(th[t]) \cup Held /\ Own(th'[t]) \cap Held' = {}
      BY <1>1, <2>4, <2>7
    <3>3. \A a \in sets' : Range(a.ranks) \cap lost' = {}
      BY <1>0, <1>1, <1>2, <2>5 DEF Owned, Held
    <3> QED BY <1>0, <2>2, <2>3, <2>9, <3>1, <3>2, <3>3, OwnedMoves
  <2>11. StageSame(th[t], th'[t])
    BY <1>1, <2>2 DEF StageSame
  <2>12. Books' /\ Counted' = Counted
    BY <1>0, <1>2, <2>1, <2>2, <2>3, <2>6, <2>10, <2>11, BooksMoved
  <2>13. Referenced'
    BY <1>0, <1>2, <2>2, <2>12, ReferencedKept
  <2> QED BY <2>12, <2>13 DEF Inv, Books, Referenced
<1>4. CASE th' = Error(t, Disturbed, "DPU_ERR_SYSTEM") /\ UNCHANGED <<rank, sets>>
  <2>1. RanksSame
    BY <1>0, <1>4, RanksSameFacts
  <2>2. /\ DOMAIN Disturbed = Threads /\ \A u \in Threads : Alike(th[u], Disturbed[u])
    BY <1>0, DisturbedFacts
  <2>3. /\ DOMAIN Disturbed[t] = ThreadFields /\ Disturbed[t].cur = th[t].cur /\ Disturbed[t].call = th[t].call
    BY <2>2 DEF Alike
  <2>4. th[t].cur \in Seq(Objects) /\ IsInjective(th[t].cur) /\ (th[t].call.kind = "describe" => th[t].cur = <<>>)
    BY <1>0 DEF ThreadOk
  <2>5. /\ StepBy(t) /\ ThreadOk(th'[t]) /\ th'[t].pc \in {"return", "drop"} /\ th'[t].new = NoRank
        /\ Own(th'[t]) = Range(th[t].cur)
    BY <1>4, <2>2, <2>3, <2>4, ErrorFacts
  <2> QED BY <1>0, <1>1, <1>2, <1>4, <2>1, <2>5, QuietStep DEF StageSame
<1> QED BY <1>3, <1>4 DEF init_dpu_set

LEMMA FreeKeeps ==
  ASSUME Inv, NEW t \in Threads, NEW s \in sets, dpu_free(t, s)
  PROVE  Inv'
<1>0. /\ Books /\ Referenced /\ Typed /\ Owned /\ ThreadOk(th[t]) /\ th[t].pc = "idle" /\ DOMAIN th = Threads /\ RanksOk /\ SetsOk
      /\ handler \in [loaded : BOOLEAN, refcount : Nat] /\ leaked \in Nat /\ lost \subseteq Objects
  BY DEF Inv, Books, Referenced, Typed, dpu_free, MayCall, At
<1> DEFINE a == [Idle EXCEPT !.call = [kind |-> "free"], !.alone = FALSE]
           x == Dropping(a, s.ranks, "return")
<1>1. /\ UNCHANGED <<handler, ids, list, next, fd, leaked, lost>> /\ sets' = sets \ {s}
      /\ rank' = [o \in Objects |-> IF o \in Range(s.ranks) THEN [rank[o] EXCEPT !.jobs = FALSE] ELSE rank[o]]
      /\ th' = [Disturbed EXCEPT ![t] = x]
  BY DEF dpu_free
<1>2. /\ DOMAIN a = ThreadFields /\ a.cur = <<>> /\ a.new = NoRank /\ a.call = [kind |-> "free"]
  BY DEF Idle, ThreadFields
<1> HIDE DEF a
<1>3. /\ DOMAIN x = ThreadFields /\ x.pc = (IF s.ranks = <<>> THEN "return" ELSE "drop")
      /\ x.drop = s.ranks /\ x.then = "return" /\ x.cur = <<>> /\ x.new = NoRank /\ x.call = [kind |-> "free"]
  BY <1>2, DroppingFacts
<1> HIDE DEF x
<1>4. DOMAIN Disturbed = Threads /\ \A u \in Threads : Alike(th[u], Disturbed[u])
  BY <1>0, DisturbedFacts
<1>5. StepBy(t) /\ th'[t] = x
  BY <1>1, <1>3, <1>4 DEF StepBy
<1>6. s.ranks \in Seq(Objects) /\ IsInjective(s.ranks)
  BY <1>0 DEF SetsOk
<1>7. ThreadOk(x)
  BY <1>3, <1>6, EmptyFacts, NoRankIsNone DEF ThreadOk, Points, Early, Late, Freeing
<1>8. Own(x) = Range(s.ranks)
  <2>1. Settled(x) /\ Leaving(x) = Range(s.ranks)
    BY <1>3 DEF Settled, Leaving, Freeing
  <2> QED BY <1>3, <2>1 DEF Own, Mine
<1>9. th[t].new = NoRank /\ Own(th[t]) = {}
  <2>1. th[t].new = NoRank /\ th[t].cur = <<>> /\ th[t].pc \notin Freeing
    BY <1>0 DEF ThreadOk, Early, Late, Freeing
  <2> QED BY <1>0, <2>1, OwnAt
<1>10. RanksSame
  BY <1>0, <1>1 DEF RanksOk, RanksSame, RankFields
<1>11. /\ \A b, z \in sets : b # z => Range(b.ranks) \cap Range(z.ranks) = {}
       /\ \A b \in sets : Range(b.ranks) \cap lost = {}
  BY <1>0 DEF Owned
<1>12. Held' = Held \ Range(s.ranks) /\ Range(s.ranks) \subseteq Held
  <2>1. \A b \in sets' : b \in sets /\ b # s
    BY <1>1
  <2>2. \A b \in sets : b # s => b \in sets'
    BY <1>1
  <2> QED BY <1>1, <1>11, <2>1, <2>2 DEF Held
<1>13. Owned'
  <2>1. \A o \in Objects : rank'[o].live <=> rank[o].live
    BY <1>10 DEF RanksSame
  <2>2. Own(th'[t]) \cup Held' = Own(th[t]) \cup Held /\ Own(th'[t]) \cap Held' = {}
    BY <1>5, <1>8, <1>9, <1>12
  <2>3. /\ \A b, z \in sets' : b # z => Range(b.ranks) \cap Range(z.ranks) = {}
        /\ \A b \in sets' : Range(b.ranks) \cap lost' = {}
    BY <1>1, <1>11
  <2> QED BY <1>0, <1>5, <1>7, <2>1, <2>2, <2>3, OwnedMoves
<1>14. SetsOk'
  BY <1>0, <1>1 DEF SetsOk
<1>15. Books' /\ Counted' = Counted
  BY <1>0, <1>1, <1>3, <1>5, <1>7, <1>9, <1>10, <1>13, <1>14, BooksMoved DEF StageSame
<1>16. Referenced'
  BY <1>0, <1>1, <1>3, <1>5, <1>15, ReferencedKept
<1> QED BY <1>15, <1>16 DEF Inv, Books, Referenced

-----------------------------------------------------------------------------
(* A rank is freed: out of the list, its device closed, its reference      *)
(* given back.                                                             *)

LEMMA FreeingFacts ==
  ASSUME Inv, NEW t \in Threads, th[t].pc \in Freeing
  PROVE  LET o == Head(th[t].drop)
         IN  /\ Books /\ Referenced /\ Typed /\ Owned /\ ThreadOk(th[t]) /\ DOMAIN th = Threads /\ RanksOk
             /\ handler \in [loaded : BOOLEAN, refcount : Nat] /\ leaked \in Nat
             /\ th[t].drop \in Seq(Objects) /\ th[t].drop # <<>> /\ IsInjective(th[t].drop) /\ th[t].new = NoRank
             /\ o \in Objects /\ o \in Range(th[t].drop)
             /\ Tail(th[t].drop) \in Seq(Objects) /\ IsInjective(Tail(th[t].drop))
             /\ Range(Tail(th[t].drop)) = Range(th[t].drop) \ {o}
             /\ th[t].pc # "dropunload" => /\ o \in Own(th[t]) /\ o \notin Held /\ \A u \in Threads \ {t} : o \notin Own(th[u])
                                           /\ \A P : o \in Ready(P)
<1> DEFINE o == Head(th[t].drop)
<1>0. /\ Books /\ Referenced /\ Typed /\ Owned /\ ThreadOk(th[t]) /\ DOMAIN th = Threads /\ RanksOk
      /\ handler \in [loaded : BOOLEAN, refcount : Nat] /\ leaked \in Nat
  BY DEF Inv, Books, Referenced, Typed
<1>1. th[t].drop \in Seq(Objects) /\ th[t].drop # <<>> /\ IsInjective(th[t].drop) /\ th[t].new = NoRank
  BY <1>0 DEF ThreadOk, Early, Late, Freeing
<1>2. /\ Tail(th[t].drop) \in Seq(Objects) /\ IsInjective(Tail(th[t].drop)) /\ o \in Range(th[t].drop)
      /\ Range(Tail(th[t].drop)) = Range(th[t].drop) \ {o}
  BY <1>1, TailRange
<1>3. o \in Objects
  BY <1>1, <1>2, RangeInside
<1>4. ASSUME th[t].pc # "dropunload"
      PROVE  /\ o \in Own(th[t]) /\ o \notin Held /\ \A u \in Threads \ {t} : o \notin Own(th[u])
             /\ \A P : o \in Ready(P)
  <2>1. o \in Own(th[t])
    BY <1>2, <1>4 DEF Own, Leaving
  <2>2. o \notin Held /\ \A u \in Threads \ {t} : o \notin Own(th[u])
    BY <1>0, <2>1 DEF Owned
  <2>3. rank[o].live
    BY <1>0, <1>3, <2>1 DEF Owned
  <2>4. \A u \in Threads : th[u].new # o
    <3>1. \A u \in Threads \ {t} : th[u].new = o => o \in Own(th[u])
      BY <1>3, NoRankIsNone DEF Own
    <3> QED BY <1>1, <1>3, <2>2, <3>1, NoRankIsNone
  <2> HIDE DEF o
  <2>5. \A P : o \in Ready(P)
    BY <1>3, <2>3, <2>4 DEF Ready
  <2> QED BY <2>1, <2>2, <2>5
<1> QED BY <1>0, <1>1, <1>2, <1>3, <1>4

\* The thread goes on with the rank that it frees.
LEMMA HeadPast ==
  ASSUME NEW t \in Threads, StepBy(t), NEW P, th[t].pc \notin P, th'[t].pc \in P,
         th'[t].drop = th[t].drop, Head(th[t].drop) \in Objects
  PROVE  Past(P)' = Past(P) \cup {Head(th[t].drop)}
<1>1. \A o \in Objects : o \in Past(P) <=> \E u \in Threads \ {t} : th[u].pc \in P /\ Head(th[u].drop) = o
  BY DEF Past
<1>2. \A u \in Threads \ {t} : th'[u].pc = th[u].pc /\ th'[u].drop = th[u].drop
  BY DEF StepBy, Alike
<1>3. \A o \in Objects : o \in Past(P)' <=> \/ Head(th[t].drop) = o
                                           \/ \E u \in Threads \ {t} : th[u].pc \in P /\ Head(th[u].drop) = o
  BY <1>2 DEF Past
<1>4. Past(P) \subseteq Objects /\ Past(P)' \subseteq Objects
  BY DEF Past
<1> QED BY <1>1, <1>3, <1>4

LEMMA HeadPastStill ==
  ASSUME NEW t \in Threads, StepBy(t), NEW P, th[t].pc \in P, th'[t].pc \in P, th'[t].drop = th[t].drop
  PROVE  Past(P)' = Past(P)
<1>1. \A u \in Threads : (th'[u].pc \in P <=> th[u].pc \in P) /\ th'[u].drop = th[u].drop
  BY DEF StepBy, Alike
<1> QED BY <1>1 DEF Past

LEMMA ListRemoveKeeps ==
  ASSUME Inv, NEW t \in Threads, dpu_rank_list_remove(t)
  PROVE  Inv'
<1> DEFINE o == Head(th[t].drop)
<1>0. /\ th[t].pc = "drop" /\ Goto(t, "close") /\ UNCHANGED <<handler, ids, next, rank, fd, sets, leaked, lost>>
      /\ list' = [i \in DOMAIN list |-> IF list[i] = o THEN NoRank ELSE list[i]]
  BY DEF dpu_rank_list_remove, At
<1>1. /\ Books /\ Referenced /\ Typed /\ Owned /\ ThreadOk(th[t]) /\ RanksOk /\ o \in Objects /\ th[t].new = NoRank
      /\ handler \in [loaded : BOOLEAN, refcount : Nat] /\ leaked \in Nat
      /\ \A u \in Threads \ {t} : o \notin Own(th[u])
  BY <1>0, FreeingFacts DEF Freeing
<1>2. /\ StepBy(t) /\ th'[t].pc = "close" /\ th'[t].cur = th[t].cur /\ th'[t].drop = th[t].drop
      /\ th'[t].new = NoRank /\ th'[t].then = th[t].then /\ th'[t].call = th[t].call /\ DOMAIN th'[t] = ThreadFields
  BY <1>0, <1>1, GotoFacts DEF StepBy
<1>3. ThreadOk(th'[t])
  BY <1>0, <1>1, <1>2 DEF ThreadOk, Points, Early, Late, Freeing
<1>4. Own(th'[t]) = Own(th[t])
  BY <1>0, <1>1, <1>2 DEF Own, Mine, Leaving, Settled, Freeing
<1>5. Owned'
  BY <1>0, <1>1, <1>2, <1>3, <1>4, OwnedKept
<1>6. list \in Seq(Objects \cup {NoRank}) /\ next \in 1 .. Len(list) /\ NoRank # o
  BY <1>1, NoRankIsNone DEF Typed
<1> HIDE DEF o
<1>7. /\ list' \in Seq(Objects \cup {NoRank}) /\ Len(list') = Len(list)
      /\ \A i \in 1 .. Len(list) : list'[i] = IF list[i] = o THEN NoRank ELSE list[i]
  BY <1>0, <1>6
<1>8. \A u \in Threads : ThreadOk(th'[u])
  BY <1>1, <1>2, <1>3, ThreadsKept
<1>9. Typed'
  BY <1>0, <1>1, <1>2, <1>6, <1>7, <1>8 DEF Typed, SetsOk, RanksOk, StepBy
<1>10. Counted' = Counted /\ Named' = Named /\ Opened' = Opened /\ Shown' = Shown \ {o}
  <2>1. StageSame(th[t], th'[t]) /\ \A p \in Objects : rank'[p].live <=> rank[p].live
    BY <1>0, <1>1, <1>2 DEF StageSame
  <2>2. /\ Counted' = Counted
        /\ Ready({"open", "list", "configure"})' = Ready({"open", "list", "configure"})
        /\ Ready({"list", "configure"})' = Ready({"list", "configure"})
        /\ Ready({"configure"})' = Ready({"configure"})
    BY <1>1, <1>2, <2>1, AllReadyKept
  <2>3. Past({"giveback"})' = Past({"giveback"})
    BY <1>0, <1>2, PastKept
  <2>4. Past({"release", "giveback"})' = Past({"release", "giveback"})
    BY <1>0, <1>2, PastKept
  <2>5. Past({"close", "release", "giveback"})' = Past({"close", "release", "giveback"}) \cup {o}
    BY <1>0, <1>1, <1>2, HeadPast DEF o
  <2> QED BY <2>2, <2>3, <2>4, <2>5 DEF Named, Opened, Shown
<1>12. IdsInv' /\ FdInv'
  BY <1>0, <1>1, <1>10 DEF Books, IdsInv, FdInv
<1>13. /\ list[next] = NoRank
       /\ \A p \in Objects : p \in Shown <=> \E i \in 1 .. Len(list) : list[i] = p
       /\ \A i, j \in 1 .. Len(list) : list[i] = list[j] /\ list[i] # NoRank => i = j
  BY <1>1 DEF Books, ListInv
<1>14. list'[next] = NoRank
  BY <1>6, <1>7, <1>13
<1>15. \A p \in Objects : p \in Shown' <=> \E i \in 1 .. Len(list') : list'[i] = p
  <2>1. ASSUME NEW p \in Objects, p # o
        PROVE  (\E i \in 1 .. Len(list') : list'[i] = p) <=> (\E i \in 1 .. Len(list) : list[i] = p)
    <3>1. \A i \in 1 .. Len(list) : list'[i] = p <=> list[i] = p
      BY <1>7, <2>1, NoRankIsNone
    <3> QED BY <1>7, <3>1
  <2>2. \A i \in 1 .. Len(list') : list'[i] # o
    BY <1>6, <1>7
  <2> QED BY <1>10, <1>13, <2>1, <2>2
<1>16. \A i, j \in 1 .. Len(list') : list'[i] = list'[j] /\ list'[i] # NoRank => i = j
  BY <1>7, <1>13
<1>17. ListInv'
  BY <1>0, <1>14, <1>15, <1>16 DEF ListInv
<1>18. Referenced'
  BY <1>0, <1>1, <1>2, <1>10, ReferencedKept
<1> QED BY <1>5, <1>9, <1>12, <1>17, <1>18 DEF Inv, Referenced

\* The thread has freed the first of the ranks it drops.
LEMMA Dropped ==
  ASSUME Inv, NEW t \in Threads, th[t].pc \in {"giveback", "dropunload"},
         th' = [th EXCEPT ![t] = Dropping(th[t], Tail(th[t].drop), th[t].then)]
  PROVE  /\ StepBy(t) /\ ThreadOk(th'[t]) /\ th'[t].pc \in {"drop", "return", "disable"} /\ th'[t].new = NoRank
         /\ Own(th'[t]) = (IF th[t].pc = "giveback" THEN Own(th[t]) \ {Head(th[t].drop)} ELSE Own(th[t]))
<1> DEFINE tail == Tail(th[t].drop)
           x == Dropping(th[t], tail, th[t].then)
           o == Head(th[t].drop)
<1>0. /\ Typed /\ ThreadOk(th[t]) /\ DOMAIN th = Threads /\ th[t].new = NoRank /\ DOMAIN th[t] = ThreadFields
      /\ th[t].drop # <<>> /\ o \in Range(th[t].drop)
      /\ tail \in Seq(Objects) /\ IsInjective(tail) /\ Range(tail) = Range(th[t].drop) \ {o}
  BY FreeingFacts DEF Freeing, ThreadOk
<1>1. th' = [th EXCEPT ![t] = x]
  OBVIOUS
<1> HIDE DEF tail
<1>2. /\ DOMAIN x = ThreadFields /\ x.pc = (IF tail = <<>> THEN th[t].then ELSE "drop")
      /\ x.drop = tail /\ x.then = th[t].then /\ x.cur = th[t].cur /\ x.new = NoRank /\ x.call = th[t].call
  BY <1>0, DroppingFacts
<1>3. th[t].then \in {"return", "disable"}
  BY <1>0 DEF ThreadOk, Freeing
<1> HIDE DEF x, o
<1>4. StepBy(t) /\ th'[t] = x
  BY <1>0, <1>1, <1>2 DEF StepBy, Alike, Typed, ThreadOk
<1>5. x.pc \in {"drop", "return", "disable"}
  BY <1>2, <1>3
<1>6. ThreadOk(x)
  <2>1. th[t].then = "disable" => Range(th[t].cur) \cap Range(th[t].drop) = {}
    BY <1>0 DEF ThreadOk, Freeing
  <2>2. Range(tail) \subseteq Range(th[t].drop)
    BY <1>0
  <2>3. /\ th[t].cur \in Seq(Objects) /\ IsInjective(th[t].cur) /\ NoRank \notin Range(th[t].cur)
        /\ (th[t].call.kind = "describe" => th[t].cur = <<>>)
    BY <1>0 DEF ThreadOk
  <2> QED BY <1>0, <1>2, <1>3, <2>1, <2>2, <2>3 DEF ThreadOk, Points, Early, Late, Freeing
<1>7. Mine(x) = Mine(th[t])
  <2>1. Settled(x) <=> Settled(th[t])
    BY <1>2, <1>3 DEF Settled, Freeing
  <2> QED BY <1>2, <2>1 DEF Mine
<1>8. Leaving(x) = Range(tail)
  BY <1>2, <1>3 DEF Leaving
<1>9. Leaving(th[t]) = IF th[t].pc = "giveback" THEN Range(th[t].drop) ELSE Range(tail)
  BY DEF Leaving, tail
<1>10. th[t].pc = "giveback" => o \notin Mine(th[t])
  BY <1>0, <1>3 DEF Mine, Settled, ThreadOk, Freeing
<1>11. Own(x) = IF th[t].pc = "giveback" THEN Own(th[t]) \ {o} ELSE Own(th[t])
  BY <1>0, <1>2, <1>7, <1>8, <1>9, <1>10 DEF Own
<1> QED BY <1>2, <1>4, <1>5, <1>6, <1>11 DEF o

LEMMA FreeRankThread ==
  ASSUME Inv, NEW t \in Threads, dpu_free_rank(t)
  PROVE  /\ StepBy(t) /\ ThreadOk(th'[t]) /\ th'[t].new = NoRank
         /\ th'[t].pc = "dropunload" \/ (th'[t].pc \in {"drop", "return", "disable"} /\ handler.refcount # 1)
         /\ th'[t].pc = "dropunload" => handler.refcount = 1
         /\ Own(th'[t]) = Own(th[t]) \ {Head(th[t].drop)}
<1> DEFINE o == Head(th[t].drop)
<1>0. /\ Typed /\ ThreadOk(th[t]) /\ DOMAIN th = Threads /\ th[t].new = NoRank /\ th[t].pc = "giveback"
      /\ DOMAIN th[t] = ThreadFields
      /\ Range(Tail(th[t].drop)) = Range(th[t].drop) \ {o} /\ o \in Range(th[t].drop)
  BY FreeingFacts DEF dpu_free_rank, At, Freeing, ThreadOk
<1>1. CASE handler.refcount = 1
  <2>1. th' = [th EXCEPT ![t] = [th[t] EXCEPT !.pc = "dropunload"]]
    BY <1>1 DEF dpu_free_rank
  <2>2. /\ DOMAIN th'[t] = ThreadFields /\ th'[t].pc = "dropunload" /\ th'[t].cur = th[t].cur /\ th'[t].drop = th[t].drop
        /\ th'[t].new = NoRank /\ th'[t].then = th[t].then /\ th'[t].call = th[t].call
    BY <1>0, <2>1 DEF ThreadFields
  <2>3. StepBy(t)
    <3>1. DOMAIN th' = Threads /\ \A u \in Threads \ {t} : th'[u] = th[u] /\ DOMAIN th[u] = ThreadFields
      BY <1>0, <2>1 DEF Typed, ThreadOk
    <3> QED BY <2>2, <3>1 DEF StepBy, Alike
  <2>4. ThreadOk(th'[t])
    BY <1>0, <2>2 DEF ThreadOk, Points, Early, Late, Freeing
  <2> HIDE DEF o
  <2>5. Mine(th'[t]) = Mine(th[t])
    BY <1>0, <2>2 DEF Mine, Settled, Freeing
  <2>6. Leaving(th[t]) = Range(th[t].drop) /\ Leaving(th'[t]) = Range(th[t].drop) \ {o}
    BY <1>0, <2>2 DEF Leaving
  <2>7. o \notin Mine(th[t])
    BY <1>0 DEF Mine, Settled, ThreadOk, Freeing
  <2>8. Own(th'[t]) = Own(th[t]) \ {o}
    BY <1>0, <2>2, <2>5, <2>6, <2>7 DEF Own
  <2> QED BY <1>1, <2>2, <2>3, <2>4, <2>8 DEF o
<1>2. CASE handler.refcount # 1
  <2>1. th' = [th EXCEPT ![t] = Dropping(th[t], Tail(th[t].drop), th[t].then)]
    BY <1>2 DEF dpu_free_rank
  <2> HIDE DEF o
  <2>2. /\ StepBy(t) /\ ThreadOk(th'[t]) /\ th'[t].pc \in {"drop", "return", "disable"} /\ th'[t].new = NoRank
        /\ Own(th'[t]) = (IF th[t].pc = "giveback" THEN Own(th[t]) \ {o} ELSE Own(th[t]))
    BY <1>0, <2>1, Dropped DEF o
  <2> QED BY <1>0, <1>2, <2>2 DEF o
<1> QED BY <1>1, <1>2

\* A step of the thread with the rank that it frees.
LEMMA FreeingStep ==
  ASSUME Inv, NEW t \in Threads, NEW pc, Goto(t, pc), th[t].pc \in {"close", "release"}, pc \in {"release", "giveback"},
         UNCHANGED <<handler, list, next, rank, sets, leaked, lost>>
  PROVE  /\ StepBy(t) /\ th'[t].pc = pc /\ th'[t].drop = th[t].drop
         /\ \A u \in Threads : ThreadOk(th'[u])
         /\ Owned' /\ ListInv' /\ Referenced' /\ DOMAIN th' = Threads
         /\ Ready({"open", "list", "configure"})' = Ready({"open", "list", "configure"})
         /\ Ready({"list", "configure"})' = Ready({"list", "configure"})
<1>1. Books /\ Referenced /\ Typed /\ Owned /\ ThreadOk(th[t]) /\ th[t].new = NoRank
  BY FreeingFacts DEF Freeing
<1>2. /\ StepBy(t) /\ th'[t].pc = pc /\ th'[t].cur = th[t].cur /\ th'[t].drop = th[t].drop
      /\ th'[t].new = NoRank /\ th'[t].then = th[t].then /\ th'[t].call = th[t].call /\ DOMAIN th'[t] = ThreadFields
  BY <1>1, GotoFacts DEF StepBy
<1>3. ThreadOk(th'[t])
  BY <1>1, <1>2 DEF ThreadOk, Points, Early, Late, Freeing
<1>4. Own(th'[t]) = Own(th[t])
  BY <1>1, <1>2 DEF Own, Mine, Leaving, Settled, Freeing
<1>5. Owned'
  BY <1>1, <1>2, <1>3, <1>4, OwnedKept
<1>6. \A u \in Threads : ThreadOk(th'[u])
  BY <1>1, <1>2, <1>3, ThreadsKept
<1>7. StageSame(th[t], th'[t]) /\ \A p \in Objects : rank'[p].live <=> rank[p].live
  BY <1>1, <1>2 DEF StageSame
<1>8. /\ Counted' = Counted
      /\ Ready({"open", "list", "configure"})' = Ready({"open", "list", "configure"})
      /\ Ready({"list", "configure"})' = Ready({"list", "configure"})
      /\ Ready({"configure"})' = Ready({"configure"})
  BY <1>1, <1>2, <1>7, AllReadyKept
<1>9. Shown' = Shown
  <2>1. Past({"close", "release", "giveback"})' = Past({"close", "release", "giveback"})
    BY <1>2, HeadPastStill
  <2> QED BY <1>8, <2>1 DEF Shown
<1>10. ListInv'
  BY <1>1, <1>9 DEF Books, ListInv
<1>11. Referenced'
  BY <1>1, <1>2, <1>8, ReferencedKept
<1> QED BY <1>2, <1>5, <1>6, <1>8, <1>10, <1>11 DEF StepBy

\* handler->free: the device is closed.
LEMMA HwFreeKeeps ==
  ASSUME Inv, NEW t \in Threads, hw_free(t)
  PROVE  Inv'
<1> DEFINE o == Head(th[t].drop)
<1>0. /\ th[t].pc = "close" /\ Goto(t, "release") /\ UNCHANGED <<handler, ids, list, next, rank, sets, leaked, lost>>
      /\ fd' = [h \in HwRanks |-> IF fd[h] = o THEN NoRank ELSE fd[h]]
  BY DEF hw_free, At
<1>1. Books /\ Typed /\ RanksOk /\ o \in Objects
  BY <1>0, FreeingFacts DEF Freeing
<1>2. /\ StepBy(t) /\ th'[t].pc = "release" /\ th'[t].drop = th[t].drop
      /\ \A u \in Threads : ThreadOk(th'[u])
      /\ Owned' /\ ListInv' /\ Referenced' /\ DOMAIN th' = Threads
      /\ Ready({"open", "list", "configure"})' = Ready({"open", "list", "configure"})
      /\ Ready({"list", "configure"})' = Ready({"list", "configure"})
  BY <1>0, FreeingStep
<1>3. Named' = Named
  <2>1. Past({"giveback"})' = Past({"giveback"})
    BY <1>0, <1>2, PastKept
  <2> QED BY <1>2, <2>1 DEF Named
<1>4. Opened' = Opened \ {o}
  <2>1. Past({"release", "giveback"})' = Past({"release", "giveback"}) \cup {o}
    BY <1>0, <1>1, <1>2, HeadPast
  <2> QED BY <1>2, <2>1 DEF Opened
<1> HIDE DEF o
<1>5. fd \in [HwRanks -> Objects \cup {NoRank}] /\ fd' \in [HwRanks -> Objects \cup {NoRank}]
  BY <1>0, <1>1 DEF Typed
<1>6. Typed'
  BY <1>0, <1>1, <1>2, <1>5 DEF Typed, SetsOk, RanksOk
<1>7. IdsInv'
  BY <1>0, <1>1, <1>3 DEF Books, IdsInv
<1>8. FdInv'
  <2>1. ASSUME NEW h \in HwRanks, fd'[h] # NoRank PROVE fd'[h] \in Opened' /\ rank'[fd'[h]].hw = h
    <3>1. fd'[h] = fd[h] /\ fd[h] # o /\ fd[h] # NoRank
      BY <1>0, <2>1
    <3> QED BY <1>0, <1>1, <1>4, <3>1 DEF Books, FdInv
  <2>2. ASSUME NEW p \in Opened' PROVE rank'[p].hw \in HwRanks /\ fd'[rank'[p].hw] = p
    <3>1. p \in Opened /\ p # o
      BY <1>4
    <3>2. rank[p].hw \in HwRanks /\ fd[rank[p].hw] = p
      BY <1>1, <3>1 DEF Books, FdInv
    <3> QED BY <1>0, <3>1, <3>2
  <2> QED BY <2>1, <2>2 DEF FdInv
<1> QED BY <1>2, <1>6, <1>7, <1>8 DEF Inv, Referenced

\* dpu_release_rank_id: the number is given back.
LEMMA FreeNumberKeeps ==
  ASSUME Inv, NEW t \in Threads, FreeNumber(t)
  PROVE  Inv'
<1> DEFINE o == Head(th[t].drop)
<1>0. /\ th[t].pc = "release" /\ Goto(t, "giveback") /\ UNCHANGED <<handler, list, next, rank, fd, sets, leaked, lost>>
      /\ ids' = ids \ {rank[o].id}
  BY DEF FreeNumber, At, dpu_release_rank_id
<1>1. Books /\ Typed /\ RanksOk /\ o \in Objects /\ \A P : o \in Ready(P)
  BY <1>0, FreeingFacts DEF Freeing
<1>2. /\ StepBy(t) /\ th'[t].pc = "giveback" /\ th'[t].drop = th[t].drop
      /\ \A u \in Threads : ThreadOk(th'[u])
      /\ Owned' /\ ListInv' /\ Referenced' /\ DOMAIN th' = Threads
      /\ Ready({"open", "list", "configure"})' = Ready({"open", "list", "configure"})
      /\ Ready({"list", "configure"})' = Ready({"list", "configure"})
  BY <1>0, FreeingStep
<1>3. Opened' = Opened
  <2>1. Past({"release", "giveback"})' = Past({"release", "giveback"})
    BY <1>0, <1>2, HeadPastStill
  <2> QED BY <1>2, <2>1 DEF Opened
<1>4. Named' = Named \ {o} /\ o \in Named
  <2>1. Past({"giveback"})' = Past({"giveback"}) \cup {o}
    BY <1>0, <1>1, <1>2, HeadPast
  <2>2. o \notin Past({"giveback"})
    <3>1. \A u \in Threads \ {t} : o \notin Own(th[u])
      BY <1>0, FreeingFacts DEF Freeing
    <3>2. \A u \in Threads : th[u].pc = "giveback" => Head(th[u].drop) \in Own(th[u])
      BY FreeingFacts DEF Freeing
    <3> QED BY <1>0, <3>1, <3>2 DEF Past
  <2> QED BY <1>1, <1>2, <2>1, <2>2 DEF Named
<1> HIDE DEF o
<1>5. Typed'
  <2>1. ids' \subseteq ids
    BY <1>0
  <2> QED BY <1>0, <1>1, <1>2, <2>1 DEF Typed, SetsOk, RanksOk
<1>6. FdInv'
  BY <1>0, <1>1, <1>3 DEF Books, FdInv
<1>7. IdsInv'
  <2>1. ids = {rank[p].id : p \in Named} /\ \A p, q \in Named : rank[p].id = rank[q].id => p = q
    BY <1>1 DEF Books, IdsInv
  <2>2. \A p, q \in Named' : rank'[p].id = rank'[q].id => p = q
    BY <1>0, <1>4, <2>1
  <2>3. ASSUME NEW x \in ids' PROVE \E p \in Named' : x = rank'[p].id
    <3>1. PICK p \in Named : x = rank[p].id
      BY <1>0, <2>1
    <3>2. p # o
      BY <1>0, <3>1
    <3> QED BY <1>0, <1>4, <3>1, <3>2
  <2>4. ASSUME NEW p \in Named' PROVE rank'[p].id \in ids'
    BY <1>0, <1>4, <2>1
  <2> QED BY <2>2, <2>3, <2>4 DEF IdsInv
<1> QED BY <1>2, <1>5, <1>6, <1>7 DEF Inv, Referenced

\* dpu_rank_handler_put, and the structure is freed.
LEMMA FreeRankKeeps ==
  ASSUME Inv, NEW t \in Threads, dpu_free_rank(t)
  PROVE  Inv'
<1> DEFINE o == Head(th[t].drop)
<1>0. /\ th[t].pc = "giveback" /\ UNCHANGED <<ids, list, next, fd, sets, leaked, lost>>
      /\ rank' = [rank EXCEPT ![o].live = FALSE]
      /\ handler' = [handler EXCEPT !.refcount = @ - 1]
  BY DEF dpu_free_rank, At
<1>1. /\ Books /\ Referenced /\ Typed /\ Owned /\ ThreadOk(th[t]) /\ RanksOk /\ o \in Objects /\ th[t].new = NoRank
      /\ handler \in [loaded : BOOLEAN, refcount : Nat] /\ leaked \in Nat
      /\ o \in Own(th[t]) /\ o \notin Held /\ \A u \in Threads \ {t} : o \notin Own(th[u])
  BY <1>0, FreeingFacts DEF Freeing
<1>2. \A P : o \in Ready(P)
  BY <1>0, FreeingFacts DEF Freeing
<1>3. /\ StepBy(t) /\ ThreadOk(th'[t]) /\ th'[t].new = NoRank
      /\ th'[t].pc = "dropunload" \/ (th'[t].pc \in {"drop", "return", "disable"} /\ handler.refcount # 1)
      /\ th'[t].pc = "dropunload" => handler.refcount = 1
      /\ Own(th'[t]) = Own(th[t]) \ {o}
  BY FreeRankThread
<1>4. /\ o \in Past({"giveback"}) /\ o \in Past({"release", "giveback"}) /\ o \in Past({"close", "release", "giveback"})
  BY <1>0, <1>1 DEF Past
<1>14. ASSUME NEW P, "giveback" \in P, P \subseteq Freeing \ {"drop", "dropunload"} PROVE Past(P)' = Past(P) \ {o}
  <2>1. ASSUME NEW u \in Threads \ {t}, th[u].pc \in P PROVE Head(th[u].drop) # o
    <3>1. Head(th[u].drop) \in Own(th[u])
      BY <1>14, <2>1, FreeingFacts DEF Freeing
    <3> QED BY <1>1, <3>1
  <2>2. \A u \in Threads \ {t} : th'[u].pc = th[u].pc /\ th'[u].drop = th[u].drop
    BY <1>3 DEF StepBy, Alike
  <2>3. th'[t].pc \notin P
    BY <1>3, <1>14 DEF Freeing
  <2>4. \A p \in Objects : p \in Past(P)' <=> \E u \in Threads \ {t} : th[u].pc \in P /\ Head(th[u].drop) = p
    BY <2>2, <2>3 DEF Past
  <2>5. \A p \in Objects : p \in Past(P) <=> p = o \/ \E u \in Threads \ {t} : th[u].pc \in P /\ Head(th[u].drop) = p
    BY <1>0, <1>14 DEF Past
  <2>6. Past(P) \subseteq Objects /\ Past(P)' \subseteq Objects
    BY DEF Past
  <2> HIDE DEF o
  <2> QED BY <2>1, <2>4, <2>5, <2>6
<1> HIDE DEF o
<1>5. /\ ~rank'[o].live /\ \A p \in Objects \ {o} : rank'[p] = rank[p]
      /\ \A p \in Objects : rank'[p].id = rank[p].id /\ rank'[p].hw = rank[p].hw
      /\ RanksOk'
  BY <1>0, <1>1 DEF RanksOk, RankFields
<1>6. /\ \A u \in Threads : ThreadOk(th'[u])
      /\ \A u \in Threads \ {t} : Own(th'[u]) = Own(th[u])
  BY <1>1, <1>3, ThreadsKept
<1>7. o \in Counted /\ handler.refcount >= 1
  <2>1. o \in Counted
    BY <1>2 DEF Counted
  <2>2. Cardinality(Counted) # 0
    BY <2>1, ReadyFinite, FS_EmptySet
  <2> QED BY <1>1, <2>1, <2>2, ReadyFinite DEF Referenced, RefInv
<1>8. handler' \in [loaded : BOOLEAN, refcount : Nat] /\ handler'.refcount = handler.refcount - 1 /\ handler'.loaded /\ handler.loaded
  BY <1>0, <1>1, <1>7 DEF Referenced, LoadInv
<1>10. Typed'
  BY <1>0, <1>1, <1>3, <1>5, <1>6, <1>8 DEF Typed, SetsOk, StepBy
<1>11. Owned'
  <2>1. Held' = Held
    BY <1>0 DEF Held
  <2>2. ASSUME NEW p \in Objects \ {o}
        PROVE  rank'[p].live <=> (p \in Held' \/ \E u \in Threads : p \in Own(th'[u]))
    <3>1. \A u \in Threads : p \in Own(th'[u]) <=> p \in Own(th[u])
      BY <1>3, <1>6
    <3>2. rank[p].live <=> (p \in Held \/ \E u \in Threads : p \in Own(th[u]))
      BY <1>1 DEF Owned
    <3> QED BY <1>5, <2>1, <3>1, <3>2
  <2>3. ~(o \in Held' \/ \E u \in Threads : o \in Own(th'[u]))
    BY <1>1, <1>3, <1>6, <2>1
  <2>4. \A u \in Threads : Own(th'[u]) \subseteq Own(th[u])
    BY <1>3, <1>6
  <2>5. /\ \A u, v \in Threads : u # v => Own(th[u]) \cap Own(th[v]) = {}
        /\ \A u \in Threads : Own(th[u]) \cap Held = {}
        /\ \A a, z \in sets : a # z => Range(a.ranks) \cap Range(z.ranks) = {}
        /\ \A a \in sets : Range(a.ranks) \cap lost = {}
    BY <1>1 DEF Owned
  <2>6. /\ \A u, v \in Threads : u # v => Own(th'[u]) \cap Own(th'[v]) = {}
        /\ \A u \in Threads : Own(th'[u]) \cap Held' = {}
    BY <2>1, <2>4, <2>5
  <2>7. \A p \in Objects : rank'[p].live <=> (p \in Held' \/ \E u \in Threads : p \in Own(th'[u]))
    BY <1>5, <2>2, <2>3
  <2> QED BY <1>0, <2>5, <2>6, <2>7 DEF Owned
<1>12. ASSUME NEW P PROVE Ready(P)' = Ready(P) \ {o}
  <2>1. ASSUME NEW p \in Objects \ {o} PROVE p \in Ready(P)' <=> p \in Ready(P)
    <3>1. th'[t].new # p /\ th[t].new # p
      BY <1>1, <1>3, NoRankIsNone
    <3>2. p \in Ready(P) <=> rank[p].live /\ \A u \in Threads \ {t} : th[u].new = p => th[u].pc \in P
      BY <3>1 DEF Ready
    <3>3. p \in Ready(P)' <=> rank'[p].live /\ \A u \in Threads \ {t} : th[u].new = p => th[u].pc \in P
      BY <1>3, <3>1, ReadyOf
    <3> QED BY <1>5, <3>2, <3>3
  <2>2. o \notin Ready(P)'
    BY <1>1, <1>3, <1>5, ReadyOf
  <2>3. Ready(P) \subseteq Objects /\ Ready(P)' \subseteq Objects
    BY DEF Ready
  <2> QED BY <2>1, <2>2, <2>3
<1>13. Counted' = Counted \ {o}
  BY <1>12 DEF Counted
<1>15. Named' = Named /\ Opened' = Opened /\ Shown' = Shown
  <2>1. Past({"giveback"})' = Past({"giveback"}) \ {o}
    BY <1>14 DEF Freeing
  <2>2. Past({"release", "giveback"})' = Past({"release", "giveback"}) \ {o}
    BY <1>14 DEF Freeing
  <2>3. Past({"close", "release", "giveback"})' = Past({"close", "release", "giveback"}) \ {o}
    BY <1>14 DEF Freeing
  <2>4. Named' = Named
    BY <1>4, <1>12, <2>1 DEF Named
  <2>5. Opened' = Opened
    BY <1>4, <1>12, <2>2 DEF Opened
  <2>6. Shown' = Shown
    BY <1>4, <1>12, <2>3 DEF Shown
  <2> QED BY <2>4, <2>5, <2>6
<1>16. IdsInv'
  BY <1>0, <1>1, <1>5, <1>15 DEF Books, IdsInv, Named, Ready
<1>17. FdInv'
  <2>1. \A p \in Opened : rank'[p].hw = rank[p].hw
    BY <1>5 DEF Opened, Ready
  <2> QED BY <1>0, <1>1, <1>15, <2>1 DEF Books, FdInv
<1>18. ListInv'
  BY <1>0, <1>1, <1>15 DEF Books, ListInv
<1>19. Probing' = Probing
  BY <1>0, <1>3 DEF Probing, StepBy, Alike
<1>20. Cardinality(Counted') = Cardinality(Counted) - 1
  BY <1>7, <1>13, ReadyFinite, FS_RemoveElement
<1>21. RefInv'
  BY <1>0, <1>1, <1>8, <1>19, <1>20, ReadyFinite DEF Referenced, RefInv
<1>22. \A u \in Threads \ {t} : th'[u].pc = th[u].pc /\ th'[u].call = th[u].call
  BY <1>3 DEF StepBy, Alike
<1>23. \A u \in Threads : th'[u].pc \in {"unload", "dropunload"} => handler'.refcount = 0
  <2>1. \A u \in Threads \ {t} : th'[u].pc \notin {"unload", "dropunload"}
    BY <1>1, <1>7, <1>22 DEF Referenced, LoadInv
  <2> QED BY <1>3, <1>8, <2>1
<1>24. LoadInv'
  BY <1>0, <1>1, <1>3, <1>8, <1>22, <1>23 DEF Referenced, LoadInv
<1> QED BY <1>10, <1>11, <1>16, <1>17, <1>18, <1>21, <1>24 DEF Inv

\* dpu_rank_handler_free_rank gave the last reference back: the library goes.
LEMMA DropUnloadKeeps ==
  ASSUME Inv, NEW t \in Threads, DropUnload(t)
  PROVE  Inv'
<1>0. /\ th[t].pc = "dropunload" /\ UNCHANGED <<ids, list, next, rank, fd, sets, leaked, lost>>
      /\ handler' = [handler EXCEPT !.loaded = FALSE]
      /\ th' = [th EXCEPT ![t] = Dropping(th[t], Tail(th[t].drop), th[t].then)]
  BY DEF DropUnload, At
<1>1. /\ Books /\ Referenced /\ Typed /\ Owned /\ ThreadOk(th[t]) /\ th[t].new = NoRank
      /\ handler \in [loaded : BOOLEAN, refcount : Nat] /\ leaked \in Nat
  BY <1>0, FreeingFacts DEF Freeing
<1>2. /\ StepBy(t) /\ ThreadOk(th'[t]) /\ th'[t].pc \in {"drop", "return", "disable"} /\ th'[t].new = NoRank
      /\ Own(th'[t]) = Own(th[t])
  BY <1>0, Dropped
<1>3. RanksSame
  BY <1>0, <1>1, RanksSameFacts
<1>4. Plainly(t)
  BY <1>0, <1>1, <1>2 DEF Plainly, StageSame
<1>5. handler' \in [loaded : BOOLEAN, refcount : Nat] /\ handler'.refcount = handler.refcount /\ handler.refcount = 0
  BY <1>0, <1>1 DEF Referenced, LoadInv
<1>6. Books' /\ Counted' = Counted
  BY <1>0, <1>1, <1>3, <1>4, <1>5, BooksKept
<1>8. \A u \in Threads \ {t} : th'[u].pc = th[u].pc /\ th'[u].call = th[u].call
  BY <1>2 DEF StepBy, Alike
<1>9. Probing' = Probing
  BY <1>0, <1>2 DEF Probing, StepBy, Alike
<1>10. RefInv'
  BY <1>0, <1>1, <1>5, <1>6, <1>9 DEF Referenced, RefInv
<1>11. LoadInv'
  BY <1>0, <1>1, <1>2, <1>5, <1>8 DEF LoadInv, Referenced
<1> QED BY <1>6, <1>10, <1>11 DEF Inv, Books

-----------------------------------------------------------------------------
(* The invariant holds.                                                    *)

LEMMA InvInit == Init => Inv
<1> SUFFICES ASSUME Init PROVE Inv
  OBVIOUS
<1>1. /\ leaked \in Nat /\ handler = [loaded |-> leaked > 0, refcount |-> leaked] /\ ids = {} /\ sets = {}
      /\ list = <<NoRank>> /\ next = 1 /\ rank = [o \in Objects |-> Unused] /\ fd = [h \in HwRanks |-> NoRank]
      /\ th = [t \in Threads |-> Idle] /\ lost = {}
  BY SetAllocAssumption DEF Init
<1>2. /\ DOMAIN Idle = ThreadFields /\ Idle.pc = "idle" /\ Idle.cur = <<>> /\ Idle.drop = <<>>
      /\ Idle.new = NoRank /\ Idle.call.kind = "none"
  BY DEF Idle, ThreadFields
<1>3. ThreadOk(Idle)
  BY <1>2, EmptyFacts DEF ThreadOk, Points, Early, Late, Freeing
<1>4. Own(Idle) = {}
  BY <1>2, <1>3, OwnAt DEF Settled, Freeing
<1>5. \A t \in Threads : th[t] = Idle
  BY <1>1
<1>6. \A o \in Objects : ~rank[o].live
  BY <1>1 DEF Unused
<1>7. RanksOk
  BY <1>1 DEF RanksOk, Unused, RankFields
<1>8. list \in Seq(Objects \cup {NoRank}) /\ Len(list) = 1 /\ list[1] = NoRank /\ next \in 1 .. Len(list)
  BY <1>1
<1>9. handler \in [loaded : BOOLEAN, refcount : Nat] /\ handler.refcount = leaked /\ handler.loaded = (leaked > 0)
  BY <1>1
<1>10. fd \in [HwRanks -> Objects \cup {NoRank}] /\ \A h \in HwRanks : fd[h] = NoRank
  BY <1>1
<1>11. DOMAIN th = Threads /\ SetsOk /\ ids \subseteq 0 .. (MAX_NUMBER_OF_RANKS - 1)
  BY <1>1 DEF SetsOk
<1>12. Typed
  BY <1>1, <1>3, <1>5, <1>7, <1>8, <1>9, <1>10, <1>11 DEF Typed
<1>13. Held = {} /\ \A P : Ready(P) = {}
  BY <1>1, <1>6 DEF Held, Ready
<1>14. Owned
  BY <1>1, <1>4, <1>5, <1>6, <1>13 DEF Owned
<1>15. Counted = {} /\ Named = {} /\ Opened = {} /\ Shown = {} /\ Probing = {}
  BY <1>2, <1>5, <1>13 DEF Counted, Named, Opened, Shown, Probing
<1>16. IdsInv /\ FdInv
  BY <1>1, <1>10, <1>15 DEF IdsInv, FdInv
<1>17. ListInv
  <2>1. \A i \in 1 .. Len(list) : i = 1 /\ list[i] \notin Objects
    BY <1>8, NoRankIsNone
  <2> QED BY <1>1, <1>8, <1>15, <2>1 DEF ListInv
<1>18. RefInv
  BY <1>1, <1>9, <1>15, FS_EmptySet DEF RefInv
<1>19. LoadInv
  BY <1>1, <1>2, <1>5, <1>9 DEF LoadInv
<1> QED BY <1>12, <1>14, <1>16, <1>17, <1>18, <1>19 DEF Inv

LEMMA StutterKeeps ==
  ASSUME Inv, UNCHANGED vars
  PROVE  Inv'
<1>1. /\ handler' = handler /\ ids' = ids /\ list' = list /\ next' = next /\ rank' = rank /\ fd' = fd
      /\ sets' = sets /\ th' = th /\ leaked' = leaked /\ lost' = lost
  BY DEF vars
<1>2. Held' = Held /\ Probing' = Probing
  BY <1>1 DEF Held, Probing
<1>3. Counted' = Counted /\ Named' = Named /\ Opened' = Opened
  BY <1>1 DEF Counted, Named, Opened, Ready, Past
<1>4. Shown' = Shown
  BY <1>1 DEF Shown, Ready, Past
<1>5. Typed'
  BY <1>1 DEF Inv, Typed, RanksOk, SetsOk
<1>6. Owned'
  BY <1>1, <1>2 DEF Inv, Owned
<1>7. IdsInv' /\ FdInv' /\ ListInv'
  BY <1>1, <1>3, <1>4 DEF Inv, IdsInv, FdInv, ListInv
<1>8. RefInv' /\ LoadInv'
  BY <1>1, <1>2, <1>3 DEF Inv, RefInv, LoadInv
<1> QED BY <1>5, <1>6, <1>7, <1>8 DEF Inv

\* What the program does after SPOILED is undefined: nothing is said of it.
LEMMA SpoiledStays ==
  ASSUME spoiled, [Next]_vars
  PROVE  spoiled'
<1>1. CASE UNCHANGED vars \/ Quiet \/ Gone
  BY <1>1 DEF vars, Quiet, Gone
<1>2. ASSUME NEW t \in Threads, (\E k \in Calls : Begin(t, k)) \/ \E s \in sets : dpu_free(t, s)
      PROVE  spoiled'
  BY <1>2 DEF Begin, dpu_free
<1>3. ASSUME NEW t \in Threads,
             \/ NewRank(t) \/ dpu_rank_handler_instantiate(t) \/ dpu_rank_handler_get(t) \/ Query(t)
             \/ dpu_rank_handler_put(t) \/ dpu_rank_handler_free(t)
      PROVE  spoiled'
  BY <1>3 DEF NewRank, dpu_rank_handler_instantiate, dpu_rank_handler_get, Query, dpu_rank_handler_put, dpu_rank_handler_free
<1>4. ASSUME NEW t \in Threads,
             \/ dpu_get_profile_description(t) \/ FillDescription(t) \/ hw_allocate(t) \/ dpu_rank_list_add(t)
             \/ NoMoreRanks(t) \/ Trim(t)
      PROVE  spoiled'
  BY <1>4 DEF dpu_get_profile_description, FillDescription, hw_allocate, dpu_rank_list_add, NoMoreRanks, Trim
<1>5. ASSUME NEW t \in Threads, Configure(t)
      PROVE  spoiled'
  BY <1>5 DEF Configure
<1>6. ASSUME NEW t \in Threads,
             \/ DisableUnused(t) \/ init_dpu_set(t) \/ init_scatter_gather_transfer_buffer(t)
             \/ dpu_rank_list_remove(t) \/ hw_free(t) \/ FreeNumber(t) \/ dpu_free_rank(t) \/ DropUnload(t) \/ Return(t)
      PROVE  spoiled'
  BY <1>6 DEF DisableUnused, init_dpu_set, init_scatter_gather_transfer_buffer, dpu_rank_list_remove, hw_free, FreeNumber,
              dpu_free_rank, DropUnload, Return
<1> QED BY <1>1, <1>2, <1>3, <1>4, <1>5, <1>6 DEF Next

LEMMA InvNext ==
  ASSUME Inv, [Next]_vars, ~spoiled'
  PROVE  Inv'
<1>1. CASE UNCHANGED vars
  BY <1>1, StutterKeeps
<1>2. CASE Quiet \/ Gone
  BY <1>2, StutterKeeps DEF Quiet, Gone
<1>3. ASSUME NEW t \in Threads, NEW k \in Calls, Begin(t, k) PROVE Inv'
  BY <1>3, BeginKeeps
<1>4. ASSUME NEW t \in Threads, NEW s \in sets, dpu_free(t, s) PROVE Inv'
  BY <1>4, FreeKeeps
<1>5. ASSUME NEW t \in Threads,
             \/ NewRank(t) \/ dpu_rank_handler_instantiate(t) \/ dpu_rank_handler_get(t) \/ Query(t)
             \/ dpu_rank_handler_put(t) \/ dpu_rank_handler_free(t)
      PROVE  Inv'
  BY <1>5, NewRankKeeps, InstantiateKeeps, GetKeeps, QueryKeeps, PutKeeps, UnloadKeeps
<1>6. ASSUME NEW t \in Threads,
             \/ dpu_get_profile_description(t) \/ FillDescription(t) \/ hw_allocate(t) \/ dpu_rank_list_add(t)
             \/ Configure(t) \/ NoMoreRanks(t) \/ Trim(t)
      PROVE  Inv'
  BY <1>6, DescriptionKeeps, FillDescriptionKeeps, HwAllocateKeeps, ListAddKeeps, ConfigureKeeps, NoMoreRanksKeeps, TrimKeeps
<1>7. ASSUME NEW t \in Threads,
             \/ DisableUnused(t) \/ init_dpu_set(t) \/ init_scatter_gather_transfer_buffer(t)
             \/ dpu_rank_list_remove(t) \/ hw_free(t) \/ FreeNumber(t) \/ dpu_free_rank(t) \/ DropUnload(t) \/ Return(t)
      PROVE  Inv'
  BY <1>7, DisableUnusedKeeps, InitSetKeeps, ScatterGatherKeeps, ListRemoveKeeps, HwFreeKeeps,
     FreeNumberKeeps, FreeRankKeeps, DropUnloadKeeps, ReturnKeeps
<1> QED BY <1>1, <1>2, <1>3, <1>4, <1>5, <1>6, <1>7 DEF Next

THEOREM InvHolds == Spec => [](spoiled \/ Inv)
<1>1. (spoiled \/ Inv) /\ [Next]_vars => (spoiled \/ Inv)'
  BY InvNext, SpoiledStays
<1>2. Init => spoiled \/ Inv
  BY InvInit
<1> QED BY <1>1, <1>2, PTL DEF Spec

-----------------------------------------------------------------------------
(* What the invariant says of the handler and of the ranks.                *)

LEMMA InvLoaded ==
  ASSUME Inv
  PROVE  HandlerLoaded
<1>1. Referenced /\ leaked \in Nat /\ handler \in [loaded : BOOLEAN, refcount : Nat]
  BY DEF Inv, Referenced, Typed
<1> SUFFICES ASSUME NEW t \in Threads, th[t].pc \in {"query", "fill", "open", "close"} PROVE handler.loaded
  BY DEF HandlerLoaded, Calling
<1>2. handler.refcount > 0 => handler.loaded
  BY <1>1 DEF Referenced, LoadInv
<1>3. CASE th[t].pc = "query"
  <2>1. t \in Probing
    BY <1>3 DEF Probing
  <2>2. Cardinality(Probing) # 0
    BY <2>1, ReadyFinite, FS_EmptySet
  <2> QED BY <1>1, <1>2, <2>2, ReadyFinite DEF Referenced, RefInv
<1>4. CASE th[t].pc \in {"fill", "open"} /\ th[t].call.kind # "describe"
  BY <1>4, LateFacts
<1>5. CASE th[t].pc = "fill" /\ th[t].call.kind = "describe"
  <2>1. leaked > 0
    BY <1>1, <1>5 DEF Referenced, LoadInv
  <2> QED BY <1>1, <1>2, <2>1, ReadyFinite DEF Referenced, RefInv
<1>6. CASE th[t].pc = "open" /\ th[t].call.kind = "describe"
  BY <1>6 DEF Inv, Typed, ThreadOk
<1>7. CASE th[t].pc = "close"
  <2>1. Head(th[t].drop) \in Counted
    BY <1>7, FreeingFacts DEF Freeing, Counted
  <2>2. Cardinality(Counted) # 0
    BY <2>1, ReadyFinite, FS_EmptySet
  <2> QED BY <1>1, <1>2, <2>2, ReadyFinite DEF Referenced, RefInv
<1> QED BY <1>3, <1>4, <1>5, <1>6, <1>7

\* When no call is in progress, the ranks are those of the sets.
LEMMA AllIdle ==
  ASSUME Inv, \A t \in Threads : At(t, "idle")
  PROVE  /\ {o \in Objects : rank[o].live} = Held /\ Held \subseteq Objects
         /\ Counted = Held /\ Named = Held /\ Opened = Held /\ Shown = Held /\ Probing = {}
<1>1. Typed /\ Owned /\ SetsOk /\ lost \subseteq Objects /\ \A t \in Threads : ThreadOk(th[t]) /\ th[t].pc = "idle"
  BY DEF Inv, Typed, At
<1>2. \A t \in Threads : th[t].new = NoRank
  BY <1>1 DEF ThreadOk, Early, Late
<1>3. \A t \in Threads : Own(th[t]) = {}
  <2>1. \A t \in Threads : th[t].cur = <<>> /\ th[t].pc \notin Freeing
    BY <1>1 DEF ThreadOk, Freeing
  <2> QED BY <1>1, <1>2, <2>1, OwnAt
<1>4. Held \subseteq Objects
  BY <1>1, RangeInside DEF SetsOk, Held
<1>5. {o \in Objects : rank[o].live} = Held
  BY <1>1, <1>3, <1>4 DEF Owned
<1>6. \A P : Ready(P) = Held
  <2>1. \A o \in Objects, t \in Threads : th[t].new # o
    BY <1>2, NoRankIsNone
  <2> QED BY <1>5, <2>1 DEF Ready
<1>7. Probing = {} /\ \A P : "idle" \notin P => Past(P) = {}
  BY <1>1 DEF Past, Probing
<1>8. Past({"giveback"}) = {} /\ Past({"release", "giveback"}) = {} /\ Past({"close", "release", "giveback"}) = {}
  BY <1>7
<1> QED BY <1>4, <1>5, <1>6, <1>7, <1>8 DEF Counted, Named, Opened, Shown

LEMMA InvAccounted ==
  ASSUME Inv
  PROVE  RanksAccounted
<1>1. /\ Typed /\ IdsInv /\ FdInv /\ ListInv /\ RefInv /\ leaked \in Nat
      /\ list \in Seq(Objects \cup {NoRank}) /\ DOMAIN list = 1 .. Len(list) /\ fd \in [HwRanks -> Objects \cup {NoRank}]
  BY SeqDomain DEF Inv, Typed
<1>2. \A i \in DOMAIN list : list[i] \in Objects \cup {NoRank}
  BY <1>1
<1>3. ASSUME NEW i \in Listed
      PROVE  list[i] \in Shown /\ rank[list[i]].live /\ list[i] \in Opened /\ list[i] \in Named
  <2>1. list[i] \in Shown
    BY <1>1, <1>2 DEF Listed, ListInv
  <2> QED BY <2>1 DEF Shown, Ready, Opened, Named, Past
<1>4. ASSUME NEW i \in Listed
      PROVE  /\ rank[list[i]].live /\ fd[rank[list[i]].hw] = list[i]
             /\ \A j \in Listed \ {i} : list[j] # list[i] /\ rank[list[j]].id # rank[list[i]].id
  <2>1. \A j \in Listed \ {i} : list[j] # list[i]
    BY <1>1 DEF ListInv, Listed
  <2>2. \A j \in Listed \ {i} : rank[list[j]].id # rank[list[i]].id
    BY <1>1, <1>3, <2>1 DEF IdsInv
  <2> QED BY <1>1, <1>3, <2>1, <2>2 DEF FdInv
<1>5. ASSUME \A t \in Threads : At(t, "idle")
      PROVE  Balanced
  <2>1. /\ {o \in Objects : rank[o].live} = Held /\ Held \subseteq Objects
        /\ Counted = Held /\ Named = Held /\ Opened = Held /\ Shown = Held /\ Probing = {}
    BY <1>5, AllIdle
  <2>2. {fd[h] : h \in HwRanks} \ {NoRank} = Held
    <3>1. \A h \in HwRanks : fd[h] # NoRank => fd[h] \in Held
      BY <1>1, <2>1 DEF FdInv
    <3>2. \A o \in Held : o # NoRank /\ \E h \in HwRanks : fd[h] = o
      BY <1>1, <2>1, NoRankIsNone DEF FdInv
    <3> QED BY <3>1, <3>2
  <2>3. Range(list) \ {NoRank} = Held
    <3>1. \A i \in DOMAIN list : list[i] # NoRank => list[i] \in Held
      BY <1>1, <1>2, <2>1 DEF ListInv
    <3>2. \A o \in Held : o # NoRank /\ \E i \in DOMAIN list : list[i] = o
      BY <1>1, <2>1, NoRankIsNone DEF ListInv
    <3> QED BY <3>1, <3>2 DEF Range
  <2>4. handler.refcount = leaked + Cardinality(Held)
    BY <1>1, <2>1, ReadyFinite, FS_EmptySet DEF RefInv
  <2> QED BY <1>1, <2>1, <2>2, <2>3, <2>4 DEF IdsInv, Balanced
<1> QED BY <1>1, <1>4, <1>5 DEF RanksAccounted, ListExact, ListInv

\* A thread that calls through the rank handler finds its library loaded:
\* dpu_rank_handler_put of one call never unloads it under another one, however
\* the calls overlap, as long as no dpu_rank_handler_get has come after the put
\* that let the handler go (SPOILED).
THEOREM HandlerLoadedHolds == Spec => []HandlerLoaded
<1>1. spoiled \/ Inv => HandlerLoaded
  BY InvLoaded DEF HandlerLoaded
<1> QED BY <1>1, InvHolds, PTL

\* dpu_alloc, dpu_get_rank_of_type, dpu_free_rank and their error paths give
\* back the numbers, devices, places in the list and references they took, but
\* for the ranks that dpu_alloc_ranks loses and up to SPOILED: whichever step
\* fails, however many ranks and threads there are.
THEOREM RanksAccountedHolds == Spec => []RanksAccounted
<1>1. spoiled \/ Inv => RanksAccounted
  BY InvAccounted DEF RanksAccounted
<1> QED BY <1>1, InvHolds, PTL
===============================================================================
