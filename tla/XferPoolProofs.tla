---------------------------- MODULE XferPoolProofs ----------------------------
(* Proofs about the transfer threads, for any number of ranks, pools, threads *)
(* and lines, and any transfers: the lines that a transfer accesses hold one  *)
(* word each (WordsApart), and the pools implement MramXfer                   *)
(* (PoolImplementsXfer).                                                      *)
EXTENDS XferPool, FiniteSetTheorems, TLAPS


-----------------------------------------------------------------------------
\* The fields of an offset: bits 22 and up, 21..15, 14, and 13..0.
High(k) == k \div 4194304
Middle(k) == (k \div 32768) % 128
Bit14(k) == (k \div 16384) % 2
Low(k) == k % 16384

\* The widths of the four fields, and the numbers they make up before and
\* after the translation.
InWidth(h, b, p, l) ==
  /\ h \in Int /\ b \in Int /\ p \in Int /\ l \in Int
  /\ 0 <= h /\ 0 <= b /\ b < 2 /\ 0 <= p /\ p < 128 /\ 0 <= l /\ l < 16384
Offset(h, b, p, l) == 4194304 * h + 32768 * p + 16384 * b + l
Translated(h, b, p, l) == 4194304 * h + 2097152 * b + 16384 * p + l

\* An offset is made of its four fields: bits 13..0, 14, 21..15 and the rest.
LEMMA FieldsOfOffset ==
  ASSUME NEW k \in Nat
  PROVE  /\ InWidth(High(k), Bit14(k), Middle(k), Low(k))
         /\ k = Offset(High(k), Bit14(k), Middle(k), Low(k))
<1>1. InWidth(High(k), Bit14(k), Middle(k), Low(k))
  BY SMT DEF InWidth, High, Middle, Bit14, Low
<1>2. k = Offset(High(k), Bit14(k), Middle(k), Low(k))
  BY SMT DEF Offset, High, Middle, Bit14, Low
<1> QED BY <1>1, <1>2

\* The translation moves bit 14 above bits 21..15 and touches no other.
LEMMA TranslationMovesBits ==
  ASSUME NEW k \in Nat
  PROVE  apply_address_translation_on_mram_offset(k) = Translated(High(k), Bit14(k), Middle(k), Low(k))
BY SMT DEF apply_address_translation_on_mram_offset, Translated, High, Middle, Bit14, Low

\* The four fields of a translated offset can be told apart.
LEMMA FieldsDetermined ==
  ASSUME NEW h, NEW b, NEW p, NEW l, NEW i, NEW c, NEW q, NEW o,
         InWidth(h, b, p, l), InWidth(i, c, q, o),
         Translated(h, b, p, l) = Translated(i, c, q, o)
  PROVE  h = i /\ b = c /\ p = q /\ l = o
<1>1. h = i
  BY SMT DEF InWidth, Translated
<1>2. b = c
  BY <1>1, SMT DEF InWidth, Translated
<1>3. p = q
  BY <1>1, <1>2, SMT DEF InWidth, Translated
<1> QED BY <1>1, <1>2, <1>3, SMT DEF InWidth, Translated

\* The translation permutes the bits of an offset: it loses none of them.
LEMMA TranslationInjective ==
  ASSUME NEW m \in Nat, NEW n \in Nat,
         apply_address_translation_on_mram_offset(m) = apply_address_translation_on_mram_offset(n)
  PROVE  m = n
<1>1. High(m) = High(n) /\ Bit14(m) = Bit14(n) /\ Middle(m) = Middle(n) /\ Low(m) = Low(n)
  BY FieldsOfOffset, TranslationMovesBits, FieldsDetermined
<1> QED BY <1>1, FieldsOfOffset

\* A word stays a word: its address keeps the three lowest bits.
LEMMA TranslationAligned ==
  ASSUME NEW m \in Nat, m % 8 = 0
  PROVE  /\ apply_address_translation_on_mram_offset(m) \in Nat
         /\ apply_address_translation_on_mram_offset(m) % 8 = 0
<1>1. ASSUME NEW h, NEW b, NEW p, NEW l, InWidth(h, b, p, l), Offset(h, b, p, l) % 8 = 0
      PROVE  Translated(h, b, p, l) \in Nat /\ Translated(h, b, p, l) % 8 = 0
  BY <1>1, SMT DEF InWidth, Offset, Translated
<1> QED BY <1>1, FieldsOfOffset, TranslationMovesBits

-----------------------------------------------------------------------------
\* Word w of a bank and its place: chunks of 1024 words, each word in the first
\* half of a line of 128 bytes.
Spread(w) == ((128 * w) % 131072) + ((128 * w) \div 131072) * 1048576

\* Spreading keeps a word inside the lines of its chunk.
LEMMA SpreadPlaces ==
  ASSUME NEW w \in Nat
  PROVE  Spread(w) \in Nat /\ Spread(w) % 128 = 0 /\ (Spread(w) % 1048576) < 131072
BY SMT DEF Spread

\* Spreading keeps different words on different lines.
LEMMA SpreadInjective ==
  ASSUME NEW v \in Nat, NEW w \in Nat, Spread(v) = Spread(w)
  PROVE  v = w
BY SMT DEF Spread

\* The offset of a word in its bank is its translated address, spread.
LEMMA WordOffsetIsSpread ==
  ASSUME NEW m \in Nat, m % 8 = 0
  PROVE  LET w == apply_address_translation_on_mram_offset(m) \div 8
         IN  w \in Nat /\ 8 * w = apply_address_translation_on_mram_offset(m) /\ WordOffset(m) = Spread(w)
<1> DEFINE a == apply_address_translation_on_mram_offset(m)
<1>1. a \in Nat /\ a % 8 = 0
  BY TranslationAligned
<1>2. WordOffset(m) = ((16 * ((a \div 8) * 8)) % 131072) + ((16 * ((a \div 8) * 8)) \div 131072) * 1048576
  BY DEF WordOffset, BANK_CHUNK_SIZE, BANK_NEXT_CHUNK_OFFSET
<1>3. a \div 8 \in Nat /\ 8 * (a \div 8) = a
  <2> HIDE DEF a
  <2> QED BY <1>1, SMT
<1> HIDE DEF a
<1>4. 16 * ((a \div 8) * 8) = 128 * (a \div 8)
  BY <1>3, SMT
<1> QED BY <1>2, <1>3, <1>4 DEF Spread, a

\* The offset of a word in its bank determines the word.
LEMMA WordOffsetInjective ==
  ASSUME NEW m \in Nat, NEW n \in Nat, m % 8 = 0, n % 8 = 0, WordOffset(m) = WordOffset(n)
  PROVE  m = n
<1> DEFINE v == apply_address_translation_on_mram_offset(m) \div 8
           w == apply_address_translation_on_mram_offset(n) \div 8
<1>1. /\ v \in Nat /\ 8 * v = apply_address_translation_on_mram_offset(m) /\ WordOffset(m) = Spread(v)
      /\ w \in Nat /\ 8 * w = apply_address_translation_on_mram_offset(n) /\ WordOffset(n) = Spread(w)
  BY WordOffsetIsSpread
<1>2. v = w
  <2> HIDE DEF v, w
  <2> QED BY <1>1, SpreadInjective
<1> QED BY <1>1, <1>2, TranslationInjective

\* Where in a bank words are: whole lines, out of the way of the second DPU.
LEMMA WordOffsetPlaces ==
  ASSUME NEW m \in Nat, m % 8 = 0
  PROVE  WordOffset(m) \in Nat /\ WordOffset(m) % 128 = 0 /\ (WordOffset(m) % 1048576) < 131072
BY WordOffsetIsSpread, SpreadPlaces

\* Adding the start of a bank to such an offset: the line it gives is not one
\* of a control interface, and tells the DPU and the offset.
LEMMA BankApart ==
  ASSUME NEW d \in 0 .. 7, NEW x \in Nat, x % 128 = 0, (x % 1048576) < 131072
  PROVE  /\ (BankStart(d) + x) % 64 = 0
         /\ BankStart(d) + x \notin {CI_WRITE_LINE, CI_READ_LINE}
BY SMT DEF BankStart, CI_WRITE_LINE, CI_READ_LINE

\* The start of a bank tells the DPU it belongs to.
LEMMA BankDetermined ==
  ASSUME NEW d \in 0 .. 7, NEW x \in Nat, x % 128 = 0, (x % 1048576) < 131072,
         NEW e \in 0 .. 7, NEW y \in Nat, y % 128 = 0, (y % 1048576) < 131072,
         BankStart(d) + x = BankStart(e) + y
  PROVE  d = e /\ x = y
BY SMT DEF BankStart

\* Two words of the MRAMs of a rank never share a line, whatever their DPUs.
THEOREM LineAddressInjective ==
  ASSUME NEW d \in 0 .. 7, NEW m \in Nat, m % 8 = 0,
         NEW e \in 0 .. 7, NEW n \in Nat, n % 8 = 0,
         LineAddress(d, m) = LineAddress(e, n)
  PROVE  d = e /\ m = n
BY WordOffsetPlaces, BankDetermined, WordOffsetInjective DEF LineAddress

-----------------------------------------------------------------------------
\* A caller inside a transfer has the request it was made with.
Requested == \A r \in Ranks : pc[r] \in {"lock", "first", "second"} => req[r] \in Transfers
Points == {"down", "up", "lock", "first", "second", "release", "destroy", "join", "undefined"}
Shape == pc \in [Ranks -> Points] /\ req \in [Ranks -> Transfers \cup {NoXfer}]
WordsInv == Shape /\ Requested

\* No transfer is asked for at the start.
LEMMA WordsInit == Init => WordsInv
BY DEF Init, WordsInv, Shape, Requested, Points

\* Every step of the callers, the barrier and the threads keeps the requests.
LEMMA WordsNext == WordsInv /\ [Next]_vars => WordsInv'
<1> SUFFICES ASSUME WordsInv, [Next]_vars PROVE WordsInv'
  OBVIOUS
<1> USE DEF WordsInv, Shape, Requested, Points
<1>1. ASSUME NEW r \in Ranks, xeon_sp_init_rank(r) PROVE WordsInv'
  BY <1>1 DEF xeon_sp_init_rank
<1>2. ASSUME NEW r \in Ranks, InitFails(r) PROVE WordsInv'
  BY <1>2 DEF InitFails
<1>3. ASSUME NEW r \in Ranks, xeon_sp_destroy_rank(r) PROVE WordsInv'
  BY <1>3 DEF xeon_sp_destroy_rank
<1>4. ASSUME NEW r \in Ranks, Joined(r) PROVE WordsInv'
  BY <1>4 DEF Joined
<1>5. ASSUME NEW r \in Ranks, NEW x \in Transfers, CallXfer(r, x) PROVE WordsInv'
  BY <1>5 DEF CallXfer
<1>6. ASSUME NEW r \in Ranks, xeon_sp_init_and_do_xfer(r) PROVE WordsInv'
  BY <1>6 DEF xeon_sp_init_and_do_xfer
<1>7. ASSUME NEW r \in Ranks, xeon_sp_release_pool(r) PROVE WordsInv'
  BY <1>7 DEF xeon_sp_release_pool
<1>8. ASSUME NEW p \in Pools, Barrier(p) PROVE WordsInv'
  BY <1>8 DEF Barrier, CallerReleased
<1>9. ASSUME NEW p \in Pools, NEW t \in Threads, thread_mram(p, t) PROVE WordsInv'
  BY <1>9 DEF thread_mram, Wait, Start, Line
<1>10. ASSUME NEW r \in Ranks, InitUndefined(r) PROVE WordsInv'
  BY <1>10 DEF InitUndefined
<1>11. CASE UNCHANGED vars
  BY <1>11 DEF vars
<1> QED
  BY <1>1, <1>2, <1>3, <1>4, <1>5, <1>6, <1>7, <1>8, <1>9, <1>10, <1>11 DEF Next

\* The words of a transfer are words of the MRAMs.
LEMMA WordsAreWords ==
  ASSUME NEW x \in Transfers, NEW w \in Words(x)
  PROVE  w[1] \in 0 .. 7 /\ w[2] \in Nat /\ w[2] % 8 = 0 /\ w = <<w[1], w[2]>>
<1>1. /\ x.lines \subseteq 0 .. 7 /\ x.offset \in Nat /\ x.offset % 8 = 0
  BY TransfersAssumption, NrDpusPerCiAssumption
<1>2. PICK l \in x.lines, o \in {x.offset + 8 * i : i \in 0 .. ((x.size \div 8) - 1)} : w = <<l, o>>
  BY DEF Words
<1>3. PICK i \in 0 .. ((x.size \div 8) - 1) : o = x.offset + 8 * i
  BY <1>2
<1>4. x.size \div 8 \in Int
  BY TransfersAssumption
<1>5. o \in Nat /\ o % 8 = 0
  BY <1>1, <1>3, <1>4, SMT
<1> QED BY <1>1, <1>2, <1>5

\* A requested transfer has its words apart.
LEMMA WordsInvApart == WordsInv => LinesApart
<1> SUFFICES ASSUME WordsInv, NEW r \in Ranks, pc[r] \in {"first", "second"},
                    NEW i \in Words(req[r]), NEW j \in Words(req[r])
             PROVE  /\ LineAddress(i[1], i[2]) % 64 = 0
                    /\ LineAddress(i[1], i[2]) \notin {CI_WRITE_LINE, CI_READ_LINE}
                    /\ LineAddress(i[1], i[2]) = LineAddress(j[1], j[2]) => i = j
  BY DEF LinesApart
<1>1. req[r] \in Transfers
  BY DEF WordsInv, Requested
<1>2. /\ i[1] \in 0 .. 7 /\ i[2] \in Nat /\ i[2] % 8 = 0 /\ i = <<i[1], i[2]>>
      /\ j[1] \in 0 .. 7 /\ j[2] \in Nat /\ j[2] % 8 = 0 /\ j = <<j[1], j[2]>>
  BY <1>1, WordsAreWords
<1>3. /\ LineAddress(i[1], i[2]) % 64 = 0
      /\ LineAddress(i[1], i[2]) \notin {CI_WRITE_LINE, CI_READ_LINE}
  BY <1>2, WordOffsetPlaces, BankApart DEF LineAddress
<1>4. LineAddress(i[1], i[2]) = LineAddress(j[1], j[2]) => i[1] = j[1] /\ i[2] = j[2]
  BY <1>2, LineAddressInjective
<1> QED BY <1>2, <1>3, <1>4

\* Whatever is transferred, by however many threads and ranks, the lines that
\* are written and read belong to one word each and to no control interface.
THEOREM WordsApart == Spec => []LinesApart
<1>1. Init => WordsInv
  BY WordsInit
<1>2. WordsInv /\ [Next]_vars => WordsInv'
  BY WordsNext
<1>3. WordsInv => LinesApart
  BY WordsInvApart
<1> QED BY <1>1, <1>2, <1>3, PTL DEF Spec


-----------------------------------------------------------------------------
(* The inductive invariant.                                                   *)

WorkerPoints == {"none", "loop", "first", "go", "work", "done", "second", "ended"}
CallerPoints == {"down", "up", "lock", "first", "second", "release", "destroy", "join"}
WorkerStates == [pc : WorkerPoints, next : 0 .. NrDpusPerCi, stop : 0 .. NrDpusPerCi,
                 matrix : Ranks \cup {NoRank}]
PoolStates == [tr : Ranks \cup {NoRank}, nb_dpus_per_ci : {0, NrDpusPerCi}, nb_threads : 0 .. 8,
               for_xfer : 0 .. 8, stop_thread : BOOLEAN]

\* The ranks of a pool, those whose opening it counts, and whether one of their
\* callers is at one of some points.
RanksOf(p) == {r \in Ranks : PoolOf(r) = p}
Users(p) == {r \in RanksOf(p) : pc[r] \notin {"down", "destroy", "join"}}
HasCaller(p, points) == \E r \in RanksOf(p) : pc[r] \in points

\* The types, of the broken pools too.
Typed ==
  /\ nb_region_per_channel \in [Pools -> Int]
  /\ pool \in [Pools -> PoolStates]
  /\ \A p \in Pools : pool[p].tr \in RanksOf(p) \cup {NoRank}
  /\ arrived \in [Pools -> SUBSET (Threads \cup {Caller, Destroyer})]
  /\ worker \in [Pools -> [Threads -> WorkerStates]]
  /\ chan_mutex \in [Pools -> Ranks \cup {NoRank}]
  /\ ctx_mutex \in Ranks \cup {NoRank}
  /\ pc \in [Ranks -> Points]
  /\ req \in [Ranks -> Transfers \cup {NoXfer}]
  /\ moved \in [Ranks -> [Lines -> {0, 1, 2}]]
  /\ broken \subseteq Pools
  /\ Requested

\* xeon_sp_ctx.mutex is kept from the last destruction of a pool to its joins.
CtxLocked == \A r \in Ranks : pc[r] \in {"destroy", "join"} <=> ctx_mutex = r

\* What the callers of the pool do is defined, and they move no line twice.
Proper(p) == \A r \in RanksOf(p) : pc[r] \in CallerPoints /\ moved[r] \in [Lines -> {0, 1}]

\* A channel mutex is kept during a transfer; a pool that is being destroyed
\* has no user left.
Locked(p) ==
  /\ nb_region_per_channel[p] = Cardinality(Users(p))
  /\ HasCaller(p, {"destroy", "join"}) => Users(p) = {}
  /\ \A r \in RanksOf(p) : pc[r] \in {"first", "second", "release"} <=> chan_mutex[p] = r

\* What the fields of a pool in use hold.
Configured(p) ==
  \A r \in RanksOf(p) :
    /\ pc[r] # "down" => /\ pool[p].nb_threads = ThreadsPerPool(r)
                         /\ pool[p].nb_dpus_per_ci = NrDpusPerCi
                         /\ pool[p].stop_thread <=> pc[r] \in {"destroy", "join"}
    /\ pc[r] \in {"first", "second"} => /\ pool[p].tr = r
                                        /\ pool[p].for_xfer = ThreadsForXfer(r, req[r].size)
    /\ pc[r] \in {"lock", "first", "second", "release"} => req[r] \in Transfers

\* The threads of a pool are all in the same part of their loop.
InPhase(p) ==
  \A t \in Threads :
    /\ At(p, t) # "none" => t < pool[p].nb_threads
    /\ HasCaller(p, CallerPoints \ {"down"}) /\ t < pool[p].nb_threads => At(p, t) # "none"
    /\ HasCaller(p, {"second"}) => At(p, t) \in {"none", "go", "work", "done", "second"}
    /\ HasCaller(p, {"join"}) => At(p, t) \in {"none", "go", "ended"}
    /\ ~HasCaller(p, {"second", "join"}) => At(p, t) \in {"none", "loop", "first"}
    /\ ~HasCaller(p, CallerPoints \ {"down"}) => At(p, t) = "none"

\* Who waits at the barrier.
Gathered(p) ==
  arrived[p] = {t \in Threads : At(p, t) \in {"first", "second"}}
               \cup (IF HasCaller(p, {"first", "second"}) THEN {Caller}
                     ELSE IF HasCaller(p, {"destroy"}) THEN {Destroyer} ELSE {})

\* A working thread has its slice of the transfer in progress.
Slice(t, n) == SliceStart(t, n, NrDpusPerCi) .. (SliceStop(t, n, NrDpusPerCi) - 1)
Sliced(p) ==
  \A t \in Threads :
    LET w == worker[p][t]
        n == pool[p].for_xfer
    IN  w.pc = "work" =>
          /\ t < n /\ w.matrix = pool[p].tr
          /\ w.stop = SliceStop(t, n, NrDpusPerCi)
          /\ SliceStart(t, n, NrDpusPerCi) <= w.next /\ w.next <= w.stop

\* A thread has moved the lines of its slice before the next one, or all.
Passed(w, d) == w.pc \in {"done", "second"} \/ (w.pc = "work" /\ d < w.next)
Moved(p) ==
  \A r \in RanksOf(p) :
    /\ pc[r] \in {"lock", "first"} => \A d \in Lines : moved[r][d] = 0
    /\ pc[r] = "second" =>
         LET n == pool[p].for_xfer
         IN  \A t \in 0 .. (n - 1) : \A d \in Slice(t, n) :
               moved[r][d] = IF d \in Xfer!Wanted(req[r]) /\ Passed(worker[p][t], d) THEN 1 ELSE 0
    /\ pc[r] = "release" =>
         \A d \in Lines : moved[r][d] = IF d \in Xfer!Wanted(req[r]) THEN 1 ELSE 0

\* Nothing but types is promised of a pool of which a creation has failed.
PoolInv(p) ==
  /\ Proper(p) /\ Locked(p) /\ Configured(p) /\ InPhase(p) /\ Gathered(p) /\ Sliced(p)
  /\ Moved(p)
Inv == Typed /\ CtxLocked /\ \A p \in Pools \ broken : PoolInv(p)

-----------------------------------------------------------------------------
(* The slices of n threads.                                                   *)

LEMMA TimesMonotone == ASSUME NEW a \in Nat, NEW b \in Nat, NEW q \in Nat, a <= b PROVE a * q <= b * q
BY SMT

\* A transfer is shared by one to eight threads, and no more than the pool has.
LEMMA ThreadsForXferRange ==
  ASSUME NEW r \in Ranks, NEW size \in Nat
  PROVE  /\ ThreadsPerPool(r) \in 1 .. 8
         /\ ThreadsForXfer(r, size) \in 1 .. ThreadsPerPool(r)
<1>1. ThreadsPerPool(r) \in 1 .. 8
  BY ConfAssumption, SMT DEF ThreadsPerPool, DPU_XFER_THREAD_CONF_DEFAULT, MAX_THREAD_PER_POOL
<1>2. /\ Threshold(r, "threshold_1_thread", 1024) \in Nat
      /\ Threshold(r, "threshold_2_threads", 2048) \in Nat
      /\ Threshold(r, "threshold_4_threads", 32768) \in Nat
  BY ConfAssumption DEF Threshold, DPU_XFER_THREAD_CONF_DEFAULT
<1> QED BY <1>1, <1>2, SMT DEF ThreadsForXfer

\* A slice is made of lines.
LEMMA SliceBounds ==
  ASSUME NEW n \in 1 .. 8, NEW t \in 0 .. (n - 1)
  PROVE  /\ SliceStart(t, n, NrDpusPerCi) \in Nat /\ SliceStop(t, n, NrDpusPerCi) \in Nat
         /\ SliceStart(t, n, NrDpusPerCi) <= SliceStop(t, n, NrDpusPerCi)
         /\ SliceStop(t, n, NrDpusPerCi) <= NrDpusPerCi
         /\ Slice(t, n) \subseteq Lines
<1> DEFINE q == NrDpusPerCi \div n
<1>1. NrDpusPerCi \in Nat
  BY NrDpusPerCiAssumption
<1>2. q \in Nat /\ n * q <= NrDpusPerCi
  BY <1>1, SMT
<1>3. SliceStart(t, n, NrDpusPerCi) = t * q
  BY DEF SliceStart
<1>4. SliceStop(t, n, NrDpusPerCi) = IF t = n - 1 THEN NrDpusPerCi ELSE (t + 1) * q
  BY DEF SliceStop
<1> HIDE DEF q
<1>5. t * q <= n * q /\ t * q <= (t + 1) * q /\ (t + 1) * q <= n * q
  BY <1>2, TimesMonotone
<1>6. t * q \in Nat /\ (t + 1) * q \in Nat /\ n * q \in Nat
  BY <1>2
<1>7. /\ SliceStart(t, n, NrDpusPerCi) \in Nat /\ SliceStop(t, n, NrDpusPerCi) \in Nat
      /\ SliceStart(t, n, NrDpusPerCi) <= SliceStop(t, n, NrDpusPerCi)
      /\ SliceStop(t, n, NrDpusPerCi) <= NrDpusPerCi
  BY <1>1, <1>2, <1>3, <1>4, <1>5, <1>6
<1> QED BY <1>1, <1>7 DEF Slice, Lines

\* No line is in two slices.
LEMMA SlicesDisjoint ==
  ASSUME NEW n \in 1 .. 8, NEW t \in 0 .. (n - 1), NEW u \in 0 .. (n - 1),
         NEW d \in Slice(t, n), d \in Slice(u, n)
  PROVE  t = u
<1> DEFINE q == NrDpusPerCi \div n
<1>1. NrDpusPerCi \in Nat
  BY NrDpusPerCiAssumption
<1>2. q \in Nat
  BY <1>1, SMT
<1>3. ASSUME NEW a \in 0 .. (n - 1), NEW b \in 0 .. (n - 1), a < b,
             d \in Slice(a, n), d \in Slice(b, n)
      PROVE  FALSE
  <2>1. SliceStop(a, n, NrDpusPerCi) = (a + 1) * q
    BY <1>3 DEF SliceStop
  <2>2. SliceStart(b, n, NrDpusPerCi) = b * q
    BY DEF SliceStart
  <2>3. d \in Int /\ d < (a + 1) * q /\ b * q <= d
    <3>1. (a + 1) * q \in Int /\ b * q \in Int
      BY <1>2
    <3>2. SliceStart(a, n, NrDpusPerCi) \in Nat /\ SliceStop(b, n, NrDpusPerCi) \in Nat
      BY SliceBounds
    <3> QED BY <3>1, <3>2, <2>1, <2>2, <1>3 DEF Slice
  <2> HIDE DEF q
  <2>4. (a + 1) * q <= b * q
    BY <1>2, <1>3, TimesMonotone
  <2>5. (a + 1) * q \in Int /\ b * q \in Int
    BY <1>2
  <2> QED BY <2>3, <2>4, <2>5
<1> QED BY <1>3

\* Every line is in a slice.
LEMMA SlicesCover ==
  ASSUME NEW n \in 1 .. 8, NEW d \in Lines
  PROVE  \E t \in 0 .. (n - 1) : d \in Slice(t, n)
<1> DEFINE q == NrDpusPerCi \div n
<1>1. NrDpusPerCi \in Nat /\ d \in Nat /\ d < NrDpusPerCi
  BY NrDpusPerCiAssumption DEF Lines
<1>2. q \in Nat
  BY <1>1, SMT
<1>3. CASE (n - 1) * q <= d
  <2>1. SliceStart(n - 1, n, NrDpusPerCi) = (n - 1) * q /\ SliceStop(n - 1, n, NrDpusPerCi) = NrDpusPerCi
    BY DEF SliceStart, SliceStop
  <2> HIDE DEF q
  <2>2. d \in Slice(n - 1, n)
    BY <1>1, <1>2, <1>3, <2>1 DEF Slice
  <2> QED BY <2>2
<1>4. CASE ~((n - 1) * q <= d)
  <2>1. PICK t \in 0 .. (n - 2) : t * q <= d /\ d < (t + 1) * q
    <3> HIDE DEF q
    <3>1. d < (n - 1) * q
      BY <1>1, <1>2, <1>4
    <3> DEFINE t == d \div q
    <3>2. q > 0
      BY <1>1, <1>2, <3>1, SMT
    <3>3. t \in Nat /\ t * q <= d /\ d < (t + 1) * q
      BY <1>1, <1>2, <3>2, SMT
    <3> HIDE DEF t
    <3>4. t < n - 1
      <4> SUFFICES ASSUME n - 1 <= t PROVE FALSE
        BY <3>3
      <4>1. (n - 1) * q <= t * q
        BY <1>2, <3>3, TimesMonotone
      <4>2. (n - 1) * q \in Int /\ t * q \in Int
        BY <1>2, <3>3
      <4> QED BY <4>1, <4>2, <3>1, <3>3, <1>1
    <3> QED BY <3>3, <3>4
  <2>2. SliceStart(t, n, NrDpusPerCi) = t * q /\ SliceStop(t, n, NrDpusPerCi) = (t + 1) * q
    BY DEF SliceStart, SliceStop
  <2> HIDE DEF q
  <2>3. d \in Slice(t, n)
    BY <1>1, <1>2, <2>1, <2>2 DEF Slice
  <2> QED BY <2>3
<1> QED BY <1>3, <1>4

-----------------------------------------------------------------------------
(* The invariant is inductive: one lemma per action. An action is about one   *)
(* pool; nothing changes for the others.                                      *)

LEMMA RanksOfPool ==
  /\ \A r \in Ranks : PoolOf(r) \in Pools /\ r \in RanksOf(PoolOf(r))
  /\ \A p \in Pools : RanksOf(p) \subseteq Ranks /\ \A r \in RanksOf(p) : PoolOf(r) = p
BY DEF Pools, RanksOf

LEMMA NoRankIsNone == NoRank \notin Ranks
BY RanksAssumption DEF NoRank

\* The users of a pool are finitely many.
LEMMA UsersFinite == \A p \in Pools : IsFiniteSet(Users(p)) /\ Cardinality(Users(p)) \in Nat
<1> SUFFICES ASSUME NEW p \in Pools PROVE IsFiniteSet(Users(p)) /\ Cardinality(Users(p)) \in Nat
  OBVIOUS
<1>1. Users(p) \subseteq Ranks
  BY RanksOfPool DEF Users
<1>2. IsFiniteSet(Users(p))
  BY <1>1, RanksAssumption, FS_Subset
<1> QED BY <1>2, FS_CardinalityType

\* Nothing of pool p changes.
Kept(p) ==
  /\ nb_region_per_channel'[p] = nb_region_per_channel[p]
  /\ pool'[p] = pool[p] /\ arrived'[p] = arrived[p]
  /\ worker'[p] = worker[p] /\ chan_mutex'[p] = chan_mutex[p]
  /\ \A r \in RanksOf(p) : pc'[r] = pc[r] /\ req'[r] = req[r] /\ moved'[r] = moved[r]

\* What is not touched stays as it is.
LEMMA KeptPool == ASSUME NEW p \in Pools, PoolInv(p), Kept(p) PROVE PoolInv(p)'
<1> USE DEF PoolInv, Kept
<1>1. Users(p)' = Users(p)
  BY DEF Users
<1>2. Locked(p)'
  BY <1>1 DEF Locked, HasCaller
<1>3. Configured(p)'
  BY DEF Configured
<1>4. InPhase(p)'
  BY DEF InPhase, HasCaller, At
<1>5. Gathered(p)'
  BY DEF Gathered, HasCaller, At
<1>6. Sliced(p)'
  BY DEF Sliced
<1>7. Moved(p)'
  BY DEF Moved
<1>8. Proper(p)'
  BY DEF Proper
<1> QED BY <1>2, <1>3, <1>4, <1>5, <1>6, <1>7, <1>8

\* A step is about one pool, or about none.
PoolStep(p) ==
  \/ \E r \in RanksOf(p) :
       \/ xeon_sp_init_rank(r) \/ InitFails(r) \/ InitUndefined(r)
       \/ xeon_sp_destroy_rank(r) \/ Joined(r)
       \/ \E x \in Transfers : CallXfer(r, x)
       \/ xeon_sp_init_and_do_xfer(r) \/ xeon_sp_release_pool(r)
  \/ Barrier(p)
  \/ \E t \in Threads : thread_mram(p, t)

LEMMA StepsOfPools == [Next]_vars => (\E p \in Pools : PoolStep(p)) \/ UNCHANGED vars
BY RanksOfPool DEF Next, PoolStep

LEMMA ElsewhereCallers ==
  ASSUME Typed, NEW p \in Pools, NEW r \in RanksOf(p), NEW o \in Pools \ {p},
         \/ xeon_sp_init_rank(r) \/ InitFails(r) \/ InitUndefined(r)
         \/ xeon_sp_destroy_rank(r) \/ Joined(r)
         \/ \E x \in Transfers : CallXfer(r, x)
         \/ xeon_sp_init_and_do_xfer(r) \/ xeon_sp_release_pool(r)
  PROVE  Kept(o)
<1> USE RanksOfPool DEF Kept, Typed
<1>1. CASE xeon_sp_init_rank(r)
  BY <1>1 DEF xeon_sp_init_rank, Created
<1>2. CASE InitFails(r)
  BY <1>2 DEF InitFails, Created
<1>3. CASE InitUndefined(r)
  BY <1>3 DEF InitUndefined
<1>4. CASE xeon_sp_destroy_rank(r)
  BY <1>4 DEF xeon_sp_destroy_rank
<1>5. CASE Joined(r)
  BY <1>5 DEF Joined
<1>6. ASSUME NEW x \in Transfers, CallXfer(r, x) PROVE Kept(o)
  BY <1>6 DEF CallXfer
<1>7. CASE xeon_sp_init_and_do_xfer(r)
  BY <1>7 DEF xeon_sp_init_and_do_xfer
<1>8. CASE xeon_sp_release_pool(r)
  BY <1>8 DEF xeon_sp_release_pool
<1> QED BY <1>1, <1>2, <1>3, <1>4, <1>5, <1>6, <1>7, <1>8

LEMMA ElsewhereThreads ==
  ASSUME Typed, NEW p \in Pools, NEW o \in Pools \ {p},
         Barrier(p) \/ \E t \in Threads : thread_mram(p, t)
  PROVE  Kept(o)
<1> USE RanksOfPool, NoRankIsNone DEF Kept, Typed
<1>1. CASE Barrier(p)
  BY <1>1 DEF Barrier
<1>2. ASSUME NEW t \in Threads, Wait(p, t) PROVE Kept(o)
  BY <1>2 DEF Wait
<1>3. ASSUME NEW t \in Threads, Start(p, t) PROVE Kept(o)
  BY <1>3 DEF Start
<1>4. ASSUME NEW t \in Threads, Line(p, t) PROVE Kept(o)
  <2>1. \A r \in Ranks : r # pool[p].tr => moved'[r] = moved[r]
    BY <1>4 DEF Line
  <2>2. \A r \in RanksOf(o) : r # pool[p].tr
    OBVIOUS
  <2>3. worker'[o] = worker[o]
    BY <1>4 DEF Line
  <2> QED BY <1>4, <2>1, <2>2, <2>3 DEF Line
<1> QED BY <1>1, <1>2, <1>3, <1>4 DEF thread_mram

LEMMA Elsewhere ==
  ASSUME Typed, NEW p \in Pools, PoolStep(p) PROVE \A o \in Pools \ {p} : Kept(o)
BY ElsewhereCallers, ElsewhereThreads DEF PoolStep

\* All pools are empty at the start.
LEMMA InvInit == Init => Inv
<1> SUFFICES ASSUME Init PROVE Inv
  OBVIOUS
<1> USE NrDpusPerCiAssumption, NoRankIsNone, RanksOfPool DEF Init
<1>1. Typed
  BY DEF Typed, Requested, Points, PoolStates, WorkerStates, WorkerPoints, Idle
<1>2. CtxLocked
  BY DEF CtxLocked
<1>3. ASSUME NEW p \in Pools PROVE PoolInv(p)
  <2>0. Proper(p)
    BY DEF Proper, CallerPoints
  <2>1. Users(p) = {}
    BY DEF Users
  <2>2. Locked(p)
    BY <2>1, FS_EmptySet DEF Locked
  <2>3. Configured(p)
    BY DEF Configured
  <2>4. InPhase(p)
    BY DEF InPhase, At, Idle, HasCaller, CallerPoints
  <2>5. Gathered(p)
    BY DEF Gathered, At, Idle, HasCaller
  <2>6. Sliced(p)
    BY DEF Sliced, Idle
  <2>7. Moved(p)
    BY DEF Moved
  <2> QED BY <2>0, <2>2, <2>3, <2>4, <2>5, <2>6, <2>7 DEF PoolInv
<1> QED BY <1>1, <1>2, <1>3 DEF Inv

\* A caller asks for a transfer: nothing of it is moved yet.
LEMMA InvCallXfer ==
  ASSUME Inv, NEW p \in Pools \ broken, NEW r \in RanksOf(p), NEW x \in Transfers, CallXfer(r, x), Typed' PROVE PoolInv(p)'
<1> USE NoRankIsNone, RanksOfPool DEF CallXfer
<1>4. Typed /\ PoolInv(p)
  BY DEF Inv
<1> USE DEF PoolInv
<1>5. Locked(p)'
  <2>1. Users(p)' = Users(p)
    BY <1>4 DEF Users, Typed
  <2> QED BY <1>4, <2>1 DEF Locked, Typed, HasCaller
<1>6. Configured(p)'
  BY <1>4 DEF Configured, Typed
<1>7. InPhase(p)'
  BY <1>4 DEF InPhase, At, HasCaller, CallerPoints, Typed
<1>8. Gathered(p)'
  BY <1>4 DEF Gathered, At, HasCaller, Typed
<1>9. Sliced(p)'
  BY <1>4 DEF Sliced
<1>10. Moved(p)'
  BY <1>4 DEF Moved, Typed, Passed
<1>11. Proper(p)'
  BY <1>4 DEF Proper, Typed, CallerPoints
<1> QED BY <1>5, <1>6, <1>7, <1>8, <1>9, <1>10, <1>11

\* A pool has one to eight threads.
LEMMA ThreadsPerPoolRange == \A r \in Ranks : ThreadsPerPool(r) \in 1 .. 8
BY ThreadsForXferRange

LEMMA PoolFields ==
  ASSUME Typed, NEW p \in Pools \ broken
  PROVE  /\ pool[p].nb_threads \in 0 .. 8 /\ pool[p].for_xfer \in 0 .. 8
         /\ pool[p].nb_threads \in Nat /\ pool[p].for_xfer \in Nat
<1>1. pool[p].nb_threads \in 0 .. 8 /\ pool[p].for_xfer \in 0 .. 8
  BY DEF Typed, PoolStates
<1> QED BY <1>1

LEMMA PoolStatesFields ==
  ASSUME NEW f \in PoolStates, NEW a \in {0, NrDpusPerCi}, NEW b \in 0 .. 8
  PROVE  [f EXCEPT !.nb_dpus_per_ci = a, !.nb_threads = b, !.stop_thread = FALSE] \in PoolStates
<1> DEFINE g == [f EXCEPT !.nb_dpus_per_ci = a]
           h == [g EXCEPT !.nb_threads = b]
<1>1. g \in PoolStates
  BY DEF PoolStates
<1> HIDE DEF g
<1>2. h \in PoolStates
  BY <1>1 DEF PoolStates
<1> HIDE DEF h
<1>3. [h EXCEPT !.stop_thread = FALSE] \in PoolStates
  BY <1>2 DEF PoolStates
<1> QED BY <1>3 DEF g, h

\* The creation of a pool, or of its first k threads, keeps the types.
LEMMA CreatedTyped ==
  ASSUME Typed, NEW p \in Pools, NEW r \in RanksOf(p), NEW k, Created(r, k)
  PROVE  /\ pool' \in [Pools -> PoolStates] /\ worker' \in [Pools -> [Threads -> WorkerStates]]
         /\ \A o \in Pools : pool'[o].tr = pool[o].tr
<1> USE RanksOfPool
<1>3. NrDpusPerCi \in Nat /\ ThreadsPerPool(r) \in 0 .. 8
  BY ThreadsPerPoolRange, NrDpusPerCiAssumption
<1> DEFINE f == [pool[p] EXCEPT !.nb_dpus_per_ci = NrDpusPerCi, !.nb_threads = ThreadsPerPool(r),
                                !.stop_thread = FALSE]
<1>1. pool \in [Pools -> PoolStates] /\ pool[p] \in PoolStates
  BY DEF Typed
<1>2. pool' = [pool EXCEPT ![p] = f]
  BY DEF Created
<1>4. f \in PoolStates /\ f.tr = pool[p].tr
  <2>1. f \in PoolStates
    BY <1>1, <1>3, PoolStatesFields, Zenon
  <2>2. f.tr = pool[p].tr
    BY <1>1 DEF PoolStates
  <2> QED BY <2>1, <2>2
<1> HIDE DEF f
<1>5. pool' \in [Pools -> PoolStates] /\ \A o \in Pools : pool'[o].tr = pool[o].tr
  BY <1>1, <1>2, <1>4
<1>6. [Idle EXCEPT !.pc = "loop"] \in WorkerStates
  BY <1>3 DEF Idle, WorkerStates, WorkerPoints
<1>7. worker' \in [Pools -> [Threads -> WorkerStates]]
  BY <1>6 DEF Created, Typed
<1> QED BY <1>5, <1>7

\* What the creation of a pool, or of its first k threads, does.
LEMMA CreatedFacts ==
  ASSUME Inv, NEW p \in Pools \ broken, NEW r \in RanksOf(p), NEW k \in 0 .. 8, k <= ThreadsPerPool(r),
         Created(r, k), nb_region_per_channel[p] = 0, ctx_mutex = NoRank,
         \A t \in Threads : At(p, t) = "none"
  PROVE  /\ \A q \in RanksOf(p) : pc[q] = "down"
         /\ pool'[p].nb_threads = ThreadsPerPool(r)
         /\ pool'[p].nb_dpus_per_ci = NrDpusPerCi
         /\ pool'[p].stop_thread = FALSE
         /\ \A t \in Threads : worker'[p][t].pc = IF t < k THEN "loop" ELSE "none"
<1> USE RanksOfPool, NoRankIsNone
<1>1. Users(p) = {}
  BY UsersFinite, FS_EmptySet DEF Inv, PoolInv, Locked
<1>2. \A q \in RanksOf(p) : pc[q] = "down"
  BY <1>1 DEF Inv, CtxLocked, Users
<1>3. /\ pool'[p].nb_threads = ThreadsPerPool(r) /\ pool'[p].nb_dpus_per_ci = NrDpusPerCi
      /\ pool'[p].stop_thread = FALSE
  BY DEF Created, Inv, Typed, PoolStates
<1>4. [Idle EXCEPT !.pc = "loop"].pc = "loop"
  BY DEF Idle
<1>5. \A t \in Threads : worker'[p][t].pc = IF t < k THEN "loop" ELSE "none"
  BY <1>4 DEF Created, Inv, Typed, At
<1> QED BY <1>2, <1>3, <1>5

\* The first rank of a channel creates the pool, the others join it.
LEMMA InvInitRank ==
  ASSUME Inv, NEW p \in Pools \ broken, NEW r \in RanksOf(p), xeon_sp_init_rank(r), Typed' PROVE PoolInv(p)'
<1> USE NoRankIsNone, RanksOfPool
<1>1. /\ pc[r] = "down" /\ pc' = [pc EXCEPT ![r] = "up"] /\ ctx_mutex = NoRank
      /\ UNCHANGED <<arrived, chan_mutex, req, moved>>
      /\ nb_region_per_channel' = [nb_region_per_channel EXCEPT ![p] = @ + 1]
  BY DEF xeon_sp_init_rank, CanInit
<1>2. \A q \in Ranks : pc[q] \notin {"destroy", "join"}
  BY <1>1 DEF Inv, CtxLocked
<1>3. nb_region_per_channel[p] \in Nat /\ Typed /\ PoolInv(p)
  BY UsersFinite DEF Inv, PoolInv, Locked
<1>4. Locked(p)'
  <2>1. Users(p)' = Users(p) \cup {r} /\ r \notin Users(p)
    BY <1>1, <1>3 DEF Users, Typed
  <2>2. Cardinality(Users(p)') = Cardinality(Users(p)) + 1
    BY <2>1, UsersFinite, FS_AddElement
  <2>3. nb_region_per_channel'[p] = nb_region_per_channel[p] + 1
    BY <1>1, <1>3 DEF Typed
  <2>4. nb_region_per_channel'[p] = Cardinality(Users(p)')
    BY <1>3, <2>2, <2>3 DEF PoolInv, Locked
  <2>5. \A q \in RanksOf(p) : pc'[q] \notin {"destroy", "join"}
    BY <1>1, <1>2, <1>3 DEF Typed
  <2>6. \A q \in RanksOf(p) : pc'[q] \in {"first", "second", "release"} <=> chan_mutex'[p] = q
    BY <1>1, <1>3 DEF PoolInv, Locked, Typed
  <2> QED BY <2>4, <2>5, <2>6 DEF Locked, HasCaller
<1>5. Proper(p)'
  BY <1>1, <1>3 DEF PoolInv, Proper, CallerPoints, Typed
<1>6. CASE nb_region_per_channel[p] # 0
  <2>1. UNCHANGED <<pool, worker>>
    BY <1>6 DEF xeon_sp_init_rank
  <2>2. PICK u \in RanksOf(p) : pc[u] # "down"
    <3>1. Users(p) # {}
      BY <1>3, <1>6, FS_EmptySet DEF PoolInv, Locked
    <3> QED BY <3>1 DEF Users
  <2>4. Configured(p)'
    BY <1>1, <1>2, <1>3, <2>1, <2>2, UniformPoolsAssumption DEF PoolInv, Configured, Typed
  <2>5. InPhase(p)'
    <3>1. \A q \in RanksOf(p) : pc'[q] = IF q = r THEN "up" ELSE pc[q]
      BY <1>1, <1>3 DEF Typed
    <3>2. HasCaller(p, CallerPoints \ {"down"}) /\ HasCaller(p, CallerPoints \ {"down"})'
      BY <1>3, <2>2, <3>1 DEF PoolInv, Proper, HasCaller, CallerPoints
    <3>3. \A P \in {{"second"}, {"join"}, {"second", "join"}} : HasCaller(p, P)' <=> HasCaller(p, P)
      BY <1>1, <3>1 DEF HasCaller
    <3> QED BY <1>3, <2>1, <3>2, <3>3 DEF PoolInv, InPhase, At
  <2>6. Gathered(p)'
    BY <1>1, <1>3, <2>1 DEF PoolInv, Gathered, At, HasCaller, Typed
  <2>7. Sliced(p)' /\ Moved(p)'
    BY <1>1, <1>3, <2>1 DEF PoolInv, Sliced, Moved, Passed, Typed
  <2> QED BY <1>4, <1>5, <2>4, <2>5, <2>6, <2>7 DEF PoolInv
<1>7. CASE nb_region_per_channel[p] = 0
  <2>1. \A t \in Threads : At(p, t) = "none"
    BY <1>7 DEF xeon_sp_init_rank, Quiet
  <2>2. PICK k \in 0 .. 8 : k = ThreadsPerPool(r) /\ k <= ThreadsPerPool(r) /\ Created(r, k)
    <3>1. Created(r, ThreadsPerPool(r)) /\ ThreadsPerPool(r) \in 0 .. 8
      BY <1>7, ThreadsPerPoolRange DEF xeon_sp_init_rank
    <3> QED BY <3>1
  <2>3. /\ \A q \in RanksOf(p) : pc[q] = "down"
        /\ pool'[p].nb_threads = k /\ pool'[p].nb_dpus_per_ci = NrDpusPerCi
        /\ pool'[p].stop_thread = FALSE
        /\ \A t \in Threads : worker'[p][t].pc = IF t < k THEN "loop" ELSE "none"
    BY <1>1, <1>7, <2>1, <2>2, CreatedFacts
  <2>5. \A q \in RanksOf(p) : pc'[q] = IF q = r THEN "up" ELSE "down"
    BY <1>1, <1>3, <2>3 DEF Typed
  <2>6. Configured(p)'
    BY <2>2, <2>3, <2>5 DEF Configured
  <2>7. InPhase(p)'
    <3>1. HasCaller(p, CallerPoints \ {"down"})' /\ ~HasCaller(p, {"second", "join"})'
          /\ ~HasCaller(p, {"second"})' /\ ~HasCaller(p, {"join"})'
      BY <2>5 DEF HasCaller, CallerPoints
    <3> QED BY <2>3, <3>1 DEF InPhase, At
  <2>8. Gathered(p)'
    <3>1. arrived[p] = {}
      BY <1>3, <2>1, <2>3 DEF PoolInv, Gathered, HasCaller
    <3> QED BY <1>1, <2>3, <2>5, <3>1 DEF Gathered, At, HasCaller
  <2>9. Sliced(p)' /\ Moved(p)'
    BY <2>3, <2>5 DEF Sliced, Moved
  <2> QED BY <1>4, <1>5, <2>6, <2>7, <2>8, <2>9 DEF PoolInv
<1> QED BY <1>3, <1>6, <1>7

\* A pool that was always created as asked is quiet when its count is zero.
LEMMA QuietAtZero ==
  ASSUME Inv, NEW p \in Pools \ broken, nb_region_per_channel[p] = 0, ctx_mutex = NoRank
  PROVE  Quiet(p)
<1> USE RanksOfPool, NoRankIsNone
<1>1. Users(p) = {}
  BY UsersFinite, FS_EmptySet DEF Inv, PoolInv, Locked
<1>2. \A q \in RanksOf(p) : pc[q] = "down"
  BY <1>1 DEF Inv, CtxLocked, Users
<1>3. \A t \in Threads : At(p, t) = "none"
  BY <1>2 DEF Inv, PoolInv, InPhase, HasCaller
<1>4. arrived[p] = {}
  BY <1>2, <1>3 DEF Inv, PoolInv, Gathered, HasCaller
<1> QED BY <1>3, <1>4 DEF Quiet

\* The last rank of a pool asks its threads to stop; nobody else uses it then.
LEMMA InvDestroyRank ==
  ASSUME Inv, NEW p \in Pools \ broken, NEW r \in RanksOf(p), xeon_sp_destroy_rank(r), Typed' PROVE PoolInv(p)'
<1> USE NoRankIsNone, RanksOfPool
<1>1. /\ pc[r] = "up" /\ ctx_mutex = NoRank
      /\ UNCHANGED <<worker, chan_mutex, req, moved>>
      /\ nb_region_per_channel' = [nb_region_per_channel EXCEPT ![p] = @ - 1]
  BY DEF xeon_sp_destroy_rank
<1>2. \A q \in Ranks : pc[q] \notin {"destroy", "join"}
  BY <1>1 DEF Inv, CtxLocked
<1>3. Typed /\ PoolInv(p)
  BY DEF Inv
<1>4. PICK w \in {"down", "destroy"} : pc' = [pc EXCEPT ![r] = w]
  BY DEF xeon_sp_destroy_rank
<1>5. /\ Users(p)' = Users(p) \ {r} /\ r \in Users(p)
      /\ nb_region_per_channel[p] = Cardinality(Users(p))
      /\ Cardinality(Users(p)) \in Nat
      /\ Cardinality(Users(p)') = Cardinality(Users(p)) - 1
  <2>1. Users(p)' = Users(p) \ {r} /\ r \in Users(p)
    BY <1>1, <1>3, <1>4 DEF Users, Typed
  <2>2. Cardinality(Users(p)') = Cardinality(Users(p)) - 1
    BY <2>1, UsersFinite, FS_RemoveElement
  <2> QED BY <1>3, <2>1, <2>2, UsersFinite DEF PoolInv, Locked
<1>6. nb_region_per_channel'[p] = Cardinality(Users(p)')
  BY <1>1, <1>3, <1>5 DEF Typed
<1>7. \A q \in RanksOf(p) : pc'[q] \in {"first", "second", "release"} <=> chan_mutex'[p] = q
  BY <1>1, <1>3, <1>4 DEF PoolInv, Locked, Typed
<1>20. Proper(p)'
  BY <1>1, <1>3, <1>4 DEF PoolInv, Proper, CallerPoints, Typed
<1>8. CASE nb_region_per_channel[p] # 1
  <2>1. pc' = [pc EXCEPT ![r] = "down"] /\ UNCHANGED <<pool, arrived, ctx_mutex>>
    BY <1>8 DEF xeon_sp_destroy_rank
  <2>2. PICK u \in RanksOf(p) \ {r} : pc[u] # "down"
    <3>1. Users(p) \ {r} # {}
      <4>1. Cardinality(Users(p) \ {r}) # 0
        BY <1>5, <1>8
      <4> QED BY <4>1, FS_EmptySet
    <3> QED BY <3>1 DEF Users
  <2>4. \A q \in RanksOf(p) : pc'[q] = IF q = r THEN "down" ELSE pc[q]
    BY <1>3, <2>1 DEF Typed
  <2>5. Locked(p)'
    BY <1>2, <1>6, <1>7, <2>4 DEF Locked, HasCaller
  <2>6. Configured(p)'
    BY <1>1, <1>3, <2>1, <2>4 DEF PoolInv, Configured
  <2>7. InPhase(p)'
    <3>1. HasCaller(p, CallerPoints \ {"down"}) /\ HasCaller(p, CallerPoints \ {"down"})'
      BY <1>3, <2>2, <2>4 DEF PoolInv, Proper, HasCaller, CallerPoints
    <3>2. \A P \in {{"second"}, {"join"}, {"second", "join"}} : HasCaller(p, P)' <=> HasCaller(p, P)
      BY <1>1, <2>4 DEF HasCaller
    <3> QED BY <1>1, <1>3, <2>1, <3>1, <3>2 DEF PoolInv, InPhase, At
  <2>8. Gathered(p)'
    BY <1>1, <1>3, <2>1, <2>4 DEF PoolInv, Gathered, At, HasCaller
  <2>9. Sliced(p)' /\ Moved(p)'
    BY <1>1, <1>3, <2>1, <2>4 DEF PoolInv, Sliced, Moved, Passed
  <2> QED BY <1>20, <2>5, <2>6, <2>7, <2>8, <2>9 DEF PoolInv
<1>9. CASE nb_region_per_channel[p] = 1
  <2>1. /\ pool' = [pool EXCEPT ![p].stop_thread = TRUE]
        /\ arrived' = [arrived EXCEPT ![p] = @ \cup {Destroyer}]
        /\ pc' = [pc EXCEPT ![r] = "destroy"]
        /\ ctx_mutex' = r
    BY <1>9 DEF xeon_sp_destroy_rank
  <2>2. Users(p)' = {}
    <3>1. IsFiniteSet(Users(p)')
      BY <1>5, UsersFinite, FS_RemoveElement
    <3> QED BY <1>5, <1>9, <3>1, FS_EmptySet
  <2>3. \A q \in RanksOf(p) : pc'[q] = IF q = r THEN "destroy" ELSE "down"
    BY <1>2, <1>3, <1>5, <2>1, <2>2 DEF Users, Typed
  <2>4. \A q \in RanksOf(p) \ {r} : pc[q] = "down"
    BY <1>3, <2>1, <2>3 DEF Typed
  <2>6. /\ \A f \in {"tr", "nb_threads", "nb_dpus_per_ci", "for_xfer"} : pool'[p][f] = pool[p][f]
        /\ pool'[p].stop_thread = TRUE
    BY <1>3, <2>1 DEF Typed, PoolStates
  <2>7. Locked(p)'
    BY <1>6, <1>7, <2>2 DEF Locked
  <2>8. Configured(p)'
    BY <1>1, <1>3, <2>3, <2>6 DEF PoolInv, Configured
  <2>9. InPhase(p)'
    BY <1>1, <1>3, <2>3, <2>4, <2>6 DEF PoolInv, InPhase, At, HasCaller, CallerPoints
  <2>10. Gathered(p)'
    <3>1. arrived'[p] = arrived[p] \cup {Destroyer}
      BY <1>3, <2>1 DEF Typed
    <3>2. arrived[p] = {t \in Threads : worker[p][t].pc \in {"first", "second"}}
      BY <1>1, <1>3, <2>4 DEF PoolInv, Gathered, At, HasCaller
    <3> QED BY <1>1, <2>3, <3>1, <3>2 DEF Gathered, At, HasCaller
  <2>11. Sliced(p)' /\ Moved(p)'
    BY <1>1, <1>3, <2>3, <2>6 DEF PoolInv, Sliced, Moved
  <2> QED BY <1>20, <2>7, <2>8, <2>9, <2>10, <2>11 DEF PoolInv
<1> QED BY <1>8, <1>9

\* Once its threads are joined a pool is as it was before its creation.
LEMMA InvJoined ==
  ASSUME Inv, NEW p \in Pools \ broken, NEW r \in RanksOf(p), Joined(r), Typed' PROVE PoolInv(p)'
<1> USE NoRankIsNone, RanksOfPool
<1>1. /\ pc[r] = "join" /\ pc' = [pc EXCEPT ![r] = "down"] /\ ctx_mutex' = NoRank
      /\ worker' = [worker EXCEPT ![p] = [t \in Threads |-> Idle]]
      /\ \A t \in 0 .. (pool[p].nb_threads - 1) : At(p, t) = "ended"
      /\ UNCHANGED <<nb_region_per_channel, pool, arrived, chan_mutex, req, moved>>
  BY DEF Joined
<1>2. Typed /\ PoolInv(p) /\ CtxLocked
  BY DEF Inv
<1>3. ctx_mutex = r
  BY <1>1, <1>2 DEF CtxLocked
<1>4. Users(p) = {}
  BY <1>1, <1>2 DEF PoolInv, Locked, HasCaller
<1>5. \A q \in RanksOf(p) : pc[q] = IF q = r THEN "join" ELSE "down"
  BY <1>1, <1>2, <1>3, <1>4 DEF CtxLocked, Users
<1>6. \A q \in RanksOf(p) : pc'[q] = "down"
  BY <1>1, <1>2, <1>5 DEF Typed
<1>7. Idle \in WorkerStates /\ Idle.pc = "none"
  BY NrDpusPerCiAssumption DEF Idle, WorkerStates, WorkerPoints
<1>8. Proper(p)'
  BY <1>1, <1>2 DEF PoolInv, Proper, CallerPoints, Typed
<1>9. \A t \in Threads : worker'[p][t].pc = "none"
  BY <1>1, <1>2, <1>7 DEF Typed
<1>10. Locked(p)'
  <2>1. Users(p)' = {}
    BY <1>6 DEF Users
  <2> QED BY <1>1, <1>2, <1>4, <1>5, <1>6, <2>1 DEF PoolInv, Locked, HasCaller
<1>11. Configured(p)' /\ Moved(p)' /\ Sliced(p)'
  BY <1>6, <1>9 DEF Configured, Moved, Sliced
<1>12. InPhase(p)'
  BY <1>6, <1>9 DEF InPhase, At, HasCaller, CallerPoints
<1>13. Gathered(p)'
  <2>1. \A t \in Threads : At(p, t) \in {"none", "ended"}
    <3>1. pool[p].nb_threads \in Nat
      BY <1>2, PoolFields
    <3> QED BY <1>1, <1>2, <3>1 DEF PoolInv, InPhase, Threads, MAX_THREAD_PER_POOL
  <2>2. arrived[p] = {}
    BY <1>2, <1>5, <2>1 DEF PoolInv, Gathered, HasCaller
  <2> QED BY <1>1, <1>6, <1>9, <2>2 DEF Gathered, At, HasCaller
<1> QED BY <1>8, <1>10, <1>11, <1>12, <1>13 DEF PoolInv

\* A transfer begins when its rank is the only one of the channel with the mutex.
LEMMA InvDoXfer ==
  ASSUME Inv, NEW p \in Pools \ broken, NEW r \in RanksOf(p), xeon_sp_init_and_do_xfer(r), Typed' PROVE PoolInv(p)'
<1> USE NoRankIsNone, RanksOfPool
<1> DEFINE n == ThreadsForXfer(r, req[r].size)
<1>1. /\ pc[r] = "lock" /\ pc' = [pc EXCEPT ![r] = "first"]
      /\ chan_mutex[p] = NoRank /\ chan_mutex' = [chan_mutex EXCEPT ![p] = r]
      /\ pool' = [pool EXCEPT ![p] = [@ EXCEPT !.tr = r, !.for_xfer = n]]
      /\ arrived' = [arrived EXCEPT ![p] = @ \cup {Caller}]
      /\ UNCHANGED <<nb_region_per_channel, worker, ctx_mutex, req, moved>>
  BY DEF xeon_sp_init_and_do_xfer
<1>2. Typed /\ PoolInv(p) /\ CtxLocked
  BY DEF Inv
<1>3. req[r] \in Transfers /\ req[r].size \in Nat
  BY <1>1, <1>2, TransfersAssumption DEF PoolInv, Configured
<1>4. n \in 0 .. 8
  BY <1>3, ThreadsForXferRange
<1> HIDE DEF n
<1>5. \A q \in RanksOf(p) : pc'[q] = IF q = r THEN "first" ELSE pc[q]
  BY <1>1, <1>2 DEF Typed
<1>6. \A q \in RanksOf(p) : pc[q] \notin {"first", "second", "release", "destroy", "join"}
  <2>1. r \in Users(p)
    BY <1>1 DEF Users
  <2> QED BY <1>1, <1>2, <2>1 DEF PoolInv, Locked, HasCaller
<1>8. /\ \A f \in {"nb_threads", "nb_dpus_per_ci", "stop_thread"} : pool'[p][f] = pool[p][f]
      /\ pool'[p].tr = r /\ pool'[p].for_xfer = n
  BY <1>1, <1>2 DEF Typed, PoolStates
<1>9. Proper(p)'
  BY <1>1, <1>2 DEF PoolInv, Proper, CallerPoints, Typed
<1>10. Locked(p)'
  <2>1. Users(p)' = Users(p)
    BY <1>1, <1>5 DEF Users
  <2>2. chan_mutex'[p] = r
    BY <1>1, <1>2 DEF Typed
  <2> QED BY <1>1, <1>2, <1>5, <1>6, <2>1, <2>2 DEF PoolInv, Locked, HasCaller
<1>11. Configured(p)'
  BY <1>1, <1>2, <1>3, <1>5, <1>6, <1>8 DEF PoolInv, Configured, n
<1>12. \A t \in Threads : At(p, t) \in {"none", "loop", "first"}
  BY <1>2, <1>6 DEF PoolInv, InPhase, HasCaller
<1>13. InPhase(p)'
  BY <1>1, <1>2, <1>5, <1>6, <1>8, <1>12 DEF PoolInv, InPhase, At, HasCaller, CallerPoints
<1>14. Gathered(p)'
  <2>1. arrived'[p] = arrived[p] \cup {Caller}
    BY <1>1, <1>2 DEF Typed
  <2>2. arrived[p] = {t \in Threads : worker[p][t].pc \in {"first", "second"}}
    BY <1>2, <1>6 DEF PoolInv, Gathered, At, HasCaller
  <2>3. r \in RanksOf(p) /\ pc'[r] \in {"first", "second"}
    BY <1>5
  <2> QED BY <1>1, <2>1, <2>2, <2>3 DEF Gathered, At, HasCaller
<1>15. Sliced(p)'
  BY <1>1, <1>12 DEF Sliced, At
<1>16. Moved(p)'
  BY <1>1, <1>2, <1>5, <1>6 DEF PoolInv, Moved
<1> QED BY <1>9, <1>10, <1>11, <1>13, <1>14, <1>15, <1>16 DEF PoolInv

\* Only one caller of a pool is in a transfer or in a destruction.
LEMMA SoleCaller ==
  ASSUME Inv, NEW p \in Pools \ broken, NEW u \in RanksOf(p),
         pc[u] \in {"first", "second", "release", "destroy", "join"}
  PROVE  \A q \in RanksOf(p) \ {u} : pc[q] \in {"down", "up", "lock"}
<1> USE NoRankIsNone, RanksOfPool
<1>1. Typed /\ CtxLocked /\ Locked(p)
  BY DEF Inv, PoolInv
<1>2. \A q \in RanksOf(p) : pc[q] \in CallerPoints
  BY DEF Inv, PoolInv, Proper
<1>3. CASE pc[u] \in {"first", "second", "release"}
  <2>1. u \in Users(p)
    BY <1>3 DEF Users
  <2> QED BY <1>1, <1>2, <1>3, <2>1 DEF Locked, HasCaller, CallerPoints
<1>4. CASE pc[u] \in {"destroy", "join"}
  <2>1. Users(p) = {}
    BY <1>1, <1>4 DEF Locked, HasCaller
  <2> QED BY <1>1, <1>2, <1>4, <2>1 DEF CtxLocked, Users, CallerPoints
<1> QED BY <1>3, <1>4

\* The threads that take part in a transfer.
LEMMA TransferFacts ==
  ASSUME Inv, NEW p \in Pools \ broken, NEW u \in RanksOf(p), pc[u] \in {"first", "second"}
  PROVE  /\ pool[p].nb_threads \in 1 .. 8
         /\ pool[p].for_xfer \in 1 .. 8 /\ pool[p].for_xfer <= pool[p].nb_threads
         /\ 0 .. (pool[p].for_xfer - 1) \subseteq Threads
         /\ pool[p].tr = u /\ req[u] \in Transfers /\ pool[p].nb_dpus_per_ci = NrDpusPerCi
         /\ pool[p].stop_thread = FALSE
<1> USE RanksOfPool
<1>1. /\ pool[p].nb_threads = ThreadsPerPool(u) /\ pool[p].for_xfer = ThreadsForXfer(u, req[u].size)
      /\ pool[p].tr = u /\ req[u] \in Transfers /\ pool[p].nb_dpus_per_ci = NrDpusPerCi
      /\ pool[p].stop_thread <=> FALSE
  BY DEF Inv, PoolInv, Configured
<1>2. req[u].size \in Nat
  BY <1>1, TransfersAssumption
<1>3. pool[p].nb_threads \in 1 .. 8 /\ pool[p].for_xfer \in 1 .. pool[p].nb_threads
  BY <1>1, <1>2, ThreadsForXferRange
<1>4. pool[p].stop_thread \in BOOLEAN
  BY DEF Inv, Typed, PoolStates
<1> QED BY <1>1, <1>3, <1>4 DEF Threads, MAX_THREAD_PER_POOL

\* The mutex of the channel is released after the transfer.
LEMMA InvReleasePool ==
  ASSUME Inv, NEW p \in Pools \ broken, NEW r \in RanksOf(p), xeon_sp_release_pool(r), Typed' PROVE PoolInv(p)'
<1> USE NoRankIsNone, RanksOfPool
<1>1. /\ pc[r] = "release" /\ pc' = [pc EXCEPT ![r] = "up"]
      /\ chan_mutex' = [chan_mutex EXCEPT ![p] = NoRank]
      /\ UNCHANGED <<nb_region_per_channel, pool, arrived, worker, ctx_mutex, req, moved>>
  BY DEF xeon_sp_release_pool
<1>2. Typed /\ PoolInv(p) /\ CtxLocked
  BY DEF Inv
<1>3. \A q \in RanksOf(p) \ {r} : pc[q] \in {"down", "up", "lock"} /\ pc'[q] = pc[q]
  BY <1>1, <1>2, SoleCaller DEF Typed
<1>4. pc'[r] = "up" /\ chan_mutex'[p] = NoRank
  BY <1>1, <1>2 DEF Typed
<1>5. Proper(p)'
  BY <1>1, <1>2 DEF PoolInv, Proper, CallerPoints, Typed
<1>6. Locked(p)'
  <2>1. Users(p)' = Users(p)
    BY <1>1, <1>3, <1>4 DEF Users
  <2> QED BY <1>1, <1>2, <1>3, <1>4, <2>1 DEF PoolInv, Locked, HasCaller
<1>7. Configured(p)'
  BY <1>1, <1>2, <1>3, <1>4 DEF PoolInv, Configured
<1>8. InPhase(p)'
  BY <1>1, <1>2, <1>3, <1>4 DEF PoolInv, InPhase, At, HasCaller, CallerPoints
<1>9. Gathered(p)'
  BY <1>1, <1>2, <1>3, <1>4 DEF PoolInv, Gathered, At, HasCaller
<1>10. Sliced(p)' /\ Moved(p)'
  BY <1>1, <1>2, <1>3, <1>4 DEF PoolInv, Sliced, Moved
<1> QED BY <1>5, <1>6, <1>7, <1>8, <1>9, <1>10 DEF PoolInv

\* A thread reaches the barrier.
LEMMA InvWait ==
  ASSUME Inv, NEW p \in Pools \ broken, NEW t \in Threads, Wait(p, t), Typed' PROVE PoolInv(p)'
<1> USE RanksOfPool
<1> DEFINE w == IF worker[p][t].pc = "loop" THEN "first" ELSE "second"
<1>1. /\ worker[p][t].pc \in {"loop", "done"}
      /\ worker' = [worker EXCEPT ![p] = [worker[p] EXCEPT ![t] = [worker[p][t] EXCEPT !.pc = w]]]
      /\ arrived' = [arrived EXCEPT ![p] = @ \cup {t}]
      /\ UNCHANGED <<nb_region_per_channel, pool, chan_mutex, ctx_mutex, pc, req, moved>>
  BY DEF Wait, At
<1>2. Typed /\ PoolInv(p) /\ CtxLocked
  BY DEF Inv
<1>3. /\ worker[p][t] \in WorkerStates
      /\ [worker[p][t] EXCEPT !.pc = w] \in WorkerStates
      /\ [worker[p][t] EXCEPT !.pc = w].pc = w
  <2>1. worker[p][t] \in WorkerStates /\ w \in WorkerPoints
    BY <1>2 DEF Typed, WorkerPoints
  <2> HIDE DEF w
  <2> QED BY <2>1 DEF WorkerStates
<1>5. /\ worker'[p][t].pc = w
      /\ \A v \in Threads \ {t} : worker'[p][v] = worker[p][v]
  BY <1>1, <1>2, <1>3 DEF Typed
<1>6. Proper(p)'
  BY <1>1, <1>2 DEF PoolInv, Proper
<1>7. Locked(p)'
  <2>1. Users(p)' = Users(p)
    BY <1>1 DEF Users
  <2> QED BY <1>1, <1>2, <2>1 DEF PoolInv, Locked, HasCaller
<1>8. Configured(p)'
  BY <1>1, <1>2 DEF PoolInv, Configured
<1>9. InPhase(p)'
  BY <1>1, <1>2, <1>5 DEF PoolInv, InPhase, At, HasCaller
<1>10. Gathered(p)'
  <2>1. arrived'[p] = arrived[p] \cup {t}
    BY <1>1, <1>2 DEF Typed
  <2> QED BY <1>1, <1>2, <1>5, <2>1 DEF PoolInv, Gathered, At, HasCaller
<1>11. Sliced(p)'
  BY <1>1, <1>2, <1>5 DEF PoolInv, Sliced
<1>12. Moved(p)'
  <2>1. ASSUME NEW v \in Threads, NEW d PROVE Passed(worker'[p][v], d) <=> Passed(worker[p][v], d)
    BY <1>1, <1>2, <1>5 DEF Passed, Typed
  <2>2. \A u \in RanksOf(p) : pc[u] = "second" => 0 .. (pool[p].for_xfer - 1) \subseteq Threads
    BY TransferFacts
  <2> QED BY <1>1, <1>2, <2>1, <2>2 DEF PoolInv, Moved
<1> QED BY <1>6, <1>7, <1>8, <1>9, <1>10, <1>11, <1>12 DEF PoolInv

\* A thread ends, has nothing to do, or takes its slice of the transfer.
LEMMA InvStart ==
  ASSUME Inv, NEW p \in Pools \ broken, NEW t \in Threads, Start(p, t), Typed' PROVE PoolInv(p)'
<1> USE RanksOfPool
<1> DEFINE n == pool[p].for_xfer
           w == IF pool[p].stop_thread THEN [worker[p][t] EXCEPT !.pc = "ended"]
                ELSE IF t >= n THEN [worker[p][t] EXCEPT !.pc = "done"]
                ELSE [pc |-> "work",
                      next |-> SliceStart(t, n, pool[p].nb_dpus_per_ci),
                      stop |-> SliceStop(t, n, pool[p].nb_dpus_per_ci),
                      matrix |-> pool[p].tr]
<1>1. /\ worker[p][t].pc = "go"
      /\ worker' = [worker EXCEPT ![p] = [worker[p] EXCEPT ![t] = w]]
      /\ UNCHANGED <<nb_region_per_channel, pool, arrived, chan_mutex, ctx_mutex, pc, req, moved>>
  BY DEF Start, At
<1>2. Typed /\ PoolInv(p) /\ CtxLocked
  BY DEF Inv
<1>3. PICK u \in RanksOf(p) : pc[u] \in {"second", "join"}
  BY <1>1, <1>2 DEF PoolInv, InPhase, At, HasCaller
<1>4. \A q \in RanksOf(p) \ {u} : pc[q] \in {"down", "up", "lock"}
  BY <1>3, SoleCaller
<1>5. /\ pool[p].stop_thread <=> pc[u] = "join"
      /\ pool[p].stop_thread \in BOOLEAN
  BY <1>2, <1>3 DEF PoolInv, Configured, Typed, PoolStates
<1>6. worker[p][t] \in WorkerStates
  BY <1>2 DEF Typed
<1>7. /\ w \in WorkerStates
      /\ pc[u] = "join" => w.pc = "ended"
      /\ pc[u] = "second" /\ t >= n => w.pc = "done"
      /\ pc[u] = "second" /\ t < n => /\ w.pc = "work" /\ w.matrix = pool[p].tr
                                      /\ w.next = SliceStart(t, n, NrDpusPerCi)
                                      /\ w.stop = SliceStop(t, n, NrDpusPerCi)
                                      /\ w.next \in Nat /\ w.stop \in Nat /\ w.next <= w.stop
  <2>1. CASE pc[u] = "join"
    <3>1. w = [worker[p][t] EXCEPT !.pc = "ended"]
      BY <1>5, <2>1
    <3>2. [worker[p][t] EXCEPT !.pc = "ended"] \in WorkerStates
      BY <1>6 DEF WorkerStates, WorkerPoints
    <3>3. w.pc = "ended"
      BY <1>6, <3>1 DEF WorkerStates
    <3> HIDE DEF w
    <3> QED BY <2>1, <3>1, <3>2, <3>3
  <2>2. CASE pc[u] = "second" /\ t >= n
    <3>1. w = [worker[p][t] EXCEPT !.pc = "done"]
      BY <1>5, <2>2
    <3>2. n \in Nat /\ t \in Int
      BY <1>2, PoolFields DEF Threads
    <3> HIDE DEF w, n
    <3> QED BY <1>6, <2>2, <3>1, <3>2 DEF WorkerStates, WorkerPoints
  <2>3. CASE pc[u] = "second" /\ t < n
    <3>1. /\ n \in 1 .. 8 /\ t \in 0 .. (n - 1) /\ NrDpusPerCi \in Nat
          /\ pool[p].nb_dpus_per_ci = NrDpusPerCi /\ pool[p].tr \in Ranks
      <4>1. /\ n \in 1 .. 8 /\ pool[p].nb_dpus_per_ci = NrDpusPerCi /\ pool[p].tr = u
        BY <2>3, TransferFacts
      <4>2. t \in Nat
        BY DEF Threads
      <4> QED BY <2>3, <4>1, <4>2, NrDpusPerCiAssumption
    <3>2. w = [pc |-> "work", next |-> SliceStart(t, n, NrDpusPerCi),
               stop |-> SliceStop(t, n, NrDpusPerCi), matrix |-> pool[p].tr]
      BY <1>5, <2>3, <3>1
    <3> HIDE DEF w, n
    <3>3. /\ SliceStart(t, n, NrDpusPerCi) \in Nat /\ SliceStop(t, n, NrDpusPerCi) \in Nat
          /\ SliceStart(t, n, NrDpusPerCi) <= SliceStop(t, n, NrDpusPerCi)
          /\ SliceStop(t, n, NrDpusPerCi) <= NrDpusPerCi
      BY <3>1, SliceBounds
    <3> QED BY <2>3, <3>1, <3>2, <3>3 DEF WorkerStates, WorkerPoints
  <2>4. n \in Nat /\ t \in Int
    BY <1>2, PoolFields DEF Threads
  <2> QED BY <1>3, <2>1, <2>2, <2>3, <2>4
<1> HIDE DEF w
<1>8. /\ worker'[p][t] = w
      /\ \A v \in Threads \ {t} : worker'[p][v] = worker[p][v]
  BY <1>1, <1>2, <1>7 DEF Typed
<1>9. Proper(p)'
  BY <1>1, <1>2 DEF PoolInv, Proper
<1>10. Locked(p)'
  <2>1. Users(p)' = Users(p)
    BY <1>1 DEF Users
  <2> QED BY <1>1, <1>2, <2>1 DEF PoolInv, Locked, HasCaller
<1>11. Configured(p)'
  BY <1>1, <1>2 DEF PoolInv, Configured
<1>12. n \in Nat /\ t \in Int
  BY <1>2, PoolFields DEF Threads
<1>13. w.pc \in IF pc[u] = "join" THEN {"ended"} ELSE {"done", "work"}
  BY <1>3, <1>7, <1>12
<1>14. InPhase(p)'
  BY <1>1, <1>2, <1>3, <1>4, <1>8, <1>13 DEF PoolInv, InPhase, At, HasCaller
<1>15. Gathered(p)'
  <2>1. w.pc \notin {"first", "second"}
    BY <1>13
  <2>2. \A v \in Threads : worker'[p][v].pc \in {"first", "second"} <=> worker[p][v].pc \in {"first", "second"}
    BY <1>1, <1>8, <2>1
  <2> QED BY <1>1, <1>2, <2>2 DEF PoolInv, Gathered, At, HasCaller
<1>16. Sliced(p)'
  BY <1>1, <1>2, <1>3, <1>7, <1>8, <1>12, <1>13 DEF PoolInv, Sliced
<1>17. Moved(p)'
  <2>1. CASE pc[u] = "join"
    BY <1>1, <1>2, <1>4, <2>1 DEF PoolInv, Moved
  <2>2. CASE pc[u] = "second"
    <3>1. n \in 1 .. 8 /\ 0 .. (n - 1) \subseteq Threads
      BY <2>2, TransferFacts
    <3>2. ASSUME NEW v \in 0 .. (n - 1), NEW d \in Slice(v, n)
          PROVE  Passed(worker'[p][v], d) <=> Passed(worker[p][v], d)
      <4>1. CASE v # t
        BY <1>8, <3>1, <4>1 DEF Passed
      <4>2. CASE v = t
        <5>1. ~Passed(worker[p][v], d)
          BY <1>1, <4>2 DEF Passed
        <5>2. w.pc = "work" /\ w.next = SliceStart(t, n, NrDpusPerCi) /\ w.next \in Nat
          BY <1>7, <2>2, <3>1, <4>2
        <5>3. d \in Int /\ w.next <= d
          BY <4>2, <5>2, <3>1, SliceBounds DEF Slice
        <5> QED BY <1>8, <4>2, <5>1, <5>2, <5>3 DEF Passed
      <4> QED BY <4>1, <4>2
    <3>3. \A q \in RanksOf(p) \ {u} : pc[q] \notin {"first", "second", "release"}
      BY <1>4
    <3> QED BY <1>1, <1>2, <1>8, <2>2, <3>2, <3>3 DEF PoolInv, Moved
  <2> QED BY <1>3, <2>1, <2>2
<1> QED BY <1>9, <1>10, <1>11, <1>14, <1>15, <1>16, <1>17 DEF PoolInv

\* One turn of a thread's loop: the line it moves is in its slice only, and was
\* not moved before.
LEMMA LineFacts ==
  ASSUME Inv, NEW p \in Pools \ broken, NEW t \in Threads, worker[p][t].pc = "work"
  PROVE  \E u \in RanksOf(p) :
           /\ pc[u] = "second" /\ pool[p].tr = u /\ worker[p][t].matrix = u
           /\ req[u] \in Transfers
           /\ pool[p].for_xfer \in 1 .. 8 /\ t \in 0 .. (pool[p].for_xfer - 1)
           /\ worker[p][t].next \in Nat
           /\ worker[p][t].stop = SliceStop(t, pool[p].for_xfer, NrDpusPerCi)
           /\ worker[p][t].next < worker[p][t].stop =>
                /\ worker[p][t].next \in Slice(t, pool[p].for_xfer)
                /\ worker[p][t].next \in Lines
                /\ moved[u][worker[p][t].next] = 0
<1> USE RanksOfPool
<1>1. Typed /\ PoolInv(p)
  BY DEF Inv
<1>2. PICK u \in RanksOf(p) : pc[u] = "second"
  BY <1>1 DEF PoolInv, InPhase, At, HasCaller
<1>3. /\ pool[p].for_xfer \in 1 .. 8 /\ 0 .. (pool[p].for_xfer - 1) \subseteq Threads
      /\ pool[p].tr = u /\ req[u] \in Transfers
  BY <1>2, TransferFacts
<1> DEFINE n == pool[p].for_xfer
           w == worker[p][t]
<1>4. /\ t < n /\ w.matrix = u /\ w.stop = SliceStop(t, n, NrDpusPerCi)
      /\ SliceStart(t, n, NrDpusPerCi) <= w.next /\ w.next <= w.stop
  BY <1>1, <1>3 DEF PoolInv, Sliced
<1>5. w.next \in Nat /\ t \in 0 .. (n - 1)
  <2>1. w.next \in 0 .. NrDpusPerCi
    BY <1>1 DEF Typed, WorkerStates
  <2>2. t \in Nat
    BY DEF Threads
  <2> HIDE DEF w, n
  <2> QED BY <1>3, <1>4, <2>1, <2>2, NrDpusPerCiAssumption DEF n
<1>6. ASSUME w.next < w.stop
      PROVE  w.next \in Slice(t, n) /\ w.next \in Lines /\ moved[u][w.next] = 0
  <2>1. w.next \in Slice(t, n)
    <3>1. SliceStart(t, n, NrDpusPerCi) \in Nat /\ SliceStop(t, n, NrDpusPerCi) \in Nat
      BY <1>3, <1>5, SliceBounds
    <3> QED BY <1>4, <1>5, <1>6, <3>1 DEF Slice
  <2>2. w.next \in Lines
    BY <1>3, <1>5, <2>1, SliceBounds
  <2>3. ~Passed(w, w.next)
    BY <1>5 DEF Passed
  <2> QED BY <1>1, <1>2, <1>5, <2>1, <2>2, <2>3 DEF PoolInv, Moved
<1> QED BY <1>2, <1>3, <1>4, <1>5, <1>6

LEMMA InvLine ==
  ASSUME Inv, NEW p \in Pools \ broken, NEW t \in Threads, Line(p, t), Typed' PROVE PoolInv(p)'
<1> USE RanksOfPool
<1> DEFINE n == pool[p].for_xfer
           w == worker[p][t]
           x == req[w.matrix]
<1>1. /\ w.pc = "work"
      /\ UNCHANGED <<nb_region_per_channel, pool, arrived, chan_mutex, ctx_mutex, pc, req>>
  BY DEF Line
<1>2. Typed /\ PoolInv(p) /\ CtxLocked
  BY DEF Inv
<1>3. PICK u \in RanksOf(p) :
           /\ pc[u] = "second" /\ pool[p].tr = u /\ w.matrix = u /\ req[u] \in Transfers
           /\ n \in 1 .. 8 /\ t \in 0 .. (n - 1)
           /\ w.next \in Nat /\ w.stop = SliceStop(t, n, NrDpusPerCi)
           /\ w.next < w.stop => w.next \in Slice(t, n) /\ w.next \in Lines /\ moved[u][w.next] = 0
  BY <1>1, LineFacts
<1>4. \A q \in RanksOf(p) \ {u} : pc[q] \in {"down", "up", "lock"}
  BY <1>3, SoleCaller
<1>5. w \in WorkerStates /\ w.stop \in 0 .. NrDpusPerCi
  BY <1>2 DEF Typed, WorkerStates
<1>6. PICK v \in WorkerStates :
         /\ worker' = [worker EXCEPT ![p] = [worker[p] EXCEPT ![t] = v]]
         /\ IF w.next >= w.stop \/ x.size = 0
            THEN v.pc = "done"
            ELSE v.pc = "work" /\ v.next = w.next + 1 /\ v.stop = w.stop /\ v.matrix = w.matrix
  <2>1. CASE w.next >= w.stop \/ x.size = 0
    <3>1. worker' = [worker EXCEPT ![p][t] = [Idle EXCEPT !.pc = "done"]]
      BY <2>1 DEF Line
    <3>2. [Idle EXCEPT !.pc = "done"] \in WorkerStates /\ [Idle EXCEPT !.pc = "done"].pc = "done"
      BY NrDpusPerCiAssumption DEF Idle, WorkerStates, WorkerPoints
    <3> QED BY <2>1, <3>1, <3>2
  <2>2. CASE ~(w.next >= w.stop \/ x.size = 0)
    <3>1. worker' = [worker EXCEPT ![p] = [worker[p] EXCEPT ![t] = [w EXCEPT !.next = w.next + 1]]]
      BY <2>2 DEF Line
    <3>2. w.next + 1 \in 0 .. NrDpusPerCi
      BY <1>3, <1>5, <2>2, NrDpusPerCiAssumption
    <3>3. [w EXCEPT !.next = w.next + 1] \in WorkerStates
      BY <1>5, <3>2 DEF WorkerStates
    <3>4. /\ [w EXCEPT !.next = w.next + 1].pc = "work"
          /\ [w EXCEPT !.next = w.next + 1].next = w.next + 1
          /\ [w EXCEPT !.next = w.next + 1].stop = w.stop
          /\ [w EXCEPT !.next = w.next + 1].matrix = w.matrix
      BY <1>1, <1>5 DEF WorkerStates
    <3> QED BY <2>2, <3>1, <3>3, <3>4
  <2> QED BY <2>1, <2>2
<1>7. /\ worker'[p][t] = v
      /\ \A s \in Threads \ {t} : worker'[p][s] = worker[p][s]
  BY <1>2, <1>6 DEF Typed
<1>8. moved' = IF w.next < w.stop /\ w.next \in Xfer!Wanted(x)
               THEN [moved EXCEPT ![u] = [moved[u] EXCEPT ![w.next] = 1]] ELSE moved
  BY <1>3, <1>5 DEF Line, Xfer!Wanted
<1> HIDE DEF n, w, x
<1>9. \A q \in Ranks \ {u} : moved'[q] = moved[q]
  BY <1>2, <1>3, <1>8 DEF Typed
<1>10. Proper(p)'
  <2>1. moved[u] \in [Lines -> {0, 1}]
    BY <1>2, <1>3 DEF PoolInv, Proper
  <2>2. moved'[u] \in [Lines -> {0, 1}]
    BY <1>2, <1>3, <1>8, <2>1 DEF Typed
  <2> QED BY <1>1, <1>2, <1>9, <2>2 DEF PoolInv, Proper
<1>11. Locked(p)'
  <2>1. Users(p)' = Users(p)
    BY <1>1 DEF Users
  <2> QED BY <1>1, <1>2, <2>1 DEF PoolInv, Locked, HasCaller
<1>12. Configured(p)'
  BY <1>1, <1>2 DEF PoolInv, Configured
<1>13. v.pc \in {"work", "done"}
  BY <1>6
<1>14. InPhase(p)'
  BY <1>1, <1>2, <1>3, <1>4, <1>7, <1>13 DEF PoolInv, InPhase, At, HasCaller, w
<1>15. Gathered(p)'
  <2>1. \A s \in Threads : worker'[p][s].pc \in {"first", "second"} <=> worker[p][s].pc \in {"first", "second"}
    BY <1>1, <1>7, <1>13 DEF w
  <2> QED BY <1>1, <1>2, <2>1 DEF PoolInv, Gathered, At, HasCaller
<1>16. Sliced(p)'
  <2>1. /\ SliceStart(t, n, NrDpusPerCi) <= w.next /\ w.next <= w.stop
        /\ SliceStart(t, n, NrDpusPerCi) \in Nat
    BY <1>1, <1>2, <1>3, SliceBounds DEF PoolInv, Sliced, w, n
  <2>2. w.next \in Int /\ w.stop \in Int
    BY <1>3, <1>5
  <2>3. v.pc = "work" =>
          /\ t < n /\ v.matrix = pool[p].tr /\ v.stop = SliceStop(t, n, NrDpusPerCi)
          /\ SliceStart(t, n, NrDpusPerCi) <= v.next /\ v.next <= v.stop
    BY <1>3, <1>6, <2>1, <2>2
  <2> QED BY <1>1, <1>2, <1>7, <2>3 DEF PoolInv, Sliced, n
<1>17. Moved(p)'
  <2>1. 0 .. (n - 1) \subseteq Threads
    BY <1>3, TransferFacts DEF n
  <2>2. ASSUME NEW s \in 0 .. (n - 1), NEW d \in Slice(s, n)
        PROVE  moved'[u][d] = IF d \in Xfer!Wanted(req[u]) /\ Passed(worker'[p][s], d) THEN 1 ELSE 0
    <3>1. moved[u][d] = IF d \in Xfer!Wanted(req[u]) /\ Passed(worker[p][s], d) THEN 1 ELSE 0
      BY <1>2, <1>3 DEF PoolInv, Moved, n
    <3>2. d \in Lines /\ d \in Int /\ d <= SliceStop(s, n, NrDpusPerCi) - 1
      <4>1. /\ SliceStart(s, n, NrDpusPerCi) \in Nat /\ SliceStop(s, n, NrDpusPerCi) \in Nat
            /\ Slice(s, n) \subseteq Lines
        BY <1>3, SliceBounds
      <4> QED BY <4>1 DEF Slice
    <3>3. CASE s # t
      <4>1. worker'[p][s] = worker[p][s]
        BY <1>7, <2>1, <3>3
      <4>2. w.next < w.stop => d # w.next
        BY <1>3, <3>3, SlicesDisjoint
      <4>3. moved'[u][d] = moved[u][d]
        BY <1>2, <1>3, <1>8, <3>2, <4>2 DEF Typed
      <4> QED BY <3>1, <4>1, <4>3
    <3>4. CASE s = t
      <4>1. worker[p][s] = w /\ worker'[p][s] = v
        BY <1>7, <3>4 DEF w
      <4>2. x = req[u]
        BY <1>3 DEF x
      <4>3. CASE w.next >= w.stop
        <5>1. Passed(w, d) /\ Passed(v, d)
          BY <1>1, <1>3, <1>5, <1>6, <3>2, <3>4, <4>3 DEF Passed
        <5>2. moved' = moved
          BY <1>3, <1>5, <1>8, <4>3
        <5> QED BY <3>1, <4>1, <5>1, <5>2
      <4>4. CASE w.next < w.stop /\ x.size = 0
        <5>1. Xfer!Wanted(req[u]) = {}
          BY <4>2, <4>4 DEF Xfer!Wanted
        <5> QED BY <1>8, <3>1, <4>2, <5>1
      <4>5. CASE w.next < w.stop /\ x.size # 0
        <5>1. v.pc = "work" /\ v.next = w.next + 1
          BY <1>3, <1>5, <1>6, <4>5
        <5>2. Passed(v, d) <=> d = w.next \/ Passed(w, d)
          BY <1>1, <1>3, <3>2, <5>1 DEF Passed
        <5>3. CASE d = w.next
          BY <1>2, <1>3, <1>8, <3>1, <3>2, <4>1, <4>2, <4>5, <5>2, <5>3 DEF Typed
        <5>4. CASE d # w.next
          <6>1. moved'[u][d] = moved[u][d]
            BY <1>2, <1>3, <1>8, <3>2, <5>4 DEF Typed
          <6> QED BY <3>1, <4>1, <5>2, <5>4, <6>1
        <5> QED BY <5>3, <5>4
      <4>6. w.next \in Int /\ w.stop \in Int
        BY <1>3, <1>5
      <4> QED BY <4>3, <4>4, <4>5, <4>6
    <3> QED BY <3>3, <3>4
  <2>3. \A q \in RanksOf(p) \ {u} : moved'[q] = moved[q] /\ pc[q] \notin {"first", "second", "release"}
    BY <1>4, <1>9
  <2> QED BY <1>1, <1>2, <1>3, <2>2, <2>3 DEF PoolInv, Moved, n
<1> QED BY <1>10, <1>11, <1>12, <1>14, <1>15, <1>16, <1>17 DEF PoolInv

\* Who is at the barrier besides threads, if anybody is.
TheCaller(p) == IF HasCaller(p, {"first", "second"}) THEN Caller ELSE Destroyer

\* The barrier never holds more than the threads of the pool and one caller.
LEMMA BarrierNotOverfull ==
  ASSUME Inv, NEW p \in Pools \ broken
  PROVE  LET n == pool[p].nb_threads
             A == (0 .. (n - 1)) \cup {TheCaller(p)}
         IN  /\ arrived[p] \subseteq A
             /\ IsFiniteSet(A) /\ Cardinality(A) = n + 1
             /\ Cardinality(arrived[p]) <= n + 1
<1> DEFINE n == pool[p].nb_threads
           W == {t \in Threads : At(p, t) \in {"first", "second"}}
           A == (0 .. (n - 1)) \cup {TheCaller(p)}
<1>1. n \in Nat /\ PoolInv(p)
  BY PoolFields DEF Inv
<1>2. W \subseteq 0 .. (n - 1)
  BY <1>1 DEF PoolInv, InPhase, Threads
<1>3. arrived[p] = W \cup (IF HasCaller(p, {"first", "second", "destroy"}) THEN {TheCaller(p)} ELSE {})
  BY <1>1 DEF PoolInv, Gathered, TheCaller, HasCaller
<1>4. arrived[p] \subseteq A
  BY <1>2, <1>3
<1>5. IsFiniteSet(A) /\ Cardinality(A) = n + 1
  <2>1. IsFiniteSet(0 .. (n - 1)) /\ Cardinality(0 .. (n - 1)) = n
    <3>1. n \in Nat /\ n - 1 \in Int /\ 0 \in Int
      BY <1>1
    <3> HIDE DEF n
    <3>2. IsFiniteSet(0 .. (n - 1)) /\ Cardinality(0 .. (n - 1)) = IF 0 > n - 1 THEN 0 ELSE (n - 1) - 0 + 1
      BY <3>1, FS_Interval
    <3> QED BY <3>1, <3>2
  <2>2. TheCaller(p) \notin 0 .. (n - 1)
    BY <1>1 DEF TheCaller, Caller, Destroyer
  <2> QED BY <2>1, <2>2, FS_AddElement
<1>6. Cardinality(arrived[p]) <= n + 1
  BY <1>4, <1>5, FS_Subset
<1> QED BY <1>4, <1>5, <1>6

\* A full barrier holds the caller and every thread of the pool.
LEMMA BarrierFull ==
  ASSUME Inv, NEW p \in Pools \ broken, Cardinality(arrived[p]) = BarrierSize(p)
  PROVE  /\ HasCaller(p, {"first", "second", "destroy"})
         /\ \A t \in Threads : t < pool[p].nb_threads => At(p, t) \in {"first", "second"}
<1> DEFINE n == pool[p].nb_threads
           W == {t \in Threads : At(p, t) \in {"first", "second"}}
           A == (0 .. (n - 1)) \cup {TheCaller(p)}
<1>1. n \in Nat /\ PoolInv(p)
  BY PoolFields DEF Inv
<1>2. W \subseteq 0 .. (n - 1)
  BY <1>1 DEF PoolInv, InPhase, Threads
<1>3. arrived[p] = W \cup (IF HasCaller(p, {"first", "second", "destroy"}) THEN {TheCaller(p)} ELSE {})
  BY <1>1 DEF PoolInv, Gathered, TheCaller, HasCaller
<1>5. arrived[p] \subseteq A /\ IsFiniteSet(A) /\ Cardinality(A) = n + 1
  BY BarrierNotOverfull
<1>6. arrived[p] = A
  <2> HIDE DEF A
  <2>1. Cardinality(A) = Cardinality(arrived[p])
    BY <1>5 DEF BarrierSize
  <2> QED BY <1>5, <2>1, FS_Subset
<1>7. TheCaller(p) \notin W
  BY <1>1, <1>2 DEF TheCaller, Caller, Destroyer
<1>8. HasCaller(p, {"first", "second", "destroy"})
  <2> HIDE DEF W
  <2> QED BY <1>3, <1>6, <1>7
<1>9. ASSUME NEW t \in Threads, t < n PROVE At(p, t) \in {"first", "second"}
  <2>1. t \in 0 .. (n - 1) /\ t # TheCaller(p)
    BY <1>1, <1>9 DEF Threads, TheCaller, Caller, Destroyer
  <2>2. t \in W
    BY <1>3, <1>6, <2>1
  <2> QED BY <2>2
<1> QED BY <1>8, <1>9

\* The barrier lets the caller and the threads into the next part.
LEMMA InvBarrier == ASSUME Inv, NEW p \in Pools \ broken, Barrier(p), Typed' PROVE PoolInv(p)'
<1> USE RanksOfPool
<1> DEFINE mine == {r \in Ranks : PoolOf(r) = p /\ pc[r] \in {"first", "second", "destroy"}}
<1>1. /\ worker' = [worker EXCEPT ![p] = [t \in Threads |-> IF t \in arrived[p]
                       THEN [worker[p][t] EXCEPT !.pc = Released(worker[p][t].pc)]
                       ELSE worker[p][t]]]
      /\ pc' = [r \in Ranks |-> IF r \in mine THEN CallerReleased(pc[r]) ELSE pc[r]]
      /\ arrived' = [arrived EXCEPT ![p] = IF \E r \in mine : pc[r] = "first" THEN {Caller} ELSE {}]
      /\ UNCHANGED <<nb_region_per_channel, pool, chan_mutex, ctx_mutex, req, moved>>
  <2>1. worker' = [worker EXCEPT ![p] = [t \in Threads |-> IF t \in arrived[p]
                     THEN [worker[p][t] EXCEPT !.pc = Released(worker[p][t].pc)]
                     ELSE worker[p][t]]]
    BY DEF Barrier
  <2>2. UNCHANGED <<nb_region_per_channel, pool, chan_mutex, ctx_mutex, req, moved>>
    BY DEF Barrier
  <2>3. /\ pc' = [r \in Ranks |-> IF r \in mine THEN CallerReleased(pc[r]) ELSE pc[r]]
        /\ arrived' = [arrived EXCEPT ![p] = IF \E r \in mine : pc[r] = "first" THEN {Caller} ELSE {}]
    BY Zenon DEF Barrier
  <2> QED BY <2>1, <2>2, <2>3
<1>2. Typed /\ PoolInv(p) /\ CtxLocked
  BY DEF Inv
<1>3. PICK u \in RanksOf(p) : pc[u] \in {"first", "second", "destroy"}
  BY BarrierFull DEF Barrier, HasCaller
<1>4. \A q \in RanksOf(p) \ {u} : pc[q] \in {"down", "up", "lock"}
  BY <1>3, SoleCaller
<1>5. mine = {u}
  BY <1>3, <1>4 DEF RanksOf
<1>6. /\ \A q \in Ranks \ {u} : pc'[q] = pc[q]
      /\ pc'[u] = CallerReleased(pc[u])
  BY <1>1, <1>2, <1>3, <1>5 DEF Typed, CallerReleased, CallerPoints
<1>7. arrived'[p] = IF pc[u] = "first" THEN {Caller} ELSE {}
  BY <1>1, <1>2, <1>5 DEF Typed
<1> HIDE DEF mine
<1>8. ASSUME NEW t \in Threads
      PROVE  /\ worker[p][t] \in WorkerStates
             /\ [worker[p][t] EXCEPT !.pc = Released(worker[p][t].pc)] \in WorkerStates
             /\ [worker[p][t] EXCEPT !.pc = Released(worker[p][t].pc)].pc = Released(worker[p][t].pc)
  <2>1. worker[p][t] \in WorkerStates
    BY <1>2 DEF Typed
  <2>2. Released(worker[p][t].pc) \in WorkerPoints
    BY <2>1 DEF WorkerStates, WorkerPoints, Released
  <2> QED BY <2>1, <2>2 DEF WorkerStates
<1>9. \A t \in Threads : worker'[p][t].pc = IF t \in arrived[p] THEN Released(worker[p][t].pc)
                                            ELSE worker[p][t].pc
  BY <1>1, <1>2, <1>8 DEF Typed
<1>10. /\ \A t \in Threads : t < pool[p].nb_threads => At(p, t) \in {"first", "second"}
       /\ \A t \in Threads : At(p, t) # "none" => t < pool[p].nb_threads
       /\ \A t \in Threads : t \in arrived[p] <=> At(p, t) \in {"first", "second"}
  <2>1. Cardinality(arrived[p]) = BarrierSize(p)
    BY DEF Barrier
  <2>2. \A t \in Threads : t < pool[p].nb_threads => At(p, t) \in {"first", "second"}
    BY <2>1, BarrierFull
  <2>3. \A t \in Threads : At(p, t) # "none" => t < pool[p].nb_threads
    BY <1>2 DEF PoolInv, InPhase
  <2>4. \A t \in Threads : t # Caller /\ t # Destroyer
    BY DEF Threads, Caller, Destroyer
  <2>5. \A t \in Threads : t \in arrived[p] <=> At(p, t) \in {"first", "second"}
    BY <1>2, <2>4 DEF PoolInv, Gathered
  <2> QED BY <2>2, <2>3, <2>5
<1>11. \A t \in Threads : At(p, t) = IF t < pool[p].nb_threads
                                     THEN IF pc[u] = "second" THEN "second" ELSE "first" ELSE "none"
  BY <1>2, <1>3, <1>4, <1>10 DEF PoolInv, InPhase, HasCaller
<1>12. \A t \in Threads : worker'[p][t].pc = IF t < pool[p].nb_threads
                                     THEN IF pc[u] = "second" THEN "loop" ELSE "go" ELSE "none"
  BY <1>9, <1>10, <1>11 DEF At, Released
<1>13. Proper(p)'
  BY <1>1, <1>2, <1>3, <1>6 DEF PoolInv, Proper, CallerPoints, CallerReleased
<1>15. Locked(p)'
  <2>1. Users(p)' = Users(p)
    BY <1>3, <1>6 DEF Users, CallerReleased
  <2> QED BY <1>1, <1>2, <1>3, <1>6, <2>1 DEF PoolInv, Locked, HasCaller, CallerReleased
<1>16. Configured(p)'
  BY <1>1, <1>2, <1>3, <1>6 DEF PoolInv, Configured, CallerReleased
<1>17. InPhase(p)'
  <2>1. HasCaller(p, CallerPoints \ {"down"})'
    BY <1>3, <1>6 DEF HasCaller, CallerPoints, CallerReleased
  <2>2. /\ HasCaller(p, {"second"})' <=> pc[u] = "first"
        /\ HasCaller(p, {"join"})' <=> pc[u] = "destroy"
        /\ HasCaller(p, {"second", "join"})' <=> pc[u] # "second"
    BY <1>3, <1>4, <1>6 DEF HasCaller, CallerReleased
  <2> QED BY <1>1, <1>3, <1>12, <2>1, <2>2 DEF InPhase, At
<1>18. Gathered(p)'
  BY <1>3, <1>4, <1>6, <1>7, <1>12 DEF Gathered, At, HasCaller, CallerReleased
<1>19. Sliced(p)'
  BY <1>12 DEF Sliced
<1>20. Moved(p)'
  <2>1. \A q \in RanksOf(p) \ {u} :
          pc'[q] = pc[q] /\ pc[q] \notin {"first", "second", "release"}
    BY <1>4, <1>6
  <2>2. CASE pc[u] = "first"
    <3>1. /\ pool[p].for_xfer \in 1 .. 8 /\ 0 .. (pool[p].for_xfer - 1) \subseteq Threads
      BY <2>2, TransferFacts
    <3>2. \A d \in Lines : moved[u][d] = 0
      BY <1>2, <2>2 DEF PoolInv, Moved
    <3>3. \A t \in Threads : \A d : ~Passed(worker'[p][t], d)
      BY <1>12, <2>2 DEF Passed
    <3>4. pc'[u] = "second"
      BY <1>6, <2>2 DEF CallerReleased
    <3>5. \A t \in 0 .. (pool[p].for_xfer - 1) : Slice(t, pool[p].for_xfer) \subseteq Lines
      BY <3>1, SliceBounds
    <3>6. \A t \in 0 .. (pool[p].for_xfer - 1) : \A d \in Slice(t, pool[p].for_xfer) :
            moved[u][d] = 0 /\ ~Passed(worker'[p][t], d)
      BY <3>1, <3>2, <3>3, <3>5
    <3> QED BY <1>1, <1>2, <2>1, <3>4, <3>6 DEF PoolInv, Moved
  <2>3. CASE pc[u] = "second"
    <3> DEFINE n == pool[p].for_xfer
    <3>1. n \in 1 .. 8 /\ n <= pool[p].nb_threads /\ 0 .. (n - 1) \subseteq Threads
          /\ pool[p].nb_threads \in 1 .. 8
      BY <2>3, TransferFacts
    <3>2. ASSUME NEW d \in Lines
          PROVE  moved[u][d] = IF d \in Xfer!Wanted(req[u]) THEN 1 ELSE 0
      <4>1. PICK t \in 0 .. (n - 1) : d \in Slice(t, n)
        BY <3>1, SlicesCover
      <4>2. Passed(worker[p][t], d)
        BY <1>11, <2>3, <3>1, <4>1 DEF Passed, At
      <4> QED BY <1>2, <2>3, <4>1, <4>2 DEF PoolInv, Moved
    <3>3. pc'[u] = "release"
      BY <1>6, <2>3 DEF CallerReleased
    <3> QED BY <1>1, <1>2, <2>1, <3>2, <3>3 DEF PoolInv, Moved
  <2>4. CASE pc[u] = "destroy"
    <3>1. pc'[u] = "join"
      BY <1>6, <2>4 DEF CallerReleased
    <3> QED BY <1>1, <1>2, <2>1, <3>1 DEF PoolInv, Moved
  <2> QED BY <1>3, <2>2, <2>3, <2>4
<1> QED BY <1>13, <1>15, <1>16, <1>17, <1>18, <1>19, <1>20 DEF PoolInv

-----------------------------------------------------------------------------
(* The types, and xeon_sp_ctx.mutex, whether or not a creation has failed.    *)

\* No step mends a broken pool.
LEMMA BrokenGrows == [Next]_vars => broken \subseteq broken'
<1> SUFFICES ASSUME [Next]_vars PROVE broken \subseteq broken'
  OBVIOUS
<1>1. ASSUME NEW r \in Ranks,
             \/ xeon_sp_init_rank(r) \/ InitFails(r) \/ InitUndefined(r)
             \/ xeon_sp_destroy_rank(r) \/ Joined(r)
      PROVE  broken \subseteq broken'
  BY <1>1 DEF xeon_sp_init_rank, InitFails, InitUndefined, xeon_sp_destroy_rank, Joined
<1>2. ASSUME NEW r \in Ranks,
             \/ \E x \in Transfers : CallXfer(r, x)
             \/ xeon_sp_init_and_do_xfer(r) \/ xeon_sp_release_pool(r)
      PROVE  broken \subseteq broken'
  BY <1>2 DEF CallXfer, xeon_sp_init_and_do_xfer, xeon_sp_release_pool
<1>3. ASSUME NEW p \in Pools, Barrier(p) PROVE broken' = broken
  BY <1>3 DEF Barrier
<1>4. ASSUME NEW p \in Pools, NEW t \in Threads, thread_mram(p, t) PROVE broken' = broken
  BY <1>4 DEF thread_mram, Wait, Start, Line
<1>5. CASE UNCHANGED vars
  BY <1>5 DEF vars
<1> QED BY <1>1, <1>2, <1>3, <1>4, <1>5 DEF Next

\* The callers that were asked for a transfer have one.
LEMMA RequestedNext == ASSUME Typed, [Next]_vars PROVE Requested'
<1>1. WordsInv
  BY DEF Typed, WordsInv, Shape
<1> QED BY <1>1, WordsNext DEF WordsInv

\* Opening a rank.
LEMMA TypedInit ==
  ASSUME Typed, CtxLocked, Requested', NEW p \in Pools, NEW r \in RanksOf(p),
         xeon_sp_init_rank(r) \/ InitFails(r) \/ InitUndefined(r)
  PROVE  Typed' /\ CtxLocked'
<1> USE RanksOfPool, NoRankIsNone
<1>1. pc[r] = "down" /\ ctx_mutex = NoRank /\ \A q \in Ranks : pc[q] \notin {"destroy", "join"}
  BY DEF xeon_sp_init_rank, InitFails, InitUndefined, CanInit, CtxLocked
<1>2. ASSUME NEW k, Created(r, k) \/ UNCHANGED <<pool, worker>>
      PROVE  /\ pool' \in [Pools -> PoolStates] /\ worker' \in [Pools -> [Threads -> WorkerStates]]
             /\ \A o \in Pools : pool'[o].tr = pool[o].tr
  BY <1>2, CreatedTyped DEF Typed
<1>3. CASE xeon_sp_init_rank(r)
  <2>1. /\ pool' \in [Pools -> PoolStates] /\ worker' \in [Pools -> [Threads -> WorkerStates]]
        /\ \A o \in Pools : pool'[o].tr = pool[o].tr
    <3>1. Created(r, ThreadsPerPool(r)) \/ UNCHANGED <<pool, worker>>
      BY <1>3 DEF xeon_sp_init_rank
    <3> QED BY <1>2, <3>1
  <2>2. /\ pc' = [pc EXCEPT ![r] = "up"]
        /\ nb_region_per_channel' = [nb_region_per_channel EXCEPT ![p] = @ + 1]
        /\ UNCHANGED <<arrived, chan_mutex, ctx_mutex, req, moved, broken>>
    BY <1>3 DEF xeon_sp_init_rank
  <2> QED BY <1>1, <2>1, <2>2 DEF Typed, CtxLocked, Points
<1>4. CASE InitFails(r)
  <2>1. /\ pool' \in [Pools -> PoolStates] /\ worker' \in [Pools -> [Threads -> WorkerStates]]
        /\ \A o \in Pools : pool'[o].tr = pool[o].tr
    <3>1. PICK k \in 0 .. (ThreadsPerPool(r) - 1) : Created(r, k)
      BY <1>4 DEF InitFails
    <3> QED BY <1>2, <3>1
  <2>2. /\ pc' = [pc EXCEPT ![r] = "up"] /\ broken' = broken \cup {p}
        /\ UNCHANGED <<nb_region_per_channel, arrived, chan_mutex, ctx_mutex, req, moved>>
    BY <1>4 DEF InitFails
  <2> QED BY <1>1, <2>1, <2>2 DEF Typed, CtxLocked, Points
<1>5. CASE InitUndefined(r)
  <2>1. Idle \in WorkerStates
    BY NrDpusPerCiAssumption DEF Idle, WorkerStates, WorkerPoints
  <2>2. worker' \in [Pools -> [Threads -> WorkerStates]] /\ pc' \in [Ranks -> Points]
    BY <1>5, <2>1 DEF InitUndefined, Typed, Points
  <2>3. CtxLocked'
    BY <1>1, <1>5 DEF InitUndefined, CtxLocked
  <2> QED BY <1>5, <2>2, <2>3 DEF InitUndefined, Typed
<1> QED BY <1>3, <1>4, <1>5

\* Closing a rank.
LEMMA TypedDestroy ==
  ASSUME Typed, CtxLocked, Requested', NEW p \in Pools, NEW r \in RanksOf(p),
         xeon_sp_destroy_rank(r) \/ Joined(r)
  PROVE  Typed' /\ CtxLocked'
<1> USE RanksOfPool, NoRankIsNone
<1>1. CASE xeon_sp_destroy_rank(r) /\ nb_region_per_channel[p] = 1
  <2>1. /\ pool' = [pool EXCEPT ![p] = [pool[p] EXCEPT !.stop_thread = TRUE]]
        /\ arrived' = [arrived EXCEPT ![p] = @ \cup {Destroyer}]
        /\ pc' = [pc EXCEPT ![r] = "destroy"] /\ ctx_mutex = NoRank /\ ctx_mutex' = r
        /\ nb_region_per_channel' = [nb_region_per_channel EXCEPT ![p] = @ - 1]
        /\ UNCHANGED <<worker, chan_mutex, req, moved, broken>>
    BY <1>1 DEF xeon_sp_destroy_rank
  <2>2. [pool[p] EXCEPT !.stop_thread = TRUE] \in PoolStates
        /\ [pool[p] EXCEPT !.stop_thread = TRUE].tr = pool[p].tr
    <3>1. pool[p] \in PoolStates
      BY DEF Typed
    <3> QED BY <3>1 DEF PoolStates
  <2>3. pool' \in [Pools -> PoolStates] /\ \A o \in Pools : pool'[o].tr = pool[o].tr
    BY <2>1, <2>2 DEF Typed
  <2>4. arrived' \in [Pools -> SUBSET (Threads \cup {Caller, Destroyer})]
    BY <2>1 DEF Typed
  <2> QED BY <2>1, <2>3, <2>4 DEF Typed, CtxLocked, Points
<1>2. CASE xeon_sp_destroy_rank(r) /\ nb_region_per_channel[p] # 1
  <2>1. /\ pc[r] = "up" /\ pc' = [pc EXCEPT ![r] = "down"]
        /\ nb_region_per_channel' = [nb_region_per_channel EXCEPT ![p] = @ - 1]
        /\ UNCHANGED <<pool, arrived, ctx_mutex, worker, chan_mutex, req, moved, broken>>
    BY <1>2 DEF xeon_sp_destroy_rank
  <2> QED BY <2>1 DEF Typed, CtxLocked, Points
<1>3. CASE Joined(r)
  <2>1. Idle \in WorkerStates
    BY NrDpusPerCiAssumption DEF Idle, WorkerStates, WorkerPoints
  <2>2. ctx_mutex = r
    BY <1>3 DEF Joined, CtxLocked
  <2>3. worker' \in [Pools -> [Threads -> WorkerStates]]
    BY <1>3, <2>1 DEF Joined, Typed
  <2> QED BY <1>3, <2>2, <2>3 DEF Joined, Typed, CtxLocked, Points
<1> QED BY <1>1, <1>2, <1>3

\* Transfers.
LEMMA TypedXfer ==
  ASSUME Typed, CtxLocked, Requested', NEW p \in Pools, NEW r \in RanksOf(p),
         \/ \E x \in Transfers : CallXfer(r, x)
         \/ xeon_sp_init_and_do_xfer(r) \/ xeon_sp_release_pool(r)
  PROVE  Typed' /\ CtxLocked'
<1> USE RanksOfPool, NoRankIsNone
<1>1. ASSUME NEW x \in Transfers, CallXfer(r, x) PROVE Typed' /\ CtxLocked'
  BY <1>1 DEF CallXfer, Typed, CtxLocked, Points
<1>2. CASE xeon_sp_release_pool(r)
  BY <1>2 DEF xeon_sp_release_pool, Typed, CtxLocked, Points
<1>3. CASE xeon_sp_init_and_do_xfer(r)
  <2> DEFINE n == ThreadsForXfer(r, req[r].size)
  <2>1. /\ pc[r] = "lock" /\ pc' = [pc EXCEPT ![r] = "first"]
        /\ chan_mutex' = [chan_mutex EXCEPT ![p] = r]
        /\ pool' = [pool EXCEPT ![p] = [pool[p] EXCEPT !.tr = r, !.for_xfer = n]]
        /\ arrived' = [arrived EXCEPT ![p] = @ \cup {Caller}]
        /\ UNCHANGED <<nb_region_per_channel, worker, ctx_mutex, req, moved, broken>>
    BY <1>3 DEF xeon_sp_init_and_do_xfer
  <2>2. n \in 0 .. 8
    <3>1. req[r].size \in Nat
      BY <2>1, TransfersAssumption DEF Typed, Requested
    <3> QED BY <3>1, ThreadsForXferRange
  <2> HIDE DEF n
  <2>3. [pool[p] EXCEPT !.tr = r, !.for_xfer = n] \in PoolStates
        /\ [pool[p] EXCEPT !.tr = r, !.for_xfer = n].tr = r
    <3>1. pool[p] \in PoolStates
      BY DEF Typed
    <3>2. [pool[p] EXCEPT !.tr = r] \in PoolStates
      BY <3>1 DEF PoolStates
    <3> QED BY <2>2, <3>1, <3>2 DEF PoolStates
  <2>4. pool' \in [Pools -> PoolStates] /\ \A o \in Pools : pool'[o].tr \in RanksOf(o) \cup {NoRank}
    BY <2>1, <2>3 DEF Typed
  <2>5. arrived' \in [Pools -> SUBSET (Threads \cup {Caller, Destroyer})]
    BY <2>1 DEF Typed
  <2> QED BY <2>1, <2>4, <2>5 DEF Typed, CtxLocked, Points
<1> QED BY <1>1, <1>2, <1>3

\* The slice of a thread is made of lines, even before the first transfer.
LEMMA SliceTyped ==
  ASSUME NEW n \in 0 .. 8, NEW t \in Threads, t < n, NEW m \in {0, NrDpusPerCi}
  PROVE  SliceStart(t, n, m) \in 0 .. NrDpusPerCi /\ SliceStop(t, n, m) \in 0 .. NrDpusPerCi
<1>1. n \in 1 .. 8 /\ t \in 0 .. (n - 1) /\ NrDpusPerCi \in Nat
  BY NrDpusPerCiAssumption DEF Threads
<1>2. CASE m = NrDpusPerCi
  BY <1>1, <1>2, SliceBounds
<1>3. CASE m = 0
  <2>1. 0 \div n = 0
    BY <1>1, SMT
  <2>2. t * 0 = 0 /\ (t + 1) * 0 = 0
    BY <1>1, SMT
  <2> QED BY <1>1, <1>3, <2>1, <2>2 DEF SliceStart, SliceStop
<1> QED BY <1>2, <1>3

\* The steps of the barrier and of the threads.
LEMMA TypedThreads ==
  ASSUME Typed, CtxLocked, Requested', NEW p \in Pools,
         Barrier(p) \/ \E t \in Threads : thread_mram(p, t)
  PROVE  Typed' /\ CtxLocked'
<1> USE RanksOfPool, NoRankIsNone
<1>1. ASSUME Barrier(p) PROVE Typed' /\ CtxLocked'
  <2>1. ASSUME NEW t \in Threads
        PROVE  [worker[p][t] EXCEPT !.pc = Released(worker[p][t].pc)] \in WorkerStates
    <3>1. worker[p][t] \in WorkerStates
      BY DEF Typed
    <3>2. Released(worker[p][t].pc) \in WorkerPoints
      BY <3>1 DEF WorkerStates, WorkerPoints, Released
    <3> QED BY <3>1, <3>2 DEF WorkerStates
  <2>2. worker' \in [Pools -> [Threads -> WorkerStates]]
    BY <1>1, <2>1 DEF Barrier, Typed
  <2>3. \A q \in Ranks : pc'[q] = pc[q] \/ (pc[q] \in {"first", "second", "destroy"} /\ pc'[q] = CallerReleased(pc[q]))
    BY <1>1 DEF Barrier
  <2>4. pc' \in [Ranks -> Points]
    <3>1. \A q \in Ranks : pc'[q] \in Points
      BY <2>3 DEF CallerReleased, Points, Typed
    <3>2. pc' = [q \in Ranks |-> pc'[q]]
      BY <1>1 DEF Barrier
    <3> QED BY <3>1, <3>2
  <2>5. arrived' \in [Pools -> SUBSET (Threads \cup {Caller, Destroyer})]
    <3>1. PICK a \in {{Caller}, {}} : arrived' = [arrived EXCEPT ![p] = a]
      BY <1>1, Zenon DEF Barrier
    <3> QED BY <3>1 DEF Typed
  <2>6. CtxLocked'
    BY <1>1, <2>3 DEF Barrier, CtxLocked, CallerReleased
  <2> QED BY <1>1, <2>2, <2>4, <2>5, <2>6 DEF Barrier, Typed
<1>2. ASSUME NEW t \in Threads, Wait(p, t) PROVE Typed' /\ CtxLocked'
  <2>1. ASSUME NEW w \in WorkerPoints PROVE [worker[p][t] EXCEPT !.pc = w] \in WorkerStates
    <3>1. worker[p][t] \in WorkerStates
      BY DEF Typed
    <3> QED BY <3>1 DEF WorkerStates
  <2>2. worker' \in [Pools -> [Threads -> WorkerStates]]
    BY <1>2, <2>1 DEF Wait, Typed, WorkerPoints
  <2>3. arrived' \in [Pools -> SUBSET (Threads \cup {Caller, Destroyer})]
    BY <1>2 DEF Wait, Typed
  <2> QED BY <1>2, <2>2, <2>3 DEF Wait, Typed, CtxLocked
<1>3. ASSUME NEW t \in Threads, Start(p, t) PROVE Typed' /\ CtxLocked'
  <2> DEFINE n == pool[p].for_xfer
             m == pool[p].nb_dpus_per_ci
  <2>1. ASSUME NEW w \in WorkerPoints PROVE [worker[p][t] EXCEPT !.pc = w] \in WorkerStates
    <3>1. worker[p][t] \in WorkerStates
      BY DEF Typed
    <3> QED BY <3>1 DEF WorkerStates
  <2>2. n \in 0 .. 8 /\ m \in {0, NrDpusPerCi} /\ pool[p].tr \in Ranks \cup {NoRank} /\ t \in Int
    BY DEF Typed, PoolStates, Threads
  <2> HIDE DEF n, m
  <2>3. t < n => [pc |-> "work", next |-> SliceStart(t, n, m), stop |-> SliceStop(t, n, m),
                  matrix |-> pool[p].tr] \in WorkerStates
    BY <2>2, SliceTyped DEF WorkerStates, WorkerPoints
  <2>4. \E w \in WorkerStates : worker' = [worker EXCEPT ![p] = [worker[p] EXCEPT ![t] = w]]
    <3>1. CASE pool[p].stop_thread
      BY <1>3, <2>1, <3>1 DEF Start, WorkerPoints
    <3>2. CASE ~pool[p].stop_thread /\ t >= n
      BY <1>3, <2>1, <3>2 DEF Start, WorkerPoints, n
    <3>3. CASE ~pool[p].stop_thread /\ ~(t >= n)
      <4>1. t < n
        BY <2>2, <3>3
      <4>2. worker' = [worker EXCEPT ![p] = [worker[p] EXCEPT ![t] =
                         [pc |-> "work", next |-> SliceStart(t, n, m), stop |-> SliceStop(t, n, m),
                          matrix |-> pool[p].tr]]]
        BY <1>3, <3>3, Zenon DEF Start, n, m
      <4> QED BY <2>3, <4>1, <4>2
    <3> QED BY <3>1, <3>2, <3>3
  <2>5. worker' \in [Pools -> [Threads -> WorkerStates]]
    BY <2>4 DEF Typed
  <2> QED BY <1>3, <2>5 DEF Start, Typed, CtxLocked
<1>4. ASSUME NEW t \in Threads, Line(p, t) PROVE Typed' /\ CtxLocked'
  <2> DEFINE w == worker[p][t]
  <2>1. w \in WorkerStates /\ w.next \in Nat /\ w.stop \in 0 .. NrDpusPerCi
    BY NrDpusPerCiAssumption DEF Typed, WorkerStates
  <2>2. [Idle EXCEPT !.pc = "done"] \in WorkerStates
    BY NrDpusPerCiAssumption DEF Idle, WorkerStates, WorkerPoints
  <2>3. w.next < w.stop => [w EXCEPT !.next = w.next + 1] \in WorkerStates
    <3> HIDE DEF w
    <3>1. w.next < w.stop => w.next + 1 \in 0 .. NrDpusPerCi
      BY <2>1, NrDpusPerCiAssumption
    <3> QED BY <2>1, <3>1 DEF WorkerStates
  <2>4. \E v \in WorkerStates : worker' = [worker EXCEPT ![p] = [worker[p] EXCEPT ![t] = v]]
    <3>1. CASE w.next >= w.stop \/ req[w.matrix].size = 0
      BY <1>4, <2>2, <3>1 DEF Line
    <3>2. CASE ~(w.next >= w.stop \/ req[w.matrix].size = 0)
      <4>1. w.next < w.stop
        BY <2>1, <3>2
      <4> QED BY <1>4, <2>3, <3>2, <4>1 DEF Line
    <3> QED BY <3>1, <3>2
  <2>5. moved' \in [Ranks -> [Lines -> {0, 1, 2}]]
    <3> DEFINE i == IF moved[pool[p].tr][w.next] = 0 /\ pool[p].tr = w.matrix THEN 1 ELSE 2
    <3>1. moved' = moved \/ moved' = [moved EXCEPT ![pool[p].tr][w.next] = i]
      BY <1>4 DEF Line
    <3>2. i \in {0, 1, 2}
      OBVIOUS
    <3> DEFINE base == pool[p].tr
               g == [moved[base] EXCEPT ![w.next] = i]
    <3>3. moved' = moved \/ moved' = [moved EXCEPT ![base] = g]
      BY <3>1
    <3>4. base \in Ranks => g \in [Lines -> {0, 1, 2}]
      <4>1. base \in Ranks => moved[base] \in [Lines -> {0, 1, 2}]
        BY DEF Typed
      <4> HIDE DEF i, base, w
      <4> QED BY <3>2, <4>1
    <3>5. moved \in [Ranks -> [Lines -> {0, 1, 2}]]
      BY DEF Typed
    <3> HIDE DEF i, base, g
    <3>6. CASE base \in Ranks
      <4>1. [moved EXCEPT ![base] = g] \in [Ranks -> [Lines -> {0, 1, 2}]]
        BY <3>4, <3>5, <3>6
      <4> QED BY <3>3, <3>5, <4>1
    <3>7. CASE base \notin Ranks
      <4>1. [moved EXCEPT ![base] = g] = moved
        BY <3>5, <3>7
      <4> QED BY <3>3, <3>5, <4>1
    <3> QED BY <3>6, <3>7
  <2>6. worker' \in [Pools -> [Threads -> WorkerStates]]
    BY <2>4 DEF Typed
  <2> QED BY <1>4, <2>5, <2>6 DEF Line, Typed, CtxLocked
<1> QED BY <1>1, <1>2, <1>3, <1>4 DEF thread_mram

LEMMA TypedNext == ASSUME Typed, CtxLocked, [Next]_vars PROVE Typed' /\ CtxLocked'
<1>1. Requested'
  BY RequestedNext
<1>2. ASSUME NEW p \in Pools, PoolStep(p) PROVE Typed' /\ CtxLocked'
  BY <1>1, <1>2, TypedInit, TypedDestroy, TypedXfer, TypedThreads DEF PoolStep
<1>3. CASE UNCHANGED vars
  BY <1>1, <1>3 DEF vars, Typed, CtxLocked
<1> QED BY <1>2, <1>3, StepsOfPools

LEMMA InvNext == ASSUME Inv, [Next]_vars PROVE Inv'
<1> USE RanksOfPool
<1>1. Typed' /\ CtxLocked'
  BY TypedNext DEF Inv
<1>2. broken \subseteq broken'
  BY BrokenGrows
<1>3. ASSUME NEW p \in Pools, PoolStep(p), NEW o \in Pools \ broken' PROVE PoolInv(o)'
  <2>1. o \in Pools \ broken
    BY <1>2
  <2>2. CASE o # p
    <3>1. PoolInv(o) /\ Kept(o)
      BY <1>3, <2>1, <2>2, Elsewhere DEF Inv
    <3> QED BY <3>1, KeptPool
  <2>3. CASE o = p
    <3>1. ASSUME NEW r \in RanksOf(o), InitFails(r) \/ InitUndefined(r) PROVE FALSE
      <4>1. InitFails(r) => o \in broken'
        BY DEF InitFails
      <4>2. ~InitUndefined(r)
        BY <2>1, QuietAtZero DEF InitUndefined, CanInit
      <4> QED BY <3>1, <4>1, <4>2
    <3>2. ASSUME NEW r \in RanksOf(o),
                 \/ xeon_sp_init_rank(r) \/ xeon_sp_destroy_rank(r) \/ Joined(r)
                 \/ \E x \in Transfers : CallXfer(r, x)
                 \/ xeon_sp_init_and_do_xfer(r) \/ xeon_sp_release_pool(r)
          PROVE  PoolInv(o)'
      BY <1>1, <2>1, <3>2, InvInitRank, InvDestroyRank, InvJoined, InvCallXfer, InvDoXfer,
         InvReleasePool
    <3>3. ASSUME Barrier(o) \/ \E t \in Threads : thread_mram(o, t) PROVE PoolInv(o)'
      BY <1>1, <2>1, <3>3, InvBarrier, InvWait, InvStart, InvLine DEF thread_mram
    <3> QED BY <1>3, <2>3, <3>1, <3>2, <3>3 DEF PoolStep
  <2> QED BY <2>2, <2>3
<1>4. CASE UNCHANGED vars
  <2>1. \A p \in Pools \ broken : Kept(p) /\ PoolInv(p)
    BY <1>4 DEF vars, Kept, Inv
  <2>2. \A p \in Pools \ broken : PoolInv(p)'
    BY <2>1, KeptPool
  <2> QED BY <1>1, <1>4, <2>2 DEF vars, Inv
<1> QED BY <1>1, <1>3, <1>4, StepsOfPools DEF Inv

\* The invariant holds in every state of the pools.
THEOREM InvHolds == Spec => []Inv
BY InvInit, InvNext, PTL DEF Spec

\* The fields of the pools, the threads and the callers have their types; in a pool
\* whose creations succeeded no more than its threads and one caller meet at the
\* barrier, and no line is ever moved twice or with the data of another rank.
THEOREM TypeCorrect == Spec => []TypeOK
<1>1. Inv => TypeOK
  <2> SUFFICES ASSUME Inv PROVE TypeOK
    OBVIOUS
  <2> USE RanksOfPool
  <2>1. Typed
    BY DEF Inv
  <2>2. ASSUME NEW p \in Pools \ broken PROVE nb_region_per_channel[p] \in 0 .. Cardinality(Ranks)
    <3>1. Users(p) \in SUBSET Ranks
      BY DEF Users
    <3>2. Cardinality(Users(p)) <= Cardinality(Ranks) /\ Cardinality(Ranks) \in Nat
      BY <3>1, RanksAssumption, FS_Subset, FS_CardinalityType
    <3> QED BY <3>2, UsersFinite DEF Inv, PoolInv, Locked
  <2>3. ASSUME NEW p \in Pools
        PROVE  /\ pool[p].tr \in Ranks \cup {NoRank}
               /\ pool[p].nb_threads \in 0 .. MAX_THREAD_PER_POOL
               /\ pool[p].for_xfer \in 0 .. MAX_THREAD_PER_POOL
               /\ arrived[p] \subseteq Threads \cup {Caller, Destroyer}
               /\ \A t \in Threads : worker[p][t].stop \in 0 .. NrDpusPerCi
    BY <2>1 DEF Typed, PoolStates, WorkerStates, MAX_THREAD_PER_POOL
  <2>4. ASSUME NEW p \in Pools \ broken PROVE Cardinality(arrived[p]) <= BarrierSize(p)
    BY BarrierNotOverfull DEF BarrierSize
  <2>5. ASSUME NEW r \in Ranks, PoolOf(r) \notin broken
        PROVE  pc[r] # "undefined" /\ moved[r] \in [Lines -> {0, 1}]
    BY <2>5 DEF Inv, PoolInv, Proper, CallerPoints
  <2> QED BY <2>1, <2>2, <2>3, <2>4, <2>5 DEF TypeOK, Typed, Points
<1> QED BY <1>1, InvHolds, PTL

-----------------------------------------------------------------------------
(* Every step of the pools is a step of MramXfer, or leaves its state alone.  *)

LEMMA StatusOf ==
  /\ Status("down") = "down"
  /\ \A w \in {"up", "destroy", "join"} : Status(w) = "up"
  /\ \A w \in {"lock", "first", "second", "release"} : Status(w) = "busy"
BY DEF Status

\* The state of MramXfer, as the pools show it.
XStatus == [r \in Ranks |-> IF Lost(r) THEN "lost" ELSE Status(pc[r])]
XReq == [r \in Ranks |-> IF Lost(r) THEN NoXfer ELSE req[r]]
XDone == [r \in Ranks |-> IF Lost(r) THEN {} ELSE LinesOnce(moved[r])]

\* A caller that moves on changes the status of its rank only.
LEMMA StatusStep ==
  ASSUME Typed, UNCHANGED broken, NEW r \in Ranks, ~Lost(r), NEW w, pc' = [pc EXCEPT ![r] = w]
  PROVE  XStatus' = [XStatus EXCEPT ![r] = Status(w)] /\ XStatus[r] = Status(pc[r])
<1>1. \A q \in Ranks : Lost(q)' <=> Lost(q)
  BY DEF Lost
<1>2. \A q \in Ranks : pc'[q] = IF q = r THEN w ELSE pc[q]
  BY DEF Typed
<1>3. \A q \in Ranks : /\ XStatus'[q] = IF Lost(q)' THEN "lost" ELSE Status(pc'[q])
                       /\ XStatus[q] = IF Lost(q) THEN "lost" ELSE Status(pc[q])
  BY DEF XStatus
<1>4. \A q \in Ranks : XStatus'[q] = IF q = r THEN Status(w) ELSE XStatus[q]
  <2> HIDE DEF Status, XStatus
  <2> QED BY <1>1, <1>2, <1>3
<1>5. XStatus = [q \in Ranks |-> XStatus[q]] /\ XStatus' = [q \in Ranks |-> XStatus'[q]]
  BY DEF XStatus
<1>6. XStatus[r] = Status(pc[r])
  BY <1>3
<1> HIDE DEF XStatus, Status
<1> QED BY <1>4, <1>5, <1>6

\* Requests and lines stay when no caller asks and no thread moves.
LEMMA SameReqDone ==
  /\ UNCHANGED <<broken, req>> => XReq' = XReq
  /\ UNCHANGED <<broken, moved>> => XDone' = XDone
BY DEF XReq, XDone, Lost

\* Opening, closing and calling.
LEMMA OpenStep ==
  ASSUME Inv, NEW r \in Ranks, ~Lost(r), xeon_sp_init_rank(r) PROVE Xfer!Open(r)
<1>1. pc[r] = "down" /\ pc' = [pc EXCEPT ![r] = "up"] /\ UNCHANGED <<req, moved, broken>>
  BY DEF xeon_sp_init_rank, CanInit
<1>2. XStatus[r] = "down" /\ XStatus' = [XStatus EXCEPT ![r] = "up"]
  <2>1. Typed
    BY DEF Inv
  <2>2. XStatus' = [XStatus EXCEPT ![r] = Status("up")] /\ XStatus[r] = Status(pc[r])
    BY <1>1, <2>1, StatusStep
  <2> QED BY <1>1, <2>2, StatusOf
<1>3. XReq' = XReq /\ XDone' = XDone
  BY <1>1, SameReqDone
<1> QED BY <1>2, <1>3 DEF Xfer!Open, XStatus, XReq, XDone

LEMMA CloseStep ==
  ASSUME Inv, NEW r \in Ranks, ~Lost(r), xeon_sp_destroy_rank(r) \/ Joined(r)
  PROVE  Xfer!Close(r) \/ UNCHANGED Xfer!vars
<1>1. PICK w \in {"down", "destroy"} :
         /\ pc' = [pc EXCEPT ![r] = w] /\ pc[r] \in {"up", "join"}
         /\ UNCHANGED <<req, moved, broken>>
  BY DEF xeon_sp_destroy_rank, Joined
<1>2. XStatus[r] = "up" /\ XStatus' = [XStatus EXCEPT ![r] = Status(w)]
  BY <1>1, StatusStep, StatusOf DEF Inv
<1>3. XReq' = XReq /\ XDone' = XDone
  BY <1>1, SameReqDone
<1>4. CASE w = "down"
  BY <1>2, <1>3, <1>4, StatusOf DEF Xfer!Close, XStatus, XReq, XDone
<1>5. CASE w = "destroy"
  <2>1. Status(w) = "up"
    BY <1>5, StatusOf
  <2> HIDE DEF Status
  <2>2. XStatus' = XStatus
    <3>1. XStatus = [q \in Ranks |-> XStatus[q]]
      BY DEF XStatus
    <3> QED BY <1>2, <2>1, <3>1
  <2> QED BY <1>3, <2>2 DEF Xfer!vars, XStatus, XReq, XDone
<1> QED BY <1>4, <1>5

LEMMA BeginStep ==
  ASSUME Inv, NEW r \in Ranks, ~Lost(r), NEW x \in Transfers, CallXfer(r, x) PROVE Xfer!Begin(r)
<1>1. /\ pc[r] = "up" /\ pc' = [pc EXCEPT ![r] = "lock"] /\ req' = [req EXCEPT ![r] = x]
      /\ moved' = [moved EXCEPT ![r] = [d \in Lines |-> 0]] /\ UNCHANGED broken
  BY DEF CallXfer
<1>2. Typed
  BY DEF Inv
<1>3. XStatus[r] = "up" /\ XStatus' = [XStatus EXCEPT ![r] = "busy"]
  <2>1. Typed
    BY DEF Inv
  <2>2. XStatus' = [XStatus EXCEPT ![r] = Status("lock")] /\ XStatus[r] = Status(pc[r])
    BY <1>1, <2>1, StatusStep
  <2> QED BY <1>1, <2>2, StatusOf
<1>4. LinesOnce(moved'[r]) = {} /\ \A q \in Ranks \ {r} : moved'[q] = moved[q]
  BY <1>1, <1>2 DEF LinesOnce, Typed
<1>5. XDone' = [XDone EXCEPT ![r] = {}]
  <2>1. \A q \in Ranks : XDone'[q] = IF q = r THEN {} ELSE XDone[q]
    BY <1>1, <1>4 DEF XDone, Lost
  <2> QED BY <2>1 DEF XDone
<1>6. XReq' = [XReq EXCEPT ![r] = x]
  <2>1. \A q \in Ranks : req'[q] = IF q = r THEN x ELSE req[q]
    BY <1>1, <1>2 DEF Typed
  <2> QED BY <1>1, <2>1 DEF XReq, Lost
<1> QED BY <1>3, <1>5, <1>6 DEF Xfer!Begin, XStatus, XReq, XDone

\* A transfer that returns has moved what it was to move.
LEMMA ReturnStep ==
  ASSUME Inv, NEW r \in Ranks, ~Lost(r), xeon_sp_release_pool(r) PROVE Xfer!Return(r)
<1> USE RanksOfPool
<1>1. pc[r] = "release" /\ pc' = [pc EXCEPT ![r] = "up"] /\ UNCHANGED <<req, moved, broken>>
  BY DEF xeon_sp_release_pool
<1>2. XStatus[r] = "busy" /\ XStatus' = [XStatus EXCEPT ![r] = "up"]
  <2>1. Typed
    BY DEF Inv
  <2>2. XStatus' = [XStatus EXCEPT ![r] = Status("up")] /\ XStatus[r] = Status(pc[r])
    BY <1>1, <2>1, StatusStep
  <2> QED BY <1>1, <2>2, StatusOf
<1>3. /\ req[r] \in Transfers
      /\ \A d \in Lines : moved[r][d] = IF d \in Xfer!Wanted(req[r]) THEN 1 ELSE 0
  BY <1>1 DEF Inv, PoolInv, Configured, Moved, Lost
<1>4. Xfer!Wanted(req[r]) \subseteq Lines
  BY <1>3, TransfersAssumption DEF Xfer!Wanted, Lines
<1>5. LinesOnce(moved[r]) = Xfer!Wanted(req[r])
  BY <1>3, <1>4 DEF LinesOnce
<1> HIDE DEF Xfer!Wanted
<1>6. XDone[r] = Xfer!Wanted(XReq[r])
  BY <1>5 DEF XDone, XReq
<1>7. XReq' = XReq /\ XDone' = XDone
  BY <1>1, SameReqDone
<1> QED BY <1>2, <1>6, <1>7 DEF Xfer!Return, XStatus, XReq, XDone

\* A line is moved while no other transfer of the channel is under way.
LEMMA MoveStep ==
  ASSUME Inv, NEW p \in Pools \ broken, NEW t \in Threads, Line(p, t)
  PROVE  (\E u \in Ranks : Xfer!Move(u)) \/ UNCHANGED Xfer!vars
<1> USE RanksOfPool
<1> DEFINE w == worker[p][t]
           x == req[w.matrix]
<1>1. w.pc = "work" /\ UNCHANGED <<pc, req, broken>>
  BY DEF Line
<1>2. PICK u \in RanksOf(p) :
           /\ pc[u] = "second" /\ pool[p].tr = u /\ w.matrix = u
           /\ w.next \in Nat
           /\ w.next < w.stop => w.next \in Lines /\ moved[u][w.next] = 0
  BY <1>1, LineFacts
<1>3. w.stop \in 0 .. NrDpusPerCi /\ moved \in [Ranks -> [Lines -> {0, 1, 2}]]
  BY DEF Inv, Typed, WorkerStates
<1>4. moved' = IF w.next < w.stop /\ w.next \in Xfer!Wanted(x)
               THEN [moved EXCEPT ![u] = [moved[u] EXCEPT ![w.next] = 1]] ELSE moved
  BY <1>2, <1>3 DEF Line, Xfer!Wanted
<1>7. XStatus' = XStatus /\ XReq' = XReq
  BY <1>1, SameReqDone DEF XStatus, Lost
<1> HIDE DEF w, x
<1>5. CASE w.next < w.stop /\ w.next \in Xfer!Wanted(x)
  <2>1. LinesOnce(moved'[u]) = LinesOnce(moved[u]) \cup {w.next} /\ w.next \notin LinesOnce(moved[u])
    BY <1>2, <1>3, <1>4, <1>5 DEF LinesOnce
  <2>2. \A q \in Ranks \ {u} : moved'[q] = moved[q]
    BY <1>3, <1>4, <1>5
  <2>3. \A q \in Ranks \ {u} : PoolOf(q) = PoolOf(u) => ~(XStatus[q] = "busy" /\ XDone[q] # {})
    <3> SUFFICES ASSUME NEW q \in Ranks \ {u}, PoolOf(q) = PoolOf(u)
                 PROVE  ~(Status(pc[q]) = "busy" /\ LinesOnce(moved[q]) # {})
      BY DEF XStatus, XDone
    <3>1. q \in RanksOf(p) \ {u}
      BY DEF RanksOf
    <3>2. pc[q] \in {"down", "up", "lock"}
      BY <1>2, <3>1, SoleCaller
    <3>3. pc[q] = "lock" => LinesOnce(moved[q]) = {}
      BY <3>1 DEF Inv, PoolInv, Moved, LinesOnce
    <3> QED BY <3>2, <3>3, StatusOf
  <2>4. XDone' = [XDone EXCEPT ![u] = @ \cup {w.next}] /\ XDone[u] = LinesOnce(moved[u])
    BY <1>1, <2>1, <2>2 DEF XDone, Lost
  <2>5. XReq[u] = req[u] /\ x = req[u] /\ XStatus[u] = "busy"
    BY <1>2, StatusOf DEF x, XReq, XStatus, Lost
  <2>6. w.next \in Xfer!Wanted(XReq[u]) \ XDone[u]
    BY <1>5, <2>1, <2>4, <2>5
  <2> HIDE DEF Xfer!Wanted
  <2>7. \A q \in Ranks \ {u} : [r \in Ranks |-> PoolOf(r)][q] = [r \in Ranks |-> PoolOf(r)][u]
                                 => ~(XStatus[q] = "busy" /\ XDone[q] # {})
    BY <2>3
  <2>8. Xfer!Move(u)
    BY <1>7, <2>4, <2>5, <2>6, <2>7 DEF Xfer!Move, Xfer!Underway, XStatus, XReq, XDone
  <2> QED BY <2>8
<1>6. CASE ~(w.next < w.stop /\ w.next \in Xfer!Wanted(x))
  <2>1. XDone' = XDone
    BY <1>1, <1>4, <1>6, SameReqDone
  <2> QED BY <1>7, <2>1 DEF Xfer!vars, XStatus, XReq, XDone
<1> QED BY <1>5, <1>6

\* A creation that fails loses a channel of which no rank is up.
LEMMA LoseStep ==
  ASSUME Inv, NEW p \in Pools \ broken, NEW r \in RanksOf(p), InitFails(r) PROVE Xfer!Lose(p)
<1> USE RanksOfPool, NoRankIsNone
<1>1. /\ nb_region_per_channel[p] = 0 /\ ctx_mutex = NoRank /\ pc[r] = "down"
      /\ pc' = [pc EXCEPT ![r] = "up"] /\ broken' = broken \cup {p} /\ UNCHANGED <<req, moved>>
  BY DEF InitFails, CanInit
<1>2. Users(p) = {}
  BY <1>1, UsersFinite, FS_EmptySet DEF Inv, PoolInv, Locked
<1>3. \A q \in RanksOf(p) : pc[q] = "down"
  BY <1>1, <1>2 DEF Inv, CtxLocked, Users
<1>4. \A q \in Ranks : [o \in Ranks |-> PoolOf(o)][q] = p => XStatus[q] = "down"
  BY <1>3, StatusOf DEF XStatus, RanksOf, Lost
<1>5. \A q \in Ranks : (Lost(q)' <=> Lost(q) \/ PoolOf(q) = p) /\ (PoolOf(q) # p => pc'[q] = pc[q])
  BY <1>1 DEF Lost, Inv, Typed
<1> DEFINE ch == [o \in Ranks |-> PoolOf(o)]
<1>6. /\ XStatus' = [q \in Ranks |-> IF ch[q] = p THEN "lost" ELSE XStatus[q]]
      /\ XReq' = [q \in Ranks |-> IF ch[q] = p THEN NoXfer ELSE XReq[q]]
      /\ XDone' = [q \in Ranks |-> IF ch[q] = p THEN {} ELSE XDone[q]]
  <2>1. \A q \in Ranks : ch[q] = PoolOf(q)
    OBVIOUS
  <2> HIDE DEF ch, Lost, Status
  <2> QED BY <1>1, <1>5, <2>1 DEF XStatus, XReq, XDone
<1> QED BY <1>4, <1>6 DEF Xfer!Lose, XStatus, XReq, XDone

\* The other steps are those of the threads only.
LEMMA HiddenStep ==
  ASSUME Inv, UNCHANGED <<req, moved, broken>>, \A q \in Ranks : Status(pc'[q]) = Status(pc[q])
  PROVE  UNCHANGED Xfer!vars
BY DEF Xfer!vars, Lost

\* Nothing a broken pool does shows.
LEMMA BrokenStep ==
  ASSUME Inv, NEW p \in Pools, p \in broken, PoolStep(p)
  PROVE  UNCHANGED Xfer!vars
<1> USE RanksOfPool
<1>1. broken' = broken
  <2>1. ASSUME NEW r \in RanksOf(p),
               \/ xeon_sp_init_rank(r) \/ InitFails(r) \/ InitUndefined(r)
               \/ xeon_sp_destroy_rank(r) \/ Joined(r)
        PROVE  broken' = broken
    <3>1. broken \cup {PoolOf(r)} = broken
      BY RanksOfPool
    <3> HIDE DEF PoolOf
    <3> QED BY <2>1, <3>1 DEF xeon_sp_init_rank, InitFails, InitUndefined, xeon_sp_destroy_rank, Joined
  <2>2. ASSUME NEW r \in RanksOf(p),
               \/ \E x \in Transfers : CallXfer(r, x)
               \/ xeon_sp_init_and_do_xfer(r) \/ xeon_sp_release_pool(r)
        PROVE  broken' = broken
    BY <2>2 DEF CallXfer, xeon_sp_init_and_do_xfer, xeon_sp_release_pool
  <2>3. ASSUME Barrier(p) PROVE broken' = broken
    BY <2>3 DEF Barrier
  <2>4. ASSUME NEW t \in Threads, thread_mram(p, t) PROVE broken' = broken
    BY <2>4 DEF thread_mram, Wait, Start, Line
  <2> QED BY <2>1, <2>2, <2>3, <2>4 DEF PoolStep
<1>2. \A q \in Ranks : ~Lost(q) => pc'[q] = pc[q] /\ req'[q] = req[q] /\ moved'[q] = moved[q]
  <2> SUFFICES ASSUME NEW q \in Ranks, ~Lost(q)
               PROVE  pc'[q] = pc[q] /\ req'[q] = req[q] /\ moved'[q] = moved[q]
    OBVIOUS
  <2>1. PoolOf(q) \in Pools \ {p} /\ q \in RanksOf(PoolOf(q))
    BY DEF Lost
  <2>2. Kept(PoolOf(q))
    BY <2>1, Elsewhere DEF Inv
  <2> QED BY <2>1, <2>2 DEF Kept
<1>3. \A q \in Ranks : Lost(q)' <=> Lost(q)
  BY <1>1 DEF Lost
<1> HIDE DEF Lost, Status, LinesOnce
<1>4. XStatus' = XStatus /\ XReq' = XReq /\ XDone' = XDone
  BY <1>2, <1>3 DEF XStatus, XReq, XDone
<1> QED BY <1>4 DEF Xfer!vars, XStatus, XReq, XDone

LEMMA XferStep == ASSUME Inv, [Next]_vars PROVE [Xfer!Next]_(Xfer!vars)
<1> USE RanksOfPool
<1>1. pc \in [Ranks -> Points]
  BY DEF Inv, Typed
<1>2. ASSUME NEW p \in Pools \ broken, NEW r \in RanksOf(p),
             \/ xeon_sp_init_rank(r) \/ xeon_sp_destroy_rank(r) \/ Joined(r)
             \/ \E x \in Transfers : CallXfer(r, x)
             \/ xeon_sp_release_pool(r)
      PROVE  Xfer!Next \/ UNCHANGED Xfer!vars
  <2>1. r \in Ranks /\ ~Lost(r)
    BY DEF Lost
  <2> QED BY <1>2, <2>1, OpenStep, CloseStep, BeginStep, ReturnStep DEF Xfer!Next
<1>3. ASSUME NEW p \in Pools \ broken, NEW r \in RanksOf(p), InitFails(r) \/ InitUndefined(r)
      PROVE  Xfer!Next
  <2>1. ~InitUndefined(r)
    BY QuietAtZero DEF InitUndefined, CanInit
  <2>2. Xfer!Lose(p) /\ p \in {[o \in Ranks |-> PoolOf(o)][q] : q \in Ranks}
    BY <1>3, <2>1, LoseStep DEF Pools
  <2> QED BY <2>2 DEF Xfer!Next
<1>4. ASSUME NEW r \in Ranks, xeon_sp_init_and_do_xfer(r) PROVE UNCHANGED Xfer!vars
  <2>1. \A q \in Ranks : Status(pc'[q]) = Status(pc[q])
    BY <1>1, <1>4, StatusOf DEF xeon_sp_init_and_do_xfer
  <2>2. UNCHANGED <<req, moved, broken>>
    BY <1>4 DEF xeon_sp_init_and_do_xfer
  <2> QED BY <2>1, <2>2, HiddenStep
<1>5. ASSUME NEW p \in Pools, Barrier(p) PROVE UNCHANGED Xfer!vars
  <2>1. \A q \in Ranks : pc'[q] \in {pc[q], CallerReleased(pc[q])}
    BY <1>5 DEF Barrier
  <2>2. \A q \in Ranks : Status(pc'[q]) = Status(pc[q])
    BY <1>1, <2>1, StatusOf DEF CallerReleased
  <2>3. UNCHANGED <<req, moved, broken>>
    BY <1>5 DEF Barrier
  <2> QED BY <2>2, <2>3, HiddenStep
<1>6. ASSUME NEW p \in Pools \ broken, NEW t \in Threads, thread_mram(p, t)
      PROVE  Xfer!Next \/ UNCHANGED Xfer!vars
  <2>1. CASE Wait(p, t) \/ Start(p, t)
    BY <2>1, HiddenStep DEF Wait, Start
  <2>2. CASE Line(p, t)
    BY <2>2, MoveStep DEF Xfer!Next
  <2> QED BY <1>6, <2>1, <2>2 DEF thread_mram
<1>7. CASE UNCHANGED vars
  BY <1>7, HiddenStep DEF vars
<1>8. ASSUME NEW p \in Pools, PoolStep(p) PROVE Xfer!Next \/ UNCHANGED Xfer!vars
  <2>1. CASE p \in broken
    BY <1>8, <2>1, BrokenStep
  <2>2. CASE p \notin broken
    <3>1. ASSUME NEW r \in RanksOf(p),
                 \/ xeon_sp_init_rank(r) \/ InitFails(r) \/ InitUndefined(r)
                 \/ xeon_sp_destroy_rank(r) \/ Joined(r)
                 \/ \E x \in Transfers : CallXfer(r, x)
                 \/ xeon_sp_init_and_do_xfer(r) \/ xeon_sp_release_pool(r)
          PROVE  Xfer!Next \/ UNCHANGED Xfer!vars
      BY <1>2, <1>3, <1>4, <2>2, <3>1
    <3> QED BY <1>5, <1>6, <1>8, <2>2, <3>1 DEF PoolStep
  <2> QED BY <2>1, <2>2
<1> QED BY <1>7, <1>8, StepsOfPools

\* The threads carry out transfers as MramXfer says: a transfer that returns has
\* moved every line of its matrix once, for its own rank, and two transfers of a
\* channel are never under way together (write_to_rank, read_from_rank), as long as
\* the threads of the channel could be created.
THEOREM PoolImplementsXfer == Spec => ImplementsXfer
<1>1. Init => Xfer!Init
  BY StatusOf DEF Init, Xfer!Init, LinesOnce, Lost
<1>2. Inv /\ [Next]_vars => [Xfer!Next]_(Xfer!vars)
  BY XferStep
<1> QED BY <1>1, <1>2, InvHolds, PTL DEF Spec, ImplementsXfer, Xfer!Spec
=============================================================================
