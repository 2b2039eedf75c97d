--------------------------- MODULE HostXferProofs ---------------------------
(* Proofs about HostXfer, for every set of ranks, calls and bounds.          *)
EXTENDS HostXfer, FiniteSetTheorems, SequenceTheorems, TLAPS

-----------------------------------------------------------------------------
(* Sequences of anything: the jobs of a rank are records of two kinds.       *)

IsSeq(s) == s \in Seq({s[i] : i \in 1 .. Len(s)})

\* A sequence over any set is one over its elements.
LEMMA Tight ==
  ASSUME NEW S, NEW s \in Seq(S)
  PROVE  IsSeq(s)
<1> DEFINE R == {s[i] : i \in 1 .. Len(s)}
           n == Len(s)
<1>1. n \in Nat /\ s \in [1 .. n -> S]
  BY LenProperties
<1>2. \A i \in 1 .. n : s[i] \in R
  OBVIOUS
<1> HIDE DEF R, n
<1>3. s \in [1 .. n -> R]
  BY <1>1, <1>2
<1>4. s \in Seq(R)
  BY <1>1, <1>3, SeqDef
<1> QED
  BY <1>4 DEF IsSeq, R, n

\* What Append does to the jobs of a rank.
LEMMA Appended ==
  ASSUME NEW s, IsSeq(s), NEW e
  PROVE  /\ Len(s) \in Nat /\ DOMAIN s = 1 .. Len(s)
         /\ IsSeq(Append(s, e)) /\ Len(Append(s, e)) = Len(s) + 1
         /\ DOMAIN Append(s, e) = 1 .. (Len(s) + 1)
         /\ \A i \in 1 .. Len(s) : Append(s, e)[i] = s[i]
         /\ Append(s, e)[Len(s) + 1] = e
<1> DEFINE S == {s[i] : i \in 1 .. Len(s)}
           T == S \cup {e}
<1>1. s \in Seq(S)
  BY DEF IsSeq
<1>2. s \in Seq(T) /\ e \in T
  BY <1>1, SeqMonotonic, Zenon
<1> HIDE DEF S, T
<1>3. /\ Append(s, e) \in Seq(T) /\ Len(Append(s, e)) = Len(s) + 1
      /\ DOMAIN Append(s, e) = 1 .. (Len(s) + 1)
      /\ \A i \in 1 .. Len(s) : Append(s, e)[i] = s[i]
      /\ Append(s, e)[Len(s) + 1] = e
      /\ Len(s) \in Nat /\ DOMAIN s = 1 .. Len(s)
  BY <1>2
<1>4. IsSeq(Append(s, e))
  BY <1>3, Tight
<1> QED
  BY <1>3, <1>4

\* What Tail does to the jobs of a rank.
LEMMA Tailed ==
  ASSUME NEW s, IsSeq(s), s # <<>>
  PROVE  /\ Len(s) \in Nat \ {0} /\ DOMAIN s = 1 .. Len(s) /\ Head(s) = s[1]
         /\ IsSeq(Tail(s)) /\ Len(Tail(s)) = Len(s) - 1
         /\ DOMAIN Tail(s) = 1 .. (Len(s) - 1)
         /\ \A i \in 1 .. (Len(s) - 1) : Tail(s)[i] = s[i + 1]
<1> DEFINE S == {s[i] : i \in 1 .. Len(s)}
<1>1. s \in Seq(S)
  BY DEF IsSeq
<1> HIDE DEF S
<1>2. /\ Tail(s) \in Seq(S) /\ Len(Tail(s)) = Len(s) - 1
      /\ DOMAIN Tail(s) = 1 .. (Len(s) - 1)
      /\ \A i \in 1 .. (Len(s) - 1) : Tail(s)[i] = s[i + 1]
      /\ Len(s) \in Nat \ {0} /\ DOMAIN s = 1 .. Len(s) /\ Head(s) = s[1]
  BY <1>1
<1>3. IsSeq(Tail(s))
  BY <1>2, Tight
<1> QED
  BY <1>2, <1>3

-----------------------------------------------------------------------------
(* The arguments of the scatter/gather calls                                 *)


ArgsTyped ==
  /\ args \in Seq(Nat)
  /\ jobs = [r \in Ranks |-> jobs[r]] /\ \A r \in Ranks : IsSeq(jobs[r])
\* A job names a call that was made, and a rank has one job of a call.
ArgsNamed ==
  \A r \in Ranks : \A n \in DOMAIN jobs[r] :
    jobs[r][n].type = "sg" => jobs[r][n].id \in 1 .. Len(args)
ArgsOnce ==
  \A r \in Ranks : \A m, n \in DOMAIN jobs[r] :
    jobs[r][m].type = "sg" /\ jobs[r][n].type = "sg" /\ jobs[r][m].id = jobs[r][n].id => m = n
\* The references of a call: one for every rank that has yet to run its job,
\* and at least one more once a rank has lost its own.
ArgsCounted ==
  \A k \in 1 .. Len(args) :
    /\ k \notin lost => args[k] = Cardinality(Pending(k))
    /\ k \in lost => args[k] > Cardinality(Pending(k))
ArgsLost == lost \subseteq 1 .. Len(args)

\* Each rank has a status, which decides between the next job and a drain.
StatusTyped == status = [r \in Ranks |-> status[r]]

ArgsInv == ArgsTyped /\ ArgsNamed /\ ArgsOnce /\ ArgsCounted /\ ArgsLost

\* The jobs of the ranks are what decides who is pending.
LEMMA PendingFinite ==
  ASSUME NEW k
  PROVE  /\ IsFiniteSet(Pending(k)) /\ Cardinality(Pending(k)) \in Nat
         /\ Cardinality(Pending(k)) = 0 <=> Pending(k) = {}
<1>1. Pending(k) \in SUBSET Ranks
  BY DEF Pending
<1>2. IsFiniteSet(Pending(k))
  BY <1>1, RanksAssumption, FS_Subset
<1> QED
  BY <1>2, FS_CardinalityType, FS_EmptySet

\* Nothing of this invariant moves in a step that leaves jobs and arguments.
LEMMA ArgsStutter ==
  ASSUME ArgsInv, UNCHANGED <<jobs, args, lost>>
  PROVE  ArgsInv'
BY DEF ArgsInv, ArgsTyped, ArgsNamed, ArgsOnce, ArgsCounted, ArgsLost, Pending

\* A call that leaves copy jobs does not touch the arguments of the others.
LEMMA ArgsEnqueue ==
  ASSUME ArgsInv, NEW rs, NEW job, Enqueue(rs, job), \A r \in rs : job[r].type = "copy",
         UNCHANGED <<args, lost>>
  PROVE  ArgsInv'
<1> USE DEF ArgsInv
<1>1. /\ jobs' = [r \in Ranks |-> jobs'[r]]
      /\ \A r \in Ranks : jobs'[r] = IF r \in rs THEN Append(jobs[r], job[r]) ELSE jobs[r]
  BY DEF Enqueue
<1>2. ASSUME NEW r \in Ranks
      PROVE  /\ IsSeq(jobs'[r]) /\ Len(jobs[r]) \in Nat /\ DOMAIN jobs[r] = 1 .. Len(jobs[r])
             /\ DOMAIN jobs[r] \subseteq DOMAIN jobs'[r]
             /\ \A n \in DOMAIN jobs[r] : jobs'[r][n] = jobs[r][n]
             /\ \A n \in DOMAIN jobs'[r] \ DOMAIN jobs[r] : jobs'[r][n].type = "copy"
  <2>1. IsSeq(jobs[r])
    BY DEF ArgsTyped
  <2>2. CASE r \in rs
    <3>1. jobs'[r] = Append(jobs[r], job[r])
      BY <1>1, <2>2
    <3> QED
      BY <2>1, <2>2, <3>1, Appended
  <2>3. CASE r \notin rs
    <3>1. jobs'[r] = jobs[r]
      BY <1>1, <2>3
    <3> QED
      BY <2>1, <3>1, Appended
  <2> QED
    BY <2>2, <2>3
<1>3. ASSUME NEW r \in Ranks, NEW n \in DOMAIN jobs'[r], jobs'[r][n].type = "sg"
      PROVE  n \in DOMAIN jobs[r] /\ jobs'[r][n] = jobs[r][n]
  BY <1>2, <1>3
<1>4. \A k : Pending(k)' = Pending(k)
  BY <1>2, <1>3 DEF Pending
<1>5. ArgsTyped'
  BY <1>1, <1>2 DEF ArgsTyped
<1>6. ArgsNamed'
  BY <1>3 DEF ArgsNamed
<1>7. ArgsOnce'
  BY <1>3 DEF ArgsOnce
<1>8. ArgsCounted'
  BY <1>4 DEF ArgsCounted
<1>9. ArgsLost'
  BY DEF ArgsLost
<1> QED
  BY <1>5, <1>6, <1>7, <1>8, <1>9

\* A scatter/gather call counts one reference for every rank.
LEMMA ArgsPush ==
  ASSUME ArgsInv, NEW t, NEW c, dpu_push_sg_xfer_symbol(t, c), ~Refused(Ranks)
  PROVE  ArgsInv'
<1> USE DEF ArgsInv
<1>a. PICK id : id = Len(args) + 1
  OBVIOUS
<1>b. PICK new : new = [type |-> "sg", sync |-> ~c.async, call |-> c, id |-> id]
  OBVIOUS
<1>1. /\ jobs' = [r \in Ranks |-> jobs'[r]]
      /\ \A r \in Ranks : jobs'[r] = Append(jobs[r], new)
  BY <1>a, <1>b DEF dpu_push_sg_xfer_symbol, Enqueue
<1>2. /\ args' = Append(args, Cardinality(Ranks)) /\ lost' = lost
  BY DEF dpu_push_sg_xfer_symbol, freeing_refcpt
<1>3. Cardinality(Ranks) \in Nat
  BY RanksAssumption, FS_CardinalityType
<1>4. /\ Len(args) \in Nat /\ args' \in Seq(Nat) /\ Len(args') = id
      /\ \A k \in 1 .. Len(args) : args'[k] = args[k]
      /\ args'[id] = Cardinality(Ranks)
  BY <1>a, <1>2, <1>3 DEF ArgsTyped
<1>5. new.type = "sg" /\ new.id = id
  BY <1>b
<1>6. ASSUME NEW r \in Ranks
      PROVE  /\ IsSeq(jobs'[r]) /\ Len(jobs[r]) \in Nat /\ DOMAIN jobs[r] = 1 .. Len(jobs[r])
             /\ DOMAIN jobs'[r] = 1 .. (Len(jobs[r]) + 1)
             /\ \A n \in DOMAIN jobs[r] : jobs'[r][n] = jobs[r][n]
             /\ jobs'[r][Len(jobs[r]) + 1] = new
  <2>1. IsSeq(jobs[r]) /\ jobs'[r] = Append(jobs[r], new)
    BY <1>1 DEF ArgsTyped
  <2> QED
    BY <2>1, Appended
<1>7. ArgsTyped'
  BY <1>1, <1>4, <1>6 DEF ArgsTyped
<1>8. \A r \in Ranks : \A n \in DOMAIN jobs[r] : jobs[r][n].type = "sg" => jobs[r][n].id # id
  BY <1>a, <1>4 DEF ArgsNamed
<1>9. ArgsNamed'
  <2>1. SUFFICES ASSUME NEW r \in Ranks, NEW n \in DOMAIN jobs'[r], jobs'[r][n].type = "sg"
                 PROVE  jobs'[r][n].id \in 1 .. Len(args')
    BY DEF ArgsNamed
  <2>2. n \in DOMAIN jobs[r] \/ n = Len(jobs[r]) + 1
    BY <1>6
  <2>3. CASE n \in DOMAIN jobs[r]
    BY <1>a, <1>4, <1>6, <2>1, <2>3 DEF ArgsNamed
  <2>4. CASE n = Len(jobs[r]) + 1
    BY <1>a, <1>4, <1>5, <1>6, <2>4
  <2> QED
    BY <2>2, <2>3, <2>4
<1>10. ArgsOnce'
  <2>1. SUFFICES ASSUME NEW r \in Ranks, NEW m \in DOMAIN jobs'[r], NEW n \in DOMAIN jobs'[r],
                        jobs'[r][m].type = "sg", jobs'[r][n].type = "sg",
                        jobs'[r][m].id = jobs'[r][n].id
                 PROVE  m = n
    BY DEF ArgsOnce
  <2>2. /\ m \in DOMAIN jobs[r] \/ m = Len(jobs[r]) + 1
        /\ n \in DOMAIN jobs[r] \/ n = Len(jobs[r]) + 1
    BY <1>6
  <2>3. CASE m \in DOMAIN jobs[r] /\ n \in DOMAIN jobs[r]
    BY <1>6, <2>1, <2>3 DEF ArgsOnce
  <2>4. CASE m = Len(jobs[r]) + 1 /\ n \in DOMAIN jobs[r]
    BY <1>5, <1>6, <1>8, <2>1, <2>4
  <2>5. CASE n = Len(jobs[r]) + 1 /\ m \in DOMAIN jobs[r]
    BY <1>5, <1>6, <1>8, <2>1, <2>5
  <2> QED
    BY <2>2, <2>3, <2>4, <2>5
<1>11. Pending(id)' = Ranks
  BY <1>5, <1>6 DEF Pending
<1>12. \A k \in 1 .. Len(args) : Pending(k)' = Pending(k)
  <2>1. SUFFICES ASSUME NEW k \in 1 .. Len(args), NEW r \in Ranks
                 PROVE  (\E n \in DOMAIN jobs'[r] : jobs'[r][n].type = "sg" /\ jobs'[r][n].id = k)
                        <=> (\E n \in DOMAIN jobs[r] : jobs[r][n].type = "sg" /\ jobs[r][n].id = k)
    BY DEF Pending
  <2>2. id # k
    BY <1>a, <1>4
  <2>3. \A n \in DOMAIN jobs'[r] : n \in DOMAIN jobs[r] \/ n = Len(jobs[r]) + 1
    BY <1>6
  <2>4. DOMAIN jobs[r] \subseteq DOMAIN jobs'[r]
    BY <1>6
  <2> QED
    BY <1>5, <1>6, <2>2, <2>3, <2>4
<1>13. ArgsCounted'
  <2>1. SUFFICES ASSUME NEW k \in 1 .. Len(args')
                 PROVE  /\ k \notin lost' => args'[k] = Cardinality(Pending(k)')
                        /\ k \in lost' => args'[k] > Cardinality(Pending(k)')
    BY DEF ArgsCounted
  <2>2. k \in 1 .. Len(args) \/ k = id
    BY <1>a, <1>4
  <2>3. CASE k \in 1 .. Len(args)
    BY <1>2, <1>4, <1>12, <2>3 DEF ArgsCounted
  <2>4. CASE k = id
    <3>1. id \notin lost
      BY <1>a, <1>4 DEF ArgsLost
    <3> QED
      BY <1>2, <1>3, <1>4, <1>11, <2>4, <3>1
  <2> QED
    BY <2>2, <2>3, <2>4
<1>14. ArgsLost'
  BY <1>a, <1>2, <1>4 DEF ArgsLost
<1> QED
  BY <1>7, <1>9, <1>10, <1>13, <1>14

\* A refused call keeps a reference for every rank and leaves no job.
LEMMA ArgsRefused ==
  ASSUME ArgsInv, NEW t, NEW c, dpu_push_sg_xfer_symbol(t, c), Refused(Ranks)
  PROVE  ArgsInv'
<1> USE DEF ArgsInv
<1>a. PICK id : id = Len(args) + 1
  OBVIOUS
<1>1. /\ args' = Append(args, Cardinality(Ranks)) /\ lost' = lost \cup {id} /\ jobs' = jobs
  BY <1>a DEF dpu_push_sg_xfer_symbol, freeing_refcpt, queues
<1>2. Cardinality(Ranks) \in Nat \ {0}
  <2>1. Ranks # {} /\ IsFiniteSet(Ranks)
    BY RanksAssumption DEF Refused
  <2> QED
    BY <2>1, FS_CardinalityType, FS_EmptySet
<1>3. /\ Len(args) \in Nat /\ args' \in Seq(Nat) /\ Len(args') = id
      /\ \A k \in 1 .. Len(args) : args'[k] = args[k]
      /\ args'[id] = Cardinality(Ranks)
  BY <1>a, <1>1, <1>2 DEF ArgsTyped
<1>4. \A k : Pending(k)' = Pending(k)
  BY <1>1 DEF Pending
<1>5. Pending(id) = {}
  BY <1>a, <1>3 DEF Pending, ArgsNamed
<1>6. ArgsCounted'
  <2>1. SUFFICES ASSUME NEW k \in 1 .. Len(args')
                 PROVE  /\ k \notin lost' => args'[k] = Cardinality(Pending(k)')
                        /\ k \in lost' => args'[k] > Cardinality(Pending(k)')
    BY DEF ArgsCounted
  <2>2. k \in 1 .. Len(args) \/ k = id
    BY <1>a, <1>3
  <2>3. CASE k = id
    BY <1>1, <1>2, <1>3, <1>4, <1>5, <2>3, PendingFinite
  <2>4. CASE k \in 1 .. Len(args)
    <3>1. k # id
      BY <1>a, <1>3, <2>4
    <3> QED
      BY <1>1, <1>3, <1>4, <2>4, <3>1 DEF ArgsCounted
  <2> QED
    BY <2>2, <2>3, <2>4
<1>7. ArgsTyped' /\ ArgsNamed' /\ ArgsOnce' /\ ArgsLost'
  BY <1>a, <1>1, <1>3 DEF ArgsTyped, ArgsNamed, ArgsOnce, ArgsLost
<1> QED
  BY <1>6, <1>7

\* A job that is run leaves the pending set of its call, and no other.
LEMMA Dequeued ==
  ASSUME ArgsInv, NEW r \in Ranks, jobs[r] # <<>>, jobs' = [jobs EXCEPT ![r] = Tail(@)]
  PROVE  /\ jobs' = [q \in Ranks |-> jobs'[q]] /\ \A q \in Ranks : IsSeq(jobs'[q])
         /\ \A q \in Ranks : \A n \in DOMAIN jobs'[q] :
              \E m \in DOMAIN jobs[q] : jobs'[q][n] = jobs[q][m]
         /\ ArgsOnce'
         /\ \A k : ~(Head(jobs[r]).type = "sg" /\ Head(jobs[r]).id = k) => Pending(k)' = Pending(k)
         /\ \A k : Head(jobs[r]).type = "sg" /\ Head(jobs[r]).id = k =>
                     r \in Pending(k) /\ Pending(k)' = Pending(k) \ {r}
<1> USE DEF ArgsInv
<1>1. IsSeq(jobs[r])
  BY DEF ArgsTyped
<1>2. /\ jobs' = [q \in Ranks |-> jobs'[q]] /\ jobs'[r] = Tail(jobs[r])
      /\ \A q \in Ranks : q # r => jobs'[q] = jobs[q]
  BY DEF ArgsTyped
<1>3. /\ Len(jobs[r]) \in Nat \ {0} /\ DOMAIN jobs[r] = 1 .. Len(jobs[r])
      /\ Head(jobs[r]) = jobs[r][1] /\ IsSeq(jobs'[r])
      /\ DOMAIN jobs'[r] = 1 .. (Len(jobs[r]) - 1)
      /\ \A n \in DOMAIN jobs'[r] : jobs'[r][n] = jobs[r][n + 1]
  <2>1. /\ Len(jobs[r]) \in Nat \ {0} /\ DOMAIN jobs[r] = 1 .. Len(jobs[r])
        /\ Head(jobs[r]) = jobs[r][1] /\ IsSeq(Tail(jobs[r]))
        /\ DOMAIN Tail(jobs[r]) = 1 .. (Len(jobs[r]) - 1)
        /\ \A n \in 1 .. (Len(jobs[r]) - 1) : Tail(jobs[r])[n] = jobs[r][n + 1]
    BY <1>1, Tailed
  <2> QED
    BY <1>2, <2>1
<1>4. \A q \in Ranks : IsSeq(jobs'[q])
  BY <1>2, <1>3 DEF ArgsTyped
<1>5. \A n \in DOMAIN jobs'[r] : n + 1 \in DOMAIN jobs[r]
  BY <1>3
<1>6. \A q \in Ranks : \A n \in DOMAIN jobs'[q] : \E m \in DOMAIN jobs[q] : jobs'[q][n] = jobs[q][m]
  <2> SUFFICES ASSUME NEW q \in Ranks, NEW n \in DOMAIN jobs'[q]
               PROVE  \E m \in DOMAIN jobs[q] : jobs'[q][n] = jobs[q][m]
    OBVIOUS
  <2>1. CASE q = r
    BY <1>3, <1>5, <2>1
  <2>2. CASE q # r
    BY <1>2, <2>2
  <2> QED
    BY <2>1, <2>2
<1>7. ArgsOnce'
  <2>1. SUFFICES ASSUME NEW q \in Ranks, NEW m \in DOMAIN jobs'[q], NEW n \in DOMAIN jobs'[q],
                        jobs'[q][m].type = "sg", jobs'[q][n].type = "sg",
                        jobs'[q][m].id = jobs'[q][n].id
                 PROVE  m = n
    BY DEF ArgsOnce
  <2>2. CASE q = r
    <3>1. m + 1 = n + 1
      BY <1>3, <1>5, <2>1, <2>2 DEF ArgsOnce
    <3>2. m \in Nat /\ n \in Nat
      BY <1>3, <2>2
    <3> QED
      BY <3>1, <3>2
  <2>3. CASE q # r
    BY <1>2, <2>1, <2>3 DEF ArgsOnce
  <2> QED
    BY <2>2, <2>3
<1>8. \A n \in DOMAIN jobs[r] : n = 1 \/ (n - 1 \in DOMAIN jobs'[r] /\ jobs'[r][n - 1] = jobs[r][n])
  BY <1>3
<1>9. \A k : ~(Head(jobs[r]).type = "sg" /\ Head(jobs[r]).id = k) =>
               (r \in Pending(k)' <=> r \in Pending(k))
  <2> SUFFICES ASSUME NEW k, ~(Head(jobs[r]).type = "sg" /\ Head(jobs[r]).id = k)
               PROVE  r \in Pending(k)' <=> r \in Pending(k)
    OBVIOUS
  <2>1. ASSUME NEW n \in DOMAIN jobs[r], jobs[r][n].type = "sg", jobs[r][n].id = k
        PROVE  n - 1 \in DOMAIN jobs'[r] /\ jobs'[r][n - 1] = jobs[r][n]
    BY <1>3, <1>8, <2>1
  <2>2. r \in Pending(k) => r \in Pending(k)'
    BY <2>1 DEF Pending
  <2>3. r \in Pending(k)' => r \in Pending(k)
    BY <1>3, <1>5 DEF Pending
  <2> QED
    BY <2>2, <2>3
<1>10. \A k : \A q \in Ranks : q # r => (q \in Pending(k)' <=> q \in Pending(k))
  BY <1>2 DEF Pending
<1>11. \A k : \A q \in Pending(k) \cup Pending(k)' : q \in Ranks
  BY DEF Pending
<1>12. ASSUME NEW k, Head(jobs[r]).type = "sg", Head(jobs[r]).id = k
       PROVE  r \in Pending(k) /\ r \notin Pending(k)'
  <2>1. 1 \in DOMAIN jobs[r]
    BY <1>3
  <2>2. r \in Pending(k)
    BY <1>3, <1>12, <2>1 DEF Pending
  <2>3. ASSUME NEW n \in DOMAIN jobs'[r], jobs'[r][n].type = "sg", jobs'[r][n].id = k
        PROVE  FALSE
    <3>1. n + 1 = 1
      BY <1>3, <1>5, <1>12, <2>1, <2>3 DEF ArgsOnce
    <3>2. n \in Nat \ {0}
      BY <1>3
    <3> QED
      BY <3>1, <3>2
  <2> QED
    BY <2>2, <2>3 DEF Pending
<1>13. \A k : ~(Head(jobs[r]).type = "sg" /\ Head(jobs[r]).id = k) => Pending(k)' = Pending(k)
  <2> SUFFICES ASSUME NEW k, ~(Head(jobs[r]).type = "sg" /\ Head(jobs[r]).id = k)
               PROVE  Pending(k)' = Pending(k)
    OBVIOUS
  <2>1. \A q \in Ranks : q \in Pending(k)' <=> q \in Pending(k)
    BY <1>9, <1>10
  <2> QED
    BY <1>11, <2>1
<1>14. \A k : Head(jobs[r]).type = "sg" /\ Head(jobs[r]).id = k =>
                r \in Pending(k) /\ Pending(k)' = Pending(k) \ {r}
  BY <1>10, <1>11, <1>12
<1> QED
  BY <1>2, <1>4, <1>6, <1>7, <1>13, <1>14

\* A rank that has run a job with success drops one reference if it was a
\* scatter/gather job.
LEMMA ArgsRun ==
  ASSUME ArgsInv, StatusTyped, NEW r \in Ranks, RunJob(r), status'[r] = "ok"
  PROVE  ArgsInv'
<1> USE DEF ArgsInv
<1>1. jobs[r] # <<>> /\ jobs' = [jobs EXCEPT ![r] = Tail(@)] /\ lost' = lost
  BY DEF RunJob, dpu_thread_advance_to_next_job
<1>2. IsSeq(jobs[r])
  BY DEF ArgsTyped
<1>3. Head(jobs[r]) = jobs[r][1] /\ 1 \in DOMAIN jobs[r]
  BY <1>1, <1>2, Tailed
<1>4. Len(args) \in Nat /\ args \in Seq(Nat) /\ \A k \in 1 .. Len(args) : args[k] \in Nat
  BY DEF ArgsTyped
<1>5. CASE Head(jobs[r]).type = "copy" /\ UNCHANGED args
  <2>1. \A k : Pending(k)' = Pending(k)
    BY <1>1, <1>5, Dequeued
  <2>2. ArgsCounted' /\ ArgsLost'
    BY <1>1, <1>5, <2>1 DEF ArgsCounted, ArgsLost
  <2>3. ArgsNamed'
    <3>1. \A q \in Ranks : \A n \in DOMAIN jobs'[q] :
            \E m \in DOMAIN jobs[q] : jobs'[q][n] = jobs[q][m]
      BY <1>1, Dequeued
    <3> QED
      BY <1>5, <3>1 DEF ArgsNamed
  <2>4. ArgsTyped'
    BY <1>1, <1>5, Dequeued DEF ArgsTyped
  <2> QED
    BY <1>1, <2>2, <2>3, <2>4, Dequeued
<1>6. CASE Head(jobs[r]).type = "sg" /\ sg_xfer_rank_handler(r, Head(jobs[r]))
  <2>1. PICK id : id = Head(jobs[r]).id
    OBVIOUS
  <2>2. id \in 1 .. Len(args)
    BY <1>3, <1>6, <2>1 DEF ArgsNamed
  <2>3. /\ r \in Pending(id) /\ Pending(id)' = Pending(id) \ {r}
        /\ \A k : k # id => Pending(k)' = Pending(k)
    BY <1>1, <1>6, <2>1, Dequeued
  <2>4. /\ IsFiniteSet(Pending(id)) /\ Cardinality(Pending(id)) \in Nat \ {0}
        /\ Cardinality(Pending(id)') = Cardinality(Pending(id)) - 1
    BY <2>3, PendingFinite, FS_RemoveElement
  <2>6. args' = [args EXCEPT ![id] = @ - 1]
    BY <1>6, <2>1 DEF sg_xfer_rank_handler, StatusTyped
  <2>7. /\ args' \in Seq(Nat) /\ Len(args') = Len(args)
        /\ \A k \in 1 .. Len(args) : k # id => args'[k] = args[k]
        /\ args'[id] = args[id] - 1
    <3>1. args[id] \in Nat /\ args[id] - 1 \in Nat
      BY <1>4, <2>2, <2>4 DEF ArgsCounted
    <3> QED
      BY <1>4, <2>2, <2>6, <3>1
  <2>8. ArgsCounted'
    <3>1. SUFFICES ASSUME NEW k \in 1 .. Len(args)
                   PROVE  /\ k \notin lost => args'[k] = Cardinality(Pending(k)')
                          /\ k \in lost => args'[k] > Cardinality(Pending(k)')
      BY <1>1, <2>7 DEF ArgsCounted
    <3>2. CASE k = id
      BY <1>4, <2>4, <2>7, <3>2 DEF ArgsCounted
    <3>3. CASE k # id
      BY <2>3, <2>7, <3>3 DEF ArgsCounted
    <3> QED
      BY <3>2, <3>3
  <2>9. ArgsNamed'
    <3>1. \A q \in Ranks : \A n \in DOMAIN jobs'[q] :
            \E m \in DOMAIN jobs[q] : jobs'[q][n] = jobs[q][m]
      BY <1>1, Dequeued
    <3> QED
      BY <2>7, <3>1 DEF ArgsNamed
  <2>10. ArgsTyped' /\ ArgsLost'
    BY <1>1, <2>7, Dequeued DEF ArgsTyped, ArgsLost
  <2> QED
    BY <1>1, <2>8, <2>9, <2>10, Dequeued
<1> QED
  BY <1>5, <1>6 DEF RunJob

\* A rank whose job fails throws the others away: no reference is dropped, and
\* every call that had a job on the rank has lost it.
LEMMA ArgsDrain ==
  ASSUME ArgsInv, StatusTyped, NEW r \in Ranks, RunJob(r), status'[r] # "ok"
  PROVE  ArgsInv'
<1> USE DEF ArgsInv
<1>1. /\ jobs' = [jobs EXCEPT ![r] = <<>>] /\ args' = args
      /\ lost' = lost \cup {k \in DOMAIN args : r \in Pending(k)}
  BY DEF RunJob, dpu_thread_update_status, sg_xfer_rank_handler, StatusTyped
<1>2. /\ jobs' = [q \in Ranks |-> jobs'[q]] /\ jobs'[r] = <<>>
      /\ \A q \in Ranks : q # r => jobs'[q] = jobs[q]
  BY <1>1 DEF ArgsTyped
<1>3. IsSeq(<<>>)
  BY Tight, EmptySeq
<1>4. DOMAIN args = 1 .. Len(args) /\ \A k \in 1 .. Len(args) : args[k] \in Nat
  BY DEF ArgsTyped
<1>5. \A q \in Ranks : \A n \in DOMAIN jobs'[q] : q # r
  BY <1>2
<1>6. ArgsTyped'
  BY <1>1, <1>2, <1>3 DEF ArgsTyped
<1>7. ArgsNamed' /\ ArgsOnce'
  BY <1>1, <1>2, <1>5 DEF ArgsNamed, ArgsOnce
<1>8. ArgsLost'
  BY <1>1, <1>4 DEF ArgsLost
<1>9. \A k : Pending(k)' = Pending(k) \ {r}
  BY <1>2, <1>5 DEF Pending
<1>10. ArgsCounted'
  <2>1. SUFFICES ASSUME NEW k \in 1 .. Len(args)
                 PROVE  /\ k \notin lost' => args[k] = Cardinality(Pending(k)')
                        /\ k \in lost' => args[k] > Cardinality(Pending(k)')
    BY <1>1 DEF ArgsCounted
  <2>2. CASE r \in Pending(k)
    <3>1. /\ IsFiniteSet(Pending(k)) /\ Cardinality(Pending(k)) \in Nat \ {0}
          /\ Cardinality(Pending(k)') = Cardinality(Pending(k)) - 1
      BY <1>9, <2>2, PendingFinite, FS_RemoveElement
    <3>2. k \in lost'
      BY <1>1, <1>4, <2>2
    <3> QED
      BY <1>4, <3>1, <3>2 DEF ArgsCounted
  <2>3. CASE r \notin Pending(k)
    <3>1. Pending(k)' = Pending(k) /\ (k \in lost' <=> k \in lost)
      BY <1>1, <1>9, <2>3
    <3> QED
      BY <3>1 DEF ArgsCounted
  <2> QED
    BY <2>2, <2>3
<1> QED
  BY <1>6, <1>7, <1>8, <1>10

\* Every step leaves a status to each rank.
LEMMA StatusNext ==
  ASSUME StatusTyped, [Next]_vars
  PROVE  StatusTyped'
<1> USE DEF StatusTyped
<1>1. ASSUME NEW r, NEW j, CopyJob(r, j) PROVE StatusTyped'
  <2> DEFINE v == LET w == Verify(j.kind, j.offset, j.size) IN IF w = "empty" THEN "ok" ELSE w
  <2>1. status' = [status EXCEPT ![r] = v]
    BY <1>1 DEF CopyJob
  <2> HIDE DEF v
  <2> QED
    BY <2>1
<1>2. ASSUME NEW r, NEW j, sg_xfer_rank_handler(r, j) PROVE StatusTyped'
  <2>1. PICK v : status' = [status EXCEPT ![r] = v]
    BY <1>2 DEF sg_xfer_rank_handler
  <2> QED
    BY <2>1
<1>3. ASSUME NEW t, NEW c, dpu_push_xfer_symbol(t, c) PROVE StatusTyped'
  BY <1>1, <1>3, Zenon DEF dpu_push_xfer_symbol
<1> QED
  BY <1>1, <1>2, <1>3
     DEF Next, vars, dpu_prepare_xfer, dpu_copy, dpu_push_sg_xfer_symbol, RunJob, SyncReturn

LEMMA ArgsNext ==
  ASSUME ArgsInv, StatusTyped, [Next]_vars
  PROVE  ArgsInv'
<1>1. CASE UNCHANGED vars
  BY <1>1, ArgsStutter DEF vars, queues, history
<1>2. ASSUME NEW t \in Threads, NEW p \in Prepares, dpu_prepare_xfer(t, p.target, p.buffer)
      PROVE  ArgsInv'
  BY <1>2, ArgsStutter DEF dpu_prepare_xfer, queues
<1>3. ASSUME NEW t \in Threads, NEW c \in Pushes, dpu_push_xfer_symbol(t, c)
      PROVE  ArgsInv'
  <2> DEFINE job == [r \in c.target.ranks |->
                       Job(c.dir, c.symbol, c.offset, c.length, PushMatrix(t, c.target, r),
                           "async" \notin c.flags)]
  <2>1. \A r \in c.target.ranks : job[r].type = "copy"
    BY DEF Job
  <2>2. UNCHANGED <<args, lost>> /\ (UNCHANGED jobs \/ Enqueue(c.target.ranks, job))
    BY <1>3 DEF dpu_push_xfer_symbol, queues
  <2> HIDE DEF job
  <2> QED
    BY <2>1, <2>2, ArgsStutter, ArgsEnqueue
<1>4. ASSUME NEW t \in Threads, NEW c \in Copies, dpu_copy(t, c)
      PROVE  ArgsInv'
  <2> DEFINE buffers == [d \in Dpus |-> IF IsDpu(c.target) => d = c.target.dpu THEN c.buffer ELSE NULL]
             job == [r \in c.target.ranks |->
                       Job(c.dir, c.symbol, c.offset, c.length, buffers, "async" \notin c.flags)]
  <2>1. \A r \in c.target.ranks : job[r].type = "copy"
    BY DEF Job
  <2>2. UNCHANGED <<args, lost>> /\ Enqueue(c.target.ranks, job)
    BY <1>4 DEF dpu_copy, history
  <2> HIDE DEF job
  <2> QED
    BY <2>1, <2>2, ArgsEnqueue
<1>5. CASE SyncReturn
  BY <1>5, ArgsStutter DEF SyncReturn, history
<1> QED
  BY <1>1, <1>2, <1>3, <1>4, <1>5, ArgsPush, ArgsRefused, ArgsRun, ArgsDrain DEF Next

LEMMA ArgsInit == Init => ArgsInv
<1> SUFFICES ASSUME Init PROVE ArgsInv
  OBVIOUS
<1>1. /\ args = <<>> /\ Len(args) = 0 /\ args \in Seq(Nat)
      /\ jobs = [r \in Ranks |-> <<>>]
  BY DEF Init
<1>2. IsSeq(<<>>)
  BY Tight, EmptySeq
<1>3. ArgsTyped
  BY <1>1, <1>2 DEF ArgsTyped
<1>4. ArgsNamed /\ ArgsOnce
  BY <1>1 DEF ArgsNamed, ArgsOnce
<1>5. ArgsCounted /\ ArgsLost
  BY <1>1 DEF Init, ArgsCounted, ArgsLost
<1> QED
  BY <1>3, <1>4, <1>5 DEF ArgsInv

\* The arguments of a scatter/gather call are freed exactly when every rank has
\* run its job with success, whatever other calls, failures, drains and orders
\* of the ranks there are (sg_xfer_rank_handler, free_cb_args,
\* dpu_thread_update_status).
THEOREM ArgsAreLive == Spec => []ArgsLive
<1>1. ArgsInv => ArgsLive
  <2> SUFFICES ASSUME ArgsInv, NEW k \in DOMAIN args
               PROVE  args[k] = 0 <=> Pending(k) = {} /\ k \notin lost
    BY DEF ArgsLive
  <2>1. k \in 1 .. Len(args) /\ args[k] \in Nat
    BY DEF ArgsInv, ArgsTyped
  <2> QED
    BY <2>1, PendingFinite DEF ArgsInv, ArgsCounted
<1>2. Init => StatusTyped
  BY DEF Init, StatusTyped
<1> QED
  BY <1>1, <1>2, ArgsInit, ArgsNext, StatusNext, PTL DEF Spec

-----------------------------------------------------------------------------
(* The transfer matrices                                                     *)

\* The calls the property is about: no flag comes with DPU_XFER_NO_RESET, which
\* is compared and not tested. A push to one DPU names one rank.
PlainPushes ==
  \A c \in Pushes :
    /\ "no_reset" \in c.flags => c.flags = {"no_reset"}
    /\ IsDpu(c.target) => \E r : c.target.ranks = {r}

MatrixInv ==
  /\ matrix = [t \in Threads |-> matrix[t]] /\ prepared = [t \in Threads |-> prepared[t]]
  /\ MatrixIsPrepared

\* Adding to both keeps them together, and what was dropped is forgotten only
\* where something is added.
LEMMA MatrixPrepare ==
  ASSUME MatrixInv, NEW t \in Threads, NEW target, NEW b, dpu_prepare_xfer(t, target, b)
  PROVE  MatrixInv'
<1>1. /\ matrix' = [matrix EXCEPT ![t] = Added(@, target, b)]
      /\ prepared' = [prepared EXCEPT ![t] = Added(@, target, b)]
      /\ dropped' = {e \in dropped : e[1] = t /\ e[2] \in target.ranks => IsDpu(target) /\ e[3] # target.dpu}
  BY DEF dpu_prepare_xfer
<1>2. /\ matrix' = [u \in Threads |-> matrix'[u]] /\ prepared' = [u \in Threads |-> prepared'[u]]
      /\ matrix'[t] = Added(matrix[t], target, b) /\ prepared'[t] = Added(prepared[t], target, b)
      /\ \A u \in Threads : u # t => matrix'[u] = matrix[u] /\ prepared'[u] = prepared[u]
  BY <1>1 DEF MatrixInv
<1>3. ASSUME NEW u \in Threads, NEW r \in Ranks, NEW d \in Dpus, <<r, d>> \in Enabled
      PROVE  \/ matrix'[u][r][d] = prepared'[u][r][d]
             \/ matrix'[u][r][d] = NULL /\ <<u, r, d>> \in dropped'
  <2>1. \/ matrix[u][r][d] = prepared[u][r][d]
        \/ matrix[u][r][d] = NULL /\ <<u, r, d>> \in dropped
    BY <1>3 DEF MatrixInv, MatrixIsPrepared
  <2>2. CASE u = t /\ r \in target.ranks /\ (IsDpu(target) => d = target.dpu)
    BY <1>2, <1>3, <2>2 DEF Added
  <2>3. CASE u = t /\ ~(r \in target.ranks /\ (IsDpu(target) => d = target.dpu))
    <3>1. matrix'[u][r][d] = matrix[u][r][d] /\ prepared'[u][r][d] = prepared[u][r][d]
      <4>1. ~(r \in target.ranks /\ (IF IsDpu(target) THEN d = target.dpu ELSE <<r, d>> \in Enabled))
        BY <1>3, <2>3
      <4>2. Added(matrix[t], target, b)[r][d] = matrix[t][r][d]
        BY <4>1 DEF Added
      <4>3. Added(prepared[t], target, b)[r][d] = prepared[t][r][d]
        BY <4>1 DEF Added
      <4> QED
        BY <1>2, <2>3, <4>2, <4>3
    <3>2. <<u, r, d>> \in dropped => <<u, r, d>> \in dropped'
      BY <1>1, <2>3
    <3> QED
      BY <2>1, <3>1, <3>2
  <2>4. CASE u # t
    <3>1. <<u, r, d>> \in dropped => <<u, r, d>> \in dropped'
      BY <1>1, <2>4
    <3> QED
      BY <1>2, <2>1, <2>4, <3>1
  <2> QED
    BY <2>2, <2>3, <2>4
<1>4. MatrixIsPrepared'
  BY <1>3 DEF MatrixIsPrepared
<1> QED
  BY <1>2, <1>4 DEF MatrixInv

\* A push takes from both, or from neither; one to a DPU that sent nothing may
\* take from the matrix alone, and is noted.
LEMMA MatrixPush ==
  ASSUME PlainPushes, MatrixInv, NEW t \in Threads, NEW c \in Pushes, dpu_push_xfer_symbol(t, c)
  PROVE  MatrixInv'
<1>1. PICK sent \in BOOLEAN :
      /\ matrix' = [matrix EXCEPT ![t] =
                      IF Resets(c.flags) /\ (sent \/ IsDpu(c.target)) THEN Cleared(@, c.target) ELSE @]
      /\ prepared' = [prepared EXCEPT ![t] =
                        IF sent /\ "no_reset" \notin c.flags THEN Cleared(@, c.target) ELSE @]
      /\ dropped' = IF ~sent /\ IsDpu(c.target)
                    THEN dropped \cup {<<t, TargetRank(c.target), c.target.dpu>>} ELSE dropped
  <2> DEFINE s == /\ CheckSymbol(c.symbol, c.offset, c.length) = "ok"
                  /\ ~(IsDpu(c.target) /\ <<TargetRank(c.target), c.target.dpu>> \notin Enabled)
                  /\ ((t = "callback" /\ "async" \notin c.flags) \/ ~Refused(c.target.ranks))
  <2>1. s \in BOOLEAN
    OBVIOUS
  <2>2. /\ matrix' = [matrix EXCEPT ![t] =
                      IF Resets(c.flags) /\ (s \/ IsDpu(c.target)) THEN Cleared(@, c.target) ELSE @]
        /\ prepared' = [prepared EXCEPT ![t] =
                          IF s /\ "no_reset" \notin c.flags THEN Cleared(@, c.target) ELSE @]
        /\ dropped' = IF ~s /\ IsDpu(c.target)
                      THEN dropped \cup {<<t, TargetRank(c.target), c.target.dpu>>} ELSE dropped
    BY Zenon DEF dpu_push_xfer_symbol
  <2> HIDE DEF s
  <2> QED
    BY <2>1, <2>2
<1>2. "no_reset" \notin c.flags <=> Resets(c.flags)
  BY DEF PlainPushes, Resets
<1>3. /\ matrix' = [u \in Threads |-> matrix'[u]] /\ prepared' = [u \in Threads |-> prepared'[u]]
      /\ \A u \in Threads : u # t => matrix'[u] = matrix[u] /\ prepared'[u] = prepared[u]
      /\ matrix'[t] = IF Resets(c.flags) /\ (sent \/ IsDpu(c.target))
                      THEN Cleared(matrix[t], c.target) ELSE matrix[t]
      /\ prepared'[t] = IF sent /\ Resets(c.flags) THEN Cleared(prepared[t], c.target) ELSE prepared[t]
  BY <1>1, <1>2 DEF MatrixInv
<1>4. dropped \subseteq dropped'
  BY <1>1
<1>5. ASSUME NEW u \in Threads, NEW r \in Ranks, NEW d \in Dpus, <<r, d>> \in Enabled
      PROVE  \/ matrix'[u][r][d] = prepared'[u][r][d]
             \/ matrix'[u][r][d] = NULL /\ <<u, r, d>> \in dropped'
  <2>1. \/ matrix[u][r][d] = prepared[u][r][d]
        \/ matrix[u][r][d] = NULL /\ <<u, r, d>> \in dropped
    BY <1>5 DEF MatrixInv, MatrixIsPrepared
  <2>2. CASE u # t
    BY <1>3, <1>4, <2>1, <2>2
  <2>3. CASE u = t /\ (sent \/ ~IsDpu(c.target) \/ ~Resets(c.flags))
    BY <1>3, <1>4, <2>1, <2>3 DEF Cleared
  <2>4. CASE u = t /\ ~sent /\ IsDpu(c.target) /\ Resets(c.flags)
    <3>1. PICK q : c.target.ranks = {q}
      BY <2>4 DEF PlainPushes
    <3>2. TargetRank(c.target) = q
      BY <3>1 DEF TargetRank
    <3>3. matrix'[u][r][d] = (IF r = q /\ d = c.target.dpu THEN NULL ELSE matrix[t][r][d])
      BY <1>3, <2>4, <3>1 DEF Cleared
    <3>4. prepared'[u][r][d] = prepared[u][r][d]
      BY <1>3, <2>4
    <3>5. <<t, q, c.target.dpu>> \in dropped'
      BY <1>1, <2>4, <3>2
    <3> QED
      BY <1>4, <2>1, <2>4, <3>3, <3>4, <3>5
  <2> QED
    BY <2>2, <2>3, <2>4
<1>6. MatrixIsPrepared'
  BY <1>5 DEF MatrixIsPrepared
<1> QED
  BY <1>3, <1>6 DEF MatrixInv

\* The matrix of a thread is what that thread prepared and no transfer has
\* taken: nothing of the other thread, nothing already sent, nothing lost but
\* to a push to one DPU that sent nothing, for any calls within PlainPushes
\* (dpu_prepare_xfer, dpu_push_xfer_symbol).
THEOREM MatrixPrepared ==
  ASSUME PlainPushes
  PROVE  Spec => []MatrixIsPrepared
<1>1. Init => MatrixInv
  BY DEF Init, MatrixInv, MatrixIsPrepared
<1>2. MatrixInv /\ [Next]_vars => MatrixInv'
  <2> SUFFICES ASSUME MatrixInv, [Next]_vars PROVE MatrixInv'
    OBVIOUS
  <2>1. CASE UNCHANGED <<matrix, prepared, dropped>>
    BY <2>1 DEF MatrixInv, MatrixIsPrepared
  <2> QED
    BY <2>1, MatrixPrepare, MatrixPush
       DEF Next, vars, history, dpu_copy, dpu_push_sg_xfer_symbol, RunJob, SyncReturn
<1>3. MatrixInv => MatrixIsPrepared
  BY DEF MatrixInv
<1> QED
  BY <1>1, <1>2, <1>3, PTL DEF Spec
=============================================================================
