------------------------------ MODULE SetAlloc ------------------------------
(***************************************************************************)
(* The allocation of DPU sets: dpu_alloc and its variants, dpu_free, the   *)
(* rank handler with its reference count, the list of ranks that the       *)
(* polling threads walk, the rank numbers and the devices of the ranks.    *)
(*                                                                         *)
(* Several threads of the program allocate and free.  A step is a section  *)
(* under one of the locks (static_handler_lock, rank_id_allocator_lock,    *)
(* set_allocator_mutex), an atomic operation on the reference count, or a  *)
(* call of the rank handler.  A thread owns the ranks it is allocating, so *)
(* what it does with them alone is one step.                               *)
(***************************************************************************)
EXTENDS Integers, SequencesExt, FiniteSetsExt

CONSTANTS
  Threads,
  NrHwRanks,       \* the devices, in the order in which they are enumerated
  NrCis, NrDpus,
  VpdDisabled,     \* the DPUs <<device, ci, dpu>> that are disabled in the VPD
  MAX_NUMBER_OF_RANKS,
  Described,       \* how often dpu_get_profile_description may have been called before
  Calls,           \* [kind, n, p]: the function, its number, the profile
  MaxCalls,        \* bound: calls of all the threads, those of dpu_free not counted
  MaxFailures      \* bound: failures of the handler, the reset or the control interfaces

ASSUME SetAllocAssumption ==
  /\ NrHwRanks \in Nat /\ NrCis \in 1 .. 8 /\ NrDpus \in 1 .. 8 /\ Described \subseteq Nat
  /\ IsFiniteSet(Threads) /\ MAX_NUMBER_OF_RANKS \in Nat
  /\ VpdDisabled \subseteq (1 .. NrHwRanks) \X (0 .. NrCis - 1) \X (0 .. NrDpus - 1)

HwRanks == 1 .. NrHwRanks
RankDpus == (0 .. NrCis - 1) \X (0 .. NrDpus - 1)

(* The profile: the back-end, dispatchOnAllRanks, whether the rank is to   *)
(* be reset, whether the properties that are read late are right (ok), the *)
(* scatter/gather buffer, the DPUs masked, the type of dpu_alloc_comm.     *)
Profiles == [backend : {"hw", "default"}, dispatch : BOOLEAN, reset : BOOLEAN, ok : BOOLEAN,
             sg : {"off", "on", "bad"}, mask : SUBSET RankDpus, type : {1, 2}]
ASSUME CallsAssumption ==
  Calls \subseteq [kind : {"alloc", "ranks", "custom", "comm", "describe"}, n : Nat, p : Profiles]

COMPLETE == NrCis * NrDpus       \* 64 in dpu_alloc_comm
DPU_ALLOCATE_ALL == 1000000      \* UINT_MAX: more than there are DPUs
NoRank == 0
Objects == 1 .. (NrHwRanks + Cardinality(Threads))   \* enough for all struct dpu_rank_t in use

VARIABLES
  handler,         \* handler_context[HW]: [loaded, refcount]
  ids,             \* rank_id_allocator_bitfield
  list, next,      \* dpu_rank_handler_dpu_rank_list, dpu_rank_handler_next_dpu_rank
  rank,            \* the struct dpu_rank_t
  fd,              \* the rank that has each device open
  sets,            \* set_allocator_sets
  th,              \* the threads
  leaked,          \* references taken by dpu_get_profile_description
  lost,            \* ranks that no set and no thread knows any more
  spoiled,         \* a rank was freed under its users, or the handler was (see SPOILED)
  calls, failures
vars == <<handler, ids, list, next, rank, fd, sets, th, leaked, lost, spoiled, calls, failures>>

(* SPOILED: what the program does after one of these is undefined, and no  *)
(* new call is followed then.                                              *)
(* - Configure: a late property is wrong.  The rank is freed while it is   *)
(*   still in the list of the polling threads and has its device open.     *)
(* - init_scatter_gather_transfer_buffer fails: the ranks are freed while  *)
(*   their job threads run and their set is registered.                    *)
(* - dpu_rank_handler_get comes after the dpu_rank_handler_put that lets   *)
(*   the handler go: the lock of dpu_rank_handler_instantiate covers       *)
(*   neither the count nor dpu_rank_handler_free.                          *)

Idle == [pc |-> "idle", call |-> [kind |-> "none"], cur |-> <<>>, nd |-> 0, part |-> 0, new |-> NoRank,
         drop |-> <<>>, then |-> "idle", status |-> "DPU_OK", alone |-> TRUE, free |-> {}]
Unused == [live |-> FALSE, hw |-> 0, id |-> -1, on |-> {}, jobs |-> FALSE]

Init ==
  /\ leaked \in Described /\ handler = [loaded |-> leaked > 0, refcount |-> leaked]
  /\ ids = {} /\ list = <<NoRank>> /\ next = 1
  /\ rank = [o \in Objects |-> Unused] /\ fd = [h \in HwRanks |-> NoRank]
  /\ sets = {} /\ th = [t \in Threads |-> Idle] /\ lost = {} /\ spoiled = FALSE
  /\ calls = 0 /\ failures = 0

-----------------------------------------------------------------------------
(* Data.                                                                   *)

get_nr_of_dpus_in_rank(o) == Cardinality(rank[o].on)
Total(ranks) == FoldLeft(LAMBDA n, o : n + get_nr_of_dpus_in_rank(o), 0, ranks)
\* What the profile leaves enabled, and of that what the VPD does.
NotMasked(p) == RankDpus \ p.mask
UsableOf(h, p) == {d \in NotMasked(p) : <<h, d[1], d[2]>> \notin VpdDisabled}
\* dpu_sysfs_get_available_rank takes the first of these.
Closed == {h \in HwRanks : fd[h] = NoRank}
Fresh == CHOOSE o \in Objects :
           /\ ~rank[o].live /\ o \notin Range(list)
           /\ \A q \in Objects : q < o => rank[q].live \/ q \in Range(list)

(* disable_one_dpu: on the line with the most disabled DPUs, then in the   *)
(* rank with the most enabled ones, the last CI that has one; a rank keeps *)
(* its last DPU.  disable_one_dpu_comm with type 2 goes by CI, not by line.*)
MayLoseAny(dpus) == dpus # {}
MayLose(dpus) == Cardinality(dpus) > 1
PickDpu(on, ranks, by) ==
  LET group(i, x) == {d \in RankDpus : d[by] = x}
      off(i, x) == Cardinality(group(i, x) \ on[ranks[i]])
      candidates == {p \in (DOMAIN ranks) \X (0 .. 7) :
                       MayLose(on[ranks[p[1]]]) /\ group(p[1], p[2]) \cap on[ranks[p[1]]] # {}}
      enabled(i) == Cardinality(on[ranks[i]])
      later(a, b) == a[1] < b[1] \/ (a[1] = b[1] /\ a[2] < b[2])
      worse(a, b) ==
        \/ off(a[1], a[2]) < off(b[1], b[2])
        \/ /\ off(a[1], a[2]) = off(b[1], b[2])
           /\ enabled(a[1]) < enabled(b[1]) \/ (enabled(a[1]) = enabled(b[1]) /\ later(a, b))
      best == CHOOSE b \in candidates : \A a \in candidates \ {b} : worse(a, b)
      last == CHOOSE d \in group(best[1], best[2]) \cap on[ranks[best[1]]] :
                \A e \in group(best[1], best[2]) \cap on[ranks[best[1]]] : e[1] <= d[1] /\ e[2] <= d[2]
  IN  [rank |-> ranks[best[1]], dpu |-> last]
Disabled(ranks, n, by) ==
  LET Drop(on, i) == LET d == PickDpu(on, ranks, by) IN [on EXCEPT ![d.rank] = @ \ {d.dpu}]
  IN  FoldLeft(Drop, [o \in Objects |-> rank[o].on], [i \in 1 .. n |-> i])

\* dpu_rank_list_update_next, after the rank was written at next.
Grown(l) == l \o [i \in 1 .. Len(l) + 1 |-> NoRank]
FirstEmpty(l) == IF NoRank \in Range(l) THEN Min({i \in DOMAIN l : l[i] = NoRank}) ELSE Len(l) + 1

-----------------------------------------------------------------------------
(* Threads.                                                                *)

At(t, pc) == th[t].pc = pc
Profile(t) == th[t].call.p
Goto(t, pc) == th' = [th EXCEPT ![t].pc = pc]
MayFail == failures < MaxFailures /\ failures' = failures + 1
NoFailure == failures' = failures
\* A call during which another one is made, or something fails, is not alone.
Disturbed == [t \in Threads |-> [th[t] EXCEPT !.alone = FALSE]]

MayCall(t) == At(t, "idle") /\ ~spoiled

(* dpu_alloc, dpu_alloc_ranks, dpu_alloc_comm, dpu_alloc_custom and        *)
(* dpu_get_profile_description.  All ranks are all DPUs; dispatch is off   *)
(* when everything is asked for; 0 is refused.                             *)
Begin(t, k) ==
  /\ MayCall(t) /\ calls < MaxCalls
  /\ LET quiet == \A u \in Threads : At(u, "idle")
         all == k.n = DPU_ALLOCATE_ALL
         call == [k EXCEPT !.kind = IF @ = "ranks" /\ all THEN "alloc" ELSE @, !.p.dispatch = @ /\ ~all]
         refused == k.kind # "describe" /\ k.n = 0
     IN  th' = [(IF quiet THEN th ELSE Disturbed) EXCEPT ![t] =
                  [Idle EXCEPT !.pc = IF refused THEN "return" ELSE "rank", !.call = call, !.alone = quiet,
                               !.free = Closed, !.status = IF refused THEN "DPU_ERR_ALLOCATION" ELSE "DPU_OK"]]
  /\ calls' = calls + 1
  /\ UNCHANGED <<handler, ids, list, next, rank, fd, sets, leaked, failures, lost, spoiled>>

Instantiated == IF handler.loaded THEN handler ELSE [loaded |-> TRUE, refcount |-> 0]
(* dpu_get_rank_of_type: calloc, the type of the back-end, and             *)
(* dpu_rank_handler_instantiate under the lock.                            *)
NewRank(t) ==
  /\ At(t, "rank")
  /\ rank' = IF th[t].call.kind = "describe" THEN rank ELSE [rank EXCEPT ![Fresh] = [Unused EXCEPT !.live = TRUE]]
  /\ th' = [th EXCEPT ![t].new = IF th[t].call.kind = "describe" THEN NoRank ELSE Fresh,
                      ![t].pc = IF Profile(t).backend = "default" THEN "probe_get" ELSE "get"]
  /\ handler' = Instantiated
  /\ UNCHANGED <<ids, list, next, fd, sets, leaked, calls, failures, lost, spoiled>>
dpu_rank_handler_instantiate(t) ==
  /\ At(t, "inst")
  /\ handler' = Instantiated
  /\ Goto(t, "get")
  /\ UNCHANGED <<ids, list, next, rank, fd, sets, leaked, calls, failures, lost, spoiled>>

\* The handler that dpu_rank_handler_instantiate found is not there any more, or is about to go.
LettingGo == ~handler.loaded \/ \E t \in Threads : At(t, "unload") \/ At(t, "dropunload")
dpu_rank_handler_get(t) ==
  /\ (At(t, "probe_get") \/ At(t, "get"))
  /\ handler' = [handler EXCEPT !.refcount = @ + 1]
  /\ spoiled' = (spoiled \/ LettingGo)
  /\ leaked' = IF At(t, "get") /\ th[t].call.kind = "describe" THEN leaked + 1 ELSE leaked
  /\ Goto(t, IF At(t, "get") THEN "fill" ELSE "query")
  /\ UNCHANGED <<ids, list, next, rank, fd, sets, calls, failures, lost>>

\* determine_default_backend_type: devices are there, the handler is given back.
Query(t) ==
  /\ At(t, "query") /\ handler.loaded
  /\ th' = [th EXCEPT ![t].pc = "put", ![t].then = "inst"]
  /\ UNCHANGED <<handler, ids, list, next, rank, fd, sets, leaked, calls, failures, lost, spoiled>>

\* dpu_rank_handler_put, and dpu_rank_handler_free outside the lock.
PutEarly(t) ==
  /\ At(t, "put")
  /\ handler' = [handler EXCEPT !.refcount = @ - 1]
  /\ Goto(t, IF handler.refcount <= 2 THEN "unload" ELSE th[t].then)
  /\ UNCHANGED <<ids, list, next, rank, fd, sets, leaked, calls, failures, lost, spoiled>>
dpu_rank_handler_put(t) ==
  /\ At(t, "put")
  /\ handler' = [handler EXCEPT !.refcount = @ - 1]
  /\ Goto(t, IF handler.refcount = 1 THEN "unload" ELSE th[t].then)
  /\ UNCHANGED <<ids, list, next, rank, fd, sets, leaked, calls, failures, lost, spoiled>>
dpu_rank_handler_free(t) ==
  /\ At(t, "unload")
  /\ handler' = [handler EXCEPT !.loaded = FALSE]
  /\ Goto(t, th[t].then)
  /\ UNCHANGED <<ids, list, next, rank, fd, sets, leaked, calls, failures, lost, spoiled>>

\* release_handler and free_link of dpu_get_rank_of_type.
GiveUp(t, status) ==
  /\ th' = [(IF failures' = failures THEN th ELSE Disturbed) EXCEPT
              ![t].pc = "put", ![t].then = "norank", ![t].new = NoRank, ![t].status = status,
              ![t].alone = @ /\ failures' = failures]
  /\ rank' = [rank EXCEPT ![th[t].new] = Unused]

(* dpu_get_profile_description: the handler is not given back, neither     *)
(* when the description was made nor when it was not.                      *)
dpu_get_profile_description(t) ==
  /\ At(t, "fill") /\ handler.loaded /\ th[t].call.kind = "describe"
  /\ \/ NoFailure /\ Goto(t, "return")
     \/ MayFail /\ th' = [Disturbed EXCEPT ![t].pc = "return", ![t].status = "DPU_ERR_INVALID_PROFILE"]
  /\ UNCHANGED <<handler, ids, list, next, rank, fd, sets, leaked, calls, lost, spoiled>>

\* The lowest number that is not taken, MAX_NUMBER_OF_RANKS when all are.
dpu_get_next_rank_id == Min((0 .. MAX_NUMBER_OF_RANKS) \ ids)
keep_rank_id(o) == ids' = ids
dpu_release_rank_id(o) == ids' = ids \ {rank[o].id}

\* dpu_rank_handler_get_rank up to the description of the rank.
FillDescription(t) ==
  /\ At(t, "fill") /\ handler.loaded /\ th[t].call.kind # "describe"
  /\ LET id == dpu_get_next_rank_id IN
       \/ /\ id < MAX_NUMBER_OF_RANKS /\ NoFailure
          /\ ids' = ids \cup {id} /\ rank' = [rank EXCEPT ![th[t].new].id = id]
          /\ Goto(t, "open")
       \/ id = MAX_NUMBER_OF_RANKS /\ NoFailure /\ GiveUp(t, "DPU_ERR_ALLOCATION") /\ UNCHANGED ids
       \/ id < MAX_NUMBER_OF_RANKS /\ MayFail /\ GiveUp(t, "DPU_ERR_ALLOCATION") /\ UNCHANGED ids
  /\ UNCHANGED <<handler, list, next, fd, sets, leaked, calls, lost, spoiled>>

(* hw_allocate: the first device that can be opened.  What it opened is    *)
(* closed again when a later step fails or no DPU is enabled.              *)
hw_allocate(t) ==
  /\ At(t, "open") /\ handler.loaded
  /\ LET h == Min(Closed)
         on == UsableOf(h, Profile(t))
         Failed == GiveUp(t, "DPU_ERR_ALLOCATION") /\ dpu_release_rank_id(th[t].new) /\ UNCHANGED fd
     IN  \/ (Closed = {} \/ on = {}) /\ NoFailure /\ Failed
         \/ Closed # {} /\ MayFail /\ Failed
         \/ /\ Closed # {} /\ on # {} /\ NoFailure
            /\ fd' = [fd EXCEPT ![h] = th[t].new]
            /\ rank' = [rank EXCEPT ![th[t].new].hw = h, ![th[t].new].on = on]
            /\ Goto(t, "list") /\ UNCHANGED ids
  /\ UNCHANGED <<handler, list, next, sets, leaked, calls, lost, spoiled>>

dpu_rank_list_add(t) ==
  /\ At(t, "list")
  /\ LET full == [list EXCEPT ![next] = th[t].new] IN
       /\ next' = FirstEmpty(full)
       /\ list' = IF NoRank \in Range(full) THEN full ELSE Grown(full)
  /\ Goto(t, "configure")
  /\ UNCHANGED <<handler, ids, rank, fd, sets, leaked, calls, failures, lost, spoiled>>

-----------------------------------------------------------------------------
(* dpu_set.c                                                               *)

\* The ranks of drop are freed one after the other, and then the thread is at pc.
Dropping(s, drop, pc) == [s EXCEPT !.pc = IF drop = <<>> THEN pc ELSE "drop", !.drop = drop, !.then = pc]
Error(t, s, status) ==
  [s EXCEPT ![t] = Dropping([@ EXCEPT !.status = status, !.new = NoRank], s[t].cur, "return")]

(* The loops over the ranks go on while these hold.  dpu_alloc_comm asks   *)
(* for as many DPUs again as are in ranks it will not keep; the sum is a   *)
(* uint32_t, and DPU_ALLOCATE_ALL is the largest one.                      *)
AllocGoesOn(k, nr, nd) == nr < k.n /\ (k.p.dispatch \/ nd < k.n)
RanksGoOn(k, nr) == nr < k.n
CustomGoesOn(k, nr) == nr < k.n /\ k.p.dispatch
CommGoesOn(k, nd, part) == k.p.dispatch \/ nd < (k.n + part) % (DPU_ALLOCATE_ALL + 1)
More(k, nr, nd, part) ==
  \/ k.kind = "alloc" /\ AllocGoesOn(k, nr, nd)
  \/ k.kind = "ranks" /\ RanksGoOn(k, nr)
  \/ k.kind = "custom" /\ CustomGoesOn(k, nr)
  \/ k.kind = "comm" /\ CommGoesOn(k, nd, part)
Trimmed(k) == IF k.kind = "comm" THEN "trim" ELSE "disable"

(* The rest of dpu_get_rank_of_type checks properties of the profile when  *)
(* the rank is there already: on an error the rank is freed, and neither   *)
(* taken from the list nor closed, nor is its number given back.  Then the *)
(* rank is reset; it counts from before the reset, but in dpu_alloc_ranks, *)
(* where the rank whose reset fails is not freed.                          *)
Configure(t) ==
  /\ At(t, "configure")
  /\ LET s == th[t]
         k == s.call
         grown == Append(s.cur, s.new)
         here == get_nr_of_dpus_in_rank(s.new)
         nd == s.nd + here
         part == s.part + (IF here = COMPLETE THEN 0 ELSE here)
         Counted == /\ th' = [th EXCEPT ![t].cur = grown, ![t].nd = nd, ![t].part = part, ![t].new = NoRank, ![t].pc =
                                IF More(k, Len(grown), nd, part) THEN "rank" ELSE Trimmed(k)]
                    /\ UNCHANGED <<rank, spoiled>>
     IN  \/ NoFailure /\ k.p.ok /\ Counted /\ UNCHANGED lost
         \/ NoFailure /\ ~k.p.ok /\ GiveUp(t, "DPU_ERR_INVALID_PROFILE") /\ spoiled' = TRUE /\ UNCHANGED lost
         \/ /\ k.p.ok /\ k.p.reset /\ MayFail /\ UNCHANGED <<rank, spoiled>>
            /\ lost' = IF k.kind = "ranks" THEN lost \cup {s.new} ELSE lost
            /\ th' = Error(t, [Disturbed EXCEPT ![t].cur = IF k.kind = "ranks" THEN @ ELSE grown], "DPU_ERR_TIMEOUT")
  /\ UNCHANGED <<handler, ids, list, next, fd, sets, leaked, calls>>

\* There is no more rank and what was found will do.
FoundAll(s) == s.status = "DPU_ERR_ALLOCATION" /\ s.cur # <<>> /\ s.call.p.dispatch /\ s.nd >= s.call.n
EnoughFound(s) ==
  /\ s.call.kind # "ranks" /\ s.status = "DPU_ERR_ALLOCATION" /\ s.cur # <<>>
  /\ (s.call.n = DPU_ALLOCATE_ALL \/ (s.call.p.dispatch /\ s.nd >= s.call.n))

\* dpu_get_rank_of_type failed.
NoMoreRanks(t) ==
  /\ At(t, "norank")
  /\ LET s == th[t]
     IN  th' = IF EnoughFound(s) THEN [th EXCEPT ![t].pc = Trimmed(s.call)] ELSE Error(t, th, s.status)
  /\ UNCHANGED <<handler, ids, list, next, rank, fd, sets, leaked, calls, failures, lost, spoiled>>

\* Those of the ranks that are in S, in their order.
Those(ranks, S) == FlattenSeq([i \in DOMAIN ranks |-> IF ranks[i] \in S THEN <<ranks[i]>> ELSE <<>>])

\* dpu_alloc_comm keeps the ranks that have all their DPUs.
Trim(t) ==
  /\ At(t, "trim")
  /\ LET complete == {o \in Objects : get_nr_of_dpus_in_rank(o) = COMPLETE}
         partial == Objects \ complete
         s == [th[t] EXCEPT !.cur = Those(@, complete), !.nd = @ - th[t].part]
     IN  th' = [th EXCEPT ![t] = Dropping(s, Those(th[t].cur, partial), "disable")]
  /\ UNCHANGED <<handler, ids, list, next, rank, fd, sets, leaked, calls, failures, lost, spoiled>>

(* The assertions of disable_unused_dpus and disable_unused_dpus_comm.     *)
(* dpu_alloc_comm has cut its array to the ranks that n DPUs need.  A call *)
(* with other ranks gets no further: the program is gone, or undefined.    *)
EnoughToDisable(s) == s.cur # <<>> /\ (s.call.n = DPU_ALLOCATE_ALL \/ s.nd >= s.call.n)
RanksFit(s) == s.call.n = DPU_ALLOCATE_ALL \/ (Len(s.cur) - 1) * COMPLETE < s.call.n
Stopped(t) ==
  /\ At(t, "disable")
  /\ \/ th[t].call.kind \in {"alloc", "comm"} /\ ~EnoughToDisable(th[t])
     \/ th[t].call.kind = "comm" /\ ~RanksFit(th[t])

\* disable_unused_dpus, disable_unused_dpus_comm; a command may fail on the way.
DisableUnused(t) ==
  /\ At(t, "disable") /\ ~Stopped(t)
  /\ LET k == th[t].call
         too_many == IF k.kind \in {"ranks", "custom"} \/ k.n = DPU_ALLOCATE_ALL THEN 0 ELSE th[t].nd - k.n
         on == Disabled(th[t].cur, too_many, IF k.kind = "comm" /\ k.p.type = 2 THEN 1 ELSE 2)
     IN  \/ /\ NoFailure
            /\ rank' = [o \in Objects |-> [rank[o] EXCEPT !.on = on[o]]]
            /\ Goto(t, "jobs")
         \/ /\ too_many > 0 /\ MayFail /\ UNCHANGED rank
            /\ th' = Error(t, Disturbed, IF k.kind = "comm" THEN "DPU_ERR_INTERNAL" ELSE "DPU_ERR_TIMEOUT")
  /\ UNCHANGED <<handler, ids, list, next, fd, sets, leaked, calls, lost, spoiled>>

\* init_dpu_set: dpu_thread_job_create, then set_allocator_register.
init_dpu_set(t) ==
  /\ At(t, "jobs")
  /\ \/ /\ rank' = [o \in Objects |-> IF o \in Range(th[t].cur) THEN [rank[o] EXCEPT !.jobs = TRUE] ELSE rank[o]]
        /\ sets' = sets \cup {[ranks |-> th[t].cur, call |-> th[t].call]}
        /\ Goto(t, "sg") /\ NoFailure
     \/ MayFail /\ th' = Error(t, Disturbed, "DPU_ERR_SYSTEM") /\ UNCHANGED <<rank, sets>>
  /\ UNCHANGED <<handler, ids, list, next, fd, leaked, calls, lost, spoiled>>

\* The profile is read again; on an error the ranks are freed, and neither
\* their job threads stopped nor the set taken from the allocator.
init_scatter_gather_transfer_buffer(t) ==
  /\ At(t, "sg")
  /\ LET bad == th[t].call.kind \in {"alloc", "ranks"} /\ Profile(t).sg = "bad" IN
       /\ th' = IF bad THEN Error(t, th, "DPU_ERR_INVALID_PROFILE")
                ELSE [th EXCEPT ![t].pc = "return", ![t].status = "DPU_OK"]
       /\ spoiled' = (spoiled \/ bad)
  /\ UNCHANGED <<handler, ids, list, next, rank, fd, sets, leaked, calls, failures, lost>>

\* dpu_free of a set that the program was given: unregistered, its jobs stopped.
dpu_free(t, s) ==
  /\ MayCall(t) /\ \A u \in Threads : Range(th[u].cur) \cap Range(s.ranks) = {}
  /\ sets' = sets \ {s}
  /\ rank' = [o \in Objects |-> IF o \in Range(s.ranks) THEN [rank[o] EXCEPT !.jobs = FALSE] ELSE rank[o]]
  /\ th' = [Disturbed EXCEPT ![t] = Dropping([Idle EXCEPT !.call = [kind |-> "free"], !.alone = FALSE], s.ranks, "return")]
  /\ UNCHANGED <<handler, ids, list, next, fd, leaked, calls, failures, lost, spoiled>>

\* dpu_free_rank for each rank to drop: dpu_rank_handler_free_rank, free.
dpu_rank_list_remove(t) ==
  /\ At(t, "drop")
  /\ list' = [i \in DOMAIN list |-> IF list[i] = Head(th[t].drop) THEN NoRank ELSE list[i]]
  /\ Goto(t, "close")
  /\ UNCHANGED <<handler, ids, next, rank, fd, sets, leaked, calls, failures, lost, spoiled>>
hw_free(t) ==
  /\ At(t, "close") /\ handler.loaded
  /\ fd' = [h \in HwRanks |-> IF fd[h] = Head(th[t].drop) THEN NoRank ELSE fd[h]]
  /\ Goto(t, "release")
  /\ UNCHANGED <<handler, ids, list, next, rank, sets, leaked, calls, failures, lost, spoiled>>
FreeNumber(t) ==
  /\ At(t, "release")
  /\ dpu_release_rank_id(Head(th[t].drop))
  /\ Goto(t, "giveback")
  /\ UNCHANGED <<handler, list, next, rank, fd, sets, leaked, calls, failures, lost, spoiled>>
dpu_free_rank(t) ==
  /\ At(t, "giveback")
  /\ rank' = [rank EXCEPT ![Head(th[t].drop)].live = FALSE]
  /\ handler' = [handler EXCEPT !.refcount = @ - 1]
  /\ th' = [th EXCEPT ![t] = IF handler.refcount = 1 THEN [@ EXCEPT !.pc = "dropunload"]
                                                   ELSE Dropping(@, Tail(@.drop), @.then)]
  /\ UNCHANGED <<ids, list, next, fd, sets, leaked, calls, failures, lost, spoiled>>
DropUnload(t) ==
  /\ At(t, "dropunload")
  /\ handler' = [handler EXCEPT !.loaded = FALSE]
  /\ th' = [th EXCEPT ![t] = Dropping(@, Tail(@.drop), @.then)]
  /\ UNCHANGED <<ids, list, next, rank, fd, sets, leaked, calls, failures, lost, spoiled>>
Return(t) ==
  /\ At(t, "return")
  /\ th' = [th EXCEPT ![t] = Idle]
  /\ UNCHANGED <<handler, ids, list, next, rank, fd, sets, leaked, calls, failures, lost, spoiled>>

Quiet == (spoiled \/ (calls = MaxCalls /\ sets = {})) /\ (\A t \in Threads : At(t, "idle")) /\ UNCHANGED vars
\* An assertion fails, or the program calls through the handler that is not there.
Calling(t) == th[t].pc \in {"query", "fill", "open", "close"}
Gone == (\E t \in Threads : Stopped(t) \/ (Calling(t) /\ ~handler.loaded)) /\ UNCHANGED vars

Next ==
  \/ \E t \in Threads :
       \/ \E k \in Calls : Begin(t, k)
       \/ \E s \in sets : dpu_free(t, s)
       \/ NewRank(t) \/ dpu_rank_handler_instantiate(t) \/ dpu_rank_handler_get(t) \/ Query(t) \/ dpu_rank_handler_put(t)
       \/ dpu_rank_handler_free(t) \/ dpu_get_profile_description(t) \/ FillDescription(t) \/ hw_allocate(t) \/ dpu_rank_list_add(t)
       \/ Configure(t) \/ NoMoreRanks(t) \/ Trim(t) \/ DisableUnused(t) \/ init_dpu_set(t)
       \/ init_scatter_gather_transfer_buffer(t)
       \/ dpu_rank_list_remove(t) \/ hw_free(t) \/ FreeNumber(t) \/ dpu_free_rank(t) \/ DropUnload(t) \/ Return(t)
  \/ Quiet \/ Gone

Spec == Init /\ [][Next]_vars

-----------------------------------------------------------------------------
(* Iterators.  DPU i of a rank is DPU i % NrDpus of CI i \div NrDpus; the  *)
(* entangled groups take the CIs first (8 and 8 in the code).              *)

dpu_set_rank_iterator_from(ranks) == [rank |-> 1, has_next |-> Len(ranks) # 0]
dpu_set_rank_iterator_next(it, ranks) ==
  IF it.rank < Len(ranks) THEN [it EXCEPT !.rank = @ + 1] ELSE [it EXCEPT !.has_next = FALSE]

LineOrder == [i \in 0 .. COMPLETE - 1 |-> <<i \div NrDpus, i % NrDpus>>]
EntangledOrder == [i \in 0 .. COMPLETE - 1 |-> <<i % NrCis, i \div NrCis>>]

(* The next DPU that is enabled, in this rank or in a later one, from the  *)
(* position where the iterator stopped: rank_it, next_idx.                 *)
FoundAgain(it, rank_it, i, dpu) ==
  [it EXCEPT !.rank_it = rank_it, !.next_idx = i, !.next = <<rank_it.rank, dpu>>]
Found(it, rank_it, i, dpu) ==
  [it EXCEPT !.rank_it = rank_it, !.next_idx = i + 1, !.next = <<rank_it.rank, dpu>>]
Ahead(it, ranks, order) ==
  {p \in (DOMAIN ranks) \X (0 .. COMPLETE - 1) :
     /\ p[1] > it.rank_it.rank \/ (p[1] = it.rank_it.rank /\ p[2] >= it.next_idx)
     /\ order[p[2]] \in rank[ranks[p[1]]].on}
advance_to_next_dpu(it, ranks, order) ==
  LET ahead == Ahead(it, ranks, order)
      first == CHOOSE p \in ahead : \A q \in ahead : p[1] < q[1] \/ (p[1] = q[1] /\ p[2] <= q[2])
      rank_it == FoldLeft(LAMBDA x, j : dpu_set_rank_iterator_next(x, ranks), it.rank_it,
                          [j \in 1 .. (IF ahead = {} THEN Len(ranks) ELSE first[1] - it.rank_it.rank) |-> j])
  IN  IF ahead = {} THEN [it EXCEPT !.has_next = FALSE, !.rank_it = rank_it]
      ELSE Found(it, rank_it, first[2], order[first[2]])
advance_to_next_dpu_in_rank_list(it, ranks) == advance_to_next_dpu(it, ranks, LineOrder)
advance_to_next_dpu_in_rank_list_rotate_group(it, ranks) == advance_to_next_dpu(it, ranks, EntangledOrder)

\* Both loops begin with the first DPU in the order of the lines.
dpu_set_dpu_iterator_from(ranks) ==
  LET it == [rank_it |-> dpu_set_rank_iterator_from(ranks), has_next |-> Len(ranks) # 0, next_idx |-> 0, next |-> <<>>]
  IN  IF it.has_next THEN advance_to_next_dpu_in_rank_list(it, ranks) ELSE it

\* The DPUs that the body of a loop sees, one after the other; one step more than there are DPUs.
Visited(ranks, entangled) ==
  LET Advanced(it) == IF entangled THEN advance_to_next_dpu_in_rank_list_rotate_group(it, ranks)
                   ELSE advance_to_next_dpu_in_rank_list(it, ranks)
  IN  FoldLeft(LAMBDA x, j : IF x.it.has_next THEN [it |-> Advanced(x.it), seen |-> Append(x.seen, x.it.next)] ELSE x,
               [it |-> dpu_set_dpu_iterator_from(ranks), seen |-> <<>>],
               [j \in 1 .. (COMPLETE * Len(ranks) + 1) |-> j]).seen
DPU_FOREACH(ranks) == Visited(ranks, FALSE)
DPU_FOREACH_ENTANGLED_GROUP(ranks) == Visited(ranks, TRUE)

-----------------------------------------------------------------------------
(* Properties.                                                             *)

(* A thread that calls through the rank handler finds its library loaded:  *)
(* determine_default_backend_type and dpu_get_profile_description,         *)
(* dpu_rank_handler_get_rank, dpu_rank_handler_free_rank against a         *)
(* dpu_rank_handler_put of another thread.  Calls overlap as they like;    *)
(* the one thing that takes the library from a thread is a get in the gap  *)
(* that static_handler_lock leaves, between a dpu_rank_handler_put that    *)
(* counts to 0 and the next dpu_rank_handler_instantiate (SPOILED): every  *)
(* error path puts once what it got.                                       *)
HandlerLoaded == spoiled \/ \A t \in Threads : Calling(t) => handler.loaded

(* The list that the polling threads walk (dpu_rank_list_add, _remove)     *)
(* holds live ranks, each once, each with a device and a number of its own,*)
(* and the slot that the next rank is written to is free.  When no call is *)
(* in progress, whatever failed before, the open devices, the numbers, the *)
(* listed ranks and the references of the handler are those of the sets of *)
(* the program and of the ranks it has lost, which are those of            *)
(* dpu_alloc_ranks whose reset failed.  The two error paths that free a    *)
(* rank under its users end in SPOILED.                                    *)
Listed == {i \in DOMAIN list : list[i] # NoRank}
Held == (UNION {Range(s.ranks) : s \in sets}) \cup lost
ListExact ==
  /\ list[next] = NoRank
  /\ \A i \in Listed :
       /\ rank[list[i]].live /\ fd[rank[list[i]].hw] = list[i]
       /\ \A j \in Listed \ {i} : list[j] # list[i] /\ rank[list[j]].id # rank[list[i]].id
Balanced ==
  /\ {o \in Objects : rank[o].live} = Held
  /\ {fd[h] : h \in HwRanks} \ {NoRank} = Held /\ Range(list) \ {NoRank} = Held
  /\ ids = {rank[o].id : o \in Held}
  /\ handler.refcount = leaked + Cardinality(Held)
RanksAccounted == spoiled \/ (ListExact /\ ((\A t \in Threads : At(t, "idle")) => Balanced))

(* A set has what was asked for: so many DPUs or ranks, at least one DPU   *)
(* in every rank, no DPU that the VPD or the profile disables, for         *)
(* dpu_alloc_comm no rank that misses one; two sets share no rank.  After  *)
(* SPOILED, ranks of a set may have been freed.                            *)
AllocExact ==
  spoiled \/ \A s \in sets :
    LET k == s.call IN
      /\ \A i \in DOMAIN s.ranks :
           LET r == rank[s.ranks[i]] IN
             /\ r.live /\ r.jobs /\ r.on # {} /\ r.on \subseteq UsableOf(r.hw, k.p)
             /\ k.kind = "comm" => UsableOf(r.hw, k.p) = RankDpus
             /\ (k.n = DPU_ALLOCATE_ALL \/ k.kind \in {"ranks", "custom"}) => r.on = UsableOf(r.hw, k.p)
      /\ (k.kind \in {"alloc", "comm"} /\ k.n # DPU_ALLOCATE_ALL) => Total(s.ranks) = k.n
      /\ k.kind = "ranks" => Len(s.ranks) = k.n
      /\ IsInjective(s.ranks) /\ \A z \in sets \ {s} : Range(s.ranks) \cap Range(z.ranks) = {}

(* A call that runs alone and meets no failure is served exactly when its  *)
(* profile is right and the devices it can get have what it asks for: those*)
(* that were closed when it began, before the first one without a usable   *)
(* DPU (hw_allocate finds that one again and again), as far as there are   *)
(* numbers for ranks.                                                      *)
AllocServes ==
  \A t \in Threads : (At(t, "return") /\ th[t].alone /\ th[t].call.kind # "free") =>
    LET k == th[t].call
        sizes == [h \in th[t].free |-> Cardinality(UsableOf(h, k.p))]
        usable == {h \in th[t].free : /\ \A g \in th[t].free : g <= h => sizes[g] > 0
                                      /\ Cardinality({g \in HwRanks : g <= h \/ g \notin th[t].free}) <= MAX_NUMBER_OF_RANKS}
        complete == {h \in usable : sizes[h] = COMPLETE}
        dpus(S) == MapThenSumSet(LAMBDA h : sizes[h], S)
        right == k.kind = "describe" \/ (k.p.ok /\ (k.kind \in {"alloc", "ranks"} => k.p.sg # "bad"))
    IN  (th[t].status = "DPU_OK") <=> right /\
          CASE k.kind = "describe" -> TRUE
            [] k.kind # "describe" /\ k.n = 0 -> FALSE
            [] k.kind = "ranks" /\ k.n > 0 -> Cardinality(usable) >= k.n
            [] k.kind = "comm" /\ k.n \in 1 .. DPU_ALLOCATE_ALL - 1 -> COMPLETE * Cardinality(complete) >= k.n
            [] k.kind = "custom" /\ k.n > 0 /\ ~k.p.dispatch -> usable # {}
            [] OTHER -> IF k.n = DPU_ALLOCATE_ALL THEN usable # {} ELSE dpus(usable) >= k.n

(* The loops of the program see every DPU of a new set once, and only the  *)
(* enabled ones: DPU_FOREACH on any set, DPU_FOREACH_ENTANGLED_GROUP on    *)
(* what dpu_alloc_comm leaves enabled, where DPU n of the hypercube is DPU *)
(* n of the entangled order.                                               *)
LoopsSeeSet ==
  \A t \in Threads : (At(t, "sg") /\ th[t].cur # <<>>) =>
    LET ranks == th[t].cur
        dpus == {p \in (DOMAIN ranks) \X RankDpus : p[2] \in rank[ranks[p[1]]].on}
        Once(seen) == Range(seen) = dpus /\ Len(seen) = Cardinality(dpus)
        Entangled(seen) == \A i, j \in DOMAIN seen : (i < j /\ seen[i][1] = seen[j][1]) =>
                             \/ seen[i][2][2] < seen[j][2][2]
                             \/ seen[i][2][2] = seen[j][2][2] /\ seen[i][2][1] < seen[j][2][1]
    IN  /\ Once(DPU_FOREACH(ranks))
        /\ th[t].call.kind = "comm" => LET seen == DPU_FOREACH_ENTANGLED_GROUP(ranks) IN Once(seen) /\ Entangled(seen)
=============================================================================
