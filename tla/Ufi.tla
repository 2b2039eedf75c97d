-------------------------------- MODULE Ufi --------------------------------
(***************************************************************************)
(* The control interfaces (CIs) of one rank: the protocol of ufi_ci.c, the *)
(* caches of ufi.c, and the reset, repair and access functions built on    *)
(* them.  One thread at a time talks to the rank, under the rank lock.     *)
(*                                                                         *)
(* A command is committed to all the CIs at once and answered by each in   *)
(* its own time.  An answer carries a colour that changes with every       *)
(* command; the host knows the colour to expect and polls until it sees it.*)
(* To save commands the host remembers for each CI the structure register, *)
(* the selected DPUs and the groups, and skips what it believes is there.  *)
(***************************************************************************)
EXTENDS UfiScripts, FiniteSets

CONSTANTS
  DisabledDpus,    \* the DPUs <<ci, dpu>> disabled when the rank is allocated
  Damage,          \* corrupted addresses of each memory of each DPU
  Calls,           \* the calls the program may make
  MaxCalls,        \* bound: calls made
  MaxPolls,        \* NB_RETRY_FOR_VALID_RESULT
  FaultyFrames,    \* bound: the frames at which such a failure happens:
  MaxFailures      \* bound: failed commits and reads, late answers, unreadable colours

ASSUME SizeAssumption == NrCis \in 1 .. 8 /\ NrDpus \in 1 .. 8 /\ MaxPolls \in Nat

VARIABLES
  color,           \* the CIs whose next answer has colour 1
  fault_decode, fault_collide,
  slice,           \* slice_info of each CI
  cmds,            \* the command buffer of the rank, reused by every command
  mask,            \* the CI mask of the function that runs
  save,            \* what save_enabled_dpus keeps
  prog,            \* the steps still to be made
  flight,          \* the command in progress
  pc,
  status,
  hw,              \* the CIs themselves
  call,            \* the call in progress
  ran,             \* what each DPU was made to do since the call began, but for a reset
  failed,          \* the CIs with an unanswered command since their last reset
  lapsed,          \* a call failed since the last reset began
  reset_failed,    \* a reset failed
  usable,          \* the DPUs that are neither disabled nor beyond repair
  calls, failures
vars == <<color, fault_decode, fault_collide, slice, cmds, mask, save, prog, flight, pc, status,
          hw, call, ran, failed, lapsed, usable, reset_failed, calls, failures>>

AllDpus == ALL_CIS \X Dpus
Groups == {DPU_ENABLED_GROUP, DPU_DISABLED_GROUP}
NoTarget == [type |-> "none", id |-> 0]
Empty == [c \in ALL_CIS |-> CI_EMPTY]
NoFlight == [kind |-> "none", frames |-> Empty, color |-> {}, done |-> {}, wait |-> FALSE,
             expect |-> [c \in ALL_CIS |-> {}], polls |-> 0]
NoCall == [name |-> "none"]

EnabledOf(c) == slice[c].enabled_dpus
Enabled == {p \in AllDpus : p[2] \in EnabledOf(p[1])}

Init ==
  /\ color = {} /\ fault_decode = {} /\ fault_collide = {}
  /\ slice = [c \in ALL_CIS |->
       LET on == {d \in Dpus : <<c, d>> \notin DisabledDpus} IN
         [target |-> NoTarget, structure_value |-> "none",
          dpus_per_group |-> [g \in Groups |-> IF g = DPU_ENABLED_GROUP THEN Dpus ELSE {}],
          enabled_dpus |-> on, all_dpus_are_enabled |-> on = Dpus]]
  /\ cmds = Empty /\ mask = {}
  /\ save = [c \in ALL_CIS |-> [all |-> FALSE, on |-> {}]]
  /\ prog = <<>> /\ flight = NoFlight /\ pc = "idle" /\ status = "DPU_OK"
  /\ hw = [c \in ALL_CIS |-> [color |-> 1, inbox |-> CI_EMPTY, last |-> CI_EMPTY, structure |-> "none",
                              selected |-> {}, group |-> [d \in Dpus |-> DPU_ENABLED_GROUP],
                              collide |-> FALSE, late |-> FALSE, bits |-> 0, answer |-> {}]]
  /\ call = NoCall /\ ran = [p \in AllDpus |-> <<>>]
  /\ failed = {} /\ lapsed = FALSE /\ reset_failed = FALSE /\ usable = AllDpus \ DisabledDpus
  /\ calls = 0 /\ failures = 0

-----------------------------------------------------------------------------
(* The CIs: external, from what the code expects of them.  A CI takes the  *)
(* frame in its inbox, changes its colour and answers; a frame committed   *)
(* before it was taken replaces it, and a frame that the structure does    *)
(* not describe does nothing.  Both are reported with the colour.  A CI is *)
(* late only where the host gave up waiting: it takes a frame before the   *)
(* next one is committed.                                                  *)

Chosen(h, f) ==
  CASE f.v = "all" -> Dpus
    [] f.v = "dpu" -> {f.id}
    [] f.v = "group" -> {d \in Dpus : h.group[d] = f.id}

Answered(h, f) ==
  LET decoded == f.s \in {"none", h.structure} \/ f.k = "structure"
      bits == (IF decoded THEN 0 ELSE 1) + (IF h.collide THEN 2 ELSE 0)
      seen == [h EXCEPT !.color = 1 - @, !.inbox = CI_EMPTY, !.last = f, !.collide = FALSE, !.late = FALSE, !.bits = bits,
                        !.answer = IF f.v \in {"iram", "wram"} /\ decoded THEN h.selected ELSE {}]
  IN  CASE f.k = "reset" -> [seen EXCEPT !.color = 1, !.selected = {}, !.bits = 0,
                                         !.group = [d \in Dpus |-> DPU_ENABLED_GROUP]]
        [] f.k = "structure" -> [seen EXCEPT !.structure = f.s]
        [] f.k = "select" /\ decoded -> [seen EXCEPT !.selected = Chosen(h, f)]
        [] f.k = "group" /\ decoded ->
             [seen EXCEPT !.group = [d \in Dpus |-> IF d \in h.selected THEN f.id ELSE h.group[d]]]
        [] OTHER -> seen

Execute(c) ==
  /\ hw[c].inbox # CI_EMPTY
  /\ hw' = [hw EXCEPT ![c] = Answered(hw[c], hw[c].inbox)]
  /\ LET f == hw[c].inbox IN
       ran' = IF f.k = "op" /\ f.s = hw[c].structure /\ call.name # "reset"
              THEN [p \in AllDpus |-> IF p[1] = c /\ p[2] \in hw[c].selected
                                      THEN Append(ran[p], f.v) ELSE ran[p]]
              ELSE ran
  /\ UNCHANGED <<color, fault_decode, fault_collide, slice, cmds, mask, save, prog, flight, pc, status,
                 call, failed, lapsed, usable, reset_failed, calls, failures>>

-----------------------------------------------------------------------------
(* ufi_ci.c                                                                *)

compute_ci_mask(frames) == {c \in ALL_CIS : frames[c] # CI_EMPTY}
keep_color(cis) == color
invert_color(cis) == (color \ cis) \cup (cis \ color)

ci_fill_selected_dpu_mask(c) ==
  LET t == slice[c].target IN
    CASE t.type = "all" -> Dpus
      [] t.type = "dpu" -> {t.id}
      [] t.type = "group" -> slice[c].dpus_per_group[t.id]
      [] OTHER -> {}

\* An error ends the call, unless the step is one whose result is ignored.
Ignored(step) == step.op \in {"reset", "sendignored"}
Fail(err, ignored, cis) ==
  /\ status' = IF ignored THEN status ELSE err
  /\ prog' = IF ignored THEN Tail(prog) ELSE <<>>
  /\ pc' = "run" /\ flight' = NoFlight
  /\ failed' = failed \cup cis /\ lapsed' = TRUE

MayFail(frames) == failures < MaxFailures /\ Range(frames) \cap FaultyFrames # {}

\* Up to the commit of exec_cmd, ci_exec_reset_cmd and ci_exec_byte_discovery.
Commit(kind, frames, wait) ==
  LET cis == compute_ci_mask(frames) IN
    IF wait /\ \E c \in cis : slice[c].target.type = "none"
    THEN /\ Fail("DPU_ERR_INTERNAL", FALSE, {})
         /\ UNCHANGED <<color, hw, failures>>
    ELSE /\ \A c \in cis : hw[c].inbox # CI_EMPTY => hw[c].late
         /\ color' = invert_color(cis)
         /\ \/ /\ hw' = [c \in ALL_CIS |->
                    IF c \notin cis THEN hw[c]
                    ELSE [hw[c] EXCEPT !.inbox = frames[c], !.collide = @ \/ hw[c].inbox # CI_EMPTY]]
               /\ flight' = [kind |-> kind, frames |-> frames, color |-> color \cap cis,
                             done |-> ALL_CIS \ cis, wait |-> wait, polls |-> 0,
                             expect |-> [c \in ALL_CIS |-> ci_fill_selected_dpu_mask(c)]]
               /\ pc' = "poll"
               /\ UNCHANGED <<prog, status, failed, lapsed, failures>>
            \/ /\ MayFail(frames)
               /\ failures' = failures + 1
               /\ Fail("DPU_ERR_DRIVER", Ignored(Head(prog)), cis)
               /\ UNCHANGED hw

\* determine_if_commands_are_finished: the CIs are looked at in order.
Todo == ALL_CIS \ flight.done
Ready(c) ==
  /\ (hw[c].color = 1) <=> (c \in flight.color)
  /\ flight.wait => hw[c].answer = flight.expect[c]
ReadyUpTo(c) == \A b \in Todo : b <= c => Ready(b)

Finished == pc' = "run" /\ flight' = NoFlight /\ prog' = Tail(prog)
\* The host gives up the CIs it still waits for.
GiveUp(err) ==
  /\ hw' = [c \in ALL_CIS |-> [hw[c] EXCEPT !.late = c \in Todo /\ hw[c].inbox # CI_EMPTY]]
  /\ Fail(err, Ignored(Head(prog)), Todo)
\* The last read of a loop that gives up; a late answer counts as a failure.
Timeout ==
  LET late == \E c \in Todo : hw[c].inbox # CI_EMPTY IN
    /\ flight.polls = MaxPolls
    /\ late => MayFail(flight.frames)
    /\ failures' = failures + (IF late THEN 1 ELSE 0)
    /\ GiveUp("DPU_ERR_TIMEOUT")
\* A read of the rank fails, or a byte discovery takes longer than its loop.
WaitFails ==
  /\ pc = "poll" /\ MayFail(flight.frames)
  /\ failures' = failures + 1
  /\ GiveUp(IF flight.kind = "discover" THEN "DPU_ERR_TIMEOUT" ELSE "DPU_ERR_DRIVER")
  /\ UNCHANGED <<color, fault_decode, fault_collide, slice, cmds, mask, save, call, ran, usable,
                 reset_failed, calls>>

Poll ==
  /\ pc = "poll" /\ flight.kind = "cmd"
  /\ LET now == {c \in Todo : ReadyUpTo(c)} IN
       /\ fault_decode' = fault_decode \cup {c \in now : hw[c].bits \in {1, 3}}
       /\ fault_collide' = fault_collide \cup {c \in now : hw[c].bits \in {2, 3}}
       /\ IF now = Todo
          THEN Finished /\ UNCHANGED <<hw, status, failed, lapsed, failures>>
          ELSE \/ /\ flight.polls < MaxPolls
                  /\ flight' = [flight EXCEPT !.done = @ \cup now, !.polls = @ + 1]
                  /\ UNCHANGED <<hw, pc, prog, status, failed, lapsed, failures>>
               \/ Timeout
  /\ UNCHANGED <<color, slice, cmds, mask, save, call, ran, usable, reset_failed, calls>>

\* Four bits of the colour are set: the CI counts as done at the next read.
Unreadable(c) ==
  /\ pc = "poll" /\ flight.kind = "cmd" /\ c \in Todo
  /\ \A b \in Todo : b < c => Ready(b)
  /\ MayFail(flight.frames) /\ flight.polls < MaxPolls
  /\ failures' = failures + 1
  /\ flight' = [flight EXCEPT !.done = @ \cup {b \in Todo : b <= c}, !.polls = @ + 1]
  /\ failed' = failed \cup {c} /\ lapsed' = TRUE
  /\ hw' = [hw EXCEPT ![c].late = hw[c].inbox # CI_EMPTY]
  /\ LET now == {b \in Todo : b < c} IN
       /\ fault_decode' = fault_decode \cup {b \in now : hw[b].bits \in {1, 3}}
       /\ fault_collide' = fault_collide \cup {b \in now : hw[b].bits \in {2, 3}}
  /\ UNCHANGED <<color, slice, cmds, mask, save, prog, pc, status, call, ran, usable, reset_failed, calls>>

\* The wait of a byte discovery, then that of a reset, which end once the CIs are done.
wait_for_byte_discovery ==
  /\ pc = "poll" /\ flight.kind = "discover"
  /\ \A c \in Todo : hw[c].inbox = CI_EMPTY
  /\ Finished
  /\ UNCHANGED <<color, fault_decode, fault_collide, slice, cmds, mask, save, status, hw, call, ran,
                 failed, lapsed, usable, reset_failed, calls, failures>>

ci_exec_reset_cmd ==
  /\ pc = "poll" /\ flight.kind = "reset"
  /\ \A c \in Todo : hw[c].inbox = CI_EMPTY
  /\ color' = color \ Todo
  /\ fault_collide' = fault_collide \ Todo
  /\ fault_decode' = fault_decode \ Todo
  /\ slice' = [c \in ALL_CIS |->
       [slice[c] EXCEPT !.target = NoTarget,
                        !.dpus_per_group = [g \in Groups |-> IF g = DPU_ENABLED_GROUP THEN Dpus ELSE {}]]]
  /\ failed' = failed \ Todo
  /\ Finished
  /\ UNCHANGED <<cmds, mask, save, status, hw, call, ran, lapsed, usable, reset_failed, calls, failures>>

-----------------------------------------------------------------------------
(* ufi.c                                                                   *)

At(op) == pc = "run" /\ prog # <<>> /\ Head(prog).op = op
Frm == Head(prog).frame
Arg == Head(prog).arg
Continue(steps) == prog' = steps \o Tail(prog) /\ UNCHANGED <<color, flight, pc, status, hw, failed, lapsed, failures>>
\* What no step of ufi.c changes.
Frozen == UNCHANGED <<fault_decode, fault_collide, save, call, ran, usable, reset_failed, calls>>

UseMask ==
  /\ At("use") /\ mask' = Head(prog).cis /\ Continue(<<>>)
  /\ UNCHANGED <<slice, cmds>> /\ Frozen

UFI_exec_write_structure ==
  /\ At("structure")
  /\ slice' = [c \in ALL_CIS |-> IF c \in mask THEN [slice[c] EXCEPT !.structure_value = Frm.s] ELSE slice[c]]
  /\ IF \E c \in mask : slice[c].structure_value # Frm.s
     THEN LET frames == [c \in ALL_CIS |-> IF c \in mask THEN Frm ELSE CI_EMPTY] IN
            cmds' = frames /\ Commit("cmd", frames, FALSE)
     ELSE Continue(<<>>) /\ UNCHANGED cmds
  /\ UNCHANGED mask /\ Frozen

\* ci_prepare_mask, then ci_exec_void_cmd, ci_exec_8bit_cmd or ci_exec_32bit_cmd.
SendFrame ==
  /\ (At("send") \/ At("sendignored") \/ At("discover") \/ At("reset"))
  /\ cmds' = [c \in ALL_CIS |-> IF c \in mask THEN Frm ELSE CI_EMPTY]
  /\ Commit(IF Head(prog).op \in {"discover", "reset"} THEN Head(prog).op ELSE "cmd", cmds', FALSE)
  /\ UNCHANGED <<slice, mask>> /\ Frozen

\* cmds[each_ci] = ... for the CIs of the mask, then ci_exec_..._cmd(cmds).
FillFrames ==
  /\ (At("fill") \/ At("fillwait"))
  /\ cmds' = [c \in ALL_CIS |-> IF c \in mask THEN Frm ELSE cmds[c]]
  /\ Commit("cmd", cmds', Head(prog).op = "fillwait")
  /\ UNCHANGED <<slice, mask>> /\ Frozen

\* UFI_exec_write_structures: the structures of the frames just filled in.
UFI_exec_write_structures ==
  /\ At("structures")
  /\ LET need == Head(prog).cis
         stale == {c \in mask \cap need : slice[c].structure_value # cmds[c].s}
     IN  /\ slice' = [c \in ALL_CIS |->
              IF c \in stale THEN [slice[c] EXCEPT !.structure_value = cmds[c].s] ELSE slice[c]]
         /\ IF stale # {}
            THEN Commit("cmd", [c \in ALL_CIS |-> IF c \in need THEN Structure(cmds[c].s) ELSE CI_EMPTY], FALSE)
            ELSE Continue(<<>>)
  /\ UNCHANGED <<cmds, mask>> /\ Frozen

CommitFrames ==
  /\ At("commit")
  /\ Commit("cmd", cmds, FALSE)
  /\ UNCHANGED <<slice, cmds, mask>> /\ Frozen

SelectCis ==
  /\ At("cis") /\ mask' = {c \in mask : EnabledOf(c) # {}} /\ Continue(<<>>)
  /\ UNCHANGED <<slice, cmds>> /\ Frozen

Target(type, id) == [type |-> type, id |-> id]
Retarget(cis, target) == [c \in ALL_CIS |-> IF c \in cis THEN [slice[c] EXCEPT !.target = target[c]] ELSE slice[c]]

\* ufi_select_all and its variant for disabled DPUs: one frame per CI.
SelectEach(need, target) ==
  /\ slice' = Retarget(need, target)
  /\ cmds' = [c \in ALL_CIS |-> IF c \in need THEN CI_SELECT(target[c].type, target[c].id) ELSE cmds[c]]
  /\ Continue(IF need = {} THEN <<>>
              ELSE <<Step("structures", CI_EMPTY, 0, need), Step("commit", CI_EMPTY, 0, {})>>)
  /\ Frozen

SelectAll ==
  /\ At("all")
  /\ LET target == [c \in ALL_CIS |-> IF slice[c].all_dpus_are_enabled THEN Target("all", 0)
                                    ELSE Target("group", DPU_ENABLED_GROUP)]
         differs == {c \in mask : slice[c].target.type # target[c].type
                                    \/ (target[c].type = "group" /\ slice[c].target.id # target[c].id)}
         none == {c \in differs : ~slice[c].all_dpus_are_enabled /\ EnabledOf(c) = {}}
     IN  mask' = mask \ none /\ SelectEach(differs \ none, target)

SelectAllEvenDisabled ==
  /\ At("alleven")
  /\ mask' = {c \in mask : EnabledOf(c) # {}}
  /\ SelectEach({c \in mask' : slice[c].target.type # "all"}, [c \in ALL_CIS |-> Target("all", 0)])

\* The selection that the CI is believed to have is another one.
DiffersInType(c, target) == slice[c].target.type # target.type
Differs(c, target) == slice[c].target # target

\* ufi_select_group, ufi_select_dpu and its variant: one frame for the mask.
SelectSame(cis, target) ==
  LET differs == {c \in cis : Differs(c, target)}
  IN  /\ mask' = cis
      /\ slice' = Retarget(differs, [c \in ALL_CIS |-> target])
      /\ Continue(IF differs = {} THEN <<>>
                  ELSE <<WriteStructure("target"), Send(CI_SELECT(target.type, target.id))>>)
      /\ UNCHANGED cmds /\ Frozen

SelectGroup == At("selectgroup") /\ SelectSame({c \in mask : slice[c].dpus_per_group[Arg] # {}}, Target("group", Arg))
SelectDpu == At("dpu") /\ SelectSame({c \in mask : Arg \in EnabledOf(c)}, Target("dpu", Arg))
SelectDpuEvenDisabled == At("dpueven") /\ SelectSame({c \in mask : EnabledOf(c) # {}}, Target("dpu", Arg))

SelectUncached ==
  /\ (At("alluncached") \/ At("groupuncached") \/ At("dpuuncached"))
  /\ slice' = Retarget(mask, [c \in ALL_CIS |-> Target(Frm.v, Frm.id)])
  /\ Continue(<<>>)
  /\ UNCHANGED <<cmds, mask>> /\ Frozen

\* The DPUs of each group once these are in group id.
RegroupedOnly(groups, id, dpus) == [g \in Groups |-> IF g = id THEN groups[g] \cup dpus ELSE groups[g]]
Regrouped(groups, id, dpus) == [g \in Groups |-> IF g = id THEN groups[g] \cup dpus ELSE groups[g] \ dpus]

\* The bookkeeping of ufi_write_group; no CI of the mask is without a target.
WriteGroup ==
  /\ At("group")
  /\ slice' = [c \in ALL_CIS |->
       IF c \notin mask THEN slice[c]
       ELSE [slice[c] EXCEPT !.dpus_per_group = Regrouped(@, Arg, ci_fill_selected_dpu_mask(c))]]
  /\ Continue(<<>>)
  /\ UNCHANGED <<cmds, mask>> /\ Frozen

-----------------------------------------------------------------------------
(* ufi_config.c                                                            *)

\* What no step of ufi_config.c changes.
Kept == UNCHANGED <<fault_decode, fault_collide, cmds, mask, call, ran, usable, reset_failed, calls>>

\* All DPUs are enabled during the reset, except on CIs that have none.
save_enabled_dpus ==
  /\ (At("save") \/ At("resave"))
  /\ save' = [c \in ALL_CIS |->
       LET s == slice[c] IN
         IF Head(prog).op = "save" THEN [all |-> s.all_dpus_are_enabled, on |-> s.enabled_dpus]
         ELSE [all |-> save[c].all /\ s.all_dpus_are_enabled, on |-> save[c].on \cap s.enabled_dpus]]
  /\ slice' = [c \in ALL_CIS |->
       IF EnabledOf(c) = {} THEN slice[c]
       ELSE [slice[c] EXCEPT !.all_dpus_are_enabled = TRUE, !.enabled_dpus = Dpus]]
  /\ Continue(<<>>) /\ Kept

NB_MAX_REPAIR_ADDR_LESS == 3
NB_MAX_REPAIR_ADDR == 4
Unset == -1
(* info: the corrupted addresses, [msbs, lsbs, bits].  Two pairs of words  *)
(* with the same upper bits can be replaced, and one even and one odd bit. *)
extract_memory_repair_configuration(info) ==
  LET Place(r, a) ==
        IF ~r.ok THEN r
        ELSE IF r.A = Unset THEN [r EXCEPT !.AB = a.msbs, !.A = a.lsbs]
        ELSE IF r.B = Unset /\ r.AB = a.msbs THEN [r EXCEPT !.B = a.lsbs]
        ELSE IF r.C = Unset THEN [r EXCEPT !.CD = a.msbs, !.C = a.lsbs]
        ELSE IF r.D = Unset /\ r.CD = a.msbs THEN [r EXCEPT !.D = a.lsbs]
        ELSE [r EXCEPT !.ok = FALSE]
      words == FoldLeft(Place, [ok |-> TRUE, AB |-> Unset, CD |-> Unset, A |-> Unset, B |-> Unset,
                                C |-> Unset, D |-> Unset], info)
      bits == UNION {info[i].bits : i \in DOMAIN info}
  IN  /\ Len(info) <= NB_MAX_REPAIR_ADDR
      /\ words.ok
      /\ Cardinality(bits) <= 2
      /\ \A x, y \in bits : x # y => x % 2 # y % 2

RepairLine ==
  /\ At("repair")
  /\ slice' = [c \in ALL_CIS |->
       IF extract_memory_repair_configuration(Damage[<<Frm.v, c, Arg>>]) THEN slice[c]
       ELSE [slice[c] EXCEPT !.enabled_dpus = @ \ {Arg}, !.all_dpus_are_enabled = FALSE]]
  /\ Continue(<<>>) /\ Kept /\ UNCHANGED save

AnyLeft ==
  /\ At("anyleft")
  /\ IF \E c \in ALL_CIS : EnabledOf(c) # {} THEN Continue(<<>>)
     ELSE Fail("DPU_ERR_CORRUPTED_MEMORY", FALSE, {}) /\ UNCHANGED <<color, hw, failures>>
  /\ Kept /\ UNCHANGED <<slice, save>>

InitGroups ==
  /\ At("initgroups")
  /\ LET full == {c \in ALL_CIS : save[c].all}
         part == {p \in AllDpus : p[1] \notin full /\ save[p[1]].on # {}}
         GroupOf(p) == IF p[2] \in save[p[1]].on THEN DPU_ENABLED_GROUP ELSE DPU_DISABLED_GROUP
     IN  Continue(PerDpu(part, [p \in part |-> <<Use({p[1]})>> \o ufi_select_dpu(p[2]) \o ufi_write_group(GroupOf(p))])
                    \o (IF full = {} THEN <<>>
                        ELSE <<Use(full)>> \o ufi_select_all \o ufi_write_group(DPU_ENABLED_GROUP))
                    \o <<Step("restore", CI_EMPTY, 0, {})>>)
  /\ Kept /\ UNCHANGED <<slice, save>>

RestoreEnabled ==
  /\ At("restore")
  /\ slice' = [c \in ALL_CIS |-> [slice[c] EXCEPT !.all_dpus_are_enabled = save[c].all,
                                                  !.enabled_dpus = save[c].on]]
  /\ Continue(<<>>) /\ Kept /\ UNCHANGED save

DisableOne ==
  /\ At("disable")
  /\ slice' = [c \in ALL_CIS |->
       IF c \notin Head(prog).cis THEN slice[c]
       ELSE [slice[c] EXCEPT !.enabled_dpus = @ \ {Arg}, !.all_dpus_are_enabled = FALSE]]
  /\ Continue(<<>>) /\ Kept /\ UNCHANGED save

-----------------------------------------------------------------------------
(* The calls.  Of a call the model knows the steps, the DPUs it is for and *)
(* what it makes each of them do.                                          *)

OneDpu == {"iram_dpu", "from_iram_dpu", "wram_dpu", "from_wram_dpu", "boot_dpu", "sample_pc",
           "wavegen_status", "disable"}

Matrices == {"iram_matrix", "from_iram_matrix", "wram_matrix", "from_wram_matrix"}
Sized == {"iram_rank", "iram_dpu", "from_iram_dpu", "wram_rank", "wram_dpu", "from_wram_dpu"} \cup Matrices
Others == {"boot_rank", "poll", "reset", "group", "group_uncached", "all_uncached", "dpu_uncached"}

\* The types of the arguments: calls name CIs, DPUs and groups of the rank.
ASSUME CallsAssumption ==
  \A k \in Calls :
    /\ k.name \in OneDpu \cup Sized \cup Others
    /\ k.name \in OneDpu \cup {"dpu_uncached"} => <<k.c, k.d>> \in AllDpus
    /\ k.name \in Sized => k.n \in Nat
    /\ k.name \in Matrices => k.dpus \subseteq AllDpus
    /\ k.name \in {"group", "group_uncached"} => k.n \in Groups
    /\ k.name \in {"boot_rank", "boot_dpu"} => k.mux \in BOOLEAN /\ k.resume \in BOOLEAN
    /\ k.name = "reset" => {k.hw, k.iram, k.wram, k.mux} \subseteq BOOLEAN

Script(k) ==
  CASE k.name = "iram_rank" -> ci_copy_to_irams_rank(k.n)
    [] k.name = "iram_dpu" -> ci_copy_to_irams_dpu(k.c, k.d, k.n)
    [] k.name = "from_iram_dpu" -> ci_copy_from_irams_dpu(k.c, k.d, k.n)
    [] k.name = "iram_matrix" -> ci_copy_to_irams_matrix(k.dpus \cap Enabled, k.n)
    [] k.name = "from_iram_matrix" -> ci_copy_from_irams_matrix(k.dpus \cap Enabled, k.n)
    [] k.name = "wram_rank" -> ci_copy_to_wrams_rank(k.n)
    [] k.name = "wram_dpu" -> ci_copy_to_wrams_dpu(k.c, k.d, k.n)
    [] k.name = "from_wram_dpu" -> ci_copy_from_wrams_dpu(k.c, k.d, k.n)
    [] k.name = "wram_matrix" -> ci_copy_to_wrams_matrix(k.dpus, k.n)
    [] k.name = "from_wram_matrix" -> ci_copy_from_wrams_matrix(k.dpus, k.n)
    [] k.name = "boot_rank" -> ci_start_thread_rank(k.mux, k.resume)
    [] k.name = "boot_dpu" -> ci_start_thread_dpu(k.c, k.d, k.mux, k.resume)
    [] k.name = "poll" -> ci_poll_rank
    [] k.name = "sample_pc" -> ci_sample_pc_dpu(k.c, k.d)
    [] k.name = "wavegen_status" -> dpu_wavegen_read_status(k.c, k.d)
    [] k.name = "disable" -> dpu_disable_one_dpu(k.c, k.d)
    [] k.name = "reset" -> ci_reset_rank(k)
    [] k.name = "group" -> <<Use(ALL_CIS)>> \o ufi_select_group(k.n) \o ufi_read_dpu_run
    [] k.name = "group_uncached" -> <<Use(ALL_CIS)>> \o ufi_select_group_uncached(k.n) \o ufi_read_dpu_run
    [] k.name = "all_uncached" -> <<Use(ALL_CIS)>> \o ufi_select_all_uncached \o ufi_read_dpu_run
    [] k.name = "dpu_uncached" -> <<Use({k.c})>> \o ufi_select_dpu_uncached(k.d) \o ufi_read_dpu_run

\* The DPUs of a group are those the groups written so far put there; a CI
\* without an enabled DPU is out of use.
CallTarget(k) ==
  CASE k.name \in OneDpu -> {<<k.c, k.d>>}
    [] k.name \in Matrices -> k.dpus \cap Enabled
    [] k.name \in {"group", "group_uncached"} -> {p \in AllDpus : EnabledOf(p[1]) # {} /\ hw[p[1]].group[p[2]] = k.n}
    [] k.name = "all_uncached" -> AllDpus
    [] k.name = "dpu_uncached" -> {<<k.c, k.d>>}
    [] k.name = "reset" -> {}
    [] OTHER -> Enabled

CallWork(k) ==
  CASE k.name \in {"iram_rank", "iram_dpu", "iram_matrix"} -> [i \in 1 .. k.n |-> "iram"]
    [] k.name \in {"from_iram_dpu", "from_iram_matrix"} -> [i \in 1 .. 6 * k.n |-> "iram_read"]
    [] k.name \in {"wram_rank", "wram_dpu", "wram_matrix"} -> [i \in 1 .. k.n |-> "wram"]
    [] k.name \in {"from_wram_dpu", "from_wram_matrix"} -> [i \in 1 .. k.n |-> "wram_read"]
    [] k.name \in {"boot_rank", "boot_dpu"} -> IF k.resume THEN <<"resume">> ELSE <<"boot">>
    [] k.name = "poll" -> <<"run", "fault">>
    [] k.name = "sample_pc" -> <<"sample", "pc", "pc">>
    [] k.name = "wavegen_status" -> <<"dma", "dma_clear", "dma_read">>
    [] k.name \in {"group", "group_uncached", "all_uncached", "dpu_uncached"} -> <<"run">>
    [] OTHER -> <<>>

Call(k) ==
  /\ pc = "idle" /\ calls < MaxCalls
  /\ k.name \in OneDpu => <<k.c, k.d>> \in Enabled
  /\ calls' = calls + 1
  /\ call' = [name |-> k.name, k |-> k, target |-> CallTarget(k)]
  /\ prog' = Script(k) /\ pc' = "run" /\ status' = "DPU_OK"
  /\ ran' = [p \in AllDpus |-> <<>>]
  /\ lapsed' = (lapsed /\ k.name # "reset")
  /\ UNCHANGED <<color, fault_decode, fault_collide, slice, cmds, mask, save, flight, hw, failed,
                 usable, reset_failed, failures>>

(* Damage that two pairs of words and two bits can stand in for.           *)
Repairable(info) ==
  /\ \E pair \in SUBSET DOMAIN info :
       /\ Cardinality(pair) <= 2 /\ Cardinality(DOMAIN info \ pair) <= 2
       /\ \A i, j \in DOMAIN info : (i \in pair <=> j \in pair) => info[i].msbs = info[j].msbs
  /\ \A parity \in {0, 1} :
       Cardinality({b \in UNION {info[i].bits : i \in DOMAIN info} : b % 2 = parity}) <= 1

Return ==
  /\ pc = "run" /\ prog = <<>>
  /\ pc' = "idle"
  /\ usable' = CASE status # "DPU_OK" -> usable
                 [] call.name = "disable" -> usable \ call.target
                 [] call.name = "reset" ->
                      {p \in usable : /\ call.k.iram => Repairable(Damage[<<"iram", p[1], p[2]>>])
                                      /\ call.k.wram => Repairable(Damage[<<"wram", p[1], p[2]>>])}
                 [] OTHER -> usable
  /\ reset_failed' = (reset_failed \/ (call.name = "reset" /\ status # "DPU_OK"))
  /\ UNCHANGED <<color, fault_decode, fault_collide, slice, cmds, mask, save, prog, flight, status,
                 hw, call, ran, failed, lapsed, calls, failures>>

\* All calls are made and nothing is left in a CI.
Quiet == pc = "idle" /\ calls = MaxCalls /\ (\A c \in ALL_CIS : hw[c].inbox = CI_EMPTY) /\ UNCHANGED vars

Next ==
  \/ \E c \in ALL_CIS : Execute(c) \/ Unreadable(c)
  \/ \E k \in Calls : Call(k)
  \/ Poll \/ WaitFails \/ wait_for_byte_discovery \/ ci_exec_reset_cmd
  \/ UseMask \/ UFI_exec_write_structure \/ SendFrame \/ FillFrames \/ UFI_exec_write_structures
  \/ CommitFrames \/ SelectCis \/ SelectAll \/ SelectAllEvenDisabled \/ SelectGroup \/ SelectDpu
  \/ SelectDpuEvenDisabled \/ SelectUncached \/ WriteGroup
  \/ save_enabled_dpus \/ RepairLine \/ AnyLeft \/ InitGroups \/ RestoreEnabled \/ DisableOne
  \/ Return \/ Quiet

Spec == Init /\ [][Next]_vars

-----------------------------------------------------------------------------
(* Properties                                                              *)

\* A command that the host takes for answered was answered: a CI whose
\* commands were all answered since its last reset holds no command, and its
\* last one is that of the host (ufi_ci.c: expected_color, invert_color).  A
\* reset makes the colours agree again whatever went wrong before it.
AnswerIsFresh ==
  \A c \in compute_ci_mask(flight.frames) :
    (flight.kind = "cmd" /\ c \in flight.done /\ c \notin failed) =>
      hw[c].inbox = CI_EMPTY /\ hw[c].last = flight.frames[c]

\* Between two calls, unless one failed since the last reset, what the host
\* remembers of the CIs is what they hold: the structure register, the
\* selected DPUs and the groups (slice_info is written before the commands
\* are sent, and ci_reset_rank repairs what a failed call left in it).  A CI
\* without an enabled DPU is not reset, but its groups are taken for reset.
CachesAgree ==
  (pc = "idle" /\ ~lapsed) =>
    \A c \in {b \in ALL_CIS : EnabledOf(b) # {}} :
      /\ slice[c].structure_value = hw[c].structure
      /\ slice[c].target.type # "none" => ci_fill_selected_dpu_mask(c) = hw[c].selected
      /\ \A g \in Groups : slice[c].dpus_per_group[g] = {d \in Dpus : hw[c].group[d] = g}

\* A call that succeeds made every DPU it is for do all of its work, in order,
\* though selections and structures believed to be in place were not sent
\* again, and each CI decoded every frame (ufi_select_all, ufi_select_dpu,
\* UFI_exec_write_structure).  A frame may be done again: see OnlyTarget.
\* After a failed write of a structure the reset sends one frame that is not
\* decoded, and the CI stays in fault_decode.
CallReaches ==
  (pc = "idle" /\ status = "DPU_OK" /\ ~lapsed /\ call # NoCall) =>
    \A p \in call.target :
      /\ LET work == CallWork(call.k)
             Matched(n, v) == IF n < Len(work) /\ v = work[n + 1] THEN n + 1 ELSE n
         IN  FoldLeft(Matched, 0, ran[p]) = Len(work)
      /\ failures = 0 => p[1] \notin fault_decode \cup fault_collide

\* After any sequence of calls in which no reset failed, the enabled DPUs are those that
\* nobody disabled and that the repair lines can repair, and the selection of
\* all DPUs means them (save_enabled_dpus, dpu_init_groups, dpu_disable_one_dpu,
\* extract_memory_repair_configuration).
EnabledAreUsable == (pc = "idle" /\ ~reset_failed) => Enabled = usable

\* A call reaches no other DPU than those it is for.
OnlyTarget ==
  (pc = "idle" /\ status = "DPU_OK" /\ ~lapsed /\ call # NoCall /\ call.name # "reset") =>
    \A p \in AllDpus \ call.target :
      SelectSeq(ran[p], LAMBDA v : v \in {"boot", "resume", "iram", "wram"}) = <<>>
=============================================================================
