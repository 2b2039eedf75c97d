-------------------------------- MODULE Debug --------------------------------
(***************************************************************************)
(* Debugging sessions on one DPU (ufi/src/ufi_debug.c, drain_pipeline of   *)
(* api/src/dpu_internals.c, the calls of api/src/dpu_debug.c).  A session  *)
(* empties the pipeline, remembers in which order the threads ran and      *)
(* where, lets the debugger look and step, and puts the threads back.      *)
(*                                                                         *)
(* A call is a sequence of commands, each of which may fail and end it.    *)
(* The DPU is external: it executes an instruction of the first thread of  *)
(* its FIFO whenever nothing stops it, also between two commands.  Of its  *)
(* memories the model knows which program is in the IRAM and the word in   *)
(* which a session leaves the faults it has cleared; registers are data.   *)
(***************************************************************************)
EXTENDS Integers, SequencesExt

CONSTANTS
  NrThreads,    \* description->hw.dpu.nr_of_threads
  IramSize,     \* description->hw.memories.iram_size
  Programs,     \* what may be in the IRAM: address -> kind of instruction
  Members,      \* member_id of the DPU in its control interface: one of these
  HasStore,     \* the program has the symbol error_storage
  MaxSessions, MaxCalls, MaxFailures   \* bounds

Threads == 0 .. (NrThreads - 1)
Addresses == 0 .. (IramSize - 1)
Faults == {"bkp", "dma", "mem"}
NotScheduled == 255
DPU_FAULT_UNKNOWN_ID == -1
NobodyKnown == -1      \* a thread index nobody has written

VARIABLES
  hw,      \* the DPU: [member, run, pc, flags, blame, iram, store]
  code,    \* the program it was loaded with
  ctx,     \* struct dpu_context_t: [pcs, scheduling, nr_of_running_threads, fault, thread, id]
  loc,     \* locals of the call: faults read, their threads, thread stepped, threads waiting
  prog,    \* commands the call has still to make
  phase,   \* "free", "session", "saved" by a checkpoint, or "lost" once a call has failed
  was,     \* what a detached DPU must be like: [run, pc, gone, keep] (history)
  count    \* [sessions, calls, failures]

vars == <<hw, code, ctx, loc, prog, phase, was, count>>

-----------------------------------------------------------------------------
(* The DPU.                                                                *)

After(pc) == (pc + 1) % IramSize
Before(pc) == IF pc = 0 THEN IramSize - 1 ELSE pc - 1

\* Reads of the BKP fault clear the interception caused by a resume in fault.
Stopped == hw.flags \cap {"dpu", "bkp", "intercept"} # {}

\* The programs of the debugger stop every thread that gets into them.
InstructionAt(pc) ==
  IF hw.iram = "routine" \/ (hw.iram = "stop at 0" /\ pc = 0) THEN "stop" ELSE code[pc]

\* "fault 0" is the breakpoint of a debugger, "fault 1" a fault of the program.
Raised(i) ==
  CASE i \in {"fault 0", "fault 1"} -> {"bkp"}
    [] i \in {"dma", "mem"} -> {i}
    [] OTHER -> {}

\* The history: only a step asked for by the debugger may change what it must
\* leave behind.  The thread goes to the end of the FIFO, or leaves it.
AwaitsStepOf(t) == prog # <<>> /\ Head(prog).op = "await" /\ Head(prog).t = t
WasAfter(t, i) ==
  LET rest == SelectSeq(was.run, LAMBDA u : u # t)
  IN  [was EXCEPT !.run = IF i = "stop" THEN rest ELSE Append(rest, t),
                  !.pc[t] = IF Raised(i) = {} THEN After(@) ELSE @,
                  !.gone = IF i = "stop" THEN @ \cup {t} ELSE @,
                  !.keep = @ \/ (Raised(i) # {} /\ i # "fault 0")]

\* One instruction of the first thread; a poisoned DPU stops after it, and an
\* instruction FAULT takes the poison away.
Execute ==
  LET t == Head(hw.run)
      i == InstructionAt(hw.pc[t])
      new == Raised(i)
      order == IF i = "stop" THEN Tail(hw.run) ELSE Append(Tail(hw.run), t)
  IN  /\ ~Stopped /\ hw.run # <<>>
      /\ hw' = [hw EXCEPT
           !.run = order,
           !.pc[t] = After(@),
           !.flags = (@ \cup new \cup (IF new # {} \/ "poison" \in @ THEN {"dpu"} ELSE {}))
                       \ (IF "bkp" \in new THEN {"poison"} ELSE {}),
           !.blame = [k \in Faults |-> IF k \in new THEN t ELSE @[k]]]
      /\ was' = IF AwaitsStepOf(t) THEN WasAfter(t, i) ELSE was
      /\ UNCHANGED <<code, ctx, loc, prog, phase, count>>

-----------------------------------------------------------------------------
(* Commands.  A call makes them one after the other.                       *)

Command(op, t, flag) == [op |-> op, t |-> t, flag |-> flag]
SetFlag(f) == Command("set", 0, f)
ClearFlag(f) == Command("clear", 0, f)
Read(f) == Command("read", 0, f)
ReadThread(f) == Command("thread", 0, f)
Resume(t) == Command("resume", t, "none")
Drain(schedule) == Command("drain", 0, schedule)
Do(op) == Command(op, 0, "none")

ufi_set_dpu_fault_and_step == SetFlag("dpu")    \* its step: see PopThread
ufi_set_bkp_fault == SetFlag("bkp")
ufi_set_poison_fault == SetFlag("poison")
ufi_clear_fault_dpu == ClearFlag("dpu")
ufi_clear_fault_bkp == ClearFlag("bkp")
ufi_clear_fault_poison == ClearFlag("poison")
ufi_read_bkp_fault == Read("bkp")
ufi_read_bkp_fault_NULL == ClearFlag("intercept")     \* only for its effect
ufi_read_poison_fault == Read("poison")
ufi_read_and_clear_dma_fault == Read("dma")
ufi_read_and_clear_mem_fault == Read("mem")

At(op) == prog # <<>> /\ Head(prog).op = op
T == Head(prog).t
Flag == Head(prog).flag
Then(commands) == prog' = commands \o Tail(prog)
Same == UNCHANGED <<code, phase, was, count>>

SetOrClear ==
  /\ \/ At("set") /\ hw' = [hw EXCEPT !.flags = @ \cup {Flag}]
     \/ At("clear") /\ hw' = [hw EXCEPT !.flags = @ \ {Flag}]
  /\ Then(<<>>) /\ Same /\ UNCHANGED <<ctx, loc>>

\* Reading the DMA and the MEM fault clears them, reading the BKP fault the
\* interception.
ReadFault ==
  /\ At("read")
  /\ loc' = [loc EXCEPT !.faults = IF Flag \in hw.flags THEN @ \cup {Flag} ELSE @ \ {Flag}]
  /\ hw' = [hw EXCEPT !.flags = @ \ (CASE Flag = "bkp" -> {"intercept"}
                                       [] Flag \in {"dma", "mem"} -> {Flag}
                                       [] OTHER -> {})]
  /\ Then(<<>>) /\ Same /\ UNCHANGED ctx

ReadFaultThread ==
  /\ At("thread")
  /\ loc' = [loc EXCEPT !.thread[Flag] = hw.blame[Flag]]
  /\ Then(<<>>) /\ Same /\ UNCHANGED <<hw, ctx>>

\* dpu_thread_boot_safe_for_dpu with resume: the thread goes on where it stopped.
ResumeThread ==
  /\ At("resume")
  /\ hw' = [hw EXCEPT !.run = IF Contains(@, T) THEN @ ELSE Append(@, T),
                      !.flags = IF "dpu" \in @ THEN @ \cup {"intercept"} ELSE @]
  /\ Then(<<>>) /\ Same /\ UNCHANGED <<ctx, loc>>

\* drain_pipeline: as long as a thread runs, the first one of the FIFO is made
\* to execute a STOP in the place of its instruction.
drain_pipeline ==
  /\ At("drain")
  /\ Then(IF hw.run = <<>> THEN <<>> ELSE <<Command("pop", 0, Flag)>>)
  /\ Same /\ UNCHANGED <<hw, ctx, loc>>

Popped(c, t, pc, schedule) ==
  [c EXCEPT !.pcs[t] = pc,
            !.scheduling[t] = IF schedule THEN c.nr_of_running_threads ELSE @,
            !.nr_of_running_threads = IF schedule THEN @ + 1 ELSE @]

PopThread ==
  LET t == Head(hw.run) IN
  /\ At("pop")
  /\ hw' = [hw EXCEPT !.run = Tail(@), !.flags = @ \cup {"dpu", "replace"}]
  /\ ctx' = Popped(ctx, t, hw.pc[t], Flag = "schedule")
  /\ Then(<<IF Len(hw.run) > 1 THEN Head(prog) ELSE ClearFlag("replace")>>)
  /\ Same /\ UNCHANGED loc

\* decrement_thread_pc: a thread cannot be told its pc, so it is booted on an
\* instruction STOP at address 0 that sets it.  The loop ends when the DPU is
\* not running: nothing may keep it from executing, and nothing else may run.
decrement_thread_pc(t) == <<Command("decrement", t, "none"), Command("bootstop", t, "none"), Do("restore iram")>>

DecrementPc ==
  /\ At("decrement")
  /\ ctx' = [ctx EXCEPT !.pcs[T] = Before(@)]
  /\ hw' = [hw EXCEPT !.iram = "stop at 0"]
  /\ Then(<<>>) /\ Same /\ UNCHANGED loc

BootStop ==
  /\ At("bootstop") /\ ~Stopped /\ hw.run = <<>>
  /\ hw' = [hw EXCEPT !.pc[T] = ctx.pcs[T]]
  /\ Then(<<>>) /\ Same /\ UNCHANGED <<ctx, loc>>

RestoreIram ==
  /\ At("restore iram")
  /\ hw' = [hw EXCEPT !.iram = "program"]
  /\ Then(<<>>) /\ Same /\ UNCHANGED <<ctx, loc>>

\* extract_bkp_fault_id
FaultId(pc) ==
  CASE InstructionAt(pc) = "fault 0" -> 0
    [] InstructionAt(pc) = "fault 1" -> 1
    [] OTHER -> DPU_FAULT_UNKNOWN_ID

-----------------------------------------------------------------------------
(* ci_debug_init_dpu                                                       *)

ci_debug_init_dpu ==
  <<ReadThread("bkp"), ufi_read_bkp_fault, ufi_set_bkp_fault, Drain("schedule"), Do("others"),
    ReadThread("dma"), ReadThread("mem"), ufi_clear_fault_bkp, ufi_read_and_clear_dma_fault,
    ufi_read_and_clear_mem_fault, ufi_clear_fault_dpu, Do("bkp fault"), Command("memory fault", 0, "dma"),
    Command("memory fault", 0, "mem"), Do("error storage")>>

Idle(c) == SetToSortSeq({t \in Threads : c.scheduling[t] = NotScheduled}, <)
ResumeAll(threads) == [i \in DOMAIN threads |-> Resume(threads[i])]

\* The threads that do not run are resumed in fault, only to see their pcs.
OtherThreads ==
  /\ At("others")
  /\ Then(IF ctx.nr_of_running_threads = NrThreads THEN <<>>
          ELSE <<ufi_clear_fault_dpu, ufi_set_dpu_fault_and_step>> \o ResumeAll(Idle(ctx))
                 \o <<ufi_read_bkp_fault_NULL, Drain("keep")>>)
  /\ Same /\ UNCHANGED <<hw, ctx, loc>>

\* bkp_fault = (result & mask_one) != 0, then (bkp_fault & mask_one) != 0: the
\* locals are 0 or 1 and only the mask of the first member has that bit.
MaskOne(member) == 2 ^ member
Tested == MaskOne(hw.member) % 2 = 1
Seen(k) == k \in loc.faults /\ Tested

BkpFault ==
  LET t == loc.thread["bkp"]
      id == FaultId(Before(ctx.pcs[t]))
  IN  /\ At("bkp fault")
      /\ IF Seen("bkp")
         THEN /\ ctx' = [ctx EXCEPT !.fault = IF id = DPU_FAULT_UNKNOWN_ID THEN @ \ {"bkp"} ELSE @ \cup {"bkp"},
                                    !.thread["bkp"] = t, !.id = id]
              /\ Then(IF id = DPU_FAULT_UNKNOWN_ID THEN <<>> ELSE decrement_thread_pc(t))
         ELSE Then(<<>>) /\ UNCHANGED ctx
      /\ Same /\ UNCHANGED <<hw, loc>>

MemoryFault ==
  /\ At("memory fault")
  /\ IF Seen(Flag)
     THEN /\ ctx' = [ctx EXCEPT !.fault = @ \cup {Flag}, !.thread[Flag] = loc.thread[Flag]]
          /\ Then(decrement_thread_pc(loc.thread[Flag]))
     ELSE Then(<<>>) /\ UNCHANGED ctx
  /\ Same /\ UNCHANGED <<hw, loc>>

\* What an earlier session has left there, then what this one leaves.
encode_error_storage(c) ==
  [fault |-> c.fault \cap {"dma", "mem"}, dma |-> c.thread["dma"], mem |-> c.thread["dma"]]
ErrorStorage ==
  LET old == hw.store
      updated == IF old.fault = {} THEN ctx
                 ELSE [ctx EXCEPT !.fault = @ \cup old.fault,
                                  !.thread = [k \in Faults |->
                                     IF k = "bkp" \/ Seen(k) THEN @[k]
                                     ELSE IF k = "dma" THEN old.dma ELSE old.mem]]
  IN  /\ At("error storage")
      /\ IF HasStore
         THEN /\ ctx' = updated
              /\ hw' = IF Seen("dma") \/ Seen("mem") THEN [hw EXCEPT !.store = encode_error_storage(updated)] ELSE hw
         ELSE UNCHANGED <<ctx, hw>>
      /\ Then(<<>>) /\ Same /\ UNCHANGED loc

-----------------------------------------------------------------------------
(* ci_debug_teardown_dpu                                                   *)

\* Mutant: the threads are resumed in the order of their numbers.
scheduling_order_unsorted(c) == SetToSortSeq({t \in Threads : c.scheduling[t] # NotScheduled}, <)

\* scheduling_order[scheduling[t]] = t for one thread after the other: the last
\* thread that claims a position has it.  Only the positions of the threads that
\* were running are read.
scheduling_order(c) ==
  [i \in 1 .. c.nr_of_running_threads |-> Max({t \in Threads : c.scheduling[t] = i - 1})]

ci_debug_teardown_dpu ==
  <<ufi_set_dpu_fault_and_step, ufi_set_bkp_fault>> \o ResumeAll(scheduling_order(ctx))
    \o <<ufi_read_bkp_fault_NULL, ufi_clear_fault_bkp, Do("release")>>

\* A DPU that was in fault stays in fault.
KeepsFault(c) == ("bkp" \in c.fault /\ c.id # 0) \/ c.fault \cap {"dma", "mem"} # {}

Release ==
  /\ At("release")
  /\ hw' = IF KeepsFault(ctx) THEN hw ELSE [hw EXCEPT !.flags = @ \ {"dpu"}]
  /\ phase' = "free"
  /\ Then(<<>>) /\ UNCHANGED <<code, ctx, loc, was, count>>

-----------------------------------------------------------------------------
(* ci_debug_step_dpu                                                       *)

Others(t) == SelectSeq(scheduling_order(ctx), LAMBDA u : u # t)
ci_debug_step_dpu(t) ==
  <<ufi_set_dpu_fault_and_step, ufi_set_poison_fault, Resume(t)>> \o ResumeAll(Others(t))
    \o <<ufi_read_bkp_fault_NULL, ufi_clear_fault_bkp, ufi_clear_fault_dpu, Command("await", t, "none"), ufi_read_poison_fault,
          ufi_clear_fault_poison, ufi_read_bkp_fault_NULL, ufi_clear_fault_bkp, ufi_read_and_clear_dma_fault,
          ufi_read_and_clear_mem_fault, Do("unschedule"), Drain("schedule"), ufi_clear_fault_dpu,
          Command("stepped", t, "none")>>

\* The end of the step: the DPU does not run or is in fault.
Await ==
  /\ At("await") /\ (hw.run = <<>> \/ "dpu" \in hw.flags)
  /\ Then(<<>>) /\ Same /\ UNCHANGED <<hw, ctx, loc>>

Unschedule ==
  /\ At("unschedule")
  /\ loc' = [loc EXCEPT !.waiting = ctx.nr_of_running_threads - 1]
  /\ ctx' = [ctx EXCEPT !.scheduling = [t \in Threads |-> NotScheduled], !.nr_of_running_threads = 0]
  /\ Then(<<>>) /\ Same /\ UNCHANGED hw

\* A thread that has gone on running may have met a fault; a FAULT instruction
\* has taken the poison away.
Stepped ==
  LET new == (IF "poison" \in loc.faults THEN {} ELSE {"bkp"}) \cup (loc.faults \cap {"dma", "mem"})
  IN  /\ At("stepped")
      /\ IF ctx.nr_of_running_threads - loc.waiting = 1
         THEN /\ ctx' = [ctx EXCEPT !.fault = @ \cup new,
                                    !.thread = [k \in Faults |-> IF k \in new THEN T ELSE @[k]],
                                    !.id = IF "bkp" \in new THEN FaultId(Before(ctx.pcs[T])) ELSE @]
              /\ Then(FlattenSeq([i \in 1 .. Cardinality(new) |-> decrement_thread_pc(T)]))
         ELSE Then(<<>>) /\ UNCHANGED ctx
      /\ Same /\ UNCHANGED <<hw, loc>>

-----------------------------------------------------------------------------
(* ci_debug_read_pcs_dpu, ci_debug_extract_context_dpu and ..restore_..    *)

ci_debug_read_pcs_dpu ==
  <<ufi_set_dpu_fault_and_step, ufi_set_bkp_fault>> \o [i \in 1 .. NrThreads |-> Resume(i - 1)]
    \o <<ufi_read_bkp_fault_NULL, Drain("keep"), ufi_clear_fault_bkp, ufi_clear_fault_dpu>>

\* The program that dumps or loads the registers is put in the IRAM, with the
\* pcs to leave the threads at, and run by thread 0: its effect on the threads.
dpu_execute_routine_for_dpu == <<Do("load routine"), Do("run routine"), Do("restore iram")>>

LoadRoutine ==
  /\ At("load routine")
  /\ hw' = [hw EXCEPT !.iram = "routine"]
  /\ Then(<<>>) /\ Same /\ UNCHANGED <<ctx, loc>>

dpu_boot_and_wait_for_dpu ==
  /\ At("run routine") /\ ~Stopped /\ hw.run = <<>>
  /\ hw' = [hw EXCEPT !.pc = ctx.pcs]
  /\ Then(<<>>) /\ Same /\ UNCHANGED <<ctx, loc>>

-----------------------------------------------------------------------------
(* Calls of dpu_debug.c, one at a time: each holds the lock of the rank.   *)

\* dpu_jni.c, dpu_memory.c and ufi_config.c start with no thread scheduled;
\* dpu_context_fill, which a checkpoint uses, with all of them at position 0.
NewContext(position) ==
  [pcs |-> [t \in Threads |-> 0], scheduling |-> [t \in Threads |-> position],
   nr_of_running_threads |-> 0, fault |-> {}, thread |-> [k \in Faults |-> NobodyKnown],
   id |-> DPU_FAULT_UNKNOWN_ID]
NoLocals == [faults |-> {}, thread |-> [k \in Faults |-> 0], waiting |-> 0]

\* The faulting instructions have been counted, and are not to be skipped.  The
\* faults that a DPU other than the first member brings along go unseen.
WasBefore ==
  LET bad == Faults \cap hw.flags
      blamed == {hw.blame[k] : k \in bad}
      Id(k) == code[Before(hw.pc[hw.blame[k]])]
  IN  [run |-> hw.run,
       pc |-> [t \in Threads |-> IF t \in blamed THEN Before(hw.pc[t]) ELSE hw.pc[t]],
       gone |-> IF hw.member = 0 THEN {} ELSE blamed,
       keep |-> (hw.member = 0 /\ \E k \in bad : Id(k) # "fault 0") \/ (HasStore /\ hw.store.fault # {})]

\* The DPU should be in fault, or has nothing to run.
Attach(context, next, commands) ==
  /\ prog = <<>> /\ phase # "session" /\ count.sessions < MaxSessions
  /\ Stopped \/ hw.run = <<>>
  /\ count' = [count EXCEPT !.sessions = @ + 1]
  /\ phase' = IF phase = "lost" THEN "lost" ELSE next
  /\ ctx' = context /\ loc' = NoLocals /\ was' = WasBefore
  /\ prog' = commands
  /\ UNCHANGED <<hw, code>>

dpu_initialize_fault_process_for_dpu == Attach(NewContext(NotScheduled), "session", ci_debug_init_dpu)

\* A checkpoint stops the DPU and leaves it so; its context may then be used
\* for every other call of the session.
dpu_checkpoint_save == Attach(NewContext(0), "saved", ci_debug_init_dpu \o dpu_execute_routine_for_dpu)

InSession == prog = <<>> /\ phase \in {"session", "saved"}
Call(commands) ==
  /\ InSession /\ count.calls < MaxCalls
  /\ count' = [count EXCEPT !.calls = @ + 1]
  /\ prog' = commands
  /\ UNCHANGED <<hw, code, ctx, loc, phase, was>>

\* A thread that is not running is refused.
dpu_execute_thread_step_in_fault_for_dpu(t) == ctx.scheduling[t] # NotScheduled /\ Call(ci_debug_step_dpu(t))
dpu_extract_pcs_for_dpu == Call(ci_debug_read_pcs_dpu)
dpu_extract_context_for_dpu == Call(dpu_execute_routine_for_dpu)
dpu_restore_context_for_dpu == Call(dpu_execute_routine_for_dpu)
dpu_finalize_fault_process_for_dpu ==
  /\ InSession
  /\ prog' = ci_debug_teardown_dpu
  /\ UNCHANGED <<hw, code, ctx, loc, phase, was, count>>

\* A command fails: the call returns an error and the session is lost.
CommandFails ==
  /\ prog # <<>> /\ count.failures < MaxFailures
  /\ count' = [count EXCEPT !.failures = @ + 1]
  /\ prog' = <<>> /\ phase' = "lost"
  /\ UNCHANGED <<hw, code, ctx, loc, was>>

Quiet ==
  /\ prog = <<>> /\ (Stopped \/ hw.run = <<>>)
  /\ phase = "lost" \/ (phase = "free" /\ count.sessions = MaxSessions)
  /\ UNCHANGED vars

Init ==
  \E m \in Members, p \in Programs, order \in UNION {[1 .. n -> Threads] : n \in 1 .. NrThreads}, at \in [Threads -> Addresses] :
    /\ IsInjective(order)
    /\ hw = [member |-> m, run |-> order, pc |-> at, flags |-> {}, blame |-> [k \in Faults |-> 0], iram |-> "program",
             store |-> [fault |-> {}, dma |-> NobodyKnown, mem |-> NobodyKnown]]
    /\ code = p /\ ctx = NewContext(0) /\ loc = NoLocals /\ prog = <<>> /\ phase = "free"
    /\ was = [run |-> <<>>, pc |-> at, gone |-> {}, keep |-> FALSE]
    /\ count = [sessions |-> 0, calls |-> 0, failures |-> 0]

Next ==
  \/ Execute
  \/ SetOrClear \/ ReadFault \/ ReadFaultThread \/ ResumeThread \/ drain_pipeline \/ PopThread
  \/ DecrementPc \/ BootStop \/ RestoreIram \/ OtherThreads \/ BkpFault \/ MemoryFault \/ ErrorStorage
  \/ Release \/ Await \/ Unschedule \/ Stepped \/ LoadRoutine \/ dpu_boot_and_wait_for_dpu
  \/ dpu_initialize_fault_process_for_dpu \/ dpu_checkpoint_save
  \/ \E t \in Threads : dpu_execute_thread_step_in_fault_for_dpu(t)
  \/ dpu_extract_pcs_for_dpu \/ dpu_extract_context_for_dpu \/ dpu_restore_context_for_dpu
  \/ dpu_finalize_fault_process_for_dpu
  \/ CommandFails \/ Quiet

Spec == Init /\ [][Next]_vars

-----------------------------------------------------------------------------
(* Properties.                                                             *)

\* A session leaves no trace.  When the debugger has detached, the threads that
\* ran are in the FIFO in the order in which they were, after the steps asked
\* for, and every thread is where it was, or on the instruction that made it
\* fault; no state of the debugger is left in the DPU, and it stays in fault if
\* it was (the comment before the last command of ci_debug_teardown_dpu).
\* Excepted are a thread that a step has stopped: its pc in the context is the
\* one it had before, which dpu_extract_context_for_dpu sends it back to; on a
\* DPU that is not member 0 of its control interface, the faults it had when the
\* debugger came and the threads that made them, as ci_debug_init_dpu tests
\* them with mask_one twice; and the sessions on the context of a checkpoint,
\* whose stopped threads all claim position 0.
RestoredStep ==
  Release /\ phase = "session" =>
    /\ hw'.run = was.run
    /\ \A t \in Threads \ was.gone : hw'.pc[t] = was.pc[t]
    /\ hw'.iram = "program"
    /\ hw'.flags = IF was.keep THEN {"dpu"} ELSE {}
SessionRestores == [][RestoredStep]_vars
==============================================================================
