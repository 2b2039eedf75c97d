------------------------------- MODULE Relocate -------------------------------
(***************************************************************************)
(* The relocation kernels of PID-Comm (pidcomm_lib/data_relocate_...): DPU *)
(* programs that permute the blocks of a DPU's MRAM before and after the   *)
(* host moves cache lines between DPUs.  Up to eight tasklets share the    *)
(* work.  Each one reads a chunk of a block into its own WRAM cache,       *)
(* possibly waits on a barrier, writes the chunk at its place, possibly    *)
(* waits again, and goes on; the size of a block is a global that every    *)
(* tasklet stores.  A kernel may be launched in place (target_offset =     *)
(* start_offset), and then only the barriers keep a tasklet from writing   *)
(* over a block that another has not read yet.                             *)
(*                                                                         *)
(* Memory is counted in cells: a block is a whole number of cells and the  *)
(* WRAM cache (2048 bytes) holds Chunk of them.  The contents are the      *)
(* cell numbers of the initial memory, so a result says where each cell    *)
(* came from.                                                              *)
(***************************************************************************)
EXTENDS Integers, Sequences, FiniteSets, Kernels

CONSTANTS Launches,   \* the launches considered: argument records, see IsLaunch
          Chunk       \* cells in the WRAM cache of a tasklet

Tasklets == 0 .. 7    \* NR_TASKLETS is 16, tasklets 8 to 15 leave at once

\* dpu_arguments_comm_t, with the kernel's name and whether target_offset
\* equals start_offset.  ctype is TRUE when the x axis takes no part.
IsLaunch(a) ==
  /\ DOMAIN a = {"kernel", "dpu", "ncomm", "ncr", "ctype", "norot", "inplace", "cells"}
  /\ a.dpu \in Nat /\ a.ncomm \in Nat \ {0} /\ a.ncr \in {1, 2, 4, 8}
  /\ {a.ctype, a.norot, a.inplace} \subseteq BOOLEAN
  /\ a.cells \in Nat /\ a.cells % a.ncomm = 0

ASSUME LaunchAssumption == \A a \in Launches : IsLaunch(a)
ASSUME ChunkAssumption == Chunk \in Nat \ {0}

-----------------------------------------------------------------------------
VARIABLES launch,      \* the arguments of this launch
          stages,      \* what they make the kernel do: Stages(launch)
          mem,         \* MRAM: region -> cell -> where its contents came from
          max_words,   \* max_words_per_dpu, shared by the tasklets: cells in a block
          task         \* per tasklet: control point, stage, loop counters and cache

vars == <<launch, stages, mem, max_words, task>>

Cells(a) == 0 .. a.cells - 1
InitialMem(a) == [r \in {"start", "target"} |-> [c \in Cells(a) |-> <<r, c>>]]

Init ==
  /\ launch \in Launches
  /\ stages = Stages(launch)
  /\ mem = InitialMem(launch)
  /\ max_words = 0
  /\ task = [i \in Tasklets |-> [pc |-> "start", st |-> 1, t |-> 0, iteration |-> 0,
                                 iter |-> 0, cache |-> << >>]]

Cur(i) == stages[task[i].st]

\* What follows an iteration of the two loops (and their start): the next
\* chunk, the next block, the next stage, or the end.
Loop(k, s) ==
  IF k.t >= s.blocks \/ k.iter = 0
  THEN IF k.st = Len(stages)
       THEN [k EXCEPT !.pc = "done"] ELSE [k EXCEPT !.pc = "enter", !.st = @ + 1]
  ELSE [k EXCEPT !.pc = "read"]

Advance(k, s) ==
  IF k.iteration + 1 < k.iter
  THEN [k EXCEPT !.pc = "read", !.iteration = @ + 1]
  ELSE Loop([k EXCEPT !.t = @ + s.step, !.iteration = 0], s)

\* The top of a stage: tasklets beyond the crew leave, the others store the
\* size of a block, count its chunks and start their loops.  The second stage
\* of modified_clockwise stores the size before it sends tasklets away.
Enter(i) ==
  /\ task[i].pc = "enter"
  /\ IF stages = << >>
     THEN task' = [task EXCEPT ![i].pc = "done"] /\ UNCHANGED max_words
     ELSE LET s == Cur(i)
              w == launch.cells \div s.blocks
              k == [task[i] EXCEPT !.t = i, !.iteration = 0,
                                   !.iter = (w + Chunk - 1) \div Chunk]
          IN  /\ max_words' = IF i < s.crew \/ k.st > 1 THEN w ELSE max_words
              /\ task' = [task EXCEPT ![i] =
                   IF i >= s.crew THEN [@ EXCEPT !.pc = "done"]
                   ELSE IF s.entry > 0 THEN [k EXCEPT !.pc = "entry"] ELSE Loop(k, s)]
  /\ UNCHANGED <<launch, stages, mem>>

\* leftover_num on the last iteration, a full cache otherwise
Length(k) == IF k.iteration = k.iter - 1 THEN max_words - Chunk * k.iteration ELSE Chunk

\* mram_read: the DMA of a chunk is taken as one step
Read(i) ==
  /\ task[i].pc = "read"
  /\ LET k == task[i]
         base == max_words * k.t + Chunk * k.iteration
     IN  task' = [task EXCEPT
           ![i].cache = [n \in 1 .. Length(k) |-> mem["start"][base + n - 1]],
           ![i].pc = IF Cur(i).sync > 0 THEN "sync1" ELSE "write"]
  /\ UNCHANGED <<launch, stages, mem, max_words>>

\* mram_write, and the end of the iteration when no barrier follows it
Write(i) ==
  /\ task[i].pc = "write"
  /\ LET k == task[i]
         s == Cur(i)
         base == max_words * s.into[k.t] + Chunk * k.iteration
     IN  /\ mem' = [mem EXCEPT ![s.to] =
                      [c \in DOMAIN @ |-> IF base <= c /\ c < base + Length(k)
                                          THEN k.cache[c - base + 1] ELSE @[c]]]
         /\ task' = [task EXCEPT ![i] = IF s.sync > 0 THEN [@ EXCEPT !.pc = "sync2"]
                                        ELSE Advance(k, s)]
  /\ UNCHANGED <<launch, stages, max_words>>

\* barrier_wait: the barrier of a size opens when that many tasklets wait on
\* it, wherever they called it from.
WaitsOn(i) ==
  LET pc == task[i].pc
  IN  IF pc = "start" THEN 8
      ELSE IF pc = "entry" THEN Cur(i).entry
      ELSE IF pc \in {"sync1", "sync2"} THEN Cur(i).sync ELSE 0

After(k, s) ==
  CASE k.pc = "start" -> [k EXCEPT !.pc = "enter"]
    [] k.pc = "entry" -> Loop(k, s)
    [] k.pc = "sync1" -> [k EXCEPT !.pc = "write"]
    [] k.pc = "sync2" -> Advance(k, s)

Barrier(n) ==
  LET waiting == {i \in Tasklets : WaitsOn(i) = n}
  IN  /\ Cardinality(waiting) = n
      /\ task' = [i \in Tasklets |->
                    IF i \in waiting
                    THEN IF task[i].pc = "start" THEN [task[i] EXCEPT !.pc = "enter"]
                         ELSE After(task[i], Cur(i))
                    ELSE task[i]]
      /\ UNCHANGED <<launch, stages, mem, max_words>>

Tasklet(i) == Enter(i) \/ Read(i) \/ Write(i)
Next == (\E i \in Tasklets : Tasklet(i)) \/ (\E n \in {2, 4, 8} : Barrier(n))

\* The DPU's pipeline is round robin: a tasklet that can run does run, and a
\* barrier that is full opens.
Fairness == /\ \A i \in Tasklets : WF_vars(Tasklet(i))
            /\ \A n \in {2, 4, 8} : WF_vars(Barrier(n))
Spec == Init /\ [][Next]_vars /\ Fairness

-----------------------------------------------------------------------------
Finished == \A i \in Tasklets : task[i].pc = "done"

TypeOK ==
  /\ launch \in Launches /\ stages = Stages(launch)
  /\ \A r \in {"start", "target"} : DOMAIN mem[r] = Cells(launch)
  /\ max_words \in 0 .. launch.cells
  /\ \A i \in Tasklets :
       /\ task[i].pc \in {"start", "enter", "entry", "read", "sync1", "write", "sync2", "done"}
       /\ task[i].st \in 1 .. 2 /\ Len(task[i].cache) <= Chunk

\* When the last tasklet has left, the memory is what moving every block at once
\* would have made it, in place or not, whatever the interleaving: no tasklet
\* wrote over a block another had still to read.
Relocated == Finished => mem = LaunchMem(launch, InitialMem(launch))

\* Every launch ends: no barrier waits for a tasklet that has left.
LaunchEnds == <>Finished
=============================================================================
