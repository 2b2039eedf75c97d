------------------------------ MODULE UfiProofs ------------------------------
(***************************************************************************)
(* Proofs about Ufi: an answer that the host accepts is that of its        *)
(* command, for any number of CIs and DPUs, any calls, any lengths, and    *)
(* any number of failed commits, late answers and unreadable colours.      *)
(***************************************************************************)
EXTENDS Ufi, SequenceTheorems, WellFoundedInduction, TLAPS

-----------------------------------------------------------------------------
(* Recursion over sequences.  A recursive definition is reached through    *)
(* the least number for which a claim fails.                               *)

\* A set of numbers that is not empty has a least element.
LEMMA LeastElement ==
  ASSUME NEW S \in SUBSET Nat, S # {}
  PROVE  \E n \in S : \A m \in S : n <= m
<1>1. PICK x \in S : \A y \in S : ~ (<<y, x>> \in OpToRel(<, Nat))
  BY NatLessThanWellFounded, WFMin
<1>2. \A y \in S : ~(y < x)
  BY <1>1 DEF OpToRel
<1> QED BY <1>2

\* f is what step makes of first in n - 1 steps.
Recurs(f, n, V, first, step) ==
  /\ f \in [1 .. n -> V]
  /\ \A i \in 1 .. n : f[i] = IF i = 1 THEN first ELSE step[i][f[i - 1]]

\* There is such a function: the one for n extends the one for n - 1.
LEMMA RecursionExists ==
  ASSUME NEW V, NEW first \in V, NEW N \in Nat, NEW step \in [1 .. N -> [V -> V]]
  PROVE  \A n \in 1 .. N : \E f : Recurs(f, n, V, first, step)
<1> DEFINE T == {n \in 1 .. N : ~\E f : Recurs(f, n, V, first, step)}
<1> SUFFICES ASSUME T # {} PROVE FALSE
  OBVIOUS
<1>1. T \in SUBSET Nat
  OBVIOUS
<1>2. PICK n \in T : \A m \in T : n <= m
  BY <1>1, LeastElement
<1>3. n \in 1 .. N /\ ~\E f : Recurs(f, n, V, first, step)
  BY <1>2
<1>4. n # 1
  <2>1. Recurs([i \in 1 .. 1 |-> first], 1, V, first, step)
    BY DEF Recurs
  <2> QED BY <2>1, <1>3
<1>5. n - 1 \in 1 .. N /\ n - 1 \notin T
  BY <1>2, <1>3, <1>4
<1>6. PICK g : Recurs(g, n - 1, V, first, step)
  BY <1>5
<1> HIDE DEF T
<1>7. g[n - 1] \in V /\ step[n][g[n - 1]] \in V
  <2>1. n - 1 \in 1 .. (n - 1)
    BY <1>3, <1>4
  <2> QED BY <2>1, <1>3, <1>6 DEF Recurs
<1> DEFINE f == [i \in 1 .. n |-> IF i = n THEN step[n][g[n - 1]] ELSE g[i]]
<1>8. \A i \in 1 .. n : i # n => i \in 1 .. (n - 1)
  BY <1>3
<1>9. f \in [1 .. n -> V]
  BY <1>6, <1>7, <1>8 DEF Recurs
<1>10. ASSUME NEW i \in 1 .. n
       PROVE  f[i] = IF i = 1 THEN first ELSE step[i][f[i - 1]]
  <2>1. CASE i = n
    <3>1. n - 1 \in 1 .. n /\ n - 1 # n
      BY <1>3, <1>4
    <3> QED BY <1>3, <1>4, <2>1, <3>1
  <2>2. CASE i # n
    <3>1. f[i] = g[i]
      BY <2>2
    <3>2. i # 1 => i - 1 \in 1 .. n /\ i - 1 # n
      BY <1>3
    <3>3. i # 1 => f[i - 1] = g[i - 1]
      BY <3>2
    <3>4. g[i] = IF i = 1 THEN first ELSE step[i][g[i - 1]]
      BY <1>6, <1>8, <2>2 DEF Recurs
    <3> HIDE DEF f
    <3> QED BY <3>1, <3>3, <3>4
  <2> QED BY <2>1, <2>2
<1> HIDE DEF f
<1> QED BY <1>3, <1>9, <1>10 DEF Recurs

\* FlattenSeq, with which the loops of the ufi layer are written, gives a
\* sequence of what its arguments are sequences of.
LEMMA FlattenType ==
  ASSUME NEW S, NEW seqs \in Seq(Seq(S))
  PROVE  FlattenSeq(seqs) \in Seq(S)
<1> DEFINE N == Len(seqs)
           V == Seq(S)
           step == [i \in 1 .. N |-> [x \in V |-> x \o seqs[i]]]
<1>1. CASE N = 0
  <2>1. seqs = <<>>
    BY <1>1
  <2> QED BY <1>1, <2>1 DEF FlattenSeq
<1>2. CASE N # 0
  <2>1. N \in Nat /\ N \in 1 .. N /\ 1 \in 1 .. N
    BY <1>2
  <2>2. \A i \in 1 .. N : seqs[i] \in V
    OBVIOUS
  <2>3. step \in [1 .. N -> [V -> V]]
    BY <2>2
  <2>4. PICK f : Recurs(f, N, V, seqs[1], step)
    <3> HIDE DEF step, V, N
    <3> QED BY <2>1, <2>2, <2>3, RecursionExists
  <2> DEFINE Flat(g) == g = [i \in 1 .. N |-> IF i = 1 THEN seqs[i] ELSE g[i - 1] \o seqs[i]]
             flatten == CHOOSE g : Flat(g)
  <2>5. ASSUME NEW i \in 1 .. N PROVE f[i] = IF i = 1 THEN seqs[i] ELSE f[i - 1] \o seqs[i]
    <3>1. i # 1 => i - 1 \in 1 .. N
      BY <2>1
    <3>2. i # 1 => f[i - 1] \in V
      BY <3>1, <2>4 DEF Recurs
    <3>3. i # 1 => step[i][f[i - 1]] = f[i - 1] \o seqs[i]
      BY <3>2
    <3>4. f[i] = IF i = 1 THEN seqs[1] ELSE step[i][f[i - 1]]
      BY <2>4 DEF Recurs
    <3> QED BY <3>3, <3>4
  <2>6. Flat(f)
    <3>1. f = [i \in 1 .. N |-> f[i]]
      BY <2>4 DEF Recurs
    <3> QED BY <3>1, <2>5
  <2>7. Flat(flatten)
    BY <2>6
  <2>8. FlattenSeq(seqs) = flatten[N]
    BY <1>2 DEF FlattenSeq
  <2> DEFINE D == {i \in 1 .. N : flatten[i] \notin V}
  <2> HIDE DEF flatten
  <2>9. ASSUME D # {} PROVE FALSE
    <3>0. D \in SUBSET Nat
      OBVIOUS
    <3>1. PICK i \in D : \A j \in D : i <= j
      BY <3>0, <2>9, LeastElement
    <3>2. flatten[i] = IF i = 1 THEN seqs[i] ELSE flatten[i - 1] \o seqs[i]
      BY <2>7, <3>1
    <3>3. i # 1 => i - 1 \in 1 .. N /\ i - 1 \notin D
      BY <2>1, <3>1
    <3>4. i # 1 => flatten[i - 1] \in V
      BY <3>3
    <3>5. flatten[i] \in V
      BY <2>2, <3>2, <3>4, <3>1
    <3> QED BY <3>5
  <2> QED BY <2>1, <2>8, <2>9
<1> QED BY <1>1, <1>2
-----------------------------------------------------------------------------
(* The scripts.  A step that is not a reset sends no reset frame.          *)

Structures == {"none", "plain", "target", "res_bus_duration", "thread", "sample_pc", "irepair", "rf_timing",
               "pc_mode_write", "dma_ctrl", "iram_page0", "iram_page1", "iram_read", "wram_write"}
Selections == {"all", "dpu", "group"}
Values == Selections \cup
  {"none", "reset", "byte_order", "bit_order", "identity", "thermal", "cmd_duration", "carousel", "res_duration",
   "res_sampling", "clear_debug", "clear_poison", "clear_bkp", "read_clear_dma", "read_clear_mem", "clear_fault",
   "read_bkp", "clear_run", "boot", "resume", "run", "fault", "sample", "pc", "irepair", "pc_mode", "set_pc_mode",
   "stack", "dma", "dma_read", "dma_clear", "wrepair", "iram", "iram_read", "wram", "wram_read"}
StepNames == {"use", "structure", "send", "sendignored", "discover", "reset", "fill", "fillwait", "structures", "commit",
              "cis", "all", "alleven", "selectgroup", "dpu", "dpueven", "alluncached", "groupuncached", "dpuuncached",
              "group", "save", "resave", "repair", "anyleft", "initgroups", "restore", "disable"}
Frames == [k : {"empty", "structure", "raw", "op", "select", "group", "reset"}, s : Structures, v : Values, id : Int]
Steps == [op : StepNames, frame : Frames, arg : Int, cis : SUBSET Int]
PlainFrames == {f \in Frames : f.k # "reset"}
PlainSteps == {s \in Steps : s.op # "reset" /\ s.frame \in PlainFrames}
Plain == Seq(PlainSteps)

\* The frames of ufi_ci_commands.h.
LEMMA FrameTypes ==
  /\ CI_EMPTY \in PlainFrames
  /\ \A s \in Structures : Structure(s) \in PlainFrames
  /\ \A v \in Values : Raw(v) \in PlainFrames
  /\ \A s \in Structures, v \in Values : Op(s, v) \in PlainFrames
  /\ \A t \in Selections, id \in Int : CI_SELECT(t, id) \in PlainFrames
  /\ \A g \in Int : CI_WRITE_GROUP(g) \in PlainFrames
<1>1. \A k \in {"empty", "structure", "raw", "op", "select", "group"}, s \in Structures, v \in Values :
        Frame(k, s, v) \in PlainFrames
  BY DEF Frame, PlainFrames, Frames
<1>2. \A f \in PlainFrames, id \in Int : [f EXCEPT !.id = id] \in PlainFrames
  BY DEF PlainFrames, Frames
<1>3. "none" \in Structures /\ "plain" \in Structures /\ "target" \in Structures /\ "none" \in Values
      /\ Selections \subseteq Values /\ "group" \in Values
  BY DEF Structures, Values, Selections
<1>4. CI_EMPTY \in PlainFrames
  BY <1>1, <1>3 DEF CI_EMPTY
<1>5. ASSUME NEW t \in Selections, NEW id \in Int PROVE CI_SELECT(t, id) \in PlainFrames
  BY <1>1, <1>2, <1>3 DEF CI_SELECT
<1>6. ASSUME NEW g \in Int PROVE CI_WRITE_GROUP(g) \in PlainFrames
  BY <1>1, <1>2, <1>3 DEF CI_WRITE_GROUP
<1> QED BY <1>1, <1>3, <1>4, <1>5, <1>6 DEF Structure, Raw, Op

LEMMA StepTypes ==
  /\ \A op \in StepNames, f \in PlainFrames, arg \in Int, cis \in SUBSET Int :
       op # "reset" => Step(op, f, arg, cis) \in PlainSteps
  /\ \A cis \in SUBSET Int : Use(cis) \in PlainSteps
  /\ \A s \in Structures : WriteStructure(s) \in PlainSteps
  /\ \A f \in PlainFrames : Send(f) \in PlainSteps /\ Fill(f) \in PlainSteps /\ FillWait(f) \in PlainSteps
<1>1. \A op \in StepNames, f \in PlainFrames, arg \in Int, cis \in SUBSET Int :
       op # "reset" => Step(op, f, arg, cis) \in PlainSteps
  BY DEF Step, PlainSteps, Steps, PlainFrames
<1>2. {} \in SUBSET Int /\ 0 \in Int /\ {"use", "structure", "send", "fill", "fillwait"} \subseteq StepNames
  BY DEF StepNames
<1> QED BY <1>1, <1>2, FrameTypes DEF Use, WriteStructure, Send, Fill, FillWait

LEMMA PlainConcat ==
  /\ <<>> \in Plain
  /\ \A a \in PlainSteps : <<a>> \in Plain
  /\ \A a, b \in PlainSteps : <<a, b>> \in Plain
  /\ \A a, b, c \in PlainSteps : <<a, b, c>> \in Plain
  /\ \A p, q \in Plain : p \o q \in Plain
BY DEF Plain

LEMMA PlainLoop ==
  ASSUME NEW n \in Nat, NEW f, \A i \in 1 .. n : f[i] \in Plain, DOMAIN f = 1 .. n,
         f = [i \in 1 .. n |-> f[i]]
  PROVE  FlattenSeq(f) \in Plain
<1>1. f \in Seq(Plain)
  OBVIOUS
<1> QED BY <1>1, FlattenType DEF Plain

LEMMA PlainTimes ==
  ASSUME NEW n \in Nat, NEW p \in Plain
  PROVE  Times(n, p) \in Plain
BY PlainLoop DEF Times

\* The functions of ufi.c.
LEMMA UfiPlain ==
  /\ ufi_select_cis \in Plain /\ ufi_select_all \in Plain /\ ufi_select_all_even_disabled \in Plain
  /\ ufi_select_all_uncached \in Plain
  /\ \A d \in Int : /\ ufi_select_group(d) \in Plain /\ ufi_select_group_uncached(d) \in Plain
                    /\ ufi_select_dpu(d) \in Plain /\ ufi_select_dpu_uncached(d) \in Plain
                    /\ ufi_select_dpu_even_disabled(d) \in Plain /\ ufi_write_group(d) \in Plain
  /\ ufi_byte_order \in Plain /\ ufi_bit_config \in Plain /\ ufi_identity \in Plain /\ ufi_thermal_config \in Plain
  /\ ufi_carousel_config \in Plain
  /\ ufi_clear_debug_replace \in Plain /\ ufi_clear_fault_poison \in Plain /\ ufi_clear_fault_bkp \in Plain
  /\ ufi_clear_fault_dma \in Plain /\ ufi_clear_fault_mem \in Plain /\ ufi_clear_fault_dpu \in Plain
  /\ ufi_clear_fault_intercept \in Plain /\ ufi_clear_run_bit \in Plain /\ ufi_thread_boot \in Plain
  /\ ufi_thread_resume \in Plain /\ ufi_read_dpu_run \in Plain /\ ufi_read_dpu_fault \in Plain
  /\ ufi_debug_pc_sample \in Plain /\ ufi_debug_pc_read \in Plain
  /\ ufi_iram_repair_config \in Plain /\ ufi_get_pc_mode \in Plain /\ ufi_set_pc_mode \in Plain
  /\ ufi_set_stack_direction \in Plain /\ ufi_write_dma_ctrl \in Plain /\ ufi_write_dma_ctrl_datas \in Plain
  /\ ufi_read_dma_ctrl \in Plain /\ ufi_clear_dma_ctrl \in Plain /\ ufi_set_mram_mux \in Plain
  /\ ufi_wram_repair_config \in Plain
  /\ \A n \in Nat : /\ ufi_iram_write(0, n) \in Plain /\ ufi_iram_read(n) \in Plain
                    /\ ufi_wram_write(n) \in Plain /\ ufi_wram_read(n) \in Plain
<1>1. /\ Structures = {"none", "plain", "target", "res_bus_duration", "thread", "sample_pc", "irepair", "rf_timing",
               "pc_mode_write", "dma_ctrl", "iram_page0", "iram_page1", "iram_read", "wram_write"}
      /\ Selections = {"all", "dpu", "group"}
      /\ StepNames = {"use", "structure", "send", "sendignored", "discover", "reset", "fill", "fillwait", "structures",
              "commit", "cis", "all", "alleven", "selectgroup", "dpu", "dpueven", "alluncached", "groupuncached",
              "dpuuncached", "group", "save", "resave", "repair", "anyleft", "initgroups", "restore", "disable"}
      /\ {} \in SUBSET Int /\ 0 \in Int
  BY DEF Structures, Selections, StepNames
<1>2. /\ ufi_select_cis \in Plain /\ ufi_select_all \in Plain /\ ufi_select_all_even_disabled \in Plain
  BY <1>1, FrameTypes, StepTypes, PlainConcat DEF ufi_select_cis, ufi_select_all, ufi_select_all_even_disabled
<1>3. ufi_select_all_uncached \in Plain
  BY <1>1, FrameTypes, StepTypes, PlainConcat DEF ufi_select_all_uncached
<1>4. ASSUME NEW d \in Int
      PROVE  ufi_select_group(d) \in Plain /\ ufi_select_dpu(d) \in Plain /\ ufi_select_dpu_even_disabled(d) \in Plain
  BY <1>1, FrameTypes, StepTypes, PlainConcat DEF ufi_select_group, ufi_select_dpu, ufi_select_dpu_even_disabled
<1>5. ASSUME NEW d \in Int
      PROVE  ufi_select_group_uncached(d) \in Plain /\ ufi_select_dpu_uncached(d) \in Plain /\ ufi_write_group(d) \in Plain
  <2>1. /\ Step("groupuncached", CI_SELECT("group", d), d, {}) \in PlainSteps
        /\ Step("dpuuncached", CI_SELECT("dpu", d), d, {}) \in PlainSteps
        /\ Step("group", CI_WRITE_GROUP(d), d, {}) \in PlainSteps
    BY <1>1, FrameTypes, StepTypes
  <2>2. /\ Send(CI_SELECT("group", d)) \in PlainSteps /\ Send(CI_SELECT("dpu", d)) \in PlainSteps
        /\ Send(CI_WRITE_GROUP(d)) \in PlainSteps /\ WriteStructure("target") \in PlainSteps
    BY <1>1, FrameTypes, StepTypes
  <2> QED BY <2>1, <2>2, PlainConcat DEF ufi_select_group_uncached, ufi_select_dpu_uncached, ufi_write_group
<1>6. ASSUME NEW s \in Structures, NEW v \in Values
      PROVE  UFI_exec_frame(s, v) \in Plain /\ FilledFrame(s, v) \in Plain
  BY FrameTypes, StepTypes, PlainConcat DEF UFI_exec_frame, FilledFrame
<1>7. /\ ufi_byte_order \in Plain /\ ufi_bit_config \in Plain /\ ufi_identity \in Plain /\ ufi_thermal_config \in Plain
  <2>1. {"byte_order", "bit_order", "identity", "thermal"} \subseteq Values
    BY DEF Values
  <2> QED BY <1>1, <2>1, FrameTypes, StepTypes, PlainConcat
          DEF ufi_byte_order, ufi_bit_config, ufi_identity, ufi_thermal_config
<1>8. ufi_carousel_config \in Plain
  <2>1. {"cmd_duration", "res_duration", "res_sampling", "carousel"} \subseteq Values
    BY DEF Values
  <2>2. UFI_exec_frame("target", "carousel") \in Plain /\ UFI_exec_frame("plain", "carousel") \in Plain
        /\ UFI_exec_frame("res_bus_duration", "carousel") \in Plain
    BY <1>1, <1>6, <2>1
  <2>3. <<Send(Raw("cmd_duration"))>> \in Plain /\ <<Send(Raw("res_duration")), Send(Raw("res_sampling"))>> \in Plain
    BY <2>1, FrameTypes, StepTypes, PlainConcat
  <2> QED BY <2>2, <2>3, PlainConcat DEF ufi_carousel_config
<1>9. /\ ufi_clear_debug_replace \in Plain /\ ufi_clear_fault_poison \in Plain /\ ufi_clear_fault_bkp \in Plain
      /\ ufi_clear_fault_dma \in Plain /\ ufi_clear_fault_mem \in Plain /\ ufi_clear_fault_dpu \in Plain
      /\ ufi_clear_fault_intercept \in Plain /\ ufi_clear_run_bit \in Plain /\ ufi_thread_boot \in Plain
      /\ ufi_thread_resume \in Plain /\ ufi_read_dpu_run \in Plain /\ ufi_read_dpu_fault \in Plain
  <2>1. {"clear_debug", "clear_poison", "clear_bkp", "read_clear_dma", "read_clear_mem", "clear_fault", "read_bkp",
         "clear_run", "boot", "resume", "run", "fault"} \subseteq Values
    BY DEF Values
  <2> QED BY <1>1, <1>6, <2>1 DEF ufi_clear_debug_replace, ufi_clear_fault_poison, ufi_clear_fault_bkp,
        ufi_clear_fault_dma, ufi_clear_fault_mem, ufi_clear_fault_dpu, ufi_clear_fault_intercept, ufi_clear_run_bit,
        ufi_thread_boot, ufi_thread_resume, ufi_read_dpu_run, ufi_read_dpu_fault
<1>10. /\ ufi_debug_pc_sample \in Plain /\ ufi_debug_pc_read \in Plain /\ ufi_get_pc_mode \in Plain
       /\ ufi_set_pc_mode \in Plain /\ ufi_set_stack_direction \in Plain /\ ufi_iram_repair_config \in Plain
  <2>1. {"sample", "pc", "irepair", "pc_mode", "set_pc_mode", "stack"} \subseteq Values
    BY DEF Values
  <2>2. /\ UFI_exec_frame("plain", "pc") \in Plain /\ FilledFrame("irepair", "irepair") \in Plain
        /\ UFI_exec_frame("rf_timing", "irepair") \in Plain
    BY <1>1, <1>6, <2>1
  <2> QED BY <1>1, <1>6, <2>1, <2>2, PlainConcat DEF ufi_debug_pc_sample, ufi_debug_pc_read, ufi_get_pc_mode,
        ufi_set_pc_mode, ufi_set_stack_direction, ufi_iram_repair_config
<1>11. /\ ufi_write_dma_ctrl \in Plain /\ ufi_write_dma_ctrl_datas \in Plain /\ ufi_read_dma_ctrl \in Plain
       /\ ufi_clear_dma_ctrl \in Plain
  <2>1. {"dma", "dma_read", "dma_clear"} \subseteq Values
    BY DEF Values
  <2> QED BY <1>1, <1>6, <2>1 DEF ufi_write_dma_ctrl, ufi_write_dma_ctrl_datas, ufi_read_dma_ctrl, ufi_clear_dma_ctrl
<1>12. ufi_set_mram_mux \in Plain
  BY <1>11, PlainConcat DEF ufi_set_mram_mux
<1>13. ufi_wram_repair_config \in Plain
  <2>1. "wrepair" \in Values
    BY DEF Values
  <2>2. <<WriteStructure("dma_ctrl")>> \in Plain /\ <<Fill(Op("dma_ctrl", "wrepair"))>> \in Plain
    BY <1>1, <2>1, FrameTypes, StepTypes, PlainConcat
  <2>3. Times(5, <<Fill(Op("dma_ctrl", "wrepair"))>>) \in Plain /\ UFI_exec_frame("dma_ctrl", "wrepair") \in Plain
    BY <1>1, <1>6, <2>1, <2>2, PlainTimes
  <2> QED BY <1>11, <2>2, <2>3, PlainConcat DEF ufi_wram_repair_config
<1>14. ASSUME NEW n \in Nat PROVE ufi_iram_write(0, n) \in Plain
  <2>1. "iram" \in Values
    BY DEF Values
  <2> DEFINE f == [i \in 1 .. n |-> <<WriteStructure(IramPage(0 + i - 1)), FillWait(Op(IramPage(0 + i - 1), "iram"))>>]
  <2>2. ASSUME NEW i \in 1 .. n PROVE f[i] \in Plain
    <3>1. IramPage(0 + i - 1) \in Structures
      BY <1>1 DEF IramPage
    <3>2. <<WriteStructure(IramPage(0 + i - 1)), FillWait(Op(IramPage(0 + i - 1), "iram"))>> \in Plain
      BY <2>1, <3>1, FrameTypes, StepTypes, PlainConcat
    <3> QED BY <3>2
  <2>3. FlattenSeq(f) \in Plain
    <3>1. DOMAIN f = 1 .. n /\ f = [i \in 1 .. n |-> f[i]]
      OBVIOUS
    <3> HIDE DEF f
    <3> QED BY <2>2, <3>1, PlainLoop
  <2> QED BY <2>3 DEF ufi_iram_write
<1>15. ASSUME NEW n \in Nat
       PROVE  ufi_iram_read(n) \in Plain /\ ufi_wram_write(n) \in Plain /\ ufi_wram_read(n) \in Plain
  <2>1. {"iram_read", "wram", "wram_read"} \subseteq Values
    BY DEF Values
  <2>2. /\ UFI_exec_frame("iram_read", "iram_read") \in Plain /\ UFI_exec_frame("thread", "wram_read") \in Plain
        /\ <<WriteStructure("wram_write"), FillWait(Op("wram_write", "wram"))>> \in Plain
    BY <1>1, <1>6, <2>1, FrameTypes, StepTypes, PlainConcat
  <2>3. Times(6, UFI_exec_frame("iram_read", "iram_read")) \in Plain
    BY <2>2, PlainTimes
  <2> QED BY <2>2, <2>3, PlainTimes DEF ufi_iram_read, ufi_wram_write, ufi_wram_read
<1> QED BY <1>2, <1>3, <1>4, <1>5, <1>7, <1>8, <1>9, <1>10, <1>11, <1>12, <1>13, <1>14, <1>15

\* What is used as a mask, a DPU or a group is made of numbers.
LEMMA Numbers ==
  /\ NrCis \in Nat /\ NrDpus \in Nat
  /\ ALL_CIS \in SUBSET Int /\ Dpus \in SUBSET Int /\ Groups \in SUBSET Int
  /\ \A c \in ALL_CIS : {c} \in SUBSET Int
BY SizeAssumption DEF ALL_CIS, Dpus, Groups, DPU_ENABLED_GROUP, DPU_DISABLED_GROUP

LEMMA UsePlain == \A cis \in SUBSET Int : <<Use(cis)>> \in Plain
BY StepTypes, PlainConcat

\* The loops over the DPUs of a matrix, and over its lines.
LEMMA PerDpuPlain ==
  ASSUME NEW dpus, NEW script, \A p \in dpus : script[p] \in Plain
  PROVE  PerDpu(dpus, script) \in Plain
<1> DEFINE inner(i) == [j \in 1 .. NrDpus |-> IF <<i - 1, j - 1>> \in dpus THEN script[<<i - 1, j - 1>>] ELSE <<>>]
           outer == [i \in 1 .. NrCis |-> FlattenSeq(inner(i))]
<1>1. ASSUME NEW i \in 1 .. NrCis PROVE FlattenSeq(inner(i)) \in Plain
  <2>1. \A j \in 1 .. NrDpus : inner(i)[j] \in Plain
    BY PlainConcat
  <2>2. DOMAIN inner(i) = 1 .. NrDpus /\ inner(i) = [j \in 1 .. NrDpus |-> inner(i)[j]]
    OBVIOUS
  <2> HIDE DEF inner
  <2> QED BY <2>1, <2>2, Numbers, PlainLoop
<1>2. FlattenSeq(outer) \in Plain
  <2>1. DOMAIN outer = 1 .. NrCis /\ outer = [i \in 1 .. NrCis |-> outer[i]]
    OBVIOUS
  <2>2. \A i \in 1 .. NrCis : outer[i] \in Plain
    BY <1>1
  <2> HIDE DEF outer
  <2> QED BY <2>1, <2>2, Numbers, PlainLoop
<1> QED BY <1>2 DEF PerDpu

LEMMA PerLinePlain ==
  ASSUME NEW dpus \in SUBSET AllDpus, NEW script \in Plain
  PROVE  PerLine(dpus, script) \in Plain
<1> DEFINE line == [i \in 1 .. NrDpus |-> IF LineOf(dpus, i - 1) = {} THEN <<>>
                      ELSE <<Use(LineOf(dpus, i - 1))>> \o ufi_select_dpu(i - 1) \o script]
<1>1. ASSUME NEW i \in 1 .. NrDpus PROVE line[i] \in Plain
  <2>1. LineOf(dpus, i - 1) \in SUBSET Int
    BY Numbers DEF LineOf, AllDpus
  <2>2. ufi_select_dpu(i - 1) \in Plain
    BY UfiPlain, Numbers
  <2>3. <<Use(LineOf(dpus, i - 1))>> \o ufi_select_dpu(i - 1) \o script \in Plain
    BY <2>1, <2>2, UsePlain, PlainConcat
  <2> QED BY <2>3, PlainConcat
<1>2. DOMAIN line = 1 .. NrDpus /\ line = [i \in 1 .. NrDpus |-> line[i]]
  OBVIOUS
<1>3. FlattenSeq(line) \in Plain
  <2> HIDE DEF line
  <2> QED BY <1>1, <1>2, Numbers, PlainLoop
<1> QED BY <1>3 DEF PerLine

\* The functions of ufi_memory.c and ufi_runner.c, and the mux switches.
LEMMA MemoryPlain ==
  /\ \A n \in Nat : ci_copy_to_irams_rank(n) \in Plain /\ ci_copy_to_wrams_rank(n) \in Plain
  /\ \A c \in ALL_CIS, d \in Dpus, n \in Nat :
       /\ ci_copy_to_irams_dpu(c, d, n) \in Plain /\ ci_copy_from_irams_dpu(c, d, n) \in Plain
       /\ ci_copy_to_wrams_dpu(c, d, n) \in Plain /\ ci_copy_from_wrams_dpu(c, d, n) \in Plain
  /\ \A dpus \in SUBSET AllDpus, n \in Nat :
       /\ ci_copy_to_irams_matrix(dpus, n) \in Plain /\ ci_copy_from_irams_matrix(dpus, n) \in Plain
       /\ ci_copy_to_wrams_matrix(dpus, n) \in Plain /\ ci_copy_from_wrams_matrix(dpus, n) \in Plain
<1>1. ASSUME NEW n \in Nat PROVE ci_copy_to_irams_rank(n) \in Plain /\ ci_copy_to_wrams_rank(n) \in Plain
  BY UfiPlain, UsePlain, Numbers, PlainConcat DEF ci_copy_to_irams_rank, ci_copy_to_wrams_rank
<1>2. ASSUME NEW c \in ALL_CIS, NEW d \in Dpus, NEW n \in Nat
      PROVE  /\ ci_copy_to_irams_dpu(c, d, n) \in Plain /\ ci_copy_from_irams_dpu(c, d, n) \in Plain
             /\ ci_copy_to_wrams_dpu(c, d, n) \in Plain /\ ci_copy_from_wrams_dpu(c, d, n) \in Plain
  <2>1. <<Use({c})>> \in Plain /\ ufi_select_dpu(d) \in Plain
    BY UfiPlain, UsePlain, Numbers
  <2> QED BY <2>1, UfiPlain, PlainConcat
          DEF ci_copy_to_irams_dpu, ci_copy_from_irams_dpu, ci_copy_to_wrams_dpu, ci_copy_from_wrams_dpu
<1>3. ASSUME NEW dpus \in SUBSET AllDpus, NEW n \in Nat
      PROVE  /\ ci_copy_to_irams_matrix(dpus, n) \in Plain /\ ci_copy_from_irams_matrix(dpus, n) \in Plain
             /\ ci_copy_to_wrams_matrix(dpus, n) \in Plain /\ ci_copy_from_wrams_matrix(dpus, n) \in Plain
  <2>1. \A p \in dpus : p[1] \in ALL_CIS /\ p[2] \in Dpus
    BY DEF AllDpus
  <2>2. \A p \in dpus : [q \in dpus |-> ci_copy_to_irams_dpu(q[1], q[2], n)][p] \in Plain
    BY <1>2, <2>1
  <2>3. \A p \in dpus : [q \in dpus |-> ci_copy_from_irams_dpu(q[1], q[2], n)][p] \in Plain
    BY <1>2, <2>1
  <2>4. ufi_wram_write(n) \in Plain /\ ufi_wram_read(n) \in Plain
    BY UfiPlain
  <2>5. ci_copy_to_irams_matrix(dpus, n) \in Plain
    BY <2>2, PerDpuPlain DEF ci_copy_to_irams_matrix
  <2>6. ci_copy_from_irams_matrix(dpus, n) \in Plain
    BY <2>3, PerDpuPlain DEF ci_copy_from_irams_matrix
  <2> QED BY <2>4, <2>5, <2>6, PerLinePlain DEF ci_copy_to_wrams_matrix, ci_copy_from_wrams_matrix
<1> QED BY <1>1, <1>2, <1>3

LEMMA RunnerPlain ==
  /\ \A d \in Dpus : MuxStatus(d) \in Plain
  /\ \A d \in Dpus : host_handle_access_for_dpu(d) \in Plain
  /\ host_handle_access_for_rank \in Plain
  /\ \A mux, resume \in BOOLEAN : ci_start_thread_rank(mux, resume) \in Plain
  /\ \A c \in ALL_CIS, d \in Dpus : \A mux, resume \in BOOLEAN : ci_start_thread_dpu(c, d, mux, resume) \in Plain
  /\ ci_poll_rank \in Plain
  /\ \A c \in ALL_CIS, d \in Dpus : /\ ci_sample_pc_dpu(c, d) \in Plain /\ dpu_wavegen_read_status(c, d) \in Plain
                                    /\ dpu_disable_one_dpu(c, d) \in Plain
<1>1. <<Use(ALL_CIS)>> \in Plain /\ \A c \in ALL_CIS : <<Use({c})>> \in Plain
  BY UsePlain, Numbers
<1>2. \A d \in Dpus : ufi_select_dpu(d) \in Plain /\ ufi_select_dpu_even_disabled(d) \in Plain
  BY UfiPlain, Numbers
<1>3. \A d \in Dpus : MuxStatus(d) \in Plain
  BY <1>1, <1>2, PlainConcat DEF MuxStatus
<1>4. \A d \in Dpus : host_handle_access_for_dpu(d) \in Plain
  BY <1>3, UfiPlain, PlainConcat DEF host_handle_access_for_dpu, dpu_check_wavegen_mux_status_for_dpu
<1>5. host_handle_access_for_rank \in Plain
  <2> DEFINE lines == [i \in 1 .. NrDpus |-> MuxStatus(i - 1) \o ufi_read_dma_ctrl]
  <2>1. \A i \in 1 .. NrDpus : i - 1 \in Dpus
    BY Numbers DEF Dpus
  <2>2. \A i \in 1 .. NrDpus : lines[i] \in Plain
    BY <1>3, <2>1, UfiPlain, PlainConcat
  <2>3. DOMAIN lines = 1 .. NrDpus /\ lines = [i \in 1 .. NrDpus |-> lines[i]]
    OBVIOUS
  <2>4. FlattenSeq(lines) \in Plain
    <3> HIDE DEF lines
    <3> QED BY <2>2, <2>3, Numbers, PlainLoop
  <2>5. <<Use(ALL_CIS)>> \o ufi_select_all_even_disabled \o ufi_set_mram_mux
          \o <<Use(ALL_CIS)>> \o ufi_select_all_even_disabled \o ufi_write_dma_ctrl \o ufi_clear_dma_ctrl \in Plain
    BY <1>1, UfiPlain, PlainConcat
  <2> QED BY <2>4, <2>5, PlainConcat DEF host_handle_access_for_rank
<1>6. ASSUME NEW mux \in BOOLEAN, NEW resume \in BOOLEAN PROVE ci_start_thread_rank(mux, resume) \in Plain
  <2>1. (IF mux THEN host_handle_access_for_rank ELSE <<>>) \in Plain
        /\ (IF resume THEN ufi_thread_resume ELSE ufi_thread_boot) \in Plain
    BY <1>5, UfiPlain, PlainConcat
  <2> QED BY <1>1, <2>1, UfiPlain, PlainConcat DEF ci_start_thread_rank
<1>7. ASSUME NEW c \in ALL_CIS, NEW d \in Dpus, NEW mux \in BOOLEAN, NEW resume \in BOOLEAN
      PROVE  ci_start_thread_dpu(c, d, mux, resume) \in Plain
  <2>1. (IF mux THEN host_handle_access_for_dpu(d) ELSE <<>>) \in Plain
        /\ (IF resume THEN ufi_thread_resume ELSE ufi_thread_boot) \in Plain
    BY <1>4, UfiPlain, PlainConcat
  <2> QED BY <1>1, <1>2, <2>1, PlainConcat DEF ci_start_thread_dpu
<1>8. ci_poll_rank \in Plain
  BY <1>1, UfiPlain, PlainConcat DEF ci_poll_rank
<1>9. ASSUME NEW c \in ALL_CIS, NEW d \in Dpus
      PROVE  ci_sample_pc_dpu(c, d) \in Plain /\ dpu_wavegen_read_status(c, d) \in Plain
  BY <1>1, <1>2, UfiPlain, PlainConcat DEF ci_sample_pc_dpu, dpu_wavegen_read_status
<1>10. ASSUME NEW c \in ALL_CIS, NEW d \in Dpus PROVE dpu_disable_one_dpu(c, d) \in Plain
  <2>1. ufi_write_group(DPU_DISABLED_GROUP) \in Plain
    BY UfiPlain DEF DPU_DISABLED_GROUP
  <2>2. "disable" \in StepNames
    BY DEF StepNames
  <2>3. <<Step("disable", CI_EMPTY, d, {c})>> \in Plain
    BY <2>2, StepTypes, FrameTypes, Numbers, PlainConcat
  <2> QED BY <1>1, <1>2, <2>1, <2>3, PlainConcat DEF dpu_disable_one_dpu, ci_disable_dpu
<1> QED BY <1>3, <1>4, <1>5, <1>6, <1>7, <1>8, <1>9, <1>10

-----------------------------------------------------------------------------
(* The reset.  It is the one script with reset frames, and each of them is *)
(* followed by a command that clears the buffer: no reset is sent again.   *)

ClearsNext(p) == Len(p) >= 3 /\ p[1].op = "use" /\ p[2].op = "cis" /\ p[3].op = "send"
ResetAt(p, i) ==
  /\ p[i].op = "reset" /\ p[i].frame.k = "reset" /\ i + 3 <= Len(p)
  /\ p[i + 1].op = "use" /\ p[i + 2].op = "cis" /\ p[i + 3].op = "send"
Safe(p) == p \in Seq(Steps) /\ \A i \in 1 .. Len(p) : p[i] \in PlainSteps \/ ResetAt(p, i)

LEMMA PlainIsSafe == \A p \in Plain : Safe(p)
<1> SUFFICES ASSUME NEW p \in Plain PROVE Safe(p)
  OBVIOUS
<1>1. p \in Seq(Steps)
  BY DEF Plain, PlainSteps
<1> QED BY <1>1 DEF Safe, Plain

LEMMA SafeTail ==
  ASSUME NEW p, Safe(p), p # <<>>
  PROVE  Safe(Tail(p))
<1>1. p \in Seq(Steps) /\ Tail(p) \in Seq(Steps) /\ Len(Tail(p)) = Len(p) - 1
      /\ \A i \in 1 .. Len(Tail(p)) : Tail(p)[i] = p[i + 1]
  BY DEF Safe
<1>2. ASSUME NEW i \in 1 .. Len(Tail(p)) PROVE Tail(p)[i] \in PlainSteps \/ ResetAt(Tail(p), i)
  <2>1. i + 1 \in 1 .. Len(p)
    BY <1>1
  <2>2. p[i + 1] \in PlainSteps \/ ResetAt(p, i + 1)
    BY <2>1 DEF Safe
  <2>3. CASE ResetAt(p, i + 1)
    <3>1. i + 3 <= Len(Tail(p)) /\ i + 1 \in 1 .. Len(Tail(p)) /\ i + 2 \in 1 .. Len(Tail(p)) /\ i + 3 \in 1 .. Len(Tail(p))
      BY <1>1, <2>3 DEF ResetAt
    <3>2. Tail(p)[i + 1] = p[i + 2] /\ Tail(p)[i + 2] = p[i + 3] /\ Tail(p)[i + 3] = p[i + 4] /\ Tail(p)[i] = p[i + 1]
      BY <1>1, <3>1
    <3> QED BY <2>3, <3>1, <3>2 DEF ResetAt
  <2> QED BY <1>1, <2>2, <2>3
<1> QED BY <1>1, <1>2 DEF Safe

LEMMA SafeAfterPlain ==
  ASSUME NEW p \in Plain, NEW q, Safe(q)
  PROVE  Safe(p \o q)
<1>1. p \in Seq(Steps) /\ q \in Seq(Steps)
  BY DEF Plain, PlainSteps, Safe
<1>2. /\ p \o q \in Seq(Steps) /\ Len(p \o q) = Len(p) + Len(q) /\ Len(p) \in Nat /\ Len(q) \in Nat
      /\ \A i \in 1 .. Len(p) : (p \o q)[i] = p[i]
      /\ \A i \in 1 .. Len(q) : (p \o q)[Len(p) + i] = q[i]
  BY <1>1
<1>3. ASSUME NEW i \in 1 .. Len(p \o q) PROVE (p \o q)[i] \in PlainSteps \/ ResetAt(p \o q, i)
  <2>1. CASE i <= Len(p)
    <3>1. i \in 1 .. Len(p)
      BY <1>2, <2>1
    <3> QED BY <1>2, <3>1 DEF Plain
  <2>2. CASE i > Len(p)
    <3>0. i - Len(p) \in 1 .. Len(q) /\ i = Len(p) + (i - Len(p))
      BY <1>2, <2>2
    <3>1. PICK j \in 1 .. Len(q) : i = Len(p) + j
      BY <3>0
    <3>2. q[j] \in PlainSteps \/ ResetAt(q, j)
      BY <3>1 DEF Safe
    <3>3. CASE ResetAt(q, j)
      <4>1. j + 1 \in 1 .. Len(q) /\ j + 2 \in 1 .. Len(q) /\ j + 3 \in 1 .. Len(q) /\ i + 3 <= Len(p \o q)
        BY <1>2, <3>1, <3>3 DEF ResetAt
      <4>2. (p \o q)[Len(p) + (j + 1)] = q[j + 1] /\ (p \o q)[Len(p) + (j + 2)] = q[j + 2]
            /\ (p \o q)[Len(p) + (j + 3)] = q[j + 3] /\ (p \o q)[Len(p) + j] = q[j]
        BY <1>2, <3>1, <4>1
      <4>3. Len(p) + (j + 1) = i + 1 /\ Len(p) + (j + 2) = i + 2 /\ Len(p) + (j + 3) = i + 3 /\ Len(p) + j = i
        BY <1>2, <3>1
      <4> QED BY <3>3, <4>1, <4>2, <4>3 DEF ResetAt
    <3> QED BY <1>2, <3>1, <3>2, <3>3
  <2> QED BY <1>2, <2>1, <2>2
<1> QED BY <1>2, <1>3 DEF Safe

LEMMA SafeBeforePlain ==
  ASSUME NEW p, Safe(p), NEW q \in Plain
  PROVE  Safe(p \o q)
<1>1. p \in Seq(Steps) /\ q \in Seq(Steps)
  BY DEF Plain, PlainSteps, Safe
<1>2. /\ p \o q \in Seq(Steps) /\ Len(p \o q) = Len(p) + Len(q) /\ Len(p) \in Nat /\ Len(q) \in Nat
      /\ \A i \in 1 .. Len(p) : (p \o q)[i] = p[i]
      /\ \A i \in 1 .. Len(q) : (p \o q)[Len(p) + i] = q[i]
  BY <1>1
<1>3. ASSUME NEW i \in 1 .. Len(p \o q) PROVE (p \o q)[i] \in PlainSteps \/ ResetAt(p \o q, i)
  <2>1. CASE i <= Len(p)
    <3>1. i \in 1 .. Len(p)
      BY <1>2, <2>1
    <3>2. p[i] \in PlainSteps \/ ResetAt(p, i)
      BY <3>1 DEF Safe
    <3>3. CASE ResetAt(p, i)
      <4>1. i + 1 \in 1 .. Len(p) /\ i + 2 \in 1 .. Len(p) /\ i + 3 \in 1 .. Len(p) /\ i + 3 <= Len(p \o q)
        BY <1>2, <3>1, <3>3 DEF ResetAt
      <4> QED BY <1>2, <3>1, <3>3, <4>1 DEF ResetAt
    <3> QED BY <1>2, <3>1, <3>2, <3>3
  <2>2. CASE i > Len(p)
    <3>1. i - Len(p) \in 1 .. Len(q) /\ i = Len(p) + (i - Len(p))
      BY <1>2, <2>2
    <3>2. (p \o q)[i] = q[i - Len(p)]
      BY <1>2, <3>1
    <3> QED BY <3>1, <3>2 DEF Plain
  <2> QED BY <1>2, <2>1, <2>2
<1> QED BY <1>2, <1>3 DEF Safe

\* ufi_soft_reset, then a command of the same shape.
LEMMA SafeReset ==
  ASSUME NEW p, Safe(p), NEW a \in PlainSteps, NEW b \in PlainSteps, NEW r \in Steps, r.op = "reset", r.frame.k = "reset",
         NEW d \in PlainSteps, NEW e \in PlainSteps, NEW f \in PlainSteps, d.op = "use", e.op = "cis", f.op = "send"
  PROVE  Safe((p \o <<a, b, r>>) \o <<d, e, f>>)
<1> DEFINE n == Len(p)
           s == (p \o <<a, b, r>>) \o <<d, e, f>>
<1>1. p \in Seq(Steps) /\ {a, b, r, d, e, f} \subseteq Steps /\ n \in Nat
  BY DEF Safe, PlainSteps
<1>2. /\ s \in Seq(Steps) /\ Len(s) = n + 6
      /\ \A i \in 1 .. n : s[i] = p[i]
  BY <1>1
<1>3. s[n + 1] = a /\ s[n + 2] = b /\ s[n + 3] = r /\ s[n + 4] = d /\ s[n + 5] = e /\ s[n + 6] = f
  BY <1>1
<1> HIDE DEF s
<1>4. ASSUME NEW i \in 1 .. Len(s) PROVE s[i] \in PlainSteps \/ ResetAt(s, i)
  <2>1. CASE i <= n
    <3>1. i \in 1 .. n
      BY <1>1, <2>1
    <3>2. p[i] \in PlainSteps \/ ResetAt(p, i)
      BY <3>1 DEF Safe
    <3>3. CASE ResetAt(p, i)
      <4>1. i + 1 \in 1 .. n /\ i + 2 \in 1 .. n /\ i + 3 \in 1 .. n /\ i + 3 <= Len(s)
        BY <1>1, <1>2, <3>1, <3>3 DEF ResetAt
      <4> HIDE DEF n
      <4> QED BY <1>2, <3>1, <3>3, <4>1 DEF ResetAt
    <3> QED BY <1>2, <3>1, <3>2, <3>3
  <2>2. CASE i > n
    <3>1. i = n + 1 \/ i = n + 2 \/ i = n + 3 \/ i = n + 4 \/ i = n + 5 \/ i = n + 6
      BY <1>1, <1>2, <2>2
    <3>2. CASE i = n + 3
      <4>1. i + 1 = n + 4 /\ i + 2 = n + 5 /\ i + 3 = n + 6 /\ i + 3 <= Len(s)
        BY <1>1, <1>2, <3>2
      <4> QED BY <1>3, <3>2, <4>1 DEF ResetAt
    <3> QED BY <1>3, <3>1, <3>2
  <2> QED BY <1>1, <1>2, <2>1, <2>2
<1>5. Safe(s)
  BY <1>2, <1>4 DEF Safe
<1> QED BY <1>5 DEF s

\* Scripts that begin with all CIs, or with all DPUs.
LEMMA OnPlain ==
  ASSUME NEW script \in Plain
  PROVE  /\ OnCis(script) \in Plain /\ OnAll(script) \in Plain /\ OnLines(script) \in Plain
         /\ \A d \in Dpus : OnLine(d, script) \in Plain
<1>1. <<Use(ALL_CIS)>> \in Plain
  BY UsePlain, Numbers
<1>2. \A d \in Dpus : OnLine(d, script) \in Plain
  BY <1>1, UfiPlain, Numbers, PlainConcat DEF OnLine
<1>3. OnLines(script) \in Plain
  <2> DEFINE lines == [i \in 1 .. NrDpus |-> OnLine(i - 1, script)]
  <2>1. \A i \in 1 .. NrDpus : i - 1 \in Dpus
    BY Numbers DEF Dpus
  <2>2. \A i \in 1 .. NrDpus : lines[i] \in Plain
    BY <1>2, <2>1
  <2>3. DOMAIN lines = 1 .. NrDpus /\ lines = [i \in 1 .. NrDpus |-> lines[i]]
    OBVIOUS
  <2>4. FlattenSeq(lines) \in Plain
    <3> HIDE DEF lines
    <3> QED BY <2>2, <2>3, Numbers, PlainLoop
  <2> QED BY <2>4 DEF OnLines
<1> QED BY <1>1, <1>2, <1>3, UfiPlain, PlainConcat DEF OnCis, OnAll

LEMMA RepairPlain ==
  ASSUME NEW m \in {"iram", "wram"}, NEW script \in Plain
  PROVE  try_to_repair(m, script) \in Plain
<1>1. "repair" \in StepNames /\ "anyleft" \in StepNames /\ m \in Values /\ {} \in SUBSET Int
  BY DEF StepNames, Values
<1>2. <<Step("anyleft", CI_EMPTY, 0, {})>> \in Plain /\ \A d \in Dpus : Repair(m, d) \in Plain
  BY <1>1, StepTypes, FrameTypes, Numbers, PlainConcat DEF Repair
<1> DEFINE lines == [i \in 1 .. NrDpus |-> Repair(m, i - 1) \o OnLine(i - 1, script)]
<1>3. \A i \in 1 .. NrDpus : i - 1 \in Dpus
  BY Numbers DEF Dpus
<1>4. \A i \in 1 .. NrDpus : lines[i] \in Plain
  BY <1>2, <1>3, OnPlain, PlainConcat
<1>5. DOMAIN lines = 1 .. NrDpus /\ lines = [i \in 1 .. NrDpus |-> lines[i]]
  OBVIOUS
<1>6. FlattenSeq(lines) \in Plain
  <2> HIDE DEF lines
  <2> QED BY <1>4, <1>5, Numbers, PlainLoop
<1> QED BY <1>2, <1>6, PlainConcat DEF try_to_repair

\* The stages of ci_reset_rank, but for the soft resets.
LEMMA StagesPlain ==
  /\ \A update \in BOOLEAN : Save(update) \in Plain
  /\ \A hardware \in BOOLEAN : dpu_byte_order(hardware) \in Plain
  /\ dpu_ci_shuffling_box_config \in Plain /\ dpu_identity \in Plain /\ dpu_thermal_config \in Plain
  /\ dpu_carousel_config \in Plain
  /\ \A repair \in BOOLEAN : dpu_iram_repair_config(repair) \in Plain /\ dpu_wram_repair_config(repair) \in Plain
  /\ dpu_dma_config \in Plain /\ dpu_dma_shuffling_box_config \in Plain /\ dpu_wavegen_config \in Plain
  /\ dpu_clear_debug \in Plain /\ dpu_clear_run_bits \in Plain /\ dpu_set_pc_mode \in Plain
  /\ dpu_set_stack_direction \in Plain /\ dpu_reset_internal_state \in Plain /\ dpu_init_groups \in Plain
<1>1. {"save", "resave", "initgroups"} \subseteq StepNames /\ {} \in SUBSET Int
  BY DEF StepNames
<1>2. (\A update \in BOOLEAN : Save(update) \in Plain) /\ dpu_init_groups \in Plain
  BY <1>1, StepTypes, FrameTypes, PlainConcat DEF Save, dpu_init_groups
<1>3. /\ \A hardware \in BOOLEAN : dpu_byte_order(hardware) \in Plain
      /\ dpu_ci_shuffling_box_config \in Plain /\ dpu_identity \in Plain /\ dpu_thermal_config \in Plain
      /\ dpu_carousel_config \in Plain
  BY UfiPlain, OnPlain, PlainConcat
     DEF dpu_byte_order, dpu_ci_shuffling_box_config, dpu_identity, dpu_thermal_config, dpu_carousel_config
<1>4. Times(NR_OF_WRAM_BANKS, ufi_wram_repair_config) \in Plain /\ Times(NrRunBits, ufi_clear_run_bit) \in Plain
      /\ Times(NrThreads, ufi_thread_boot) \in Plain /\ Times(NrRegisters, ufi_write_dma_ctrl) \in Plain
  BY UfiPlain, PlainTimes DEF NR_OF_WRAM_BANKS, NrRunBits, NrThreads, NrRegisters
<1>5. ASSUME NEW repair \in BOOLEAN
      PROVE  dpu_iram_repair_config(repair) \in Plain /\ dpu_wram_repair_config(repair) \in Plain
  <2>1. OnAll(ufi_iram_repair_config) \in Plain /\ try_to_repair("iram", ufi_iram_repair_config) \in Plain
    BY UfiPlain, OnPlain, RepairPlain
  <2>2. /\ OnAll(Times(NR_OF_WRAM_BANKS, ufi_wram_repair_config)) \in Plain
        /\ try_to_repair("wram", Times(NR_OF_WRAM_BANKS, ufi_wram_repair_config)) \in Plain
    BY <1>4, OnPlain, RepairPlain
  <2> QED BY <2>1, <2>2 DEF dpu_iram_repair_config, dpu_wram_repair_config
<1>6. dpu_dma_config \in Plain /\ dpu_dma_shuffling_box_config \in Plain
  BY <1>4, UfiPlain, PlainConcat, OnPlain DEF dpu_dma_config, dpu_dma_shuffling_box_config, Registers
<1>7. dpu_wavegen_config \in Plain
  <2>1. OnAll(Registers) \in Plain /\ OnLines(ufi_write_dma_ctrl \o ufi_clear_dma_ctrl) \in Plain
    BY <1>4, UfiPlain, PlainConcat, OnPlain DEF Registers
  <2> QED BY <2>1, PlainConcat DEF dpu_wavegen_config
<1>8. dpu_clear_debug \in Plain
  BY UfiPlain, PlainConcat, OnPlain DEF dpu_clear_debug
<1>9. dpu_clear_run_bits \in Plain /\ dpu_set_pc_mode \in Plain /\ dpu_set_stack_direction \in Plain
  <2>1. ufi_set_stack_direction \o ufi_set_stack_direction \in Plain
    BY UfiPlain, PlainConcat
  <2> QED BY <1>4, <2>1, UfiPlain, PlainConcat, OnPlain DEF dpu_clear_run_bits, dpu_set_pc_mode, dpu_set_stack_direction
<1>10. dpu_reset_internal_state \in Plain
  <2>1. ufi_iram_write(0, 1) \in Plain
    BY UfiPlain
  <2>2. ufi_iram_write(0, 1) \o Times(NrThreads, ufi_thread_boot) \o ufi_read_dpu_run \in Plain
    BY <1>4, <2>1, UfiPlain, PlainConcat
  <2> QED BY <2>2, OnPlain DEF dpu_reset_internal_state
<1> QED BY <1>2, <1>3, <1>5, <1>6, <1>7, <1>8, <1>9, <1>10

\* The steps around a soft reset.
LEMMA SoftReset ==
  /\ dpu_soft_reset = <<Use(ALL_CIS), Step("cis", CI_EMPTY, 0, {}), Step("reset", Frame("reset", "none", "reset"), 0, {})>>
  /\ dpu_bit_config = <<Use(ALL_CIS), Step("cis", CI_EMPTY, 0, {}), Send(Raw("bit_order"))>>
  /\ dpu_ci_shuffling_box_config = dpu_bit_config
<1>1. ASSUME NEW x, NEW y, NEW z PROVE (<<x>> \o <<y>>) \o <<z>> = <<x, y, z>>
  <2> DEFINE S == {x, y, z}
             s == (<<x>> \o <<y>>) \o <<z>>
  <2>1. <<x>> \in Seq(S) /\ <<y>> \in Seq(S) /\ <<z>> \in Seq(S) /\ <<x, y, z>> \in Seq(S)
    OBVIOUS
  <2>2. s \in Seq(S) /\ Len(s) = 3 /\ s[1] = x /\ s[2] = y /\ s[3] = z
    BY <2>1
  <2> HIDE DEF s
  <2>3. \A i \in 1 .. Len(s) : s[i] = <<x, y, z>>[i]
    BY <2>2
  <2>4. s = <<x, y, z>>
    BY <2>1, <2>2, <2>3, SeqEqual
  <2> QED BY <2>4 DEF s
<1> QED BY <1>1 DEF dpu_soft_reset, dpu_bit_config, dpu_ci_shuffling_box_config, OnCis, ufi_select_cis,
           ufi_soft_reset, ufi_bit_config

LEMMA ResetIsSafe ==
  ASSUME NEW k, {k.hw, k.iram, k.wram, k.mux} \subseteq BOOLEAN
  PROVE  Safe(ci_reset_rank(k))
<1> DEFINE a == Use(ALL_CIS)
           b == Step("cis", CI_EMPTY, 0, {})
           r == Step("reset", Frame("reset", "none", "reset"), 0, {})
           f == Send(Raw("bit_order"))
           p1 == Save(FALSE) \o dpu_byte_order(k.hw)
           p2 == (p1 \o dpu_soft_reset) \o dpu_bit_config
           p3 == p2 \o dpu_ci_shuffling_box_config
           p4 == (p3 \o dpu_soft_reset) \o dpu_ci_shuffling_box_config
<1>1. "cis" \in StepNames /\ "bit_order" \in Values /\ {} \in SUBSET Int
  BY DEF StepNames, Values
<1>2. a \in PlainSteps /\ b \in PlainSteps /\ f \in PlainSteps
  BY <1>1, StepTypes, FrameTypes, Numbers
<1>3. r \in Steps /\ r.op = "reset" /\ r.frame.k = "reset"
  BY DEF Step, Frame, Steps, Frames, StepNames, Structures, Values
<1>4. a.op = "use" /\ b.op = "cis" /\ f.op = "send"
  BY DEF Use, Send, Step
<1>5. p1 \in Plain
  BY StagesPlain, PlainConcat
<1>6. Safe(p1)
  BY <1>5, PlainIsSafe
<1> HIDE DEF a, b, r, f, p1
<1>7. dpu_soft_reset = <<a, b, r>> /\ dpu_bit_config = <<a, b, f>> /\ dpu_ci_shuffling_box_config = <<a, b, f>>
  BY SoftReset DEF a, b, r, f
<1>8. Safe(p2)
  BY <1>2, <1>3, <1>4, <1>6, <1>7, SafeReset
<1>9. Safe(p3)
  BY <1>8, StagesPlain, SafeBeforePlain
<1>10. Safe(p4)
  <2> HIDE DEF p3
  <2> QED BY <1>2, <1>3, <1>4, <1>7, <1>9, SafeReset
<1> DEFINE p5 == p4 \o dpu_identity \o dpu_thermal_config \o dpu_carousel_config \o dpu_iram_repair_config(k.iram) \o Save(TRUE)
           p6 == p5 \o dpu_wram_repair_config(k.wram) \o Save(TRUE) \o dpu_dma_config
           p7 == p6 \o dpu_dma_shuffling_box_config \o dpu_wavegen_config \o dpu_clear_debug \o dpu_clear_run_bits
           p8 == p7 \o dpu_set_pc_mode \o dpu_set_stack_direction \o dpu_reset_internal_state
           mux == IF k.mux THEN host_handle_access_for_rank ELSE <<>>
<1>11. ci_reset_rank(k) = p8 \o mux \o dpu_init_groups
  BY DEF ci_reset_rank, p1
<1>12. mux \in Plain
  BY RunnerPlain, PlainConcat
<1> HIDE DEF p4
<1>13. Safe(p5)
  BY <1>10, StagesPlain, SafeBeforePlain
<1> HIDE DEF p5
<1>14. Safe(p6)
  BY <1>13, StagesPlain, SafeBeforePlain
<1> HIDE DEF p6
<1>15. Safe(p7)
  BY <1>14, StagesPlain, SafeBeforePlain
<1> HIDE DEF p7
<1>16. Safe(p8)
  BY <1>15, StagesPlain, SafeBeforePlain
<1> HIDE DEF p8, mux
<1> QED BY <1>11, <1>12, <1>16, StagesPlain, SafeBeforePlain

\* Whatever the call, and whichever DPUs are enabled when it is made.
LEMMA ScriptsSafe ==
  ASSUME NEW k \in Calls
  PROVE  Safe(Script(k))
<1>0. /\ k.name \in OneDpu \cup Sized \cup Others
      /\ k.name \in OneDpu \cup {"dpu_uncached"} => k.c \in ALL_CIS /\ k.d \in Dpus
      /\ k.name \in Sized => k.n \in Nat
      /\ k.name \in Matrices => k.dpus \subseteq AllDpus
      /\ k.name \in {"group", "group_uncached"} => k.n \in Int
      /\ k.name \in {"boot_rank", "boot_dpu"} => k.mux \in BOOLEAN /\ k.resume \in BOOLEAN
      /\ k.name = "reset" => {k.hw, k.iram, k.wram, k.mux} \subseteq BOOLEAN
  BY CallsAssumption, Numbers DEF AllDpus
<1>1. k.name = "reset" => Safe(Script(k))
  BY <1>0, ResetIsSafe DEF Script
<1>2. k.name # "reset" => Script(k) \in Plain
  <2>1. k.name \in Matrices => k.dpus \cap Enabled \in SUBSET AllDpus /\ k.dpus \in SUBSET AllDpus
    BY <1>0
  <2>2. k.name \in {"iram_rank", "iram_dpu", "from_iram_dpu", "wram_rank", "wram_dpu", "from_wram_dpu"} => Script(k) \in Plain
    BY <1>0, MemoryPlain DEF Script, OneDpu, Sized, Others
  <2>3. k.name \in Matrices => Script(k) \in Plain
    BY <1>0, <2>1, MemoryPlain DEF Script, Sized, Matrices
  <2>4. k.name \in {"boot_rank", "boot_dpu", "poll", "sample_pc", "wavegen_status", "disable"} => Script(k) \in Plain
    BY <1>0, RunnerPlain DEF Script, OneDpu
  <2>5. k.name \in {"group", "group_uncached", "all_uncached", "dpu_uncached"} => Script(k) \in Plain
    <3>1. <<Use(ALL_CIS)>> \in Plain /\ \A c \in ALL_CIS : <<Use({c})>> \in Plain
      BY UsePlain, Numbers
    <3>2. k.name = "dpu_uncached" => <<Use({k.c})>> \in Plain /\ ufi_select_dpu_uncached(k.d) \in Plain
      BY <1>0, <3>1, UfiPlain, Numbers
    <3>3. k.name \in {"group", "group_uncached"} => ufi_select_group(k.n) \in Plain /\ ufi_select_group_uncached(k.n) \in Plain
      BY <1>0, UfiPlain
    <3> QED BY <3>1, <3>2, <3>3, UfiPlain, PlainConcat DEF Script
  <2> QED BY <1>0, <2>2, <2>3, <2>4, <2>5 DEF OneDpu, Sized, Matrices, Others
<1> QED BY <1>1, <1>2, PlainIsSafe

-----------------------------------------------------------------------------
(* The inductive invariant.                                                *)

Sent == compute_ci_mask(flight.frames)
Waiting(c) == hw[c].inbox # CI_EMPTY
InReset(c) == pc = "poll" /\ flight.kind = "reset" /\ c \in Sent

CiFields == {"color", "inbox", "last", "structure", "selected", "group", "collide", "late", "bits", "answer"}
FlightFields == {"kind", "frames", "color", "done", "wait", "expect", "polls"}

(* The colour protocol.  The colour that the host expects next differs     *)
(* from the one a CI shows exactly when the CI has nothing to do; a CI     *)
(* that was reset shows colour 1 until the host has seen it.               *)
FlightInv ==
  /\ DOMAIN flight = FlightFields /\ flight.frames \in [ALL_CIS -> Frames]
  /\ pc # "poll" => flight = NoFlight
  /\ pc = "poll" =>
       /\ flight.kind \in {"cmd", "discover", "reset"}
       /\ ALL_CIS \ Sent \subseteq flight.done
       /\ flight.kind # "cmd" => flight.done = ALL_CIS \ Sent
       /\ \A c \in Sent : /\ c \in flight.color <=> c \notin color
                          /\ flight.kind = "reset" <=> flight.frames[c].k = "reset"
CiInv(c) ==
  /\ DOMAIN hw[c] = CiFields /\ hw[c].color \in {0, 1}
  /\ (c \notin failed /\ ~InReset(c)) => (Waiting(c) <=> (c \in color <=> hw[c].color = 1))
  /\ (c \notin failed /\ Waiting(c)) => pc = "poll" /\ c \in Sent /\ c \notin flight.done
  /\ (pc = "poll" /\ c \in Sent /\ Waiting(c)) => hw[c].inbox = flight.frames[c]
  /\ (pc = "poll" /\ c \in Sent /\ ~Waiting(c)) => hw[c].last = flight.frames[c]
  /\ (InReset(c) /\ ~Waiting(c)) => hw[c].color = 1
ProtocolInv == FlightInv /\ DOMAIN hw = ALL_CIS /\ \A c \in ALL_CIS : CiInv(c)

(* The program.  A reset frame stays in the command buffer only until the  *)
(* next command, which does not send it again.                             *)
Dirty == \E c \in ALL_CIS : cmds[c].k = "reset"
Clears(p) ==
  \/ Len(p) >= 1 /\ p[1].op = "send"
  \/ Len(p) >= 2 /\ p[1].op = "cis" /\ p[2].op = "send"
  \/ ClearsNext(p)
ProgInv ==
  /\ pc \in {"idle", "run", "poll"} /\ Safe(prog)
  /\ cmds \in [ALL_CIS -> Frames] /\ mask \in SUBSET Int
  /\ pc = "idle" => prog = <<>>
  /\ pc = "poll" => prog # <<>> /\ (flight.kind = "reset" <=> prog[1].op = "reset")
  /\ Dirty => (pc = "poll" /\ flight.kind = "reset") \/ (pc = "run" /\ Clears(prog))

Inv == ProtocolInv /\ ProgInv

\* Consequences of it that no run states.
NoneLost ==
  \A c \in ALL_CIS \ failed : hw[c].inbox # CI_EMPTY => pc = "poll" /\ c \in Todo /\ hw[c].inbox = flight.frames[c]
ResetOnlyInReset ==
  \A c \in compute_ci_mask(flight.frames) : flight.frames[c].k = "reset" => flight.kind = "reset"

-----------------------------------------------------------------------------
(* The steps of the protocol.                                              *)

LEMMA NoFlightFacts ==
  /\ DOMAIN NoFlight = FlightFields /\ NoFlight.frames \in [ALL_CIS -> Frames]
  /\ NoFlight.kind = "none" /\ compute_ci_mask(NoFlight.frames) = {}
<1>1. CI_EMPTY \in Frames
  BY FrameTypes DEF PlainFrames
<1> QED BY <1>1 DEF NoFlight, FlightFields, Empty, compute_ci_mask

LEMMA InitProtocol == Init => ProtocolInv
<1> SUFFICES ASSUME Init PROVE ProtocolInv
  OBVIOUS
<1>1. FlightInv
  BY NoFlightFacts DEF Init, FlightInv
<1>2. ASSUME NEW c \in ALL_CIS PROVE CiInv(c)
  <2>1. DOMAIN hw[c] = CiFields /\ hw[c].color = 1 /\ hw[c].inbox = CI_EMPTY
    BY DEF Init, CiFields
  <2> QED BY <2>1 DEF Init, CiInv, InReset, Waiting
<1> QED BY <1>1, <1>2 DEF ProtocolInv, Init

LEMMA ProtocolUnchanged ==
  ProtocolInv /\ UNCHANGED <<color, flight, pc, hw, failed>> => ProtocolInv'
BY DEF ProtocolInv, FlightInv, CiInv, InReset, Waiting, Sent, compute_ci_mask

\* What a CI does with a frame.
LEMMA AnsweredFacts ==
  ASSUME NEW h, NEW f, DOMAIN h = CiFields, h.color \in {0, 1}
  PROVE  LET a == Answered(h, f) IN
           /\ DOMAIN a = CiFields /\ a.inbox = CI_EMPTY /\ a.last = f
           /\ a.color = IF f.k = "reset" THEN 1 ELSE 1 - h.color
BY DEF Answered, CiFields

LEMMA ExecuteProtocol ==
  ASSUME ProtocolInv, NEW c \in ALL_CIS, Execute(c)
  PROVE  ProtocolInv'
<1>1. UNCHANGED <<color, flight, pc, failed>> /\ Waiting(c)
  BY DEF Execute, Waiting
<1>2. DOMAIN hw' = ALL_CIS /\ hw'[c] = Answered(hw[c], hw[c].inbox) /\ \A b \in ALL_CIS : b # c => hw'[b] = hw[b]
  BY DEF Execute, ProtocolInv
<1>3. FlightInv'
  BY <1>1 DEF ProtocolInv, FlightInv, Sent, compute_ci_mask
<1>4. ASSUME NEW b \in ALL_CIS, b # c PROVE CiInv(b)'
  <2>1. CiInv(b) /\ hw'[b] = hw[b]
    BY <1>2, <1>4 DEF ProtocolInv
  <2> QED BY <1>1, <2>1 DEF CiInv, InReset, Waiting, Sent, compute_ci_mask
<1>5. CiInv(c)'
  <2>1. CiInv(c)
    BY DEF ProtocolInv
  <2>2. /\ DOMAIN hw'[c] = CiFields /\ hw'[c].inbox = CI_EMPTY /\ hw'[c].last = hw[c].inbox
        /\ hw'[c].color = IF hw[c].inbox.k = "reset" THEN 1 ELSE 1 - hw[c].color
    BY <1>2, <2>1, AnsweredFacts DEF CiInv
  <2>3. Sent' = Sent /\ (InReset(c)' <=> InReset(c)) /\ ~Waiting(c)'
    BY <1>1, <2>2 DEF Sent, InReset, Waiting, compute_ci_mask
  <2>4. hw'[c].color \in {0, 1}
    BY <2>1, <2>2 DEF CiInv
  <2>5. (pc = "poll" /\ c \in Sent) => hw[c].inbox = flight.frames[c] /\ (flight.kind = "reset" <=> hw[c].inbox.k = "reset")
    BY <1>1, <2>1 DEF CiInv, ProtocolInv, FlightInv
  <2>6. ASSUME c \notin failed, ~InReset(c) PROVE ~(c \in color <=> hw'[c].color = 1)
    <3>1. pc = "poll" /\ c \in Sent /\ flight.kind # "reset"
      BY <1>1, <2>1, <2>6 DEF CiInv, InReset
    <3>2. hw'[c].color = 1 - hw[c].color /\ (c \in color <=> hw[c].color = 1) /\ hw[c].color \in {0, 1}
      BY <1>1, <2>1, <2>2, <2>5, <2>6, <3>1 DEF CiInv
    <3> QED BY <3>2
  <2>7. InReset(c) => hw'[c].color = 1
    BY <2>2, <2>5 DEF InReset
  <2> QED BY <1>1, <2>2, <2>3, <2>4, <2>5, <2>6, <2>7 DEF CiInv
<1> QED BY <1>2, <1>3, <1>4, <1>5 DEF ProtocolInv

\* An answer that the host takes for ready is there: the colour tells.
LEMMA ReadyIsAnswered ==
  ASSUME ProtocolInv, pc = "poll", flight.kind = "cmd", NEW c \in Todo, Ready(c), c \notin failed
  PROVE  ~Waiting(c)
<1>1. c \in ALL_CIS /\ c \in Sent
  BY DEF ProtocolInv, FlightInv, Todo
<1>2. (hw[c].color = 1) <=> c \notin color
  BY <1>1 DEF ProtocolInv, FlightInv, Ready
<1>3. ~InReset(c)
  BY DEF InReset
<1> QED BY <1>1, <1>2, <1>3 DEF ProtocolInv, CiInv

\* Once no CI that is not given up has a command left, the host may go on.
LEMMA FinishedProtocol ==
  ASSUME ProtocolInv, pc = "poll", flight.kind # "reset", flight' = NoFlight, pc' = "run",
         UNCHANGED color, failed \subseteq failed', DOMAIN hw' = ALL_CIS,
         \A c \in ALL_CIS : /\ DOMAIN hw'[c] = CiFields /\ hw'[c].color = hw[c].color /\ hw'[c].inbox = hw[c].inbox
                            /\ c \notin failed' => ~Waiting(c)
  PROVE  ProtocolInv'
<1>1. FlightInv'
  BY NoFlightFacts DEF FlightInv
<1>2. ASSUME NEW c \in ALL_CIS PROVE CiInv(c)'
  <2>1. CiInv(c) /\ ~InReset(c) /\ ~InReset(c)' /\ (Waiting(c)' <=> Waiting(c))
    BY DEF ProtocolInv, InReset, Waiting
  <2>2. c \notin failed' => c \notin failed /\ ~Waiting(c)
    OBVIOUS
  <2> QED BY <2>1, <2>2 DEF CiInv
<1> QED BY <1>1, <1>2 DEF ProtocolInv

LEMMA GiveUpProtocol ==
  ASSUME ProtocolInv, pc = "poll", UNCHANGED color, NEW err, GiveUp(err)
  PROVE  ProtocolInv'
<1>1. failed' = failed \cup Todo /\ flight' = NoFlight /\ pc' = "run"
  BY DEF GiveUp, Fail
<1>2. DOMAIN hw' = ALL_CIS /\ \A c \in ALL_CIS : DOMAIN hw[c] = CiFields
  BY DEF GiveUp, ProtocolInv, CiInv
<1>3. \A c \in ALL_CIS : /\ DOMAIN hw'[c] = CiFields /\ hw'[c].color = hw[c].color /\ hw'[c].inbox = hw[c].inbox
                        /\ hw'[c].last = hw[c].last
  BY <1>2 DEF GiveUp, CiFields
<1>4. FlightInv'
  BY <1>1, NoFlightFacts DEF FlightInv
<1>5. ASSUME NEW c \in ALL_CIS PROVE CiInv(c)'
  <2>1. CiInv(c) /\ ~InReset(c)' /\ (Waiting(c)' <=> Waiting(c)) /\ (c \in color' <=> c \in color)
    BY <1>1, <1>3 DEF ProtocolInv, InReset, Waiting
  <2>2. c \notin failed' => c \notin failed /\ c \notin Todo
    BY <1>1
  <2>3. c \notin Todo => c \in flight.done
    BY DEF Todo
  <2>4. (c \notin Todo /\ InReset(c)) => FALSE
    BY <2>3 DEF InReset, ProtocolInv, FlightInv
  <2> QED BY <1>1, <1>3, <2>1, <2>2, <2>3, <2>4 DEF CiInv
<1> QED BY <1>2, <1>4, <1>5 DEF ProtocolInv

LEMMA PollProtocol ==
  ASSUME ProtocolInv, Poll
  PROVE  ProtocolInv'
<1> DEFINE now == {c \in Todo : ReadyUpTo(c)}
<1>1. pc = "poll" /\ flight.kind = "cmd" /\ UNCHANGED color
  BY DEF Poll
<1>2. \A c \in now : Ready(c)
  BY SizeAssumption DEF ReadyUpTo, Todo, ALL_CIS
<1>3. \A c \in now : c \notin failed => ~Waiting(c)
  BY <1>1, <1>2, ReadyIsAnswered
<1>4. \A c \in flight.done \cap ALL_CIS : c \notin failed => ~Waiting(c)
  BY DEF ProtocolInv, CiInv
<1>5. \A c \in ALL_CIS : DOMAIN hw[c] = CiFields
  BY DEF ProtocolInv, CiInv
<1>6. CASE now = Todo /\ Finished /\ UNCHANGED <<hw, status, failed, lapsed, failures>>
  <2>1. \A c \in ALL_CIS : c \notin failed => ~Waiting(c)
    BY <1>3, <1>4, <1>6 DEF Todo
  <2>2. flight' = NoFlight /\ pc' = "run"
    BY <1>6 DEF Finished
  <2>3. DOMAIN hw' = ALL_CIS
    BY <1>6 DEF ProtocolInv
  <2> QED BY <1>1, <1>5, <1>6, <2>1, <2>2, <2>3, FinishedProtocol
<1>7. CASE /\ flight.polls < MaxPolls
           /\ flight' = [flight EXCEPT !.done = @ \cup now, !.polls = @ + 1]
           /\ UNCHANGED <<hw, pc, prog, status, failed, lapsed, failures>>
  <2>1. /\ DOMAIN flight' = FlightFields /\ flight'.frames = flight.frames /\ flight'.kind = flight.kind
        /\ flight'.color = flight.color /\ flight'.done = flight.done \cup now
    BY <1>7 DEF ProtocolInv, FlightInv, FlightFields
  <2>2. Sent' = Sent
    BY <2>1 DEF Sent, compute_ci_mask
  <2>3. FlightInv'
    BY <1>1, <1>7, <2>1, <2>2 DEF ProtocolInv, FlightInv
  <2>4. ASSUME NEW c \in ALL_CIS PROVE CiInv(c)'
    <3>1. CiInv(c) /\ (InReset(c)' <=> InReset(c)) /\ (Waiting(c)' <=> Waiting(c)) /\ hw'[c] = hw[c]
      BY <1>7, <2>1, <2>2 DEF ProtocolInv, InReset, Waiting
    <3>2. (c \notin failed /\ Waiting(c)) => c \notin now
      BY <1>3
    <3> QED BY <1>1, <1>7, <2>1, <2>2, <3>1, <3>2 DEF CiInv
  <2> QED BY <1>7, <2>3, <2>4 DEF ProtocolInv
<1>8. CASE Timeout
  BY <1>1, <1>8, GiveUpProtocol DEF Timeout
<1> QED BY <1>6, <1>7, <1>8 DEF Poll

LEMMA UnreadableProtocol ==
  ASSUME ProtocolInv, NEW c \in ALL_CIS, Unreadable(c)
  PROVE  ProtocolInv'
<1> DEFINE seen == {b \in Todo : b <= c}
<1>1. /\ pc = "poll" /\ flight.kind = "cmd" /\ UNCHANGED <<color, pc>> /\ failed' = failed \cup {c}
      /\ flight' = [flight EXCEPT !.done = @ \cup seen, !.polls = @ + 1]
      /\ hw' = [hw EXCEPT ![c].late = hw[c].inbox # CI_EMPTY]
  BY DEF Unreadable
<1>2. \A b \in seen : b # c => Ready(b)
  BY SizeAssumption DEF Unreadable, Todo, ALL_CIS
<1>3. /\ DOMAIN flight' = FlightFields /\ flight'.frames = flight.frames /\ flight'.kind = flight.kind
      /\ flight'.color = flight.color /\ flight'.done = flight.done \cup seen
  BY <1>1 DEF ProtocolInv, FlightInv, FlightFields
<1>4. Sent' = Sent
  BY <1>3 DEF Sent, compute_ci_mask
<1>5. FlightInv'
  BY <1>1, <1>3, <1>4 DEF ProtocolInv, FlightInv
<1>6. DOMAIN hw' = ALL_CIS
  BY <1>1 DEF ProtocolInv
<1>7. ASSUME NEW b \in ALL_CIS PROVE CiInv(b)'
  <2>1. CiInv(b)
    BY DEF ProtocolInv
  <2>2. DOMAIN hw'[b] = CiFields /\ hw'[b].color = hw[b].color /\ hw'[b].inbox = hw[b].inbox /\ hw'[b].last = hw[b].last
    BY <1>1, <2>1 DEF ProtocolInv, CiInv, CiFields
  <2>3. (InReset(b)' <=> InReset(b)) /\ (Waiting(b)' <=> Waiting(b))
    BY <1>1, <1>3, <1>4, <2>2 DEF InReset, Waiting
  <2>4. (b \notin failed' /\ Waiting(b)) => b \notin seen
    BY <1>1, <1>2, ReadyIsAnswered
  <2> QED BY <1>1, <1>3, <1>4, <2>1, <2>2, <2>3, <2>4 DEF CiInv
<1> QED BY <1>5, <1>6, <1>7 DEF ProtocolInv

LEMMA DiscoveryProtocol ==
  ASSUME ProtocolInv, wait_for_byte_discovery
  PROVE  ProtocolInv'
<1>1. /\ pc = "poll" /\ flight.kind = "discover" /\ UNCHANGED <<color, hw, failed>> /\ flight' = NoFlight /\ pc' = "run"
      /\ \A c \in Todo : ~Waiting(c)
  BY DEF wait_for_byte_discovery, Finished, Waiting
<1>2. \A c \in ALL_CIS : c \notin failed => ~Waiting(c)
  BY <1>1 DEF ProtocolInv, CiInv, Todo
<1>3. DOMAIN hw' = ALL_CIS /\ \A c \in ALL_CIS : DOMAIN hw'[c] = CiFields
  BY <1>1 DEF ProtocolInv, CiInv
<1> QED BY <1>1, <1>2, <1>3, FinishedProtocol

\* After a reset the colours agree on every CI that took it, failed or not.
LEMMA ResetProtocol ==
  ASSUME ProtocolInv, ci_exec_reset_cmd
  PROVE  ProtocolInv'
<1>1. /\ pc = "poll" /\ flight.kind = "reset" /\ UNCHANGED hw /\ flight' = NoFlight /\ pc' = "run"
      /\ color' = color \ Todo /\ failed' = failed \ Todo /\ \A c \in Todo : ~Waiting(c)
  BY DEF ci_exec_reset_cmd, Finished, Waiting
<1>2. Todo = Sent
  <2>1. Sent \subseteq ALL_CIS
    BY DEF Sent, compute_ci_mask
  <2>2. flight.done = ALL_CIS \ Sent
    BY <1>1 DEF ProtocolInv, FlightInv
  <2> QED BY <2>1, <2>2 DEF Todo
<1>3. FlightInv'
  BY <1>1, NoFlightFacts DEF FlightInv
<1>4. ASSUME NEW c \in ALL_CIS PROVE CiInv(c)'
  <2>1. CiInv(c) /\ ~InReset(c)' /\ (Waiting(c)' <=> Waiting(c)) /\ hw'[c] = hw[c]
    BY <1>1 DEF ProtocolInv, InReset, Waiting
  <2>2. CASE c \in Sent
    <3>1. hw[c].color = 1 /\ ~Waiting(c) /\ c \notin color'
      BY <1>1, <1>2, <2>1, <2>2 DEF CiInv, InReset
    <3> QED BY <1>1, <2>1, <3>1 DEF CiInv
  <2>3. CASE c \notin Sent
    <3>1. (c \in color' <=> c \in color) /\ (c \in failed' <=> c \in failed) /\ ~InReset(c)
      BY <1>1, <1>2, <2>3 DEF InReset
    <3>2. c \notin failed => ~Waiting(c)
      BY <2>1, <2>3 DEF CiInv
    <3> QED BY <1>1, <2>1, <3>1, <3>2 DEF CiInv
  <2> QED BY <2>2, <2>3
<1> QED BY <1>1, <1>3, <1>4 DEF ProtocolInv

\* Nothing was sent: the CIs that the host gives up may be in any state.
LEMMA GivenUpProtocol ==
  ASSUME ProtocolInv, pc # "poll", flight' = NoFlight, pc' # "poll", UNCHANGED hw, failed \subseteq failed',
         \A c \in ALL_CIS : c \notin failed' => (c \in color' <=> c \in color)
  PROVE  ProtocolInv'
<1>1. FlightInv'
  BY NoFlightFacts DEF FlightInv
<1>2. ASSUME NEW c \in ALL_CIS PROVE CiInv(c)'
  <2>1. CiInv(c) /\ ~InReset(c)' /\ ~InReset(c) /\ (Waiting(c)' <=> Waiting(c)) /\ hw'[c] = hw[c]
    BY DEF ProtocolInv, InReset, Waiting
  <2>2. c \notin failed' => c \notin failed
    OBVIOUS
  <2> QED BY <2>1, <2>2 DEF CiInv
<1> QED BY <1>1, <1>2 DEF ProtocolInv

LEMMA CommitProtocol ==
  ASSUME ProtocolInv, pc = "run", NEW kind \in {"cmd", "discover", "reset"}, NEW frames \in [ALL_CIS -> Frames],
         NEW wait \in BOOLEAN, Commit(kind, frames, wait),
         \A c \in compute_ci_mask(frames) : kind = "reset" <=> frames[c].k = "reset"
  PROVE  ProtocolInv'
<1> DEFINE cis == compute_ci_mask(frames)
<1>1. cis \in SUBSET ALL_CIS
  BY DEF compute_ci_mask
<1>2. CASE Fail("DPU_ERR_INTERNAL", FALSE, {}) /\ UNCHANGED <<color, hw, failures>>
  <2>1. flight' = NoFlight /\ pc' = "run" /\ failed' = failed /\ UNCHANGED <<color, hw>>
    BY <1>2 DEF Fail
  <2> QED BY <2>1, GivenUpProtocol
<1>3. CASE color' = invert_color(cis) /\ Fail("DPU_ERR_DRIVER", Ignored(Head(prog)), cis) /\ UNCHANGED hw
  <2>1. flight' = NoFlight /\ pc' = "run" /\ failed' = failed \cup cis
    BY <1>3 DEF Fail
  <2>2. \A c \in ALL_CIS : c \notin failed' => (c \in color' <=> c \in color)
    BY <1>3, <2>1 DEF invert_color
  <2> QED BY <1>3, <2>1, <2>2, GivenUpProtocol
<1>4. CASE /\ color' = invert_color(cis)
           /\ hw' = [c \in ALL_CIS |->
                IF c \notin cis THEN hw[c]
                ELSE [hw[c] EXCEPT !.inbox = frames[c], !.collide = @ \/ hw[c].inbox # CI_EMPTY]]
           /\ flight' = [kind |-> kind, frames |-> frames, color |-> color \cap cis,
                         done |-> ALL_CIS \ cis, wait |-> wait, polls |-> 0,
                         expect |-> [c \in ALL_CIS |-> ci_fill_selected_dpu_mask(c)]]
           /\ pc' = "poll" /\ UNCHANGED <<prog, status, failed, lapsed, failures>>
  <2>1. /\ DOMAIN flight' = FlightFields /\ flight'.kind = kind /\ flight'.frames = frames
        /\ flight'.color = color \cap cis /\ flight'.done = ALL_CIS \ cis
    BY <1>4 DEF FlightFields
  <2>2. Sent' = cis
    BY <2>1 DEF Sent, compute_ci_mask
  <2>3. \A c \in cis : c \in color' <=> c \notin color
    BY <1>4 DEF invert_color
  <2>4. FlightInv'
    <3> HIDE DEF cis
    <3>1. \A c \in cis : kind = "reset" <=> frames[c].k = "reset"
      BY DEF cis
    <3> QED BY <1>4, <2>1, <2>2, <2>3, <3>1 DEF FlightInv
  <2>5. ASSUME NEW c \in ALL_CIS PROVE CiInv(c)'
    <3>1. CiInv(c) /\ ~InReset(c) /\ (c \notin failed => ~Waiting(c))
      BY DEF ProtocolInv, InReset, CiInv
    <3>2. CASE c \in cis
      <4>1. /\ DOMAIN hw'[c] = CiFields /\ hw'[c].color = hw[c].color /\ hw'[c].inbox = frames[c]
        BY <1>4, <3>1, <3>2 DEF CiInv, CiFields
      <4>2. Waiting(c)'
        BY <3>2, <4>1 DEF Waiting, compute_ci_mask
      <4>3. c \notin failed => (c \in color' <=> hw'[c].color = 1)
        BY <2>3, <3>1, <3>2, <4>1 DEF CiInv
      <4>4. hw'[c].color \in {0, 1}
        BY <3>1, <4>1 DEF CiInv
      <4> HIDE DEF cis
      <4> QED BY <1>4, <2>1, <2>2, <3>2, <4>1, <4>2, <4>3, <4>4 DEF CiInv
    <3>3. CASE c \notin cis
      <4>1. hw'[c] = hw[c] /\ (c \in color' <=> c \in color) /\ ~InReset(c)' /\ (Waiting(c)' <=> Waiting(c))
        BY <1>4, <2>2, <3>3 DEF invert_color, InReset, Waiting
      <4> HIDE DEF cis
      <4> QED BY <1>4, <2>2, <3>1, <3>3, <4>1 DEF CiInv
    <3> QED BY <3>2, <3>3
  <2>6. DOMAIN hw' = ALL_CIS
    BY <1>4
  <2> QED BY <2>4, <2>5, <2>6 DEF ProtocolInv
<1> QED BY <1>2, <1>3, <1>4 DEF Commit

-----------------------------------------------------------------------------
(* The steps of the program.                                               *)

LEMMA HeadFacts ==
  ASSUME NEW p, Safe(p), p # <<>>
  PROVE  /\ p \in Seq(Steps) /\ Head(p) = p[1] /\ Head(p) \in Steps /\ Tail(p) \in Seq(Steps) /\ Safe(Tail(p))
         /\ Head(p).op # "reset" => Head(p) \in PlainSteps
         /\ Head(p).op = "reset" => Head(p).frame.k = "reset" /\ Clears(Tail(p))
<1>1. p \in Seq(Steps) /\ 1 \in 1 .. Len(p) /\ Head(p) = p[1] /\ Head(p) \in Steps /\ Tail(p) \in Seq(Steps)
      /\ Len(Tail(p)) = Len(p) - 1 /\ \A i \in 1 .. Len(Tail(p)) : Tail(p)[i] = p[i + 1]
  BY DEF Safe
<1>2. p[1] \in PlainSteps \/ ResetAt(p, 1)
  BY <1>1 DEF Safe
<1>3. ASSUME ResetAt(p, 1) PROVE Clears(Tail(p))
  <2>1. Len(Tail(p)) >= 3 /\ Tail(p)[1] = p[1 + 1] /\ Tail(p)[2] = p[1 + 2] /\ Tail(p)[3] = p[1 + 3]
    BY <1>1, <1>3 DEF ResetAt
  <2> QED BY <1>3, <2>1 DEF ResetAt, Clears, ClearsNext
<1>4. Safe(Tail(p))
  BY SafeTail
<1> QED BY <1>1, <1>2, <1>3, <1>4 DEF ResetAt, PlainSteps

\* With a reset frame in the buffer only these steps can be next.
LEMMA DirtyFacts ==
  ASSUME ProgInv, pc = "run", prog # <<>>, Dirty
  PROVE  Head(prog).op = "send" \/ (Head(prog).op \in {"use", "cis"} /\ Clears(Tail(prog)))
<1>1. prog \in Seq(Steps) /\ Head(prog) = prog[1] /\ Len(prog) \in Nat
      /\ Len(Tail(prog)) = Len(prog) - 1 /\ \A i \in 1 .. Len(Tail(prog)) : Tail(prog)[i] = prog[i + 1]
  BY DEF ProgInv, Safe
<1>2. Clears(prog)
  BY DEF ProgInv
<1>3. CASE Len(prog) >= 2 /\ prog[1].op = "cis" /\ prog[2].op = "send"
  <2>1. Len(Tail(prog)) >= 1 /\ Tail(prog)[1] = prog[2]
    BY <1>1, <1>3
  <2> QED BY <1>1, <1>3, <2>1 DEF Clears
<1>4. CASE ClearsNext(prog)
  <2>1. Len(Tail(prog)) >= 2 /\ Tail(prog)[1] = prog[2] /\ Tail(prog)[2] = prog[3]
    BY <1>1, <1>4 DEF ClearsNext
  <2> QED BY <1>1, <1>4, <2>1 DEF Clears, ClearsNext
<1> QED BY <1>1, <1>2, <1>3, <1>4 DEF Clears

LEMMA InitInv == Init => Inv
<1> SUFFICES ASSUME Init PROVE ProgInv
  BY InitProtocol DEF Inv
<1>1. CI_EMPTY \in Frames /\ CI_EMPTY.k # "reset"
  BY FrameTypes DEF PlainFrames
<1>2. Safe(<<>>)
  BY PlainIsSafe, PlainConcat
<1>3. cmds \in [ALL_CIS -> Frames] /\ ~Dirty
  BY <1>1 DEF Init, Empty, Dirty
<1> QED BY <1>2, <1>3 DEF Init, ProgInv

LEMMA ContinueInv ==
  ASSUME Inv, pc = "run", prog # <<>>, NEW steps \in Plain, Continue(steps), mask' \in SUBSET Int,
         cmds' \in [ALL_CIS -> Frames], Dirty' => Dirty,
         Head(prog).op # "send", Head(prog).op \in {"use", "cis"} => steps = <<>>
  PROVE  Inv'
<1>1. ProtocolInv'
  BY ProtocolUnchanged DEF Inv, Continue
<1>2. Safe(prog) /\ Safe(Tail(prog)) /\ Tail(prog) \in Seq(Steps)
  BY HeadFacts DEF Inv, ProgInv
<1>3. Safe(prog') /\ pc' = "run"
  BY <1>2, SafeAfterPlain DEF Continue
<1>4. ASSUME Dirty' PROVE Clears(prog')
  <2>1. Head(prog).op \in {"use", "cis"} /\ Clears(Tail(prog))
    BY <1>4, DirtyFacts DEF Inv
  <2>2. prog' = Tail(prog)
    BY <1>2, <2>1 DEF Continue
  <2> QED BY <2>1, <2>2
<1>5. ProgInv'
  BY <1>3, <1>4 DEF ProgInv
<1> QED BY <1>1, <1>5 DEF Inv

LEMMA CommitInv ==
  ASSUME Inv, pc = "run", prog # <<>>, NEW kind \in {"cmd", "discover", "reset"}, NEW frames \in [ALL_CIS -> Frames],
         NEW wait \in BOOLEAN, Commit(kind, frames, wait), kind = "reset" <=> Head(prog).op = "reset",
         \A c \in compute_ci_mask(frames) : kind = "reset" <=> frames[c].k = "reset",
         wait => kind # "reset", UNCHANGED mask, cmds' \in [ALL_CIS -> Frames], Dirty' => kind = "reset"
  PROVE  Inv'
<1>1. ProtocolInv'
  BY CommitProtocol DEF Inv
<1>2. Safe(prog) /\ Safe(Tail(prog)) /\ Head(prog) = prog[1] /\ (kind = "reset" => Clears(Tail(prog)))
  BY HeadFacts DEF Inv, ProgInv
<1>3. Safe(<<>>)
  BY PlainIsSafe, PlainConcat
<1>4. mask' \in SUBSET Int
  BY DEF Inv, ProgInv
<1>5. CASE wait /\ Fail("DPU_ERR_INTERNAL", FALSE, {})
  <2>1. pc' = "run" /\ prog' = <<>> /\ ~Dirty'
    BY <1>5 DEF Fail
  <2> QED BY <1>1, <1>3, <1>4, <2>1 DEF Inv, ProgInv
<1>6. CASE /\ flight' = [kind |-> kind, frames |-> frames, color |-> color \cap compute_ci_mask(frames),
                         done |-> ALL_CIS \ compute_ci_mask(frames), wait |-> wait, polls |-> 0,
                         expect |-> [c \in ALL_CIS |-> ci_fill_selected_dpu_mask(c)]]
           /\ pc' = "poll" /\ UNCHANGED <<prog, status, failed, lapsed, failures>>
  <2>1. flight'.kind = kind /\ pc' = "poll" /\ prog' = prog
    BY <1>6
  <2> QED BY <1>1, <1>2, <1>4, <2>1 DEF Inv, ProgInv
<1>7. CASE Fail("DPU_ERR_DRIVER", Ignored(Head(prog)), compute_ci_mask(frames))
  <2>1. pc' = "run" /\ (prog' = Tail(prog) \/ prog' = <<>>) /\ (kind = "reset" => prog' = Tail(prog))
    BY <1>7 DEF Fail, Ignored
  <2>2. Safe(prog') /\ (Dirty' => Clears(prog'))
    BY <1>2, <1>3, <2>1
  <2> QED BY <1>1, <1>4, <2>1, <2>2 DEF Inv, ProgInv
<1> QED BY <1>5, <1>6, <1>7 DEF Commit

\* The wait for an answer ends: the next step, or the end of the call.
LEMMA WaitEndsProg ==
  ASSUME Inv, pc = "poll", pc' = "run", UNCHANGED <<cmds, mask>>,
         prog' = Tail(prog) \/ (prog' = <<>> /\ flight.kind # "reset")
  PROVE  ProgInv'
<1>1. Safe(prog) /\ Safe(Tail(prog)) /\ Head(prog) = prog[1] /\ (Head(prog).op = "reset" => Clears(Tail(prog)))
  BY HeadFacts DEF Inv, ProgInv
<1>2. Safe(<<>>)
  BY PlainIsSafe, PlainConcat
<1>3. Dirty' => Dirty
  BY DEF Dirty
<1>4. Dirty => flight.kind = "reset" /\ prog[1].op = "reset"
  BY DEF Inv, ProgInv
<1>5. Safe(prog') /\ (Dirty' => Clears(prog'))
  BY <1>1, <1>2, <1>3, <1>4
<1> QED BY <1>5 DEF Inv, ProgInv

LEMMA PollInv ==
  ASSUME Inv, Poll
  PROVE  Inv'
<1>1. ProtocolInv'
  BY PollProtocol DEF Inv
<1>2. pc = "poll" /\ flight.kind = "cmd" /\ UNCHANGED <<cmds, mask>>
  BY DEF Poll
<1>3. CASE Finished \/ Timeout
  <2>1. pc' = "run" /\ (prog' = Tail(prog) \/ prog' = <<>>)
    BY <1>3 DEF Finished, Timeout, GiveUp, Fail
  <2> QED BY <1>1, <1>2, <2>1, WaitEndsProg DEF Inv
<1>4. CASE /\ flight' = [flight EXCEPT !.done = @ \cup {c \in Todo : ReadyUpTo(c)}, !.polls = @ + 1]
           /\ UNCHANGED <<hw, pc, prog, status, failed, lapsed, failures>>
  <2>1. flight'.kind = flight.kind
    BY <1>4 DEF Inv, ProtocolInv, FlightInv, FlightFields
  <2>2. Dirty' => Dirty
    BY <1>2 DEF Dirty
  <2> QED BY <1>1, <1>2, <1>4, <2>1, <2>2 DEF Inv, ProgInv
<1> QED BY <1>3, <1>4 DEF Poll

LEMMA WaitFailsInv ==
  ASSUME Inv, WaitFails
  PROVE  Inv'
<1>1. pc = "poll" /\ UNCHANGED <<color, cmds, mask>> /\ \E err : GiveUp(err)
  BY DEF WaitFails
<1>2. ProtocolInv'
  BY <1>1, GiveUpProtocol DEF Inv
<1>3. flight.kind = "reset" => Ignored(Head(prog))
  BY <1>1, HeadFacts DEF Inv, ProgInv, Ignored
<1>4. pc' = "run" /\ (prog' = Tail(prog) \/ (prog' = <<>> /\ flight.kind # "reset"))
  BY <1>1, <1>3 DEF GiveUp, Fail
<1> QED BY <1>1, <1>2, <1>4, WaitEndsProg DEF Inv

LEMMA UnreadableInv ==
  ASSUME Inv, NEW c \in ALL_CIS, Unreadable(c)
  PROVE  Inv'
<1>1. ProtocolInv'
  BY UnreadableProtocol DEF Inv
<1>2. /\ flight' = [flight EXCEPT !.done = @ \cup {b \in Todo : b <= c}, !.polls = @ + 1]
      /\ UNCHANGED <<cmds, mask, prog, pc>>
  BY DEF Unreadable
<1>3. flight'.kind = flight.kind
  BY <1>2 DEF Inv, ProtocolInv, FlightInv, FlightFields
<1>4. Dirty' => Dirty
  BY <1>2 DEF Dirty
<1> QED BY <1>1, <1>2, <1>3, <1>4 DEF Inv, ProgInv

LEMMA ExecuteInv ==
  ASSUME Inv, NEW c \in ALL_CIS, Execute(c)
  PROVE  Inv'
<1>1. ProtocolInv'
  BY ExecuteProtocol DEF Inv
<1>2. UNCHANGED <<cmds, mask, prog, pc, flight>>
  BY DEF Execute
<1>3. Dirty' => Dirty
  BY <1>2 DEF Dirty
<1> QED BY <1>1, <1>2, <1>3 DEF Inv, ProgInv

LEMMA ResetsInv ==
  ASSUME Inv, wait_for_byte_discovery \/ ci_exec_reset_cmd
  PROVE  Inv'
<1>1. ProtocolInv'
  BY DiscoveryProtocol, ResetProtocol DEF Inv
<1>2. pc = "poll" /\ pc' = "run" /\ prog' = Tail(prog) /\ UNCHANGED <<cmds, mask>>
  BY DEF wait_for_byte_discovery, ci_exec_reset_cmd, Finished
<1> QED BY <1>1, <1>2, WaitEndsProg DEF Inv

LEMMA CallInv ==
  ASSUME Inv, NEW k \in Calls, Call(k)
  PROVE  Inv'
<1>1. pc = "idle" /\ pc' = "run" /\ prog' = Script(k) /\ UNCHANGED <<color, flight, hw, failed, cmds, mask>>
  BY DEF Call
<1>2. flight' = NoFlight
  BY <1>1 DEF Inv, ProtocolInv, FlightInv
<1>3. ProtocolInv'
  BY <1>1, <1>2, GivenUpProtocol DEF Inv
<1>4. ~Dirty'
  BY <1>1 DEF Inv, ProgInv, Dirty
<1>5. Safe(prog')
  BY <1>1, ScriptsSafe
<1> QED BY <1>1, <1>3, <1>4, <1>5 DEF Inv, ProgInv

LEMMA ReturnInv ==
  ASSUME Inv, Return
  PROVE  Inv'
<1>1. pc = "run" /\ prog = <<>> /\ pc' = "idle" /\ UNCHANGED <<color, flight, hw, failed, cmds, mask, prog>>
  BY DEF Return
<1>2. flight' = NoFlight
  BY <1>1 DEF Inv, ProtocolInv, FlightInv
<1>3. ProtocolInv'
  BY <1>1, <1>2, GivenUpProtocol DEF Inv
<1>4. ~Dirty'
  BY <1>1 DEF Inv, ProgInv, Dirty, Clears, ClearsNext
<1> QED BY <1>1, <1>3, <1>4 DEF Inv, ProgInv

\* The steps that send a command.
LEMMA CommandsInv ==
  ASSUME Inv, UFI_exec_write_structure \/ SendFrame \/ FillFrames \/ UFI_exec_write_structures \/ CommitFrames
  PROVE  Inv'
<1>1. pc = "run" /\ prog # <<>>
  BY DEF UFI_exec_write_structure, SendFrame, FillFrames, UFI_exec_write_structures, CommitFrames, At
<1>2. Head(prog) \in Steps /\ (Head(prog).op # "reset" => Frm \in PlainFrames) /\ (Head(prog).op = "reset" => Frm.k = "reset")
  BY <1>1, HeadFacts DEF Inv, ProgInv, Frm, PlainSteps
<1>3. Frm \in Frames
  BY <1>2 DEF Frm, Steps
<1>4. cmds \in [ALL_CIS -> Frames] /\ mask \in SUBSET Int
  BY DEF Inv, ProgInv
<1>5. CI_EMPTY \in PlainFrames /\ (\A f \in PlainFrames : f \in Frames /\ f.k # "reset") /\ CI_EMPTY.k # "reset"
      /\ \A f \in Frames : f.k # "reset" => f \in PlainFrames
  BY FrameTypes DEF PlainFrames
<1>6. <<>> \in Plain /\ "cmd" \in {"cmd", "discover", "reset"} /\ FALSE \in BOOLEAN
  BY PlainConcat
<1>7. Head(prog).op \notin {"use", "cis", "send"} => \A c \in ALL_CIS : cmds[c] \in PlainFrames
  BY <1>1, <1>4, <1>5, DirtyFacts DEF Inv, Dirty
<1>8. CASE UFI_exec_write_structure
  <2> DEFINE frames == [c \in ALL_CIS |-> IF c \in mask THEN Frm ELSE CI_EMPTY]
  <2>1. Head(prog).op = "structure" /\ UNCHANGED mask
    BY <1>8 DEF UFI_exec_write_structure, At
  <2>2. CASE cmds' = frames /\ Commit("cmd", frames, FALSE)
    <3>1. frames \in [ALL_CIS -> Frames] /\ \A c \in ALL_CIS : frames[c].k # "reset"
      BY <1>2, <1>5, <2>1
    <3> HIDE DEF frames
    <3>2. ~Dirty' /\ \A c \in compute_ci_mask(frames) : frames[c].k # "reset"
      BY <2>2, <3>1 DEF Dirty, compute_ci_mask
    <3> QED BY <1>1, <1>6, <2>1, <2>2, <3>1, <3>2, CommitInv
  <2>3. CASE Continue(<<>>) /\ UNCHANGED cmds
    <3>1. Dirty' => Dirty
      BY <2>3 DEF Dirty
    <3> QED BY <1>1, <1>4, <1>6, <2>1, <2>3, <3>1, ContinueInv
  <2> QED BY <1>8, <2>2, <2>3 DEF UFI_exec_write_structure
<1>9. CASE SendFrame
  <2> DEFINE frames == [c \in ALL_CIS |-> IF c \in mask THEN Frm ELSE CI_EMPTY]
             kind == IF Head(prog).op \in {"discover", "reset"} THEN Head(prog).op ELSE "cmd"
  <2>1. Head(prog).op \in {"send", "sendignored", "discover", "reset"} /\ UNCHANGED mask /\ cmds' = frames
        /\ Commit(kind, frames, FALSE)
    BY <1>9 DEF SendFrame, At
  <2>2. frames \in [ALL_CIS -> Frames] /\ \A c \in ALL_CIS : frames[c] = CI_EMPTY \/ (Head(prog).op = "reset" <=> frames[c].k = "reset")
    BY <1>2, <1>3, <1>5
  <2>3. kind \in {"cmd", "discover", "reset"} /\ (kind = "reset" <=> Head(prog).op = "reset")
    OBVIOUS
  <2> HIDE DEF frames, kind
  <2>4. \A c \in compute_ci_mask(frames) : kind = "reset" <=> frames[c].k = "reset"
    BY <2>2, <2>3 DEF compute_ci_mask
  <2>5. Dirty' => kind = "reset"
    BY <1>5, <2>1, <2>2, <2>3 DEF Dirty
  <2> QED BY <1>1, <1>6, <2>1, <2>2, <2>3, <2>4, <2>5, CommitInv
<1>10. CASE FillFrames
  <2> DEFINE frames == [c \in ALL_CIS |-> IF c \in mask THEN Frm ELSE cmds[c]]
             wait == Head(prog).op = "fillwait"
  <2>1. Head(prog).op \in {"fill", "fillwait"} /\ UNCHANGED mask /\ cmds' = frames /\ Commit("cmd", frames, wait)
    BY <1>10 DEF FillFrames, At
  <2>2. \A c \in ALL_CIS : frames[c] \in PlainFrames
    BY <1>2, <1>7, <2>1
  <2>3. frames \in [ALL_CIS -> Frames] /\ \A c \in ALL_CIS : frames[c].k # "reset"
    BY <1>5, <2>2
  <2>4. wait \in BOOLEAN
    OBVIOUS
  <2> HIDE DEF frames, wait
  <2>5. ~Dirty' /\ \A c \in compute_ci_mask(frames) : frames[c].k # "reset"
    BY <2>1, <2>3 DEF Dirty, compute_ci_mask
  <2> QED BY <1>1, <1>6, <2>1, <2>3, <2>4, <2>5, CommitInv
<1>11. CASE UFI_exec_write_structures
  <2> DEFINE frames == [c \in ALL_CIS |-> IF c \in Head(prog).cis THEN Structure(cmds[c].s) ELSE CI_EMPTY]
  <2>1. Head(prog).op = "structures" /\ UNCHANGED <<mask, cmds>>
    BY <1>11 DEF UFI_exec_write_structures, At
  <2>2. CASE Commit("cmd", frames, FALSE)
    <3>1. \A c \in ALL_CIS : cmds[c].s \in Structures
      BY <1>4 DEF Frames
    <3>2. \A c \in ALL_CIS : frames[c] \in PlainFrames
      BY <1>5, <3>1, FrameTypes
    <3>3. frames \in [ALL_CIS -> Frames] /\ \A c \in ALL_CIS : frames[c].k # "reset"
      BY <1>5, <3>2
    <3> HIDE DEF frames
    <3>4. ~Dirty' /\ cmds' \in [ALL_CIS -> Frames]
      BY <1>4, <1>5, <1>7, <2>1 DEF Dirty
    <3>5. \A c \in compute_ci_mask(frames) : frames[c].k # "reset"
      BY <3>3 DEF compute_ci_mask
    <3> QED BY <1>1, <1>6, <2>1, <2>2, <3>3, <3>4, <3>5, CommitInv
  <2>3. CASE Continue(<<>>)
    <3>1. Dirty' => Dirty
      BY <2>1 DEF Dirty
    <3> QED BY <1>1, <1>4, <1>6, <2>1, <2>3, <3>1, ContinueInv
  <2> QED BY <1>11, <2>2, <2>3 DEF UFI_exec_write_structures
<1>12. CASE CommitFrames
  <2>1. Head(prog).op = "commit" /\ UNCHANGED <<mask, cmds>> /\ Commit("cmd", cmds, FALSE)
    BY <1>12 DEF CommitFrames, At
  <2>2. \A c \in ALL_CIS : cmds[c].k # "reset"
    BY <1>5, <1>7, <2>1
  <2>3. ~Dirty' /\ \A c \in compute_ci_mask(cmds) : cmds[c].k # "reset"
    BY <2>1, <2>2 DEF Dirty, compute_ci_mask
  <2>4. cmds' \in [ALL_CIS -> Frames]
    BY <1>4, <2>1
  <2> QED BY <1>1, <1>4, <1>6, <2>1, <2>3, <2>4, CommitInv
<1> QED BY <1>8, <1>9, <1>10, <1>11, <1>12

\* The steps that only keep the books.
LEMMA BooksInv ==
  ASSUME Inv, \/ UseMask \/ SelectCis \/ SelectUncached \/ WriteGroup \/ save_enabled_dpus \/ RepairLine
              \/ RestoreEnabled \/ DisableOne
  PROVE  Inv'
<1>1. /\ pc = "run" /\ prog # <<>> /\ Head(prog).op # "send" /\ Continue(<<>>) /\ UNCHANGED cmds
      /\ mask' \in {mask, Head(prog).cis, {c \in mask : EnabledOf(c) # {}}}
  BY DEF UseMask, SelectCis, SelectUncached, WriteGroup, save_enabled_dpus, RepairLine, RestoreEnabled, DisableOne,
         At, Kept, Frozen
<1>2. Head(prog) \in Steps /\ mask \in SUBSET Int /\ cmds \in [ALL_CIS -> Frames]
  BY <1>1, HeadFacts DEF Inv, ProgInv
<1>3. mask' \in SUBSET Int
  BY <1>1, <1>2 DEF Steps
<1>4. (Dirty' => Dirty) /\ <<>> \in Plain
  BY <1>1, PlainConcat DEF Dirty
<1> QED BY <1>1, <1>2, <1>3, <1>4, ContinueInv

LEMMA AnyLeftInv ==
  ASSUME Inv, AnyLeft
  PROVE  Inv'
<1>1. pc = "run" /\ prog # <<>> /\ Head(prog).op = "anyleft" /\ UNCHANGED <<cmds, mask>>
  BY DEF AnyLeft, At, Kept
<1>2. mask \in SUBSET Int /\ cmds \in [ALL_CIS -> Frames] /\ (Dirty' => Dirty) /\ <<>> \in Plain
  BY <1>1, PlainConcat DEF Inv, ProgInv, Dirty
<1>3. CASE Continue(<<>>)
  BY <1>1, <1>2, <1>3, ContinueInv
<1>4. CASE Fail("DPU_ERR_CORRUPTED_MEMORY", FALSE, {}) /\ UNCHANGED <<color, hw, failures>>
  <2>1. pc' = "run" /\ prog' = <<>> /\ flight' = NoFlight /\ failed' = failed /\ UNCHANGED <<color, hw>>
    BY <1>4 DEF Fail
  <2>2. ProtocolInv'
    BY <1>1, <2>1, GivenUpProtocol DEF Inv
  <2>3. ~Dirty
    BY <1>1, DirtyFacts DEF Inv
  <2>4. Safe(<<>>)
    BY PlainIsSafe, PlainConcat
  <2> QED BY <1>1, <1>2, <2>1, <2>2, <2>3, <2>4 DEF Inv, ProgInv
<1> QED BY <1>3, <1>4 DEF AnyLeft

\* One frame per CI: they are of the selections, and are sent by steps to come.
LEMMA SelectEachInv ==
  ASSUME Inv, pc = "run", prog # <<>>, Head(prog).op \notin {"use", "cis", "send"},
         NEW need \in SUBSET Int, NEW target, \A c \in ALL_CIS : target[c].type \in Selections /\ target[c].id \in Int,
         SelectEach(need, target), mask' \in SUBSET Int
  PROVE  Inv'
<1>1. cmds \in [ALL_CIS -> Frames]
  BY DEF Inv, ProgInv
<1>2. \A c \in ALL_CIS : CI_SELECT(target[c].type, target[c].id) \in Frames /\ CI_SELECT(target[c].type, target[c].id).k # "reset"
  BY FrameTypes DEF PlainFrames
<1>3. cmds' \in [ALL_CIS -> Frames]
  BY <1>1, <1>2 DEF SelectEach
<1>4. Dirty' => Dirty
  BY <1>2 DEF SelectEach, Dirty
<1> DEFINE steps == IF need = {} THEN <<>>
                    ELSE <<Step("structures", CI_EMPTY, 0, need), Step("commit", CI_EMPTY, 0, {})>>
<1>5. "structures" \in StepNames /\ "commit" \in StepNames /\ {} \in SUBSET Int /\ 0 \in Int /\ CI_EMPTY \in PlainFrames
  BY FrameTypes DEF StepNames
<1>6. Step("structures", CI_EMPTY, 0, need) \in PlainSteps /\ Step("commit", CI_EMPTY, 0, {}) \in PlainSteps
  BY <1>5, StepTypes
<1>7. steps \in Plain
  BY <1>6, PlainConcat
<1>8. Continue(steps)
  BY DEF SelectEach
<1> HIDE DEF steps
<1> QED BY <1>3, <1>4, <1>7, <1>8, ContinueInv

\* One frame for the mask.
LEMMA SelectSameInv ==
  ASSUME Inv, pc = "run", prog # <<>>, Head(prog).op \notin {"use", "cis", "send"},
         NEW cis \in SUBSET Int, NEW type \in Selections, NEW id \in Int, SelectSame(cis, Target(type, id))
  PROVE  Inv'
<1>1. cmds \in [ALL_CIS -> Frames]
  BY DEF Inv, ProgInv
<1>2. Target(type, id).type = type /\ Target(type, id).id = id
  BY DEF Target
<1>3. "target" \in Structures
  BY DEF Structures
<1>4. WriteStructure("target") \in PlainSteps /\ Send(CI_SELECT(type, id)) \in PlainSteps
  BY <1>3, FrameTypes, StepTypes
<1>5. PICK steps \in {<<>>, <<WriteStructure("target"), Send(CI_SELECT(type, id))>>} : Continue(steps)
  BY <1>2 DEF SelectSame
<1>6. steps \in Plain
  BY <1>4, <1>5, PlainConcat
<1>7. UNCHANGED cmds /\ mask' = cis
  BY DEF SelectSame
<1>8. cmds' \in [ALL_CIS -> Frames] /\ mask' \in SUBSET Int /\ (Dirty' => Dirty)
  BY <1>1, <1>7 DEF Dirty
<1> QED BY <1>5, <1>6, <1>8, ContinueInv

LEMMA SelectionsInv ==
  ASSUME Inv, SelectAll \/ SelectAllEvenDisabled \/ SelectGroup \/ SelectDpu \/ SelectDpuEvenDisabled
  PROVE  Inv'
<1>1. pc = "run" /\ prog # <<>> /\ Head(prog).op \notin {"use", "cis", "send"}
  BY DEF SelectAll, SelectAllEvenDisabled, SelectGroup, SelectDpu, SelectDpuEvenDisabled, At
<1>2. Arg \in Int /\ mask \in SUBSET Int
  BY <1>1, HeadFacts DEF Inv, ProgInv, Arg, Steps
<1>3. "all" \in Selections /\ "dpu" \in Selections /\ "group" \in Selections /\ 0 \in Int /\ DPU_ENABLED_GROUP \in Int
  BY DEF Selections, DPU_ENABLED_GROUP
<1>4. CASE SelectAll
  <2> DEFINE target == [c \in ALL_CIS |-> IF slice[c].all_dpus_are_enabled THEN Target("all", 0)
                                          ELSE Target("group", DPU_ENABLED_GROUP)]
  <2>1. \A c \in ALL_CIS : target[c].type \in Selections /\ target[c].id \in Int
    BY <1>3 DEF Target
  <2>2. \E need \in SUBSET mask, none \in SUBSET mask : mask' = mask \ none /\ SelectEach(need, target)
    <3> HIDE DEF target
    <3> DEFINE differs == {c \in mask : slice[c].target.type # target[c].type
                                     \/ (target[c].type = "group" /\ slice[c].target.id # target[c].id)}
               none == {c \in differs : ~slice[c].all_dpus_are_enabled /\ EnabledOf(c) = {}}
    <3>1. mask' = mask \ none /\ SelectEach(differs \ none, target)
      BY <1>4 DEF SelectAll, target
    <3>2. differs \ none \in SUBSET mask /\ none \in SUBSET mask
      OBVIOUS
    <3> HIDE DEF differs, none
    <3> QED BY <3>1, <3>2
  <2> HIDE DEF target
  <2>3. PICK need \in SUBSET mask, none \in SUBSET mask : mask' = mask \ none /\ SelectEach(need, target)
    BY <2>2
  <2>4. need \in SUBSET Int /\ mask' \in SUBSET Int
    BY <1>2, <2>3
  <2> QED BY <1>1, <2>1, <2>3, <2>4, SelectEachInv
<1>5. CASE SelectAllEvenDisabled
  <2> DEFINE target == [c \in ALL_CIS |-> Target("all", 0)]
             need == {c \in mask' : slice[c].target.type # "all"}
  <2>1. \A c \in ALL_CIS : target[c].type \in Selections /\ target[c].id \in Int
    BY <1>3 DEF Target
  <2>2. mask' = {c \in mask : EnabledOf(c) # {}} /\ SelectEach(need, target)
    BY <1>5 DEF SelectAllEvenDisabled
  <2>3. need \in SUBSET Int /\ mask' \in SUBSET Int
    BY <1>2, <2>2
  <2> HIDE DEF target, need
  <2> QED BY <1>1, <2>1, <2>2, <2>3, SelectEachInv
<1>6. CASE SelectGroup \/ SelectDpu \/ SelectDpuEvenDisabled
  <2>1. PICK cis \in SUBSET mask, type \in Selections : SelectSame(cis, Target(type, Arg))
    <3>1. {c \in mask : slice[c].dpus_per_group[Arg] # {}} \in SUBSET mask /\ {c \in mask : Arg \in EnabledOf(c)} \in SUBSET mask
          /\ {c \in mask : EnabledOf(c) # {}} \in SUBSET mask
      OBVIOUS
    <3> QED BY <1>3, <1>6, <3>1 DEF SelectGroup, SelectDpu, SelectDpuEvenDisabled
  <2>2. cis \in SUBSET Int
    BY <1>2, <2>1
  <2> QED BY <1>1, <1>2, <2>1, <2>2, SelectSameInv
<1> QED BY <1>4, <1>5, <1>6

LEMMA InitGroupsInv ==
  ASSUME Inv, InitGroups
  PROVE  Inv'
<1> DEFINE full == {c \in ALL_CIS : save[c].all}
           part == {p \in AllDpus : p[1] \notin full /\ save[p[1]].on # {}}
           GroupOf(p) == IF p[2] \in save[p[1]].on THEN DPU_ENABLED_GROUP ELSE DPU_DISABLED_GROUP
           script == [p \in part |-> <<Use({p[1]})>> \o ufi_select_dpu(p[2]) \o ufi_write_group(GroupOf(p))]
           all == IF full = {} THEN <<>>
                  ELSE <<Use(full)>> \o ufi_select_all \o ufi_write_group(DPU_ENABLED_GROUP)
<1>1. /\ pc = "run" /\ prog # <<>> /\ Head(prog).op = "initgroups" /\ UNCHANGED <<cmds, mask>>
      /\ Continue(PerDpu(part, script) \o all \o <<Step("restore", CI_EMPTY, 0, {})>>)
  BY DEF InitGroups, At, Kept
<1>2. cmds \in [ALL_CIS -> Frames] /\ mask \in SUBSET Int /\ (Dirty' => Dirty)
  BY <1>1 DEF Inv, ProgInv, Dirty
<1>3. DPU_ENABLED_GROUP \in Int /\ DPU_DISABLED_GROUP \in Int /\ "restore" \in StepNames /\ {} \in SUBSET Int /\ 0 \in Int
  BY DEF DPU_ENABLED_GROUP, DPU_DISABLED_GROUP, StepNames
<1>4. ASSUME NEW p \in part PROVE script[p] \in Plain
  <2>1. {p[1]} \in SUBSET Int /\ p[2] \in Int /\ GroupOf(p) \in Int
    BY <1>3, Numbers DEF AllDpus
  <2>2. <<Use({p[1]})>> \in Plain /\ ufi_select_dpu(p[2]) \in Plain /\ ufi_write_group(GroupOf(p)) \in Plain
    <3> HIDE DEF GroupOf
    <3> QED BY <2>1, UsePlain, UfiPlain
  <2>3. script[p] = <<Use({p[1]})>> \o ufi_select_dpu(p[2]) \o ufi_write_group(GroupOf(p))
    OBVIOUS
  <2> HIDE DEF script, GroupOf
  <2> QED BY <2>2, <2>3, PlainConcat
<1>5. all \in Plain
  <2>1. full \in SUBSET Int
    BY Numbers
  <2> HIDE DEF full
  <2>2. <<Use(full)>> \in Plain /\ ufi_select_all \in Plain /\ ufi_write_group(DPU_ENABLED_GROUP) \in Plain
    BY <1>3, <2>1, UsePlain, UfiPlain
  <2> QED BY <2>2, PlainConcat
<1>6. <<Step("restore", CI_EMPTY, 0, {})>> \in Plain
  BY <1>3, StepTypes, FrameTypes, PlainConcat
<1> HIDE DEF script, all, part
<1>7. PerDpu(part, script) \in Plain
  BY <1>4, PerDpuPlain
<1>8. PerDpu(part, script) \o all \o <<Step("restore", CI_EMPTY, 0, {})>> \in Plain
  BY <1>5, <1>6, <1>7, PlainConcat
<1> QED BY <1>1, <1>2, <1>8, ContinueInv

-----------------------------------------------------------------------------

LEMMA NextInv == Inv /\ [Next]_vars => Inv'
<1> SUFFICES ASSUME Inv, [Next]_vars PROVE Inv'
  OBVIOUS
<1>1. CASE UNCHANGED vars
  <2>1. UNCHANGED <<color, flight, pc, hw, failed, prog, cmds, mask>>
    BY <1>1 DEF vars
  <2>2. (Dirty' => Dirty) /\ ProtocolInv'
    BY <2>1, ProtocolUnchanged DEF Dirty, Inv
  <2> QED BY <2>1, <2>2 DEF Inv, ProgInv
<1>2. CASE \E c \in ALL_CIS : Execute(c) \/ Unreadable(c)
  BY <1>2, ExecuteInv, UnreadableInv
<1>3. CASE \E k \in Calls : Call(k)
  BY <1>3, CallInv
<1>4. CASE Poll \/ WaitFails \/ wait_for_byte_discovery \/ ci_exec_reset_cmd \/ Return
  BY <1>4, PollInv, WaitFailsInv, ResetsInv, ReturnInv
<1>5. CASE UFI_exec_write_structure \/ SendFrame \/ FillFrames \/ UFI_exec_write_structures \/ CommitFrames
  BY <1>5, CommandsInv
<1>6. CASE SelectAll \/ SelectAllEvenDisabled \/ SelectGroup \/ SelectDpu \/ SelectDpuEvenDisabled
  BY <1>6, SelectionsInv
<1>7. CASE \/ UseMask \/ SelectCis \/ SelectUncached \/ WriteGroup \/ save_enabled_dpus \/ RepairLine
           \/ RestoreEnabled \/ DisableOne \/ AnyLeft \/ InitGroups
  BY <1>7, BooksInv, AnyLeftInv, InitGroupsInv
<1>8. CASE Quiet
  BY <1>1, <1>8 DEF Quiet
<1> QED BY <1>1, <1>2, <1>3, <1>4, <1>5, <1>6, <1>7, <1>8 DEF Next

\* A command that the host takes for answered was answered (ufi_ci.c:
\* expected_color, invert_color, ci_exec_reset_cmd): whatever the calls, their
\* lengths and the DPUs they are for, and however often a commit fails, an
\* answer is late or a colour cannot be read.
THEOREM AnswersFresh == Spec => []AnswerIsFresh
<1>1. Inv => AnswerIsFresh
  <2> SUFFICES ASSUME Inv, NEW c \in Sent, flight.kind = "cmd", c \in flight.done, c \notin failed
               PROVE  hw[c].inbox = CI_EMPTY /\ hw[c].last = flight.frames[c]
    BY DEF AnswerIsFresh, Sent
  <2>1. c \in ALL_CIS
    BY DEF Sent, compute_ci_mask
  <2>2. pc = "poll"
    BY NoFlightFacts DEF Inv, ProtocolInv, FlightInv
  <2>3. CiInv(c)
    BY <2>1 DEF Inv, ProtocolInv
  <2> QED BY <2>2, <2>3 DEF CiInv, Waiting
<1> QED BY <1>1, InitInv, NextInv, PTL DEF Spec

\* What the host relies on besides: a CI whose commands were all answered has
\* a command left only while the host waits for that CI, so that no command
\* replaces one the CI has not taken (ufi_ci.c: exec_cmd, determine_if_commands_are_finished).
THEOREM CommandsNeverCollide == Spec => []NoneLost
<1>1. Inv => NoneLost
  BY DEF Inv, ProtocolInv, CiInv, Waiting, Sent, Todo, NoneLost
<1> QED BY <1>1, InitInv, NextInv, PTL DEF Spec

\* The reset frame of ci_exec_reset_cmd stays in the command buffer of the
\* rank, and ufi_select_all fills in only some entries of that buffer; no
\* command but a reset ever sends a reset frame (ufi.c: ufi_soft_reset).
THEOREM ResetsStayResets == Spec => []ResetOnlyInReset
<1>1. Inv => ResetOnlyInReset
  <2> SUFFICES ASSUME Inv, NEW c \in Sent, flight.frames[c].k = "reset" PROVE flight.kind = "reset"
    BY DEF ResetOnlyInReset, Sent
  <2>1. pc = "poll"
    BY NoFlightFacts DEF Inv, ProtocolInv, FlightInv, Sent
  <2> QED BY <2>1 DEF Inv, ProtocolInv, FlightInv
<1> QED BY <1>1, InitInv, NextInv, PTL DEF Spec
==============================================================================
