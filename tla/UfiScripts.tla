------------------------------ MODULE UfiScripts ------------------------------
(***************************************************************************)
(* What the functions of ufi.c, ufi_config.c, ufi_memory.c and ufi_runner.c*)
(* ask of the control interfaces, as sequences of steps.  Ufi runs them.   *)
(*                                                                         *)
(* A step names the piece of code it stands for; the CI mask a function    *)
(* passes on is a register that Use sets and the selections narrow.  A     *)
(* frame is what one CI is sent: the structure it is decoded with, and     *)
(* what it does.  Structures have the same name where the macros of        *)
(* ufi_ci_commands.h have the same value.  Values, register numbers and    *)
(* addresses are left out, except for the part of an IRAM address that is  *)
(* in the structure.                                                       *)
(***************************************************************************)
EXTENDS Integers, SequencesExt

CONSTANTS NrCis, NrDpus      \* nr_of_control_interfaces, nr_of_dpus_per_...

ALL_CIS == 0 .. (NrCis - 1)
Dpus == 0 .. (NrDpus - 1)
DPU_ENABLED_GROUP == 0
DPU_DISABLED_GROUP == 1

(* Bounds: loops of one kind of command over WRAM banks, run bits, threads *)
(* and registers are entered this often.                                   *)
NR_OF_WRAM_BANKS == 1
NrRunBits == 1
NrThreads == 1
NrRegisters == 1

-----------------------------------------------------------------------------
(* Frames and steps.                                                       *)

Frame(k, s, v) == [k |-> k, s |-> s, v |-> v, id |-> 0]
CI_EMPTY == Frame("empty", "none", "none")
Structure(s) == Frame("structure", s, "none")
Raw(v) == Frame("raw", "none", v)
Op(s, v) == Frame("op", s, v)
CI_SELECT(t, id) == [Frame("select", IF t = "all" THEN "plain" ELSE "target", t) EXCEPT !.id = id]
CI_WRITE_GROUP(g) == [Frame("group", "target", "group") EXCEPT !.id = g]

Step(op, frame, arg, cis) == [op |-> op, frame |-> frame, arg |-> arg, cis |-> cis]
Use(cis) == Step("use", CI_EMPTY, 0, cis)
WriteStructure(s) == Step("structure", Structure(s), 0, {})
\* ci_prepare_mask, then the command; wait: ci_exec_wait_mask_cmd.
Send(frame) == Step("send", frame, 0, {})
\* The entries of the mask are filled in, the others keep what they hold.
Fill(frame) == Step("fill", frame, 0, {})
FillWait(frame) == Step("fillwait", frame, 0, {})

ufi_select_cis == <<Step("cis", CI_EMPTY, 0, {})>>
ufi_select_all == <<Step("all", CI_SELECT("all", 0), 0, {})>>
ufi_select_all_uncached == <<Step("alluncached", CI_SELECT("all", 0), 0, {}), WriteStructure("plain"),
                             Send(CI_SELECT("all", 0))>>
ufi_select_all_even_disabled == <<Step("alleven", CI_SELECT("all", 0), 0, {})>>
ufi_select_group(g) == <<Step("selectgroup", CI_SELECT("group", g), g, {})>>
ufi_select_group_uncached(g) == <<Step("groupuncached", CI_SELECT("group", g), g, {}),
                                  WriteStructure("target"), Send(CI_SELECT("group", g))>>
ufi_select_dpu(d) == <<Step("dpu", CI_SELECT("dpu", d), d, {})>>
ufi_select_dpu_uncached(d) == <<Step("dpuuncached", CI_SELECT("dpu", d), d, {}),
                                WriteStructure("target"), Send(CI_SELECT("dpu", d))>>
ufi_select_dpu_even_disabled(d) == <<Step("dpueven", CI_SELECT("dpu", d), d, {})>>

\* UFI_exec_void_frame, UFI_exec_8bit_frame, UFI_exec_32bit_frame.
UFI_exec_frame(s, v) == <<WriteStructure(s), Send(Op(s, v))>>
\* A structure for the mask, then one frame per CI.
FilledFrame(s, v) == <<WriteStructure(s), Fill(Op(s, v))>>
Times(n, script) == FlattenSeq([i \in 1 .. n |-> script])

-----------------------------------------------------------------------------
(* ufi.c                                                                   *)

ufi_byte_order == <<Step("discover", Raw("byte_order"), 0, {})>>
ufi_soft_reset == <<Step("reset", Frame("reset", "none", "reset"), 0, {})>>
ufi_bit_config == <<Send(Raw("bit_order"))>>
ufi_identity == <<Send(Raw("identity"))>>
ufi_thermal_config == <<Step("sendignored", Raw("thermal"), 0, {})>>

ufi_write_group(g) == <<Step("group", CI_WRITE_GROUP(g), g, {}), WriteStructure("target"),
                        Send(CI_WRITE_GROUP(g))>>

ufi_carousel_config ==
  <<Send(Raw("cmd_duration"))>> \o UFI_exec_frame("target", "carousel")
    \o UFI_exec_frame("target", "carousel") \o UFI_exec_frame("plain", "carousel")
    \o <<Send(Raw("res_duration")), Send(Raw("res_sampling"))>>
    \o UFI_exec_frame("res_bus_duration", "carousel") \o UFI_exec_frame("plain", "carousel")

(* One structure and one frame: the clears, the reads and the boots.  Two  *)
(* of the clears are reads of which the result is dropped.                 *)
ufi_clear_debug_replace == UFI_exec_frame("plain", "clear_debug")
ufi_clear_fault_poison == UFI_exec_frame("plain", "clear_poison")
ufi_clear_fault_bkp == UFI_exec_frame("plain", "clear_bkp")
ufi_clear_fault_dma == UFI_exec_frame("plain", "read_clear_dma")
ufi_clear_fault_mem == UFI_exec_frame("plain", "read_clear_mem")
ufi_clear_fault_dpu == UFI_exec_frame("plain", "clear_fault")
ufi_clear_fault_intercept == UFI_exec_frame("plain", "read_bkp")
ufi_clear_run_bit == UFI_exec_frame("thread", "clear_run")
ufi_thread_boot == UFI_exec_frame("thread", "boot")
ufi_thread_resume == UFI_exec_frame("thread", "resume")
ufi_read_dpu_run == UFI_exec_frame("plain", "run")
ufi_read_dpu_fault == UFI_exec_frame("plain", "fault")
ufi_debug_pc_sample == UFI_exec_frame("sample_pc", "sample")
ufi_debug_pc_read == UFI_exec_frame("plain", "pc") \o UFI_exec_frame("plain", "pc")

ufi_iram_repair_config ==
  FilledFrame("irepair", "irepair") \o FilledFrame("irepair", "irepair")
    \o FilledFrame("irepair", "irepair") \o UFI_exec_frame("rf_timing", "irepair")

ufi_get_pc_mode == UFI_exec_frame("plain", "pc_mode")
ufi_set_pc_mode == FilledFrame("pc_mode_write", "set_pc_mode")
ufi_set_stack_direction == FilledFrame("plain", "stack")

ufi_write_dma_ctrl == UFI_exec_frame("dma_ctrl", "dma")
ufi_write_dma_ctrl_datas == FilledFrame("dma_ctrl", "dma")
ufi_read_dma_ctrl == UFI_exec_frame("plain", "dma_read")
ufi_clear_dma_ctrl == UFI_exec_frame("dma_ctrl", "dma_clear")
ufi_set_mram_mux ==
  ufi_write_dma_ctrl_datas \o ufi_write_dma_ctrl \o ufi_write_dma_ctrl_datas
    \o ufi_write_dma_ctrl_datas \o ufi_clear_dma_ctrl

ufi_wram_repair_config ==
  <<WriteStructure("dma_ctrl")>> \o Times(5, <<Fill(Op("dma_ctrl", "wrepair"))>>)
    \o UFI_exec_frame("dma_ctrl", "wrepair") \o ufi_clear_dma_ctrl

\* The upper byte of the address is in the structure; page 1 starts at 256.
IramPage(address) == IF address < 256 THEN "iram_page0" ELSE "iram_page1"
ufi_iram_write(offset, len) ==
  FlattenSeq([i \in 1 .. len |-> <<WriteStructure(IramPage(offset + i - 1)),
                                   FillWait(Op(IramPage(offset + i - 1), "iram"))>>])
ufi_iram_read(len) == Times(len, Times(6, UFI_exec_frame("iram_read", "iram_read")))
ufi_wram_write(len) == Times(len, <<WriteStructure("wram_write"), FillWait(Op("wram_write", "wram"))>>)
ufi_wram_read(len) == Times(len, UFI_exec_frame("thread", "wram_read"))

-----------------------------------------------------------------------------
(* ufi_memory.c and ufi_runner.c                                           *)

ci_copy_to_irams_rank(n) == <<Use(ALL_CIS)>> \o ufi_select_all \o ufi_iram_write(0, n)
ci_copy_to_irams_dpu(c, d, n) == <<Use({c})>> \o ufi_select_dpu(d) \o ufi_iram_write(0, n)
ci_copy_from_irams_dpu(c, d, n) == <<Use({c})>> \o ufi_select_dpu(d) \o ufi_iram_read(n)

\* The loops over the DPUs of a matrix: by CI, or by line.
PerDpu(dpus, script) ==
  FlattenSeq([i \in 1 .. NrCis |-> FlattenSeq([j \in 1 .. NrDpus |->
    IF <<i - 1, j - 1>> \in dpus THEN script[<<i - 1, j - 1>>] ELSE <<>>])])
LineOf(dpus, d) == {p[1] : p \in {q \in dpus : q[2] = d}}
PerLine(dpus, script) ==
  FlattenSeq([i \in 1 .. NrDpus |->
    IF LineOf(dpus, i - 1) = {} THEN <<>>
    ELSE <<Use(LineOf(dpus, i - 1))>> \o ufi_select_dpu(i - 1) \o script])

ci_copy_to_irams_matrix(dpus, n) == PerDpu(dpus, [p \in dpus |-> ci_copy_to_irams_dpu(p[1], p[2], n)])
ci_copy_from_irams_matrix(dpus, n) == PerDpu(dpus, [p \in dpus |-> ci_copy_from_irams_dpu(p[1], p[2], n)])
ci_copy_to_wrams_rank(n) == <<Use(ALL_CIS)>> \o ufi_select_all \o ufi_wram_write(n)
ci_copy_to_wrams_dpu(c, d, n) == <<Use({c})>> \o ufi_select_dpu(d) \o ufi_wram_write(n)
ci_copy_from_wrams_dpu(c, d, n) == <<Use({c})>> \o ufi_select_dpu(d) \o ufi_wram_read(n)
ci_copy_to_wrams_matrix(dpus, n) == PerLine(dpus, ufi_wram_write(n))
ci_copy_from_wrams_matrix(dpus, n) == PerLine(dpus, ufi_wram_read(n))

(* The mux switches of MramMux, when they have to be made; the status is   *)
(* right at the first read.                                                *)
MuxStatus(d) == <<Use(ALL_CIS)>> \o ufi_select_dpu_even_disabled(d)
dpu_check_wavegen_mux_status_for_dpu(d) ==
  MuxStatus(d) \o ufi_write_dma_ctrl \o ufi_clear_dma_ctrl \o ufi_read_dma_ctrl
host_handle_access_for_dpu(d) ==
  MuxStatus(d) \o ufi_set_mram_mux \o dpu_check_wavegen_mux_status_for_dpu(d)
host_handle_access_for_rank ==
  <<Use(ALL_CIS)>> \o ufi_select_all_even_disabled \o ufi_set_mram_mux
    \o <<Use(ALL_CIS)>> \o ufi_select_all_even_disabled \o ufi_write_dma_ctrl \o ufi_clear_dma_ctrl
    \o FlattenSeq([i \in 1 .. NrDpus |-> MuxStatus(i - 1) \o ufi_read_dma_ctrl])

ci_start_thread_rank(mux, resume) ==
  <<Use(ALL_CIS)>> \o ufi_select_all \o (IF mux THEN host_handle_access_for_rank ELSE <<>>)
    \o <<Use(ALL_CIS)>> \o ufi_select_all \o (IF resume THEN ufi_thread_resume ELSE ufi_thread_boot)
ci_start_thread_dpu(c, d, mux, resume) ==
  (IF mux THEN host_handle_access_for_dpu(d) ELSE <<>>)
    \o <<Use({c})>> \o ufi_select_dpu(d) \o (IF resume THEN ufi_thread_resume ELSE ufi_thread_boot)
ci_poll_rank == <<Use(ALL_CIS)>> \o ufi_select_all \o ufi_read_dpu_run \o ufi_read_dpu_fault
ci_sample_pc_dpu(c, d) == <<Use({c})>> \o ufi_select_dpu(d) \o ufi_debug_pc_sample \o ufi_debug_pc_read

-----------------------------------------------------------------------------
(* ufi_config.c and ufi_dma_wavegen_config.c                               *)

dpu_wavegen_read_status(c, d) ==
  <<Use({c})>> \o ufi_select_dpu(d) \o ufi_write_dma_ctrl \o ufi_clear_dma_ctrl \o ufi_read_dma_ctrl

ci_disable_dpu(c, d) == <<Use({c})>> \o ufi_select_dpu(d) \o ufi_write_group(DPU_DISABLED_GROUP)
dpu_disable_one_dpu(c, d) == ci_disable_dpu(c, d) \o <<Step("disable", CI_EMPTY, d, {c})>>

OnCis(script) == <<Use(ALL_CIS)>> \o ufi_select_cis \o script
OnAll(script) == <<Use(ALL_CIS)>> \o ufi_select_all \o script
OnLine(d, script) == <<Use(ALL_CIS)>> \o ufi_select_dpu(d) \o script
OnLines(script) == FlattenSeq([i \in 1 .. NrDpus |-> OnLine(i - 1, script)])

dpu_byte_order(hw) == IF hw THEN <<>> ELSE OnCis(ufi_byte_order)
dpu_soft_reset == OnCis(ufi_soft_reset)
dpu_bit_config == OnCis(ufi_bit_config)
dpu_ci_shuffling_box_config == OnCis(ufi_bit_config)
dpu_identity == OnCis(ufi_identity)
dpu_thermal_config == OnCis(ufi_thermal_config)
dpu_carousel_config == OnAll(ufi_carousel_config)

\* The DPUs whose memory cannot be repaired are disabled line by line.
Repair(memory, d) == <<Step("repair", Raw(memory), d, {})>>
try_to_repair(memory, script) ==
  FlattenSeq([i \in 1 .. NrDpus |-> Repair(memory, i - 1) \o OnLine(i - 1, script)])
    \o <<Step("anyleft", CI_EMPTY, 0, {})>>
dpu_iram_repair_config(do_repair) ==
  IF do_repair THEN try_to_repair("iram", ufi_iram_repair_config) ELSE OnAll(ufi_iram_repair_config)
dpu_wram_repair_config(do_repair) ==
  IF do_repair THEN try_to_repair("wram", Times(NR_OF_WRAM_BANKS, ufi_wram_repair_config))
  ELSE OnAll(Times(NR_OF_WRAM_BANKS, ufi_wram_repair_config))

Registers == Times(NrRegisters, ufi_write_dma_ctrl)
dpu_dma_config == OnAll(Registers \o ufi_clear_dma_ctrl)
dpu_dma_shuffling_box_config == OnAll(Registers \o ufi_clear_dma_ctrl)
dpu_wavegen_config == OnAll(Registers) \o OnLines(ufi_write_dma_ctrl \o ufi_clear_dma_ctrl)
dpu_clear_debug ==
  OnAll(ufi_clear_debug_replace \o ufi_clear_fault_poison \o ufi_clear_fault_bkp \o ufi_clear_fault_dma
          \o ufi_clear_fault_mem \o ufi_clear_fault_dpu \o ufi_clear_fault_intercept)
dpu_clear_run_bits == OnAll(Times(NrRunBits, ufi_clear_run_bit))
dpu_set_pc_mode == OnAll(ufi_set_pc_mode) \o OnLines(ufi_get_pc_mode)
dpu_set_stack_direction == OnAll(ufi_set_stack_direction \o ufi_set_stack_direction)
\* The DPUs have stopped when their run state is first read.
dpu_reset_internal_state ==
  OnAll(ufi_iram_write(0, 1) \o Times(NrThreads, ufi_thread_boot) \o ufi_read_dpu_run)

Save(update) == <<Step(IF update THEN "resave" ELSE "save", CI_EMPTY, 0, {})>>
dpu_init_groups == <<Step("initgroups", CI_EMPTY, 0, {})>>

\* config: [hw, iram, wram, mux], from the description of the rank.
ci_reset_rank(config) ==
  Save(FALSE) \o dpu_byte_order(config.hw) \o dpu_soft_reset \o dpu_bit_config
    \o dpu_ci_shuffling_box_config \o dpu_soft_reset \o dpu_ci_shuffling_box_config \o dpu_identity
    \o dpu_thermal_config \o dpu_carousel_config \o dpu_iram_repair_config(config.iram) \o Save(TRUE)
    \o dpu_wram_repair_config(config.wram) \o Save(TRUE) \o dpu_dma_config
    \o dpu_dma_shuffling_box_config \o dpu_wavegen_config \o dpu_clear_debug \o dpu_clear_run_bits
    \o dpu_set_pc_mode \o dpu_set_stack_direction \o dpu_reset_internal_state
    \o (IF config.mux THEN host_handle_access_for_rank ELSE <<>>) \o dpu_init_groups
===============================================================================
