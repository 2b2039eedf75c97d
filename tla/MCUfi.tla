------------------------------- MODULE MCUfi -------------------------------
(* Instances of Ufi: two CIs with two DPUs each. *)
EXTENDS Ufi

MCDisabled == {<<1, 1>>}

\* DPU 0 of CI 0 has damage that is repaired, DPU 1 of CI 0 too much in its WRAM.
Word(m, l, bits) == [msbs |-> m, lsbs |-> l, bits |-> bits]
MCDamage ==
  [m \in {"iram", "wram"} \X ALL_CIS \X Dpus |->
     CASE m = <<"iram", 0, 0>> -> <<Word(1, 0, {3}), Word(2, 5, {3, 4}), Word(2, 6, {4}), Word(1, 2, {})>>
       [] m = <<"wram", 0, 1>> -> <<Word(1, 0, {3}), Word(2, 5, {4}), Word(3, 6, {4})>>
       [] m = <<"wram", 1, 0>> -> <<Word(4, 1, {7}), Word(4, 2, {6}), Word(4, 3, {}), Word(4, 4, {6})>>
       [] OTHER -> <<>>]

On(name, c, d, n) == [name |-> name, c |-> c, d |-> d, n |-> n]
Matrix(name, dpus, n) == [name |-> name, dpus |-> dpus, n |-> n]
BootDpu(c, d, mux, resume) == [name |-> "boot_dpu", c |-> c, d |-> d, mux |-> mux, resume |-> resume]
Reset(hardware, iram, wram, mux) ==
  [name |-> "reset", hw |-> hardware, iram |-> iram, wram |-> wram, mux |-> mux]

MCCalls ==
  { [name |-> "iram_rank", n |-> 1], On("iram_dpu", 0, 1, 2), On("from_iram_dpu", 1, 0, 1),
    Matrix("iram_matrix", {<<0, 0>>, <<1, 1>>}, 1), Matrix("from_iram_matrix", {<<0, 1>>}, 1),
    [name |-> "wram_rank", n |-> 1], On("wram_dpu", 1, 0, 1), On("from_wram_dpu", 0, 0, 1),
    Matrix("wram_matrix", {<<0, 0>>, <<1, 0>>, <<1, 1>>}, 1), Matrix("from_wram_matrix", {<<0, 1>>, <<1, 0>>}, 1),
    [name |-> "boot_rank", mux |-> TRUE, resume |-> FALSE], BootDpu(0, 0, FALSE, FALSE), BootDpu(1, 0, TRUE, TRUE),
    [name |-> "poll"], On("sample_pc", 0, 1, 0), On("wavegen_status", 1, 0, 0), On("disable", 0, 0, 0), On("disable", 1, 0, 0),
    Reset(TRUE, TRUE, TRUE, FALSE), Reset(FALSE, FALSE, FALSE, TRUE),
    [name |-> "group", n |-> 0], [name |-> "group_uncached", n |-> 0], [name |-> "all_uncached"],
    On("dpu_uncached", 1, 0, 0) }

\* Failures while a structure, a selection or a group is written, at a frame
\* that waits for the DPUs, in a byte discovery, and at the commands whose
\* result is ignored.
MCFaulty == {Structure("plain"), Op("wram_write", "wram"), CI_WRITE_GROUP(1), Frame("reset", "none", "reset"), Raw("byte_order"),
             Raw("thermal")}

ReplayCalls == {On("wram_dpu", 0, 0, 1), On("wram_dpu", 1, 0, 1)}
=============================================================================
