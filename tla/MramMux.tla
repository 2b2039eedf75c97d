------------------------------- MODULE MramMux -------------------------------
(***************************************************************************)
(* Who may access the MRAMs of a rank (ufi/src/ufi_memory.c, ufi_config.c, *)
(* ufi_runner.c).  Every MRAM has a mux, on the side of the host or of its *)
(* DPU; the muxes of the DPUs 2k and 2k+1 of a control interface (CI) move *)
(* together.  The runtime records the positions in host_mux_mram_state     *)
(* before it commands the hardware, and commands nothing when the record   *)
(* is right already.  A transfer names the DPUs that have a buffer (the    *)
(* non-NULL entries of its matrix); the backend moves whole lines (one DPU *)
(* number on all CIs), so that only the muxes protect the other DPUs of a  *)
(* line.                                                                   *)
(*                                                                         *)
(* Every operation runs under the mutex of the rank: only the DPUs, which  *)
(* stop by themselves, are concurrent.  Sets stand for bit masks.          *)
(***************************************************************************)
EXTENDS Integers, Sequences

CONSTANTS
  NrCis, NrDpusPerCi,  \* hw.topology
  Enabled,             \* enabled_dpus of all slices
  Matrices,            \* the transfers the application asks for
  MaxFailures          \* bound: commands to the hardware that fail

Cis   == 0 .. NrCis - 1
Lines == 0 .. NrDpusPerCi - 1
Dpus  == Cis \X Lines

ASSUME TopologyAssumption ==
  NrCis \in Nat \ {0} /\ NrDpusPerCi \in Nat \ {0} /\ NrDpusPerCi % 2 = 0
ASSUME MatricesAssumption ==
  Enabled \in SUBSET Dpus /\ \A M \in Matrices : M \in SUBSET Enabled
ASSUME BoundsAssumption == MaxFailures \in Nat

VARIABLES
  recorded,  \* host_mux_mram_state: the DPUs whose mux is recorded host-side
  mux,       \* the hardware: the DPUs whose mux is host-side
  running,   \* the hardware: the DPUs that run
  known,     \* run_context.dpu_running
  pc,        \* where the current operation is
  plan,      \* copy: the matrices still to transfer
  line,      \* each_dpu
  booting,   \* boot: the DPUs to boot
  asked,     \* auxiliary: the matrix of the last copy
  moved,     \* auxiliary: enabled DPUs whose MRAM that copy has accessed
  result,    \* status of the last operation
  failures,
  aborted    \* the assertion of host_get_access_for_transfer_matrix has failed

muxes == <<recorded, mux>>
dpus  == <<running, known>>
matrices == <<asked, moved>>
vars  == <<muxes, dpus, matrices, plan, pc, line, booting, result, failures, aborted>>

PC == {"idle", "copy_rank", "copy_line", "transfer", "boot_rank", "boot_lines", "boot_line", "boot"}

TypeOK ==
  /\ recorded \in SUBSET Dpus /\ mux \in SUBSET Dpus
  /\ running \in SUBSET Enabled /\ known \in SUBSET Enabled
  /\ plan \in Seq(SUBSET Enabled) /\ asked \in SUBSET Enabled /\ moved \in SUBSET Enabled
  /\ pc \in PC /\ line \in Nat /\ booting \in SUBSET Enabled
  /\ pc \in {"copy_rank", "copy_line", "transfer"} => plan # <<>>
  /\ pc \in {"copy_line", "boot_lines", "boot_line"} => line \in Lines
  /\ result \in {"pending", "ok", "error"} /\ failures \in Nat /\ aborted \in BOOLEAN

\* dpu_rank_handler_get_rank with api_must_switch_mram_mux: DPU-side everywhere.
Init ==
  /\ recorded = {} /\ mux = {} /\ running = {} /\ known = {}
  /\ plan = <<>> /\ asked = {} /\ moved = {}
  /\ pc = "idle" /\ line = 0 /\ booting = {}
  /\ result = "ok" /\ failures = 0 /\ aborted = FALSE

-----------------------------------------------------------------------------
(* Masks.                                                                  *)

\* The CIs of S on line d.
OnLine(S, d) == {c \in Cis : <<c, d>> \in S}
Base(d) == d - (d % 2)
Pair(d) == {Base(d), Base(d) + 1}

\* CIs that ufi_select_all keeps; the muxes of the others are never commanded.
LiveCis == {c \in Cis : \E d \in Lines : <<c, d>> \in Enabled}

\* The positions m once the lines L of the CIs C are set to mask.
Placed(m, C, L, mask) ==
  {x \in Dpus : IF x[1] \in C /\ x[2] \in L THEN x[1] \in mask ELSE x \in m}

-----------------------------------------------------------------------------
(* dpu_switch_mux_for_dpu_line and dpu_switch_mux_for_rank.                 *)

\* An operation ends; its local variables go out of scope.
Return(st) == pc' = "idle" /\ result' = st /\ plan' = <<>> /\ line' = 0 /\ booting' = {}
Continue(at) == pc' = at /\ UNCHANGED <<result, plan, booting>>

Mishap == failures < MaxFailures /\ failures' = failures + 1

\* Lines of the pair of d whose record differs from mask.
WrongLinesOwn(d, mask) == {l \in {d} : OnLine(recorded, l) # mask}
WrongLines(d, mask) == {l \in Pair(d) : OnLine(recorded, l) # mask}
BusyUnchecked(L) == FALSE
Busy(L) == \E x \in known : x[2] \in L

\* The record is updated first, then the muxes are commanded.
Recorded(L, mask) == recorded' = Placed(recorded, Cis, L, mask)
Commanded(L, mask) == mux' = Placed(mux, LiveCis, L, mask)

\* A line that needs nothing or is switched, a line whose DPUs run.
LineOk(d, mask) ==
  LET L == WrongLines(d, mask) IN
  \/ L = {} /\ UNCHANGED muxes
  \/ L # {} /\ ~Busy(L) /\ Recorded(L, mask) /\ Commanded(L, mask)
LineBusy(d, mask) == Busy(WrongLines(d, mask)) /\ UNCHANGED <<muxes, failures>>
\* The command of line f, or the check of its effect, fails: the line before it
\* has moved, some CIs of line f may have, the line after it is not commanded.
LineFails(d, mask) ==
  LET L == WrongLines(d, mask) IN
  /\ L # {} /\ ~Busy(L) /\ Mishap /\ Recorded(L, mask)
  /\ \E f \in L, C \in SUBSET LiveCis :
       mux' = Placed(Placed(mux, LiveCis, {l \in L : l < f}, mask), C, {f}, mask)

\* The whole rank at once; a failure may leave any of its muxes in place.
RankMask(host) == IF host THEN Cis ELSE {}
RankWrong(host) == \E d \in Lines : OnLine(recorded, d) # RankMask(host)
RankOk(host) ==
  /\ known = {}
  /\ \/ ~RankWrong(host) /\ UNCHANGED muxes
     \/ RankWrong(host) /\ Recorded(Lines, RankMask(host)) /\ Commanded(Lines, RankMask(host))
RankFails(host) ==
  /\ known = {} /\ RankWrong(host) /\ Mishap
  /\ Recorded(Lines, RankMask(host))
  /\ \E S \in SUBSET (LiveCis \X Lines) : mux' = IF host THEN mux \cup S ELSE mux \ S

-----------------------------------------------------------------------------
(* copy_mram_for_dpus.                                                     *)

\* A pair of enabled DPUs of which one has a transfer.
PairEnabled(c, d) == <<c, d>> \in Enabled /\ <<c, d + 1>> \in Enabled
Conflict(M, c, d) == PairEnabled(c, d) /\ (<<c, d>> \in M) # (<<c, d + 1>> \in M)

\* duplicate_transfer_matrix: the scan of a pair of lines stops at the first
\* conflict, what the CIs after it transfer is not looked at.
DuplicationNeeded(M) ==
  \E d \in Lines, c \in Cis :
    /\ d % 2 = 0 /\ Conflict(M, c, d)
    /\ \A b \in 0 .. c - 1 : ~Conflict(M, b, d)
    /\ \E b \in 0 .. c - 1 : PairEnabled(b, d) /\ <<b, d>> \in M /\ <<b, d + 1>> \in M

IsTransferMatrixFull(M) == Enabled \subseteq M

EvenLines(M) == {x \in M : x[2] % 2 = 0}
OddLines(M) == M \ EvenLines(M)

\* The matrices to transfer, in this order.
PlanEvenOnly(M) == IF DuplicationNeeded(M) THEN <<EvenLines(M)>> ELSE <<M>>
Plan(M) == IF DuplicationNeeded(M) THEN <<EvenLines(M), OddLines(M)>> ELSE <<M>>

\* dpu_copy_to_mrams and dpu_copy_from_mrams: not while a DPU is known to run.
CopyRefused ==
  /\ pc = "idle" /\ known # {} /\ Return("error")
  /\ UNCHANGED <<muxes, dpus, matrices, failures, aborted>>

Copy(M) ==
  /\ pc = "idle" /\ known = {}
  /\ plan' = Plan(M) /\ asked' = M /\ moved' = {}
  /\ pc' = IF IsTransferMatrixFull(M) /\ ~DuplicationNeeded(M) THEN "copy_rank" ELSE "copy_line"
  /\ result' = "pending"
  /\ UNCHANGED <<muxes, dpus, line, booting, failures, aborted>>

\* A full matrix: the whole rank is switched.
CopyRank ==
  /\ pc = "copy_rank"
  /\ \/ RankOk(TRUE) /\ Continue("transfer") /\ UNCHANGED <<line, failures>>
     \/ RankFails(TRUE) /\ Return("error")
  /\ UNCHANGED <<dpus, matrices, aborted>>

\* host_get_access_for_transfer_matrix, one pair of lines: its second call of
\* dpu_switch_mux_for_dpu_line finds the pair in place.  known is empty, so that
\* no line is busy.
Mask1 == OnLine(Head(plan), line)
Mask2 == OnLine(Head(plan), line + 1)
AssertHolds == Mask1 = {} \/ Mask2 = {} \/ Mask1 = Mask2

NextPair ==
  /\ line' = IF line + 2 < NrDpusPerCi THEN line + 2 ELSE 0
  /\ Continue(IF line + 2 < NrDpusPerCi THEN "copy_line" ELSE "transfer")
  /\ UNCHANGED failures

CopyLine ==
  LET mask == Mask1 \cup Mask2 IN
  /\ pc = "copy_line" /\ AssertHolds
  /\ \/ mask = {} /\ NextPair /\ UNCHANGED muxes
     \/ mask # {} /\ LineOk(line, mask) /\ NextPair
     \/ mask # {} /\ LineFails(line, mask) /\ Return("error")
  /\ UNCHANGED <<dpus, matrices, aborted>>

CopyAborts ==
  /\ pc = "copy_line" /\ ~AssertHolds
  /\ aborted' = TRUE
  /\ UNCHANGED <<muxes, dpus, matrices, plan, pc, line, booting, result, failures>>

\* The backend accesses every MRAM of a line that has a buffer, as far as the
\* muxes let it.
Accessed(M) == {x \in mux \cap Enabled : OnLine(M, x[2]) # {}}

Transfer ==
  /\ pc = "transfer"
  /\ moved' = moved \cup Accessed(Head(plan))
  /\ IF Tail(plan) = <<>>
     THEN Return("ok")
     ELSE pc' = "copy_line" /\ plan' = Tail(plan) /\ UNCHANGED <<line, booting, result>>
  /\ UNCHANGED <<muxes, dpus, asked, failures, aborted>>

TransferFails ==
  /\ pc = "transfer" /\ Mishap /\ Return("error")
  /\ UNCHANGED <<muxes, dpus, matrices, aborted>>

-----------------------------------------------------------------------------
(* dpu_boot_rank and dpu_boot_dpu, down to ci_start_thread_rank and         *)
(* ci_start_thread_dpu; dpu_poll_rank.                                      *)

BootRefused ==
  /\ pc = "idle" /\ known # {} /\ Return("error")
  /\ UNCHANGED <<muxes, dpus, matrices, failures, aborted>>

\* dpu_launch_thread_on_rank and dpu_launch_thread_on_dpu poll the rank first.
Booting(S, at) ==
  /\ known' = running /\ booting' = S /\ pc' = at /\ result' = "pending"
  /\ asked' = {} /\ moved' = {}
  /\ UNCHANGED <<muxes, running, plan, failures, aborted>>

BootRank ==
  /\ pc = "idle" /\ known = {}
  /\ Booting(Enabled, IF LiveCis = Cis THEN "boot_rank" ELSE "boot_lines") /\ UNCHANGED line

SwitchBootRank ==
  /\ pc = "boot_rank"
  /\ \/ RankOk(FALSE) /\ Continue("boot") /\ UNCHANGED <<line, failures>>
     \/ RankFails(FALSE) /\ Return("error")
     \/ known # {} /\ Return("error") /\ UNCHANGED <<muxes, failures>>
  /\ UNCHANGED <<dpus, matrices, aborted>>

\* CIs without an enabled DPU keep the direction of their muxes.
SwitchBootLines ==
  LET mask == OnLine(recorded, line) \ LiveCis IN
  /\ pc = "boot_lines"
  /\ \/ /\ LineOk(line, mask)
        /\ line' = IF line + 1 < NrDpusPerCi THEN line + 1 ELSE 0
        /\ Continue(IF line + 1 < NrDpusPerCi THEN "boot_lines" ELSE "boot")
        /\ UNCHANGED failures
     \/ LineFails(line, mask) /\ Return("error")
     \/ LineBusy(line, mask) /\ Return("error")
  /\ UNCHANGED <<dpus, matrices, aborted>>

BootDpu(x) ==
  /\ pc = "idle" /\ x \in Enabled \ known
  /\ Booting({x}, "boot_line") /\ line' = x[2]

\* The other CIs of the line keep the direction of their muxes.
BootMaskLine == OnLine(recorded, line)
BootMask == OnLine(recorded, line) \ {x[1] : x \in booting}

SwitchBootLine ==
  /\ pc = "boot_line"
  /\ \/ LineOk(line, BootMask) /\ Continue("boot") /\ UNCHANGED <<line, failures>>
     \/ LineFails(line, BootMask) /\ Return("error")
     \/ LineBusy(line, BootMask) /\ Return("error")
  /\ UNCHANGED <<dpus, matrices, aborted>>

Boot ==
  /\ pc = "boot" /\ Return("ok")
  /\ running' = running \cup booting /\ known' = known \cup booting
  /\ UNCHANGED <<muxes, matrices, failures, aborted>>

\* The command fails: some DPUs may have started, none is recorded.
BootFails ==
  /\ pc = "boot" /\ Mishap /\ Return("error")
  /\ \E S \in SUBSET booting : running' = running \cup S
  /\ UNCHANGED <<muxes, known, matrices, aborted>>

Poll ==
  /\ pc = "idle" /\ known # running /\ known' = running
  /\ UNCHANGED <<muxes, running, matrices, plan, pc, line, booting, result, failures, aborted>>

Stop(x) ==
  /\ x \in running /\ running' = running \ {x}
  /\ UNCHANGED <<muxes, known, matrices, plan, pc, line, booting, result, failures, aborted>>

-----------------------------------------------------------------------------
Next ==
  /\ ~aborted
  /\ \/ \E M \in Matrices : Copy(M)
     \/ CopyRank \/ CopyLine \/ CopyAborts \/ CopyRefused \/ Transfer \/ TransferFails
     \/ BootRefused \/ BootRank \/ SwitchBootRank \/ SwitchBootLines
     \/ \E x \in Enabled : BootDpu(x) \/ Stop(x)
     \/ SwitchBootLine \/ Boot \/ BootFails \/ Poll

Spec == Init /\ [][Next]_vars

-----------------------------------------------------------------------------
(* Properties.                                                             *)

\* As long as the hardware obeys, a copy touches the MRAMs of its matrix only,
\* and all of them when it succeeds: neither the duplication of the matrix nor
\* the muxes left by earlier operations make it miss or overwrite one.
CopyExact ==
  failures = 0 => /\ moved \subseteq asked
                  /\ result = "ok" => moved = asked

\* As long as the hardware obeys, a DPU that runs owns its MRAM.
RunningOwnsMram == failures = 0 => running \cap mux = {}

\* The two DPUs of a pair are recorded on the same side.
PairsAgree == \A d \in Lines : OnLine(recorded, d) = OnLine(recorded, Base(d))

\* The host never moves the mux of a DPU that it recorded as running, even after
\* commands failed.
StillStep == \A x \in running \cap known : x \in mux <=> x \in mux'
MuxStillWhileRunning == [][StillStep]_vars
=============================================================================
