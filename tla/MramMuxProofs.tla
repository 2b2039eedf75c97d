--------------------------- MODULE MramMuxProofs ---------------------------
(***************************************************************************)
(* Proofs about MramMux for every topology with an even number of DPUs per *)
(* control interface, every set of enabled DPUs, of matrices and any bound *)
(* on failures.                                                            *)
(*                                                                         *)
(* The inductive invariant Inv has, besides the type invariant:            *)
(*   PairsAgree   both lines of a pair are recorded on the same side,      *)
(*   LocalsInv    what the program counter says of the locals,             *)
(*   BootReady    the muxes already given to the DPUs about to boot,       *)
(*   Obedient     as long as no command failed: the record is the truth,   *)
(*                every DPU that runs is recorded and owns its MRAM,       *)
(*   CopyReady    as long as no command failed: what a copy has done and   *)
(*                has left to do, and the lines prepared for it.           *)
(***************************************************************************)
EXTENDS MramMux, TLAPS

Copying == {"copy_rank", "copy_line", "transfer"}

LocalsInv ==
  /\ pc \in {"idle", "copy_rank", "transfer"} => line = 0
  /\ pc = "copy_line" => Base(line) = line
  /\ pc \in {"boot_rank", "boot_lines"} => booting = Enabled
  /\ pc = "boot_line" => booting \subseteq Cis \X {line}
  /\ pc \notin Copying \cup {"idle"} => asked = {} /\ moved = {}
  /\ pc = "copy_rank" => plan = <<asked>> /\ asked = Enabled
  /\ pc # "idle" => result = "pending"

BootReady ==
  /\ pc = "boot_lines" => \A c \in LiveCis, l \in Lines : l < line => <<c, l>> \notin recorded
  /\ pc = "boot" => booting \cap recorded = {}

\* host_mux_mram_state tells where the muxes are.
Synced == \A c \in LiveCis, l \in Lines : <<c, l>> \in mux <=> <<c, l>> \in recorded

Obedient == failures = 0 => running \subseteq known /\ Synced /\ running \cap mux = {}

\* What is left to transfer and what has been accessed make up the matrix.
PlanSound ==
  \/ plan = <<asked>> /\ moved = {}
  \/ plan = <<EvenLines(asked), OddLines(asked)>> /\ moved = {}
  \/ plan = <<OddLines(asked)>> /\ moved = EvenLines(asked)

\* The muxes of line l let the backend reach the DPUs of M and no other.
Prepared(M, l) ==
  OnLine(M, l) # {} => \A c \in Cis : <<c, l>> \in Enabled => (<<c, l>> \in mux <=> <<c, l>> \in M)

CopyReady ==
  failures = 0 =>
    /\ pc \in Copying => PlanSound
    /\ pc = "copy_line" => \A l \in Lines : l < line => Prepared(Head(plan), l)
    /\ pc = "transfer" => \A l \in Lines : Prepared(Head(plan), l)
    /\ moved \subseteq asked /\ (result = "ok" => moved = asked)

Inv == TypeOK /\ PairsAgree /\ LocalsInv /\ BootReady /\ Obedient /\ CopyReady

-----------------------------------------------------------------------------
(* Lines, pairs of lines and masks.                                        *)

\* The arithmetic of pairs of lines (dpu_id & ~1).
LEMMA PairFacts ==
  ASSUME NEW d \in Lines
  PROVE  /\ Base(d) \in Lines /\ Base(d) + 1 \in Lines
         /\ d \in Pair(d) /\ Pair(d) \subseteq Lines /\ Base(d) <= d
         /\ \A l \in Lines : l \in Pair(d) <=> Base(l) = Base(d)
         /\ \A l \in Lines : Base(l) \in Pair(d) <=> Base(l) = Base(d)
<1>1. NrDpusPerCi \in Nat /\ NrDpusPerCi % 2 = 0 /\ d \in 0 .. NrDpusPerCi - 1
  BY TopologyAssumption DEF Lines
<1>2. \A k \in Nat : \E h \in Nat : (k = 2 * h /\ k % 2 = 0) \/ (k = 2 * h + 1 /\ k % 2 = 1)
  <2> SUFFICES ASSUME NEW k \in Nat
               PROVE \E h \in Nat : (k = 2 * h /\ k % 2 = 0) \/ (k = 2 * h + 1 /\ k % 2 = 1)
    OBVIOUS
  <2>1. k \div 2 \in Nat /\ (k % 2 = 0 \/ k % 2 = 1) /\ k = 2 * (k \div 2) + (k % 2)
    OBVIOUS
  <2> QED BY <2>1
<1>3. Base(d) \in Lines /\ Base(d) + 1 \in Lines /\ d \in Pair(d) /\ Base(d) <= d
  BY <1>1, <1>2 DEF Base, Pair, Lines
<1>4. ASSUME NEW l \in Lines
      PROVE  (l \in Pair(d) <=> Base(l) = Base(d)) /\ (Base(l) \in Pair(d) <=> Base(l) = Base(d))
  BY <1>1, <1>2 DEF Base, Pair, Lines
<1> QED BY <1>3, <1>4 DEF Pair

\* Enabled DPUs are DPUs, of control interfaces that are commanded.
LEMMA EnabledFacts ==
  /\ Enabled \subseteq Dpus /\ LiveCis \subseteq Cis
  /\ \A x \in Enabled : x[1] \in LiveCis /\ x[2] \in Lines /\ x = <<x[1], x[2]>>
  /\ \A x \in Dpus : x[1] \in Cis /\ x[2] \in Lines /\ x = <<x[1], x[2]>>
<1>1. \A x \in Dpus : x[1] \in Cis /\ x[2] \in Lines /\ x = <<x[1], x[2]>>
  BY DEF Dpus
<1> QED BY <1>1, MatricesAssumption DEF LiveCis

\* dpu_switch_mux_for_dpu_line, when it succeeds: both lines of the pair are
\* recorded as asked, no other line changes, no DPU recorded as running is
\* disturbed, and the record stays true.
LEMMA LineOkFacts ==
  ASSUME TypeOK, NEW d \in Lines, NEW mask \in SUBSET Cis, LineOk(d, mask)
  PROVE  /\ recorded' \in SUBSET Dpus /\ mux' \in SUBSET Dpus
         /\ \A c \in Cis, l \in Lines :
              <<c, l>> \in recorded' <=> IF l \in Pair(d) THEN c \in mask ELSE <<c, l>> \in recorded
         /\ \A c \in Cis, l \in Lines \ Pair(d) : <<c, l>> \in mux' <=> <<c, l>> \in mux
         /\ \A x \in known : x \in mux' <=> x \in mux
         /\ Synced => Synced'
<1> DEFINE L == WrongLines(d, mask)
<1>0. recorded \in SUBSET Dpus /\ mux \in SUBSET Dpus /\ known \subseteq Enabled /\ LiveCis \subseteq Cis
  BY EnabledFacts DEF TypeOK
<1>1. L \subseteq Pair(d) /\ \A l \in Pair(d) \ L : OnLine(recorded, l) = mask
  BY DEF WrongLines
<1>2. \A c \in Cis, l \in Pair(d) \ L : <<c, l>> \in recorded <=> c \in mask
  BY <1>1 DEF OnLine
<1>3. CASE L = {} /\ UNCHANGED muxes
  <2>1. recorded' = recorded /\ mux' = mux
    BY <1>3 DEF muxes
  <2> QED BY <1>0, <1>2, <1>3, <2>1 DEF Synced
<1>4. CASE ~Busy(L) /\ Recorded(L, mask) /\ Commanded(L, mask)
  <2>1. recorded' = Placed(recorded, Cis, L, mask) /\ mux' = Placed(mux, LiveCis, L, mask)
    BY <1>4 DEF Recorded, Commanded
  <2>2. recorded' \in SUBSET Dpus /\ mux' \in SUBSET Dpus
    BY <2>1 DEF Placed
  <2>3. \A c \in Cis, l \in Lines :
          <<c, l>> \in recorded' <=> IF l \in L THEN c \in mask ELSE <<c, l>> \in recorded
    BY <2>1 DEF Placed, Dpus
  <2>4. \A c \in Cis, l \in Lines :
          <<c, l>> \in mux' <=> IF c \in LiveCis /\ l \in L THEN c \in mask ELSE <<c, l>> \in mux
    BY <2>1 DEF Placed, Dpus
  <2>5. \A x \in known : x[1] \in Cis /\ x[2] \in Lines /\ x = <<x[1], x[2]>> /\ x[2] \notin L
    BY <1>0, <1>4, EnabledFacts DEF Busy
  <2>6. \A x \in known : x \in mux' <=> x \in mux
    BY <2>4, <2>5
  <2>7. Synced => Synced'
    BY <1>0, <2>3, <2>4 DEF Synced
  <2>8. \A c \in Cis, l \in Lines :
          <<c, l>> \in recorded' <=> IF l \in Pair(d) THEN c \in mask ELSE <<c, l>> \in recorded
    BY <1>1, <1>2, <2>3
  <2>9. \A c \in Cis, l \in Lines \ Pair(d) : <<c, l>> \in mux' <=> <<c, l>> \in mux
    BY <1>1, <2>4
  <2> QED BY <2>2, <2>6, <2>7, <2>8, <2>9
<1> QED BY <1>3, <1>4 DEF LineOk

\* The same when a command fails: the record is already changed.
LEMMA LineFailsFacts ==
  ASSUME TypeOK, NEW d \in Lines, NEW mask \in SUBSET Cis, LineFails(d, mask)
  PROVE  /\ recorded' \in SUBSET Dpus /\ mux' \in SUBSET Dpus
         /\ failures' \in Nat /\ failures' # 0
         /\ \A c \in Cis, l \in Lines :
              <<c, l>> \in recorded' <=> IF l \in Pair(d) THEN c \in mask ELSE <<c, l>> \in recorded
         /\ \A x \in known : x \in mux' <=> x \in mux
<1> DEFINE L == WrongLines(d, mask)
<1>0. known \subseteq Enabled
  BY DEF TypeOK
<1>1. L \subseteq Pair(d) /\ \A c \in Cis, l \in Pair(d) \ L : <<c, l>> \in recorded <=> c \in mask
  BY DEF WrongLines, OnLine
<1>2. ~Busy(L) /\ recorded' = Placed(recorded, Cis, L, mask)
  BY DEF LineFails, Recorded
<1>3. PICK f \in L, C \in SUBSET LiveCis :
        mux' = Placed(Placed(mux, LiveCis, {l \in L : l < f}, mask), C, {f}, mask)
  BY DEF LineFails
<1>4. \A c \in Cis, l \in Lines :
        <<c, l>> \in recorded' <=> IF l \in L THEN c \in mask ELSE <<c, l>> \in recorded
  BY <1>2 DEF Placed, Dpus
<1>5. \A x \in known : x[1] \in Cis /\ x[2] \in Lines /\ x = <<x[1], x[2]>> /\ x[2] \notin L
  BY <1>0, <1>2, EnabledFacts DEF Busy
<1>6. \A c \in Cis, l \in Lines \ L : <<c, l>> \in mux' <=> <<c, l>> \in mux
  BY <1>3 DEF Placed, Dpus
<1>7. \A x \in known : x \in mux' <=> x \in mux
  BY <1>5, <1>6
<1>8. failures' \in Nat /\ failures' # 0
  BY DEF LineFails, Mishap, TypeOK
<1>9. recorded' \in SUBSET Dpus /\ mux' \in SUBSET Dpus
  BY <1>2, <1>3 DEF Placed
<1> QED BY <1>1, <1>4, <1>7, <1>8, <1>9

\* dpu_switch_mux_for_rank: nothing runs as far as the record tells, and all
\* positions are recorded as asked.
LEMMA RankOkFacts ==
  ASSUME TypeOK, NEW host \in BOOLEAN, RankOk(host)
  PROVE  /\ recorded' \in SUBSET Dpus /\ mux' \in SUBSET Dpus /\ known = {}
         /\ \A c \in Cis, l \in Lines : <<c, l>> \in recorded' <=> host
         /\ Synced => Synced'
<1> DEFINE mask == RankMask(host)
<1>1. \A c \in Cis : c \in mask <=> host
  BY DEF RankMask
<1>2. known = {} /\ LiveCis \subseteq Cis
  BY EnabledFacts DEF RankOk
<1>3. CASE ~RankWrong(host) /\ UNCHANGED muxes
  <2>1. recorded' = recorded /\ mux' = mux
    BY <1>3 DEF muxes
  <2>2. \A c \in Cis, l \in Lines : <<c, l>> \in recorded <=> c \in mask
    BY <1>3 DEF RankWrong, OnLine
  <2> QED BY <1>1, <1>2, <2>1, <2>2 DEF TypeOK, Synced
<1>4. CASE Recorded(Lines, mask) /\ Commanded(Lines, mask)
  <2>1. recorded' = Placed(recorded, Cis, Lines, mask) /\ mux' = Placed(mux, LiveCis, Lines, mask)
    BY <1>4 DEF Recorded, Commanded
  <2>2. recorded' \in SUBSET Dpus /\ mux' \in SUBSET Dpus
    BY <2>1 DEF Placed
  <2>3. \A c \in Cis, l \in Lines : <<c, l>> \in recorded' <=> c \in mask
    BY <2>1 DEF Placed, Dpus
  <2>4. \A c \in LiveCis, l \in Lines : <<c, l>> \in mux' <=> c \in mask
    BY <1>2, <2>1 DEF Placed, Dpus
  <2> QED BY <1>1, <1>2, <2>2, <2>3, <2>4 DEF Synced
<1> QED BY <1>3, <1>4 DEF RankOk

\* The same when the command of the whole rank fails.
LEMMA RankFailsFacts ==
  ASSUME TypeOK, NEW host \in BOOLEAN, RankFails(host)
  PROVE  /\ recorded' \in SUBSET Dpus /\ mux' \in SUBSET Dpus /\ known = {}
         /\ failures' \in Nat /\ failures' # 0
         /\ \A c \in Cis, l \in Lines : <<c, l>> \in recorded' <=> host
<1>1. known = {} /\ failures' \in Nat /\ failures' # 0
  BY DEF RankFails, Mishap, TypeOK
<1>2. recorded' = Placed(recorded, Cis, Lines, RankMask(host))
  BY DEF RankFails, Recorded
<1>3. recorded' \in SUBSET Dpus
  BY <1>2 DEF Placed
<1>4. \A c \in Cis, l \in Lines : <<c, l>> \in recorded' <=> host
  BY <1>2 DEF Placed, Dpus, RankMask
<1>5. PICK S \in SUBSET (LiveCis \X Lines) : mux' = IF host THEN mux \cup S ELSE mux \ S
  BY DEF RankFails
<1>6. LiveCis \X Lines \subseteq Dpus
  BY EnabledFacts DEF Dpus
<1>7. mux' \in SUBSET Dpus
  BY <1>5, <1>6 DEF TypeOK
<1> QED BY <1>1, <1>3, <1>4, <1>7

-----------------------------------------------------------------------------
(* The steps preserve the invariant.                                       *)

\* The masks of the callers of dpu_switch_mux_for_dpu_line.
LEMMA MasksAreCis ==
  /\ Mask1 \cup Mask2 \in SUBSET Cis /\ BootMask \in SUBSET Cis
  /\ OnLine(recorded, line) \ LiveCis \in SUBSET Cis
  BY DEF Mask1, Mask2, BootMask, OnLine

\* A matrix splits into its even and its odd lines.
LEMMA SplitFacts ==
  ASSUME NEW M \in SUBSET Enabled
  PROVE  /\ EvenLines(M) \in SUBSET Enabled /\ OddLines(M) \in SUBSET Enabled
         /\ EvenLines(M) \cup OddLines(M) = M
         /\ Plan(M) \in Seq(SUBSET Enabled) /\ Plan(M) # <<>>
         /\ Plan(M) = <<M>> \/ Plan(M) = <<EvenLines(M), OddLines(M)>>
         /\ ~DuplicationNeeded(M) => Plan(M) = <<M>>
<1>1. /\ EvenLines(M) \in SUBSET Enabled /\ OddLines(M) \in SUBSET Enabled
      /\ EvenLines(M) \cup OddLines(M) = M
  BY DEF EvenLines, OddLines
<1>2. /\ Plan(M) = <<M>> \/ Plan(M) = <<EvenLines(M), OddLines(M)>>
      /\ ~DuplicationNeeded(M) => Plan(M) = <<M>>
  BY DEF Plan
<1>3. <<M>> \in Seq(SUBSET Enabled) /\ <<M>> # <<>>
  OBVIOUS
<1>4. <<EvenLines(M), OddLines(M)>> \in Seq(SUBSET Enabled) /\ <<EvenLines(M), OddLines(M)>> # <<>>
  BY <1>1
<1> QED BY <1>1, <1>2, <1>3, <1>4

\* No step leaves the types.
LEMMA TypeStep ==
  ASSUME TypeOK, LocalsInv, [Next]_vars
  PROVE  TypeOK'
<1> USE DEF TypeOK, PC, muxes, dpus, matrices
<1>0. Lines \subseteq Nat /\ 0 \in Lines /\ Cis \X Lines = Dpus
  BY TopologyAssumption DEF Lines, Dpus
<1>a. <<>> \in Seq(SUBSET Enabled)
  OBVIOUS
<1>1. CASE CopyRefused \/ BootRefused
  <2>1. UNCHANGED <<muxes, dpus, matrices, failures, aborted>> /\ Return("error")
    BY <1>1 DEF CopyRefused, BootRefused
  <2> QED BY <1>a, <2>1 DEF Return
<1>2. ASSUME NEW M \in Matrices, Copy(M) PROVE TypeOK'
  BY <1>0, <1>2, SplitFacts, MatricesAssumption DEF Copy, LocalsInv
<1>3. CASE CopyRank
  <2>1. CASE RankOk(TRUE) /\ Continue("transfer") /\ UNCHANGED <<line, failures>>
    BY <1>3, <2>1, RankOkFacts DEF CopyRank, Continue
  <2>2. CASE RankFails(TRUE) /\ Return("error")
    <3>1. recorded' \in SUBSET Dpus /\ mux' \in SUBSET Dpus /\ failures' \in Nat
      BY <2>2, RankFailsFacts
    <3> QED BY <1>a, <1>3, <2>2, <3>1 DEF CopyRank, Return
  <2> QED BY <1>3, <2>1, <2>2 DEF CopyRank
<1>4. CASE CopyLine
  <2>0. line \in Lines /\ Mask1 \cup Mask2 \in SUBSET Cis
    BY <1>4, MasksAreCis DEF CopyLine
  <2>1. CASE NextPair /\ (UNCHANGED muxes \/ LineOk(line, Mask1 \cup Mask2))
    <3>1. recorded' \in SUBSET Dpus /\ mux' \in SUBSET Dpus
      BY <2>0, <2>1, LineOkFacts
    <3>2. line' \in Nat /\ (pc' = "copy_line" => line' \in Lines) /\ pc' \in {"copy_line", "transfer"}
      BY <1>0, <2>0, <2>1, TopologyAssumption DEF NextPair, Continue, Lines
    <3> QED BY <1>4, <2>1, <3>1, <3>2 DEF CopyLine, NextPair, Continue
  <2>2. CASE LineFails(line, Mask1 \cup Mask2) /\ Return("error")
    BY <1>4, <2>0, <2>2, LineFailsFacts DEF CopyLine, Return
  <2> QED BY <1>4, <2>1, <2>2 DEF CopyLine
<1>5. CASE CopyAborts
  BY <1>5 DEF CopyAborts
<1>6. CASE Transfer
  <2>1. moved' \in SUBSET Enabled
    BY <1>6 DEF Transfer, Accessed
  <2>2. plan # <<>> /\ plan \in Seq(SUBSET Enabled) /\ Tail(plan) \in Seq(SUBSET Enabled)
    BY <1>6 DEF Transfer
  <2>3. CASE Tail(plan) = <<>>
    BY <1>6, <2>1, <2>3 DEF Transfer, Return
  <2>4. CASE Tail(plan) # <<>>
    BY <1>0, <1>6, <2>1, <2>2, <2>4 DEF Transfer, LocalsInv
  <2> QED BY <2>3, <2>4
<1>7. CASE TransferFails
  BY <1>7 DEF TransferFails, Return, Mishap
<1>8. CASE BootRank
  BY <1>0, <1>8 DEF BootRank, Booting, LocalsInv
<1>9. CASE SwitchBootRank
  <2>1. CASE RankOk(FALSE) /\ Continue("boot") /\ UNCHANGED <<line, failures>>
    BY <1>9, <2>1, RankOkFacts DEF SwitchBootRank, Continue
  <2>2. CASE RankFails(FALSE) /\ Return("error")
    <3>1. recorded' \in SUBSET Dpus /\ mux' \in SUBSET Dpus /\ failures' \in Nat
      BY <2>2, RankFailsFacts
    <3> QED BY <1>a, <1>9, <2>2, <3>1 DEF SwitchBootRank, Return
  <2>3. CASE known # {} /\ Return("error") /\ UNCHANGED <<muxes, failures>>
    BY <1>9, <2>3 DEF SwitchBootRank, Return
  <2> QED BY <1>9, <2>1, <2>2, <2>3 DEF SwitchBootRank
<1>10. CASE SwitchBootLines
  <2> DEFINE mask == OnLine(recorded, line) \ LiveCis
  <2>0. line \in Lines /\ mask \in SUBSET Cis
    BY <1>10, MasksAreCis DEF SwitchBootLines
  <2>1. CASE LineOk(line, mask) /\ pc' \in {"boot_lines", "boot"} /\ result' = result
             /\ line' = (IF line + 1 < NrDpusPerCi THEN line + 1 ELSE 0)
             /\ UNCHANGED <<plan, booting, failures>>
    <3>1. line' \in Nat /\ line' \in Lines
      BY <1>0, <2>0, <2>1, TopologyAssumption DEF Lines
    <3> QED BY <1>10, <2>0, <2>1, <3>1, LineOkFacts DEF SwitchBootLines
  <2>2. CASE LineFails(line, mask) /\ Return("error")
    BY <1>10, <2>0, <2>2, LineFailsFacts DEF SwitchBootLines, Return
  <2>3. CASE LineBusy(line, mask) /\ Return("error")
    BY <1>10, <2>3 DEF SwitchBootLines, Return, LineBusy
  <2> QED BY <1>10, <2>1, <2>2, <2>3 DEF SwitchBootLines, Continue
<1>11. ASSUME NEW x \in Enabled, BootDpu(x) PROVE TypeOK'
  <2>1. x[2] \in Lines
    BY EnabledFacts
  <2> QED BY <1>0, <1>11, <2>1 DEF BootDpu, Booting
<1>12. CASE SwitchBootLine
  <2>0. line \in Lines /\ BootMask \in SUBSET Cis
    BY <1>12, MasksAreCis DEF SwitchBootLine
  <2>1. CASE LineOk(line, BootMask) /\ Continue("boot") /\ UNCHANGED <<line, failures>>
    BY <1>12, <2>0, <2>1, LineOkFacts DEF SwitchBootLine, Continue
  <2>2. CASE LineFails(line, BootMask) /\ Return("error")
    BY <1>12, <2>0, <2>2, LineFailsFacts DEF SwitchBootLine, Return
  <2>3. CASE LineBusy(line, BootMask) /\ Return("error")
    BY <1>12, <2>3 DEF SwitchBootLine, Return, LineBusy
  <2> QED BY <1>12, <2>1, <2>2, <2>3 DEF SwitchBootLine
<1>13. CASE Boot
  BY <1>13 DEF Boot, Return
<1>14. CASE BootFails
  <2>1. PICK S \in SUBSET booting : running' = running \cup S
    BY <1>14 DEF BootFails
  <2>2. running' \in SUBSET Enabled
    BY <2>1
  <2> QED BY <1>14, <2>2 DEF BootFails, Return, Mishap
<1>15. CASE Poll
  BY <1>15 DEF Poll
<1>16. ASSUME NEW x \in Enabled, Stop(x) PROVE TypeOK'
  BY <1>16 DEF Stop
<1>17. CASE UNCHANGED vars
  BY <1>17 DEF vars
<1> QED BY <1>1, <1>2, <1>3, <1>4, <1>5, <1>6, <1>7, <1>8, <1>9, <1>10, <1>11, <1>12, <1>13,
   <1>14, <1>15, <1>16, <1>17 DEF Next

\* The only ways to move a mux or to change its record.
LineMoves(d, mask) == LineOk(d, mask) \/ LineFails(d, mask)
RankMoves(host) == RankOk(host) \/ RankFails(host)

\* Every step that touches the record or the muxes is a switch of lines or of the rank.
LEMMA MuxSteps ==
  ASSUME TypeOK, [Next]_vars
  PROVE  \/ UNCHANGED muxes
         \/ \E d \in Lines, mask \in SUBSET Cis : LineMoves(d, mask)
         \/ \E host \in BOOLEAN : RankMoves(host)
<1> USE DEF muxes, LineMoves, RankMoves
<1>1. CASE CopyRank
  BY <1>1 DEF CopyRank
<1>2. CASE CopyLine
  <2>1. line \in Lines /\ Mask1 \cup Mask2 \in SUBSET Cis
    BY <1>2, MasksAreCis DEF CopyLine, TypeOK
  <2> QED BY <1>2, <2>1 DEF CopyLine
<1>3. CASE SwitchBootRank
  BY <1>3 DEF SwitchBootRank
<1>4. CASE SwitchBootLines
  <2>1. line \in Lines /\ OnLine(recorded, line) \ LiveCis \in SUBSET Cis
    BY <1>4, MasksAreCis DEF SwitchBootLines, TypeOK
  <2> QED BY <1>4, <2>1 DEF SwitchBootLines, LineBusy
<1>5. CASE SwitchBootLine
  <2>1. line \in Lines /\ BootMask \in SUBSET Cis
    BY <1>5, MasksAreCis DEF SwitchBootLine, TypeOK
  <2> QED BY <1>5, <2>1 DEF SwitchBootLine, LineBusy
<1>6. ASSUME NEW M \in Matrices, Copy(M) PROVE UNCHANGED muxes
  BY <1>6 DEF Copy
<1>7. ASSUME NEW x \in Enabled, BootDpu(x) \/ Stop(x) PROVE UNCHANGED muxes
  BY <1>7 DEF BootDpu, Booting, Stop
<1>8. CASE CopyAborts \/ CopyRefused \/ Transfer \/ TransferFails \/ BootRefused \/ BootRank
           \/ Boot \/ BootFails \/ Poll \/ UNCHANGED vars
  BY <1>8 DEF CopyAborts, CopyRefused, Transfer, TransferFails, BootRefused, BootRank, Booting,
              Boot, BootFails, Poll, vars
<1> QED BY <1>1, <1>2, <1>3, <1>4, <1>5, <1>6, <1>7, <1>8 DEF Next

\* The record of a line is the record of the base of its pair.
LEMMA PairsStep ==
  ASSUME TypeOK, PairsAgree, [Next]_vars
  PROVE  PairsAgree'
<1>1. \A d \in Lines, c \in Cis : <<c, d>> \in recorded <=> <<c, Base(d)>> \in recorded
  BY DEF PairsAgree, OnLine
<1>2. SUFFICES \A d \in Lines, c \in Cis : <<c, d>> \in recorded' <=> <<c, Base(d)>> \in recorded'
  BY DEF PairsAgree, OnLine
<1>3. CASE UNCHANGED muxes
  BY <1>1, <1>3 DEF muxes
<1>4. ASSUME NEW d \in Lines, NEW mask \in SUBSET Cis, LineMoves(d, mask)
      PROVE  \A l \in Lines, c \in Cis : <<c, l>> \in recorded' <=> <<c, Base(l)>> \in recorded'
  <2>1. \A c \in Cis, l \in Lines :
          <<c, l>> \in recorded' <=> IF l \in Pair(d) THEN c \in mask ELSE <<c, l>> \in recorded
    BY <1>4, LineOkFacts, LineFailsFacts DEF LineMoves
  <2>2. ASSUME NEW l \in Lines, NEW c \in Cis
        PROVE  <<c, l>> \in recorded' <=> <<c, Base(l)>> \in recorded'
    <3>1. Base(l) \in Lines /\ (l \in Pair(d) <=> Base(l) \in Pair(d))
      BY PairFacts
    <3> QED BY <1>1, <2>1, <3>1
  <2> QED BY <2>2
<1>5. ASSUME NEW host \in BOOLEAN, RankMoves(host)
      PROVE  \A l \in Lines, c \in Cis : <<c, l>> \in recorded' <=> <<c, Base(l)>> \in recorded'
  <2>1. \A c \in Cis, l \in Lines : <<c, l>> \in recorded' <=> host
    BY <1>5, RankOkFacts, RankFailsFacts DEF RankMoves
  <2>2. \A l \in Lines : Base(l) \in Lines
    BY PairFacts
  <2> QED BY <2>1, <2>2
<1> QED BY <1>3, <1>4, <1>5, MuxSteps

\* What the program counter says of the locals.
LEMMA LocalsStep ==
  ASSUME TypeOK, LocalsInv, [Next]_vars
  PROVE  LocalsInv'
<1> USE DEF LocalsInv, Copying, muxes, dpus, matrices
<1>0. ASSUME Return("error") \/ Return("ok") PROVE LocalsInv'
  BY <1>0 DEF Return
<1>1. CASE CopyRefused \/ BootRefused \/ TransferFails \/ Boot \/ BootFails
  BY <1>0, <1>1 DEF CopyRefused, BootRefused, TransferFails, Boot, BootFails
<1>2. ASSUME NEW M \in Matrices, Copy(M) PROVE LocalsInv'
  <2>1. M \in SUBSET Enabled
    BY MatricesAssumption
  <2>2. Base(0) = 0
    BY DEF Base
  <2>3. pc' = "copy_rank" => plan' = <<asked'>> /\ asked' = Enabled
    <3>1. pc' = "copy_rank" => Enabled \subseteq M /\ ~DuplicationNeeded(M)
      BY <1>2 DEF Copy, IsTransferMatrixFull
    <3>2. plan' = Plan(M) /\ asked' = M
      BY <1>2 DEF Copy
    <3>3. ~DuplicationNeeded(M) => Plan(M) = <<M>>
      BY DEF Plan
    <3> QED BY <2>1, <3>1, <3>2, <3>3
  <2>4. pc' \in {"copy_rank", "copy_line"} /\ line' = 0 /\ result' = "pending"
    BY <1>2 DEF Copy
  <2> QED BY <2>2, <2>3, <2>4
<1>3. CASE CopyRank
  BY <1>0, <1>3 DEF CopyRank, Continue
<1>4. CASE CopyLine
  <2>1. CASE NextPair
    <3>1. line \in Lines /\ Base(line) = line
      BY <1>4 DEF CopyLine, TypeOK
    <3>2. line \in Nat /\ Base(line + 2) = Base(line) + 2
      BY <3>1, TopologyAssumption DEF Base, Lines
    <3> QED BY <1>4, <2>1, <3>1, <3>2 DEF CopyLine, NextPair, Continue
  <2> QED BY <1>0, <1>4, <2>1 DEF CopyLine
<1>5. CASE CopyAborts
  BY <1>5 DEF CopyAborts
<1>6. CASE Transfer
  <2>1. Base(0) = 0
    BY DEF Base
  <2> QED BY <1>0, <1>6, <2>1 DEF Transfer
<1>7. CASE BootRank
  BY <1>7 DEF BootRank, Booting
<1>8. CASE SwitchBootRank
  BY <1>0, <1>8 DEF SwitchBootRank, Continue
<1>9. CASE SwitchBootLines
  BY <1>0, <1>9 DEF SwitchBootLines, Continue
<1>10. ASSUME NEW x \in Enabled, BootDpu(x) PROVE LocalsInv'
  <2>1. x \in Cis \X {x[2]}
    BY EnabledFacts
  <2> QED BY <1>10, <2>1 DEF BootDpu, Booting
<1>11. CASE SwitchBootLine
  BY <1>0, <1>11 DEF SwitchBootLine, Continue
<1>12. CASE Poll
  BY <1>12 DEF Poll
<1>13. ASSUME NEW x \in Enabled, Stop(x) PROVE LocalsInv'
  BY <1>13 DEF Stop
<1>14. CASE UNCHANGED vars
  BY <1>14 DEF vars
<1> QED BY <1>1, <1>2, <1>3, <1>4, <1>5, <1>6, <1>7, <1>8, <1>9, <1>10, <1>11, <1>12, <1>13,
   <1>14 DEF Next

\* The DPUs about to boot get their muxes, and nobody takes them back.
LEMMA BootStep ==
  ASSUME TypeOK, LocalsInv, BootReady, [Next]_vars
  PROVE  BootReady'
<1> USE DEF BootReady, muxes
<1>0. Enabled \subseteq Dpus /\ LiveCis \subseteq Cis /\ booting \subseteq Enabled
      /\ \A x \in Enabled : x[1] \in LiveCis /\ x[2] \in Lines /\ x = <<x[1], x[2]>>
  BY EnabledFacts DEF TypeOK
<1>1. ASSUME pc' \notin {"boot_lines", "boot"} PROVE BootReady'
  BY <1>1
<1>2. CASE CopyRefused \/ BootRefused \/ TransferFails \/ Boot \/ BootFails \/ Transfer
           \/ CopyRank \/ CopyLine
  BY <1>1, <1>2 DEF CopyRefused, BootRefused, TransferFails, Boot, BootFails, Transfer, CopyRank,
                    CopyLine, NextPair, Return, Continue
<1>3. ASSUME NEW M \in Matrices, Copy(M) PROVE BootReady'
  BY <1>1, <1>3 DEF Copy
<1>4. CASE CopyAborts \/ Poll \/ UNCHANGED vars
  BY <1>4 DEF CopyAborts, Poll, vars
<1>5. ASSUME NEW x \in Enabled, Stop(x) PROVE BootReady'
  BY <1>5 DEF Stop
<1>6. CASE BootRank
  <2>1. line' = 0 /\ pc' # "boot"
    BY <1>6 DEF BootRank, Booting, LocalsInv
  <2> QED BY <2>1, TopologyAssumption DEF Lines
<1>7. CASE SwitchBootRank
  <2>1. CASE RankOk(FALSE) /\ Continue("boot")
    <3>1. \A c \in Cis, l \in Lines : <<c, l>> \notin recorded'
      BY <2>1, RankOkFacts
    <3> QED BY <1>0, <2>1, <3>1 DEF Continue
  <2> QED BY <1>1, <1>7, <2>1 DEF SwitchBootRank, Return
<1>8. CASE SwitchBootLines
  <2> DEFINE mask == OnLine(recorded, line) \ LiveCis
  <2>1. line \in Lines /\ mask \in SUBSET Cis /\ booting = Enabled
    BY <1>8, MasksAreCis DEF SwitchBootLines, TypeOK, LocalsInv
  <2>2. CASE /\ LineOk(line, mask)
             /\ line' = IF line + 1 < NrDpusPerCi THEN line + 1 ELSE 0
             /\ Continue(IF line + 1 < NrDpusPerCi THEN "boot_lines" ELSE "boot")
    <3>1. \A c \in Cis, l \in Lines :
            <<c, l>> \in recorded' <=> IF l \in Pair(line) THEN c \in mask ELSE <<c, l>> \in recorded
      BY <2>1, <2>2, LineOkFacts
    <3>2. line \in Pair(line)
      BY <2>1, PairFacts
    <3>3. \A c \in LiveCis, l \in Lines : l < line => <<c, l>> \notin recorded
      BY <1>8 DEF SwitchBootLines
    <3>4. \A c \in LiveCis, l \in Lines : l < line + 1 => <<c, l>> \notin recorded'
      <4> SUFFICES ASSUME NEW c \in LiveCis, NEW l \in Lines, l < line + 1 PROVE <<c, l>> \notin recorded'
        OBVIOUS
      <4>1. c \in Cis /\ c \notin mask
        BY <1>0
      <4>2. CASE l \in Pair(line)
        BY <3>1, <4>1, <4>2
      <4>3. CASE l \notin Pair(line)
        <5>1. l < line
          BY <2>1, <3>2, <4>3, TopologyAssumption DEF Lines
        <5> QED BY <3>1, <3>3, <4>1, <4>3, <5>1
      <4> QED BY <4>2, <4>3
    <3>5. CASE line + 1 < NrDpusPerCi
      BY <2>2, <3>4, <3>5 DEF Continue
    <3>6. CASE ~(line + 1 < NrDpusPerCi)
      <4>1. \A l \in Lines : l < line + 1
        BY <2>1, <3>6, TopologyAssumption DEF Lines
      <4>2. \A c \in LiveCis, l \in Lines : <<c, l>> \notin recorded'
        BY <3>4, <4>1
      <4>3. booting' = Enabled /\ pc' = "boot"
        BY <2>1, <2>2, <3>6 DEF Continue
      <4>4. \A x \in Enabled : x \notin recorded'
        BY <1>0, <4>2
      <4> QED BY <4>3, <4>4
    <3> QED BY <3>5, <3>6
  <2> QED BY <1>1, <1>8, <2>2 DEF SwitchBootLines, Return
<1>9. ASSUME NEW x \in Enabled, BootDpu(x) PROVE BootReady'
  BY <1>1, <1>9 DEF BootDpu, Booting
<1>10. CASE SwitchBootLine
  <2>1. line \in Lines /\ BootMask \in SUBSET Cis /\ booting \subseteq Cis \X {line}
    BY <1>10, MasksAreCis DEF SwitchBootLine, TypeOK, LocalsInv
  <2>2. CASE LineOk(line, BootMask) /\ Continue("boot")
    <3>1. \A c \in Cis : <<c, line>> \in recorded' <=> c \in BootMask
      BY <2>1, <2>2, LineOkFacts, PairFacts
    <3>2. \A x \in booting : x[1] \in Cis /\ x = <<x[1], line>> /\ x[1] \notin BootMask
      BY <2>1 DEF BootMask
    <3>3. \A x \in booting : x \notin recorded'
      BY <3>1, <3>2
    <3> QED BY <2>2, <3>3 DEF Continue
  <2> QED BY <1>1, <1>10, <2>2 DEF SwitchBootLine, Return
<1> QED BY <1>2, <1>3, <1>4, <1>5, <1>6, <1>7, <1>8, <1>9, <1>10 DEF Next

\* As long as no command fails, the record is true and the DPUs own what they use.
LEMMA ObedientStep ==
  ASSUME TypeOK, BootReady, Obedient, [Next]_vars
  PROVE  Obedient'
<1>0. SUFFICES ASSUME failures' = 0
               PROVE  running' \subseteq known' /\ Synced' /\ running' \cap mux' = {}
  BY DEF Obedient
<1>1. failures = 0
  <2>1. failures \in Nat /\ (failures' = failures \/ failures' = failures + 1)
    BY DEF TypeOK, Next, vars, CopyRefused, Copy, CopyRank, CopyLine, CopyAborts, NextPair, Transfer,
           TransferFails, BootRefused, BootRank, Booting, SwitchBootRank, SwitchBootLines, BootDpu,
           SwitchBootLine, Boot, BootFails, Poll, Stop, Mishap, LineFails, LineBusy, RankFails
  <2> QED BY <1>0, <2>1
<1>2. running \subseteq known /\ Synced /\ running \cap mux = {}
  BY <1>1 DEF Obedient
<1>3. ASSUME UNCHANGED dpus, UNCHANGED muxes \/ (\E d \in Lines, mask \in SUBSET Cis : LineMoves(d, mask))
                             \/ (\E host \in BOOLEAN : RankMoves(host))
      PROVE  running' \subseteq known' /\ Synced' /\ running' \cap mux' = {}
  <2>1. CASE UNCHANGED muxes
    BY <1>2, <1>3, <2>1 DEF muxes, dpus, Synced
  <2>2. ASSUME NEW d \in Lines, NEW mask \in SUBSET Cis, LineMoves(d, mask)
        PROVE  Synced' /\ running \cap mux' = {}
    BY <1>0, <1>2, <2>2, LineOkFacts, LineFailsFacts DEF LineMoves
  <2>3. ASSUME NEW host \in BOOLEAN, RankMoves(host)
        PROVE  Synced' /\ running \cap mux' = {}
    BY <1>0, <1>2, <2>3, RankOkFacts, RankFailsFacts DEF RankMoves
  <2> QED BY <1>2, <1>3, <2>1, <2>2, <2>3 DEF dpus
<1>4. CASE UNCHANGED dpus
  BY <1>3, <1>4, MuxSteps
<1>5. CASE Boot
  <2>1. booting \cap recorded = {} /\ booting \subseteq Enabled
    BY <1>5 DEF Boot, BootReady, TypeOK
  <2>2. \A x \in booting : x[1] \in LiveCis /\ x[2] \in Lines /\ x = <<x[1], x[2]>>
    BY <2>1, EnabledFacts
  <2>3. booting \cap mux = {}
    BY <1>2, <2>1, <2>2 DEF Synced
  <2> QED BY <1>2, <1>5, <2>3 DEF Boot, muxes, Synced
<1>6. CASE BootFails
  BY <1>0, <1>1, <1>6 DEF BootFails, Mishap
<1>7. ASSUME running' \subseteq running, running' \subseteq known', UNCHANGED muxes
      PROVE  running' \subseteq known' /\ Synced' /\ running' \cap mux' = {}
  BY <1>2, <1>7 DEF muxes, Synced
<1>8. CASE Poll
  BY <1>7, <1>8 DEF Poll
<1>9. CASE BootRank
  BY <1>7, <1>9 DEF BootRank, Booting
<1>10. ASSUME NEW x \in Enabled, BootDpu(x) \/ Stop(x)
       PROVE  running' \subseteq known' /\ Synced' /\ running' \cap mux' = {}
  BY <1>2, <1>7, <1>10 DEF BootDpu, Booting, Stop
<1> QED BY <1>4, <1>5, <1>6, <1>8, <1>9, <1>10 DEF Next, vars, CopyRefused, Copy, CopyRank, CopyLine,
     CopyAborts, Transfer, TransferFails, BootRefused, SwitchBootRank, SwitchBootLines, SwitchBootLine

\* The backend accesses exactly the DPUs of a matrix whose lines are prepared.
LEMMA AccessExact ==
  ASSUME NEW M \in SUBSET Enabled, \A l \in Lines : Prepared(M, l)
  PROVE  Accessed(M) = M
<1>1. \A x \in Enabled : x[1] \in Cis /\ x[2] \in Lines /\ x = <<x[1], x[2]>>
  BY EnabledFacts
<1>2. ASSUME NEW x \in Enabled, OnLine(M, x[2]) # {} PROVE x \in mux <=> x \in M
  BY <1>1, <1>2 DEF Prepared
<1>3. ASSUME NEW x \in M PROVE OnLine(M, x[2]) # {}
  BY <1>1 DEF OnLine
<1> QED BY <1>2, <1>3 DEF Accessed

\* A copy prepares the lines of its current matrix one pair after the other, and
\* loses nothing of the matrix when it is split.
LEMMA CopyStep ==
  ASSUME TypeOK, LocalsInv, Obedient, CopyReady, [Next]_vars
  PROVE  CopyReady'
<1> USE DEF muxes, dpus, matrices
<1>0. SUFFICES ASSUME failures' = 0 PROVE CopyReady'
  BY DEF CopyReady
<1>1. failures = 0
  <2>1. failures \in Nat /\ (failures' = failures \/ failures' = failures + 1)
    BY DEF TypeOK, Next, vars, CopyRefused, Copy, CopyRank, CopyLine, CopyAborts, NextPair, Transfer,
           TransferFails, BootRefused, BootRank, Booting, SwitchBootRank, SwitchBootLines, BootDpu,
           SwitchBootLine, Boot, BootFails, Poll, Stop, Mishap, LineFails, LineBusy, RankFails
  <2> QED BY <1>0, <2>1
<1>2. /\ pc \in Copying => PlanSound
      /\ pc = "copy_line" => \A l \in Lines : l < line => Prepared(Head(plan), l)
      /\ pc = "transfer" => \A l \in Lines : Prepared(Head(plan), l)
      /\ moved \subseteq asked /\ (result = "ok" => moved = asked)
  BY <1>1 DEF CopyReady
<1>3. Synced
  BY <1>1 DEF Obedient
<1>a. ASSUME pc' \notin Copying, asked' = asked, moved' = moved, result' = "ok" => moved = asked
      PROVE  CopyReady'
  BY <1>2, <1>a DEF CopyReady, Copying
<1>4. CASE CopyRefused \/ BootRefused \/ TransferFails \/ BootFails
  <2>1. pc' = "idle" /\ result' = "error" /\ asked' = asked /\ moved' = moved
    BY <1>4 DEF CopyRefused, BootRefused, TransferFails, BootFails, Return
  <2> QED BY <1>a, <2>1 DEF Copying
<1>5. ASSUME NEW M \in Matrices, Copy(M) PROVE CopyReady'
  <2>1. plan' = Plan(M) /\ asked' = M /\ moved' = {} /\ line' = 0 /\ result' = "pending"
        /\ pc' \in {"copy_rank", "copy_line"}
    BY <1>5 DEF Copy, LocalsInv
  <2>2. PlanSound'
    BY <2>1 DEF PlanSound, Plan
  <2>3. \A l \in Lines : ~(l < 0)
    BY TopologyAssumption DEF Lines
  <2> QED BY <2>1, <2>2, <2>3 DEF CopyReady
<1>6. CASE CopyRank
  <2>1. CASE RankOk(TRUE) /\ Continue("transfer")
    <3>1. Synced' /\ \A c \in Cis, l \in Lines : <<c, l>> \in recorded'
      BY <1>3, <2>1, RankOkFacts
    <3>2. plan' = <<asked>> /\ asked' = asked /\ moved' = moved /\ asked = Enabled /\ pc' = "transfer"
          /\ result' = "pending"
      BY <1>6, <2>1 DEF CopyRank, Continue, LocalsInv
    <3>3. \A x \in Enabled : x \in mux'
      BY <3>1, EnabledFacts DEF Synced
    <3>4. \A l \in Lines : Prepared(Head(plan), l)'
      BY <3>2, <3>3 DEF Prepared
    <3>5. PlanSound'
      BY <1>2, <1>6, <2>1, <3>2 DEF CopyRank, Continue, PlanSound, Copying
    <3> QED BY <1>2, <3>2, <3>4, <3>5 DEF CopyReady
  <2>2. CASE RankFails(TRUE)
    BY <1>0, <2>2, RankFailsFacts
  <2> QED BY <1>6, <2>1, <2>2 DEF CopyRank
<1>7. CASE CopyLine
  <2> DEFINE mask == Mask1 \cup Mask2
             M == Head(plan)
  <2>0. /\ line \in Lines /\ line + 1 \in Lines /\ Pair(line) = {line, line + 1}
        /\ mask \in SUBSET Cis /\ M \in SUBSET Enabled /\ pc = "copy_line" /\ AssertHolds
    <3>1. line \in Lines /\ Base(line) = line /\ plan # <<>> /\ plan \in Seq(SUBSET Enabled)
      BY <1>7 DEF CopyLine, TypeOK, LocalsInv
    <3> QED BY <1>7, <3>1, PairFacts, MasksAreCis DEF CopyLine, Pair
  <2>1. CASE NextPair /\ (IF mask = {} THEN UNCHANGED muxes ELSE LineOk(line, mask))
    <3>0. /\ plan' = plan /\ asked' = asked /\ moved' = moved /\ result' = "pending"
          /\ line' = IF line + 2 < NrDpusPerCi THEN line + 2 ELSE 0
          /\ pc' = IF line + 2 < NrDpusPerCi THEN "copy_line" ELSE "transfer"
      BY <1>7, <2>1 DEF CopyLine, NextPair, Continue, LocalsInv
    <3>1. ASSUME NEW l \in Lines, l \notin Pair(line), Prepared(M, l) PROVE Prepared(M, l)'
      BY <2>0, <2>1, <3>0, <3>1, LineOkFacts DEF Prepared
    <3>2. ASSUME NEW l \in Pair(line) PROVE Prepared(M, l)'
      <4>1. CASE mask = {}
        <5>1. OnLine(M, l) = {}
          BY <2>0, <3>2, <4>1 DEF Mask1, Mask2
        <5> QED BY <3>0, <5>1 DEF Prepared
      <4>2. CASE mask # {}
        <5>1. /\ Synced'
              /\ \A c \in Cis : <<c, l>> \in recorded' <=> c \in mask
          BY <1>3, <2>0, <2>1, <3>2, <4>2, LineOkFacts
        <5>2. OnLine(M, l) # {} => OnLine(M, l) = mask
          BY <2>0, <3>2 DEF AssertHolds, Mask1, Mask2
        <5>3. ASSUME OnLine(M, l) # {}, NEW c \in Cis, <<c, l>> \in Enabled
              PROVE  <<c, l>> \in mux' <=> <<c, l>> \in M
          <6>1. c \in LiveCis /\ l \in Lines
            BY <2>0, <3>2, <5>3 DEF LiveCis
          <6>2. c \in OnLine(M, l) <=> <<c, l>> \in M
            BY DEF OnLine
          <6> QED BY <5>1, <5>2, <5>3, <6>1, <6>2 DEF Synced
        <5> QED BY <3>0, <5>3 DEF Prepared
      <4> QED BY <4>1, <4>2
    <3>3. ASSUME NEW l \in Lines, l < line + 2 PROVE Prepared(M, l)'
      <4>1. l < line \/ l \in Pair(line)
        BY <2>0, <3>3, TopologyAssumption DEF Lines
      <4>2. l < line => l \notin Pair(line)
        BY <2>0, TopologyAssumption DEF Lines
      <4>3. l < line => Prepared(M, l)
        BY <1>2, <2>0
      <4> QED BY <3>1, <3>2, <4>1, <4>2, <4>3
    <3>4. PlanSound'
      BY <1>2, <2>0, <3>0 DEF PlanSound, Copying
    <3>5. CASE line + 2 < NrDpusPerCi
      BY <1>2, <3>0, <3>3, <3>4, <3>5 DEF CopyReady
    <3>6. CASE ~(line + 2 < NrDpusPerCi)
      <4>1. \A l \in Lines : l < line + 2
        BY <2>0, <3>6, TopologyAssumption DEF Lines
      <4> QED BY <1>2, <3>0, <3>3, <3>4, <3>6, <4>1 DEF CopyReady
    <3> QED BY <3>5, <3>6
  <2>2. CASE LineFails(line, mask)
    BY <1>0, <2>0, <2>2, LineFailsFacts
  <2> QED BY <1>7, <2>1, <2>2 DEF CopyLine
<1>8. CASE CopyAborts \/ Poll \/ UNCHANGED vars
  <2>1. UNCHANGED <<muxes, matrices, pc, plan, line, result>>
    BY <1>8 DEF CopyAborts, Poll, vars
  <2> QED BY <1>2, <2>1 DEF CopyReady, PlanSound, Prepared
<1>9. CASE Transfer
  <2> DEFINE M == Head(plan)
  <2>1. M \in SUBSET Enabled /\ asked \in SUBSET Enabled /\ pc = "transfer" /\ line = 0
    <3>1. plan # <<>> /\ plan \in Seq(SUBSET Enabled)
      BY <1>9 DEF Transfer, TypeOK
    <3> QED BY <1>9, <3>1 DEF Transfer, TypeOK, LocalsInv
  <2>2. moved' = moved \cup M /\ asked' = asked
    BY <1>2, <1>9, <2>1, AccessExact DEF Transfer
  <2>3. PlanSound
    BY <1>2, <2>1 DEF Copying
  <2>4. EvenLines(asked) \cup OddLines(asked) = asked
    BY <2>1, SplitFacts
  <2>5. ASSUME NEW N \in SUBSET Enabled, plan = <<N>>, moved \cup N = asked PROVE CopyReady'
    <3>1. Tail(plan) = <<>> /\ moved \cup M = asked
      BY <2>5
    <3>2. pc' = "idle"
      BY <1>9, <3>1 DEF Transfer, Return
    <3> QED BY <2>2, <3>1, <3>2 DEF CopyReady, Copying
  <2>6. CASE plan = <<EvenLines(asked), OddLines(asked)>> /\ moved = {}
    <3>1. M = EvenLines(asked) /\ Tail(plan) = <<OddLines(asked)>> /\ Tail(plan) # <<>>
      BY <2>6
    <3>2. pc' = "copy_line" /\ plan' = <<OddLines(asked)>> /\ line' = 0 /\ result' = "pending"
      BY <1>9, <2>1, <3>1 DEF Transfer, LocalsInv
    <3>3. PlanSound' /\ moved' \subseteq asked'
      BY <2>2, <2>4, <2>6, <3>1, <3>2 DEF PlanSound
    <3>4. \A l \in Lines : ~(l < 0)
      BY TopologyAssumption DEF Lines
    <3> QED BY <3>2, <3>3, <3>4 DEF CopyReady
  <2> QED BY <2>1, <2>3, <2>4, <2>5, <2>6, SplitFacts DEF PlanSound
<1>10. CASE BootRank
  BY <1>10 DEF BootRank, Booting, CopyReady, Copying
<1>11. ASSUME NEW x \in Enabled, BootDpu(x) PROVE CopyReady'
  BY <1>11 DEF BootDpu, Booting, CopyReady, Copying
<1>12. CASE SwitchBootRank \/ SwitchBootLines \/ SwitchBootLine
  <2>1. pc' \notin Copying /\ asked' = asked /\ moved' = moved /\ result' # "ok"
    BY <1>12 DEF SwitchBootRank, SwitchBootLines, SwitchBootLine, Continue, Return, Copying, LocalsInv
  <2> QED BY <1>a, <2>1
<1>13. CASE Boot
  <2>1. pc' = "idle" /\ asked' = asked /\ moved' = moved /\ asked = {} /\ moved = {}
    BY <1>13 DEF Boot, Return, LocalsInv, Copying
  <2> QED BY <1>a, <2>1 DEF Copying
<1>14. ASSUME NEW x \in Enabled, Stop(x) PROVE CopyReady'
  <2>1. UNCHANGED <<muxes, matrices, pc, plan, line, result>>
    BY <1>14 DEF Stop
  <2> QED BY <1>2, <2>1 DEF CopyReady, PlanSound, Prepared
<1> QED BY <1>0, <1>4, <1>5, <1>6, <1>7, <1>8, <1>9, <1>10, <1>11, <1>12, <1>13, <1>14 DEF Next, CopyReady

-----------------------------------------------------------------------------
(* Theorems.                                                               *)

\* The muxes as dpu_rank_handler_get_rank leaves them satisfy the invariant.
LEMMA InvInit == Init => Inv
<1> SUFFICES ASSUME Init PROVE Inv
  OBVIOUS
<1> USE DEF Init
<1>0. <<>> \in Seq(SUBSET Enabled)
  OBVIOUS
<1>1. TypeOK
  BY <1>0 DEF TypeOK, PC
<1>2. PairsAgree
  BY DEF PairsAgree, OnLine
<1>3. LocalsInv /\ BootReady
  BY DEF LocalsInv, BootReady, Copying
<1>4. Obedient /\ CopyReady
  BY DEF Obedient, Synced, CopyReady, Copying
<1> QED BY <1>1, <1>2, <1>3, <1>4 DEF Inv

\* Every step of a copy, a boot, a poll or a DPU preserves the invariant.
LEMMA InvStep == Inv /\ [Next]_vars => Inv'
  BY TypeStep, PairsStep, LocalsStep, BootStep, ObedientStep, CopyStep DEF Inv

\* The inductive invariant holds in every reachable state of the copies and boots
\* of a rank.
THEOREM InvHolds == Spec => []Inv
  BY InvInit, InvStep, PTL DEF Spec

\* The record, the muxes, the run context and the locals keep their types.
THEOREM TypeCorrect == Spec => []TypeOK
<1>1. Inv => TypeOK
  BY DEF Inv
<1> QED BY <1>1, InvHolds, PTL

\* dpu_switch_mux_for_dpu_line keeps the two lines of a pair together.
THEOREM PairsTogether == Spec => []PairsAgree
<1>1. Inv => PairsAgree
  BY DEF Inv
<1> QED BY <1>1, InvHolds, PTL

\* copy_mram_for_dpus accesses the MRAMs of its matrix, all of them and no other,
\* for every matrix, every set of enabled DPUs and whatever ran before.
THEOREM CopiesExact == Spec => []CopyExact
<1>1. Inv => CopyExact
  BY DEF Inv, CopyReady, CopyExact
<1> QED BY <1>1, InvHolds, PTL

\* A DPU booted by ci_start_thread_rank or ci_start_thread_dpu owns its MRAM as
\* long as it runs.
THEOREM RunningDpusOwnMram == Spec => []RunningOwnsMram
<1>1. Inv => RunningOwnsMram
  BY DEF Inv, Obedient, RunningOwnsMram
<1> QED BY <1>1, InvHolds, PTL

\* No switch of the muxes disturbs a DPU that is recorded as running, whatever
\* commands have failed before or fail in this step.
THEOREM MuxStill == Spec => MuxStillWhileRunning
<1>1. ASSUME Inv, [Next]_vars PROVE StillStep
  <2>0. TypeOK
    BY <1>1 DEF Inv
  <2>1. CASE UNCHANGED muxes
    BY <2>1 DEF muxes, StillStep
  <2>2. ASSUME NEW d \in Lines, NEW mask \in SUBSET Cis, LineMoves(d, mask) PROVE StillStep
    BY <2>0, <2>2, LineOkFacts, LineFailsFacts DEF LineMoves, StillStep
  <2>3. ASSUME NEW host \in BOOLEAN, RankMoves(host) PROVE StillStep
    BY <2>0, <2>3, RankOkFacts, RankFailsFacts DEF RankMoves, StillStep
  <2> QED BY <1>1, <2>0, <2>1, <2>2, <2>3, MuxSteps
<1> QED BY <1>1, InvHolds, PTL DEF Spec, MuxStillWhileRunning

=============================================================================
