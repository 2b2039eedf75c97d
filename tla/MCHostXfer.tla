----------------------------- MODULE MCHostXfer -----------------------------
(* Instances of HostXfer for TLC: two ranks of two DPUs, one DPU disabled.   *)
EXTENDS HostXfer

MCEnabled == (Ranks \X Dpus) \ {<<2, 1>>}
MCSizes == [k \in Kinds |-> 16]

Mram == [kind |-> "mram", address |-> 0, size |-> 16]
Wram == [kind |-> "wram", address |-> 4, size |-> 8]
Iram == [kind |-> "iram", address |-> 8, size |-> 8]
Push(target, dir, s, offset, length, flags) ==
  [target |-> target, dir |-> dir, symbol |-> s, offset |-> offset, length |-> length,
   flags |-> flags]
All == [ranks |-> Ranks, dpu |-> -1]
Rank(r) == [ranks |-> {r}, dpu |-> -1]
Dpu(r, d) == [ranks |-> {r}, dpu |-> d]

MCPrepares ==
  [target : {All, Rank(1)}, buffer : {1}] \cup [target : {Dpu(1, 1), Dpu(2, 0)}, buffer : {2}]
MCPushes ==
  {Push(All, "to", Mram, 8, 8, {}), Push(All, "from", Mram, 0, 16, {"async"}),
   Push(Rank(2), "to", Mram, 0, 4, {}), Push(Rank(1), "to", Wram, 4, 8, {}),
   Push(Rank(1), "to", Wram, 0, 8, {"async"}), Push(Dpu(1, 1), "to", Iram, 0, 8, {"no_reset"}),
   Push(Dpu(2, 0), "to", Mram, 8, 8, {}), Push(Dpu(1, 1), "to", Wram, 4, 8, {})}
MCCopies ==
  {Push(All, "to", Mram, 0, 8, {"async"}) @@ [buffer |-> 1],
   \* fails when it is run
   Push(Rank(2), "to", Mram, 0, 4, {"async"}) @@ [buffer |-> 2],
   Push(Dpu(1, 0), "from", Mram, 0, 16, {}) @@ [buffer |-> 2]}

Block(b, at, length) == [buffer |-> b, at |-> at, length |-> length]
\* Blocks that end inside a word, at its end, and empty ones.
Cut == <<Block(1, 0, 3), Block(2, 2, 0), Block(2, 4, 9), Block(1, 8, 4)>>
Straight == <<Block(2, 0, 8), Block(1, 4, 8)>>
Half == <<Block(1, 3, 5), Block(2, 1, 3)>>
Odd == <<Block(1, 0, 11)>>
\* Blocks to read into: they do not overlap.
Scattered == <<Block(1, 3, 5), Block(1, 8, 8), Block(1, 0, 3)>>
Swapped == <<Block(2, 8, 8), Block(2, 0, 8)>>
Sg(dir, check, one, two) ==
  [dir |-> dir, check |-> check, offset |-> 0, length |-> 16, async |-> check,
   blocks |-> [r \in Ranks |-> [d \in Dpus |-> IF d = 0 THEN one ELSE two]]]

MCSgCalls ==
  {Sg("to", TRUE, Cut, Straight), Sg("to", FALSE, Half, <<>>), Sg("to", FALSE, Odd, Straight),
   Sg("from", TRUE, Scattered, Swapped), Sg("from", FALSE, <<>>, Half),
   \* one rank refuses
   Sg("to", TRUE, Half, Straight)}
=============================================================================
