----------------------------- MODULE MCSetAlloc -----------------------------
(* Instances of SetAlloc for TLC: four devices of two control interfaces   *)
(* with two DPUs.  The first one has a DPU disabled in its VPD, the third  *)
(* one all of them.                                                        *)
EXTENDS SetAlloc

MCVpdDisabled == {<<1, 1, 0>>} \cup ({3} \X (0 .. 1) \X (0 .. 1))

Plain == [backend |-> "hw", dispatch |-> FALSE, reset |-> TRUE, ok |-> TRUE, sg |-> "off", mask |-> {},
          type |-> 1]
Call(kind, n, p) == [kind |-> kind, n |-> n, p |-> p]
NoReset == [Plain EXCEPT !.reset = FALSE]
Masked == [NoReset EXCEPT !.mask = {<<0, 0>>}]

Symmetry == Permutations(Threads)

MCCalls ==
  {Call("alloc", 2, Plain), Call("alloc", 2, [NoReset EXCEPT !.dispatch = TRUE, !.sg = "on"]),
   Call("alloc", DPU_ALLOCATE_ALL, Masked), Call("ranks", 1, Plain), Call("custom", 3, NoReset),
   Call("comm", 3, [NoReset EXCEPT !.type = 2]), Call("comm", DPU_ALLOCATE_ALL, NoReset), Call("describe", 0, Plain),
   Call("alloc", 2, [NoReset EXCEPT !.ok = FALSE, !.backend = "default"]), Call("alloc", 2, [NoReset EXCEPT !.sg = "bad"])}
=============================================================================
