------------------------------ MODULE MCDebug ------------------------------
(* Instances of Debug for TLC: programs of three instructions, so that pcs   *)
(* wrap around, with one fault of each kind.                                 *)
EXTENDS Debug

Code(a, b, c) == 0 :> a @@ 1 :> b @@ 2 :> c
MCPrograms == {Code("work", "fault 1", "stop"), Code("stop", "work", "fault 0"),
               Code("work", "dma", "mem")}
=============================================================================
