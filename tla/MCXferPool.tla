----------------------------- MODULE MCXferPool -----------------------------
(* Instances of XferPool for TLC.                                            *)
EXTENDS XferPool

\* The ranks share channel 0.
MCChannelOf == [r \in Ranks |-> 0]
Small(n) == [nb_thread_per_pool |-> n, threshold_1_thread |-> 16, threshold_2_threads |-> 24,
             threshold_4_threads |-> 32]
ThreeThreads == [r \in Ranks |-> Small(3)]
\* Nothing; one word; two words across the 16 KB boundary with a row left out; three
\* words across 4 MB, for every thread and on both sides of a bank.
MCTransfers ==
  {[size |-> 0, offset |-> 0, lines |-> Lines],
   [size |-> 8, offset |-> 0, lines |-> Lines],
   [size |-> 16, offset |-> 16384 - 8, lines |-> Lines \ {1}],
   [size |-> 24, offset |-> 4194304 - 8, lines |-> {0, 1, 4}]}
=============================================================================
