------------------------------- MODULE MCPidComm -------------------------------
(***************************************************************************)
(* Calls on hypercubes of 8 to 128 DPUs, one to sixteen entangled groups,  *)
(* with every choice of communicating axes.                                *)
(***************************************************************************)
EXTENDS PidComm

Axes(s) == [d \in 0 .. Len(s) - 1 |-> s[d + 1]]
Call(lib, op, s, comm, size, rtype) ==
  [lib |-> lib, op |-> op, axis |-> Axes(s), comm |-> comm, size |-> size, rtype |-> rtype]

Ops == {"AllToAll", "AllGather", "AllReduce", "ReduceScatter"}
Shapes == {<<8, 2>>, <<16>>, <<8, 2, 2>>, <<4, 2, 2>>, <<2, 4, 2>>, <<2, 8>>,
           <<2, 2, 2>>, <<2, 2, 4>>, <<2, 2, 2, 2>>}

\* What the host code does not serve: an all-to-all with a first axis below 8,
\* a gather of such a cube over several groups, and a reduction over both of the
\* axes 2 and 3 of a 2 x 2 cube.
Served(c) ==
  /\ c.op = "AllToAll" => Level(c) = 0
  /\ c.op = "AllGather" => Level(c) = 0 \/ Peers(c) = 1
  /\ c.op \in {"AllReduce", "ReduceScatter"} => ~(Level(c) = 2 /\ {2, 3} \subseteq c.comm)

EveryShape == {Call("api", op, s, comm, 4, 0) : op \in Ops, s \in Shapes, comm \in SUBSET (0 .. 3)}
TwoRanks == {Call("api", op, <<8, 2, 8>>, comm, 1, 0) : op \in Ops \ {"AllToAll"}, comm \in {{1}}}
Reductions == {Call("api", "AllReduce", s, comm, size, rtype) :
                 s \in {<<8, 2>>}, comm \in {{0}, {1}, {0, 1}}, size \in {1, 8}, rtype \in {0, 1}}
Library == {Call("pidcomm_lib", op, s, comm, 1, 0) :
              op \in Ops, s \in {<<8, 2>>, <<4, 2>>, <<2, 2, 2>>}, comm \in SUBSET (0 .. 2)}
Flags == {Call("api", "AllReduce", <<8>>, {0}, 0, 0)}

ServedCalls == {c \in EveryShape \cup TwoRanks \cup Reductions \cup Library \cup Flags :
                  IsCall(c) /\ Served(c)}
===============================================================================
