------------------------------ MODULE MramXfer ------------------------------
(* What write_to_rank and read_from_rank promise, whatever threads carry     *)
(* them out: a transfer moves every line of its matrix, once, before it      *)
(* returns, and two transfers of a memory channel never overlap. A channel    *)
(* can be lost while its ranks are closed: nothing is promised of it any more.*)
CONSTANTS Ranks, ChannelOf, Transfers, NoXfer

VARIABLES status, req, done
vars == <<status, req, done>>

Init ==
  /\ status = [r \in Ranks |-> "down"]
  /\ req = [r \in Ranks |-> NoXfer]
  /\ done = [r \in Ranks |-> {}]

Open(r) ==
  /\ status[r] = "down"
  /\ status' = [status EXCEPT ![r] = "up"]
  /\ UNCHANGED <<req, done>>

Close(r) ==
  /\ status[r] = "up"
  /\ status' = [status EXCEPT ![r] = "down"]
  /\ UNCHANGED <<req, done>>

Begin(r) ==
  /\ status[r] = "up"
  /\ \E x \in Transfers : req' = [req EXCEPT ![r] = x]
  /\ status' = [status EXCEPT ![r] = "busy"]
  /\ done' = [done EXCEPT ![r] = {}]

\* The lines a transfer moves: none when its size is zero.
Wanted(x) == IF x.size = 0 THEN {} ELSE x.lines

\* A transfer has begun to move lines and has not returned.
Underway(r) == status[r] = "busy" /\ done[r] # {}

Move(r) ==
  /\ status[r] = "busy"
  /\ \A q \in Ranks \ {r} : ChannelOf[q] = ChannelOf[r] => ~Underway(q)
  /\ \E d \in Wanted(req[r]) \ done[r] : done' = [done EXCEPT ![r] = @ \cup {d}]
  /\ UNCHANGED <<status, req>>

Return(r) ==
  /\ status[r] = "busy"
  /\ done[r] = Wanted(req[r])
  /\ status' = [status EXCEPT ![r] = "up"]
  /\ UNCHANGED <<req, done>>

Lose(c) ==
  /\ \A r \in Ranks : ChannelOf[r] = c => status[r] = "down"
  /\ status' = [r \in Ranks |-> IF ChannelOf[r] = c THEN "lost" ELSE status[r]]
  /\ req' = [r \in Ranks |-> IF ChannelOf[r] = c THEN NoXfer ELSE req[r]]
  /\ done' = [r \in Ranks |-> IF ChannelOf[r] = c THEN {} ELSE done[r]]

Next ==
  \/ \E r \in Ranks : Open(r) \/ Close(r) \/ Begin(r) \/ Move(r) \/ Return(r)
  \/ \E c \in {ChannelOf[r] : r \in Ranks} : Lose(c)

Spec == Init /\ [][Next]_vars
=============================================================================
