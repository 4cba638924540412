-------------------------- MODULE RedundancyGroup --------------------------
(***************************************************************************)
(* What a redundancy group promises about its active nodes, whatever its   *)
(* controllers, their threads, watches and sessions do.  A node of a cold  *)
(* or warm group joins only after it has found the group empty; a node     *)
(* joins at most once in a run and stays until that run's session ends.    *)
(* Finding the group empty and joining are two steps: the specification    *)
(* does not promise that only one node is active.                          *)
(***************************************************************************)
EXTENDS Naturals

CONSTANTS Node,           \* the nodes of the group
          ExclusiveNode   \* those that may join an empty group only

VARIABLES member,     \* the nodes that are active
          phase       \* each node's run: "gone", "out", "cleared" or "in"

vars == <<member, phase>>

Init == member = {} /\ phase = [n \in Node |-> "gone"]

Begin(n) ==
  /\ phase[n] = "gone"
  /\ phase' = [phase EXCEPT ![n] = "out"]
  /\ UNCHANGED member

Clear(n) ==
  /\ phase[n] = "out"
  /\ n \in ExclusiveNode => member = {}
  /\ phase' = [phase EXCEPT ![n] = "cleared"]
  /\ UNCHANGED member

Withdraw(n) ==
  /\ phase[n] = "cleared"
  /\ phase' = [phase EXCEPT ![n] = "out"]
  /\ UNCHANGED member

Join(n) ==
  /\ phase[n] = "cleared" \/ (phase[n] = "out" /\ n \notin ExclusiveNode)
  /\ n \notin member
  /\ member' = member \cup {n}
  /\ phase' = [phase EXCEPT ![n] = "in"]

\* The run of n ends; its place may be kept for a while.
End(n) ==
  /\ phase[n] # "gone"
  /\ phase' = [phase EXCEPT ![n] = "gone"]
  /\ member' \in {member, member \ {n}}

\* A place that no run holds any more is given up.
Forget(n) ==
  /\ n \in member /\ phase[n] # "in"
  /\ member' = member \ {n}
  /\ UNCHANGED phase

Next == \E n \in Node :
          Begin(n) \/ Clear(n) \/ Withdraw(n) \/ Join(n) \/ End(n) \/ Forget(n)

Spec == Init /\ [][Next]_vars

=============================================================================
