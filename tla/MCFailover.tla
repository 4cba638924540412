----------------------------- MODULE MCFailover -----------------------------
(* Instances of Failover for TLC: two controllers, each configuration giving *)
(* them one of these tables of modes.                                        *)
EXTENDS Failover, TLC

CONSTANTS a, b

Pair  == {a, b}
OnlyA == {a}

Warm         == [c \in Pair |-> 2]
WarmAndHot   == (a :> 2) @@ (b :> 3)
AloneAndCold == (a :> 0) @@ (b :> 1)
OneCold      == [c \in OnlyA |-> 1]

\* Budgets: starts, SIGINTs, expiries, lost replies, server changes.
Allow(s, i, x, l, v) ==
  [e \in Event |-> CASE e = "start" -> s [] e = "interrupt" -> i
                     [] e = "expiry" -> x [] e = "loss" -> l [] OTHER -> v]
Calm       == Allow(2, 0, 0, 0, 0)
Expiring   == Allow(2, 0, 1, 0, 0)
Unanswering == Allow(3, 0, 0, 1, 0)
Everything == Allow(3, 1, 1, 1, 1)

Symmetry == Permutations(Pair)

=============================================================================
