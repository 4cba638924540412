--------------------------- MODULE MCReplication ---------------------------
(***************************************************************************)
(* Small address spaces and groups for Replication.                        *)
(***************************************************************************)
EXTENDS Replication, TLC

CONSTANTS a, b

Pair == {a, b}
OnlyA == {a}

\* One node; two nodes of the top; a node and its child.
Single  == [n \in {1} |-> 0]
Flat    == [n \in {1, 2} |-> 0]
Nested  == [n \in {1, 2} |-> n - 1]

\* Groups that are running, that start on an address space ZooKeeper holds, and
\* that start on none; with k operations and r kills to come.
Running(S, k)     == [present |-> S, starting |-> {}, ops |-> k, restarts |-> 0]
Starting(S, k, r) == [present |-> S, starting |-> Pair, ops |-> k, restarts |-> r]

RunTwo    == {Running({1, 2}, 2)}
RunOne    == {Running({1}, 2)}
StartCopy == {Starting({1}, 2, 0), Starting({1}, 1, 1), Starting({1, 2}, 0, 1),
              Starting({}, 0, 1), Starting({}, 1, 0)}
StartRest == {Running({}, 2), Running({1}, 1), Starting({1}, 1, 0), Starting({}, 0, 0)}
=============================================================================
