--------------------------- MODULE MCMzxidTable ---------------------------
(***************************************************************************)
(* Tables of two to seven buckets for MzxidTable, with three paths.        *)
(***************************************************************************)
EXTENDS MzxidTable

Paths    == 1..3
Distinct == [k \in Paths |-> 5 * k]
Sizes    == <<2, 3, 5, 7>>
=============================================================================
