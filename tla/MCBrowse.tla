----------------------------- MODULE MCBrowse -----------------------------
(***************************************************************************)
(* All address spaces of the root, the Server node and two more, with at   *)
(* most one forward reference from any node to any other but the root, and *)
(* an inverse one for each that is hierarchical.  The root always has the  *)
(* Server node below it.  To keep the instance small, a reference that is  *)
(* not hierarchical lies between a and b or leaves the Server node: the    *)
(* search for a parent passes over it and the other browses follow it.     *)
(***************************************************************************)
EXTENDS Browse

CONSTANTS root, server, a, b

Nodes  == {root, server, a, b}
Others == <<server, a, b>>

Edge  == (Nodes \X {server, a, b}) \ {<<n, n>> : n \in Nodes}
Label == {"none", "hierarchical", "other"}

\* The references of n: the inverse one to each node that refers to it by a
\* hierarchical reference, then its own, in the order of Others.
ReferencesOf(l, n) ==
  LET Own   == SelectSeq(Others, LAMBDA m : m # n /\ l[<<n, m>>] # "none")
      Back  == SelectSeq(Others, LAMBDA m : m # n /\ n # root /\ l[<<m, n>>] = "hierarchical")
  IN [i \in 1..Len(Back) |-> [to |-> Back[i], inverse |-> TRUE, hierarchical |-> TRUE]]
     \o [i \in 1..Len(Own) |-> [to |-> Own[i], inverse |-> FALSE,
                                hierarchical |-> l[<<n, Own[i]>>] = "hierarchical"]]

AllSpaces ==
  {[n \in Nodes |-> ReferencesOf(l, n)] :
     l \in {f \in [Edge -> Label] : /\ f[<<root, server>>] = "hierarchical"
                                  /\ \A e \in {<<root, a>>, <<root, b>>, <<a, server>>, <<b, server>>} :
                                       f[e] # "other"}}

\* All different, and b with the identifier of a in another namespace.
Numbered(j) == [n \in Nodes |-> CASE n = root -> 1 [] n = server -> 2 [] n = a -> 3 [] OTHER -> j]
BothNumberings == {Numbered(3), Numbered(4)}
=============================================================================
