----------------------------- MODULE MzxidProofs -----------------------------
(***************************************************************************)
(* What holds of MzxidTable for any paths, hash values, sizes of the table *)
(* and number of inserts: the types, that every entry is in the chain of   *)
(* its hash however often the table has grown, and that a search answers   *)
(* with the last mzxid inserted until the table grows.  The induction over *)
(* the entries that hashtable_expand moves is by the least counterexample. *)
(***************************************************************************)
EXTENDS MzxidTable, FiniteSets, FiniteSetTheorems, WellFoundedInduction, NaturalsInduction, TLAPS

(* Numbers, and functions defined by recursion on them *)

LEMMA LessIsWellFounded == IsWellFoundedOn({ss \in Nat \X Nat : ss[1] < ss[2]}, Nat)
  BY NatLessThanWellFounded, Zenon DEF OpToRel

LEMMA LeastIn ==
  ASSUME NEW S \in SUBSET Nat, S # {}
  PROVE  \E n \in S : \A m \in S : n <= m
<1> DEFINE Less == {ss \in Nat \X Nat : ss[1] < ss[2]}
<1>1. PICK n \in S : \A m \in S : <<m, n>> \notin Less
  <2>1. IsWellFoundedOn(Less, Nat)
    BY LessIsWellFounded
  <2> HIDE DEF Less
  <2> QED
    BY <2>1, WFMin
<1>2. \A m \in S : ~(m < n)
  BY <1>1
<1> QED
  BY <1>2

\* Induction over a set of numbers, as the least number outside it.
LEMMA Induction ==
  ASSUME NEW P \in SUBSET Nat, 0 \in P, \A n \in P : n + 1 \in P
  PROVE  P = Nat
<1> SUFFICES ASSUME Nat \ P # {} PROVE FALSE
  OBVIOUS
<1>1. PICK n \in Nat \ P : \A m \in Nat \ P : n <= m
  BY LeastIn
<1>2. n # 0 /\ n - 1 \in Nat
  BY <1>1
<1>3. n - 1 \in P
  BY <1>1, <1>2
<1> QED
  BY <1>1, <1>2, <1>3

\* A recursion along 0..m whose step is a function has a solution.
Solvable(S, base, Step, m) ==
  \E f \in [0..m -> S] : f[0] = base /\ \A i \in 1..m : f[i] = Step[<<f[i - 1], i>>]

LEMMA RecursionExists ==
  ASSUME NEW S, NEW base \in S, NEW Step \in [S \X Nat -> S], NEW m \in Nat
  PROVE  Solvable(S, base, Step, m)
<1> DEFINE Solves(f, n) ==
             \A i \in 0..n : f[i] = IF i = 0 THEN base ELSE Step[<<f[i - 1], i>>]
           P == {n \in Nat : \E f \in [0..n -> S] : Solves(f, n)}
<1>1. 0 \in P
  <2>1. [i \in 0..0 |-> base] \in [0..0 -> S] /\ Solves([i \in 0..0 |-> base], 0)
    OBVIOUS
  <2> QED
    BY <2>1
<1>2. ASSUME NEW n \in P PROVE n + 1 \in P
  <2>1. PICK f \in [0..n -> S] : Solves(f, n)
    OBVIOUS
  <2> DEFINE g == [i \in 0..n + 1 |-> IF i = n + 1 THEN Step[<<f[n], n + 1>>] ELSE f[i]]
  <2>2. g \in [0..n + 1 -> S]
    OBVIOUS
  <2>3. ASSUME NEW i \in 0..n + 1
        PROVE  g[i] = IF i = 0 THEN base ELSE Step[<<g[i - 1], i>>]
    <3>1. CASE i = n + 1
      <4>1. i # 0 /\ i - 1 = n /\ n \in 0..n + 1 /\ n # n + 1
        BY <3>1
      <4>2. g[i - 1] = f[n]
        BY <4>1
      <4> QED
        BY <3>1, <4>1, <4>2
    <3>2. CASE i # n + 1
      <4>1. i \in 0..n /\ g[i] = f[i] /\ (i # 0 => g[i - 1] = f[i - 1])
        BY <3>2
      <4>2. f[i] = IF i = 0 THEN base ELSE Step[<<f[i - 1], i>>]
        BY <2>1, <4>1
      <4> QED
        BY <4>1, <4>2
    <3> QED
      BY <3>1, <3>2
  <2>4. Solves(g, n + 1)
    BY <2>3
  <2> HIDE DEF g
  <2> QED
    BY <2>2, <2>4
<1>3. P = Nat
  <2>1. P \subseteq Nat
    OBVIOUS
  <2> HIDE DEF P
  <2> QED
    BY <1>1, <1>2, <2>1, Induction
<1>4. PICK f \in [0..m -> S] : Solves(f, m)
  BY <1>3
<1>5. 0 \in 0..m /\ \A i \in 1..m : i \in 0..m /\ i # 0
  OBVIOUS
<1>6. f[0] = base /\ \A i \in 1..m : f[i] = Step[<<f[i - 1], i>>]
  BY <1>4, <1>5
<1> QED
  BY <1>6 DEF Solvable

-----------------------------------------------------------------------------
(* hashtable_expand *)

TableOf(n)      == [0..n - 1 -> Seq(Entry)]
Positions(t, n) == {p \in (0..n - 1) \X Nat : p[2] \in 1..Len(t[p[1]])}
Placed(t, n)    == \A j \in 0..n - 1 : \A i \in 1..Len(t[j]) : IndexFor(n, t[j][i].h) = j

LEMMA IndexInTable ==
  ASSUME NEW n \in Nat \ {0}, NEW h \in Nat
  PROVE  IndexFor(n, h) \in 0..n - 1
  BY DEF IndexFor

LEMMA PrependInTable ==
  ASSUME NEW n \in Nat \ {0}, NEW t \in TableOf(n), NEW e \in Entry
  PROVE  /\ Prepend(t, n, e) \in TableOf(n)
         /\ IndexFor(n, e.h) \in 0..n - 1
         /\ Prepend(t, n, e)[IndexFor(n, e.h)] = <<e>> \o t[IndexFor(n, e.h)]
         /\ \A j \in 0..n - 1 : j # IndexFor(n, e.h) => Prepend(t, n, e)[j] = t[j]
<1>1. IndexFor(n, e.h) \in 0..n - 1
  BY IndexInTable DEF Entry
<1>2. <<e>> \o t[IndexFor(n, e.h)] \in Seq(Entry)
  BY <1>1 DEF TableOf
<1> QED
  BY <1>1, <1>2 DEF TableOf, Prepend

LEMMA PrependPlaced ==
  ASSUME NEW n \in Nat \ {0}, NEW t \in TableOf(n), NEW e \in Entry, Placed(t, n)
  PROVE  Placed(Prepend(t, n, e), n)
<1> DEFINE x == IndexFor(n, e.h)
           u == Prepend(t, n, e)
<1>1. /\ x \in 0..n - 1 /\ u[x] = <<e>> \o t[x]
      /\ \A j \in 0..n - 1 : j # x => u[j] = t[j]
  BY PrependInTable
<1>2. t[x] \in Seq(Entry)
  BY <1>1 DEF TableOf
<1>3. ASSUME NEW i \in 1..Len(u[x]) PROVE IndexFor(n, u[x][i].h) = x
  <2>1. CASE i = 1
    BY <1>1, <1>2, <2>1
  <2>2. CASE i # 1
    <3>1. i - 1 \in 1..Len(t[x]) /\ u[x][i] = t[x][i - 1]
      BY <1>1, <1>2, <2>2
    <3> QED
      BY <1>1, <3>1 DEF Placed
  <2> QED
    BY <2>1, <2>2
<1> HIDE DEF x, u
<1>4. Placed(u, n)
  BY <1>1, <1>3 DEF Placed
<1> QED
  BY <1>4 DEF u

LEMMA PrependCounts ==
  ASSUME NEW n \in Nat \ {0}, NEW t \in TableOf(n), NEW e \in Entry,
         IsFiniteSet(Positions(t, n))
  PROVE  /\ IsFiniteSet(Positions(Prepend(t, n, e), n))
         /\ Cardinality(Positions(Prepend(t, n, e), n)) = Cardinality(Positions(t, n)) + 1
<1> DEFINE x == IndexFor(n, e.h)
           u == Prepend(t, n, e)
           p == <<x, Len(t[x]) + 1>>
<1>1. /\ x \in 0..n - 1 /\ u[x] = <<e>> \o t[x]
      /\ \A j \in 0..n - 1 : j # x => u[j] = t[j]
  BY PrependInTable
<1>2. Len(t[x]) \in Nat /\ Len(u[x]) = Len(t[x]) + 1
  BY <1>1 DEF TableOf
<1>3. p \notin Positions(t, n)
  BY <1>2 DEF Positions
<1> HIDE DEF x, u
<1>4. Positions(u, n) = Positions(t, n) \cup {p}
  <2>1. \A k \in Nat : k \in 1..Len(u[x]) <=> k \in 1..Len(t[x]) \/ k = Len(t[x]) + 1
    BY <1>2
  <2>2. Len(t[x]) + 1 \in Nat
    BY <1>2
  <2>3. ASSUME NEW q \in (0..n - 1) \X Nat
        PROVE  q[2] \in 1..Len(u[q[1]]) <=> q[2] \in 1..Len(t[q[1]]) \/ q = p
    <3>1. q = <<q[1], q[2]>> /\ q[1] \in 0..n - 1 /\ q[2] \in Nat
      OBVIOUS
    <3>2. CASE q[1] = x
      BY <2>1, <3>1, <3>2
    <3>3. CASE q[1] # x
      BY <1>1, <3>1, <3>3
    <3> QED
      BY <3>2, <3>3
  <2>4. p \in (0..n - 1) \X Nat
    BY <1>1, <2>2
  <2> HIDE DEF p
  <2> QED
    BY <2>3, <2>4 DEF Positions
<1> QED
  BY <1>3, <1>4, FS_AddElement DEF u

\* The walk over the old table.
Walk(n, t, Up) == Up = [i \in 0..n |-> IF i = 0 THEN <<>> ELSE Up[i - 1] \o t[i - 1]]

LEMMA WalkExists ==
  ASSUME NEW n \in Nat, NEW t \in TableOf(n)
  PROVE  \E f : Walk(n, t, f)
<1> DEFINE S == Seq(Entry)
           Step == [x \in S \X Nat |-> IF x[2] \in 1..n THEN x[1] \o t[x[2] - 1] ELSE <<>>]
<1>1. \A s \in S, i \in 1..n : s \o t[i - 1] \in S
  BY DEF TableOf
<1>2. Step \in [S \X Nat -> S] /\ <<>> \in S
  BY <1>1
<1>3. PICK f \in [0..n -> S] : f[0] = <<>> /\ \A i \in 1..n : f[i] = Step[<<f[i - 1], i>>]
  <2> HIDE DEF Step, S
  <2>1. Solvable(S, <<>>, Step, n)
    BY <1>2, RecursionExists
  <2> QED
    BY <2>1, Zenon DEF Solvable
<1>4. ASSUME NEW i \in 1..n PROVE f[i] = f[i - 1] \o t[i - 1]
  <2>1. i - 1 \in 0..n /\ i \in Nat
    OBVIOUS
  <2>2. f[i - 1] \in S
    BY <2>1
  <2>3. Step[<<f[i - 1], i>>] = f[i - 1] \o t[i - 1]
    BY <2>1, <2>2
  <2> HIDE DEF S, Step
  <2> QED
    BY <1>3, <2>3
<1>5. \A i \in 0..n : f[i] = IF i = 0 THEN <<>> ELSE f[i - 1] \o t[i - 1]
  <2>1. \A i \in 0..n : i = 0 \/ i \in 1..n
    OBVIOUS
  <2> HIDE DEF S, Step
  <2> QED
    BY <1>3, <1>4, <2>1, Zenon
<1>6. Walk(n, t, f)
  BY <1>5 DEF Walk
<1> QED
  BY <1>6

LEMMA WalkType ==
  ASSUME NEW n \in Nat, NEW t \in TableOf(n), NEW f, Walk(n, t, f)
  PROVE  /\ f \in [0..n -> Seq(Entry)]
         /\ f[0] = <<>> /\ \A i \in 1..n : f[i] = f[i - 1] \o t[i - 1]
<1>1. f[0] = <<>> /\ \A i \in 1..n : f[i] = f[i - 1] \o t[i - 1]
  BY DEF Walk
<1> DEFINE P == {i \in Nat : i \in 0..n => f[i] \in Seq(Entry)}
<1>2. 0 \in P
  <2>1. <<>> \in Seq(Entry)
    OBVIOUS
  <2> QED
    BY <1>1, <2>1
<1>3. ASSUME NEW i \in P PROVE i + 1 \in P
  <2>1. CASE i + 1 \in 0..n
    <3>1. i \in 0..n - 1 /\ i + 1 \in 1..n /\ (i + 1) - 1 = i
      BY <2>1
    <3>2. f[i] \in Seq(Entry) /\ t[i] \in Seq(Entry)
      BY <1>3, <3>1 DEF TableOf
    <3>3. f[i + 1] = f[i] \o t[i]
      BY <1>1, <3>1
    <3>4. f[i] \o t[i] \in Seq(Entry)
      BY <3>2
    <3>5. f[i + 1] \in Seq(Entry) /\ i + 1 \in Nat
      BY <3>3, <3>4
    <3> QED
      BY <3>5
  <2> QED
    BY <2>1
<1>4. P = Nat
  <2>1. P \subseteq Nat
    OBVIOUS
  <2> HIDE DEF P
  <2> QED
    BY <1>2, <1>3, <2>1, Induction
<1>5. \A i \in 0..n : f[i] \in Seq(Entry)
  BY <1>4
<1> QED
  BY <1>1, <1>5 DEF Walk

LEMMA MetWalks ==
  ASSUME tablelength \in Nat, table \in TableOf(tablelength)
  PROVE  \E f : Walk(tablelength, table, f) /\ Met = f[tablelength]
<1> DEFINE Up == CHOOSE g : Walk(tablelength, table, g)
<1>1. Met = Up[tablelength]
  BY DEF Met, Walk
<1>2. Walk(tablelength, table, Up)
  BY WalkExists
<1> QED
  BY <1>1, <1>2

LEMMA RowFinite ==
  ASSUME NEW b, NEW m \in Nat
  PROVE  IsFiniteSet({b} \X (1..m)) /\ Cardinality({b} \X (1..m)) = m
<1>1. IsFiniteSet({b}) /\ Cardinality({b}) = 1
  BY FS_Singleton
<1>2. IsFiniteSet(1..m) /\ Cardinality(1..m) = m
  <2>1. 1 \in Int /\ m \in Int /\ (IF 1 > m THEN 0 ELSE m - 1 + 1) = m
    OBVIOUS
  <2> QED
    BY <2>1, FS_Interval
<1>3. IsFiniteSet({b} \X (1..m)) /\ Cardinality({b} \X (1..m)) = 1 * m
  <2> DEFINE S == {b}
             T == 1..m
  <2>1. IsFiniteSet(S) /\ Cardinality(S) = 1 /\ IsFiniteSet(T) /\ Cardinality(T) = m
    BY <1>1, <1>2
  <2> HIDE DEF S, T
  <2>2. IsFiniteSet(S \X T) /\ Cardinality(S \X T) = Cardinality(S) * Cardinality(T)
    BY <2>1, FS_Product
  <2>3. IsFiniteSet(S \X T) /\ Cardinality(S \X T) = 1 * m
    BY <2>1, <2>2
  <2> QED
    BY <2>3 DEF S, T
<1> QED
  BY <1>3

LEMMA DisjointUnion ==
  ASSUME NEW A, NEW B, IsFiniteSet(A), IsFiniteSet(B), A \cap B = {}
  PROVE  /\ IsFiniteSet(A \cup B)
         /\ Cardinality(A \cup B) = Cardinality(A) + Cardinality(B)
<1>1. Cardinality(A \cap B) = 0
  BY FS_EmptySet
<1>2. Cardinality(A) \in Nat /\ Cardinality(B) \in Nat
  BY FS_CardinalityType
<1>3. /\ IsFiniteSet(A \cup B)
      /\ Cardinality(A \cup B) = Cardinality(A) + Cardinality(B) - Cardinality(A \cap B)
  BY FS_Union
<1> QED
  BY <1>1, <1>2, <1>3

\* What the walk has met after b chains.
Below(t, n, b) == {p \in Positions(t, n) : p[1] < b}

LEMMA WalkCounts ==
  ASSUME NEW n \in Nat, NEW t \in TableOf(n), NEW f, Walk(n, t, f)
  PROVE  /\ IsFiniteSet(Positions(t, n))
         /\ Cardinality(Positions(t, n)) = Len(f[n])
<1>0. /\ f \in [0..n -> Seq(Entry)]
      /\ f[0] = <<>> /\ \A i \in 1..n : f[i] = f[i - 1] \o t[i - 1]
  BY WalkType
<1> DEFINE P == {b \in Nat : b \in 0..n =>
                   IsFiniteSet(Below(t, n, b)) /\ Cardinality(Below(t, n, b)) = Len(f[b])}
<1>1. 0 \in P
  <2>1. Below(t, n, 0) = {}
    BY DEF Below, Positions
  <2> QED
    BY <1>0, <2>1, FS_EmptySet
<1>2. ASSUME NEW b \in P PROVE b + 1 \in P
  <2> SUFFICES ASSUME b + 1 \in 0..n
               PROVE  /\ IsFiniteSet(Below(t, n, b + 1))
                      /\ Cardinality(Below(t, n, b + 1)) = Len(f[b + 1])
    OBVIOUS
  <2>1. b \in 0..n - 1 /\ b \in 0..n /\ b + 1 \in 1..n /\ (b + 1) - 1 = b
    OBVIOUS
  <2>2. /\ f[b] \in Seq(Entry) /\ t[b] \in Seq(Entry) /\ f[b + 1] = f[b] \o t[b]
    BY <1>0, <2>1 DEF TableOf
  <2>3. Len(f[b + 1]) = Len(f[b]) + Len(t[b]) /\ Len(t[b]) \in Nat /\ Len(f[b]) \in Nat
    BY <2>2
  <2> DEFINE A == Below(t, n, b)
             B == {b} \X (1..Len(t[b]))
  <2>4. Below(t, n, b + 1) = A \cup B /\ A \cap B = {}
    BY <2>1, <2>3 DEF Below, Positions
  <2>5. IsFiniteSet(A) /\ Cardinality(A) = Len(f[b])
    BY <2>1
  <2>6. IsFiniteSet(B) /\ Cardinality(B) = Len(t[b])
    BY <2>3, RowFinite
  <2> HIDE DEF A, B
  <2>7. IsFiniteSet(A \cup B) /\ Cardinality(A \cup B) = Len(f[b]) + Len(t[b])
    <3>1. IsFiniteSet(A \cup B) /\ Cardinality(A \cup B) = Cardinality(A) + Cardinality(B)
      BY <2>4, <2>5, <2>6, DisjointUnion
    <3> QED
      BY <2>5, <2>6, <3>1
  <2> QED
    BY <2>3, <2>4, <2>7
<1>3. P = Nat
  <2>1. P \subseteq Nat
    OBVIOUS
  <2> HIDE DEF P
  <2> QED
    BY <1>1, <1>2, <2>1, Induction
<1>4. IsFiniteSet(Below(t, n, n)) /\ Cardinality(Below(t, n, n)) = Len(f[n])
  BY <1>3
<1>5. Below(t, n, n) = Positions(t, n)
  BY DEF Below, Positions
<1> QED
  BY <1>4, <1>5

\* The moves into the new table.
Moves(n, q, f) ==
  f = [i \in 0..Len(q) |-> IF i = 0 THEN [j \in 0..n - 1 |-> <<>>] ELSE Prepend(f[i - 1], n, q[i])]

EmptyTable(n) == [j \in 0..n - 1 |-> <<>>]

LEMMA EmptyTableOK ==
  ASSUME NEW n \in Nat \ {0}
  PROVE  /\ EmptyTable(n) \in TableOf(n) /\ Placed(EmptyTable(n), n)
         /\ IsFiniteSet(Positions(EmptyTable(n), n))
         /\ Cardinality(Positions(EmptyTable(n), n)) = 0
<1>1. <<>> \in Seq(Entry) /\ Len(<<>>) = 0
  OBVIOUS
<1>2. \A j \in 0..n - 1 : EmptyTable(n)[j] = <<>>
  BY DEF EmptyTable
<1>3. EmptyTable(n) \in TableOf(n)
  BY <1>1 DEF EmptyTable, TableOf
<1>4. Positions(EmptyTable(n), n) = {}
  BY <1>1, <1>2 DEF Positions
<1> QED
  BY <1>1, <1>2, <1>3, <1>4, FS_EmptySet DEF Placed

LEMMA MovesExist ==
  ASSUME NEW n \in Nat \ {0}, NEW q \in Seq(Entry)
  PROVE  \E f : Moves(n, q, f)
<1> DEFINE S == TableOf(n)
           Step == [x \in S \X Nat |->
                      IF x[2] \in 1..Len(q) THEN Prepend(x[1], n, q[x[2]]) ELSE EmptyTable(n)]
<1>1. ASSUME NEW s \in S, NEW i \in 1..Len(q) PROVE Prepend(s, n, q[i]) \in S
  <2>1. q[i] \in Entry
    OBVIOUS
  <2> QED
    BY <2>1, PrependInTable
<1>2. Step \in [S \X Nat -> S] /\ EmptyTable(n) \in S
  BY <1>1, EmptyTableOK
<1>3. PICK f \in [0..Len(q) -> S] :
        f[0] = EmptyTable(n) /\ \A i \in 1..Len(q) : f[i] = Step[<<f[i - 1], i>>]
  <2>1. Len(q) \in Nat
    OBVIOUS
  <2> HIDE DEF Step, S
  <2>2. Solvable(S, EmptyTable(n), Step, Len(q))
    BY <1>2, <2>1, RecursionExists
  <2> QED
    BY <2>2, Zenon DEF Solvable
<1>4. ASSUME NEW i \in 1..Len(q) PROVE f[i] = Prepend(f[i - 1], n, q[i])
  <2>1. i - 1 \in 0..Len(q) /\ i \in Nat
    OBVIOUS
  <2>2. f[i - 1] \in S
    BY <2>1
  <2>3. Step[<<f[i - 1], i>>] = Prepend(f[i - 1], n, q[i])
    BY <2>1, <2>2
  <2> HIDE DEF S, Step
  <2> QED
    BY <1>3, <2>3
<1>5. \A i \in 0..Len(q) :
        f[i] = IF i = 0 THEN [j \in 0..n - 1 |-> <<>>] ELSE Prepend(f[i - 1], n, q[i])
  <2>1. \A i \in 0..Len(q) : i = 0 \/ i \in 1..Len(q)
    OBVIOUS
  <2> HIDE DEF S, Step
  <2> QED
    BY <1>3, <1>4, <2>1, Zenon DEF EmptyTable
<1>6. Moves(n, q, f)
  BY <1>5 DEF Moves
<1> QED
  BY <1>6

LEMMA MovesOK ==
  ASSUME NEW n \in Nat \ {0}, NEW q \in Seq(Entry), NEW f, Moves(n, q, f)
  PROVE  /\ f[Len(q)] \in TableOf(n) /\ Placed(f[Len(q)], n)
         /\ IsFiniteSet(Positions(f[Len(q)], n))
         /\ Cardinality(Positions(f[Len(q)], n)) = Len(q)
<1>0. Len(q) \in Nat
  OBVIOUS
<1>1. f[0] = EmptyTable(n) /\ \A i \in 1..Len(q) : f[i] = Prepend(f[i - 1], n, q[i])
  <2>1. 0 \in 0..Len(q) /\ \A i \in 1..Len(q) : i \in 0..Len(q) /\ i # 0
    BY <1>0
  <2> QED
    BY <2>1, Zenon DEF Moves, EmptyTable
<1> DEFINE Good(i) == /\ f[i] \in TableOf(n) /\ Placed(f[i], n)
                      /\ IsFiniteSet(Positions(f[i], n))
                      /\ Cardinality(Positions(f[i], n)) = i
           P == {i \in Nat : i \in 0..Len(q) => Good(i)}
<1>2. 0 \in P
  BY <1>1, EmptyTableOK
<1>3. ASSUME NEW i \in P PROVE i + 1 \in P
  <2> SUFFICES ASSUME i + 1 \in 0..Len(q) PROVE Good(i + 1)
    OBVIOUS
  <2>1. i \in 0..Len(q) /\ i + 1 \in 1..Len(q) /\ (i + 1) - 1 = i
    OBVIOUS
  <2>2. Good(i) /\ q[i + 1] \in Entry
    BY <2>1
  <2>3. f[i + 1] = Prepend(f[i], n, q[i + 1])
    BY <1>1, <2>1
  <2> QED
    BY <2>2, <2>3, PrependInTable, PrependPlaced, PrependCounts
<1>4. P = Nat
  <2>1. P \subseteq Nat
    OBVIOUS
  <2> HIDE DEF P
  <2> QED
    BY <1>2, <1>3, <2>1, Induction
<1>5. Good(Len(q))
  BY <1>0, <1>4
<1> QED
  BY <1>5

\* The table that has grown holds every entry once, each in the chain of its hash.
LEMMA RehashOK ==
  ASSUME tablelength \in Nat, table \in TableOf(tablelength), NEW n \in Nat \ {0}
  PROVE  /\ Rehash(n) \in TableOf(n) /\ Placed(Rehash(n), n)
         /\ IsFiniteSet(Positions(Rehash(n), n))
         /\ Cardinality(Positions(Rehash(n), n)) = Cardinality(Positions(table, tablelength))
<1>1. PICK f : Walk(tablelength, table, f) /\ Met = f[tablelength]
  BY MetWalks
<1>2. Met \in Seq(Entry) /\ Cardinality(Positions(table, tablelength)) = Len(Met)
  <2>1. f \in [0..tablelength -> Seq(Entry)] /\ tablelength \in 0..tablelength
    <3>1. f \in [0..tablelength -> Seq(Entry)]
      BY <1>1, WalkType
    <3> QED
      BY <3>1
  <2> QED
    BY <1>1, <2>1, WalkCounts
<1> DEFINE To == CHOOSE g : Moves(n, Met, g)
<1>3. Moved(n, Met) = To[Len(Met)]
  BY DEF Moved, Moves
<1>4. Moves(n, Met, To)
  BY <1>2, MovesExist
<1> QED
  BY <1>2, <1>3, <1>4, MovesOK DEF Rehash

-----------------------------------------------------------------------------
(* hashtable_search *)

HitsIn(c, k) == {i \in 1..Len(c) : c[i].h = Hash[k]}
Found(c, k)  == IF HitsIn(c, k) = {} THEN 0 ELSE c[First(HitsIn(c, k))].v

LEMMA SearchFinds ==
  ASSUME NEW k
  PROVE  Hits(k) = HitsIn(Chain(k), k) /\ Search(k) = Found(Chain(k), k)
<1>1. Hits(k) = HitsIn(Chain(k), k)
  BY DEF Hits, HitsIn, Matches, EqualKeys
<1> QED
  BY <1>1, Zenon DEF Search, Found

LEMMA SearchFindsNext ==
  ASSUME NEW k
  PROVE  Search(k)' = Found(Chain(k)', k)
<1>1. Hits(k)' = HitsIn(Chain(k)', k)
  BY DEF Hits, HitsIn, Matches, EqualKeys
<1> QED
  BY <1>1, Zenon DEF Search, Found

LEMMA FirstIn ==
  ASSUME NEW S \in SUBSET Nat, S # {}
  PROVE  First(S) \in S /\ \A j \in S : First(S) <= j
<1>1. \E i \in S : \A j \in S : i <= j
  BY LeastIn
<1> QED
  BY <1>1, Zenon DEF First

LEMMA FirstIs ==
  ASSUME NEW S \in SUBSET Nat, NEW i \in S, \A j \in S : i <= j
  PROVE  First(S) = i
<1>1. First(S) \in S /\ \A j \in S : First(S) <= j
  BY FirstIn
<1>2. First(S) <= i /\ i <= First(S) /\ First(S) \in Nat /\ i \in Nat
  BY <1>1
<1> QED
  BY <1>2

\* A new head of the chain answers for its own hash and hides nothing else.
LEMMA FoundAfterPrepend ==
  ASSUME NEW c \in Seq(Entry), NEW e \in Entry, NEW k
  PROVE  Found(<<e>> \o c, k) = IF e.h = Hash[k] THEN e.v ELSE Found(c, k)
<1> DEFINE d == <<e>> \o c
           H == HitsIn(c, k)
           G == HitsIn(d, k)
<1>1. /\ Len(d) = Len(c) + 1 /\ Len(c) \in Nat
      /\ d[1] = e /\ \A i \in 1..Len(c) : d[i + 1] = c[i]
  OBVIOUS
<1> HIDE DEF d
<1>2. G \in SUBSET Nat /\ H \in SUBSET Nat
  BY DEF HitsIn
<1>3. CASE e.h = Hash[k]
  <2>1. 1 \in G /\ \A j \in G : 1 <= j
    BY <1>1, <1>3 DEF HitsIn
  <2>2. First(G) = 1 /\ G # {}
    BY <1>2, <2>1, FirstIs
  <2> QED
    BY <1>1, <1>3, <2>2 DEF Found, d
<1>4. CASE e.h # Hash[k]
  <2>1. \A i \in H : i + 1 \in G /\ d[i + 1] = c[i]
    BY <1>1 DEF HitsIn
  <2>2. \A j \in G : j - 1 \in H /\ (j - 1) + 1 = j
    <3> SUFFICES ASSUME NEW j \in G PROVE j - 1 \in H /\ (j - 1) + 1 = j
      OBVIOUS
    <3>1. j \in 1..Len(c) + 1 /\ d[j].h = Hash[k]
      BY <1>1 DEF HitsIn
    <3>2. j # 1
      BY <1>1, <1>4, <3>1
    <3>3. j - 1 \in 1..Len(c) /\ (j - 1) + 1 = j
      BY <1>1, <3>1, <3>2
    <3> QED
      BY <1>1, <3>1, <3>3 DEF HitsIn
  <2>3. CASE H = {}
    BY <1>4, <2>2, <2>3 DEF Found, d
  <2>4. CASE H # {}
    <3> DEFINE m == First(H)
    <3>1. m \in H /\ \A i \in H : m <= i
      BY <1>2, <2>4, FirstIn
    <3> HIDE DEF m
    <3>2. m + 1 \in G /\ \A j \in G : m + 1 <= j
      <4>1. m \in Nat /\ \A j \in G : j \in Nat /\ m <= j - 1
        BY <1>2, <2>2, <3>1
      <4> QED
        BY <2>1, <3>1, <4>1
    <3>3. First(G) = m + 1 /\ G # {}
      BY <1>2, <3>2, FirstIs
    <3>4. d[m + 1] = c[m]
      BY <2>1, <3>1
    <3> QED
      BY <1>4, <2>4, <3>3, <3>4 DEF Found, d, m
  <2> QED
    BY <2>3, <2>4
<1> QED
  BY <1>3, <1>4

Without(c, x) == SubSeq(c, 1, x - 1) \o SubSeq(c, x + 1, Len(c))

LEMMA ConcatOK ==
  ASSUME NEW E, NEW a \in Seq(E), NEW b \in Seq(E)
  PROVE  a \o b \in Seq(E) /\ Len(a \o b) = Len(a) + Len(b)
  OBVIOUS

LEMMA WithoutEntry ==
  ASSUME NEW c \in Seq(Entry), NEW x \in 1..Len(c)
  PROVE  /\ Without(c, x) \in Seq(Entry) /\ Len(Without(c, x)) = Len(c) - 1
         /\ \A i \in 1..Len(c) - 1 : Without(c, x)[i] = IF i < x THEN c[i] ELSE c[i + 1]
<1> DEFINE a == SubSeq(c, 1, x - 1)
           b == SubSeq(c, x + 1, Len(c))
<1>1. /\ a \in Seq(Entry) /\ Len(a) = x - 1 /\ \A i \in 1..x - 1 : a[i] = c[i]
  OBVIOUS
<1>2. /\ b \in Seq(Entry) /\ Len(b) = Len(c) - x /\ \A i \in 1..Len(c) - x : b[i] = c[x + i]
  OBVIOUS
<1> HIDE DEF a, b
<1>3. a \o b \in Seq(Entry) /\ Len(a \o b) = Len(c) - 1
  <2>1. a \o b \in Seq(Entry) /\ Len(a \o b) = Len(a) + Len(b)
    BY <1>1, <1>2, ConcatOK
  <2>2. (x - 1) + (Len(c) - x) = Len(c) - 1
    OBVIOUS
  <2> QED
    BY <1>1, <1>2, <2>1, <2>2
<1>4. ASSUME NEW i \in 1..Len(c) - 1 PROVE (a \o b)[i] = IF i < x THEN c[i] ELSE c[i + 1]
  <2>1. CASE i < x
    <3>1. i \in 1..Len(a) /\ i \in 1..x - 1
      BY <1>1, <2>1
    <3> QED
      BY <1>1, <1>2, <2>1, <3>1
  <2>2. CASE ~(i < x)
    <3>1. i - (x - 1) \in 1..Len(b) /\ i - (x - 1) \in 1..Len(c) - x /\ x + (i - (x - 1)) = i + 1
      BY <1>2, <2>2
    <3>2. (a \o b)[i] = b[i - Len(a)]
      BY <1>1, <1>2, <1>3, <2>2
    <3> QED
      BY <1>1, <1>2, <2>2, <3>1, <3>2
  <2> QED
    BY <2>1, <2>2
<1> QED
  BY <1>3, <1>4 DEF Without, a, b

\* An entry that goes is not missed by a search for another hash.
LEMMA FoundAfterRemoval ==
  ASSUME NEW c \in Seq(Entry), NEW x \in 1..Len(c), NEW k, c[x].h # Hash[k]
  PROVE  Found(Without(c, x), k) = Found(c, k)
<1> DEFINE d == Without(c, x)
           H == HitsIn(c, k)
           G == HitsIn(d, k)
<1>1. /\ Len(d) = Len(c) - 1 /\ Len(c) \in Nat
      /\ \A i \in 1..Len(c) - 1 : d[i] = IF i < x THEN c[i] ELSE c[i + 1]
  BY WithoutEntry
<1> HIDE DEF d
<1>2. G \in SUBSET Nat /\ H \in SUBSET Nat
  BY DEF HitsIn
<1>3. \A j \in G : IF j < x THEN j \in H ELSE j + 1 \in H
  BY <1>1 DEF HitsIn
<1>4. \A i \in H : i # x /\ (IF i < x THEN i \in G /\ d[i] = c[i] ELSE i - 1 \in G /\ d[i - 1] = c[i])
  <2> SUFFICES ASSUME NEW i \in H
               PROVE  i # x /\ (IF i < x THEN i \in G /\ d[i] = c[i] ELSE i - 1 \in G /\ d[i - 1] = c[i])
    OBVIOUS
  <2>1. i \in 1..Len(c) /\ c[i].h = Hash[k] /\ i # x
    BY DEF HitsIn
  <2>2. CASE i < x
    <3>1. i \in 1..Len(c) - 1 /\ d[i] = c[i]
      BY <1>1, <2>1, <2>2
    <3> QED
      BY <1>1, <2>1, <2>2, <3>1 DEF HitsIn
  <2>3. CASE ~(i < x)
    <3>1. i - 1 \in 1..Len(c) - 1 /\ ~(i - 1 < x) /\ (i - 1) + 1 = i
      BY <1>1, <2>1, <2>3
    <3>2. d[i - 1] = c[i]
      BY <1>1, <3>1
    <3> QED
      BY <1>1, <2>1, <2>3, <3>1, <3>2 DEF HitsIn
  <2> QED
    BY <2>2, <2>3
<1>5. CASE H = {}
  BY <1>3, <1>5 DEF Found, d
<1>6. CASE H # {}
  <2> DEFINE m == First(H)
             p == IF m < x THEN m ELSE m - 1
  <2>1. m \in H /\ \A i \in H : m <= i
    BY <1>2, <1>6, FirstIn
  <2>2. m \in Nat /\ m # x /\ x \in Nat
    BY <1>2, <1>4, <2>1
  <2> HIDE DEF m
  <2>3. p \in G /\ d[p] = c[m]
    BY <1>4, <2>1, <2>2
  <2>4. ASSUME NEW j \in G PROVE p <= j
    <3>1. j \in Nat
      BY <1>2
    <3>2. IF j < x THEN m <= j ELSE m <= j + 1
      BY <1>3, <2>1
    <3> QED
      BY <2>2, <3>1, <3>2
  <2> HIDE DEF p
  <2>5. First(G) = p /\ G # {}
    BY <1>2, <2>3, <2>4, FirstIs
  <2> QED
    BY <1>6, <2>3, <2>5 DEF Found, d, m
<1> QED
  BY <1>5, <1>6

-----------------------------------------------------------------------------
(* The invariant: the entries counted are the entries there are.             *)

Occupied == Positions(table, tablelength)

IInv ==
  /\ TypeOK
  /\ Placed(table, tablelength)
  /\ IsFiniteSet(Occupied) /\ entrycount = Cardinality(Occupied)

LEMMA SizeOK ==
  ASSUME NEW i \in 1..Len(Primes)
  PROVE  Primes[i] \in Nat \ {0}
  BY ConstantsOK

LEMMA InitIInv == Init => IInv
<1> SUFFICES ASSUME Init PROVE IInv
  OBVIOUS
<1>1. primeindex = 1 /\ 1 \in 1..Len(Primes) /\ tablelength \in Nat \ {0}
  BY ConstantsOK, SizeOK DEF Init, tablelength
<1>2. table = EmptyTable(tablelength)
  BY <1>1 DEF Init, EmptyTable, tablelength
<1>3. TypeOK
  BY <1>1, <1>2, EmptyTableOK, ConstantsOK DEF Init, TypeOK, TableOf
<1> QED
  BY <1>1, <1>2, <1>3, EmptyTableOK DEF IInv, Occupied, Init

LEMMA NewEntryOK ==
  ASSUME TypeOK, NEW k \in Key
  PROVE  NewEntry(k) \in Entry /\ NewEntry(k).h = Hash[k] /\ NewEntry(k).v = inserted + 1
  BY ConstantsOK DEF NewEntry, Entry, TypeOK

\* The table that the new entry goes into.
Roomy == IF Grows THEN Rehash(Primes[primeindex + 1]) ELSE table

LEMMA InsertStep ==
  ASSUME IInv, NEW k \in Key, Insert(k)
  PROVE  /\ tablelength \in Nat \ {0} /\ tablelength' \in Nat \ {0}
         /\ primeindex' \in 1..Len(Primes)
         /\ Roomy \in TableOf(tablelength') /\ Placed(Roomy, tablelength')
         /\ IsFiniteSet(Positions(Roomy, tablelength'))
         /\ Cardinality(Positions(Roomy, tablelength')) = entrycount
         /\ table' = Prepend(Roomy, tablelength', NewEntry(k))
<1>1. primeindex \in 1..Len(Primes) /\ table \in TableOf(tablelength) /\ tablelength \in Nat \ {0}
  BY SizeOK DEF IInv, TypeOK, TableOf, tablelength
<1>2. CASE Grows
  <2>1. primeindex' = primeindex + 1 /\ primeindex' \in 1..Len(Primes)
    BY <1>1, <1>2, ConstantsOK DEF Insert, Grows
  <2>2. tablelength' = Primes[primeindex + 1] /\ tablelength' \in Nat \ {0}
    BY <2>1, SizeOK DEF tablelength
  <2>3. Roomy = Rehash(tablelength') /\ table' = Prepend(Roomy, tablelength', NewEntry(k))
    BY <1>2, <2>2 DEF Insert, Push, Roomy
  <2>4. /\ Rehash(tablelength') \in TableOf(tablelength') /\ Placed(Rehash(tablelength'), tablelength')
        /\ IsFiniteSet(Positions(Rehash(tablelength'), tablelength'))
        /\ Cardinality(Positions(Rehash(tablelength'), tablelength')) = Cardinality(Positions(table, tablelength))
    BY <1>1, <2>2, RehashOK
  <2> QED
    BY <1>1, <2>1, <2>2, <2>3, <2>4 DEF IInv, Occupied
<1>3. CASE ~Grows
  <2>1. tablelength' = tablelength /\ primeindex' = primeindex
    BY <1>3 DEF Insert, tablelength
  <2>2. Roomy = table /\ table' = Prepend(Roomy, tablelength', NewEntry(k))
    BY <1>3, <2>1 DEF Insert, Push, Roomy
  <2> QED
    BY <1>1, <2>1, <2>2 DEF IInv, Occupied
<1> QED
  BY <1>2, <1>3

LEMMA InsertIInv ==
  ASSUME IInv, NEW k \in Key, Insert(k)
  PROVE  IInv'
<1>1. NewEntry(k) \in Entry /\ TypeOK
  BY NewEntryOK DEF IInv
<1>2. /\ table' \in TableOf(tablelength') /\ Placed(table', tablelength')
      /\ IsFiniteSet(Positions(table', tablelength'))
      /\ Cardinality(Positions(table', tablelength')) = entrycount + 1
  BY <1>1, InsertStep, PrependInTable, PrependPlaced, PrependCounts
<1>3. inserted + 1 \in 0..MaxInserts /\ inserted' = inserted + 1
  BY <1>1, ConstantsOK DEF TypeOK, Insert
<1>4. latest' \in [Key -> 0..MaxInserts] /\ recent' \subseteq Key
  BY <1>1, <1>3 DEF TypeOK, Insert
<1>5. entrycount' = entrycount + 1 /\ entrycount' \in Nat
  BY <1>1 DEF TypeOK, Insert
<1> QED
  BY <1>2, <1>3, <1>4, <1>5, InsertStep DEF IInv, TypeOK, TableOf, Occupied

LEMMA RemoveStep ==
  ASSUME IInv, NEW k \in Key, Remove(k)
  PROVE  LET j == IndexFor(tablelength, Hash[k])
             x == First(HitsIn(table[j], k))
         IN  /\ tablelength \in Nat \ {0} /\ j \in 0..tablelength - 1 /\ table[j] \in Seq(Entry)
             /\ x \in 1..Len(table[j]) /\ table[j][x].h = Hash[k]
             /\ table' = [table EXCEPT ![j] = Without(table[j], x)]
<1> DEFINE j == IndexFor(tablelength, Hash[k])
           x == First(HitsIn(table[j], k))
<1>1. tablelength \in Nat \ {0} /\ table \in TableOf(tablelength)
  BY SizeOK DEF IInv, TypeOK, TableOf, tablelength
<1>2. j \in 0..tablelength - 1
  BY <1>1, IndexInTable, ConstantsOK
<1>3. table[j] \in Seq(Entry)
  BY <1>1, <1>2 DEF TableOf
<1>4. Hits(k) = HitsIn(table[j], k)
  BY SearchFinds DEF Chain
<1>5. x \in HitsIn(table[j], k)
  <2>1. HitsIn(table[j], k) \in SUBSET Nat /\ HitsIn(table[j], k) # {}
    BY <1>4 DEF Remove, HitsIn
  <2> QED
    BY <2>1, FirstIn
<1>6. table' = [table EXCEPT ![j] = Without(table[j], x)]
  BY <1>4 DEF Remove, Without
<1> QED
  BY <1>1, <1>2, <1>3, <1>5, <1>6 DEF HitsIn

LEMMA RemoveIInv ==
  ASSUME IInv, NEW k \in Key, Remove(k)
  PROVE  IInv'
<1> DEFINE n == tablelength
           j == IndexFor(n, Hash[k])
           x == First(HitsIn(table[j], k))
           c == table[j]
           d == Without(c, x)
           last == <<j, Len(c)>>
<1>1. /\ n \in Nat \ {0} /\ j \in 0..n - 1 /\ c \in Seq(Entry) /\ x \in 1..Len(c)
      /\ table' = [table EXCEPT ![j] = d]
  BY RemoveStep
<1>2. tablelength' = tablelength /\ primeindex' = primeindex /\ inserted' = inserted
  BY DEF Remove, tablelength
<1>3. /\ d \in Seq(Entry) /\ Len(d) = Len(c) - 1 /\ Len(c) \in Nat \ {0}
      /\ \A i \in 1..Len(c) - 1 : d[i] = IF i < x THEN c[i] ELSE c[i + 1]
  <2> HIDE DEF c, x
  <2>1. Len(c) \in Nat \ {0}
    BY <1>1
  <2> QED
    BY <1>1, <2>1, WithoutEntry
<1>4. table \in TableOf(n) /\ TypeOK /\ Placed(table, n)
  BY DEF IInv, TypeOK, TableOf
<1> HIDE DEF n, j, x, c, d
<1>5. /\ table'[j] = d /\ \A i \in 0..n - 1 : i # j => table'[i] = table[i]
      /\ table' \in TableOf(n)
  BY <1>1, <1>3, <1>4 DEF TableOf
<1>6. Placed(table', n)
  <2>1. ASSUME NEW i \in 1..Len(d) PROVE IndexFor(n, d[i].h) = j
    <3>1. \A y \in 1..Len(c) : IndexFor(n, c[y].h) = j
      BY <1>1, <1>4 DEF Placed, c
    <3>2. i \in 1..Len(c) - 1 /\ i \in 1..Len(c) /\ i + 1 \in 1..Len(c)
      BY <1>3
    <3> QED
      BY <1>3, <3>1, <3>2
  <2> QED
    BY <1>4, <1>5, <2>1 DEF Placed
<1>7. last \in Occupied /\ Positions(table', n) = Occupied \ {last}
  <2>1. c = table[j] /\ Occupied = Positions(table, n)
    BY DEF c, Occupied, n
  <2>2. last \in Occupied
    BY <1>1, <1>3, <2>1 DEF Positions
  <2>3. ASSUME NEW q \in (0..n - 1) \X Nat
        PROVE  q[2] \in 1..Len(table'[q[1]]) <=> q[2] \in 1..Len(table[q[1]]) /\ q # last
    <3>1. q = <<q[1], q[2]>> /\ q[1] \in 0..n - 1 /\ q[2] \in Nat
      OBVIOUS
    <3>2. CASE q[1] = j
      <4>1. q[2] \in 1..Len(c) - 1 <=> q[2] \in 1..Len(c) /\ q[2] # Len(c)
        BY <1>3, <3>1
      <4>2. q # last <=> q[2] # Len(c)
        BY <3>1, <3>2
      <4> QED
        BY <1>3, <1>5, <2>1, <3>2, <4>1, <4>2
    <3>3. CASE q[1] # j
      BY <1>5, <3>1, <3>3
    <3> QED
      BY <3>2, <3>3
  <2> HIDE DEF last
  <2> QED
    BY <2>1, <2>2, <2>3 DEF Positions
<1> HIDE DEF last
<1>8. /\ IsFiniteSet(Positions(table', n))
      /\ Cardinality(Positions(table', n)) = entrycount - 1
  BY <1>7, FS_RemoveElement DEF IInv
<1>9. entrycount' = entrycount - 1 /\ entrycount' \in Nat
  BY <1>8, FS_CardinalityType DEF Remove
<1>10. latest' \in [Key -> 0..MaxInserts] /\ recent' \subseteq Key
  BY <1>4, ConstantsOK DEF TypeOK, Remove
<1>11. TypeOK'
  BY <1>2, <1>4, <1>5, <1>9, <1>10 DEF TypeOK, TableOf, n
<1> QED
  BY <1>2, <1>6, <1>8, <1>9, <1>11 DEF IInv, Occupied, n

LEMMA NextIInv == IInv /\ [Next]_vars => IInv'
<1> SUFFICES ASSUME IInv, [Next]_vars PROVE IInv'
  OBVIOUS
<1>1. CASE UNCHANGED vars
  BY <1>1 DEF vars, IInv, TypeOK, Occupied, tablelength
<1> QED
  BY <1>1, InsertIInv, RemoveIInv DEF Next

LEMMA Invariance == Spec => []IInv
  BY InitIInv, NextIInv, PTL DEF Spec

\* The table's chains, counters and history stay well typed; the number of
\* entries, which the code decrements unconditionally, is never negative.
THEOREM TypesKept == Spec => []TypeOK
<1>1. IInv => TypeOK
  BY DEF IInv
<1> QED
  BY <1>1, Invariance, PTL

\* However often hashtable_expand has moved it, an entry is in the chain of its
\* hash: a search cannot pass it by.
THEOREM EntriesWellPlaced == Spec => []WellPlaced
<1>1. IInv => WellPlaced
  BY DEF IInv, Placed, WellPlaced
<1> QED
  BY <1>1, Invariance, PTL

-----------------------------------------------------------------------------
(* What zkUA_checkMzxidAge is told *)

Injective == \A k, l \in Key : Hash[k] = Hash[l] => k = l
Told      == \A k \in recent : Search(k) = latest[k]

LEMMA ChainInTable ==
  ASSUME IInv, NEW l \in Key
  PROVE  /\ IndexFor(tablelength, Hash[l]) \in 0..tablelength - 1
         /\ Chain(l) = table[IndexFor(tablelength, Hash[l])] /\ Chain(l) \in Seq(Entry)
<1>1. tablelength \in Nat \ {0} /\ table \in TableOf(tablelength)
  BY SizeOK DEF IInv, TypeOK, TableOf, tablelength
<1>2. IndexFor(tablelength, Hash[l]) \in 0..tablelength - 1
  BY <1>1, IndexInTable, ConstantsOK
<1> QED
  BY <1>1, <1>2 DEF TableOf, Chain

LEMMA InsertTold ==
  ASSUME IInv, Injective, Told, NEW k \in Key, Insert(k)
  PROVE  Told'
<1> SUFFICES ASSUME NEW l \in recent' PROVE Search(l)' = latest'[l]
  BY DEF Told
<1> DEFINE n == tablelength'
           e == NewEntry(k)
           j == IndexFor(n, Hash[l])
<1>0. TypeOK /\ TypeOK' /\ IInv' /\ l \in Key
  BY InsertIInv DEF IInv, TypeOK
<1>1. e \in Entry /\ e.h = Hash[k] /\ e.v = inserted + 1
  BY <1>0, NewEntryOK
<1>2. /\ n \in Nat \ {0} /\ Roomy \in TableOf(n)
      /\ table' = Prepend(Roomy, n, e)
  BY InsertStep
<1>3. j \in 0..n - 1
  BY <1>0, <1>2, IndexInTable, ConstantsOK
<1>4. Roomy[j] \in Seq(Entry)
  BY <1>2, <1>3 DEF TableOf
<1>5. table'[j] = IF IndexFor(n, e.h) = j THEN <<e>> \o Roomy[j] ELSE Roomy[j]
  BY <1>1, <1>2, <1>3, PrependInTable
<1>6. Search(l)' = Found(table'[j], l)
  BY SearchFindsNext DEF Chain
<1> HIDE DEF e, n
<1>7. CASE l = k
  <2>1. Search(l)' = e.v
    BY <1>1, <1>4, <1>5, <1>6, <1>7, FoundAfterPrepend
  <2>2. latest'[l] = inserted + 1
    BY <1>0, <1>7 DEF Insert, TypeOK
  <2> QED
    BY <1>1, <2>1, <2>2
<1>8. CASE l # k
  <2>1. l \in recent /\ ~Grows /\ latest'[l] = latest[l]
    BY <1>0, <1>8 DEF Insert, TypeOK
  <2>2. n = tablelength /\ Roomy = table
    BY <2>1 DEF Insert, tablelength, Roomy, n
  <2>3. e.h # Hash[l]
    BY <1>0, <1>1, <1>8 DEF Injective
  <2>4. Search(l)' = Found(Roomy[j], l)
    BY <1>1, <1>4, <1>5, <1>6, <2>3, FoundAfterPrepend
  <2>5. Search(l) = Found(Roomy[j], l)
    BY <2>2, SearchFinds DEF Chain
  <2> QED
    BY <2>1, <2>4, <2>5 DEF Told
<1> QED
  BY <1>7, <1>8

LEMMA RemoveTold ==
  ASSUME IInv, Injective, Told, NEW k \in Key, Remove(k)
  PROVE  Told'
<1> SUFFICES ASSUME NEW l \in recent' PROVE Search(l)' = latest'[l]
  BY DEF Told
<1> DEFINE i == IndexFor(tablelength, Hash[k])
           j == IndexFor(tablelength, Hash[l])
           x == First(HitsIn(table[i], k))
<1>1. l \in recent /\ l # k /\ l \in Key /\ latest'[l] = latest[l]
  BY DEF Remove, IInv, TypeOK
<1>2. /\ i \in 0..tablelength - 1 /\ table[i] \in Seq(Entry)
      /\ x \in 1..Len(table[i]) /\ table[i][x].h = Hash[k]
      /\ table' = [table EXCEPT ![i] = Without(table[i], x)]
  BY RemoveStep
<1>3. Hash[k] # Hash[l]
  BY <1>1 DEF Injective
<1>4. tablelength' = tablelength
  BY DEF Remove, tablelength
<1>5. Search(l)' = Found(table'[j], l)
  BY <1>4, SearchFindsNext DEF Chain
<1>6. Search(l) = Found(table[j], l)
  BY SearchFinds DEF Chain
<1> HIDE DEF x
<1>7. table'[j] = IF i = j THEN Without(table[i], x) ELSE table[j]
  BY <1>1, <1>2, ChainInTable DEF IInv, TypeOK
<1>8. Found(table'[j], l) = Found(table[j], l)
  BY <1>2, <1>3, <1>7, FoundAfterRemoval
<1> QED
  BY <1>1, <1>5, <1>6, <1>8 DEF Told

\* As long as the table has not grown since, a search answers with the last mzxid
\* inserted for a key, if no two paths have the same hash: for any paths, any
\* sizes of the table, and any order of inserts and removes.
THEOREM LatestFound == Spec => []RecentIsLatest
<1>1. ASSUME Injective PROVE Spec => []RecentIsLatest
  <2>1. Init => Told
    BY DEF Init, Told
  <2>2. IInv /\ Told /\ [Next]_vars => Told'
    <3> SUFFICES ASSUME IInv, Told, [Next]_vars PROVE Told'
      OBVIOUS
    <3>1. CASE UNCHANGED vars
      BY <3>1 DEF vars, Told, Search, Hits, Chain, tablelength, Matches
    <3> QED
      BY <1>1, <3>1, InsertTold, RemoveTold DEF Next
  <2>3. Told => RecentIsLatest
    BY DEF Told, RecentIsLatest
  <2> QED
    BY <2>1, <2>2, <2>3, Invariance, PTL DEF Spec
<1>2. ASSUME ~Injective PROVE Spec => []RecentIsLatest
  <2>1. RecentIsLatest
    BY <1>2 DEF RecentIsLatest, Injective
  <2> QED
    BY <2>1, PTL
<1> QED
  BY <1>1, <1>2

=============================================================================
