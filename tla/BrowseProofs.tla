---------------------------- MODULE BrowseProofs ----------------------------
(***************************************************************************)
(* What holds of the three browses for every address space, numbering,     *)
(* size of the arrays and number of searches.  The properties speak of the *)
(* nodes Reached from the root, which is a recursive function; the         *)
(* invariant speaks of any set that is closed under the references         *)
(* instead.  Two facts about Reached join them in the end: it is closed,   *)
(* and it is the least such set.                                           *)
(***************************************************************************)
EXTENDS Browse, FiniteSetTheorems, FunctionTheorems, WellFoundedInduction, NaturalsInduction, TLAPS

(* Numbers, and functions defined by recursion on them *)

LEMMA LessIsWellFounded == IsWellFoundedOn({ss \in Nat \X Nat : ss[1] < ss[2]}, Nat)
  BY NatLessThanWellFounded, Zenon DEF OpToRel

LEMMA LeastIn ==
  ASSUME NEW S \in SUBSET Nat, S # {}
  PROVE  \E n \in S : \A m \in S : n <= m
<1> DEFINE Less == {ss \in Nat \X Nat : ss[1] < ss[2]}
<1>1. PICK n \in S : \A m \in S : <<m, n>> \notin Less
  <2>1. IsWellFoundedOn(Less, Nat)
    BY LessIsWellFounded
  <2> HIDE DEF Less
  <2> QED
    BY <2>1, WFMin
<1>2. \A m \in S : ~(m < n)
  BY <1>1
<1> QED
  BY <1>2

\* Induction over a set of numbers, as the least number outside it.
LEMMA Induction ==
  ASSUME NEW P \in SUBSET Nat, 0 \in P, \A n \in P : n + 1 \in P
  PROVE  P = Nat
<1> SUFFICES ASSUME Nat \ P # {} PROVE FALSE
  OBVIOUS
<1>1. PICK n \in Nat \ P : \A m \in Nat \ P : n <= m
  BY LeastIn
<1>2. n # 0 /\ n - 1 \in Nat
  BY <1>1
<1>3. n - 1 \in P
  BY <1>1, <1>2
<1> QED
  BY <1>1, <1>2, <1>3

\* A recursion along 0..m whose step is a function has a solution.
Solvable(S, base, Step, m) ==
  \E f \in [0..m -> S] : f[0] = base /\ \A i \in 1..m : f[i] = Step[<<f[i - 1], i>>]

LEMMA RecursionExists ==
  ASSUME NEW S, NEW base \in S, NEW Step \in [S \X Nat -> S], NEW m \in Nat
  PROVE  Solvable(S, base, Step, m)
<1> DEFINE Solves(f, n) ==
             \A i \in 0..n : f[i] = IF i = 0 THEN base ELSE Step[<<f[i - 1], i>>]
           P == {n \in Nat : \E f \in [0..n -> S] : Solves(f, n)}
<1>1. 0 \in P
  <2>1. [i \in 0..0 |-> base] \in [0..0 -> S] /\ Solves([i \in 0..0 |-> base], 0)
    OBVIOUS
  <2> QED
    BY <2>1
<1>2. ASSUME NEW n \in P PROVE n + 1 \in P
  <2>1. PICK f \in [0..n -> S] : Solves(f, n)
    OBVIOUS
  <2> DEFINE g == [i \in 0..n + 1 |-> IF i = n + 1 THEN Step[<<f[n], n + 1>>] ELSE f[i]]
  <2>2. g \in [0..n + 1 -> S]
    OBVIOUS
  <2>3. ASSUME NEW i \in 0..n + 1
        PROVE  g[i] = IF i = 0 THEN base ELSE Step[<<g[i - 1], i>>]
    <3>1. CASE i = n + 1
      <4>1. i # 0 /\ i - 1 = n /\ n \in 0..n + 1 /\ n # n + 1
        BY <3>1
      <4>2. g[i - 1] = f[n]
        BY <4>1
      <4> QED
        BY <3>1, <4>1, <4>2
    <3>2. CASE i # n + 1
      <4>1. i \in 0..n /\ g[i] = f[i] /\ (i # 0 => g[i - 1] = f[i - 1])
        BY <3>2
      <4>2. f[i] = IF i = 0 THEN base ELSE Step[<<f[i - 1], i>>]
        BY <2>1, <4>1
      <4> QED
        BY <4>1, <4>2
    <3> QED
      BY <3>1, <3>2
  <2>4. Solves(g, n + 1)
    BY <2>3
  <2> HIDE DEF g
  <2> QED
    BY <2>2, <2>4
<1>3. P = Nat
  <2>1. P \subseteq Nat
    OBVIOUS
  <2> HIDE DEF P
  <2> QED
    BY <1>1, <1>2, <2>1, Induction
<1>4. PICK f \in [0..m -> S] : Solves(f, m)
  BY <1>3
<1>5. 0 \in 0..m /\ \A i \in 1..m : i \in 0..m /\ i # 0
  OBVIOUS
<1>6. f[0] = base /\ \A i \in 1..m : f[i] = Step[<<f[i - 1], i>>]
  BY <1>4, <1>5
<1> QED
  BY <1>6 DEF Solvable

-----------------------------------------------------------------------------
(* Reached *)

Beyond(X, n, h, known) ==
  {m \in UNION {Targets(l, h) : l \in X \cup {n}} : identifier[m] \notin known}

SpaceOK ==
  /\ references \in [Node -> Seq(ReferenceNode)]
  /\ identifier \in [Node -> Nat \ {0}]

LEMMA TargetsAre ==
  ASSUME NEW n, NEW m, NEW h \in BOOLEAN
  PROVE  m \in Targets(n, h) <=>
           \E i \in 1..Len(references[n]) :
             /\ ~references[n][i].inverse
             /\ h => references[n][i].hierarchical
             /\ references[n][i].to = m
<1> DEFINE J == {j \in 1..Len(references[n]) :
                   ~references[n][j].inverse /\ (h => references[n][j].hierarchical)}
           R == {references[n][i] : i \in J}
<1>1. Targets(n, h) = {r.to : r \in R}
  BY DEF Targets
<1>2. m \in Targets(n, h) <=> \E r \in R : r.to = m
  BY <1>1
<1>3. (\E r \in R : r.to = m) <=> \E i \in J : references[n][i].to = m
  <2>1. ASSUME NEW r \in R PROVE \E i \in J : r = references[n][i]
    OBVIOUS
  <2>2. ASSUME NEW i \in J PROVE references[n][i] \in R
    OBVIOUS
  <2> HIDE DEF R, J
  <2> QED
    BY <2>1, <2>2
<1> QED
  BY <1>2, <1>3

LEMMA TargetsInSpace ==
  ASSUME SpaceOK, NEW n \in Node, NEW h \in BOOLEAN
  PROVE  Targets(n, h) \subseteq Node
<1>1. \A i \in 1..Len(references[n]) : references[n][i].to \in Node
  <2> TAKE i \in 1..Len(references[n])
  <2>1. references[n] \in Seq(ReferenceNode)
    BY DEF SpaceOK
  <2>2. references[n][i] \in ReferenceNode
    BY <2>1
  <2> QED
    BY <2>2 DEF ReferenceNode
<1> SUFFICES ASSUME NEW m \in Targets(n, h) PROVE m \in Node
  OBVIOUS
<1>2. \E i \in 1..Len(references[n]) : references[n][i].to = m
  BY TargetsAre
<1> QED
  BY <1>1, <1>2

LEMMA BeyondInSpace ==
  ASSUME SpaceOK, NEW X \in SUBSET Node, NEW n \in Node, NEW h \in BOOLEAN, NEW known
  PROVE  Beyond(X, n, h, known) \subseteq Node
<1>1. \A l \in X \cup {n} : Targets(l, h) \subseteq Node
  BY TargetsInSpace
<1> QED
  BY <1>1 DEF Beyond

LEMMA BeyondGrows ==
  ASSUME NEW X, NEW Y, X \subseteq Y, NEW n, NEW h, NEW known
  PROVE  Beyond(X, n, h, known) \subseteq Beyond(Y, n, h, known)
  BY Zenon DEF Beyond

\* The steps by which Reached is computed.
Walk(W, n, h, known) ==
  W = [d \in 0..Cardinality(Node) |-> IF d = 0 THEN {} ELSE Beyond(W[d - 1], n, h, known)]

LEMMA NodesAreFinite == IsFiniteSet(Node) /\ Cardinality(Node) \in Nat
  BY ConstantsOK, FS_CardinalityType

LEMMA WalkExists ==
  ASSUME SpaceOK, NEW n \in Node, NEW h \in BOOLEAN, NEW known
  PROVE  \E W : Walk(W, n, h, known)
<1> DEFINE N == Cardinality(Node)
           S == SUBSET Node
           Step == [x \in S \X Nat |-> Beyond(x[1], n, h, known)]
<1>1. Step \in [S \X Nat -> S] /\ {} \in S /\ N \in Nat
  BY BeyondInSpace, NodesAreFinite
<1>2. PICK W \in [0..N -> S] : W[0] = {} /\ \A i \in 1..N : W[i] = Step[<<W[i - 1], i>>]
  <2> HIDE DEF Step, S, N
  <2>1. Solvable(S, {}, Step, N)
    BY <1>1, RecursionExists
  <2> QED
    BY <2>1 DEF Solvable
<1>3. \A d \in 0..N : W[d] = IF d = 0 THEN {} ELSE Beyond(W[d - 1], n, h, known)
  <2> SUFFICES ASSUME NEW d \in 1..N PROVE W[d] = Beyond(W[d - 1], n, h, known)
    BY <1>2
  <2>1. d - 1 \in 0..N /\ d \in Nat
    BY <1>1
  <2>2. <<W[d - 1], d>> \in S \X Nat
    BY <2>1
  <2> QED
    BY <1>2, <2>2
<1>4. W = [d \in 0..N |-> IF d = 0 THEN {} ELSE Beyond(W[d - 1], n, h, known)]
  BY <1>2, <1>3
<1> QED
  BY <1>4 DEF Walk

LEMMA ReachedByWalk ==
  ASSUME SpaceOK, NEW n \in Node, NEW h \in BOOLEAN, NEW known
  PROVE  \E W : Walk(W, n, h, known) /\ Reached(n, h, known) = W[Cardinality(Node)]
<1> DEFINE Within == CHOOSE W : Walk(W, n, h, known)
<1>1. Walk(Within, n, h, known)
  BY WalkExists
<1>2. Reached(n, h, known) = Within[Cardinality(Node)]
  BY Zenon DEF Reached, Walk, Beyond
<1> QED
  BY <1>1, <1>2

LEMMA WalkSteps ==
  ASSUME NEW n, NEW h \in BOOLEAN, NEW known, NEW W, Walk(W, n, h, known)
  PROVE  /\ Cardinality(Node) \in Nat /\ W[0] = {}
         /\ \A d \in 0..Cardinality(Node) :
              d + 1 <= Cardinality(Node) => W[d + 1] = Beyond(W[d], n, h, known)
<1> DEFINE N == Cardinality(Node)
<1>1. N \in Nat
  BY NodesAreFinite
<1> HIDE DEF N
<1>2. W = [d \in 0..N |-> IF d = 0 THEN {} ELSE Beyond(W[d - 1], n, h, known)]
  BY DEF Walk, N
<1>3. \A d \in 0..N : W[d] = IF d = 0 THEN {} ELSE Beyond(W[d - 1], n, h, known)
  BY <1>2, Zenon
<1>4. ASSUME NEW d \in 0..N, d + 1 <= N PROVE W[d + 1] = Beyond(W[d], n, h, known)
  <2>1. d + 1 \in 0..N /\ d + 1 # 0 /\ (d + 1) - 1 = d
    BY <1>1, <1>4
  <2> QED
    BY <1>3, <2>1
<1>5. W[0] = {}
  BY <1>1, <1>3
<1> QED
  BY <1>1, <1>4, <1>5 DEF N

\* One more step leads nowhere, or every step so far has found a node.
LEMMA WalkSettles ==
  ASSUME SpaceOK, NEW n \in Node, NEW h \in BOOLEAN, NEW known, NEW W, Walk(W, n, h, known)
  PROVE  \A d \in 0..Cardinality(Node) :
           /\ W[d] \subseteq Node /\ W[d] \subseteq Beyond(W[d], n, h, known)
           /\ Beyond(W[d], n, h, known) \subseteq W[d] \/ Cardinality(W[d]) >= d
<1> DEFINE N == Cardinality(Node)
           B(X) == Beyond(X, n, h, known)
           Good(d) == /\ W[d] \subseteq Node /\ W[d] \subseteq B(W[d])
                      /\ B(W[d]) \subseteq W[d] \/ Cardinality(W[d]) >= d
           P == {d \in Nat : d <= N => Good(d)}
<1>0. N \in Nat /\ W[0] = {} /\ \A d \in 0..N : d + 1 <= N => W[d + 1] = B(W[d])
  BY WalkSteps
<1>1. 0 \in P
  BY <1>0, FS_EmptySet
<1>2. ASSUME NEW d \in P PROVE d + 1 \in P
  <2> SUFFICES ASSUME d + 1 <= N PROVE Good(d + 1)
    OBVIOUS
  <2>1. d \in Nat /\ d <= N /\ Good(d) /\ W[d + 1] = B(W[d])
    BY <1>0
  <2>2. W[d + 1] \subseteq Node /\ W[d] \subseteq W[d + 1]
    BY <2>1, BeyondInSpace
  <2>3. W[d + 1] \subseteq B(W[d + 1])
    <3>1. B(W[d]) \subseteq B(W[d + 1])
      BY <2>2, BeyondGrows
    <3> QED
      BY <2>1, <3>1
  <2>4. CASE B(W[d]) \subseteq W[d]
    <3>1. W[d + 1] \subseteq W[d]
      BY <2>1, <2>4
    <3>2. B(W[d + 1]) \subseteq B(W[d])
      BY <3>1, BeyondGrows, Zenon
    <3> QED
      BY <2>1, <2>2, <2>3, <3>2
  <2>5. CASE ~(B(W[d]) \subseteq W[d])
    <3>1. Cardinality(W[d]) >= d /\ W[d] # W[d + 1]
      BY <2>1, <2>5
    <3>2. IsFiniteSet(W[d + 1])
      BY <2>2, NodesAreFinite, FS_Subset
    <3>3. /\ Cardinality(W[d]) <= Cardinality(W[d + 1])
          /\ Cardinality(W[d]) # Cardinality(W[d + 1])
          /\ IsFiniteSet(W[d])
      BY <2>2, <3>1, <3>2, FS_Subset
    <3>4. Cardinality(W[d]) \in Nat /\ Cardinality(W[d + 1]) \in Nat
      BY <3>2, <3>3, FS_CardinalityType
    <3>5. Cardinality(W[d + 1]) >= d + 1
      BY <3>1, <3>3, <3>4, <2>1
    <3> QED
      BY <2>2, <2>3, <3>5
  <2> QED
    BY <2>4, <2>5
<1>3. P = Nat
  <2>1. P \subseteq Nat
    OBVIOUS
  <2> HIDE DEF P
  <2> QED
    BY <1>1, <1>2, <2>1, Induction
<1> QED
  BY <1>0, <1>3

LEMMA ReachedClosed ==
  ASSUME SpaceOK, NEW n \in Node, NEW h \in BOOLEAN, NEW known
  PROVE  /\ Reached(n, h, known) \subseteq Node
         /\ Beyond(Reached(n, h, known), n, h, known) \subseteq Reached(n, h, known)
<1> DEFINE N == Cardinality(Node)
<1>1. PICK W : Walk(W, n, h, known) /\ Reached(n, h, known) = W[N]
  BY ReachedByWalk
<1>2. N \in Nat /\ N \in 0..N
  BY NodesAreFinite
<1>3. /\ W[N] \subseteq Node
      /\ Beyond(W[N], n, h, known) \subseteq W[N] \/ Cardinality(W[N]) >= N
  BY <1>1, <1>2, WalkSettles
<1>4. CASE Cardinality(W[N]) >= N
  <2>1. Cardinality(W[N]) <= N /\ IsFiniteSet(W[N])
    BY <1>3, NodesAreFinite, FS_Subset
  <2>2. Cardinality(W[N]) = N
    BY <1>2, <1>4, <2>1, FS_CardinalityType
  <2>3. W[N] = Node
    BY <1>3, <2>2, NodesAreFinite, FS_Subset
  <2> QED
    BY <1>1, <2>3, BeyondInSpace
<1> QED
  BY <1>1, <1>3, <1>4

LEMMA ReachedLeast ==
  ASSUME SpaceOK, NEW n \in Node, NEW h \in BOOLEAN, NEW known,
         NEW T, Beyond(T, n, h, known) \subseteq T
  PROVE  Reached(n, h, known) \subseteq T
<1> DEFINE N == Cardinality(Node)
<1>1. PICK W : Walk(W, n, h, known) /\ Reached(n, h, known) = W[N]
  BY ReachedByWalk
<1> DEFINE P == {d \in Nat : d <= N => W[d] \subseteq T}
<1>2. N \in Nat /\ W[0] = {}
      /\ \A d \in 0..N : d + 1 <= N => W[d + 1] = Beyond(W[d], n, h, known)
  BY <1>1, WalkSteps
<1>3. 0 \in P
  BY <1>2
<1>4. ASSUME NEW d \in P PROVE d + 1 \in P
  <2> SUFFICES ASSUME d + 1 <= N PROVE W[d + 1] \subseteq T
    OBVIOUS
  <2>1. W[d] \subseteq T /\ W[d + 1] = Beyond(W[d], n, h, known)
    BY <1>2
  <2> QED
    BY <2>1, BeyondGrows, Zenon
<1>5. P = Nat
  <2>1. P \subseteq Nat
    OBVIOUS
  <2> HIDE DEF P
  <2> QED
    BY <1>3, <1>4, <2>1, Induction
<1> QED
  BY <1>1, <1>2, <1>5

-----------------------------------------------------------------------------
(* The stack *)

FrameType == [node : Node, left : Nat]

Fits(s) ==
  /\ s \in Seq(FrameType)
  /\ \A i \in 1..Len(s) : s[i].left <= Len(references[s[i].node])

LEMMA NewHead ==
  ASSUME NEW F, NEW s \in Seq(F), s # <<>>, NEW f \in F
  PROVE  /\ <<f>> \o Tail(s) \in Seq(F) /\ Len(<<f>> \o Tail(s)) = Len(s)
         /\ Len(s) \in Nat \ {0} /\ Head(s) = s[1]
         /\ (<<f>> \o Tail(s))[1] = f
         /\ \A i \in 2..Len(s) : (<<f>> \o Tail(s))[i] = s[i]
  OBVIOUS

LEMMA OneMore ==
  ASSUME NEW F, NEW s \in Seq(F), NEW f \in F
  PROVE  /\ <<f>> \o s \in Seq(F) /\ Len(<<f>> \o s) = Len(s) + 1
         /\ (<<f>> \o s)[1] = f
         /\ \A i \in 1..Len(s) : (<<f>> \o s)[i + 1] = s[i]
  OBVIOUS

LEMMA OneLess ==
  ASSUME NEW F, NEW s \in Seq(F), s # <<>>
  PROVE  /\ Tail(s) \in Seq(F) /\ Len(Tail(s)) = Len(s) - 1 /\ Len(s) \in Nat \ {0}
         /\ \A i \in 1..Len(s) - 1 : Tail(s)[i] = s[i + 1]
  OBVIOUS

LEMMA FrameOK ==
  ASSUME SpaceOK, NEW n \in Node
  PROVE  /\ Frame(n) \in FrameType /\ Frame(n).node = n
         /\ Frame(n).left = Len(references[n]) /\ Len(references[n]) \in Nat
         /\ Fits(<<Frame(n)>>) /\ Len(<<Frame(n)>>) = 1 /\ <<Frame(n)>>[1] = Frame(n)
<1>1. Len(references[n]) \in Nat
  BY DEF SpaceOK
<1>2. Frame(n) \in FrameType /\ Frame(n).node = n /\ Frame(n).left = Len(references[n])
  BY <1>1 DEF Frame, FrameType
<1> QED
  BY <1>1, <1>2 DEF Fits

\* A callback is due: for a reference of the innermost node, which it consumes.
Place(f) == IF search.kind = "client" THEN Len(references[f.node]) - f.left + 1 ELSE f.left

LEMMA CallIs ==
  ASSUME SpaceOK, Fits(stack), Calling
  PROVE  /\ Len(stack) \in Nat \ {0} /\ Head(stack) = stack[1]
         /\ stack[1] \in FrameType /\ stack[1].left \in 1..Len(references[stack[1].node])
         /\ Place(stack[1]) \in 1..Len(references[stack[1].node])
         /\ Current = references[stack[1].node][Place(stack[1])]
         /\ Current \in ReferenceNode
<1>1. Len(stack) \in Nat \ {0} /\ Head(stack) = stack[1] /\ stack[1] \in FrameType
  BY DEF Calling, Fits
<1>2. stack[1].node \in Node /\ stack[1].left \in Nat
  BY <1>1 DEF FrameType
<1>3. references[stack[1].node] \in Seq(ReferenceNode)
  BY <1>2 DEF SpaceOK
<1>4. stack[1].left \in 1..Len(references[stack[1].node])
  BY <1>1, <1>2, <1>3 DEF Calling, Fits
<1>5. Place(stack[1]) \in 1..Len(references[stack[1].node])
  BY <1>3, <1>4 DEF Place
<1>6. Current = references[stack[1].node][Place(stack[1])]
  BY <1>1 DEF Current, Place
<1> QED
  BY <1>1, <1>3, <1>4, <1>5, <1>6

LEMMA ConsumedIs ==
  ASSUME SpaceOK, Fits(stack), Calling
  PROVE  /\ Fits(Consumed) /\ Len(Consumed) = Len(stack)
         /\ Consumed[1] = [node |-> stack[1].node, left |-> stack[1].left - 1]
         /\ \A i \in 2..Len(stack) : Consumed[i] = stack[i]
<1> DEFINE f == [node |-> stack[1].node, left |-> stack[1].left - 1]
<1>1. /\ Head(stack) = stack[1] /\ stack[1] \in FrameType /\ Len(stack) \in Nat \ {0}
      /\ stack[1].left \in 1..Len(references[stack[1].node])
  BY CallIs
<1>2. f \in FrameType /\ f.left <= Len(references[f.node])
  BY <1>1 DEF FrameType
<1>3. Consumed = <<f>> \o Tail(stack)
  BY <1>1 DEF Consumed, FrameType
<1>4. stack # <<>> /\ stack \in Seq(FrameType)
  BY DEF Calling, Fits
<1> HIDE DEF f
<1>5. /\ Consumed \in Seq(FrameType) /\ Len(Consumed) = Len(stack) /\ Consumed[1] = f
      /\ \A i \in 2..Len(stack) : Consumed[i] = stack[i]
  BY <1>2, <1>3, <1>4, NewHead
<1>6. \A i \in 1..Len(Consumed) : Consumed[i].left <= Len(references[Consumed[i].node])
  <2> TAKE i \in 1..Len(Consumed)
  <2>1. i = 1 \/ i \in 2..Len(stack)
    BY <1>1, <1>5
  <2> QED
    BY <1>1, <1>2, <1>5, <2>1 DEF Fits
<1> QED
  BY <1>5, <1>6 DEF Fits, f

Descended(n) == <<Frame(n)>> \o Consumed

LEMMA DescendedIs ==
  ASSUME SpaceOK, Fits(stack), Calling, NEW n \in Node
  PROVE  /\ Fits(Descended(n)) /\ Len(Descended(n)) = Len(stack) + 1
         /\ Descended(n)[1] = Frame(n)
         /\ \A i \in 1..Len(stack) : Descended(n)[i + 1] = Consumed[i]
<1>1. /\ Fits(Consumed) /\ Len(Consumed) = Len(stack) /\ Len(stack) \in Nat \ {0}
      /\ Consumed \in Seq(FrameType)
  BY ConsumedIs, CallIs DEF Fits
<1>2. Frame(n) \in FrameType /\ Frame(n).node = n /\ Frame(n).left = Len(references[n])
      /\ Len(references[n]) \in Nat
  BY FrameOK
<1>3. /\ Descended(n) \in Seq(FrameType) /\ Len(Descended(n)) = Len(Consumed) + 1
      /\ Descended(n)[1] = Frame(n)
      /\ \A i \in 1..Len(Consumed) : Descended(n)[i + 1] = Consumed[i]
  BY <1>1, <1>2, OneMore DEF Descended
<1>4. ASSUME NEW i \in 1..Len(Descended(n))
      PROVE  Descended(n)[i].left <= Len(references[Descended(n)[i].node])
  <2>1. CASE i = 1
    BY <1>2, <1>3, <2>1
  <2>2. CASE i # 1
    <3>1. i - 1 \in 1..Len(Consumed) /\ (i - 1) + 1 = i
      BY <1>1, <1>3, <2>2
    <3>2. Descended(n)[i] = Consumed[i - 1]
      BY <1>3, <3>1
    <3> QED
      BY <1>1, <3>1, <3>2 DEF Fits
  <2> QED
    BY <2>1, <2>2
<1> QED
  BY <1>1, <1>3, <1>4 DEF Fits

LEMMA TailIs ==
  ASSUME Fits(stack), stack # <<>>
  PROVE  /\ Fits(Tail(stack)) /\ Len(Tail(stack)) = Len(stack) - 1
         /\ Len(stack) \in Nat \ {0}
         /\ \A i \in 1..Len(stack) - 1 : Tail(stack)[i] = stack[i + 1]
<1>1. /\ Tail(stack) \in Seq(FrameType) /\ Len(Tail(stack)) = Len(stack) - 1
      /\ Len(stack) \in Nat \ {0}
      /\ \A i \in 1..Len(stack) - 1 : Tail(stack)[i] = stack[i + 1]
  BY OneLess DEF Fits
<1>2. \A i \in 1..Len(stack) - 1 : i + 1 \in 1..Len(stack)
  BY <1>1
<1> QED
  BY <1>1, <1>2 DEF Fits

Unheard == <<[Head(stack) EXCEPT !.left = 0]>> \o Tail(stack)

LEMMA UnheardIs ==
  ASSUME SpaceOK, Fits(stack), Calling
  PROVE  /\ Fits(Unheard) /\ Len(Unheard) = Len(stack)
         /\ Unheard[1] = [node |-> stack[1].node, left |-> 0]
         /\ \A i \in 2..Len(stack) : Unheard[i] = stack[i]
<1> DEFINE f == [node |-> stack[1].node, left |-> 0]
<1>1. /\ Head(stack) = stack[1] /\ stack[1] \in FrameType /\ Len(stack) \in Nat \ {0}
      /\ stack[1].left \in 1..Len(references[stack[1].node])
  BY CallIs
<1>2. f \in FrameType /\ f.left <= Len(references[f.node])
  BY <1>1 DEF FrameType
<1>3. Unheard = <<f>> \o Tail(stack)
  BY <1>1 DEF Unheard, FrameType
<1>4. stack # <<>> /\ stack \in Seq(FrameType)
  BY DEF Calling, Fits
<1> HIDE DEF f
<1>5. /\ Unheard \in Seq(FrameType) /\ Len(Unheard) = Len(stack) /\ Unheard[1] = f
      /\ \A i \in 2..Len(stack) : Unheard[i] = stack[i]
  BY <1>2, <1>3, <1>4, NewHead
<1>6. \A i \in 1..Len(Unheard) : Unheard[i].left <= Len(references[Unheard[i].node])
  <2> TAKE i \in 1..Len(Unheard)
  <2>1. i = 1 \/ i \in 2..Len(stack)
    BY <1>1, <1>5
  <2> QED
    BY <1>1, <1>2, <1>5, <2>1 DEF Fits
<1> QED
  BY <1>5, <1>6 DEF Fits, f

-----------------------------------------------------------------------------
(* Types *)

Hier   == search.kind = "parent"
Origin == IF search.kind = "ns0" THEN ServerNode ELSE Root

SearchType == [kind : Search \cup {"none"}, for : Node \cup {NoNode}, known : SUBSET Nat]
ZnodeType  == [about : Node \cup {NoNode}, parent : Node \cup {NoNode}]

Fresh ==
  stack = <<>> /\ ~dead /\ searches = MaxSearches /\ \A k \in Search : cntr[k] = 0

Types ==
  /\ SpaceOK
  /\ search \in SearchType /\ (search.kind \in {"parent", "ns0"} => search.for \in Node)
  /\ Fits(stack)
  /\ visited \in [Search -> [1..Capacity -> Nat]]
  /\ cntr \in [Search -> 0..Capacity]
  /\ answer \in Node \cup {NoNode}
  /\ znode \in [Node -> ZnodeType]
  /\ dead \in BOOLEAN /\ unlisted \in BOOLEAN /\ unpushed \subseteq Node
  /\ searches \in 0..MaxSearches
  /\ search.kind = "none" => Fresh

LEMMA SearchUnderWay ==
  ASSUME Types, stack # <<>>
  PROVE  search.kind \in Search
  BY DEF Types, SearchType, Fresh

\* A callback that does not return early has met a node for the first time, by
\* a reference that counts.
LEMMA EnterIs ==
  ASSUME SpaceOK, Fits(stack), Calling, ~Skipped(Current)
  PROVE  /\ Current.to \in Node /\ ~Seen(search.kind, Current.to)
         /\ Current.to \in Targets(stack[1].node, Hier)
         /\ Place(stack[1]) \in SameIdentifier(Current.to)
<1> DEFINE r == Current
           n == stack[1].node
<1>1. /\ Place(stack[1]) \in 1..Len(references[n]) /\ Head(stack) = stack[1]
      /\ r = references[n][Place(stack[1])] /\ r \in ReferenceNode
  BY CallIs
<1>2. ~r.inverse /\ (Hier => r.hierarchical) /\ ~Seen(search.kind, r.to)
  BY DEF Skipped, Hier
<1>3. r.to \in Node
  BY <1>1 DEF ReferenceNode
<1>4. r.to \in Targets(n, Hier)
  <2>1. Hier \in BOOLEAN
    BY DEF Hier
  <2> QED
    BY <1>1, <1>2, <2>1, TargetsAre
<1>5. Place(stack[1]) \in SameIdentifier(r.to)
  BY <1>1, <1>2 DEF SameIdentifier
<1> QED
  BY <1>2, <1>3, <1>4, <1>5

LEMMA SlotsPositive ==
  ASSUME SpaceOK, Fits(stack), Calling, ~Skipped(Current)
  PROVE  Slots(Current.to) \in Nat \ {0} /\ (search.kind # "client" => Slots(Current.to) = 1)
<1> DEFINE S == SameIdentifier(Current.to)
           L == Len(references[stack[1].node])
<1>1. Place(stack[1]) \in S
  BY EnterIs
<1>2. IsFiniteSet(S)
  <2>1. Head(stack) = stack[1] /\ L \in Int
    BY CallIs DEF SpaceOK, FrameType
  <2>2. S \subseteq 1..L
    BY <2>1 DEF SameIdentifier
  <2>3. IsFiniteSet(1..L)
    BY <2>1, FS_Interval
  <2> QED
    BY <2>2, <2>3, FS_Subset
<1>3. Cardinality(S) \in Nat \ {0}
  BY <1>1, <1>2, FS_CardinalityType, FS_EmptySet
<1> QED
  BY <1>3 DEF Slots

LEMMA MarkKeepsTypes ==
  ASSUME SpaceOK, visited \in [Search -> [1..Capacity -> Nat]], cntr \in [Search -> 0..Capacity],
         NEW k \in Search, NEW n \in Node, NEW times \in Nat, cntr[k] + times <= Capacity,
         Mark(k, n, times)
  PROVE  visited' \in [Search -> [1..Capacity -> Nat]] /\ cntr' \in [Search -> 0..Capacity]
<1>1. identifier[n] \in Nat /\ Capacity \in Nat
  BY ConstantsOK DEF SpaceOK
<1> DEFINE a == [j \in 1..Capacity |->
                   IF j \in cntr[k] + 1..cntr[k] + times THEN identifier[n] ELSE visited[k][j]]
<1>2. a \in [1..Capacity -> Nat]
  BY <1>1
<1>3. visited' = [visited EXCEPT ![k] = a]
  BY DEF Mark
<1>4. cntr[k] + times \in 0..Capacity
  BY <1>1
<1>5. cntr' = [cntr EXCEPT ![k] = @ + times]
  BY DEF Mark
<1> HIDE DEF a
<1> QED
  BY <1>2, <1>3, <1>4, <1>5

LEMMA PushKeepsTypes ==
  ASSUME SpaceOK, Fits(stack), Calling, znode \in [Node -> ZnodeType], unpushed \subseteq Node,
         NEW n \in Node, Push(n)
  PROVE  znode' \in [Node -> ZnodeType] /\ unpushed' \subseteq Node
<1>1. Head(stack).node \in Node /\ references[Head(stack).node] \in Seq(ReferenceNode)
  BY CallIs DEF FrameType, SpaceOK
<1>2. [about |-> n, parent |-> Head(stack).node] \in ZnodeType
  BY <1>1 DEF ZnodeType
<1>3. Missing(n) \subseteq Node
  <2> DEFINE s == references[Head(stack).node]
  <2>1. \A i \in 1..Len(s) : s[i].to \in Node
    <3>1. s \in Seq(ReferenceNode)
      BY <1>1
    <3> HIDE DEF s
    <3>2. \A i \in 1..Len(s) : s[i] \in ReferenceNode
      BY <3>1
    <3> QED
      BY <3>2 DEF ReferenceNode
  <2> QED
    BY <2>1 DEF Missing, SameIdentifier
<1>4. PICK failed \in SUBSET Missing(n) :
        /\ unpushed' = unpushed \cup failed
        /\ znode' = [m \in Node |-> IF m \in Missing(n) \ failed
                                      THEN [about |-> n, parent |-> Head(stack).node] ELSE znode[m]]
  BY DEF Push
<1> QED
  BY <1>2, <1>3, <1>4

\* A search begins.
Starts ==
  /\ stack = <<>> /\ searches > 0 /\ searches' = searches - 1
  /\ stack' = <<Frame(Origin')>> /\ answer' = NoNode
  /\ UNCHANGED space

LEMMA StartsKeepsTypes ==
  ASSUME Types, Starts, search' \in SearchType, search'.kind # "none",
         search'.kind \in {"parent", "ns0"} => search'.for \in Node,
         visited' \in [Search -> [1..Capacity -> Nat]], cntr' \in [Search -> 0..Capacity],
         UNCHANGED znode, dead' \in BOOLEAN, unlisted' \in BOOLEAN, unpushed' \subseteq Node
  PROVE  Types'
<1>1. Origin' \in Node
  BY ConstantsOK DEF Origin
<1>2. Fits(<<Frame(Origin')>>)
  BY <1>1, FrameOK DEF Types
<1>3. Fits(stack)'
  BY <1>2 DEF Starts, Fits, space
<1>4. SpaceOK'
  BY DEF Types, SpaceOK, Starts, space
<1>5. searches' \in 0..MaxSearches
  BY ConstantsOK DEF Types, Starts
<1>6. answer' \in Node \cup {NoNode} /\ znode' \in [Node -> ZnodeType]
  BY DEF Types, Starts
<1> QED
  BY <1>3, <1>4, <1>5, <1>6 DEF Types

LEMMA ArrayContents ==
  ASSUME visited \in [Search -> [1..Capacity -> Nat]], NEW k \in Search
  PROVE  {visited[k][j] : j \in 1..Capacity} \in SUBSET Nat
<1>1. visited[k] \in [1..Capacity -> Nat]
  OBVIOUS
<1>2. \A j \in 1..Capacity : visited[k][j] \in Nat
  BY <1>1
<1> QED
  BY <1>2

LEMMA ZeroesOK == Zeroes \in [1..Capacity -> Nat]
  BY DEF Zeroes

LEMMA LocateParentStarts ==
  ASSUME Types, NEW n \in Node, LocateParent(n)
  PROVE  /\ Starts /\ search.kind \in {"none", "parent"} /\ ~dead
         /\ search' \in SearchType /\ search'.kind = "parent"
         /\ search'.for = n /\ search'.known = {}
         /\ visited' = [visited EXCEPT !["parent"] = Zeroes]
         /\ UNCHANGED <<cntr, znode, dead, unlisted, unpushed>>
<1>1. search' = [kind |-> "parent", for |-> n, known |-> {}]
  BY DEF LocateParent, Begin
<1>2. search' \in SearchType /\ search'.kind = "parent" /\ search'.for = n /\ search'.known = {}
  BY <1>1 DEF SearchType, Search
<1>3. Origin' = Root
  BY <1>2 DEF Origin
<1>4. Starts
  BY <1>3 DEF LocateParent, Begin, Starts
<1> QED
  BY <1>2, <1>4 DEF LocateParent

LEMMA CheckChildStarts ==
  ASSUME Types, NEW n \in Node, CheckChildOfNS0(n)
  PROVE  /\ Starts /\ search.kind \in {"none", "ns0"} /\ ~dead
         /\ search' \in SearchType /\ search'.kind = "ns0"
         /\ search'.for = n /\ search'.known = {visited["ns0"][j] : j \in 1..Capacity}
         /\ UNCHANGED <<visited, cntr, znode, dead, unlisted, unpushed>>
<1> DEFINE K == {visited["ns0"][j] : j \in 1..Capacity}
<1>0. K \in SUBSET Nat
  BY ArrayContents DEF Types, Search
<1>1. search' = [kind |-> "ns0", for |-> n, known |-> K]
  BY DEF CheckChildOfNS0, Begin
<1>2. search' \in SearchType /\ search'.kind = "ns0" /\ search'.for = n /\ search'.known = K
  BY <1>0, <1>1 DEF SearchType, Search
<1>3. Origin' = ServerNode
  BY <1>2 DEF Origin
<1>4. Starts
  BY <1>3 DEF CheckChildOfNS0, Begin, Starts
<1> QED
  BY <1>2, <1>4 DEF CheckChildOfNS0

LEMMA ClientStarts ==
  ASSUME Types, UAServerAddressSpace
  PROVE  /\ Starts /\ search.kind \in {"none", "client"}
         /\ search' \in SearchType /\ search'.kind = "client" /\ search'.known = {}
         /\ visited' = [visited EXCEPT !["client"] = Zeroes]
         /\ cntr' = [cntr EXCEPT !["client"] = 0]
         /\ dead' = FALSE /\ unlisted' = FALSE /\ unpushed' = {} /\ UNCHANGED znode
<1>1. search' = [kind |-> "client", for |-> NoNode, known |-> {}]
  BY DEF UAServerAddressSpace, Begin
<1>2. search' \in SearchType /\ search'.kind = "client" /\ search'.known = {}
  BY <1>1 DEF SearchType, Search
<1>3. Origin' = Root
  BY <1>2 DEF Origin
<1>4. Starts
  BY <1>3 DEF UAServerAddressSpace, Begin, Starts
<1> QED
  BY <1>2, <1>4 DEF UAServerAddressSpace

\* A callback enters a node: it marks it, and browses it or does not.
Enters ==
  /\ Calling /\ ~Skipped(Current)
  /\ cntr[search.kind] + Slots(Current.to) <= Capacity
  /\ Mark(search.kind, Current.to, Slots(Current.to))
  /\ stack' = Consumed \/ stack' = Descended(Current.to)
  /\ UNCHANGED <<space, search, dead, unlisted, searches>>

\* A callback, or the client, comes to an end that nobody planned.
Stops ==
  /\ Calling /\ ~Skipped(Current)
  /\ dead' = TRUE /\ stack' = <<>>
  /\ UNCHANGED <<space, search, visited, cntr, answer, znode, unlisted, unpushed, searches>>

\* Only the stack moves on.
Passes ==
  /\ \/ Calling /\ Skipped(Current) /\ stack' = Consumed /\ UNCHANGED unlisted
     \/ stack # <<>> /\ Head(stack).left = 0 /\ stack' = Tail(stack) /\ UNCHANGED unlisted
     \/ Calling /\ search.kind = "client" /\ stack' = Unheard /\ unlisted' = TRUE
  /\ UNCHANGED <<space, search, visited, cntr, answer, znode, dead, unpushed, searches>>

LEMMA FoundParentIs ==
  ASSUME FoundParent
  PROVE  /\ Enters /\ search.kind = "parent" /\ Current.to = search.for
         /\ stack' = Consumed /\ answer' = Head(stack).node /\ UNCHANGED <<znode, unpushed>>
<1>1. Slots(Current.to) = 1
  BY DEF FoundParent, Slots
<1> QED
  BY <1>1 DEF FoundParent, Entering, Enters, NextReference

LEMMA DescendParentIs ==
  ASSUME DescendParent
  PROVE  /\ Enters /\ search.kind = "parent" /\ Current.to # search.for
         /\ stack' = Descended(Current.to) /\ UNCHANGED <<answer, znode, unpushed>>
<1>1. Slots(Current.to) = 1
  BY DEF DescendParent, Slots
<1> QED
  BY <1>1 DEF DescendParent, Entering, Enters, Descended

LEMMA DescendNS0Is ==
  ASSUME DescendNS0
  PROVE  /\ Enters /\ search.kind = "ns0"
         /\ stack' = Descended(Current.to) /\ UNCHANGED <<znode, unpushed>>
         /\ answer' = IF Current.to = search.for THEN ServerNode ELSE answer
<1>1. Slots(Current.to) = 1
  BY DEF DescendNS0, Slots
<1> QED
  BY <1>1 DEF DescendNS0, Entering, Enters, Descended

LEMMA DescendClientIs ==
  ASSUME DescendClient
  PROVE  /\ Enters /\ search.kind = "client"
         /\ stack' = Descended(Current.to) /\ UNCHANGED answer
         /\ Push(Current.to)
  BY DEF DescendClient, Entering, Enters, Descended

LEMMA StopsIs ==
  ASSUME Overrun \/ BrowseFails
  PROVE  Stops /\ (search.kind = "client" \/ cntr[search.kind] + Slots(Current.to) > Capacity)
<1>1. ASSUME Overrun PROVE Stops /\ cntr[search.kind] + Slots(Current.to) > Capacity
  BY <1>1 DEF Overrun, Stops
<1>2. ASSUME BrowseFails PROVE Stops /\ search.kind = "client"
  BY <1>2 DEF BrowseFails, Stops
<1> QED
  BY <1>1, <1>2

LEMMA PassesIs ==
  ASSUME Skip \/ Return \/ ListFails
  PROVE  Passes
<1>1. ASSUME Skip PROVE Passes
  BY <1>1 DEF Skip, Passes, NextReference
<1>2. ASSUME Return PROVE Passes
  BY <1>2 DEF Return, Passes
<1>3. ASSUME ListFails PROVE Passes
  BY <1>3 DEF ListFails, Passes, Unheard
<1> QED
  BY <1>1, <1>2, <1>3

LEMMA EntersKeepsTypes ==
  ASSUME Types, Enters, answer' \in Node \cup {NoNode}, znode' \in [Node -> ZnodeType],
         unpushed' \subseteq Node
  PROVE  Types'
<1>1. search.kind \in Search
  BY SearchUnderWay DEF Enters, Calling
<1>2. Current.to \in Node /\ Slots(Current.to) \in Nat
  BY EnterIs, SlotsPositive DEF Types, Enters
<1>3. visited' \in [Search -> [1..Capacity -> Nat]] /\ cntr' \in [Search -> 0..Capacity]
  BY <1>1, <1>2, MarkKeepsTypes DEF Types, Enters
<1>4. Fits(stack')
  BY <1>2, ConsumedIs, DescendedIs DEF Types, Enters
<1>5. Fits(stack)'
  BY <1>4 DEF Enters, Fits, space
<1>6. SpaceOK'
  BY DEF Types, SpaceOK, Enters, space
<1>7. search'.kind # "none" /\ search' = search /\ dead' = dead /\ unlisted' = unlisted
      /\ searches' = searches
  BY <1>1 DEF Enters, Search
<1> QED
  BY <1>3, <1>5, <1>6, <1>7 DEF Types

LEMMA StopsKeepsTypes ==
  ASSUME Types, Stops
  PROVE  Types'
<1>1. search.kind \in Search
  BY SearchUnderWay DEF Stops, Calling
<1>2. Fits(stack)'
  BY DEF Fits, Stops, FrameType
<1>3. SpaceOK'
  BY DEF Types, SpaceOK, Stops, space
<1>4. search' = search /\ search.kind # "none"
  BY <1>1 DEF Stops, Search
<1> QED
  BY <1>2, <1>3, <1>4 DEF Types, Stops

LEMMA PassesKeepsTypes ==
  ASSUME Types, Passes
  PROVE  Types'
<1>1. search.kind \in Search
  BY SearchUnderWay DEF Passes, Calling
<1>2. Fits(stack')
  BY ConsumedIs, TailIs, UnheardIs DEF Types, Passes
<1>3. Fits(stack)'
  BY <1>2 DEF Passes, Fits, space
<1>4. SpaceOK'
  BY DEF Types, SpaceOK, Passes, space
<1>5. search' = search /\ search.kind # "none"
  BY <1>1 DEF Passes, Search
<1>6. unlisted' \in BOOLEAN
  BY DEF Passes, Types
<1> QED
  BY <1>3, <1>4, <1>5, <1>6 DEF Types, Passes

LEMMA NextKeepsTypes == Types /\ [Next]_vars => Types'
<1> SUFFICES ASSUME Types, [Next]_vars PROVE Types'
  OBVIOUS
<1>1. ASSUME NEW n \in Node, LocateParent(n) PROVE Types'
  <2>1. visited' \in [Search -> [1..Capacity -> Nat]]
    BY <1>1, LocateParentStarts, ZeroesOK DEF Types
  <2> QED
    BY <1>1, <2>1, LocateParentStarts, StartsKeepsTypes DEF Types
<1>2. ASSUME NEW n \in Node, CheckChildOfNS0(n) PROVE Types'
  BY <1>2, CheckChildStarts, StartsKeepsTypes DEF Types
<1>3. ASSUME UAServerAddressSpace PROVE Types'
  <2>1. visited' \in [Search -> [1..Capacity -> Nat]]
    BY <1>3, ClientStarts, ZeroesOK DEF Types
  <2>2. 0 \in 0..Capacity
    BY ConstantsOK
  <2>3. cntr' \in [Search -> 0..Capacity]
    BY <1>3, <2>2, ClientStarts DEF Types
  <2>4. search'.kind = "client"
    BY <1>3, ClientStarts
  <2> QED
    BY <1>3, <2>1, <2>3, <2>4, ClientStarts, StartsKeepsTypes
<1>4. ASSUME FoundParent PROVE Types'
  <2>1. Head(stack).node \in Node
    BY <1>4, FoundParentIs, CallIs DEF Types, Enters, FrameType
  <2> QED
    BY <1>4, <2>1, FoundParentIs, EntersKeepsTypes DEF Types
<1>5. ASSUME DescendParent PROVE Types'
  BY <1>5, DescendParentIs, EntersKeepsTypes DEF Types
<1>6. ASSUME DescendNS0 PROVE Types'
  BY <1>6, DescendNS0Is, EntersKeepsTypes, ConstantsOK DEF Types
<1>7. ASSUME DescendClient PROVE Types'
  <2>1. znode' \in [Node -> ZnodeType] /\ unpushed' \subseteq Node
    BY <1>7, DescendClientIs, EnterIs, PushKeepsTypes DEF Types, Enters
  <2> QED
    BY <1>7, <2>1, DescendClientIs, EntersKeepsTypes DEF Types
<1>8. ASSUME Overrun \/ BrowseFails PROVE Types'
  BY <1>8, StopsIs, StopsKeepsTypes
<1>9. ASSUME Skip \/ Return \/ ListFails PROVE Types'
  BY <1>9, PassesIs, PassesKeepsTypes
<1>10. ASSUME UNCHANGED vars PROVE Types'
  BY <1>10 DEF vars, space, Types, SpaceOK, Fits, Fresh
<1> QED
  BY <1>1, <1>2, <1>3, <1>4, <1>5, <1>6, <1>7, <1>8, <1>9, <1>10 DEF Next

LEMMA InitTypes == Init => Types
<1> SUFFICES ASSUME Init PROVE Types
  OBVIOUS
<1>1. SpaceOK
  BY ConstantsOK DEF Init, SpaceOK
<1>2. search \in SearchType /\ search.kind = "none"
  BY DEF Init, SearchType
<1>3. Fits(stack)
  BY DEF Init, Fits, FrameType
<1>4. visited \in [Search -> [1..Capacity -> Nat]]
  BY ZeroesOK DEF Init
<1>5. cntr \in [Search -> 0..Capacity] /\ searches \in 0..MaxSearches
  BY ConstantsOK DEF Init
<1>6. znode \in [Node -> ZnodeType]
  BY DEF Init, ZnodeType
<1>7. Fresh
  BY DEF Init, Fresh
<1> QED
  BY <1>1, <1>2, <1>3, <1>4, <1>5, <1>6, <1>7 DEF Types, Init

LEMMA AlwaysTypes == Spec => []Types
  BY InitTypes, NextKeepsTypes, PTL DEF Spec

\* The types of Browse: whatever the address space, the counters stay within
\* the arrays, and the frames within the references of their nodes.
THEOREM TypesKept == Spec => []TypeOK
<1>1. Types => TypeOK
  <2> SUFFICES ASSUME Types PROVE TypeOK
    OBVIOUS
  <2>1. \A i \in 1..Len(stack) : /\ stack[i].node \in Node
                                 /\ stack[i].left \in 0..Len(references[stack[i].node])
    <3> TAKE i \in 1..Len(stack)
    <3>1. stack[i] \in FrameType /\ stack[i].left <= Len(references[stack[i].node])
      BY DEF Types, Fits
    <3>2. stack[i].node \in Node /\ stack[i].left \in Nat
      BY <3>1 DEF FrameType
    <3>3. Len(references[stack[i].node]) \in Nat
      BY <3>2 DEF Types, SpaceOK
    <3> QED
      BY <3>1, <3>2, <3>3
  <2>2. references \in [Node -> Seq(ReferenceNode)] /\ identifier \in [Node -> Nat]
    BY DEF Types, SpaceOK
  <2>3. search.kind \in Search \cup {"none"} /\ search.for \in Node \cup {NoNode}
    BY DEF Types, SearchType
  <2>4. znode \in [Node -> [about : Node \cup {NoNode}, parent : Node \cup {NoNode}]]
    BY DEF Types, ZnodeType
  <2> QED
    BY <2>1, <2>2, <2>3, <2>4 DEF Types, TypeOK
<1> QED
  BY <1>1, AlwaysTypes, PTL

-----------------------------------------------------------------------------
(* The arrays *)

\* Slots that were not used yet are zero, so that to mark a node overwrites none.
ArraysOK == \A k \in Search : \A j \in 1..Capacity : j > cntr[k] => visited[k][j] = 0

Contents(a) == {a[j] : j \in 1..Capacity} \ {0}
Marked      == Contents(visited[search.kind])

LEMMA InContents ==
  ASSUME NEW a, NEW v
  PROVE  v \in Contents(a) <=> v # 0 /\ \E j \in 1..Capacity : a[j] = v
  BY DEF Contents

LEMMA SeenIs ==
  ASSUME SpaceOK, NEW n \in Node
  PROVE  Seen(search.kind, n) <=> identifier[n] \in Marked
<1>1. identifier[n] # 0
  BY DEF SpaceOK
<1> QED
  BY <1>1, InContents DEF Seen, Marked

\* b is a with v in so many slots behind the first c.
Written(a, b, c, times, v) ==
  /\ c + times <= Capacity /\ \A j \in 1..Capacity : j > c => a[j] = 0
  /\ \A j \in 1..Capacity : b[j] = IF j \in c + 1..c + times THEN v ELSE a[j]

LEMMA WriteAdds ==
  ASSUME NEW a, NEW b, NEW c \in Nat, NEW times \in Nat \ {0}, NEW v, v # 0,
         Written(a, b, c, times, v)
  PROVE  /\ Contents(b) = Contents(a) \cup {v}
         /\ \A j \in 1..Capacity : j > c + times => b[j] = 0
<1>0. Capacity \in Nat
  BY ConstantsOK
<1>1. c + 1 \in 1..Capacity /\ c + 1 \in c + 1..c + times
  BY <1>0 DEF Written
<1>2. b[c + 1] = v
  BY <1>1 DEF Written
<1>3. \A j \in 1..Capacity : b[j] = v \/ b[j] = a[j]
  BY DEF Written
<1>4. \A j \in 1..Capacity : a[j] # 0 => b[j] = a[j]
  <2> SUFFICES ASSUME NEW j \in 1..Capacity, a[j] # 0 PROVE b[j] = a[j]
    OBVIOUS
  <2>1. ~(j > c)
    BY DEF Written
  <2>2. j \notin c + 1..c + times
    BY <2>1
  <2> QED
    BY <2>2 DEF Written
<1>5. \A j \in 1..Capacity : j > c + times => b[j] = 0
  <2> SUFFICES ASSUME NEW j \in 1..Capacity, j > c + times PROVE b[j] = 0
    OBVIOUS
  <2>1. j > c /\ j \notin c + 1..c + times
    OBVIOUS
  <2> QED
    BY <2>1 DEF Written
<1>6. ASSUME NEW w PROVE w \in Contents(b) <=> w \in Contents(a) \cup {v}
  <2>1. ASSUME w \in Contents(b) PROVE w \in Contents(a) \cup {v}
    <3>1. PICK j \in 1..Capacity : b[j] = w /\ w # 0
      BY <2>1, InContents
    <3> QED
      BY <1>3, <3>1, InContents
  <2>2. ASSUME w \in Contents(a) PROVE w \in Contents(b)
    <3>1. PICK j \in 1..Capacity : a[j] = w /\ w # 0
      BY <2>2, InContents
    <3> QED
      BY <1>4, <3>1, InContents
  <2>3. v \in Contents(b)
    BY <1>1, <1>2, InContents
  <2> QED
    BY <2>1, <2>2, <2>3
<1> QED
  BY <1>5, <1>6

LEMMA EntersMarks ==
  ASSUME Types, ArraysOK, Enters
  PROVE  /\ ArraysOK' /\ search.kind \in Search /\ Current.to \in Node
         /\ identifier[Current.to] \notin Marked
         /\ Marked' = Marked \cup {identifier[Current.to]}
         /\ cntr'[search.kind] = cntr[search.kind] + Slots(Current.to)
<1> DEFINE k == search.kind
           n == Current.to
           c == cntr[k]
           times == Slots(n)
<1>1. k \in Search /\ c \in Nat
  <2>1. k \in Search
    BY SearchUnderWay DEF Enters, Calling
  <2> QED
    BY <2>1, ConstantsOK DEF Types
<1>2. n \in Node /\ times \in Nat \ {0} /\ ~Seen(k, n)
  BY EnterIs, SlotsPositive DEF Types, Enters
<1>3. identifier[n] # 0 /\ identifier[n] \notin Marked
  BY <1>2, SeenIs DEF Types, SpaceOK
<1>4. c + times <= Capacity /\ \A j \in 1..Capacity : j > c => visited[k][j] = 0
  BY <1>1 DEF Enters, ArraysOK
<1> DEFINE b == [j \in 1..Capacity |->
                   IF j \in c + 1..c + times THEN identifier[n] ELSE visited[k][j]]
<1>5. visited' = [visited EXCEPT ![k] = b] /\ cntr' = [cntr EXCEPT ![k] = @ + times]
  BY DEF Enters, Mark
<1>6. /\ Contents(b) = Contents(visited[k]) \cup {identifier[n]}
      /\ \A j \in 1..Capacity : j > c + times => b[j] = 0
  <2> DEFINE a == visited[k]
             v == identifier[n]
  <2>1. \A j \in 1..Capacity : b[j] = IF j \in c + 1..c + times THEN v ELSE a[j]
    OBVIOUS
  <2>2. c \in Nat /\ times \in Nat \ {0} /\ v # 0
    BY <1>1, <1>2, <1>3
  <2> HIDE DEF b
  <2>3. Written(a, b, c, times, v)
    BY <1>4, <2>1 DEF Written
  <2> HIDE DEF k, n, c, times, a, v
  <2>4. Contents(b) = Contents(a) \cup {v} /\ \A j \in 1..Capacity : j > c + times => b[j] = 0
    BY <2>2, <2>3, WriteAdds
  <2> QED
    BY <2>4 DEF a, v
<1> HIDE DEF b
<1>7. /\ visited'[k] = b /\ cntr'[k] = c + times
      /\ \A x \in Search : x # k => visited'[x] = visited[x] /\ cntr'[x] = cntr[x]
  BY <1>1, <1>5 DEF Types
<1>8. search' = search
  BY DEF Enters
<1>9. ArraysOK'
  BY <1>6, <1>7 DEF ArraysOK
<1> QED
  BY <1>1, <1>2, <1>3, <1>6, <1>7, <1>8, <1>9 DEF Marked

LEMMA NoContents ==
  ASSUME NEW a, \A j \in 1..Capacity : a[j] = 0
  PROVE  Contents(a) = {}
  BY DEF Contents

\* How a search finds its array, and its counter.
StartsOK ==
  /\ Marked' \subseteq search'.known
  /\ search'.kind = "parent" => cntr' = cntr /\ Marked' = {}
  /\ search'.kind = "ns0" =>
       cntr' = cntr /\ (search.kind = "ns0" => Marked' = Marked) /\ (search.kind = "none" => Marked' = {})
  /\ search'.kind = "client" => Marked' = {}

LEMMA LocateParentArray ==
  ASSUME Types, ArraysOK, NEW n \in Node, LocateParent(n)
  PROVE  ArraysOK' /\ StartsOK
<1>1. /\ visited' = [visited EXCEPT !["parent"] = Zeroes] /\ cntr' = cntr
      /\ search'.kind = "parent"
  BY LocateParentStarts
<1>2. /\ visited'["parent"] = Zeroes /\ \A j \in 1..Capacity : Zeroes[j] = 0
      /\ \A x \in Search : x # "parent" => visited'[x] = visited[x]
  BY <1>1 DEF Types, Search, Zeroes
<1>3. Marked' = {}
  BY <1>1, <1>2, NoContents DEF Marked
<1>4. ArraysOK'
  BY <1>1, <1>2 DEF ArraysOK
<1> QED
  BY <1>1, <1>3, <1>4 DEF StartsOK

LEMMA CheckChildArray ==
  ASSUME Types, ArraysOK, NEW n \in Node, CheckChildOfNS0(n)
  PROVE  ArraysOK' /\ StartsOK
<1>1. /\ visited' = visited /\ cntr' = cntr /\ search'.kind = "ns0"
      /\ search'.known = {visited["ns0"][j] : j \in 1..Capacity}
  BY CheckChildStarts
<1>2. Marked' = Contents(visited["ns0"])
  BY <1>1 DEF Marked
<1>3. search.kind = "ns0" => Marked' = Marked
  BY <1>2 DEF Marked
<1>4. search.kind = "none" => Marked' = {}
  <2> SUFFICES ASSUME search.kind = "none" PROVE Marked' = {}
    OBVIOUS
  <2>1. \A j \in 1..Capacity : j > 0 => visited["ns0"][j] = 0
    BY DEF Types, Fresh, ArraysOK, Search
  <2> QED
    BY <1>2, <2>1, NoContents
<1>5. Marked' \subseteq search'.known
  BY <1>1, <1>2 DEF Contents
<1>6. ArraysOK'
  BY <1>1 DEF ArraysOK
<1> QED
  BY <1>1, <1>3, <1>4, <1>5, <1>6 DEF StartsOK

LEMMA ClientArray ==
  ASSUME Types, ArraysOK, UAServerAddressSpace
  PROVE  ArraysOK' /\ StartsOK
<1>1. /\ visited' = [visited EXCEPT !["client"] = Zeroes]
      /\ cntr' = [cntr EXCEPT !["client"] = 0] /\ search'.kind = "client"
  BY ClientStarts
<1>2. /\ visited'["client"] = Zeroes /\ \A j \in 1..Capacity : Zeroes[j] = 0
      /\ \A x \in Search : x # "client" => visited'[x] = visited[x] /\ cntr'[x] = cntr[x]
  BY <1>1 DEF Types, Search, Zeroes
<1>3. Marked' = {}
  BY <1>1, <1>2, NoContents DEF Marked
<1>4. ArraysOK'
  BY <1>1, <1>2 DEF ArraysOK
<1> QED
  BY <1>1, <1>3, <1>4 DEF StartsOK

\* All a search's beginning does.
LEMMA NextStarts ==
  ASSUME Types, ArraysOK,
         (\E n \in Node : LocateParent(n) \/ CheckChildOfNS0(n)) \/ UAServerAddressSpace
  PROVE  /\ Starts /\ StartsOK /\ ArraysOK' /\ search'.kind \in Search
         /\ search.kind = "none" \/ search.kind = search'.kind
         /\ ~dead' /\ UNCHANGED znode /\ (search'.kind = "client" => ~unlisted')
         /\ search'.kind \in {"parent", "ns0"} => search'.for \in Node
         /\ search'.kind # "ns0" => search'.known = {}
<1> DEFINE Goal ==
             /\ Starts /\ StartsOK /\ ArraysOK' /\ search'.kind \in Search
             /\ search.kind = "none" \/ search.kind = search'.kind
             /\ ~dead' /\ UNCHANGED znode /\ (search'.kind = "client" => ~unlisted')
             /\ search'.kind \in {"parent", "ns0"} => search'.for \in Node
             /\ search'.kind # "ns0" => search'.known = {}
<1>1. ASSUME NEW n \in Node, LocateParent(n) PROVE Goal
  <2>1. StartsOK /\ ArraysOK'
    BY <1>1, LocateParentArray
  <2> QED
    BY <1>1, <2>1, LocateParentStarts DEF Search
<1>2. ASSUME NEW n \in Node, CheckChildOfNS0(n) PROVE Goal
  <2>1. StartsOK /\ ArraysOK'
    BY <1>2, CheckChildArray
  <2> QED
    BY <1>2, <2>1, CheckChildStarts DEF Search
<1>3. ASSUME UAServerAddressSpace PROVE Goal
  <2>1. StartsOK /\ ArraysOK'
    BY <1>3, ClientArray
  <2> QED
    BY <1>3, <2>1, ClientStarts DEF Search
<1> HIDE DEF Goal
<1>4. Goal
  BY <1>1, <1>2, <1>3
<1> QED
  BY <1>4 DEF Goal

LEMMA PassesKeepsArrays ==
  ASSUME Passes \/ Stops \/ UNCHANGED vars
  PROVE  Marked' = Marked /\ (ArraysOK => ArraysOK')
  BY DEF Passes, Stops, vars, Marked, ArraysOK

\* The steps of a search, once it has begun.
LEMMA NextIs ==
  ASSUME [Next]_vars
  PROVE  \/ (\E n \in Node : LocateParent(n) \/ CheckChildOfNS0(n)) \/ UAServerAddressSpace
         \/ FoundParent \/ DescendParent \/ DescendNS0 \/ DescendClient
         \/ Overrun \/ BrowseFails
         \/ Passes
         \/ UNCHANGED vars
  BY PassesIs DEF Next

LEMMA NextKeepsArrays == Types /\ ArraysOK /\ [Next]_vars => ArraysOK'
<1> SUFFICES ASSUME Types, ArraysOK, [Next]_vars PROVE ArraysOK'
  OBVIOUS
<1>1. ASSUME (\E n \in Node : LocateParent(n) \/ CheckChildOfNS0(n)) \/ UAServerAddressSpace
      PROVE  ArraysOK'
  BY <1>1, NextStarts
<1>2. ASSUME FoundParent \/ DescendParent \/ DescendNS0 \/ DescendClient PROVE ArraysOK'
  BY <1>2, FoundParentIs, DescendParentIs, DescendNS0Is, DescendClientIs, EntersMarks
<1>3. ASSUME Overrun \/ BrowseFails PROVE ArraysOK'
  BY <1>3, StopsIs, PassesKeepsArrays
<1>4. ASSUME Passes \/ UNCHANGED vars PROVE ArraysOK'
  BY <1>4, PassesKeepsArrays
<1> QED
  BY <1>1, <1>2, <1>3, <1>4, NextIs

LEMMA AlwaysArrays == Spec => []ArraysOK
<1>1. Init => ArraysOK
  BY DEF Init, ArraysOK, Zeroes
<1> QED
  BY <1>1, NextKeepsArrays, AlwaysTypes, PTL DEF Spec

-----------------------------------------------------------------------------
(* The depth of the recursion *)

\* The nodes under way: the last is where the search began, all others are in
\* the array, and no two of them have the same identifier.
PathOK(d, s, M, o) ==
  /\ s # <<>> => s[Len(s)].node = o
  /\ \A i \in 1..Len(s) - 1 : d[s[i].node] \in M
  /\ \A i, j \in 1..Len(s) - 1 : d[s[i].node] = d[s[j].node] => i = j

LEMMA PathMoves ==
  ASSUME NEW F, NEW s \in Seq(F), NEW t \in Seq(F), s # <<>>, t # <<>>, Len(t) = Len(s),
         \A i \in 1..Len(s) : t[i].node = s[i].node,
         NEW d, NEW M, NEW N, M \subseteq N, NEW o, PathOK(d, s, M, o)
  PROVE  PathOK(d, t, N, o)
<1>1. Len(s) \in 1..Len(s) /\ \A i \in 1..Len(s) - 1 : i \in 1..Len(s)
  OBVIOUS
<1>2. t[Len(t)].node = o
  BY <1>1 DEF PathOK
<1>3. \A i \in 1..Len(t) - 1 : i \in 1..Len(s) - 1 /\ t[i].node = s[i].node
  BY <1>1
<1> QED
  BY <1>2, <1>3 DEF PathOK

LEMMA PathShrinks ==
  ASSUME NEW F, NEW s \in Seq(F), NEW t \in Seq(F), s # <<>>, Len(t) = Len(s) - 1,
         \A i \in 1..Len(s) - 1 : t[i] = s[i + 1],
         NEW d, NEW M, NEW o, PathOK(d, s, M, o)
  PROVE  PathOK(d, t, M, o)
<1>1. Len(s) \in Nat \ {0} /\ Len(t) \in Nat
  OBVIOUS
<1>2. t # <<>> => t[Len(t)].node = o
  <2> SUFFICES ASSUME t # <<>> PROVE t[Len(t)].node = o
    OBVIOUS
  <2>1. Len(t) \in 1..Len(s) - 1 /\ Len(t) + 1 = Len(s)
    BY <1>1
  <2> QED
    BY <2>1 DEF PathOK
<1>3. ASSUME NEW i \in 1..Len(t) - 1
      PROVE  i \in Int /\ i + 1 \in 1..Len(s) - 1 /\ t[i] = s[i + 1]
  BY <1>1
<1>4. \A i \in 1..Len(t) - 1 : d[t[i].node] \in M
  BY <1>3 DEF PathOK
<1>5. ASSUME NEW i \in 1..Len(t) - 1, NEW j \in 1..Len(t) - 1, d[t[i].node] = d[t[j].node]
      PROVE  i = j
  <2>1. /\ i \in Int /\ i + 1 \in 1..Len(s) - 1 /\ t[i] = s[i + 1]
        /\ j \in Int /\ j + 1 \in 1..Len(s) - 1 /\ t[j] = s[j + 1]
    BY <1>3
  <2>2. d[s[i + 1].node] = d[s[j + 1].node]
    BY <1>5, <2>1
  <2>3. i + 1 = j + 1
    BY <2>1, <2>2 DEF PathOK
  <2> QED
    BY <2>1, <2>3
<1> QED
  BY <1>2, <1>4, <1>5 DEF PathOK

LEMMA PathGrows ==
  ASSUME NEW F, NEW s \in Seq(F), NEW t \in Seq(F), s # <<>>, Len(t) = Len(s) + 1,
         \A i \in 1..Len(s) : t[i + 1].node = s[i].node,
         NEW d, NEW M, NEW o, PathOK(d, s, M, o), d[t[1].node] \notin M
  PROVE  PathOK(d, t, M \cup {d[t[1].node]}, o)
<1>1. Len(s) \in Nat \ {0} /\ Len(t) \in Nat
  OBVIOUS
<1>2. t[Len(t)].node = o
  BY <1>1 DEF PathOK
<1>3. ASSUME NEW i \in 1..Len(t) - 1
      PROVE  i = 1 \/ (i - 1 \in 1..Len(s) - 1 /\ t[i].node = s[i - 1].node)
  <2> SUFFICES ASSUME i # 1 PROVE i - 1 \in 1..Len(s) - 1 /\ t[i].node = s[i - 1].node
    OBVIOUS
  <2>1. i - 1 \in 1..Len(s) - 1 /\ i - 1 \in 1..Len(s) /\ (i - 1) + 1 = i
    BY <1>1
  <2> QED
    BY <2>1
<1>4. ASSUME NEW i \in 1..Len(t) - 1, i # 1
      PROVE  d[t[i].node] \in M
  BY <1>3, <1>4 DEF PathOK
<1>5. ASSUME NEW i \in 1..Len(t) - 1, NEW j \in 1..Len(t) - 1, d[t[i].node] = d[t[j].node]
      PROVE  i = j
  <2>1. CASE i = 1 \/ j = 1
    BY <1>4, <1>5, <2>1
  <2>2. CASE i # 1 /\ j # 1
    <3>1. /\ i - 1 \in 1..Len(s) - 1 /\ t[i].node = s[i - 1].node
          /\ j - 1 \in 1..Len(s) - 1 /\ t[j].node = s[j - 1].node
      BY <1>3, <2>2
    <3>2. i - 1 = j - 1
      BY <1>5, <3>1 DEF PathOK
    <3> QED
      BY <3>2
  <2> QED
    BY <2>1, <2>2
<1> QED
  BY <1>2, <1>4, <1>5 DEF PathOK

StackOK == (stack # <<>> => ~dead) /\ PathOK(identifier, stack, Marked, Origin)

LEMMA ConsumedNodes ==
  ASSUME SpaceOK, Fits(stack), Calling
  PROVE  /\ Len(Consumed) = Len(stack) /\ Consumed # <<>> /\ Consumed \in Seq(FrameType)
         /\ \A i \in 1..Len(stack) : Consumed[i].node = stack[i].node
<1>1. Len(Consumed) = Len(stack) /\ Len(stack) \in Nat \ {0} /\ Consumed \in Seq(FrameType)
      /\ Consumed[1].node = stack[1].node
  BY CallIs, ConsumedIs DEF Fits
<1>2. \A i \in 1..Len(stack) : i = 1 \/ i \in 2..Len(stack)
  BY <1>1
<1>3. \A i \in 2..Len(stack) : Consumed[i] = stack[i]
  BY ConsumedIs
<1> QED
  BY <1>1, <1>2, <1>3

LEMMA UnheardNodes ==
  ASSUME SpaceOK, Fits(stack), Calling
  PROVE  /\ Len(Unheard) = Len(stack) /\ Unheard # <<>> /\ Unheard \in Seq(FrameType)
         /\ \A i \in 1..Len(stack) : Unheard[i].node = stack[i].node
<1>1. Len(Unheard) = Len(stack) /\ Len(stack) \in Nat \ {0} /\ Unheard \in Seq(FrameType)
      /\ Unheard[1].node = stack[1].node
  BY CallIs, UnheardIs DEF Fits
<1>2. \A i \in 1..Len(stack) : i = 1 \/ i \in 2..Len(stack)
  BY <1>1
<1>3. \A i \in 2..Len(stack) : Unheard[i] = stack[i]
  BY UnheardIs
<1> QED
  BY <1>1, <1>2, <1>3

LEMMA DescendedNodes ==
  ASSUME SpaceOK, Fits(stack), Calling, NEW n \in Node
  PROVE  /\ Len(Descended(n)) = Len(stack) + 1 /\ Descended(n) # <<>>
         /\ Descended(n) \in Seq(FrameType) /\ Descended(n)[1].node = n
         /\ \A i \in 1..Len(stack) : Descended(n)[i + 1].node = stack[i].node
<1>1. /\ Len(Descended(n)) = Len(stack) + 1 /\ Len(stack) \in Nat \ {0}
      /\ Descended(n) \in Seq(FrameType) /\ Descended(n)[1] = Frame(n)
  BY CallIs, DescendedIs DEF Fits
<1>2. Descended(n)[1].node = n
  BY <1>1, FrameOK
<1>3. \A i \in 1..Len(stack) : Descended(n)[i + 1] = Consumed[i]
  BY DescendedIs
<1> QED
  BY <1>1, <1>2, <1>3, ConsumedNodes

LEMMA EntersKeepsStack ==
  ASSUME Types, ArraysOK, StackOK, Enters
  PROVE  StackOK'
<1>1. /\ Current.to \in Node /\ identifier[Current.to] \notin Marked
      /\ Marked' = Marked \cup {identifier[Current.to]}
  BY EntersMarks
<1>2. /\ SpaceOK /\ Fits(stack) /\ Calling /\ stack \in Seq(FrameType) /\ stack # <<>>
      /\ PathOK(identifier, stack, Marked, Origin) /\ ~dead
  BY DEF Types, StackOK, Enters, Calling, Fits
<1>3. Marked \subseteq Marked'
  BY <1>1
<1>4. identifier' = identifier /\ Origin' = Origin /\ dead' = dead
      /\ (stack' = Consumed \/ stack' = Descended(Current.to))
  BY DEF Enters, space, Origin
<1>5. ASSUME stack' = Consumed PROVE PathOK(identifier, stack', Marked', Origin)
  <2>1. /\ Len(Consumed) = Len(stack) /\ Consumed # <<>> /\ Consumed \in Seq(FrameType)
        /\ \A i \in 1..Len(stack) : Consumed[i].node = stack[i].node
    BY <1>2, ConsumedNodes
  <2>2. PathOK(identifier, Consumed, Marked', Origin)
    BY <1>2, <1>3, <2>1, PathMoves
  <2> QED
    BY <1>5, <2>2
<1>6. ASSUME stack' = Descended(Current.to) PROVE PathOK(identifier, stack', Marked', Origin)
  <2> DEFINE t == Descended(Current.to)
  <2>1. /\ Len(t) = Len(stack) + 1 /\ t \in Seq(FrameType) /\ t[1].node = Current.to
        /\ \A i \in 1..Len(stack) : t[i + 1].node = stack[i].node
    BY <1>1, <1>2, DescendedNodes
  <2> HIDE DEF t
  <2>2. PathOK(identifier, t, Marked \cup {identifier[t[1].node]}, Origin)
    BY <1>1, <1>2, <2>1, PathGrows
  <2> QED
    BY <1>1, <1>6, <2>1, <2>2 DEF t
<1> QED
  BY <1>2, <1>4, <1>5, <1>6 DEF StackOK

LEMMA NextKeepsStack == Types /\ ArraysOK /\ StackOK /\ [Next]_vars => StackOK'
<1> SUFFICES ASSUME Types, ArraysOK, StackOK, [Next]_vars PROVE StackOK'
  OBVIOUS
<1>1. ASSUME (\E n \in Node : LocateParent(n) \/ CheckChildOfNS0(n)) \/ UAServerAddressSpace
      PROVE  StackOK'
  <2>1. ~dead' /\ stack' = <<Frame(Origin')>>
    BY <1>1, NextStarts DEF Starts
  <2>2. Origin' \in Node
    BY ConstantsOK DEF Origin
  <2>3. Len(<<Frame(Origin')>>) = 1 /\ <<Frame(Origin')>>[1].node = Origin'
    BY <2>2, FrameOK DEF Types
  <2>4. 1..0 = {}
    OBVIOUS
  <2>5. PathOK(identifier', stack', Marked', Origin')
    BY <2>1, <2>3, <2>4 DEF PathOK
  <2> QED
    BY <2>1, <2>5 DEF StackOK
<1>2. ASSUME FoundParent \/ DescendParent \/ DescendNS0 \/ DescendClient PROVE StackOK'
  BY <1>2, FoundParentIs, DescendParentIs, DescendNS0Is, DescendClientIs, EntersKeepsStack
<1>3. ASSUME Overrun \/ BrowseFails PROVE StackOK'
  <2>1. stack' = <<>>
    BY <1>3, StopsIs DEF Stops
  <2> QED
    BY <2>1 DEF StackOK, PathOK
<1>4. ASSUME Passes PROVE StackOK'
  <2>1. Marked' = Marked /\ identifier' = identifier /\ Origin' = Origin /\ dead' = dead
    BY <1>4, PassesKeepsArrays DEF Passes, space, Origin
  <2>2. /\ SpaceOK /\ Fits(stack) /\ stack \in Seq(FrameType) /\ stack # <<>>
        /\ PathOK(identifier, stack, Marked, Origin) /\ ~dead
    BY <1>4 DEF Types, StackOK, Passes, Calling, Fits
  <2>3. ASSUME Calling, stack' = Consumed PROVE PathOK(identifier, stack', Marked, Origin)
    BY <2>2, <2>3, ConsumedNodes, PathMoves
  <2>4. ASSUME Calling, stack' = Unheard PROVE PathOK(identifier, stack', Marked, Origin)
    BY <2>2, <2>4, UnheardNodes, PathMoves
  <2>5. ASSUME stack' = Tail(stack) PROVE PathOK(identifier, stack', Marked, Origin)
    <3>1. /\ Tail(stack) \in Seq(FrameType) /\ Len(Tail(stack)) = Len(stack) - 1
          /\ \A i \in 1..Len(stack) - 1 : Tail(stack)[i] = stack[i + 1]
      BY <2>2, TailIs DEF Fits
    <3>2. PathOK(identifier, Tail(stack), Marked, Origin)
      BY <2>2, <3>1, PathShrinks
    <3> QED
      BY <2>5, <3>2
  <2>6. PathOK(identifier, stack', Marked, Origin)
    BY <1>4, <2>3, <2>4, <2>5 DEF Passes
  <2> QED
    BY <2>1, <2>2, <2>6 DEF StackOK
<1>5. ASSUME UNCHANGED vars PROVE StackOK'
  BY <1>5, PassesKeepsArrays DEF vars, space, StackOK, Origin
<1> QED
  BY <1>1, <1>2, <1>3, <1>4, <1>5, NextIs

LEMMA AlwaysStack == Spec => []StackOK
<1>1. Init => StackOK
  BY DEF Init, StackOK, PathOK
<1> QED
  BY <1>1, NextKeepsStack, AlwaysTypes, AlwaysArrays, PTL DEF Spec

Numbers(T) == {identifier[n] : n \in T}

LEMMA NumbersFinite ==
  ASSUME SpaceOK, NEW T \in SUBSET Node
  PROVE  IsFiniteSet(Numbers(T)) /\ Cardinality(Numbers(T)) \in Nat
<1> DEFINE f == [n \in T |-> identifier[n]]
<1>1. f \in Surjection(T, Numbers(T))
  BY DEF Surjection, Numbers
<1>2. IsFiniteSet(T)
  BY NodesAreFinite, FS_Subset
<1> HIDE DEF f
<1> QED
  BY <1>1, <1>2, FS_Surjection, FS_CardinalityType

\* However the references run in circles, the recursion is never deeper than
\* there are identifiers: a node is entered once, also when the array already
\* holds what an earlier search put there.
THEOREM DepthBounded == Spec => []DepthIsBounded
<1>1. Types /\ StackOK => DepthIsBounded
  <2> SUFFICES ASSUME Types, StackOK PROVE DepthIsBounded
    OBVIOUS
  <2> DEFINE L == Len(stack) - 1
             f == [i \in 1..L |-> identifier[stack[i].node]]
  <2>1. Len(stack) \in Nat
    BY DEF Types, Fits
  <2>2. IsFiniteSet(Numbers(Node)) /\ Cardinality(Numbers(Node)) \in Nat
    BY NumbersFinite DEF Types
  <2>3. CASE stack = <<>>
    BY <2>1, <2>2, <2>3 DEF DepthIsBounded, Numbers
  <2>4. CASE stack # <<>>
    <3>1. L \in Nat
      <4>1. stack \in Seq(FrameType)
        BY DEF Types, Fits
      <4> QED
        BY <2>4, <4>1
    <3>2. \A i \in 1..L : stack[i].node \in Node
      <4>1. \A i \in 1..Len(stack) : stack[i] \in FrameType
        BY DEF Types, Fits
      <4>2. \A i \in 1..L : i \in 1..Len(stack)
        BY <2>1
      <4> QED
        BY <4>1, <4>2 DEF FrameType
    <3>3. f \in Injection(1..L, Numbers(Node))
      <4>1. f \in [1..L -> Numbers(Node)]
        BY <3>2 DEF Numbers
      <4>2. \A i, j \in 1..L : f[i] = f[j] => i = j
        BY DEF StackOK, PathOK
      <4> HIDE DEF f
      <4> QED
        BY <4>1, <4>2 DEF Injection, IsInjective
    <3>4. Cardinality(1..L) <= Cardinality(Numbers(Node))
      <4> HIDE DEF f
      <4> QED
        BY <2>2, <3>3, FS_Injection
    <3>5. Cardinality(1..L) = L
      BY <3>1, FS_Interval
    <3> QED
      BY <2>1, <2>2, <3>4, <3>5 DEF DepthIsBounded, Numbers
  <2> QED
    BY <2>3, <2>4
<1> QED
  BY <1>1, AlwaysTypes, AlwaysStack, PTL

-----------------------------------------------------------------------------
(* A search stays within every set that is closed under its references *)

Closed(T) == \A l \in T \cup {Origin} : Targets(l, Hier) \subseteq T

NodesIn(s, X) == \A i \in 1..Len(s) : s[i].node \in X

SearchIn(T) == NodesIn(stack, T \cup {Origin}) /\ Marked \subseteq Numbers(T)

SearchWithin ==
  search.kind # "none" => \A T \in SUBSET Node : Closed(T) => SearchIn(T)

LEMMA SameSpace ==
  ASSUME UNCHANGED space, search'.kind = search.kind
  PROVE  /\ Origin' = Origin /\ Hier' = Hier
         /\ \A T \in SUBSET Node : /\ Closed(T)' <=> Closed(T)
                                   /\ Numbers(T)' = Numbers(T)
         /\ \A l \in Node : Targets(l, TRUE)' = Targets(l, TRUE)
         /\ \A l \in Node : Targets(l, FALSE)' = Targets(l, FALSE)
<1>1. references' = references /\ identifier' = identifier /\ Origin' = Origin /\ Hier' = Hier
  BY DEF space, Origin, Hier
<1>2. \A T \in SUBSET Node : Closed(T)' <=> Closed(T)
  BY <1>1 DEF Closed, Targets
<1>3. \A T \in SUBSET Node : Numbers(T)' = Numbers(T)
  BY <1>1 DEF Numbers
<1>4. \A l \in Node : Targets(l, TRUE)' = Targets(l, TRUE) /\ Targets(l, FALSE)' = Targets(l, FALSE)
  BY <1>1 DEF Targets
<1> QED
  BY <1>1, <1>2, <1>3, <1>4

LEMMA EnteredIsIn ==
  ASSUME Types, Calling, ~Skipped(Current), NEW T \in SUBSET Node, Closed(T), SearchIn(T)
  PROVE  Current.to \in T
<1>1. Len(stack) \in Nat \ {0} /\ Current.to \in Targets(stack[1].node, Hier)
  BY CallIs, EnterIs DEF Types
<1>2. stack[1].node \in T \cup {Origin}
  BY <1>1 DEF SearchIn, NodesIn
<1> QED
  BY <1>1, <1>2 DEF Closed

LEMMA NodesInMoves ==
  ASSUME NEW s, NEW t, Len(t) = Len(s), \A i \in 1..Len(s) : t[i].node = s[i].node,
         NEW X, NodesIn(s, X)
  PROVE  NodesIn(t, X)
  BY DEF NodesIn

LEMMA NodesInShrinks ==
  ASSUME NEW s, NEW t, Len(s) \in Nat \ {0}, Len(t) = Len(s) - 1,
         \A i \in 1..Len(s) - 1 : t[i] = s[i + 1], NEW X, NodesIn(s, X)
  PROVE  NodesIn(t, X)
<1>1. \A i \in 1..Len(t) : i + 1 \in 1..Len(s) /\ t[i] = s[i + 1]
  OBVIOUS
<1> QED
  BY <1>1 DEF NodesIn

LEMMA NodesInGrows ==
  ASSUME NEW s, NEW t, Len(s) \in Nat \ {0}, Len(t) = Len(s) + 1,
         \A i \in 1..Len(s) : t[i + 1].node = s[i].node, NEW X, NodesIn(s, X), t[1].node \in X
  PROVE  NodesIn(t, X)
<1>1. ASSUME NEW i \in 1..Len(t), i # 1 PROVE t[i].node \in X
  <2>1. i - 1 \in 1..Len(s) /\ (i - 1) + 1 = i
    BY <1>1
  <2> QED
    BY <2>1 DEF NodesIn
<1> QED
  BY <1>1 DEF NodesIn

LEMMA StartsWithin ==
  ASSUME Types, ArraysOK, SearchWithin, Starts, StartsOK, search'.kind \in Search,
         search.kind = "none" \/ search.kind = search'.kind
  PROVE  SearchWithin'
<1> SUFFICES ASSUME NEW T \in SUBSET Node, Closed(T)' PROVE SearchIn(T)'
  BY DEF SearchWithin
<1>1. Origin' \in Node
  BY ConstantsOK DEF Origin
<1>2. Frame(Origin').node = Origin'
  BY <1>1, FrameOK DEF Types
<1>3. stack' = <<Frame(Origin')>> /\ Len(stack') = 1
  BY DEF Starts
<1>4. NodesIn(stack', T \cup {Origin'})
  BY <1>2, <1>3 DEF NodesIn
<1>5. Marked' \subseteq Numbers(T)'
  <2>1. CASE Marked' = {}
    BY <2>1
  <2>2. CASE Marked' # {}
    <3>1. search'.kind = "ns0" /\ search.kind = "ns0" /\ Marked' = Marked
      BY <2>2 DEF StartsOK, Search
    <3>2. UNCHANGED space
      BY DEF Starts
    <3>3. Closed(T) /\ Numbers(T)' = Numbers(T)
      BY <3>1, <3>2, SameSpace
    <3>4. Marked \subseteq Numbers(T)
      BY <3>1, <3>3 DEF SearchWithin, SearchIn
    <3> QED
      BY <3>1, <3>3, <3>4
  <2> QED
    BY <2>1, <2>2
<1> QED
  BY <1>4, <1>5 DEF SearchIn

LEMMA EntersWithin ==
  ASSUME Types, ArraysOK, SearchWithin, Enters
  PROVE  SearchWithin'
<1> SUFFICES ASSUME NEW T \in SUBSET Node, Closed(T)' PROVE SearchIn(T)'
  BY DEF SearchWithin
<1>1. UNCHANGED space /\ search' = search
  BY DEF Enters
<1>2. Closed(T) /\ Numbers(T)' = Numbers(T) /\ Origin' = Origin
  BY <1>1, SameSpace
<1>3. /\ search.kind \in Search /\ Current.to \in Node
      /\ Marked' = Marked \cup {identifier[Current.to]}
  BY EntersMarks
<1>4. SearchIn(T)
  BY <1>2, <1>3 DEF SearchWithin, Search
<1>5. Current.to \in T
  BY <1>2, <1>4, EnteredIsIn DEF Enters
<1>6. Marked' \subseteq Numbers(T)
  BY <1>3, <1>4, <1>5 DEF SearchIn, Numbers
<1>7. SpaceOK /\ Fits(stack) /\ Calling /\ NodesIn(stack, T \cup {Origin})
      /\ Len(stack) \in Nat \ {0}
  BY <1>4, CallIs DEF Types, Enters, SearchIn
<1>8. NodesIn(Consumed, T \cup {Origin})
  BY <1>7, ConsumedNodes, NodesInMoves
<1>9. NodesIn(Descended(Current.to), T \cup {Origin})
  <2> DEFINE t == Descended(Current.to)
  <2>1. /\ Len(t) = Len(stack) + 1 /\ t[1].node = Current.to
        /\ \A i \in 1..Len(stack) : t[i + 1].node = stack[i].node
    BY <1>3, <1>7, DescendedNodes
  <2> HIDE DEF t
  <2>2. NodesIn(t, T \cup {Origin})
    BY <1>5, <1>7, <2>1, NodesInGrows
  <2> QED
    BY <2>2 DEF t
<1>10. NodesIn(stack', T \cup {Origin})
  BY <1>8, <1>9 DEF Enters
<1> QED
  BY <1>2, <1>6, <1>10 DEF SearchIn

LEMMA StopsWithin ==
  ASSUME SearchWithin, Stops
  PROVE  SearchWithin'
<1> SUFFICES ASSUME search'.kind # "none", NEW T \in SUBSET Node, Closed(T)' PROVE SearchIn(T)'
  BY DEF SearchWithin
<1>1. UNCHANGED space /\ search' = search /\ Marked' = Marked /\ stack' = <<>>
  BY PassesKeepsArrays DEF Stops
<1>2. Closed(T) /\ Numbers(T)' = Numbers(T) /\ Origin' = Origin
  BY <1>1, SameSpace
<1>3. Len(stack') = 0 /\ 1..0 = {}
  BY <1>1
<1> QED
  BY <1>1, <1>2, <1>3 DEF SearchWithin, SearchIn, NodesIn

LEMMA PassesWithin ==
  ASSUME Types, SearchWithin, Passes
  PROVE  SearchWithin'
<1> SUFFICES ASSUME search'.kind # "none", NEW T \in SUBSET Node, Closed(T)' PROVE SearchIn(T)'
  BY DEF SearchWithin
<1>1. UNCHANGED space /\ search' = search /\ Marked' = Marked
  BY PassesKeepsArrays DEF Passes
<1>2. Closed(T) /\ Numbers(T)' = Numbers(T) /\ Origin' = Origin
  BY <1>1, SameSpace
<1>3. SpaceOK /\ Fits(stack) /\ NodesIn(stack, T \cup {Origin}) /\ Marked \subseteq Numbers(T)
  BY <1>1, <1>2 DEF Types, SearchWithin, SearchIn
<1>4. ASSUME Calling PROVE NodesIn(Consumed, T \cup {Origin}) /\ NodesIn(Unheard, T \cup {Origin})
  BY <1>3, <1>4, ConsumedNodes, UnheardNodes, NodesInMoves
<1>5. ASSUME stack # <<>> PROVE NodesIn(Tail(stack), T \cup {Origin})
  BY <1>3, <1>5, TailIs, NodesInShrinks
<1>6. NodesIn(stack', T \cup {Origin})
  BY <1>4, <1>5 DEF Passes
<1> QED
  BY <1>1, <1>2, <1>3, <1>6 DEF SearchIn

LEMMA StutterWithin ==
  ASSUME SearchWithin, UNCHANGED vars
  PROVE  SearchWithin'
<1> SUFFICES ASSUME search'.kind # "none", NEW T \in SUBSET Node, Closed(T)' PROVE SearchIn(T)'
  BY DEF SearchWithin
<1>1. UNCHANGED space /\ search' = search /\ Marked' = Marked /\ stack' = stack
  BY PassesKeepsArrays DEF vars
<1>2. Closed(T) /\ Numbers(T)' = Numbers(T) /\ Origin' = Origin
  BY <1>1, SameSpace
<1> QED
  BY <1>1, <1>2 DEF SearchWithin, SearchIn

LEMMA NextWithin == Types /\ ArraysOK /\ SearchWithin /\ [Next]_vars => SearchWithin'
<1> SUFFICES ASSUME Types, ArraysOK, SearchWithin, [Next]_vars PROVE SearchWithin'
  OBVIOUS
<1>1. ASSUME (\E n \in Node : LocateParent(n) \/ CheckChildOfNS0(n)) \/ UAServerAddressSpace
      PROVE  SearchWithin'
  BY <1>1, NextStarts, StartsWithin
<1>2. ASSUME FoundParent \/ DescendParent \/ DescendNS0 \/ DescendClient PROVE SearchWithin'
  BY <1>2, FoundParentIs, DescendParentIs, DescendNS0Is, DescendClientIs, EntersWithin
<1>3. ASSUME Overrun \/ BrowseFails PROVE SearchWithin'
  BY <1>3, StopsIs, StopsWithin
<1> QED
  BY <1>1, <1>2, <1>3, PassesWithin, StutterWithin, NextIs

LEMMA AlwaysWithin == Spec => []SearchWithin
<1>1. Init => SearchWithin
  BY DEF Init, SearchWithin
<1> QED
  BY <1>1, NextWithin, AlwaysTypes, AlwaysArrays, PTL DEF Spec

-----------------------------------------------------------------------------
(* What a search answers, and what the client pushes, is in every such set *)

AnswerWithin ==
  /\ search.kind = "parent" /\ answer # NoNode =>
       /\ answer \in Node /\ search.for \in Targets(answer, TRUE)
       /\ \A T \in SUBSET Node : Closed(T) => answer \in T \cup {Origin}
  /\ search.kind = "ns0" /\ answer # NoNode =>
       \A T \in SUBSET Node : Closed(T) => search.for \in T

LEMMA SameAnswer ==
  ASSUME AnswerWithin, UNCHANGED <<space, search, answer>>
  PROVE  AnswerWithin'
<1>1. Origin' = Origin /\ (\A T \in SUBSET Node : Closed(T)' <=> Closed(T))
      /\ (\A l \in Node : Targets(l, TRUE)' = Targets(l, TRUE))
  BY SameSpace
<1>2. answer' = answer /\ (answer \in Node => Targets(answer, TRUE)' = Targets(answer, TRUE))
  BY <1>1
<1> QED
  BY <1>1, <1>2 DEF AnswerWithin

LEMMA FoundParentAnswers ==
  ASSUME Types, SearchWithin, FoundParent
  PROVE  AnswerWithin'
<1>1. /\ Enters /\ search.kind = "parent" /\ search' = search /\ Current.to = search.for
      /\ answer' = Head(stack).node /\ UNCHANGED space
  BY FoundParentIs DEF Enters
<1>2. /\ SpaceOK /\ Fits(stack) /\ Calling /\ ~Skipped(Current)
  BY <1>1 DEF Types, Enters
<1>3. /\ Len(stack) \in Nat \ {0} /\ Head(stack) = stack[1] /\ stack[1].node \in Node
      /\ Current.to \in Targets(stack[1].node, Hier)
  BY <1>2, CallIs, EnterIs DEF FrameType
<1>4. Origin' = Origin /\ Hier = TRUE /\ (\A T \in SUBSET Node : Closed(T)' <=> Closed(T))
      /\ (\A l \in Node : Targets(l, TRUE)' = Targets(l, TRUE))
  BY <1>1, SameSpace DEF Hier
<1>5. answer' \in Node /\ search'.for \in Targets(stack[1].node, TRUE)
  BY <1>1, <1>3, <1>4
<1>6. Targets(answer, TRUE)' = Targets(stack[1].node, TRUE)
  BY <1>1, <1>3, <1>4
<1>7. \A T \in SUBSET Node : Closed(T)' => answer' \in T \cup {Origin'}
  BY <1>1, <1>3, <1>4 DEF SearchWithin, SearchIn, NodesIn
<1> QED
  BY <1>1, <1>5, <1>6, <1>7 DEF AnswerWithin

LEMMA DescendNS0Answers ==
  ASSUME Types, SearchWithin, AnswerWithin, DescendNS0
  PROVE  AnswerWithin'
<1>1. /\ Enters /\ search.kind = "ns0" /\ search' = search /\ UNCHANGED space
      /\ answer' = IF Current.to = search.for THEN ServerNode ELSE answer
  BY DescendNS0Is DEF Enters
<1>2. CASE Current.to = search.for
  <2>1. ASSUME NEW T \in SUBSET Node, Closed(T)' PROVE search'.for \in T
    <3>1. Closed(T)
      BY <1>1, <2>1, SameSpace
    <3>2. SearchIn(T)
      BY <1>1, <3>1 DEF SearchWithin
    <3>3. Current.to \in T
      BY <1>1, <3>1, <3>2, EnteredIsIn DEF Enters
    <3> QED
      BY <1>1, <1>2, <3>3
  <2> QED
    BY <1>1, <2>1 DEF AnswerWithin
<1>3. CASE Current.to # search.for
  BY <1>1, <1>3, SameAnswer
<1> QED
  BY <1>2, <1>3

LEMMA NextAnswers == Types /\ SearchWithin /\ AnswerWithin /\ [Next]_vars => AnswerWithin'
<1> SUFFICES ASSUME Types, SearchWithin, AnswerWithin, [Next]_vars PROVE AnswerWithin'
  OBVIOUS
<1>1. ASSUME NEW n \in Node, LocateParent(n) \/ CheckChildOfNS0(n) PROVE AnswerWithin'
  BY <1>1, LocateParentStarts, CheckChildStarts DEF Starts, AnswerWithin
<1>2. ASSUME UAServerAddressSpace PROVE AnswerWithin'
  BY <1>2, ClientStarts DEF Starts, AnswerWithin
<1>3. ASSUME FoundParent PROVE AnswerWithin'
  BY <1>3, FoundParentAnswers
<1>4. ASSUME DescendNS0 PROVE AnswerWithin'
  BY <1>4, DescendNS0Answers
<1>5. ASSUME DescendParent PROVE AnswerWithin'
  BY <1>5, DescendParentIs, SameAnswer DEF Enters
<1>6. ASSUME DescendClient PROVE AnswerWithin'
  BY <1>6, DescendClientIs, SameAnswer DEF Enters
<1>7. ASSUME Overrun \/ BrowseFails PROVE AnswerWithin'
  BY <1>7, StopsIs, SameAnswer DEF Stops
<1>8. ASSUME Passes PROVE AnswerWithin'
  BY <1>8, SameAnswer DEF Passes
<1>9. ASSUME UNCHANGED vars PROVE AnswerWithin'
  BY <1>9, SameAnswer DEF vars
<1> QED
  BY <1>1, <1>2, <1>3, <1>4, <1>5, <1>6, <1>7, <1>8, <1>9, NextIs

LEMMA AlwaysAnswers == Spec => []AnswerWithin
<1>1. Init => AnswerWithin
  BY DEF Init, AnswerWithin
<1> QED
  BY <1>1, NextAnswers, AlwaysTypes, AlwaysWithin, PTL DEF Spec

\* The znodes that a client pushes are those of nodes that it can reach, and,
\* if identifiers tell nodes apart, each describes its own node.
Pushes(n) == znode[n].about # NoNode

ZnodesWithin ==
  \A n \in Node : Pushes(n) =>
    /\ search.kind = "client" /\ \A T \in SUBSET Node : Closed(T) => n \in T
    /\ DistinctIdentifiers =>
         /\ znode[n].about = n /\ znode[n].parent \in Node
         /\ n \in Targets(znode[n].parent, FALSE)

LEMMA SameZnodes ==
  ASSUME ZnodesWithin, UNCHANGED <<space, znode>>, search'.kind = search.kind
  PROVE  ZnodesWithin'
<1> SUFFICES ASSUME NEW n \in Node, Pushes(n)'
             PROVE  /\ search'.kind = "client" /\ \A T \in SUBSET Node : Closed(T)' => n \in T
                    /\ DistinctIdentifiers' =>
                         /\ znode'[n].about = n /\ znode'[n].parent \in Node
                         /\ n \in Targets(znode[n].parent, FALSE)'
  BY DEF ZnodesWithin
<1>1. (\A T \in SUBSET Node : Closed(T)' <=> Closed(T))
      /\ (\A l \in Node : Targets(l, FALSE)' = Targets(l, FALSE))
      /\ (DistinctIdentifiers' <=> DistinctIdentifiers)
  BY SameSpace DEF DistinctIdentifiers, space
<1>2. Pushes(n)
  BY DEF Pushes
<1>3. znode[n].parent \in Node => Targets(znode[n].parent, FALSE)' = Targets(znode[n].parent, FALSE)
  BY <1>1
<1> QED
  BY <1>1, <1>2, <1>3 DEF ZnodesWithin

Names(n) == {references[stack[1].node][i].to : i \in SameIdentifier(n)}

LEMMA NamesAre ==
  ASSUME Types, Calling, search.kind = "client", NEW n \in Node, NEW m \in Names(n)
  PROVE  m \in Node /\ m \in Targets(stack[1].node, FALSE) /\ identifier[m] = identifier[n]
<1>1. Head(stack) = stack[1] /\ stack[1].node \in Node
  BY CallIs DEF Types, FrameType
<1>2. PICK i \in SameIdentifier(n) : references[stack[1].node][i].to = m
  BY DEF Names
<1>3. /\ i \in 1..Len(references[stack[1].node]) /\ ~references[stack[1].node][i].inverse
      /\ identifier[references[stack[1].node][i].to] = identifier[n]
  BY <1>1, <1>2 DEF SameIdentifier
<1>4. m \in Targets(stack[1].node, FALSE)
  BY <1>2, <1>3, TargetsAre
<1>5. m \in Node
  BY <1>1, <1>4, TargetsInSpace DEF Types
<1> QED
  BY <1>2, <1>3, <1>4, <1>5

\* What a push leaves: a znode that was there, or is made now, or is not.
LEMMA PushIs ==
  ASSUME Types, Calling, NEW n \in Node, Push(n), NEW m \in Node
  PROVE  /\ \/ znode'[m] = znode[m]
            \/ /\ m \in Names(n) /\ ~Pushes(m)
               /\ znode'[m] = [about |-> n, parent |-> stack[1].node]
         /\ Pushes(m) => znode'[m] = znode[m]
         /\ m \in Names(n) =>
              \/ Pushes(m) \/ m \in unpushed'
              \/ znode'[m] = [about |-> n, parent |-> stack[1].node]
         /\ unpushed \subseteq unpushed'
<1>1. Head(stack) = stack[1]
  BY CallIs DEF Types
<1>2. Missing(n) = {x \in Names(n) : ~Pushes(x)}
  BY <1>1 DEF Missing, Names, Pushes
<1>3. PICK failed \in SUBSET Missing(n) :
        /\ unpushed' = unpushed \cup failed
        /\ znode' = [x \in Node |-> IF x \in Missing(n) \ failed
                                      THEN [about |-> n, parent |-> stack[1].node] ELSE znode[x]]
  BY <1>1 DEF Push
<1> QED
  BY <1>2, <1>3

LEMMA DescendClientPushes ==
  ASSUME Types, SearchWithin, ZnodesWithin, DescendClient
  PROVE  ZnodesWithin'
<1> DEFINE c == Current.to
           x == stack[1].node
<1>1. /\ Enters /\ search.kind = "client" /\ search' = search /\ UNCHANGED space
      /\ Calling /\ Push(c)
  BY DescendClientIs DEF Enters
<1>2. /\ SpaceOK /\ c \in Node /\ Len(stack) \in Nat \ {0} /\ x \in Node
  BY <1>1, CallIs, EnterIs DEF Types, Enters, FrameType
<1>3. /\ Hier = FALSE /\ Origin' = Origin
      /\ (\A T \in SUBSET Node : Closed(T)' <=> Closed(T))
      /\ (\A l \in Node : Targets(l, FALSE)' = Targets(l, FALSE))
      /\ (DistinctIdentifiers' <=> DistinctIdentifiers)
  BY <1>1, SameSpace DEF DistinctIdentifiers, space, Hier
<1> HIDE DEF c, x
<1> SUFFICES ASSUME NEW n \in Node, Pushes(n)'
             PROVE  /\ search'.kind = "client" /\ \A T \in SUBSET Node : Closed(T)' => n \in T
                    /\ DistinctIdentifiers' =>
                         /\ znode'[n].about = n /\ znode'[n].parent \in Node
                         /\ n \in Targets(znode[n].parent, FALSE)'
  BY DEF ZnodesWithin
<1>4. \/ znode'[n] = znode[n]
      \/ n \in Names(c) /\ ~Pushes(n) /\ znode'[n] = [about |-> c, parent |-> x]
  BY <1>1, <1>2, PushIs DEF x
<1>5. CASE n \in Names(c) /\ ~Pushes(n) /\ znode'[n] = [about |-> c, parent |-> x]
  <2>1. /\ n \in Targets(x, FALSE) /\ identifier[n] = identifier[c]
        /\ znode'[n].about = c /\ znode'[n].parent = x
    <3>1. n \in Targets(x, FALSE) /\ identifier[n] = identifier[c]
      BY <1>1, <1>2, <1>5, NamesAre DEF x
    <3>2. znode'[n] = [about |-> c, parent |-> x]
      BY <1>4, <1>5
    <3>3. znode'[n].about = c
      BY <3>2
    <3>4. znode'[n].parent = x
      BY <3>2
    <3> QED
      BY <3>1, <3>3, <3>4
  <2>2. ASSUME NEW T \in SUBSET Node, Closed(T)' PROVE n \in T
    <3>1. Closed(T) /\ NodesIn(stack, T \cup {Origin})
      BY <1>1, <1>3, <2>2 DEF SearchWithin, SearchIn
    <3>2. x \in T \cup {Origin}
      BY <1>2, <3>1 DEF NodesIn, x
    <3> QED
      BY <1>3, <2>1, <3>1, <3>2 DEF Closed
  <2>3. ASSUME DistinctIdentifiers' PROVE znode'[n].about = n
    BY <1>2, <1>3, <2>1, <2>3 DEF DistinctIdentifiers
  <2>4. n \in Targets(znode[n].parent, FALSE)'
    BY <1>2, <1>3, <2>1
  <2> QED
    BY <1>1, <1>2, <2>1, <2>2, <2>3, <2>4
<1>6. CASE znode'[n] = znode[n]
  <2>1. znode'[n] = znode[n] /\ Pushes(n)
    BY <1>4, <1>6 DEF Pushes
  <2>2. DistinctIdentifiers => znode[n].parent \in Node /\ n \in Targets(znode[n].parent, FALSE)
    BY <2>1 DEF ZnodesWithin
  <2>3. DistinctIdentifiers => n \in Targets(znode[n].parent, FALSE)'
    BY <1>3, <2>1, <2>2
  <2> QED
    BY <1>1, <1>3, <2>1, <2>2, <2>3 DEF ZnodesWithin
<1> QED
  BY <1>4, <1>5, <1>6

LEMMA NextPushes == Types /\ SearchWithin /\ ZnodesWithin /\ [Next]_vars => ZnodesWithin'
<1> SUFFICES ASSUME Types, SearchWithin, ZnodesWithin, [Next]_vars PROVE ZnodesWithin'
  OBVIOUS
<1>1. ASSUME NEW n \in Node, LocateParent(n) \/ CheckChildOfNS0(n) PROVE ZnodesWithin'
  BY <1>1, LocateParentStarts, CheckChildStarts DEF ZnodesWithin, Pushes
<1>2. ASSUME UAServerAddressSpace PROVE ZnodesWithin'
  <2>1. /\ UNCHANGED <<space, znode>> /\ search'.kind = "client"
        /\ search.kind \in {"none", "client"}
    BY <1>2, ClientStarts DEF Starts
  <2>2. CASE search.kind = "client"
    BY <2>1, <2>2, SameZnodes
  <2>3. CASE search.kind = "none"
    BY <2>1, <2>3 DEF ZnodesWithin, Pushes
  <2> QED
    BY <2>1, <2>2, <2>3
<1>3. ASSUME FoundParent PROVE ZnodesWithin'
  BY <1>3, FoundParentIs, SameZnodes DEF Enters
<1>4. ASSUME DescendNS0 PROVE ZnodesWithin'
  BY <1>4, DescendNS0Is, SameZnodes DEF Enters
<1>5. ASSUME DescendParent PROVE ZnodesWithin'
  BY <1>5, DescendParentIs, SameZnodes DEF Enters
<1>6. ASSUME DescendClient PROVE ZnodesWithin'
  BY <1>6, DescendClientPushes
<1>7. ASSUME Overrun \/ BrowseFails PROVE ZnodesWithin'
  BY <1>7, StopsIs, SameZnodes DEF Stops
<1>8. ASSUME Passes PROVE ZnodesWithin'
  BY <1>8, SameZnodes DEF Passes
<1>9. ASSUME UNCHANGED vars PROVE ZnodesWithin'
  BY <1>9, SameZnodes DEF vars
<1> QED
  BY <1>1, <1>2, <1>3, <1>4, <1>5, <1>6, <1>7, <1>8, <1>9, NextIs

LEMMA AlwaysPushes == Spec => []ZnodesWithin
<1>1. Init => ZnodesWithin
  BY DEF Init, ZnodesWithin, Pushes
<1> QED
  BY <1>1, NextPushes, AlwaysTypes, AlwaysWithin, PTL DEF Spec

-----------------------------------------------------------------------------
(* The slots used *)

Used == MaxSearches - searches

\* Every search but the one under way may have used a slot for each identifier
\* it could reach; that one has used as many as are in the array.
CountOK ==
  search.kind \in {"parent", "ns0"} =>
    \A T \in SUBSET Node : Closed(T) =>
      /\ cntr[search.kind] <= (Used - 1) * Cardinality(Numbers(T)) + Cardinality(Marked)
      /\ dead => Capacity < Used * Cardinality(Numbers(T))

LEMMA OnceMore ==
  ASSUME NEW u \in Int, NEW c \in Int
  PROVE  (u - 1) * c \in Int /\ u * c \in Int /\ (u - 1) * c + c = u * c
  OBVIOUS

LEMMA MarkedCount ==
  ASSUME Types, SearchWithin, search.kind # "none", NEW T \in SUBSET Node, Closed(T)
  PROVE  /\ IsFiniteSet(Numbers(T)) /\ Cardinality(Numbers(T)) \in Nat
         /\ IsFiniteSet(Marked) /\ Cardinality(Marked) \in Nat
         /\ Cardinality(Marked) <= Cardinality(Numbers(T))
<1>1. IsFiniteSet(Numbers(T)) /\ Cardinality(Numbers(T)) \in Nat
  BY NumbersFinite DEF Types
<1>2. Marked \subseteq Numbers(T)
  BY DEF SearchWithin, SearchIn
<1>3. IsFiniteSet(Marked) /\ Cardinality(Marked) <= Cardinality(Numbers(T))
  BY <1>1, <1>2, FS_Subset
<1> QED
  BY <1>1, <1>3, FS_CardinalityType

\* The node entered has an identifier that is not in the array, and that counts.
LEMMA EnteredCounts ==
  ASSUME Types, SearchWithin, Calling, ~Skipped(Current),
         NEW T \in SUBSET Node, Closed(T)
  PROVE  LET new == Marked \cup {identifier[Current.to]}
         IN  /\ Cardinality(new) = Cardinality(Marked) + 1
             /\ Cardinality(new) <= Cardinality(Numbers(T))
<1> DEFINE v == identifier[Current.to]
<1>1. search.kind \in Search
  BY SearchUnderWay DEF Calling
<1>2. IsFiniteSet(Numbers(T)) /\ IsFiniteSet(Marked)
  BY <1>1, MarkedCount DEF Search
<1>3. SearchIn(T)
  BY <1>1 DEF SearchWithin, Search
<1>4. Current.to \in T
  BY <1>3, EnteredIsIn
<1>5. v \notin Marked
  BY EnterIs, SeenIs DEF Types
<1>6. Marked \cup {v} \subseteq Numbers(T)
  BY <1>3, <1>4 DEF SearchIn, Numbers
<1> HIDE DEF v
<1>7. Cardinality(Marked \cup {v}) = Cardinality(Marked) + 1
  BY <1>2, <1>5, FS_AddElement
<1>8. Cardinality(Marked \cup {v}) <= Cardinality(Numbers(T))
  BY <1>2, <1>6, FS_Subset
<1> QED
  BY <1>7, <1>8 DEF v

LEMMA StartsCount ==
  ASSUME Types, SearchWithin, CountOK, Starts, StartsOK, ~dead',
         search'.kind \in Search, search.kind = "none" \/ search.kind = search'.kind,
         SearchWithin'
  PROVE  CountOK'
<1> SUFFICES ASSUME search'.kind \in {"parent", "ns0"}, NEW T \in SUBSET Node, Closed(T)'
             PROVE  cntr'[search'.kind] <= (Used' - 1) * Cardinality(Numbers(T))'
                                             + Cardinality(Marked)'
  BY DEF CountOK
<1> DEFINE c == Cardinality(Numbers(T))
<1>1. cntr' = cntr /\ Used' = Used + 1 /\ Used \in Int /\ UNCHANGED space
  BY ConstantsOK DEF StartsOK, Starts, Used, Types
<1>2. Numbers(T)' = Numbers(T)
  BY <1>1 DEF Numbers, space
<1>3. Cardinality(Marked)' \in Nat
  <2>1. Marked' \subseteq Numbers(T)
    BY <1>2 DEF SearchWithin, SearchIn
  <2>2. IsFiniteSet(Numbers(T))
    BY NumbersFinite DEF Types
  <2>3. IsFiniteSet(Marked')
    BY <2>1, <2>2, FS_Subset
  <2>4. Cardinality(Marked') \in Nat
    BY <2>3, FS_CardinalityType
  <2> QED
    BY <2>4
<1>4. c \in Nat
  BY NumbersFinite DEF Types
<1>5. CASE search.kind = "none"
  <2>1. cntr[search'.kind] = 0 /\ Used = 0
    BY <1>5, ConstantsOK DEF Types, Fresh, Used
  <2> HIDE DEF c
  <2>2. (Used' - 1) * c = 0
    BY <1>1, <1>4, <2>1
  <2> QED
    BY <1>1, <1>2, <1>3, <2>1, <2>2 DEF c
<1>6. CASE search.kind = search'.kind
  <2>1. Closed(T)
    BY <1>1, <1>6, SameSpace
  <2>2. /\ cntr[search.kind] <= (Used - 1) * c + Cardinality(Marked)
        /\ Cardinality(Marked) \in Nat /\ Cardinality(Marked) <= c
    BY <1>6, <2>1, MarkedCount DEF CountOK
  <2>3. cntr[search.kind] \in Nat
    BY <1>6, ConstantsOK DEF Types
  <2>4. (Used - 1) * c \in Int /\ Used * c \in Int /\ (Used - 1) * c + c = Used * c
    BY <1>1, <1>4, OnceMore
  <2>5. Used' - 1 = Used
    BY <1>1
  <2>6. cntr'[search'.kind] = cntr[search.kind]
    BY <1>1, <1>6
  <2>7. (Used' - 1) * Cardinality(Numbers(T))' = Used * c
    BY <1>2, <2>5
  <2> HIDE DEF c
  <2> QED
    BY <1>3, <1>4, <2>2, <2>3, <2>4, <2>6, <2>7
<1> QED
  BY <1>5, <1>6

LEMMA EntersCount ==
  ASSUME Types, ArraysOK, StackOK, SearchWithin, CountOK, Enters
  PROVE  CountOK'
<1>1. UNCHANGED space /\ search' = search /\ Used' = Used /\ dead' = dead /\ ~dead
  BY DEF Enters, Used, StackOK, Calling
<1> SUFFICES ASSUME search.kind \in {"parent", "ns0"}, NEW T \in SUBSET Node, Closed(T)'
             PROVE  cntr'[search.kind] <= (Used - 1) * Cardinality(Numbers(T))'
                                             + Cardinality(Marked)'
  BY <1>1 DEF CountOK
<1>2. Closed(T) /\ Numbers(T)' = Numbers(T)
  BY <1>1, SameSpace
<1>3. cntr'[search.kind] = cntr[search.kind] + 1
  BY EntersMarks, SlotsPositive DEF Types, Enters
<1>4. Marked' = Marked \cup {identifier[Current.to]}
  BY EntersMarks
<1>5. Cardinality(Marked') = Cardinality(Marked) + 1
  BY <1>2, <1>4, EnteredCounts DEF Enters
<1>6. cntr[search.kind] <= (Used - 1) * Cardinality(Numbers(T)) + Cardinality(Marked)
  BY <1>2 DEF CountOK
<1>7. Cardinality(Numbers(T)) \in Nat /\ Cardinality(Marked) \in Nat
  BY <1>2, MarkedCount
<1>8. cntr[search.kind] \in Nat /\ Used \in Int
  BY ConstantsOK DEF Types, Search, Used
<1>9. (Used - 1) * Cardinality(Numbers(T)) \in Int
  BY <1>7, <1>8, OnceMore
<1> QED
  BY <1>2, <1>3, <1>5, <1>6, <1>7, <1>8, <1>9

LEMMA OverrunCounts ==
  ASSUME Types, ArraysOK, SearchWithin, CountOK, Stops,
         search.kind = "client" \/ cntr[search.kind] + Slots(Current.to) > Capacity
  PROVE  CountOK'
<1>1. UNCHANGED space /\ search' = search /\ Used' = Used /\ cntr' = cntr /\ Marked' = Marked
      /\ Calling /\ ~Skipped(Current)
  BY PassesKeepsArrays DEF Stops, Used
<1> SUFFICES ASSUME search.kind \in {"parent", "ns0"}, NEW T \in SUBSET Node, Closed(T)'
             PROVE  /\ cntr[search.kind] <= (Used - 1) * Cardinality(Numbers(T))'
                                             + Cardinality(Marked)
                    /\ Capacity < Used * Cardinality(Numbers(T))'
  BY <1>1 DEF CountOK
<1>2. Closed(T) /\ Numbers(T)' = Numbers(T)
  BY <1>1, SameSpace
<1>3. cntr[search.kind] + 1 > Capacity
  BY <1>1, SlotsPositive DEF Types
<1>4. Cardinality(Marked) + 1 <= Cardinality(Numbers(T))
  BY <1>1, <1>2, EnteredCounts
<1>6. cntr[search.kind] <= (Used - 1) * Cardinality(Numbers(T)) + Cardinality(Marked)
  BY <1>2 DEF CountOK
<1>7. Cardinality(Numbers(T)) \in Nat /\ Cardinality(Marked) \in Nat
  BY <1>2, MarkedCount
<1>8. cntr[search.kind] \in Nat /\ Used \in Int /\ Capacity \in Nat
  BY ConstantsOK DEF Types, Search, Used
<1> DEFINE c == Cardinality(Numbers(T))
<1>9. (Used - 1) * c \in Int /\ Used * c \in Int /\ (Used - 1) * c + c = Used * c
  BY <1>7, <1>8, OnceMore
<1>10. Capacity < Used * c
  <2> HIDE DEF c
  <2> QED
    BY <1>3, <1>4, <1>6, <1>7, <1>8, <1>9 DEF c
<1> QED
  BY <1>2, <1>6, <1>10

LEMMA SameCount ==
  ASSUME CountOK, UNCHANGED <<space, search, visited, cntr, dead, searches>>
  PROVE  CountOK'
<1>1. Used' = Used /\ Marked' = Marked
  BY DEF Used, Marked
<1>2. \A T \in SUBSET Node : (Closed(T)' <=> Closed(T)) /\ Numbers(T)' = Numbers(T)
  BY SameSpace
<1> QED
  BY <1>1, <1>2 DEF CountOK

LEMMA NextCount ==
  Types /\ ArraysOK /\ StackOK /\ SearchWithin /\ SearchWithin' /\ CountOK /\ [Next]_vars
    => CountOK'
<1> SUFFICES ASSUME Types, ArraysOK, StackOK, SearchWithin, SearchWithin', CountOK,
                    [Next]_vars
             PROVE  CountOK'
  OBVIOUS
<1>1. ASSUME (\E n \in Node : LocateParent(n) \/ CheckChildOfNS0(n)) \/ UAServerAddressSpace
      PROVE  CountOK'
  BY <1>1, NextStarts, StartsCount
<1>2. ASSUME FoundParent \/ DescendParent \/ DescendNS0 \/ DescendClient PROVE CountOK'
  BY <1>2, FoundParentIs, DescendParentIs, DescendNS0Is, DescendClientIs, EntersCount
<1>3. ASSUME Overrun \/ BrowseFails PROVE CountOK'
  BY <1>3, StopsIs, OverrunCounts
<1>4. ASSUME Passes PROVE CountOK'
  BY <1>4, SameCount DEF Passes
<1>5. ASSUME UNCHANGED vars PROVE CountOK'
  BY <1>5, SameCount DEF vars
<1> QED
  BY <1>1, <1>2, <1>3, <1>4, <1>5, NextIs

LEMMA AlwaysCount == Spec => []CountOK
<1>1. Init => CountOK
  BY DEF Init, CountOK
<1> QED
  BY <1>1, NextCount, AlwaysTypes, AlwaysArrays, AlwaysStack, AlwaysWithin, PTL DEF Spec

LEMMA ReachedIsClosed ==
  ASSUME SpaceOK
  PROVE  /\ Reached(Origin, Hier, {}) \in SUBSET Node /\ Closed(Reached(Origin, Hier, {}))
<1> DEFINE R == Reached(Origin, Hier, {})
<1>1. Origin \in Node /\ Hier \in BOOLEAN
  BY ConstantsOK DEF Origin, Hier
<1>2. R \subseteq Node /\ Beyond(R, Origin, Hier, {}) \subseteq R
  BY <1>1, ReachedClosed
<1> HIDE DEF R
<1>3. Closed(R)
  BY <1>2 DEF Closed, Beyond
<1> QED
  BY <1>2, <1>3 DEF R

\* A server writes past one of its arrays only after so many searches that one
\* slot for each identifier within reach of them fills it.
THEOREM ArraysSuffice == Spec => []ArraysLast
<1>1. Types /\ CountOK => ArraysLast
  <2> SUFFICES ASSUME Types, CountOK PROVE ArraysLast
    OBVIOUS
  <2> DEFINE R == Reached(Origin, Hier, {})
  <2>1. R \in SUBSET Node /\ Closed(R)
    BY ReachedIsClosed DEF Types
  <2>2. R = IF search.kind = "parent" THEN Reached(Root, TRUE, {})
                                      ELSE IF search.kind = "ns0" THEN Reached(ServerNode, FALSE, {})
                                      ELSE Reached(Root, FALSE, {})
    BY DEF Origin, Hier
  <2> HIDE DEF R
  <2> SUFFICES ASSUME dead, search.kind # "client"
               PROVE  Used * Cardinality(Numbers(R)) > Capacity
    BY <2>2 DEF ArraysLast, Used, Numbers, Types, SearchType, Search, Fresh
  <2>3. search.kind \in {"parent", "ns0"}
    BY DEF Types, SearchType, Search, Fresh
  <2>4. Capacity < Used * Cardinality(Numbers(R))
    BY <2>1, <2>3 DEF CountOK
  <2>5. Cardinality(Numbers(R)) \in Int /\ Used \in Int /\ Capacity \in Int
    BY <2>1, NumbersFinite, ConstantsOK DEF Types, Used
  <2>6. Used * Cardinality(Numbers(R)) \in Int
    BY <2>5, OnceMore
  <2> QED
    BY <2>4, <2>5, <2>6
<1> QED
  BY <1>1, AlwaysTypes, AlwaysCount, PTL

-----------------------------------------------------------------------------
(* A search leaves nothing out *)

\* What the search asks of a reference that has had its callback.
Settled(M, n, j) ==
  \/ references[n][j].inverse
  \/ Hier /\ ~references[n][j].hierarchical
  \/ identifier[references[n][j].to] \in M

Called(f, j) ==
  IF search.kind = "client" THEN j <= Len(references[f.node]) - f.left ELSE j > f.left

FramesSettled(M, s) ==
  \A i \in 1..Len(s) : \A j \in 1..Len(references[s[i].node]) :
    Called(s[i], j) => Settled(M, s[i].node, j)

Met(M, n) == identifier[n] \in M /\ identifier[n] \notin search.known

OnStack(s, n) == \E i \in 1..Len(s) : s[i].node = n

NodesSettled(M, s) ==
  \A n \in Node : (n = Origin \/ Met(M, n)) /\ ~OnStack(s, n) =>
    \A j \in 1..Len(references[n]) : Settled(M, n, j)

\* A search that has not failed, and whose answer matters still.
Promising ==
  /\ search.kind # "none" /\ DistinctIdentifiers /\ ~dead
  /\ search.kind = "client" => ~unlisted
  /\ search.kind = "parent" => answer = NoNode

\* A node that has its znode, or whose push failed.
Handled(n) == Pushes(n) \/ n \in unpushed

Told ==
  /\ search.kind \in {"parent", "ns0"} /\ Met(Marked, search.for) => answer # NoNode
  /\ search.kind = "client" => \A n \in Node : Met(Marked, n) => Handled(n)

Complete == Promising => FramesSettled(Marked, stack) /\ NodesSettled(Marked, stack) /\ Told

LEMMA SettledGrows ==
  ASSUME NEW M, NEW N, M \subseteq N, NEW n, NEW j, Settled(M, n, j)
  PROVE  Settled(N, n, j)
  BY DEF Settled

LEMMA SameSettled ==
  ASSUME UNCHANGED <<space, search>>
  PROVE  /\ FramesSettled(Marked, stack)' <=> FramesSettled(Marked', stack')
         /\ NodesSettled(Marked, stack)' <=> NodesSettled(Marked', stack')
         /\ \A n : Met(Marked, n)' <=> Met(Marked', n)
         /\ Met(Marked, search.for)' <=> Met(Marked', search.for)
<1>1. references' = references /\ identifier' = identifier /\ search' = search
  BY DEF space
<1>2. Origin' = Origin /\ Hier' = Hier
  BY <1>1 DEF Origin, Hier
<1>3. FramesSettled(Marked, stack)' <=> FramesSettled(Marked', stack')
  BY <1>1, <1>2 DEF FramesSettled, Called, Settled
<1>4. \A n : Met(Marked, n)' <=> Met(Marked', n)
  BY <1>1 DEF Met
<1>5. Met(Marked, search.for)' <=> Met(Marked', search.for)
  BY <1>1 DEF Met
<1>6. NodesSettled(Marked, stack)' <=> NodesSettled(Marked', stack')
  BY <1>1, <1>2 DEF NodesSettled, Settled, Met, OnStack
<1> QED
  BY <1>3, <1>4, <1>5, <1>6

\* One callback more, for the reference that the browse has come to.
LEMMA ConsumedCalled ==
  ASSUME SpaceOK, Fits(stack), Calling,
         NEW j \in 1..Len(references[stack[1].node]), Called(Consumed[1], j)
  PROVE  Called(stack[1], j) \/ j = Place(stack[1])
<1>1. /\ Consumed[1] = [node |-> stack[1].node, left |-> stack[1].left - 1]
      /\ stack[1].left \in 1..Len(references[stack[1].node])
      /\ Len(references[stack[1].node]) \in Nat
  BY CallIs, ConsumedIs DEF SpaceOK, FrameType
<1>2. Consumed[1].node = stack[1].node /\ Consumed[1].left = stack[1].left - 1
  BY <1>1
<1> QED
  BY <1>1, <1>2 DEF Called, Place

LEMMA ConsumedSettled ==
  ASSUME SpaceOK, Fits(stack), Calling, NEW M, NEW N, M \subseteq N,
         FramesSettled(M, stack), Settled(N, stack[1].node, Place(stack[1]))
  PROVE  FramesSettled(N, Consumed)
<1> SUFFICES ASSUME NEW i \in 1..Len(Consumed), NEW j \in 1..Len(references[Consumed[i].node]),
                    Called(Consumed[i], j)
             PROVE  Settled(N, Consumed[i].node, j)
  BY DEF FramesSettled
<1>1. /\ Len(Consumed) = Len(stack) /\ Len(stack) \in Nat \ {0}
      /\ Consumed[i].node = stack[i].node
      /\ i # 1 => Consumed[i] = stack[i]
  <2>1. Len(Consumed) = Len(stack) /\ Len(stack) \in Nat \ {0}
    BY ConsumedIs, CallIs
  <2>2. i # 1 => Consumed[i] = stack[i]
    BY <2>1, ConsumedIs
  <2>3. Consumed[i].node = stack[i].node
    BY <2>1, ConsumedNodes
  <2> QED
    BY <2>1, <2>2, <2>3
<1>2. CASE Called(stack[i], j)
  BY <1>1, <1>2, SettledGrows DEF FramesSettled
<1>3. CASE ~Called(stack[i], j)
  <2>1. i = 1
    BY <1>1, <1>3
  <2>2. j = Place(stack[1])
    BY <1>1, <1>3, <2>1, ConsumedCalled
  <2> QED
    BY <1>1, <2>1, <2>2
<1> QED
  BY <1>2, <1>3

LEMMA FrameNotCalled ==
  ASSUME SpaceOK, NEW n \in Node, NEW j \in 1..Len(references[n])
  PROVE  ~Called(Frame(n), j)
<1>1. Frame(n).node = n /\ Frame(n).left = Len(references[n]) /\ Len(references[n]) \in Nat
  BY FrameOK
<1> QED
  BY <1>1 DEF Called

LEMMA DescendedSettled ==
  ASSUME SpaceOK, Fits(stack), Calling, NEW n \in Node, NEW N, FramesSettled(N, Consumed)
  PROVE  FramesSettled(N, Descended(n))
<1> SUFFICES ASSUME NEW i \in 1..Len(Descended(n)),
                    NEW j \in 1..Len(references[Descended(n)[i].node]), Called(Descended(n)[i], j)
             PROVE  Settled(N, Descended(n)[i].node, j)
  BY DEF FramesSettled
<1>1. /\ Len(Descended(n)) = Len(stack) + 1 /\ Len(stack) \in Nat \ {0}
      /\ Descended(n)[1] = Frame(n) /\ Len(Consumed) = Len(stack)
  BY DescendedIs, CallIs, ConsumedIs
<1>2. i # 1
  <2> SUFFICES ASSUME i = 1 PROVE FALSE
    OBVIOUS
  <2>1. Descended(n)[i] = Frame(n) /\ Frame(n).node = n
    BY <1>1, FrameOK
  <2>2. j \in 1..Len(references[n]) /\ Called(Frame(n), j)
    BY <2>1
  <2> QED
    BY <2>2, FrameNotCalled
<1>3. i - 1 \in 1..Len(stack) /\ (i - 1) + 1 = i
  BY <1>1, <1>2
<1>4. Descended(n)[i] = Consumed[i - 1]
  BY <1>3, DescendedIs
<1> QED
  BY <1>1, <1>3, <1>4 DEF FramesSettled

\* The innermost node has no reference left: all of them are settled.
LEMMA ReturnSettled ==
  ASSUME SpaceOK, Fits(stack), stack # <<>>, Head(stack).left = 0, NEW M,
         FramesSettled(M, stack), NodesSettled(M, stack)
  PROVE  FramesSettled(M, Tail(stack)) /\ NodesSettled(M, Tail(stack))
<1>1. /\ Len(Tail(stack)) = Len(stack) - 1 /\ Len(stack) \in Nat \ {0}
      /\ \A i \in 1..Len(stack) - 1 : Tail(stack)[i] = stack[i + 1]
  BY TailIs
<1>2. \A i \in 1..Len(Tail(stack)) : i + 1 \in 1..Len(stack) /\ Tail(stack)[i] = stack[i + 1]
  BY <1>1
<1>3. stack[1].left = 0 /\ stack[1] \in FrameType
  BY <1>1 DEF Fits
<1>4. \A j \in 1..Len(references[stack[1].node]) : Called(stack[1], j)
  <2>1. Len(references[stack[1].node]) \in Nat
    BY <1>3 DEF FrameType, SpaceOK
  <2> QED
    BY <1>3, <2>1 DEF Called
<1>5. FramesSettled(M, Tail(stack))
  BY <1>2 DEF FramesSettled
<1>6. ASSUME NEW n \in Node, n = Origin \/ Met(M, n), ~OnStack(Tail(stack), n)
      PROVE  \A j \in 1..Len(references[n]) : Settled(M, n, j)
  <2>1. CASE stack[1].node = n
    BY <1>1, <1>4, <2>1 DEF FramesSettled
  <2>2. CASE stack[1].node # n
    <3>1. ASSUME NEW i \in 1..Len(stack) PROVE stack[i].node # n
      <4>1. CASE i = 1
        BY <2>2, <4>1
      <4>2. CASE i # 1
        <5>1. i - 1 \in 1..Len(Tail(stack)) /\ (i - 1) + 1 = i
          BY <1>1, <4>2
        <5> QED
          BY <1>2, <1>6, <5>1 DEF OnStack
      <4> QED
        BY <4>1, <4>2
    <3> QED
      BY <1>6, <3>1 DEF NodesSettled, OnStack
  <2> QED
    BY <2>1, <2>2
<1> QED
  BY <1>5, <1>6 DEF NodesSettled

LEMMA ConsumedOnStack ==
  ASSUME SpaceOK, Fits(stack), Calling, NEW n
  PROVE  OnStack(Consumed, n) <=> OnStack(stack, n)
  BY ConsumedNodes DEF OnStack

LEMMA DescendedOnStack ==
  ASSUME SpaceOK, Fits(stack), Calling, NEW c \in Node, NEW n
  PROVE  OnStack(Descended(c), n) <=> n = c \/ OnStack(stack, n)
<1>1. /\ Len(Descended(c)) = Len(stack) + 1 /\ Len(stack) \in Nat \ {0}
      /\ Descended(c)[1].node = c
      /\ \A i \in 1..Len(stack) : Descended(c)[i + 1].node = stack[i].node
  BY DescendedNodes, CallIs
<1>2. ASSUME NEW i \in 1..Len(Descended(c)), i # 1
      PROVE  i - 1 \in 1..Len(stack) /\ Descended(c)[i].node = stack[i - 1].node
  <2>1. i - 1 \in 1..Len(stack) /\ (i - 1) + 1 = i
    BY <1>1, <1>2
  <2> QED
    BY <1>1, <2>1
<1>3. OnStack(Descended(c), c)
  BY <1>1 DEF OnStack
<1>4. ASSUME OnStack(stack, n) PROVE OnStack(Descended(c), n)
  <2>1. PICK i \in 1..Len(stack) : stack[i].node = n
    BY <1>4 DEF OnStack
  <2>2. i + 1 \in 1..Len(Descended(c))
    BY <1>1
  <2> QED
    BY <1>1, <2>1, <2>2 DEF OnStack
<1>5. ASSUME OnStack(Descended(c), n), n # c PROVE OnStack(stack, n)
  BY <1>1, <1>2, <1>5 DEF OnStack
<1> QED
  BY <1>3, <1>4, <1>5

LEMMA StartsComplete ==
  ASSUME Types, Starts, StartsOK
  PROVE  Complete'
<1>1. Origin' \in Node
  BY ConstantsOK DEF Origin
<1>2. /\ Frame(Origin') \in FrameType /\ Frame(Origin').node = Origin'
      /\ Frame(Origin').left = Len(references[Origin']) /\ Len(references[Origin']) \in Nat
  BY <1>1, FrameOK DEF Types
<1>3. stack' = <<Frame(Origin')>> /\ references' = references
  BY DEF Starts, space
<1>4. Len(stack') = 1 /\ stack'[1] = Frame(Origin')
  BY <1>3
<1>5. FramesSettled(Marked, stack)'
  <2> SUFFICES ASSUME NEW j \in 1..Len(references'[Origin']) PROVE ~Called(stack[1], j)'
    BY <1>2, <1>4 DEF FramesSettled
  <2> QED
    BY <1>2, <1>3, <1>4 DEF Called
<1>6. \A n : ~Met(Marked, n)'
  BY DEF StartsOK, Met
<1>7. ~Met(Marked, search.for)'
  BY DEF StartsOK, Met
<1>8. OnStack(stack, Origin)'
  BY <1>2, <1>4 DEF OnStack
<1>9. NodesSettled(Marked, stack)'
  BY <1>6, <1>8 DEF NodesSettled
<1>10. Told'
  BY <1>6, <1>7 DEF Told
<1> QED
  BY <1>5, <1>9, <1>10 DEF Complete

LEMMA FoundParentComplete ==
  ASSUME Types, FoundParent
  PROVE  Complete'
<1>1. /\ search'.kind = "parent" /\ answer' = Head(stack).node /\ Head(stack).node \in Node
  BY FoundParentIs, CallIs DEF Enters, Types, FrameType
<1>2. answer' # NoNode
  BY <1>1, ConstantsOK
<1> QED
  BY <1>1, <1>2 DEF Complete, Promising

\* A node is entered and browsed.
LEMMA DescendComplete ==
  ASSUME Types, ArraysOK, Complete, Enters, stack' = Descended(Current.to), Promising,
         Current.to = search.for /\ search.kind = "ns0" => answer' # NoNode,
         answer # NoNode => answer' # NoNode,
         search.kind = "parent" => Current.to # search.for,
         search.kind = "client" => \A n \in Node : n = Current.to => Handled(n)',
         \A n \in Node : Handled(n) => Handled(n)'
  PROVE  Complete'
<1> DEFINE c == Current.to
           N == Marked \cup {identifier[c]}
<1>1. c \in Node /\ Marked' = N /\ SpaceOK /\ Fits(stack) /\ Calling
  BY EntersMarks DEF Types, Enters
<1>2. FramesSettled(Marked, stack) /\ NodesSettled(Marked, stack) /\ Told /\ DistinctIdentifiers
  BY DEF Complete, Promising
<1>3. UNCHANGED <<space, search>>
  BY DEF Enters
<1>4. Settled(N, stack[1].node, Place(stack[1]))
  <2>1. Current = references[stack[1].node][Place(stack[1])]
    BY <1>1, CallIs
  <2> QED
    BY <2>1 DEF Settled
<1> HIDE DEF c, N
<1>5. Marked \subseteq N
  BY DEF N
<1>6. FramesSettled(N, Descended(c))
  <2>1. FramesSettled(N, Consumed)
    BY <1>1, <1>2, <1>4, <1>5, ConsumedSettled
  <2> QED
    BY <1>1, <2>1, DescendedSettled
<1>7. ASSUME NEW n \in Node, n # c, Met(N, n) PROVE Met(Marked, n)
  BY <1>1, <1>2, <1>7 DEF Met, N, DistinctIdentifiers
<1>8. NodesSettled(N, Descended(c))
  <2> SUFFICES ASSUME NEW n \in Node, n = Origin \/ Met(N, n), ~OnStack(Descended(c), n),
                      NEW j \in 1..Len(references[n])
               PROVE  Settled(N, n, j)
    BY DEF NodesSettled
  <2>1. n # c /\ ~OnStack(stack, n)
    BY <1>1, DescendedOnStack
  <2>2. n = Origin \/ Met(Marked, n)
    BY <1>7, <2>1
  <2>3. Settled(Marked, n, j)
    BY <1>2, <2>1, <2>2 DEF NodesSettled
  <2> QED
    BY <1>5, <2>3, SettledGrows
<1>9. ASSUME search.kind \in {"parent", "ns0"}, Met(N, search.for) PROVE answer' # NoNode
  <2>1. CASE c = search.for
    BY <1>9, <2>1 DEF c
  <2>2. CASE c # search.for
    <3>1. search.for \in Node
      BY <1>9 DEF Types
    <3>2. Met(Marked, search.for)
      BY <1>7, <1>9, <2>2, <3>1
    <3> QED
      BY <1>2, <1>9, <3>2 DEF Told
  <2> QED
    BY <2>1, <2>2
<1>10. ASSUME search.kind = "client", NEW n \in Node, Met(N, n) PROVE Handled(n)'
  <2>1. CASE n = c
    BY <1>10, <2>1 DEF c
  <2>2. CASE n # c
    <3>1. Handled(n)
      BY <1>2, <1>7, <1>10, <2>2 DEF Told
    <3> QED
      BY <3>1
  <2> QED
    BY <2>1, <2>2
<1>11. /\ FramesSettled(Marked, stack)' <=> FramesSettled(N, Descended(c))
       /\ NodesSettled(Marked, stack)' <=> NodesSettled(N, Descended(c))
       /\ \A n : Met(Marked, n)' <=> Met(N, n)
       /\ Met(Marked, search.for)' <=> Met(N, search.for)
  BY <1>1, <1>3, SameSettled DEF c
<1>12. search' = search
  BY <1>3
<1>13. Told'
  BY <1>9, <1>10, <1>11, <1>12 DEF Told
<1> QED
  BY <1>6, <1>8, <1>11, <1>13 DEF Complete

LEMMA StillPromising ==
  ASSUME UNCHANGED <<space, search>>, dead = dead', unlisted = unlisted' \/ unlisted' = TRUE,
         unlisted \in BOOLEAN, search.kind = "parent" => answer' = answer, Promising'
  PROVE  Promising
<1>1. DistinctIdentifiers' <=> DistinctIdentifiers
  BY DEF DistinctIdentifiers, space
<1> QED
  BY <1>1 DEF Promising

LEMMA DescendParentComplete ==
  ASSUME Types, ArraysOK, Complete, DescendParent
  PROVE  Complete'
<1>1. /\ Enters /\ search.kind = "parent" /\ Current.to # search.for
      /\ stack' = Descended(Current.to) /\ UNCHANGED <<answer, znode, unpushed>>
  BY DescendParentIs
<1>2. Promising' => Promising
  BY <1>1, StillPromising DEF Enters, Types
<1>3. \A n \in Node : Handled(n) => Handled(n)'
  BY <1>1 DEF Handled, Pushes
<1>4. Promising => Complete'
  BY <1>1, <1>3, DescendComplete
<1> QED
  BY <1>2, <1>4 DEF Complete

LEMMA DescendNS0Complete ==
  ASSUME Types, ArraysOK, Complete, DescendNS0
  PROVE  Complete'
<1>1. /\ Enters /\ search.kind = "ns0"
      /\ stack' = Descended(Current.to) /\ UNCHANGED <<znode, unpushed>>
      /\ answer' = IF Current.to = search.for THEN ServerNode ELSE answer
  BY DescendNS0Is
<1>2. Promising' => Promising
  BY <1>1, StillPromising DEF Enters, Types
<1>3. \A n \in Node : Handled(n) => Handled(n)'
  BY <1>1 DEF Handled, Pushes
<1>4. ServerNode # NoNode
  BY ConstantsOK
<1>5. Promising => Complete'
  BY <1>1, <1>3, <1>4, DescendComplete
<1> QED
  BY <1>2, <1>5 DEF Complete

LEMMA DescendClientComplete ==
  ASSUME Types, ArraysOK, Complete, DescendClient
  PROVE  Complete'
<1> DEFINE c == Current.to
<1>1. /\ Enters /\ search.kind = "client" /\ Calling
      /\ stack' = Descended(Current.to) /\ UNCHANGED answer
      /\ Push(Current.to)
  BY DescendClientIs DEF Enters
<1>2. Promising' => Promising
  BY <1>1, StillPromising DEF Enters, Types
<1>3. c \in Node /\ c \in Names(c) /\ c # NoNode
  <2>1. /\ c \in Node /\ Place(stack[1]) \in SameIdentifier(c)
        /\ Current = references[stack[1].node][Place(stack[1])]
    BY <1>1, EnterIs, CallIs DEF Types, Enters
  <2> QED
    BY <2>1, ConstantsOK DEF Names
<1> HIDE DEF c
<1>4. ASSUME NEW n \in Node, Handled(n) PROVE Handled(n)'
  BY <1>1, <1>3, <1>4, PushIs DEF c, Handled, Pushes
<1>5. ASSUME NEW n \in Node, n = c PROVE Handled(n)'
  <2>1. \/ Pushes(n) /\ znode'[n] = znode[n]
        \/ n \in unpushed'
        \/ znode'[n] = [about |-> n, parent |-> stack[1].node]
    BY <1>1, <1>3, <1>5, PushIs DEF c
  <2>2. ASSUME znode'[n] = [about |-> n, parent |-> stack[1].node] PROVE znode'[n].about = n
    BY <2>2
  <2> QED
    BY <1>3, <1>5, <2>1, <2>2 DEF Handled, Pushes
<1>6. Promising => Complete'
  BY <1>1, <1>4, <1>5, DescendComplete DEF c
<1> QED
  BY <1>2, <1>6 DEF Complete

LEMMA PassesComplete ==
  ASSUME Types, Complete, Passes
  PROVE  Complete'
<1> SUFFICES ASSUME Promising' PROVE Complete'
  BY DEF Complete
<1>1. /\ UNCHANGED <<space, search, visited, answer, znode, dead, unpushed>> /\ SpaceOK /\ Fits(stack)
      /\ unlisted \in BOOLEAN
  BY DEF Passes, Types
<1>2. Promising
  BY <1>1, StillPromising DEF Passes
<1>3. FramesSettled(Marked, stack) /\ NodesSettled(Marked, stack) /\ Told
  BY <1>2 DEF Complete
<1>4. search.kind = "client" => unlisted' = FALSE
  BY <1>1 DEF Promising, Passes
<1>5. ASSUME Calling, Skipped(Current)
      PROVE  FramesSettled(Marked, Consumed) /\ NodesSettled(Marked, Consumed)
  <2>1. /\ Current = references[stack[1].node][Place(stack[1])] /\ Current.to \in Node
    BY <1>1, <1>5, CallIs DEF ReferenceNode
  <2>2. Settled(Marked, stack[1].node, Place(stack[1]))
    BY <1>1, <1>5, <2>1, SeenIs DEF Skipped, Settled, Hier
  <2>3. FramesSettled(Marked, Consumed)
    BY <1>1, <1>3, <1>5, <2>2, ConsumedSettled
  <2>4. NodesSettled(Marked, Consumed)
    BY <1>1, <1>3, <1>5, ConsumedOnStack DEF NodesSettled
  <2> QED
    BY <2>3, <2>4
<1>6. ASSUME stack # <<>>, Head(stack).left = 0
      PROVE  FramesSettled(Marked, Tail(stack)) /\ NodesSettled(Marked, Tail(stack))
  BY <1>1, <1>3, <1>6, ReturnSettled
<1>7. FramesSettled(Marked, stack') /\ NodesSettled(Marked, stack')
  BY <1>4, <1>5, <1>6 DEF Passes
<1>8. Marked' = Marked
  BY <1>1 DEF Marked
<1>9. FramesSettled(Marked, stack)' /\ NodesSettled(Marked, stack)'
  BY <1>1, <1>7, <1>8, SameSettled
<1>10. Told'
  BY <1>1, <1>3, <1>8, SameSettled DEF Told, Handled, Pushes
<1> QED
  BY <1>9, <1>10 DEF Complete

LEMMA StutterComplete ==
  ASSUME Types, Complete, UNCHANGED vars
  PROVE  Complete'
<1> SUFFICES ASSUME Promising' PROVE Complete'
  BY DEF Complete
<1>1. /\ UNCHANGED <<space, search, stack, visited, answer, znode, dead, unlisted, unpushed>>
      /\ unlisted \in BOOLEAN
  BY DEF vars, Types
<1>2. Promising
  BY <1>1, StillPromising
<1>3. FramesSettled(Marked, stack) /\ NodesSettled(Marked, stack) /\ Told
  BY <1>2 DEF Complete
<1>4. Marked' = Marked /\ stack' = stack
  BY <1>1 DEF Marked
<1>5. FramesSettled(Marked, stack)' /\ NodesSettled(Marked, stack)'
  BY <1>1, <1>3, <1>4, SameSettled
<1>6. Told'
  BY <1>1, <1>3, <1>4, SameSettled DEF Told, Handled, Pushes
<1> QED
  BY <1>5, <1>6 DEF Complete

LEMMA NextComplete == Types /\ ArraysOK /\ Complete /\ [Next]_vars => Complete'
<1> SUFFICES ASSUME Types, ArraysOK, Complete, [Next]_vars PROVE Complete'
  OBVIOUS
<1>1. ASSUME (\E n \in Node : LocateParent(n) \/ CheckChildOfNS0(n)) \/ UAServerAddressSpace
      PROVE  Complete'
  BY <1>1, NextStarts, StartsComplete
<1>2. ASSUME Overrun \/ BrowseFails PROVE Complete'
  BY <1>2, StopsIs DEF Stops, Complete, Promising
<1> QED
  BY <1>1, <1>2, FoundParentComplete, DescendParentComplete, DescendNS0Complete,
     DescendClientComplete, PassesComplete, StutterComplete, NextIs

LEMMA AlwaysComplete == Spec => []Complete
<1>1. Init => Complete
  BY DEF Init, Complete, Promising
<1> QED
  BY <1>1, NextComplete, AlwaysTypes, AlwaysArrays, PTL DEF Spec

-----------------------------------------------------------------------------
(* The three promises *)

\* When a search is over, what it has met is closed outside what it knew before.
LEMMA MetIsClosed ==
  ASSUME Types, Complete, Promising, stack = <<>>
  PROVE  Reached(Origin, Hier, search.known) \subseteq {n \in Node : Met(Marked, n)}
<1> DEFINE S == {n \in Node : Met(Marked, n)}
<1>1. Origin \in Node /\ Hier \in BOOLEAN /\ SpaceOK
  BY ConstantsOK DEF Origin, Hier, Types
<1>2. ASSUME NEW l \in S \cup {Origin}, NEW m \in Targets(l, Hier), identifier[m] \notin search.known
      PROVE  m \in S
  <2>1. l \in Node /\ ~OnStack(stack, l)
    BY <1>1 DEF OnStack
  <2>2. m \in Node
    BY <1>1, <2>1, TargetsInSpace
  <2>3. PICK j \in 1..Len(references[l]) :
          /\ ~references[l][j].inverse /\ (Hier => references[l][j].hierarchical)
          /\ references[l][j].to = m
    BY <1>1, TargetsAre
  <2>4. NodesSettled(Marked, stack) /\ (l = Origin \/ Met(Marked, l))
    BY DEF Complete
  <2>5. Settled(Marked, l, j)
    BY <2>1, <2>3, <2>4 DEF NodesSettled
  <2>6. identifier[m] \in Marked
    BY <2>3, <2>5 DEF Settled
  <2> QED
    BY <1>2, <2>2, <2>6 DEF Met
<1> HIDE DEF S
<1>3. Beyond(S, Origin, Hier, search.known) \subseteq S
  BY <1>2 DEF Beyond
<1>4. Reached(Origin, Hier, search.known) \subseteq S
  BY <1>1, <1>3, ReachedLeast
<1> QED
  BY <1>4 DEF S

\* The search for a parent, and the search below the Server node, know nothing
\* at first, or what the array held; the client knows nothing.
KnownOK == search.kind \in {"parent", "client"} => search.known = {}

LEMMA AlwaysKnown == Spec => []KnownOK
<1>1. Init => KnownOK
  BY DEF Init, KnownOK
<1>2. Types /\ ArraysOK /\ KnownOK /\ [Next]_vars => KnownOK'
  <2> SUFFICES ASSUME Types, ArraysOK, KnownOK, [Next]_vars PROVE KnownOK'
    OBVIOUS
  <2>1. ASSUME (\E n \in Node : LocateParent(n) \/ CheckChildOfNS0(n)) \/ UAServerAddressSpace
        PROVE  KnownOK'
    BY <2>1, NextStarts DEF KnownOK
  <2>2. ASSUME FoundParent \/ DescendParent \/ DescendNS0 \/ DescendClient PROVE KnownOK'
    BY <2>2, FoundParentIs, DescendParentIs, DescendNS0Is, DescendClientIs DEF Enters, KnownOK
  <2>3. ASSUME Overrun \/ BrowseFails PROVE KnownOK'
    BY <2>3, StopsIs DEF Stops, KnownOK
  <2> QED
    BY <2>1, <2>2, <2>3, NextIs DEF Passes, vars, KnownOK
<1> QED
  BY <1>1, <1>2, AlwaysTypes, AlwaysArrays, PTL DEF Spec

\* zkUA_UA_Server_locateParent, in any address space: its answer refers to the
\* node sought and can be reached from the root; and it answers if there is
\* such a node and no two nodes have the same identifier.
THEOREM ParentFound == Spec => []ParentIsFound
<1>1. Types /\ AnswerWithin /\ Complete /\ KnownOK => ParentIsFound
  <2> SUFFICES ASSUME Types, AnswerWithin, Complete, KnownOK, Done("parent") PROVE
                 /\ answer # NoNode =>
                      /\ answer \in {Root} \cup Reached(Root, TRUE, {})
                      /\ search.for \in Targets(answer, TRUE)
                 /\ DistinctIdentifiers /\ search.for \in Reached(Root, TRUE, {})
                      => answer # NoNode
    BY DEF ParentIsFound
  <2>1. /\ search.kind = "parent" /\ stack = <<>> /\ ~dead /\ search.known = {}
        /\ Origin = Root /\ Hier = TRUE
    BY DEF Done, KnownOK, Origin, Hier
  <2>2. Reached(Root, TRUE, {}) \in SUBSET Node /\ Closed(Reached(Root, TRUE, {}))
    BY <2>1, ReachedIsClosed DEF Types
  <2>3. ASSUME answer # NoNode
        PROVE  answer \in {Root} \cup Reached(Root, TRUE, {}) /\ search.for \in Targets(answer, TRUE)
    BY <2>1, <2>2, <2>3 DEF AnswerWithin
  <2>4. ASSUME DistinctIdentifiers, search.for \in Reached(Root, TRUE, {}), answer = NoNode
        PROVE  FALSE
    <3>1. Promising
      BY <2>1, <2>4 DEF Promising
    <3>2. Reached(Root, TRUE, {}) \subseteq {n \in Node : Met(Marked, n)}
      BY <2>1, <3>1, MetIsClosed
    <3>3. Met(Marked, search.for) /\ Told
      BY <2>4, <3>1, <3>2 DEF Complete
    <3> QED
      BY <2>1, <2>4, <3>3 DEF Told
  <2> QED
    BY <2>3, <2>4
<1> QED
  BY <1>1, AlwaysTypes, AlwaysAnswers, AlwaysComplete, AlwaysKnown, PTL

\* checkChildOfNS0ServerNode, in any address space: it recognises nothing that
\* is not below the Server node, and all that is, as far as no node in between
\* has an identifier that an earlier search has left in the array.
THEOREM SubtreeRecognised == Spec => []ServerSubtreeIsRecognised
<1>1. Types /\ AnswerWithin /\ Complete => ServerSubtreeIsRecognised
  <2> SUFFICES ASSUME Types, AnswerWithin, Complete, Done("ns0") PROVE
                 /\ answer # NoNode => search.for \in Reached(ServerNode, FALSE, {})
                 /\ DistinctIdentifiers /\ search.for \in Reached(ServerNode, FALSE, search.known)
                      => answer # NoNode
    BY DEF ServerSubtreeIsRecognised
  <2>1. /\ search.kind = "ns0" /\ stack = <<>> /\ ~dead
        /\ Origin = ServerNode /\ Hier = FALSE
    BY DEF Done, Origin, Hier
  <2>2. Reached(ServerNode, FALSE, {}) \in SUBSET Node /\ Closed(Reached(ServerNode, FALSE, {}))
    BY <2>1, ReachedIsClosed DEF Types
  <2>3. ASSUME answer # NoNode PROVE search.for \in Reached(ServerNode, FALSE, {})
    BY <2>1, <2>2, <2>3 DEF AnswerWithin
  <2>4. ASSUME DistinctIdentifiers, search.for \in Reached(ServerNode, FALSE, search.known)
        PROVE  answer # NoNode
    <3>1. Promising
      BY <2>1, <2>4 DEF Promising
    <3>2. Reached(ServerNode, FALSE, search.known) \subseteq {n \in Node : Met(Marked, n)}
      BY <2>1, <3>1, MetIsClosed
    <3>3. Met(Marked, search.for) /\ Told
      BY <2>4, <3>1, <3>2 DEF Complete
    <3> QED
      BY <2>1, <3>3 DEF Told
  <2> QED
    BY <2>3, <2>4
<1> QED
  BY <1>1, AlwaysTypes, AlwaysAnswers, AlwaysComplete, PTL

\* zkUA_UAServerAddressSpace, from any address space and after any runs that died:
\* a client that returns, and could list every node, leaves a znode for each node
\* within reach whose own push did not fail in this run, and for none out of reach,
\* each about its own node, under a parent that refers to it, if identifiers tell the
\* nodes apart.
THEOREM ClientCopied == Spec => []ClientCopiesAll
<1>1. Types /\ ZnodesWithin /\ Complete /\ KnownOK => ClientCopiesAll
  <2> DEFINE C == {n \in Node : znode[n].about # NoNode}
             R == Reached(Root, FALSE, {})
  <2> SUFFICES ASSUME Types, ZnodesWithin, Complete, KnownOK, DistinctIdentifiers PROVE
                 /\ Done("client") /\ ~unlisted => C \subseteq R /\ R \ unpushed \subseteq C
                 /\ \A n \in C : znode[n].about = n /\ n \in Targets(znode[n].parent, FALSE)
    BY DEF ClientCopiesAll
  <2>1. \A n \in C : znode[n].about = n /\ n \in Targets(znode[n].parent, FALSE)
    BY DEF ZnodesWithin, Pushes
  <2>2. ASSUME Done("client"), ~unlisted
        PROVE  C \subseteq R /\ R \ unpushed \subseteq C
    <3>1. /\ search.kind = "client" /\ stack = <<>> /\ ~dead /\ search.known = {}
          /\ Origin = Root /\ Hier = FALSE
      BY <2>2 DEF Done, KnownOK, Origin, Hier
    <3>2. R \in SUBSET Node /\ Closed(R)
      BY <3>1, ReachedIsClosed DEF Types
    <3>3. Promising
      BY <2>2, <3>1 DEF Promising
    <3>4. R \subseteq {n \in Node : Met(Marked, n)}
      BY <3>1, <3>3, MetIsClosed
    <3> HIDE DEF R
    <3>5. \A n \in R : n \in Node /\ Handled(n)
      BY <3>1, <3>2, <3>3, <3>4 DEF Complete, Told
    <3>6. \A n \in Node : Pushes(n) => n \in R
      BY <3>2 DEF ZnodesWithin
    <3> QED
      BY <3>5, <3>6 DEF Handled, Pushes
  <2> QED
    BY <2>1, <2>2
<1> QED
  BY <1>1, AlwaysTypes, AlwaysPushes, AlwaysComplete, AlwaysKnown, PTL
=============================================================================
