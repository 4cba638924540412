------------------------- MODULE ReplicationProofs -------------------------
(***************************************************************************)
(* What holds of Replication for all servers, trees of nodes, openings and *)
(* budgets of failures: the types, and that a server misses no change as   *)
(* long as it is answered.                                                 *)
(***************************************************************************)
EXTENDS Replication, WellFoundedInduction, TLAPS

-----------------------------------------------------------------------------
(* Numbers and sequences *)

LEMMA LessIsWellFounded == IsWellFoundedOn({ss \in Nat \X Nat : ss[1] < ss[2]}, Nat)
  BY NatLessThanWellFounded, Zenon DEF OpToRel

LEMMA NextNodeIn ==
  ASSUME NEW S \in SUBSET Node, S # {}
  PROVE  NextNode(S) \in S /\ \A m \in S : NextNode(S) <= m
<1> DEFINE Less == {ss \in Nat \X Nat : ss[1] < ss[2]}
<1>1. S \subseteq Nat
  BY ConstantsOK DEF ConstantsOK
<1>2. PICK n \in S : \A m \in S : <<m, n>> \notin Less
  <2>1. IsWellFoundedOn(Less, Nat)
    BY LessIsWellFounded
  <2> HIDE DEF Less
  <2> QED
    BY <1>1, <2>1, WFMin
<1>3. \A m \in S : ~(m < n)
  BY <1>1, <1>2
<1>4. \A m \in S : n <= m
  BY <1>1, <1>3
<1> QED
  BY <1>2, <1>4, Zenon DEF NextNode

Elements(q) == {q[i] : i \in 1..Len(q)}

LEMMA QueuedElements ==
  \A s, kind : Queued(s, kind) = {e \in Elements(queue[s]) : e.kind = kind}
  BY DEF Queued, Elements

LEMMA QueuedElementsNext ==
  \A s, kind : Queued(s, kind)' = {e \in Elements(queue'[s]) : e.kind = kind}
  BY DEF Queued, Elements

LEMMA ElementsConcat ==
  ASSUME NEW E, NEW q \in Seq(E), NEW r \in Seq(E)
  PROVE  /\ q \o r \in Seq(E)
         /\ Elements(q \o r) = Elements(q) \cup Elements(r)
<1>1. q \o r \in Seq(E) /\ Len(q \o r) = Len(q) + Len(r)
  OBVIOUS
<1>2. ASSUME NEW i \in 1..Len(q \o r)
      PROVE  (q \o r)[i] \in Elements(q) \cup Elements(r)
  <2>1. CASE i <= Len(q)
    BY <2>1, (q \o r)[i] = q[i] DEF Elements
  <2>2. CASE i > Len(q)
    <3>1. i - Len(q) \in 1..Len(r) /\ (q \o r)[i] = r[i - Len(q)]
      BY <1>1, <2>2
    <3> QED
      BY <3>1 DEF Elements
  <2> QED
    BY <2>1, <2>2, <1>1
<1>3. ASSUME NEW i \in 1..Len(q)
      PROVE  q[i] \in Elements(q \o r)
  <2>1. i \in 1..Len(q \o r) /\ (q \o r)[i] = q[i]
    BY <1>1
  <2> QED
    BY <2>1 DEF Elements
<1>4. ASSUME NEW i \in 1..Len(r)
      PROVE  r[i] \in Elements(q \o r)
  <2>1. Len(q) + i \in 1..Len(q \o r) /\ (q \o r)[Len(q) + i] = r[i]
    BY <1>1
  <2> QED
    BY <2>1 DEF Elements
<1>5. Elements(q \o r) \subseteq Elements(q) \cup Elements(r)
  BY <1>2 DEF Elements
<1>6. Elements(q) \subseteq Elements(q \o r)
  BY <1>3 DEF Elements
<1>7. Elements(r) \subseteq Elements(q \o r)
  BY <1>4 DEF Elements
<1> QED
  BY <1>1, <1>5, <1>6, <1>7

LEMMA ElementsAppend ==
  ASSUME NEW E, NEW q \in Seq(E), NEW e \in E
  PROVE  /\ Append(q, e) \in Seq(E)
         /\ Elements(Append(q, e)) = Elements(q) \cup {e}
<1>1. <<e>> \in Seq(E) /\ Elements(<<e>>) = {e}
  BY DEF Elements
<1>2. Append(q, e) = q \o <<e>>
  OBVIOUS
<1>3. \A r \in Seq(E) : Elements(q \o r) = Elements(q) \cup Elements(r)
  BY ElementsConcat
<1>4. Elements(q \o <<e>>) = Elements(q) \cup Elements(<<e>>)
  BY <1>1, <1>3, Zenon
<1> QED
  BY <1>1, <1>2, <1>4

LEMMA ElementsTail ==
  ASSUME NEW E, NEW q \in Seq(E), q # <<>>
  PROVE  /\ Head(q) \in E /\ Tail(q) \in Seq(E)
         /\ Elements(q) = {Head(q)} \cup Elements(Tail(q))
<1>1. /\ Head(q) \in E /\ Tail(q) \in Seq(E)
      /\ Len(q) \in Nat /\ Len(q) >= 1 /\ Len(Tail(q)) = Len(q) - 1 /\ Head(q) = q[1]
  OBVIOUS
<1>2. ASSUME NEW i \in 1..Len(q)
      PROVE  q[i] \in {Head(q)} \cup Elements(Tail(q))
  <2>1. CASE i = 1
    BY <1>1, <2>1
  <2>2. CASE i > 1
    <3>1. i - 1 \in 1..Len(Tail(q)) /\ Tail(q)[i - 1] = q[i]
      BY <1>1, <2>2
    <3> QED
      BY <3>1 DEF Elements
  <2> QED
    BY <2>1, <2>2
<1>3. ASSUME NEW i \in 1..Len(Tail(q))
      PROVE  Tail(q)[i] \in Elements(q)
  <2>1. i + 1 \in 1..Len(q) /\ Tail(q)[i] = q[i + 1]
    BY <1>1
  <2> QED
    BY <2>1 DEF Elements
<1>4. Elements(q) \subseteq {Head(q)} \cup Elements(Tail(q))
  BY <1>2 DEF Elements
<1>5. Elements(Tail(q)) \subseteq Elements(q)
  BY <1>3 DEF Elements
<1>6. Head(q) \in Elements(q)
  BY <1>1 DEF Elements
<1> QED
  BY <1>1, <1>4, <1>5, <1>6

LEMMA ElementsEmpty == Elements(<<>>) = {}
  BY DEF Elements

-----------------------------------------------------------------------------
(* The types, and what they rest on *)

OfOne(e) == \E n \in Node : e.nodes = {n}

\* Nobody watches a znode that is not there, a change is one node's, and no
\* znode is newer than ZooKeeper's last transaction.
ZkOK ==
  /\ znode \in [Node -> [val : Value, parented : BOOLEAN, mzxid : Nat]]
  /\ zxid \in Nat /\ ns0 \in BOOLEAN
  /\ \A n \in Node : znode[n].mzxid <= zxid
  /\ dataWatch \subseteq Server \X Node /\ childWatch \subseteq Server
  /\ \A s \in Server, n \in Node : <<s, n>> \in dataWatch => Exists(n)
  /\ queue \in [Server -> Seq(Events)]
  /\ \A s \in Server : \A e \in Queued(s, "changed") : OfOne(e)

UaOK ==
  /\ store \in [Server -> [Node -> Value]]
  /\ linked \in [Server -> SUBSET Node]

TableOK == nodeMzxid \in [Server -> [Node -> Nat]]

FlagsOK ==
  /\ replicateNode \in [Server -> BOOLEAN]
  /\ addressSpaceExists \in [Server -> BOOLEAN]

\* A thread that does not wait, start or end has a node at hand.
Without == {"idle", "dead", "start", "new", "nodeset"}
HandOK(r) == r \in ThreadState /\ (r.pc \notin Without => r.node \in Node)

\* While it creates the nodeset a completion thread copies nothing; when it
\* waits no listed node is left over.
CopierOK(r, nodes) ==
  /\ r.pc = "nodeset" => r.creating
  /\ r.creating => ~r.again /\ r.pc \notin {"idle", "get", "check", "decode", "replace", "readd"}
  /\ r.pc = "idle" => nodes = {}

ThreadsOK ==
  /\ th \in [Server -> [Thread -> ThreadState]]
  /\ \A s \in Server, t \in Thread : HandOK(th[s][t])
  /\ todo \in [Server -> SUBSET Node]
  /\ \A s \in Server : CopierOK(th[s]["completion"], todo[s])

BoundsOK == made \in Nat /\ ops \in Nat /\ losses \in 0..MaxLosses /\ restarts \in Nat

Inv == ZkOK /\ UaOK /\ TableOK /\ FlagsOK /\ ThreadsOK /\ BoundsOK

LEMMA InvTypeOK == Inv => TypeOK
  BY DEF Inv, ZkOK, UaOK, TableOK, FlagsOK, ThreadsOK, BoundsOK, TypeOK

LEMMA InitInv == Init => Inv
<1> SUFFICES ASSUME Init PROVE Inv
  OBVIOUS
<1> PICK o \in Opening : Init!(o)
  BY DEF Init
<1>1. \A n \in Node : n \in Nat /\ n # 0
  BY ConstantsOK DEF ConstantsOK
<1>2. /\ zxid \in Node
      /\ \A n \in Node : n <= zxid
  <2>1. zxid = CHOOSE m \in Node : \A n \in Node : n <= m
    OBVIOUS
  <2> DEFINE Last(m) == \A n \in Node : n <= m
  <2>2. \E m \in Node : Last(m)
    BY ConstantsOK DEF ConstantsOK
  <2>3. zxid = CHOOSE m \in Node : Last(m)
    BY <2>1
  <2>4. zxid \in Node /\ Last(zxid)
    <3> HIDE DEF Last
    <3> QED
      BY <2>2, <2>3, Zenon
  <2> QED
    BY <2>4
<1>3. o.present \in SUBSET Node /\ o.starting \in SUBSET Server /\ o.ops \in Nat
  BY ConstantsOK DEF ConstantsOK
<1>4. ZkOK
  <2>1. znode \in [Node -> [val : Value, parented : BOOLEAN, mzxid : Nat]]
    BY <1>1, <1>3 DEF Version, Blank, Value
  <2>2. \A n \in Node : znode[n].mzxid <= zxid
    <3>1. \A n \in Node : znode[n].mzxid = IF n \in o.present THEN n ELSE 0
      BY DEF Version
    <3>2. zxid \in Nat /\ \A n \in Node : n <= zxid
      BY <1>1, <1>2
    <3>3. ASSUME NEW n \in Node PROVE znode[n].mzxid <= zxid
      <4>1. CASE n \in o.present
        BY <3>1, <3>2, <4>1
      <4>2. CASE n \notin o.present
        BY <3>1, <3>2, <4>2
      <4> QED
        BY <4>1, <4>2
    <3> QED
      BY <3>3
  <2>3. queue \in [Server -> Seq(Events)]
    <3>1. Event("list", o.present) \in Events
      BY <1>3 DEF Event, Events
    <3> QED
      BY <3>1
  <2>4. \A s \in Server : Queued(s, "changed") = {}
    <3>1. \A s \in Server : queue[s] = <<>> \/ queue[s] = <<Event("list", o.present)>>
      BY Zenon
    <3>2. Elements(<<Event("list", o.present)>>) = {Event("list", o.present)}
      BY DEF Elements
    <3> QED
      <4>1. \A s \in Server : \A e \in Elements(queue[s]) : e.kind = "list"
        BY <3>1, <3>2, ElementsEmpty, Event("list", o.present).kind = "list" DEF Event
      <4> QED
        BY <4>1, QueuedElements
  <2> QED
    BY <1>1, <1>2, <1>3, <2>1, <2>2, <2>3, <2>4 DEF ZkOK
<1>5. ThreadsOK
  BY DEF ThreadsOK, HandOK, CopierOK, Started, Idle, Blank, Pack, Value, ThreadState, PC, Without, Thread
<1>6. MaxLosses \in Nat /\ \A p \in Opening : p.restarts \in Nat
  BY ConstantsOK DEF ConstantsOK
<1> QED
  BY <1>3, <1>4, <1>5, <1>6 DEF Inv, UaOK, TableOK, FlagsOK, BoundsOK, Value

-----------------------------------------------------------------------------
(* The ensemble *)

Listed(s) == s \in childWatch \/ Queued(s, "child") # {}

Noticed(s, n) ==
  \/ <<s, n>> \in dataWatch
  \/ Queued(s, "child") # {}
  \/ \E e \in Queued(s, "list") \cup Queued(s, "changed") : n \in e.nodes

\* A step of the ensemble takes no news from s: a new znode comes with an event
\* for all who watch the list.
NewsKept(s) ==
  /\ Queued(s, "start")' = Queued(s, "start")
  /\ Listed(s) =>
       /\ Listed(s)'
       /\ \A n \in Node : Exists(n)' /\ (Exists(n) => Noticed(s, n)) => Noticed(s, n)'

LEMMA NotifyElements ==
  ASSUME ZkOK, NEW kind \in {"created", "changed", "deleted"}, NEW n \in Node,
         Notify(kind, n, kind # "changed"),
         kind = "created" => \A s \in Server : <<s, n>> \notin dataWatch
  PROVE  /\ queue' \in [Server -> Seq(Events)]
         /\ \A s \in Server : Elements(queue'[s]) =
              Elements(queue[s])
                \cup (IF <<s, n>> \in dataWatch THEN {Event(kind, {n})} ELSE {})
                \cup (IF kind # "changed" /\ s \in childWatch THEN {Event("child", {})} ELSE {})
<1> DEFINE data(s) == IF <<s, n>> \in dataWatch THEN <<Event(kind, {n})>> ELSE <<>>
           list(s) == IF kind # "changed" /\ s \in childWatch THEN <<Event("child", {})>> ELSE <<>>
<1>1. ASSUME NEW s \in Server
      PROVE  /\ data(s) \in Seq(Events) /\ list(s) \in Seq(Events)
             /\ Elements(data(s)) = IF <<s, n>> \in dataWatch THEN {Event(kind, {n})} ELSE {}
             /\ Elements(list(s)) = IF kind # "changed" /\ s \in childWatch THEN {Event("child", {})} ELSE {}
  <2>1. Event("child", {}) \in Events
    BY DEF Event, Events
  <2>2. <<s, n>> \in dataWatch => Event(kind, {n}) \in Events
    BY DEF Event, Events
  <2>3. \A e : Elements(<<e>>) = {e}
    BY DEF Elements
  <2>4. data(s) \in Seq(Events) /\ list(s) \in Seq(Events)
    BY <2>1, <2>2
  <2>5. Elements(data(s)) = IF <<s, n>> \in dataWatch THEN {Event(kind, {n})} ELSE {}
    BY <2>3, ElementsEmpty, Zenon
  <2>6. Elements(list(s)) = IF kind # "changed" /\ s \in childWatch THEN {Event("child", {})} ELSE {}
    BY <2>3, ElementsEmpty, Zenon
  <2> QED
    BY <2>4, <2>5, <2>6
<1>2. queue' = [s \in Server |-> queue[s] \o data(s) \o list(s)]
  BY DEF Notify
<1>3. ASSUME NEW s \in Server
      PROVE  /\ queue[s] \o data(s) \o list(s) \in Seq(Events)
             /\ Elements(queue[s] \o data(s) \o list(s)) =
                  Elements(queue[s]) \cup Elements(data(s)) \cup Elements(list(s))
  <2> HIDE DEF data, list
  <2>1. queue[s] \in Seq(Events)
    BY DEF ZkOK
  <2>2. \A q, r \in Seq(Events) :
          q \o r \in Seq(Events) /\ Elements(q \o r) = Elements(q) \cup Elements(r)
    BY ElementsConcat
  <2>3. data(s) \in Seq(Events) /\ list(s) \in Seq(Events)
    BY <1>1
  <2>4. /\ queue[s] \o data(s) \in Seq(Events)
        /\ Elements(queue[s] \o data(s)) = Elements(queue[s]) \cup Elements(data(s))
    BY <2>1, <2>2, <2>3, Zenon
  <2> QED
    BY <2>2, <2>3, <2>4, Zenon
<1>4. queue' \in [Server -> Seq(Events)]
  <2> HIDE DEF data, list
  <2> QED
    BY <1>2, <1>3
<1>5. \A s \in Server : queue'[s] = queue[s] \o data(s) \o list(s)
  <2> HIDE DEF data, list
  <2> QED
    BY <1>2
<1> QED
  <2> HIDE DEF data, list
  <2> QED
    BY <1>1, <1>3, <1>4, <1>5

Change(n, p) == CreateZnode(n, p) \/ SetZnode(n, p) \/ DeleteZnode(n)

LEMMA ChangeOK ==
  ASSUME ZkOK, NEW n \in Node, NEW p \in Pack, Change(n, p)
  PROVE  ZkOK' /\ \A s \in Server : NewsKept(s)
<1> DEFINE Changed(kind, z) ==
             /\ Notify(kind, n, kind # "changed")
             /\ kind = "created" => ~Exists(n)
             /\ kind = "changed" => Exists(n) /\ z.mzxid # 0
             /\ kind = "deleted" => z.mzxid = 0
             /\ Commit(n, z)
             /\ z.mzxid <= zxid + 1
           Data == [val : Value, parented : BOOLEAN, mzxid : Nat]
<1>1. PICK kind \in {"created", "changed", "deleted"}, z \in Data : Changed(kind, z)
  <2>1. ASSUME NEW q \in Pack, NEW v \in Nat
        PROVE  Version(q, v) \in Data /\ Version(q, v).mzxid = v
    BY DEF Version, Pack
  <2>2. Blank \in Pack /\ zxid \in Nat
    BY DEF Blank, Pack, Value, ZkOK
  <2>3. CASE CreateZnode(n, p)
    <3>1. Changed("created", Version(p, zxid + 1))
      BY <2>1, <2>2, <2>3 DEF CreateZnode, Notify
    <3> QED
      BY <2>1, <2>2, <3>1
  <2>4. CASE SetZnode(n, p)
    <3>1. Changed("changed", Version(p, zxid + 1))
      BY <2>1, <2>2, <2>4 DEF SetZnode, Notify
    <3> QED
      BY <2>1, <2>2, <3>1
  <2>5. CASE DeleteZnode(n)
    <3>1. Changed("deleted", Version(Blank, 0))
      BY <2>1, <2>2, <2>5 DEF DeleteZnode, Notify
    <3> QED
      BY <2>1, <2>2, <3>1
  <2> QED
    BY <2>3, <2>4, <2>5 DEF Change
<1> DEFINE kids == kind # "changed"
<1>2. /\ queue' \in [Server -> Seq(Events)]
      /\ \A s \in Server : Elements(queue'[s]) =
           Elements(queue[s])
             \cup (IF <<s, n>> \in dataWatch THEN {Event(kind, {n})} ELSE {})
             \cup (IF kind # "changed" /\ s \in childWatch THEN {Event("child", {})} ELSE {})
  <2>1. kind = "created" => \A s \in Server : <<s, n>> \notin dataWatch
    BY <1>1 DEF ZkOK
  <2> QED
    BY <1>1, <2>1, NotifyElements
<1>3. /\ znode' = [znode EXCEPT ![n] = z] /\ zxid' = zxid + 1 /\ ns0' = ns0
      /\ dataWatch' = {w \in dataWatch : w[2] # n}
      /\ childWatch' = IF kids THEN {} ELSE childWatch
  BY <1>1 DEF Commit, Notify
<1>4. /\ znode' \in [Node -> [val : Value, parented : BOOLEAN, mzxid : Nat]]
      /\ zxid' \in Nat /\ ns0' \in BOOLEAN
      /\ dataWatch' \subseteq Server \X Node /\ childWatch' \subseteq Server
      /\ \A m \in Node : znode'[m].mzxid <= zxid'
  BY <1>1, <1>3 DEF ZkOK
<1>5. \A s \in Server, m \in Node : <<s, m>> \in dataWatch' <=> <<s, m>> \in dataWatch /\ m # n
  BY <1>3
<1>6. \A m \in Node : m # n => (Exists(m)' <=> Exists(m))
  BY <1>3 DEF Exists, ZkOK
<1>7. Exists(n)' <=> z.mzxid # 0
  BY <1>3 DEF Exists, ZkOK
<1>8. \A s \in Server, m \in Node : <<s, m>> \in dataWatch' => Exists(m)'
  BY <1>5, <1>6 DEF ZkOK
<1>9. ASSUME NEW s \in Server
      PROVE  /\ \A e \in Queued(s, "changed")' : OfOne(e)
             /\ NewsKept(s)
  <2>1. /\ Event(kind, {n}).kind = kind /\ Event(kind, {n}).nodes = {n}
        /\ Event("child", {}).kind = "child"
    BY DEF Event
  <2>2. Queued(s, "start")' = Queued(s, "start")
    BY <1>2, <2>1, QueuedElements, QueuedElementsNext
  <2>3. Queued(s, "list")' = Queued(s, "list")
    BY <1>2, <2>1, QueuedElements, QueuedElementsNext
  <2>4. Queued(s, "child")' = Queued(s, "child")
          \cup (IF kind # "changed" /\ s \in childWatch THEN {Event("child", {})} ELSE {})
    BY <1>2, <2>1, QueuedElements, QueuedElementsNext
  <2>5. Queued(s, "changed")' = Queued(s, "changed")
          \cup (IF kind = "changed" /\ <<s, n>> \in dataWatch THEN {Event(kind, {n})} ELSE {})
    BY <1>2, <2>1, QueuedElements, QueuedElementsNext
  <2>6. Listed(s) => Listed(s)'
    BY <1>3, <2>4 DEF Listed
  <2>7. Listed(s) /\ kids => Queued(s, "child")' # {}
    BY <2>4 DEF Listed
  <2>8. ASSUME NEW m \in Node, Listed(s), Exists(m)', Exists(m) => Noticed(s, m)
        PROVE  Noticed(s, m)'
    <3>1. CASE kids
      BY <2>7, <2>8, <3>1 DEF Noticed
    <3>2. CASE ~kids
      <4>1. kind = "changed" /\ Exists(m)
        BY <1>1, <1>6, <2>8, <3>2
      <4>2. CASE m = n /\ <<s, m>> \in dataWatch
        BY <2>1, <2>5, <4>1, <4>2 DEF Noticed
      <4>3. CASE ~(m = n /\ <<s, m>> \in dataWatch)
        BY <1>5, <2>3, <2>4, <2>5, <2>8, <4>1, <4>3 DEF Noticed
      <4> QED
        BY <4>2, <4>3
    <3> QED
      BY <3>1, <3>2
  <2>9. \A e \in Queued(s, "changed")' : OfOne(e)
    BY <2>1, <2>5 DEF ZkOK, OfOne
  <2> QED
    BY <2>2, <2>6, <2>8, <2>9 DEF NewsKept
<1> QED
  BY <1>2, <1>4, <1>8, <1>9 DEF ZkOK

LEMMA SameNews ==
  ASSUME NEW s \in Server, queue'[s] = queue[s], UNCHANGED znode,
         s \in childWatch => s \in childWatch',
         \A n \in Node : <<s, n>> \in dataWatch => <<s, n>> \in dataWatch'
  PROVE  NewsKept(s)
<1>1. \A kind : Queued(s, kind)' = Queued(s, kind)
  BY QueuedElements, QueuedElementsNext
<1>2. \A n \in Node : Exists(n)' = Exists(n)
  BY DEF Exists
<1> QED
  BY <1>1, <1>2 DEF NewsKept, Listed, Noticed

LEMMA SameZk ==
  ASSUME ZkOK, UNCHANGED zkVars
  PROVE  ZkOK' /\ \A s \in Server : NewsKept(s)
<1>1. \A s \in Server : Queued(s, "changed")' = Queued(s, "changed")
  BY DEF Queued, zkVars
<1>2. ZkOK'
  BY <1>1 DEF ZkOK, zkVars, Exists
<1> QED
  BY <1>2, SameNews DEF zkVars

LEMMA WatchOK ==
  ASSUME ZkOK, NEW s \in Server, NEW n \in Node, Exists(n), Watch(s, n)
  PROVE  ZkOK' /\ <<s, n>> \in dataWatch' /\ \A q \in Server : NewsKept(q)
<1>1. /\ dataWatch' = dataWatch \cup {<<s, n>>}
      /\ UNCHANGED <<znode, ns0, zxid, childWatch, queue>>
  BY DEF Watch
<1>2. \A q \in Server : Queued(q, "changed")' = Queued(q, "changed")
  BY <1>1 DEF Queued
<1>3. ZkOK'
  BY <1>1, <1>2 DEF ZkOK, Exists
<1> QED
  BY <1>1, <1>3, SameNews

\* What is left of the queue once an event, or all, are taken from it, and what
\* may have been added.
Requeued(s, q, e) ==
  /\ q \in Seq(Events) /\ queue' = [queue EXCEPT ![s] = q]
  /\ Elements(q) \subseteq Elements(queue[s]) \cup {e} /\ e.kind # "changed"
  /\ UNCHANGED <<znode, zxid>> /\ ns0' \in BOOLEAN
  /\ dataWatch' \subseteq dataWatch /\ childWatch' \subseteq childWatch \cup {s}
  /\ \A r \in Server \ {s} :
       /\ r \in childWatch => r \in childWatch'
       /\ \A n \in Node : <<r, n>> \in dataWatch => <<r, n>> \in dataWatch'

LEMMA QueueOK ==
  ASSUME ZkOK, NEW s \in Server, NEW q, NEW e, Requeued(s, q, e)
  PROVE  ZkOK' /\ \A r \in Server \ {s} : NewsKept(r)
<1>1. queue' \in [Server -> Seq(Events)] /\ queue'[s] = q
  BY DEF ZkOK, Requeued
<1>2. ASSUME NEW r \in Server \ {s}
      PROVE  NewsKept(r) /\ Queued(r, "changed")' = Queued(r, "changed")
  <2>1. queue'[r] = queue[r]
    BY DEF ZkOK, Requeued
  <2> QED
    <3>1. NewsKept(r)
      BY <2>1, SameNews DEF Requeued
    <3> QED
      BY <2>1, <3>1, QueuedElements, QueuedElementsNext
<1>3. Queued(s, "changed")' \subseteq Queued(s, "changed")
  BY <1>1, QueuedElements, QueuedElementsNext DEF Requeued
<1>4. \A r \in Server : \A f \in Queued(r, "changed")' : OfOne(f)
  <2> TAKE r \in Server
  <2>1. CASE r = s
    BY <1>3, <2>1 DEF ZkOK
  <2>2. CASE r # s
    BY <1>2, <2>2 DEF ZkOK
  <2> QED
    BY <2>1, <2>2
<1>5. ZkOK'
  <2>1. \A r \in Server, n \in Node : <<r, n>> \in dataWatch' => Exists(n)'
    BY DEF ZkOK, Requeued, Exists
  <2> QED
    BY <1>1, <1>4, <2>1 DEF ZkOK, Requeued
<1> QED
  BY <1>2, <1>5

LEMMA TailOK ==
  ASSUME ZkOK, NEW s \in Server, queue[s] # <<>>,
         queue' = [queue EXCEPT ![s] = Tail(@)],
         UNCHANGED <<znode, ns0, zxid, dataWatch, childWatch>>
  PROVE  /\ ZkOK' /\ \A r \in Server \ {s} : NewsKept(r)
         /\ Elements(queue[s]) = {Head(queue[s])} \cup Elements(queue'[s])
<1>1. queue[s] \in Seq(Events)
  BY DEF ZkOK
<1>2. /\ Head(queue[s]) \in Events /\ Tail(queue[s]) \in Seq(Events)
      /\ Elements(queue[s]) = {Head(queue[s])} \cup Elements(Tail(queue[s]))
  BY <1>1, ElementsTail
<1>3. Event("list", {}).kind # "changed"
  BY DEF Event
<1>4. queue' = [queue EXCEPT ![s] = Tail(queue[s])] /\ queue'[s] = Tail(queue[s])
  BY DEF ZkOK
<1>5. ns0' \in BOOLEAN
  BY DEF ZkOK
<1>6. Requeued(s, Tail(queue[s]), Event("list", {}))
  BY <1>2, <1>3, <1>4, <1>5 DEF Requeued, ZkOK
<1> QED
  BY <1>2, <1>4, <1>6, QueueOK

LEMMA ListOK ==
  ASSUME ZkOK, NEW s \in Server, NEW q \in Seq(Events), ListChildren(s, q),
         Elements(q) \subseteq Elements(queue[s])
  PROVE  /\ ZkOK' /\ \A r \in Server \ {s} : NewsKept(r)
         /\ Elements(queue'[s]) = Elements(q) \cup {Event("list", Znodes)}
         /\ s \in childWatch' /\ UNCHANGED znode
         /\ \A n \in Znodes' : Noticed(s, n)'
<1> DEFINE e == Event("list", Znodes)
<1>1. e \in Events /\ e.kind = "list" /\ e.nodes = Znodes
  BY DEF Event, Events, Znodes
<1>2. Append(q, e) \in Seq(Events) /\ Elements(Append(q, e)) = Elements(q) \cup {e}
  BY <1>1, ElementsAppend
<1>3. /\ queue' = [queue EXCEPT ![s] = Append(q, e)]
      /\ queue'[s] = Append(q, e)
      /\ childWatch' = childWatch \cup {s}
      /\ UNCHANGED <<znode, ns0, zxid, dataWatch>>
  BY DEF ListChildren, ZkOK
<1>4. ns0' \in BOOLEAN
  BY <1>3 DEF ZkOK
<1>5. ZkOK' /\ \A r \in Server \ {s} : NewsKept(r)
  <2> HIDE DEF e
  <2>1. /\ Elements(Append(q, e)) \subseteq Elements(queue[s]) \cup {e}
        /\ e.kind # "changed"
    BY <1>1, <1>2
  <2> QED
    BY <1>2, <1>3, <1>4, <2>1, QueueOK DEF Requeued, ZkOK
<1>6. e \in Queued(s, "list")'
  BY <1>1, <1>2, <1>3, QueuedElementsNext
<1>7. Znodes' = Znodes
  BY <1>3 DEF Znodes, Exists
<1>8. \A n \in Znodes' : Noticed(s, n)'
  BY <1>1, <1>6, <1>7 DEF Noticed
<1> QED
  BY <1>2, <1>3, <1>5, <1>8

LEMMA LeaveOK ==
  ASSUME ZkOK, NEW s \in Server, queue' = [queue EXCEPT ![s] = <<>>],
         dataWatch' = {w \in dataWatch : w[1] # s}, childWatch' = childWatch \ {s},
         UNCHANGED <<znode, ns0, zxid>>
  PROVE  ZkOK' /\ \A r \in Server \ {s} : NewsKept(r)
<1>1. <<>> \in Seq(Events) /\ Elements(<<>>) = {} /\ Event("list", {}).kind # "changed"
  BY ElementsEmpty DEF Event
<1>2. ns0' \in BOOLEAN
  BY DEF ZkOK
<1>3. Requeued(s, <<>>, Event("list", {}))
  BY <1>1, <1>2 DEF Requeued, ZkOK
<1> QED
  BY <1>3, QueueOK

-----------------------------------------------------------------------------
(* The local address space *)

LEMMA PackValues ==
  /\ Blank \in Pack
  /\ \A n \in Node : ZkOK => PackOf(n) \in Pack
  /\ \A v \in Value, b \in BOOLEAN : [val |-> v, parented |-> b] \in Pack
  BY DEF Blank, Pack, PackOf, Value, ZkOK

LEMMA AddLocallyOK ==
  ASSUME UaOK, NEW s \in Server, NEW n \in Node, NEW p \in Pack, AddLocally(s, n, p)
  PROVE  UaOK'
<1>1. CASE UNCHANGED uaVars
  BY <1>1 DEF UaOK, uaVars
<1>2. CASE /\ store' = [store EXCEPT ![s][n] = p.val]
           /\ linked' = [linked EXCEPT ![s] = (@ \cup {n}) \ Children(n)]
  BY <1>2 DEF UaOK, Pack
<1> QED
  BY <1>1, <1>2 DEF AddLocally

LEMMA DeleteLocallyOK ==
  ASSUME UaOK, NEW s \in Server, NEW n \in Node, NEW b, DeleteLocally(s, n, b)
  PROVE  UaOK'
<1>1. CASE UNCHANGED uaVars
  BY <1>1 DEF UaOK, uaVars
<1>2. CASE ~UNCHANGED uaVars
  <2> DEFINE cut == Children(n) \cup (IF b THEN {n} ELSE {})
  <2>1. /\ store' = [store EXCEPT ![s][n] = 0]
        /\ linked' = [linked EXCEPT ![s] = @ \ cut]
    BY <1>2 DEF DeleteLocally
  <2> HIDE DEF cut
  <2>2. 0 \in Value
    BY DEF Value
  <2> QED
    BY <2>1, <2>2 DEF UaOK
<1> QED
  BY <1>1, <1>2

-----------------------------------------------------------------------------
(* The threads *)

\* One thread, t of s, takes a step to r.
Turn(s, t, r) ==
  /\ th' = [th EXCEPT ![s][t] = r] /\ HandOK(r)
  /\ todo' \in [Server -> SUBSET Node]
  /\ \A q \in Server \ {s} : todo'[q] = todo[q]
  /\ IF t = "completion" THEN CopierOK(r, todo'[s]) ELSE todo' = todo

LEMMA TurnOK ==
  ASSUME ThreadsOK, NEW s \in Server, NEW t \in Thread, NEW r, Turn(s, t, r)
  PROVE  /\ ThreadsOK' /\ th'[s][t] = r
         /\ \A u \in Thread : u # t => th'[s][u] = th[s][u]
         /\ \A q \in Server \ {s} : th'[q] = th[q] /\ todo'[q] = todo[q]
<1>1. /\ th' \in [Server -> [Thread -> ThreadState]] /\ th'[s][t] = r
      /\ \A u \in Thread : u # t => th'[s][u] = th[s][u]
      /\ \A q \in Server \ {s} : th'[q] = th[q]
  BY DEF ThreadsOK, Turn, HandOK
<1>2. \A q \in Server, u \in Thread : HandOK(th'[q][u])
  BY <1>1 DEF ThreadsOK, Turn
<1>3. ASSUME NEW q \in Server PROVE CopierOK(th'[q]["completion"], todo'[q])
  <2>1. CASE q # s
    BY <1>1, <2>1 DEF ThreadsOK, Turn
  <2>2. CASE q = s /\ t = "completion"
    BY <1>1, <2>2 DEF Turn
  <2>3. CASE q = s /\ t # "completion"
    BY <1>1, <2>3 DEF ThreadsOK, Turn, Thread
  <2> QED
    BY <2>1, <2>2, <2>3
<1> QED
  BY <1>1, <1>2, <1>3 DEF ThreadsOK, Turn

\* What s is about to read is still there, or on its way, after a step.
Carried(s) == \A n \in todo[s] : n \in todo'[s] \/ Coming(s, n)'

LEMMA FinishOK ==
  ASSUME ThreadsOK, NEW s \in Server, Finish(s)
  PROVE  \E r : /\ Turn(s, "completion", r) /\ Carried(s)
                /\ r.pc \in {"idle", "get"} /\ ~r.creating /\ r.pack = Blank
<1>0. todo[s] \in SUBSET Node /\ todo \in [Server -> SUBSET Node]
  BY DEF ThreadsOK
<1>1. CASE todo[s] = {}
  <2>1. Become(s, "completion", Idle) /\ todo' = todo
    BY <1>1 DEF Finish
  <2>2. HandOK(Idle) /\ CopierOK(Idle, {})
    BY DEF HandOK, CopierOK, Idle, ThreadState, PC, Pack, Value, Blank, Without
  <2>3. Turn(s, "completion", Idle)
    BY <1>0, <1>1, <2>1, <2>2 DEF Turn, Become
  <2> QED
    BY <1>1, <2>3 DEF Carried, Idle
<1>2. CASE todo[s] # {}
  <2> DEFINE m == NextNode(todo[s])
             r == [Idle EXCEPT !.pc = "get", !.node = m]
  <2>1. m \in todo[s] /\ m \in Node
    BY <1>0, <1>2, NextNodeIn
  <2>2. Become(s, "completion", r) /\ todo' = [todo EXCEPT ![s] = @ \ {m}]
    BY <1>2 DEF Finish
  <2> HIDE DEF m
  <2>3. /\ HandOK(r) /\ CopierOK(r, todo'[s])
        /\ r.pc = "get" /\ r.node = m /\ ~r.creating /\ r.pack = Blank
    BY <2>1 DEF HandOK, CopierOK, Idle, ThreadState, PC, Pack, Value, Blank, Without
  <2> HIDE DEF r
  <2>4. Turn(s, "completion", r)
    BY <1>0, <2>2, <2>3 DEF Turn, Become
  <2>5. th'[s]["completion"] = r
    BY <2>4, TurnOK DEF Thread
  <2>6. Carried(s)
    BY <1>0, <2>2, <2>3, <2>5 DEF Carried, Coming, At
  <2> QED
    BY <2>3, <2>4, <2>6
<1> QED
  BY <1>1, <1>2

\* A thread keeps its node and its listed nodes while it changes the rest.
Moved(r, s, t) ==
  /\ r \in ThreadState /\ r.node = th[s][t].node
  /\ r.pc \notin Without \cup {"get"} /\ th[s][t].pc \notin Without
  /\ t = "completion" => /\ r.creating = th[s][t].creating
                         /\ r.creating => ~r.again /\ r.pc \notin {"check", "decode", "replace", "readd"}

LEMMA MovedOK ==
  ASSUME ThreadsOK, NEW s \in Server, NEW t \in Thread, NEW r, Moved(r, s, t),
         th' = [th EXCEPT ![s][t] = r], UNCHANGED todo
  PROVE  Turn(s, t, r) /\ (t = "completion" => Carried(s))
<1>1. HandOK(th[s][t])
  BY DEF ThreadsOK
<1>2. HandOK(r)
  BY <1>1 DEF HandOK, Moved
<1>3. t = "completion" => CopierOK(r, todo'[s])
  BY DEF Moved, CopierOK, Without
<1>4. Turn(s, t, r)
  BY <1>2, <1>3 DEF Turn, ThreadsOK
<1> QED
  BY <1>4 DEF Carried

LEMMA ReturnOK ==
  ASSUME ThreadsOK, NEW s \in Server, NEW t \in Thread, Return(s, t),
         th[s][t].pc \notin Without
  PROVE  \E r : /\ Turn(s, t, r)
                /\ t = "main" => r = Idle
                /\ t = "completion" => Carried(s) /\ r.creating = th[s][t].creating
                /\ r.pack \in {Blank, th[s][t].pack}
<1>1. th[s][t] \in ThreadState /\ todo \in [Server -> SUBSET Node]
  BY DEF ThreadsOK
<1>2. CASE t = "main"
  <2>1. HandOK(Idle)
    BY DEF HandOK, Idle, ThreadState, PC, Pack, Value, Blank, Without
  <2>2. Become(s, t, Idle) /\ todo' = todo
    BY <1>2 DEF Return
  <2>3. Turn(s, t, Idle) /\ Idle.pack = Blank
    BY <1>1, <1>2, <2>1, <2>2 DEF Turn, Become, Idle
  <2> QED
    BY <1>2, <2>3
<1>3. CASE t = "completion" /\ th[s][t].again
  <2> DEFINE r == [th[s][t] EXCEPT !.pc = "replace"]
  <2>1. ~th[s][t].creating
    BY <1>3 DEF ThreadsOK, CopierOK
  <2>2. th' = [th EXCEPT ![s][t] = r] /\ todo' = todo
    <3>1. Goto(s, t, "replace") /\ UNCHANGED todo
      BY <1>3, <2>1 DEF Return
    <3> QED
      BY <3>1 DEF Goto
  <2>3. Moved(r, s, t)
    BY <1>1, <2>1 DEF Moved, ThreadState, PC, Without
  <2>4. r.creating = th[s][t].creating /\ r.pack = th[s][t].pack
    BY <1>1 DEF ThreadState
  <2> HIDE DEF r
  <2> QED
    BY <1>3, <2>2, <2>3, <2>4, MovedOK
<1>4. CASE t = "completion" /\ ~th[s][t].again /\ th[s][t].creating
  <2> DEFINE r == [th[s][t] EXCEPT !.pc = "nodeset"]
  <2>1. th' = [th EXCEPT ![s][t] = r] /\ todo' = todo
    <3>1. Goto(s, t, "nodeset") /\ UNCHANGED todo
      BY <1>4, Zenon DEF Return
    <3> QED
      BY <3>1 DEF Goto
  <2>2. /\ HandOK(r) /\ CopierOK(r, todo'[s])
        /\ r.creating = th[s][t].creating /\ r.pack = th[s][t].pack
    BY <1>1, <1>4 DEF HandOK, CopierOK, ThreadState, PC, Without
  <2> HIDE DEF r
  <2>3. Turn(s, t, r)
    BY <1>1, <1>4, <2>1, <2>2 DEF Turn
  <2> QED
    BY <1>4, <2>1, <2>2, <2>3 DEF Carried
<1>5. CASE t = "completion" /\ ~th[s][t].again /\ ~th[s][t].creating
  <2>1. Finish(s)
    BY <1>5 DEF Return
  <2>2. PICK r : Turn(s, "completion", r) /\ Carried(s) /\ ~r.creating /\ r.pack = Blank
    BY <2>1, FinishOK
  <2>3. r.creating = FALSE /\ th[s][t].creating = FALSE
    BY <1>1, <1>5, <2>2 DEF Turn, HandOK, ThreadState
  <2> QED
    BY <1>5, <2>2, <2>3
<1> QED
  BY <1>2, <1>3, <1>4, <1>5 DEF Thread

-----------------------------------------------------------------------------
(* Steps that keep the invariant *)

Hears(s) ==
  Alive(s) /\ losses = MaxLosses /\ ~YetToList(s) =>
    /\ Listed(s)
    /\ \A n \in Znodes : Noticed(s, n) \/ n \in todo[s] \/ Coming(s, n)

LEMMA HearsNeverDeaf == (\A s \in Server : Hears(s)) => NeverDeaf
  BY Zenon DEF Hears, NeverDeaf, Listed, Noticed

IInv == Inv /\ \A s \in Server : Hears(s)

Losing == losses' = MaxLosses => losses = MaxLosses

Elsewhere(s) ==
  \A q \in Server \ {s} : NewsKept(q) /\ th'[q] = th[q] /\ todo'[q] = todo[q]

\* A step of s that keeps its part of the invariant and touches no other's.
Sound(s) == Inv' /\ Elsewhere(s) /\ Losing /\ (Hears(s) => Hears(s)')

\* What s still has to do towards the list and its znodes is not forgotten.
Onward(s) ==
  /\ Alive(s)' => Alive(s)
  /\ th[s]["main"].pc \in {"start", "new"} => th'[s]["main"].pc \in {"start", "new"}
  /\ th[s]["completion"].creating => th'[s]["completion"].creating
  /\ \A n \in Node : Exists(n)' /\ (n \in todo[s] \/ Coming(s, n)) =>
       n \in todo'[s] \/ Coming(s, n)' \/ Noticed(s, n)'

LEMMA HearsKept ==
  ASSUME NEW s \in Server, Hears(s), NewsKept(s), Onward(s), Losing
  PROVE  Hears(s)'
<1> SUFFICES ASSUME Alive(s)', losses' = MaxLosses, ~YetToList(s)'
             PROVE  /\ Listed(s)'
                    /\ \A n \in Znodes' : Noticed(s, n)' \/ n \in todo'[s] \/ Coming(s, n)'
  BY DEF Hears
<1>1. Alive(s) /\ losses = MaxLosses /\ ~YetToList(s)
  BY DEF Onward, Losing, YetToList, NewsKept
<1>2. Listed(s) /\ \A n \in Znodes : Noticed(s, n) \/ n \in todo[s] \/ Coming(s, n)
  BY <1>1 DEF Hears
<1>3. Listed(s)'
  BY <1>2 DEF NewsKept
<1>4. ASSUME NEW n \in Znodes'
      PROVE  Noticed(s, n)' \/ n \in todo'[s] \/ Coming(s, n)'
  <2>1. n \in Node /\ Exists(n)'
    BY DEF Znodes
  <2>2. CASE Exists(n) => Noticed(s, n)
    BY <1>2, <2>1, <2>2 DEF NewsKept
  <2>3. CASE n \in todo[s] \/ Coming(s, n)
    BY <2>1, <2>3 DEF Onward
  <2>4. Exists(n) => n \in Znodes
    BY <2>1 DEF Znodes
  <2> QED
    BY <1>2, <2>2, <2>3, <2>4
<1> QED
  BY <1>3, <1>4

LEMMA OthersHear ==
  ASSUME NEW s \in Server, Elsewhere(s), Losing, \A q \in Server : Hears(q)
  PROVE  \A q \in Server \ {s} : Hears(q)'
<1> TAKE q \in Server \ {s}
<1>1. Onward(q)
  BY DEF Elsewhere, Onward, Alive, Coming, At
<1> QED
  BY <1>1, HearsKept DEF Elsewhere

LEMMA SoundIInv ==
  ASSUME IInv, NEW s \in Server, Sound(s)
  PROVE  IInv'
  BY OthersHear DEF IInv, Sound

\* The ordinary step: of one thread, losing no news, moving on.
Regular(s, t, r) ==
  /\ Turn(s, t, r) /\ ZkOK' /\ UaOK' /\ TableOK' /\ FlagsOK' /\ BoundsOK'
  /\ \A q \in Server : NewsKept(q)
  /\ Losing
  /\ IF t = "main"
       THEN th[s]["main"].pc # "dead" /\ (th[s]["main"].pc \in {"start", "new"} => r.pc = "new")
       ELSE /\ th[s]["completion"].creating => r.creating
            /\ \A n \in Node : Exists(n)' /\ (n \in todo[s] \/ Coming(s, n)) =>
                 n \in todo'[s] \/ Coming(s, n)' \/ Noticed(s, n)'

LEMMA RegularSound ==
  ASSUME Inv, NEW s \in Server, NEW t \in Thread, NEW r, Regular(s, t, r)
  PROVE  Sound(s)
<1>1. /\ ThreadsOK' /\ th'[s][t] = r
      /\ \A u \in Thread : u # t => th'[s][u] = th[s][u]
      /\ \A q \in Server \ {s} : th'[q] = th[q] /\ todo'[q] = todo[q]
  BY TurnOK DEF Inv, Regular
<1>2. Inv'
  BY <1>1 DEF Inv, Regular
<1>3. Elsewhere(s)
  BY <1>1 DEF Elsewhere, Regular
<1>4. Onward(s)
  <2>1. CASE t = "main"
    <3>1. th'[s]["completion"] = th[s]["completion"] /\ todo' = todo
      BY <1>1, <2>1 DEF Thread, Regular, Turn
    <3> QED
      BY <1>1, <2>1, <3>1 DEF Onward, Regular, Alive, Coming, At
  <2>2. CASE t = "completion"
    <3>1. th'[s]["main"] = th[s]["main"]
      BY <1>1, <2>2 DEF Thread
    <3> QED
      BY <1>1, <2>2, <3>1 DEF Onward, Regular, Alive
  <2> QED
    BY <2>1, <2>2 DEF Thread
<1> QED
  BY <1>2, <1>3, <1>4, HearsKept DEF Sound, Regular

LEMMA SameRest ==
  ASSUME Inv
  PROVE  /\ UNCHANGED uaVars => UaOK'
         /\ UNCHANGED nodeMzxid => TableOK'
         /\ UNCHANGED flags => FlagsOK'
         /\ UNCHANGED <<requests, restarts>> /\ (Answered \/ Lost) => BoundsOK'
         /\ Answered \/ Lost => Losing
<1>1. /\ UNCHANGED uaVars => UaOK'
      /\ UNCHANGED nodeMzxid => TableOK'
      /\ UNCHANGED flags => FlagsOK'
  BY DEF Inv, UaOK, TableOK, FlagsOK, uaVars, flags
<1>2. losses \in 0..MaxLosses /\ MaxLosses \in Nat
  BY ConstantsOK DEF ConstantsOK, Inv, BoundsOK
<1>3. Answered \/ Lost => Losing /\ losses' \in 0..MaxLosses
  BY <1>2 DEF Answered, Lost, Losing
<1> QED
  BY <1>1, <1>3 DEF Inv, BoundsOK, requests

-----------------------------------------------------------------------------
(* Requests *)

LEMMA RequestOK ==
  ASSUME Inv, NEW s \in Server, NEW kind, Request(s, kind), NEW r,
         th' = [th EXCEPT ![s]["main"] = r], HandOK(r), UaOK'
  PROVE  Sound(s)
<1>1. ZkOK' /\ \A q \in Server : NewsKept(q)
  BY SameZk DEF Inv, Request
<1>2. BoundsOK' /\ Losing
  BY DEF Inv, BoundsOK, Request, Losing
<1>3. todo' = todo /\ th[s]["main"].pc = "idle" /\ UNCHANGED nodeMzxid /\ UNCHANGED flags
  BY DEF Request, At
<1>4. Turn(s, "main", r)
  BY <1>3 DEF Turn, Inv, ThreadsOK
<1>5. Regular(s, "main", r)
  BY <1>1, <1>2, <1>3, <1>4, SameRest DEF Regular
<1> QED
  BY <1>5, RegularSound DEF Thread

LEMMA RequestStepSound ==
  ASSUME Inv, NEW s \in Server, RequestStep(s)
  PROVE  Sound(s)
<1>1. Number \in Nat /\ Number \in Value
  BY DEF Number, Inv, BoundsOK, Value
<1>2. ASSUME NEW n \in Node
      PROVE  /\ HandOK([Idle EXCEPT !.pc = "readBack", !.node = n, !.request = Number])
             /\ HandOK([Idle EXCEPT !.pc = "zkDelete", !.node = n])
             /\ HandOK([Idle EXCEPT !.pc = "deleteLocal", !.node = n])
             /\ \A p \in Pack : HandOK([Idle EXCEPT !.pc = "addGet", !.node = n, !.pack = p])
  BY <1>1, PackValues DEF HandOK, Idle, ThreadState, PC, Without
<1>3. PICK n \in Node : Write(s, n) \/ AddNode(s, n) \/ DeleteNode(s, n)
  BY DEF RequestStep
<1>4. CASE Write(s, n)
  <2>1. PICK kind \in {"write", "update"} : Write(s, n)!(kind)
    BY <1>4, Zenon DEF Write
  <2>2. UaOK'
    BY <1>1, <2>1 DEF Inv, UaOK
  <2>3. CASE UNCHANGED th
    <3>1. th' = [th EXCEPT ![s]["main"] = th[s]["main"]] /\ HandOK(th[s]["main"])
      BY <2>3 DEF Inv, ThreadsOK, Thread
    <3> QED
      BY <2>1, <2>2, <3>1, RequestOK
  <2>4. CASE Become(s, "main", [Idle EXCEPT !.pc = "readBack", !.node = n, !.request = Number])
    <3> DEFINE r == [Idle EXCEPT !.pc = "readBack", !.node = n, !.request = Number]
    <3>2. HandOK(r) /\ th' = [th EXCEPT ![s]["main"] = r]
      BY <1>2, <2>4 DEF Become
    <3> HIDE DEF r
    <3> QED
      BY <2>1, <2>2, <3>2, RequestOK
  <2> QED
    BY <2>1, <2>3, <2>4
<1>5. CASE AddNode(s, n)
  <2> DEFINE item == [val |-> Number, parented |-> TRUE]
             r == [Idle EXCEPT !.pc = "addGet", !.node = n, !.pack = item]
  <2>1. Request(s, "add") /\ AddLocally(s, n, item) /\ th' = [th EXCEPT ![s]["main"] = r]
    BY <1>5 DEF AddNode, Become
  <2>2. item \in Pack
    BY <1>1, PackValues
  <2>4. HandOK(r)
    BY <1>2, <2>2
  <2> HIDE DEF item, r
  <2>5. UaOK'
    BY <2>1, <2>2, AddLocallyOK DEF Inv
  <2> QED
    BY <2>1, <2>4, <2>5, RequestOK
<1>6. CASE DeleteNode(s, n)
  <2> DEFINE l == IF replicateNode[s] THEN "zkDelete" ELSE "deleteLocal"
             r == [Idle EXCEPT !.pc = l, !.node = n]
  <2>1. Request(s, "delete") /\ UNCHANGED uaVars /\ th' = [th EXCEPT ![s]["main"] = r]
    BY <1>6 DEF DeleteNode, Become
  <2>3. HandOK(r)
    BY <1>2
  <2> HIDE DEF r
  <2> QED
    BY <2>1, <2>3, SameRest, RequestOK
<1> QED
  BY <1>3, <1>4, <1>5, <1>6

-----------------------------------------------------------------------------
(* The main thread *)

LEMMA ZkDeleteSound ==
  ASSUME Inv, NEW s \in Server, ZkDelete(s)
  PROVE  Sound(s)
<1> DEFINE n == th[s]["main"].node
<1>1. /\ th[s]["main"].pc = "zkDelete" /\ th[s]["main"] \in ThreadState /\ n \in Node
      /\ todo' = todo
  BY DEF ZkDelete, At, Inv, ThreadsOK, HandOK, Without, Thread
<1>2. ZkOK' /\ \A q \in Server : NewsKept(q)
  <2>1. DeleteZnode(n) \/ UNCHANGED zkVars
    BY DEF ZkDelete
  <2> QED
    BY <1>1, <2>1, SameZk, ChangeOK, PackValues DEF Inv, Change
<1>3. PICK r \in {Idle, [th[s]["main"] EXCEPT !.pc = "deleteLocal"]} :
        th' = [th EXCEPT ![s]["main"] = r]
  BY DEF ZkDelete, Become, Goto
<1>4. HandOK(r)
  <2>1. HandOK(Idle)
    BY PackValues DEF HandOK, Idle, ThreadState, PC, Without
  <2>2. HandOK([th[s]["main"] EXCEPT !.pc = "deleteLocal"])
    BY <1>1 DEF HandOK, ThreadState, PC, Without
  <2> QED
    BY <1>3, <2>1, <2>2
<1>5. Turn(s, "main", r)
  BY <1>1, <1>3, <1>4 DEF Turn, Inv, ThreadsOK
<1>6. /\ UNCHANGED <<uaVars, nodeMzxid, flags>> /\ UNCHANGED <<requests, restarts>>
      /\ Answered \/ Lost
  BY DEF ZkDelete
<1>7. Regular(s, "main", r)
  BY <1>1, <1>2, <1>5, <1>6, SameRest DEF Regular
<1> QED
  BY <1>7, RegularSound DEF Thread

LEMMA DeleteLocalSound ==
  ASSUME Inv, NEW s \in Server, DeleteLocal(s)
  PROVE  Sound(s)
<1>1. /\ th[s]["main"].pc = "deleteLocal" /\ th[s]["main"].node \in Node
      /\ th' = [th EXCEPT ![s]["main"] = Idle] /\ todo' = todo
  BY DEF DeleteLocal, Become, At, Inv, ThreadsOK, HandOK, Without, Thread
<1>2. HandOK(Idle)
  BY DEF HandOK, Idle, ThreadState, PC, Pack, Value, Blank, Without
<1>3. Turn(s, "main", Idle)
  BY <1>1, <1>2 DEF Turn, Inv, ThreadsOK
<1>4. /\ UNCHANGED <<zkVars, nodeMzxid, flags>> /\ UNCHANGED <<requests, restarts>>
      /\ Answered
  BY DEF DeleteLocal, bounds, Answered
<1>5. UaOK'
  BY <1>1, DeleteLocallyOK DEF DeleteLocal, Inv
<1>6. ZkOK' /\ \A q \in Server : NewsKept(q)
  BY <1>4, SameZk DEF Inv
<1>7. Regular(s, "main", Idle)
  BY <1>1, <1>3, <1>4, <1>5, <1>6, SameRest DEF Regular
<1> QED
  BY <1>7, RegularSound DEF Thread

LEMMA ReadBackSound ==
  ASSUME Inv, NEW s \in Server, ReadBack(s)
  PROVE  Sound(s)
<1> DEFINE n == th[s]["main"].node
           found == IF Stored(s, n) THEN [val |-> store[s][n], parented |-> Browsable(s, n)]
                    ELSE Blank
<1>1. /\ th[s]["main"].pc = "readBack" /\ th[s]["main"] \in ThreadState /\ n \in Node
      /\ todo' = todo
  BY DEF ReadBack, At, Inv, ThreadsOK, HandOK, Without, Thread
<1>2. found \in Pack
  <2>1. Browsable(s, n) \in BOOLEAN
    BY DEF Browsable
  <2>2. store[s][n] \in Value
    <3>1. store \in [Server -> [Node -> Value]]
      BY DEF Inv, UaOK
    <3>2. n \in Node
      BY <1>1
    <3> HIDE DEF found, n
    <3> QED
      BY <3>1, <3>2
  <2> QED
    BY <2>1, <2>2, PackValues
<1>3. [found EXCEPT !.val = Unread] \in Pack
  BY <1>2 DEF Pack, Value, Unread
<1>4. PICK p \in Pack : th' = [th EXCEPT ![s]["main"].pc = "exists", ![s]["main"].pack = p]
  <2> HIDE DEF found
  <2>1. Blank \in Pack
    BY PackValues
  <2> QED
    BY <1>2, <1>3, <2>1 DEF ReadBack, found
<1> DEFINE r == [th[s]["main"] EXCEPT !.pc = "exists", !.pack = p]
<1>5. th' = [th EXCEPT ![s]["main"] = r]
  <2>1. th \in [Server -> [Thread -> ThreadState]] /\ "main" \in Thread
    BY DEF Inv, ThreadsOK, Thread
  <2> QED
    BY <1>4, <2>1
<1>7. Moved(r, s, "main")
  BY <1>1 DEF Moved, ThreadState, PC, Without
<1> HIDE DEF r
<1>8. Turn(s, "main", r)
  BY <1>1, <1>5, <1>7, MovedOK DEF Inv, Thread
<1>9. /\ UNCHANGED <<zkVars, uaVars, nodeMzxid, flags>> /\ UNCHANGED <<requests, restarts>>
      /\ Answered \/ Lost
  BY DEF ReadBack
<1>10. ZkOK' /\ \A q \in Server : NewsKept(q)
  BY <1>9, SameZk DEF Inv
<1>11. Regular(s, "main", r)
  BY <1>1, <1>8, <1>9, <1>10, SameRest DEF Regular
<1> QED
  BY <1>11, RegularSound DEF Thread

-----------------------------------------------------------------------------
(* The process of a server starts and ends *)

LEMMA GoneSound ==
  ASSUME Inv, NEW s \in Server, Gone(s), UaOK', TableOK', FlagsOK', BoundsOK', Losing
  PROVE  Sound(s)
<1>1. ZkOK' /\ \A q \in Server \ {s} : NewsKept(q)
  BY LeaveOK DEF Gone, Inv
<1>2. /\ th' = [th EXCEPT ![s] = [t \in Thread |-> Dead]] /\ todo' = [todo EXCEPT ![s] = {}]
      /\ th \in [Server -> [Thread -> ThreadState]] /\ todo \in [Server -> SUBSET Node]
  BY DEF Gone, Inv, ThreadsOK
<1>3. HandOK(Dead) /\ CopierOK(Dead, {}) /\ Dead \in ThreadState /\ Dead.pc = "dead"
  BY PackValues DEF HandOK, CopierOK, Dead, Idle, ThreadState, PC, Without
<1>4. /\ \A t \in Thread : th'[s][t] = Dead
      /\ todo'[s] = {}
      /\ \A q \in Server \ {s} : th'[q] = th[q] /\ todo'[q] = todo[q]
      /\ th' \in [Server -> [Thread -> ThreadState]] /\ todo' \in [Server -> SUBSET Node]
  BY <1>2, <1>3
<1>5. ThreadsOK'
  <2>1. "completion" \in Thread
    BY DEF Thread
  <2>2. ASSUME NEW q \in Server
        PROVE  /\ \A t \in Thread : HandOK(th'[q][t])
               /\ CopierOK(th'[q]["completion"], todo'[q])
    <3>1. CASE q = s
      BY <1>3, <1>4, <2>1, <3>1
    <3>2. CASE q # s
      BY <1>4, <3>2 DEF Inv, ThreadsOK
    <3> QED
      BY <3>1, <3>2
  <2> QED
    BY <1>4, <2>2 DEF ThreadsOK
<1>6. Hears(s)'
  BY <1>3, <1>4 DEF Hears, Alive, Thread
<1> QED
  BY <1>1, <1>4, <1>5, <1>6 DEF Sound, Inv, Elsewhere

LEMMA StartSound ==
  ASSUME Inv, NEW s \in Server, Start(s)
  PROVE  Sound(s)
<1>1. /\ th[s]["main"].pc = "start" /\ th[s]["main"] \in ThreadState
      /\ UNCHANGED <<uaVars, nodeMzxid, replicateNode>> /\ UNCHANGED <<requests, restarts>>
      /\ Answered \/ Lost
  BY DEF Start, At, Inv, ThreadsOK, Thread
<1>2. FlagsOK'
  <2>1. (ns0 \/ Znodes # {}) \in BOOLEAN
    OBVIOUS
  <2> QED
    BY <1>1, <2>1 DEF Start, Inv, FlagsOK
<1>3. CASE Lost /\ Gone(s)
  BY <1>1, <1>2, <1>3, SameRest, GoneSound
<1>4. CASE Goto(s, "main", "new") /\ UNCHANGED <<zkVars, todo>>
  <2> DEFINE r == [th[s]["main"] EXCEPT !.pc = "new"]
  <2>1. th' = [th EXCEPT ![s]["main"] = r]
    BY <1>4 DEF Goto
  <2>2. HandOK(r) /\ r.pc = "new"
    BY <1>1 DEF HandOK, ThreadState, PC, Without
  <2> HIDE DEF r
  <2>3. Turn(s, "main", r)
    BY <1>4, <2>1, <2>2 DEF Turn, Inv, ThreadsOK
  <2>4. ZkOK' /\ \A q \in Server : NewsKept(q)
    BY <1>4, SameZk DEF Inv
  <2>5. Regular(s, "main", r)
    BY <1>1, <1>2, <2>2, <2>3, <2>4, SameRest DEF Regular
  <2> QED
    BY <2>5, RegularSound DEF Thread
<1> QED
  BY <1>3, <1>4 DEF Start

LEMMA NewServerSound ==
  ASSUME Inv, NEW s \in Server, NewServer(s)
  PROVE  Sound(s)
<1>1. /\ th[s]["main"].pc = "new" /\ th[s]["main"] \in ThreadState
      /\ th \in [Server -> [Thread -> ThreadState]] /\ todo' = todo
      /\ UNCHANGED <<uaVars, nodeMzxid, flags>> /\ UNCHANGED <<requests, restarts>>
      /\ Answered \/ Lost
      /\ ns0' = TRUE /\ UNCHANGED <<znode, zxid, dataWatch, childWatch>>
  BY DEF NewServer, At, Inv, ThreadsOK, Thread
<1>2. /\ UaOK' /\ TableOK' /\ FlagsOK' /\ BoundsOK' /\ Losing
  BY <1>1, SameRest
<1>3. queue[s] \in Seq(Events) /\ queue \in [Server -> Seq(Events)]
  BY DEF Inv, ZkOK
<1>4. CASE Answered /\ queue' = [queue EXCEPT ![s] = Append(@, Event("start", {}))]
           /\ Goto(s, "main", "idle")
  <2> DEFINE e == Event("start", {})
             r == [th[s]["main"] EXCEPT !.pc = "idle"]
  <2>1. e \in Events /\ e.kind = "start"
    BY DEF Event, Events
  <2>2. queue' = [queue EXCEPT ![s] = Append(queue[s], e)] /\ queue'[s] = Append(queue[s], e)
    BY <1>3, <1>4
  <2> HIDE DEF e
  <2>3. /\ Append(queue[s], e) \in Seq(Events)
        /\ Elements(Append(queue[s], e)) = Elements(queue[s]) \cup {e}
    BY <1>3, <2>1, ElementsAppend
  <2>4. Requeued(s, Append(queue[s], e), e)
    BY <1>1, <2>1, <2>2, <2>3 DEF Requeued, Inv, ZkOK
  <2>5. ZkOK' /\ \A q \in Server \ {s} : NewsKept(q)
    BY <2>4, QueueOK DEF Inv
  <2>6. HandOK(r)
    BY <1>1 DEF HandOK, ThreadState, PC, Without
  <2>7. th' = [th EXCEPT ![s]["main"] = r]
    BY <1>4 DEF Goto
  <2> HIDE DEF r
  <2>8. Turn(s, "main", r)
    BY <1>1, <2>6, <2>7 DEF Turn, Inv, ThreadsOK
  <2>9. ThreadsOK' /\ \A q \in Server \ {s} : th'[q] = th[q] /\ todo'[q] = todo[q]
    BY <2>8, TurnOK DEF Inv, Thread
  <2>10. e \in Queued(s, "start")'
    BY <2>1, <2>2, <2>3, QueuedElementsNext
  <2>11. Hears(s)'
    BY <2>10 DEF Hears, YetToList
  <2> QED
    BY <1>2, <2>5, <2>9, <2>11 DEF Sound, Inv, Elsewhere
<1>5. CASE /\ Lost /\ UNCHANGED queue
           /\ th' = [th EXCEPT ![s]["main"] = Idle, ![s]["completion"] = Dead]
  <2>1. /\ th'[s]["main"] = Idle /\ th'[s]["completion"] = Dead
        /\ \A q \in Server \ {s} : th'[q] = th[q]
    BY <1>1, <1>5 DEF Thread
  <2>2. HandOK(Idle) /\ HandOK(Dead) /\ CopierOK(Dead, todo[s])
    BY PackValues DEF HandOK, CopierOK, Dead, Idle, ThreadState, PC, Without
  <2>3. Idle \in ThreadState /\ Dead \in ThreadState
    BY <2>2 DEF HandOK
  <2>4. th' \in [Server -> [Thread -> ThreadState]]
    BY <1>1, <1>5, <2>3 DEF Thread
  <2>5. ThreadsOK'
    <3>1. ASSUME NEW q \in Server
          PROVE  /\ \A t \in Thread : HandOK(th'[q][t])
                 /\ CopierOK(th'[q]["completion"], todo'[q])
      <4>1. CASE q = s
        BY <1>1, <2>1, <2>2, <4>1 DEF Thread
      <4>2. CASE q # s
        BY <1>1, <2>1, <4>2 DEF Inv, ThreadsOK
      <4> QED
        BY <4>1, <4>2
    <3> QED
      BY <1>1, <2>4, <3>1 DEF Inv, ThreadsOK
  <2>6. ZkOK' /\ \A q \in Server : NewsKept(q)
    <3>1. \A q \in Server : NewsKept(q) /\ Queued(q, "changed")' = Queued(q, "changed")
      BY <1>1, <1>5, SameNews DEF Queued
    <3>2. ZkOK'
      BY <1>1, <1>5, <3>1 DEF Inv, ZkOK, Exists
    <3> QED
      BY <3>1, <3>2
  <2>7. losses' # MaxLosses
    <3>1. losses \in 0..MaxLosses /\ MaxLosses \in Nat
      BY ConstantsOK DEF ConstantsOK, Inv, BoundsOK
    <3> QED
      BY <1>5, <3>1 DEF Lost
  <2>8. Hears(s)'
    BY <2>7 DEF Hears
  <2> QED
    BY <1>1, <1>2, <2>1, <2>5, <2>6, <2>8 DEF Sound, Inv, Elsewhere
<1> QED
  BY <1>4, <1>5 DEF NewServer

LEMMA RestartSound ==
  ASSUME Inv, NEW s \in Server, Restart(s)
  PROVE  Sound(s)
<1>1. ZkOK' /\ \A q \in Server \ {s} : NewsKept(q)
  BY LeaveOK DEF Restart, Inv
<1>2. /\ th' = [th EXCEPT ![s] = Started] /\ todo' = [todo EXCEPT ![s] = {}]
      /\ th \in [Server -> [Thread -> ThreadState]] /\ todo \in [Server -> SUBSET Node]
  BY DEF Restart, Inv, ThreadsOK
<1>3. /\ \A t \in Thread : HandOK(Started[t])
      /\ CopierOK(Started["completion"], {}) /\ Started \in [Thread -> ThreadState]
      /\ Started["main"].pc = "start"
  BY PackValues DEF HandOK, CopierOK, Started, Idle, ThreadState, PC, Without, Thread
<1>4. /\ th'[s] = Started /\ todo'[s] = {}
      /\ \A q \in Server \ {s} : th'[q] = th[q] /\ todo'[q] = todo[q]
      /\ th' \in [Server -> [Thread -> ThreadState]] /\ todo' \in [Server -> SUBSET Node]
  BY <1>2, <1>3
<1>5. ThreadsOK'
  <2>1. ASSUME NEW q \in Server
        PROVE  /\ \A t \in Thread : HandOK(th'[q][t])
               /\ CopierOK(th'[q]["completion"], todo'[q])
    <3>1. CASE q = s
      BY <1>3, <1>4, <3>1
    <3>2. CASE q # s
      BY <1>4, <3>2 DEF Inv, ThreadsOK
    <3> QED
      BY <3>1, <3>2
  <2> QED
    BY <1>4, <2>1 DEF ThreadsOK
<1>6. UaOK' /\ TableOK' /\ FlagsOK'
  BY DEF Restart, Inv, UaOK, TableOK, FlagsOK, Value
<1>7. BoundsOK' /\ Losing
  BY DEF Restart, Inv, BoundsOK, requests, Losing
<1>8. Hears(s)'
  BY <1>3, <1>4 DEF Hears, YetToList
<1> QED
  BY <1>1, <1>4, <1>5, <1>6, <1>7, <1>8 DEF Sound, Inv, Elsewhere

-----------------------------------------------------------------------------
(* The push, on either thread *)

\* A thread at work on a node takes a step and forgets nothing.
Works(s, t, r) ==
  /\ th[s][t].pc \notin Without \cup {"get"}
  /\ Turn(s, t, r)
  /\ t = "completion" => Carried(s) /\ (th[s][t].creating => r.creating)

LEMMA WorksSound ==
  ASSUME Inv, NEW s \in Server, NEW t \in Thread, NEW r, Works(s, t, r),
         ZkOK', \A q \in Server : NewsKept(q), UaOK', TableOK', FlagsOK', BoundsOK', Losing
  PROVE  Sound(s)
<1>1. t = "completion" =>
        \A n \in Node : n \in todo[s] \/ Coming(s, n) => n \in todo'[s] \/ Coming(s, n)'
  BY DEF Works, Carried, Coming, At
<1>2. Regular(s, t, r)
  BY <1>1 DEF Regular, Works, Without, Thread
<1> QED
  BY <1>2, RegularSound

LEMMA MovedWorks ==
  ASSUME Inv, NEW s \in Server, NEW t \in Thread, NEW r, Moved(r, s, t),
         th[s][t].pc # "get", th' = [th EXCEPT ![s][t] = r], UNCHANGED todo
  PROVE  Works(s, t, r)
<1>1. Turn(s, t, r) /\ (t = "completion" => Carried(s))
  BY MovedOK DEF Inv
<1> QED
  BY <1>1 DEF Works, Moved

LEMMA ReturnWorks ==
  ASSUME Inv, NEW s \in Server, NEW t \in Thread, Return(s, t),
         th[s][t].pc \notin Without \cup {"get"}
  PROVE  \E r : Works(s, t, r)
<1>1. PICK r : /\ Turn(s, t, r)
               /\ t = "completion" => Carried(s) /\ r.creating = th[s][t].creating
  BY ReturnOK DEF Inv
<1>2. Works(s, t, r)
  BY <1>1 DEF Works
<1> QED
  BY <1>2

\* The steps that only go on to another call.
LEMMA GotoWorks ==
  ASSUME Inv, NEW s \in Server, NEW t \in Thread,
         th[s][t].pc \in {"addGet", "addCheck", "exists", "set", "create", "stat"},
         NEW l \in {"addCheck", "exists", "set", "create", "stat", "record"},
         NEW v \in Nat,
         \/ Goto(s, t, l)
         \/ th' = [th EXCEPT ![s][t].pc = l, ![s][t].ver = v],
         UNCHANGED todo
  PROVE  \E r : Works(s, t, r)
<1>1. /\ th[s][t] \in ThreadState /\ th \in [Server -> [Thread -> ThreadState]]
      /\ t = "completion" /\ th[s][t].creating => ~th[s][t].again
  BY DEF Inv, ThreadsOK, CopierOK
<1>2. CASE Goto(s, t, l)
  <2> DEFINE r == [th[s][t] EXCEPT !.pc = l]
  <2>1. Moved(r, s, t)
    BY <1>1 DEF Moved, ThreadState, PC, Without
  <2>2. th' = [th EXCEPT ![s][t] = r]
    BY <1>2 DEF Goto
  <2> HIDE DEF r
  <2> QED
    BY <2>1, <2>2, MovedWorks
<1>3. CASE th' = [th EXCEPT ![s][t].pc = l, ![s][t].ver = v]
  <2> DEFINE r == [th[s][t] EXCEPT !.pc = l, !.ver = v]
  <2>1. Moved(r, s, t)
    BY <1>1 DEF Moved, ThreadState, PC, Without
  <2>2. th' = [th EXCEPT ![s][t] = r]
    BY <1>1, <1>3
  <2> HIDE DEF r
  <2> QED
    BY <2>1, <2>2, MovedWorks
<1> QED
  BY <1>2, <1>3

LEMMA PushStepSound ==
  ASSUME Inv, NEW s \in Server, NEW t \in Thread, PushStep(s, t)
  PROVE  Sound(s)
<1> DEFINE n == th[s][t].node
           z == znode[n].mzxid
<1>1. /\ th[s][t].pc \in {"addGet", "addCheck", "exists", "set", "create", "stat", "record"}
      /\ UNCHANGED uaVars /\ UNCHANGED flags
      /\ UNCHANGED <<requests, restarts>> /\ (Answered \/ Lost)
  BY DEF PushStep, AddGet, AddCheck, ReplicateNode, Set, Create, Stat, Record, At, bounds, Answered
<1>2. UaOK' /\ FlagsOK' /\ BoundsOK' /\ Losing
  BY <1>1, SameRest
<1>3. /\ th[s][t] \in ThreadState /\ n \in Node /\ th[s][t].pack \in Pack /\ th[s][t].ver \in Nat
  BY <1>1 DEF Inv, ThreadsOK, HandOK, Without, ThreadState
<1>4. z \in Nat /\ zxid \in Nat
  BY <1>3 DEF Inv, ZkOK
<1>5. CASE (\E r : Works(s, t, r)) /\ ZkOK' /\ (\A q \in Server : NewsKept(q)) /\ TableOK'
  BY <1>2, <1>5, WorksSound
<1>6. UNCHANGED zkVars => ZkOK' /\ \A q \in Server : NewsKept(q)
  BY SameZk DEF Inv
<1>7. UNCHANGED nodeMzxid => TableOK'
  BY SameRest
<1>8. CASE AddGet(s, t)
  <2> HIDE DEF n
  <2>1. CASE Exists(n) /\ Watch(s, n) /\ UNCHANGED todo
             /\ th' = [th EXCEPT ![s][t].pc = "addCheck", ![s][t].ver = z]
    <3>1. ZkOK' /\ \A q \in Server : NewsKept(q)
      BY <1>3, <2>1, WatchOK DEF Inv
    <3>2. \E r : Works(s, t, r)
      BY <1>1, <1>4, <1>8, <2>1, GotoWorks DEF AddGet, At
    <3> QED
      BY <1>5, <1>7, <1>8, <3>1, <3>2 DEF AddGet
  <2>2. CASE Goto(s, t, "exists") /\ UNCHANGED <<zkVars, todo>>
    <3>1. \E r : Works(s, t, r)
      BY <1>1, <1>4, <1>8, <2>2, GotoWorks DEF AddGet, At
    <3> QED
      BY <1>5, <1>6, <1>7, <1>8, <2>2, <3>1 DEF AddGet
  <2>3. CASE Return(s, t) /\ UNCHANGED zkVars
    <3>1. \E r : Works(s, t, r)
      BY <1>1, <2>3, ReturnWorks DEF Without
    <3> QED
      BY <1>5, <1>6, <1>7, <1>8, <2>3, <3>1 DEF AddGet
  <2> QED
    BY <1>8, <2>1, <2>2, <2>3 DEF AddGet, n
<1>9. CASE AddCheck(s, t)
  <2>1. CASE Return(s, t) /\ UNCHANGED zkVars
    <3>1. \E r : Works(s, t, r)
      BY <1>1, <2>1, ReturnWorks DEF Without
    <3> QED
      BY <1>5, <1>6, <1>7, <1>9, <2>1, <3>1 DEF AddCheck
  <2>2. CASE Gone(s)
    BY <1>2, <1>7, <1>9, <2>2, GoneSound DEF AddCheck
  <2>3. CASE Goto(s, t, "exists") /\ UNCHANGED <<zkVars, todo>>
    <3>1. \E r : Works(s, t, r)
      BY <1>1, <1>4, <1>9, <2>3, GotoWorks DEF AddCheck, At
    <3> QED
      BY <1>5, <1>6, <1>7, <1>9, <2>3, <3>1 DEF AddCheck
  <2> QED
    BY <1>9, <2>1, <2>2, <2>3 DEF AddCheck
<1>10. CASE ReplicateNode(s, t)
  <2>1. Return(s, t) => \E r : Works(s, t, r)
    BY <1>1, ReturnWorks DEF Without
  <2>2. ~Return(s, t) => \E r : Works(s, t, r)
    BY <1>1, <1>4, <1>10, GotoWorks DEF ReplicateNode, At
  <2> QED
    BY <1>5, <1>6, <1>7, <1>10, <2>1, <2>2 DEF ReplicateNode
<1>11. CASE Set(s, t)
  <2>1. SetZnode(n, th[s][t].pack) \/ UNCHANGED zkVars
    BY <1>11 DEF Set
  <2>2. ZkOK' /\ \A q \in Server : NewsKept(q)
    BY <1>3, <1>6, <2>1, ChangeOK DEF Change, Inv
  <2>3. zxid' \in Nat
    BY <2>2 DEF ZkOK
  <2>4. \E r : Works(s, t, r)
    BY <1>1, <1>11, <2>3, GotoWorks DEF Set, At
  <2> QED
    BY <1>5, <1>7, <1>11, <2>2, <2>4 DEF Set
<1>12. CASE Create(s, t)
  <2>1. CreateZnode(n, th[s][t].pack) \/ UNCHANGED zkVars
    BY <1>12 DEF Create
  <2>2. ZkOK' /\ \A q \in Server : NewsKept(q)
    BY <1>3, <1>6, <2>1, ChangeOK DEF Change, Inv
  <2>3. \E r : Works(s, t, r)
    BY <1>1, <1>4, <1>12, GotoWorks DEF Create, At
  <2> QED
    BY <1>5, <1>7, <1>12, <2>2, <2>3 DEF Create
<1>13. CASE Stat(s, t)
  <2>1. PICK v \in Nat : th' = [th EXCEPT ![s][t].pc = "record", ![s][t].ver = v]
    BY <1>4, <1>13, ConstantsOK DEF ConstantsOK, Stat
  <2>2. \E r : Works(s, t, r)
    BY <1>1, <1>13, <2>1, GotoWorks DEF Stat, At
  <2> QED
    BY <1>5, <1>6, <1>7, <1>13, <2>2 DEF Stat
<1>14. CASE Record(s, t)
  <2>1. Return(s, t)
    BY <1>14 DEF Record
  <2>2. \E r : Works(s, t, r)
    BY <1>1, <2>1, ReturnWorks DEF Without
  <2>3. TableOK'
    BY <1>3, <1>14 DEF Record, Inv, TableOK
  <2> QED
    BY <1>5, <1>6, <1>14, <2>2, <2>3 DEF Record
<1> QED
  BY <1>8, <1>9, <1>10, <1>11, <1>12, <1>13, <1>14 DEF PushStep

-----------------------------------------------------------------------------
(* The completion thread: events *)

\* An event is off the queue; unless it was the one of the list, or of n, the
\* rest of what s knew is still there.
LEMMA TakenEvent ==
  ASSUME Inv, NEW s \in Server, queue[s] # <<>>,
         queue' = [queue EXCEPT ![s] = Tail(@)],
         UNCHANGED <<znode, ns0, zxid, dataWatch, childWatch>>
  PROVE  /\ ZkOK' /\ \A q \in Server \ {s} : NewsKept(q)
         /\ Head(queue[s]) \in Events
         /\ \A kind : Queued(s, kind) \subseteq {Head(queue[s])} \cup Queued(s, kind)'
         /\ \A kind : Head(queue[s]).kind # kind => Queued(s, kind)' = Queued(s, kind)
         /\ \A kind : Queued(s, kind)' \subseteq Queued(s, kind)
         /\ \A n \in Node : Exists(n)' = Exists(n)
<1>1. /\ ZkOK' /\ \A q \in Server \ {s} : NewsKept(q)
      /\ Elements(queue[s]) = {Head(queue[s])} \cup Elements(queue'[s])
  BY TailOK DEF Inv
<1>2. queue[s] \in Seq(Events)
  BY DEF Inv, ZkOK
<1>3. Head(queue[s]) \in Events
  BY <1>2, ElementsTail
<1>4. ASSUME NEW kind
      PROVE  /\ Queued(s, kind) = {e \in Elements(queue[s]) : e.kind = kind}
             /\ Queued(s, kind)' = {e \in Elements(queue'[s]) : e.kind = kind}
  BY QueuedElements, QueuedElementsNext
<1>5. ASSUME NEW kind
      PROVE  /\ Queued(s, kind) \subseteq {Head(queue[s])} \cup Queued(s, kind)'
             /\ Head(queue[s]).kind # kind => Queued(s, kind)' = Queued(s, kind)
             /\ Queued(s, kind)' \subseteq Queued(s, kind)
  BY <1>1, <1>4
<1>6. \A n \in Node : Exists(n)' = Exists(n)
  BY DEF Exists
<1> QED
  BY <1>1, <1>3, <1>5, <1>6

\* The completion thread's step, with the rest as it was.
Step(s, r) ==
  /\ Turn(s, "completion", r)
  /\ ZkOK' /\ \A q \in Server \ {s} : NewsKept(q)
  /\ UaOK' /\ TableOK' /\ FlagsOK' /\ BoundsOK' /\ Losing

LEMMA StepSound ==
  ASSUME Inv, NEW s \in Server, NEW r, Step(s, r), Hears(s) => Hears(s)'
  PROVE  Sound(s)
<1>1. ThreadsOK' /\ \A q \in Server \ {s} : th'[q] = th[q] /\ todo'[q] = todo[q]
  BY TurnOK DEF Inv, Step, Thread
<1> QED
  BY <1>1 DEF Sound, Inv, Elsewhere, Step

\* What becomes of the thread when an event is taken while it is idle.
LEMMA IdleTurn ==
  ASSUME Inv, NEW s \in Server, At(s, "completion", "idle")
  PROVE  /\ todo[s] = {} /\ ~th[s]["completion"].creating
         /\ UNCHANGED <<th, todo>> => Turn(s, "completion", th[s]["completion"])
         /\ \A n \in Node : ~Coming(s, n)
<1>1. /\ HandOK(th[s]["completion"]) /\ CopierOK(th[s]["completion"], todo[s])
      /\ th \in [Server -> [Thread -> ThreadState]] /\ todo \in [Server -> SUBSET Node]
  BY DEF Inv, ThreadsOK, Thread
<1>2. UNCHANGED <<th, todo>> => Turn(s, "completion", th[s]["completion"])
  BY <1>1 DEF Turn
<1> QED
  BY <1>1, <1>2 DEF CopierOK, At, Coming

LEMMA ListedAnew ==
  ASSUME Inv, NEW s \in Server, queue[s] # <<>>, ListChildren(s, Tail(queue[s])),
         UNCHANGED <<th, todo>>
  PROVE  ZkOK' /\ (\A q \in Server \ {s} : NewsKept(q)) /\ Hears(s)'
<1>1. queue[s] \in Seq(Events)
  BY DEF Inv, ZkOK
<1>2. Tail(queue[s]) \in Seq(Events) /\ Elements(Tail(queue[s])) \subseteq Elements(queue[s])
  BY <1>1, ElementsTail
<1>3. /\ ZkOK' /\ \A q \in Server \ {s} : NewsKept(q)
      /\ s \in childWatch' /\ \A n \in Znodes' : Noticed(s, n)'
  BY <1>2, ListOK DEF Inv
<1> QED
  BY <1>3 DEF Hears, Listed

LEMMA LostVacuous ==
  ASSUME Inv, NEW s \in Server, Lost
  PROVE  Hears(s)'
<1>1. losses \in 0..MaxLosses /\ MaxLosses \in Nat
  BY ConstantsOK DEF ConstantsOK, Inv, BoundsOK
<1> QED
  BY <1>1 DEF Lost, Hears

LEMMA DeliverSound ==
  ASSUME Inv, NEW s \in Server, Deliver(s)
  PROVE  Sound(s)
<1> DEFINE e == Head(queue[s])
<1>1. /\ At(s, "completion", "idle") /\ queue[s] # <<>>
      /\ UNCHANGED nodeMzxid /\ UNCHANGED <<requests, restarts>>
      /\ th \in [Server -> [Thread -> ThreadState]] /\ todo \in [Server -> SUBSET Node]
  BY DEF Deliver, Inv, ThreadsOK
<1>2. /\ todo[s] = {} /\ ~th[s]["completion"].creating
      /\ UNCHANGED <<th, todo>> => Turn(s, "completion", th[s]["completion"])
      /\ \A n \in Node : ~Coming(s, n)
  BY <1>1, IdleTurn
<1>3. TableOK' /\ (Answered \/ Lost => BoundsOK' /\ Losing)
  BY <1>1, SameRest
<1>4. UNCHANGED losses => Answered
  BY DEF Answered
<1>5. CASE DeliverDeleted(s, e)
  <2>1. /\ e.kind = "deleted" /\ UNCHANGED <<th, todo>> /\ Answered
        /\ queue' = [queue EXCEPT ![s] = Tail(@)]
        /\ UNCHANGED <<znode, ns0, zxid, dataWatch, childWatch>>
        /\ replicateNode' = [replicateNode EXCEPT ![s] = FALSE] /\ UNCHANGED addressSpaceExists
    BY <1>4, <1>5 DEF DeliverDeleted
  <2>2. /\ ZkOK' /\ \A q \in Server \ {s} : NewsKept(q)
        /\ e \in Events
        /\ \A kind : e.kind # kind => Queued(s, kind)' = Queued(s, kind)
        /\ \A n \in Node : Exists(n)' = Exists(n)
    BY <1>1, <2>1, TakenEvent
  <2>3. UaOK'
    <3>1. PICK n \in e.nodes : DeleteLocally(s, n, TRUE)
      BY <1>5 DEF DeliverDeleted
    <3>2. n \in Node
      BY <2>2, <3>1 DEF Events
    <3> QED
      BY <3>1, <3>2, DeleteLocallyOK DEF Inv
  <2>4. FlagsOK'
    BY <2>1 DEF Inv, FlagsOK
  <2>5. Step(s, th[s]["completion"])
    BY <1>2, <1>3, <2>1, <2>2, <2>3, <2>4 DEF Step
  <2>6. NewsKept(s)
    BY <2>1, <2>2 DEF NewsKept, Listed, Noticed
  <2>7. Onward(s)
    BY <2>1 DEF Onward, Alive, Coming, At
  <2> QED
    BY <2>1, <2>5, <2>6, <2>7, <1>3, HearsKept, StepSound
<1>6. CASE DeliverChanged(s, e)
  <2>1. /\ e.kind = "changed" /\ UNCHANGED todo /\ Answered
        /\ queue' = [queue EXCEPT ![s] = Tail(@)]
        /\ UNCHANGED <<znode, ns0, zxid, dataWatch, childWatch>>
        /\ UNCHANGED uaVars /\ UNCHANGED flags
    BY <1>4, <1>6 DEF DeliverChanged
  <2>2. PICK n \in e.nodes : Become(s, "completion", [Idle EXCEPT !.pc = "get", !.node = n])
    BY <1>6 DEF DeliverChanged
  <2>3. /\ ZkOK' /\ \A q \in Server \ {s} : NewsKept(q)
        /\ e \in Events
        /\ \A kind : Queued(s, kind) \subseteq {e} \cup Queued(s, kind)'
        /\ \A kind : e.kind # kind => Queued(s, kind)' = Queued(s, kind)
        /\ \A m \in Node : Exists(m)' = Exists(m)
    BY <1>1, <2>1, TakenEvent
  <2>4. e.nodes = {n} /\ n \in Node
    <3>1. queue[s] \in Seq(Events)
      BY DEF Inv, ZkOK
    <3>2. e \in Elements(queue[s])
      BY <1>1, <3>1, ElementsTail
    <3>3. e \in Queued(s, "changed")
      BY <2>1, <3>2, QueuedElements
    <3>4. OfOne(e)
      BY <3>3 DEF Inv, ZkOK
    <3> QED
      BY <2>2, <3>4 DEF OfOne
  <2> DEFINE r == [Idle EXCEPT !.pc = "get", !.node = n]
  <2>5. HandOK(r) /\ CopierOK(r, todo'[s]) /\ r.pc = "get" /\ r.node = n
    BY <2>4, PackValues DEF HandOK, CopierOK, Idle, ThreadState, PC, Without
  <2>6. th' = [th EXCEPT ![s]["completion"] = r]
    BY <2>2 DEF Become
  <2> HIDE DEF r
  <2>7. Turn(s, "completion", r)
    BY <1>1, <2>1, <2>5, <2>6 DEF Turn
  <2>8. th'[s]["completion"] = r /\ th'[s]["main"] = th[s]["main"]
    BY <2>7, TurnOK DEF Inv, Thread
  <2>9. Step(s, r)
    BY <1>3, <2>1, <2>3, <2>7, SameRest DEF Step
  <2>10. Hears(s) => Hears(s)'
    <3> SUFFICES ASSUME Hears(s), Alive(s)', losses' = MaxLosses, ~YetToList(s)'
                 PROVE  /\ Listed(s)'
                        /\ \A m \in Znodes' : Noticed(s, m)' \/ m \in todo'[s] \/ Coming(s, m)'
      BY DEF Hears
    <3>1. Queued(s, "start")' = Queued(s, "start") /\ Queued(s, "child")' = Queued(s, "child")
          /\ Queued(s, "list")' = Queued(s, "list")
      BY <2>1, <2>3
    <3>2. Alive(s) /\ losses = MaxLosses /\ ~YetToList(s)
      BY <1>2, <1>3, <2>1, <2>8, <3>1 DEF Alive, YetToList, Losing
    <3>3. Listed(s) /\ \A m \in Znodes : Noticed(s, m) \/ m \in todo[s] \/ Coming(s, m)
      BY <3>2 DEF Hears
    <3>4. Listed(s)'
      BY <2>1, <3>1, <3>3 DEF Listed
    <3>5. ASSUME NEW m \in Znodes'
          PROVE  Noticed(s, m)' \/ Coming(s, m)'
      <4>1. m \in Znodes /\ m \in Node
        BY <2>3 DEF Znodes
      <4>2. Noticed(s, m)
        BY <1>2, <3>3, <4>1
      <4>3. CASE m = n
        BY <2>5, <2>8, <4>3 DEF Coming, At
      <4>4. CASE m # n
        BY <2>1, <2>3, <2>4, <3>1, <4>2, <4>4 DEF Noticed
      <4> QED
        BY <4>3, <4>4
    <3> QED
      BY <3>4, <3>5
  <2> QED
    BY <2>9, <2>10, StepSound
<1>7. CASE DeliverChild(s, e)
  <2>1. UNCHANGED uaVars /\ UNCHANGED flags /\ UNCHANGED <<th, todo>>
    BY <1>7 DEF DeliverChild
  <2>2. UaOK' /\ FlagsOK'
    BY <2>1, SameRest
  <2>3. CASE Answered /\ ListChildren(s, Tail(queue[s]))
    <3>1. ZkOK' /\ (\A q \in Server \ {s} : NewsKept(q)) /\ Hears(s)'
      BY <1>1, <2>1, <2>3, ListedAnew
    <3>2. Step(s, th[s]["completion"])
      BY <1>2, <1>3, <2>1, <2>2, <2>3, <3>1 DEF Step
    <3> QED
      BY <3>1, <3>2, StepSound
  <2>4. CASE /\ Lost /\ queue' = [queue EXCEPT ![s] = Tail(@)]
             /\ UNCHANGED <<znode, ns0, zxid, dataWatch, childWatch>>
    <3>1. ZkOK' /\ \A q \in Server \ {s} : NewsKept(q)
      BY <1>1, <2>4, TakenEvent
    <3>2. Step(s, th[s]["completion"])
      BY <1>2, <1>3, <2>1, <2>2, <2>4, <3>1 DEF Step
    <3> QED
      BY <2>4, <3>2, LostVacuous, StepSound
  <2> QED
    BY <1>7, <2>3, <2>4 DEF DeliverChild
<1>8. CASE DeliverList(s, e)
  <2>1. /\ e.kind = "list" /\ Answered
        /\ queue' = [queue EXCEPT ![s] = Tail(@)]
        /\ UNCHANGED <<znode, ns0, zxid, dataWatch, childWatch>>
        /\ UNCHANGED uaVars /\ UNCHANGED flags
    BY <1>4, <1>8 DEF DeliverList
  <2>2. /\ ZkOK' /\ \A q \in Server \ {s} : NewsKept(q)
        /\ e \in Events
        /\ \A kind : Queued(s, kind) \subseteq {e} \cup Queued(s, kind)'
        /\ \A kind : e.kind # kind => Queued(s, kind)' = Queued(s, kind)
        /\ \A m \in Node : Exists(m)' = Exists(m)
    BY <1>1, <2>1, TakenEvent
  <2>3. e.nodes \in SUBSET Node
    BY <2>2 DEF Events
  <2>4. PICK r : /\ Turn(s, "completion", r)
                 /\ \A m \in e.nodes : m \in todo'[s] \/ (r.pc = "get" /\ r.node = m)
    <3>1. CASE e.nodes = {}
      BY <1>2, <1>8, <3>1 DEF DeliverList
    <3>2. CASE e.nodes # {}
      <4> DEFINE n == NextNode(e.nodes)
                 r == [Idle EXCEPT !.pc = "get", !.node = n]
      <4>1. n \in e.nodes /\ n \in Node
        BY <2>3, <3>2, NextNodeIn
      <4>2. /\ Become(s, "completion", r)
            /\ todo' = [todo EXCEPT ![s] = e.nodes \ {n}]
        BY <1>8, <3>2 DEF DeliverList
      <4> HIDE DEF n
      <4>3. HandOK(r) /\ CopierOK(r, todo'[s]) /\ r.pc = "get" /\ r.node = n
        BY <4>1, PackValues DEF HandOK, CopierOK, Idle, ThreadState, PC, Without
      <4> HIDE DEF r
      <4>4. /\ todo' \in [Server -> SUBSET Node] /\ todo'[s] = e.nodes \ {n}
            /\ \A q \in Server \ {s} : todo'[q] = todo[q]
        BY <1>1, <2>3, <4>2
      <4>5. Turn(s, "completion", r)
        BY <4>2, <4>3, <4>4 DEF Turn, Become
      <4> QED
        BY <4>3, <4>4, <4>5
    <3> QED
      BY <3>1, <3>2
  <2>5. th'[s]["completion"] = r /\ th'[s]["main"] = th[s]["main"]
    BY <2>4, TurnOK DEF Inv, Thread
  <2>6. Step(s, r)
    BY <1>3, <2>1, <2>2, <2>4, SameRest DEF Step
  <2>7. Hears(s) => Hears(s)'
    <3> SUFFICES ASSUME Hears(s), Alive(s)', losses' = MaxLosses, ~YetToList(s)'
                 PROVE  /\ Listed(s)'
                        /\ \A m \in Znodes' : Noticed(s, m)' \/ m \in todo'[s] \/ Coming(s, m)'
      BY DEF Hears
    <3>1. Queued(s, "start")' = Queued(s, "start") /\ Queued(s, "child")' = Queued(s, "child")
          /\ Queued(s, "changed")' = Queued(s, "changed")
      BY <2>1, <2>2
    <3>2. Alive(s) /\ losses = MaxLosses /\ ~YetToList(s)
      BY <1>2, <1>3, <2>1, <2>5, <3>1 DEF Alive, YetToList, Losing
    <3>3. Listed(s) /\ \A m \in Znodes : Noticed(s, m) \/ m \in todo[s] \/ Coming(s, m)
      BY <3>2 DEF Hears
    <3>4. Listed(s)'
      BY <2>1, <3>1, <3>3 DEF Listed
    <3>5. ASSUME NEW m \in Znodes'
          PROVE  Noticed(s, m)' \/ m \in todo'[s] \/ Coming(s, m)'
      <4>1. m \in Znodes /\ m \in Node
        BY <2>2 DEF Znodes
      <4>2. Noticed(s, m)
        BY <1>2, <3>3, <4>1
      <4>3. CASE m \in e.nodes
        BY <2>4, <2>5, <4>3 DEF Coming, At
      <4>4. CASE m \notin e.nodes
        BY <2>1, <2>2, <3>1, <4>2, <4>4 DEF Noticed
      <4> QED
        BY <4>3, <4>4
    <3> QED
      BY <3>4, <3>5
  <2> QED
    BY <2>6, <2>7, StepSound
<1>9. CASE DeliverStart(s, e)
  <2>1. UNCHANGED uaVars /\ UNCHANGED flags
    BY <1>9 DEF DeliverStart
  <2>2. UaOK' /\ FlagsOK'
    BY <2>1, SameRest
  <2>3. CASE Answered /\ ListChildren(s, Tail(queue[s])) /\ UNCHANGED <<th, todo>>
    <3>1. ZkOK' /\ (\A q \in Server \ {s} : NewsKept(q)) /\ Hears(s)'
      BY <1>1, <2>3, ListedAnew
    <3>2. Step(s, th[s]["completion"])
      BY <1>2, <1>3, <2>2, <2>3, <3>1 DEF Step
    <3> QED
      BY <3>1, <3>2, StepSound
  <2>4. CASE /\ Lost /\ queue' = [queue EXCEPT ![s] = Tail(@)] /\ UNCHANGED <<th, todo>>
             /\ UNCHANGED <<znode, ns0, zxid, dataWatch, childWatch>>
    <3>1. ZkOK' /\ \A q \in Server \ {s} : NewsKept(q)
      BY <1>1, <2>4, TakenEvent
    <3>2. Step(s, th[s]["completion"])
      BY <1>2, <1>3, <2>2, <2>4, <3>1 DEF Step
    <3> QED
      BY <2>4, <3>2, LostVacuous, StepSound
  <2>5. CASE /\ Become(s, "completion", [Idle EXCEPT !.pc = "nodeset", !.creating = TRUE])
             /\ todo' = [todo EXCEPT ![s] = Nodeset]
             /\ queue' = [queue EXCEPT ![s] = Tail(@)]
             /\ UNCHANGED <<znode, ns0, zxid, dataWatch, childWatch, losses>>
    <3> DEFINE r == [Idle EXCEPT !.pc = "nodeset", !.creating = TRUE]
    <3>1. ZkOK' /\ \A q \in Server \ {s} : NewsKept(q)
      BY <1>1, <2>5, TakenEvent
    <3>2. HandOK(r) /\ CopierOK(r, todo'[s]) /\ r.creating
      BY PackValues DEF HandOK, CopierOK, Idle, ThreadState, PC, Without
    <3>3. th' = [th EXCEPT ![s]["completion"] = r]
      BY <2>5 DEF Become
    <3> HIDE DEF r
    <3>4. Nodeset \in SUBSET Node
      BY ConstantsOK DEF ConstantsOK
    <3>5. Turn(s, "completion", r)
      BY <1>1, <2>5, <3>2, <3>3, <3>4 DEF Turn
    <3>6. th'[s]["completion"] = r
      BY <3>5, TurnOK DEF Inv, Thread
    <3>7. Hears(s)'
      BY <3>2, <3>6 DEF Hears, YetToList
    <3>8. Step(s, r)
      BY <1>3, <1>4, <2>2, <2>5, <3>1, <3>5 DEF Step
    <3> QED
      BY <3>7, <3>8, StepSound
  <2> QED
    BY <1>9, <2>3, <2>4, <2>5 DEF DeliverStart
<1> QED
  BY <1>5, <1>6, <1>7, <1>8, <1>9 DEF Deliver

-----------------------------------------------------------------------------
(* The completion thread: the nodeset and the copies *)

LEMMA CreateNodesetSound ==
  ASSUME Inv, NEW s \in Server, CreateNodeset(s)
  PROVE  Sound(s)
<1>1. /\ th[s]["completion"].pc = "nodeset" /\ th[s]["completion"].creating
      /\ th \in [Server -> [Thread -> ThreadState]] /\ todo \in [Server -> SUBSET Node]
      /\ UNCHANGED nodeMzxid /\ UNCHANGED flags /\ UNCHANGED <<requests, restarts>>
  BY DEF CreateNodeset, At, Inv, ThreadsOK, CopierOK
<1>2. TableOK' /\ FlagsOK' /\ (Answered \/ Lost => BoundsOK' /\ Losing)
  BY <1>1, SameRest
<1>3. queue[s] \in Seq(Events)
  BY DEF Inv, ZkOK
<1>4. CASE /\ (Answered /\ ListChildren(s, queue[s])) \/ (Lost /\ UNCHANGED zkVars)
           /\ Become(s, "completion", Idle)
           /\ UNCHANGED uaVars /\ todo[s] = {} /\ UNCHANGED todo
  <2>1. HandOK(Idle) /\ CopierOK(Idle, {})
    BY PackValues DEF HandOK, CopierOK, Idle, ThreadState, PC, Without
  <2>2. Turn(s, "completion", Idle)
    BY <1>1, <1>4, <2>1 DEF Turn, Become
  <2>3. UaOK'
    BY <1>4, SameRest
  <2>4. CASE Answered /\ ListChildren(s, queue[s])
    <3>1. /\ ZkOK' /\ \A q \in Server \ {s} : NewsKept(q)
          /\ s \in childWatch' /\ \A n \in Znodes' : Noticed(s, n)'
      BY <1>3, <2>4, ListOK DEF Inv
    <3>2. Hears(s)'
      BY <3>1 DEF Hears, Listed
    <3>3. Step(s, Idle)
      BY <1>2, <2>2, <2>3, <2>4, <3>1 DEF Step
    <3> QED
      BY <3>2, <3>3, StepSound
  <2>5. CASE Lost /\ UNCHANGED zkVars
    <3>1. ZkOK' /\ \A q \in Server : NewsKept(q)
      BY <2>5, SameZk DEF Inv
    <3>2. Step(s, Idle)
      BY <1>2, <2>2, <2>3, <2>5, <3>1 DEF Step
    <3> QED
      BY <2>5, <3>2, LostVacuous, StepSound
  <2> QED
    BY <1>4, <2>4, <2>5
<1>5. CASE todo[s] # {} /\ AddFromNodeset(s)
  <2> DEFINE n == NextNode(todo[s])
             item == [val |-> 1, parented |-> TRUE]
             r == [Idle EXCEPT !.pc = "addGet", !.node = n, !.pack = item, !.creating = TRUE]
  <2>1. n \in todo[s] /\ n \in Node
    BY <1>1, <1>5, NextNodeIn
  <2>2. item \in Pack
    BY PackValues, 1 \in Value DEF Value
  <2>3. /\ AddLocally(s, n, item) /\ Become(s, "completion", r)
        /\ todo' = [todo EXCEPT ![s] = @ \ {n}] /\ UNCHANGED zkVars /\ Answered
    BY <1>5 DEF AddFromNodeset, Answered
  <2> HIDE DEF n, item
  <2>4. HandOK(r) /\ CopierOK(r, todo'[s]) /\ r.creating
    BY <2>1, <2>2 DEF HandOK, CopierOK, Idle, ThreadState, PC, Without
  <2>5. UaOK'
    BY <2>1, <2>2, <2>3, AddLocallyOK DEF Inv
  <2>6. ZkOK' /\ \A q \in Server : NewsKept(q)
    BY <2>3, SameZk DEF Inv
  <2> HIDE DEF r
  <2>7. Turn(s, "completion", r)
    BY <1>1, <2>3, <2>4 DEF Turn, Become
  <2>8. th'[s]["completion"] = r
    BY <2>7, TurnOK DEF Inv, Thread
  <2>9. Hears(s)'
    BY <2>4, <2>8 DEF Hears, YetToList
  <2>10. Step(s, r)
    BY <1>2, <2>3, <2>5, <2>6, <2>7 DEF Step
  <2> QED
    BY <2>9, <2>10, StepSound
<1> QED
  BY <1>4, <1>5 DEF CreateNodeset

LEMMA GetSound ==
  ASSUME Inv, NEW s \in Server, Get(s)
  PROVE  Sound(s)
<1> DEFINE n == th[s]["completion"].node
<1>1. /\ th[s]["completion"].pc = "get" /\ n \in Node
      /\ ~th[s]["completion"].creating
      /\ th \in [Server -> [Thread -> ThreadState]] /\ todo \in [Server -> SUBSET Node]
      /\ UNCHANGED <<uaVars, nodeMzxid, flags>> /\ UNCHANGED <<requests, restarts>>
      /\ Answered \/ Lost
  BY DEF Get, At, Inv, ThreadsOK, HandOK, CopierOK, Without, Thread
<1>2. UaOK' /\ TableOK' /\ FlagsOK' /\ BoundsOK' /\ Losing
  BY <1>1, SameRest
<1>3. \A m \in Node : Coming(s, m) => m = n
  BY DEF Coming
<1>4. CASE /\ Exists(n) /\ Watch(s, n) /\ UNCHANGED todo
           /\ Become(s, "completion", [Idle EXCEPT !.pc = "check", !.node = n,
                                         !.pack = PackOf(n), !.ver = znode[n].mzxid])
  <2> DEFINE r == [Idle EXCEPT !.pc = "check", !.node = n,
                               !.pack = PackOf(n), !.ver = znode[n].mzxid]
  <2>1. PackOf(n) \in Pack /\ znode[n].mzxid \in Nat
    BY <1>1, PackValues DEF Inv, ZkOK
  <2> HIDE DEF n
  <2>2. HandOK(r) /\ CopierOK(r, todo'[s])
    BY <1>1, <2>1 DEF HandOK, CopierOK, Idle, ThreadState, PC, Without
  <2>3. th' = [th EXCEPT ![s]["completion"] = r]
    BY <1>4 DEF Become
  <2> HIDE DEF r
  <2>4. Turn(s, "completion", r)
    BY <1>1, <1>4, <2>2, <2>3 DEF Turn
  <2>5. ZkOK' /\ <<s, n>> \in dataWatch' /\ \A q \in Server : NewsKept(q)
    BY <1>1, <1>4, WatchOK DEF Inv
  <2>6. \A m \in Node : m \in todo[s] \/ Coming(s, m) =>
          m \in todo'[s] \/ Noticed(s, m)'
    BY <1>3, <1>4, <2>5 DEF Noticed
  <2>7. Regular(s, "completion", r)
    BY <1>1, <1>2, <2>4, <2>5, <2>6 DEF Regular
  <2> QED
    BY <2>7, RegularSound DEF Thread
<1>5. CASE (Lost \/ ~Exists(n)) /\ Finish(s) /\ UNCHANGED zkVars
  <2>1. PICK r : Turn(s, "completion", r) /\ Carried(s)
    BY <1>5, FinishOK DEF Inv
  <2>2. ZkOK' /\ \A q \in Server : NewsKept(q)
    BY <1>5, SameZk DEF Inv
  <2>3. CASE Lost
    <3>1. Step(s, r)
      BY <1>2, <2>1, <2>2 DEF Step
    <3> QED
      BY <2>3, <3>1, LostVacuous, StepSound
  <2>4. CASE ~Exists(n)
    <3>1. \A m \in Node : Exists(m)' = Exists(m)
      BY <1>5 DEF Exists, zkVars
    <3>2. \A m \in Node : Exists(m)' /\ (m \in todo[s] \/ Coming(s, m)) =>
            m \in todo'[s] \/ Coming(s, m)'
      BY <1>3, <2>1, <2>4, <3>1 DEF Carried
    <3>3. Regular(s, "completion", r)
      BY <1>1, <1>2, <2>1, <2>2, <3>2 DEF Regular
    <3> QED
      BY <3>3, RegularSound DEF Thread
  <2> QED
    BY <1>5, <2>3, <2>4
<1> QED
  BY <1>4, <1>5 DEF Get

LEMMA FinishWorks ==
  ASSUME Inv, NEW s \in Server, Finish(s),
         th[s]["completion"].pc \in {"check", "decode"}
  PROVE  \E r : Works(s, "completion", r)
<1>1. ~th[s]["completion"].creating
  BY DEF Inv, ThreadsOK, CopierOK
<1>2. PICK r : Turn(s, "completion", r) /\ Carried(s)
  BY FinishOK DEF Inv
<1>3. Works(s, "completion", r)
  BY <1>1, <1>2 DEF Works, Without
<1> QED
  BY <1>3

LEMMA CopyingSound ==
  ASSUME Inv, NEW s \in Server, Check(s) \/ Decode(s) \/ Replace(s) \/ Readd(s)
  PROVE  Sound(s)
<1> DEFINE r == th[s]["completion"]
<1>1. /\ r.pc \in {"check", "decode", "replace", "readd"}
      /\ r \in ThreadState /\ r.node \in Node /\ ~r.creating
      /\ th \in [Server -> [Thread -> ThreadState]] /\ "completion" \in Thread
  BY DEF Check, Decode, Replace, Readd, At, Inv, ThreadsOK, HandOK, CopierOK, Without, Thread
<1>2. r.pack \in Pack /\ r.ver \in Nat
  BY <1>1 DEF ThreadState
<1>3. UNCHANGED zkVars /\ UNCHANGED <<requests, restarts>> /\ Answered
  BY DEF Check, Decode, Replace, Readd, bounds, Answered
<1>4. ZkOK' /\ (\A q \in Server : NewsKept(q)) /\ BoundsOK' /\ Losing
  BY <1>3, SameZk, SameRest DEF Inv
<1>5. CASE (\E x : Works(s, "completion", x)) /\ UaOK' /\ TableOK' /\ FlagsOK'
  BY <1>1, <1>4, <1>5, WorksSound
<1>6. /\ UNCHANGED uaVars => UaOK'
      /\ UNCHANGED nodeMzxid => TableOK'
      /\ UNCHANGED flags => FlagsOK'
  BY SameRest
\* Each of these steps but those that finish goes on with the same node.
<1>7. ASSUME NEW l \in {"decode", "addGet", "readd"}, NEW b \in BOOLEAN, UNCHANGED todo,
             \/ Goto(s, "completion", l)
             \/ th' = [th EXCEPT ![s]["completion"].pc = l, ![s]["completion"].again = b]
      PROVE  \E x : Works(s, "completion", x)
  <2>1. CASE Goto(s, "completion", l)
    <3> DEFINE x == [r EXCEPT !.pc = l]
    <3>1. Moved(x, s, "completion")
      BY <1>1 DEF Moved, ThreadState, PC, Without
    <3>2. th' = [th EXCEPT ![s]["completion"] = x]
      BY <2>1 DEF Goto
    <3> HIDE DEF x
    <3> QED
      BY <1>1, <1>7, <3>1, <3>2, MovedWorks
  <2>2. CASE th' = [th EXCEPT ![s]["completion"].pc = l, ![s]["completion"].again = b]
    <3> DEFINE x == [r EXCEPT !.pc = l, !.again = b]
    <3>1. Moved(x, s, "completion")
      BY <1>1 DEF Moved, ThreadState, PC, Without
    <3>2. th' = [th EXCEPT ![s]["completion"] = x]
      BY <1>1, <2>2
    <3> HIDE DEF x
    <3> QED
      BY <1>1, <1>7, <3>1, <3>2, MovedWorks
  <2> QED
    BY <1>7, <2>1, <2>2
<1>8. CASE Check(s)
  <2>1. \E x : Works(s, "completion", x)
    <3>1. CASE Finish(s)
      BY <1>8, <3>1, FinishWorks DEF Check, At
    <3>2. CASE Goto(s, "completion", "decode") /\ UNCHANGED todo
      BY <1>7, <3>2
    <3> QED
      BY <1>8, <3>1, <3>2 DEF Check
  <2>2. TableOK'
    BY <1>1, <1>2, <1>8 DEF Check, Inv, TableOK
  <2> QED
    BY <1>5, <1>6, <1>8, <2>1, <2>2 DEF Check
<1>9. CASE Decode(s)
  <2>1. CASE Finish(s) /\ UNCHANGED uaVars
    <3>1. \E x : Works(s, "completion", x)
      BY <1>9, <2>1, FinishWorks DEF Decode, At
    <3> QED
      BY <1>5, <1>6, <1>9, <2>1, <3>1 DEF Decode
  <2>2. CASE AddLocally(s, r.node, r.pack) /\ UNCHANGED todo
             /\ th' = [th EXCEPT ![s]["completion"].pc = "addGet",
                                 ![s]["completion"].again = /\ r.pack.parented
                                                            /\ Stored(s, Parent[r.node])
                                                            /\ Stored(s, r.node)]
    <3>1. UaOK'
      BY <1>1, <1>2, <2>2, AddLocallyOK DEF Inv
    <3>2. (/\ r.pack.parented /\ Stored(s, Parent[r.node]) /\ Stored(s, r.node)) \in BOOLEAN
      BY <1>2 DEF Pack, Stored
    <3>3. \E x : Works(s, "completion", x)
      BY <1>7, <2>2, <3>2
    <3> QED
      BY <1>5, <1>6, <1>9, <3>1, <3>3 DEF Decode
  <2> QED
    BY <1>9, <2>1, <2>2 DEF Decode
<1>10. CASE Replace(s)
  <2>1. UaOK'
    BY <1>1, <1>10, DeleteLocallyOK DEF Replace, Inv
  <2>2. FlagsOK'
    BY <1>10 DEF Replace, Inv, FlagsOK
  <2>3. \E x : Works(s, "completion", x)
    BY <1>7, <1>10 DEF Replace
  <2> QED
    BY <1>5, <1>6, <1>10, <2>1, <2>2, <2>3 DEF Replace
<1>11. CASE Readd(s)
  <2>1. UaOK'
    BY <1>1, <1>2, <1>11, AddLocallyOK DEF Readd, Inv
  <2>2. \E x : Works(s, "completion", x)
    BY <1>7, <1>11 DEF Readd
  <2> QED
    BY <1>5, <1>6, <1>11, <2>1, <2>2 DEF Readd
<1> QED
  BY <1>8, <1>9, <1>10, <1>11

-----------------------------------------------------------------------------
(* The theorems *)

LEMMA NextSound ==
  ASSUME IInv, Next
  PROVE  IInv'
<1>1. PICK s \in Server :
        \/ RequestStep(s) \/ MainStep(s) \/ (\E t \in Thread : PushStep(s, t))
        \/ CopyStep(s) \/ Restart(s)
  BY DEF Next
<1>2. Inv
  BY DEF IInv
<1>3. CASE RequestStep(s)
  BY <1>2, <1>3, RequestStepSound, SoundIInv
<1>4. CASE MainStep(s)
  <2>1. Sound(s)
    BY <1>2, <1>4, StartSound, NewServerSound, ZkDeleteSound, DeleteLocalSound, ReadBackSound
    DEF MainStep
  <2> QED
    BY <2>1, SoundIInv
<1>5. CASE \E t \in Thread : PushStep(s, t)
  BY <1>2, <1>5, PushStepSound, SoundIInv
<1>6. CASE CopyStep(s)
  <2>1. Sound(s)
    BY <1>2, <1>6, DeliverSound, CreateNodesetSound, GetSound, CopyingSound DEF CopyStep
  <2> QED
    BY <2>1, SoundIInv
<1>7. CASE Restart(s)
  BY <1>2, <1>7, RestartSound, SoundIInv
<1> QED
  BY <1>1, <1>3, <1>4, <1>5, <1>6, <1>7

LEMMA StutterIInv ==
  ASSUME IInv, UNCHANGED vars
  PROVE  IInv'
<1>1. /\ UNCHANGED zkVars /\ UNCHANGED uaVars /\ UNCHANGED flags /\ UNCHANGED nodeMzxid
      /\ UNCHANGED <<requests, restarts>> /\ Answered /\ UNCHANGED <<th, todo>>
  BY DEF vars, bounds, Answered
<1>2. ZkOK' /\ \A s \in Server : NewsKept(s)
  BY <1>1, SameZk DEF IInv, Inv
<1>3. UaOK' /\ TableOK' /\ FlagsOK' /\ BoundsOK' /\ Losing
  BY <1>1, SameRest DEF IInv
<1>4. ThreadsOK'
  BY <1>1 DEF IInv, Inv, ThreadsOK
<1>5. \A s \in Server : Onward(s)
  BY <1>1 DEF Onward, Alive, Coming, At
<1>6. \A s \in Server : Hears(s)'
  BY <1>2, <1>3, <1>5, HearsKept DEF IInv
<1> QED
  BY <1>2, <1>3, <1>4, <1>6 DEF IInv, Inv

LEMMA InitIInv == Init => IInv
<1> SUFFICES ASSUME Init PROVE \A s \in Server : Hears(s)
  BY InitInv DEF IInv
<1> PICK o \in Opening : Init!(o)
  BY DEF Init
<1> TAKE s \in Server
<1>1. CASE s \in o.starting
  <2>1. th[s]["main"].pc = "start"
    BY <1>1 DEF Started, Idle, Thread
  <2> QED
    BY <2>1 DEF Hears, YetToList
<1>2. CASE s \notin o.starting
  <2>1. s \in childWatch
    BY <1>2
  <2>2. Event("list", o.present) \in Queued(s, "list")
    <3>1. queue[s] = <<Event("list", o.present)>>
      BY <1>2
    <3>2. Event("list", o.present) \in Elements(<<Event("list", o.present)>>)
      BY DEF Elements
    <3> QED
      BY <3>1, <3>2, QueuedElements DEF Event
  <2>3. Znodes \subseteq o.present
    BY DEF Znodes, Exists, Version
  <2>4. Event("list", o.present).nodes = o.present
    BY DEF Event
  <2> QED
    BY <2>1, <2>2, <2>3, <2>4 DEF Hears, Listed, Noticed
<1> QED
  BY <1>1, <1>2

LEMMA AlwaysIInv == Spec => []IInv
<1>1. IInv /\ [Next]_vars => IInv'
  BY NextSound, StutterIInv
<1> QED
  BY <1>1, InitIInv, PTL DEF Spec

\* Every variable keeps its type: among others the interceptors are never handed
\* a node that is none, and no znode is watched before it is there, for which the
\* watcher of the address space has no case.
THEOREM TypesKept == Spec => []TypeOK
<1>1. IInv => TypeOK
  BY InvTypeOK DEF IInv
<1> QED
  BY <1>1, AlwaysIInv, PTL

\* As long as every call is answered no server misses a change: what is not watched
\* is about to be read with a watch, through all deletes, kills and restarts, while
\* the nodeset is created, and however many servers write.
THEOREM NoChangeMissed == Spec => []NeverDeaf
<1>1. IInv => NeverDeaf
  BY HearsNeverDeaf DEF IInv
<1> QED
  BY <1>1, AlwaysIInv, PTL

=============================================================================
