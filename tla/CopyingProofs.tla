--------------------------- MODULE CopyingProofs ---------------------------
(***************************************************************************)
(* A server without writers pushes nothing of what it copies, for all      *)
(* servers, trees and openings, if nobody deletes and ZooKeeper answers.   *)
(* The interceptor does not know a copy from a client's request: what      *)
(* stops it is that the znode it looks up is there, and no older than the  *)
(* mzxid in the table.  And servers that start agree on what there is      *)
(* before the first request (StartersAgree), whatever the constants, if    *)
(* every call has been answered.                                           *)
(***************************************************************************)
EXTENDS ReplicationProofs

\* What is needed of the completion thread of a server without writers.
CopyOK(s, r) ==
  /\ r.pc \in {"exists", "set", "create", "stat", "record"} => r.creating
  /\ \/ r.pc \in {"check", "decode", "addCheck", "replace", "readd", "set", "stat", "record"}
     \/ r.pc = "addGet" /\ ~r.creating
     => Exists(r.node)
  /\ r.pc \in {"check", "record"} => r.ver <= znode[r.node].mzxid
  /\ r.pc = "addCheck" => nodeMzxid[s][r.node] <= r.ver

\* Its clients ask for nothing, and its table is never ahead of ZooKeeper.
Passive(s) ==
  /\ th[s]["main"].pc \in {"idle", "dead", "start", "new"}
  /\ \A n \in Node : nodeMzxid[s][n] <= znode[n].mzxid
  /\ CopyOK(s, th[s]["completion"])

\* A pack that names a parent has a value.
Named(p) == p.parented => p.val # 0

\* No znode is being deleted, and every pack on its way has a value.
Common ==
  /\ \A s \in Server : th[s]["main"].pc # "zkDelete"
  /\ \A s \in Server, t \in Thread : Named(th[s][t].pack)
  /\ \A n \in Node : Named(PackOf(n))

CInv == Common /\ \A s \in Server \ Writer : Passive(s)

\* Znodes only get newer.
Grows ==
  \A n \in Node : \/ znode'[n] = znode[n]
                  \/ znode[n].mzxid < znode'[n].mzxid /\ Named(PackOf(n)')

LEMMA GrowsBy ==
  ASSUME ZkOK, ZkOK', Grows
  PROVE  \A n \in Node : /\ znode[n].mzxid \in Nat /\ znode'[n].mzxid \in Nat
                         /\ znode[n].mzxid <= znode'[n].mzxid
<1> TAKE n \in Node
<1>1. znode[n].mzxid \in Nat /\ znode'[n].mzxid \in Nat
  BY DEF ZkOK
<1> QED
  BY <1>1 DEF Grows

LEMMA ExistsLater ==
  ASSUME ZkOK, ZkOK', Grows
  PROVE  \A n \in Node : Exists(n) => Exists(n)'
<1> TAKE n \in Node
<1>1. znode[n].mzxid \in Nat /\ znode'[n].mzxid \in Nat /\ znode[n].mzxid <= znode'[n].mzxid
  BY GrowsBy
<1> QED
  BY <1>1 DEF Exists

LEMMA CommitGrows ==
  ASSUME ZkOK, NEW n \in Node, NEW p, Named(p), CreateZnode(n, p) \/ SetZnode(n, p)
  PROVE  Grows
<1>1. zxid \in Nat /\ znode[n].mzxid \in Nat /\ znode[n].mzxid <= zxid
  BY DEF ZkOK
<1>2. znode' = [znode EXCEPT ![n] = Version(p, zxid + 1)]
  BY DEF CreateZnode, SetZnode, Commit
<1>3. \A m \in Node : m # n => znode'[m] = znode[m]
  BY <1>2 DEF ZkOK
<1>4. znode'[n] = Version(p, zxid + 1)
  BY <1>2 DEF ZkOK
<1>5. znode[n].mzxid < znode'[n].mzxid /\ Named(PackOf(n)')
  BY <1>1, <1>4 DEF Version, Named, PackOf
<1> QED
  BY <1>3, <1>5 DEF Grows

LEMMA SameGrows ==
  ASSUME UNCHANGED znode
  PROVE  Grows
  BY DEF Grows

\* No step of s takes part in the table or the threads of another server.
Apart(s) ==
  \A q \in Server \ {s} : th'[q] = th[q] /\ nodeMzxid'[q] = nodeMzxid[q]

LEMMA PassiveLater ==
  ASSUME Inv, Inv', Grows, NEW q \in Server, Passive(q), nodeMzxid'[q] = nodeMzxid[q],
         th'[q]["main"].pc \in {"idle", "dead", "start", "new"},
         th'[q]["completion"] = th[q]["completion"]
  PROVE  Passive(q)'
<1>1. \A n \in Node : Exists(n) => Exists(n)'
  BY ExistsLater DEF Inv
<1>2. \A n \in Node : /\ znode[n].mzxid \in Nat /\ znode'[n].mzxid \in Nat
                      /\ znode[n].mzxid <= znode'[n].mzxid /\ nodeMzxid[q][n] \in Nat
  BY GrowsBy DEF Inv, TableOK
<1> DEFINE r == th[q]["completion"]
<1>3. /\ r.ver \in Nat
      /\ r.pc \notin Without => r.node \in Node
  BY DEF Inv, ThreadsOK, HandOK, Thread, ThreadState
<1>4. \A n \in Node : nodeMzxid'[q][n] <= znode'[n].mzxid
  BY <1>2 DEF Passive
<1>5. CopyOK(q, r)'
  <2>1. CopyOK(q, r)
    BY DEF Passive
  <2>2. r' = r
    OBVIOUS
  <2> HIDE DEF r
  <2>3. CASE r.pc \in Without
    BY <2>1, <2>2, <2>3 DEF CopyOK, Without
  <2>4. CASE r.pc \notin Without
    BY <1>1, <1>2, <1>3, <2>1, <2>2, <2>4 DEF CopyOK
  <2> QED
    BY <2>3, <2>4
<1> QED
  BY <1>4, <1>5 DEF Passive

-----------------------------------------------------------------------------
(* What a step of s does to the others, and to ZooKeeper *)

\* A thread of s moves; if it is main, not to delete a znode.
Moves(s, t) ==
  \E x : /\ th' = [th EXCEPT ![s][t] = x] /\ Named(x.pack)
         /\ t = "main" => x.pc # "zkDelete"

\* A step of s that deletes nothing.
OnlyBy(s) ==
  /\ Apart(s) /\ Grows
  /\ th'[s]["main"].pc # "zkDelete" /\ \A t \in Thread : Named(th'[s][t].pack)

LEMMA NeverLost ==
  ASSUME Inv, MaxLosses = 0
  PROVE  ~Lost
  BY DEF Inv, BoundsOK, Lost

LEMMA MovesOnly ==
  ASSUME Inv, Common, NEW s \in Server, NEW t \in Thread, Moves(s, t), Grows,
         \A q \in Server \ {s} : nodeMzxid'[q] = nodeMzxid[q]
  PROVE  OnlyBy(s)
<1>1. PICK x : /\ th' = [th EXCEPT ![s][t] = x] /\ Named(x.pack)
               /\ t = "main" => x.pc # "zkDelete"
  BY DEF Moves
<1>2. th \in [Server -> [Thread -> ThreadState]] /\ "main" \in Thread
  BY DEF Inv, ThreadsOK, Thread
<1>3. \A q \in Server \ {s} : th'[q] = th[q]
  BY <1>1, <1>2
<1>4. th'[s]["main"].pc # "zkDelete"
  <2>1. CASE t = "main"
    BY <1>1, <1>2, <2>1
  <2>2. CASE t # "main"
    BY <1>1, <1>2, <2>2 DEF Common
  <2> QED
    BY <2>1, <2>2
<1>5. ASSUME NEW u \in Thread PROVE Named(th'[s][u].pack)
  <2>1. CASE u = t
    BY <1>1, <1>2, <2>1
  <2>2. CASE u # t
    BY <1>1, <1>2, <2>2 DEF Common
  <2> QED
    BY <2>1, <2>2
<1> QED
  BY <1>3, <1>4, <1>5 DEF OnlyBy, Apart

LEMMA GotoMoves ==
  ASSUME Inv, Common, NEW s \in Server, NEW t \in Thread, NEW l \in PC \ {"zkDelete"},
         NEW v, NEW p,
         \/ Goto(s, t, l)
         \/ th' = [th EXCEPT ![s][t].pc = l, ![s][t].ver = v]
         \/ th' = [th EXCEPT ![s][t].pc = l, ![s][t].pack = p] /\ Named(p)
         \/ th' = [th EXCEPT ![s][t].pc = l, ![s][t].again = v]
  PROVE  Moves(s, t)
<1>1. th \in [Server -> [Thread -> ThreadState]] /\ th[s][t] \in ThreadState
  BY DEF Inv, ThreadsOK
<1> DEFINE x1 == [th[s][t] EXCEPT !.pc = l]
           x2 == [th[s][t] EXCEPT !.pc = l, !.ver = v]
           x3 == [th[s][t] EXCEPT !.pc = l, !.pack = p]
           x4 == [th[s][t] EXCEPT !.pc = l, !.again = v]
<1>2. /\ x1.pc = l /\ x2.pc = l /\ x3.pc = l /\ x4.pc = l /\ x3.pack = p
      /\ x1.pack = th[s][t].pack /\ x2.pack = th[s][t].pack /\ x4.pack = th[s][t].pack
  BY <1>1 DEF ThreadState
<1>3. \/ th' = [th EXCEPT ![s][t] = x1]
      \/ th' = [th EXCEPT ![s][t] = x2]
      \/ th' = [th EXCEPT ![s][t] = x3] /\ Named(p)
      \/ th' = [th EXCEPT ![s][t] = x4]
  <2>1. Goto(s, t, l) => th' = [th EXCEPT ![s][t] = x1]
    BY DEF Goto
  <2>2. th' = [th EXCEPT ![s][t].pc = l, ![s][t].ver = v] => th' = [th EXCEPT ![s][t] = x2]
    BY <1>1
  <2>3. th' = [th EXCEPT ![s][t].pc = l, ![s][t].pack = p] => th' = [th EXCEPT ![s][t] = x3]
    BY <1>1
  <2>4. th' = [th EXCEPT ![s][t].pc = l, ![s][t].again = v] => th' = [th EXCEPT ![s][t] = x4]
    BY <1>1
  <2> QED
    BY <2>1, <2>2, <2>3, <2>4
<1>4. Named(th[s][t].pack)
  BY DEF Common
<1> HIDE DEF x1, x2, x3, x4
<1> QED
  BY <1>2, <1>3, <1>4 DEF Moves

LEMMA BecomeMoves ==
  ASSUME NEW s \in Server, NEW t \in Thread, NEW x, Become(s, t, x), x.pc # "zkDelete",
         Named(x.pack)
  PROVE  Moves(s, t)
  BY DEF Become, Moves

LEMMA ReturnMoves ==
  ASSUME Inv, Common, NEW s \in Server, NEW t \in Thread, Return(s, t), th[s][t].pc \notin Without
  PROVE  Moves(s, t)
<1>1. PICK r : /\ Turn(s, t, r) /\ r.pack \in {Blank, th[s][t].pack}
               /\ t = "main" => r = Idle
  BY ReturnOK DEF Inv
<1>2. Idle.pc = "idle" /\ Named(r.pack)
  BY <1>1 DEF Idle, Blank, Named, Common
<1> QED
  BY <1>1, <1>2 DEF Moves, Turn

LEMMA FinishMoves ==
  ASSUME Inv, NEW s \in Server, Finish(s)
  PROVE  Moves(s, "completion")
<1>1. PICK r : Turn(s, "completion", r) /\ r.pack = Blank
  BY FinishOK DEF Inv
<1>2. Named(r.pack)
  BY <1>1 DEF Named, Blank
<1> QED
  BY <1>1, <1>2 DEF Moves, Turn

LEMMA GoneOnly ==
  ASSUME Inv, NEW s \in Server, Gone(s), UNCHANGED nodeMzxid
  PROVE  OnlyBy(s)
<1>1. th' = [th EXCEPT ![s] = [t \in Thread |-> Dead]] /\ UNCHANGED znode
  BY DEF Gone
<1>2. /\ th'[s]["main"].pc = "dead" /\ \A t \in Thread : Named(th'[s][t].pack)
      /\ \A q \in Server \ {s} : th'[q] = th[q]
  BY <1>1 DEF Inv, ThreadsOK, Thread, Dead, Idle, Blank, Named
<1>3. Grows
  BY <1>1, SameGrows
<1> QED
  BY <1>2, <1>3 DEF OnlyBy, Apart

LEMMA RequestOnly ==
  ASSUME Inv, Common, "delete" \notin Kind, NEW s \in Server, RequestStep(s)
  PROVE  OnlyBy(s)
<1>1. PICK n \in Node : Write(s, n) \/ AddNode(s, n) \/ DeleteNode(s, n)
  BY DEF RequestStep
<1>2. ~DeleteNode(s, n)
  BY DEF DeleteNode, Request
<1>3. UNCHANGED znode /\ UNCHANGED nodeMzxid
  BY <1>1, <1>2 DEF Write, AddNode, Request, zkVars
<1>4. Grows
  BY <1>3, SameGrows
<1>5. CASE UNCHANGED th
  BY <1>3, <1>4, <1>5 DEF OnlyBy, Apart, Common
<1>6. CASE Moves(s, "main")
  BY <1>3, <1>4, <1>6, MovesOnly DEF Thread
<1>7. CASE Write(s, n)
  <2>1. CASE UNCHANGED th
    BY <1>5, <2>1
  <2>2. CASE Become(s, "main", [Idle EXCEPT !.pc = "readBack", !.node = n, !.request = Number])
    <3> DEFINE x == [Idle EXCEPT !.pc = "readBack", !.node = n, !.request = Number]
    <3>1. x.pc # "zkDelete" /\ Named(x.pack)
      BY DEF Idle, Blank, Named
    <3> HIDE DEF x
    <3> QED
      BY <1>6, <2>2, <3>1, BecomeMoves DEF Thread, x
  <2> QED
    BY <1>7, <2>1, <2>2, Zenon DEF Write
<1>8. CASE AddNode(s, n)
  <2> DEFINE x == [Idle EXCEPT !.pc = "addGet", !.node = n,
                               !.pack = [val |-> Number, parented |-> TRUE]]
  <2>1. x.pc # "zkDelete" /\ Named(x.pack)
    BY DEF Idle, Named, Number, Inv, BoundsOK
  <2>2. Become(s, "main", x)
    BY <1>8 DEF AddNode
  <2> HIDE DEF x
  <2> QED
    BY <1>6, <2>1, <2>2, BecomeMoves DEF Thread
<1> QED
  BY <1>1, <1>2, <1>7, <1>8

LEMMA MainOnly ==
  ASSUME Inv, Common, NEW s \in Server, MainStep(s)
  PROVE  OnlyBy(s)
<1>1. ~ZkDelete(s)
  BY DEF ZkDelete, At, Common
<1>2. UNCHANGED nodeMzxid
  BY <1>1 DEF MainStep, Start, NewServer, DeleteLocal, ReadBack
<1>3. CASE Gone(s)
  BY <1>2, <1>3, GoneOnly
<1>4. CASE ~Gone(s)
  <2>1. UNCHANGED znode
    BY <1>1, <1>4 DEF MainStep, Start, NewServer, DeleteLocal, ReadBack, zkVars
  <2>2. Grows
    BY <2>1, SameGrows
  <2>3. Moves(s, "main") => OnlyBy(s)
    BY <1>2, <2>2, MovesOnly DEF Thread
  <2>4. CASE Start(s)
    <3>1. Goto(s, "main", "new")
      BY <1>4, <2>4 DEF Start
    <3> QED
      BY <2>3, <3>1, GotoMoves DEF Thread, PC
  <2>5. CASE NewServer(s)
    <3>1. CASE Goto(s, "main", "idle")
      BY <2>3, <3>1, GotoMoves DEF Thread, PC
    <3>2. CASE th' = [th EXCEPT ![s]["main"] = Idle, ![s]["completion"] = Dead]
      <4>1. /\ th'[s]["main"] = Idle /\ th'[s]["completion"] = Dead
            /\ \A q \in Server \ {s} : th'[q] = th[q]
        BY <3>2 DEF Inv, ThreadsOK, Thread
      <4>2. Idle.pc # "zkDelete" /\ \A t \in Thread : Named(th'[s][t].pack)
        BY <4>1 DEF Idle, Dead, Blank, Named, Thread
      <4> QED
        BY <1>2, <2>2, <4>1, <4>2 DEF OnlyBy, Apart
    <3> QED
      BY <2>5, <3>1, <3>2 DEF NewServer
  <2>6. CASE DeleteLocal(s)
    <3>1. Become(s, "main", Idle) /\ Idle.pc # "zkDelete" /\ Named(Idle.pack)
      BY <2>6 DEF DeleteLocal, Idle, Blank, Named
    <3> QED
      BY <2>3, <3>1, BecomeMoves DEF Thread
  <2>7. CASE ReadBack(s)
    <3> DEFINE n     == th[s]["main"].node
               found == IF Stored(s, n) THEN [val |-> store[s][n], parented |-> Browsable(s, n)]
                        ELSE Blank
               Read(p) == th' = [th EXCEPT ![s]["main"].pc = "exists", ![s]["main"].pack = p]
    <3>1. n \in Node /\ 0 \notin Node
      BY <2>7, ConstantsOK DEF ConstantsOK, ReadBack, At, Inv, ThreadsOK, HandOK, Without, Thread
    <3>2. Named(Blank)
      BY DEF Named, Blank
    <3>3. Named(found)
      BY <3>1 DEF Named, Blank, Stored
    <3>4. Named([found EXCEPT !.val = Unread])
      <4>1. [found EXCEPT !.val = Unread].val = -1
        BY DEF Unread, Blank
      <4> QED
        BY <4>1 DEF Named
    <3>5. \E p : Named(p) /\ Read(p)
      <4> HIDE DEF found, n
      <4> QED
        BY <2>7, <3>2, <3>3, <3>4 DEF ReadBack, n, found
    <3> HIDE DEF found, n
    <3>6. PICK p : Named(p) /\ Read(p)
      BY <3>5
    <3> QED
      BY <2>3, <3>6, GotoMoves DEF Thread, PC
  <2> QED
    BY <1>1, <2>4, <2>5, <2>6, <2>7 DEF MainStep
<1> QED
  BY <1>3, <1>4

LEMMA PushOnly ==
  ASSUME Inv, Common, NEW s \in Server, NEW t \in Thread, PushStep(s, t)
  PROVE  OnlyBy(s)
<1>1. /\ th[s][t].pc \in {"addGet", "addCheck", "exists", "set", "create", "stat", "record"}
      /\ th[s][t].node \in Node
  BY DEF PushStep, AddGet, AddCheck, ReplicateNode, Set, Create, Stat, Record, At, Inv,
         ThreadsOK, HandOK, Without
<1>2. Return(s, t) => Moves(s, t)
  BY <1>1, ReturnMoves DEF Without
<1>3. ASSUME NEW l \in {"addCheck", "exists", "set", "create", "stat", "record"}, NEW v,
             Goto(s, t, l) \/ th' = [th EXCEPT ![s][t].pc = l, ![s][t].ver = v]
      PROVE  Moves(s, t)
  <2>1. l \in PC \ {"zkDelete"}
    BY DEF PC
  <2>2. CASE Goto(s, t, l)
    BY <2>1, <2>2, GotoMoves
  <2>3. CASE th' = [th EXCEPT ![s][t].pc = l, ![s][t].ver = v]
    BY <2>1, <2>3, GotoMoves, Zenon
  <2> QED
    BY <1>3, <2>2, <2>3
<1>4. ZkOK /\ Named(th[s][t].pack)
  BY DEF Inv, Common
<1>5. UNCHANGED znode => Grows
  BY SameGrows
<1>6. CASE UNCHANGED nodeMzxid /\ Grows /\ Moves(s, t)
  BY <1>6, MovesOnly
<1>7. CASE AddGet(s, t)
  <2>1. UNCHANGED znode /\ UNCHANGED nodeMzxid
    BY <1>7 DEF AddGet, Watch, zkVars
  <2>2. Moves(s, t)
    BY <1>2, <1>3, <1>7 DEF AddGet
  <2> QED
    BY <1>5, <1>6, <2>1, <2>2
<1>8. CASE AddCheck(s, t)
  <2>1. CASE Gone(s)
    BY <1>8, <2>1, GoneOnly DEF AddCheck
  <2>2. CASE (Return(s, t) \/ Goto(s, t, "exists")) /\ UNCHANGED zkVars
    BY <1>2, <1>3, <1>5, <1>6, <1>8, <2>2 DEF AddCheck, zkVars
  <2> QED
    BY <1>8, <2>1, <2>2 DEF AddCheck
<1>9. CASE ReplicateNode(s, t)
  <2>1. Moves(s, t)
    BY <1>2, <1>3, <1>9 DEF ReplicateNode
  <2> QED
    BY <1>5, <1>6, <1>9, <2>1 DEF ReplicateNode, zkVars
<1>10. CASE Set(s, t)
  <2>1. SetZnode(th[s][t].node, th[s][t].pack) \/ UNCHANGED zkVars
    BY <1>10 DEF Set
  <2>2. Grows
    BY <1>1, <1>4, <1>5, <2>1, CommitGrows DEF zkVars
  <2>3. Moves(s, t)
    BY <1>3, <1>10 DEF Set
  <2> QED
    BY <1>6, <1>10, <2>2, <2>3 DEF Set
<1>11. CASE Create(s, t)
  <2>1. CreateZnode(th[s][t].node, th[s][t].pack) \/ UNCHANGED zkVars
    BY <1>11 DEF Create
  <2>2. Grows
    BY <1>1, <1>4, <1>5, <2>1, CommitGrows DEF zkVars
  <2>3. Moves(s, t)
    BY <1>3, <1>11 DEF Create
  <2> QED
    BY <1>6, <1>11, <2>2, <2>3 DEF Create
<1>12. CASE Stat(s, t)
  <2>1. Moves(s, t)
    BY <1>3, <1>12 DEF Stat
  <2> QED
    BY <1>5, <1>6, <1>12, <2>1 DEF Stat, zkVars
<1>13. CASE Record(s, t)
  <2>1. Moves(s, t) /\ Grows
    BY <1>2, <1>5, <1>13 DEF Record, zkVars
  <2>2. \A q \in Server \ {s} : nodeMzxid'[q] = nodeMzxid[q]
    BY <1>13 DEF Record, Inv, TableOK
  <2> QED
    BY <2>1, <2>2, MovesOnly
<1> QED
  BY <1>7, <1>8, <1>9, <1>10, <1>11, <1>12, <1>13 DEF PushStep

LEMMA CopyOnly ==
  ASSUME Inv, Common, NEW s \in Server, CopyStep(s)
  PROVE  OnlyBy(s)
<1>1. UNCHANGED znode
  <2>1. Deliver(s) => UNCHANGED znode
    <3>1. ASSUME NEW e PROVE DeliverDeleted(s, e) \/ DeliverChanged(s, e) => UNCHANGED znode
      BY Zenon DEF DeliverDeleted, DeliverChanged
    <3>2. ASSUME NEW q PROVE ListChildren(s, q) => UNCHANGED znode
      BY DEF ListChildren
    <3>3. ASSUME NEW e PROVE DeliverChild(s, e) \/ DeliverList(s, e) => UNCHANGED znode
      BY <3>2 DEF DeliverChild, DeliverList
    <3>4. ASSUME NEW e PROVE DeliverStart(s, e) => UNCHANGED znode
      BY <3>2 DEF DeliverStart
    <3> QED
      BY <3>1, <3>3, <3>4 DEF Deliver
  <2>2. CreateNodeset(s) => UNCHANGED znode
    BY DEF CreateNodeset, AddFromNodeset, ListChildren, zkVars
  <2>3. Get(s) => UNCHANGED znode
    BY DEF Get, Watch, zkVars
  <2>4. Check(s) \/ Decode(s) \/ Replace(s) \/ Readd(s) => UNCHANGED znode
    BY DEF Check, Decode, Replace, Readd, zkVars
  <2> QED
    BY <2>1, <2>2, <2>3, <2>4 DEF CopyStep
<1>2. Grows
  BY <1>1, SameGrows
<1>3. \A q \in Server \ {s} : nodeMzxid'[q] = nodeMzxid[q]
  BY DEF CopyStep, Deliver, CreateNodeset, Get, Check, Decode, Replace, Readd, Inv, TableOK
<1>4. CASE UNCHANGED th
  BY <1>2, <1>3, <1>4 DEF OnlyBy, Apart, Common
<1>5. CASE Moves(s, "completion")
  BY <1>2, <1>3, <1>5, MovesOnly DEF Thread
<1>6. ASSUME NEW x, Become(s, "completion", x), Named(x.pack)
      PROVE  Moves(s, "completion")
  BY <1>6 DEF Become, Moves
<1>7. Finish(s) => Moves(s, "completion")
  BY FinishMoves
<1>8. ASSUME NEW l \in {"decode", "addGet", "readd"}, NEW b,
             \/ Goto(s, "completion", l)
             \/ th' = [th EXCEPT ![s]["completion"].pc = l, ![s]["completion"].again = b]
      PROVE  Moves(s, "completion")
  BY <1>8, GotoMoves DEF PC, Thread
<1>9. CASE Deliver(s)
  <2>1. ASSUME NEW e, DeliverDeleted(s, e) \/ DeliverChild(s, e)
        PROVE  UNCHANGED th
    BY <2>1 DEF DeliverDeleted, DeliverChild
  <2>2. ASSUME NEW e, DeliverChanged(s, e)
        PROVE  Moves(s, "completion")
    <3>1. PICK n \in e.nodes : Become(s, "completion", [Idle EXCEPT !.pc = "get", !.node = n])
      BY <2>2, Zenon DEF DeliverChanged
    <3> DEFINE x == [Idle EXCEPT !.pc = "get", !.node = n]
    <3>2. Named(x.pack)
      BY DEF Idle, Blank, Named
    <3> HIDE DEF x
    <3> QED
      BY <1>6, <3>1, <3>2 DEF x
  <2>3. ASSUME NEW e, DeliverList(s, e)
        PROVE  UNCHANGED th \/ Moves(s, "completion")
    <3> DEFINE x == [Idle EXCEPT !.pc = "get", !.node = NextNode(e.nodes)]
    <3>1. UNCHANGED th \/ Become(s, "completion", x)
      BY <2>3, Zenon DEF DeliverList
    <3>2. Named(x.pack)
      BY DEF Idle, Blank, Named
    <3> HIDE DEF x
    <3> QED
      BY <1>6, <3>1, <3>2
  <2>4. ASSUME NEW e, DeliverStart(s, e)
        PROVE  UNCHANGED th \/ Moves(s, "completion")
    <3> DEFINE x == [Idle EXCEPT !.pc = "nodeset", !.creating = TRUE]
    <3>1. UNCHANGED th \/ Become(s, "completion", x)
      BY <2>4, Zenon DEF DeliverStart
    <3>2. Named(x.pack)
      BY DEF Idle, Blank, Named
    <3> HIDE DEF x
    <3> QED
      BY <1>6, <3>1, <3>2
  <2> QED
    BY <1>4, <1>5, <1>9, <2>1, <2>2, <2>3, <2>4 DEF Deliver
<1>10. CASE CreateNodeset(s)
  <2> DEFINE x == [Idle EXCEPT !.pc = "addGet", !.node = NextNode(todo[s]),
                               !.pack = [val |-> 1, parented |-> TRUE], !.creating = TRUE]
  <2>1. Become(s, "completion", Idle) \/ Become(s, "completion", x)
    BY <1>10, Zenon DEF CreateNodeset, AddFromNodeset
  <2>2. Named(x.pack) /\ Named(Idle.pack)
    BY DEF Idle, Blank, Named
  <2> HIDE DEF x
  <2> QED
    BY <1>5, <1>6, <2>1, <2>2
<1>11. CASE Get(s)
  <2> DEFINE n == th[s]["completion"].node
             x == [Idle EXCEPT !.pc = "check", !.node = n,
                               !.pack = PackOf(n), !.ver = znode[n].mzxid]
  <2>1. Finish(s) \/ Become(s, "completion", x)
    BY <1>11, Zenon DEF Get
  <2>2. n \in Node
    BY <1>11 DEF Get, At, Inv, ThreadsOK, HandOK, Without, Thread
  <2>3. Named(x.pack)
    BY <2>2 DEF Idle, Common
  <2> HIDE DEF x
  <2> QED
    BY <1>5, <1>6, <1>7, <2>1, <2>3
<1>12. CASE Check(s)
  BY <1>5, <1>7, <1>8, <1>12 DEF Check
<1>13. CASE Decode(s)
  BY <1>5, <1>7, <1>8, <1>13 DEF Decode
<1>14. CASE Replace(s)
  BY <1>5, <1>8, <1>14 DEF Replace
<1>15. CASE Readd(s)
  BY <1>5, <1>8, <1>15 DEF Readd
<1> QED
  BY <1>9, <1>10, <1>11, <1>12, <1>13, <1>14, <1>15 DEF CopyStep

LEMMA RestartOnly ==
  ASSUME Inv, NEW s \in Server, Restart(s)
  PROVE  OnlyBy(s)
<1>1. th' = [th EXCEPT ![s] = Started] /\ UNCHANGED znode
  BY DEF Restart
<1>2. /\ th'[s]["main"].pc = "start" /\ \A t \in Thread : Named(th'[s][t].pack)
      /\ \A q \in Server \ {s} : th'[q] = th[q]
  BY <1>1 DEF Inv, ThreadsOK, Thread, Started, Idle, Blank, Named
<1>3. \A q \in Server \ {s} : nodeMzxid'[q] = nodeMzxid[q]
  BY DEF Restart, Inv, TableOK
<1>4. Grows
  BY <1>1, SameGrows
<1> QED
  BY <1>2, <1>3, <1>4 DEF OnlyBy, Apart

-----------------------------------------------------------------------------
(* The steps of a server without writers *)

TableLater(s) == \A n \in Node : nodeMzxid'[s][n] <= znode'[n].mzxid

\* CopyOK for what the thread will be, x.
CopyLater(s, x) ==
  /\ x.pc \in {"exists", "set", "create", "stat", "record"} => x.creating
  /\ \/ x.pc \in {"check", "decode", "addCheck", "replace", "readd", "set", "stat", "record"}
     \/ x.pc = "addGet" /\ ~x.creating
     => znode'[x.node].mzxid # 0
  /\ x.pc \in {"check", "record"} => x.ver <= znode'[x.node].mzxid
  /\ x.pc = "addCheck" => nodeMzxid'[s][x.node] <= x.ver

LEMMA CopierTurns ==
  ASSUME Inv, NEW s \in Server, Passive(s), NEW x, th' = [th EXCEPT ![s]["completion"] = x],
         TableLater(s), CopyLater(s, x)
  PROVE  Passive(s)'
<1>1. th'[s]["completion"] = x /\ th'[s]["main"] = th[s]["main"]
  BY DEF Inv, ThreadsOK, Thread
<1>2. CopyOK(s, th[s]["completion"])'
  BY <1>1 DEF CopyLater, CopyOK, Exists
<1> QED
  BY <1>1, <1>2 DEF Passive, TableLater

LEMMA TableGrows ==
  ASSUME Inv, Inv', Grows, NEW s \in Server, Passive(s), UNCHANGED nodeMzxid
  PROVE  TableLater(s)
<1>1. \A n \in Node : /\ znode[n].mzxid \in Nat /\ znode'[n].mzxid \in Nat
                      /\ znode[n].mzxid <= znode'[n].mzxid /\ nodeMzxid[s][n] \in Nat
  BY GrowsBy DEF Inv, TableOK
<1> QED
  BY <1>1 DEF TableLater, Passive

\* Where a thread has no node whose znode matters.
LEMMA HarmlessTurns ==
  ASSUME Inv, NEW s \in Server, Passive(s), TableLater(s), NEW x,
         th' = [th EXCEPT ![s]["completion"] = x],
         \/ x.pc \in {"idle", "dead", "nodeset", "get"}
         \/ x.pc = "addGet" /\ x.creating
  PROVE  Passive(s)'
<1>1. CopyLater(s, x)
  BY DEF CopyLater
<1> QED
  BY <1>1, CopierTurns

LEMMA FinishPassive ==
  ASSUME Inv, NEW s \in Server, Passive(s), TableLater(s), Finish(s)
  PROVE  Passive(s)'
<1>1. PICK r : Turn(s, "completion", r) /\ r.pc \in {"idle", "get"}
  BY FinishOK DEF Inv
<1> QED
  BY <1>1, HarmlessTurns DEF Turn

\* The thread goes on with its node, and copies or creates as before.
OnTo(s, x, l) ==
  /\ th' = [th EXCEPT ![s]["completion"] = x]
  /\ x.pc = l /\ x.node = th[s]["completion"].node
  /\ x.creating = th[s]["completion"].creating

LEMMA GoesOnTo ==
  ASSUME Inv, NEW s \in Server, NEW l \in PC
  PROVE  Goto(s, "completion", l) =>
           \E x : OnTo(s, x, l) /\ x.ver = th[s]["completion"].ver
<1> DEFINE x == [th[s]["completion"] EXCEPT !.pc = l]
<1>1. th[s]["completion"] \in ThreadState
  BY DEF Inv, ThreadsOK, Thread
<1>2. /\ x.pc = l /\ x.node = th[s]["completion"].node /\ x.ver = th[s]["completion"].ver
      /\ x.creating = th[s]["completion"].creating
  BY <1>1 DEF ThreadState
<1>3. Goto(s, "completion", l) => th' = [th EXCEPT ![s]["completion"] = x]
  BY DEF Goto
<1> HIDE DEF x
<1> QED
  BY <1>2, <1>3 DEF OnTo

LEMMA ReadsOnTo ==
  ASSUME Inv, NEW s \in Server, NEW l \in PC, NEW v \in Nat
  PROVE  th' = [th EXCEPT ![s]["completion"].pc = l, ![s]["completion"].ver = v] =>
           \E x : OnTo(s, x, l) /\ x.ver = v
<1> DEFINE x == [th[s]["completion"] EXCEPT !.pc = l, !.ver = v]
<1>1. /\ th \in [Server -> [Thread -> ThreadState]] /\ "completion" \in Thread
      /\ th[s]["completion"] \in ThreadState
  BY DEF Inv, ThreadsOK, Thread
<1>2. /\ x.pc = l /\ x.node = th[s]["completion"].node /\ x.ver = v
      /\ x.creating = th[s]["completion"].creating
  BY <1>1 DEF ThreadState
<1>3. th' = [th EXCEPT ![s]["completion"].pc = l, ![s]["completion"].ver = v] =>
        th' = [th EXCEPT ![s]["completion"] = x]
  BY <1>1
<1> HIDE DEF x
<1> QED
  BY <1>2, <1>3 DEF OnTo

LEMMA DecodesOnTo ==
  ASSUME Inv, NEW s \in Server, NEW l \in PC, NEW b \in BOOLEAN
  PROVE  th' = [th EXCEPT ![s]["completion"].pc = l, ![s]["completion"].again = b] =>
           \E x : OnTo(s, x, l)
<1> DEFINE x == [th[s]["completion"] EXCEPT !.pc = l, !.again = b]
<1>1. /\ th \in [Server -> [Thread -> ThreadState]] /\ "completion" \in Thread
      /\ th[s]["completion"] \in ThreadState
  BY DEF Inv, ThreadsOK, Thread
<1>2. /\ x.pc = l /\ x.node = th[s]["completion"].node
      /\ x.creating = th[s]["completion"].creating
  BY <1>1 DEF ThreadState
<1>3. th' = [th EXCEPT ![s]["completion"].pc = l, ![s]["completion"].again = b] =>
        th' = [th EXCEPT ![s]["completion"] = x]
  BY <1>1
<1> HIDE DEF x
<1> QED
  BY <1>2, <1>3 DEF OnTo

LEMMA ExistsStays ==
  ASSUME Inv, Inv', Grows
  PROVE  \A n \in Node : Exists(n) => znode'[n].mzxid # 0
  BY ExistsLater DEF Inv, Exists

LEMMA ReturnPassive ==
  ASSUME Inv, Inv', Grows, NEW s \in Server, Passive(s), TableLater(s), Return(s, "completion"),
         th[s]["completion"].pc \notin Without,
         th[s]["completion"].creating \/ Exists(th[s]["completion"].node)
  PROVE  Passive(s)'
<1> DEFINE r == th[s]["completion"]
<1>1. /\ r.ver \in Nat /\ r.again \in BOOLEAN /\ r.creating \in BOOLEAN /\ r.node \in Node
      /\ r.creating => ~r.again
  BY DEF Inv, ThreadsOK, HandOK, CopierOK, ThreadState, Thread
<1>2. CASE r.again
  <2>1. Goto(s, "completion", "replace")
    BY <1>1, <1>2 DEF Return
  <2>2. PICK x : OnTo(s, x, "replace")
    BY <2>1, GoesOnTo DEF PC
  <2>3. znode'[r.node].mzxid # 0
    BY <1>1, <1>2, ExistsStays
  <2>4. CopyLater(s, x)
    BY <2>2, <2>3 DEF CopyLater, OnTo
  <2> QED
    BY <2>2, <2>4, CopierTurns DEF OnTo
<1>3. CASE ~r.again /\ r.creating
  <2>1. Goto(s, "completion", "nodeset")
    BY <1>3, Zenon DEF Return
  <2>2. PICK x : OnTo(s, x, "nodeset")
    BY <2>1, GoesOnTo DEF PC
  <2> QED
    BY <2>2, HarmlessTurns DEF OnTo
<1>4. CASE ~r.again /\ ~r.creating
  <2>1. Finish(s)
    BY <1>4 DEF Return
  <2> QED
    BY <2>1, FinishPassive
<1> QED
  BY <1>2, <1>3, <1>4

LEMMA DeliverPassive ==
  ASSUME Inv, Inv', Grows, NEW s \in Server, Passive(s), Deliver(s)
  PROVE  Passive(s)'
<1>1. UNCHANGED nodeMzxid
  BY DEF Deliver
<1>2. TableLater(s)
  BY <1>1, TableGrows
<1>3. CASE UNCHANGED th
  BY <1>1, <1>3, PassiveLater DEF Passive
<1>4. ASSUME NEW l \in {"get", "nodeset"}, NEW x, x.pc = l, Become(s, "completion", x)
      PROVE  Passive(s)'
  BY <1>2, <1>4, HarmlessTurns DEF Become
<1>5. ASSUME NEW e, DeliverChanged(s, e)
      PROVE  Passive(s)'
  <2>1. PICK n \in e.nodes : Become(s, "completion", [Idle EXCEPT !.pc = "get", !.node = n])
    BY <1>5, Zenon DEF DeliverChanged
  <2> DEFINE x == [Idle EXCEPT !.pc = "get", !.node = n]
  <2>2. x.pc = "get"
    BY DEF Idle
  <2> HIDE DEF x
  <2> QED
    BY <1>4, <2>1, <2>2 DEF x
<1>6. ASSUME NEW e, DeliverList(s, e)
      PROVE  Passive(s)'
  <2> DEFINE x == [Idle EXCEPT !.pc = "get", !.node = NextNode(e.nodes)]
  <2>1. UNCHANGED th \/ Become(s, "completion", x)
    BY <1>6, Zenon DEF DeliverList
  <2>2. x.pc = "get"
    BY DEF Idle
  <2> HIDE DEF x
  <2> QED
    BY <1>3, <1>4, <2>1, <2>2
<1>7. ASSUME NEW e, DeliverStart(s, e)
      PROVE  Passive(s)'
  <2> DEFINE x == [Idle EXCEPT !.pc = "nodeset", !.creating = TRUE]
  <2>1. UNCHANGED th \/ Become(s, "completion", x)
    BY <1>7, Zenon DEF DeliverStart
  <2>2. x.pc = "nodeset"
    BY DEF Idle
  <2> HIDE DEF x
  <2> QED
    BY <1>3, <1>4, <2>1, <2>2
<1>8. ASSUME NEW e, DeliverDeleted(s, e) \/ DeliverChild(s, e)
      PROVE  Passive(s)'
  BY <1>3, <1>8 DEF DeliverDeleted, DeliverChild
<1> QED
  BY <1>5, <1>6, <1>7, <1>8 DEF Deliver

LEMMA CreateNodesetPassive ==
  ASSUME Inv, Inv', Grows, NEW s \in Server, Passive(s), CreateNodeset(s)
  PROVE  Passive(s)'
<1>1. TableLater(s)
  BY TableGrows DEF CreateNodeset
<1>2. CASE Become(s, "completion", Idle)
  BY <1>1, <1>2, HarmlessTurns DEF Become, Idle
<1>3. CASE AddFromNodeset(s)
  <2> DEFINE n == NextNode(todo[s])
             x == [Idle EXCEPT !.pc = "addGet", !.node = n,
                               !.pack = [val |-> 1, parented |-> TRUE], !.creating = TRUE]
  <2>1. Become(s, "completion", x)
    BY <1>3 DEF AddFromNodeset
  <2>2. x.pc = "addGet" /\ x.creating
    BY DEF Idle
  <2> HIDE DEF x
  <2> QED
    BY <1>1, <2>1, <2>2, HarmlessTurns DEF Become
<1> QED
  BY <1>2, <1>3 DEF CreateNodeset

\* What a passive server copies is there, and in its table as of its last change.
LEMMA CopyingPassive ==
  ASSUME Inv, Inv', Grows, MaxLosses = 0, NEW s \in Server, Passive(s),
         Get(s) \/ Check(s) \/ Decode(s) \/ Replace(s) \/ Readd(s)
  PROVE  Passive(s)'
<1> DEFINE r == th[s]["completion"]
<1>1. /\ r.pc \in {"get", "check", "decode", "replace", "readd"}
      /\ r.node \in Node /\ r.ver \in Nat /\ ~r.creating /\ r.pack \in Pack
  BY DEF Get, Check, Decode, Replace, Readd, At, Inv, ThreadsOK, HandOK, CopierOK, Without,
         ThreadState, Thread
<1>2. CopyOK(s, r)
  BY DEF Passive
<1>3. Exists(r.node) => znode'[r.node].mzxid # 0
  BY <1>1, ExistsStays
<1>4. UNCHANGED nodeMzxid => TableLater(s)
  BY TableGrows
<1>5. CASE Finish(s) /\ UNCHANGED nodeMzxid
  BY <1>4, <1>5, FinishPassive
<1>6. ASSUME NEW l \in {"decode", "addGet", "readd"}, NEW x, OnTo(s, x, l),
             TableLater(s), Exists(r.node)
      PROVE  Passive(s)'
  <2>1. CopyLater(s, x)
    BY <1>3, <1>6 DEF CopyLater, OnTo
  <2> QED
    BY <1>6, <2>1, CopierTurns DEF OnTo
<1>7. CASE Get(s)
  <2>1. CASE /\ Exists(r.node) /\ Watch(s, r.node)
             /\ Become(s, "completion", [Idle EXCEPT !.pc = "check", !.node = r.node,
                                           !.pack = PackOf(r.node), !.ver = znode[r.node].mzxid])
    <3> DEFINE n == r.node
               x == [Idle EXCEPT !.pc = "check", !.node = n,
                                 !.pack = PackOf(n), !.ver = znode[n].mzxid]
    <3>1. n \in Node /\ n = r.node /\ znode'[n].mzxid # 0 /\ znode' = znode
      BY <1>1, <1>3, <2>1 DEF Watch
    <3>2. znode[n].mzxid \in Nat
      BY <3>1 DEF Inv, ZkOK
    <3>3. th' = [th EXCEPT ![s]["completion"] = x]
      BY <2>1 DEF Become
    <3> HIDE DEF n
    <3>4. x.pc = "check" /\ x.node = n /\ x.ver = znode[n].mzxid
      BY DEF Idle
    <3> HIDE DEF x
    <3>5. CopyLater(s, x)
      BY <3>1, <3>2, <3>4 DEF CopyLater
    <3> QED
      BY <1>4, <1>7, <3>3, <3>5, CopierTurns DEF Get
  <2>2. CASE Finish(s)
    BY <1>5, <1>7, <2>2 DEF Get
  <2> QED
    BY <1>7, <2>1, <2>2 DEF Get
<1>8. CASE Check(s)
  <2>1. CASE Finish(s) /\ UNCHANGED nodeMzxid
    BY <1>5, <2>1
  <2>2. CASE /\ nodeMzxid' = [nodeMzxid EXCEPT ![s][r.node] = r.ver]
             /\ Goto(s, "completion", "decode")
    <3>1. PICK x : OnTo(s, x, "decode")
      BY <2>2, GoesOnTo DEF PC
    <3>2. r.ver <= znode[r.node].mzxid /\ Exists(r.node)
      BY <1>2, <1>8 DEF CopyOK, Check, At
    <3>3. znode' = znode
      BY <1>8 DEF Check, zkVars
    <3>4. \A n \in Node : nodeMzxid'[s][n] = IF n = r.node THEN r.ver ELSE nodeMzxid[s][n]
      BY <2>2 DEF Inv, TableOK
    <3>5. TableLater(s)
      BY <3>2, <3>3, <3>4 DEF TableLater, Passive
    <3> QED
      BY <1>6, <3>1, <3>2, <3>5
  <2> QED
    BY <1>8, <2>1, <2>2 DEF Check
<1>9. CASE Decode(s)
  <2>1. CASE Finish(s)
    BY <1>5, <1>9, <2>1 DEF Decode
  <2>2. CASE th' = [th EXCEPT ![s]["completion"].pc = "addGet",
                              ![s]["completion"].again = /\ r.pack.parented
                                                         /\ Stored(s, Parent[r.node])
                                                         /\ Stored(s, r.node)]
    <3> DEFINE b == r.pack.parented /\ Stored(s, Parent[r.node]) /\ Stored(s, r.node)
    <3>1. b \in BOOLEAN /\ "addGet" \in PC
      BY <1>1 DEF Pack, Stored, PC
    <3>2. PICK x : OnTo(s, x, "addGet")
      <4>1. th' = [th EXCEPT ![s]["completion"].pc = "addGet", ![s]["completion"].again = b]
        BY <2>2
      <4> HIDE DEF b
      <4> QED
        BY <3>1, <4>1, DecodesOnTo
    <3>3. Exists(r.node)
      BY <1>2, <1>9 DEF CopyOK, Decode, At
    <3> QED
      BY <1>4, <1>6, <1>9, <3>2, <3>3 DEF Decode
  <2> QED
    BY <1>9, <2>1, <2>2 DEF Decode
<1>10. CASE Replace(s)
  <2>1. PICK x : OnTo(s, x, "readd")
    BY <1>10, GoesOnTo DEF Replace, PC
  <2>2. Exists(r.node)
    BY <1>2, <1>10 DEF CopyOK, Replace, At
  <2> QED
    BY <1>4, <1>6, <1>10, <2>1, <2>2 DEF Replace
<1>11. CASE Readd(s)
  <2>1. PICK x : OnTo(s, x, "addGet")
    <3>1. FALSE \in BOOLEAN /\ "addGet" \in PC
      BY DEF PC
    <3> QED
      BY <1>11, <3>1, DecodesOnTo, Zenon DEF Readd
  <2>2. Exists(r.node)
    BY <1>2, <1>11 DEF CopyOK, Readd, At
  <2> QED
    BY <1>4, <1>6, <1>11, <2>1, <2>2 DEF Readd
<1> QED
  BY <1>7, <1>8, <1>9, <1>10, <1>11

\* A push by the completion thread of a passive server: what it copied goes no
\* further than the comparison of mzxids.
LEMMA PushPassive ==
  ASSUME Inv, Inv', Grows, MaxLosses = 0, NEW s \in Server, Passive(s),
         NEW t \in Thread, PushStep(s, t)
  PROVE  Passive(s)'
<1> DEFINE r == th[s]["completion"]
<1>1. t = "completion"
  BY DEF PushStep, AddGet, AddCheck, ReplicateNode, Set, Create, Stat, Record, At, Passive,
         Thread
<1>2. /\ r.pc \in {"addGet", "addCheck", "exists", "set", "create", "stat", "record"}
      /\ r.node \in Node /\ r.ver \in Nat /\ r.pack \in Pack
  BY <1>1 DEF PushStep, AddGet, AddCheck, ReplicateNode, Set, Create, Stat, Record, At, Inv,
              ThreadsOK, HandOK, Without, ThreadState
<1>3. ~Lost
  BY NeverLost
<1>4. CopyOK(s, r) /\ nodeMzxid[s][r.node] <= znode[r.node].mzxid
  BY <1>2 DEF Passive
<1>5. Exists(r.node) => znode'[r.node].mzxid # 0
  BY <1>2, ExistsStays
<1>6. /\ znode[r.node].mzxid \in Nat /\ znode'[r.node].mzxid \in Nat
      /\ nodeMzxid[s][r.node] \in Nat
  BY <1>2 DEF Inv, ZkOK, TableOK
<1>7. UNCHANGED nodeMzxid => TableLater(s)
  BY TableGrows
<1>8. ASSUME Return(s, t), TableLater(s), r.creating \/ Exists(r.node)
      PROVE  Passive(s)'
  BY <1>1, <1>2, <1>8, ReturnPassive DEF Without
<1>9. ASSUME NEW l \in PC, NEW x, OnTo(s, x, l), CopyLater(s, x), UNCHANGED nodeMzxid
      PROVE  Passive(s)'
  BY <1>7, <1>9, CopierTurns DEF OnTo
<1>10. ASSUME NEW l \in PC,
              th' = [th EXCEPT ![s][t].pc = l, ![s][t].ver = znode[r.node].mzxid]
       PROVE  \E x : OnTo(s, x, l) /\ x.ver = znode[r.node].mzxid
  <2> DEFINE v == znode[r.node].mzxid
  <2>1. v \in Nat /\ v = znode[r.node].mzxid
    BY <1>6
  <2>2. th' = [th EXCEPT ![s]["completion"].pc = l, ![s]["completion"].ver = v]
    BY <1>1, <1>10, Zenon
  <2> HIDE DEF v
  <2>3. th' = [th EXCEPT ![s]["completion"].pc = l, ![s]["completion"].ver = v] =>
          \E x : OnTo(s, x, l) /\ x.ver = v
    BY <2>1, ReadsOnTo, Zenon
  <2>4. \E x : OnTo(s, x, l) /\ x.ver = v
    BY <2>2, <2>3, Zenon
  <2> QED
    BY <2>1, <2>4
<1>11. CASE AddGet(s, t)
  <2>1. CASE /\ Exists(r.node) /\ Watch(s, r.node)
             /\ th' = [th EXCEPT ![s][t].pc = "addCheck", ![s][t].ver = znode[r.node].mzxid]
    <3>1. PICK x : OnTo(s, x, "addCheck") /\ x.ver = znode[r.node].mzxid
      BY <1>10, <2>1, Zenon DEF PC
    <3>2. CopyLater(s, x)
      BY <1>4, <1>5, <1>11, <2>1, <3>1 DEF CopyLater, OnTo, AddGet
    <3> QED
      BY <1>9, <1>11, <3>1, <3>2 DEF AddGet, PC
  <2>2. CASE ~Exists(r.node) /\ Goto(s, t, "exists")
    <3>1. PICK x : OnTo(s, x, "exists")
      BY <1>1, <2>2, GoesOnTo DEF PC
    <3>2. r.creating
      BY <1>1, <1>4, <1>11, <2>2 DEF CopyOK, AddGet, At
    <3>3. CopyLater(s, x)
      BY <3>1, <3>2 DEF CopyLater, OnTo
    <3> QED
      BY <1>9, <1>11, <3>1, <3>3 DEF AddGet, PC
  <2> QED
    BY <1>1, <1>3, <1>11, <2>1, <2>2 DEF AddGet
<1>12. CASE AddCheck(s, t)
  <2>1. nodeMzxid[s][r.node] <= r.ver /\ Exists(r.node)
    BY <1>1, <1>4, <1>12 DEF CopyOK, AddCheck, At
  <2>2. Return(s, t)
    BY <1>1, <1>12, <2>1 DEF AddCheck
  <2> QED
    BY <1>7, <1>8, <1>12, <2>1, <2>2 DEF AddCheck
<1>13. CASE ReplicateNode(s, t)
  <2>1. r.creating
    BY <1>1, <1>4, <1>13 DEF CopyOK, ReplicateNode, At
  <2>2. CASE /\ Exists(r.node)
             /\ th' = [th EXCEPT ![s][t].pc = "set", ![s][t].ver = znode[r.node].mzxid]
    <3>1. PICK x : OnTo(s, x, "set") /\ x.ver = znode[r.node].mzxid
      BY <1>10, <2>2, Zenon DEF PC
    <3>2. CopyLater(s, x)
      BY <1>5, <2>1, <2>2, <3>1 DEF CopyLater, OnTo
    <3> QED
      BY <1>9, <1>13, <3>1, <3>2 DEF ReplicateNode, PC
  <2>3. CASE Goto(s, t, "create")
    <3>1. PICK x : OnTo(s, x, "create")
      BY <1>1, <2>3, GoesOnTo DEF PC
    <3>2. CopyLater(s, x)
      BY <2>1, <3>1 DEF CopyLater, OnTo
    <3> QED
      BY <1>9, <1>13, <3>1, <3>2 DEF ReplicateNode, PC
  <2> QED
    BY <1>1, <1>3, <1>13, <2>2, <2>3 DEF ReplicateNode
<1>14. CASE Set(s, t)
  <2>1. r.creating /\ Exists(r.node)
    BY <1>1, <1>4, <1>14 DEF CopyOK, Set, At
  <2>2. /\ SetZnode(r.node, r.pack)
        /\ th' = [th EXCEPT ![s][t].pc = "record", ![s][t].ver = zxid']
    BY <1>1, <1>3, <1>14, <2>1 DEF Set
  <2>3. znode'[r.node].mzxid = zxid'
    BY <1>2, <2>2 DEF SetZnode, Commit, Version, Inv, ZkOK
  <2>4. PICK x : OnTo(s, x, "record") /\ x.ver = znode'[r.node].mzxid
    <3> DEFINE v == zxid'
    <3>1. v \in Nat /\ v = znode'[r.node].mzxid /\ "record" \in PC
      BY <2>3 DEF Inv, ZkOK, PC
    <3>2. th' = [th EXCEPT ![s]["completion"].pc = "record", ![s]["completion"].ver = v]
      BY <1>1, <2>2
    <3> HIDE DEF v
    <3>3. \E x : OnTo(s, x, "record") /\ x.ver = v
      BY <3>1, <3>2, ReadsOnTo
    <3> QED
      BY <3>1, <3>3
  <2>5. CopyLater(s, x)
    BY <1>5, <1>6, <2>1, <2>4 DEF CopyLater, OnTo
  <2> QED
    BY <1>9, <1>14, <2>4, <2>5 DEF Set, PC
<1>15. CASE Create(s, t)
  <2>1. r.creating
    BY <1>1, <1>4, <1>15 DEF CopyOK, Create, At
  <2>2. PICK x : OnTo(s, x, "stat")
    BY <1>1, <1>15, GoesOnTo DEF Create, PC
  <2>3. znode'[r.node].mzxid # 0
    <3>1. CASE CreateZnode(r.node, r.pack)
      <4>1. znode'[r.node].mzxid = zxid + 1 /\ zxid \in Nat
        BY <1>2, <3>1 DEF CreateZnode, Commit, Version, Inv, ZkOK
      <4> QED
        BY <4>1
    <3>2. CASE Exists(r.node)
      BY <1>5, <3>2
    <3> QED
      BY <1>1, <1>3, <1>15, <3>1, <3>2 DEF Create
  <2>4. CopyLater(s, x)
    BY <2>1, <2>2, <2>3 DEF CopyLater, OnTo
  <2> QED
    BY <1>9, <1>15, <2>2, <2>4 DEF Create, PC
<1>16. CASE Stat(s, t)
  <2>1. r.creating /\ Exists(r.node)
    BY <1>1, <1>4, <1>16 DEF CopyOK, Stat, At
  <2>2. th' = [th EXCEPT ![s][t].pc = "record", ![s][t].ver = znode[r.node].mzxid]
    BY <1>1, <1>3, <1>16, <2>1 DEF Stat
  <2>3. PICK x : OnTo(s, x, "record") /\ x.ver = znode[r.node].mzxid
    BY <1>10, <2>2, Zenon DEF PC
  <2>4. znode' = znode
    BY <1>16 DEF Stat, zkVars
  <2>5. CopyLater(s, x)
    BY <1>5, <1>6, <2>1, <2>3, <2>4 DEF CopyLater, OnTo
  <2> QED
    BY <1>9, <1>16, <2>3, <2>5 DEF Stat, PC
<1>17. CASE Record(s, t)
  <2>1. r.creating /\ r.ver <= znode[r.node].mzxid
    BY <1>1, <1>4, <1>17 DEF CopyOK, Record, At
  <2>2. \A n \in Node : nodeMzxid'[s][n] = IF n = r.node THEN r.ver ELSE nodeMzxid[s][n]
    BY <1>1, <1>17 DEF Record, Inv, TableOK
  <2>3. znode' = znode
    BY <1>17 DEF Record, zkVars
  <2>4. TableLater(s)
    BY <2>1, <2>2, <2>3 DEF TableLater, Passive
  <2> QED
    BY <1>8, <1>17, <2>1, <2>4 DEF Record
<1> QED
  BY <1>11, <1>12, <1>13, <1>14, <1>15, <1>16, <1>17 DEF PushStep

LEMMA MainPassive ==
  ASSUME Inv, Inv', Grows, MaxLosses = 0, NEW s \in Server, Passive(s), MainStep(s)
  PROVE  Passive(s)'
<1>1. ~Lost
  BY NeverLost
<1>2. CASE Start(s)
  <2>1. Goto(s, "main", "new") /\ UNCHANGED nodeMzxid
    BY <1>1, <1>2 DEF Start
  <2>2. th'[s]["main"].pc = "new" /\ th'[s]["completion"] = th[s]["completion"]
    BY <2>1 DEF Goto, Inv, ThreadsOK, Thread, ThreadState
  <2> QED
    BY <2>1, <2>2, PassiveLater
<1>3. CASE NewServer(s)
  <2>1. Goto(s, "main", "idle") /\ UNCHANGED nodeMzxid
    BY <1>1, <1>3 DEF NewServer
  <2>2. th'[s]["main"].pc = "idle" /\ th'[s]["completion"] = th[s]["completion"]
    BY <2>1 DEF Goto, Inv, ThreadsOK, Thread, ThreadState
  <2> QED
    BY <2>1, <2>2, PassiveLater
<1>4. ~ZkDelete(s) /\ ~DeleteLocal(s) /\ ~ReadBack(s)
  BY DEF ZkDelete, DeleteLocal, ReadBack, At, Passive
<1> QED
  BY <1>2, <1>3, <1>4 DEF MainStep

LEMMA RestartPassive ==
  ASSUME Inv, Inv', NEW s \in Server, Restart(s)
  PROVE  Passive(s)'
<1>1. th'[s]["main"].pc = "start" /\ th'[s]["completion"].pc = "idle"
  BY DEF Restart, Inv, ThreadsOK, Thread, Started, Idle
<1>2. \A n \in Node : nodeMzxid'[s][n] = 0 /\ znode'[n].mzxid \in Nat
  BY DEF Restart, Inv, TableOK, ZkOK
<1> QED
  BY <1>1, <1>2 DEF Passive, CopyOK

-----------------------------------------------------------------------------
(* The theorem *)

LEMMA CInvInit == Init => CInv
<1> SUFFICES ASSUME Init PROVE CInv
  OBVIOUS
<1>1. Inv
  BY InitInv
<1> PICK o \in Opening : Init!(o)
  BY DEF Init
<1>2. \A s \in Server : th[s]["main"].pc \in {"idle", "start"} /\ th[s]["completion"].pc = "idle"
  BY DEF Started, Idle, Thread
<1>3. \A s \in Server, n \in Node : nodeMzxid[s][n] = 0 /\ znode[n].mzxid \in Nat
  BY <1>1 DEF Inv, ZkOK
<1>4. Common
  <2>1. \A s \in Server : th[s]["main"].pc # "zkDelete"
    BY <1>2
  <2>2. \A s \in Server, t \in Thread : Named(th[s][t].pack)
    BY DEF Started, Idle, Blank, Named, Thread
  <2>3. \A n \in Node : Named(PackOf(n))
    BY DEF PackOf, Version, Blank, Named
  <2> QED
    BY <2>1, <2>2, <2>3 DEF Common
<1>5. \A s \in Server : CopyOK(s, th[s]["completion"])
  BY <1>2 DEF CopyOK
<1>6. ASSUME NEW s \in Server PROVE Passive(s)
  <2>1. th[s]["main"].pc \in {"idle", "dead", "start", "new"}
    BY <1>2
  <2>2. ASSUME NEW n \in Node PROVE nodeMzxid[s][n] <= znode[n].mzxid
    <3>1. nodeMzxid[s][n] = 0 /\ znode[n].mzxid \in Nat
      BY <1>3
    <3> QED
      BY ONLY <3>1
  <2> QED
    BY <1>5, <2>1, <2>2 DEF Passive
<1> QED
  BY <1>4, <1>6 DEF CInv

LEMMA CInvNext ==
  ASSUME "delete" \notin Kind, MaxLosses = 0, Inv, Inv', CInv, Next
  PROVE  CInv'
<1>1. PICK s \in Server :
        \/ RequestStep(s) \/ MainStep(s) \/ (\E t \in Thread : PushStep(s, t))
        \/ CopyStep(s) \/ Restart(s)
  BY DEF Next
<1>2. OnlyBy(s)
  BY <1>1, RequestOnly, MainOnly, PushOnly, CopyOnly, RestartOnly DEF CInv
<1>3. Common'
  <2>1. ASSUME NEW q \in Server
        PROVE  th'[q]["main"].pc # "zkDelete" /\ \A t \in Thread : Named(th'[q][t].pack)
    <3>1. CASE q = s
      BY <1>2, <3>1 DEF OnlyBy
    <3>2. CASE q # s
      BY <1>2, <3>2 DEF OnlyBy, Apart, CInv, Common
    <3> QED
      BY <3>1, <3>2
  <2>2. ASSUME NEW n \in Node PROVE Named(PackOf(n)')
    <3>1. znode'[n] = znode[n] \/ Named(PackOf(n)')
      BY <1>2 DEF OnlyBy, Grows
    <3>2. Named(PackOf(n))
      BY DEF CInv, Common
    <3> QED
      BY <3>1, <3>2 DEF PackOf
  <2> QED
    BY <2>1, <2>2 DEF Common, Named
<1>4. ASSUME NEW q \in Server \ Writer, q # s
      PROVE  Passive(q)'
  <2>1. th'[q] = th[q] /\ nodeMzxid'[q] = nodeMzxid[q] /\ Grows
    BY <1>2, <1>4 DEF OnlyBy, Apart
  <2>2. Passive(q)
    BY DEF CInv
  <2>3. th'[q]["main"].pc \in {"idle", "dead", "start", "new"}
    BY <2>1, <2>2 DEF Passive
  <2> QED
    BY <2>1, <2>2, <2>3, PassiveLater
<1>5. ASSUME s \notin Writer
      PROVE  Passive(s)'
  <2>1. Passive(s) /\ Grows
    BY <1>2, <1>5 DEF CInv, OnlyBy
  <2>2. ~RequestStep(s)
    <3>1. \A kind : ~Request(s, kind)
      BY <1>5 DEF Request
    <3>2. \A n \in Node : ~Write(s, n) /\ ~AddNode(s, n) /\ ~DeleteNode(s, n)
      BY <3>1, Zenon DEF Write, AddNode, DeleteNode
    <3> QED
      BY <3>2 DEF RequestStep
  <2>3. CopyStep(s) => Passive(s)'
    BY <2>1, DeliverPassive, CreateNodesetPassive, CopyingPassive DEF CopyStep
  <2> QED
    BY <1>1, <2>1, <2>2, <2>3, MainPassive, PushPassive, RestartPassive
<1> QED
  BY <1>3, <1>4, <1>5 DEF CInv

LEMMA CInvStutters ==
  ASSUME CInv, UNCHANGED vars
  PROVE  CInv'
<1>1. UNCHANGED <<th, nodeMzxid, znode>>
  BY DEF vars, zkVars
<1>2. Common'
  BY <1>1 DEF CInv, Common, Named, PackOf
<1>3. ASSUME NEW q \in Server \ Writer PROVE Passive(q)'
  <2>1. Passive(q)
    BY DEF CInv
  <2>2. CopyOK(q, th[q]["completion"])'
    BY <1>1, <2>1 DEF Passive, CopyOK, Exists
  <2> QED
    BY <1>1, <2>1, <2>2 DEF Passive
<1> QED
  BY <1>2, <1>3 DEF CInv

\* If nobody deletes and ZooKeeper answers, a server without writers never pushes
\* what it copies, although its intercepted add goes as far as for a client's
\* request, through restarts and while other servers write the same nodes: when the
\* add asks, ZooKeeper has the node, no older than the table.
THEOREM CopiesNeverPushed ==
  ASSUME "delete" \notin Kind, MaxLosses = 0
  PROVE  Spec => []CopyingNeverPushes
<1>1. Init => CInv
  BY CInvInit
<1>2. IInv /\ IInv' /\ CInv /\ [Next]_vars => CInv'
  BY CInvNext, CInvStutters DEF IInv
<1>3. CInv => CopyingNeverPushes
  BY DEF CInv, Passive, CopyOK, CopyingNeverPushes
<1> QED
  BY <1>1, <1>2, <1>3, AlwaysIInv, PTL DEF Spec

-----------------------------------------------------------------------------
(* Servers that start.  Until a client asks for something every value is that *)
(* of the nodeset, so that servers can differ only in which nodes they have.  *)
(* The invariant says of each server, z being the znodes, u what it stores, t *)
(* its table, r its completion thread and S its list, that whatever it has    *)
(* watched, recorded or listed it stores, or will when it is done with it.    *)

Full == [val |-> 1, parented |-> TRUE]

Has(z, n) == z[n].mzxid # 0
ZnodesWhole(z) == \A n \in Node : Has(z, n) =>
                    /\ z[n].val = 1 /\ z[n].parented
                    /\ Parent[n] = 0 \/ Has(z, Parent[n])

Pushing == {"addGet", "addCheck", "exists", "set", "create", "stat", "record"}
Copies  == {"get", "check", "decode", "replace", "readd", "addGet", "addCheck"}
Bound   == {"get", "check", "decode", "readd"}

\* The thread will have stored n when it is done with it, if n is not yet.
Sure(u, r, n) == n = 0 \/ u[n] # 0 \/ (r.node = n /\ r.pc \in Bound)

Rooted(u, r) == \A n \in Node : u[n] \in {0, 1} /\ (u[n] # 0 => Sure(u, r, Parent[n]))

Behind(z, u, t, r) ==
  \A n \in Node : /\ t[n] <= z[n].mzxid
                  /\ t[n] # 0 => u[n] # 0 \/ (r.node = n /\ r.pc \in {"decode", "readd"})

HandReady(z, u, t, r) ==
  /\ r.pc # "dead"
  /\ r.pc \notin Without \cup {"get"} => r.pack = Full
  /\ r.pc \notin Without /\ ~r.creating =>
       r.pc \in Copies /\ Has(z, r.node) /\ Sure(u, r, Parent[r.node])
  /\ r.pc \notin Without /\ r.creating =>
       /\ r.pc \in Pushing /\ r.node \in Nodeset
       /\ Parent[r.node] = 0 \/ Has(z, Parent[r.node])
  /\ r.pc \in Pushing \cup {"replace"} => u[r.node] # 0
  /\ r.pc \in {"addCheck", "set", "stat", "record"} => Has(z, r.node)
  /\ r.pc \in {"check", "record"} => r.ver <= z[r.node].mzxid
  /\ r.pc = "check" => r.ver # 0
  /\ r.pc = "addCheck" => t[r.node] <= r.ver

\* The nodes of the nodeset that are not to be added any more are there.
Planting(z, u, r, S) ==
  \A m \in Nodeset : m \in S \/ (u[m] # 0 /\ (Has(z, m) \/ (r.pc \in Pushing /\ r.node = m)))

\* A listed node has a parent by the time it is decoded.
Listing(z, u, r, S) == \A m \in S : Has(z, m) /\ (Sure(u, r, Parent[m]) \/ Parent[m] \in S)

Core(z, u, t, r, S) ==
  /\ Rooted(u, r) /\ Behind(z, u, t, r) /\ HandReady(z, u, t, r)
  /\ r.creating => S \subseteq Nodeset /\ Planting(z, u, r, S)
  /\ ~r.creating => Listing(z, u, r, S)

StaysSure(u, r, v, x) == \A n \in Node : Sure(u, r, n) => Sure(v, x, n)

Ahead(z, y) == \A n \in Node : /\ z[n].mzxid \in Nat /\ y[n].mzxid \in Nat
                               /\ z[n].mzxid <= y[n].mzxid

Shaped(z, u, t, r, S) ==
  /\ HandOK(r) /\ CopierOK(r, S) /\ S \subseteq Node
  /\ \A n \in Node : t[n] \in Nat /\ z[n].mzxid \in Nat

LEMMA AboveOK ==
  ASSUME NEW n \in Node
  PROVE  Parent[n] # n /\ Parent[n] \in Node \cup {0} /\ n # 0 /\ n \in Nat /\ Parent[n] < n
<1>1. n \in Nat \ {0} /\ Parent[n] \in Node \cup {0} /\ Parent[n] < n
  BY ConstantsOK DEF ConstantsOK
<1> QED
  BY <1>1

\* The first of the listed nodes is listed without its parent.
LEMMA NotYet ==
  ASSUME NEW S \in SUBSET Node, NEW k \in S, \A m \in S : k <= m
  PROVE  Parent[k] \notin S
<1> SUFFICES ASSUME Parent[k] \in S PROVE FALSE
  OBVIOUS
<1>1. k \in Nat /\ Parent[k] \in Nat /\ Parent[k] < k
  BY ConstantsOK DEF ConstantsOK
<1>2. k <= Parent[k]
  OBVIOUS
<1> QED
  BY <1>1, <1>2

\* Znodes that get newer take nothing away.
LEMMA CoreAhead ==
  ASSUME NEW z, NEW y, NEW u, NEW t, NEW r, NEW S, Ahead(z, y), Shaped(z, u, t, r, S),
         Core(z, u, t, r, S)
  PROVE  Core(y, u, t, r, S)
<1>1. \A n \in Node : Has(z, n) => Has(y, n)
  BY DEF Ahead, Has
<1>2. Rooted(u, r)
  BY DEF Core
<1>3. Behind(y, u, t, r)
  <2>1. \A n \in Node : t[n] \in Nat /\ z[n].mzxid \in Nat /\ y[n].mzxid \in Nat
                        /\ t[n] <= z[n].mzxid /\ z[n].mzxid <= y[n].mzxid
    BY DEF Ahead, Shaped, Core, Behind
  <2>2. \A n \in Node : t[n] <= y[n].mzxid
    BY <2>1
  <2> QED
    BY <2>2 DEF Core, Behind
<1>4. HandReady(y, u, t, r)
  <2>1. HandReady(z, u, t, r)
    BY DEF Core
  <2>2. CASE r.pc \in Without
    BY <2>1, <2>2 DEF HandReady, Without, Pushing
  <2>3. CASE r.pc \notin Without
    <3>1. r.node \in Node /\ r.ver \in Nat
      BY <2>3 DEF Shaped, HandOK, ThreadState
    <3>2. Parent[r.node] \in Node \cup {0}
      BY <3>1, AboveOK
    <3>3. \A k \in Nat : k <= z[r.node].mzxid => k <= y[r.node].mzxid
      BY <3>1 DEF Ahead
    <3>4. Has(z, r.node) => Has(y, r.node)
      BY <1>1, <3>1
    <3>5. Parent[r.node] = 0 \/ Has(z, Parent[r.node]) => Parent[r.node] = 0 \/ Has(y, Parent[r.node])
      BY <1>1, <3>2
    <3>6. r.ver <= z[r.node].mzxid => r.ver <= y[r.node].mzxid
      BY <3>1, <3>3
    <3> QED
      BY <2>1, <3>4, <3>5, <3>6 DEF HandReady
  <2> QED
    BY <2>2, <2>3
<1>5. r.creating => S \subseteq Nodeset /\ Planting(y, u, r, S)
  BY <1>1, ConstantsOK DEF Core, Planting, ConstantsOK
<1>6. ~r.creating => Listing(y, u, r, S)
  BY <1>1 DEF Core, Listing, Shaped
<1> QED
  BY <1>2, <1>3, <1>4, <1>5, <1>6 DEF Core

\* The thread goes on with its node, and stores and records nothing.
LEMMA OnwardCore ==
  ASSUME NEW z, NEW u, NEW t, NEW r, NEW x, NEW S, Core(z, u, t, r, S),
         x.node = r.node, x.creating = r.creating, r.pc \notin {"decode", "readd"},
         r.pc \in Bound => x.pc \in Bound,
         r.creating /\ r.pc \in Pushing => x.pc \in Pushing,
         HandReady(z, u, t, x)
  PROVE  Core(z, u, t, x, S) /\ StaysSure(u, r, u, x)
<1>1. \A n : Sure(u, r, n) => Sure(u, x, n)
  BY DEF Sure
<1>2. Rooted(u, x)
  BY <1>1 DEF Core, Rooted
<1>3. Behind(z, u, t, x)
  BY DEF Core, Behind
<1>4. x.creating => S \subseteq Nodeset /\ Planting(z, u, x, S)
  BY DEF Core, Planting
<1>5. ~x.creating => Listing(z, u, x, S)
  BY <1>1 DEF Core, Listing
<1> QED
  BY <1>1, <1>2, <1>3, <1>4, <1>5 DEF Core, StaysSure

\* The thread is done with a node, if it had one, and takes up the least of N.
LEMMA TakenCore ==
  ASSUME NEW z, NEW u, NEW t, NEW r, NEW x, NEW S, Core(z, u, t, r, S),
         r.pc \in {"idle", "check", "addCheck"}, r.pc # "idle" => u[r.node] # 0,
         NEW N \in SUBSET Node, NEW k \in N, \A m \in N : k <= m,
         \A m \in N : Has(z, m) /\ (Sure(u, r, Parent[m]) \/ Parent[m] \in N),
         x.pc = "get", x.node = k, ~x.creating
  PROVE  Core(z, u, t, x, N \ {k}) /\ StaysSure(u, r, u, x)
<1>1. \A n : Sure(u, r, n) => n = 0 \/ u[n] # 0
  BY DEF Sure, Bound
<1>2. \A n : Sure(u, r, n) => Sure(u, x, n)
  BY <1>1 DEF Sure
<1>3. Rooted(u, x)
  BY <1>2 DEF Core, Rooted
<1>4. Behind(z, u, t, x)
  BY DEF Core, Behind
<1>5. HandReady(z, u, t, x)
  <2>1. Parent[k] \notin N
    BY NotYet
  <2>2. Has(z, k) /\ Sure(u, x, Parent[k])
    BY <1>2, <2>1
  <2> QED
    BY <2>2 DEF HandReady, Copies, Pushing, Without
<1>6. Listing(z, u, x, N \ {k})
  <2> SUFFICES ASSUME NEW m \in N, m # k
               PROVE  Has(z, m) /\ (Sure(u, x, Parent[m]) \/ Parent[m] \in N \ {k})
    BY DEF Listing
  <2>1. Parent[m] = k => Sure(u, x, Parent[m])
    BY DEF Sure, Bound
  <2> QED
    BY <1>2, <2>1
<1> QED
  BY <1>2, <1>3, <1>4, <1>5, <1>6 DEF Core, StaysSure

\* The thread has nothing left to do, or begins with the nodeset.
LEMMA RestingCore ==
  ASSUME NEW z, NEW u, NEW t, NEW r, NEW x, NEW S, NEW T, Core(z, u, t, r, S),
         r.pc \in {"idle", "check", "addCheck", "nodeset"},
         r.pc \in {"check", "addCheck"} => u[r.node] # 0,
         \/ x.pc = "idle" /\ ~x.creating /\ T = {}
         \/ x.pc = "nodeset" /\ x.creating /\ T = Nodeset
  PROVE  Core(z, u, t, x, T) /\ StaysSure(u, r, u, x)
<1>1. \A n : Sure(u, r, n) => Sure(u, x, n)
  BY DEF Sure, Bound
<1>2. Rooted(u, x)
  BY <1>1 DEF Core, Rooted
<1>3. Behind(z, u, t, x)
  BY DEF Core, Behind
<1>4. HandReady(z, u, t, x)
  BY DEF HandReady, Without, Pushing
<1>5. (x.creating => T \subseteq Nodeset /\ Planting(z, u, x, T)) /\ (~x.creating => Listing(z, u, x, T))
  BY DEF Planting, Listing
<1> QED
  BY <1>1, <1>2, <1>3, <1>4, <1>5 DEF Core, StaysSure

\* The mzxid of a fresh pack is recorded.
LEMMA CheckedCore ==
  ASSUME NEW z, NEW u, NEW t, NEW w, NEW r, NEW x, NEW S, Core(z, u, t, r, S),
         r.pc = "check", r.node \in Node, ~r.creating,
         \A n \in Node : w[n] = IF n = r.node THEN r.ver ELSE t[n],
         x.pc = "decode", x.node = r.node, x.pack = r.pack, ~x.creating
  PROVE  Core(z, u, w, x, S) /\ StaysSure(u, r, u, x)
<1>1. \A n : Sure(u, r, n) => Sure(u, x, n)
  BY DEF Sure, Bound
<1>2. Rooted(u, x)
  BY <1>1 DEF Core, Rooted
<1>3. Behind(z, u, w, x)
  BY DEF Core, Behind, HandReady
<1>4. HandReady(z, u, w, x)
  BY <1>1 DEF Core, HandReady, Without, Pushing, Copies
<1>5. Listing(z, u, x, S)
  BY <1>1 DEF Core, Listing
<1> QED
  BY <1>1, <1>2, <1>3, <1>4, <1>5 DEF Core, StaysSure

\* A pack is decoded, or added in place of the node that was there.
LEMMA AddedCore ==
  ASSUME NEW z, NEW u, NEW v, NEW t, NEW r, NEW x, NEW S \in SUBSET Node, Core(z, u, t, r, S),
         r.pc \in {"decode", "readd"}, r.node \in Node, ~r.creating,
         \A n \in Node : v[n] = IF n = r.node THEN 1 ELSE u[n],
         x.pc = "addGet", x.node = r.node, x.pack = r.pack, ~x.creating
  PROVE  Core(z, v, t, x, S) /\ StaysSure(u, r, v, x)
<1>1. \A n \in Node : Sure(u, r, n) => n = 0 \/ v[n] # 0
  BY DEF Sure
<1>2. \A n \in Node \cup {0} : Sure(u, r, n) => Sure(v, x, n)
  BY <1>1 DEF Sure
<1>3. \A n \in Node : Parent[n] \in Node \cup {0} /\ Parent[n] # n
  BY AboveOK
<1>4. Sure(v, x, Parent[r.node]) /\ Has(z, r.node)
  BY <1>2, <1>3 DEF Core, HandReady, Without
<1>5. Rooted(v, x)
  BY <1>2, <1>3, <1>4 DEF Core, Rooted
<1>6. Behind(z, v, t, x)
  BY DEF Core, Behind
<1>7. HandReady(z, v, t, x)
  BY <1>4 DEF Core, HandReady, Without, Pushing, Copies
<1>8. Listing(z, v, x, S)
  BY <1>2, <1>3 DEF Core, Listing
<1>9. StaysSure(u, r, v, x)
  BY <1>2 DEF StaysSure
<1> QED
  BY <1>5, <1>6, <1>7, <1>8, <1>9 DEF Core

\* A node that was there is taken out, to be added anew.
LEMMA ReplacedCore ==
  ASSUME NEW z, NEW u, NEW v, NEW t, NEW r, NEW x, NEW S \in SUBSET Node, Core(z, u, t, r, S),
         r.pc = "replace", r.node \in Node, ~r.creating,
         \A n \in Node : v[n] = IF n = r.node THEN 0 ELSE u[n],
         x.pc = "readd", x.node = r.node, x.pack = r.pack, ~x.creating
  PROVE  Core(z, v, t, x, S) /\ StaysSure(u, r, v, x)
<1>1. \A n \in Node \cup {0} : Sure(u, r, n) => Sure(v, x, n)
  BY DEF Sure, Bound
<1>3. \A n \in Node : Parent[n] \in Node \cup {0} /\ Parent[n] # n
  BY AboveOK
<1>4. Sure(v, x, Parent[r.node]) /\ Has(z, r.node)
  BY <1>1, <1>3 DEF Core, HandReady, Without
<1>5. Rooted(v, x)
  BY <1>1, <1>3 DEF Core, Rooted
<1>6. Behind(z, v, t, x)
  BY DEF Core, Behind
<1>7. HandReady(z, v, t, x)
  BY <1>4 DEF Core, HandReady, Without, Pushing, Copies
<1>8. Listing(z, v, x, S)
  BY <1>1, <1>3 DEF Core, Listing
<1>9. StaysSure(u, r, v, x)
  BY <1>1 DEF StaysSure
<1> QED
  BY <1>5, <1>6, <1>7, <1>8, <1>9 DEF Core

\* The next node of the nodeset is added; its parent is there, and on ZooKeeper.
LEMMA PlantedCore ==
  ASSUME NEW z, NEW u, NEW v, NEW t, NEW r, NEW x, NEW S \in SUBSET Node, Core(z, u, t, r, S),
         r.pc = "nodeset", r.creating, NEW k \in S, \A m \in S : k <= m,
         \A n \in Node : v[n] = IF n = k THEN 1 ELSE u[n],
         x.pc = "addGet", x.node = k, x.pack = Full, x.creating
  PROVE  Core(z, v, t, x, S \ {k}) /\ StaysSure(u, r, v, x)
<1>1. \A n \in Node \cup {0} : Sure(u, r, n) => Sure(v, x, n)
  BY DEF Sure, Bound
<1>2. \A n \in Node : Parent[n] \in Node \cup {0} /\ Parent[n] # n
  BY AboveOK
<1>3. S \subseteq Nodeset /\ Planting(z, u, r, S)
  BY DEF Core
<1>4. Parent[k] = 0 \/ (Parent[k] \in Nodeset /\ u[Parent[k]] # 0 /\ Has(z, Parent[k]))
  <2>1. k \in Nat /\ Parent[k] \in Node \cup {0} /\ Parent[k] < k /\ k \in Nodeset
    BY <1>3, AboveOK
  <2>2. Parent[k] \in Nodeset \cup {0}
    BY <2>1, ConstantsOK DEF ConstantsOK
  <2>4. Parent[k] \notin S
    BY NotYet
  <2> QED
    BY <1>3, <2>2, <2>4 DEF Planting, Pushing
<1>5. Rooted(v, x)
  <2>1. Sure(v, x, Parent[k])
    BY <1>2, <1>4 DEF Sure
  <2> QED
    BY <1>1, <1>2, <2>1 DEF Core, Rooted
<1>6. Behind(z, v, t, x)
  BY DEF Core, Behind
<1>7. HandReady(z, v, t, x)
  BY <1>3, <1>4 DEF HandReady, Without, Pushing
<1>8. Planting(z, v, x, S \ {k}) /\ S \ {k} \subseteq Nodeset
  BY <1>3, ConstantsOK DEF Planting, Pushing, ConstantsOK
<1> QED
  BY <1>1, <1>5, <1>6, <1>7, <1>8 DEF Core, StaysSure

\* A node of the nodeset is on ZooKeeper, and perhaps recorded.
LEMMA PushedCore ==
  ASSUME NEW z, NEW u, NEW t, NEW w, NEW r, NEW x, NEW S, Core(z, u, t, r, S),
         r.creating, r.node \in Node, r.pc \in {"addCheck", "record"},
         \/ \A n \in Node : w[n] = t[n]
         \/ r.pc = "record" /\ \A n \in Node : w[n] = IF n = r.node THEN r.ver ELSE t[n],
         x.pc = "nodeset", x.creating
  PROVE  Core(z, u, w, x, S) /\ StaysSure(u, r, u, x)
<1>1. \A n : Sure(u, r, n) => Sure(u, x, n)
  BY DEF Sure, Bound
<1>2. Rooted(u, x)
  BY <1>1 DEF Core, Rooted
<1>3. u[r.node] # 0 /\ Has(z, r.node) /\ (r.pc = "record" => r.ver <= z[r.node].mzxid)
  BY DEF Core, HandReady, Pushing
<1>4. Behind(z, u, w, x)
  BY <1>3 DEF Core, Behind
<1>5. HandReady(z, u, w, x)
  BY DEF HandReady, Without, Pushing
<1>6. S \subseteq Nodeset /\ Planting(z, u, x, S)
  BY <1>3 DEF Core, Planting
<1> QED
  BY <1>1, <1>2, <1>4, <1>5, <1>6 DEF Core, StaysSure

-----------------------------------------------------------------------------
(* Until a client asks for something, and while every call is answered *)

Opened == made = 0 /\ losses = MaxLosses

\* No event is about a node the server neither stores nor is about to store,
\* and a list is closed under parents.
EventOK(z, u, r, e) ==
  /\ e.kind # "deleted"
  /\ e.kind = "changed" => \A n \in e.nodes : Has(z, n) /\ Sure(u, r, n)
  /\ e.kind = "list" => \A n \in e.nodes : Has(z, n) /\ Parent[n] \in e.nodes \cup {0}

Heard(z, u, r, E, W) ==
  /\ \A e \in E : EventOK(z, u, r, e)
  /\ \A n \in W : Sure(u, r, n)

Watched(s) == {n \in Node : <<s, n>> \in dataWatch}

\* Who found nothing will add the nodeset, is at it, or has done it.
FoundOK(s) ==
  \/ addressSpaceExists[s]
  \/ th[s]["main"].pc \in {"start", "new"}
  \/ Queued(s, "start") # {}
  \/ th[s]["completion"].creating
  \/ \A n \in Nodeset : Has(znode, n)

ServerOK(s) ==
  /\ th[s]["main"].pc \in {"start", "new", "idle"}
  /\ Core(znode, store[s], nodeMzxid[s], th[s]["completion"], todo[s])
  /\ Heard(znode, store[s], th[s]["completion"], Elements(queue[s]), Watched(s))
  /\ FoundOK(s)

AllOK == ZnodesWhole(znode) /\ \A s \in Server : ServerOK(s)

LEMMA HeardLater ==
  ASSUME NEW z, NEW y, NEW u, NEW v, NEW r, NEW x, NEW E \in SUBSET Events,
         NEW W \in SUBSET Node, Heard(z, u, r, E, W), Ahead(z, y), StaysSure(u, r, v, x),
         NEW F, NEW V,
         \A e \in F : e \in E \/ EventOK(y, v, x, e),
         \A n \in V : n \in W \/ Sure(v, x, n)
  PROVE  Heard(y, v, x, F, V)
<1>1. \A n \in Node : Has(z, n) => Has(y, n)
  BY DEF Ahead, Has
<1>2. \A e \in E : e.nodes \in SUBSET Node
  BY DEF Events
<1>3. \A n \in Node : Sure(u, r, n) => Sure(v, x, n)
  BY DEF StaysSure
<1>4. ASSUME NEW e \in E PROVE EventOK(y, v, x, e)
  <2>1. EventOK(z, u, r, e)
    BY DEF Heard
  <2>2. e.kind = "changed" => \A n \in e.nodes : Has(y, n) /\ Sure(v, x, n)
    BY <1>1, <1>2, <1>3, <2>1 DEF EventOK
  <2>3. e.kind = "list" => \A n \in e.nodes : Has(y, n) /\ Parent[n] \in e.nodes \cup {0}
    BY <1>1, <1>2, <2>1 DEF EventOK
  <2> QED
    BY <2>1, <2>2, <2>3 DEF EventOK
<1>5. \A n \in W : Sure(v, x, n)
  BY <1>3 DEF Heard
<1> QED
  BY <1>4, <1>5 DEF Heard

LEMMA QueueTyped ==
  ASSUME ZkOK, NEW s \in Server
  PROVE  queue[s] \in Seq(Events) /\ Elements(queue[s]) \in SUBSET Events
<1>1. queue[s] \in Seq(Events)
  BY DEF ZkOK
<1> QED
  BY <1>1 DEF Elements

LEMMA NowShaped ==
  ASSUME Inv, NEW s \in Server
  PROVE  Shaped(znode, store[s], nodeMzxid[s], th[s]["completion"], todo[s])
  BY DEF Inv, ZkOK, TableOK, ThreadsOK, Thread, Shaped

\* Of the news of q only old ones, and those of a new or changed znode, are there;
\* and none is lost.
Calm(q) ==
  /\ \A e \in Elements(queue'[q]) :
       \/ e \in Elements(queue[q])
       \/ e.kind = "child"
       \/ \E n \in Watched(q) : e = Event("changed", {n}) /\ Has(znode, n)
  /\ Elements(queue[q]) \subseteq Elements(queue'[q])
  /\ Watched(q)' \subseteq Watched(q)

LEMMA FoundKept ==
  ASSUME NEW q \in Server, FoundOK(q), addressSpaceExists'[q] = addressSpaceExists[q],
         th'[q]["main"] = th[q]["main"],
         th[q]["completion"].creating => th'[q]["completion"].creating,
         Ahead(znode, znode'),
         \A e \in Elements(queue[q]) : e.kind = "start" => e \in Elements(queue'[q])
  PROVE  FoundOK(q)'
<1>1. Queued(q, "start") \subseteq Queued(q, "start")'
  BY QueuedElements, QueuedElementsNext
<1>2. \A n \in Node : Has(znode, n) => Has(znode', n)
  BY DEF Ahead, Has
<1>3. Nodeset \subseteq Node
  BY ConstantsOK DEF ConstantsOK
<1>4. (\A n \in Nodeset : Has(znode, n)) => \A n \in Nodeset : Has(znode', n)
  BY <1>2, <1>3
<1> QED
  BY <1>1, <1>4 DEF FoundOK

\* What s has, once it has taken a step.
LEMMA NowOK ==
  ASSUME Inv, NEW s \in Server, ServerOK(s), Ahead(znode, znode'),
         th'[s]["main"].pc \in {"start", "new", "idle"},
         Core(znode', store'[s], nodeMzxid'[s], th'[s]["completion"], todo'[s]),
         StaysSure(store[s], th[s]["completion"], store'[s], th'[s]["completion"]),
         \A e \in Elements(queue'[s]) :
           e \in Elements(queue[s]) \/ EventOK(znode', store'[s], th'[s]["completion"], e),
         \A n \in Watched(s)' : n \in Watched(s) \/ Sure(store'[s], th'[s]["completion"], n),
         FoundOK(s)'
  PROVE  ServerOK(s)'
<1>1. Elements(queue[s]) \in SUBSET Events /\ Watched(s) \in SUBSET Node
  BY QueueTyped DEF Inv, Watched
<1>2. Heard(znode, store[s], th[s]["completion"], Elements(queue[s]), Watched(s))
  BY DEF ServerOK
<1>3. Heard(znode', store'[s], th'[s]["completion"], Elements(queue'[s]), Watched(s)')
  BY <1>1, <1>2, HeardLater
<1> QED
  BY <1>3 DEF ServerOK

\* The steps of the others, and of s when only its thread or store changes.
LEMMA CalmOK ==
  ASSUME Inv, NEW q \in Server, ServerOK(q), Ahead(znode, znode'), Calm(q),
         th'[q]["main"] = th[q]["main"], addressSpaceExists'[q] = addressSpaceExists[q],
         th[q]["completion"].creating => th'[q]["completion"].creating,
         Core(znode', store'[q], nodeMzxid'[q], th'[q]["completion"], todo'[q]),
         StaysSure(store[q], th[q]["completion"], store'[q], th'[q]["completion"])
  PROVE  ServerOK(q)'
<1>1. FoundOK(q)'
  BY FoundKept DEF ServerOK, Calm
<1>2. \A n \in Node : Sure(store[q], th[q]["completion"], n) =>
                      Sure(store'[q], th'[q]["completion"], n)
  BY DEF StaysSure
<1>3. \A n \in Watched(q) : Sure(store'[q], th'[q]["completion"], n)
  BY <1>2 DEF ServerOK, Heard, Watched
<1>4. \A n \in Node : Has(znode, n) => Has(znode', n)
  BY DEF Ahead, Has
<1>5. ASSUME NEW e \in Elements(queue'[q])
      PROVE  e \in Elements(queue[q]) \/ EventOK(znode', store'[q], th'[q]["completion"], e)
  <2>1. CASE e.kind = "child"
    BY <2>1 DEF EventOK
  <2>2. ASSUME NEW n \in Watched(q), e = Event("changed", {n}), Has(znode, n)
        PROVE  EventOK(znode', store'[q], th'[q]["completion"], e)
    <3>1. e.kind = "changed" /\ e.nodes = {n} /\ n \in Node
      BY <2>2 DEF Event, Watched
    <3> QED
      BY <1>3, <1>4, <2>2, <3>1 DEF EventOK
  <2> QED
    BY <2>1, <2>2 DEF Calm
<1>6. \A n \in Watched(q)' : n \in Watched(q)
  BY DEF Calm
<1> QED
  BY <1>1, <1>5, <1>6, NowOK DEF ServerOK

LEMMA OtherOK ==
  ASSUME Inv, NEW q \in Server, ServerOK(q), Ahead(znode, znode'), Calm(q),
         th'[q] = th[q], addressSpaceExists'[q] = addressSpaceExists[q],
         todo'[q] = todo[q], store'[q] = store[q], nodeMzxid'[q] = nodeMzxid[q]
  PROVE  ServerOK(q)'
<1>1. Core(znode', store[q], nodeMzxid[q], th[q]["completion"], todo[q])
  BY NowShaped, CoreAhead DEF ServerOK
<1>2. StaysSure(store[q], th[q]["completion"], store[q], th[q]["completion"])
  BY DEF StaysSure
<1> QED
  BY <1>1, <1>2, CalmOK

\* What s does to the rest: nothing, but for new znodes and their news.
Spares(s) ==
  /\ Ahead(znode, znode') /\ ZnodesWhole(znode')
  /\ \A q \in Server \ {s} :
       /\ Calm(q)
       /\ th'[q] = th[q] /\ addressSpaceExists'[q] = addressSpaceExists[q]
       /\ todo'[q] = todo[q] /\ store'[q] = store[q] /\ nodeMzxid'[q] = nodeMzxid[q]

LEMMA RestOK ==
  ASSUME Inv, NEW s \in Server, AllOK, Spares(s), ServerOK(s)'
  PROVE  AllOK'
<1>1. \A q \in Server \ {s} : ServerOK(q)'
  BY OtherOK DEF Spares, AllOK
<1>2. \A q \in Server : ServerOK(q)'
  BY <1>1
<1> QED
  BY <1>2 DEF Spares, AllOK

LEMMA AnsweredOnly ==
  ASSUME Inv, Answered
  PROVE  ~Lost
  BY DEF Inv, BoundsOK, Answered, Lost

LEMMA SameCalm ==
  ASSUME ZkOK, NEW q \in Server, UNCHANGED <<queue, dataWatch>>
  PROVE  Calm(q)
  BY DEF Calm, Watched

LEMMA SameAhead ==
  ASSUME ZkOK, UNCHANGED znode
  PROVE  Ahead(znode, znode')
<1>1. \A n \in Node : znode[n].mzxid \in Nat
  BY DEF ZkOK
<1> QED
  BY <1>1 DEF Ahead

\* A znode is put or set, under one that is there.
LEMMA CommitCalm ==
  ASSUME ZkOK, ZnodesWhole(znode), NEW n \in Node, NEW p, p = Full,
         CreateZnode(n, p) \/ SetZnode(n, p), Parent[n] = 0 \/ Has(znode, Parent[n])
  PROVE  /\ Ahead(znode, znode') /\ ZnodesWhole(znode') /\ Has(znode', n)
         /\ zxid' = znode'[n].mzxid
         /\ \A q \in Server : Calm(q)
<1>1. /\ zxid \in Nat /\ znode[n].mzxid \in Nat /\ znode[n].mzxid <= zxid
      /\ \A m \in Node : znode[m].mzxid \in Nat
  BY DEF ZkOK
<1>2. znode' = [znode EXCEPT ![n] = Version(p, zxid + 1)] /\ zxid' = zxid + 1
  BY DEF CreateZnode, SetZnode, Commit
<1>3. /\ \A m \in Node : m # n => znode'[m] = znode[m]
      /\ znode'[n] = Version(Full, zxid + 1)
  BY <1>2 DEF ZkOK
<1>4. znode'[n].mzxid = zxid + 1 /\ znode'[n].val = 1 /\ znode'[n].parented
  BY <1>3 DEF Version, Full
<1>5. Ahead(znode, znode')
  <2>1. ASSUME NEW m \in Node
        PROVE  znode'[m].mzxid \in Nat /\ znode[m].mzxid <= znode'[m].mzxid
    <3>1. CASE m = n
      BY <1>1, <1>4, <3>1
    <3>2. CASE m # n
      BY <1>1, <1>3, <3>2
    <3> QED
      BY <3>1, <3>2
  <2> QED
    BY <1>1, <2>1 DEF Ahead
<1>6. Has(znode', n) /\ zxid' = znode'[n].mzxid
  BY <1>1, <1>2, <1>4 DEF Has
<1>7. \A m \in Node : Has(znode, m) => Has(znode', m)
  BY <1>5 DEF Ahead, Has
<1>8. \A m \in Node : Parent[m] = 0 \/ Parent[m] \in Node
  BY ConstantsOK DEF ConstantsOK
<1>9. ZnodesWhole(znode')
  <2> SUFFICES ASSUME NEW m \in Node, Has(znode', m)
               PROVE  /\ znode'[m].val = 1 /\ znode'[m].parented
                      /\ Parent[m] = 0 \/ Has(znode', Parent[m])
    BY DEF ZnodesWhole
  <2>1. CASE m = n
    BY <1>4, <1>7, <1>8, <2>1
  <2>2. CASE m # n
    <3>1. znode'[m] = znode[m] /\ Has(znode, m)
      BY <1>3, <2>2 DEF Has
    <3> QED
      BY <1>7, <1>8, <3>1 DEF ZnodesWhole
  <2> QED
    BY <2>1, <2>2
<1>10. PICK kind \in {"created", "changed"} :
         /\ Notify(kind, n, kind # "changed")
         /\ kind = "created" => ~Exists(n)
         /\ kind = "changed" => Exists(n)
  BY DEF CreateZnode, SetZnode
<1>11. kind = "created" => \A q \in Server : <<q, n>> \notin dataWatch
  BY <1>10 DEF ZkOK
<1>12. \A q \in Server : Elements(queue'[q]) =
         Elements(queue[q])
           \cup (IF <<q, n>> \in dataWatch THEN {Event(kind, {n})} ELSE {})
           \cup (IF kind # "changed" /\ q \in childWatch THEN {Event("child", {})} ELSE {})
  <2>1. kind \in {"created", "changed", "deleted"} /\ Notify(kind, n, kind # "changed")
    BY <1>10
  <2> QED
    BY <1>11, <2>1, NotifyElements
<1>13. dataWatch' \subseteq dataWatch
  BY <1>10 DEF Notify
<1>14. ASSUME NEW q \in Server PROVE Calm(q)
  <2>1. Event("child", {}).kind = "child"
    BY DEF Event
  <2>2. <<q, n>> \in dataWatch => n \in Watched(q) /\ kind = "changed" /\ Has(znode, n)
    BY <1>10, <1>11 DEF Watched, Exists, Has
  <2>3. ASSUME NEW e \in Elements(queue'[q])
        PROVE  \/ e \in Elements(queue[q])
               \/ e.kind = "child"
               \/ \E m \in Watched(q) : e = Event("changed", {m}) /\ Has(znode, m)
    BY <1>12, <2>1, <2>2
  <2>4. Elements(queue[q]) \subseteq Elements(queue'[q])
    BY <1>12
  <2>5. Watched(q)' \subseteq Watched(q)
    BY <1>13 DEF Watched
  <2> QED
    BY <2>3, <2>4, <2>5 DEF Calm
<1> QED
  BY <1>5, <1>6, <1>9, <1>14

\* A step of the completion thread on which ZooKeeper is as it was.
LEMMA QuietOK ==
  ASSUME Inv, AllOK, NEW s \in Server, NEW x,
         th' = [th EXCEPT ![s]["completion"] = x], UNCHANGED zkVars, UNCHANGED addressSpaceExists,
         \A q \in Server \ {s} : /\ todo'[q] = todo[q] /\ store'[q] = store[q]
                                 /\ nodeMzxid'[q] = nodeMzxid[q],
         Core(znode, store'[s], nodeMzxid'[s], x, todo'[s]),
         StaysSure(store[s], th[s]["completion"], store'[s], x),
         th[s]["completion"].creating => x.creating
  PROVE  AllOK'
<1>1. /\ th'[s]["main"] = th[s]["main"] /\ th'[s]["completion"] = x
      /\ \A q \in Server \ {s} : th'[q] = th[q]
  BY DEF Inv, ThreadsOK, Thread
<1>2. znode' = znode /\ Ahead(znode, znode') /\ \A q \in Server : Calm(q)
  BY SameAhead, SameCalm DEF Inv, zkVars
<1>3. Spares(s)
  BY <1>1, <1>2 DEF Spares, AllOK
<1>4. ServerOK(s)'
  BY <1>1, <1>2, CalmOK DEF AllOK
<1> QED
  BY <1>3, <1>4, RestOK

\* ... on which it looks at its znode, and watches it.
LEMMA WatchingOK ==
  ASSUME Inv, AllOK, NEW s \in Server, NEW x, NEW n \in Node,
         th' = [th EXCEPT ![s]["completion"] = x], Watch(s, n),
         UNCHANGED <<addressSpaceExists, todo, store, nodeMzxid>>,
         Core(znode, store[s], nodeMzxid[s], x, todo[s]),
         StaysSure(store[s], th[s]["completion"], store[s], x),
         Sure(store[s], x, n),
         th[s]["completion"].creating => x.creating
  PROVE  AllOK'
<1>1. /\ th'[s]["main"] = th[s]["main"] /\ th'[s]["completion"] = x
      /\ \A q \in Server \ {s} : th'[q] = th[q]
  BY DEF Inv, ThreadsOK, Thread
<1>2. znode' = znode /\ queue' = queue /\ dataWatch' = dataWatch \cup {<<s, n>>}
  BY DEF Watch
<1>3. Ahead(znode, znode')
  BY <1>2, SameAhead DEF Inv
<1>4. \A q \in Server \ {s} : Calm(q)
  BY <1>2 DEF Calm, Watched
<1>5. Spares(s)
  BY <1>1, <1>2, <1>3, <1>4 DEF Spares, AllOK
<1>6. \A m \in Watched(s)' : m \in Watched(s) \/ m = n
  BY <1>2 DEF Watched
<1>7. FoundOK(s)'
  BY <1>1, <1>2, <1>3, FoundKept DEF AllOK, ServerOK
<1>8. ServerOK(s)'
  BY <1>1, <1>2, <1>3, <1>6, <1>7, NowOK DEF AllOK, ServerOK
<1> QED
  BY <1>5, <1>8, RestOK

\* ... on which it puts or sets a znode.
LEMMA CommittingOK ==
  ASSUME Inv, AllOK, NEW s \in Server, NEW x, NEW n \in Node, NEW p, p = Full,
         th' = [th EXCEPT ![s]["completion"] = x], CreateZnode(n, p) \/ SetZnode(n, p),
         Parent[n] = 0 \/ Has(znode, Parent[n]),
         UNCHANGED <<addressSpaceExists, todo, store, nodeMzxid>>,
         th[s]["completion"].creating = x.creating, th[s]["completion"].node = x.node,
         th[s]["completion"].pc \in {"set", "create"}, x.pc \in Pushing,
         HandReady(znode', store[s], nodeMzxid[s], x)
  PROVE  AllOK'
<1> DEFINE r == th[s]["completion"]
<1>1. /\ th'[s]["main"] = th[s]["main"] /\ th'[s]["completion"] = x
      /\ \A q \in Server \ {s} : th'[q] = th[q]
  BY DEF Inv, ThreadsOK, Thread
<1>2. Ahead(znode, znode') /\ ZnodesWhole(znode') /\ \A q \in Server : Calm(q)
  BY CommitCalm DEF Inv, AllOK
<1>3. Spares(s)
  BY <1>1, <1>2 DEF Spares
<1>4. Core(znode', store[s], nodeMzxid[s], r, todo[s])
  BY <1>2, NowShaped, CoreAhead DEF AllOK, ServerOK
<1>5. /\ Core(znode', store[s], nodeMzxid[s], x, todo[s])
      /\ StaysSure(store[s], r, store[s], x)
  <2>1. r.pc \notin {"decode", "readd"} /\ r.pc \notin Bound
    BY DEF Bound
  <2> HIDE DEF r
  <2> QED
    BY <1>4, <2>1, OnwardCore DEF r
<1>6. ServerOK(s)'
  BY <1>1, <1>2, <1>5, CalmOK DEF AllOK
<1> QED
  BY <1>3, <1>6, RestOK

-----------------------------------------------------------------------------
(* The completion thread's steps *)

LEMMA HandNow ==
  ASSUME Inv, NEW s \in Server
  PROVE  /\ th \in [Server -> [Thread -> ThreadState]] /\ th[s]["completion"] \in ThreadState
         /\ th[s]["completion"].pc \notin Without => th[s]["completion"].node \in Node
         /\ CopierOK(th[s]["completion"], todo[s]) /\ todo[s] \in SUBSET Node
         /\ todo \in [Server -> SUBSET Node]
         /\ store \in [Server -> [Node -> Value]] /\ nodeMzxid \in [Server -> [Node -> Nat]]
  BY DEF Inv, ThreadsOK, HandOK, Thread, UaOK, TableOK

\* The thread keeps its node and its pack.
GoesTo(s, x, l, k) ==
  /\ th' = [th EXCEPT ![s]["completion"] = x]
  /\ x.pc = l /\ x.ver = k /\ x.node = th[s]["completion"].node
  /\ x.pack = th[s]["completion"].pack /\ x.creating = th[s]["completion"].creating

LEMMA GoesOn ==
  ASSUME Inv, NEW s \in Server, NEW l, NEW v, NEW k,
         \/ Goto(s, "completion", l) /\ k = th[s]["completion"].ver
         \/ th' = [th EXCEPT ![s]["completion"].pc = l, ![s]["completion"].ver = k]
         \/ /\ th' = [th EXCEPT ![s]["completion"].pc = l, ![s]["completion"].again = v]
            /\ k = th[s]["completion"].ver
  PROVE  \E x : GoesTo(s, x, l, k)
<1> DEFINE r  == th[s]["completion"]
           x1 == [r EXCEPT !.pc = l]
           x2 == [r EXCEPT !.pc = l, !.ver = k]
           x3 == [r EXCEPT !.pc = l, !.again = v]
<1>1. th \in [Server -> [Thread -> ThreadState]] /\ r \in ThreadState /\ "completion" \in Thread
  BY HandNow DEF Thread
<1>2. /\ x1.pc = l /\ x1.ver = r.ver /\ x1.node = r.node /\ x1.pack = r.pack /\ x1.creating = r.creating
      /\ x2.pc = l /\ x2.ver = k /\ x2.node = r.node /\ x2.pack = r.pack /\ x2.creating = r.creating
      /\ x3.pc = l /\ x3.ver = r.ver /\ x3.node = r.node /\ x3.pack = r.pack /\ x3.creating = r.creating
  BY <1>1 DEF ThreadState
<1>3. CASE Goto(s, "completion", l) /\ k = r.ver
  <2>1. th' = [th EXCEPT ![s]["completion"] = x1]
    BY <1>3 DEF Goto
  <2> HIDE DEF r, x1
  <2> QED
    BY <1>2, <1>3, <2>1 DEF GoesTo, r
<1>4. CASE th' = [th EXCEPT ![s]["completion"].pc = l, ![s]["completion"].ver = k]
  <2>1. th' = [th EXCEPT ![s]["completion"] = x2]
    BY <1>1, <1>4
  <2> HIDE DEF r, x2
  <2> QED
    BY <1>2, <2>1 DEF GoesTo, r
<1>5. CASE /\ th' = [th EXCEPT ![s]["completion"].pc = l, ![s]["completion"].again = v]
           /\ k = r.ver
  <2>1. th' = [th EXCEPT ![s]["completion"] = x3]
    BY <1>1, <1>5
  <2> HIDE DEF r, x3
  <2> QED
    BY <1>2, <1>5, <2>1 DEF GoesTo, r
<1> QED
  BY <1>3, <1>4, <1>5

\* Done with a node that it stores, or idle, the thread takes up the least of N.
LEMMA TakesUp ==
  ASSUME Inv, NEW s \in Server, ServerOK(s),
         th[s]["completion"].pc \in {"idle", "check", "addCheck"},
         th[s]["completion"].pc # "idle" => store[s][th[s]["completion"].node] # 0,
         NEW N \in SUBSET Node, N # {},
         \A m \in N : /\ Has(znode, m)
                      /\ Sure(store[s], th[s]["completion"], Parent[m]) \/ Parent[m] \in N,
         NEW x, x = [Idle EXCEPT !.pc = "get", !.node = NextNode(N)]
  PROVE  /\ Core(znode, store[s], nodeMzxid[s], x, N \ {NextNode(N)})
         /\ StaysSure(store[s], th[s]["completion"], store[s], x)
<1> DEFINE k == NextNode(N)
<1>1. k \in N /\ \A m \in N : k <= m
  BY NextNodeIn
<1>2. x.pc = "get" /\ x.node = k /\ ~x.creating
  BY DEF Idle
<1>3. Core(znode, store[s], nodeMzxid[s], th[s]["completion"], todo[s])
  BY DEF ServerOK
<1> HIDE DEF k
<1>4. /\ Core(znode, store[s], nodeMzxid[s], x, N \ {k})
      /\ StaysSure(store[s], th[s]["completion"], store[s], x)
  BY <1>1, <1>2, <1>3, TakenCore
<1> QED
  BY <1>4 DEF k

\* The thread's step has its effect on it alone, and nothing is forgotten.
Comes(s, x) ==
  /\ th' = [th EXCEPT ![s]["completion"] = x]
  /\ \A q \in Server \ {s} : todo'[q] = todo[q]
  /\ Core(znode, store[s], nodeMzxid[s], x, todo'[s])
  /\ StaysSure(store[s], th[s]["completion"], store[s], x)
  /\ th[s]["completion"].creating => x.creating

LEMMA FinishCore ==
  ASSUME Inv, NEW s \in Server, ServerOK(s), Finish(s), ~th[s]["completion"].creating,
         th[s]["completion"].pc \in {"check", "addCheck"},
         store[s][th[s]["completion"].node] # 0
  PROVE  \E x : Comes(s, x)
<1> DEFINE S == todo[s]
<1>1. S \in SUBSET Node /\ todo \in [Server -> SUBSET Node]
  BY HandNow
<1>2. Core(znode, store[s], nodeMzxid[s], th[s]["completion"], S)
  BY DEF ServerOK
<1>3. CASE S = {}
  <2>1. th' = [th EXCEPT ![s]["completion"] = Idle] /\ todo' = todo
    BY <1>3 DEF Finish, Become
  <2>2. Idle.pc = "idle" /\ ~Idle.creating
    BY DEF Idle
  <2>3. /\ Core(znode, store[s], nodeMzxid[s], Idle, S)
        /\ StaysSure(store[s], th[s]["completion"], store[s], Idle)
    BY <1>2, <1>3, <2>2, RestingCore
  <2> QED
    BY <2>1, <2>3 DEF Comes
<1>4. CASE S # {}
  <2> DEFINE x == [Idle EXCEPT !.pc = "get", !.node = NextNode(S)]
  <2>1. th' = [th EXCEPT ![s]["completion"] = x] /\ todo' = [todo EXCEPT ![s] = S \ {NextNode(S)}]
    BY <1>4 DEF Finish, Become
  <2>2. \A m \in S : Has(znode, m) /\ (Sure(store[s], th[s]["completion"], Parent[m]) \/ Parent[m] \in S)
    BY <1>2 DEF Core, Listing
  <2> HIDE DEF x
  <2>3. /\ Core(znode, store[s], nodeMzxid[s], x, S \ {NextNode(S)})
        /\ StaysSure(store[s], th[s]["completion"], store[s], x)
    <3> HIDE DEF S
    <3> QED
      BY <1>1, <1>4, <2>2, TakesUp DEF x
  <2>4. todo'[s] = S \ {NextNode(S)} /\ \A q \in Server \ {s} : todo'[q] = todo[q]
    BY <1>1, <2>1
  <2> QED
    BY <2>1, <2>3, <2>4 DEF Comes
<1> QED
  BY <1>3, <1>4

LEMMA GetKeeps ==
  ASSUME Inv, AllOK, NEW s \in Server, Get(s), Answered
  PROVE  AllOK'
<1> DEFINE r == th[s]["completion"]
           n == r.node
           x == [Idle EXCEPT !.pc = "check", !.node = n, !.pack = PackOf(n), !.ver = znode[n].mzxid]
<1>1. /\ r.pc = "get" /\ n \in Node /\ ~r.creating /\ ~Lost
  BY HandNow, AnsweredOnly DEF Get, At, Without, CopierOK
<1>2. Core(znode, store[s], nodeMzxid[s], r, todo[s])
  BY DEF AllOK, ServerOK
<1>3. Has(znode, n) /\ Sure(store[s], r, Parent[n])
  BY <1>1, <1>2 DEF Core, HandReady, Without
<1>4. Watch(s, n) /\ th' = [th EXCEPT ![s]["completion"] = x] /\ UNCHANGED todo
  BY <1>1, <1>3 DEF Get, Become, Exists, Has
<1>5. znode[n].val = 1 /\ znode[n].parented = TRUE /\ znode[n].mzxid \in Nat
  BY <1>1, <1>3 DEF AllOK, ZnodesWhole, Inv, ZkOK
<1>6. PackOf(n) = Full
  BY <1>5 DEF PackOf, Full
<1>7. /\ x.pc = "check" /\ x.node = n /\ x.pack = Full /\ x.ver = znode[n].mzxid /\ ~x.creating
  BY <1>6 DEF Idle
<1> HIDE DEF x
<1>8. Sure(store[s], x, Parent[n])
  BY <1>1, <1>3, <1>7 DEF Sure, Bound
<1>9. HandReady(znode, store[s], nodeMzxid[s], x)
  BY <1>3, <1>5, <1>7, <1>8 DEF HandReady, Without, Pushing, Copies, Has
<1>10. /\ Core(znode, store[s], nodeMzxid[s], x, todo[s])
       /\ StaysSure(store[s], r, store[s], x)
  <2>1. /\ x.node = r.node /\ x.creating = r.creating /\ r.pc \notin {"decode", "readd"}
        /\ (r.pc \in Bound => x.pc \in Bound) /\ (r.creating /\ r.pc \in Pushing => x.pc \in Pushing)
    <3>1. x.creating = FALSE /\ r.creating = FALSE
      BY <1>1, HandNow DEF ThreadState, x, Idle
    <3> QED
      BY <1>1, <1>7, <3>1 DEF Bound
  <2> HIDE DEF r
  <2> QED
    BY <1>2, <1>9, <2>1, OnwardCore DEF r
<1>11. Sure(store[s], x, n)
  BY <1>7 DEF Sure, Bound
<1>12. UNCHANGED <<addressSpaceExists, todo, store, nodeMzxid>>
  BY <1>4 DEF Get, uaVars, flags
<1> QED
  BY <1>1, <1>4, <1>10, <1>11, <1>12, WatchingOK

\* A step that leaves the store and the table as they are.
LEMMA ComesKeeps ==
  ASSUME Inv, AllOK, NEW s \in Server, NEW x, Comes(s, x), UNCHANGED zkVars,
         UNCHANGED <<addressSpaceExists, store, nodeMzxid>>
  PROVE  AllOK'
  BY QuietOK DEF Comes

LEMMA CheckKeeps ==
  ASSUME Inv, AllOK, NEW s \in Server, Check(s)
  PROVE  AllOK'
<1> DEFINE r == th[s]["completion"]
           n == r.node
<1>1. r.pc = "check" /\ n \in Node /\ ~r.creating /\ r.ver \in Nat
  BY HandNow DEF Check, At, Without, CopierOK, ThreadState
<1>2. Core(znode, store[s], nodeMzxid[s], r, todo[s])
  BY DEF AllOK, ServerOK
<1>3. UNCHANGED zkVars /\ UNCHANGED <<addressSpaceExists, store>>
  BY DEF Check, uaVars, flags
<1>4. CASE nodeMzxid[s][n] >= r.ver
  <2>1. nodeMzxid[s][n] \in Nat /\ nodeMzxid[s][n] # 0
    <3>1. nodeMzxid[s][n] \in Nat
      BY <1>1, HandNow
    <3>2. r.ver # 0
      BY <1>1, <1>2 DEF Core, HandReady
    <3> QED
      BY <1>1, <1>4, <3>1, <3>2
  <2>2. store[s][n] # 0
    BY <1>1, <1>2, <2>1 DEF Core, Behind
  <2>3. Finish(s) /\ UNCHANGED nodeMzxid
    BY <1>4 DEF Check
  <2>4. PICK x : Comes(s, x)
    BY <1>1, <2>2, <2>3, FinishCore DEF AllOK
  <2> QED
    BY <1>3, <2>3, <2>4, ComesKeeps
<1>5. CASE ~(nodeMzxid[s][n] >= r.ver)
  <2>1. /\ nodeMzxid' = [nodeMzxid EXCEPT ![s][n] = r.ver]
        /\ Goto(s, "completion", "decode") /\ UNCHANGED todo
    BY <1>5 DEF Check
  <2>2. PICK x : GoesTo(s, x, "decode", r.ver)
    BY <2>1, GoesOn
  <2>3. /\ \A q \in Server \ {s} : nodeMzxid'[q] = nodeMzxid[q]
        /\ \A m \in Node : nodeMzxid'[s][m] = IF m = n THEN r.ver ELSE nodeMzxid[s][m]
    BY <2>1, HandNow
  <2>4. /\ x.pc = "decode" /\ x.node = r.node /\ x.pack = r.pack /\ ~x.creating
        /\ th' = [th EXCEPT ![s]["completion"] = x]
    BY <1>1, <2>2 DEF GoesTo
  <2>5. /\ Core(znode, store[s], nodeMzxid'[s], x, todo[s])
        /\ StaysSure(store[s], r, store[s], x)
    <3> HIDE DEF r
    <3> QED
      BY <1>1, <1>2, <2>3, <2>4, CheckedCore
  <2> QED
    BY <1>1, <1>3, <2>1, <2>3, <2>4, <2>5, QuietOK
<1> QED
  BY <1>4, <1>5

\* An add with its parent there leaves the node there.
LEMMA AddsLocally ==
  ASSUME Inv, NEW s \in Server, NEW n \in Node, NEW p, p = Full, AddLocally(s, n, p),
         Stored(s, Parent[n]), store[s][n] \in {0, 1}
  PROVE  /\ \A q \in Server \ {s} : store'[q] = store[q]
         /\ \A m \in Node : store'[s][m] = IF m = n THEN 1 ELSE store[s][m]
<1>1. n # 0 /\ p.parented /\ p.val = 1 /\ store \in [Server -> [Node -> Value]]
  BY AboveOK, HandNow DEF Full
<1>2. CASE Stored(s, n)
  <2>1. store' = store /\ store[s][n] = 1
    BY <1>1, <1>2 DEF AddLocally, Stored, uaVars
  <2> QED
    BY <2>1
<1>3. CASE ~Stored(s, n)
  <2>1. store' = [store EXCEPT ![s][n] = 1]
    BY <1>1, <1>3 DEF AddLocally
  <2> QED
    BY <1>1, <2>1
<1> QED
  BY <1>2, <1>3

LEMMA DecodeKeeps ==
  ASSUME Inv, AllOK, NEW s \in Server, Decode(s) \/ Readd(s)
  PROVE  AllOK'
<1> DEFINE r == th[s]["completion"]
           n == r.node
<1>1. /\ r.pc \in {"decode", "readd"} /\ n \in Node /\ ~r.creating
      /\ todo[s] \in SUBSET Node
  BY HandNow DEF Decode, Readd, At, Without, CopierOK
<1>2. Core(znode, store[s], nodeMzxid[s], r, todo[s])
  BY DEF AllOK, ServerOK
<1>3. /\ UNCHANGED zkVars /\ UNCHANGED <<addressSpaceExists, nodeMzxid>>
  BY DEF Decode, Readd, flags
<1>4. r.pack = Full /\ Sure(store[s], r, Parent[n]) /\ store[s][n] \in {0, 1}
  BY <1>1, <1>2 DEF Core, HandReady, Without, Rooted
<1>5. Stored(s, Parent[n])
  BY <1>1, <1>4, AboveOK DEF Sure, Stored
<1>6. Full # Blank
  BY DEF Full, Blank
<1>7. AddLocally(s, n, r.pack) /\ UNCHANGED todo
  BY <1>4, <1>6 DEF Decode, Readd
<1>8. PICK v : /\ th' = [th EXCEPT ![s]["completion"].pc = "addGet", ![s]["completion"].again = v]
  BY <1>4, <1>6 DEF Decode, Readd
<1>9. PICK x : GoesTo(s, x, "addGet", r.ver)
  BY <1>8, GoesOn
<1>10. /\ \A q \in Server \ {s} : store'[q] = store[q]
       /\ \A m \in Node : store'[s][m] = IF m = n THEN 1 ELSE store[s][m]
  <2> HIDE DEF r
  <2> QED
    BY <1>1, <1>4, <1>5, <1>7, AddsLocally
<1>11. /\ x.pc = "addGet" /\ x.node = r.node /\ x.pack = r.pack /\ ~x.creating
       /\ th' = [th EXCEPT ![s]["completion"] = x]
  BY <1>1, <1>9 DEF GoesTo
<1>12. Core(znode, store'[s], nodeMzxid[s], x, todo[s]) /\ StaysSure(store[s], r, store'[s], x)
  <2> HIDE DEF r
  <2> QED
    BY <1>1, <1>2, <1>10, <1>11, AddedCore
<1> QED
  BY <1>1, <1>3, <1>7, <1>10, <1>11, <1>12, QuietOK

LEMMA ReplaceKeeps ==
  ASSUME Inv, AllOK, NEW s \in Server, Replace(s)
  PROVE  AllOK'
<1> DEFINE r == th[s]["completion"]
           n == r.node
<1>1. /\ r.pc = "replace" /\ n \in Node /\ ~r.creating
      /\ todo[s] \in SUBSET Node /\ store \in [Server -> [Node -> Value]]
  BY HandNow DEF Replace, At, Without, CopierOK
<1>2. Core(znode, store[s], nodeMzxid[s], r, todo[s])
  BY DEF AllOK, ServerOK
<1>3. UNCHANGED zkVars /\ UNCHANGED <<addressSpaceExists, nodeMzxid, todo>>
  BY DEF Replace
<1>4. store[s][n] # 0
  BY <1>1, <1>2 DEF Core, HandReady
<1>5. store' = [store EXCEPT ![s][n] = 0]
  BY <1>1, <1>4 DEF Replace, DeleteLocally, Stored
<1>6. PICK x : GoesTo(s, x, "readd", r.ver)
  BY GoesOn DEF Replace
<1>7. /\ x.pc = "readd" /\ x.node = r.node /\ x.pack = r.pack /\ ~x.creating
      /\ th' = [th EXCEPT ![s]["completion"] = x]
  BY <1>1, <1>6 DEF GoesTo
<1>8. /\ \A q \in Server \ {s} : store'[q] = store[q]
      /\ \A m \in Node : store'[s][m] = IF m = n THEN 0 ELSE store[s][m]
  BY <1>1, <1>5
<1>9. Core(znode, store'[s], nodeMzxid[s], x, todo[s]) /\ StaysSure(store[s], r, store'[s], x)
  <2> HIDE DEF r
  <2> QED
    BY <1>1, <1>2, <1>7, <1>8, ReplacedCore
<1> QED
  BY <1>1, <1>3, <1>7, <1>8, <1>9, QuietOK

\* An intercepted add returns: to its replacement, the nodeset or the list.
LEMMA ReturnCore ==
  ASSUME Inv, NEW s \in Server, ServerOK(s), Return(s, "completion"),
         th[s]["completion"].pc = "addCheck"
  PROVE  \E x : Comes(s, x)
<1> DEFINE r == th[s]["completion"]
<1>1. r.node \in Node /\ r \in ThreadState /\ CopierOK(r, todo[s])
  BY HandNow DEF Without
<1>2. Core(znode, store[s], nodeMzxid[s], r, todo[s])
  BY DEF ServerOK
<1>3. store[s][r.node] # 0
  BY <1>2 DEF Core, HandReady, Pushing
<1>4. CASE r.again
  <2>1. ~r.creating
    BY <1>1, <1>4 DEF CopierOK
  <2>2. Goto(s, "completion", "replace") /\ UNCHANGED todo
    BY <1>4, <2>1 DEF Return
  <2>3. PICK x : GoesTo(s, x, "replace", r.ver)
    BY <2>2, GoesOn
  <2>4. /\ th' = [th EXCEPT ![s]["completion"] = x] /\ x.pc = "replace"
        /\ x.node = r.node /\ x.pack = r.pack /\ x.creating = r.creating
    BY <2>3 DEF GoesTo
  <2>5. HandReady(znode, store[s], nodeMzxid[s], x)
    <3>1. HandReady(znode, store[s], nodeMzxid[s], r) /\ ~x.creating
      BY <1>2, <2>1, <2>4 DEF Core
    <3>2. Sure(store[s], r, Parent[r.node]) => Sure(store[s], x, Parent[r.node])
      BY DEF Sure, Bound
    <3>3. r.pack = Full /\ Has(znode, r.node) /\ Sure(store[s], r, Parent[r.node])
      BY <2>1, <3>1 DEF HandReady, Without
    <3> HIDE DEF r
    <3> QED
      BY <1>3, <2>4, <3>1, <3>2, <3>3 DEF HandReady, Without, Copies, Pushing
  <2>6. Core(znode, store[s], nodeMzxid[s], x, todo[s]) /\ StaysSure(store[s], r, store[s], x)
    <3>1. /\ r.pc \notin {"decode", "readd"} /\ r.pc \notin Bound
          /\ (r.creating /\ r.pc \in Pushing => x.pc \in Pushing)
      BY <2>1 DEF Bound
    <3> HIDE DEF r
    <3> QED
      BY <1>2, <2>4, <2>5, <3>1, OnwardCore
  <2> QED
    BY <2>1, <2>2, <2>4, <2>6 DEF Comes
<1>5. CASE ~r.again /\ r.creating
  <2>2. Goto(s, "completion", "nodeset") /\ UNCHANGED todo
    BY <1>5 DEF Return
  <2>3. PICK x : GoesTo(s, x, "nodeset", r.ver)
    BY <2>2, GoesOn
  <2>4. th' = [th EXCEPT ![s]["completion"] = x] /\ x.pc = "nodeset" /\ x.creating
    BY <1>5, <2>3 DEF GoesTo
  <2>5. Core(znode, store[s], nodeMzxid[s], x, todo[s]) /\ StaysSure(store[s], r, store[s], x)
    <3>1. r.pc = "addCheck"
      OBVIOUS
    <3> HIDE DEF r
    <3> QED
      BY <1>1, <1>2, <1>5, <2>4, <3>1, PushedCore
  <2> QED
    BY <2>2, <2>4, <2>5 DEF Comes
<1>6. CASE ~r.again /\ ~r.creating
  <2>1. Finish(s)
    BY <1>6 DEF Return
  <2> QED
    BY <1>3, <1>6, <2>1, FinishCore
<1> QED
  BY <1>4, <1>5, <1>6

-----------------------------------------------------------------------------
(* The push of what it adds *)

LEMMA PushReady ==
  ASSUME NEW z, NEW u, NEW t, NEW r, NEW x, HandReady(z, u, t, r), r.pc \in Pushing,
         x.pc \in Pushing, x.node = r.node, x.pack = r.pack, x.creating = r.creating,
         ~r.creating => x.pc \in {"addGet", "addCheck"},
         x.pc \in {"addCheck", "set", "stat", "record"} => Has(z, r.node),
         x.pc = "record" => x.ver <= z[r.node].mzxid,
         x.pc = "addCheck" => t[r.node] <= x.ver
  PROVE  HandReady(z, u, t, x)
<1>1. r.pack = Full /\ u[r.node] # 0
  BY DEF HandReady, Pushing, Without
<1>2. ~r.creating => /\ Has(z, r.node) /\ Sure(u, r, Parent[r.node])
  BY DEF HandReady, Pushing, Without
<1>3. r.creating => /\ r.node \in Nodeset
                    /\ Parent[r.node] = 0 \/ Has(z, Parent[r.node])
  BY DEF HandReady, Pushing, Without
<1>4. Sure(u, r, Parent[r.node]) => Sure(u, x, Parent[r.node])
  BY DEF Sure, Pushing, Bound
<1>5. x.pc \notin {"check", "replace", "dead"}
  BY DEF Pushing
<1> QED
  BY <1>1, <1>2, <1>3, <1>4, <1>5 DEF HandReady, Copies

LEMMA PushesOn ==
  ASSUME Inv, NEW s \in Server, ServerOK(s), NEW x, NEW l \in Pushing, NEW k,
         GoesTo(s, x, l, k), th[s]["completion"].pc \in Pushing, UNCHANGED todo,
         HandReady(znode, store[s], nodeMzxid[s], x)
  PROVE  Comes(s, x)
<1> DEFINE r == th[s]["completion"]
<1>1. /\ th' = [th EXCEPT ![s]["completion"] = x] /\ x.pc = l
      /\ x.node = r.node /\ x.creating = r.creating
  BY DEF GoesTo
<1>2. Core(znode, store[s], nodeMzxid[s], r, todo[s])
  BY DEF ServerOK
<1>3. r.pc \notin {"decode", "readd"} /\ r.pc \notin Bound
  BY DEF Pushing, Bound
<1>4. Core(znode, store[s], nodeMzxid[s], x, todo[s]) /\ StaysSure(store[s], r, store[s], x)
  <2>1. r.pc \in Bound => x.pc \in Bound
    BY <1>3
  <2>2. r.creating /\ r.pc \in Pushing => x.pc \in Pushing
    BY <1>1
  <2> HIDE DEF r
  <2> QED
    BY <1>1, <1>2, <1>3, <2>1, <2>2, OnwardCore
<1> QED
  BY <1>1, <1>4 DEF Comes

\* What holds of a completion thread that pushes.
LEMMA PushingNow ==
  ASSUME Inv, AllOK, NEW s \in Server, th[s]["completion"].pc \in Pushing
  PROVE  /\ Core(znode, store[s], nodeMzxid[s], th[s]["completion"], todo[s])
         /\ HandReady(znode, store[s], nodeMzxid[s], th[s]["completion"])
         /\ th[s]["completion"].node \in Node /\ th[s]["completion"].pack = Full
         /\ th[s]["completion"].pc \in {"exists", "set", "create", "stat", "record"} =>
              th[s]["completion"].creating
         /\ ~th[s]["completion"].creating => Has(znode, th[s]["completion"].node)
         /\ \A n \in Node : znode[n].mzxid \in Nat /\ nodeMzxid[s][n] <= znode[n].mzxid
<1> DEFINE r == th[s]["completion"]
<1>1. Core(znode, store[s], nodeMzxid[s], r, todo[s])
  BY DEF AllOK, ServerOK
<1>2. HandReady(znode, store[s], nodeMzxid[s], r)
  BY <1>1 DEF Core
<1>3. r.node \in Node
  BY HandNow DEF Pushing, Without
<1>4. /\ r.pack = Full
      /\ ~r.creating => r.pc \in Copies /\ Has(znode, r.node)
  BY <1>2 DEF HandReady, Pushing, Without
<1>5. \A n \in Node : znode[n].mzxid \in Nat /\ nodeMzxid[s][n] <= znode[n].mzxid
  BY <1>1 DEF Core, Behind, Inv, ZkOK
<1> QED
  BY <1>1, <1>2, <1>3, <1>4, <1>5 DEF Copies

LEMMA AddGetKeeps ==
  ASSUME Inv, AllOK, NEW s \in Server, AddGet(s, "completion"), Answered
  PROVE  AllOK'
<1> DEFINE r == th[s]["completion"]
           n == r.node
<1>1. r.pc = "addGet" /\ r.pc \in Pushing /\ ~Lost
  BY AnsweredOnly DEF AddGet, At, Pushing
<1>2. /\ Core(znode, store[s], nodeMzxid[s], r, todo[s])
      /\ HandReady(znode, store[s], nodeMzxid[s], r) /\ n \in Node
      /\ ~r.creating => Has(znode, n)
      /\ znode[n].mzxid \in Nat /\ nodeMzxid[s][n] <= znode[n].mzxid
  BY <1>1, PushingNow
<1>3. UNCHANGED <<addressSpaceExists, store, nodeMzxid>> /\ ServerOK(s)
  BY DEF AddGet, uaVars, flags, AllOK
<1>4. CASE Exists(n)
  <2>1. /\ Watch(s, n) /\ UNCHANGED todo
        /\ th' = [th EXCEPT ![s]["completion"].pc = "addCheck",
                            ![s]["completion"].ver = znode[n].mzxid]
    BY <1>1, <1>4 DEF AddGet
  <2>2. PICK x : GoesTo(s, x, "addCheck", znode[n].mzxid)
    BY <2>1, GoesOn
  <2>3. /\ x.pc = "addCheck" /\ x.ver = znode[n].mzxid /\ x.node = n
        /\ x.pack = r.pack /\ x.creating = r.creating
    BY <2>2 DEF GoesTo
  <2>4. HandReady(znode, store[s], nodeMzxid[s], x)
    <3>1. Has(znode, n) /\ x.pc \in Pushing
      BY <1>4, <2>3 DEF Has, Exists, Pushing
    <3>2. x.node = r.node /\ Has(znode, r.node) /\ nodeMzxid[s][r.node] <= x.ver
      BY <1>2, <2>3, <3>1
    <3> HIDE DEF r
    <3> QED
      BY <1>1, <1>2, <2>3, <3>1, <3>2, PushReady
  <2>5. Comes(s, x)
    BY <1>1, <1>3, <2>1, <2>2, <2>4, PushesOn DEF Pushing
  <2>6. Sure(store[s], x, n)
    BY <1>1, <1>2 DEF HandReady, Pushing, Sure
  <2>7. UNCHANGED <<addressSpaceExists, todo, store, nodeMzxid>>
    BY <1>3, <2>1
  <2> HIDE DEF r, n
  <2> QED
    <3>1. /\ th' = [th EXCEPT ![s]["completion"] = x]
          /\ Core(znode, store[s], nodeMzxid[s], x, todo[s])
          /\ StaysSure(store[s], th[s]["completion"], store[s], x)
          /\ th[s]["completion"].creating => x.creating
      BY <2>5, <2>7 DEF Comes
    <3> QED
      BY <1>2, <2>1, <2>6, <2>7, <3>1, WatchingOK
<1>5. CASE ~Exists(n)
  <2>1. Goto(s, "completion", "exists") /\ UNCHANGED <<zkVars, todo>>
    BY <1>1, <1>5 DEF AddGet
  <2>2. PICK x : GoesTo(s, x, "exists", r.ver)
    BY <2>1, GoesOn
  <2>3. /\ x.pc = "exists" /\ x.node = r.node
        /\ x.pack = r.pack /\ x.creating = r.creating /\ r.creating
    BY <1>2, <1>5, <2>2 DEF GoesTo, Exists, Has
  <2>4. HandReady(znode, store[s], nodeMzxid[s], x)
    <3>1. x.pc \in Pushing
      BY <2>3 DEF Pushing
    <3> HIDE DEF r
    <3> QED
      BY <1>1, <1>2, <2>3, <3>1, PushReady
  <2>5. Comes(s, x)
    BY <1>1, <1>3, <2>1, <2>2, <2>4, PushesOn DEF Pushing
  <2> QED
    BY <1>3, <2>1, <2>5, ComesKeeps
<1> QED
  BY <1>4, <1>5

LEMMA AddCheckKeeps ==
  ASSUME Inv, AllOK, NEW s \in Server, AddCheck(s, "completion")
  PROVE  AllOK'
<1> DEFINE r == th[s]["completion"]
<1>1. r.pc = "addCheck" /\ r.pc \in Pushing
  BY DEF AddCheck, At, Pushing
<1>2. HandReady(znode, store[s], nodeMzxid[s], r)
  BY <1>1, PushingNow
<1>3. Return(s, "completion") /\ UNCHANGED zkVars
  BY <1>1, <1>2 DEF AddCheck, HandReady
<1>4. PICK x : Comes(s, x)
  BY <1>1, <1>3, ReturnCore DEF AllOK
<1> QED
  BY <1>3, <1>4, ComesKeeps DEF AddCheck, uaVars, flags

\* zoo_exists and the zoo_get after zoo_create.
LEMMA LookKeeps ==
  ASSUME Inv, AllOK, NEW s \in Server, Answered,
         ReplicateNode(s, "completion") \/ Stat(s, "completion")
  PROVE  AllOK'
<1> DEFINE r == th[s]["completion"]
           n == r.node
<1>1. r.pc \in {"exists", "stat"} /\ r.pc \in Pushing /\ ~Lost
  BY AnsweredOnly DEF ReplicateNode, Stat, At, Pushing
<1>2. /\ HandReady(znode, store[s], nodeMzxid[s], r) /\ n \in Node /\ r.creating
      /\ znode[n].mzxid \in Nat
  BY <1>1, PushingNow
<1>3. UNCHANGED <<addressSpaceExists, store, nodeMzxid>> /\ UNCHANGED zkVars /\ UNCHANGED todo
      /\ ServerOK(s)
  BY <1>1 DEF ReplicateNode, Stat, uaVars, flags, AllOK
<1>4. r.pc = "stat" => Has(znode, n)
  BY <1>2 DEF HandReady
<1>5. \E l \in {"set", "record", "create"} : \E k :
        /\ \/ Goto(s, "completion", l) /\ k = r.ver
           \/ th' = [th EXCEPT ![s]["completion"].pc = l, ![s]["completion"].ver = k]
        /\ l \in {"set", "record"} => Has(znode, n)
        /\ l = "record" => k = znode[n].mzxid
  BY <1>1, <1>4 DEF ReplicateNode, Stat, Exists, Has, At
<1>6. PICK l \in {"set", "record", "create"} : \E k :
        /\ \/ Goto(s, "completion", l) /\ k = r.ver
           \/ th' = [th EXCEPT ![s]["completion"].pc = l, ![s]["completion"].ver = k]
        /\ l \in {"set", "record"} => Has(znode, n)
        /\ l = "record" => k = znode[n].mzxid
  BY <1>5
<1>6a. PICK k :
        /\ \/ Goto(s, "completion", l) /\ k = r.ver
           \/ th' = [th EXCEPT ![s]["completion"].pc = l, ![s]["completion"].ver = k]
        /\ l \in {"set", "record"} => Has(znode, n)
        /\ l = "record" => k = znode[n].mzxid
  BY <1>6
<1>7. PICK x : GoesTo(s, x, l, k)
  BY <1>6a, GoesOn
<1>8. /\ x.pc = l /\ x.ver = k /\ x.node = n /\ x.pack = r.pack /\ x.creating = r.creating
  BY <1>7 DEF GoesTo
<1>9. HandReady(znode, store[s], nodeMzxid[s], x)
  <2>1. /\ x.pc \in Pushing /\ x.node = r.node
        /\ x.pc \in {"addCheck", "set", "stat", "record"} => Has(znode, r.node)
        /\ x.pc = "record" => x.ver <= znode[r.node].mzxid
        /\ x.pc # "addCheck"
    BY <1>2, <1>6a, <1>8 DEF Pushing
  <2> HIDE DEF r
  <2> QED
    BY <1>1, <1>2, <1>8, <2>1, PushReady
<1>10. Comes(s, x)
  <2>1. l \in Pushing
    BY <1>6 DEF Pushing
  <2> QED
    BY <1>1, <1>3, <1>7, <1>9, <2>1, PushesOn
<1> QED
  BY <1>3, <1>10, ComesKeeps

LEMMA RecordKeeps ==
  ASSUME Inv, AllOK, NEW s \in Server, Record(s, "completion")
  PROVE  AllOK'
<1> DEFINE r == th[s]["completion"]
           n == r.node
<1>1. r.pc = "record" /\ r.pc \in Pushing
  BY DEF Record, At, Pushing
<1>2. /\ Core(znode, store[s], nodeMzxid[s], r, todo[s]) /\ n \in Node /\ r.creating
  BY <1>1, PushingNow
<1>3. ~r.again
  BY <1>2, HandNow DEF CopierOK
<1>4. Goto(s, "completion", "nodeset") /\ UNCHANGED todo
  BY <1>2, <1>3 DEF Record, Return
<1>5. PICK x : GoesTo(s, x, "nodeset", r.ver)
  BY <1>4, GoesOn
<1>6. th' = [th EXCEPT ![s]["completion"] = x] /\ x.pc = "nodeset" /\ x.creating
  BY <1>2, <1>5 DEF GoesTo
<1>7. nodeMzxid' = [nodeMzxid EXCEPT ![s][n] = r.ver]
  BY DEF Record
<1>8. /\ \A q \in Server \ {s} : nodeMzxid'[q] = nodeMzxid[q]
      /\ \A m \in Node : nodeMzxid'[s][m] = IF m = n THEN r.ver ELSE nodeMzxid[s][m]
  BY <1>2, <1>7, HandNow
<1>9. Core(znode, store[s], nodeMzxid'[s], x, todo[s]) /\ StaysSure(store[s], r, store[s], x)
  <2> HIDE DEF r
  <2> QED
    BY <1>1, <1>2, <1>6, <1>8, PushedCore
<1>10. UNCHANGED zkVars /\ UNCHANGED addressSpaceExists /\ UNCHANGED store
  BY DEF Record, uaVars, flags
<1> QED
  BY <1>4, <1>6, <1>8, <1>9, <1>10, QuietOK

LEMMA SetKeeps ==
  ASSUME Inv, AllOK, NEW s \in Server, Set(s, "completion"), Answered
  PROVE  AllOK'
<1> DEFINE r == th[s]["completion"]
           n == r.node
<1>1. r.pc = "set" /\ r.pc \in Pushing /\ ~Lost
  BY AnsweredOnly DEF Set, At, Pushing
<1>2. /\ HandReady(znode, store[s], nodeMzxid[s], r) /\ n \in Node /\ r.creating
      /\ Core(znode, store[s], nodeMzxid[s], r, todo[s]) /\ r.pack = Full
  BY <1>1, PushingNow
<1>3. Has(znode, n) /\ (Parent[n] = 0 \/ Has(znode, Parent[n]))
  BY <1>1, <1>2 DEF HandReady, AllOK, ZnodesWhole
<1>4. /\ SetZnode(n, r.pack)
      /\ th' = [th EXCEPT ![s]["completion"].pc = "record", ![s]["completion"].ver = zxid']
  BY <1>1, <1>3 DEF Set, Has, Exists
<1>5. PICK x : GoesTo(s, x, "record", zxid')
  BY <1>4, GoesOn
<1>6. /\ x.pc = "record" /\ x.ver = zxid' /\ x.node = n /\ x.pack = r.pack /\ x.creating = r.creating
      /\ th' = [th EXCEPT ![s]["completion"] = x]
  BY <1>5 DEF GoesTo
<1>7. /\ Ahead(znode, znode') /\ Has(znode', n) /\ zxid' = znode'[n].mzxid
  <2> HIDE DEF r
  <2> QED
    BY <1>2, <1>3, <1>4, CommitCalm DEF Inv, AllOK
<1>8. HandReady(znode', store[s], nodeMzxid[s], r)
  <2>1. Core(znode', store[s], nodeMzxid[s], r, todo[s])
    BY <1>2, <1>7, NowShaped, CoreAhead
  <2> QED
    BY <2>1 DEF Core
<1>9. HandReady(znode', store[s], nodeMzxid[s], x)
  <2>1. /\ x.pc \in Pushing /\ x.node = r.node /\ Has(znode', r.node)
        /\ x.ver <= znode'[r.node].mzxid /\ x.pc # "addCheck"
    <3>1. znode'[n].mzxid \in Nat
      BY <1>2, <1>7 DEF Ahead
    <3> QED
      BY <1>6, <1>7, <3>1 DEF Pushing
  <2> HIDE DEF r
  <2> QED
    BY <1>1, <1>2, <1>6, <1>8, <2>1, PushReady
<1>10. UNCHANGED <<addressSpaceExists, todo, store, nodeMzxid>>
  BY DEF Set, uaVars, flags
<1>11. r.creating = x.creating /\ r.node = x.node /\ r.pc \in {"set", "create"} /\ x.pc \in Pushing
  BY <1>1, <1>6 DEF Pushing
<1> HIDE DEF n
<1> QED
  BY <1>2, <1>3, <1>4, <1>6, <1>9, <1>10, <1>11, CommittingOK

LEMMA CreateKeeps ==
  ASSUME Inv, AllOK, NEW s \in Server, Create(s, "completion"), Answered
  PROVE  AllOK'
<1> DEFINE r == th[s]["completion"]
           n == r.node
<1>1. r.pc = "create" /\ r.pc \in Pushing /\ ~Lost
  BY AnsweredOnly DEF Create, At, Pushing
<1>2. /\ HandReady(znode, store[s], nodeMzxid[s], r) /\ n \in Node /\ r.creating
      /\ Core(znode, store[s], nodeMzxid[s], r, todo[s]) /\ r.pack = Full
  BY <1>1, PushingNow
<1>3. Parent[n] = 0 \/ Has(znode, Parent[n])
  BY <1>1, <1>2 DEF HandReady, Without
<1>4. /\ Goto(s, "completion", "stat")
      /\ UNCHANGED <<addressSpaceExists, todo, store, nodeMzxid>>
  BY DEF Create, uaVars, flags
<1>5. PICK x : GoesTo(s, x, "stat", r.ver)
  BY <1>4, GoesOn
<1>6. /\ x.pc = "stat" /\ x.node = n /\ x.pack = r.pack /\ x.creating = r.creating
      /\ th' = [th EXCEPT ![s]["completion"] = x]
  BY <1>5 DEF GoesTo
<1>7. x.pc \in Pushing /\ x.node = r.node /\ x.pc \notin {"addCheck", "record"}
  BY <1>6 DEF Pushing
<1>8. CASE CreateZnode(n, r.pack)
  <2>1. Ahead(znode, znode') /\ Has(znode', n)
    <3> HIDE DEF r
    <3> QED
      BY <1>2, <1>3, <1>8, CommitCalm DEF Inv, AllOK
  <2>2. HandReady(znode', store[s], nodeMzxid[s], r)
    <3>1. Core(znode', store[s], nodeMzxid[s], r, todo[s])
      BY <1>2, <2>1, NowShaped, CoreAhead
    <3> QED
      BY <3>1 DEF Core
  <2>3. HandReady(znode', store[s], nodeMzxid[s], x)
    <3> HIDE DEF r
    <3> QED
      BY <1>1, <1>2, <1>6, <1>7, <2>1, <2>2, PushReady
  <2>4. r.creating = x.creating /\ r.node = x.node /\ r.pc \in {"set", "create"}
    BY <1>1, <1>6
  <2> HIDE DEF n
  <2> QED
    BY <1>2, <1>3, <1>4, <1>6, <1>7, <1>8, <2>3, <2>4, CommittingOK
<1>9. CASE Exists(n) /\ UNCHANGED zkVars
  <2>1. Has(znode, n)
    BY <1>9 DEF Exists, Has
  <2>2. HandReady(znode, store[s], nodeMzxid[s], x)
    <3> HIDE DEF r
    <3> QED
      BY <1>1, <1>2, <1>6, <1>7, <2>1, PushReady
  <2>3. Comes(s, x)
    BY <1>1, <1>4, <1>5, <2>2, PushesOn DEF AllOK, Pushing
  <2> QED
    BY <1>4, <1>9, <2>3, ComesKeeps
<1> QED
  BY <1>1, <1>8, <1>9 DEF Create

-----------------------------------------------------------------------------
(* The nodeset and the events *)

\* The list is asked for: its result is as ZooKeeper is now.
LEMMA ListingKeeps ==
  ASSUME Inv, AllOK, NEW s \in Server, NEW q \in Seq(Events), ListChildren(s, q),
         Elements(q) \subseteq Elements(queue[s]), NEW x,
         th' = [th EXCEPT ![s]["completion"] = x],
         UNCHANGED <<addressSpaceExists, todo, store, nodeMzxid>>,
         Core(znode, store[s], nodeMzxid[s], x, todo[s]),
         StaysSure(store[s], th[s]["completion"], store[s], x), FoundOK(s)'
  PROVE  AllOK'
<1>1. /\ th'[s]["main"] = th[s]["main"] /\ th'[s]["completion"] = x
      /\ \A p \in Server \ {s} : th'[p] = th[p]
  BY DEF Inv, ThreadsOK, Thread
<1>2. /\ znode' = znode /\ dataWatch' = dataWatch
      /\ \A p \in Server \ {s} : queue'[p] = queue[p]
  BY DEF ListChildren, Inv, ZkOK
<1>3. Elements(queue'[s]) = Elements(q) \cup {Event("list", Znodes)}
  BY ListOK DEF Inv
<1>4. Ahead(znode, znode')
  BY <1>2, SameAhead DEF Inv
<1>5. \A p \in Server \ {s} : Calm(p)
  BY <1>2 DEF Calm, Watched
<1>6. Spares(s)
  BY <1>1, <1>2, <1>4, <1>5 DEF Spares, AllOK
<1>7. EventOK(znode, store[s], x, Event("list", Znodes))
  <2>1. \A n \in Znodes : n \in Node /\ Has(znode, n)
    BY DEF Znodes, Exists, Has
  <2>2. \A n \in Znodes : Parent[n] \in Znodes \cup {0}
    <3> TAKE n \in Znodes
    <3>1. Parent[n] = 0 \/ (Parent[n] \in Node /\ Has(znode, Parent[n]))
      BY <2>1, AboveOK DEF AllOK, ZnodesWhole
    <3> QED
      BY <3>1 DEF Znodes, Exists, Has
  <2> QED
    BY <2>1, <2>2 DEF EventOK, Event
<1>8. \A e \in Elements(queue'[s]) : e \in Elements(queue[s]) \/ EventOK(znode, store[s], x, e)
  BY <1>3, <1>7
<1>9. Watched(s)' = Watched(s)
  BY <1>2 DEF Watched
<1>10. ServerOK(s)'
  BY <1>1, <1>2, <1>4, <1>8, <1>9, NowOK DEF AllOK, ServerOK
<1> QED
  BY <1>6, <1>10, RestOK

LEMMA CreateNodesetKeeps ==
  ASSUME Inv, AllOK, NEW s \in Server, CreateNodeset(s), Answered
  PROVE  AllOK'
<1> DEFINE r == th[s]["completion"]
           S == todo[s]
           k == NextNode(S)
<1>1. /\ r.pc = "nodeset" /\ r.creating /\ S \in SUBSET Node /\ ~Lost
      /\ todo \in [Server -> SUBSET Node]
  BY HandNow, AnsweredOnly DEF CreateNodeset, At, CopierOK
<1>2. Core(znode, store[s], nodeMzxid[s], r, S)
  BY DEF AllOK, ServerOK
<1>3. UNCHANGED <<addressSpaceExists, nodeMzxid>>
  BY DEF CreateNodeset, flags
<1>4. S \subseteq Nodeset /\ Planting(znode, store[s], r, S) /\ Nodeset \subseteq Node
  BY <1>1, <1>2, ConstantsOK DEF Core, ConstantsOK
<1>5. CASE S = {}
  <2>1. ListChildren(s, queue[s]) /\ th' = [th EXCEPT ![s]["completion"] = Idle]
        /\ UNCHANGED <<uaVars, todo>>
    BY <1>1, <1>5 DEF CreateNodeset, Become
  <2>2. \A n \in Nodeset : Has(znode, n)
    BY <1>1, <1>4, <1>5 DEF Planting, Pushing
  <2>3. FoundOK(s)'
    BY <2>1, <2>2 DEF FoundOK, ListChildren
  <2>4. Idle.pc = "idle" /\ ~Idle.creating
    BY DEF Idle
  <2>5. Core(znode, store[s], nodeMzxid[s], Idle, S) /\ StaysSure(store[s], r, store[s], Idle)
    BY <1>1, <1>2, <1>5, <2>4, RestingCore
  <2>6. queue[s] \in Seq(Events)
    BY QueueTyped DEF Inv
  <2>7. UNCHANGED <<addressSpaceExists, todo, store, nodeMzxid>>
    BY <1>3, <2>1 DEF uaVars
  <2> QED
    BY <2>1, <2>3, <2>5, <2>6, <2>7, ListingKeeps
<1>6. CASE S # {}
  <2> DEFINE item == [val |-> 1, parented |-> TRUE]
             x == [Idle EXCEPT !.pc = "addGet", !.node = k, !.pack = item, !.creating = TRUE]
  <2>1. AddFromNodeset(s)
    BY <1>6 DEF CreateNodeset
  <2>2. /\ AddLocally(s, k, item) /\ th' = [th EXCEPT ![s]["completion"] = x]
        /\ todo' = [todo EXCEPT ![s] = S \ {k}] /\ UNCHANGED zkVars
    BY <2>1 DEF AddFromNodeset, Become
  <2>3. k \in S /\ \A m \in S : k <= m
    BY <1>1, <1>6, NextNodeIn
  <2>4. item = Full
    BY DEF Full
  <2>5. x.pc = "addGet" /\ x.node = k /\ x.pack = Full /\ x.creating
    BY <2>4 DEF Idle
  <2> HIDE DEF item, x, k
  <2>6. k \in Node /\ Parent[k] \notin S /\ Parent[k] \in Nodeset \cup {0} /\ store[s][k] \in {0, 1}
    <3>1. k \in Node /\ k \in Nodeset /\ Parent[k] \notin S
      <4> HIDE DEF S
      <4> QED
        BY <1>1, <1>4, <2>3, NotYet
    <3>2. Parent[k] \in Nodeset \cup {0}
      BY <3>1, ConstantsOK DEF ConstantsOK
    <3> QED
      BY <1>2, <3>1, <3>2 DEF Core, Rooted
  <2>7. Stored(s, Parent[k])
    BY <1>4, <2>6 DEF Planting, Stored
  <2>8. /\ \A q \in Server \ {s} : store'[q] = store[q]
        /\ \A m \in Node : store'[s][m] = IF m = k THEN 1 ELSE store[s][m]
    BY <2>2, <2>4, <2>6, <2>7, AddsLocally
  <2>9. Core(znode, store'[s], nodeMzxid[s], x, S \ {k}) /\ StaysSure(store[s], r, store'[s], x)
    <3>1. /\ S \in SUBSET Node /\ k \in S /\ \A m \in S : k <= m
          /\ r.pc = "nodeset" /\ r.creating
          /\ \A m \in Node : store'[s][m] = IF m = k THEN 1 ELSE store[s][m]
      BY <1>1, <2>3, <2>8
    <3> HIDE DEF r, S
    <3> QED
      BY <1>2, <2>5, <3>1, PlantedCore
  <2>10. todo'[s] = S \ {k} /\ \A q \in Server \ {s} : todo'[q] = todo[q]
    BY <1>1, <2>2
  <2>11. /\ \A q \in Server \ {s} : /\ todo'[q] = todo[q] /\ store'[q] = store[q]
                                    /\ nodeMzxid'[q] = nodeMzxid[q]
         /\ Core(znode, store'[s], nodeMzxid'[s], x, todo'[s])
         /\ StaysSure(store[s], th[s]["completion"], store'[s], x)
    BY <1>3, <2>8, <2>9, <2>10
  <2> QED
    BY <1>3, <2>2, <2>5, <2>11, QuietOK
<1> QED
  BY <1>5, <1>6

\* An event is off the queue, and what it was about is at hand.
LEMMA HeedsKeeps ==
  ASSUME Inv, AllOK, NEW s \in Server, queue[s] # <<>>,
         queue' = [queue EXCEPT ![s] = Tail(@)],
         UNCHANGED <<znode, ns0, zxid, dataWatch, childWatch>>, NEW x,
         th' = [th EXCEPT ![s]["completion"] = x],
         UNCHANGED <<addressSpaceExists, store, nodeMzxid>>,
         \A q \in Server \ {s} : todo'[q] = todo[q],
         Core(znode, store[s], nodeMzxid[s], x, todo'[s]),
         StaysSure(store[s], th[s]["completion"], store[s], x),
         Head(queue[s]).kind = "start" => x.creating,
         ~th[s]["completion"].creating
  PROVE  AllOK'
<1>1. /\ th'[s]["main"] = th[s]["main"] /\ th'[s]["completion"] = x
      /\ \A p \in Server \ {s} : th'[p] = th[p]
  BY DEF Inv, ThreadsOK, Thread
<1>2. Elements(queue[s]) = {Head(queue[s])} \cup Elements(queue'[s])
  BY TailOK DEF Inv
<1>3. \A p \in Server \ {s} : queue'[p] = queue[p]
  BY DEF Inv, ZkOK
<1>4. Ahead(znode, znode')
  BY SameAhead DEF Inv
<1>5. \A p \in Server \ {s} : Calm(p)
  BY <1>3 DEF Calm, Watched
<1>6. Spares(s)
  BY <1>1, <1>4, <1>5 DEF Spares, AllOK
<1>7. FoundOK(s)'
  <2>1. CASE x.creating
    BY <1>1, <2>1 DEF FoundOK
  <2>2. CASE ~x.creating
    <3>1. \A e \in Elements(queue[s]) : e.kind = "start" => e \in Elements(queue'[s])
      BY <1>2, <2>2
    <3> QED
      BY <1>1, <1>4, <3>1, FoundKept DEF AllOK, ServerOK
  <2> QED
    BY <2>1, <2>2
<1>8. \A e \in Elements(queue'[s]) : e \in Elements(queue[s])
  BY <1>2
<1>9. Watched(s)' = Watched(s)
  BY DEF Watched
<1>10. ServerOK(s)'
  BY <1>1, <1>4, <1>7, <1>8, <1>9, NowOK DEF AllOK, ServerOK
<1> QED
  BY <1>6, <1>10, RestOK

LEMMA DeliverKeeps ==
  ASSUME Inv, AllOK, NEW s \in Server, Deliver(s), Answered
  PROVE  AllOK'
<1> DEFINE e == Head(queue[s])
           r == th[s]["completion"]
<1>1. /\ r.pc = "idle" /\ queue[s] # <<>> /\ ~Lost
      /\ UNCHANGED nodeMzxid /\ todo[s] = {} /\ ~r.creating
      /\ th \in [Server -> [Thread -> ThreadState]] /\ todo \in [Server -> SUBSET Node]
  BY HandNow, AnsweredOnly DEF Deliver, At, CopierOK
<1>2. /\ queue[s] \in Seq(Events) /\ e \in Events /\ Tail(queue[s]) \in Seq(Events)
      /\ Elements(queue[s]) = {e} \cup Elements(Tail(queue[s]))
  BY <1>1, QueueTyped, ElementsTail DEF Inv
<1>3. EventOK(znode, store[s], r, e)
  BY <1>2 DEF AllOK, ServerOK, Heard
<1>4. Core(znode, store[s], nodeMzxid[s], r, {}) /\ ServerOK(s)
  BY <1>1 DEF AllOK, ServerOK
<1>5. e.nodes \in SUBSET Node
  BY <1>2 DEF Events
<1>6. th' = th => /\ th' = [th EXCEPT ![s]["completion"] = r]
                  /\ Core(znode, store[s], nodeMzxid[s], r, todo[s])
                  /\ StaysSure(store[s], r, store[s], r)
  BY <1>1, <1>4 DEF StaysSure, Thread
<1>7. ~DeliverDeleted(s, e)
  BY <1>3 DEF DeliverDeleted, EventOK
<1>8. CASE DeliverChanged(s, e)
  <2>1. PICK n \in e.nodes : Become(s, "completion", [Idle EXCEPT !.pc = "get", !.node = n])
    BY <1>8 DEF DeliverChanged
  <2> DEFINE x == [Idle EXCEPT !.pc = "get", !.node = n]
  <2>2. /\ th' = [th EXCEPT ![s]["completion"] = x] /\ e.kind = "changed"
        /\ queue' = [queue EXCEPT ![s] = Tail(@)] /\ todo' = todo
        /\ UNCHANGED <<znode, ns0, zxid, dataWatch, childWatch>>
        /\ UNCHANGED <<addressSpaceExists, store, nodeMzxid>>
    BY <1>1, <1>8, <2>1 DEF DeliverChanged, Become, uaVars, flags
  <2>3. n \in Node /\ Has(znode, n) /\ Sure(store[s], r, n)
    BY <1>3, <1>5, <2>2 DEF EventOK
  <2>4. store[s][n] # 0
    BY <1>1, <2>3, AboveOK DEF Sure, Bound
  <2>5. Sure(store[s], r, Parent[n])
    BY <1>4, <2>3, <2>4 DEF Core, Rooted
  <2>6. NextNode({n}) = n /\ {n} # {} /\ {n} \in SUBSET Node
    <3>1. {n} \in SUBSET Node /\ {n} # {}
      BY <2>3
    <3> QED
      BY <3>1, NextNodeIn
  <2>7. x = [Idle EXCEPT !.pc = "get", !.node = NextNode({n})]
    BY <2>6
  <2> HIDE DEF x
  <2>8. Core(znode, store[s], nodeMzxid[s], x, {n} \ {NextNode({n})}) /\ StaysSure(store[s], r, store[s], x)
    <3>1. \A m \in {n} : /\ Has(znode, m)
                         /\ Sure(store[s], r, Parent[m]) \/ Parent[m] \in {n}
      BY <2>3, <2>5
    <3> QED
      BY <1>1, <1>4, <2>6, <2>7, <3>1, TakesUp
  <2>9. todo'[s] = {n} \ {NextNode({n})} /\ \A q \in Server \ {s} : todo'[q] = todo[q]
    BY <1>1, <2>2, <2>6
  <2> QED
    BY <1>1, <2>2, <2>8, <2>9, HeedsKeeps
<1>9. CASE DeliverChild(s, e)
  <2>1. /\ ListChildren(s, Tail(queue[s])) /\ UNCHANGED <<addressSpaceExists, store, th, todo>>
        /\ e.kind = "child"
    BY <1>1, <1>9 DEF DeliverChild, uaVars, flags
  <2>2. Elements(queue'[s]) = Elements(Tail(queue[s])) \cup {Event("list", Znodes)} /\ UNCHANGED znode
    BY <1>2, <2>1, ListOK DEF Inv
  <2>3. FoundOK(s)'
    <3>1. \A f \in Elements(queue[s]) : f.kind = "start" => f \in Elements(queue'[s])
      BY <1>2, <2>1, <2>2
    <3>2. Ahead(znode, znode')
      BY <2>2, SameAhead DEF Inv
    <3> QED
      BY <1>4, <2>1, <3>1, <3>2, FoundKept DEF ServerOK
  <2>4. Elements(Tail(queue[s])) \subseteq Elements(queue[s])
    BY <1>2
  <2> QED
    BY <1>1, <1>2, <1>6, <2>1, <2>3, <2>4, ListingKeeps
<1>10. CASE DeliverList(s, e)
  <2>1. /\ queue' = [queue EXCEPT ![s] = Tail(@)] /\ e.kind = "list"
        /\ UNCHANGED <<znode, ns0, zxid, dataWatch, childWatch>>
        /\ UNCHANGED <<addressSpaceExists, store, nodeMzxid>>
    BY <1>1, <1>10 DEF DeliverList, uaVars, flags
  <2>2. CASE e.nodes = {}
    <3>1. th' = th /\ todo' = todo
      BY <1>10, <2>2 DEF DeliverList
    <3> QED
      BY <1>1, <1>6, <2>1, <3>1, HeedsKeeps
  <2>3. CASE e.nodes # {}
    <3> DEFINE N == e.nodes
               x == [Idle EXCEPT !.pc = "get", !.node = NextNode(N)]
    <3>1. th' = [th EXCEPT ![s]["completion"] = x] /\ todo' = [todo EXCEPT ![s] = N \ {NextNode(N)}]
      BY <1>10, <2>3 DEF DeliverList, Become
    <3>2. \A m \in N : Has(znode, m) /\ (Sure(store[s], r, Parent[m]) \/ Parent[m] \in N)
      BY <1>3, <2>1 DEF EventOK, Sure
    <3> HIDE DEF x
    <3>3. Core(znode, store[s], nodeMzxid[s], x, N \ {NextNode(N)}) /\ StaysSure(store[s], r, store[s], x)
      <4> HIDE DEF N
      <4> QED
        BY <1>1, <1>4, <1>5, <2>3, <3>2, TakesUp DEF x, N
    <3>4. todo'[s] = N \ {NextNode(N)} /\ \A q \in Server \ {s} : todo'[q] = todo[q]
      BY <1>1, <3>1
    <3> QED
      BY <1>1, <2>1, <3>1, <3>3, <3>4, HeedsKeeps
  <2> QED
    BY <2>2, <2>3
<1>11. CASE DeliverStart(s, e)
  <2>1. UNCHANGED <<addressSpaceExists, store>>
    BY <1>11 DEF DeliverStart, uaVars, flags
  <2>2. CASE addressSpaceExists[s]
    <3>1. ListChildren(s, Tail(queue[s])) /\ UNCHANGED <<th, todo>>
      BY <1>1, <1>11, <2>2 DEF DeliverStart
    <3>2. FoundOK(s)'
      BY <2>1, <2>2 DEF FoundOK
    <3>3. Elements(Tail(queue[s])) \subseteq Elements(queue[s])
      BY <1>2
    <3> QED
      BY <1>1, <1>2, <1>6, <2>1, <3>1, <3>2, <3>3, ListingKeeps
  <2>3. CASE ~addressSpaceExists[s]
    <3> DEFINE x == [Idle EXCEPT !.pc = "nodeset", !.creating = TRUE]
    <3>1. /\ th' = [th EXCEPT ![s]["completion"] = x] /\ todo' = [todo EXCEPT ![s] = Nodeset]
          /\ queue' = [queue EXCEPT ![s] = Tail(@)]
          /\ UNCHANGED <<znode, ns0, zxid, dataWatch, childWatch>>
      BY <1>11, <2>3 DEF DeliverStart, Become
    <3>2. x.pc = "nodeset" /\ x.creating
      BY DEF Idle
    <3> HIDE DEF x
    <3>3. Core(znode, store[s], nodeMzxid[s], x, Nodeset) /\ StaysSure(store[s], r, store[s], x)
      <4>1. r.pc = "idle"
        BY <1>1
      <4> HIDE DEF r
      <4> QED
        BY <1>4, <3>2, <4>1, RestingCore
    <3>4. todo'[s] = Nodeset /\ \A q \in Server \ {s} : todo'[q] = todo[q]
      BY <1>1, <3>1
    <3> QED
      BY <1>1, <2>1, <3>1, <3>2, <3>3, <3>4, HeedsKeeps
  <2> QED
    BY <2>2, <2>3
<1> QED
  BY <1>7, <1>8, <1>9, <1>10, <1>11 DEF Deliver

-----------------------------------------------------------------------------
(* Servers start *)

LEMMA StartKeeps ==
  ASSUME Inv, AllOK, NEW s \in Server, Start(s), Answered
  PROVE  AllOK'
<1>1. ~Lost
  BY AnsweredOnly
<1>2. /\ Goto(s, "main", "new") /\ UNCHANGED <<zkVars, todo, store, nodeMzxid>>
      /\ addressSpaceExists' = [addressSpaceExists EXCEPT ![s] = ns0 \/ Znodes # {}]
  BY <1>1 DEF Start, uaVars
<1>3. /\ th'[s]["main"].pc = "new" /\ th'[s]["completion"] = th[s]["completion"]
      /\ \A q \in Server \ {s} : th'[q] = th[q] /\ addressSpaceExists'[q] = addressSpaceExists[q]
  BY <1>2, HandNow DEF Goto, Thread, ThreadState, Inv, FlagsOK
<1>4. znode' = znode /\ Ahead(znode, znode') /\ \A q \in Server : Calm(q)
  BY <1>2, SameAhead, SameCalm DEF Inv, zkVars
<1>5. Spares(s)
  BY <1>2, <1>3, <1>4 DEF Spares, AllOK
<1>6. ServerOK(s)'
  <2>1. FoundOK(s)'
    BY <1>3 DEF FoundOK
  <2>2. queue' = queue /\ Watched(s)' = Watched(s)
    BY <1>2 DEF zkVars, Watched
  <2> QED
    BY <1>2, <1>3, <1>4, <2>1, <2>2 DEF AllOK, ServerOK
<1> QED
  BY <1>5, <1>6, RestOK

LEMMA NewServerKeeps ==
  ASSUME Inv, AllOK, NEW s \in Server, NewServer(s), Answered
  PROVE  AllOK'
<1> DEFINE e == Event("start", {})
<1>1. ~Lost
  BY AnsweredOnly
<1>2. /\ Goto(s, "main", "idle") /\ UNCHANGED <<todo, store, nodeMzxid, addressSpaceExists>>
      /\ queue' = [queue EXCEPT ![s] = Append(@, e)]
      /\ UNCHANGED <<znode, dataWatch>>
  BY <1>1 DEF NewServer, uaVars, flags
<1>3. /\ th'[s]["main"].pc = "idle" /\ th'[s]["completion"] = th[s]["completion"]
      /\ \A q \in Server \ {s} : th'[q] = th[q]
  BY <1>2, HandNow DEF Goto, Thread, ThreadState
<1>4. queue \in [Server -> Seq(Events)] /\ queue[s] \in Seq(Events)
  BY DEF Inv, ZkOK
<1>5. e \in Events /\ e.kind = "start"
  BY DEF Event, Events
<1>6. queue'[s] = Append(queue[s], e) /\ \A q \in Server \ {s} : queue'[q] = queue[q]
  BY <1>2, <1>4
<1>7. Elements(queue'[s]) = Elements(queue[s]) \cup {e}
  <2> HIDE DEF e
  <2> QED
    BY <1>4, <1>5, <1>6, ElementsAppend
<1>8. Ahead(znode, znode') /\ \A q \in Server \ {s} : Calm(q)
  BY <1>2, <1>6, SameAhead DEF Inv, Calm, Watched
<1>9. Spares(s)
  BY <1>2, <1>3, <1>8 DEF Spares, AllOK
<1>10. FoundOK(s)'
  <2>1. e \in Queued(s, "start")'
    BY <1>5, <1>7, QueuedElementsNext
  <2> QED
    BY <2>1 DEF FoundOK
<1>11. ServerOK(s)'
  <2>1. EventOK(znode, store[s], th[s]["completion"], e)
    BY <1>5 DEF EventOK
  <2>2. Heard(znode, store[s], th[s]["completion"], Elements(queue'[s]), Watched(s))
    BY <1>7, <2>1 DEF AllOK, ServerOK, Heard
  <2>3. Watched(s)' = Watched(s)
    BY <1>2 DEF Watched
  <2> QED
    BY <1>2, <1>3, <1>10, <2>2, <2>3 DEF AllOK, ServerOK
<1> QED
  BY <1>9, <1>11, RestOK

\* A server that has nothing is about to look.
LEMMA NothingYet ==
  ASSUME ZkOK, NEW u, NEW t, NEW r, \A n \in Node : u[n] = 0 /\ t[n] = 0,
         r.pc = "idle", ~r.creating
  PROVE  Core(znode, u, t, r, {})
<1>1. \A n \in Node : znode[n].mzxid \in Nat
  BY DEF ZkOK
<1>2. Behind(znode, u, t, r)
  BY <1>1 DEF Behind
<1> QED
  BY <1>2 DEF Core, Rooted, HandReady, Listing, Without, Pushing

LEMMA RestartKeeps ==
  ASSUME Inv, AllOK, NEW s \in Server, Restart(s)
  PROVE  AllOK'
<1>1. /\ th' = [th EXCEPT ![s] = Started] /\ todo' = [todo EXCEPT ![s] = {}]
      /\ store' = [store EXCEPT ![s] = [n \in Node |-> 0]]
      /\ nodeMzxid' = [nodeMzxid EXCEPT ![s] = [n \in Node |-> 0]]
      /\ addressSpaceExists' = [addressSpaceExists EXCEPT ![s] = FALSE]
      /\ queue' = [queue EXCEPT ![s] = <<>>]
      /\ dataWatch' = {w \in dataWatch : w[1] # s} /\ UNCHANGED znode
  BY DEF Restart
<1>2. /\ th'[s] = Started /\ todo'[s] = {} /\ queue'[s] = <<>>
      /\ store'[s] = [n \in Node |-> 0] /\ nodeMzxid'[s] = [n \in Node |-> 0]
  BY <1>1, HandNow DEF Inv, ZkOK
<1>3. \A q \in Server \ {s} :
        /\ th'[q] = th[q] /\ todo'[q] = todo[q] /\ queue'[q] = queue[q]
        /\ store'[q] = store[q] /\ nodeMzxid'[q] = nodeMzxid[q]
        /\ addressSpaceExists'[q] = addressSpaceExists[q]
  BY <1>1, HandNow DEF Inv, ZkOK, FlagsOK
<1>4. Ahead(znode, znode')
  BY <1>1, SameAhead DEF Inv
<1>5. \A q \in Server \ {s} : Calm(q)
  BY <1>1, <1>3 DEF Calm, Watched
<1>6. Spares(s)
  BY <1>1, <1>3, <1>4, <1>5 DEF Spares, AllOK
<1>7. /\ Started["main"].pc = "start" /\ Started["completion"].pc = "idle"
      /\ ~Started["completion"].creating
  BY DEF Started, Idle, Thread
<1>8. ServerOK(s)'
  <2>1. Core(znode, store'[s], nodeMzxid'[s], th'[s]["completion"], todo'[s])
    BY <1>2, <1>7, NothingYet DEF Inv
  <2>2. Elements(queue'[s]) = {} /\ Watched(s)' = {}
    BY <1>1, <1>2, ElementsEmpty DEF Watched
  <2>3. Heard(znode', store'[s], th'[s]["completion"], Elements(queue'[s]), Watched(s)')
    BY <2>2 DEF Heard
  <2>4. FoundOK(s)' /\ th'[s]["main"].pc = "start"
    BY <1>2, <1>7 DEF FoundOK
  <2> QED
    BY <1>1, <2>1, <2>3, <2>4 DEF ServerOK
<1> QED
  BY <1>6, <1>8, RestOK

\* The group is as the nodeset and the servers' starts have made it.
SInv == Opened => AllOK

LEMMA StillOpened ==
  ASSUME Inv, Inv', NEW s \in Server, Opened',
         \/ RequestStep(s) \/ MainStep(s) \/ (\E t \in Thread : PushStep(s, t))
         \/ CopyStep(s) \/ Restart(s)
  PROVE  Opened /\ Answered /\ ~RequestStep(s)
<1>1. made \in Nat /\ losses \in 0..MaxLosses /\ losses' = MaxLosses /\ made' = 0 /\ MaxLosses \in Nat
  BY ConstantsOK DEF Inv, BoundsOK, Opened, ConstantsOK
<1>2. ~RequestStep(s)
  <2>1. \A kind : ~Request(s, kind)
    BY <1>1 DEF Request
  <2> QED
    BY <2>1 DEF RequestStep, Write, AddNode, DeleteNode
<1>3. made' = made /\ (Answered \/ Lost)
  <2>1. MainStep(s) => made' = made /\ (Answered \/ Lost)
    BY DEF MainStep, Start, NewServer, ZkDelete, DeleteLocal, ReadBack, bounds, requests, Answered
  <2>2. (\E t \in Thread : PushStep(s, t)) => made' = made /\ (Answered \/ Lost)
    BY DEF PushStep, AddGet, AddCheck, ReplicateNode, Set, Create, Stat, Record, bounds, requests, Answered
  <2>3. CopyStep(s) => made' = made /\ (Answered \/ Lost)
    <3>1. Get(s) \/ Check(s) \/ Decode(s) \/ Replace(s) \/ Readd(s) => made' = made /\ (Answered \/ Lost)
      BY DEF Get, Check, Decode, Replace, Readd, bounds, requests, Answered
    <3>2. CreateNodeset(s) => made' = made /\ (Answered \/ Lost)
      BY DEF CreateNodeset, AddFromNodeset, requests, Answered
    <3>3. Deliver(s) => made' = made /\ (Answered \/ Lost)
      <4> QED
        BY DEF Deliver, DeliverDeleted, DeliverChanged, DeliverChild, DeliverList, DeliverStart,
               requests, Answered
    <3> QED
      BY <3>1, <3>2, <3>3 DEF CopyStep
  <2>4. Restart(s) => made' = made /\ (Answered \/ Lost)
    BY DEF Restart, requests, Answered
  <2> QED
    BY <1>2, <2>1, <2>2, <2>3, <2>4
<1>4. Answered
  BY <1>1, <1>3 DEF Lost
<1> QED
  BY <1>1, <1>2, <1>3, <1>4 DEF Opened, Answered

LEMMA NextSInv ==
  ASSUME Inv, Inv', SInv, Next
  PROVE  SInv'
<1> SUFFICES ASSUME Opened' PROVE AllOK'
  BY DEF SInv
<1>1. PICK s \in Server :
        \/ RequestStep(s) \/ MainStep(s) \/ (\E t \in Thread : PushStep(s, t))
        \/ CopyStep(s) \/ Restart(s)
  BY DEF Next
<1>2. Opened /\ Answered /\ ~RequestStep(s)
  BY <1>1, StillOpened
<1>3. AllOK
  BY <1>2 DEF SInv
<1>4. th[s]["main"].pc \in {"start", "new", "idle"}
  BY <1>3 DEF AllOK, ServerOK
<1>5. CASE MainStep(s)
  <2>1. ~ZkDelete(s) /\ ~DeleteLocal(s) /\ ~ReadBack(s)
    BY <1>4 DEF ZkDelete, DeleteLocal, ReadBack, At
  <2> QED
    BY <1>2, <1>3, <1>5, <2>1, StartKeeps, NewServerKeeps DEF MainStep
<1>6. CASE \E t \in Thread : PushStep(s, t)
  <2>1. ~PushStep(s, "main")
    BY <1>4 DEF PushStep, AddGet, AddCheck, ReplicateNode, Set, Create, Stat, Record, At
  <2>2. PushStep(s, "completion")
    BY <1>6, <2>1 DEF Thread
  <2> QED
    BY <1>2, <1>3, <2>2, AddGetKeeps, AddCheckKeeps, LookKeeps, SetKeeps, CreateKeeps, RecordKeeps
    DEF PushStep
<1>7. CASE CopyStep(s)
  BY <1>2, <1>3, <1>7, DeliverKeeps, CreateNodesetKeeps, GetKeeps, CheckKeeps, DecodeKeeps,
     ReplaceKeeps DEF CopyStep
<1>8. CASE Restart(s)
  BY <1>3, <1>8, RestartKeeps
<1> QED
  BY <1>1, <1>2, <1>5, <1>6, <1>7, <1>8

LEMMA StutterSInv ==
  ASSUME Inv, SInv, UNCHANGED vars
  PROVE  SInv'
<1> SUFFICES ASSUME Opened' PROVE AllOK'
  BY DEF SInv
<1>1. Opened /\ AllOK
  BY DEF vars, bounds, requests, Opened, SInv
<1>2. UNCHANGED <<znode, queue, dataWatch, store, th, todo, nodeMzxid, addressSpaceExists>>
  BY DEF vars, zkVars, uaVars, flags
<1>3. Ahead(znode, znode') /\ \A q \in Server : Calm(q)
  BY <1>2, SameAhead, SameCalm DEF Inv
<1>4. \A q \in Server : ServerOK(q)'
  BY <1>1, <1>2, <1>3, OtherOK DEF AllOK
<1> QED
  BY <1>1, <1>2, <1>4 DEF AllOK

LEMMA InitSInv == Init => SInv
<1> SUFFICES ASSUME Init PROVE AllOK
  BY DEF SInv
<1>0. Inv
  BY InitInv
<1> PICK o \in Opening : Init!(o)
  BY DEF Init
<1>1. o.present \subseteq Node /\ \A n \in o.present : Parent[n] \in o.present \cup {0}
  <2>1. o.present \in {p.present : p \in Opening} \cup {Nodeset}
    OBVIOUS
  <2> QED
    BY <2>1, ConstantsOK DEF ConstantsOK
<1>2. \A n \in Node : Has(znode, n) <=> n \in o.present
  BY <1>1, AboveOK DEF Has, Version
<1>3. ZnodesWhole(znode)
  BY <1>1, <1>2 DEF ZnodesWhole
<1> SUFFICES ASSUME NEW s \in Server PROVE ServerOK(s)
  BY <1>3 DEF AllOK
<1>4. /\ th[s]["main"].pc \in {"start", "idle"}
      /\ th[s]["completion"].pc = "idle" /\ ~th[s]["completion"].creating
      /\ s \in o.starting => th[s]["main"].pc = "start"
  BY DEF Started, Idle, Thread
<1>5. Core(znode, store[s], nodeMzxid[s], th[s]["completion"], todo[s])
  BY <1>0, <1>4, NothingYet DEF Inv
<1>6. Heard(znode, store[s], th[s]["completion"], Elements(queue[s]), Watched(s))
  <2>1. Watched(s) = {}
    BY DEF Watched
  <2>2. \A e \in Elements(queue[s]) : e = Event("list", o.present)
    <3>1. queue[s] = <<>> \/ queue[s] = <<Event("list", o.present)>>
      BY Zenon
    <3>2. Elements(<<Event("list", o.present)>>) = {Event("list", o.present)}
      BY DEF Elements
    <3> QED
      BY <3>1, <3>2, ElementsEmpty
  <2>3. EventOK(znode, store[s], th[s]["completion"], Event("list", o.present))
    BY <1>1, <1>2 DEF EventOK, Event
  <2> QED
    BY <2>1, <2>2, <2>3 DEF Heard
<1>7. FoundOK(s)
  BY <1>4 DEF FoundOK
<1> QED
  BY <1>4, <1>5, <1>6, <1>7 DEF ServerOK

LEMMA AlwaysSInv == Spec => [](IInv /\ SInv)
<1>1. IInv /\ SInv /\ [Next]_vars => (IInv /\ SInv)'
  <2> SUFFICES ASSUME IInv, SInv, [Next]_vars PROVE IInv' /\ SInv'
    OBVIOUS
  <2>1. IInv'
    BY NextSound, StutterIInv
  <2> QED
    BY <2>1, NextSInv, StutterSInv DEF IInv
<1> QED
  BY <1>1, InitIInv, InitSInv, PTL DEF Spec

\* Servers that started, together or one after the other, and were killed and
\* started again, agree once they have come to rest, if ZooKeeper answered every
\* call: each holds every znode, and if one of them found none the whole nodeset
\* is there.
THEOREM StartersAgree == Spec => []StartupAgrees
<1>1. IInv /\ SInv => StartupAgrees
  <2> SUFFICES ASSUME IInv, SInv, made = 0, losses = MaxLosses, \A s \in Server : AtRest(s)
               PROVE  /\ \A s \in Server : Alive(s) => \A n \in Znodes : store[s][n] = znode[n].val
                      /\ (\E s \in Server : ~addressSpaceExists[s]) => Nodeset \subseteq Znodes
    BY DEF StartupAgrees
  <2>1. Inv /\ AllOK
    BY DEF IInv, SInv, Opened
  <2>2. ASSUME NEW s \in Server
        PROVE  /\ th[s]["main"].pc = "idle" /\ th[s]["completion"].pc = "idle"
               /\ queue[s] = <<>> /\ ~th[s]["completion"].creating /\ todo[s] = {}
               /\ \A kind : Queued(s, kind) = {}
    <3>1. th[s]["main"].pc # "dead" /\ th[s]["completion"].pc # "dead"
      BY <2>1 DEF AllOK, ServerOK, Core, HandReady
    <3>2. th[s]["main"].pc = "idle" /\ th[s]["completion"].pc = "idle" /\ queue[s] = <<>>
      BY <3>1 DEF AtRest, Alive, At
    <3>3. ~th[s]["completion"].creating /\ todo[s] = {}
      BY <2>1, <3>2, HandNow DEF CopierOK
    <3>4. \A kind : Queued(s, kind) = {}
      BY <3>2, QueuedElements, ElementsEmpty
    <3> QED
      BY <3>2, <3>3, <3>4
  <2>3. ASSUME NEW s \in Server, NEW n \in Znodes
        PROVE  store[s][n] = znode[n].val
    <3>1. Alive(s) /\ ~YetToList(s) /\ ~Coming(s, n)
      BY <2>2 DEF Alive, YetToList, Coming, At
    <3>2. Noticed(s, n)
      BY <2>2, <3>1 DEF IInv, Hears
    <3>3. n \in Node /\ <<s, n>> \in dataWatch /\ Has(znode, n)
      BY <2>2, <3>2 DEF Noticed, Znodes, Exists, Has
    <3>4. Sure(store[s], th[s]["completion"], n) /\ Rooted(store[s], th[s]["completion"])
      BY <2>1, <3>3 DEF AllOK, ServerOK, Heard, Watched, Core
    <3>5. store[s][n] = 1
      BY <2>2, <3>3, <3>4, AboveOK DEF Sure, Bound, Rooted
    <3>6. znode[n].val = 1
      BY <2>1, <3>3 DEF AllOK, ZnodesWhole
    <3> QED
      BY <3>5, <3>6
  <2>4. ASSUME NEW s \in Server, ~addressSpaceExists[s]
        PROVE  Nodeset \subseteq Znodes
    <3>1. \A n \in Nodeset : Has(znode, n)
      BY <2>1, <2>2, <2>4 DEF AllOK, ServerOK, FoundOK
    <3> QED
      BY <3>1, ConstantsOK DEF ConstantsOK, Has, Znodes, Exists
  <2> QED
    BY <2>3, <2>4
<1> QED
  BY <1>1, AlwaysSInv, PTL

=============================================================================
