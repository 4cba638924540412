------------------------- MODULE ReplicaRefinement -------------------------
(***************************************************************************)
(* Replication implements Replica, for all servers, trees and openings, if *)
(* nobody deletes and ZooKeeper answers: what a server without writers     *)
(* shows of a node is a version it fetched and recorded, each newer than   *)
(* the one before, however its events, its reads and the writes of others  *)
(* meet.  What it shows of the version it has recorded is the value of     *)
(* that version (CopiesUpToDate); and when it rests the version it has     *)
(* recorded is the last (PassiveCopiesConverge).  Both say so of a server  *)
(* that created the nodeset too, but for the nodes of which it still has   *)
(* its own value because another server created the znode first.           *)
(***************************************************************************)
EXTENDS CopyingProofs

\* Nobody is told of a deletion.
Told == \A q \in Server : \A e \in Elements(queue[q]) : e.kind # "deleted"

Unwatching(s) == s \notin childWatch /\ \A n \in Node : <<s, n>> \notin dataWatch

Starts(s) == th[s]["main"].pc \in {"start", "new"} \/ Queued(s, "start") # {}

\* Until its first list has come a server hears of nothing and records nothing.
StartOK(s) ==
  /\ th[s]["main"].pc \in {"start", "new"} => queue[s] = <<>>
  /\ Queued(s, "start") # {} => Len(queue[s]) = 1
  /\ Starts(s) => /\ Unwatching(s) /\ th[s]["completion"].pc \in {"idle", "dead"}
                  /\ \A n \in Node : nodeMzxid[s][n] = 0

\* The nodes of the nodeset are recorded once each, when they are pushed.
FreshOK(s) ==
  LET r == th[s]["completion"]
  IN r.creating => /\ \A n \in todo[s] : nodeMzxid[s][n] = 0
                   /\ r.pc # "nodeset" => nodeMzxid[s][r.node] = 0 /\ r.node \notin todo[s]

RInv == Told /\ \A s \in Reader : StartOK(s) /\ FreshOK(s)

-----------------------------------------------------------------------------
(* What a step of s does to ZooKeeper and to the other servers *)

\* What s may be waiting for.
Due(s, e) == e.kind = "list" \/ (e.kind = "start" /\ th[s]["main"].pc = "new")

Asked(s) ==
  /\ UNCHANGED znode
  /\ \A q \in Server \ {s} :
       /\ queue'[q] = queue[q] /\ (q \in childWatch' <=> q \in childWatch)
       /\ \A n \in Node : <<q, n>> \in dataWatch' <=> <<q, n>> \in dataWatch
  /\ \A e \in Elements(queue'[s]) : e \in Elements(queue[s]) \/ Due(s, e)

Published == \E n \in Node, p \in Pack : CreateZnode(n, p) \/ SetZnode(n, p)

\* The store of no other server is touched.
Local(s) == \A q \in Server \ {s} : store'[q] = store[q]

LEMMA SameAsked ==
  ASSUME NEW s \in Server, UNCHANGED zkVars
  PROVE  Asked(s)
  BY DEF Asked, zkVars

LEMMA WatchAsked ==
  ASSUME NEW s \in Server, NEW n \in Node, Watch(s, n)
  PROVE  Asked(s)
  BY DEF Asked, Watch

\* s takes an event from its queue, or all, or has one added.
LEMMA QueueAsked ==
  ASSUME ZkOK, NEW s \in Server, NEW q \in Seq(Events), queue' = [queue EXCEPT ![s] = q],
         \A e \in Elements(q) : e \in Elements(queue[s]) \/ Due(s, e),
         UNCHANGED znode,
         dataWatch' \in {dataWatch, {w \in dataWatch : w[1] # s}},
         childWatch' \in {childWatch, childWatch \cup {s}, childWatch \ {s}}
  PROVE  Asked(s)
<1>1. queue'[s] = q /\ \A r \in Server \ {s} : queue'[r] = queue[r]
  BY DEF ZkOK
<1>2. \A r \in Server \ {s}, n \in Node : <<r, n>> \in dataWatch' <=> <<r, n>> \in dataWatch
  OBVIOUS
<1> QED
  BY <1>1, <1>2 DEF Asked

LEMMA TailAsked ==
  ASSUME ZkOK, NEW s \in Server, queue[s] # <<>>, queue' = [queue EXCEPT ![s] = Tail(@)],
         UNCHANGED <<znode, dataWatch, childWatch>>
  PROVE  Asked(s)
<1>1. queue[s] \in Seq(Events)
  BY DEF ZkOK
<1>2. Tail(queue[s]) \in Seq(Events) /\ Elements(Tail(queue[s])) \subseteq Elements(queue[s])
  BY <1>1, ElementsTail
<1> QED
  BY <1>2, QueueAsked

LEMMA ListAsked ==
  ASSUME ZkOK, NEW s \in Server, NEW q \in Seq(Events), ListChildren(s, q),
         Elements(q) \subseteq Elements(queue[s])
  PROVE  Asked(s)
<1> DEFINE e == Event("list", Znodes)
<1>1. e \in Events /\ e.kind = "list"
  BY DEF Event, Events, Znodes
<1>2. Append(q, e) \in Seq(Events) /\ Elements(Append(q, e)) = Elements(q) \cup {e}
  BY <1>1, ElementsAppend
<1> HIDE DEF e
<1>3. \A f \in Elements(Append(q, e)) : f \in Elements(queue[s]) \/ Due(s, f)
  BY <1>1, <1>2 DEF Due
<1> QED
  BY <1>2, <1>3, QueueAsked DEF ListChildren, e

LEMMA GoneAsked ==
  ASSUME ZkOK, NEW s \in Server, queue' = [queue EXCEPT ![s] = <<>>], UNCHANGED znode,
         dataWatch' = {w \in dataWatch : w[1] # s}, childWatch' = childWatch \ {s}
  PROVE  Asked(s)
  BY ElementsEmpty, QueueAsked, <<>> \in Seq(Events)

LEMMA AddedLocal ==
  ASSUME UaOK, NEW s \in Server, NEW n, NEW p, AddLocally(s, n, p) \/ UNCHANGED uaVars
  PROVE  Local(s)
  BY DEF UaOK, Local, AddLocally, uaVars

LEMMA DeletedLocal ==
  ASSUME UaOK, NEW s \in Server, NEW n, NEW b, DeleteLocally(s, n, b)
  PROVE  Local(s)
<1>1. store' = store \/ store' = [store EXCEPT ![s][n] = 0]
  BY DEF DeleteLocally, uaVars
<1> QED
  BY <1>1 DEF UaOK, Local

Parts(s) == (Published \/ Asked(s)) /\ Local(s)

LEMMA RequestParts ==
  ASSUME Inv, "delete" \notin Kind, NEW s \in Server, RequestStep(s)
  PROVE  Parts(s)
<1>1. PICK n \in Node : Write(s, n) \/ AddNode(s, n) \/ DeleteNode(s, n)
  BY DEF RequestStep
<1>2. ~DeleteNode(s, n)
  BY DEF DeleteNode, Request
<1>3. UNCHANGED zkVars
  BY <1>1, <1>2 DEF Write, AddNode, Request
<1>4. Local(s)
  <2>1. CASE Write(s, n)
    <3>1. store' = [store EXCEPT ![s][n] = Number]
      BY <2>1 DEF Write
    <3> QED
      BY <3>1 DEF Inv, UaOK, Local
  <2>2. CASE AddNode(s, n)
    <3>1. AddLocally(s, n, [val |-> Number, parented |-> TRUE])
      BY <2>2 DEF AddNode
    <3> QED
      BY <3>1, AddedLocal DEF Inv
  <2> QED
    BY <1>1, <1>2, <2>1, <2>2
<1> QED
  BY <1>3, <1>4, SameAsked DEF Parts

LEMMA MainParts ==
  ASSUME Inv, Common, MaxLosses = 0, NEW s \in Server, MainStep(s)
  PROVE  Parts(s)
<1>1. ~ZkDelete(s) /\ ~Lost
  BY NeverLost DEF ZkDelete, At, Common
<1>2. CASE Start(s) \/ ReadBack(s)
  <2>1. UNCHANGED zkVars /\ UNCHANGED uaVars
    BY <1>1, <1>2 DEF Start, ReadBack
  <2> QED
    BY <2>1, SameAsked, AddedLocal DEF Parts, Inv
<1>3. CASE DeleteLocal(s)
  <2>1. UNCHANGED zkVars /\ DeleteLocally(s, th[s]["main"].node, TRUE)
    BY <1>3 DEF DeleteLocal
  <2> QED
    BY <2>1, SameAsked, DeletedLocal DEF Parts, Inv
<1>4. CASE NewServer(s)
  <2> DEFINE e == Event("start", {})
             q == Append(queue[s], e)
  <2>1. /\ queue' = [queue EXCEPT ![s] = Append(@, e)]
        /\ UNCHANGED <<znode, dataWatch, childWatch>> /\ UNCHANGED uaVars
    BY <1>1, <1>4 DEF NewServer
  <2>2. e \in Events /\ e.kind = "start" /\ queue[s] \in Seq(Events)
    BY DEF Event, Events, Inv, ZkOK
  <2>3. queue' = [queue EXCEPT ![s] = q]
    BY <2>1
  <2> HIDE DEF e
  <2>4. q \in Seq(Events) /\ Elements(q) = Elements(queue[s]) \cup {e}
    BY <2>2, ElementsAppend
  <2>5. \A f \in Elements(q) : f \in Elements(queue[s]) \/ Due(s, f)
    BY <1>4, <2>2, <2>4 DEF Due, NewServer, At
  <2> HIDE DEF q
  <2>6. Asked(s)
    BY <2>1, <2>3, <2>4, <2>5, QueueAsked DEF Inv
  <2> QED
    BY <2>1, <2>6, AddedLocal DEF Parts, Inv
<1> QED
  BY <1>1, <1>2, <1>3, <1>4 DEF MainStep

LEMMA PushParts ==
  ASSUME Inv, MaxLosses = 0, NEW s \in Server, NEW t \in Thread, PushStep(s, t)
  PROVE  Parts(s)
<1> DEFINE n == th[s][t].node
           p == th[s][t].pack
<1>1. n \in Node /\ p \in Pack
  BY DEF PushStep, AddGet, AddCheck, ReplicateNode, Set, Create, Stat, Record, At, Inv,
         ThreadsOK, HandOK, Without, ThreadState
<1>2. ~Lost
  BY NeverLost
<1>3. UNCHANGED uaVars
  BY DEF PushStep, AddGet, AddCheck, ReplicateNode, Set, Create, Stat, Record
<1>4. \/ UNCHANGED zkVars \/ Watch(s, n) \/ (Gone(s) /\ UNCHANGED znode)
      \/ CreateZnode(n, p) \/ SetZnode(n, p)
  <2>1. AddGet(s, t) => Watch(s, n) \/ UNCHANGED zkVars
    BY DEF AddGet
  <2>2. AddCheck(s, t) => UNCHANGED zkVars \/ (Gone(s) /\ UNCHANGED znode)
    <3>1. Gone(s) => UNCHANGED znode
      BY DEF Gone
    <3>2. AddCheck(s, t) => UNCHANGED zkVars \/ Gone(s)
      BY DEF AddCheck
    <3> QED
      BY <3>1, <3>2
  <2>3. ReplicateNode(s, t) \/ Stat(s, t) \/ Record(s, t) => UNCHANGED zkVars
    BY DEF ReplicateNode, Stat, Record
  <2>4. Set(s, t) => SetZnode(n, p) \/ UNCHANGED zkVars
    BY DEF Set
  <2>5. Create(s, t) => CreateZnode(n, p) \/ UNCHANGED zkVars
    BY DEF Create
  <2> HIDE DEF n, p
  <2> QED
    BY <2>1, <2>2, <2>3, <2>4, <2>5, Zenon DEF PushStep
<1> HIDE DEF n, p
<1>5. Gone(s) /\ UNCHANGED znode => Asked(s)
  BY GoneAsked DEF Gone, Inv
<1>6. Published \/ Asked(s)
  BY <1>1, <1>4, <1>5, SameAsked, WatchAsked DEF Published
<1> QED
  BY <1>3, <1>6, AddedLocal DEF Parts, Inv

LEMMA DeliverAsked ==
  ASSUME Inv, MaxLosses = 0, NEW s \in Server, Deliver(s)
  PROVE  Asked(s) /\ Local(s)
<1>1. ~Lost
  BY NeverLost
<1>2. queue[s] # <<>> /\ queue[s] \in Seq(Events)
  BY DEF Deliver, Inv, ZkOK
<1>3. Tail(queue[s]) \in Seq(Events) /\ Elements(Tail(queue[s])) \subseteq Elements(queue[s])
  BY <1>2, ElementsTail
<1>4. ListChildren(s, Tail(queue[s])) => Asked(s)
  BY <1>3, ListAsked DEF Inv
<1>5. queue' = [queue EXCEPT ![s] = Tail(@)] /\ UNCHANGED <<znode, dataWatch, childWatch>>
        => Asked(s)
  BY <1>2, TailAsked DEF Inv
<1>6. ASSUME NEW e, DeliverDeleted(s, e)
      PROVE  Asked(s) /\ Local(s)
  <2>1. PICK n \in e.nodes : DeleteLocally(s, n, TRUE)
    BY <1>6 DEF DeliverDeleted
  <2>2. Local(s)
    BY <2>1, DeletedLocal DEF Inv
  <2> QED
    BY <1>5, <1>6, <2>2 DEF DeliverDeleted
<1>7. ASSUME NEW e, DeliverChanged(s, e) \/ DeliverChild(s, e) \/ DeliverList(s, e)
      PROVE  Asked(s) /\ Local(s)
  <2> DEFINE Taken == queue' = [queue EXCEPT ![s] = Tail(@)]
                      /\ UNCHANGED <<znode, dataWatch, childWatch>>
  <2>1. DeliverChanged(s, e) => UNCHANGED uaVars /\ Taken
    BY DEF DeliverChanged
  <2>2. DeliverChild(s, e) => UNCHANGED uaVars /\ ListChildren(s, Tail(queue[s]))
    BY <1>1 DEF DeliverChild
  <2>3. DeliverList(s, e) => UNCHANGED uaVars /\ Taken
    BY DEF DeliverList
  <2>4. UNCHANGED uaVars /\ Asked(s)
    BY <1>4, <1>5, <1>7, <2>1, <2>2, <2>3
  <2> QED
    BY <2>4, AddedLocal DEF Inv
<1>8. ASSUME NEW e, DeliverStart(s, e)
      PROVE  Asked(s) /\ Local(s)
  <2>1. UNCHANGED uaVars
    BY <1>8 DEF DeliverStart
  <2>2. Asked(s)
    BY <1>1, <1>4, <1>5, <1>8 DEF DeliverStart
  <2> QED
    BY <2>1, <2>2, AddedLocal DEF Inv
<1> QED
  BY <1>6, <1>7, <1>8 DEF Deliver

LEMMA CopyParts ==
  ASSUME Inv, MaxLosses = 0, NEW s \in Server, CopyStep(s)
  PROVE  Parts(s)
<1>1. ~Lost
  BY NeverLost
<1>2. CASE Deliver(s)
  BY <1>2, DeliverAsked DEF Parts
<1>3. CASE CreateNodeset(s)
  <2>1. UNCHANGED zkVars \/ ListChildren(s, queue[s])
    BY <1>1, <1>3 DEF CreateNodeset, AddFromNodeset
  <2>2. queue[s] \in Seq(Events)
    BY DEF Inv, ZkOK
  <2>3. Asked(s)
    BY <2>1, <2>2, SameAsked, ListAsked DEF Inv
  <2>4. Local(s)
    BY <1>3, AddedLocal DEF CreateNodeset, AddFromNodeset, Inv
  <2> QED
    BY <2>3, <2>4 DEF Parts
<1>4. CASE Get(s)
  <2>1. th[s]["completion"].node \in Node
    BY <1>4 DEF Get, At, Inv, ThreadsOK, HandOK, Without, Thread
  <2>2. Asked(s)
    BY <1>4, <2>1, SameAsked, WatchAsked DEF Get
  <2> QED
    BY <1>4, <2>2, AddedLocal DEF Get, Parts, Inv
<1>5. CASE Check(s)
  BY <1>5, SameAsked, AddedLocal DEF Check, Parts, Inv
<1>6. CASE Decode(s)
  BY <1>6, SameAsked, AddedLocal DEF Decode, Parts, Inv
<1>7. CASE Replace(s)
  BY <1>7, SameAsked, DeletedLocal DEF Replace, Parts, Inv
<1>8. CASE Readd(s)
  BY <1>8, SameAsked, AddedLocal DEF Readd, Parts, Inv
<1> QED
  BY <1>2, <1>3, <1>4, <1>5, <1>6, <1>7, <1>8 DEF CopyStep

LEMMA RestartParts ==
  ASSUME Inv, NEW s \in Server, Restart(s)
  PROVE  Parts(s)
<1>1. Asked(s)
  BY GoneAsked DEF Restart, Inv
<1>2. Local(s)
  BY DEF Restart, Inv, UaOK, Local
<1> QED
  BY <1>1, <1>2 DEF Parts

-----------------------------------------------------------------------------
(* RInv is an invariant *)

LEMMA PublishedKeeps ==
  ASSUME Inv, Told, Published
  PROVE  /\ Told' /\ \E n \in Node : Copy!Newer(n)
         /\ \A q \in Server : Unwatching(q) => queue'[q] = queue[q] /\ Unwatching(q)'
<1>1. PICK n \in Node, p \in Pack : CreateZnode(n, p) \/ SetZnode(n, p)
  BY DEF Published
<1>2. PICK kind \in {"created", "changed"} :
        /\ Notify(kind, n, kind # "changed")
        /\ kind = "created" => ~Exists(n)
        /\ Commit(n, Version(p, zxid + 1))
  <2>1. CreateZnode(n, p) =>
          /\ Notify("created", n, "created" # "changed")
          /\ ~Exists(n) /\ Commit(n, Version(p, zxid + 1))
    BY DEF CreateZnode
  <2>2. SetZnode(n, p) =>
          /\ Notify("changed", n, "changed" # "changed")
          /\ Commit(n, Version(p, zxid + 1))
    BY DEF SetZnode
  <2> QED
    BY <1>1, <2>1, <2>2
<1>3. \A q \in Server : kind = "created" => <<q, n>> \notin dataWatch
  BY <1>2 DEF Inv, ZkOK
<1>4. \A q \in Server : Elements(queue'[q]) =
        Elements(queue[q])
          \cup (IF <<q, n>> \in dataWatch THEN {Event(kind, {n})} ELSE {})
          \cup (IF kind # "changed" /\ q \in childWatch THEN {Event("child", {})} ELSE {})
  <2>1. ZkOK /\ kind \in {"created", "changed", "deleted"}
    BY DEF Inv
  <2> QED
    BY <1>2, <1>3, <2>1, NotifyElements
<1>5. Told'
  <2>1. Event(kind, {n}).kind # "deleted" /\ Event("child", {}).kind # "deleted"
    BY DEF Event
  <2>2. ASSUME NEW q \in Server, NEW e \in Elements(queue'[q]) PROVE e.kind # "deleted"
    <3>1. e \in Elements(queue[q]) \/ e \in {Event(kind, {n}), Event("child", {})}
      BY <1>4, <2>2
    <3> QED
      BY <2>1, <3>1 DEF Told
  <2>3. \A q : Elements(queue[q])' = Elements(queue'[q])
    BY DEF Elements
  <2> QED
    BY <2>2, <2>3 DEF Told
<1>6. Copy!Newer(n)
  <2>1. zxid \in Nat /\ znode[n].mzxid \in Nat /\ znode[n].mzxid <= zxid
    BY DEF Inv, ZkOK
  <2>2. znode' = [znode EXCEPT ![n] = Version(p, zxid + 1)]
    BY <1>2 DEF Commit
  <2>3. znode'[n].mzxid = zxid + 1 /\ \A m \in Node \ {n} : znode'[m] = znode[m]
    BY <2>2 DEF Version, Inv, ZkOK
  <2> QED
    BY <2>1, <2>3 DEF Copy!Newer
<1>7. ASSUME NEW q \in Server, Unwatching(q)
      PROVE  queue'[q] = queue[q] /\ Unwatching(q)'
  <2>1. <<q, n>> \notin dataWatch /\ q \notin childWatch
    BY <1>7 DEF Unwatching
  <2>2. queue'[q] = queue[q] \o <<>> \o <<>>
    BY <1>2, <2>1 DEF Notify
  <2>3. queue[q] \in Seq(Events)
    BY DEF Inv, ZkOK
  <2>4. queue'[q] = queue[q]
    BY <2>2, <2>3
  <2>5. Unwatching(q)'
    BY <1>2, <1>7 DEF Notify, Unwatching
  <2> QED
    BY <2>4, <2>5
<1> QED
  BY <1>5, <1>6, <1>7

LEMMA ToldLater ==
  ASSUME Inv, Told, NEW s \in Server, Parts(s)
  PROVE  Told'
<1>1. CASE Asked(s)
  <2>1. ASSUME NEW q \in Server, NEW e \in Elements(queue'[q]) PROVE e.kind # "deleted"
    <3>1. CASE q = s
      BY <1>1, <2>1, <3>1 DEF Asked, Told, Due
    <3>2. CASE q # s
      BY <1>1, <2>1, <3>2 DEF Asked, Told
    <3> QED
      BY <3>1, <3>2
  <2>2. \A q : Elements(queue[q])' = Elements(queue'[q])
    BY DEF Elements
  <2> QED
    BY <2>1, <2>2 DEF Told
<1> QED
  BY <1>1, PublishedKeeps DEF Parts

\* The part of another reader is not disturbed.
LEMMA OthersStart ==
  ASSUME Inv, Told, NEW s \in Server, Parts(s), Elsewhere(s), Apart(s),
         NEW q \in Reader, q # s, StartOK(q), FreshOK(q)
  PROVE  StartOK(q)' /\ FreshOK(q)'
<1>1. /\ q \in Server \ {s} /\ th'[q] = th[q] /\ todo'[q] = todo[q]
      /\ nodeMzxid'[q] = nodeMzxid[q] /\ Queued(q, "start")' = Queued(q, "start")
  BY DEF Elsewhere, Apart, Reader, NewsKept
<1>2. FreshOK(q)'
  BY <1>1 DEF FreshOK
<1>3. CASE ~Starts(q)
  <2>1. ~Starts(q)'
    BY <1>1, <1>3 DEF Starts
  <2> QED
    BY <1>2, <2>1 DEF StartOK, Starts
<1>4. CASE Starts(q)
  <2>1. Unwatching(q)
    BY <1>4 DEF StartOK
  <2>2. queue'[q] = queue[q] /\ Unwatching(q)'
    <3>1. CASE Asked(s)
      BY <1>1, <2>1, <3>1 DEF Asked, Unwatching
    <3>2. CASE Published
      BY <1>1, <2>1, <3>2, PublishedKeeps
    <3> QED
      BY <3>1, <3>2 DEF Parts
  <2> QED
    BY <1>1, <1>2, <1>4, <2>2 DEF StartOK, Starts
<1> QED
  BY <1>3, <1>4

LEMMA OwnStarts ==
  ASSUME Inv, NEW s \in Server, Parts(s), ~Starts(s),
         th'[s]["main"].pc \notin {"start", "new"}
  PROVE  ~Starts(s)'
<1>1. Queued(s, "start")' = {}
  <2>1. CASE Asked(s)
    <3>1. ASSUME NEW e \in Elements(queue'[s]), e.kind = "start" PROVE FALSE
      <4>1. e \in Elements(queue[s])
        BY <2>1, <3>1 DEF Asked, Due, Starts
      <4> QED
        BY <3>1, <4>1, QueuedElements DEF Starts
    <3> QED
      BY <3>1, QueuedElementsNext
  <2>2. CASE Published
    <3>1. NewsKept(s)
      BY <2>2, ChangeOK DEF Published, Change, Inv
    <3> QED
      BY <3>1 DEF NewsKept, Starts
  <2> QED
    BY <2>1, <2>2 DEF Parts
<1> QED
  BY <1>1 DEF Starts

LEMMA OwnStart ==
  ASSUME Inv, NEW s \in Server, Parts(s), ~Starts(s),
         th'[s]["main"].pc \notin {"start", "new"}
  PROVE  StartOK(s)'
<1>1. ~Starts(s)'
  BY OwnStarts
<1> QED
  BY <1>1 DEF StartOK, Starts

-----------------------------------------------------------------------------
(* The moves of a server without writers, in terms of Replica *)

JobNow(s) == TaskOf(s, th[s]["completion"])
Rest == Task("free", 0, 0, 0)

Keeps(s) == nodeMzxid'[s] = nodeMzxid[s] /\ store'[s] = store[s]

Stays(s) == /\ Keeps(s) /\ JobNow(s)' = JobNow(s)
            /\ UNCHANGED znode \/ \E n \in Node : Copy!Newer(n)

Fetches(s) ==
  /\ Keeps(s) /\ UNCHANGED znode /\ JobNow(s) = Rest
  /\ \E n \in Node : /\ znode[n].mzxid # 0
                     /\ JobNow(s)' = Task("fetched", n, znode[n].mzxid, znode[n].val)

Records(s) ==
  /\ UNCHANGED znode /\ store'[s] = store[s]
  /\ \E n \in Node : \E version, v :
       /\ JobNow(s) = Task("fetched", n, version, v)
       /\ nodeMzxid[s][n] < version
       /\ nodeMzxid'[s] = [nodeMzxid[s] EXCEPT ![n] = version]
       /\ JobNow(s)' = Task("recorded", n, version, v)

Shows(s) ==
  /\ UNCHANGED znode /\ nodeMzxid'[s] = nodeMzxid[s]
  /\ \E n \in Node : \E version, v :
       /\ JobNow(s) = Task("recorded", n, version, v)
       /\ \E w \in {0, v} : store'[s] = [store[s] EXCEPT ![n] = w]
       /\ JobNow(s)' \in {JobNow(s), Rest}

Drops(s) ==
  /\ Keeps(s) /\ UNCHANGED znode
  /\ JobNow(s).phase \in {"fetched", "recorded"} /\ JobNow(s)' = Rest

Originates(s) ==
  /\ UNCHANGED znode /\ nodeMzxid'[s] = nodeMzxid[s]
  /\ JobNow(s) = Rest /\ JobNow(s)' = Rest
  /\ \E n \in Node : /\ nodeMzxid[s][n] = 0 /\ store[s][n] = 0
                     /\ \A m \in Node \ {n} : store'[s][m] = store[s][m]

Pushes(s) ==
  /\ Keeps(s) /\ JobNow(s) = Rest
  /\ \E n \in Node : /\ nodeMzxid[s][n] = 0
                     /\ Copy!Newer(n) \/ UNCHANGED znode
                     /\ JobNow(s)' = Task("pushed", n, znode'[n].mzxid, 0)

RecordsPushed(s) ==
  /\ UNCHANGED znode /\ store'[s] = store[s]
  /\ \E n \in Node : \E version :
       /\ JobNow(s) = Task("pushed", n, version, 0)
       /\ nodeMzxid[s][n] = 0
       /\ nodeMzxid'[s] = [nodeMzxid[s] EXCEPT ![n] = version]
       /\ JobNow(s)' = Rest

Restarts(s) ==
  /\ UNCHANGED znode /\ JobNow(s)' = Rest
  /\ nodeMzxid'[s] = [n \in Node |-> 0] /\ store'[s] = [n \in Node |-> 0]

Does(s) ==
  \/ Stays(s) \/ Fetches(s) \/ Records(s) \/ Shows(s) \/ Drops(s)
  \/ Originates(s) \/ Pushes(s) \/ RecordsPushed(s) \/ Restarts(s)

-----------------------------------------------------------------------------
(* What becomes of the completion thread *)

Own(s) == StartOK(s)' /\ FreshOK(s)' /\ Does(s)

\* The completion thread of s is x after the step, its main thread as before.
Turns(s, x) == /\ th'[s]["completion"] = x
               /\ th'[s]["main"] = th[s]["main"]

\* It goes on to l with its node and pack.
Goes(s, l, v, b) ==
  \E x : /\ Turns(s, x)
         /\ x.pc = l /\ x.ver = v /\ x.again = b
         /\ x.node = th[s]["completion"].node /\ x.pack = th[s]["completion"].pack
         /\ x.creating = th[s]["completion"].creating

LEMMA ThOK ==
  ASSUME Inv, NEW s \in Server
  PROVE  /\ th \in [Server -> [Thread -> ThreadState]]
         /\ "completion" \in Thread /\ "main" \in Thread
         /\ th[s]["completion"] \in ThreadState /\ HandOK(th[s]["completion"])
         /\ CopierOK(th[s]["completion"], todo[s])
  BY DEF Inv, ThreadsOK, Thread

LEMMA GotoGoes ==
  ASSUME Inv, NEW s \in Server, NEW l, Goto(s, "completion", l)
  PROVE  Goes(s, l, th[s]["completion"].ver, th[s]["completion"].again)
<1> DEFINE x == [th[s]["completion"] EXCEPT !.pc = l]
<1>1. th' = [th EXCEPT ![s]["completion"] = x]
  BY DEF Goto
<1>2. /\ x.pc = l /\ x.ver = th[s]["completion"].ver /\ x.again = th[s]["completion"].again
      /\ x.node = th[s]["completion"].node /\ x.pack = th[s]["completion"].pack
      /\ x.creating = th[s]["completion"].creating
  BY ThOK DEF ThreadState
<1> HIDE DEF x
<1>3. Turns(s, x)
  BY <1>1, ThOK DEF Turns
<1> QED
  BY <1>2, <1>3 DEF Goes

LEMMA VersionGoes ==
  ASSUME Inv, NEW s \in Server, NEW l \in PC, NEW v \in Nat
  PROVE  th' = [th EXCEPT ![s]["completion"].pc = l, ![s]["completion"].ver = v] =>
           Goes(s, l, v, th[s]["completion"].again)
<1> DEFINE x == [th[s]["completion"] EXCEPT !.pc = l, !.ver = v]
<1>1. /\ th \in [Server -> [Thread -> ThreadState]] /\ "completion" \in Thread
      /\ th[s]["completion"] \in ThreadState
  BY ThOK
<1>2. /\ x.pc = l /\ x.ver = v /\ x.again = th[s]["completion"].again
      /\ x.node = th[s]["completion"].node /\ x.pack = th[s]["completion"].pack
      /\ x.creating = th[s]["completion"].creating
  BY <1>1 DEF ThreadState
<1>3. th' = [th EXCEPT ![s]["completion"].pc = l, ![s]["completion"].ver = v] =>
        th' = [th EXCEPT ![s]["completion"] = x]
  BY <1>1
<1> HIDE DEF x
<1>4. th' = [th EXCEPT ![s]["completion"] = x] => Turns(s, x)
  BY ThOK DEF Turns
<1> QED
  BY <1>2, <1>3, <1>4 DEF Goes

LEMMA AgainGoes ==
  ASSUME Inv, NEW s \in Server, NEW l \in PC, NEW b \in BOOLEAN
  PROVE  th' = [th EXCEPT ![s]["completion"].pc = l, ![s]["completion"].again = b] =>
           Goes(s, l, th[s]["completion"].ver, b)
<1> DEFINE x == [th[s]["completion"] EXCEPT !.pc = l, !.again = b]
<1>1. /\ th \in [Server -> [Thread -> ThreadState]] /\ "completion" \in Thread
      /\ th[s]["completion"] \in ThreadState
  BY ThOK
<1>2. /\ x.pc = l /\ x.ver = th[s]["completion"].ver /\ x.again = b
      /\ x.node = th[s]["completion"].node /\ x.pack = th[s]["completion"].pack
      /\ x.creating = th[s]["completion"].creating
  BY <1>1 DEF ThreadState
<1>3. th' = [th EXCEPT ![s]["completion"].pc = l, ![s]["completion"].again = b] =>
        th' = [th EXCEPT ![s]["completion"] = x]
  BY <1>1
<1> HIDE DEF x
<1>4. th' = [th EXCEPT ![s]["completion"] = x] => Turns(s, x)
  BY ThOK DEF Turns
<1> QED
  BY <1>2, <1>3, <1>4 DEF Goes

LEMMA BecomeTurns ==
  ASSUME Inv, NEW s \in Server, NEW x, Become(s, "completion", x)
  PROVE  Turns(s, x)
  BY ThOK DEF Become, Turns

\* Finished with a node, it has no task.
LEMMA FinishTurns ==
  ASSUME Inv, NEW s \in Server, Finish(s)
  PROVE  \E x : Turns(s, x) /\ x.pc \in {"idle", "get"} /\ ~x.creating
<1>1. PICK x : Turn(s, "completion", x) /\ x.pc \in {"idle", "get"} /\ ~x.creating
  BY FinishOK DEF Inv
<1>2. Turns(s, x)
  BY <1>1, ThOK DEF Turn, Turns
<1> QED
  BY <1>1, <1>2

\* A thread at one of these places has no task of Replica's.
LEMMA NoTask ==
  ASSUME NEW s, NEW r, r.pc \notin {"check", "record", "decode", "replace", "readd"},
         r.pc \in {"addGet", "addCheck"} => ~r.again
  PROVE  TaskOf(s, r) = Rest /\ TaskOf(s, r)' = Rest
  BY DEF TaskOf, Copying, Rest, Task

\* A thread that was at work is past its start; if it is not creating, so are
\* the nodes of the nodeset.
LEMMA WorkingKeeps ==
  ASSUME Inv, NEW s \in Server, Parts(s), StartOK(s), NEW x, Turns(s, x),
         th[s]["completion"].pc \notin {"idle", "dead"}
  PROVE  StartOK(s)' /\ (~x.creating => FreshOK(s)')
<1>1. ~Starts(s)
  BY DEF StartOK
<1>2. StartOK(s)'
  BY <1>1, OwnStart DEF Starts, Turns
<1> QED
  BY <1>2 DEF FreshOK, Turns

-----------------------------------------------------------------------------
(* The steps of the completion thread of a reader *)

LEMMA GetOwn ==
  ASSUME Inv, MaxLosses = 0, NEW s \in Server, StartOK(s), Get(s)
  PROVE  Own(s)
<1> DEFINE r == th[s]["completion"]
           n == r.node
<1>1. r.pc = "get" /\ n \in Node
  BY ThOK DEF Get, At, HandOK, Without
<1>2. Parts(s)
  BY CopyParts DEF CopyStep
<1>3. Keeps(s) /\ UNCHANGED znode
  BY DEF Get, Keeps, uaVars, Watch, zkVars
<1>4. JobNow(s) = Rest
  BY <1>1, NoTask DEF JobNow
<1>5. CASE Finish(s)
  <2>1. PICK x : Turns(s, x) /\ x.pc \in {"idle", "get"} /\ ~x.creating
    BY <1>5, FinishTurns
  <2>2. StartOK(s)' /\ FreshOK(s)'
    BY <1>1, <1>2, <2>1, WorkingKeeps
  <2>3. TaskOf(s, x)' = Rest
    BY <2>1, NoTask
  <2>4. JobNow(s)' = Rest
    BY <2>1, <2>3 DEF JobNow, Turns
  <2> QED
    BY <1>3, <1>4, <2>2, <2>4 DEF Own, Does, Stays
<1>6. CASE Exists(n) /\ Become(s, "completion", [Idle EXCEPT !.pc = "check", !.node = n,
                                                   !.pack = PackOf(n), !.ver = znode[n].mzxid])
  <2> DEFINE x == [Idle EXCEPT !.pc = "check", !.node = n,
                               !.pack = PackOf(n), !.ver = znode[n].mzxid]
  <2>1. /\ x.pc = "check" /\ x.node = n /\ ~x.creating
        /\ x.pack.val = znode[n].val /\ x.ver = znode[n].mzxid
    BY DEF Idle, PackOf
  <2>2. Become(s, "completion", x)
    BY <1>6
  <2> HIDE DEF x
  <2>3. Turns(s, x)
    BY <2>2, BecomeTurns
  <2>4. PICK y : y = x
    OBVIOUS
  <2>5. /\ Turns(s, y) /\ y.pc = "check" /\ ~y.creating
        /\ Task("fetched", y.node, y.ver, y.pack.val)
             = Task("fetched", n, znode[n].mzxid, znode[n].val)
    BY <2>1, <2>3, <2>4
  <2>6. StartOK(s)' /\ FreshOK(s)'
    BY <1>1, <1>2, <2>5, WorkingKeeps
  <2>7. TaskOf(s, y)' = Task("fetched", y.node, y.ver, y.pack.val)
    BY <2>5 DEF TaskOf
  <2>8. JobNow(s)' = Task("fetched", n, znode[n].mzxid, znode[n].val)
    BY <2>5, <2>7 DEF JobNow, Turns
  <2>9. Fetches(s)
    BY <1>1, <1>3, <1>4, <1>6, <2>8 DEF Fetches, Exists
  <2> QED
    BY <2>6, <2>9 DEF Own, Does
<1>7. ~Lost
  BY NeverLost
<1> QED
  BY <1>5, <1>6, <1>7 DEF Get

LEMMA CheckOwn ==
  ASSUME Inv, MaxLosses = 0, NEW s \in Server, StartOK(s), Check(s)
  PROVE  Own(s)
<1> DEFINE r == th[s]["completion"]
           n == r.node
<1>1. r.pc = "check" /\ n \in Node /\ r.ver \in Nat /\ ~r.creating /\ nodeMzxid[s][n] \in Nat
  BY ThOK DEF Check, At, HandOK, CopierOK, Without, ThreadState, Inv, TableOK
<1>2. Parts(s)
  BY CopyParts DEF CopyStep
<1>3. UNCHANGED znode /\ store'[s] = store[s]
  BY DEF Check, uaVars, zkVars
<1>4. JobNow(s) = Task("fetched", n, r.ver, r.pack.val)
  BY <1>1 DEF JobNow, TaskOf
<1>5. CASE Finish(s) /\ UNCHANGED nodeMzxid
  <2>1. PICK x : Turns(s, x) /\ x.pc \in {"idle", "get"} /\ ~x.creating
    BY <1>5, FinishTurns
  <2>2. StartOK(s)' /\ FreshOK(s)'
    BY <1>1, <1>2, <2>1, WorkingKeeps
  <2>3. TaskOf(s, x)' = Rest
    BY <2>1, NoTask
  <2>4. JobNow(s)' = Rest
    BY <2>1, <2>3 DEF JobNow, Turns
  <2>5. Drops(s)
    BY <1>3, <1>4, <1>5, <2>4 DEF Drops, Keeps, Task
  <2> QED
    BY <2>2, <2>5 DEF Own, Does
<1>6. CASE /\ ~(nodeMzxid[s][n] >= r.ver)
           /\ nodeMzxid' = [nodeMzxid EXCEPT ![s][n] = r.ver]
           /\ Goto(s, "completion", "decode")
  <2>1. PICK x : /\ Turns(s, x) /\ x.pc = "decode" /\ x.node = n /\ x.pack = r.pack
                 /\ x.creating = r.creating
    BY <1>6, GotoGoes DEF Goes
  <2>2. StartOK(s)' /\ FreshOK(s)'
    BY <1>1, <1>2, <2>1, WorkingKeeps
  <2>3. nodeMzxid'[s] = [nodeMzxid[s] EXCEPT ![n] = r.ver] /\ nodeMzxid'[s][n] = r.ver
    BY <1>1, <1>6 DEF Inv, TableOK
  <2>4. TaskOf(s, x)' = Task("recorded", x.node, nodeMzxid'[s][x.node], x.pack.val)
    BY <2>1 DEF TaskOf, Copying
  <2>5. JobNow(s)' = Task("recorded", n, r.ver, r.pack.val)
    BY <2>1, <2>3, <2>4 DEF JobNow, Turns
  <2>6. nodeMzxid[s][n] < r.ver
    BY <1>1, <1>6
  <2>7. Records(s)
    BY <1>1, <1>3, <1>4, <2>3, <2>5, <2>6 DEF Records
  <2> QED
    BY <2>2, <2>7 DEF Own, Does
<1> QED
  BY <1>5, <1>6 DEF Check

LEMMA DecodeOwn ==
  ASSUME Inv, MaxLosses = 0, NEW s \in Server, StartOK(s), Decode(s)
  PROVE  Own(s)
<1> DEFINE r == th[s]["completion"]
           n == r.node
           b == r.pack.parented /\ Stored(s, Parent[n]) /\ Stored(s, n)
<1>1. r.pc = "decode" /\ n \in Node /\ ~r.creating /\ r.pack \in Pack
  BY ThOK DEF Decode, At, HandOK, CopierOK, Without, ThreadState
<1>2. Parts(s)
  BY CopyParts DEF CopyStep
<1>3. UNCHANGED znode /\ UNCHANGED nodeMzxid
  BY DEF Decode, zkVars
<1>4. JobNow(s) = Task("recorded", n, nodeMzxid[s][n], r.pack.val)
  BY <1>1 DEF JobNow, TaskOf, Copying
<1>5. CASE Finish(s) /\ UNCHANGED uaVars
  <2>1. PICK x : Turns(s, x) /\ x.pc \in {"idle", "get"} /\ ~x.creating
    BY <1>5, FinishTurns
  <2>2. StartOK(s)' /\ FreshOK(s)'
    BY <1>1, <1>2, <2>1, WorkingKeeps
  <2>3. TaskOf(s, x)' = Rest
    BY <2>1, NoTask
  <2>4. JobNow(s)' = Rest
    BY <2>1, <2>3 DEF JobNow, Turns
  <2>5. Drops(s)
    BY <1>3, <1>4, <1>5, <2>4 DEF Drops, Keeps, Task, uaVars
  <2> QED
    BY <2>2, <2>5 DEF Own, Does
<1>6. CASE /\ AddLocally(s, n, r.pack)
           /\ th' = [th EXCEPT ![s]["completion"].pc = "addGet", ![s]["completion"].again = b]
  <2>1. b \in BOOLEAN /\ "addGet" \in PC
    BY <1>1 DEF Pack, Stored, PC
  <2>2. th' = [th EXCEPT ![s]["completion"].pc = "addGet", ![s]["completion"].again = b]
    BY <1>6
  <2>3. AddLocally(s, n, r.pack)
    BY <1>6
  <2>4. \/ UNCHANGED uaVars
        \/ store' = [store EXCEPT ![s][n] = r.pack.val] /\ ~b
    <3>1. CASE r.pack.parented /\ Stored(s, Parent[n]) /\ ~Stored(s, n)
      BY <2>3, <3>1 DEF AddLocally
    <3>2. CASE ~(r.pack.parented /\ Stored(s, Parent[n]) /\ ~Stored(s, n))
      BY <2>3, <3>2 DEF AddLocally
    <3> QED
      BY <3>1, <3>2
  <2> HIDE DEF b
  <2>5. PICK x : /\ Turns(s, x) /\ x.pc = "addGet" /\ x.again = b /\ x.node = n
                 /\ x.pack = r.pack /\ x.creating = r.creating
    <3>1. Goes(s, "addGet", r.ver, b)
      BY <2>1, <2>2, AgainGoes, Zenon
    <3> QED
      BY <3>1, Zenon DEF Goes
  <2>6. StartOK(s)' /\ FreshOK(s)'
    BY <1>1, <1>2, <2>5, WorkingKeeps
  <2>7. JobNow(s)' = TaskOf(s, x)'
    BY <2>5 DEF JobNow, Turns
  <2>8. CASE b
    <3>1. TaskOf(s, x)' = Task("recorded", x.node, nodeMzxid'[s][x.node], x.pack.val)
      BY <2>5, <2>8 DEF TaskOf, Copying
    <3>2. JobNow(s)' = JobNow(s)
      BY <1>3, <1>4, <2>5, <2>7, <3>1
    <3> QED
      BY <1>3, <2>4, <2>6, <2>8, <3>2 DEF Own, Does, Stays, Keeps, uaVars
  <2>9. CASE ~b
    <3>1. JobNow(s)' = Rest
      BY <2>5, <2>7, <2>9, NoTask
    <3>2. CASE UNCHANGED uaVars
      <4>1. Drops(s)
        BY <1>3, <1>4, <3>1, <3>2 DEF Drops, Keeps, Task, uaVars
      <4> QED
        BY <2>6, <4>1 DEF Own, Does
    <3>3. CASE store' = [store EXCEPT ![s][n] = r.pack.val]
      <4>1. store'[s] = [store[s] EXCEPT ![n] = r.pack.val]
        BY <3>3 DEF Inv, UaOK
      <4>2. Shows(s)
        BY <1>1, <1>3, <1>4, <3>1, <4>1 DEF Shows
      <4> QED
        BY <2>6, <4>2 DEF Own, Does
    <3> QED
      BY <2>4, <3>2, <3>3
  <2> QED
    BY <2>8, <2>9
<1> QED
  BY <1>5, <1>6 DEF Decode

LEMMA ReplaceOwn ==
  ASSUME Inv, MaxLosses = 0, NEW s \in Server, StartOK(s), Replace(s)
  PROVE  Own(s)
<1> DEFINE r == th[s]["completion"]
           n == r.node
<1>1. r.pc = "replace" /\ n \in Node /\ ~r.creating
  BY ThOK DEF Replace, At, HandOK, CopierOK, Without
<1>2. Parts(s)
  BY CopyParts DEF CopyStep
<1>3. UNCHANGED znode /\ UNCHANGED nodeMzxid
  BY DEF Replace, zkVars
<1>4. JobNow(s) = Task("recorded", n, nodeMzxid[s][n], r.pack.val)
  BY <1>1 DEF JobNow, TaskOf, Copying
<1>5. PICK x : /\ Turns(s, x) /\ x.pc = "readd" /\ x.node = n /\ x.pack = r.pack
               /\ x.creating = r.creating
  BY GotoGoes DEF Replace, Goes
<1>6. StartOK(s)' /\ FreshOK(s)'
  BY <1>1, <1>2, <1>5, WorkingKeeps
<1>7. TaskOf(s, x)' = Task("recorded", x.node, nodeMzxid'[s][x.node], x.pack.val)
  BY <1>5 DEF TaskOf, Copying
<1>8. JobNow(s)' = JobNow(s)
  BY <1>3, <1>4, <1>5, <1>7 DEF JobNow, Turns
<1>9. CASE UNCHANGED uaVars
  BY <1>3, <1>6, <1>8, <1>9 DEF Own, Does, Stays, Keeps, uaVars
<1>10. CASE store' = [store EXCEPT ![s][n] = 0]
  <2>1. store'[s] = [store[s] EXCEPT ![n] = 0]
    BY <1>10 DEF Inv, UaOK
  <2>2. Shows(s)
    BY <1>1, <1>3, <1>4, <1>8, <2>1 DEF Shows
  <2> QED
    BY <1>6, <2>2 DEF Own, Does
<1>11. DeleteLocally(s, n, FALSE)
  BY DEF Replace
<1> QED
  BY <1>9, <1>10, <1>11 DEF DeleteLocally

LEMMA ReaddOwn ==
  ASSUME Inv, MaxLosses = 0, NEW s \in Server, StartOK(s), Readd(s)
  PROVE  Own(s)
<1> DEFINE r == th[s]["completion"]
           n == r.node
<1>1. r.pc = "readd" /\ n \in Node /\ ~r.creating
  BY ThOK DEF Readd, At, HandOK, CopierOK, Without
<1>2. Parts(s)
  BY CopyParts DEF CopyStep
<1>3. UNCHANGED znode /\ UNCHANGED nodeMzxid
  BY DEF Readd, zkVars
<1>4. JobNow(s) = Task("recorded", n, nodeMzxid[s][n], r.pack.val)
  BY <1>1 DEF JobNow, TaskOf, Copying
<1>5. PICK x : /\ Turns(s, x) /\ x.pc = "addGet" /\ x.again = FALSE
               /\ x.creating = r.creating
  <2>1. "addGet" \in PC /\ FALSE \in BOOLEAN
    BY DEF PC
  <2>2. th' = [th EXCEPT ![s]["completion"].pc = "addGet", ![s]["completion"].again = FALSE]
    BY DEF Readd
  <2>3. Goes(s, "addGet", r.ver, FALSE)
    BY <2>1, <2>2, AgainGoes, Zenon
  <2> QED
    BY <2>3, Zenon DEF Goes
<1>6. StartOK(s)' /\ FreshOK(s)'
  BY <1>1, <1>2, <1>5, WorkingKeeps
<1>7. JobNow(s)' = Rest
  BY <1>5, NoTask DEF JobNow, Turns
<1>8. CASE UNCHANGED uaVars
  <2>1. Drops(s)
    BY <1>3, <1>4, <1>7, <1>8 DEF Drops, Keeps, Task, uaVars
  <2> QED
    BY <1>6, <2>1 DEF Own, Does
<1>9. CASE store' = [store EXCEPT ![s][n] = r.pack.val]
  <2>1. store'[s] = [store[s] EXCEPT ![n] = r.pack.val]
    BY <1>9 DEF Inv, UaOK
  <2>2. Shows(s)
    BY <1>1, <1>3, <1>4, <1>7, <2>1 DEF Shows
  <2> QED
    BY <1>6, <2>2 DEF Own, Does
<1>10. AddLocally(s, n, r.pack)
  BY DEF Readd
<1> QED
  BY <1>8, <1>9, <1>10 DEF AddLocally

\* The nodes of the nodeset have never been recorded.
LEMMA CreateNodesetOwn ==
  ASSUME Inv, MaxLosses = 0, NEW s \in Server, StartOK(s), FreshOK(s), CreateNodeset(s)
  PROVE  Own(s)
<1> DEFINE r == th[s]["completion"]
           n == NextNode(todo[s])
<1>1. r.pc = "nodeset" /\ r.creating /\ todo[s] \subseteq Node
  BY ThOK DEF CreateNodeset, At, CopierOK, Inv, ThreadsOK
<1>2. Parts(s)
  BY CopyParts DEF CopyStep
<1>3. UNCHANGED znode /\ UNCHANGED nodeMzxid
  BY DEF CreateNodeset, AddFromNodeset, ListChildren, zkVars
<1>4. JobNow(s) = Rest
  BY <1>1, NoTask DEF JobNow
<1>5. CASE Become(s, "completion", Idle) /\ UNCHANGED uaVars
  <2>1. Turns(s, Idle) /\ Idle.pc = "idle" /\ ~Idle.creating
    BY <1>5, BecomeTurns DEF Idle
  <2>2. StartOK(s)' /\ FreshOK(s)'
    BY <1>1, <1>2, <2>1, WorkingKeeps
  <2>3. JobNow(s)' = Rest
    BY <2>1, NoTask DEF JobNow, Turns
  <2> QED
    BY <1>3, <1>4, <1>5, <2>2, <2>3 DEF Own, Does, Stays, Keeps, uaVars
<1>6. CASE todo[s] # {} /\ AddFromNodeset(s)
  <2> DEFINE item == [val |-> 1, parented |-> TRUE]
             y == [Idle EXCEPT !.pc = "addGet", !.node = n, !.pack = item, !.creating = TRUE]
  <2>1. n \in todo[s]
    BY <1>1, <1>6, NextNodeIn
  <2>2. nodeMzxid[s][n] = 0
    BY <1>1, <2>1 DEF FreshOK
  <2>3. y.pc = "addGet" /\ y.node = n /\ y.creating /\ ~y.again
    BY DEF Idle
  <2>4. /\ Become(s, "completion", y) /\ todo' = [todo EXCEPT ![s] = @ \ {n}]
        /\ AddLocally(s, n, item)
    BY <1>6 DEF AddFromNodeset
  <2> HIDE DEF y, n, item
  <2>5. PICK x : x = y
    OBVIOUS
  <2>6. Turns(s, x) /\ x.pc = "addGet" /\ x.node = n /\ x.creating /\ ~x.again
    BY <2>3, <2>4, <2>5, BecomeTurns
  <2>7. StartOK(s)'
    BY <1>1, <1>2, <2>6, WorkingKeeps
  <2>8. FreshOK(s)'
    <3>1. todo'[s] = todo[s] \ {n}
      BY <2>4 DEF Inv, ThreadsOK
    <3>2. \A m \in todo[s] : nodeMzxid[s][m] = 0
      BY <1>1 DEF FreshOK
    <3> QED
      BY <1>3, <2>2, <2>6, <3>1, <3>2 DEF FreshOK, Turns
  <2>9. JobNow(s)' = Rest
    BY <2>6, NoTask DEF JobNow, Turns
  <2>10. CASE UNCHANGED uaVars
    BY <1>3, <1>4, <2>7, <2>8, <2>9, <2>10 DEF Own, Does, Stays, Keeps, uaVars
  <2>11. CASE ~Stored(s, n) /\ store' = [store EXCEPT ![s][n] = item.val]
    <3>1. \A m \in Node \ {n} : store'[s][m] = store[s][m]
      BY <1>1, <2>1, <2>11 DEF Inv, UaOK
    <3>2. Originates(s)
      BY <1>1, <1>3, <1>4, <2>1, <2>2, <2>9, <2>11, <3>1 DEF Originates, Stored
    <3> QED
      BY <2>7, <2>8, <3>2 DEF Own, Does
  <2> QED
    BY <2>4, <2>10, <2>11 DEF AddLocally
<1>7. ~Lost
  BY NeverLost
<1> QED
  BY <1>5, <1>6 DEF CreateNodeset

\* The first list asked for, or the nodeset: what a thread that starts goes on to.
LEMMA StartDelivered ==
  ASSUME Inv, NEW s \in Server, Starts(s), StartOK(s), Deliver(s)
  PROVE  /\ Queued(s, "start") # {} /\ th[s]["main"].pc \notin {"start", "new"}
         /\ DeliverStart(s, Head(queue[s]))
        /\ Tail(queue[s]) \in Seq(Events) /\ Elements(Tail(queue[s])) = {}
<1>1. queue[s] # <<>> /\ queue[s] \in Seq(Events)
  BY DEF Deliver, Inv, ZkOK
<1>2. th[s]["main"].pc \notin {"start", "new"} /\ Queued(s, "start") # {}
  BY <1>1 DEF StartOK, Starts
<1>3. Len(queue[s]) = 1
  BY <1>2 DEF StartOK
<1>4. PICK i \in 1..Len(queue[s]) : queue[s][i].kind = "start"
  BY <1>2 DEF Queued
<1>5. Head(queue[s]).kind = "start"
  BY <1>1, <1>3, <1>4
<1>6. DeliverStart(s, Head(queue[s]))
  <2>1. ASSUME NEW e, e.kind = "start"
        PROVE  ~DeliverDeleted(s, e) /\ ~DeliverChanged(s, e)
               /\ ~DeliverChild(s, e) /\ ~DeliverList(s, e)
    <3>1. /\ DeliverDeleted(s, e) => e.kind = "deleted"
          /\ DeliverChanged(s, e) => e.kind = "changed"
          /\ DeliverChild(s, e) => e.kind = "child"
          /\ DeliverList(s, e) => e.kind = "list"
      BY Zenon DEF DeliverDeleted, DeliverChanged, DeliverChild, DeliverList
    <3> QED
      BY <2>1, <3>1
  <2> QED
    BY <1>5, <2>1 DEF Deliver
<1>7. Tail(queue[s]) \in Seq(Events) /\ Elements(Tail(queue[s])) = {}
  <2>1. Tail(queue[s]) \in Seq(Events) /\ Len(Tail(queue[s])) = 0
    BY <1>1, <1>3
  <2> QED
    BY <2>1 DEF Elements
<1> QED
  BY <1>2, <1>6, <1>7

LEMMA DeliverStartOK ==
  ASSUME Inv, MaxLosses = 0, NEW s \in Server, StartOK(s), Deliver(s),
         th'[s]["main"] = th[s]["main"]
  PROVE  StartOK(s)'
<1>1. CASE ~Starts(s)
  <2>1. Parts(s)
    BY CopyParts DEF CopyStep
  <2> QED
    BY <1>1, <2>1, OwnStart DEF Starts
<1>2. CASE Starts(s)
  <2>1. /\ Queued(s, "start") # {} /\ th[s]["main"].pc \notin {"start", "new"}
        /\ DeliverStart(s, Head(queue[s]))
        /\ Tail(queue[s]) \in Seq(Events) /\ Elements(Tail(queue[s])) = {}
    BY <1>2, StartDelivered
  <2>2. Queued(s, "start")' = {} => StartOK(s)'
    BY <2>1 DEF StartOK, Starts
  <2>3. CASE queue' = [queue EXCEPT ![s] = Tail(@)]
    <3>1. Elements(queue'[s]) = {}
      BY <2>1, <2>3 DEF Inv, ZkOK
    <3> QED
      BY <2>2, <3>1, QueuedElementsNext
  <2>4. CASE ListChildren(s, Tail(queue[s]))
    <3> DEFINE f == Event("list", Znodes)
    <3>1. f \in Events /\ f.kind # "start"
      BY DEF Event, Events, Znodes
    <3>2. queue'[s] = Append(Tail(queue[s]), f)
      BY <2>4 DEF ListChildren, Inv, ZkOK
    <3> HIDE DEF f
    <3>3. Elements(queue'[s]) = {f}
      <4> DEFINE q == Tail(queue[s])
      <4>1. q \in Seq(Events) /\ Elements(q) = {} /\ queue'[s] = Append(q, f)
        BY <2>1, <3>2
      <4> HIDE DEF q
      <4>2. Elements(Append(q, f)) = Elements(q) \cup {f}
        BY <3>1, <4>1, ElementsAppend
      <4> QED
        BY <4>1, <4>2
    <3> QED
      BY <2>2, <3>1, <3>3, QueuedElementsNext
  <2> QED
    BY <2>1, <2>3, <2>4 DEF DeliverStart
<1> QED
  BY <1>1, <1>2

LEMMA DeliverOwn ==
  ASSUME Inv, Told, MaxLosses = 0, NEW s \in Server, StartOK(s), FreshOK(s), Deliver(s)
  PROVE  Own(s)
<1> DEFINE r == th[s]["completion"]
           e == Head(queue[s])
<1>1. r.pc = "idle" /\ ~r.creating
  BY ThOK DEF Deliver, At, CopierOK
<1>2. e \in Elements(queue[s])
  <2>1. queue[s] \in Seq(Events) /\ queue[s] # <<>>
    BY DEF Deliver, Inv, ZkOK
  <2> QED
    BY <2>1 DEF Elements
<1>3. JobNow(s) = Rest
  BY <1>1, NoTask DEF JobNow
<1>4. e.kind # "deleted" /\ ~DeliverDeleted(s, e)
  BY <1>2 DEF Told, DeliverDeleted
<1>5. UNCHANGED znode /\ UNCHANGED uaVars
  <2>1. \A q : ListChildren(s, q) => UNCHANGED znode
    BY DEF ListChildren
  <2>2. ASSUME NEW f, DeliverChanged(s, f) \/ DeliverChild(s, f) \/ DeliverList(s, f)
        PROVE  UNCHANGED znode /\ UNCHANGED uaVars
    <3>1. DeliverChanged(s, f) \/ DeliverList(s, f) => UNCHANGED znode /\ UNCHANGED uaVars
      BY Zenon DEF DeliverChanged, DeliverList
    <3>2. DeliverChild(s, f) => UNCHANGED znode /\ UNCHANGED uaVars
      BY <2>1, Zenon DEF DeliverChild
    <3> QED
      BY <2>2, <3>1, <3>2
  <2>3. ASSUME NEW f, DeliverStart(s, f)
        PROVE  UNCHANGED znode /\ UNCHANGED uaVars
    BY <2>1, <2>3 DEF DeliverStart
  <2> QED
    BY <1>4, <2>2, <2>3 DEF Deliver
<1>6. Keeps(s)
  BY <1>5 DEF Deliver, Keeps, uaVars
<1> HIDE DEF e
<1>7. ASSUME NEW x, Turns(s, x), x.pc \in {"idle", "get", "nodeset"}, FreshOK(s)'
      PROVE  Own(s)
  <2>1. StartOK(s)'
    BY <1>7, DeliverStartOK DEF Turns
  <2>2. JobNow(s)' = Rest
    BY <1>7, NoTask DEF JobNow, Turns
  <2> QED
    BY <1>3, <1>5, <1>6, <1>7, <2>1, <2>2 DEF Own, Does, Stays
<1>8. CASE UNCHANGED th
  <2>1. Turns(s, r)
    BY <1>8 DEF Turns
  <2>2. PICK x : x = r
    OBVIOUS
  <2>3. FreshOK(s)'
    BY <1>1, <1>8 DEF FreshOK
  <2> QED
    BY <1>1, <1>7, <2>1, <2>2, <2>3
<1>9. ASSUME NEW y, Become(s, "completion", y), y.pc = "get", ~y.creating
      PROVE  Own(s)
  <2>1. Turns(s, y)
    BY <1>9, BecomeTurns
  <2>2. FreshOK(s)'
    BY <1>9, <2>1 DEF FreshOK, Turns
  <2> QED
    BY <1>7, <1>9, <2>1, <2>2
<1>10. CASE DeliverChanged(s, e)
  <2>1. PICK n \in e.nodes : Become(s, "completion", [Idle EXCEPT !.pc = "get", !.node = n])
    BY <1>10, Zenon DEF DeliverChanged
  <2> DEFINE x == [Idle EXCEPT !.pc = "get", !.node = n]
  <2>2. x.pc = "get" /\ ~x.creating /\ Become(s, "completion", x)
    BY <2>1 DEF Idle
  <2> HIDE DEF x
  <2>3. PICK y : y = x
    OBVIOUS
  <2> QED
    BY <1>9, <2>2, <2>3
<1>11. CASE DeliverList(s, e)
  <2> DEFINE x == [Idle EXCEPT !.pc = "get", !.node = NextNode(e.nodes)]
  <2>1. UNCHANGED th \/ Become(s, "completion", x)
    BY <1>11, Zenon DEF DeliverList
  <2>2. x.pc = "get" /\ ~x.creating
    BY DEF Idle
  <2> HIDE DEF x
  <2>3. PICK y : y = x
    OBVIOUS
  <2> QED
    BY <1>8, <1>9, <2>1, <2>2, <2>3
<1>12. CASE DeliverStart(s, e)
  <2>1. CASE UNCHANGED th
    BY <1>8, <2>1
  <2>2. CASE /\ Become(s, "completion", [Idle EXCEPT !.pc = "nodeset", !.creating = TRUE])
    <3> DEFINE x == [Idle EXCEPT !.pc = "nodeset", !.creating = TRUE]
    <3>1. x.pc = "nodeset" /\ x.creating /\ Become(s, "completion", x)
      BY <2>2 DEF Idle
    <3> HIDE DEF x
    <3>2. PICK y : y = x
      OBVIOUS
    <3>3. Turns(s, y) /\ y.pc = "nodeset"
      BY <3>1, <3>2, BecomeTurns
    <3>4. Starts(s)
      <4>1. e \in Queued(s, "start")
        BY <1>2, <1>12, QueuedElements DEF DeliverStart
      <4> QED
        BY <4>1 DEF Starts
    <3>5. \A n \in Node : nodeMzxid'[s][n] = 0
      BY <1>6, <3>4 DEF StartOK, Keeps
    <3>6. todo'[s] \subseteq Node
      <4>1. Nodeset \subseteq Node
        BY ConstantsOK DEF ConstantsOK
      <4>2. UNCHANGED todo \/ todo' = [todo EXCEPT ![s] = Nodeset]
        BY <1>12 DEF DeliverStart
      <4> QED
        BY <4>1, <4>2 DEF Inv, ThreadsOK
    <3>7. FreshOK(s)'
      BY <3>3, <3>5, <3>6 DEF FreshOK, Turns
    <3> QED
      BY <1>7, <3>3, <3>7
  <2> QED
    BY <1>12, <2>1, <2>2 DEF DeliverStart
<1>13. CASE DeliverChild(s, e)
  BY <1>8, <1>13 DEF DeliverChild
<1> QED
  BY <1>4, <1>10, <1>11, <1>12, <1>13 DEF Deliver, e

-----------------------------------------------------------------------------
(* The other steps of a reader *)

LEMMA MainOwn ==
  ASSUME Inv, MaxLosses = 0, NEW s \in Server, Passive(s), StartOK(s), FreshOK(s), MainStep(s)
  PROVE  Own(s)
<1> DEFINE r == th[s]["completion"]
<1>1. ~Lost
  BY NeverLost
<1>2. ~ZkDelete(s) /\ ~DeleteLocal(s) /\ ~ReadBack(s)
  BY DEF ZkDelete, DeleteLocal, ReadBack, At, Passive
<1>3. ASSUME UNCHANGED znode, UNCHANGED nodeMzxid, UNCHANGED uaVars, UNCHANGED todo,
             th'[s]["completion"] = r
      PROVE  FreshOK(s)' /\ Does(s)
  <2>1. FreshOK(s)'
    BY <1>3 DEF FreshOK
  <2>2. JobNow(s)' = JobNow(s)
    BY <1>3 DEF JobNow, TaskOf
  <2> QED
    BY <1>3, <2>1, <2>2 DEF Does, Stays, Keeps, uaVars
<1>4. ASSUME NEW l, Goto(s, "main", l)
      PROVE  th'[s]["main"].pc = l /\ th'[s]["completion"] = r
  BY <1>4, ThOK DEF Goto, ThreadState
<1>5. CASE Start(s)
  <2>1. /\ Goto(s, "main", "new") /\ UNCHANGED zkVars /\ UNCHANGED <<todo, nodeMzxid>>
        /\ UNCHANGED uaVars
    BY <1>1, <1>5 DEF Start
  <2>2. th'[s]["main"].pc = "new" /\ th'[s]["completion"] = r
    BY <1>4, <2>1
  <2>3. th[s]["main"].pc = "start"
    BY <1>5 DEF Start, At
  <2>4. /\ queue[s] = <<>> /\ Unwatching(s) /\ r.pc \in {"idle", "dead"}
        /\ \A n \in Node : nodeMzxid[s][n] = 0
    BY <2>3 DEF StartOK, Starts
  <2>5. Queued(s, "start")' = {} /\ queue'[s] = <<>>
    BY <2>1, <2>4, ElementsEmpty, QueuedElementsNext DEF zkVars
  <2>6. Unwatching(s)'
    BY <2>1, <2>4 DEF Unwatching, zkVars
  <2>7. StartOK(s)'
    BY <2>1, <2>2, <2>4, <2>5, <2>6 DEF StartOK
  <2> QED
    BY <1>3, <2>1, <2>2, <2>7 DEF Own, zkVars
<1>6. CASE NewServer(s)
  <2>1. /\ queue' = [queue EXCEPT ![s] = Append(@, Event("start", {}))]
        /\ Goto(s, "main", "idle") /\ UNCHANGED <<todo, nodeMzxid>>
        /\ UNCHANGED <<znode, dataWatch, childWatch>> /\ UNCHANGED uaVars
    BY <1>1, <1>6 DEF NewServer
  <2>2. th'[s]["main"].pc = "idle" /\ th'[s]["completion"] = r
    BY <1>4, <2>1
  <2>3. th[s]["main"].pc = "new"
    BY <1>6 DEF NewServer, At
  <2>4. /\ queue[s] = <<>> /\ Unwatching(s) /\ r.pc \in {"idle", "dead"}
        /\ \A n \in Node : nodeMzxid[s][n] = 0
    BY <2>3 DEF StartOK, Starts
  <2>5. Len(queue'[s]) = 1
    BY <2>1, <2>4 DEF Inv, ZkOK
  <2>6. Unwatching(s)'
    BY <2>1, <2>4 DEF Unwatching
  <2>7. StartOK(s)'
    BY <2>1, <2>2, <2>4, <2>5, <2>6 DEF StartOK
  <2> QED
    BY <1>3, <2>1, <2>2, <2>7 DEF Own
<1> QED
  BY <1>2, <1>5, <1>6 DEF MainStep

LEMMA RestartOwn ==
  ASSUME Inv, NEW s \in Server, Restart(s)
  PROVE  Own(s)
<1>1. th'[s]["main"].pc = "start" /\ th'[s]["completion"].pc = "idle" /\ ~th'[s]["completion"].creating
  BY ThOK DEF Restart, Started, Idle
<1>2. /\ nodeMzxid'[s] = [n \in Node |-> 0] /\ store'[s] = [n \in Node |-> 0]
      /\ queue'[s] = <<>> /\ UNCHANGED znode
  BY DEF Restart, Inv, TableOK, UaOK, ZkOK
<1>3. Unwatching(s)'
  BY DEF Restart, Unwatching
<1>4. Queued(s, "start")' = {}
  BY <1>2, ElementsEmpty, QueuedElementsNext
<1>5. StartOK(s)'
  BY <1>1, <1>2, <1>3, <1>4 DEF StartOK
<1>6. FreshOK(s)'
  BY <1>1 DEF FreshOK
<1>7. JobNow(s)' = Rest
  <2>1. PICK x : x = th'[s]["completion"]
    OBVIOUS
  <2> QED
    BY <1>1, <2>1, NoTask DEF JobNow
<1> QED
  BY <1>2, <1>5, <1>6, <1>7 DEF Own, Does, Restarts

LEMMA NewerZnode ==
  ASSUME Inv, NEW n \in Node, NEW p, CreateZnode(n, p) \/ SetZnode(n, p)
  PROVE  Copy!Newer(n) /\ znode'[n].mzxid = zxid' /\ zxid' \in Nat
<1>1. zxid \in Nat /\ znode[n].mzxid \in Nat /\ znode[n].mzxid <= zxid
  BY DEF Inv, ZkOK
<1>2. znode' = [znode EXCEPT ![n] = Version(p, zxid + 1)] /\ zxid' = zxid + 1
  BY DEF CreateZnode, SetZnode, Commit
<1>3. znode'[n].mzxid = zxid + 1 /\ \A m \in Node \ {n} : znode'[m] = znode[m]
  BY <1>2 DEF Version, Inv, ZkOK
<1> QED
  BY <1>1, <1>2, <1>3 DEF Copy!Newer

\* A step at a node of the nodeset, not yet recorded.
LEMMA FreshGoes ==
  ASSUME NEW s \in Server, FreshOK(s), NEW x, Turns(s, x), UNCHANGED <<todo, nodeMzxid>>,
         x.creating = th[s]["completion"].creating, x.node = th[s]["completion"].node,
         th[s]["completion"].pc # "nodeset"
  PROVE  FreshOK(s)'
  BY DEF FreshOK, Turns

\* The add returns: to replace the node, to the next of the nodeset, or it is done.
LEMMA ReturnOwn ==
  ASSUME Inv, NEW s \in Server, StartOK(s), Parts(s), Return(s, "completion"),
         th[s]["completion"].pc \notin {"idle", "dead", "nodeset"},
         FreshOK(s), UNCHANGED nodeMzxid
  PROVE  /\ StartOK(s)' /\ FreshOK(s)'
         /\ IF th[s]["completion"].again
              THEN JobNow(s)' = Task("recorded", th[s]["completion"].node,
                                     nodeMzxid[s][th[s]["completion"].node],
                                     th[s]["completion"].pack.val)
              ELSE JobNow(s)' = Rest
<1> DEFINE r == th[s]["completion"]
<1>1. CopierOK(r, todo[s])
  BY ThOK
<1>2. CASE r.again
  <2>0. ~r.creating
    BY <1>1, <1>2 DEF CopierOK
  <2>1. Goto(s, "completion", "replace") /\ UNCHANGED todo
    BY <1>2, <2>0 DEF Return
  <2>2. PICK x : /\ Turns(s, x) /\ x.pc = "replace" /\ x.node = r.node /\ x.pack = r.pack
                 /\ x.creating = r.creating
    BY <2>1, GotoGoes DEF Goes
  <2>3. StartOK(s)' /\ FreshOK(s)'
    BY <2>1, <2>2, WorkingKeeps, FreshGoes
  <2>4. TaskOf(s, x)' = Task("recorded", x.node, nodeMzxid'[s][x.node], x.pack.val)
    BY <2>2 DEF TaskOf, Copying
  <2> QED
    BY <1>2, <2>2, <2>3, <2>4 DEF JobNow, Turns
<1>3. CASE ~r.again /\ r.creating
  <2>1. Goto(s, "completion", "nodeset") /\ UNCHANGED todo
    BY <1>3, Zenon DEF Return
  <2>2. PICK x : /\ Turns(s, x) /\ x.pc = "nodeset" /\ x.node = r.node
                 /\ x.creating = r.creating
    BY <2>1, GotoGoes DEF Goes
  <2>3. StartOK(s)' /\ FreshOK(s)'
    BY <2>1, <2>2, WorkingKeeps, FreshGoes
  <2>4. TaskOf(s, x)' = Rest
    BY <2>2, NoTask
  <2> QED
    BY <1>3, <2>2, <2>3, <2>4 DEF JobNow, Turns
<1>4. CASE ~r.again /\ ~r.creating
  <2>1. Finish(s)
    BY <1>4 DEF Return
  <2>2. PICK x : Turns(s, x) /\ x.pc \in {"idle", "get"} /\ ~x.creating
    BY <2>1, FinishTurns
  <2>3. StartOK(s)' /\ FreshOK(s)'
    BY <2>2, WorkingKeeps
  <2>4. TaskOf(s, x)' = Rest
    BY <2>2, NoTask
  <2> QED
    BY <1>4, <2>2, <2>3, <2>4 DEF JobNow, Turns
<1> QED
  BY <1>2, <1>3, <1>4

\* What a reader pushes is of the nodeset, and has not been recorded.
LEMMA PushOwn ==
  ASSUME Inv, MaxLosses = 0, NEW s \in Server, Passive(s), StartOK(s), FreshOK(s),
         NEW t \in Thread, PushStep(s, t)
  PROVE  Own(s)
<1> DEFINE r == th[s]["completion"]
           n == r.node
           p == r.pack
<1>1. t = "completion"
  BY DEF PushStep, AddGet, AddCheck, ReplicateNode, Set, Create, Stat, Record, At, Passive,
         Thread
<1>2. /\ r.pc \in {"addGet", "addCheck", "exists", "set", "create", "stat", "record"}
      /\ n \in Node /\ r.again \in BOOLEAN
  <2>1. r.pc \in {"addGet", "addCheck", "exists", "set", "create", "stat", "record"}
    BY <1>1 DEF PushStep, AddGet, AddCheck, ReplicateNode, Set, Create, Stat, Record, At
  <2>2. r \in ThreadState /\ HandOK(r)
    BY ThOK
  <2> HIDE DEF r
  <2> QED
    BY <2>1, <2>2 DEF HandOK, Without, ThreadState
<1>3. ~Lost /\ Parts(s)
  BY NeverLost, PushParts
<1>4. CopyOK(s, r) /\ CopierOK(r, todo[s])
  BY ThOK DEF Passive
<1>5. r.creating => ~r.again /\ nodeMzxid[s][n] = 0 /\ n \notin todo[s]
  BY <1>2, <1>4 DEF CopierOK, FreshOK
<1>6. UNCHANGED nodeMzxid /\ UNCHANGED uaVars => Keeps(s)
  BY DEF Keeps, uaVars
<1>7. ASSUME NEW l \in PC, NEW v, Goes(s, l, v, r.again), UNCHANGED <<todo, nodeMzxid>>
      PROVE  StartOK(s)' /\ FreshOK(s)'
  <2>1. PICK x : Turns(s, x) /\ x.creating = r.creating /\ x.node = n
    BY <1>7 DEF Goes
  <2> QED
    BY <1>2, <1>3, <1>7, <2>1, WorkingKeeps, FreshGoes
<1>8. ~r.again => (r.pc # "record" => JobNow(s) = Rest)
  <2>1. ~r.again /\ r.pc # "record" => TaskOf(s, r) = Rest
    BY <1>2, NoTask
  <2> QED
    BY <2>1 DEF JobNow
<1>9. r.again /\ r.pc \in {"addGet", "addCheck"} =>
        JobNow(s) = Task("recorded", n, nodeMzxid[s][n], p.val)
  BY DEF JobNow, TaskOf, Copying

<1>10. CASE AddGet(s, t)
  <2>1. UNCHANGED znode /\ UNCHANGED nodeMzxid /\ UNCHANGED uaVars
    BY <1>10 DEF AddGet, Watch, zkVars
  <2>2. r.pc = "addGet"
    BY <1>1, <1>10 DEF AddGet, At
  <2>3. CASE /\ UNCHANGED todo
             /\ th' = [th EXCEPT ![s][t].pc = "addCheck", ![s][t].ver = znode[n].mzxid]
    <3>1. Goes(s, "addCheck", znode[n].mzxid, r.again)
      <4>1. znode[n].mzxid \in Nat /\ "addCheck" \in PC
        BY <1>2 DEF Inv, ZkOK, PC
      <4> QED
        BY <1>1, <2>3, <4>1, VersionGoes
    <3>2. StartOK(s)' /\ FreshOK(s)'
      BY <1>7, <2>1, <2>3, <3>1 DEF PC
    <3>3. PICK x : /\ Turns(s, x) /\ x.pc = "addCheck" /\ x.again = r.again
                   /\ x.node = n /\ x.pack = p
      BY <3>1 DEF Goes
    <3>4. JobNow(s)' = TaskOf(s, x)'
      BY <3>3 DEF JobNow, Turns
    <3>5. JobNow(s)' = JobNow(s)
      <4>1. CASE r.again
        <5>1. TaskOf(s, x)' = Task("recorded", x.node, nodeMzxid'[s][x.node], x.pack.val)
          BY <3>3, <4>1 DEF TaskOf, Copying
        <5> QED
          BY <1>9, <2>1, <2>2, <3>3, <3>4, <4>1, <5>1
      <4>2. CASE ~r.again
        <5>1. TaskOf(s, x)' = Rest
          BY <3>3, <4>2, NoTask
        <5> QED
          BY <1>8, <2>2, <3>4, <4>2, <5>1
      <4> QED
        BY <4>1, <4>2
    <3> QED
      BY <1>6, <2>1, <3>2, <3>5 DEF Own, Does, Stays
  <2>4. CASE ~Exists(n) /\ Goto(s, t, "exists") /\ UNCHANGED todo
    <3>1. Goes(s, "exists", r.ver, r.again)
      BY <1>1, <2>4, GotoGoes
    <3>2. StartOK(s)' /\ FreshOK(s)'
      BY <1>7, <2>1, <2>4, <3>1 DEF PC
    <3>3. ~r.again
      BY <1>4, <1>5, <2>2, <2>4 DEF CopyOK
    <3>4. PICK x : Turns(s, x) /\ x.pc = "exists" /\ x.again = r.again
      BY <3>1 DEF Goes
    <3>5. TaskOf(s, x)' = Rest
      BY <3>4, NoTask
    <3>6. JobNow(s)' = JobNow(s)
      BY <1>8, <2>2, <3>3, <3>4, <3>5 DEF JobNow, Turns
    <3> QED
      BY <1>6, <2>1, <3>2, <3>6 DEF Own, Does, Stays
  <2> QED
    BY <1>1, <1>3, <1>10, <2>3, <2>4 DEF AddGet
<1>11. CASE AddCheck(s, t)
  <2>1. UNCHANGED nodeMzxid /\ UNCHANGED uaVars /\ r.pc = "addCheck"
    BY <1>1, <1>11 DEF AddCheck, At
  <2>2. nodeMzxid[s][n] <= r.ver
    BY <1>4, <2>1 DEF CopyOK
  <2>3. Return(s, "completion") /\ UNCHANGED zkVars
    BY <1>1, <1>11, <2>2 DEF AddCheck
  <2>4. /\ StartOK(s)' /\ FreshOK(s)'
        /\ r.again => JobNow(s)' = Task("recorded", n, nodeMzxid[s][n], p.val)
        /\ ~r.again => JobNow(s)' = Rest
    BY <1>3, <2>1, <2>3, ReturnOwn
  <2>5. JobNow(s)' = JobNow(s)
    BY <1>2, <1>8, <1>9, <2>1, <2>4
  <2> QED
    BY <1>6, <2>1, <2>3, <2>4, <2>5 DEF Own, Does, Stays, zkVars
<1>12. ASSUME r.pc \in {"exists", "set", "create", "stat", "record"}
       PROVE  r.creating /\ ~r.again /\ nodeMzxid[s][n] = 0 /\ n \notin todo[s]
  BY <1>4, <1>5, <1>12 DEF CopyOK
<1>13. ASSUME NEW l \in {"set", "create", "stat"}, NEW v, Goes(s, l, v, r.again),
              UNCHANGED <<todo, nodeMzxid>>, r.pc \in {"exists", "create"}
       PROVE  StartOK(s)' /\ FreshOK(s)' /\ JobNow(s)' = JobNow(s)
  <2>1. StartOK(s)' /\ FreshOK(s)'
    BY <1>7, <1>13 DEF PC
  <2>2. PICK x : Turns(s, x) /\ x.pc = l /\ x.again = r.again
    BY <1>13 DEF Goes
  <2>3. TaskOf(s, x)' = Rest
    BY <2>2, NoTask
  <2> QED
    BY <1>8, <1>12, <1>13, <2>1, <2>2, <2>3 DEF JobNow, Turns
<1>14. ASSUME r.pc \in {"set", "stat"}, NEW v, v = znode'[n].mzxid, Goes(s, "record", v, r.again),
              Copy!Newer(n) \/ UNCHANGED znode,
              UNCHANGED <<todo, nodeMzxid>>, UNCHANGED uaVars
       PROVE  Own(s)
  <2>1. StartOK(s)' /\ FreshOK(s)'
    BY <1>7, <1>14 DEF PC
  <2>2. PICK x : Turns(s, x) /\ x.pc = "record" /\ x.ver = v /\ x.node = n
    BY <1>14 DEF Goes
  <2>3. TaskOf(s, x)' = Task("pushed", x.node, x.ver, 0)
    BY <2>2 DEF TaskOf
  <2>4. JobNow(s)' = Task("pushed", n, znode'[n].mzxid, 0)
    BY <1>14, <2>2, <2>3 DEF JobNow, Turns
  <2>5. Pushes(s)
    BY <1>2, <1>6, <1>8, <1>12, <1>14, <2>4 DEF Pushes
  <2> QED
    BY <2>1, <2>5 DEF Own, Does

<1>15. CASE ReplicateNode(s, t)
  <2>1. /\ r.pc = "exists" /\ UNCHANGED zkVars /\ UNCHANGED uaVars
        /\ UNCHANGED <<todo, nodeMzxid>>
    BY <1>1, <1>3, <1>15 DEF ReplicateNode, At
  <2>2. CASE th' = [th EXCEPT ![s][t].pc = "set", ![s][t].ver = znode[n].mzxid]
    <3>1. znode[n].mzxid \in Nat /\ "set" \in PC
      BY <1>2 DEF Inv, ZkOK, PC
    <3>2. Goes(s, "set", znode[n].mzxid, r.again)
      BY <1>1, <2>2, <3>1, VersionGoes
    <3> QED
      BY <1>6, <1>13, <2>1, <3>2 DEF Own, Does, Stays, zkVars
  <2>3. CASE Goto(s, t, "create")
    <3>1. Goes(s, "create", r.ver, r.again)
      BY <1>1, <2>3, GotoGoes
    <3> QED
      BY <1>6, <1>13, <2>1, <3>1 DEF Own, Does, Stays, zkVars
  <2> QED
    BY <1>1, <1>3, <1>15, <2>2, <2>3 DEF ReplicateNode
<1>16. CASE Set(s, t)
  <2>1. r.pc = "set" /\ Exists(n) /\ UNCHANGED uaVars /\ UNCHANGED <<todo, nodeMzxid>>
    BY <1>1, <1>4, <1>16 DEF CopyOK, Set, At
  <2>2. /\ SetZnode(n, p)
        /\ th' = [th EXCEPT ![s][t].pc = "record", ![s][t].ver = zxid']
    BY <1>1, <1>3, <1>16, <2>1 DEF Set
  <2>3. Copy!Newer(n) /\ znode'[n].mzxid = zxid' /\ zxid' \in Nat
    BY <1>2, <2>2, NewerZnode
  <2>4. PICK v \in Nat : v = zxid'
    BY <2>3
  <2>5. th' = [th EXCEPT ![s]["completion"].pc = "record", ![s]["completion"].ver = v]
    BY <1>1, <2>2, <2>4
  <2>6. Goes(s, "record", v, r.again)
    BY <2>5, VersionGoes, Zenon DEF PC
  <2> QED
    BY <1>14, <2>1, <2>3, <2>4, <2>6
<1>17. CASE Create(s, t)
  <2>1. /\ r.pc = "create" /\ UNCHANGED uaVars /\ UNCHANGED <<todo, nodeMzxid>>
        /\ Goto(s, "completion", "stat")
    BY <1>1, <1>17 DEF Create, At
  <2>2. CreateZnode(n, p) \/ UNCHANGED zkVars
    BY <1>1, <1>17 DEF Create
  <2>3. UNCHANGED znode \/ \E m \in Node : Copy!Newer(m)
    BY <1>2, <2>2, NewerZnode DEF zkVars
  <2>4. Goes(s, "stat", r.ver, r.again)
    BY <2>1, GotoGoes
  <2> QED
    BY <1>6, <1>13, <2>1, <2>3, <2>4 DEF Own, Does, Stays
<1>18. CASE Stat(s, t)
  <2>1. /\ r.pc = "stat" /\ Exists(n) /\ UNCHANGED zkVars /\ UNCHANGED uaVars
        /\ UNCHANGED <<todo, nodeMzxid>>
    BY <1>1, <1>4, <1>18 DEF CopyOK, Stat, At
  <2>2. PICK v \in Nat : v = znode[n].mzxid
    BY <1>2 DEF Inv, ZkOK
  <2>3. th' = [th EXCEPT ![s]["completion"].pc = "record", ![s]["completion"].ver = v]
    BY <1>1, <1>3, <1>18, <2>1, <2>2 DEF Stat
  <2>4. Goes(s, "record", v, r.again)
    BY <2>3, VersionGoes, Zenon DEF PC
  <2> QED
    BY <1>14, <2>1, <2>2, <2>4 DEF zkVars
<1>19. CASE Record(s, t)
  <2>1. /\ r.pc = "record" /\ UNCHANGED znode /\ UNCHANGED uaVars
        /\ nodeMzxid' = [nodeMzxid EXCEPT ![s][n] = r.ver]
        /\ Return(s, "completion")
    BY <1>1, <1>19 DEF Record, At, zkVars
  <2>2. r.creating /\ ~r.again /\ nodeMzxid[s][n] = 0 /\ n \notin todo[s]
    BY <1>12, <2>1
  <2>3. Goto(s, "completion", "nodeset") /\ UNCHANGED todo
    BY <2>1, <2>2, Zenon DEF Return
  <2>4. PICK x : Turns(s, x) /\ x.pc = "nodeset" /\ x.node = n /\ x.creating = r.creating
    BY <2>3, GotoGoes DEF Goes
  <2>5. nodeMzxid'[s] = [nodeMzxid[s] EXCEPT ![n] = r.ver]
    BY <2>1 DEF Inv, TableOK
  <2>6. StartOK(s)'
    BY <1>3, <2>1, <2>4, WorkingKeeps
  <2>7. FreshOK(s)'
    <3>1. todo[s] \subseteq Node /\ \A m \in todo[s] : nodeMzxid[s][m] = 0
      BY <2>2 DEF FreshOK, Inv, ThreadsOK
    <3>2. \A m \in todo[s] : nodeMzxid'[s][m] = 0
      BY <2>2, <2>5, <3>1 DEF Inv, TableOK
    <3> QED
      BY <2>3, <2>4, <3>2 DEF FreshOK, Turns
  <2>8. JobNow(s)' = Rest
    BY <2>4, NoTask DEF JobNow, Turns
  <2>9. JobNow(s) = Task("pushed", n, r.ver, 0)
    BY <2>1 DEF JobNow, TaskOf
  <2>10. RecordsPushed(s)
    BY <1>2, <2>1, <2>2, <2>5, <2>8, <2>9 DEF RecordsPushed, uaVars
  <2> QED
    BY <2>6, <2>7, <2>10 DEF Own, Does
<1> QED
  BY <1>10, <1>11, <1>15, <1>16, <1>17, <1>18, <1>19 DEF PushStep

-----------------------------------------------------------------------------
(* A move of a reader is a step of Replica, and a write of any server *)

Others(s) == \A q \in Reader \ {s} :
  nodeMzxid'[q] = nodeMzxid[q] /\ store'[q] = store[q] /\ JobNow(q)' = JobNow(q)

LEMMA OthersKept ==
  ASSUME NEW s, Apart(s), Local(s)
  PROVE  Others(s)
<1>1. ASSUME NEW q \in Reader \ {s}
      PROVE  nodeMzxid'[q] = nodeMzxid[q] /\ store'[q] = store[q] /\ th'[q] = th[q]
  BY DEF Apart, Local, Reader
<1> QED
  BY <1>1 DEF Others, JobNow, TaskOf

LEMMA Mapped ==
  ASSUME NEW s \in Reader, Others(s)
  PROVE  /\ Table' = [Table EXCEPT ![s] = nodeMzxid'[s]]
         /\ Shown' = [Shown EXCEPT ![s] = store'[s]]
         /\ Tasks' = [Tasks EXCEPT ![s] = JobNow(s)']
         /\ Table[s] = nodeMzxid[s] /\ Shown[s] = store[s] /\ Tasks[s] = JobNow(s)
         /\ nodeMzxid'[s] = nodeMzxid[s] => Table' = Table
         /\ store'[s] = store[s] => Shown' = Shown
         /\ JobNow(s)' = JobNow(s) => Tasks' = Tasks
         /\ \A q \in Reader \ {s} : Shown'[q] = Shown[q]
         /\ Shown'[s] = store'[s]
<1>1. \A q \in Reader \ {s} :
        nodeMzxid'[q] = nodeMzxid[q] /\ store'[q] = store[q] /\ JobNow(q)' = JobNow(q)
  BY DEF Others
<1>2. Tasks = [q \in Reader |-> JobNow(q)] /\ Tasks' = [q \in Reader |-> JobNow(q)']
  BY DEF Tasks, JobNow
<1> HIDE DEF JobNow
<1> QED
  BY <1>1, <1>2 DEF Table, Shown

LEMMA JobIsTask == \A phase, n, version, v :
  Copy!Job(phase, n, version, v) = Task(phase, n, version, v) /\ Copy!Free = Rest
  BY DEF Copy!Job, Copy!Free, Task, Rest

LEMMA DoesIsStep ==
  ASSUME Inv, NEW s \in Reader, Others(s), Does(s)
  PROVE  [Copy!Next]_(Copy!vars)
<1>1. /\ Table' = [Table EXCEPT ![s] = nodeMzxid'[s]]
      /\ Shown' = [Shown EXCEPT ![s] = store'[s]]
      /\ Tasks' = [Tasks EXCEPT ![s] = JobNow(s)']
      /\ Table[s] = nodeMzxid[s] /\ Shown[s] = store[s] /\ Tasks[s] = JobNow(s)
  BY Mapped
<1>2. /\ nodeMzxid'[s] = nodeMzxid[s] => Table' = Table
      /\ store'[s] = store[s] => Shown' = Shown
      /\ JobNow(s)' = JobNow(s) => Tasks' = Tasks
      /\ \A q \in Reader \ {s} : Shown'[q] = Shown[q]
      /\ Shown'[s] = store'[s]
  BY Mapped
<1> HIDE DEF JobNow, Rest
<1>3. CASE Stays(s)
  <2>1. Table' = Table /\ Shown' = Shown /\ Tasks' = Tasks
    BY <1>2, <1>3 DEF Stays, Keeps
  <2>2. CASE UNCHANGED znode
    BY <2>1, <2>2 DEF Copy!vars
  <2>3. ASSUME NEW n \in Node, Copy!Newer(n)
        PROVE  Copy!Next
    <3>1. Copy!Publish(n)
      BY <2>1, <2>3 DEF Copy!Publish
    <3> QED
      BY <3>1 DEF Copy!Next
  <2> QED
    BY <1>3, <2>2, <2>3 DEF Stays
<1>4. CASE Fetches(s)
  <2>1. PICK n \in Node : /\ znode[n].mzxid # 0
                          /\ JobNow(s)' = Task("fetched", n, znode[n].mzxid, znode[n].val)
    BY <1>4 DEF Fetches
  <2>2. Copy!Fetch(s, n)
    BY <1>1, <1>2, <1>4, <2>1, JobIsTask DEF Fetches, Keeps, Copy!Fetch
  <2> QED
    BY <2>2 DEF Copy!Next
<1>5. CASE Records(s)
  <2>1. PICK n \in Node : \E version, v :
          /\ JobNow(s) = Task("fetched", n, version, v)
          /\ nodeMzxid[s][n] < version
          /\ nodeMzxid'[s] = [nodeMzxid[s] EXCEPT ![n] = version]
          /\ JobNow(s)' = Task("recorded", n, version, v)
    BY <1>5 DEF Records
  <2>2. PICK version, v :
          /\ JobNow(s) = Task("fetched", n, version, v)
          /\ nodeMzxid[s][n] < version
          /\ nodeMzxid'[s] = [nodeMzxid[s] EXCEPT ![n] = version]
          /\ JobNow(s)' = Task("recorded", n, version, v)
    BY <2>1
  <2>3. Tasks[s].phase = "fetched" /\ Tasks[s].node = n /\ Tasks[s].mzxid = version
    BY <1>1, <2>2 DEF Task
  <2>4. Table' = [Table EXCEPT ![s][Tasks[s].node] = Tasks[s].mzxid]
    BY <1>1, <2>2, <2>3
  <2>5. Tasks' = [Tasks EXCEPT ![s].phase = "recorded"]
    <3>1. JobNow(s)' = [Tasks[s] EXCEPT !.phase = "recorded"]
      BY <1>1, <2>2 DEF Task
    <3> QED
      BY <1>1, <3>1
  <2>6. Copy!Record(s)
    BY <1>1, <1>2, <1>5, <2>2, <2>3, <2>4, <2>5 DEF Records, Copy!Record
  <2> QED
    BY <2>6 DEF Copy!Next
<1>6. CASE Shows(s)
  <2>1. PICK n \in Node : \E version, v :
          /\ JobNow(s) = Task("recorded", n, version, v)
          /\ \E w \in {0, v} : store'[s] = [store[s] EXCEPT ![n] = w]
          /\ JobNow(s)' \in {JobNow(s), Rest}
    BY <1>6 DEF Shows
  <2>2. PICK version, v :
          /\ JobNow(s) = Task("recorded", n, version, v)
          /\ \E w \in {0, v} : store'[s] = [store[s] EXCEPT ![n] = w]
          /\ JobNow(s)' \in {JobNow(s), Rest}
    BY <2>1
  <2>3. Tasks[s].phase = "recorded" /\ Tasks[s].node = n /\ Tasks[s].val = v
    BY <1>1, <2>2 DEF Task
  <2>4. PICK w \in {0, v} : store'[s] = [store[s] EXCEPT ![n] = w]
    BY <2>2
  <2>5. Shown' = [Shown EXCEPT ![s][Tasks[s].node] = w] /\ w \in {0, Tasks[s].val}
    BY <1>1, <2>3, <2>4
  <2>6. Tasks' \in {Tasks, [Tasks EXCEPT ![s] = Copy!Free]}
    BY <1>1, <1>2, <2>2, JobIsTask
  <2>7. Copy!Show(s)
    BY <1>2, <1>6, <2>3, <2>5, <2>6 DEF Shows, Copy!Show
  <2> QED
    BY <2>7 DEF Copy!Next

<1>7. CASE Drops(s)
  <2>1. Copy!Drop(s)
    BY <1>1, <1>2, <1>7, JobIsTask DEF Drops, Keeps, Copy!Drop
  <2> QED
    BY <2>1 DEF Copy!Next
<1>8. CASE Originates(s)
  <2>1. PICK n \in Node : /\ nodeMzxid[s][n] = 0 /\ store[s][n] = 0
                          /\ \A m \in Node \ {n} : store'[s][m] = store[s][m]
    BY <1>8 DEF Originates
  <2>2. \A q \in Reader, m \in Node : <<q, m>> # <<s, n>> => Shown'[q][m] = Shown[q][m]
    BY <1>1, <1>2, <2>1
  <2>3. Copy!Originate(s, n)
    BY <1>1, <1>2, <1>8, <2>1, <2>2, JobIsTask DEF Originates, Copy!Originate
  <2> QED
    BY <2>3 DEF Copy!Next
<1>9. CASE Pushes(s)
  <2>1. PICK n \in Node : /\ nodeMzxid[s][n] = 0
                          /\ Copy!Newer(n) \/ UNCHANGED znode
                          /\ JobNow(s)' = Task("pushed", n, znode'[n].mzxid, 0)
    BY <1>9 DEF Pushes
  <2>2. Copy!Push(s, n)
    BY <1>1, <1>2, <1>9, <2>1, JobIsTask DEF Pushes, Keeps, Copy!Push
  <2> QED
    BY <2>2 DEF Copy!Next
<1>10. CASE RecordsPushed(s)
  <2>1. PICK n \in Node : \E version :
          /\ JobNow(s) = Task("pushed", n, version, 0)
          /\ nodeMzxid[s][n] = 0
          /\ nodeMzxid'[s] = [nodeMzxid[s] EXCEPT ![n] = version]
          /\ JobNow(s)' = Rest
    BY <1>10 DEF RecordsPushed
  <2>2. PICK version :
          /\ JobNow(s) = Task("pushed", n, version, 0)
          /\ nodeMzxid[s][n] = 0
          /\ nodeMzxid'[s] = [nodeMzxid[s] EXCEPT ![n] = version]
          /\ JobNow(s)' = Rest
    BY <2>1
  <2>3. Tasks[s].phase = "pushed" /\ Tasks[s].node = n /\ Tasks[s].mzxid = version
    BY <1>1, <2>2 DEF Task
  <2>4. Table' = [Table EXCEPT ![s][Tasks[s].node] = Tasks[s].mzxid]
    BY <1>1, <2>2, <2>3
  <2>5. Copy!RecordPushed(s)
    BY <1>1, <1>2, <1>10, <2>2, <2>3, <2>4, JobIsTask DEF RecordsPushed, Copy!RecordPushed
  <2> QED
    BY <2>5 DEF Copy!Next
<1>11. CASE Restarts(s)
  <2>1. Copy!Restart(s)
    BY <1>1, <1>11, JobIsTask DEF Restarts, Copy!Restart
  <2> QED
    BY <2>1 DEF Copy!Next
<1> QED
  BY <1>3, <1>4, <1>5, <1>6, <1>7, <1>8, <1>9, <1>10, <1>11 DEF Does

\* What any other server does to a reader is at most a new version on ZooKeeper.
LEMMA PartsIsStep ==
  ASSUME Inv, Told, NEW s \in Server \ Reader, Parts(s), Apart(s)
  PROVE  [Copy!Next]_(Copy!vars)
<1>1. Others(s) /\ \A q \in Reader : q # s
  BY OthersKept DEF Parts
<1>2. Table' = Table /\ Shown' = Shown /\ Tasks' = Tasks
  <2>1. \A q \in Reader :
          nodeMzxid'[q] = nodeMzxid[q] /\ store'[q] = store[q] /\ JobNow(q)' = JobNow(q)
    BY <1>1 DEF Others
  <2>2. Tasks = [q \in Reader |-> JobNow(q)] /\ Tasks' = [q \in Reader |-> JobNow(q)']
    BY DEF Tasks, JobNow
  <2> HIDE DEF JobNow
  <2> QED
    BY <2>1, <2>2 DEF Table, Shown
<1>3. CASE Asked(s)
  BY <1>2, <1>3 DEF Asked, Copy!vars
<1>4. CASE Published
  <2>1. PICK n \in Node : Copy!Newer(n)
    BY <1>4, PublishedKeeps
  <2>2. Copy!Publish(n)
    BY <1>2, <2>1 DEF Copy!Publish
  <2> QED
    BY <2>2 DEF Copy!Next
<1> QED
  BY <1>3, <1>4 DEF Parts

-----------------------------------------------------------------------------
(* The theorem *)

LEMMA StepSoundly ==
  ASSUME Inv, NEW s \in Server,
         \/ RequestStep(s) \/ MainStep(s) \/ (\E t \in Thread : PushStep(s, t))
         \/ CopyStep(s) \/ Restart(s)
  PROVE  Elsewhere(s)
<1>1. CASE RequestStep(s) \/ Restart(s)
  BY <1>1, RequestStepSound, RestartSound DEF Sound
<1>2. CASE MainStep(s)
  BY <1>2, StartSound, NewServerSound, ZkDeleteSound, DeleteLocalSound, ReadBackSound
  DEF MainStep, Sound
<1>3. CASE \E t \in Thread : PushStep(s, t)
  BY <1>3, PushStepSound DEF Sound
<1>4. CASE CopyStep(s)
  BY <1>4, DeliverSound, CreateNodesetSound, GetSound, CopyingSound DEF CopyStep, Sound
<1> QED
  BY <1>1, <1>2, <1>3, <1>4

LEMMA RInvInit == Init => RInv
<1> SUFFICES ASSUME Init PROVE RInv
  OBVIOUS
<1> PICK o \in Opening : Init!(o)
  BY DEF Init
<1>1. ASSUME NEW s \in Server
      PROVE  \A e \in Elements(queue[s]) : e.kind = "list"
  <2>1. CASE s \in o.starting
    BY <2>1, ElementsEmpty
  <2>2. CASE s \notin o.starting
    <3>1. queue[s] = <<Event("list", o.present)>>
      BY <2>2
    <3>2. \A i \in 1..Len(queue[s]) : queue[s][i].kind = "list"
      BY <3>1 DEF Event
    <3> QED
      BY <3>2 DEF Elements
  <2> QED
    BY <2>1, <2>2
<1>2. Told
  BY <1>1 DEF Told
<1>3. ASSUME NEW s \in Reader
      PROVE  StartOK(s) /\ FreshOK(s)
  <2>1. s \in Server
    BY DEF Reader
  <2>2. /\ th[s]["main"].pc \in {"start", "idle"} /\ th[s]["completion"].pc = "idle"
        /\ ~th[s]["completion"].creating
        /\ th[s]["main"].pc = "start" <=> s \in o.starting
    BY <2>1 DEF Started, Idle, Thread
  <2>3. Queued(s, "start") = {}
    BY <1>1, <2>1, QueuedElements
  <2>4. s \in o.starting => queue[s] = <<>> /\ Unwatching(s)
    BY <2>1 DEF Unwatching
  <2>5. \A n \in Node : nodeMzxid[s][n] = 0
    BY <2>1
  <2> QED
    BY <2>2, <2>3, <2>4, <2>5 DEF StartOK, FreshOK, Starts
<1> QED
  BY <1>2, <1>3 DEF RInv

LEMMA RInvNext ==
  ASSUME "delete" \notin Kind, MaxLosses = 0, Inv, CInv, RInv, Next
  PROVE  RInv' /\ [Copy!Next]_(Copy!vars)
<1>1. PICK s \in Server :
        \/ RequestStep(s) \/ MainStep(s) \/ (\E t \in Thread : PushStep(s, t))
        \/ CopyStep(s) \/ Restart(s)
  BY DEF Next
<1>2. Apart(s)
  BY <1>1, RequestOnly, MainOnly, PushOnly, CopyOnly, RestartOnly DEF CInv, OnlyBy
<1>3. Parts(s)
  BY <1>1, RequestParts, MainParts, PushParts, CopyParts, RestartParts DEF CInv
<1>4. Elsewhere(s)
  BY <1>1, StepSoundly
<1>5. ASSUME s \in Reader
      PROVE  Own(s)
  <2>1. Passive(s) /\ Told /\ StartOK(s) /\ FreshOK(s)
    BY <1>5 DEF CInv, RInv, Reader
  <2>2. ~RequestStep(s)
    <3>1. \A kind : ~Request(s, kind)
      BY <1>5 DEF Request, Reader
    <3>2. \A n \in Node : ~Write(s, n) /\ ~AddNode(s, n) /\ ~DeleteNode(s, n)
      BY <3>1, Zenon DEF Write, AddNode, DeleteNode
    <3> QED
      BY <3>2 DEF RequestStep
  <2>3. CopyStep(s) => Own(s)
    BY <2>1, DeliverOwn, CreateNodesetOwn, GetOwn, CheckOwn, DecodeOwn, ReplaceOwn, ReaddOwn
    DEF CopyStep
  <2> QED
    BY <1>1, <2>1, <2>2, <2>3, MainOwn, PushOwn, RestartOwn
<1>6. RInv'
  <2>1. Told'
    BY <1>3, ToldLater DEF RInv
  <2>2. ASSUME NEW q \in Reader, q # s
        PROVE  StartOK(q)' /\ FreshOK(q)'
    BY <1>2, <1>3, <1>4, <2>2, OthersStart DEF RInv
  <2> QED
    BY <1>5, <2>1, <2>2 DEF RInv, Own
<1>7. [Copy!Next]_(Copy!vars)
  <2>1. CASE s \in Reader
    <3>1. Others(s)
      BY <1>2, <1>3, OthersKept DEF Parts
    <3> QED
      BY <1>5, <2>1, <3>1, DoesIsStep DEF Own
  <2>2. CASE s \notin Reader
    BY <1>2, <1>3, <2>2, PartsIsStep DEF RInv
  <2> QED
    BY <2>1, <2>2
<1> QED
  BY <1>6, <1>7

LEMMA RInvStutters ==
  ASSUME RInv, UNCHANGED vars
  PROVE  RInv' /\ UNCHANGED Copy!vars
<1>1. UNCHANGED <<queue, th, nodeMzxid, todo, dataWatch, childWatch>>
  BY DEF vars, zkVars
<1>2. RInv'
  BY <1>1 DEF RInv, Told, StartOK, FreshOK, Starts, Unwatching, Queued, Elements
<1>3. UNCHANGED Copy!vars
  BY <1>1 DEF vars, zkVars, uaVars, Copy!vars, Table, Shown, Tasks, TaskOf
<1> QED
  BY <1>2, <1>3

LEMMA InitIsCopyInit == Init => Copy!Init
<1> SUFFICES ASSUME Init PROVE Copy!Init
  OBVIOUS
<1> PICK o \in Opening : Init!(o)
  BY DEF Init
<1>1. Reader \subseteq Server
  BY DEF Reader
<1>2. Table = [s \in Reader |-> [n \in Node |-> 0]] /\ Shown = [s \in Reader |-> [n \in Node |-> 0]]
  BY <1>1 DEF Table, Shown
<1>3. \A s \in Reader : th[s]["completion"].pc = "idle"
  BY <1>1 DEF Started, Idle, Thread
<1>4. \A s \in Reader : TaskOf(s, th[s]["completion"]) = Rest
  BY <1>3, NoTask
<1>5. Tasks = [s \in Reader |-> Rest]
  BY <1>4 DEF Tasks
<1> QED
  BY <1>2, <1>5, JobIsTask DEF Copy!Init

\* Whatever a server without writers does while others write and it is killed and
\* started again, its copy is that of Replica, if nobody deletes and ZooKeeper
\* answers: nothing of a node is shown but a version that was fetched and then
\* recorded, no older one comes back, and a node of its own nodeset is pushed and
\* recorded once.
THEOREM CopiesImplement ==
  ASSUME "delete" \notin Kind, MaxLosses = 0
  PROVE  Spec => ImplementsReplica
<1>1. Init => CInv /\ RInv /\ Copy!Init
  BY CInvInit, RInvInit, InitIsCopyInit
<1>2. IInv /\ IInv' /\ CInv /\ RInv /\ [Next]_vars =>
        CInv' /\ RInv' /\ [Copy!Next]_(Copy!vars)
  BY CInvNext, CInvStutters, RInvNext, RInvStutters DEF IInv
<1> QED
  BY <1>1, <1>2, AlwaysIInv, PTL DEF Spec, ImplementsReplica, Copy!Spec

-----------------------------------------------------------------------------
(* What a reader shows is current *)

Pending == {"decode", "addGet", "addCheck", "replace", "readd"}

\* Below, u is what a reader stores, t its table, r its completion thread and own
\* the nodes of which it may have stored its own.
OwnNodes(s) == IF addressSpaceExists[s] THEN {} ELSE Nodeset

\* No node is stored without its parent, unless that is being replaced.
Whole(u, r) ==
  \A n \in Node : \/ u[n] = 0 \/ Parent[n] = 0 \/ u[Parent[n]] # 0
                  \/ r.pc = "readd" /\ r.node = Parent[n]

\* A pack at hand is that of the version it was fetched with, and how far it has
\* come: what is not to be replaced is stored as the pack says, or had no parent to
\* be added to; what is to be replaced has one.
HeldOK(u, t, r) ==
  /\ r.pc = "check" /\ r.ver = znode[r.node].mzxid => r.pack = PackOf(r.node)
  /\ r.pc \in Pending /\ t[r.node] = znode[r.node].mzxid => r.pack = PackOf(r.node)
  /\ r.pc \in {"addGet", "addCheck"} /\ ~r.again /\ r.pack.parented =>
       u[r.node] = r.pack.val \/ (u[r.node] = 0 /\ Parent[r.node] # 0)
  /\ \/ r.pc \in {"addGet", "addCheck"} /\ r.again
     \/ r.pc \in {"replace", "readd"}
     => r.pack.parented /\ (Parent[r.node] = 0 \/ u[Parent[r.node]] # 0)
  /\ r.pc = "readd" => u[r.node] = 0

\* A recorded version that ZooKeeper still has is the one that is shown, or the
\* server shows the node it created itself.
Settled(own, u, t, n) ==
  znode[n].parented /\ (Parent[n] = 0 \/ u[n] # 0) /\ t[n] # 0 /\ t[n] = znode[n].mzxid =>
    u[n] = znode[n].val \/ (n \in own /\ u[n] = 1)

Latest(own, u, t, r) == \A n \in Node : (r.pc \in Pending /\ r.node = n) \/ Settled(own, u, t, n)

Faithful(own, u, t, r) == ~r.creating /\ Whole(u, r) /\ HeldOK(u, t, r) /\ Latest(own, u, t, r)

FaithfulNow(s) == Faithful(OwnNodes(s), store[s], nodeMzxid[s], th[s]["completion"])

BuildPC == {"nodeset", "addGet", "addCheck", "exists", "set", "create", "stat", "record"}

\* A node of the nodeset that has been added: it is stored, or lacks its parent.
Built(u, n) == n \in Nodeset /\ (Parent[n] = 0 => u[n] = 1)

\* While it creates the nodeset a server stores nodes of it and no others, and has
\* recorded none that it has not added.
Building(s) ==
  LET u == store[s]
      r == th[s]["completion"]
  IN /\ ~addressSpaceExists[s] /\ r.creating /\ r.pc \in BuildPC /\ todo[s] \subseteq Nodeset
     /\ \A n \in Node : u[n] \in {0, 1} /\ (u[n] = 0 \/ Parent[n] = 0 \/ u[Parent[n]] # 0)
     /\ r.pc # "nodeset" => Built(u, r.node)
     /\ \A n \in Node : nodeMzxid[s][n] # 0 => Built(u, n)

Empty(s) == \A n \in Node : store[s][n] = 0

\* A reader's part of the invariant.
ReaderOK(s) ==
  /\ th[s]["main"].pc = "start" => th[s]["completion"].pc = "idle"
  /\ Starts(s) => Empty(s)
  /\ FaithfulNow(s) \/ Building(s)

FInv == \A s \in Reader : ReaderOK(s)

LEMMA FInvCurrent == FInv => CopiesCurrent
<1> SUFFICES ASSUME FInv, NEW s \in Server \ Writer, NEW n \in Znodes,
                    znode[n].parented, Parent[n] = 0 \/ Stored(s, n), ~AtWork(s, n),
                    nodeMzxid[s][n] = znode[n].mzxid
             PROVE  store[s][n] = znode[n].val \/ KeepsItsOwn(s, n)
  BY DEF CopiesCurrent
<1>1. n \in Node /\ n # 0 /\ s \in Reader /\ nodeMzxid[s][n] # 0
  BY ConstantsOK DEF ConstantsOK, Znodes, Exists, Reader
<1>2. CASE FaithfulNow(s)
  <2>1. Latest(OwnNodes(s), store[s], nodeMzxid[s], th[s]["completion"])
    BY <1>2 DEF FaithfulNow, Faithful
  <2>2. Settled(OwnNodes(s), store[s], nodeMzxid[s], n)
    BY <1>1, <2>1 DEF Latest, AtWork, Pending
  <2> QED
    BY <1>1, <2>2 DEF Settled, Stored, OwnNodes, KeepsItsOwn
<1>3. CASE Building(s)
  BY <1>1, <1>3 DEF Building, Built, Stored, KeepsItsOwn
<1> QED
  BY <1>1, <1>2, <1>3 DEF FInv, ReaderOK

\* The thread has no pack at hand: what is settled is all there is.
LEMMA FreeFaithful ==
  ASSUME NEW own, NEW u, NEW t, NEW r, NEW x, Faithful(own, u, t, r), r.pc # "readd",
         r.pc \in Pending => Settled(own, u, t, r.node),
         x.pc \in {"idle", "get"}, ~x.creating
  PROVE  Faithful(own, u, t, x)
<1>1. Whole(u, x)
  BY DEF Faithful, Whole
<1>2. HeldOK(u, t, x)
  BY DEF HeldOK, Pending
<1>3. Latest(own, u, t, x)
  BY DEF Faithful, Latest
<1> QED
  BY <1>1, <1>2, <1>3 DEF Faithful

LEMMA FetchedFaithful ==
  ASSUME NEW own, NEW u, NEW t, NEW r, NEW x, Faithful(own, u, t, r), r.pc = "get",
         x.pc = "check", x.pack = PackOf(x.node), ~x.creating
  PROVE  Faithful(own, u, t, x)
<1>1. Whole(u, x)
  BY DEF Faithful, Whole
<1>2. HeldOK(u, t, x)
  BY DEF HeldOK, Pending
<1>3. Latest(own, u, t, x)
  BY DEF Faithful, Latest, Pending
<1> QED
  BY <1>1, <1>2, <1>3 DEF Faithful

LEMMA RecordedFaithful ==
  ASSUME NEW own, NEW u, NEW t, NEW w, NEW r, NEW x, Faithful(own, u, t, r),
         r.pc = "check",
         \A n \in Node : w[n] = IF n = r.node THEN r.ver ELSE t[n],
         r.node \in Node, x.pc = "decode", x.node = r.node, x.pack = r.pack, ~x.creating
  PROVE  Faithful(own, u, w, x)
<1>1. Whole(u, x)
  BY DEF Faithful, Whole
<1>2. HeldOK(u, w, x)
  BY DEF Faithful, HeldOK, Pending
<1>3. Latest(own, u, w, x)
  BY DEF Faithful, Latest, Pending, Settled
<1> QED
  BY <1>1, <1>2, <1>3 DEF Faithful

\* The first add of a pack, which stores it or finds the node there, v being what
\* it leaves.
LEMMA DecodedFaithful ==
  ASSUME NEW own, NEW u, NEW t, NEW v, NEW r, NEW x, Faithful(own, u, t, r),
         r.pc = "decode",
         r.node \in Node, Parent[r.node] # r.node, Parent[r.node] \in Node \cup {0},
         Named(r.pack), r.pack.parented \in BOOLEAN,
         NEW up, up <=> Parent[r.node] = 0 \/ u[Parent[r.node]] # 0,
         NEW a, a <=> r.pack.parented /\ up /\ u[r.node] = 0,
         NEW b, b <=> r.pack.parented /\ up /\ u[r.node] # 0,
         x.again <=> b,
         \A n \in Node : v[n] = IF a /\ n = r.node THEN r.pack.val ELSE u[n],
         x.pc = "addGet", x.node = r.node, x.pack = r.pack, ~x.creating
  PROVE  Faithful(own, v, t, x)
<1>1. (x.again <=> b) /\ \A n \in Node : v[n] = IF a /\ n = r.node THEN r.pack.val ELSE u[n]
  OBVIOUS
<1>2. a => r.pack.val # 0
  BY DEF Named
<1>3. \A n \in Node : u[n] # 0 => v[n] # 0
  BY <1>1, <1>2
<1>4. \A n \in Node : n # r.node => v[n] = u[n]
  BY <1>1
<1>5. Whole(v, x)
  <2> SUFFICES ASSUME NEW n \in Node, v[n] # 0, Parent[n] # 0
               PROVE  v[Parent[n]] # 0
    BY DEF Whole
  <2>1. Parent[n] \in Node
    BY ConstantsOK DEF ConstantsOK
  <2>2. CASE u[n] # 0
    <3>1. u[Parent[n]] # 0
      BY <2>2 DEF Faithful, Whole
    <3> QED
      BY <1>3, <2>1, <3>1
  <2>3. CASE u[n] = 0
    <3>1. a /\ n = r.node
      BY <1>1, <2>3
    <3>2. u[Parent[n]] # 0
      BY <3>1
    <3> QED
      BY <1>3, <2>1, <3>2
  <2> QED
    BY <2>2, <2>3
<1>6. r.pack.parented /\ ~b => v[r.node] = r.pack.val \/ (v[r.node] = 0 /\ Parent[r.node] # 0)
  <2> SUFFICES ASSUME r.pack.parented, ~b, ~a PROVE v[r.node] = 0 /\ Parent[r.node] # 0
    BY <1>1
  <2>1. ~up
    OBVIOUS
  <2>2. u[r.node] = 0
    BY <2>1 DEF Faithful, Whole
  <2> QED
    BY <1>1, <2>2
<1>7. b => Parent[r.node] = 0 \/ v[Parent[r.node]] # 0
  BY <1>3
<1>8. HeldOK(v, t, x)
  <2>1. r.pc \in Pending
    BY DEF Pending
  <2>2. t[r.node] = znode[r.node].mzxid => r.pack = PackOf(r.node)
    BY <2>1 DEF Faithful, HeldOK
  <2> QED
    BY <1>1, <1>6, <1>7, <2>2 DEF HeldOK
<1>9. Latest(own, v, t, x)
  BY <1>4 DEF Faithful, Latest, Pending, Settled
<1> QED
  BY <1>5, <1>8, <1>9 DEF Faithful

\* The add looks the znode up, and returns.
LEMMA AddingFaithful ==
  ASSUME NEW own, NEW u, NEW t, NEW r, NEW x, Faithful(own, u, t, r),
         r.pc \in {"addGet", "addCheck"},
         x.pc = "addCheck" \/ (x.pc = "replace" /\ r.again),
         x.again = r.again, x.node = r.node, x.pack = r.pack, ~x.creating
  PROVE  Faithful(own, u, t, x)
<1>1. Whole(u, x)
  BY DEF Faithful, Whole
<1>2. HeldOK(u, t, x)
  BY DEF Faithful, HeldOK, Pending
<1>3. Latest(own, u, t, x)
  BY DEF Faithful, Latest, Pending
<1> QED
  BY <1>1, <1>2, <1>3 DEF Faithful

LEMMA ReturnedSettled ==
  ASSUME NEW own, NEW u, NEW t, NEW r, Faithful(own, u, t, r),
         r.pc = "addCheck", ~r.again, r.node \in Node
  PROVE  Settled(own, u, t, r.node)
<1> SUFFICES ASSUME znode[r.node].parented, Parent[r.node] = 0 \/ u[r.node] # 0,
                    t[r.node] = znode[r.node].mzxid
             PROVE  u[r.node] = znode[r.node].val
  BY DEF Settled
<1>1. r.pack = PackOf(r.node)
  BY DEF Faithful, HeldOK, Pending
<1>2. r.pack.parented /\ r.pack.val = znode[r.node].val
  BY <1>1 DEF PackOf
<1>3. u[r.node] = r.pack.val \/ (u[r.node] = 0 /\ Parent[r.node] # 0)
  BY <1>2 DEF Faithful, HeldOK
<1> QED
  BY <1>2, <1>3

LEMMA BlankSettled ==
  ASSUME NEW own, NEW u, NEW t, NEW r, Faithful(own, u, t, r), r.pc = "decode", r.pack = Blank
  PROVE  Settled(own, u, t, r.node)
<1> SUFFICES ASSUME znode[r.node].parented, t[r.node] = znode[r.node].mzxid
             PROVE  FALSE
  BY DEF Settled
<1>1. Blank = PackOf(r.node)
  BY DEF Faithful, HeldOK, Pending
<1> QED
  BY <1>1 DEF PackOf, Blank

LEMMA ReplacedFaithful ==
  ASSUME NEW own, NEW u, NEW t, NEW v, NEW r, NEW x, Faithful(own, u, t, r),
         r.pc = "replace",
         r.node \in Node, Parent[r.node] # r.node, Parent[r.node] \in Node \cup {0},
         \A n \in Node : v[n] = IF n = r.node THEN 0 ELSE u[n],
         x.pc = "readd", x.node = r.node, x.pack = r.pack, ~x.creating
  PROVE  Faithful(own, v, t, x)
<1>1. Whole(v, x)
  <2> SUFFICES ASSUME NEW n \in Node, v[n] # 0, Parent[n] # 0, Parent[n] # r.node
               PROVE  v[Parent[n]] # 0
    BY DEF Whole
  <2>1. Parent[n] \in Node /\ u[n] # 0
    BY ConstantsOK DEF ConstantsOK
  <2>2. u[Parent[n]] # 0
    BY <2>1 DEF Faithful, Whole
  <2> QED
    BY <2>1, <2>2
<1>2. HeldOK(v, t, x)
  <2>1. r.pack.parented /\ (Parent[r.node] = 0 \/ u[Parent[r.node]] # 0)
    BY DEF Faithful, HeldOK
  <2>2. t[r.node] = znode[r.node].mzxid => r.pack = PackOf(r.node)
    BY DEF Faithful, HeldOK, Pending
  <2> QED
    BY <2>1, <2>2 DEF HeldOK
<1>3. Latest(own, v, t, x)
  BY DEF Faithful, Latest, Pending, Settled
<1> QED
  BY <1>1, <1>2, <1>3 DEF Faithful

LEMMA ReaddedFaithful ==
  ASSUME NEW own, NEW u, NEW t, NEW v, NEW r, NEW x, Faithful(own, u, t, r),
         r.pc = "readd",
         r.node \in Node, Parent[r.node] # r.node, Named(r.pack),
         \A n \in Node : v[n] = IF n = r.node THEN r.pack.val ELSE u[n],
         x.pc = "addGet", ~x.again, x.node = r.node, x.pack = r.pack, ~x.creating
  PROVE  Faithful(own, v, t, x)
<1>1. r.pack.parented /\ (Parent[r.node] = 0 \/ u[Parent[r.node]] # 0)
  BY DEF Faithful, HeldOK
<1>2. v[r.node] # 0
  BY <1>1 DEF Named
<1>3. Whole(v, x)
  <2> SUFFICES ASSUME NEW n \in Node, v[n] # 0, Parent[n] # 0
               PROVE  v[Parent[n]] # 0
    BY DEF Whole
  <2>1. Parent[n] \in Node
    BY ConstantsOK DEF ConstantsOK
  <2>2. CASE Parent[n] = r.node
    BY <1>2, <2>2
  <2>3. CASE Parent[n] # r.node
    <3>1. u[Parent[n]] # 0
      BY <1>1, <2>3 DEF Faithful, Whole
    <3> QED
      BY <2>1, <2>3, <3>1
  <2> QED
    BY <2>2, <2>3
<1>4. HeldOK(v, t, x)
  <2>1. t[r.node] = znode[r.node].mzxid => r.pack = PackOf(r.node)
    BY DEF Faithful, HeldOK, Pending
  <2> QED
    BY <2>1 DEF HeldOK
<1>5. Latest(own, v, t, x)
  BY DEF Faithful, Latest, Pending, Settled
<1> QED
  BY <1>3, <1>4, <1>5 DEF Faithful

LEMMA FaithfulLater ==
  ASSUME NEW s, NEW x, UNCHANGED znode, th'[s]["completion"] = x,
         NEW own, own = OwnNodes(s)', Faithful(own, store'[s], nodeMzxid'[s], x)
  PROVE  FaithfulNow(s)'
  BY DEF FaithfulNow, Faithful, Whole, HeldOK, Latest, Settled, PackOf

LEMMA FinishKeeping ==
  ASSUME Inv, NEW s \in Server, FaithfulNow(s), OwnNodes(s)' = OwnNodes(s), Finish(s),
         UNCHANGED znode, Keeps(s),
         th[s]["completion"].pc # "readd",
         th[s]["completion"].pc \in Pending =>
           Settled(OwnNodes(s), store[s], nodeMzxid[s], th[s]["completion"].node)
  PROVE  FaithfulNow(s)'
<1>1. PICK x : Turns(s, x) /\ x.pc \in {"idle", "get"} /\ ~x.creating
  BY FinishTurns
<1>2. Faithful(OwnNodes(s), store[s], nodeMzxid[s], x)
  BY <1>1, FreeFaithful DEF FaithfulNow
<1> QED
  BY <1>1, <1>2, FaithfulLater DEF Keeps, Turns

LEMMA DeliverKeeping ==
  ASSUME Inv, NEW s \in Server, Told, FaithfulNow(s), OwnNodes(s)' = OwnNodes(s),
         addressSpaceExists[s] \/ Queued(s, "start") = {}, Deliver(s)
  PROVE  FaithfulNow(s)'
<1> DEFINE e == Head(queue[s])
           r == th[s]["completion"]
<1>1. r.pc = "idle" /\ nodeMzxid'[s] = nodeMzxid[s] /\ queue[s] # <<>>
  BY DEF Deliver, At
<1>2. e.kind # "deleted" /\ (e.kind = "start" => addressSpaceExists[s])
  <2>1. queue[s] \in Seq(Events)
    BY DEF Inv, ZkOK
  <2>2. e \in Elements(queue[s])
    BY <1>1, <2>1, ElementsTail
  <2> HIDE DEF e
  <2> QED
    BY <2>2, QueuedElements DEF Told
<1>3. \/ DeliverChanged(s, e) \/ DeliverChild(s, e)
      \/ DeliverList(s, e) \/ DeliverStart(s, e)
  BY <1>2 DEF Deliver, DeliverDeleted
<1>4. UNCHANGED znode
  <2>1. DeliverChanged(s, e) => UNCHANGED znode
    BY Zenon DEF DeliverChanged
  <2>2. ASSUME NEW q PROVE ListChildren(s, q) => UNCHANGED znode
    BY DEF ListChildren
  <2> HIDE DEF e
  <2> QED
    BY <1>3, <2>1, <2>2 DEF DeliverChild, DeliverList, DeliverStart
<1>5. store'[s] = store[s]
  <2> HIDE DEF e
  <2> QED
    BY <1>3 DEF DeliverChanged, DeliverChild, DeliverList, DeliverStart, uaVars
<1>6. \/ UNCHANGED th
      \/ \E n : Become(s, "completion", [Idle EXCEPT !.pc = "get", !.node = n])
  <2> HIDE DEF e
  <2>1. DeliverChanged(s, e) => \E n : Become(s, "completion", [Idle EXCEPT !.pc = "get", !.node = n])
    BY Zenon DEF DeliverChanged
  <2>2. DeliverChild(s, e) \/ DeliverStart(s, e) => UNCHANGED th
    BY <1>2 DEF DeliverChild, DeliverStart
  <2>3. DeliverList(s, e) => \/ UNCHANGED th
          \/ \E n : Become(s, "completion", [Idle EXCEPT !.pc = "get", !.node = n])
    BY Zenon DEF DeliverList
  <2> QED
    BY <1>3, <2>1, <2>2, <2>3
<1>7. \E x : Turns(s, x) /\ x.pc \in {"idle", "get"} /\ ~x.creating
  <2>1. CASE UNCHANGED th
    BY <1>1, <2>1 DEF Turns, FaithfulNow, Faithful
  <2>2. ASSUME NEW n, Become(s, "completion", [Idle EXCEPT !.pc = "get", !.node = n])
        PROVE  \E x : Turns(s, x) /\ x.pc \in {"idle", "get"} /\ ~x.creating
    <3> DEFINE x == [Idle EXCEPT !.pc = "get", !.node = n]
    <3>1. x.pc = "get" /\ ~x.creating
      BY DEF Idle
    <3> HIDE DEF x
    <3>2. Turns(s, x)
      BY <2>2, BecomeTurns DEF x
    <3> QED
      BY <3>1, <3>2
  <2> QED
    BY <1>6, <2>1, <2>2
<1>8. PICK x : Turns(s, x) /\ x.pc \in {"idle", "get"} /\ ~x.creating
  BY <1>7
<1>9. Faithful(OwnNodes(s), store[s], nodeMzxid[s], x)
  BY <1>1, <1>8, FreeFaithful DEF FaithfulNow, Pending
<1> QED
  BY <1>1, <1>4, <1>5, <1>8, <1>9, FaithfulLater DEF Turns

LEMMA GetKeeping ==
  ASSUME Inv, NEW s \in Server, FaithfulNow(s), OwnNodes(s)' = OwnNodes(s), Get(s)
  PROVE  FaithfulNow(s)'
<1> DEFINE r == th[s]["completion"]
           n == r.node
<1>1. r.pc = "get"
  BY DEF Get, At
<1>2. Keeps(s) /\ UNCHANGED znode
  BY DEF Get, Keeps, uaVars, Watch, zkVars
<1>3. CASE Finish(s)
  BY <1>1, <1>2, <1>3, FinishKeeping DEF Pending
<1>4. CASE Become(s, "completion", [Idle EXCEPT !.pc = "check", !.node = n,
                                      !.pack = PackOf(n), !.ver = znode[n].mzxid])
  <2> DEFINE x == [Idle EXCEPT !.pc = "check", !.node = n,
                               !.pack = PackOf(n), !.ver = znode[n].mzxid]
  <2>1. Turns(s, x)
    BY <1>4, BecomeTurns
  <2> HIDE DEF n
  <2>2. x.pc = "check" /\ x.node = n /\ x.pack = PackOf(n) /\ ~x.creating
    BY DEF Idle
  <2> HIDE DEF x
  <2>3. Faithful(OwnNodes(s), store[s], nodeMzxid[s], x)
    BY <1>1, <2>2, FetchedFaithful DEF FaithfulNow
  <2> QED
    BY <1>2, <2>1, <2>3, FaithfulLater DEF Keeps, Turns
<1> QED
  BY <1>3, <1>4 DEF Get

LEMMA CheckKeeping ==
  ASSUME Inv, NEW s \in Server, FaithfulNow(s), OwnNodes(s)' = OwnNodes(s), Check(s)
  PROVE  FaithfulNow(s)'
<1> DEFINE r == th[s]["completion"]
<1>1. r.pc = "check" /\ r.node \in Node
  BY ThOK DEF Check, At, HandOK, Without
<1>2. UNCHANGED znode /\ store'[s] = store[s]
  BY DEF Check, zkVars, uaVars
<1>3. CASE Finish(s) /\ UNCHANGED nodeMzxid
  BY <1>1, <1>2, <1>3, FinishKeeping DEF Pending, Keeps
<1>4. CASE /\ nodeMzxid' = [nodeMzxid EXCEPT ![s][r.node] = r.ver]
           /\ Goto(s, "completion", "decode")
  <2>1. \A n \in Node : nodeMzxid'[s][n] = IF n = r.node THEN r.ver ELSE nodeMzxid[s][n]
    BY <1>4 DEF Inv, TableOK
  <2>2. PICK x : /\ Turns(s, x) /\ x.pc = "decode" /\ x.node = r.node /\ x.pack = r.pack
                 /\ x.creating = r.creating
    <3>1. Goes(s, "decode", r.ver, r.again)
      BY <1>4, GotoGoes
    <3> QED
      BY <3>1, Zenon DEF Goes
  <2>3. ~x.creating
    BY <2>2 DEF FaithfulNow, Faithful
  <2>4. Faithful(OwnNodes(s), store[s], nodeMzxid'[s], x)
    BY <1>1, <2>1, <2>2, <2>3, RecordedFaithful DEF FaithfulNow
  <2> QED
    BY <1>2, <2>2, <2>4, FaithfulLater DEF Turns
<1> QED
  BY <1>3, <1>4 DEF Check

LEMMA DecodeKeeping ==
  ASSUME Inv, Common, NEW s \in Server, FaithfulNow(s), OwnNodes(s)' = OwnNodes(s), Decode(s)
  PROVE  FaithfulNow(s)'
<1> DEFINE r == th[s]["completion"]
           n == r.node
           b == r.pack.parented /\ Stored(s, Parent[n]) /\ Stored(s, n)
           a == r.pack.parented /\ Stored(s, Parent[n]) /\ ~Stored(s, n)
<1>1. r.pc = "decode" /\ n \in Node /\ r.pack \in Pack
  BY ThOK DEF Decode, At, HandOK, Without, ThreadState
<1>2. UNCHANGED znode /\ nodeMzxid'[s] = nodeMzxid[s]
  BY DEF Decode, zkVars
<1>3. CASE r.pack = Blank /\ Finish(s) /\ UNCHANGED uaVars
  <2>1. Settled(OwnNodes(s), store[s], nodeMzxid[s], n)
    BY <1>1, <1>3, BlankSettled DEF FaithfulNow
  <2> QED
    BY <1>1, <1>2, <1>3, <2>1, FinishKeeping DEF Keeps, uaVars
<1>4. CASE /\ AddLocally(s, n, r.pack)
           /\ th' = [th EXCEPT ![s]["completion"].pc = "addGet", ![s]["completion"].again = b]
  <2>1. b \in BOOLEAN /\ "addGet" \in PC
    BY <1>1 DEF Pack, Stored, PC
  <2>2. \A m \in Node : store'[s][m] = IF a /\ m = n THEN r.pack.val ELSE store[s][m]
    <3>1. CASE a
      <4>1. store' = [store EXCEPT ![s][n] = r.pack.val]
        BY <1>4, <3>1 DEF AddLocally
      <4> QED
        BY <3>1, <4>1 DEF Inv, UaOK
    <3>2. CASE ~a
      <4>1. store' = store
        BY <1>4, <3>2 DEF AddLocally, uaVars
      <4> QED
        BY <3>2, <4>1
    <3> QED
      BY <3>1, <3>2
  <2>3. th' = [th EXCEPT ![s]["completion"].pc = "addGet", ![s]["completion"].again = b]
    BY <1>4
  <2>4. PICK x : /\ Turns(s, x) /\ x.pc = "addGet" /\ x.again = b /\ x.node = n
                 /\ x.pack = r.pack /\ x.creating = r.creating
    <3> HIDE DEF b
    <3>1. Goes(s, "addGet", r.ver, b)
      BY <2>1, <2>3, AgainGoes, Zenon
    <3> QED
      BY <3>1, Zenon DEF Goes
  <2>5. ~x.creating /\ Named(r.pack)
    BY <2>4 DEF FaithfulNow, Faithful, Common, Thread
  <2>6. /\ Stored(s, Parent[n]) <=> Parent[n] = 0 \/ store[s][Parent[n]] # 0
        /\ a <=> r.pack.parented /\ Stored(s, Parent[n]) /\ store[s][n] = 0
        /\ b <=> r.pack.parented /\ Stored(s, Parent[n]) /\ store[s][n] # 0
    BY <1>1, AboveOK DEF Stored
  <2>7. r.pack.parented \in BOOLEAN
    BY <1>1 DEF Pack
  <2>8. Faithful(OwnNodes(s), store[s], nodeMzxid[s], r)
    BY DEF FaithfulNow
  <2>9. Parent[n] # n /\ Parent[n] \in Node \cup {0}
    BY <1>1, AboveOK
  <2> HIDE DEF a, b
  <2>10. x.again <=> b
    BY <2>4
  <2>11. Faithful(OwnNodes(s), store'[s], nodeMzxid[s], x)
    BY <1>1, <2>2, <2>4, <2>5, <2>6, <2>7, <2>8, <2>9, <2>10, DecodedFaithful
  <2> QED
    BY <1>2, <2>4, <2>11, FaithfulLater DEF Turns
<1> QED
  BY <1>3, <1>4 DEF Decode

LEMMA ReplaceKeeping ==
  ASSUME Inv, NEW s \in Server, FaithfulNow(s), OwnNodes(s)' = OwnNodes(s), Replace(s)
  PROVE  FaithfulNow(s)'
<1> DEFINE r == th[s]["completion"]
           n == r.node
<1>1. r.pc = "replace" /\ n \in Node
  BY ThOK DEF Replace, At, HandOK, Without
<1>2. UNCHANGED znode /\ nodeMzxid'[s] = nodeMzxid[s]
  BY DEF Replace, zkVars
<1>3. Parent[n] # n /\ Parent[n] \in Node \cup {0} /\ n # 0
  BY <1>1, AboveOK
<1>4. \A m \in Node : store'[s][m] = IF m = n THEN 0 ELSE store[s][m]
  <2>1. DeleteLocally(s, n, FALSE)
    BY DEF Replace
  <2>2. CASE Stored(s, n)
    <3>1. store' = [store EXCEPT ![s][n] = 0]
      BY <2>1, <2>2 DEF DeleteLocally
    <3> QED
      BY <3>1 DEF Inv, UaOK
  <2>3. CASE ~Stored(s, n)
    <3>1. store' = store
      BY <2>1, <2>3 DEF DeleteLocally, uaVars
    <3> QED
      BY <2>3, <3>1 DEF Stored
  <2> QED
    BY <2>2, <2>3
<1>5. PICK x : /\ Turns(s, x) /\ x.pc = "readd" /\ x.node = n /\ x.pack = r.pack
               /\ x.creating = r.creating
  BY GotoGoes DEF Replace, Goes
<1>6. ~x.creating
  BY <1>5 DEF FaithfulNow, Faithful
<1>7. Faithful(OwnNodes(s), store'[s], nodeMzxid[s], x)
  BY <1>1, <1>3, <1>4, <1>5, <1>6, ReplacedFaithful DEF FaithfulNow
<1> QED
  BY <1>2, <1>5, <1>7, FaithfulLater DEF Turns

LEMMA ReaddKeeping ==
  ASSUME Inv, Common, NEW s \in Server, FaithfulNow(s), OwnNodes(s)' = OwnNodes(s), Readd(s)
  PROVE  FaithfulNow(s)'
<1> DEFINE r == th[s]["completion"]
           n == r.node
<1>1. r.pc = "readd" /\ n \in Node
  BY ThOK DEF Readd, At, HandOK, Without
<1>2. UNCHANGED znode /\ nodeMzxid'[s] = nodeMzxid[s]
  BY DEF Readd, zkVars
<1>3. Parent[n] # n /\ Parent[n] \in Node \cup {0} /\ n # 0
  BY <1>1, AboveOK
<1>4. Faithful(OwnNodes(s), store[s], nodeMzxid[s], r)
  BY DEF FaithfulNow
<1>5. r.pack.parented /\ Stored(s, Parent[n]) /\ ~Stored(s, n)
  BY <1>1, <1>3, <1>4 DEF Faithful, HeldOK, Stored
<1>6. \A m \in Node : store'[s][m] = IF m = n THEN r.pack.val ELSE store[s][m]
  <2>1. AddLocally(s, n, r.pack)
    BY DEF Readd
  <2>2. store' = [store EXCEPT ![s][n] = r.pack.val]
    BY <1>5, <2>1 DEF AddLocally
  <2> QED
    BY <2>2 DEF Inv, UaOK
<1>7. PICK x : /\ Turns(s, x) /\ x.pc = "addGet" /\ x.again = FALSE /\ x.node = n
               /\ x.pack = r.pack /\ x.creating = r.creating
  <2>1. "addGet" \in PC /\ FALSE \in BOOLEAN
    BY DEF PC
  <2>2. th' = [th EXCEPT ![s]["completion"].pc = "addGet", ![s]["completion"].again = FALSE]
    BY DEF Readd
  <2>3. Goes(s, "addGet", r.ver, FALSE)
    BY <2>1, <2>2, AgainGoes, Zenon
  <2> QED
    BY <2>3, Zenon DEF Goes
<1>8. ~x.creating /\ ~x.again /\ Named(r.pack)
  BY <1>7 DEF FaithfulNow, Faithful, Common, Thread
<1>9. Faithful(OwnNodes(s), store'[s], nodeMzxid[s], x)
  BY <1>1, <1>3, <1>4, <1>6, <1>7, <1>8, ReaddedFaithful
<1> QED
  BY <1>2, <1>7, <1>9, FaithfulLater DEF Turns

\* A reader that has not created the nodeset goes no further than the comparison.
LEMMA PushKeeping ==
  ASSUME Inv, MaxLosses = 0, NEW s \in Server, Passive(s), FaithfulNow(s),
         OwnNodes(s)' = OwnNodes(s), NEW t \in Thread, PushStep(s, t)
  PROVE  FaithfulNow(s)'
<1> DEFINE r == th[s]["completion"]
           n == r.node
<1>1. t = "completion"
  BY DEF PushStep, AddGet, AddCheck, ReplicateNode, Set, Create, Stat, Record, At, Passive,
         Thread
<1>2. ~r.creating /\ CopyOK(s, r)
  BY DEF FaithfulNow, Faithful, Passive
<1>3. AddGet(s, t) \/ AddCheck(s, t)
  BY <1>1, <1>2 DEF PushStep, ReplicateNode, Set, Create, Stat, Record, At, CopyOK
<1>4. ~Lost
  BY NeverLost
<1>5. r.pc \in {"addGet", "addCheck"} /\ n \in Node
  BY <1>1, <1>3, ThOK DEF AddGet, AddCheck, At, HandOK, Without
<1>6. UNCHANGED znode /\ Keeps(s)
  <2>1. AddGet(s, t) => UNCHANGED znode /\ Keeps(s)
    BY DEF AddGet, Keeps, uaVars, Watch, zkVars
  <2>2. AddCheck(s, t) => UNCHANGED znode /\ Keeps(s)
    BY DEF AddCheck, Gone, Keeps, uaVars, zkVars
  <2> QED
    BY <1>3, <2>1, <2>2
<1>7. ASSUME NEW l \in {"addCheck", "replace"}, NEW v, Goes(s, l, v, r.again),
             l = "replace" => r.again
      PROVE  FaithfulNow(s)'
  <2>1. PICK x : /\ Turns(s, x) /\ x.pc = l /\ x.again = r.again /\ x.node = n
                 /\ x.pack = r.pack /\ x.creating = r.creating
    BY <1>7, Zenon DEF Goes
  <2>2. Faithful(OwnNodes(s), store[s], nodeMzxid[s], x)
    BY <1>2, <1>5, <1>7, <2>1, AddingFaithful DEF FaithfulNow
  <2> QED
    BY <1>6, <2>1, <2>2, FaithfulLater DEF Keeps, Turns
<1>8. CASE AddGet(s, t)
  <2>1. Exists(n) /\ znode[n].mzxid \in Nat
    BY <1>1, <1>2, <1>5, <1>8 DEF CopyOK, AddGet, At, Inv, ZkOK
  <2> DEFINE v == znode[n].mzxid
  <2>2. th' = [th EXCEPT ![s]["completion"].pc = "addCheck", ![s]["completion"].ver = v]
    BY <1>1, <1>4, <1>8, <2>1 DEF AddGet
  <2>3. "addCheck" \in PC /\ v \in Nat
    BY <2>1 DEF PC
  <2> HIDE DEF v
  <2>4. Goes(s, "addCheck", v, r.again)
    BY <2>2, <2>3, VersionGoes, Zenon
  <2> QED
    BY <1>7, <2>4
<1>9. CASE AddCheck(s, t)
  <2>1. r.pc = "addCheck" /\ nodeMzxid[s][n] <= r.ver
    BY <1>1, <1>2, <1>9 DEF CopyOK, AddCheck, At
  <2>2. Return(s, "completion")
    BY <1>1, <1>9, <2>1 DEF AddCheck
  <2>3. CASE r.again
    <3>1. Goto(s, "completion", "replace")
      BY <1>2, <2>2, <2>3 DEF Return
    <3>2. Goes(s, "replace", r.ver, r.again)
      BY <3>1, GotoGoes
    <3> QED
      BY <1>7, <2>3, <3>2
  <2>4. CASE ~r.again
    <3>1. Finish(s)
      BY <1>2, <2>2, <2>4 DEF Return
    <3>2. Settled(OwnNodes(s), store[s], nodeMzxid[s], n)
      BY <1>5, <2>1, <2>4, ReturnedSettled DEF FaithfulNow
    <3> QED
      BY <1>6, <2>1, <3>1, <3>2, FinishKeeping
  <2> QED
    BY <2>3, <2>4
<1> QED
  BY <1>3, <1>8, <1>9

LEMMA CopyKeeping ==
  ASSUME Inv, Common, Told, NEW s \in Server, FaithfulNow(s), OwnNodes(s)' = OwnNodes(s),
         addressSpaceExists[s] \/ Queued(s, "start") = {}, CopyStep(s)
  PROVE  FaithfulNow(s)'
<1>1. ~CreateNodeset(s)
  BY ThOK DEF CreateNodeset, At, CopierOK, FaithfulNow, Faithful
<1> QED
  BY <1>1, DeliverKeeping, GetKeeping, CheckKeeping, DecodeKeeping, ReplaceKeeping, ReaddKeeping
  DEF CopyStep

\* While others go on, what they publish is newer than all a reader has recorded.
LEMMA FaithfulStays ==
  ASSUME Inv, Grows, NEW q \in Server, Passive(q), FaithfulNow(q), Keeps(q),
         th'[q]["completion"] = th[q]["completion"], OwnNodes(q)' = OwnNodes(q)
  PROVE  FaithfulNow(q)'
<1>0. PICK own : own = OwnNodes(q)
  OBVIOUS
<1> DEFINE r == th[q]["completion"]
           u == store[q]
           t == nodeMzxid[q]
<1>1. Faithful(own, u, t, r) /\ CopyOK(q, r)
  BY <1>0 DEF FaithfulNow, Passive
<1>2. ASSUME NEW n \in Node, NEW v \in Nat, v <= znode[n].mzxid, v = znode'[n].mzxid
      PROVE  znode'[n] = znode[n]
  <2>1. znode[n].mzxid \in Nat
    BY DEF Inv, ZkOK
  <2> QED
    BY <1>2, <2>1 DEF Grows
<1>3. r.pc \in Pending \cup {"check"} => r.node \in Node /\ r.ver \in Nat
  BY ThOK DEF HandOK, ThreadState, Pending, Without
<1>4. \A n \in Node : t[n] \in Nat /\ t[n] <= znode[n].mzxid
  BY DEF Inv, TableOK, Passive
<1> HIDE DEF r, u, t
<1>5. HeldOK(u, t, r)'
  <2>1. HeldOK(u, t, r)
    BY <1>1 DEF Faithful
  <2>2. r.pc = "check" /\ r.ver = znode'[r.node].mzxid => znode'[r.node] = znode[r.node]
    BY <1>1, <1>2, <1>3 DEF CopyOK
  <2>3. r.pc \in Pending /\ t[r.node] = znode'[r.node].mzxid => znode'[r.node] = znode[r.node]
    BY <1>2, <1>3, <1>4
  <2> QED
    BY <2>1, <2>2, <2>3 DEF HeldOK, PackOf, r, u, t, Keeps
<1>6. Latest(own, u, t, r)'
  <2> SUFFICES ASSUME NEW n \in Node, ~(r.pc \in Pending /\ r.node = n)
               PROVE  Settled(own, u, t, n)'
    BY DEF Latest, r
  <2>1. Settled(own, u, t, n)
    BY <1>1 DEF Faithful, Latest
  <2>2. t[n] = znode'[n].mzxid => znode'[n] = znode[n]
    BY <1>2, <1>4
  <2> QED
    BY <2>1, <2>2 DEF Settled, u, t, Keeps
<1> QED
  BY <1>0, <1>1, <1>5, <1>6 DEF FaithfulNow, Faithful, Whole, r, u, t, Keeps

\* The completion thread leaves the main thread alone, or ends it.
LEMMA MainKept ==
  ASSUME Inv, NEW s \in Server, Passive(s),
         (\E t \in Thread : PushStep(s, t)) \/ CopyStep(s)
  PROVE  th'[s]["main"] = th[s]["main"] \/ th'[s]["main"].pc = "dead"
<1>1. CASE th'[s]["main"] = th[s]["main"]
  BY <1>1
<1>2. Finish(s) => th'[s]["main"] = th[s]["main"]
  BY FinishTurns DEF Turns
<1>3. ASSUME NEW l, Goto(s, "completion", l)
      PROVE  th'[s]["main"] = th[s]["main"]
  BY <1>3, GotoGoes DEF Goes, Turns
<1>4. ASSUME NEW x, Become(s, "completion", x)
      PROVE  th'[s]["main"] = th[s]["main"]
  BY <1>4, BecomeTurns DEF Turns
<1>5. ASSUME NEW l, NEW v,
             \/ th' = [th EXCEPT ![s]["completion"].pc = l, ![s]["completion"].ver = v]
             \/ th' = [th EXCEPT ![s]["completion"].pc = l, ![s]["completion"].again = v]
      PROVE  th'[s]["main"] = th[s]["main"]
  BY <1>5, ThOK
<1>6. CASE CopyStep(s)
  <2>1. ASSUME Deliver(s) PROVE th'[s]["main"] = th[s]["main"]
    <3> DEFINE e == Head(queue[s])
    <3>1. DeliverDeleted(s, e) \/ DeliverChild(s, e) => UNCHANGED th
      BY DEF DeliverDeleted, DeliverChild
    <3>2. DeliverChanged(s, e) => \E x : Become(s, "completion", x)
      BY Zenon DEF DeliverChanged
    <3>3. DeliverList(s, e) \/ DeliverStart(s, e) => UNCHANGED th \/ \E x : Become(s, "completion", x)
      BY Zenon DEF DeliverList, DeliverStart
    <3> QED
      BY <1>4, <2>1, <3>1, <3>2, <3>3 DEF Deliver
  <2>2. CreateNodeset(s) => \E x : Become(s, "completion", x)
    BY Zenon DEF CreateNodeset, AddFromNodeset
  <2>3. Get(s) => Finish(s) \/ \E x : Become(s, "completion", x)
    BY Zenon DEF Get
  <2>4. Check(s) \/ Replace(s) => Finish(s) \/ \E l : Goto(s, "completion", l)
    BY Zenon DEF Check, Replace
  <2>5. Decode(s) \/ Readd(s) => th'[s]["main"] = th[s]["main"]
    BY <1>2, <1>5 DEF Decode, Readd
  <2> QED
    BY <1>1, <1>2, <1>3, <1>4, <1>6, <2>1, <2>2, <2>3, <2>4, <2>5 DEF CopyStep
<1>7. ASSUME NEW t \in Thread, PushStep(s, t)
      PROVE  th'[s]["main"] = th[s]["main"] \/ th'[s]["main"].pc = "dead"
  <2>1. t = "completion"
    BY <1>7 DEF PushStep, AddGet, AddCheck, ReplicateNode, Set, Create, Stat, Record, At, Passive,
           Thread
  <2>2. th[s]["completion"].pc \notin Without
    BY <1>7, <2>1 DEF PushStep, AddGet, AddCheck, ReplicateNode, Set, Create, Stat, Record, At,
           Without
  <2>3. Return(s, "completion") => th'[s]["main"] = th[s]["main"]
    <3>1. ASSUME Return(s, "completion")
          PROVE  \E x : th' = [th EXCEPT ![s]["completion"] = x]
      BY <2>2, <3>1, ReturnOK DEF Turn, Inv, Thread
    <3> QED
      BY <1>4, <3>1 DEF Become
  <2>4. Gone(s) => th'[s]["main"].pc = "dead"
    BY ThOK DEF Gone, Dead, Idle
  <2>5. AddGet(s, t) \/ Set(s, t) \/ Create(s, t) \/ ReplicateNode(s, t) \/ Record(s, t)
          => th'[s]["main"] = th[s]["main"]
    <3>1. AddGet(s, t) => th'[s]["main"] = th[s]["main"]
      BY <1>3, <1>5, <2>1, <2>3 DEF AddGet
    <3>2. ReplicateNode(s, t) => th'[s]["main"] = th[s]["main"]
      BY <1>3, <1>5, <2>1, <2>3 DEF ReplicateNode
    <3>3. Set(s, t) => th'[s]["main"] = th[s]["main"]
      BY <1>3, <1>5, <2>1 DEF Set
    <3>4. Create(s, t) \/ Record(s, t) => th'[s]["main"] = th[s]["main"]
      BY <1>3, <2>1, <2>3 DEF Create, Record
    <3> QED
      BY <3>1, <3>2, <3>3, <3>4
  <2>6. Stat(s, t) => th'[s]["main"] = th[s]["main"]
    BY <1>5, <2>1 DEF Stat
  <2>7. AddCheck(s, t) => th'[s]["main"] = th[s]["main"] \/ Gone(s)
    BY <1>3, <2>1, <2>3 DEF AddCheck
  <2> QED
    BY <1>1, <1>7, <2>4, <2>5, <2>6, <2>7 DEF PushStep
<1> QED
  BY <1>6, <1>7

\* Whether znodes were found is known to each server alone.
FlagKept(s) == \A q \in Server \ {s} : addressSpaceExists'[q] = addressSpaceExists[q]

LEMMA FlagsKept ==
  ASSUME Inv, NEW s \in Server,
         \/ RequestStep(s) \/ MainStep(s) \/ (\E t \in Thread : PushStep(s, t))
         \/ CopyStep(s) \/ Restart(s)
  PROVE  /\ FlagKept(s)
         /\ ~Start(s) /\ ~Restart(s) => UNCHANGED addressSpaceExists
<1>1. CASE Start(s) \/ Restart(s)
  BY <1>1 DEF Start, Restart, Inv, FlagsOK, FlagKept
<1>2. CASE ~Start(s) /\ ~Restart(s)
  <2>1. MainStep(s) => UNCHANGED addressSpaceExists
    BY <1>2 DEF MainStep, NewServer, ZkDelete, DeleteLocal, ReadBack, flags
  <2>2. RequestStep(s) => UNCHANGED addressSpaceExists
    BY DEF RequestStep, Write, AddNode, DeleteNode, Request, flags
  <2>3. (\E t \in Thread : PushStep(s, t)) => UNCHANGED addressSpaceExists
    BY DEF PushStep, AddGet, AddCheck, ReplicateNode, Set, Create, Stat, Record, flags
  <2>4. Deliver(s) => UNCHANGED addressSpaceExists
    BY DEF Deliver, DeliverDeleted, DeliverChanged, DeliverChild, DeliverList, DeliverStart, flags
  <2>5. CopyStep(s) => UNCHANGED addressSpaceExists
    BY <2>4 DEF CopyStep, CreateNodeset, Get, Check, Decode, Replace, Readd, flags
  <2>6. UNCHANGED addressSpaceExists
    BY <1>2, <2>1, <2>2, <2>3, <2>5
  <2> QED
    BY <2>6 DEF FlagKept
<1> QED
  BY <1>1, <1>2

\* A server that starts waits with an empty queue.
LEMMA StartingWaits ==
  ASSUME Inv, NEW s \in Server, StartOK(s), th[s]["completion"].pc = "idle",
         th[s]["main"].pc = "start"
  PROVE  ~CopyStep(s) /\ \A t \in Thread : ~PushStep(s, t)
<1>1. queue[s] = <<>>
  BY DEF StartOK
<1>2. \A t \in Thread : th[s][t].pc \in {"start", "idle"}
  BY DEF Thread
<1>3. ~CopyStep(s)
  BY <1>1 DEF CopyStep, Deliver, CreateNodeset, Get, Check, Decode, Replace, Readd, At
<1>4. \A t \in Thread : ~PushStep(s, t)
  BY <1>2 DEF PushStep, AddGet, AddCheck, ReplicateNode, Set, Create, Stat, Record, At
<1> QED
  BY <1>3, <1>4

LEMMA BlankFaithful ==
  ASSUME NEW own, NEW u, NEW t, NEW r, r.pc = "idle", ~r.creating,
         \A n \in Node : u[n] = 0 /\ t[n] = 0
  PROVE  Faithful(own, u, t, r)
  BY DEF Faithful, Whole, HeldOK, Latest, Settled, Pending

\* The nodeset is begun with an empty store, and its last node is followed by the
\* list: what is stored by then is whole, and what is recorded the server's own.
LEMMA BuildingBegins ==
  ASSUME Inv, Told, NEW s \in Server, StartOK(s), Starts(s), Empty(s), ~addressSpaceExists[s],
         UNCHANGED addressSpaceExists, Deliver(s)
  PROVE  Building(s)'
<1> DEFINE e == Head(queue[s])
           x == [Idle EXCEPT !.pc = "nodeset", !.creating = TRUE]
<1>1. DeliverStart(s, e)
  BY StartDelivered
<1>2. nodeMzxid' = nodeMzxid
  BY DEF Deliver
<1> HIDE DEF e
<1>3. /\ Become(s, "completion", x) /\ todo' = [todo EXCEPT ![s] = Nodeset] /\ UNCHANGED uaVars
  BY <1>1 DEF DeliverStart
<1>4. x.pc = "nodeset" /\ x.creating
  BY DEF Idle
<1> HIDE DEF x
<1>5. th'[s]["completion"] = x /\ todo'[s] = Nodeset
  BY <1>3, BecomeTurns DEF Turns, Inv, ThreadsOK
<1>6. \A n \in Node : store'[s][n] = 0 /\ nodeMzxid'[s][n] = 0
  BY <1>2, <1>3 DEF Empty, StartOK, uaVars
<1> QED
  BY <1>4, <1>5, <1>6 DEF Building, BuildPC

LEMMA BuildingEnds ==
  ASSUME NEW s \in Server, Building(s), NEW r, r.pc = "idle", ~r.creating
  PROVE  Faithful(OwnNodes(s), store[s], nodeMzxid[s], r)
<1>1. Whole(store[s], r) /\ HeldOK(store[s], nodeMzxid[s], r)
  BY DEF Building, Whole, HeldOK, Pending
<1>2. Latest(OwnNodes(s), store[s], nodeMzxid[s], r)
  BY DEF Building, Built, OwnNodes, Latest, Settled
<1> QED
  BY <1>1, <1>2 DEF Faithful

LEMMA NodesetBuilds ==
  ASSUME Inv, MaxLosses = 0, NEW s \in Server, Building(s), UNCHANGED addressSpaceExists,
         CreateNodeset(s)
  PROVE  FaithfulNow(s)' \/ Building(s)'
<1> DEFINE n == NextNode(todo[s])
           item == [val |-> 1, parented |-> TRUE]
           y == [Idle EXCEPT !.pc = "addGet", !.node = n, !.pack = item, !.creating = TRUE]
<1>1. nodeMzxid' = nodeMzxid
  BY DEF CreateNodeset
<1>2. CASE todo[s] = {}
  <2>1. Become(s, "completion", Idle) /\ UNCHANGED uaVars /\ UNCHANGED znode
    BY <1>2 DEF CreateNodeset, ListChildren, zkVars
  <2>2. th'[s]["completion"] = Idle /\ Idle.pc = "idle" /\ ~Idle.creating
    BY <2>1, BecomeTurns DEF Turns, Idle
  <2>3. Faithful(OwnNodes(s), store[s], nodeMzxid[s], Idle)
    BY <2>2, BuildingEnds
  <2>4. OwnNodes(s)' = OwnNodes(s) /\ store'[s] = store[s]
    BY <2>1 DEF OwnNodes, uaVars
  <2> QED
    BY <1>1, <2>1, <2>2, <2>3, <2>4, FaithfulLater
<1>3. CASE todo[s] # {}
  <2>1. AddFromNodeset(s)
    BY <1>3 DEF CreateNodeset
  <2>2. n \in todo[s] /\ todo[s] \subseteq Node
    BY <1>3, ThOK, NextNodeIn DEF Inv, ThreadsOK
  <2>3. y.pc = "addGet" /\ y.node = n /\ y.creating
    BY DEF Idle
  <2>4. /\ Become(s, "completion", y) /\ todo' = [todo EXCEPT ![s] = @ \ {n}]
        /\ AddLocally(s, n, item)
    BY <2>1 DEF AddFromNodeset
  <2> HIDE DEF y
  <2>5. th'[s]["completion"] = y /\ todo'[s] = todo[s] \ {n}
    BY <2>4, BecomeTurns DEF Turns, Inv, ThreadsOK
  <2> HIDE DEF n
  <2>6. Parent[n] \in Node \cup {0} /\ Parent[n] # n /\ n # 0
    BY <2>2, AboveOK
  <2>7. \A m \in Node : store'[s][m] = IF m = n /\ Stored(s, Parent[n]) /\ ~Stored(s, n)
                                        THEN 1 ELSE store[s][m]
    BY <2>2, <2>4 DEF AddLocally, uaVars, Inv, UaOK
  <2>8. \A m \in Node : store[s][m] \in {0, 1}
                        /\ (store[s][m] = 0 \/ Parent[m] = 0 \/ store[s][Parent[m]] # 0)
    BY DEF Building
  <2>9. \A m \in Node : Parent[m] \in Node \cup {0}
    BY ConstantsOK DEF ConstantsOK
  <2>10. \A m \in Node : store'[s][m] \in {0, 1}
                        /\ (store'[s][m] = 0 \/ Parent[m] = 0 \/ store'[s][Parent[m]] # 0)
    BY <2>2, <2>6, <2>7, <2>8, <2>9 DEF Stored
  <2>11. Parent[n] = 0 => store'[s][n] = 1
    BY <2>2, <2>6, <2>7, <2>8 DEF Stored
  <2>12. \A m \in Node : nodeMzxid[s][m] # 0 => m \in Nodeset /\ (Parent[m] = 0 => store'[s][m] = 1)
    BY <2>7, <2>8 DEF Building, Built
  <2>13. ~addressSpaceExists'[s] /\ n \in Nodeset /\ todo[s] \subseteq Nodeset
    BY <2>2 DEF Building
  <2> QED
    BY <1>1, <2>3, <2>5, <2>10, <2>11, <2>12, <2>13 DEF Building, BuildPC, Built
<1> QED
  BY <1>2, <1>3

\* Pushing a node of the nodeset ends with its version recorded, or another's.
LEMMA PushBuilds ==
  ASSUME Inv, MaxLosses = 0, NEW s \in Server, Passive(s), Building(s),
         UNCHANGED addressSpaceExists, NEW t \in Thread, PushStep(s, t)
  PROVE  Building(s)'
<1> DEFINE r == th[s]["completion"]
           n == r.node
<1>1. t = "completion"
  BY DEF PushStep, AddGet, AddCheck, ReplicateNode, Set, Create, Stat, Record, At, Passive,
         Thread
<1>2. r.creating /\ CopyOK(s, r) /\ ~r.again /\ r.again \in BOOLEAN /\ r.ver \in Nat
  BY ThOK DEF Building, Passive, CopierOK, ThreadState
<1>3. ~Lost
  BY NeverLost
<1>4. n \in Node /\ r.pc \in {"addGet", "addCheck", "exists", "set", "create", "stat", "record"}
  <2>1. r.pc \in {"addGet", "addCheck", "exists", "set", "create", "stat", "record"}
    BY <1>1 DEF PushStep, AddGet, AddCheck, ReplicateNode, Set, Create, Stat, Record, At
  <2> QED
    BY <2>1, ThOK DEF HandOK, Without
<1>5. znode[n].mzxid \in Nat /\ zxid \in Nat
  BY <1>4 DEF Inv, ZkOK
<1>6. store' = store
  BY DEF PushStep, AddGet, AddCheck, ReplicateNode, Set, Create, Stat, Record, uaVars
<1>7. ASSUME NEW l \in BuildPC, NEW v, Goes(s, l, v, r.again), UNCHANGED <<todo, nodeMzxid>>
      PROVE  Building(s)'
  <2>1. PICK x : Turns(s, x) /\ x.pc = l /\ x.node = n /\ x.creating = r.creating
    BY <1>7, Zenon DEF Goes
  <2>2. Built(store[s], n) /\ th'[s]["completion"] = x /\ store'[s] = store[s] /\ todo'[s] = todo[s]
        /\ nodeMzxid'[s] = nodeMzxid[s] /\ ~addressSpaceExists'[s]
    BY <1>4, <1>6, <1>7, <2>1 DEF Building, Turns
  <2> QED
    BY <1>2, <1>7, <2>1, <2>2 DEF Building
<1>8. ASSUME NEW l \in BuildPC \cap PC, NEW v \in Nat, UNCHANGED <<todo, nodeMzxid>>,
             \/ Goto(s, "completion", l)
             \/ th' = [th EXCEPT ![s]["completion"].pc = l, ![s]["completion"].ver = v]
      PROVE  Building(s)'
  <2>1. Goto(s, "completion", l) => Goes(s, l, r.ver, r.again)
    BY GotoGoes
  <2>2. th' = [th EXCEPT ![s]["completion"].pc = l, ![s]["completion"].ver = v]
          => Goes(s, l, v, r.again)
    BY <1>8, VersionGoes
  <2> QED
    BY <1>7, <1>8, <2>1, <2>2
<1>9. ASSUME Return(s, "completion")
      PROVE  Goto(s, "completion", "nodeset") /\ UNCHANGED todo
  BY <1>2, <1>9 DEF Return
<1>10. /\ {"addCheck", "exists", "set", "create", "stat", "record", "nodeset"} \subseteq BuildPC \cap PC
  BY DEF BuildPC, PC
<1>11. CASE AddGet(s, t)
  BY <1>1, <1>3, <1>5, <1>8, <1>10, <1>11 DEF AddGet
<1>12. CASE AddCheck(s, t)
  <2>1. nodeMzxid[s][n] <= r.ver
    BY <1>1, <1>2, <1>12 DEF CopyOK, AddCheck, At
  <2>2. Return(s, "completion") /\ UNCHANGED nodeMzxid
    BY <1>1, <1>12, <2>1 DEF AddCheck
  <2> QED
    BY <1>2, <1>8, <1>9, <1>10, <2>2
<1>13. CASE ReplicateNode(s, t)
  BY <1>1, <1>3, <1>5, <1>8, <1>10, <1>13 DEF ReplicateNode
<1>14. CASE Set(s, t)
  <2>1. UNCHANGED <<todo, nodeMzxid>> /\ (zxid' = zxid + 1 \/ zxid' = zxid)
    BY <1>3, <1>14 DEF Set, SetZnode, Commit, zkVars
  <2>2. \/ Goto(s, "completion", "record")
        \/ th' = [th EXCEPT ![s]["completion"].pc = "record", ![s]["completion"].ver = zxid']
    BY <1>1, <1>3, <1>14 DEF Set
  <2>3. zxid' \in Nat
    BY <1>5, <2>1
  <2> QED
    BY <1>8, <1>10, <2>1, <2>2, <2>3
<1>15. CASE Create(s, t)
  BY <1>1, <1>2, <1>8, <1>10, <1>15 DEF Create
<1>16. CASE Stat(s, t)
  <2>1. Exists(n)
    BY <1>1, <1>2, <1>16 DEF CopyOK, Stat, At
  <2> QED
    BY <1>1, <1>3, <1>5, <1>8, <1>10, <1>16, <2>1 DEF Stat
<1>17. CASE Record(s, t)
  <2>1. Goto(s, "completion", "nodeset") /\ UNCHANGED todo
    BY <1>1, <1>9, <1>17 DEF Record
  <2>2. PICK x : Turns(s, x) /\ x.pc = "nodeset" /\ x.creating = r.creating
    <3>1. Goes(s, "nodeset", r.ver, r.again)
      BY <2>1, GotoGoes
    <3> QED
      BY <3>1, Zenon DEF Goes
  <2>3. \A m \in Node : nodeMzxid'[s][m] = IF m = n THEN r.ver ELSE nodeMzxid[s][m]
    BY <1>1, <1>17 DEF Record, Inv, TableOK
  <2>4. Built(store[s], n) /\ th'[s]["completion"] = x /\ store'[s] = store[s] /\ todo'[s] = todo[s]
        /\ ~addressSpaceExists'[s]
    BY <1>4, <1>6, <2>1, <2>2 DEF Building, Turns
  <2> QED
    BY <1>2, <2>2, <2>3, <2>4 DEF Building, BuildPC
<1> QED
  BY <1>11, <1>12, <1>13, <1>14, <1>15, <1>16, <1>17 DEF PushStep

\* Only NewServer queues a start.
LEMMA NoNewStart ==
  ASSUME Inv, MaxLosses = 0, NEW s \in Server, Passive(s), ~Starts(s),
         (\E t \in Thread : PushStep(s, t)) \/ CopyStep(s)
  PROVE  ~Starts(s)'
<1>1. th'[s]["main"] = th[s]["main"] \/ th'[s]["main"].pc = "dead"
  BY MainKept
<1>2. Parts(s)
  BY PushParts, CopyParts
<1> QED
  BY <1>1, <1>2, OwnStarts DEF Starts

\* The first thing a server that starts does with what it hears is to look at it.
LEMMA StartingDelivers ==
  ASSUME Inv, NEW s \in Server, Passive(s), StartOK(s), Starts(s),
         (\E t \in Thread : PushStep(s, t)) \/ CopyStep(s)
  PROVE  Deliver(s) /\ th[s]["completion"].pc = "idle"
<1>1. th[s]["completion"].pc \in {"idle", "dead"}
  BY DEF StartOK
<1>2. ASSUME NEW t \in Thread PROVE ~PushStep(s, t)
  BY <1>1, <1>2 DEF PushStep, AddGet, AddCheck, ReplicateNode, Set, Create, Stat, Record, At,
                    Passive, Thread
<1>3. CopyStep(s) => Deliver(s)
  BY <1>1 DEF CopyStep, CreateNodeset, Get, Check, Decode, Replace, Readd, At
<1>4. Deliver(s) => th[s]["completion"].pc = "idle"
  BY <1>1 DEF Deliver, At
<1> QED
  BY <1>2, <1>3, <1>4

LEMMA ReaderKeeps ==
  ASSUME MaxLosses = 0, Inv, Inv', Common, Told, Grows, NEW s \in Reader, Passive(s),
         StartOK(s), ReaderOK(s),
         \/ MainStep(s) \/ (\E t \in Thread : PushStep(s, t)) \/ CopyStep(s) \/ Restart(s)
  PROVE  ReaderOK(s)'
<1>1. s \in Server /\ ~Lost
  BY NeverLost DEF Reader
<1>2. ASSUME ~th'[s]["completion"].creating, th'[s]["completion"].pc = "idle", UNCHANGED znode,
             \A n \in Node : store'[s][n] = 0 /\ nodeMzxid'[s][n] = 0
      PROVE  ReaderOK(s)'
  <2>1. PICK own : own = OwnNodes(s)'
    OBVIOUS
  <2>2. Faithful(own, store'[s], nodeMzxid'[s], th'[s]["completion"])
    BY <1>2, BlankFaithful
  <2>3. FaithfulNow(s)'
    BY <1>2, <2>1, <2>2, FaithfulLater
  <2> QED
    BY <1>2, <2>3 DEF ReaderOK, Empty
<1>3. CASE Restart(s)
  <2>1. /\ th'[s]["completion"].pc = "idle" /\ ~th'[s]["completion"].creating
        /\ \A n \in Node : store'[s][n] = 0 /\ nodeMzxid'[s][n] = 0
        /\ UNCHANGED znode
    BY <1>1, <1>3, ThOK DEF Restart, Started, Idle, Inv, UaOK, TableOK
  <2> QED
    BY <1>2, <2>1
<1>4. CASE Start(s)
  <2>1. th'[s]["completion"] = th[s]["completion"]
    <3>1. Goto(s, "main", "new")
      BY <1>1, <1>4 DEF Start
    <3> QED
      BY <1>1, <3>1, ThOK DEF Goto, ThreadState
  <2>2. store'[s] = store[s] /\ UNCHANGED znode /\ UNCHANGED nodeMzxid
    BY <1>1, <1>4 DEF Start, uaVars, zkVars
  <2>3. th[s]["completion"].pc = "idle" /\ ~th[s]["completion"].creating
    BY <1>1, <1>4, ThOK DEF Start, At, ReaderOK, CopierOK
  <2>4. \A n \in Node : store[s][n] = 0 /\ nodeMzxid[s][n] = 0
    BY <1>4 DEF Start, At, StartOK, Starts, ReaderOK, Empty
  <2> QED
    BY <1>2, <2>1, <2>2, <2>3, <2>4
<1>5. CASE ~Restart(s) /\ ~Start(s)
  <2>1. UNCHANGED addressSpaceExists /\ OwnNodes(s)' = OwnNodes(s)
    BY <1>1, <1>5, FlagsKept DEF OwnNodes
  <2>2. CASE MainStep(s)
    <3>1. NewServer(s) /\ Goto(s, "main", "idle")
      BY <1>1, <1>5, <2>2 DEF MainStep, ZkDelete, DeleteLocal, ReadBack, At, Passive, NewServer
    <3>2. th'[s]["main"].pc = "idle" /\ th'[s]["completion"] = th[s]["completion"]
      BY <1>1, <3>1, ThOK DEF Goto, ThreadState
    <3>3. Keeps(s)
      BY <3>1 DEF NewServer, Keeps, uaVars
    <3>4. Starts(s) /\ FaithfulNow(s)
      BY <3>1 DEF NewServer, At, Starts, StartOK, ReaderOK, Building, BuildPC
    <3>5. FaithfulNow(s)'
      BY <1>1, <2>1, <3>2, <3>3, <3>4, FaithfulStays
    <3>6. Empty(s)'
      BY <3>3, <3>4 DEF ReaderOK, Empty, Keeps
    <3> QED
      BY <3>2, <3>5, <3>6 DEF ReaderOK
  <2>3. CASE (\E t \in Thread : PushStep(s, t)) \/ CopyStep(s)
    <3>1. th[s]["main"].pc # "start"
      BY <1>1, <2>3, StartingWaits DEF ReaderOK
    <3>2. th'[s]["main"].pc # "start"
      BY <1>1, <2>3, <3>1, MainKept
    <3>3. CASE Starts(s)
      <4>1. Deliver(s) /\ th[s]["completion"].pc = "idle" /\ FaithfulNow(s)
        BY <1>1, <2>3, <3>3, StartingDelivers DEF ReaderOK, Building, BuildPC
      <4>2. store'[s] = store[s]
        <5>1. DeliverStart(s, Head(queue[s]))
          BY <1>1, <3>3, <4>1, StartDelivered
        <5> QED
          BY <5>1 DEF DeliverStart, uaVars
      <4>3. Empty(s) /\ Empty(s)'
        BY <3>3, <4>2 DEF ReaderOK, Empty
      <4>4. FaithfulNow(s)' \/ Building(s)'
        <5>1. CASE addressSpaceExists[s]
          BY <1>1, <2>1, <4>1, <5>1, DeliverKeeping
        <5>2. CASE ~addressSpaceExists[s]
          BY <1>1, <2>1, <3>3, <4>1, <4>3, <5>2, BuildingBegins
        <5> QED
          BY <5>1, <5>2
      <4> QED
        BY <3>2, <4>3, <4>4 DEF ReaderOK
    <3>4. CASE ~Starts(s)
      <4>1. ~Starts(s)' /\ Queued(s, "start") = {}
        BY <1>1, <2>3, <3>4, NoNewStart DEF Starts
      <4>2. CASE FaithfulNow(s)
        BY <1>1, <2>1, <2>3, <3>2, <4>1, <4>2, PushKeeping, CopyKeeping DEF ReaderOK
      <4>3. CASE Building(s)
        <5>1. CopyStep(s) => CreateNodeset(s)
          BY <4>3 DEF CopyStep, Deliver, Get, Check, Decode, Replace, Readd, At, Building, BuildPC
        <5>2. FaithfulNow(s)' \/ Building(s)'
          BY <1>1, <2>1, <2>3, <4>3, <5>1, PushBuilds, NodesetBuilds
        <5> QED
          BY <3>2, <4>1, <5>2 DEF ReaderOK
      <4> QED
        BY <4>2, <4>3 DEF ReaderOK
    <3> QED
      BY <3>3, <3>4
  <2> QED
    BY <1>5, <2>2, <2>3
<1> QED
  BY <1>3, <1>4, <1>5

LEMMA FInvInit == Init => FInv
<1> SUFFICES ASSUME Init, NEW s \in Reader PROVE ReaderOK(s)
  BY DEF FInv
<1> PICK o \in Opening : Init!(o)
  BY DEF Init
<1>1. s \in Server
  BY DEF Reader
<1>2. /\ th[s]["completion"].pc = "idle" /\ ~th[s]["completion"].creating
      /\ \A n \in Node : store[s][n] = 0 /\ nodeMzxid[s][n] = 0
  BY <1>1 DEF Started, Idle, Thread
<1>3. Faithful(OwnNodes(s), store[s], nodeMzxid[s], th[s]["completion"])
  BY <1>2, BlankFaithful
<1> QED
  BY <1>2, <1>3 DEF ReaderOK, Empty, FaithfulNow

\* What a reader knows of its own is not disturbed by the others.
LEMMA OthersKeepReader ==
  ASSUME Inv, Grows, NEW q \in Server, Passive(q), ReaderOK(q), Keeps(q), th'[q] = th[q],
         todo'[q] = todo[q], addressSpaceExists'[q] = addressSpaceExists[q],
         Queued(q, "start")' = Queued(q, "start")
  PROVE  ReaderOK(q)'
<1>1. FaithfulNow(q) => FaithfulNow(q)'
  BY FaithfulStays DEF OwnNodes
<1>2. Building(q) => Building(q)'
  BY DEF Building, Keeps
<1>3. Starts(q)' => Starts(q)
  BY DEF Starts
<1>4. Empty(q) => Empty(q)'
  BY DEF Empty, Keeps
<1> QED
  BY <1>1, <1>2, <1>3, <1>4 DEF ReaderOK

LEMMA FInvNext ==
  ASSUME "delete" \notin Kind, MaxLosses = 0, Inv, Inv', CInv, RInv, FInv, Next
  PROVE  FInv'
<1>1. PICK s \in Server :
        \/ RequestStep(s) \/ MainStep(s) \/ (\E t \in Thread : PushStep(s, t))
        \/ CopyStep(s) \/ Restart(s)
  BY DEF Next
<1>2. OnlyBy(s)
  BY <1>1, RequestOnly, MainOnly, PushOnly, CopyOnly, RestartOnly DEF CInv
<1>3. Parts(s)
  BY <1>1, RequestParts, MainParts, PushParts, CopyParts, RestartParts DEF CInv
<1>4. FlagKept(s)
  BY <1>1, FlagsKept
<1>5. ASSUME NEW q \in Reader, q # s
      PROVE  ReaderOK(q)'
  <2>1. q \in Server \ {s}
    BY <1>5 DEF Reader
  <2>2. Elsewhere(s)
    BY <1>1, StepSoundly
  <2>3. /\ th'[q] = th[q] /\ Keeps(q) /\ addressSpaceExists'[q] = addressSpaceExists[q] /\ Grows
        /\ todo'[q] = todo[q] /\ Queued(q, "start")' = Queued(q, "start")
    BY <1>2, <1>3, <1>4, <2>1, <2>2
    DEF OnlyBy, Apart, Parts, Local, FlagKept, Keeps, Elsewhere, NewsKept
  <2>4. Passive(q) /\ ReaderOK(q)
    BY <1>5, <2>1 DEF CInv, FInv, ReaderOK, Reader
  <2> QED
    BY <2>1, <2>3, <2>4, OthersKeepReader
<1>6. ASSUME s \in Reader
      PROVE  ReaderOK(s)'
  <2>1. Passive(s) /\ Common /\ Told /\ StartOK(s) /\ ReaderOK(s) /\ Grows
    BY <1>2, <1>6 DEF CInv, RInv, FInv, ReaderOK, Reader, OnlyBy
  <2>2. ~RequestStep(s)
    <3>1. \A kind : ~Request(s, kind)
      BY <1>6 DEF Request, Reader
    <3>2. \A n \in Node : ~Write(s, n) /\ ~AddNode(s, n) /\ ~DeleteNode(s, n)
      BY <3>1, Zenon DEF Write, AddNode, DeleteNode
    <3> QED
      BY <3>2 DEF RequestStep
  <2> QED
    BY <1>1, <1>6, <2>1, <2>2, ReaderKeeps
<1>7. \A q \in Reader : ReaderOK(q)'
  BY <1>5, <1>6
<1> QED
  BY <1>7 DEF FInv, ReaderOK

LEMMA FInvStutters ==
  ASSUME FInv, UNCHANGED vars
  PROVE  FInv'
<1>1. UNCHANGED <<store, nodeMzxid, th, todo, queue, znode, addressSpaceExists>>
  BY DEF vars, zkVars, uaVars, flags
<1>2. ASSUME NEW s \in Reader, FaithfulNow(s) PROVE FaithfulNow(s)'
  <2>1. PICK own : own = OwnNodes(s)
    OBVIOUS
  <2>2. own = OwnNodes(s)'
    BY <1>1, <2>1 DEF OwnNodes
  <2> QED
    BY <1>1, <1>2, <2>1, <2>2, FaithfulLater DEF FaithfulNow
<1>3. \A s \in Reader : Building(s) => Building(s)'
  BY <1>1 DEF Building
<1> QED
  BY <1>1, <1>2, <1>3 DEF FInv, ReaderOK, Starts, Queued, Empty

\* If nobody deletes and ZooKeeper answers, what a server without writers stores is
\* never behind its table, through restarts, replacements and the writes of others: a
\* node whose recorded version is the one on ZooKeeper shows the value on ZooKeeper,
\* unless it is being added right now, or its pack names no parent, or one that was
\* not there when the node was to be added, or it is the value the server gave it in
\* its own nodeset, having found no znodes when it started.  The mzxid is recorded before anything is
\* decoded, so this rests on a node being replaced only where it has its parent.
THEOREM CopiesUpToDate ==
  ASSUME "delete" \notin Kind, MaxLosses = 0
  PROVE  Spec => []CopiesCurrent
<1>1. Init => CInv /\ RInv /\ FInv
  BY CInvInit, RInvInit, FInvInit
<1>2. IInv /\ IInv' /\ CInv /\ RInv /\ FInv /\ [Next]_vars => CInv' /\ RInv' /\ FInv'
  BY CInvNext, CInvStutters, RInvNext, RInvStutters, FInvNext, FInvStutters DEF IInv
<1>3. FInv => CopiesCurrent
  BY FInvCurrent
<1> QED
  BY <1>1, <1>2, <1>3, AlwaysIInv, PTL DEF Spec

-----------------------------------------------------------------------------
(* What a reader has recorded when it rests is the last version *)

\* s has yet to read n, or to ask for the list of what there is.
ToRead(s, n) ==
  \/ Queued(s, "child") # {}
  \/ \E e \in Queued(s, "list") \cup Queued(s, "changed") : n \in e.nodes
  \/ n \in todo[s] \/ Coming(s, n)

\* Its last version is about to be compared with the table.
InHand(s, n) == LET r == th[s]["completion"]
                IN r.pc = "check" /\ r.node = n /\ r.ver = znode[n].mzxid

\* Who still watches a node and has nothing to read of it has its last version.
SeenOK(s, n) ==
  <<s, n>> \in dataWatch => ToRead(s, n) \/ nodeMzxid[s][n] = znode[n].mzxid \/ InHand(s, n)

SeesAll(s) == th[s]["completion"].pc # "dead" /\ \A n \in Node : SeenOK(s, n)

\* A server that has yet to ask for the list may have watched what it pushed and
\* recorded something else: the list will bring it to every node.
Watchful(s) == Alive(s) => th[s]["completion"].pc # "dead" /\ (YetToList(s) \/ SeesAll(s))

WInv == \A s \in Reader : Watchful(s)

\* What is to be read stays so if no event of it is taken off the queue.
LEMMA ToReadLater ==
  ASSUME NEW s \in Server, NEW n \in Node, ToRead(s, n), Carried(s),
         \A e \in Elements(queue[s]) : e \in Elements(queue'[s]),
         Coming(s, n) => Coming(s, n)'
  PROVE  ToRead(s, n)'
<1>1. \A kind : Queued(s, kind) \subseteq Queued(s, kind)'
  BY QueuedElements, QueuedElementsNext
<1> QED
  BY <1>1 DEF ToRead, Carried

LEMMA SameQueue ==
  ASSUME NEW s, queue'[s] = queue[s]
  PROVE  \A e \in Elements(queue[s]) : e \in Elements(queue'[s])
  OBVIOUS

\* A step of the completion thread between its reads.
LEMMA BetweenReads ==
  ASSUME NEW s \in Server, NEW n \in Node, SeenOK(s, n), UNCHANGED zkVars, Carried(s),
         th[s]["completion"].pc # "get",
         nodeMzxid[s][n] = znode[n].mzxid \/ InHand(s, n) => nodeMzxid'[s][n] = znode[n].mzxid
  PROVE  SeenOK(s, n)'
<1>1. UNCHANGED <<dataWatch, znode>> /\ queue'[s] = queue[s]
  BY DEF zkVars
<1>2. ~Coming(s, n)
  BY DEF Coming, At
<1>3. ToRead(s, n) => ToRead(s, n)'
  BY <1>1, <1>2, SameQueue, ToReadLater
<1> QED
  BY <1>1, <1>3 DEF SeenOK

LEMMA WatchedExist ==
  ASSUME Inv, NEW s \in Server, NEW n \in Node, <<s, n>> \in dataWatch
  PROVE  n \in Znodes
  BY DEF Inv, ZkOK, Znodes

LEMMA FinishCarries ==
  ASSUME Inv, NEW s \in Server, Finish(s)
  PROVE  Carried(s) /\ th'[s]["completion"].pc \in {"idle", "get"}
<1>1. PICK x : Turn(s, "completion", x) /\ Carried(s) /\ x.pc \in {"idle", "get"}
  BY FinishOK DEF Inv
<1> QED
  BY <1>1, ThOK DEF Turn

\* Who has just been given the list is to read every znode there is.
LEMMA ListedSees ==
  ASSUME Inv, NEW s \in Server, NEW q \in Seq(Events), ListChildren(s, q),
         th'[s]["completion"].pc # "dead"
  PROVE  SeesAll(s)'
<1> DEFINE f == Event("list", Znodes)
<1>1. f \in Events /\ f.kind = "list" /\ f.nodes = Znodes
  BY DEF Event, Events, Znodes
<1>2. f \in Elements(queue'[s])
  BY <1>1, ElementsAppend DEF ListChildren, Inv, ZkOK
<1> HIDE DEF f
<1>3. \A n \in Znodes : ToRead(s, n)'
  BY <1>1, <1>2, QueuedElementsNext DEF ToRead
<1>4. \A n \in Node : <<s, n>> \in dataWatch' => n \in Znodes
  BY WatchedExist DEF ListChildren
<1> QED
  BY <1>3, <1>4 DEF SeesAll, SeenOK

LEMMA DeliverSees ==
  ASSUME MaxLosses = 0, Inv, Told, NEW s \in Server, SeesAll(s), Queued(s, "start") = {},
         Deliver(s)
  PROVE  SeesAll(s)'
<1> DEFINE e == Head(queue[s])
           q == Tail(queue[s])
<1>1. /\ At(s, "completion", "idle") /\ queue[s] # <<>> /\ todo[s] = {}
      /\ \A n \in Node : ~Coming(s, n) /\ ~InHand(s, n)
      /\ nodeMzxid' = nodeMzxid
  BY ThOK DEF Deliver, At, CopierOK, Coming, InHand
<1>2. /\ queue[s] \in Seq(Events) /\ e \in Events /\ q \in Seq(Events)
      /\ Elements(queue[s]) = {e} \cup Elements(q)
  BY <1>1, ElementsTail DEF Inv, ZkOK
<1>3. DeliverChanged(s, e) \/ DeliverChild(s, e) \/ DeliverList(s, e)
  <2>1. e.kind \notin {"start", "deleted"}
    BY <1>2, QueuedElements DEF Told
  <2> QED
    BY <2>1 DEF Deliver, DeliverDeleted, DeliverStart
<1> HIDE DEF e
<1>4. ~Lost
  BY NeverLost
<1>5. CASE DeliverChild(s, e)
  <2>1. ListChildren(s, q) /\ UNCHANGED th
    BY <1>4, <1>5 DEF DeliverChild
  <2> HIDE DEF q
  <2> QED
    BY <1>1, <1>2, <2>1, ListedSees DEF At
<1>6. CASE DeliverChanged(s, e) \/ DeliverList(s, e)
  <2>1. /\ UNCHANGED <<znode, dataWatch>> /\ queue'[s] = q
        /\ e.kind \in {"changed", "list"} /\ e.nodes \in SUBSET Node
    BY <1>2, <1>6 DEF DeliverChanged, DeliverList, Inv, ZkOK, Events
  <2>2. /\ th'[s]["completion"].pc # "dead"
        /\ \A n \in e.nodes : n \in todo'[s] \/ Coming(s, n)'
    <3>1. CASE DeliverChanged(s, e)
      <4>1. OfOne(e)
        BY <1>2, <3>1, QueuedElements DEF DeliverChanged, Inv, ZkOK
      <4>2. PICK m \in e.nodes : Become(s, "completion", [Idle EXCEPT !.pc = "get", !.node = m])
        BY <3>1 DEF DeliverChanged
      <4> DEFINE x == [Idle EXCEPT !.pc = "get", !.node = m]
      <4>3. x.pc = "get" /\ x.node = m
        BY DEF Idle
      <4> HIDE DEF x
      <4>4. th'[s]["completion"] = x
        BY <4>2, ThOK DEF Become, x
      <4> QED
        BY <4>1, <4>3, <4>4 DEF OfOne, Coming, At
    <3>2. CASE DeliverList(s, e) /\ e.nodes = {}
      BY <1>1, <3>2 DEF DeliverList, At
    <3>3. CASE DeliverList(s, e) /\ e.nodes # {}
      <4> DEFINE m == NextNode(e.nodes)
                 x == [Idle EXCEPT !.pc = "get", !.node = m]
      <4>1. Become(s, "completion", x) /\ todo' = [todo EXCEPT ![s] = e.nodes \ {m}]
        BY <3>3 DEF DeliverList
      <4> HIDE DEF m
      <4>2. x.pc = "get" /\ x.node = m
        BY DEF Idle
      <4> HIDE DEF x
      <4>3. th'[s]["completion"] = x /\ todo'[s] = e.nodes \ {m}
        BY <4>1, ThOK DEF Become, Inv, ThreadsOK
      <4> QED
        BY <4>2, <4>3 DEF Coming, At
    <3> QED
      BY <1>6, <3>1, <3>2, <3>3
  <2>3. ASSUME NEW n \in Node, ToRead(s, n)
        PROVE  ToRead(s, n)'
    <3>1. PICK f \in Elements(queue[s]) :
            \/ f.kind = "child"
            \/ f.kind \in {"list", "changed"} /\ n \in f.nodes
      BY <1>1, <2>3, QueuedElements DEF ToRead
    <3>2. CASE f = e
      BY <2>1, <2>2, <3>1, <3>2 DEF ToRead
    <3>3. CASE f \in Elements(q)
      <4>1. f \in Elements(queue'[s])
        BY <2>1, <3>3
      <4> QED
        BY <3>1, <4>1, QueuedElementsNext DEF ToRead
    <3> QED
      BY <1>2, <3>2, <3>3
  <2> QED
    BY <1>1, <2>1, <2>2, <2>3 DEF SeesAll, SeenOK
<1> QED
  BY <1>3, <1>5, <1>6

LEMMA GetSees ==
  ASSUME MaxLosses = 0, Inv, NEW s \in Server, SeesAll(s), Get(s)
  PROVE  SeesAll(s)'
<1>0. PICK m : m = th[s]["completion"].node
  OBVIOUS
<1>1. /\ th[s]["completion"].pc = "get" /\ nodeMzxid' = nodeMzxid
      /\ \A n \in Node : (Coming(s, n) <=> n = m) /\ ~InHand(s, n)
  BY <1>0 DEF Get, At, Coming, InHand
<1>2. ~Lost
  BY NeverLost
<1>3. CASE Exists(m)
  <2> DEFINE x == [Idle EXCEPT !.pc = "check", !.node = m,
                               !.pack = PackOf(m), !.ver = znode[m].mzxid]
  <2>1. Watch(s, m) /\ Become(s, "completion", x) /\ UNCHANGED todo
    BY <1>0, <1>2, <1>3 DEF Get
  <2>2. x.pc = "check" /\ x.node = m /\ x.ver = znode[m].mzxid
    BY DEF Idle
  <2> HIDE DEF x
  <2>3. th'[s]["completion"] = x /\ UNCHANGED znode /\ queue' = queue
        /\ \A n \in Node : n # m => (<<s, n>> \in dataWatch' <=> <<s, n>> \in dataWatch)
    <3>1. th'[s]["completion"] = x
      BY <2>1, ThOK DEF Become
    <3>2. UNCHANGED znode /\ queue' = queue /\ dataWatch' = dataWatch \cup {<<s, m>>}
      BY <2>1 DEF Watch
    <3> QED
      BY <3>1, <3>2
  <2>4. InHand(s, m)'
    BY <2>2, <2>3 DEF InHand
  <2>5. ASSUME NEW n \in Node, n # m PROVE SeenOK(s, n)'
    <3>1. ToRead(s, n) => ToRead(s, n)'
      BY <1>1, <2>1, <2>3, <2>5, SameQueue, ToReadLater DEF Carried
    <3> QED
      BY <1>1, <2>3, <2>5, <3>1 DEF SeesAll, SeenOK
  <2>6. SeenOK(s, m)'
    BY <2>4 DEF SeenOK
  <2>7. th'[s]["completion"].pc # "dead"
    BY <2>2, <2>3
  <2> QED
    BY <2>5, <2>6, <2>7 DEF SeesAll
<1>4. CASE ~Exists(m)
  <2>1. Finish(s) /\ UNCHANGED zkVars
    BY <1>0, <1>2, <1>4 DEF Get
  <2>2. /\ Carried(s) /\ th'[s]["completion"].pc \in {"idle", "get"}
        /\ UNCHANGED <<znode, dataWatch>> /\ queue' = queue
    BY <2>1, FinishCarries DEF zkVars
  <2>3. \A n \in Node : <<s, n>> \in dataWatch => n # m
    BY <1>4, WatchedExist DEF Znodes
  <2>4. ASSUME NEW n \in Node, n # m, ToRead(s, n) PROVE ToRead(s, n)'
    BY <1>1, <2>2, <2>4, SameQueue, ToReadLater
  <2> QED
    BY <1>1, <2>2, <2>3, <2>4 DEF SeesAll, SeenOK
<1> QED
  BY <1>3, <1>4

LEMMA CheckSees ==
  ASSUME Inv, NEW s \in Server, Passive(s), SeesAll(s), Check(s)
  PROVE  SeesAll(s)'
<1> DEFINE r == th[s]["completion"]
<1>1. r.pc = "check" /\ r.node \in Node /\ r.ver \in Nat /\ r.ver <= znode[r.node].mzxid
  BY ThOK DEF Check, At, HandOK, Without, ThreadState, Passive, CopyOK
<1>2. \A n \in Node : /\ nodeMzxid[s][n] \in Nat /\ znode[n].mzxid \in Nat
                      /\ nodeMzxid[s][n] <= znode[n].mzxid
  BY DEF Inv, TableOK, ZkOK, Passive
<1>3. UNCHANGED zkVars /\ UNCHANGED znode
  BY DEF Check, zkVars
<1>4. CASE nodeMzxid[s][r.node] >= r.ver
  <2>1. Finish(s) /\ UNCHANGED nodeMzxid
    BY <1>4 DEF Check
  <2>2. Carried(s) /\ th'[s]["completion"].pc \in {"idle", "get"}
    BY <2>1, FinishCarries
  <2>3. \A n \in Node : nodeMzxid[s][n] = znode[n].mzxid \/ InHand(s, n)
                          => nodeMzxid'[s][n] = znode[n].mzxid
    BY <1>1, <1>2, <1>4, <2>1 DEF InHand
  <2> QED
    BY <1>1, <1>3, <2>2, <2>3, BetweenReads DEF SeesAll
<1>5. CASE ~(nodeMzxid[s][r.node] >= r.ver)
  <2>1. /\ nodeMzxid' = [nodeMzxid EXCEPT ![s][r.node] = r.ver]
        /\ Goto(s, "completion", "decode") /\ UNCHANGED todo
    BY <1>5 DEF Check
  <2>2. Carried(s) /\ th'[s]["completion"].pc = "decode"
    BY <2>1, ThOK DEF Carried, Goto, ThreadState
  <2>3. \A n \in Node : nodeMzxid'[s][n] = IF n = r.node THEN r.ver ELSE nodeMzxid[s][n]
    BY <2>1 DEF Inv, TableOK
  <2>4. \A n \in Node : nodeMzxid[s][n] = znode[n].mzxid \/ InHand(s, n)
                          => nodeMzxid'[s][n] = znode[n].mzxid
    BY <1>1, <1>2, <1>5, <2>3 DEF InHand
  <2> QED
    BY <1>1, <1>3, <2>2, <2>4, BetweenReads DEF SeesAll
<1> QED
  BY <1>4, <1>5

\* Neither a read nor a comparison.
LEMMA QuietSees ==
  ASSUME NEW s \in Server, SeesAll(s), UNCHANGED zkVars, nodeMzxid'[s] = nodeMzxid[s],
         Carried(s), th[s]["completion"].pc \notin {"get", "check"},
         th'[s]["completion"].pc # "dead"
  PROVE  SeesAll(s)'
<1>1. \A n \in Node : ~InHand(s, n)
  BY DEF InHand
<1> QED
  BY <1>1, BetweenReads DEF SeesAll

LEMMA FinishSees ==
  ASSUME Inv, NEW s \in Server, SeesAll(s), UNCHANGED zkVars, nodeMzxid'[s] = nodeMzxid[s],
         th[s]["completion"].pc \notin {"get", "check"}, Finish(s)
  PROVE  SeesAll(s)'
  BY FinishCarries, QuietSees

LEMMA GoesSees ==
  ASSUME NEW s \in Server, SeesAll(s), UNCHANGED zkVars, nodeMzxid'[s] = nodeMzxid[s],
         th[s]["completion"].pc \notin {"get", "check"}, UNCHANGED todo,
         NEW l \in PC \ {"dead"}, NEW v, NEW b, Goes(s, l, v, b)
  PROVE  SeesAll(s)'
<1>1. th'[s]["completion"].pc = l
  BY Zenon DEF Goes, Turns
<1> QED
  BY <1>1, QuietSees DEF Carried

LEMMA DecodeSees ==
  ASSUME Inv, NEW s \in Server, SeesAll(s), Decode(s)
  PROVE  SeesAll(s)'
<1> DEFINE r == th[s]["completion"]
           b == r.pack.parented /\ Stored(s, Parent[r.node]) /\ Stored(s, r.node)
<1>1. r.pc = "decode" /\ nodeMzxid'[s] = nodeMzxid[s] /\ UNCHANGED zkVars
  BY DEF Decode, At
<1>2. CASE Finish(s)
  BY <1>1, <1>2, FinishSees
<1>3. CASE /\ th' = [th EXCEPT ![s]["completion"].pc = "addGet", ![s]["completion"].again = b]
           /\ UNCHANGED todo
  <2>1. b \in BOOLEAN /\ "addGet" \in PC \ {"dead"}
    BY ThOK DEF ThreadState, Pack, Stored, PC
  <2> HIDE DEF b
  <2>2. Goes(s, "addGet", r.ver, b)
    BY <1>3, <2>1, AgainGoes, Zenon
  <2> QED
    BY <1>1, <1>3, <2>1, <2>2, GoesSees
<1> QED
  BY <1>2, <1>3 DEF Decode

LEMMA ReplaceSees ==
  ASSUME Inv, NEW s \in Server, SeesAll(s), Replace(s)
  PROVE  SeesAll(s)'
<1>1. /\ th[s]["completion"].pc = "replace" /\ nodeMzxid'[s] = nodeMzxid[s]
      /\ UNCHANGED zkVars /\ UNCHANGED todo /\ Goto(s, "completion", "readd")
  BY DEF Replace, At
<1>2. "readd" \in PC \ {"dead"}
  BY DEF PC
<1> QED
  BY <1>1, <1>2, GotoGoes, GoesSees

LEMMA ReaddSees ==
  ASSUME Inv, NEW s \in Server, SeesAll(s), Readd(s)
  PROVE  SeesAll(s)'
<1>1. /\ th[s]["completion"].pc = "readd" /\ nodeMzxid'[s] = nodeMzxid[s]
      /\ UNCHANGED zkVars /\ UNCHANGED todo
      /\ th' = [th EXCEPT ![s]["completion"].pc = "addGet", ![s]["completion"].again = FALSE]
  BY DEF Readd, At
<1>2. "addGet" \in PC \ {"dead"} /\ "addGet" \in PC /\ FALSE \in BOOLEAN
  BY DEF PC
<1>3. Goes(s, "addGet", th[s]["completion"].ver, FALSE)
  BY <1>1, <1>2, AgainGoes, Zenon
<1> QED
  BY <1>1, <1>2, <1>3, GoesSees

LEMMA CopySees ==
  ASSUME MaxLosses = 0, Inv, Told, NEW s \in Server, Passive(s), SeesAll(s),
         Queued(s, "start") = {}, ~th[s]["completion"].creating, CopyStep(s)
  PROVE  SeesAll(s)'
<1>1. ~CreateNodeset(s)
  BY ThOK DEF CreateNodeset, At, CopierOK
<1> QED
  BY <1>1, DeliverSees, GetSees, CheckSees, DecodeSees, ReplaceSees, ReaddSees DEF CopyStep

\* Before it replaces a node, or has added it, the interceptor reads it with a watch:
\* who did not watch it till then has it among what is yet to be read.
LEMMA AddGetSees ==
  ASSUME MaxLosses = 0, Inv, NEW s \in Server, Hears(s), Alive(s), ~YetToList(s), SeesAll(s),
         NEW n \in Node, Exists(n), th[s]["completion"].pc = "addGet",
         Watch(s, n), UNCHANGED <<todo, nodeMzxid>>, th'[s]["completion"].pc = "addCheck"
  PROVE  SeesAll(s)'
<1>1. UNCHANGED znode /\ queue' = queue /\ dataWatch' = dataWatch \cup {<<s, n>>}
  BY DEF Watch
<1>2. \A m \in Node : ~Coming(s, m) /\ ~InHand(s, m)
  BY DEF Coming, At, InHand
<1>3. \A m \in Node : ToRead(s, m) => ToRead(s, m)'
  BY <1>1, <1>2, SameQueue, ToReadLater DEF Carried
<1>4. <<s, n>> \in dataWatch \/ ToRead(s, n)
  <2>1. losses = MaxLosses
    BY DEF Inv, BoundsOK
  <2>2. n \in Znodes
    BY DEF Znodes
  <2> QED
    BY <2>1, <2>2 DEF Hears, Noticed, ToRead
<1> QED
  BY <1>1, <1>2, <1>3, <1>4 DEF SeesAll, SeenOK

LEMMA PushSees ==
  ASSUME MaxLosses = 0, Inv, NEW s \in Server, Passive(s), Hears(s), StartOK(s), SeesAll(s),
         ~th[s]["completion"].creating, NEW t \in Thread, PushStep(s, t), Alive(s)
  PROVE  SeesAll(s)'
<1> DEFINE r == th[s]["completion"]
           n == r.node
<1>1. t = "completion"
  BY DEF PushStep, AddGet, AddCheck, ReplicateNode, Set, Create, Stat, Record, At, Passive,
         Thread
<1>2. CopyOK(s, r)
  BY DEF Passive
<1>3. AddGet(s, t) \/ AddCheck(s, t)
  BY <1>1, <1>2 DEF PushStep, ReplicateNode, Set, Create, Stat, Record, At, CopyOK
<1>4. ~Lost
  BY NeverLost
<1>5. r.pc \in {"addGet", "addCheck"} /\ n \in Node
  BY <1>1, <1>3, ThOK DEF AddGet, AddCheck, At, HandOK, Without
<1>6. CASE AddGet(s, t)
  <2>1. Exists(n) /\ znode[n].mzxid \in Nat /\ r.pc = "addGet"
    BY <1>1, <1>2, <1>5, <1>6 DEF CopyOK, AddGet, At, Inv, ZkOK
  <2> DEFINE v == znode[n].mzxid
  <2>2. /\ th' = [th EXCEPT ![s]["completion"].pc = "addCheck", ![s]["completion"].ver = v]
        /\ Watch(s, n) /\ UNCHANGED <<todo, nodeMzxid>>
    BY <1>1, <1>4, <1>6, <2>1 DEF AddGet
  <2>3. "addCheck" \in PC /\ v \in Nat
    BY <2>1 DEF PC
  <2> HIDE DEF v
  <2>4. Goes(s, "addCheck", v, r.again)
    BY <2>2, <2>3, VersionGoes, Zenon
  <2>5. th'[s]["completion"].pc = "addCheck"
    BY <2>4, Zenon DEF Goes, Turns
  <2>6. ~YetToList(s)
    <3>1. ~Starts(s)
      BY <1>5 DEF StartOK
    <3> QED
      BY <3>1 DEF YetToList, Starts
  <2> HIDE DEF n
  <2> QED
    BY <1>5, <2>1, <2>2, <2>5, <2>6, AddGetSees
<1>7. CASE AddCheck(s, t)
  <2>1. r.pc = "addCheck" /\ nodeMzxid[s][n] <= r.ver
    BY <1>1, <1>2, <1>7 DEF CopyOK, AddCheck, At
  <2>2. Return(s, "completion") /\ UNCHANGED zkVars /\ nodeMzxid' = nodeMzxid
    BY <1>1, <1>7, <2>1 DEF AddCheck
  <2>3. CASE r.again
    <3>1. Goto(s, "completion", "replace") /\ UNCHANGED todo
      BY <2>2, <2>3 DEF Return
    <3>2. Goes(s, "replace", r.ver, r.again) /\ "replace" \in PC \ {"dead"}
      BY <3>1, GotoGoes DEF PC
    <3> QED
      BY <2>1, <2>2, <3>1, <3>2, GoesSees
  <2>4. CASE ~r.again
    <3>1. Finish(s)
      BY <2>2, <2>4 DEF Return
    <3> QED
      BY <2>1, <2>2, <3>1, FinishSees
  <2> QED
    BY <2>3, <2>4
<1> QED
  BY <1>3, <1>6, <1>7

\* The first thing a server that starts hears of tells it to list, or to create.
LEMMA StartingSees ==
  ASSUME MaxLosses = 0, Inv, NEW s \in Server, Starts(s), StartOK(s), Deliver(s)
  PROVE  th'[s]["completion"].pc # "dead" /\ (YetToList(s)' \/ SeesAll(s)')
<1>1. /\ DeliverStart(s, Head(queue[s])) /\ Tail(queue[s]) \in Seq(Events)
      /\ th[s]["completion"].pc = "idle" /\ ~Lost
  BY StartDelivered, NeverLost DEF Deliver, At
<1>2. CASE ListChildren(s, Tail(queue[s])) /\ UNCHANGED th
  BY <1>1, <1>2, ListedSees
<1>3. ASSUME Become(s, "completion", [Idle EXCEPT !.pc = "nodeset", !.creating = TRUE])
      PROVE  th'[s]["completion"].pc # "dead" /\ YetToList(s)'
  <2> DEFINE x == [Idle EXCEPT !.pc = "nodeset", !.creating = TRUE]
  <2>1. x.pc = "nodeset" /\ x.creating
    BY DEF Idle
  <2> HIDE DEF x
  <2>2. th'[s]["completion"] = x
    BY <1>3, BecomeTurns DEF Turns, x
  <2> QED
    BY <2>1, <2>2 DEF YetToList
<1> QED
  BY <1>1, <1>2, <1>3 DEF DeliverStart

\* A server that creates the nodeset goes on to, or asks for the list at its end.
LEMMA BuildingSees ==
  ASSUME MaxLosses = 0, Inv, NEW s \in Server, Passive(s), Building(s),
         UNCHANGED addressSpaceExists, (\E t \in Thread : PushStep(s, t)) \/ CopyStep(s)
  PROVE  th'[s]["completion"].pc # "dead" /\ (YetToList(s)' \/ SeesAll(s)')
<1>1. Building(s)' => th'[s]["completion"].pc # "dead" /\ YetToList(s)'
  BY DEF Building, BuildPC, YetToList
<1>2. CASE \E t \in Thread : PushStep(s, t)
  BY <1>1, <1>2, PushBuilds
<1>3. CASE CopyStep(s)
  <2>1. CreateNodeset(s)
    BY <1>3 DEF CopyStep, Deliver, Get, Check, Decode, Replace, Readd, At, Building, BuildPC
  <2>2. CASE todo[s] = {}
    <3>1. ListChildren(s, queue[s]) /\ Become(s, "completion", Idle)
      BY <2>1, <2>2, NeverLost DEF CreateNodeset
    <3>2. th'[s]["completion"].pc = "idle" /\ queue[s] \in Seq(Events)
      BY <3>1, BecomeTurns DEF Turns, Idle, Inv, ZkOK
    <3> QED
      BY <3>1, <3>2, ListedSees
  <2>3. CASE todo[s] # {}
    <3> DEFINE x == [Idle EXCEPT !.pc = "addGet", !.node = NextNode(todo[s]),
                                 !.pack = [val |-> 1, parented |-> TRUE], !.creating = TRUE]
    <3>1. x.pc = "addGet" /\ x.creating
      BY DEF Idle
    <3>2. Become(s, "completion", x)
      BY <2>1, <2>3 DEF CreateNodeset, AddFromNodeset
    <3> HIDE DEF x
    <3>3. th'[s]["completion"] = x
      BY <3>2, BecomeTurns DEF Turns
    <3> QED
      BY <3>1, <3>3 DEF YetToList
  <2> QED
    BY <2>2, <2>3
<1> QED
  BY <1>2, <1>3

LEMMA ReaderSees ==
  ASSUME MaxLosses = 0, Inv, Told, NEW s \in Reader, Passive(s), Hears(s), StartOK(s),
         ReaderOK(s), Watchful(s),
         \/ MainStep(s) \/ (\E t \in Thread : PushStep(s, t)) \/ CopyStep(s) \/ Restart(s)
  PROVE  Watchful(s)'
<1>1. s \in Server /\ ~Lost
  BY NeverLost DEF Reader
<1>2. CASE Restart(s)
  <2>1. th'[s]["completion"].pc = "idle" /\ th'[s]["main"].pc = "start"
    BY <1>1, <1>2, ThOK DEF Restart, Started, Idle
  <2> QED
    BY <2>1 DEF Watchful, YetToList
<1>3. CASE Start(s)
  <2>1. Goto(s, "main", "new")
    BY <1>1, <1>3 DEF Start
  <2>2. th'[s]["completion"] = th[s]["completion"] /\ th'[s]["main"].pc = "new"
    BY <1>1, <2>1, ThOK DEF Goto, ThreadState
  <2>3. th[s]["completion"].pc = "idle"
    BY <1>3 DEF Start, At, ReaderOK
  <2> QED
    BY <2>2, <2>3 DEF Watchful, YetToList
<1>4. CASE MainStep(s) /\ ~Start(s)
  <2>1. NewServer(s) /\ Goto(s, "main", "idle")
    BY <1>1, <1>4 DEF MainStep, ZkDelete, DeleteLocal, ReadBack, At, Passive, NewServer
  <2>2. th'[s]["completion"] = th[s]["completion"]
    BY <1>1, <2>1, ThOK DEF Goto
  <2>3. th[s]["completion"].pc # "dead"
    BY <2>1 DEF NewServer, At, Watchful, Alive
  <2> DEFINE e == Event("start", {})
  <2>4. e \in Events /\ e.kind = "start" /\ queue'[s] = Append(queue[s], e)
        /\ queue[s] \in Seq(Events)
    BY <1>1, <2>1 DEF NewServer, Event, Events, Inv, ZkOK
  <2> HIDE DEF e
  <2>5. e \in Elements(queue'[s])
    BY <2>4, ElementsAppend
  <2>6. Queued(s, "start")' # {}
    BY <2>4, <2>5, QueuedElementsNext
  <2> QED
    BY <2>2, <2>3, <2>6 DEF Watchful, YetToList
<1>5. CASE (\E t \in Thread : PushStep(s, t)) \/ CopyStep(s)
  <2> SUFFICES ASSUME Alive(s)'
               PROVE  th'[s]["completion"].pc # "dead" /\ (YetToList(s)' \/ SeesAll(s)')
    BY DEF Watchful
  <2>1. Alive(s)
    BY <1>1, <1>5, MainKept DEF Alive
  <2>2. YetToList(s) \/ SeesAll(s)
    BY <2>1 DEF Watchful
  <2>3. CASE Starts(s)
    BY <1>1, <1>5, <2>3, StartingDelivers, StartingSees
  <2>4. CASE ~Starts(s) /\ Building(s)
    <3>1. ~Start(s) /\ ~Restart(s) => UNCHANGED addressSpaceExists
      BY <1>1, <1>5, FlagsKept
    <3>2. CASE Start(s) \/ Restart(s)
      BY <1>2, <1>3, <2>1, <3>2 DEF Watchful
    <3> QED
      BY <1>1, <1>5, <2>4, <3>1, <3>2, BuildingSees
  <2>5. CASE ~Starts(s) /\ ~Building(s)
    <3>1. ~th[s]["completion"].creating /\ Queued(s, "start") = {}
      BY <2>5 DEF ReaderOK, FaithfulNow, Faithful, Starts
    <3>2. SeesAll(s)
      BY <2>2, <2>5, <3>1 DEF YetToList, Starts
    <3>3. SeesAll(s)'
      BY <1>1, <1>5, <2>1, <3>1, <3>2, PushSees, CopySees
    <3> QED
      BY <3>3 DEF SeesAll
  <2> QED
    BY <2>3, <2>4, <2>5
<1> QED
  BY <1>2, <1>3, <1>4, <1>5

\* A znode's new version takes the watches of all who had its last one off it.
LEMMA PublishedSees ==
  ASSUME Inv, Published, NEW q \in Server, SeesAll(q), th'[q] = th[q], todo'[q] = todo[q],
         nodeMzxid'[q] = nodeMzxid[q]
  PROVE  SeesAll(q)'
<1>1. PICK n \in Node, p \in Pack : CreateZnode(n, p) \/ SetZnode(n, p)
  BY DEF Published
<1>2. PICK kind \in {"created", "changed"} :
        /\ Notify(kind, n, kind # "changed")
        /\ kind = "created" => ~Exists(n)
        /\ Commit(n, Version(p, zxid + 1))
  <2>1. CreateZnode(n, p) =>
          /\ Notify("created", n, "created" # "changed")
          /\ ~Exists(n) /\ Commit(n, Version(p, zxid + 1))
    BY DEF CreateZnode
  <2>2. SetZnode(n, p) =>
          /\ Notify("changed", n, "changed" # "changed")
          /\ Commit(n, Version(p, zxid + 1))
    BY DEF SetZnode
  <2> QED
    BY <1>1, <2>1, <2>2
<1>3. \A e \in Elements(queue[q]) : e \in Elements(queue'[q])
  <2>1. ZkOK /\ kind \in {"created", "changed", "deleted"}
    BY DEF Inv
  <2>2. kind = "created" => \A s \in Server : <<s, n>> \notin dataWatch
    BY <1>2 DEF Inv, ZkOK
  <2> QED
    BY <1>2, <2>1, <2>2, NotifyElements
<1>4. ASSUME NEW m \in Node, <<q, m>> \in dataWatch'
      PROVE  <<q, m>> \in dataWatch /\ znode'[m] = znode[m]
  <2>1. <<q, m>> \in dataWatch /\ m # n
    BY <1>2, <1>4 DEF Notify
  <2>2. znode' = [znode EXCEPT ![n] = Version(p, zxid + 1)]
    BY <1>2 DEF Commit
  <2> QED
    BY <2>1, <2>2 DEF Inv, ZkOK
<1>5. \A m \in Node : ToRead(q, m) => ToRead(q, m)'
  BY <1>3, ToReadLater DEF Carried, Coming, At
<1>6. \A m \in Node : znode'[m] = znode[m] /\ InHand(q, m) => InHand(q, m)'
  BY DEF InHand
<1> QED
  BY <1>4, <1>5, <1>6 DEF SeesAll, SeenOK

LEMMA AskedSees ==
  ASSUME Inv, NEW s \in Server, Asked(s), NEW q \in Server \ {s}, SeesAll(q),
         th'[q] = th[q], todo'[q] = todo[q], nodeMzxid'[q] = nodeMzxid[q]
  PROVE  SeesAll(q)'
<1>1. /\ UNCHANGED znode /\ queue'[q] = queue[q]
      /\ \A n \in Node : <<q, n>> \in dataWatch' <=> <<q, n>> \in dataWatch
  BY DEF Asked
<1>2. \A n \in Node : ToRead(q, n) => ToRead(q, n)'
  BY <1>1, SameQueue, ToReadLater DEF Carried, Coming, At
<1>3. \A n \in Node : InHand(q, n) => InHand(q, n)'
  BY <1>1 DEF InHand
<1> QED
  BY <1>1, <1>2, <1>3 DEF SeesAll, SeenOK

LEMMA WInvInit == Init => WInv
<1> SUFFICES ASSUME Init, NEW s \in Reader PROVE Watchful(s)
  BY DEF WInv
<1>1. th[s]["completion"].pc = "idle" /\ dataWatch = {}
  BY DEF Init, Started, Idle, Thread, Reader
<1> QED
  BY <1>1 DEF Watchful, SeesAll, SeenOK

\* Whether it has yet to list a server alone decides.
LEMMA OthersSee ==
  ASSUME NEW q, Watchful(q), SeesAll(q) => SeesAll(q)', th'[q] = th[q],
         Queued(q, "start")' = Queued(q, "start")
  PROVE  Watchful(q)'
<1>1. YetToList(q) => YetToList(q)'
  BY DEF YetToList
<1> QED
  BY <1>1 DEF Watchful, Alive

LEMMA WInvNext ==
  ASSUME "delete" \notin Kind, MaxLosses = 0, IInv, CInv, RInv, FInv, WInv, Next
  PROVE  WInv'
<1>0. Inv
  BY DEF IInv
<1>1. PICK s \in Server :
        \/ RequestStep(s) \/ MainStep(s) \/ (\E t \in Thread : PushStep(s, t))
        \/ CopyStep(s) \/ Restart(s)
  BY DEF Next
<1>2. Apart(s)
  BY <1>0, <1>1, RequestOnly, MainOnly, PushOnly, CopyOnly, RestartOnly DEF CInv, OnlyBy
<1>3. Published \/ Asked(s)
  BY <1>0, <1>1, RequestParts, MainParts, PushParts, CopyParts, RestartParts DEF CInv, Parts
<1>4. Elsewhere(s)
  BY <1>0, <1>1, StepSoundly
<1>5. ASSUME NEW q \in Reader, q # s
      PROVE  Watchful(q)'
  <2>1. /\ q \in Server \ {s} /\ th'[q] = th[q] /\ todo'[q] = todo[q]
        /\ nodeMzxid'[q] = nodeMzxid[q] /\ Queued(q, "start")' = Queued(q, "start")
    BY <1>2, <1>4, <1>5 DEF Reader, Apart, Elsewhere, NewsKept
  <2>2. SeesAll(q) => SeesAll(q)'
    BY <1>0, <1>3, <2>1, PublishedSees, AskedSees
  <2> QED
    BY <1>5, <2>1, <2>2, OthersSee DEF WInv
<1>6. ASSUME s \in Reader
      PROVE  Watchful(s)'
  <2>1. /\ Passive(s) /\ Told /\ StartOK(s) /\ ReaderOK(s) /\ Watchful(s) /\ Hears(s)
    BY <1>6 DEF CInv, RInv, FInv, WInv, IInv, Reader, ReaderOK
  <2>2. ~RequestStep(s)
    <3>1. \A kind : ~Request(s, kind)
      BY <1>6 DEF Request, Reader
    <3>2. \A n \in Node : ~Write(s, n) /\ ~AddNode(s, n) /\ ~DeleteNode(s, n)
      BY <3>1, Zenon DEF Write, AddNode, DeleteNode
    <3> QED
      BY <3>2 DEF RequestStep
  <2> QED
    BY <1>0, <1>1, <1>6, <2>1, <2>2, ReaderSees
<1>7. \A q \in Reader : Watchful(q)'
  BY <1>5, <1>6
<1> QED
  BY <1>7 DEF WInv

LEMMA WInvStutters ==
  ASSUME WInv, UNCHANGED vars
  PROVE  WInv'
<1>1. UNCHANGED <<znode, dataWatch, queue, nodeMzxid, th, todo>>
  BY DEF vars, zkVars
<1>2. ASSUME NEW s \in Reader PROVE Watchful(s) => Watchful(s)'
  BY <1>1 DEF Watchful, Alive, YetToList, SeesAll, SeenOK, ToRead, InHand, Queued, Coming, At
<1> QED
  BY <1>2 DEF WInv

\* At rest nothing is left to be read, so every znode is watched and up to date.
LEMMA RestConverges ==
  ASSUME MaxLosses = 0, IInv, RInv, FInv, WInv
  PROVE  PassiveConverges
<1> SUFFICES ASSUME NEW s \in Server \ Writer, Alive(s), AtRest(s), NEW n \in Znodes
             PROVE  /\ nodeMzxid[s][n] = znode[n].mzxid
                    /\ znode[n].parented /\ (Parent[n] = 0 \/ Stored(s, n)) =>
                         store[s][n] = znode[n].val \/ KeepsItsOwn(s, n)
  BY DEF PassiveConverges
<1>1. s \in Reader /\ s \in Server /\ n \in Node /\ Inv
  BY DEF Reader, Znodes, IInv
<1>2. /\ th[s]["main"].pc = "idle" /\ th[s]["completion"].pc = "idle"
      /\ queue[s] = <<>> /\ todo[s] = {} /\ ~th[s]["completion"].creating
  BY <1>1, ThOK DEF AtRest, At, WInv, Watchful, Alive, CopierOK
<1>3. \A kind : Queued(s, kind) = {}
  BY <1>2, ElementsEmpty, QueuedElements
<1>4. ~YetToList(s) /\ SeesAll(s)
  BY <1>1, <1>2, <1>3 DEF YetToList, WInv, Watchful
<1>5. ~ToRead(s, n) /\ ~InHand(s, n)
  BY <1>2, <1>3 DEF ToRead, InHand, Coming, At
<1>6. <<s, n>> \in dataWatch
  <2>1. losses = MaxLosses /\ Hears(s)
    BY <1>1 DEF Inv, BoundsOK, IInv
  <2> QED
    BY <1>4, <1>5, <2>1 DEF Hears, Noticed, ToRead
<1>7. nodeMzxid[s][n] = znode[n].mzxid
  BY <1>1, <1>4, <1>5, <1>6 DEF SeesAll, SeenOK
<1>8. ~AtWork(s, n)
  BY <1>2 DEF AtWork
<1> QED
  BY <1>7, <1>8, FInvCurrent DEF CopiesCurrent

\* If nobody deletes and ZooKeeper answers, a server without writers has, whenever it
\* comes to rest, recorded the last version of every znode, however its one-shot
\* watches, its reads and the writes of others met, whether it found the address space
\* or created it, and however often it was started again; and it stores the value
\* ZooKeeper has of every znode whose pack names a parent, if that is the folder or it
\* has the node at all, or else the value of its own nodeset (a zoo_create that came
\* second).  Of the others nothing follows: a child met before its parent is never
\* tried again.
THEOREM PassiveCopiesConverge ==
  ASSUME "delete" \notin Kind, MaxLosses = 0
  PROVE  Spec => []PassiveConverges
<1>1. Init => CInv /\ RInv /\ FInv /\ WInv
  BY CInvInit, RInvInit, FInvInit, WInvInit
<1>2. IInv /\ IInv' /\ CInv /\ RInv /\ FInv /\ WInv /\ [Next]_vars =>
        CInv' /\ RInv' /\ FInv' /\ WInv'
  BY CInvNext, CInvStutters, RInvNext, RInvStutters, FInvNext, FInvStutters, WInvNext,
     WInvStutters DEF IInv
<1>3. IInv /\ RInv /\ FInv /\ WInv => PassiveConverges
  BY RestConverges
<1> QED
  BY <1>1, <1>2, <1>3, AlwaysIInv, PTL DEF Spec

=============================================================================
