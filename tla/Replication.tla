---------------------------- MODULE Replication ----------------------------
(***************************************************************************)
(* The replication of one OPC UA address space through ZooKeeper           *)
(* (src/zk_intercept.c, src/zk_serverReplicate.c, zkNodeToUa of            *)
(* src/zk_jsonDecode.c and the watcher of examples/cli_UA_server.c).       *)
(*                                                                         *)
(* Each UA server keeps the whole address space in memory and a table of   *)
(* the mzxid it last saw of every znode.  Its main thread serves clients,  *)
(* and the interceptors push what they change to ZooKeeper; its ZooKeeper  *)
(* completion thread copies what others changed.  Both threads work on the *)
(* same store, table and flag without a lock.  ZooKeeper itself is modelled*)
(* by its znodes, its one-shot data and child watches and each session's   *)
(* queue of watch events and results of asynchronous calls.                *)
(*                                                                         *)
(* Parent[n] is the parent of node n, 0 a folder every server always has.  *)
(* The values of nodes are the numbers of the operations that wrote them.  *)
(***************************************************************************)
EXTENDS Integers, FiniteSets, Sequences

CONSTANTS
  Server,       \* the UA servers
  Writer,       \* those of them whose clients and application write
  Parent,       \* the parent of each node, 0 for the top
  Nodeset,      \* the nodes that a server adds to an empty address space
  Kind,         \* the operations: "write", "update", "add", "delete"
  Opening,      \* how the group may begin: the nodes ZooKeeper has, the servers
                \* that start (the others have just asked for the list), and
                \* two bounds: the operations, and the kills and restarts, to come
  AvailabilityPriority, \* whether servers read while ZooKeeper is away
  MaxLosses,    \* bound: ZooKeeper calls whose reply is lost
  MaxZxid,      \* bound: writes to ZooKeeper
  Garbage       \* mzxids an uninitialised struct Stat may hold

Node == DOMAIN Parent

\* "assuming of course that a child will never have a smaller NodeId than a
\* parent" (zkUA_UA_Server_replicateZk_getNodes)
ASSUME ConstantsOK ==
  /\ Node \subseteq Nat \ {0}
  /\ \A n \in Node : Parent[n] \in Node \cup {0} /\ Parent[n] < n
  /\ \E m \in Node : \A n \in Node : n <= m
  /\ Writer \subseteq Server
  /\ Opening \subseteq [present : SUBSET Node, starting : SUBSET Server,
                   ops : Nat, restarts : Nat]
  /\ \A S \in {o.present : o \in Opening} \cup {Nodeset} :
       S \subseteq Node /\ \A n \in S : Parent[n] \in S \cup {0}
  /\ Kind \subseteq {"write", "update", "add", "delete"}
  /\ AvailabilityPriority \in BOOLEAN
  /\ {MaxLosses, MaxZxid} \subseteq Nat
  /\ Garbage \subseteq Nat

Thread == {"main", "completion"}

\* A JSON pack of a node: its value, and whether it names the node's parent.
\* Blank is the pack of a node that was not there to be read; Unread is what
\* becomes of a value if an attribute could not be read.
Unread == -1
Value  == Nat \cup {Unread}
Pack   == [val : Value, parented : BOOLEAN]
Blank  == [val |-> 0, parented |-> FALSE]

VARIABLES
  znode,      \* the pack and mzxid of each node's znode; mzxid 0: no znode
  ns0,        \* whether ZooKeeper has znodes of namespace 0
  zxid,       \* ZooKeeper's last transaction
  dataWatch,  \* <<server, node>> pairs with a data watch
  childWatch, \* servers with a child watch on the address space
  queue,      \* what each completion thread has yet to be handed
  store,      \* the value of each node in each server, 0 if it has none
  linked,     \* nodes that their parent (as stored) refers to
  nodeMzxid,  \* the hashtable of that name, 0 for no entry
  replicateNode, \* the global of that name
  addressSpaceExists, \* too: the server found znodes when it started
  th,         \* each thread's position and locals
  todo,       \* listed nodes a completion thread has yet to decode
  made,       \* the operations made so far
  ops, losses, restarts  \* what is left of the bounds

zkVars == <<znode, ns0, zxid, dataWatch, childWatch, queue>>
uaVars == <<store, linked>>
flags  == <<replicateNode, addressSpaceExists>>
requests == <<made, ops>>
bounds == <<requests, losses, restarts>>
vars   == <<zkVars, uaVars, nodeMzxid, flags, th, todo, bounds>>

-----------------------------------------------------------------------------
(* State formulae *)

\* A thread: the node at hand, its pack, the mzxid in its struct Stat, the
\* request it serves (0 when copying), whether the node met is to be replaced,
\* and whether it is one of the nodeset.
Idle == [pc |-> "idle", node |-> 0, pack |-> Blank, ver |-> 0, request |-> 0, again |-> FALSE,
         creating |-> FALSE]
Dead == [Idle EXCEPT !.pc = "dead"]

Exists(n)   == znode[n].mzxid # 0
Znodes      == {n \in Node : Exists(n)}
PackOf(n)   == [val |-> znode[n].val, parented |-> znode[n].parented]
Alive(s)    == th[s]["main"].pc # "dead"
At(s, t, l) == th[s][t].pc = l
AtRest(s)   == Alive(s) => /\ At(s, "main", "idle")
                           /\ \/ At(s, "completion", "idle") /\ queue[s] = <<>>
                              \/ At(s, "completion", "dead")

Children(n)  == {m \in Node : Parent[m] = n}
Stored(s, n) == n = 0 \/ store[s][n] # 0

\* The top of a node's branch first meets folder 0.
Branch[n \in Node] == {n} \cup (IF Parent[n] = 0 THEN {} ELSE Branch[Parent[n]])

\* What zkUA_findParent_recursiveBrowse reaches from the root by references.
Browsable(s, n) ==
  \A m \in Branch[n] : m \in linked[s] /\ (m # n => Stored(s, m))

Event(kind, nodes) == [kind |-> kind, nodes |-> nodes]

-----------------------------------------------------------------------------
(* The ZooKeeper ensemble *)

\* The one-shot watches on n, and those on the children if kids, turn into events.
Notify(kind, n, kids) ==
  /\ queue' = [s \in Server |->
       queue[s] \o (IF <<s, n>> \in dataWatch THEN <<Event(kind, {n})>> ELSE <<>>)
                \o (IF kids /\ s \in childWatch THEN <<Event("child", {})>> ELSE <<>>)]
  /\ dataWatch' = {w \in dataWatch : w[2] # n}
  /\ childWatch' = IF kids THEN {} ELSE childWatch

Commit(n, z) ==
  /\ zxid < MaxZxid
  /\ zxid' = zxid + 1
  /\ znode' = [znode EXCEPT ![n] = z]
  /\ UNCHANGED ns0

Version(p, v) == [val |-> p.val, parented |-> p.parented, mzxid |-> v]

CreateZnode(n, p) == ~Exists(n) /\ Commit(n, Version(p, zxid + 1)) /\ Notify("created", n, TRUE)
SetZnode(n, p)    == Exists(n) /\ Commit(n, Version(p, zxid + 1)) /\ Notify("changed", n, FALSE)
DeleteZnode(n)    == Exists(n) /\ Commit(n, Version(Blank, 0)) /\ Notify("deleted", n, TRUE)

\* A read with a watch sets it if the znode is there.
Watch(s, n) ==
  /\ dataWatch' = dataWatch \cup {<<s, n>>}
  /\ UNCHANGED <<znode, ns0, zxid, childWatch, queue>>

\* zoo_aget_children: the result is queued, in order with the events.
ListChildren(s, q) ==
  /\ queue' = [queue EXCEPT ![s] = Append(q, Event("list", Znodes))]
  /\ childWatch' = childWatch \cup {s}
  /\ UNCHANGED <<znode, ns0, zxid, dataWatch>>

Answered == UNCHANGED losses
Lost     == losses > 0 /\ losses' = losses - 1

-----------------------------------------------------------------------------
(* The local address space (open62541), as the interceptors drive it *)

\* The new node has no references yet, so its children are linked no more.
AddLocally(s, n, p) ==
  IF p.parented /\ Stored(s, Parent[n]) /\ ~Stored(s, n)
    THEN /\ store' = [store EXCEPT ![s][n] = p.val]
         /\ linked' = [linked EXCEPT ![s] = (@ \cup {n}) \ Children(n)]
    ELSE UNCHANGED uaVars

\* Deleting the references too takes the node off its parent's list.
DeleteLocally(s, n, references) ==
  IF Stored(s, n)
    THEN /\ store' = [store EXCEPT ![s][n] = 0]
         /\ linked' = [linked EXCEPT ![s] =
              @ \ (Children(n) \cup (IF references THEN {n} ELSE {}))]
    ELSE UNCHANGED uaVars

-----------------------------------------------------------------------------
(* Threads *)

Become(s, t, r) == th' = [th EXCEPT ![s][t] = r]
Goto(s, t, l)   == th' = [th EXCEPT ![s][t].pc = l]

\* Mutant: the list is not sorted, and comes in the worst order.
NextNodeUnsorted(S) == CHOOSE n \in S : \A m \in S : n >= m

\* The loop of zkUA_UA_Server_replicateZk_getNodes: ascending node ids.
NextNode(S) == CHOOSE n \in S : \A m \in S : n <= m

\* The completion thread has handled a node: on to the next listed one.
Finish(s) ==
  IF todo[s] = {} THEN Become(s, "completion", Idle) /\ UNCHANGED todo
  ELSE /\ Become(s, "completion", [Idle EXCEPT !.pc = "get", !.node = NextNode(todo[s])])
       /\ todo' = [todo EXCEPT ![s] = @ \ {NextNode(todo[s])}]

\* An intercepted call returns: a client's request is done; in zkNodeToUa, an
\* add that met the node is followed by its replacement; in UA_nodeset the next
\* node follows.
Return(s, t) ==
  CASE t = "main" -> Become(s, t, Idle) /\ UNCHANGED todo
    [] t # "main" /\ th[s][t].again -> Goto(s, t, "replace") /\ UNCHANGED todo
    [] t # "main" /\ th[s][t].creating -> Goto(s, t, "nodeset") /\ UNCHANGED todo
    [] OTHER -> Finish(s)

-----------------------------------------------------------------------------
(* The interceptors: requests on the main thread *)

Number == made + 2   \* of the next operation; 1 wrote what was there before

Request(s, kind) ==
  /\ s \in Writer /\ kind \in Kind /\ At(s, "main", "idle")
  /\ ops > 0 /\ ops' = ops - 1 /\ made' = made + 1
  /\ UNCHANGED <<zkVars, nodeMzxid, flags, todo, losses, restarts>>

\* zkUA_Service_Write (a client's) and zkUA_UA_Server_write (the application's,
\* pushed only if replicateNode): the local store first.
Write(s, n) ==
  \E kind \in {"write", "update"} :
    /\ Request(s, kind)
    /\ Stored(s, n)
    /\ store' = [store EXCEPT ![s][n] = Number]
    /\ UNCHANGED linked
    /\ IF kind = "update" /\ ~replicateNode[s] THEN UNCHANGED th
       ELSE Become(s, "main", [Idle EXCEPT !.pc = "readBack", !.node = n, !.request = Number])

\* zkUA_Service_AddNodes_single goes on whatever the local add returned.
AddNode(s, n) ==
  /\ Request(s, "add")
  /\ LET item == [val |-> Number, parented |-> TRUE]
     IN /\ AddLocally(s, n, item)
        /\ Become(s, "main", [Idle EXCEPT !.pc = "addGet", !.node = n, !.pack = item])

\* zkUA_Service_DeleteNodes_single; without the flag the local store is all.
DeleteNode(s, n) ==
  /\ Request(s, "delete")
  /\ Become(s, "main", [Idle EXCEPT !.pc = IF replicateNode[s] THEN "zkDelete" ELSE "deleteLocal",
                                    !.node = n])
  /\ UNCHANGED uaVars

\* If zoo_delete returns an error, the node stays in the local store.
ZkDelete(s) ==
  /\ At(s, "main", "zkDelete")
  /\ LET n == th[s]["main"].node
     IN \/ Answered /\ DeleteZnode(n) /\ Goto(s, "main", "deleteLocal")
        \/ Answered /\ ~Exists(n) /\ Become(s, "main", Idle) /\ UNCHANGED zkVars
        \/ Lost /\ Become(s, "main", Idle) /\ (DeleteZnode(n) \/ UNCHANGED zkVars)
  /\ UNCHANGED <<uaVars, nodeMzxid, flags, todo, requests, restarts>>

DeleteLocal(s) ==
  /\ At(s, "main", "deleteLocal")
  /\ DeleteLocally(s, th[s]["main"].node, TRUE)
  /\ Become(s, "main", Idle)
  /\ UNCHANGED <<zkVars, nodeMzxid, flags, todo, bounds>>

\* prepareReplication reads the node again, as the store has it by now.  Its
\* reads pass the interceptor too, zkUA_Service_Read_single, which asks ZooKeeper
\* for each: if it does not answer and availability does not come first, the
\* node's class, or an attribute, is not read, and the push goes on without.
ReadBack(s) ==
  /\ At(s, "main", "readBack")
  /\ LET n     == th[s]["main"].node
         found == IF Stored(s, n) THEN [val |-> store[s][n], parented |-> Browsable(s, n)]
                  ELSE Blank
         Read(p) == th' = [th EXCEPT ![s]["main"].pc = "exists", ![s]["main"].pack = p]
     IN \/ Answered /\ Read(found)
        \/ Lost /\ ~AvailabilityPriority /\ Stored(s, n)
           /\ \E p \in {Blank, [found EXCEPT !.val = Unread]} : Read(p)
  /\ UNCHANGED <<zkVars, uaVars, nodeMzxid, flags, todo, requests, restarts>>

-----------------------------------------------------------------------------
(* zkUA_Service_AddNodes_single after its local add, on either thread *)

\* zoo_get with a watch; an error other than ZNONODE returns.
AddGet(s, t) ==
  /\ At(s, t, "addGet")
  /\ LET n == th[s][t].node
     IN \/ /\ Answered /\ Exists(n) /\ Watch(s, n)
           /\ th' = [th EXCEPT ![s][t].pc = "addCheck", ![s][t].ver = znode[n].mzxid]
           /\ UNCHANGED todo
        \/ Answered /\ ~Exists(n) /\ Goto(s, t, "exists") /\ UNCHANGED <<zkVars, todo>>
        \/ Lost /\ Return(s, t) /\ UNCHANGED zkVars
  /\ UNCHANGED <<uaVars, nodeMzxid, flags, requests, restarts>>

\* The process of s is gone, and its session's watches with it.
Gone(s) ==
  /\ th' = [th EXCEPT ![s] = [t \in Thread |-> Dead]]
  /\ queue' = [queue EXCEPT ![s] = <<>>]
  /\ dataWatch' = {w \in dataWatch : w[1] # s}
  /\ childWatch' = childWatch \ {s}
  /\ todo' = [todo EXCEPT ![s] = {}]
  /\ UNCHANGED <<znode, ns0, zxid>>

\* Mutant: < for <=, a node as fresh as ZooKeeper's is pushed again.
AddCheckOlder(s, t) ==
  /\ At(s, t, "addCheck")
  /\ IF nodeMzxid[s][th[s][t].node] < th[s][t].ver
       THEN Return(s, t)
       ELSE Goto(s, t, "exists") /\ UNCHANGED todo
  /\ UNCHANGED <<zkVars, uaVars, nodeMzxid, flags, bounds>>

\* A table as old as ZooKeeper returns; a fresher one frees nodeZkPath twice,
\* which ends the process or is not noticed, and goes on to push the node.
AddCheck(s, t) ==
  /\ At(s, t, "addCheck")
  /\ IF nodeMzxid[s][th[s][t].node] <= th[s][t].ver
       THEN Return(s, t) /\ UNCHANGED zkVars
       ELSE \/ Gone(s)
            \/ Goto(s, t, "exists") /\ UNCHANGED <<zkVars, todo>>
  /\ UNCHANGED <<uaVars, nodeMzxid, flags, bounds>>

-----------------------------------------------------------------------------
(* zkUA_UA_Server_replicateNode, on either thread *)

\* zoo_exists: set the data, create the znode, or give up without telling.
ReplicateNode(s, t) ==
  /\ At(s, t, "exists")
  /\ LET n == th[s][t].node
     IN \/ /\ Answered /\ Exists(n)
           /\ th' = [th EXCEPT ![s][t].pc = "set", ![s][t].ver = znode[n].mzxid]
           /\ UNCHANGED todo
        \/ Answered /\ ~Exists(n) /\ Goto(s, t, "create") /\ UNCHANGED todo
        \/ Lost /\ Return(s, t)
  /\ UNCHANGED <<zkVars, uaVars, nodeMzxid, flags, requests, restarts>>

\* zoo_set2, any version; if it fails stat is still that of zoo_exists.
Set(s, t) ==
  /\ At(s, t, "set")
  /\ LET n == th[s][t].node
     IN \/ /\ Answered /\ SetZnode(n, th[s][t].pack)
           /\ th' = [th EXCEPT ![s][t].pc = "record", ![s][t].ver = zxid']
        \/ Answered /\ ~Exists(n) /\ UNCHANGED zkVars /\ Goto(s, t, "record")
        \/ /\ Lost /\ (SetZnode(n, th[s][t].pack) \/ UNCHANGED zkVars)
           /\ Goto(s, t, "record")
  /\ UNCHANGED <<uaVars, nodeMzxid, flags, todo, requests, restarts>>

\* The result of zoo_create is overwritten by that of the zoo_get after it.
Create(s, t) ==
  /\ At(s, t, "create")
  /\ LET n == th[s][t].node
     IN \/ Answered /\ CreateZnode(n, th[s][t].pack)
        \/ Answered /\ Exists(n) /\ UNCHANGED zkVars
        \/ Lost /\ (CreateZnode(n, th[s][t].pack) \/ UNCHANGED zkVars)
  /\ Goto(s, t, "stat")
  /\ UNCHANGED <<uaVars, nodeMzxid, flags, todo, requests, restarts>>

\* zoo_get for the mzxid; if it fails stat is what the stack held.
Stat(s, t) ==
  /\ At(s, t, "stat")
  /\ LET n == th[s][t].node
         Became(v) == th' = [th EXCEPT ![s][t].pc = "record", ![s][t].ver = v]
     IN \/ Answered /\ Exists(n) /\ Became(znode[n].mzxid)
        \/ (Lost \/ (Answered /\ ~Exists(n))) /\ \E v \in Garbage : Became(v)
  /\ UNCHANGED <<zkVars, uaVars, nodeMzxid, flags, todo, requests, restarts>>

\* zkUA_insertMzxidAge, whatever the table holds by now.
Record(s, t) ==
  /\ At(s, t, "record")
  /\ nodeMzxid' = [nodeMzxid EXCEPT ![s][th[s][t].node] = th[s][t].ver]
  /\ Return(s, t)
  /\ UNCHANGED <<zkVars, uaVars, flags, bounds>>

-----------------------------------------------------------------------------
(* zkUA_addressSpaceWatcher and the list's completion *)

\* A deletion is done at once; nothing sets replicateNode again.
DeliverDeleted(s, e) ==
  /\ e.kind = "deleted"
  /\ \E n \in e.nodes : DeleteLocally(s, n, TRUE)
  /\ replicateNode' = [replicateNode EXCEPT ![s] = FALSE]
  /\ UNCHANGED addressSpaceExists
  /\ queue' = [queue EXCEPT ![s] = Tail(@)]
  /\ UNCHANGED <<znode, ns0, zxid, dataWatch, childWatch, th, todo, losses>>

DeliverChanged(s, e) ==
  /\ e.kind = "changed"
  /\ \E n \in e.nodes : Become(s, "completion", [Idle EXCEPT !.pc = "get", !.node = n])
  /\ queue' = [queue EXCEPT ![s] = Tail(@)]
  /\ UNCHANGED <<znode, ns0, zxid, dataWatch, childWatch, uaVars, flags, todo, losses>>

\* Mutant: the list is asked for again without its watch.
DeliverChildUnwatched(s, e) ==
  /\ e.kind = "child"
  /\ Answered
  /\ queue' = [queue EXCEPT ![s] = Append(Tail(@), Event("list", Znodes))]
  /\ UNCHANGED <<znode, ns0, zxid, dataWatch, childWatch, uaVars, flags, th, todo>>

\* zkUA_UA_Server_replicateZk; if it fails there is no list and no watch.
DeliverChild(s, e) ==
  /\ e.kind = "child"
  /\ \/ Answered /\ ListChildren(s, Tail(queue[s]))
     \/ /\ Lost /\ queue' = [queue EXCEPT ![s] = Tail(@)]
        /\ UNCHANGED <<znode, ns0, zxid, dataWatch, childWatch>>
  /\ UNCHANGED <<uaVars, flags, th, todo>>

DeliverList(s, e) ==
  /\ e.kind = "list"
  /\ queue' = [queue EXCEPT ![s] = Tail(@)]
  /\ IF e.nodes = {} THEN UNCHANGED <<th, todo>>
     ELSE /\ Become(s, "completion", [Idle EXCEPT !.pc = "get", !.node = NextNode(e.nodes)])
          /\ todo' = [todo EXCEPT ![s] = e.nodes \ {NextNode(e.nodes)}]
  /\ UNCHANGED <<znode, ns0, zxid, dataWatch, childWatch, uaVars, flags, losses>>

\* zkUA_checkAddressSpaceExists goes by what the server found before it had
\* nodes of its own; the list, which it was called with, holds at least those.
DeliverStart(s, e) ==
  /\ e.kind = "start"
  /\ IF addressSpaceExists[s]
       THEN /\ \/ Answered /\ ListChildren(s, Tail(queue[s]))
               \/ /\ Lost /\ queue' = [queue EXCEPT ![s] = Tail(@)]
                  /\ UNCHANGED <<znode, ns0, zxid, dataWatch, childWatch>>
            /\ UNCHANGED <<th, todo>>
       ELSE /\ Become(s, "completion", [Idle EXCEPT !.pc = "nodeset", !.creating = TRUE])
            /\ todo' = [todo EXCEPT ![s] = Nodeset]
            /\ queue' = [queue EXCEPT ![s] = Tail(@)]
            /\ UNCHANGED <<znode, ns0, zxid, dataWatch, childWatch, losses>>
  /\ UNCHANGED <<uaVars, flags>>

Deliver(s) ==
  /\ At(s, "completion", "idle") /\ queue[s] # <<>>
  /\ LET e == Head(queue[s])
     IN \/ DeliverDeleted(s, e) \/ DeliverChanged(s, e)
        \/ DeliverChild(s, e) \/ DeliverList(s, e) \/ DeliverStart(s, e)
  /\ UNCHANGED <<nodeMzxid, requests, restarts>>

-----------------------------------------------------------------------------
(* zkUA_jsonDecode_zkNode and zkNodeToUa, on the completion thread *)

\* Mutant: zoo_get(.., 0, ..), the watch is not set again.
GetUnwatched(s) ==
  /\ At(s, "completion", "get")
  /\ LET n == th[s]["completion"].node
     IN \/ /\ Answered /\ Exists(n)
           /\ Become(s, "completion", [Idle EXCEPT !.pc = "check", !.node = n,
                                         !.pack = PackOf(n), !.ver = znode[n].mzxid])
           /\ UNCHANGED todo
        \/ (Lost \/ (Answered /\ ~Exists(n))) /\ Finish(s)
  /\ UNCHANGED <<zkVars, uaVars, nodeMzxid, flags, requests, restarts>>

\* Mutant: rc is not looked at, the buffer and stat are decoded as they are.
GetUnchecked(s) ==
  /\ At(s, "completion", "get")
  /\ Answered /\ ~Exists(th[s]["completion"].node)
  /\ th' = [th EXCEPT ![s]["completion"].pc = "check", ![s]["completion"].ver = -1]
  /\ UNCHANGED <<zkVars, uaVars, nodeMzxid, flags, todo, requests, restarts>>

\* zoo_get with a watch.
Get(s) ==
  /\ At(s, "completion", "get")
  /\ LET n == th[s]["completion"].node
     IN \/ /\ Answered /\ Exists(n) /\ Watch(s, n)
           /\ Become(s, "completion", [Idle EXCEPT !.pc = "check", !.node = n,
                                         !.pack = PackOf(n), !.ver = znode[n].mzxid])
           /\ UNCHANGED todo
        \/ (Lost \/ (Answered /\ ~Exists(n))) /\ Finish(s) /\ UNCHANGED zkVars
  /\ UNCHANGED <<uaVars, nodeMzxid, flags, requests, restarts>>

\* Mutant: what was read is decoded, fresher or not.
CheckAnyAge(s) ==
  /\ At(s, "completion", "check")
  /\ LET r == th[s]["completion"]
     IN nodeMzxid' = [nodeMzxid EXCEPT ![s][r.node] = r.ver]
  /\ Goto(s, "completion", "decode")
  /\ UNCHANGED <<zkVars, uaVars, todo, flags, bounds>>

\* zkUA_checkMzxidAge and, before anything is decoded, zkUA_insertMzxidAge.
Check(s) ==
  /\ At(s, "completion", "check")
  /\ LET r == th[s]["completion"]
     IN IF nodeMzxid[s][r.node] >= r.ver
          THEN Finish(s) /\ UNCHANGED nodeMzxid
          ELSE /\ nodeMzxid' = [nodeMzxid EXCEPT ![s][r.node] = r.ver]
               /\ Goto(s, "completion", "decode")
               /\ UNCHANGED todo
  /\ UNCHANGED <<zkVars, uaVars, flags, bounds>>

\* Mutant: a node that is there already is taken for added.
DecodeOnce(s) ==
  /\ At(s, "completion", "decode")
  /\ LET r == th[s]["completion"]
     IN IF r.pack = Blank THEN Finish(s) /\ UNCHANGED uaVars
        ELSE /\ AddLocally(s, r.node, r.pack)
             /\ Goto(s, "completion", "addGet")
             /\ UNCHANGED todo
  /\ UNCHANGED <<zkVars, nodeMzxid, flags, bounds>>

\* A pack without a node class adds nothing; other packs go through the
\* intercepted add, which tells whether the node was there already.
Decode(s) ==
  /\ At(s, "completion", "decode")
  /\ LET r == th[s]["completion"]
     IN IF r.pack = Blank THEN Finish(s) /\ UNCHANGED uaVars
        ELSE /\ AddLocally(s, r.node, r.pack)
             /\ th' = [th EXCEPT ![s]["completion"].pc = "addGet",
                                 ![s]["completion"].again = /\ r.pack.parented
                                                            /\ Stored(s, Parent[r.node])
                                                            /\ Stored(s, r.node)]
             /\ UNCHANGED todo
  /\ UNCHANGED <<zkVars, nodeMzxid, flags, bounds>>

\* zkUA_UA_Server_deleteNode_dontReplicate without references, on
\* BADNODEIDEXISTS: the return comes before replicateNode = true.
Replace(s) ==
  /\ At(s, "completion", "replace")
  /\ DeleteLocally(s, th[s]["completion"].node, FALSE)
  /\ replicateNode' = [replicateNode EXCEPT ![s] = FALSE]
  /\ UNCHANGED addressSpaceExists
  /\ Goto(s, "completion", "readd")
  /\ UNCHANGED <<zkVars, nodeMzxid, todo, bounds>>

\* Mutant: the status of the first add is tested again after the second.
ReaddOnOldStatus(s) ==
  /\ At(s, "completion", "readd")
  /\ AddLocally(s, th[s]["completion"].node, th[s]["completion"].pack)
  /\ Goto(s, "completion", "addGet")
  /\ UNCHANGED <<zkVars, nodeMzxid, flags, todo, bounds>>

Readd(s) ==
  /\ At(s, "completion", "readd")
  /\ AddLocally(s, th[s]["completion"].node, th[s]["completion"].pack)
  /\ th' = [th EXCEPT ![s]["completion"].pc = "addGet", ![s]["completion"].again = FALSE]
  /\ UNCHANGED <<zkVars, nodeMzxid, flags, todo, bounds>>

-----------------------------------------------------------------------------
(* init_UA_Server on the main thread, and the first server's nodeset *)

Started == [t \in Thread |-> IF t = "main" THEN [Idle EXCEPT !.pc = "start"] ELSE Idle]

\* zoo_get_children; if it fails the main thread ends, before there is a watch.
Start(s) ==
  /\ At(s, "main", "start")
  /\ \/ /\ Answered
        /\ addressSpaceExists' = [addressSpaceExists EXCEPT ![s] = ns0 \/ Znodes # {}]
        /\ Goto(s, "main", "new")
        /\ UNCHANGED <<zkVars, todo>>
     \/ Lost /\ Gone(s) /\ UNCHANGED addressSpaceExists
  /\ UNCHANGED <<uaVars, nodeMzxid, replicateNode, requests, restarts>>

\* UA_Server_new pushes the nodes of namespace 0 that ZooKeeper has not
\* (zkUA_addNodeInternal), which nobody watches for: who watches the list has put
\* or found some.  zoo_aget_children, whose completion ends the thread if it fails.
NewServer(s) ==
  /\ At(s, "main", "new")
  /\ ns0' = TRUE
  /\ \/ /\ Answered
        /\ queue' = [queue EXCEPT ![s] = Append(@, Event("start", {}))]
        /\ Goto(s, "main", "idle")
     \/ /\ Lost
        /\ th' = [th EXCEPT ![s]["main"] = Idle, ![s]["completion"] = Dead]
        /\ UNCHANGED queue
  /\ UNCHANGED <<znode, zxid, dataWatch, childWatch, uaVars, nodeMzxid, flags, todo,
                 requests, restarts>>

\* UA_nodeset adds its next node, through the interceptor.
AddFromNodeset(s) ==
  LET n    == NextNode(todo[s])
      item == [val |-> 1, parented |-> TRUE]
  IN /\ AddLocally(s, n, item)
     /\ Become(s, "completion", [Idle EXCEPT !.pc = "addGet", !.node = n, !.pack = item,
                                             !.creating = TRUE])
     /\ todo' = [todo EXCEPT ![s] = @ \ {n}]
     /\ UNCHANGED <<zkVars, losses>>

\* zkUA_createNodeset: UA_nodeset, then the list with its watch.
CreateNodeset(s) ==
  /\ At(s, "completion", "nodeset")
  /\ IF todo[s] = {}
       THEN /\ (Answered /\ ListChildren(s, queue[s])) \/ (Lost /\ UNCHANGED zkVars)
            /\ Become(s, "completion", Idle)
            /\ UNCHANGED <<uaVars, todo>>
       ELSE AddFromNodeset(s)
  /\ UNCHANGED <<nodeMzxid, flags, requests, restarts>>

-----------------------------------------------------------------------------
(* The specification *)

\* A server is killed, or has been, and starts again with an empty store.
Restart(s) ==
  /\ restarts > 0 /\ restarts' = restarts - 1
  /\ th' = [th EXCEPT ![s] = Started]
  /\ todo' = [todo EXCEPT ![s] = {}]
  /\ store' = [store EXCEPT ![s] = [n \in Node |-> 0]]
  /\ linked' = [linked EXCEPT ![s] = {}]
  /\ nodeMzxid' = [nodeMzxid EXCEPT ![s] = [n \in Node |-> 0]]
  /\ replicateNode' = [replicateNode EXCEPT ![s] = TRUE]
  /\ addressSpaceExists' = [addressSpaceExists EXCEPT ![s] = FALSE]
  /\ queue' = [queue EXCEPT ![s] = <<>>]
  /\ dataWatch' = {w \in dataWatch : w[1] # s}
  /\ childWatch' = childWatch \ {s}
  /\ UNCHANGED <<znode, ns0, zxid, requests, losses>>

Init ==
  \E o \in Opening :
    /\ znode = [n \in Node |-> IF n \in o.present
                               THEN [val |-> 1, parented |-> TRUE, mzxid |-> n]
                               ELSE Version(Blank, 0)]
    /\ ns0 = (o.present # {} \/ o.starting # Server)
    /\ zxid = CHOOSE m \in Node : \A n \in Node : n <= m
    /\ dataWatch = {} /\ childWatch = Server \ o.starting
    /\ queue = [s \in Server |-> IF s \in o.starting THEN <<>>
                                 ELSE <<Event("list", o.present)>>]
    /\ store = [s \in Server |-> [n \in Node |-> 0]]
    /\ linked = [s \in Server |-> {}]
    /\ nodeMzxid = [s \in Server |-> [n \in Node |-> 0]]
    /\ replicateNode = [s \in Server |-> TRUE]
    /\ addressSpaceExists = [s \in Server |-> s \notin o.starting]
    /\ th = [s \in Server |-> IF s \in o.starting THEN Started ELSE [t \in Thread |-> Idle]]
    /\ todo = [s \in Server |-> {}]
    /\ made = 0 /\ ops = o.ops /\ losses = MaxLosses /\ restarts = o.restarts

RequestStep(s) == \E n \in Node : Write(s, n) \/ AddNode(s, n) \/ DeleteNode(s, n)

\* Each step the main thread takes to start, or for a request it has accepted.
MainStep(s) == Start(s) \/ NewServer(s) \/ ZkDelete(s) \/ DeleteLocal(s) \/ ReadBack(s)

PushStep(s, t) ==
  \/ AddGet(s, t) \/ AddCheck(s, t)
  \/ ReplicateNode(s, t) \/ Set(s, t) \/ Create(s, t) \/ Stat(s, t) \/ Record(s, t)

CopyStep(s) ==
  Deliver(s) \/ CreateNodeset(s) \/ Get(s) \/ Check(s) \/ Decode(s) \/ Replace(s) \/ Readd(s)

Next ==
  \E s \in Server :
    \/ RequestStep(s)
    \/ MainStep(s)
    \/ \E t \in Thread : PushStep(s, t)
    \/ CopyStep(s)
    \/ Restart(s)

Spec == Init /\ [][Next]_vars

\* Both threads are scheduled and ZooKeeper answers and delivers; nobody has to
\* make requests or restart servers.
Fairness ==
  \A s \in Server :
    /\ WF_vars(MainStep(s) \/ PushStep(s, "main"))
    /\ WF_vars(CopyStep(s) \/ PushStep(s, "completion"))

FairSpec == Spec /\ Fairness

-----------------------------------------------------------------------------
(* Properties *)

PC == {"idle", "dead", "start", "new", "nodeset", "readBack", "zkDelete",
       "deleteLocal", "addGet", "addCheck", "exists", "set", "create", "stat", "record",
       "get", "check", "decode", "replace", "readd"}

Events == [kind : {"deleted", "changed", "child", "list", "start"}, nodes : SUBSET Node]

ThreadState == [pc : PC, node : Node \cup {0}, pack : Pack, ver : Nat, request : Nat,
                again : BOOLEAN, creating : BOOLEAN]

\* Every variable stays within its type.
TypeOK ==
  /\ znode \in [Node -> [val : Value, parented : BOOLEAN, mzxid : Nat]]
  /\ zxid \in Nat
  /\ dataWatch \subseteq Server \X Node /\ childWatch \subseteq Server
  /\ queue \in [Server -> Seq(Events)]
  /\ store \in [Server -> [Node -> Value]]
  /\ linked \in [Server -> SUBSET Node]
  /\ nodeMzxid \in [Server -> [Node -> Nat]]
  /\ ns0 \in BOOLEAN
  /\ replicateNode \in [Server -> BOOLEAN] /\ addressSpaceExists \in [Server -> BOOLEAN]
  /\ th \in [Server -> [Thread -> ThreadState]]
  /\ todo \in [Server -> SUBSET Node]
  /\ made \in Nat /\ ops \in Nat /\ losses \in Nat /\ restarts \in Nat

Queued(s, kind) == {e \in {queue[s][i] : i \in 1..Len(queue[s])} : e.kind = kind}
Coming(s, n)    == th[s]["completion"].node = n /\ At(s, "completion", "get")

\* A server that starts has yet to ask for the list with a watch.
YetToList(s) == \/ th[s]["main"].pc \in {"start", "new"} \/ Queued(s, "start") # {}
                \/ th[s]["completion"].creating

\* While every call is answered a server hears of every later change: the list
\* of nodes is watched, or asked for again on an event in the queue; and every
\* znode is watched, or on its way to be read with a watch.
NeverDeaf ==
  \A s \in Server : Alive(s) /\ losses = MaxLosses /\ ~YetToList(s) =>
    /\ s \in childWatch \/ Queued(s, "child") # {}
    /\ \A n \in Znodes :
         \/ <<s, n>> \in dataWatch
         \/ Queued(s, "child") # {}
         \/ \E e \in Queued(s, "list") \cup Queued(s, "changed") : n \in e.nodes
         \/ n \in todo[s] \/ Coming(s, n)

\* A server that found no znodes when it started has the value of its own nodeset
\* still.  Where another server created the znode first its zoo_create fails, which
\* the zoo_get after it hides, and its table gets the mzxid of the other's version
\* (zkUA_UA_Server_replicateNode).
KeepsItsOwn(s, n) == ~addressSpaceExists[s] /\ n \in Nodeset /\ store[s][n] = 1

\* A server without writers that has come to rest has recorded the last version of
\* every znode, however its one-shot watches, its reads and the writes of others
\* met; and it holds the value of every znode whose pack names a parent, if that is
\* the folder or it holds the node at all.  The one exception, and it lasts until
\* the znode changes again: a server that created the nodeset and came second.
PassiveConverges ==
  \A s \in Server \ Writer : Alive(s) /\ AtRest(s) =>
    \A n \in Znodes :
      /\ nodeMzxid[s][n] = znode[n].mzxid
      /\ znode[n].parented /\ (Parent[n] = 0 \/ Stored(s, n)) =>
           store[s][n] = znode[n].val \/ KeepsItsOwn(s, n)

\* The thread that copies has recorded the version of n and not yet added it.
AtWork(s, n) == /\ th[s]["completion"].node = n
                /\ th[s]["completion"].pc \in {"decode", "addGet", "addCheck", "replace", "readd"}

\* What such a server stores is never behind its table, although the table is
\* written first and is all that is compared later on: a node whose recorded
\* version is the one on ZooKeeper has the value that is on ZooKeeper, unless it
\* is being added right now, or the pack names no parent, or one that was not
\* there when the node was to be added; or, the same exception, it is the value of
\* the server's own nodeset under the mzxid of another's version.
CopiesCurrent ==
  \A s \in Server \ Writer :
    \A n \in Znodes :
      znode[n].parented /\ (Parent[n] = 0 \/ Stored(s, n)) /\ ~AtWork(s, n)
        /\ nodeMzxid[s][n] = znode[n].mzxid
      => store[s][n] = znode[n].val \/ KeepsItsOwn(s, n)

\* Such a server does not keep a node after ZooKeeper has lost it: "the watch
\* mechanism sends out a notification the moment anything changes", says
\* zkUA_Service_Read_single of the local cache.
PassiveHasNoGhosts ==
  \A s \in Server \ Writer : Alive(s) /\ AtRest(s) =>
    \A n \in Node : Stored(s, n) => Exists(n)

\* "Disable replication to zk since we are now copying from zk", says
\* zkUA_addressSpaceWatcher: a server without writers pushes nothing, although
\* all it adds goes through the interceptor of client requests.
CopyingNeverPushes ==
  \A s \in Server \ Writer :
    th[s]["completion"].pc \in {"exists", "set", "create"} => th[s]["completion"].creating

\* Servers that started, together or one after the other, and have come to rest
\* before the first request, all hold the value ZooKeeper holds of every znode;
\* and if one of them found no znode the whole nodeset is there.  (One that is
\* killed between UA_Server_new and UA_nodeset leaves znodes that all, itself
\* among them, take for the address space, and the nodeset is never created.)
StartupAgrees ==
  (made = 0 /\ losses = MaxLosses /\ \A s \in Server : AtRest(s)) =>
    /\ \A s \in Server : Alive(s) => \A n \in Znodes : store[s][n] = znode[n].val
    /\ (\E s \in Server : ~addressSpaceExists[s]) => Nodeset \subseteq Znodes

\* Once nobody makes requests every server comes to rest: what one server
\* copies does not set off another for ever.
ComesToRest == <>[](\A s \in Server : AtRest(s))

\* In the end such a server has recorded the last version of every znode, however
\* its reads, the events and the writes of others meet.
PassiveCatchesUp ==
  \A s \in Server \ Writer :
    <>[](\A n \in Znodes : nodeMzxid[s][n] = znode[n].mzxid)

\* replicateNode is the "Flag - replicate any node add/delete/update operations to
\* ZooKeeper" (zk_serverReplicate.c): the delete of a client goes to ZooKeeper
\* first, whatever the server has copied before.
DeletesAreReplicated ==
  [][\A s \in Server, n \in Node :
       DeleteNode(s, n) /\ Stored(s, n) /\ Exists(n) => th'[s]["main"].pc = "zkDelete"]_vars

-----------------------------------------------------------------------------
(* Refinement *)

\* The node is being added from a pack that is recorded.
Copying(r) == \/ r.pc \in {"decode", "replace", "readd"}
              \/ r.pc \in {"addGet", "addCheck"} /\ r.again

Task(phase, n, version, v) == [phase |-> phase, node |-> n, mzxid |-> version, val |-> v]

\* What the completion thread is copying, or has pushed.
TaskOf(s, r) ==
  IF r.pc = "check" THEN Task("fetched", r.node, r.ver, r.pack.val)
  ELSE IF r.pc = "record" THEN Task("pushed", r.node, r.ver, 0)
  ELSE IF Copying(r) THEN Task("recorded", r.node, nodeMzxid[s][r.node], r.pack.val)
  ELSE Task("free", 0, 0, 0)

Reader == Server \ Writer

Table == [s \in Reader |-> nodeMzxid[s]]
Shown == [s \in Reader |-> store[s]]
Tasks == [s \in Reader |-> TaskOf(s, th[s]["completion"])]

Copy == INSTANCE Replica WITH latest <- znode, table <- Table, shown <- Shown, job <- Tasks

\* A server without writers shows of a node nothing, or a value it fetched from
\* ZooKeeper and recorded, and never an older version after a newer one.
ImplementsReplica == Copy!Spec

=============================================================================
