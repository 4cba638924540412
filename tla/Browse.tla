------------------------------ MODULE Browse ------------------------------
(***************************************************************************)
(* The three recursive browses of an address space:                        *)
(*   "parent"  zkUA_findParent_recursiveBrowse (src/zk_intercept.c), by    *)
(*             which a server finds the parent it names in a pack;         *)
(*   "ns0"     zkUA_jsonDecode_checkChildOfNS0ServerNode                   *)
(*             (src/zk_serverReplicate.c), which keeps the subtree of the  *)
(*             Server node off ZooKeeper;                                  *)
(*   "client"  zkUA_BrowseFolder_recursive (src/zk_clientReplicate.c), by  *)
(*             which a client copies a whole server to ZooKeeper.          *)
(* Each is a callback that open62541 calls for every reference of a node,  *)
(* and that calls open62541 again for the node it was handed.  Each has an *)
(* array of the identifiers it has met, without their namespaces, and a    *)
(* counter of the slots used.                                              *)
(* Identifiers are numbers here, as in the code: nodes with a string for   *)
(* one, which the client does not copy, are left out.                      *)
(***************************************************************************)
EXTENDS Integers, Sequences, FiniteSets

CONSTANTS
  Node,         \* of the address space
  Root,         \* the Root folder, where "parent" and "client" begin
  ServerNode,   \* the Server object of namespace 0, where "ns0" begins
  Spaces,       \* the references of each node, in their order
  Numberings,   \* the numeric identifiers of the nodes
  Capacity,     \* of the arrays: nServer, nServerNS0 and n in the code
  MaxSearches,  \* bound: searches of a server, runs of a client
  NoNode        \* a null pointer, a field that was not set

ReferenceNode == [to : Node, inverse : BOOLEAN, hierarchical : BOOLEAN]

ASSUME ConstantsOK ==
  /\ IsFiniteSet(Node)   \* an address space in memory
  /\ Root \in Node /\ ServerNode \in Node /\ NoNode \notin Node
  /\ Spaces \subseteq [Node -> Seq(ReferenceNode)]
  /\ Numberings \subseteq [Node -> Nat \ {0}]
  /\ Capacity \in Nat /\ MaxSearches \in Nat

Search == {"parent", "ns0", "client"}

VARIABLES
  references,  \* the address space
  identifier,  \* and its numbering, both chosen in Init
  search,      \* the search under way, or the last: its kind, the node it is for,
               \* and (history) the identifiers that were in its array before
  stack,       \* the nodes being browsed, innermost first, and how many of the
               \* references of each have not had their callback
  visited,     \* the arrays
  cntr,        \* their counters
  answer,      \* the parent found, or the Server node an ancestor was sought for
  znode,       \* by name: the node the pack is about, and its parent
  dead,        \* an array was written past its end, or the client crashed
  unlisted,    \* this run of the client could not list the references of some node
  unpushed,    \* (history) the nodes whose push failed in this run of the client
  searches     \* what is left of the bound

space == <<references, identifier>>
vars  == <<space, search, stack, visited, cntr, answer, znode, dead, unlisted, unpushed, searches>>

-----------------------------------------------------------------------------
(* open62541 *)

\* UA_Server_forEachChildNodeCall hands the callback the last reference first,
\* UA_Client_forEachChildNodeCall the first.
Frame(n)  == [node |-> n, left |-> Len(references[n])]
Current   == LET top == Head(stack)
             IN references[top.node][IF search.kind = "client"
                                       THEN Len(references[top.node]) - top.left + 1
                                       ELSE top.left]
Consumed  == <<[Head(stack) EXCEPT !.left = @ - 1]>> \o Tail(stack)

\* The callback returns; the value it returns stops nothing.
NextReference == stack' = Consumed

-----------------------------------------------------------------------------
(* The arrays *)

Zeroes == [j \in 1..Capacity |-> 0]

\* The whole array is scanned, not only the slots in use.
Seen(k, n) == \E j \in 1..Capacity : visited[k][j] = identifier[n]

\* Mutant: the counter is not moved on.
MarkInPlace(k, n, times) ==
  /\ visited' = [visited EXCEPT ![k][cntr[k] + 1] = identifier[n]]
  /\ UNCHANGED cntr

\* visitedNodeID[visitedCntr++] = identifier, so many times.
Mark(k, n, times) ==
  /\ visited' = [visited EXCEPT ![k] =
       [j \in 1..Capacity |-> IF j \in cntr[k] + 1..cntr[k] + times THEN identifier[n] ELSE @[j]]]
  /\ cntr' = [cntr EXCEPT ![k] = @ + times]

-----------------------------------------------------------------------------
(* The beginning of a search *)

Begin(kind, target, root, known) ==
  /\ stack = <<>> /\ searches > 0 /\ searches' = searches - 1
  /\ search' = [kind |-> kind, for |-> target, known |-> known]
  /\ stack' = <<Frame(root)>>
  /\ answer' = NoNode
  /\ UNCHANGED space

\* Mutant: the array is not zeroed.
LocateParentUnzeroed(n) ==
  /\ search.kind \in {"none", "parent"} /\ ~dead
  /\ Begin("parent", n, Root, {})
  /\ UNCHANGED <<visited, cntr, znode, dead, unlisted, unpushed>>

\* zkUA_UA_Server_locateParent zeroes the array, and leaves the counter.
LocateParent(n) ==
  /\ search.kind \in {"none", "parent"} /\ ~dead
  /\ Begin("parent", n, Root, {})
  /\ visited' = [visited EXCEPT !["parent"] = Zeroes]
  /\ UNCHANGED <<cntr, znode, dead, unlisted, unpushed>>

\* zkNodeToUa for a pack of namespace 0, and zkUA_addNodeInternal once the Server
\* node is there: neither array nor counter is reset.
CheckChildOfNS0(n) ==
  /\ search.kind \in {"none", "ns0"} /\ ~dead
  /\ Begin("ns0", n, ServerNode, {visited["ns0"][j] : j \in 1..Capacity})
  /\ UNCHANGED <<visited, cntr, znode, dead, unlisted, unpushed>>

\* zkUA_UAServerAddressSpace, in a process of its own that may follow one that
\* crashed.
UAServerAddressSpace ==
  /\ search.kind \in {"none", "client"}
  /\ Begin("client", NoNode, Root, {})
  /\ visited' = [visited EXCEPT !["client"] = Zeroes]
  /\ cntr' = [cntr EXCEPT !["client"] = 0]
  /\ dead' = FALSE /\ unlisted' = FALSE /\ unpushed' = {}
  /\ UNCHANGED znode

-----------------------------------------------------------------------------
(* The callbacks *)

Calling == stack # <<>> /\ Head(stack).left > 0

\* The early returns.  Only the search for a parent asks for a hierarchical
\* reference, and it does so after it has looked into its array.
Skipped(r) ==
  \/ r.inverse
  \/ Seen(search.kind, r.to)
  \/ search.kind = "parent" /\ ~r.hierarchical

Skip ==
  /\ Calling /\ Skipped(Current)
  /\ NextReference
  /\ UNCHANGED <<space, search, visited, cntr, answer, znode, dead, unlisted, unpushed, searches>>

\* References of the node being browsed with the numeric identifier of the
\* child, whatever their namespace: for each one the client pushes a znode and
\* takes a slot of the array.  (Its browse request asks for forward references.)
SameIdentifier(n) ==
  {i \in 1..Len(references[Head(stack).node]) :
     LET r == references[Head(stack).node][i]
     IN ~r.inverse /\ identifier[r.to] = identifier[n]}

Slots(n) == IF search.kind = "client" THEN Cardinality(SameIdentifier(n)) ELSE 1

\* Mutant: nobody looks at the end of the array.
EnteringAlways == Calling /\ ~Skipped(Current)

Entering ==
  /\ Calling /\ ~Skipped(Current)
  /\ cntr[search.kind] + Slots(Current.to) <= Capacity

\* The child is the node sought (namespace and identifier): it is not browsed.
FoundParent ==
  /\ Entering /\ search.kind = "parent" /\ Current.to = search.for
  /\ answer' = Head(stack).node
  /\ Mark("parent", Current.to, 1)
  /\ NextReference
  /\ UNCHANGED <<space, search, znode, dead, unlisted, unpushed, searches>>

\* Mutant: a slot for the node, and one for its parent.
DescendParentTwice ==
  /\ Entering /\ search.kind = "parent" /\ Current.to # search.for
  /\ Mark("parent", Current.to, 2)
  /\ stack' = <<Frame(Current.to)>> \o Consumed
  /\ UNCHANGED <<space, search, answer, znode, dead, unlisted, unpushed, searches>>

DescendParent ==
  /\ Entering /\ search.kind = "parent" /\ Current.to # search.for
  /\ Mark("parent", Current.to, 1)
  /\ stack' = <<Frame(Current.to)>> \o Consumed
  /\ UNCHANGED <<space, search, answer, znode, dead, unlisted, unpushed, searches>>

\* Mutant: the search ends at the node it is for, with whatever was found.
DescendNS0Last ==
  /\ Entering /\ search.kind = "ns0"
  /\ answer' = IF Current.to = search.for THEN ServerNode ELSE NoNode
  /\ Mark("ns0", Current.to, 1)
  /\ stack' = <<Frame(Current.to)>> \o Consumed
  /\ UNCHANGED <<space, search, znode, dead, unlisted, unpushed, searches>>

\* A match is noted, and the browse goes on all the same.
DescendNS0 ==
  /\ Entering /\ search.kind = "ns0"
  /\ answer' = IF Current.to = search.for THEN ServerNode ELSE answer
  /\ Mark("ns0", Current.to, 1)
  /\ stack' = <<Frame(Current.to)>> \o Consumed
  /\ UNCHANGED <<space, search, znode, dead, unlisted, unpushed, searches>>

\* The znodes that the client asks for.  They are named after the references, while
\* their packs name the child; one that is there keeps its pack.
Missing(n) ==
  {m \in {references[Head(stack).node][i].to : i \in SameIdentifier(n)} : znode[m].about = NoNode}

\* The push of any of them may fail: json_dumps gives nothing, zoo_acreate an error,
\* or its completion one, which is only printed.
Push(n) ==
  \E failed \in SUBSET Missing(n) :
    /\ unpushed' = unpushed \cup failed
    /\ znode' = [m \in Node |-> IF m \in Missing(n) \ failed
                                   THEN [about |-> n, parent |-> Head(stack).node] ELSE znode[m]]

\* Mutant: only hierarchical references are followed.
DescendClientShallow ==
  /\ Entering /\ search.kind = "client"
  /\ Push(Current.to)
  /\ Mark("client", Current.to, Slots(Current.to))
  /\ stack' = IF Current.hierarchical THEN <<Frame(Current.to)>> \o Consumed ELSE Consumed
  /\ UNCHANGED <<space, search, answer, dead, unlisted, searches>>

\* The child counts as visited and is browsed whatever became of its push ("If push is
\* successful", says the comment).  Non-hierarchical references are followed like all
\* others.
DescendClient ==
  /\ Entering /\ search.kind = "client"
  /\ Push(Current.to)
  /\ Mark("client", Current.to, Slots(Current.to))
  /\ stack' = <<Frame(Current.to)>> \o Consumed
  /\ UNCHANGED <<space, search, answer, dead, unlisted, searches>>

\* forEachChildNodeCall returns to the callback that called it, or at last to
\* the function that began the search.
Return ==
  /\ stack # <<>> /\ Head(stack).left = 0
  /\ stack' = Tail(stack)
  /\ UNCHANGED <<space, search, visited, cntr, answer, znode, dead, unlisted, unpushed, searches>>

\* The array is full and the code writes on: what becomes of the process is
\* undefined, and is not followed any further.
Overrun ==
  /\ Calling /\ ~Skipped(Current)
  /\ cntr[search.kind] + Slots(Current.to) > Capacity
  /\ dead' = TRUE /\ stack' = <<>>
  /\ UNCHANGED <<space, search, visited, cntr, answer, znode, unlisted, unpushed, searches>>

\* A browse of the server that fails has no results, and zkUA_BrowseFolder
\* looks into the first one: the client dies with what it has pushed so far.
BrowseFails ==
  /\ Calling /\ ~Skipped(Current) /\ search.kind = "client"
  /\ dead' = TRUE /\ stack' = <<>>
  /\ UNCHANGED <<space, search, visited, cntr, answer, znode, unlisted, unpushed, searches>>

\* A browse of the server that fails in UA_Client_forEachChildNodeCall: the
\* callback is not called at all, and nobody looks at the status.
ListFails ==
  /\ Calling /\ search.kind = "client" /\ ~unlisted
  /\ Head(stack) = Frame(Head(stack).node)
  /\ stack' = <<[Head(stack) EXCEPT !.left = 0]>> \o Tail(stack)
  /\ unlisted' = TRUE
  /\ UNCHANGED <<space, search, visited, cntr, answer, znode, dead, unpushed, searches>>

-----------------------------------------------------------------------------

Init ==
  /\ references \in Spaces
  /\ identifier \in Numberings
  /\ search = [kind |-> "none", for |-> NoNode, known |-> {}]
  /\ stack = <<>>
  /\ visited = [k \in Search |-> Zeroes]
  /\ cntr = [k \in Search |-> 0]
  /\ answer = NoNode
  /\ znode = [n \in Node |-> [about |-> NoNode, parent |-> NoNode]]
  /\ dead = FALSE /\ unlisted = FALSE /\ unpushed = {}
  /\ searches = MaxSearches

Next ==
  \/ \E n \in Node : LocateParent(n) \/ CheckChildOfNS0(n)
  \/ UAServerAddressSpace
  \/ Skip \/ FoundParent \/ DescendParent \/ DescendNS0 \/ DescendClient
  \/ Return \/ Overrun \/ BrowseFails \/ ListFails

Spec == Init /\ [][Next]_vars

-----------------------------------------------------------------------------
(* Properties *)

\* Every variable stays within its type.
TypeOK ==
  /\ references \in [Node -> Seq(ReferenceNode)] /\ identifier \in [Node -> Nat]
  /\ search.kind \in Search \cup {"none"} /\ search.for \in Node \cup {NoNode}
  /\ \A i \in 1..Len(stack) : /\ stack[i].node \in Node
                              /\ stack[i].left \in 0..Len(references[stack[i].node])
  /\ visited \in [Search -> [1..Capacity -> Nat]]
  /\ cntr \in [Search -> 0..Capacity]
  /\ answer \in Node \cup {NoNode}
  /\ znode \in [Node -> [about : Node \cup {NoNode}, parent : Node \cup {NoNode}]]
  /\ dead \in BOOLEAN /\ unlisted \in BOOLEAN /\ unpushed \subseteq Node
  /\ searches \in 0..MaxSearches

\* What the searches are supposed to compute, from the references alone.
Targets(n, hierarchical) ==
  {r.to : r \in {references[n][i] : i \in {j \in 1..Len(references[n]) :
     ~references[n][j].inverse /\ (hierarchical => references[n][j].hierarchical)}}}

\* The nodes that a chain of such references leads to from n, none of them
\* (but the last) with an identifier among known.
Reached(n, hierarchical, known) ==
  LET Within[d \in 0..Cardinality(Node)] ==
        IF d = 0 THEN {}
        ELSE {m \in UNION {Targets(l, hierarchical) : l \in Within[d - 1] \cup {n}} :
                identifier[m] \notin known}
  IN Within[Cardinality(Node)]

DistinctIdentifiers == \A m, n \in Node : identifier[m] = identifier[n] => m = n
Done(kind) == search.kind = kind /\ stack = <<>> /\ ~dead

\* The recursion is never deeper than there are identifiers, however the
\* references run in circles: the visited array stops it, also in the second
\* search, whose slots begin where those of the first ended.
DepthIsBounded ==
  Len(stack) <= 1 + Cardinality({identifier[n] : n \in Node})

\* zkUA_UA_Server_locateParent answers with a node that has a hierarchical
\* reference to the one sought and can itself be reached from the root; and it
\* does answer if there is one and no two nodes have the same identifier.
ParentIsFound ==
  Done("parent") =>
    /\ answer # NoNode =>
         /\ answer \in {Root} \cup Reached(Root, TRUE, {})
         /\ search.for \in Targets(answer, TRUE)
    /\ DistinctIdentifiers /\ search.for \in Reached(Root, TRUE, {}) => answer # NoNode

\* checkChildOfNS0ServerNode never takes a node for a part of the Server
\* node's subtree that is not; it finds one that is, if no two nodes have the
\* same identifier, as long as no search before came by: the array keeps what
\* all earlier searches met, and what is behind it is never found again.
ServerSubtreeIsRecognised ==
  Done("ns0") =>
    /\ answer # NoNode => search.for \in Reached(ServerNode, FALSE, {})
    /\ DistinctIdentifiers /\ search.for \in Reached(ServerNode, FALSE, search.known)
         => answer # NoNode

\* A search takes one slot for each identifier it can reach, no more: a server
\* makes Capacity divided by that many searches before it writes past an array.
ArraysLast ==
  LET reached == IF search.kind = "parent" THEN Reached(Root, TRUE, {})
                                           ELSE Reached(ServerNode, FALSE, {})
  IN dead /\ search.kind # "client" =>
       (MaxSearches - searches) * Cardinality({identifier[n] : n \in reached}) > Capacity

\* A client that returns, and could list every node, has left on ZooKeeper a
\* znode for every node that references lead to from the root, but for those whose
\* own push failed: a failed push costs that node alone, not what is below it, and
\* the next run makes up for it, no matter where a run before it died.  There are
\* znodes for no other nodes, and each has a pack about that very node, under a parent
\* that refers to it.  That needs identifiers that tell the nodes apart.
ClientCopiesAll ==
  LET copied  == {n \in Node : znode[n].about # NoNode}
      reached == Reached(Root, FALSE, {})
  IN DistinctIdentifiers =>
    /\ Done("client") /\ ~unlisted =>
         copied \subseteq reached /\ reached \ unpushed \subseteq copied
    /\ \A n \in copied : znode[n].about = n /\ n \in Targets(znode[n].parent, FALSE)

=============================================================================
