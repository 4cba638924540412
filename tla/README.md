# A TLA+ model of zkUACoordination

zkUACoordination makes OPC UA servers redundant through Apache ZooKeeper.  Each
server keeps its address space in memory (open62541) and a copy of it as JSON
under `/Servers/<group>/AddressSpace` on ZooKeeper; beside each server runs a
failover controller that competes, through ZooKeeper, for the right to connect
to its server and monitor it.  Nothing in the repository is tested automatically.
The models here follow the code, not the documents; where a comment or a document
says otherwise, [a section](#where-the-code-and-its-comments-disagree) says so, and
a run expected to be violated shows the most important cases.

Contents: [inventory](#inventory), [modules](#the-modules), [runs](#the-runs),
[bounds](#bounds), [fairness](#fairness), [proofs](#proofs),
[disagreements](#where-the-code-and-its-comments-disagree),
[left out](#what-is-not-modelled), [plan](#plan).

## Inventory

| Part | Source | State | Operations | Correct when |
|---|---|---|---|---|
| Failover controller | `examples/cli_UA_failoverController.c` | `rSupport`, `stopMonitoring`, `failureCounter`, the global client; its znode under `Redundancy/Active`; watches | `init_UA_client` on main, `zkUA_activeNodesWatcher` on the completion thread, both calling `zkUA_zkEvaluateActiveNodes`; `zkUA_monitorServer`, `zkUA_readValue`, `intHandler` | a server is engaged only under its controller's lock, by one thread; a group is not left without an active node |
| Server replication | `src/zk_intercept.c`, `src/zk_serverReplicate.c` | local store, `nodeMzxid`, `replicateNode`, watches | intercepted write, add, delete; `zkUA_UA_Server_replicateNode`; `zkUA_UA_Server_replicateZk` and its completion; `zkUA_jsonDecode_zkNode` | servers at rest agree with ZooKeeper; what a client wrote gets there; copies do not echo |
| UA server process | `examples/cli_UA_server.c` | mode, `uaServer`, `addressSpaceExists`, server state | `init_UA_Server`, `zkUA_checkAddressSpaceExists`, `zkUA_createNodeset`, `zkUA_addressSpaceWatcher`, activation method | servers that start agree on one address space and follow its changes |
| Searches of a server | `src/zk_intercept.c` 360-434, `src/zk_serverReplicate.c` 242-331 | `visitedNodeIDServer`, `visitedNodeIDServerNS0` (3000 entries each) and their counters | recursive browse for a node's parent; for a node below the Server node | the right node is found; the arrays are large enough |
| Client-side replication | `src/zk_clientReplicate.c`, `examples/cli_UA_client.c` | array of 300 visited nodes | recursive browse of a server, a znode per node | every node whose push succeeded is on ZooKeeper, also after a second run |
| JSON encoding, decoding | `src/zk_jsonEncode.c`, `src/zk_jsonDecode.c` | none (decoding adds nodes) | a pack per node class | a decoded node is the one that was encoded, and copies of copies agree (reals apart, which differ) |
| mzxid hashtable | `src/hashtable/hashtable.c`, hash and equality in `src/zk_cli.c` | chains, size, count | insert (which may expand), search, remove | a search finds the last value inserted |
| Helpers | `src/zk_cli.c`, `src/zk_urlEncode.c` | configuration | parsing, URL encoding of paths, printing | |
| open62541, nodeset, simple_parse | `src/open62541.c`, `src/nodeset.c`, `src/simple_parse.c` | node store | vendored, and an example nodeset adapted by hand | external |

**How they interact.**  The C client of ZooKeeper has a completion thread per
process; watchers and completions run on it while main goes on.  A controller's
two threads call the same function on the same globals.  In a server, main runs
the OPC UA network loop, so a client's request runs an interceptor on main; the
completion thread copies what others changed, by calling functions of open62541 that
come back through the *same* interceptors.  The two threads share store, table and
flag without a lock.  Before a pack leaves, the server browses its own address space
for the parent the pack is to name; before a pack of namespace 0 is taken, it browses
from the Server node.  Servers meet each other and their controllers only through
ZooKeeper: znodes, one-shot watches, per-session queues of events.

**What is hard.**  Interleavings of two threads in both programs; check and act
on ZooKeeper in separate calls; one-shot watches that must be set again; calls
that fail after they took effect; sessions that outlive processes, and processes
that outlive sessions; restarts with an empty store; servers that start together on
nothing; copies coming back as echoes; errors that are not looked at; arrays of fixed
size and counters that are never reset; a passage through JSON that loses part of a node
each time unless what is lost is lost for good, and that makes another number of a real each time.  `PROJECT.json` lists each hazard
at its line, with the property that covers it or the reason why none does.

## The modules

| Module | What it is |
|---|---|
| `Failover` | the controllers of one group and the ZooKeeper they see |
| `RedundancyGroup` | what they promise: an abstract specification |
| `FailoverProofs` | theorems about `Failover` |
| `FailoverRefinement` | the proof that `Failover` implements `RedundancyGroup` |
| `Replication` | the address space of a group of servers, their start, and the ZooKeeper between them |
| `ReplicationProofs` | theorems about `Replication`: types, and that no change is missed |
| `Replica` | what a server without writers promises of its copy: an abstract specification |
| `CopyingProofs` | theorems about servers without writers, and about servers that start |
| `ReplicaRefinement` | the proof that `Replication` implements `Replica`, and that copies are current, and up to date at rest |
| `Browse` | the three recursive browses, with their arrays |
| `BrowseProofs` | theorems about `Browse` |
| `Codec` | a node's way through JSON and the checks of the store |
| `CodecProofs` | theorems about `Codec` |
| `MzxidTable` | the hashtable `nodeMzxid` |
| `MzxidProofs` | theorems about `MzxidTable` |
| `MCFailover`, `MCReplication`, `MCBrowse`, `MCCodec`, `MCMzxidTable` | small instances for TLC |

The four detailed models are of one system but not composed into one: each takes from its neighbours
what it needs, and no more.  `Replication` takes a pack as a value and whether it names a
parent; that the search for the parent answers as `Replication`'s `Browsable` says is what
`Browse` checks, and what becomes of the value is `Codec`'s.  `Replication` takes the table for a map;
`MzxidTable` says when it is one.  The controllers reach a server only by its state,
which `Failover` has.

### Failover

`pc[c]` holds the place of each of a controller's two threads.  main walks through
`init_UA_client`: `CreateRedundancy`, `ExistsActive`, `CreateActive`, `Configure`
(where the mode is set: a watcher that runs before sees none), then, by mode,
`LockAlone` and `ConnectAlone`, or `List` and what follows; then it waits in the last
loop until `stopMonitoring` and closes the handle (`Close`).  The completion thread
turns one queued event at a time into a `List` (`Dispatch`).  Both threads share
`List`, `Evaluate`, `GetLock`/`MissLock`, `ActivateCold`, `Connect`/`ConnectFails`
and the steps of the monitor, one action per call that another thread
or process can see.  A call is answered, or it is not (the session is over, or
its reply is lost, in which case a create may have been done).  The environment
starts and kills processes, sends SIGINT, expires sessions, registers the group,
and stops and activates servers.

`lock[c]` tells apart a znode of this run and one that a former run left behind:
the names are the same, the sessions are not.  Two quirks of the C code are data
of the model: `RetvalGarbage`, the unset `retval` of `zkUA_zkEvaluateActiveNodes` that
`clientConnectToServer` tests, and `Junk`, what the `String_vector` on the stack may seem
to hold after a `zoo_get_children` that failed.

`RedundancyGroup` promises little, and says so: a node of a cold or warm group
joins after it has *found* the group empty, at most once in a run, and stays until
its run's session ends.  It does not promise that one node is active, as the code
does not.  The promise holds as long as ZooKeeper answers: a `zoo_get_children` that fails under a
live session leaves a string vector that looks empty, and a controller then takes a full
group for an empty one.

### Replication

Node *n*'s value is the number of the operation that wrote it.  `store` and
`linked` are a server's address space: which nodes it has, and which of them their
parent refers to; a browse from the root, by which the code looks for a node's parent,
needs the links.  A pack (`Pack`) is the JSON of a znode: the value, and whether
the pack names the parent.

On main, `Write` (a client's, or the application's `UA_Server_write`), `AddNode` and
`DeleteNode` accept a request and do its local part; then the calls of
`zkUA_UA_Server_replicateNode` follow one by one: `ReplicateNode` (zoo_exists), `Set` or
`Create` and `Stat`, and `Record` in the table.  What is pushed is read from the store once
more (`ReadBack`), by reads that ask ZooKeeper first: one that is not answered leaves the pack
without a class or a value, unless `AvailabilityPriority` is set.  On the completion thread
`Deliver` takes the next event; `Get`, `Check`, `Decode` are
`zkUA_jsonDecode_zkNode`, and `AddGet`, `AddCheck` what the intercepted add does
after its local part, on either thread; `Replace` and `Readd` are the second half
of `zkNodeToUa`.

A server starts with `Start`, the list that tells whether ZooKeeper holds anything
(`addressSpaceExists`), and `NewServer`, in which the stack's own nodes get to ZooKeeper
(`ns0` says that some have) and `zoo_aget_children` is sent.  Its completion
(`DeliverStart`, `zkUA_checkAddressSpaceExists`) asks for the list with a watch, or makes the
completion thread add the nodeset, node by node, through the interceptor (`CreateNodeset`,
`AddFromNodeset`), and then asks for it.  `Restart` kills a server and starts it again with an empty
store.  `Opening` says how a group begins: running, or with some servers starting, on
what ZooKeeper holds, and how many requests, kills and restarts are to come.

Modelling decisions a reader should know:

- The store has no lock in the build that `Makefile.am` describes, so a thread
  that reads it while the other writes has undefined behaviour.  The model takes each local
  operation (add, delete, write, the reads of one read-back) as one step, and
  interleaves these steps and the calls on ZooKeeper.
- `nodeMzxid` is a map here.  That is what the hashtable is until it grows from 53
  to 97 buckets, with its 35th entry; `MzxidTable` has what comes then.
- After the double free of `AddCheck` the process may die or go on; both happen.
- `zoo_aget_children` is answered when it is sent; its completion is queued behind the
  events before it, as the client library orders them.
- The session of a *server* does not expire under a running process.
- Nodes of namespace 0 are there as one flag, `ns0`: a server that starts finds its address space
  on ZooKeeper if any znode is there, the stack's own among them.  Ids are ordered as
  `nodeIdCmp` orders them.
- The first list that fails ends `main`, and with it the process; so `Start` that loses its reply
  is the end of the server.
- The loser of a `zoo_create` (`Create`) is not told: it goes on to `Stat`, which reads the mzxid of
  whatever is there, and records it over its own value.
- The group's own node (1, 30000) and the activation method, which every server adds for
  itself, are left out.

`Replica` promises of a server without writers that it shows of a node nothing, or the value of a version that it fetched
from ZooKeeper and recorded, that each version recorded is newer than the one before (until it restarts, with nothing), and that it
pushes a node only while it has recorded none of it (which happens when it creates the nodeset).  Fetching a version,
recording it and showing it are steps between which others publish newer ones.  It promises neither
that the copy is up to date when the server rests, which is `PassiveConverges`, nor that it ever will be, which is `PassiveCatchesUp`,
nor that it is complete, which a [child met before its parent](#where-the-code-and-its-comments-disagree) may prevent; and it knows no
deletions, after which a copier may create a znode again.

### Browse

`stack` holds the callbacks under way, one for each node being browsed, with the references
that are left; a step is one callback.  `LocateParent`, `CheckChildOfNS0` and
`UAServerAddressSpace` begin a search, each with what the code resets and no
more: the first zeroes its array but not its counter, the second neither, the client both.
`Skip` is the early returns, `Descend...` the recursion.  An address space is any set of references;
identifiers are numbers, and two nodes of different namespaces may have the same one, because
the arrays hold no namespaces.  The client's browse may die with a failed
browse (`BrowseFails`), list nothing (`ListFails`), or be run again.  What it asks for a node of (`Push`) may fail, for
any of the znodes that are not there yet: the code prints it, marks the node as visited and browses it all the same, and so
does the model; `unpushed` remembers such nodes for the property.

### Codec

A request is the attributes a node is added with, a pack the JSON values made of them.  Values
are kept apart only as far as some conversion does: 64-bit integers wrap
at `Half`, a text is plain, holds a NUL, is not
UTF-8, or is the `(null)` that `snprintf` makes of a null pointer.  Reals are any finite set of numbers, `Floats` among
`Doubles`, counted in units of which `One` make 1.  `json_unpack` writes a double into a `long long`, which is then taken for a
number: `Bits` is that number (the bits of doubles that are not negative are ordered as they are, so it is the double's place among
these, and the sign takes it below zero), and `Misread` the float or double nearest to it.  The next passage does the same to what this one left.  `Encode` is
`zkUA_jsonEncodeAttributes`, `Decode` `zkUA_jsonDecode_zkNodeToUa`, `Created` and `Fits` the checks of
open62541, `Replaced` what becomes of the node that was there.  What the code never
initialises is chosen from `Garbage`.  Servers push what they were asked to add (`AddNodesRequest`), or what they read
back from their copy (`WriteBack`); a client copies a server to ZooKeeper (`ClientCopies`); any
server may copy the last pack (`Copy`).

### MzxidTable

Chains of entries, the newest first; an insert of a key that is there is one more
entry; `Rehash` is `hashtable_expand`, which takes entries off the old chains head
first and puts each at the head of its new chain.  `EqualKeys` is TRUE: the
comparison of eight bytes always sees `/Servers`.  Only the hash tells
paths apart; that two paths of a group have different hashes is a condition of
`RecentIsLatest`, and was found to be so for the ids below eight digits.

## The runs

Nine runs pass:

- **FailoverWarm** - two warm controllers, a restart, a lost reply.  `MonitorHoldsLock`:
  a thread works on the server only under the lock of its own run, or after an expiry;
  neither the znode of a former run nor a lost reply puts it there.
  `QuiescentIsCovered`: a controller that sleeps has not missed an activation; what keeps
  it true is that a list sets its watch and is judged after it.
- **FailoverOne** - a single cold controller under every kind of failure at once, which
  two together would make too many.  `NoDoubleMonitor`: its two threads are never both past
  the lock, although they evaluate concurrently.  `NeverThreeStrikes`: the shutdown after
  three failed reads in a row is dead code in the modes that take a lock.
- **FailoverGroup** - a standalone and a cold controller, started before a server
  registers the group.  They implement `RedundancyGroup` (`ImplementsGroup`).
- **FailoverTakeover** - liveness, of a warm and a hot controller: if nobody is active
  and somebody stands by, somebody becomes active or the standbys end.  `QuiescentIsCovered`
  for the hot mode too.
- **ReplicationCopy** - two servers that start, on nothing, which both may fill while a client writes to one, or on a
  node to which a client of one of them adds a child and which it writes; in some of the openings either is killed and restarts.  `StartupAgrees`: servers that
  start together, both of which may find nothing and create the nodeset over
  each other, agree whenever they rest before the first request, killed and restarted or not; it rests on the
  sorted list (parents first), because an mzxid is recorded before its pack is decoded and is never
  tried twice.  `PassiveConverges`: a copying server that rests has recorded the last version of every znode, and
  has the value of every node it has, and of every one right below the folder, if the pack names a parent.  It rests on reads that set the watch
  in the step in which they read.  It speaks of every server without writers, one that created the nodeset included.  Such a server may
  have lost a `zoo_create`, and then keeps its own value of that node under the mzxid of the other's
  version until the znode changes again; `KeepsItsOwn` is that one exception, which the run meets (without it TLC finds both
  properties violated).  `CopyingNeverPushes`: the interceptor that all copies go
  through never takes a copy for a client's request.  `CopiesCurrent`: nor does what a server stores fall
  behind the mzxid it has recorded, at rest or not, with the same exception.  `PassiveCatchesUp`, under fairness: it has, in the end,
  recorded the last mzxid of every znode.  `ImplementsReplica`: on the way there it never goes back to an older
  version, nor shows one that it did not record.  `NeverDeaf`: no znode, and no list,
  that is neither watched nor about to be read with a watch.
- **ReplicationRest** - adds, writes and deletes, and starts, with a lost reply.  `ComesToRest`: when requests
  stop, copying stops; `NeverDeaf` again, with deletes, up to the loss.
- **Browse** - every address space of four nodes.  `DepthIsBounded`: circles do not make the
  recursion endless, though the slots of a second search begin where those of the first end.
  `ParentIsFound`, `ServerSubtreeIsRecognised`: what the searches of a server answer,
  and when; the second is sure only of what no earlier search has met.  `ArraysLast`: how many
  searches an array survives.  `ClientCopiesAll`: a client that returns has copied every node but those whose
  own push failed in this run, and no others, also if an earlier run crashed half way.
- **Codec** - a node of every class with every text in turn, and variables with every type of value.
  `AttributesSurvive` and `ValuesSurvive`: what arrives unchanged; `CopiesAgree`: a copy of a
  copy is the copy, but for the numbers in a Float or Double, of which each passage makes another one, and for bytes
  that nothing initialised; `NodesReachEveryServer`: which nodes arrive; `ReplacementKeepsNode`: a pack
  the store refuses does not cost a server the node it has.
- **Mzxid** - `WellPlaced` and `RecentIsLatest`: a search finds the last mzxid of every
  path inserted since the table last grew.

Each property has its mutant (the definitions marked *Mutant* in the modules): a plausible bug
under which TLC finds that property violated.

Three runs are violated, each a disagreement described
[below](#where-the-code-and-its-comments-disagree): **FailoverTwoActive**,
**ReplicationFlag**, **ReplicationGhost**.

Deadlock is not checked in any run: a controller sleeps in its last loop, a server
at rest waits for requests, and the budgets of requests and failures run out.  What must not
stop is stated by `Takeover`, `ComesToRest`, `PassiveCatchesUp` and `QuiescentIsCovered`.

## Bounds

- *Two controllers, two servers.*  A controller acts on its own znode, its own
  server and the set of children; a third one adds nothing that a run of
  the second, after a restart, does not.  The theorems hold for every number.
- *One controller* in FailoverOne: the properties are about the threads of one process,
  and other controllers reach it only through the children of Active and their events;
  the theorems say the same for any number.
- *Budget* (Failover): two or three starts, one expiry, SIGINT, lost reply or change of a
  server.  Three starts are both controllers and a restart of one.
- *MaxConnect*: one or two attempts instead of ten; an attempt changes
  nothing but its counter.
- *Opening*: two operations, because the second change meets the copy or the echo of the
  first.  Where servers start on a node that ZooKeeper has, two operations and no kill, or one and a kill
  and restart; where they start on nothing, one operation and no kill, or a kill and no operation.  With a lost reply
  (ReplicationRest), two operations on a running, empty group, where the second may write or delete what the first added, and
  one on a group that has a node, running or starting.  A client that adds a child to a server
  that has not got its parent yet is refused by the store and pushed all the same; the
  child's znode is then older than its parent's, and a passive server that meets it first leaves it out for ever.
  With the two operations of the instance that does not come about (three
  on a chain of three nodes show it), and `PassiveConverges` says nothing of a child the server has not got; the disagreements name it.
- *Parent*: one node, or a node and its child, the smallest space in which the order of
  copying matters; the *Nodeset* is the first node, so that a client can add to it.
- *MaxZxid* 8 is never reached in the passing runs (checked: no state has zxid 8);
  *AvailabilityPriority* is FALSE in ReplicationRest, where a reply is lost, and TRUE elsewhere;
  *MaxLosses* is 1 or 0; *Garbage* is a value no znode ever has.
- *Browse*: the root, the Server node and two more nodes, between any two of which there is no
  reference, a hierarchical one or another; to keep the instance small, those from the root and back to the Server node
  are hierarchical or absent (those that the search for a parent passes over, and the other browses follow, are the
  rest).  Identifiers all different, or two alike.
  *Capacity* 5 instead of 3000 (300): more than one search takes, fewer than two may; *MaxSearches* 2.
- *Codec*: *Half* 4 for 2^63; reals in quarters (*One* 4) with three bits of exponent, and one more bit for a double and none for a
  float, a small IEEE 754 in which 1 becomes 4, 4 becomes 8, and 8 the bits 10, to which 8 is the nearest; *Garbage* 0 and 3;
  *MaxVersion* 2, which is a copy of a copy; three servers, of which two are symmetric; 2067 requests.
  The theorems have none of these bounds; they assume
  of the requests that they are typed, and that only variables and their types have values (`IsRequest`), as the types of the
  stack's attributes have it.
- *MzxidTable*: sizes 2, 3, 5, 7 instead of 53, 97, 193...; seven inserts of three paths
  let it grow three times.

## Fairness

`Failover!Fairness`: weak fairness for each thread of a running process
(the scheduler), for queued events (ZooKeeper delivers them in order), and for the
expiry of sessions whose process is gone (its timeout).  None for starts, kills,
signals, servers, nor for the connection to come about: an attempt that fails
repeatedly ends the process.  A read of a server that is up is not bound to fail, so
`ReadFails` is fair only for one that is down.

`Replication!Fairness`: weak fairness for the main thread's steps when it starts and once a request is
accepted, and for the completion thread, to which events are delivered while it is idle.  None for requests
and restarts, of which there are finitely many (`Opening`).

## Proofs

**`FailoverProofs`** proves for every finite or infinite set of controllers, every assignment of
modes, every `RetvalGarbage`, `MaxConnect` and `Budget` that satisfy `ConstantsOK`:

| Theorem | Statement |
|---|---|
| `TypeCorrect` | `Spec => []TypeOK` |
| `LockGuardsMonitor` | `Spec => []MonitorHoldsLock` |
| `OneThreadMonitors` | `Spec => []NoDoubleMonitor` |
| `ThreeStrikesUnreachable` | `Spec => []NeverThreeStrikes` |
| `NoActivationMissed` | `Spec => []QuiescentIsCovered` |

None of the properties is inductive.  `MonitorHoldsLock` says nothing of a thread
that is about to create the znode, and nothing of the other one: that
both are not past the lock follows because the second would need a free lock
while the first, with a live session, holds it; that no third read fails follows
because a thread leaves the monitor with the first and the controller, which keeps
its znode as long as its session lives, never enters it again.  So the invariant is
`IInv == TypeOK /\ \A c : Mode[c] # 0 => OneTenure(c)`, where `OneTenure`
adds: a thread is past the lock only in a run that has not failed a read yet, the
count is 0 or 1, and a count of 1 in a live session means the lock is still
held.  Standalone controllers are excluded because they ignore the result of their create.
`NextIInv` is proved action by action; a step of another controller is a
frame lemma.

`QuiescentIsCovered` speaks of the moment when nothing is left to do, so its invariant `QInv` has to say what is left
before: while no reply is lost and the group is registered, a controller with a live session whose main
thread has listed the active nodes is owed an event, or has its watch set and is covered by a znode, or by one of its threads
that is about to take the lock (`Awake`).  A znode goes away only with an event to every watch, and a list
sets the watch in the step in which it reads; what is left is that a thread which found itself not covered
goes on to the lock.  `PathsOK` says which paths exist by then, without which a list would fail
and set no watch.

**`FailoverRefinement`** proves, under the hypothesis that no reply is lost
(`Budget["loss"] = 0`), that `Failover` implements `RedundancyGroup`:
`ImplementsIfAnswered == ASSUME Budget["loss"] = 0 PROVE Spec => ImplementsGroup`.  The mapping of
states is that of `Failover`: a node is a member while its znode exists, and "cleared" while one of
its threads has seen an empty list and not acted on it.  The invariant `RInv` has what the mapping needs besides the types:
both threads of a process end together, the lock of a run is held in its session, a controller
evaluates with its own mode or none, and a znode under Active has a parent (so that a list that
fails because Active does not exist tells the truth).  The step of one controller is one of
seven moves of its node (`Move`), or none (`Idle`), and those of all others stay (`OthersStay`);
`MoveIsStep` turns that into a step of `RedundancyGroup`.  Without the hypothesis it is false, and TLC shows it:
a list that fails under a live session reads as an empty group.

**`ReplicationProofs`** proves for any servers, any tree of nodes with a greatest one, any opening, kinds of
request, garbage and budgets that satisfy `ConstantsOK`, with deletes, lost replies, kills and restarts:

| Theorem | Statement |
|---|---|
| `TypesKept` | `Spec => []TypeOK` |
| `NoChangeMissed` | `Spec => []NeverDeaf` |

Neither is inductive.  To stay within its type a server needs that a thread that has
a node to work on has one of the tree (`HandOK`), that only the completion thread copies or
creates, and that an event of a change names a node.  `NeverDeaf` needs, besides, that nobody watches a
znode that is not there, that an idle completion thread has no listed node left to read, and that one that
creates the nodeset copies nothing.  `Hears(s)` is `NeverDeaf` for one server; a step of another
server can only turn a watch of *s* into an event of *s* (`Notify`), a step of *s* itself takes an event off the
queue only to read what it names.

**`CopyingProofs`** proves, under the hypotheses that nobody deletes (`"delete" \notin Kind`) and ZooKeeper answers
(`MaxLosses = 0`):

| Theorem | Statement |
|---|---|
| `CopiesNeverPushed` | `Spec => []CopyingNeverPushes` |

The property says nothing of the steps before a push.  The invariant `CInv` adds that the table of a server
without writers is never ahead of ZooKeeper, that the mzxids its thread holds are no newer than the znode's, that a node it copies is
on ZooKeeper, and that what it compares with is at least as new as its table; znodes only get newer
(`Grows`), so the steps of others disturb none of this.  Both hypotheses are needed: a znode deleted between the
two reads of a copy is created again, and a `zoo_get` that fails after a `zoo_create` leaves an mzxid of the
stack in the table.

The module also proves `StartersAgree == Spec => []StartupAgrees`, without hypotheses: that no request was
made (`made = 0`) and every call was answered (`losses = MaxLosses`, nothing of the budget spent) are conditions of the property, so the
invariant is `SInv == Opened => AllOK`.  Before the first request every value is that of the nodeset, and servers can
differ only in which nodes they have.  `AllOK` says that every znode is whole and has the znode of its parent, and of each server:

- it stores a node only if it stores the parent, or is about to (`Rooted`, `Sure`);
- whatever is in its table, watched by it or named in an event of its queue it stores, or will when its
  thread is done with the copy at hand (`Behind`, `Heard`);
- a listed node has its parent stored, about to be, or on the same list (`Listing`), and the list is taken from its least node on,
  which is why a decode never meets a node without its parent: no copy fails for good;
- if it found nothing it has yet to add the nodeset, is at it, or all of it is on ZooKeeper (`FoundOK`,
  `Planting`).

At rest nothing is about to be, so by `NoChangeMissed`'s `IInv` (`Hears`: who rests watches every znode) each server stores every
znode.  The steps of others only make znodes newer (`CoreAhead`) or turn a watch into an event, and `QuietOK`
and the lemmas of each action do the rest.  A request ends the argument rightly: a client's add pushed through a server that
lacks the parent makes a child whose znode is there before its parent's, and the next server to list them may meet the child without the parent.

**`ReplicaRefinement`** proves under the same hypotheses that `Replication` implements `Replica`:
`CopiesImplement == ASSUME "delete" \notin Kind, MaxLosses = 0 PROVE Spec => ImplementsReplica`.  The mapping, in
`Replication`, takes the znodes, the tables and the stores of the readers as they are, and reads the job of a
reader from the place of its completion thread (`TaskOf`).  `RInv` adds to `IInv` and `CInv` what the mapping needs: nobody is told
of a deletion; a server whose first list has not come watches nothing and has recorded nothing (`StartOK`); the
nodes of the nodeset that a server has still to add are not in its table (`FreshOK`).  Every
step of a reader is one of nine moves of its copy (`Stays`, `Fetches`, `Records`, `Shows`, `Drops`, `Originates`, `Pushes`, `RecordsPushed`,
`Restarts`), every step of another server at most publishes a newer version; `DoesIsStep` and `PartsIsStep` turn
these into steps of `Replica`.

Under the same hypotheses `CopiesUpToDate` proves `Spec => []CopiesCurrent`.  An mzxid is recorded before its pack is
decoded, so a decode that fails would leave the store behind the table for ever.  The invariant `FInv` says why none does whose pack names
the folder, or a parent that is there: for every reader, what its thread holds is what the mzxid stands for (`HeldOK`), a node is stored only
under a stored parent (`Whole`), and whatever is stored under the znode's mzxid has its value, but for the node
at work (`Latest`), or that of the server's own nodeset, if the server found none (`OwnNodes`).  A server that starts has nothing
stored (`Empty`), which is why a restart needs no case of its own; and one that creates the nodeset is `Building`: it stores nodes of
that set and no others, and has recorded none that it has not added (`Built`).

And `PassiveCopiesConverge` proves `Spec => []PassiveConverges`: that at rest this version is the last one.  Nothing compares
a copy with ZooKeeper but a read, and nothing causes a read but an event, so the invariant `WInv` follows the watch.  `SeenOK`
says: a reader that watches a znode and has nothing of it left to read (`ToRead`, which is a place on the list, an event
in the queue or a read under way) nor its last version in hand, about to be compared with the table (`InHand`), has recorded
that last version.  A publication leaves `SeenOK` alone because it takes every
watch of the znode and makes each an event (`PublishedSees`); a read sets the watch in the step in which it
reads (`GetSees`); the first read of an add, which sets a watch and takes no
pack, is followed by a second (`AddGetSees`); the comparison with the table records what is in hand, or finds it recorded (`CheckSees`).  At rest there is
no event and nothing in hand, and by `NoChangeMissed` every znode is watched, so `SeenOK` gives the last version and `FInv` its
value (`RestConverges`).  A server that has yet to ask for the list may watch what it
pushed and have recorded another version; the list brings it to every node again (`Watchful`).  A restart begins anew with no watch.

Both hypotheses are needed, and TLC shows why.  A znode deleted between the two reads of a copier is created again by it, its
own mzxid recorded; the event of the deletion, which is still queued, then removes the node, and the table says that it is
up to date.  A read whose reply is lost is never tried again.

**`BrowseProofs`** proves for any finite set of nodes, any references between them, any numbering, `Capacity` and `MaxSearches`:

| Theorem | Statement |
|---|---|
| `TypesKept` | `Spec => []TypeOK` |
| `DepthBounded` | `Spec => []DepthIsBounded` |
| `ParentFound` | `Spec => []ParentIsFound` |
| `SubtreeRecognised` | `Spec => []ServerSubtreeIsRecognised` |
| `ArraysSuffice` | `Spec => []ArraysLast` |
| `ClientCopied` | `Spec => []ClientCopiesAll` |

`Types` has the frames of the stack within the references of their nodes.  `StackOK` is the path: each frame was entered through
the reference its predecessor is at, and the identifiers of all but the first are in the array and different, which bounds
the depth.  What a search answers takes two halves.  That it finds nothing else is `SearchWithin`: *every* set that is closed
under the references from the origin contains the stack and the array's new entries.  That it leaves nothing out
is `Complete`: every reference that had its callback, of a node on the stack or of one that is done, is settled, that is,
its target is in the array or does not count.  The properties speak of `Reached`, a recursive function; that it is closed, and the least
closed set, joins the halves (`Walk`).  A client has a node settled when it is on ZooKeeper or its push has failed (`Handled`).  `CountOK` counts the slots: a search uses at most one for each identifier within reach.

**`CodecProofs`** proves for any servers, requests, widths, garbage and number of pushes:

| Theorem | Statement |
|---|---|
| `AttributesCarried` | `Spec => []AttributesSurvive` |
| `ReplacementSafe` | `Spec => ReplacementKeepsNode` |
| `TypesKept` | `Spec => []TypeOK` |
| `ValuesArrive` | `Spec => []ValuesSurvive` |
| `CopiesAlwaysAgree` | `Spec => []CopiesAgree` |
| `NodesReach` | `Spec => []NodesReachEveryServer` |

`AttributesSurvive` is not inductive because it says nothing of the pack in between.  `Inv` adds that a pack,
whoever pushed it, encodes the attributes of the request or those of a copy of it (`PackKept`),
and that every node a server holds is such a copy (`NodeKept`).  The lemma `TextOnce` carries the argument:
spoiling a text twice is spoiling it once; `FlagFormat` says which flags are written in the form
they are read in.

The values need an invariant of their own, `ValueInv`: the pack encodes the request, what the first server's store made of
it, or a copy (`PackFrom`); every node is the first server's or a copy of the request (`NodesOK`); and whoever has seen the last pack of
a node that can be copied lives and has it (`Holders`).  It stands on one fact about the conversion, which is not the identity:
`PassedOnce`, that a value read back from JSON passes through JSON unchanged, whatever the first passage made of it.
`DatumOnce` has it for one datum, width by width, `ArrayOnce` for an array.  Reals are the exception: a passage makes
another number of each, which is a float or a double again (`BitsAreInt`, `Nearest`, `RealArrives`: there is a nearest one because
the doubles are finitely many), so of a value with reals it is only its type, length and dimensions that stay (`RealsPass`, and
`Blurred`, the value without its numbers, is what the invariant compares).  From
there on a copy of a copy is a copy (`CopyMade`), its store accepts it because it accepted the first (`CopyFits`), and so every
server that takes a pack has the node (`CopyTaken`).  `PortablePassed` says which values come through whole.

**`MzxidProofs`** proves for any paths, hash values, sizes of the table and number of inserts:

| Theorem | Statement |
|---|---|
| `TypesKept` | `Spec => []TypeOK` |
| `EntriesWellPlaced` | `Spec => []WellPlaced` |
| `LatestFound` | `Spec => []RecentIsLatest` |

`IInv` has `WellPlaced` and that `entrycount` is the number of entries, without which its decrement could leave
the naturals.  `LatestFound` rests on the order of a chain: an insert goes to the head, a search takes the first
match, and both keep to the chain of the hash.  What `Rehash` does to the chains is a recursion over the entries, in the order in which
`hashtable_expand` takes them.

*Induction over data.*  The induction theorems of the library take an operator, which the installed
provers do not instantiate.  `MzxidProofs`, `BrowseProofs` and `CodecProofs` use the least counterexample instead: a set of numbers that
holds 0 and with each number the next has no least number outside it, by `WFMin` (`Induction`, `FirstOf`);
`Solvable` turns that into the existence of a function defined by recursion on a number.

*Only model-checked.*  What holds under fairness (`Takeover`, `ComesToRest`, `PassiveCatchesUp`), which is beyond the prover.
Every other property of a passing run is a theorem, under the hypotheses named here.

## Where the code and its comments disagree

With a run:

1. *Two active nodes* (FailoverTwoActive).  The list and the create are two calls, and the
   name created is the controller's own.  "Only one active node is permitted at a time"
   (`cli_UA_failoverController.c:236`) is not so for two controllers that list first.
2. *Deletes that stay local* (ReplicationFlag).  `return` before `replicateNode = true`
   (`zk_intercept.c:59`): once a server has copied a deletion, or a change, its flag is cleared for good, and a client's delete of
   a node that ZooKeeper has goes to the local store alone.  The property speaks of the first step of such a delete, so that
   only the flag can violate it.
3. *Ghosts* (ReplicationGhost).  A node changed, then deleted before the change was read.

In the models, without a run of their own:

- Controllers.  A lock holder that has seen one failed or non-running read no longer monitors and
  keeps its lock, while the comment at `cli_UA_failoverController.c:442` has it "just doing nothing but
  monitoring the server".  A server that came up suspended is never activated by its controller.
  A list whose reply is lost leaves a controller without a watch for ever, and may make it take a
  full group for an empty one.
- Writers.  What is pushed is read back after the write, possibly after the echo of an earlier write
  replaced the node; the later write then never reaches ZooKeeper (`zk_intercept.c:643`: "always replicate to
  zk").  If ZooKeeper fails to answer while the node is read back, a pack without its class or its value
  replaces a good znode, where `zk_intercept.h:47-48` has ZooKeeper as "the only source of truth".  A writer's copy under way may find
  its table fresher, by a write that main has recorded meanwhile, and push the older pack over that write; and
  a writer's store may stay behind its table.  A request the local store refused is pushed all the same.  Two servers that add
  the same node end up with different values and the same mzxid (`zk_intercept.c:152-156`), two that create the nodeset likewise if a client
  writes in between, and a server without writers stays so until the znode changes again; a push that fails is reported as good.
  A write through another server takes write mask, browse name and user access level away.
- Copies.  A copying server re-creates a znode that was deleted between its two reads (which is why
  `CopyingNeverPushes` is checked without deletes); a node copied anew is cut off from its children;
  `nodeZkPath` is freed twice when the table is fresher than ZooKeeper; a server whose list is lost
  has no watch for ever.
- Orphans.  "Sort array of returned children so that we add the nodes in ascending order of
  node IDs" (`zk_serverReplicate.c:162`) puts parents first only if they are on the list.  A client adds a child through a server
  that lacks the parent: the store refuses it, and it is pushed all the same.  Another server meets the child, records its mzxid
  (line 246), cannot add it, and never tries again, also when the parent has come: "insert mzxid if successful, rollback mzxid
  if not" is still to be done (`zk_jsonDecode.c:1348`).
- Sessions.  A controller goes on monitoring after its session has expired (`MonitorHoldsLock` speaks of live sessions).
- Start.  A server killed between `UA_Server_new` and `UA_nodeset` leaves znodes of namespace 0 that
  every other server takes for the address space: the nodeset is never created (`StartupAgrees` is silent on that).
- Searches.  The array of the search below the Server node is never zeroed: a node behind one that an earlier
  search met is not recognised, which is more than the bound that the code speaks of (`zk_serverReplicate.c:253-257`).  The
  client's array has 300 entries where its comment says 10000 (`zk_clientReplicate.c:25-26`).
- Client.  "If push is successful -> this node has now been visited" (`zk_clientReplicate.c:499`): it is marked as visited
  whether or not the push was, and only another run tries it again.
- JSON.  Floats and doubles arrive as the bits of a double, read as an integer (1.0 as about 4.6e18), and what has arrived is
  misread in turn by the next server, so that a copy and a copy of a copy differ (4.6e18 becomes 4.9e18); a scalar
  UInt64 as an Int64; a matrix as an array whose dimensions the store does not accept under its rank;
  a variable with array dimensions kills the servers that copy it; one without a value loses
  data type and rank.  The user access level is read with a format that does not exist (`zk_jsonDecode.c:1165`); the
  event notifier of a view is never written (`zk_jsonEncode.c:838` compares with `OBJECT || VIEW`, which is 1).
- The table.  Growing reverses the entries of a key, so that the oldest mzxid is found (`recent` in
  `MzxidTable`).

## What is not modelled

Of some 48000 lines, 39000 are the vendored open62541, of which the project uses a server,
a client and their services as a library; the models have the parts of it that the code
relies on (browsing children, the checks of a new node, adding, deleting and linking).
The share of *all* lines that the models stand for is small for that reason;
of the project's own files it is most of the controller, of the interceptors, of
both directions of the JSON conversion, of both browses and of the table.

- `hashtable_itr.c` is called by nothing; `simple_parse.c` and most of `zk_cli.c` print or read a
  configuration once; `zk_urlEncode.c` shapes names; `nodeset.c` is an example nodeset, node after
  node; `zkUA_jsonDecode_rewriteNodeAttributes` is called nowhere.
- A client's read: `zkUA_Service_Read_single` asks ZooKeeper whether it is there, and reads
  nothing if it is not and `availabilityPriority` is not set.  It changes no state; the reads of a push,
  which pass it too, are in `ReadBack`.
- `zkUA_addNodeInternal`, through which the stack adds its own nodes of namespace 0 as a server
  starts, only as the flag `ns0`.  It frees `nodeZkPath` twice, hands the
  browse of the Server node a pointer to a pointer, so that its check is normally skipped, and
  its searches alone may overrun an array of 3000 before the server has started.
- Nodes with a string for an identifier: the client does not push them and browses whatever node the number in
  the union names (`zk_clientReplicate.c:506`); the servers' searches compare numbers too.
- Extension objects that are decoded already: the decoder tags them as XML and writes a pointer to their type over the type id.
  Infinities, NaN and the negative zero.
- The references in a pack, and the formats of node ids (an `"I"` into four bytes) and Guids; the
  description of structured types, which nothing decodes.
- The group's identifier, endpoint strings, the znodes under the type path that nothing reads; the
  wind-down of a server after SIGINT; the out-of-memory path of the table.
- Torn accesses to the store, which has no lock: each local operation is one step.
- Servers that start while a client is copying another server to ZooKeeper.

## Plan

Done: the controllers with their abstract specification and the proof that they implement it;
replication and the start of servers, with proofs and an abstract specification that it is proved to implement; the browses,
the JSON conversion and the table, each with proofs of every property they are checked for.
What is left:

1. Sessions of servers that expire under a running process.
