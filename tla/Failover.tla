------------------------------ MODULE Failover ------------------------------
(***************************************************************************)
(* The failover controllers of one redundancy group                        *)
(* (examples/cli_UA_failoverController.c).  Each UA server has a           *)
(* controller process with two threads: main runs init_UA_client, and the  *)
(* ZooKeeper completion thread runs zkUA_activeNodesWatcher.  Both call    *)
(* zkUA_zkEvaluateActiveNodes, which takes the controller's lock, an       *)
(* ephemeral child of .../Redundancy/Active named after its own server,    *)
(* connects to the server and monitors it.                                 *)
(*                                                                         *)
(* ZooKeeper is the part of it the controllers see: the group's paths, the *)
(* children of Active, one-shot watches, per-session queues of events and  *)
(* session expiry.  Budget bounds what the environment may do; MaxConnect  *)
(* is the 10 of zkUA_zkEvaluateActiveNodes.                                *)
(***************************************************************************)
EXTENDS Integers, FiniteSets

CONSTANTS
  Server,         \* the UA servers, and their controllers
  Mode,           \* rSupport of each configuration file: 0..5 or NoMode
  Junk,           \* what an unset String_vector may seem to hold
  GroupReady,     \* whether a UA server has made /Servers/<guid> already
  RetvalGarbage,  \* values of the unset pointer passed to clientConnectToServer
  MaxConnect,     \* attempts at connecting before exit(-1)
  Budget          \* bound: how often each kind of Event may happen

\* Starts of controllers, SIGINTs, sessions that expire under a running process,
\* ZooKeeper calls whose reply is lost, changes of a UA server's state.
Event == {"start", "interrupt", "expiry", "loss", "server"}

NoMode == -1      \* rSupport before it is set, or of an unknown redundancy type

ASSUME ConstantsOK ==
  /\ Mode \in [Server -> 0..5 \cup {NoMode}]
  /\ Junk \notin Server
  /\ GroupReady \in BOOLEAN
  /\ RetvalGarbage \subseteq {"null", "nonnull"}
  /\ MaxConnect \in Nat \ {0}
  /\ Budget \in [Event -> Nat]

Thread == {"main", "watcher"}

VARIABLES
  paths,       \* persistent znodes that exist: "group", "redundancy", "active"
  lock,        \* child of Active: "free", "mine" (this run's) or "old" (a former run's)
  session,     \* this run's ZooKeeper session: "live" or "over"
  childWatch,  \* controllers with a child watch armed on Active
  existsWatch, \* controllers with an exists watch armed on Active
  events,      \* watch events queued for each completion thread
  pc,          \* where each thread is
  seen,        \* the String_vector each thread evaluates
  attempts,    \* its attempts at connecting
  rSupport, stopMonitoring, failureCounter,  \* the globals of those names
  srv,         \* each UA server: "down", "running" or "suspended"
  budget       \* what is left of Budget

zkVars   == <<paths, lock, session, childWatch, existsWatch, events>>
locals   == <<seen, attempts>>
globals  == <<rSupport, stopMonitoring, failureCounter>>
vars     == <<zkVars, pc, locals, globals, srv, budget>>

-----------------------------------------------------------------------------
(* State formulae *)

Active      == {c \in Server : lock[c] # "free"}
Running(c)  == pc[c]["main"] # "gone"
Working     == {"activate", "connect", "monitor"}
Engaged(c, t) == pc[c][t] \in Working
Exclusive(c)  == Mode[c] \in 1..2

\* The completion thread has nothing to do and main only waits for it.
Quiescent(c) ==
  /\ session[c] = "live" /\ ~stopMonitoring[c]
  /\ pc[c]["main"] = "wait" /\ pc[c]["watcher"] = "idle" /\ events[c] = 0

\* Where a thread goes when zkUA_zkEvaluateActiveNodes returns.
Resting(t)   == IF t = "main" THEN "wait" ELSE "idle"
Goto(c, t, l) == pc' = [pc EXCEPT ![c][t] = l]
Return(c, t)  == Goto(c, t, Resting(t))

-----------------------------------------------------------------------------
(* ZooKeeper: one-shot watches, and how a call of controller c may end *)

\* The watches W are spent, an event each is queued; e are the queues before.
Notify(W, e) == events' = [d \in Server |-> IF d \in W THEN e[d] + 1 ELSE e[d]]

ChildrenChanged(W) == childWatch' = {} /\ Notify(W, events)

Spend(e) == budget[e] > 0 /\ budget' = [budget EXCEPT ![e] = @ - 1]

Answered(c) == session[c] = "live" /\ UNCHANGED budget

Unanswered(c) ==
  \/ session[c] = "over" /\ UNCHANGED budget
  \/ session[c] = "live" /\ Spend("loss")

\* Mutant: a sequence number makes every create succeed.
CanCreateSequential(c) == "active" \in paths

CanCreate(c) == "active" \in paths /\ lock[c] = "free"

\* c creates its ephemeral child of Active.
CreateActiveNode(c) ==
  /\ lock' = [lock EXCEPT ![c] = "mine"]
  /\ ChildrenChanged(childWatch)
  /\ UNCHANGED <<paths, session, existsWatch>>

-----------------------------------------------------------------------------
(* init_UA_client, on the main thread *)

\* zoo_create of .../Redundancy fails unless a server made the group's path.
CreateRedundancy(c) ==
  /\ pc[c]["main"] = "redundancy"
  /\ \/ /\ Answered(c)
        /\ paths' = IF "group" \in paths THEN paths \cup {"redundancy"} ELSE paths
     \/ Unanswered(c) /\ UNCHANGED paths
  /\ Goto(c, "main", "exists")
  /\ UNCHANGED <<lock, session, childWatch, existsWatch, events, locals, globals, srv>>

\* zoo_exists sets its watch whether or not Active exists, if it is answered.
ExistsActive(c) ==
  /\ pc[c]["main"] = "exists"
  /\ \/ /\ Answered(c)
        /\ existsWatch' = existsWatch \cup {c}
        /\ Goto(c, "main", IF "active" \in paths THEN "configure" ELSE "createActive")
     \/ /\ Unanswered(c)
        /\ Goto(c, "main", "configure")
        /\ UNCHANGED existsWatch
  /\ UNCHANGED <<paths, lock, session, childWatch, events, locals, globals, srv>>

\* The creation of Active fires every exists watch, the creator's own too.
CreateActive(c) ==
  /\ pc[c]["main"] = "createActive"
  /\ \/ /\ Answered(c) /\ "redundancy" \in paths /\ "active" \notin paths
        /\ paths' = paths \cup {"active"}
        /\ existsWatch' = {}
        /\ Notify(existsWatch, events)
     \/ /\ \/ Answered(c) /\ ("redundancy" \notin paths \/ "active" \in paths)
           \/ Unanswered(c)
        /\ UNCHANGED <<paths, existsWatch, events>>
  /\ Goto(c, "main", "configure")
  /\ UNCHANGED <<lock, session, childWatch, locals, globals, srv>>

\* rSupport is set only here, so a watcher that runs earlier evaluates NoMode.
\* The znodes under the redundancy type's path, created next, nothing reads.
Configure(c) ==
  /\ pc[c]["main"] = "configure"
  /\ rSupport' = [rSupport EXCEPT ![c] = Mode[c]]
  /\ Goto(c, "main", IF Mode[c] = 0 THEN "lockAlone" ELSE "list")
  /\ UNCHANGED <<zkVars, locals, stopMonitoring, failureCounter, srv, budget>>

\* Standalone: the result of the create is printed and otherwise ignored.
LockAlone(c) ==
  /\ pc[c]["main"] = "lockAlone"
  /\ \/ Answered(c) /\ CanCreate(c) /\ CreateActiveNode(c)
     \/ Answered(c) /\ ~CanCreate(c) /\ UNCHANGED zkVars
     \/ Unanswered(c) /\ UNCHANGED zkVars
  /\ Goto(c, "main", "connectAlone")
  /\ UNCHANGED <<locals, globals, srv>>

\* The unset pointer is tested as if it were the status of getEndpoints, so a
\* server that is up may be reached only if the pointer happens to be null.
Connects(c) == "null" \in RetvalGarbage /\ srv[c] # "down"

\* Standalone connects once; without a client of its own it monitors the one
\* the global holds, or returns from the monitor at once.
ConnectAlone(c) ==
  /\ pc[c]["main"] = "connectAlone"
  /\ \/ Connects(c) /\ Goto(c, "main", "monitor")
     \/ pc[c]["watcher"] = "monitor" /\ Goto(c, "main", "monitor")
     \/ Goto(c, "main", "wait")
  /\ UNCHANGED <<zkVars, locals, globals, srv, budget>>

\* The last loop of init_UA_client ends and main closes the handle, which
\* joins the completion thread first and ends the session.
Close(c) ==
  /\ pc[c]["main"] = "wait" /\ pc[c]["watcher"] = "idle"
  /\ stopMonitoring[c]
  /\ pc' = [pc EXCEPT ![c] = [t \in Thread |-> "gone"]]
  /\ session' = [session EXCEPT ![c] = "over"]
  /\ existsWatch' = existsWatch \ {c}
  /\ IF lock[c] = "mine"
       THEN /\ lock' = [lock EXCEPT ![c] = "free"]
            /\ childWatch' = {}
            /\ Notify(childWatch \ {c}, [events EXCEPT ![c] = 0])
       ELSE /\ childWatch' = childWatch \ {c}
            /\ events' = [events EXCEPT ![c] = 0]
            /\ UNCHANGED lock
  /\ UNCHANGED <<paths, locals, globals, srv, budget>>

-----------------------------------------------------------------------------
(* zkUA_zkEvaluateActiveNodes, on either thread *)

\* Mutant: zoo_get_children(.., 0, ..), the watch is not set again.
ListUnwatched(c, t) ==
  /\ pc[c][t] = "list"
  /\ \/ Answered(c) /\ "active" \in paths /\ seen' = [seen EXCEPT ![c][t] = Active]
     \/ /\ (Answered(c) /\ "active" \notin paths) \/ Unanswered(c)
        /\ seen' = [seen EXCEPT ![c][t] = {}]
  /\ Goto(c, t, "evaluate")
  /\ UNCHANGED <<zkVars, attempts, globals, srv>>

\* zoo_get_children sets the child watch only when it succeeds; when it fails,
\* its rc is not looked at and the String_vector on the stack is evaluated.
List(c, t) ==
  /\ pc[c][t] = "list"
  /\ \/ /\ Answered(c) /\ "active" \in paths
        /\ childWatch' = childWatch \cup {c}
        /\ seen' = [seen EXCEPT ![c][t] = Active]
     \/ /\ \/ Answered(c) /\ "active" \notin paths
           \/ Unanswered(c)
        /\ \E junk \in {{}, {Junk}} : seen' = [seen EXCEPT ![c][t] = junk]
        /\ UNCHANGED childWatch
  /\ Goto(c, t, "evaluate")
  /\ UNCHANGED <<paths, lock, session, existsWatch, events, attempts, globals, srv>>

\* Mutant: every mode looks for its own name only.
MayActivateUnlessSelf(c, names) == rSupport[c] # NoMode /\ c \notin names

\* Mutant: every mode wants the group to be empty.
MayActivateIfEmpty(c, names) == rSupport[c] # NoMode /\ names = {}

\* Modes 0-2 stop when anything is active, modes 3-5 when this controller is.
MayActivate(c, names) ==
  \/ rSupport[c] \in 0..2 /\ names = {}
  \/ rSupport[c] \in 3..5 /\ c \notin names

Evaluate(c, t) ==
  /\ pc[c][t] = "evaluate"
  /\ Goto(c, t, IF MayActivate(c, seen[c][t]) THEN "lock" ELSE Resting(t))
  /\ seen' = [seen EXCEPT ![c][t] = {}]
  /\ UNCHANGED <<zkVars, attempts, globals, srv, budget>>

\* Mutant: the result of the create is ignored, as in standalone mode.
GetLockUnchecked(c, t) ==
  /\ pc[c][t] = "lock"
  /\ Answered(c)
  /\ IF CanCreate(c) THEN CreateActiveNode(c) ELSE UNCHANGED zkVars
  /\ Goto(c, t, "connect")
  /\ UNCHANGED <<locals, globals, srv>>

\* zkUA_getActiveNodeLock; the name is the controller's own, so only its own
\* znode can be in the way.
GetLock(c, t) ==
  /\ pc[c][t] = "lock"
  /\ Answered(c) /\ CanCreate(c)
  /\ CreateActiveNode(c)
  /\ Goto(c, t, IF rSupport[c] = 1 THEN "activate" ELSE "connect")
  /\ UNCHANGED <<locals, globals, srv>>

\* Any rc # 0 returns, also when the create was done and its reply was lost.
MissLock(c, t) ==
  /\ pc[c][t] = "lock"
  /\ \/ Answered(c) /\ ~CanCreate(c) /\ UNCHANGED zkVars
     \/ Unanswered(c) /\ UNCHANGED zkVars
     \/ session[c] = "live" /\ Unanswered(c) /\ CanCreate(c) /\ CreateActiveNode(c)
  /\ Return(c, t)
  /\ UNCHANGED <<locals, globals, srv>>

\* Cold: popen of cli_mt_UA_server, which exits if its file says inactive.
ActivateCold(c, t) ==
  /\ pc[c][t] = "activate"
  /\ \/ srv' = [srv EXCEPT ![c] = IF @ = "down" THEN "running" ELSE @]
     \/ UNCHANGED srv
  /\ Goto(c, t, "connect")
  /\ UNCHANGED <<zkVars, locals, globals, budget>>

\* An attempt that succeeds, and one that returns the low half of a pointer
\* that is not null but looks like UA_STATUSCODE_GOOD, with no client.
Connect(c, t) ==
  /\ pc[c][t] = "connect"
  /\ \/ Connects(c) /\ Goto(c, t, "monitor")
     \/ "nonnull" \in RetvalGarbage /\ Return(c, t)
  /\ attempts' = [attempts EXCEPT ![c][t] = 0]
  /\ UNCHANGED <<zkVars, seen, globals, srv, budget>>

\* What is left of a controller process that ends without zookeeper_close: its
\* session, and with it its znode, until ZooKeeper expires the session.
Die(c) ==
  /\ pc' = [pc EXCEPT ![c] = [t \in Thread |-> "gone"]]
  /\ seen' = [seen EXCEPT ![c] = [t \in Thread |-> {}]]
  /\ attempts' = [attempts EXCEPT ![c] = [t \in Thread |-> 0]]
  /\ childWatch' = childWatch \ {c}
  /\ existsWatch' = existsWatch \ {c}
  /\ events' = [events EXCEPT ![c] = 0]
  /\ UNCHANGED <<paths, lock, session, globals, srv, budget>>

\* A failed attempt; the last one ends the process by exit(-1).
ConnectFails(c, t) ==
  /\ pc[c][t] = "connect"
  /\ IF attempts[c][t] + 1 < MaxConnect
       THEN /\ attempts' = [attempts EXCEPT ![c][t] = @ + 1]
            /\ UNCHANGED <<zkVars, pc, seen, globals, srv, budget>>
       ELSE Die(c)

\* zkUA_monitorServer returns on the first state that is not 0 (running).  A
\* read that fails counts; the third in a row stops the controller.
MonitorStopped(c, t) ==
  /\ pc[c][t] = "monitor" /\ stopMonitoring[c]
  /\ Return(c, t)
  /\ UNCHANGED <<zkVars, locals, globals, srv, budget>>

ReadRunning(c, t) ==
  /\ pc[c][t] = "monitor" /\ srv[c] = "running"
  /\ failureCounter' = [failureCounter EXCEPT ![c] = 0]
  /\ UNCHANGED <<zkVars, pc, locals, rSupport, stopMonitoring, srv, budget>>

ReadSuspended(c, t) ==
  /\ pc[c][t] = "monitor" /\ srv[c] = "suspended"
  /\ failureCounter' = [failureCounter EXCEPT ![c] = 0]
  /\ Return(c, t)
  /\ UNCHANGED <<zkVars, locals, rSupport, stopMonitoring, srv, budget>>

\* Mutant: the monitor goes on after a read that failed.
ReadFailsAndGoesOn(c, t) ==
  /\ pc[c][t] = "monitor"
  /\ failureCounter' = [failureCounter EXCEPT ![c] = @ + 1]
  /\ stopMonitoring' = [stopMonitoring EXCEPT ![c] = @ \/ failureCounter[c] + 1 = 3]
  /\ UNCHANGED <<zkVars, pc, locals, rSupport, srv, budget>>

ReadFails(c, t) ==
  /\ pc[c][t] = "monitor"
  /\ failureCounter' = [failureCounter EXCEPT ![c] = @ + 1]
  /\ stopMonitoring' = [stopMonitoring EXCEPT ![c] = @ \/ failureCounter[c] + 1 = 3]
  /\ Return(c, t)
  /\ UNCHANGED <<zkVars, locals, rSupport, srv, budget>>

-----------------------------------------------------------------------------
(* zkUA_activeNodesWatcher, on the completion thread *)

\* Mutant: the watcher does not test the path, so anything wakes it.
DispatchAnything(c) ==
  /\ pc[c]["watcher"] = "idle" /\ Running(c)
  /\ events' = [events EXCEPT ![c] = @ - 1]
  /\ Goto(c, "watcher", "list")
  /\ UNCHANGED <<paths, lock, session, childWatch, existsWatch, locals, globals,
                 srv, budget>>

\* Any event that names a path makes it list and evaluate; session events, an
\* expiry among them, are ignored.
Dispatch(c) ==
  /\ pc[c]["watcher"] = "idle" /\ events[c] > 0
  /\ events' = [events EXCEPT ![c] = @ - 1]
  /\ Goto(c, "watcher", "list")
  /\ UNCHANGED <<paths, lock, session, childWatch, existsWatch, locals, globals,
                 srv, budget>>

-----------------------------------------------------------------------------
(* The environment: processes, signals, sessions, UA servers *)

\* A znode that a former run left behind is not this run's.
Start(c) ==
  /\ ~Running(c) /\ Spend("start")
  /\ pc' = [pc EXCEPT ![c] = [t \in Thread |-> IF t = "main" THEN "redundancy" ELSE "idle"]]
  /\ session' = [session EXCEPT ![c] = "live"]
  /\ lock' = [lock EXCEPT ![c] = IF @ = "mine" THEN "old" ELSE @]
  /\ rSupport' = [rSupport EXCEPT ![c] = NoMode]
  /\ stopMonitoring' = [stopMonitoring EXCEPT ![c] = FALSE]
  /\ failureCounter' = [failureCounter EXCEPT ![c] = 0]
  /\ UNCHANGED <<paths, childWatch, existsWatch, events, locals, srv>>

Crash(c) == Running(c) /\ Die(c)

\* SIGINT: intHandler.
Interrupt(c) ==
  /\ Running(c) /\ ~stopMonitoring[c] /\ Spend("interrupt")
  /\ stopMonitoring' = [stopMonitoring EXCEPT ![c] = TRUE]
  /\ UNCHANGED <<zkVars, pc, locals, rSupport, failureCounter, srv>>

\* ZooKeeper expires the session of this run: its process ended, or it was cut
\* off for too long (bounded); that process goes on without knowing.
SessionExpires(c) ==
  /\ session[c] = "live"
  /\ IF Running(c) THEN Spend("expiry") ELSE UNCHANGED budget
  /\ session' = [session EXCEPT ![c] = "over"]
  /\ existsWatch' = existsWatch \ {c}
  /\ IF lock[c] = "mine"
       THEN /\ lock' = [lock EXCEPT ![c] = "free"]
            /\ childWatch' = {}
            /\ Notify(childWatch \ {c}, events)
       ELSE childWatch' = childWatch \ {c} /\ UNCHANGED <<lock, events>>
  /\ UNCHANGED <<paths, pc, locals, globals, srv>>

\* ZooKeeper expires the session that a former run of c left behind.
OldSessionExpires(c) ==
  /\ lock[c] = "old"
  /\ lock' = [lock EXCEPT ![c] = "free"]
  /\ ChildrenChanged(childWatch)
  /\ UNCHANGED <<paths, session, existsWatch, pc, locals, globals, srv, budget>>

\* A UA server registers the group: zkUA_initializeZkServAddSpacePath.
RegisterGroup ==
  /\ "group" \notin paths
  /\ paths' = paths \cup {"group"}
  /\ UNCHANGED <<lock, session, childWatch, existsWatch, events, pc, locals,
                 globals, srv, budget>>

ServerFails(c) ==
  /\ srv[c] # "down" /\ Spend("server")
  /\ srv' = [srv EXCEPT ![c] = "down"]
  /\ UNCHANGED <<zkVars, pc, locals, globals>>

\* A UA client calls the activation method, zkUA_activateServer.
CallActivation(c) ==
  /\ srv[c] # "down" /\ Spend("server")
  /\ \E state \in {"running", "suspended"} : srv' = [srv EXCEPT ![c] = state]
  /\ UNCHANGED <<zkVars, pc, locals, globals>>

-----------------------------------------------------------------------------
(* The specification *)

\* A cold server waits for its controller's popen; warm and hot ones may come
\* up suspended (init_UA_Server); the others run.
InitialServer(m) ==
  CASE m = 1 -> {"down"}
    [] m \in 2..3 -> {"running", "suspended"}
    [] OTHER -> {"running"}

Init ==
  /\ paths = IF GroupReady THEN {"group"} ELSE {}
  /\ lock = [c \in Server |-> "free"]
  /\ session = [c \in Server |-> "over"]
  /\ childWatch = {} /\ existsWatch = {}
  /\ events = [c \in Server |-> 0]
  /\ pc = [c \in Server |-> [t \in Thread |-> "gone"]]
  /\ seen = [c \in Server |-> [t \in Thread |-> {}]]
  /\ attempts = [c \in Server |-> [t \in Thread |-> 0]]
  /\ rSupport = [c \in Server |-> NoMode]
  /\ stopMonitoring = [c \in Server |-> FALSE]
  /\ failureCounter = [c \in Server |-> 0]
  /\ srv \in [Server -> {"down", "running", "suspended"}]
  /\ \A c \in Server : srv[c] \in InitialServer(Mode[c])
  /\ budget = Budget

MainStep(c) ==
  \/ CreateRedundancy(c) \/ ExistsActive(c) \/ CreateActive(c) \/ Configure(c)
  \/ LockAlone(c) \/ ConnectAlone(c) \/ Close(c)

EvaluateStep(c, t) ==
  \/ List(c, t) \/ Evaluate(c, t) \/ GetLock(c, t) \/ MissLock(c, t)
  \/ ActivateCold(c, t) \/ Connect(c, t) \/ ConnectFails(c, t)
  \/ MonitorStopped(c, t) \/ ReadRunning(c, t) \/ ReadSuspended(c, t) \/ ReadFails(c, t)

Environment(c) ==
  \/ Start(c) \/ Crash(c) \/ Interrupt(c) \/ SessionExpires(c) \/ OldSessionExpires(c)
  \/ ServerFails(c) \/ CallActivation(c)

Next ==
  \/ \E c \in Server :
       \/ MainStep(c)
       \/ \E t \in Thread : EvaluateStep(c, t)
       \/ Dispatch(c)
       \/ Environment(c)
  \/ RegisterGroup

Spec == Init /\ [][Next]_vars

\* Steps a scheduled thread is bound to take.  Nothing makes a read of a server
\* that is up fail, so ReadFails is among them only when the server is down.
BoundStep(c, t) ==
  \/ List(c, t) \/ Evaluate(c, t) \/ GetLock(c, t) \/ MissLock(c, t)
  \/ ActivateCold(c, t) \/ Connect(c, t) \/ ConnectFails(c, t)
  \/ MonitorStopped(c, t) \/ ReadSuspended(c, t)
  \/ srv[c] = "down" /\ ReadFails(c, t)

\* The threads of a process are scheduled, queued events are delivered, and
\* ZooKeeper does expire the session of a process that is gone.
Fairness ==
  \A c \in Server :
    /\ WF_vars(MainStep(c))
    /\ WF_vars(Dispatch(c))
    /\ \A t \in Thread : WF_vars(BoundStep(c, t))
    /\ WF_vars(~Running(c) /\ SessionExpires(c))
    /\ WF_vars(OldSessionExpires(c))

FairSpec == Spec /\ Fairness

-----------------------------------------------------------------------------
(* Properties *)

PC == {"gone", "redundancy", "exists", "createActive", "configure", "lockAlone",
       "connectAlone", "list", "evaluate", "lock", "wait", "idle"} \cup Working

\* Every variable stays within its type.
TypeOK ==
  /\ paths \subseteq {"group", "redundancy", "active"}
  /\ lock \in [Server -> {"free", "mine", "old"}]
  /\ session \in [Server -> {"live", "over"}]
  /\ childWatch \subseteq Server /\ existsWatch \subseteq Server
  /\ events \in [Server -> Nat]
  /\ pc \in [Server -> [Thread -> PC]]
  /\ seen \in [Server -> [Thread -> SUBSET (Server \cup {Junk})]]
  /\ attempts \in [Server -> [Thread -> 0..MaxConnect]]
  /\ rSupport \in [Server -> 0..5 \cup {NoMode}]
  /\ stopMonitoring \in [Server -> BOOLEAN]
  /\ failureCounter \in [Server -> Nat]
  /\ srv \in [Server -> {"down", "running", "suspended"}]
  /\ budget \in [Event -> Nat]

\* A thread that starts, connects to or monitors the server does so under the
\* lock of this very run, unless ZooKeeper has expired the session meanwhile:
\* neither a znode left by a former run nor a lost reply puts it there.
\* (zkUA_zkEvaluateActiveNodes; standalone ignores the result of its create.)
MonitorHoldsLock ==
  \A c \in Server, t \in Thread :
    Mode[c] # 0 /\ Engaged(c, t) /\ session[c] = "live" => lock[c] = "mine"

\* The two threads evaluate concurrently and share the global client, but they
\* are never both past the lock (whatever events, expiries and restarts do).
NoDoubleMonitor ==
  \A c \in Server :
    Mode[c] # 0 => ~(Engaged(c, "main") /\ Engaged(c, "watcher"))

\* A controller never counts three failed reads in a row: it monitors once in a
\* run and returns on the first bad read, so the shutdown zkUA_readValue makes
\* at failureCounter == 3 is never reached.
NeverThreeStrikes == \A c \in Server : Mode[c] # 0 => failureCounter[c] < 3

\* With the group registered and no reply lost so far, a controller with nothing
\* left to do has not missed an activation: in cold and warm mode some znode is
\* under Active, in the hot modes its own is.  It would otherwise sleep in the
\* last loop of init_UA_client for ever, its watch spent or its list stale.
QuiescentIsCovered ==
  GroupReady /\ budget["loss"] = Budget["loss"] =>
    \A c \in Server :
      Quiescent(c) =>
        /\ Exclusive(c) => Active # {}
        /\ Mode[c] \in 3..5 => c \in Active

\* Cold and warm groups have one active node at a time: "Only one active node
\* is permitted at a time", says zkUA_zkEvaluateActiveNodes.
AtMostOneActive ==
  (\A c \in Server : Exclusive(c)) => Cardinality(Active) <= 1

Standby == {c \in Server : Running(c) /\ session[c] = "live"
                             /\ ~stopMonitoring[c] /\ Mode[c] # NoMode}

\* When no znode is under Active and a controller with a live session stands by,
\* some controller becomes active, or every standby ends.
Takeover == (Active = {} /\ Standby # {}) ~> (Active # {} \/ Standby = {})

\* What the group of controllers promises (see RedundancyGroup).
Cleared(c) ==
  \E t \in Thread : pc[c][t] = "lock" \/ (pc[c][t] = "evaluate" /\ seen[c][t] = {})

PhaseOf(c) ==
  IF ~Running(c) \/ session[c] = "over" THEN "gone"
  ELSE IF lock[c] = "mine" THEN "in"
  ELSE IF Cleared(c) THEN "cleared" ELSE "out"

Phase == [c \in Server |-> PhaseOf(c)]

Group == INSTANCE RedundancyGroup WITH
  Node <- Server, ExclusiveNode <- {c \in Server : Exclusive(c)},
  member <- Active, phase <- Phase

\* Cold and warm controllers join a group they found empty; no controller gives
\* up its place before its session ends.
ImplementsGroup == Group!Spec

=============================================================================
