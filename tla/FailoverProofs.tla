--------------------------- MODULE FailoverProofs ---------------------------
(***************************************************************************)
(* What holds of Failover for every group, every mix of redundancy modes   *)
(* and every budget of failures: the types, and that a controller's two    *)
(* threads never get past the lock together, never without it while the    *)
(* session lives, and never fail three reads in a row; and, while no reply *)
(* is lost, that a controller at rest has not missed an activation.        *)
(***************************************************************************)
EXTENDS Failover, TLAPS

USE ConstantsOK DEF Thread, NoMode

LEMMA InitTypeOK == Init => TypeOK
  BY DEF Init, TypeOK, PC, Working, InitialServer, Event

\* The pieces the actions are made of keep their variables within their types.
LEMMA NotifyType ==
  ASSUME NEW W, NEW e \in [Server -> Nat], Notify(W, e)
  PROVE  events' \in [Server -> Nat]
  BY DEF Notify

LEMMA GotoType ==
  ASSUME TypeOK, NEW c \in Server, NEW t \in Thread, NEW l \in PC, Goto(c, t, l)
  PROVE  pc' \in [Server -> [Thread -> PC]]
  BY DEF TypeOK, Goto

LEMMA BudgetType ==
  ASSUME TypeOK, NEW e \in Event, Spend(e)
  PROVE  budget' \in [Event -> Nat]
<1>1. budget[e] - 1 \in Nat
  BY DEF TypeOK, Spend
<1> QED
  BY <1>1 DEF TypeOK, Spend

LEMMA SpendType ==
  ASSUME TypeOK, NEW c \in Server, Answered(c) \/ Unanswered(c)
  PROVE  budget' \in [Event -> Nat]
  BY BudgetType DEF TypeOK, Answered, Unanswered, Event

LEMMA MainStepTypeOK ==
  ASSUME TypeOK, NEW c \in Server, MainStep(c)
  PROVE  TypeOK'
<1> USE DEF PC, Working
<1>1. CASE CreateRedundancy(c)
  BY <1>1, GotoType, SpendType DEF TypeOK, CreateRedundancy, locals, globals
<1>2. CASE ExistsActive(c)
  BY <1>2, GotoType, SpendType DEF TypeOK, ExistsActive, locals, globals
<1>3. CASE CreateActive(c)
  BY <1>3, GotoType, SpendType, NotifyType DEF TypeOK, CreateActive, locals, globals
<1>4. CASE Configure(c)
  BY <1>4, GotoType DEF TypeOK, Configure, zkVars, locals
<1>5. CASE LockAlone(c)
  BY <1>5, GotoType, SpendType, NotifyType
  DEF TypeOK, LockAlone, CreateActiveNode, ChildrenChanged, zkVars, locals, globals
<1>6. CASE ConnectAlone(c)
  BY <1>6, GotoType DEF TypeOK, ConnectAlone, zkVars, locals, globals
<1>7. CASE Close(c)
  <2>1. pc' \in [Server -> [Thread -> PC]]
    BY <1>7 DEF Close, TypeOK
  <2>2. events' \in [Server -> Nat]
    <3>1. [events EXCEPT ![c] = 0] \in [Server -> Nat]
      BY DEF TypeOK
    <3> QED
      BY <1>7, <3>1, NotifyType DEF Close
  <2> QED
    BY <1>7, <2>1, <2>2 DEF TypeOK, Close, locals, globals
<1> QED BY <1>1, <1>2, <1>3, <1>4, <1>5, <1>6, <1>7 DEF MainStep

LEMMA DieType ==
  ASSUME TypeOK, NEW c \in Server, Die(c)
  PROVE  TypeOK'
  BY DEF TypeOK, Die, PC, Working, globals

LEMMA EvaluateStepTypeOK ==
  ASSUME TypeOK, NEW c \in Server, NEW t \in Thread, EvaluateStep(c, t)
  PROVE  TypeOK'
<1> USE DEF PC, Working, Resting, Return
<1>1. CASE List(c, t)
  <2>1. pc' \in [Server -> [Thread -> PC]] /\ budget' \in [Event -> Nat]
    BY <1>1, GotoType, SpendType DEF List
  <2>2. PICK names \in SUBSET (Server \cup {Junk}) : seen' = [seen EXCEPT ![c][t] = names]
    BY <1>1 DEF List, Active
  <2>3. seen' \in [Server -> [Thread -> SUBSET (Server \cup {Junk})]]
    BY <2>2 DEF TypeOK
  <2>4. childWatch' \subseteq Server
    BY <1>1 DEF List, TypeOK
  <2> QED
    BY <1>1, <2>1, <2>3, <2>4 DEF TypeOK, List, globals
<1>2. CASE Evaluate(c, t)
  BY <1>2, GotoType DEF TypeOK, Evaluate, zkVars, globals
<1>3. CASE GetLock(c, t)
  BY <1>3, GotoType, SpendType, NotifyType
  DEF TypeOK, GetLock, CreateActiveNode, ChildrenChanged, locals, globals
<1>4. CASE MissLock(c, t)
  <2>1. pc' \in [Server -> [Thread -> PC]] /\ budget' \in [Event -> Nat]
    BY <1>4, GotoType, SpendType DEF MissLock
  <2>2. CASE UNCHANGED zkVars
    BY <1>4, <2>1, <2>2 DEF TypeOK, MissLock, zkVars, locals, globals
  <2>3. CASE CreateActiveNode(c)
    BY <1>4, <2>1, <2>3, NotifyType
    DEF TypeOK, MissLock, CreateActiveNode, ChildrenChanged, locals, globals
  <2> QED
    BY <1>4, <2>2, <2>3 DEF MissLock
<1>5. CASE ActivateCold(c, t)
  BY <1>5, GotoType DEF TypeOK, ActivateCold, zkVars, locals, globals
<1>6. CASE Connect(c, t)
  BY <1>6, GotoType DEF TypeOK, Connect, zkVars, globals
<1>7. CASE ConnectFails(c, t)
  <2>1. CASE attempts[c][t] + 1 < MaxConnect
    <3>1. attempts[c][t] + 1 \in 0..MaxConnect
      BY <2>1 DEF TypeOK
    <3>2. attempts' = [attempts EXCEPT ![c][t] = attempts[c][t] + 1]
      BY <1>7, <2>1 DEF ConnectFails
    <3>3. attempts' \in [Server -> [Thread -> 0..MaxConnect]]
      BY <3>1, <3>2 DEF TypeOK
    <3> QED
      BY <1>7, <2>1, <3>3 DEF TypeOK, ConnectFails, zkVars, globals
  <2>2. CASE ~(attempts[c][t] + 1 < MaxConnect)
    BY <1>7, <2>2, DieType DEF ConnectFails
  <2> QED
    BY <2>1, <2>2
<1>8. CASE MonitorStopped(c, t)
  BY <1>8, GotoType DEF TypeOK, MonitorStopped, zkVars, locals, globals
<1>9. CASE ReadRunning(c, t)
  BY <1>9 DEF TypeOK, ReadRunning, zkVars, locals
<1>10. CASE ReadSuspended(c, t)
  BY <1>10, GotoType DEF TypeOK, ReadSuspended, zkVars, locals
<1>11. CASE ReadFails(c, t)
  BY <1>11, GotoType DEF TypeOK, ReadFails, zkVars, locals
<1> QED
  BY <1>1, <1>2, <1>3, <1>4, <1>5, <1>6, <1>7, <1>8, <1>9, <1>10, <1>11 DEF EvaluateStep

LEMMA EnvironmentTypeOK ==
  ASSUME TypeOK, NEW c \in Server, Environment(c)
  PROVE  TypeOK'
<1> USE DEF PC, Working
<1>1. CASE Start(c)
  BY <1>1 DEF TypeOK, Start, Spend, Event, locals
<1>2. CASE Crash(c)
  BY <1>2, DieType DEF Crash
<1>3. CASE Interrupt(c)
  BY <1>3 DEF TypeOK, Interrupt, Spend, Event, zkVars, locals
<1>4. CASE SessionExpires(c)
  <2>1. budget' \in [Event -> Nat]
    <3>1. CASE Running(c)
      BY <1>4, <3>1, BudgetType DEF SessionExpires, Event
    <3>2. CASE ~Running(c)
      BY <1>4, <3>2 DEF TypeOK, SessionExpires
    <3> QED
      BY <3>1, <3>2
  <2>2. events' \in [Server -> Nat]
    BY <1>4, NotifyType DEF TypeOK, SessionExpires
  <2>3. lock' \in [Server -> {"free", "mine", "old"}] /\ childWatch' \subseteq Server
    BY <1>4 DEF TypeOK, SessionExpires
  <2> QED
    BY <1>4, <2>1, <2>2, <2>3 DEF TypeOK, SessionExpires, locals, globals
<1>5. CASE OldSessionExpires(c)
  BY <1>5, NotifyType DEF TypeOK, OldSessionExpires, ChildrenChanged, locals, globals
<1>6. CASE ServerFails(c)
  BY <1>6 DEF TypeOK, ServerFails, Spend, Event, zkVars, locals, globals
<1>7. CASE CallActivation(c)
  BY <1>7 DEF TypeOK, CallActivation, Spend, Event, zkVars, locals, globals
<1> QED
  BY <1>1, <1>2, <1>3, <1>4, <1>5, <1>6, <1>7 DEF Environment

LEMMA NextTypeOK == TypeOK /\ [Next]_vars => TypeOK'
<1> SUFFICES ASSUME TypeOK, [Next]_vars PROVE TypeOK'
  OBVIOUS
<1>1. ASSUME NEW c \in Server, MainStep(c) PROVE TypeOK'
  BY <1>1, MainStepTypeOK
<1>2. ASSUME NEW c \in Server, NEW t \in Thread, EvaluateStep(c, t) PROVE TypeOK'
  BY <1>2, EvaluateStepTypeOK
<1>3. ASSUME NEW c \in Server, Dispatch(c) PROVE TypeOK'
  <2>1. pc' \in [Server -> [Thread -> PC]]
    BY <1>3, GotoType DEF Dispatch, PC
  <2>2. events[c] - 1 \in Nat
    BY <1>3 DEF Dispatch, TypeOK
  <2>3. events' \in [Server -> Nat]
    BY <1>3, <2>2 DEF Dispatch, TypeOK
  <2> QED
    BY <1>3, <2>1, <2>3 DEF TypeOK, Dispatch, locals, globals
<1>4. ASSUME NEW c \in Server, Environment(c) PROVE TypeOK'
  BY <1>4, EnvironmentTypeOK
<1>5. CASE RegisterGroup
  BY <1>5 DEF TypeOK, RegisterGroup, locals, globals
<1>6. CASE UNCHANGED vars
  BY <1>6 DEF TypeOK, vars, zkVars, locals, globals
<1> QED
  BY <1>1, <1>2, <1>3, <1>4, <1>5, <1>6 DEF Next

\* The controllers' state stays well typed in every group.
THEOREM TypeCorrect == Spec => []TypeOK
<1>1. TypeOK /\ [Next]_vars => TypeOK'
  BY NextTypeOK
<1> QED
  BY InitTypeOK, <1>1, PTL DEF Spec

-----------------------------------------------------------------------------
(* The lock.  The lock of this run is what keeps the second thread out, so   *)
(* the invariant says of each controller that is not standalone that a       *)
(* thread past the lock holds it while the session lives, that only one is   *)
(* past it, and that a failed read is the end of the run's only monitoring.  *)

OneTenure(c) ==
  /\ pc[c]["main"] \notin {"lockAlone", "connectAlone"}
  /\ \A t \in Thread : Engaged(c, t) /\ session[c] = "live" => lock[c] = "mine"
  /\ ~(Engaged(c, "main") /\ Engaged(c, "watcher"))
  /\ \A t \in Thread : Engaged(c, t) => failureCounter[c] = 0
  /\ failureCounter[c] \in {0, 1}
  /\ failureCounter[c] = 1 /\ session[c] = "live" => lock[c] = "mine"

IInv == TypeOK /\ \A c \in Server : Mode[c] # 0 => OneTenure(c)

LEMMA InitIInv == Init => IInv
  BY InitTypeOK DEF Init, IInv, OneTenure, Engaged, Working

\* A step of another controller changes nothing that OneTenure(d) speaks of.
LEMMA FrameOneTenure ==
  ASSUME NEW d \in Server, OneTenure(d),
         pc'[d] = pc[d], lock'[d] = lock[d], session'[d] = session[d],
         failureCounter'[d] = failureCounter[d]
  PROVE  OneTenure(d)'
  BY DEF OneTenure, Engaged, Working

LEMMA MainStepOneTenure ==
  ASSUME IInv, NEW c \in Server, MainStep(c), NEW d \in Server, Mode[d] # 0
  PROVE  OneTenure(d)'
<1> USE DEF Goto
<1>1. OneTenure(d) /\ TypeOK
  BY DEF IInv
<1>2. CASE d # c
  <2>1. /\ pc'[d] = pc[d] /\ lock'[d] = lock[d] /\ session'[d] = session[d]
        /\ failureCounter'[d] = failureCounter[d]
    BY <1>1, <1>2 DEF MainStep, TypeOK, CreateRedundancy, ExistsActive, CreateActive,
       Configure, LockAlone, CreateActiveNode, ConnectAlone, Close, zkVars, globals
  <2> QED
    BY <1>1, <2>1, FrameOneTenure
<1>3. CASE d = c
  <2> USE <1>1, <1>3 DEF OneTenure, Engaged, Working, TypeOK
  <2>1. CASE CreateRedundancy(c)
    BY <2>1 DEF CreateRedundancy, globals
  <2>2. CASE ExistsActive(c)
    BY <2>2 DEF ExistsActive, globals
  <2>3. CASE CreateActive(c)
    BY <2>3 DEF CreateActive, globals
  <2>4. CASE Configure(c)
    BY <2>4 DEF Configure, zkVars
  <2>5. CASE Close(c)
    BY <2>5 DEF Close, globals
  <2> QED
    BY <2>1, <2>2, <2>3, <2>4, <2>5 DEF MainStep, LockAlone, ConnectAlone
<1> QED
  BY <1>2, <1>3

LEMMA EvaluateStepOneTenure ==
  ASSUME IInv, NEW c \in Server, NEW t \in Thread, EvaluateStep(c, t),
         NEW d \in Server, Mode[d] # 0
  PROVE  OneTenure(d)'
<1> USE DEF Goto, Return, Resting
<1>1. OneTenure(d) /\ TypeOK
  BY DEF IInv
<1>2. CASE d # c
  <2>1. /\ pc'[d] = pc[d] /\ lock'[d] = lock[d] /\ session'[d] = session[d]
        /\ failureCounter'[d] = failureCounter[d]
    BY <1>1, <1>2 DEF EvaluateStep, TypeOK, List, Evaluate, GetLock, MissLock,
       CreateActiveNode, ActivateCold, Connect, ConnectFails, Die, MonitorStopped,
       ReadRunning, ReadSuspended, ReadFails, zkVars, globals
  <2> QED
    BY <1>1, <2>1, FrameOneTenure
<1>3. CASE d = c
  <2> USE <1>1, <1>3 DEF OneTenure, Engaged, Working, TypeOK
  <2>1. CASE List(c, t)
    BY <2>1 DEF List, globals
  <2>2. CASE Evaluate(c, t)
    BY <2>2 DEF Evaluate, zkVars, globals
  <2>3. CASE GetLock(c, t)
    \* The lock was free and the session is live, so nobody was past the lock.
    <3>1. ~Engaged(c, "main") /\ ~Engaged(c, "watcher") /\ failureCounter[c] = 0
      BY <2>3 DEF GetLock, Answered, CanCreate
    <3> QED
      BY <2>3, <3>1 DEF GetLock, CreateActiveNode, globals
  <2>4. CASE MissLock(c, t)
    BY <2>4 DEF MissLock, CreateActiveNode, zkVars, globals
  <2>5. CASE ActivateCold(c, t)
    BY <2>5 DEF ActivateCold, zkVars, globals
  <2>6. CASE Connect(c, t)
    BY <2>6 DEF Connect, zkVars, globals
  <2>7. CASE ConnectFails(c, t)
    BY <2>7 DEF ConnectFails, Die, zkVars, globals
  <2>8. CASE MonitorStopped(c, t)
    BY <2>8 DEF MonitorStopped, zkVars, globals
  <2>9. CASE ReadRunning(c, t)
    BY <2>9 DEF ReadRunning, zkVars
  <2>10. CASE ReadSuspended(c, t)
    BY <2>10 DEF ReadSuspended, zkVars
  <2>11. CASE ReadFails(c, t)
    BY <2>11 DEF ReadFails, zkVars
  <2> QED
    BY <2>1, <2>2, <2>3, <2>4, <2>5, <2>6, <2>7, <2>8, <2>9, <2>10, <2>11 DEF EvaluateStep
<1> QED
  BY <1>2, <1>3

LEMMA EnvironmentOneTenure ==
  ASSUME IInv, NEW c \in Server, Environment(c), NEW d \in Server, Mode[d] # 0
  PROVE  OneTenure(d)'
<1>1. OneTenure(d) /\ TypeOK
  BY DEF IInv
<1>2. CASE d # c
  <2>1. /\ pc'[d] = pc[d] /\ lock'[d] = lock[d] /\ session'[d] = session[d]
        /\ failureCounter'[d] = failureCounter[d]
    BY <1>1, <1>2 DEF Environment, TypeOK, Start, Crash, Die, Interrupt, SessionExpires,
       OldSessionExpires, ServerFails, CallActivation, zkVars, globals
  <2> QED
    BY <1>1, <2>1, FrameOneTenure
<1>3. CASE d = c
  <2> USE <1>1, <1>3 DEF OneTenure, Engaged, Working, TypeOK
  <2>1. CASE Start(c)
    BY <2>1 DEF Start
  <2>2. CASE Crash(c)
    BY <2>2 DEF Crash, Die, globals
  <2>3. CASE Interrupt(c)
    BY <2>3 DEF Interrupt, zkVars
  <2>4. CASE SessionExpires(c)
    BY <2>4 DEF SessionExpires, globals
  <2>5. CASE OldSessionExpires(c)
    BY <2>5 DEF OldSessionExpires, globals
  <2>6. CASE ServerFails(c)
    BY <2>6 DEF ServerFails, zkVars, globals
  <2>7. CASE CallActivation(c)
    BY <2>7 DEF CallActivation, zkVars, globals
  <2> QED
    BY <2>1, <2>2, <2>3, <2>4, <2>5, <2>6, <2>7 DEF Environment
<1> QED
  BY <1>2, <1>3

LEMMA NextIInv == IInv /\ [Next]_vars => IInv'
<1> SUFFICES ASSUME IInv, [Next]_vars, NEW d \in Server, Mode[d] # 0
             PROVE  OneTenure(d)'
  BY NextTypeOK DEF IInv
<1>1. OneTenure(d) /\ TypeOK
  BY DEF IInv
<1>2. ASSUME NEW c \in Server, MainStep(c) PROVE OneTenure(d)'
  BY <1>2, MainStepOneTenure
<1>3. ASSUME NEW c \in Server, NEW t \in Thread, EvaluateStep(c, t) PROVE OneTenure(d)'
  BY <1>3, EvaluateStepOneTenure
<1>4. ASSUME NEW c \in Server, Dispatch(c) PROVE OneTenure(d)'
  BY <1>1, <1>4 DEF Dispatch, Goto, OneTenure, Engaged, Working, TypeOK, globals
<1>5. ASSUME NEW c \in Server, Environment(c) PROVE OneTenure(d)'
  BY <1>5, EnvironmentOneTenure
<1>6. CASE RegisterGroup
  BY <1>1, <1>6, FrameOneTenure DEF RegisterGroup, globals
<1>7. CASE UNCHANGED vars
  BY <1>1, <1>7, FrameOneTenure DEF vars, zkVars, globals
<1> QED
  BY <1>2, <1>3, <1>4, <1>5, <1>6, <1>7 DEF Next

LEMMA Invariance == Spec => []IInv
  BY InitIInv, NextIInv, PTL DEF Spec

\* A thread works on the server only under the lock of its own run, unless the
\* session is over: for any number of controllers, restarts and lost replies.
THEOREM LockGuardsMonitor == Spec => []MonitorHoldsLock
<1>1. IInv => MonitorHoldsLock
  BY DEF IInv, OneTenure, MonitorHoldsLock
<1> QED
  BY <1>1, Invariance, PTL

\* The two threads of a controller are never both past the lock.
THEOREM OneThreadMonitors == Spec => []NoDoubleMonitor
<1>1. IInv => NoDoubleMonitor
  BY DEF IInv, OneTenure, NoDoubleMonitor
<1> QED
  BY <1>1, Invariance, PTL

\* The shutdown at three failed reads in a row is never reached.
THEOREM ThreeStrikesUnreachable == Spec => []NeverThreeStrikes
<1>1. IInv => NeverThreeStrikes
  BY DEF IInv, OneTenure, NeverThreeStrikes
<1> QED
  BY <1>1, Invariance, PTL

-----------------------------------------------------------------------------
(* Activations.  With the group registered and no reply lost, the paths a    *)
(* controller goes by exist when it needs them (PathsOK), and a controller   *)
(* that has listed the active nodes is owed nothing it has not been told of: *)
(* an event is due, or its watch is set and either some znode covers it or   *)
(* one of its threads is about to take the lock (Awake).                     *)

Woken(c) == c \in childWatch \/ events[c] > 0 \/ pc[c]["watcher"] = "list"

\* Where the main thread is before it knows that Active exists.
Setup == {"gone", "redundancy", "exists", "createActive"}

PathsOK(c) ==
  /\ "group" \in paths
  /\ session[c] = "live" =>
       /\ pc[c]["main"] \notin {"gone", "redundancy"} => "redundancy" \in paths
       /\ pc[c]["main"] \notin Setup => "active" \in paths
  /\ Woken(c) => "active" \in paths

\* Where the main thread is once it has listed the active nodes.
Heard == {"evaluate", "lock", "wait"} \cup Working

\* The names S keep c from activating its server.
Covers(c, S) == IF Exclusive(c) THEN S # {} ELSE c \in S

Due(c)      == events[c] > 0 \/ pc[c]["watcher"] = "list"
Takes(c, t) == pc[c][t] = "lock" \/ (pc[c][t] = "evaluate" /\ ~Covers(c, seen[c][t]))

Awake(c) ==
  /\ pc[c]["main"] \in Heard \cup {"list"} => rSupport[c] = Mode[c]
  /\ pc[c]["main"] \in Heard =>
       \/ Due(c)
       \/ c \in childWatch /\ (Covers(c, Active) \/ \E t \in Thread : Takes(c, t))

QInv ==
  /\ budget["loss"] <= Budget["loss"]
  /\ GroupReady /\ budget["loss"] = Budget["loss"] =>
       /\ \A c \in Server : PathsOK(c)
       /\ \A c \in Server : Mode[c] \in 1..5 /\ session[c] = "live" => Awake(c)

LEMMA SpendLoss ==
  ASSUME TypeOK, NEW e \in Event, Spend(e)
  PROVE  /\ budget'["loss"] \in Nat /\ budget'["loss"] <= budget["loss"]
         /\ e = "loss" => budget'["loss"] < budget["loss"]
  BY DEF TypeOK, Spend, Event

LEMMA LossSpent ==
  ASSUME TypeOK, [Next]_vars
  PROVE  budget'["loss"] <= budget["loss"]
<1>0. budget["loss"] \in Nat
  BY DEF TypeOK, Event
<1>1. CASE UNCHANGED budget
  BY <1>0, <1>1
<1>2. CASE \E e \in Event : Spend(e)
  BY <1>2, SpendLoss
<1>3. UNCHANGED budget \/ \E e \in Event : Spend(e)
  <2> USE DEF Event, Answered, Unanswered
  <2>1. ASSUME NEW c \in Server, MainStep(c) PROVE <1>3!1 \/ <1>3!2
    BY <2>1 DEF MainStep, CreateRedundancy, ExistsActive, CreateActive, Configure, LockAlone,
       ConnectAlone, Close
  <2>2. ASSUME NEW c \in Server, NEW t \in Thread, EvaluateStep(c, t) PROVE <1>3!1 \/ <1>3!2
    BY <2>2 DEF EvaluateStep, List, Evaluate, GetLock, MissLock, ActivateCold, Connect,
       ConnectFails, Die, MonitorStopped, ReadRunning, ReadSuspended, ReadFails
  <2>3. ASSUME NEW c \in Server, Environment(c) PROVE <1>3!1 \/ <1>3!2
    BY <2>3 DEF Environment, Start, Crash, Die, Interrupt, SessionExpires, OldSessionExpires,
       ServerFails, CallActivation
  <2>4. ASSUME NEW c \in Server, Dispatch(c) PROVE <1>3!1 \/ <1>3!2
    BY <2>4 DEF Dispatch
  <2> QED
    BY <2>1, <2>2, <2>3, <2>4 DEF Next, RegisterGroup, vars
<1> QED
  BY <1>1, <1>2, <1>3

\* No reply is lost in a step after which none has been.
LEMMA NoneLost ==
  ASSUME TypeOK, budget'["loss"] = budget["loss"], NEW c \in Server, Unanswered(c)
  PROVE  session[c] = "over"
  BY SpendLoss DEF TypeOK, Unanswered, Event

\* A step in which no path is made and no watch is set.
LEMMA FramePaths ==
  ASSUME NEW d \in Server, PathsOK(d), UNCHANGED paths,
         \/ pc'[d]["main"] \in {"gone", "redundancy"}
         \/ session'[d] = "over"
         \/ /\ session'[d] = session[d]
            /\ pc'[d]["main"] = pc[d]["main"] \/ pc[d]["main"] \notin Setup,
         d \in childWatch' => d \in childWatch,
         events'[d] > 0 => events[d] > 0 \/ d \in childWatch,
         pc'[d]["watcher"] = "list" => Woken(d)
  PROVE  PathsOK(d)'
  BY DEF PathsOK, Woken, Setup

\* Only those who watched are told.
LEMMA NotifyWakes ==
  ASSUME TypeOK, NEW c \in Server, NEW d \in Server,
         \/ Notify(childWatch, events)
         \/ Notify(childWatch \ {c}, events)
         \/ Notify(childWatch \ {c}, [events EXCEPT ![c] = 0])
         \/ events' = [events EXCEPT ![c] = 0]
         \/ events' = events
  PROVE  events'[d] > 0 => events[d] > 0 \/ d \in childWatch
<1>1. CASE Notify(childWatch, events) \/ Notify(childWatch \ {c}, events)
  BY <1>1 DEF Notify
<1>2. CASE Notify(childWatch \ {c}, [events EXCEPT ![c] = 0])
  <2>1. [events EXCEPT ![c] = 0][d] > 0 => events[d] > 0
    BY DEF TypeOK
  <2> QED
    BY <1>2, <2>1 DEF Notify
<1>3. CASE events' = [events EXCEPT ![c] = 0]
  BY <1>3 DEF TypeOK
<1> QED
  BY <1>1, <1>2, <1>3

LEMMA GotoElsewhere ==
  ASSUME TypeOK, NEW c \in Server, NEW t \in Thread, NEW l, Goto(c, t, l)
  PROVE  /\ pc'[c][t] = l
         /\ \A u \in Thread : u # t => pc'[c][u] = pc[c][u]
         /\ \A d \in Server : d # c => pc'[d] = pc[d]
  BY DEF Goto, TypeOK

LEMMA MainStepPathsOK ==
  ASSUME TypeOK, NEW d \in Server, PathsOK(d), NEW c \in Server, PathsOK(c), MainStep(c),
         budget'["loss"] = budget["loss"]
  PROVE  PathsOK(d)'
<1>1. CASE CreateRedundancy(c)
  <2>1. session[c] = "live" => "redundancy" \in paths'
    BY <1>1, NoneLost DEF CreateRedundancy, Answered, PathsOK
  <2>2. paths \subseteq paths' /\ UNCHANGED <<session, childWatch, events>>
    BY <1>1 DEF CreateRedundancy
  <2>3. /\ d # c => pc'[d] = pc[d]
        /\ pc'[c]["main"] = "exists" /\ pc'[c]["watcher"] = pc[c]["watcher"]
    BY <1>1, GotoElsewhere DEF CreateRedundancy
  <2> QED
    BY <2>1, <2>2, <2>3 DEF PathsOK, Woken, Setup
<1>2. CASE ExistsActive(c)
  <2>1. UNCHANGED <<paths, session, childWatch, events>> /\ pc[c]["main"] = "exists"
    BY <1>2 DEF ExistsActive
  <2>2. /\ d # c => pc'[d] = pc[d]
        /\ pc'[c]["watcher"] = pc[c]["watcher"]
    BY <1>2, GotoElsewhere DEF ExistsActive
  <2>3. session[c] = "live" /\ pc'[c]["main"] \notin Setup => "active" \in paths
    BY <1>2, NoneLost, GotoElsewhere DEF ExistsActive, Setup
  <2> QED
    BY <2>1, <2>2, <2>3 DEF PathsOK, Woken, Setup
<1>3. CASE CreateActive(c)
  <2>1. session[c] = "live" => "active" \in paths'
    BY <1>3, NoneLost DEF CreateActive, Answered, PathsOK
  <2>2. "active" \in paths' \/ UNCHANGED events
    BY <1>3 DEF CreateActive
  <2>3. paths \subseteq paths' /\ UNCHANGED <<session, childWatch>> /\ pc[c]["main"] = "createActive"
    BY <1>3 DEF CreateActive
  <2>4. /\ d # c => pc'[d] = pc[d]
        /\ pc'[c]["watcher"] = pc[c]["watcher"]
    BY <1>3, GotoElsewhere DEF CreateActive
  <2> QED
    BY <2>1, <2>2, <2>3, <2>4 DEF PathsOK, Woken, Setup
<1>4. ASSUME Configure(c) \/ LockAlone(c) \/ ConnectAlone(c)
      PROVE  PathsOK(d)'
  <2>1. /\ d \in childWatch' => d \in childWatch
        /\ events'[d] > 0 => events[d] > 0 \/ d \in childWatch
        /\ UNCHANGED <<paths, session>>
    BY <1>4, NotifyWakes
    DEF Configure, LockAlone, ConnectAlone, CreateActiveNode, ChildrenChanged, zkVars
  <2>2. /\ d # c => pc'[d] = pc[d]
        /\ pc'[c]["watcher"] = pc[c]["watcher"]
        /\ pc[c]["main"] \notin Setup
    BY <1>4, GotoElsewhere DEF Configure, LockAlone, ConnectAlone, Setup
  <2> QED
    BY <2>1, <2>2, FramePaths DEF Woken
<1>5. CASE Close(c)
  <2>1. /\ d \in childWatch' => d \in childWatch
        /\ UNCHANGED paths
        /\ d # c => pc'[d] = pc[d] /\ session'[d] = session[d]
        /\ d = c => pc'[d]["watcher"] = "gone" /\ pc'[d]["main"] = "gone"
    BY <1>5 DEF Close, TypeOK
  <2>2. events'[d] > 0 => events[d] > 0 \/ d \in childWatch
    BY <1>5, NotifyWakes DEF Close
  <2> QED
    BY <2>1, <2>2, FramePaths DEF Woken
<1> QED BY <1>1, <1>2, <1>3, <1>4, <1>5 DEF MainStep

LEMMA DiePathsOK ==
  ASSUME TypeOK, NEW d \in Server, PathsOK(d), NEW c \in Server, Die(c)
  PROVE  PathsOK(d)'
<1>1. /\ d \in childWatch' => d \in childWatch
      /\ UNCHANGED <<paths, session>>
      /\ d # c => pc'[d] = pc[d]
      /\ d = c => pc'[d]["watcher"] = "gone" /\ pc'[d]["main"] = "gone"
  BY DEF Die, TypeOK
<1>2. events'[d] > 0 => events[d] > 0 \/ d \in childWatch
  BY NotifyWakes DEF Die
<1> QED
  BY <1>1, <1>2, FramePaths DEF Woken

\* A thread in zkUA_zkEvaluateActiveNodes, other than when it lists or dies.
LEMMA EvaluateMoves ==
  ASSUME TypeOK, NEW c \in Server, NEW t \in Thread, EvaluateStep(c, t), ~List(c, t), ~Die(c)
  PROVE  /\ pc[c][t] \in {"evaluate", "lock"} \cup Working
         /\ pc'[c][t] \in {"evaluate", "lock", Resting(t)} \cup Working
         /\ \A u \in Thread : u # t => pc'[c][u] = pc[c][u]
         /\ \A d \in Server : d # c => pc'[d] = pc[d]
         /\ UNCHANGED <<paths, session, existsWatch, rSupport>>
         /\ UNCHANGED zkVars \/ CreateActiveNode(c)
<1> USE DEF Working
<1>1. CASE Evaluate(c, t)
  BY <1>1, GotoElsewhere DEF Evaluate, zkVars, globals
<1>2. CASE GetLock(c, t)
  BY <1>2, GotoElsewhere DEF GetLock, CreateActiveNode, globals
<1>3. CASE MissLock(c, t)
  BY <1>3, GotoElsewhere DEF MissLock, CreateActiveNode, globals, zkVars, Return, Resting
<1>4. CASE ActivateCold(c, t)
  BY <1>4, GotoElsewhere DEF ActivateCold, globals, zkVars
<1>5. CASE Connect(c, t)
  BY <1>5, GotoElsewhere DEF Connect, globals, zkVars, Return, Resting
<1>6. CASE ConnectFails(c, t)
  BY <1>6 DEF ConnectFails, globals, zkVars
<1>7. CASE MonitorStopped(c, t)
  BY <1>7, GotoElsewhere DEF MonitorStopped, globals, zkVars, Return, Resting
<1>8. CASE ReadRunning(c, t)
  BY <1>8 DEF ReadRunning, zkVars
<1>9. CASE ReadSuspended(c, t)
  BY <1>9, GotoElsewhere DEF ReadSuspended, zkVars, Return, Resting
<1>10. CASE ReadFails(c, t)
  BY <1>10, GotoElsewhere DEF ReadFails, zkVars, Return, Resting
<1> QED
  BY <1>1, <1>2, <1>3, <1>4, <1>5, <1>6, <1>7, <1>8, <1>9, <1>10 DEF EvaluateStep

LEMMA EvaluateStepPathsOK ==
  ASSUME TypeOK, NEW d \in Server, PathsOK(d), NEW c \in Server, PathsOK(c), NEW t \in Thread,
         EvaluateStep(c, t)
  PROVE  PathsOK(d)'
<1>1. CASE List(c, t)
  <2>1. /\ UNCHANGED <<paths, session, events>>
        /\ d \in childWatch' => d \in childWatch \/ "active" \in paths
        /\ pc[c][t] = "list"
    BY <1>1 DEF List
  <2>2. /\ d # c => pc'[d] = pc[d]
        /\ \A u \in Thread : u # t => pc'[c][u] = pc[c][u]
        /\ pc'[c][t] = "evaluate"
    BY <1>1, GotoElsewhere DEF List
  <2> QED
    BY <2>1, <2>2 DEF PathsOK, Woken, Setup
<1>2. CASE Die(c)
  BY <1>2, DiePathsOK
<1>3. CASE ~List(c, t) /\ ~Die(c)
  <2>1. /\ d \in childWatch' => d \in childWatch
        /\ events'[d] > 0 => events[d] > 0 \/ d \in childWatch
    BY <1>3, EvaluateMoves, NotifyWakes DEF CreateActiveNode, ChildrenChanged, zkVars
  <2>2. /\ UNCHANGED <<paths, session>>
        /\ d # c => pc'[d] = pc[d]
        /\ pc'[c]["main"] = pc[c]["main"] \/ pc[c]["main"] \notin Setup
        /\ pc'[c]["watcher"] = "list" => pc[c]["watcher"] = "list"
    BY <1>3, EvaluateMoves DEF Setup, Working, Resting
  <2> QED
    BY <2>1, <2>2, FramePaths DEF Woken
<1> QED
  BY <1>1, <1>2, <1>3

LEMMA EnvironmentPathsOK ==
  ASSUME TypeOK, NEW d \in Server, PathsOK(d), NEW c \in Server, PathsOK(c), Environment(c)
  PROVE  PathsOK(d)'
<1>1. CASE Start(c)
  <2>1. UNCHANGED <<paths, childWatch, events>>
    BY <1>1 DEF Start
  <2>2. /\ d # c => pc'[d] = pc[d] /\ session'[d] = session[d]
        /\ d = c => pc'[d]["main"] = "redundancy" /\ pc'[d]["watcher"] = "idle"
    BY <1>1 DEF Start, TypeOK
  <2> QED
    BY <2>1, <2>2, FramePaths DEF Woken
<1>2. CASE Crash(c)
  BY <1>2, DiePathsOK DEF Crash
<1>3. CASE SessionExpires(c)
  <2>1. events'[d] > 0 => events[d] > 0 \/ d \in childWatch
    BY <1>3, NotifyWakes DEF SessionExpires
  <2>2. (d \in childWatch' => d \in childWatch) /\ UNCHANGED <<paths, pc>>
    BY <1>3 DEF SessionExpires
  <2>3. session'[d] = session[d] \/ session'[d] = "over"
    BY <1>3 DEF SessionExpires, TypeOK
  <2> QED
    BY <2>1, <2>2, <2>3, FramePaths DEF Woken
<1>4. CASE OldSessionExpires(c)
  <2>1. events'[d] > 0 => events[d] > 0 \/ d \in childWatch
    BY <1>4, NotifyWakes DEF OldSessionExpires, ChildrenChanged
  <2>2. (d \in childWatch' => d \in childWatch) /\ UNCHANGED <<paths, session, pc>>
    BY <1>4 DEF OldSessionExpires, ChildrenChanged
  <2> QED
    BY <2>1, <2>2, FramePaths DEF Woken
<1>5. ASSUME Interrupt(c) \/ ServerFails(c) \/ CallActivation(c)
      PROVE  PathsOK(d)'
  <2>1. UNCHANGED <<paths, session, childWatch, events, pc>>
    BY <1>5 DEF Interrupt, ServerFails, CallActivation, zkVars
  <2> QED
    BY <2>1, FramePaths DEF Woken
<1> QED
  BY <1>1, <1>2, <1>3, <1>4, <1>5 DEF Environment

LEMMA NextPathsOK ==
  ASSUME TypeOK, \A c \in Server : PathsOK(c), budget'["loss"] = budget["loss"], [Next]_vars,
         NEW d \in Server
  PROVE  PathsOK(d)'
<1>1. ASSUME NEW c \in Server, Dispatch(c) PROVE PathsOK(d)'
  <2>1. /\ UNCHANGED <<paths, session, childWatch>>
        /\ events'[d] > 0 => events[d] > 0
        /\ events[c] > 0
    BY <1>1 DEF Dispatch, TypeOK
  <2>2. /\ d # c => pc'[d] = pc[d]
        /\ pc'[c]["main"] = pc[c]["main"]
    BY <1>1, GotoElsewhere DEF Dispatch
  <2> QED
    BY <2>1, <2>2, FramePaths DEF Woken
<1>2. CASE RegisterGroup
  BY <1>2 DEF RegisterGroup, PathsOK, Woken
<1>3. CASE UNCHANGED vars
  BY <1>3 DEF vars, zkVars, PathsOK, Woken
<1> QED
  BY <1>1, <1>2, <1>3, MainStepPathsOK, EvaluateStepPathsOK, EnvironmentPathsOK DEF Next

-----------------------------------------------------------------------------

\* What a step of c does to another controller d.
Beside(d) ==
  /\ pc'[d] = pc[d] /\ seen'[d] = seen[d] /\ rSupport'[d] = rSupport[d]
  /\ session'[d] = session[d] /\ events'[d] >= events[d]

Kept(d) ==
  d \in childWatch =>
    d \in childWatch' /\ \A e \in Server : lock[e] # "free" => lock'[e] # "free"

\* What d has in hand is not touched, and it is told of what changes.
LEMMA FrameAwake ==
  ASSUME TypeOK, TypeOK', NEW d \in Server, Awake(d), pc'[d] = pc[d], seen'[d] = seen[d],
         rSupport'[d] = rSupport[d], events'[d] >= events[d],
         events'[d] > 0 \/ Kept(d)
  PROVE  Awake(d)'
<1> USE DEF Awake, Due, Takes, Heard, Working
<1>1. CASE events'[d] > 0
  BY <1>1
<1>2. CASE ~(events'[d] > 0)
  <2>1. d \in childWatch /\ Covers(d, Active) => Covers(d, Active)'
    BY <1>2 DEF Covers, Active, Exclusive, Kept
  <2>2. \A t \in Thread : Takes(d, t) => Takes(d, t)'
    BY DEF Covers, Exclusive
  <2>3. ~(events[d] > 0)
    BY <1>2 DEF TypeOK
  <2> QED
    BY <1>2, <2>1, <2>2, <2>3 DEF Kept
<1> QED
  BY <1>1, <1>2

LEMMA Untouched ==
  ASSUME TypeOK, NEW d \in Server, events' = events
  PROVE  events'[d] >= events[d]
  BY DEF TypeOK

LEMMA NotifyAdds ==
  ASSUME TypeOK, NEW c \in Server, NEW d \in Server, d # c, NEW W,
         \/ Notify(W, events)
         \/ Notify(W, [events EXCEPT ![c] = 0])
         \/ events' = [events EXCEPT ![c] = 0]
  PROVE  events'[d] >= events[d]
<1>1. events[d] \in Nat /\ [events EXCEPT ![c] = 0][d] = events[d]
  BY DEF TypeOK
<1>2. CASE Notify(W, events)
  BY <1>1, <1>2 DEF Notify
<1>3. CASE Notify(W, [events EXCEPT ![c] = 0])
  <2>1. events'[d] \in {[events EXCEPT ![c] = 0][d], [events EXCEPT ![c] = 0][d] + 1}
    BY <1>3 DEF Notify
  <2> QED
    BY <1>1, <2>1
<1>4. CASE events' = [events EXCEPT ![c] = 0]
  BY <1>1, <1>4
<1> QED
  BY <1>2, <1>3, <1>4

LEMMA NotifyTold ==
  ASSUME TypeOK, NEW c \in Server, NEW d \in Server, d # c, d \in childWatch,
         \/ Notify(childWatch, events)
         \/ Notify(childWatch \ {c}, events)
         \/ Notify(childWatch \ {c}, [events EXCEPT ![c] = 0])
  PROVE  events'[d] > 0
<1>1. events[d] \in Nat /\ [events EXCEPT ![c] = 0][d] = events[d]
  BY DEF TypeOK
<1>2. CASE Notify(childWatch, events) \/ Notify(childWatch \ {c}, events)
  BY <1>1, <1>2 DEF Notify
<1>3. CASE Notify(childWatch \ {c}, [events EXCEPT ![c] = 0])
  <2>1. events'[d] = [events EXCEPT ![c] = 0][d] + 1
    BY <1>3 DEF Notify
  <2> QED
    BY <1>1, <2>1
<1> QED
  BY <1>2, <1>3

LEMMA CreateActiveNodeBeside ==
  ASSUME TypeOK, NEW c \in Server, NEW d \in Server, CreateActiveNode(c)
  PROVE  /\ events'[d] >= events[d] /\ session'[d] = session[d]
         /\ events'[d] > 0 \/ Kept(d)
<1>1. events[d] \in Nat
  BY DEF TypeOK
<1>2. \A e \in Server : lock[e] # "free" => lock'[e] # "free"
  BY DEF CreateActiveNode, TypeOK
<1>3. events'[d] = IF d \in childWatch THEN events[d] + 1 ELSE events[d]
  BY DEF CreateActiveNode, ChildrenChanged, Notify
<1> QED
  BY <1>1, <1>2, <1>3 DEF CreateActiveNode, Kept

LEMMA DieBeside ==
  ASSUME TypeOK, NEW c \in Server, NEW d \in Server, d # c, Die(c)
  PROVE  Beside(d) /\ Kept(d)
<1>1. events'[d] >= events[d]
  BY NotifyAdds DEF Die
<1>2. pc'[d] = pc[d] /\ seen'[d] = seen[d]
  BY DEF Die, TypeOK
<1> QED
  BY <1>1, <1>2 DEF Die, Beside, Kept, globals

LEMMA MainStepBeside ==
  ASSUME TypeOK, NEW c \in Server, NEW d \in Server, d # c, MainStep(c)
  PROVE  Beside(d) /\ (events'[d] > 0 \/ Kept(d))
<1>1. CASE CreateRedundancy(c)
  BY <1>1, GotoElsewhere, Untouched DEF CreateRedundancy, Beside, Kept, locals, globals
<1>2. CASE ExistsActive(c)
  BY <1>2, GotoElsewhere, Untouched DEF ExistsActive, Beside, Kept, locals, globals
<1>3. CASE CreateActive(c)
  <2>1. events'[d] >= events[d]
    BY <1>3, Untouched, NotifyAdds DEF CreateActive
  <2> QED
    BY <1>3, <2>1, GotoElsewhere DEF CreateActive, Beside, Kept, locals, globals
<1>4. CASE Configure(c)
  <2>1. rSupport'[d] = rSupport[d]
    BY <1>4 DEF Configure, TypeOK
  <2> QED
    BY <1>4, <2>1, GotoElsewhere, Untouched DEF Configure, Beside, Kept, zkVars, locals
<1>5. CASE LockAlone(c)
  BY <1>5, GotoElsewhere, Untouched, CreateActiveNodeBeside
  DEF LockAlone, Beside, Kept, zkVars, locals, globals
<1>6. CASE ConnectAlone(c)
  BY <1>6, GotoElsewhere, Untouched DEF ConnectAlone, Beside, Kept, zkVars, locals, globals
<1>7. CASE Close(c)
  <2>1. pc'[d] = pc[d] /\ session'[d] = session[d]
    BY <1>7 DEF Close, TypeOK
  <2>2. events'[d] >= events[d]
    BY <1>7, NotifyAdds DEF Close
  <2>3. events'[d] > 0 \/ Kept(d)
    <3>1. CASE lock[c] = "mine"
      BY <1>7, <3>1, NotifyTold DEF Close, Kept
    <3>2. CASE lock[c] # "mine"
      BY <1>7, <3>2 DEF Close, Kept
    <3> QED
      BY <3>1, <3>2
  <2> QED
    BY <1>7, <2>1, <2>2, <2>3 DEF Close, Beside, locals, globals
<1> QED BY <1>1, <1>2, <1>3, <1>4, <1>5, <1>6, <1>7 DEF MainStep

LEMMA EvaluateStepBeside ==
  ASSUME TypeOK, NEW c \in Server, NEW d \in Server, d # c, NEW t \in Thread, EvaluateStep(c, t)
  PROVE  Beside(d) /\ (events'[d] > 0 \/ Kept(d))
<1>1. CASE List(c, t)
  <2>1. seen'[d] = seen[d]
    BY <1>1 DEF List, TypeOK
  <2> QED
    BY <1>1, <2>1, GotoElsewhere, Untouched DEF List, Beside, Kept, globals
<1>2. CASE Die(c)
  BY <1>2, DieBeside
<1>3. CASE ~List(c, t) /\ ~Die(c)
  <2>1. pc'[d] = pc[d] /\ UNCHANGED rSupport
    BY <1>3, EvaluateMoves
  <2>2. /\ events'[d] >= events[d] /\ session'[d] = session[d]
        /\ events'[d] > 0 \/ Kept(d)
    BY <1>3, EvaluateMoves, Untouched, CreateActiveNodeBeside DEF zkVars, Kept
  <2>3. seen'[d] = seen[d]
    BY <1>3 DEF EvaluateStep, Evaluate, GetLock, MissLock, ActivateCold, Connect, ConnectFails,
      MonitorStopped, ReadRunning, ReadSuspended, ReadFails, locals, TypeOK
  <2> QED
    BY <2>1, <2>2, <2>3 DEF Beside
<1> QED
  BY <1>1, <1>2, <1>3

LEMMA EnvironmentBeside ==
  ASSUME TypeOK, NEW c \in Server, NEW d \in Server, d # c, Environment(c)
  PROVE  Beside(d) /\ (events'[d] > 0 \/ Kept(d))
<1>1. CASE Start(c)
  <2>1. /\ pc'[d] = pc[d] /\ session'[d] = session[d] /\ rSupport'[d] = rSupport[d]
        /\ \A e \in Server : lock[e] # "free" => lock'[e] # "free"
    BY <1>1 DEF Start, TypeOK
  <2> QED
    BY <1>1, <2>1, Untouched DEF Start, Beside, Kept, locals
<1>2. CASE Crash(c)
  BY <1>2, DieBeside DEF Crash
<1>3. CASE SessionExpires(c)
  <2>1. session'[d] = session[d]
    BY <1>3 DEF SessionExpires, TypeOK
  <2>2. events'[d] >= events[d]
    BY <1>3, NotifyAdds, Untouched DEF SessionExpires
  <2>3. events'[d] > 0 \/ Kept(d)
    <3>1. CASE lock[c] = "mine"
      BY <1>3, <3>1, NotifyTold DEF SessionExpires, Kept
    <3>2. CASE lock[c] # "mine"
      BY <1>3, <3>2 DEF SessionExpires, Kept
    <3> QED
      BY <3>1, <3>2
  <2> QED
    BY <1>3, <2>1, <2>2, <2>3 DEF SessionExpires, Beside, locals, globals
<1>4. CASE OldSessionExpires(c)
  <2>1. events'[d] >= events[d]
    BY <1>4, NotifyAdds DEF OldSessionExpires, ChildrenChanged
  <2>2. events'[d] > 0 \/ d \notin childWatch
    BY <1>4, NotifyTold DEF OldSessionExpires, ChildrenChanged
  <2> QED
    BY <1>4, <2>1, <2>2 DEF OldSessionExpires, Beside, Kept, locals, globals
<1>5. ASSUME Interrupt(c) \/ ServerFails(c) \/ CallActivation(c)
      PROVE  Beside(d) /\ (events'[d] > 0 \/ Kept(d))
  BY <1>5, Untouched
  DEF Interrupt, ServerFails, CallActivation, Beside, Kept, zkVars, locals, globals
<1> QED
  BY <1>1, <1>2, <1>3, <1>4, <1>5 DEF Environment

\* The main thread of c before it evaluates owes itself nothing yet.
LEMMA FrameUnheard ==
  ASSUME NEW c \in Server, pc'[c]["main"] \notin Heard \cup {"list"}
  PROVE  Awake(c)'
  BY DEF Awake, Heard, Working

LEMMA ListAwake ==
  ASSUME TypeOK, NEW c \in Server, PathsOK(c), session[c] = "live", Awake(c), NEW t \in Thread,
         List(c, t), budget'["loss"] = budget["loss"]
  PROVE  Awake(c)'
<1>1. /\ pc[c][t] = "list" /\ pc'[c][t] = "evaluate"
      /\ \A u \in Thread : u # t => pc'[c][u] = pc[c][u]
  BY GotoElsewhere DEF List
<1>2. CASE pc[c]["main"] \in Setup
  BY <1>1, <1>2, FrameUnheard DEF Setup, Heard, Working
<1>3. CASE pc[c]["main"] \notin Setup
  <2>1. "active" \in paths
    BY <1>3 DEF PathsOK
  <2>2. c \in childWatch' /\ seen' = [seen EXCEPT ![c][t] = Active]
    BY <2>1, NoneLost DEF List, Answered
  <2>3. seen'[c][t] = Active /\ UNCHANGED <<rSupport, lock>>
    BY <2>2 DEF List, TypeOK, globals
  <2>4. Active' = Active
    BY <2>3 DEF Active
  <2>5. Covers(c, Active)' \/ Takes(c, t)'
    BY <1>1, <2>3, <2>4 DEF Covers, Takes, Exclusive
  <2> QED
    BY <1>1, <2>2, <2>3, <2>5 DEF Awake, Heard
<1> QED
  BY <1>2, <1>3

LEMMA EvaluateAwake ==
  ASSUME TypeOK, NEW c \in Server, Mode[c] \in 1..5, Awake(c), NEW t \in Thread, Evaluate(c, t)
  PROVE  Awake(c)'
<1>1. /\ pc[c][t] = "evaluate"
      /\ pc'[c][t] = IF MayActivate(c, seen[c][t]) THEN "lock" ELSE Resting(t)
      /\ \A u \in Thread : u # t => pc'[c][u] = pc[c][u]
  BY GotoElsewhere DEF Evaluate
<1>2. UNCHANGED <<rSupport, lock, childWatch, events>>
  BY DEF Evaluate, globals, zkVars
<1>3. \A u \in Thread : u # t => seen'[c][u] = seen[c][u]
  BY DEF Evaluate, TypeOK
<1>4. Active' = Active
  BY <1>2 DEF Active
<1>5. CASE pc[c]["main"] \notin Heard
  BY <1>1, <1>2, <1>5 DEF Heard, Awake
<1>6. CASE pc[c]["main"] \in Heard
  <2>1. rSupport[c] = Mode[c]
    BY <1>6 DEF Awake
  <2>2. MayActivate(c, seen[c][t]) <=> ~Covers(c, seen[c][t])
    BY <2>1 DEF MayActivate, Covers, Exclusive
  <2>3. \A u \in Thread : Takes(c, u) => Takes(c, u)'
    BY <1>1, <1>3, <2>2 DEF Takes, Covers, Exclusive
  <2>4. Due(c) => Due(c)'
    BY <1>1, <1>2 DEF Due
  <2>5. Covers(c, Active) => Covers(c, Active)'
    BY <1>4 DEF Covers, Exclusive
  <2> QED
    BY <1>2, <1>6, <2>1, <2>3, <2>4, <2>5 DEF Awake
<1> QED
  BY <1>5, <1>6

\* The change of Active that c makes, or that its former session makes, wakes it.
LEMMA ToldAwake ==
  ASSUME TypeOK, NEW c \in Server, Awake(c), ChildrenChanged(childWatch),
         rSupport'[c] = rSupport[c],
         pc'[c]["main"] \in Heard => pc[c]["main"] \in Heard,
         pc'[c]["main"] = "list" => pc[c]["main"] = "list",
         pc[c]["watcher"] = "list" => pc'[c]["watcher"] = "list"
  PROVE  Awake(c)'
<1>1. events[c] \in Nat
  BY DEF TypeOK
<1>2. events'[c] = IF c \in childWatch THEN events[c] + 1 ELSE events[c]
  BY DEF ChildrenChanged, Notify
<1> QED
  BY <1>1, <1>2 DEF Awake, Due

LEMMA MissLockAwake ==
  ASSUME TypeOK, NEW c \in Server, PathsOK(c), session[c] = "live", Awake(c), NEW t \in Thread,
         MissLock(c, t), budget'["loss"] = budget["loss"]
  PROVE  Awake(c)'
<1>1. UNCHANGED zkVars /\ ~CanCreate(c)
  BY NoneLost DEF MissLock
<1>2. /\ pc[c][t] = "lock" /\ pc'[c][t] = Resting(t)
      /\ \A u \in Thread : u # t => pc'[c][u] = pc[c][u]
  BY GotoElsewhere DEF MissLock, Return
<1>3. rSupport'[c] = rSupport[c]
  BY DEF MissLock, globals
<1>4. CASE pc[c]["main"] \notin Heard
  BY <1>1, <1>2, <1>3, <1>4 DEF Heard, Awake
<1>5. CASE pc[c]["main"] \in Heard
  <2>1. "active" \in paths
    BY <1>5 DEF PathsOK, Heard, Working, Setup
  <2>2. c \in Active' /\ Covers(c, Active)'
    BY <1>1, <2>1 DEF CanCreate, Active, Covers, zkVars
  <2>3. Due(c) => Due(c)'
    BY <1>1, <1>2 DEF Due, zkVars
  <2>4. rSupport[c] = Mode[c] /\ (Due(c) \/ c \in childWatch')
    BY <1>1, <1>5 DEF Awake, zkVars
  <2> QED
    BY <1>3, <2>2, <2>3, <2>4 DEF Awake
<1> QED
  BY <1>4, <1>5

LEMMA WorkingAwake ==
  ASSUME TypeOK, NEW c \in Server, Awake(c), NEW t \in Thread, EvaluateStep(c, t), ~Die(c),
         pc[c][t] \in Working
  PROVE  Awake(c)'
<1>1. ~List(c, t) /\ ~Evaluate(c, t) /\ ~GetLock(c, t) /\ ~MissLock(c, t)
  BY DEF Working, List, Evaluate, GetLock, MissLock
<1>2. UNCHANGED zkVars
  BY <1>1 DEF EvaluateStep, ActivateCold, Connect, ConnectFails, MonitorStopped, ReadRunning,
     ReadSuspended, ReadFails
<1>3. UNCHANGED <<seen, rSupport>>
  BY <1>1 DEF EvaluateStep, ActivateCold, Connect, ConnectFails, MonitorStopped, ReadRunning,
     ReadSuspended, ReadFails, locals, globals
<1>4. /\ pc'[c][t] \in {"evaluate", "lock", Resting(t)} \cup Working
      /\ \A u \in Thread : u # t => pc'[c][u] = pc[c][u]
  BY <1>1, EvaluateMoves
<1>5. \A u \in Thread : Takes(c, u) => Takes(c, u)'
  BY <1>3, <1>4 DEF Takes, Working, Covers, Exclusive
<1>6. Due(c) => Due(c)'
  BY <1>2, <1>4 DEF Due, zkVars, Working
<1>7. Covers(c, Active) => Covers(c, Active)'
  BY <1>2 DEF zkVars, Covers, Active, Exclusive
<1> QED
  BY <1>2, <1>3, <1>4, <1>5, <1>6, <1>7 DEF Awake, Heard, zkVars

LEMMA OwnAwake ==
  ASSUME IInv, TypeOK', NEW c \in Server, Mode[c] \in 1..5, PathsOK(c),
         session[c] = "live" => Awake(c), session'[c] = "live", budget'["loss"] = budget["loss"],
         MainStep(c) \/ (\E t \in Thread : EvaluateStep(c, t)) \/ Dispatch(c) \/ Environment(c)
  PROVE  Awake(c)'
<1>0. TypeOK /\ OneTenure(c)
  BY DEF IInv
<1>1. CASE MainStep(c)
  <2>1. CASE Configure(c)
    <3>1. pc'[c]["main"] = "list" /\ rSupport'[c] = Mode[c]
      BY <1>0, <2>1, GotoElsewhere DEF Configure, TypeOK
    <3> QED
      BY <3>1 DEF Awake, Heard, Working
  <2>2. CASE CreateRedundancy(c) \/ ExistsActive(c) \/ CreateActive(c)
    <3>1. pc'[c]["main"] \in {"exists", "configure", "createActive"}
      BY <1>0, <2>2, GotoElsewhere DEF CreateRedundancy, ExistsActive, CreateActive
    <3> QED
      BY <3>1, FrameUnheard DEF Heard, Working
  <2>3. ~LockAlone(c) /\ ~ConnectAlone(c) /\ ~Close(c)
    BY <1>0 DEF OneTenure, LockAlone, ConnectAlone, Close, TypeOK
  <2> QED
    BY <1>1, <2>1, <2>2, <2>3 DEF MainStep
<1>2. ASSUME NEW t \in Thread, EvaluateStep(c, t) PROVE Awake(c)'
  <2>1. CASE Die(c)
    <3>1. pc'[c]["main"] = "gone"
      BY <1>0, <2>1 DEF Die, TypeOK
    <3> QED
      BY <3>1, FrameUnheard DEF Heard, Working
  <2>2. CASE ~Die(c)
    <3>1. session[c] = "live" /\ Awake(c)
      BY <1>0, <1>2, <2>2, EvaluateMoves DEF List
    <3>2. CASE List(c, t)
      BY <1>0, <3>1, <3>2, ListAwake
    <3>3. CASE Evaluate(c, t)
      BY <1>0, <3>1, <3>3, EvaluateAwake
    <3>4. CASE GetLock(c, t)
      <4>1. /\ pc[c][t] = "lock" /\ pc'[c][t] \in {"activate", "connect"}
            /\ \A u \in Thread : u # t => pc'[c][u] = pc[c][u]
        BY <1>0, <3>4, GotoElsewhere DEF GetLock
      <4>2. rSupport'[c] = rSupport[c] /\ ChildrenChanged(childWatch)
        BY <3>4 DEF GetLock, CreateActiveNode, globals
      <4>3. /\ pc'[c]["main"] \in Heard => pc[c]["main"] \in Heard
            /\ pc'[c]["main"] = "list" => pc[c]["main"] = "list"
            /\ pc[c]["watcher"] = "list" => pc'[c]["watcher"] = "list"
        BY <4>1 DEF Heard
      <4> QED
        BY <1>0, <3>1, <4>2, <4>3, ToldAwake
    <3>5. CASE MissLock(c, t)
      BY <1>0, <3>1, <3>5, MissLockAwake
    <3>6. CASE pc[c][t] \in Working
      BY <1>0, <1>2, <2>2, <3>1, <3>6, WorkingAwake
    <3> QED
      BY <1>2, <3>2, <3>3, <3>4, <3>5, <3>6 DEF EvaluateStep, ActivateCold, Connect,
        ConnectFails, MonitorStopped, ReadRunning, ReadSuspended, ReadFails, Working
  <2> QED
    BY <2>1, <2>2
<1>3. CASE Dispatch(c)
  <2>1. pc'[c]["watcher"] = "list" /\ pc'[c]["main"] = pc[c]["main"]
    BY <1>0, <1>3, GotoElsewhere DEF Dispatch
  <2>2. rSupport' = rSupport /\ session' = session
    BY <1>3 DEF Dispatch, globals
  <2> QED
    BY <2>1, <2>2 DEF Awake, Due
<1>4. CASE Environment(c)
  <2>1. CASE Start(c)
    <3>1. pc'[c]["main"] = "redundancy"
      BY <1>0, <2>1 DEF Start, TypeOK
    <3> QED
      BY <3>1, FrameUnheard DEF Heard, Working
  <2>2. CASE Crash(c)
    <3>1. pc'[c]["main"] = "gone"
      BY <1>0, <2>2 DEF Crash, Die, TypeOK
    <3> QED
      BY <3>1, FrameUnheard DEF Heard, Working
  <2>3. CASE OldSessionExpires(c)
    BY <1>0, <2>3, ToldAwake DEF OldSessionExpires, globals
  <2>4. ~SessionExpires(c)
    BY <1>0 DEF SessionExpires, TypeOK
  <2>5. CASE Interrupt(c) \/ ServerFails(c) \/ CallActivation(c)
    <3>1. UNCHANGED <<pc, seen, rSupport, zkVars>>
      BY <2>5 DEF Interrupt, ServerFails, CallActivation, locals, globals
    <3>2. Kept(c) /\ UNCHANGED <<events, session>>
      BY <3>1 DEF Kept, zkVars
    <3> QED
      BY <1>0, <3>1, <3>2, FrameAwake, Untouched
  <2> QED
    BY <1>4, <2>1, <2>2, <2>3, <2>4, <2>5 DEF Environment
<1> QED
  BY <1>1, <1>2, <1>3, <1>4

LEMMA NextAwake ==
  ASSUME IInv, [Next]_vars, budget'["loss"] = budget["loss"],
         \A c \in Server : PathsOK(c),
         \A c \in Server : Mode[c] \in 1..5 /\ session[c] = "live" => Awake(c),
         NEW d \in Server, Mode[d] \in 1..5, session'[d] = "live"
  PROVE  Awake(d)'
<1>0. TypeOK /\ TypeOK'
  BY NextTypeOK DEF IInv
<1>1. ASSUME NEW c \in Server,
             MainStep(c) \/ (\E t \in Thread : EvaluateStep(c, t)) \/ Dispatch(c) \/ Environment(c)
      PROVE  Awake(d)'
  <2>1. CASE d = c
    BY <1>0, <1>1, <2>1, OwnAwake
  <2>2. CASE d # c
    <3>1. CASE Dispatch(c)
      <4>1. events'[d] = events[d] /\ events[d] \in Nat
        BY <1>0, <2>2, <3>1 DEF Dispatch, TypeOK
      <4> QED
        BY <1>0, <2>2, <3>1, <4>1, GotoElsewhere, FrameAwake DEF Dispatch, Kept, locals, globals
    <3>2. CASE ~Dispatch(c)
      <4>1. Beside(d) /\ (events'[d] > 0 \/ Kept(d))
        BY <1>0, <1>1, <2>2, <3>2, MainStepBeside, EvaluateStepBeside, EnvironmentBeside
      <4> QED
        BY <1>0, <4>1, FrameAwake DEF Beside
    <3> QED
      BY <3>1, <3>2
  <2> QED
    BY <2>1, <2>2
<1>2. CASE RegisterGroup \/ UNCHANGED vars
  <2>1. UNCHANGED <<lock, childWatch, events, pc, seen, rSupport, session>>
    BY <1>2 DEF RegisterGroup, vars, zkVars, locals, globals
  <2>2. Kept(d)
    BY <2>1 DEF Kept
  <2> QED
    BY <1>0, <2>1, <2>2, Untouched, FrameAwake
<1> QED
  BY <1>1, <1>2 DEF Next

LEMMA InitQInv == Init => QInv
<1> SUFFICES ASSUME Init PROVE QInv
  OBVIOUS
<1>1. budget["loss"] <= Budget["loss"]
  BY DEF Init, Event
<1>2. ASSUME GroupReady, NEW c \in Server PROVE PathsOK(c) /\ session[c] # "live"
  BY <1>2 DEF Init, PathsOK, Woken
<1> QED
  BY <1>1, <1>2 DEF QInv

LEMMA NextQInv == IInv /\ QInv /\ [Next]_vars => QInv'
<1> SUFFICES ASSUME IInv, QInv, [Next]_vars PROVE QInv'
  OBVIOUS
<1>0. TypeOK /\ TypeOK'
  BY NextTypeOK DEF IInv
<1>1. budget["loss"] \in Nat /\ budget'["loss"] \in Nat /\ Budget["loss"] \in Nat
  BY <1>0 DEF TypeOK, Event
<1>2. budget'["loss"] <= budget["loss"] /\ budget["loss"] <= Budget["loss"]
  BY <1>0, LossSpent DEF QInv
<1>3. ASSUME GroupReady, budget'["loss"] = Budget["loss"]
      PROVE  /\ \A c \in Server : PathsOK(c)'
             /\ \A c \in Server : Mode[c] \in 1..5 /\ session'[c] = "live" => Awake(c)'
  <2>1. budget["loss"] = Budget["loss"]
    BY <1>1, <1>2, <1>3
  <2>2. /\ \A c \in Server : PathsOK(c)
        /\ \A c \in Server : Mode[c] \in 1..5 /\ session[c] = "live" => Awake(c)
    BY <1>3, <2>1 DEF QInv
  <2>3. ASSUME NEW c \in Server PROVE PathsOK(c)'
    BY <1>0, <1>3, <2>1, <2>2, NextPathsOK
  <2>4. ASSUME NEW c \in Server, Mode[c] \in 1..5, session'[c] = "live" PROVE Awake(c)'
    BY <1>3, <2>1, <2>2, <2>4, NextAwake
  <2> QED
    BY <2>3, <2>4
<1> QED
  BY <1>1, <1>2, <1>3 DEF QInv

\* A controller that has nothing left to do has not missed an activation: for any
\* group, any mix of modes, and any order of crashes, expiries and restarts.
THEOREM NoActivationMissed == Spec => []QuiescentIsCovered
<1>1. IInv /\ QInv => QuiescentIsCovered
  <2> SUFFICES ASSUME IInv, QInv, GroupReady, budget["loss"] = Budget["loss"],
                      NEW c \in Server, Quiescent(c), Mode[c] \in 1..5
               PROVE  Covers(c, Active)
    BY DEF QuiescentIsCovered, Covers, Exclusive
  <2>1. Awake(c)
    BY DEF QInv, Quiescent
  <2>2. ~Due(c) /\ \A t \in Thread : ~Takes(c, t)
    BY DEF Quiescent, Due, Takes
  <2> QED
    BY <2>1, <2>2 DEF Awake, Quiescent, Heard
<1>2. IInv /\ QInv /\ [Next]_vars => (IInv /\ QInv)'
  BY NextIInv, NextQInv
<1>3. Init => IInv /\ QInv
  BY InitIInv, InitQInv
<1> QED
  BY <1>1, <1>2, <1>3, PTL DEF Spec

=============================================================================
