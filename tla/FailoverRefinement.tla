------------------------- MODULE FailoverRefinement -------------------------
(***************************************************************************)
(* Failover implements RedundancyGroup, for every group, every mix of      *)
(* modes and every budget, as long as ZooKeeper answers: a controller      *)
(* whose list fails while its session lives may take a group that has an   *)
(* active node for an empty one.                                           *)
(***************************************************************************)
EXTENDS FailoverProofs

USE ConstantsOK DEF Thread, NoMode

\* What the mapping of states needs besides the types: the two threads of a
\* process end together, the lock of a run is held in its session, only a
\* standalone controller creates its znode past the evaluation, the mode is that
\* of the configuration or not yet set, a child of Active has a parent, and no
\* reply will be lost.
Mapped(c) ==
  /\ pc[c]["main"] = "gone" => pc[c]["watcher"] = "gone"
  /\ lock[c] = "mine" => session[c] = "live"
  /\ pc[c]["watcher"] # "lockAlone" /\ (pc[c]["main"] = "lockAlone" => Mode[c] = 0)
  /\ rSupport[c] \in {NoMode, Mode[c]}
  /\ lock[c] # "free" => "active" \in paths

RInv == TypeOK /\ budget["loss"] = 0 /\ \A c \in Server : Mapped(c)

-----------------------------------------------------------------------------
(* RInv is an invariant *)

\* A step of another controller disturbs none of it; no step removes a path.
LEMMA FrameMapped ==
  ASSUME NEW d \in Server, Mapped(d),
         pc'[d] = pc[d], lock'[d] = lock[d], session'[d] = session[d],
         rSupport'[d] = rSupport[d], paths \subseteq paths'
  PROVE  Mapped(d)'
  BY DEF Mapped

LEMMA MainStepMapped ==
  ASSUME RInv, NEW c \in Server, MainStep(c), NEW d \in Server
  PROVE  Mapped(d)' /\ budget'["loss"] = 0
<1> USE DEF Goto
<1>1. Mapped(d) /\ Mapped(c) /\ TypeOK /\ budget["loss"] = 0
  BY DEF RInv
<1>2. budget'["loss"] = 0
  BY <1>1 DEF MainStep, CreateRedundancy, ExistsActive, CreateActive, Configure, LockAlone,
     ConnectAlone, Close, Answered, Unanswered, Spend
<1>3. CASE d # c
  <2>1. /\ pc'[d] = pc[d] /\ lock'[d] = lock[d] /\ session'[d] = session[d]
        /\ rSupport'[d] = rSupport[d] /\ paths \subseteq paths'
    BY <1>1, <1>3 DEF MainStep, TypeOK, CreateRedundancy, ExistsActive, CreateActive,
       Configure, LockAlone, CreateActiveNode, ConnectAlone, Close, zkVars, globals
  <2> QED
    BY <1>1, <1>2, <2>1, FrameMapped
<1>4. CASE d = c
  <2> USE <1>1, <1>2, <1>4 DEF Mapped, TypeOK
  <2>1. CASE CreateRedundancy(c)
    BY <2>1 DEF CreateRedundancy, globals
  <2>2. CASE ExistsActive(c)
    BY <2>2 DEF ExistsActive, globals
  <2>3. CASE CreateActive(c)
    BY <2>3 DEF CreateActive, globals
  <2>4. CASE Configure(c)
    BY <2>4 DEF Configure, zkVars
  <2>5. CASE LockAlone(c)
    BY <2>5 DEF LockAlone, Answered, CanCreate, CreateActiveNode, zkVars, globals
  <2>6. CASE ConnectAlone(c)
    BY <2>6 DEF ConnectAlone, zkVars, globals
  <2>7. CASE Close(c)
    BY <2>7 DEF Close, globals
  <2> QED
    BY <2>1, <2>2, <2>3, <2>4, <2>5, <2>6, <2>7 DEF MainStep
<1> QED
  BY <1>3, <1>4

LEMMA EvaluateStepMapped ==
  ASSUME RInv, NEW c \in Server, NEW t \in Thread, EvaluateStep(c, t), NEW d \in Server
  PROVE  Mapped(d)' /\ budget'["loss"] = 0
<1> USE DEF Goto, Return, Resting
<1>1. Mapped(d) /\ Mapped(c) /\ TypeOK /\ budget["loss"] = 0
  BY DEF RInv
<1>2. budget'["loss"] = 0
  BY <1>1 DEF EvaluateStep, List, Evaluate, GetLock, MissLock, ActivateCold, Connect,
     ConnectFails, Die, MonitorStopped, ReadRunning, ReadSuspended, ReadFails,
     Answered, Unanswered, Spend
<1>3. CASE d # c
  <2>1. /\ pc'[d] = pc[d] /\ lock'[d] = lock[d] /\ session'[d] = session[d]
        /\ rSupport'[d] = rSupport[d] /\ paths \subseteq paths'
    BY <1>1, <1>3 DEF EvaluateStep, TypeOK, List, Evaluate, GetLock, MissLock,
       CreateActiveNode, ActivateCold, Connect, ConnectFails, Die, MonitorStopped,
       ReadRunning, ReadSuspended, ReadFails, zkVars, globals
  <2> QED
    BY <1>1, <1>2, <2>1, FrameMapped
<1>4. CASE d = c
  <2> USE <1>1, <1>2, <1>4 DEF Mapped, TypeOK
  <2>1. CASE GetLock(c, t)
    BY <2>1 DEF GetLock, Answered, CanCreate, CreateActiveNode, globals
  <2>2. CASE MissLock(c, t)
    BY <2>2 DEF MissLock, CanCreate, CreateActiveNode, zkVars, globals
  <2>3. CASE ConnectFails(c, t)
    BY <2>3 DEF ConnectFails, Die, zkVars, globals
  <2>4. CASE List(c, t) \/ Evaluate(c, t)
    BY <2>4 DEF List, Evaluate, zkVars, globals
  <2>5. CASE ActivateCold(c, t) \/ Connect(c, t)
    BY <2>5 DEF ActivateCold, Connect, zkVars, globals
  <2>6. CASE MonitorStopped(c, t) \/ ReadRunning(c, t) \/ ReadSuspended(c, t) \/ ReadFails(c, t)
    BY <2>6 DEF MonitorStopped, ReadRunning, ReadSuspended, ReadFails, zkVars, globals
  <2> QED
    BY <2>1, <2>2, <2>3, <2>4, <2>5, <2>6 DEF EvaluateStep
<1> QED
  BY <1>3, <1>4

LEMMA EnvironmentMapped ==
  ASSUME RInv, NEW c \in Server, Environment(c), NEW d \in Server
  PROVE  Mapped(d)' /\ budget'["loss"] = 0
<1>1. Mapped(d) /\ Mapped(c) /\ TypeOK /\ budget["loss"] = 0
  BY DEF RInv
<1>2. budget'["loss"] = 0
  BY <1>1 DEF Environment, TypeOK, Start, Crash, Die, Interrupt, SessionExpires,
     OldSessionExpires, ServerFails, CallActivation, Spend, Event
<1>3. CASE d # c
  <2>1. /\ pc'[d] = pc[d] /\ lock'[d] = lock[d] /\ session'[d] = session[d]
        /\ rSupport'[d] = rSupport[d] /\ paths \subseteq paths'
    BY <1>1, <1>3 DEF Environment, TypeOK, Start, Crash, Die, Interrupt, SessionExpires,
       OldSessionExpires, ServerFails, CallActivation, zkVars, globals
  <2> QED
    BY <1>1, <1>2, <2>1, FrameMapped
<1>4. CASE d = c
  <2> USE <1>1, <1>2, <1>4 DEF Mapped, TypeOK
  <2>1. CASE Start(c)
    BY <2>1 DEF Start
  <2>2. CASE Crash(c)
    BY <2>2 DEF Crash, Die, globals
  <2>3. CASE Interrupt(c)
    BY <2>3 DEF Interrupt, zkVars
  <2>4. CASE SessionExpires(c) \/ OldSessionExpires(c)
    BY <2>4 DEF SessionExpires, OldSessionExpires, globals
  <2>5. CASE ServerFails(c) \/ CallActivation(c)
    BY <2>5 DEF ServerFails, CallActivation, zkVars, globals
  <2> QED
    BY <2>1, <2>2, <2>3, <2>4, <2>5 DEF Environment
<1> QED
  BY <1>3, <1>4

LEMMA NextRInv == RInv /\ [Next]_vars => RInv'
<1> SUFFICES ASSUME RInv, [Next]_vars
             PROVE  budget'["loss"] = 0 /\ \A d \in Server : Mapped(d)'
  BY NextTypeOK DEF RInv
<1>1. ASSUME NEW c \in Server, MainStep(c) PROVE RInv'
  BY <1>1, MainStepMapped, NextTypeOK DEF RInv
<1>2. ASSUME NEW c \in Server, NEW t \in Thread, EvaluateStep(c, t) PROVE RInv'
  BY <1>2, EvaluateStepMapped, NextTypeOK DEF RInv
<1>3. ASSUME NEW c \in Server, Dispatch(c)
      PROVE  budget'["loss"] = 0 /\ \A d \in Server : Mapped(d)'
  BY <1>3 DEF RInv, Dispatch, Goto, Mapped, TypeOK, globals
<1>4. ASSUME NEW c \in Server, Environment(c) PROVE RInv'
  BY <1>4, EnvironmentMapped, NextTypeOK DEF RInv
<1>5. CASE RegisterGroup
  BY <1>5 DEF RegisterGroup, RInv, Mapped, globals
<1>6. CASE UNCHANGED vars
  BY <1>6 DEF vars, zkVars, globals, RInv, Mapped
<1> QED
  BY <1>1, <1>2, <1>3, <1>4, <1>5, <1>6 DEF Next, RInv

-----------------------------------------------------------------------------
(* A step of one controller is a step of one node, or none *)

Member(c) == lock[c] # "free"

\* A step of c as one of the abstract node's, in terms of that node alone.
Move(c) ==
  \/ PhaseOf(c)' = PhaseOf(c) /\ Member(c)' = Member(c)
  \/ PhaseOf(c) = "gone" /\ PhaseOf(c)' = "out" /\ Member(c)' = Member(c)
  \/ /\ PhaseOf(c) = "out" /\ PhaseOf(c)' = "cleared" /\ Member(c)' = Member(c)
     /\ Exclusive(c) => Active = {}
  \/ PhaseOf(c) = "cleared" /\ PhaseOf(c)' = "out" /\ Member(c)' = Member(c)
  \/ /\ PhaseOf(c) = "cleared" \/ (PhaseOf(c) = "out" /\ ~Exclusive(c))
     /\ ~Member(c) /\ Member(c)' /\ PhaseOf(c)' = "in"
  \/ PhaseOf(c) # "gone" /\ PhaseOf(c)' = "gone" /\ (Member(c)' => Member(c))
  \/ Member(c) /\ PhaseOf(c) # "in" /\ ~Member(c)' /\ PhaseOf(c)' = PhaseOf(c)

OthersStay(c) == \A d \in Server \ {c} :
  /\ pc'[d] = pc[d] /\ lock'[d] = lock[d] /\ session'[d] = session[d] /\ seen'[d] = seen[d]

LEMMA MoveIsStep ==
  ASSUME NEW c \in Server, OthersStay(c), Move(c)
  PROVE  [Group!Next]_(Group!vars)
<1>1. \A d \in Server \ {c} : PhaseOf(d)' = PhaseOf(d) /\ Member(d)' = Member(d)
  BY DEF OthersStay, PhaseOf, Member, Cleared, Running
<1>2. Phase' = [Phase EXCEPT ![c] = PhaseOf(c)']
  BY <1>1 DEF Phase
<1>3. Active' = IF Member(c)' THEN Active \cup {c} ELSE Active \ {c}
  BY <1>1 DEF Active, Member
<1>4. (c \in Active <=> Member(c)) /\ Phase[c] = PhaseOf(c)
  BY DEF Active, Member, Phase
<1>5. \A d \in Server : d \in {e \in Server : Exclusive(e)} <=> Exclusive(d)
  OBVIOUS
<1> HIDE DEF PhaseOf, Member
<1>6. CASE PhaseOf(c)' = PhaseOf(c) /\ Member(c)' = Member(c)
  <2>1. Phase' = Phase
    BY <1>2, <1>4, <1>6 DEF Phase
  <2>2. Active' = Active
    BY <1>3, <1>4, <1>6
  <2> QED
    BY <2>1, <2>2 DEF Group!vars
<1>7. CASE PhaseOf(c) = "gone" /\ PhaseOf(c)' = "out" /\ Member(c)' = Member(c)
  <2>1. Group!Begin(c)
    BY <1>2, <1>3, <1>4, <1>7 DEF Group!Begin
  <2> QED
    BY <2>1 DEF Group!Next
<1>8. CASE /\ PhaseOf(c) = "out" /\ PhaseOf(c)' = "cleared" /\ Member(c)' = Member(c)
           /\ Exclusive(c) => Active = {}
  <2>1. Group!Clear(c)
    BY <1>2, <1>3, <1>4, <1>5, <1>8 DEF Group!Clear
  <2> QED
    BY <2>1 DEF Group!Next
<1>9. CASE PhaseOf(c) = "cleared" /\ PhaseOf(c)' = "out" /\ Member(c)' = Member(c)
  <2>1. Group!Withdraw(c)
    BY <1>2, <1>3, <1>4, <1>9 DEF Group!Withdraw
  <2> QED
    BY <2>1 DEF Group!Next
<1>10. CASE /\ PhaseOf(c) = "cleared" \/ (PhaseOf(c) = "out" /\ ~Exclusive(c))
            /\ ~Member(c) /\ Member(c)' /\ PhaseOf(c)' = "in"
  <2>1. Group!Join(c)
    BY <1>2, <1>3, <1>4, <1>5, <1>10 DEF Group!Join
  <2> QED
    BY <2>1 DEF Group!Next
<1>11. CASE PhaseOf(c) # "gone" /\ PhaseOf(c)' = "gone" /\ (Member(c)' => Member(c))
  <2>1. Group!End(c)
    BY <1>2, <1>3, <1>4, <1>11 DEF Group!End
  <2> QED
    BY <2>1 DEF Group!Next
<1>12. CASE Member(c) /\ PhaseOf(c) # "in" /\ ~Member(c)' /\ PhaseOf(c)' = PhaseOf(c)
  <2>1. Phase' = Phase
    BY <1>2, <1>4, <1>12 DEF Phase
  <2>2. Group!Forget(c)
    BY <2>1, <1>3, <1>4, <1>12 DEF Group!Forget
  <2> QED
    BY <2>2 DEF Group!Next
<1> QED
  BY <1>6, <1>7, <1>8, <1>9, <1>10, <1>11, <1>12 DEF Move
\* A step that leaves lock, session and run alone clears a node only as allowed.
LEMMA QuietMove ==
  ASSUME NEW c \in Server, lock'[c] = lock[c], session'[c] = session[c],
         Running(c)' <=> Running(c),
         Cleared(c)' => \/ Cleared(c) \/ session[c] = "over"
                        \/ Exclusive(c) => Active = {}
  PROVE  Move(c)
  BY DEF Move, PhaseOf, Member

\* Lock, session and run stay, and no thread of c comes to the list or the lock.
Idle(c) ==
  /\ lock'[c] = lock[c] /\ session'[c] = session[c]
  /\ pc'[c]["main"] = "gone" <=> pc[c]["main"] = "gone"
  /\ \A t \in Thread : \/ pc'[c][t] = pc[c][t] /\ seen'[c][t] = seen[c][t]
                      \/ pc'[c][t] \notin {"lock", "evaluate"}

LEMMA IdleMove ==
  ASSUME NEW c \in Server, Idle(c)
  PROVE  Move(c)
<1>1. Cleared(c)' => Cleared(c)
  BY DEF Idle, Cleared
<1>2. Running(c)' <=> Running(c)
  BY DEF Idle, Running
<1> QED
  BY <1>1, <1>2, QuietMove DEF Idle

\* A process that ends leaves its znode behind.
LEMMA DieMove ==
  ASSUME TypeOK, NEW c \in Server, Die(c)
  PROVE  Move(c)
  BY DEF TypeOK, Die, Move, PhaseOf, Member, Running

LEMMA MainStepMove ==
  ASSUME RInv, NEW c \in Server, MainStep(c)
  PROVE  OthersStay(c) /\ Move(c)
<1> USE DEF Goto
<1>1. Mapped(c) /\ TypeOK /\ budget["loss"] = 0
  BY DEF RInv
<1>2. OthersStay(c)
  BY <1>1 DEF OthersStay, MainStep, TypeOK, CreateRedundancy, ExistsActive, CreateActive,
     Configure, LockAlone, CreateActiveNode, ConnectAlone, Close, zkVars, locals
<1>3. Idle(c) \/ Move(c)
  <2> USE <1>1 DEF TypeOK
  <2>1. CASE CreateRedundancy(c)
    BY <2>1 DEF Idle, CreateRedundancy, locals
  <2>2. CASE ExistsActive(c)
    BY <2>2 DEF Idle, ExistsActive, locals
  <2>3. CASE CreateActive(c)
    BY <2>3 DEF Idle, CreateActive, locals
  <2>4. CASE Configure(c)
    BY <2>4 DEF Idle, Configure, zkVars, locals
  <2>5. CASE LockAlone(c) /\ UNCHANGED zkVars
    BY <2>5 DEF Idle, LockAlone, zkVars, locals
  <2>6. CASE LockAlone(c) /\ Answered(c) /\ CanCreate(c) /\ CreateActiveNode(c)
    <3>1. pc[c]["main"] = "lockAlone" /\ pc'[c]["main"] = "connectAlone"
      BY <2>6 DEF LockAlone
    <3>2. session[c] = "live" /\ session'[c] = "live"
      BY <2>6 DEF Answered, CreateActiveNode
    <3>3. lock[c] = "free" /\ lock'[c] = "mine"
      BY <2>6 DEF CanCreate, CreateActiveNode
    <3>4. ~Exclusive(c)
      BY <3>1 DEF Mapped, Exclusive
    <3> QED
      BY <3>1, <3>2, <3>3, <3>4 DEF Move, PhaseOf, Member, Running
  <2>7. CASE ConnectAlone(c)
    BY <2>7 DEF Idle, ConnectAlone, zkVars, locals
  <2>8. CASE Close(c)
    BY <2>8 DEF Close, Move, PhaseOf, Member, Mapped
  <2> QED
    BY <2>1, <2>2, <2>3, <2>4, <2>5, <2>6, <2>7, <2>8 DEF MainStep, LockAlone
<1> QED
  BY <1>2, <1>3, IdleMove

\* A list that finds nothing under Active, or no Active, finds the group empty.
LEMMA ListMove ==
  ASSUME RInv, NEW c \in Server, NEW t \in Thread, List(c, t)
  PROVE  Move(c)
<1> USE DEF Goto
<1>1. Mapped(c) /\ TypeOK /\ budget["loss"] = 0
  BY DEF RInv
<1>2. lock'[c] = lock[c] /\ session'[c] = session[c]
  BY <1>1 DEF List
<1>3. Running(c)' = Running(c)
  BY <1>1 DEF List, TypeOK, Running
<1>4. CASE Answered(c) /\ "active" \notin paths
  <2>1. Active = {}
    BY <1>4 DEF RInv, Mapped, Active
  <2> QED
    BY <1>2, <1>3, <2>1, QuietMove
<1>5. CASE Unanswered(c)
  BY <1>1, <1>2, <1>3, <1>5, QuietMove DEF Unanswered, Spend
<1>6. CASE Answered(c) /\ "active" \in paths
  <2>1. seen' = [seen EXCEPT ![c][t] = Active] /\ pc' = [pc EXCEPT ![c][t] = "evaluate"]
    <3>1. ~Unanswered(c)
      BY <1>1, <1>6 DEF Answered, Unanswered, Spend
    <3> QED
      BY <1>6, <3>1 DEF List
  <2>2. Cleared(c)' => Cleared(c) \/ Active = {}
    BY <1>1, <2>1 DEF Cleared, TypeOK
  <2> QED
    BY <1>2, <1>3, <2>2, QuietMove
<1> QED
  BY <1>4, <1>5, <1>6 DEF List

\* A cold or warm controller goes for the lock only if it saw an empty group.
LEMMA EvaluateMove ==
  ASSUME RInv, NEW c \in Server, NEW t \in Thread, Evaluate(c, t)
  PROVE  Move(c)
<1> USE DEF Goto, Resting
<1>1. Mapped(c) /\ TypeOK
  BY DEF RInv
<1>2. lock'[c] = lock[c] /\ session'[c] = session[c]
  BY <1>1 DEF Evaluate, zkVars
<1>3. Running(c)' = Running(c)
  BY <1>1 DEF Evaluate, TypeOK, Running
<1>4. Exclusive(c) /\ MayActivate(c, seen[c][t]) => Cleared(c)
  BY <1>1 DEF Evaluate, MayActivate, Mapped, Exclusive, Cleared
<1>5. Cleared(c)' => Cleared(c) \/ MayActivate(c, seen[c][t])
  BY <1>1 DEF Evaluate, Cleared, TypeOK
<1> QED
  BY <1>2, <1>3, <1>4, <1>5, QuietMove

LEMMA GetLockMove ==
  ASSUME RInv, NEW c \in Server, NEW t \in Thread, GetLock(c, t)
  PROVE  Move(c)
<1>1. Mapped(c) /\ TypeOK
  BY DEF RInv
<1>2. session[c] = "live" /\ session'[c] = "live" /\ lock[c] = "free" /\ lock'[c] = "mine"
  BY <1>1 DEF GetLock, Answered, CanCreate, CreateActiveNode, TypeOK
<1>3. Running(c) /\ Running(c)' /\ Cleared(c)
  BY <1>1 DEF GetLock, Goto, Running, Mapped, Cleared, TypeOK
<1> QED
  BY <1>2, <1>3 DEF Move, PhaseOf, Member

LEMMA EvaluateStepMove ==
  ASSUME RInv, NEW c \in Server, NEW t \in Thread, EvaluateStep(c, t)
  PROVE  OthersStay(c) /\ Move(c)
<1> USE DEF Goto, Return, Resting
<1>1. Mapped(c) /\ TypeOK /\ budget["loss"] = 0
  BY DEF RInv
<1>2. OthersStay(c)
  BY <1>1 DEF OthersStay, EvaluateStep, TypeOK, List, Evaluate, GetLock, MissLock,
     CreateActiveNode, ActivateCold, Connect, ConnectFails, Die, MonitorStopped,
     ReadRunning, ReadSuspended, ReadFails, zkVars, locals
<1>3. Idle(c) \/ Move(c)
  <2> USE <1>1 DEF TypeOK, Mapped
  <2>1. CASE MissLock(c, t)
    <3>1. UNCHANGED <<zkVars, locals>>
      BY <2>1 DEF MissLock, Unanswered, Spend
    <3> QED
      BY <2>1, <3>1 DEF Idle, MissLock, zkVars, locals
  <2>2. CASE ActivateCold(c, t) \/ Connect(c, t)
    BY <2>2 DEF Idle, ActivateCold, Connect, zkVars, locals
  <2>3. CASE ConnectFails(c, t)
    <3>1. CASE Die(c)
      BY <3>1, DieMove
    <3>2. CASE UNCHANGED <<zkVars, pc, seen>>
      BY <3>2 DEF Idle, zkVars
    <3> QED
      BY <2>3, <3>1, <3>2 DEF ConnectFails
  <2>4. CASE MonitorStopped(c, t) \/ ReadRunning(c, t)
    BY <2>4 DEF Idle, MonitorStopped, ReadRunning, zkVars, locals
  <2>5. CASE ReadSuspended(c, t) \/ ReadFails(c, t)
    BY <2>5 DEF Idle, ReadSuspended, ReadFails, zkVars, locals
  <2> QED
    BY <2>1, <2>2, <2>3, <2>4, <2>5, ListMove, EvaluateMove, GetLockMove DEF EvaluateStep
<1> QED
  BY <1>2, <1>3, IdleMove

LEMMA EnvironmentMove ==
  ASSUME RInv, NEW c \in Server, Environment(c)
  PROVE  OthersStay(c) /\ Move(c)
<1>1. Mapped(c) /\ TypeOK
  BY DEF RInv
<1>2. OthersStay(c)
  BY <1>1 DEF OthersStay, Environment, TypeOK, Start, Crash, Die, Interrupt, SessionExpires,
     OldSessionExpires, ServerFails, CallActivation, zkVars, locals
<1>3. Idle(c) \/ Move(c)
  <2> USE <1>1 DEF TypeOK
  <2>1. CASE Start(c)
    BY <2>1 DEF Start, Move, PhaseOf, Member, Running, Cleared
  <2>2. CASE Crash(c)
    BY <2>2, DieMove DEF Crash
  <2>3. CASE SessionExpires(c)
    BY <2>3 DEF SessionExpires, Move, PhaseOf, Member, Running
  <2>4. CASE OldSessionExpires(c)
    BY <2>4 DEF OldSessionExpires, Move, PhaseOf, Member, Running, Cleared, locals
  <2>5. CASE Interrupt(c) \/ ServerFails(c) \/ CallActivation(c)
    BY <2>5 DEF Idle, Interrupt, ServerFails, CallActivation, zkVars, locals
  <2> QED
    BY <2>1, <2>2, <2>3, <2>4, <2>5 DEF Environment
<1> QED
  BY <1>2, <1>3, IdleMove

LEMMA NextIsStep == RInv /\ [Next]_vars => [Group!Next]_(Group!vars)
<1> SUFFICES ASSUME RInv, [Next]_vars PROVE [Group!Next]_(Group!vars)
  OBVIOUS
<1>1. ASSUME NEW c \in Server, MainStep(c) PROVE [Group!Next]_(Group!vars)
  BY <1>1, MainStepMove, MoveIsStep
<1>2. ASSUME NEW c \in Server, NEW t \in Thread, EvaluateStep(c, t)
      PROVE [Group!Next]_(Group!vars)
  BY <1>2, EvaluateStepMove, MoveIsStep
<1>3. ASSUME NEW c \in Server, Dispatch(c) PROVE [Group!Next]_(Group!vars)
  <2>1. OthersStay(c)
    BY <1>3 DEF RInv, TypeOK, Dispatch, Goto, OthersStay, locals
  <2>2. Move(c)
    <3>1. Mapped(c) /\ TypeOK
      BY DEF RInv
    <3>2. Idle(c)
      BY <1>3, <3>1 DEF Idle, Mapped, TypeOK, Dispatch, Goto, locals
    <3> QED
      BY <3>2, IdleMove
  <2> QED
    BY <2>1, <2>2, MoveIsStep
<1>4. ASSUME NEW c \in Server, Environment(c) PROVE [Group!Next]_(Group!vars)
  BY <1>4, EnvironmentMove, MoveIsStep
<1>5. CASE UNCHANGED <<lock, session, pc, seen>>
  BY <1>5 DEF Group!vars, Phase, PhaseOf, Active, Running, Cleared
<1> QED
  BY <1>1, <1>2, <1>3, <1>4, <1>5
  DEF Next, RegisterGroup, vars, zkVars, locals

LEMMA InitIsInit == Init => Group!Init
  BY DEF Init, Group!Init, Phase, PhaseOf, Active, Running

\* A group of any size and any modes, whatever crashes, expires and restarts,
\* does no more than RedundancyGroup allows, if ZooKeeper's replies all arrive: a
\* cold or warm controller joins only after it found the group empty, and no
\* place is given up while its run and session last.
THEOREM ImplementsIfAnswered ==
  ASSUME Budget["loss"] = 0
  PROVE  Spec => ImplementsGroup
<1>1. Init => RInv
  BY InitTypeOK DEF Init, RInv, Mapped
<1>2. Spec => []RInv
  BY <1>1, NextRInv, PTL DEF Spec
<1> QED
  BY InitIsInit, NextIsStep, <1>2, PTL DEF Spec, ImplementsGroup, Group!Spec

=============================================================================
