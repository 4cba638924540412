------------------------------ MODULE Replica ------------------------------
(***************************************************************************)
(* What the copy of the address space in a server without writers promises *)
(* whatever its threads, watches and events do: of a node it shows nothing *)
(* or a value that it fetched from ZooKeeper and recorded before, and it   *)
(* never goes back to an older version.  Fetching a version, recording it  *)
(* and showing it are steps of their own, between which others publish.    *)
(* Only a node it never recorded may show a value of its own; it is pushed,*)
(* and the version found after that recorded.                              *)
(***************************************************************************)
EXTENDS Naturals

CONSTANTS Node,    \* the nodes of the address space
          Reader   \* the servers without writers

VARIABLES latest,  \* the value and mzxid of each node on ZooKeeper; mzxid 0: none
          table,   \* the mzxid each reader has recorded of each node
          shown,   \* the value each reader shows of each node, 0 for none
          job      \* the version each reader is copying, or has pushed

vars == <<latest, table, shown, job>>

Job(phase, n, version, v) == [phase |-> phase, node |-> n, mzxid |-> version, val |-> v]
Free == Job("free", 0, 0, 0)

Init ==
  /\ table = [s \in Reader |-> [n \in Node |-> 0]]
  /\ shown = [s \in Reader |-> [n \in Node |-> 0]]
  /\ job = [s \in Reader |-> Free]

Newer(n) ==
  /\ latest[n].mzxid < latest'[n].mzxid
  /\ \A m \in Node \ {n} : latest'[m] = latest[m]

Publish(n) == Newer(n) /\ UNCHANGED <<table, shown, job>>

Fetch(s, n) ==
  /\ job[s] = Free /\ latest[n].mzxid # 0
  /\ job' = [job EXCEPT ![s] = Job("fetched", n, latest[n].mzxid, latest[n].val)]
  /\ UNCHANGED <<latest, table, shown>>

Record(s) ==
  /\ job[s].phase = "fetched"
  /\ table[s][job[s].node] < job[s].mzxid
  /\ table' = [table EXCEPT ![s][job[s].node] = job[s].mzxid]
  /\ job' = [job EXCEPT ![s].phase = "recorded"]
  /\ UNCHANGED <<latest, shown>>

\* The recorded version is shown, or the one before taken away.
Show(s) ==
  /\ job[s].phase = "recorded"
  /\ \E v \in {0, job[s].val} : shown' = [shown EXCEPT ![s][job[s].node] = v]
  /\ job' \in {job, [job EXCEPT ![s] = Free]}
  /\ UNCHANGED <<latest, table>>

Drop(s) ==
  /\ job[s].phase \in {"fetched", "recorded"}
  /\ job' = [job EXCEPT ![s] = Free]
  /\ UNCHANGED <<latest, table, shown>>

Originate(s, n) ==
  /\ job[s] = Free /\ table[s][n] = 0 /\ shown[s][n] = 0
  /\ \A q \in Reader, m \in Node : <<q, m>> # <<s, n>> => shown'[q][m] = shown[q][m]
  /\ UNCHANGED <<latest, table, job>>

\* What is found after a push may be a later version, by somebody else.
Push(s, n) ==
  /\ job[s] = Free /\ table[s][n] = 0
  /\ Newer(n) \/ UNCHANGED latest
  /\ job' = [job EXCEPT ![s] = Job("pushed", n, latest'[n].mzxid, 0)]
  /\ UNCHANGED <<table, shown>>

RecordPushed(s) ==
  /\ job[s].phase = "pushed"
  /\ table[s][job[s].node] = 0
  /\ table' = [table EXCEPT ![s][job[s].node] = job[s].mzxid]
  /\ job' = [job EXCEPT ![s] = Free]
  /\ UNCHANGED <<latest, shown>>

Restart(s) ==
  /\ table' = [table EXCEPT ![s] = [n \in Node |-> 0]]
  /\ shown' = [shown EXCEPT ![s] = [n \in Node |-> 0]]
  /\ job' = [job EXCEPT ![s] = Free]
  /\ UNCHANGED latest

Next ==
  \/ \E n \in Node : Publish(n)
  \/ \E s \in Reader : Record(s) \/ Show(s) \/ Drop(s) \/ RecordPushed(s) \/ Restart(s)
  \/ \E s \in Reader, n \in Node : Fetch(s, n) \/ Originate(s, n) \/ Push(s, n)

Spec == Init /\ [][Next]_vars

=============================================================================
