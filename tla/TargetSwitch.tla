----------------------------- MODULE TargetSwitch -----------------------------
(***************************************************************************)
(* The switch coordinator of the api (services/api/src/active-target.ts):  *)
(* the process-wide active Redis target and the two-phase prepare/commit   *)
(* hand-off that every call of setActiveTarget runs.                       *)
(*                                                                         *)
(* Each call is a coroutine: it runs to its first await in one step, waits *)
(* for the services to drain or for the drain timer, then commits and      *)
(* pushes the commit.  Nothing serialises two calls, so the coroutines of  *)
(* overlapping switches interleave.  A switch is named by the order of its *)
(* call (the code draws a random switch_id).                               *)
(***************************************************************************)
EXTENDS Naturals, Sequences

CONSTANTS
  Endpoint,   \* Redis identities: host, port, tls, db and clusterMode
  Label,      \* profile names shown to the operator
  Cred,       \* username and password pairs
  Service,    \* KNOWN_SERVICES, the participants of a switch
  Stranger,   \* other names that may reach the acknowledgement endpoint
  NoTarget,   \* override === undefined
  MaxSwitch,  \* bound: calls of setActiveTarget
  MaxAck      \* bound: accepted acknowledgements per switch

ASSUME SwitchAssumption ==
  /\ MaxSwitch \in Nat
  /\ MaxAck \in Nat
  /\ Service \cap Stranger = {}

VARIABLES
  override,       \* the active target singleton
  version,        \* activeTargetVersion
  calls,          \* calls of setActiveTarget so far; the last one is currentSwitch
  pc,             \* where the coroutine of each call is
  next,           \* target each call installs
  announced,      \* version the commit push of each call carries
  per,            \* perService phases of each switch record
  push,           \* the HTTP push of each phase to each service
  acked           \* accepted calls of the acknowledgement endpoint, by switch

vars == <<override, version, calls, pc, next, announced, per, push, acked>>

Target == [ep : Endpoint, label : Label, cred : Cred]
Switch == 1..MaxSwitch
Member == Service \cup Stranger
PushPhase == {"prepare", "commit"}
ServicePhase ==
  {"absent", "pending", "drained", "committed", "drain_timeout", "push_failed", "error"}

\* "waiting": in waitForDrain with drainNotify armed.  "resumable": the wait
\* resolved, the continuation is queued.  "committed": record.phase.
Control == {"idle", "waiting", "resumable", "committed"}
PushState == {"none", "first", "retry", "ok", "failed"}

currentSwitch == calls

Init ==
  /\ override = NoTarget
  /\ version = 1
  /\ calls = 0
  /\ pc = [s \in Switch |-> "idle"]
  /\ next = [s \in Switch |-> NoTarget]
  /\ announced = [s \in Switch |-> 0]
  /\ per = [s \in Switch |-> [m \in Member |-> "absent"]]
  /\ push = [s \in Switch |-> [ph \in PushPhase |-> [m \in Service |-> "none"]]]
  /\ acked = [s \in Switch |-> <<>>]

-------------------------------------------------------------------------------
(* Drain bookkeeping *)

allTerminallyDrained(p) == \A m \in Member : p[m] # "pending"

\* drainNotify of the current switch: finish the wait once nothing is pending.
drainNotify(s, p) ==
  IF pc[s] = "waiting" /\ allTerminallyDrained(p)
  THEN [pc EXCEPT ![s] = "resumable"]
  ELSE pc

SetPhase(s, m, ph) ==
  /\ per' = [per EXCEPT ![s][m] = ph]
  /\ pc' = drainNotify(s, per'[s])

Started(f, s, ph) == [f EXCEPT ![s][ph] = [m \in Service |-> "first"]]

-------------------------------------------------------------------------------
(* setActiveTarget *)

\* Mutant: the commit forgets to bump activeTargetVersion.
commitActiveTargetSync_KeepsVersion(t) ==
  /\ override' = t
  /\ version' = version

commitActiveTargetSync(t) ==
  /\ override' = t
  /\ version' = version + 1

OpenSwitch(s, t) ==
  /\ calls' = s
  /\ next' = [next EXCEPT ![s] = t]
  /\ per' = [per EXCEPT ![s] = [m \in Member |->
                                  IF m \in Service THEN "pending" ELSE "absent"]]

\* No old target, or nobody to notify: commit inside the call.
SetActiveTargetFast(t) ==
  LET s == calls + 1 IN
  /\ calls < MaxSwitch
  /\ override = NoTarget \/ Service = {}
  /\ OpenSwitch(s, t)
  /\ commitActiveTargetSync(t)
  /\ pc' = [pc EXCEPT ![s] = "committed"]
  /\ announced' = [announced EXCEPT ![s] = version']
  /\ UNCHANGED <<push, acked>>

\* Otherwise start the prepare push and wait.
SetActiveTargetSlow(t) ==
  LET s == calls + 1 IN
  /\ calls < MaxSwitch
  /\ override # NoTarget /\ Service # {}
  /\ OpenSwitch(s, t)
  /\ pc' = [pc EXCEPT ![s] = "waiting"]
  /\ push' = Started(push, s, "prepare")
  /\ UNCHANGED <<override, version, announced, acked>>

setActiveTarget(t) == SetActiveTargetFast(t) \/ SetActiveTargetSlow(t)

\* Mutant: the timer only resolves the wait of the current switch.
DrainTimeout_CurrentOnly(s) ==
  /\ pc[s] = "waiting" /\ s = currentSwitch
  /\ pc' = [pc EXCEPT ![s] = "resumable"]
  /\ UNCHANGED <<override, version, calls, next, announced, per, push, acked>>

\* SWITCH_DRAIN_TIMEOUT_MS elapses while the call waits.
DrainTimeout(s) ==
  /\ pc[s] = "waiting"
  /\ pc' = [pc EXCEPT ![s] = "resumable"]
  /\ UNCHANGED <<override, version, calls, next, announced, per, push, acked>>

MarkDrainTimeouts(p) ==
  [m \in Member |-> IF p[m] = "pending" THEN "drain_timeout" ELSE p[m]]

\* The continuation after waitForDrain, up to the commit push.
CommitSwitch(s) ==
  /\ pc[s] = "resumable"
  /\ per' = [per EXCEPT ![s] = MarkDrainTimeouts(@)]
  /\ commitActiveTargetSync(next[s])
  /\ pc' = [pc EXCEPT ![s] = "committed"]
  /\ announced' = [announced EXCEPT ![s] = version']
  /\ push' = Started(push, s, "commit")
  /\ UNCHANGED <<calls, next, acked>>

\* setActiveTargetLabel: a rename of the active profile.
setActiveTargetLabel(l) ==
  /\ override # NoTarget
  /\ override' = [override EXCEPT !.label = l]
  /\ UNCHANGED <<version, calls, pc, next, announced, per, push, acked>>

-------------------------------------------------------------------------------
(* Replies to the pushes and the acknowledgement endpoint *)

InFlight == {"first", "retry"}

\* Mutant: the answer is booked on whichever switch is current.
applyPushAck_AnySwitch(s, m, ph) ==
  IF per[currentSwitch][m] # "pending" THEN UNCHANGED <<per, pc>>
  ELSE SetPhase(currentSwitch, m, IF ph = "prepare" THEN "drained" ELSE "committed")

applyPushAck(s, m, ph) ==
  LET p == per[s][m] IN
  IF s # currentSwitch THEN UNCHANGED <<per, pc>>
  ELSE IF ph = "prepare" /\ p = "pending" THEN SetPhase(s, m, "drained")
  ELSE IF ph = "commit" /\ p \in {"pending", "drained"} THEN SetPhase(s, m, "committed")
  ELSE UNCHANGED <<per, pc>>

\* Mutant: the failure is written even when the switch was superseded.
markPushFailed_Superseded(s, m) ==
  IF per[s][m] = "pending"
  THEN SetPhase(s, m, "push_failed")
  ELSE UNCHANGED <<per, pc>>

markPushFailed(s, m) ==
  IF s = currentSwitch /\ per[s][m] = "pending"
  THEN SetPhase(s, m, "push_failed")
  ELSE UNCHANGED <<per, pc>>

\* The service answered 2xx.
PushOk(s, ph, m) ==
  /\ push[s][ph][m] \in InFlight
  /\ push' = [push EXCEPT ![s][ph][m] = "ok"]
  /\ applyPushAck(s, m, ph)
  /\ UNCHANGED <<override, version, calls, next, announced, acked>>

\* Another status, a network error, or the second abort.
PushFailed(s, ph, m) ==
  /\ push[s][ph][m] \in InFlight
  /\ push' = [push EXCEPT ![s][ph][m] = "failed"]
  /\ markPushFailed(s, m)
  /\ UNCHANGED <<override, version, calls, next, announced, acked>>

\* The first AbortError is retried once.
PushAborted(s, ph, m) ==
  /\ push[s][ph][m] = "first"
  /\ push' = [push EXCEPT ![s][ph][m] = "retry"]
  /\ UNCHANGED <<override, version, calls, pc, next, announced, per, acked>>

\* POST /internal/redis/active-target/ack.  Anything that does not name the
\* current switch is answered 409 and changes nothing.
recordSwitchAck(s, m, ph) ==
  /\ calls # 0 /\ s = currentSwitch
  /\ Len(acked[s]) < MaxAck
  /\ SetPhase(s, m, ph)
  /\ acked' = [acked EXCEPT ![s] = Append(@, <<m, ph>>)]
  /\ UNCHANGED <<override, version, calls, next, announced, push>>

-------------------------------------------------------------------------------
AckPhase == {"drained", "committed", "error"}

PushReply ==
  \E s \in Switch, ph \in PushPhase, m \in Service :
     PushOk(s, ph, m) \/ PushFailed(s, ph, m)

PushStep ==
  \/ PushReply
  \/ \E s \in Switch, ph \in PushPhase, m \in Service : PushAborted(s, ph, m)

AckStep == \E s \in Switch, m \in Member, ph \in AckPhase : recordSwitchAck(s, m, ph)

Next ==
  \/ \E t \in Target : setActiveTarget(t)
  \/ \E l \in Label : setActiveTargetLabel(l)
  \/ \E s \in Switch : DrainTimeout(s) \/ CommitSwitch(s)
  \/ PushStep
  \/ AckStep

\* The event loop runs expired timers and queued continuations; whether a
\* service ever answers is not assumed.
Fairness == \A s \in Switch : WF_vars(DrainTimeout(s)) /\ WF_vars(CommitSwitch(s))

Spec == Init /\ [][Next]_vars /\ Fairness

-------------------------------------------------------------------------------
(* Properties *)

Abstract == INSTANCE ActiveTarget WITH target <- override

\* However switches overlap, time out or are superseded, readers of the target
\* see the abstract one: each replacement carries a version of its own.
ImplementsActiveTarget == Abstract!ASpec

TypeOK ==
  /\ override \in Target \cup {NoTarget}
  /\ version \in Nat \ {0}
  /\ calls \in 0..MaxSwitch
  /\ pc \in [Switch -> Control]
  /\ next \in [Switch -> Target \cup {NoTarget}]
  /\ announced \in [Switch -> Nat]
  /\ per \in [Switch -> [Member -> ServicePhase]]
  /\ push \in [Switch -> [PushPhase -> [Service -> PushState]]]
  /\ acked \in [Switch -> Seq(Member \X AckPhase)]

Committed(s) == pc[s] = "committed"
Acked(s, m, ph) == \E i \in DOMAIN acked[s] : acked[s][i] = <<m, ph>>

\* Pollers tell targets apart by version alone: no two commits, however their
\* coroutines interleave, announce the same version, and none announces a
\* version above the one the /full endpoint serves.
VersionsIdentifyCommits ==
  \A s \in Switch : Committed(s) =>
    /\ announced[s] \in 2..version
    /\ \A r \in Switch : Committed(r) /\ announced[r] = announced[s] => r = s

\* The status of a service never claims more than that service said for this
\* very switch: a late answer to a superseded switch cannot poison its
\* successor (internal-target.ts, POST .../ack).
StatusBackedByAnswer ==
  \A s \in Switch, m \in Member :
    /\ per[s][m] = "drained" =>
         \/ Acked(s, m, "drained")
         \/ m \in Service /\ push[s]["prepare"][m] = "ok"
    /\ per[s][m] = "committed" =>
         \/ Acked(s, m, "committed")
         \/ m \in Service /\ push[s]["commit"][m] = "ok"

\* The record of a superseded switch is closed: only its own drain timeout
\* still writes to it.
SupersededRecordClosed ==
  [][\A s \in Switch, m \in Member :
        s < calls /\ per'[s][m] # per[s][m]
          => /\ per[s][m] = "pending" /\ per'[s][m] = "drain_timeout"
             /\ Committed(s)']_vars

\* Every switch commits, whatever the services answer or fail to answer.
EverySwitchCommits == <>[](\A s \in Switch : calls >= s => Committed(s))
===============================================================================
