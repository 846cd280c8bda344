----------------------------- MODULE TargetProofs -----------------------------
(* What holds of the switch coordinator, and of the connection profiles    *)
(* that drive it, for every set of services and of profiles, every number  *)
(* of overlapping switches and every bound.                                *)
EXTENDS Connections, TLAPS

\* A step is one of these actions: the frame of the proofs by cases below.
LEMMA NextCases ==
  ASSUME [Next]_vars
  PROVE  \/ \E t \in Target : SetActiveTargetFast(t)
         \/ \E t \in Target : SetActiveTargetSlow(t)
         \/ \E l \in Label : setActiveTargetLabel(l)
         \/ \E s \in Switch : DrainTimeout(s)
         \/ \E s \in Switch : CommitSwitch(s)
         \/ \E s \in Switch, ph \in PushPhase, m \in Service : PushOk(s, ph, m)
         \/ \E s \in Switch, ph \in PushPhase, m \in Service : PushFailed(s, ph, m)
         \/ \E s \in Switch, ph \in PushPhase, m \in Service : PushAborted(s, ph, m)
         \/ \E s \in Switch, m \in Member, ph \in AckPhase : recordSwitchAck(s, m, ph)
         \/ UNCHANGED vars
  BY DEF Next, setActiveTarget, PushStep, PushReply, AckStep

\* A phase written by SetPhase leaves the records and the control well typed.
LEMMA SetPhaseType ==
  ASSUME TypeOK, NEW s \in Switch, NEW m \in Member, NEW ph \in ServicePhase,
         SetPhase(s, m, ph)
  PROVE  /\ per' \in [Switch -> [Member -> ServicePhase]]
         /\ pc' \in [Switch -> Control]
  BY DEF TypeOK, SetPhase, drainNotify, Control

\* No step of the coordinator leaves the types, whatever the order of calls,
\* timers, push answers and acknowledgements.
LEMMA TypeStep == TypeOK /\ [Next]_vars => TypeOK'
<1> SUFFICES ASSUME TypeOK, [Next]_vars PROVE TypeOK'
  OBVIOUS
<1>1. ASSUME NEW t \in Target, SetActiveTargetFast(t) PROVE TypeOK'
  <2> DEFINE s == calls + 1
  <2>1. s \in Switch /\ s \in 0..MaxSwitch
    BY <1>1, SwitchAssumption DEF SetActiveTargetFast, TypeOK, Switch
  <2>2. [m \in Member |-> IF m \in Service THEN "pending" ELSE "absent"]
          \in [Member -> ServicePhase]
    BY DEF ServicePhase
  <2>3. version' \in Nat \ {0} /\ override' \in Target
    BY <1>1 DEF SetActiveTargetFast, commitActiveTargetSync, TypeOK
  <2> QED
    BY <1>1, <2>1, <2>2, <2>3
       DEF SetActiveTargetFast, OpenSwitch, TypeOK, Control
<1>2. ASSUME NEW t \in Target, SetActiveTargetSlow(t) PROVE TypeOK'
  <2> DEFINE s == calls + 1
  <2>1. s \in Switch /\ s \in 0..MaxSwitch
    BY <1>2, SwitchAssumption DEF SetActiveTargetSlow, TypeOK, Switch
  <2>2. [m \in Member |-> IF m \in Service THEN "pending" ELSE "absent"]
          \in [Member -> ServicePhase]
    BY DEF ServicePhase
  <2>3. push' \in [Switch -> [PushPhase -> [Service -> PushState]]]
    BY <1>2, <2>1 DEF SetActiveTargetSlow, Started, TypeOK, PushState
  <2> QED
    BY <1>2, <2>1, <2>2, <2>3
       DEF SetActiveTargetSlow, OpenSwitch, TypeOK, Control
<1>3. ASSUME NEW l \in Label, setActiveTargetLabel(l) PROVE TypeOK'
  <2>1. override' \in Target
    BY <1>3 DEF setActiveTargetLabel, TypeOK, Target
  <2> QED
    BY <1>3, <2>1 DEF setActiveTargetLabel, TypeOK
<1>4. ASSUME NEW s \in Switch, DrainTimeout(s) PROVE TypeOK'
  BY <1>4 DEF DrainTimeout, TypeOK, Control
<1>5. ASSUME NEW s \in Switch, CommitSwitch(s) PROVE TypeOK'
  <2>1. MarkDrainTimeouts(per[s]) \in [Member -> ServicePhase]
    BY DEF MarkDrainTimeouts, TypeOK, ServicePhase
  <2>2. push' \in [Switch -> [PushPhase -> [Service -> PushState]]]
    BY <1>5 DEF CommitSwitch, Started, TypeOK, PushState
  <2> QED
    BY <1>5, <2>1, <2>2 DEF CommitSwitch, commitActiveTargetSync, TypeOK, Control
<1>6. ASSUME NEW s \in Switch, NEW ph \in PushPhase, NEW m \in Service, PushOk(s, ph, m)
      PROVE  TypeOK'
  <2>1. m \in Member /\ "drained" \in ServicePhase /\ "committed" \in ServicePhase
    BY DEF Member, ServicePhase
  <2>2. /\ per' \in [Switch -> [Member -> ServicePhase]]
        /\ pc' \in [Switch -> Control]
    BY <1>6, <2>1, SetPhaseType DEF PushOk, applyPushAck, TypeOK
  <2> QED
    BY <1>6, <2>2 DEF PushOk, TypeOK, PushState
<1>7. ASSUME NEW s \in Switch, NEW ph \in PushPhase, NEW m \in Service, PushFailed(s, ph, m)
      PROVE  TypeOK'
  <2>1. m \in Member /\ "push_failed" \in ServicePhase
    BY DEF Member, ServicePhase
  <2>2. /\ per' \in [Switch -> [Member -> ServicePhase]]
        /\ pc' \in [Switch -> Control]
    BY <1>7, <2>1, SetPhaseType DEF PushFailed, markPushFailed, TypeOK
  <2> QED
    BY <1>7, <2>2 DEF PushFailed, TypeOK, PushState
<1>8. ASSUME NEW s \in Switch, NEW ph \in PushPhase, NEW m \in Service, PushAborted(s, ph, m)
      PROVE  TypeOK'
  BY <1>8 DEF PushAborted, TypeOK, PushState
<1>9. ASSUME NEW s \in Switch, NEW m \in Member, NEW ph \in AckPhase, recordSwitchAck(s, m, ph)
      PROVE  TypeOK'
  <2>1. acked' \in [Switch -> Seq(Member \X AckPhase)]
    BY <1>9 DEF recordSwitchAck, TypeOK
  <2>2. ph \in ServicePhase
    BY DEF AckPhase, ServicePhase
  <2>3. /\ per' \in [Switch -> [Member -> ServicePhase]]
        /\ pc' \in [Switch -> Control]
    BY <1>9, <2>2, SetPhaseType DEF recordSwitchAck
  <2> QED
    BY <1>9, <2>1, <2>3 DEF recordSwitchAck, TypeOK
<1>10. CASE UNCHANGED vars
  BY <1>10 DEF vars, TypeOK
<1> QED
  BY <1>1, <1>2, <1>3, <1>4, <1>5, <1>6, <1>7, <1>8, <1>9, <1>10, NextCases

\* Every variable of the coordinator keeps its type.
THEOREM TypeCorrect == Spec => []TypeOK
<1>1. Init => TypeOK
  BY SwitchAssumption
     DEF Init, TypeOK, Switch, Member, PushPhase, ServicePhase, Control, PushState
<1> QED
  BY <1>1, TypeStep, PTL DEF Spec

-------------------------------------------------------------------------------
\* The coroutines that will still commit hold the target they were called with.
PendingHasTarget == \A s \in Switch : pc[s] \in {"waiting", "resumable"} => next[s] \in Target

\* Apart from the commits themselves, no step commits a switch, moves what was
\* announced, or touches the target a waiting switch will install.
LEMMA QuietSteps ==
  ASSUME TypeOK,
         \/ \E s \in Switch : DrainTimeout(s)
         \/ \E s \in Switch, ph \in PushPhase, m \in Service : PushOk(s, ph, m)
         \/ \E s \in Switch, ph \in PushPhase, m \in Service : PushFailed(s, ph, m)
         \/ \E s \in Switch, ph \in PushPhase, m \in Service : PushAborted(s, ph, m)
         \/ \E s \in Switch, m \in Member, ph \in AckPhase : recordSwitchAck(s, m, ph)
         \/ UNCHANGED vars
  PROVE  /\ UNCHANGED <<override, version, calls, next, announced>>
         /\ \A r \in Switch :
              /\ pc'[r] = "committed" <=> pc[r] = "committed"
              /\ pc'[r] = "idle" <=> pc[r] = "idle"
              /\ pc'[r] \in {"waiting", "resumable"} => pc[r] \in {"waiting", "resumable"}
<1>1. ASSUME NEW s \in Switch, DrainTimeout(s)
      PROVE  /\ UNCHANGED <<override, version, calls, next, announced>>
             /\ pc' = [pc EXCEPT ![s] = "resumable"] /\ pc[s] = "waiting"
  BY <1>1 DEF DrainTimeout
<1>2. ASSUME NEW s \in Switch, NEW m \in Member, NEW ph \in ServicePhase, SetPhase(s, m, ph)
      PROVE  pc' = pc \/ (pc' = [pc EXCEPT ![s] = "resumable"] /\ pc[s] = "waiting")
  BY <1>2 DEF SetPhase, drainNotify
<1>3. ASSUME NEW s \in Switch, NEW ph \in PushPhase, NEW m \in Service,
             PushOk(s, ph, m) \/ PushFailed(s, ph, m) \/ PushAborted(s, ph, m)
      PROVE  /\ UNCHANGED <<override, version, calls, next, announced>>
             /\ pc' = pc \/ (pc' = [pc EXCEPT ![s] = "resumable"] /\ pc[s] = "waiting")
  <2>1. m \in Member /\ {"drained", "committed", "push_failed"} \subseteq ServicePhase
    BY DEF Member, ServicePhase
  <2>2. CASE PushOk(s, ph, m)
    BY <2>1, <2>2, <1>2 DEF PushOk, applyPushAck
  <2>3. CASE PushFailed(s, ph, m)
    BY <2>1, <2>3, <1>2 DEF PushFailed, markPushFailed
  <2>4. CASE PushAborted(s, ph, m)
    BY <2>4 DEF PushAborted
  <2> QED
    BY <1>3, <2>2, <2>3, <2>4
<1>4. ASSUME NEW s \in Switch, NEW m \in Member, NEW ph \in AckPhase, recordSwitchAck(s, m, ph)
      PROVE  /\ UNCHANGED <<override, version, calls, next, announced>>
             /\ pc' = pc \/ (pc' = [pc EXCEPT ![s] = "resumable"] /\ pc[s] = "waiting")
  BY <1>4, <1>2 DEF recordSwitchAck, AckPhase, ServicePhase
<1>5. CASE UNCHANGED vars
  BY <1>5 DEF vars
<1> QED
  BY <1>1, <1>3, <1>4, <1>5 DEF TypeOK

\* A commit takes the next version: no other committed switch announces it.
LEMMA VersionsStep ==
  TypeOK /\ VersionsIdentifyCommits /\ [Next]_vars => VersionsIdentifyCommits'
<1> SUFFICES ASSUME TypeOK, VersionsIdentifyCommits, [Next]_vars
             PROVE  VersionsIdentifyCommits'
  OBVIOUS
<1>1. ASSUME NEW s \in Switch,
             announced' = [announced EXCEPT ![s] = version'],
             pc' = [pc EXCEPT ![s] = "committed"],
             version' = version + 1
      PROVE  VersionsIdentifyCommits'
  BY <1>1 DEF TypeOK, VersionsIdentifyCommits, Committed
<1>2. ASSUME NEW t \in Target, SetActiveTargetFast(t) PROVE VersionsIdentifyCommits'
  <2>1. calls + 1 \in Switch
    BY <1>2, SwitchAssumption DEF SetActiveTargetFast, TypeOK, Switch
  <2> QED
    BY <1>1, <1>2, <2>1 DEF SetActiveTargetFast, commitActiveTargetSync
<1>3. ASSUME NEW t \in Target, SetActiveTargetSlow(t) PROVE VersionsIdentifyCommits'
  BY <1>3 DEF SetActiveTargetSlow, TypeOK, VersionsIdentifyCommits, Committed
<1>4. ASSUME NEW l \in Label, setActiveTargetLabel(l) PROVE VersionsIdentifyCommits'
  BY <1>4 DEF setActiveTargetLabel, VersionsIdentifyCommits, Committed
<1>5. ASSUME NEW s \in Switch, CommitSwitch(s) PROVE VersionsIdentifyCommits'
  BY <1>1, <1>5 DEF CommitSwitch, commitActiveTargetSync
<1>6. ASSUME UNCHANGED <<override, version, next, announced>>,
             \A r \in Switch : pc'[r] = "committed" => pc[r] = "committed"
      PROVE  VersionsIdentifyCommits'
  BY <1>6 DEF VersionsIdentifyCommits, Committed
<1> QED
  BY <1>2, <1>3, <1>4, <1>5, <1>6, QuietSteps, NextCases

\* The versions announced by committed switches are pairwise different and
\* never above the version served, in every interleaving of any number of
\* overlapping switches: what pollers rely on to notice a change of target.
THEOREM VersionsApart == Spec => []VersionsIdentifyCommits
<1>1. Init => VersionsIdentifyCommits
  BY DEF Init, VersionsIdentifyCommits, Committed
<1> QED
  BY <1>1, VersionsStep, TypeCorrect, PTL DEF Spec

\* A coroutine past its first await goes on holding its target.
LEMMA PendingStep == TypeOK /\ PendingHasTarget /\ [Next]_vars => PendingHasTarget'
<1> SUFFICES ASSUME TypeOK, PendingHasTarget, [Next]_vars PROVE PendingHasTarget'
  OBVIOUS
<1>1. ASSUME NEW t \in Target, SetActiveTargetFast(t) PROVE PendingHasTarget'
  BY <1>1 DEF SetActiveTargetFast, OpenSwitch, TypeOK, PendingHasTarget
<1>2. ASSUME NEW t \in Target, SetActiveTargetSlow(t) PROVE PendingHasTarget'
  BY <1>2 DEF SetActiveTargetSlow, OpenSwitch, TypeOK, PendingHasTarget
<1>3. ASSUME NEW l \in Label, setActiveTargetLabel(l) PROVE PendingHasTarget'
  BY <1>3 DEF setActiveTargetLabel, PendingHasTarget
<1>4. ASSUME NEW s \in Switch, CommitSwitch(s) PROVE PendingHasTarget'
  BY <1>4 DEF CommitSwitch, TypeOK, PendingHasTarget
<1>5. ASSUME next' = next,
             \A r \in Switch : pc'[r] \in {"waiting", "resumable"}
                                => pc[r] \in {"waiting", "resumable"}
      PROVE  PendingHasTarget'
  BY <1>5 DEF PendingHasTarget
<1> QED
  BY <1>1, <1>2, <1>3, <1>4, <1>5, QuietSteps, NextCases

\* A coroutine past its first await always has a target to install.
LEMMA PendingTarget == Spec => []PendingHasTarget
<1>1. Init => PendingHasTarget
  BY DEF Init, PendingHasTarget
<1> QED
  BY <1>1, PendingStep, TypeCorrect, PTL DEF Spec

-------------------------------------------------------------------------------
\* A step that books a phase on the record of switch s leaves every other
\* record, and every other service of that record, alone.
LEMMA SetPhaseFrame ==
  ASSUME TypeOK, NEW s \in Switch, NEW m \in Member, NEW ph \in ServicePhase,
         SetPhase(s, m, ph)
  PROVE  /\ per'[s][m] = ph
         /\ \A r \in Switch, q \in Member : r # s \/ q # m => per'[r][q] = per[r][q]
         /\ \A r \in Switch : pc'[r] = "committed" <=> pc[r] = "committed"
  BY DEF TypeOK, SetPhase, drainNotify

\* The record of a superseded switch takes no more answers, late ones included:
\* only its own drain timeout, in the step that commits it, still writes to it.
THEOREM SupersededClosed == Spec => SupersededRecordClosed
<1> DEFINE Closed == \A s \in Switch, m \in Member :
                       s < calls /\ per'[s][m] # per[s][m]
                         => /\ per[s][m] = "pending" /\ per'[s][m] = "drain_timeout"
                            /\ Committed(s)'
<1>1. TypeOK /\ [Next]_vars => [Closed]_vars
  <2> SUFFICES ASSUME TypeOK, [Next]_vars,
                      NEW s \in Switch, NEW m \in Member,
                      s < calls, per'[s][m] # per[s][m]
               PROVE  /\ per[s][m] = "pending" /\ per'[s][m] = "drain_timeout"
                      /\ Committed(s)'
    OBVIOUS
  <2>1. calls \in Switch /\ s # calls + 1 /\ s # calls
    BY SwitchAssumption DEF TypeOK, Switch
  <2>2. ASSUME NEW t \in Target, OpenSwitch(calls + 1, t) PROVE FALSE
    BY <2>1, <2>2 DEF OpenSwitch, TypeOK
  <2>3. ASSUME NEW r \in Switch, CommitSwitch(r)
        PROVE  /\ per[s][m] = "pending" /\ per'[s][m] = "drain_timeout"
               /\ Committed(s)'
    BY <2>3 DEF CommitSwitch, MarkDrainTimeouts, TypeOK, Committed
  <2>4. ASSUME NEW q \in Member, NEW ph \in ServicePhase, SetPhase(calls, q, ph)
        PROVE  FALSE
    BY <2>1, <2>4, SetPhaseFrame
  <2>5. Service \subseteq Member /\ AckPhase \subseteq ServicePhase
        /\ {"drained", "committed", "push_failed"} \subseteq ServicePhase
    BY DEF Member, AckPhase, ServicePhase
  <2>6. ASSUME NEW r \in Switch, NEW ph \in PushPhase, NEW q \in Service,
               PushOk(r, ph, q) \/ PushFailed(r, ph, q)
        PROVE  FALSE
    BY <2>4, <2>5, <2>6 DEF PushOk, applyPushAck, PushFailed, markPushFailed, currentSwitch
  <2>7. ASSUME NEW r \in Switch, NEW q \in Member, NEW ph \in AckPhase, recordSwitchAck(r, q, ph)
        PROVE  FALSE
    BY <2>4, <2>5, <2>7 DEF recordSwitchAck, currentSwitch
  <2> QED
    BY <2>2, <2>3, <2>6, <2>7, NextCases
       DEF SetActiveTargetFast, SetActiveTargetSlow, setActiveTargetLabel, DrainTimeout,
           PushAborted, vars
<1> QED
  BY <1>1, TypeCorrect, PTL DEF Spec, SupersededRecordClosed

\* Pushes of the commit start with the commit, and a call that has not been
\* made has neither a record nor a push: what makes the push states of a record
\* speak of that very switch.
PushesFollowCalls ==
  \A s \in Switch, m \in Service :
    /\ push[s]["commit"][m] # "none" => pc[s] = "committed"
    /\ s > calls => /\ pc[s] = "idle"
                    /\ \A ph \in PushPhase : push[s][ph][m] = "none"

\* An answer may move on the status of one service of switch s; what it writes
\* has to be backed by an answer, and no backing is ever lost.
LEMMA AnswerKeepsStatus ==
  ASSUME TypeOK, StatusBackedByAnswer,
         NEW s \in Switch, NEW m \in Member,
         \A r \in Switch, q \in Member : per'[r][q] # per[r][q] => r = s /\ q = m,
         \A r \in Switch, q \in Member, ph \in AckPhase : Acked(r, q, ph) => Acked(r, q, ph)',
         \A r \in Switch, q \in Service, ph \in PushPhase :
            push[r][ph][q] = "ok" => push'[r][ph][q] = "ok",
         NEW p \in ServicePhase, per'[s][m] = p,
         \/ p = per[s][m]
         \/ p \notin {"drained", "committed"}
         \/ Acked(s, m, p)'
         \/ /\ m \in Service
            /\ push'[s][IF p = "drained" THEN "prepare" ELSE "commit"][m] = "ok"
  PROVE  StatusBackedByAnswer'
  BY DEF StatusBackedByAnswer, AckPhase, PushPhase

\* An acknowledgement received stays received.
LEMMA AckStays ==
  ASSUME TypeOK, NEW s \in Switch, NEW m \in Member, NEW ph \in AckPhase,
         recordSwitchAck(s, m, ph)
  PROVE  /\ Acked(s, m, ph)'
         /\ \A r \in Switch, q \in Member, a \in AckPhase : Acked(r, q, a) => Acked(r, q, a)'
<1>1. acked[s] \in Seq(Member \X AckPhase) /\ <<m, ph>> \in Member \X AckPhase
  BY DEF TypeOK
<1>2. acked' = [acked EXCEPT ![s] = Append(acked[s], <<m, ph>>)]
  BY DEF recordSwitchAck
<1>3. /\ Len(acked'[s]) = Len(acked[s]) + 1 /\ Len(acked[s]) \in Nat
      /\ acked'[s][Len(acked[s]) + 1] = <<m, ph>>
      /\ \A i \in 1..Len(acked[s]) : acked'[s][i] = acked[s][i]
      /\ DOMAIN acked'[s] = 1..Len(acked[s]) + 1 /\ DOMAIN acked[s] = 1..Len(acked[s])
  BY <1>1, <1>2 DEF TypeOK
<1>4. Acked(s, m, ph)'
  <2>1. Len(acked[s]) + 1 \in DOMAIN acked'[s]
    BY <1>3
  <2> QED
    BY <2>1, <1>3 DEF Acked
<1>5. ASSUME NEW r \in Switch, NEW q \in Member, NEW a \in AckPhase, Acked(r, q, a)
      PROVE  Acked(r, q, a)'
  <2>1. CASE r = s
    BY <1>3, <1>5, <2>1 DEF Acked
  <2>2. CASE r # s
    BY <1>2, <1>5, <2>2 DEF Acked, TypeOK
  <2> QED
    BY <2>1, <2>2
<1> QED
  BY <1>4, <1>5

\* The status of a service never says more than the service itself said for
\* that very switch, whatever answers are late, lost, repeated or refused.
THEOREM StatusBacked == Spec => []StatusBackedByAnswer
<1> DEFINE Inv == StatusBackedByAnswer /\ PushesFollowCalls
<1>1. Init => Inv
  BY DEF Init, StatusBackedByAnswer, PushesFollowCalls, PushPhase, Member
<1>2. TypeOK /\ Inv /\ [Next]_vars => Inv'
  <2> SUFFICES ASSUME TypeOK, Inv, [Next]_vars PROVE Inv'
    OBVIOUS
  <2>1. ASSUME NEW t \in Target, SetActiveTargetFast(t) PROVE Inv'
    <3>1. calls + 1 \in Switch
      BY <2>1, SwitchAssumption DEF SetActiveTargetFast, TypeOK, Switch
    <3>2. StatusBackedByAnswer'
      BY <2>1, <3>1 DEF SetActiveTargetFast, OpenSwitch, TypeOK, StatusBackedByAnswer, Acked
    <3>3. PushesFollowCalls'
      BY <2>1, <3>1 DEF SetActiveTargetFast, OpenSwitch, TypeOK, PushesFollowCalls, Switch
    <3> QED
      BY <3>2, <3>3
  <2>2. ASSUME NEW t \in Target, SetActiveTargetSlow(t) PROVE Inv'
    <3>1. calls + 1 \in Switch
      BY <2>2, SwitchAssumption DEF SetActiveTargetSlow, TypeOK, Switch
    <3>2. \A r \in Switch, m \in Service :
             /\ push'[r]["commit"][m] = push[r]["commit"][m]
             /\ r # calls + 1 => \A ph \in PushPhase : push'[r][ph][m] = push[r][ph][m]
      BY <2>2, <3>1 DEF SetActiveTargetSlow, Started, TypeOK, PushPhase
    <3>3. StatusBackedByAnswer'
      <4>1. acked' = acked
        BY <2>2 DEF SetActiveTargetSlow
      <4>2. \A r \in Switch, m \in Member :
               per'[r][m] \in {"drained", "committed"}
                 => per'[r][m] = per[r][m] /\ r # calls + 1
        BY <2>2, <3>1 DEF SetActiveTargetSlow, OpenSwitch, TypeOK
      <4>3. ASSUME NEW r \in Switch, NEW m \in Member, NEW ph \in {"drained", "committed"},
                   per'[r][m] = ph
            PROVE  Acked(r, m, ph)
                   \/ (m \in Service
                        /\ push'[r][IF ph = "drained" THEN "prepare" ELSE "commit"][m] = "ok")
        BY <3>2, <4>2, <4>3 DEF StatusBackedByAnswer, PushPhase
      <4>4. \A r \in Switch, m \in Member, ph \in {"drained", "committed"} :
               Acked(r, m, ph) => Acked(r, m, ph)'
        BY <4>1 DEF Acked
      <4> QED
        BY <4>3, <4>4 DEF StatusBackedByAnswer
    <3>4. PushesFollowCalls'
      BY <2>2, <3>1, <3>2
         DEF SetActiveTargetSlow, OpenSwitch, TypeOK, PushesFollowCalls, Switch
    <3> QED
      BY <3>3, <3>4
  <2>3. ASSUME NEW l \in Label, setActiveTargetLabel(l) PROVE Inv'
    BY <2>3 DEF setActiveTargetLabel, StatusBackedByAnswer, PushesFollowCalls, Acked
  <2>4. ASSUME NEW s \in Switch, DrainTimeout(s) PROVE Inv'
    <3>1. StatusBackedByAnswer'
      BY <2>4 DEF DrainTimeout, StatusBackedByAnswer, Acked
    <3>2. PushesFollowCalls'
      BY <2>4 DEF DrainTimeout, TypeOK, PushesFollowCalls
    <3> QED
      BY <3>1, <3>2
  <2>5. ASSUME NEW s \in Switch, CommitSwitch(s) PROVE Inv'
    <3>1. \A m \in Service : push[s]["commit"][m] # "ok"
      BY <2>5 DEF CommitSwitch, PushesFollowCalls
    <3>2. \A r \in Switch, m \in Member :
             per'[r][m] \in {"drained", "committed"} => per'[r][m] = per[r][m]
      BY <2>5 DEF CommitSwitch, MarkDrainTimeouts, TypeOK
    <3>3. \A r \in Switch, m \in Service :
             /\ push'[r]["prepare"][m] = push[r]["prepare"][m]
             /\ r # s => push'[r]["commit"][m] = push[r]["commit"][m]
      BY <2>5 DEF CommitSwitch, Started, TypeOK, PushPhase
    <3>4. StatusBackedByAnswer'
      <4>1. \A r \in Switch, m \in Member, ph \in AckPhase : Acked(r, m, ph)' <=> Acked(r, m, ph)
        BY <2>5 DEF CommitSwitch, Acked
      <4>2. ASSUME NEW r \in Switch, NEW m \in Member, per'[r][m] = "drained"
            PROVE  Acked(r, m, "drained")' \/ (m \in Service /\ push'[r]["prepare"][m] = "ok")
        BY <4>1, <4>2, <3>2, <3>3 DEF StatusBackedByAnswer, AckPhase
      <4>3. ASSUME NEW r \in Switch, NEW m \in Member, per'[r][m] = "committed"
            PROVE  Acked(r, m, "committed")' \/ (m \in Service /\ push'[r]["commit"][m] = "ok")
        BY <4>1, <4>3, <3>1, <3>2, <3>3 DEF StatusBackedByAnswer, AckPhase
      <4> QED
        BY <4>2, <4>3 DEF StatusBackedByAnswer
    <3>5. PushesFollowCalls'
      BY <2>5, <3>3 DEF CommitSwitch, PushesFollowCalls, TypeOK, PushPhase
    <3> QED
      BY <3>4, <3>5
  <2>6. ASSUME NEW s \in Switch, NEW ph \in PushPhase, NEW m \in Service,
               PushOk(s, ph, m) \/ PushFailed(s, ph, m) \/ PushAborted(s, ph, m)
        PROVE  Inv'
    <3>1. PICK a \in {"ok", "failed", "retry"} :
             /\ push' = [push EXCEPT ![s][ph][m] = a]
             /\ a = "ok" <=> PushOk(s, ph, m)
      BY <2>6 DEF PushOk, PushFailed, PushAborted
    <3>2. push[s][ph][m] \in InFlight
      BY <2>6 DEF PushOk, PushFailed, PushAborted, InFlight
    <3>3. \A r \in Switch, q \in Service, f \in PushPhase :
             push'[r][f][q] = IF r = s /\ f = ph /\ q = m THEN a ELSE push[r][f][q]
      BY <3>1 DEF TypeOK
    <3>4. m \in Member /\ {"drained", "committed", "push_failed"} \subseteq ServicePhase
      BY DEF Member, ServicePhase
    <3>5. UNCHANGED <<calls, acked>>
      BY <2>6 DEF PushOk, PushFailed, PushAborted
    <3>6. UNCHANGED <<per, pc>>
          \/ \E p \in {"drained", "committed", "push_failed"} :
               /\ SetPhase(s, m, p)
               /\ p = "drained" => PushOk(s, ph, m) /\ ph = "prepare"
               /\ p = "committed" => PushOk(s, ph, m) /\ ph = "commit"
      BY <2>6 DEF PushOk, PushFailed, PushAborted, applyPushAck, markPushFailed
    <3>7. StatusBackedByAnswer'
      <4>1. \A r \in Switch, q \in Service, f \in PushPhase :
               push[r][f][q] = "ok" => push'[r][f][q] = "ok"
        BY <3>2, <3>3 DEF InFlight
      <4>2. \A r \in Switch, q \in Member, f \in AckPhase :
               Acked(r, q, f) => Acked(r, q, f)'
        BY <3>5 DEF Acked
      <4>3. CASE UNCHANGED <<per, pc>>
        <5>1. per[s][m] \in ServicePhase /\ per'[s][m] = per[s][m]
          BY <4>3, <3>4 DEF TypeOK
        <5> QED
          BY <4>1, <4>2, <4>3, <5>1, <3>4, AnswerKeepsStatus
      <4>4. ASSUME NEW p \in {"drained", "committed", "push_failed"}, SetPhase(s, m, p),
                   p = "drained" => PushOk(s, ph, m) /\ ph = "prepare",
                   p = "committed" => PushOk(s, ph, m) /\ ph = "commit"
            PROVE  StatusBackedByAnswer'
        <5>1. /\ per'[s][m] = p
              /\ \A r \in Switch, q \in Member : per'[r][q] # per[r][q] => r = s /\ q = m
          BY <4>4, <3>4, SetPhaseFrame
        <5>2. p # "push_failed" => push'[s][ph][m] = "ok"
          BY <4>4, <3>1, <3>3
        <5>3. p \notin {"drained", "committed"}
                \/ push'[s][IF p = "drained" THEN "prepare" ELSE "commit"][m] = "ok"
          BY <4>4, <5>2
        <5> QED
          BY <4>1, <4>2, <5>1, <5>3, <3>4, AnswerKeepsStatus
      <4> QED
        BY <4>3, <4>4, <3>6
    <3>8. \A r \in Switch : (pc'[r] = "committed" <=> pc[r] = "committed")
                            /\ (pc[r] = "idle" => pc'[r] = "idle")
      <4>1. ASSUME NEW p \in ServicePhase, SetPhase(s, m, p)
            PROVE  \A r \in Switch : (pc'[r] = "committed" <=> pc[r] = "committed")
                                     /\ (pc[r] = "idle" => pc'[r] = "idle")
        BY <4>1 DEF SetPhase, drainNotify, TypeOK
      <4> QED
        BY <4>1, <3>4, <3>6
    <3>9. PushesFollowCalls'
      BY <3>2, <3>3, <3>5, <3>8 DEF PushesFollowCalls, InFlight, PushPhase
    <3> QED
      BY <3>7, <3>9
  <2>7. ASSUME NEW s \in Switch, NEW m \in Member, NEW ph \in AckPhase, recordSwitchAck(s, m, ph)
        PROVE  Inv'
    <3>1. ph \in ServicePhase /\ SetPhase(s, m, ph) /\ UNCHANGED <<calls, push>>
      BY <2>7 DEF recordSwitchAck, AckPhase, ServicePhase
    <3>2. /\ per'[s][m] = ph
          /\ \A r \in Switch, q \in Member : per'[r][q] # per[r][q] => r = s /\ q = m
      BY <3>1, SetPhaseFrame
    <3>3. StatusBackedByAnswer'
      <4>1. \A r \in Switch, q \in Service, f \in PushPhase :
               push[r][f][q] = "ok" => push'[r][f][q] = "ok"
        BY <3>1
      <4>2. Acked(s, m, ph)'
        BY <2>7, AckStays
      <4>3. \A r \in Switch, q \in Member, f \in AckPhase :
               Acked(r, q, f) => Acked(r, q, f)'
        BY <2>7, AckStays
      <4> QED
        BY <4>1, <4>2, <4>3, <3>1, <3>2, AnswerKeepsStatus
    <3>4. \A r \in Switch : (pc'[r] = "committed" <=> pc[r] = "committed")
                            /\ (pc[r] = "idle" => pc'[r] = "idle")
      BY <3>1 DEF SetPhase, drainNotify, TypeOK
    <3>5. PushesFollowCalls'
      BY <3>1, <3>4 DEF PushesFollowCalls
    <3> QED
      BY <3>3, <3>5
  <2>8. CASE UNCHANGED vars
    BY <2>8 DEF vars, StatusBackedByAnswer, PushesFollowCalls, Acked
  <2> QED
    BY <2>1, <2>2, <2>3, <2>4, <2>5, <2>6, <2>7, <2>8, NextCases
<1> QED
  BY <1>1, <1>2, TypeCorrect, PTL DEF Spec

-------------------------------------------------------------------------------
\* Readers of the active target see the abstract one: a replacement always
\* brings a version that was never served, everything else is a rename or
\* invisible.
THEOREM Implementation == Spec => ImplementsActiveTarget
<1>1. Init => Abstract!AInit
  BY DEF Init, Abstract!AInit
<1>2. TypeOK /\ PendingHasTarget /\ [Next]_vars => [Abstract!ANext]_<<override, version>>
  <2> SUFFICES ASSUME TypeOK, PendingHasTarget, [Next]_vars
               PROVE  [Abstract!ANext]_<<override, version>>
    OBVIOUS
  <2>1. ASSUME NEW t \in Target, SetActiveTargetFast(t) PROVE Abstract!ANext
    BY <2>1 DEF SetActiveTargetFast, commitActiveTargetSync, Target,
                Abstract!ANext, Abstract!Commit, Abstract!Target
  <2>2. ASSUME NEW t \in Target, SetActiveTargetSlow(t) PROVE UNCHANGED <<override, version>>
    BY <2>2 DEF SetActiveTargetSlow
  <2>3. ASSUME NEW l \in Label, setActiveTargetLabel(l) PROVE Abstract!ANext
    BY <2>3 DEF setActiveTargetLabel, Abstract!ANext, Abstract!Relabel
  <2>4. ASSUME NEW s \in Switch, CommitSwitch(s) PROVE Abstract!ANext
    <3>1. next[s] \in Target
      BY <2>4 DEF CommitSwitch, PendingHasTarget
    <3> QED
      BY <2>4, <3>1 DEF CommitSwitch, commitActiveTargetSync, Target,
                        Abstract!ANext, Abstract!Commit, Abstract!Target
  <2> QED
    BY <2>1, <2>2, <2>3, <2>4, QuietSteps, NextCases
<1> QED
  BY <1>1, <1>2, TypeCorrect, PendingTarget, PTL
     DEF Spec, ImplementsActiveTarget, Abstract!ASpec

-------------------------------------------------------------------------------
(* The connection profiles, which write the store first and switch after it. *)

\* A step of the profiles is one of these.
LEMMA ProfileCases ==
  ASSUME [CNext]_cvars
  PROVE  \/ \E p \in Profile, t \in Target : CreateProfile(p, t)
         \/ \E p \in Profile, t \in Target : UpdateProfile(p, t)
         \/ \E p \in Profile : DeleteProfile(p)
         \/ \E p \in Profile : Activate(p)
         \/ UNCHANGED storeVars /\ [Next]_vars /\ calls' = calls /\ next' = next
  <1>1. CASE CoordinatorStep
    <2>1. ASSUME NEW s \in Switch, DrainTimeout(s) \/ CommitSwitch(s) PROVE Next
      BY <2>1 DEF Next
    <2> QED
      BY <1>1, <2>1
         DEF CoordinatorStep, Next, DrainTimeout, CommitSwitch, PushStep, PushReply, PushOk,
             PushFailed, PushAborted, AckStep, recordSwitchAck
  <1>2. CASE ToggleInflight
    BY <1>2 DEF ToggleInflight, vars
  <1>3. CASE UNCHANGED cvars
    BY <1>3 DEF cvars, storeVars, vars
  <1> QED
    BY <1>1, <1>2, <1>3 DEF CNext

\* What an edit of the active profile does to the coordinator: a call with the
\* new target, or a step that leaves the calls alone and is only taken when the
\* identity stays and the form brings no other password.
LEMMA EditOfActive ==
  ASSUME NEW prev \in Target, NEW new \in Target, PropagateEdit(prev, new, new.cred)
  PROVE  /\ [Next]_vars
         /\ \/ setActiveTarget(new)
            \/ /\ calls' = calls /\ next' = next
               /\ new.ep = prev.ep
               /\ new.cred = NoPassword \/ new.cred = prev.cred
  <1>1. new.label \in Label
    BY DEF Target
  <1>2. setActiveTarget(new) => Next
    BY DEF Next
  <1>3. setActiveTargetLabel(new.label) => Next
    BY <1>1 DEF Next
  <1> QED
    BY <1>2, <1>3 DEF PropagateEdit, setActiveTargetLabel, vars

\* Every step of the profiles is one of the coordinator, or none.
LEMMA ProfilesStepCoordinator ==
  ASSUME CTypeOK, [CNext]_cvars
  PROVE  [Next]_vars
  <1>1. ASSUME NEW p \in Profile, NEW t \in Target, UpdateProfile(p, t) PROVE [Next]_vars
    <2>1. profiles[p] \in Target
      BY <1>1 DEF UpdateProfile, Exists, CTypeOK
    <2> QED
      BY <1>1, <2>1, EditOfActive DEF UpdateProfile
  <1>2. ASSUME NEW p \in Profile, Activate(p) PROVE [Next]_vars
    <2>1. profiles[p] \in Target
      BY <1>2 DEF Activate, Exists, CTypeOK
    <2> QED
      BY <1>2, <2>1 DEF Activate, Next
  <1> QED
    BY <1>1, <1>2, ProfileCases DEF CreateProfile, DeleteProfile

\* The store keeps its types and its active id names a stored profile.
LEMMA ProfileTypes == CSpec => []CTypeOK
<1>1. CInit => CTypeOK
  <2> SUFFICES ASSUME CInit PROVE CTypeOK
    OBVIOUS
  <2>1. TypeOK
    BY SwitchAssumption
       DEF CInit, Init, TypeOK, Switch, Member, PushPhase, ServicePhase, Control, PushState
  <2>2. profiles \in [Profile -> Target \cup {Absent}] /\ 0 \in 0..MaxEdit
    BY ConnectionsAssumption DEF CInit
  <2> QED
    BY <2>1, <2>2 DEF CInit, CTypeOK
<1>2. CTypeOK /\ [CNext]_cvars => CTypeOK'
  <2> SUFFICES ASSUME CTypeOK, [CNext]_cvars PROVE CTypeOK'
    OBVIOUS
  <2>1. TypeOK'
    BY ProfilesStepCoordinator, TypeStep DEF CTypeOK
  <2>2. ASSUME NEW p \in Profile, NEW t \in Target, CreateProfile(p, t) \/ UpdateProfile(p, t)
        PROVE  CTypeOK'
    <3>1. profiles' \in [Profile -> Target \cup {Absent}] /\ activeId' = activeId
          /\ blocked' = blocked /\ edits' \in 0..MaxEdit
      BY <2>2, ConnectionsAssumption DEF CreateProfile, UpdateProfile, Edited, CTypeOK
    <3>2. t # Absent
      BY ConnectionsAssumption
    <3>3. \A q \in Profile : Exists(q) => Exists(q)'
      BY <2>2, <3>2 DEF CreateProfile, UpdateProfile, Exists, CTypeOK
    <3> QED
      BY <2>1, <3>1, <3>3 DEF CTypeOK
  <2>3. ASSUME NEW p \in Profile, DeleteProfile(p) PROVE CTypeOK'
    BY <2>1, <2>3, ConnectionsAssumption DEF DeleteProfile, Edited, Exists, CTypeOK
  <2>4. ASSUME NEW p \in Profile, Activate(p) PROVE CTypeOK'
    BY <2>1, <2>4 DEF Activate, Exists, CTypeOK
  <2>5. CASE UNCHANGED storeVars
    <3>1. blocked' \in BOOLEAN
      BY <2>5 DEF CNext, CTypeOK, CreateProfile, UpdateProfile, DeleteProfile, Activate,
                  ToggleInflight, CoordinatorStep, cvars
    <3> QED
      BY <2>1, <2>5, <3>1 DEF storeVars, CTypeOK, Exists
  <2> QED
    BY <2>2, <2>3, <2>4, <2>5, ProfileCases
<1> QED
  BY <1>1, <1>2, PTL DEF CSpec

\* The calls made are the coroutines that are no longer idle.
CallsStarted == \A s \in Switch : s <= calls <=> pc[s] # "idle"

\* The target in force is the one the latest commit installed, up to its label.
LatestInForce ==
  \/ calls = 0 /\ override = NoTarget
  \/ /\ override # NoTarget
     /\ \E s \in Switch :
          /\ Committed(s) /\ announced[s] = version
          /\ override.ep = next[s].ep /\ override.cred = next[s].cred

CoordinatorInv == PendingHasTarget /\ VersionsIdentifyCommits /\ CallsStarted /\ LatestInForce

\* The last call of setActiveTarget was made for what the store holds of the
\* active profile, but for a password a later form left empty.
LastCallForActive ==
  ActiveRaw # Absent =>
    /\ calls \in Switch
    /\ next[calls].ep = ActiveRaw.ep
    /\ ActiveRaw.cred = next[calls].cred \/ ActiveRaw.cred = NoPassword

\* A commit of any coroutine puts its target in force under the newest version.
LEMMA CoordinatorStepInv == TypeOK /\ CoordinatorInv /\ [Next]_vars => CoordinatorInv'
<1> SUFFICES ASSUME TypeOK, CoordinatorInv, [Next]_vars PROVE CoordinatorInv'
  OBVIOUS
<1>1. PendingHasTarget' /\ VersionsIdentifyCommits'
  BY PendingStep, VersionsStep DEF CoordinatorInv
<1>2. ASSUME NEW t \in Target, setActiveTarget(t) PROVE CallsStarted' /\ LatestInForce'
  <2> DEFINE s == calls + 1
  <2>1. s \in Switch /\ calls \in Nat
    BY <1>2, SwitchAssumption
       DEF setActiveTarget, SetActiveTargetFast, SetActiveTargetSlow, TypeOK, Switch
  <2>2. calls' = s /\ next' = [next EXCEPT ![s] = t] /\ pc[s] = "idle"
    BY <1>2, <2>1
       DEF setActiveTarget, SetActiveTargetFast, SetActiveTargetSlow, OpenSwitch,
           CoordinatorInv, CallsStarted
  <2>3. \E c \in {"committed", "waiting"} : pc' = [pc EXCEPT ![s] = c]
    BY <1>2 DEF setActiveTarget, SetActiveTargetFast, SetActiveTargetSlow
  <2>4. CallsStarted'
    BY <2>1, <2>2, <2>3 DEF CoordinatorInv, CallsStarted, TypeOK, Switch
  <2>5. CASE SetActiveTargetFast(t)
    <3>1. /\ override' = t
          /\ pc' = [pc EXCEPT ![s] = "committed"]
          /\ announced' = [announced EXCEPT ![s] = version']
      BY <2>5 DEF SetActiveTargetFast, commitActiveTargetSync
    <3>2. t # NoTarget
      BY ConnectionsAssumption
    <3> HIDE DEF s
    <3>3. pc'[s] = "committed" /\ announced'[s] = version' /\ next'[s] = t
      BY <2>1, <2>2, <3>1 DEF TypeOK
    <3> QED
      BY <2>1, <2>4, <3>1, <3>2, <3>3 DEF LatestInForce, Committed
  <2>6. CASE SetActiveTargetSlow(t)
    <3>1. PICK r \in Switch :
             /\ Committed(r) /\ announced[r] = version
             /\ override.ep = next[r].ep /\ override.cred = next[r].cred
      BY <2>6 DEF SetActiveTargetSlow, CoordinatorInv, LatestInForce
    <3>2. r # s
      BY <2>2, <3>1 DEF Committed
    <3>3. Committed(r)' /\ next'[r] = next[r]
      BY <2>1, <2>2, <2>3, <3>1, <3>2 DEF Committed, TypeOK
    <3> QED
      BY <2>4, <2>6, <3>1, <3>3 DEF SetActiveTargetSlow, LatestInForce
  <2> QED
    BY <1>2, <2>5, <2>6 DEF setActiveTarget
<1>3. ASSUME NEW l \in Label, setActiveTargetLabel(l) PROVE CallsStarted' /\ LatestInForce'
  <2>1. override \in Target /\ override' = [override EXCEPT !.label = l]
    BY <1>3 DEF setActiveTargetLabel, TypeOK
  <2>2. override' \in Target /\ override'.ep = override.ep /\ override'.cred = override.cred
    BY <2>1 DEF Target
  <2>3. override' # NoTarget
    BY <2>2, ConnectionsAssumption
  <2> QED
    BY <1>3, <2>2, <2>3
       DEF setActiveTargetLabel, CoordinatorInv, CallsStarted, LatestInForce, Committed
<1>4. ASSUME NEW s \in Switch, CommitSwitch(s) PROVE CallsStarted' /\ LatestInForce'
  <2>1. next[s] \in Target
    BY <1>4 DEF CommitSwitch, CoordinatorInv, PendingHasTarget
  <2>2. /\ override' = next[s] /\ next[s] # NoTarget /\ next' = next /\ calls' = calls
        /\ Committed(s)' /\ announced'[s] = version'
    BY <1>4, <2>1, ConnectionsAssumption
       DEF CommitSwitch, commitActiveTargetSync, Committed, TypeOK
  <2>3. CallsStarted'
    BY <1>4, <2>2 DEF CommitSwitch, CoordinatorInv, CallsStarted, TypeOK
  <2> QED
    BY <2>2, <2>3 DEF LatestInForce
<1>5. ASSUME UNCHANGED <<override, version, calls, next, announced>>,
             \A r \in Switch : /\ pc'[r] = "committed" <=> pc[r] = "committed"
                               /\ pc'[r] = "idle" <=> pc[r] = "idle"
      PROVE  CallsStarted' /\ LatestInForce'
  BY <1>5 DEF CoordinatorInv, CallsStarted, LatestInForce, Committed
<1>6. CallsStarted' /\ LatestInForce'
  BY <1>2, <1>3, <1>4, <1>5, QuietSteps, NextCases DEF setActiveTarget
<1> QED
  BY <1>1, <1>6 DEF CoordinatorInv

\* The store runs ahead of the target, and the last call runs with the store.
LEMMA LastCallStep ==
  CTypeOK /\ LastCallForActive /\ [CNext]_cvars => LastCallForActive'
<1> SUFFICES ASSUME CTypeOK, LastCallForActive, [CNext]_cvars PROVE LastCallForActive'
  OBVIOUS
<1>1. ASSUME NEW t \in Target, setActiveTarget(t) PROVE calls' \in Switch /\ next'[calls'] = t
  BY <1>1, SwitchAssumption
     DEF setActiveTarget, SetActiveTargetFast, SetActiveTargetSlow, OpenSwitch, CTypeOK, TypeOK,
         Switch
<1>2. ASSUME NEW p \in Profile, NEW t \in Target, CreateProfile(p, t) PROVE LastCallForActive'
  <2>1. activeId # p /\ activeId \in Profile \cup {Absent}
    BY <1>2, ConnectionsAssumption DEF CreateProfile, Exists, CTypeOK
  <2>2. ActiveRaw' = ActiveRaw
    BY <1>2, <2>1, ConnectionsAssumption DEF CreateProfile, ActiveRaw, CTypeOK
  <2> QED
    BY <1>2, <2>2 DEF CreateProfile, vars, LastCallForActive
<1>3. ASSUME NEW p \in Profile, NEW t \in Target, UpdateProfile(p, t) PROVE LastCallForActive'
  <2>1. /\ profiles[p] \in Target /\ p # Absent /\ activeId' = activeId
        /\ profiles' = [profiles EXCEPT ![p] = t] /\ profiles[p] # Absent
    BY <1>3, ConnectionsAssumption DEF UpdateProfile, Exists, CTypeOK
  <2>2. CASE p # activeId
    <3>1. ActiveRaw' = ActiveRaw
      BY <2>1, <2>2, ConnectionsAssumption DEF ActiveRaw, CTypeOK
    <3> QED
      BY <1>3, <2>2, <3>1 DEF UpdateProfile, vars, LastCallForActive
  <2>3. CASE p = activeId
    <3>1. ActiveRaw = profiles[p] /\ ActiveRaw' = t
      BY <2>1, <2>3 DEF ActiveRaw, CTypeOK
    <3>2. PropagateEdit(profiles[p], t, t.cred)
      BY <1>3, <2>3 DEF UpdateProfile
    <3>3. CASE setActiveTarget(t)
      BY <1>1, <3>1, <3>3 DEF LastCallForActive
    <3>4. CASE /\ calls' = calls /\ next' = next
               /\ t.ep = profiles[p].ep
               /\ t.cred = NoPassword \/ t.cred = profiles[p].cred
      BY <2>1, <3>1, <3>4 DEF LastCallForActive
    <3> QED
      BY <2>1, <3>2, <3>3, <3>4, EditOfActive
  <2> QED
    BY <2>2, <2>3
<1>4. ASSUME NEW p \in Profile, DeleteProfile(p) PROVE LastCallForActive'
  <2>1. ActiveRaw' = Absent \/ ActiveRaw' = ActiveRaw
    BY <1>4 DEF DeleteProfile, ActiveRaw, CTypeOK
  <2> QED
    BY <1>4, <2>1 DEF DeleteProfile, vars, LastCallForActive
<1>5. ASSUME NEW p \in Profile, Activate(p) PROVE LastCallForActive'
  <2>1. profiles[p] \in Target /\ p # Absent
    BY <1>5, ConnectionsAssumption DEF Activate, Exists, CTypeOK
  <2>2. ActiveRaw' = profiles[p]
    BY <1>5, <2>1 DEF Activate, ActiveRaw
  <2> QED
    BY <1>1, <1>5, <2>1, <2>2 DEF Activate, LastCallForActive
<1>6. CASE UNCHANGED storeVars /\ calls' = calls /\ next' = next
  BY <1>6 DEF storeVars, LastCallForActive, ActiveRaw
<1> QED
  BY <1>2, <1>3, <1>4, <1>5, <1>6, ProfileCases

ProfilesInv == CTypeOK /\ CoordinatorInv /\ LastCallForActive

\* The invariant of the store and the coordinator together.
THEOREM ProfilesSound == CSpec => []ProfilesInv
<1>1. CInit => CoordinatorInv /\ LastCallForActive
  BY DEF CInit, Init, CoordinatorInv, PendingHasTarget, VersionsIdentifyCommits, CallsStarted,
         LatestInForce, LastCallForActive, ActiveRaw, Committed, Switch
<1>2. CTypeOK /\ CoordinatorInv /\ LastCallForActive /\ [CNext]_cvars
        => (CoordinatorInv /\ LastCallForActive)'
  BY ProfilesStepCoordinator, CoordinatorStepInv, LastCallStep DEF CTypeOK
<1> QED
  BY <1>1, <1>2, ProfileTypes, PTL DEF CSpec, ProfilesInv

\* When the switches committed in the order of their calls, store and target
\* agree at rest, whatever profiles were activated, edited and deleted while
\* earlier switches were still draining.
THEOREM StoreAgreesAtRest == CSpec => []StoreAndTargetAgree
<1>1. ProfilesInv => StoreAndTargetAgree
  <2> SUFFICES ASSUME ProfilesInv, Settled, InOrder, ActiveRaw # Absent
               PROVE  /\ override.ep = ActiveRaw.ep
                      /\ ServedCred = override.cred \/ ServedCred = NoPassword
    BY DEF StoreAndTargetAgree
  <2>1. /\ calls \in Switch /\ next[calls].ep = ActiveRaw.ep
        /\ ActiveRaw.cred = next[calls].cred \/ ActiveRaw.cred = NoPassword
    BY DEF ProfilesInv, LastCallForActive
  <2>2. calls # 0 /\ Committed(calls)
    BY <2>1 DEF Switch, ProfilesInv, CoordinatorInv, CallsStarted, Settled, Committed
  <2>3. PICK s \in Switch : /\ Committed(s) /\ announced[s] = version
                            /\ override.ep = next[s].ep /\ override.cred = next[s].cred
    BY <2>2 DEF ProfilesInv, CoordinatorInv, LatestInForce
  <2>4. announced[calls] <= version /\ version \in Nat /\ announced[calls] \in Nat
    BY <2>1, <2>2 DEF ProfilesInv, CTypeOK, TypeOK, CoordinatorInv, VersionsIdentifyCommits
  <2>5. s <= calls
    BY <2>3 DEF ProfilesInv, CoordinatorInv, CallsStarted, Committed
  <2>6. s = calls
    <3>1. CASE s < calls
      BY <2>1, <2>3, <2>4, <3>1 DEF InOrder, Switch
    <3> QED
      BY <2>1, <2>5, <3>1 DEF Switch
  <2> QED
    BY <2>1, <2>3, <2>6 DEF ServedCred
<1> QED
  BY <1>1, ProfilesSound, PTL

\* While an operation blocks activation, no store write calls setActiveTarget
\* for another identity than the one the active profile already has.
THEOREM LockoutNeverBroken == CSpec => LockoutHolds
<1>1. ProfilesInv /\ [CNext]_cvars => [Locked]_cvars
  <2> SUFFICES ASSUME ProfilesInv, [CNext]_cvars, blocked, calls' # calls
               PROVE  override # NoTarget /\ next'[calls'].ep = profiles[activeId].ep
    BY DEF Locked
  <2>1. PICK p \in Profile, t \in Target : UpdateProfile(p, t)
    BY ProfileCases DEF CreateProfile, DeleteProfile, Activate, vars
  <2>2. p = activeId /\ profiles[p] \in Target /\ profiles[p] # Absent /\ p # Absent
    BY <2>1, ConnectionsAssumption DEF UpdateProfile, Exists, vars, ProfilesInv, CTypeOK
  <2>3. t.ep = profiles[p].ep /\ PropagateEdit(profiles[p], t, t.cred)
    BY <2>1, <2>2 DEF UpdateProfile
  <2>4. setActiveTarget(t)
    BY <2>2, <2>3, EditOfActive
  <2>5. calls' \in Switch /\ next'[calls'] = t
    BY <2>4, SwitchAssumption
       DEF setActiveTarget, SetActiveTargetFast, SetActiveTargetSlow, OpenSwitch, ProfilesInv,
           CTypeOK, TypeOK, Switch
  <2>6. calls \in Switch
    BY <2>2 DEF ProfilesInv, LastCallForActive, ActiveRaw
  <2>7. override # NoTarget
    BY <2>6 DEF ProfilesInv, CoordinatorInv, LatestInForce, Switch
  <2> QED
    BY <2>2, <2>3, <2>5, <2>7
<1> QED
  BY <1>1, ProfilesSound, PTL DEF CSpec, LockoutHolds
===============================================================================
