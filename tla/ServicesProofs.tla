----------------------------- MODULE ServicesProofs ----------------------------
(***************************************************************************)
(* Proofs about the services around the api, for any number of runs,       *)
(* polls, switches, followers and consumers: the lockout of a load run,    *)
(* the services that follow the target by polling, and the swap of the     *)
(* ingest consumers.                                                       *)
(***************************************************************************)
EXTENDS LoadgenLockout, TargetFollow, IngestSwap, FiniteSetTheorems, TLAPS

-------------------------------------------------------------------------------
(* The lockout of a load run: replies reach the api in any order *)

\* A run that an answer has counted as started is over and will not start again.
Over(r) == start[r] \notin {"unsent", "sent"} /\ ~(status = "running" /\ current = r)

\* The answers that will release handles were given when no run was going on.
AnswersAfterTheEnd ==
  /\ \A p \in Probe : probe[p].at = "quiet" => \A r \in Run : r \in probe[p].seen => Over(r)
  /\ \A k \in Stop : stop[k].at \in {"settling", "answered"}
                       => \A r \in Run : r \in stop[k].seen => Over(r)

\* The actions of Next, the frame of the proofs by cases.
LEMMA NextCases ==
  ASSUME [Next]_vars
  PROVE  \/ \E r \in Run : SendStart(r) \/ ServiceStart(r) \/ StartFails(r)
                           \/ RegisterStart(r) \/ GoStale(r)
         \/ \E r \in Run : DurationEnds(r) \/ WorkersSettle(r)
         \/ \E k \in Stop : SendStop(k) \/ ServiceStop(k) \/ StopAnswered(k)
                            \/ ReleaseStopped(k) \/ StopFails(k)
         \/ PollIdle
         \/ \E p \in Probe : ProbeSent(p) \/ ServiceStatus(p) \/ ProbeAnswer(p) \/ ProbeError(p)
         \/ UNCHANGED vars
  BY DEF Next, ProxyStart, ProxyStop, ProbeStep

\* Every variable keeps its type, and only registered runs have a handle.
THEOREM TypeCorrect == Spec => []TypeOK
<1>1. Init => TypeOK
  <2>1. \A S : "unsent" \in S => Fresh \in Reply(S)
    BY DEF Fresh, Reply
  <2>2. Fresh \in Reply({"unsent", "sent", "settling", "answered", "done"})
        /\ Fresh \in Reply({"unsent", "asked", "running", "quiet"})
    BY <2>1
  <2>3. "unsent" \in StartState
    BY DEF StartState
  <2> QED
    BY <2>2, <2>3 DEF Init, TypeOK
<1>2. TypeOK /\ [Next]_vars => TypeOK'
  <2> SUFFICES ASSUME TypeOK, [Next]_vars PROVE TypeOK'
    OBVIOUS
  <2>1. ASSUME NEW r \in Run, SendStart(r) PROVE TypeOK'
    BY <2>1 DEF SendStart, svcVars, apiVars, TypeOK, StartState
  <2>2. ASSUME NEW r \in Run, ServiceStart(r) PROVE TypeOK'
    BY <2>2, LockoutAssumption DEF ServiceStart, RunnerStart, apiVars, TypeOK, StartState
  <2>3. ASSUME NEW r \in Run, StartFails(r) PROVE TypeOK'
    BY <2>3 DEF StartFails, svcVars, apiVars, TypeOK, StartState
  <2>4. ASSUME NEW r \in Run, RegisterStart(r) PROVE TypeOK'
    BY <2>4 DEF RegisterStart, armPoller, svcVars, TypeOK, StartState
  <2>5. ASSUME NEW r \in Run, GoStale(r) PROVE TypeOK'
    BY <2>5 DEF GoStale, svcVars, TypeOK
  <2>6. ASSUME NEW r \in Run, DurationEnds(r) \/ WorkersSettle(r) PROVE TypeOK'
    BY <2>6 DEF DurationEnds, WorkersSettle, apiVars, TypeOK
  <2>7. ASSUME NEW k \in Stop, SendStop(k) PROVE TypeOK'
    BY <2>7 DEF SendStop, svcVars, apiVars, TypeOK, Reply
  <2>8. ASSUME NEW k \in Stop, ServiceStop(k) PROVE TypeOK'
    BY <2>8 DEF ServiceStop, RunnerStop, apiVars, TypeOK, Reply, Started
  <2>9. ASSUME NEW k \in Stop, StopAnswered(k) \/ StopFails(k) PROVE TypeOK'
    BY <2>9 DEF StopAnswered, StopFails, svcVars, apiVars, TypeOK, Reply
  <2>10. ASSUME NEW k \in Stop, ReleaseStopped(k) PROVE TypeOK'
    BY <2>10 DEF ReleaseStopped, ReleaseAll, svcVars, TypeOK, Reply
  <2>11. CASE PollIdle
    BY <2>11 DEF PollIdle, svcVars, TypeOK
  <2>12. ASSUME NEW p \in Probe, ProbeSent(p) PROVE TypeOK'
    BY <2>12 DEF ProbeSent, svcVars, TypeOK, Reply
  <2>13. ASSUME NEW p \in Probe, ServiceStatus(p) PROVE TypeOK'
    BY <2>13 DEF ServiceStatus, svcVars, apiVars, TypeOK, Reply, Started
  <2>14. ASSUME NEW p \in Probe, ProbeAnswer(p) PROVE TypeOK'
    BY <2>14 DEF ProbeAnswer, ReleaseAll, armPoller, svcVars, TypeOK, Reply, Fresh
  <2>15. ASSUME NEW p \in Probe, ProbeError(p) PROVE TypeOK'
    BY <2>15 DEF ProbeError, armPoller, svcVars, TypeOK, Reply, Fresh
  <2>16. CASE UNCHANGED vars
    BY <2>16 DEF vars, svcVars, apiVars, TypeOK
  <2> QED
    BY <2>1, <2>2, <2>3, <2>4, <2>5, <2>6, <2>7, <2>8, <2>9, <2>10, <2>11, <2>12, <2>13,
       <2>14, <2>15, <2>16, NextCases
<1> QED
  BY <1>1, <1>2, PTL DEF Spec

\* No timer of an earlier run is left that would end a later one, whatever
\* starts and stops overlap.
THEOREM TimersOfCurrentRun == Spec => []TimerOfCurrentRun
<1>1. Init => TimerOfCurrentRun
  BY DEF Init, TimerOfCurrentRun
<1>2. TimerOfCurrentRun /\ [Next]_vars => TimerOfCurrentRun'
  <2> SUFFICES ASSUME TimerOfCurrentRun, [Next]_vars PROVE TimerOfCurrentRun'
    OBVIOUS
  <2>1. ASSUME NEW r \in Run, ServiceStart(r) PROVE TimerOfCurrentRun'
    BY <2>1 DEF ServiceStart, RunnerStart, TimerOfCurrentRun
  <2>2. ASSUME NEW r \in Run, DurationEnds(r) PROVE TimerOfCurrentRun'
    BY <2>2 DEF DurationEnds, TimerOfCurrentRun
  <2>3. ASSUME NEW k \in Stop, ServiceStop(k) PROVE TimerOfCurrentRun'
    BY <2>3 DEF ServiceStop, RunnerStop, TimerOfCurrentRun
  <2>4. ASSUME UNCHANGED <<status, current, timers>> PROVE TimerOfCurrentRun'
    BY <2>4 DEF TimerOfCurrentRun
  <2> QED
    BY <2>1, <2>2, <2>3, <2>4, NextCases
       DEF SendStart, StartFails, RegisterStart, GoStale, WorkersSettle, SendStop, StopAnswered,
           ReleaseStopped, StopFails, PollIdle, ProbeSent, ServiceStatus, ProbeAnswer,
           ProbeError, svcVars, vars
<1> QED
  BY <1>1, <1>2, PTL DEF Spec

\* As long as a handle is held a poll is scheduled or under way: every way out
\* of a probe arms the timer again.
THEOREM PollerStaysAlive == Spec => []PollerAlive
<1>1. Init => PollerAlive
  BY DEF Init, PollerAlive
<1>2. TypeOK /\ PollerAlive /\ [Next]_vars => PollerAlive'
  <2> SUFFICES ASSUME TypeOK, PollerAlive, [Next]_vars PROVE PollerAlive'
    OBVIOUS
  <2>1. ASSUME NEW r \in Run, RegisterStart(r) PROVE PollerAlive'
    BY <2>1 DEF RegisterStart, armPoller, PollerAlive
  <2>2. ASSUME NEW k \in Stop, ReleaseStopped(k) PROVE PollerAlive'
    BY <2>2 DEF ReleaseStopped, ReleaseAll, PollerAlive
  <2>3. CASE PollIdle
    BY <2>3 DEF PollIdle, PollerAlive
  <2>4. ASSUME NEW p \in Probe, ProbeSent(p) PROVE PollerAlive'
    <3>1. probe'[p].at = "asked"
      BY <2>4 DEF ProbeSent, TypeOK, Reply
    <3> QED
      BY <3>1 DEF PollerAlive, InFlight
  <2>5. ASSUME NEW p \in Probe, ServiceStatus(p) PROVE PollerAlive'
    <3>1. \A q \in Probe : InFlight(q) => InFlight(q)'
      BY <2>5 DEF ServiceStatus, TypeOK, InFlight, Reply
    <3> QED
      BY <2>5, <3>1 DEF ServiceStatus, apiVars, PollerAlive
  <2>6. ASSUME NEW p \in Probe, ProbeAnswer(p) PROVE PollerAlive'
    BY <2>6 DEF ProbeAnswer, armPoller, PollerAlive
  <2>7. ASSUME NEW p \in Probe, ProbeError(p) PROVE PollerAlive'
    BY <2>7 DEF ProbeError, armPoller, PollerAlive
  <2>8. ASSUME UNCHANGED <<handles, pollTimer, probe>> PROVE PollerAlive'
    BY <2>8 DEF PollerAlive, InFlight
  <2> QED
    BY <2>1, <2>2, <2>3, <2>4, <2>5, <2>6, <2>7, <2>8, NextCases
       DEF SendStart, ServiceStart, StartFails, GoStale, DurationEnds, WorkersSettle, SendStop,
           ServiceStop, StopAnswered, StopFails, apiVars, vars
<1> QED
  BY <1>1, <1>2, TypeCorrect, PTL DEF Spec

\* An answer that will release handles was always given after its runs ended.
LEMMA AlwaysAfterTheEnd == Spec => []AnswersAfterTheEnd
<1>1. Init => AnswersAfterTheEnd
  BY DEF Init, AnswersAfterTheEnd, Fresh
<1>2. TypeOK /\ AnswersAfterTheEnd /\ [Next]_vars => AnswersAfterTheEnd'
  <2> SUFFICES ASSUME TypeOK, AnswersAfterTheEnd, [Next]_vars PROVE AnswersAfterTheEnd'
    OBVIOUS
  \* What is over stays over: a run is started once.
  <2>1. \A r \in Run : Over(r) => Over(r)'
    <3>1. ASSUME NEW q \in Run, SendStart(q) \/ ServiceStart(q) \/ StartFails(q) \/ RegisterStart(q)
          PROVE  \A r \in Run : Over(r) => Over(r)'
      BY <3>1 DEF SendStart, ServiceStart, RunnerStart, StartFails, RegisterStart, svcVars,
                  TypeOK, Over
    <3>2. ASSUME start' = start, status' = "running" => status = "running" /\ current' = current
          PROVE  \A r \in Run : Over(r) => Over(r)'
      BY <3>2 DEF Over
    <3> QED
      BY <3>1, <3>2, NextCases
         DEF GoStale, DurationEnds, WorkersSettle, SendStop, ServiceStop, RunnerStop, StopAnswered,
             ReleaseStopped, StopFails, PollIdle, ProbeSent, ServiceStatus, ProbeAnswer,
             ProbeError, svcVars, apiVars, vars
  \* An answer that nothing runs is about runs that are over.
  <2>2. ASSUME NEW p \in Probe, ServiceStatus(p) PROVE AnswersAfterTheEnd'
    BY <2>1, <2>2 DEF ServiceStatus, svcVars, apiVars, TypeOK, Reply, AnswersAfterTheEnd, Over, Started
  <2>3. ASSUME NEW k \in Stop, ServiceStop(k) PROVE AnswersAfterTheEnd'
    BY <2>1, <2>3 DEF ServiceStop, RunnerStop, apiVars, TypeOK, Reply, AnswersAfterTheEnd, Over, Started
  <2>4. ASSUME NEW k \in Stop, SendStop(k) \/ StopAnswered(k) \/ ReleaseStopped(k) \/ StopFails(k)
        PROVE  AnswersAfterTheEnd'
    BY <2>1, <2>4 DEF SendStop, StopAnswered, ReleaseStopped, StopFails, apiVars, TypeOK, Reply,
                      AnswersAfterTheEnd
  <2>5. ASSUME NEW p \in Probe, ProbeSent(p) \/ ProbeAnswer(p) \/ ProbeError(p)
        PROVE  AnswersAfterTheEnd'
    BY <2>1, <2>5 DEF ProbeSent, ProbeAnswer, ProbeError, TypeOK, Reply, Fresh,
                      AnswersAfterTheEnd
  <2>6. ASSUME UNCHANGED <<probe, stop>> PROVE AnswersAfterTheEnd'
    BY <2>1, <2>6 DEF AnswersAfterTheEnd
  <2> QED
    BY <2>2, <2>3, <2>4, <2>5, <2>6, NextCases
       DEF SendStart, ServiceStart, StartFails, RegisterStart, GoStale, DurationEnds,
           WorkersSettle, PollIdle, apiVars, vars
<1> QED
  BY <1>1, <1>2, TypeCorrect, PTL DEF Spec

\* A run that goes on loses its entry only to an answer the service gave before
\* the run started: an answer that knows of the run was given after its end.
THEOREM UnlockedLateOnly == Spec => []OnlyLateAnswersUnlock
<1>1. Init => OnlyLateAnswersUnlock
  BY DEF Init, OnlyLateAnswersUnlock, RunsUnlisted
<1>2. TypeOK /\ AnswersAfterTheEnd /\ OnlyLateAnswersUnlock /\ [Next]_vars
        => OnlyLateAnswersUnlock'
  <2> SUFFICES ASSUME TypeOK, AnswersAfterTheEnd, OnlyLateAnswersUnlock, [Next]_vars,
                      NEW r \in Run, RunsUnlisted(r)'
               PROVE  r \in late'
    BY DEF OnlyLateAnswersUnlock
  <2>1. ASSUME NEW S, ReleaseAll(S), UNCHANGED <<status, current, start>>,
               r \in S => Over(r)
        PROVE  r \in late'
    BY <2>1 DEF ReleaseAll, RunsUnlisted, OnlyLateAnswersUnlock, Over
  <2>2. ASSUME NEW k \in Stop, ReleaseStopped(k) PROVE r \in late'
    BY <2>1, <2>2 DEF ReleaseStopped, svcVars, AnswersAfterTheEnd
  <2>3. ASSUME NEW p \in Probe, ProbeAnswer(p) PROVE r \in late'
    <3>1. CASE probe[p].at = "quiet"
      BY <2>1, <2>3, <3>1 DEF ProbeAnswer, svcVars, AnswersAfterTheEnd
    <3>2. CASE probe[p].at # "quiet"
      BY <2>3, <3>2 DEF ProbeAnswer, svcVars, RunsUnlisted, OnlyLateAnswersUnlock
    <3> QED
      BY <3>1, <3>2
  \* A run is registered with its handle, and starts before it is registered.
  <2>4. ASSUME NEW q \in Run,
               SendStart(q) \/ ServiceStart(q) \/ StartFails(q) \/ RegisterStart(q)
        PROVE  r \in late'
    BY <2>4 DEF SendStart, ServiceStart, RunnerStart, StartFails, RegisterStart, svcVars, apiVars,
                TypeOK, RunsUnlisted, OnlyLateAnswersUnlock
  <2>5. ASSUME UNCHANGED <<start, handles, late>>,
               status' = "running" => status = "running" /\ current' = current
        PROVE  r \in late'
    BY <2>5 DEF RunsUnlisted, OnlyLateAnswersUnlock
  <2> QED
    BY <2>2, <2>3, <2>4, <2>5, NextCases
       DEF GoStale, DurationEnds, WorkersSettle, SendStop, ServiceStop, RunnerStop, StopAnswered,
           StopFails, PollIdle, ProbeSent, ServiceStatus, ProbeError, svcVars, apiVars, vars
<1> QED
  BY <1>1, <1>2, TypeCorrect, AlwaysAfterTheEnd, PTL DEF Spec

-------------------------------------------------------------------------------
(* The services that follow the target: overlapping polls, profiles, activations *)
(* and restarts *)

\* A poll that holds an answer of the api.
Answered(f, i) == poll[f][i].at \in {"answered", "pinging"}

\* The api counts from one, an answer holds a version it has counted, and the store
\* has a profile whenever there is a target or a switch to one.
Begun ==
  /\ version >= 1 /\ (target # NoTarget \/ draining # {} => profile # NoTarget)
  /\ \A f \in Follower, i \in Poll : Answered(f, i) => poll[f][i].r.v >= 1

\* A reply of the api: of an older version, or of the Redis in force.
Fits(r) == r.v <= version /\ (r.v = version => r.t.ep = target.ep)

\* In the first life of the api whatever a follower holds fits.
Known ==
  reboots = 0 => /\ \A f \in Follower : bound[f].t # NoTarget => Fits(bound[f])
                 /\ \A f \in Follower, i \in Poll : Answered(f, i) => Fits(poll[f][i].r)

FInv == FTypeOK /\ Begun /\ Known

-------------------------------------------------------------------------------
(* Polls *)

LEMMA PollIs ==
  ASSUME FTypeOK, NEW f \in Follower, NEW i \in Poll
  PROVE  /\ poll[f][i] \in PollState
         /\ ~Answered(f, i) => poll[f][i].at \in {"idle", "asked"} /\ poll[f][i].r = Unbound
         /\ Answered(f, i) => poll[f][i].r \in FullReply
BY DEF FTypeOK, PollState, Answered

\* A poll moves on, and its follower with it or not.
LEMMA PollMoves ==
  ASSUME FInv, NEW f \in Follower, NEW i \in Poll, NEW q \in PollState,
         poll' = [poll EXCEPT ![f][i] = q], UNCHANGED <<servingVars, kind>>,
         q.at \in {"answered", "pinging"} =>
           q.r.v >= 1 /\ (reboots = 0 => Fits(q.r)),
         \/ bound' = bound
         \/ Answered(f, i) /\ bound' = [bound EXCEPT ![f] = poll[f][i].r]
  PROVE  FInv'
<1>1. UNCHANGED <<target, version, profile, draining, activations, reboots, kind>>
  BY DEF servingVars
<1>2. /\ poll' \in [Follower -> [Poll -> PollState]]
      /\ poll'[f][i] = q
      /\ \A g \in Follower, j \in Poll : <<g, j>> # <<f, i>> => poll'[g][j] = poll[g][j]
  BY DEF FInv, FTypeOK
<1>3. \A g \in Follower : bound'[g] = bound[g] \/ (g = f /\ Answered(f, i) /\ bound'[f] = poll[f][i].r)
  BY DEF FInv, FTypeOK
<1>4. Answered(f, i) =>
        /\ poll[f][i].r \in FullReply /\ poll[f][i].r.v >= 1
        /\ poll[f][i].r.t # NoTarget
        /\ reboots = 0 => Fits(poll[f][i].r)
  BY PollIs, FollowAssumption DEF FInv, Begun, Known, FullReply
<1>5. bound' \in [Follower -> [t : Target \cup {NoTarget}, v : Int]]
  <2>1. CASE bound' = bound
    BY <2>1 DEF FInv, FTypeOK
  <2>2. CASE Answered(f, i) /\ bound' = [bound EXCEPT ![f] = poll[f][i].r]
    <3>1. poll[f][i].r \in [t : Target \cup {NoTarget}, v : Int]
      BY <1>4, <2>2 DEF FullReply
    <3> QED BY <2>2, <3>1 DEF FInv, FTypeOK
  <2> QED BY <2>1, <2>2
<1>6. ASSUME NEW g \in Follower PROVE bound'[g].t = NoTarget <=> bound'[g].v \in {0, Fallback}
  <2>1. CASE bound'[g] = bound[g]
    BY <2>1 DEF FInv, FTypeOK
  <2>2. CASE Answered(f, i) /\ bound'[g] = poll[f][i].r
    BY <1>4, <2>2 DEF FullReply, Fallback
  <2> QED BY <1>3, <2>1, <2>2
<1>7. FTypeOK'
  BY <1>1, <1>2, <1>5, <1>6 DEF FInv, FTypeOK
<1>8. ASSUME NEW g \in Follower, NEW j \in Poll, Answered(g, j)'
      PROVE  poll'[g][j].r.v >= 1 /\ (reboots = 0 => Fits(poll'[g][j].r))
  <2>1. CASE <<g, j>> = <<f, i>>
    BY <1>2, <1>8, <2>1 DEF Answered
  <2>2. CASE <<g, j>> # <<f, i>>
    BY <1>2, <1>8, <2>2 DEF Answered, FInv, Begun, Known
  <2> QED BY <2>1, <2>2
<1>9. Begun'
  BY <1>1, <1>8 DEF Begun, FInv
<1>10. ASSUME NEW g \in Follower, bound'[g].t # NoTarget, reboots = 0 PROVE Fits(bound'[g])
  BY <1>3, <1>4, <1>10 DEF FInv, Known
<1>11. Known'
  BY <1>1, <1>8, <1>10 DEF Known, Fits
<1> QED BY <1>7, <1>9, <1>11 DEF FInv

-------------------------------------------------------------------------------
(* The steps *)

LEMMA InitKnown == FInit => FInv
<1> SUFFICES ASSUME FInit PROVE FInv
  OBVIOUS
<1>1. \A f \in Follower, i \in Poll : poll[f][i] = IdlePoll /\ ~Answered(f, i)
  BY DEF FInit, IdlePoll, Answered
<1>2. \A f \in Follower : bound[f] = Unbound
  BY DEF FInit
<1>3. IdlePoll \in PollState
  BY DEF IdlePoll, PollState
<1>4. Unbound \in [t : Target \cup {NoTarget}, v : Int]
      /\ (Unbound.t = NoTarget <=> Unbound.v \in {0, Fallback})
  BY DEF Unbound, Fallback
<1>5. FTypeOK
  BY <1>2, <1>3, <1>4, FollowAssumption DEF FInit, AInit, FTypeOK
<1>6. Begun
  BY <1>1 DEF FInit, AInit, Begun
<1>7. Known
  BY <1>1, <1>2 DEF Known, Unbound
<1> QED BY <1>5, <1>6, <1>7 DEF FInv

\* The api: activations, switches that end and restarts.
LEMMA ApiKeeps ==
  ASSUME FInv, (\E t \in Profiles : ActivateProfile(t) \/ FinishSwitch(t)) \/ RebootApi
  PROVE  FInv'
<1>1. UNCHANGED <<kind, bound, poll>>
  BY DEF ActivateProfile, FinishSwitch, RebootApi
<1>2. Profiles \subseteq Target /\ \A t \in Profiles : t # NoTarget
  BY FollowAssumption DEF Profiles
<1>3. \A f \in Follower, i \in Poll : Answered(f, i)' <=> Answered(f, i)
  BY <1>1 DEF Answered
<1>4. \A f \in Follower : bound[f].v \in Int
  BY DEF FInv, FTypeOK
<1>5. \A f \in Follower, i \in Poll : Answered(f, i) => poll[f][i].r.v \in Nat
  BY PollIs DEF FInv, FullReply
<1>6. CASE RebootApi
  <2>1. reboots' \in 1..MaxRestart /\ FTypeOK'
    BY <1>1, <1>6, FollowAssumption DEF RebootApi, FInv, FTypeOK
  <2>2. Begun'
    BY <1>1, <1>3, <1>6 DEF RebootApi, FInv, Begun
  <2> QED BY <2>1, <2>2 DEF FInv, Known
<1>7. ASSUME NEW t \in Profiles, Commit(t), UNCHANGED reboots PROVE Known'
  <2>1. version' = version + 1 /\ version \in Nat
    BY <1>7 DEF Commit, FInv, FTypeOK
  <2>2. \A f \in Follower : bound[f].t # NoTarget /\ reboots = 0 => Fits(bound[f])'
    BY <1>1, <1>4, <2>1 DEF FInv, Known, Fits
  <2>3. \A f \in Follower, i \in Poll :
          Answered(f, i) /\ reboots = 0 => Fits(poll[f][i].r)'
    BY <1>1, <1>5, <2>1 DEF FInv, Known, Fits
  <2> QED BY <1>1, <1>3, <1>7, <2>2, <2>3 DEF Known, Fits
<1>8. ASSUME NEW t \in Profiles, ActivateProfile(t) PROVE FInv'
  <2>1. activations' \in 0..MaxActivate /\ profile' = t /\ UNCHANGED reboots
    BY <1>8, FollowAssumption DEF ActivateProfile, FInv, FTypeOK
  <2>2. CASE target = NoTarget
    <3>1. Commit(t) /\ UNCHANGED draining
      BY <1>8, <2>2 DEF ActivateProfile
    <3>2. FTypeOK' /\ Begun'
      BY <1>1, <1>2, <1>3, <2>1, <3>1 DEF Commit, FInv, FTypeOK, Begun
    <3> QED BY <1>7, <2>1, <3>1, <3>2 DEF FInv
  <2>3. CASE target # NoTarget
    <3>1. draining' = draining \cup {t} /\ UNCHANGED <<target, version>>
      BY <1>8, <2>3 DEF ActivateProfile
    <3>2. FTypeOK' /\ Begun'
      BY <1>1, <1>2, <1>3, <2>1, <3>1 DEF FInv, FTypeOK, Begun
    <3>3. Known'
      BY <1>1, <1>3, <2>1, <3>1 DEF FInv, Known, Fits
    <3> QED BY <3>2, <3>3 DEF FInv
  <2> QED BY <2>2, <2>3
<1>9. ASSUME NEW t \in Profiles, FinishSwitch(t) PROVE FInv'
  <2>1. Commit(t) /\ draining' = draining \ {t} /\ UNCHANGED <<profile, activations, reboots>>
    BY <1>9 DEF FinishSwitch
  <2>2. profile # NoTarget
    BY <1>9 DEF FInv, Begun, FinishSwitch
  <2>3. FTypeOK' /\ Begun'
    BY <1>1, <1>2, <1>3, <2>1, <2>2 DEF Commit, FInv, FTypeOK, Begun
  <2> QED BY <1>7, <2>1, <2>3 DEF FInv
<1> QED BY <1>6, <1>8, <1>9

\* A poll: asked, answered or not, and what the follower makes of the answer.
LEMMA PollKeeps ==
  ASSUME FInv, NEW f \in Follower, NEW i \in Poll, PollStep(f, i)
  PROVE  FInv'
<1>1. /\ poll[f][i] \in PollState
      /\ ~Answered(f, i) => poll[f][i].at \in {"idle", "asked"} /\ poll[f][i].r = Unbound
      /\ Answered(f, i) => poll[f][i].r \in FullReply
  BY PollIs DEF FInv
<1>2. Answered(f, i) => poll[f][i].r.v >= 1 /\ (reboots = 0 => Fits(poll[f][i].r))
  BY DEF FInv, Begun, Known
<1>3. IdlePoll \in PollState /\ IdlePoll.at = "idle"
  BY DEF IdlePoll, PollState
<1>4. ASSUME Done(f, i), UNCHANGED <<servingVars, kind, bound>> PROVE FInv'
  BY <1>3, <1>4, PollMoves DEF Done
<1>5. ASSUME Done(f, i), UNCHANGED <<servingVars, kind>>, Answered(f, i),
             bound' = [bound EXCEPT ![f] = poll[f][i].r]
      PROVE  FInv'
  BY <1>3, <1>5, PollMoves DEF Done
<1>6. CASE Ask(f, i)
  <2> DEFINE q == [poll[f][i] EXCEPT !.at = "asked"]
  <2>1. poll' = [poll EXCEPT ![f][i] = q] /\ UNCHANGED <<servingVars, kind, bound>>
    BY <1>6 DEF Ask
  <2>2. ~Answered(f, i)
    BY <1>6 DEF Ask, Answered
  <2>3. q \in PollState /\ q.at = "asked"
    BY <1>1, <2>2 DEF PollState
  <2> HIDE DEF q
  <2> QED BY <2>1, <2>3, PollMoves
<1>7. CASE Answer(f, i)
  <2> DEFINE q == [at |-> "answered", r |-> FullAnswer]
  <2>1. poll' = [poll EXCEPT ![f][i] = q] /\ UNCHANGED <<servingVars, kind, bound>>
    BY <1>7 DEF Answer
  <2>2. target \in Target /\ profile \in Target
    BY <1>7 DEF Answer, FInv, FTypeOK, Begun
  <2>3. /\ FullAnswer \in FullReply /\ FullAnswer.v = version
        /\ FullAnswer.t.ep = target.ep
    BY <2>2 DEF FullAnswer, FullReply, Target, FInv, FTypeOK
  <2>4. FullAnswer.v >= 1 /\ Fits(FullAnswer)
    BY <2>3 DEF Fits, FInv, FTypeOK, Begun
  <2>5. q \in PollState /\ q.r = FullAnswer
    BY <2>3 DEF PollState
  <2> HIDE DEF q
  <2> QED BY <2>1, <2>4, <2>5, PollMoves
<1>8. CASE NoAnswer(f, i)
  BY <1>4, <1>8 DEF NoAnswer, Done
<1>9. CASE SameVersion(f, i)
  BY <1>4, <1>9 DEF SameVersion
<1>10. CASE LoadgenSwap(f, i)
  BY <1>5, <1>10 DEF LoadgenSwap, NewVersion, Answered
<1>11. CASE SourceBuild(f, i)
  <2> DEFINE q == [poll[f][i] EXCEPT !.at = "pinging"]
  <2>1. poll' = [poll EXCEPT ![f][i] = q] /\ UNCHANGED <<servingVars, kind, bound>>
    BY <1>11 DEF SourceBuild
  <2>2. Answered(f, i)
    BY <1>11 DEF SourceBuild, NewVersion, Answered
  <2>3. q \in PollState /\ q.r = poll[f][i].r
    BY <1>1, <2>2 DEF PollState, Answered
  <2> HIDE DEF q
  <2> QED BY <1>2, <2>1, <2>2, <2>3, PollMoves
<1>12. CASE PingOk(f, i)
  BY <1>5, <1>12 DEF PingOk, Answered
<1>13. CASE PingFails(f, i)
  BY <1>4, <1>13 DEF PingFails
<1> QED BY <1>6, <1>7, <1>8, <1>9, <1>10, <1>11, <1>12, <1>13 DEF PollStep, PollGoesOn

\* The fallback to REDIS_URL has no target.
LEMMA FallbackKeeps ==
  ASSUME FInv, NEW f \in Follower, SourceFallback(f)
  PROVE  FInv'
<1>1. bound[f] = Unbound /\ UNCHANGED <<servingVars, kind, poll>>
      /\ bound' = [bound EXCEPT ![f] = [bound[f] EXCEPT !.v = Fallback]]
  BY DEF SourceFallback
<1>2. /\ [bound[f] EXCEPT !.v = Fallback] \in [t : Target \cup {NoTarget}, v : Int]
      /\ [bound[f] EXCEPT !.v = Fallback].t = NoTarget
      /\ [bound[f] EXCEPT !.v = Fallback].v = Fallback
  BY <1>1 DEF Unbound, Fallback
<1>3. /\ bound' \in [Follower -> [t : Target \cup {NoTarget}, v : Int]]
      /\ bound'[f].t = NoTarget /\ bound'[f].v = Fallback
      /\ \A g \in Follower : g # f => bound'[g] = bound[g]
  BY <1>1, <1>2 DEF FInv, FTypeOK
<1>4. \A g \in Follower : bound'[g].t = NoTarget <=> bound'[g].v \in {0, Fallback}
  BY <1>3 DEF FInv, FTypeOK
<1>5. FTypeOK'
  BY <1>1, <1>3, <1>4 DEF FInv, FTypeOK, servingVars
<1>6. Begun'
  BY <1>1 DEF FInv, Begun, Answered, servingVars
<1>7. \A g \in Follower : reboots = 0 /\ bound'[g].t # NoTarget => Fits(bound'[g])
  BY <1>3 DEF FInv, Known
<1>8. Known'
  BY <1>1, <1>7 DEF FInv, Known, Fits, Answered, servingVars
<1> QED BY <1>5, <1>6, <1>8 DEF FInv

-------------------------------------------------------------------------------
(* The theorems *)

LEMMA AlwaysKnown == FSpec => []FInv
<1>1. FInv /\ [FNext]_fvars => FInv'
  <2> SUFFICES ASSUME FInv, [FNext]_fvars PROVE FInv'
    OBVIOUS
  <2>1. CASE (\E t \in Profiles : ActivateProfile(t) \/ FinishSwitch(t)) \/ RebootApi
    BY <2>1, ApiKeeps
  <2>2. CASE \E f \in Follower, i \in Poll : PollStep(f, i)
    BY <2>2, PollKeeps
  <2>3. CASE \E f \in Follower : SourceFallback(f)
    BY <2>3, FallbackKeeps
  <2>4. CASE UNCHANGED fvars
    BY <2>4 DEF fvars, servingVars, FInv, FTypeOK, Begun, Known, Fits, Answered
  <2> QED BY <2>1, <2>2, <2>3, <2>4 DEF FNext
<1> QED BY <1>1, InitKnown, PTL DEF FSpec

\* The types of the followers: one is without a target exactly when it has no
\* version of the api, for which it needs versions that start at one.
THEOREM FollowTypes == FSpec => []FTypeOK
<1>1. FInv => FTypeOK
  BY DEF FInv
<1> QED BY <1>1, AlwaysKnown, PTL

\* However the answers and pings of overlapping polls overtake each other and
\* the switches: in one life of the api a follower that holds the version in force
\* holds the Redis in force, so that comparing versions is enough.
THEOREM OneRedis == FSpec => []SameVersionSameRedis
<1>1. FInv => SameVersionSameRedis
  BY DEF FInv, Known, Fits, SameVersionSameRedis
<1> QED BY <1>1, AlwaysKnown, PTL

-------------------------------------------------------------------------------
(* The swap of the ingest consumers: one rebuild at a time, and without faults   *)
(* one consumer *)

-------------------------------------------------------------------------------
(* The tasks *)

TaskRecord ==
  [pc : Pc, got : Served, on : Consumer \cup {0}, tgt : TargetId, within : Within,
   tries : 0..(Try - 1)]

\* The steps of a call: who may be where.
Stages(t) ==
  CASE t[1] = "poll" -> {"idle", "fetch", "reply", "stop", "spawn"}
    [] t[1] = "op" -> {"idle", "stop", "flush", "spawn"}
    [] t[1] = "prepare" -> {"idle", "drain", "latedrain", "done"}
    [] t[1] = "commit" -> {"idle", "fetch", "reply", "polled", "stop", "spawn", "sleep", "done"}

\* A call is where its kind may be; it waits for a consumer; only swapTo rebuilds
\* within a swap, and only haltAndFlush flushes.
Staged ==
  \A t \in Task :
    /\ task[t].pc \in Stages(t)
    /\ task[t].pc \in {"stop", "drain", "latedrain"} => task[t].on \in Consumer
    /\ task[t].within = "swap" => task[t].pc \in {"stop", "spawn"} /\ t[1] # "op"

LEMMA Kinds ==
  ASSUME NEW t \in Task
  PROVE  /\ t[1] \in {"poll", "op", "prepare", "commit"}
         /\ t \in PrepareCall <=> t[1] = "prepare"
         /\ t \in CommitCall <=> t[1] = "commit"
         /\ t[1] \in {"prepare", "commit"} => t[2] \in Switch
         /\ t = <<"op", "halt">> => t[1] = "op"
BY DEF Task, PrepareCall, CommitCall, Op

LEMMA IdleIsTyped == Idle \in TaskRecord
BY SwapAssumption DEF Idle, TaskRecord, Pc, Served, TargetId, Within

\* What the ways to leave a step behind make of the tasks.
LEMMA Leaves ==
  ASSUME task \in [Task -> TaskRecord], NEW t \in Task, NEW p \in Pc,
         Reset(t, p) \/ Go(t, p) \/ Finish(t) \/ EndPoll(t)
  PROVE  /\ task' \in [Task -> TaskRecord]
         /\ \A u \in Task : u # t => task'[u] = task[u]
<1>1. ASSUME NEW q \in Pc
      PROVE  [Idle EXCEPT !.pc = q, !.tries = task[t].tries] \in TaskRecord
             /\ [Idle EXCEPT !.pc = q] \in TaskRecord /\ [task[t] EXCEPT !.pc = q] \in TaskRecord
  BY IdleIsTyped DEF TaskRecord
<1>2. "idle" \in Pc /\ "done" \in Pc /\ "polled" \in Pc
  BY DEF Pc
<1>3. CASE Reset(t, p)
  BY <1>1, <1>3 DEF Reset
<1>4. CASE Go(t, p)
  BY <1>1, <1>4 DEF Go
<1>5. CASE Finish(t)
  BY <1>1, <1>2, <1>5 DEF Finish
<1>6. CASE EndPoll(t)
  BY <1>1, <1>2, <1>6 DEF EndPoll, Reset, Finish
<1> QED BY <1>3, <1>4, <1>5, <1>6

LEMMA Resets ==
  ASSUME task \in [Task -> TaskRecord], NEW t \in Task, NEW p \in Pc, Reset(t, p)
  PROVE  task'[t].pc = p /\ task'[t].within = "direct"
BY IdleIsTyped DEF Reset, TaskRecord, Idle

LEMMA Goes ==
  ASSUME task \in [Task -> TaskRecord], NEW t \in Task, NEW p \in Pc, Go(t, p)
  PROVE  /\ task'[t].pc = p /\ task'[t].within = task[t].within
         /\ task'[t].on = task[t].on
BY DEF Go, TaskRecord

LEMMA Finishes ==
  ASSUME task \in [Task -> TaskRecord], NEW t \in Task, Finish(t)
  PROVE  /\ task'[t].pc = IF t[1] \in {"poll", "op"} THEN "idle" ELSE "done"
         /\ task'[t].within = "direct"
BY IdleIsTyped DEF Finish, TaskRecord, Idle

LEMMA EndsPoll ==
  ASSUME task \in [Task -> TaskRecord], NEW t \in Task, EndPoll(t)
  PROVE  /\ task'[t].pc = CASE t[1] = "commit" -> "polled"
                             [] t[1] \in {"poll", "op"} -> "idle" [] OTHER -> "done"
         /\ task'[t].within = "direct"
<1>1. CASE t \in CommitCall
  BY <1>1, Kinds, Resets DEF EndPoll, Pc
<1>2. CASE t \notin CommitCall
  BY <1>2, Kinds, Finishes DEF EndPoll
<1> QED BY <1>1, <1>2

LEMMA Waits ==
  ASSUME task \in [Task -> TaskRecord], NEW t \in Task, NEW p \in Pc, NEW w \in Within,
         multi \in Consumer, Wait(t, p, w)
  PROVE  /\ task' \in [Task -> TaskRecord]
         /\ \A u \in Task : u # t => task'[u] = task[u]
         /\ task'[t].pc = p /\ task'[t].on = multi /\ task'[t].within = w
BY IdleIsTyped DEF Wait, TaskRecord, Idle

LEMMA Spawns ==
  ASSUME task \in [Task -> TaskRecord], NEW t \in Task, NEW w \in Within,
         NEW tgt \in TargetId, Spawning(t, w, tgt)
  PROVE  /\ task' \in [Task -> TaskRecord]
         /\ \A u \in Task : u # t => task'[u] = task[u]
         /\ task'[t].pc = "spawn" /\ task'[t].within = w
BY IdleIsTyped DEF Spawning, TaskRecord, Idle, Pc

\* RebuildBusyError.
LEMMA Busies ==
  ASSUME task \in [Task -> TaskRecord], NEW t \in Task, Busy(t)
  PROVE  /\ task' \in [Task -> TaskRecord]
         /\ \A u \in Task : u # t => task'[u] = task[u]
         /\ task'[t].within = "direct"
         /\ \/ task'[t].pc = "sleep" /\ t[1] = "commit"
            \/ task'[t].pc = "idle" /\ t[1] \in {"poll", "op"}
            \/ task'[t].pc = "done" /\ t[1] \in {"prepare", "commit"}
<1>1. CASE t \in CommitCall /\ task[t].tries + 1 < Try
  <2>1. task[t].tries + 1 \in 0..(Try - 1)
    BY <1>1, SwapAssumption DEF TaskRecord
  <2>2. [Idle EXCEPT !.pc = "sleep", !.tries = task[t].tries + 1] \in TaskRecord
    BY <2>1, IdleIsTyped DEF TaskRecord, Pc
  <2>3. task' = [task EXCEPT ![t] = [Idle EXCEPT !.pc = "sleep", !.tries = task[t].tries + 1]]
    BY <1>1 DEF Busy
  <2> QED BY <1>1, <2>2, <2>3, Kinds DEF Idle, TaskRecord
<1>2. CASE ~(t \in CommitCall /\ task[t].tries + 1 < Try)
  <2>1. Finish(t)
    BY <1>2 DEF Busy
  <2>2. "idle" \in Pc
    BY DEF Pc
  <2> QED BY <2>1, <2>2, Leaves, Finishes, Kinds
<1> QED BY <1>1, <1>2

-------------------------------------------------------------------------------
(* The consumers *)

ConsumerRecord == [tgt : TargetId, st : {"none", "running", "stopping", "stopped"}]
Consumers ==
  /\ consumer \in [Consumer -> ConsumerRecord]
  /\ multi \in Consumer \cup {0} /\ (multi # 0 => consumer[multi].st # "none")

\* StopMulti tells a running consumer to stop and leaves the others alone.
LEMMA Stops ==
  ASSUME Consumers, multi # 0, StopMulti
  PROVE  /\ consumer' \in [Consumer -> ConsumerRecord]
         /\ consumer'[multi].st \in {"stopping", "stopped"}
         /\ \A c \in Consumer :
              \/ consumer'[c] = consumer[c]
              \/ c = multi /\ consumer[c].st = "running" /\ consumer'[c].st = "stopping"
<1>1. consumer[multi] \in ConsumerRecord /\ multi \in Consumer
  BY DEF Consumers
<1>2. consumer' = [consumer EXCEPT ![multi] =
                     [consumer[multi] EXCEPT !.st =
                        IF consumer[multi].st = "running" THEN "stopping" ELSE consumer[multi].st]]
  BY <1>1 DEF StopMulti, Consumers
<1> DEFINE told == [consumer[multi] EXCEPT !.st =
                      IF consumer[multi].st = "running" THEN "stopping" ELSE consumer[multi].st]
<1>3. /\ told \in ConsumerRecord
      /\ \/ told = consumer[multi] /\ told.st \in {"stopping", "stopped"}
         \/ consumer[multi].st = "running" /\ told.st = "stopping"
  BY <1>1 DEF Consumers, ConsumerRecord
<1>4. consumer' = [consumer EXCEPT ![multi] = told]
  BY <1>2
<1>5. consumer'[multi] = told /\ \A c \in Consumer : c # multi => consumer'[c] = consumer[c]
  BY <1>1, <1>4 DEF Consumers
<1> HIDE DEF told
<1>6. consumer' \in [Consumer -> ConsumerRecord]
  BY <1>1, <1>3, <1>4 DEF Consumers
<1>7. consumer'[multi].st \in {"stopping", "stopped"}
  BY <1>3, <1>5
<1>8. ASSUME NEW c \in Consumer
      PROVE  \/ consumer'[c] = consumer[c]
             \/ c = multi /\ consumer[c].st = "running" /\ consumer'[c].st = "stopping"
  <2>1. CASE c = multi
    BY <1>3, <1>5, <2>1
  <2> QED BY <1>5, <2>1
<1> QED BY <1>6, <1>7, <1>8

LEMMA Starts ==
  ASSUME Consumers, NEW c \in Consumer, NEW tgt \in TargetId, NewConsumer(c, tgt)
  PROVE  /\ consumer' \in [Consumer -> ConsumerRecord]
         /\ consumer'[c].st = "running"
         /\ \A d \in Consumer : d # c => consumer'[d] = consumer[d]
BY DEF Consumers, ConsumerRecord, NewConsumer

\* A rebuild begins: its task waits for the consumer there is, or spawns at once.
LEMMA Drains ==
  ASSUME Consumers, task \in [Task -> TaskRecord], NEW t \in Task, NEW w \in Within,
         NEW tgt \in TargetId, Drain(t, w, tgt)
  PROVE  /\ task' \in [Task -> TaskRecord]
         /\ \A u \in Task : u # t => task'[u] = task[u]
         /\ task'[t].within = w
         /\ \/ /\ multi # 0 /\ StopMulti
               /\ task'[t].pc = "stop" /\ task'[t].on = multi
            \/ /\ multi = 0 /\ consumer' = consumer
               /\ task'[t].pc = "spawn"
         /\ rebuilding' = TRUE /\ multi' = multi /\ UNCHANGED <<lateSpawns, adminVars>>
<1>1. CASE multi # 0
  <2>1. StopMulti /\ Wait(t, "stop", w)
    BY <1>1 DEF Drain
  <2> QED BY <1>1, <2>1, Waits DEF Drain, Consumers, Pc
<1>2. CASE multi = 0
  <2>1. Spawning(t, w, tgt) /\ UNCHANGED consumer
    BY <1>2 DEF Drain
  <2> QED BY <1>2, <2>1, Spawns DEF Drain
<1> QED BY <1>1, <1>2

-------------------------------------------------------------------------------
(* The mutex *)

Rebuilds == {"stop", "flush", "spawn"}

Swaps(t) == InRebuild(t) /\ task[t].within = "swap"

\* Unless an operator cleared the mutex, one task at most is in a rebuild, and the
\* flag says whether one is.  A swap is always alone, and has a flag of its own.
OneRebuild ==
  /\ ~cleared => /\ \A t, u \in Task : InRebuild(t) /\ InRebuild(u) => t = u
                 /\ rebuilding <=> \E t \in Task : InRebuild(t)
  /\ \A t, u \in Task : Swaps(t) /\ Swaps(u) => t = u
  /\ swapping <=> \E t \in Task : Swaps(t)

LEMMA Outside ==
  ASSUME OneRebuild, NEW t \in Task, ~InRebuild(t), task'[t].pc \notin Rebuilds,
         \A u \in Task : u # t => task'[u] = task[u],
         UNCHANGED <<rebuilding, swapping, cleared>>
  PROVE  OneRebuild'
BY DEF OneRebuild, Swaps, InRebuild, Rebuilds

LEMMA Enters ==
  ASSUME OneRebuild, NEW t \in Task, ~InRebuild(t), ~rebuilding, task'[t].pc \in Rebuilds,
         \A u \in Task : u # t => task'[u] = task[u], rebuilding' = TRUE,
         IF task'[t].within = "swap" THEN ~swapping /\ swapping' ELSE UNCHANGED swapping,
         UNCHANGED cleared
  PROVE  OneRebuild'
<1>1. \A u \in Task : Swaps(u)' <=> IF u = t THEN task'[t].within = "swap" ELSE Swaps(u)
  BY DEF Swaps, InRebuild, Rebuilds
<1>2. \A u \in Task : InRebuild(u)' <=> u = t \/ InRebuild(u)
  BY DEF InRebuild, Rebuilds
<1>3. ~Swaps(t)
  BY DEF Swaps
<1> QED BY <1>1, <1>2, <1>3 DEF OneRebuild

LEMMA GoesOn ==
  ASSUME OneRebuild, NEW t \in Task, InRebuild(t), task'[t].pc \in Rebuilds,
         task'[t].within = task[t].within,
         \A u \in Task : u # t => task'[u] = task[u],
         UNCHANGED <<rebuilding, swapping, cleared>>
  PROVE  OneRebuild'
BY DEF OneRebuild, Swaps, InRebuild, Rebuilds

LEMMA Exits ==
  ASSUME OneRebuild, NEW t \in Task, InRebuild(t), task'[t].pc \notin Rebuilds,
         \A u \in Task : u # t => task'[u] = task[u], rebuilding' = FALSE,
         swapping' = IF task[t].within = "swap" THEN FALSE ELSE swapping,
         UNCHANGED cleared
  PROVE  OneRebuild'
BY DEF OneRebuild, Swaps, InRebuild, Rebuilds

-------------------------------------------------------------------------------
(* The types, by who owns the variables *)

ServerTypes ==
  /\ env \in Environment /\ api \in Served /\ stored \in TargetId
  /\ switch \in [Switch -> {"none", "preparing", "committed", "dead"}]
  /\ restarts \in 0..env.restarts /\ cleared \in BOOLEAN
WatchTypes == cur \in Served /\ swapping \in BOOLEAN /\ active \in TargetId
RuntimeTypes == Consumers /\ rebuilding \in BOOLEAN /\ lateSpawns \subseteq TargetId
AdminTypes ==
  pending \in Switch \cup {0} /\ drained \subseteq Switch /\ committed \subseteq Switch
TaskTypes == task \in [Task -> TaskRecord]

LEMMA Owners ==
  /\ SwapTypes <=> ServerTypes /\ WatchTypes /\ RuntimeTypes /\ AdminTypes /\ TaskTypes
  /\ SwapTypes' <=> ServerTypes' /\ WatchTypes' /\ RuntimeTypes' /\ AdminTypes' /\ TaskTypes'
BY DEF SwapTypes, ServerTypes, WatchTypes, RuntimeTypes, AdminTypes, TaskTypes, Consumers,
       ConsumerRecord, TaskRecord

LEMMA OwnersUnchanged ==
  /\ ServerTypes /\ UNCHANGED serverVars => ServerTypes'
  /\ WatchTypes /\ UNCHANGED watchVars => WatchTypes'
  /\ RuntimeTypes /\ UNCHANGED runtimeVars => RuntimeTypes'
  /\ AdminTypes /\ UNCHANGED adminVars => AdminTypes'
BY DEF ServerTypes, WatchTypes, RuntimeTypes, AdminTypes, serverVars, watchVars, runtimeVars,
       adminVars, Consumers

Good == SwapTypes /\ Staged /\ OneRebuild

\* A call outside the rebuilds takes a step that is none.
LEMMA StepsOutside ==
  ASSUME Good, NEW t \in Task, ~InRebuild(t), TaskTypes',
         \A u \in Task : u # t => task'[u] = task[u],
         task'[t].pc \in Stages(t) \ Rebuilds, task'[t].within = "direct",
         task'[t].pc \in {"drain", "latedrain"} => task'[t].on \in Consumer,
         UNCHANGED <<rebuilding, swapping, serverVars>>
  PROVE  Staged' /\ OneRebuild'
<1>1. OneRebuild'
  BY Outside DEF Good, serverVars
<1>2. Staged'
  BY DEF Good, Staged, Rebuilds, Stages
<1> QED BY <1>1, <1>2

\* A call outside the rebuilds begins one.
LEMMA StepsIn ==
  ASSUME Good, NEW t \in Task, ~InRebuild(t), ~rebuilding, TaskTypes',
         \A u \in Task : u # t => task'[u] = task[u],
         task'[t].pc \in Stages(t) \cap Rebuilds,
         task'[t].pc = "stop" => task'[t].on \in Consumer,
         task'[t].within = "swap" => task'[t].pc # "flush" /\ t[1] # "op",
         rebuilding' = TRUE, UNCHANGED serverVars,
         IF task'[t].within = "swap" THEN ~swapping /\ swapping' ELSE UNCHANGED swapping
  PROVE  Staged' /\ OneRebuild'
<1>1. OneRebuild'
  BY Enters DEF Good, serverVars
<1>2. Staged'
  BY DEF Good, Staged, Rebuilds, Stages
<1> QED BY <1>1, <1>2

\* A call goes from one step of its rebuild to the next.
LEMMA StepsOn ==
  ASSUME Good, NEW t \in Task, InRebuild(t), TaskTypes',
         \A u \in Task : u # t => task'[u] = task[u],
         task'[t].pc \in Stages(t) \cap Rebuilds, task'[t].pc # "stop",
         task'[t].within = task[t].within, task'[t].pc = "flush" => task'[t].within = "direct",
         UNCHANGED <<rebuilding, swapping, serverVars>>
  PROVE  Staged' /\ OneRebuild'
<1>1. OneRebuild'
  BY GoesOn DEF Good, serverVars
<1>2. Staged'
  BY DEF Good, Staged, Rebuilds, Stages
<1> QED BY <1>1, <1>2

\* A call leaves its rebuild.
LEMMA StepsOut ==
  ASSUME Good, NEW t \in Task, InRebuild(t), TaskTypes',
         \A u \in Task : u # t => task'[u] = task[u],
         task'[t].pc \in Stages(t) \ Rebuilds, task'[t].within = "direct",
         task'[t].pc \notin {"drain", "latedrain"}, rebuilding' = FALSE,
         swapping' = IF task[t].within = "swap" THEN FALSE ELSE swapping,
         UNCHANGED serverVars
  PROVE  Staged' /\ OneRebuild'
<1>1. OneRebuild'
  BY Exits DEF Good, serverVars
<1>2. Staged'
  BY DEF Good, Staged, Rebuilds, Stages
<1> QED BY <1>1, <1>2

-------------------------------------------------------------------------------
(* The steps *)

LEMMA GoodIs ==
  ASSUME Good
  PROVE  /\ ServerTypes /\ WatchTypes /\ RuntimeTypes /\ AdminTypes /\ TaskTypes
         /\ Consumers /\ Staged /\ OneRebuild /\ active \in TargetId
         /\ \A t \in Task : task[t] \in TaskRecord
BY Owners DEF Good, TaskTypes, WatchTypes, RuntimeTypes

\* The rebuild of an operator or of the commit closure.
LEMMA RebuildKeeps ==
  ASSUME Good, NEW t \in Task, ~InRebuild(t), t[1] \in {"op", "commit"}, Rebuild(t),
         UNCHANGED <<serverVars, cur>>
  PROVE  Good'
<1> USE GoodIs
<1>1. CASE rebuilding
  <2>1. Busy(t) /\ UNCHANGED active
    BY <1>1 DEF Rebuild
  <2>2. /\ TaskTypes' /\ \A u \in Task : u # t => task'[u] = task[u]
        /\ task'[t].within = "direct" /\ task'[t].pc \in Stages(t) \ Rebuilds
        /\ task'[t].pc \notin {"drain", "latedrain"}
    BY <2>1, Busies DEF TaskTypes, Stages, Rebuilds
  <2>3. UNCHANGED <<runtimeVars, watchVars, adminVars>>
    BY <2>1 DEF Busy, watchVars
  <2>4. Staged' /\ OneRebuild'
    BY <2>2, <2>3, StepsOutside DEF runtimeVars, watchVars
  <2> QED BY <2>2, <2>3, <2>4, OwnersUnchanged, Owners DEF Good
<1>2. CASE ~rebuilding
  <2>1. Drain(t, "direct", active) /\ UNCHANGED <<swapping, active>>
    BY <1>2 DEF Rebuild
  <2>2. "direct" \in Within
    BY DEF Within
  <2>3. /\ TaskTypes' /\ \A u \in Task : u # t => task'[u] = task[u]
        /\ task'[t].within = "direct" /\ task'[t].pc \in Stages(t) \cap Rebuilds
        /\ task'[t].pc = "stop" => task'[t].on \in Consumer
        /\ rebuilding' = TRUE /\ UNCHANGED <<multi, lateSpawns, adminVars>>
    BY <2>1, <2>2, Drains DEF TaskTypes, Stages, Rebuilds, Consumers
  <2>4. Staged' /\ OneRebuild'
    BY <1>2, <2>1, <2>3, StepsIn
  <2>5. Consumers'
    BY <2>1, <2>2, Drains, Stops DEF Consumers, TaskTypes
  <2>6. RuntimeTypes' /\ WatchTypes'
    BY <2>1, <2>3, <2>5 DEF RuntimeTypes, WatchTypes
  <2> QED BY <2>3, <2>4, <2>6, OwnersUnchanged, Owners DEF Good
<1> QED BY <1>1, <1>2

\* The caller of rebuild goes on with its result.
LEMMA Returns ==
  ASSUME Good, NEW t \in Task, InRebuild(t), NEW ok \in BOOLEAN, Returned(t, ok),
         rebuilding' = FALSE, UNCHANGED serverVars
  PROVE  /\ TaskTypes' /\ Staged' /\ OneRebuild' /\ AdminTypes' /\ swapping' \in BOOLEAN
         /\ \A u \in Task : u # t => task'[u] = task[u]
         /\ task'[t].pc \in {"idle", "done", "polled"}
<1> USE GoodIs
<1>1. t[1] \in {"poll", "op", "commit"} /\ task[t].within \in Within
  BY Kinds DEF Staged, InRebuild, Stages, TaskRecord
<1>2. CASE task[t].within = "swap"
  <2>1. swapping' = FALSE /\ EndPoll(t) /\ UNCHANGED adminVars
    BY <1>2 DEF Returned
  <2>2. t[1] \in {"poll", "commit"}
    BY <1>1, <1>2 DEF Staged
  <2>3. /\ TaskTypes' /\ \A u \in Task : u # t => task'[u] = task[u]
        /\ task'[t].within = "direct" /\ task'[t].pc \in Stages(t) \ Rebuilds
        /\ task'[t].pc \in {"idle", "done", "polled"}
    BY <2>1, <2>2, Leaves, EndsPoll DEF TaskTypes, Stages, Rebuilds, Pc
  <2>4. Staged' /\ OneRebuild'
    BY <1>2, <2>1, <2>3, StepsOut
  <2> QED BY <2>1, <2>3, <2>4, OwnersUnchanged
<1>3. CASE task[t].within = "direct"
  <2>1. UNCHANGED swapping /\ Finish(t) /\ AdminTypes'
    <3>1. t \in CommitCall => t[2] \in Switch
      BY Kinds
    <3> QED BY <1>3, <3>1 DEF Returned, AdminTypes, adminVars
  <2>2. /\ TaskTypes' /\ \A u \in Task : u # t => task'[u] = task[u]
        /\ task'[t].within = "direct" /\ task'[t].pc \in Stages(t) \ Rebuilds
        /\ task'[t].pc \in {"idle", "done", "polled"}
    BY <1>1, <2>1, Leaves, Finishes DEF TaskTypes, Stages, Rebuilds, Pc
  <2>3. Staged' /\ OneRebuild'
    BY <1>3, <2>1, <2>2, StepsOut
  <2> QED BY <2>1, <2>2, <2>3 DEF WatchTypes
<1> QED BY <1>1, <1>2, <1>3 DEF Within

\* AfterPoll: pollOnce returned to the commit route.
LEMMA AfterPollKeeps ==
  ASSUME Good, NEW t \in Task, AfterPoll(t)
  PROVE  Good'
<1> USE GoodIs
<1>1. ~InRebuild(t) /\ t[1] = "commit" /\ t[2] \in Switch
  BY Kinds DEF AfterPoll, At, InRebuild, Staged, Stages
<1>2. UNCHANGED <<serverVars, cur>>
  BY DEF AfterPoll
<1>3. CASE multi = 0
  BY <1>1, <1>2, <1>3, RebuildKeeps DEF AfterPoll
<1>4. CASE multi # 0
  <2>1. /\ pending' = 0 /\ committed' = committed \cup {t[2]}
        /\ Finish(t) /\ UNCHANGED <<drained, runtimeVars, swapping, active>>
    BY <1>4 DEF AfterPoll
  <2>2. /\ TaskTypes' /\ \A u \in Task : u # t => task'[u] = task[u]
        /\ task'[t].within = "direct" /\ task'[t].pc = "done"
    BY <1>1, <2>1, Leaves, Finishes DEF TaskTypes, Pc
  <2>3. Staged' /\ OneRebuild'
    BY <1>1, <1>2, <2>1, <2>2, StepsOutside DEF Stages, Rebuilds, runtimeVars
  <2>4. AdminTypes' /\ WatchTypes'
    BY <1>1, <1>2, <2>1 DEF AdminTypes, WatchTypes
  <2> QED BY <1>2, <2>1, <2>2, <2>3, <2>4, OwnersUnchanged, Owners DEF Good
<1> QED BY <1>3, <1>4

\* AfterStop: the consumer a rebuild or a halt waited for has stopped.
LEMMA AfterStopKeeps ==
  ASSUME Good, NEW t \in Task, AfterStop(t)
  PROVE  Good'
<1> USE GoodIs
<1>1. InRebuild(t) /\ t[1] \in {"poll", "op", "commit"} /\ task[t].within \in Within
  BY Kinds DEF AfterStop, At, InRebuild, Staged, Stages, TaskRecord
<1>2. UNCHANGED <<consumer, rebuilding, lateSpawns, serverVars, watchVars, adminVars>>
  BY DEF AfterStop
<1>3. CASE t = <<"op", "halt">>
  <2>1. multi' = 0 /\ Reset(t, "flush") /\ "flush" \in Pc /\ t[1] = "op"
    BY <1>3 DEF AfterStop, Pc
  <2>2. /\ TaskTypes' /\ \A u \in Task : u # t => task'[u] = task[u]
        /\ task'[t].within = "direct" /\ task'[t].pc = "flush"
    BY <2>1, Leaves, Resets DEF TaskTypes
  <2>3. task[t].within = "direct"
    BY <1>1, <2>1 DEF Staged, Within
  <2>4. Staged' /\ OneRebuild'
    BY <1>1, <1>2, <2>1, <2>2, <2>3, StepsOn DEF Stages, Rebuilds, watchVars
  <2>5. RuntimeTypes'
    BY <1>2, <2>1 DEF RuntimeTypes, Consumers
  <2> QED BY <1>2, <2>2, <2>4, <2>5, OwnersUnchanged, Owners DEF Good
<1>4. CASE t # <<"op", "halt">>
  <2>1. Spawning(t, task[t].within, active) /\ UNCHANGED multi
    BY <1>4 DEF AfterStop
  <2>2. /\ TaskTypes' /\ \A u \in Task : u # t => task'[u] = task[u]
        /\ task'[t].within = task[t].within /\ task'[t].pc = "spawn"
    BY <1>1, <2>1, Spawns DEF TaskTypes
  <2>3. Staged' /\ OneRebuild'
    BY <1>1, <1>2, <2>2, StepsOn DEF Stages, Rebuilds, watchVars
  <2> QED BY <1>2, <2>1, <2>2, <2>3, OwnersUnchanged, Owners DEF Good, runtimeVars
<1> QED BY <1>3, <1>4

\* AfterDrain: the consumer a prepare waited for has stopped.
LEMMA AfterDrainKeeps ==
  ASSUME Good, NEW t \in Task, AfterDrain(t)
  PROVE  Good'
<1> USE GoodIs
<1>1. ~InRebuild(t) /\ t[1] = "prepare" /\ t[2] \in Switch
  BY Kinds DEF AfterDrain, At, InRebuild, Staged, Stages
<1>2. /\ multi' = 0 /\ Finish(t)
      /\ UNCHANGED <<consumer, rebuilding, lateSpawns, serverVars, watchVars>>
  BY DEF AfterDrain
<1>3. /\ TaskTypes' /\ \A u \in Task : u # t => task'[u] = task[u]
      /\ task'[t].within = "direct" /\ task'[t].pc = "done"
  BY <1>1, <1>2, Leaves, Finishes DEF TaskTypes, Pc
<1>4. Staged' /\ OneRebuild'
  BY <1>1, <1>2, <1>3, StepsOutside DEF Stages, Rebuilds, watchVars
<1>5. AdminTypes'
  BY <1>1 DEF AfterDrain, AdminTypes, adminVars
<1>6. RuntimeTypes'
  BY <1>2 DEF RuntimeTypes, Consumers
<1> QED BY <1>2, <1>3, <1>4, <1>5, <1>6, OwnersUnchanged, Owners DEF Good

\* Flushed, SpawnDone, SpawnFails, RebuildTimeout: a rebuild goes on or ends.
LEMMA RebuildEnds ==
  ASSUME Good, NEW t \in Task,
         Flushed(t) \/ SpawnDone(t) \/ SpawnFails(t) \/ RebuildTimeout(t)
  PROVE  Good'
<1> USE GoodIs
<1>1. InRebuild(t) /\ task[t].tgt \in TargetId /\ task[t].within \in Within
  BY DEF Flushed, SpawnDone, SpawnFails, RebuildTimeout, At, InRebuild, TaskRecord
<1>2. CASE Flushed(t)
  <2>1. Spawning(t, "direct", active) /\ "direct" \in Within
    BY <1>2 DEF Flushed, Within
  <2>2. t[1] = "op" /\ task[t].within = "direct"
    BY <1>1, <1>2, Kinds DEF Flushed, At, Staged, Stages, Within
  <2>3. /\ TaskTypes' /\ \A u \in Task : u # t => task'[u] = task[u]
        /\ task'[t].within = "direct" /\ task'[t].pc = "spawn"
    BY <2>1, Spawns DEF TaskTypes
  <2>4. UNCHANGED <<serverVars, watchVars, runtimeVars, adminVars>>
    BY <1>2 DEF Flushed
  <2>5. Staged' /\ OneRebuild'
    BY <1>1, <2>2, <2>3, <2>4, StepsOn DEF Stages, Rebuilds, watchVars, runtimeVars
  <2> QED BY <2>3, <2>4, <2>5, OwnersUnchanged, Owners DEF Good
<1>3. CASE SpawnDone(t)
  <2>1. PICK c \in Consumer : NewConsumer(c, task[t].tgt) /\ multi' = c
    BY <1>3 DEF SpawnDone
  <2>2. /\ rebuilding' = FALSE /\ Returned(t, TRUE)
        /\ UNCHANGED <<lateSpawns, serverVars, cur, active>>
    BY <1>3 DEF SpawnDone
  <2>3. RuntimeTypes'
    BY <1>1, <2>1, <2>2, Starts DEF RuntimeTypes, Consumers
  <2> QED BY <1>1, <2>2, <2>3, Returns, OwnersUnchanged, Owners DEF Good, WatchTypes
<1>4. CASE SpawnFails(t)
  <2>1. /\ rebuilding' = FALSE /\ Returned(t, FALSE)
        /\ UNCHANGED <<consumer, multi, lateSpawns, serverVars, cur, active>>
    BY <1>4 DEF SpawnFails
  <2> QED BY <1>1, <2>1, Returns, OwnersUnchanged, Owners
          DEF Good, WatchTypes, RuntimeTypes, Consumers
<1>5. CASE RebuildTimeout(t)
  <2>1. /\ rebuilding' = FALSE /\ multi' = 0 /\ Returned(t, FALSE)
        /\ lateSpawns' \subseteq lateSpawns \cup {task[t].tgt}
        /\ UNCHANGED <<consumer, serverVars, cur, active>>
    BY <1>5 DEF RebuildTimeout
  <2> QED BY <1>1, <2>1, Returns, OwnersUnchanged, Owners
          DEF Good, WatchTypes, RuntimeTypes, Consumers
<1> QED BY <1>2, <1>3, <1>4, <1>5

\* A call outside the rebuilds that only moves itself on.
LEMMA OnlyTask ==
  ASSUME Good, NEW t \in Task, ~InRebuild(t), TaskTypes',
         \A u \in Task : u # t => task'[u] = task[u],
         task'[t].pc \in Stages(t) \ Rebuilds, task'[t].within = "direct",
         task'[t].pc \in {"drain", "latedrain"} => task'[t].on \in Consumer,
         UNCHANGED <<serverVars, watchVars, runtimeVars, adminVars>>
  PROVE  Good'
<1> USE GoodIs
<1>1. Staged' /\ OneRebuild'
  BY StepsOutside DEF watchVars, runtimeVars
<1> QED BY <1>1, OwnersUnchanged, Owners DEF Good

\* A call outside the rebuilds is not within a swap.
LEMMA Direct ==
  ASSUME Good, NEW t \in Task, ~InRebuild(t)
  PROVE  task[t].within = "direct"
BY GoodIs DEF Staged, InRebuild, TaskRecord, Within

\* PollSent, PollServed, PollFails, DrainTimeout, CommitRequest: only the call moves on.
LEMMA CallsKeep ==
  ASSUME Good, NEW t \in Task,
         PollSent(t) \/ PollServed(t) \/ PollFails(t) \/ DrainTimeout(t) \/ CommitRequest(t)
  PROVE  Good'
<1> USE GoodIs
<1>1. ~InRebuild(t) /\ task[t].within = "direct"
  BY Direct DEF PollSent, PollServed, PollFails, DrainTimeout, CommitRequest, At, InRebuild
<1>2. UNCHANGED <<serverVars, watchVars, runtimeVars, adminVars>>
  BY DEF PollSent, PollServed, PollFails, DrainTimeout, CommitRequest
<1>3. CASE PollSent(t)
  <2>1. t[1] = "poll" /\ Go(t, "fetch") /\ "fetch" \in Pc
    BY <1>3 DEF PollSent, Pc
  <2>2. TaskTypes' /\ \A u \in Task : u # t => task'[u] = task[u]
    BY <2>1, Leaves DEF TaskTypes
  <2>3. task'[t].pc = "fetch" /\ task'[t].within = "direct"
    BY <1>1, <2>1, Goes DEF TaskTypes
  <2> QED BY <1>1, <1>2, <2>1, <2>2, <2>3, OnlyTask DEF Stages, Rebuilds
<1>4. CASE PollServed(t)
  <2>1. t[1] \in {"poll", "commit"}
    BY <1>4, Kinds DEF PollServed, At, Staged, Stages
  <2>2. [task[t] EXCEPT !.pc = "reply", !.got = api] \in TaskRecord
    BY DEF TaskRecord, ServerTypes, Pc
  <2>3. task' = [task EXCEPT ![t] = [task[t] EXCEPT !.pc = "reply", !.got = api]]
    BY <1>4 DEF PollServed, TaskTypes
  <2>4. /\ TaskTypes' /\ \A u \in Task : u # t => task'[u] = task[u]
        /\ task'[t].pc = "reply" /\ task'[t].within = "direct"
    BY <1>1, <2>2, <2>3 DEF TaskTypes, TaskRecord
  <2> QED BY <1>1, <1>2, <2>1, <2>4, OnlyTask DEF Stages, Rebuilds
<1>5. CASE PollFails(t)
  <2>1. t[1] \in {"poll", "commit"} /\ EndPoll(t)
    BY <1>5, Kinds DEF PollFails, At, Staged, Stages
  <2>2. TaskTypes' /\ \A u \in Task : u # t => task'[u] = task[u]
    BY <2>1, Leaves DEF TaskTypes, Pc
  <2>3. task'[t].pc \in Stages(t) \ Rebuilds /\ task'[t].within = "direct"
        /\ task'[t].pc \notin {"drain", "latedrain"}
    BY <2>1, EndsPoll DEF TaskTypes, Stages, Rebuilds
  <2> QED BY <1>1, <1>2, <2>2, <2>3, OnlyTask
<1>6. CASE DrainTimeout(t)
  <2>1. At(t, "drain") /\ Go(t, "latedrain") /\ "latedrain" \in Pc
    BY <1>6 DEF DrainTimeout, Pc
  <2>2. TaskTypes' /\ \A u \in Task : u # t => task'[u] = task[u]
    BY <2>1, Leaves DEF TaskTypes
  <2>3. /\ task'[t].pc = "latedrain" /\ task'[t].within = "direct"
        /\ task'[t].on \in Consumer /\ t[1] = "prepare"
    BY <1>1, <2>1, Goes, Kinds DEF TaskTypes, At, Staged, Stages
  <2> QED BY <1>1, <1>2, <2>2, <2>3, OnlyTask DEF Stages, Rebuilds
<1>7. CASE CommitRequest(t)
  <2>1. t[1] = "commit" /\ (Go(t, "fetch") \/ Finish(t)) /\ "fetch" \in Pc
    BY <1>7, Kinds DEF CommitRequest, Pc
  <2>2. TaskTypes' /\ \A u \in Task : u # t => task'[u] = task[u]
    BY <2>1, Leaves DEF TaskTypes
  <2>3. task'[t].pc \in {"fetch", "done"} /\ task'[t].within = "direct"
    BY <1>1, <2>1, Goes, Finishes DEF TaskTypes
  <2> QED BY <1>1, <1>2, <2>1, <2>2, <2>3, OnlyTask DEF Stages, Rebuilds
<1> QED BY <1>3, <1>4, <1>5, <1>6, <1>7

\* OpRequest: reshard and halt.
LEMMA OpRequestKeeps ==
  ASSUME Good, NEW t \in Task, OpRequest(t)
  PROVE  Good'
<1> USE GoodIs
<1>1. ~InRebuild(t) /\ t[1] = "op" /\ task[t].within = "direct"
  BY Direct DEF OpRequest, At, InRebuild
<1>2. UNCHANGED <<serverVars, cur>>
  BY DEF OpRequest
<1>3. CASE t = <<"op", "halt">> /\ ~rebuilding /\ multi = 0
  <2>1. /\ rebuilding' = TRUE /\ Go(t, "flush") /\ "flush" \in Pc
        /\ UNCHANGED <<consumer, multi, lateSpawns, swapping, active, adminVars>>
    BY <1>3 DEF OpRequest, Pc
  <2>2. TaskTypes' /\ \A u \in Task : u # t => task'[u] = task[u]
    BY <2>1, Leaves DEF TaskTypes
  <2>3. task'[t].pc = "flush" /\ task'[t].within = "direct"
    BY <1>1, <2>1, Goes DEF TaskTypes
  <2>4. Staged' /\ OneRebuild'
    BY <1>1, <1>2, <1>3, <2>1, <2>2, <2>3, StepsIn DEF Stages, Rebuilds
  <2>5. RuntimeTypes' /\ WatchTypes'
    BY <1>2, <2>1 DEF RuntimeTypes, WatchTypes, Consumers
  <2> QED BY <1>2, <2>1, <2>2, <2>4, <2>5, OwnersUnchanged, Owners DEF Good
<1>4. CASE ~(t = <<"op", "halt">> /\ ~rebuilding /\ multi = 0)
  BY <1>1, <1>2, <1>4, RebuildKeeps DEF OpRequest
<1> QED BY <1>3, <1>4

\* SwapTo: the answer of a poll.
LEMMA SwapToKeeps ==
  ASSUME Good, NEW t \in Task, SwapTo(t)
  PROVE  Good'
<1> USE GoodIs
<1>1. ~InRebuild(t) /\ t[1] \in {"poll", "commit"} /\ task[t].got \in Served
  BY Kinds DEF SwapTo, At, InRebuild, Staged, Stages, TaskRecord
<1>2. UNCHANGED serverVars
  BY DEF SwapTo
<1>3. task[t].got.tgt \in TargetId
  BY <1>1 DEF Served
<1>4. ASSUME EndPoll(t)
      PROVE  /\ TaskTypes' /\ \A u \in Task : u # t => task'[u] = task[u]
             /\ task'[t].pc \in Stages(t) \ Rebuilds /\ task'[t].within = "direct"
             /\ task'[t].pc \notin {"drain", "latedrain"}
  <2>1. TaskTypes' /\ \A u \in Task : u # t => task'[u] = task[u]
    BY <1>4, Leaves DEF TaskTypes, Pc
  <2>2. task'[t].pc \in Stages(t) \ Rebuilds /\ task'[t].within = "direct"
        /\ task'[t].pc \notin {"drain", "latedrain"}
    BY <1>1, <1>4, EndsPoll DEF TaskTypes, Stages, Rebuilds
  <2> QED BY <2>1, <2>2
<1>5. CASE task[t].got.ver = cur.ver \/ swapping
  BY <1>1, <1>2, <1>4, <1>5, OnlyTask DEF SwapTo
<1>6. CASE ~(task[t].got.ver = cur.ver \/ swapping) /\ rebuilding
  <2>1. /\ cur' = task[t].got /\ active' = task[t].got.tgt /\ EndPoll(t)
        /\ UNCHANGED <<swapping, runtimeVars, adminVars>>
    BY <1>6 DEF SwapTo
  <2>2. Staged' /\ OneRebuild'
    BY <1>1, <1>2, <1>4, <2>1, StepsOutside DEF runtimeVars
  <2>3. WatchTypes'
    BY <1>1, <1>3, <2>1 DEF WatchTypes
  <2> QED BY <1>2, <1>4, <2>1, <2>2, <2>3, OwnersUnchanged, Owners DEF Good
<1>7. CASE ~(task[t].got.ver = cur.ver \/ swapping) /\ ~rebuilding
  <2>1. /\ cur' = task[t].got /\ active' = task[t].got.tgt /\ swapping' = TRUE
        /\ Drain(t, "swap", task[t].got.tgt)
    BY <1>7 DEF SwapTo
  <2>2. "swap" \in Within
    BY DEF Within
  <2>3. /\ TaskTypes' /\ \A u \in Task : u # t => task'[u] = task[u]
        /\ task'[t].within = "swap" /\ task'[t].pc \in Stages(t) \cap Rebuilds
        /\ task'[t].pc = "stop" => task'[t].on \in Consumer
        /\ task'[t].pc # "flush"
        /\ rebuilding' = TRUE /\ UNCHANGED <<multi, lateSpawns, adminVars>>
    BY <1>1, <1>3, <2>1, <2>2, Drains DEF TaskTypes, Stages, Rebuilds, Consumers
  <2>4. Staged' /\ OneRebuild'
    BY <1>1, <1>2, <1>7, <2>1, <2>3, StepsIn
  <2>5. Consumers'
    BY <1>3, <2>1, <2>2, Drains, Stops DEF Consumers, TaskTypes
  <2>6. RuntimeTypes' /\ WatchTypes'
    BY <1>1, <1>3, <2>1, <2>3, <2>5 DEF RuntimeTypes, WatchTypes
  <2> QED BY <1>2, <2>3, <2>4, <2>6, OwnersUnchanged, Owners DEF Good
<1> QED BY <1>5, <1>6, <1>7

\* PrepareRequest: there is nothing to drain, or the call waits.
LEMMA PrepareRequestKeeps ==
  ASSUME Good, NEW t \in Task, PrepareRequest(t)
  PROVE  Good'
<1> USE GoodIs
<1>1. ~InRebuild(t) /\ t[1] = "prepare" /\ t[2] \in Switch
  BY Kinds DEF PrepareRequest, At, InRebuild
<1>2. UNCHANGED <<multi, rebuilding, lateSpawns, serverVars, watchVars>>
  BY DEF PrepareRequest
<1>3. CASE multi = 0
  <2>1. /\ pending' = t[2] /\ drained' = drained \cup {t[2]} /\ Finish(t)
        /\ UNCHANGED <<committed, consumer>>
    BY <1>3 DEF PrepareRequest
  <2>2. /\ TaskTypes' /\ \A u \in Task : u # t => task'[u] = task[u]
        /\ task'[t].within = "direct" /\ task'[t].pc = "done"
    BY <1>1, <2>1, Leaves, Finishes DEF TaskTypes, Pc
  <2>3. Staged' /\ OneRebuild'
    BY <1>1, <1>2, <2>2, StepsOutside DEF Stages, Rebuilds, watchVars
  <2>4. AdminTypes' /\ RuntimeTypes'
    BY <1>1, <1>2, <2>1 DEF AdminTypes, RuntimeTypes, Consumers
  <2> QED BY <1>2, <2>2, <2>3, <2>4, OwnersUnchanged, Owners DEF Good
<1>4. CASE multi # 0
  <2>1. StopMulti /\ Wait(t, "drain", "direct") /\ UNCHANGED adminVars
        /\ "drain" \in Pc /\ "direct" \in Within /\ multi \in Consumer
    BY <1>4 DEF PrepareRequest, Pc, Within, Consumers
  <2>2. /\ TaskTypes' /\ \A u \in Task : u # t => task'[u] = task[u]
        /\ task'[t].pc = "drain" /\ task'[t].on = multi /\ task'[t].within = "direct"
    BY <2>1, Waits DEF TaskTypes
  <2>3. Staged' /\ OneRebuild'
    BY <1>1, <1>2, <2>1, <2>2, StepsOutside DEF Stages, Rebuilds, watchVars
  <2>4. Consumers'
    BY <1>2, <1>4, <2>1, Stops DEF Consumers
  <2>5. RuntimeTypes'
    BY <1>2, <2>4 DEF RuntimeTypes
  <2> QED BY <1>2, <2>1, <2>2, <2>3, <2>5, OwnersUnchanged, Owners DEF Good
<1> QED BY <1>3, <1>4

\* No call takes a step: a consumer stops, a late spawn starts one, the api switches.
LEMMA OthersKeep ==
  ASSUME Good,
         \/ \E c \in Consumer : Stopped(c)
         \/ \E tgt \in TargetId : LateSpawn(tgt)
         \/ ApiStep
         \/ ResetShards
  PROVE  Good'
<1> USE GoodIs
<1>1. ASSUME UNCHANGED <<rebuilding, swapping, task, cleared>>
      PROVE  TaskTypes' /\ Staged' /\ OneRebuild'
  BY <1>1 DEF TaskTypes, Staged, OneRebuild, Swaps, InRebuild
<1>2. CASE \E c \in Consumer : Stopped(c)
  <2>1. PICK c \in Consumer : Stopped(c)
    BY <1>2
  <2>2. UNCHANGED <<multi, rebuilding, lateSpawns, serverVars, watchVars, adminVars, task>>
    BY <2>1 DEF Stopped
  <2>3. consumer[c] \in ConsumerRecord
        /\ consumer' = [consumer EXCEPT ![c] = [consumer[c] EXCEPT !.st = "stopped"]]
    BY <2>1 DEF Stopped, Consumers
  <2>4. [consumer[c] EXCEPT !.st = "stopped"] \in ConsumerRecord
        /\ [consumer[c] EXCEPT !.st = "stopped"].st = "stopped"
    BY <2>3 DEF ConsumerRecord
  <2>5. Consumers'
    BY <2>2, <2>3, <2>4 DEF Consumers
  <2>6. RuntimeTypes'
    BY <2>2, <2>5 DEF RuntimeTypes
  <2> QED BY <1>1, <2>2, <2>6, OwnersUnchanged, Owners DEF Good, watchVars, serverVars
<1>3. CASE \E tgt \in TargetId : LateSpawn(tgt)
  <2>1. PICK tgt \in TargetId : LateSpawn(tgt)
    BY <1>3
  <2>2. PICK c \in Consumer : NewConsumer(c, tgt)
    BY <2>1 DEF LateSpawn
  <2>3. /\ lateSpawns' \subseteq lateSpawns
        /\ UNCHANGED <<multi, rebuilding, serverVars, watchVars, adminVars, task>>
    BY <2>1 DEF LateSpawn
  <2>4. Consumers'
    BY <2>2, <2>3, Starts DEF Consumers
  <2>5. RuntimeTypes'
    BY <2>3, <2>4 DEF RuntimeTypes
  <2> QED BY <1>1, <2>3, <2>5, OwnersUnchanged, Owners DEF Good, watchVars, serverVars
<1>4. CASE ApiStep
  <2>1. UNCHANGED <<env, cleared, watchVars, runtimeVars, adminVars, task>>
    BY <1>4 DEF ApiStep, RestartApi, BeginSwitch, CommitSwitch
  <2>2. env \in EnvironmentType
    BY SwapAssumption DEF ServerTypes
  <2>3. ServerTypes'
    <3>1. CASE RestartApi
      BY <2>2, <3>1 DEF RestartApi, ServerTypes, Served, EnvironmentType
    <3>2. ASSUME NEW s \in Switch, BeginSwitch(s) PROVE ServerTypes'
      BY <3>2, SwapAssumption DEF BeginSwitch, ServerTypes, Switch, TargetId
    <3>3. ASSUME NEW s \in Switch, CommitSwitch(s) PROVE ServerTypes'
      BY <3>3, SwapAssumption DEF CommitSwitch, ServerTypes, Served, Switch, TargetId
    <3> QED BY <1>4, <3>1, <3>2, <3>3 DEF ApiStep
  <2> QED BY <1>1, <2>1, <2>3, OwnersUnchanged, Owners DEF Good, watchVars, runtimeVars
<1>5. CASE ResetShards
  <2>1. /\ rebuilding' = FALSE /\ multi' = 0 /\ cleared' = TRUE
        /\ UNCHANGED <<env, api, stored, switch, restarts, consumer, lateSpawns, watchVars,
                       adminVars, task>>
    BY <1>5 DEF ResetShards
  <2>2. TaskTypes' /\ Staged' /\ OneRebuild'
    BY <2>1 DEF TaskTypes, Staged, OneRebuild, Swaps, InRebuild, watchVars
  <2>3. ServerTypes' /\ RuntimeTypes'
    BY <2>1 DEF ServerTypes, RuntimeTypes, Consumers
  <2> QED BY <2>1, <2>2, <2>3, OwnersUnchanged, Owners DEF Good
<1> QED BY <1>2, <1>3, <1>4, <1>5

-------------------------------------------------------------------------------
(* One consumer *)

\* What a call knows of the consumers: it spawns when none is at work and flushes
\* when the runtime has none; the one it waits for was told to stop, and the
\* runtime refers to that one or to none.
Clear(t) ==
  /\ task[t].pc = "spawn" => \A c \in Consumer : ~Alive(c)
  /\ task[t].pc = "flush" => multi = 0
  /\ task[t].pc \in {"stop", "drain"} =>
       /\ consumer[task[t].on].st \in {"stopping", "stopped"}
       /\ multi \in {task[t].on, 0}
  /\ task[t].pc # "latedrain"

\* Nothing outlives its timeout, and no operator has cleared the mutex.
Sound == ~env.faulty /\ ~cleared

\* The consumer at work is the one the runtime refers to.
Sole ==
  Sound => /\ lateSpawns = {}
           /\ \A c \in Consumer : Alive(c) => c = multi
           /\ \A t \in Task : Clear(t)

Marked == {"spawn", "flush", "stop", "drain", "latedrain"}

\* A call moves on, past all that has to do with consumers.
LEMMA MovesOn ==
  ASSUME Good, Sole, NEW t \in Task, task'[t].pc \notin Marked,
         \A u \in Task : u # t => task'[u] = task[u],
         UNCHANGED <<env, cleared, consumer, multi, lateSpawns>>
  PROVE  Sole'
BY DEF Sole, Sound, Clear, Alive, Marked

\* A call tells the consumer there is to stop and waits.
LEMMA WaitsFor ==
  ASSUME Good, Sole, NEW t \in Task, multi # 0, StopMulti,
         task'[t].pc \in {"stop", "drain"}, task'[t].on = multi,
         \A u \in Task : u # t => task'[u] = task[u],
         UNCHANGED <<env, cleared, multi, lateSpawns>>
  PROVE  Sole'
<1> USE GoodIs
<1> SUFFICES ASSUME Sound
             PROVE  /\ lateSpawns' = {} /\ \A c \in Consumer : Alive(c)' => c = multi'
                    /\ \A u \in Task : Clear(u)'
  BY DEF Sole, Sound
<1>1. /\ multi \in Consumer /\ consumer'[multi].st \in {"stopping", "stopped"}
      /\ \A c \in Consumer :
           \/ consumer'[c] = consumer[c]
           \/ c = multi /\ consumer[c].st = "running" /\ consumer'[c].st = "stopping"
  BY Stops DEF Consumers
<1>2. \A c \in Consumer : Alive(c)' <=> Alive(c)
  BY <1>1 DEF Alive
<1>3. ASSUME NEW u \in Task PROVE Clear(u)'
  <2>1. CASE u = t
    BY <1>1, <2>1 DEF Clear
  <2>2. CASE u # t
    <3>1. task'[u] = task[u] /\ Clear(u)
      BY <2>2 DEF Sole, Sound
    <3>2. task[u].pc \in {"stop", "drain"} =>
            consumer'[task[u].on].st \in {"stopping", "stopped"}
      BY <1>1, <3>1 DEF Clear, Staged
    <3> QED BY <1>2, <3>1, <3>2 DEF Clear
  <2> QED BY <2>1, <2>2
<1> QED BY <1>2, <1>3 DEF Sole, Sound

\* A call finds no consumer at work: it spawns, flushes or is over.
LEMMA NoneAtWork ==
  ASSUME Good, Sole, NEW t \in Task, Sound => \A c \in Consumer : ~Alive(c),
         task'[t].pc \notin {"stop", "drain", "latedrain"},
         multi' \in {multi, 0}, task'[t].pc = "flush" => multi' = 0,
         \A u \in Task : u # t => task'[u] = task[u],
         UNCHANGED <<env, cleared, consumer, lateSpawns>>
  PROVE  Sole'
BY DEF Sole, Sound, Clear, Alive

\* A rebuild begins.
LEMMA DrainIsSole ==
  ASSUME Good, Sole, NEW t \in Task, NEW w \in Within, NEW tgt \in TargetId,
         Drain(t, w, tgt), UNCHANGED <<env, cleared>>
  PROVE  Sole'
<1> USE GoodIs
<1>1. /\ \A u \in Task : u # t => task'[u] = task[u]
      /\ \/ /\ multi # 0 /\ StopMulti
            /\ task'[t].pc = "stop" /\ task'[t].on = multi
         \/ /\ multi = 0 /\ consumer' = consumer
            /\ task'[t].pc = "spawn"
      /\ multi' = multi /\ UNCHANGED lateSpawns
  BY Drains DEF TaskTypes
<1>2. CASE multi # 0
  BY <1>1, <1>2, WaitsFor
<1>3. CASE multi = 0
  <2>1. Sound => \A c \in Consumer : ~Alive(c)
    BY <1>3 DEF Sole, Sound, Consumer
  <2> QED BY <1>1, <1>3, <2>1, NoneAtWork
<1> QED BY <1>2, <1>3

LEMMA RebuildIsSole ==
  ASSUME Good, Sole, NEW t \in Task, t[1] \in {"op", "commit"}, Rebuild(t),
         UNCHANGED <<env, cleared>>
  PROVE  Sole'
<1> USE GoodIs
<1>1. CASE rebuilding
  <2>1. Busy(t)
    BY <1>1 DEF Rebuild
  <2>2. task'[t].pc \notin Marked /\ \A u \in Task : u # t => task'[u] = task[u]
    BY <2>1, Busies DEF TaskTypes, Marked
  <2> QED BY <2>1, <2>2, MovesOn DEF Busy, runtimeVars
<1>2. CASE ~rebuilding
  <2>1. Drain(t, "direct", active)
    BY <1>2 DEF Rebuild
  <2> QED BY <2>1, DrainIsSole DEF Within
<1> QED BY <1>1, <1>2

LEMMA ContinueIsSole ==
  ASSUME Good, Sole, NEW t \in Task, Continue(t)
  PROVE  Sole'
<1> USE GoodIs
<1>1. UNCHANGED <<env, cleared>>
  BY DEF Continue, AfterPoll, AfterStop, AfterDrain, serverVars
<1>2. CASE AfterPoll(t)
  <2>1. t[1] = "commit"
    BY <1>2, Kinds DEF AfterPoll, At, Staged, Stages
  <2>2. CASE multi = 0
    BY <1>1, <1>2, <2>1, <2>2, RebuildIsSole DEF AfterPoll
  <2>3. CASE multi # 0
    <3>1. Finish(t) /\ UNCHANGED runtimeVars
      BY <1>2, <2>3 DEF AfterPoll
    <3>2. task'[t].pc \notin Marked /\ \A u \in Task : u # t => task'[u] = task[u]
      BY <3>1, Finishes, Leaves DEF TaskTypes, Marked, Pc
    <3> QED BY <1>1, <3>1, <3>2, MovesOn DEF runtimeVars
  <2> QED BY <2>2, <2>3
<1>3. ASSUME task[t].pc \in {"stop", "drain", "latedrain"}, consumer[task[t].on].st = "stopped"
      PROVE  Sound => \A c \in Consumer : ~Alive(c)
  <2>1. task[t].on \in Consumer
    BY <1>3 DEF Staged
  <2> QED BY <1>3, <2>1 DEF Sole, Sound, Clear, Alive, Consumer
<1>4. CASE AfterStop(t)
  <2>1. task[t].pc = "stop" /\ consumer[task[t].on].st = "stopped"
        /\ UNCHANGED <<consumer, lateSpawns>> /\ task[t].within \in Within
    BY <1>4 DEF AfterStop, At, TaskRecord
  <2>2. \/ multi' = 0 /\ Reset(t, "flush")
        \/ Spawning(t, task[t].within, active) /\ multi' = multi
    BY <1>4 DEF AfterStop
  <2>3. /\ \A u \in Task : u # t => task'[u] = task[u]
        /\ \/ task'[t].pc = "flush" /\ multi' = 0
           \/ task'[t].pc = "spawn" /\ multi' = multi
    BY <2>1, <2>2, Leaves, Resets, Spawns DEF TaskTypes, Pc
  <2> QED BY <1>1, <1>3, <2>1, <2>3, NoneAtWork
<1>5. CASE AfterDrain(t)
  <2>1. task[t].pc \in {"drain", "latedrain"} /\ consumer[task[t].on].st = "stopped"
        /\ multi' = 0 /\ Finish(t) /\ UNCHANGED <<consumer, lateSpawns>>
    BY <1>5 DEF AfterDrain, At
  <2>2. task'[t].pc \in {"idle", "done"} /\ \A u \in Task : u # t => task'[u] = task[u]
    BY <2>1, Finishes, Leaves DEF TaskTypes, Pc
  <2> QED BY <1>1, <1>3, <2>1, <2>2, NoneAtWork
<1> QED BY <1>2, <1>4, <1>5 DEF Continue

\* SpawnDone: nobody is at work and, when no continuation is due, no call waits
\* for a consumer that a prepare drains.
LEMMA SpawnIsSole ==
  ASSUME Good, Sole, Quiet, NEW t \in Task, SpawnDone(t)
  PROVE  Sole'
<1> USE GoodIs
<1>1. InRebuild(t) /\ task[t].pc = "spawn" /\ task[t].tgt \in TargetId
  BY DEF SpawnDone, At, InRebuild, TaskRecord
<1>2. PICK c \in Consumer : NewConsumer(c, task[t].tgt) /\ multi' = c
  BY DEF SpawnDone
<1>3. /\ rebuilding' = FALSE /\ Returned(t, TRUE)
      /\ UNCHANGED <<lateSpawns, env, cleared, serverVars>>
  BY DEF SpawnDone, serverVars
<1>4. /\ task'[t].pc \notin Marked
      /\ \A u \in Task : u # t => task'[u] = task[u]
  BY <1>1, <1>3, Returns DEF Marked
<1>5. \A d \in Consumer : d # c => consumer'[d] = consumer[d]
  BY <1>1, <1>2, Starts
<1> SUFFICES ASSUME Sound
             PROVE  /\ lateSpawns' = {} /\ \A d \in Consumer : Alive(d)' => d = multi'
                    /\ \A u \in Task : Clear(u)'
  BY <1>3 DEF Sole, Sound
<1>6. \A d \in Consumer : ~Alive(d)
  BY <1>1 DEF Sole, Sound, Clear
<1>7. ASSUME NEW d \in Consumer, Alive(d)' PROVE d = multi'
  BY <1>2, <1>5, <1>6, <1>7 DEF Alive
<1>8. ASSUME NEW u \in Task PROVE Clear(u)'
  <2>1. CASE u = t
    BY <1>4, <2>1 DEF Clear, Marked
  <2>2. CASE u # t
    <3>1. ~InRebuild(u)
      BY <1>1, <2>2 DEF OneRebuild, Sound
    <3>2. Clear(u)
      BY DEF Sole, Sound
    <3>3. task[u].pc # "drain"
      <4>1. SUFFICES ASSUME task[u].pc = "drain" PROVE FALSE
        OBVIOUS
      <4>2. task[u].on \in Consumer /\ consumer[task[u].on].st = "stopped"
        BY <1>6, <3>2, <4>1 DEF Staged, Clear, Alive
      <4> QED BY <4>1, <4>2 DEF Quiet, Ready
    <3> QED BY <1>4, <2>2, <3>1, <3>2, <3>3 DEF Clear, InRebuild
  <2> QED BY <2>1, <2>2
<1> QED BY <1>3, <1>7, <1>8 DEF Sole, Sound

LEMMA EventIsSole ==
  ASSUME Good, Sole, Quiet, NEW t \in Task, Event(t)
  PROVE  Sole'
<1> USE GoodIs
<1>1. UNCHANGED <<env, cleared>>
  BY DEF Event, PollSent, PollServed, PollFails, SwapTo, OpRequest, PrepareRequest,
         CommitRequest, Flushed, SpawnDone, SpawnFails, RebuildTimeout, DrainTimeout, serverVars
<1>2. ASSUME EndPoll(t), UNCHANGED <<consumer, multi, lateSpawns>> PROVE Sole'
  <2>1. task'[t].pc \notin Marked /\ \A u \in Task : u # t => task'[u] = task[u]
    BY <1>2, EndsPoll, Leaves DEF TaskTypes, Marked, Pc
  <2> QED BY <1>1, <1>2, <2>1, MovesOn
<1>3. ASSUME Finish(t), UNCHANGED <<consumer, multi, lateSpawns>> PROVE Sole'
  <2>1. task'[t].pc \notin Marked /\ \A u \in Task : u # t => task'[u] = task[u]
    BY <1>3, Finishes, Leaves DEF TaskTypes, Marked, Pc
  <2> QED BY <1>1, <1>3, <2>1, MovesOn
<1>4. ASSUME Go(t, "fetch"), UNCHANGED <<consumer, multi, lateSpawns>> PROVE Sole'
  <2>1. task'[t].pc \notin Marked /\ \A u \in Task : u # t => task'[u] = task[u]
    BY <1>4, Goes, Leaves DEF TaskTypes, Marked, Pc
  <2> QED BY <1>1, <1>4, <2>1, MovesOn
<1>5. CASE PollSent(t)
  BY <1>4, <1>5 DEF PollSent, runtimeVars
<1>6. CASE PollServed(t)
  <2>1. /\ task'[t].pc \notin Marked /\ \A u \in Task : u # t => task'[u] = task[u]
    BY <1>6 DEF PollServed, TaskTypes, TaskRecord, Marked
  <2> QED BY <1>1, <1>6, <2>1, MovesOn DEF PollServed, runtimeVars
<1>7. CASE PollFails(t)
  BY <1>2, <1>7 DEF PollFails, runtimeVars
<1>8. CASE SwapTo(t)
  <2>1. CASE EndPoll(t) /\ UNCHANGED runtimeVars
    BY <1>2, <2>1 DEF runtimeVars
  <2>2. CASE Drain(t, "swap", task[t].got.tgt)
    BY <1>1, <2>2, DrainIsSole DEF Within, TaskRecord, Served
  <2> QED BY <1>8, <2>1, <2>2 DEF SwapTo
<1>9. CASE OpRequest(t)
  <2>1. t[1] = "op"
    BY <1>9 DEF OpRequest
  <2>2. CASE t = <<"op", "halt">> /\ ~rebuilding /\ multi = 0
    <3>1. Go(t, "flush") /\ UNCHANGED <<consumer, multi, lateSpawns>> /\ "flush" \in Pc
      BY <1>9, <2>2 DEF OpRequest, Pc
    <3>2. task'[t].pc = "flush" /\ \A u \in Task : u # t => task'[u] = task[u]
      BY <3>1, Goes, Leaves DEF TaskTypes
    <3>3. Sound => \A c \in Consumer : ~Alive(c)
      BY <2>2 DEF Sole, Sound, Consumer
    <3> QED BY <1>1, <2>2, <3>1, <3>2, <3>3, NoneAtWork
  <2>3. CASE ~(t = <<"op", "halt">> /\ ~rebuilding /\ multi = 0)
    BY <1>1, <1>9, <2>1, <2>3, RebuildIsSole DEF OpRequest
  <2> QED BY <2>2, <2>3
<1>10. CASE PrepareRequest(t)
  <2>1. CASE multi = 0
    BY <1>3, <1>10, <2>1 DEF PrepareRequest
  <2>2. CASE multi # 0
    <3>1. StopMulti /\ Wait(t, "drain", "direct") /\ UNCHANGED <<multi, lateSpawns>>
          /\ "drain" \in Pc /\ "direct" \in Within /\ multi \in Consumer
      BY <1>10, <2>2 DEF PrepareRequest, Pc, Within, Consumers
    <3>2. /\ \A u \in Task : u # t => task'[u] = task[u]
          /\ task'[t].pc = "drain" /\ task'[t].on = multi
      BY <3>1, Waits DEF TaskTypes
    <3> QED BY <1>1, <2>2, <3>1, <3>2, WaitsFor
  <2> QED BY <2>1, <2>2
<1>11. CASE CommitRequest(t)
  BY <1>3, <1>4, <1>11 DEF CommitRequest, runtimeVars
<1>12. CASE Flushed(t)
  <2>1. Spawning(t, "direct", active) /\ task[t].pc = "flush" /\ "direct" \in Within
        /\ UNCHANGED <<consumer, multi, lateSpawns>>
    BY <1>12 DEF Flushed, At, Within, runtimeVars
  <2>2. task'[t].pc = "spawn" /\ \A u \in Task : u # t => task'[u] = task[u]
    BY <2>1, Spawns DEF TaskTypes
  <2>3. Sound => \A c \in Consumer : ~Alive(c)
    BY <2>1 DEF Sole, Sound, Clear, Consumer
  <2> QED BY <1>1, <2>1, <2>2, <2>3, NoneAtWork
<1>13. CASE SpawnDone(t)
  BY <1>13, SpawnIsSole
<1>14. CASE SpawnFails(t)
  <2>1. /\ rebuilding' = FALSE /\ Returned(t, FALSE) /\ InRebuild(t)
        /\ UNCHANGED <<consumer, multi, lateSpawns, serverVars>>
    BY <1>14 DEF SpawnFails, At, InRebuild
  <2>2. task'[t].pc \notin Marked /\ \A u \in Task : u # t => task'[u] = task[u]
    BY <2>1, Returns DEF Marked
  <2> QED BY <1>1, <2>1, <2>2, MovesOn
<1>15. CASE RebuildTimeout(t) \/ DrainTimeout(t)
  BY <1>1, <1>15 DEF RebuildTimeout, DrainTimeout, Sole, Sound
<1> QED BY <1>5, <1>6, <1>7, <1>8, <1>9, <1>10, <1>11, <1>12, <1>13, <1>14, <1>15 DEF Event

LEMMA OthersAreSole ==
  ASSUME Good, Sole,
         \/ \E c \in Consumer : Stopped(c)
         \/ \E tgt \in TargetId : LateSpawn(tgt)
         \/ ApiStep
         \/ ResetShards
  PROVE  Sole'
<1> USE GoodIs
<1>1. CASE \E c \in Consumer : Stopped(c)
  <2>1. PICK c \in Consumer : Stopped(c)
    BY <1>1
  <2>2. UNCHANGED <<env, cleared, multi, lateSpawns, task>>
    BY <2>1 DEF Stopped, serverVars
  <2>3. /\ consumer[c].st = "stopping" /\ consumer'[c].st = "stopped"
        /\ \A d \in Consumer : d # c => consumer'[d] = consumer[d]
    BY <2>1 DEF Stopped, Consumers, ConsumerRecord
  <2>4. \A d \in Consumer : Alive(d)' => Alive(d)
    BY <2>3 DEF Alive
  <2>5. \A d \in Consumer : consumer[d].st \in {"stopping", "stopped"} =>
                              consumer'[d].st \in {"stopping", "stopped"}
    BY <2>3
  <2>6. ASSUME NEW u \in Task, Clear(u) PROVE Clear(u)'
    BY <2>2, <2>4, <2>5, <2>6 DEF Clear, Staged
  <2> QED BY <2>2, <2>4, <2>6 DEF Sole, Sound
<1>2. CASE \E tgt \in TargetId : LateSpawn(tgt)
  BY <1>2 DEF LateSpawn, Sole, Sound, serverVars
<1>3. CASE ApiStep
  <2>1. UNCHANGED <<env, cleared, runtimeVars, task>>
    BY <1>3 DEF ApiStep, RestartApi, BeginSwitch, CommitSwitch
  <2> QED BY <2>1 DEF Sole, Sound, Clear, Alive, runtimeVars
<1>4. CASE ResetShards
  BY <1>4 DEF ResetShards, Sole, Sound
<1> QED BY <1>1, <1>2, <1>3, <1>4

-------------------------------------------------------------------------------
(* The theorems *)

LEMMA Start == SInit => Good /\ Sole
<1> SUFFICES ASSUME SInit PROVE Good /\ Sole
  OBVIOUS
<1>1. /\ \A t \in Task : task[t] = Idle
      /\ TaskTypes
  BY IdleIsTyped DEF SInit, TaskTypes
<1>2. \A t \in Task : task[t].pc = "idle" /\ task[t].within = "direct"
  BY <1>1 DEF Idle
<1>3. Staged
  BY <1>2, Kinds DEF Staged, Stages
<1>4. OneRebuild
  BY <1>2 DEF OneRebuild, Swaps, InRebuild, SInit
<1>5. 1 \in Consumer /\ 0 \in TargetId
  BY SwapAssumption DEF Consumer, TargetId
<1>6. Consumers
  BY <1>5 DEF SInit, Consumers, ConsumerRecord
<1>7. ServerTypes
  <2>1. env \in Environment /\ 0 \in 0..env.restarts
    BY SwapAssumption DEF SInit, EnvironmentType
  <2>2. api \in Served /\ stored \in TargetId
    BY <1>5 DEF SInit, Served
  <2> QED BY <2>1, <2>2 DEF SInit, ServerTypes
<1>8. WatchTypes /\ RuntimeTypes /\ AdminTypes
  BY <1>5, <1>6 DEF SInit, WatchTypes, RuntimeTypes, AdminTypes, Served
<1>9. Sole
  BY <1>2 DEF SInit, Sole, Sound, Clear, Alive
<1> QED BY <1>1, <1>3, <1>4, <1>7, <1>8, <1>9, Owners DEF Good

LEMMA StepKeeps ==
  ASSUME Good, Sole, [SNext]_svars
  PROVE  Good' /\ Sole'
<1>1. CASE \E t \in Task : Continue(t)
  <2>1. PICK t \in Task : Continue(t)
    BY <1>1
  <2>2. Good'
    BY <2>1, AfterPollKeeps, AfterStopKeeps, AfterDrainKeeps DEF Continue
  <2> QED BY <2>1, <2>2, ContinueIsSole
<1>2. CASE Quiet /\ \E t \in Task : Event(t)
  <2>1. PICK t \in Task : Event(t)
    BY <1>2
  <2>2. Good'
    BY <2>1, CallsKeep, SwapToKeeps, OpRequestKeeps, PrepareRequestKeeps, RebuildEnds DEF Event
  <2> QED BY <1>2, <2>1, <2>2, EventIsSole
<1>3. CASE \/ \E c \in Consumer : Stopped(c)
           \/ \E tgt \in TargetId : LateSpawn(tgt)
           \/ ApiStep
           \/ ResetShards
  BY <1>3, OthersKeep, OthersAreSole
<1>4. CASE UNCHANGED svars
  <2>1. UNCHANGED <<serverVars, watchVars, runtimeVars, adminVars, task>>
    BY <1>4 DEF svars
  <2>2. TaskTypes' /\ Staged' /\ OneRebuild'
    BY <2>1, GoodIs DEF TaskTypes, Staged, OneRebuild, Swaps, InRebuild, watchVars, runtimeVars,
                        serverVars
  <2>3. Good'
    BY <2>1, <2>2, GoodIs, OwnersUnchanged, Owners DEF Good
  <2>4. Sole'
    BY <2>1 DEF Sole, Sound, Clear, Alive, serverVars, runtimeVars
  <2> QED BY <2>3, <2>4
<1> QED BY <1>1, <1>2, <1>3, <1>4 DEF SNext

LEMMA AlwaysGood == SSpec => [](Good /\ Sole)
<1>1. SInit => Good /\ Sole
  BY Start
<1>2. Good /\ Sole /\ [SNext]_svars => (Good /\ Sole)'
  BY StepKeeps
<1> QED BY <1>1, <1>2, PTL DEF SSpec

\* Type correctness of the watcher, the shard runtime, the admin routes and their
\* calls: a version is never lost, the runtime never refers to a consumer that was
\* not started, and the commit closure never tries more often than it may.
THEOREM SwapTypeCorrect == SSpec => []SwapTypes
<1>1. Good => SwapTypes
  BY DEF Good
<1> QED BY <1>1, AlwaysGood, PTL

\* The mutex of shard-runtime.ts: until an operator clears it, rebuilds, reshards,
\* halts and target swaps exclude each other in any surroundings, hangs and expired
\* timeouts included, and the flag says exactly whether one runs; the flag of the
\* watcher does so for its swaps even then.
LEMMA OneRebuildIsMutex ==
  ASSUME OneRebuild, rebuilding \in BOOLEAN, swapping \in BOOLEAN
  PROVE  MutexHeld
<1>1. ASSUME NEW S \in SUBSET Task, NEW b \in BOOLEAN,
             \A t, u \in S : t = u, b <=> \E t \in Task : t \in S
      PROVE  Cardinality(S) = IF b THEN 1 ELSE 0
  <2>1. CASE b
    <3>1. PICK t \in S : TRUE
      BY <1>1, <2>1
    <3>2. S = {t}
      BY <1>1, <3>1
    <3> QED BY <2>1, <3>2, FS_Singleton
  <2>2. CASE ~b
    <3>1. S = {}
      BY <1>1, <2>2
    <3> QED BY <2>2, <3>1, FS_EmptySet
  <2> QED BY <2>1, <2>2
<1> DEFINE Rebuilding == {t \in Task : InRebuild(t)}
           Swap == {t \in Rebuilding : task[t].within = "swap"}
<1>2. \A t \in Task : (t \in Rebuilding <=> InRebuild(t)) /\ (t \in Swap <=> Swaps(t))
  BY DEF Swaps
<1>3. Rebuilding \in SUBSET Task /\ Swap \in SUBSET Task
  OBVIOUS
<1>4. ASSUME ~cleared
      PROVE  /\ \A t, u \in Rebuilding : t = u
             /\ rebuilding <=> \E t \in Task : t \in Rebuilding
  BY <1>2, <1>4 DEF OneRebuild
<1>5. /\ \A t, u \in Swap : t = u
      /\ swapping <=> \E t \in Task : t \in Swap
  BY <1>2, <1>3 DEF OneRebuild
<1> HIDE DEF Rebuilding, Swap
<1>6. ~cleared => Cardinality(Rebuilding) = IF rebuilding THEN 1 ELSE 0
  BY <1>1, <1>3, <1>4
<1>7. Cardinality(Swap) = IF swapping THEN 1 ELSE 0
  BY <1>1, <1>3, <1>5
<1> QED BY <1>6, <1>7 DEF MutexHeld, Rebuilding, Swap

\* However polls, pushed prepares and commits, reshards, halts and restarts of the
\* api interleave: until an operator clears the mutex rebuilds exclude each other,
\* and unless a stop, a spawn or a push outlives its timeout, no consumer is at work
\* but the one the runtime refers to.
THEOREM OneAtATime == SSpec => []OneConsumer
<1>1. Good /\ Sole => OneConsumer
  <2> SUFFICES ASSUME Good, Sole PROVE OneConsumer
    OBVIOUS
  <2>1. MutexHeld
    BY GoodIs, OneRebuildIsMutex DEF RuntimeTypes, WatchTypes
  <2> QED BY <2>1 DEF OneConsumer, Sole, Sound
<1> QED BY <1>1, AlwaysGood, PTL
===============================================================================
