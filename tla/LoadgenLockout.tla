---------------------------- MODULE LoadgenLockout -----------------------------
(***************************************************************************)
(* A load run and the lock it puts on connection switches.  The loadgen    *)
(* service owns the run (services/loadgen/src/runner.ts, server.ts); the   *)
(* api learns of it only through the replies it proxies                    *)
(* (services/api/src/routes/loadgen-proxy.ts) and keeps a handle in the    *)
(* in-flight registry (inflight-registry.ts) from the reply to a start     *)
(* until a stop is answered, a status probe says that nothing runs, or the *)
(* entry is older than INFLIGHT_STALE_MS.                                  *)
(*                                                                         *)
(* Every request is its own socket: replies of different requests reach    *)
(* the api in any order.                                                   *)
(***************************************************************************)
EXTENDS FiniteSets

CONSTANTS
  Run,      \* POST /loadgen/start requests, and the run each one starts
  Stop,     \* POST /loadgen/stop requests
  Probe,    \* bound: status probes in flight at once
  NoRun

ASSUME LockoutAssumption == NoRun \notin Run

VARIABLES
  (* loadgen *)
  status,     \* Runner._status
  current,    \* the run cfg and abortCtrl belong to
  timers,     \* the runs whose durationTimer is armed
  busy,       \* runs with worker requests still in flight
  (* requests *)
  start,      \* progress of each start request
  stop,       \* progress of each stop request, with the run it waits for
  probe,      \* progress of each status probe
  (* api *)
  handles,    \* handles of the proxy: registered and not released
  stale,      \* registered for longer than INFLIGHT_STALE_MS
  pollTimer,  \* the shared poll timer is armed
  (* history *)
  late        \* runs released by an answer given before they started

svcVars == <<status, current, timers, busy>>
apiVars == <<handles, stale, pollTimer, late>>
vars == <<svcVars, start, stop, probe, apiVars>>

StartState == {"unsent", "sent", "answered", "registered", "failed"}
\* seen: the runs the service had started when it gave the answer.
Reply(S) == [at : S, of : Run \cup {NoRun}, seen : SUBSET Run]
Fresh == [at |-> "unsent", of |-> NoRun, seen |-> {}]

Init ==
  /\ status = "idle" /\ current = NoRun /\ timers = {} /\ busy = {}
  /\ start = [r \in Run |-> "unsent"]
  /\ stop = [k \in Stop |-> Fresh]
  /\ probe = [p \in Probe |-> Fresh]
  /\ handles = {} /\ stale = {} /\ pollTimer = FALSE /\ late = {}

Started == {r \in Run : start[r] \in {"answered", "registered"}}

-------------------------------------------------------------------------------
(* The runner *)

\* A running run is aborted and replaced; its workers drain on their own.
RunnerStart(r) ==
  /\ status' = "running" /\ current' = r
  /\ timers' = {r}
  /\ busy' = busy \cup {r}

RunnerStop ==
  /\ status' = "stopped"
  /\ timers' = IF status = "running" THEN {} ELSE timers
  /\ UNCHANGED <<current, busy>>

DurationEnds(r) ==
  /\ r \in timers
  /\ status' = "stopped" /\ timers' = {}
  /\ UNCHANGED <<current, busy, start, stop, probe, apiVars>>

\* The last request of an aborted or stopped run settles.
WorkersSettle(r) ==
  /\ r \in busy /\ ~(status = "running" /\ current = r)
  /\ busy' = busy \ {r}
  /\ UNCHANGED <<status, current, timers, start, stop, probe, apiVars>>

-------------------------------------------------------------------------------
(* POST /loadgen/start through the proxy *)

armPoller(h) == pollTimer' = (pollTimer \/ h # {})

SendStart(r) ==
  /\ start[r] = "unsent"
  /\ start' = [start EXCEPT ![r] = "sent"]
  /\ UNCHANGED <<svcVars, stop, probe, apiVars>>

ServiceStart(r) ==
  /\ start[r] = "sent"
  /\ start' = [start EXCEPT ![r] = "answered"]
  /\ RunnerStart(r)
  /\ UNCHANGED <<stop, probe, apiVars>>

\* Unreachable, a 5xx, or the reply of a run that did start is lost.
StartFails(r) ==
  /\ start[r] \in {"sent", "answered"}
  /\ start' = [start EXCEPT ![r] = "failed"]
  /\ UNCHANGED <<svcVars, stop, probe, apiVars>>

RegisterStart(r) ==
  /\ start[r] = "answered"
  /\ start' = [start EXCEPT ![r] = "registered"]
  /\ handles' = handles \cup {r}
  /\ armPoller(handles')
  /\ UNCHANGED <<svcVars, stop, probe, stale, late>>

\* The entry no longer blocks; its handle stays.
GoStale(r) ==
  /\ r \in handles \ stale
  /\ stale' = stale \cup {r}
  /\ UNCHANGED <<svcVars, start, stop, probe, handles, pollTimer, late>>

-------------------------------------------------------------------------------
(* POST /loadgen/stop through the proxy *)

ReleaseAll(seen) ==
  /\ handles' = {}
  /\ late' = late \cup (handles \ seen)

SendStop(k) ==
  /\ stop[k].at = "unsent"
  /\ stop' = [stop EXCEPT ![k].at = "sent"]
  /\ UNCHANGED <<svcVars, start, probe, apiVars>>

\* stop() waits for the workers of the run it stopped before it answers.
ServiceStop(k) ==
  /\ stop[k].at = "sent"
  /\ stop' = [stop EXCEPT ![k] =
       [at |-> "settling", of |-> IF status = "running" THEN current ELSE NoRun,
        seen |-> Started]]
  /\ RunnerStop
  /\ UNCHANGED <<start, probe, apiVars>>

StopAnswered(k) ==
  /\ stop[k].at = "settling" /\ stop[k].of \notin busy
  /\ stop' = [stop EXCEPT ![k].at = "answered"]
  /\ UNCHANGED <<svcVars, start, probe, apiVars>>

ReleaseStopped(k) ==
  /\ stop[k].at = "answered"
  /\ stop' = [stop EXCEPT ![k].at = "done"]
  /\ ReleaseAll(stop[k].seen)
  /\ UNCHANGED <<svcVars, start, probe, stale, pollTimer>>

StopFails(k) ==
  /\ stop[k].at \in {"sent", "settling", "answered"}
  /\ stop' = [stop EXCEPT ![k].at = "done"]
  /\ UNCHANGED <<svcVars, start, probe, apiVars>>

-------------------------------------------------------------------------------
(* The shared status poller *)

InFlight(p) == probe[p].at \in {"asked", "running", "quiet"}

\* Every probe is a request of its own; one may still be in flight when a new
\* registration arms the timer again.
ProbeSent(p) ==
  /\ pollTimer
  /\ pollTimer' = FALSE
  /\ handles # {} /\ ~InFlight(p)
  /\ probe' = [probe EXCEPT ![p].at = "asked"]
  /\ UNCHANGED <<svcVars, start, stop, handles, stale, late>>

PollIdle ==
  /\ pollTimer /\ handles = {}
  /\ pollTimer' = FALSE
  /\ UNCHANGED <<svcVars, start, stop, probe, handles, stale, late>>

ServiceStatus(p) ==
  /\ probe[p].at = "asked"
  /\ probe' = [probe EXCEPT ![p] =
       [at |-> IF status = "running" THEN "running" ELSE "quiet",
        of |-> NoRun, seen |-> Started]]
  /\ UNCHANGED <<svcVars, start, stop, apiVars>>

\* Mutant: an answer that something runs ends the polling.
ProbeAnswer_NoRearm(p) ==
  /\ probe[p].at \in {"running", "quiet"}
  /\ probe' = [probe EXCEPT ![p] = Fresh]
  /\ IF probe[p].at = "quiet" THEN ReleaseAll(probe[p].seen) ELSE UNCHANGED <<handles, late>>
  /\ UNCHANGED <<svcVars, start, stop, stale, pollTimer>>

\* Mutant: any answer releases, also one that says a run goes on.
ProbeAnswer_AnyAnswer(p) ==
  /\ probe[p].at \in {"running", "quiet"}
  /\ probe' = [probe EXCEPT ![p] = Fresh]
  /\ ReleaseAll(probe[p].seen)
  /\ armPoller(handles')
  /\ UNCHANGED <<svcVars, start, stop, stale>>

ProbeAnswer(p) ==
  /\ probe[p].at \in {"running", "quiet"}
  /\ probe' = [probe EXCEPT ![p] = Fresh]
  /\ IF probe[p].at = "quiet" THEN ReleaseAll(probe[p].seen) ELSE UNCHANGED <<handles, late>>
  /\ armPoller(handles')
  /\ UNCHANGED <<svcVars, start, stop, stale>>

ProbeError(p) ==
  /\ InFlight(p)
  /\ probe' = [probe EXCEPT ![p] = Fresh]
  /\ armPoller(handles)
  /\ UNCHANGED <<svcVars, start, stop, handles, stale, late>>

-------------------------------------------------------------------------------
ProxyStart(r) ==
  SendStart(r) \/ ServiceStart(r) \/ StartFails(r) \/ RegisterStart(r) \/ GoStale(r)

ProxyStop(k) ==
  SendStop(k) \/ ServiceStop(k) \/ StopAnswered(k) \/ ReleaseStopped(k) \/ StopFails(k)

ProbeStep(p) == ProbeSent(p) \/ ServiceStatus(p) \/ ProbeAnswer(p) \/ ProbeError(p)

Next ==
  \/ \E r \in Run : ProxyStart(r) \/ DurationEnds(r) \/ WorkersSettle(r)
  \/ \E k \in Stop : ProxyStop(k)
  \/ PollIdle \/ \E p \in Probe : ProbeStep(p)

\* Timers fire; a probe sent again and again is answered in the end.
Fairness ==
  /\ WF_vars(PollIdle) /\ WF_vars(\E p \in Probe : ProbeSent(p))
  /\ \A r \in Run : WF_vars(DurationEnds(r))
  /\ SF_vars(\E p \in Probe : ServiceStatus(p)) /\ SF_vars(\E p \in Probe : ProbeAnswer(p))

Spec == Init /\ [][Next]_vars /\ Fairness

-------------------------------------------------------------------------------
(* Properties *)

TypeOK ==
  /\ status \in {"idle", "running", "stopped"}
  /\ current \in Run \cup {NoRun} /\ (status = "running" => current # NoRun)
  /\ timers \subseteq Run /\ busy \subseteq Run
  /\ start \in [Run -> StartState]
  /\ stop \in [Stop -> Reply({"unsent", "sent", "settling", "answered", "done"})]
  /\ probe \in [Probe -> Reply({"unsent", "asked", "running", "quiet"})]
  /\ handles \subseteq {r \in Run : start[r] = "registered"}
  /\ stale \subseteq Run /\ late \subseteq Run /\ pollTimer \in BOOLEAN

\* A run is only ended by its own duration: no timer of an earlier run is left
\* that would stop a later one.
TimerOfCurrentRun == timers = IF status = "running" THEN {current} ELSE {}

\* The poller is never lost: as long as a handle is held, a poll is scheduled or
\* under way, whatever probes fail and whatever starts overlap them.
PollerAlive == handles # {} => pollTimer \/ \E p \in Probe : InFlight(p)

RunsUnlisted(r) ==
  status = "running" /\ current = r /\ start[r] = "registered" /\ r \notin handles

\* The only way a running run loses its entry is an answer, to a probe or to a
\* stop, that the service gave before the run started.
OnlyLateAnswersUnlock == \A r \in Run : RunsUnlisted(r) => r \in late

\* A load run that has ended does not hold the lock for ever, even if no stop
\* is ever answered.
LockReleased == (<>[](status # "running")) => <>[](handles = {})
===============================================================================
