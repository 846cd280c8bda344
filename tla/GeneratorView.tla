---------------------------- MODULE GeneratorView ----------------------------
(***************************************************************************)
(* What one browser tab shows of the synthetic generator's runs            *)
(* (services/ui/src/context/GeneratorRunContext.tsx over the event stream  *)
(* of lib/ingest.ts startGeneratorStream).  A run started here is followed *)
(* on its event stream, one found after a reload by polling.  The runs are *)
(* GeneratorRuns; here a run of the api is its status.  Every request is   *)
(* answered with what the api held at one moment between its sending and   *)
(* the step that applies it.                                               *)
(***************************************************************************)
EXTENDS Integers, FiniteSets

CONSTANTS
    Runs,      \* ids of generator runs
    None,      \* "no run", "nothing asked"
    MaxTicks,  \* bound on polls in flight at once
    MaxLoads   \* bound on page loads after the first

VARIABLES
    api,      \* status of each run in the api
    shown,    \* run.status and run.runId of the tab, or None
    stream,   \* the event stream opened by startRun, or None
    poll,     \* run of pollRef
    ticks,    \* answers of polls in flight
    adopt,    \* the mount effect: where it stands and the answer it holds
    stored,   \* generator-active-run in localStorage
    grace,    \* graceTimerRef is set
    dismiss,  \* dismissTimerRef is set
    loads

vvars == <<api, shown, stream, poll, ticks, adopt, stored, grace, dismiss, loads>>

Ended == {"done", "cancelled", "error"}
Card(id, st) == [id |-> id, st |-> st]
Known(r) == IF api[r] \in {"none", "gone"} THEN None ELSE Card(r, api[r])

VInit ==
    /\ api = [r \in Runs |-> "none"]
    /\ shown = None /\ stream = None /\ poll = None /\ ticks = {}
    /\ adopt = [at |-> "stored", got |-> None]
    /\ stored = None /\ grace = FALSE /\ dismiss = FALSE /\ loads = 0

(***************************************************************************)
(* The api (GeneratorRuns).                                                *)
(***************************************************************************)
ApiMoves(r) ==
    /\ \/ api[r] = "none" /\ api' = [api EXCEPT ![r] = "running"]      \* elsewhere
       \/ api[r] = "running" /\ \E st \in Ended : api' = [api EXCEPT ![r] = st]
       \/ api[r] \in {"running"} \cup Ended /\ api' = [api EXCEPT ![r] = "gone"]
    /\ UNCHANGED <<shown, stream, poll, ticks, adopt, stored, grace, dismiss, loads>>

(***************************************************************************)
(* Polling.                                                                *)
(***************************************************************************)
startPolling(card) ==
    IF stream = None /\ poll = None
    THEN poll' = card.id /\ shown' = card
    ELSE UNCHANGED <<poll, shown>>

TickSend ==
    /\ poll # None
    /\ Cardinality(ticks) < MaxTicks
    /\ ticks' = ticks \cup {[id |-> poll, got |-> Known(poll)]}
    /\ UNCHANGED <<api, shown, stream, poll, adopt, stored, grace, dismiss, loads>>

Cancelling == shown # None /\ shown.st = "cancelling"

\* An answer is applied whatever has happened since it was asked for.
TickApply(t) ==
    /\ t \in ticks
    /\ ticks' = ticks \ {t}
    /\ IF t.got = None
       THEN poll' = None /\ stored' = None /\ UNCHANGED <<shown, dismiss>>
       ELSE IF t.got.st \in Ended
       THEN /\ shown' = IF Cancelling /\ t.got.st # "cancelled" THEN shown ELSE t.got
            /\ poll' = None /\ stored' = None
            /\ dismiss' = TRUE
       ELSE /\ shown' = IF Cancelling THEN [t.got EXCEPT !.st = "cancelling"] ELSE t.got
            /\ UNCHANGED <<poll, stored, dismiss>>
    /\ UNCHANGED <<api, stream, adopt, grace, loads>>

TickLost(t) ==
    /\ t \in ticks
    /\ ticks' = ticks \ {t}
    /\ UNCHANGED <<api, shown, stream, poll, adopt, stored, grace, dismiss, loads>>

DismissTimer ==
    /\ dismiss
    /\ dismiss' = FALSE /\ shown' = None
    /\ UNCHANGED <<api, stream, poll, ticks, adopt, stored, grace, loads>>

GraceTimer ==
    /\ grace
    /\ grace' = FALSE /\ stored' = None
    /\ UNCHANGED <<api, shown, stream, poll, ticks, adopt, dismiss, loads>>

clearRun ==
    /\ shown # None /\ shown' = None
    /\ UNCHANGED <<api, stream, poll, ticks, adopt, stored, grace, dismiss, loads>>

(***************************************************************************)
(* Starting a run here and following its event stream.  The caller starts  *)
(* no second run while a stream is open.                                   *)
(***************************************************************************)
startRun_KeepsPoll ==
    /\ stream = None
    /\ UNCHANGED <<poll, ticks>>
    /\ grace' = FALSE /\ dismiss' = FALSE
    /\ shown' = Card(None, "running")
    /\ stream' = [id |-> None, cancelled |-> FALSE, watchdog |-> "unset", broken |-> FALSE]
    /\ UNCHANGED <<api, adopt, stored, loads>>

startRun ==
    /\ stream = None
    /\ poll' = None /\ UNCHANGED ticks
    /\ grace' = FALSE /\ dismiss' = FALSE
    /\ shown' = Card(None, "running")
    /\ stream' = [id |-> None, cancelled |-> FALSE, watchdog |-> "unset", broken |-> FALSE]
    /\ UNCHANGED <<api, adopt, stored, loads>>

Open == stream # None /\ ~stream.broken

\* the api accepts the run; its first frame carries the id
StreamBegins(r) ==
    /\ Open /\ stream.id = None
    /\ api[r] = "none"
    /\ api' = [api EXCEPT ![r] = "running"]
    /\ stream' = [stream EXCEPT !.id = r]
    /\ UNCHANGED <<shown, poll, ticks, adopt, stored, grace, dismiss, loads>>

onProgress ==
    /\ Open /\ stream.id # None
    /\ shown' = IF shown = None \/ shown.st \in Ended THEN shown
                ELSE [shown EXCEPT !.id = stream.id]
    /\ stored' = stream.id
    /\ UNCHANGED <<api, stream, poll, ticks, adopt, grace, dismiss, loads>>

onTerminal ==
    /\ Open /\ stream.id # None
    /\ api[stream.id] \in Ended
    /\ shown' = Card(stream.id, IF api[stream.id] = "cancelled" THEN "cancelled" ELSE "done")
    /\ stream' = None /\ stored' = None
    /\ dismiss' = TRUE
    /\ UNCHANGED <<api, poll, ticks, adopt, grace, loads>>

onError ==
    /\ shown' = IF shown = None THEN None ELSE [shown EXCEPT !.st = "error"]
    /\ stream' = None
    /\ dismiss' = TRUE
    /\ UNCHANGED <<api, poll, ticks, adopt, stored, grace, loads>>

\* The reader throws: reported, unless the user has cancelled.
StreamFails ==
    /\ Open
    /\ IF stream.cancelled
       THEN /\ stream' = [stream EXCEPT !.broken = TRUE, !.watchdog = IF @ = "armed" THEN "cleared" ELSE @]
            /\ UNCHANGED <<api, shown, poll, ticks, adopt, stored, grace, dismiss, loads>>
       ELSE onError

\* The api closes the stream without a last frame: nobody is told.
StreamCloses ==
    /\ Open
    /\ stream' = [stream EXCEPT !.broken = TRUE]
    /\ UNCHANGED <<api, shown, poll, ticks, adopt, stored, grace, dismiss, loads>>

(***************************************************************************)
(* Cancelling: the card says so at once, the api is told, and a watchdog   *)
(* is armed once it has answered.                                          *)
(***************************************************************************)
ApiCancel(r) == api' = IF r # None /\ api[r] = "running" THEN [api EXCEPT ![r] = "cancelled"] ELSE api

cancelRun ==
    /\ shown # None /\ shown.st = "running"
    /\ shown' = [shown EXCEPT !.st = "cancelling"]
    /\ IF stream # None
       THEN stream' = [stream EXCEPT !.cancelled = TRUE] /\ ApiCancel(stream.id)
       ELSE UNCHANGED stream /\ ApiCancel(poll)
    /\ UNCHANGED <<poll, ticks, adopt, stored, grace, dismiss, loads>>

WatchdogArmed ==
    /\ stream # None /\ stream.cancelled /\ stream.watchdog = "unset"
    /\ stream' = [stream EXCEPT !.watchdog = "armed"]
    /\ UNCHANGED <<api, shown, poll, ticks, adopt, stored, grace, dismiss, loads>>

WatchdogFires == stream # None /\ stream.watchdog = "armed" /\ onError

(***************************************************************************)
(* The mount effect: the stored run first, then the newest run of the api. *)
(***************************************************************************)
AdoptAsk ==
    /\ adopt.at = "stored" /\ adopt.got = None
    /\ adopt' = IF stored = None THEN [adopt EXCEPT !.at = "list"]
                ELSE [at |-> "stored", got |-> [id |-> stored, card |-> Known(stored)]]
    /\ UNCHANGED <<api, shown, stream, poll, ticks, stored, grace, dismiss, loads>>

AdoptStored ==
    /\ adopt.at = "stored" /\ adopt.got # None
    /\ adopt' = [at |-> "list", got |-> adopt.got.id]
    /\ LET card == adopt.got.card IN
         \/ /\ card = None
            /\ stored' = None /\ UNCHANGED <<shown, poll, grace>>
         \/ /\ card # None /\ card.st = "running"
            /\ startPolling(card)
            /\ UNCHANGED <<stored, grace>>
         \/ /\ card # None /\ card.st \in Ended
            /\ shown' = card
            /\ grace' = TRUE
            /\ UNCHANGED <<poll, stored>>
    /\ UNCHANGED <<api, stream, ticks, dismiss, loads>>

AdoptLost ==
    /\ adopt.at \in {"stored", "list"}
    /\ adopt' = [at |-> IF adopt.at = "stored" THEN "list" ELSE "over", got |-> None]
    /\ stored' = IF adopt.at = "stored" THEN None ELSE stored
    /\ UNCHANGED <<api, shown, stream, poll, ticks, grace, dismiss, loads>>

AdoptOrphan ==
    /\ adopt.at = "list"
    /\ adopt' = [at |-> "over", got |-> None]
    /\ \/ \E r \in Runs :
            /\ api[r] = "running" /\ r # adopt.got
            /\ IF stream = None /\ poll = None
               THEN stored' = r /\ startPolling(Card(r, "running"))
               ELSE UNCHANGED <<stored, poll, shown>>
       \/ /\ \A r \in Runs : api[r] # "running" \/ r = adopt.got
          /\ UNCHANGED <<stored, poll, shown>>
    /\ UNCHANGED <<api, stream, ticks, grace, dismiss, loads>>

PageLoad ==
    /\ loads < MaxLoads
    /\ loads' = loads + 1
    /\ shown' = None /\ stream' = None /\ poll' = None /\ ticks' = {}
    /\ adopt' = [at |-> "stored", got |-> None]
    /\ grace' = FALSE /\ dismiss' = FALSE
    /\ UNCHANGED <<api, stored>>

VNext ==
    \/ \E r \in Runs : ApiMoves(r) \/ StreamBegins(r)
    \/ TickSend \/ \E t \in ticks : TickApply(t) \/ TickLost(t)
    \/ DismissTimer \/ GraceTimer \/ clearRun
    \/ startRun \/ onProgress \/ onTerminal \/ StreamFails \/ StreamCloses
    \/ cancelRun \/ WatchdogArmed \/ WatchdogFires
    \/ AdoptAsk \/ AdoptStored \/ AdoptLost \/ AdoptOrphan
    \/ PageLoad

\* timers fire, requests are sent and answers applied
VFairness ==
    /\ WF_vvars(WatchdogArmed) /\ WF_vvars(WatchdogFires) /\ WF_vvars(onTerminal)
    /\ WF_vvars(TickSend) /\ SF_vvars(\E t \in ticks : TickApply(t))
    /\ WF_vvars(DismissTimer) /\ WF_vvars(GraceTimer)

VSpec == VInit /\ [][VNext]_vvars /\ VFairness

(***************************************************************************)
(* Properties                                                              *)
(***************************************************************************)
\* "Polling and SSE are mutually exclusive" (15): whatever order the mount
\* effect, a start and late answers come in.
OneWatcher == ~(stream # None /\ poll # None)

=============================================================================
