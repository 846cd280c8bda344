----------------------------- MODULE BulkRunView -----------------------------
(***************************************************************************)
(* What one browser tab shows of the bulk ingest runs of the api           *)
(* (services/ui/src/context/BulkIngestRunContext.tsx and the start flow of *)
(* panels/IngestPanel.tsx).  The runs themselves are BulkRuns; here a run  *)
(* of the api is its status and two counters, seen through GET requests    *)
(* whose answers are read at one moment and applied at a later one.  A     *)
(* failed request changes nothing in the tab but the wait for it.          *)
(***************************************************************************)
EXTENDS Integers, FiniteSets

CONSTANTS
    Runs,      \* ids of bulk runs
    None,      \* "no run", "no answer"
    Rows,      \* rows of every run
    MaxLoads   \* bound on page loads after the first

VARIABLES
    api,       \* each run's record in the api
    phase,     \* "hidden", "running" or "summary"
    runId,     \* run the card is about
    written,   \* writtenRef
    timers,    \* summary timers that have not fired
    scheduled, \* summaryScheduledRef
    poll,      \* the poll of the newest generation: run asked for, its answer
    adopting,  \* adoptActiveRun: the run it settled on (own: from `stored`), its answer
    starting,  \* the start button's flow: "no", "checking", then the run started
    stored,    \* bulk-ingest-active-run in localStorage
    loads      \* page loads so far

vars == <<api, phase, runId, written, timers, scheduled, poll, adopting, starting,
          stored, loads>>
card == <<phase, runId, written, timers, scheduled>>

Absent == [st |-> "none", sent |-> 0, flushed |-> 0]
Ended == {"done", "cancelled"}   \* "error" is shown as "cancelled" is
Running(r) == api[r].st = "running"
NoCall == [id |-> None, got |-> None, own |-> FALSE]

(***************************************************************************)
(* Progress of a run as the card counts it (lib/ingestRunState.ts).        *)
(***************************************************************************)
Larger(a, b) == IF a > b THEN a ELSE b
Capped(n) == IF n > Rows THEN Rows ELSE n

monotonicWritten(previous, next) == Larger(previous, next)
shouldPollRun == phase = "running"

pickBulkRunProgress(run, flushed) ==
    LET raw == IF run.sent >= Rows /\ flushed > 0 THEN flushed ELSE Larger(run.sent, flushed)
    IN  monotonicWritten(flushed, Capped(raw))

effectiveRunWritten(run, flushed) ==
    CASE run.st = "done" /\ run.sent >= Rows -> Rows
      [] run.st = "running"                  -> pickBulkRunProgress(run, flushed)
      [] OTHER                               -> Capped(Larger(flushed, run.sent))

(***************************************************************************)
(* The api (BulkRuns).                                                     *)
(***************************************************************************)
ApiStart(r) ==
    /\ api[r].st = "none"
    /\ api' = [api EXCEPT ![r].st = "running"]

ElsewhereStart(r) ==
    /\ ApiStart(r)
    /\ UNCHANGED <<card, poll, adopting, starting, stored, loads>>

ApiMoves(r) ==
    /\ Running(r)
    /\ \E s \in api[r].sent .. Rows, f \in api[r].flushed .. Rows, st \in {"running"} \cup Ended :
         /\ f <= s
         /\ st = "done" => s = Rows
         /\ api' = [api EXCEPT ![r] = [st |-> st, sent |-> s, flushed |-> f]]
    /\ UNCHANGED <<card, poll, adopting, starting, stored, loads>>

\* its time is over, or the api was restarted
ApiForgets(r) ==
    /\ api[r].st \in {"running"} \cup Ended
    /\ api' = [api EXCEPT ![r] = [Absent EXCEPT !.st = "gone"]]
    /\ UNCHANGED <<card, poll, adopting, starting, stored, loads>>

Answer(r) == IF api[r].st \in {"running"} \cup Ended THEN api[r] ELSE None

(***************************************************************************)
(* Following a run.                                                        *)
(***************************************************************************)
Init ==
    /\ api = [r \in Runs |-> Absent]
    /\ phase = "hidden" /\ runId = None /\ written = 0
    /\ timers = 0 /\ scheduled = FALSE
    /\ poll = NoCall /\ adopting = NoCall /\ starting = "no"
    /\ stored = None /\ loads = 0

scheduleSummary ==
    IF scheduled
    THEN UNCHANGED <<phase, timers, scheduled>>
    ELSE /\ phase' = "summary"
         /\ timers' = timers + 1
         /\ scheduled' = TRUE

applyRun(run) ==
    /\ written' = effectiveRunWritten(run, monotonicWritten(written, run.flushed))
    /\ UNCHANGED runId
    /\ IF run.st = "running"
       THEN phase' = "running" /\ UNCHANGED <<timers, scheduled>>
       ELSE scheduleSummary

PollSend ==
    /\ shouldPollRun
    /\ poll' = [NoCall EXCEPT !.id = runId]
    /\ UNCHANGED <<api, card, adopting, starting, stored, loads>>

PollRead ==
    /\ poll.id # None /\ poll.got = None
    /\ poll' = IF Answer(poll.id) = None THEN NoCall ELSE [poll EXCEPT !.got = Answer(poll.id)]
    /\ UNCHANGED <<api, card, adopting, starting, stored, loads>>

PollApply ==
    /\ poll.got # None
    /\ applyRun(poll.got)
    /\ poll' = NoCall
    /\ UNCHANGED <<api, adopting, starting, stored, loads>>

resetRunState ==
    /\ phase' = "hidden" /\ runId' = None /\ written' = 0
    /\ scheduled' = FALSE
    /\ stored' = None

SummaryTimer ==
    /\ timers > 0
    /\ timers' = timers - 1
    /\ resetRunState
    /\ UNCHANGED <<api, poll, adopting, starting, loads>>

(***************************************************************************)
(* Starting and cancelling from this tab.                                  *)
(***************************************************************************)
canStartRun == phase = "hidden" /\ starting = "no"

StartClick ==
    /\ canStartRun
    /\ starting' = "checking"
    /\ UNCHANGED <<api, card, poll, adopting, stored, loads>>

StartRefused ==
    /\ starting # "no"
    /\ starting' = "no"
    /\ UNCHANGED <<api, card, poll, adopting, stored, loads>>

StartPost(r) ==
    /\ starting = "checking"
    /\ ApiStart(r)
    /\ starting' = r
    /\ UNCHANGED <<card, poll, adopting, stored, loads>>

beginRun(r) ==
    /\ starting = r
    /\ phase' = "running" /\ runId' = r /\ written' = 0
    /\ scheduled' = FALSE
    /\ stored' = r
    /\ starting' = "no"
    /\ UNCHANGED <<api, timers, poll, adopting, loads>>

cancelRun ==
    /\ runId # None
    /\ Running(runId)
    /\ api' = [api EXCEPT ![runId].st = "cancelled"]
    /\ poll' = IF shouldPollRun THEN [NoCall EXCEPT !.id = runId] ELSE poll
    /\ UNCHANGED <<card, adopting, starting, stored, loads>>

(***************************************************************************)
(* Finding a run this tab did not start, or lost: every two seconds while  *)
(* the card is hidden.                                                     *)
(***************************************************************************)
AdoptBegin ==
    /\ phase = "hidden" /\ runId = None /\ adopting = NoCall
    /\ \/ stored # None
          /\ adopting' = [id |-> stored, got |-> None, own |-> TRUE]
          /\ UNCHANGED stored
       \/ stored = None
          /\ \E r \in Runs :
               /\ Running(r)
               /\ adopting' = [id |-> r, got |-> None, own |-> FALSE]
               /\ stored' = r
    /\ UNCHANGED <<api, card, poll, starting, loads>>

\* a run the api does not know, or a request that failed
AdoptDrop_Latched ==
    /\ adopting' = [NoCall EXCEPT !.own = TRUE]
    /\ stored' = IF adopting.own THEN None ELSE stored

AdoptDrop ==
    /\ adopting' = NoCall
    /\ stored' = IF adopting.own THEN None ELSE stored

AdoptRead ==
    /\ adopting.id # None /\ adopting.got = None
    /\ IF Answer(adopting.id) # None
       THEN adopting' = [adopting EXCEPT !.got = Answer(adopting.id)] /\ UNCHANGED stored
       ELSE AdoptDrop
    /\ UNCHANGED <<api, card, poll, starting, loads>>

AdoptLost ==
    /\ adopting.id # None /\ adopting.got = None
    /\ AdoptDrop
    /\ UNCHANGED <<api, card, poll, starting, loads>>

AdoptApply ==
    /\ adopting.got # None
    /\ adopting' = NoCall
    /\ IF adopting.got.st # "running"
       THEN stored' = None /\ UNCHANGED card
       ELSE /\ phase' = "running" /\ runId' = adopting.id
            /\ written' = effectiveRunWritten(adopting.got, adopting.got.flushed)
            /\ scheduled' = FALSE
            /\ UNCHANGED <<timers, stored>>
    /\ UNCHANGED <<api, poll, starting, loads>>

(***************************************************************************)
(* The page is loaded again: only localStorage outlives it.                *)
(***************************************************************************)
PageLoad ==
    /\ loads < MaxLoads
    /\ loads' = loads + 1
    /\ phase' = "hidden" /\ runId' = None /\ written' = 0
    /\ timers' = 0 /\ scheduled' = FALSE
    /\ poll' = NoCall /\ adopting' = NoCall /\ starting' = "no"
    /\ UNCHANGED <<api, stored>>

Next ==
    \/ \E r \in Runs : ElsewhereStart(r) \/ ApiMoves(r) \/ ApiForgets(r)
    \/ PollSend \/ PollRead \/ PollApply \/ SummaryTimer
    \/ StartClick \/ StartRefused \/ cancelRun
    \/ \E r \in Runs : StartPost(r) \/ beginRun(r)
    \/ AdoptBegin \/ AdoptRead \/ AdoptLost \/ AdoptApply
    \/ PageLoad

Fairness ==
    /\ WF_vars(AdoptBegin) /\ SF_vars(AdoptRead) /\ WF_vars(AdoptApply)
    /\ WF_vars(PollSend) /\ SF_vars(PollRead) /\ WF_vars(PollApply)
    /\ WF_vars(SummaryTimer)

Spec == Init /\ [][Next]_vars /\ Fairness

(***************************************************************************)
(* Properties                                                              *)
(***************************************************************************)
=============================================================================
