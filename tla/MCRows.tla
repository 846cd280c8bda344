------------------------------- MODULE MCRows ---------------------------------
(***************************************************************************)
(* Small instances of what moves the rows and of the views that follow     *)
(* them, one of which a behaviour runs: the worker that posts batches to a *)
(* bulk-loader, the worker that adds them to streams under backpressure,   *)
(* the consumer of a stream, and the views of a bulk run and of a          *)
(* calculation.  Parts says which of them a run considers.                 *)
(***************************************************************************)
EXTENDS IngestConsumer, TLC

CONSTANTS Parts, None

VARIABLES
  part,
  pc, row, rowsSent, firstError, posts, inFlight, written,
  after, buffer, held, resume, throttled, cancel, aborted, skipped, accepted, told,
  window, at, flushing, buffers, flying, batches, xlen, routed, since, paused,
  api, phase, runId, timers, scheduled, poll, adopting, starting, shown,
  snap, recovery, computed, recent, old, started, loads

-------------------------------------------------------------------------------
(* Small instances *)

Write1(w, v) == [kind |-> "row", row |-> w, val |-> v]
Bad(k) == [kind |-> k, row |-> "a", val |-> 1]

\* One crash.
Crash == [stream |-> <<Write1("a", 1), Write1("b", 2)>>, atomic |-> TRUE, faults |-> 1, refuses |-> FALSE]

\* Two values of a row and a second row; entries that are no rows; a batch of which
\* Redis refuses commands; the JSON formats.
Streams ==
  { [stream |-> <<Write1("a", 1), Write1("a", 2), Write1("b", 2), Write1("a", 1)>>,
     atomic |-> TRUE, faults |-> 0, refuses |-> FALSE],
    [stream |-> <<Write1("a", 1), Bad("malformed"), Write1("a", 2)>>, atomic |-> TRUE, faults |-> 2,
     refuses |-> FALSE],
    [stream |-> <<Write1("a", 1), Write1("a", 2)>>, atomic |-> TRUE, faults |-> 2, refuses |-> TRUE],
    [stream |-> <<Write1("a", 1), Bad("poison"), Write1("b", 2)>>, atomic |-> TRUE, faults |-> 1,
     refuses |-> FALSE],
    [stream |-> <<Write1("a", 1), Bad("malformed"), Write1("a", 2)>>, atomic |-> FALSE, faults |-> 1,
     refuses |-> TRUE],
    [stream |-> <<Write1("a", 1), Bad("poison"), Write1("b", 2)>>, atomic |-> FALSE, faults |-> 1,
     refuses |-> FALSE] }

MCEnvironment == Streams \cup {Crash}

Http == INSTANCE HttpProducer WITH Rows <- 5, BatchSize <- 2, MaxInFlight <- 2, PollEvery <- 2
Adds == INSTANCE StreamProducer WITH
            Streams <- {"s1", "s2"}, Rows <- 6, BatchSize <- 2, Windows <- {1, 2},
            CheckEvery <- 2, PauseAbove <- 2, ResumeBelow <- 1

ApiRun == {"r1", "r2"}
BulkView == INSTANCE BulkRunView WITH Runs <- ApiRun, Rows <- 1, MaxLoads <- 0, stored <- shown
CalcView == INSTANCE CalcRunView WITH MaxStarts <- 3, MaxLoads <- 2

-------------------------------------------------------------------------------
(* One part at a time *)

producerVars == <<pc, row, rowsSent, firstError>>
httpVars == <<after, buffer, held, resume, throttled, cancel, aborted, skipped, accepted, told>>
streamVars == <<window, at, flushing, buffers, flying, batches, xlen, routed, since, paused>>
bulkVars == <<api, phase, runId, timers, scheduled, poll, adopting, starting, shown>>
calcVars == <<snap, recovery, computed, recent, old, started>>
mcvars == <<part, vars, producerVars, httpVars, streamVars, bulkVars, calcVars,
            posts, inFlight, written, loads>>

ProducerOff == pc = "off" /\ row = "off" /\ rowsSent = "off" /\ firstError = "off"
HttpOff ==
  /\ after = "off" /\ buffer = "off" /\ held = "off" /\ resume = "off" /\ throttled = "off"
  /\ cancel = "off" /\ aborted = "off" /\ skipped = "off" /\ accepted = "off" /\ told = "off"
StreamOff ==
  /\ window = "off" /\ at = "off" /\ flushing = "off" /\ buffers = "off" /\ flying = "off"
  /\ batches = "off" /\ xlen = "off" /\ routed = "off" /\ since = "off" /\ paused = "off"
BulkOff ==
  /\ api = "off" /\ phase = "off" /\ runId = "off" /\ timers = "off" /\ scheduled = "off"
  /\ poll = "off" /\ adopting = "off" /\ starting = "off" /\ shown = "off"
CalcOff ==
  /\ snap = "off" /\ recovery = "off" /\ computed = "off" /\ recent = "off"
  /\ old = "off" /\ started = "off"
PostsOff == posts = "off" /\ inFlight = "off"

MCInit ==
  /\ part \in Parts
  /\ Init
  /\ part = "consumer" <=> env # Crash
  /\ CASE part = "http" -> Http!Init /\ StreamOff /\ BulkOff /\ CalcOff /\ written = "off" /\ loads = "off"
       [] part = "stream" -> Adds!Init /\ HttpOff /\ BulkOff /\ CalcOff /\ PostsOff /\ loads = "off"
       [] part = "bulk view" ->
            BulkView!Init /\ ProducerOff /\ HttpOff /\ StreamOff /\ CalcOff /\ PostsOff
       [] part = "calc view" ->
            CalcView!Init /\ ProducerOff /\ HttpOff /\ StreamOff /\ BulkOff /\ written = "off"
       [] OTHER -> /\ ProducerOff /\ HttpOff /\ StreamOff /\ BulkOff /\ CalcOff /\ PostsOff
                   /\ written = "off" /\ loads = "off"

InConsumer ==
  /\ part \in {"consumer", "crash"}
  /\ UNCHANGED <<part, producerVars, httpVars, streamVars, bulkVars, calcVars,
                 posts, inFlight, written, loads>>
InHttp ==
  /\ part = "http"
  /\ UNCHANGED <<part, vars, streamVars, bulkVars, calcVars, written, loads>>
InStream ==
  /\ part = "stream"
  /\ UNCHANGED <<part, vars, httpVars, bulkVars, calcVars, posts, inFlight, loads>>
InBulk ==
  /\ part = "bulk view"
  /\ UNCHANGED <<part, vars, producerVars, httpVars, streamVars, calcVars, posts, inFlight>>
InCalc ==
  /\ part = "calc view"
  /\ UNCHANGED <<part, vars, producerVars, httpVars, streamVars, bulkVars, written>>

MCNext ==
  \/ InConsumer /\ Next
  \/ InHttp /\ Http!Next
  \/ InStream /\ Adds!Next
  \/ InBulk /\ BulkView!Next
  \/ InCalc /\ CalcView!Next

\* The fairness of each model, for the part that runs: fairness of a disjunction of
\* actions of different parts is fairness of each of them.
MCFairness ==
  /\ WF_mcvars((InConsumer /\ Step(1)) \/ (InStream /\ Adds!Step)
                 \/ (InBulk /\ BulkView!AdoptBegin) \/ (InCalc /\ CalcView!Tick))
  /\ WF_mcvars((InConsumer /\ Step(2)) \/ (InStream /\ Adds!Consume("s1"))
                 \/ (InBulk /\ BulkView!AdoptApply)
                 \/ (InCalc /\ \E p \in posts : CalcView!startAnswered(p)))
  /\ WF_mcvars((InConsumer /\ DrainDue(1)) \/ (InStream /\ Adds!Consume("s2"))
                 \/ (InBulk /\ BulkView!PollSend)
                 \/ (InCalc /\ \E p \in posts : CalcView!recoverAnswered(p)))
  /\ WF_mcvars((InConsumer /\ DrainDue(2)) \/ (InBulk /\ BulkView!PollApply))
  /\ WF_mcvars(InBulk /\ BulkView!SummaryTimer)
  /\ SF_mcvars((InConsumer /\ ReadNew(1)) \/ (InBulk /\ BulkView!AdoptRead)
                 \/ (InCalc /\ CalcView!RecentAnswered))
  /\ SF_mcvars((InConsumer /\ ReadNew(2)) \/ (InBulk /\ BulkView!PollRead))

MCSpec == MCInit /\ [][MCNext]_mcvars /\ MCFairness

-------------------------------------------------------------------------------
(* Properties *)

\* A run that ends well has its whole share of rows where they belong, each once:
\* at the bulk-loader or below the watermark (http-producer.ts), or in the stream
\* of its shard (producer.ts).
DoneIsWhole ==
  /\ part = "http" => Http!DoneHoldsItsShare
  /\ part = "stream" => Adds!DoneWroteEveryRow

\* Nothing is left hanging.  Every entry of the stream is acknowledged in the end,
\* unless one poisons it (consumer.ts).  A stream run ends: its pause gives way as
\* ingest drains the streams (flow-control.ts).  The views find the run that goes on
\* in the api and the calculation that is done: a reload, a lost reply or a late
\* adoption does not hide them for ever (BulkIngestRunContext.tsx,
\* CalcRunContext.tsx).  One formula for the parts, of which each behaviour runs one.
NothingHangs ==
  []<>(CASE part = "consumer" -> AllSettled
         [] part = "stream" -> pc \in {"done", "failed"}
         [] part = "bulk view" -> phase = "hidden" => ~\E r \in ApiRun : BulkView!Running(r)
         [] part = "calc view" -> ~CalcView!Unshown
         [] OTHER -> TRUE)
===============================================================================
