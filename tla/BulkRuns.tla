------------------------------ MODULE BulkRuns -------------------------------
(***************************************************************************)
(* Bulk-ingest runs in the api (routes/ingest.ts) over several replicas of *)
(* the bulk-loader behind one name: a start re-enables the replicas, takes *)
(* the flush counters as its baseline and spawns the producers, one in the *)
(* process or a worker thread each; a cancel stops them and, later, the    *)
(* replicas.  Ended runs are archived (lib/ingest-run-history.ts) and stay *)
(* listed until the loader seems drained; polls report rows_written from   *)
(* whatever replicas their probes reach (bulk-loader-topology.ts,          *)
(* routes/ingest-snapshot.ts).                                             *)
(*                                                                         *)
(* A batch is one row.  429s and 503s only repeat a POST and are no step.  *)
(***************************************************************************)
EXTENDS Integers, FiniteSets, FiniteSetsExt, Sequences

CONSTANT
  Worlds  \* what a behaviour may be about: runs, the worker threads of one, loader replicas, the
          \* rows of a run (a multiple of the number of workers), and two bounds: replies lost to
          \* one batch, and halts under way at once

ASSUME WorldAssumption ==
  \A d \in Worlds :
    /\ IsFiniteSet(d.workers) /\ d.workers # {}
    /\ d.rows \in Nat /\ d.lost \in Nat /\ d.halts \in Nat

VARIABLES
  world,     \* which of Worlds this is
  starting,  \* of each run: "no", "resumed", "started"
  rec,       \* activeRuns
  work,      \* the producer of each worker of each run
  flag,      \* the runs whose cancelView is raised
  accepting, \* replicas that take rows
  landed,    \* batches the replicas hold, queued or flushed
  halts,     \* haltBulkLoaderAccept calls not awaited by anyone
  archiving, \* runs whose archive waits for the counters: the record it was given
  history,   \* run history, newest first
  water,     \* runWrittenHighWater
  shown,     \* the last rows_written a poll gave of a run
  gone,      \* history: how a record left: "no", "drained" or "expired"
  counted,   \* history: batches the producers of a run had counted when it ended
  blind      \* history: a probe of a removal watch missed a replica

rvars == <<world, starting, rec, work, flag, accepting, landed, halts, archiving, history, water,
           shown, gone, counted, blind>>

NoRun == [status |-> "none", sent |-> 0, base |-> 0, multi |-> FALSE, cancelled |-> FALSE]
Lead == CHOOSE w \in world.workers : TRUE
Listed(r) == rec[r] # NoRun
OnGoing(r) == rec[r].status = "running"
Team(r) == IF rec[r].multi THEN world.workers ELSE {Lead}
Share(r) == IF rec[r].multi THEN world.rows \div Cardinality(world.workers) ELSE world.rows
NoWorker == [at |-> "off", made |-> 0, posts |-> {}, sent |-> {}, failed |-> FALSE, aborted |-> FALSE]

\* The batches some producers of a run have counted as sent.
SentBy(r, S) == {c \in S \X (1..world.rows) : c[2] \in work[r][c[1]].sent}
Sum(r, S) == Cardinality(SentBy(r, S))

\* What the probes that reached `seen' add up to; none reached counts as nothing.
Flushed(seen) == Cardinality({x \in landed : x.flushed /\ x.at \in seen})
Unflushed(seen) == Cardinality({x \in landed : ~x.flushed /\ x.at \in seen})
computeRowsWritten(r, seen) == Max({0, Flushed(seen) - rec[r].base})

RInit ==
  /\ world \in Worlds
  /\ starting = [r \in world.runs |-> "no"] /\ rec = [r \in world.runs |-> NoRun]
  /\ work = [r \in world.runs |-> [w \in world.workers |-> NoWorker]] /\ flag = {}
  /\ accepting = world.replicas /\ landed = {} /\ halts = 0
  /\ archiving = [r \in world.runs |-> NoRun] /\ history = << >>
  /\ water = [r \in world.runs |-> 0] /\ shown = [r \in world.runs |-> 0]
  /\ gone = [r \in world.runs |-> "no"] /\ counted = {} /\ blind = FALSE

Reports == <<archiving, history, water, shown, gone, blind>>
Loader == <<accepting, landed, halts>>

\* resumeBulkLoaderAccept: the round robin reaches some of the replicas.
Resume(r) ==
  /\ starting[r] = "no" /\ starting' = [starting EXCEPT ![r] = "resumed"]
  /\ \E S \in SUBSET world.replicas : accepting' = accepting \cup S
  /\ UNCHANGED <<rec, work, flag, landed, halts, counted, Reports>>

\* captureBulkLoaderFlushBaseline, and startBulkIngestRun at once after it.
Start(r) ==
  /\ starting[r] = "resumed" /\ starting' = [starting EXCEPT ![r] = "started"]
  /\ \E seen \in SUBSET world.replicas, multi \in BOOLEAN :
       /\ multi => Cardinality(world.workers) > 1
       /\ rec' = [rec EXCEPT ![r] = [status |-> "running", sent |-> 0, base |-> Flushed(seen),
                                     multi |-> multi, cancelled |-> FALSE]]
       /\ work' = [work EXCEPT ![r] = [w \in world.workers |->
                     IF w \in (IF multi THEN world.workers ELSE {Lead})
                     THEN [NoWorker EXCEPT !.at = "on"] ELSE NoWorker]]
  /\ UNCHANGED <<flag, counted, Loader, Reports>>

On(r, w) == work[r][w].at = "on"
Set(r, w, new) == work' = [work EXCEPT ![r][w] = new]

\* An aborted producer: its POSTs are given up, and it sends no other.
Stopped(p) == [p EXCEPT !.posts = {}, !.failed = (@ \/ p.posts # {}), !.aborted = TRUE]

\* The row loop; a worker thread skips a first row that is not younger than the watermark,
\* which takes rows of another run flushed meanwhile.
Make(r, w) ==
  /\ On(r, w) /\ ~work[r][w].failed /\ work[r][w].made < Share(r)
  /\ LET n == work[r][w].made + 1
         p == [work[r][w] EXCEPT !.made = n]
     IN \/ ~p.aborted /\ Set(r, w, [p EXCEPT !.posts = @ \cup {<<n, 0>>}])
        \/ p.aborted /\ Set(r, w, [p EXCEPT !.failed = TRUE])
        \/ /\ rec[r].multi /\ n = 1 /\ \E x \in landed : x.flushed /\ x.run # r
           /\ Set(r, w, p)
  /\ UNCHANGED <<starting, rec, flag, counted, Loader, Reports>>

Landing(r, w, post, at) == [run |-> r, by |-> w, row |-> post[1], try |-> post[2], at |-> at, flushed |-> FALSE]

\* A replica takes the batch and its 202 arrives, or is lost and the batch is sent again.
Accept(r, w, post, at) ==
  /\ at \in accepting /\ landed' = landed \cup {Landing(r, w, post, at)}
  /\ Set(r, w, [work[r][w] EXCEPT !.posts = @ \ {post}, !.sent = @ \cup {post[1]}])
  /\ UNCHANGED <<starting, rec, flag, accepting, halts, counted, Reports>>

ReplyLost(r, w, post, at) ==
  /\ at \in accepting /\ landed' = landed \cup {Landing(r, w, post, at)} /\ post[2] < world.lost
  /\ Set(r, w, [work[r][w] EXCEPT !.posts = (@ \ {post}) \cup {<<post[1], post[2] + 1>>}])
  /\ UNCHANGED <<starting, rec, flag, accepting, halts, counted, Reports>>

\* Another 4xx is the producer's first error.
Rejected(r, w, post) ==
  /\ Set(r, w, [work[r][w] EXCEPT !.posts = @ \ {post}, !.failed = TRUE])
  /\ UNCHANGED <<starting, rec, flag, counted, Loader, Reports>>

\* add throws at once, flush and close when nothing is in flight; a worker thread tells, and
\* the others are stopped.
Throw(r, w) ==
  /\ On(r, w) /\ work[r][w].failed /\ (work[r][w].made < Share(r) \/ work[r][w].posts = {})
  /\ Set(r, w, [work[r][w] EXCEPT !.at = "error"])
  /\ flag' = flag \cup (IF rec[r].multi THEN {r} ELSE {})
  /\ UNCHANGED <<starting, rec, counted, Loader, Reports>>

\* worker.ts sees the raised flag within 50 ms and aborts its POSTs; nothing changes for a
\* producer that has no more to send.
AbortPoll(r, w) ==
  /\ On(r, w) /\ r \in flag /\ ~work[r][w].aborted
  /\ work[r][w].made < Share(r) \/ work[r][w].posts # {}
  /\ Set(r, w, Stopped(work[r][w]))
  /\ UNCHANGED <<starting, rec, flag, counted, Loader, Reports>>

\* The loop has ended, by its last row or at a look at the flag, and everything is sent.
Closed(r, w) ==
  /\ On(r, w) /\ ~work[r][w].failed /\ work[r][w].posts = {}
  /\ work[r][w].made = Share(r) \/ r \in flag \/ rec[r].cancelled
  /\ Set(r, w, [work[r][w] EXCEPT !.at = "done"])
  /\ UNCHANGED <<starting, rec, flag, counted, Loader, Reports>>

\* worker.terminate() takes effect: exit code 1.
Die(r, w) ==
  /\ work[r][w].at \in {"on", "error"} /\ rec[r].multi /\ rec[r].cancelled
  /\ Set(r, w, [work[r][w] EXCEPT !.at = "dead", !.posts = {}])
  /\ UNCHANGED <<starting, rec, flag, counted, Loader, Reports>>

\* A progress message, or the sampling of the inline loop.
Progress(r) ==
  /\ OnGoing(r) /\ rec' = [rec EXCEPT ![r].sent = Max({@, Sum(r, Team(r))})]
  /\ UNCHANGED <<starting, work, flag, counted, Loader, Reports>>

Ended(r, w) == \/ work[r][w].at \in {"done", "dead"}
               \/ work[r][w].at = "error" /\ (rec[r].multi => work[r][w].posts = {})
Failed(r) == \E w \in Team(r) : work[r][w].at \in {"error", "dead"}

Verdict(r) ==
  IF rec[r].multi
  THEN IF Failed(r) THEN "error" ELSE IF rec[r].cancelled \/ r \in flag THEN "cancelled" ELSE "done"
  ELSE IF rec[r].cancelled THEN "cancelled" ELSE IF Failed(r) THEN "error" ELSE "done"

Archived(r) == \E h \in DOMAIN history : history[h].run = r
Over(r) == archiving[r] # NoRun \/ Archived(r)

\* The executor's end: the record is final, and is archived and watched from now on.  A run in
\* the process does not wait for its other POSTs when one of them has failed.
FinishRun(r) ==
  /\ starting[r] = "started" /\ Listed(r) /\ ~Over(r)
  /\ \A w \in Team(r) : Ended(r, w)
  /\ LET final == [rec[r] EXCEPT !.status = Verdict(r),
                     !.sent = Sum(r, IF rec[r].multi THEN {w \in world.workers : work[r][w].at = "done"}
                                     ELSE {Lead})]
     IN rec' = [rec EXCEPT ![r] = final] /\ archiving' = [archiving EXCEPT ![r] = final]
  /\ counted' = counted \cup {<<r, c[1], c[2]>> : c \in SentBy(r, world.workers)}
  /\ UNCHANGED <<starting, work, flag, history, water, shown, gone, blind, Loader>>

\* archiveBulkRunHistory: the counters have answered, or the status is missing.
Archive(r) ==
  /\ archiving[r] # NoRun
  /\ \E seen \in SUBSET world.replicas :
       LET written == Max({0, Flushed(seen) - archiving[r].base})
       IN history' = <<[run |-> r, status |-> archiving[r].status, sent |-> archiving[r].sent,
                        written |-> Min({world.rows, Max({written, archiving[r].sent})})]>> \o history
  /\ archiving' = [archiving EXCEPT ![r] = NoRun]
  /\ UNCHANGED <<starting, rec, work, flag, water, shown, gone, blind, counted, Loader>>

\* scheduleRunRemoval: the probes it hears find nothing in flight and enough flushed.
Remove_InFlightOnly(r) ==
  /\ Listed(r) /\ Over(r)
  /\ \E seen \in SUBSET world.replicas :
       /\ computeRowsWritten(r, seen) >= Min({rec[r].sent, world.rows})
       /\ blind' = (blind \/ seen # world.replicas)
  /\ rec' = [rec EXCEPT ![r] = NoRun] /\ gone' = [gone EXCEPT ![r] = "drained"]
  /\ UNCHANGED <<starting, work, flag, archiving, history, water, shown, counted, Loader>>

Remove(r) ==
  /\ Listed(r) /\ Over(r)
  /\ \E seen \in SUBSET world.replicas :
       /\ Unflushed(seen) = 0 /\ computeRowsWritten(r, seen) >= Min({rec[r].sent, world.rows})
       /\ blind' = (blind \/ seen # world.replicas)
  /\ rec' = [rec EXCEPT ![r] = NoRun] /\ gone' = [gone EXCEPT ![r] = "drained"]
  /\ UNCHANGED <<starting, work, flag, archiving, history, water, shown, counted, Loader>>

\* ... or the watch of thirty minutes is over.
Expire(r) ==
  /\ Listed(r) /\ Over(r)
  /\ rec' = [rec EXCEPT ![r] = NoRun] /\ gone' = [gone EXCEPT ![r] = "expired"]
  /\ UNCHANGED <<starting, work, flag, archiving, history, water, shown, blind, counted, Loader>>

\* applyBulkRunCancel: an inline producer is aborted, worker threads are told and terminated.
Aborted(r) ==
  IF rec[r].multi THEN work[r] ELSE [work[r] EXCEPT ![Lead] = Stopped(@)]

CancelSet(S) ==
  /\ rec' = [r \in world.runs |->
               IF r \in S THEN [rec[r] EXCEPT !.status = "cancelled", !.cancelled = TRUE] ELSE rec[r]]
  /\ flag' = flag \cup {r \in S : rec[r].multi}
  /\ work' = [r \in world.runs |-> IF r \in S THEN Aborted(r) ELSE work[r]]
  /\ halts < world.halts /\ halts' = halts + 1
  /\ UNCHANGED <<starting, accepting, landed, counted, Reports>>

\* POST /ingest/bulk/cancel, and cancelAllBulkRuns for every running run.
CancelRun == \E r \in world.runs : OnGoing(r) /\ CancelSet({r})
\* Mutant: a cancel-all takes every listed run for one that goes on.
CancelAllRuns_AnyStatus ==
  LET S == {r \in world.runs : Listed(r) /\ ~rec[r].cancelled} IN S # {} /\ CancelSet(S)

CancelAllRuns ==
  LET S == {r \in world.runs : OnGoing(r) /\ ~rec[r].cancelled} IN S # {} /\ CancelSet(S)

\* haltBulkLoaderAccept, in the background: /load/stop reaches some of the replicas.
HaltLands ==
  /\ halts > 0 /\ halts' = halts - 1
  /\ \E S \in SUBSET world.replicas : accepting' = accepting \ S
  /\ UNCHANGED <<starting, rec, work, flag, landed, counted, Reports>>

\* External: a replica flushes a batch.
Flush(x) ==
  /\ ~x.flushed /\ landed' = (landed \ {x}) \cup {[x EXCEPT !.flushed = TRUE]}
  /\ UNCHANGED <<starting, rec, work, flag, accepting, halts, counted, Reports>>

\* computeRunPhase for a run whose counters say `written'.
Writing(r, written, seen) ==
  \/ rec[r].sent >= world.rows
  \/ rec[r].status = "cancelled" /\ Unflushed(seen) > 0

\* stabilizeRunRowsWritten: until all rows are sent, what was sent stands for what is written.
Stable_Raw(r, seen) ==
  LET written == Min({world.rows, computeRowsWritten(r, seen)})
  IN Min({world.rows, IF Writing(r, written, seen) THEN IF written > 0 THEN written ELSE rec[r].sent
                ELSE Max({rec[r].sent, written})})

Stable(r, seen) ==
  LET written == Min({world.rows, computeRowsWritten(r, seen)})
      raw == IF Writing(r, written, seen) THEN IF written > 0 THEN written ELSE rec[r].sent
             ELSE Max({rec[r].sent, written})
  IN Max({water[r], Min({world.rows, raw})})

\* A poll of GET /ingest/snapshot or of the list of runs.
Poll ==
  /\ \E seen \in SUBSET world.replicas :
       /\ shown' = [r \in world.runs |-> IF Listed(r) THEN Stable(r, seen) ELSE shown[r]]
       /\ water' = [r \in world.runs |-> IF Listed(r) THEN IF OnGoing(r) THEN Stable(r, seen) ELSE 0
                                   ELSE water[r]]
  /\ UNCHANGED <<starting, rec, work, flag, archiving, history, gone, counted, blind, Loader>>

Posting(r, w) ==
  \E post \in work[r][w].posts :
    \/ \E at \in world.replicas : Accept(r, w, post, at) \/ ReplyLost(r, w, post, at)
    \/ Rejected(r, w, post)
WorkerStep(r, w) ==
  Make(r, w) \/ Throw(r, w) \/ AbortPoll(r, w) \/ Closed(r, w) \/ Die(r, w) \/ Posting(r, w)
BulkStep(r) == Resume(r) \/ Start(r) \/ Progress(r) \/ FinishRun(r) \/ Archive(r) \/ Remove(r) \/ Expire(r)
RNext ==
  /\ UNCHANGED world
  /\ \/ \E r \in world.runs : BulkStep(r) \/ \E w \in world.workers : WorkerStep(r, w)
     \/ CancelRun \/ CancelAllRuns \/ HaltLands \/ Poll \/ \E x \in landed : Flush(x)

RSpec == RInit /\ [][RNext]_rvars

-----------------------------------------------------------------------------
(* Types *)

Statuses == {"none", "running", "done", "error", "cancelled"}
RunRecord == [status : Statuses, sent : Nat, base : Nat, multi : BOOLEAN, cancelled : BOOLEAN]
Producer == [at : {"off", "on", "done", "error", "dead"}, made : Nat, posts : SUBSET (Nat \X Nat),
             sent : SUBSET Nat, failed : BOOLEAN, aborted : BOOLEAN]
Batch == [run : world.runs, by : world.workers, row : Nat, try : Nat, at : world.replicas,
          flushed : BOOLEAN]

Entry == [run : world.runs, status : Statuses, sent : Nat, written : Nat]

(* Every variable has its type, and the loaders hold finitely many batches. *)
RTypeOK ==
  /\ world \in Worlds
  /\ starting \in [world.runs -> {"no", "resumed", "started"}] /\ rec \in [world.runs -> RunRecord]
  /\ work \in [world.runs -> [world.workers -> Producer]] /\ flag \subseteq world.runs
  /\ accepting \subseteq world.replicas /\ landed \subseteq Batch /\ IsFiniteSet(landed) /\ halts \in Nat
  /\ archiving \in [world.runs -> RunRecord]
  /\ history \in Seq(Entry)
  /\ water \in [world.runs -> Nat] /\ shown \in [world.runs -> Nat]
  /\ gone \in [world.runs -> {"no", "drained", "expired"}]
  /\ counted \subseteq world.runs \X world.workers \X Nat /\ blind \in BOOLEAN

-----------------------------------------------------------------------------
(* Properties *)

(* A run that is over is over: when it ended done or cancelled it has no   *)
(* POST of its own left, and nothing of it reaches a replica any more      *)
(* (applyBulkRunCancel, producer.close); it is archived once, and its      *)
(* archive and its record agree from then on (BulkRunRegistry).            *)
EndedIsOver ==
  /\ \A r \in world.runs : Archived(r) /\ Listed(r) /\ rec[r].status \in {"done", "cancelled"} =>
       \A w \in world.workers : work[r][w].posts = {}
  /\ \A h \in DOMAIN history :
       /\ \A g \in DOMAIN history : history[g].run = history[h].run => g = h
       /\ LET r == history[h].run
          IN Listed(r) => rec[r].status = history[h].status /\ rec[r].sent = history[h].sent

(* A record leaves the list before its time is over only when every batch  *)
(* counted by the end of its run is flushed, unless the probes missed a    *)
(* replica (scheduleRunRemoval).  The POSTs a run in the process still had *)
(* in flight when it ended in an error are in no count, and may land after *)
(* the record has left.                                                    *)
RemovedIsDrained ==
  \A r \in world.runs : gone[r] = "drained" /\ ~blind =>
    \A c \in counted : c[1] = r =>
      \E x \in landed : x.flushed /\ <<x.run, x.by, x.row>> = c

(* What polls report as written never falls while the run is running,      *)
(* whichever replicas each of them reached (stabilizeRunRowsWritten).      *)
ShownStays ==
  \A r \in world.runs : OnGoing(r) /\ rec'[r].status = "running" => shown'[r] >= shown[r]
ShownNeverFalls == [][ShownStays]_rvars

=============================================================================
