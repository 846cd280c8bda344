----------------------------- MODULE CalcRegistry -----------------------------
(***************************************************************************)
(* The calculation routes of the api (routes/calc.ts) behind the admission *)
(* of Backpressure, and what the operator is shown of them: the registry   *)
(* of running calculations (calc/calc-jobs.ts) and the ring of recent runs *)
(* (calc/recent-runs.ts).  What a calculation computes is in CalcCache.    *)
(***************************************************************************)
EXTENDS Backpressure, Sequences

CONSTANTS
  Redis,      \* Redis targets the operator switches between
  Cells,      \* cells of a POST /calc/sbm/total (27 in the code)
  Capacity,   \* entries the ring keeps
  MaxJobs,    \* bound: entries of the registry
  MaxSwitch   \* bound: target switches

ASSUME CalcAssumption == Cells \in Nat \ {0} /\ Capacity \in Nat

VARIABLES
  active,     \* the active target
  calc,       \* the calculation of each request
  jobs,       \* the registry of calculations: one entry for each job id
  recent,     \* the ring of recent runs, newest first: the target of each
  switches

rvars == <<active, calc, jobs, recent, switches>>
allvars == <<vars, rvars>>

NoTarget == "no target"
NoCalc == [route |-> "none", on |-> NoTarget, left |-> 0]

\* A job is named by its request and by whether that request is over.
Job == [r : Request, over : BOOLEAN, status : {"running", "done", "error"}, done : 0..Cells]

RInit ==
  /\ Init
  /\ active \in Redis /\ switches = 0
  /\ calc = [r \in Request |-> NoCalc] /\ jobs = {} /\ recent = <<>>

Underway(r) == calc[r].route # "none"
JobsOf(r) == {j \in jobs : j.r = r /\ ~j.over}

\* startCalcJob, once body and query are valid; /calc/sbm/bucket has no job.
StartCalc(r, route) ==
  /\ Admit(r, "heavy") /\ Cardinality(jobs) < MaxJobs
  /\ calc' = [calc EXCEPT ![r] =
       [route |-> route, on |-> NoTarget, left |-> IF route = "total" THEN Cells ELSE 1]]
  /\ jobs' = IF route = "bucket" THEN jobs
             ELSE jobs \cup {[r |-> r, over |-> FALSE, status |-> "running", done |-> 0]}
  /\ UNCHANGED <<active, recent, switches>>

\* getRedis resolves.
GotRedis(r) ==
  /\ Underway(r) /\ calc[r].on = NoTarget
  /\ calc' = [calc EXCEPT ![r].on = active]
  /\ UNCHANGED <<vars, active, jobs, recent, switches>>

\* Mutant: an entry the switch removed is put back.
updateCalcJob_Upsert(r, n) ==
  IF calc[r].route = "bucket" THEN jobs
  ELSE (jobs \ JobsOf(r)) \cup {[r |-> r, over |-> FALSE, status |-> "running", done |-> n]}

\* Only an entry that is still there is updated.
updateCalcJob(r, n) ==
  (jobs \ JobsOf(r)) \cup {[j EXCEPT !.done = n] : j \in JobsOf(r)}

\* The next cell (or the fan-out of the only one) is done.
CellDone(r) ==
  /\ Underway(r) /\ calc[r].on # NoTarget /\ calc[r].left > 0
  /\ calc' = [calc EXCEPT ![r].left = @ - 1]
  /\ jobs' = updateCalcJob(r, IF calc[r].route = "total" THEN Cells - calc'[r].left ELSE 1)
  /\ UNCHANGED <<vars, active, recent, switches>>

finishCalcJob(r, st) ==
  (jobs \ JobsOf(r)) \cup {[j EXCEPT !.status = st, !.over = TRUE] : j \in JobsOf(r)}

\* pushRecentRun, pushRecentFailure.
Pushed(t) == SubSeq(<<t>> \o recent, 1, IF Len(recent) < Capacity THEN Len(recent) + 1 ELSE Capacity)

\* The calculation is done, or failed with a status: job and ring say so.
Respond(r, st) ==
  /\ Underway(r) /\ calc[r].on # NoTarget
  /\ st = "error" \/ calc[r].left = 0
  /\ onResponse(r)
  /\ calc' = [calc EXCEPT ![r] = NoCalc]
  /\ IF calc[r].route = "bucket" THEN UNCHANGED <<jobs, recent>>
     ELSE jobs' = finishCalcJob(r, st) /\ recent' = Pushed(calc[r].on)
  /\ UNCHANGED <<active, switches>>

\* No client could be built, or a Redis error without a translation: the
\* handler throws past finishCalcJob.
Throws(r) ==
  /\ Underway(r) /\ calc[r].left > 0
  /\ onResponse(r)
  /\ calc' = [calc EXCEPT ![r] = NoCalc]
  /\ jobs' = (jobs \ JobsOf(r)) \cup {[j EXCEPT !.over = TRUE] : j \in JobsOf(r)}
  /\ UNCHANGED <<active, recent, switches>>

\* TERMINAL_GRACE_MS after finishCalcJob.
JobExpires(j) ==
  /\ j \in jobs /\ j.status # "running"
  /\ jobs' = jobs \ {j}
  /\ UNCHANGED <<vars, active, calc, recent, switches>>

\* commitActiveTargetSync runs the listeners of the registry and of the ring.
SwitchTarget(t) ==
  /\ switches < MaxSwitch /\ t # active
  /\ switches' = switches + 1
  /\ active' = t /\ jobs' = {} /\ recent' = <<>>
  /\ UNCHANGED <<vars, calc>>

\* Requests of other routes, invalid bodies, refusals, clients that go away.
OtherRequest(r) ==
  /\ UNCHANGED rvars
  /\ \/ Exempt(r) \/ onRequestAbort(r)
     \/ \E cat \in Bucket : Refuse(r, cat) \/ Admit(r, cat)
     \/ ~Underway(r) /\ onResponse(r)

CalcStep(r) ==
  \/ \E route \in {"sbm", "total", "bucket"} : StartCalc(r, route)
  \/ GotRedis(r) \/ CellDone(r) \/ Throws(r)
  \/ \E st \in {"done", "error"} : Respond(r, st)

RNext ==
  \/ \E r \in Request : OtherRequest(r) \/ CalcStep(r)
  \/ \E j \in jobs : JobExpires(j)
  \/ \E t \in Redis : SwitchTarget(t)

RSpec == RInit /\ [][RNext]_allvars

-------------------------------------------------------------------------------
(* Properties *)

RTypeOK ==
  /\ TypeOK
  /\ active \in Redis /\ jobs \subseteq Job /\ recent \in Seq(Redis) /\ Len(recent) <= Capacity
  /\ calc \in [Request -> [route : {"none", "sbm", "total", "bucket"},
                           on : Redis \cup {NoTarget}, left : 0..Cells]]

\* The progress the operator polls is of the request's own run, and a
\* switch that emptied the registry is not undone by the calculations it
\* overtook.
ProgressIsOwn ==
  \A j \in jobs : ~j.over =>
    /\ Underway(j.r) /\ Cardinality(JobsOf(j.r)) = 1
    /\ calc[j.r].on \in {NoTarget, active}

===============================================================================
