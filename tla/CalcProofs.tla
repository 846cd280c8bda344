------------------------------ MODULE CalcProofs ------------------------------
(***************************************************************************)
(* Request admission (Backpressure), for any requests, however many there  *)
(* are, and any limits; the registry of running calculations behind it,    *)
(* for any number of requests, jobs, cells and target switches; the        *)
(* response cache under any switches and flushes; and the rows of a        *)
(* charge, for requests with any filters.                                  *)
(***************************************************************************)
EXTENDS CalcRegistry, CalcCache, CalcPath, FiniteSetTheorems, TLAPS

-------------------------------------------------------------------------------
(* Admission: what holds of Backpressure *)

\* The holders of a bucket are finitely many and the counter counts them.
Counted ==
  \A b \in Bucket : IsFiniteSet(Holders(b)) /\ state[b] = Cardinality(Holders(b))

\* Giving a slot back keeps the types, and with them the guard of release
\* against a negative counter.
LEMMA ReleaseType ==
  ASSUME TypeOK, NEW r \in Request, release(r)
  PROVE  /\ state' \in [Bucket -> Nat]
         /\ slot' \in [Request -> Bucket \cup {"none"}]
         /\ slot'[r] = "none"
         /\ \A q \in Request : q # r => slot'[q] = slot[q]
  BY DEF TypeOK, release, Bucket

\* Every variable of the admission keeps its type, and a request without a
\* handler holds no slot.
THEOREM TypeCorrect == Spec => []TypeOK
<1>1. Init => TypeOK
  BY DEF Init, TypeOK, Category
<1>2. TypeOK /\ [Next]_vars => TypeOK'
  <2> SUFFICES ASSUME TypeOK, [Next]_vars PROVE TypeOK'
    OBVIOUS
  <2>1. ASSUME NEW r \in Request, Exempt(r) PROVE TypeOK'
    BY <2>1 DEF Exempt, TypeOK, Category
  <2>2. ASSUME NEW r \in Request, NEW cat \in Bucket, Refuse(r, cat) PROVE TypeOK'
    BY <2>2 DEF Refuse, TypeOK, Category
  <2>3. ASSUME NEW r \in Request, NEW cat \in Bucket, Admit(r, cat) PROVE TypeOK'
    BY <2>3 DEF Admit, TypeOK, Category
  <2>4. ASSUME NEW r \in Request, onRequestAbort(r) PROVE TypeOK'
    BY <2>4, ReleaseType DEF onRequestAbort, TypeOK
  <2>5. ASSUME NEW r \in Request, onResponse(r) PROVE TypeOK'
    BY <2>5, ReleaseType DEF onResponse, TypeOK
  <2>6. CASE UNCHANGED vars
    BY <2>6 DEF vars, TypeOK
  <2> QED
    BY <2>1, <2>2, <2>3, <2>4, <2>5, <2>6 DEF Next
<1>3. QED
  BY <1>1, <1>2, PTL DEF Spec

\* Giving a slot back moves the counter and the holders of its bucket together,
\* and does nothing when the slot is gone already: the second of the two hooks.
LEMMA ReleaseCounts ==
  ASSUME TypeOK, Counted, NEW r \in Request, release(r)
  PROVE  Counted'
<1>1. CASE slot[r] \notin Bucket
  BY <1>1 DEF release, Counted, Holders
<1>2. CASE slot[r] \in Bucket
  <2> SUFFICES ASSUME NEW b \in Bucket
               PROVE  IsFiniteSet(Holders(b)') /\ state'[b] = Cardinality(Holders(b)')
    BY DEF Counted
  <2>1. CASE b = slot[r]
    <3>1. r \in Holders(b) /\ Holders(b)' = Holders(b) \ {r}
      BY <1>2, <2>1 DEF release, TypeOK, Holders, Bucket
    <3>2. /\ IsFiniteSet(Holders(b)')
          /\ Cardinality(Holders(b)') = Cardinality(Holders(b)) - 1
      BY <3>1, FS_RemoveElement DEF Counted
    <3>3. Cardinality(Holders(b)) \in Nat \ {0}
      BY <3>1, FS_CardinalityType, FS_EmptySet DEF Counted
    <3> QED
      BY <1>2, <2>1, <3>2, <3>3 DEF release, TypeOK, Counted
  <2>2. CASE b # slot[r]
    <3>1. Holders(b)' = Holders(b)
      BY <1>2, <2>2 DEF release, TypeOK, Holders, Bucket
    <3> QED
      BY <1>2, <2>2, <3>1 DEF release, TypeOK, Counted
  <2> QED
    BY <2>1, <2>2
<1> QED
  BY <1>1, <1>2

\* Admission takes a slot for a request that had none: only such requests are
\* in front of the preHandler.
LEMMA AdmitCounts ==
  ASSUME TypeOK, Counted, NEW r \in Request, NEW cat \in Bucket, Admit(r, cat)
  PROVE  Counted'
<1> SUFFICES ASSUME NEW b \in Bucket
             PROVE  IsFiniteSet(Holders(b)') /\ state'[b] = Cardinality(Holders(b)')
  BY DEF Counted
<1>1. slot[r] = "none"
  BY DEF Admit, TypeOK
<1>2. CASE b = cat
  <2>1. r \notin Holders(b) /\ Holders(b)' = Holders(b) \cup {r}
    BY <1>1, <1>2 DEF Admit, TypeOK, Holders, Bucket
  <2>2. IsFiniteSet(Holders(b)') /\ Cardinality(Holders(b)') = Cardinality(Holders(b)) + 1
    BY <2>1, FS_AddElement DEF Counted
  <2> QED
    BY <1>2, <2>2 DEF Admit, TypeOK, Counted
<1>3. CASE b # cat
  <2>1. Holders(b)' = Holders(b)
    BY <1>1, <1>3 DEF Admit, TypeOK, Holders, Bucket
  <2> QED
    BY <1>3, <2>1 DEF Admit, TypeOK, Counted
<1> QED
  BY <1>2, <1>3

\* The counter of a bucket counts its holders in every reachable state.
LEMMA AlwaysCounted == Spec => []Counted
<1>1. Init => Counted
  BY FS_EmptySet DEF Init, Counted, Holders, Bucket
<1>2. TypeOK /\ Counted /\ [Next]_vars => Counted'
  <2> SUFFICES ASSUME TypeOK, Counted, [Next]_vars PROVE Counted'
    OBVIOUS
  <2>1. ASSUME UNCHANGED <<state, slot>> PROVE Counted'
    BY <2>1 DEF Counted, Holders
  <2> QED
    BY <2>1, ReleaseCounts, AdmitCounts
       DEF Next, Exempt, Refuse, onRequestAbort, onResponse, vars
<1> QED
  BY <1>1, <1>2, TypeCorrect, PTL DEF Spec

\* However replies, aborts, admissions and refusals interleave, no slot leaks
\* and none is given back twice.
THEOREM SlotsCounted == Spec => []CountersAreSlots
<1>1. Counted => CountersAreSlots
  BY DEF Counted, CountersAreSlots
<1> QED
  BY <1>1, AlwaysCounted, PTL

\* No bucket exceeds its limit, whatever the limits.
THEOREM LimitsKept == Spec => []WithinLimits
<1>1. Init => WithinLimits
  BY LimitAssumption DEF Init, WithinLimits, limit, Bucket
<1>2. TypeOK /\ WithinLimits /\ [Next]_vars => WithinLimits'
  <2> SUFFICES ASSUME TypeOK, WithinLimits, [Next]_vars PROVE WithinLimits'
    OBVIOUS
  <2>1. ASSUME NEW r \in Request, release(r) PROVE WithinLimits'
    BY <2>1, LimitAssumption DEF release, TypeOK, WithinLimits, limit
  <2>2. ASSUME NEW r \in Request, NEW cat \in Bucket, Admit(r, cat) PROVE WithinLimits'
    BY <2>2, LimitAssumption DEF Admit, TypeOK, WithinLimits, limit
  <2>3. ASSUME UNCHANGED state PROVE WithinLimits'
    BY <2>3 DEF WithinLimits, limit
  <2> QED
    BY <2>1, <2>2, <2>3 DEF Next, Exempt, Refuse, onRequestAbort, onResponse, vars
<1> QED
  BY <1>1, <1>2, TypeCorrect, PTL DEF Spec

-------------------------------------------------------------------------------
(* The calculation routes *)

\* A step is one of these actions: the frame of the proofs by cases below.
LEMMA NextCases ==
  ASSUME [RNext]_allvars
  PROVE  \/ \E r \in Request : OtherRequest(r)
         \/ \E r \in Request, route \in {"sbm", "total", "bucket"} : StartCalc(r, route)
         \/ \E r \in Request : GotRedis(r)
         \/ \E r \in Request : CellDone(r)
         \/ \E r \in Request : Throws(r)
         \/ \E r \in Request, st \in {"done", "error"} : Respond(r, st)
         \/ \E j \in jobs : JobExpires(j)
         \/ \E t \in Redis : SwitchTarget(t)
         \/ UNCHANGED allvars
  BY DEF RNext, CalcStep

\* The calculation routes take and give back their slots as any request does:
\* every step is one of the admission or leaves it alone.
THEOREM CalcKeepsAdmission == RSpec => Spec
<1>1. RInit => Init
  BY DEF RInit
<1>2. [RNext]_allvars => [Next]_vars
  <2> SUFFICES ASSUME [RNext]_allvars PROVE [Next]_vars
    OBVIOUS
  <2>1. "heavy" \in Bucket
    BY DEF Bucket
  <2> QED
    BY <2>1, NextCases
       DEF Next, OtherRequest, StartCalc, GotRedis, CellDone, Throws, Respond, JobExpires,
           SwitchTarget, allvars
<1> QED
  BY <1>1, <1>2, PTL DEF RSpec, Spec

-------------------------------------------------------------------------------
\* RTypeOK without the admission.
CalcTypes ==
  /\ active \in Redis /\ jobs \subseteq Job /\ recent \in Seq(Redis) /\ Len(recent) <= Capacity
  /\ calc \in [Request -> [route : {"none", "sbm", "total", "bucket"},
                           on : Redis \cup {NoTarget}, left : 0..Cells]]

\* The ring keeps the newest runs, and no more of them than it may hold.
LEMMA PushedType ==
  ASSUME CalcTypes, NEW t \in Redis
  PROVE  Pushed(t) \in Seq(Redis) /\ Len(Pushed(t)) <= Capacity
<1> DEFINE n == IF Len(recent) < Capacity THEN Len(recent) + 1 ELSE Capacity
<1>1. <<t>> \o recent \in Seq(Redis) /\ Len(<<t>> \o recent) = Len(recent) + 1
  BY DEF CalcTypes
<1>2. n \in Nat /\ n <= Len(recent) + 1 /\ n <= Capacity
  BY CalcAssumption DEF CalcTypes
<1>3. SubSeq(<<t>> \o recent, 1, n) \in Seq(Redis) /\ Len(SubSeq(<<t>> \o recent, 1, n)) = n
  BY <1>1, <1>2
<1> QED
  BY <1>2, <1>3 DEF Pushed

\* What an update of progress or an end makes of the entries of the registry.
LEMMA UpdatedJobs ==
  ASSUME CalcTypes, NEW r \in Request, NEW n \in 0..Cells
  PROVE  updateCalcJob(r, n) \subseteq Job
<1>1. ASSUME NEW j \in Job PROVE [j EXCEPT !.done = n] \in Job
  BY DEF Job
<1> QED
  BY <1>1 DEF updateCalcJob, JobsOf, CalcTypes

\* No step of a calculation leaves the types.
LEMMA CalcTypesStep ==
  ASSUME CalcTypes, [RNext]_allvars
  PROVE  CalcTypes'
<1> USE DEF CalcTypes
<1>1. ASSUME NEW r \in Request, OtherRequest(r) PROVE CalcTypes'
  BY <1>1 DEF OtherRequest, rvars
<1>2. ASSUME NEW r \in Request, NEW route \in {"sbm", "total", "bucket"}, StartCalc(r, route)
      PROVE  CalcTypes'
  <2>1. jobs' \subseteq Job
    <3>1. [r |-> r, over |-> FALSE, status |-> "running", done |-> 0] \in Job
      BY CalcAssumption DEF Job
    <3> QED
      BY <1>2, <3>1 DEF StartCalc
  <2>2. (IF route = "total" THEN Cells ELSE 1) \in 0..Cells
    BY CalcAssumption
  <2>3. calc' \in [Request -> [route : {"none", "sbm", "total", "bucket"},
                               on : Redis \cup {NoTarget}, left : 0..Cells]]
    BY <1>2, <2>2 DEF StartCalc
  <2>4. UNCHANGED <<active, recent>>
    BY <1>2 DEF StartCalc
  <2> QED
    BY <2>1, <2>3, <2>4
<1>3. ASSUME NEW r \in Request, GotRedis(r) PROVE CalcTypes'
  BY <1>3 DEF GotRedis
<1>4. ASSUME NEW r \in Request, CellDone(r) PROVE CalcTypes'
  <2>1. calc[r].left - 1 \in 0..Cells
    BY <1>4, CalcAssumption DEF CellDone
  <2>2. calc' \in [Request -> [route : {"none", "sbm", "total", "bucket"},
                               on : Redis \cup {NoTarget}, left : 0..Cells]]
    BY <1>4, <2>1 DEF CellDone
  <2>3. (IF calc[r].route = "total" THEN Cells - calc'[r].left ELSE 1) \in 0..Cells
    BY <2>2, CalcAssumption
  <2>4. jobs' \subseteq Job
    BY <1>4, <2>3, UpdatedJobs DEF CellDone
  <2>5. UNCHANGED <<active, recent>>
    BY <1>4 DEF CellDone
  <2> QED
    BY <2>2, <2>4, <2>5
<1>5. NoCalc \in [route : {"none"}, on : {NoTarget}, left : {0}] /\ 0 \in 0..Cells
  BY CalcAssumption DEF NoCalc
<1>6. ASSUME NEW r \in Request, Throws(r) PROVE CalcTypes'
  <2>1. jobs' \subseteq Job
    BY <1>6 DEF Throws, JobsOf, Job
  <2> QED
    BY <1>5, <1>6, <2>1 DEF Throws
<1>7. ASSUME NEW r \in Request, NEW st \in {"done", "error"}, Respond(r, st) PROVE CalcTypes'
  <2>1. finishCalcJob(r, st) \subseteq Job
    BY DEF finishCalcJob, JobsOf, Job
  <2>2. calc[r].on \in Redis
    BY <1>7 DEF Respond
  <2>3. jobs' \subseteq Job /\ recent' \in Seq(Redis) /\ Len(recent') <= Capacity
    BY <1>7, <2>1, <2>2, PushedType DEF Respond
  <2> QED
    BY <1>5, <1>7, <2>3 DEF Respond
<1>8. ASSUME NEW j \in jobs, JobExpires(j) PROVE CalcTypes'
  BY <1>8 DEF JobExpires
<1>9. ASSUME NEW t \in Redis, SwitchTarget(t) PROVE CalcTypes'
  <2>1. <<>> \in Seq(Redis) /\ Len(<<>>) <= Capacity
    BY CalcAssumption
  <2> QED
    BY <1>9, <2>1 DEF SwitchTarget
<1>10. CASE UNCHANGED allvars
  BY <1>10 DEF allvars, rvars
<1> QED
  BY <1>1, <1>2, <1>3, <1>4, <1>6, <1>7, <1>8, <1>9, <1>10, NextCases

\* Every variable of the calculation routes keeps its type: progress stays
\* within the cells of the request and the ring within its capacity.
THEOREM CalcTypeCorrect == RSpec => []RTypeOK
<1>1. RInit => CalcTypes
  BY CalcAssumption DEF RInit, CalcTypes, NoCalc
<1>2. CalcTypes /\ [RNext]_allvars => CalcTypes'
  BY CalcTypesStep
<1>3. CalcTypes /\ TypeOK => RTypeOK
  BY DEF CalcTypes, RTypeOK
<1> QED
  BY <1>1, <1>2, <1>3, CalcKeepsAdmission, TypeCorrect, PTL DEF RSpec

-------------------------------------------------------------------------------
\* A calculation runs inside the handler of its request.
RunsInHandler == \A r \in Request : Underway(r) => handler[r] = "running"

\* An entry that is not over is the only one of its request, whose calculation
\* has not moved to another target than the active one.
OwnEntry ==
  \A j \in jobs : ~j.over =>
    /\ calc[j.r].route \in {"sbm", "total"} /\ calc[j.r].on \in {NoTarget, active}
    /\ \A k \in jobs : ~k.over /\ k.r = j.r => k = j

\* A calculation under way stays one whose request is being handled.
LEMMA HandlerStep ==
  ASSUME TypeOK, CalcTypes, RunsInHandler, [RNext]_allvars
  PROVE  RunsInHandler'
<1> USE DEF TypeOK, CalcTypes, RunsInHandler, Underway
<1>1. ASSUME NEW r \in Request, OtherRequest(r) PROVE RunsInHandler'
  BY <1>1 DEF OtherRequest, rvars, Exempt, onRequestAbort, Refuse, Admit, onResponse
<1>2. ASSUME NEW r \in Request, NEW route \in {"sbm", "total", "bucket"}, StartCalc(r, route)
      PROVE  RunsInHandler'
  BY <1>2 DEF StartCalc, Admit
<1>3. ASSUME NEW r \in Request, GotRedis(r) \/ CellDone(r) PROVE RunsInHandler'
  BY <1>3 DEF GotRedis, CellDone, vars
<1>4. ASSUME NEW r \in Request, Throws(r) \/ \E st \in {"done", "error"} : Respond(r, st)
      PROVE  RunsInHandler'
  <2>1. calc' = [calc EXCEPT ![r] = NoCalc] /\ handler' = [handler EXCEPT ![r] = "idle"]
    BY <1>4 DEF Throws, Respond, onResponse
  <2> QED
    BY <2>1 DEF NoCalc
<1>5. CASE UNCHANGED <<calc, handler>>
  BY <1>5
<1> QED
  BY <1>1, <1>2, <1>3, <1>4, <1>5, NextCases DEF JobExpires, SwitchTarget, allvars, vars, rvars

\* No step gives a request a second entry that is not over, or lets its
\* calculation go on after the target changed.
LEMMA OwnEntryStep ==
  ASSUME TypeOK, CalcTypes, RunsInHandler, OwnEntry, [RNext]_allvars
  PROVE  OwnEntry'
<1> USE DEF CalcTypes, OwnEntry
<1>1. ASSUME NEW r \in Request, OtherRequest(r) PROVE OwnEntry'
  BY <1>1 DEF OtherRequest, rvars
<1>2. ASSUME NEW r \in Request, NEW route \in {"sbm", "total", "bucket"}, StartCalc(r, route)
      PROVE  OwnEntry'
  <2>1. calc[r].route = "none"
    BY <1>2 DEF StartCalc, Admit, RunsInHandler, Underway
  <2>2. \A j \in jobs : ~j.over => j.r # r
    BY <2>1
  <2>3. /\ active' = active /\ \A q \in Request : q # r => calc'[q] = calc[q]
        /\ calc'[r].route = route /\ calc'[r].on = NoTarget
    BY <1>2 DEF StartCalc
  <2>4. CASE route = "bucket"
    BY <1>2, <2>2, <2>3, <2>4 DEF StartCalc, Job
  <2>5. CASE route # "bucket"
    <3> DEFINE new == [r |-> r, over |-> FALSE, status |-> "running", done |-> 0]
    <3>1. jobs' = jobs \cup {new} /\ new.r = r
      BY <1>2, <2>5 DEF StartCalc
    <3>2. route \in {"sbm", "total"}
      BY <2>5
    <3> HIDE DEF new
    <3> QED
      BY <2>2, <2>3, <3>1, <3>2 DEF Job
  <2> QED
    BY <2>4, <2>5
<1>3. ASSUME NEW r \in Request, GotRedis(r) PROVE OwnEntry'
  BY <1>3 DEF GotRedis, Job
<1>4. ASSUME NEW r \in Request, CellDone(r) PROVE OwnEntry'
  <2>1. PICK n : jobs' = updateCalcJob(r, n)
    BY <1>4 DEF CellDone
  <2>2. \A q \in Request : calc'[q].route = calc[q].route /\ calc'[q].on = calc[q].on
    BY <1>4 DEF CellDone
  <2>3. \A j \in jobs : LET k == [j EXCEPT !.done = n] IN k.r = j.r /\ k.over = j.over
    BY DEF Job
  <2>4. \A j \in jobs' : \E i \in jobs :
           /\ i.r = j.r /\ i.over = j.over
           /\ j = IF i.r = r /\ ~i.over THEN [i EXCEPT !.done = n] ELSE i
    <3> TAKE j \in jobs'
    <3>1. CASE j \in jobs \ JobsOf(r)
      BY <3>1 DEF JobsOf
    <3>2. CASE j \notin jobs \ JobsOf(r)
      <4>1. PICK i \in JobsOf(r) : j = [i EXCEPT !.done = n]
        BY <2>1, <3>2 DEF updateCalcJob
      <4>2. i \in jobs /\ i.r = r /\ ~i.over
        BY DEF JobsOf
      <4> QED
        BY <2>3, <4>1, <4>2
    <3> QED
      BY <3>1, <3>2
  <2>5. active' = active
    BY <1>4 DEF CellDone
  <2> QED
    BY <2>2, <2>4, <2>5 DEF Job
<1>5. ASSUME NEW r \in Request, calc' = [calc EXCEPT ![r] = NoCalc], active' = active,
             \A j \in jobs' : ~j.over => j \in jobs /\ j.r # r
      PROVE  OwnEntry'
  BY <1>5 DEF Job
<1>6. ASSUME NEW r \in Request, Throws(r) PROVE OwnEntry'
  <2>1. \A j \in jobs : [j EXCEPT !.over = TRUE].over
    BY DEF Job
  <2>2. \A j \in jobs' : ~j.over => j \in jobs /\ j.r # r
    <3> SUFFICES ASSUME NEW j \in jobs', j \notin jobs \ JobsOf(r) PROVE j.over
      BY DEF JobsOf
    <3>1. PICK i \in JobsOf(r) : j = [i EXCEPT !.over = TRUE]
      BY <1>6 DEF Throws
    <3> QED
      BY <2>1, <3>1 DEF JobsOf
  <2> QED
    BY <1>5, <1>6, <2>2 DEF Throws
<1>7. ASSUME NEW r \in Request, NEW st \in {"done", "error"}, Respond(r, st) PROVE OwnEntry'
  <2>1. \A j \in jobs : [j EXCEPT !.status = st, !.over = TRUE].over
    BY DEF Job
  <2>2. CASE calc[r].route = "bucket"
    BY <1>5, <1>7, <2>2 DEF Respond
  <2>3. CASE calc[r].route # "bucket"
    <3>1. jobs' = finishCalcJob(r, st)
      BY <1>7, <2>3 DEF Respond
    <3>2. \A j \in jobs' : ~j.over => j \in jobs /\ j.r # r
      <4> SUFFICES ASSUME NEW j \in jobs', j \notin jobs \ JobsOf(r) PROVE j.over
        BY DEF JobsOf
      <4>1. PICK i \in JobsOf(r) : j = [i EXCEPT !.status = st, !.over = TRUE]
        BY <3>1 DEF finishCalcJob
      <4> QED
        BY <2>1, <4>1 DEF JobsOf
    <3> QED
      BY <1>5, <1>7, <3>2 DEF Respond
  <2> QED
    BY <2>2, <2>3
<1>8. ASSUME NEW j \in jobs, JobExpires(j) PROVE OwnEntry'
  BY <1>8 DEF JobExpires
<1>9. ASSUME NEW t \in Redis, SwitchTarget(t) PROVE OwnEntry'
  BY <1>9 DEF SwitchTarget
<1>10. CASE UNCHANGED allvars
  BY <1>10 DEF allvars, rvars
<1> QED
  BY <1>1, <1>2, <1>3, <1>4, <1>6, <1>7, <1>8, <1>9, <1>10, NextCases

\* The progress polled for a request is of the run it has under way, on the
\* active target: an update that a switch overtook does not put back the entry
\* the switch removed.
THEOREM OwnProgress == RSpec => []ProgressIsOwn
<1>1. RInit => CalcTypes /\ RunsInHandler /\ OwnEntry
  BY CalcAssumption DEF RInit, CalcTypes, RunsInHandler, OwnEntry, Underway, NoCalc
<1>2. TypeOK /\ CalcTypes /\ RunsInHandler /\ OwnEntry /\ [RNext]_allvars
        => (CalcTypes /\ RunsInHandler /\ OwnEntry)'
  BY CalcTypesStep, HandlerStep, OwnEntryStep
<1>3. CalcTypes /\ OwnEntry => ProgressIsOwn
  <2> SUFFICES ASSUME CalcTypes, OwnEntry, NEW j \in jobs, ~j.over
               PROVE  /\ Underway(j.r) /\ Cardinality(JobsOf(j.r)) = 1
                      /\ calc[j.r].on \in {NoTarget, active}
    BY DEF ProgressIsOwn
  <2>1. JobsOf(j.r) = {j}
    BY DEF OwnEntry, JobsOf
  <2>2. Cardinality({j}) = 1
    BY FS_Singleton
  <2> QED
    BY <2>1, <2>2 DEF OwnEntry, Underway
<1> QED
  BY <1>1, <1>2, <1>3, CalcKeepsAdmission, TypeCorrect, PTL DEF RSpec

-------------------------------------------------------------------------------
(* The response cache *)

\* The states of a cell.
Cell == {"unused", "todo", "hit", "fanout", "done", "failed"}

\* What a request without a calculation has.
LEMMA Idle ==
  /\ 0 \in 0..MaxFlush /\ 0 \in Version
  /\ NoWork \in Work /\ NoWork.fan = "none" /\ ~NoWork.late /\ NoWork.on = Nowhere
<1>1. 0 \in 0..MaxFlush
  BY CacheAssumption
<1>2. NoCharge \in Charge \cup {NoCharge} /\ [g \in Regime |-> "unused"] \in [Regime -> Cell]
  BY DEF Cell
<1>3. NoWork \in Work
  BY <1>2, CacheAssumption DEF NoWork, Work, Cell
<1> QED
  BY <1>1, <1>3 DEF Version, NoWork

\* What a calculation knows of the target and of the data it reads.
Reads ==
  \A r \in Caller :
    /\ work[r].on # Nowhere /\ ~work[r].late => work[r].on = target
    /\ work[r].fan = "read" /\ ~work[r].late
         => work[r].got.t = work[r].on /\ work[r].got.d >= heard[work[r].on]

\* No charge is from before the cache was last cleared but the late ones, in the whole cache.
CachedIsFresh ==
  \A e \in cache : e.late \/ (e.charge.t = target /\ e.charge.d >= heard[target])

\* The cache has been told of no flush that was not.
HeardIsPast == \A t \in Server : heard[t] <= data[t]

CacheInv == CacheTypeOK /\ HeardIsPast /\ Reads /\ CachedIsFresh

\* One calculation moves on: what it says of its client and of its data holds of the
\* next state, hence for all of them.
LEMMA WorkMoves ==
  ASSUME CacheInv, NEW r \in Caller, NEW w \in Work, work' = [work EXCEPT ![r] = w],
         w.fan # "none" => w.on \in Server,
         w.fan = "read" => w.got \in Charge,
         w.on # Nowhere /\ ~w.late => w.on = target,
         w.fan = "read" /\ ~w.late => w.got.t = w.on /\ w.got.d >= heard[w.on],
         UNCHANGED <<target, data, stamp, heard, flush, retargets>>
  PROVE  /\ Reads' /\ work' \in [Caller -> Work]
         /\ \A x \in Caller : work'[x].fan # "none" => work'[x].on \in Server
         /\ \A x \in Caller : work'[x].fan = "read" => work'[x].got \in Charge
<1>1. /\ work \in [Caller -> Work]
      /\ \A x \in Caller : work[x].fan # "none" => work[x].on \in Server
      /\ \A x \in Caller : work[x].fan = "read" => work[x].got \in Charge
  BY DEF CacheInv, CacheTypeOK
<1>2. work' \in [Caller -> Work] /\ work'[r] = w /\ \A x \in Caller : x # r => work'[x] = work[x]
  BY <1>1
<1>3. Reads'
  BY <1>1, <1>2 DEF CacheInv, Reads
<1> QED
  BY <1>1, <1>2, <1>3

\* A cache that gets no new entry stays as fresh as it was.
LEMMA CacheStays ==
  ASSUME CacheInv, Reads', work' \in [Caller -> Work],
         \A x \in Caller : work'[x].fan # "none" => work'[x].on \in Server,
         \A x \in Caller : work'[x].fan = "read" => work'[x].got \in Charge,
         UNCHANGED <<target, data, stamp, heard, flush, retargets>>,
         dataVersion' \in Version \cup {NoVersion}, cache' \subseteq cache
  PROVE  CacheInv'
  BY DEF CacheInv, CacheTypeOK, HeardIsPast, CachedIsFresh

\* The parts of a calculation.
LEMMA WorkType ==
  ASSUME CacheInv, NEW r \in Caller
  PROVE  /\ work[r] \in Work
         /\ work[r].busy \in BOOLEAN /\ work[r].q \in Question /\ work[r].on \in Server \cup {Nowhere}
         /\ work[r].cell \in [Regime -> Cell] /\ work[r].got \in Charge \cup {NoCharge}
         /\ work[r].fan \in {"none", "running", "read", "failed"} /\ work[r].late \in BOOLEAN
  BY DEF CacheInv, CacheTypeOK, Work, Cell

\* A step of one calculation that leaves the cache alone.
LEMMA OnlyWork ==
  ASSUME CacheInv, NEW r \in Caller, NEW w \in Work, work' = [work EXCEPT ![r] = w],
         w.fan # "none" => w.on \in Server,
         w.fan = "read" => w.got \in Charge,
         w.on # Nowhere /\ ~w.late => w.on = target,
         w.fan = "read" /\ ~w.late => w.got.t = w.on /\ w.got.d >= heard[w.on],
         UNCHANGED <<target, data, stamp, heard, cache, flush, retargets>>,
         dataVersion' \in Version \cup {NoVersion}
  PROVE  CacheInv'
  BY WorkMoves, CacheStays

\* getDataVersion answers with a version.
LEMMA VersionRead ==
  ASSUME CacheInv, NEW r \in Caller, work[r].on \in Server
  PROVE  ReadVersion(r) \in Version
  BY DEF CacheInv, CacheTypeOK, ReadVersion

\* Every step of computeSbmCharge.  Of all of them only Finalize adds an entry, and what it
\* stores is what the calculation read.
LEMMA ChargeSteps ==
  ASSUME CacheInv, NEW r \in Caller, ChargeStep(r)
  PROVE  CacheInv'
<1> USE WorkType
<1>0. dataVersion \in Version \cup {NoVersion}
  BY DEF CacheInv, CacheTypeOK
<1>f. /\ work[r].fan # "none" => work[r].on \in Server
      /\ work[r].fan = "read" => work[r].got \in Charge
      /\ work[r].on # Nowhere /\ ~work[r].late => work[r].on = target
      /\ work[r].fan = "read" /\ ~work[r].late
           => work[r].got.t = work[r].on /\ work[r].got.d >= heard[work[r].on]
  BY DEF CacheInv, CacheTypeOK, Reads
<1>1. ASSUME NEW regimes, NEW q \in Question, StartCharge(r, regimes, q) PROVE CacheInv'
  <2> DEFINE w == [NoWork EXCEPT !.busy = TRUE, !.q = q,
                     !.cell = [g \in Regime |-> IF g \in regimes THEN "todo" ELSE "unused"]]
  <2>1. [g \in Regime |-> IF g \in regimes THEN "todo" ELSE "unused"] \in [Regime -> Cell]
    BY DEF Cell
  <2>2. w \in Work /\ w.fan = "none" /\ w.on = Nowhere /\ ~w.late
    BY <2>1 DEF Work, NoWork, Cell
  <2>3. work' = [work EXCEPT ![r] = w] /\ UNCHANGED <<target, data, stamp, heard, dataVersion, cache, flush, retargets>>
    BY <1>1 DEF StartCharge
  <2> HIDE DEF w
  <2> QED
    BY <1>0, <2>2, <2>3, OnlyWork
<1>2. CASE GotClient(r)
  <2> DEFINE w == [work[r] EXCEPT !.on = target]
  <2>1. w \in Work /\ w.fan = "none" /\ w.on = target
    BY <1>f, <1>2, CacheAssumption DEF GotClient, Work, Cell, CacheInv, CacheTypeOK
  <2>2. work' = [work EXCEPT ![r] = w] /\ UNCHANGED <<target, data, stamp, heard, dataVersion, cache, flush, retargets>>
    BY <1>2 DEF GotClient
  <2> HIDE DEF w
  <2> QED
    BY <1>0, <2>1, <2>2, OnlyWork
<1>3. CASE FanoutReads(r)
  <2> DEFINE c == [q |-> work[r].q, t |-> work[r].on, d |-> data[work[r].on]]
             w == [work[r] EXCEPT !.fan = "read", !.got = c]
  <2>1. work[r].on \in Server /\ data[work[r].on] \in 0..MaxFlush
    BY <1>f, <1>3 DEF FanoutReads, CacheInv, CacheTypeOK
  <2>2. c \in Charge /\ c.t = work[r].on /\ c.d = data[work[r].on]
    BY <2>1 DEF Charge
  <2>5. c.d >= heard[work[r].on]
    BY <2>1, <2>2 DEF CacheInv, CacheTypeOK, HeardIsPast
  <2>3. work' = [work EXCEPT ![r] = w] /\ UNCHANGED <<target, data, stamp, heard, dataVersion, cache, flush, retargets>>
    BY <1>3 DEF FanoutReads
  <2> HIDE DEF c
  <2>4. w \in Work /\ w.fan = "read" /\ w.on = work[r].on /\ w.got = c /\ (w.late <=> work[r].late)
    BY <2>2 DEF Work, Cell
  <2> HIDE DEF w
  <2> QED
    BY <1>0, <1>f, <2>1, <2>2, <2>3, <2>4, <2>5, OnlyWork
<1>4. CASE FanoutFails(r)
  <2> DEFINE w == [work[r] EXCEPT !.fan = "failed"]
  <2>1. w \in Work /\ w.fan = "failed" /\ w.on = work[r].on /\ (w.late <=> work[r].late)
    BY DEF Work, Cell
  <2>2. work[r].on \in Server
    BY <1>f, <1>4 DEF FanoutFails
  <2>3. work' = [work EXCEPT ![r] = w] /\ UNCHANGED <<target, data, stamp, heard, dataVersion, cache, flush, retargets>>
    BY <1>4 DEF FanoutFails
  <2> HIDE DEF w
  <2> QED
    BY <1>0, <1>f, <2>1, <2>2, <2>3, OnlyWork
<1>5. CASE Reply(r) \/ GivesUp(r)
  <2>1. /\ work' = [work EXCEPT ![r] = NoWork]
        /\ UNCHANGED <<target, data, stamp, heard, dataVersion, cache, flush, retargets>>
    BY <1>5 DEF Reply, GivesUp
  <2> QED
    BY <1>0, <2>1, Idle, OnlyWork
\* A cell moves on.
<1>6. ASSUME NEW g \in Regime, NEW c \in Cell
      PROVE  LET w == [work[r] EXCEPT !.cell[g] = c] IN
             /\ w \in Work /\ w.fan = work[r].fan /\ w.on = work[r].on /\ w.got = work[r].got
             /\ (w.late <=> work[r].late)
  BY DEF Work, Cell
<1>7. ASSUME NEW g \in Regime, Lookup(r, g) PROVE CacheInv'
  <2>1. /\ work[r].on \in Server /\ dataVersion' = ReadVersion(r)
        /\ UNCHANGED <<target, data, stamp, heard, cache, flush, retargets>>
    BY <1>7 DEF Lookup
  <2>2. dataVersion' \in Version
    BY <2>1, VersionRead
  <2>3. CASE Hit(r, g, ReadVersion(r))
    <3> DEFINE w == [work[r] EXCEPT !.cell[g] = "hit"]
    <3>1. work' = [work EXCEPT ![r] = w]
      BY <1>7, <2>3 DEF Lookup, SetCell
    <3>2. /\ w \in Work /\ w.fan = work[r].fan /\ w.on = work[r].on /\ w.got = work[r].got
          /\ (w.late <=> work[r].late)
      BY <1>6 DEF Cell
    <3> HIDE DEF w
    <3> QED
      BY <1>f, <2>1, <2>2, <3>1, <3>2, OnlyWork
  <2>4. CASE ~Hit(r, g, ReadVersion(r))
    <3> DEFINE w == [work[r] EXCEPT !.cell[g] = "fanout", !.fan = IF @ = "none" THEN "running" ELSE @]
    <3>1. work' = [work EXCEPT ![r] = w]
      BY <1>7, <2>4 DEF Lookup
    <3>2. /\ w \in Work /\ w.fan = IF work[r].fan = "none" THEN "running" ELSE work[r].fan
          /\ w.on = work[r].on /\ w.got = work[r].got /\ (w.late <=> work[r].late)
      BY DEF Work, Cell
    <3> HIDE DEF w
    <3> QED
      BY <1>f, <2>1, <2>2, <3>1, <3>2, OnlyWork
  <2> QED
    BY <2>3, <2>4
<1>8. ASSUME NEW g \in Regime, CellFails(r, g) PROVE CacheInv'
  <2> DEFINE w == [work[r] EXCEPT !.cell[g] = "failed"]
  <2>1. work' = [work EXCEPT ![r] = w] /\ UNCHANGED <<target, data, stamp, heard, dataVersion, cache, flush, retargets>>
    BY <1>8 DEF CellFails, SetCell
  <2>2. /\ w \in Work /\ w.fan = work[r].fan /\ w.on = work[r].on /\ w.got = work[r].got
        /\ (w.late <=> work[r].late)
    BY <1>6 DEF Cell
  <2> HIDE DEF w
  <2> QED
    BY <1>0, <1>f, <2>1, <2>2, OnlyWork
<1>9. ASSUME NEW g \in Regime, Finalize(r, g) PROVE CacheInv'
  <2> DEFINE w == [work[r] EXCEPT !.cell[g] = "done"]
             e == [q |-> "whole", g |-> g, v |-> ReadVersion(r), charge |-> work[r].got, late |-> work[r].late]
  <2>1. /\ work' = [work EXCEPT ![r] = w] /\ work[r].fan = "read" /\ dataVersion' = ReadVersion(r)
        /\ UNCHANGED <<target, data, stamp, heard, flush, retargets>>
    BY <1>9 DEF Finalize, SetCell
  <2>2. /\ w \in Work /\ w.fan = work[r].fan /\ w.on = work[r].on /\ w.got = work[r].got
        /\ (w.late <=> work[r].late)
    BY <1>6 DEF Cell
  <2>3. cache' \subseteq cache \cup {e}
    BY <1>9 DEF Finalize, Stored, StoredQuestion
  <2>4. ReadVersion(r) \in Version
    BY <1>f, <2>1, VersionRead
  <2>5. e \in Entry /\ e.charge = work[r].got /\ (e.late <=> work[r].late)
    BY <1>f, <2>1, <2>4, CacheAssumption DEF Entry
  <2> HIDE DEF e, w
  <2>6. /\ Reads' /\ work' \in [Caller -> Work]
        /\ \A x \in Caller : work'[x].fan # "none" => work'[x].on \in Server
        /\ \A x \in Caller : work'[x].fan = "read" => work'[x].got \in Charge
    BY <1>f, <2>1, <2>2, WorkMoves
  <2>7. CachedIsFresh'
    BY <1>f, <2>1, <2>3, <2>5, CacheAssumption DEF CacheInv, CachedIsFresh
  <2>8. CacheTypeOK'
    BY <2>1, <2>3, <2>4, <2>5, <2>6 DEF CacheInv, CacheTypeOK
  <2> QED
    BY <2>1, <2>6, <2>7, <2>8 DEF CacheInv, HeardIsPast
<1> QED
  BY <1>1, <1>2, <1>3, <1>4, <1>5, <1>7, <1>8, <1>9 DEF ChargeStep

\* A switch and the end of a flush make some calculations late and change nothing else of them.
LEMMA LateOnes ==
  ASSUME CacheInv, NEW late, late \in [Caller -> BOOLEAN],
         work' = [r \in Caller |-> [work[r] EXCEPT !.late = late[r]]]
  PROVE  /\ work' \in [Caller -> Work]
         /\ \A r \in Caller : /\ work'[r].on = work[r].on /\ work'[r].fan = work[r].fan
                              /\ work'[r].got = work[r].got /\ (work'[r].late <=> late[r])
<1> SUFFICES ASSUME NEW r \in Caller
             PROVE  LET w == [work[r] EXCEPT !.late = late[r]] IN
                    /\ w \in Work /\ w.on = work[r].on /\ w.fan = work[r].fan
                    /\ w.got = work[r].got /\ (w.late <=> late[r])
  OBVIOUS
<1>1. late[r] \in BOOLEAN
  OBVIOUS
<1> QED
  BY <1>1, WorkType DEF Work, Cell

\* A switch empties the cache and makes every calculation with a client late.
LEMMA Retargets ==
  ASSUME CacheInv, NEW t \in Server, Retarget(t)
  PROVE  CacheInv'
<1> DEFINE late == [r \in Caller |-> work[r].late \/ work[r].on # Nowhere]
<1>1. /\ work' = [r \in Caller |-> [work[r] EXCEPT !.late = late[r]]]
      /\ late \in [Caller -> BOOLEAN]
  BY WorkType DEF Retarget, MadeLate
<1>2. \A r \in Caller : late[r] <=> work[r].late \/ work[r].on # Nowhere
  BY WorkType
<1> HIDE DEF late
<1>3. /\ work' \in [Caller -> Work]
      /\ \A r \in Caller : /\ work'[r].on = work[r].on /\ work'[r].fan = work[r].fan
                           /\ work'[r].got = work[r].got /\ (work'[r].late <=> late[r])
  BY <1>1, LateOnes
<1>4. /\ target' = t /\ cache' = {} /\ dataVersion' = NoVersion /\ heard' = data
      /\ UNCHANGED <<data, stamp, flush>>
  BY DEF Retarget, Cleared
<1>5. CacheTypeOK'
  BY <1>3, <1>4 DEF CacheInv, CacheTypeOK
<1>6. Reads'
  <2>1. ASSUME NEW r \in Caller, work'[r].fan = "read" PROVE late[r]
    BY <1>2, <1>3, <2>1, CacheAssumption DEF CacheInv, CacheTypeOK
  <2> QED
    BY <1>2, <1>3, <2>1 DEF Reads
<1>7. HeardIsPast'
  BY <1>4 DEF CacheInv, CacheTypeOK, HeardIsPast
<1> QED
  BY <1>4, <1>5, <1>6, <1>7 DEF CacheInv, CachedIsFresh

\* The end of a flush empties the cache and makes late what has read.
LEMMA Bumps ==
  ASSUME CacheInv, NEW failed \in BOOLEAN, BumpVersion(failed)
  PROVE  CacheInv'
<1> DEFINE late == [r \in Caller |-> work[r].late \/ work[r].fan = "read"]
<1>1. /\ work' = [r \in Caller |-> [work[r] EXCEPT !.late = late[r]]]
      /\ late \in [Caller -> BOOLEAN]
  BY WorkType DEF BumpVersion, MadeLate
<1>2. \A r \in Caller : late[r] <=> work[r].late \/ work[r].fan = "read"
  BY WorkType
<1> HIDE DEF late
<1>3. /\ work' \in [Caller -> Work]
      /\ \A r \in Caller : /\ work'[r].on = work[r].on /\ work'[r].fan = work[r].fan
                           /\ work'[r].got = work[r].got /\ (work'[r].late <=> late[r])
  BY <1>1, LateOnes
<1>4. /\ dataVersion' \in Version /\ cache' = {} /\ heard' = data /\ UNCHANGED <<target, data>>
      /\ flush' = [pc |-> "idle", on |-> Nowhere] /\ flush.pc = "flushed"
  BY DEF BumpVersion, Cleared
<1>5. stamp' \in [Server -> Version]
  <2>1. flush.on \in Server /\ stamp \in [Server -> Version]
    BY <1>4 DEF CacheInv, CacheTypeOK
  <2>2. CASE failed
    BY <2>1, <2>2 DEF BumpVersion
  <2>3. CASE ~failed
    <3>1. stamp' = [stamp EXCEPT ![flush.on] = stamp[flush.on] + 1] /\ dataVersion' = stamp'[flush.on]
      BY <2>3 DEF BumpVersion
    <3>2. stamp'[flush.on] = stamp[flush.on] + 1
      BY <2>1, <3>1
    <3> QED
      BY <1>4, <2>1, <3>1, <3>2
  <2> QED
    BY <2>2, <2>3
<1>6. CacheTypeOK'
  BY <1>3, <1>4, <1>5 DEF CacheInv, CacheTypeOK
<1>7. Reads'
  BY <1>2, <1>3, <1>4 DEF CacheInv, Reads, CacheTypeOK
<1>8. HeardIsPast'
  BY <1>4 DEF CacheInv, CacheTypeOK, HeardIsPast
<1> QED
  BY <1>4, <1>6, <1>7, <1>8 DEF CacheInv, CachedIsFresh

\* A flush the cache has not been told of leaves it as fresh as it is said to be.
LEMMA Flushes ==
  ASSUME CacheInv, NEW t \in Server, FlushDb(t) \/ FlushReplyLost(t) \/ HaltAndFlush(t)
  PROVE  CacheInv'
<1>1. /\ flush' \in {flush, [pc |-> "flushed", on |-> t]}
      /\ data' = [data EXCEPT ![t] = @ + 1] /\ stamp' \in {stamp, [stamp EXCEPT ![t] = 0]}
      /\ UNCHANGED <<target, heard, dataVersion, cache, work>>
      /\ data[t] < MaxFlush
  BY DEF FlushDb, FlushReplyLost, HaltAndFlush, Flushed
<1>2. data' \in [Server -> 0..MaxFlush] /\ stamp' \in [Server -> Version]
  BY <1>1, Idle, CacheAssumption DEF CacheInv, CacheTypeOK
<1>3. CacheTypeOK'
  BY <1>1, <1>2 DEF CacheInv, CacheTypeOK
<1>4. \A s \in Server : data'[s] >= data[s]
  BY <1>1 DEF CacheInv, CacheTypeOK
<1>5. HeardIsPast'
  BY <1>1, <1>2, <1>4 DEF CacheInv, CacheTypeOK, HeardIsPast
<1> QED
  BY <1>1, <1>3, <1>5 DEF CacheInv, Reads, CachedIsFresh

\* Every step keeps the invariant.
LEMMA CacheStep == CacheInv /\ [CacheNext]_cachevars => CacheInv'
<1> SUFFICES ASSUME CacheInv, [CacheNext]_cachevars PROVE CacheInv'
  OBVIOUS
<1>1. ASSUME NEW r \in Caller, ChargeStep(r) PROVE CacheInv'
  BY <1>1, ChargeSteps
<1>2. ASSUME NEW t \in Server, Retarget(t) PROVE CacheInv'
  BY <1>2, Retargets
<1>3. ASSUME NEW t \in Server, FlushDb(t) \/ FlushReplyLost(t) \/ HaltAndFlush(t) PROVE CacheInv'
  BY <1>3, Flushes
<1>4. ASSUME NEW failed \in BOOLEAN, BumpVersion(failed) PROVE CacheInv'
  BY <1>4, Bumps
<1>5. ASSUME NEW e \in cache, CacheExpires(e) PROVE CacheInv'
  BY <1>5, CacheStays DEF CacheExpires, CacheInv, CacheTypeOK, Reads
<1>6. CASE UNCHANGED cachevars
  BY <1>6 DEF cachevars, CacheInv, CacheTypeOK, HeardIsPast, Reads, CachedIsFresh
<1> QED
  BY <1>1, <1>2, <1>3, <1>4, <1>5, <1>6 DEF CacheNext, Invalidation

\* It holds at the start.
LEMMA CacheStart == CacheInit => CacheInv
<1> SUFFICES ASSUME CacheInit PROVE CacheInv
  OBVIOUS
<1>1. \A r \in Caller : work[r] = NoWork
  BY DEF CacheInit
<1>2. CacheTypeOK
  BY <1>1, Idle DEF CacheInit, CacheTypeOK
<1>3. HeardIsPast
  BY DEF CacheInit, HeardIsPast
<1> QED
  BY <1>1, <1>2, <1>3, Idle DEF CacheInit, CacheInv, Reads, CachedIsFresh

\* The types of the cache and of the calculations around it (calc-cache.ts, computeSbmCharge).
THEOREM CacheTypes == CacheSpec => []CacheTypeOK
  BY CacheStart, CacheStep, PTL DEF CacheSpec, CacheInv

\* A charge that lookupCalcCache would serve is of the active target and from after the last flush
\* or switch that cleared the cache, unless its calculation overlapped that: for any calculations,
\* regimes and versions, and whatever flushes the cache is not told of.
THEOREM StaleByOverlap == CacheSpec => []StaleOnlyByOverlap
<1>1. CacheInv => StaleOnlyByOverlap
  BY DEF CacheInv, CachedIsFresh, StaleOnlyByOverlap, Servable
<1> QED
  BY <1>1, CacheStart, CacheStep, PTL DEF CacheSpec

-------------------------------------------------------------------------------
(* The rows of a charge *)

\* What the desks and the regions of a request ask of a row; no answer for the
\* regions includes no desk of theirs and excludes none.
RegionsInclude(r) ==
  IF lost THEN filter.incRegion = {} ELSE filter.incRegion = {} \/ RegionOf[r.desk] \in filter.incRegion
DesksAsked(r) ==
  /\ filter.incDesk = {} \/ r.desk \in filter.incDesk
  /\ r.desk \notin filter.excDesk
  /\ RegionsInclude(r)
  /\ lost \/ RegionOf[r.desk] \notin filter.excRegion

\* What the query of FT.AGGREGATE says of the desk of a row.
DesksMatch(r) ==
  /\ (desks.inc = {} /\ ~desks.none) \/ r.desk \in desks.inc
  /\ r.desk \notin desks.exc

\* The buckets the discovery answers.
Seen == {r.bucket : r \in rows}
Discovered ==
  IF req.named THEN Seen \cap req.cells
  ELSE IF req.subset # {} THEN Seen \cap req.subset ELSE Seen

\* What each stage of runSbmFanoutPhase knows: the buckets from the discovery on, that regions
\* are lost only where some are named, and that the resolved lists say of the desk of a row what
\* the request asked.
PathInv ==
  /\ filter \in Lists
  /\ lost \in BOOLEAN
  /\ pc \in {"discover", "probe", "probe failed", "path", "regions", "rollup", "aggregate", "fcall", "done"}
  /\ pc \in {"probe", "path", "regions", "rollup", "aggregate", "fcall"} => buckets = Discovered
  /\ pc \in {"discover", "probe", "probe failed", "path", "regions", "fcall"} => ~lost
  /\ lost => NamesRegions
  /\ pc = "regions" => NamesRegions /\ desks = [inc |-> filter.incDesk, exc |-> filter.excDesk, none |-> FALSE]
  /\ pc \in {"rollup", "aggregate"} => \A r \in rows : DesksMatch(r) <=> DesksAsked(r)
  /\ pc # "done" => out = NoOutcome

\* It holds at the start.
LEMMA PathInit == PInit => PathInv
  BY DEF PInit, PathInv, Requests, Filters, filter


\* Every status but the one of a charge is a refusal, a failure, or no outcome yet.
LEMMA NoChargeYet == PathInv /\ pc # "done" => out.status # 200
<1>1. NoOutcome.status # 200
  BY DEF NoOutcome
<1> QED
  BY <1>1 DEF PathInv

\* A step that goes on to another stage l with the desks as they were.
LEMMA GoesOn ==
  ASSUME PathInv, NEW l \in {"path", "probe", "probe failed", "fcall", "aggregate"},
         pc # "done", Goto(l), UNCHANGED <<input, lost, desks>>,
         l \in {"path", "probe", "fcall", "aggregate"} => buckets' = Discovered,
         l \in {"path", "probe", "probe failed", "fcall"} => ~lost,
         l = "aggregate" => pc = "rollup"
  PROVE  PathInv' /\ ChargeOfRowsAsked'
<1>1. /\ UNCHANGED <<filter, out, rows, req, desks, Discovered>> /\ pc' = l
      /\ lost' = lost /\ (lost' <=> lost) /\ (NamesRegions' <=> NamesRegions)
  BY DEF Goto, input, filter, Discovered, Seen, NamesRegions
<1>2. \A r \in rows : (DesksMatch(r)' <=> DesksMatch(r)) /\ (DesksAsked(r)' <=> DesksAsked(r))
  BY <1>1 DEF DesksMatch, DesksAsked, RegionsInclude
<1>3. out'.status # 200
  BY <1>1, NoChargeYet
<1>4. PathInv'
  BY <1>1, <1>2 DEF PathInv
<1> QED
  BY <1>3, <1>4 DEF ChargeOfRowsAsked

\* A step that ends with an outcome.
LEMMA Ends ==
  ASSUME PathInv, pc' = "done", UNCHANGED <<input, lost>>
  PROVE  PathInv'
<1>1. filter' = filter /\ lost' = lost /\ (lost' <=> lost) /\ (NamesRegions' <=> NamesRegions)
  BY DEF input, filter, NamesRegions
<1> QED
  BY <1>1 DEF PathInv

\* A step that ends with a refusal or a failure.
LEMMA Refuses ==
  ASSUME PathInv, NEW status \in {412, 500, 502, 503}, NEW error, Finish(status, error, "none", {}),
         UNCHANGED <<input, lost>>
  PROVE  PathInv' /\ ChargeOfRowsAsked'
<1>1. pc' = "done" /\ out'.status # 200
  BY DEF Finish
<1> QED
  BY <1>1, Ends DEF ChargeOfRowsAsked

\* The rows of a bucket that was discovered are those the buckets asked for have.
LEMMA InBucketsAre ==
  ASSUME buckets = Discovered
  PROVE  InBuckets = {r \in rows : IF req.named THEN r.bucket \in req.cells
                                   ELSE req.subset = {} \/ r.bucket \in req.subset}
  BY DEF InBuckets, Discovered, Seen

\* Every step keeps the invariant, and each of the three that charge charges the rows asked for.
LEMMA PathStep ==
  PathInv /\ ChargeOfRowsAsked /\ [PNext]_pvars => PathInv' /\ ChargeOfRowsAsked'
<1> SUFFICES ASSUME PathInv, ChargeOfRowsAsked, [PNext]_pvars
             PROVE  PathInv' /\ ChargeOfRowsAsked'
  OBVIOUS
<1>1. CASE Discover
  <2>1. buckets' = Discovered
    BY <1>1 DEF Discover, Discovered, Seen
  <2>2. pc # "done" /\ ~lost /\ UNCHANGED <<input, lost, desks>>
    BY <1>1 DEF Discover, PathInv
  <2>3. Goto("probe") \/ Goto("path")
    BY <1>1 DEF Discover
  <2> QED
    BY <2>1, <2>2, <2>3, GoesOn
<1>2. ASSUME NEW ok \in BOOLEAN, DiscoveryFails(ok) PROVE PathInv' /\ ChargeOfRowsAsked'
  <2>1. pc # "done" /\ ~lost /\ UNCHANGED <<input, lost, desks>>
    BY <1>2 DEF DiscoveryFails, PathInv
  <2>2. Finish(503, "redis", "none", {}) \/ Goto("probe failed")
    BY <1>2 DEF DiscoveryFails
  <2>3. CASE Goto("probe failed")
    BY <2>1, <2>3, GoesOn
  <2>4. CASE Finish(503, "redis", "none", {})
    BY <2>1, <2>4, Refuses
  <2> QED
    BY <2>2, <2>3, <2>4
<1>3. ASSUME NEW ok \in BOOLEAN, Probe(ok) PROVE PathInv' /\ ChargeOfRowsAsked'
  <2>1. pc # "done" /\ ~lost /\ UNCHANGED <<input, lost, desks, buckets>>
    BY <1>3 DEF Probe, PathInv
  <2>2. CASE pc = "probe failed"
    <3>1. Finish(503, "no-data-or-index", "none", {}) \/ Finish(502, "discovery-failed", "none", {})
      BY <1>3, <2>2 DEF Probe
    <3> QED
      BY <2>1, <3>1, Refuses
  <2>3. CASE pc = "probe"
    <3>1. Finish(503, "no-data-or-index", "none", {}) \/ Goto("path")
      BY <1>3, <2>3 DEF Probe
    <3>2. buckets' = Discovered
      BY <2>1, <2>3 DEF PathInv
    <3>3. CASE Goto("path")
      BY <2>1, <3>2, <3>3, GoesOn
    <3>4. CASE Finish(503, "no-data-or-index", "none", {})
      BY <2>1, <3>4, Refuses
    <3> QED
      BY <3>1, <3>3, <3>4
  <2> QED
    BY <1>3, <2>2, <2>3 DEF Probe
<1>4. ASSUME NEW e \in Settings, ChoosePath(e) PROVE PathInv' /\ ChargeOfRowsAsked'
  <2>1. pc = "path" /\ ~lost /\ buckets = Discovered /\ UNCHANGED <<input, lost, buckets>>
    BY <1>4 DEF ChoosePath, PathInv
  <2>2. CASE pc' = "done"
    <3>1. \/ Finish(503, "fcall-fallback-disabled", "none", {})
          \/ Finish(503, "fcall-incompatible-with-lazy-math", "none", {})
      BY <1>4, <2>2 DEF ChoosePath, Goto
    <3> QED
      BY <2>1, <3>1, Refuses
  <2>3. CASE pc' # "done"
    <3>1. /\ pc' \in {"fcall", "regions", "rollup"} /\ UNCHANGED out
          /\ pc' = "rollup" => ~NamesRegions
          /\ pc' = "regions" => NamesRegions
      BY <1>4, <2>3 DEF ChoosePath, Goto, Finish
    <3>2. UNCHANGED <<filter, Discovered>> /\ (NamesRegions' <=> NamesRegions) /\ (lost' <=> lost)
      BY <2>1 DEF input, filter, Discovered, Seen, NamesRegions
    <3>3. out'.status # 200
      BY <2>1, <3>1, NoChargeYet
    <3>4. desks' = [inc |-> filter.incDesk, exc |-> filter.excDesk, none |-> FALSE]
      BY <1>4 DEF ChoosePath
    <3>5. ASSUME pc' = "rollup", NEW r \in rows' PROVE DesksMatch(r)' <=> DesksAsked(r)'
      BY <2>1, <3>1, <3>2, <3>4, <3>5 DEF NamesRegions, DesksMatch, DesksAsked, RegionsInclude
    <3>6. PathInv'
      BY <2>1, <3>1, <3>2, <3>4, <3>5 DEF PathInv
    <3> QED
      BY <3>3, <3>6 DEF ChargeOfRowsAsked
  <2> QED
    BY <2>2, <2>3
<1>5. ASSUME NEW ok \in BOOLEAN, ResolveRegions(ok) PROVE PathInv' /\ ChargeOfRowsAsked'
  <2>1. /\ pc = "regions" /\ pc' = "rollup" /\ ~lost /\ buckets = Discovered
        /\ UNCHANGED <<input, buckets, out>> /\ lost' = ~ok
    BY <1>5 DEF ResolveRegions, PathInv, Goto
  <2>2. UNCHANGED <<req, rows, filter, Discovered>> /\ (NamesRegions' <=> NamesRegions)
    BY <2>1 DEF input, filter, Discovered, Seen, NamesRegions
  <2>3. desks = [inc |-> filter.incDesk, exc |-> filter.excDesk, none |-> FALSE]
    BY <2>1 DEF PathInv
  <2>4. ASSUME NEW r \in rows PROVE DesksMatch(r)' <=> DesksAsked(r)'
    <3>1. CASE ok
      BY <1>5, <2>1, <2>2, <2>3, <3>1 DEF ResolveRegions, Resolve, DesksMatch, DesksAsked, RegionsInclude
    <3>2. CASE ~ok
      BY <1>5, <2>1, <2>2, <2>3, <3>2 DEF ResolveRegions, Resolve, DesksMatch, DesksAsked, RegionsInclude
    <3> QED
      BY <3>1, <3>2
  <2>5. NamesRegions /\ out'.status # 200
    BY <2>1, NoChargeYet DEF PathInv
  <2>6. PathInv'
    BY <2>1, <2>2, <2>4, <2>5 DEF PathInv
  <2> QED
    BY <2>5, <2>6 DEF ChargeOfRowsAsked
<1>6. ASSUME NEW perTenor \in BOOLEAN, NEW hashed, ReadRollups(perTenor, hashed)
      PROVE  PathInv' /\ ChargeOfRowsAsked'
  <2>1. /\ pc' = "done" /\ UNCHANGED <<input, lost>> /\ buckets = Discovered
        /\ (lost' <=> lost)
    BY <1>6 DEF ReadRollups, Finish, PathInv
  <2>2. /\ filter.incBucket = {} /\ filter.incBook = {} /\ filter.incDesk = {} /\ filter.incRegion = {}
        /\ filter.excBook = {} /\ filter.excDesk = {} /\ filter.excRegion = {}
    <3>1. filter = NoFilter
      BY <1>6 DEF ReadRollups, RollupAllowed, HasFilter
    <3> QED
      BY <3>1 DEF NoFilter
  <2>5. ~lost /\ UNCHANGED <<req, rows, filter>>
    BY <2>1, <2>2 DEF PathInv, NamesRegions, input, filter
  <2>3. /\ out'.rows = InBuckets \cap hashed /\ missing' = InBuckets \ hashed
        /\ out'.engine = "rollup"
    BY <1>6 DEF ReadRollups, Finish
  <2>4. InBuckets = {r \in rows' : Asked(r)'}
    BY <2>1, <2>2, <2>5, InBucketsAre DEF Asked
  <2>6. out'.rows = InBuckets \ missing'
    BY <2>3
  <2>7. out'.rows # {} \/ out'.rows = InBuckets
    <3>1. buckets = {} => InBuckets = {}
      BY DEF InBuckets
    <3> QED
      BY <1>6, <2>3, <3>1 DEF ReadRollups
  <2> QED
    BY <2>1, <2>3, <2>4, <2>6, <2>7, Ends DEF ChargeOfRowsAsked
<1>7. CASE SkipRollups
  <2>1. /\ pc = "rollup" /\ Goto("aggregate") /\ buckets' = Discovered
        /\ UNCHANGED <<input, lost, desks>>
    BY <1>7 DEF SkipRollups, PathInv
  <2> QED
    BY <2>1, GoesOn
<1>8. ASSUME NEW ok \in BOOLEAN, Aggregate(ok) PROVE PathInv' /\ ChargeOfRowsAsked'
  <2>1. /\ pc = "aggregate" /\ pc' = "done" /\ UNCHANGED <<input, lost>> /\ buckets = Discovered
        /\ (lost' <=> lost)
    BY <1>8 DEF Aggregate, Finish, PathInv
  <2>2. CASE ok
    <3>1. out'.rows = {r \in InBuckets : Matches(r)}
      <4> DEFINE R == {r \in InBuckets : Matches(r)}
      <4>1. Finish(200, "", "ft_aggregate", R)
        BY <1>8, <2>2 DEF Aggregate
      <4> HIDE DEF R
      <4>2. out'.rows = R
        BY <4>1 DEF Finish
      <4> QED
        BY <4>2 DEF R
    <3>2. UNCHANGED <<req, rows, filter>>
      BY <2>1 DEF input, filter
    <3>3. \A r \in rows : DesksMatch(r) <=> DesksAsked(r)
      BY <2>1 DEF PathInv
    <3>4. ASSUME NEW r \in rows
          PROVE  r \in InBuckets /\ Matches(r)
                   <=> Asked(r)' /\ (req.subset = {} \/ r.bucket \in req.subset)
      BY <2>1, <3>2, <3>3, InBucketsAre
      DEF Matches, DesksMatch, Asked, DesksAsked, RegionsInclude
    <3>5. {r \in InBuckets : Matches(r)} =
            {r \in rows : Asked(r)' /\ (req.subset = {} \/ r.bucket \in req.subset)}
      <4>1. InBuckets \subseteq rows
        BY DEF InBuckets
      <4> QED
        <5>1. ASSUME NEW r \in InBuckets, Matches(r)
              PROVE  r \in rows /\ Asked(r)' /\ (req.subset = {} \/ r.bucket \in req.subset)
          BY <3>4, <4>1, <5>1
        <5>2. ASSUME NEW r \in rows, Asked(r)', req.subset = {} \/ r.bucket \in req.subset
              PROVE  r \in InBuckets /\ Matches(r)
          BY <3>4, <5>2
        <5> QED
          BY <5>1, <5>2, Zenon
    <3>6. \/ out'.rows = {r \in rows' : Asked(r)'}
          \/ req'.subset # {} /\ out'.rows = {r \in rows' : Asked(r)' /\ r.bucket \in req'.subset}
      BY <3>1, <3>2, <3>5
    <3> QED
      BY <2>1, <3>6, Ends DEF ChargeOfRowsAsked
  <2>3. CASE ~ok
    BY <1>8, <2>1, <2>3, Refuses DEF Aggregate
  <2> QED
    BY <2>2, <2>3
<1>9. CASE Fcall
  <2>1. pc' = "done" /\ UNCHANGED <<input, lost>>
    BY <1>9 DEF Fcall, Finish
  <2>2. out'.engine = "fcall_lua" /\ out'.rows = {}
    BY <1>9 DEF Fcall, Finish
  <2> QED
    BY <2>1, <2>2, Ends DEF ChargeOfRowsAsked
<1>10. ASSUME NEW status \in {500, 503}, AnswerFails(status) PROVE PathInv' /\ ChargeOfRowsAsked'
  BY <1>10, Refuses DEF AnswerFails
<1>11. CASE UNCHANGED pvars
  <2>1. /\ UNCHANGED <<input, pc, filter, desks, buckets, out, rows, req, missing, Discovered>> /\ lost' = lost
        /\ (lost' <=> lost) /\ (NamesRegions' <=> NamesRegions)
    BY <1>11 DEF pvars, input, filter, NamesRegions, Discovered, Seen
  <2>2. \A r \in rows : (DesksMatch(r)' <=> DesksMatch(r)) /\ (DesksAsked(r)' <=> DesksAsked(r))
    BY <2>1 DEF DesksMatch, DesksAsked, RegionsInclude
  <2>3. PathInv'
    BY <2>1, <2>2 DEF PathInv
  <2>4. ChargeOfRowsAsked'
    BY <2>1 DEF ChargeOfRowsAsked, Asked
  <2> QED
    BY <2>3, <2>4
<1> QED
  BY <1>1, <1>2, <1>3, <1>4, <1>5, <1>6, <1>7, <1>8, <1>9, <1>10, <1>11 DEF PNext

\* Every charge of runSbmFanoutPhase is of the rows the request asked for, but for those that have
\* no rollup and for the kernels that find none: for any rows, buckets, desks, books and regions and
\* for requests with any number of lists.
THEOREM ChargedRowsAsked == PSpec => []ChargeOfRowsAsked
<1>1. PInit => PathInv /\ ChargeOfRowsAsked
  BY PathInit, NoChargeYet DEF PInit, ChargeOfRowsAsked
<1> QED
  BY <1>1, PathStep, PTL DEF PSpec
===============================================================================
