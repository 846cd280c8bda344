------------------------------- MODULE CalcPath -------------------------------
(***************************************************************************)
(* Which rows a charge is made of: the path a calculation takes through    *)
(* runSbmFanoutPhase (routes/calc.ts), from the buckets it discovers to    *)
(* the rollups, the FT.AGGREGATE queries or the Lua kernels that answer,   *)
(* with every refusal and every failure of Redis on the way.  One risk     *)
(* class; what the answers are worth is in SbmCharge.                      *)
(***************************************************************************)
EXTENDS Naturals, FiniteSets

CONSTANTS
  Row,                        \* the rows there may be: [bucket, desk, book]
  RiskBucket, Desk, Book, Region,
  RegionOf,                   \* regionFromDesk
  MaxFilters                  \* bound: lists of a request that are not empty

VARIABLES
  req,     \* the request: subset and cells of buckets, filters
  rows,    \* the sensitivities in Redis
  pc,
  buckets, \* the buckets discovered
  desks,   \* include and exclude lists of desks, regions resolved
  lost,    \* history: the desks of the regions could not be read
  missing, \* history: the rows that the rollups read do not have
  out      \* the outcome: status, error, engine, and the rows of the charge

pvars == <<req, rows, pc, buckets, desks, lost, missing, out>>
input == <<req, rows>>

Lists == [incBucket : SUBSET RiskBucket, incBook : SUBSET Book, incDesk : SUBSET Desk,
          incRegion : SUBSET Region, excBook : SUBSET Book, excDesk : SUBSET Desk,
          excRegion : SUBSET Region]
Filters == {f \in Lists : Cardinality({k \in DOMAIN f : f[k] # {}}) <= MaxFilters}
NoFilter == [incBucket |-> {}, incBook |-> {}, incDesk |-> {}, incRegion |-> {},
             excBook |-> {}, excDesk |-> {}, excRegion |-> {}]

\* What validation lets through.  named: bucket_cells is not empty; cells: the
\* buckets of this class that it names.
Requests == {r \in [subset : {{}} \cup {{b} : b \in RiskBucket},
                    named : BOOLEAN, cells : {{}} \cup {{b} : b \in RiskBucket},
                    filter : Filters] : r.named \/ r.cells = {}}

\* What the choice of the path reads: force_path of the request, whether a
\* schema is loaded, CALC_FAST_PATH, CALC_FCALL_FALLBACK, and CALC_LAZY_MATH
\* with the slim index it requires.
Settings == [force : {"none", "fast", "lua"}, schema : BOOLEAN, fast : BOOLEAN,
             fcall : BOOLEAN, lazy : BOOLEAN]

NoOutcome == [status |-> 0, error |-> "", engine |-> "none", rows |-> {}]

PInit ==
  /\ req \in Requests /\ rows \in {{}, Row}
  /\ pc = "discover" /\ buckets = {} /\ lost = FALSE /\ missing = {}
  /\ desks = [inc |-> {}, exc |-> {}, none |-> FALSE] /\ out = NoOutcome

filter == req.filter
HasFilter == filter # NoFilter
NamesRegions == filter.incRegion # {} \/ filter.excRegion # {}

Finish(status, error, engine, R) ==
  /\ pc' = "done"
  /\ out' = [status |-> status, error |-> error, engine |-> engine, rows |-> R]

Goto(l) == pc' = l /\ UNCHANGED out

-------------------------------------------------------------------------------

\* SMEMBERS of the seen set, narrowed by the cells, else by the subset.
Discover ==
  /\ pc = "discover"
  /\ LET seen == {r.bucket : r \in rows} IN
     buckets' = IF req.named THEN seen \cap req.cells
                ELSE IF req.subset # {} THEN seen \cap req.subset ELSE seen
  /\ Goto(IF buckets' = {} THEN "probe" ELSE "path")
  /\ UNCHANGED <<input, desks, lost, missing>>

\* SMEMBERS fails with an error that translates to a status, or without one.
DiscoveryFails(translated) ==
  /\ pc = "discover"
  /\ IF translated THEN Finish(503, "redis", "none", {}) ELSE Goto("probe failed")
  /\ UNCHANGED <<input, buckets, desks, lost, missing>>

\* FT.INFO tells an empty index from a failed discovery; its own failure
\* counts as an empty index.
Probe(answers) ==
  /\ pc \in {"probe", "probe failed"}
  /\ IF ~answers \/ rows = {} THEN Finish(503, "no-data-or-index", "none", {})
     ELSE IF pc = "probe failed" THEN Finish(502, "discovery-failed", "none", {})
     ELSE Goto("path")
  /\ UNCHANGED <<input, buckets, desks, lost, missing>>

UsesFast(e) ==
  \/ e.schema /\ (e.force = "fast" \/ (e.force = "none" /\ e.fast))
  \/ e.schema /\ ~e.fcall

\* The Lua kernels must be enabled, and need rows with a risk_value.
ChoosePath(e) ==
  /\ pc = "path"
  /\ IF ~UsesFast(e) /\ ~e.fcall THEN Finish(503, "fcall-fallback-disabled", "none", {})
     ELSE IF ~UsesFast(e) /\ e.lazy THEN Finish(503, "fcall-incompatible-with-lazy-math", "none", {})
     ELSE Goto(IF ~UsesFast(e) THEN "fcall" ELSE IF NamesRegions THEN "regions" ELSE "rollup")
  /\ desks' = [inc |-> filter.incDesk, exc |-> filter.excDesk, none |-> FALSE]
  /\ UNCHANGED <<input, buckets, lost, missing>>

\* Mutant: a region that no desk is in leaves the desks unfiltered.
Resolve_KeepsAll(all) ==
  LET inRegions(R) == {d \in all : RegionOf[d] \in R}
      inc == IF filter.incRegion = {} THEN desks.inc
             ELSE IF desks.inc # {} THEN desks.inc \cap inRegions(filter.incRegion)
             ELSE inRegions(filter.incRegion)
  IN [inc |-> inc, exc |-> desks.exc \cup inRegions(filter.excRegion), none |-> FALSE]

\* Regions become lists of desks; none: the sentinel that matches no desk.
Resolve(all) ==
  LET inRegions(R) == {d \in all : RegionOf[d] \in R}
      inc == IF filter.incRegion = {} THEN desks.inc
             ELSE IF desks.inc # {} THEN desks.inc \cap inRegions(filter.incRegion)
             ELSE inRegions(filter.incRegion)
  IN [inc |-> inc, exc |-> desks.exc \cup inRegions(filter.excRegion),
      none |-> filter.incRegion # {} /\ inc = {}]

\* The desks come from FT.AGGREGATE; no answer counts as no desks.
ResolveRegions(answers) ==
  /\ pc = "regions"
  /\ desks' = Resolve(IF answers THEN {r.desk : r \in rows} ELSE {})
  /\ lost' = ~answers
  /\ Goto("rollup")
  /\ UNCHANGED <<input, buckets, missing>>

InBuckets == {r \in rows : r.bucket \in buckets}

RollupAllowed == ~HasFilter

\* CALC_ROLLUP_PATH is on and no filter is set.  A bucket of a scalar class has one
\* hash, and without it tryRollupReadout gives up.  A class with tenors has one for
\* each: those that are missing count as nothing, a bucket without any is charged
\* 0, and only with none at all does it give up.
ReadRollups(perTenor, hashed) ==
  /\ pc = "rollup" /\ RollupAllowed
  /\ IF perTenor THEN buckets = {} \/ InBuckets \cap hashed # {} ELSE InBuckets \subseteq hashed
  /\ Finish(200, "", "rollup", InBuckets \cap hashed)
  /\ missing' = InBuckets \ hashed
  /\ UNCHANGED <<input, buckets, desks, lost>>

\* The path is off, a rollup is missing, Redis fails, or a filter is set.
SkipRollups ==
  /\ pc = "rollup" /\ Goto("aggregate")
  /\ UNCHANGED <<input, buckets, desks, lost, missing>>

\* buildFastPathQuery: the subset of the request and every list.
Matches(r) ==
  /\ req.subset = {} \/ r.bucket \in req.subset
  /\ filter.incBucket = {} \/ r.bucket \in filter.incBucket
  /\ filter.incBook = {} \/ r.book \in filter.incBook
  /\ (desks.inc = {} /\ ~desks.none) \/ r.desk \in desks.inc
  /\ r.book \notin filter.excBook /\ r.desk \notin desks.exc

\* aggregateBucketsViaIndex; CALC_ALLOW_FT_AGGREGATE allows it; only
\* the discovered buckets are kept.
Aggregate(allow) ==
  /\ pc = "aggregate"
  /\ IF allow THEN Finish(200, "", "ft_aggregate", {r \in InBuckets : Matches(r)})
     ELSE Finish(412, "fallback-disabled", "none", {})
  /\ UNCHANGED <<input, buckets, desks, lost, missing>>

\* FCALL of every bucket.  The kernels look for keys with the tag of the bucket
\* (loadFrtbLibrary.ts 65), and rows have had none since Wave 6.31: they find
\* nothing and answer a charge of 0.
Fcall ==
  /\ pc = "fcall"
  /\ Finish(200, "", "fcall_lua", {})
  /\ UNCHANGED <<input, buckets, desks, lost, missing>>

\* Redis fails; status 500 is the error that nothing translates.
AnswerFails(status) ==
  /\ pc \in {"aggregate", "fcall"}
  /\ Finish(status, "redis", "none", {})
  /\ UNCHANGED <<input, buckets, desks, lost, missing>>

PNext ==
  \/ Discover \/ SkipRollups \/ Fcall
  \/ \E perTenor \in BOOLEAN, hashed \in SUBSET rows : ReadRollups(perTenor, hashed)
  \/ \E e \in Settings : ChoosePath(e)
  \/ \E ok \in BOOLEAN : DiscoveryFails(ok) \/ Probe(ok) \/ ResolveRegions(ok) \/ Aggregate(ok)
  \/ \E status \in {500, 503} : AnswerFails(status)

PSpec == PInit /\ [][PNext]_pvars

-------------------------------------------------------------------------------
(* Properties *)

\* The rows a request asks for.  With the desks of the regions lost, a region
\* includes no row and excludes none.
Asked(r) ==
  /\ IF req.named THEN r.bucket \in req.cells ELSE req.subset = {} \/ r.bucket \in req.subset
  /\ filter.incBucket = {} \/ r.bucket \in filter.incBucket
  /\ filter.incBook = {} \/ r.book \in filter.incBook
  /\ filter.incDesk = {} \/ r.desk \in filter.incDesk
  /\ filter.incRegion = {} \/ (~lost /\ RegionOf[r.desk] \in filter.incRegion)
  /\ r.book \notin filter.excBook /\ r.desk \notin filter.excDesk
  /\ lost \/ RegionOf[r.desk] \notin filter.excRegion

\* Every charge is of the rows asked for, whichever path computed it and
\* whatever Redis failed to answer, but for these: the Lua kernels charge none;
\* the rollups of a class with tenors charge the rows that have a hash, of which
\* there are some when any is asked for; when cells are named the subset narrows
\* them on the path of FT.AGGREGATE alone.  Each of these charges, and one of a
\* region whose desks could not be read, has status 200.
ChargeOfRowsAsked ==
  out.status = 200 =>
    LET asked == {r \in rows : Asked(r)} IN
    \/ out.rows = asked
    \/ out.engine = "fcall_lua" /\ out.rows = {}
    \/ out.engine = "rollup" /\ out.rows = asked \ missing /\ out.rows # {}
    \/ req.subset # {} /\ out.rows = {r \in asked : r.bucket \in req.subset}
===============================================================================
