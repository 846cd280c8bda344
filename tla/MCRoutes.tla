------------------------------- MODULE MCRoutes -------------------------------
(***************************************************************************)
(* Small instances of the routes of the api, one of which a behaviour      *)
(* runs: the calc routes with their registry, the response cache, the path *)
(* that picks the rows of a charge, the charge of a bucket and of a risk   *)
(* class, and the checkpoints that a bulk-loader answers to producers.     *)
(***************************************************************************)
EXTENDS CalcRegistry, CalcCache, CalcPath, LoadResume, Integers, TLC

VARIABLES
  part,
  leg, perTenor, lazy, docs, rollup, job, rho, kb, read, writes, raced, unrolled,
  cell, results, charge

-------------------------------------------------------------------------------
(* Small instances *)

\* The rows of two buckets, each of two desks and two books; no desk is in r3.
MCRow == {[bucket |-> "1", desk |-> "d1", book |-> "k1"], [bucket |-> "1", desk |-> "d2", book |-> "k2"],
          [bucket |-> "2", desk |-> "d1", book |-> "k2"], [bucket |-> "2", desk |-> "d2", book |-> "k1"]}
MCRegionOf == "d1" :> "r1" @@ "d2" :> "r2"

Sbm == INSTANCE SbmCharge WITH
            Id <- {"i1", "i2"}, BucketOf <- "i1" :> "b1" @@ "i2" :> "b1",
            Shard <- {"s1", "s2"}, ShardOf <- "i1" :> "s1" @@ "i2" :> "s2",
            Bucket <- {"b1", "b2"}, BucketWeight <- "b1" :> 2 @@ "b2" :> 3,
            TenorWeight <- "t1" :> 3 @@ "t2" :> 1, Value <- {<<-1, 2>>, <<2, -1>>},
            RhoN <- {1, 2}, RhoD <- 3, MaxWrites <- 2

\* One correlation between all buckets, and a matrix that does not label them all.
Buckets3 == {"b1", "b2", "b3"}
Labelled2 == {"b1", "b2"}
Class == INSTANCE RiskClass WITH
           Bucket <- Buckets3, Result <- {<<1, 1>>, <<1, -2>>, <<2, -2>>, <<1, 2>>}, GammaD <- 2,
           Corr <- {[label |-> Buckets3, of |-> [p \in Buckets3 \X Buckets3 |-> g]] : g \in 0 .. 2}
                     \cup {[label |-> Labelled2,
                            of |-> [p \in Labelled2 \X Labelled2 |-> IF p[1] = p[2] THEN 2 ELSE -1]]}

\* The rows of two producers at one loader.
MCRowsOf == [p \in Producer |-> IF p = "p1" THEN {1} ELSE {2}]

\* Bounds of the response cache: calculations of one and the same regime, or one
\* of all regimes at a time and each Redis flushed once.
CellsAsked(r) == {g \in Regime : work[r].cell[g] # "unused"}
OneRegime ==
  Cardinality({e.g : e \in cache} \cup UNION {CellsAsked(r) : r \in Caller}) <= 1
TotalsAlone ==
  /\ \A t \in Server : data[t] <= 1
  /\ \A r, s \in Caller : r # s /\ Cardinality(CellsAsked(r)) > 1 => ~Working(s)

\* Bounds of the checkpoints: no batch is posted again once a worker has its row, or
\* the rows of one producer alone.
RowsTaken == UNION {buf[w] : w \in Worker} \cup UNION {stored[t] \cup flushed[t] : t \in RedisTarget}
PostedOnce == \A p \in Producer : gen[p].open \cap RowsTaken = {}
OneProducer == \E p \in Producer : gen[p].rest = RowsOf[p]

Symmetry == Permutations(Request) \cup Permutations(Regime) \cup Permutations(Redis)

-------------------------------------------------------------------------------
(* One part at a time *)

chargeVars == <<leg, perTenor, lazy, docs, rollup, job, rho, kb, read, writes, raced, unrolled>>
classVars == <<cell, results, charge>>
mcvars == <<part, allvars, lvars, cachevars, pvars, chargeVars, classVars>>

\* What the properties read is kept.
RegistryOff ==
  /\ Init /\ calc = [r \in Request |-> NoCalc] /\ jobs = {}
  /\ active = "off" /\ recent = "off" /\ switches = "off"
CacheOff ==
  /\ target = "off" /\ data = "off" /\ stamp = "off" /\ heard = "off" /\ dataVersion = "off" /\ cache = {}
  /\ work = "off" /\ flush = [pc |-> "off"] /\ retargets = "off"
PathOff ==
  /\ req = "off" /\ rows = "off" /\ pc = "off" /\ buckets = "off" /\ desks = "off" /\ lost = "off" /\ missing = "off"
  /\ out = NoOutcome
ChargeOff ==
  /\ leg = "off" /\ perTenor = "off" /\ lazy = "off" /\ docs = "off" /\ rollup = "off"
  /\ job = "off" /\ rho = "off" /\ kb = "off" /\ read = "off" /\ writes = "off" /\ raced = "off"
  /\ unrolled = "off"
ClassOff == cell = "off" /\ results = "off" /\ charge = "off"

MCInit ==
  /\ part \in {"routes", "cache", "totals", "path", "charge", "class", "checkpoints", "reposts"}
  /\ LInit
  /\ IF part = "routes" THEN RInit ELSE RegistryOff
  /\ IF part \in {"cache", "totals"} THEN CacheInit ELSE CacheOff
  /\ IF part = "path" THEN PInit ELSE PathOff
  /\ IF part = "charge" THEN Sbm!Init ELSE ChargeOff
  /\ IF part = "class" THEN Class!Init ELSE ClassOff

InRoutes ==
  /\ part = "routes"
  /\ UNCHANGED <<part, lvars, cachevars, pvars, chargeVars, classVars>>
InCache ==
  /\ part \in {"cache", "totals"}
  /\ UNCHANGED <<part, lvars, allvars, pvars, chargeVars, classVars>>
InPath ==
  /\ part = "path"
  /\ UNCHANGED <<part, lvars, allvars, cachevars, chargeVars, classVars>>
InCharge ==
  /\ part = "charge"
  /\ UNCHANGED <<part, lvars, allvars, cachevars, pvars, classVars>>
InClass ==
  /\ part = "class"
  /\ UNCHANGED <<part, lvars, allvars, cachevars, pvars, chargeVars>>
InLoader ==
  /\ part \in {"checkpoints", "reposts"}
  /\ UNCHANGED <<part, allvars, cachevars, pvars, chargeVars, classVars>>

MCNext ==
  \/ InRoutes /\ RNext
  \/ InCache /\ CacheNext /\ IF part = "cache" THEN OneRegime' ELSE TotalsAlone'
  \/ InPath /\ PNext
  \/ InCharge /\ Sbm!Next
  \/ InClass /\ Class!Next
  \/ InLoader /\ LNext /\ IF part = "checkpoints" THEN PostedOnce' ELSE OneProducer'

MCSpec == MCInit /\ [][MCNext]_mcvars

-------------------------------------------------------------------------------
(* Properties *)

\* The replies of the masters merge to the charge of the kernels, rollups kept by
\* ingest or rebuilt by a job give the charge of the index, and a cached K_b is that
\* of the rollup that was read (aggregate-via-index.ts, kb-cache.ts).
ChargeIsKernel ==
  part = "charge" => Sbm!IndexIsKernel /\ Sbm!RollupIsIndex /\ Sbm!CachedKbOfContent

\* A charge of a risk class is at most what its buckets have on their own, and one
\* correlation that is not negative needs no floor (sbm/reduce.ts).
ChargeIsBounded == part = "class" => Class!ChargeIsBounded
===============================================================================
