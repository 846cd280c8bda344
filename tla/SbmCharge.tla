------------------------------ MODULE SbmCharge -------------------------------
(***************************************************************************)
(* The charge of a bucket (SBM), computed four ways from the sensitivities *)
(* of one risk class and one leg:                                          *)
(*   - from the rollup hashes that ingest keeps (tryRollupReadout), which  *)
(*     two batch jobs rebuild (finalise-rollups.mjs, backfill-rollups.ts); *)
(*   - from FT.AGGREGATE on every master, merged by the api                *)
(*     (aggregateBucketsViaIndex), of weighted or of raw fields;           *)
(*   - by the kernels and their reference (services/calc, sbm.py).         *)
(* With the cache of K_b in Redis (kb-cache.ts) that several apis share.   *)
(* K_b is kept as its square, times the denominator of the correlation.    *)
(***************************************************************************)
EXTENDS Integers, FiniteSets, FiniteSetsExt

CONSTANTS
  Id, BucketOf,   \* keys of sensitivities, and the bucket a key names
  Shard, ShardOf, \* masters of the cluster, and the one that holds a key
  Bucket,
  BucketWeight,   \* risk weight by bucket (scalar classes, delta)
  TenorWeight,    \* risk weight by tenor (GIRR, delta); its domain: the tenors
  Value,          \* values of a sensitivity: <<up, down>>; delta and vega use up
  RhoN, RhoD,     \* intra-bucket correlations a schema may give: n / RhoD
  MaxWrites       \* bound: rows written

VARIABLES
  leg, perTenor, lazy,  \* what is computed: "delta", "vega", "curvature"; GIRR;
                        \* CALC_LAZY_MATH, where it changes the query
  docs,                 \* the sensitivity under each key, or NoDoc
  rollup,               \* the rollup hash of a bucket and tenor, or NoRollup
  job,                  \* the batch job that rebuilds the rollups
  rho,                  \* numerator of the correlation in the schema of the api
  kb,                   \* the cached K_b of each bucket
  read,                 \* a readout of one bucket under way
  writes,
  raced,                \* history: rows were written while a job rebuilt the rollups
  unrolled              \* history: rows loaded in bulk since the last rebuild

vars == <<leg, perTenor, lazy, docs, rollup, job, rho, kb, read, writes, raced, unrolled>>
mode == <<leg, perTenor, lazy>>

Tenors == IF perTenor THEN DOMAIN TenorWeight ELSE {""}
AllTenors == DOMAIN TenorWeight \cup {""}
Key == Bucket \X AllTenors
NoDoc == [b |-> "none"]
NoRollup == [n |-> 0]
NoEntry == [of |-> NoRollup]
NoRead == [pc |-> "idle"]
NoJob == [pc |-> "idle"]

Init ==
  /\ leg \in {"delta", "vega", "curvature"} /\ perTenor \in BOOLEAN
  /\ lazy \in IF leg = "delta" /\ ~perTenor THEN BOOLEAN ELSE {FALSE}
  /\ docs = [i \in Id |-> NoDoc] /\ rollup = [k \in Key |-> NoRollup]
  /\ job = NoJob /\ rho \in RhoN
  /\ kb = [b \in Bucket |-> NoEntry] /\ read = NoRead
  /\ writes = 0 /\ raced = FALSE /\ unrolled = FALSE

Docs == {i \in Id : docs[i] # NoDoc}
In(b) == {i \in Docs : docs[i].b = b}

\* resolveLazyMathWeights, resolveWeights: only delta is weighted.
Weight(b, t) ==
  IF leg # "delta" THEN 1 ELSE IF perTenor THEN TenorWeight[t] ELSE BucketWeight[b]

Up == 1
Down == 2
WS(d, t, dir) == Weight(d.b, t) * d.v[t][dir]
Sq(x) == x * x
Pos(x) == IF x > 0 THEN x ELSE 0

-------------------------------------------------------------------------------
(* The rollups *)

\* One row's share of a rollup hash: the sums of both directions, the sum of
\* the squares, and the count.
Share(d, t) ==
  [n |-> 1, up |-> WS(d, t, Up), sq |-> Sq(WS(d, t, Up)), down |-> WS(d, t, Down)]

Plus(x, y) ==
  IF x = NoRollup THEN y
  ELSE [n |-> x.n + y.n, up |-> x.up + y.up, sq |-> x.sq + y.sq, down |-> x.down + y.down]

\* A row that is written again counts only by what it changed.
Change(old, new, t) ==
  IF old = NoDoc THEN Share(new, t)
  ELSE [n |-> 0, up |-> WS(new, t, Up) - WS(old, t, Up),
        sq |-> Sq(WS(new, t, Up)) - Sq(WS(old, t, Up)),
        down |-> WS(new, t, Down) - WS(old, t, Down)]

\* emitRollupHincrs for a new row, emitRollupDelta for one that was there.
emitRollup(old, new) ==
  [k \in Key |->
     IF k[1] = new.b /\ k[2] \in Tenors THEN Plus(rollup[k], Change(old, new, k[2])) ELSE rollup[k]]

\* The key of a sensitivity names its bucket: a row never moves to another.
Rows(i) == [b : {BucketOf[i]}, v : [Tenors -> Value]]
MayWrite(i, d) == writes < MaxWrites /\ docs[i] # d

\* The stream consumer stores a row and its share in one pipeline.
Ingest(i, d) ==
  /\ MayWrite(i, d)
  /\ docs' = [docs EXCEPT ![i] = d] /\ writes' = writes + 1
  /\ rollup' = emitRollup(docs[i], d)
  /\ raced' = (raced \/ job.pc # "idle")
  /\ UNCHANGED <<mode, job, rho, kb, read, unrolled>>

\* The bulk loader stores rows and leaves the rollups to a batch job.
BulkLoad(i, d) ==
  /\ MayWrite(i, d)
  /\ docs' = [docs EXCEPT ![i] = d] /\ writes' = writes + 1
  /\ unrolled' = TRUE /\ raced' = (raced \/ job.pc # "idle")
  /\ UNCHANGED <<mode, rollup, job, rho, kb, read>>

\* Sums of all rows of a bucket: finaliseRcSens asks FT.AGGREGATE for them.
Totals(k) ==
  LET I == In(k[1])
      sum(F(_)) == MapThenSumSet(F, I)
  IN IF I = {} \/ k[2] \notin Tenors THEN NoRollup
     ELSE [n |-> Cardinality(I),
           up |-> sum(LAMBDA i : WS(docs[i], k[2], Up)),
           sq |-> sum(LAMBDA i : Sq(WS(docs[i], k[2], Up))),
           down |-> sum(LAMBDA i : WS(docs[i], k[2], Down))]

StartFinalise ==
  /\ job.pc = "idle"
  /\ job' = [pc |-> "write", acc |-> [k \in Key |-> Totals(k)], left |-> {}]
  /\ UNCHANGED <<mode, docs, rollup, rho, kb, read, writes, raced, unrolled>>

\* backfillRollups adds up the rows that SCAN returns, one by one.
StartBackfill ==
  /\ job.pc = "idle"
  /\ job' = [pc |-> "scan", acc |-> [k \in Key |-> NoRollup], left |-> Docs]
  /\ UNCHANGED <<mode, docs, rollup, rho, kb, read, writes, raced, unrolled>>

ScanRow(i) ==
  /\ job.pc = "scan" /\ i \in job.left
  /\ job' = [job EXCEPT !.left = @ \ {i},
       !.acc = [k \in Key |->
          IF k[1] = docs[i].b /\ k[2] \in Tenors THEN Plus(@[k], Share(docs[i], k[2])) ELSE @[k]]]
  /\ UNCHANGED <<mode, docs, rollup, rho, kb, read, writes, raced, unrolled>>

ScanEnds ==
  /\ job.pc = "scan" /\ job.left = {}
  /\ job' = [job EXCEPT !.pc = "write"]
  /\ UNCHANGED <<mode, docs, rollup, rho, kb, read, writes, raced, unrolled>>

\* HSET of every hash the job found rows for; the others stay as they are.
WriteRollups ==
  /\ job.pc = "write"
  /\ rollup' = [k \in Key |-> IF job.acc[k] = NoRollup THEN rollup[k] ELSE job.acc[k]]
  /\ job' = NoJob
  /\ unrolled' = (unrolled /\ raced)
  /\ UNCHANGED <<mode, docs, rho, kb, read, writes, raced>>

-------------------------------------------------------------------------------
(* K_b and S_b *)

\* kbFromConstantRho
kbFromConstantRho(sum, sq, r) == Pos(RhoD * sq + r * Pos(Sq(sum) - sq))

\* kbSquaredForDirection: the cross terms of two losses are dropped.
psi(a, b) == IF a < 0 /\ b < 0 THEN 0 ELSE 1
kbSquaredForDirection(K, cvr, r) ==
  Sq(RhoD) * MapThenSumSet(LAMBDA k : Sq(cvr[k]), K)
    + Sq(r) * MapThenSumSet(LAMBDA p : cvr[p[1]] * cvr[p[2]] * psi(cvr[p[1]], cvr[p[2]]),
                            {p \in K \X K : p[1] # p[2]})

\* The worse of the two directions; the upward one when they tie.
Worse(up, down) == IF down[1] > up[1] THEN down ELSE up

\* tryRollupReadout of one bucket from the hashes H of its tenors.
FromRollup(H, r) ==
  LET of(t, f) == IF H[t] = NoRollup THEN 0 ELSE H[t][f]
      total(f) == MapThenSumSet(LAMBDA t : of(t, f), Tenors)
      dir(f) == <<Pos(kbSquaredForDirection(Tenors, [t \in Tenors |-> of(t, f)], r)), total(f)>>
  IN IF leg = "curvature" THEN Worse(dir("up"), dir("down"))
     ELSE LET sq == IF perTenor /\ leg = "delta"
                    THEN MapThenSumSet(LAMBDA t : Sq(of(t, "up")), Tenors)
                    ELSE total("sq")
          IN <<kbFromConstantRho(total("up"), sq, r), total("up")>>

\* The field a query loads and weights: raw for the weights by bucket.
ByBucket == lazy /\ leg = "delta" /\ ~perTenor
Field(i, t, dir) == IF ByBucket THEN docs[i].v[t][dir] ELSE WS(docs[i], t, dir)

\* Mutant: the squares are scaled like the sums.
applyByBucketDeltaWeights_Linear(b, row) ==
  [row EXCEPT !.s = @ * BucketWeight[b], !.q = @ * BucketWeight[b]]

\* applyByBucketDeltaWeights
applyByBucketDeltaWeights(b, row) ==
  [row EXCEPT !.s = @ * BucketWeight[b], !.q = @ * Sq(BucketWeight[b])]

\* buildFastPathAggregateArgs: the terms of the sums, of the squares, and the
\* same of the losses only.
Term(f, x) ==
  CASE f = "s" -> x [] f = "q" -> Sq(x)
    [] f = "n" -> (IF x < 0 THEN x ELSE 0) [] f = "nq" -> (IF x < 0 THEN Sq(x) ELSE 0)

\* One field of the reply of one master.
Reduced(b, sh, t, dir, f) ==
  MapThenSumSet(LAMBDA i : Term(f, Field(i, t, dir)), {i \in In(b) : ShardOf[i] = sh})

\* The replies of the masters, added field by field.
Merged(b, t, dir) ==
  LET row == [f \in {"s", "q", "n", "nq"} |->
                MapThenSumSet(LAMBDA sh : Reduced(b, sh, t, dir, f), Shard)]
  IN IF ByBucket THEN applyByBucketDeltaWeights(b, row) ELSE row

\* kbCurvatureForDirection: scalar classes have only the sums to go by.
kbCurvatureForDirection(b, dir, r) ==
  LET cvr == [t \in Tenors |-> Merged(b, t, dir).s]
      row == Merged(b, "", dir)
  IN IF perTenor
     THEN <<Pos(kbSquaredForDirection(Tenors, cvr, r)), MapThenSumSet(LAMBDA t : cvr[t], Tenors)>>
     ELSE <<Pos(Sq(RhoD) * row.q + Sq(r) * ((Sq(row.s) - row.q) - (Sq(row.n) - row.nq))), row.s>>

\* aggregateBucketsViaIndex, bucketResultFromRow
FromIndex(b, r) ==
  LET sum == MapThenSumSet(LAMBDA t : Merged(b, t, Up).s, Tenors)
      sq == IF perTenor /\ leg = "delta"
            THEN MapThenSumSet(LAMBDA t : Sq(Merged(b, t, Up).s), Tenors)
            ELSE MapThenSumSet(LAMBDA t : Merged(b, t, Up).q, Tenors)
  IN IF leg = "curvature"
     THEN Worse(kbCurvatureForDirection(b, Up, r), kbCurvatureForDirection(b, Down, r))
     ELSE <<kbFromConstantRho(sum, sq, r), sum>>

\* The kernels and their references.  ws: the weighted value of every factor.
ConstantRho(ws, r) ==
  LET sum == MapThenSumSet(LAMBDA k : ws[k], DOMAIN ws)
      sq == MapThenSumSet(LAMBDA k : Sq(ws[k]), DOMAIN ws)
  IN <<Pos(RhoD * sq + r * Pos(Sq(sum) - sq)), sum>>

Winner(up, down, r) ==
  LET dir(cvr) == <<Pos(kbSquaredForDirection(DOMAIN cvr, cvr, r)),
                    MapThenSumSet(LAMBDA k : cvr[k], DOMAIN cvr)>>
  IN Worse(dir(up), dir(down))

\* GIRR nets the rows tenor by tenor for delta and curvature; every element of
\* a row is a factor of its own for vega.
Net(b, t, dir) == MapThenSumSet(LAMBDA i : docs[i].v[t][dir], In(b))
computeKbDelta(b, r) == ConstantRho([t \in Tenors |-> Weight(b, t) * Net(b, t, Up)], r)
computeKbVega(b, r) == ConstantRho([e \in In(b) \X Tenors |-> docs[e[1]].v[e[2]][Up]], r)
computeGirrCurvatureCharge(b, r) ==
  Winner([t \in Tenors |-> Net(b, t, Up)], [t \in Tenors |-> Net(b, t, Down)], r)

\* Every row is a factor of the scalar classes.
computeKbEquityDelta(b, r) == ConstantRho([i \in In(b) |-> Weight(b, "") * docs[i].v[""][Up]], r)
computeKbEquityVega(b, r) == ConstantRho([i \in In(b) |-> docs[i].v[""][Up]], r)
computeEquityCurvatureCharge(b, r) ==
  Winner([i \in In(b) |-> docs[i].v[""][Up]], [i \in In(b) |-> docs[i].v[""][Down]], r)

Kernel(b, r) ==
  CASE leg = "delta" /\ perTenor -> computeKbDelta(b, r)
    [] leg = "vega" /\ perTenor -> computeKbVega(b, r)
    [] leg = "curvature" /\ perTenor -> computeGirrCurvatureCharge(b, r)
    [] leg = "delta" /\ ~perTenor -> computeKbEquityDelta(b, r)
    [] leg = "vega" /\ ~perTenor -> computeKbEquityVega(b, r)
    [] OTHER -> computeEquityCurvatureCharge(b, r)

-------------------------------------------------------------------------------
(* A readout of the rollups *)

\* The buckets that a readout of B answers; none of them: it falls back.
TryRollup(B) ==
  LET rolled == {b \in B : \E t \in Tenors : rollup[<<b, t>>] # NoRollup} IN
  IF leg = "curvature" /\ ~perTenor THEN {}
  ELSE IF ~perTenor /\ rolled # B THEN {} ELSE rolled

HashesOf(b) == [t \in Tenors |-> rollup[<<b, t>>]]

\* HGETALL of one bucket, which a request may name alone; only scalar classes cache their K_b.
ReadRollup(b) ==
  /\ read.pc = "idle" /\ ~perTenor /\ b \in TryRollup({b})
  /\ read' = [pc |-> "lookup", b |-> b, of |-> HashesOf(b)[""], kb |-> 0, by |-> rho]
  /\ UNCHANGED <<mode, docs, rollup, job, rho, kb, writes, raced, unrolled>>

\* The entry is of the very content that was read.
lookupKbCacheEntry == kb[read.b].of = read.of

KbLookup ==
  /\ read.pc = "lookup"
  /\ read' = IF lookupKbCacheEntry
             THEN [read EXCEPT !.pc = "done", !.kb = kb[read.b].kb, !.by = kb[read.b].by]
             ELSE [read EXCEPT !.pc = "store", !.kb = FromRollup([t \in {""} |-> read.of], rho)[1]]
  /\ UNCHANGED <<mode, docs, rollup, job, rho, kb, writes, raced, unrolled>>

\* HSET of both fields, or nothing when Redis fails.
storeKbCacheEntry(ok) ==
  /\ read.pc = "store"
  /\ kb' = IF ok THEN [kb EXCEPT ![read.b] = [of |-> read.of, kb |-> read.kb, by |-> rho]] ELSE kb
  /\ read' = [read EXCEPT !.pc = "done"]
  /\ UNCHANGED <<mode, docs, rollup, job, rho, writes, raced, unrolled>>

ReadDone ==
  /\ read.pc = "done" /\ read' = NoRead
  /\ UNCHANGED <<mode, docs, rollup, job, rho, kb, writes, raced, unrolled>>

\* KB_CACHE_TTL_SEC after the store.
KbExpires(b) ==
  /\ kb[b] # NoEntry /\ kb' = [kb EXCEPT ![b] = NoEntry]
  /\ UNCHANGED <<mode, docs, rollup, job, rho, read, writes, raced, unrolled>>

\* The api starts again, perhaps with another schema; Redis keeps its cache.
Restart(r) ==
  /\ rho' = r /\ rho # r /\ read' = NoRead
  /\ UNCHANGED <<mode, docs, rollup, job, kb, writes, raced, unrolled>>

Writers ==
  \/ \E i \in Id : \E d \in Rows(i) : Ingest(i, d) \/ BulkLoad(i, d)
  \/ StartFinalise \/ StartBackfill \/ ScanEnds \/ WriteRollups
  \/ \E i \in Id : ScanRow(i)

Readers ==
  \/ \E b \in Bucket : ReadRollup(b) \/ KbExpires(b)
  \/ KbLookup \/ ReadDone \/ \E ok \in BOOLEAN : storeKbCacheEntry(ok)
  \/ \E r \in RhoN : Restart(r)

Next == Writers \/ Readers

Spec == Init /\ [][Next]_vars

-------------------------------------------------------------------------------
(* Properties *)

\* "Canonical out-of-process oracle for cross-validation": the merged replies
\* of the masters give the charge of the kernels, for weighted and raw fields.
IndexIsKernel == \A b \in Bucket : In(b) # {} => FromIndex(b, rho) = Kernel(b, rho)

\* Rollups that no row is missing from give the charge of the index: rows that
\* are written again and rebuilds by either job do not change that.
RollupIsIndex ==
  job.pc = "idle" /\ ~raced /\ ~unrolled =>
    \A b \in TryRollup({c \in Bucket : In(c) # {}}) : FromRollup(HashesOf(b), rho) = FromIndex(b, rho)

\* The cached K_b is that of the rollup that was read: nobody's late store can
\* leave the K_b of other content (the correlation is that of the storing api).
CachedKbOfContent ==
  read.pc = "done" => read.kb = FromRollup([t \in {""} |-> read.of], read.by)[1]

===============================================================================
