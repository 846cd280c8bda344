------------------------------ MODULE LoadResume ------------------------------
(***************************************************************************)
(* The resume watermark of a bulk-loader (services/bulk-loader/src         *)
(* checkpoint.ts, server.ts /load/checkpoints, pool.ts, index.ts): the     *)
(* highest row every worker has flushed, written to a hash per worker in   *)
(* rounds, read back when a runtime is built, and answered to producers    *)
(* that skip the rows at or below it (generator http-producer.ts).  The    *)
(* admission and the retries of rows are BulkLoader's; here a flush may    *)
(* store, keep or give up each row it holds, a producer posts a batch      *)
(* again when its answer is lost, and the rows of a Redis may be flushed   *)
(* under the watermark.  Rows are numbers in the order of their ULIDs; 0   *)
(* is no row, the empty last_ulid and the record that is not there.        *)
(***************************************************************************)
EXTENDS Naturals, FiniteSets

CONSTANTS
  NumWorkers,
  RedisTarget,         \* targets the loader is built for
  Producer,
  RowsOf,         \* rows each producer generates
  MaxRuntimes     \* bound of the model on runtimes ever built

ASSUME ResumeAssumption ==
  /\ NumWorkers \in Nat \ {0} /\ MaxRuntimes \in Nat
  /\ \A p \in Producer : IsFiniteSet(RowsOf[p]) /\ RowsOf[p] \subseteq Nat \ {0}
  /\ \A p, q \in Producer : p # q => RowsOf[p] \cap RowsOf[q] = {}

VARIABLES
  stored,     \* rows of each Redis
  flushed,    \* history: rows that a flush took from it
  hash,       \* last_ulid of bulk:checkpoint:<id> of each Redis
  proc,       \* the process: [st, on, to, next, built]: bound target, the next one, worker read
  boot,       \* bootstrapCheckpoints
  reading,    \* what loadAll has read
  live,       \* lastUlid in the metrics of the workers
  conn,       \* Worker.state of the pool
  buf,        \* rows buffered by a worker
  round,      \* the pending flushOnce: next worker, and what workers() returned
  gen         \* producers: [resume, asked, rest, open]: rows to come, rows posted without a 202

lvars == <<stored, flushed, hash, proc, boot, reading, live, conn, buf, round, gen>>

Worker == 1..NumWorkers
Each(x) == [w \in Worker |-> x]
NoRound == [at |-> 0, snap |-> Each(0)]
Highest(S) == IF S = {} THEN 0 ELSE CHOOSE n \in S : \A m \in S : m <= n

LInit ==
  /\ stored = [t \in RedisTarget |-> {}] /\ flushed = [t \in RedisTarget |-> {}]
  /\ hash = [t \in RedisTarget |-> Each(0)]
  /\ proc = [st |-> "down", on |-> "none", to |-> "none", next |-> 0, built |-> 0]
  /\ boot = Each(0) /\ reading = Each(0) /\ live = Each(0) /\ conn = Each("disconnected")
  /\ buf = Each({}) /\ round = NoRound
  /\ gen = [p \in Producer |-> [resume |-> 0, asked |-> FALSE, rest |-> RowsOf[p], open |-> {}]]

-------------------------------------------------------------------------------
(* A runtime: the pool connects, the checkpoints are read back *)

Building(t) ==
  /\ proc.built < MaxRuntimes
  /\ proc' = [proc EXCEPT !.st = "loading", !.to = t, !.next = 1, !.built = @ + 1]
  /\ conn' = Each("disconnected") /\ reading' = Each(0)
  /\ UNCHANGED <<buf, round>>

BootLoader(t) ==
  /\ proc.st = "down" /\ Building(t)
  /\ boot' = Each(0) /\ live' = Each(0)
  /\ UNCHANGED <<stored, flushed, hash, gen>>

\* loadAll: the keys are read in turn; one that cannot be read is skipped.
LoadOne ==
  /\ proc.st = "loading" /\ proc.next \in Worker
  /\ \/ reading' = [reading EXCEPT ![proc.next] = hash[proc.to][proc.next]]
     \/ UNCHANGED reading
  /\ proc' = [proc EXCEPT !.next = @ + 1]
  /\ UNCHANGED <<stored, flushed, hash, boot, live, conn, buf, round, gen>>

\* All are read, or five seconds have passed and none counts: the new runtime
\* takes the place of the old one, which answered until now.
LoadEnds ==
  /\ proc.st = "loading"
  /\ \/ proc.next \notin Worker /\ boot' = reading
     \/ boot' = Each(0)
  /\ proc' = [proc EXCEPT !.st = "up", !.on = proc.to, !.to = "none", !.next = 0]
  /\ live' = Each(0) /\ reading' = Each(0)
  /\ UNCHANGED <<stored, flushed, hash, conn, buf, round, gen>>

\* The events of a client: ready, and end, close or reconnecting; none once the pool
\* has disconnected it.
ClientEvent(w) ==
  /\ proc.st # "down" /\ conn[w] # "gone"
  /\ conn' = [conn EXCEPT ![w] = IF @ = "connected" THEN "disconnected" ELSE "connected"]
  /\ UNCHANGED <<stored, flushed, hash, proc, boot, reading, live, buf, round, gen>>

-------------------------------------------------------------------------------
(* Rows *)

\* GET /load/checkpoints: a worker that has flushed answers for itself, any other
\* by the record read back.
Answered(w) == IF live[w] # 0 THEN live[w] ELSE boot[w]
ResumeUlid == Highest({Answered(w) : w \in Worker})

\* The first add() of a producer asks once; an answer that fails is no watermark.
LoadResumeWatermark(p) ==
  /\ ~gen[p].asked
  /\ \/ proc.st # "down" /\ gen' = [gen EXCEPT ![p].asked = TRUE, ![p].resume = ResumeUlid]
     \/ gen' = [gen EXCEPT ![p].asked = TRUE]
  /\ UNCHANGED <<stored, flushed, hash, proc, boot, reading, live, conn, buf, round>>

\* add(): rows in order, those at or below the watermark are skipped; the others
\* go into a batch, and several batches are posted at a time.
Add(p) ==
  /\ gen[p].asked
  /\ \E r \in gen[p].rest :
       /\ \A q \in gen[p].rest : r <= q
       /\ gen' = [gen EXCEPT ![p].rest = @ \ {r},
                            ![p].open = IF r <= gen[p].resume THEN @ ELSE @ \cup {r}]
  /\ UNCHANGED <<stored, flushed, hash, proc, boot, reading, live, conn, buf, round>>

\* postBatch: a post that the loader takes gives the row to a worker; if the 202 is
\* lost, the batch is posted again, and perhaps to another worker or another Redis.
PostBatch(p) ==
  /\ proc.st = "up"
  /\ \E r \in gen[p].open :
       /\ \E w \in Worker : buf' = [buf EXCEPT ![w] = @ \cup {r}]
       /\ gen' = [gen EXCEPT ![p].open = @ \ {r}] \/ UNCHANGED gen
  /\ UNCHANGED <<stored, flushed, hash, proc, boot, reading, live, conn, round>>

\* flushBatch: of the rows held some are stored, some go to the dead-letter stream,
\* the others are held again; without a connection nothing is stored.  A row whose
\* reply is lost may be stored too.
FlushBatch(w) ==
  /\ proc.st \in {"up", "draining", "closing"} /\ buf[w] # {}
  /\ \E ok \in SUBSET buf[w] : \E dead, lost \in SUBSET (buf[w] \ ok) :
       /\ ok \cup lost # {} => conn[w] = "connected"
       /\ stored' = [stored EXCEPT ![proc.on] = @ \cup ok \cup lost]
       /\ buf' = [buf EXCEPT ![w] = @ \ (ok \cup dead)]
       /\ live' = [live EXCEPT ![w] = Highest({@} \cup ok)]
  /\ UNCHANGED <<flushed, hash, proc, boot, reading, conn, round, gen>>

\* environment: the rows of a Redis are flushed, its checkpoints with them (FLUSHDB
\* of /admin/flush) or left (/admin/cancel-all-runs unlinks sens:* only); nobody
\* tells the loader.
FlushRedis(t) ==
  /\ stored[t] # {}
  /\ stored' = [stored EXCEPT ![t] = {}] /\ flushed' = [flushed EXCEPT ![t] = @ \cup stored[t]]
  /\ hash' = [hash EXCEPT ![t] = Each(0)] \/ UNCHANGED hash
  /\ UNCHANGED <<proc, boot, reading, live, conn, buf, round, gen>>

-------------------------------------------------------------------------------
(* The rounds of checkpoints *)

\* workers() is asked once, when the round begins.
Snapshot_CountsHeld == [w \in Worker |-> Highest({live[w]} \cup buf[w])]
Snapshot == live
FlushOnce == round' = IF round.at = 0 THEN [at |-> 1, snap |-> Snapshot] ELSE round

Tick ==
  /\ proc.st \in {"up", "draining"} /\ round.at = 0 /\ FlushOnce
  /\ UNCHANGED <<stored, flushed, hash, proc, boot, reading, live, conn, buf, gen>>

\* One HSET, through the client of the first worker; one that fails is left out.
HsetOne ==
  /\ round.at # 0
  /\ round' = IF round.at = NumWorkers THEN NoRound ELSE [round EXCEPT !.at = @ + 1]
  /\ \/ conn[1] = "connected" /\ hash' = [hash EXCEPT ![proc.on][round.at] = round.snap[round.at]]
     \/ UNCHANGED hash
  /\ UNCHANGED <<stored, flushed, proc, boot, reading, live, conn, buf, gen>>

-------------------------------------------------------------------------------
(* The end of a runtime *)

\* SIGTERM: a last round, or the one under way, before the workers are drained.
Shutdown ==
  /\ proc.st = "up" /\ FlushOnce
  /\ proc' = [proc EXCEPT !.st = "closing"]
  /\ UNCHANGED <<stored, flushed, hash, boot, reading, live, conn, buf, gen>>

\* swapTarget: the workers are drained before the last round; where that takes too
\* long the swap is given up.
SwapTarget(t) ==
  /\ proc.st \in {"up", "stuck"} /\ t # proc.on
  /\ proc' = [proc EXCEPT !.st = "draining", !.to = t]
  /\ UNCHANGED <<stored, flushed, hash, boot, reading, live, conn, buf, round, gen>>
Drained ==
  /\ proc.st = "draining" /\ \A w \in Worker : buf[w] = {}
  /\ proc' = [proc EXCEPT !.st = "closing"] /\ FlushOnce
  /\ UNCHANGED <<stored, flushed, hash, boot, reading, live, conn, buf, gen>>
DrainTimeout ==
  /\ proc.st = "draining" /\ \E w \in Worker : buf[w] # {}
  /\ proc' = [proc EXCEPT !.st = "up", !.to = "none"]
  /\ UNCHANGED <<stored, flushed, hash, boot, reading, live, conn, buf, round, gen>>

\* The round has ended, the workers hold nothing: the process exits, or builds the
\* runtime of the new target; if that fails, the old one answers on, disconnected.
TornDown ==
  /\ proc.st = "closing" /\ round.at = 0 /\ \A w \in Worker : buf[w] = {}
  /\ \/ /\ proc.to = "none"
        /\ proc' = [proc EXCEPT !.st = "down"] /\ conn' = Each("disconnected")
        /\ UNCHANGED <<reading, buf, round>>
     \/ proc.to # "none" /\ Building(proc.to)
     \/ /\ proc.to # "none"
        /\ proc' = [proc EXCEPT !.st = "stuck", !.to = "none"] /\ conn' = Each("gone")
        /\ UNCHANGED <<reading, buf, round>>
  /\ UNCHANGED <<stored, flushed, hash, boot, live, gen>>

\* The process dies; what it held is lost, but for rows a pipeline had sent.
Dies ==
  /\ proc.st # "down"
  /\ \E ok \in SUBSET UNION {buf[w] : w \in Worker} :
       /\ ok # {} => proc.st # "loading"
       /\ stored' = IF ok = {} THEN stored ELSE [stored EXCEPT ![proc.on] = @ \cup ok]
  /\ proc' = [proc EXCEPT !.st = "down", !.to = "none", !.next = 0]
  /\ buf' = Each({}) /\ round' = NoRound /\ conn' = Each("disconnected")
  /\ UNCHANGED <<flushed, hash, boot, reading, live, gen>>

LNext ==
  \/ \E t \in RedisTarget : BootLoader(t) \/ SwapTarget(t) \/ FlushRedis(t)
  \/ LoadOne \/ LoadEnds
  \/ \E w \in Worker : ClientEvent(w) \/ FlushBatch(w)
  \/ \E p \in Producer : LoadResumeWatermark(p) \/ Add(p) \/ PostBatch(p)
  \/ Tick \/ HsetOne
  \/ Shutdown \/ Drained \/ DrainTimeout \/ TornDown \/ Dies

LSpec == LInit /\ [][LNext]_lvars

-------------------------------------------------------------------------------
(* Properties *)

\* The watermark a producer is answered, and every one that is kept, is a row that
\* was stored in that very Redis: never one still held, given up, or stored in
\* another Redis, whatever crashes, swaps, repeated posts and failed rounds came
\* between (checkpoint.ts, /load/checkpoints).  It is there no longer only where a
\* flush took it.
ResumeIsStored ==
  /\ proc.st # "down" /\ ResumeUlid # 0 => ResumeUlid \in stored[proc.on] \cup flushed[proc.on]
  /\ \A t \in RedisTarget, w \in Worker : hash[t][w] \in {0} \cup stored[t] \cup flushed[t]
===============================================================================
