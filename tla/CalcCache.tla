----------------------------- MODULE CalcCache --------------------------------
(***************************************************************************)
(* The calculations of the api (routes/calc.ts) and their response cache   *)
(* (sbm/calc-cache.ts) under flushes of the data and target switches.      *)
(*                                                                         *)
(* POST /calc/sbm computes one cell; POST /calc/sbm/total one cell per     *)
(* correlation regime, which share the fan-out over the buckets.  What a   *)
(* charge says is abstracted to the Redis it was read from, how often that *)
(* had been flushed, and the question it answers.                          *)
(***************************************************************************)
EXTENDS Naturals

CONSTANTS
  Caller,      \* calculations that may be under way at once
  Server,      \* Redis targets the operator switches between
  Regime,      \* correlation regimes a total is computed for
  Question,    \* "whole" risk class, or the "cells" named by bucket_cells
  MaxRetarget, \* bound: target switches
  MaxFlush     \* bound: flushes of each Redis, and the versions

Nowhere == "no target"

ASSUME CacheAssumption ==
  "whole" \in Question /\ Nowhere \notin Server /\ MaxFlush \in Nat

VARIABLES
  target,      \* the active target
  data,        \* environment: how often each Redis was flushed
  stamp,       \* calc:data_version of each Redis
  heard,       \* history: how often each had been flushed when the cache was last cleared
  dataVersion, \* the stamp as the api remembers it, or NoVersion
  cache,       \* the response cache
  work,        \* the calculation of each request
  flush,       \* the flush handler
  retargets

cachevars == <<target, data, stamp, heard, dataVersion, cache, work, flush, retargets>>

Version == 0..MaxFlush
NoVersion == MaxFlush + 1

Charge == [q : Question, t : Server, d : 0..MaxFlush]
NoCharge == [q |-> "whole", t |-> Nowhere, d |-> 0]

\* An entry of the cache; its key is the question, the regime and the version.
Entry == [q : Question, g : Regime, v : Version, charge : Charge, late : BOOLEAN]

NoWork == [busy |-> FALSE, q |-> "whole", on |-> Nowhere,
           cell |-> [g \in Regime |-> "unused"], fan |-> "none", got |-> NoCharge, late |-> FALSE]

CacheInit ==
  /\ target \in Server
  /\ data = [t \in Server |-> 0] /\ stamp = [t \in Server |-> 0] /\ heard = data
  /\ dataVersion = NoVersion /\ cache = {}
  /\ work = [r \in Caller |-> NoWork]
  /\ flush = [pc |-> "idle", on |-> Nowhere] /\ retargets = 0

Working(r) == work[r].busy

-------------------------------------------------------------------------------
(* The handlers: computeSbmCharge, cell by cell *)

\* Body and query are valid, and a client is asked for.
StartCharge(r, regimes, q) ==
  /\ ~Working(r)
  /\ work' = [work EXCEPT ![r] =
       [NoWork EXCEPT !.busy = TRUE, !.q = q,
          !.cell = [g \in Regime |-> IF g \in regimes THEN "todo" ELSE "unused"]]]
  /\ UNCHANGED <<target, data, stamp, heard, dataVersion, cache, flush, retargets>>

\* getRedis resolves: the client stays the one of that target.
GotClient(r) ==
  /\ Working(r) /\ work[r].on = Nowhere
  /\ work' = [work EXCEPT ![r].on = target]
  /\ UNCHANGED <<target, data, stamp, heard, dataVersion, cache, flush, retargets>>

SetCell(r, g, pc) == work' = [work EXCEPT ![r].cell[g] = pc]

\* getDataVersion: the remembered stamp, or the answer of the client's Redis.
ReadVersion(r) ==
  IF dataVersion # NoVersion THEN dataVersion ELSE stamp[work[r].on]

Hit(r, g, v) == \E e \in cache : e.q = work[r].q /\ e.g = g /\ e.v = v

\* The first getDataVersion and the lookup.
Lookup(r, g) ==
  LET v == ReadVersion(r) IN
  /\ Working(r) /\ work[r].on # Nowhere /\ work[r].cell[g] = "todo"
  /\ dataVersion' = v
  /\ IF Hit(r, g, v)
     THEN SetCell(r, g, "hit")
     ELSE work' = [work EXCEPT ![r].cell[g] = "fanout",
                               ![r].fan = IF @ = "none" THEN "running" ELSE @]
  /\ UNCHANGED <<target, data, stamp, heard, cache, flush, retargets>>

\* runSbmFanoutPhase reads the buckets from the Redis of its client.
FanoutReads(r) ==
  /\ Working(r) /\ work[r].fan = "running"
  /\ work' = [work EXCEPT ![r].fan = "read",
       ![r].got = [q |-> work[r].q, t |-> work[r].on, d |-> data[work[r].on]]]
  /\ UNCHANGED <<target, data, stamp, heard, dataVersion, cache, flush, retargets>>

\* A Redis error that translates to a status; every cell that waits gets it.
FanoutFails(r) ==
  /\ Working(r) /\ work[r].fan \in {"running", "read"}
  /\ work' = [work EXCEPT ![r].fan = "failed"]
  /\ UNCHANGED <<target, data, stamp, heard, dataVersion, cache, flush, retargets>>

\* finalizeSbmCharge builds the key anew and leaves bucket_cells out of it.
StoredQuestion(q) == "whole"

\* storeCalcCache: one entry for each key.
Stored(q, g, v, r) ==
  {e \in cache : ~(e.q = q /\ e.g = g /\ e.v = v)}
    \cup {[q |-> q, g |-> g, v |-> v, charge |-> work[r].got, late |-> work[r].late]}

\* finalizeSbmCharge: reduce, ask for the version again, store.
Finalize(r, g) ==
  LET v == ReadVersion(r) IN
  /\ Working(r) /\ work[r].cell[g] = "fanout" /\ work[r].fan = "read"
  /\ dataVersion' = v
  /\ cache' = Stored(StoredQuestion(work[r].q), g, v, r)
  /\ SetCell(r, g, "done")
  /\ UNCHANGED <<target, data, stamp, heard, flush, retargets>>

CellFails(r, g) ==
  /\ Working(r) /\ work[r].cell[g] = "fanout" /\ work[r].fan = "failed"
  /\ SetCell(r, g, "failed")
  /\ UNCHANGED <<target, data, stamp, heard, dataVersion, cache, flush, retargets>>

Settled(r) == \A g \in Regime : work[r].cell[g] \in {"unused", "hit", "done", "failed"}

\* Every cell is settled: the reply is written.
Reply(r) ==
  /\ Working(r) /\ Settled(r)
  /\ work' = [work EXCEPT ![r] = NoWork]
  /\ UNCHANGED <<target, data, stamp, heard, dataVersion, cache, flush, retargets>>

\* No client could be built, or a Redis error without a translation.
GivesUp(r) ==
  /\ Working(r) /\ ~Settled(r)
  /\ work[r].on = Nowhere \/ work[r].fan = "running"
  /\ work' = [work EXCEPT ![r] = NoWork]
  /\ UNCHANGED <<target, data, stamp, heard, dataVersion, cache, flush, retargets>>

-------------------------------------------------------------------------------
(* Invalidation *)

\* Mutant: no listener clears the cache.
Cleared_Never == cache

Cleared == {}

\* History: a calculation is late when the cache was cleared after it had its
\* client, by a switch, or after it had read its buckets, by a flush.
MadeLate(P(_)) == [r \in Caller |-> [work[r] EXCEPT !.late = @ \/ P(r)]]

\* commitActiveTargetSync runs the listener of the cache.
Retarget(t) ==
  /\ retargets < MaxRetarget /\ t # target
  /\ retargets' = retargets + 1
  /\ target' = t
  /\ dataVersion' = NoVersion /\ cache' = Cleared
  /\ work' = MadeLate(LAMBDA r : work[r].on # Nowhere)
  /\ heard' = data
  /\ UNCHANGED <<data, stamp, flush>>

\* FLUSHDB removes the stamp with everything else.  The client is from before the
\* bulk-loader was halted: a switch may have passed since.
Flushed(t) ==
  /\ t = target \/ retargets > 0
  /\ data[t] < MaxFlush
  /\ data' = [data EXCEPT ![t] = @ + 1]
  /\ stamp' = [stamp EXCEPT ![t] = 0]
  /\ UNCHANGED <<target, heard, dataVersion, cache, work, retargets>>

\* POST /admin/flush, which goes on to bumpDataVersion.
FlushDb(t) ==
  /\ flush.pc = "idle"
  /\ Flushed(t)
  /\ flush' = [pc |-> "flushed", on |-> t]

\* Its FLUSHDB is carried out and the reply is lost: the handler answers an error
\* and leaves the cache alone.
FlushReplyLost(t) == Flushed(t) /\ UNCHANGED flush

\* POST /admin/cancel-all-runs has ingest unlink every sens:* document, and nobody
\* tells the cache.
HaltAndFlush(t) ==
  /\ t = target \/ retargets > 0
  /\ data[t] < MaxFlush
  /\ data' = [data EXCEPT ![t] = @ + 1]
  /\ UNCHANGED <<target, stamp, heard, dataVersion, cache, work, flush, retargets>>

\* bumpDataVersion: INCR, or one more than the remembered stamp when it fails.
BumpVersion(failed) ==
  /\ flush.pc = "flushed"
  /\ stamp' = IF failed THEN stamp ELSE [stamp EXCEPT ![flush.on] = @ + 1]
  /\ dataVersion' = IF ~failed THEN stamp'[flush.on]
                    ELSE IF dataVersion = NoVersion THEN 1 ELSE dataVersion + 1
  /\ dataVersion' \in Version
  /\ cache' = Cleared
  /\ work' = MadeLate(LAMBDA r : work[r].fan = "read")
  /\ flush' = [pc |-> "idle", on |-> Nowhere]
  /\ heard' = data
  /\ UNCHANGED <<target, data, retargets>>

\* The entry is CALC_CACHE_TTL_MS old.
CacheExpires(e) ==
  /\ e \in cache
  /\ cache' = cache \ {e}
  /\ UNCHANGED <<target, data, stamp, heard, dataVersion, work, flush, retargets>>

ChargeStep(r) ==
  \/ \E regimes \in {Regime} \cup {{g} : g \in Regime}, q \in Question : StartCharge(r, regimes, q)
  \/ GotClient(r) \/ FanoutReads(r) \/ FanoutFails(r) \/ Reply(r) \/ GivesUp(r)
  \/ \E g \in Regime : Lookup(r, g) \/ Finalize(r, g) \/ CellFails(r, g)

Invalidation ==
  \/ \E t \in Server : Retarget(t) \/ FlushDb(t) \/ FlushReplyLost(t) \/ HaltAndFlush(t)
  \/ \E failed \in BOOLEAN : BumpVersion(failed)
  \/ \E e \in cache : CacheExpires(e)

CacheNext == (\E r \in Caller : ChargeStep(r)) \/ Invalidation

CacheSpec == CacheInit /\ [][CacheNext]_cachevars

-------------------------------------------------------------------------------
(* Properties *)

Work == [busy : BOOLEAN, q : Question, on : Server \cup {Nowhere},
         cell : [Regime -> {"unused", "todo", "hit", "fanout", "done", "failed"}],
         fan : {"none", "running", "read", "failed"}, got : Charge \cup {NoCharge}, late : BOOLEAN]

\* The types; a calculation that has read the buckets had a client and has a charge.
CacheTypeOK ==
  /\ target \in Server /\ data \in [Server -> 0..MaxFlush] /\ stamp \in [Server -> Version]
  /\ heard \in [Server -> 0..MaxFlush]
  /\ dataVersion \in Version \cup {NoVersion} /\ cache \subseteq Entry
  /\ flush \in [pc : {"idle", "flushed"}, on : Server \cup {Nowhere}]
  /\ flush.pc = "flushed" => flush.on \in Server
  /\ work \in [Caller -> Work]
  /\ \A r \in Caller : work[r].fan # "none" => work[r].on \in Server
  /\ \A r \in Caller : work[r].fan = "read" => work[r].got \in Charge

\* What a lookup would find now.
Servable == {e \in cache : dataVersion = NoVersion \/ e.v = dataVersion}

\* A charge of another target, or of data from before the last flush or switch the
\* cache was told of, is served only when its calculation overlapped that flush or
\* switch.  Nobody tells it of a FLUSHDB whose reply is lost (admin.ts 202-212) or
\* of the documents that cancel-all-runs unlinks: charges of those are served
\* until they expire.
StaleOnlyByOverlap ==
  \A e \in Servable :
    e.late \/ (e.charge.t = target /\ e.charge.d >= heard[target])

\* "A single module-global Map keyed by the canonical request body": what is
\* served from the cache answers the question of the request.
ServedAnswersQuestion ==
  [][\A r \in Caller, g \in Regime :
       work[r].cell[g] = "todo" /\ work'[r].cell[g] = "hit"
         => \A e \in cache : e.q = work[r].q /\ e.g = g /\ e.v = dataVersion'
              => e.charge.q = work[r].q]_cachevars
===============================================================================
