---------------------------- MODULE IngestConsumer ----------------------------
(***************************************************************************)
(* The stream consumer of ingest (services/ingest/src/consumer.ts): one    *)
(* consumer group, several runners, each with a connection of its own.  An *)
(* entry carries a sensitivity row; it is written to the hash of the row,  *)
(* its weighted value is added to the rollup of its bucket, and it is      *)
(* acknowledged.  Entries that are not acknowledged stay in the pending    *)
(* list of their runner and are read again at boot and every 30 s.         *)
(*                                                                         *)
(* The hash formats go through processBatchAtomic: three phases per entry, *)
(* of which a failure may hit any, before or after Redis has applied it.   *)
(* The JSON formats go through processBatch: one pipeline per batch.       *)
(* A single command that Redis refuses (WRONGTYPE, NOPERM, out of memory)  *)
(* stops neither: it is logged or not looked at, and the entry goes on to  *)
(* its XACK.                                                               *)
(*                                                                         *)
(* One rollup stands for all of them: a row keeps its bucket, and the sums *)
(* of squares and per tenor move with the sum.  Seen sets, suggesters and  *)
(* LIVE_TAIL_MODE, which leaves out phase 2, are left out.                 *)
(***************************************************************************)
EXTENDS Integers, Sequences, FiniteSetsExt, Functions

CONSTANTS
  Runner,      \* the runners, by consumer name
  Row,         \* the rows, by _id
  MaxValue,    \* bound: weighted values are 1..MaxValue
  BatchSize,
  MaxRetry,    \* MAX_WATCH_RETRIES
  Environment  \* the surroundings to consider

Value == 1..MaxValue
Entry == [kind : {"row", "malformed", "poison"}, row : Row, val : Value]

\* The stream, the writer in use, a bound on crashes, lost connections and refusals,
\* and whether Redis may refuse single commands.
EnvironmentType ==
  [stream : Seq(Entry), atomic : BOOLEAN, faults : Nat, refuses : BOOLEAN]

ASSUME ConsumerAssumption ==
  /\ IsFiniteSet(Runner) /\ IsFiniteSet(Row)
  /\ MaxValue \in Nat /\ BatchSize \in Nat /\ MaxRetry \in Nat
  /\ Environment \subseteq EnvironmentType

VARIABLES
  env,         \* the surroundings, the same for ever
  delivered,   \* last-delivered id of the group
  pel,         \* the pending list of each runner: ids, read in their order
  acked,
  doc,         \* the value in the hash of each row, 0 without a hash
  rollup,      \* sum_ws and count
  marker,      \* entries with a processed: key
  runner,      \* the loop of each runner
  faults,      \* crashes, lost connections and refusals so far
  torn,        \* history: a row changed without its rollup, or the other way round
  refused      \* history: entries that went on although a command was refused

store == <<doc, rollup, marker>>
group == <<delivered, pel, acked>>
history == <<torn, refused>>
vars == <<env, group, store, runner, faults, history>>

Stream == env.stream
Idle(mode) == [mode |-> mode, pc |-> "idle", batch |-> {}, n |-> 0,
               old |-> 0, dirty |-> FALSE, tries |-> 0]

Init ==
  /\ env \in Environment
  /\ delivered = 0 /\ pel = [r \in Runner |-> {}] /\ acked = {}
  /\ doc = [w \in Row |-> 0] /\ rollup = [sum |-> 0, count |-> 0] /\ marker = {}
  /\ runner = [r \in Runner |-> Idle("boot")]
  /\ faults = 0 /\ torn = FALSE /\ refused = {}

At(r, p) == runner[r].pc = p
Id(r) == Min(runner[r].batch)
Here(r) == Stream[Id(r)]

\* The next entry of the batch; n counts the entries that are done.
Advanced(r, k) ==
  [Idle(runner[r].mode) EXCEPT !.pc = "entry", !.batch = runner[r].batch \ {Id(r)},
                               !.n = runner[r].n + k]

Ack(r, ids) ==
  /\ acked' = acked \cup ids
  /\ pel' = [pel EXCEPT ![r] = @ \ ids]

\* The first k of some ids, in their order.
First(ids, k) == {i \in ids : Cardinality({j \in ids : j < i}) < k}

-------------------------------------------------------------------------------
(* loop and tick *)

\* XREADGROUP ... 0: what is pending, from the front; nothing ends the drain.
ReadPending(r) ==
  /\ At(r, "idle") /\ runner[r].mode # "forward"
  /\ runner' = [runner EXCEPT ![r] =
       IF pel[r] = {} THEN Idle("forward")
       ELSE [@ EXCEPT !.pc = "entry", !.batch = First(pel[r], BatchSize)]]
  /\ UNCHANGED <<env, group, store, faults, history>>

\* XREADGROUP ... >: as many new entries as have been added by then.
ReadNew(r) ==
  /\ At(r, "idle") /\ runner[r].mode = "forward"
  /\ \E k \in 1..BatchSize :
       LET ids == (delivered + 1)..(delivered + k) IN
       /\ delivered + k <= Len(Stream)
       /\ delivered' = delivered + k
       /\ pel' = [pel EXCEPT ![r] = @ \cup ids]
       /\ runner' = [runner EXCEPT ![r].pc = "entry", ![r].batch = ids]
  /\ UNCHANGED <<env, acked, store, faults, history>>

\* pelDrainIntervalMs have passed.
DrainDue(r) ==
  /\ At(r, "idle") /\ runner[r].mode = "forward"
  /\ runner' = [runner EXCEPT ![r].mode = "drain"]
  /\ UNCHANGED <<env, group, store, faults, history>>

\* A drain goes on as long as it gets something done.
EndTick(r) ==
  /\ At(r, "entry") /\ runner[r].batch = {}
  /\ runner' = [runner EXCEPT ![r] =
       Idle(IF runner[r].n > 0 THEN runner[r].mode ELSE "forward")]
  /\ UNCHANGED <<env, group, store, faults, history>>

-------------------------------------------------------------------------------
(* processBatchAtomic *)

Current(r, kind) ==
  At(r, "entry") /\ runner[r].batch # {} /\ Here(r).kind = kind /\ env.atomic

Malformed(r) ==
  /\ Current(r, "malformed")
  /\ Ack(r, {Id(r)})
  /\ runner' = [runner EXCEPT ![r] = Advanced(r, 1)]
  /\ UNCHANGED <<env, delivered, store, faults, history>>

\* The fields of the entry cannot be read: tick catches the exception, the rest of
\* the batch stays pending.
Poisoned(r) ==
  /\ Current(r, "poison")
  /\ runner' = [runner EXCEPT ![r] = Idle("forward")]
  /\ UNCHANGED <<env, group, store, faults, history>>

\* WATCH, HGETALL.
Watch(r) ==
  /\ Current(r, "row")
  /\ runner' = [runner EXCEPT ![r].pc = "phase1", ![r].old = doc[Here(r).row], ![r].dirty = FALSE]
  /\ UNCHANGED <<env, group, store, faults, history>>

\* The commands that are applied of those that reach Redis.
Applied(commands) == IF env.refuses THEN SUBSET commands ELSE {commands}

Refusal == env.refuses /\ faults < env.faults /\ faults' = faults + 1

Changes(r) == runner[r].old # Here(r).val

\* HSET by r, which goes on as rec; whoever watches the row must try again.
Write(r, rec) ==
  /\ doc' = [doc EXCEPT ![Here(r).row] = Here(r).val]
  /\ runner' = [q \in Runner |->
       IF q = r THEN rec
       ELSE [runner[q] EXCEPT !.dirty = @ \/ (At(q, "phase1") /\ Here(q).row = Here(r).row)]]

\* Mutant: EXEC goes through although the row has changed.
Exec1_NoWatch(r) ==
  /\ At(r, "phase1")
  /\ Write(r, [runner[r] EXCEPT !.pc = "phase2"])
  /\ UNCHANGED <<env, group, rollup, marker, faults, history>>

Exec1(r) ==
  /\ At(r, "phase1") /\ ~runner[r].dirty
  /\ Write(r, [runner[r] EXCEPT !.pc = "phase2"])
  /\ UNCHANGED <<env, group, rollup, marker, faults, history>>

\* The HSET is refused inside EXEC: "the row still proceeds".
Exec1Refused(r) ==
  /\ At(r, "phase1") /\ ~runner[r].dirty
  /\ Refusal
  /\ runner' = [runner EXCEPT ![r].pc = "phase2"]
  /\ torn' = (torn \/ Changes(r)) /\ refused' = refused \cup {Id(r)}
  /\ UNCHANGED <<env, group, store>>

\* EXEC returned null: watch again, in the end leave the entry pending.
Retry(r) ==
  /\ At(r, "phase1") /\ runner[r].dirty
  /\ runner' = [runner EXCEPT ![r] =
       IF @.tries < MaxRetry THEN [@ EXCEPT !.pc = "entry", !.tries = runner[r].tries + 1]
       ELSE Advanced(r, 0)]
  /\ UNCHANGED <<env, group, store, faults, history>>

\* The commands of phase 2, of which done are applied: the delta against the hash
\* phase 1 has replaced, and the marker, which once set says that the entry has
\* been rolled up.
RollUpCommands == {"rollup", "marker"}
RollUp(r, done) ==
  /\ rollup' = IF Id(r) \in marker \/ "rollup" \notin done THEN rollup
               ELSE [sum |-> rollup.sum + Here(r).val - runner[r].old,
                     count |-> rollup.count + IF runner[r].old = 0 THEN 1 ELSE 0]
  /\ marker' = marker \cup IF "marker" \in done THEN {Id(r)} ELSE {}
  /\ torn' = (torn \/ (Changes(r) /\ rollup' = rollup))

Exec2(r) ==
  /\ At(r, "phase2")
  /\ RollUp(r, RollUpCommands)
  /\ runner' = [runner EXCEPT ![r].pc = "tail"]
  /\ UNCHANGED <<env, group, doc, faults, refused>>

Exec2Refused(r) ==
  /\ At(r, "phase2") /\ Id(r) \notin marker
  /\ Refusal
  /\ \E done \in SUBSET RollUpCommands : done # RollUpCommands /\ RollUp(r, done)
  /\ refused' = refused \cup {Id(r)}
  /\ runner' = [runner EXCEPT ![r].pc = "tail"]
  /\ UNCHANGED <<env, group, doc>>

\* Phase 3: XACK.
Settle(r) ==
  /\ At(r, "tail")
  /\ Ack(r, {Id(r)})
  /\ runner' = [runner EXCEPT ![r] = Advanced(r, 1)]
  /\ UNCHANGED <<env, delivered, store, faults, history>>

\* The XACK is refused: the entry stays pending, the loop counts it as done.
SettleRefused(r) ==
  /\ At(r, "tail")
  /\ Refusal
  /\ runner' = [runner EXCEPT ![r] = Advanced(r, 1)]
  /\ UNCHANGED <<env, group, store, history>>

\* The process crashes, and starts again under its name, or a command of the phase
\* fails; what was sent may have been applied.
Interrupted(r, mode) ==
  /\ env.atomic /\ ~At(r, "idle")
  /\ faults < env.faults /\ faults' = faults + 1
  /\ \/ /\ runner' = [runner EXCEPT ![r] = Idle(mode)]
        /\ torn' = (torn \/ (At(r, "phase2") /\ Changes(r)))
        /\ UNCHANGED <<group, store>>
     \/ /\ At(r, "phase1") /\ ~runner[r].dirty
        /\ Write(r, Idle(mode))
        /\ torn' = (torn \/ Changes(r))
        /\ UNCHANGED <<group, rollup, marker>>
     \/ /\ At(r, "phase2")
        /\ \E done \in Applied(RollUpCommands) : RollUp(r, done)
        /\ runner' = [runner EXCEPT ![r] = Idle(mode)]
        /\ UNCHANGED <<group, doc>>
     \/ /\ At(r, "tail")
        /\ Ack(r, {Id(r)})
        /\ runner' = [runner EXCEPT ![r] = Idle(mode)]
        /\ UNCHANGED <<delivered, store, torn>>
  /\ UNCHANGED <<env, refused>>

-------------------------------------------------------------------------------
(* processBatch: the pipeline of a batch, without transaction or marker *)

RowsOf(ids) == {i \in ids : Stream[i].kind = "row"}
Last(ids, w) == Max({i \in ids : Stream[i].row = w})

\* What is applied of the pipeline of a batch: JSON.SET of the entries docs and
\* HINCRBYFLOAT of the entries sums, in order, and XACK of the entries ids.
\* A batch with an entry that cannot be read is never sent.
Pipeline(r, docs, sums, ids) ==
  /\ ~env.atomic /\ At(r, "entry") /\ runner[r].batch # {}
  /\ \A i \in runner[r].batch : Stream[i].kind # "poison"
  /\ doc' = [w \in Row |-> IF \E i \in docs : Stream[i].row = w
                           THEN Stream[Last(docs, w)].val ELSE doc[w]]
  /\ rollup' = [sum |-> rollup.sum + SumFunction([i \in sums |-> Stream[i].val]),
                count |-> rollup.count + Cardinality(sums)]
  /\ Ack(r, ids)
  /\ refused' = refused \cup (RowsOf(ids) \ (docs \cap sums))
  /\ UNCHANGED <<env, delivered, marker, torn>>

BatchDone(r) ==
  runner' = [runner EXCEPT ![r] =
    [Idle(@.mode) EXCEPT !.pc = "entry", !.n = Cardinality(RowsOf(runner[r].batch))]]

PipelineDone(r) ==
  /\ LET batch == runner[r].batch IN Pipeline(r, RowsOf(batch), RowsOf(batch), batch)
  /\ BatchDone(r)
  /\ UNCHANGED faults

\* The results of the single commands are not looked at.
PipelineRefused(r) ==
  /\ Refusal
  /\ \E docs, sums \in SUBSET RowsOf(runner[r].batch), ids \in SUBSET runner[r].batch :
       Pipeline(r, docs, sums, ids)
  /\ BatchDone(r)

\* The commands of the first k entries arrive, and those of the next entry up to
\* its XACK.
PipelineBreaks(r, mode) ==
  /\ faults < env.faults /\ faults' = faults + 1
  /\ \E k \in 0..Cardinality(runner[r].batch), next \in {0, 1} :
       LET rows == RowsOf(First(runner[r].batch, k + next)) IN
       /\ k + next <= Cardinality(runner[r].batch)
       /\ \E docs, sums \in Applied(rows), ids \in Applied(First(runner[r].batch, k)) :
            Pipeline(r, docs, sums, ids)
  /\ runner' = [runner EXCEPT ![r] = Idle(mode)]

PipelinePoisoned(r) ==
  /\ ~env.atomic /\ At(r, "entry")
  /\ \E i \in runner[r].batch : Stream[i].kind = "poison"
  /\ runner' = [runner EXCEPT ![r] = Idle("forward")]
  /\ UNCHANGED <<env, group, store, faults, history>>

-------------------------------------------------------------------------------
Step(r) ==
  \/ ReadPending(r) \/ ReadNew(r) \/ EndTick(r)
  \/ Malformed(r) \/ Poisoned(r) \/ Watch(r) \/ Exec1(r) \/ Retry(r) \/ Exec2(r) \/ Settle(r)
  \/ PipelineDone(r) \/ PipelinePoisoned(r)

Refused(r) ==
  Exec1Refused(r) \/ Exec2Refused(r) \/ SettleRefused(r) \/ PipelineRefused(r)

Fault(r, mode) == Interrupted(r, mode) \/ PipelineBreaks(r, mode)

Next ==
  \/ \E r \in Runner : Step(r) \/ DrainDue(r) \/ Refused(r)
  \/ \E r \in Runner, mode \in {"boot", "forward"} : Fault(r, mode)

\* The loops run on, the drain interval passes, and a drain does not keep a loop
\* from its forward read: every turn of it ends with one.
Fairness ==
  \A r \in Runner : WF_vars(Step(r)) /\ WF_vars(DrainDue(r)) /\ SF_vars(ReadNew(r))

Spec == Init /\ [][Next]_vars /\ Fairness

-------------------------------------------------------------------------------
(* Properties *)

TypeOK ==
  /\ env \in Environment
  /\ delivered \in 0..Len(Stream) /\ acked \subseteq 1..delivered /\ marker \subseteq 1..delivered
  /\ pel \in [Runner -> SUBSET ((1..delivered) \ acked)]
  /\ doc \in [Row -> Value \cup {0}]
  /\ rollup \in [sum : Int, count : Int]
  /\ runner \in [Runner ->
       [mode : {"boot", "drain", "forward"}, pc : {"idle", "entry", "phase1", "phase2", "tail"},
        batch : SUBSET (1..delivered), n : Nat, old : Value \cup {0}, dirty : BOOLEAN,
        tries : 0..MaxRetry]]
  /\ \A r \in Runner : runner[r].batch \subseteq pel[r]
  /\ faults \in 0..env.faults /\ torn \in BOOLEAN /\ refused \subseteq 1..delivered

Stored == {w \in Row : doc[w] # 0}
Total == SumFunction(doc)
Owing == {r \in Runner : At(r, "phase2")}

\* "applies (new - old) to the rollup hashes instead of additively
\* double-counting": whatever entries of the same rows the runners work on at
\* once, retry, give up and read again, the rollup is the rows stored, but for the
\* deltas of phases under way.  It takes that no phase 1 lost its phase 2 and that
\* Redis refused no command of a row that changed.
RollupAgrees ==
  env.atomic /\ ~torn =>
    /\ rollup.sum + SumFunction([r \in Owing |-> Here(r).val - runner[r].old]) = Total
    /\ rollup.count + Cardinality({r \in Owing : runner[r].old = 0}) = Cardinality(Stored)

\* Nothing is acknowledged before it is stored and rolled up, but for entries of
\* which Redis refused a command: whether crashes, lost connections and retries
\* come before or after them, those alone may be acknowledged and missing.
AckedIsStored ==
  \A i \in RowsOf(acked) \ refused : doc[Stream[i].row] # 0 /\ (env.atomic => i \in marker)

\* What has been stored agrees with the rollups and with what was acknowledged
\* (consumer.ts, atomic-writer.ts).
StoreAgrees == RollupAgrees /\ AckedIsStored

\* Unless an entry cannot be read, which blocks those behind it, every entry is
\* acknowledged in the end: what a failure leaves pending is read again.
AllSettled == (\A i \in DOMAIN Stream : Stream[i].kind # "poison") => acked = DOMAIN Stream
\* "Phase 1 OK + Phase 2 fail: replay; marker absent, rollup re-applies cleanly via
\* delta.  Phase 2 OK + Phase 3 fail: replay; marker present, Phase 2
\* short-circuits": once everything is acknowledged, the rollup is the rows stored.
ReplayRepairs ==
  acked = DOMAIN Stream => rollup = [sum |-> Total, count |-> Cardinality(Stored)]
===============================================================================
