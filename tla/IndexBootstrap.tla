--------------------------- MODULE IndexBootstrap ---------------------------
(* bootstrapFrtb: how an api brings the search index, the frtb function      *)
(* library and the suggesters of a target to its own schema.  The target     *)
(* remembers the schema its index was built for under one key (`record`);    *)
(* every route reads that key to name the index it queries (`Served`).       *)
(* A bootstrap is a sequence of calls to the target's nodes, each of which   *)
(* may fail; the api may die between any two of them and come back with      *)
(* another schema, and a second bootstrap (the admin's rebuild) may run      *)
(* beside the scheduled one.                                                 *)
EXTENDS FiniteSets, Naturals

CONSTANTS Boots,      \* concurrent runs of bootstrapFrtb in one api
          Nodes,      \* the masters of the target
          Schemas,    \* the schemas an api may be deployed with, by hash
          ClassesOf,  \* Schemas -> the risk classes that schema has
          Modes,      \* values of BOOTSTRAP_ADOPTION explored
          Slim,       \* ENABLE_SLIM_SENS_INDEX
          MaxBoots,   \* bound: bootstraps begun
          MaxFails,   \* bound: calls the target refuses
          MaxTurns    \* bound: deployments and wipes

\* No versioned index has the name of the legacy one, or the mark of no record.
ASSUME SchemaAssumption == {"idx:sens", "none"} \cap Schemas = {}

VARIABLES record,     \* bootstrap:schema-hash:<label>
          held,       \* index name -> the nodes that have it
          full,       \* index name -> the nodes whose rows it has indexed
          slims,      \* slim index name -> the nodes that have it
          rows,       \* whether the target holds rows
          lib,        \* the nodes with the frtb library
          sug,        \* the nodes whose values the suggesters offer
          schema,     \* the schema the running api was deployed with
          run,        \* Boots -> the bootstrap underway
          settled,    \* how the last bootstrap ended, when it ran alone
          begun, fails, turns

xvars == <<record, held, full, slims, rows, lib, sug, schema, run, settled,
           begun, fails, turns>>
target == <<record, held, full, slims, rows, lib, sug>>

Base == "idx:sens"
Names == Schemas \cup {Base}
None == [legacy |-> FALSE, hash |-> "none"]
Own(s) == [legacy |-> FALSE, hash |-> s]
Legacy(s) == [legacy |-> TRUE, hash |-> s]

\* getSensIndexName and getSlimSensIndexName
Served(r) == IF r.legacy \/ r = None THEN Base ELSE r.hash
\* the fields of an index: the static tags, and a number per class and leg
StaticFields == {"risk_class", "bucket", "sensitivity_type", "book", "trade_id",
                 "risk_factor", "trader", "_calibration", "desk"} \X {"TAG"}
Legs == {"delta", "vega", "cvr_up", "cvr_down"}
Fields(s) == StaticFields \cup (ClassesOf[s] \X Legs)

IsAdoptionCompatible(found, s) == Fields(found) # {} /\ Fields(s) \subseteq Fields(found)

\* num_docs as a node reports it: -1 for an unknown index
DocCount(ix, n) == IF n \notin held[ix] THEN 0 - 1
                   ELSE IF rows /\ full[ix] # {} THEN 1 ELSE 0
PresentOnAll(ix) == held[ix] = Nodes

Idle == [pc |-> "idle", old |-> None, found |-> "none", drop |-> "none", todo |-> {},
         bad |-> FALSE, lost |-> FALSE, skipped |-> FALSE, force |-> FALSE,
         mode |-> "on", alone |-> TRUE]

XInit ==
    /\ schema \in Schemas
    /\ run = [b \in Boots |-> Idle]
    /\ settled = "no" /\ begun = 0 /\ fails = 0 /\ turns = 0
    /\ slims = [ix \in Names |-> {}] /\ sug = {}
    /\ \/ /\ record = None /\ held = [ix \in Names |-> {}] /\ rows = FALSE /\ lib = {}
       \/ /\ record = None /\ held = [ix \in Names |-> IF ix = Base THEN Nodes ELSE {}]
          /\ rows = TRUE /\ lib = {}
       \/ \E s \in Schemas : /\ record \in {None, Own(s)}
                             /\ held = [ix \in Names |-> IF ix = s THEN Nodes ELSE {}]
                             /\ rows = TRUE /\ lib = Nodes
    /\ full = held

-----------------------------------------------------------------------------
(* The run of one bootstrap *)

At(b, pc) == run[b].pc = pc
Go(b, pc) == run' = [run EXCEPT ![b].pc = pc]
Refused == fails < MaxFails /\ fails' = fails + 1
Answered == UNCHANGED fails
Rest == UNCHANGED <<rows, schema, begun, turns>>
Reads == UNCHANGED <<record, held, full, slims, lib, sug, settled>> /\ Rest

\* scheduleBootstrap, POST /admin/rebuild-indexes and the boot itself
Begin(b) ==
    /\ At(b, "idle") /\ begun < MaxBoots /\ begun' = begun + 1
    /\ \E force \in BOOLEAN, mode \in Modes :
         LET others == {c \in Boots \ {b} : run[c].pc # "idle"} IN
         run' = [c \in Boots |->
             IF c = b THEN [Idle EXCEPT !.pc = "read", !.force = force, !.mode = mode,
                                        !.alone = others = {}]
             ELSE IF c \in others THEN [run[c] EXCEPT !.alone = FALSE] ELSE run[c]]
    /\ settled' = "no"
    /\ UNCHANGED <<target, schema, fails, turns>>

\* readOldHash: a refused GET reads as an absent key
ReadOldHash(b) ==
    /\ At(b, "read") /\ Reads
    /\ \E old \in {record, None} :
         /\ IF old = record THEN Answered ELSE Refused
         /\ run' = [run EXCEPT ![b].old = old,
                               ![b].pc = IF old.legacy \/ old = None THEN "legacy" ELSE "stranded"]

\* the probe for a versioned index that is empty beside a legacy one with rows
ProbeStranded(b) ==
    /\ At(b, "stranded") /\ Reads
    /\ \/ \E n \in Nodes :
            /\ Answered
            /\ Go(b, IF DocCount(run[b].old.hash, n) = 0 /\ DocCount(Base, n) > 0
                     THEN "recover" ELSE "legacy")
       \/ Refused /\ run' = [run EXCEPT ![b] = Idle]

RecoverStranded(b) ==
    /\ At(b, "recover")
    /\ \/ Answered /\ record' = None
       \/ Refused /\ UNCHANGED record
    /\ run' = [run EXCEPT ![b].old = None, ![b].pc = "legacy"]
    /\ UNCHANGED <<held, full, slims, lib, sug, settled>> /\ Rest

\* probeLegacyDocCount: only an unnamed target is asked
ProbeLegacy(b) ==
    /\ At(b, "legacy") /\ Reads
    /\ \/ /\ run[b].old = None /\ Answered
          /\ \E n \in Nodes : Go(b, IF DocCount(Base, n) > 0 THEN "adoptLegacy" ELSE "gate")
       \/ run[b].old = None /\ Refused /\ Go(b, "gate")
       \/ run[b].old # None /\ Answered /\ Go(b, "gate")

\* a SET of the record: a refused one is logged and the bootstrap goes on
Named(b, r, then) ==
    \/ /\ Answered /\ record' = r
       /\ run' = [run EXCEPT ![b] = then]
    \/ /\ Refused /\ UNCHANGED record
       /\ run' = [run EXCEPT ![b] = [then EXCEPT !.lost = TRUE]]

\* bootstrap-adopt-legacy
AdoptLegacy(b) ==
    /\ At(b, "adoptLegacy")
    /\ Named(b, Legacy(schema), [run[b] EXCEPT !.pc = "slim", !.todo = Nodes, !.skipped = TRUE])
    /\ UNCHANGED <<held, full, slims, lib, sug, settled>> /\ Rest

\* bootstrap-skip: the record is this schema's and its index is on every node
Unchanged_HashOnly(b) == ~run[b].force /\ run[b].old.hash = schema
Unchanged(b) ==
    LET r == run[b] IN ~r.force /\ r.old.hash = schema /\ PresentOnAll(Served(r.old))
SkipUnchanged(b) ==
    /\ At(b, "gate") /\ Unchanged(b) /\ Answered /\ Reads
    /\ run' = [run EXCEPT ![b].pc = "slim", ![b].todo = Nodes, ![b].skipped = TRUE]

\* the rebuild, with the index it replaces
ToRebuild(b) ==
    run' = [run EXCEPT ![b].pc = "rebuild", ![b].todo = Nodes,
                       ![b].drop = IF run[b].old = None THEN "none" ELSE Served(run[b].old)]

\* another schema's index: the recorded one, or the first a node lists
Foreign(b) ==
    LET r == run[b] IN
    IF r.old # None THEN {r.old.hash} \ {schema}
    ELSE IF r.force \/ r.mode = "off" THEN {}
    ELSE {s \in Schemas \ {schema} : held[s] # {}}
Adoptable(b) ==
    {s \in Foreign(b) : /\ ~run[b].force /\ ~run[b].old.legacy /\ run[b].mode = "on"
                        /\ PresentOnAll(s) /\ IsAdoptionCompatible(s, schema)}
Choose(b) ==
    /\ At(b, "gate") /\ Reads
    /\ \/ \E s \in Adoptable(b) :
            /\ ~Unchanged(b) /\ Answered
            /\ run' = [run EXCEPT ![b].pc = "adopt", ![b].found = s]
       \/ ~Unchanged(b) /\ Adoptable(b) = {} /\ Answered /\ ToRebuild(b)
       \/ Foreign(b) # {} /\ Foreign(b) # Adoptable(b) /\ ~Unchanged(b) /\ Answered /\ ToRebuild(b)
       \/ Refused /\ ToRebuild(b)

\* bootstrap-adopt-existing
AdoptForeign(b) ==
    /\ At(b, "adopt")
    /\ Named(b, Own(run[b].found), [run[b] EXCEPT !.pc = "slim", !.todo = Nodes, !.skipped = TRUE])
    /\ UNCHANGED <<held, full, slims, lib, sug, settled>> /\ Rest

\* FT.DROPINDEX of the old name and FT.CREATE of the new on one node
Without(f, ix, n) == [f EXCEPT ![ix] = @ \ {n}]
Dropped(b, n, f) ==
    IF run[b].drop \in Names \ {schema} THEN Without(f, run[b].drop, n) ELSE f
RebuildNode(b, n) ==
    /\ At(b, "rebuild") /\ n \in run[b].todo
    /\ \/ /\ Answered
          /\ held' = [Dropped(b, n, held) EXCEPT ![schema] = @ \cup {n}]
          /\ full' = IF n \in held[schema] \/ rows THEN Dropped(b, n, full)
                     ELSE [Dropped(b, n, full) EXCEPT ![schema] = @ \cup {n}]
          /\ run' = [run EXCEPT ![b].todo = @ \ {n}]
       \/ /\ Refused
          /\ \/ UNCHANGED <<held, full>>
             \/ held' = Dropped(b, n, held) /\ full' = Dropped(b, n, full)
          /\ run' = [run EXCEPT ![b].todo = @ \ {n}, ![b].bad = TRUE]
    /\ UNCHANGED <<record, slims, lib, sug, settled>> /\ Rest

\* the record follows a rebuild that failed on no node
NameRebuilt(b) ==
    /\ At(b, "rebuild") /\ run[b].todo = {}
    /\ IF run[b].bad
       THEN /\ run' = [run EXCEPT ![b].pc = "slim", ![b].todo = Nodes]
            /\ Answered /\ UNCHANGED record
       ELSE Named(b, Own(schema), [run[b] EXCEPT !.pc = "slim", !.todo = Nodes])
    /\ UNCHANGED <<held, full, slims, lib, sug, settled>> /\ Rest

\* runSlimIndexEnsure: a failing node is logged and tolerated
EnsureSlim(b, n) ==
    /\ At(b, "slim") /\ Slim /\ n \in run[b].todo
    /\ \/ Answered /\ slims' = [slims EXCEPT ![schema] = @ \cup {n}]
       \/ Refused /\ UNCHANGED slims
    /\ run' = [run EXCEPT ![b].todo = @ \ {n}]
    /\ UNCHANGED <<record, held, full, lib, sug, settled>> /\ Rest

\* how a bootstrap that did not throw is told apart
SettledAs(b, how) == IF run[b].alone /\ ~run[b].lost THEN how ELSE "no"
AfterSlim(b) ==
    /\ At(b, "slim") /\ (run[b].todo = {} \/ ~Slim) /\ Answered
    /\ IF run[b].skipped
       THEN run' = [run EXCEPT ![b] = Idle] /\ settled' = SettledAs(b, "skipped")
       ELSE run' = [run EXCEPT ![b].pc = "lib", ![b].todo = Nodes] /\ UNCHANGED settled
    /\ UNCHANGED target /\ UNCHANGED <<schema, begun, turns>>

LoadLibrary(b, n) ==
    /\ At(b, "lib") /\ n \in run[b].todo
    /\ \/ Answered /\ lib' = lib \cup {n} /\ run' = [run EXCEPT ![b].todo = @ \ {n}]
       \/ Refused /\ UNCHANGED lib /\ run' = [run EXCEPT ![b].todo = @ \ {n}, ![b].bad = TRUE]
    /\ UNCHANGED <<record, held, full, slims, sug, settled>> /\ Rest

\* the suggesters, filled once from what the nodes answer, then the verdict
FillSuggesters(b) ==
    /\ At(b, "lib") /\ run[b].todo = {}
    /\ \E silent \in SUBSET Nodes :
         /\ IF silent = {} THEN Answered ELSE Refused
         /\ sug' = IF sug # {} \/ ~rows THEN sug ELSE full[schema] \ silent
    /\ run' = [run EXCEPT ![b] = Idle]
    /\ settled' = IF run[b].bad THEN "no" ELSE SettledAs(b, "rebuilt")
    /\ UNCHANGED <<record, held, full, slims, lib>> /\ Rest

-----------------------------------------------------------------------------
(* Around it *)

\* the first rows: every index writes them as they come
FirstRows ==
    /\ ~rows /\ rows' = TRUE
    /\ UNCHANGED <<record, held, full, slims, lib, sug, schema, run, settled, begun, fails, turns>>

\* the background scan of a new index reaches the rows of a node
Scan(ix, n) ==
    /\ n \in held[ix] \ full[ix] /\ full' = [full EXCEPT ![ix] = @ \cup {n}]
    /\ UNCHANGED <<record, held, slims, rows, lib, sug, schema, run, settled, begun, fails, turns>>

\* the api dies; the next one may bring another schema
Deploy ==
    /\ turns < MaxTurns /\ turns' = turns + 1
    /\ schema' \in Schemas /\ run' = [b \in Boots |-> Idle] /\ settled' = "no"
    /\ UNCHANGED <<target, begun, fails>>

\* FLUSHALL on every node: keys and indexes go, the library stays
Wipe ==
    /\ turns < MaxTurns /\ turns' = turns + 1
    /\ record' = None /\ rows' = FALSE /\ sug' = {} /\ settled' = "no"
    /\ held' = [ix \in Names |-> {}] /\ full' = held' /\ slims' = held'
    /\ run' = [b \in Boots |-> [run[b] EXCEPT !.alone = FALSE]]
    /\ UNCHANGED <<lib, schema, begun, fails>>

\* the self-heal's DEL of the record before it schedules a bootstrap
Unname ==
    /\ turns < MaxTurns /\ turns' = turns + 1 /\ record # None
    /\ record' = None /\ settled' = "no"
    /\ run' = [b \in Boots |-> [run[b] EXCEPT !.alone = FALSE]]
    /\ UNCHANGED <<held, full, slims, rows, lib, sug, schema, begun, fails>>

Step(b) ==
    \/ Begin(b) \/ ReadOldHash(b) \/ ProbeStranded(b) \/ RecoverStranded(b)
    \/ ProbeLegacy(b) \/ AdoptLegacy(b) \/ SkipUnchanged(b) \/ Choose(b)
    \/ AdoptForeign(b) \/ NameRebuilt(b) \/ AfterSlim(b) \/ FillSuggesters(b)
    \/ \E n \in Nodes : RebuildNode(b, n) \/ EnsureSlim(b, n) \/ LoadLibrary(b, n)

XNext ==
    \/ \E b \in Boots : Step(b)
    \/ FirstRows \/ Deploy \/ Wipe \/ Unname
    \/ \E ix \in Names, n \in Nodes : Scan(ix, n)

XSpec == XInit /\ [][XNext]_xvars

-----------------------------------------------------------------------------
(* Properties *)

RecordType == {None} \cup [legacy : BOOLEAN, hash : Schemas]
RunType == [pc : {"idle", "read", "stranded", "recover", "legacy", "adoptLegacy", "gate", "adopt",
                  "rebuild", "slim", "lib"},
            old : RecordType, found : Schemas \cup {"none"}, drop : Names \cup {"none"},
            todo : SUBSET Nodes, bad : BOOLEAN, lost : BOOLEAN, skipped : BOOLEAN,
            force : BOOLEAN, mode : Modes \cup {"on"}, alone : BOOLEAN]

XTypeOK ==
    /\ record \in RecordType /\ schema \in Schemas
    /\ held \in [Names -> SUBSET Nodes] /\ full \in [Names -> SUBSET Nodes]
    /\ slims \in [Names -> SUBSET Nodes] /\ lib \subseteq Nodes /\ sug \subseteq Nodes
    /\ rows \in BOOLEAN /\ settled \in {"no", "skipped", "rebuilt"}
    /\ run \in [Boots -> RunType] /\ \A b \in Boots : run[b].pc = "adopt" => run[b].found \in Schemas
    /\ begun \in Nat /\ fails \in Nat /\ turns \in Nat

\* After a bootstrap that ran alone and was refused no write of the record,
\* the versioned index every route is sent to is on every node, whatever
\* failed, died, was dropped or adopted before.
\* (bootstrap.ts:406-425, lib/sens-index.ts:211-235)
ServedIndexExists == settled # "no" /\ ~record.legacy => PresentOnAll(Served(record))

\* The versioned index such a bootstrap leaves in service has every field the
\* api's own schema queries: it is its own, or it was found compatible.
\* (bootstrap.ts:572-684, lib/sens-index.ts:161-193)
ServedIndexFits ==
    settled # "no" /\ ~record.legacy =>
        record # None /\ Fields(schema) \subseteq Fields(record.hash)

\* A bootstrap that rebuilt and did not throw left the library on every node:
\* one node's failure is never lost.  (bootstrap.ts:742-755, 923-932)
RebuiltIsPrimed == settled = "rebuilt" => lib = Nodes

\* An index that is served exists on every node and has the fields of the schema
\* it serves, and a rebuilt one has its library on every node, wherever boots,
\* rebuilds and adoptions crash or overlap (bootstrap.ts).
ServedIndexIsSound == ServedIndexExists /\ ServedIndexFits /\ RebuiltIsPrimed

=============================================================================
