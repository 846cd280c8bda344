---------------------------- MODULE GeneratorRuns ----------------------------
(***************************************************************************)
(* Generator runs in the api (routes/generator.ts, lib/run-generator.ts):  *)
(* a run started over SSE probes Redis, registers itself and then writes   *)
(* its rows from a detached loop; one started synchronously never          *)
(* registers.  Runs are cancelled one by one or all together, by requests  *)
(* that wait a while for the loops, force what is left to "cancelled" and  *)
(* then have the ingest service empty the streams, and the documents too   *)
(* unless the request is a stop.  A batch is one row.                      *)
(***************************************************************************)
EXTENDS Naturals, FiniteSets

CONSTANTS Runs, Rows, Admins

ASSUME GeneratorAssumption == Rows \in Nat

VARIABLES
  loop,     \* of each run: "idle", "probing", "rows", "exec", "over"
  detached, \* started over SSE, registered and cancellable
  entry,    \* activeRuns
  timers,   \* eviction timers pending
  sent,     \* producer.rowsSent
  failed,   \* the loop left through its catch
  stream, docs, \* rows in the input streams and in the store
  admin,    \* of each cancel-all or stop request: "idle", "drain", "halt", "over", "failed"
  kind, ids, \* what it does at the end; the runs whose flag it raised
  forced    \* history: runs a request marked terminal itself

gvars == <<loop, detached, entry, timers, sent, failed, stream, docs, admin, kind,
           ids, forced>>

NoEntry == [status |-> "none", stop |-> "none", cancel |-> FALSE]
Known(r) == entry[r] # NoEntry
Running(r) == entry[r].status = "running"
RowsOf(r) == {<<r, n>> : n \in 1..Rows}
FlagUp(r) == detached[r] /\ entry[r].cancel

GInit ==
  /\ loop = [r \in Runs |-> "idle"] /\ detached = [r \in Runs |-> FALSE]
  /\ entry = [r \in Runs |-> NoEntry] /\ timers = [r \in Runs |-> 0]
  /\ sent = [r \in Runs |-> 0] /\ failed = [r \in Runs |-> FALSE]
  /\ stream = {} /\ docs = {}
  /\ admin = [a \in Admins |-> "idle"] /\ kind = [a \in Admins |-> "none"]
  /\ ids = [a \in Admins |-> {}] /\ forced = {}

Store == <<stream, docs>>
Requests == <<admin, kind, ids, forced>>

\* POST /generator/start: the request writes the rows itself, unlisted and without a flag.
StartSync(r) ==
  /\ loop[r] = "idle" /\ loop' = [loop EXCEPT ![r] = "rows"]
  /\ UNCHANGED <<detached, entry, timers, sent, failed, Store, Requests>>

\* POST /generator/start/stream: getRedis and the probe come before the registration.
StartStream(r) ==
  /\ loop[r] = "idle" /\ loop' = [loop EXCEPT ![r] = "probing"]
  /\ detached' = [detached EXCEPT ![r] = TRUE]
  /\ UNCHANGED <<entry, timers, sent, failed, Store, Requests>>

Register(r) ==
  /\ loop[r] = "probing" /\ loop' = [loop EXCEPT ![r] = "rows"]
  /\ entry' = [entry EXCEPT ![r] = [status |-> "running", stop |-> "none", cancel |-> FALSE]]
  /\ UNCHANGED <<detached, timers, sent, failed, Store, Requests>>

\* One turn of the row loop, the flag seen down.  A run that was evicted keeps its own flag,
\* raised before it was forced.
Raised(r) == FlagUp(r) \/ r \in forced
AddRow(r) ==
  /\ loop[r] = "rows" /\ ~failed[r] /\ ~Raised(r) /\ sent[r] < Rows
  /\ loop' = [loop EXCEPT ![r] = "exec"]
  /\ UNCHANGED <<detached, entry, timers, sent, failed, Store, Requests>>

Exec(r) ==
  /\ loop[r] = "exec" /\ loop' = [loop EXCEPT ![r] = "rows"]
  /\ sent' = [sent EXCEPT ![r] = @ + 1]
  /\ stream' = stream \cup {<<r, sent[r] + 1>>}
  /\ UNCHANGED <<detached, entry, timers, failed, docs, Requests>>

\* The pipeline fails; its row may be in the stream all the same.
ExecFails(r) ==
  /\ loop[r] = "exec" /\ loop' = [loop EXCEPT ![r] = "rows"]
  /\ failed' = [failed EXCEPT ![r] = TRUE]
  /\ \E new \in {{}, {<<r, sent[r] + 1>>}} : stream' = stream \cup new
  /\ UNCHANGED <<detached, entry, timers, sent, docs, Requests>>

\* The .then of the detached loop: an error before a raised flag before the loop's own reason.
Outcome_OfLoop(r, reason) ==
  IF failed[r] THEN [status |-> "error", stop |-> "error"]
  ELSE IF sent[r] < Rows /\ reason = "rows" THEN [status |-> "cancelled", stop |-> "cancelled"]
  ELSE [status |-> "done", stop |-> reason]

Outcome(r, reason) ==
  IF failed[r] THEN [status |-> "error", stop |-> "error"]
  ELSE IF FlagUp(r) THEN [status |-> "cancelled", stop |-> "cancelled"]
  ELSE [status |-> "done", stop |-> reason]

\* The loop ends: all rows, the flag, an error, or its elapsed or memory limit.
Finish(r) ==
  /\ loop[r] = "rows" /\ loop' = [loop EXCEPT ![r] = "over"]
  /\ \E reason \in {"rows", "elapsed", "memory"} :
       /\ reason = "rows" => sent[r] = Rows \/ failed[r] \/ Raised(r)
       /\ entry' = [entry EXCEPT ![r] =
            IF Known(r) THEN [status |-> Outcome(r, reason).status,
                              stop |-> Outcome(r, reason).stop, cancel |-> @.cancel] ELSE @]
  /\ timers' = [timers EXCEPT ![r] = IF detached[r] THEN @ + 1 ELSE @]
  /\ UNCHANGED <<detached, sent, failed, Store, Requests>>

\* A grace timer fires: the entry is forgotten.
Evict(r) ==
  /\ timers[r] > 0 /\ timers' = [timers EXCEPT ![r] = @ - 1]
  /\ entry' = [entry EXCEPT ![r] = NoEntry]
  /\ UNCHANGED <<loop, detached, sent, failed, Store, Requests>>

\* POST /generator/cancel/:run_id.
Cancel(r) ==
  /\ Known(r) /\ entry' = [entry EXCEPT ![r].cancel = TRUE]
  /\ UNCHANGED <<loop, detached, timers, sent, failed, Store, Requests>>

\* POST /admin/cancel-all-runs ("cancel") and /admin/stop-runs ("stop").
CancelAll_NoDrain(a, k) ==
  /\ admin[a] = "idle" /\ kind' = [kind EXCEPT ![a] = k]
  /\ LET hit == {r \in Runs : Running(r) /\ ~entry[r].cancel}
     IN /\ ids' = [ids EXCEPT ![a] = hit]
        /\ entry' = [r \in Runs |-> IF r \in hit THEN [entry[r] EXCEPT !.cancel = TRUE] ELSE entry[r]]
        /\ admin' = [admin EXCEPT ![a] = "halt"]
  /\ UNCHANGED <<loop, detached, timers, sent, failed, Store, forced>>

CancelAll(a, k) ==
  /\ admin[a] = "idle" /\ kind' = [kind EXCEPT ![a] = k]
  /\ LET hit == {r \in Runs : Running(r) /\ ~entry[r].cancel}
     IN /\ ids' = [ids EXCEPT ![a] = hit]
        /\ entry' = [r \in Runs |-> IF r \in hit THEN [entry[r] EXCEPT !.cancel = TRUE] ELSE entry[r]]
        /\ admin' = [admin EXCEPT ![a] = IF hit = {} THEN "halt" ELSE "drain"]
  /\ UNCHANGED <<loop, detached, timers, sent, failed, Store, forced>>

\* drainAndForceTerminal: every run is terminal, or the deadline has passed and the rest is forced.
Drained(a) ==
  /\ admin[a] = "drain" /\ admin' = [admin EXCEPT ![a] = "halt"]
  /\ LET left == {r \in ids[a] : Running(r)}
     IN /\ entry' = [r \in Runs |-> IF r \in left
                       THEN [entry[r] EXCEPT !.status = "cancelled", !.stop = "cancelled"]
                       ELSE entry[r]]
        /\ timers' = [r \in Runs |-> IF r \in left THEN timers[r] + 1 ELSE timers[r]]
        /\ forced' = forced \cup left
  /\ UNCHANGED <<loop, detached, sent, failed, Store, kind, ids>>

\* callIngestHaltAndFlush, callIngestHaltAndTrim: an unreachable ingest service is tolerated.
Halt(a) ==
  /\ admin[a] = "halt" /\ admin' = [admin EXCEPT ![a] = "over"]
  /\ stream' = {} /\ docs' = IF kind[a] = "cancel" THEN {} ELSE docs
  /\ UNCHANGED <<loop, detached, entry, timers, sent, failed, kind, ids, forced>>

HaltFails(a) ==
  /\ admin[a] = "halt" /\ admin' = [admin EXCEPT ![a] = "failed"]
  /\ UNCHANGED <<loop, detached, entry, timers, sent, failed, Store, kind, ids, forced>>

\* External: ingest turns a stream entry into a document.
Ingest ==
  /\ stream # {} /\ docs' = docs \cup stream /\ stream' = {}
  /\ UNCHANGED <<loop, detached, entry, timers, sent, failed, Requests>>

RunStep(r) == \/ StartSync(r) \/ StartStream(r) \/ Register(r) \/ AddRow(r) \/ Exec(r)
              \/ ExecFails(r) \/ Finish(r) \/ Evict(r) \/ Cancel(r)
AdminStep(a) == (\E k \in {"cancel", "stop"} : CancelAll(a, k)) \/ Drained(a) \/ Halt(a) \/ HaltFails(a)
GNext == (\E r \in Runs : RunStep(r)) \/ (\E a \in Admins : AdminStep(a)) \/ Ingest

GSpec == GInit /\ [][GNext]_gvars

-----------------------------------------------------------------------------
(* Properties *)

EntryType == [status : {"none", "running", "done", "cancelled", "error"},
              stop : {"none", "rows", "elapsed", "memory", "cancelled", "error"},
              cancel : BOOLEAN]

(* Types; a row is added only where one is missing.                        *)
GTypeOK ==
  /\ loop \in [Runs -> {"idle", "probing", "rows", "exec", "over"}]
  /\ detached \in [Runs -> BOOLEAN] /\ failed \in [Runs -> BOOLEAN]
  /\ entry \in [Runs -> EntryType]
  /\ timers \in [Runs -> Nat] /\ sent \in [Runs -> 0..Rows]
  /\ \A r \in Runs : loop[r] = "exec" => sent[r] < Rows
  /\ stream \subseteq Runs \X (1..Rows) /\ docs \subseteq Runs \X (1..Rows)
  /\ admin \in [Admins -> {"idle", "drain", "halt", "over", "failed"}]
  /\ kind \in [Admins -> {"none", "cancel", "stop"}]
  /\ ids \in [Admins -> SUBSET Runs] /\ forced \subseteq Runs

(* After a cancel-all whose flush succeeded, no row of a run it cancelled  *)
(* is left in a stream or in the store, unless the run was still writing   *)
(* when the drain window closed and was forced.                            *)
FlushedUnlessForced ==
  \A a \in Admins : admin[a] = "over" /\ kind[a] = "cancel" =>
    \A r \in ids[a] \ forced : (stream \cup docs) \cap RowsOf(r) = {}

(* A terminal status is final: only an error of a loop that was forced may *)
(* still replace "cancelled", and nothing ever runs again.                 *)
EndedStays ==
  \A r \in Runs : entry[r].status \in {"done", "cancelled", "error"} =>
    \/ entry'[r].status \in {"none", entry[r].status}
    \/ r \in forced /\ entry'[r].status = "error"

TerminalIsFinal == [][EndedStays]_gvars
=============================================================================
