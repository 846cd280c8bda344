----------------------------- MODULE RecordsProofs -----------------------------
(***************************************************************************)
(* Proofs about the records the api keeps.  GeneratorRuns, for any runs,   *)
(* rows and requests: a flush that succeeds leaves nothing of the runs it  *)
(* waited for, and a terminal status is final.  IndexBootstrap, for any    *)
(* nodes, schemas and failures: the index that is served is sound.         *)
(* BulkRuns, for any runs, threads, replicas and rows: a run that is over  *)
(* is over, its record leaves nothing it counted unflushed, and what the   *)
(* polls report of it does not fall.                                       *)
(***************************************************************************)
EXTENDS GeneratorRuns, IndexBootstrap, BulkRuns, FiniteSetTheorems, TLAPS

Going == {"rows", "exec"}
Final == {"done", "cancelled", "error"}

\* What an entry e says of a run with loop l, detached or not (d), with t timers,
\* and forced or not (f).
Fits(l, d, e, t, f) ==
  /\ (l = "idle" => ~d) /\ (l = "probing" => d)
  /\ e # NoEntry => e.status # "none" /\ d /\ l \in {"rows", "exec", "over"}
  /\ e.status = "running" => l \in Going
  /\ l \in Going /\ d => e.status = "running" \/ f
  /\ t > 0 => l = "over" \/ f
  /\ f => d /\ l \in {"rows", "exec", "over"} /\ e.status # "running"
  /\ f /\ e # NoEntry /\ l \in Going => e.status = "cancelled" /\ e.cancel

FitsOf(r) == Fits(loop[r], detached[r], entry[r], timers[r], r \in forced)
EntriesFit == \A r \in Runs : FitsOf(r)

\* What a request knows of a run whose flag it raised.
Raises(r, at) ==
  /\ detached[r] /\ loop[r] \in {"rows", "exec", "over"}
  /\ entry[r] # NoEntry => entry[r].cancel
  /\ at \in {"halt", "over", "failed"} => loop[r] = "over" \/ r \in forced

RequestsFit == \A a \in Admins :
  /\ admin[a] = "idle" => ids[a] = {}
  /\ \A r \in ids[a] : Raises(r, admin[a])

Inv == GTypeOK /\ EntriesFit /\ RequestsFit

-------------------------------------------------------------------------------
(* The steps of a run *)

LEMMA StepCases ==
  ASSUME [GNext]_gvars
  PROVE  \/ \E r \in Runs : RunStep(r)
         \/ \E a \in Admins : (\E k \in {"cancel", "stop"} : CancelAll(a, k)) \/ Drained(a)
         \/ \E a \in Admins : Halt(a) \/ HaltFails(a)
         \/ Ingest \/ UNCHANGED gvars
  BY DEF GNext, AdminStep

\* Run r goes on with a loop l, detached or not, with an entry e and t timers.
Goes(r, l, d, e, t) ==
  /\ loop' = [loop EXCEPT ![r] = l] /\ detached' = [detached EXCEPT ![r] = d]
  /\ entry' = [entry EXCEPT ![r] = e] /\ timers' = [timers EXCEPT ![r] = t]
  /\ UNCHANGED Requests

\* What a loop may add.
Adds(r) ==
  /\ sent' \in [Runs -> 0..Rows] /\ failed' \in [Runs -> BOOLEAN]
  /\ docs' = docs /\ stream \subseteq stream'
  /\ stream' # stream => loop[r] = "exec" /\ stream' = stream \cup {<<r, sent[r] + 1>>}
  /\ \A q \in Runs : loop'[q] = "exec" => sent'[q] < Rows

Moves(r, l, d, e, t) ==
  /\ Goes(r, l, d, e, t) /\ Adds(r)
  /\ l \in {"idle", "probing", "rows", "exec", "over"} /\ d \in BOOLEAN /\ e \in EntryType /\ t \in Nat
  /\ Fits(l, d, e, t, r \in forced)
  /\ detached[r] => d
  /\ loop[r] = "over" => l = "over"
  /\ loop[r] \in {"rows", "exec", "over"} => l \in {"rows", "exec", "over"}
  /\ entry[r] # NoEntry /\ entry[r].cancel => e = NoEntry \/ e.cancel
  /\ e # NoEntry /\ entry[r] = NoEntry => loop[r] = "probing"
  /\ entry[r].status \in Final
       => e.status \in {"none", entry[r].status} \/ (r \in forced /\ e.status = "error")

LEMMA Apart ==
  ASSUME GTypeOK, NEW r \in Runs
  PROVE  /\ loop = [loop EXCEPT ![r] = loop[r]] /\ detached = [detached EXCEPT ![r] = detached[r]]
         /\ entry = [entry EXCEPT ![r] = entry[r]] /\ timers = [timers EXCEPT ![r] = timers[r]]
         /\ loop[r] \in {"idle", "probing", "rows", "exec", "over"} /\ detached[r] \in BOOLEAN
         /\ entry[r] \in EntryType /\ timers[r] \in Nat
         /\ sent[r] \in 0..Rows
  BY DEF GTypeOK

LEMMA NoEntryIs == NoEntry \in EntryType /\ NoEntry.status = "none"
  BY DEF NoEntry, EntryType

\* The step adds nothing.
LEMMA AddsNothing ==
  ASSUME GTypeOK, NEW r \in Runs, UNCHANGED <<sent, failed, Store>>,
         \A q \in Runs : loop'[q] = "exec" => sent[q] < Rows
  PROVE  Adds(r)
  BY DEF Adds, GTypeOK, Store

LEMMA MovesStart ==
  ASSUME GTypeOK, NEW r \in Runs, FitsOf(r), StartSync(r) \/ StartStream(r)
  PROVE  \E l, d, e, t : Moves(r, l, d, e, t)
<1> USE Apart DEF FitsOf, Going, Final
<1>1. Adds(r)
  BY AddsNothing DEF StartSync, StartStream, GTypeOK
<1>2. CASE StartSync(r)
  <2>1. Moves(r, "rows", detached[r], entry[r], timers[r])
    BY <1>1, <1>2 DEF StartSync, Moves, Goes, Fits
  <2> QED
    BY <2>1
<1>3. CASE StartStream(r)
  <2>1. Moves(r, "probing", TRUE, entry[r], timers[r])
    BY <1>1, <1>3 DEF StartStream, Moves, Goes, Fits
  <2> QED
    BY <2>1
<1> QED
  BY <1>2, <1>3

LEMMA MovesRegister ==
  ASSUME GTypeOK, NEW r \in Runs, FitsOf(r), Register(r)
  PROVE  \E l, d, e, t : Moves(r, l, d, e, t)
<1> USE Apart DEF FitsOf, Going, Final
<1> DEFINE e == [status |-> "running", stop |-> "none", cancel |-> FALSE]
<1>1. Adds(r)
  BY AddsNothing DEF Register, GTypeOK
<1>2. e \in EntryType /\ e.status = "running" /\ e # NoEntry
  BY DEF EntryType, NoEntry
<1>3. entry' = [entry EXCEPT ![r] = e]
  BY DEF Register
<1> HIDE DEF e
<1>4. entry[r] = NoEntry /\ r \notin forced /\ ~(timers[r] > 0)
  BY DEF Register, Fits
<1>5. Moves(r, "rows", TRUE, e, timers[r])
  BY <1>1, <1>2, <1>3, <1>4, NoEntryIs DEF Register, Moves, Goes, Fits
<1> QED
  BY <1>5

LEMMA MovesWrite ==
  ASSUME GTypeOK, NEW r \in Runs, FitsOf(r), AddRow(r) \/ Exec(r) \/ ExecFails(r)
  PROVE  \E l, d, e, t : Moves(r, l, d, e, t)
<1> USE Apart DEF FitsOf, Going, Final
<1>1. CASE AddRow(r)
  <2>1. Adds(r)
    BY <1>1, AddsNothing DEF AddRow, GTypeOK
  <2>2. Moves(r, "exec", detached[r], entry[r], timers[r])
    BY <1>1, <2>1 DEF AddRow, Moves, Goes, Fits
  <2> QED
    BY <2>2
<1>2. CASE Exec(r) \/ ExecFails(r)
  <2>1. loop[r] = "exec" /\ sent[r] + 1 \in 0..Rows
    BY <1>2, GeneratorAssumption DEF Exec, ExecFails, GTypeOK
  <2>2. sent' \in [Runs -> 0..Rows] /\ failed' \in [Runs -> BOOLEAN] /\ docs' = docs
    <3>1. CASE Exec(r)
      BY <2>1, <3>1 DEF Exec, GTypeOK
    <3>2. CASE ExecFails(r)
      BY <3>2 DEF ExecFails, GTypeOK
    <3> QED
      BY <1>2, <3>1, <3>2
  <2>3. stream \subseteq stream' /\ (stream' # stream => stream' = stream \cup {<<r, sent[r] + 1>>})
    BY <1>2 DEF Exec, ExecFails
  <2>4. \A q \in Runs : loop'[q] = "exec" => sent'[q] < Rows
    BY <1>2 DEF Exec, ExecFails, GTypeOK
  <2>5. Adds(r)
    BY <2>1, <2>2, <2>3, <2>4 DEF Adds
  <2>6. Moves(r, "rows", detached[r], entry[r], timers[r])
    BY <1>2, <2>1, <2>5 DEF Exec, ExecFails, Moves, Goes, Fits
  <2> QED
    BY <2>6
<1> QED
  BY <1>1, <1>2

LEMMA MovesFinish ==
  ASSUME GTypeOK, NEW r \in Runs, FitsOf(r), Finish(r)
  PROVE  \E l, d, e, t : Moves(r, l, d, e, t)
<1> USE Apart DEF FitsOf, Going, Final
<1>1. PICK reason \in {"rows", "elapsed", "memory"} :
        entry' = [entry EXCEPT ![r] =
          IF Known(r) THEN [status |-> Outcome(r, reason).status,
                            stop |-> Outcome(r, reason).stop, cancel |-> entry[r].cancel] ELSE entry[r]]
  BY DEF Finish
<1> DEFINE o == Outcome(r, reason)
           t == IF detached[r] THEN timers[r] + 1 ELSE timers[r]
           e == [status |-> o.status, stop |-> o.stop, cancel |-> entry[r].cancel]
<1>2. Adds(r)
  BY AddsNothing DEF Finish, GTypeOK
<1>3. /\ o.status \in Final /\ o.stop \in {"rows", "elapsed", "memory", "cancelled", "error"}
      /\ detached[r] /\ entry[r].cancel => o.status \in {"cancelled", "error"}
  BY DEF Outcome, FlagUp
<1>4. t \in Nat /\ timers' = [timers EXCEPT ![r] = t] /\ loop[r] = "rows"
      /\ loop' = [loop EXCEPT ![r] = "over"] /\ UNCHANGED <<detached, Requests>>
  BY DEF Finish
<1>5. CASE Known(r)
  <2>1. entry' = [entry EXCEPT ![r] = e]
    BY <1>1, <1>5
  <2>2. /\ e \in EntryType /\ e.status = o.status /\ e.cancel = entry[r].cancel
        /\ e # NoEntry /\ entry[r] # NoEntry
    <3>1. entry[r].cancel \in BOOLEAN
      BY DEF EntryType
    <3> HIDE DEF o
    <3> QED
      BY <1>3, <1>5, <3>1 DEF EntryType, NoEntry, Known
  <2> HIDE DEF o, t, e
  <2>3. Moves(r, "over", detached[r], e, t)
    BY <1>2, <1>3, <1>4, <2>1, <2>2 DEF Moves, Goes, Fits
  <2> QED
    BY <2>3
<1>6. CASE ~Known(r)
  <2>1. entry' = [entry EXCEPT ![r] = entry[r]] /\ entry[r] = NoEntry
    BY <1>1, <1>6 DEF Known
  <2> HIDE DEF o, t, e
  <2>2. Moves(r, "over", detached[r], entry[r], t)
    BY <1>2, <1>4, <2>1, NoEntryIs DEF Moves, Goes, Fits
  <2> QED
    BY <2>2
<1> QED
  BY <1>5, <1>6

LEMMA MovesEntry ==
  ASSUME GTypeOK, NEW r \in Runs, FitsOf(r), Evict(r) \/ Cancel(r)
  PROVE  \E l, d, e, t : Moves(r, l, d, e, t)
<1> USE Apart DEF FitsOf, Going, Final
<1>1. Adds(r)
  BY AddsNothing DEF Evict, Cancel, GTypeOK
<1>2. CASE Evict(r)
  <2>1. timers[r] > 0 /\ timers[r] - 1 \in Nat /\ timers' = [timers EXCEPT ![r] = timers[r] - 1]
    BY <1>2 DEF Evict
  <2>2. Moves(r, loop[r], detached[r], NoEntry, timers[r] - 1)
    BY <1>1, <1>2, <2>1, NoEntryIs DEF Evict, Moves, Goes, Fits
  <2> QED
    BY <2>2
<1>3. CASE Cancel(r)
  <2> DEFINE e == [entry[r] EXCEPT !.cancel = TRUE]
  <2>1. e \in EntryType /\ e.status = entry[r].status /\ e.cancel /\ entry' = [entry EXCEPT ![r] = e]
    BY <1>3 DEF Cancel, EntryType
  <2>2. e # NoEntry /\ entry[r] # NoEntry
    BY <1>3, <2>1 DEF Cancel, Known, NoEntry
  <2> HIDE DEF e
  <2>3. Moves(r, loop[r], detached[r], e, timers[r])
    BY <1>1, <1>3, <2>1, <2>2 DEF Cancel, Moves, Goes, Fits
  <2> QED
    BY <2>3
<1> QED
  BY <1>2, <1>3

LEMMA MovesAre ==
  ASSUME GTypeOK, NEW r \in Runs, FitsOf(r), RunStep(r)
  PROVE  \E l, d, e, t : Moves(r, l, d, e, t)
  BY MovesStart, MovesRegister, MovesWrite, MovesFinish, MovesEntry DEF RunStep

\* What a step of a run keeps.
LEMMA MovesKeep ==
  ASSUME Inv, NEW r \in Runs, NEW l, NEW d, NEW e, NEW t, Moves(r, l, d, e, t)
  PROVE  Inv' /\ EndedStays
<1> USE DEF Inv, Moves
<1>1. GTypeOK'
  <2>1. /\ loop' \in [Runs -> {"idle", "probing", "rows", "exec", "over"}]
        /\ detached' \in [Runs -> BOOLEAN] /\ entry' \in [Runs -> EntryType]
        /\ timers' \in [Runs -> Nat] /\ UNCHANGED Requests
    BY DEF Goes, GTypeOK
  <2>2. stream' \subseteq Runs \X (1..Rows)
    <3>1. stream' # stream => sent[r] + 1 \in 1..Rows
      BY GeneratorAssumption DEF Adds, GTypeOK
    <3> QED
      BY <3>1 DEF Adds, GTypeOK
  <2> QED
    BY <2>1, <2>2 DEF GTypeOK, Adds, Requests
<1>2. /\ loop'[r] = l /\ detached'[r] = d /\ entry'[r] = e /\ timers'[r] = t /\ UNCHANGED Requests
      /\ \A q \in Runs \ {r} : /\ loop'[q] = loop[q] /\ detached'[q] = detached[q]
                              /\ entry'[q] = entry[q] /\ timers'[q] = timers[q]
  BY DEF Goes, GTypeOK
<1>3. EntriesFit'
  BY <1>2 DEF EntriesFit, FitsOf, Requests
<1>4. RequestsFit'
  <2>1. ASSUME NEW a \in Admins, NEW q \in ids[a] PROVE Raises(q, admin[a])'
    <3>1. Raises(q, admin[a]) /\ q \in Runs
      BY DEF RequestsFit, GTypeOK
    <3> QED
      BY <1>2, <3>1 DEF Raises, Requests
  <2> QED
    BY <1>2, <2>1 DEF RequestsFit, Requests
<1>5. EndedStays
  BY <1>2 DEF EndedStays, Final
<1> QED
  BY <1>1, <1>3, <1>4, <1>5

-------------------------------------------------------------------------------
(* The steps of requests and of ingest *)

LEMMA CancelKeeps ==
  ASSUME Inv, NEW a \in Admins, NEW k \in {"cancel", "stop"}, CancelAll(a, k)
  PROVE  Inv' /\ EndedStays
<1> USE DEF Inv
<1> DEFINE hit == {r \in Runs : Running(r) /\ ~entry[r].cancel}
           raised(r) == [entry[r] EXCEPT !.cancel = TRUE]
<1>1. /\ entry' = [r \in Runs |-> IF r \in hit THEN raised(r) ELSE entry[r]]
      /\ ids' = [ids EXCEPT ![a] = hit] /\ kind' = [kind EXCEPT ![a] = k]
      /\ admin' = [admin EXCEPT ![a] = IF hit = {} THEN "halt" ELSE "drain"]
      /\ UNCHANGED <<loop, detached, timers, sent, failed, stream, docs, forced>>
  BY DEF CancelAll, Store
<1>2. \A r \in hit : r \in Runs /\ entry[r].status = "running" /\ detached[r] /\ loop[r] \in Going
  BY NoEntryIs DEF Running, EntriesFit, FitsOf, Fits, GTypeOK
<1>3. ASSUME NEW r \in Runs
      PROVE  /\ entry[r] \in EntryType /\ raised(r) \in EntryType
             /\ raised(r).status = entry[r].status /\ raised(r).cancel
             /\ raised(r) = NoEntry => entry[r].status = "none"
  BY NoEntryIs DEF GTypeOK, EntryType
<1> HIDE DEF hit, raised
<1>4. GTypeOK'
  <2>1. hit \subseteq Runs
    BY <1>2
  <2> QED
    BY <1>1, <1>3, <2>1 DEF GTypeOK
<1>5. ASSUME NEW r \in Runs
      PROVE  /\ FitsOf(r)' /\ entry'[r].status = entry[r].status
             /\ entry'[r] # NoEntry => entry[r] # NoEntry
             /\ entry[r].cancel => entry'[r].cancel
             /\ r \in hit => entry'[r].cancel
  BY <1>1, <1>2, <1>3, NoEntryIs DEF EntriesFit, FitsOf, Fits
<1>6. EntriesFit' /\ EndedStays
  BY <1>5 DEF EntriesFit, EndedStays
<1>7. RequestsFit'
  <2>1. ASSUME NEW b \in Admins, b # a PROVE ids'[b] = ids[b] /\ admin'[b] = admin[b]
    BY <1>1, <2>1 DEF GTypeOK
  <2>2. ids'[a] = hit /\ admin'[a] # "idle" /\ (hit # {} => admin'[a] = "drain")
    BY <1>1 DEF GTypeOK
  <2>3. ASSUME NEW b \in Admins, NEW r \in ids[b], b # a PROVE Raises(r, admin[b])'
    BY <1>1, <1>5, <2>1, <2>3 DEF RequestsFit, Raises, GTypeOK
  <2>4. ASSUME NEW r \in hit PROVE Raises(r, admin[a])'
    BY <1>1, <1>2, <1>5, <2>2, <2>4 DEF Raises, Going
  <2> QED
    BY <2>1, <2>2, <2>3, <2>4 DEF RequestsFit
<1> QED
  BY <1>4, <1>6, <1>7

LEMMA DrainedKeeps ==
  ASSUME Inv, NEW a \in Admins, Drained(a)
  PROVE  Inv' /\ EndedStays
<1> USE DEF Inv
<1> DEFINE left == {r \in ids[a] : Running(r)}
           ended(r) == [entry[r] EXCEPT !.status = "cancelled", !.stop = "cancelled"]
<1>1. /\ entry' = [r \in Runs |-> IF r \in left THEN ended(r) ELSE entry[r]]
      /\ timers' = [r \in Runs |-> IF r \in left THEN timers[r] + 1 ELSE timers[r]]
      /\ admin[a] = "drain" /\ admin' = [admin EXCEPT ![a] = "halt"] /\ forced' = forced \cup left
      /\ UNCHANGED <<loop, detached, sent, failed, stream, docs, kind, ids>>
  BY DEF Drained, Store
<1>2. \A r \in left : /\ r \in Runs /\ entry[r].status = "running" /\ entry[r] # NoEntry
                      /\ detached[r] /\ loop[r] \in Going /\ entry[r].cancel
  BY NoEntryIs DEF Running, EntriesFit, FitsOf, Fits, GTypeOK, RequestsFit, Raises
<1>3. \A r \in ids[a] : r \in Runs /\ (r \notin left => entry[r].status # "running")
  BY DEF Running, GTypeOK
<1>4. ASSUME NEW r \in Runs
      PROVE  /\ entry[r] \in EntryType /\ ended(r) \in EntryType
             /\ ended(r).status = "cancelled" /\ ended(r).cancel = entry[r].cancel
             /\ ended(r) # NoEntry /\ timers[r] \in Nat
  BY NoEntryIs DEF GTypeOK, EntryType
<1> HIDE DEF left, ended
<1>5. GTypeOK'
  <2>1. left \subseteq Runs
    BY <1>2
  <2> QED
    BY <1>1, <1>4, <2>1 DEF GTypeOK
<1>6. ASSUME NEW r \in Runs
      PROVE  /\ FitsOf(r)' /\ (r \notin left => entry'[r] = entry[r])
             /\ r \in left => entry'[r].cancel /\ entry[r].status = "running"
  BY <1>1, <1>2, <1>4, NoEntryIs DEF EntriesFit, FitsOf, Fits, Going
<1>7. EntriesFit' /\ EndedStays
  BY <1>6 DEF EntriesFit, EndedStays
<1>8. RequestsFit'
  <2>1. ASSUME NEW b \in Admins, NEW r \in ids[b] PROVE Raises(r, admin[b])'
    <3>1. Raises(r, admin[b]) /\ r \in Runs
      BY DEF RequestsFit, GTypeOK
    <3>2. CASE b # a
      <4>1. admin'[b] = admin[b]
        BY <1>1, <3>2 DEF GTypeOK
      <4> QED
        BY <1>1, <1>2, <1>6, <3>1, <4>1 DEF Raises
    <3>3. CASE b = a
      <4>1. r \notin left => loop[r] = "over" \/ r \in forced
        BY <1>3, <3>1, <3>3 DEF Raises, EntriesFit, FitsOf, Fits, Going
      <4> QED
        BY <1>1, <1>2, <1>6, <3>1, <4>1 DEF Raises
    <3> QED
      BY <3>2, <3>3
  <2>2. \A b \in Admins : admin'[b] = "idle" => admin[b] = "idle"
    BY <1>1 DEF GTypeOK
  <2> QED
    BY <1>1, <2>1, <2>2 DEF RequestsFit
<1> QED
  BY <1>5, <1>7, <1>8

LEMMA OthersKeep ==
  ASSUME Inv, \/ \E a \in Admins : Halt(a) \/ HaltFails(a)
              \/ Ingest \/ UNCHANGED gvars
  PROVE  Inv' /\ EndedStays
<1> USE DEF Inv
<1>1. UNCHANGED <<loop, detached, entry, timers, sent, failed, kind, ids, forced>>
  BY DEF Halt, HaltFails, Ingest, Requests, gvars
<1>2. /\ stream' \subseteq stream /\ docs' \subseteq docs \cup stream
      /\ admin' \in [Admins -> {"idle", "drain", "halt", "over", "failed"}]
      /\ \A a \in Admins :
           admin'[a] = admin[a] \/ (admin[a] = "halt" /\ admin'[a] \in {"over", "failed"})
  <2>1. CASE \E a \in Admins : Halt(a) \/ HaltFails(a)
    BY <2>1 DEF Halt, HaltFails, Store, GTypeOK
  <2>2. CASE Ingest \/ UNCHANGED gvars
    BY <2>2 DEF Ingest, Requests, gvars, GTypeOK
  <2> QED
    BY <2>1, <2>2
<1>3. GTypeOK'
  BY <1>1, <1>2 DEF GTypeOK
<1>4. EntriesFit' /\ EndedStays
  BY <1>1 DEF EntriesFit, FitsOf, EndedStays
<1>5. RequestsFit'
  BY <1>1, <1>2 DEF RequestsFit, Raises
<1> QED
  BY <1>3, <1>4, <1>5

LEMMA Starts ==
  ASSUME GInit
  PROVE  Inv /\ FlushedUnlessForced
<1>1. GTypeOK
  BY GeneratorAssumption, NoEntryIs DEF GInit, GTypeOK
<1>2. EntriesFit
  BY NoEntryIs DEF GInit, EntriesFit, FitsOf, Fits, Going
<1>3. RequestsFit
  BY DEF GInit, RequestsFit
<1>4. FlushedUnlessForced
  BY DEF GInit, FlushedUnlessForced
<1> QED
  BY <1>1, <1>2, <1>3, <1>4 DEF Inv

LEMMA StepKeeps ==
  ASSUME Inv, [GNext]_gvars
  PROVE  Inv' /\ EndedStays
<1>1. ASSUME NEW r \in Runs, RunStep(r) PROVE Inv' /\ EndedStays
  <2>1. GTypeOK /\ FitsOf(r)
    BY DEF Inv, EntriesFit
  <2>2. PICK l, d, e, t : Moves(r, l, d, e, t)
    BY <1>1, <2>1, MovesAre
  <2> QED
    BY <2>2, MovesKeep
<1> QED
  BY <1>1, CancelKeeps, DrainedKeeps, OthersKeep, StepCases

\* The types of the runs and requests are inductive, with what entries and
\* requests say of the loops.
THEOREM GeneratorTypes == GSpec => []Inv
<1> QED
  BY Starts, StepKeeps, PTL DEF GSpec

\* A terminal status is final: only the error of a loop that was forced replaces it.
THEOREM TerminalStays == GSpec => TerminalIsFinal
<1>1. Inv /\ [GNext]_gvars => [EndedStays]_gvars
  BY StepKeeps
<1> QED
  BY <1>1, GeneratorTypes, PTL DEF GSpec, TerminalIsFinal

-------------------------------------------------------------------------------
(* What a flush leaves *)

\* Rows appear only from a loop that goes on.
LEMMA RowsAppear ==
  ASSUME Inv, [GNext]_gvars
  PROVE  \/ stream' \cup docs' \subseteq stream \cup docs
         \/ \E r \in Runs : /\ loop[r] = "exec" /\ UNCHANGED Requests
                          /\ stream' \cup docs' = stream \cup docs \cup {<<r, sent[r] + 1>>}
<1>1. ASSUME NEW r \in Runs, RunStep(r)
      PROVE  \/ stream' \cup docs' \subseteq stream \cup docs
             \/ /\ loop[r] = "exec" /\ UNCHANGED Requests
                /\ stream' \cup docs' = stream \cup docs \cup {<<r, sent[r] + 1>>}
  <2>1. PICK l, d, e, t : Moves(r, l, d, e, t)
    BY <1>1, MovesAre DEF Inv, EntriesFit
  <2> QED
    BY <2>1 DEF Moves, Goes, Adds
<1>2. ASSUME NEW a \in Admins, \/ \E k \in {"cancel", "stop"} : CancelAll(a, k)
                             \/ Drained(a) \/ Halt(a) \/ HaltFails(a)
      PROVE  stream' \cup docs' \subseteq stream \cup docs
  BY <1>2 DEF CancelAll, Drained, Halt, HaltFails, Store
<1>3. CASE Ingest \/ UNCHANGED gvars
  BY <1>3 DEF Ingest, gvars
<1> QED
  BY <1>1, <1>2, <1>3, StepCases

LEMMA FlushedStep ==
  ASSUME Inv, FlushedUnlessForced, [GNext]_gvars
  PROVE  FlushedUnlessForced'
<1> SUFFICES ASSUME NEW a \in Admins, admin'[a] = "over", kind'[a] = "cancel",
                    NEW r \in ids'[a], r \notin forced'
             PROVE  (stream' \cup docs') \cap RowsOf(r) = {}
  BY DEF FlushedUnlessForced
<1>1. CASE Halt(a)
  BY <1>1 DEF Halt
<1>2. CASE ~Halt(a)
  <2>1. admin[a] = "over" /\ kind[a] = "cancel" /\ r \in ids[a] /\ r \notin forced
    <3>1. ASSUME NEW q \in Runs, RunStep(q) PROVE UNCHANGED Requests
      BY <3>1 DEF RunStep, StartSync, StartStream, Register, AddRow, Exec, ExecFails, Finish, Evict,
                  Cancel
    <3>2. ASSUME NEW b \in Admins, \/ \E k \in {"cancel", "stop"} : CancelAll(b, k)
                                 \/ Drained(b) \/ Halt(b) \/ HaltFails(b)
          PROVE  /\ admin[a] = "over" /\ kind'[a] = kind[a] /\ ids'[a] = ids[a]
                 /\ forced \subseteq forced'
      BY <1>2, <3>2 DEF CancelAll, Drained, Halt, HaltFails, Inv, GTypeOK
    <3>3. CASE Ingest \/ UNCHANGED gvars
      BY <3>3 DEF Ingest, Requests, gvars
    <3> QED
      BY <3>1, <3>2, <3>3, StepCases DEF Requests
  <2>2. (stream \cup docs) \cap RowsOf(r) = {}
    BY <2>1 DEF FlushedUnlessForced
  <2>3. loop[r] = "over"
    BY <2>1 DEF Inv, RequestsFit, Raises
  <2>4. \A q, n : <<q, n>> \in RowsOf(r) => q = r
    BY DEF RowsOf
  <2> QED
    BY <2>2, <2>3, <2>4, RowsAppear
<1> QED
  BY <1>1, <1>2

\* A cancel-all whose flush succeeds leaves no row of the runs it waited for.
THEOREM FlushSound == GSpec => []FlushedUnlessForced
<1> QED
  BY Starts, FlushedStep, GeneratorTypes, PTL DEF GSpec

-------------------------------------------------------------------------------
(* The served index *)

\* The record names an index that a query may be sent to.
Fit ==
  ~record.legacy =>
    record # None /\ PresentOnAll(Served(record)) /\ Fields(schema) \subseteq Fields(record.hash)

\* What a bootstrap that runs alone has established by each of its stages.
OnTrack(r) ==
  /\ r.pc \in {"stranded", "recover", "legacy", "gate"} /\ r.old # None => record = r.old
  /\ r.pc \notin {"slim", "lib"} => ~r.skipped
  /\ r.pc = "adopt" => /\ r.found \in Schemas /\ PresentOnAll(r.found)
                       /\ Fields(schema) \subseteq Fields(r.found)
  /\ r.pc = "rebuild" /\ ~r.bad => Nodes \ r.todo \subseteq held[schema]
  /\ r.pc = "slim" /\ ~r.lost /\ (r.skipped \/ ~r.bad) => Fit
  /\ r.pc = "lib" /\ ~r.bad => (~r.lost => Fit) /\ Nodes \ r.todo \subseteq lib

\* A bootstrap that believes itself alone is, and an ended one left nobody at work.
AloneIsAlone ==
  \A b \in Boots :
    run[b].alone /\ run[b].pc # "idle" => \A c \in Boots \ {b} : run[c].pc = "idle"
SettledIsQuiet == settled # "no" => \A b \in Boots : run[b].pc = "idle"

IndexInv ==
  /\ XTypeOK
  /\ AloneIsAlone /\ SettledIsQuiet
  /\ \A b \in Boots : run[b].alone => OnTrack(run[b])
  /\ ServedIndexIsSound

LEMMA IdleIsRun == Idle \in RunType /\ Idle.pc = "idle" /\ Idle.alone /\ ~Idle.skipped /\ ~Idle.bad
  BY DEF Idle, RunType, RecordType

\* An idle bootstrap has established nothing, and nothing is asked of it.
LEMMA IdleOnTrack ==
  ASSUME NEW r, r.pc = "idle", ~r.skipped
  PROVE  OnTrack(r) /\ OnTrack(r)'
  BY DEF OnTrack

\* A bootstrap under way: nothing has settled.
LEMMA UnderWay ==
  ASSUME IndexInv, NEW b \in Boots, run[b].pc # "idle"
  PROVE  settled = "no"
  BY DEF IndexInv, SettledIsQuiet
\* A step of one bootstrap keeps the invariant when it keeps the types and, should
\* the bootstrap be alone, what is asked of its stage; what settles is sound.
LEMMA BootStep ==
  ASSUME IndexInv, NEW b \in Boots, run[b].pc # "idle", XTypeOK',
         \A c \in Boots \ {b} : run'[c] = run[c],
         run'[b].pc # "idle" => (run'[b].alone <=> run[b].alone),
         run'[b].pc = "idle" => ~run'[b].skipped,
         run[b].alone => OnTrack(run[b])',
         settled' # "no" => run'[b].pc = "idle" /\ run[b].alone /\ ServedIndexIsSound'
  PROVE  IndexInv'
<1>1. run[b].alone => \A c \in Boots \ {b} : run[c].pc = "idle"
  BY DEF IndexInv, AloneIsAlone
<1>2. \A c \in Boots \ {b} : run[c].alone => run[c].pc = "idle"
  BY DEF IndexInv, AloneIsAlone
<1>3. AloneIsAlone'
  BY <1>1, <1>2 DEF AloneIsAlone
<1>4. SettledIsQuiet'
  BY <1>1 DEF SettledIsQuiet
<1>5. ASSUME NEW c \in Boots, run'[c].alone PROVE OnTrack(run[c])'
  <2>1. CASE c = b /\ run'[b].pc = "idle"
    BY <2>1 DEF OnTrack
  <2>2. CASE c = b /\ run'[b].pc # "idle"
    BY <2>2, <1>5
  <2>3. CASE c # b
    <3>1. run'[c] = run[c] /\ run[c].pc = "idle"
      BY <2>3, <1>2, <1>5
    <3>2. ~run[c].skipped
      BY <3>1, <1>5 DEF IndexInv, OnTrack
    <3> QED
      BY <3>1, <3>2 DEF OnTrack
  <2> QED
    BY <2>1, <2>2, <2>3
<1>6. ServedIndexIsSound'
  BY DEF ServedIndexIsSound, ServedIndexExists, ServedIndexFits, RebuiltIsPrimed
<1> QED
  BY <1>3, <1>4, <1>5, <1>6 DEF IndexInv

-------------------------------------------------------------------------------
LEMMA RecordTypes ==
  ASSUME NEW s \in Schemas
  PROVE  Own(s) \in RecordType /\ Legacy(s) \in RecordType /\ None \in RecordType
  BY DEF Own, Legacy, RecordType

\* The types after a step that leaves bootstrap b with x, whatever else it does.
LEMMA BootFrame ==
  ASSUME XTypeOK, NEW b \in Boots, NEW x \in RunType, run' = [run EXCEPT ![b] = x],
         x.pc = "adopt" => x.found \in Schemas
  PROVE  run' \in [Boots -> RunType] /\ \A c \in Boots : run'[c].pc = "adopt" => run'[c].found \in Schemas
  BY DEF XTypeOK

\* Refused or answered, the count of refusals is a number.
LEMMA FailsCounted ==
  ASSUME fails \in Nat, Answered \/ Refused
  PROVE  fails' \in Nat
  BY DEF Answered, Refused

LEMMA NamedTypes ==
  ASSUME XTypeOK, NEW b \in Boots, NEW r \in RecordType, NEW then \in RunType, then.pc # "adopt",
         Named(b, r, then)
  PROVE  /\ record' \in RecordType /\ fails' \in Nat
         /\ run' \in [Boots -> RunType] /\ \A c \in Boots : run'[c].pc = "adopt" => run'[c].found \in Schemas
<1>1. [then EXCEPT !.lost = TRUE] \in RunType /\ [then EXCEPT !.lost = TRUE].pc # "adopt"
  BY DEF RunType
<1>2. CASE Answered /\ record' = r /\ run' = [run EXCEPT ![b] = then]
  BY <1>2, BootFrame, FailsCounted DEF XTypeOK
<1>3. CASE Refused /\ record' = record /\ run' = [run EXCEPT ![b] = [then EXCEPT !.lost = TRUE]]
  BY <1>1, <1>3, BootFrame, FailsCounted DEF XTypeOK
<1> QED
  BY <1>2, <1>3 DEF Named

LEMMA BootTypes ==
  ASSUME XTypeOK, NEW b \in Boots, Step(b)
  PROVE  XTypeOK'
<1> DEFINE r == run[b]
           Runs1 == run' \in [Boots -> RunType]
                    /\ \A c \in Boots : run'[c].pc = "adopt" => run'[c].found \in Schemas
<1>r. run \in [Boots -> RunType] /\ r \in RunType /\ record \in RecordType /\ fails \in Nat
  BY DEF XTypeOK
<1>i. Idle \in RunType /\ Idle.pc # "adopt"
  BY IdleIsRun
<1>1. CASE Begin(b)
  <2>1. PICK force \in BOOLEAN, mode \in Modes :
          LET others == {c \in Boots \ {b} : run[c].pc # "idle"} IN
          run' = [c \in Boots |->
             IF c = b THEN [Idle EXCEPT !.pc = "read", !.force = force, !.mode = mode,
                                        !.alone = others = {}]
             ELSE IF c \in others THEN [run[c] EXCEPT !.alone = FALSE] ELSE run[c]]
    BY <1>1 DEF Begin
  <2> DEFINE others == {c \in Boots \ {b} : run[c].pc # "idle"}
             new(a) == [Idle EXCEPT !.pc = "read", !.force = force, !.mode = mode, !.alone = a]
             old(c) == [run[c] EXCEPT !.alone = FALSE]
  <2>2. ASSUME NEW a \in BOOLEAN PROVE new(a) \in RunType /\ new(a).pc = "read"
    BY DEF Idle, RunType, RecordType
  <2>3. ASSUME NEW c \in Boots
        PROVE  old(c) \in RunType /\ old(c).pc = run[c].pc /\ old(c).found = run[c].found
    BY <1>r DEF RunType
  <2>4. (others = {}) \in BOOLEAN
    OBVIOUS
  <2>5. run' = [c \in Boots |-> IF c = b THEN new(others = {})
                                ELSE IF c \in others THEN old(c) ELSE run[c]]
    BY <2>1
  <2>6. new(others = {}) \in RunType /\ new(others = {}).pc = "read"
    BY <2>2, <2>4
  <2> HIDE DEF new, old, others
  <2>7. Runs1
    BY <2>3, <2>5, <2>6, <1>r DEF XTypeOK
  <2>8. begun' = begun + 1 /\ settled' = "no"
    BY <1>1 DEF Begin
  <2>10. begun' \in Nat
    BY <2>8 DEF XTypeOK
  <2>9. UNCHANGED target /\ UNCHANGED <<schema, fails, turns>>
    BY <1>1 DEF Begin
  <2> QED
    BY <2>7, <2>8, <2>9, <2>10 DEF target, XTypeOK
<1>2. CASE ReadOldHash(b)
  <2>1. PICK old \in {record, None} :
           /\ Answered \/ Refused
           /\ run' = [run EXCEPT ![b].old = old,
                              ![b].pc = IF old.legacy \/ old = None THEN "legacy" ELSE "stranded"]
    BY <1>2 DEF ReadOldHash
  <2> DEFINE x == [r EXCEPT !.old = old,
                            !.pc = IF old.legacy \/ old = None THEN "legacy" ELSE "stranded"]
  <2>2. x \in RunType /\ x.pc # "adopt"
    BY <1>r DEF RecordType, RunType
  <2>3. run' = [run EXCEPT ![b] = x]
    BY <2>1, <1>r
  <2> HIDE DEF x
  <2>4. Runs1
    BY <2>2, <2>3, BootFrame
  <2> QED
    BY <1>2, <2>1, <2>4, FailsCounted DEF ReadOldHash, Reads, Rest, XTypeOK
<1>3. CASE ProbeStranded(b)
  <2>1. Runs1
    <3>1. ASSUME NEW p \in {"recover", "legacy"}
          PROVE  [r EXCEPT !.pc = p] \in RunType /\ [r EXCEPT !.pc = p].pc # "adopt"
      BY <1>r DEF RunType
    <3>2. (\E p \in {"recover", "legacy"} : run' = [run EXCEPT ![b] = [r EXCEPT !.pc = p]])
          \/ run' = [run EXCEPT ![b] = Idle]
      BY <1>3, <1>r DEF ProbeStranded, Go
    <3> QED
      BY <1>i, <3>1, <3>2, BootFrame
  <2> QED
    BY <1>3, <2>1, FailsCounted DEF ProbeStranded, Reads, Rest, XTypeOK
<1>4. CASE RecoverStranded(b)
  <2> DEFINE x == [r EXCEPT !.old = None, !.pc = "legacy"]
  <2>1. x \in RunType /\ x.pc # "adopt"
    BY <1>r, RecordTypes DEF RunType, RecordType
  <2>2. run' = [run EXCEPT ![b] = x]
    BY <1>4, <1>r DEF RecoverStranded
  <2> HIDE DEF x
  <2>3. Runs1
    BY <2>1, <2>2, BootFrame
  <2>4. record' \in RecordType
    BY <1>4, <1>r DEF RecoverStranded, RecordType
  <2> QED
    BY <1>4, <2>3, <2>4, FailsCounted DEF RecoverStranded, Rest, XTypeOK
<1>5. CASE ProbeLegacy(b)
  <2>1. Runs1
    <3>1. ASSUME NEW p \in {"adoptLegacy", "gate"}
          PROVE  [r EXCEPT !.pc = p] \in RunType /\ [r EXCEPT !.pc = p].pc # "adopt"
      BY <1>r DEF RunType
    <3>2. \E p \in {"adoptLegacy", "gate"} : run' = [run EXCEPT ![b] = [r EXCEPT !.pc = p]]
      BY <1>5, <1>r DEF ProbeLegacy, Go
    <3> QED
      BY <3>1, <3>2, BootFrame
  <2> QED
    BY <1>5, <2>1, FailsCounted DEF ProbeLegacy, Reads, Rest, XTypeOK
<1>6. CASE AdoptLegacy(b) \/ AdoptForeign(b)
  <2> DEFINE then == [r EXCEPT !.pc = "slim", !.todo = Nodes, !.skipped = TRUE]
  <2>1. then \in RunType /\ then.pc # "adopt"
    BY <1>r DEF RunType
  <2>2. PICK n \in RecordType : Named(b, n, then)
    BY <1>6, RecordTypes DEF AdoptLegacy, AdoptForeign, XTypeOK, At
  <2> HIDE DEF then
  <2>3. record' \in RecordType /\ fails' \in Nat /\ Runs1
    BY <2>1, <2>2, NamedTypes
  <2> QED
    BY <1>6, <2>3 DEF AdoptLegacy, AdoptForeign, Rest, XTypeOK
<1>7. CASE SkipUnchanged(b)
  <2> DEFINE x == [r EXCEPT !.pc = "slim", !.todo = Nodes, !.skipped = TRUE]
  <2>1. x \in RunType /\ x.pc # "adopt"
    BY <1>r DEF RunType
  <2>2. run' = [run EXCEPT ![b] = x]
    BY <1>7, <1>r DEF SkipUnchanged
  <2> HIDE DEF x
  <2>3. Runs1
    BY <2>1, <2>2, BootFrame
  <2> QED
    BY <1>7, <2>3, FailsCounted DEF SkipUnchanged, Reads, Rest, XTypeOK
<1>8. CASE Choose(b)
  <2> DEFINE adopt(s) == [r EXCEPT !.pc = "adopt", !.found = s]
             rebuild(d) == [r EXCEPT !.pc = "rebuild", !.todo = Nodes, !.drop = d]
  <2>1. \A s \in Adoptable(b) : s \in Schemas
    BY <1>r DEF Adoptable, Foreign, RunType, RecordType, None
  <2>2. Served(run[b].old) \in Names \/ run[b].old = None
    BY <1>r DEF Served, Names, RunType, RecordType
  <2>3. ASSUME NEW s \in Schemas PROVE adopt(s) \in RunType /\ adopt(s).found = s
    BY <1>r DEF RunType
  <2>4. ASSUME NEW d \in Names \cup {"none"} PROVE rebuild(d) \in RunType /\ rebuild(d).pc # "adopt"
    BY <1>r DEF RunType
  <2>5. \/ \E s \in Adoptable(b) : run' = [run EXCEPT ![b] = adopt(s)]
        \/ \E d \in Names \cup {"none"} : run' = [run EXCEPT ![b] = rebuild(d)]
    BY <1>8, <1>r, <2>2 DEF Choose, ToRebuild
  <2> HIDE DEF adopt, rebuild
  <2>6. Runs1
    BY <2>1, <2>3, <2>4, <2>5, BootFrame
  <2>7. Answered \/ Refused
    BY <1>8 DEF Choose
  <2> QED
    BY <1>8, <2>6, <2>7, FailsCounted DEF Choose, Reads, Rest, XTypeOK
<1>10. CASE NameRebuilt(b)
  <2> DEFINE then == [r EXCEPT !.pc = "slim", !.todo = Nodes]
  <2>1. then \in RunType /\ then.pc # "adopt"
    BY <1>r DEF RunType
  <2>2. \/ run' = [run EXCEPT ![b] = then] /\ Answered /\ record' = record
        \/ Named(b, Own(schema), then)
    BY <1>10, <1>r DEF NameRebuilt
  <2>3. Own(schema) \in RecordType
    BY RecordTypes DEF XTypeOK
  <2> HIDE DEF then
  <2>4. record' \in RecordType /\ fails' \in Nat /\ Runs1
    BY <1>r, <2>1, <2>2, <2>3, NamedTypes, BootFrame, FailsCounted
  <2> QED
    BY <1>10, <2>4 DEF NameRebuilt, Rest, XTypeOK
<1>11. CASE AfterSlim(b)
  <2> DEFINE x == [r EXCEPT !.pc = "lib", !.todo = Nodes]
  <2>1. x \in RunType /\ x.pc # "adopt"
    BY <1>r DEF RunType
  <2>2. run' = [run EXCEPT ![b] = x] \/ run' = [run EXCEPT ![b] = Idle]
    BY <1>11, <1>r DEF AfterSlim
  <2> HIDE DEF x
  <2>3. Runs1
    BY <1>i, <2>1, <2>2, BootFrame
  <2>4. settled' \in {"no", "skipped", "rebuilt"}
    BY <1>11 DEF AfterSlim, SettledAs, XTypeOK
  <2> QED
    BY <1>11, <2>3, <2>4, FailsCounted DEF AfterSlim, target, XTypeOK
<1>12. CASE FillSuggesters(b)
  <2>1. Runs1
    BY <1>12, <1>i, BootFrame DEF FillSuggesters
  <2>2. sug' \subseteq Nodes /\ settled' \in {"no", "skipped", "rebuilt"}
    BY <1>12 DEF FillSuggesters, SettledAs, Names, XTypeOK
  <2>3. fails' \in Nat
    BY <1>12, <1>r, FailsCounted DEF FillSuggesters
  <2> QED
    BY <1>12, <2>1, <2>2, <2>3 DEF FillSuggesters, Rest, XTypeOK
<1>13. ASSUME NEW n \in Nodes, RebuildNode(b, n) \/ EnsureSlim(b, n) \/ LoadLibrary(b, n) PROVE XTypeOK'
  <2> DEFINE x == [r EXCEPT !.todo = @ \ {n}]
             y == [r EXCEPT !.todo = @ \ {n}, !.bad = TRUE]
  <2>1. x \in RunType /\ y \in RunType /\ x.pc = r.pc /\ y.pc = r.pc
    BY <1>r DEF RunType
  <2>2. run' = [run EXCEPT ![b] = x] \/ run' = [run EXCEPT ![b] = y]
    BY <1>13, <1>r DEF RebuildNode, EnsureSlim, LoadLibrary
  <2>3. r.pc # "adopt" /\ (Answered \/ Refused)
    BY <1>13 DEF RebuildNode, EnsureSlim, LoadLibrary, At
  <2> HIDE DEF x, y
  <2>4. Runs1
    BY <2>1, <2>2, <2>3, BootFrame
  <2>5. fails' \in Nat
    BY <2>3, <1>r, FailsCounted
  <2>6. ASSUME NEW f \in [Names -> SUBSET Nodes], NEW ix \in Names
        PROVE  /\ Dropped(b, n, f) \in [Names -> SUBSET Nodes]
               /\ [Dropped(b, n, f) EXCEPT ![ix] = @ \cup {n}] \in [Names -> SUBSET Nodes]
               /\ [f EXCEPT ![ix] = @ \cup {n}] \in [Names -> SUBSET Nodes]
    BY DEF Dropped, Without
  <2>7. schema \in Names
    BY DEF XTypeOK, Names
  <2>8. CASE RebuildNode(b, n)
    <3>1. held' \in [Names -> SUBSET Nodes] /\ full' \in [Names -> SUBSET Nodes]
      BY <2>6, <2>7, <2>8 DEF RebuildNode, XTypeOK
    <3> QED
      BY <2>4, <2>5, <2>8, <3>1 DEF RebuildNode, Rest, XTypeOK
  <2>9. CASE EnsureSlim(b, n)
    <3>1. slims' \in [Names -> SUBSET Nodes]
      BY <2>6, <2>7, <2>9 DEF EnsureSlim, XTypeOK
    <3> QED
      BY <2>4, <2>5, <2>9, <3>1 DEF EnsureSlim, Rest, XTypeOK
  <2>10. CASE LoadLibrary(b, n)
    BY <2>4, <2>5, <2>10 DEF LoadLibrary, Rest, XTypeOK
  <2> QED
    BY <1>13, <2>8, <2>9, <2>10
<1> QED
  BY <1>1, <1>2, <1>3, <1>4, <1>5, <1>6, <1>7, <1>8, <1>10, <1>11, <1>12, <1>13 DEF Step

-------------------------------------------------------------------------------
\* The record still fits where nothing it speaks of has changed.
LEMMA FitKept ==
  ASSUME Fit, UNCHANGED <<record, held, schema>>
  PROVE  Fit'
  BY DEF Fit, Served, PresentOnAll

\* A record of an index on every node that has the fields of the schema fits.
LEMMA OwnFits ==
  ASSUME NEW s \in Schemas, record' = Own(s), held'[s] = Nodes,
         Fields(schema') \subseteq Fields(s)
  PROVE  Fit'
<1>1. s # "none"
  BY SchemaAssumption
<1>2. record' # None /\ record'.hash = s
  BY <1>1 DEF Own, None
<1>3. Served(record)' = s
  BY <1>1, <1>2 DEF Served, Own
<1> QED
  BY <1>2, <1>3 DEF Fit, PresentOnAll

\* What settles as fitting is sound.
LEMMA FitIsSound ==
  ASSUME Fit', settled' = "rebuilt" => lib' = Nodes
  PROVE  ServedIndexIsSound'
  BY DEF Fit, ServedIndexIsSound, ServedIndexExists, ServedIndexFits, RebuiltIsPrimed

\* Stages that leave the record, the index and the library alone.
LEMMA ReadingStages ==
  ASSUME IndexInv, NEW b \in Boots,
         ReadOldHash(b) \/ ProbeStranded(b) \/ RecoverStranded(b) \/ ProbeLegacy(b)
  PROVE  IndexInv'
<1> DEFINE r == run[b]
<1>t. run \in [Boots -> RunType] /\ r \in RunType /\ XTypeOK
  BY DEF IndexInv, XTypeOK
<1>y. XTypeOK'
  BY <1>t, BootTypes DEF Step
<1>s. r.pc # "idle" /\ settled' = settled
  BY DEF ReadOldHash, ProbeStranded, RecoverStranded, ProbeLegacy, At, Reads
<1>n. settled' = "no"
  BY <1>s, UnderWay
<1>k. r.alone => OnTrack(r)
  BY DEF IndexInv
<1>1. /\ \A c \in Boots \ {b} : run'[c] = run[c]
      /\ r'.pc # "idle" => (r'.alone <=> r.alone)
      /\ r'.skipped => r.skipped
      /\ r'.pc \in {"idle", "legacy", "stranded", "recover", "adoptLegacy", "gate"}
  <2>1. CASE ReadOldHash(b)
    BY <1>t, <2>1 DEF ReadOldHash, RunType
  <2>2. CASE ProbeStranded(b)
    BY <1>t, <2>2 DEF ProbeStranded, Go, RunType, Idle
  <2>3. CASE RecoverStranded(b)
    BY <1>t, <2>3 DEF RecoverStranded, RunType
  <2>4. CASE ProbeLegacy(b)
    BY <1>t, <2>4 DEF ProbeLegacy, Go, RunType
  <2> QED
    BY <2>1, <2>2, <2>3, <2>4
<1>2. r.alone /\ r'.pc # "idle" /\ r'.old # None => record' = r'.old
  <2>1. CASE ReadOldHash(b)
    BY <1>t, <2>1 DEF ReadOldHash, Reads, RunType
  <2>2. CASE ProbeStranded(b)
    BY <1>t, <1>k, <2>2 DEF ProbeStranded, At, Go, Reads, RunType, Idle, OnTrack
  <2>3. CASE RecoverStranded(b)
    BY <1>t, <2>3 DEF RecoverStranded, RunType
  <2>4. CASE ProbeLegacy(b)
    BY <1>t, <1>k, <2>4 DEF ProbeLegacy, At, Go, Reads, RunType, OnTrack
  <2> QED
    BY <2>1, <2>2, <2>3, <2>4
<1>3. r.alone => ~r.skipped
  BY <1>k DEF OnTrack, ReadOldHash, ProbeStranded, RecoverStranded, ProbeLegacy, At
<1>4. r'.pc = "idle" => ~r'.skipped
  BY <1>t DEF ReadOldHash, ProbeStranded, RecoverStranded, ProbeLegacy, Go, Idle, RunType
<1>5. r.alone => OnTrack(r)'
  BY <1>1, <1>2, <1>3 DEF OnTrack
<1> QED
  BY <1>1, <1>4, <1>5, <1>n, <1>s, <1>y, BootStep

\* A SET of the record, answered or not, leaves the bootstrap as it says.
LEMMA NamedLeaves ==
  ASSUME XTypeOK, NEW b \in Boots, NEW n, NEW then \in RunType, Named(b, n, then)
  PROVE  /\ \A c \in Boots \ {b} : run'[c] = run[c]
         /\ run'[b].pc = then.pc /\ run'[b].skipped = then.skipped /\ run'[b].bad = then.bad
         /\ run'[b].alone = then.alone
         /\ run'[b].lost \/ record' = n
<1>1. run \in [Boots -> RunType]
  BY DEF XTypeOK
<1>2. CASE record' = n /\ run' = [run EXCEPT ![b] = then]
  BY <1>1, <1>2
<1>3. CASE run' = [run EXCEPT ![b] = [then EXCEPT !.lost = TRUE]]
  BY <1>1, <1>3 DEF RunType
<1> QED
  BY <1>2, <1>3 DEF Named

\* Stages that name the index of the target.
LEMMA NamingStages ==
  ASSUME IndexInv, NEW b \in Boots, AdoptLegacy(b) \/ AdoptForeign(b) \/ NameRebuilt(b)
  PROVE  IndexInv'
<1> DEFINE r == run[b]
<1>t. run \in [Boots -> RunType] /\ r \in RunType /\ XTypeOK /\ schema \in Schemas
  BY DEF IndexInv, XTypeOK
<1>y. XTypeOK'
  BY <1>t, BootTypes DEF Step
<1>s. /\ r.pc \in {"adoptLegacy", "adopt", "rebuild"}
      /\ UNCHANGED <<settled, held, schema, lib>>
  BY DEF AdoptLegacy, AdoptForeign, NameRebuilt, At, Rest
<1>n. settled' = "no"
  BY <1>s, UnderWay
<1>k. r.alone => OnTrack(r)
  BY DEF IndexInv
<1>1. /\ \A c \in Boots \ {b} : run'[c] = run[c]
      /\ r'.alone <=> r.alone
      /\ r'.pc = "slim"
      /\ AdoptLegacy(b) => r'.lost \/ record' = Legacy(schema)
      /\ AdoptForeign(b) => r'.lost \/ record' = Own(r.found)
      /\ NameRebuilt(b) => /\ r'.skipped = r.skipped /\ r'.bad = r.bad /\ r.todo = {}
                           /\ r.bad \/ r'.lost \/ record' = Own(schema)
  <2>1. CASE AdoptLegacy(b) \/ AdoptForeign(b)
    <3> DEFINE then == [r EXCEPT !.pc = "slim", !.todo = Nodes, !.skipped = TRUE]
    <3>1. then \in RunType /\ then.pc = "slim" /\ (then.alone <=> r.alone)
      BY <1>t DEF RunType
    <3>2. ~NameRebuilt(b)
      BY <2>1 DEF AdoptLegacy, AdoptForeign, NameRebuilt, At
    <3>3. CASE AdoptLegacy(b)
      <4>1. Named(b, Legacy(schema), then) /\ ~AdoptForeign(b)
        BY <3>3 DEF AdoptLegacy, AdoptForeign, At
      <4> HIDE DEF then
      <4> QED
        BY <3>1, <3>2, <4>1, <1>t, NamedLeaves
    <3>4. CASE AdoptForeign(b)
      <4>1. Named(b, Own(r.found), then) /\ ~AdoptLegacy(b)
        BY <3>4 DEF AdoptLegacy, AdoptForeign, At
      <4> HIDE DEF then
      <4> QED
        BY <3>1, <3>2, <4>1, <1>t, NamedLeaves
    <3> QED
      BY <2>1, <3>3, <3>4
  <2>2. CASE NameRebuilt(b)
    <3> DEFINE then == [r EXCEPT !.pc = "slim", !.todo = Nodes]
    <3>1. /\ then \in RunType /\ then.pc = "slim"
          /\ (then.alone <=> r.alone) /\ then.skipped = r.skipped /\ then.bad = r.bad
      BY <1>t DEF RunType
    <3>2. ~AdoptLegacy(b) /\ ~AdoptForeign(b) /\ r.todo = {}
      BY <2>2 DEF AdoptLegacy, AdoptForeign, NameRebuilt, At
    <3>3. CASE r.bad
      <4>1. run' = [run EXCEPT ![b] = then]
        BY <2>2, <3>3 DEF NameRebuilt
      <4> HIDE DEF then
      <4> QED
        BY <1>t, <3>1, <3>2, <3>3, <4>1
    <3>4. CASE ~r.bad
      <4>1. Named(b, Own(schema), then)
        BY <2>2, <3>4 DEF NameRebuilt
      <4> HIDE DEF then
      <4> QED
        BY <1>t, <3>1, <3>2, <4>1, NamedLeaves
    <3> QED
      BY <3>3, <3>4
  <2> QED
    BY <2>1, <2>2
<1>2. ASSUME r.alone, ~r'.lost, r'.skipped \/ ~r'.bad PROVE Fit'
  <2>1. CASE AdoptLegacy(b)
    BY <1>1, <1>2, <2>1 DEF Legacy, Fit
  <2>2. CASE AdoptForeign(b)
    <3>1. r.found \in Schemas /\ held'[r.found] = Nodes /\ Fields(schema') \subseteq Fields(r.found)
      BY <1>k, <1>s, <1>2, <2>2 DEF AdoptForeign, At, OnTrack, PresentOnAll
    <3> QED
      BY <1>1, <1>2, <2>2, <3>1, OwnFits
  <2>3. CASE NameRebuilt(b)
    <3>1. r.pc = "rebuild" /\ OnTrack(r)
      BY <1>k, <1>2, <2>3 DEF NameRebuilt, At
    <3>2. ~r.skipped
      BY <3>1 DEF OnTrack
    <3>3. ~r.bad /\ record' = Own(schema) /\ r.todo = {}
      BY <1>1, <1>2, <2>3, <3>2
    <3>4. held[schema] \subseteq Nodes
      BY <1>t DEF XTypeOK, Names
    <3>5. held'[schema] = Nodes
      BY <1>s, <3>1, <3>3, <3>4 DEF OnTrack
    <3> QED
      BY <1>t, <1>s, <3>3, <3>5, OwnFits
  <2> QED
    BY <2>1, <2>2, <2>3
<1>3. r.alone => OnTrack(r)'
  BY <1>1, <1>2 DEF OnTrack
<1> QED
  BY <1>1, <1>3, <1>n, <1>s, <1>y, BootStep

\* The choice among skipping, adopting and rebuilding.
LEMMA ChoosingStages ==
  ASSUME IndexInv, NEW b \in Boots, SkipUnchanged(b) \/ Choose(b)
  PROVE  IndexInv'
<1> DEFINE r == run[b]
<1>t. run \in [Boots -> RunType] /\ r \in RunType /\ XTypeOK /\ schema \in Schemas
  BY DEF IndexInv, XTypeOK
<1>y. XTypeOK'
  BY <1>t, BootTypes DEF Step
<1>s. r.pc = "gate" /\ UNCHANGED <<settled, record, held, schema, lib>>
  BY DEF SkipUnchanged, Choose, At, Reads, Rest
<1>n. settled' = "no"
  BY <1>s, UnderWay
<1>k. r.alone => OnTrack(r)
  BY DEF IndexInv
<1>g. r.alone => ~r.skipped /\ (r.old # None => record = r.old)
  BY <1>k, <1>s DEF OnTrack
<1>1. CASE SkipUnchanged(b)
  <2>1. /\ \A c \in Boots \ {b} : run'[c] = run[c]
        /\ (r'.alone <=> r.alone) /\ r'.pc = "slim"
    BY <1>t, <1>1 DEF SkipUnchanged, RunType
  <2>2. r.old.hash = schema /\ PresentOnAll(Served(r.old))
    BY <1>1 DEF SkipUnchanged, Unchanged
  <2>3. r.old # None
    BY <1>t, <2>2, SchemaAssumption DEF None
  <2>4. r.alone => Fit
    BY <1>g, <2>2, <2>3 DEF Fit
  <2>5. r.alone => OnTrack(r)'
    BY <1>s, <2>1, <2>4, FitKept DEF OnTrack
  <2> QED
    BY <1>n, <1>s, <1>y, <2>1, <2>5, BootStep
<1>2. CASE \E s \in Adoptable(b) : run' = [run EXCEPT ![b].pc = "adopt", ![b].found = s]
  <2>1. PICK s \in Adoptable(b) : run' = [run EXCEPT ![b].pc = "adopt", ![b].found = s]
    BY <1>2
  <2>2. /\ \A c \in Boots \ {b} : run'[c] = run[c]
        /\ (r'.alone <=> r.alone) /\ r'.pc = "adopt" /\ r'.found = s /\ r'.skipped = r.skipped
    BY <1>t, <2>1 DEF RunType
  <2>3. s \in Schemas
    BY <1>t DEF Adoptable, Foreign, RunType, RecordType, None
  <2>4. held'[s] = Nodes /\ Fields(schema') \subseteq Fields(s)
    BY <1>s DEF Adoptable, PresentOnAll, IsAdoptionCompatible
  <2>5. r.alone => OnTrack(r)'
    BY <1>g, <2>2, <2>3, <2>4 DEF OnTrack, PresentOnAll
  <2> QED
    BY <1>n, <1>s, <1>y, <2>2, <2>5, BootStep
<1>3. CASE ToRebuild(b)
  <2>1. /\ \A c \in Boots \ {b} : run'[c] = run[c]
        /\ (r'.alone <=> r.alone) /\ r'.pc = "rebuild" /\ r'.todo = Nodes /\ r'.skipped = r.skipped
    BY <1>t, <1>3 DEF ToRebuild, RunType
  <2>2. r.alone => OnTrack(r)'
    BY <1>g, <2>1 DEF OnTrack
  <2> QED
    BY <1>n, <1>s, <1>y, <2>1, <2>2, BootStep
<1> QED
  BY <1>1, <1>2, <1>3 DEF Choose

\* The work on the nodes: a rebuild drops no index of the schema.
LEMMA NodeStages ==
  ASSUME IndexInv, NEW b \in Boots, NEW n \in Nodes,
         RebuildNode(b, n) \/ EnsureSlim(b, n) \/ LoadLibrary(b, n)
  PROVE  IndexInv'
<1> DEFINE r == run[b]
<1>t. run \in [Boots -> RunType] /\ r \in RunType /\ XTypeOK /\ schema \in Names
  BY DEF IndexInv, XTypeOK, Names
<1>y. XTypeOK'
  BY <1>t, BootTypes DEF Step
<1>s. r.pc \in {"rebuild", "slim", "lib"} /\ UNCHANGED <<settled, record, schema>>
  BY DEF RebuildNode, EnsureSlim, LoadLibrary, At, Rest
<1>n. settled' = "no"
  BY <1>s, UnderWay
<1>k. r.alone => OnTrack(r)
  BY DEF IndexInv
<1>1. /\ \A c \in Boots \ {b} : run'[c] = run[c]
      /\ (r'.alone <=> r.alone) /\ r'.pc = r.pc /\ r'.todo = r.todo \ {n}
      /\ (r'.skipped <=> r.skipped) /\ (r'.lost <=> r.lost)
      /\ (r'.bad <=> r.bad) \/ r'.bad
    BY <1>t DEF RebuildNode, EnsureSlim, LoadLibrary, RunType
<1>2. CASE RebuildNode(b, n)
  <2>1. r.pc = "rebuild"
    BY <1>2 DEF RebuildNode, At
  <2>2. ~r'.bad => ~r.bad /\ held' = [Dropped(b, n, held) EXCEPT ![schema] = @ \cup {n}]
    BY <1>1, <1>2, <1>t DEF RebuildNode, RunType
  <2>3. Dropped(b, n, held)[schema] = held[schema] /\ Dropped(b, n, held) \in [Names -> SUBSET Nodes]
    BY <1>t DEF Dropped, Without, XTypeOK
  <2>4. ~r'.bad => held'[schema] = held[schema] \cup {n}
    BY <2>2, <2>3, <1>t
  <2>5. r.alone => OnTrack(r)'
    BY <1>1, <1>k, <1>s, <2>1, <2>2, <2>4 DEF OnTrack
  <2> QED
    BY <1>1, <1>n, <1>s, <1>y, <2>5, BootStep
<1>3. CASE EnsureSlim(b, n)
  <2>1. r.pc = "slim" /\ UNCHANGED held /\ (r'.bad <=> r.bad)
    BY <1>t, <1>3 DEF EnsureSlim, At, RunType
  <2>2. r.alone => OnTrack(r)'
    BY <1>1, <1>k, <1>s, <2>1, FitKept DEF OnTrack
  <2> QED
    BY <1>1, <1>n, <1>s, <1>y, <2>2, BootStep
<1>4. CASE LoadLibrary(b, n)
  <2>1. r.pc = "lib" /\ UNCHANGED held
    BY <1>4 DEF LoadLibrary, At
  <2>2. ~r'.bad => ~r.bad /\ lib' = lib \cup {n}
    BY <1>t, <1>1, <1>4 DEF LoadLibrary, RunType
  <2>3. r.alone => OnTrack(r)'
    BY <1>1, <1>k, <1>s, <2>1, <2>2, FitKept DEF OnTrack
  <2> QED
    BY <1>1, <1>n, <1>s, <1>y, <2>3, BootStep
<1> QED
  BY <1>2, <1>3, <1>4

\* The two ends of a bootstrap.
LEMMA LastStages ==
  ASSUME IndexInv, NEW b \in Boots, AfterSlim(b) \/ FillSuggesters(b)
  PROVE  IndexInv'
<1> DEFINE r == run[b]
<1>t. run \in [Boots -> RunType] /\ r \in RunType /\ XTypeOK
  BY DEF IndexInv, XTypeOK
<1>y. XTypeOK'
  BY <1>t, BootTypes DEF Step
<1>s. r.pc \in {"slim", "lib"} /\ UNCHANGED <<record, held, schema, lib>>
  BY DEF AfterSlim, FillSuggesters, At, Rest, target
<1>n. settled = "no"
  BY <1>s, UnderWay
<1>k. r.alone => OnTrack(r)
  BY DEF IndexInv
<1>1. CASE AfterSlim(b) /\ r.skipped
  <2>1. r.pc = "slim" /\ run' = [run EXCEPT ![b] = Idle] /\ settled' = SettledAs(b, "skipped")
    BY <1>1 DEF AfterSlim, At
  <2>2. (\A c \in Boots \ {b} : run'[c] = run[c]) /\ r' = Idle
    BY <1>t, <2>1
  <2>3. settled' # "no" => settled' = "skipped" /\ r.alone /\ Fit
    BY <1>1, <1>k, <2>1 DEF SettledAs, OnTrack
  <2>4. settled' # "no" => ServedIndexIsSound'
    BY <1>s, <2>3, FitKept, FitIsSound
  <2>5. OnTrack(r)'
    BY <2>2, IdleIsRun DEF OnTrack
  <2> QED
    BY <1>s, <1>y, <2>2, <2>3, <2>4, <2>5, IdleIsRun, BootStep
<1>2. CASE AfterSlim(b) /\ ~r.skipped
  <2>1. /\ r.pc = "slim" /\ settled' = settled
        /\ run' = [run EXCEPT ![b].pc = "lib", ![b].todo = Nodes]
    BY <1>2 DEF AfterSlim, At
  <2>2. /\ \A c \in Boots \ {b} : run'[c] = run[c]
        /\ (r'.alone <=> r.alone) /\ r'.pc = "lib" /\ r'.todo = Nodes
        /\ (r'.bad <=> r.bad) /\ (r'.lost <=> r.lost)
    BY <1>t, <2>1 DEF RunType
  <2>3. r.alone => OnTrack(r)'
    BY <1>2, <1>k, <1>s, <2>1, <2>2, FitKept DEF OnTrack
  <2> QED
    BY <1>n, <1>s, <1>y, <2>1, <2>2, <2>3, BootStep
<1>3. CASE FillSuggesters(b)
  <2>1. /\ r.pc = "lib" /\ r.todo = {} /\ run' = [run EXCEPT ![b] = Idle]
        /\ settled' = IF r.bad THEN "no" ELSE SettledAs(b, "rebuilt")
    BY <1>3 DEF FillSuggesters, At
  <2>2. (\A c \in Boots \ {b} : run'[c] = run[c]) /\ r' = Idle
    BY <1>t, <2>1
  <2>3. settled' # "no" => r.alone /\ Fit /\ Nodes \subseteq lib
    BY <1>k, <2>1 DEF SettledAs, OnTrack
  <2>4. lib' \subseteq Nodes
    BY <1>y DEF XTypeOK
  <2>5. settled' # "no" => ServedIndexIsSound'
    BY <1>s, <2>3, <2>4, FitKept, FitIsSound
  <2>6. OnTrack(r)'
    BY <2>2, IdleIsRun DEF OnTrack
  <2> QED
    BY <1>s, <1>y, <2>2, <2>3, <2>5, <2>6, IdleIsRun, BootStep
<1> QED
  BY <1>1, <1>2, <1>3

\* A bootstrap begins: whoever is at work already is no longer alone.
LEMMA Beginning ==
  ASSUME IndexInv, NEW b \in Boots, Begin(b)
  PROVE  IndexInv'
<1>t. run \in [Boots -> RunType] /\ XTypeOK
  BY DEF IndexInv, XTypeOK
<1>y. XTypeOK'
  BY <1>t, BootTypes DEF Step
<1> DEFINE others == {c \in Boots \ {b} : run[c].pc # "idle"}
<1>1. PICK force \in BOOLEAN, mode \in Modes :
        run' = [c \in Boots |->
             IF c = b THEN [Idle EXCEPT !.pc = "read", !.force = force, !.mode = mode,
                                        !.alone = others = {}]
             ELSE IF c \in others THEN [run[c] EXCEPT !.alone = FALSE] ELSE run[c]]
  BY DEF Begin
<1>2. run'[b].pc = "read" /\ ~run'[b].skipped /\ (run'[b].alone <=> others = {})
  BY <1>1 DEF Idle
<1>3. \A c \in others : run'[c].pc = run[c].pc /\ ~run'[c].alone
  BY <1>1, <1>t DEF RunType
<1>4. \A c \in Boots \ {b} : c \notin others => run'[c] = run[c] /\ run[c].pc = "idle"
  BY <1>1
<1>5. settled' = "no"
  BY DEF Begin
<1>6. AloneIsAlone'
  BY <1>2, <1>3, <1>4 DEF AloneIsAlone
<1>7. ASSUME NEW c \in Boots, run'[c].alone PROVE OnTrack(run[c])'
  <2>1. CASE c = b
    BY <1>2, <2>1 DEF OnTrack
  <2>2. CASE c # b
    <3>1. run'[c] = run[c] /\ run[c].pc = "idle"
      BY <1>3, <1>4, <1>7, <2>2
    <3>2. ~run[c].skipped
      BY <1>7, <3>1 DEF IndexInv, OnTrack
    <3> QED
      BY <3>1, <3>2 DEF OnTrack
  <2> QED
    BY <2>1, <2>2
<1> QED
  BY <1>y, <1>5, <1>6, <1>7
     DEF IndexInv, SettledIsQuiet, ServedIndexIsSound, ServedIndexExists, ServedIndexFits, RebuiltIsPrimed

\* What happens around the bootstraps: a wipe, a deployment and a lost record find
\* or leave nobody alone at work; rows and scans change no name.
LEMMA AroundKept ==
  ASSUME IndexInv,
         FirstRows \/ Deploy \/ Wipe \/ Unname \/ (\E ix \in Names, n \in Nodes : Scan(ix, n))
         \/ UNCHANGED xvars
  PROVE  IndexInv'
<1>t. XTypeOK /\ run \in [Boots -> RunType]
  BY DEF IndexInv, XTypeOK
<1>1. CASE FirstRows \/ (\E ix \in Names, n \in Nodes : Scan(ix, n)) \/ UNCHANGED xvars
  <2>1. UNCHANGED <<record, held, slims, lib, sug, schema, run, settled, begun, fails, turns>>
    BY <1>1 DEF FirstRows, Scan, xvars
  <2>2. rows' \in BOOLEAN
    BY <1>1, <1>t DEF FirstRows, Scan, xvars, XTypeOK
  <2>4. full' \in [Names -> SUBSET Nodes]
    <3>1. full \in [Names -> SUBSET Nodes]
      BY <1>t DEF XTypeOK
    <3>2. CASE FirstRows \/ UNCHANGED xvars
      BY <3>1, <3>2 DEF FirstRows, xvars
    <3>3. ASSUME NEW ix \in Names, NEW n \in Nodes, Scan(ix, n) PROVE full' \in [Names -> SUBSET Nodes]
      BY <3>1, <3>3 DEF Scan
    <3> QED
      BY <1>1, <3>2, <3>3
  <2>3. XTypeOK'
    BY <1>t, <2>1, <2>2, <2>4 DEF XTypeOK
  <2>5. \A b \in Boots : run'[b].alone => OnTrack(run[b])'
    BY <2>1 DEF IndexInv, OnTrack, Fit, PresentOnAll, Served
  <2>6. AloneIsAlone' /\ SettledIsQuiet' /\ ServedIndexIsSound'
    BY <2>1 DEF IndexInv, AloneIsAlone, SettledIsQuiet, ServedIndexIsSound, ServedIndexExists,
                ServedIndexFits, RebuiltIsPrimed, PresentOnAll, Served
  <2> QED
    BY <2>3, <2>5, <2>6 DEF IndexInv
<1>2. CASE Deploy
  <2>1. /\ settled' = "no" /\ run' = [b \in Boots |-> Idle] /\ schema' \in Schemas
        /\ UNCHANGED target /\ UNCHANGED <<begun, fails>> /\ turns' = turns + 1
    BY <1>2 DEF Deploy
  <2>2. run' \in [Boots -> RunType] /\ \A b \in Boots : run'[b].pc = "idle" /\ ~run'[b].skipped
    BY <2>1, IdleIsRun
  <2>3. XTypeOK'
    BY <1>t, <2>1, <2>2 DEF XTypeOK, target
  <2>4. \A b \in Boots : OnTrack(run[b])'
    BY <2>2 DEF OnTrack
  <2> QED
    BY <2>1, <2>2, <2>3, <2>4
       DEF IndexInv, AloneIsAlone, SettledIsQuiet, ServedIndexIsSound, ServedIndexExists,
           ServedIndexFits, RebuiltIsPrimed
<1>3. CASE Wipe \/ Unname
  <2>1. /\ settled' = "no" /\ run' = [b \in Boots |-> [run[b] EXCEPT !.alone = FALSE]]
        /\ UNCHANGED <<lib, schema, begun, fails>> /\ turns' = turns + 1
        /\ record' = None
    <3>1. CASE Wipe
      BY <3>1 DEF Wipe
    <3>2. CASE Unname
      BY <3>2 DEF Unname
    <3> QED
      BY <1>3, <3>1, <3>2
  <2> DEFINE apart(r) == [r EXCEPT !.alone = FALSE]
  <2>2. ASSUME NEW r \in RunType
        PROVE  apart(r) \in RunType /\ apart(r).pc = r.pc /\ apart(r).found = r.found /\ ~apart(r).alone
    BY DEF RunType
  <2>6. run' = [b \in Boots |-> apart(run[b])]
    BY <2>1
  <2> HIDE DEF apart
  <2>3. /\ run' \in [Boots -> RunType]
        /\ \A b \in Boots : ~run'[b].alone /\ (run'[b].pc = "adopt" => run'[b].found \in Schemas)
    BY <2>2, <2>6, <1>t DEF XTypeOK
  <2>4. /\ held' \in [Names -> SUBSET Nodes] /\ full' \in [Names -> SUBSET Nodes]
        /\ slims' \in [Names -> SUBSET Nodes] /\ sug' \subseteq Nodes /\ rows' \in BOOLEAN
    BY <1>3, <1>t DEF Wipe, Unname, XTypeOK
  <2>5. XTypeOK'
    BY <1>t, <2>1, <2>3, <2>4 DEF XTypeOK, RecordType
  <2> QED
    BY <2>1, <2>3, <2>5
       DEF IndexInv, AloneIsAlone, SettledIsQuiet, ServedIndexIsSound, ServedIndexExists,
           ServedIndexFits, RebuiltIsPrimed
<1> QED
  BY <1>1, <1>2, <1>3

LEMMA IndexInvKept ==
  ASSUME IndexInv, [XNext]_xvars
  PROVE  IndexInv'
<1>1. ASSUME NEW b \in Boots, Step(b) PROVE IndexInv'
  BY <1>1, ReadingStages, NamingStages, ChoosingStages, NodeStages, LastStages, Beginning DEF Step
<1> QED
  BY <1>1, AroundKept DEF XNext

LEMMA IndexInvInit ==
  ASSUME XInit
  PROVE  IndexInv
<1>1. \A b \in Boots : run[b] = Idle
  BY DEF XInit
<1>2. record \in RecordType
  BY RecordTypes DEF XInit, RecordType
<1>3. held \in [Names -> SUBSET Nodes] /\ lib \subseteq Nodes /\ rows \in BOOLEAN
  BY DEF XInit
<1>4. run \in [Boots -> RunType]
  BY IdleIsRun DEF XInit
<1>5. XTypeOK
  BY <1>1, <1>2, <1>3, <1>4, IdleIsRun DEF XInit, XTypeOK
<1>6. \A b \in Boots : OnTrack(run[b])
  BY <1>1, IdleIsRun DEF OnTrack
<1> QED
  BY <1>1, <1>5, <1>6, IdleIsRun
     DEF XInit, IndexInv, AloneIsAlone, SettledIsQuiet, ServedIndexIsSound, ServedIndexExists,
         ServedIndexFits, RebuiltIsPrimed

\* A bootstrap that ran alone leaves in service an index that is on every node and
\* has every field the api queries, and one that rebuilt left its library on every
\* node (bootstrap.ts bootstrapFrtb), for any nodes, schemas, failures, deployments
\* and wipes.
THEOREM ServedSound == XSpec => []ServedIndexIsSound
<1>1. XInit => IndexInv
  BY IndexInvInit
<1>2. IndexInv /\ [XNext]_xvars => IndexInv'
  BY IndexInvKept
<1>3. IndexInv => ServedIndexIsSound
  BY DEF IndexInv
<1> QED
  BY <1>1, <1>2, <1>3, PTL DEF XSpec

\* The types of the index bootstrap are inductive, for any constants: what is
\* adopted is an index some schema names (bootstrap.ts bootstrapFrtb).
THEOREM IndexTypes == XSpec => []XTypeOK
<1>1. XInit => IndexInv
  BY IndexInvInit
<1>2. IndexInv /\ [XNext]_xvars => IndexInv'
  BY IndexInvKept
<1>3. IndexInv => XTypeOK
  BY DEF IndexInv
<1> QED
  BY <1>1, <1>2, <1>3, PTL DEF XSpec

-------------------------------------------------------------------------------
(* The bulk runs *)

\* What starting, a record, its archive and its polls say of a run that is or is not over.
RecordFits(r) ==
  /\ starting[r] # "started" => rec[r] = NoRun /\ ~Over(r) /\ shown[r] = 0 /\ water[r] = 0
  /\ Listed(r) /\ ~Over(r) => /\ rec[r].status \in {"running", "cancelled"}
                              /\ rec[r].cancelled <=> rec[r].status = "cancelled"
  /\ Listed(r) /\ Over(r) => rec[r].status \in {"done", "cancelled", "error"}
  /\ OnGoing(r) => shown[r] = water[r]
  /\ archiving[r] # NoRun =>
       /\ ~Archived(r)
       /\ Listed(r) => rec[r].status = archiving[r].status /\ rec[r].sent = archiving[r].sent
  /\ gone[r] = "drained" => Over(r)

\* A producer that has ended, or was aborted, has no POST left.
Silent(p) == p.at \in {"off", "done", "dead"} \/ p.aborted => p.posts = {}

\* What a record says of the producers of its run.
WorkFits(r) ==
  /\ \A w \in world.workers : Silent(work[r][w])
  /\ Listed(r) /\ ~rec[r].multi =>
       /\ \A w \in world.workers \ {Lead} : work[r][w].at = "off"
       /\ rec[r].cancelled => work[r][Lead].aborted
  /\ Listed(r) /\ Over(r) =>
       \A w \in world.workers :
         /\ work[r][w].at # "on"
         /\ rec[r].multi \/ rec[r].status # "error" => work[r][w].posts = {}

\* What was counted is with the loaders.
Lands(c) == \E x \in landed : <<x.run, x.by, x.row>> = c
SentLands == \A r \in world.runs : \A w \in world.workers :
               \A n \in work[r][w].sent : Lands(<<r, w, n>>)
CountedLands == \A c \in counted : Lands(c)

ArchivedOnce ==
  \A h \in DOMAIN history :
    /\ \A g \in DOMAIN history : history[g].run = history[h].run => g = h
    /\ Listed(history[h].run) =>
         /\ rec[history[h].run].status = history[h].status
         /\ rec[history[h].run].sent = history[h].sent

BulkInv ==
  /\ RTypeOK
  /\ \A r \in world.runs : RecordFits(r) /\ WorkFits(r)
  /\ ArchivedOnce
  /\ SentLands /\ CountedLands /\ RemovedIsDrained

LEMMA LeadWorks ==
  ASSUME RTypeOK
  PROVE  /\ Lead \in world.workers /\ IsFiniteSet(world.workers)
         /\ world.rows \in Nat
  BY WorldAssumption DEF RTypeOK, Lead

LEMMA NoneAre == /\ NoRun \in RunRecord /\ NoRun.status = "none"
                 /\ NoWorker \in Producer
  BY DEF NoRun, RunRecord, Statuses, NoWorker, Producer

-------------------------------------------------------------------------------
(* The steps of a producer *)

\* What a step of a thread makes of its producer.
Becomes(r, w, p) ==
  /\ p \in Producer /\ work' = [work EXCEPT ![r][w] = p]
  /\ UNCHANGED <<world, starting, rec, accepting, halts, counted, Reports>>
  /\ flag' \subseteq world.runs
  /\ landed \subseteq landed' /\ landed' \subseteq Batch /\ IsFiniteSet(landed')
  /\ p.at = "off" <=> work[r][w].at = "off"
  /\ Silent(p)
  /\ work[r][w].aborted => p.aborted
  /\ work[r][w].at # "on" => p.at # "on" /\ (work[r][w].posts = {} => p.posts = {})
  /\ \A n \in p.sent : \/ n \in work[r][w].sent
                       \/ \E x \in landed' : <<x.run, x.by, x.row>> = <<r, w, n>>

LEMMA ProducerFields ==
  ASSUME NEW p \in Producer
  PROVE  /\ p.at \in {"off", "on", "done", "error", "dead"} /\ p.made \in Nat
         /\ p.posts \in SUBSET (Nat \X Nat) /\ p.sent \in SUBSET Nat
         /\ p.failed \in BOOLEAN /\ p.aborted \in BOOLEAN
  BY DEF Producer

LEMMA StoppedIs ==
  ASSUME NEW p \in Producer
  PROVE  /\ Stopped(p) \in Producer /\ Stopped(p).posts = {} /\ Stopped(p).aborted
         /\ Stopped(p).at = p.at /\ Stopped(p).sent = p.sent
  BY DEF Producer, Stopped

LEMMA MadeBecomes ==
  ASSUME BulkInv, world' = world, NEW r \in world.runs, NEW w \in world.workers, Make(r, w)
  PROVE  \E p : Becomes(r, w, p)
<1> DEFINE q == work[r][w]
           p == [q EXCEPT !.made = q.made + 1]
<1>1. q \in Producer
  BY DEF BulkInv, RTypeOK
<1>2. /\ p \in Producer /\ p.at = q.at /\ p.posts = q.posts /\ p.sent = q.sent
      /\ p.aborted = q.aborted /\ p.made = q.made + 1
  <2> HIDE DEF q
  <2> QED
    BY <1>1 DEF Producer
<1>3. /\ landed' = landed /\ landed \subseteq Batch /\ IsFiniteSet(landed) /\ Silent(q) /\ q.at = "on"
      /\ flag' \subseteq world.runs
      /\ UNCHANGED <<world, starting, rec, accepting, halts, counted, Reports>>
  BY DEF BulkInv, RTypeOK, WorkFits, Make, On, Loader
<1>4. q.made \in Nat
  BY <1>1 DEF Producer
<1> DEFINE n == q.made + 1
<1>5. CASE ~p.aborted /\ Set(r, w, [p EXCEPT !.posts = @ \cup {<<n, 0>>}])
  <2> DEFINE s == [p EXCEPT !.posts = @ \cup {<<n, 0>>}]
  <2>1. s \in Producer /\ s.at = q.at /\ s.sent = q.sent /\ s.aborted = q.aborted
    <3> HIDE DEF p
    <3> QED
      BY <1>2, <1>4 DEF Producer
  <2>2. work' = [work EXCEPT ![r][w] = s]
    BY <1>5 DEF Set
  <2> HIDE DEF s, p, q
  <2>3. Silent(s)
    BY <1>2, <1>3, <1>5, <2>1 DEF Silent
  <2>4. Becomes(r, w, s)
    BY <1>3, <2>1, <2>2, <2>3 DEF Becomes, q
  <2> QED
    BY <2>4
<1>6. CASE p.aborted /\ Set(r, w, [p EXCEPT !.failed = TRUE])
  <2> DEFINE s == [p EXCEPT !.failed = TRUE]
  <2>1. s \in Producer /\ s.at = q.at /\ s.sent = q.sent /\ s.aborted = q.aborted /\ s.posts = q.posts
    <3> HIDE DEF p
    <3> QED
      BY <1>2 DEF Producer
  <2>2. work' = [work EXCEPT ![r][w] = s]
    BY <1>6 DEF Set
  <2> HIDE DEF s, p, q
  <2>3. Silent(s)
    BY <1>3, <2>1 DEF Silent
  <2>4. Becomes(r, w, s)
    BY <1>3, <2>1, <2>2, <2>3 DEF Becomes, q
  <2> QED
    BY <2>4
<1>7. CASE Set(r, w, p)
  <2>2. work' = [work EXCEPT ![r][w] = p]
    BY <1>7 DEF Set
  <2> HIDE DEF p, q
  <2>3. Silent(p)
    BY <1>2, <1>3 DEF Silent
  <2>4. Becomes(r, w, p)
    BY <1>2, <1>3, <2>2, <2>3 DEF Becomes, q
  <2> QED
    BY <2>4
<1> QED
  BY <1>5, <1>6, <1>7 DEF Make

LEMMA BatchLands ==
  ASSUME BulkInv, NEW r \in world.runs, NEW w \in world.workers,
         NEW post \in work[r][w].posts, NEW at \in accepting,
         landed' = landed \cup {Landing(r, w, post, at)}
  PROVE  /\ post \in Nat \X Nat
         /\ landed \subseteq landed' /\ landed' \subseteq Batch /\ IsFiniteSet(landed')
         /\ \E x \in landed' : <<x.run, x.by, x.row>> = <<r, w, post[1]>>
<1>1. post \in Nat \X Nat
  BY ProducerFields DEF BulkInv, RTypeOK
<1>2. Landing(r, w, post, at) \in Batch
  BY <1>1 DEF BulkInv, RTypeOK, Landing, Batch
<1>3. IsFiniteSet(landed')
  BY FS_AddElement DEF BulkInv, RTypeOK
<1>4. landed \subseteq landed' /\ landed' \subseteq Batch
  BY <1>2 DEF BulkInv, RTypeOK
<1>5. LET x == Landing(r, w, post, at)
      IN x \in landed' /\ <<x.run, x.by, x.row>> = <<r, w, post[1]>>
  BY DEF Landing
<1> QED
  BY <1>1, <1>3, <1>4, <1>5

LEMMA PostBecomes ==
  ASSUME BulkInv, world' = world, NEW r \in world.runs, NEW w \in world.workers, Posting(r, w)
  PROVE  \E p : Becomes(r, w, p)
<1> DEFINE q == work[r][w]
<1>1. /\ q \in Producer /\ Silent(q)
      /\ landed \subseteq Batch /\ IsFiniteSet(landed) /\ flag \subseteq world.runs
  BY DEF BulkInv, RTypeOK, WorkFits
<1>2. PICK post \in q.posts :
         \/ \E at \in world.replicas : Accept(r, w, post, at) \/ ReplyLost(r, w, post, at)
         \/ Rejected(r, w, post)
  BY DEF Posting
<1>3. post \in Nat \X Nat /\ post[1] \in Nat /\ post[2] \in Nat
  BY <1>1, ProducerFields
<1>4. CASE \E at \in world.replicas : Accept(r, w, post, at)
  <2> PICK at \in world.replicas : Accept(r, w, post, at)
    BY <1>4
  <2>1. landed \subseteq landed' /\ landed' \subseteq Batch /\ IsFiniteSet(landed')
        /\ \E x \in landed' : <<x.run, x.by, x.row>> = <<r, w, post[1]>>
    BY BatchLands DEF Accept
  <2> DEFINE s == [q EXCEPT !.posts = @ \ {post}, !.sent = @ \cup {post[1]}]
  <2>2. work' = [work EXCEPT ![r][w] = s] /\ flag' = flag
        /\ UNCHANGED <<world, starting, rec, accepting, halts, counted, Reports>>
    BY DEF Accept, Set
  <2> HIDE DEF q
  <2>3. s \in Producer /\ s.at = q.at /\ s.aborted = q.aborted /\ s.posts = q.posts \ {post}
        /\ s.sent = q.sent \cup {post[1]}
    BY <1>1, <1>3 DEF Producer
  <2> HIDE DEF s
  <2>4. Silent(s)
    BY <1>1, <2>3 DEF Silent
  <2>5. Becomes(r, w, s)
    BY <1>1, <2>1, <2>2, <2>3, <2>4 DEF Becomes, q
  <2> QED
    BY <2>5
<1>5. CASE \E at \in world.replicas : ReplyLost(r, w, post, at)
  <2> PICK at \in world.replicas : ReplyLost(r, w, post, at)
    BY <1>5
  <2>1. landed \subseteq landed' /\ landed' \subseteq Batch /\ IsFiniteSet(landed')
    BY BatchLands DEF ReplyLost
  <2> DEFINE s == [q EXCEPT !.posts = (@ \ {post}) \cup {<<post[1], post[2] + 1>>}]
  <2>2. work' = [work EXCEPT ![r][w] = s] /\ flag' = flag
        /\ UNCHANGED <<world, starting, rec, accepting, halts, counted, Reports>>
    BY DEF ReplyLost, Set
  <2> HIDE DEF q
  <2>3. s \in Producer /\ s.at = q.at /\ s.aborted = q.aborted /\ s.sent = q.sent
        /\ s.posts = (q.posts \ {post}) \cup {<<post[1], post[2] + 1>>}
    BY <1>1, <1>3 DEF Producer
  <2> HIDE DEF s
  <2>4. Silent(s) /\ q.posts # {}
    BY <1>1, <1>2, <2>3 DEF Silent
  <2>5. Becomes(r, w, s)
    BY <1>1, <2>1, <2>2, <2>3, <2>4 DEF Becomes, q
  <2> QED
    BY <2>5
<1>6. CASE Rejected(r, w, post)
  <2> DEFINE s == [q EXCEPT !.posts = @ \ {post}, !.failed = TRUE]
  <2>2. work' = [work EXCEPT ![r][w] = s] /\ flag' = flag /\ landed' = landed
        /\ UNCHANGED <<world, starting, rec, accepting, halts, counted, Reports>>
    BY <1>6 DEF Rejected, Set, Loader
  <2> HIDE DEF q
  <2>3. s \in Producer /\ s.at = q.at /\ s.aborted = q.aborted /\ s.sent = q.sent
        /\ s.posts = q.posts \ {post}
    BY <1>1, <1>3 DEF Producer
  <2> HIDE DEF s
  <2>4. Silent(s)
    BY <1>1, <2>3 DEF Silent
  <2>5. Becomes(r, w, s)
    BY <1>1, <2>2, <2>3, <2>4 DEF Becomes, q
  <2> QED
    BY <2>5
<1> QED
  BY <1>2, <1>4, <1>5, <1>6

LEMMA EndBecomes ==
  ASSUME BulkInv, world' = world, NEW r \in world.runs, NEW w \in world.workers,
         Throw(r, w) \/ AbortPoll(r, w) \/ Closed(r, w) \/ Die(r, w)
  PROVE  \E p : Becomes(r, w, p)
<1> DEFINE q == work[r][w]
<1>1. /\ q \in Producer /\ Silent(q)
      /\ landed \subseteq Batch /\ IsFiniteSet(landed) /\ flag \subseteq world.runs
      /\ rec \in [world.runs -> RunRecord] /\ flag \subseteq world.runs
  BY DEF BulkInv, RTypeOK, WorkFits
<1>2. landed' = landed /\ UNCHANGED <<world, starting, rec, accepting, halts, counted, Reports>>
  BY DEF Throw, AbortPoll, Closed, Die, Loader
<1>3. flag' \subseteq world.runs
  BY <1>1 DEF Throw, AbortPoll, Closed, Die, RunRecord
<1>4. CASE Throw(r, w)
  <2> DEFINE s == [q EXCEPT !.at = "error"]
  <2>1. work' = [work EXCEPT ![r][w] = s] /\ q.at = "on"
    BY <1>4 DEF Throw, Set, On
  <2> HIDE DEF q
  <2>2. s \in Producer /\ s.at = "error" /\ s.aborted = q.aborted /\ s.sent = q.sent /\ s.posts = q.posts
    BY <1>1 DEF Producer
  <2> HIDE DEF s
  <2>3. Silent(s)
    BY <1>1, <2>2 DEF Silent
  <2>4. Becomes(r, w, s)
    BY <1>1, <1>2, <1>3, <2>1, <2>2, <2>3 DEF Becomes, q
  <2> QED
    BY <2>4
<1>5. CASE AbortPoll(r, w)
  <2>1. work' = [work EXCEPT ![r][w] = Stopped(q)] /\ q.at = "on"
    BY <1>5 DEF AbortPoll, Set, On
  <2> HIDE DEF q
  <2>2. Silent(Stopped(q))
    BY <1>1, StoppedIs DEF Silent
  <2>3. Becomes(r, w, Stopped(q))
    BY <1>1, <1>2, <1>3, <2>1, <2>2, StoppedIs DEF Becomes, q
  <2> QED
    BY <2>3
<1>6. CASE Closed(r, w)
  <2> DEFINE s == [q EXCEPT !.at = "done"]
  <2>1. work' = [work EXCEPT ![r][w] = s] /\ q.at = "on" /\ q.posts = {}
    BY <1>6 DEF Closed, Set, On
  <2> HIDE DEF q
  <2>2. s \in Producer /\ s.at = "done" /\ s.aborted = q.aborted /\ s.sent = q.sent /\ s.posts = q.posts
    BY <1>1 DEF Producer
  <2> HIDE DEF s
  <2>3. Silent(s)
    BY <2>1, <2>2 DEF Silent
  <2>4. Becomes(r, w, s)
    BY <1>1, <1>2, <1>3, <2>1, <2>2, <2>3 DEF Becomes, q
  <2> QED
    BY <2>4
<1>7. CASE Die(r, w)
  <2> DEFINE s == [q EXCEPT !.at = "dead", !.posts = {}]
  <2>1. work' = [work EXCEPT ![r][w] = s] /\ q.at \in {"on", "error"}
    BY <1>7 DEF Die, Set
  <2> HIDE DEF q
  <2>2. s \in Producer /\ s.at = "dead" /\ s.aborted = q.aborted /\ s.sent = q.sent /\ s.posts = {}
    BY <1>1 DEF Producer
  <2> HIDE DEF s
  <2>3. Silent(s)
    BY <2>2 DEF Silent
  <2>4. Becomes(r, w, s)
    BY <1>1, <1>2, <1>3, <2>1, <2>2, <2>3 DEF Becomes, q
  <2> QED
    BY <2>4
<1> QED
  BY <1>4, <1>5, <1>6, <1>7

LEMMA WorkerBecomes ==
  ASSUME BulkInv, world' = world, NEW r \in world.runs, NEW w \in world.workers, WorkerStep(r, w)
  PROVE  \E p : Becomes(r, w, p)
  BY MadeBecomes, PostBecomes, EndBecomes DEF WorkerStep

LEMMA BatchStays ==
  ASSUME world' = world
  PROVE  Batch' = Batch /\ Entry' = Entry
  BY DEF Batch, Entry

LEMMA PostingKeeps ==
  ASSUME BulkInv, NEW r \in world.runs, NEW w \in world.workers, NEW p, Becomes(r, w, p)
  PROVE  BulkInv'
<1> USE DEF Becomes, Reports
<1>1. /\ work' \in [world.runs -> [world.workers -> Producer]]
      /\ \A c \in world.runs : \A v \in world.workers :
           work'[c][v] = IF c = r /\ v = w THEN p ELSE work[c][v]
  BY DEF BulkInv, RTypeOK
<1>2. RTypeOK'
  <2>1. accepting' \subseteq world'.replicas /\ landed' \subseteq Batch' /\ IsFiniteSet(landed')
    BY BatchStays DEF BulkInv, RTypeOK
  <2> QED
    BY <1>1, <2>1, BatchStays DEF BulkInv, RTypeOK
<1>3. ASSUME NEW c \in world.runs
      PROVE  RecordFits(c)'
  BY DEF BulkInv, RecordFits, Over, Archived, Listed, OnGoing
<1>4. ASSUME NEW c \in world.runs
      PROVE  WorkFits(c)'
  <2>1. \A v \in world.workers : Silent(work'[c][v])
    BY <1>1 DEF BulkInv, WorkFits
  <2>2. /\ Listed(c)' <=> Listed(c)
        /\ Over(c)' <=> Over(c)
        /\ rec'[c] = rec[c] /\ Lead' = Lead
    BY DEF Listed, Over, Archived, Lead
  <2>3. Lead \in world.workers
    BY LeadWorks DEF BulkInv
  <2>4. \A v \in world.workers :
          /\ work[c][v].at = "off" => work'[c][v].at = "off"
          /\ work[c][v].aborted => work'[c][v].aborted
          /\ work[c][v].at # "on" => /\ work'[c][v].at # "on"
                                     /\ work[c][v].posts = {} => work'[c][v].posts = {}
    BY <1>1
  <2>5. WorkFits(c)
    BY DEF BulkInv
  <2>6. /\ Listed(c)' /\ ~rec'[c].multi =>
             /\ \A v \in world.workers \ {Lead} : work'[c][v].at = "off"
             /\ rec'[c].cancelled => work'[c][Lead].aborted
        /\ Listed(c)' /\ Over(c)' =>
             \A v \in world.workers :
               /\ work'[c][v].at # "on"
               /\ rec'[c].multi \/ rec'[c].status # "error" => work'[c][v].posts = {}
    BY <2>2, <2>3, <2>4, <2>5 DEF WorkFits
  <2> QED
    BY <2>1, <2>2, <2>6 DEF WorkFits, Silent
<1>5. ArchivedOnce'
  BY DEF BulkInv, ArchivedOnce, Listed
<1>6. \A c : Lands(c) => Lands(c)'
  BY DEF Lands
<1>7. SentLands' /\ CountedLands'
  <2>1. ASSUME NEW c \in world.runs, NEW v \in world.workers, NEW n \in work'[c][v].sent
        PROVE  Lands(<<c, v, n>>)'
    <3>1. CASE n \in work[c][v].sent
      BY <1>6, <3>1 DEF BulkInv, SentLands
    <3>2. CASE n \notin work[c][v].sent
      <4>1. c = r /\ v = w /\ n \in p.sent
        BY <1>1, <3>2
      <4> QED
        BY <3>2, <4>1 DEF Lands
    <3> QED
      BY <3>1, <3>2
  <2> QED
    BY <1>6, <2>1 DEF BulkInv, SentLands, CountedLands
<1>8. RemovedIsDrained'
  BY DEF BulkInv, RemovedIsDrained
<1> QED
  BY <1>2, <1>3, <1>4, <1>5, <1>7, <1>8 DEF BulkInv

-------------------------------------------------------------------------------
(* Numbers *)

LEMMA BoundsAre ==
  ASSUME NEW a \in Nat, NEW b \in Int
  PROVE  /\ Max({a, b}) \in Nat /\ Max({a, b}) >= a
         /\ Min({a, b}) \in {a, b} /\ (b \in Nat => Min({a, b}) \in Nat)
<1>1. \E x \in {a, b} : \A y \in {a, b} : x >= y
  OBVIOUS
<1>2. \E x \in {a, b} : \A y \in {a, b} : x =< y
  OBVIOUS
<1>3. Max({a, b}) \in {a, b} /\ \A y \in {a, b} : Max({a, b}) >= y
  BY <1>1 DEF Max
<1>4. Min({a, b}) \in {a, b}
  BY <1>2 DEF Min
<1> QED
  BY <1>3, <1>4

LEMMA LeastIs ==
  ASSUME NEW a \in Nat, NEW b \in Nat
  PROVE  Min({a, b}) \in Nat
<1>1. b \in Int
  OBVIOUS
<1> QED
  BY <1>1, BoundsAre

\* What was written since a base is never negative.
LEMMA GapIs ==
  ASSUME NEW a \in Nat, NEW b \in Nat
  PROVE  Max({0, a - b}) \in Nat
<1>1. 0 \in Nat /\ a - b \in Int
  OBVIOUS
<1> DEFINE d == a - b
<1>2. d \in Int
  BY <1>1
<1> HIDE DEF d
<1>3. Max({0, d}) \in Nat
  BY <1>1, <1>2, BoundsAre
<1> QED
  BY <1>3 DEF d

LEMMA SumIs ==
  ASSUME RTypeOK, NEW r \in world.runs, NEW S \in SUBSET world.workers
  PROVE  Sum(r, S) \in Nat
<1>1. IsFiniteSet(S \X (1..world.rows))
  <2>1. world.rows \in Int /\ 1 \in Int /\ IsFiniteSet(S)
    BY LeadWorks, FS_Subset
  <2>2. IsFiniteSet(1..world.rows)
    BY <2>1, FS_Interval
  <2> QED
    BY <2>1, <2>2, FS_Product
<1> QED
  BY <1>1, FS_Subset, FS_CardinalityType DEF Sum, SentBy

LEMMA HistoryIs ==
  ASSUME RTypeOK
  PROVE  \A h \in DOMAIN history : history[h] \in Entry /\ history[h].run \in world.runs
<1>1. history \in Seq(Entry)
  BY DEF RTypeOK
<1>2. \A h \in DOMAIN history : history[h] \in Entry
  BY <1>1
<1> QED
  BY <1>2 DEF Entry

LEMMA FlushedIs ==
  ASSUME RTypeOK, NEW seen
  PROVE  Flushed(seen) \in Nat
  BY FS_Subset, FS_CardinalityType DEF RTypeOK, Flushed

LEMMA RecordFields ==
  ASSUME NEW x \in RunRecord
  PROVE  /\ x.status \in Statuses /\ x.sent \in Nat /\ x.base \in Nat
         /\ x.multi \in BOOLEAN /\ x.cancelled \in BOOLEAN
  BY DEF RunRecord

-------------------------------------------------------------------------------
(* The steps of a record *)

\* A step of one run leaves the others as they are.
LEMMA RecordKeeps ==
  ASSUME BulkInv, RTypeOK', world' = world, landed' = landed, NEW r \in world.runs,
         \A w \in world.workers : work'[r][w].sent \subseteq work[r][w].sent,
         \A c \in world.runs \ {r} :
           /\ rec'[c] = rec[c] /\ archiving'[c] = archiving[c] /\ (Archived(c)' <=> Archived(c))
           /\ starting'[c] = starting[c] /\ gone'[c] = gone[c] /\ work'[c] = work[c]
           /\ shown'[c] = shown[c] /\ water'[c] = water[c],
         RecordFits(r)', WorkFits(r)', ArchivedOnce', CountedLands', RemovedIsDrained'
  PROVE  BulkInv'
<1>1. ASSUME NEW c \in world.runs \ {r}
      PROVE  RecordFits(c)' /\ WorkFits(c)'
  <2>1. RecordFits(c)'
    BY DEF BulkInv, RecordFits, Over, Listed, OnGoing
  <2>2. WorkFits(c)'
    BY DEF BulkInv, WorkFits, Over, Listed, Lead, Silent
  <2> QED
    BY <2>1, <2>2
<1>2. SentLands'
  BY DEF BulkInv, SentLands, Lands
<1> QED
  BY <1>1, <1>2 DEF BulkInv

LEMMA ResumeKeeps ==
  ASSUME BulkInv, world' = world, NEW r \in world.runs, Resume(r)
  PROVE  BulkInv'
<1> USE DEF Resume, Reports
<1>1. RTypeOK'
  BY BatchStays DEF BulkInv, RTypeOK
<1>2. RecordFits(r)'
  BY DEF BulkInv, RTypeOK, RecordFits, Over, Archived, Listed, OnGoing
<1>3. WorkFits(r)'
  BY DEF BulkInv, WorkFits, Over, Archived, Listed, Lead, Silent
<1>4. ArchivedOnce' /\ CountedLands' /\ RemovedIsDrained'
  BY DEF BulkInv, ArchivedOnce, Listed, CountedLands, Lands, RemovedIsDrained
<1> QED
  BY <1>1, <1>2, <1>3, <1>4, RecordKeeps DEF BulkInv, RTypeOK, Archived

LEMMA ProgressKeeps ==
  ASSUME BulkInv, world' = world, NEW r \in world.runs, Progress(r)
  PROVE  BulkInv'
<1> DEFINE n == Max({rec[r].sent, Sum(r, Team(r))})
           x == [rec[r] EXCEPT !.sent = n]
<1>1. rec[r] \in RunRecord /\ rec \in [world.runs -> RunRecord] /\ RTypeOK
  BY DEF BulkInv, RTypeOK
<1>2. n \in Nat
  <2>1. Team(r) \subseteq world.workers
    BY <1>1, LeadWorks DEF Team
  <2> QED
    BY <1>1, <2>1, SumIs, BoundsAre, RecordFields
<1>3. rec' = [rec EXCEPT ![r] = x]
  BY DEF Progress
<1>4. /\ x \in RunRecord /\ x.status = rec[r].status /\ x.multi = rec[r].multi
      /\ x.cancelled = rec[r].cancelled /\ x.status = "running"
  <2> HIDE DEF n
  <2> QED
    BY <1>1, <1>2 DEF RunRecord, Progress, OnGoing
<1> HIDE DEF x
<1>5. UNCHANGED <<starting, work, flag, counted, accepting, landed, halts, Reports>>
  BY DEF Progress, Loader
<1> USE DEF Reports
<1>6. rec' \in [world.runs -> RunRecord] /\ rec'[r] = x /\ \A c \in world.runs \ {r} : rec'[c] = rec[c]
  BY <1>1, <1>3, <1>4
<1>7. RTypeOK'
  BY <1>5, <1>6, BatchStays DEF BulkInv, RTypeOK
<1>8. Listed(r) /\ Listed(r)' /\ ~Over(r) /\ ~Over(r)'
  <2>1. Listed(r) /\ Listed(r)'
    BY <1>4, <1>6, NoneAre DEF Listed
  <2>2. ~Over(r)
    BY <1>4, <2>1 DEF BulkInv, RecordFits
  <2> QED
    BY <1>5, <2>1, <2>2 DEF Over, Archived
<1>9. RecordFits(r)'
  <2>1. RecordFits(r)
    BY DEF BulkInv
  <2>2. starting[r] = "started" /\ archiving[r] = NoRun /\ gone[r] # "drained" /\ shown[r] = water[r]
    BY <1>4, <1>8, <2>1 DEF RecordFits, OnGoing, Over, Listed
  <2>3. UNCHANGED <<starting[r], archiving[r], gone[r], shown[r], water[r]>>
    BY <1>5
  <2> QED
    BY <1>4, <1>6, <1>8, <2>1, <2>2, <2>3 DEF RecordFits
<1>10. WorkFits(r)'
  BY <1>4, <1>5, <1>6, <1>8 DEF BulkInv, WorkFits, Lead, Silent
<1>11. ArchivedOnce'
  <2>1. \A h \in DOMAIN history : history[h].run \in world.runs \ {r}
    BY <1>8, HistoryIs DEF BulkInv, Over, Archived
  <2> QED
    BY <1>5, <1>6, <2>1 DEF BulkInv, ArchivedOnce, Listed
<1>12. CountedLands' /\ RemovedIsDrained'
  BY <1>5 DEF BulkInv, CountedLands, Lands, RemovedIsDrained
<1> QED
  BY <1>5, <1>6, <1>7, <1>9, <1>10, <1>11, <1>12, RecordKeeps DEF Archived

LEMMA RemoveKeeps ==
  ASSUME BulkInv, world' = world, NEW r \in world.runs, Remove(r) \/ Expire(r)
  PROVE  BulkInv'
<1>1. /\ Listed(r) /\ Over(r) /\ rec' = [rec EXCEPT ![r] = NoRun]
      /\ gone' \in {[gone EXCEPT ![r] = "drained"], [gone EXCEPT ![r] = "expired"]}
      /\ blind' \in BOOLEAN /\ (blind => blind')
      /\ UNCHANGED <<starting, work, flag, archiving, history, water, shown, counted>>
      /\ UNCHANGED <<accepting, landed, halts>>
  BY DEF BulkInv, RTypeOK, Remove, Expire, Loader
<1>2. rec' \in [world.runs -> RunRecord] /\ rec'[r] = NoRun /\ \A c \in world.runs \ {r} : rec'[c] = rec[c]
  BY <1>1, NoneAre DEF BulkInv, RTypeOK
<1>3. /\ gone' \in [world.runs -> {"no", "drained", "expired"}]
      /\ \A c \in world.runs \ {r} : gone'[c] = gone[c]
  BY <1>1 DEF BulkInv, RTypeOK
<1>4. RTypeOK'
  BY <1>1, <1>2, <1>3, BatchStays DEF BulkInv, RTypeOK
<1>5. RecordFits(r)'
  BY <1>1, <1>2 DEF BulkInv, RecordFits, Over, Archived, Listed, OnGoing, NoRun
<1>6. WorkFits(r)'
  BY <1>1, <1>2 DEF BulkInv, WorkFits, Listed, Lead, Silent
<1>7. ArchivedOnce'
  <2>1. \A h \in DOMAIN history : history[h].run \in world.runs
    BY HistoryIs DEF BulkInv
  <2> QED
    BY <1>1, <1>2, <2>1 DEF BulkInv, ArchivedOnce, Listed
<1>8. CountedLands'
  BY <1>1 DEF BulkInv, CountedLands, Lands
<1>9. RemovedIsDrained'
  <2>1. CASE gone'[r] = "drained" /\ ~blind'
    <3>1. Unflushed(world.replicas) = 0
      BY <1>1, <2>1 DEF Remove, Expire, BulkInv, RTypeOK
    <3>2. \A x \in landed : x.flushed
      <4>1. IsFiniteSet({x \in landed : ~x.flushed /\ x.at \in world.replicas})
        BY FS_Subset DEF BulkInv, RTypeOK
      <4>2. {x \in landed : ~x.flushed /\ x.at \in world.replicas} = {}
        BY <3>1, <4>1, FS_EmptySet DEF Unflushed
      <4>3. \A x \in landed : x.at \in world.replicas
        BY DEF BulkInv, RTypeOK, Batch
      <4> QED
        BY <4>2, <4>3
    <3>3. \A c \in counted : \E x \in landed : x.flushed /\ <<x.run, x.by, x.row>> = c
      BY <3>2 DEF BulkInv, CountedLands, Lands
    <3> QED
      BY <1>1, <3>3 DEF RemovedIsDrained
  <2>2. CASE ~(gone'[r] = "drained" /\ ~blind')
    BY <1>1, <1>3, <2>2 DEF BulkInv, RemovedIsDrained
  <2> QED
    BY <2>1, <2>2
<1> QED
  BY <1>1, <1>2, <1>3, <1>4, <1>5, <1>6, <1>7, <1>8, <1>9, RecordKeeps DEF Archived

LEMMA FirstRecord ==
  ASSUME NEW f \in Nat, NEW m \in BOOLEAN
  PROVE  LET y == [status |-> "running", sent |-> 0, base |-> f, multi |-> m, cancelled |-> FALSE]
         IN y \in RunRecord /\ y.status = "running" /\ ~y.cancelled
<1> DEFINE y == [status |-> "running", sent |-> 0, base |-> f, multi |-> m, cancelled |-> FALSE]
<1>1. y \in RunRecord
  BY DEF RunRecord, Statuses
<1>2. y.status = "running"
  OBVIOUS
<1>3. ~y.cancelled
  OBVIOUS
<1> QED
  BY <1>1, <1>2, <1>3

LEMMA StartKeeps ==
  ASSUME BulkInv, world' = world, NEW r \in world.runs, Start(r)
  PROVE  BulkInv'
<1>1. PICK seen \in SUBSET world.replicas, multi \in BOOLEAN :
        /\ rec' = [rec EXCEPT ![r] = [status |-> "running", sent |-> 0, base |-> Flushed(seen),
                                     multi |-> multi, cancelled |-> FALSE]]
        /\ work' = [work EXCEPT ![r] = [w \in world.workers |->
                      IF w \in (IF multi THEN world.workers ELSE {Lead})
                      THEN [NoWorker EXCEPT !.at = "on"] ELSE NoWorker]]
  BY DEF Start
<1> DEFINE x == [status |-> "running", sent |-> 0, base |-> Flushed(seen),
                 multi |-> multi, cancelled |-> FALSE]
           on == [NoWorker EXCEPT !.at = "on"]
<1>2. /\ starting[r] = "resumed" /\ starting' = [starting EXCEPT ![r] = "started"]
      /\ UNCHANGED <<flag, counted, accepting, landed, halts, Reports>>
  BY DEF Start, Loader
<1> USE DEF Reports
<1>3. x \in RunRecord /\ x.status = "running" /\ ~x.cancelled
  <2>1. Flushed(seen) \in Nat
    BY FlushedIs DEF BulkInv
  <2> QED
    BY <2>1, FirstRecord
<1>4. /\ on \in Producer /\ on.posts = {} /\ on.sent = {}
      /\ NoWorker.at = "off" /\ NoWorker.posts = {} /\ NoWorker.sent = {}
  BY DEF NoWorker, Producer
<1> HIDE DEF x, on
<1>5. /\ rec' \in [world.runs -> RunRecord] /\ rec'[r] = x
      /\ \A c \in world.runs \ {r} : rec'[c] = rec[c]
  BY <1>1, <1>3 DEF BulkInv, RTypeOK, x
<1>6. /\ work' \in [world.runs -> [world.workers -> Producer]]
      /\ \A c \in world.runs \ {r} : work'[c] = work[c]
      /\ \A w \in world.workers :
           work'[r][w] = IF w \in (IF multi THEN world.workers ELSE {Lead}) THEN on ELSE NoWorker
  BY <1>1, <1>4, NoneAre DEF BulkInv, RTypeOK, on
<1>7. RTypeOK'
  BY <1>2, <1>5, <1>6, BatchStays DEF BulkInv, RTypeOK
<1>8. ~Over(r) /\ ~Over(r)' /\ ~Archived(r)' /\ rec[r] = NoRun /\ Listed(r)'
  BY <1>2, <1>3, <1>5, NoneAre DEF BulkInv, RecordFits, Over, Archived, Listed
<1>9. RecordFits(r)'
  <2>1. RecordFits(r)
    BY DEF BulkInv
  <2>2. /\ starting'[r] = "started" /\ shown[r] = 0 /\ water[r] = 0 /\ archiving[r] = NoRun
        /\ gone[r] # "drained"
    BY <1>2, <1>8, <2>1 DEF RecordFits, Over, BulkInv, RTypeOK
  <2> QED
    BY <1>2, <1>3, <1>5, <1>8, <2>2 DEF RecordFits
<1>10. WorkFits(r)'
  <2>1. \A w \in world.workers : work'[r][w].posts = {}
    BY <1>4, <1>6
  <2>2. ~multi => \A w \in world.workers \ {Lead} : work'[r][w].at = "off"
    BY <1>4, <1>6
  <2>3. rec'[r].multi = multi /\ ~rec'[r].cancelled
    BY <1>3, <1>5 DEF x
  <2> QED
    BY <1>8, <2>1, <2>2, <2>3 DEF WorkFits, Silent, Lead
<1>11. ArchivedOnce'
  <2>1. \A h \in DOMAIN history : history[h].run \in world.runs \ {r}
    BY <1>8, HistoryIs DEF BulkInv, Over, Archived
  <2> QED
    BY <1>2, <1>5, <2>1 DEF BulkInv, ArchivedOnce, Listed
<1>12. CountedLands' /\ RemovedIsDrained'
  BY <1>2 DEF BulkInv, CountedLands, Lands, RemovedIsDrained
<1>13. /\ \A w \in world.workers : work'[r][w].sent \subseteq work[r][w].sent
       /\ \A c \in world.runs \ {r} : starting'[c] = starting[c]
  BY <1>2, <1>4, <1>6 DEF BulkInv, RTypeOK
<1> QED
  BY <1>2, <1>5, <1>6, <1>7, <1>9, <1>10, <1>11, <1>12, <1>13, RecordKeeps DEF Archived

LEMMA FinishKeeps ==
  ASSUME BulkInv, world' = world, NEW r \in world.runs, FinishRun(r)
  PROVE  BulkInv'
<1> DEFINE n == Sum(r, IF rec[r].multi THEN {w \in world.workers : work[r][w].at = "done"} ELSE {Lead})
           x == [rec[r] EXCEPT !.status = Verdict(r), !.sent = n]
<1>1. /\ starting[r] = "started" /\ Listed(r) /\ ~Over(r) /\ \A w \in Team(r) : Ended(r, w)
      /\ rec' = [rec EXCEPT ![r] = x] /\ archiving' = [archiving EXCEPT ![r] = x]
      /\ counted' = counted \cup {<<r, c[1], c[2]>> : c \in SentBy(r, world.workers)}
      /\ UNCHANGED <<starting, work, flag, history, water, shown, gone, blind, accepting, landed, halts>>
  BY DEF FinishRun, Loader
<1>2. RTypeOK /\ rec[r] \in RunRecord /\ Lead \in world.workers
  BY LeadWorks DEF BulkInv, RTypeOK
<1>3. n \in Nat
  BY <1>2, SumIs
<1>4. Verdict(r) \in {"done", "cancelled", "error"}
  BY DEF Verdict
<1>5. /\ x \in RunRecord /\ x.status = Verdict(r) /\ x.multi = rec[r].multi
      /\ x.cancelled = rec[r].cancelled
  <2> HIDE DEF n
  <2> QED
    BY <1>2, <1>3, <1>4 DEF RunRecord, Statuses
<1> HIDE DEF x, n
<1>6. x # NoRun
  BY <1>4, <1>5, NoneAre
<1>7. /\ rec' \in [world.runs -> RunRecord] /\ rec'[r] = x
      /\ \A c \in world.runs \ {r} : rec'[c] = rec[c]
      /\ archiving' \in [world.runs -> RunRecord] /\ archiving'[r] = x
      /\ \A c \in world.runs \ {r} : archiving'[c] = archiving[c]
  BY <1>1, <1>5 DEF BulkInv, RTypeOK
<1>8. \A c \in counted' : c \in counted \/ \E w \in world.workers : \E i \in work[r][w].sent : c = <<r, w, i>>
  BY <1>1 DEF SentBy
<1>9. counted' \subseteq world.runs \X world.workers \X Nat
  <2>1. \A w \in world.workers : work[r][w].sent \subseteq Nat
    BY ProducerFields DEF BulkInv, RTypeOK
  <2> QED
    BY <1>8, <2>1 DEF BulkInv, RTypeOK
<1>10. RTypeOK'
  BY <1>1, <1>7, <1>9, BatchStays DEF BulkInv, RTypeOK
<1>11. ~Archived(r)' /\ Listed(r)' /\ Over(r)' /\ ~OnGoing(r)'
  BY <1>1, <1>4, <1>5, <1>6, <1>7 DEF Over, Archived, Listed, OnGoing
<1>12. RecordFits(r)'
  BY <1>1, <1>4, <1>5, <1>7, <1>11 DEF RecordFits
<1>13. WorkFits(r)'
  <2>1. WorkFits(r)
    BY DEF BulkInv
  <2>2. ASSUME NEW w \in world.workers
        PROVE  /\ work[r][w].at # "on"
               /\ x.multi \/ x.status # "error" => work[r][w].posts = {}
    <3>1. CASE w \in Team(r)
      <4>1. Ended(r, w)
        BY <1>1, <3>1
      <4>2. work[r][w].at \in {"done", "dead"} => work[r][w].posts = {}
        BY <2>1 DEF WorkFits, Silent
      <4>3. CASE rec[r].multi
        BY <4>1, <4>2, <4>3 DEF Ended
      <4>4. CASE ~rec[r].multi
        <5>1. w = Lead
          BY <3>1, <4>4 DEF Team
        <5>2. CASE rec[r].cancelled
          <6>1. work[r][w].posts = {}
            BY <1>1, <2>1, <4>4, <5>1, <5>2 DEF WorkFits, Silent
          <6> QED
            BY <4>1, <6>1 DEF Ended
        <5>3. CASE ~rec[r].cancelled
          <6>1. work[r][w].at = "error" => Verdict(r) = "error"
            BY <3>1, <4>4, <5>3 DEF Verdict, Failed
          <6> QED
            BY <1>5, <4>1, <4>2, <4>4, <6>1 DEF Ended
        <5> QED
          BY <5>2, <5>3
      <4> QED
        BY <4>3, <4>4
    <3>2. CASE w \notin Team(r)
      <4>1. ~rec[r].multi /\ w # Lead
        BY <3>2 DEF Team
      <4> QED
        BY <1>1, <2>1, <4>1 DEF WorkFits, Silent
    <3> QED
      BY <3>1, <3>2
  <2>3. /\ \A w \in world.workers : Silent(work[r][w])
        /\ ~rec[r].multi =>
             /\ \A w \in world.workers \ {Lead} : work[r][w].at = "off"
             /\ rec[r].cancelled => work[r][Lead].aborted
    BY <1>1, <2>1 DEF WorkFits
  <2> QED
    BY <1>1, <1>5, <1>7, <2>2, <2>3 DEF WorkFits, Silent, Lead
<1>14. ArchivedOnce'
  <2>1. \A h \in DOMAIN history : history[h].run \in world.runs \ {r}
    BY <1>1, HistoryIs DEF BulkInv, Over, Archived
  <2> QED
    BY <1>1, <1>7, <2>1 DEF BulkInv, ArchivedOnce, Listed
<1>15. CountedLands'
  BY <1>1, <1>8 DEF BulkInv, CountedLands, SentLands, Lands
<1>16. RemovedIsDrained'
  <2>1. gone[r] # "drained"
    BY <1>1 DEF BulkInv, RecordFits
  <2>2. \A c \in counted' : c[1] # r => c \in counted
    BY <1>8
  <2> QED
    BY <1>1, <2>1, <2>2 DEF BulkInv, RemovedIsDrained
<1> QED
  BY <1>1, <1>7, <1>10, <1>12, <1>13, <1>14, <1>15, <1>16, RecordKeeps DEF Archived

LEMMA ArchiveKeeps ==
  ASSUME BulkInv, world' = world, NEW r \in world.runs, Archive(r)
  PROVE  BulkInv'
<1>1. PICK seen \in SUBSET world.replicas :
        LET written == Max({0, Flushed(seen) - archiving[r].base})
        IN history' = <<[run |-> r, status |-> archiving[r].status, sent |-> archiving[r].sent,
                         written |-> Min({world.rows, Max({written, archiving[r].sent})})]>> \o history
  BY DEF Archive
<1> DEFINE written == Max({0, Flushed(seen) - archiving[r].base})
           capped == Min({world.rows, Max({written, archiving[r].sent})})
           e == [run |-> r, status |-> archiving[r].status, sent |-> archiving[r].sent, written |-> capped]
<1>2. /\ archiving[r] # NoRun /\ archiving' = [archiving EXCEPT ![r] = NoRun]
      /\ UNCHANGED <<starting, rec, work, flag, water, shown, gone, blind, counted>>
      /\ UNCHANGED <<accepting, landed, halts>>
  BY DEF Archive, Loader
<1>3. RTypeOK /\ archiving[r] \in RunRecord /\ world.rows \in Nat
  BY LeadWorks DEF BulkInv, RTypeOK
<1>4. capped \in Nat
  <2>1. archiving[r].base \in Nat /\ archiving[r].sent \in Nat /\ Flushed(seen) \in Nat
    BY <1>3, RecordFields, FlushedIs
  <2>2. written \in Nat
    BY <2>1, GapIs
  <2> HIDE DEF written
  <2> DEFINE m == Max({written, archiving[r].sent})
  <2>3. m \in Nat
    BY <2>1, <2>2, BoundsAre
  <2> HIDE DEF m
  <2>4. Min({world.rows, m}) \in Nat
    BY <1>3, <2>3, LeastIs
  <2> QED
    BY <2>4 DEF m
<1>5. e \in Entry /\ e.run = r /\ e.status = archiving[r].status /\ e.sent = archiving[r].sent
  <2> HIDE DEF capped
  <2> QED
    BY <1>3, <1>4, RecordFields DEF Entry
<1>6. history' = <<e>> \o history
  BY <1>1
<1> HIDE DEF e, capped, written
<1>7. history \in Seq(Entry)
  BY <1>3 DEF RTypeOK
<1>8. /\ history' \in Seq(Entry) /\ history'[1] = e
      /\ DOMAIN history' = 1..(Len(history) + 1) /\ DOMAIN history = 1..Len(history) /\ Len(history) \in Nat
      /\ \A h \in DOMAIN history' \ {1} : h - 1 \in DOMAIN history /\ history'[h] = history[h - 1]
      /\ \A h \in DOMAIN history : h + 1 \in DOMAIN history' /\ history'[h + 1] = history[h]
  BY <1>5, <1>6, <1>7
<1>9. /\ archiving' \in [world.runs -> RunRecord] /\ archiving'[r] = NoRun
      /\ \A c \in world.runs \ {r} : archiving'[c] = archiving[c]
  BY <1>2, NoneAre DEF BulkInv, RTypeOK
<1>10. RTypeOK'
  BY <1>2, <1>8, <1>9, BatchStays DEF BulkInv, RTypeOK
<1>11. Archived(r)' /\ Over(r)' /\ Over(r) /\ ~Archived(r)
  <2>1. ~Archived(r) /\ Over(r)
    BY <1>2 DEF BulkInv, RecordFits, Over
  <2>2. 1 \in DOMAIN history' /\ history'[1].run = r
    BY <1>5, <1>8
  <2> QED
    BY <2>1, <2>2 DEF Archived, Over
<1>12. \A c \in world.runs \ {r} : Archived(c)' <=> Archived(c)
  <2>1. ASSUME NEW c \in world.runs \ {r}, Archived(c)'
        PROVE  Archived(c)
    <3>1. PICK h \in DOMAIN history' : history'[h].run = c
      BY <2>1 DEF Archived
    <3>2. h # 1
      BY <1>5, <1>8, <3>1
    <3> QED
      BY <1>8, <3>1, <3>2 DEF Archived
  <2>2. ASSUME NEW c \in world.runs \ {r}, Archived(c)
        PROVE  Archived(c)'
    BY <1>8, <2>2 DEF Archived
  <2> QED
    BY <2>1, <2>2
<1>13. RecordFits(r)'
  <2>1. RecordFits(r)
    BY DEF BulkInv
  <2> QED
    BY <1>2, <1>9, <1>11, <2>1 DEF RecordFits, Listed, OnGoing
<1>14. WorkFits(r)'
  BY <1>2, <1>11 DEF BulkInv, WorkFits, Listed, Lead, Silent
<1>15. ArchivedOnce'
  <2>1. ASSUME NEW h \in DOMAIN history', NEW g \in DOMAIN history', history'[g].run = history'[h].run
        PROVE  g = h
    <3>1. h # 1 /\ g # 1 => g - 1 = h - 1
      <4>1. \A i \in DOMAIN history : \A j \in DOMAIN history : history[j].run = history[i].run => j = i
        BY DEF BulkInv, ArchivedOnce
      <4> QED
        BY <1>8, <2>1, <4>1
    <3>2. \A i \in DOMAIN history : history[i].run # r
      BY <1>11 DEF Archived
    <3>3. h = 1 <=> g = 1
      BY <1>5, <1>8, <2>1, <3>2
    <3> QED
      BY <1>8, <3>1, <3>3
  <2>2. ASSUME NEW h \in DOMAIN history', Listed(history[h].run)'
        PROVE  /\ rec'[history'[h].run].status = history'[h].status
               /\ rec'[history'[h].run].sent = history'[h].sent
    <3>1. CASE h = 1
      <4>1. Listed(r)
        BY <1>2, <1>5, <1>8, <2>2, <3>1 DEF Listed
      <4>2. rec[r].status = archiving[r].status /\ rec[r].sent = archiving[r].sent
        BY <1>2, <4>1 DEF BulkInv, RecordFits
      <4> QED
        BY <1>2, <1>5, <1>8, <3>1, <4>2
    <3>2. CASE h # 1
      BY <1>2, <1>8, <2>2, <3>2 DEF BulkInv, ArchivedOnce, Listed
    <3> QED
      BY <3>1, <3>2
  <2> QED
    BY <2>1, <2>2 DEF ArchivedOnce
<1>16. CountedLands' /\ RemovedIsDrained'
  BY <1>2 DEF BulkInv, CountedLands, Lands, RemovedIsDrained
<1> QED
  BY <1>2, <1>9, <1>10, <1>12, <1>13, <1>14, <1>15, <1>16, RecordKeeps

-------------------------------------------------------------------------------
(* The steps of all runs *)

LEMMA CancelSetKeeps ==
  ASSUME BulkInv, world' = world, NEW S \in SUBSET world.runs, \A r \in S : OnGoing(r), CancelSet(S)
  PROVE  BulkInv'
<1>1. /\ rec' = [r \in world.runs |->
                IF r \in S THEN [rec[r] EXCEPT !.status = "cancelled", !.cancelled = TRUE] ELSE rec[r]]
      /\ flag' = flag \cup {r \in S : rec[r].multi}
      /\ work' = [r \in world.runs |-> IF r \in S THEN Aborted(r) ELSE work[r]]
      /\ halts' = halts + 1
      /\ UNCHANGED <<starting, accepting, landed, counted, Reports>>
  BY DEF CancelSet
<1>0. UNCHANGED <<starting, accepting, landed, counted, archiving, history, water, shown, gone, blind>>
  BY <1>1 DEF Reports
<1>2. RTypeOK /\ Lead \in world.workers /\ rec \in [world.runs -> RunRecord]
      /\ work \in [world.runs -> [world.workers -> Producer]]
  BY LeadWorks DEF BulkInv, RTypeOK
<1>3. ASSUME NEW r \in world.runs
      PROVE  /\ r \notin S => rec'[r] = rec[r] /\ work'[r] = work[r]
             /\ r \in S => /\ rec'[r] \in RunRecord /\ rec'[r].status = "cancelled" /\ rec'[r].cancelled
                           /\ rec'[r].multi = rec[r].multi /\ rec'[r].sent = rec[r].sent
                           /\ work'[r] = Aborted(r)
  <2> DEFINE q == rec[r]
             x == [q EXCEPT !.status = "cancelled", !.cancelled = TRUE]
  <2>1. q \in RunRecord
    BY <1>2
  <2>2. r \in S => rec'[r] = x
    BY <1>1
  <2> HIDE DEF q
  <2>3. x \in RunRecord /\ x.status = "cancelled" /\ x.cancelled /\ x.multi = q.multi /\ x.sent = q.sent
    BY <2>1 DEF RunRecord, Statuses
  <2> HIDE DEF x
  <2> QED
    BY <1>1, <2>2, <2>3 DEF q
<1>4. ASSUME NEW r \in world.runs, NEW w \in world.workers
      PROVE  /\ Aborted(r) \in [world.workers -> Producer]
             /\ Aborted(r)[w] = IF ~rec[r].multi /\ w = Lead THEN Stopped(work[r][w]) ELSE work[r][w]
             /\ Stopped(work[r][w]) \in Producer
  BY <1>2, StoppedIs DEF Aborted
<1>5. RTypeOK'
  <2>1. rec' \in [world.runs -> RunRecord]
    BY <1>1, <1>2, <1>3
  <2>2. work' \in [world.runs -> [world.workers -> Producer]]
    <3>1. \A r \in world.runs : Aborted(r) \in [world.workers -> Producer]
      BY <1>2, <1>4
    <3> QED
      BY <1>1, <1>2, <3>1
  <2>3. flag' \subseteq world.runs /\ halts' \in Nat
    <3>1. flag \subseteq world.runs /\ halts \in Nat
      BY <1>2 DEF RTypeOK
    <3>2. flag' \subseteq flag \cup S /\ halts' = halts + 1
      BY DEF CancelSet
    <3> QED
      BY <3>1, <3>2
  <2> QED
    BY <1>0, <1>2, <2>1, <2>2, <2>3, BatchStays DEF RTypeOK
<1>6. ASSUME NEW r \in S
      PROVE  /\ Listed(r) /\ Listed(r)' /\ ~Over(r) /\ ~Over(r)' /\ ~Archived(r)
             /\ RecordFits(r) /\ WorkFits(r)
  <2>1. RecordFits(r) /\ WorkFits(r)
    BY DEF BulkInv
  <2>2. Listed(r) /\ Listed(r)'
    BY <1>3, NoneAre DEF OnGoing, Listed
  <2>3. ~Over(r)
    BY <2>1, <2>2 DEF RecordFits, OnGoing
  <2> QED
    BY <1>0, <2>1, <2>2, <2>3 DEF Over, Archived
<1>7. ASSUME NEW r \in world.runs
      PROVE  RecordFits(r)'
  <2>1. CASE r \in S
    <3>1. /\ starting'[r] = "started" /\ archiving'[r] = NoRun /\ gone'[r] # "drained"
      BY <1>0, <1>6, <2>1 DEF RecordFits, Over, Listed
    <3> QED
      BY <1>0, <1>3, <1>6, <2>1, <3>1 DEF RecordFits, OnGoing
  <2>2. CASE r \notin S
    BY <1>0, <1>3, <2>2 DEF BulkInv, RecordFits, Over, Archived, Listed, OnGoing
  <2> QED
    BY <2>1, <2>2
<1>8. ASSUME NEW r \in world.runs
      PROVE  WorkFits(r)'
  <2>1. CASE r \in S
    <3>1. \A w \in world.workers : Silent(work'[r][w])
      BY <1>2, <1>3, <1>4, <1>6, <2>1, StoppedIs DEF WorkFits, Silent
    <3>2. ~rec'[r].multi => /\ \A w \in world.workers \ {Lead} : work'[r][w].at = "off"
                            /\ work'[r][Lead].aborted
      BY <1>2, <1>3, <1>4, <1>6, <2>1, StoppedIs DEF WorkFits
    <3> QED
      BY <1>6, <2>1, <3>1, <3>2 DEF WorkFits, Silent, Lead
  <2>2. CASE r \notin S
    BY <1>0, <1>3, <2>2 DEF BulkInv, WorkFits, Over, Archived, Listed, Lead, Silent
  <2> QED
    BY <2>1, <2>2
<1>9. ArchivedOnce'
  <2>1. \A h \in DOMAIN history : history[h].run \in world.runs \ S
    BY <1>2, <1>6, HistoryIs DEF Archived
  <2> QED
    BY <1>0, <1>3, <2>1 DEF BulkInv, ArchivedOnce, Listed
<1>10. SentLands'
  <2>1. \A r \in world.runs : \A w \in world.workers : work'[r][w].sent = work[r][w].sent
    BY <1>2, <1>3, <1>4, StoppedIs
  <2> QED
    BY <1>0, <2>1 DEF BulkInv, SentLands, Lands
<1>11. CountedLands' /\ RemovedIsDrained'
  BY <1>0 DEF BulkInv, CountedLands, Lands, RemovedIsDrained
<1> QED
  BY <1>5, <1>7, <1>8, <1>9, <1>10, <1>11 DEF BulkInv

\* Runs and producers do not change.
LEMMA RunsStay ==
  ASSUME BulkInv, RTypeOK', UNCHANGED <<world, starting, rec, work, archiving, history, shown, water, gone>>
  PROVE  /\ \A r \in world.runs : RecordFits(r)' /\ WorkFits(r)'
         /\ ArchivedOnce'
<1>1. ASSUME NEW r \in world.runs
      PROVE  RecordFits(r)' /\ WorkFits(r)'
  <2>1. RecordFits(r)'
    BY DEF BulkInv, RecordFits, Over, Archived, Listed, OnGoing
  <2>2. WorkFits(r)'
    BY DEF BulkInv, WorkFits, Over, Archived, Listed, Lead, Silent
  <2> QED
    BY <2>1, <2>2
<1>2. ArchivedOnce'
  BY DEF BulkInv, ArchivedOnce, Listed
<1> QED
  BY <1>1, <1>2

LEMMA HaltKeeps ==
  ASSUME BulkInv, world' = world, HaltLands
  PROVE  BulkInv'
<1> USE DEF HaltLands, Reports
<1>1. RTypeOK'
  BY BatchStays DEF BulkInv, RTypeOK
<1>2. SentLands' /\ CountedLands' /\ RemovedIsDrained'
  BY DEF BulkInv, SentLands, CountedLands, Lands, RemovedIsDrained
<1> QED
  BY <1>1, <1>2, RunsStay DEF BulkInv

LEMMA FlushKeeps ==
  ASSUME BulkInv, world' = world, NEW x \in landed, Flush(x)
  PROVE  BulkInv'
<1> DEFINE y == [x EXCEPT !.flushed = TRUE]
<1>1. /\ landed' = (landed \ {x}) \cup {y}
      /\ UNCHANGED <<starting, rec, work, flag, accepting, halts, counted, Reports>>
  BY DEF Flush
<1> USE DEF Reports
<1>2. x \in Batch /\ landed \subseteq Batch /\ IsFiniteSet(landed)
  BY DEF BulkInv, RTypeOK
<1>3. y \in Batch /\ y.flushed /\ y.run = x.run /\ y.by = x.by /\ y.row = x.row
  BY <1>2 DEF Batch
<1> HIDE DEF y
<1>4. IsFiniteSet(landed')
  BY <1>1, <1>2, FS_Subset, FS_AddElement
<1>5. RTypeOK'
  BY <1>1, <1>2, <1>3, <1>4, BatchStays DEF BulkInv, RTypeOK
<1>6. \A c : /\ Lands(c) => Lands(c)'
             /\ (\E b \in landed : b.flushed /\ <<b.run, b.by, b.row>> = c) =>
                  \E b \in landed' : b.flushed /\ <<b.run, b.by, b.row>> = c
  BY <1>1, <1>3 DEF Lands
<1>7. SentLands' /\ CountedLands'
  BY <1>1, <1>6 DEF BulkInv, SentLands, CountedLands
<1>8. RemovedIsDrained'
  BY <1>1, <1>6 DEF BulkInv, RemovedIsDrained
<1> QED
  BY <1>1, <1>5, <1>7, <1>8, RunsStay DEF BulkInv

\* A poll never gives less than the high water of a run.
LEMMA StableIs ==
  ASSUME BulkInv, NEW r \in world.runs, NEW seen
  PROVE  Stable(r, seen) \in Nat /\ Stable(r, seen) >= water[r]
<1> DEFINE written == Min({world.rows, computeRowsWritten(r, seen)})
           raw == IF Writing(r, written, seen) THEN IF written > 0 THEN written ELSE rec[r].sent
                  ELSE Max({rec[r].sent, written})
           capped == Min({world.rows, raw})
<1>1. /\ RTypeOK /\ world.rows \in Nat /\ rec[r] \in RunRecord /\ water[r] \in Nat
      /\ rec[r].sent \in Nat /\ rec[r].base \in Nat
  BY LeadWorks, RecordFields DEF BulkInv, RTypeOK
<1>2. computeRowsWritten(r, seen) \in Nat
  BY <1>1, FlushedIs, GapIs DEF computeRowsWritten
<1>3. written \in Nat
  BY <1>1, <1>2, LeastIs
<1> HIDE DEF written
<1>4. raw \in Nat
  BY <1>1, <1>3, BoundsAre
<1> HIDE DEF raw
<1>5. capped \in Nat
  BY <1>1, <1>4, LeastIs
<1> HIDE DEF capped
<1>6. Stable(r, seen) = Max({water[r], capped})
  BY DEF Stable, capped, raw, written
<1> QED
  BY <1>1, <1>5, <1>6, BoundsAre

LEMMA PollGives ==
  ASSUME BulkInv, Poll, NEW r \in world.runs
  PROVE  /\ shown'[r] \in Nat /\ water'[r] \in Nat
         /\ ~Listed(r) => shown'[r] = shown[r] /\ water'[r] = water[r]
         /\ OnGoing(r) => shown'[r] = water'[r] /\ shown'[r] >= shown[r]
<1>1. PICK seen \in SUBSET world.replicas :
        /\ shown' = [c \in world.runs |-> IF Listed(c) THEN Stable(c, seen) ELSE shown[c]]
        /\ water' = [c \in world.runs |-> IF Listed(c) THEN IF OnGoing(c) THEN Stable(c, seen) ELSE 0
                                           ELSE water[c]]
  BY DEF Poll
<1>2. shown[r] \in Nat /\ water[r] \in Nat /\ (OnGoing(r) => shown[r] = water[r])
  BY DEF BulkInv, RTypeOK, RecordFits
<1>3. OnGoing(r) => Listed(r)
  BY NoneAre DEF OnGoing, Listed
<1>4. /\ shown'[r] = IF Listed(r) THEN Stable(r, seen) ELSE shown[r]
      /\ water'[r] = IF Listed(r) THEN IF OnGoing(r) THEN Stable(r, seen) ELSE 0 ELSE water[r]
  BY <1>1
<1>5. Stable(r, seen) \in Nat /\ Stable(r, seen) >= water[r]
  BY StableIs
<1> QED
  BY <1>2, <1>3, <1>4, <1>5

LEMMA PollKeeps ==
  ASSUME BulkInv, world' = world, Poll
  PROVE  BulkInv'
<1>1. UNCHANGED <<starting, rec, work, flag, archiving, history, gone, counted,
                  blind, accepting, landed, halts>>
  BY DEF Poll, Loader
<1>2. shown' \in [world.runs -> Nat] /\ water' \in [world.runs -> Nat]
  <2>1. \A r \in world.runs : shown'[r] \in Nat /\ water'[r] \in Nat
    BY PollGives
  <2>2. \E f, g : shown' = [r \in world.runs |-> f[r]] /\ water' = [r \in world.runs |-> g[r]]
    <3>1. PICK seen \in SUBSET world.replicas :
            /\ shown' = [c \in world.runs |-> IF Listed(c) THEN Stable(c, seen) ELSE shown[c]]
            /\ water' = [c \in world.runs |-> IF Listed(c) THEN IF OnGoing(c) THEN Stable(c, seen) ELSE 0
                                               ELSE water[c]]
      BY DEF Poll
    <3>2. shown' = [c \in world.runs |-> shown'[c]] /\ water' = [c \in world.runs |-> water'[c]]
      BY <3>1
    <3> QED
      BY <3>2
  <2> QED
    BY <2>1, <2>2
<1>3. RTypeOK'
  BY <1>1, <1>2, BatchStays DEF BulkInv, RTypeOK
<1>4. ASSUME NEW r \in world.runs
      PROVE  RecordFits(r)' /\ WorkFits(r)'
  <2>1. RecordFits(r)'
    BY <1>1, PollGives DEF BulkInv, RecordFits, Over, Archived, Listed, OnGoing
  <2>2. WorkFits(r)'
    BY <1>1 DEF BulkInv, WorkFits, Over, Archived, Listed, Lead, Silent
  <2> QED
    BY <2>1, <2>2
<1>5. ArchivedOnce'
  BY <1>1 DEF BulkInv, ArchivedOnce, Listed
<1>6. SentLands' /\ CountedLands' /\ RemovedIsDrained'
  BY <1>1 DEF BulkInv, SentLands, CountedLands, Lands, RemovedIsDrained
<1> QED
  BY <1>3, <1>4, <1>5, <1>6 DEF BulkInv

LEMMA BulkInvKept ==
  ASSUME BulkInv, [RNext]_rvars
  PROVE  BulkInv'
<1>1. CASE UNCHANGED rvars
  <2> USE <1>1 DEF rvars
  <2>1. RTypeOK'
    BY BatchStays DEF BulkInv, RTypeOK
  <2>2. SentLands' /\ CountedLands' /\ RemovedIsDrained'
    BY DEF BulkInv, SentLands, CountedLands, Lands, RemovedIsDrained
  <2> QED
    BY <2>1, <2>2, RunsStay DEF BulkInv
<1>2. CASE RNext
  <2>1. world' = world
    BY <1>2 DEF RNext
  <2>2. ASSUME NEW r \in world.runs, BulkStep(r)
        PROVE  BulkInv'
    BY <2>1, <2>2, ResumeKeeps, StartKeeps, ProgressKeeps, FinishKeeps, ArchiveKeeps, RemoveKeeps
    DEF BulkStep
  <2>3. ASSUME NEW r \in world.runs, NEW w \in world.workers, WorkerStep(r, w)
        PROVE  BulkInv'
    BY <2>1, <2>3, WorkerBecomes, PostingKeeps
  <2>4. ASSUME CancelRun \/ CancelAllRuns
        PROVE  BulkInv'
    <3>1. \E S \in SUBSET world.runs : (\A r \in S : OnGoing(r)) /\ CancelSet(S)
      BY <2>4 DEF CancelRun, CancelAllRuns
    <3> QED
      BY <2>1, <3>1, CancelSetKeeps
  <2> QED
    BY <1>2, <2>1, <2>2, <2>3, <2>4, HaltKeeps, PollKeeps, FlushKeeps DEF RNext
<1> QED
  BY <1>1, <1>2

LEMMA BulkInvInit ==
  ASSUME RInit
  PROVE  BulkInv
<1> USE DEF RInit
<1>1. RTypeOK
  <2>1. << >> \in Seq(Entry) /\ IsFiniteSet({})
    BY FS_EmptySet
  <2>2. /\ rec \in [world.runs -> RunRecord] /\ archiving \in [world.runs -> RunRecord]
        /\ work \in [world.runs -> [world.workers -> Producer]]
    BY NoneAre
  <2> QED
    BY <2>1, <2>2 DEF RTypeOK
<1>2. \A r \in world.runs : ~Archived(r) /\ ~Over(r) /\ ~Listed(r) /\ ~OnGoing(r)
  BY NoneAre DEF Archived, Over, Listed, OnGoing
<1>3. \A r \in world.runs : RecordFits(r)
  BY <1>2 DEF RecordFits
<1>4. \A r \in world.runs : WorkFits(r)
  BY <1>2 DEF WorkFits, Silent, NoWorker
<1>5. ArchivedOnce /\ CountedLands /\ RemovedIsDrained
  BY DEF ArchivedOnce, CountedLands, RemovedIsDrained
<1>6. SentLands
  BY DEF SentLands, NoWorker
<1> QED
  BY <1>1, <1>3, <1>4, <1>5, <1>6 DEF BulkInv

LEMMA BulkIsOver ==
  ASSUME BulkInv
  PROVE  EndedIsOver /\ RemovedIsDrained
<1>1. ASSUME NEW r \in world.runs, Archived(r), Listed(r), rec[r].status \in {"done", "cancelled"},
             NEW w \in world.workers
      PROVE  work[r][w].posts = {}
  <2>1. WorkFits(r) /\ Over(r)
    BY <1>1 DEF BulkInv, Over
  <2> QED
    BY <1>1, <2>1 DEF WorkFits
<1> QED
  BY <1>1 DEF BulkInv, ArchivedOnce, EndedIsOver

\* Every variable of the bulk runs has its type.
THEOREM BulkTypes == RSpec => []RTypeOK
<1>1. BulkInv => RTypeOK
  BY DEF BulkInv
<1> QED
  BY <1>1, BulkInvInit, BulkInvKept, PTL DEF RSpec

\* A bulk run that is over is over, and its archive and its record agree.
THEOREM EndedStaysOver == RSpec => []EndedIsOver
<1>1. BulkInv => EndedIsOver
  BY BulkIsOver
<1> QED
  BY <1>1, BulkInvInit, BulkInvKept, PTL DEF RSpec

\* A record that leaves the list before its time leaves nothing it counted unflushed.
THEOREM DrainedSound == RSpec => []RemovedIsDrained
<1>1. BulkInv => RemovedIsDrained
  BY BulkIsOver
<1> QED
  BY <1>1, BulkInvInit, BulkInvKept, PTL DEF RSpec

LEMMA ShownStep ==
  ASSUME BulkInv, [RNext]_rvars
  PROVE  [ShownStays]_rvars
<1> SUFFICES ASSUME RNext, NEW r \in world.runs, OnGoing(r), rec'[r].status = "running"
             PROVE  shown'[r] >= shown[r]
  BY DEF ShownStays
<1>1. shown[r] \in Nat
  BY DEF BulkInv, RTypeOK
<1>2. CASE Poll
  BY <1>2, PollGives
<1>3. CASE UNCHANGED shown
  BY <1>1, <1>3
<1>4. ASSUME NEW c \in world.runs, BulkStep(c)
      PROVE  UNCHANGED shown
  BY <1>4 DEF BulkStep, Resume, Start, Progress, FinishRun, Archive, Remove, Expire, Reports
<1>5. ASSUME NEW c \in world.runs, NEW w \in world.workers, WorkerStep(c, w)
      PROVE  UNCHANGED shown
  BY <1>5 DEF WorkerStep, Posting, Make, Throw, AbortPoll, Closed, Die, Accept, ReplyLost, Rejected,
              Reports
<1>6. ASSUME CancelRun \/ CancelAllRuns \/ HaltLands \/ \E x \in landed : Flush(x)
      PROVE  UNCHANGED shown
  BY <1>6 DEF CancelRun, CancelAllRuns, CancelSet, HaltLands, Flush, Reports
<1> QED
  BY <1>2, <1>3, <1>4, <1>5, <1>6 DEF RNext

\* What polls report as written never falls while the run is running.
THEOREM ShownSound == RSpec => ShownNeverFalls
<1> QED
  BY BulkInvInit, BulkInvKept, ShownStep, PTL DEF RSpec, ShownNeverFalls
===============================================================================
