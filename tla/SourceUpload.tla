---------------------------- MODULE SourceUpload ----------------------------
(***************************************************************************)
(* One uploaded file on its way into the inbound stream: the upload row of *)
(* the browser (ui UploadsContext, lib/sources, SourcesPanel), the source  *)
(* service's record of it (source/src/store.ts, routes/sources.ts,         *)
(* ingest.ts) and the operation the api holds for it (api                  *)
(* routes/sources-proxy.ts).  The record is read and written back whole,   *)
(* so two changes that overlap lose one; of the other sources only whether *)
(* they leave the index empty matters.                                     *)
(***************************************************************************)
EXTENDS Integers, Sequences, FiniteSets

CONSTANTS
    Rows,        \* lines of the file that are not blank
    IngestRun,   \* ids of ingest runs (bounds how many are started)
    Files,       \* column sequences a file may have
    Absent

ASSUME UploadAssumption == Rows \in Nat

New  == -1   \* an ingest run not started,
Done == -2   \* one that came to the end of the file,
Part == -3   \* one that stopped before

Bindings == <<"risk_class", "bucket", "tenor", "risk_value", "weight", "sensitivity_type">>

VARIABLES
    entry,     \* the upload row: "none" or its status
    upload,    \* how far POST /sources/upload is: "idle", "sent", "file", "indexed"
    file,      \* the columns of the file on disk, or Absent
    unread,    \* its lines that are no row to the reader
    rec,       \* source:<id>
    indexed,   \* source:index holds the id
    patches,   \* changes that have read the record and not written it
    lister,    \* GET /sources: "idle", "members", "orphan"
    migrated,  \* migrationAttempted
    runs,      \* ingest runs: lines gone through so far, or how they ended
    added,     \* the lines each has added to the stream
    handle,    \* the operation the api holds: "none", "held"
    wizard     \* the mapping dialog: the suggestion it shows, or Absent

uvars == <<entry, upload, file, unread, rec, indexed, patches, lister, migrated, runs, added, handle, wizard>>
lines == <<unread, added>>
source == <<upload, file, rec, indexed, patches, lister, migrated>>

(***************************************************************************)
(* Inference (infer/types.ts, infer/mapping.ts) and the dialog's own form  *)
(* of a mapping (MappingWizard.tsx).  A column says what it is named for,  *)
(* the kinds of its non-blank samples and how they repeat.                 *)
(***************************************************************************)
inferColumnType(c) ==
    CASE c.kinds = {}                      -> "TEXT"
      [] c.kinds = {"number"}              -> "NUMERIC"
      [] "long" \in c.kinds                -> "TEXT"
      [] c.kinds = {"id"} /\ c.several     -> "TEXT"
      [] c.several /\ c.distinct           -> "TEXT"
      [] OTHER                             -> "TAG"

Cols(cols, P(_)) == SelectSeq([i \in 1 .. Len(cols) |-> i], LAMBDA i : P(cols[i]))

tenorArrayCols(cols) ==
    Cols(cols, LAMBDA c : c.named = "tenors" /\ inferColumnType(c) = "NUMERIC")

\* each binding takes the first column named for it; risk_value prefers the
\* columns of a tenor ladder
inferMapping(cols) ==
    LET ladder == tenorArrayCols(cols)
        match(k) == Cols(cols, LAMBDA c : c.named = k)
        bound == {k \in {Bindings[i] : i \in 1 .. Len(Bindings)} :
                     (k = "risk_value" /\ Len(ladder) >= 2) \/ match(k) # <<>>}
    IN  [k \in bound |->
            IF k = "risk_value" /\ Len(ladder) >= 2
            THEN [from |-> ladder, type |-> "array_number"]
            ELSE [from |-> <<match(k)[1]>>,
                  type |-> IF inferColumnType(cols[match(k)[1]]) = "NUMERIC" THEN "number" ELSE "string"]]

\* what the dialog makes of a suggestion it saves unchanged
normalise(m) ==
    [k \in DOMAIN m |-> IF m[k].type = "array_number" THEN m[k]
                        ELSE [m[k] EXCEPT !.type = "string"]]

UInit ==
    /\ entry = "none" /\ upload = "idle" /\ file = Absent /\ rec = Absent /\ indexed = FALSE
    /\ patches = {} /\ lister = "idle" /\ migrated = FALSE
    /\ unread \in SUBSET (1 .. Rows)
    /\ runs = [r \in IngestRun |-> New] /\ added = [r \in IngestRun |-> {}] /\ handle = "none" /\ wizard = Absent

(***************************************************************************)
(* Uploading (POST /sources/upload): the file, then the index, then the    *)
(* record.  Cancelling tears the request down before the file is complete; *)
(* an "aborted" row differs from a "failed" one in its wording only.       *)
(***************************************************************************)
startUpload ==
    /\ entry = "none" /\ upload = "idle"
    /\ entry' = "uploading" /\ upload' = "sent"
    /\ UNCHANGED <<file, rec, indexed, patches, lister, migrated, lines, runs, handle, wizard>>

UploadCut ==
    /\ upload = "sent"
    /\ upload' = "idle"
    /\ entry' = "failed"
    /\ UNCHANGED <<file, rec, indexed, patches, lister, migrated, lines, runs, handle, wizard>>

FileStored ==
    /\ upload = "sent"
    /\ upload' = "file"
    /\ \E cols \in Files : file' = cols
    /\ UNCHANGED <<entry, rec, indexed, patches, lister, migrated, lines, runs, handle, wizard>>

CreateIndexed ==
    /\ upload = "file"
    /\ upload' = "indexed" /\ indexed' = TRUE
    /\ UNCHANGED <<entry, file, rec, patches, lister, migrated, lines, runs, handle, wizard>>

CreateWritten ==
    /\ upload = "indexed"
    /\ upload' = "over" /\ rec' = [st |-> "uploaded", mapped |-> FALSE]
    /\ entry' = IF entry = "uploading" THEN "succeeded" ELSE entry
    /\ UNCHANGED <<file, indexed, patches, lister, migrated, lines, runs, handle, wizard>>

\* the answer, or the connection, is lost: the row says so, the source exists
ReplyLost ==
    /\ upload \in {"file", "indexed"} /\ entry = "uploading"
    /\ entry' = "failed"
    /\ UNCHANGED <<source, runs, lines, handle, wizard>>

\* dismissed by hand, or thirty seconds after it ended
Dismiss ==
    /\ entry # "none"
    /\ entry' = "none"
    /\ UNCHANGED <<source, runs, lines, handle, wizard>>

(***************************************************************************)
(* The record: applyPatch reads it and writes it back changed.             *)
(***************************************************************************)
Patched(base, kind) ==
    CASE kind = "columns" -> [base EXCEPT !.st = "inferred"]
      [] kind = "mapping" -> [st |-> "mapped", mapped |-> TRUE]
      [] OTHER            -> [base EXCEPT !.st = kind]

PatchRead(kind, by) ==
    patches' = IF rec = Absent THEN patches ELSE patches \cup {[kind |-> kind, base |-> rec, by |-> by, cols |-> file]}

PatchWrite(p) ==
    /\ p \in patches
    /\ patches' = patches \ {p}
    /\ rec' = Patched(p.base, p.kind)
    /\ runs' = IF p.kind = "ingesting" THEN [runs EXCEPT ![p.by] = 0] ELSE runs
    /\ handle' = IF p.kind = "ingesting" THEN "held" ELSE handle
    /\ wizard' = IF p.kind = "columns" THEN inferMapping(p.cols) ELSE wizard
    /\ UNCHANGED <<entry, upload, file, indexed, lister, migrated, lines>>

NoPatch(kind) == ~\E p \in patches : p.kind = kind

\* POST /sources/:id/infer, /mapping, /ingest
openMapping ==
    /\ rec # Absent /\ file # Absent /\ NoPatch("columns")
    /\ PatchRead("columns", Absent)
    /\ UNCHANGED <<entry, upload, file, rec, indexed, lister, migrated, lines, runs, handle, wizard>>

saveMapping ==
    /\ wizard # Absent /\ NoPatch("mapping")
    /\ DOMAIN normalise(wizard) # {}
    /\ PatchRead("mapping", Absent)
    /\ wizard' = Absent
    /\ UNCHANGED <<entry, upload, file, rec, indexed, lister, migrated, lines, runs, handle>>

ingestSource(r) ==
    /\ rec # Absent /\ rec.mapped
    /\ runs[r] = New /\ NoPatch("ingesting")
    /\ PatchRead("ingesting", r)
    /\ UNCHANGED <<entry, upload, file, rec, indexed, lister, migrated, lines, runs, handle, wizard>>

\* DELETE /sources/:id: the file, the record, its place in the index
deleteSource ==
    /\ rec # Absent
    /\ file' = Absent /\ rec' = Absent /\ indexed' = FALSE
    /\ wizard' = Absent
    /\ UNCHANGED <<entry, upload, patches, lister, migrated, lines, runs, handle>>

(***************************************************************************)
(* GET /sources: the ids, then the records; ids without one are removed.   *)
(* An index that is empty is filled once from the keys there are.          *)
(***************************************************************************)
ListMembers ==
    /\ lister = "idle"
    /\ \/ indexed /\ lister' = "members" /\ UNCHANGED <<indexed, migrated>>
       \/ /\ ~indexed /\ ~migrated
          /\ migrated' = TRUE
          /\ indexed' = (rec # Absent)
          /\ UNCHANGED lister
    /\ UNCHANGED <<entry, upload, file, rec, patches, lines, runs, handle, wizard>>

ListRead ==
    /\ lister = "members"
    /\ lister' = IF rec = Absent THEN "orphan" ELSE "idle"
    /\ UNCHANGED <<entry, upload, file, rec, indexed, patches, migrated, lines, runs, handle, wizard>>

ListRepair ==
    /\ lister = "orphan"
    /\ lister' = "idle" /\ indexed' = FALSE
    /\ UNCHANGED <<entry, upload, file, rec, patches, migrated, lines, runs, handle, wizard>>

(***************************************************************************)
(* An ingest run: the whole file is read, then added row by row.  A line   *)
(* of a JSONL file that is no JSON object is passed over without a word    *)
(* (readers/jsonl.ts), as are the lines an open quote of a CSV swallows.   *)
(***************************************************************************)
Going(r) == runs[r] \in 0 .. Rows

IngestRow(r) ==
    /\ Going(r) /\ runs[r] < Rows
    /\ file # Absent \/ runs[r] > 0
    /\ runs' = [runs EXCEPT ![r] = @ + 1]
    /\ added' = [added EXCEPT ![r] = @ \cup ({runs[r] + 1} \ unread)]
    /\ UNCHANGED <<entry, source, unread, handle, wizard>>

IngestDone_Sampled(r) ==
    /\ Going(r)
    /\ runs[r] > 0
    /\ runs' = [runs EXCEPT ![r] = Done]
    /\ PatchRead("ingested", r)
    /\ UNCHANGED <<entry, upload, file, rec, indexed, lister, migrated, lines, handle, wizard>>

IngestDone(r) ==
    /\ runs[r] = Rows
    /\ file # Absent \/ runs[r] > 0
    /\ runs' = [runs EXCEPT ![r] = Done]
    /\ PatchRead("ingested", r)
    /\ UNCHANGED <<entry, upload, file, rec, indexed, lister, migrated, lines, handle, wizard>>

\* the file cannot be read, or Redis refuses a row
IngestFails(r) ==
    /\ Going(r)
    /\ runs' = [runs EXCEPT ![r] = Part]
    /\ PatchRead("error", r)
    /\ UNCHANGED <<entry, upload, file, rec, indexed, lister, migrated, lines, handle, wizard>>

\* the source service restarts: its runs and half-done requests are gone
Restart ==
    /\ \E r \in IngestRun : Going(r)
    /\ runs' = [r \in IngestRun |-> IF Going(r) THEN Part ELSE runs[r]]
    /\ patches' = {} /\ lister' = "idle" /\ migrated' = FALSE
    /\ UNCHANGED <<entry, upload, file, rec, indexed, lines, handle, wizard>>

(***************************************************************************)
(* The api's hold (trackIngest): given up when a probe finds the source in *)
(* another state than "ingesting", or when its time is over.               *)
(***************************************************************************)
ProbeReleases ==
    /\ handle = "held"
    /\ rec # Absent /\ rec.st # "ingesting"
    /\ handle' = "none"
    /\ UNCHANGED <<entry, source, runs, lines, wizard>>

TimeoutReleases ==
    /\ handle = "held"
    /\ handle' = "none"
    /\ UNCHANGED <<entry, source, runs, lines, wizard>>

UNext ==
    \/ startUpload \/ UploadCut \/ FileStored \/ CreateIndexed \/ CreateWritten
    \/ ReplyLost \/ Dismiss
    \/ \E p \in patches : PatchWrite(p)
    \/ openMapping \/ saveMapping \/ deleteSource
    \/ ListMembers \/ ListRead \/ ListRepair
    \/ \E r \in IngestRun : ingestSource(r) \/ IngestRow(r) \/ IngestDone(r) \/ IngestFails(r)
    \/ Restart \/ ProbeReleases \/ TimeoutReleases

USpec == UInit /\ [][UNext]_uvars

(***************************************************************************)
(* Properties                                                              *)
(***************************************************************************)
\* A source is called "ingested" only if some run came to the end of the file and
\* added every row the reader makes of it, not the sample that inference reads
\* (ingest.ts 51-92).  The lines in unread are in no stream: the reader drops them,
\* and the record says "ingested" all the same.
Readable == (1 .. Rows) \ unread
Whole(r) == runs[r] = Done /\ added[r] = Readable
IngestedIsWhole == (rec # Absent /\ rec.st = "ingested") => \E r \in IngestRun : Whole(r)
=============================================================================
