--------------------------- MODULE StreamProducer ---------------------------
(***************************************************************************)
(* The stream sink of the generator (producer.ts) with its producer-side   *)
(* backpressure (flow-control.ts), driven by the row loop: per-stream      *)
(* buffers, batches sent as one pipeline each, up to `window' of them in   *)
(* flight per stream, XLEN polled every CheckEvery rows and the batch that *)
(* polled held while a stream is too long.  Ingest takes entries off the   *)
(* streams.  Router and ULIDs are abstracted: a row goes to any stream.    *)
(***************************************************************************)
EXTENDS Naturals, FiniteSets, FiniteSetsExt

CONSTANTS Streams, Rows, BatchSize,
          Windows,      \* the pipeline windows a run is started with
          CheckEvery,   \* flowCheckEveryRows
          PauseAbove, ResumeBelow

VARIABLES
  window,
  pc,       \* "next", "await", "flush", "drain", "done", "failed"
  at,       \* the stream the loop awaits a batch of
  row,      \* rows given to add so far
  flushing, \* streams flush or close has not dispatched yet
  buffers, flying, \* rows buffered per stream; the batches in flight
  batches,  \* stats.batchCount
  xlen,     \* entries in each stream
  written,  \* entries ever added to each stream
  routed,   \* rows routed to each stream
  rowsSent, firstError,
  since,    \* rowsSinceCheck
  paused

vars == <<window, pc, at, row, flushing, buffers, flying, batches, xlen, written, routed,
          rowsSent, firstError, since, paused>>

NoStream == "none"
InFlightOf(s) == {b \in flying : b.s = s}
\* The longest of the streams whose XLEN answered; a failed XLEN counts as nothing.
Longest(answered) == Max({0} \cup {xlen[s] : s \in answered})
Total(f) == MapThenSumSet(LAMBDA s : f[s], Streams)

Init ==
  /\ window \in Windows
  /\ pc = "next" /\ at = NoStream /\ row = 0 /\ flushing = {} /\ flying = {} /\ batches = 0
  /\ buffers = [s \in Streams |-> 0] /\ xlen = [s \in Streams |-> 0]
  /\ written = [s \in Streams |-> 0] /\ routed = [s \in Streams |-> 0]
  /\ rowsSent = 0 /\ firstError = FALSE /\ since = 0 /\ paused = FALSE

Redis == <<xlen, written, rowsSent, firstError, since, paused>>

\* dispatchBatch: the buffer of s leaves as one pipeline; the caller goes on at once unless
\* the window of the stream is full (at window 1 it always is).
Dispatched(s, n) ==
  /\ flying' = flying \cup {[id |-> batches, s |-> s, rows |-> n, at |-> "exec"]}
  /\ batches' = batches + 1
  /\ buffers' = [buffers EXCEPT ![s] = 0]
  /\ IF Cardinality(InFlightOf(s)) + 1 >= window THEN pc' = "await" /\ at' = s
     ELSE UNCHANGED <<pc, at>>

Add(s) ==
  /\ pc = "next" /\ row < Rows
  /\ row' = row + 1 /\ routed' = [routed EXCEPT ![s] = @ + 1]
  /\ IF buffers[s] + 1 < BatchSize
     THEN buffers' = [buffers EXCEPT ![s] = @ + 1] /\ UNCHANGED <<pc, at, flying, batches>>
     ELSE IF firstError
     THEN buffers' = [buffers EXCEPT ![s] = @ + 1] /\ pc' = "failed"
          /\ UNCHANGED <<at, flying, batches>>
     ELSE Dispatched(s, buffers[s] + 1)
  /\ UNCHANGED <<window, flushing, Redis>>

\* The race over the stream's batches: one has settled.
Awaited ==
  /\ pc = "await" /\ Cardinality(InFlightOf(at)) < window
  /\ pc' = IF firstError THEN "failed" ELSE IF flushing # {} \/ row = Rows THEN "flush" ELSE "next"
  /\ at' = NoStream
  /\ UNCHANGED <<window, row, flushing, buffers, flying, batches, routed, Redis>>

\* flush and close dispatch every stream's rest, then drain.
StartFlush ==
  /\ pc = "next" /\ row = Rows
  /\ pc' = "flush" /\ flushing' = {s \in Streams : buffers[s] > 0}
  /\ UNCHANGED <<window, at, row, buffers, flying, batches, routed, Redis>>

FlushStream(s) ==
  /\ pc = "flush" /\ s \in flushing /\ flushing' = flushing \ {s}
  /\ IF firstError THEN pc' = "failed" /\ UNCHANGED <<at, buffers, flying, batches>>
     ELSE IF buffers[s] = 0 THEN UNCHANGED <<pc, at, buffers, flying, batches>>
     ELSE Dispatched(s, buffers[s])
  /\ UNCHANGED <<window, row, routed, Redis>>

FlushRest ==
  /\ pc = "flush" /\ flushing = {}
  /\ IF \E s \in Streams : buffers[s] > 0
     THEN flushing' = {s \in Streams : buffers[s] > 0} /\ UNCHANGED pc
     ELSE pc' = "drain" /\ UNCHANGED flushing
  /\ UNCHANGED <<window, at, row, buffers, flying, batches, routed, Redis>>

Drained ==
  /\ pc = "drain" /\ flying = {}
  /\ pc' = IF firstError THEN "failed" ELSE "done"
  /\ UNCHANGED <<window, at, row, flushing, buffers, flying, batches, routed, Redis>>

Loop == <<window, row, flushing, buffers, batches, routed>>
Polled == <<pc, at, xlen, written, rowsSent, firstError, since, Loop>>

\* exec answers: every XADD of the batch is in; the credit gate counts the rows.
Exec(b) ==
  /\ b.at = "exec"
  /\ xlen' = [xlen EXCEPT ![b.s] = @ + b.rows] /\ written' = [written EXCEPT ![b.s] = @ + b.rows]
  /\ rowsSent' = rowsSent + b.rows
  /\ IF since + b.rows >= CheckEvery
     THEN since' = 0 /\ flying' = (flying \ {b}) \cup {[b EXCEPT !.at = "poll"]}
     ELSE since' = since + b.rows /\ flying' = flying \ {b}
  /\ UNCHANGED <<pc, at, paused, firstError, Loop>>

\* exec fails, or some XADDs of it do; the others are in the stream.
ExecFails(b) ==
  /\ b.at = "exec"
  /\ \E n \in 0 .. b.rows - 1 :
       /\ xlen' = [xlen EXCEPT ![b.s] = @ + n] /\ written' = [written EXCEPT ![b.s] = @ + n]
  /\ flying' = flying \ {b}
  \* at window 1 the error is thrown to the awaiting caller and never recorded
  /\ IF window = 1 THEN pc' = "failed" /\ UNCHANGED firstError
     ELSE firstError' = TRUE /\ UNCHANGED pc
  /\ UNCHANGED <<at, rowsSent, since, paused, Loop>>

Poll(b, answered) ==
  /\ b.at = "poll"
  /\ IF Longest(answered) <= PauseAbove
     THEN flying' = flying \ {b} /\ UNCHANGED paused
     ELSE flying' = (flying \ {b}) \cup {[b EXCEPT !.at = "held"]} /\ paused' = TRUE
  /\ UNCHANGED Polled

\* A poll of the pause loop finds every stream that answered short enough.
Resume(b, answered) ==
  /\ b.at = "held" /\ Longest(answered) < ResumeBelow
  /\ flying' = flying \ {b} /\ paused' = FALSE
  /\ UNCHANGED Polled

Gate(b, answered) == Poll(b, answered) \/ Resume(b, answered)

\* External: an ingest consumer acknowledges and deletes an entry.
Consume(s) ==
  /\ xlen[s] > 0 /\ xlen' = [xlen EXCEPT ![s] = @ - 1]
  /\ UNCHANGED <<window, pc, at, row, flushing, buffers, flying, batches, written, routed,
                 rowsSent, firstError, since, paused>>

Step == \/ \E s \in Streams : Add(s) \/ FlushStream(s)
        \/ Awaited \/ StartFlush \/ FlushRest \/ Drained
        \/ \E b \in flying : Exec(b) \/ ExecFails(b) \/ Gate(b, Streams)
Next == \/ Step
        \/ \E b \in flying, answered \in SUBSET Streams : Gate(b, answered)
        \/ \E s \in Streams : Consume(s)

\* The loop goes on, Redis answers, ingest consumes; nobody counts on an XLEN that
\* fails to end a pause.
Spec == Init /\ [][Next]_vars /\ WF_vars(Step) /\ \A s \in Streams : WF_vars(Consume(s))

-----------------------------------------------------------------------------
(* Properties *)

(* A run that ends without an error has put every row into its stream      *)
(* exactly once and reports that number, whatever the order in which the   *)
(* batches in flight were answered: a failure in the background surfaces.  *)
DoneWroteEveryRow ==
  pc = "done" => written = routed /\ rowsSent = Rows

=============================================================================
