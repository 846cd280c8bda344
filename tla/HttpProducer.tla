---------------------------- MODULE HttpProducer ----------------------------
(***************************************************************************)
(* One generator worker in bulk-load mode: the row loop of coordinator.ts, *)
(* the HTTP row sink of http-producer.ts and the message worker.ts posts   *)
(* at the end.  The loop is the only caller of add, flush and close; up to *)
(* MaxInFlight POSTs run beside it, each retried for ever on 429, 5xx and  *)
(* network failures until the abort signal is raised.                      *)
(*                                                                         *)
(* A row is its position in this worker's share; its ULID is younger than  *)
(* that of every row before it.  The watermark is read once, at the first  *)
(* row, so it is 0 (nothing flushed that is as young as row 1) or 1 (rows  *)
(* of another producer, flushed meanwhile, are younger than row 1).        *)
(***************************************************************************)
EXTENDS Integers, FiniteSets

CONSTANTS Rows,         \* the rows of this worker's share
          BatchSize,    \* rows per POST body
          MaxInFlight,  \* the cap on concurrent POSTs
          PollEvery     \* rows between two looks at the cancel flag

VARIABLES
  pc,        \* where the loop is
  after,     \* where it goes once its batch is dispatched
  row,       \* the next row
  buffer,    \* rows not yet in a batch
  held,      \* the batch waiting for a slot
  resume,    \* the watermark, or Unread
  posts,     \* inFlightSet: what each batch in flight does, and its throttle flag
  inFlight,  \* stats.inFlight, the slots taken
  throttled, \* throttledBatches
  firstError, cancel, aborted,
  rowsSent, skipped,
  accepted,  \* the rows the bulk-loader holds
  told       \* the message of the worker thread: "", "done", "cancelled" or "error"

vars == <<pc, after, row, buffer, held, resume, posts, inFlight, throttled, firstError,
          cancel, aborted, rowsSent, skipped, accepted, told>>
loop == <<pc, after, row, buffer, held, resume, skipped, told>>

Unread == -1
InFlightSet == DOMAIN posts
Running == told = ""

Init ==
  /\ pc = "next" /\ after = "next" /\ row = 1 /\ buffer = {} /\ held = {} /\ resume = Unread
  /\ posts = << >> /\ inFlight = 0 /\ throttled = 0
  /\ firstError = FALSE /\ cancel = FALSE /\ aborted = FALSE
  /\ rowsSent = 0 /\ skipped = {} /\ accepted = {} /\ told = ""

\* The loop's add, flush or close rejects: worker.ts posts "error".
Throw == /\ told' = "error" /\ pc' = "over"
         /\ UNCHANGED <<after, row, buffer, held, resume, skipped, inFlight>>

\* acquireSlot, from a caller that has taken its batch out of the buffer.
AcquireSlot(batch, then) ==
  /\ held' = batch /\ after' = then
  /\ IF inFlight < MaxInFlight
     THEN inFlight' = inFlight + 1 /\ pc' = "dispatch"
     ELSE pc' = "slot" /\ UNCHANGED inFlight

Producing == pc = "next" /\ row <= Rows /\ ~(cancel /\ (row - 1) % PollEvery = 0)
Aside == UNCHANGED <<posts, throttled, firstError, cancel, aborted, rowsSent, accepted>>

\* add: an error of an earlier batch surfaces before the row is looked at.
AddThrows == Producing /\ firstError /\ Throw /\ Aside

\* add, first row: GET /load/checkpoints; a failure reads as no watermark.
LoadResume ==
  /\ Producing /\ ~firstError /\ resume = Unread
  /\ resume' \in {0, 1}
  /\ UNCHANGED <<pc, after, row, buffer, held, skipped, told, inFlight>> /\ Aside

Skip ==
  /\ Producing /\ ~firstError /\ resume # Unread /\ row <= resume
  /\ skipped' = skipped \cup {row} /\ row' = row + 1
  /\ UNCHANGED <<pc, after, buffer, held, resume, told, inFlight>> /\ Aside

Add ==
  /\ Producing /\ ~firstError /\ resume # Unread /\ row > resume
  /\ row' = row + 1
  /\ IF Cardinality(buffer) + 1 >= BatchSize
     THEN buffer' = {} /\ AcquireSlot(buffer \cup {row}, "next")
     ELSE buffer' = buffer \cup {row} /\ UNCHANGED <<pc, after, held, inFlight>>
  /\ UNCHANGED <<resume, skipped, told>> /\ Aside

\* The loop ends, by the last row or by the cancel flag, and flush sends what is buffered.
Flush ==
  /\ pc = "next" /\ ~Producing
  /\ IF buffer = {} THEN pc' = "drain" /\ UNCHANGED <<buffer, held, after, inFlight>>
     ELSE buffer' = {} /\ AcquireSlot(buffer, "drain")
  /\ UNCHANGED <<row, resume, skipped, told>> /\ Aside

\* The slot is there: an error seen meanwhile is thrown, the slot and the batch with it.
SlotThrows == pc = "dispatch" /\ firstError /\ Throw /\ Aside

Dispatch ==
  /\ pc = "dispatch" /\ ~firstError
  /\ posts' = [b \in InFlightSet \cup {held} |->
                 IF b = held THEN [at |-> "sent", throttled |-> FALSE] ELSE posts[b]]
  /\ held' = {} /\ pc' = after
  /\ UNCHANGED <<after, row, buffer, resume, skipped, told, inFlight, throttled, firstError,
                 cancel, aborted, rowsSent, accepted>>

\* flush has no batch left in flight; close flushes once more, nothing is left to send.
Drained ==
  /\ pc = "drain" /\ InFlightSet = {}
  /\ IF firstError THEN Throw
     ELSE /\ pc' = "over"
          /\ told' = IF row <= Rows THEN "cancelled" ELSE "done"
          /\ UNCHANGED <<after, row, buffer, held, resume, skipped, inFlight>>
  /\ Aside

Settle(b) ==
  /\ posts' = [c \in InFlightSet \ {b} |-> posts[c]]
  /\ throttled' = IF posts[b].throttled THEN throttled - 1 ELSE throttled
  /\ IF pc = "slot" THEN inFlight' = inFlight + 1 /\ pc' = "dispatch"
     ELSE inFlight' = inFlight - 1 /\ UNCHANGED pc

Sent(b) == posts[b].at = "sent"
Elsewhere == UNCHANGED <<after, row, buffer, held, resume, skipped, told, cancel, aborted>>

\* 202.
Accept(b) ==
  /\ Sent(b) /\ accepted' = accepted \cup b /\ rowsSent' = rowsSent + Cardinality(b)
  /\ Settle(b) /\ Elsewhere /\ UNCHANGED firstError

\* 429: the batch is flagged until its next 202, and backs off.
Throttle(b) ==
  /\ Sent(b)
  /\ posts' = [posts EXCEPT ![b] = [at |-> "backoff", throttled |-> TRUE]]
  /\ throttled' = IF posts[b].throttled THEN throttled ELSE throttled + 1
  /\ Elsewhere /\ UNCHANGED <<pc, inFlight, firstError, rowsSent, accepted>>

\* 5xx or a network failure: the loader may hold the rows all the same.
Fail(b) ==
  /\ Sent(b) /\ ~aborted
  /\ posts' = [posts EXCEPT ![b].at = "backoff"]
  /\ accepted' \in {accepted, accepted \cup b}
  /\ Elsewhere /\ UNCHANGED <<pc, inFlight, throttled, firstError, rowsSent>>

Retry(b) ==
  /\ ~Sent(b) /\ ~aborted
  /\ posts' = [posts EXCEPT ![b].at = "sent"]
  /\ Elsewhere /\ UNCHANGED <<pc, inFlight, throttled, firstError, rowsSent, accepted>>

\* Another 4xx, or the abort signal at any await of the batch.
Reject_Drops(b) ==
  /\ Settle(b) /\ UNCHANGED <<firstError, rowsSent, accepted>> /\ Elsewhere

Reject(b) ==
  /\ Sent(b) \/ aborted
  /\ firstError' = TRUE
  /\ Settle(b) /\ UNCHANGED <<rowsSent, accepted>> /\ Elsewhere

\* SIGINT, SIGTERM or the error of another worker raise the shared flag.
Cancel == /\ ~cancel /\ Running /\ cancel' = TRUE
          /\ UNCHANGED <<loop, posts, inFlight, throttled, firstError, aborted, rowsSent, accepted>>

\* worker.ts looks at the flag every 50 ms, until the run has ended.
AbortPoll == /\ cancel /\ ~aborted /\ Running /\ aborted' = TRUE
             /\ UNCHANGED <<loop, posts, inFlight, throttled, firstError, cancel, rowsSent, accepted>>

Caller == AddThrows \/ LoadResume \/ Skip \/ Add \/ Flush \/ SlotThrows \/ Dispatch \/ Drained
Answer(b) == Accept(b) \/ Throttle(b) \/ Fail(b) \/ Reject(b)
Next == Caller \/ Cancel \/ AbortPoll \/ \E b \in InFlightSet : Answer(b) \/ Retry(b)

(* The loop, the batches and the 50 ms poll run on; the bulk-loader sometimes accepts. *)
Fairness == /\ WF_vars(Caller) /\ WF_vars(AbortPoll)
            /\ \A b \in SUBSET (1..Rows) :
                 WF_vars(b \in InFlightSet /\ Retry(b)) /\ SF_vars(b \in InFlightSet /\ Accept(b))
Spec == Init /\ [][Next]_vars /\ Fairness

-----------------------------------------------------------------------------
(* Properties *)

(* Whatever the answers were and however often a batch was retried, a      *)
(* worker that reports "done" has every row of its share at the            *)
(* bulk-loader or at or below the watermark, each counted once.            *)
DoneHoldsItsShare ==
  told = "done" => /\ accepted \cup skipped = 1..Rows
                   /\ rowsSent + Cardinality(skipped) = Rows

(* add() waits for a slot only while a batch is in flight that will hand   *)
(* it over: "add() awaits when saturated" (http-producer.ts, header).      *)
AwaitsWhenSaturated == pc = "slot" => InFlightSet # {}

=============================================================================
