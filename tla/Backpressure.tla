----------------------------- MODULE Backpressure ------------------------------
(***************************************************************************)
(* Admission of requests by the api (services/api/src/backpressure.ts):    *)
(* two counters, heavy and light, each with its limit; a slot is taken in  *)
(* the preHandler hook and given back by whichever of onResponse and       *)
(* onRequestAbort comes first.  The hooks themselves run to completion;    *)
(* between them the handlers of all requests interleave.                   *)
(***************************************************************************)
EXTENDS Naturals, FiniteSets

CONSTANTS
  Request,     \* requests that may be under way at once
  heavyLimit, lightLimit

ASSUME LimitAssumption ==
  heavyLimit \in Nat \ {0} /\ lightLimit \in Nat \ {0}

VARIABLES
  state,       \* the counters
  slot,        \* the slot each request holds
  category,    \* what classify said of each request
  handler,     \* the handler of each request
  aborted      \* the client is gone

vars == <<state, slot, category, handler, aborted>>

Bucket == {"heavy", "light"}
Category == Bucket \cup {"exempt"}

limit(cat) == IF cat = "heavy" THEN heavyLimit ELSE lightLimit

Init ==
  /\ state = [b \in Bucket |-> 0]
  /\ slot = [r \in Request |-> "none"]
  /\ category = [r \in Request |-> "exempt"]
  /\ handler = [r \in Request |-> "idle"]
  /\ aborted = [r \in Request |-> FALSE]

\* Mutant: the slot stays on the request, so that both hooks give it back.
release_KeepsSlot(r) ==
  IF slot[r] \in Bucket
  THEN /\ state' = [state EXCEPT ![slot[r]] = IF @ = 0 THEN 0 ELSE @ - 1]
       /\ UNCHANGED slot
  ELSE UNCHANGED <<state, slot>>

release(r) ==
  IF slot[r] \in Bucket
  THEN /\ state' = [state EXCEPT ![slot[r]] = IF @ = 0 THEN 0 ELSE @ - 1]
       /\ slot' = [slot EXCEPT ![r] = "none"]
  ELSE UNCHANGED <<state, slot>>

-------------------------------------------------------------------------------
(* preHandler *)

Exempt(r) ==
  /\ handler[r] = "idle"
  /\ category' = [category EXCEPT ![r] = "exempt"]
  /\ handler' = [handler EXCEPT ![r] = "running"]
  /\ UNCHANGED <<state, slot, aborted>>

Refuse(r, cat) ==
  /\ handler[r] = "idle" /\ state[cat] >= limit(cat)
  /\ category' = [category EXCEPT ![r] = cat]
  /\ handler' = [handler EXCEPT ![r] = "refused"]
  /\ UNCHANGED <<state, slot, aborted>>

Admit(r, cat) ==
  /\ handler[r] = "idle" /\ state[cat] < limit(cat)
  /\ category' = [category EXCEPT ![r] = cat]
  /\ handler' = [handler EXCEPT ![r] = "running"]
  /\ state' = [state EXCEPT ![cat] = @ + 1]
  /\ slot' = [slot EXCEPT ![r] = cat]
  /\ UNCHANGED aborted

-------------------------------------------------------------------------------
(* The hooks after admission.  The framework runs onRequestAbort when it sees
   the client go, and onResponse when the reply is written or fails. *)

onRequestAbort(r) ==
  /\ handler[r] \in {"running", "refused"} /\ ~aborted[r]
  /\ aborted' = [aborted EXCEPT ![r] = TRUE]
  /\ release(r)
  /\ UNCHANGED <<category, handler>>

\* The handler of an aborted request runs on to its reply.
onResponse(r) ==
  /\ handler[r] \in {"running", "refused"}
  /\ handler' = [handler EXCEPT ![r] = "idle"]
  /\ aborted' = [aborted EXCEPT ![r] = FALSE]
  /\ release(r)
  /\ UNCHANGED category

Next ==
  \E r \in Request :
    \/ Exempt(r) \/ onRequestAbort(r) \/ onResponse(r)
    \/ \E cat \in Bucket : Refuse(r, cat) \/ Admit(r, cat)

Spec == Init /\ [][Next]_vars

-------------------------------------------------------------------------------
(* Properties *)

TypeOK ==
  /\ state \in [Bucket -> Nat]
  /\ slot \in [Request -> Bucket \cup {"none"}]
  /\ category \in [Request -> Category]
  /\ handler \in [Request -> {"idle", "running", "refused"}]
  /\ aborted \in [Request -> BOOLEAN]
  /\ \A r \in Request : handler[r] = "idle" => ~aborted[r] /\ slot[r] = "none"

Holders(b) == {r \in Request : slot[r] = b}

\* No slot leaks and none is given back twice, in whatever order replies, aborts
\* and refusals of all requests come: the counters are the requests holding one.
CountersAreSlots == \A b \in Bucket : state[b] = Cardinality(Holders(b))

\* Each bucket keeps to its own limit, however admissions, aborts and replies
\* interleave.
WithinLimits == \A b \in Bucket : state[b] <= limit(b)
===============================================================================
