------------------------------- MODULE MCTarget -------------------------------
(***************************************************************************)
(* Small instances of the target of the api and of its Redis clients, one  *)
(* of which a behaviour runs: overlapping switches pushed to a service, a  *)
(* pool of one slot that two requests fight for, with the failure counter  *)
(* and the growing backoff, and a pool of two slots that one request and   *)
(* the probes walk through.                                                *)
(***************************************************************************)
EXTENDS TargetSwitch

CONSTANTS r1, r2

VARIABLES part, gen, up, slot, rr, opened, draining, orphans, call, pings

poolVars == <<gen, up, slot, rr, opened, draining, orphans, call, pings>>
mcvars == <<part, vars, poolVars>>

One == INSTANCE RuntimePool
         WITH PoolSize <- 1, Caller <- {r1, r2}, Threshold <- 2, BackoffCap <- 2, MaxSwitch <- 1
Two == INSTANCE RuntimePool
         WITH PoolSize <- 2, Caller <- {r1}, Threshold <- 1, BackoffCap <- 1, MaxSwitch <- 1

PoolOff ==
  /\ gen = "off" /\ up = FALSE /\ slot = <<>> /\ rr = "off" /\ opened = "off"
  /\ draining = "off" /\ orphans = "off" /\ call = "off" /\ pings = "off"

MCInit ==
  /\ Init
  /\ \/ part = "switch" /\ PoolOff
     \/ part = "one" /\ One!Init
     \/ part = "two" /\ Two!Init

InSwitch == part = "switch" /\ UNCHANGED <<part, poolVars>>
InPool(p) == part = p /\ UNCHANGED <<part, vars>>

MCNext ==
  \/ InSwitch /\ Next
  \/ InPool("one") /\ One!Next
  \/ InPool("two") /\ Two!Next

\* The fairness of TargetSwitch and of RuntimePool, for the part that runs.
MCFairness ==
  /\ \A s \in Switch :
       /\ WF_mcvars(InSwitch /\ DrainTimeout(s))
       /\ WF_mcvars(InSwitch /\ CommitSwitch(s))
  /\ \A c \in {r1, r2} :
       WF_mcvars(InPool("one") /\ One!CallGoesOn(c))
  /\ WF_mcvars(InPool("one") /\ One!runHalfOpenProbe(0))
  /\ WF_mcvars(InPool("one") /\ One!PingSettles(0))
  /\ WF_mcvars(InPool("two") /\ Two!CallGoesOn(r1))
  /\ \A s \in {0, 1} :
       /\ WF_mcvars(InPool("two") /\ Two!runHalfOpenProbe(s))
       /\ WF_mcvars(InPool("two") /\ Two!PingSettles(s))

MCSpec == MCInit /\ [][MCNext]_mcvars /\ MCFairness

-------------------------------------------------------------------------------
(* Properties *)

\* A request that waited through a switch is given a client of the target it
\* asked for, never the one built for another target (acquireFromPool).
HandedTargetAsked ==
  [][CASE part = "one" -> One!HandedAsAsked
       [] part = "two" -> Two!HandedAsAsked
       [] OTHER -> TRUE]_mcvars

\* Once Redis stays up, a pool always comes back to a slot whose circuit is closed,
\* although the PING of a probe may be rejected however often it is sent
\* (acquireFromPool promoteOldestToHalfOpen, noteSuccess).
PoolRecovers ==
  <>[]up => []<>(\E s \in DOMAIN slot : slot[s].circuit = "closed")
===============================================================================
