----------------------------- MODULE CalcRunView -----------------------------
(***************************************************************************)
(* One of the two calculation slots of a browser tab, per class or total   *)
(* (services/ui/src/context/CalcRunContext.tsx, lib/calcRunState.ts): the  *)
(* snapshot kept in sessionStorage, the POST that fills it, and the        *)
(* recovery that looks a lost calculation up in GET /calc/recent and posts *)
(* its request again.  The two slots share no state, and each is this      *)
(* module.  A calculation is known by the number of its start.             *)
(***************************************************************************)
EXTENDS Integers, FiniteSets

CONSTANTS
    MaxStarts,   \* bound on calculations started in the tab
    MaxLoads     \* bound on page loads after the first

Starts == 1 .. MaxStarts

VARIABLES
    snap,       \* the slot in sessionStorage: [st, run]
    posts,      \* POSTs in flight, by who sent them
    inFlight,   \* perClassInFlight / totalInFlight
    recovery,   \* tryRecover...: [at, run]
    computed,   \* calculations the api has finished
    recent,     \* those of them among the last ten of its ring
    old,        \* calculations started more than RECOVER_MAX_MS ago
    started,    \* calculations started so far
    loads

vars == <<snap, posts, inFlight, recovery, computed, recent, old, started, loads>>

Idle == [st |-> "idle", run |-> 0]
NoRecovery == [at |-> "idle", run |-> 0]
Snap(st, n) == [st |-> st, run |-> n]

Init ==
    /\ snap = Idle /\ posts = {} /\ inFlight = FALSE /\ recovery = NoRecovery
    /\ computed = {} /\ recent = {} /\ old = {} /\ started = 0 /\ loads = 0

(***************************************************************************)
(* The button, and the answer of its POST.                                 *)
(***************************************************************************)
startCalc ==
    /\ snap.st # "running" /\ ~inFlight
    /\ started < MaxStarts
    /\ started' = started + 1
    /\ inFlight' = TRUE
    /\ snap' = Snap("running", started + 1)
    /\ posts' = posts \cup {[by |-> "start", run |-> started + 1]}
    /\ UNCHANGED <<recovery, computed, recent, old, loads>>

\* the api finishes the calculation, asked for once or twice
ApiComputes(p) ==
    /\ p \in posts
    /\ computed' = computed \cup {p.run} /\ recent' = recent \cup {p.run}
    /\ UNCHANGED <<snap, posts, inFlight, recovery, old, started, loads>>

\* the tab is gone, the api computes on
ApiComputesOn(n) ==
    /\ n \in 1 .. started /\ n \notin computed
    /\ computed' = computed \cup {n} /\ recent' = recent \cup {n}
    /\ UNCHANGED <<snap, posts, inFlight, recovery, old, started, loads>>

\* Calculations of other tabs push it out, or a switch empties the ring.
Forgotten(n) ==
    /\ n \in recent /\ recent' = recent \ {n}
    /\ UNCHANGED <<snap, posts, inFlight, recovery, computed, old, started, loads>>

startAnswered(p) ==
    /\ p \in posts /\ p.by = "start"
    /\ posts' = posts \ {p}
    /\ inFlight' = FALSE
    /\ \/ p.run \in computed /\ snap' = Snap("done", p.run)
       \/ snap' = Snap("error", p.run)
    /\ UNCHANGED <<recovery, computed, recent, old, started, loads>>

\* Dismiss, of the total slot only
clearRun ==
    /\ snap.st = "running" /\ snap' = Idle
    /\ UNCHANGED <<posts, inFlight, recovery, computed, recent, old, started, loads>>

(***************************************************************************)
(* The recovery: a tick every two seconds while the slot says "running".   *)
(***************************************************************************)
shouldRecover == snap.st = "running" /\ snap.run \notin old

recentMatches(n) == \E m \in recent : m >= n

Tick ==
    /\ shouldRecover /\ recovery = NoRecovery /\ ~inFlight
    /\ recovery' = [at |-> "recent", run |-> snap.run]
    /\ UNCHANGED <<snap, posts, inFlight, computed, recent, old, started, loads>>

failStaleRun(n) == snap' = Snap("error", n)

RecentAnswered ==
    /\ recovery.at = "recent"
    /\ IF recentMatches(recovery.run)
       THEN /\ recovery' = [recovery EXCEPT !.at = "post"]
            /\ inFlight' = TRUE
            /\ posts' = posts \cup {[by |-> "recover", run |-> recovery.run]}
            /\ UNCHANGED snap
       ELSE /\ recovery' = NoRecovery
            /\ IF recovery.run \in old THEN failStaleRun(recovery.run) ELSE UNCHANGED snap
            /\ UNCHANGED <<inFlight, posts>>
    /\ UNCHANGED <<computed, recent, old, started, loads>>

RecentLost ==
    /\ recovery.at = "recent"
    /\ recovery' = NoRecovery
    /\ UNCHANGED <<snap, posts, inFlight, computed, recent, old, started, loads>>

recoverAnswered(p) ==
    /\ p \in posts /\ p.by = "recover"
    /\ posts' = posts \ {p}
    /\ recovery' = NoRecovery
    /\ inFlight' = FALSE
    /\ \/ p.run \in computed /\ snap' = Snap("done", p.run)
       \/ failStaleRun(p.run)
    /\ UNCHANGED <<computed, recent, old, started, loads>>

(***************************************************************************)
(* Twenty minutes pass; the page is loaded again: the flags of the module  *)
(* and the POSTs are gone, the snapshot is read back.                      *)
(***************************************************************************)
Ages(n) ==
    /\ n \in (1 .. started) \ old
    /\ old' = old \cup 1 .. n
    /\ UNCHANGED <<snap, posts, inFlight, recovery, computed, recent, started, loads>>

PageLoad ==
    /\ loads < MaxLoads
    /\ loads' = loads + 1
    /\ posts' = {} /\ inFlight' = FALSE /\ recovery' = NoRecovery
    /\ UNCHANGED <<snap, computed, recent, old, started>>

Next ==
    \/ startCalc \/ clearRun
    \/ \E p \in posts : ApiComputes(p) \/ startAnswered(p) \/ recoverAnswered(p)
    \/ \E n \in Starts : ApiComputesOn(n) \/ Forgotten(n) \/ Ages(n)
    \/ Tick \/ RecentAnswered \/ RecentLost
    \/ PageLoad

\* the interval runs, the api answers what it is asked
Fairness ==
    /\ WF_vars(Tick) /\ SF_vars(RecentAnswered)
    /\ WF_vars(\E p \in posts : startAnswered(p)) /\ WF_vars(\E p \in posts : recoverAnswered(p))

Spec == Init /\ [][Next]_vars /\ Fairness

(***************************************************************************)
(* Properties                                                              *)
(***************************************************************************)
\* A calculation that ended less than twenty minutes after its start, and stays
\* among the last ten of the api, does not stay "running" on the screen, whatever
\* page loads and lost answers came between (CalcRunContext 4-5, 254-294).
Unshown == snap.st = "running" /\ snap.run \in recent \ old
=============================================================================
