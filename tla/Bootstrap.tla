------------------------------- MODULE Bootstrap -------------------------------
(***************************************************************************)
(* The background bootstrap of a target (services/api/src/bootstrap-       *)
(* status.ts): every switch, and every query that finds no index, schedules *)
(* one; the phase it publishes is paired with the flag behind /readyz      *)
(* (server.ts).  The admin routes flush-db and rebuild-indexes run the     *)
(* same bootstrap on their own and write the same phase                    *)
(* (routes/admin.ts); so does the boot (index.ts), before anything else.   *)
(*                                                                         *)
(* bootstrapFrtb itself is one step that leaves the index on its Redis; a  *)
(* target stands for its label and its client.                             *)
(***************************************************************************)
EXTENDS Naturals, FiniteSets

CONSTANTS
  Target,      \* targets an operator may activate
  NoTarget,
  Heal,        \* bound: self-heals
  Admin,       \* admin requests: "flush", "rebuild"
  Environment, \* the surroundings to consider
  MaxSwitch    \* bound: commits of a switch

\* The self-heals and admin requests that may come, and bounds on the commits of
\* a switch and on the FLUSHDBs by a stranger.
EnvironmentType ==
  [heal : SUBSET Heal, admin : SUBSET Admin, switches : 0..MaxSwitch, wipes : Nat]

ASSUME BootstrapAssumption ==
  /\ NoTarget \notin Target
  /\ IsFiniteSet(Heal) /\ Admin \subseteq {"flush", "rebuild"}
  /\ Environment \subseteq EnvironmentType
  /\ MaxSwitch \in Nat

VARIABLES
  env,         \* the surroundings, the same for ever
  active,      \* the active target
  index,       \* targets that have idx:sens
  status,      \* phase and label of the snapshot
  readyz,      \* bootstrapStatus.ok
  generation,
  timer,       \* debounceTimer
  run,         \* scheduled runs, by generation
  heal,        \* self-heals: the target captured before the DEL
  admin,       \* admin requests: the target captured when they arrive
  switches,    \* commits of a switch so far
  wipes,       \* FLUSHDBs by a stranger so far
  wiped        \* history: the active target was wiped since its activation

work == <<run, heal, admin>>
vars == <<env, active, index, status, readyz, generation, timer, work, switches, wipes, wiped>>

MaxGen == 2 + MaxSwitch + Cardinality(Heal) + 1
Gen == 1..MaxGen
Phase == {"idle", "running", "ready", "partial", "failed"}
Outcome == {"ready", "partial", "failed"}

NoTimer == [gen |-> 0, t |-> NoTarget]
Nothing == [at |-> "none", t |-> NoTarget]

Says(p, t) == status' = [phase |-> p, label |-> t]

\* Boot without a target, with one that is not reached, or with one that is; in
\* the last two cases a scheduled run follows unless the boot was "ready".
Init ==
  /\ env \in Environment
  /\ switches = 0 /\ wipes = 0 /\ wiped = FALSE
  /\ run = [g \in Gen |-> Nothing]
  /\ heal = [h \in Heal |-> Nothing] /\ admin = [a \in Admin |-> Nothing]
  /\ \/ /\ active = NoTarget /\ index = {}
        /\ status = [phase |-> "idle", label |-> NoTarget] /\ readyz = FALSE
        /\ generation = 0 /\ timer = NoTimer
     \/ /\ active \in Target /\ index = {active}
        /\ status = [phase |-> "ready", label |-> active] /\ readyz = TRUE
        /\ generation = 1 /\ timer = NoTimer
     \/ /\ active \in Target /\ index = {} /\ readyz = FALSE
        /\ status = [phase |-> "running", label |-> active]
        /\ generation \in {1, 2} /\ timer = [gen |-> generation, t |-> active]

-------------------------------------------------------------------------------
(* scheduleBootstrap *)

Schedule(t) ==
  /\ generation' = generation + 1
  /\ Says("running", t)
  /\ timer' = [gen |-> generation', t |-> t]

\* The listener of commitActiveTargetSync schedules with force.
Activate(t) ==
  /\ switches < env.switches /\ switches' = switches + 1
  /\ active' = t /\ wiped' = FALSE
  /\ Schedule(t)
  /\ UNCHANGED <<env, index, readyz, work, wipes>>

TimerFires ==
  /\ timer # NoTimer
  /\ timer' = NoTimer
  /\ run' = IF timer.gen = generation
            THEN [run EXCEPT ![generation] = [at |-> "running", t |-> timer.t]] ELSE run
  /\ UNCHANGED <<env, active, index, status, readyz, generation, heal, admin, switches, wipes, wiped>>

\* bootstrapFrtb has found or made the index; its promise is still to settle.
RunBuilds(g) ==
  /\ run[g].at \in {"running", "expired"}
  /\ index' = index \cup {run[g].t}
  /\ run' = [run EXCEPT ![g] = IF @.at = "running" THEN [@ EXCEPT !.at = "built"] ELSE Nothing]
  /\ UNCHANGED <<env, active, status, readyz, generation, timer, heal, admin, switches, wipes, wiped>>

\* Mutant: an older attempt writes its result too.
Publish_NoGate(g, o) == Says(o, run[g].t) /\ readyz' = (o = "ready")

\* The phase and the flag, unless a newer attempt has taken over.
Publish(g, o) ==
  IF g = generation
  THEN Says(o, run[g].t) /\ readyz' = (o = "ready")
  ELSE UNCHANGED <<status, readyz>>

RunSettles(g, o) ==
  /\ run[g].at = IF o = "ready" THEN "built" ELSE "running"
  /\ Publish(g, o)
  /\ run' = [run EXCEPT ![g] = Nothing]
  /\ UNCHANGED <<env, active, index, generation, timer, heal, admin, switches, wipes, wiped>>

\* Mutant: no bound on the runner.
RunExpires_Never(g) == FALSE /\ UNCHANGED vars

\* withBootTimeout gives up; the runner works on, and nobody reads its result.
RunExpires(g) ==
  /\ run[g].at \in {"running", "built"}
  /\ Publish(g, "failed")
  /\ run' = [run EXCEPT ![g] = IF @.at = "running" THEN [@ EXCEPT !.at = "expired"] ELSE Nothing]
  /\ UNCHANGED <<env, active, index, generation, timer, heal, admin, switches, wipes, wiped>>

\* A runner that expired may also fail.
ExpiredFails(g) ==
  /\ run[g].at = "expired"
  /\ run' = [run EXCEPT ![g] = Nothing]
  /\ UNCHANGED <<env, active, index, status, readyz, generation, timer, heal, admin,
                 switches, wipes, wiped>>

-------------------------------------------------------------------------------
(* FLUSHDB behind the api's back, and triggerBootstrapSelfHeal *)

Wipe(t) ==
  /\ t \in index /\ wipes < env.wipes /\ wipes' = wipes + 1
  /\ index' = index \ {t}
  /\ wiped' = (wiped \/ t = active)
  /\ UNCHANGED <<env, active, status, readyz, generation, timer, work, switches>>

\* A query finds no index: "ready" is dropped, the callback takes the active
\* target and deletes its schema hash.
triggerBootstrapSelfHeal(h) ==
  /\ h \in env.heal /\ heal[h] = Nothing
  /\ active # NoTarget /\ active \notin index
  /\ status' = IF status.phase = "ready" THEN [phase |-> "idle", label |-> NoTarget] ELSE status
  /\ heal' = [heal EXCEPT ![h] = [at |-> "deleting", t |-> active]]
  /\ UNCHANGED <<env, active, index, readyz, generation, timer, run, admin, switches, wipes, wiped>>

HealSchedules(h) ==
  /\ heal[h].at = "deleting"
  /\ Schedule(heal[h].t)
  /\ heal' = [heal EXCEPT ![h].at = "none"]
  /\ UNCHANGED <<env, active, index, readyz, run, admin, switches, wipes, wiped>>

-------------------------------------------------------------------------------
(* POST /admin/flush-db and /admin/rebuild-indexes *)

AdminRequest(a) ==
  /\ a \in env.admin /\ admin[a] = Nothing /\ active # NoTarget
  /\ admin' = [admin EXCEPT ![a] = [at |-> IF a = "flush" THEN "flushing" ELSE "building",
                                    t |-> active]]
  /\ UNCHANGED <<env, active, index, status, readyz, generation, timer, run, heal,
                 switches, wipes, wiped>>

\* FLUSHDB answered: markBootstrapStatusRunning.
Flushed(a) ==
  /\ admin[a].at = "flushing"
  /\ index' = index \ {admin[a].t}
  /\ generation' = generation + 1
  /\ Says("running", admin[a].t)
  /\ admin' = [admin EXCEPT ![a].at = "building"]
  /\ UNCHANGED <<env, active, readyz, timer, run, heal, switches, wipes, wiped>>

\* The result goes to the phase as it is; /readyz is not told.
AdminEnds(a, o) ==
  /\ admin[a].at = "building"
  /\ index' = IF o = "ready" THEN index \cup {admin[a].t} ELSE index
  /\ Says(o, admin[a].t)
  /\ admin' = [admin EXCEPT ![a].at = "none"]
  /\ UNCHANGED <<env, active, readyz, generation, timer, run, heal, switches, wipes, wiped>>

-------------------------------------------------------------------------------
RunStep(g) ==
  RunBuilds(g) \/ RunExpires(g) \/ ExpiredFails(g) \/ \E o \in Outcome : RunSettles(g, o)

AdminStep(a) == AdminRequest(a) \/ Flushed(a) \/ \E o \in Outcome : AdminEnds(a, o)

Next ==
  \/ \E t \in Target : Activate(t) \/ Wipe(t)
  \/ TimerFires
  \/ \E g \in Gen : RunStep(g)
  \/ \E h \in Heal : triggerBootstrapSelfHeal(h) \/ HealSchedules(h)
  \/ \E a \in Admin : AdminStep(a)

\* Timers fire and a DEL is answered or times out; a runner may hang for ever.
Fairness ==
  /\ WF_vars(TimerFires)
  /\ WF_vars(\E g \in Gen : RunExpires(g))
  /\ WF_vars(\E g \in Gen : RunSettles(g, "ready"))
  /\ WF_vars(\E h \in Heal : HealSchedules(h))

Spec == Init /\ [][Next]_vars /\ Fairness

-------------------------------------------------------------------------------
(* Properties *)

TypeOK ==
  /\ env \in Environment
  /\ active \in Target \cup {NoTarget} /\ index \subseteq Target
  /\ status \in [phase : Phase, label : Target \cup {NoTarget}]
  /\ readyz \in BOOLEAN /\ wiped \in BOOLEAN
  /\ generation \in 0..MaxGen
  /\ timer \in [gen : 0..MaxGen, t : Target \cup {NoTarget}]
  /\ run \in [Gen -> [at : {"none", "running", "built", "expired"}, t : Target \cup {NoTarget}]]
  /\ heal \in [Heal -> [at : {"none", "deleting"}, t : Target \cup {NoTarget}]]
  /\ admin \in [Admin -> [at : {"none", "flushing", "building"}, t : Target \cup {NoTarget}]]
  /\ \A h \in Heal : heal[h].at # "none" => heal[h].t \in Target
  /\ switches \in 0..env.switches /\ wipes \in 0..env.wipes

\* No admin request and no self-heal: both write about the target they captured.
Undisturbed == env.admin = {} /\ env.heal = {}

\* "a switch mid-run cancels the in-flight": the phase is about the active target,
\* no result of an earlier one shows.
StatusOfTarget == Undisturbed /\ status.phase # "idle" => status.label = active

\* Activation verifies the index, also of a target believed ready: "ready" on a
\* target without index takes a wipe after the activation.
ReadyMeansIndexed == Undisturbed /\ status.phase = "ready" => active \in index \/ wiped

\* What /bootstrap/status says of a target is said of the active one, and
\* "ready" only of a target with its indexes, when neither a self-heal nor an
\* admin route interferes (bootstrap.ts).
StatusIsTrue == StatusOfTarget /\ ReadyMeansIndexed

\* "auto-bootstrap on every active-target change": at rest, the last result is
\* that of the active target.
ActiveTargetBootstrapped ==
  /\ timer = NoTimer /\ \A h \in Heal : heal[h].at = "none"
  /\ status.phase \in Outcome
  => status.label = active
===============================================================================
