------------------------------ MODULE RunsProofs ------------------------------
(* What holds of the runs that somebody watches: the bootstrap status for  *)
(* any number of targets, switches, self-heals and admin requests, the     *)
(* view of a generator run, and the record of an uploaded source.          *)
EXTENDS Bootstrap, GeneratorView, SourceUpload, FiniteSetTheorems, TLAPS

\* A step is one of these actions: the frame of the proofs by cases below.
LEMMA NextCases ==
  ASSUME [Next]_vars
  PROVE  \/ \E t \in Target : Activate(t)
         \/ \E t \in Target : Wipe(t)
         \/ TimerFires
         \/ \E g \in Gen : RunBuilds(g)
         \/ \E g \in Gen : RunExpires(g)
         \/ \E g \in Gen : ExpiredFails(g)
         \/ \E g \in Gen, o \in Outcome : RunSettles(g, o)
         \/ \E h \in Heal : triggerBootstrapSelfHeal(h)
         \/ \E h \in Heal : HealSchedules(h)
         \/ \E a \in Admin : AdminRequest(a)
         \/ \E a \in Admin : Flushed(a)
         \/ \E a \in Admin, o \in Outcome : AdminEnds(a, o)
         \/ UNCHANGED vars
  BY DEF Next, RunStep, AdminStep

-------------------------------------------------------------------------------
(* Every attempt has a generation of its own, and there are at most MaxGen *)

\* A self-heal schedules once; so does a flush.
Healed == {h \in Heal : heal[h].at = "none" /\ heal[h].t # NoTarget}
FlushScheduled == \E a \in Admin : a = "flush" /\ admin[a] # Nothing /\ admin[a].at # "flushing"

\* TypeOK without the bound on the generations that it states.
Types ==
  /\ env \in Environment
  /\ active \in Target \cup {NoTarget} /\ index \subseteq Target
  /\ status \in [phase : Phase, label : Target \cup {NoTarget}]
  /\ readyz \in BOOLEAN /\ wiped \in BOOLEAN
  /\ timer \in [gen : Nat, t : Target \cup {NoTarget}]
  /\ run \in [Gen -> [at : {"none", "running", "built", "expired"}, t : Target \cup {NoTarget}]]
  /\ heal \in [Heal -> [at : {"none", "deleting"}, t : Target \cup {NoTarget}]]
  /\ admin \in [Admin -> [at : {"none", "flushing", "building"}, t : Target \cup {NoTarget}]]
  /\ \A h \in Heal : heal[h].at # "none" => heal[h].t \in Target
  /\ switches \in 0..env.switches /\ wipes \in 0..env.wipes

\* The generation counts the boots, the switches, the self-heals and the flush.
GenerationCounts ==
  /\ generation \in Nat /\ timer.gen <= generation
  /\ generation <= 2 + switches + Cardinality(Healed) + (IF FlushScheduled THEN 1 ELSE 0)
  /\ \A a \in Admin : admin[a].at = "flushing" => a = "flush"

\* What is under way has a target: the one that was active when it began.
Captured ==
  /\ timer # NoTimer => timer.t \in Target
  /\ \A g \in Gen : run[g].at # "none" => run[g].t \in Target
  /\ \A a \in Admin : admin[a].at # "none" => admin[a].t \in Target

\* What the environment may do: the parts of env have their types.
LEMMA EnvType ==
  ASSUME env \in Environment
  PROVE  /\ env.heal \subseteq Heal /\ env.admin \subseteq Admin
         /\ env.switches \in Nat /\ env.switches <= MaxSwitch /\ env.wipes \in Nat
  BY BootstrapAssumption DEF EnvironmentType

\* The bound on generations is a number.
LEMMA MaxGenType == MaxGen \in Nat /\ MaxGen >= 3 /\ Cardinality(Heal) \in Nat
  BY BootstrapAssumption, FS_CardinalityType DEF MaxGen

\* The bound that TypeOK states follows from the count.
LEMMA CountsBound ==
  ASSUME Types, GenerationCounts
  PROVE  generation \in 0..MaxGen /\ TypeOK
<1>1. IsFiniteSet(Heal) /\ Healed \subseteq Heal
  BY BootstrapAssumption DEF Healed
<1>2. /\ IsFiniteSet(Healed) /\ Cardinality(Healed) <= Cardinality(Heal)
      /\ Cardinality(Healed) \in Nat /\ Cardinality(Heal) \in Nat
  BY <1>1, FS_Subset, FS_CardinalityType
<1>3. switches \in Nat /\ switches <= MaxSwitch /\ MaxSwitch \in Nat
  BY EnvType, BootstrapAssumption DEF Types
<1>4. generation <= MaxGen
  BY <1>2, <1>3 DEF GenerationCounts, MaxGen
<1>5. timer \in [gen : 0..MaxGen, t : Target \cup {NoTarget}]
  BY <1>4, MaxGenType DEF Types, GenerationCounts
<1> QED
  BY <1>4, <1>5, MaxGenType DEF Types, GenerationCounts, TypeOK

\* No step of the bootstrap leaves the types.
LEMMA TypesStep ==
  ASSUME Types, Captured, GenerationCounts, [Next]_vars
  PROVE  Types'
<1> USE DEF Types, Says
<1>1. ASSUME NEW t \in Target, Activate(t) PROVE Types'
  <2>1. switches' \in 0..env.switches
    BY <1>1, EnvType DEF Activate
  <2>2. timer' \in [gen : Nat, t : Target \cup {NoTarget}]
    BY <1>1 DEF Activate, Schedule, GenerationCounts
  <2>3. status' \in [phase : Phase, label : Target \cup {NoTarget}]
    BY <1>1 DEF Activate, Schedule, Phase
  <2> QED
    BY <1>1, <2>1, <2>2, <2>3 DEF Activate, work
<1>2. ASSUME NEW t \in Target, Wipe(t) PROVE Types'
  <2>1. wipes' \in 0..env.wipes
    BY <1>2, EnvType DEF Wipe
  <2> QED
    BY <1>2, <2>1 DEF Wipe, work
<1>3. CASE TimerFires
  BY <1>3 DEF TimerFires, NoTimer
<1>4. ASSUME NEW g \in Gen, RunBuilds(g) PROVE Types'
  <2>1. run[g].t \in Target
    BY <1>4 DEF RunBuilds, Captured
  <2> QED
    BY <1>4, <2>1 DEF RunBuilds, Nothing
<1>5. ASSUME NEW g \in Gen, NEW o \in Outcome, Publish(g, o)
      PROVE  status' \in [phase : Phase, label : Target \cup {NoTarget}] /\ readyz' \in BOOLEAN
  <2>1. run[g].t \in Target \cup {NoTarget} /\ o \in Phase
    BY DEF Phase, Outcome
  <2>2. CASE g = generation
    <3>1. readyz' = (o = "ready")
      BY <1>5, <2>2 DEF Publish
    <3>2. (o = "ready") \in BOOLEAN
      OBVIOUS
    <3>3. readyz' \in BOOLEAN
      BY <3>1, <3>2, Zenon
    <3>4. status' \in [phase : Phase, label : Target \cup {NoTarget}]
      BY <1>5, <2>1, <2>2 DEF Publish
    <3> QED
      BY <3>3, <3>4
  <2>3. CASE g # generation
    BY <1>5, <2>3 DEF Publish
  <2> QED
    BY <2>2, <2>3
<1>6. ASSUME NEW g \in Gen, RunExpires(g) PROVE Types'
  BY <1>5, <1>6 DEF RunExpires, Nothing, Outcome
<1>7. ASSUME NEW g \in Gen, ExpiredFails(g) PROVE Types'
  BY <1>7 DEF ExpiredFails, Nothing
<1>8. ASSUME NEW g \in Gen, NEW o \in Outcome, RunSettles(g, o) PROVE Types'
  BY <1>5, <1>8 DEF RunSettles, Nothing
<1>9. ASSUME NEW h \in Heal, triggerBootstrapSelfHeal(h) PROVE Types'
  BY <1>9 DEF triggerBootstrapSelfHeal, Phase
<1>10. ASSUME NEW h \in Heal, HealSchedules(h) PROVE Types'
  BY <1>10 DEF HealSchedules, Schedule, Phase, GenerationCounts
<1>11. ASSUME NEW a \in Admin, AdminRequest(a) PROVE Types'
  BY <1>11 DEF AdminRequest
<1>12. ASSUME NEW a \in Admin, Flushed(a) PROVE Types'
  BY <1>12 DEF Flushed, Phase
<1>13. ASSUME NEW a \in Admin, NEW o \in Outcome, AdminEnds(a, o) PROVE Types'
  <2>1. admin[a].t \in Target
    BY <1>13 DEF AdminEnds, Captured
  <2> QED
    BY <1>13, <2>1 DEF AdminEnds, Phase, Outcome
<1>14. CASE UNCHANGED vars
  BY <1>14 DEF vars, work
<1> QED
  BY <1>1, <1>2, <1>3, <1>4, <1>6, <1>7, <1>8, <1>9, <1>10, <1>11, <1>12, <1>13, <1>14, NextCases

\* What is under way was captured from the active target, which is one.
LEMMA CapturedStep ==
  ASSUME Types, Captured, GenerationCounts, [Next]_vars
  PROVE  Captured'
<1> USE DEF Types, Captured
<1>1. ASSUME NEW t \in Target, Activate(t) PROVE Captured'
  BY <1>1 DEF Activate, Schedule, work
<1>2. ASSUME NEW t \in Target, Wipe(t) PROVE Captured'
  BY <1>2 DEF Wipe, work
<1>3. CASE TimerFires
  BY <1>3 DEF TimerFires
<1>4. ASSUME NEW g \in Gen, RunBuilds(g) PROVE Captured'
  BY <1>4 DEF RunBuilds, Nothing
<1>5. ASSUME NEW g \in Gen, RunExpires(g) PROVE Captured'
  BY <1>5 DEF RunExpires, Nothing
<1>6. ASSUME NEW g \in Gen, ExpiredFails(g) PROVE Captured'
  BY <1>6 DEF ExpiredFails, Nothing
<1>7. ASSUME NEW g \in Gen, NEW o \in Outcome, RunSettles(g, o) PROVE Captured'
  BY <1>7 DEF RunSettles, Nothing
<1>8. ASSUME NEW h \in Heal, triggerBootstrapSelfHeal(h) PROVE Captured'
  BY <1>8 DEF triggerBootstrapSelfHeal
<1>9. ASSUME NEW h \in Heal, HealSchedules(h) PROVE Captured'
  BY <1>9 DEF HealSchedules, Schedule
<1>10. ASSUME NEW a \in Admin, AdminRequest(a) PROVE Captured'
  BY <1>10 DEF AdminRequest
<1>11. ASSUME NEW a \in Admin, Flushed(a) PROVE Captured'
  BY <1>11 DEF Flushed
<1>12. ASSUME NEW a \in Admin, NEW o \in Outcome, AdminEnds(a, o) PROVE Captured'
  BY <1>12 DEF AdminEnds
<1>13. CASE UNCHANGED vars
  BY <1>13 DEF vars, work
<1> QED
  BY <1>1, <1>2, <1>3, <1>4, <1>5, <1>6, <1>7, <1>8, <1>9, <1>10, <1>11, <1>12, <1>13, NextCases

\* Each attempt is counted once: a self-heal that has scheduled never schedules
\* again, and neither does a flush.
LEMMA CountsStep ==
  ASSUME Types, Captured, GenerationCounts, [Next]_vars
  PROVE  GenerationCounts'
<1> USE DEF Types, GenerationCounts
<1> DEFINE Flush == IF FlushScheduled THEN 1 ELSE 0
<1>1. IsFiniteSet(Healed) /\ Cardinality(Healed) \in Nat
  BY BootstrapAssumption, FS_Subset, FS_CardinalityType DEF Healed
<1>2. switches \in Nat
  BY EnvType
<1>3. ASSUME UNCHANGED <<heal, admin>> PROVE Healed' = Healed /\ Flush' = Flush
  BY <1>3 DEF Healed, FlushScheduled
<1>4. ASSUME NEW t \in Target, Activate(t) PROVE GenerationCounts'
  <2>1. /\ generation' = generation + 1 /\ switches' = switches + 1
        /\ timer'.gen = generation' /\ UNCHANGED <<heal, admin>>
    BY <1>4 DEF Activate, Schedule, work
  <2> QED
    BY <1>1, <1>2, <1>3, <2>1
<1>5. ASSUME UNCHANGED <<generation, timer, switches, heal, admin>> PROVE GenerationCounts'
  BY <1>3, <1>5
<1>6. CASE TimerFires
  <2>1. UNCHANGED <<generation, switches, heal, admin>> /\ timer'.gen = 0
    BY <1>6 DEF TimerFires, NoTimer
  <2> QED
    BY <1>3, <2>1
<1>7. ASSUME NEW h \in Heal, triggerBootstrapSelfHeal(h) PROVE GenerationCounts'
  <2>1. Healed' = Healed
    BY <1>7 DEF triggerBootstrapSelfHeal, Healed, Nothing
  <2>2. Flush' = Flush
    BY <1>7 DEF triggerBootstrapSelfHeal, FlushScheduled
  <2> QED
    BY <1>7, <2>1, <2>2 DEF triggerBootstrapSelfHeal
<1>8. ASSUME NEW h \in Heal, HealSchedules(h) PROVE GenerationCounts'
  <2>1. Healed' = Healed \cup {h} /\ h \notin Healed
    BY <1>8, BootstrapAssumption DEF HealSchedules, Healed
  <2>2. Cardinality(Healed') = Cardinality(Healed) + 1
    BY <1>1, <2>1, FS_AddElement
  <2>3. Flush' = Flush
    BY <1>8 DEF HealSchedules, FlushScheduled
  <2>4. /\ generation' = generation + 1 /\ timer'.gen = generation'
        /\ UNCHANGED <<switches, admin>>
    BY <1>8 DEF HealSchedules, Schedule
  <2> QED
    BY <1>1, <1>2, <2>2, <2>3, <2>4
<1>9. ASSUME NEW a \in Admin, AdminRequest(a) PROVE GenerationCounts'
  <2>1. a \in {"flush", "rebuild"}
    BY BootstrapAssumption
  <2>2. /\ UNCHANGED <<generation, timer, switches, heal>>
        /\ admin' = [admin EXCEPT ![a] = [at |-> IF a = "flush" THEN "flushing" ELSE "building",
                                          t |-> active]]
    BY <1>9 DEF AdminRequest
  <2>3. FlushScheduled => FlushScheduled'
    BY <1>9, <2>2 DEF AdminRequest, FlushScheduled
  <2>4. Healed' = Healed
    BY <2>2 DEF Healed
  <2>5. \A b \in Admin : admin'[b].at = "flushing" => b = "flush"
    BY <2>1, <2>2
  <2> QED
    BY <1>1, <1>2, <2>2, <2>3, <2>4, <2>5
<1>10. ASSUME NEW a \in Admin, Flushed(a) PROVE GenerationCounts'
  <2>1. a = "flush" /\ admin[a].at = "flushing"
    BY <1>10 DEF Flushed
  <2>2. ~FlushScheduled /\ FlushScheduled'
    <3>1. admin'[a].at = "building"
      BY <1>10 DEF Flushed
    <3> QED
      BY <2>1, <3>1 DEF FlushScheduled, Nothing
  <2>3. UNCHANGED <<timer, switches, heal>> /\ generation' = generation + 1
    BY <1>10 DEF Flushed
  <2>4. Healed' = Healed
    BY <2>3 DEF Healed
  <2>5. \A b \in Admin : admin'[b].at = "flushing" => b = "flush"
    BY <1>10 DEF Flushed
  <2> QED
    BY <1>1, <1>2, <2>2, <2>3, <2>4, <2>5
<1>11. ASSUME NEW a \in Admin, NEW o \in Outcome, AdminEnds(a, o) PROVE GenerationCounts'
  <2>1. UNCHANGED <<generation, timer, switches, heal>>
        /\ admin' = [admin EXCEPT ![a].at = "none"] /\ admin[a].at = "building"
    BY <1>11 DEF AdminEnds
  <2>2. Healed' = Healed
    BY <2>1 DEF Healed
  <2>3. FlushScheduled => FlushScheduled'
    <3>1. admin[a].t \in Target
      BY <2>1 DEF Captured
    <3>2. admin'[a] # Nothing /\ admin'[a].at # "flushing"
      BY <2>1, <3>1, BootstrapAssumption DEF Nothing
    <3>3. \A b \in Admin : b # a => admin'[b] = admin[b]
      BY <2>1
    <3> QED
      BY <3>2, <3>3 DEF FlushScheduled
  <2>4. \A b \in Admin : admin'[b].at = "flushing" => b = "flush"
    BY <2>1
  <2> QED
    BY <1>1, <1>2, <2>1, <2>2, <2>3, <2>4
<1> QED
  BY <1>4, <1>5, <1>6, <1>7, <1>8, <1>9, <1>10, <1>11, NextCases
     DEF Wipe, RunBuilds, RunExpires, ExpiredFails, RunSettles, vars, work

\* Every variable of the bootstrap keeps its type; in particular the generations
\* drawn by boots, switches, self-heals and a flush never exceed MaxGen, so that
\* every scheduled run has a slot of its own.
THEOREM TypeCorrect == Spec => []TypeOK
<1>1. Init => Types /\ Captured /\ GenerationCounts
  <2> SUFFICES ASSUME Init PROVE Types /\ Captured /\ GenerationCounts
    OBVIOUS
  <2>1. Types
    <3>1. Nothing \in [at : {"none"}, t : {NoTarget}]
      BY DEF Nothing
    <3>2. switches \in 0..env.switches /\ wipes \in 0..env.wipes
      BY EnvType DEF Init
    <3>3. /\ run \in [Gen -> [at : {"none", "running", "built", "expired"}, t : Target \cup {NoTarget}]]
          /\ heal \in [Heal -> [at : {"none", "deleting"}, t : Target \cup {NoTarget}]]
          /\ admin \in [Admin -> [at : {"none", "flushing", "building"}, t : Target \cup {NoTarget}]]
          /\ \A h \in Heal : heal[h].at = "none"
      BY <3>1 DEF Init
    <3>4. /\ active \in Target \cup {NoTarget} /\ index \subseteq Target
          /\ status \in [phase : Phase, label : Target \cup {NoTarget}]
          /\ timer \in [gen : Nat, t : Target \cup {NoTarget}]
      BY DEF Init, Phase, NoTimer
    <3>5. readyz \in BOOLEAN /\ wiped \in BOOLEAN
      BY DEF Init
    <3> QED
      BY <3>2, <3>3, <3>4, <3>5 DEF Init, Types
  <2>2. Captured
    BY DEF Init, Captured, Nothing, NoTimer
  <2>3. Healed = {} /\ Cardinality(Healed) = 0
    BY FS_EmptySet DEF Init, Healed, Nothing
  <2>4. generation \in Nat /\ generation <= 2 /\ timer.gen <= generation /\ switches = 0
    BY DEF Init, NoTimer
  <2>5. \A a \in Admin : admin[a].at = "none"
    BY DEF Init, Nothing
  <2> QED
    BY <2>1, <2>2, <2>3, <2>4, <2>5 DEF GenerationCounts
<1>2. Types /\ Captured /\ GenerationCounts /\ [Next]_vars => (Types /\ Captured /\ GenerationCounts)'
  BY TypesStep, CapturedStep, CountsStep
<1>3. Types /\ Captured /\ GenerationCounts => TypeOK
  BY CountsBound
<1> QED
  BY <1>1, <1>2, <1>3, PTL DEF Spec

-------------------------------------------------------------------------------
(* The status is of the active target *)

\* Only the newest attempt may write the status, and it is one for the active
\* target: the attempts a switch left behind hold an older generation.
NewestIsActive ==
  /\ \A h \in Heal : heal[h].at = "none"
  /\ \A a \in Admin : admin[a].at = "none"
  /\ timer # NoTimer /\ timer.gen = generation => timer.t = active
  /\ \A g \in Gen : g > generation => run[g].at = "none"
  /\ \A g \in Gen : g = generation /\ run[g].at # "none" => run[g].t = active

\* A runner that has done its work leaves its target with an index, unless a
\* stranger wiped it since the activation.
BuiltMeansIndexed ==
  \A g \in Gen : g = generation /\ run[g].at = "built" => active \in index \/ wiped

StatusInv == Undisturbed => NewestIsActive /\ BuiltMeansIndexed /\ StatusIsTrue

\* Every step leaves the newest attempt one for the active target.
LEMMA NewestStep ==
  ASSUME TypeOK, Undisturbed, NewestIsActive, [Next]_vars
  PROVE  NewestIsActive'
<1> USE DEF TypeOK, NewestIsActive
<1>1. ASSUME NEW t \in Target, Activate(t) PROVE NewestIsActive'
  BY <1>1 DEF Activate, Schedule, work, Gen
<1>2. ASSUME NEW t \in Target, Wipe(t) PROVE NewestIsActive'
  BY <1>2 DEF Wipe, work
<1>3. CASE TimerFires
  BY <1>3 DEF TimerFires, Gen
<1>4. ASSUME NEW g \in Gen, RunBuilds(g) \/ RunExpires(g) \/ ExpiredFails(g)
                              \/ \E o \in Outcome : RunSettles(g, o)
      PROVE  NewestIsActive'
  <2>1. UNCHANGED <<active, generation, timer, heal, admin>>
    BY <1>4 DEF RunBuilds, RunExpires, ExpiredFails, RunSettles
  <2>2. /\ run[g].at # "none"
        /\ \A f \in Gen : f # g => run'[f] = run[f]
        /\ run'[g].at # "none" => run'[g].t = run[g].t
    BY <1>4 DEF RunBuilds, RunExpires, ExpiredFails, RunSettles, Nothing
  <2> QED
    BY <2>1, <2>2
<1>5. ASSUME NEW h \in Heal, triggerBootstrapSelfHeal(h) \/ HealSchedules(h) PROVE FALSE
  BY <1>5 DEF triggerBootstrapSelfHeal, HealSchedules, Undisturbed
<1>6. ASSUME NEW a \in Admin,
             AdminRequest(a) \/ Flushed(a) \/ \E o \in Outcome : AdminEnds(a, o)
      PROVE  FALSE
  BY <1>6 DEF AdminRequest, Flushed, AdminEnds, Undisturbed
<1>7. CASE UNCHANGED vars
  BY <1>7 DEF vars, work
<1> QED
  BY <1>1, <1>2, <1>3, <1>4, <1>5, <1>6, <1>7, NextCases

\* Every step leaves a built index in place, and the status true of the target.
LEMMA BuiltStep ==
  ASSUME TypeOK, Undisturbed, NewestIsActive, BuiltMeansIndexed, StatusIsTrue, [Next]_vars
  PROVE  BuiltMeansIndexed' /\ StatusIsTrue'
<1> USE DEF TypeOK, NewestIsActive, BuiltMeansIndexed, StatusIsTrue, StatusOfTarget,
            ReadyMeansIndexed
<1>1. ASSUME NEW t \in Target, Activate(t) PROVE BuiltMeansIndexed' /\ StatusIsTrue'
  BY <1>1 DEF Activate, Schedule, Says, work, Gen
<1>2. ASSUME NEW t \in Target, Wipe(t) PROVE BuiltMeansIndexed' /\ StatusIsTrue'
  BY <1>2 DEF Wipe, work
<1>3. CASE TimerFires
  BY <1>3 DEF TimerFires, Gen
<1>4. ASSUME NEW g \in Gen, RunBuilds(g) PROVE BuiltMeansIndexed' /\ StatusIsTrue'
  BY <1>4 DEF RunBuilds, Nothing
<1>5. ASSUME NEW g \in Gen, NEW o \in Outcome, Publish(g, o), run[g].at # "none",
             o = "ready" => run[g].at = "built",
             run'[g].at # "built", \A f \in Gen : f # g => run'[f] = run[f],
             UNCHANGED <<env, active, index, wiped, generation>>
      PROVE  BuiltMeansIndexed' /\ StatusIsTrue'
  <2>1. BuiltMeansIndexed'
    BY <1>5
  <2>2. CASE g = generation
    <3>1. status' = [phase |-> o, label |-> active]
      BY <1>5, <2>2 DEF Publish, Says
    <3>2. o = "ready" => active \in index \/ wiped
      BY <1>5, <2>2
    <3> QED
      BY <1>5, <2>1, <3>1, <3>2
  <2>3. CASE g # generation
    BY <1>5, <2>1, <2>3 DEF Publish, Undisturbed
  <2> QED
    BY <2>2, <2>3
<1>6. ASSUME NEW g \in Gen, RunExpires(g) PROVE BuiltMeansIndexed' /\ StatusIsTrue'
  BY <1>5, <1>6 DEF RunExpires, Nothing, Outcome
<1>7. ASSUME NEW g \in Gen, NEW o \in Outcome, RunSettles(g, o)
      PROVE  BuiltMeansIndexed' /\ StatusIsTrue'
  BY <1>5, <1>7 DEF RunSettles, Nothing
<1>8. ASSUME NEW g \in Gen, ExpiredFails(g) PROVE BuiltMeansIndexed' /\ StatusIsTrue'
  BY <1>8 DEF ExpiredFails, Nothing, Undisturbed
<1>9. ASSUME NEW h \in Heal, triggerBootstrapSelfHeal(h) \/ HealSchedules(h) PROVE FALSE
  BY <1>9 DEF triggerBootstrapSelfHeal, HealSchedules, Undisturbed
<1>10. ASSUME NEW a \in Admin,
              AdminRequest(a) \/ Flushed(a) \/ \E o \in Outcome : AdminEnds(a, o)
       PROVE  FALSE
  BY <1>10 DEF AdminRequest, Flushed, AdminEnds, Undisturbed
<1>11. CASE UNCHANGED vars
  BY <1>11 DEF vars, work, Undisturbed
<1> QED
  BY <1>1, <1>2, <1>3, <1>4, <1>6, <1>7, <1>8, <1>9, <1>10, <1>11, NextCases

\* However switches overlap the bootstraps they start, and however long a
\* runner hangs, /bootstrap/status speaks of the active target, and says "ready"
\* only of one whose indexes its own attempt has found or made.
THEOREM StatusTrue == Spec => []StatusIsTrue
<1>1. Init => StatusInv
  BY DEF Init, StatusInv, NewestIsActive, BuiltMeansIndexed, StatusIsTrue, StatusOfTarget,
         ReadyMeansIndexed, Nothing, NoTimer
<1>2. TypeOK /\ StatusInv /\ [Next]_vars => StatusInv'
  <2>1. [Next]_vars => env' = env
    BY NextCases
       DEF Activate, Wipe, TimerFires, RunBuilds, RunExpires, ExpiredFails, RunSettles,
           triggerBootstrapSelfHeal, HealSchedules, AdminRequest, Flushed, AdminEnds, vars
  <2> QED
    BY <2>1, NewestStep, BuiltStep DEF StatusInv, Undisturbed
<1>3. StatusInv => StatusIsTrue
  BY DEF StatusInv, StatusIsTrue, StatusOfTarget, ReadyMeansIndexed
<1> QED
  BY <1>1, <1>2, <1>3, TypeCorrect, PTL DEF Spec

-------------------------------------------------------------------------------
(* One watcher per generator run *)

\* Polls start only where neither a stream nor a poll is, and a stream only
\* where the poll has been cleared.
THEOREM OneWatcherOnly == VSpec => []OneWatcher
<1>1. VInit => OneWatcher
  BY DEF VInit, OneWatcher
<1>2. OneWatcher /\ [VNext]_vvars => OneWatcher'
  <2> SUFFICES ASSUME OneWatcher, [VNext]_vvars PROVE OneWatcher'
    OBVIOUS
  <2>1. CASE \E r \in Runs : ApiMoves(r) \/ StreamBegins(r)
    BY <2>1 DEF OneWatcher, ApiMoves, StreamBegins, Open
  <2>2. CASE TickSend \/ \E t \in ticks : TickApply(t) \/ TickLost(t)
    BY <2>2 DEF OneWatcher, TickSend, TickApply, TickLost
  <2>3. CASE DismissTimer \/ GraceTimer \/ clearRun
    BY <2>3 DEF OneWatcher, DismissTimer, GraceTimer, clearRun
  <2>4. CASE startRun \/ onProgress \/ onTerminal
    BY <2>4 DEF OneWatcher, startRun, onProgress, onTerminal, Open
  <2>5. CASE StreamFails \/ StreamCloses \/ WatchdogFires
    BY <2>5 DEF OneWatcher, StreamFails, StreamCloses, WatchdogFires, onError, Open
  <2>6. CASE cancelRun \/ WatchdogArmed
    BY <2>6 DEF OneWatcher, cancelRun, WatchdogArmed
  <2>7. CASE AdoptAsk \/ AdoptLost
    BY <2>7 DEF OneWatcher, AdoptAsk, AdoptLost
  <2>8. CASE AdoptStored
    BY <2>8 DEF OneWatcher, AdoptStored, startPolling
  <2>9. CASE AdoptOrphan
    BY <2>9 DEF OneWatcher, AdoptOrphan, startPolling
  <2>10. CASE PageLoad
    BY <2>10 DEF OneWatcher, PageLoad
  <2>11. CASE UNCHANGED vvars
    BY <2>11 DEF OneWatcher, vvars
  <2> QED
    BY <2>1, <2>2, <2>3, <2>4, <2>5, <2>6, <2>7, <2>8, <2>9, <2>10, <2>11 DEF VNext
<1> QED
  BY <1>1, <1>2, PTL DEF VSpec

-------------------------------------------------------------------------------
(* An ingested source is whole *)

Statuses == {"uploaded", "inferred", "mapped", "ingesting", "ingested", "error"}
Record == [st : Statuses, mapped : BOOLEAN]
Patches == {"columns", "mapping", "ingesting", "ingested", "error"}
SomeDone == \E r \in IngestRun : Whole(r)

\* What a run that goes on, or has not started, has added.
Adds(r) ==
  /\ runs[r] = New => added[r] = {}
  /\ runs[r] \in 0 .. Rows => added[r] = (1 .. runs[r]) \ unread

\* What a change that has read the record and not written it says of the runs.
PatchSound(p) ==
  /\ p.kind \in Patches /\ p.base \in Record
  /\ p.base.st = "ingested" => SomeDone
  /\ p.kind = "ingested" => SomeDone
  /\ p.kind = "ingesting" => p.by \in IngestRun /\ runs[p.by] = New

UploadInv ==
  /\ runs \in [IngestRun -> Int]
  /\ added \in [IngestRun -> SUBSET (1 .. Rows)]
  /\ \A r \in IngestRun : Adds(r)
  /\ rec \in Record \cup {Absent}
  /\ \A p \in patches : PatchSound(p)
  /\ \A p, q \in patches : p.kind = "ingesting" /\ q.kind = "ingesting" => p = q
  /\ IngestedIsWhole

\* A change of the runs that loses none that is done, and starts none that a
\* request waits for, leaves the changes under way sound.
LEMMA RunsMove ==
  ASSUME UploadInv, UNCHANGED rec, patches' \subseteq patches,
         runs' \in [IngestRun -> Int], added' \in [IngestRun -> SUBSET (1 .. Rows)],
         \A r \in IngestRun : Adds(r)' /\ (Whole(r) => Whole(r)'),
         \A p \in patches' : p.kind = "ingesting" => runs'[p.by] = runs[p.by]
  PROVE  UploadInv'
<1>1. SomeDone => SomeDone'
  BY DEF SomeDone, Whole
<1>2. \A p \in patches' : PatchSound(p)'
  BY <1>1 DEF UploadInv, PatchSound
<1>3. IngestedIsWhole'
  BY <1>1 DEF UploadInv, IngestedIsWhole, SomeDone
<1> QED
  BY <1>2, <1>3 DEF UploadInv

\* So does one more change that has read the record, of the right kind.
LEMMA PatchSent ==
  ASSUME UploadInv, UNCHANGED rec, NEW kind \in Patches, NEW by, PatchRead(kind, by),
         runs' \in [IngestRun -> Int], added' \in [IngestRun -> SUBSET (1 .. Rows)],
         \A r \in IngestRun : Adds(r)' /\ (Whole(r) => Whole(r)'),
         \A p \in patches : p.kind = "ingesting" => runs'[p.by] = runs[p.by],
         kind = "ingested" => SomeDone',
         kind = "ingesting" => by \in IngestRun /\ runs'[by] = New /\ NoPatch("ingesting")
  PROVE  UploadInv'
<1> DEFINE new == [kind |-> kind, base |-> rec, by |-> by, cols |-> file]
<1>1. SomeDone => SomeDone'
  BY DEF SomeDone, Whole
<1>2. CASE rec = Absent
  <2>1. patches' = patches
    BY <1>2 DEF PatchRead
  <2> QED
    BY <2>1, RunsMove
<1>3. CASE rec # Absent
  <2>1. patches' = patches \cup {new}
    BY <1>3 DEF PatchRead
  <2>2. rec \in Record /\ (rec.st = "ingested" => SomeDone)
    BY <1>3 DEF UploadInv, IngestedIsWhole, SomeDone
  <2>3. PatchSound(new)'
    BY <2>2, <1>1 DEF PatchSound
  <2>4. \A p \in patches : PatchSound(p)'
    BY <1>1 DEF UploadInv, PatchSound
  <2>5. \A p, q \in patches' : p.kind = "ingesting" /\ q.kind = "ingesting" => p = q
    BY <2>1 DEF UploadInv, NoPatch
  <2>6. IngestedIsWhole'
    BY <1>1, <2>2 DEF IngestedIsWhole, SomeDone
  <2>7. ASSUME NEW p \in patches' PROVE PatchSound(p)'
    <3>1. CASE p = new
      BY <2>3, <3>1 DEF PatchSound
    <3>2. CASE p \in patches
      BY <2>4, <3>2
    <3> QED
      BY <2>1, <3>1, <3>2
  <2> HIDE DEF new
  <2> QED
    BY <2>2, <2>5, <2>6, <2>7 DEF UploadInv
<1> QED
  BY <1>2, <1>3

\* A change written: one that starts a run finds it not started.
LEMMA PatchWritten ==
  ASSUME UploadInv, NEW p \in patches, PatchWrite(p)
  PROVE  UploadInv'
<1>1. PatchSound(p)
  BY DEF UploadInv
<1>2. rec' = Patched(p.base, p.kind) /\ patches' = patches \ {p}
  BY DEF PatchWrite
<1>3. rec' \in Record /\ (rec'.st = "ingested" => SomeDone)
  <2>1. CASE p.kind = "columns"
    BY <1>1, <1>2, <2>1 DEF PatchSound, Patched, Record, Statuses
  <2>2. CASE p.kind = "mapping"
    BY <1>1, <1>2, <2>2 DEF PatchSound, Patched, Record, Statuses
  <2>3. CASE p.kind \in {"ingesting", "ingested", "error"}
    BY <1>1, <1>2, <2>3 DEF PatchSound, Patched, Record, Statuses
  <2> QED
    BY <1>1, <2>1, <2>2, <2>3 DEF PatchSound, Patches
<1>4. /\ runs' \in [IngestRun -> Int] /\ UNCHANGED <<added, unread>>
      /\ \A r \in IngestRun : runs'[r] = runs[r] \/ (runs[r] = New /\ runs'[r] = 0)
  BY <1>1 DEF UploadInv, PatchSound, PatchWrite, lines
<1>5. SomeDone => SomeDone'
  BY <1>4 DEF SomeDone, Whole, New, Done, Readable
<1>9. ASSUME NEW r \in IngestRun PROVE Adds(r)'
  <2>1. Adds(r)
    BY DEF UploadInv
  <2>2. CASE runs'[r] = runs[r]
    BY <2>1, <2>2, <1>4 DEF Adds
  <2>3. CASE runs[r] = New /\ runs'[r] = 0
    BY <2>1, <2>3, <1>4 DEF Adds, New
  <2> QED
    BY <1>4, <2>2, <2>3
<1>6. ASSUME NEW q \in patches' PROVE PatchSound(q)'
  <2>1. q \in patches /\ q # p /\ PatchSound(q)
    BY <1>2 DEF UploadInv
  <2>2. CASE p.kind = "ingesting"
    <3>1. q.kind # "ingesting"
      BY <2>1, <2>2 DEF UploadInv
    <3> QED
      BY <2>1, <3>1, <1>5 DEF PatchSound
  <2>3. CASE p.kind # "ingesting"
    <3>1. runs' = runs
      BY <2>3 DEF PatchWrite
    <3> QED
      BY <2>1, <3>1, <1>5 DEF PatchSound
  <2> QED
    BY <2>2, <2>3
<1>7. \A q, r \in patches' : q.kind = "ingesting" /\ r.kind = "ingesting" => q = r
  BY <1>2 DEF UploadInv
<1>8. IngestedIsWhole'
  BY <1>3, <1>5 DEF IngestedIsWhole, SomeDone
<1> QED
  BY <1>3, <1>4, <1>6, <1>7, <1>8, <1>9 DEF UploadInv

\* An ingest run that goes on is one that no request waits for.
LEMMA RunSteps ==
  ASSUME UploadInv, NEW r \in IngestRun, IngestRow(r) \/ IngestDone(r) \/ IngestFails(r)
  PROVE  UploadInv'
<1> USE UploadAssumption
<1>1. runs[r] # New /\ runs[r] # Done
  BY DEF IngestRow, IngestDone, IngestFails, Going, New, Done, UploadInv
<1>2. \A p \in patches : p.kind = "ingesting" => p.by \in IngestRun /\ p.by # r
  BY <1>1 DEF UploadInv, PatchSound
<1>5. Adds(r) /\ runs[r] \in Int
  BY DEF UploadInv
<1>3. CASE IngestRow(r)
  <2> DEFINE next == runs[r] + 1
  <2>1. runs' \in [IngestRun -> Int] /\ runs[r] \in 0 .. Rows /\ next \in 1 .. Rows
    BY <1>3, <1>5 DEF IngestRow, Going, UploadInv
  <2>2. /\ added' \in [IngestRun -> SUBSET (1 .. Rows)]
        /\ added'[r] = added[r] \cup ({next} \ unread) /\ runs'[r] = next
    BY <1>3, <2>1 DEF IngestRow, UploadInv
  <2>3. \A q \in IngestRun : q # r => runs'[q] = runs[q] /\ added'[q] = added[q]
    BY <1>3 DEF IngestRow, UploadInv
  <2>4. UNCHANGED <<rec, unread>> /\ patches' \subseteq patches
    BY <1>3 DEF IngestRow, source
  <2>5. 1 .. next = (1 .. runs[r]) \cup {next}
    BY <2>1
  <2>6. Adds(r)'
    BY <2>1, <2>2, <2>4, <2>5, <1>5 DEF Adds, New
  <2>7. \A q \in IngestRun : Adds(q)' /\ (Whole(q) => Whole(q)')
    <3> TAKE q \in IngestRun
    <3>1. CASE q = r
      BY <3>1, <2>6, <1>1 DEF Whole
    <3>2. CASE q # r
      BY <3>2, <2>3, <2>4 DEF UploadInv, Adds, Whole, Readable
    <3> QED
      BY <3>1, <3>2
  <2> QED
    BY <1>1, <1>2, <2>1, <2>2, <2>3, <2>4, <2>7, RunsMove
\* however it ends
<1>6. CASE UNCHANGED <<rec, lines>> /\ runs' = [runs EXCEPT ![r] = Done]
           /\ runs[r] = Rows /\ PatchRead("ingested", r)
  <2>1. runs' \in [IngestRun -> Int] /\ runs'[r] = Done /\ UNCHANGED <<added, unread>>
    BY <1>6 DEF UploadInv, Done, lines
  <2>2. \A q \in IngestRun : q # r => runs'[q] = runs[q]
    BY <1>6 DEF UploadInv
  <2>3. added[r] = Readable
    BY <1>5, <1>6 DEF Adds, Readable
  <2>4. Whole(r)'
    BY <2>1, <2>3 DEF Whole, Readable
  <2>5. \A q \in IngestRun : Adds(q)' /\ (Whole(q) => Whole(q)')
    BY <2>1, <2>2, <2>4 DEF UploadInv, Adds, Whole, Readable, Done, New
  <2>6. added' \in [IngestRun -> SUBSET (1 .. Rows)]
    BY <2>1 DEF UploadInv
  <2> QED
    BY <1>2, <1>6, <2>1, <2>2, <2>4, <2>5, <2>6, PatchSent DEF Patches, SomeDone
<1>7. CASE UNCHANGED <<rec, lines>> /\ runs' = [runs EXCEPT ![r] = Part]
           /\ PatchRead("error", r)
  <2>1. runs' \in [IngestRun -> Int] /\ runs'[r] = Part /\ UNCHANGED <<added, unread>>
    BY <1>7 DEF UploadInv, Part, lines
  <2>2. \A q \in IngestRun : q # r => runs'[q] = runs[q]
    BY <1>7 DEF UploadInv
  <2>5. \A q \in IngestRun : Adds(q)' /\ (Whole(q) => Whole(q)')
    BY <1>1, <2>1, <2>2 DEF UploadInv, Adds, Whole, Readable, Part, New
  <2>6. added' \in [IngestRun -> SUBSET (1 .. Rows)]
    BY <2>1 DEF UploadInv
  <2> QED
    BY <1>2, <1>7, <2>1, <2>2, <2>5, <2>6, PatchSent DEF Patches
<1> QED
  BY <1>3, <1>6, <1>7 DEF IngestDone, IngestFails

LEMMA UploadInvKept ==
  ASSUME UploadInv, [UNext]_uvars
  PROVE  UploadInv'
<1> USE UploadAssumption
<1>1. CASE UNCHANGED <<rec, patches, runs, lines>>
  BY <1>1 DEF UploadInv, Adds, PatchSound, SomeDone, Whole, Readable, IngestedIsWhole, lines
<1>2. CASE CreateWritten
  <2>1. rec' \in Record /\ rec'.st # "ingested"
    BY <1>2 DEF CreateWritten, Record, Statuses
  <2>2. UNCHANGED <<patches, runs, added, unread>>
    BY <1>2 DEF CreateWritten, lines
  <2>3. \A p \in patches' : PatchSound(p)'
    BY <2>2 DEF UploadInv, PatchSound, SomeDone, Whole, Readable
  <2> QED
    BY <2>1, <2>2, <2>3 DEF UploadInv, IngestedIsWhole, Adds
<1>3. CASE deleteSource
  <2>1. rec' = Absent /\ UNCHANGED <<patches, runs, added, unread>>
    BY <1>3 DEF deleteSource, lines
  <2>2. \A p \in patches' : PatchSound(p)'
    BY <2>1 DEF UploadInv, PatchSound, SomeDone, Whole, Readable
  <2> QED
    BY <2>1, <2>2 DEF UploadInv, IngestedIsWhole, Adds
<1>9. UNCHANGED <<runs, lines>> =>
        /\ runs' \in [IngestRun -> Int] /\ added' \in [IngestRun -> SUBSET (1 .. Rows)]
        /\ \A r \in IngestRun : Adds(r)' /\ (Whole(r) => Whole(r)')
  BY DEF UploadInv, Adds, Whole, Readable, lines
<1>4. CASE openMapping
  BY <1>4, <1>9, PatchSent DEF openMapping, Patches
<1>5. CASE saveMapping
  BY <1>5, <1>9, PatchSent DEF saveMapping, Patches
<1>6. ASSUME NEW r \in IngestRun, ingestSource(r) PROVE UploadInv'
  BY <1>6, <1>9, PatchSent DEF ingestSource, Patches
<1>7. CASE Restart
  <2>1. runs' \in [IngestRun -> Int]
    BY <1>7 DEF Restart, UploadInv, Part
  <2>2. \A r \in IngestRun : runs'[r] = runs[r] \/ (Going(r) /\ runs'[r] = Part)
    BY <1>7 DEF Restart, UploadInv
  <2>3. UNCHANGED <<rec, added, unread>> /\ patches' = {}
    BY <1>7 DEF Restart, lines
  <2>4. ASSUME NEW r \in IngestRun PROVE Adds(r)' /\ (Whole(r) => Whole(r)')
    <3>1. CASE runs'[r] = runs[r]
      BY <2>3, <3>1 DEF UploadInv, Adds, Whole, Readable
    <3>2. CASE Going(r) /\ runs'[r] = Part
      BY <2>3, <3>2 DEF UploadInv, Adds, Whole, Going, Part, New, Done
    <3> QED
      BY <2>2, <3>1, <3>2
  <2>5. added' \in [IngestRun -> SUBSET (1 .. Rows)]
    BY <2>3 DEF UploadInv
  <2> QED
    BY <2>1, <2>3, <2>4, <2>5, RunsMove
<1>8. CASE startUpload \/ UploadCut \/ FileStored \/ CreateIndexed \/ ReplyLost \/ Dismiss
           \/ ListMembers \/ ListRead \/ ListRepair \/ ProbeReleases \/ TimeoutReleases
           \/ UNCHANGED uvars
  BY <1>8, <1>1 DEF startUpload, UploadCut, FileStored, CreateIndexed, ReplyLost, Dismiss,
                    ListMembers, ListRead, ListRepair, ProbeReleases, TimeoutReleases, uvars, source, lines
<1> QED
  BY <1>2, <1>3, <1>4, <1>5, <1>6, <1>7, <1>8, PatchWritten, RunSteps DEF UNext

\* Whatever changes of the record overlap, are lost or are written after a
\* restart: the record says "ingested" only when a run has added every row that
\* the reader makes of the file.
THEOREM IngestedWhole == USpec => []IngestedIsWhole
<1>1. UInit => UploadInv
  BY UploadAssumption DEF UInit, UploadInv, Adds, IngestedIsWhole, New
<1>2. UploadInv /\ [UNext]_uvars => UploadInv'
  BY UploadInvKept
<1>3. UploadInv => IngestedIsWhole
  BY DEF UploadInv
<1> QED
  BY <1>1, <1>2, <1>3, PTL DEF USpec
===============================================================================
