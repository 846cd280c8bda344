-------------------------------- MODULE MCRuns --------------------------------
(***************************************************************************)
(* Small instances of what runs in the background of the api, one of which *)
(* a behaviour runs: the bootstrap of a target, the view of a generator    *)
(* run, and the upload and ingest of a source.  Parts says which of them a *)
(* run considers.                                                          *)
(***************************************************************************)
EXTENDS Bootstrap, GeneratorView, SourceUpload

CONSTANT Parts

VARIABLE part

-------------------------------------------------------------------------------
(* Small instances *)

Base == [heal |-> {}, admin |-> {}, switches |-> 2, wipes |-> 1]

\* A self-heal during a switch.
SelfHeal == [Base EXCEPT !.heal = Heal]

\* Switches alone; a self-heal; the admin routes beside a self-heal.
MCEnvironment ==
  { [Base EXCEPT !.switches = 3],
    SelfHeal,
    [Base EXCEPT !.heal = Heal, !.admin = Admin, !.switches = 1, !.wipes = 0] }

\* The columns of two files: a ladder of tenors, and flat columns with a twice
\* named bucket.
Column(n, kinds) == [named |-> n, kinds |-> kinds, several |-> TRUE, distinct |-> FALSE]
Ladder == <<Column("tenors", {"number"}), Column("risk_class", {"short"}),
            Column("tenors", {"number"}), Column("risk_value", {"number"})>>
Flat == <<Column("bucket", {"number"}), Column("risk_value", {"number"}),
          Column("bucket", {"id"}), Column("tenors", {"number"})>>
MCFiles == {Ladder, Flat}

-------------------------------------------------------------------------------
(* One part at a time *)

mcvars == <<part, vars, vvars, uvars>>

MCInit ==
  /\ Init /\ VInit /\ UInit
  /\ part \in Parts
  /\ part = "heal" <=> env = SelfHeal
  \* a file whose first line does not parse, and one all of whose lines do
  /\ unread \in IF part = "upload" THEN {{}, {1}} ELSE {{}}
  /\ part \in {"boot", "heal"} \/ (env = [Base EXCEPT !.switches = 3] /\ active = NoTarget)

InBoot == part \in {"boot", "heal"} /\ UNCHANGED <<part, vvars, uvars>>
InView == part = "view" /\ UNCHANGED <<part, vars, uvars>>
InUpload == part = "upload" /\ UNCHANGED <<part, vars, vvars>>

MCNext ==
  \/ InBoot /\ Next
  \/ InView /\ VNext
  \/ InUpload /\ UNext

\* The fairness of the bootstrap.
MCFairness ==
  /\ WF_mcvars(InBoot /\ TimerFires)
  /\ WF_mcvars(InBoot /\ \E g \in Gen : RunExpires(g))
  /\ WF_mcvars(InBoot /\ \E g \in Gen : RunSettles(g, "ready"))
  /\ WF_mcvars(InBoot /\ \E h \in Heal : HealSchedules(h))

MCSpec == MCInit /\ [][MCNext]_mcvars /\ MCFairness

-------------------------------------------------------------------------------
(* Properties *)

\* A bootstrap does not stay "running": its runner is given up after its time
\* (runBootstrapWithTimeout).
NeverLeftRunning ==
  []<>(part \in {"boot", "heal"} /\ env.admin = {} => status.phase # "running")

\* Once nothing is under way, the status is of the active target: a self-heal does
\* not speak of another one (bootstrap.ts).
HealedIsActive == part = "heal" => ActiveTargetBootstrapped
===============================================================================
