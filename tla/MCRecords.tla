------------------------------ MODULE MCRecords -------------------------------
(***************************************************************************)
(* Small instances of four kinds of records the api keeps, one of which a  *)
(* behaviour runs: those of the generator runs, the connection profiles    *)
(* over the switch coordinator, that of the index which serves a target,   *)
(* and those of the bulk runs (GeneratorRuns, Connections, IndexBootstrap  *)
(* and BulkRuns, extended here).                                           *)
(***************************************************************************)
EXTENDS GeneratorRuns, Connections, IndexBootstrap, BulkRuns, TLC

\* The nodes and boots of the one are the runs and replicas of the others, and the
\* profiles and passwords of the fourth, so that the symmetry is of few permutations.
CONSTANTS x1, x2, y1, y2

VARIABLE part

-------------------------------------------------------------------------------
(* Small instances *)

\* Schema "b" has a risk class more than schema "a".
MCClassesOf == [s \in {"a", "b"} |-> IF s = "a" THEN {"FX"} ELSE {"FX", "GIRR"}]

Deal(runs, workers, replicas, n, lost) ==
  [runs |-> runs, workers |-> workers, replicas |-> replicas, rows |-> n, lost |-> lost,
   halts |-> 1]

\* One run in two threads, over two replicas or with lost answers; one in the process with
\* both, or with POSTs left when another has failed; and two runs over one replica.
MCWorlds ==
  {Deal({"run"}, {"w1", "w2"}, {y1, y2}, 2, 0), Deal({"run"}, {"w1", "w2"}, {"replica"}, 2, 1),
   Deal({"run"}, {"w1"}, {y1, y2}, 2, 1), Deal({"run"}, {"w1"}, {y1, y2}, 3, 0),
   Deal({x1, x2}, {"w1"}, {"replica"}, 1, 0)}

Symmetry == Permutations({x1, x2}) \cup Permutations({y1, y2})

-------------------------------------------------------------------------------
(* One part at a time *)

mcvars == <<part, xvars, rvars, gvars, cvars>>

IndexOff ==
  /\ record = "off" /\ held = "off" /\ full = "off" /\ slims = "off" /\ rows = "off"
  /\ lib = "off" /\ sug = "off" /\ schema = "off" /\ run = "off" /\ settled = "no"
  /\ begun = "off" /\ fails = "off" /\ turns = "off"

\* Runs and profiles that do not run keep what their properties read first.
BulkOff ==
  /\ world = [runs |-> {}] /\ history = << >> /\ rec = "off" /\ gone = "off" /\ starting = "off"
  /\ work = "off" /\ flag = "off" /\ accepting = "off"
  /\ landed = "off" /\ halts = "off" /\ archiving = "off" /\ water = "off" /\ shown = "off"
  /\ counted = "off" /\ blind = "off"
GeneratorOff ==
  /\ admin = [a \in Admins |-> "idle"] /\ entry = [r \in Runs |-> NoEntry]
  /\ loop = "off" /\ detached = "off" /\ timers = "off" /\ sent = "off" /\ failed = "off"
  /\ stream = "off" /\ docs = "off" /\ kind = "off" /\ ids = "off" /\ forced = "off"
ProfilesOff ==
  /\ pc = [s \in Switch |-> "idle"] /\ calls = 0 /\ activeId = Absent /\ blocked = FALSE
  /\ override = "off" /\ version = "off" /\ next = "off" /\ announced = "off" /\ per = "off"
  /\ push = "off" /\ acked = "off" /\ profiles = "off" /\ edits = "off"

MCInit ==
  \/ part = "index" /\ XInit /\ BulkOff /\ GeneratorOff /\ ProfilesOff
  \/ part = "bulk" /\ RInit /\ IndexOff /\ GeneratorOff /\ ProfilesOff
  \/ part = "generator" /\ GInit /\ IndexOff /\ BulkOff /\ ProfilesOff
  \/ part = "profiles" /\ CInit /\ IndexOff /\ BulkOff /\ GeneratorOff

MCNext ==
  \/ part = "index" /\ XNext /\ UNCHANGED <<part, rvars, gvars, cvars>>
  \/ part = "bulk" /\ RNext /\ UNCHANGED <<part, xvars, gvars, cvars>>
  \/ part = "generator" /\ GNext /\ UNCHANGED <<part, xvars, rvars, cvars>>
  \/ part = "profiles" /\ CNext /\ UNCHANGED <<part, xvars, rvars, gvars>>

MCSpec == MCInit /\ [][MCNext]_mcvars
===============================================================================
