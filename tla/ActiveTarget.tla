----------------------------- MODULE ActiveTarget -----------------------------
(***************************************************************************)
(* What the api promises about its active Redis target, seen by everything *)
(* that reads it: GET /internal/redis/active-target/full and, inside the   *)
(* api, getActiveTarget.  The target is replaced only together with a      *)
(* version that was never served before; a rename of the active profile    *)
(* shows through without a new version, because the Redis behind it is the *)
(* same.                                                                   *)
(***************************************************************************)
EXTENDS Naturals

CONSTANTS
  Endpoint,   \* Redis identities: host, port, tls, db and clusterMode
  Label,      \* profile names shown to the operator
  Cred,       \* credentials
  NoTarget    \* nothing active

VARIABLES
  target,     \* override, with overrideCreds
  version     \* activeTargetVersion

Target == [ep : Endpoint, label : Label, cred : Cred]

AInit == target = NoTarget /\ version = 1

\* Mutant: the version stays.
Commit_KeepsVersion(t) == target' = t /\ version' = version

Commit(t) == target' = t /\ version' = version + 1

Relabel(l) ==
  /\ target # NoTarget
  /\ target' = [target EXCEPT !.label = l]
  /\ version' = version

ANext == (\E t \in Target : Commit(t)) \/ (\E l \in Label : Relabel(l))

ASpec == AInit /\ [][ANext]_<<target, version>>
===============================================================================
