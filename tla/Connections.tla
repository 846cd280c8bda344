----------------------------- MODULE Connections ------------------------------
(***************************************************************************)
(* The connection profiles of the api (services/api/src/store.ts and       *)
(* routes/connections.ts) on top of the switch coordinator.  The store is  *)
(* written to disk inside each call; activating or editing the active      *)
(* profile starts setActiveTarget and does not wait for it, so the store   *)
(* runs ahead of the target in force for as long as the switch drains.     *)
(*                                                                         *)
(* A handler is one step: the store resolves its promises at once, so      *)
(* nothing else runs between the check of the in-flight registry, the      *)
(* write and the call of setActiveTarget.                                  *)
(***************************************************************************)
EXTENDS TargetSwitch

CONSTANTS
  Profile,    \* profile ids
  Absent,     \* an id without a profile
  NoPassword, \* the empty password of a form
  MaxEdit     \* bound: creates, updates and deletes

ASSUME ConnectionsAssumption ==
  /\ MaxEdit \in Nat
  /\ NoTarget \notin Target
  /\ Absent \notin Profile \cup Target

VARIABLES
  profiles,   \* the persisted profiles
  activeId,   \* the persisted active id
  blocked,    \* the in-flight registry lists a fresh operation
  edits       \* store writes so far

storeVars == <<profiles, activeId, edits>>
cvars == <<vars, profiles, activeId, blocked, edits>>

CInit ==
  /\ Init
  /\ profiles = [p \in Profile |-> Absent]
  /\ activeId = Absent
  /\ blocked = FALSE
  /\ edits = 0

Exists(p) == profiles[p] # Absent
ActiveRaw == IF activeId = Absent THEN Absent ELSE profiles[activeId]

\* What GET .../active-target/full serves: the target of the singleton with the
\* password of the store's active profile.
ServedCred == IF ActiveRaw = Absent THEN Absent ELSE ActiveRaw.cred

-------------------------------------------------------------------------------
DuplicateEndpoint(p, e) == \E q \in Profile \ {p} : Exists(q) /\ profiles[q].ep = e

Edited == edits < MaxEdit /\ edits' = edits + 1

CreateProfile(p, t) ==
  /\ ~Exists(p) /\ Edited
  /\ ~DuplicateEndpoint(p, t.ep)
  /\ profiles' = [profiles EXCEPT ![p] = t]
  /\ UNCHANGED <<vars, activeId, blocked>>

\* The target is left alone: the deleted profile stays in force.
DeleteProfile(p) ==
  /\ Exists(p) /\ Edited
  /\ profiles' = [profiles EXCEPT ![p] = Absent]
  /\ activeId' = IF activeId = p THEN Absent ELSE activeId
  /\ UNCHANGED <<vars, blocked>>

Activate(p) ==
  /\ ~blocked /\ Exists(p)
  /\ activeId' = p
  /\ setActiveTarget(profiles[p])
  /\ UNCHANGED <<profiles, blocked, edits>>

\* Mutant: an edit of the active profile never reaches the target.
PropagateEdit_Dropped(prev, new, given) == UNCHANGED vars

\* An identity or credential change of the active profile switches the target,
\* anything else refreshes the label.  An empty password in the form is read as
\* "keep" here, although the store has already overwritten the old one.
PropagateEdit(prev, new, given) ==
  LET credsChanged == given # NoPassword /\ given # prev.cred IN
  IF new.ep # prev.ep \/ credsChanged
  THEN setActiveTarget(new)
  ELSE IF override = NoTarget THEN UNCHANGED vars ELSE setActiveTargetLabel(new.label)

\* Mutant: the registry is not consulted.
UpdateProfile_NoLockout(p, new) ==
  /\ Exists(p) /\ Edited
  /\ ~(new.ep # profiles[p].ep /\ DuplicateEndpoint(p, new.ep))
  /\ profiles' = [profiles EXCEPT ![p] = new]
  /\ IF p = activeId
     THEN PropagateEdit(profiles[p], new, new.cred)
     ELSE UNCHANGED vars
  /\ UNCHANGED <<activeId, blocked>>

\* PUT and PATCH /connections/:id with the fields of new.
UpdateProfile(p, new) ==
  /\ Exists(p) /\ Edited
  /\ p = activeId /\ new.ep # profiles[p].ep => ~blocked
  /\ ~(new.ep # profiles[p].ep /\ DuplicateEndpoint(p, new.ep))
  /\ profiles' = [profiles EXCEPT ![p] = new]
  /\ IF p = activeId
     THEN PropagateEdit(profiles[p], new, new.cred)
     ELSE UNCHANGED vars
  /\ UNCHANGED <<activeId, blocked>>

\* Operations of other services come and go (LoadgenLockout models them).
ToggleInflight ==
  /\ blocked' = ~blocked
  /\ UNCHANGED <<vars, storeVars>>

CoordinatorStep ==
  /\ \/ \E s \in Switch : DrainTimeout(s) \/ CommitSwitch(s)
     \/ PushStep
     \/ AckStep
  /\ UNCHANGED <<storeVars, blocked>>

CNext ==
  \/ \E p \in Profile, t \in Target : t.cred # NoPassword /\ CreateProfile(p, t)
  \/ \E p \in Profile, t \in Target : UpdateProfile(p, t)
  \/ \E p \in Profile : DeleteProfile(p) \/ Activate(p)
  \/ ToggleInflight
  \/ CoordinatorStep

CSpec == CInit /\ [][CNext]_cvars

-------------------------------------------------------------------------------
(* Properties *)

\* Types; the active id names a stored profile.
CTypeOK ==
  /\ TypeOK
  /\ profiles \in [Profile -> Target \cup {Absent}]
  /\ activeId \in {p \in Profile : Exists(p)} \cup {Absent}
  /\ blocked \in BOOLEAN
  /\ edits \in 0..MaxEdit

Settled == \A s \in Switch : pc[s] \in {"idle", "committed"}

\* No store write changes the identity in force while an operation blocks
\* activation: only a switch already under way may still commit.
Locked ==
  blocked /\ calls' # calls => override # NoTarget /\ next'[calls'].ep = profiles[activeId].ep
LockoutHolds == [][Locked]_cvars

InOrder == \A r, s \in Switch : r < s /\ s <= calls => announced[r] < announced[s]

\* When the switches committed in the order of their calls, the store and the
\* singleton agree at rest, so the target and the password that
\* GET .../active-target/full puts together belong together.
StoreAndTargetAgree ==
  Settled /\ InOrder /\ ActiveRaw # Absent =>
    /\ override.ep = ActiveRaw.ep
    /\ ServedCred = override.cred \/ ServedCred = NoPassword
===============================================================================
