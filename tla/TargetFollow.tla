----------------------------- MODULE TargetFollow -----------------------------
(***************************************************************************)
(* The services that follow the active target by polling                   *)
(* GET /internal/redis/active-target/full: source pings the new Redis      *)
(* before it moves (services/source/src/active-target-watcher.ts), loadgen *)
(* moves at once (services/loadgen/src/active-target-watcher.ts).  The api *)
(* is the abstract ActiveTarget plus what a poller can tell apart: the     *)
(* profile store, which runs ahead of the target while a switch drains and *)
(* from which the endpoint takes the password, and a restart of the        *)
(* process, which restores the stored profile and counts versions anew.    *)
(***************************************************************************)
EXTENDS ActiveTarget, Integers

CONSTANTS
  CredOf,       \* the credentials each Redis accepts
  Follower,     \* the polling services
  Poll,         \* polls one follower may have in flight: the interval does not wait
  MaxActivate,  \* bound: activations
  MaxRestart    \* bound: api restarts

ASSUME FollowAssumption ==
  NoTarget \notin Target /\ MaxActivate \in Nat /\ MaxRestart \in Nat

VARIABLES
  profile,      \* the store's active profile
  draining,     \* targets of switches that have not committed yet
  activations,
  reboots,      \* restarts of the api
  kind,         \* which service each follower is
  bound,        \* what each follower is bound to: a target and its version
  poll          \* the polls of each follower

Source == {f \in Follower : kind[f] = "source"}     \* pings before it moves
Loadgen == {f \in Follower : kind[f] = "loadgen"}   \* moves at once
servingVars == <<target, version, profile, draining, activations, reboots>>
fvars == <<servingVars, kind, bound, poll>>

Fallback == -1
Unbound == [t |-> NoTarget, v |-> 0]
Profiles == {t \in Target : t.cred = CredOf[t.ep]}
FullReply == [t : Target, v : Nat]
PollState == [at : {"idle", "asked"}, r : {Unbound}]
             \cup [at : {"answered", "pinging"}, r : FullReply]
IdlePoll == [at |-> "idle", r |-> Unbound]

FInit ==
  /\ AInit
  /\ profile = NoTarget /\ draining = {}
  /\ activations = 0 /\ reboots = 0
  /\ kind \in [Follower -> {"source", "loadgen"}]
  /\ bound = [f \in Follower |-> Unbound]
  /\ poll = [f \in Follower |-> [i \in Poll |-> IdlePoll]]

-------------------------------------------------------------------------------
(* The api *)

\* The store is written first; the first switch commits at once, a later one
\* when its drain is over.
ActivateProfile(t) ==
  /\ activations < MaxActivate
  /\ activations' = activations + 1
  /\ profile' = t
  /\ IF target = NoTarget
     THEN Commit(t) /\ UNCHANGED draining
     ELSE draining' = draining \cup {t} /\ UNCHANGED <<target, version>>
  /\ UNCHANGED <<reboots, kind, bound, poll>>

FinishSwitch(t) ==
  /\ t \in draining
  /\ draining' = draining \ {t}
  /\ Commit(t)
  /\ UNCHANGED <<profile, activations, reboots, kind, bound, poll>>

\* Boot restores the active profile of the store through the fast path.
RebootApi ==
  /\ reboots < MaxRestart
  /\ reboots' = reboots + 1
  /\ draining' = {}
  /\ target' = profile
  /\ version' = IF profile = NoTarget THEN 1 ELSE 2
  /\ UNCHANGED <<profile, activations, kind, bound, poll>>

\* GET .../full: the target and version in force, the password of the store.
FullAnswer == [t |-> [target EXCEPT !.cred = profile.cred], v |-> version]

-------------------------------------------------------------------------------
(* A poll: fetchTarget, then swapTo *)

Ask(f, i) ==
  /\ poll[f][i].at = "idle"
  /\ poll' = [poll EXCEPT ![f][i].at = "asked"]
  /\ UNCHANGED <<servingVars, kind, bound>>

Answer(f, i) ==
  /\ poll[f][i].at = "asked"
  /\ target # NoTarget
  /\ poll' = [poll EXCEPT ![f][i] = [at |-> "answered", r |-> FullAnswer]]
  /\ UNCHANGED <<servingVars, kind, bound>>

\* The request fails or the api answers 503.
NoAnswer(f, i) ==
  /\ poll[f][i].at = "asked"
  /\ poll' = [poll EXCEPT ![f][i] = IdlePoll]
  /\ UNCHANGED <<servingVars, kind, bound>>

Done(f, i) == poll' = [poll EXCEPT ![f][i] = IdlePoll]

SameVersion(f, i) ==
  /\ poll[f][i].at = "answered"
  /\ poll[f][i].r.v = bound[f].v
  /\ Done(f, i)
  /\ UNCHANGED <<servingVars, kind, bound>>

\* Mutant: the version is taken for new only when it is the next one.
NewVersion_Successor(f, i) == poll[f][i].at = "answered" /\ poll[f][i].r.v = bound[f].v + 1

NewVersion(f, i) == poll[f][i].at = "answered" /\ poll[f][i].r.v # bound[f].v

LoadgenSwap(f, i) ==
  /\ f \in Loadgen /\ NewVersion(f, i)
  /\ bound' = [bound EXCEPT ![f] = poll[f][i].r]
  /\ Done(f, i)
  /\ UNCHANGED <<servingVars, kind>>

\* The source builds a client and waits for its PING.
SourceBuild(f, i) ==
  /\ f \in Source /\ NewVersion(f, i)
  /\ poll' = [poll EXCEPT ![f][i].at = "pinging"]
  /\ UNCHANGED <<servingVars, kind, bound>>

\* A Redis answers a client that holds its credentials.
PingOk(f, i) ==
  /\ poll[f][i].at = "pinging"
  /\ poll[f][i].r.t.cred = CredOf[poll[f][i].r.t.ep]
  /\ bound' = [bound EXCEPT ![f] = poll[f][i].r]
  /\ Done(f, i)
  /\ UNCHANGED <<servingVars, kind>>

PingFails(f, i) ==
  /\ poll[f][i].at = "pinging"
  /\ Done(f, i)
  /\ UNCHANGED <<servingVars, kind, bound>>

\* After 30 s without a reachable target, source falls back to REDIS_URL.
SourceFallback(f) ==
  /\ f \in Source /\ bound[f] = Unbound
  /\ bound' = [bound EXCEPT ![f].v = Fallback]
  /\ UNCHANGED <<servingVars, kind, poll>>

PollGoesOn(f, i) ==
  \/ Ask(f, i) \/ NoAnswer(f, i)
  \/ SameVersion(f, i) \/ LoadgenSwap(f, i) \/ SourceBuild(f, i)
  \/ PingFails(f, i)

PollStep(f, i) == PollGoesOn(f, i) \/ Answer(f, i) \/ PingOk(f, i)

FNext ==
  \/ \E t \in Profiles : ActivateProfile(t) \/ FinishSwitch(t)
  \/ RebootApi
  \/ \E f \in Follower, i \in Poll : PollStep(f, i)
  \/ \E f \in Follower : SourceFallback(f)

\* Timers fire and the drain of a switch ends; requests and pings that are
\* possible again and again are answered in the end.
FFairness ==
  /\ \A t \in Profiles : WF_fvars(FinishSwitch(t))
  /\ \A f \in Follower, i \in Poll :
       WF_fvars(PollGoesOn(f, i))
  /\ \A f \in Follower :
       SF_fvars(\E i \in Poll : Answer(f, i)) /\ SF_fvars(\E i \in Poll : PingOk(f, i))

FSpec == FInit /\ [][FNext]_fvars /\ FFairness

-------------------------------------------------------------------------------
(* Properties *)

\* Types; a follower without a target is unbound or on the fallback URL.
FTypeOK ==
  /\ target \in Target \cup {NoTarget}
  /\ version \in Nat
  /\ profile \in Target \cup {NoTarget}
  /\ draining \subseteq Profiles
  /\ activations \in 0..MaxActivate /\ reboots \in 0..MaxRestart
  /\ kind \in [Follower -> {"source", "loadgen"}]
  /\ bound \in [Follower -> [t : Target \cup {NoTarget}, v : Int]]
  /\ \A f \in Follower : bound[f].t = NoTarget <=> bound[f].v \in {0, Fallback}
  /\ poll \in [Follower -> [Poll -> PollState]]

\* Pollers "detect identity changes without diffing all fields": within one life
\* of the api, whoever holds the version in force is bound to the Redis in force.
\* A restart counts versions anew and restores the stored profile, which may be
\* another one: then a follower may hold the version and not the Redis.
SameVersionSameRedis ==
  \A f \in Follower : reboots = 0 /\ bound[f].v = version /\ bound[f].t # NoTarget
    => bound[f].t.ep = target.ep

\* Nothing a follower was told is lost to a later, older answer for good: once
\* the api rests, every follower ends up bound to the target in force, however
\* many of its polls were answered out of order.  It takes credentials that fit,
\* which is what StoreAndTargetAgree of Connections is about, and one life of the
\* api, by SameVersionSameRedis.
Followed ==
  \/ target = NoTarget \/ profile.ep # target.ep \/ reboots > 0
  \/ \A f \in Follower : bound[f].v = version /\ bound[f].t.ep = target.ep
===============================================================================
