------------------------------ MODULE MCServices ------------------------------
(***************************************************************************)
(* Small instances of the services around the api, one of which a          *)
(* behaviour runs: the lockout of a load run, the services that poll for   *)
(* the target, and the swap of the ingest shards.                          *)
(* Parts says which of them a run considers.                               *)
(***************************************************************************)
EXTENDS LoadgenLockout, TargetFollow, IngestSwap, TLC

CONSTANTS Parts

VARIABLES
  part

-------------------------------------------------------------------------------
(* Small instances *)

Surroundings == [push |-> FALSE, flaky |-> FALSE, faulty |-> FALSE, ops |-> {},
                 polls |-> {1}, switches |-> 1, restarts |-> 0]

\* Two pushed switches and nothing else.
Pushed == [Surroundings EXCEPT !.push = TRUE, !.switches = 2]

\* Operators and overlapping polls that fail; polls alone over two switches; an
\* operator and a restart of the api; one pushed switch, and with a reshard beside it;
\* resets beside reshards, polls and a push; hangs and timeouts under polls and
\* under pushes.
Swaps ==
  { [Surroundings EXCEPT !.ops = {"shards", "halt"}, !.flaky = TRUE, !.polls = {1, 2}, !.switches = 2],
    [Surroundings EXCEPT !.flaky = TRUE, !.polls = {1, 2}, !.switches = 2],
    [Surroundings EXCEPT !.ops = {"shards"}, !.restarts = 1],
    [Surroundings EXCEPT !.push = TRUE, !.polls = {1, 2}],
    [Surroundings EXCEPT !.push = TRUE, !.ops = {"shards"}],
    [Surroundings EXCEPT !.ops = {"shards", "reset"}],
    [Surroundings EXCEPT !.ops = {"reset"}, !.polls = {1, 2}, !.switches = 2],
    [Surroundings EXCEPT !.ops = {"reset"}, !.push = TRUE],
    [Surroundings EXCEPT !.faulty = TRUE, !.ops = {"halt"}],
    [Surroundings EXCEPT !.faulty = TRUE, !.push = TRUE] }

Redis == <<"e1", "e2">>

MCEndpoint == {Redis[1], Redis[2]}
MCCredOf == (Redis[1] :> "c1") @@ (Redis[2] :> "c2")

MCEnvironment == Swaps \cup {Pushed}

-------------------------------------------------------------------------------
(* One part at a time *)

mcvars == <<part, vars, fvars, svars>>

\* A part that does not run stays as it begins.
MCInit ==
  /\ part \in Parts
  /\ Init /\ FInit /\ SInit
  /\ env \in IF part = "swap" THEN Swaps ELSE {Pushed}
  /\ part # "follow" => kind = [f \in Follower |-> "source"]

InLockout == part = "lockout" /\ UNCHANGED <<part, svars, fvars>>
InFollow == part = "follow" /\ UNCHANGED <<part, vars, svars>>
InSwap == part \in {"swap", "pushed"} /\ UNCHANGED <<part, vars, fvars>>

MCNext ==
  \/ InLockout /\ Next
  \/ InFollow /\ FNext
  \/ InSwap /\ SNext

\* The fairness of each model, for the part that runs: fairness of a disjunction of
\* actions of different parts is fairness of each of them.
Weak1 ==
  \/ InLockout /\ PollIdle
  \/ InSwap /\ \E t \in Task : Continue(t)
Weak2 ==
  \/ InLockout /\ \E p \in Probe : ProbeSent(p)
  \/ InSwap /\ Quiet /\ \E t \in Task : Flushed(t) \/ RebuildTimeout(t)
Weak3(i) ==
  \/ InLockout /\ DurationEnds(i)
  \/ InFollow /\ PollGoesOn("follower", i)
  \/ InSwap /\ Quiet /\ (PollSent(<<"poll", i>>) \/ SwapTo(<<"poll", i>>))
Weak4(i) ==
  \/ InFollow /\ \E t \in Profiles : t.ep = Redis[i] /\ FinishSwitch(t)
  \/ InSwap /\ Quiet /\ i = 1 /\ ~env.faulty /\ \E c \in Consumer : Stopped(c)
  \/ InSwap /\ Quiet /\ i = 2 /\ \E s \in Switch : CommitSwitch(s)
Strong1(i) ==
  \/ InLockout /\ ServiceStatus(i)
  \/ InFollow /\ Answer("follower", i)
  \/ InSwap /\ Quiet /\ PollServed(<<"poll", i>>)
Strong2(i) ==
  \/ InLockout /\ ProbeAnswer(i)
  \/ InFollow /\ PingOk("follower", i)
  \/ InSwap /\ Quiet /\ i = 1 /\ \E t \in Task : SpawnDone(t)

MCFairness ==
  /\ WF_mcvars(Weak1) /\ WF_mcvars(Weak2)
  /\ \A i \in {1, 2} : /\ WF_mcvars(Weak3(i)) /\ WF_mcvars(Weak4(i))
  /\ SF_mcvars(\E i \in {1, 2} : Strong1(i)) /\ SF_mcvars(\E i \in {1, 2} : Strong2(i))

MCSpec == MCInit /\ [][MCNext]_mcvars /\ MCFairness

-------------------------------------------------------------------------------
(* Properties *)

\* The followers reach the target in force, again and again.
FollowersConverge == []<>(part = "follow" => Followed)

\* The shards settle on the target the api serves.
ShardsConverge == <>[](part = "swap" => Converged)
===============================================================================
