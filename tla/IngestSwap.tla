------------------------------ MODULE IngestSwap -------------------------------
(***************************************************************************)
(* How the ingest service moves its consumers to another Redis: the        *)
(* polling watcher (services/ingest/src/active-target-watcher.ts), the     *)
(* prepare and commit routes the api pushes to (admin-active-target.ts),   *)
(* and the rebuild, reshard and halt-and-flush operations that share one   *)
(* mutex (shard-runtime.ts, wired in cli.ts).                              *)
(*                                                                         *)
(* A task is one asynchronous call.  It runs alone between two awaits.     *)
(* Continuations of a consumer that has stopped run before the answer of   *)
(* any network call that is still under way: no other step is enabled      *)
(* while a task is Ready.                                                  *)
(*                                                                         *)
(* A target is named by the switch that made it active, 0 for the one at   *)
(* the start.  The api has activated one target: its version is 2.         *)
(***************************************************************************)
EXTENDS Naturals, FiniteSets

CONSTANTS
  Environment, \* the surroundings to consider
  Poller,      \* polls of the watcher that may overlap: the interval does not wait
  MaxSwitch,   \* bound: switches of the api
  MaxConsumer, \* bound: consumers alive at once
  Try          \* attempts of the commit closure (COMMIT_RETRY_DELAYS_MS, plus one)


Op == {"shards", "halt"}
\* POST /ingest/shards/reset is over at once: it is no call under way.
Request == Op \cup {"reset"}

\* push: the api pushes prepare and commit.  flaky: it may fail to answer a poll.
\* faulty: consumers hang, Redis refuses a spawn, timeouts expire, pushes are
\* late.  The others bound the requests of operators, the overlapping polls, and
\* the switches and restarts of the api.
EnvironmentType ==
  [push : BOOLEAN, flaky : BOOLEAN, faulty : BOOLEAN, ops : SUBSET Request,
   polls : SUBSET Poller, switches : 0..MaxSwitch, restarts : Nat]

ASSUME SwapAssumption ==
  /\ MaxSwitch \in Nat /\ MaxConsumer \in Nat \ {0} /\ Try \in Nat \ {0}
  /\ Environment \subseteq EnvironmentType

VARIABLES
  env,         \* the surroundings, the same for ever
  (* api *)
  api,         \* version and target served by .../active-target/full
  stored,      \* the target of the last activation, restored by a restart
  switch,      \* progress of each switch
  restarts,
  (* watcher *)
  cur,         \* currentTarget
  swapping,
  active,      \* target of activeClient and makeRunnerClient
  (* shard runtime *)
  consumer,    \* the multi consumers: their target and whether they run
  multi,       \* the one the runtime refers to, 0 for null
  rebuilding,
  lateSpawns,  \* targets of spawns whose caller timed out
  cleared,     \* history: an operator has cleared the mutex by force
  (* admin routes *)
  pending,     \* pendingSwitchId, 0 for null
  drained,     \* history: switches whose prepare was answered "drained"
  committed,   \* history: switches whose commit was answered "committed"
  task         \* the asynchronous calls under way

serverVars == <<env, api, stored, switch, restarts, cleared>>
watchVars == <<cur, swapping, active>>
runtimeVars == <<consumer, multi, rebuilding, lateSpawns>>
adminVars == <<pending, drained, committed>>
svars == <<serverVars, watchVars, runtimeVars, adminVars, task>>

Switch == 1..MaxSwitch
TargetId == 0..MaxSwitch
Served == [ver : Nat, tgt : TargetId]
Consumer == 1..MaxConsumer
PrepareCall == {<<"prepare", s>> : s \in Switch}
CommitCall == {<<"commit", s>> : s \in Switch}
Task == {<<"poll", i>> : i \in Poller} \cup {<<"op", o>> : o \in Op} \cup PrepareCall \cup CommitCall
Pc == {"idle", "fetch", "reply", "polled", "stop", "flush", "spawn", "drain",
       "latedrain", "sleep", "done"}
Within == {"swap", "direct"}   \* rebuild called by swapTo, or by the task itself

Idle == [pc |-> "idle", got |-> [ver |-> 2, tgt |-> 0], on |-> 0, tgt |-> 0,
         within |-> "direct", tries |-> 0]

SInit ==
  /\ env \in Environment
  /\ api = [ver |-> 2, tgt |-> 0] /\ stored = 0
  /\ switch = [s \in Switch |-> "none"] /\ restarts = 0
  /\ cur = api /\ swapping = FALSE /\ active = 0
  /\ consumer = [c \in Consumer |-> [tgt |-> 0, st |-> IF c = 1 THEN "running" ELSE "none"]]
  /\ multi = 1 /\ rebuilding = FALSE /\ lateSpawns = {} /\ cleared = FALSE
  /\ pending = 0 /\ drained = {} /\ committed = {}
  /\ task = [t \in Task |-> Idle]

At(t, p) == task[t].pc = p
Go(t, p) == task' = [task EXCEPT ![t].pc = p]
\* A task that leaves a step behind forgets what it held there.
Reset(t, p) ==
  task' = [task EXCEPT ![t] = [Idle EXCEPT !.pc = p, !.tries = task[t].tries]]
Finish(t) ==
  task' = [task EXCEPT ![t] = [Idle EXCEPT !.pc = IF t[1] \in {"poll", "op"}
                                                   THEN "idle" ELSE "done"]]

\* pollOnce returns: a poll of the interval is over, the commit closure goes on.
EndPoll(t) == IF t \in CommitCall THEN Reset(t, "polled") ELSE Finish(t)

-------------------------------------------------------------------------------
(* The api *)

\* A switch is one coroutine of TargetSwitch: it commits with or without answers.
BeginSwitch(s) ==
  /\ s <= env.switches /\ switch[s] = "none" /\ \A r \in Switch : r < s => switch[r] # "none"
  /\ switch' = [switch EXCEPT ![s] = "preparing"]
  /\ stored' = s
  /\ UNCHANGED <<env, api, restarts, cleared, watchVars, runtimeVars, adminVars, task>>

CommitSwitch(s) ==
  /\ switch[s] = "preparing"
  /\ switch' = [switch EXCEPT ![s] = "committed"]
  /\ api' = [ver |-> api.ver + 1, tgt |-> s]
  /\ UNCHANGED <<env, stored, restarts, cleared, watchVars, runtimeVars, adminVars, task>>

RestartApi ==
  /\ restarts < env.restarts
  /\ restarts' = restarts + 1
  /\ api' = [ver |-> 2, tgt |-> stored]
  /\ switch' = [s \in Switch |-> IF switch[s] = "preparing" THEN "dead" ELSE switch[s]]
  /\ UNCHANGED <<env, stored, cleared, watchVars, runtimeVars, adminVars, task>>

-------------------------------------------------------------------------------
(* rebuild and haltAndFlush *)

Unused(c) ==
  \/ consumer[c].st = "none"
  \/ /\ consumer[c].st = "stopped" /\ c # multi
     /\ \A t \in Task : ~(task[t].pc \in {"stop", "drain", "latedrain"} /\ task[t].on = c)

\* multi.stop(): the first call ends the loops, later calls wait for the same end.
StopMulti ==
  consumer' = [consumer EXCEPT ![multi].st = IF @ = "running" THEN "stopping" ELSE @]

Wait(t, p, w) ==
  task' = [task EXCEPT ![t] = [Idle EXCEPT !.pc = p, !.on = multi, !.within = w,
                                           !.tries = task[t].tries]]
Spawning(t, w, tgt) ==
  task' = [task EXCEPT ![t] = [Idle EXCEPT !.pc = "spawn", !.tgt = tgt, !.within = w,
                                           !.tries = task[t].tries]]

\* RebuildBusyError: 409 for an operator, a retry of the commit closure.
Busy(t) ==
  /\ IF t \in CommitCall /\ task[t].tries + 1 < Try
     THEN task' = [task EXCEPT ![t] = [Idle EXCEPT !.pc = "sleep", !.tries = task[t].tries + 1]]
     ELSE Finish(t)
  /\ UNCHANGED <<runtimeVars, swapping, adminVars>>

\* Drain the previous consumer, if there is one, and spawn the next.
Drain(t, w, tgt) ==
  /\ rebuilding' = TRUE
  /\ IF multi # 0
     THEN StopMulti /\ Wait(t, "stop", w)
     ELSE Spawning(t, w, tgt) /\ UNCHANGED consumer
  /\ UNCHANGED <<multi, lateSpawns, adminVars>>

\* Mutant: the mutex is not tested.
Rebuild_NoMutex(t) == Drain(t, "direct", active) /\ UNCHANGED <<swapping, active>>

\* rebuild as called by an operator or by the commit closure.
Rebuild(t) ==
  /\ IF rebuilding THEN Busy(t) ELSE Drain(t, "direct", active) /\ UNCHANGED swapping
  /\ UNCHANGED active

\* What the caller of rebuild does with its result.
Returned(t, ok) ==
  IF task[t].within = "swap"
  THEN swapping' = FALSE /\ EndPoll(t) /\ UNCHANGED adminVars
  ELSE /\ UNCHANGED swapping
       /\ Finish(t)
       /\ IF t \in CommitCall /\ ok
          THEN pending' = 0 /\ committed' = committed \cup {t[2]} /\ UNCHANGED drained
          ELSE UNCHANGED adminVars

\* Mutant: the client is captured when the rebuild starts.
AfterStop_EarlyClient(t) ==
  /\ At(t, "stop") /\ consumer[task[t].on].st = "stopped"
  /\ Spawning(t, task[t].within, consumer[task[t].on].tgt)
  /\ UNCHANGED <<multi, consumer, rebuilding, lateSpawns, serverVars, watchVars, adminVars>>

\* The consumer the task waited for has stopped.
AfterStop(t) ==
  /\ At(t, "stop") /\ consumer[task[t].on].st = "stopped"
  /\ IF t = <<"op", "halt">>
     THEN multi' = 0 /\ Reset(t, "flush")
     ELSE Spawning(t, task[t].within, active) /\ UNCHANGED multi
  /\ UNCHANGED <<consumer, rebuilding, lateSpawns, serverVars, watchVars, adminVars>>

Flushed(t) ==
  /\ At(t, "flush")
  /\ Spawning(t, "direct", active)
  /\ UNCHANGED <<serverVars, watchVars, runtimeVars, adminVars>>

NewConsumer(c, tgt) ==
  /\ Unused(c) /\ \A d \in Consumer : Unused(d) => c <= d
  /\ consumer' = [consumer EXCEPT ![c] = [tgt |-> tgt, st |-> "running"]]

SpawnDone(t) ==
  /\ At(t, "spawn")
  /\ \E c \in Consumer : NewConsumer(c, task[t].tgt) /\ multi' = c
  /\ rebuilding' = FALSE
  /\ Returned(t, TRUE)
  /\ UNCHANGED <<lateSpawns, serverVars, cur, active>>

\* ensureGroupsForShards throws, for one because the watcher has disconnected
\* the client meanwhile.  multi still is the stopped consumer.
SpawnFails(t) ==
  /\ At(t, "spawn") /\ (env.faulty \/ task[t].tgt # active)
  /\ rebuilding' = FALSE
  /\ Returned(t, FALSE)
  /\ UNCHANGED <<consumer, multi, lateSpawns, serverVars, cur, active>>

\* RebuildTimeoutError: the reference is dropped, the stop or spawn goes on.
RebuildTimeout(t) ==
  /\ env.faulty
  /\ At(t, "stop") \/ At(t, "spawn")
  /\ rebuilding' = FALSE /\ multi' = 0
  /\ lateSpawns' = IF At(t, "spawn") THEN lateSpawns \cup {task[t].tgt} ELSE lateSpawns
  /\ Returned(t, FALSE)
  /\ UNCHANGED <<consumer, serverVars, cur, active>>

LateSpawn(tgt) ==
  /\ tgt \in lateSpawns
  /\ lateSpawns' = lateSpawns \ {tgt}
  /\ \E c \in Consumer : NewConsumer(c, tgt)
  /\ UNCHANGED <<multi, rebuilding, serverVars, watchVars, adminVars, task>>

Stopped(c) ==
  /\ consumer[c].st = "stopping"
  /\ consumer' = [consumer EXCEPT ![c].st = "stopped"]
  /\ UNCHANGED <<multi, rebuilding, lateSpawns, serverVars, watchVars, adminVars, task>>

OpRequest(t) ==
  /\ t[1] = "op" /\ t[2] \in env.ops /\ At(t, "idle")
  /\ IF t = <<"op", "halt">> /\ ~rebuilding /\ multi = 0
     THEN /\ rebuilding' = TRUE /\ Go(t, "flush")
          /\ UNCHANGED <<consumer, multi, lateSpawns, swapping, active, adminVars>>
     ELSE Rebuild(t)
  /\ UNCHANGED <<serverVars, cur>>

\* POST /ingest/shards/reset: the way out of a rebuild that hangs.  The flag and
\* the reference are dropped, nothing is awaited, and what ran runs on.
ResetShards ==
  /\ "reset" \in env.ops
  /\ rebuilding' = FALSE /\ multi' = 0
  /\ cleared' = TRUE
  /\ UNCHANGED <<env, api, stored, switch, restarts, consumer, lateSpawns, watchVars,
                 adminVars, task>>

-------------------------------------------------------------------------------
(* The watcher: pollOnce, by the interval and by the commit route *)

PollSent(t) ==
  /\ t[1] = "poll" /\ t[2] \in env.polls /\ At(t, "idle")
  /\ Go(t, "fetch")
  /\ UNCHANGED <<serverVars, watchVars, runtimeVars, adminVars>>

PollServed(t) ==
  /\ At(t, "fetch")
  /\ task' = [task EXCEPT ![t].pc = "reply", ![t].got = api]
  /\ UNCHANGED <<serverVars, watchVars, runtimeVars, adminVars>>

PollFails(t) ==
  /\ env.flaky
  /\ At(t, "fetch")
  /\ EndPoll(t)
  /\ UNCHANGED <<serverVars, watchVars, runtimeVars, adminVars>>

\* swapTo.  The version is recorded before the consumers are rebuilt.
SwapTo(t) ==
  /\ At(t, "reply")
  /\ IF task[t].got.ver = cur.ver \/ swapping
     THEN EndPoll(t) /\ UNCHANGED <<watchVars, runtimeVars, adminVars>>
     ELSE /\ cur' = task[t].got /\ active' = cur'.tgt
          /\ IF rebuilding
             THEN /\ EndPoll(t)
                  /\ UNCHANGED <<swapping, runtimeVars, adminVars>>
             ELSE swapping' = TRUE /\ Drain(t, "swap", task[t].got.tgt)
  /\ UNCHANGED serverVars

\* pollOnce returned; the commit route rebuilds unless a consumer is there.
AfterPoll(t) ==
  /\ At(t, "polled")
  /\ IF multi = 0 THEN Rebuild(t)
     ELSE /\ pending' = 0 /\ committed' = committed \cup {t[2]}
          /\ Finish(t)
          /\ UNCHANGED <<drained, runtimeVars, swapping, active>>
  /\ UNCHANGED <<serverVars, cur>>

-------------------------------------------------------------------------------
(* The prepare and commit routes *)

\* The api sends prepare before it commits; on a slow network it arrives later.
PrepareRequest(t) ==
  /\ t \in PrepareCall /\ env.push /\ At(t, "idle")
  /\ switch[t[2]] \in {"preparing"} \cup IF env.faulty THEN {"committed"} ELSE {}
  /\ IF multi = 0
     THEN /\ pending' = t[2] /\ drained' = drained \cup {t[2]}
          /\ Finish(t)
          /\ UNCHANGED <<committed, consumer>>
     ELSE /\ StopMulti /\ Wait(t, "drain", "direct")
          /\ UNCHANGED adminVars
  /\ UNCHANGED <<multi, rebuilding, lateSpawns, serverVars, watchVars>>

\* setMulti(null) follows the stop, in time or after the 504.
AfterDrain(t) ==
  /\ At(t, "drain") \/ At(t, "latedrain")
  /\ consumer[task[t].on].st = "stopped"
  /\ multi' = 0
  /\ IF At(t, "drain")
     THEN pending' = t[2] /\ drained' = drained \cup {t[2]} /\ UNCHANGED committed
     ELSE UNCHANGED adminVars
  /\ Finish(t)
  /\ UNCHANGED <<consumer, rebuilding, lateSpawns, serverVars, watchVars>>

DrainTimeout(t) ==
  /\ env.faulty /\ At(t, "drain")
  /\ Go(t, "latedrain")
  /\ UNCHANGED <<serverVars, watchVars, runtimeVars, adminVars>>

CommitRequest(t) ==
  /\ t \in CommitCall /\ env.push /\ switch[t[2]] = "committed"
  /\ At(t, "idle") \/ At(t, "sleep")
  /\ IF pending \in {0, t[2]} THEN Go(t, "fetch") ELSE Finish(t)
  /\ UNCHANGED <<serverVars, watchVars, runtimeVars, adminVars>>

-------------------------------------------------------------------------------
Ready(t) ==
  \/ At(t, "polled")
  \/ task[t].pc \in {"stop", "drain", "latedrain"} /\ consumer[task[t].on].st = "stopped"

Quiet == \A t \in Task : ~Ready(t)

Continue(t) == AfterPoll(t) \/ AfterStop(t) \/ AfterDrain(t)

Event(t) ==
  \/ PollSent(t) \/ PollServed(t) \/ PollFails(t) \/ SwapTo(t)
  \/ OpRequest(t) \/ PrepareRequest(t) \/ CommitRequest(t)
  \/ Flushed(t) \/ SpawnDone(t) \/ SpawnFails(t) \/ RebuildTimeout(t) \/ DrainTimeout(t)

ApiStep == RestartApi \/ \E s \in Switch : BeginSwitch(s) \/ CommitSwitch(s)

SNext ==
  \/ \E t \in Task : Continue(t)
  \/ Quiet /\ \E t \in Task : Event(t)
  \/ Quiet /\ \E c \in Consumer : Stopped(c)
  \/ Quiet /\ \E tgt \in TargetId : LateSpawn(tgt)
  \/ Quiet /\ (ApiStep \/ ResetShards)

\* The poll interval and the timeouts fire, queued continuations run, a poll or
\* a spawn tried again and again succeeds in the end.  A switch commits, whatever
\* the services answer.  A consumer told to stop stops unless env.faulty.
SFairness ==
  /\ WF_svars(\E t \in Task : Continue(t))
  /\ \A t \in Task :
       t[1] = "poll" => WF_svars(Quiet /\ (PollSent(t) \/ SwapTo(t)))
  /\ SF_svars(Quiet /\ \E t \in Task : t[1] = "poll" /\ PollServed(t))
  /\ SF_svars(Quiet /\ \E t \in Task : SpawnDone(t))
  /\ WF_svars(Quiet /\ \E t \in Task : Flushed(t) \/ RebuildTimeout(t))
  /\ WF_svars(Quiet /\ ~env.faulty /\ \E c \in Consumer : Stopped(c))
  /\ WF_svars(Quiet /\ \E s \in Switch : CommitSwitch(s))

SSpec == SInit /\ [][SNext]_svars /\ SFairness

-------------------------------------------------------------------------------
(* Properties *)

SwapTypes ==
  /\ env \in Environment
  /\ api \in Served /\ cur \in Served
  /\ stored \in TargetId /\ active \in TargetId /\ lateSpawns \subseteq TargetId
  /\ switch \in [Switch -> {"none", "preparing", "committed", "dead"}]
  /\ restarts \in 0..env.restarts
  /\ swapping \in BOOLEAN /\ rebuilding \in BOOLEAN /\ cleared \in BOOLEAN
  /\ consumer \in [Consumer -> [tgt : TargetId, st : {"none", "running", "stopping", "stopped"}]]
  /\ multi \in Consumer \cup {0} /\ (multi # 0 => consumer[multi].st # "none")
  /\ pending \in Switch \cup {0} /\ drained \subseteq Switch /\ committed \subseteq Switch
  /\ task \in [Task -> [pc : Pc, got : Served, on : Consumer \cup {0}, tgt : TargetId,
                        within : Within, tries : 0..(Try - 1)]]

InRebuild(t) == task[t].pc \in {"stop", "flush", "spawn"}

\* One rebuild, reshard, target swap or halt at a time, and the flag never
\* outlives it: "a single in-flight mutex serialises rebuilds", until an operator
\* clears it.  The watcher's own flag, which the reset leaves alone, always says
\* whether a swap of its own is rebuilding, and there is one at most.
MutexHeld ==
  LET Rebuilding == {t \in Task : InRebuild(t)}
      Swap == {t \in Rebuilding : task[t].within = "swap"}
  IN  /\ ~cleared => Cardinality(Rebuilding) = IF rebuilding THEN 1 ELSE 0
      /\ Cardinality(Swap) = IF swapping THEN 1 ELSE 0

Alive(c) == consumer[c].st \in {"running", "stopping"}

\* Rebuilds exclude each other, and without faults swaps, reshards, halts and
\* drains that overlap never leave two consumers of the group at work, nor one the
\* runtime has lost track of.  (A spawn that outlives its timeout cannot be taken
\* back, nor the consumer that POST /ingest/shards/reset abandons: "any in-flight
\* messages owned by the abandoned multi may be lost".)
OneConsumer ==
  MutexHeld /\ (~env.faulty /\ ~cleared => \A c \in Consumer : Alive(c) => c = multi)

Bound == multi # 0 /\ consumer[multi] = [tgt |-> api.tgt, st |-> "running"]

\* Operators and faults apart, either the polls alone or one pushed switch.
Calm == ~env.faulty /\ env.ops = {} /\ (env.push => env.switches = 1 /\ ~env.flaky)

\* Left alone, ingest ends up reading from the target in force, with that one
\* consumer, however many switches the polls see, fail to see or see out of order,
\* and however one pushed switch and the polls interleave.
Converged == Calm => Bound /\ \A c \in Consumer : Alive(c) => c = multi
\* The polling is "the safety net": "the polling fallback still converges within
\* 30s".
PollingConverges == <>[]Bound
===============================================================================
