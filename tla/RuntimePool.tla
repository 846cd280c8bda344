----------------------------- MODULE RuntimePool ------------------------------
(***************************************************************************)
(* One of the api's runtime Redis pools (services/api/src/active-target.ts, *)
(* acquireFromPool to runHalfOpenProbe): slots handed out round robin, each *)
(* with a lazily built client and a circuit breaker, under switches of the *)
(* active target.                                                          *)
(*                                                                         *)
(* A client has no name of its own: what the code compares is whether it   *)
(* is still the client of its slot.  Whoever holds one records where it is *)
(* now: in its slot, draining since the switch away from generation g,     *)
(* orphaned (overwritten in its slot, never disconnected), or closed.      *)
(***************************************************************************)
EXTENDS Naturals, Sequences, FiniteSets

CONSTANTS
  PoolSize,    \* getPoolSize: slots of the pool
  Caller,      \* concurrent requests that acquire a client
  Threshold,   \* getFailureThreshold
  BackoffCap,  \* half-open backoff cap, in units of the initial backoff
  MaxSwitch    \* bound: commits of a new target

VARIABLES
  gen,        \* credsGeneration, what sets the keys of two targets apart
  up,         \* environment: Redis answers every command in time
  slot,       \* the pool members
  rr,         \* rrIndex
  opened,     \* the open slots, the one with the oldest openedAt first
  draining,   \* drainingClients: the slot, and the generation switched away from
  orphans,    \* slots with a live client nothing refers to any more
  call,       \* where each request is
  pings       \* PINGs of half-open probes in flight: the slot and the client

vars == <<gen, up, slot, rr, opened, draining, orphans, call, pings>>

Slot == 0..(PoolSize - 1)
Gen == 1..(MaxSwitch + 1)
NoClient == 0
InSlot == 0
Orphan == MaxSwitch + 2
Closed == MaxSwitch + 3
Where == {InSlot, Orphan, Closed} \cup Gen
Lesser(a, b) == IF a < b THEN a ELSE b

\* An empty slot with a closed circuit; key is NoClient or the generation in
\* the targetKey of the published client.
Fresh == [key |-> NoClient, fails |-> 0, circuit |-> "closed", timer |-> FALSE, backoff |-> 0]
Idle == [pc |-> "idle", s |-> 0, gen |-> NoClient, at |-> Closed]

Init ==
  /\ gen = 1 /\ up = TRUE /\ rr = 0
  /\ slot = [s \in Slot |-> Fresh]
  /\ opened = <<>> /\ draining = {} /\ orphans = {} /\ pings = {}
  /\ call = [c \in Caller |-> Idle]

-------------------------------------------------------------------------------
(* Where the clients of slot s go *)

MovedCalls(s, from, to) ==
  [c \in Caller |-> IF call[c].pc = "command" /\ call[c].s = s /\ call[c].at = from
                    THEN [call[c] EXCEPT !.at = to] ELSE call[c]]

\* A PING on a closed client rejects at once and changes nothing.
MovedPings(s, from, to) ==
  {p \in pings : p # <<s, from>>}
    \cup (IF <<s, from>> \in pings /\ to # Closed THEN {<<s, to>>} ELSE {})

Without(q, s) == SelectSeq(q, LAMBDA x : x # s)

-------------------------------------------------------------------------------
(* transitionCircuit *)

\* The first opening waits the initial backoff, a failed half-open twice the
\* last one; an open circuit stays as it is.
OpenCircuit(m) ==
  IF m.circuit = "open" THEN m
  ELSE [m EXCEPT !.circuit = "open", !.timer = TRUE,
          !.backoff = IF m.circuit = "half-open" /\ m.backoff > 0
                      THEN Lesser(2 * m.backoff, BackoffCap) ELSE 1]

\* The slot is blanked together with the transition.
HalfOpen(m) == [m EXCEPT !.circuit = "half-open", !.timer = FALSE, !.key = NoClient]

\* Mutant: a success does not close the half-open circuit.
noteSuccess_CounterOnly(m) == [m EXCEPT !.fails = 0]

noteSuccess(m) ==
  IF m.circuit = "half-open"
  THEN [m EXCEPT !.fails = 0, !.circuit = "closed", !.timer = FALSE, !.backoff = 0]
  ELSE [m EXCEPT !.fails = 0]

\* The counter matters up to the threshold only.
noteFailure(m, fatal) ==
  LET n == Lesser(m.fails + 1, Threshold)
      counted == [m EXCEPT !.fails = n] IN
  IF m.circuit = "half-open" \/ fatal \/ n >= Threshold THEN OpenCircuit(counted) ELSE counted

\* recyclePoolMember: only when the failing client still is the slot's.
recyclePoolMember(m, at) == IF at = InSlot THEN [m EXCEPT !.key = NoClient] ELSE m

\* A failure of a client of slot s that is now at "at", settling the calls and
\* the pings given.
Failed(s, at, fatal, calls, ps) ==
  /\ slot' = [slot EXCEPT ![s] = recyclePoolMember(noteFailure(@, fatal), at)]
  /\ opened' = IF slot[s].circuit # "open" /\ slot'[s].circuit = "open"
               THEN Append(opened, s) ELSE opened
  /\ call' = calls
  /\ pings' = ps
  /\ UNCHANGED <<gen, up, rr, draining, orphans>>

-------------------------------------------------------------------------------
(* acquireFromPool *)

ClosedSlots == {s \in Slot : slot[s].circuit # "open"}

\* The first slot from rrIndex on whose circuit is not open, else the oldest.
Chosen ==
  IF ClosedSlots = {} THEN Head(opened)
  ELSE LET step == CHOOSE d \in Slot :
                     /\ (rr + d) % PoolSize \in ClosedSlots
                     /\ \A e \in 0..(d - 1) : (rr + e) % PoolSize \notin ClosedSlots
       IN (rr + step) % PoolSize

\* Mutant: any published client will do, whatever its key.
Reusable_AnyKey(m) == m.key # NoClient

Reusable(m) == m.key = gen

\* The published client is handed out, or its slot is rebuilt: the old client
\* is disconnected (blanking the slot stands for keeping a client that is
\* closed) and the new one awaits readiness.
Acquire(c) ==
  LET s == Chosen
      m == IF ClosedSlots = {} THEN HalfOpen(slot[s]) ELSE slot[s] IN
  /\ call[c].pc = "idle"
  /\ rr' = (s + 1) % PoolSize
  /\ opened' = Without(opened, s)
  /\ IF Reusable(m)
     THEN /\ call' = [call EXCEPT ![c] = [pc |-> "command", s |-> s, gen |-> NoClient, at |-> InSlot]]
          /\ slot' = [slot EXCEPT ![s] = m]
          /\ pings' = pings
     ELSE /\ call' = [MovedCalls(s, InSlot, Closed) EXCEPT
                        ![c] = [pc |-> "awaiting", s |-> s, gen |-> gen, at |-> Closed]]
          /\ slot' = [slot EXCEPT ![s] = [m EXCEPT !.key = NoClient]]
          /\ pings' = MovedPings(s, InSlot, Closed)
  /\ UNCHANGED <<gen, up, draining, orphans>>

\* The slot's client, when there is one, is dropped without a disconnect.
Orphaned(s) == IF slot[s].key = NoClient THEN orphans ELSE orphans \cup {s}

\* awaitMemberReady resolved: the client is published and handed out, whatever
\* happened to the slot or to the target meanwhile.
PublishClient(c) ==
  LET s == call[c].s IN
  /\ call[c].pc = "awaiting"
  /\ orphans' = Orphaned(s)
  /\ slot' = [slot EXCEPT ![s].key = call[c].gen]
  /\ call' = [MovedCalls(s, InSlot, Orphan) EXCEPT ![c].pc = "command", ![c].gen = NoClient,
                                                       ![c].at = InSlot]
  /\ pings' = MovedPings(s, InSlot, Orphan)
  /\ UNCHANGED <<gen, up, rr, opened, draining>>

\* The handshake failed or timed out: the slot is blanked and the call throws.
BuildFailed(c) ==
  LET s == call[c].s IN
  /\ call[c].pc = "awaiting" /\ ~up
  /\ orphans' = Orphaned(s)
  /\ slot' = [slot EXCEPT ![s].key = NoClient]
  /\ call' = [MovedCalls(s, InSlot, Orphan) EXCEPT ![c] = Idle]
  /\ pings' = MovedPings(s, InSlot, Orphan)
  /\ UNCHANGED <<gen, up, rr, opened, draining>>

-------------------------------------------------------------------------------
(* Commands through the recycle wrapper: raceWithFailFast *)

Succeeded(s, calls, ps) ==
  /\ slot' = [slot EXCEPT ![s] = noteSuccess(@)]
  /\ call' = calls
  /\ pings' = ps
  /\ UNCHANGED <<gen, up, rr, opened, draining, orphans>>

CommandSucceeds(c) ==
  /\ call[c].pc = "command" /\ call[c].at # Closed
  /\ Succeeded(call[c].s, [call EXCEPT ![c] = Idle], pings)

\* "Connection is closed", or a reply error: not counted.
CommandRejected(c) ==
  /\ call[c].pc = "command"
  /\ call[c].at = Closed \/ ~up
  /\ call' = [call EXCEPT ![c] = Idle]
  /\ UNCHANGED <<gen, up, slot, rr, opened, draining, orphans, pings>>

\* A reset connection, or (fatal) a command that timed out or was not writeable.
CommandFails(c, fatal) ==
  LET s == call[c].s
      at == call[c].at IN
  /\ call[c].pc = "command" /\ at # Closed /\ ~up
  /\ Failed(s, at, fatal,
            [(IF at = InSlot THEN MovedCalls(s, InSlot, Closed) ELSE call) EXCEPT ![c] = Idle],
            IF at = InSlot THEN MovedPings(s, InSlot, Closed) ELSE pings)

\* attachErrorRecycle: any client that is alive may report a socket error.
SocketError(s, at) ==
  /\ ~up
  /\ \/ at = InSlot /\ slot[s].key # NoClient
     \/ at = Orphan /\ s \in orphans
     \/ at \in Gen /\ <<s, at>> \in draining
     \/ at = Closed /\ \E c \in Caller : call[c].pc = "awaiting" /\ call[c].s = s
  /\ IF at = InSlot
     THEN Failed(s, at, FALSE, MovedCalls(s, InSlot, Closed), MovedPings(s, InSlot, Closed))
     ELSE Failed(s, at, FALSE, call, pings)

-------------------------------------------------------------------------------
(* Half-open probes *)

\* A timer that fires does nothing unless the circuit is open.  The shortest backoff
\* is longer than the command budget, so the last PING of the slot has settled.
Due(s) == slot[s].timer /\ \A p \in pings : p[1] # s
ProbeIdle(s) ==
  /\ Due(s) /\ slot[s].circuit # "open"
  /\ slot' = [slot EXCEPT ![s].timer = FALSE]
  /\ UNCHANGED <<gen, up, rr, opened, draining, orphans, call, pings>>

\* The client of an open slot is replaced and a PING is sent without waiting for the
\* new one to be ready.  A client that buffers the PING until it is connected
\* answers later; the one buildClient makes keeps no offline queue and rejects it at
\* once ("Stream isn't writeable"), Redis up or not: the slot is open again.
PingSent(s) ==
  /\ slot' = [slot EXCEPT ![s] = [HalfOpen(@) EXCEPT !.key = gen]]
  /\ opened' = Without(opened, s)
  /\ pings' = MovedPings(s, InSlot, Closed) \cup {<<s, InSlot>>}
PingNotWriteable(s) ==
  /\ slot' = [slot EXCEPT ![s] = noteFailure(HalfOpen(@), TRUE)]
  /\ opened' = Append(Without(opened, s), s)
  /\ pings' = MovedPings(s, InSlot, Closed)
ProbePings(s) ==
  /\ Due(s) /\ slot[s].circuit = "open"
  /\ PingSent(s) \/ PingNotWriteable(s)
  /\ call' = MovedCalls(s, InSlot, Closed)
  /\ UNCHANGED <<gen, up, rr, draining, orphans>>

runHalfOpenProbe(s) == ProbeIdle(s) \/ ProbePings(s)

PingSucceeds(p) == p \in pings /\ Succeeded(p[1], call, pings \ {p})

\* A PING that was sent fails only with its connection.
PingFails(p, fatal) ==
  /\ p \in pings /\ ~up
  /\ IF p[2] = InSlot
     THEN Failed(p[1], InSlot, fatal, MovedCalls(p[1], InSlot, Closed), pings \ {p})
     ELSE Failed(p[1], p[2], fatal, call, pings \ {p})

\* A rejection that is not counted: the slot stays half-open.
PingRejected(p) ==
  /\ p \in pings /\ ~up
  /\ pings' = pings \ {p}
  /\ UNCHANGED <<gen, up, slot, rr, opened, draining, orphans, call>>

-------------------------------------------------------------------------------
(* Switches and the environment *)

\* commitActiveTargetSync: every client leaves its slot and drains, every
\* circuit starts afresh.
detachPoolMembersForSwap ==
  /\ gen <= MaxSwitch
  /\ gen' = gen + 1
  /\ draining' = draining \cup {<<s, gen>> : s \in {x \in Slot : slot[x].key # NoClient}}
  /\ slot' = [s \in Slot |-> Fresh]
  /\ opened' = <<>>
  /\ call' = [c \in Caller |-> IF call[c].pc = "command" /\ call[c].at = InSlot
                               THEN [call[c] EXCEPT !.at = gen] ELSE call[c]]
  /\ pings' = {<<p[1], IF p[2] = InSlot THEN gen ELSE p[2]>> : p \in pings}
  /\ UNCHANGED <<up, rr, orphans>>

\* The grace period is over: the old client is disconnected.
DrainExpires(d) ==
  /\ d \in draining
  /\ draining' = draining \ {d}
  /\ call' = MovedCalls(d[1], d[2], Closed)
  /\ pings' = MovedPings(d[1], d[2], Closed)
  /\ UNCHANGED <<gen, up, slot, rr, opened, orphans>>

RedisFalters ==
  /\ up' = ~up
  /\ UNCHANGED <<gen, slot, rr, opened, draining, orphans, call, pings>>

CommandSettles(c) ==
  CommandSucceeds(c) \/ CommandRejected(c) \/ (\E fatal \in BOOLEAN : CommandFails(c, fatal))
BuildSettles(c) == PublishClient(c) \/ BuildFailed(c)
CallGoesOn(c) == Acquire(c) \/ BuildSettles(c) \/ CommandSettles(c)
PingSettles(s) ==
  \E at \in Where : \/ PingSucceeds(<<s, at>>) \/ PingRejected(<<s, at>>)
                    \/ \E fatal \in BOOLEAN : PingFails(<<s, at>>, fatal)

Next ==
  \/ \E c \in Caller : CallGoesOn(c)
  \/ \E s \in Slot : runHalfOpenProbe(s) \/ PingSettles(s)
  \/ \E s \in Slot, at \in Where : SocketError(s, at)
  \/ detachPoolMembersForSwap
  \/ \E d \in draining : DrainExpires(d)
  \/ RedisFalters

\* Timers run, every await is bounded by a timeout, and requests keep coming
\* (/readyz alone acquires every slot of every pool).
Fairness ==
  /\ \A c \in Caller : WF_vars(CallGoesOn(c))
  /\ \A s \in Slot : WF_vars(runHalfOpenProbe(s)) /\ WF_vars(PingSettles(s))

Spec == Init /\ [][Next]_vars /\ Fairness

-------------------------------------------------------------------------------
(* Properties *)

TypeOK ==
  /\ gen \in Gen /\ up \in BOOLEAN /\ rr \in Slot
  /\ slot \in [Slot -> [key : {NoClient} \cup Gen, fails : 0..Threshold,
                        circuit : {"closed", "open", "half-open"}, timer : BOOLEAN,
                        backoff : 0..BackoffCap]]
  /\ opened \in Seq(Slot) /\ draining \subseteq Slot \X Gen /\ orphans \subseteq Slot
  /\ call \in [Caller -> [pc : {"idle", "awaiting", "command"}, s : Slot,
                          gen : {NoClient} \cup Gen, at : Where]]
  /\ pings \subseteq Slot \X Where

\* A request is handed a client of the target that was active when it asked,
\* although a client of an older target may be published after the switch.
HandedAsAsked ==
  \A c \in Caller : call[c].pc # "command" /\ call'[c].pc = "command"
     => slot'[call'[c].s].key = (IF call[c].pc = "idle" THEN gen ELSE call[c].gen)
===============================================================================
