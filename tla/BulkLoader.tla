------------------------------ MODULE BulkLoader ------------------------------
(***************************************************************************)
(* The bulk-loader service (services/bulk-loader/src): POST /load/rows     *)
(* admits a body into the dispatcher of the bound Redis or answers 429 or  *)
(* 503; workers buffer rows, flush them in pipelines, retry and            *)
(* dead-letter; a watcher polls the api and swaps pool, dispatcher and     *)
(* checkpointer when the active target changes; a second poll only looks   *)
(* for divergence.  The api is the abstract ActiveTarget; a producer may   *)
(* post a body more than once.                                             *)
(*                                                                         *)
(* Reply processing of a pipeline is one step, the dead-letter XADDs it    *)
(* awaits included; rows carry no fields beyond being malformed or not.    *)
(***************************************************************************)
EXTENDS ActiveTarget, Integers, Sequences, FiniteSets, SequencesExt

CONSTANTS
  NumWorkers, BatchSize, HighWater, MaxRetries,   \* configuration
  Body, RowsOf,      \* what producers send: each body is a sequence of rows
  Malformed,         \* rows without a writable field
  MaxPosts,          \* bound: times one body is admitted
  MaxSwitches        \* bound: switches of the api

Worker == 0 .. NumWorkers - 1
Row == UNION {Range(RowsOf[b]) : b \in Body}
MaxRuntimes == MaxSwitches + 2

ASSUME BulkAssumption ==
  /\ {NumWorkers, BatchSize, HighWater, MaxRetries} \subseteq Nat \ {0}
  /\ RowsOf \in [Body -> Seq(Nat)] /\ Malformed \subseteq Nat
  /\ MaxPosts \in Nat /\ MaxSwitches \in Nat
  /\ NoTarget \notin Target

VARIABLES
  runtimes,   \* every pool with its dispatcher, in the order they were built
  state,      \* BulkLoaderState; cur is the runtime it points at, 0 for none
  swap,       \* where swapTarget waits
  watch,      \* the active-target watcher: its poll and the version it holds
  staleness,  \* the answer the divergence poll waits to apply, or NoTarget
  boot,       \* the Redis of the background build of index.ts, NoTarget when done
  raced,      \* history: a swap was begun while that build was under way
  posts,      \* how often each body was admitted
  owed,       \* rows admitted, with the Redis the loader was bound to
  stored,     \* rows written to each Redis, whoever flushes it later
  dead,       \* rows dead-lettered, with the Redis they were meant for
  lost        \* rows given up whose dead-letter XADD failed, likewise

api == <<target, version>>
rows == <<posts, owed>>
redis == <<stored, dead, lost>>
vars == <<api, runtimes, state, swap, watch, staleness, boot, raced, rows, redis>>

Entry == [row : Row, attempts : 0 .. MaxRetries]
PerWorker(x) == [w \in Worker |-> x]

\* createWorkerPool with createDispatcher over its clients
Fresh(t) ==
  [target |-> t, up |-> TRUE, stopped |-> FALSE, inFlight |-> 0, next |-> 0,
   buffer |-> PerWorker(<<>>), batch |-> PerWorker(<<>>), idle |-> PerWorker(FALSE)]

NoSwap == [at |-> "idle", to |-> NoTarget, of |-> 0, draining |-> {}]
Quiet == [at |-> "idle", t |-> NoTarget, v |-> 0]

BInit ==
  /\ \/ target = NoTarget /\ version = 1
     \/ target \in Target /\ version = 2
  /\ runtimes = <<>>
  /\ \E mode \in IF target = NoTarget THEN {"awaiting"} ELSE {"enabled", "disabled"} :
       state = [cur |-> 0, bound |-> target, accepting |-> TRUE, stale |-> FALSE,
                error |-> FALSE, seen |-> target, watcher |-> mode]
  /\ swap = NoSwap
  /\ watch = [poll |-> Quiet, version |-> 0]
  /\ staleness = NoTarget
  /\ boot = target /\ raced = FALSE
  /\ posts = [b \in Body |-> 0] /\ owed = {}
  /\ stored = [t \in Target |-> {}] /\ dead = {} /\ lost = {}

-------------------------------------------------------------------------------
(* Worker and dispatcher *)

\* scheduleFlush: one flush loop per worker; it takes the head of the buffer.
ScheduleFlush(d, w) ==
  IF d.batch[w] = <<>>
  THEN LET n == IF Len(d.buffer[w]) < BatchSize THEN Len(d.buffer[w]) ELSE BatchSize
       IN [d EXCEPT !.batch[w] = SubSeq(d.buffer[w], 1, n),
                    !.buffer[w] = SubSeq(d.buffer[w], n + 1, Len(d.buffer[w]))]
  ELSE d

\* The elements of a finite set of numbers, the least one first.
InOrder(S) ==
  CHOOSE f \in [1 .. Cardinality(S) -> S] : \A i, j \in DOMAIN f : i < j => f[i] < f[j]

\* Mutant: no timer is armed for a batch that is not full.
push_NoTimer(d, w, more) ==
  LET all == d.buffer[w] \o more
      n == IF d.batch[w] = <<>> /\ Len(all) >= BatchSize THEN BatchSize ELSE 0
  IN [batch  |-> IF n = 0 THEN d.batch[w] ELSE SubSeq(all, 1, n),
      buffer |-> SubSeq(all, n + 1, Len(all)),
      idle   |-> d.idle[w] /\ Len(all) < BatchSize]

\* The entries pushed to a worker one after the other: once a batch is full it
\* goes to the flush loop, unless that is busy; fewer than a batch wait for the
\* idle timer.
push(d, w, more) ==
  LET all == d.buffer[w] \o more
      n == IF d.batch[w] = <<>> /\ Len(all) >= BatchSize THEN BatchSize ELSE 0
  IN [batch  |-> IF n = 0 THEN d.batch[w] ELSE SubSeq(all, 1, n),
      buffer |-> SubSeq(all, n + 1, Len(all)),
      idle   |-> IF more = <<>> THEN d.idle[w] ELSE Len(all) - n \in 1 .. BatchSize - 1]

\* pickWorker goes round the workers: the positions of the rows that w is given.
Share(d, w, seq) == {i \in DOMAIN seq : (d.next + i - 1) % NumWorkers = w}

Entries(d, w, seq) ==
  [k \in 1 .. Cardinality(Share(d, w, seq)) |->
     [row |-> seq[InOrder(Share(d, w, seq))[k]], attempts |-> 0]]

\* enqueue, for the rows of one body, counts each row before its worker is asked;
\* a stopped worker throws.
enqueue(d, seq) ==
  LET counted == [d EXCEPT !.inFlight = @ + Len(seq), !.next = (@ + Len(seq)) % NumWorkers]
  IN IF d.stopped THEN counted
     ELSE [counted EXCEPT
             !.buffer = [w \in Worker |-> push(d, w, Entries(d, w, seq)).buffer],
             !.batch  = [w \in Worker |-> push(d, w, Entries(d, w, seq)).batch],
             !.idle   = [w \in Worker |-> push(d, w, Entries(d, w, seq)).idle]]

\* drain, its part before the first await
StartDrain(d) ==
  [d EXCEPT !.idle = PerWorker(FALSE),
            !.batch = [w \in Worker |-> ScheduleFlush(d, w).batch[w]],
            !.buffer = [w \in Worker |-> ScheduleFlush(d, w).buffer[w]]]

Flushing(d) == {w \in Worker : d.batch[w] # <<>>}

\* drain of a dispatcher, for the swap to wait at "at" until it is over
AwaitDrain(at, t, g, d) ==
  /\ runtimes' = [runtimes EXCEPT ![g] = StartDrain(d)]
  /\ swap' = [at |-> at, to |-> t, of |-> g, draining |-> Flushing(StartDrain(d))]

\* A drain has seen off a worker once its flush loop ends, whatever comes later.
DrainSeen(g, d) ==
  swap' = IF g = swap.of THEN [swap EXCEPT !.draining = @ \cap Flushing(d)] ELSE swap

-------------------------------------------------------------------------------
(* Flushing *)

IdleTimer(g, w) ==
  /\ runtimes[g].idle[w]
  /\ runtimes' = [runtimes EXCEPT ![g] = ScheduleFlush([@ EXCEPT !.idle[w] = FALSE], w)]
  /\ UNCHANGED <<api, state, swap, watch, staleness, boot, raced, rows, redis>>

\* Mutant: one settle per batch instead of one per row.
settle_PerBatch(d, n) == [d EXCEPT !.inFlight = IF @ < 1 THEN 0 ELSE @ - 1]

\* onSettle: n rows of the dispatcher are stored or dead-lettered.
settle(d, n) == [d EXCEPT !.inFlight = IF @ < n THEN 0 ELSE @ - n]

\* Retried rows go back to the front, the last one first; the loop goes on.
Requeue(d, w, entries) ==
  [d EXCEPT !.buffer[w] = Reverse(entries) \o @, !.batch[w] = <<>>]

\* What a reply comes to when it names the rows of the batch that failed, those of
\* them for good, those it wrote and those whose dead letter was refused.
Replies(g, w, failed, permanent, wrote, gone) ==
  LET d == runtimes[g]
      batch == d.batch[w]
      kept == {i \in failed \ permanent : batch[i].attempts + 1 < MaxRetries}
      given == {i \in DOMAIN batch : batch[i].row \in Malformed} \cup (failed \ kept)
      again == [i \in 1 .. Cardinality(kept) |->
                 LET e == batch[InOrder(kept)[i]]
                 IN [e EXCEPT !.attempts = @ + 1]]
      left == settle(Requeue(d, w, again), Len(batch) - Cardinality(kept))
      next == ScheduleFlush(left, w)
  IN
  /\ gone \subseteq given
  /\ d.up \/ (wrote = {} /\ gone = given)
  /\ runtimes' = [runtimes EXCEPT ![g] = next]
  /\ stored' = [stored EXCEPT ![d.target] = @ \cup {batch[i].row : i \in wrote}]
  /\ dead' = dead \cup {<<batch[i].row, d.target>> : i \in given \ gone}
  /\ lost' = lost \cup {<<batch[i].row, d.target>> : i \in gone}
  /\ DrainSeen(g, next)

\* flushBatch from the reply on: malformed rows were never sent; the pipeline
\* may have written the rows whose reply is an error or lost; a failed row is
\* retried until its attempts run out, unless its error is permanent.  A row given
\* up is settled although the XADD of its dead letter may fail: it is only logged.
FlushReply(g, w) ==
  LET batch == runtimes[g].batch[w]
      sent == {i \in DOMAIN batch : batch[i].row \notin Malformed}
  IN
  /\ batch # <<>>
  /\ \E failed \in SUBSET sent : \E permanent \in SUBSET failed :
     \E wrote \in {sent \ failed, sent} : \E gone \in SUBSET DOMAIN batch :
       Replies(g, w, failed, permanent, wrote, gone)
  /\ UNCHANGED <<api, state, watch, staleness, boot, raced, rows>>

-------------------------------------------------------------------------------
(* HTTP *)

\* Under the limit enqueue never waits, so that its queue of waiters stays empty.
Admissible(d, n) == d.inFlight + n <= HighWater

\* What /load/rows refuses with a 503 before it looks at the limit.
Refusing == state.cur = 0 \/ state.stale \/ ~state.accepting

\* POST /load/rows, again when the producer missed the 202.  A stopped dispatcher has counted the rows when its workers throw: 500.
LoadRows(b) ==
  /\ posts[b] < MaxPosts
  /\ ~Refusing
  /\ LET d == runtimes[state.cur] IN
     /\ Admissible(d, Len(RowsOf[b]))
     /\ runtimes' = [runtimes EXCEPT ![state.cur] = enqueue(d, RowsOf[b])]
     /\ IF d.stopped
        THEN UNCHANGED rows
        ELSE /\ posts' = [posts EXCEPT ![b] = @ + 1]
             /\ owed' = owed \cup {<<r, state.bound>> : r \in Range(RowsOf[b])}
  /\ UNCHANGED <<api, state, swap, watch, staleness, boot, raced, redis>>

LoadStart ==
  /\ ~state.accepting
  /\ state' = [state EXCEPT !.accepting = TRUE]
  /\ UNCHANGED <<api, runtimes, swap, watch, staleness, boot, raced, rows, redis>>

LoadStop ==
  /\ state.accepting
  /\ state' = [state EXCEPT !.accepting = FALSE]
  /\ UNCHANGED <<api, runtimes, swap, watch, staleness, boot, raced, rows, redis>>

-------------------------------------------------------------------------------
(* Following the api *)

ApiSwitch(t) ==
  /\ version < 2 + MaxSwitches /\ t # target
  /\ Commit(t)
  /\ UNCHANGED <<runtimes, state, swap, watch, staleness, boot, raced, rows, redis>>

\* Mutant: divergence is left to the watcher, a disabled or failed one too.
updateApiActiveTarget_TrustsWatcher(st, t) ==
  [st EXCEPT !.seen = t,
             !.stale = IF st.bound = NoTarget THEN @
                       ELSE st.bound # t /\ @]

updateApiActiveTarget(st, t) ==
  [st EXCEPT !.seen = t,
             !.stale = IF st.bound = NoTarget THEN @
                       ELSE st.bound # t /\ (@ \/ st.watcher = "disabled" \/ st.error)]

\* The divergence poll: asked, and answered when the answer arrives.
StaleCheck ==
  /\ staleness = NoTarget /\ target # NoTarget
  /\ staleness' = target
  /\ UNCHANGED <<api, runtimes, state, swap, watch, boot, raced, rows, redis>>

StaleAnswer ==
  /\ staleness # NoTarget
  /\ state' = updateApiActiveTarget(state, staleness)
  /\ staleness' = NoTarget
  /\ UNCHANGED <<api, runtimes, swap, watch, boot, raced, rows, redis>>

\* pollOnce and the first poll of start: one at a time, swap included.
WatcherPoll ==
  /\ state.watcher # "disabled"
  /\ watch.poll.at = "idle" /\ swap.at = "idle" /\ target # NoTarget
  /\ watch' = [watch EXCEPT !.poll = [at |-> "asked", t |-> target, v |-> version]]
  /\ UNCHANGED <<api, runtimes, state, swap, staleness, boot, raced, rows, redis>>

\* applySwitch records the version before swapTarget runs.  swapTarget returns
\* at once when it is bound there and nothing failed; otherwise it refuses rows
\* and drains.
WatcherAnswer ==
  /\ watch.poll.at = "asked"
  /\ watch' = [poll |-> Quiet, version |-> watch.poll.v]
  /\ LET t == watch.poll.t
         polled == updateApiActiveTarget(state, t)
     IN
     IF watch.poll.v = watch.version
     THEN state' = polled /\ UNCHANGED <<runtimes, swap, raced>>
     ELSE IF state.bound = t /\ ~state.error
     THEN state' = [polled EXCEPT !.stale = FALSE] /\ UNCHANGED <<runtimes, swap, raced>>
     ELSE /\ state' = [polled EXCEPT !.accepting = FALSE]
          /\ raced' = (raced \/ boot # NoTarget)
          /\ IF state.cur = 0
             THEN swap' = [NoSwap EXCEPT !.at = "build", !.to = t] /\ UNCHANGED runtimes
             ELSE AwaitDrain("drain", t, state.cur, runtimes[state.cur])
  /\ UNCHANGED <<api, staleness, boot, rows, redis>>

-------------------------------------------------------------------------------
(* swapTarget after its first await *)

Drained(at) == swap.at = at /\ swap.draining = {}

\* The drain is over in time; the checkpointer writes its last record.
SwapDrained ==
  /\ Drained("drain")
  /\ swap' = [swap EXCEPT !.at = "checkpoint"]
  /\ UNCHANGED <<api, runtimes, state, watch, staleness, boot, raced, rows, redis>>

\* Mutant: the failure is recorded but does not mark the target stale.
SwapFailed_NotStale(st) == [st EXCEPT !.error = TRUE]

SwapFailed(st) == [st EXCEPT !.error = TRUE, !.stale = TRUE]

\* The drain is given up: the old runtime stays in place.
SwapTimeout ==
  /\ swap.at = "drain" /\ swap.draining # {}
  /\ state' = SwapFailed(state)
  /\ swap' = NoSwap
  /\ UNCHANGED <<api, runtimes, watch, staleness, boot, raced, rows, redis>>

\* dispatcher.stop drains first, rows admitted since the swap's own drain included.
SwapStop ==
  /\ swap.at = "checkpoint"
  /\ AwaitDrain("stop", swap.to, state.cur, runtimes[state.cur])
  /\ UNCHANGED <<api, state, watch, staleness, boot, raced, rows, redis>>

\* From here push throws; what was pushed before is drained by worker.stop.
StopWorkers(d) == [d EXCEPT !.stopped = TRUE]

SwapStopWorkers ==
  /\ Drained("stop")
  /\ AwaitDrain("stopping", swap.to, swap.of, StopWorkers(runtimes[swap.of]))
  /\ UNCHANGED <<api, state, watch, staleness, boot, raced, rows, redis>>

\* Mutant: the clients are disconnected while the workers still drain.
SwapPoolStop_Hasty ==
  /\ swap.at = "stopping"
  /\ runtimes' = [runtimes EXCEPT ![swap.of].up = FALSE]
  /\ swap' = [swap EXCEPT !.at = "build"]
  /\ UNCHANGED <<api, state, watch, staleness, boot, raced, rows, redis>>

SwapPoolStop ==
  /\ Drained("stopping")
  /\ runtimes' = [runtimes EXCEPT ![swap.of].up = FALSE]
  /\ swap' = [swap EXCEPT !.at = "build"]
  /\ UNCHANGED <<api, state, watch, staleness, boot, raced, rows, redis>>

SwapBuilt ==
  /\ swap.at = "build"
  /\ runtimes' = Append(runtimes, Fresh(swap.to))
  /\ state' = [cur |-> Len(runtimes) + 1, bound |-> swap.to, accepting |-> TRUE,
               stale |-> FALSE, error |-> FALSE, seen |-> swap.to,
               watcher |-> IF state.watcher = "awaiting" THEN "enabled" ELSE state.watcher]
  /\ swap' = NoSwap
  /\ UNCHANGED <<api, watch, staleness, boot, raced, rows, redis>>

SwapBuildFailed ==
  /\ swap.at = "build"
  /\ state' = SwapFailed(state)
  /\ swap' = NoSwap
  /\ UNCHANGED <<api, runtimes, watch, staleness, boot, raced, rows, redis>>

\* The background build of the boot wires its runtime without regard to a swap.
BootBuilt ==
  /\ boot # NoTarget
  /\ runtimes' = Append(runtimes, Fresh(boot))
  /\ state' = [state EXCEPT !.cur = Len(runtimes) + 1]
  /\ boot' = NoTarget
  /\ UNCHANGED <<api, swap, watch, staleness, raced, rows, redis>>

BootFailed ==
  /\ boot # NoTarget
  /\ state' = [state EXCEPT !.error = TRUE]
  /\ boot' = NoTarget
  /\ UNCHANGED <<api, runtimes, swap, watch, staleness, raced, rows, redis>>

-------------------------------------------------------------------------------
Flush == \E g \in DOMAIN runtimes, w \in Worker : IdleTimer(g, w) \/ FlushReply(g, w)

SwapGoesOn ==
  \/ SwapDrained \/ SwapTimeout \/ SwapStop \/ SwapStopWorkers \/ SwapPoolStop
  \/ SwapBuilt \/ SwapBuildFailed

BNext ==
  \/ Flush
  \/ \E b \in Body : LoadRows(b)
  \/ LoadStart \/ LoadStop
  \/ \E t \in Target : ApiSwitch(t)
  \/ StaleCheck \/ StaleAnswer
  \/ WatcherPoll \/ WatcherAnswer
  \/ SwapGoesOn
  \/ BootBuilt \/ BootFailed

\* Commands are bounded by commandTimeout, idle timers fire, both polls repeat,
\* the drain of a swap has a timeout and builds end.  Nobody has to post rows.
Fairness ==
  /\ WF_vars(Flush)
  /\ WF_vars(StaleCheck \/ StaleAnswer)
  /\ WF_vars(WatcherPoll \/ WatcherAnswer)
  /\ WF_vars(SwapGoesOn)
  /\ WF_vars(BootBuilt \/ BootFailed)

BSpec == BInit /\ [][BNext]_vars /\ Fairness

-------------------------------------------------------------------------------
(* Properties *)

Runtime ==
  [target : Target, up : BOOLEAN, stopped : BOOLEAN, inFlight : Nat, next : Worker,
   buffer : [Worker -> Seq(Entry)], batch : [Worker -> Seq(Entry)], idle : [Worker -> BOOLEAN]]

Maybe == Target \cup {NoTarget}

BTypeOK ==
  /\ target \in Maybe /\ version \in Nat
  /\ runtimes \in Seq(Runtime)
  /\ state \in [cur : 0 .. Len(runtimes), bound : Maybe, accepting : BOOLEAN, stale : BOOLEAN,
                error : BOOLEAN, seen : Maybe, watcher : {"awaiting", "enabled", "disabled"}]
  /\ swap \in [at : {"idle", "drain", "checkpoint", "stop", "stopping", "build"}, to : Maybe,
               of : 0 .. Len(runtimes), draining : SUBSET Worker]
  /\ watch \in [poll : [at : {"idle", "asked"}, t : Maybe, v : Nat], version : Nat]
  /\ staleness \in Maybe /\ boot \in Maybe /\ raced \in BOOLEAN
  /\ posts \in [Body -> Nat] /\ owed \subseteq Row \X Maybe
  /\ stored \in [Target -> SUBSET Row] /\ dead \subseteq Row \X Target
  /\ lost \subseteq Row \X Target

Held(d) == {e.row : e \in UNION {Range(d.buffer[w]) \cup Range(d.batch[w]) : w \in Worker}}

Places(d, w) == {w} \X (1 .. Len(d.buffer[w]) + Len(d.batch[w]))
HeldBy(d) == Cardinality(UNION {Places(d, w) : w \in Worker})

\* The limit on rows in flight is kept by counting up in enqueue and down in the
\* workers: as long as no push was refused, the counter is what the workers hold.
InFlightIsHeld ==
  \A g \in DOMAIN runtimes :
    ~runtimes[g].stopped => runtimes[g].inFlight = HeldBy(runtimes[g])

\* A row answered 202 is stored in, or dead-lettered for, the Redis the loader
\* named as bound when it took it, or was given up with a dead letter that Redis
\* refused, or is held by a pool that still reaches that Redis: no swap, retry or
\* timeout loses it or sends it elsewhere.  Not so once a swap was begun while
\* the boot runtime was built: that runtime is then wired over the swap's.
AcceptedIsKept ==
  \A o \in owed :
    \/ raced
    \/ o[1] \in stored[o[2]]
    \/ o \in dead \cup lost
    \/ \E g \in DOMAIN runtimes :
         runtimes[g].up /\ runtimes[g].target = o[2] /\ o[1] \in Held(runtimes[g])

\* After a failed swap the loader does not take rows while it knows the api to be
\* elsewhere, whoever calls /load/start, unless a swap raced the boot.
FailsLoud ==
  ~raced /\ state.error /\ state.seen \notin {NoTarget, state.bound}
    => Refusing \/ runtimes[state.cur].stopped

\* Every row admitted is flushed or given up in the end.
RowsSettle == []<>(\A g \in DOMAIN runtimes : HeldBy(runtimes[g]) = 0)

\* Once the api has stopped switching, the loader is on its target or takes no
\* rows, whichever swaps failed and whatever order the two polls are answered in,
\* unless a swap raced the boot.
FollowsOrRefuses ==
  <>[](raced \/ Refusing \/ runtimes[state.cur].stopped \/ runtimes[state.cur].target = target)
===============================================================================
