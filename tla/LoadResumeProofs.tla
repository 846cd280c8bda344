---------------------------- MODULE LoadResumeProofs ----------------------------
(***************************************************************************)
(* The resume watermark is a row that is stored, for any workers,          *)
(* producers, rows and Redis targets (LoadResume).                         *)
(***************************************************************************)
EXTENDS LoadResume, FiniteSetTheorems, NaturalsInduction, WellFoundedInduction, TLAPS

\* A set of naturals has a least element: the form of induction used below.
LEMMA LeastNumber ==
  ASSUME NEW T, T \subseteq Nat, T # {}
  PROVE  \E n \in T : \A m \in T : n <= m
<1>1. \E x \in T : \A y \in T : ~ (<<y, x>> \in OpToRel(<, Nat))
  BY NatLessThanWellFounded, WFMin
<1>2. PICK x \in T : \A y \in T : ~(y < x)
  BY <1>1 DEF OpToRel
<1> QED
  BY <1>2

\* A finite set of numbers has a greatest one: among the sets that have none, one of
\* the fewest elements has an element less that has one.
LEMMA GreatestNumber ==
  ASSUME NEW S, S \subseteq Nat, IsFiniteSet(S), S # {}
  PROVE  \E g \in S : \A m \in S : m <= g
<1> DEFINE Great(T) == \E g \in T : \A m \in T : m <= g
           Bad == {k \in Nat : \E T \in SUBSET S : T # {} /\ Cardinality(T) = k /\ ~Great(T)}
<1>1. SUFFICES ASSUME ~Great(S) PROVE FALSE
  OBVIOUS
<1>2. Bad \subseteq Nat /\ Cardinality(S) \in Bad
  BY <1>1, FS_CardinalityType
<1>3. PICK k \in Bad : \A j \in Bad : k <= j
  <2> HIDE DEF Bad
  <2> QED
    BY <1>2, LeastNumber
<1>4. PICK T \in SUBSET S : T # {} /\ Cardinality(T) = k /\ ~Great(T)
  BY <1>3
<1>5. PICK x : x \in T
  BY <1>4
<1>6. /\ IsFiniteSet(T) /\ IsFiniteSet(T \ {x})
      /\ Cardinality(T \ {x}) = k - 1 /\ Cardinality(T \ {x}) \in Nat
  BY <1>4, <1>5, FS_Subset, FS_RemoveElement, FS_CardinalityType
<1>7. CASE T \ {x} = {}
  <2>1. \A m \in T : m <= x
    BY <1>5, <1>7
  <2> QED
    BY <1>4, <1>5, <2>1
<1>8. CASE T \ {x} # {}
  <2>1. k \in Nat /\ k - 1 \in Nat /\ ~(k <= k - 1)
    BY <1>3, <1>6
  <2>2. k - 1 \notin Bad
    <3> HIDE DEF Bad
    <3> QED
      BY <1>3, <2>1
  <2>3. Great(T \ {x})
    BY <1>6, <1>8, <2>1, <2>2
  <2>4. PICK g \in T \ {x} : \A m \in T \ {x} : m <= g
    BY <2>3
  <2>5. g \in Nat /\ x \in Nat
    BY <1>5
  <2>6. \A m \in T : m <= IF x <= g THEN g ELSE x
    <3> SUFFICES ASSUME NEW m \in T PROVE m <= IF x <= g THEN g ELSE x
      OBVIOUS
    <3>1. m \in Nat /\ (m = x \/ m <= g)
      BY <2>4
    <3> QED
      BY <2>5, <3>1
  <2> QED
    BY <1>4, <1>5, <2>5, <2>6
<1> QED
  BY <1>7, <1>8

\* Highest gives an element of the set, or 0.
LEMMA HighestIn ==
  ASSUME NEW S, S \subseteq Nat, IsFiniteSet(S)
  PROVE  Highest(S) \in Nat /\ Highest(S) \in {0} \cup S
<1>1. CASE S = {}
  BY <1>1 DEF Highest
<1>2. CASE S # {}
  <2>1. \E n \in S : \A m \in S : m <= n
    BY <1>2, GreatestNumber
  <2>2. Highest(S) \in S
    BY <1>2, <2>1 DEF Highest
  <2> QED
    BY <2>2
<1> QED
  BY <1>1, <1>2

-------------------------------------------------------------------------------
(* The invariant *)

Rows == {S \in SUBSET Nat : IsFiniteSet(S)}
Process == [st : {"down", "loading", "up", "draining", "closing", "stuck"},
              on : RedisTarget \cup {"none"}, to : RedisTarget \cup {"none"}, next : Nat, built : 0..MaxRuntimes]
ProducerState == [resume : Nat, asked : BOOLEAN, rest : Rows, open : Rows]

\* The types of the watermark (LoadResume).
TypeOK ==
  /\ stored \in [RedisTarget -> Rows]
  /\ flushed \in [RedisTarget -> Rows]
  /\ hash \in [RedisTarget -> [Worker -> Nat]]
  /\ proc \in Process
  /\ boot \in [Worker -> Nat]
  /\ reading \in [Worker -> Nat]
  /\ live \in [Worker -> Nat]
  /\ conn \in [Worker -> {"connected", "disconnected", "gone"}]
  /\ buf \in [Worker -> Rows]
  /\ round \in [at : {0} \cup Worker, snap : [Worker -> Nat]]
  /\ gen \in [Producer -> ProducerState]

\* The process works on a target, and is about to.
Bound ==
  /\ proc.st \in {"up", "draining", "closing", "stuck"} => proc.on \in RedisTarget
  /\ proc.st \in {"loading", "draining"} => proc.to \in RedisTarget

\* A watermark is that of a Redis when it is a row it has or had.
Had(t) == stored[t] \cup flushed[t]
Of(n, t) == n = 0 \/ (t \in RedisTarget /\ n \in Had(t))

\* What is kept in a Redis, what was read of it, what stands for it and what is about
\* to be written to it are watermarks of that Redis.
KeptTrue == \A t \in RedisTarget : \A w \in Worker : Of(hash[t][w], t)
ReadTrue == proc.st = "loading" => \A w \in Worker : Of(reading[w], proc.to)
BootTrue == proc.st # "down" => \A w \in Worker : Of(boot[w], proc.on)
LiveTrue == proc.st # "down" => \A w \in Worker : Of(live[w], proc.on)
RoundTrue ==
  round.at # 0 =>
    /\ proc.st \in {"up", "draining", "closing"}
    /\ \A w \in Worker : Of(round.snap[w], proc.on)

Inv == TypeOK /\ Bound /\ KeptTrue /\ ReadTrue /\ BootTrue /\ LiveTrue /\ RoundTrue

-------------------------------------------------------------------------------
(* Rows and watermarks *)

\* Parts and unions of finite sets of rows are such sets.
LEMMA RowsClosed ==
  /\ {} \in Rows
  /\ \A S \in Rows : \A T \in SUBSET S : T \in Rows
  /\ \A S, T \in Rows : S \cup T \in Rows
  /\ \A n \in Nat : {n} \in Rows
<1>1. {} \in Rows
  BY FS_EmptySet DEF Rows
<1>2. ASSUME NEW S \in Rows, NEW T \in SUBSET S PROVE T \in Rows
  <2>1. IsFiniteSet(T)
    BY FS_Subset DEF Rows
  <2> QED
    BY <2>1 DEF Rows
<1>3. ASSUME NEW S \in Rows, NEW T \in Rows PROVE S \cup T \in Rows
  <2>1. IsFiniteSet(S \cup T)
    BY FS_Union DEF Rows
  <2> QED
    BY <2>1 DEF Rows
<1>4. \A n \in Nat : {n} \in Rows
  BY FS_Singleton DEF Rows
<1> QED
  BY <1>1, <1>2, <1>3, <1>4

\* Of the watermarks of the workers the greatest is one of them, or 0.
LEMMA HighestAnswer ==
  ASSUME NEW f \in [Worker -> Nat]
  PROVE  LET n == Highest({f[w] : w \in Worker}) IN n \in Nat /\ (n # 0 => \E w \in Worker : n = f[w])
<1> DEFINE U == {f[w] : w \in Worker}
<1>1. IsFiniteSet(Worker)
  BY FS_Interval, ResumeAssumption DEF Worker
<1>2. f \in Surjection(Worker, U)
  BY DEF Surjection
<1>3. IsFiniteSet(U) /\ U \subseteq Nat
  BY <1>1, <1>2, FS_Surjection
<1>4. Highest(U) \in Nat /\ Highest(U) \in {0} \cup U
  BY <1>3, HighestIn
<1> QED
  BY <1>4

\* The answer is a row that the Redis has or had (server.ts: /load/checkpoints).
LEMMA AnswerTrue ==
  ASSUME TypeOK, BootTrue, LiveTrue, proc.st # "down"
  PROVE  ResumeUlid \in Nat /\ Of(ResumeUlid, proc.on)
<1> DEFINE f == [w \in Worker |-> Answered(w)]
<1>1. f \in [Worker -> Nat]
  BY DEF TypeOK, Answered
<1>2. \A w \in Worker : Of(f[w], proc.on)
  BY DEF Answered, BootTrue, LiveTrue
<1>3. {f[w] : w \in Worker} = {Answered(w) : w \in Worker}
  OBVIOUS
<1>4. ResumeUlid = Highest({f[w] : w \in Worker})
  BY <1>3 DEF ResumeUlid
<1>5. ResumeUlid \in Nat /\ (ResumeUlid # 0 => \E w \in Worker : ResumeUlid = f[w])
  <2> HIDE DEF f
  <2> QED
    BY <1>1, <1>4, HighestAnswer
<1> QED
  BY <1>2, <1>5 DEF Of

\* Each Redis keeps what it has or had: only a flush takes rows, and they are noted.
Grows == \A t \in RedisTarget : Had(t) \subseteq Had(t)'

\* A step that leaves the rows of all Redis alone loses none.
LEMMA HadSame == stored' = stored /\ flushed' = flushed => Grows
  BY DEF Grows, Had

\* A watermark stays one as the rows grow.
LEMMA OfGrows == ASSUME Grows, NEW n, NEW t, Of(n, t) PROVE Of(n, t)'
  BY DEF Grows, Of

\* What is kept in a Redis, read of it, stands for it and is being written to it
\* stays true while rows grow and the process is bound as before.
LEMMA Frames ==
  ASSUME Inv, Grows
  PROVE  /\ hash' = hash => KeptTrue'
         /\ reading' = reading /\ (proc'.st = "loading" => proc.st = "loading" /\ proc'.to = proc.to)
              => ReadTrue'
         /\ boot' = boot /\ (proc'.st # "down" => proc.st # "down" /\ proc'.on = proc.on) => BootTrue'
         /\ live' = live /\ (proc'.st # "down" => proc.st # "down" /\ proc'.on = proc.on) => LiveTrue'
         /\ (round'.at # 0 =>
               /\ round.at # 0 /\ round'.snap = round.snap /\ proc'.on = proc.on
               /\ proc'.st \in {"up", "draining", "closing"}) => RoundTrue'
<1>1. ASSUME hash' = hash PROVE KeptTrue'
  BY <1>1 DEF Inv, KeptTrue, Of, Grows
<1>2. ASSUME reading' = reading, proc'.st = "loading" => proc.st = "loading" /\ proc'.to = proc.to
      PROVE  ReadTrue'
  BY <1>2 DEF Inv, ReadTrue, Of, Grows
<1>3. ASSUME boot' = boot, proc'.st # "down" => proc.st # "down" /\ proc'.on = proc.on
      PROVE  BootTrue'
  BY <1>3 DEF Inv, BootTrue, Of, Grows
<1>4. ASSUME live' = live, proc'.st # "down" => proc.st # "down" /\ proc'.on = proc.on
      PROVE  LiveTrue'
  BY <1>4 DEF Inv, LiveTrue, Of, Grows
<1>5. ASSUME round'.at # 0 =>
               /\ round.at # 0 /\ round'.snap = round.snap /\ proc'.on = proc.on
               /\ proc'.st \in {"up", "draining", "closing"}
      PROVE  RoundTrue'
  BY <1>5 DEF Inv, RoundTrue, Of, Grows
<1> QED
  BY <1>1, <1>2, <1>3, <1>4, <1>5

\* Where the process, the records and the round are as before and rows are only
\* added, everything stays true.
LEMMA OnlyRows ==
  ASSUME Inv, Grows, UNCHANGED <<hash, proc, boot, reading, live, round>>
  PROVE  Bound' /\ KeptTrue' /\ ReadTrue' /\ BootTrue' /\ LiveTrue' /\ RoundTrue'
<1>1. Bound'
  BY DEF Bound, Inv
<1> QED
  BY <1>1, Frames DEF Inv, RoundTrue

-------------------------------------------------------------------------------
(* Each step keeps the invariant *)

\* A runtime begins to be built (index.ts: buildRuntime).
LEMMA BuildingTypes ==
  ASSUME TypeOK, NEW t \in RedisTarget, Building(t)
  PROVE  /\ proc' \in Process
         /\ proc'.st = "loading" /\ proc'.to = t /\ proc'.on = proc.on
         /\ conn' \in [Worker -> {"connected", "disconnected", "gone"}]
         /\ reading' \in [Worker -> Nat]
         /\ \A w \in Worker : reading'[w] = 0
<1>1. MaxRuntimes \in Nat
  BY ResumeAssumption
<1>2. proc.built + 1 \in 0..MaxRuntimes
  BY <1>1 DEF Building, TypeOK, Process
<1>3. proc' = [proc EXCEPT !.st = "loading", !.to = t, !.next = 1, !.built = @ + 1]
  BY DEF Building
<1>4. proc'.st = "loading" /\ proc'.to = t /\ proc'.on = proc.on /\ proc' \in Process
  BY <1>2, <1>3 DEF TypeOK, Process
<1>5. conn' = Each("disconnected") /\ reading' = Each(0)
  BY DEF Building
<1> QED
  BY <1>4, <1>5 DEF Each

\* The process starts and builds its first runtime (index.ts: boot).
LEMMA StepBoot ==
  ASSUME Inv, NEW t \in RedisTarget, BootLoader(t)
  PROVE  Inv'
<1> USE DEF Inv
<1>1. /\ Building(t) /\ proc.st = "down" /\ stored' = stored /\ flushed' = flushed
      /\ hash' = hash /\ gen' = gen
      /\ boot' = Each(0) /\ live' = Each(0) /\ buf' = buf /\ round' = round
  BY DEF BootLoader, Building
<1>2. TypeOK'
  BY <1>1, BuildingTypes DEF TypeOK, Each
<1>3. Bound'
  BY <1>1, BuildingTypes DEF Bound
<1>4. KeptTrue'
  BY <1>1, Frames, HadSame
<1>5. ReadTrue'
  BY <1>1, BuildingTypes DEF ReadTrue, Of
<1>6. BootTrue' /\ LiveTrue'
  BY <1>1 DEF BootTrue, LiveTrue, Each, Of
<1>7. RoundTrue'
  BY <1>1 DEF RoundTrue
<1> QED
  BY <1>2, <1>3, <1>4, <1>5, <1>6, <1>7

\* One checkpoint is read back, or skipped (checkpoint.ts: loadAll).
LEMMA StepLoadOne ==
  ASSUME Inv, LoadOne
  PROVE  Inv'
<1> USE DEF Inv
<1>1. /\ proc.st = "loading" /\ proc.next \in Worker /\ proc.to \in RedisTarget
      /\ proc' = [proc EXCEPT !.next = @ + 1]
      /\ UNCHANGED <<stored, flushed, hash, boot, live, conn, buf, round, gen>>
  BY DEF LoadOne, Bound
<1>2. /\ proc'.st = proc.st /\ proc'.to = proc.to /\ proc'.on = proc.on
      /\ proc' \in Process
  <2>1. proc.next + 1 \in Nat
    BY DEF TypeOK, Process
  <2> QED
    BY <1>1, <2>1 DEF TypeOK, Process
<1>3. reading' = reading \/ reading' = [reading EXCEPT ![proc.next] = hash[proc.to][proc.next]]
  BY DEF LoadOne
<1>4. hash[proc.to][proc.next] \in Nat
  BY <1>1 DEF TypeOK
<1>5. reading' \in [Worker -> Nat]
  BY <1>1, <1>3, <1>4 DEF TypeOK
<1>6. TypeOK'
  BY <1>1, <1>2, <1>5 DEF TypeOK
<1>7. Bound'
  BY <1>1, <1>2 DEF Bound
<1>8. KeptTrue' /\ BootTrue' /\ LiveTrue'
  BY <1>1, <1>2, Frames, HadSame
<1>9. RoundTrue'
  BY <1>1 DEF RoundTrue
<1>10. \A w \in Worker : Of(reading'[w], proc.to)
  BY <1>1, <1>3 DEF TypeOK, ReadTrue, KeptTrue
<1>11. ReadTrue'
  BY <1>1, <1>2, <1>10 DEF ReadTrue, Of, Had
<1> QED
  BY <1>6, <1>7, <1>8, <1>9, <1>11

\* The runtime takes the place of the old one, with what was read of its Redis
\* or with nothing (index.ts: buildRuntime).
LEMMA StepLoadEnds ==
  ASSUME Inv, LoadEnds
  PROVE  Inv'
<1> USE DEF Inv
<1>1. /\ proc.st = "loading" /\ proc.to \in RedisTarget
      /\ proc' = [proc EXCEPT !.st = "up", !.on = proc.to, !.to = "none", !.next = 0]
      /\ UNCHANGED <<stored, flushed, hash, conn, buf, round, gen>>
      /\ live' = Each(0) /\ reading' = Each(0)
      /\ boot' = reading \/ boot' = Each(0)
  BY DEF LoadEnds, Bound
<1>2. proc'.st = "up" /\ proc'.to = "none" /\ proc'.on = proc.to /\ proc' \in Process
  BY <1>1 DEF TypeOK, Process
<1>3. TypeOK'
  BY <1>1, <1>2 DEF TypeOK, Each
<1>4. Bound'
  BY <1>1, <1>2 DEF Bound
<1>5. KeptTrue'
  BY <1>1, Frames, HadSame
<1>6. ReadTrue' /\ LiveTrue'
  BY <1>1, <1>2 DEF ReadTrue, LiveTrue, Each, Of
<1>7. \A w \in Worker : Of(boot'[w], proc.to)
  BY <1>1 DEF ReadTrue, Each, Of
<1>8. BootTrue'
  BY <1>1, <1>2, <1>7 DEF BootTrue, Of, Had
<1>9. RoundTrue'
  BY <1>1 DEF RoundTrue
<1> QED
  BY <1>3, <1>4, <1>5, <1>6, <1>8, <1>9

\* A connection comes or goes (pool.ts: createWorkerPool).
LEMMA StepClient ==
  ASSUME Inv, NEW w \in Worker, ClientEvent(w)
  PROVE  Inv'
<1> USE DEF Inv
<1>1. UNCHANGED <<stored, flushed, hash, proc, boot, reading, live, buf, round, gen>>
  BY DEF ClientEvent
<1>2. TypeOK'
  BY <1>1 DEF TypeOK, ClientEvent
<1> QED
  BY <1>1, <1>2, OnlyRows, HadSame

\* A producer asks where to resume (http-producer.ts: loadResumeWatermark).
LEMMA StepWatermark ==
  ASSUME Inv, NEW p \in Producer, LoadResumeWatermark(p)
  PROVE  Inv'
<1> USE DEF Inv
<1>1. UNCHANGED <<stored, flushed, hash, proc, boot, reading, live, conn, buf, round>>
  BY DEF LoadResumeWatermark
<1>2. \/ proc.st # "down" /\ gen' = [gen EXCEPT ![p].asked = TRUE, ![p].resume = ResumeUlid]
      \/ gen' = [gen EXCEPT ![p].asked = TRUE]
  BY DEF LoadResumeWatermark
<1>3. proc.st # "down" => ResumeUlid \in Nat
  BY AnswerTrue
<1>4. gen' \in [Producer -> ProducerState]
  <2> DEFINE Asked(n) == [gen[p] EXCEPT !.asked = TRUE, !.resume = n]
  <2>1. gen[p] \in ProducerState
    BY DEF TypeOK
  <2>2. \A n \in Nat : Asked(n) \in ProducerState
    BY <2>1 DEF ProducerState
  <2>3. PICK n \in Nat : gen' = [gen EXCEPT ![p] = Asked(n)]
    <3>1. CASE gen' = [gen EXCEPT ![p].asked = TRUE]
      <4>1. gen[p].resume \in Nat /\ [gen[p] EXCEPT !.asked = TRUE] = Asked(gen[p].resume)
        BY <2>1 DEF ProducerState
      <4>2. gen' = [gen EXCEPT ![p] = [gen[p] EXCEPT !.asked = TRUE]]
        BY <3>1
      <4> QED
        BY <4>1, <4>2
    <3>2. CASE proc.st # "down" /\ gen' = [gen EXCEPT ![p].asked = TRUE, ![p].resume = ResumeUlid]
      <4>1. gen' = [gen EXCEPT ![p] = Asked(ResumeUlid)]
        BY <3>2
      <4> QED
        BY <1>3, <3>2, <4>1
    <3> QED
      BY <1>2, <3>1, <3>2
  <2>4. Asked(n) \in ProducerState
    BY <2>2
  <2> HIDE DEF Asked
  <2> QED
    BY <2>3, <2>4 DEF TypeOK
<1>5. TypeOK'
  BY <1>1, <1>4 DEF TypeOK
<1> QED
  BY <1>1, <1>5, OnlyRows, HadSame

\* A row is skipped or put into a batch (http-producer.ts: add).
LEMMA StepAdd ==
  ASSUME Inv, NEW p \in Producer, Add(p)
  PROVE  Inv'
<1> USE DEF Inv
<1>1. UNCHANGED <<stored, flushed, hash, proc, boot, reading, live, conn, buf, round>>
  BY DEF Add
<1>2. PICK r \in gen[p].rest :
        gen' = [gen EXCEPT ![p].rest = @ \ {r},
                           ![p].open = IF r <= gen[p].resume THEN @ ELSE @ \cup {r}]
  BY DEF Add
<1> DEFINE S == gen[p].rest \ {r}
           T == IF r <= gen[p].resume THEN gen[p].open ELSE gen[p].open \cup {r}
           Next1 == [gen[p] EXCEPT !.rest = S, !.open = T]
<1>3. gen[p] \in ProducerState
  BY DEF TypeOK
<1>4. gen[p].rest \in Rows /\ gen[p].open \in Rows /\ r \in Nat
  BY <1>3 DEF ProducerState, Rows
<1>5. S \in Rows /\ gen[p].open \cup {r} \in Rows
  BY <1>4, RowsClosed
<1>6. S \in Rows /\ T \in Rows
  BY <1>4, <1>5
<1>7. gen' = [gen EXCEPT ![p] = Next1]
  BY <1>2
<1>8. Next1 \in ProducerState
  <2> HIDE DEF S, T
  <2> QED
    BY <1>3, <1>6 DEF ProducerState
<1>9. gen' \in [Producer -> ProducerState]
  <2> HIDE DEF Next1
  <2> QED
    BY <1>7, <1>8 DEF TypeOK
<1>10. TypeOK'
  BY <1>1, <1>9 DEF TypeOK
<1> QED
  BY <1>1, <1>10, OnlyRows, HadSame

\* A row is posted, perhaps not for the first time (http-producer.ts: postBatch).
LEMMA StepPost ==
  ASSUME Inv, NEW p \in Producer, PostBatch(p)
  PROVE  Inv'
<1> USE DEF Inv
<1>1. UNCHANGED <<stored, flushed, hash, proc, boot, reading, live, conn, round>>
  BY DEF PostBatch
<1>2. PICK r \in gen[p].open :
        /\ \E w \in Worker : buf' = [buf EXCEPT ![w] = @ \cup {r}]
        /\ gen' = [gen EXCEPT ![p].open = @ \ {r}] \/ UNCHANGED gen
  BY DEF PostBatch
<1>3. gen[p] \in ProducerState
  BY DEF TypeOK
<1>4. r \in Nat /\ gen[p].open \ {r} \in Rows
  BY <1>3, RowsClosed DEF ProducerState, Rows
<1>5. PICK w \in Worker : buf' = [buf EXCEPT ![w] = @ \cup {r}]
  BY <1>2
<1>6. buf[w] \cup {r} \in Rows
  BY <1>4, RowsClosed DEF TypeOK
<1>7. buf' \in [Worker -> Rows]
  BY <1>5, <1>6 DEF TypeOK
<1>8. gen' \in [Producer -> ProducerState]
  <2> DEFINE Next1 == [gen[p] EXCEPT !.open = gen[p].open \ {r}]
  <2>1. Next1 \in ProducerState
    BY <1>3, <1>4 DEF ProducerState
  <2>2. gen' = [gen EXCEPT ![p] = Next1] \/ gen' = gen
    BY <1>2
  <2> HIDE DEF Next1
  <2> QED
    BY <2>1, <2>2 DEF TypeOK
<1>9. TypeOK'
  BY <1>1, <1>7, <1>8 DEF TypeOK
<1> QED
  BY <1>1, <1>9, OnlyRows, HadSame

\* A worker flushes: the rows it counts are stored in the Redis it works on
\* (worker.ts: flushBatch).
LEMMA StepFlush ==
  ASSUME Inv, NEW w \in Worker, FlushBatch(w)
  PROVE  Inv'
<1> USE DEF Inv
<1>1. /\ proc.st \in {"up", "draining", "closing"} /\ proc.on \in RedisTarget
      /\ UNCHANGED <<flushed, hash, proc, boot, reading, conn, round, gen>>
  BY DEF FlushBatch, Bound
<1>2. PICK ok \in SUBSET buf[w] : \E dead, lost \in SUBSET (buf[w] \ ok) :
        /\ stored' = [stored EXCEPT ![proc.on] = @ \cup ok \cup lost]
        /\ buf' = [buf EXCEPT ![w] = @ \ (ok \cup dead)]
        /\ live' = [live EXCEPT ![w] = Highest({@} \cup ok)]
  BY DEF FlushBatch
<1>3. PICK dead \in SUBSET (buf[w] \ ok), lost \in SUBSET (buf[w] \ ok) :
        /\ stored' = [stored EXCEPT ![proc.on] = @ \cup ok \cup lost]
        /\ buf' = [buf EXCEPT ![w] = @ \ (ok \cup dead)]
        /\ live' = [live EXCEPT ![w] = Highest({@} \cup ok)]
  BY <1>2
<1>4. buf[w] \in Rows /\ ok \in Rows /\ lost \in Rows /\ buf[w] \ (ok \cup dead) \in Rows
  BY RowsClosed DEF TypeOK
<1>5. stored[proc.on] \cup ok \cup lost \in Rows
  <2>1. stored[proc.on] \in Rows
    BY <1>1 DEF TypeOK
  <2>2. stored[proc.on] \cup ok \in Rows
    BY <1>4, <2>1, RowsClosed
  <2> QED
    BY <1>4, <2>2, RowsClosed
<1> DEFINE n == Highest({live[w]} \cup ok)
<1>6. n \in Nat /\ n \in {0, live[w]} \cup ok
  <2>1. live[w] \in Nat
    BY DEF TypeOK
  <2>2. {live[w]} \cup ok \in Rows
    BY <1>4, <2>1, RowsClosed
  <2>3. n \in Nat /\ n \in {0} \cup ({live[w]} \cup ok)
    <3>1. {live[w]} \cup ok \subseteq Nat /\ IsFiniteSet({live[w]} \cup ok)
      BY <2>2 DEF Rows
    <3> QED
      BY <3>1, HighestIn
  <2> QED
    BY <2>3
<1>7. live' = [live EXCEPT ![w] = n]
  BY <1>3
<1> HIDE DEF n
<1>8. stored' \in [RedisTarget -> Rows]
  BY <1>1, <1>3, <1>5 DEF TypeOK
<1>9. TypeOK'
  BY <1>1, <1>3, <1>4, <1>6, <1>7, <1>8 DEF TypeOK
<1>10. /\ \A t \in RedisTarget : stored[t] \subseteq stored'[t]
       /\ ok \subseteq stored'[proc.on]
  BY <1>1, <1>3 DEF TypeOK
<1>11. Grows
  BY <1>1, <1>10 DEF Grows, Had
<1>12. Bound' /\ KeptTrue' /\ ReadTrue' /\ BootTrue'
  BY <1>1, <1>11, Frames DEF Bound
<1>13. RoundTrue'
  BY <1>1, <1>11, Frames DEF RoundTrue
<1>14. LiveTrue'
  <2>1. ASSUME NEW v \in Worker
        PROVE  live'[v] = 0 \/ live'[v] \in stored'[proc.on] \cup flushed'[proc.on]
    <3>1. live[v] = 0 \/ live[v] \in stored'[proc.on] \cup flushed'[proc.on]
      BY <1>1, <1>10 DEF LiveTrue, Of, Had
    <3>2. n = 0 \/ n \in stored'[proc.on] \cup flushed'[proc.on]
      <4>1. live[w] = 0 \/ live[w] \in stored'[proc.on] \cup flushed'[proc.on]
        BY <1>1, <1>10 DEF LiveTrue, Of, Had
      <4> QED
        BY <1>6, <1>10, <4>1
    <3>3. live'[v] = IF v = w THEN n ELSE live[v]
      BY <1>7 DEF TypeOK
    <3> QED
      BY <3>1, <3>2, <3>3
  <2> QED
    BY <1>1, <2>1 DEF LiveTrue, Of, Had
<1> QED
  BY <1>9, <1>12, <1>13, <1>14

\* The rows of a Redis are flushed, with its checkpoints or without (admin.ts).
LEMMA StepWipe ==
  ASSUME Inv, NEW t \in RedisTarget, FlushRedis(t)
  PROVE  Inv'
<1> USE DEF Inv
<1>1. /\ stored' = [stored EXCEPT ![t] = {}] /\ flushed' = [flushed EXCEPT ![t] = @ \cup stored[t]]
      /\ hash' = [hash EXCEPT ![t] = Each(0)] \/ hash' = hash
      /\ UNCHANGED <<proc, boot, reading, live, conn, buf, round, gen>>
  BY DEF FlushRedis
<1>2. stored[t] \in Rows /\ flushed[t] \in Rows
  BY DEF TypeOK
<1>3. flushed[t] \cup stored[t] \in Rows /\ {} \in Rows
  BY <1>2, RowsClosed
<1>4. Each(0) \in [Worker -> Nat]
  BY DEF Each
<1>5. hash' \in [RedisTarget -> [Worker -> Nat]]
  BY <1>1, <1>4 DEF TypeOK
<1>6. stored' \in [RedisTarget -> Rows] /\ flushed' \in [RedisTarget -> Rows]
  BY <1>1, <1>3 DEF TypeOK
<1>7. TypeOK'
  BY <1>1, <1>5, <1>6 DEF TypeOK
<1>8. Grows
  BY <1>1 DEF Grows, Had, TypeOK
<1>9. Bound' /\ ReadTrue' /\ BootTrue' /\ LiveTrue'
  BY <1>1, <1>8, Frames DEF Bound
<1>10. RoundTrue'
  BY <1>1, <1>8, Frames DEF RoundTrue
<1>11. \A u \in RedisTarget : \A w \in Worker : hash'[u][w] = hash[u][w] \/ hash'[u][w] = 0
  BY <1>1 DEF TypeOK, Each
<1>12. KeptTrue'
  BY <1>8, <1>11 DEF KeptTrue, Of, Grows
<1> QED
  BY <1>7, <1>9, <1>10, <1>12

\* A round that begins writes what the workers have flushed (checkpoint.ts: flushOnce).
LEMMA RoundBegins ==
  ASSUME Inv, FlushOnce, proc.st \in {"up", "draining", "closing", "stuck"},
         stored' = stored, flushed' = flushed,
         proc'.on = proc.on, round'.at # 0 => proc'.st \in {"up", "draining", "closing"}
  PROVE  RoundTrue' /\ round' \in [at : {0} \cup Worker, snap : [Worker -> Nat]]
<1>1. proc.on \in RedisTarget /\ 1 \in Worker
  BY ResumeAssumption DEF Inv, Bound, Worker
<1>2. \A w \in Worker : Of(live[w], proc.on)
  BY DEF Inv, LiveTrue
<1>3. CASE round.at = 0
  <2>1. round' = [at |-> 1, snap |-> live]
    BY <1>3 DEF FlushOnce, Snapshot
  <2>2. round'.at = 1 /\ round'.snap = live
    BY <2>1
  <2>3. RoundTrue'
    BY <1>2, <2>2 DEF RoundTrue, Of, Had
  <2> QED
    BY <1>1, <2>1, <2>3 DEF Inv, TypeOK
<1>4. CASE round.at # 0
  <2>1. round' = round
    BY <1>4 DEF FlushOnce
  <2> QED
    BY <1>4, <2>1 DEF RoundTrue, Inv, TypeOK, Of, Had
<1> QED
  BY <1>3, <1>4

\* The timer, a shutdown or the end of the drain begins a round or joins the one that
\* is under way (checkpoint.ts: tick, stop).
LEMMA StepRound ==
  ASSUME Inv, Tick \/ Shutdown \/ Drained
  PROVE  Inv'
<1> USE DEF Inv
<1>1. /\ FlushOnce /\ UNCHANGED <<stored, flushed, hash, boot, reading, live, conn, buf, gen>>
      /\ proc.st \in {"up", "draining"}
      /\ proc' = proc \/ proc' = [proc EXCEPT !.st = "closing"]
  BY DEF Tick, Shutdown, Drained
<1>2. /\ proc'.on = proc.on /\ proc'.to = proc.to /\ proc'.st \in {"up", "draining", "closing"}
      /\ proc'.st = "draining" => proc.st = "draining"
      /\ proc' \in Process
  BY <1>1 DEF TypeOK, Process
<1>3. RoundTrue' /\ round' \in [at : {0} \cup Worker, snap : [Worker -> Nat]]
  BY <1>1, <1>2, RoundBegins
<1>4. TypeOK'
  BY <1>1, <1>2, <1>3 DEF TypeOK
<1>5. Bound'
  BY <1>1, <1>2 DEF Bound
<1>6. KeptTrue' /\ ReadTrue' /\ BootTrue' /\ LiveTrue'
  BY <1>1, <1>2, Frames, HadSame
<1> QED
  BY <1>3, <1>4, <1>5, <1>6

\* One checkpoint is written, or left out (checkpoint.ts: flushOnce).
LEMMA StepHset ==
  ASSUME Inv, HsetOne
  PROVE  Inv'
<1> USE DEF Inv
<1>1. /\ round.at # 0 /\ UNCHANGED <<stored, flushed, proc, boot, reading, live, conn, buf, gen>>
      /\ round' = IF round.at = NumWorkers THEN NoRound ELSE [round EXCEPT !.at = @ + 1]
      /\ \/ hash' = [hash EXCEPT ![proc.on][round.at] = round.snap[round.at]]
         \/ hash' = hash
  BY DEF HsetOne
<1>2. proc.on \in RedisTarget /\ round.at \in Worker /\ proc.st \in {"up", "draining", "closing"}
  BY <1>1 DEF RoundTrue, Bound, TypeOK
<1>3. round.snap[round.at] \in Nat /\ Of(round.snap[round.at], proc.on)
  BY <1>1, <1>2 DEF TypeOK, RoundTrue
<1>4. /\ hash' \in [RedisTarget -> [Worker -> Nat]]
      /\ \A t \in RedisTarget : \A w \in Worker :
           \/ hash'[t][w] = hash[t][w]
           \/ t = proc.on /\ hash'[t][w] = round.snap[round.at]
  <2>1. CASE hash' = hash
    BY <2>1 DEF TypeOK
  <2>2. CASE hash' = [hash EXCEPT ![proc.on][round.at] = round.snap[round.at]]
    <3> DEFINE h == [hash[proc.on] EXCEPT ![round.at] = round.snap[round.at]]
    <3>1. h \in [Worker -> Nat] /\ hash' = [hash EXCEPT ![proc.on] = h]
      BY <1>2, <1>3, <2>2 DEF TypeOK
    <3>2. \A w \in Worker : h[w] = hash[proc.on][w] \/ h[w] = round.snap[round.at]
      BY <1>2 DEF TypeOK
    <3> HIDE DEF h
    <3> QED
      BY <1>2, <3>1, <3>2 DEF TypeOK
  <2> QED
    BY <1>1, <2>1, <2>2
<1>5. round' \in [at : {0} \cup Worker, snap : [Worker -> Nat]]
  <2>1. CASE round.at = NumWorkers
    BY <1>1, <2>1 DEF NoRound, Each
  <2>2. CASE round.at # NumWorkers
    <3>1. round.at + 1 \in Worker
      BY <1>2, <2>2, ResumeAssumption DEF Worker
    <3> QED
      BY <1>1, <2>2, <3>1 DEF TypeOK
  <2> QED
    BY <2>1, <2>2
<1>6. round'.at # 0 => round'.snap = round.snap
  <2>1. CASE round.at = NumWorkers
    BY <1>1, <2>1 DEF NoRound
  <2>2. CASE round.at # NumWorkers
    BY <1>1, <2>2 DEF TypeOK
  <2> QED
    BY <2>1, <2>2
<1>7. TypeOK'
  BY <1>1, <1>4, <1>5 DEF TypeOK
<1>8. Bound' /\ ReadTrue' /\ BootTrue' /\ LiveTrue'
  BY <1>1, Frames, HadSame DEF Bound
<1>9. RoundTrue'
  BY <1>1, <1>2, <1>6, Frames, HadSame
<1>10. KeptTrue'
  BY <1>1, <1>3, <1>4 DEF KeptTrue, Of, Had
<1> QED
  BY <1>7, <1>8, <1>9, <1>10

\* A swap begins, or is given up (swap-target.ts: swapTarget).
LEMMA StepSwap ==
  ASSUME Inv, (\E t \in RedisTarget : SwapTarget(t)) \/ DrainTimeout
  PROVE  Inv'
<1> USE DEF Inv
<1>1. /\ UNCHANGED <<stored, flushed, hash, boot, reading, live, conn, buf, round, gen>>
      /\ proc.st \in {"up", "stuck", "draining"}
      /\ \/ \E t \in RedisTarget : proc' = [proc EXCEPT !.st = "draining", !.to = t]
         \/ proc' = [proc EXCEPT !.st = "up", !.to = "none"]
  BY DEF SwapTarget, DrainTimeout
<1>2. /\ proc'.on = proc.on /\ proc'.st \in {"up", "draining"}
      /\ proc'.st = "draining" => proc'.to \in RedisTarget
      /\ proc' \in Process
  BY <1>1 DEF TypeOK, Process
<1>3. TypeOK'
  BY <1>1, <1>2 DEF TypeOK
<1>4. Bound'
  BY <1>1, <1>2 DEF Bound
<1>5. KeptTrue' /\ ReadTrue' /\ BootTrue' /\ LiveTrue'
  BY <1>1, <1>2, Frames, HadSame
<1>6. RoundTrue'
  BY <1>1, <1>2, Frames, HadSame
<1> QED
  BY <1>3, <1>4, <1>5, <1>6

\* The runtime is torn down: no round is under way, so the next one may be bound to
\* another Redis (swap-target.ts, index.ts).
LEMMA StepTornDown ==
  ASSUME Inv, TornDown
  PROVE  Inv'
<1> USE DEF Inv
<1>1. /\ proc.st = "closing" /\ round.at = 0 /\ proc.on \in RedisTarget
      /\ UNCHANGED <<stored, flushed, hash, boot, live, gen, buf, round>>
  BY DEF TornDown, Building, Bound
<1>2. \/ /\ proc' = [proc EXCEPT !.st = "down"] /\ conn' = Each("disconnected") /\ reading' = reading
      \/ proc.to \in RedisTarget /\ Building(proc.to)
      \/ proc' = [proc EXCEPT !.st = "stuck", !.to = "none"] /\ conn' = Each("gone") /\ reading' = reading
  BY DEF TornDown, TypeOK, Process
<1>3. /\ proc' \in Process
      /\ proc'.on = proc.on /\ proc'.st \in {"down", "loading", "stuck"}
      /\ conn' \in [Worker -> {"connected", "disconnected", "gone"}] /\ reading' \in [Worker -> Nat]
      /\ proc'.st = "loading" => proc'.to \in RedisTarget /\ \A w \in Worker : reading'[w] = 0
  <2>1. CASE proc' = [proc EXCEPT !.st = "down"] /\ conn' = Each("disconnected") /\ reading' = reading
    BY <2>1 DEF TypeOK, Process, Each
  <2>2. CASE proc.to \in RedisTarget /\ Building(proc.to)
    BY <2>2, BuildingTypes
  <2>3. CASE /\ proc' = [proc EXCEPT !.st = "stuck", !.to = "none"] /\ conn' = Each("gone")
             /\ reading' = reading
    BY <2>3 DEF TypeOK, Process, Each
  <2> QED
    BY <1>2, <2>1, <2>2, <2>3
<1>4. TypeOK'
  BY <1>1, <1>3 DEF TypeOK
<1>5. Bound'
  BY <1>1, <1>3 DEF Bound
<1>6. KeptTrue' /\ BootTrue' /\ LiveTrue'
  BY <1>1, <1>3, Frames, HadSame
<1>7. ReadTrue' /\ RoundTrue'
  BY <1>1, <1>3 DEF ReadTrue, RoundTrue, Of
<1> QED
  BY <1>4, <1>5, <1>6, <1>7

\* Finitely many workers hold finitely many rows (buf of LoadResume).
LEMMA BuffersFinite ==
  ASSUME TypeOK PROVE IsFiniteSet(UNION {buf[w] : w \in Worker})
<1>1. IsFiniteSet(Worker)
  BY FS_Interval, ResumeAssumption DEF Worker
<1>2. buf \in Surjection(Worker, {buf[w] : w \in Worker})
  BY DEF TypeOK, Surjection
<1>3. IsFiniteSet({buf[w] : w \in Worker})
  BY <1>1, <1>2, FS_Surjection
<1>4. \A S \in {buf[w] : w \in Worker} : IsFiniteSet(S)
  BY DEF TypeOK, Rows
<1> QED
  BY <1>3, <1>4, FS_UNION

\* The process dies: what a pipeline had sent may be stored.
LEMMA StepDies ==
  ASSUME Inv, Dies
  PROVE  Inv'
<1> USE DEF Inv
<1>1. PICK ok \in SUBSET UNION {buf[w] : w \in Worker} :
        /\ proc.st # "down" /\ (ok # {} => proc.st # "loading")
        /\ stored' = IF ok = {} THEN stored ELSE [stored EXCEPT ![proc.on] = @ \cup ok]
        /\ proc' = [proc EXCEPT !.st = "down", !.to = "none", !.next = 0]
        /\ buf' = Each({}) /\ round' = NoRound /\ conn' = Each("disconnected")
        /\ UNCHANGED <<flushed, hash, boot, reading, live, gen>>
  BY DEF Dies
<1>2. proc'.st = "down" /\ proc' \in Process
  BY <1>1 DEF TypeOK, Process
<1>3. round' \in [at : {0} \cup Worker, snap : [Worker -> Nat]] /\ round'.at = 0
  BY <1>1 DEF NoRound, Each
<1>4. stored' \in [RedisTarget -> Rows] /\ \A t \in RedisTarget : stored[t] \subseteq stored'[t]
  <2>1. CASE ok = {}
    BY <1>1, <2>1 DEF TypeOK
  <2>2. CASE ok # {}
    <3>1. proc.on \in RedisTarget
      BY <1>1, <2>2 DEF Bound, TypeOK, Process
    <3>2. ok \in Rows
      <4> DEFINE Held == UNION {buf[w] : w \in Worker}
      <4>1. Held \in Rows
        <5>1. \A w \in Worker : buf[w] \subseteq Nat
          BY DEF TypeOK, Rows
        <5> QED
          BY <5>1, BuffersFinite DEF Rows
      <4>2. ok \in SUBSET Held
        BY <1>1
      <4> HIDE DEF Held
      <4> QED
        BY <4>1, <4>2, RowsClosed
    <3>3. stored[proc.on] \cup ok \in Rows
      <4>1. stored[proc.on] \in Rows
        BY <3>1 DEF TypeOK
      <4> QED
        BY <3>2, <4>1, RowsClosed
    <3> QED
      BY <1>1, <2>2, <3>1, <3>3 DEF TypeOK
  <2> QED
    BY <2>1, <2>2
<1>5. Grows
  BY <1>1, <1>4 DEF Grows, Had
<1>6. TypeOK'
  BY <1>1, <1>2, <1>3, <1>4, RowsClosed DEF TypeOK, Each
<1>7. Bound' /\ ReadTrue' /\ BootTrue' /\ LiveTrue' /\ RoundTrue'
  BY <1>2, <1>3 DEF Bound, ReadTrue, BootTrue, LiveTrue, RoundTrue
<1>8. KeptTrue'
  BY <1>1, <1>5, Frames
<1> QED
  BY <1>6, <1>7, <1>8

\* Every step keeps the invariant (LoadResume: LNext).
LEMMA InvStep == Inv /\ [LNext]_lvars => Inv'
<1> SUFFICES ASSUME Inv, [LNext]_lvars PROVE Inv'
  OBVIOUS
<1>1. ASSUME NEW t \in RedisTarget, BootLoader(t) PROVE Inv'
  BY <1>1, StepBoot
<1>2. CASE (\E t \in RedisTarget : SwapTarget(t)) \/ DrainTimeout
  BY <1>2, StepSwap
<1>3. CASE LoadOne
  BY <1>3, StepLoadOne
<1>4. CASE LoadEnds
  BY <1>4, StepLoadEnds
<1>5. ASSUME NEW w \in Worker, ClientEvent(w) PROVE Inv'
  BY <1>5, StepClient
<1>6. ASSUME NEW w \in Worker, FlushBatch(w) PROVE Inv'
  BY <1>6, StepFlush
<1>7. ASSUME NEW p \in Producer, LoadResumeWatermark(p) PROVE Inv'
  BY <1>7, StepWatermark
<1>8. ASSUME NEW p \in Producer, Add(p) PROVE Inv'
  BY <1>8, StepAdd
<1>9. ASSUME NEW p \in Producer, PostBatch(p) PROVE Inv'
  BY <1>9, StepPost
<1>10. CASE Tick \/ Shutdown \/ Drained
  BY <1>10, StepRound
<1>11. CASE HsetOne
  BY <1>11, StepHset
<1>12. CASE TornDown
  BY <1>12, StepTornDown
<1>13. CASE Dies
  BY <1>13, StepDies
<1>14. ASSUME NEW t \in RedisTarget, FlushRedis(t) PROVE Inv'
  BY <1>14, StepWipe
<1>15. CASE UNCHANGED lvars
  <2>1. UNCHANGED <<stored, flushed, hash, proc, boot, reading, live, conn, buf, round, gen>>
    BY <1>15 DEF lvars
  <2>2. TypeOK'
    BY <2>1 DEF TypeOK, Inv
  <2> QED
    BY <2>1, <2>2, OnlyRows, HadSame DEF Inv
<1> QED
  BY <1>1, <1>2, <1>3, <1>4, <1>5, <1>6, <1>7, <1>8, <1>9, <1>10, <1>11, <1>12, <1>13, <1>14, <1>15
     DEF LNext

\* It holds at first.
LEMMA InvInit == LInit => Inv
<1> SUFFICES ASSUME LInit PROVE Inv
  OBVIOUS
<1>1. {} \in Rows /\ \A p \in Producer : RowsOf[p] \in Rows
  BY RowsClosed, ResumeAssumption DEF Rows
<1>2. MaxRuntimes \in Nat
  BY ResumeAssumption
<1>3. gen \in [Producer -> ProducerState]
  BY <1>1 DEF LInit, ProducerState
<1>4. proc \in Process /\ Bound
  BY <1>2 DEF LInit, Process, Bound
<1>5. TypeOK
  BY <1>1, <1>3, <1>4 DEF LInit, TypeOK, Each, NoRound
<1>6. KeptTrue
  BY DEF LInit, KeptTrue, Each, Of
<1>7. ReadTrue /\ BootTrue /\ LiveTrue /\ RoundTrue
  BY DEF LInit, ReadTrue, BootTrue, LiveTrue, RoundTrue, NoRound
<1> QED
  BY <1>4, <1>5, <1>6, <1>7 DEF Inv

-------------------------------------------------------------------------------
(* The theorems *)

\* The types hold, and a process that works is bound to a Redis (LoadResume).
THEOREM ResumeTypes == LSpec => [](TypeOK /\ Bound)
<1>1. Inv => TypeOK /\ Bound
  BY DEF Inv
<1> QED
  BY <1>1, InvInit, InvStep, PTL DEF LSpec

\* For any number of workers, producers, rows, posts of a row, flushes and restarts:
\* the watermark that /load/checkpoints answers, and every one kept in a Redis, is a
\* row that was stored in that Redis, and is there but for a flush (checkpoint.ts).
THEOREM ResumeStored == LSpec => []ResumeIsStored
<1>1. ASSUME Inv PROVE ResumeIsStored
  <2>1. ASSUME proc.st # "down", ResumeUlid # 0
        PROVE  ResumeUlid \in stored[proc.on] \cup flushed[proc.on]
    BY <1>1, <2>1, AnswerTrue DEF Inv, Of, Had
  <2>2. ASSUME NEW t \in RedisTarget, NEW w \in Worker
        PROVE  hash[t][w] \in {0} \cup stored[t] \cup flushed[t]
    BY <1>1, <2>2 DEF Inv, KeptTrue, Of, Had
  <2> QED
    BY <2>1, <2>2 DEF ResumeIsStored
<1> QED
  BY <1>1, InvInit, InvStep, PTL DEF LSpec

===============================================================================
