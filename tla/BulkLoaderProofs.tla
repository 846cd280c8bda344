--------------------------- MODULE BulkLoaderProofs ----------------------------
(* What holds of the bulk-loader for any number of workers, any sizes of   *)
(* batches and bodies, and any number of switches.                         *)
EXTENDS BulkLoader, FiniteSetTheorems, SequenceTheorems, TLAPS

-------------------------------------------------------------------------------
(* Numbers *)

\* A set of naturals has a least element: the form of induction used below.
LEMMA Least ==
  ASSUME NEW T, T \subseteq Nat, T # {}
  PROVE  \E n \in T : \A m \in T : n <= m
<1>1. \E x \in T : \A y \in T : ~ (<<y, x>> \in OpToRel(<, Nat))
  BY NatLessThanWellFounded, WFMin
<1>2. PICK x \in T : \A y \in T : ~(y < x)
  BY <1>1 DEF OpToRel
<1> QED
  BY <1>2

\* A non-empty set of the numbers up to n has a greatest element.
LEMMA Greatest ==
  ASSUME NEW n \in Nat, NEW S, S \subseteq 1..n, S # {}
  PROVE  \E g \in S : \A m \in S : m <= g
<1> DEFINE Bounds == {b \in Nat : \A m \in S : m <= b}
<1>1. Bounds \subseteq Nat /\ n \in Bounds
  OBVIOUS
<1>2. PICK b \in Bounds : \A c \in Bounds : b <= c
  BY <1>1, Least
<1>3. b \in S
  <2> SUFFICES ASSUME b \notin S PROVE FALSE
    OBVIOUS
  <2>1. b # 0
    <3>1. PICK m \in S : m \in 1..n
      OBVIOUS
    <3> QED
      BY <1>2, <3>1
  <2>2. \A m \in S : m \in Nat /\ m <= b - 1
    <3> SUFFICES ASSUME NEW m \in S PROVE m \in Nat /\ m <= b - 1
      OBVIOUS
    <3>1. m \in Nat /\ b \in Nat /\ m <= b
      BY <1>2
    <3>2. m # b
      OBVIOUS
    <3> QED
      BY <3>1, <3>2
  <2>3. b - 1 \in Bounds
    BY <2>1, <2>2
  <2> QED
    BY <1>2, <2>3
<1> QED
  BY <1>2, <1>3

\* A list of the k elements of S, the least one first.
Lists(f, k, S) ==
  /\ f \in [1..k -> S]
  /\ \A i, j \in 1..k : i < j => f[i] < f[j]
  /\ \A s \in S : \E i \in 1..k : f[i] = s

\* Sets of positions are finite.
LEMMA PositionsFinite ==
  ASSUME NEW n \in Nat, NEW S \in SUBSET (1..n)
  PROVE  IsFiniteSet(S) /\ Cardinality(S) \in Nat /\ Cardinality(S) <= n
<1>1. IsFiniteSet(1..n) /\ Cardinality(1..n) = n
  <2>1. 1 \in Int /\ n \in Int /\ n - 1 + 1 = n /\ (1 > n => n = 0)
    OBVIOUS
  <2> QED
    BY <2>1, FS_Interval
<1>2. IsFiniteSet(S) /\ Cardinality(S) <= Cardinality(1..n)
  BY <1>1, FS_Subset
<1>3. Cardinality(S) \in Nat
  BY <1>2, FS_CardinalityType
<1> QED
  BY <1>1, <1>2, <1>3

\* The positions in a sequence can be listed: a set of k of them without a list,
\* with k the least, would have one after all, that of its rest and its greatest.
LEMMA CanBeListed ==
  ASSUME NEW n \in Nat, NEW S \in SUBSET (1..n)
  PROVE  \E f : Lists(f, Cardinality(S), S)
<1> DEFINE Unlisted == {T \in SUBSET (1..n) : ~ \E f : Lists(f, Cardinality(T), T)}
           Bad == {k \in Nat : \E T \in Unlisted : Cardinality(T) = k}
<1>0. \A T \in SUBSET (1..n) : IsFiniteSet(T) /\ Cardinality(T) \in Nat
  BY PositionsFinite
<1>1. Bad = {} => Unlisted = {}
  BY <1>0
<1>2. SUFFICES ASSUME Bad # {} PROVE FALSE
  BY <1>1
<1>3. PICK k \in Bad : \A j \in Bad : k <= j
  <2>1. Bad \subseteq Nat
    OBVIOUS
  <2> HIDE DEF Bad
  <2> QED
    BY <1>2, <2>1, Least
<1>4. PICK T \in SUBSET (1..n) : Cardinality(T) = k /\ ~ \E f : Lists(f, k, T)
  BY <1>3
<1>5. T # {}
  <2> SUFFICES ASSUME T = {} PROVE \E f : Lists(f, k, T)
    BY <1>4
  <2>1. k = 0 /\ 1..0 = {}
    BY <1>4, FS_EmptySet
  <2>2. Lists([i \in {} |-> 0], k, T)
    BY <2>1 DEF Lists
  <2> QED
    BY <2>2
<1>6. PICK g \in T : \A m \in T : m <= g
  BY <1>5, Greatest
<1> DEFINE U == T \ {g}
<1>7. U \in SUBSET (1..n) /\ Cardinality(U) = k - 1 /\ k - 1 \in Nat
  <2>1. IsFiniteSet(T) /\ IsFiniteSet(U) /\ Cardinality(U) = k - 1
    BY <1>0, <1>4, FS_RemoveElement
  <2> QED
    BY <1>0, <2>1
<1>8. PICK f : Lists(f, k - 1, U)
  <2>1. k - 1 \notin Bad
    BY <1>3, <1>7
  <2> QED
    BY <1>7, <2>1
<1> DEFINE h == [i \in 1..k |-> IF i = k THEN g ELSE f[i]]
<1>9. \A i \in 1..k : i # k => i \in 1 .. k - 1 /\ h[i] = f[i] /\ f[i] \in U
  BY <1>7, <1>8 DEF Lists
<1>10. h[k] = g /\ k \in 1..k
  BY <1>7
<1>11. h \in [1..k -> T]
  BY <1>9, <1>10
<1>12. \A i, j \in 1..k : i < j => h[i] < h[j]
  <2> SUFFICES ASSUME NEW i \in 1..k, NEW j \in 1..k, i < j PROVE h[i] < h[j]
    OBVIOUS
  <2>1. i # k
    OBVIOUS
  <2>2. CASE j = k
    <3>0. f[i] \in T /\ f[i] # g
      BY <1>9, <2>1
    <3>a. \A x \in T : x \in Nat
      OBVIOUS
    <3>1. f[i] \in Nat /\ g \in Nat /\ f[i] <= g /\ f[i] # g
      BY <1>6, <3>0, <3>a
    <3> QED
      BY <1>9, <1>10, <2>1, <2>2, <3>1
  <2>3. CASE j # k
    BY <1>8, <1>9, <2>1, <2>3 DEF Lists
  <2> QED
    BY <2>2, <2>3
<1>13. \A s \in T : \E i \in 1..k : h[i] = s
  <2> SUFFICES ASSUME NEW s \in T, s # g PROVE \E i \in 1..k : h[i] = s
    BY <1>10
  <2>1. PICK i \in 1 .. k - 1 : f[i] = s
    BY <1>8 DEF Lists
  <2> QED
    BY <1>7, <1>9, <2>1
<1>14. Lists(h, k, T)
  BY <1>11, <1>12, <1>13 DEF Lists
<1> QED
  BY <1>4, <1>14

\* InOrder lists every position of a set, and each one once.
LEMMA InOrderLists ==
  ASSUME NEW n \in Nat, NEW S \in SUBSET (1..n)
  PROVE  /\ Cardinality(S) \in Nat
         /\ InOrder(S) \in [1 .. Cardinality(S) -> S]
         /\ \A i, j \in 1 .. Cardinality(S) : InOrder(S)[i] = InOrder(S)[j] => i = j
         /\ \A s \in S : \E i \in 1 .. Cardinality(S) : InOrder(S)[i] = s
<1> DEFINE k == Cardinality(S)
           f == InOrder(S)
<1>1. IsFiniteSet(S) /\ k \in Nat
  BY PositionsFinite
<1>2. \E h \in [1..k -> S] : \A i, j \in DOMAIN h : i < j => h[i] < h[j]
  <2>1. PICK h : Lists(h, k, S)
    BY CanBeListed
  <2> QED
    BY <2>1 DEF Lists
<1>3. f \in [1..k -> S] /\ \A i, j \in 1..k : i < j => f[i] < f[j]
  BY <1>2 DEF InOrder
<1>4. \A i, j \in 1..k : f[i] = f[j] => i = j
  <2> SUFFICES ASSUME NEW i \in 1..k, NEW j \in 1..k, f[i] = f[j], i # j PROVE FALSE
    OBVIOUS
  <2>1. i < j \/ j < i
    OBVIOUS
  <2>2. f[i] \in S /\ f[j] \in S
    BY <1>3
  <2>3. \A x \in S : x \in Nat
    OBVIOUS
  <2> QED
    <3> DEFINE a == f[i]
               b == f[j]
    <3>1. a < b \/ b < a
      BY <1>3, <2>1
    <3>2. a \in Nat /\ a = b
      BY <2>2, <2>3
    <3> HIDE DEF a, b
    <3> QED
      BY <3>1, <3>2
<1>5. f \in Surjection(1..k, S)
  <2>1. f \in Injection(1..k, S)
    BY <1>3, <1>4 DEF Injection, IsInjective
  <2>2. IsFiniteSet(1..k) /\ Cardinality(1..k) = k
    BY <1>1, FS_Interval
  <2> QED
    BY <1>1, <2>1, <2>2, FS_Injection
<1> QED
  BY <1>1, <1>3, <1>4, <1>5 DEF Surjection

-------------------------------------------------------------------------------
(* Sequences *)

\* What a sequence holds, position by position.
LEMMA RangeIs ==
  ASSUME NEW S, NEW s \in Seq(S)
  PROVE  Range(s) = {s[i] : i \in 1 .. Len(s)} /\ Range(s) \subseteq S
  BY DEF Range

\* Cutting a sequence in two loses nothing.
LEMMA Cut ==
  ASSUME NEW S, NEW s \in Seq(S), NEW n \in 0 .. Len(s)
  PROVE  LET a == SubSeq(s, 1, n)
             b == SubSeq(s, n + 1, Len(s))
         IN  /\ a \in Seq(S) /\ b \in Seq(S)
             /\ Len(a) = n /\ Len(b) = Len(s) - n
             /\ Range(a) \cup Range(b) = Range(s)
<1> DEFINE a == SubSeq(s, 1, n)
           b == SubSeq(s, n + 1, Len(s))
<1>1. /\ a \in Seq(S) /\ Len(a) = n
      /\ \A i \in 1..n : a[i] = s[i]
  OBVIOUS
<1>2. /\ b \in Seq(S) /\ Len(b) = Len(s) - n
      /\ \A i \in 1 .. Len(s) - n : b[i] = s[n + i]
  OBVIOUS
<1> HIDE DEF a, b
<1>3. Range(s) \subseteq Range(a) \cup Range(b)
  <2> SUFFICES ASSUME NEW i \in 1 .. Len(s) PROVE s[i] \in Range(a) \cup Range(b)
    BY RangeIs
  <2>1. CASE i <= n
    BY <1>1, <2>1, RangeIs
  <2>2. CASE i > n
    <3>1. i - n \in 1 .. Len(s) - n /\ n + (i - n) = i
      BY <2>2
    <3>2. b[i - n] = s[i]
      BY <1>2, <3>1
    <3> QED
      BY <1>2, <3>1, <3>2, RangeIs
  <2> QED
    BY <2>1, <2>2
<1>4. Range(a) \subseteq Range(s)
  <2> SUFFICES ASSUME NEW i \in 1 .. n PROVE a[i] \in Range(s)
    BY <1>1, RangeIs
  <2> QED
    BY <1>1, RangeIs
<1>5. Range(b) \subseteq Range(s)
  <2> SUFFICES ASSUME NEW i \in 1 .. Len(s) - n PROVE b[i] \in Range(s)
    BY <1>2, RangeIs
  <2>1. n + i \in 1 .. Len(s)
    OBVIOUS
  <2> QED
    BY <1>2, <2>1, RangeIs
<1> QED
  BY <1>1, <1>2, <1>3, <1>4, <1>5 DEF a, b

\* Joining two sequences loses nothing.
LEMMA Joined ==
  ASSUME NEW S, NEW s \in Seq(S), NEW t \in Seq(S)
  PROVE  /\ s \o t \in Seq(S) /\ Len(s \o t) = Len(s) + Len(t)
         /\ Range(s \o t) = Range(s) \cup Range(t)
  BY RangeConcatenation

\* Turning a sequence round loses nothing.
LEMMA Reversed ==
  ASSUME NEW S, NEW s \in Seq(S)
  PROVE  /\ Reverse(s) \in Seq(S) /\ Len(Reverse(s)) = Len(s)
         /\ Range(Reverse(s)) = Range(s)
<1> DEFINE r == Reverse(s)
<1>1. r = [i \in 1 .. Len(s) |-> s[(Len(s) - i) + 1]]
  BY DEF Reverse
<1>2. \A i \in 1 .. Len(s) : (Len(s) - i) + 1 \in 1 .. Len(s)
  OBVIOUS
<1>3. r \in Seq(S) /\ Len(r) = Len(s)
  BY <1>1, <1>2
<1>4. \A i \in 1 .. Len(s) : r[i] = s[(Len(s) - i) + 1] /\ r[(Len(s) - i) + 1] = s[i]
  BY <1>1, <1>2
<1> HIDE DEF r
<1>5. Range(r) \subseteq Range(s)
  BY <1>2, <1>3, <1>4, RangeIs
<1>6. Range(s) \subseteq Range(r)
  <2> SUFFICES ASSUME NEW i \in 1 .. Len(s) PROVE s[i] \in Range(r)
    BY RangeIs
  <2> QED
    BY <1>2, <1>3, <1>4, RangeIs
<1> QED
  BY <1>3, <1>5, <1>6 DEF r

-------------------------------------------------------------------------------
(* Dispatchers *)

\* How many rows a worker holds, and which.
Load(d, w) == Len(d.buffer[w]) + Len(d.batch[w])
Has(d, w) == Range(d.buffer[w]) \cup Range(d.batch[w])

\* The load of a worker, from the lengths of its two sequences.
LEMMA LoadIs ==
  ASSUME NEW d, NEW w, NEW x \in Nat, NEW y \in Nat,
         Len(d.buffer[w]) = x, Len(d.batch[w]) = y
  PROVE  Load(d, w) = x + y
  BY DEF Load

\* What the configuration allows: at least one worker, rows per batch and
\* attempt.
LEMMA Sizes ==
  /\ NumWorkers \in Nat /\ NumWorkers > 0 /\ BatchSize \in Nat /\ BatchSize > 0
  /\ MaxRetries \in Nat /\ MaxRetries > 0 /\ 0 \in Worker /\ NoTarget \notin Target
<1>1. {NumWorkers, BatchSize, HighWater, MaxRetries} \subseteq Nat \ {0}
  BY BulkAssumption
<1> QED
  BY <1>1, BulkAssumption DEF Worker

\* The parts of a runtime have their types.
LEMMA RuntimeParts ==
  ASSUME NEW d \in Runtime, NEW w \in Worker
  PROVE  /\ d.target \in Target /\ d.inFlight \in Nat /\ d.next \in Worker
         /\ d.buffer \in [Worker -> Seq(Entry)] /\ d.batch \in [Worker -> Seq(Entry)]
         /\ d.idle \in [Worker -> BOOLEAN]
         /\ d.buffer[w] \in Seq(Entry) /\ d.batch[w] \in Seq(Entry)
         /\ Load(d, w) \in Nat /\ Has(d, w) \subseteq Entry
<1>1. d.buffer[w] \in Seq(Entry) /\ d.batch[w] \in Seq(Entry)
  BY DEF Runtime
<1>2. Load(d, w) \in Nat
  <2> DEFINE x == Len(d.buffer[w])
             y == Len(d.batch[w])
  <2>1. x \in Nat /\ y \in Nat
    BY <1>1, LenProperties
  <2>2. Load(d, w) = x + y
    BY DEF Load
  <2> HIDE DEF x, y
  <2> QED
    BY <2>1, <2>2
<1>3. Has(d, w) \subseteq Entry
  BY <1>1, RangeIs DEF Has
<1> QED
  BY <1>1, <1>2, <1>3 DEF Runtime

\* Its rows are all that an operation on a runtime moves.
Refilled(d, buffer, batch, idle) ==
  [d EXCEPT !.buffer = buffer, !.batch = batch, !.idle = idle]

\* A runtime given other rows is a runtime, the same in all else.
LEMMA RefilledIs ==
  ASSUME NEW d \in Runtime,
         NEW B \in [Worker -> Seq(Entry)], NEW A \in [Worker -> Seq(Entry)],
         NEW I \in [Worker -> BOOLEAN]
  PROVE  LET e == Refilled(d, B, A, I) IN
         /\ e \in Runtime
         /\ e.buffer = B /\ e.batch = A /\ e.idle = I
         /\ e.target = d.target /\ e.up = d.up /\ e.stopped = d.stopped
         /\ e.inFlight = d.inFlight /\ e.next = d.next
  BY DEF Refilled, Runtime

\* scheduleFlush moves rows from the buffer to the flush loop, of one worker only;
\* if it leaves that worker's loop idle there was nothing to move.
LEMMA ScheduleKeeps ==
  ASSUME NEW d \in Runtime, NEW w \in Worker
  PROVE  LET e == ScheduleFlush(d, w) IN
         /\ e = Refilled(d, e.buffer, e.batch, d.idle)
         /\ e.buffer \in [Worker -> Seq(Entry)] /\ e.batch \in [Worker -> Seq(Entry)]
         /\ \A v \in Worker : Load(e, v) = Load(d, v) /\ Has(e, v) = Has(d, v)
         /\ \A v \in Worker \ {w} : e.buffer[v] = d.buffer[v] /\ e.batch[v] = d.batch[v]
         /\ e.batch[w] = <<>> => e.buffer[w] = <<>>
<1> DEFINE e == ScheduleFlush(d, w)
           s == d.buffer[w]
           n == IF Len(s) < BatchSize THEN Len(s) ELSE BatchSize
           a == SubSeq(s, 1, n)
           b == SubSeq(s, n + 1, Len(s))
<1>1. s \in Seq(Entry) /\ n \in 0 .. Len(s) /\ (n = 0 => Len(s) = 0)
  BY RuntimeParts, Sizes
<1>2. /\ a \in Seq(Entry) /\ b \in Seq(Entry) /\ Len(a) = n /\ Len(b) = Len(s) - n
      /\ Range(a) \cup Range(b) = Range(s)
  <2> HIDE DEF s, n
  <2> QED
    BY <1>1, Cut
<1>3. CASE d.batch[w] # <<>>
  <2>1. e = d
    BY <1>3 DEF ScheduleFlush
  <2>2. d = Refilled(d, d.buffer, d.batch, d.idle)
    BY DEF Refilled, Runtime
  <2> QED
    BY <1>3, <2>1, <2>2, RuntimeParts
<1>4. CASE d.batch[w] = <<>>
  <2> DEFINE B == [d.buffer EXCEPT ![w] = b]
             A == [d.batch EXCEPT ![w] = a]
  <2>1. e = [d EXCEPT !.batch[w] = a, !.buffer[w] = b]
    BY <1>4 DEF ScheduleFlush
  <2>2. B \in [Worker -> Seq(Entry)] /\ A \in [Worker -> Seq(Entry)]
    BY <1>2, RuntimeParts
  <2> HIDE DEF a, b, n
  <2>3. e = Refilled(d, B, A, d.idle)
    BY <2>1 DEF Refilled, Runtime
  <2>4. e.buffer = B /\ e.batch = A
    <3> HIDE DEF A, B, e
    <3> DEFINE x == Refilled(d, B, A, d.idle)
    <3>2. x.buffer = B /\ x.batch = A
      BY DEF Refilled, Runtime
    <3> QED
      BY <2>3, <3>2
  <2>5. B[w] = b /\ A[w] = a
    BY RuntimeParts
  <2>6. \A v \in Worker \ {w} : B[v] = d.buffer[v] /\ A[v] = d.batch[v]
    BY RuntimeParts
  <2>7. Load(e, w) = Load(d, w)
    <3> DEFINE l == Len(s)
    <3>1. l \in Nat /\ Len(d.batch[w]) = 0 /\ n \in 0 .. l
      BY <1>1, <1>4, LenProperties
    <3>2. Len(e.buffer[w]) = l - n /\ Len(e.batch[w]) = n
      BY <1>2, <2>4, <2>5
    <3> HIDE DEF l
    <3>3. Load(e, w) = (l - n) + n
      BY <3>1, <3>2, LoadIs
    <3>4. Load(d, w) = l
      BY <3>1, LoadIs DEF l
    <3> QED
      BY <3>1, <3>3, <3>4
  <2>8. Has(e, w) = Has(d, w)
    <3>1. Range(d.batch[w]) = {}
      BY <1>4 DEF Range
    <3> QED
      BY <1>2, <2>4, <2>5, <3>1 DEF Has
  <2>9. a = <<>> => b = <<>>
    BY <1>1, <1>2
  <2>10. \A v \in Worker \ {w} : Load(e, v) = Load(d, v) /\ Has(e, v) = Has(d, v)
    BY <2>4, <2>6 DEF Load, Has
  <2> QED
    BY <2>2, <2>3, <2>4, <2>5, <2>6, <2>7, <2>8, <2>9, <2>10
<1> QED
  BY <1>3, <1>4

\* What e, made of the runtime d, has left as it was: the runtime but for its rows,
\* the rows of a worker, all rows of a worker though they moved; and a worker that
\* has nothing in its flush loop has nothing at all.
SameRuntime(d, e) ==
  /\ e \in Runtime /\ e.target = d.target /\ e.up = d.up /\ e.stopped = d.stopped
  /\ e.inFlight = d.inFlight /\ e.next = d.next
SameRows(d, e, v) == e.buffer[v] = d.buffer[v] /\ e.batch[v] = d.batch[v]
KeepsRows(d, e, v) == Load(e, v) = Load(d, v) /\ Has(e, v) = Has(d, v)
Pumped(e, v) == e.batch[v] = <<>> => e.buffer[v] = <<>>

\* scheduleFlush moves rows from the buffer of a worker into its flush loop, none
\* else.
LEMMA Scheduled ==
  ASSUME NEW d \in Runtime, NEW w \in Worker
  PROVE  LET e == ScheduleFlush(d, w) IN
         /\ SameRuntime(d, e)
         /\ \A v \in Worker : KeepsRows(d, e, v) /\ (v # w => SameRows(d, e, v))
         /\ Pumped(e, w)
         /\ e.idle = d.idle
<1> DEFINE e == ScheduleFlush(d, w)
<1>1. /\ e = Refilled(d, e.buffer, e.batch, d.idle)
      /\ e.buffer \in [Worker -> Seq(Entry)] /\ e.batch \in [Worker -> Seq(Entry)]
      /\ \A v \in Worker : KeepsRows(d, e, v)
      /\ \A v \in Worker \ {w} : SameRows(d, e, v)
      /\ Pumped(e, w)
  BY ScheduleKeeps DEF KeepsRows, SameRows, Pumped
<1> HIDE DEF e
<1>2. SameRuntime(d, e) /\ e.idle = d.idle
  <2> DEFINE B == e.buffer
             A == e.batch
             x == Refilled(d, B, A, d.idle)
  <2>1. B \in [Worker -> Seq(Entry)] /\ A \in [Worker -> Seq(Entry)] /\ e = x
    BY <1>1
  <2> HIDE DEF A, B
  <2>2. x \in Runtime
    BY <2>1 DEF Refilled, Runtime
  <2>3. /\ x.target = d.target /\ x.inFlight = d.inFlight /\ x.next = d.next
        /\ x.idle = d.idle
    BY DEF Refilled, Runtime
  <2>4. x.up = d.up /\ x.stopped = d.stopped
    BY DEF Refilled, Runtime
  <2> QED
    BY <2>1, <2>2, <2>3, <2>4 DEF SameRuntime
<1> QED
  BY <1>1, <1>2 DEF e

\* The idle timer.
LEMMA IdleTimerKeeps ==
  ASSUME NEW d \in Runtime, NEW w \in Worker
  PROVE  LET e == ScheduleFlush([d EXCEPT !.idle[w] = FALSE], w) IN
         /\ SameRuntime(d, e)
         /\ \A v \in Worker : KeepsRows(d, e, v) /\ (v # w => SameRows(d, e, v))
         /\ Pumped(e, w)
<1> DEFINE c == [d EXCEPT !.idle[w] = FALSE]
           e == ScheduleFlush(c, w)
<1>1. c \in Runtime
  BY DEF Runtime
<1>2. /\ c.target = d.target /\ c.inFlight = d.inFlight /\ c.next = d.next
      /\ c.buffer = d.buffer /\ c.batch = d.batch
  BY DEF Runtime
<1>3. c.up = d.up /\ c.stopped = d.stopped
  BY DEF Runtime
<1> HIDE DEF c
<1>4. /\ SameRuntime(c, e)
      /\ \A v \in Worker : KeepsRows(c, e, v) /\ (v # w => SameRows(c, e, v))
      /\ Pumped(e, w)
  BY <1>1, Scheduled
<1> HIDE DEF e
<1>5. SameRuntime(d, e)
  BY <1>2, <1>3, <1>4 DEF SameRuntime
<1>6. \A v \in Worker : KeepsRows(d, e, v) /\ (v # w => SameRows(d, e, v))
  BY <1>2, <1>4 DEF KeepsRows, SameRows, Load, Has
<1> QED
  BY <1>4, <1>5, <1>6 DEF c, e

\* A drain leaves no worker with rows in its buffer and none in its flush loop.
LEMMA DrainKeeps ==
  ASSUME NEW d \in Runtime
  PROVE  LET e == StartDrain(d) IN
         /\ SameRuntime(d, e)
         /\ \A v \in Worker : KeepsRows(d, e, v) /\ Pumped(e, v)
<1> DEFINE e == StartDrain(d)
           S(w) == ScheduleFlush(d, w)
           B == [w \in Worker |-> S(w).buffer[w]]
           A == [w \in Worker |-> S(w).batch[w]]
           I == PerWorker(FALSE)
<1>1. ASSUME NEW w \in Worker
      PROVE  /\ S(w) \in Runtime /\ KeepsRows(d, S(w), w) /\ Pumped(S(w), w)
             /\ S(w).buffer[w] \in Seq(Entry) /\ S(w).batch[w] \in Seq(Entry)
  <2>1. S(w) \in Runtime /\ KeepsRows(d, S(w), w) /\ Pumped(S(w), w)
    BY Scheduled DEF SameRuntime
  <2> HIDE DEF S
  <2> QED
    BY <2>1, RuntimeParts
<1> HIDE DEF S
<1>2. /\ B \in [Worker -> Seq(Entry)] /\ A \in [Worker -> Seq(Entry)]
      /\ I \in [Worker -> BOOLEAN]
  BY <1>1 DEF PerWorker
<1>3. e = [d EXCEPT !.idle = I, !.batch = A, !.buffer = B]
  BY DEF StartDrain, S
<1>4. \A v \in Worker : B[v] = S(v).buffer[v] /\ A[v] = S(v).batch[v]
  OBVIOUS
<1> HIDE DEF A, B, I, e
<1>5. e \in Runtime
  BY <1>2, <1>3 DEF Runtime
<1>6. /\ e.target = d.target /\ e.inFlight = d.inFlight /\ e.next = d.next
      /\ e.buffer = B /\ e.batch = A
  BY <1>3 DEF Runtime
<1>7. e.up = d.up /\ e.stopped = d.stopped
  BY <1>3 DEF Runtime
<1>8. \A v \in Worker : KeepsRows(d, e, v) /\ Pumped(e, v)
  BY <1>1, <1>4, <1>6 DEF KeepsRows, Pumped, Load, Has
<1> QED
  BY <1>5, <1>6, <1>7, <1>8 DEF SameRuntime, e

\* The rows of a batch to be tried again: as many as were kept, each of them once.
Again(batch, kept) ==
  [i \in 1 .. Cardinality(kept) |->
     LET e == batch[InOrder(kept)[i]] IN [e EXCEPT !.attempts = @ + 1]]

\* The rows to be tried again are those kept, each with one more attempt.
LEMMA AgainIs ==
  ASSUME NEW batch \in Seq(Entry), NEW kept \in SUBSET (1 .. Len(batch)),
         \A i \in kept : batch[i].attempts + 1 < MaxRetries
  PROVE  /\ Again(batch, kept) \in Seq(Entry)
         /\ Len(Again(batch, kept)) = Cardinality(kept) /\ Cardinality(kept) \in Nat
         /\ \A i \in kept : \E e \in Range(Again(batch, kept)) : e.row = batch[i].row
<1> DEFINE k == Cardinality(kept)
           f == InOrder(kept)
           A(i) == LET e == batch[f[i]] IN [e EXCEPT !.attempts = @ + 1]
           again == [i \in 1 .. k |-> A(i)]
<1>1. Len(batch) \in Nat
  OBVIOUS
<1>2. k \in Nat /\ f \in [1 .. k -> kept] /\ \A s \in kept : \E i \in 1 .. k : f[i] = s
  BY <1>1, InOrderLists
<1> HIDE DEF k, f
<1>3. ASSUME NEW i \in 1 .. k PROVE A(i) \in Entry /\ A(i).row = batch[f[i]].row
  <2>1. f[i] \in kept /\ f[i] \in 1 .. Len(batch)
    BY <1>2
  <2>2. batch[f[i]] \in Entry /\ batch[f[i]].attempts + 1 < MaxRetries
    BY <2>1
  <2> DEFINE x == batch[f[i]]
             y == [x EXCEPT !.attempts = @ + 1]
  <2>3. x \in Entry /\ x.attempts + 1 < MaxRetries /\ A(i) = y
    BY <2>2
  <2> HIDE DEF x
  <2>4. y \in Entry /\ y.row = x.row
    <3>1. x.attempts \in 0 .. MaxRetries /\ x.row \in Row
      BY <2>3 DEF Entry
    <3>2. x.attempts + 1 \in 0 .. MaxRetries
      BY <2>3, <3>1, Sizes
    <3> QED
      BY <2>3, <3>1, <3>2 DEF Entry
  <2> QED
    BY <2>3, <2>4 DEF x
<1> HIDE DEF A
<1>4. again \in Seq(Entry) /\ Len(again) = k /\ \A i \in 1 .. k : again[i] = A(i)
  BY <1>2, <1>3
<1> HIDE DEF again
<1>5. ASSUME NEW s \in kept PROVE \E e \in Range(again) : e.row = batch[s].row
  <2>1. PICK i \in 1 .. k : f[i] = s
    BY <1>2
  <2>2. again[i] \in Range(again) /\ again[i].row = batch[s].row
    BY <1>3, <1>4, <2>1, RangeIs
  <2> QED
    BY <2>2
<1>6. again = Again(batch, kept)
  BY DEF Again, again, A, k, f
<1> QED
  BY <1>2, <1>4, <1>5, <1>6 DEF k

\* What a flush leaves of the runtime: the rows to be tried again are back with
\* their worker, and the others are no longer counted.
Flushed(d, w, again, n) == ScheduleFlush(settle(Requeue(d, w, again), n), w)

\* What the reply to a pipeline leaves of the runtime.
LEMMA FlushedIs ==
  ASSUME NEW d \in Runtime, NEW w \in Worker, NEW again \in Seq(Entry), NEW n \in Nat
  PROVE  LET e == Flushed(d, w, again, n) IN
         /\ e \in Runtime /\ e.target = d.target /\ e.up = d.up /\ e.stopped = d.stopped
         /\ e.inFlight = IF d.inFlight < n THEN 0 ELSE d.inFlight - n
         /\ \A v \in Worker \ {w} : SameRows(d, e, v)
         /\ Load(e, w) = Len(again) + Len(d.buffer[w])
         /\ Has(e, w) = Range(again) \cup Range(d.buffer[w])
         /\ Pumped(e, w)
<1> DEFINE q == Requeue(d, w, again)
           c == settle(q, n)
           e == ScheduleFlush(c, w)
           s == Reverse(again) \o d.buffer[w]
           m == IF d.inFlight < n THEN 0 ELSE d.inFlight - n
<1>1. /\ s \in Seq(Entry) /\ Len(s) = Len(again) + Len(d.buffer[w])
      /\ Range(s) = Range(again) \cup Range(d.buffer[w])
  <2> DEFINE r == Reverse(again)
             b == d.buffer[w]
  <2>1. r \in Seq(Entry) /\ Len(r) = Len(again) /\ Range(r) = Range(again)
    BY Reversed
  <2>2. b \in Seq(Entry)
    BY RuntimeParts
  <2> HIDE DEF r, b
  <2>3. /\ r \o b \in Seq(Entry) /\ Len(r \o b) = Len(r) + Len(b)
        /\ Range(r \o b) = Range(r) \cup Range(b)
    BY <2>1, <2>2, Joined
  <2> QED
    BY <2>1, <2>3 DEF r, b
<1> HIDE DEF s
<1>2. q = [d EXCEPT !.buffer[w] = s, !.batch[w] = <<>>]
  BY DEF Requeue, s
<1> HIDE DEF q
<1>3. q \in Runtime
  <2> DEFINE B == [d.buffer EXCEPT ![w] = s]
             A == [d.batch EXCEPT ![w] = <<>>]
  <2>1. <<>> \in Seq(Entry)
    OBVIOUS
  <2>2. B \in [Worker -> Seq(Entry)] /\ A \in [Worker -> Seq(Entry)]
    BY <1>1, <2>1, RuntimeParts
  <2>3. q = [d EXCEPT !.buffer = B, !.batch = A]
    BY <1>2
  <2> HIDE DEF A, B
  <2> QED
    BY <2>2, <2>3 DEF Runtime
<1>4. /\ q.target = d.target /\ q.inFlight = d.inFlight
      /\ q.buffer = [d.buffer EXCEPT ![w] = s] /\ q.batch = [d.batch EXCEPT ![w] = <<>>]
  BY <1>2 DEF Runtime
<1>5. q.up = d.up /\ q.stopped = d.stopped
  BY <1>2 DEF Runtime
<1>6. m \in Nat
  BY RuntimeParts
<1>7. c = [q EXCEPT !.inFlight = m]
  BY <1>4 DEF settle
<1> HIDE DEF c, m
<1>8. c \in Runtime
  BY <1>3, <1>6, <1>7 DEF Runtime
<1>9. /\ c.target = q.target /\ c.inFlight = m /\ c.buffer = q.buffer /\ c.batch = q.batch
  BY <1>3, <1>7 DEF Runtime
<1>10. c.up = q.up /\ c.stopped = q.stopped
  BY <1>3, <1>7 DEF Runtime
<1>11. /\ SameRuntime(c, e) /\ Pumped(e, w)
       /\ \A v \in Worker : KeepsRows(c, e, v) /\ (v # w => SameRows(c, e, v))
  BY <1>8, Scheduled
<1> HIDE DEF e
<1>12. c.buffer[w] = s /\ c.batch[w] = <<>>
  BY <1>4, <1>9, RuntimeParts
<1>13. \A v \in Worker \ {w} : SameRows(d, e, v)
  BY <1>4, <1>9, <1>11, RuntimeParts DEF SameRows
<1>14. Load(e, w) = Len(again) + Len(d.buffer[w])
  <2> DEFINE l == Len(s)
  <2>1. l \in Nat /\ Len(c.buffer[w]) = l /\ Len(c.batch[w]) = 0
    BY <1>1, <1>12, LenProperties
  <2> HIDE DEF l
  <2>2. Load(c, w) = l + 0
    BY <2>1 DEF Load
  <2>3. Load(c, w) = l
    BY <2>1, <2>2
  <2> QED
    BY <1>1, <1>11, <2>3 DEF KeepsRows, l
<1>15. Has(e, w) = Range(again) \cup Range(d.buffer[w])
  <2>1. Range(<<>>) = {}
    BY DEF Range
  <2> QED
    BY <1>1, <1>11, <1>12, <2>1 DEF KeepsRows, Has
<1>16. e \in Runtime /\ e.target = d.target /\ e.inFlight = m
  BY <1>4, <1>9, <1>11 DEF SameRuntime
<1>17. e.up = d.up /\ e.stopped = d.stopped
  BY <1>5, <1>10, <1>11 DEF SameRuntime
<1>18. e = Flushed(d, w, again, n)
  BY DEF Flushed, e, c, q
<1> QED
  BY <1>11, <1>13, <1>14, <1>15, <1>16, <1>17, <1>18 DEF m

\* The rows of a body are shared out: each position is one worker's.
LEMMA SharesPart ==
  ASSUME NEW d \in Runtime, NEW seq \in Seq(Row)
  PROVE  /\ \A w \in Worker : Share(d, w, seq) \in SUBSET (1 .. Len(seq))
         /\ \A i \in 1 .. Len(seq) : \E w \in Worker : i \in Share(d, w, seq)
         /\ \A v, w \in Worker : \A i \in Share(d, v, seq) : i \in Share(d, w, seq) => v = w
<1>1. DOMAIN seq = 1 .. Len(seq)
  OBVIOUS
<1>2. ASSUME NEW i \in 1 .. Len(seq) PROVE (d.next + i - 1) % NumWorkers \in Worker
  <2>1. d.next \in Nat
    BY RuntimeParts, Sizes DEF Worker
  <2> DEFINE k == d.next + i - 1
  <2>2. k \in Nat
    BY <2>1
  <2> HIDE DEF k
  <2>3. k % NumWorkers \in 0 .. NumWorkers - 1
    BY <2>2, Sizes
  <2> QED
    BY <2>3 DEF Worker, k
<1>3. ASSUME NEW i \in 1 .. Len(seq) PROVE \E w \in Worker : i \in Share(d, w, seq)
  BY <1>1, <1>2 DEF Share
<1>4. \A w \in Worker : Share(d, w, seq) \in SUBSET (1 .. Len(seq))
  BY <1>1 DEF Share
<1>5. \A v, w \in Worker : \A i \in Share(d, v, seq) : i \in Share(d, w, seq) => v = w
  BY DEF Share
<1> QED
  BY <1>3, <1>4, <1>5

\* A worker is given an entry for each of its positions, and only those.
LEMMA EntriesAre ==
  ASSUME NEW d \in Runtime, NEW seq \in Seq(Row), NEW w \in Worker
  PROVE  /\ Entries(d, w, seq) \in Seq(Entry)
         /\ Len(Entries(d, w, seq)) = Cardinality(Share(d, w, seq))
         /\ Cardinality(Share(d, w, seq)) \in Nat
         /\ \A i \in Share(d, w, seq) : \E e \in Range(Entries(d, w, seq)) : e.row = seq[i]
<1> DEFINE S == Share(d, w, seq)
           k == Cardinality(S)
           f == InOrder(S)
           A(i) == [row |-> seq[f[i]], attempts |-> 0]
           es == [i \in 1 .. k |-> A(i)]
<1>1. S \in SUBSET (1 .. Len(seq)) /\ Len(seq) \in Nat
  BY SharesPart
<1> HIDE DEF S
<1>2. k \in Nat /\ f \in [1 .. k -> S] /\ \A s \in S : \E i \in 1 .. k : f[i] = s
  BY <1>1, InOrderLists
<1> HIDE DEF k, f
<1>3. ASSUME NEW i \in 1 .. k PROVE A(i) \in Entry /\ A(i).row = seq[f[i]]
  <2>0. f[i] \in S
    BY <1>2
  <2>a. f[i] \in 1 .. Len(seq)
    BY <1>1, <2>0
  <2>1. seq[f[i]] \in Row
    BY <2>a
  <2>2. 0 \in 0 .. MaxRetries
    BY Sizes
  <2> QED
    BY <2>1, <2>2 DEF Entry
<1> HIDE DEF A
<1>4. es \in Seq(Entry) /\ Len(es) = k /\ \A i \in 1 .. k : es[i] = A(i)
  BY <1>2, <1>3
<1> HIDE DEF es
<1>5. ASSUME NEW s \in S PROVE \E e \in Range(es) : e.row = seq[s]
  <2>1. PICK i \in 1 .. k : f[i] = s
    BY <1>2
  <2>2. es[i] \in Range(es) /\ es[i].row = seq[s]
    BY <1>3, <1>4, <2>1, RangeIs
  <2> QED
    BY <2>2
<1>6. es = Entries(d, w, seq)
  BY DEF Entries, es, A, k, f, S
<1> QED
  BY <1>2, <1>4, <1>5, <1>6 DEF k, S

\* What a worker holds once it was pushed more.
Given(d, w, more, p) ==
  /\ p.buffer \in Seq(Entry) /\ p.batch \in Seq(Entry) /\ p.idle \in BOOLEAN
  /\ Len(p.buffer) + Len(p.batch) = Load(d, w) + Len(more)
  /\ Range(p.buffer) \cup Range(p.batch) = Has(d, w) \cup Range(more)

\* A worker holds what it held and what it was pushed, in one of its two
\* sequences.
LEMMA PushIs ==
  ASSUME NEW d \in Runtime, NEW w \in Worker, NEW more \in Seq(Entry)
  PROVE  Given(d, w, more, push(d, w, more))
<1> DEFINE s == d.buffer[w]
           t == d.batch[w]
           all == s \o more
           n == IF t = <<>> /\ Len(all) >= BatchSize THEN BatchSize ELSE 0
           a == SubSeq(all, 1, n)
           b == SubSeq(all, n + 1, Len(all))
           p == push(d, w, more)
           k == Len(s)
           l == Len(t)
           m == Len(more)
<1>1. s \in Seq(Entry) /\ t \in Seq(Entry) /\ k \in Nat /\ l \in Nat /\ m \in Nat
  BY RuntimeParts, LenProperties
<1>2. all \in Seq(Entry) /\ Len(all) = k + m /\ Range(all) = Range(s) \cup Range(more)
  <2> HIDE DEF s
  <2> QED
    BY <1>1, Joined DEF k
<1>3. n \in 0 .. Len(all)
  BY <1>1, <1>2, Sizes
<1>4. /\ a \in Seq(Entry) /\ b \in Seq(Entry) /\ Len(a) = n /\ Len(b) = Len(all) - n
      /\ Range(a) \cup Range(b) = Range(all)
  <2>1. all \in Seq(Entry) /\ n \in 0 .. Len(all)
    BY <1>2, <1>3
  <2> HIDE DEF all, n, p, k, l, m, s, t
  <2> QED
    BY <2>1, Cut, ZenonT(60)
<1>5. p.buffer = b /\ p.batch = IF n = 0 THEN t ELSE a
  BY DEF push
<1>6. p.idle \in BOOLEAN
  <2>1. d.idle[w] \in BOOLEAN
    BY RuntimeParts
  <2>2. p.idle = IF more = <<>> THEN d.idle[w] ELSE Len(all) - n \in 1 .. BatchSize - 1
    BY DEF push
  <2>3. CASE more = <<>>
    BY <2>1, <2>2, <2>3
  <2>4. CASE more # <<>>
    <3>1. p.idle = (Len(all) - n \in 1 .. BatchSize - 1)
      BY <2>2, <2>4
    <3> HIDE DEF p, all, n
    <3> QED
      BY <3>1
  <2> QED
    BY <2>3, <2>4
<1>7. n # 0 => t = <<>>
  OBVIOUS
<1>8. Load(d, w) = k + l
  BY DEF Load
<1>9. Has(d, w) = Range(s) \cup Range(t)
  BY DEF Has
<1> HIDE DEF p, a, b, n, all, s, m, k
<1>10. ASSUME n = 0 PROVE Given(d, w, more, p)
  <2>1. Range(a) = {} /\ p.batch = t
    <3>1. a = <<>>
      BY <1>4, <1>10
    <3> QED
      BY <1>5, <1>10, <3>1 DEF Range
  <2>2. Range(p.buffer) \cup Range(p.batch) = Has(d, w) \cup Range(more)
    BY <1>2, <1>4, <1>5, <1>9, <2>1
  <2>3. Len(p.buffer) = k + m /\ Len(p.batch) = l
    BY <1>1, <1>2, <1>4, <1>5, <1>10, <2>1
  <2> HIDE DEF l, t
  <2>4. Len(p.buffer) + Len(p.batch) = (k + m) + l /\ (k + m) + l = (k + l) + m
    BY <1>1, <2>3
  <2>5. Len(p.buffer) + Len(p.batch) = Load(d, w) + m
    BY <1>8, <2>4 DEF l
  <2> QED
    BY <1>2, <1>4, <1>5, <1>6, <1>1, <2>1, <2>2, <2>5 DEF m, Given
<1>11. ASSUME n # 0 PROVE Given(d, w, more, p)
  <2>1. t = <<>> /\ l = 0 /\ Range(t) = {} /\ p.batch = a
    BY <1>5, <1>7, <1>11 DEF Range
  <2>2. Range(p.buffer) \cup Range(p.batch) = Has(d, w) \cup Range(more)
    BY <1>2, <1>4, <1>5, <1>9, <2>1
  <2>3. Len(p.buffer) = (k + m) - n /\ Len(p.batch) = n
    BY <1>2, <1>4, <1>5, <2>1
  <2> HIDE DEF l, t
  <2>4. Len(p.buffer) + Len(p.batch) = ((k + m) - n) + n /\ ((k + m) - n) + n = (k + l) + m
    BY <1>1, <1>2, <1>3, <2>1, <2>3
  <2>5. Len(p.buffer) + Len(p.batch) = Load(d, w) + m
    BY <1>8, <2>4 DEF l
  <2> QED
    BY <1>2, <1>4, <1>5, <1>6, <1>1, <2>1, <2>2, <2>5 DEF m, Given
<1>12. Given(d, w, more, p)
  BY <1>10, <1>11
<1> QED
  BY <1>12 DEF p

\* Whatever becomes of it, a body is counted.
LEMMA Counted ==
  ASSUME NEW d \in Runtime, NEW seq \in Seq(Row)
  PROVE  LET e == enqueue(d, seq) IN
         /\ e \in Runtime /\ e.target = d.target /\ e.up = d.up /\ e.stopped = d.stopped
         /\ e.inFlight = d.inFlight + Len(seq)
         /\ d.stopped => \A v \in Worker : SameRows(d, e, v)
         /\ ~d.stopped =>
              \A v \in Worker :
                LET p == push(d, v, Entries(d, v, seq))
                IN  e.buffer[v] = p.buffer /\ e.batch[v] = p.batch
<1> DEFINE P(v) == push(d, v, Entries(d, v, seq))
           n == d.inFlight + Len(seq)
           j == (d.next + Len(seq)) % NumWorkers
           c == [d EXCEPT !.inFlight = n, !.next = j]
           B == [v \in Worker |-> P(v).buffer]
           A == [v \in Worker |-> P(v).batch]
           I == [v \in Worker |-> P(v).idle]
           e == enqueue(d, seq)
<1>1. n \in Nat /\ j \in Worker
  <2> DEFINE l == Len(seq)
             x == d.next + l
  <2>1. l \in Nat /\ d.inFlight \in Nat /\ d.next \in Nat
    BY RuntimeParts, Sizes, LenProperties DEF Worker
  <2> HIDE DEF l
  <2>2. x \in Nat /\ n \in Nat
    BY <2>1 DEF l
  <2> HIDE DEF x
  <2>3. x % NumWorkers \in 0 .. NumWorkers - 1
    BY <2>2, Sizes
  <2> QED
    BY <2>2, <2>3 DEF Worker, x, l
<1> HIDE DEF n, j
<1>2. c \in Runtime
  BY <1>1 DEF Runtime
<1>3. c.target = d.target /\ c.inFlight = n /\ c.buffer = d.buffer /\ c.batch = d.batch
  BY DEF Runtime
<1>4. c.up = d.up /\ c.stopped = d.stopped
  BY DEF Runtime
<1> HIDE DEF c
<1>5. e = IF d.stopped THEN c ELSE [c EXCEPT !.buffer = B, !.batch = A, !.idle = I]
  BY DEF enqueue, c, n, j
<1>6. ASSUME NEW v \in Worker
      PROVE  P(v).buffer \in Seq(Entry) /\ P(v).batch \in Seq(Entry) /\ P(v).idle \in BOOLEAN
  BY EntriesAre, PushIs DEF Given
<1> HIDE DEF P
<1>7. /\ B \in [Worker -> Seq(Entry)] /\ A \in [Worker -> Seq(Entry)]
      /\ I \in [Worker -> BOOLEAN]
  BY <1>6
<1>8. \A v \in Worker : B[v] = P(v).buffer /\ A[v] = P(v).batch
  OBVIOUS
<1> HIDE DEF A, B, I, e
<1>9. CASE d.stopped
  <2>1. e = c
    BY <1>5, <1>9
  <2> QED
    BY <1>2, <1>3, <1>4, <1>9, <2>1 DEF e, n, SameRows
<1>10. CASE ~d.stopped
  <2> DEFINE x == [c EXCEPT !.buffer = B, !.batch = A, !.idle = I]
  <2>1. e = x
    BY <1>5, <1>10
  <2>2. x \in Runtime
    BY <1>2, <1>7 DEF Runtime
  <2>3. x.target = c.target /\ x.inFlight = c.inFlight /\ x.buffer = B /\ x.batch = A
    BY <1>2 DEF Runtime
  <2>4. x.up = c.up /\ x.stopped = c.stopped
    BY <1>2 DEF Runtime
  <2> HIDE DEF x
  <2>5. \A v \in Worker : e.buffer[v] = P(v).buffer /\ e.batch[v] = P(v).batch
    BY <1>8, <2>1, <2>3
  <2> QED
    BY <1>3, <1>4, <1>10, <2>1, <2>2, <2>3, <2>4, <2>5 DEF e, n, P
<1> QED
  BY <1>9, <1>10

\* A body taken by a dispatcher that runs is shared out among the workers.
LEMMA Enqueued ==
  ASSUME NEW d \in Runtime, NEW seq \in Seq(Row), ~d.stopped
  PROVE  LET e == enqueue(d, seq) IN
         /\ \A v \in Worker : /\ Load(e, v) = Load(d, v) + Cardinality(Share(d, v, seq))
                              /\ Has(d, v) \subseteq Has(e, v)
         /\ \A i \in 1 .. Len(seq) : \E v \in Worker : \E x \in Has(e, v) : x.row = seq[i]
<1> DEFINE e == enqueue(d, seq)
<1>1. ASSUME NEW v \in Worker
      PROVE  /\ Load(e, v) = Load(d, v) + Cardinality(Share(d, v, seq))
             /\ Has(e, v) = Has(d, v) \cup Range(Entries(d, v, seq))
  <2> DEFINE es == Entries(d, v, seq)
             p == push(d, v, es)
  <2>1. es \in Seq(Entry) /\ Len(es) = Cardinality(Share(d, v, seq))
    BY EntriesAre
  <2>2. e.buffer[v] = p.buffer /\ e.batch[v] = p.batch
    BY Counted
  <2> HIDE DEF es, e
  <2>3. /\ Len(p.buffer) + Len(p.batch) = Load(d, v) + Len(es)
        /\ Range(p.buffer) \cup Range(p.batch) = Has(d, v) \cup Range(es)
    <3>1. Given(d, v, es, p)
      BY <2>1, PushIs
    <3> HIDE DEF p
    <3> QED
      BY <3>1 DEF Given
  <2> HIDE DEF p
  <2>4. Load(e, v) = Len(p.buffer) + Len(p.batch)
    BY <2>2 DEF Load
  <2>5. Has(e, v) = Range(p.buffer) \cup Range(p.batch)
    BY <2>2 DEF Has
  <2> QED
    BY <2>1, <2>3, <2>4, <2>5 DEF es
<1>2. ASSUME NEW i \in 1 .. Len(seq)
      PROVE  \E v \in Worker : \E x \in Has(e, v) : x.row = seq[i]
  <2>1. PICK v \in Worker : i \in Share(d, v, seq)
    BY SharesPart
  <2>2. PICK x \in Range(Entries(d, v, seq)) : x.row = seq[i]
    BY <2>1, EntriesAre
  <2> QED
    BY <1>1, <2>2
<1> QED
  BY <1>1, <1>2

\* A pool just built runs and holds nothing.
LEMMA FreshIs ==
  ASSUME NEW t \in Target
  PROVE  /\ Fresh(t) \in Runtime /\ Fresh(t).target = t /\ Fresh(t).up /\ ~Fresh(t).stopped
         /\ Fresh(t).inFlight = 0
         /\ \A v \in Worker : Load(Fresh(t), v) = 0
  <1>1. <<>> \in Seq(Entry)
    OBVIOUS
  <1>2. Fresh(t) \in Runtime
    BY <1>1, Sizes DEF Fresh, Runtime, PerWorker
  <1>3. /\ Fresh(t).target = t /\ Fresh(t).up /\ ~Fresh(t).stopped /\ Fresh(t).inFlight = 0
        /\ Fresh(t).buffer = [w \in Worker |-> <<>>] /\ Fresh(t).batch = [w \in Worker |-> <<>>]
    BY DEF Fresh, PerWorker
  <1>4. ASSUME NEW v \in Worker PROVE Load(Fresh(t), v) = 0
    <2>1. Fresh(t).buffer[v] = <<>> /\ Fresh(t).batch[v] = <<>>
      BY <1>3
    <2>2. Load(Fresh(t), v) = 0 + 0
      BY <2>1, LoadIs
    <2> QED
      BY <2>2
  <1> QED
    BY <1>2, <1>3, <1>4

-------------------------------------------------------------------------------
(* Counting the rows a runtime holds *)

Shelf(d, W) == UNION {Places(d, w) : w \in W}

\* A worker has as many places as it holds rows.
LEMMA PlacesAre ==
  ASSUME NEW d \in Runtime, NEW w \in Worker
  PROVE  /\ Places(d, w) = {w} \X (1 .. Load(d, w))
         /\ IsFiniteSet(Places(d, w)) /\ Cardinality(Places(d, w)) = Load(d, w)
<1> DEFINE n == Load(d, w)
<1>1. Places(d, w) = {w} \X (1 .. n)
  BY DEF Places, Load
<1>2. n \in Nat
  BY RuntimeParts
<1> HIDE DEF n
<1>3. IsFiniteSet(1..n) /\ Cardinality(1..n) = n
  <2>1. 1 \in Int /\ n \in Int /\ n - 1 + 1 = n /\ (1 > n => n = 0)
    BY <1>2
  <2> QED
    BY <2>1, FS_Interval
<1>4. IsFiniteSet({w}) /\ Cardinality({w}) = 1
  BY FS_Singleton
<1>5. IsFiniteSet({w} \X (1..n)) /\ Cardinality({w} \X (1..n)) = n
  <2> DEFINE A == {w}
             B == 1 .. n
  <2>1. IsFiniteSet(A) /\ IsFiniteSet(B) /\ Cardinality(A) = 1 /\ Cardinality(B) = n
    BY <1>3, <1>4
  <2> HIDE DEF A, B
  <2>2. IsFiniteSet(A \X B) /\ Cardinality(A \X B) = Cardinality(A) * Cardinality(B)
    BY <2>1, FS_Product
  <2>3. Cardinality(A \X B) = n
    BY <1>2, <2>1, <2>2
  <2> QED
    BY <2>2, <2>3 DEF A, B
<1> QED
  BY <1>1, <1>2, <1>5 DEF n

\* The places of some workers are finitely many.
LEMMA ShelfFinite ==
  ASSUME NEW d \in Runtime, NEW W \in SUBSET Worker
  PROVE  IsFiniteSet(Shelf(d, W)) /\ Cardinality(Shelf(d, W)) \in Nat
<1> DEFINE S == {Places(d, w) : w \in W}
           f == [w \in W |-> Places(d, w)]
<1>1. IsFiniteSet(W)
  <2>1. 0 \in Int /\ NumWorkers - 1 \in Int
    BY Sizes
  <2>2. IsFiniteSet(Worker)
    BY <2>1, FS_Interval DEF Worker
  <2> QED
    BY <2>2, FS_Subset
<1>2. f \in Surjection(W, S)
  BY DEF Surjection
<1>3. IsFiniteSet(S)
  <2> HIDE DEF S, f
  <2> QED
    BY <1>1, <1>2, FS_Surjection
<1>4. \A T \in S : IsFiniteSet(T)
  BY PlacesAre
<1>5. IsFiniteSet(Shelf(d, W))
  <2>1. Shelf(d, W) = UNION S
    BY DEF Shelf
  <2> HIDE DEF S
  <2> QED
    BY <1>3, <1>4, <2>1, FS_UNION
<1> QED
  BY <1>5, FS_CardinalityType

\* Rows that only move within the runtime do not change their number.
LEMMA HeldBySame ==
  ASSUME NEW d \in Runtime, NEW e \in Runtime, \A v \in Worker : Load(e, v) = Load(d, v)
  PROVE  HeldBy(e) = HeldBy(d)
<1>1. ASSUME NEW v \in Worker PROVE Places(e, v) = Places(d, v)
  <2>1. Places(d, v) = {v} \X (1 .. Load(d, v))
    BY PlacesAre
  <2>2. Places(e, v) = {v} \X (1 .. Load(e, v))
    BY PlacesAre
  <2> QED
    BY <2>1, <2>2
<1>2. {Places(e, v) : v \in Worker} = {Places(d, v) : v \in Worker}
  BY <1>1
<1> QED
  BY <1>2 DEF HeldBy

\* What one worker gives away is what the runtime holds less of.
LEMMA HeldByOne ==
  ASSUME NEW d \in Runtime, NEW e \in Runtime, NEW w \in Worker,
         \A v \in Worker \ {w} : Load(e, v) = Load(d, v)
  PROVE  /\ HeldBy(d) \in Nat /\ HeldBy(e) \in Nat /\ HeldBy(d) >= Load(d, w)
         /\ HeldBy(e) = HeldBy(d) - Load(d, w) + Load(e, w)
<1> DEFINE O(x) == Shelf(x, Worker \ {w})
<1>1. ASSUME NEW x \in Runtime
      PROVE  HeldBy(x) = Cardinality(O(x)) + Load(x, w) /\ Cardinality(O(x)) \in Nat
  <2> DEFINE A == O(x)
             B == Places(x, w)
  <2>1. UNION {Places(x, v) : v \in Worker} = A \cup B
    BY DEF Shelf
  <2>2. A \cap B = {}
    <3> SUFFICES ASSUME NEW p \in A, p \in B PROVE FALSE
      OBVIOUS
    <3>1. PICK v \in Worker \ {w} : p \in Places(x, v)
      BY DEF Shelf
    <3>2. p[1] = v /\ p[1] = w
      BY <3>1, PlacesAre
    <3> QED
      BY <3>2
  <2>3. IsFiniteSet(A) /\ Cardinality(A) \in Nat
    BY ShelfFinite
  <2>4. IsFiniteSet(B) /\ Cardinality(B) = Load(x, w) /\ Load(x, w) \in Nat
    BY PlacesAre, RuntimeParts
  <2> HIDE DEF A, B
  <2>5. Cardinality(A \cup B) = Cardinality(A) + Cardinality(B) - Cardinality(A \cap B)
    BY <2>3, <2>4, FS_Union
  <2>6. Cardinality(A \cap B) = 0
    BY <2>2, FS_EmptySet
  <2>7. HeldBy(x) = Cardinality(A \cup B)
    BY <2>1 DEF HeldBy
  <2>8. HeldBy(x) = Cardinality(A) + Load(x, w)
    BY <2>3, <2>4, <2>5, <2>6, <2>7
  <2> QED
    BY <2>3, <2>8 DEF A
<1>2. O(e) = O(d)
  <2>1. \A v \in Worker \ {w} : Places(e, v) = Places(d, v)
    BY PlacesAre
  <2>2. {Places(e, v) : v \in Worker \ {w}} = {Places(d, v) : v \in Worker \ {w}}
    BY <2>1
  <2> QED
    BY <2>2 DEF Shelf
<1> HIDE DEF O
<1>3. Load(d, w) \in Nat /\ Load(e, w) \in Nat
  BY RuntimeParts
<1> DEFINE o == Cardinality(O(d))
<1>4. HeldBy(d) = o + Load(d, w) /\ HeldBy(e) = o + Load(e, w) /\ o \in Nat
  BY <1>1, <1>2
<1> HIDE DEF o
<1> QED
  BY <1>3, <1>4

\* A body shared out adds its length: each of its positions is one new place.
LEMMA HeldByShared ==
  ASSUME NEW d \in Runtime, NEW e \in Runtime, NEW seq \in Seq(Row),
         \A v \in Worker : Load(e, v) = Load(d, v) + Cardinality(Share(d, v, seq))
  PROVE  HeldBy(e) = HeldBy(d) + Len(seq)
<1> DEFINE l(v) == Load(d, v)
           c(v) == Cardinality(Share(d, v, seq))
           f(v) == InOrder(Share(d, v, seq))
           Extra == {p \in Worker \X Nat : l(p[1]) < p[2] /\ p[2] <= l(p[1]) + c(p[1])}
           D == Shelf(d, Worker)
           E == Shelf(e, Worker)
           h == [p \in Extra |-> f(p[1])[p[2] - l(p[1])]]
           n == Len(seq)
<1>1. ASSUME NEW v \in Worker
      PROVE  /\ l(v) \in Nat /\ c(v) \in Nat /\ Load(e, v) = l(v) + c(v)
             /\ f(v) \in [1 .. c(v) -> Share(d, v, seq)]
             /\ \A i, j \in 1 .. c(v) : f(v)[i] = f(v)[j] => i = j
             /\ \A s \in Share(d, v, seq) : \E i \in 1 .. c(v) : f(v)[i] = s
  <2>1. Share(d, v, seq) \in SUBSET (1 .. Len(seq)) /\ Len(seq) \in Nat
    BY SharesPart
  <2> DEFINE S == Share(d, v, seq)
  <2> HIDE DEF S
  <2>2. /\ Cardinality(S) \in Nat /\ InOrder(S) \in [1 .. Cardinality(S) -> S]
        /\ \A i, j \in 1 .. Cardinality(S) : InOrder(S)[i] = InOrder(S)[j] => i = j
        /\ \A s \in S : \E i \in 1 .. Cardinality(S) : InOrder(S)[i] = s
    BY <2>1, InOrderLists DEF S
  <2> QED
    BY <2>2, RuntimeParts DEF S
<1>2. /\ \A v \in Worker : Share(d, v, seq) \in SUBSET (1 .. n)
      /\ \A i \in 1 .. n : \E v \in Worker : i \in Share(d, v, seq)
      /\ \A v, w \in Worker : \A i \in Share(d, v, seq) : i \in Share(d, w, seq) => v = w
  BY SharesPart
<1>3. \A v \in Worker : /\ Places(d, v) = {v} \X (1 .. l(v))
                        /\ Places(e, v) = {v} \X (1 .. l(v) + c(v))
  BY <1>1, PlacesAre
<1>4. n \in Nat
  OBVIOUS
<1> HIDE DEF l, c, f, n
<1>5. E = D \cup Extra /\ D \cap Extra = {}
  <2>1. \A p : p \in D <=> p \in Worker \X Nat /\ 1 <= p[2] /\ p[2] <= l(p[1])
    BY <1>1, <1>3 DEF Shelf
  <2>2. \A p : p \in E <=> p \in Worker \X Nat /\ 1 <= p[2] /\ p[2] <= l(p[1]) + c(p[1])
    BY <1>1, <1>3 DEF Shelf
  <2>3. \A p \in Worker \X Nat : p[1] \in Worker /\ p[2] \in Nat /\ l(p[1]) \in Nat /\ c(p[1]) \in Nat
    BY <1>1
  <2> HIDE DEF D, E
  <2>4. \A p : p \in E <=> p \in D \/ p \in Extra
    BY <2>1, <2>2, <2>3
  <2>5. \A p : ~(p \in D /\ p \in Extra)
    BY <2>1, <2>3
  <2> QED
    BY <2>4, <2>5
<1>6. \A p \in Extra :
        /\ p = <<p[1], p[2]>> /\ p[1] \in Worker /\ p[2] \in Nat
        /\ p[2] - l(p[1]) \in 1 .. c(p[1])
        /\ h[p] = f(p[1])[p[2] - l(p[1])] /\ h[p] \in Share(d, p[1], seq)
  <2> SUFFICES ASSUME NEW p \in Extra
               PROVE  /\ p = <<p[1], p[2]>> /\ p[1] \in Worker /\ p[2] \in Nat
                      /\ p[2] - l(p[1]) \in 1 .. c(p[1])
                      /\ h[p] = f(p[1])[p[2] - l(p[1])] /\ h[p] \in Share(d, p[1], seq)
    OBVIOUS
  <2>1. /\ p = <<p[1], p[2]>> /\ p[1] \in Worker /\ p[2] \in Nat
        /\ l(p[1]) < p[2] /\ p[2] <= l(p[1]) + c(p[1])
    OBVIOUS
  <2>2. p[2] - l(p[1]) \in 1 .. c(p[1])
    BY <1>1, <2>1
  <2>3. h[p] = f(p[1])[p[2] - l(p[1])]
    OBVIOUS
  <2>4. f(p[1])[p[2] - l(p[1])] \in Share(d, p[1], seq)
    BY <1>1, <2>1, <2>2
  <2> QED
    BY <2>1, <2>2, <2>3, <2>4
<1>7. h \in [Extra -> 1 .. n]
  <2>1. \A p \in Extra : h[p] \in 1 .. n
    BY <1>2, <1>6
  <2> QED
    BY <2>1
<1> HIDE DEF h
<1>8. \A p, q \in Extra : h[p] = h[q] => p = q
  <2> SUFFICES ASSUME NEW p \in Extra, NEW q \in Extra, h[p] = h[q] PROVE p = q
    OBVIOUS
  <2>1. p[1] = q[1]
    BY <1>2, <1>6
  <2>2. p[2] - l(p[1]) = q[2] - l(p[1])
    <3> DEFINE v == p[1]
               i == p[2] - l(v)
               j == q[2] - l(v)
    <3>1. v \in Worker /\ i \in 1 .. c(v) /\ h[p] = f(v)[i]
      BY <1>6
    <3>2. j \in 1 .. c(v) /\ h[q] = f(v)[j]
      BY <1>6, <2>1
    <3> HIDE DEF v, i, j
    <3>3. f(v)[i] = f(v)[j]
      BY <3>1, <3>2
    <3>4. i = j
      BY <1>1, <3>1, <3>2, <3>3
    <3> QED
      BY <3>4 DEF i, j, v
  <2>3. p[2] = q[2]
    BY <1>1, <1>6, <2>2
  <2> QED
    BY <1>6, <2>1, <2>3
<1>9. \A i \in 1 .. n : \E p \in Extra : h[p] = i
  <2> SUFFICES ASSUME NEW i \in 1 .. n PROVE \E p \in Extra : h[p] = i
    OBVIOUS
  <2>1. PICK v \in Worker : i \in Share(d, v, seq)
    BY <1>2
  <2>2. PICK k \in 1 .. c(v) : f(v)[k] = i
    BY <1>1, <2>1
  <2> DEFINE p == <<v, l(v) + k>>
  <2>3. l(v) \in Nat /\ c(v) \in Nat /\ (l(v) + k) - l(v) = k
    BY <1>1
  <2>4. p \in Extra /\ p[1] = v /\ p[2] = l(v) + k
    BY <2>3
  <2>5. h[p] = f(v)[k]
    BY <1>6, <2>3, <2>4
  <2> QED
    BY <2>2, <2>4, <2>5
<1>10. IsFiniteSet(D) /\ IsFiniteSet(E) /\ Cardinality(D) \in Nat
  BY ShelfFinite
<1> HIDE DEF D, E
<1>11. IsFiniteSet(Extra) /\ Cardinality(Extra) = n
  <2>1. Extra \in SUBSET E
    BY <1>5
  <2> HIDE DEF Extra
  <2>2. IsFiniteSet(Extra)
    BY <1>10, <2>1, FS_Subset
  <2>3. h \in Surjection(Extra, 1 .. n) /\ h \in Injection(Extra, 1 .. n)
    BY <1>7, <1>8, <1>9 DEF Surjection, Injection, IsInjective
  <2>4. Cardinality(1 .. n) = Cardinality(Extra)
    BY <2>2, <2>3, FS_Surjection
  <2>5. Cardinality(1 .. n) = n
    BY <1>4, FS_Interval
  <2> QED
    BY <2>2, <2>4, <2>5
<1>12. Cardinality(D \cup Extra) = Cardinality(D) + Cardinality(Extra) - Cardinality(D \cap Extra)
  <2> HIDE DEF Extra
  <2> QED
    BY <1>10, <1>11, FS_Union
<1>13. Cardinality(D \cap Extra) = 0
  BY <1>5, FS_EmptySet
<1>14. HeldBy(d) = Cardinality(D) /\ HeldBy(e) = Cardinality(E)
  BY DEF HeldBy, D, E, Shelf
<1>15. Cardinality(E) = Cardinality(D) + n
  BY <1>4, <1>5, <1>10, <1>11, <1>12, <1>13
<1> QED
  BY <1>14, <1>15 DEF n

-------------------------------------------------------------------------------
(* Types *)

\* A step is one of these actions: the frame of the proofs by cases below.
LEMMA NextCases ==
  ASSUME [BNext]_vars
  PROVE  \/ \E g \in DOMAIN runtimes, w \in Worker : IdleTimer(g, w)
         \/ \E g \in DOMAIN runtimes, w \in Worker : FlushReply(g, w)
         \/ \E b \in Body : LoadRows(b)
         \/ LoadStart \/ LoadStop
         \/ \E t \in Target : ApiSwitch(t)
         \/ StaleCheck \/ StaleAnswer \/ WatcherPoll \/ WatcherAnswer
         \/ SwapDrained \/ SwapTimeout \/ SwapStop \/ SwapStopWorkers \/ SwapPoolStop
         \/ SwapBuilt \/ SwapBuildFailed \/ BootBuilt \/ BootFailed
         \/ UNCHANGED vars
<1>1. CASE Flush
  BY <1>1 DEF Flush
<1>2. CASE SwapGoesOn
  BY <1>2 DEF SwapGoesOn
<1> QED
  BY <1>1, <1>2 DEF BNext

\* Which actions touch which part of the state.
LEMMA Frame ==
  ASSUME [BNext]_vars
  PROVE  /\ UNCHANGED api \/ \E t \in Target : ApiSwitch(t)
         /\ UNCHANGED watch \/ WatcherPoll \/ WatcherAnswer
         /\ UNCHANGED staleness \/ StaleCheck \/ StaleAnswer
         /\ UNCHANGED boot \/ BootBuilt \/ BootFailed
         /\ UNCHANGED raced \/ WatcherAnswer
         /\ UNCHANGED rows \/ \E b \in Body : LoadRows(b)
         /\ UNCHANGED redis \/ \E g \in DOMAIN runtimes, w \in Worker : FlushReply(g, w)
         /\ UNCHANGED state \/ LoadStart \/ LoadStop \/ StaleAnswer \/ WatcherAnswer \/
            SwapTimeout \/ SwapBuilt \/ SwapBuildFailed \/ BootBuilt \/ BootFailed
         /\ UNCHANGED swap \/ (\E g \in DOMAIN runtimes, w \in Worker : FlushReply(g, w)) \/
            WatcherAnswer \/ SwapDrained \/ SwapTimeout \/ SwapStop \/ SwapStopWorkers \/
            SwapPoolStop \/ SwapBuilt \/ SwapBuildFailed
<1>1. UNCHANGED api \/ \E t \in Target : ApiSwitch(t)
  BY NextCases
     DEF IdleTimer, FlushReply, LoadRows, LoadStart, LoadStop, StaleCheck, StaleAnswer,
         WatcherPoll, WatcherAnswer, SwapDrained, SwapTimeout, SwapStop, SwapStopWorkers,
         SwapPoolStop, SwapBuilt, SwapBuildFailed, BootBuilt, BootFailed, vars
<1>2. UNCHANGED watch \/ WatcherPoll \/ WatcherAnswer
  BY NextCases
     DEF IdleTimer, FlushReply, LoadRows, LoadStart, LoadStop, ApiSwitch, StaleCheck,
         StaleAnswer, SwapDrained, SwapTimeout, SwapStop, SwapStopWorkers, SwapPoolStop,
         SwapBuilt, SwapBuildFailed, BootBuilt, BootFailed, vars
<1>3. UNCHANGED staleness \/ StaleCheck \/ StaleAnswer
  BY NextCases
     DEF IdleTimer, FlushReply, LoadRows, LoadStart, LoadStop, ApiSwitch, WatcherPoll,
         WatcherAnswer, SwapDrained, SwapTimeout, SwapStop, SwapStopWorkers, SwapPoolStop,
         SwapBuilt, SwapBuildFailed, BootBuilt, BootFailed, vars
<1>4. UNCHANGED boot \/ BootBuilt \/ BootFailed
  BY NextCases
     DEF IdleTimer, FlushReply, LoadRows, LoadStart, LoadStop, ApiSwitch, StaleCheck,
         StaleAnswer, WatcherPoll, WatcherAnswer, SwapDrained, SwapTimeout, SwapStop,
         SwapStopWorkers, SwapPoolStop, SwapBuilt, SwapBuildFailed, vars
<1>5. UNCHANGED rows \/ \E b \in Body : LoadRows(b)
  BY NextCases
     DEF IdleTimer, FlushReply, LoadStart, LoadStop, ApiSwitch, StaleCheck, StaleAnswer,
         WatcherPoll, WatcherAnswer, SwapDrained, SwapTimeout, SwapStop, SwapStopWorkers,
         SwapPoolStop, SwapBuilt, SwapBuildFailed, BootBuilt, BootFailed, vars
<1>6. UNCHANGED redis \/ \E g \in DOMAIN runtimes, w \in Worker : FlushReply(g, w)
  BY NextCases
     DEF IdleTimer, LoadRows, LoadStart, LoadStop, ApiSwitch, StaleCheck, StaleAnswer,
         WatcherPoll, WatcherAnswer, SwapDrained, SwapTimeout, SwapStop, SwapStopWorkers,
         SwapPoolStop, SwapBuilt, SwapBuildFailed, BootBuilt, BootFailed, vars
<1>7. UNCHANGED state \/ LoadStart \/ LoadStop \/ StaleAnswer \/ WatcherAnswer \/
      SwapTimeout \/ SwapBuilt \/ SwapBuildFailed \/ BootBuilt \/ BootFailed
  BY NextCases
     DEF IdleTimer, FlushReply, LoadRows, ApiSwitch, StaleCheck, WatcherPoll, SwapDrained,
         SwapStop, SwapStopWorkers, SwapPoolStop, vars
<1>8. UNCHANGED swap \/ (\E g \in DOMAIN runtimes, w \in Worker : FlushReply(g, w)) \/
      WatcherAnswer \/ SwapDrained \/ SwapTimeout \/ SwapStop \/ SwapStopWorkers \/
      SwapPoolStop \/ SwapBuilt \/ SwapBuildFailed
  BY NextCases
     DEF IdleTimer, LoadRows, LoadStart, LoadStop, ApiSwitch, StaleCheck, StaleAnswer,
         WatcherPoll, BootBuilt, BootFailed, vars
<1>9. UNCHANGED raced \/ WatcherAnswer
  BY NextCases
     DEF IdleTimer, FlushReply, LoadRows, LoadStart, LoadStop, ApiSwitch, StaleCheck,
         StaleAnswer, WatcherPoll, SwapDrained, SwapTimeout, SwapStop, SwapStopWorkers,
         SwapPoolStop, SwapBuilt, SwapBuildFailed, BootBuilt, BootFailed, vars
<1> QED
  BY <1>1, <1>2, <1>3, <1>4, <1>5, <1>6, <1>7, <1>8, <1>9

\* Replacing one runtime leaves the others.
LEMMA Replaced ==
  ASSUME NEW rs \in Seq(Runtime), NEW g \in DOMAIN rs, NEW e \in Runtime
  PROVE  /\ [rs EXCEPT ![g] = e] \in Seq(Runtime)
         /\ Len([rs EXCEPT ![g] = e]) = Len(rs)
         /\ DOMAIN [rs EXCEPT ![g] = e] = DOMAIN rs
         /\ [rs EXCEPT ![g] = e][g] = e
         /\ \A h \in DOMAIN rs : h # g => [rs EXCEPT ![g] = e][h] = rs[h]
<1>1. DOMAIN rs = 1 .. Len(rs) /\ Len(rs) \in Nat
  OBVIOUS
<1> QED
  BY <1>1, ExceptSeq

\* Adding a runtime leaves the others.
LEMMA Added ==
  ASSUME NEW rs \in Seq(Runtime), NEW e \in Runtime
  PROVE  /\ Append(rs, e) \in Seq(Runtime)
         /\ Len(Append(rs, e)) = Len(rs) + 1 /\ Len(rs) \in Nat
         /\ DOMAIN Append(rs, e) = 1 .. Len(rs) + 1 /\ DOMAIN rs = 1 .. Len(rs)
         /\ Append(rs, e)[Len(rs) + 1] = e
         /\ \A h \in DOMAIN rs : Append(rs, e)[h] = rs[h]
  OBVIOUS

StateType(n) ==
  [cur : 0 .. n, bound : Maybe, accepting : BOOLEAN, stale : BOOLEAN,
   error : BOOLEAN, seen : Maybe, watcher : {"awaiting", "enabled", "disabled"}]
SwapType(n) ==
  [at : {"idle", "drain", "checkpoint", "stop", "stopping", "build"}, to : Maybe,
   of : 0 .. n, draining : SUBSET Worker]
WatchType == [poll : [at : {"idle", "asked"}, t : Maybe, v : Nat], version : Nat]

\* BTypeOK, in the parts that the proof takes one by one.
TypesHold ==
  /\ runtimes \in Seq(Runtime) /\ state \in StateType(Len(runtimes))
  /\ swap \in SwapType(Len(runtimes)) /\ watch \in WatchType
  /\ target \in Maybe /\ version \in Nat /\ staleness \in Maybe /\ boot \in Maybe
  /\ raced \in BOOLEAN /\ posts \in [Body -> Nat] /\ owed \subseteq Row \X Maybe
  /\ stored \in [Target -> SUBSET Row] /\ dead \subseteq Row \X Target
  /\ lost \subseteq Row \X Target

\* TypesHold is the type invariant, with the records named.
LEMMA TypesAre == BTypeOK <=> TypesHold
  BY DEF BTypeOK, TypesHold, StateType, SwapType, WatchType

\* What the answer of a poll makes of the state.
LEMMA Updated ==
  ASSUME NEW n \in Nat, NEW st \in StateType(n), NEW t \in Maybe
  PROVE  LET u == updateApiActiveTarget(st, t) IN
         /\ u \in StateType(n)
         /\ u.cur = st.cur /\ u.bound = st.bound /\ u.seen = t /\ u.watcher = st.watcher
         /\ u.accepting = st.accepting /\ u.error = st.error
         /\ st.bound # NoTarget /\ st.bound # t /\ st.error => u.stale
<1> DEFINE x == IF st.bound = NoTarget THEN st.stale
                ELSE st.bound # t /\ (st.stale \/ st.watcher = "disabled" \/ st.error)
           u == [st EXCEPT !.seen = t, !.stale = x]
<1>1. x \in BOOLEAN
  <2>1. CASE st.bound = NoTarget
    BY <2>1 DEF StateType
  <2>2. CASE st.bound # NoTarget
    BY <2>2
  <2> QED
    BY <2>1, <2>2
<1>2. st.bound # NoTarget /\ st.bound # t /\ st.error => x
  OBVIOUS
<1>3. updateApiActiveTarget(st, t) = u
  BY DEF updateApiActiveTarget
<1> HIDE DEF x
<1>4. u \in StateType(n)
  BY <1>1 DEF StateType
<1>5. u.cur = st.cur /\ u.bound = st.bound /\ u.seen = t /\ u.watcher = st.watcher
  BY DEF StateType
<1>6. u.accepting = st.accepting /\ u.error = st.error /\ u.stale = x
  BY DEF StateType
<1> HIDE DEF u
<1> QED
  BY <1>2, <1>3, <1>4, <1>5, <1>6

\* What a failed swap makes of it.
LEMMA Failed ==
  ASSUME NEW n \in Nat, NEW st \in StateType(n)
  PROVE  LET u == SwapFailed(st) IN
         /\ u \in StateType(n)
         /\ u.cur = st.cur /\ u.bound = st.bound /\ u.seen = st.seen /\ u.stale
<1>1. SwapFailed(st) \in StateType(n)
  BY DEF SwapFailed, StateType
<1>2. /\ SwapFailed(st).cur = st.cur /\ SwapFailed(st).bound = st.bound
      /\ SwapFailed(st).seen = st.seen /\ SwapFailed(st).stale
  BY DEF SwapFailed, StateType
<1> QED
  BY <1>1, <1>2

-------------------------------------------------------------------------------
(* What the actions do to the runtimes *)

\* e takes the place of the g-th runtime.
Put(g, e) == e \in Runtime /\ runtimes' = [runtimes EXCEPT ![g] = e]

\* A step that puts one runtime leaves the others.
LEMMA PutIs ==
  ASSUME runtimes \in Seq(Runtime), NEW g \in DOMAIN runtimes, NEW e, Put(g, e)
  PROVE  /\ runtimes[g] \in Runtime /\ runtimes' \in Seq(Runtime)
         /\ Len(runtimes') = Len(runtimes) /\ DOMAIN runtimes' = DOMAIN runtimes
         /\ runtimes'[g] = e
         /\ \A h \in DOMAIN runtimes : h # g => runtimes'[h] = runtimes[h]
<1>1. e \in Runtime /\ runtimes' = [runtimes EXCEPT ![g] = e]
  BY DEF Put
<1>2. runtimes[g] \in Runtime
  OBVIOUS
<1> QED
  BY <1>1, <1>2, Replaced

\* The idle timer flushes one worker.
LEMMA IdleTimerDoes ==
  ASSUME runtimes \in Seq(Runtime), NEW g \in DOMAIN runtimes, NEW w \in Worker, IdleTimer(g, w)
  PROVE  \E e : /\ Put(g, e) /\ SameRuntime(runtimes[g], e) /\ Pumped(e, w)
                /\ \A v \in Worker : /\ KeepsRows(runtimes[g], e, v)
                                     /\ v # w => SameRows(runtimes[g], e, v)
<1> DEFINE d == runtimes[g]
           e == ScheduleFlush([d EXCEPT !.idle[w] = FALSE], w)
<1>1. d \in Runtime
  OBVIOUS
<1>2. runtimes' = [runtimes EXCEPT ![g] = e]
  BY DEF IdleTimer
<1> HIDE DEF d
<1>3. /\ SameRuntime(d, e) /\ Pumped(e, w)
      /\ \A v \in Worker : KeepsRows(d, e, v) /\ (v # w => SameRows(d, e, v))
  BY <1>1, IdleTimerKeeps
<1> HIDE DEF e
<1>4. Put(g, e)
  BY <1>2, <1>3 DEF Put, SameRuntime
<1> QED
  BY <1>3, <1>4 DEF d

\* A drain puts the rows of every worker into its flush loop.
LEMMA AwaitDrainDoes ==
  ASSUME NEW g \in DOMAIN runtimes, NEW d \in Runtime, NEW at, NEW t, AwaitDrain(at, t, g, d)
  PROVE  \E e : /\ Put(g, e) /\ SameRuntime(d, e)
                /\ \A v \in Worker : KeepsRows(d, e, v) /\ Pumped(e, v)
                /\ swap' = [at |-> at, to |-> t, of |-> g, draining |-> Flushing(e)]
<1> DEFINE e == StartDrain(d)
<1>1. SameRuntime(d, e) /\ \A v \in Worker : KeepsRows(d, e, v) /\ Pumped(e, v)
  BY DrainKeeps
<1>2. /\ runtimes' = [runtimes EXCEPT ![g] = e]
      /\ swap' = [at |-> at, to |-> t, of |-> g, draining |-> Flushing(e)]
  BY DEF AwaitDrain
<1> HIDE DEF e
<1>3. Put(g, e)
  BY <1>1, <1>2 DEF Put, SameRuntime
<1> QED
  BY <1>1, <1>2, <1>3

\* The rows given up, whether their dead letters were taken or refused.
GivenUp == dead \cup lost

\* Each row of a batch is written, kept for another try or given up.
Replied(d, w, kept, wrote, given) ==
  /\ {kept, wrote, given} \subseteq SUBSET (1 .. Len(d.batch[w]))
  /\ 1 .. Len(d.batch[w]) \subseteq kept \cup wrote \cup given
  /\ \A i \in kept : d.batch[w][i].attempts + 1 < MaxRetries
  /\ stored' = [stored EXCEPT ![d.target] = @ \cup {d.batch[w][i].row : i \in wrote}]
  /\ GivenUp' = GivenUp \cup {<<d.batch[w][i].row, d.target>> : i \in given}
  /\ dead \subseteq dead' /\ lost \subseteq lost'

\* A reply is one of those that FlushReply allows for, and the swap sees its drain.
LEMMA RepliesAre ==
  ASSUME NEW g, NEW w, FlushReply(g, w)
  PROVE  LET batch == runtimes[g].batch[w]
             sent == {i \in DOMAIN batch : batch[i].row \notin Malformed}
         IN  /\ batch # <<>>
             /\ \E failed, permanent, wrote, gone :
                  /\ failed \subseteq sent /\ permanent \subseteq failed
                  /\ wrote \in {sent \ failed, sent}
                  /\ Replies(g, w, failed, permanent, wrote, gone)
             /\ \E d : DrainSeen(g, d)
<1> DEFINE batch == runtimes[g].batch[w]
           sent == {i \in DOMAIN batch : batch[i].row \notin Malformed}
<1>1. batch # <<>>
  BY DEF FlushReply
<1>2. PICK failed \in SUBSET sent : \E permanent \in SUBSET failed :
      \E wrote \in {sent \ failed, sent} : \E gone \in SUBSET DOMAIN batch :
        Replies(g, w, failed, permanent, wrote, gone)
  BY DEF FlushReply
<1>3. PICK permanent \in SUBSET failed :
      \E wrote \in {sent \ failed, sent} : \E gone \in SUBSET DOMAIN batch :
        Replies(g, w, failed, permanent, wrote, gone)
  BY <1>2
<1>4. PICK wrote \in {sent \ failed, sent} : \E gone \in SUBSET DOMAIN batch :
        Replies(g, w, failed, permanent, wrote, gone)
  BY <1>3
<1>5. PICK gone \in SUBSET DOMAIN batch : Replies(g, w, failed, permanent, wrote, gone)
  BY <1>4
<1>6. \E d : DrainSeen(g, d)
  BY <1>5 DEF Replies
<1> HIDE DEF sent, batch
<1> QED
  BY <1>1, <1>2, <1>3, <1>4, <1>5, <1>6 DEF sent, batch

\* The reply to a pipeline, with the rows kept, written and given up named.
LEMMA FlushReplyDoes ==
  ASSUME runtimes \in Seq(Runtime), NEW g \in DOMAIN runtimes, NEW w \in Worker, FlushReply(g, w)
  PROVE  \E kept, wrote, given :
           LET d == runtimes[g]
               e == Flushed(d, w, Again(d.batch[w], kept), Len(d.batch[w]) - Cardinality(kept))
           IN  /\ d.batch[w] # <<>> /\ Replied(d, w, kept, wrote, given)
               /\ runtimes' = [runtimes EXCEPT ![g] = e]
               /\ DrainSeen(g, e)
<1> DEFINE d == runtimes[g]
           batch == d.batch[w]
           sent == {i \in DOMAIN batch : batch[i].row \notin Malformed}
<1>1. d \in Runtime
  OBVIOUS
<1>2. batch \in Seq(Entry)
  BY <1>1, RuntimeParts
<1>3. DOMAIN batch = 1 .. Len(batch)
  BY <1>2
<1>4. PICK failed, permanent, wrote, gone :
        /\ failed \subseteq sent /\ permanent \subseteq failed
        /\ wrote \in {sent \ failed, sent}
        /\ Replies(g, w, failed, permanent, wrote, gone)
  BY RepliesAre
<1> DEFINE kept == {i \in failed \ permanent : batch[i].attempts + 1 < MaxRetries}
           given == {i \in DOMAIN batch : batch[i].row \in Malformed} \cup (failed \ kept)
           e == Flushed(d, w, Again(batch, kept), Len(batch) - Cardinality(kept))
           Letters(S) == {<<batch[i].row, d.target>> : i \in S}
<1>9. /\ runtimes' = [runtimes EXCEPT ![g] = e]
      /\ stored' = [stored EXCEPT ![d.target] = @ \cup {batch[i].row : i \in wrote}]
      /\ gone \subseteq given
      /\ dead' = dead \cup Letters(given \ gone) /\ lost' = lost \cup Letters(gone)
      /\ DrainSeen(g, e)
  BY <1>4 DEF Replies, Flushed, Again
<1>10. batch # <<>>
  BY DEF FlushReply
<1>11. failed \subseteq 1 .. Len(batch) /\ sent \subseteq 1 .. Len(batch)
  BY <1>3, <1>4
<1>12. {kept, wrote, given} \subseteq SUBSET (1 .. Len(batch))
  BY <1>3, <1>4, <1>11
<1>13. 1 .. Len(batch) \subseteq kept \cup wrote \cup given
  BY <1>3, <1>4
<1>14. \A i \in kept : batch[i].attempts + 1 < MaxRetries
  OBVIOUS
<1>15. /\ GivenUp' = GivenUp \cup Letters(given)
       /\ dead \subseteq dead' /\ lost \subseteq lost'
  <2> HIDE DEF given, kept, e
  <2>1. Letters(given) = Letters(given \ gone) \cup Letters(gone)
    BY <1>9
  <2> QED
    BY <1>9, <2>1 DEF GivenUp
<1>16. Replied(d, w, kept, wrote, given)
  BY <1>9, <1>12, <1>13, <1>14, <1>15 DEF Replied
<1> HIDE DEF kept, given
<1> QED
  BY <1>9, <1>10, <1>16

\* A row of the runtime d is held by e, or stored, or given up for its Redis.
Settled(d, e, x) ==
  \/ \E v \in Worker : \E y \in Has(e, v) : y.row = x.row
  \/ x.row \in stored'[d.target]
  \/ <<x.row, d.target>> \in GivenUp'

\* The reply to a pipeline settles each row of the batch or keeps it, and counts
\* down by those settled.
LEMMA FlushReplyRows ==
  ASSUME runtimes \in Seq(Runtime), stored \in [Target -> SUBSET Row],
         dead \subseteq Row \X Target, lost \subseteq Row \X Target,
         NEW g \in DOMAIN runtimes, NEW w \in Worker, FlushReply(g, w)
  PROVE  \E e :
           LET d == runtimes[g] IN
           /\ Put(g, e) /\ e.target = d.target /\ e.up = d.up /\ e.stopped = d.stopped
           /\ d.batch[w] # <<>> /\ Pumped(e, w) /\ DrainSeen(g, e)
           /\ \A v \in Worker \ {w} : SameRows(d, e, v)
           /\ \E n \in Nat : /\ n <= Load(d, w) /\ Load(e, w) = Load(d, w) - n
                             /\ e.inFlight = IF d.inFlight < n THEN 0 ELSE d.inFlight - n
           /\ stored' \in [Target -> SUBSET Row] /\ \A t \in Target : stored[t] \subseteq stored'[t]
           /\ dead' \subseteq Row \X Target /\ lost' \subseteq Row \X Target
           /\ dead \subseteq dead' /\ lost \subseteq lost'
           /\ \A x \in Has(d, w) : Settled(d, e, x)
<1> DEFINE d == runtimes[g]
           batch == d.batch[w]
           m == Len(batch)
<1>1. d \in Runtime
  OBVIOUS
<1>2. PICK kept, wrote, given :
        LET e == Flushed(d, w, Again(batch, kept), Len(batch) - Cardinality(kept))
        IN  /\ batch # <<>> /\ Replied(d, w, kept, wrote, given)
            /\ runtimes' = [runtimes EXCEPT ![g] = e]
            /\ DrainSeen(g, e)
  BY FlushReplyDoes
<1> DEFINE again == Again(batch, kept)
           n == m - Cardinality(kept)
           e == Flushed(d, w, again, n)
<1>3. runtimes' = [runtimes EXCEPT ![g] = e] /\ DrainSeen(g, e) /\ batch # <<>>
  BY <1>2
<1>4. Replied(d, w, kept, wrote, given)
  BY <1>2
<1> HIDE DEF d
<1>5. batch \in Seq(Entry) /\ m \in Nat /\ d.buffer[w] \in Seq(Entry) /\ d.target \in Target
  BY <1>1, RuntimeParts, LenProperties
<1>6. /\ kept \in SUBSET (1 .. m) /\ wrote \in SUBSET (1 .. m) /\ given \in SUBSET (1 .. m)
      /\ 1 .. m \subseteq kept \cup wrote \cup given
      /\ \A i \in kept : batch[i].attempts + 1 < MaxRetries
      /\ stored' = [stored EXCEPT ![d.target] = @ \cup {batch[i].row : i \in wrote}]
      /\ GivenUp' = GivenUp \cup {<<batch[i].row, d.target>> : i \in given}
      /\ dead \subseteq dead' /\ lost \subseteq lost'
  BY <1>4 DEF Replied
<1> HIDE DEF batch
<1>7. /\ again \in Seq(Entry) /\ Len(again) = Cardinality(kept) /\ Cardinality(kept) \in Nat
      /\ \A i \in kept : \E y \in Range(again) : y.row = batch[i].row
  BY <1>5, <1>6, AgainIs
<1> HIDE DEF again
<1>8. n \in Nat /\ n <= m
  <2> HIDE DEF m
  <2>3. Cardinality(kept) <= m
    BY <1>5, <1>6, PositionsFinite
  <2> QED
    BY <1>5, <1>7, <2>3
<1> HIDE DEF m
<1> HIDE DEF n
<1>9. /\ e \in Runtime /\ e.target = d.target /\ e.up = d.up /\ e.stopped = d.stopped
      /\ e.inFlight = IF d.inFlight < n THEN 0 ELSE d.inFlight - n
      /\ \A v \in Worker \ {w} : SameRows(d, e, v)
      /\ Load(e, w) = Len(again) + Len(d.buffer[w])
      /\ Has(e, w) = Range(again) \cup Range(d.buffer[w])
      /\ Pumped(e, w)
  BY <1>1, <1>7, <1>8, FlushedIs
<1> HIDE DEF e
<1>10. Put(g, e)
  BY <1>3, <1>9 DEF Put
<1>11. n <= Load(d, w) /\ Load(e, w) = Load(d, w) - n
  <2> DEFINE k == Len(d.buffer[w])
             c == Cardinality(kept)
  <2>1. k \in Nat /\ c \in Nat /\ m \in Nat /\ n = m - c /\ n <= m
    BY <1>5, <1>7, <1>8, LenProperties DEF n
  <2>2. Load(d, w) = k + m
    BY DEF Load, m, batch
  <2>3. Load(e, w) = c + k
    BY <1>7, <1>9
  <2> HIDE DEF k, c
  <2> QED
    BY <2>1, <2>2, <2>3
<1>12. \A i \in 1 .. m : batch[i] \in Entry /\ batch[i].row \in Row
  <2>1. \A i \in 1 .. m : batch[i] \in Entry
    BY <1>5 DEF m
  <2> QED
    BY <2>1 DEF Entry
<1>13. stored' \in [Target -> SUBSET Row] /\ \A t \in Target : stored[t] \subseteq stored'[t]
  <2>1. {batch[i].row : i \in wrote} \subseteq Row
    BY <1>6, <1>12
  <2> QED
    BY <1>5, <1>6, <2>1
<1>14. /\ dead' \subseteq Row \X Target /\ lost' \subseteq Row \X Target
       /\ dead \subseteq dead' /\ lost \subseteq lost'
  <2>1. {<<batch[i].row, d.target>> : i \in given} \subseteq Row \X Target
    BY <1>5, <1>6, <1>12
  <2>2. GivenUp' \subseteq Row \X Target
    BY <1>6, <2>1 DEF GivenUp
  <2> QED
    BY <1>6, <2>2 DEF GivenUp
<1>15. ASSUME NEW x \in Has(d, w) PROVE Settled(d, e, x)
  <2>1. CASE x \in Range(d.buffer[w])
    BY <1>9, <2>1 DEF Settled
  <2>2. CASE x \in Range(batch)
    <3>1. PICK i \in 1 .. m : x = batch[i]
      BY <1>5, <2>2, RangeIs DEF m
    <3>2. CASE i \in kept
      BY <1>7, <1>9, <3>1, <3>2 DEF Settled
    <3>3. CASE i \in wrote
      <4>1. stored'[d.target] = stored[d.target] \cup {batch[j].row : j \in wrote}
        BY <1>5, <1>6
      <4> QED
        BY <3>1, <3>3, <4>1 DEF Settled
    <3>4. CASE i \in given
      BY <1>6, <3>1, <3>4 DEF Settled
    <3> QED
      BY <1>6, <3>1, <3>2, <3>3, <3>4
  <2> QED
    BY <2>1, <2>2 DEF Has, batch
<1>16. \E k \in Nat : /\ k <= Load(d, w) /\ Load(e, w) = Load(d, w) - k
                      /\ e.inFlight = IF d.inFlight < k THEN 0 ELSE d.inFlight - k
  BY <1>8, <1>9, <1>11
<1>17. DrainSeen(g, e) /\ d.batch[w] # <<>>
  BY <1>3 DEF batch, e, again, n, m
<1> QED
  BY <1>9, <1>10, <1>13, <1>14, <1>15, <1>16, <1>17 DEF d

\* The rows of a body are rows.
LEMMA BodyRows ==
  ASSUME NEW b \in Body
  PROVE  RowsOf[b] \in Seq(Row) /\ Range(RowsOf[b]) \subseteq Row
<1>1. RowsOf[b] \in Seq(Nat)
  BY BulkAssumption
<1>2. Range(RowsOf[b]) \subseteq Row
  BY DEF Row
<1>3. RowsOf[b] \in Seq(Range(RowsOf[b]))
  BY <1>1, SeqOfRange
<1> QED
  BY <1>2, <1>3, SeqMonotonic

\* A body is enqueued in the current runtime.
LEMMA LoadRowsDoes ==
  ASSUME runtimes \in Seq(Runtime), state.cur \in 0 .. Len(runtimes), NEW b \in Body, LoadRows(b)
  PROVE  LET d == runtimes[state.cur]
             e == enqueue(d, RowsOf[b])
         IN  /\ state.cur # 0 /\ state.cur \in DOMAIN runtimes /\ d \in Runtime
             /\ Put(state.cur, e)
             /\ e.target = d.target /\ e.up = d.up /\ e.stopped = d.stopped
<1> DEFINE g == state.cur
           d == runtimes[g]
           e == enqueue(d, RowsOf[b])
<1>1. g # 0
  BY DEF LoadRows, Refusing
<1>2. g \in DOMAIN runtimes
  BY <1>1
<1>3. d \in Runtime
  BY <1>2
<1>4. runtimes' = [runtimes EXCEPT ![g] = e]
  BY DEF LoadRows
<1> HIDE DEF d, g
<1>5. e \in Runtime /\ e.target = d.target /\ e.up = d.up /\ e.stopped = d.stopped
  BY <1>3, BodyRows, Counted
<1> HIDE DEF e
<1>6. Put(g, e)
  BY <1>4, <1>5 DEF Put
<1> QED
  BY <1>1, <1>2, <1>3, <1>5, <1>6 DEF d, g, e

\* A switch that is under way, and the answer the watcher waits to apply, name a
\* Redis; until the old pool is stopped there is a runtime to drain.
Switching ==
  /\ watch.poll.at = "asked" => watch.poll.t \in Target
  /\ swap.at # "idle" => swap.to \in Target
  /\ swap.at \in {"drain", "checkpoint", "stop", "stopping"} => swap.of # 0 /\ state.cur # 0

\* A drain moves rows within the runtime it is of.
Drains(g, d, e) ==
  /\ Put(g, e) /\ SameRuntime(d, e)
  /\ \A v \in Worker : KeepsRows(d, e, v) /\ Pumped(e, v)

\* The answer to the watcher starts the drain of the current runtime, or none.
LEMMA WatcherAnswerDoes ==
  ASSUME TypesHold, WatcherAnswer
  PROVE  \/ runtimes' = runtimes /\ swap' = swap
         \/ /\ runtimes' = runtimes /\ state.cur = 0
            /\ swap' = [NoSwap EXCEPT !.at = "build", !.to = watch.poll.t]
         \/ /\ state.cur \in DOMAIN runtimes
            /\ \E e : /\ Drains(state.cur, runtimes[state.cur], e)
                      /\ swap' = [at |-> "drain", to |-> watch.poll.t, of |-> state.cur,
                                  draining |-> Flushing(e)]
<1>1. CASE AwaitDrain("drain", watch.poll.t, state.cur, runtimes[state.cur]) /\ state.cur # 0
  <2>1. state.cur \in DOMAIN runtimes /\ runtimes[state.cur] \in Runtime
    <3>1. state.cur \in 0 .. Len(runtimes) /\ runtimes \in Seq(Runtime)
      BY DEF TypesHold, StateType
    <3> QED
      BY <1>1, <3>1
  <2> QED
    BY <1>1, <2>1, AwaitDrainDoes DEF Drains
<1>2. CASE ~(AwaitDrain("drain", watch.poll.t, state.cur, runtimes[state.cur]) /\ state.cur # 0)
  BY <1>2 DEF WatcherAnswer
<1> QED
  BY <1>1, <1>2

\* dispatcher.stop drains the current runtime once more.
LEMMA SwapStopDoes ==
  ASSUME TypesHold, Switching, SwapStop
  PROVE  /\ state.cur \in DOMAIN runtimes
         /\ \E e : /\ Drains(state.cur, runtimes[state.cur], e)
                   /\ swap' = [at |-> "stop", to |-> swap.to, of |-> state.cur,
                               draining |-> Flushing(e)]
<1>1. state.cur \in 0 .. Len(runtimes) /\ runtimes \in Seq(Runtime) /\ state.cur # 0
  BY DEF TypesHold, StateType, Switching, SwapStop
<1>2. state.cur \in DOMAIN runtimes /\ runtimes[state.cur] \in Runtime
  BY <1>1
<1>3. AwaitDrain("stop", swap.to, state.cur, runtimes[state.cur])
  BY DEF SwapStop
<1> QED
  BY <1>2, <1>3, AwaitDrainDoes DEF Drains

\* The same rows in a runtime that is stopped, or cut off.
SameBut(d, e) ==
  /\ e \in Runtime /\ e.target = d.target /\ e.inFlight = d.inFlight
  /\ e.buffer = d.buffer /\ e.batch = d.batch

\* Stopping the workers moves no row.
LEMMA StoppedIs ==
  ASSUME NEW d \in Runtime
  PROVE  SameBut(d, StopWorkers(d)) /\ StopWorkers(d).stopped /\ StopWorkers(d).up = d.up
<1>1. StopWorkers(d) \in Runtime
  BY DEF StopWorkers, Runtime
<1>2. /\ StopWorkers(d).target = d.target /\ StopWorkers(d).inFlight = d.inFlight
      /\ StopWorkers(d).buffer = d.buffer /\ StopWorkers(d).batch = d.batch
  BY DEF StopWorkers, Runtime
<1>3. StopWorkers(d).stopped /\ StopWorkers(d).up = d.up
  BY DEF StopWorkers, Runtime
<1> QED
  BY <1>1, <1>2, <1>3 DEF SameBut

\* worker.stop drains a runtime that takes no more rows.
LEMMA SwapStopWorkersDoes ==
  ASSUME TypesHold, Switching, SwapStopWorkers
  PROVE  /\ swap.of \in DOMAIN runtimes
         /\ \E d, e : /\ SameBut(runtimes[swap.of], d) /\ d.stopped
                      /\ d.up = runtimes[swap.of].up
                      /\ Drains(swap.of, d, e)
                      /\ swap' = [at |-> "stopping", to |-> swap.to, of |-> swap.of,
                                  draining |-> Flushing(e)]
<1>1. /\ swap.of \in 0 .. Len(runtimes) /\ runtimes \in Seq(Runtime) /\ swap.of # 0
  BY DEF TypesHold, SwapType, Switching, SwapStopWorkers, Drained
<1>2. swap.of \in DOMAIN runtimes /\ runtimes[swap.of] \in Runtime
  BY <1>1
<1> DEFINE d == StopWorkers(runtimes[swap.of])
<1>3. SameBut(runtimes[swap.of], d) /\ d.stopped /\ d.up = runtimes[swap.of].up
  BY <1>2, StoppedIs
<1>4. AwaitDrain("stopping", swap.to, swap.of, d)
  BY <1>1 DEF SwapStopWorkers
<1>5. d \in Runtime
  BY <1>3 DEF SameBut
<1> HIDE DEF d
<1>6. \E e : /\ Drains(swap.of, d, e)
             /\ swap' = [at |-> "stopping", to |-> swap.to, of |-> swap.of,
                         draining |-> Flushing(e)]
  BY <1>2, <1>4, <1>5, AwaitDrainDoes DEF Drains
<1> QED
  BY <1>1, <1>2, <1>3, <1>6

\* Disconnecting the clients moves no row.
LEMMA SwapPoolStopDoes ==
  ASSUME TypesHold, Switching, SwapPoolStop
  PROVE  /\ swap.of \in DOMAIN runtimes
         /\ \E e : /\ Put(swap.of, e) /\ SameBut(runtimes[swap.of], e)
                   /\ ~e.up /\ e.stopped = runtimes[swap.of].stopped
<1>1. /\ swap.of \in 0 .. Len(runtimes) /\ runtimes \in Seq(Runtime) /\ swap.of # 0
  BY DEF TypesHold, SwapType, Switching, SwapPoolStop, Drained
<1>2. swap.of \in DOMAIN runtimes /\ runtimes[swap.of] \in Runtime
  BY <1>1
<1> DEFINE d == runtimes[swap.of]
           e == [d EXCEPT !.up = FALSE]
<1>3. runtimes' = [runtimes EXCEPT ![swap.of] = e]
  BY <1>1 DEF SwapPoolStop
<1>4. d \in Runtime
  BY <1>2
<1> HIDE DEF d
<1>5. e \in Runtime
  BY <1>4 DEF Runtime
<1>6. /\ e.target = d.target /\ e.inFlight = d.inFlight
      /\ e.buffer = d.buffer /\ e.batch = d.batch
  BY <1>4 DEF Runtime
<1>7. ~e.up /\ e.stopped = d.stopped
  BY <1>4 DEF Runtime
<1> HIDE DEF e
<1>8. Put(swap.of, e)
  BY <1>3, <1>5 DEF Put
<1> QED
  BY <1>1, <1>2, <1>5, <1>6, <1>7, <1>8 DEF SameBut, d

\* A step replaces one runtime by one for the same Redis, or adds a fresh one.
LEMMA RuntimesMove ==
  ASSUME TypesHold, Switching, [BNext]_vars
  PROVE  \/ runtimes' = runtimes
         \/ \E g \in DOMAIN runtimes : \E e : Put(g, e) /\ e.target = runtimes[g].target
         \/ \E t \in Target : runtimes' = Append(runtimes, Fresh(t))
<1>0. runtimes \in Seq(Runtime) /\ state.cur \in 0 .. Len(runtimes)
  BY DEF TypesHold, StateType
<1>1. ASSUME NEW g \in DOMAIN runtimes, NEW w \in Worker, IdleTimer(g, w)
      PROVE  \E e : Put(g, e) /\ e.target = runtimes[g].target
  BY <1>0, <1>1, IdleTimerDoes DEF SameRuntime
<1>2. ASSUME NEW g \in DOMAIN runtimes, NEW w \in Worker, FlushReply(g, w)
      PROVE  \E e : Put(g, e) /\ e.target = runtimes[g].target
  BY <1>0, <1>2, FlushReplyRows DEF TypesHold
<1>3. ASSUME NEW b \in Body, LoadRows(b)
      PROVE  \E g \in DOMAIN runtimes : \E e : Put(g, e) /\ e.target = runtimes[g].target
  BY <1>0, <1>3, LoadRowsDoes
<1>4. ASSUME WatcherAnswer
      PROVE  \/ runtimes' = runtimes
             \/ \E g \in DOMAIN runtimes : \E e : Put(g, e) /\ e.target = runtimes[g].target
  BY <1>4, WatcherAnswerDoes DEF Drains, SameRuntime
<1>5. ASSUME SwapStop
      PROVE  \E g \in DOMAIN runtimes : \E e : Put(g, e) /\ e.target = runtimes[g].target
  BY <1>5, SwapStopDoes DEF Drains, SameRuntime
<1>6. ASSUME SwapStopWorkers
      PROVE  \E g \in DOMAIN runtimes : \E e : Put(g, e) /\ e.target = runtimes[g].target
  BY <1>6, SwapStopWorkersDoes DEF Drains, SameRuntime, SameBut
<1>7. ASSUME SwapPoolStop
      PROVE  \E g \in DOMAIN runtimes : \E e : Put(g, e) /\ e.target = runtimes[g].target
  BY <1>7, SwapPoolStopDoes DEF SameBut
<1>8. ASSUME SwapBuilt
      PROVE  \E t \in Target : runtimes' = Append(runtimes, Fresh(t))
  BY <1>8 DEF SwapBuilt, Switching
<1>9. ASSUME BootBuilt
      PROVE  \E t \in Target : runtimes' = Append(runtimes, Fresh(t))
  BY <1>9 DEF BootBuilt, TypesHold, Maybe
<1> QED
  BY NextCases, <1>1, <1>2, <1>3, <1>4, <1>5, <1>6, <1>7, <1>8, <1>9
     DEF LoadStart, LoadStop, ApiSwitch, StaleCheck, StaleAnswer, WatcherPoll, SwapDrained,
         SwapTimeout, SwapBuildFailed, BootFailed, vars

\* No runtime is forgotten or turned to another Redis.
LEMMA RuntimesKept ==
  ASSUME TypesHold, Switching, [BNext]_vars
  PROVE  /\ runtimes' \in Seq(Runtime) /\ Len(runtimes) \in Nat /\ Len(runtimes') \in Nat
         /\ Len(runtimes) <= Len(runtimes') /\ DOMAIN runtimes \subseteq DOMAIN runtimes'
         /\ DOMAIN runtimes = 1 .. Len(runtimes)
         /\ \A g \in DOMAIN runtimes : runtimes'[g].target = runtimes[g].target
<1>0. runtimes \in Seq(Runtime) /\ Len(runtimes) \in Nat /\ DOMAIN runtimes = 1 .. Len(runtimes)
  BY DEF TypesHold
<1>1. CASE runtimes' = runtimes
  BY <1>0, <1>1
<1>2. CASE \E g \in DOMAIN runtimes : \E e : Put(g, e) /\ e.target = runtimes[g].target
  <2>0. PICK g \in DOMAIN runtimes : \E e : Put(g, e) /\ e.target = runtimes[g].target
    BY <1>2
  <2>1. PICK e : g \in DOMAIN runtimes /\ Put(g, e) /\ e.target = runtimes[g].target
    BY <2>0
  <2>2. /\ runtimes' \in Seq(Runtime) /\ Len(runtimes') = Len(runtimes)
        /\ DOMAIN runtimes' = DOMAIN runtimes /\ runtimes'[g] = e
        /\ \A h \in DOMAIN runtimes : h # g => runtimes'[h] = runtimes[h]
    BY <1>0, <2>1, PutIs
  <2> QED
    BY <1>0, <2>1, <2>2
<1>3. CASE \E t \in Target : runtimes' = Append(runtimes, Fresh(t))
  <2>1. PICK t \in Target : runtimes' = Append(runtimes, Fresh(t))
    BY <1>3
  <2> DEFINE e == Fresh(t)
  <2>2. e \in Runtime
    BY FreshIs
  <2> HIDE DEF e
  <2>3. /\ runtimes' \in Seq(Runtime) /\ Len(runtimes') = Len(runtimes) + 1
        /\ DOMAIN runtimes' = 1 .. Len(runtimes) + 1
        /\ \A h \in DOMAIN runtimes : runtimes'[h] = runtimes[h]
    BY <1>0, <2>1, <2>2, Added DEF e
  <2> QED
    BY <1>0, <2>3
<1> QED
  BY RuntimesMove, <1>1, <1>2, <1>3

\* No step takes the state of the loader out of its type.
LEMMA StateTypeStep ==
  ASSUME TypesHold, Switching, [BNext]_vars
  PROVE  state' \in StateType(Len(runtimes'))
<1> DEFINE n == Len(runtimes)
           m == Len(runtimes')
<1>0. state \in StateType(n) /\ n \in Nat /\ m \in Nat /\ n <= m
  BY RuntimesKept DEF TypesHold
<1>1. StateType(n) \subseteq StateType(m)
  BY <1>0 DEF StateType
<1> HIDE DEF n, m
<1>2. ASSUME state' = state PROVE state' \in StateType(n)
  BY <1>0, <1>2
<1>3. ASSUME LoadStart \/ LoadStop PROVE state' \in StateType(n)
  BY <1>0, <1>3 DEF LoadStart, LoadStop, StateType
<1>4. ASSUME StaleAnswer PROVE state' \in StateType(n)
  BY <1>0, <1>4, Updated DEF StaleAnswer, TypesHold
<1>5. ASSUME WatcherAnswer PROVE state' \in StateType(n)
  <2> DEFINE u == updateApiActiveTarget(state, watch.poll.t)
  <2>1. watch.poll.t \in Maybe
    BY DEF TypesHold, WatchType
  <2>2. u \in StateType(n)
    BY <1>0, <2>1, Updated
  <2>3. \/ state' = u \/ state' = [u EXCEPT !.stale = FALSE] \/ state' = [u EXCEPT !.accepting = FALSE]
    BY <1>5 DEF WatcherAnswer
  <2> HIDE DEF u
  <2> QED
    BY <2>2, <2>3 DEF StateType
<1>6. ASSUME SwapTimeout \/ SwapBuildFailed PROVE state' \in StateType(n)
  BY <1>0, <1>6, Failed DEF SwapTimeout, SwapBuildFailed
<1>7. ASSUME BootFailed PROVE state' \in StateType(n)
  BY <1>0, <1>7 DEF BootFailed, StateType
<1>8. ASSUME SwapBuilt PROVE state' \in StateType(m)
  <2>1. swap.to \in Maybe /\ state.watcher \in {"awaiting", "enabled", "disabled"}
    BY <1>0 DEF TypesHold, SwapType, StateType
  <2>2. m = n + 1
    BY <1>8, Added, FreshIs DEF SwapBuilt, TypesHold, Switching, n, m
  <2>3. n + 1 \in 0 .. m
    BY <1>0, <2>2
  <2>4. state' = [cur |-> n + 1, bound |-> swap.to, accepting |-> TRUE,
                  stale |-> FALSE, error |-> FALSE, seen |-> swap.to,
                  watcher |-> IF state.watcher = "awaiting" THEN "enabled" ELSE state.watcher]
    BY <1>8 DEF SwapBuilt, n
  <2> QED
    BY <2>1, <2>3, <2>4 DEF StateType
<1>9. ASSUME BootBuilt PROVE state' \in StateType(m)
  <2>1. m = n + 1
    BY <1>9, Added, FreshIs DEF BootBuilt, TypesHold, Maybe, n, m
  <2>2. n + 1 \in 0 .. m
    BY <1>0, <2>1
  <2>3. state' = [state EXCEPT !.cur = n + 1]
    BY <1>9 DEF BootBuilt, n
  <2> QED
    BY <1>0, <1>1, <2>2, <2>3 DEF StateType
<1>10. state' \in StateType(n) \/ state' \in StateType(m)
  BY Frame, <1>2, <1>3, <1>4, <1>5, <1>6, <1>7, <1>8, <1>9
<1> QED
  BY <1>1, <1>10 DEF m

\* No step takes the switch under way out of its type.
LEMMA SwapTypeStep ==
  ASSUME TypesHold, Switching, [BNext]_vars
  PROVE  swap' \in SwapType(Len(runtimes'))
<1> DEFINE n == Len(runtimes)
           m == Len(runtimes')
<1>0. /\ swap \in SwapType(n) /\ n \in Nat /\ m \in Nat /\ n <= m
      /\ DOMAIN runtimes = 1 .. n
  BY RuntimesKept DEF TypesHold
<1>1. SwapType(n) \subseteq SwapType(m)
  BY <1>0 DEF SwapType
<1> HIDE DEF n, m
<1>2. NoSwap \in SwapType(n)
  BY <1>0 DEF NoSwap, SwapType, Maybe
<1>3. ASSUME NEW at \in {"drain", "stop", "stopping"}, NEW t \in Maybe, NEW g \in DOMAIN runtimes,
             NEW e, swap' = [at |-> at, to |-> t, of |-> g, draining |-> Flushing(e)]
      PROVE  swap' \in SwapType(n)
  <2>1. Flushing(e) \in SUBSET Worker /\ g \in 0 .. n
    BY <1>0 DEF Flushing
  <2> QED
    BY <1>3, <2>1 DEF SwapType
<1>4. ASSUME NEW g \in DOMAIN runtimes, NEW w \in Worker, FlushReply(g, w)
      PROVE  swap' \in SwapType(n)
  <2>1. \E d : DrainSeen(g, d)
    BY <1>4, RepliesAre
  <2> QED
    BY <1>0, <2>1 DEF DrainSeen, SwapType
<1>5. ASSUME WatcherAnswer PROVE swap' \in SwapType(n)
  <2>1. watch.poll.t \in Maybe
    BY DEF TypesHold, WatchType
  <2>2. CASE swap' = [NoSwap EXCEPT !.at = "build", !.to = watch.poll.t]
    BY <1>2, <2>1, <2>2 DEF SwapType
  <2> QED
    BY <1>0, <1>3, <1>5, <2>1, <2>2, WatcherAnswerDoes
<1>6. swap.to \in Maybe
  BY <1>0 DEF SwapType
<1>7. ASSUME SwapStop PROVE swap' \in SwapType(n)
  BY <1>3, <1>6, <1>7, SwapStopDoes
<1>8. ASSUME SwapStopWorkers PROVE swap' \in SwapType(n)
  BY <1>3, <1>6, <1>8, SwapStopWorkersDoes
<1>9. ASSUME SwapDrained \/ SwapPoolStop PROVE swap' \in SwapType(n)
  BY <1>0, <1>9 DEF SwapDrained, SwapPoolStop, SwapType
<1>10. ASSUME SwapTimeout \/ SwapBuilt \/ SwapBuildFailed PROVE swap' \in SwapType(n)
  BY <1>2, <1>10 DEF SwapTimeout, SwapBuilt, SwapBuildFailed
<1>11. swap' \in SwapType(n)
  BY Frame, <1>0, <1>4, <1>5, <1>7, <1>8, <1>9, <1>10
<1> QED
  BY <1>1, <1>11 DEF m

\* No step takes the polls and the api out of their types.
LEMMA WatchTypeStep ==
  ASSUME TypesHold, [BNext]_vars
  PROVE  /\ watch' \in WatchType /\ target' \in Maybe /\ version' \in Nat
         /\ staleness' \in Maybe /\ boot' \in Maybe /\ raced' \in BOOLEAN
<1> USE DEF TypesHold
<1>1. ASSUME WatcherPoll PROVE watch' \in WatchType
  BY <1>1 DEF WatcherPoll, WatchType
<1>2. ASSUME WatcherAnswer PROVE watch' \in WatchType
  BY <1>2 DEF WatcherAnswer, WatchType, Quiet, Maybe
<1>3. watch' \in WatchType
  BY Frame, <1>1, <1>2
<1>4. target' \in Maybe /\ version' \in Nat
  BY Frame DEF ApiSwitch, Commit, Maybe, api
<1>5. staleness' \in Maybe
  BY Frame DEF StaleCheck, StaleAnswer, Maybe
<1>6. boot' \in Maybe
  BY Frame DEF BootBuilt, BootFailed, Maybe
<1>7. raced' \in BOOLEAN
  BY Frame DEF WatcherAnswer
<1> QED
  BY <1>3, <1>4, <1>5, <1>6, <1>7

\* No step takes the rows out of their types; nothing stored, owed, dead or lost
\* is forgotten.
LEMMA RowTypesStep ==
  ASSUME TypesHold, [BNext]_vars
  PROVE  /\ posts' \in [Body -> Nat] /\ owed' \subseteq Row \X Maybe
         /\ stored' \in [Target -> SUBSET Row]
         /\ dead' \subseteq Row \X Target /\ lost' \subseteq Row \X Target
         /\ owed \subseteq owed' /\ dead \subseteq dead' /\ lost \subseteq lost'
         /\ \A t \in Target : stored[t] \subseteq stored'[t]
<1>1. ASSUME NEW g \in DOMAIN runtimes, NEW w \in Worker, FlushReply(g, w)
      PROVE  /\ stored' \in [Target -> SUBSET Row]
             /\ dead' \subseteq Row \X Target /\ lost' \subseteq Row \X Target
             /\ dead \subseteq dead' /\ lost \subseteq lost'
             /\ \A t \in Target : stored[t] \subseteq stored'[t]
  BY <1>1, FlushReplyRows DEF TypesHold
<1>2. ASSUME NEW b \in Body, LoadRows(b)
      PROVE  posts' \in [Body -> Nat] /\ owed' \subseteq Row \X Maybe /\ owed \subseteq owed'
  <2>1. state.bound \in Maybe
    BY DEF TypesHold, StateType
  <2>2. Range(RowsOf[b]) \subseteq Row
    BY BodyRows
  <2>3. \/ UNCHANGED rows
        \/ /\ posts' = [posts EXCEPT ![b] = @ + 1]
           /\ owed' = owed \cup {<<r, state.bound>> : r \in Range(RowsOf[b])}
    BY <1>2 DEF LoadRows
  <2> QED
    BY <2>1, <2>2, <2>3 DEF TypesHold, rows
<1>3. UNCHANGED rows \/ \E b \in Body : LoadRows(b)
  BY Frame
<1>4. UNCHANGED redis \/ \E g \in DOMAIN runtimes, w \in Worker : FlushReply(g, w)
  BY Frame
<1>5. posts' \in [Body -> Nat] /\ owed' \subseteq Row \X Maybe /\ owed \subseteq owed'
  BY <1>2, <1>3 DEF rows, TypesHold
<1>6. /\ stored' \in [Target -> SUBSET Row]
      /\ dead' \subseteq Row \X Target /\ lost' \subseteq Row \X Target
      /\ dead \subseteq dead' /\ lost \subseteq lost'
      /\ \A t \in Target : stored[t] \subseteq stored'[t]
  BY <1>1, <1>4 DEF redis, TypesHold
<1> QED
  BY <1>5, <1>6

\* No step leaves the types.
LEMMA TypesStep ==
  ASSUME TypesHold, Switching, [BNext]_vars
  PROVE  TypesHold'
  BY RuntimesKept, StateTypeStep, SwapTypeStep, WatchTypeStep, RowTypesStep DEF TypesHold

\* A switch under way always knows its Redis and, until the old pool is stopped,
\* what to drain.
LEMMA SwitchingStep ==
  ASSUME TypesHold, Switching, [BNext]_vars
  PROVE  Switching'
<1>1. watch'.poll.at = "asked" => watch'.poll.t \in Target
  <2>1. ASSUME WatcherPoll PROVE watch'.poll.t \in Target
    <3>1. target \in Target /\ watch'.poll = [at |-> "asked", t |-> target, v |-> version]
      BY <2>1 DEF WatcherPoll, TypesHold, WatchType, Maybe
    <3> QED
      BY <3>1
  <2>2. ASSUME WatcherAnswer PROVE watch'.poll.at # "asked"
    BY <2>2 DEF WatcherAnswer, Quiet
  <2> QED
    BY Frame, <2>1, <2>2 DEF Switching
<1>2. state.cur # 0 => state'.cur # 0
  <2>1. state \in StateType(Len(runtimes)) /\ Len(runtimes) \in Nat
    BY DEF TypesHold
  <2>2. ASSUME LoadStart \/ LoadStop \/ BootFailed PROVE state'.cur = state.cur
    BY <2>1, <2>2 DEF LoadStart, LoadStop, BootFailed, StateType
  <2>3. ASSUME StaleAnswer PROVE state'.cur = state.cur
    BY <2>1, <2>3, Updated DEF StaleAnswer, TypesHold
  <2>4. ASSUME WatcherAnswer PROVE state'.cur = state.cur
    <3> DEFINE u == updateApiActiveTarget(state, watch.poll.t)
    <3>1. watch.poll.t \in Maybe
      BY DEF TypesHold, WatchType
    <3>2. u \in StateType(Len(runtimes)) /\ u.cur = state.cur
      BY <2>1, <3>1, Updated
    <3>3. \/ state' = u \/ state' = [u EXCEPT !.stale = FALSE] \/ state' = [u EXCEPT !.accepting = FALSE]
      BY <2>4 DEF WatcherAnswer
    <3> HIDE DEF u
    <3> QED
      BY <3>2, <3>3 DEF StateType
  <2>5. ASSUME SwapTimeout \/ SwapBuildFailed PROVE state'.cur = state.cur
    BY <2>1, <2>5, Failed DEF SwapTimeout, SwapBuildFailed
  <2>6. ASSUME SwapBuilt \/ BootBuilt PROVE state'.cur # 0
    <3>1. state'.cur = Len(runtimes) + 1
      BY <2>1, <2>6 DEF SwapBuilt, BootBuilt, StateType
    <3> QED
      BY <2>1, <3>1
  <2> QED
    BY Frame, <2>2, <2>3, <2>4, <2>5, <2>6
<1> DEFINE Mid == {"drain", "checkpoint", "stop", "stopping"}
           OK == /\ swap'.at # "idle" => swap'.to \in Target
                 /\ swap'.at \in Mid => swap'.of # 0 /\ state.cur # 0
<1>3. OK
  <2>0. swap \in SwapType(Len(runtimes)) /\ runtimes \in Seq(Runtime)
    BY DEF TypesHold
  <2>1. \A g \in DOMAIN runtimes : g # 0
    BY <2>0
  <2>2. ASSUME UNCHANGED swap PROVE OK
    BY <2>2 DEF Switching
  <2>3. ASSUME NEW g \in DOMAIN runtimes, NEW w \in Worker, FlushReply(g, w) PROVE OK
    <3>1. \E d : DrainSeen(g, d)
      BY <2>3, RepliesAre
    <3>2. swap'.at = swap.at /\ swap'.to = swap.to /\ swap'.of = swap.of
      BY <2>0, <3>1 DEF DrainSeen, SwapType
    <3> QED
      BY <3>2 DEF Switching
  <2>4. ASSUME WatcherAnswer PROVE OK
    <3>1. watch.poll.t \in Target
      BY <2>4 DEF WatcherAnswer, Switching
    <3>2. CASE swap' = [NoSwap EXCEPT !.at = "build", !.to = watch.poll.t]
      BY <3>1, <3>2 DEF NoSwap
    <3>3. ASSUME state.cur \in DOMAIN runtimes, NEW e,
                 swap' = [at |-> "drain", to |-> watch.poll.t, of |-> state.cur,
                          draining |-> Flushing(e)]
          PROVE  OK
      BY <2>1, <3>1, <3>3
    <3> QED
      BY <2>2, <2>4, <3>2, <3>3, WatcherAnswerDoes
  <2>5. ASSUME SwapStop PROVE OK
    <3>1. swap.to \in Target
      BY <2>5 DEF SwapStop, Switching
    <3> QED
      BY <2>1, <2>5, <3>1, SwapStopDoes
  <2>6. ASSUME SwapStopWorkers PROVE OK
    <3>1. swap.to \in Target /\ state.cur # 0
      BY <2>6 DEF SwapStopWorkers, Drained, Switching
    <3> QED
      BY <2>1, <2>6, <3>1, SwapStopWorkersDoes
  <2>7. ASSUME SwapDrained \/ SwapPoolStop PROVE OK
    <3>1. swap.at # "idle" /\ swap'.to = swap.to /\ swap'.of = swap.of
      BY <2>0, <2>7 DEF SwapDrained, SwapPoolStop, Drained, SwapType
    <3>2. swap.at \in Mid
      BY <2>7 DEF SwapDrained, SwapPoolStop, Drained
    <3> QED
      BY <3>1, <3>2 DEF Switching
  <2>8. ASSUME SwapTimeout \/ SwapBuilt \/ SwapBuildFailed PROVE OK
    BY <2>8 DEF SwapTimeout, SwapBuilt, SwapBuildFailed, NoSwap
  <2> QED
    BY Frame, <2>2, <2>3, <2>4, <2>5, <2>6, <2>7, <2>8
<1> QED
  BY <1>1, <1>2, <1>3 DEF Switching

\* A loader that boots has its types and no switch under way.
LEMMA Starts ==
  ASSUME BInit
  PROVE  TypesHold /\ Switching
<1>1. runtimes = <<>> /\ Len(runtimes) = 0 /\ runtimes \in Seq(Runtime) /\ target \in Maybe
  BY DEF BInit, Maybe
<1>2. state \in StateType(0)
  BY <1>1 DEF BInit, StateType
<1>3. swap \in SwapType(0)
  BY DEF BInit, NoSwap, SwapType, Maybe
<1>4. watch \in WatchType
  BY DEF BInit, Quiet, WatchType, Maybe
<1>5. TypesHold
  <2>1. raced \in BOOLEAN
    BY DEF BInit
  <2>2. posts \in [Body -> Nat] /\ owed \subseteq Row \X Maybe
    BY DEF BInit
  <2>3. /\ stored \in [Target -> SUBSET Row]
        /\ dead \subseteq Row \X Target /\ lost \subseteq Row \X Target
    BY DEF BInit
  <2>4. version \in Nat /\ staleness \in Maybe /\ boot \in Maybe
    BY <1>1 DEF BInit, Maybe
  <2> QED
    BY <1>1, <1>2, <1>3, <1>4, <2>1, <2>2, <2>3, <2>4 DEF TypesHold
<1>6. Switching
  BY DEF BInit, Switching, NoSwap, Quiet
<1> QED
  BY <1>5, <1>6

\* The state of the loader has its types, and a switch under way knows the
\* runtime it drains, whatever the polls, bodies and replies do.
THEOREM BulkTypes == BSpec => [](BTypeOK /\ Switching)
<1>1. TypesHold /\ Switching /\ [BNext]_vars => TypesHold' /\ Switching'
  BY TypesStep, SwitchingStep
<1>2. BSpec => [](TypesHold /\ Switching)
  BY Starts, <1>1, PTL DEF BSpec
<1> QED
  BY <1>2, TypesAre, PTL

-------------------------------------------------------------------------------
(* The limit on rows in flight *)

\* What the counter of one runtime says.
Counts(d) == ~d.stopped => d.inFlight = HeldBy(d)

\* Moving rows within the runtime leaves its counter right.
LEMMA CountsMoved ==
  ASSUME NEW d \in Runtime, NEW e, SameRuntime(d, e), \A v \in Worker : KeepsRows(d, e, v),
         Counts(d)
  PROVE  Counts(e)
<1>1. e \in Runtime /\ e.stopped = d.stopped /\ e.inFlight = d.inFlight
  BY DEF SameRuntime
<1>2. HeldBy(e) = HeldBy(d)
  BY <1>1, HeldBySame DEF KeepsRows
<1> QED
  BY <1>1, <1>2 DEF Counts

\* Settling n rows of a worker leaves the counter of the runtime right.
LEMMA CountsFlushed ==
  ASSUME NEW d \in Runtime, NEW e \in Runtime, NEW w \in Worker, NEW n \in Nat,
         e.stopped = d.stopped, \A v \in Worker \ {w} : SameRows(d, e, v),
         n <= Load(d, w), Load(e, w) = Load(d, w) - n,
         e.inFlight = IF d.inFlight < n THEN 0 ELSE d.inFlight - n,
         Counts(d)
  PROVE  Counts(e)
<1> SUFFICES ASSUME ~d.stopped PROVE e.inFlight = HeldBy(e)
  BY DEF Counts
<1>1. \A v \in Worker \ {w} : Load(e, v) = Load(d, v)
  BY DEF SameRows, Load
<1>2. /\ HeldBy(d) \in Nat /\ HeldBy(e) \in Nat /\ HeldBy(d) >= Load(d, w)
      /\ HeldBy(e) = HeldBy(d) - Load(d, w) + Load(e, w)
  BY <1>1, HeldByOne
<1>3. d.inFlight = HeldBy(d) /\ Load(d, w) \in Nat
  BY RuntimeParts DEF Counts
<1> QED
  BY <1>2, <1>3

\* A body taken leaves the counter of the runtime right.
LEMMA CountsEnqueued ==
  ASSUME NEW d \in Runtime, NEW seq \in Seq(Row), Counts(d)
  PROVE  Counts(enqueue(d, seq))
<1> DEFINE e == enqueue(d, seq)
<1>1. e \in Runtime /\ e.stopped = d.stopped /\ e.inFlight = d.inFlight + Len(seq)
  BY Counted
<1>2. ASSUME ~d.stopped PROVE e.inFlight = HeldBy(e)
  <2>1. \A v \in Worker : Load(e, v) = Load(d, v) + Cardinality(Share(d, v, seq))
    BY <1>2, Enqueued
  <2> HIDE DEF e
  <2>2. HeldBy(e) = HeldBy(d) + Len(seq)
    BY <1>1, <2>1, HeldByShared
  <2> QED
    BY <1>1, <1>2, <2>2 DEF Counts
<1> QED
  BY <1>1, <1>2 DEF Counts

\* The counter of a new runtime is right.
LEMMA CountsFresh ==
  ASSUME NEW t \in Target
  PROVE  Counts(Fresh(t))
<1> DEFINE d == Fresh(t)
<1>1. d \in Runtime /\ d.inFlight = 0 /\ \A v \in Worker : Load(d, v) = 0
  BY FreshIs
<1> HIDE DEF d
<1>2. \A v \in Worker : Places(d, v) = {}
  BY <1>1, PlacesAre
<1>3. UNION {Places(d, v) : v \in Worker} = {}
  BY <1>2
<1>4. HeldBy(d) = 0
  BY <1>3, FS_EmptySet DEF HeldBy
<1>5. Counts(d)
  BY <1>1, <1>4 DEF Counts
<1> QED
  BY <1>5 DEF d

\* If the counters are right and the runtime put in place has its own right, they
\* still are.
LEMMA CountsPut ==
  ASSUME runtimes \in Seq(Runtime), NEW g \in DOMAIN runtimes, NEW e, Put(g, e), Counts(e),
         InFlightIsHeld
  PROVE  InFlightIsHeld'
<1>1. /\ DOMAIN runtimes' = DOMAIN runtimes /\ runtimes'[g] = e
      /\ \A h \in DOMAIN runtimes : h # g => runtimes'[h] = runtimes[h]
  BY PutIs
<1>2. \A h \in DOMAIN runtimes : Counts(runtimes[h])
  BY DEF InFlightIsHeld, Counts
<1>3. ASSUME NEW h \in DOMAIN runtimes' PROVE Counts(runtimes'[h])
  BY <1>1, <1>2
<1> QED
  BY <1>3 DEF InFlightIsHeld, Counts

\* Every step leaves the counters right.
LEMMA InFlightStep ==
  ASSUME TypesHold, Switching, InFlightIsHeld, [BNext]_vars
  PROVE  InFlightIsHeld'
<1>0. runtimes \in Seq(Runtime) /\ state.cur \in 0 .. Len(runtimes)
  BY DEF TypesHold, StateType
<1>a. \A g \in DOMAIN runtimes : runtimes[g] \in Runtime /\ Counts(runtimes[g])
  BY <1>0 DEF InFlightIsHeld, Counts
<1>1. ASSUME NEW g \in DOMAIN runtimes, NEW w \in Worker, IdleTimer(g, w)
      PROVE  InFlightIsHeld'
  <2>1. PICK e : /\ Put(g, e) /\ SameRuntime(runtimes[g], e)
                 /\ \A v \in Worker : KeepsRows(runtimes[g], e, v)
    BY <1>0, <1>1, IdleTimerDoes
  <2>2. Counts(e)
    BY <1>a, <2>1, CountsMoved
  <2> QED
    BY <1>0, <2>1, <2>2, CountsPut
<1>2. ASSUME NEW g \in DOMAIN runtimes, NEW w \in Worker, FlushReply(g, w)
      PROVE  InFlightIsHeld'
  <2> DEFINE d == runtimes[g]
  <2>1. PICK e : /\ Put(g, e) /\ e.stopped = d.stopped
                 /\ \A v \in Worker \ {w} : SameRows(d, e, v)
                 /\ \E n \in Nat : /\ n <= Load(d, w) /\ Load(e, w) = Load(d, w) - n
                                   /\ e.inFlight = IF d.inFlight < n THEN 0 ELSE d.inFlight - n
    BY <1>0, <1>2, FlushReplyRows DEF TypesHold
  <2>2. PICK n \in Nat : /\ n <= Load(d, w) /\ Load(e, w) = Load(d, w) - n
                         /\ e.inFlight = IF d.inFlight < n THEN 0 ELSE d.inFlight - n
    BY <2>1
  <2>3. d \in Runtime /\ e \in Runtime /\ Counts(d)
    BY <1>a, <2>1 DEF Put
  <2> HIDE DEF d
  <2>4. Counts(e)
    BY <2>1, <2>2, <2>3, CountsFlushed
  <2> QED
    BY <1>0, <2>1, <2>4, CountsPut
<1>3. ASSUME NEW b \in Body, LoadRows(b) PROVE InFlightIsHeld'
  <2> DEFINE d == runtimes[state.cur]
             e == enqueue(d, RowsOf[b])
  <2>1. state.cur \in DOMAIN runtimes /\ d \in Runtime /\ Put(state.cur, e)
    BY <1>0, <1>3, LoadRowsDoes
  <2>2. Counts(e)
    BY <1>a, <2>1, BodyRows, CountsEnqueued
  <2> QED
    BY <1>0, <2>1, <2>2, CountsPut
<1>4. ASSUME NEW g \in DOMAIN runtimes, NEW e, Drains(g, runtimes[g], e) PROVE InFlightIsHeld'
  <2>1. Counts(e)
    BY <1>a, <1>4, CountsMoved DEF Drains
  <2> QED
    BY <1>0, <1>4, <2>1, CountsPut DEF Drains
<1>5. ASSUME WatcherAnswer PROVE InFlightIsHeld'
  <2>1. CASE runtimes' = runtimes
    BY <2>1 DEF InFlightIsHeld
  <2> QED
    BY <1>4, <1>5, <2>1, WatcherAnswerDoes
<1>6. ASSUME SwapStop PROVE InFlightIsHeld'
  BY <1>4, <1>6, SwapStopDoes
<1>7. ASSUME SwapStopWorkers PROVE InFlightIsHeld'
  <2>1. PICK d, e : d.stopped /\ Drains(swap.of, d, e)
    BY <1>7, SwapStopWorkersDoes
  <2>2. swap.of \in DOMAIN runtimes
    BY <1>7, SwapStopWorkersDoes
  <2>3. e.stopped
    BY <2>1 DEF Drains, SameRuntime
  <2>4. Counts(e)
    BY <2>3 DEF Counts
  <2> QED
    BY <1>0, <2>1, <2>2, <2>4, CountsPut DEF Drains
<1>8. ASSUME SwapPoolStop PROVE InFlightIsHeld'
  <2>1. PICK e : /\ Put(swap.of, e) /\ SameBut(runtimes[swap.of], e)
                 /\ e.stopped = runtimes[swap.of].stopped
    BY <1>8, SwapPoolStopDoes
  <2>2. swap.of \in DOMAIN runtimes
    BY <1>8, SwapPoolStopDoes
  <2> DEFINE d == runtimes[swap.of]
  <2>3. d \in Runtime /\ Counts(d)
    BY <1>a, <2>2
  <2>4. HeldBy(e) = HeldBy(d) /\ e.inFlight = d.inFlight
    BY <2>1 DEF SameBut, HeldBy, Places
  <2>5. Counts(e)
    BY <2>1, <2>3, <2>4 DEF Counts
  <2> QED
    BY <1>0, <2>1, <2>2, <2>5, CountsPut
<1>9. ASSUME NEW t \in Target, runtimes' = Append(runtimes, Fresh(t)) PROVE InFlightIsHeld'
  <2> DEFINE e == Fresh(t)
  <2>1. e \in Runtime /\ Counts(e)
    BY FreshIs, CountsFresh
  <2> HIDE DEF e
  <2>2. /\ DOMAIN runtimes' = 1 .. Len(runtimes) + 1 /\ DOMAIN runtimes = 1 .. Len(runtimes)
        /\ Len(runtimes) \in Nat /\ runtimes'[Len(runtimes) + 1] = e
        /\ \A h \in DOMAIN runtimes : runtimes'[h] = runtimes[h]
    BY <1>0, <1>9, <2>1, Added DEF e
  <2>3. ASSUME NEW h \in DOMAIN runtimes' PROVE Counts(runtimes'[h])
    BY <1>a, <2>1, <2>2
  <2> QED
    BY <2>3 DEF InFlightIsHeld, Counts
<1>10. ASSUME runtimes' = runtimes PROVE InFlightIsHeld'
  BY <1>10 DEF InFlightIsHeld
<1>11. ASSUME SwapBuilt \/ BootBuilt PROVE InFlightIsHeld'
  <2>1. \E t \in Target : runtimes' = Append(runtimes, Fresh(t))
    BY <1>11 DEF SwapBuilt, BootBuilt, Switching, TypesHold, Maybe
  <2> QED
    BY <1>9, <2>1
<1> QED
  BY NextCases, <1>1, <1>2, <1>3, <1>5, <1>6, <1>7, <1>8, <1>10, <1>11
     DEF LoadStart, LoadStop, ApiSwitch, StaleCheck, StaleAnswer, WatcherPoll, SwapDrained,
         SwapTimeout, SwapBuildFailed, BootFailed, vars

\* In every dispatcher that runs, the counter behind the 429 is the number of rows
\* its workers hold, however bodies, retries, drains and switches interleave.
THEOREM LimitCounts == BSpec => []InFlightIsHeld
<1>1. BInit => InFlightIsHeld
  BY DEF BInit, InFlightIsHeld
<1>2. /\ TypesHold /\ Switching /\ InFlightIsHeld /\ [BNext]_vars
      => TypesHold' /\ Switching' /\ InFlightIsHeld'
  BY TypesStep, SwitchingStep, InFlightStep
<1>3. BSpec => [](TypesHold /\ Switching /\ InFlightIsHeld)
  BY Starts, <1>1, <1>2, PTL DEF BSpec
<1> QED
  BY <1>3, PTL

-------------------------------------------------------------------------------
(* Failing loud *)

\* Unless a swap was begun meanwhile, the loader has no runtime and no error while
\* the runtime of the boot is built, and no swap is under way.
Booting ==
  boot # NoTarget /\ ~raced =>
    state.bound = boot /\ state.cur = 0 /\ ~state.error /\ swap.at = "idle"

\* The current runtime is of the Redis the loader names as bound.
Tied == state.cur # 0 /\ ~raced => runtimes[state.cur].target = state.bound

Loud ==
  state.error /\ ~raced =>
    state.cur = 0 \/ state.stale \/ state.seen \in {NoTarget, state.bound}

\* The loader stays where it is bound.
Stays == state'.cur = state.cur /\ state'.bound = state.bound

\* What each action does to where the loader is bound, and to its error and
\* staleness.
LEMMA StateMoves ==
  ASSUME TypesHold, [BNext]_vars
  PROVE  \/ state' = state
         \/ (LoadStart \/ LoadStop) /\ Stays /\ state'.error = state.error
            /\ state'.stale = state.stale /\ state'.seen = state.seen
         \/ (StaleAnswer \/ WatcherAnswer) /\ Stays /\ state'.error = state.error
            /\ (state.error => \/ state.bound = NoTarget \/ state'.stale
                               \/ state'.seen = state.bound)
         \/ (SwapTimeout \/ SwapBuildFailed) /\ Stays /\ state'.stale
         \/ SwapBuilt /\ state'.cur = Len(runtimes) + 1 /\ state'.bound = swap.to /\ ~state'.error
         \/ BootBuilt /\ state'.cur = Len(runtimes) + 1 /\ state'.bound = state.bound
            /\ state'.error = state.error
         \/ BootFailed /\ state'.cur = state.cur /\ state'.bound = state.bound
<1>0. state \in StateType(Len(runtimes)) /\ Len(runtimes) \in Nat
  BY DEF TypesHold
<1>1. ASSUME LoadStart \/ LoadStop
      PROVE  /\ Stays /\ state'.error = state.error /\ state'.stale = state.stale
             /\ state'.seen = state.seen
  <2>1. \E x \in BOOLEAN : state' = [state EXCEPT !.accepting = x]
    BY <1>1 DEF LoadStart, LoadStop
  <2>2. state'.cur = state.cur /\ state'.bound = state.bound /\ state'.seen = state.seen
    BY <1>0, <2>1 DEF StateType
  <2>3. state'.error = state.error /\ state'.stale = state.stale
    BY <1>0, <2>1 DEF StateType
  <2> QED
    BY <2>2, <2>3 DEF Stays
<1> DEFINE u(t) == updateApiActiveTarget(state, t)
           Same(x) == x.cur = state.cur /\ x.bound = state.bound /\ x.error = state.error
           Says(x) == state.error => state.bound = NoTarget \/ x.stale \/ x.seen = state.bound
<1>2. ASSUME NEW t \in Maybe PROVE u(t) \in StateType(Len(runtimes)) /\ Same(u(t)) /\ Says(u(t))
  BY <1>0, Updated
<1>3. ASSUME Same(state') PROVE Stays
  BY <1>3 DEF Stays
<1>4. ASSUME StaleAnswer PROVE Same(state') /\ Says(state')
  <2>1. staleness \in Maybe /\ state' = u(staleness)
    BY <1>4 DEF StaleAnswer, TypesHold
  <2> HIDE DEF u
  <2> QED
    BY <1>2, <2>1
<1>5. ASSUME WatcherAnswer PROVE Same(state') /\ Says(state')
  <2> DEFINE x == u(watch.poll.t)
  <2>1. watch.poll.t \in Maybe
    BY DEF TypesHold, WatchType
  <2>2. x \in StateType(Len(runtimes)) /\ Same(x) /\ Says(x)
    BY <1>2, <2>1
  <2>3. \/ state' = x
        \/ ~state.error /\ state' = [x EXCEPT !.stale = FALSE]
        \/ state' = [x EXCEPT !.accepting = FALSE]
    BY <1>5 DEF WatcherAnswer
  <2> HIDE DEF x
  <2>4. ASSUME state' = [x EXCEPT !.stale = FALSE] \/ state' = [x EXCEPT !.accepting = FALSE]
        PROVE  state'.cur = x.cur /\ state'.bound = x.bound /\ state'.seen = x.seen
    BY <2>2, <2>4 DEF StateType
  <2>5. ASSUME state' = [x EXCEPT !.stale = FALSE] \/ state' = [x EXCEPT !.accepting = FALSE]
        PROVE  state'.error = x.error
    BY <2>2, <2>5 DEF StateType
  <2>6. ASSUME state' = [x EXCEPT !.accepting = FALSE] PROVE state'.stale = x.stale
    BY <2>2, <2>6 DEF StateType
  <2> QED
    BY <2>2, <2>3, <2>4, <2>5, <2>6
<1>6. ASSUME SwapTimeout \/ SwapBuildFailed PROVE Stays /\ state'.stale
  <2>1. state'.cur = state.cur /\ state'.bound = state.bound /\ state'.stale
    BY <1>0, <1>6, Failed DEF SwapTimeout, SwapBuildFailed
  <2> QED
    BY <2>1 DEF Stays
<1>7. ASSUME SwapBuilt
      PROVE  state'.cur = Len(runtimes) + 1 /\ state'.bound = swap.to /\ ~state'.error
  BY <1>7 DEF SwapBuilt
<1>8. ASSUME BootBuilt
      PROVE  /\ state'.cur = Len(runtimes) + 1 /\ state'.bound = state.bound
             /\ state'.error = state.error
  <2>1. state'.cur = Len(runtimes) + 1 /\ state'.bound = state.bound
    BY <1>0, <1>8 DEF BootBuilt, StateType
  <2>2. state'.error = state.error
    BY <1>0, <1>8 DEF BootBuilt, StateType
  <2> QED
    BY <2>1, <2>2
<1>9. ASSUME BootFailed PROVE state'.cur = state.cur /\ state'.bound = state.bound
  BY <1>0, <1>9 DEF BootFailed, StateType
<1> HIDE DEF u
<1> QED
  BY Frame, <1>1, <1>3, <1>4, <1>5, <1>6, <1>7, <1>8, <1>9

\* A swap that raced the boot is not forgotten.
LEMMA RacedStays ==
  ASSUME [BNext]_vars, raced
  PROVE  raced'
  BY Frame DEF WatcherAnswer

\* Until the boot is over, nothing else begins unless it races the boot.
LEMMA BootingStep ==
  ASSUME TypesHold, Booting, [BNext]_vars
  PROVE  Booting'
<1> SUFFICES ASSUME boot' # NoTarget, ~raced'
             PROVE  /\ state'.bound = boot' /\ state'.cur = 0 /\ ~state'.error
                    /\ swap'.at = "idle"
  BY DEF Booting
<1>1. boot' = boot /\ ~BootBuilt /\ ~BootFailed
  BY Frame DEF BootBuilt, BootFailed
<1>2. state.bound = boot /\ state.cur = 0 /\ ~state.error /\ swap.at = "idle"
  BY <1>1, RacedStays DEF Booting
<1>3. ~SwapDrained /\ ~SwapTimeout /\ ~SwapStop /\ ~SwapStopWorkers /\ ~SwapPoolStop
      /\ ~SwapBuilt /\ ~SwapBuildFailed
  BY <1>2 DEF SwapDrained, SwapTimeout, SwapStop, SwapStopWorkers, SwapPoolStop, SwapBuilt,
              SwapBuildFailed, Drained
<1>4. state'.cur = state.cur /\ state'.bound = state.bound /\ state'.error = state.error
  BY StateMoves, <1>1, <1>3 DEF Stays
<1>5. swap'.at = swap.at
  <2>1. ASSUME NEW g \in DOMAIN runtimes, NEW w \in Worker, FlushReply(g, w)
        PROVE  swap'.at = swap.at
    <3>1. \E d : DrainSeen(g, d)
      BY <2>1, RepliesAre
    <3> QED
      BY <3>1 DEF DrainSeen, TypesHold, SwapType
  <2>2. ASSUME WatcherAnswer PROVE swap' = swap
    BY <1>1, <2>2 DEF WatcherAnswer
  <2> QED
    BY Frame, <1>3, <2>1, <2>2
<1> QED
  BY <1>1, <1>2, <1>4, <1>5

\* The current runtime goes on being of the Redis the loader names.
LEMMA TiedStep ==
  ASSUME TypesHold, Switching, Booting, Tied, [BNext]_vars
  PROVE  Tied'
<1> SUFFICES ASSUME state'.cur # 0, ~raced' PROVE runtimes'[state'.cur].target = state'.bound
  BY DEF Tied
<1> ~raced
  BY RacedStays
<1>0. runtimes \in Seq(Runtime) /\ state.cur \in 0 .. Len(runtimes)
  BY DEF TypesHold, StateType
<1>1. CASE state'.cur = state.cur /\ state'.bound = state.bound
  <2>1. state.cur \in DOMAIN runtimes
    BY <1>0, <1>1
  <2> QED
    BY <1>1, <2>1, RuntimesKept DEF Tied
<1>2. ASSUME NEW t \in Target, runtimes' = Append(runtimes, Fresh(t)),
             state'.cur = Len(runtimes) + 1, state'.bound = t
      PROVE  runtimes'[state'.cur].target = state'.bound
  <2> DEFINE e == Fresh(t)
  <2>1. e \in Runtime /\ e.target = t
    BY FreshIs
  <2> HIDE DEF e
  <2>2. runtimes'[Len(runtimes) + 1] = e
    BY <1>0, <1>2, <2>1, Added DEF e
  <2> QED
    BY <1>2, <2>1, <2>2
<1>3. ASSUME SwapBuilt, state'.cur = Len(runtimes) + 1, state'.bound = swap.to
      PROVE  runtimes'[state'.cur].target = state'.bound
  BY <1>2, <1>3 DEF SwapBuilt, Switching
<1>4. ASSUME BootBuilt, state'.cur = Len(runtimes) + 1, state'.bound = state.bound
      PROVE  runtimes'[state'.cur].target = state'.bound
  <2>1. boot \in Target /\ state.bound = boot /\ runtimes' = Append(runtimes, Fresh(boot))
    BY <1>4 DEF BootBuilt, Booting, TypesHold, Maybe
  <2> QED
    BY <1>2, <1>4, <2>1
<1> QED
  BY StateMoves, <1>1, <1>3, <1>4 DEF Stays

\* A failure recorded stays visible to /load/rows.
LEMMA LoudStep ==
  ASSUME TypesHold, Booting, Tied, Loud, [BNext]_vars
  PROVE  Loud'
<1> SUFFICES ASSUME state'.error, ~raced'
             PROVE  state'.cur = 0 \/ state'.stale \/ state'.seen \in {NoTarget, state'.bound}
  BY DEF Loud
<1> ~raced
  BY RacedStays
<1>1. state.bound = NoTarget => state.cur = 0
  <2>1. ASSUME state.cur # 0 PROVE state.bound \in Target
    <3>1. runtimes[state.cur] \in Runtime
      BY <2>1 DEF TypesHold, StateType
    <3> QED
      BY <2>1, <3>1, RuntimeParts, Sizes DEF Tied
  <2> QED
    BY <2>1, Sizes
<1>2. CASE state' = state
  BY <1>2 DEF Loud
<1>3. CASE Stays /\ state'.error = state.error /\ state'.stale = state.stale /\ state'.seen = state.seen
  BY <1>3 DEF Loud, Stays
<1>4. CASE /\ Stays /\ state'.error = state.error
           /\ (state.error => \/ state.bound = NoTarget \/ state'.stale
                              \/ state'.seen = state.bound)
  BY <1>1, <1>4 DEF Stays
<1>5. CASE state'.stale
  BY <1>5
<1>6. CASE BootBuilt /\ state'.error = state.error
  BY <1>6 DEF BootBuilt, Booting
<1>7. CASE BootFailed /\ state'.cur = state.cur
  BY <1>7 DEF BootFailed, Booting
<1> QED
  BY StateMoves, <1>2, <1>3, <1>4, <1>5, <1>6, <1>7

\* A loader that boots has no runtime and no error.
LEMMA BoundStarts ==
  ASSUME BInit
  PROVE  Booting /\ Tied /\ Loud
<1>1. state.bound = target /\ state.cur = 0 /\ ~state.error /\ boot = target
  BY DEF BInit
<1> QED
  BY <1>1 DEF BInit, Booting, Tied, Loud, NoSwap, Quiet

\* What the loader knows of where it is bound.
LEMMA BoundHolds == BSpec => [](TypesHold /\ Switching /\ Booting /\ Tied /\ Loud)
<1>1. BInit => TypesHold /\ Switching /\ Booting /\ Tied /\ Loud
  BY Starts, BoundStarts
<1>2. /\ TypesHold /\ Switching /\ Booting /\ Tied /\ Loud /\ [BNext]_vars
      => TypesHold' /\ Switching' /\ Booting' /\ Tied' /\ Loud'
  BY TypesStep, SwitchingStep, BootingStep, TiedStep, LoudStep
<1> QED
  BY <1>1, <1>2, PTL DEF BSpec

\* A loader whose switch failed, and that knows the api to be elsewhere, takes no
\* rows, unless a swap was begun before the runtime of the boot was wired.
THEOREM LoudFailure == BSpec => []FailsLoud
<1>1. Loud => FailsLoud
  BY DEF Loud, FailsLoud, Refusing
<1> QED
  BY <1>1, BoundHolds, PTL

-------------------------------------------------------------------------------
(* Rows that were accepted *)

\* A worker without rows.
Idle(d, v) == d.batch[v] = <<>> /\ d.buffer[v] = <<>>

\* A pool that stops is given no rows, has them all in flush loops, and only
\* those of the workers of S.
Stopping(g, S) ==
  /\ runtimes[g].stopped
  /\ \A v \in Worker : Pumped(runtimes[g], v) /\ (v \notin S => Idle(runtimes[g], v))

\* A pool that is cut off takes no rows, and the pool that stops has them only
\* with the workers that are waited for.
Shut ==
  /\ \A g \in DOMAIN runtimes : ~runtimes[g].up => runtimes[g].stopped
  /\ swap.at = "stopping" => Stopping(swap.of, swap.draining)

\* A worker is without rows when it has no load, and then has none to be held.
LEMMA IdleIs ==
  ASSUME NEW d \in Runtime, NEW v \in Worker
  PROVE  /\ Idle(d, v) <=> Load(d, v) = 0
         /\ Idle(d, v) => Has(d, v) = {}
<1> DEFINE a == d.buffer[v]
           b == d.batch[v]
           m == Len(a)
           n == Len(b)
<1>1. a \in Seq(Entry) /\ b \in Seq(Entry) /\ m \in Nat /\ n \in Nat
  BY RuntimeParts, LenProperties
<1>2. (a = <<>> <=> m = 0) /\ (b = <<>> <=> n = 0)
  BY <1>1
<1>3. Load(d, v) = m + n /\ (Idle(d, v) <=> b = <<>> /\ a = <<>>)
  BY DEF Load, Idle
<1>4. Range(<<>>) = {}
  BY DEF Range
<1> HIDE DEF m, n
<1>5. m + n = 0 <=> m = 0 /\ n = 0
  BY <1>1
<1>6. Idle(d, v) => Has(d, v) = {}
  BY <1>3, <1>4 DEF Has
<1> QED
  BY <1>2, <1>3, <1>5, <1>6

\* A worker without rows stays so while rows only move within workers.
LEMMA IdleStays ==
  ASSUME NEW d \in Runtime, NEW e \in Runtime, NEW v \in Worker, Idle(d, v),
         KeepsRows(d, e, v) \/ SameRows(d, e, v)
  PROVE  Idle(e, v)
<1>1. CASE KeepsRows(d, e, v)
  BY <1>1, IdleIs DEF KeepsRows
<1>2. CASE SameRows(d, e, v)
  BY <1>2 DEF SameRows, Idle
<1> QED
  BY <1>1, <1>2

\* The rows of a runtime are those its workers have.
LEMMA HeldIs ==
  ASSUME NEW d, NEW r
  PROVE  r \in Held(d) <=> \E v \in Worker : \E x \in Has(d, v) : x.row = r
  BY DEF Held, Has

\* A runtime is cut off by SwapPoolStop only, and never runs again once stopped.
KeepsUp(d, e) == e.up = d.up /\ (d.stopped => e.stopped)

\* Which steps touch whether a runtime is up or stopped.
LEMMA UpDown ==
  ASSUME TypesHold, Switching, [BNext]_vars
  PROVE  \/ runtimes' = runtimes
         \/ \E g \in DOMAIN runtimes : \E e : Put(g, e) /\ KeepsUp(runtimes[g], e)
         \/ SwapPoolStop
         \/ \E t \in Target : runtimes' = Append(runtimes, Fresh(t))
<1>0. runtimes \in Seq(Runtime) /\ state.cur \in 0 .. Len(runtimes)
  BY DEF TypesHold, StateType
<1>1. ASSUME NEW g \in DOMAIN runtimes, NEW w \in Worker, IdleTimer(g, w)
      PROVE  \E e : Put(g, e) /\ KeepsUp(runtimes[g], e)
  BY <1>0, <1>1, IdleTimerDoes DEF SameRuntime, KeepsUp
<1>2. ASSUME NEW g \in DOMAIN runtimes, NEW w \in Worker, FlushReply(g, w)
      PROVE  \E e : Put(g, e) /\ KeepsUp(runtimes[g], e)
  BY <1>0, <1>2, FlushReplyRows DEF TypesHold, KeepsUp
<1>3. ASSUME NEW b \in Body, LoadRows(b)
      PROVE  \E g \in DOMAIN runtimes : \E e : Put(g, e) /\ KeepsUp(runtimes[g], e)
  BY <1>0, <1>3, LoadRowsDoes DEF KeepsUp
<1>4. ASSUME WatcherAnswer
      PROVE  \/ runtimes' = runtimes
             \/ \E g \in DOMAIN runtimes : \E e : Put(g, e) /\ KeepsUp(runtimes[g], e)
  BY <1>4, WatcherAnswerDoes DEF Drains, SameRuntime, KeepsUp
<1>5. ASSUME SwapStop
      PROVE  \E g \in DOMAIN runtimes : \E e : Put(g, e) /\ KeepsUp(runtimes[g], e)
  BY <1>5, SwapStopDoes DEF Drains, SameRuntime, KeepsUp
<1>6. ASSUME SwapStopWorkers
      PROVE  \E g \in DOMAIN runtimes : \E e : Put(g, e) /\ KeepsUp(runtimes[g], e)
  BY <1>6, SwapStopWorkersDoes DEF Drains, SameRuntime, KeepsUp
<1>7. ASSUME SwapBuilt
      PROVE  \E t \in Target : runtimes' = Append(runtimes, Fresh(t))
  BY <1>7 DEF SwapBuilt, Switching
<1>8. ASSUME BootBuilt
      PROVE  \E t \in Target : runtimes' = Append(runtimes, Fresh(t))
  BY <1>8 DEF BootBuilt, TypesHold, Maybe
<1> QED
  BY NextCases, <1>1, <1>2, <1>3, <1>4, <1>5, <1>6, <1>7, <1>8
     DEF LoadStart, LoadStop, ApiSwitch, StaleCheck, StaleAnswer, WatcherPoll, SwapDrained,
         SwapTimeout, SwapBuildFailed, BootFailed, vars

\* The pool that stops is none the worse for a step that moves its rows about.
LEMMA StoppingKept ==
  ASSUME TypesHold, NEW g \in DOMAIN runtimes, NEW S, Stopping(g, S),
         NEW h \in DOMAIN runtimes, NEW e, Put(h, e), KeepsUp(runtimes[h], e),
         h = g => \A v \in Worker : \/ KeepsRows(runtimes[g], e, v) /\ Pumped(e, v)
                                    \/ SameRows(runtimes[g], e, v)
  PROVE  Stopping(g, S)'
<1>1. /\ runtimes[g] \in Runtime /\ e \in Runtime /\ runtimes'[h] = e
      /\ h # g => runtimes'[g] = runtimes[g]
  BY PutIs DEF TypesHold, Put
<1>2. CASE h = g
  <2>1. \A v \in Worker : Pumped(e, v)
    BY <1>2 DEF Stopping, Pumped, SameRows
  <2>2. \A v \in Worker : v \notin S => Idle(e, v)
    BY <1>1, <1>2, IdleStays DEF Stopping
  <2>3. e.stopped
    BY <1>2 DEF Stopping, KeepsUp
  <2> QED
    BY <1>1, <1>2, <2>1, <2>2, <2>3 DEF Stopping
<1>3. CASE h # g
  BY <1>1, <1>3 DEF Stopping
<1> QED
  BY <1>2, <1>3

\* No step cuts off a pool that still takes rows.
LEMMA CutOffStep ==
  ASSUME TypesHold, Switching, Shut, [BNext]_vars
  PROVE  \A g \in DOMAIN runtimes' : ~runtimes'[g].up => runtimes'[g].stopped
<1>0. runtimes \in Seq(Runtime) /\ DOMAIN runtimes = 1 .. Len(runtimes)
  BY DEF TypesHold
<1>1. CASE runtimes' = runtimes
  BY <1>1 DEF Shut
<1>2. CASE \E g \in DOMAIN runtimes : \E e : Put(g, e) /\ KeepsUp(runtimes[g], e)
  <2>0. PICK g \in DOMAIN runtimes : \E e : Put(g, e) /\ KeepsUp(runtimes[g], e)
    BY <1>2
  <2>1. PICK e : g \in DOMAIN runtimes /\ Put(g, e) /\ KeepsUp(runtimes[g], e)
    BY <2>0
  <2>2. /\ DOMAIN runtimes' = DOMAIN runtimes /\ runtimes'[g] = e
        /\ \A h \in DOMAIN runtimes : h # g => runtimes'[h] = runtimes[h]
    BY <1>0, <2>1, PutIs
  <2> QED
    BY <2>1, <2>2 DEF Shut, KeepsUp
<1>3. CASE SwapPoolStop
  <2>1. PICK e : /\ Put(swap.of, e) /\ e.stopped = runtimes[swap.of].stopped
                 /\ swap.of \in DOMAIN runtimes
    BY <1>3, SwapPoolStopDoes
  <2>2. /\ DOMAIN runtimes' = DOMAIN runtimes /\ runtimes'[swap.of] = e
        /\ \A h \in DOMAIN runtimes : h # swap.of => runtimes'[h] = runtimes[h]
    BY <1>0, <2>1, PutIs
  <2>3. runtimes[swap.of].stopped
    BY <1>3 DEF Shut, Stopping, SwapPoolStop, Drained
  <2> QED
    BY <2>1, <2>2, <2>3 DEF Shut
<1>4. CASE \E t \in Target : runtimes' = Append(runtimes, Fresh(t))
  <2>1. PICK t \in Target : runtimes' = Append(runtimes, Fresh(t))
    BY <1>4
  <2> DEFINE e == Fresh(t)
  <2>2. e \in Runtime /\ e.up
    BY FreshIs
  <2> HIDE DEF e
  <2>3. /\ DOMAIN runtimes' = 1 .. Len(runtimes) + 1 /\ Len(runtimes) \in Nat
        /\ runtimes'[Len(runtimes) + 1] = e
        /\ \A h \in DOMAIN runtimes : runtimes'[h] = runtimes[h]
    BY <1>0, <2>1, <2>2, Added DEF e
  <2> QED
    BY <1>0, <2>2, <2>3 DEF Shut
<1> QED
  BY UpDown, <1>1, <1>2, <1>3, <1>4

\* The workers of the pool that stops are seen off one by one.
LEMMA SeenOff ==
  ASSUME TypesHold, Switching, Shut, NEW h \in DOMAIN runtimes, NEW w \in Worker,
         FlushReply(h, w), swap'.at = "stopping"
  PROVE  Stopping(swap.of, swap.draining)'
<1> DEFINE g == swap.of
<1>0. /\ runtimes \in Seq(Runtime) /\ swap \in SwapType(Len(runtimes))
      /\ DOMAIN runtimes = 1 .. Len(runtimes)
  BY DEF TypesHold
<1>1. PICK e : /\ Put(h, e) /\ KeepsUp(runtimes[h], e)
               /\ runtimes[h].batch[w] # <<>> /\ Pumped(e, w) /\ DrainSeen(h, e)
               /\ \A v \in Worker \ {w} : SameRows(runtimes[h], e, v)
  BY <1>0, FlushReplyRows DEF TypesHold, KeepsUp
<1>2. swap.at = "stopping" /\ swap'.of = g
      /\ swap'.draining = IF h = g THEN swap.draining \cap Flushing(e) ELSE swap.draining
  BY <1>0, <1>1 DEF DrainSeen, SwapType
<1>3. g \in DOMAIN runtimes /\ runtimes[g] \in Runtime /\ Stopping(g, swap.draining)
  <2>1. g \in 0 .. Len(runtimes) /\ g # 0
    BY <1>0, <1>2 DEF SwapType, Switching
  <2> QED
    BY <1>0, <1>2, <2>1 DEF Shut
<1>4. e \in Runtime /\ runtimes'[h] = e /\ (h # g => runtimes'[g] = runtimes[g])
  BY <1>0, <1>1, <1>3, PutIs DEF Put
<1>5. CASE h = g
  <2>1. w \in swap.draining
    BY <1>1, <1>3, <1>5 DEF Stopping, Idle
  <2>2. \A v \in Worker : Pumped(e, v)
    BY <1>1, <1>3, <1>5 DEF Stopping, Pumped, SameRows
  <2>3. ASSUME NEW v \in Worker, v \notin swap'.draining PROVE Idle(e, v)
    <3>1. CASE v \in swap.draining
      BY <1>2, <1>5, <2>2, <2>3, <3>1 DEF Flushing, Pumped, Idle
    <3>2. CASE v \notin swap.draining
      BY <1>1, <1>3, <1>5, <2>1, <3>2 DEF Stopping, SameRows, Idle
    <3> QED
      BY <3>1, <3>2
  <2>4. e.stopped
    BY <1>1, <1>3, <1>5 DEF Stopping, KeepsUp
  <2> QED
    BY <1>2, <1>4, <1>5, <2>2, <2>3, <2>4 DEF Stopping
<1>6. CASE h # g
  BY <1>2, <1>3, <1>4, <1>6 DEF Stopping
<1> QED
  BY <1>5, <1>6

\* Every step leaves the rows of a stopping pool with the workers waited for.
LEMMA StoppingStep ==
  ASSUME TypesHold, Switching, Shut, [BNext]_vars, swap'.at = "stopping"
  PROVE  Stopping(swap.of, swap.draining)'
<1> DEFINE g == swap.of
           Good == Stopping(g, swap.draining)'
<1>0. /\ runtimes \in Seq(Runtime) /\ state.cur \in 0 .. Len(runtimes)
      /\ swap \in SwapType(Len(runtimes)) /\ DOMAIN runtimes = 1 .. Len(runtimes)
  BY DEF TypesHold, StateType
<1>1. ASSUME swap.at = "stopping"
      PROVE  g \in DOMAIN runtimes /\ runtimes[g] \in Runtime /\ Stopping(g, swap.draining)
  <2>1. g \in 0 .. Len(runtimes) /\ g # 0
    BY <1>0, <1>1 DEF SwapType, Switching
  <2> QED
    BY <1>0, <1>1, <2>1 DEF Shut
<1>2. ASSUME UNCHANGED swap, runtimes' = runtimes PROVE Good
  BY <1>1, <1>2 DEF Stopping
<1>3. ASSUME UNCHANGED swap, NEW h \in DOMAIN runtimes, NEW e, Put(h, e), KeepsUp(runtimes[h], e),
             h = g => \A v \in Worker : \/ KeepsRows(runtimes[g], e, v) /\ Pumped(e, v)
                                        \/ SameRows(runtimes[g], e, v)
      PROVE  Good
  BY <1>1, <1>3, StoppingKept DEF Stopping
<1>4. ASSUME NEW h \in DOMAIN runtimes, NEW w \in Worker, IdleTimer(h, w) PROVE Good
  <2>1. PICK e : /\ Put(h, e) /\ SameRuntime(runtimes[h], e) /\ Pumped(e, w)
                 /\ \A v \in Worker : /\ KeepsRows(runtimes[h], e, v)
                                      /\ v # w => SameRows(runtimes[h], e, v)
    BY <1>0, <1>4, IdleTimerDoes
  <2>2. UNCHANGED swap
    BY <1>4 DEF IdleTimer
  <2> QED
    BY <1>3, <2>1, <2>2 DEF SameRuntime, KeepsUp
<1>5. ASSUME NEW b \in Body, LoadRows(b) PROVE Good
  <2> DEFINE d == runtimes[state.cur]
             e == enqueue(d, RowsOf[b])
  <2>1. /\ state.cur \in DOMAIN runtimes /\ d \in Runtime /\ Put(state.cur, e)
        /\ e.up = d.up /\ e.stopped = d.stopped
    BY <1>0, <1>5, LoadRowsDoes
  <2>2. UNCHANGED swap
    BY <1>5 DEF LoadRows
  <2>3. d.stopped => \A v \in Worker : SameRows(d, e, v)
    BY <2>1, BodyRows, Counted
  <2> HIDE DEF e
  <2>4. state.cur = g => d.stopped
    BY <1>1, <2>2 DEF Stopping
  <2> QED
    BY <1>3, <2>1, <2>2, <2>3, <2>4 DEF KeepsUp
<1>6. ASSUME WatcherAnswer PROVE Good
  <2>1. swap' # [NoSwap EXCEPT !.at = "build", !.to = watch.poll.t]
    BY DEF NoSwap
  <2> HIDE DEF Good
  <2> QED
    BY <1>2, <1>6, <2>1, WatcherAnswerDoes
<1>7. ASSUME SwapStopWorkers PROVE Good
  <2>1. PICK d, e : /\ swap.of \in DOMAIN runtimes /\ d.stopped /\ Drains(swap.of, d, e)
                    /\ swap' = [at |-> "stopping", to |-> swap.to, of |-> swap.of,
                                draining |-> Flushing(e)]
    BY <1>7, SwapStopWorkersDoes
  <2>2. e.stopped /\ \A v \in Worker : Pumped(e, v)
    BY <2>1 DEF Drains, SameRuntime
  <2>3. runtimes'[swap.of] = e
    BY <1>0, <2>1, PutIs DEF Drains
  <2>4. swap'.of = swap.of /\ swap'.draining = Flushing(e)
    BY <2>1
  <2>5. \A v \in Worker : v \notin Flushing(e) => Idle(e, v)
    BY <2>2 DEF Flushing, Pumped, Idle
  <2> QED
    BY <2>2, <2>3, <2>4, <2>5 DEF Stopping
<1>8. ASSUME UNCHANGED swap, NEW t \in Target, runtimes' = Append(runtimes, Fresh(t)) PROVE Good
  <2> DEFINE e == Fresh(t)
  <2>1. e \in Runtime
    BY FreshIs
  <2> HIDE DEF e
  <2>2. runtimes'[g] = runtimes[g]
    BY <1>0, <1>1, <1>8, <2>1, Added DEF e
  <2> QED
    BY <1>1, <1>8, <2>2 DEF Stopping
<1>9. ASSUME BootBuilt PROVE Good
  BY <1>8, <1>9 DEF BootBuilt, TypesHold, Maybe
<1>10. /\ ~SwapStop /\ ~SwapDrained /\ ~SwapPoolStop /\ ~SwapTimeout /\ ~SwapBuilt
       /\ ~SwapBuildFailed
  <2>1. ~SwapStop
    BY SwapStopDoes
  <2>2. ~SwapDrained /\ ~SwapPoolStop
    BY <1>0 DEF SwapDrained, SwapPoolStop, SwapType
  <2>3. ~SwapTimeout /\ ~SwapBuilt /\ ~SwapBuildFailed
    BY DEF SwapTimeout, SwapBuilt, SwapBuildFailed, NoSwap
  <2> QED
    BY <2>1, <2>2, <2>3
<1>11. ASSUME NEW h \in DOMAIN runtimes, NEW w \in Worker, FlushReply(h, w) PROVE Good
  BY <1>11, SeenOff
<1>12. ASSUME LoadStart \/ LoadStop \/ StaleCheck \/ StaleAnswer \/ WatcherPoll \/ BootFailed
              \/ (\E t \in Target : ApiSwitch(t)) \/ UNCHANGED vars
       PROVE  Good
  BY <1>2, <1>12 DEF LoadStart, LoadStop, ApiSwitch, StaleCheck, StaleAnswer, WatcherPoll,
                     BootFailed, vars
<1> HIDE DEF Good
<1>13. Good
  BY NextCases, <1>4, <1>5, <1>6, <1>7, <1>9, <1>10, <1>11, <1>12
<1> QED
  BY <1>13 DEF Good

\* Every step leaves cut-off pools stopped and stopping pools accounted for.
LEMMA ShutStep ==
  ASSUME TypesHold, Switching, Shut, [BNext]_vars
  PROVE  Shut'
  BY CutOffStep, StoppingStep DEF Shut

\* The row r is in the Redis t, given up for it, or held by a pool that reaches it.
Kept(r, t) ==
  \/ r \in stored[t]
  \/ <<r, t>> \in GivenUp
  \/ \E g \in DOMAIN runtimes :
       runtimes[g].up /\ runtimes[g].target = t /\ r \in Held(runtimes[g])

\* A step that puts e for the h-th runtime, and keeps the rows of the others.
LEMMA KeptPut ==
  ASSUME TypesHold, NEW h \in DOMAIN runtimes, NEW e, Put(h, e),
         e.target = runtimes[h].target, e.up = runtimes[h].up,
         NEW t \in Target, NEW r, Kept(r, t),
         stored[t] \subseteq stored'[t], GivenUp \subseteq GivenUp',
         \A v \in Worker : \A x \in Has(runtimes[h], v) : Settled(runtimes[h], e, x)
  PROVE  Kept(r, t)'
<1>0. runtimes \in Seq(Runtime)
  BY DEF TypesHold
<1>1. /\ DOMAIN runtimes' = DOMAIN runtimes /\ runtimes'[h] = e
      /\ \A g \in DOMAIN runtimes : g # h => runtimes'[g] = runtimes[g]
  BY <1>0, PutIs
<1>2. CASE r \in stored[t] \/ <<r, t>> \in GivenUp
  BY <1>2 DEF Kept
<1>3. ASSUME NEW g \in DOMAIN runtimes, runtimes[g].up, runtimes[g].target = t,
             r \in Held(runtimes[g])
      PROVE  Kept(r, t)'
  <2>1. CASE g # h
    BY <1>1, <1>3, <2>1 DEF Kept
  <2>2. CASE g = h
    <3>0. PICK v \in Worker : \E x \in Has(runtimes[h], v) : x.row = r
      BY <1>3, <2>2, HeldIs
    <3>1. PICK x \in Has(runtimes[h], v) : x.row = r
      BY <3>0
    <3>2. Settled(runtimes[h], e, x)
      OBVIOUS
    <3>3. CASE \E u \in Worker : \E y \in Has(e, u) : y.row = x.row
      <4>1. r \in Held(e)
        BY <3>1, <3>3, HeldIs
      <4> QED
        BY <1>1, <1>3, <2>2, <4>1 DEF Kept
    <3>4. CASE r \in stored'[t] \/ <<r, t>> \in GivenUp'
      BY <3>4 DEF Kept
    <3> QED
      BY <1>3, <2>2, <3>1, <3>2, <3>3, <3>4 DEF Settled
  <2> QED
    BY <2>1, <2>2
<1> QED
  BY <1>2, <1>3 DEF Kept

\* A step loses none of the rows that are kept.
LEMMA KeptStep ==
  ASSUME TypesHold, Switching, Shut, [BNext]_vars, NEW t \in Target, NEW r, Kept(r, t)
  PROVE  Kept(r, t)'
<1>0. /\ runtimes \in Seq(Runtime) /\ state.cur \in 0 .. Len(runtimes)
      /\ DOMAIN runtimes = 1 .. Len(runtimes)
      /\ stored \in [Target -> SUBSET Row]
      /\ dead \subseteq Row \X Target /\ lost \subseteq Row \X Target
  BY DEF TypesHold, StateType
<1>1. stored[t] \subseteq stored'[t] /\ GivenUp \subseteq GivenUp'
  BY RowTypesStep DEF GivenUp
<1>2. ASSUME runtimes' = runtimes PROVE Kept(r, t)'
  BY <1>1, <1>2 DEF Kept
<1>3. ASSUME NEW h \in DOMAIN runtimes, NEW e, Put(h, e),
             e.target = runtimes[h].target, e.up = runtimes[h].up,
             \A v \in Worker : Has(runtimes[h], v) \subseteq Has(e, v)
      PROVE  Kept(r, t)'
  <2>1. \A v \in Worker : \A x \in Has(runtimes[h], v) : Settled(runtimes[h], e, x)
    BY <1>3 DEF Settled
  <2> QED
    BY <1>1, <1>3, <2>1, KeptPut
<1>4. ASSUME NEW h \in DOMAIN runtimes, NEW w \in Worker, IdleTimer(h, w) PROVE Kept(r, t)'
  <2>1. PICK e : /\ Put(h, e) /\ SameRuntime(runtimes[h], e)
                 /\ \A v \in Worker : KeepsRows(runtimes[h], e, v)
    BY <1>0, <1>4, IdleTimerDoes
  <2> QED
    BY <1>3, <2>1 DEF SameRuntime, KeepsRows
<1>5. ASSUME NEW h \in DOMAIN runtimes, NEW w \in Worker, FlushReply(h, w) PROVE Kept(r, t)'
  <2>1. PICK e : /\ Put(h, e) /\ e.target = runtimes[h].target /\ e.up = runtimes[h].up
                 /\ \A v \in Worker \ {w} : SameRows(runtimes[h], e, v)
                 /\ \A x \in Has(runtimes[h], w) : Settled(runtimes[h], e, x)
    BY <1>0, <1>5, FlushReplyRows
  <2>2. ASSUME NEW v \in Worker, NEW x \in Has(runtimes[h], v) PROVE Settled(runtimes[h], e, x)
    <3>1. CASE v = w
      BY <2>1, <2>2, <3>1
    <3>2. CASE v # w
      <4>1. Has(e, v) = Has(runtimes[h], v)
        BY <2>1, <3>2 DEF SameRows, Has
      <4> QED
        BY <2>2, <4>1 DEF Settled
    <3> QED
      BY <3>1, <3>2
  <2> QED
    BY <1>1, <2>1, <2>2, KeptPut
<1>6. ASSUME NEW b \in Body, LoadRows(b) PROVE Kept(r, t)'
  <2> DEFINE d == runtimes[state.cur]
             e == enqueue(d, RowsOf[b])
  <2>1. /\ state.cur \in DOMAIN runtimes /\ d \in Runtime /\ Put(state.cur, e)
        /\ e.target = d.target /\ e.up = d.up
    BY <1>0, <1>6, LoadRowsDoes
  <2>2. \A v \in Worker : Has(d, v) \subseteq Has(e, v)
    <3>1. CASE d.stopped
      BY <2>1, <3>1, BodyRows, Counted DEF SameRows, Has
    <3>2. CASE ~d.stopped
      BY <2>1, <3>2, BodyRows, Enqueued
    <3> QED
      BY <3>1, <3>2
  <2> HIDE DEF e
  <2> QED
    BY <1>3, <2>1, <2>2
<1>7. ASSUME NEW h \in DOMAIN runtimes, NEW e, Drains(h, runtimes[h], e) PROVE Kept(r, t)'
  BY <1>3, <1>7 DEF Drains, SameRuntime, KeepsRows
<1>8. ASSUME WatcherAnswer PROVE Kept(r, t)'
  BY <1>2, <1>7, <1>8, WatcherAnswerDoes
<1>9. ASSUME SwapStop PROVE Kept(r, t)'
  BY <1>7, <1>9, SwapStopDoes
<1>10. ASSUME SwapStopWorkers PROVE Kept(r, t)'
  <2>1. PICK d, e : /\ swap.of \in DOMAIN runtimes
                    /\ SameBut(runtimes[swap.of], d) /\ d.up = runtimes[swap.of].up
                    /\ Drains(swap.of, d, e)
    BY <1>10, SwapStopWorkersDoes
  <2>2. \A v \in Worker : Has(d, v) = Has(runtimes[swap.of], v)
    BY <2>1 DEF SameBut, Has
  <2>3. Put(swap.of, e) /\ e.target = runtimes[swap.of].target /\ e.up = runtimes[swap.of].up
    BY <2>1 DEF SameBut, Drains, SameRuntime
  <2>4. \A v \in Worker : Has(e, v) = Has(d, v)
    BY <2>1 DEF Drains, KeepsRows
  <2> QED
    BY <1>3, <2>1, <2>2, <2>3, <2>4
<1>11. ASSUME SwapPoolStop PROVE Kept(r, t)'
  <2>1. PICK e : swap.of \in DOMAIN runtimes /\ Put(swap.of, e)
    BY <1>11, SwapPoolStopDoes
  <2>2. /\ DOMAIN runtimes' = DOMAIN runtimes
        /\ \A g \in DOMAIN runtimes : g # swap.of => runtimes'[g] = runtimes[g]
    BY <1>0, <2>1, PutIs
  <2>3. r \notin Held(runtimes[swap.of])
    <3>1. \A v \in Worker : Idle(runtimes[swap.of], v)
      BY <1>11 DEF SwapPoolStop, Drained, Shut, Stopping
    <3>2. \A v \in Worker : Has(runtimes[swap.of], v) = {}
      BY <1>0, <2>1, <3>1, IdleIs
    <3> QED
      BY <3>2, HeldIs
  <2> QED
    BY <1>1, <2>2, <2>3 DEF Kept
<1>12. ASSUME NEW u \in Target, runtimes' = Append(runtimes, Fresh(u)) PROVE Kept(r, t)'
  <2> DEFINE e == Fresh(u)
  <2>1. e \in Runtime
    BY FreshIs
  <2> HIDE DEF e
  <2>2. /\ DOMAIN runtimes \subseteq DOMAIN runtimes'
        /\ \A g \in DOMAIN runtimes : runtimes'[g] = runtimes[g]
    BY <1>0, <1>12, <2>1, Added, RuntimesKept DEF e
  <2> QED
    BY <1>1, <2>2 DEF Kept
<1>13. ASSUME SwapBuilt \/ BootBuilt PROVE Kept(r, t)'
  <2>1. \E u \in Target : runtimes' = Append(runtimes, Fresh(u))
    BY <1>13 DEF SwapBuilt, BootBuilt, Switching, TypesHold, Maybe
  <2> QED
    BY <1>12, <2>1
<1>14. ASSUME \/ LoadStart \/ LoadStop \/ StaleCheck \/ StaleAnswer \/ WatcherPoll
              \/ (\E u \in Target : ApiSwitch(u)) \/ SwapDrained \/ SwapTimeout
              \/ SwapBuildFailed \/ BootFailed \/ UNCHANGED vars
       PROVE  Kept(r, t)'
  BY <1>2, <1>14 DEF LoadStart, LoadStop, ApiSwitch, StaleCheck, StaleAnswer, WatcherPoll,
                     SwapDrained, SwapTimeout, SwapBuildFailed, BootFailed, vars
<1> QED
  BY NextCases, <1>4, <1>5, <1>6, <1>8, <1>9, <1>10, <1>11, <1>13, <1>14

\* A row that is taken is kept from then on.
LEMMA TakenIsKept ==
  ASSUME TypesHold, Switching, Tied, Shut, ~raced, NEW b \in Body, LoadRows(b),
         ~runtimes[state.cur].stopped
  PROVE  /\ state.bound \in Target
         /\ \A r \in Range(RowsOf[b]) : Kept(r, state.bound)'
<1> DEFINE d == runtimes[state.cur]
           e == enqueue(d, RowsOf[b])
<1>0. runtimes \in Seq(Runtime) /\ state.cur \in 0 .. Len(runtimes)
  BY DEF TypesHold, StateType
<1>1. /\ state.cur # 0 /\ state.cur \in DOMAIN runtimes /\ d \in Runtime /\ Put(state.cur, e)
      /\ e.target = d.target /\ e.up = d.up
  BY <1>0, LoadRowsDoes
<1>2. d.target = state.bound /\ d.target \in Target
  BY <1>1, RuntimeParts, Sizes DEF Tied
<1>3. d.up
  BY <1>1 DEF Shut
<1>4. state'.bound = state.bound
  BY DEF LoadRows
<1>5. ASSUME NEW r \in Range(RowsOf[b]) PROVE Kept(r, state.bound)'
  <2> DEFINE seq == RowsOf[b]
  <2>1. seq \in Seq(Row)
    BY BodyRows
  <2>2. PICK i \in 1 .. Len(seq) : seq[i] = r
    <3> HIDE DEF seq
    <3> QED
      BY <1>5, <2>1, RangeIs DEF seq
  <2>3. PICK v \in Worker : \E x \in Has(e, v) : x.row = r
    BY <1>1, <2>1, <2>2, Enqueued
  <2>4. r \in Held(e)
    BY <2>3, HeldIs
  <2> HIDE DEF e
  <2>5. runtimes'[state.cur] = e /\ DOMAIN runtimes' = DOMAIN runtimes
    BY <1>0, <1>1, PutIs
  <2> QED
    BY <1>1, <1>2, <1>3, <1>4, <2>4, <2>5 DEF Kept
<1> QED
  BY <1>2, <1>5

\* What is owed is for a Redis there is, and kept.
Owing == ~raced => \A o \in owed : o[2] \in Target /\ Kept(o[1], o[2])

\* Every step leaves what is owed kept.
LEMMA OwingStep ==
  ASSUME TypesHold, Switching, Tied, Shut, Owing, [BNext]_vars
  PROVE  Owing'
<1> SUFFICES ASSUME ~raced' PROVE \A o \in owed' : o[2] \in Target /\ Kept(o[1], o[2])'
  BY DEF Owing
<1> ~raced
  BY RacedStays
<1>1. ASSUME NEW o \in owed PROVE o[2] \in Target /\ Kept(o[1], o[2])'
  BY KeptStep DEF Owing
<1>2. CASE owed' = owed
  BY <1>1, <1>2
<1>3. CASE owed' # owed
  <2>1. PICK b \in Body : LoadRows(b)
    BY <1>3, Frame DEF rows
  <2>2. /\ ~runtimes[state.cur].stopped
        /\ owed' = owed \cup {<<r, state.bound>> : r \in Range(RowsOf[b])}
    BY <1>3, <2>1 DEF LoadRows, rows
  <2>3. /\ state.bound \in Target
        /\ \A r \in Range(RowsOf[b]) : Kept(r, state.bound)'
    BY <2>1, <2>2, TakenIsKept
  <2>4. state'.bound = state.bound
    BY <2>1 DEF LoadRows
  <2> QED
    BY <1>1, <2>2, <2>3, <2>4
<1> QED
  BY <1>2, <1>3

\* A row answered 202 is stored in, or dead-lettered for, the Redis the loader
\* named, or was given up with a dead letter that Redis refused, or is held by a
\* pool that reaches it, through any number of switches, drains, timeouts and
\* retries, unless a swap was begun before the runtime of the boot was wired.
THEOREM AcceptedKept == BSpec => []AcceptedIsKept
<1> DEFINE I == TypesHold /\ Switching /\ Booting /\ Tied /\ Loud
           J == Shut /\ Owing
<1>1. BInit => J
  BY DEF BInit, Shut, Owing, NoSwap
<1>2. I /\ J /\ [BNext]_vars => J'
  BY ShutStep, OwingStep
<1>3. I /\ J => AcceptedIsKept
  <2>1. SUFFICES ASSUME TypesHold, Owing PROVE AcceptedIsKept
    OBVIOUS
  <2>2. ASSUME NEW o \in owed PROVE o = <<o[1], o[2]>>
    BY <2>1 DEF TypesHold
  <2> QED
    BY <2>1, <2>2 DEF Owing, Kept, GivenUp, AcceptedIsKept
<1>4. BSpec => []I
  BY BoundHolds
<1> HIDE DEF I, J
<1> QED
  BY <1>1, <1>2, <1>3, <1>4, PTL DEF BSpec
===============================================================================
