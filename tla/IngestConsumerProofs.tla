-------------------------- MODULE IngestConsumerProofs --------------------------
(***************************************************************************)
(* Proofs about IngestConsumer, for any number of runners, rows, values,   *)
(* retries and faults: its types with what each runner knows of the row in *)
(* its hands, and that what is stored agrees with the rollup and with what *)
(* was acknowledged.                                                       *)
(*                                                                         *)
(* The rollup is a sum over the rows, and what is still owed a sum over    *)
(* the runners between phase 1 and phase 2.  The first part proves what    *)
(* SumFunctionOnSet, a fold over a finite set, is: each sum is a term and  *)
(* the sum of the rest, whichever term is taken first.  An induction over  *)
(* the sets would need a theorem with an operator parameter; the proofs    *)
(* take a counterexample of least cardinality instead.                     *)
(***************************************************************************)
EXTENDS IngestConsumer, WellFoundedInduction, FiniteSetTheorems, TLAPS

\* A set of numbers that is not empty has a least one.
LEMMA Least ==
  ASSUME NEW T, T \subseteq Nat, T # {}
  PROVE  \E n \in T : \A m \in T : n <= m
<1>1. \E x \in T : \A y \in T : ~ (<<y, x>> \in OpToRel(<, Nat))
  BY NatLessThanWellFounded, WFMin
<1>2. PICK x \in T : \A y \in T : ~(y < x)
  BY <1>1 DEF OpToRel
<1> QED
  BY <1>2

\* The element a fold takes first.
Any(s) == CHOOSE x \in s : TRUE

\* The values a sum goes through.
Walks(g, f, D) ==
  g = [s \in SUBSET D |-> IF s = {} THEN 0 ELSE f[Any(s)] + g[s \ {Any(s)}]]

LEMMA SumWalks ==
  ASSUME NEW f, NEW S
  PROVE  SumFunctionOnSet(f, S) = (CHOOSE g : Walks(g, f, S))[S]
  BY DEF SumFunctionOnSet, FoldFunctionOnSet, MapThenFoldSet, Any, Walks

\* A function has a sum over a finite set where its values are integers.
Summable(f, D) == IsFiniteSet(D) /\ \A x \in D : f[x] \in Int

LEMMA AnyIs == ASSUME NEW s, s # {} PROVE Any(s) \in s
  BY DEF Any

\* A set is smaller without one of its elements.
LEMMA Smaller ==
  ASSUME NEW D, IsFiniteSet(D), NEW s \in SUBSET D, NEW x \in s
  PROVE  /\ s \ {x} \in SUBSET D /\ IsFiniteSet(s)
         /\ Cardinality(s) \in Nat /\ Cardinality(s \ {x}) \in Nat
         /\ Cardinality(s \ {x}) = Cardinality(s) - 1
<1>1. IsFiniteSet(s) /\ IsFiniteSet(s \ {x})
  BY FS_Subset
<1>2. Cardinality(s \ {x}) = Cardinality(s) - 1
  BY <1>1, FS_RemoveElement
<1> QED
  BY <1>1, <1>2, FS_CardinalityType

\* There is a walk: among the sizes up to which there is none, one is the least.
LEMMA WalkExists ==
  ASSUME NEW D, NEW f, Summable(f, D)
  PROVE  \E g \in [SUBSET D -> Int] : Walks(g, f, D)
<1> DEFINE Size(s) == Cardinality(s)
           From(g, s) == IF s = {} THEN 0 ELSE f[Any(s)] + g[s \ {Any(s)}]
           UpTo(g, n) == \A s \in SUBSET D : Size(s) <= n => g[s] = From(g, s)
           T == {n \in Nat : ~\E g \in [SUBSET D -> Int] : UpTo(g, n)}
<1> IsFiniteSet(D) /\ \A x \in D : f[x] \in Int
  BY DEF Summable
<1>0. \A s \in SUBSET D : Size(s) \in Nat /\ (Size(s) = 0 <=> s = {})
  BY FS_Subset, FS_CardinalityType, FS_EmptySet
<1>1. SUFFICES T = {}
  <2>1. PICK g \in [SUBSET D -> Int] : UpTo(g, Size(D))
    BY <1>0, <1>1
  <2>2. \A s \in SUBSET D : Size(s) <= Size(D)
    BY FS_Subset
  <2>3. \A s \in SUBSET D : g[s] = From(g, s)
    BY <2>1, <2>2
  <2> QED
    BY <2>1, <2>3 DEF Walks
<1>2. SUFFICES ASSUME T # {} PROVE FALSE
  OBVIOUS
<1>3. PICK n \in T : \A m \in T : n <= m
  BY <1>2, Least
<1> HIDE DEF Size, From
<1>4. n # 0
  <2>1. SUFFICES ASSUME n = 0 PROVE FALSE
    OBVIOUS
  <2> DEFINE g == [s \in SUBSET D |-> 0]
  <2>2. \A s \in SUBSET D : Size(s) <= n => s = {}
    BY <1>0, <2>1
  <2>3. g \in [SUBSET D -> Int] /\ UpTo(g, n)
    BY <2>2 DEF From
  <2> HIDE DEF g, UpTo
  <2>4. n \notin T
    BY <2>3
  <2> QED
    BY <2>4
<1>5. PICK g \in [SUBSET D -> Int] : UpTo(g, n - 1)
  <2>1. n - 1 \in Nat /\ ~(n <= n - 1)
    BY <1>3, <1>4
  <2>2. n - 1 \notin T
    BY <1>3, <2>1
  <2> QED
    BY <2>1, <2>2
<1> DEFINE h == [s \in SUBSET D |-> IF Size(s) <= n - 1 THEN g[s] ELSE From(g, s)]
<1>6. \A s \in SUBSET D : s # {} => /\ Any(s) \in D /\ s \ {Any(s)} \in SUBSET D
                                  /\ Size(s \ {Any(s)}) = Size(s) - 1
  BY AnyIs, Smaller DEF Size
<1>7. ASSUME NEW s \in SUBSET D PROVE From(g, s) \in Int
  <2>1. ASSUME s # {} PROVE f[Any(s)] \in Int /\ g[s \ {Any(s)}] \in Int
    BY <1>6, <2>1
  <2> QED
    BY <2>1 DEF From
<1>8. h \in [SUBSET D -> Int]
  BY <1>7
<1>9. ASSUME NEW s \in SUBSET D, Size(s) <= n
      PROVE  h[s] = From(h, s)
  <2>1. CASE s = {}
    <3>1. Size(s) <= n - 1
      BY <2>1, <1>0, <1>3, <1>4
    <3> QED
      BY <2>1, <3>1, <1>5 DEF From
  <2>2. CASE s # {}
    <3>1. s \ {Any(s)} \in SUBSET D /\ Size(s \ {Any(s)}) <= n - 1
      BY <2>2, <1>0, <1>3, <1>6, <1>9
    <3>2. h[s \ {Any(s)}] = g[s \ {Any(s)}]
      BY <3>1
    <3>3. From(h, s) = From(g, s)
      BY <3>2, <2>2 DEF From
    <3>4. h[s] = From(g, s)
      BY <1>5
    <3> QED
      BY <3>3, <3>4
  <2> QED
    BY <2>1, <2>2
<1>10. UpTo(h, n)
  BY <1>9
<1> QED
  BY <1>3, <1>8, <1>10

\* Walks of the same values agree.
LEMMA WalksAgree ==
  ASSUME NEW D, IsFiniteSet(D), NEW E, IsFiniteSet(E), NEW f, NEW e,
         NEW g, Walks(g, f, D), NEW h, Walks(h, e, E),
         \A x \in D \cap E : f[x] = e[x]
  PROVE  \A s \in SUBSET (D \cap E) : g[s] = h[s]
<1> DEFINE B == {s \in SUBSET (D \cap E) : g[s] # h[s]}
           T == {Cardinality(s) : s \in B}
<1>1. SUFFICES ASSUME B # {} PROVE FALSE
  OBVIOUS
<1>2. \A s \in SUBSET (D \cap E) : IsFiniteSet(s) /\ Cardinality(s) \in Nat
  BY FS_Subset, FS_CardinalityType
<1>3. PICK s \in B : \A t \in B : Cardinality(s) <= Cardinality(t)
  <2>1. T \subseteq Nat /\ T # {}
    BY <1>1, <1>2
  <2>2. PICK n \in T : \A m \in T : n <= m
    BY <2>1, Least
  <2> QED
    BY <2>2
<1>4. s # {}
  BY <1>3 DEF Walks
<1>5. Any(s) \in s
  BY <1>4, AnyIs
<1>6. s \ {Any(s)} \in SUBSET (D \cap E) /\ ~(Cardinality(s) <= Cardinality(s \ {Any(s)}))
  BY <1>2, <1>3, <1>5, Smaller
<1>7. g[s \ {Any(s)}] = h[s \ {Any(s)}]
  BY <1>3, <1>6
<1>8. g[s] = f[Any(s)] + g[s \ {Any(s)}] /\ h[s] = e[Any(s)] + h[s \ {Any(s)}]
  BY <1>3, <1>4 DEF Walks
<1> QED
  BY <1>3, <1>5, <1>7, <1>8

\* The sums over the subsets of a set are those of one walk.
SumsOf(g, f, D) ==
  /\ g \in [SUBSET D -> Int] /\ Walks(g, f, D)
  /\ \A s \in SUBSET D : SumFunctionOnSet(f, s) = g[s]

LEMMA SumIs ==
  ASSUME NEW D, NEW f, Summable(f, D)
  PROVE  \E g : SumsOf(g, f, D)
<1> IsFiniteSet(D)
  BY DEF Summable
<1>1. PICK g \in [SUBSET D -> Int] : Walks(g, f, D)
  BY WalkExists
<1>2. ASSUME NEW s \in SUBSET D PROVE SumFunctionOnSet(f, s) = g[s]
  <2>1. IsFiniteSet(s) /\ Summable(f, s)
    BY FS_Subset DEF Summable
  <2>2. \E h : Walks(h, f, s)
    BY <2>1, WalkExists
  <2>3. Walks(CHOOSE h : Walks(h, f, s), f, s)
    BY <2>2
  <2>4. (CHOOSE h : Walks(h, f, s))[s] = g[s]
    BY <1>1, <2>1, <2>3, WalksAgree
  <2> QED
    BY <2>4, SumWalks
<1> QED
  BY <1>1, <1>2 DEF SumsOf

\* A sum by any of its terms.
LEMMA SumTerm ==
  ASSUME NEW D, NEW f, Summable(f, D), NEW s \in SUBSET D
  PROVE  /\ SumFunctionOnSet(f, s) \in Int
         /\ SumFunctionOnSet(f, {}) = 0
         /\ \A x \in s : SumFunctionOnSet(f, s) = f[x] + SumFunctionOnSet(f, s \ {x})
<1>1. PICK g : SumsOf(g, f, D)
  BY SumIs
<1> IsFiniteSet(D) /\ \A x \in D : f[x] \in Int
  BY DEF Summable
<1> DEFINE B == {t \in SUBSET D : \E x \in t : g[t] # f[x] + g[t \ {x}]}
           T == {Cardinality(t) : t \in B}
<1>2. ASSUME B # {} PROVE FALSE
  <2>1. \A t \in SUBSET D : IsFiniteSet(t) /\ Cardinality(t) \in Nat
    BY FS_Subset, FS_CardinalityType
  <2>2. PICK t \in B : \A u \in B : Cardinality(t) <= Cardinality(u)
    <3>1. T \subseteq Nat /\ T # {}
      BY <1>2, <2>1
    <3>2. PICK n \in T : \A m \in T : n <= m
      BY <3>1, Least
    <3> QED
      BY <3>2
  <2>3. PICK x \in t : g[t] # f[x] + g[t \ {x}]
    BY <2>2
  <2> DEFINE y == Any(t)
  <2>4. y \in t
    BY <2>3, AnyIs
  <2>5. g[t] = f[y] + g[t \ {y}]
    BY <1>1, <2>2, <2>3 DEF Walks, SumsOf
  <2>6. x # y
    BY <2>3, <2>5
  <2> HIDE DEF y
  <2>7. ASSUME NEW z \in t, NEW w \in t \ {z} PROVE g[t \ {z}] = f[w] + g[(t \ {z}) \ {w}]
    <3>1. t \ {z} \in SUBSET D /\ ~(Cardinality(t) <= Cardinality(t \ {z}))
      BY <2>1, <2>2, Smaller
    <3> QED
      BY <2>2, <3>1
  <2>8. g[t \ {y}] = f[x] + g[(t \ {y}) \ {x}]
    BY <2>4, <2>6, <2>7
  <2>9. g[t \ {x}] = f[y] + g[(t \ {x}) \ {y}]
    BY <2>4, <2>6, <2>7
  <2>10. (t \ {x}) \ {y} = (t \ {y}) \ {x} /\ (t \ {x}) \ {y} \in SUBSET D
    BY <2>2
  <2>11. f[x] \in Int /\ f[y] \in Int /\ g[(t \ {x}) \ {y}] \in Int
    BY <1>1, <2>2, <2>3, <2>4, <2>10 DEF SumsOf
  <2> DEFINE c == g[(t \ {y}) \ {x}]
  <2>13. g[t] = f[y] + (f[x] + c) /\ g[t \ {x}] = f[y] + c /\ c \in Int
    BY <2>5, <2>8, <2>9, <2>10, <2>11
  <2> HIDE DEF c
  <2>12. g[t] = f[x] + g[t \ {x}]
    BY <2>11, <2>13
  <2> QED
    BY <2>3, <2>12
<1>3. g[{}] = 0
  BY <1>1 DEF Walks, SumsOf
<1>4. \A x \in s : g[s] = f[x] + g[s \ {x}]
  BY <1>2
<1> QED
  BY <1>1, <1>3, <1>4 DEF SumsOf

\* A sum is that of its terms, whatever function has them.
LEMMA SumSame ==
  ASSUME NEW D, NEW f, NEW e, Summable(f, D), \A x \in D : f[x] = e[x]
  PROVE  SumFunctionOnSet(f, D) = SumFunctionOnSet(e, D)
<1>1. PICK g : SumsOf(g, f, D)
  BY SumIs
<1> IsFiniteSet(D) /\ Summable(e, D)
  BY DEF Summable
<1>2. PICK h : SumsOf(h, e, D)
  BY SumIs
<1>3. \A s \in SUBSET (D \cap D) : g[s] = h[s]
  BY <1>1, <1>2, WalksAgree DEF SumsOf
<1> QED
  BY <1>1, <1>2, <1>3 DEF SumsOf

\* A sum of nothings is nothing.
LEMMA SumOfZeros ==
  ASSUME NEW D, NEW f, IsFiniteSet(D), \A x \in D : f[x] = 0
  PROVE  SumFunctionOnSet(f, D) = 0
<1>1. Summable(f, D)
  BY DEF Summable
<1>2. PICK g : SumsOf(g, f, D)
  BY <1>1, SumIs
<1>3. \A s \in SUBSET D : s # {} => f[Any(s)] = 0 /\ s \ {Any(s)} \in SUBSET D
  BY AnyIs
<1> DEFINE z == [x \in D |-> 0]
           h == [s \in SUBSET D |-> 0]
<1>4. Walks(h, z, D)
  <2>1. \A s \in SUBSET D : 0 = IF s = {} THEN 0 ELSE z[Any(s)] + h[s \ {Any(s)}]
    BY <1>3, AnyIs
  <2> QED
    BY <2>1 DEF Walks
<1>5. \A s \in SUBSET (D \cap D) : g[s] = h[s]
  <2>1. \A x \in D \cap D : f[x] = z[x]
    OBVIOUS
  <2> HIDE DEF z, h
  <2> QED
    BY <1>2, <1>4, <2>1, WalksAgree DEF SumsOf
<1>6. h[D] = 0
  OBVIOUS
<1> QED
  BY <1>2, <1>5, <1>6 DEF SumsOf
-------------------------------------------------------------------------------
(* Sums of which one term changes *)

\* Functions with the same values but for one.
Differ(f, e, D, x) == x \in D /\ \A y \in D \ {x} : e[y] = f[y]

\* A sum, a term of it, and a sum without that term.
Parts(f, e, D, x) ==
  /\ SumFunctionOnSet(f, D) = f[x] + SumFunctionOnSet(e, D \ {x})
  /\ SumFunctionOnSet(e, D \ {x}) \in Int /\ f[x] \in Int

\* A sum whose terms but one are those of another.
LEMMA SumWithout ==
  ASSUME NEW D, NEW x, NEW f, NEW e, Summable(f, D), Differ(f, e, D, x)
  PROVE  Parts(f, e, D, x)
<1>0. x \in D
  BY DEF Differ
<1>1. Summable(f, D \ {x}) /\ f[x] \in Int
  BY <1>0, FS_Subset DEF Summable
<1>2. SumFunctionOnSet(f, D) = f[x] + SumFunctionOnSet(f, D \ {x})
  BY <1>0, SumTerm
<1>3. SumFunctionOnSet(f, D \ {x}) \in Int
  BY <1>1, SumTerm
<1>4. SumFunctionOnSet(f, D \ {x}) = SumFunctionOnSet(e, D \ {x})
  <2>1. \A y \in D \ {x} : f[y] = e[y]
    BY DEF Differ
  <2> QED
    BY <1>1, <2>1, SumSame
<1> QED
  BY <1>1, <1>2, <1>3, <1>4 DEF Parts

\* A sum with one term replaced.
Replaces(f, e, D, x) ==
  /\ SumFunctionOnSet(e, D) = SumFunctionOnSet(f, D) - f[x] + e[x]
  /\ SumFunctionOnSet(f, D) \in Int

LEMMA SumReplaced ==
  ASSUME NEW D, NEW x, NEW f, NEW e, Summable(f, D), Summable(e, D),
         Differ(f, e, D, x)
  PROVE  Replaces(f, e, D, x)
<1>1. Parts(f, e, D, x)
  BY SumWithout
<1>2. Parts(e, e, D, x)
  <2>1. Differ(e, e, D, x)
    BY DEF Differ
  <2> QED
    BY <2>1, SumWithout
<1> QED
  BY <1>1, <1>2 DEF Parts, Replaces

-------------------------------------------------------------------------------
(* The invariant *)

\* An entry is pending with one runner.
PelsApart == \A r, q \in Runner : r # q => pel[r] \cap pel[q] = {}

\* An entry between phases is a row of the hash formats.
Between(r) == runner[r].pc \in {"phase1", "phase2", "tail"}
InHand == \A r \in Runner :
  Between(r) => env.atomic /\ runner[r].batch # {} /\ Here(r).kind = "row"

\* A runner whose row nobody has changed since its HGETALL knows what is stored.
Fresh == \A r \in Runner :
  At(r, "phase1") /\ ~runner[r].dirty => runner[r].old = doc[Here(r).row]

\* What phase 1 has written is stored, what phase 2 has rolled up has its marker,
\* unless Redis refused it.
Written == \A r \in Runner :
  /\ At(r, "phase2") \/ At(r, "tail") => doc[Here(r).row] # 0 \/ Id(r) \in refused
  /\ At(r, "tail") => Id(r) \in marker \/ Id(r) \in refused

Types == TypeOK /\ PelsApart /\ InHand
Inv == Types /\ Fresh /\ Written

-------------------------------------------------------------------------------
(* Types *)

\* The least of some numbers is one of them.
LEMMA MinIs ==
  ASSUME NEW T, T \subseteq Nat, T # {}
  PROVE  Min(T) \in T
  BY Least DEF Min

LEMMA MaxIs ==
  ASSUME NEW T, NEW n \in Nat, T \subseteq 1..n, T # {}
  PROVE  Max(T) \in T
<1> DEFINE U == {n - m : m \in T}
<1>1. U \subseteq Nat /\ U # {}
  <2>1. \A m \in T : n - m \in Nat
    OBVIOUS
  <2> QED
    BY <2>1
<1>2. PICK k \in U : \A m \in U : k <= m
  BY <1>1, Least
<1>3. PICK x \in T : k = n - x
  BY <1>2
<1>4. \A y \in T : n - y \in U
  OBVIOUS
<1>5. \A y \in T : x >= y
  BY <1>2, <1>3, <1>4
<1> QED
  BY <1>5 DEF Max

\* What is known of the surroundings and of the entry a runner works on.
LEMMA StreamIs ==
  ASSUME TypeOK
  PROVE  /\ env \in EnvironmentType /\ Len(Stream) \in Nat
         /\ delivered \in Nat /\ delivered <= Len(Stream)
         /\ \A i \in 1..delivered : Stream[i] \in Entry
<1>1. env \in EnvironmentType
  BY ConsumerAssumption DEF TypeOK
<1>2. Stream \in Seq(Entry)
  BY <1>1 DEF EnvironmentType, Stream
<1> QED
  BY <1>1, <1>2 DEF TypeOK

LEMMA HereIs ==
  ASSUME TypeOK, NEW r \in Runner, runner[r].batch # {}
  PROVE  /\ Id(r) \in runner[r].batch /\ Id(r) \in pel[r]
         /\ Id(r) \in 1..delivered /\ Here(r) \in Entry
<1>1. runner[r].batch \subseteq 1..delivered /\ runner[r].batch \subseteq pel[r]
  BY DEF TypeOK
<1>2. runner[r].batch \subseteq Nat
  BY <1>1, StreamIs
<1>3. Id(r) \in runner[r].batch
  BY <1>2, MinIs DEF Id
<1> QED
  BY <1>1, <1>3, StreamIs DEF Here

\* A row is in the store as a value.
LEMMA RowIs ==
  ASSUME NEW e \in Entry
  PROVE  e.row \in Row /\ e.val \in Value /\ e.val # 0 /\ e.val \in Int
  BY ConsumerAssumption DEF Entry, Value

Record(b) ==
  [mode : {"boot", "drain", "forward"}, pc : {"idle", "entry", "phase1", "phase2", "tail"},
   batch : SUBSET b, n : Nat, old : Value \cup {0}, dirty : BOOLEAN, tries : 0..MaxRetry]

LEMMA IdleIs ==
  ASSUME NEW m \in {"boot", "drain", "forward"}, NEW b
  PROVE  Idle(m) \in Record(b) /\ Idle(m).batch = {} /\ Idle(m).pc = "idle"
  BY ConsumerAssumption DEF Idle, Record

LEMMA AdvancedIs ==
  ASSUME TypeOK, NEW r \in Runner, NEW k \in Nat
  PROVE  /\ Advanced(r, k) \in Record(1..delivered)
         /\ Advanced(r, k).batch = runner[r].batch \ {Id(r)}
         /\ Advanced(r, k).pc = "entry"
<1>1. runner[r] \in Record(1..delivered)
  BY DEF TypeOK, Record
<1>2. runner[r].n + k \in Nat
  BY <1>1 DEF Record
<1> DEFINE i == Idle(runner[r].mode)
<1>3. i \in Record(1..delivered)
  BY <1>1, IdleIs DEF Record
<1>4. Advanced(r, k) = [i EXCEPT !.pc = "entry", !.batch = runner[r].batch \ {Id(r)},
                                 !.n = runner[r].n + k]
  BY DEF Advanced
<1>5. runner[r].batch \ {Id(r)} \in SUBSET (1..delivered)
  BY <1>1 DEF Record
<1> HIDE DEF i
<1> QED
  BY <1>2, <1>3, <1>4, <1>5 DEF Record

LEMMA FirstIs ==
  ASSUME NEW ids, NEW k
  PROVE  First(ids, k) \subseteq ids
  BY DEF First

-------------------------------------------------------------------------------
(* The kinds of steps *)

Modes == {"boot", "drain", "forward"}

\* The run of faults and the history of lost phases and refusals.
Counts ==
  /\ faults' \in 0..env.faults /\ torn' \in BOOLEAN /\ (torn => torn')
  /\ refused' \subseteq 1..delivered' /\ refused \subseteq refused'

\* Runner r goes on as rec and touches nothing else, unless it loses a phase 2.
Turn(r, rec) ==
  /\ runner' = [runner EXCEPT ![r] = rec]
  /\ rec \in Record(1..delivered) /\ rec.batch \subseteq pel[r]
  /\ \/ rec.pc \in {"idle", "entry"}
     \/ /\ rec.pc = "phase1" /\ rec.batch = runner[r].batch /\ rec.batch # {}
        /\ env.atomic /\ Here(r).kind = "row" /\ rec.old = doc[Here(r).row]
  /\ UNCHANGED <<env, group, store>>
  /\ Counts /\ (At(r, "phase2") => torn' \/ ~Changes(r))

\* Phase 1 is refused.
Skips(r, rec) ==
  /\ At(r, "phase1") /\ ~runner[r].dirty
  /\ runner' = [runner EXCEPT ![r] = rec] /\ rec \in Record(1..delivered)
  /\ rec.pc = "phase2" /\ rec.batch = runner[r].batch /\ rec.old = runner[r].old
  /\ torn' = (torn \/ Changes(r)) /\ Id(r) \in refused'
  /\ UNCHANGED <<env, group, store>>
  /\ Counts

\* Phase 1 is applied.
Stores(r, rec) ==
  /\ At(r, "phase1") /\ ~runner[r].dirty
  /\ Write(r, rec)
  /\ rec \in Record(1..delivered)
  /\ \/ /\ rec.pc = "phase2" /\ rec.batch = runner[r].batch /\ rec.old = runner[r].old
        /\ torn' = torn
     \/ rec.pc = "idle" /\ rec.batch = {} /\ torn' = (torn \/ Changes(r))
  /\ UNCHANGED <<env, group, rollup, marker>>
  /\ Counts

\* Phase 2 is applied, or a part of it.
Rolls(r, rec) ==
  /\ At(r, "phase2")
  /\ \E done \in SUBSET RollUpCommands : RollUp(r, done)
  /\ runner' = [runner EXCEPT ![r] = rec]
  /\ rec \in Record(1..delivered)
  /\ \/ /\ rec.pc = "tail" /\ rec.batch = runner[r].batch
        /\ Id(r) \in marker' \/ Id(r) \in refused'
     \/ rec.pc = "idle" /\ rec.batch = {}
  /\ UNCHANGED <<env, group, doc>>
  /\ Counts

\* Entries that are no rows, or are stored, or were refused, are acknowledged.
Acks(r, rec) ==
  /\ ~At(r, "phase2") /\ runner[r].batch # {}
  /\ Ack(r, {Id(r)})
  /\ Here(r).kind = "row" => \/ doc[Here(r).row] # 0 /\ Id(r) \in marker
                             \/ Id(r) \in refused
  /\ runner' = [runner EXCEPT ![r] = rec]
  /\ rec \in Record(1..delivered) /\ rec.pc \in {"idle", "entry"}
  /\ rec.batch \subseteq runner[r].batch \ {Id(r)}
  /\ UNCHANGED <<env, delivered, store, torn>>
  /\ Counts

\* A pipeline is sent.
Sends(r, rec) ==
  /\ \E docs, sums \in SUBSET RowsOf(runner[r].batch), ids \in SUBSET runner[r].batch :
       Pipeline(r, docs, sums, ids)
  /\ runner' = [runner EXCEPT ![r] = rec]
  /\ rec \in Record(1..delivered) /\ rec.pc \in {"idle", "entry"} /\ rec.batch = {}
  /\ Counts

Kinds ==
  \/ \E r \in Runner : ReadNew(r)
  \/ \E r \in Runner, rec \in Record(1..delivered) :
       \/ Turn(r, rec) \/ Skips(r, rec) \/ Stores(r, rec) \/ Rolls(r, rec)
       \/ Acks(r, rec) \/ Sends(r, rec)

LEMMA RunnerIs ==
  ASSUME TypeOK, NEW r \in Runner
  PROVE  /\ runner[r] \in Record(1..delivered) /\ runner[r].batch \subseteq pel[r]
         /\ runner[r].mode \in Modes
  BY DEF TypeOK, Record, Modes

LEMMA Steady ==
  ASSUME TypeOK, UNCHANGED <<faults, history>>, 1..delivered \subseteq 1..delivered'
  PROVE  Counts
  BY DEF TypeOK, Counts, history

\* A fault is counted and takes nothing else with it.
LEMMA Faulted ==
  ASSUME TypeOK, faults < env.faults, faults' = faults + 1, delivered' = delivered,
         torn' \in BOOLEAN, torn => torn', refused' = refused
  PROVE  Counts
  BY StreamIs DEF TypeOK, Counts, EnvironmentType

\* A refusal is counted.
LEMMA Refuses ==
  ASSUME TypeOK, Refusal, delivered' = delivered, torn' \in BOOLEAN, torn => torn',
         NEW ids, ids \subseteq 1..delivered, refused' = refused \cup ids
  PROVE  Counts
  BY StreamIs DEF TypeOK, Counts, EnvironmentType, Refusal

\* Ways to go on.
LEMMA TurnsIdle ==
  ASSUME TypeOK, NEW r \in Runner, NEW m \in Modes, ~At(r, "phase2"),
         runner' = [runner EXCEPT ![r] = Idle(m)], UNCHANGED <<env, group, store, faults, history>>
  PROVE  Kinds
<1>1. Idle(m) \in Record(1..delivered) /\ Idle(m).batch \subseteq pel[r] /\ Idle(m).pc = "idle"
  BY IdleIs DEF Modes
<1>2. Turn(r, Idle(m))
  BY <1>1, Steady DEF Turn, group
<1> QED
  BY <1>1, <1>2 DEF Kinds

LEMMA TurnsEntry ==
  ASSUME TypeOK, NEW r \in Runner, ~At(r, "phase2"),
         NEW rec \in Record(1..delivered), rec.batch \subseteq pel[r], rec.pc \in {"idle", "entry"},
         runner' = [runner EXCEPT ![r] = rec], UNCHANGED <<env, group, store, faults, history>>
  PROVE  Kinds
<1>1. Turn(r, rec)
  BY Steady DEF Turn, group
<1> QED
  BY <1>1 DEF Kinds

LEMMA ReadsAre ==
  ASSUME TypeOK, NEW r \in Runner,
         ReadPending(r) \/ DrainDue(r) \/ EndTick(r)
  PROVE  Kinds
<1> USE RunnerIs
<1>1. CASE ReadPending(r)
  <2>1. CASE pel[r] = {}
    <3>1. runner' = [runner EXCEPT ![r] = Idle("forward")] /\ ~At(r, "phase2")
      BY <1>1, <2>1 DEF ReadPending, At
    <3> QED
      BY <1>1, <3>1, TurnsIdle DEF ReadPending, Modes
  <2>2. CASE pel[r] # {}
    <3> DEFINE rec == [runner[r] EXCEPT !.pc = "entry", !.batch = First(pel[r], BatchSize)]
    <3>1. First(pel[r], BatchSize) \subseteq pel[r] /\ pel[r] \subseteq 1..delivered
      BY FirstIs DEF TypeOK
    <3>2. rec \in Record(1..delivered) /\ rec.batch \subseteq pel[r] /\ rec.pc = "entry"
      BY <3>1 DEF Record
    <3>3. runner' = [runner EXCEPT ![r] = rec] /\ ~At(r, "phase2")
      BY <1>1, <2>2 DEF ReadPending, At
    <3> HIDE DEF rec
    <3> QED
      BY <1>1, <3>2, <3>3, TurnsEntry DEF ReadPending
  <2> QED
    BY <2>1, <2>2
<1>2. CASE DrainDue(r)
  <2> DEFINE rec == [runner[r] EXCEPT !.mode = "drain"]
  <2>1. rec \in Record(1..delivered) /\ rec.batch \subseteq pel[r] /\ rec.pc = "idle"
    BY <1>2 DEF Record, DrainDue, At
  <2>2. runner' = [runner EXCEPT ![r] = rec] /\ ~At(r, "phase2")
    BY <1>2 DEF DrainDue, At
  <2> HIDE DEF rec
  <2> QED
    BY <1>2, <2>1, <2>2, TurnsEntry DEF DrainDue
<1>3. CASE EndTick(r)
  <2> DEFINE m == IF runner[r].n > 0 THEN runner[r].mode ELSE "forward"
  <2>1. m \in Modes
    BY DEF Modes
  <2>2. runner' = [runner EXCEPT ![r] = Idle(m)] /\ ~At(r, "phase2")
    BY <1>3 DEF EndTick, At
  <2> HIDE DEF m
  <2> QED
    BY <1>3, <2>1, <2>2, TurnsIdle DEF EndTick
<1> QED
  BY <1>1, <1>2, <1>3

LEMMA GivenUp ==
  ASSUME TypeOK, NEW r \in Runner, Poisoned(r) \/ PipelinePoisoned(r)
  PROVE  Kinds
<1>1. ~At(r, "phase2") /\ runner' = [runner EXCEPT ![r] = Idle("forward")]
      /\ UNCHANGED <<env, group, store, faults, history>>
  BY DEF Poisoned, PipelinePoisoned, Current, At
<1> QED
  BY <1>1, TurnsIdle DEF Modes

LEMMA WatchIs ==
  ASSUME TypeOK, NEW r \in Runner, Watch(r)
  PROVE  Kinds
<1> USE RunnerIs
<1> DEFINE rec == [runner[r] EXCEPT !.pc = "phase1", !.old = doc[Here(r).row], !.dirty = FALSE]
<1>1. runner[r].batch # {} /\ Here(r).kind = "row" /\ env.atomic /\ ~At(r, "phase2")
  BY DEF Watch, Current, At
<1>2. doc[Here(r).row] \in Value \cup {0}
  BY <1>1, HereIs, RowIs DEF TypeOK
<1>3. /\ rec \in Record(1..delivered) /\ rec.batch = runner[r].batch /\ rec.pc = "phase1"
      /\ rec.old = doc[Here(r).row]
  BY <1>2 DEF Record
<1>4. runner' = [runner EXCEPT ![r] = rec]
  BY DEF Watch
<1> HIDE DEF rec
<1>5. Turn(r, rec)
  BY <1>1, <1>3, <1>4, Steady DEF Turn, Watch, group
<1> QED
  BY <1>3, <1>5 DEF Kinds

LEMMA RetryIs ==
  ASSUME TypeOK, NEW r \in Runner, Retry(r)
  PROVE  Kinds
<1> USE RunnerIs
<1>1. ~At(r, "phase2")
  BY DEF Retry, At
<1>2. CASE runner[r].tries < MaxRetry
  <2> DEFINE rec == [runner[r] EXCEPT !.pc = "entry", !.tries = runner[r].tries + 1]
  <2>1. runner[r].tries + 1 \in 0..MaxRetry
    BY <1>2, ConsumerAssumption DEF Record
  <2>2. rec \in Record(1..delivered) /\ rec.batch \subseteq pel[r] /\ rec.pc = "entry"
    BY <2>1 DEF Record
  <2>3. runner' = [runner EXCEPT ![r] = rec]
    BY <1>2 DEF Retry
  <2> HIDE DEF rec
  <2> QED
    BY <1>1, <2>2, <2>3, TurnsEntry DEF Retry
<1>3. CASE ~(runner[r].tries < MaxRetry)
  <2>1. runner' = [runner EXCEPT ![r] = Advanced(r, 0)]
    BY <1>3 DEF Retry
  <2>2. /\ Advanced(r, 0) \in Record(1..delivered) /\ Advanced(r, 0).batch \subseteq pel[r]
        /\ Advanced(r, 0).pc = "entry"
    BY AdvancedIs
  <2> QED
    BY <1>1, <2>1, <2>2, TurnsEntry DEF Retry
<1> QED
  BY <1>2, <1>3

LEMMA ExecsAre ==
  ASSUME TypeOK, NEW r \in Runner, Exec1(r) \/ Exec2(r)
  PROVE  Kinds
<1> USE RunnerIs
<1>1. CASE Exec1(r)
  <2> DEFINE rec == [runner[r] EXCEPT !.pc = "phase2"]
  <2>1. /\ rec \in Record(1..delivered) /\ rec.batch = runner[r].batch
        /\ rec.pc = "phase2" /\ rec.old = runner[r].old
    BY DEF Record
  <2>2. Write(r, rec)
    BY <1>1 DEF Exec1
  <2> HIDE DEF rec
  <2>3. Stores(r, rec)
    BY <1>1, <2>1, <2>2, Steady DEF Stores, Exec1, group, history
  <2> QED
    BY <2>1, <2>3 DEF Kinds
<1>2. CASE Exec2(r)
  <2> DEFINE rec == [runner[r] EXCEPT !.pc = "tail"]
  <2>1. rec \in Record(1..delivered) /\ rec.batch = runner[r].batch /\ rec.pc = "tail"
    BY DEF Record
  <2>2. runner' = [runner EXCEPT ![r] = rec]
    BY <1>2 DEF Exec2
  <2> HIDE DEF rec
  <2>3. RollUp(r, RollUpCommands) /\ UNCHANGED <<env, group, doc, faults, refused>>
    BY <1>2 DEF Exec2
  <2>4. Counts
    BY <2>3 DEF RollUp, Counts, Changes, TypeOK, group
  <2>5. Id(r) \in marker'
    BY <2>3 DEF RollUp, RollUpCommands
  <2>6. At(r, "phase2")
    BY <1>2 DEF Exec2
  <2> HIDE DEF RollUpCommands
  <2>7. Rolls(r, rec)
    BY <2>1, <2>2, <2>3, <2>4, <2>5, <2>6 DEF Rolls
  <2> QED
    BY <2>1, <2>7 DEF Kinds
<1> QED
  BY <1>1, <1>2

LEMMA RefusalsAre ==
  ASSUME TypeOK, InHand, NEW r \in Runner,
         Exec1Refused(r) \/ Exec2Refused(r) \/ SettleRefused(r)
  PROVE  Kinds
<1> USE RunnerIs
<1>0. runner[r].batch # {} /\ Refusal
  BY DEF Exec1Refused, Exec2Refused, SettleRefused, InHand, Between, At
<1>1. {Id(r)} \subseteq 1..delivered
  BY <1>0, HereIs
<1>2. CASE Exec1Refused(r)
  <2> DEFINE rec == [runner[r] EXCEPT !.pc = "phase2"]
  <2>1. /\ rec \in Record(1..delivered) /\ rec.batch = runner[r].batch
        /\ rec.pc = "phase2" /\ rec.old = runner[r].old
    BY DEF Record
  <2>2. runner' = [runner EXCEPT ![r] = rec]
    BY <1>2 DEF Exec1Refused
  <2> HIDE DEF rec
  <2>3. delivered' = delivered /\ refused' = refused \cup {Id(r)}
        /\ torn' = (torn \/ Changes(r))
    BY <1>2 DEF Exec1Refused, group
  <2>4. torn' \in BOOLEAN /\ (torn => torn')
    BY <2>3 DEF TypeOK, Changes
  <2>5. Counts
    BY <1>0, <1>1, <2>3, <2>4, Refuses
  <2>6. Skips(r, rec)
    BY <1>2, <2>1, <2>2, <2>3, <2>5 DEF Skips, Exec1Refused
  <2> QED
    BY <2>1, <2>6 DEF Kinds
<1>3. CASE Exec2Refused(r)
  <2> DEFINE rec == [runner[r] EXCEPT !.pc = "tail"]
  <2>1. rec \in Record(1..delivered) /\ rec.batch = runner[r].batch /\ rec.pc = "tail"
    BY DEF Record
  <2>2. runner' = [runner EXCEPT ![r] = rec]
    BY <1>3 DEF Exec2Refused
  <2> HIDE DEF rec
  <2>3. PICK done \in SUBSET RollUpCommands : RollUp(r, done)
    BY <1>3 DEF Exec2Refused
  <2>4. delivered' = delivered /\ refused' = refused \cup {Id(r)}
    BY <1>3 DEF Exec2Refused, group
  <2>5. torn' \in BOOLEAN /\ (torn => torn')
    BY <2>3 DEF RollUp, Changes, TypeOK
  <2>6. Counts
    BY <1>0, <1>1, <2>4, <2>5, Refuses
  <2>7. Rolls(r, rec)
    BY <1>3, <2>1, <2>2, <2>3, <2>4, <2>6 DEF Rolls, Exec2Refused
  <2> QED
    BY <2>1, <2>7 DEF Kinds
<1>4. CASE SettleRefused(r)
  <2> DEFINE rec == Advanced(r, 1)
  <2>1. /\ rec \in Record(1..delivered) /\ rec.batch \subseteq pel[r] /\ rec.pc = "entry"
    BY AdvancedIs
  <2>2. runner' = [runner EXCEPT ![r] = rec] /\ ~At(r, "phase2")
        /\ UNCHANGED <<env, group, store, history>>
    BY <1>4 DEF SettleRefused, At
  <2> HIDE DEF rec
  <2>3. Counts
    BY <1>0, <2>2, Faulted DEF Refusal, group, history, TypeOK
  <2>4. Turn(r, rec)
    BY <2>1, <2>2, <2>3 DEF Turn
  <2> QED
    BY <2>1, <2>4 DEF Kinds
<1> QED
  BY <1>2, <1>3, <1>4

LEMMA AcksAre ==
  ASSUME TypeOK, InHand, Written, NEW r \in Runner, Malformed(r) \/ Settle(r)
  PROVE  Kinds
<1> DEFINE rec == Advanced(r, 1)
<1>1. /\ rec \in Record(1..delivered) /\ rec.batch = runner[r].batch \ {Id(r)} /\ rec.pc = "entry"
  BY AdvancedIs
<1>2. ~At(r, "phase2") /\ runner[r].batch # {}
  BY DEF Malformed, Settle, Current, At, InHand, Between
<1>3. Here(r).kind = "row" => \/ doc[Here(r).row] # 0 /\ Id(r) \in marker
                             \/ Id(r) \in refused
  BY DEF Malformed, Settle, Current, Written
<1>4. Ack(r, {Id(r)}) /\ runner' = [runner EXCEPT ![r] = rec]
      /\ UNCHANGED <<env, delivered, store, faults, history>>
  BY DEF Malformed, Settle
<1> HIDE DEF rec
<1>5. Acks(r, rec)
  BY <1>1, <1>2, <1>3, <1>4, Steady DEF Acks, history
<1> QED
  BY <1>1, <1>5 DEF Kinds

\* What a pipeline leaves alone, and what it adds to the history.
LEMMA Pipes ==
  ASSUME TypeOK, NEW r \in Runner, NEW docs, NEW sums, NEW ids, ids \subseteq runner[r].batch,
         Pipeline(r, docs, sums, ids)
  PROVE  /\ torn' = torn /\ env' = env /\ delivered' = delivered
         /\ \E more : more \subseteq 1..delivered /\ refused' = refused \cup more
<1>1. RowsOf(ids) \ (docs \cap sums) \subseteq 1..delivered
  BY RunnerIs DEF Record, RowsOf
<1> QED
  BY <1>1 DEF Pipeline

LEMMA SendsAre ==
  ASSUME TypeOK, NEW r \in Runner, NEW m \in Modes,
         PipelineDone(r) \/ PipelineRefused(r) \/ PipelineBreaks(r, m)
  PROVE  Kinds
<1> USE RunnerIs
<1>0. IsFiniteSet(runner[r].batch) /\ Cardinality(runner[r].batch) \in Nat
  <2>1. runner[r].batch \subseteq 1..delivered /\ delivered \in Nat
    BY StreamIs DEF Record
  <2>2. IsFiniteSet(1..delivered)
    BY <2>1, FS_Interval
  <2> QED
    BY <2>1, <2>2, FS_Subset, FS_CardinalityType
<1>1. PICK docs \in SUBSET RowsOf(runner[r].batch), sums \in SUBSET RowsOf(runner[r].batch),
           ids \in SUBSET runner[r].batch :
        Pipeline(r, docs, sums, ids)
  <2>1. CASE PipelineDone(r)
    BY <2>1 DEF PipelineDone
  <2>2. CASE PipelineRefused(r)
    BY <2>2 DEF PipelineRefused
  <2>3. CASE PipelineBreaks(r, m)
    <3>1. PICK k, next : \E docs, sums \in Applied(RowsOf(First(runner[r].batch, k + next))),
                           ids \in Applied(First(runner[r].batch, k)) :
                         Pipeline(r, docs, sums, ids)
      BY <2>3 DEF PipelineBreaks
    <3>2. /\ RowsOf(First(runner[r].batch, k + next)) \subseteq RowsOf(runner[r].batch)
          /\ First(runner[r].batch, k) \subseteq runner[r].batch
      BY FirstIs DEF RowsOf
    <3> QED
      BY <3>1, <3>2 DEF Applied
  <2> QED
    BY <2>1, <2>2, <2>3
<1>2. PICK more : more \subseteq 1..delivered /\ refused' = refused \cup more
  BY <1>1, Pipes
<1>3. torn' = torn /\ env' = env /\ delivered' = delivered /\ torn \in BOOLEAN
  BY <1>1, Pipes DEF TypeOK
<1>4. Counts
  <2>1. CASE PipelineDone(r)
    BY <1>2, <1>3, <2>1 DEF PipelineDone, Counts, TypeOK
  <2>2. CASE PipelineRefused(r)
    BY <1>2, <1>3, <2>2, Refuses DEF PipelineRefused
  <2>3. CASE PipelineBreaks(r, m)
    BY <1>2, <1>3, <2>3, StreamIs DEF PipelineBreaks, Counts, TypeOK, EnvironmentType
  <2> QED
    BY <2>1, <2>2, <2>3
<1>5. CASE BatchDone(r)
  <2> DEFINE k == Cardinality(RowsOf(runner[r].batch))
             i == Idle(runner[r].mode)
             rec == [i EXCEPT !.pc = "entry", !.n = k]
  <2>1. k \in Nat
    BY <1>0, FS_Subset, FS_CardinalityType DEF RowsOf
  <2>2. i \in Record(1..delivered) /\ i.batch = {}
    BY IdleIs DEF Modes
  <2>3. runner' = [runner EXCEPT ![r] = rec]
    BY <1>5 DEF BatchDone
  <2> HIDE DEF k, i
  <2>4. rec \in Record(1..delivered) /\ rec.batch = {} /\ rec.pc = "entry"
    BY <2>1, <2>2 DEF Record
  <2> HIDE DEF rec
  <2>5. Sends(r, rec)
    BY <1>1, <1>4, <2>3, <2>4 DEF Sends
  <2> QED
    BY <2>4, <2>5 DEF Kinds
<1>6. CASE PipelineBreaks(r, m)
  <2>1. Idle(m) \in Record(1..delivered) /\ Idle(m).batch = {} /\ Idle(m).pc = "idle"
    BY IdleIs DEF Modes
  <2>2. Sends(r, Idle(m))
    BY <1>1, <1>4, <1>6, <2>1 DEF Sends, PipelineBreaks
  <2> QED
    BY <2>1, <2>2 DEF Kinds
<1> QED
  BY <1>5, <1>6 DEF PipelineDone, PipelineRefused

LEMMA InterruptedIs ==
  ASSUME TypeOK, InHand, Written, NEW r \in Runner, NEW m \in Modes, Interrupted(r, m)
  PROVE  Kinds
<1>1. Idle(m) \in Record(1..delivered) /\ Idle(m).batch = {} /\ Idle(m).pc = "idle"
  BY IdleIs DEF Modes
<1>2. faults < env.faults /\ faults' = faults + 1 /\ env' = env /\ refused' = refused
  BY DEF Interrupted
<1>3. torn \in BOOLEAN
  BY DEF TypeOK
<1>4. CASE /\ runner' = [runner EXCEPT ![r] = Idle(m)]
           /\ torn' = (torn \/ (At(r, "phase2") /\ Changes(r)))
           /\ UNCHANGED <<group, store>>
  <2>1. Counts /\ (At(r, "phase2") => torn' \/ ~Changes(r))
    BY <1>2, <1>3, <1>4, Faulted DEF At, Changes, group
  <2>2. Turn(r, Idle(m))
    BY <1>1, <1>2, <1>4, <2>1 DEF Turn
  <2> QED
    BY <1>1, <2>2 DEF Kinds
<1>5. CASE /\ At(r, "phase1") /\ ~runner[r].dirty
           /\ Write(r, Idle(m))
           /\ torn' = (torn \/ Changes(r))
           /\ UNCHANGED <<group, rollup, marker>>
  <2>1. Counts
    BY <1>2, <1>3, <1>5, Faulted DEF Changes, group
  <2>2. Stores(r, Idle(m))
    BY <1>1, <1>2, <1>5, <2>1 DEF Stores
  <2> QED
    BY <1>1, <2>2 DEF Kinds
<1>6. CASE /\ At(r, "phase2")
           /\ \E done \in Applied(RollUpCommands) : RollUp(r, done)
           /\ runner' = [runner EXCEPT ![r] = Idle(m)]
           /\ UNCHANGED <<group, doc>>
  <2>0. PICK done \in SUBSET RollUpCommands : RollUp(r, done)
    BY <1>6 DEF Applied
  <2>1. torn' \in BOOLEAN /\ (torn => torn')
    BY <1>3, <2>0 DEF RollUp, Changes
  <2>3. Counts
    BY <1>2, <1>6, <2>1, Faulted DEF group
  <2>2. Rolls(r, Idle(m))
    BY <1>1, <1>2, <1>6, <2>0, <2>3 DEF Rolls
  <2> QED
    BY <1>1, <2>2 DEF Kinds
<1>7. CASE /\ At(r, "tail")
           /\ Ack(r, {Id(r)})
           /\ runner' = [runner EXCEPT ![r] = Idle(m)]
           /\ UNCHANGED <<delivered, store, torn>>
  <2>1. Counts
    BY <1>2, <1>3, <1>7, Faulted
  <2>2. runner[r].batch # {} /\ ~At(r, "phase2")
    BY <1>7 DEF InHand, Between, At
  <2>3. (doc[Here(r).row] # 0 /\ Id(r) \in marker) \/ Id(r) \in refused
    BY <1>7 DEF Written
  <2>4. Acks(r, Idle(m))
    BY <1>1, <1>2, <1>7, <2>1, <2>2, <2>3 DEF Acks
  <2> QED
    BY <1>1, <2>4 DEF Kinds
<1> QED
  BY <1>4, <1>5, <1>6, <1>7 DEF Interrupted

\* Every step is of one of the kinds.
LEMMA StepKinds ==
  ASSUME TypeOK, InHand, Written, Next
  PROVE  Kinds
<1>1. CASE \E r \in Runner : Step(r) \/ DrainDue(r) \/ Refused(r)
  <2>1. PICK r \in Runner : Step(r) \/ DrainDue(r) \/ Refused(r)
    BY <1>1
  <2>2. CASE ReadNew(r)
    BY <2>2 DEF Kinds
  <2>3. CASE PipelineDone(r) \/ PipelineRefused(r)
    BY <2>3, SendsAre DEF Modes
  <2>4. CASE Step(r)
    BY <2>2, <2>3, <2>4, ReadsAre, GivenUp, WatchIs, RetryIs, ExecsAre, AcksAre DEF Step
  <2>5. CASE DrainDue(r)
    BY <2>5, ReadsAre
  <2>6. CASE Refused(r)
    BY <2>3, <2>6, RefusalsAre DEF Refused
  <2> QED
    BY <2>1, <2>4, <2>5, <2>6
<1>2. CASE \E r \in Runner, m \in {"boot", "forward"} : Fault(r, m)
  <2>1. PICK r \in Runner, m \in {"boot", "forward"} : Fault(r, m)
    BY <1>2
  <2>2. m \in Modes
    BY DEF Modes
  <2> QED
    BY <2>1, <2>2, InterruptedIs, SendsAre DEF Fault
<1> QED
  BY <1>1, <1>2 DEF Next

-------------------------------------------------------------------------------
(* The types are kept *)

LEMMA HereSame ==
  ASSUME env' = env, NEW r \in Runner, runner'[r].batch = runner[r].batch
  PROVE  Id(r)' = Id(r) /\ Here(r)' = Here(r)
  BY DEF Id, Here, Stream

LEMMA Moved ==
  ASSUME TypeOK, NEW r \in Runner, NEW rec, runner' = [runner EXCEPT ![r] = rec]
  PROVE  /\ DOMAIN runner' = Runner /\ runner'[r] = rec
         /\ \A q \in Runner : q # r => runner'[q] = runner[q]
  BY DEF TypeOK

\* One runner goes on with an entry of its own.
LEMMA RunnersTyped ==
  ASSUME TypeOK, NEW r \in Runner, NEW rec \in Record(1..delivered),
         runner' = [runner EXCEPT ![r] = rec], delivered' = delivered
  PROVE  runner' \in [Runner -> Record(1..delivered')]
  BY DEF TypeOK, Record

LEMMA TypeStep ==
  ASSUME TypeOK, env' = env, delivered' \in 0..Len(Stream),
         acked' \subseteq 1..delivered', marker' \subseteq 1..delivered',
         pel' \in [Runner -> SUBSET ((1..delivered') \ acked')],
         doc' \in [Row -> Value \cup {0}], rollup' \in [sum : Int, count : Int],
         runner' \in [Runner -> Record(1..delivered')],
         \A q \in Runner : runner'[q].batch \subseteq pel'[q],
         Counts
  PROVE  TypeOK'
  BY DEF TypeOK, Record, Counts, Stream

LEMMA TypesTurn ==
  ASSUME Types, NEW r \in Runner, NEW rec \in Record(1..delivered), Turn(r, rec)
  PROVE  Types'
<1> USE DEF Types
<1>1. /\ runner' = [runner EXCEPT ![r] = rec] /\ rec.batch \subseteq pel[r]
      /\ UNCHANGED <<env, delivered, pel, acked, doc, rollup, marker>> /\ Counts
  BY DEF Turn, group, store
<1>2. runner'[r] = rec /\ \A q \in Runner : q # r => runner'[q] = runner[q]
  BY <1>1, Moved
<1>3. runner' \in [Runner -> Record(1..delivered')]
  BY <1>1, RunnersTyped
<1>4. \A q \in Runner : runner'[q].batch \subseteq pel'[q]
  BY <1>1, <1>2 DEF TypeOK
<1>5. TypeOK'
  BY <1>1, <1>3, <1>4, TypeStep DEF TypeOK
<1>6. PelsApart'
  BY <1>1 DEF PelsApart
<1>7. ASSUME NEW q \in Runner, Between(q)'
      PROVE  env'.atomic /\ runner'[q].batch # {} /\ Here(q)'.kind = "row"
  <2>1. CASE q = r
    <3>1. /\ rec.batch = runner[r].batch /\ rec.batch # {}
          /\ env.atomic /\ Here(r).kind = "row"
      BY <1>2, <1>7, <2>1 DEF Turn, Between
    <3> QED
      BY <1>1, <1>2, <2>1, <3>1, HereSame
  <2>2. CASE q # r
    <3>1. Between(q) /\ runner'[q] = runner[q]
      BY <1>2, <1>7, <2>2 DEF Between
    <3> QED
      BY <1>1, <3>1, HereSame DEF InHand
  <2> QED
    BY <2>1, <2>2
<1> QED
  BY <1>5, <1>6, <1>7 DEF InHand

\* What Write does to the runners.
Rewritten(r, rec) ==
  /\ DOMAIN runner' = Runner /\ runner'[r] = rec
  /\ \A q \in Runner : q # r =>
       /\ runner'[q].pc = runner[q].pc /\ runner'[q].batch = runner[q].batch
       /\ runner'[q].old = runner[q].old
       /\ runner'[q].dirty =
            (runner[q].dirty \/ (At(q, "phase1") /\ Here(q).row = Here(r).row))
       /\ runner'[q] \in Record(1..delivered)

LEMMA WriteIs ==
  ASSUME TypeOK, NEW r \in Runner, NEW rec \in Record(1..delivered), Write(r, rec)
  PROVE  Rewritten(r, rec)
<1>1. DOMAIN runner' = Runner /\ runner'[r] = rec
  BY DEF Write
<1>2. ASSUME NEW q \in Runner, q # r
      PROVE  /\ runner'[q].pc = runner[q].pc /\ runner'[q].batch = runner[q].batch
             /\ runner'[q].old = runner[q].old
             /\ runner'[q].dirty =
                  (runner[q].dirty \/ (At(q, "phase1") /\ Here(q).row = Here(r).row))
             /\ runner'[q] \in Record(1..delivered)
  <2> DEFINE d == runner[q].dirty \/ (At(q, "phase1") /\ Here(q).row = Here(r).row)
  <2>1. runner'[q] = [runner[q] EXCEPT !.dirty = d]
    BY <1>2 DEF Write
  <2>2. runner[q] \in Record(1..delivered)
    BY RunnerIs
  <2>3. d \in BOOLEAN
    BY <2>2 DEF Record, At
  <2> HIDE DEF d
  <2>4. /\ runner'[q].dirty = d /\ runner'[q].pc = runner[q].pc
        /\ runner'[q].batch = runner[q].batch /\ runner'[q].old = runner[q].old
        /\ runner'[q] \in Record(1..delivered)
    BY <2>1, <2>2, <2>3 DEF Record
  <2> QED
    BY <2>1, <2>4 DEF d
<1> QED
  BY <1>1, <1>2 DEF Rewritten

LEMMA TypesSkips ==
  ASSUME Types, NEW r \in Runner, NEW rec \in Record(1..delivered), Skips(r, rec)
  PROVE  Types'
<1> USE DEF Types
<1>1. /\ runner' = [runner EXCEPT ![r] = rec] /\ rec.batch = runner[r].batch
      /\ UNCHANGED <<env, delivered, pel, acked, doc, rollup, marker>> /\ Counts
  BY DEF Skips, group, store
<1>2. runner'[r] = rec /\ \A q \in Runner : q # r => runner'[q] = runner[q]
  BY <1>1, Moved
<1>3. runner' \in [Runner -> Record(1..delivered')]
  BY <1>1, RunnersTyped
<1>4. \A q \in Runner : runner'[q].batch \subseteq pel'[q]
  BY <1>1, <1>2 DEF TypeOK
<1>5. TypeOK'
  BY <1>1, <1>3, <1>4, TypeStep DEF TypeOK
<1>6. PelsApart'
  BY <1>1 DEF PelsApart
<1>7. ASSUME NEW q \in Runner, Between(q)'
      PROVE  env'.atomic /\ runner'[q].batch # {} /\ Here(q)'.kind = "row"
  <2>1. Between(q) /\ runner'[q].batch = runner[q].batch
    BY <1>1, <1>2, <1>7 DEF Skips, Between, At
  <2> QED
    BY <1>1, <2>1, HereSame DEF InHand
<1> QED
  BY <1>5, <1>6, <1>7 DEF InHand

LEMMA TypesStores ==
  ASSUME Types, NEW r \in Runner, NEW rec \in Record(1..delivered), Stores(r, rec)
  PROVE  Types'
<1> USE DEF Types
<1>1. /\ Write(r, rec) /\ At(r, "phase1")
      /\ UNCHANGED <<env, delivered, pel, acked, rollup, marker>> /\ Counts
  BY DEF Stores, group
<1>0. Rewritten(r, rec)
  BY <1>1, WriteIs
<1>2. /\ env.atomic /\ runner[r].batch # {} /\ Here(r).kind = "row"
  BY <1>1 DEF InHand, Between, At
<1>3. runner' \in [Runner -> Record(1..delivered')]
  <2>1. runner' = [q \in Runner |-> runner'[q]]
    BY <1>1 DEF Write
  <2>2. \A q \in Runner : runner'[q] \in Record(1..delivered)
    BY <1>0 DEF Rewritten
  <2> QED
    BY <1>1, <2>1, <2>2
<1>4. \A q \in Runner : runner'[q].batch \subseteq runner[q].batch
  BY <1>0 DEF Rewritten, Stores
<1>5. doc' \in [Row -> Value \cup {0}]
  BY <1>1, <1>2, HereIs, RowIs DEF Write, TypeOK
<1>6. TypeOK'
  BY <1>1, <1>3, <1>4, <1>5, TypeStep DEF TypeOK
<1>7. PelsApart'
  BY <1>1 DEF PelsApart
<1>8. ASSUME NEW q \in Runner, Between(q)'
      PROVE  env'.atomic /\ runner'[q].batch # {} /\ Here(q)'.kind = "row"
  <2>1. Between(q) /\ runner'[q].batch = runner[q].batch
    BY <1>0, <1>8 DEF Rewritten, Stores, Between, At
  <2> QED
    BY <1>1, <2>1, HereSame DEF InHand
<1> QED
  BY <1>6, <1>7, <1>8 DEF InHand

LEMMA TypesRolls ==
  ASSUME Types, NEW r \in Runner, NEW rec \in Record(1..delivered), Rolls(r, rec)
  PROVE  Types'
<1> USE DEF Types
<1>1. /\ runner' = [runner EXCEPT ![r] = rec] /\ At(r, "phase2")
      /\ UNCHANGED <<env, delivered, pel, acked, doc>> /\ Counts
  BY DEF Rolls, group
<1>0. PICK done : RollUp(r, done)
  BY DEF Rolls
<1>2. env.atomic /\ runner[r].batch # {} /\ Here(r).kind = "row"
  BY <1>1 DEF InHand, Between, At
<1>3. runner'[r] = rec /\ \A q \in Runner : q # r => runner'[q] = runner[q]
  BY <1>1, Moved
<1>4. runner' \in [Runner -> Record(1..delivered')]
  BY <1>1, RunnersTyped
<1>5. \A q \in Runner : runner'[q].batch \subseteq runner[q].batch
  BY <1>3 DEF Rolls
<1>6. marker' \subseteq 1..delivered /\ rollup' \in [sum : Int, count : Int]
  <2>1. Id(r) \in 1..delivered /\ Here(r).val \in Int
    BY <1>2, HereIs, RowIs
  <2>2. runner[r].old \in Int
    BY RunnerIs, ConsumerAssumption DEF Record, Value
  <2>3. rollup \in [sum : Int, count : Int] /\ marker \subseteq 1..delivered
    BY DEF TypeOK
  <2>4. rollup.sum + Here(r).val - runner[r].old \in Int
    BY <2>1, <2>2, <2>3
  <2>5. rollup.count + (IF runner[r].old = 0 THEN 1 ELSE 0) \in Int
    BY <2>3
  <2> DEFINE s == rollup.sum + Here(r).val - runner[r].old
             c == rollup.count + (IF runner[r].old = 0 THEN 1 ELSE 0)
  <2>6. (rollup' = rollup \/ rollup' = [sum |-> s, count |-> c])
        /\ marker' \subseteq marker \cup {Id(r)}
    BY <1>0 DEF RollUp
  <2>7. s \in Int /\ c \in Int
    BY <2>4, <2>5
  <2> HIDE DEF s, c
  <2>8. [sum |-> s, count |-> c] \in [sum : Int, count : Int]
    BY <2>7
  <2>9. marker' \subseteq 1..delivered
    BY <2>1, <2>3, <2>6
  <2> QED
    BY <2>3, <2>6, <2>8, <2>9
<1>7. TypeOK'
  BY <1>1, <1>4, <1>5, <1>6, TypeStep DEF TypeOK
<1>8. PelsApart'
  BY <1>1 DEF PelsApart
<1>9. ASSUME NEW q \in Runner, Between(q)'
      PROVE  env'.atomic /\ runner'[q].batch # {} /\ Here(q)'.kind = "row"
  <2>1. Between(q) /\ runner'[q].batch = runner[q].batch
    BY <1>1, <1>3, <1>9 DEF Rolls, Between, At
  <2> QED
    BY <1>1, <2>1, HereSame DEF InHand
<1> QED
  BY <1>7, <1>8, <1>9 DEF InHand

\* Acknowledging entries that are pending with a runner.
LEMMA AckTypes ==
  ASSUME Types, NEW r \in Runner, NEW rec \in Record(1..delivered), NEW ids, ids \subseteq pel[r],
         Ack(r, ids), runner' = [runner EXCEPT ![r] = rec], rec.pc \in {"idle", "entry"},
         rec.batch \subseteq runner[r].batch \ ids,
         env' = env, delivered' = delivered, marker' = marker,
         doc' \in [Row -> Value \cup {0}], rollup' \in [sum : Int, count : Int], Counts
  PROVE  Types'
<1> USE DEF Types
<1>1. runner'[r] = rec /\ \A q \in Runner : q # r => runner'[q] = runner[q]
  BY Moved
<1>2. runner' \in [Runner -> Record(1..delivered')]
  BY RunnersTyped
<1>3. pel \in [Runner -> SUBSET ((1..delivered) \ acked)]
  BY DEF TypeOK
<1>4. pel' = [pel EXCEPT ![r] = pel[r] \ ids] /\ acked' = acked \cup ids
  BY DEF Ack
<1>5. \A q \in Runner : pel'[q] = IF q = r THEN pel[r] \ ids ELSE pel[q]
  BY <1>3, <1>4
<1>6. \A q \in Runner : pel'[q] \subseteq (1..delivered) \ acked'
  BY <1>3, <1>4, <1>5 DEF PelsApart
<1>7. pel' \in [Runner -> SUBSET ((1..delivered') \ acked')]
  BY <1>3, <1>4, <1>6
<1>8. acked' \subseteq 1..delivered'
  BY <1>3, <1>4 DEF TypeOK
<1>9. \A q \in Runner : runner'[q].batch \subseteq pel'[q]
  BY <1>1, <1>5 DEF TypeOK
<1>10. TypeOK'
  BY <1>2, <1>7, <1>8, <1>9, TypeStep DEF TypeOK
<1>11. PelsApart'
  BY <1>5 DEF PelsApart
<1>12. ASSUME NEW q \in Runner, Between(q)'
       PROVE  env'.atomic /\ runner'[q].batch # {} /\ Here(q)'.kind = "row"
  <2>1. Between(q) /\ runner'[q] = runner[q]
    BY <1>1, <1>12 DEF Between
  <2> QED
    BY <2>1, HereSame DEF InHand
<1> QED
  BY <1>10, <1>11, <1>12 DEF InHand

LEMMA TypesAcks ==
  ASSUME Types, NEW r \in Runner, NEW rec \in Record(1..delivered), Acks(r, rec)
  PROVE  Types'
<1>1. {Id(r)} \subseteq pel[r]
  BY HereIs DEF Acks, Types
<1> QED
  BY <1>1, AckTypes DEF Acks, Types, TypeOK, store

\* What a pipeline has stored.
LEMMA PipelineIs ==
  ASSUME TypeOK, NEW r \in Runner, NEW docs, NEW sums, NEW sent,
         docs \subseteq RowsOf(runner[r].batch), sums \subseteq RowsOf(runner[r].batch),
         Pipeline(r, docs, sums, sent)
  PROVE  /\ doc' \in [Row -> Value \cup {0}] /\ rollup' \in [sum : Int, count : Int]
         /\ \A w \in Row : doc[w] # 0 => doc'[w] # 0
         /\ \A i \in docs : doc'[Stream[i].row] # 0
<1>1. runner[r].batch \subseteq 1..delivered /\ delivered \in Nat
  BY RunnerIs, StreamIs DEF Record
<1>2. /\ docs \subseteq 1..delivered /\ \A i \in docs : Stream[i] \in Entry
      /\ sums \subseteq 1..delivered /\ \A i \in sums : Stream[i] \in Entry
  BY <1>1, StreamIs DEF RowsOf
<1>4. /\ doc' = [w \in Row |-> IF \E i \in docs : Stream[i].row = w
                               THEN Stream[Last(docs, w)].val ELSE doc[w]]
      /\ rollup' = [sum |-> rollup.sum + SumFunction([i \in sums |-> Stream[i].val]),
                    count |-> rollup.count + Cardinality(sums)]
  BY DEF Pipeline
<1>5. ASSUME NEW w \in Row, \E i \in docs : Stream[i].row = w
      PROVE  Stream[Last(docs, w)].val \in Value /\ Stream[Last(docs, w)].val # 0
  <2>1. {i \in docs : Stream[i].row = w} \subseteq 1..delivered
    BY <1>2
  <2>2. Last(docs, w) \in docs
    BY <1>1, <1>5, <2>1, MaxIs DEF Last
  <2> QED
    BY <1>2, <2>2, RowIs
<1>6. doc' \in [Row -> Value \cup {0}] /\ \A w \in Row : doc[w] # 0 => doc'[w] # 0
  BY <1>4, <1>5 DEF TypeOK
<1>7. IsFiniteSet(sums) /\ Cardinality(sums) \in Int
  <2>1. IsFiniteSet(1..delivered)
    BY <1>1, FS_Interval
  <2>2. IsFiniteSet(sums)
    BY <1>2, <2>1, FS_Subset
  <2> QED
    BY <2>2, FS_CardinalityType
<1>8. SumFunction([i \in sums |-> Stream[i].val]) \in Int
  <2> DEFINE f == [i \in sums |-> Stream[i].val]
  <2>1. Summable(f, sums)
    BY <1>2, <1>7, RowIs DEF Summable
  <2>2. DOMAIN f = sums
    OBVIOUS
  <2> HIDE DEF f
  <2>3. SumFunctionOnSet(f, sums) \in Int
    BY <2>1, SumTerm
  <2>4. SumFunction(f) = SumFunctionOnSet(f, sums)
    BY <2>2 DEF SumFunction
  <2> QED
    BY <2>3, <2>4 DEF f
<1>9. rollup' \in [sum : Int, count : Int]
  BY <1>4, <1>7, <1>8 DEF TypeOK
<1>10. ASSUME NEW i \in docs PROVE doc'[Stream[i].row] # 0
  <2>1. Stream[i].row \in Row
    BY <1>2, RowIs
  <2> QED
    BY <1>4, <1>5, <2>1
<1> QED
  BY <1>6, <1>9, <1>10

LEMMA TypesSends ==
  ASSUME Types, NEW r \in Runner, NEW rec \in Record(1..delivered), Sends(r, rec)
  PROVE  Types'
<1>1. PICK docs \in SUBSET RowsOf(runner[r].batch), sums \in SUBSET RowsOf(runner[r].batch),
           ids \in SUBSET runner[r].batch :
        Pipeline(r, docs, sums, ids)
  BY DEF Sends
<1>2. ids \subseteq pel[r]
  BY RunnerIs DEF Types
<1>3. /\ Ack(r, ids) /\ env' = env /\ delivered' = delivered /\ marker' = marker
  BY <1>1 DEF Pipeline
<1>5. doc' \in [Row -> Value \cup {0}] /\ rollup' \in [sum : Int, count : Int]
  BY <1>1, PipelineIs DEF Types
<1>4. /\ runner' = [runner EXCEPT ![r] = rec] /\ rec.pc \in {"idle", "entry"} /\ rec.batch = {}
      /\ Counts
  BY DEF Sends
<1> QED
  BY <1>2, <1>3, <1>4, <1>5, AckTypes

LEMMA TypesReads ==
  ASSUME Types, NEW r \in Runner, ReadNew(r)
  PROVE  Types'
<1> USE DEF Types
<1>1. PICK k \in 1..BatchSize :
        /\ delivered + k <= Len(Stream) /\ delivered' = delivered + k
        /\ pel' = [pel EXCEPT ![r] = pel[r] \cup ((delivered + 1)..(delivered + k))]
        /\ runner' = [runner EXCEPT ![r].pc = "entry",
                                    ![r].batch = (delivered + 1)..(delivered + k)]
  BY DEF ReadNew
<1> DEFINE ids == (delivered + 1)..(delivered + k)
           rec == [runner[r] EXCEPT !.pc = "entry", !.batch = ids]
<1>2. UNCHANGED <<env, acked, doc, rollup, marker, faults, history>> /\ k \in Nat
  BY ConsumerAssumption DEF ReadNew, store
<1>3. delivered \in Nat /\ Len(Stream) \in Nat
  BY StreamIs
<1>4. /\ 1..delivered \subseteq 1..delivered' /\ ids \subseteq 1..delivered'
      /\ ids \cap (1..delivered) = {} /\ delivered' \in 0..Len(Stream)
  BY <1>1, <1>2, <1>3
<1>5. pel' = [pel EXCEPT ![r] = pel[r] \cup ids] /\ runner' = [runner EXCEPT ![r] = rec]
  BY <1>1 DEF TypeOK
<1> HIDE DEF ids
<1>6. runner[r] \in Record(1..delivered)
  BY RunnerIs
<1>7. /\ rec \in Record(1..delivered') /\ rec.batch = ids /\ rec.pc = "entry"
  BY <1>4, <1>6 DEF Record
<1> HIDE DEF rec
<1>8. runner'[r] = rec /\ \A q \in Runner : q # r => runner'[q] = runner[q]
  BY <1>5, Moved
<1>9. runner' \in [Runner -> Record(1..delivered')]
  <2>1. \A q \in Runner : runner[q] \in Record(1..delivered')
    BY <1>4, RunnerIs DEF Record
  <2> QED
    BY <1>5, <1>7, <2>1 DEF TypeOK
<1>10. \A q \in Runner : pel'[q] = IF q = r THEN pel[r] \cup ids ELSE pel[q]
  BY <1>5 DEF TypeOK
<1>11. \A q \in Runner : pel'[q] \subseteq (1..delivered') \ acked' /\ pel[q] \subseteq 1..delivered
  BY <1>2, <1>4, <1>10 DEF TypeOK
<1>12. pel' \in [Runner -> SUBSET ((1..delivered') \ acked')]
  BY <1>5, <1>11 DEF TypeOK
<1>13. \A q \in Runner : runner'[q].batch \subseteq pel'[q]
  BY <1>7, <1>8, <1>10 DEF TypeOK
<1>14. acked' \subseteq 1..delivered' /\ marker' \subseteq 1..delivered'
  BY <1>2, <1>4 DEF TypeOK
<1>15. Counts
  BY <1>2, <1>4, Steady
<1>16. TypeOK'
  BY <1>2, <1>4, <1>9, <1>12, <1>13, <1>14, <1>15, TypeStep DEF TypeOK
<1>17. PelsApart'
  BY <1>4, <1>10, <1>11 DEF PelsApart
<1>18. ASSUME NEW q \in Runner, Between(q)'
       PROVE  env'.atomic /\ runner'[q].batch # {} /\ Here(q)'.kind = "row"
  <2>1. Between(q) /\ runner'[q] = runner[q]
    BY <1>7, <1>8, <1>18 DEF Between
  <2> QED
    BY <1>2, <2>1, HereSame DEF InHand
<1> QED
  BY <1>16, <1>17, <1>18 DEF InHand

LEMMA TypesStutter ==
  ASSUME Types, UNCHANGED vars
  PROVE  Types'
  BY DEF Types, TypeOK, PelsApart, InHand, Between, Here, Id, Stream, vars, group, store, history

LEMMA TypesKept ==
  ASSUME Types, Kinds
  PROVE  Types'
  BY TypesTurn, TypesSkips, TypesStores, TypesRolls, TypesAcks, TypesSends, TypesReads
     DEF Kinds

-------------------------------------------------------------------------------
(* What runners know is kept *)

LEMMA KnownTurn ==
  ASSUME Types, Fresh, Written, NEW r \in Runner, NEW rec \in Record(1..delivered), Turn(r, rec)
  PROVE  Fresh' /\ Written'
<1>1. /\ runner' = [runner EXCEPT ![r] = rec]
      /\ UNCHANGED <<env, doc, marker>> /\ refused \subseteq refused'
  BY DEF Turn, store, Counts
<1>2. runner'[r] = rec /\ \A q \in Runner : q # r => runner'[q] = runner[q]
  BY <1>1, Moved DEF Types
<1>3. Fresh'
  <2> SUFFICES ASSUME NEW q \in Runner, At(q, "phase1")', ~runner'[q].dirty
               PROVE  runner'[q].old = doc'[Here(q)'.row]
    BY DEF Fresh
  <2>1. CASE q = r
    <3>1. rec.batch = runner[r].batch /\ rec.old = doc[Here(r).row]
      BY <1>2, <2>1 DEF Turn, At
    <3> QED
      BY <1>1, <1>2, <2>1, <3>1, HereSame
  <2>2. CASE q # r
    BY <1>1, <1>2, <2>2, HereSame DEF Fresh, At
  <2> QED
    BY <2>1, <2>2
<1>4. ASSUME NEW q \in Runner, At(q, "phase2")' \/ At(q, "tail")'
      PROVE  runner'[q] = runner[q] /\ Here(q)' = Here(q) /\ Id(q)' = Id(q)
  <2>1. q # r
    BY <1>2, <1>4 DEF At, Turn
  <2> QED
    BY <1>1, <1>2, <2>1, HereSame
<1>5. Written'
  BY <1>1, <1>4 DEF Written, At
<1> QED
  BY <1>3, <1>5

LEMMA KnownSkips ==
  ASSUME Types, Fresh, Written, NEW r \in Runner, NEW rec \in Record(1..delivered), Skips(r, rec)
  PROVE  Fresh' /\ Written'
<1>1. /\ runner' = [runner EXCEPT ![r] = rec] /\ rec.batch = runner[r].batch
      /\ rec.pc = "phase2" /\ Id(r) \in refused'
      /\ UNCHANGED <<env, doc, marker>> /\ refused \subseteq refused'
  BY DEF Skips, store, Counts
<1>2. runner'[r] = rec /\ \A q \in Runner : q # r => runner'[q] = runner[q]
  BY <1>1, Moved DEF Types
<1>3. \A q \in Runner : Here(q)' = Here(q) /\ Id(q)' = Id(q)
  BY <1>1, <1>2, HereSame
<1>4. Fresh'
  BY <1>1, <1>2, <1>3 DEF Fresh, At
<1>5. Written'
  <2> SUFFICES ASSUME NEW q \in Runner, At(q, "phase2")' \/ At(q, "tail")'
               PROVE  /\ doc'[Here(q)'.row] # 0 \/ Id(q)' \in refused'
                      /\ At(q, "tail")' => Id(q)' \in marker' \/ Id(q)' \in refused'
    BY DEF Written
  <2>1. CASE q = r
    BY <1>1, <1>3, <2>1
  <2>2. CASE q # r
    BY <1>1, <1>2, <1>3, <2>2 DEF Written, At
  <2> QED
    BY <2>1, <2>2
<1> QED
  BY <1>4, <1>5

LEMMA KnownStores ==
  ASSUME Types, Fresh, Written, NEW r \in Runner, NEW rec \in Record(1..delivered), Stores(r, rec)
  PROVE  Fresh' /\ Written'
<1>1. Rewritten(r, rec) /\ UNCHANGED <<env, marker>> /\ refused \subseteq refused'
  BY WriteIs DEF Stores, Types, Counts
<1>2. /\ doc' = [doc EXCEPT ![Here(r).row] = Here(r).val]
      /\ Here(r) \in Entry /\ Here(r).row \in Row /\ Here(r).val # 0
      /\ doc \in [Row -> Value \cup {0}]
  <2>1. runner[r].batch # {}
    BY DEF Stores, Types, InHand, Between, At
  <2> QED
    BY <2>1, HereIs, RowIs DEF Stores, Write, Types, TypeOK
<1>3. \A q \in Runner : runner'[q].batch = runner[q].batch => Here(q)' = Here(q) /\ Id(q)' = Id(q)
  BY <1>1, HereSame
<1>4. Fresh'
  <2> SUFFICES ASSUME NEW q \in Runner, At(q, "phase1")', ~runner'[q].dirty
               PROVE  runner'[q].old = doc'[Here(q)'.row]
    BY DEF Fresh
  <2>1. q # r
    BY <1>1 DEF Rewritten, Stores, At
  <2>2. At(q, "phase1") /\ ~runner[q].dirty /\ Here(q).row # Here(r).row
    BY <1>1, <2>1 DEF Rewritten, At
  <2> QED
    BY <1>1, <1>2, <1>3, <2>1, <2>2 DEF Fresh, Rewritten
<1>5. \A w \in Row : doc[w] # 0 => doc'[w] # 0
  BY <1>2
<1>6. Written'
  <2> SUFFICES ASSUME NEW q \in Runner, At(q, "phase2")' \/ At(q, "tail")'
               PROVE  /\ doc'[Here(q)'.row] # 0 \/ Id(q)' \in refused'
                      /\ At(q, "tail")' => Id(q)' \in marker' \/ Id(q)' \in refused'
    BY DEF Written
  <2>1. CASE q = r
    <3>1. rec.pc = "phase2" /\ rec.batch = runner[r].batch
      BY <1>1, <2>1 DEF Rewritten, Stores, At
    <3> QED
      BY <1>1, <1>2, <1>3, <2>1, <3>1 DEF Rewritten, At
  <2>2. CASE q # r
    <3>1. /\ At(q, "phase2") \/ At(q, "tail")
          /\ At(q, "tail")' => At(q, "tail")
          /\ runner'[q].batch = runner[q].batch
      BY <1>1, <2>2 DEF Rewritten, At
    <3>2. runner[q].batch # {}
      BY <1>1, <2>2 DEF Rewritten, Types, InHand, Between, At
    <3>3. Here(q).row \in Row
      BY <3>2, HereIs, RowIs DEF Types
    <3> QED
      BY <1>1, <1>3, <1>5, <3>1, <3>3 DEF Written
  <2> QED
    BY <2>1, <2>2
<1> QED
  BY <1>4, <1>6

LEMMA KnownRolls ==
  ASSUME Types, Fresh, Written, NEW r \in Runner, NEW rec \in Record(1..delivered), Rolls(r, rec)
  PROVE  Fresh' /\ Written'
<1>1. /\ runner' = [runner EXCEPT ![r] = rec] /\ At(r, "phase2")
      /\ UNCHANGED <<env, doc>> /\ marker \subseteq marker' /\ refused \subseteq refused'
  BY DEF Rolls, RollUp, Counts
<1>2. runner'[r] = rec /\ \A q \in Runner : q # r => runner'[q] = runner[q]
  BY <1>1, Moved DEF Types
<1>3. \A q \in Runner : runner'[q].batch = runner[q].batch => Here(q)' = Here(q) /\ Id(q)' = Id(q)
  BY <1>1, HereSame
<1>4. Fresh'
  <2> SUFFICES ASSUME NEW q \in Runner, At(q, "phase1")', ~runner'[q].dirty
               PROVE  runner'[q].old = doc'[Here(q)'.row]
    BY DEF Fresh
  <2>1. q # r
    BY <1>2 DEF Rolls, At
  <2> QED
    BY <1>1, <1>2, <1>3, <2>1 DEF Fresh, At
<1>5. Written'
  <2> SUFFICES ASSUME NEW q \in Runner, At(q, "phase2")' \/ At(q, "tail")'
               PROVE  /\ doc'[Here(q)'.row] # 0 \/ Id(q)' \in refused'
                      /\ At(q, "tail")' => Id(q)' \in marker' \/ Id(q)' \in refused'
    BY DEF Written
  <2>1. CASE q = r
    <3>1. rec.batch = runner[r].batch /\ (Id(r) \in marker' \/ Id(r) \in refused')
      BY <1>2, <2>1 DEF Rolls, At
    <3> QED
      BY <1>1, <1>2, <1>3, <2>1, <3>1 DEF Written
  <2>2. CASE q # r
    BY <1>1, <1>2, <1>3, <2>2 DEF Written, At
  <2> QED
    BY <2>1, <2>2
<1> QED
  BY <1>4, <1>5

\* A step after which its runner is not between phases.
Leaves(r, rec) ==
  /\ rec.pc \in {"idle", "entry"} /\ runner' = [runner EXCEPT ![r] = rec]
  /\ env' = env /\ marker' = marker /\ (doc' = doc \/ ~env.atomic)
  /\ refused \subseteq refused'

LEMMA KnownOthers ==
  ASSUME Types, Fresh, Written, NEW r \in Runner, NEW rec, Leaves(r, rec)
  PROVE  Fresh' /\ Written'
<1> USE DEF Leaves
<1>1. runner'[r] = rec /\ \A q \in Runner : q # r => runner'[q] = runner[q]
  BY Moved DEF Types
<1>2. ASSUME NEW q \in Runner, At(q, "phase1")' \/ At(q, "phase2")' \/ At(q, "tail")'
      PROVE  /\ runner'[q] = runner[q] /\ Here(q)' = Here(q) /\ Id(q)' = Id(q)
             /\ doc' = doc
  <2>1. runner'[q] = runner[q] /\ Between(q)
    BY <1>1, <1>2 DEF At, Between
  <2>2. env.atomic
    BY <2>1 DEF Types, InHand
  <2> QED
    BY <2>1, <2>2, HereSame
<1>3. Fresh'
  BY <1>2 DEF Fresh, At
<1>4. Written'
  BY <1>2 DEF Written, At
<1> QED
  BY <1>3, <1>4

LEMMA KnownKept ==
  ASSUME Types, Fresh, Written, Kinds
  PROVE  Fresh' /\ Written'
<1>1. CASE \E r \in Runner : ReadNew(r)
  <2>1. PICK r \in Runner : ReadNew(r)
    BY <1>1
  <2>2. PICK k \in 1..BatchSize :
          runner' = [runner EXCEPT ![r].pc = "entry",
                                   ![r].batch = (delivered + 1)..(delivered + k)]
    BY <2>1 DEF ReadNew
  <2> DEFINE rec == [runner[r] EXCEPT !.pc = "entry", !.batch = (delivered + 1)..(delivered + k)]
  <2>3. runner' = [runner EXCEPT ![r] = rec]
    BY <2>2 DEF Types, TypeOK
  <2>4. rec.pc = "entry"
    BY DEF Types, TypeOK
  <2>5. UNCHANGED <<env, marker, doc, refused>>
    BY <2>1 DEF ReadNew, store, history
  <2> HIDE DEF rec
  <2>6. Leaves(r, rec)
    BY <2>3, <2>4, <2>5 DEF Leaves
  <2> QED
    BY <2>6, KnownOthers
<1>2. ASSUME NEW r \in Runner, NEW rec \in Record(1..delivered), Acks(r, rec)
      PROVE  Fresh' /\ Written'
  <2>1. Leaves(r, rec)
    BY <1>2 DEF Acks, store, Leaves, Counts
  <2> QED
    BY <2>1, KnownOthers
<1>3. ASSUME NEW r \in Runner, NEW rec \in Record(1..delivered), Sends(r, rec)
      PROVE  Fresh' /\ Written'
  <2>1. env' = env /\ marker' = marker /\ ~env.atomic
    BY <1>3 DEF Sends, Pipeline
  <2>2. Leaves(r, rec)
    BY <1>3, <2>1 DEF Sends, Leaves, Counts
  <2> QED
    BY <2>2, KnownOthers
<1> QED
  BY <1>1, <1>2, <1>3, KnownTurn, KnownSkips, KnownStores, KnownRolls DEF Kinds

LEMMA KnownStutter ==
  ASSUME Fresh, Written, UNCHANGED vars
  PROVE  Fresh' /\ Written'
  BY DEF Fresh, Written, At, Here, Id, Stream, vars, group, store, history

LEMMA Starts ==
  ASSUME Init
  PROVE  Inv
<1>1. env \in EnvironmentType
  BY ConsumerAssumption DEF Init
<1>2. Stream \in Seq(Entry) /\ env.faults \in Nat
  BY <1>1 DEF EnvironmentType, Stream
<1>3. runner \in [Runner -> Record(1..delivered)] /\ \A r \in Runner : runner[r] = Idle("boot")
  BY IdleIs DEF Init
<1>4. \A r \in Runner : runner[r].pc = "idle" /\ runner[r].batch = {}
  BY <1>3, IdleIs
<1>5. TypeOK
  <2>1. delivered \in 0..Len(Stream) /\ acked \subseteq 1..delivered /\ marker \subseteq 1..delivered
    BY <1>2 DEF Init
  <2>2. pel \in [Runner -> SUBSET ((1..delivered) \ acked)]
    BY DEF Init
  <2>3. doc \in [Row -> Value \cup {0}] /\ rollup \in [sum : Int, count : Int]
    BY DEF Init
  <2>4. faults \in 0..env.faults /\ env \in Environment
    BY <1>2 DEF Init
  <2>5. torn \in BOOLEAN /\ refused \subseteq 1..delivered
    BY DEF Init
  <2> QED
    BY <1>3, <1>4, <2>1, <2>2, <2>3, <2>4, <2>5 DEF TypeOK, Record
<1>6. PelsApart
  BY DEF Init, PelsApart
<1> QED
  BY <1>4, <1>5, <1>6 DEF Inv, Types, InHand, Between, Fresh, Written, At

\* The types of the consumer, with what its runners know, are inductive.
THEOREM ConsumerTypes == Spec => []Inv
<1>1. ASSUME Inv, [Next]_vars PROVE Inv'
  <2>1. CASE Next
    <3>1. Kinds
      BY <1>1, <2>1, StepKinds DEF Inv, Types
    <3> QED
      BY <1>1, <3>1, TypesKept, KnownKept DEF Inv
  <2>2. CASE UNCHANGED vars
    BY <1>1, <2>2, TypesStutter, KnownStutter DEF Inv
  <2> QED
    BY <1>1, <2>1, <2>2
<1> QED
  BY Starts, <1>1, PTL DEF Spec

-------------------------------------------------------------------------------
(* What is acknowledged is stored *)

LEMMA AckedStep ==
  ASSUME Inv, AckedIsStored, Kinds
  PROVE  AckedIsStored'
<1> USE DEF Inv, Types
<1>1. \A i \in acked : Stream[i].row \in Row
  BY StreamIs, RowIs DEF TypeOK
<1>2. ASSUME env' = env, acked' = acked, marker \subseteq marker',
             refused \subseteq refused', \A w \in Row : doc[w] # 0 => doc'[w] # 0
      PROVE  AckedIsStored'
  BY <1>1, <1>2 DEF AckedIsStored, RowsOf, Stream
<1>3. ASSUME NEW r \in Runner, ReadNew(r) PROVE AckedIsStored'
  BY <1>2, <1>3 DEF ReadNew, store, history
<1>4. ASSUME NEW r \in Runner, NEW rec \in Record(1..delivered), Turn(r, rec)
      PROVE  AckedIsStored'
  BY <1>2, <1>4 DEF Turn, group, store, Counts
<1>9. ASSUME NEW r \in Runner, NEW rec \in Record(1..delivered), Skips(r, rec)
      PROVE  AckedIsStored'
  BY <1>2, <1>9 DEF Skips, group, store, Counts
<1>5. ASSUME NEW r \in Runner, NEW rec \in Record(1..delivered), Stores(r, rec)
      PROVE  AckedIsStored'
  <2>1. runner[r].batch # {}
    BY <1>5 DEF Stores, InHand, Between, At
  <2>2. Here(r).val # 0
    BY <2>1, HereIs, RowIs
  <2>3. \A w \in Row : doc[w] # 0 => doc'[w] # 0
    BY <1>5, <2>2 DEF Stores, Write, TypeOK
  <2> QED
    BY <1>2, <1>5, <2>3 DEF Stores, group, Counts
<1>6. ASSUME NEW r \in Runner, NEW rec \in Record(1..delivered), Rolls(r, rec)
      PROVE  AckedIsStored'
  <2>1. marker \subseteq marker'
    BY <1>6 DEF Rolls, RollUp
  <2> QED
    BY <1>2, <1>6, <2>1 DEF Rolls, group, Counts
<1>7. ASSUME NEW r \in Runner, NEW rec \in Record(1..delivered), Acks(r, rec)
      PROVE  AckedIsStored'
  <2>1. /\ acked' = acked \cup {Id(r)} /\ UNCHANGED <<env, doc, marker>>
        /\ Here(r).kind = "row" => \/ doc[Here(r).row] # 0 /\ Id(r) \in marker
                                   \/ Id(r) \in refused
        /\ refused \subseteq refused'
    BY <1>7 DEF Acks, Ack, store, Counts
  <2> QED
    BY <2>1 DEF AckedIsStored, RowsOf, Here, Stream
<1>8. ASSUME NEW r \in Runner, NEW rec \in Record(1..delivered), Sends(r, rec)
      PROVE  AckedIsStored'
  <2>1. PICK docs \in SUBSET RowsOf(runner[r].batch), sums \in SUBSET RowsOf(runner[r].batch),
             ids \in SUBSET runner[r].batch :
          Pipeline(r, docs, sums, ids)
    BY <1>8 DEF Sends
  <2>2. /\ ~env.atomic /\ env' = env /\ acked' = acked \cup ids
        /\ refused' = refused \cup (RowsOf(ids) \ (docs \cap sums))
    BY <2>1 DEF Pipeline, Ack
  <2>3. /\ \A w \in Row : doc[w] # 0 => doc'[w] # 0
        /\ \A i \in docs : doc'[Stream[i].row] # 0
    BY <2>1, PipelineIs
  <2>4. ASSUME NEW i \in RowsOf(acked') \ refused' PROVE doc'[Stream[i].row] # 0
    <3>1. CASE i \in acked
      BY <1>1, <2>2, <2>3, <2>4, <3>1 DEF AckedIsStored, RowsOf
    <3>2. CASE i \in ids
      BY <2>2, <2>3, <2>4, <3>2 DEF RowsOf
    <3> QED
      BY <2>2, <2>4, <3>1, <3>2 DEF RowsOf
  <2> QED
    BY <2>2, <2>4 DEF AckedIsStored, RowsOf, Stream
<1> QED
  BY <1>3, <1>4, <1>5, <1>6, <1>7, <1>8, <1>9 DEF Kinds

-------------------------------------------------------------------------------
(* The rollup is the rows stored *)

\* What the phases under way will add.
Deltas == [r \in Owing |-> Here(r).val - runner[r].old]
Owed == SumFunction(Deltas)
Newly == {r \in Owing : runner[r].old = 0}

LEMMA AgreesIs ==
  RollupAgrees <=> (env.atomic /\ ~torn =>
    rollup.sum + Owed = Total /\ rollup.count + Cardinality(Newly) = Cardinality(Stored))
  BY DEF RollupAgrees, Owed, Deltas, Newly

\* The sum of the debts is a sum of integers over a finite set.
DebtsTyped ==
  /\ IsFiniteSet(Owing) /\ Summable(Deltas, Owing)
  /\ Owed = SumFunctionOnSet(Deltas, Owing) /\ Owed \in Int
  /\ IsFiniteSet(Newly) /\ Cardinality(Newly) \in Nat
  /\ \A r \in Owing : Deltas[r] = Here(r).val - runner[r].old /\ Deltas[r] \in Int

LEMMA DeltasAre ==
  ASSUME Types
  PROVE  DebtsTyped
<1>1. IsFiniteSet(Owing) /\ IsFiniteSet(Newly)
  BY ConsumerAssumption, FS_Subset DEF Owing, Newly
<1>2. ASSUME NEW r \in Owing PROVE Here(r).val - runner[r].old \in Int
  <2>1. r \in Runner /\ runner[r].batch # {}
    BY <1>2 DEF Owing, Types, InHand, Between, At
  <2>2. Here(r).val \in Int
    BY <2>1, HereIs, RowIs DEF Types
  <2>3. runner[r].old \in Int
    BY <2>1, RunnerIs, ConsumerAssumption DEF Record, Value, Types
  <2> QED
    BY <2>2, <2>3
<1>3. \A r \in Owing : Deltas[r] = Here(r).val - runner[r].old /\ Deltas[r] \in Int
  BY <1>2 DEF Deltas
<1>4. Summable(Deltas, Owing)
  BY <1>1, <1>3 DEF Summable
<1>5. Owed = SumFunctionOnSet(Deltas, Owing)
  BY DEF Owed, SumFunction, Deltas
<1>6. SumFunctionOnSet(Deltas, Owing) \in Int
  BY <1>4, SumTerm
<1>7. Cardinality(Newly) \in Nat
  BY <1>1, FS_CardinalityType
<1> QED
  BY <1>1, <1>3, <1>4, <1>5, <1>6, <1>7 DEF DebtsTyped

\* A runner is left as it was, as far as what it owes goes.
SameDebt(q) == Here(q)' = Here(q) /\ runner'[q].old = runner[q].old

LEMMA DebtsSame ==
  ASSUME Owing' = Owing, \A q \in Owing : SameDebt(q)
  PROVE  Owed' = Owed /\ Newly' = Newly
<1>1. Deltas' = Deltas
  BY DEF Deltas, SameDebt
<1>2. Newly' = Newly
  BY DEF Newly, SameDebt
<1> QED
  BY <1>1, <1>2 DEF Owed

LEMMA DebtPaid ==
  ASSUME DebtsTyped, DebtsTyped', NEW r \in Owing, Owing' = Owing \ {r}, \A q \in Owing' : SameDebt(q)
  PROVE  /\ Owed = (Here(r).val - runner[r].old) + Owed'
         /\ Cardinality(Newly) = Cardinality(Newly') + IF runner[r].old = 0 THEN 1 ELSE 0
<1>1. /\ Summable(Deltas, Owing) /\ Owed = SumFunctionOnSet(Deltas, Owing)
      /\ Deltas[r] = Here(r).val - runner[r].old /\ IsFiniteSet(Newly)
  BY DEF DebtsTyped
<1>2. Owed' = SumFunctionOnSet(Deltas', Owing \ {r}) /\ IsFiniteSet(Newly')
      /\ Cardinality(Newly') \in Nat
  BY DEF DebtsTyped
<1>3. Differ(Deltas, Deltas', Owing, r)
  BY DEF Differ, Deltas, SameDebt
<1>4. Owed = Deltas[r] + Owed'
  <2>1. Parts(Deltas, Deltas', Owing, r)
    BY <1>1, <1>3, SumWithout
  <2> QED
    BY <1>1, <1>2, <2>1 DEF Parts
<1>5. Newly' = Newly \ {r}
  BY DEF Newly, SameDebt
<1>6. Cardinality(Newly) = Cardinality(Newly') + IF runner[r].old = 0 THEN 1 ELSE 0
  <2>1. CASE runner[r].old = 0
    <3>1. r \in Newly /\ Newly = Newly' \cup {r} /\ r \notin Newly'
      BY <1>5, <2>1 DEF Newly
    <3> QED
      BY <1>2, <2>1, <3>1, FS_AddElement
  <2>2. CASE runner[r].old # 0
    <3>1. Newly' = Newly
      BY <1>5, <2>2 DEF Newly
    <3> QED
      BY <1>2, <2>2, <3>1
  <2> QED
    BY <2>1, <2>2
<1> QED
  BY <1>1, <1>4, <1>6

LEMMA DebtMade ==
  ASSUME DebtsTyped, DebtsTyped', NEW r \in Owing', Owing = Owing' \ {r}, \A q \in Owing : SameDebt(q)
  PROVE  /\ Owed' = (Here(r)'.val - runner'[r].old) + Owed
         /\ Cardinality(Newly') = Cardinality(Newly) + IF runner'[r].old = 0 THEN 1 ELSE 0
<1>1. /\ Summable(Deltas', Owing') /\ Owed' = SumFunctionOnSet(Deltas', Owing')
      /\ Deltas'[r] = Here(r)'.val - runner'[r].old /\ IsFiniteSet(Newly')
  BY DEF DebtsTyped
<1>2. Owed = SumFunctionOnSet(Deltas, Owing' \ {r}) /\ IsFiniteSet(Newly)
      /\ Cardinality(Newly) \in Nat
  BY DEF DebtsTyped
<1>3. Differ(Deltas', Deltas, Owing', r)
  BY DEF Differ, Deltas, SameDebt
<1>4. Owed' = Deltas'[r] + Owed
  <2>1. Parts(Deltas', Deltas, Owing', r)
    BY <1>1, <1>3, SumWithout
  <2> QED
    BY <1>1, <1>2, <2>1 DEF Parts
<1>5. Newly = Newly' \ {r}
  BY DEF Newly, SameDebt
<1>6. Cardinality(Newly') = Cardinality(Newly) + IF runner'[r].old = 0 THEN 1 ELSE 0
  <2>1. CASE runner'[r].old = 0
    <3>1. r \in Newly' /\ Newly' = Newly \cup {r} /\ r \notin Newly
      BY <1>5, <2>1 DEF Newly
    <3> QED
      BY <1>2, <2>1, <3>1, FS_AddElement
  <2>2. CASE runner'[r].old # 0
    <3>1. Newly' = Newly
      BY <1>5, <2>2 DEF Newly
    <3> QED
      BY <1>2, <2>2, <3>1
  <2> QED
    BY <2>1, <2>2
<1> QED
  BY <1>1, <1>4, <1>6

LEMMA DocTyped ==
  ASSUME NEW d, d \in [Row -> Value \cup {0}]
  PROVE  Summable(d, Row)
<1> DEFINE V == Value \cup {0}
<1>1. V \subseteq Int /\ IsFiniteSet(Row)
  BY ConsumerAssumption DEF Value
<1>2. d \in [Row -> V]
  OBVIOUS
<1> HIDE DEF V
<1> QED
  BY <1>1, <1>2 DEF Summable

\* A row is written.
LEMMA TotalIs ==
  ASSUME NEW w \in Row, NEW v \in Value, doc \in [Row -> Value \cup {0}],
         doc' = [doc EXCEPT ![w] = v]
  PROVE  /\ Total' = Total - doc[w] + v /\ Total \in Int
         /\ Cardinality(Stored') = Cardinality(Stored) + IF doc[w] = 0 THEN 1 ELSE 0
         /\ Cardinality(Stored) \in Nat
<1>1. Value \subseteq Int /\ 0 \notin Value /\ IsFiniteSet(Row)
  BY ConsumerAssumption DEF Value
<1>2. DOMAIN doc = Row /\ DOMAIN doc' = Row /\ doc'[w] = v /\ \A x \in Row \ {w} : doc'[x] = doc[x]
  OBVIOUS
<1>3. doc' \in [Row -> Value \cup {0}]
  OBVIOUS
<1>4. Summable(doc, Row) /\ Summable(doc', Row) /\ Differ(doc, doc', Row, w)
  BY <1>2, <1>3, DocTyped DEF Differ
<1>5. Replaces(doc, doc', Row, w)
  BY <1>4, SumReplaced
<1>6. Total' = Total - doc[w] + v /\ Total \in Int
  BY <1>2, <1>5 DEF Total, SumFunction, Replaces
<1>7. IsFiniteSet(Stored) /\ Cardinality(Stored) \in Nat
  BY <1>1, FS_Subset, FS_CardinalityType DEF Stored
<1>8. Stored' = Stored \cup {w} /\ (w \in Stored <=> doc[w] # 0)
  BY <1>1, <1>2 DEF Stored
<1>9. Cardinality(Stored') = IF w \in Stored THEN Cardinality(Stored) ELSE Cardinality(Stored) + 1
  BY <1>7, <1>8, FS_AddElement
<1> QED
  BY <1>6, <1>7, <1>8, <1>9

-------------------------------------------------------------------------------
(* The rollup agrees with the store, step by step *)

Balance ==
  /\ rollup.sum + Owed = Total
  /\ rollup.count + Cardinality(Newly) = Cardinality(Stored)

LEMMA Numbers ==
  ASSUME TypeOK
  PROVE  /\ rollup.sum \in Int /\ rollup.count \in Int
         /\ Total \in Int /\ Cardinality(Stored) \in Nat
<1>1. doc \in [Row -> Value \cup {0}] /\ IsFiniteSet(Row)
  BY ConsumerAssumption DEF TypeOK
<1>2. Summable(doc, Row)
  BY <1>1, DocTyped
<1>3. SumFunctionOnSet(doc, Row) \in Int
  BY <1>2, SumTerm
<1>4. Total \in Int
  BY <1>1, <1>3 DEF Total, SumFunction
<1>5. Cardinality(Stored) \in Nat
  BY <1>1, FS_Subset, FS_CardinalityType DEF Stored
<1> QED
  BY <1>4, <1>5 DEF TypeOK

\* What a step of r leaves to the others.
Apart(r) ==
  /\ env' = env
  /\ \A q \in Runner \ {r} : /\ runner'[q].pc = runner[q].pc
                             /\ runner'[q].batch = runner[q].batch
                             /\ runner'[q].old = runner[q].old

LEMMA OthersOwe ==
  ASSUME NEW r, Apart(r)
  PROVE  Owing' \ {r} = Owing \ {r} /\ \A q \in Owing \ {r} : SameDebt(q)
  BY DEF Apart, Owing, At, SameDebt, Here, Id, Stream

\* Runner r owes nothing before and after, and nothing is written.
LEMMA BalanceSame ==
  ASSUME Balance, NEW r, Apart(r), r \notin Owing, r \notin Owing', doc' = doc, rollup' = rollup
  PROVE  Balance'
<1>1. Owing' = Owing /\ \A q \in Owing : SameDebt(q)
  BY OthersOwe
<1>2. Owed' = Owed /\ Newly' = Newly
  BY <1>1, DebtsSame
<1>3. Total' = Total /\ Stored' = Stored
  BY DEF Total, Stored
<1> QED
  BY <1>2, <1>3 DEF Balance

\* Runner r pays its debt, which may be nothing.
LEMMA BalancePaid ==
  ASSUME Inv, DebtsTyped, DebtsTyped', Balance, NEW r \in Owing, Apart(r), r \notin Owing', doc' = doc,
         \/ rollup' = rollup /\ ~Changes(r)
         \/ rollup' = [sum |-> rollup.sum + Here(r).val - runner[r].old,
                       count |-> rollup.count + IF runner[r].old = 0 THEN 1 ELSE 0]
  PROVE  Balance'
<1>1. Owing' = Owing \ {r} /\ \A q \in Owing' : SameDebt(q)
  BY OthersOwe
<1>2. /\ Owed = (Here(r).val - runner[r].old) + Owed'
      /\ Cardinality(Newly) = Cardinality(Newly') + IF runner[r].old = 0 THEN 1 ELSE 0
  BY <1>1, DebtPaid
<1>3. Total' = Total /\ Stored' = Stored
  BY DEF Total, Stored
<1>4. r \in Runner /\ runner[r].batch # {}
  BY DEF Owing, Inv, Types, InHand, Between, At
<1>5. Here(r).val \in Int /\ Here(r).val # 0
  BY <1>4, HereIs, RowIs DEF Inv, Types
<1>6. runner[r].old \in Int
  BY <1>4, RunnerIs, ConsumerAssumption DEF Record, Value, Inv, Types
<1>7. Owed' \in Int /\ Cardinality(Newly') \in Nat
  BY DEF DebtsTyped
<1>8. rollup.sum \in Int /\ rollup.count \in Int
  BY Numbers DEF Inv, Types
<1>9. CASE rollup' = rollup /\ ~Changes(r)
  <2>1. Here(r).val = runner[r].old
    BY <1>9 DEF Changes
  <2>2. Owed = Owed' /\ Cardinality(Newly) = Cardinality(Newly')
    BY <1>2, <1>5, <1>6, <1>7, <2>1
  <2> QED
    BY <1>3, <1>9, <2>2 DEF Balance
<1>10. CASE rollup' = [sum |-> rollup.sum + Here(r).val - runner[r].old,
                       count |-> rollup.count + IF runner[r].old = 0 THEN 1 ELSE 0]
  <2>1. /\ rollup'.sum = rollup.sum + Here(r).val - runner[r].old
        /\ rollup'.count = rollup.count + IF runner[r].old = 0 THEN 1 ELSE 0
    BY <1>10
  <2>2. rollup'.sum + Owed' = rollup.sum + Owed
    BY <1>2, <1>5, <1>6, <1>7, <1>8, <2>1
  <2>3. rollup'.count + Cardinality(Newly') = rollup.count + Cardinality(Newly)
    BY <1>2, <1>7, <1>8, <2>1
  <2> QED
    BY <1>3, <2>2, <2>3 DEF Balance
<1> QED
  BY <1>9, <1>10

LEMMA BalanceStores ==
  ASSUME Inv, DebtsTyped, DebtsTyped', Balance, ~torn',
         NEW r \in Runner, NEW rec \in Record(1..delivered), Stores(r, rec)
  PROVE  Balance'
<1> USE DEF Inv, Types
<1>1. /\ runner[r].batch # {} /\ r \notin Owing /\ runner[r].old = doc[Here(r).row]
  BY DEF Stores, InHand, Between, Fresh, At, Owing
<1>2. Here(r).row \in Row /\ Here(r).val \in Value /\ Here(r).val # 0 /\ Here(r).val \in Int
  BY <1>1, HereIs, RowIs
<1>3. runner'[r] = rec /\ Apart(r)
  <2>1. \A q \in Runner \ {r} : runner[q] \in Record(1..delivered)
    BY RunnerIs
  <2> QED
    BY <2>1 DEF Stores, Write, Apart, Record
<1>4. doc \in [Row -> Value \cup {0}] /\ doc' = [doc EXCEPT ![Here(r).row] = Here(r).val] /\ rollup' = rollup
  BY DEF Stores, Write, TypeOK
<1>5. CASE /\ rec.pc = "phase2" /\ rec.batch = runner[r].batch /\ rec.old = runner[r].old
  <2>1. r \in Owing' /\ Owing = Owing' \ {r} /\ \A q \in Owing : SameDebt(q)
    <3>1. r \in Owing'
      BY <1>3, <1>5 DEF Owing, At
    <3> QED
      BY <1>1, <1>3, <3>1, OthersOwe
  <2>2. Here(r)' = Here(r) /\ runner'[r].old = runner[r].old
    BY <1>3, <1>5 DEF Apart, Here, Id, Stream
  <2>3. /\ Owed' = (Here(r)'.val - runner'[r].old) + Owed
        /\ Cardinality(Newly') = Cardinality(Newly) + IF runner'[r].old = 0 THEN 1 ELSE 0
    BY <2>1, DebtMade
  <2>4. /\ Total' = Total - doc[Here(r).row] + Here(r).val /\ Total \in Int
        /\ Cardinality(Stored') = Cardinality(Stored) + IF doc[Here(r).row] = 0 THEN 1 ELSE 0
        /\ Cardinality(Stored) \in Nat
    BY <1>2, <1>4, TotalIs
  <2>5. runner[r].old \in Int
    BY RunnerIs, ConsumerAssumption DEF Record, Value
  <2>6. Owed \in Int /\ Cardinality(Newly) \in Nat
    BY DEF DebtsTyped
  <2>7. rollup.sum \in Int /\ rollup.count \in Int
    BY Numbers
  <2>8. rollup.sum + Owed' = Total'
    <3>1. Owed' = (Here(r).val - runner[r].old) + Owed
      BY <2>2, <2>3
    <3>2. Total' = Total - runner[r].old + Here(r).val
      BY <1>1, <2>4
    <3>3. rollup.sum + Owed = Total
      BY DEF Balance
    <3> DEFINE v == Here(r).val
               d == runner[r].old
               s == rollup.sum
    <3>4. v \in Int /\ d \in Int /\ s \in Int
      BY <1>2, <2>5, <2>7
    <3>5. Owed' = (v - d) + Owed /\ Total' = Total - d + v /\ s + Owed = Total
      BY <3>1, <3>2, <3>3
    <3> HIDE DEF Inv, Types, v, d, s
    <3>6. s + Owed' = Total'
      BY <2>4, <2>6, <3>4, <3>5
    <3> QED
      BY <3>6 DEF s
  <2>9. rollup.count + Cardinality(Newly') = Cardinality(Stored')
    BY <1>1, <2>2, <2>3, <2>4, <2>6, <2>7 DEF Balance
  <2> QED
    BY <1>4, <2>8, <2>9 DEF Balance
<1>6. CASE rec.pc = "idle" /\ torn' = (torn \/ Changes(r))
  <2>1. Here(r).val = doc[Here(r).row]
    BY <1>1, <1>6 DEF Changes
  <2>2. doc' = doc
    BY <1>2, <1>4, <2>1
  <2>3. r \notin Owing'
    BY <1>3, <1>6 DEF Owing, At
  <2> QED
    BY <1>1, <1>3, <1>4, <2>2, <2>3, BalanceSame
<1> QED
  BY <1>5, <1>6 DEF Stores

\* A phase 1 that was refused leaves a debt of nothing, or a torn row.
LEMMA BalanceSkips ==
  ASSUME Inv, DebtsTyped, DebtsTyped', Balance, ~torn',
         NEW r \in Runner, NEW rec \in Record(1..delivered), Skips(r, rec)
  PROVE  Balance'
<1>1. runner'[r] = rec /\ Apart(r) /\ rec.pc = "phase2" /\ rec.batch = runner[r].batch
      /\ rec.old = runner[r].old /\ doc' = doc /\ rollup' = rollup /\ env' = env
  BY DEF Skips, Apart, Inv, Types, TypeOK, store
<1>2. r \notin Owing /\ r \in Owing' /\ runner[r].batch # {}
  BY <1>1 DEF Skips, Owing, At, Inv, Types, InHand, Between
<1>3. Owing = Owing' \ {r} /\ \A q \in Owing : SameDebt(q)
  BY <1>1, <1>2, OthersOwe
<1>4. Here(r)' = Here(r) /\ runner'[r].old = runner[r].old
  BY <1>1, HereSame
<1>5. /\ Owed' = (Here(r)'.val - runner'[r].old) + Owed
      /\ Cardinality(Newly') = Cardinality(Newly) + IF runner'[r].old = 0 THEN 1 ELSE 0
  BY <1>2, <1>3, DebtMade
<1>6. Here(r).val \in Int /\ Here(r).val # 0
  BY <1>2, HereIs, RowIs DEF Inv, Types
<1>7. Here(r).val = runner[r].old
  BY DEF Skips, Changes
<1>8. Owed \in Int /\ Cardinality(Newly) \in Nat
  BY DEF DebtsTyped
<1>9. Owed' = Owed /\ Cardinality(Newly') = Cardinality(Newly)
  BY <1>4, <1>5, <1>6, <1>7, <1>8
<1>10. Total' = Total /\ Stored' = Stored
  BY <1>1 DEF Total, Stored
<1> QED
  BY <1>1, <1>9, <1>10 DEF Balance

LEMMA BalanceRolls ==
  ASSUME Inv, DebtsTyped, DebtsTyped', Balance, ~torn',
         NEW r \in Runner, NEW rec \in Record(1..delivered), Rolls(r, rec)
  PROVE  Balance'
<1>1. r \in Owing
  BY DEF Rolls, Owing
<1>2. runner'[r] = rec /\ Apart(r)
  BY DEF Rolls, Apart, Inv, Types, TypeOK
<1>3. r \notin Owing'
  BY <1>2 DEF Rolls, Owing, At
<1>4. doc' = doc
  BY DEF Rolls
<1>5. \/ rollup' = rollup /\ ~Changes(r)
      \/ rollup' = [sum |-> rollup.sum + Here(r).val - runner[r].old,
                    count |-> rollup.count + IF runner[r].old = 0 THEN 1 ELSE 0]
  BY DEF Rolls, RollUp
<1> QED
  BY <1>1, <1>2, <1>3, <1>4, <1>5, BalancePaid

LEMMA BalanceTurn ==
  ASSUME Inv, DebtsTyped, DebtsTyped', Balance, ~torn',
         NEW r \in Runner, NEW rec \in Record(1..delivered), Turn(r, rec)
  PROVE  Balance'
<1>1. runner'[r] = rec /\ Apart(r)
  BY DEF Turn, Apart, Inv, Types, TypeOK
<1>2. r \notin Owing'
  BY <1>1 DEF Turn, Owing, At
<1>3. doc' = doc /\ rollup' = rollup
  BY DEF Turn, store
<1>4. CASE r \in Owing
  <2>1. ~Changes(r)
    BY <1>4 DEF Turn, Owing
  <2> QED
    BY <1>1, <1>2, <1>3, <1>4, <2>1, BalancePaid
<1>5. CASE r \notin Owing
  BY <1>1, <1>2, <1>3, <1>5, BalanceSame
<1> QED
  BY <1>4, <1>5

LEMMA BalanceOther ==
  ASSUME Inv, Balance, NEW r \in Runner,
         ReadNew(r) \/ \E rec \in Record(1..delivered) : Acks(r, rec)
  PROVE  Balance'
<1>1. r \notin Owing
  BY DEF ReadNew, Acks, Owing, At
<1>2. Apart(r)
  BY DEF ReadNew, Acks, Apart, Inv, Types, TypeOK
<1>3. r \notin Owing'
  BY DEF ReadNew, Acks, Owing, At, Inv, Types, TypeOK
<1>4. doc' = doc /\ rollup' = rollup
  BY DEF ReadNew, Acks, store
<1> QED
  BY <1>1, <1>2, <1>3, <1>4, BalanceSame

LEMMA BalanceKept ==
  ASSUME Inv, DebtsTyped, DebtsTyped', RollupAgrees, Kinds
  PROVE  RollupAgrees'
<1>1. env' = env /\ (torn => torn')
  <2>1. ASSUME NEW r \in Runner, ReadNew(r) PROVE env' = env /\ torn' = torn
    BY <2>1 DEF ReadNew, history
  <2>2. ASSUME NEW r \in Runner, NEW rec, Turn(r, rec) PROVE env' = env /\ (torn => torn')
    BY <2>2 DEF Turn, Counts
  <2>7. ASSUME NEW r \in Runner, NEW rec, Skips(r, rec) PROVE env' = env /\ (torn => torn')
    BY <2>7 DEF Skips, Counts
  <2>3. ASSUME NEW r \in Runner, NEW rec, Stores(r, rec) PROVE env' = env /\ (torn => torn')
    BY <2>3 DEF Stores, Counts
  <2>4. ASSUME NEW r \in Runner, NEW rec, Rolls(r, rec) PROVE env' = env /\ (torn => torn')
    BY <2>4 DEF Rolls, Counts
  <2>5. ASSUME NEW r \in Runner, NEW rec, Acks(r, rec) PROVE env' = env /\ (torn => torn')
    BY <2>5 DEF Acks, Counts
  <2>6. ASSUME NEW r \in Runner, NEW rec, Sends(r, rec) PROVE env' = env /\ (torn => torn')
    BY <2>6 DEF Sends, Pipeline, Counts
  <2> QED
    BY <2>1, <2>2, <2>3, <2>4, <2>5, <2>6, <2>7 DEF Kinds
<1> SUFFICES ASSUME env.atomic, ~torn' PROVE Balance'
  BY <1>1 DEF RollupAgrees, Balance, Owed, Deltas, Newly
<1>2. Balance
  BY <1>1, AgreesIs DEF Balance
<1>3. ASSUME NEW r \in Runner, NEW rec \in Record(1..delivered), Sends(r, rec) PROVE FALSE
  BY <1>3 DEF Sends, Pipeline
<1> QED
  BY <1>2, <1>3, BalanceStores, BalanceSkips, BalanceRolls, BalanceTurn, BalanceOther
     DEF Kinds

LEMMA AgreeStutter ==
  ASSUME StoreAgrees, UNCHANGED vars
  PROVE  StoreAgrees'
  BY DEF StoreAgrees, RollupAgrees, AckedIsStored, Total, Stored, Owing, At, Here, Id, RowsOf,
         Stream, vars, group, store, history

LEMMA AgreeStarts ==
  ASSUME Init
  PROVE  StoreAgrees
<1>1. Inv
  BY Starts
<1>2. \A x \in Row : doc[x] = 0
  BY DEF Init
<1>3. Owing = {}
  BY IdleIs DEF Init, Owing, At
<1>4. Stored = {} /\ Newly = {}
  BY <1>2, <1>3 DEF Stored, Newly
<1>5. Owed = 0
  BY DeltasAre, <1>1, <1>3, SumTerm DEF DebtsTyped, Inv
<1>6. Total = 0
  <2>1. SumFunctionOnSet(doc, Row) = 0
    BY <1>2, ConsumerAssumption, SumOfZeros
  <2> QED
    BY <2>1 DEF Init, Total, SumFunction
<1>7. Cardinality({}) = 0
  BY FS_EmptySet
<1>8. RollupAgrees
  BY <1>4, <1>5, <1>6, <1>7, AgreesIs DEF Init
<1>9. AckedIsStored
  BY DEF Init, AckedIsStored, RowsOf
<1> QED
  BY <1>8, <1>9 DEF StoreAgrees

\* Whatever the runners do at once, what is stored agrees with the rollup and with
\* what was acknowledged.
THEOREM StoreSound == Spec => []StoreAgrees
<1>1. Inv => DebtsTyped
  BY DeltasAre DEF Inv
<1>2. ASSUME Inv, DebtsTyped, DebtsTyped', StoreAgrees, [Next]_vars PROVE StoreAgrees'
  <2>1. CASE Next
    <3>1. Kinds
      BY <1>2, <2>1, StepKinds DEF Inv, Types
    <3> QED
      BY <1>2, <3>1, BalanceKept, AckedStep DEF StoreAgrees
  <2>2. CASE UNCHANGED vars
    BY <1>2, <2>2, AgreeStutter
  <2> QED
    BY <1>2, <2>1, <2>2
<1> QED
  BY <1>1, <1>2, AgreeStarts, ConsumerTypes, PTL DEF Spec
================================================================================
