--------------------------- MODULE DevToolsProofs ---------------------------
(***************************************************************************)
(* Proofs about the commands of paw-test and the learning loop (PawTest), for every  *)
(* suite, fuzzer, adapter, teacher and judge; about the counters of the shadow       *)
(* runner (ShadowDrain), which drain(), shutdown() and stats() read; and about the     *)
(* cache of grammars and the bound function (SchemaLoader, FieldRules).            *)
(*                                                                         *)
(* The invariant of the loop is LoopInv; ReportTellsTruth follows from it, and       *)
(* the invariants of the other theorems (LabelsStand itself, StubsInv, MeasuredInv,  *)
(* FilesInv and DiffShown) are kept together with it.  Those of SchemaLoader are     *)
(* LoaderInv, that what is cached and returned has been compiled, and CountInv.        *)
(***************************************************************************)
EXTENDS PawTest, SchemaLoader, ShadowDrain, MutationRun, FiniteSetTheorems, SequenceTheorems, TLAPS

-----------------------------------------------------------------------------
(* What stands at some places of a sequence. *)

\* The rank of a number in a finite set tells the number, and every rank is one of them.
LEMMA Ranks ==
  ASSUME NEW F \in SUBSET Nat, IsFiniteSet(F)
  PROVE  /\ Cardinality(F) \in Nat
         /\ \A i \in F : Rank(F, i) \in 1..Cardinality(F)
         /\ \A i, k \in F : i < k => Rank(F, i) < Rank(F, k)
         /\ \A n \in 1..Cardinality(F) : \E i \in F : Rank(F, i) = n
  <1> DEFINE Upto(i) == {j \in F : j <= i}
             N == Cardinality(F)
  <1>1. N \in Nat
    BY FS_CardinalityType
  <1>2. \A i \in F : /\ Upto(i) \in SUBSET F /\ i \in Upto(i)
                     /\ IsFiniteSet(Upto(i)) /\ Rank(F, i) = Cardinality(Upto(i))
    BY FS_Subset DEF Rank
  <1>3. ASSUME NEW i \in F PROVE Rank(F, i) \in 1..N
    <2> DEFINE r == Cardinality(Upto(i))
    <2>1. r \in Nat /\ r <= N
      BY <1>2, FS_Subset, FS_CardinalityType
    <2>2. r # 0
      BY <1>2, FS_EmptySet
    <2>3. r \in 1..N
      <3> HIDE DEF r, N
      <3> QED BY <1>1, <2>1, <2>2
    <2> QED BY <1>2, <2>3
  <1>4. ASSUME NEW i \in F, NEW k \in F, i < k PROVE Rank(F, i) < Rank(F, k)
    <2> DEFINE r == Cardinality(Upto(i))
               t == Cardinality(Upto(k))
    <2>1. Upto(i) \in SUBSET Upto(k) /\ Upto(i) # Upto(k)
      <3>1. i \in Nat /\ k \in Nat /\ \A j \in F : j \in Nat
        OBVIOUS
      <3>2. \A j \in F : j <= i => j <= k
        BY <1>4, <3>1
      <3>3. ~ (k <= i)
        BY <1>4, <3>1
      <3>4. Upto(i) \subseteq Upto(k)
        BY <3>2
      <3>5. k \in Upto(k) /\ k \notin Upto(i)
        BY <1>2, <3>3
      <3> HIDE DEF Upto
      <3> QED BY <3>4, <3>5
    <2>2. r <= t /\ r # t
      BY <1>2, <2>1, FS_Subset
    <2>3. r \in Nat /\ t \in Nat
      BY <1>2, FS_CardinalityType
    <2>4. r < t
      <3> HIDE DEF r, t
      <3> QED BY <2>2, <2>3
    <2> QED BY <1>2, <2>4
  <1>5. ASSUME NEW n \in 1..N PROVE \E i \in F : Rank(F, i) = n
    <2> DEFINE f == [i \in F |-> Rank(F, i)]
    <2>1. f \in Injection(F, 1..N)
      <3>1. f \in [F -> 1..N]
        BY <1>3
      <3>2. \A i, k \in F : i < k \/ i = k \/ k < i
        OBVIOUS
      <3>3. \A i, k \in F : f[i] = f[k] => i = k
        <4>1. \A i \in F : f[i] = Rank(F, i) /\ Rank(F, i) \in Int
          BY <1>1, <1>3
        <4> HIDE DEF f
        <4> QED BY <1>4, <3>2, <4>1
      <3> QED BY <3>1, <3>3 DEF Injection, IsInjective
    <2>2. IsFiniteSet(1..N) /\ Cardinality(1..N) = N
      <3> HIDE DEF N
      <3> QED BY <1>1, FS_Interval
    <2>3. f \in Surjection(F, 1..N)
      <3> HIDE DEF f
      <3> QED BY <2>1, <2>2, FS_Injection
    <2> QED BY <2>3 DEF Surjection
  <1> QED BY <1>1, <1>3, <1>4, <1>5

LEMMA InOrderSorts ==
  ASSUME NEW F \in SUBSET Nat, IsFiniteSet(F)
  PROVE  /\ InOrder(F) \in Seq(F) /\ Len(InOrder(F)) = Cardinality(F)
         /\ \A n \in 1..Cardinality(F) : Rank(F, InOrder(F)[n]) = n
         /\ \A i \in F : InOrder(F)[Rank(F, i)] = i
  <1> DEFINE N == Cardinality(F)
  <1>1. N \in Nat
    BY FS_CardinalityType
  <1>2. \A n \in 1..N : InOrder(F)[n] \in F /\ Rank(F, InOrder(F)[n]) = n
    BY Ranks DEF InOrder
  <1>3. InOrder(F) \in [1..N -> F]
    BY <1>2 DEF InOrder
  <1>4. InOrder(F) \in Seq(F) /\ Len(InOrder(F)) = N
    <2> HIDE DEF N
    <2> QED BY <1>1, <1>3
  <1>5. ASSUME NEW i \in F PROVE InOrder(F)[Rank(F, i)] = i
    <2> DEFINE k == InOrder(F)[Rank(F, i)]
    <2>1. Rank(F, i) \in 1..N
      BY Ranks
    <2>2. k \in F /\ Rank(F, k) = Rank(F, i)
      BY <1>2, <2>1
    <2>3. Rank(F, k) \in Int
      BY <1>1, <2>2, <2>1
    <2>4. k < i \/ k = i \/ i < k
      <3>1. k \in Nat /\ i \in Nat
        BY <2>2
      <3> HIDE DEF k
      <3> QED BY <3>1
    <2> HIDE DEF k
    <2>5. k = i
      BY <2>2, <2>3, <2>4, Ranks
    <2> QED BY <2>5 DEF k
  <1> QED BY <1>2, <1>4, <1>5

LEMMA KeptStands ==
  ASSUME NEW s, NEW F \in SUBSET Nat, IsFiniteSet(F), NEW S, \A i \in F : s[i] \in S
  PROVE  /\ Kept(s, F) \in Seq(S) /\ Len(Kept(s, F)) = Cardinality(F)
         /\ \A n \in 1..Cardinality(F) : InOrder(F)[n] \in F /\ Kept(s, F)[n] = s[InOrder(F)[n]]
         /\ \A i \in F : Rank(F, i) \in 1..Cardinality(F) /\ Kept(s, F)[Rank(F, i)] = s[i]
  <1> DEFINE N == Cardinality(F)
  <1>1. N \in Nat
    BY FS_CardinalityType
  <1>2. \A n \in 1..N : InOrder(F)[n] \in F
    BY InOrderSorts
  <1>3. DOMAIN InOrder(F) = 1..N
    BY DEF InOrder
  <1>4. Kept(s, F) = [n \in 1..N |-> s[InOrder(F)[n]]]
    BY <1>3 DEF Kept
  <1>5. Kept(s, F) \in [1..N -> S]
    BY <1>2, <1>4
  <1>6. Kept(s, F) \in Seq(S) /\ Len(Kept(s, F)) = N
    <2> HIDE DEF N
    <2> QED BY <1>1, <1>5
  <1>7. \A i \in F : Rank(F, i) \in 1..N /\ InOrder(F)[Rank(F, i)] = i
    BY Ranks, InOrderSorts
  <1> QED BY <1>2, <1>4, <1>6, <1>7

LEMMA SeqMembers ==
  ASSUME NEW S, NEW s \in Seq(S)
  PROVE  DOMAIN s = 1..Len(s) /\ Len(s) \in Nat /\ \A i \in 1..Len(s) : s[i] \in S
  OBVIOUS

\* Where a value comes first in a sequence.
LEMMA FirstPlace ==
  ASSUME NEW s, NEW n \in Nat, NEW i \in 1..n
  PROVE  \E k \in 1..n : s[k] = s[i] /\ ComesFirst(s, k)
  <1> DEFINE G == {k \in 1..n : s[k] = s[i]}
  <1>1. G \in SUBSET Nat /\ IsFiniteSet(G) /\ i \in G
    <2>1. G \in SUBSET (1..n) /\ IsFiniteSet(1..n)
      BY FS_Interval
    <2> QED BY <2>1, FS_Subset
  <1>2. Rank(G, i) \in 1..Cardinality(G) /\ Cardinality(G) \in Nat
    BY <1>1, Ranks
  <1>3. 1 \in 1..Cardinality(G)
    BY <1>2
  <1>4. PICK k \in G : Rank(G, k) = 1
    BY <1>1, <1>3, Ranks
  <1>5. ASSUME NEW j \in 1..(k - 1) PROVE s[j] # s[k]
    <2>1. j \in 1..n /\ j < k /\ k \in 1..n
      BY <1>5
    <2>2. SUFFICES ASSUME j \in G PROVE FALSE
      BY <2>1, <1>4
    <2>3. Rank(G, j) < Rank(G, k) /\ Rank(G, j) \in 1..Cardinality(G)
      BY <1>1, <2>1, <2>2, Ranks
    <2> QED BY <1>2, <1>4, <2>3
  <1> QED BY <1>5 DEF ComesFirst

LEMMA DistinctStands ==
  ASSUME NEW S, NEW s \in Seq(S)
  PROVE  /\ Distinct(s) \in Seq(S)
         /\ \A n \in 1..Len(Distinct(s)) : \E i \in 1..Len(s) : Distinct(s)[n] = s[i]
         /\ \A i \in 1..Len(s) : \E n \in 1..Len(Distinct(s)) : Distinct(s)[n] = s[i]
         /\ \A n, m \in 1..Len(Distinct(s)) : Distinct(s)[n] = Distinct(s)[m] => n = m
  <1> DEFINE F == {i \in DOMAIN s : ComesFirst(s, i)}
             d == Distinct(s)
  <1>1. DOMAIN s = 1..Len(s) /\ Len(s) \in Nat /\ \A i \in 1..Len(s) : s[i] \in S
    OBVIOUS
  <1>2. F \in SUBSET Nat /\ IsFiniteSet(F)
    <2>1. F \in SUBSET (1..Len(s)) /\ IsFiniteSet(1..Len(s))
      BY <1>1, FS_Interval
    <2> QED BY <2>1, FS_Subset
  <1>3. d = Kept(s, F)
    BY DEF Distinct
  <1>4. \A i \in F : i \in 1..Len(s) /\ s[i] \in S /\ \A j \in 1..(i - 1) : s[j] # s[i]
    BY <1>1 DEF ComesFirst
  <1>5. ASSUME NEW i \in 1..Len(s) PROVE \E k \in F : s[k] = s[i]
    <2>1. PICK k \in 1..Len(s) : s[k] = s[i] /\ ComesFirst(s, k)
      BY <1>1, FirstPlace
    <2>2. k \in F
      BY <1>1, <2>1
    <2> QED BY <2>1, <2>2
  <1> HIDE DEF F
  <1>6. /\ d \in Seq(S) /\ Len(d) = Cardinality(F)
        /\ \A n \in 1..Cardinality(F) : InOrder(F)[n] \in F /\ d[n] = s[InOrder(F)[n]]
        /\ \A i \in F : Rank(F, i) \in 1..Cardinality(F) /\ d[Rank(F, i)] = s[i]
    <2>1. \A i \in F : s[i] \in S
      BY <1>4
    <2> HIDE DEF d
    <2>2. /\ Kept(s, F) \in Seq(S) /\ Len(Kept(s, F)) = Cardinality(F)
          /\ \A n \in 1..Cardinality(F) : InOrder(F)[n] \in F /\ Kept(s, F)[n] = s[InOrder(F)[n]]
          /\ \A i \in F : Rank(F, i) \in 1..Cardinality(F) /\ Kept(s, F)[Rank(F, i)] = s[i]
      BY <1>2, <2>1, KeptStands
    <2> QED BY <1>3, <2>2
  <1> HIDE DEF d
  <1>7. ASSUME NEW n \in 1..Len(d), NEW m \in 1..Len(d), d[n] = d[m] PROVE n = m
    <2> DEFINE i == InOrder(F)[n]
               k == InOrder(F)[m]
    <2>1. i \in F /\ k \in F /\ s[i] = s[k] /\ Rank(F, i) = n /\ Rank(F, k) = m
      BY <1>2, <1>6, <1>7, InOrderSorts
    <2> HIDE DEF i, k
    <2>2. i \in 1..Len(s) /\ k \in 1..Len(s)
      BY <1>4, <2>1
    <2>3. i < k \/ i = k \/ k < i
      BY <2>2
    <2>4. ~ (i < k) /\ ~ (k < i)
      <3>1. i < k => i \in 1..(k - 1)
        BY <2>2
      <3>2. k < i => k \in 1..(i - 1)
        BY <2>2
      <3> QED BY <1>4, <2>1, <3>1, <3>2
    <2> QED BY <2>1, <2>3, <2>4
  <1>8. \A n \in 1..Len(d) : \E i \in 1..Len(s) : d[n] = s[i]
    BY <1>4, <1>6
  <1>9. \A i \in 1..Len(s) : \E n \in 1..Len(d) : d[n] = s[i]
    BY <1>5, <1>6
  <1> QED BY <1>6, <1>7, <1>8, <1>9 DEF d

-----------------------------------------------------------------------------
(* The cases of a suite, which are finitely many. *)

LEMMA GeneratedStands ==
  ASSUME NEW S, NEW fuzzing, fuzzing.kinds \in Seq({"empty", "whitespace", "unicode", "extremes"}),
         fuzzing.probes \in Seq(S), NEW T, NEW inputs \in Seq(T)
  PROVE  \E U : Generated(fuzzing, inputs) \in Seq(U)
  <1> DEFINE seeds == IF inputs = <<>> THEN <<Plain("example input")>> ELSE inputs
             width == Len(seeds) + 1
             size == Len(fuzzing.kinds) * width
             Nth(n) == Mutation(fuzzing.kinds[n \div width + 1], seeds, n % width)
             U == {Nth(n - 1) : n \in 1..size} \union S
  <1>1. size \in Nat
    <2>1. Len(seeds) \in Nat
      OBVIOUS
    <2>2. Len(fuzzing.kinds) \in Nat
      OBVIOUS
    <2> DEFINE a == Len(fuzzing.kinds)
               b == Len(seeds)
    <2>3. a \in Nat /\ b \in Nat
      BY <2>1, <2>2
    <2>4. a * (b + 1) \in Nat
      <3> HIDE DEF a, b
      <3> QED BY <2>3
    <2> QED BY <2>4
  <1>2. [n \in 1..size |-> Nth(n - 1)] \in [1..size -> U]
    OBVIOUS
  <1>3. [n \in 1..size |-> Nth(n - 1)] \in Seq(U)
    <2> HIDE DEF size, U, Nth
    <2> QED BY <1>1, <1>2
  <1>4. fuzzing.probes \in Seq(U)
    <2>1. S \subseteq U
      OBVIOUS
    <2> HIDE DEF U
    <2> QED BY <2>1
  <1>5. Generated(fuzzing, inputs) = [n \in 1..size |-> Nth(n - 1)] \o fuzzing.probes
    BY DEF Generated
  <1> HIDE DEF U, size, Nth
  <1>6. [n \in 1..size |-> Nth(n - 1)] \o fuzzing.probes \in Seq(U)
    BY <1>3, <1>4
  <1> QED BY <1>5, <1>6

LEMMA FuzzedStands ==
  ASSUME NEW s, LegalData(s)
  PROVE  \E U : /\ Generated(s.fuzzing, StandardInputs(s)) \in Seq(U)
                /\ Distinct(Generated(s.fuzzing, StandardInputs(s))) \in Seq(U)
                /\ Fuzzed(s).cases \in Seq(U)
                /\ Len(Fuzzed(s).cases) + Fuzzed(s).dropped
                     = Len(Distinct(Generated(s.fuzzing, StandardInputs(s))))
                /\ Fuzzed(s).dropped \in Nat
  <1> DEFINE g == Generated(s.fuzzing, StandardInputs(s))
             d == Distinct(g)
             c == Capped(d)
             C == [input : InputsOf(s), expected : Text \union {NoText}]
  <1>1. StandardInputs(s) \in Seq(InputsOf(s))
    <2>1. s.cases \in Seq(C)
      BY DEF LegalData
    <2>2. DOMAIN s.cases = 1..Len(s.cases) /\ Len(s.cases) \in Nat /\ \A i \in 1..Len(s.cases) : s.cases[i] \in C
      BY <2>1, SeqMembers
    <2>3. StandardInputs(s) \in [1..Len(s.cases) -> InputsOf(s)]
      BY <2>2 DEF StandardInputs
    <2> QED BY <2>2, <2>3
  <1>2. PICK U : g \in Seq(U)
    BY <1>1, GeneratedStands DEF LegalData
  <1> HIDE DEF g
  <1>3. d \in Seq(U) /\ Len(d) \in Nat
    BY <1>2, DistinctStands, SeqMembers
  <1> HIDE DEF d
  <1>4. c \in Seq(U) /\ Len(c) <= Len(d) /\ Len(c) \in Nat
    <2> DEFINE m == IF Len(d) < MaxFuzzed THEN Len(d) ELSE MaxFuzzed
    <2>1. m \in Nat /\ m <= Len(d)
      BY <1>3, SuiteAssumption
    <2>2. c = SubSeq(d, 1, m)
      BY DEF Capped
    <2> HIDE DEF m, c
    <2>3. c \in Seq(U) /\ Len(c) = m
      BY <1>3, <2>1, <2>2
    <2> QED BY <2>1, <2>3
  <1>5. Fuzzed(s).cases = c /\ Fuzzed(s).dropped = Len(d) - Len(c)
    BY DEF Fuzzed, Generate, g, d
  <1> HIDE DEF c
  <1>6. Len(d) - Len(c) \in Nat /\ Len(c) + (Len(d) - Len(c)) = Len(d)
    <2> DEFINE a == Len(d)
               b == Len(c)
    <2>1. a \in Nat /\ b \in Nat /\ b <= a
      BY <1>3, <1>4
    <2> HIDE DEF a, b
    <2>2. a - b \in Nat /\ b + (a - b) = a
      BY <2>1
    <2> QED BY <2>2 DEF a, b
  <1> QED BY <1>2, <1>3, <1>4, <1>5, <1>6 DEF g, d

LEMMA CasesStand ==
  ASSUME NEW s, LegalData(s)
  PROVE  /\ DOMAIN Cases(s) = 1..Len(Cases(s)) /\ Len(Cases(s)) \in Nat
         /\ IsFiniteSet(DOMAIN Cases(s)) /\ DOMAIN Cases(s) \in SUBSET Nat
         /\ Len(Cases(s)) = Len(s.cases) + Len(Fuzzed(s).cases)
         /\ DOMAIN s.cases \subseteq DOMAIN Cases(s)
  <1> DEFINE C == [input : InputsOf(s), expected : Text \union {NoText}]
             f == Fuzzed(s).cases
             u == [i \in DOMAIN f |-> Unkeyed(f[i])]
             a == s.cases
  <1>1. a \in Seq(C)
    BY DEF LegalData
  <1>2. PICK U : f \in Seq(U)
    BY FuzzedStands
  <1> DEFINE S == C \union {Unkeyed(x) : x \in U}
  <1> HIDE DEF f, a, C
  <1>3. u \in Seq(S) /\ Len(u) = Len(f)
    <2>1. DOMAIN f = 1..Len(f) /\ Len(f) \in Nat /\ \A i \in 1..Len(f) : f[i] \in U
      BY <1>2, SeqMembers
    <2>2. u \in [1..Len(f) -> S]
      BY <2>1
    <2> HIDE DEF S, u
    <2> QED BY <2>1, <2>2
  <1>4. a \in Seq(S)
    BY <1>1, SeqMembers
  <1>5. Cases(s) = a \o u
    BY DEF Cases, f, a
  <1> HIDE DEF S, u
  <1>6. Cases(s) \in Seq(S) /\ Len(Cases(s)) = Len(a) + Len(u)
    <2>1. a \o u \in Seq(S) /\ Len(a \o u) = Len(a) + Len(u)
      BY <1>3, <1>4, ConcatProperties
    <2> QED BY <1>5, <2>1
  <1>7. DOMAIN Cases(s) = 1..Len(Cases(s)) /\ Len(Cases(s)) \in Nat
    BY <1>6, SeqMembers
  <1>8. DOMAIN a = 1..Len(a) /\ Len(a) \in Nat /\ Len(u) \in Nat
    BY <1>3, <1>4, SeqMembers
  <1>9. DOMAIN a \subseteq DOMAIN Cases(s)
    BY <1>6, <1>7, <1>8
  <1>10. IsFiniteSet(DOMAIN Cases(s)) /\ DOMAIN Cases(s) \in SUBSET Nat
    BY <1>7, FS_Interval
  <1> QED BY <1>3, <1>6, <1>7, <1>9, <1>10 DEF f, a

-----------------------------------------------------------------------------
(* Answer keys, and the examples an adapter is compiled from. *)

LEMMA LastPlace ==
  ASSUME NEW G \in SUBSET Nat, IsFiniteSet(G), G # {}
  PROVE  \E i \in G : \A j \in G : j <= i
  <1> DEFINE N == Cardinality(G)
  <1>1. N \in 1..N /\ N \in Nat
    <2>1. N \in Nat /\ N # 0
      BY FS_CardinalityType, FS_EmptySet
    <2> HIDE DEF N
    <2> QED BY <2>1
  <1>2. PICK i \in G : Rank(G, i) = N
    BY <1>1, Ranks
  <1>3. ASSUME NEW j \in G PROVE j <= i
    <2>1. i < j => Rank(G, j) > N /\ Rank(G, j) \in 1..N
      BY <1>2, Ranks
    <2>2. ~ (i < j)
      <3> HIDE DEF N
      <3> QED BY <1>1, <2>1
    <2> QED BY <2>2
  <1> QED BY <1>3

LEMMA KeyIsText ==
  ASSUME NEW s, LegalData(s), NEW x \in Keyed(s)
  PROVE  Key(s, x) \in Text /\ x \in InputsOf(s)
  <1> DEFINE keys == {i \in DOMAIN s.cases : s.cases[i].input = x /\ s.cases[i].expected # NoText}
  <1>1. /\ s.cases \in Seq([input : InputsOf(s), expected : Text \union {NoText}])
        /\ DOMAIN s.cases = 1..Len(s.cases) /\ Len(s.cases) \in Nat
    BY DEF LegalData
  <1>2. keys \in SUBSET Nat /\ IsFiniteSet(keys)
    <2>1. keys \in SUBSET (1..Len(s.cases)) /\ IsFiniteSet(1..Len(s.cases))
      BY <1>1, FS_Interval
    <2> QED BY <2>1, FS_Subset
  <1>3. keys # {}
    BY DEF Keyed
  <1>4. \A i \in keys : /\ s.cases[i].expected \in Text
                        /\ x \in InputsOf(s)
    <2> DEFINE C == [input : InputsOf(s), expected : Text \union {NoText}]
    <2>1. \A i \in 1..Len(s.cases) : s.cases[i] \in C
      BY <1>1, SeqMembers
    <2> QED BY <1>1, <2>1
  <1> DEFINE k == CHOOSE i \in keys : \A j \in keys : j <= i
  <1>5. k \in keys
    <2> HIDE DEF keys
    <2> QED BY <1>2, <1>3, LastPlace
  <1>6. Key(s, x) = s.cases[k].expected
    BY DEF Key
  <1> HIDE DEF keys, k
  <1> QED BY <1>3, <1>4, <1>5, <1>6

\* What a query does to a dataset: an example of the input is given the label, or one is
\* added where there was none.
Upserted(I, d, x, l) ==
  /\ Upsert(d, x, l) \in Seq([input : I, output : Text]) /\ Upsert(d, x, l) # <<>>
  /\ \/ /\ Len(Upsert(d, x, l)) = Len(d)
        /\ \A i \in 1..Len(d) : /\ Upsert(d, x, l)[i].input = d[i].input
                                /\ Upsert(d, x, l)[i] \in {d[i], Example(x, l)}
     \/ /\ Len(Upsert(d, x, l)) = Len(d) + 1
        /\ \A i \in 1..Len(d) : Upsert(d, x, l)[i] = d[i] /\ d[i].input # x
        /\ Upsert(d, x, l)[Len(d) + 1] = Example(x, l)

LEMMA UpsertStands ==
  ASSUME NEW I, NEW d \in Seq([input : I, output : Text]), NEW x \in I, NEW l \in Text
  PROVE  Upserted(I, d, x, l)
  <1> DEFINE of == {i \in DOMAIN d : d[i].input = x}
             k == CHOOSE i \in of : \A j \in of : i <= j
             u == Upsert(d, x, l)
             R == [input : I, output : Text]
  <1>1. DOMAIN d = 1..Len(d) /\ Len(d) \in Nat /\ \A i \in 1..Len(d) : d[i] \in R
    BY SeqMembers
  <1>2. Example(x, l) \in R /\ Example(x, l).input = x
    BY DEF Example
  <1>3. CASE of = {}
    <2>1. u = Append(d, Example(x, l))
      BY <1>3 DEF Upsert
    <2>2. \A i \in 1..Len(d) : d[i].input # x
      BY <1>1, <1>3
    <2> HIDE DEF u, R, of, k
    <2>3. u \in Seq(R) /\ Len(u) = Len(d) + 1 /\ u # <<>>
      BY <1>2, <2>1 DEF R
    <2>4. /\ \A i \in 1..Len(d) : u[i] = d[i]
          /\ u[Len(d) + 1] = Example(x, l)
      BY <1>1, <1>2, <2>1
    <2> QED BY <2>2, <2>3, <2>4 DEF u, R, Upserted
  <1>4. CASE of # {}
    <2>1. k \in of
      <3> DEFINE s == [i \in 1..Len(d) |-> d[i].input]
      <3>1. PICK i \in of : TRUE
        BY <1>4
      <3>2. PICK n \in 1..Len(d) : s[n] = s[i] /\ ComesFirst(s, n)
        BY <1>1, FirstPlace
      <3>3. n \in of
        BY <1>1, <3>2
      <3>4. \A j \in 1..(n - 1) : s[j] # s[n]
        BY <3>2 DEF ComesFirst
      <3>5. ASSUME NEW j \in of PROVE n <= j
        <4>1. j \in 1..Len(d) /\ s[j] = s[n]
          BY <1>1, <3>2, <3>3
        <4>2. j < n => j \in 1..(n - 1)
          BY <4>1
        <4> HIDE DEF s
        <4> QED BY <3>4, <4>1, <4>2
      <3> HIDE DEF of
      <3> QED BY <3>3, <3>5
    <2>2. u = [d EXCEPT ![k].output = l]
      BY <1>4 DEF Upsert
    <2>3. k \in 1..Len(d) /\ d[k].input = x
      BY <1>1, <2>1
    <2> HIDE DEF k, u, of
    <2>4. DOMAIN u = 1..Len(d) /\ \A i \in 1..Len(d) : u[i] = IF i = k THEN [d[k] EXCEPT !.output = l] ELSE d[i]
      BY <1>1, <2>2, <2>3
    <2>5. [d[k] EXCEPT !.output = l] = Example(x, l)
      BY <1>1, <2>3 DEF Example
    <2>6. u \in Seq(R) /\ Len(u) = Len(d) /\ u # <<>>
      <3>1. u \in [1..Len(d) -> R]
        BY <1>1, <1>2, <2>2, <2>4, <2>5
      <3> HIDE DEF R
      <3> QED BY <1>1, <2>3, <3>1
    <2>7. \A i \in 1..Len(d) : u[i].input = d[i].input /\ u[i] \in {d[i], Example(x, l)}
      BY <1>2, <2>3, <2>4, <2>5
    <2> QED BY <2>6, <2>7 DEF u, R, Upserted
  <1> QED BY <1>3, <1>4

LEMMA SeededStands ==
  ASSUME NEW s, LegalData(s)
  PROVE  /\ Seeded(s) \in Datasets(s)
         /\ s.initial # <<>> => Seeded(s) = s.initial
         /\ s.initial = <<>> =>
              /\ \A n \in 1..Len(Seeded(s)) :
                   Seeded(s)[n].input \in Keyed(s) /\ Seeded(s)[n].output = Key(s, Seeded(s)[n].input)
              /\ \A n, m \in 1..Len(Seeded(s)) : Seeded(s)[n].input = Seeded(s)[m].input => n = m
  <1> DEFINE F == {i \in DOMAIN s.cases : s.cases[i].expected # NoText}
             C == [input : InputsOf(s), expected : Text \union {NoText}]
             keyed == Kept(s.cases, F)
             all == [i \in DOMAIN keyed |-> keyed[i].input]
             inputs == Distinct(all)
             R == [input : InputsOf(s), output : Text]
             seeded == [i \in DOMAIN inputs |-> Example(inputs[i], Key(s, inputs[i]))]
  <1>1. s.cases \in Seq(C) /\ s.initial \in Seq(R)
    BY DEF LegalData, Datasets
  <1>2. DOMAIN s.cases = 1..Len(s.cases) /\ Len(s.cases) \in Nat /\ \A i \in 1..Len(s.cases) : s.cases[i] \in C
    BY <1>1, SeqMembers
  <1>3. F \in SUBSET Nat /\ IsFiniteSet(F)
    <2>1. F \in SUBSET (1..Len(s.cases)) /\ IsFiniteSet(1..Len(s.cases))
      BY <1>2, FS_Interval
    <2> QED BY <2>1, FS_Subset
  <1>4. \A i \in F : s.cases[i] \in C /\ s.cases[i].input \in Keyed(s)
    BY <1>2 DEF Keyed
  <1>5. /\ DOMAIN keyed = 1..Len(keyed) /\ Len(keyed) \in Nat
        /\ \A n \in 1..Len(keyed) : keyed[n].input \in Keyed(s)
    <2> DEFINE cases == s.cases
    <2>1. \A i \in F : cases[i] \in C
      BY <1>4
    <2>2. \A i \in F : cases[i].input \in Keyed(s)
      BY <1>4
    <2>3. keyed = Kept(cases, F)
      OBVIOUS
    <2> HIDE DEF F, keyed, cases, C
    <2>4. /\ keyed \in Seq(C) /\ Len(keyed) = Cardinality(F)
          /\ \A n \in 1..Cardinality(F) : InOrder(F)[n] \in F /\ keyed[n] = cases[InOrder(F)[n]]
      BY <1>3, <2>1, <2>3, KeptStands
    <2> QED BY <2>2, <2>4, SeqMembers
  <1>6. all \in Seq(Keyed(s))
    <2> HIDE DEF keyed
    <2>1. all \in [1..Len(keyed) -> Keyed(s)]
      BY <1>5
    <2> QED BY <1>5, <2>1
  <1>7. /\ inputs \in Seq(Keyed(s))
        /\ \A n, m \in 1..Len(inputs) : inputs[n] = inputs[m] => n = m
    <2> HIDE DEF all
    <2> QED BY <1>6, DistinctStands
  <1>8. DOMAIN inputs = 1..Len(inputs) /\ Len(inputs) \in Nat /\ \A n \in 1..Len(inputs) : inputs[n] \in Keyed(s)
    BY <1>7, SeqMembers
  <1>9. Seeded(s) = IF s.initial # <<>> THEN s.initial ELSE seeded
    BY DEF Seeded
  <1> HIDE DEF inputs
  <1>10. /\ seeded \in Seq(R) /\ Len(seeded) = Len(inputs)
         /\ \A n \in 1..Len(inputs) : seeded[n].input = inputs[n] /\ seeded[n].output = Key(s, inputs[n])
    <2>1. \A n \in 1..Len(inputs) : Example(inputs[n], Key(s, inputs[n])) \in R
      BY <1>8, KeyIsText DEF Example
    <2>2. seeded \in [1..Len(inputs) -> R]
      BY <1>8, <2>1
    <2>3. \A n \in 1..Len(inputs) : seeded[n] = Example(inputs[n], Key(s, inputs[n]))
      BY <1>8
    <2> HIDE DEF seeded, R
    <2> QED BY <1>8, <2>2, <2>3 DEF Example
  <1> HIDE DEF seeded
  <1> QED BY <1>1, <1>7, <1>8, <1>9, <1>10 DEF Datasets

-----------------------------------------------------------------------------
(* The invariant of the loop. *)

SuiteKept == \E s \in Suite : suite \in Versions(s)

LEMMA SuiteIsLegal ==
  ASSUME SuiteKept
  PROVE  /\ LegalSuite(suite) /\ LegalData(suite)
         /\ Missing \notin Datasets(suite) /\ Found \notin Datasets(suite) /\ Missing # Found
         /\ \A outcomes \in Outcomes(suite) : \A i \in DOMAIN Cases(suite) :
              outcomes[i] \in (Text \ {Placeholder}) \union Raises
  BY LoopAssumption DEF SuiteKept

\* What a command does to the suite leaves its cases and what it learns from alone.
LEMMA SuiteStays ==
  ASSUME SuiteKept, NEW b \in BOOLEAN, suite' = [suite EXCEPT !.autoRecompile = b]
  PROVE  /\ SuiteKept' /\ suite'.cases = suite.cases /\ suite'.initial = suite.initial
         /\ suite'.fuzzing = suite.fuzzing
         /\ Keyed(suite') = Keyed(suite) /\ Datasets(suite') = Datasets(suite)
         /\ \A x : Key(suite', x) = Key(suite, x)
  <1>1. PICK s \in Suite : suite \in Versions(s)
    BY DEF SuiteKept
  <1>2. suite' \in Versions(s)
    <2>1. CASE suite = s
      BY <2>1 DEF Versions
    <2>2. CASE suite # s
      <3>1. PICK c \in BOOLEAN : suite = [s EXCEPT !.autoRecompile = c]
        BY <1>1, <2>2 DEF Versions
      <3>2. suite' = [s EXCEPT !.autoRecompile = b]
        BY <3>1
      <3> QED BY <3>2 DEF Versions
    <2> QED BY <2>1, <2>2
  <1>3. {"cases", "initial", "fuzzing"} \subseteq DOMAIN suite
    BY SuiteIsLegal DEF LegalData
  <1>4. suite'.cases = suite.cases /\ suite'.initial = suite.initial /\ suite'.fuzzing = suite.fuzzing
    BY <1>3
  <1>5. SuiteKept'
    BY <1>2 DEF SuiteKept
  <1> QED BY <1>4, <1>5 DEF Keyed, Key, Datasets, InputsOf

TypeOK ==
  /\ at \in {"idle", "run", "ask", "done", "raised"}
  /\ SuiteKept
  /\ dataset \in Datasets(suite) /\ fingerprint \in Datasets(suite)
  /\ disk \in {Missing, Found} \union Datasets(suite)
  /\ reports \in Seq({reports[i] : i \in 1..Runs})
  /\ \A i \in 1..Runs : reports[i].success \in BOOLEAN
  /\ compiled \in Seq(BOOLEAN) /\ Len(compiled) = Runs
  /\ asked \in [queries : Nat, errors : Nat, accepted : SUBSET Keyed(suite)]
  /\ pending \in Seq(Keyed(suite))

\* A sequence one longer.
LEMMA Appended ==
  ASSUME NEW s, s \in Seq({s[i] : i \in 1..Len(s)}), NEW x
  PROVE  /\ Append(s, x) \in Seq({Append(s, x)[i] : i \in 1..Len(Append(s, x))})
         /\ Len(Append(s, x)) = Len(s) + 1 /\ Len(s) \in Nat
         /\ \A i \in 1..Len(s) : Append(s, x)[i] = s[i]
         /\ Append(s, x)[Len(s) + 1] = x
  <1> DEFINE S == {s[i] : i \in 1..Len(s)} \union {x}
             t == Append(s, x)
  <1>1. s \in Seq(S) /\ x \in S
    <2>1. {s[i] : i \in 1..Len(s)} \subseteq S
      OBVIOUS
    <2> HIDE DEF S
    <2>2. \A i \in 1..Len(s) : s[i] \in S
      BY <2>1
    <2>3. DOMAIN s = 1..Len(s) /\ Len(s) \in Nat
      BY SeqMembers
    <2>4. s \in Seq(S)
      BY <2>1, <2>2, <2>3
    <2> QED BY <2>4 DEF S
  <1> HIDE DEF S
  <1>2. /\ t \in Seq(S) /\ Len(t) = Len(s) + 1 /\ Len(s) \in Nat
        /\ \A i \in 1..Len(s) : t[i] = s[i]
        /\ t[Len(s) + 1] = x
    BY <1>1
  <1> HIDE DEF t
  <1>3. t \in Seq({t[i] : i \in 1..Len(t)})
    <2>1. DOMAIN t = 1..Len(t) /\ Len(t) \in Nat
      BY <1>2, SeqMembers
    <2>2. t \in [1..Len(t) -> {t[i] : i \in 1..Len(t)}]
      BY <1>2, <2>1
    <2> QED BY <2>1, <2>2
  <1> QED BY <1>2, <1>3 DEF t

LEMMA AppendFalse ==
  ASSUME NEW s \in Seq(BOOLEAN)
  PROVE  /\ Append(s, FALSE) \in Seq(BOOLEAN) /\ Len(Append(s, FALSE)) = Len(s) + 1
         /\ \A i \in 1..Len(s) : Append(s, FALSE)[i] = s[i]
         /\ ~Append(s, FALSE)[Len(s) + 1]
  <1>1. Append(s, FALSE) \in Seq(BOOLEAN) /\ Len(Append(s, FALSE)) = Len(s) + 1
    OBVIOUS
  <1>2. \A i \in 1..Len(s) : Append(s, FALSE)[i] = s[i]
    OBVIOUS
  <1>3. ~Append(s, FALSE)[Len(s) + 1]
    OBVIOUS
  <1> QED BY <1>1, <1>2, <1>3

\* What a run of the suite leads to.
RunShape(success, failing) ==
  /\ reports' = Append(reports, [of |-> disk, success |-> success, failing |-> failing])
  /\ compiled' = Append(compiled, FALSE)
  /\ asked' = NoneAsked
  /\ \/ at' = "done" /\ stuck' = Ended(success) /\ UNCHANGED <<pending, skipped>>
     \/ at' = "raised" /\ UNCHANGED <<pending, skipped, stuck>>
     \/ /\ at' = "ask" /\ pending' \in Seq(Keyed(suite)) /\ UNCHANGED stuck
        /\ skipped' = skipped \union (ToSet(failing) \ Keyed(suite))
  /\ UNCHANGED <<suite, dataset, disk, repaired, fingerprint>>

LEMMA RunsInShape ==
  ASSUME SuiteKept, RunSuite
  PROVE  at = "run" /\ \E success \in BOOLEAN : \E failing : RunShape(success, failing)
  <1>1. PICK outcomes \in Outcomes(suite) :
          LET report == Report(suite, outcomes)
              success == IsSuccess(report)
              failing == FailingInputs(report)
              queried == Eligible(failing) IN
          /\ reports' = Append(reports, [of |-> disk, success |-> success, failing |-> failing])
          /\ compiled' = Append(compiled, FALSE)
          /\ asked' = NoneAsked
          /\ IF ~Continues(success)
             THEN /\ at' = "done" /\ stuck' = Ended(success)
                  /\ UNCHANGED <<pending, skipped>>
             ELSE IF ~suite.teacher
             THEN at' = "raised" /\ UNCHANGED <<pending, skipped, stuck>>
             ELSE /\ at' = "ask"
                  /\ pending' = SubSeq(queried, 1, IF Len(queried) < suite.maxQueries
                                                   THEN Len(queried) ELSE suite.maxQueries)
                  /\ skipped' = skipped \union (ToSet(failing) \ Keyed(suite))
                  /\ UNCHANGED stuck
    BY DEF RunSuite
  <1> DEFINE report == Report(suite, outcomes)
             success == IsSuccess(report)
             failing == FailingInputs(report)
             queried == Eligible(failing)
             limit == IF Len(queried) < suite.maxQueries THEN Len(queried) ELSE suite.maxQueries
  <1>2. success \in BOOLEAN
    BY DEF IsSuccess
  <1>3. DOMAIN report.rows \in SUBSET Nat /\ IsFiniteSet(DOMAIN report.rows)
    <2>1. DOMAIN report.rows = DOMAIN Cases(suite)
      BY DEF Report
    <2> QED BY <2>1, SuiteIsLegal, CasesStand
  <1> HIDE DEF report
  <1>4. DOMAIN failing \in SUBSET Nat /\ IsFiniteSet(DOMAIN failing)
    <2> DEFINE F == {i \in DOMAIN report.rows : ~report.rows[i].passed}
    <2>1. F \in SUBSET Nat /\ IsFiniteSet(F)
      BY <1>3, FS_Subset
    <2>2. DOMAIN failing = 1..Cardinality(F)
      BY DEF FailingInputs, Kept, InOrder
    <2> HIDE DEF F, failing
    <2>3. Cardinality(F) \in Nat
      BY <2>1, FS_CardinalityType
    <2>4. IsFiniteSet(1..Cardinality(F))
      BY <2>3, FS_Interval
    <2> QED BY <2>2, <2>3, <2>4
  <1> HIDE DEF failing
  <1>5. queried \in Seq(Keyed(suite))
    <2> DEFINE F == {i \in DOMAIN failing : failing[i] \in Keyed(suite)}
    <2>1. F \in SUBSET Nat /\ IsFiniteSet(F)
      BY <1>4, FS_Subset
    <2>2. \A i \in F : failing[i] \in Keyed(suite)
      OBVIOUS
    <2>3. queried = Kept(failing, F)
      BY DEF Eligible
    <2> HIDE DEF F
    <2> QED BY <2>1, <2>2, <2>3, KeptStands
  <1>6. suite.maxQueries \in Nat
    BY SuiteIsLegal DEF LegalSuite, LegalBounds
  <1> HIDE DEF queried
  <1>7. SubSeq(queried, 1, limit) \in Seq(Keyed(suite))
    <2>1. limit \in Nat /\ limit <= Len(queried) /\ Len(queried) \in Nat
      BY <1>5, <1>6
    <2> HIDE DEF limit
    <2> QED BY <1>5, <2>1
  <1> HIDE DEF limit, success
  <1>8. RunShape(success, failing)
    BY <1>1, <1>7 DEF RunShape, RunSuite, success, failing, queried, report, limit
  <1>9. at = "run"
    BY DEF RunSuite
  <1> QED BY <1>2, <1>8, <1>9

Skips(n) ==
  \E i \in 1..n : \E j \in DOMAIN reports[i].failing : reports[i].failing[j] \notin Keyed(suite)

\* What is told of the adapter by the reports so far.
CompilesShow ==
  /\ Runs > 0 => (compiled[Runs] <=> reports[Runs].of # disk)
  /\ \A i \in 1..(Runs - 1) : compiled[i] <=> reports[i].of # reports[i + 1].of
  /\ (\E i \in 1..Runs : compiled[i]) <=> disk \notin {Missing, Found}
  /\ fingerprint = Uncompiled => disk \in {Missing, Found}
  /\ fingerprint # Uncompiled => disk = fingerprint
  /\ asked.accepted # {} => asked.queries > 0 /\ dataset # <<>>

\* Where the loop is, and why it is stuck.
StuckForAReason ==
  /\ at = "idle" => Runs = 0
  /\ at \in {"ask", "done"} => Runs > 0 /\ ~compiled[Runs]
  /\ skipped # {} => Skips(Runs)
  /\ at = "run" =>
       /\ stuck # "iterations_exhausted"
       /\ stuck = NoReason <=> Runs = 0 \/ compiled[Runs]
       /\ stuck = "no_falsifiable_failures" => Skips(Runs)
  /\ at = "done" =>
       /\ LastReport.success <=> stuck = NoReason
       /\ stuck = "iterations_exhausted" => Runs = 1 \/ compiled[Runs - 1]
       /\ stuck \notin {NoReason, "iterations_exhausted"} => Runs > 1 /\ ~compiled[Runs - 1]
       /\ stuck = "no_falsifiable_failures" => Skips(Runs - 1)

LEMMA TellsTruth ==
  ASSUME TypeOK, CompilesShow, StuckForAReason
  PROVE  ReportTellsTruth
  <1>1. DOMAIN compiled = 1..Runs /\ Runs \in Nat
    BY SeqMembers DEF TypeOK
  <1> QED BY <1>1 DEF CompilesShow, StuckForAReason, Skips, ReportTellsTruth, LastReport

LEMMA RunKeeps ==
  ASSUME TypeOK, CompilesShow, StuckForAReason, at = "run",
         NEW success \in BOOLEAN, NEW failing, RunShape(success, failing)
  PROVE  TypeOK' /\ CompilesShow' /\ StuckForAReason'
  <1>0. PICK n \in Nat : n = Runs
    BY SeqMembers DEF TypeOK, Runs
  <1> DEFINE row == [of |-> disk, success |-> success, failing |-> failing]
  <1>1. /\ reports' \in Seq({reports'[i] : i \in 1..Len(reports')})
        /\ Len(reports') = n + 1 /\ n \in Nat
        /\ \A i \in 1..n : reports'[i] = reports[i]
        /\ reports'[n + 1] = row
    <2>1. reports \in Seq({reports[i] : i \in 1..Len(reports)}) /\ reports' = Append(reports, row)
      BY DEF TypeOK, Runs, RunShape
    <2> HIDE DEF row
    <2> QED BY <1>0, <2>1, Appended DEF Runs
  <1>2. /\ compiled' \in Seq(BOOLEAN) /\ Len(compiled') = n + 1
        /\ \A i \in 1..n : compiled'[i] = compiled[i]
        /\ ~compiled'[n + 1]
    <2>1. compiled \in Seq(BOOLEAN) /\ Len(compiled) = n /\ compiled' = Append(compiled, FALSE)
      BY <1>0 DEF TypeOK, RunShape
    <2> QED BY <2>1, AppendFalse, Zenon
  <1>3. /\ row.of = disk /\ row.success = success /\ row.failing = failing
    OBVIOUS
  <1>4. /\ UNCHANGED <<suite, dataset, disk, fingerprint>> /\ asked' = NoneAsked
        /\ \/ at' = "done" /\ stuck' = Ended(success) /\ UNCHANGED <<pending, skipped>>
           \/ at' = "raised" /\ UNCHANGED <<pending, skipped, stuck>>
           \/ /\ at' = "ask" /\ pending' \in Seq(Keyed(suite)) /\ UNCHANGED stuck
              /\ skipped' = skipped \union (ToSet(failing) \ Keyed(suite))
    BY DEF RunShape
  <1> HIDE DEF row
  <1>5. TypeOK'
    <2>1. \A i \in 1..(n + 1) : reports'[i].success \in BOOLEAN
      <3>1. \A i \in 1..(n + 1) : i \in 1..n \/ i = n + 1
        BY <1>1
      <3> QED BY <1>0, <1>1, <1>3, <3>1 DEF TypeOK
    <2>2. asked' \in [queries : Nat, errors : Nat, accepted : SUBSET Keyed(suite)]
      BY <1>4 DEF NoneAsked
    <2>3. pending' \in Seq(Keyed(suite))
      BY <1>4 DEF TypeOK
    <2>4. SuiteKept'
      BY <1>4 DEF TypeOK, SuiteKept
    <2> QED BY <1>1, <1>2, <1>4, <2>1, <2>2, <2>3, <2>4 DEF TypeOK, Runs
  <1>6. CompilesShow'
    <2>1. ASSUME NEW i \in 1..n PROVE compiled'[i] <=> reports'[i].of # reports'[i + 1].of
      <3>1. CASE i \in 1..(n - 1) /\ i + 1 \in 1..n
        <4>1. compiled[i] <=> reports[i].of # reports[i + 1].of
          BY <1>0, <3>1 DEF CompilesShow
        <4> QED BY <1>1, <1>2, <3>1, <4>1
      <3>2. CASE i = n /\ n > 0
        <4>1. compiled[i] <=> reports[i].of # disk
          BY <1>0, <3>2 DEF CompilesShow
        <4> QED BY <1>1, <1>2, <1>3, <3>2, <4>1
      <3> QED BY <3>1, <3>2
    <2>2. (\E i \in 1..(n + 1) : compiled'[i]) <=> \E i \in 1..n : compiled[i]
      <3>1. \A i \in 1..(n + 1) : i \in 1..n \/ i = n + 1
        BY <1>1
      <3>2. \A i \in 1..n : i \in 1..(n + 1)
        BY <1>1
      <3> QED BY <1>2, <3>1, <3>2
    <2>3. n + 1 > 0 /\ (n + 1) - 1 = n
      BY <1>1
    <2>4. asked'.accepted = {}
      BY <1>4 DEF NoneAsked
    <2>5. Runs' = n + 1
      BY <1>1 DEF Runs
    <2>6. compiled'[n + 1] <=> reports'[n + 1].of # disk'
      BY <1>1, <1>2, <1>3, <1>4
    <2> QED BY <1>0, <1>1, <1>4, <2>1, <2>2, <2>3, <2>4, <2>5, <2>6 DEF CompilesShow
  <1>7. StuckForAReason'
    <2>1. Runs' = n + 1 /\ n + 1 > 0 /\ (n + 1) - 1 = n
      BY <1>1 DEF Runs
    <2>2. Keyed(suite') = Keyed(suite)
      BY <1>4
    <2>3. ASSUME Skips(n) PROVE (Skips(n))' /\ Skips(Runs)'
      <3>1. PICK i \in 1..n : \E j \in DOMAIN reports[i].failing : reports[i].failing[j] \notin Keyed(suite)
        BY <2>3 DEF Skips
      <3>2. reports'[i].failing = reports[i].failing /\ i \in 1..(n + 1)
        BY <1>1
      <3> QED BY <2>1, <2>2, <3>1, <3>2 DEF Skips
    <2>4. ~compiled'[n + 1] /\ (n > 0 => compiled'[n] = compiled[n])
      BY <1>1, <1>2
    <2>5. LastReport' = row
      BY <1>1, <2>1 DEF LastReport
    <2>6. at' \in {"done", "raised", "ask"}
      BY <1>4
    <2>7. (skipped # {} => Skips(n)) /\ (stuck = "no_falsifiable_failures" => Skips(n))
      BY <1>0 DEF StuckForAReason
    <2>8. skipped' # {} => Skips(Runs)'
      <3>1. CASE skipped' = skipped
        BY <2>3, <2>7, <3>1
      <3>2. CASE /\ at' = "ask" /\ skipped' = skipped \union (ToSet(failing) \ Keyed(suite))
        <4>1. CASE skipped # {}
          BY <2>3, <2>7, <4>1
        <4>2. CASE skipped = {} /\ skipped' # {}
          <5>1. PICK j \in DOMAIN failing : failing[j] \notin Keyed(suite)
            BY <3>2, <4>2 DEF ToSet
          <5>2. n + 1 \in 1..(n + 1) /\ reports'[n + 1].failing = failing
            BY <1>1, <1>3
          <5> QED BY <2>1, <2>2, <5>1, <5>2 DEF Skips
        <4> QED BY <4>1, <4>2
      <3> QED BY <1>4, <3>1, <3>2
    <2>9. ASSUME at' = "done"
          PROVE  /\ LastReport'.success <=> stuck' = NoReason
                 /\ stuck' = "iterations_exhausted" => Runs' = 1 \/ compiled'[Runs' - 1]
                 /\ stuck' \notin {NoReason, "iterations_exhausted"} => Runs' > 1 /\ ~compiled'[Runs' - 1]
                 /\ stuck' = "no_falsifiable_failures" => Skips(Runs - 1)'
      <3>1. stuck' = Ended(success)
        BY <1>4, <2>9
      <3>2. /\ success <=> stuck' = NoReason
            /\ stuck' = "iterations_exhausted" => stuck = NoReason
            /\ stuck' \notin {NoReason, "iterations_exhausted"} => stuck' = stuck /\ stuck # NoReason
        BY <3>1 DEF Ended, NoReason, StuckForAReason
      <3>3. stuck = NoReason <=> n = 0 \/ compiled[n]
        BY <1>0 DEF StuckForAReason
      <3>4. n # 0 => n > 0
        BY <1>1
      <3>5. Runs' - 1 = n /\ (n > 0 => Runs' > 1) /\ (n = 0 => Runs' = 1)
        BY <1>1, <2>1
      <3>6. stuck' = "no_falsifiable_failures" => Skips(n)'
        BY <2>3, <2>7, <3>2 DEF NoReason
      <3>7. Skips(n)' => Skips(Runs - 1)'
        BY <3>5 DEF Skips
      <3> QED BY <1>3, <2>4, <2>5, <3>2, <3>3, <3>4, <3>5, <3>6, <3>7
    <2> QED BY <2>1, <2>4, <2>6, <2>8, <2>9 DEF StuckForAReason
  <1> QED BY <1>5, <1>6, <1>7

\* What a query leads to: a label that is accepted is in the dataset, or nothing changes.
Queried ==
  /\ \/ dataset' = dataset /\ asked'.accepted = asked.accepted
     \/ \E x \in Keyed(suite), label \in Text :
          /\ Accepts(x, label) /\ dataset' = Upsert(dataset, x, label)
          /\ dataset' # <<>> /\ asked'.accepted # {}
  /\ dataset' \in Datasets(suite)
  /\ asked' \in [queries : Nat, errors : Nat, accepted : SUBSET Keyed(suite)]
  /\ asked'.queries > 0
  /\ pending' \in Seq(Keyed(suite))
  /\ UNCHANGED <<at, suite, disk, reports, repaired, skipped, fingerprint, compiled, stuck>>

LEMMA TalliesStand ==
  ASSUME NEW K, NEW w \in [queries : Nat, errors : Nat, accepted : SUBSET K], NEW x \in K, NEW m, m \in Nat
  PROVE  /\ [w EXCEPT !.queries = @ + 1, !.accepted = @ \union {x}]
              \in [queries : Nat, errors : Nat, accepted : SUBSET K]
         /\ [w EXCEPT !.queries = @ + 1, !.errors = m]
              \in [queries : Nat, errors : Nat, accepted : SUBSET K]
         /\ [w EXCEPT !.queries = @ + 1, !.accepted = @ \union {x}].queries > 0
         /\ [w EXCEPT !.queries = @ + 1, !.accepted = @ \union {x}].accepted # {}
         /\ [w EXCEPT !.queries = @ + 1, !.errors = m].queries > 0
         /\ [w EXCEPT !.queries = @ + 1, !.errors = m].accepted = w.accepted
  <1>1. w.queries + 1 \in Nat /\ w.queries + 1 > 0 /\ w.accepted \union {x} \in SUBSET K
        /\ w.accepted \union {x} # {}
    OBVIOUS
  <1> QED BY <1>1

LEMMA AsksInShape ==
  ASSUME TypeOK, AskTeacher
  PROVE  at = "ask" /\ Queried
  <1> DEFINE x == Head(pending)
             A == [queries : Nat, errors : Nat, accepted : SUBSET Keyed(suite)]
  <1>1. x \in Keyed(suite) /\ pending' \in Seq(Keyed(suite))
    BY DEF AskTeacher, TypeOK
  <1>2. SuiteKept /\ LegalData(suite) /\ suite.labels \subseteq Text /\ x \in InputsOf(suite)
    BY <1>1, SuiteIsLegal, KeyIsText DEF TypeOK, LegalData
  <1>3. PICK label \in suite.labels \union {NoText} :
          IF label # NoText /\ Accepts(x, label)
          THEN /\ dataset' = Upsert(dataset, x, label)
               /\ asked' = [asked EXCEPT !.queries = @ + 1, !.accepted = @ \union {x}]
          ELSE /\ asked' = [asked EXCEPT !.queries = @ + 1,
                                         !.errors = IF label = NoText THEN @ + 1 ELSE @]
               /\ UNCHANGED dataset
    BY DEF AskTeacher
  <1> HIDE DEF x
  <1>4. asked \in A
    BY DEF TypeOK
  <1>5. at = "ask" /\ UNCHANGED <<at, suite, disk, reports, repaired, skipped, fingerprint, compiled, stuck>>
    BY DEF AskTeacher
  <1>6. CASE label # NoText /\ Accepts(x, label)
    <2>0. asked' = [asked EXCEPT !.queries = @ + 1, !.accepted = @ \union {x}]
      BY <1>3, <1>6
    <2>1. asked' \in A /\ asked'.queries > 0 /\ asked'.accepted # {}
      <3> DEFINE K == Keyed(suite)
      <3>1. asked \in [queries : Nat, errors : Nat, accepted : SUBSET K] /\ x \in K /\ 0 \in Nat
        BY <1>1, <1>4
      <3> HIDE DEF K
      <3>2. /\ asked' \in [queries : Nat, errors : Nat, accepted : SUBSET K]
            /\ asked'.queries > 0 /\ asked'.accepted # {}
        BY <2>0, <3>1, TalliesStand
      <3> QED BY <3>2 DEF K
    <2>2. label \in Text
      BY <1>2, <1>3, <1>6
    <2>3. dataset \in Seq([input : InputsOf(suite), output : Text])
      BY DEF TypeOK, Datasets
    <2>4. /\ Upsert(dataset, x, label) \in Seq([input : InputsOf(suite), output : Text])
          /\ Upsert(dataset, x, label) # <<>>
      <3> DEFINE I == InputsOf(suite)
      <3>1. dataset \in Seq([input : I, output : Text]) /\ x \in I /\ label \in Text
        BY <1>2, <2>2, <2>3
      <3> HIDE DEF I
      <3>2. /\ Upsert(dataset, x, label) \in Seq([input : I, output : Text])
            /\ Upsert(dataset, x, label) # <<>>
        BY <3>1, UpsertStands DEF Upserted
      <3> QED BY <3>2 DEF I
    <2>5. dataset' = Upsert(dataset, x, label)
      BY <1>3, <1>6
    <2> HIDE DEF A
    <2> QED BY <1>1, <1>5, <1>6, <2>1, <2>2, <2>4, <2>5 DEF Queried, Datasets, A
  <1>7. CASE ~(label # NoText /\ Accepts(x, label))
    <2> DEFINE m == IF label = NoText THEN asked.errors + 1 ELSE asked.errors
    <2>0. m \in Nat /\ asked' = [asked EXCEPT !.queries = @ + 1, !.errors = m]
      BY <1>3, <1>4, <1>7
    <2> HIDE DEF m
    <2>1. asked' \in A /\ asked'.queries > 0 /\ asked'.accepted = asked.accepted
      BY <1>1, <1>4, <2>0, TalliesStand
    <2>2. dataset' = dataset /\ dataset \in Datasets(suite)
      BY <1>3, <1>7 DEF TypeOK
    <2> HIDE DEF A
    <2> QED BY <1>1, <1>5, <2>1, <2>2 DEF Queried, A
  <1> QED BY <1>6, <1>7

LEMMA AskKeeps ==
  ASSUME TypeOK, CompilesShow, StuckForAReason, at = "ask", Queried
  PROVE  TypeOK' /\ CompilesShow' /\ StuckForAReason'
  <1>1. UNCHANGED <<at, suite, disk, reports, repaired, skipped, fingerprint, compiled, stuck>>
    BY DEF Queried
  <1>2. TypeOK'
    BY <1>1 DEF Queried, TypeOK, SuiteKept, Runs
  <1>3. asked'.accepted # {} => asked'.queries > 0 /\ dataset' # <<>>
    BY DEF Queried, CompilesShow
  <1>4. CompilesShow'
    BY <1>1, <1>3 DEF CompilesShow, Runs
  <1>5. StuckForAReason'
    BY <1>1 DEF StuckForAReason, Skips, Runs, LastReport
  <1> QED BY <1>2, <1>4, <1>5

\* Nothing is stuck after an iteration just when it has compiled.
LEMMA ReasonTells ==
  ASSUME TypeOK, CompilesShow
  PROVE  /\ Reason = NoReason <=> NeedsCompile
         /\ Reason = "no_falsifiable_failures" => skipped # {}
         /\ Reason # "iterations_exhausted"
  <1>1. asked.queries \in Nat /\ (asked.accepted # {} => asked.queries > 0)
    BY DEF TypeOK, CompilesShow
  <1>2. CASE asked.queries = 0
    <2>1. asked.accepted = {} /\ Reason = IF skipped # {} THEN "no_falsifiable_failures" ELSE "no_failures"
      BY <1>1, <1>2 DEF Reason
    <2> QED BY <2>1 DEF NoReason, NeedsCompile
  <1>3. CASE asked.queries > 0 /\ asked.accepted = {}
    <2>1. Reason = IF asked.errors = asked.queries THEN "teacher_errors" ELSE "all_labels_rejected"
      BY <1>1, <1>3 DEF Reason
    <2> QED BY <1>3, <2>1 DEF NoReason, NeedsCompile
  <1>4. CASE asked.accepted # {} /\ ~NeedsCompile
    <2>1. Reason = "no_new_examples"
      BY <1>1, <1>4 DEF Reason
    <2> QED BY <1>4, <2>1 DEF NoReason
  <1>5. CASE asked.accepted # {} /\ NeedsCompile
    <2>1. Reason = NoReason
      BY <1>1, <1>5 DEF Reason
    <2> QED BY <1>5, <2>1 DEF NoReason
  <1> QED BY <1>1, <1>2, <1>3, <1>4, <1>5

LEMMA SetTrue ==
  ASSUME NEW n \in Nat, n > 0, NEW c \in Seq(BOOLEAN), Len(c) = n
  PROVE  /\ [c EXCEPT ![n] = TRUE] \in Seq(BOOLEAN) /\ Len([c EXCEPT ![n] = TRUE]) = n
         /\ [c EXCEPT ![n] = TRUE][n] /\ \A i \in 1..(n - 1) : [c EXCEPT ![n] = TRUE][i] = c[i]
  <1>1. n \in DOMAIN c /\ \A i \in 1..(n - 1) : i \in DOMAIN c /\ i # n
    OBVIOUS
  <1>2. [c EXCEPT ![n] = TRUE][n]
    BY <1>1, Zenon
  <1>3. ASSUME NEW i \in 1..(n - 1) PROVE [c EXCEPT ![n] = TRUE][i] = c[i]
    BY <1>1, Zenon
  <1>4. [c EXCEPT ![n] = TRUE] \in Seq(BOOLEAN) /\ Len([c EXCEPT ![n] = TRUE]) = n
    OBVIOUS
  <1> QED BY <1>2, <1>3, <1>4

LEMMA LearnKeeps ==
  ASSUME TypeOK, CompilesShow, StuckForAReason, Learn
  PROVE  TypeOK' /\ CompilesShow' /\ StuckForAReason'
  <1>0. PICK n \in Nat : n = Runs
    BY SeqMembers DEF TypeOK, Runs
  <1>1. /\ at = "ask" /\ at' = "run" /\ stuck' = Reason
        /\ UNCHANGED <<suite, dataset, reports, pending, asked, skipped>>
    BY DEF Learn
  <1>2. Runs' = n /\ n > 0 /\ ~compiled[n]
    BY <1>0, <1>1 DEF Runs, StuckForAReason
  <1>3. SuiteKept' /\ (skipped # {} => Skips(Runs)')
    BY <1>1 DEF TypeOK, SuiteKept, StuckForAReason, Skips, Runs
  <1>4. compiled \in Seq(BOOLEAN) /\ Len(compiled) = n /\ DOMAIN compiled = 1..n
    BY <1>0, SeqMembers DEF TypeOK
  <1>5. CASE NeedsCompile
    <2>1. /\ disk' = dataset /\ fingerprint' = dataset
          /\ compiled' = [compiled EXCEPT ![n] = TRUE]
      BY <1>4, <1>5 DEF Learn
    <2>2. /\ compiled' \in Seq(BOOLEAN) /\ Len(compiled') = n
          /\ compiled'[n] /\ \A i \in 1..(n - 1) : compiled'[i] = compiled[i]
      <3>1. /\ [compiled EXCEPT ![n] = TRUE] \in Seq(BOOLEAN) /\ Len([compiled EXCEPT ![n] = TRUE]) = n
            /\ [compiled EXCEPT ![n] = TRUE][n]
            /\ \A i \in 1..(n - 1) : [compiled EXCEPT ![n] = TRUE][i] = compiled[i]
        BY <1>2, <1>4, SetTrue
      <3> QED BY <2>1, <3>1, Zenon
    <2>3. dataset # <<>> /\ dataset \in Datasets(suite) /\ dataset \notin {Missing, Found} /\ dataset # fingerprint
      BY <1>5, SuiteIsLegal DEF NeedsCompile, CompilesShow, TypeOK
    <2>4. TypeOK'
      BY <1>1, <1>2, <1>3, <2>1, <2>2, <2>3 DEF TypeOK, Runs
    <2>5. disk # dataset
      BY <2>3 DEF CompilesShow
    <2>6. reports[n].of = disk
      BY <1>0, <1>2 DEF CompilesShow
    <2>7. CompilesShow'
      <3>1. reports'[n].of # disk'
        BY <1>1, <2>1, <2>5, <2>6
      <3>2. \A i \in 1..(n - 1) : compiled'[i] <=> reports'[i].of # reports'[i + 1].of
        BY <1>0, <1>1, <2>2 DEF CompilesShow
      <3>3. (\E i \in 1..n : compiled'[i]) /\ disk' \notin {Missing, Found}
        BY <1>2, <2>1, <2>2, <2>3
      <3>4. fingerprint' # Uncompiled /\ disk' = fingerprint'
        BY <2>1, <2>3 DEF Uncompiled
      <3>5. asked'.accepted # {} => asked'.queries > 0 /\ dataset' # <<>>
        BY <1>1 DEF CompilesShow
      <3> QED BY <1>2, <2>2, <3>1, <3>2, <3>3, <3>4, <3>5 DEF CompilesShow
    <2>8. stuck' = NoReason
      BY <1>1, <1>5, ReasonTells
    <2> QED BY <1>1, <1>2, <1>3, <2>2, <2>4, <2>7, <2>8 DEF StuckForAReason, NoReason
  <1>6. CASE ~NeedsCompile
    <2>1. UNCHANGED <<disk, fingerprint, compiled>>
      BY <1>6 DEF Learn
    <2>2. TypeOK'
      BY <1>1, <1>3, <2>1 DEF TypeOK, Runs
    <2>3. CompilesShow'
      BY <1>1, <2>1 DEF CompilesShow, Runs
    <2>4. stuck' # NoReason /\ stuck' # "iterations_exhausted"
          /\ (stuck' = "no_falsifiable_failures" => skipped # {})
      BY <1>1, <1>6, ReasonTells
    <2> QED BY <1>1, <1>2, <1>3, <2>1, <2>2, <2>3, <2>4 DEF StuckForAReason
  <1> QED BY <1>5, <1>6

LEMMA CompileRaisesKeeps ==
  ASSUME TypeOK, CompilesShow, StuckForAReason, CompileRaises
  PROVE  TypeOK' /\ CompilesShow' /\ StuckForAReason'
  <1>1. /\ at' = "raised"
        /\ UNCHANGED <<suite, dataset, disk, reports, pending, asked, repaired, skipped,
                       fingerprint, compiled, stuck>>
    BY DEF CompileRaises
  <1>2. TypeOK'
    BY <1>1 DEF TypeOK, SuiteKept, Runs
  <1>3. CompilesShow'
    BY <1>1 DEF CompilesShow, Runs
  <1>4. StuckForAReason'
    BY <1>1 DEF StuckForAReason, Skips, Runs
  <1> QED BY <1>2, <1>3, <1>4

LoopInv == TypeOK /\ CompilesShow /\ StuckForAReason

LEMMA LoopKeeps ==
  ASSUME LoopInv, LoopNext
  PROVE  LoopInv'
  <1>1. CASE RunSuite
    <2>1. SuiteKept
      BY DEF LoopInv, TypeOK
    <2>2. at = "run"
      BY <1>1 DEF RunSuite
    <2>3. PICK success \in BOOLEAN : \E failing : RunShape(success, failing)
      BY <1>1, <2>1, RunsInShape
    <2>4. PICK failing : RunShape(success, failing)
      BY <2>3
    <2> QED BY <2>2, <2>4, RunKeeps DEF LoopInv
  <1>2. CASE AskTeacher
    BY <1>2, AsksInShape, AskKeeps DEF LoopInv
  <1>3. CASE Learn
    BY <1>3, LearnKeeps DEF LoopInv
  <1>4. CASE CompileRaises
    BY <1>4, CompileRaisesKeeps DEF LoopInv
  <1> QED BY <1>1, <1>2, <1>3, <1>4 DEF LoopNext

\* The loop before it begins, and when it is over.
Fresh ==
  /\ at \in {"idle", "run"}
  /\ SuiteKept /\ dataset \in Datasets(suite) /\ disk \in {Missing, Found}
  /\ reports = <<>> /\ pending = <<>> /\ asked = NoneAsked
  /\ repaired = {} /\ skipped = {} /\ fingerprint = Uncompiled
  /\ compiled = <<>> /\ stuck = NoReason

LEMMA FreshStands == Fresh => LoopInv
  <1> SUFFICES ASSUME Fresh PROVE LoopInv
    OBVIOUS
  <1>1. Runs = 0 /\ 1..Runs = {}
    BY DEF Fresh, Runs
  <1>2. TypeOK
    <2>1. \A S : <<>> \in Seq(S)
      OBVIOUS
    <2>2. asked \in [queries : Nat, errors : Nat, accepted : SUBSET Keyed(suite)]
      BY DEF Fresh, NoneAsked
    <2>3. compiled = <<>> /\ Len(compiled) = 0 /\ reports = <<>> /\ pending = <<>> /\ fingerprint = <<>>
      BY DEF Fresh, Uncompiled
    <2>4. fingerprint \in Datasets(suite)
      BY <2>1, <2>3 DEF Datasets
    <2> QED BY <1>1, <2>1, <2>2, <2>3, <2>4 DEF TypeOK, Fresh
  <1>3. CompilesShow
    <2>1. asked.accepted = {} /\ 1..(Runs - 1) = {} /\ ~(Runs > 0)
      BY <1>1 DEF Fresh, NoneAsked
    <2> QED BY <1>1, <2>1 DEF CompilesShow, Fresh
  <1>4. StuckForAReason
    BY <1>1 DEF StuckForAReason, Fresh, NoReason
  <1> QED BY <1>2, <1>3, <1>4 DEF LoopInv

LEMMA Idles ==
  ASSUME LoopInv, at = "idle"
  PROVE  Runs = 0 /\ disk \in {Missing, Found}
  <1>1. Runs = 0
    BY DEF LoopInv, StuckForAReason
  <1> QED BY <1>1 DEF LoopInv, CompilesShow

\* A check that learns, or a program that does, begins with what is there.
Starts == at = "idle" /\ Start /\ \E b \in BOOLEAN : suite' = [suite EXCEPT !.autoRecompile = b]

LEMMA StartsKeep ==
  ASSUME LoopInv, Starts
  PROVE  LoopInv'
  <1>1. SuiteKept /\ disk \in {Missing, Found}
    BY Idles DEF LoopInv, TypeOK, Starts
  <1>2. PICK b \in BOOLEAN : suite' = [suite EXCEPT !.autoRecompile = b]
    BY DEF Starts
  <1>3. SuiteKept' /\ Datasets(suite') = Datasets(suite)
    BY <1>1, <1>2, SuiteStays
  <1>4. Seeded(suite) \in Datasets(suite)
    BY <1>1, SuiteIsLegal, SeededStands
  <1>5. Fresh'
    BY <1>1, <1>3, <1>4 DEF Starts, Start, Forget, Fresh
  <1>6. (Fresh => LoopInv)'
    BY FreshStands, PTL
  <1> QED BY <1>5, <1>6

LEMMA EndKeeps ==
  ASSUME LoopInv, LearningEnds
  PROVE  LoopInv'
  <1>1. SuiteKept
    BY DEF LoopInv, TypeOK
  <1>2. Seeded(suite) \in Datasets(suite)
    BY <1>1, SuiteIsLegal, SeededStands
  <1>3. suite' = suite /\ dataset' = Seeded(suite)
    BY DEF LearningEnds, Forget
  <1>4. Fresh'
    BY <1>1, <1>2, <1>3 DEF LearningEnds, Forget, Fresh, SuiteKept
  <1>5. (Fresh => LoopInv)'
    BY FreshStands, PTL
  <1> QED BY <1>4, <1>5

\* What a step of the commands does to the loop.
LEMMA PawSteps ==
  ASSUME LoopInv, [PawNext]_vars
  PROVE  UNCHANGED loop \/ LoopNext \/ LearningEnds \/ Starts
  <1>1. CASE CheckRefused \/ CheckNothing \/ CheckReadOnly \/ Compare \/ JudgeWritten \/ DiffFiles
    BY <1>1 DEF CheckRefused, CheckNothing, CheckReadOnly, Compare, JudgeWritten, DiffFiles
  <1>2. CASE CheckLearns
    BY <1>2 DEF CheckLearns, Idle, Starts
  <1>3. CASE CodeLearns
    <2>1. suite.declared \in BOOLEAN
      BY SuiteIsLegal DEF LoopInv, TypeOK, LegalData
    <2> QED BY <1>3, <2>1 DEF CodeLearns, Idle, Starts
  <1>4. CASE Learning
    BY <1>4 DEF Learning
  <1>5. CASE UNCHANGED vars
    BY <1>5 DEF vars
  <1> QED BY <1>1, <1>2, <1>3, <1>4, <1>5 DEF PawNext

LEMMA LoopStays ==
  ASSUME LoopInv, UNCHANGED loop
  PROVE  LoopInv'
  <1>1. TypeOK'
    <2>1. TypeOK /\ UNCHANGED loop
      BY DEF LoopInv
    <2>2. SuiteKept'
      BY <2>1 DEF loop, TypeOK, SuiteKept
    <2>3. Runs' = Runs
      BY <2>1 DEF loop, Runs
    <2> QED BY <2>1, <2>2, <2>3 DEF loop, TypeOK
  <1>2. CompilesShow'
    BY DEF LoopInv, loop, CompilesShow, Skips, Runs, LastReport
  <1>3. StuckForAReason'
    BY DEF LoopInv, loop, StuckForAReason, Skips, Runs, LastReport
  <1> QED BY <1>1, <1>2, <1>3 DEF LoopInv

LEMMA LoopInitially == PawInit => LoopInv
  <1> SUFFICES ASSUME PawInit PROVE LoopInv
    OBVIOUS
  <1>1. suite \in Suite /\ dataset = Seeded(suite) /\ SuiteKept
    BY DEF PawInit, LoopInit, SuiteKept, Versions
  <1>2. Seeded(suite) \in Datasets(suite)
    BY <1>1, SuiteIsLegal, SeededStands
  <1>3. Fresh
    BY <1>1, <1>2 DEF PawInit, LoopInit, Fresh
  <1> QED BY <1>3, FreshStands

\* Whatever the commands do, the loop is in order.
LEMMA LoopHolds == PawSpec => []LoopInv
  <1>1. LoopInv /\ [PawNext]_vars => LoopInv'
    BY PawSteps, LoopStays, LoopKeeps, EndKeeps, StartsKeep
  <1> QED BY <1>1, LoopInitially, PTL DEF PawSpec

\* The report of the active learning loop is true of the adapter that is there, of what
\* was compiled and of why the loop ended (ActiveLearningReport, active.py), whatever
\* the commands do in whatever order.
THEOREM ReportTellsTruthCorrect == PawSpec => []ReportTellsTruth
  <1>1. LoopInv => ReportTellsTruth
    BY TellsTruth DEF LoopInv
  <1> QED BY <1>1, LoopHolds, PTL

-----------------------------------------------------------------------------
(* Labels. *)

LEMMA SeededLabels == SuiteKept /\ dataset = Seeded(suite) => LabelsStand
  <1> SUFFICES ASSUME SuiteKept, dataset = Seeded(suite) PROVE LabelsStand
    OBVIOUS
  <1>1. /\ dataset \in Datasets(suite)
        /\ suite.initial # <<>> => dataset = suite.initial
        /\ suite.initial = <<>> =>
             /\ \A n \in 1..Len(dataset) :
                  dataset[n].input \in Keyed(suite) /\ dataset[n].output = Key(suite, dataset[n].input)
             /\ \A n, m \in 1..Len(dataset) : dataset[n].input = dataset[m].input => n = m
    BY SuiteIsLegal, SeededStands
  <1>2. DOMAIN dataset = 1..Len(dataset)
    BY <1>1 DEF Datasets
  <1>3. CASE suite.initial # <<>>
    <2>1. dataset = suite.initial
      BY <1>1, <1>3
    <2> QED BY <2>1 DEF LabelsStand
  <1>4. CASE suite.initial = <<>>
    BY <1>1, <1>2, <1>4 DEF LabelsStand
  <1> QED BY <1>3, <1>4

\* The labels of a dataset stand in a suite.
StandIn(s, d) ==
  /\ \A i \in DOMAIN d :
       \/ \E j \in DOMAIN s.initial : s.initial[j] = d[i]
       \/ /\ d[i].input \in Keyed(s)
          /\ \/ d[i].output = Key(s, d[i].input)
             \/ Broken(s, d[i].output) = {} /\ Equivalent(d[i].output, Key(s, d[i].input))
  /\ \A i, j \in DOMAIN d : i # j /\ d[i].input = d[j].input =>
       \E k, l \in DOMAIN s.initial : k # l /\ s.initial[k].input = s.initial[l].input
                                      /\ s.initial[k].input = d[i].input

LEMMA UpsertKeepsLabels ==
  ASSUME LoopInv, LabelsStand, NEW x \in Keyed(suite), NEW label \in Text, Accepts(x, label),
         dataset' = Upsert(dataset, x, label), suite' = suite
  PROVE  LabelsStand'
  <1> DEFINE I == InputsOf(suite)
             u == Upsert(dataset, x, label)
             n == Len(dataset)
  <1>1. dataset \in Seq([input : I, output : Text]) /\ x \in I
    BY SuiteIsLegal, KeyIsText DEF LoopInv, TypeOK, Datasets
  <1> HIDE DEF I
  <1>2. /\ u \in Seq([input : I, output : Text])
        /\ \/ /\ Len(u) = n
              /\ \A i \in 1..n : u[i].input = dataset[i].input /\ u[i] \in {dataset[i], Example(x, label)}
           \/ /\ Len(u) = n + 1
              /\ \A i \in 1..n : u[i] = dataset[i] /\ dataset[i].input # x
              /\ u[n + 1] = Example(x, label)
    <2>1. Upserted(I, dataset, x, label)
      BY <1>1, UpsertStands
    <2> QED BY <2>1 DEF Upserted
  <1>3. DOMAIN dataset = 1..n /\ n \in Nat /\ DOMAIN u = 1..Len(u)
    BY <1>1, <1>2
  <1>4. Example(x, label).input = x /\ Example(x, label).output = label
    BY DEF Example
  <1>5. Broken(suite, label) = {} /\ Equivalent(label, Key(suite, x))
    BY DEF Accepts
  <1>6. dataset' = u
    OBVIOUS
  <1> HIDE DEF u
  <1>7. ASSUME NEW i \in 1..Len(u)
        PROVE  \/ \E j \in DOMAIN suite.initial : suite.initial[j] = u[i]
               \/ /\ u[i].input \in Keyed(suite)
                  /\ \/ u[i].output = Key(suite, u[i].input)
                     \/ Broken(suite, u[i].output) = {} /\ Equivalent(u[i].output, Key(suite, u[i].input))
    <2>1. u[i] = Example(x, label) \/ (i \in 1..n /\ u[i] = dataset[i])
      <3>1. CASE Len(u) = n
        BY <1>2, <3>1
      <3>2. CASE Len(u) = n + 1
        <4>1. i \in 1..n \/ i = n + 1
          BY <1>3, <3>2
        <4> QED BY <1>2, <1>3, <3>2, <4>1
      <3> QED BY <1>2, <3>1, <3>2
    <2>2. CASE u[i] = Example(x, label)
      BY <1>4, <1>5, <2>2
    <2>3. CASE i \in 1..n /\ u[i] = dataset[i]
      BY <1>3, <2>3 DEF LabelsStand
    <2> QED BY <2>1, <2>2, <2>3
  <1>8. ASSUME NEW i \in 1..Len(u), NEW j \in 1..Len(u), i # j, u[i].input = u[j].input
        PROVE  /\ i \in 1..n /\ j \in 1..n
               /\ dataset[i].input = u[i].input /\ dataset[j].input = u[j].input
    <2>1. CASE Len(u) = n
      BY <1>2, <1>3, <2>1, <1>8
    <2>2. CASE /\ Len(u) = n + 1
               /\ \A k \in 1..n : u[k] = dataset[k] /\ dataset[k].input # x
               /\ u[n + 1] = Example(x, label)
      <3>1. (i \in 1..n \/ i = n + 1) /\ (j \in 1..n \/ j = n + 1)
        BY <1>3, <2>2
      <3> QED BY <1>4, <1>8, <2>2, <3>1
    <2> QED BY <1>2, <2>1, <2>2
  <1>9. \A i, j \in DOMAIN u : i # j /\ u[i].input = u[j].input =>
          \E k, l \in DOMAIN suite.initial : k # l /\ suite.initial[k].input = suite.initial[l].input
                                             /\ suite.initial[k].input = u[i].input
    BY <1>3, <1>8 DEF LabelsStand
  <1>10. /\ \A i \in DOMAIN u :
             \/ \E j \in DOMAIN suite.initial : suite.initial[j] = u[i]
             \/ /\ u[i].input \in Keyed(suite)
                /\ \/ u[i].output = Key(suite, u[i].input)
                   \/ Broken(suite, u[i].output) = {} /\ Equivalent(u[i].output, Key(suite, u[i].input))
    BY <1>3, <1>7
  <1>11. StandIn(suite, u)
    BY <1>9, <1>10 DEF StandIn
  <1>12. StandIn(suite', dataset')
    BY <1>6, <1>11
  <1> QED BY <1>12 DEF LabelsStand, StandIn

LEMMA LabelsKept ==
  ASSUME LoopInv, LabelsStand, [PawNext]_vars
  PROVE  LabelsStand'
  <1>0. SuiteKept
    BY DEF LoopInv, TypeOK
  <1>1. CASE UNCHANGED <<suite, dataset>>
    BY <1>1 DEF LabelsStand
  <1>2. CASE LoopNext
    <2>1. CASE AskTeacher
      <3>1. Queried
        BY <2>1, AsksInShape DEF LoopInv
      <3>2. CASE dataset' = dataset
        BY <1>1, <3>1, <3>2 DEF Queried
      <3>3. CASE \E x \in Keyed(suite), label \in Text :
                   Accepts(x, label) /\ dataset' = Upsert(dataset, x, label)
        BY <3>1, <3>3, UpsertKeepsLabels DEF Queried
      <3> QED BY <3>1, <3>2, <3>3 DEF Queried
    <2>2. CASE RunSuite \/ Learn \/ CompileRaises
      BY <1>1, <2>2 DEF RunSuite, Learn, CompileRaises
    <2> QED BY <1>2, <2>1, <2>2 DEF LoopNext
  <1>3. (SuiteKept /\ dataset = Seeded(suite) => LabelsStand)'
    BY SeededLabels, PTL
  <1>4. CASE LearningEnds
    <2>1. suite' = suite /\ dataset' = Seeded(suite)
      BY <1>4 DEF LearningEnds, Forget
    <2> QED BY <1>0, <1>3, <2>1 DEF SuiteKept
  <1>5. CASE Starts
    <2>1. dataset' = Seeded(suite)
      BY <1>5 DEF Starts, Start, Forget
    <2>2. PICK b \in BOOLEAN : suite' = [suite EXCEPT !.autoRecompile = b]
      BY <1>5 DEF Starts
    <2>3. SuiteKept' /\ suite'.cases = suite.cases /\ suite'.initial = suite.initial
      BY <1>0, <2>2, SuiteStays
    <2>4. Seeded(suite') = Seeded(suite)
      BY <2>3 DEF Seeded, Key
    <2> QED BY <1>3, <2>1, <2>3, <2>4
  <1> QED BY <1>1, <1>2, <1>4, <1>5, PawSteps DEF loop

\* An adapter is compiled only from examples of the user, answer keys, and labels that keep
\* the rules and agree with the key (_query_teacher_safely, _upsert_example), each input with
\* one label, whatever the teacher says and however often the suite is run.
THEOREM LabelsStandCorrect == PawSpec => []LabelsStand
  <1>1. PawInit => LabelsStand
    <2> SUFFICES ASSUME PawInit PROVE LabelsStand
      OBVIOUS
    <2>1. SuiteKept /\ dataset = Seeded(suite)
      BY DEF PawInit, LoopInit, SuiteKept, Versions
    <2> QED BY <2>1, SeededLabels
  <1>2. LoopInv /\ LabelsStand /\ [PawNext]_vars => LabelsStand'
    BY LabelsKept
  <1> QED BY <1>1, <1>2, LoopHolds, PTL DEF PawSpec

-----------------------------------------------------------------------------
(* Stubs. *)

\* What a check that learns began with.
StubsInv ==
  /\ at # "idle" /\ by # Code =>
       /\ by.backend = "mock" /\ by.recompile # "off"
       /\ IF Runs = 0 THEN disk = Missing ELSE reports[1].of = Missing
  /\ at = "ask" => Runs > 0

LEMMA StubsKept ==
  ASSUME LoopInv, StubsInv, [PawNext]_vars
  PROVE  StubsInv'
  <1>1. CASE UNCHANGED loop /\ by' = by
    BY <1>1 DEF StubsInv, loop, Runs
  <1>2. CASE CheckLearns
    <2>1. PICK f \in Flags : ~Refused(f) /\ Allowed(f) /\ by' = f
      BY <1>2 DEF CheckLearns
    <2>2. f.backend = "mock" /\ f.recompile # "off" /\ disk = Missing
      BY <2>1, PawAssumption DEF Allowed, Asked
    <2>3. at' = "run" /\ disk' = disk /\ Runs' = 0
      BY <1>2 DEF CheckLearns, Start, Forget, Runs
    <2> QED BY <2>1, <2>2, <2>3 DEF StubsInv
  <1>3. CASE CodeLearns
    BY <1>3 DEF CodeLearns, Start, StubsInv
  <1>4. CASE LearningEnds
    BY <1>4 DEF LearningEnds, StubsInv
  <1>5. CASE RunSuite /\ UNCHANGED tools
    <2>1. PICK row : reports' = Append(reports, row) /\ row.of = disk
      BY <1>5 DEF RunSuite
    <2>2. /\ Len(reports') = Len(reports) + 1 /\ Len(reports) \in Nat
          /\ \A i \in 1..Len(reports) : reports'[i] = reports[i]
          /\ reports'[Len(reports) + 1] = row
      BY <2>1, Appended DEF LoopInv, TypeOK, Runs
    <2>3. by' = by /\ at # "idle"
      BY <1>5 DEF tools, RunSuite
    <2>4. PICK n \in Nat : n = Runs
      BY <2>2 DEF Runs
    <2>5. Runs' = n + 1 /\ n + 1 > 0 /\ n + 1 # 0
      BY <2>2, <2>4 DEF Runs
    <2>6. CASE n = 0
      <3>1. reports'[1] = row
        BY <2>2, <2>4, <2>6 DEF Runs
      <3> QED BY <2>1, <2>3, <2>4, <2>5, <2>6, <3>1 DEF StubsInv
    <2>7. CASE n # 0
      <3>1. 1 \in 1..n
        BY <2>7
      <3>2. reports'[1] = reports[1]
        BY <2>2, <2>4, <3>1 DEF Runs
      <3> QED BY <2>3, <2>4, <2>5, <2>7, <3>2 DEF StubsInv
    <2> QED BY <2>6, <2>7
  <1>6. CASE Learning /\ ~RunSuite
    <2>1. reports' = reports /\ by' = by /\ at = "ask"
      BY <1>6 DEF Learning, LoopNext, AskTeacher, Learn, CompileRaises, tools
    <2>2. Runs' = Runs /\ Runs > 0 /\ Runs # 0
      BY <2>1 DEF StubsInv, Runs
    <2> QED BY <2>1, <2>2 DEF StubsInv
  <1>7. CASE CheckRefused \/ CheckNothing \/ CheckReadOnly \/ Compare \/ JudgeWritten \/ DiffFiles
    BY <1>1, <1>7 DEF CheckRefused, CheckNothing, CheckReadOnly, Compare, JudgeWritten, DiffFiles
  <1>8. CASE UNCHANGED vars
    BY <1>1, <1>8 DEF vars, tools
  <1> QED BY <1>2, <1>3, <1>4, <1>5, <1>6, <1>7, <1>8 DEF PawNext, Learning

\* Of the commands, only a check of the mock writes an adapter, and only where there was
\* none when it began (cli.py, check): an action property of every behaviour.
THEOREM StubsCorrect == PawSpec => StubsOnlyWhereNothingWas
  <1> DEFINE Safe == disk' # disk =>
                       \/ by = Code
                       \/ by.backend = "mock" /\ by.recompile # "off" /\ reports[1].of = Missing
  <1>1. PawInit => StubsInv
    BY DEF PawInit, LoopInit, StubsInv
  <1>2. LoopInv /\ StubsInv /\ [PawNext]_vars => StubsInv'
    BY StubsKept
  <1>3. LoopInv /\ StubsInv /\ [PawNext]_vars => [Safe]_vars
    <2> SUFFICES ASSUME LoopInv, StubsInv, [PawNext]_vars, disk' # disk PROVE Safe
      OBVIOUS
    <2>1. CASE Learning
      <3>1. at = "ask"
        BY <2>1 DEF Learning, LoopNext, RunSuite, AskTeacher, Learn, CompileRaises
      <3> QED BY <3>1 DEF StubsInv
    <2>2. CASE LearningEnds
      <3>1. disk # Missing /\ at # "idle"
        BY <2>2 DEF LearningEnds
      <3>2. CASE Runs = 0
        BY <3>1, <3>2 DEF StubsInv
      <3>3. CASE Runs # 0
        BY <3>1, <3>3 DEF StubsInv
      <3> QED BY <3>2, <3>3
    <2>3. CASE CheckLearns \/ CodeLearns
      BY <2>3 DEF CheckLearns, CodeLearns, Start
    <2>4. CASE CheckRefused \/ CheckNothing \/ CheckReadOnly \/ Compare \/ JudgeWritten \/ DiffFiles
      BY <2>4 DEF CheckRefused, CheckNothing, CheckReadOnly, Compare, JudgeWritten, DiffFiles, loop
    <2>5. CASE UNCHANGED vars
      BY <2>5 DEF vars, loop
    <2> QED BY <2>1, <2>2, <2>3, <2>4, <2>5 DEF PawNext
  <1> HIDE DEF Safe
  <1>4. PawSpec => [][Safe]_vars
    BY <1>1, <1>2, <1>3, LoopHolds, PTL DEF PawSpec
  <1> QED BY <1>4 DEF Safe, StubsOnlyWhereNothingWas

-----------------------------------------------------------------------------
(* What was measured. *)

\* What an adapter gives for a case is never the placeholder, unless its call raised.
LEMMA OutcomesTell ==
  ASSUME SuiteKept, NEW outcomes \in Outcomes(suite), NEW i \in DOMAIN Cases(suite),
         outcomes[i] \notin Raises
  PROVE  TextOf(outcomes[i]) # Placeholder
  BY SuiteIsLegal DEF TextOf

LEMMA CheckMeasured ==
  ASSUME SuiteKept, NEW outcomes \in Outcomes(suite)
  PROVE  /\ IsFiniteSet(DOMAIN Report(suite, outcomes).rows)
         /\ IsSuccess(Report(suite, outcomes)) =>
              \A i \in DOMAIN Report(suite, outcomes).rows :
                Report(suite, outcomes).rows[i].output # Placeholder
  <1> DEFINE cases == Cases(suite)
             rows == [i \in DOMAIN cases |-> Row(suite, cases[i], outcomes[i])]
             Bad == {i \in DOMAIN rows : rows[i].errored}
  <1>1. IsFiniteSet(DOMAIN cases) /\ DOMAIN rows = DOMAIN cases
    BY SuiteIsLegal, CasesStand
  <1>2. Report(suite, outcomes).rows = rows /\ Report(suite, outcomes).errored = Cardinality(Bad)
    BY DEF Report, Count
  <1>3. ASSUME Cardinality(Bad) = 0, NEW i \in DOMAIN cases PROVE rows[i].output # Placeholder
    <2>1. IsFiniteSet(Bad)
      BY <1>1, FS_Subset
    <2>2. Bad = {}
      BY <1>3, <2>1, FS_EmptySet
    <2>3. rows[i].errored <=> outcomes[i] \in Raises
      BY DEF Row
    <2>4. rows[i].output = TextOf(outcomes[i])
      BY DEF Row
    <2>5. outcomes[i] \notin Raises
      BY <1>1, <2>2, <2>3
    <2> QED BY <2>4, <2>5, OutcomesTell
  <1> HIDE DEF rows, Bad
  <1> QED BY <1>1, <1>2, <1>3 DEF IsSuccess

\* A side of a comparison whose placeholder the report does not count.
Uncounted(side) == side.raised /\ ~side.errored

LEMMA CompareMeasured ==
  ASSUME SuiteKept, NEW fuzz \in BOOLEAN, NEW a \in Outcomes(suite), NEW b \in Outcomes(suite)
  PROVE  /\ IsFiniteSet(DOMAIN CompareReport(suite, fuzz, a, b).rows)
         /\ ~(CompareReport(suite, fuzz, a, b).errored > 0) =>
              \A i \in DOMAIN CompareReport(suite, fuzz, a, b).rows :
                LET r == CompareReport(suite, fuzz, a, b).rows[i] IN
                /\ r.a.output = Placeholder => Uncounted(r.a)
                /\ r.b.output = Placeholder => Uncounted(r.b)
  <1> DEFINE cases == IF fuzz THEN Cases(suite) ELSE suite.cases
             rows == [i \in DOMAIN cases |-> CompareRow(suite, cases[i], a[i], b[i])]
             Bad == {i \in DOMAIN rows : rows[i].a.errored \/ rows[i].b.errored}
  <1>1. IsFiniteSet(DOMAIN cases) /\ DOMAIN rows = DOMAIN cases /\ DOMAIN cases \subseteq DOMAIN Cases(suite)
    <2>1. /\ DOMAIN suite.cases \subseteq DOMAIN Cases(suite)
          /\ IsFiniteSet(DOMAIN Cases(suite))
      BY SuiteIsLegal, CasesStand
    <2>2. DOMAIN cases \subseteq DOMAIN Cases(suite)
      BY <2>1
    <2> HIDE DEF cases
    <2> QED BY <2>1, <2>2, FS_Subset
  <1>2. /\ CompareReport(suite, fuzz, a, b).rows = rows
        /\ CompareReport(suite, fuzz, a, b).errored = Cardinality(Bad)
    BY DEF CompareReport, Count
  <1>3. ASSUME ~(Cardinality(Bad) > 0), NEW i \in DOMAIN cases
        PROVE  /\ rows[i].a.output = Placeholder => Uncounted(rows[i].a)
               /\ rows[i].b.output = Placeholder => Uncounted(rows[i].b)
    <2>1. IsFiniteSet(Bad)
      BY <1>1, FS_Subset
    <2>2. Bad = {}
      <3>1. Cardinality(Bad) \in Nat /\ (Cardinality(Bad) = 0 => Bad = {})
        BY <2>1, FS_EmptySet, FS_CardinalityType
      <3> HIDE DEF Bad
      <3> QED BY <1>3, <3>1
    <2>3. /\ rows[i].a.raised <=> a[i] \in Raises
          /\ rows[i].b.raised <=> b[i] \in Raises
      BY DEF CompareRow, Side
    <2>4. rows[i].a.output = TextOf(a[i]) /\ rows[i].b.output = TextOf(b[i])
      BY DEF CompareRow, Side
    <2>5. ~rows[i].a.errored /\ ~rows[i].b.errored /\ i \in DOMAIN Cases(suite)
      BY <1>1, <2>2
    <2> QED BY <2>3, <2>4, <2>5, OutcomesTell DEF Uncounted
  <1> HIDE DEF rows, Bad
  <1> QED BY <1>1, <1>2, <1>3

\* What has an id was measured, on a side: the row to be judged, and its verdict.
Measured(row, side) == row.id[2] = Placeholder => row.wordless /\ side \in {"A", "B"}
IdsMeasured(rows) ==
  \A side \in DOMAIN rows : \A i \in DOMAIN rows[side] : Measured(rows[side][i], side)
VerdictsMeasured(file) ==
  \A side \in DOMAIN file : \A i \in DOMAIN file[side].verdicts :
    LET v == file[side].verdicts[i] IN ~v.error /\ Measured(v, side)

\* What is to be judged has the outputs of the report.
LEMMA CheckedRows ==
  ASSUME NEW r, NEW w, w = [shape |-> "check", report |-> r]
  PROVE  /\ \A side \in DOMAIN RowsToJudge(w) : DOMAIN RowsToJudge(w)[side] = DOMAIN r.rows
         /\ (\A i \in DOMAIN r.rows : r.rows[i].output # Placeholder) => IdsMeasured(RowsToJudge(w))
  <1> DEFINE sides == {""}
             seen == [i \in DOMAIN r.rows |->
                        RowToJudge(r.rows[i].input, r.rows[i].output, r.rows[i].passed, FALSE)]
  <1>1. RowsToJudge(w) = [side \in sides |-> seen]
    BY DEF RowsToJudge
  <1>2. DOMAIN seen = DOMAIN r.rows /\ \A i \in DOMAIN r.rows : seen[i].id[2] = r.rows[i].output
    BY DEF RowToJudge
  <1> HIDE DEF sides, seen
  <1> QED BY <1>1, <1>2 DEF IdsMeasured, Measured

LEMMA ComparedRows ==
  ASSUME NEW r, NEW w, w = [shape |-> "compare", report |-> r]
  PROVE  /\ \A side \in DOMAIN RowsToJudge(w) : DOMAIN RowsToJudge(w)[side] = DOMAIN r.rows
         /\ (\A i \in DOMAIN r.rows :
               /\ r.rows[i].a.output = Placeholder => Uncounted(r.rows[i].a)
               /\ r.rows[i].b.output = Placeholder => Uncounted(r.rows[i].b))
              => IdsMeasured(RowsToJudge(w))
  <1>1. RowsToJudge(w) = [side \in {"A", "B"} |-> [i \in DOMAIN r.rows |->
          LET of == IF side = "A" THEN r.rows[i].a ELSE r.rows[i].b
          IN RowToJudge(r.rows[i].input, of.output, of.passed, of.raised /\ ~of.errored)]]
    BY DEF RowsToJudge
  <1>2. \A side \in DOMAIN RowsToJudge(w) : DOMAIN RowsToJudge(w)[side] = DOMAIN r.rows
    BY <1>1
  <1>3. \A side \in DOMAIN RowsToJudge(w) : \A i \in DOMAIN r.rows :
          \E of \in {r.rows[i].a, r.rows[i].b} :
            RowsToJudge(w)[side][i] = RowToJudge(r.rows[i].input, of.output, of.passed, Uncounted(of))
    BY <1>1 DEF Uncounted
  <1>4. \A input, output, passed, wordless :
          LET row == RowToJudge(input, output, passed, wordless) IN
          row.id[2] = output /\ row.wordless = wordless
    BY DEF RowToJudge
  <1>5. DOMAIN RowsToJudge(w) = {"A", "B"}
    BY <1>1
  <1>6. ASSUME \A i \in DOMAIN r.rows :
                 /\ r.rows[i].a.output = Placeholder => Uncounted(r.rows[i].a)
                 /\ r.rows[i].b.output = Placeholder => Uncounted(r.rows[i].b),
               NEW side \in DOMAIN RowsToJudge(w), NEW i \in DOMAIN r.rows
        PROVE  Measured(RowsToJudge(w)[side][i], side)
    <2>1. PICK of \in {r.rows[i].a, r.rows[i].b} :
            RowsToJudge(w)[side][i] = RowToJudge(r.rows[i].input, of.output, of.passed, Uncounted(of))
      BY <1>3
    <2>2. RowsToJudge(w)[side][i].id[2] = of.output /\ RowsToJudge(w)[side][i].wordless = Uncounted(of)
      <3> DEFINE uncounted == Uncounted(of)
      <3>1. RowsToJudge(w)[side][i] = RowToJudge(r.rows[i].input, of.output, of.passed, uncounted)
        BY <2>1
      <3> HIDE DEF uncounted
      <3>2. /\ RowsToJudge(w)[side][i].id[2] = of.output
            /\ RowsToJudge(w)[side][i].wordless = uncounted
        BY <1>4, <3>1
      <3> QED BY <3>2 DEF uncounted
    <2>3. of.output = Placeholder => Uncounted(of)
      BY <1>6
    <2> QED BY <1>5, <2>2, <2>3 DEF Measured
  <1> QED BY <1>2, <1>6 DEF IdsMeasured

LEMMA JudgeMeasured ==
  ASSUME NEW rows, NEW answers, NEW file,
         file = [side \in DOMAIN rows |-> Judged(rows[side], answers[side])],
         \A side \in DOMAIN rows : IsFiniteSet(DOMAIN rows[side]),
         IdsMeasured(rows), ~JudgeFailed(file)
  PROVE  VerdictsMeasured(file)
  <1>1. SUFFICES ASSUME NEW side \in DOMAIN rows, NEW i \in DOMAIN rows[side]
                 PROVE  /\ DOMAIN file = DOMAIN rows /\ DOMAIN file[side].verdicts = DOMAIN rows[side]
                        /\ ~file[side].verdicts[i].error
                        /\ Measured(file[side].verdicts[i], side)
    <2>1. \A side \in DOMAIN rows : DOMAIN file[side].verdicts = DOMAIN rows[side]
      BY DEF Judged
    <2>2. DOMAIN file = DOMAIN rows
      OBVIOUS
    <2> QED BY <1>1, <2>1, <2>2 DEF VerdictsMeasured
  <1> DEFINE verdictsOf == [j \in DOMAIN rows[side] |-> Verdict(rows[side][j], answers[side][j])]
             Bad == {j \in DOMAIN verdictsOf : verdictsOf[j].error}
  <1>2. file[side].verdicts = verdictsOf /\ file[side].errors = Cardinality(Bad) /\ DOMAIN file = DOMAIN rows
    BY DEF Judged
  <1>3. IsFiniteSet(Bad)
    BY FS_Subset
  <1>4. Bad = {}
    <2>1. Cardinality(Bad) \in Nat /\ (Cardinality(Bad) = 0 => Bad = {})
      BY <1>3, FS_EmptySet, FS_CardinalityType
    <2>2. ~(Cardinality(Bad) > 0)
      BY <1>2 DEF JudgeFailed
    <2> HIDE DEF Bad
    <2> QED BY <2>1, <2>2
  <1>5. verdictsOf[i].id = rows[side][i].id /\ verdictsOf[i].wordless = rows[side][i].wordless
    BY DEF Verdict
  <1> QED BY <1>2, <1>4, <1>5 DEF IdsMeasured, Measured

Zeros == \A i \in 1..Len(ran) : ran[i].exit = 0

\* What is written and judged was measured as long as every command has exited 0.
MeasuredInv ==
  /\ ran \in Seq({ran[i] : i \in 1..Len(ran)})
  /\ verdicts \in Seq({verdicts[i] : i \in 1..Len(verdicts)})
  /\ written # NotWritten =>
       \A side \in DOMAIN RowsToJudge(written) : IsFiniteSet(DOMAIN RowsToJudge(written)[side])
  /\ Zeros =>
       /\ written # NotWritten => IdsMeasured(RowsToJudge(written))
       /\ \A f \in 1..Len(verdicts) : VerdictsMeasured(verdicts[f])

\* A command that ends with 0 leaves as good as nothing but zeros where there were zeros.
LEMMA ExitTells ==
  ASSUME MeasuredInv, NEW name, NEW code, Exit(name, code)
  PROVE  /\ ran' \in Seq({ran'[i] : i \in 1..Len(ran')})
         /\ Zeros' => Zeros /\ code = 0
  <1> DEFINE row == [command |-> name, exit |-> code]
  <1>1. ran' = Append(ran, row) /\ ran \in Seq({ran[i] : i \in 1..Len(ran)}) /\ row.exit = code
    BY DEF Exit, MeasuredInv
  <1> HIDE DEF row
  <1>2. /\ ran' \in Seq({ran'[i] : i \in 1..Len(ran')})
        /\ Len(ran') = Len(ran) + 1 /\ Len(ran) \in Nat
        /\ \A i \in 1..Len(ran) : ran'[i] = ran[i]
        /\ ran'[Len(ran) + 1] = row
    BY <1>1, Appended
  <1>3. ASSUME Zeros' PROVE Zeros /\ code = 0
    <2>1. Len(ran) + 1 \in 1..Len(ran') /\ \A i \in 1..Len(ran) : i \in 1..Len(ran')
      BY <1>2
    <2> QED BY <1>1, <1>2, <1>3, <2>1 DEF Zeros
  <1> QED BY <1>2, <1>3

LEMMA TailStands ==
  ASSUME NEW S, NEW s \in Seq(S), Len(s) = 2
  PROVE  Tail(s) \in Seq(S) /\ \A i \in 1..Len(Tail(s)) : \E j \in 1..Len(s) : Tail(s)[i] = s[j]
  <1>1. s # <<>>
    OBVIOUS
  <1>2. Tail(s) \in Seq(S) /\ Len(Tail(s)) = 1
    BY <1>1
  <1>3. Tail(s)[1] = s[2]
    BY <1>1, <1>2
  <1> QED BY <1>2, <1>3

\* A sequence of its own members, and one whose members are those of another or x.
Own(t) == t \in Seq({t[i] : i \in 1..Len(t)})
From(t, s, x) == \A i \in 1..Len(t) : t[i] = x \/ \E j \in 1..Len(s) : t[i] = s[j]

LEMMA OneMore ==
  ASSUME NEW S, NEW u \in Seq(S), NEW x \in S
  PROVE  Own(Append(u, x)) /\ From(Append(u, x), u, x)
  <1> DEFINE t == Append(u, x)
  <1>1. /\ t \in Seq(S) /\ Len(t) = Len(u) + 1 /\ Len(u) \in Nat
        /\ \A i \in 1..Len(u) : t[i] = u[i]
        /\ t[Len(u) + 1] = x
    OBVIOUS
  <1> HIDE DEF t
  <1>2. \A i \in 1..Len(t) : i \in 1..Len(u) \/ i = Len(u) + 1
    BY <1>1
  <1>3. Own(t)
    <2>1. DOMAIN t = 1..Len(t) /\ Len(t) \in Nat
      BY <1>1, SeqMembers
    <2>2. t \in [1..Len(t) -> {t[i] : i \in 1..Len(t)}]
      BY <1>1, <2>1
    <2> QED BY <2>1, <2>2 DEF Own
  <1>4. From(t, u, x)
    BY <1>1, <1>2 DEF From
  <1> QED BY <1>3, <1>4 DEF t

\* At most two files of verdicts are kept, the older is dropped.
KeptFiles(s) == IF Len(s) = 2 THEN Tail(s) ELSE s

LEMMA FilesKept ==
  ASSUME NEW S, NEW s \in Seq(S), NEW x \in S
  PROVE  Own(Append(KeptFiles(s), x)) /\ From(Append(KeptFiles(s), x), s, x)
  <1> DEFINE u == KeptFiles(s)
             t == Append(u, x)
  <1>1. u \in Seq(S) /\ \A i \in 1..Len(u) : \E j \in 1..Len(s) : u[i] = s[j]
    <2>1. CASE Len(s) = 2
      BY <2>1, TailStands DEF KeptFiles
    <2>2. CASE Len(s) # 2
      BY <2>2 DEF KeptFiles
    <2> QED BY <2>1, <2>2
  <1> HIDE DEF u
  <1>2. Own(t) /\ From(t, u, x)
    BY <1>1, OneMore
  <1> HIDE DEF t
  <1>3. From(t, s, x)
    BY <1>1, <1>2 DEF From
  <1> QED BY <1>2, <1>3 DEF t, u

\* A command that leaves the reports alone keeps the invariant.
LEMMA ExitKeeps ==
  ASSUME MeasuredInv, NEW name, NEW code, Exit(name, code), UNCHANGED <<written, verdicts>>
  PROVE  MeasuredInv'
  <1>1. ran' \in Seq({ran'[i] : i \in 1..Len(ran')}) /\ (Zeros' => Zeros)
    BY ExitTells
  <1> QED BY <1>1 DEF MeasuredInv

LEMMA WrittenKeeps ==
  ASSUME MeasuredInv, NEW name, NEW code, Exit(name, code), UNCHANGED verdicts,
         written' # NotWritten =>
           \A side \in DOMAIN RowsToJudge(written') : IsFiniteSet(DOMAIN RowsToJudge(written')[side]),
         code = 0 => IdsMeasured(RowsToJudge(written'))
  PROVE  MeasuredInv'
  <1>1. ran' \in Seq({ran'[i] : i \in 1..Len(ran')}) /\ (Zeros' => Zeros /\ code = 0)
    BY ExitTells
  <1> QED BY <1>1 DEF MeasuredInv

LEMMA JudgeKeeps ==
  ASSUME MeasuredInv, JudgeWritten
  PROVE  MeasuredInv'
  <1> DEFINE rows == RowsToJudge(written)
             n == Len(written.report.rows)
  <1>1. PICK answers \in [DOMAIN rows -> Judgings(n)] :
          LET file == [side \in DOMAIN rows |-> Judged(rows[side], answers[side])] IN
          /\ verdicts' = Append(IF Len(verdicts) = 2 THEN Tail(verdicts) ELSE verdicts, file)
          /\ Exit("judge", IF JudgeFailed(file) THEN 1 ELSE 0)
    BY DEF JudgeWritten
  <1> DEFINE file == [side \in DOMAIN rows |-> Judged(rows[side], answers[side])]
             code == IF JudgeFailed(file) THEN 1 ELSE 0
  <1>2. verdicts' = Append(KeptFiles(verdicts), file) /\ Exit("judge", code)
    BY <1>1 DEF KeptFiles
  <1>3. written # NotWritten /\ written' = written
    BY DEF JudgeWritten
  <1>4. ASSUME IdsMeasured(rows), code = 0 PROVE VerdictsMeasured(file)
    <2>1. \A side \in DOMAIN rows : IsFiniteSet(DOMAIN rows[side])
      BY <1>3 DEF MeasuredInv
    <2>2. ~JudgeFailed(file)
      BY <1>4
    <2> HIDE DEF rows
    <2> QED BY <1>4, <2>1, <2>2, JudgeMeasured
  <1> HIDE DEF code, file
  <1>5. ran' \in Seq({ran'[i] : i \in 1..Len(ran')}) /\ (Zeros' => Zeros /\ code = 0)
    BY <1>2, ExitTells
  <1> DEFINE S == {verdicts[i] : i \in 1..Len(verdicts)} \union {file}
  <1>6. verdicts \in Seq(S) /\ file \in S
    <2> DEFINE R == {verdicts[i] : i \in 1..Len(verdicts)}
    <2>1. verdicts \in Seq(R)
      BY DEF MeasuredInv
    <2>2. S = R \union {file}
      OBVIOUS
    <2> HIDE DEF R, S
    <2> QED BY <2>1, <2>2
  <1> HIDE DEF S
  <1>7. /\ verdicts' \in Seq({verdicts'[i] : i \in 1..Len(verdicts')})
        /\ \A i \in 1..Len(verdicts') : verdicts'[i] = file \/ \E j \in 1..Len(verdicts) : verdicts'[i] = verdicts[j]
    <2> DEFINE t == Append(KeptFiles(verdicts), file)
    <2>1. Own(t) /\ From(t, verdicts, file)
      BY <1>6, FilesKept
    <2>2. verdicts' = t
      BY <1>2
    <2> HIDE DEF t
    <2> QED BY <2>1, <2>2 DEF Own, From
  <1>8. ASSUME Zeros'
        PROVE  IdsMeasured(rows) /\ \A f \in 1..Len(verdicts') : VerdictsMeasured(verdicts'[f])
    <2>1. IdsMeasured(rows) /\ \A f \in 1..Len(verdicts) : VerdictsMeasured(verdicts[f])
      BY <1>3, <1>5, <1>8 DEF MeasuredInv
    <2> HIDE DEF rows
    <2>2. VerdictsMeasured(file)
      BY <1>4, <1>5, <1>8, <2>1
    <2> QED BY <1>7, <2>1, <2>2
  <1> QED BY <1>3, <1>5, <1>7, <1>8 DEF MeasuredInv

LEMMA CheckKeeps ==
  ASSUME LoopInv, MeasuredInv, CheckReadOnly
  PROVE  MeasuredInv'
  <1>0. SuiteKept
    BY DEF LoopInv, TypeOK
  <1>1. PICK outcomes \in Outcomes(suite) :
          LET report == Report(suite, outcomes) IN
          /\ written' = [shape |-> "check", report |-> report]
          /\ Exit("check", IF IsSuccess(report) THEN 0 ELSE 1)
    BY DEF CheckReadOnly
  <1> DEFINE r == Report(suite, outcomes)
             w == [shape |-> "check", report |-> r]
             code == IF IsSuccess(r) THEN 0 ELSE 1
  <1>2. written' = w /\ Exit("check", code) /\ verdicts' = verdicts
    BY <1>1 DEF CheckReadOnly
  <1>3. IsFiniteSet(DOMAIN r.rows) /\ (code = 0 => \A i \in DOMAIN r.rows : r.rows[i].output # Placeholder)
    BY <1>0, CheckMeasured
  <1> HIDE DEF r, code
  <1>4. /\ \A side \in DOMAIN RowsToJudge(w) : DOMAIN RowsToJudge(w)[side] = DOMAIN r.rows
        /\ code = 0 => IdsMeasured(RowsToJudge(w))
    BY <1>3, CheckedRows
  <1> HIDE DEF w
  <1>5. /\ \A side \in DOMAIN RowsToJudge(written') : IsFiniteSet(DOMAIN RowsToJudge(written')[side])
        /\ code = 0 => IdsMeasured(RowsToJudge(written'))
    BY <1>2, <1>3, <1>4
  <1> QED BY <1>2, <1>5, WrittenKeeps

LEMMA CompareKeeps ==
  ASSUME LoopInv, MeasuredInv, Compare
  PROVE  MeasuredInv'
  <1>0. SuiteKept
    BY DEF LoopInv, TypeOK
  <1>1. PICK fuzz \in BOOLEAN, a \in Outcomes(suite), b \in Outcomes(suite) :
          LET report == CompareReport(suite, fuzz, a, b) IN
          /\ written' = [shape |-> "compare", report |-> report]
          /\ Exit("compare", IF report.errored > 0 THEN 1 ELSE 0)
    BY DEF Compare
  <1> DEFINE r == CompareReport(suite, fuzz, a, b)
             w == [shape |-> "compare", report |-> r]
             code == IF r.errored > 0 THEN 1 ELSE 0
  <1>2. written' = w /\ Exit("compare", code) /\ verdicts' = verdicts
    BY <1>1 DEF Compare
  <1>3. /\ IsFiniteSet(DOMAIN r.rows)
        /\ code = 0 => \A i \in DOMAIN r.rows :
             /\ r.rows[i].a.output = Placeholder => Uncounted(r.rows[i].a)
             /\ r.rows[i].b.output = Placeholder => Uncounted(r.rows[i].b)
    BY <1>0, CompareMeasured
  <1> HIDE DEF r, code
  <1>4. /\ \A side \in DOMAIN RowsToJudge(w) : DOMAIN RowsToJudge(w)[side] = DOMAIN r.rows
        /\ code = 0 => IdsMeasured(RowsToJudge(w))
    BY <1>3, ComparedRows
  <1> HIDE DEF w
  <1>5. /\ \A side \in DOMAIN RowsToJudge(written') : IsFiniteSet(DOMAIN RowsToJudge(written')[side])
        /\ code = 0 => IdsMeasured(RowsToJudge(written'))
    BY <1>2, <1>3, <1>4
  <1> QED BY <1>2, <1>5, WrittenKeeps

LEMMA MeasuredKept ==
  ASSUME LoopInv, MeasuredInv, [PawNext]_vars
  PROVE  MeasuredInv'
  <1>1. CASE UNCHANGED <<ran, written, verdicts>>
    BY <1>1 DEF MeasuredInv, Zeros
  <1>2. CASE CheckRefused \/ CheckNothing
    BY <1>2, ExitKeeps DEF CheckRefused, CheckNothing
  <1>3. CASE CheckLearns \/ CodeLearns \/ Learning \/ UNCHANGED vars
    BY <1>1, <1>3 DEF CheckLearns, CodeLearns, Start, Learning, tools, vars
  <1>4. CASE LearningEnds
    <2>1. UNCHANGED <<written, verdicts>>
      BY <1>4 DEF LearningEnds
    <2>2. CASE by = Code
      BY <1>1, <1>4, <2>1, <2>2 DEF LearningEnds
    <2>3. CASE by # Code
      BY <1>4, <2>1, <2>3, ExitKeeps DEF LearningEnds
    <2> QED BY <2>2, <2>3
  <1>5. CASE DiffFiles
    <2>1. UNCHANGED <<written, verdicts>> /\ \E code : Exit("diff", code)
      BY <1>5 DEF DiffFiles
    <2> QED BY <2>1, ExitKeeps
  <1> QED BY <1>2, <1>3, <1>4, <1>5, CheckKeeps, CompareKeeps, JudgeKeeps DEF PawNext

LEMMA MeasuredInitially == PawInit => MeasuredInv
  <1> SUFFICES ASSUME PawInit PROVE MeasuredInv
    OBVIOUS
  <1>1. ran = <<>> /\ verdicts = <<>> /\ written = NotWritten /\ 1..Len(verdicts) = {}
    BY DEF PawInit
  <1>2. \A S : <<>> \in Seq(S)
    OBVIOUS
  <1> QED BY <1>1, <1>2 DEF MeasuredInv

\* A line of commands that all exit 0 has measured what it compares: every verdict is an
\* answer of the judge on an output that an adapter gave (cli.py, check, compare, judge).
THEOREM ZeroMeansMeasuredCorrect == PawSpec => []ZeroMeansMeasured
  <1>1. PawInit => MeasuredInv
    BY MeasuredInitially
  <1>2. LoopInv /\ MeasuredInv /\ [PawNext]_vars => MeasuredInv'
    BY MeasuredKept
  <1>3. MeasuredInv => ZeroMeansMeasured
    <2> SUFFICES ASSUME MeasuredInv, \A i \in DOMAIN ran : ran[i].exit = 0, NEW f \in DOMAIN verdicts
                 PROVE  VerdictsMeasured(verdicts[f])
      BY DEF ZeroMeansMeasured, VerdictsMeasured, Measured
    <2>1. DOMAIN ran = 1..Len(ran) /\ DOMAIN verdicts = 1..Len(verdicts)
      BY SeqMembers DEF MeasuredInv
    <2> QED BY <2>1 DEF MeasuredInv, Zeros
  <1> QED BY <1>1, <1>2, <1>3, LoopHolds, PTL DEF PawSpec

-----------------------------------------------------------------------------
(* Tallies. *)

LEMMA AsMany ==
  ASSUME NEW S, NEW T, IsFiniteSet(S), NEW f \in [S -> T],
         \A x, y \in S : f[x] = f[y] => x = y,
         \A z \in T : \E x \in S : f[x] = z
  PROVE  IsFiniteSet(T) /\ Cardinality(T) = Cardinality(S)
  <1>1. f \in Bijection(S, T)
    BY DEF Bijection, Injection, Surjection, IsInjective
  <1>2. ExistsBijection(S, T)
    BY <1>1 DEF ExistsBijection
  <1> QED BY <1>2, FS_Bijection

\* Each input once: as many as there are.
LEMMA DistinctCounts ==
  ASSUME NEW S, NEW s \in Seq(S)
  PROVE  Cardinality(ToSet(s)) = Len(Distinct(s)) /\ Len(Distinct(s)) \in Nat
  <1> DEFINE d == Distinct(s)
             N == Len(d)
             T == ToSet(s)
  <1>1. /\ d \in Seq(S)
        /\ \A n \in 1..N : \E i \in 1..Len(s) : d[n] = s[i]
        /\ \A i \in 1..Len(s) : \E n \in 1..N : d[n] = s[i]
        /\ \A n, m \in 1..N : d[n] = d[m] => n = m
    BY DistinctStands, Zenon
  <1>2. DOMAIN s = 1..Len(s)
    BY SeqMembers
  <1> HIDE DEF d
  <1>3. N \in Nat /\ DOMAIN d = 1..N
    BY <1>1, SeqMembers
  <1>4. (\A n \in 1..N : d[n] \in T) /\ \A z \in T : \E n \in 1..N : d[n] = z
    <2>1. T = {s[i] : i \in 1..Len(s)}
      BY <1>2 DEF ToSet
    <2> HIDE DEF T, N
    <2> QED BY <1>1, <2>1
  <1>5. d \in [1..N -> T]
    BY <1>1, <1>3, <1>4
  <1> HIDE DEF N, T
  <1>6. IsFiniteSet(1..N) /\ Cardinality(1..N) = N
    BY <1>3, FS_Interval
  <1>7. Cardinality(T) = Cardinality(1..N)
    BY <1>1, <1>4, <1>5, <1>6, AsMany DEF N
  <1> QED BY <1>3, <1>6, <1>7 DEF N, T, d

LEMMA TwoSets ==
  ASSUME NEW A, NEW B, IsFiniteSet(A), IsFiniteSet(B), A \cap B = {}
  PROVE  /\ IsFiniteSet(A \cup B) /\ Cardinality(A) \in Nat /\ Cardinality(B) \in Nat
         /\ Cardinality(A \cup B) = Cardinality(A) + Cardinality(B)
  <1>1. /\ IsFiniteSet(A \cup B) /\ Cardinality(A) \in Nat /\ Cardinality(B) \in Nat
        /\ Cardinality(A \cup B) = Cardinality(A) + Cardinality(B) - Cardinality(A \cap B)
    BY FS_Union, FS_CardinalityType
  <1>2. Cardinality(A \cap B) = 0
    BY FS_EmptySet
  <1> DEFINE a == Cardinality(A)
             b == Cardinality(B)
             c == Cardinality(A \cap B)
             u == Cardinality(A \cup B)
  <1>3. a \in Nat /\ b \in Nat /\ c = 0 /\ u = a + b - c
    BY <1>1, <1>2
  <1> HIDE DEF a, b, c, u
  <1>4. u = a + b
    BY <1>3
  <1> QED BY <1>1, <1>4 DEF a, b, u

Scores == {"no key", "errored", "abstained", "matched", "missed"}

\* The answer keys that were scored are those that did not abstain nor raise.
LEMMA ScoresAddUp ==
  ASSUME NEW D, IsFiniteSet(D), NEW sc, \A i \in D : sc[i] \in Scores,
         NEW M, M \subseteq {i \in D : sc[i] \in {"matched", "missed"}}
  PROVE  HasRate(Cardinality(M),
                 Cardinality({i \in D : sc[i] # "no key"}) - Cardinality({i \in D : sc[i] = "abstained"})
                   - Cardinality({i \in D : sc[i] = "errored"}))
  <1> DEFINE K == {i \in D : sc[i] # "no key"}
             A == {i \in D : sc[i] = "abstained"}
             E == {i \in D : sc[i] = "errored"}
             R == {i \in D : sc[i] \in {"matched", "missed"}}
  <1>1. IsFiniteSet(A) /\ IsFiniteSet(E) /\ IsFiniteSet(R)
    BY FS_Subset
  <1>2. A \cap E = {} /\ R \cap (A \cup E) = {} /\ K = R \cup (A \cup E)
    BY DEF Scores
  <1>3. M \subseteq R
    OBVIOUS
  <1> HIDE DEF K, A, E, R
  <1>4. /\ IsFiniteSet(A \cup E) /\ Cardinality(A \cup E) = Cardinality(A) + Cardinality(E)
        /\ Cardinality(A) \in Nat /\ Cardinality(E) \in Nat
    BY <1>1, <1>2, TwoSets
  <1>5. Cardinality(K) = Cardinality(R) + Cardinality(A \cup E) /\ Cardinality(R) \in Nat
    BY <1>1, <1>2, <1>4, TwoSets
  <1>6. Cardinality(M) <= Cardinality(R) /\ Cardinality(M) \in Nat
    BY <1>1, <1>3, FS_Subset, FS_CardinalityType
  <1> DEFINE k == Cardinality(K)
             a == Cardinality(A)
             e == Cardinality(E)
             r == Cardinality(R)
             m == Cardinality(M)
  <1>7. k = r + (a + e) /\ a \in Nat /\ e \in Nat /\ r \in Nat /\ m \in Nat /\ m <= r
    BY <1>4, <1>5, <1>6
  <1> HIDE DEF k, a, e, r, m
  <1>8. 0 <= m /\ m <= k - a - e
    BY <1>7
  <1> QED BY <1>8 DEF HasRate, k, a, e, m, K, A, E

LEMMA ScoreStands ==
  ASSUME NEW s, NEW expected, NEW outcome
  PROVE  Score(s, expected, outcome) \in Scores \ {"no key"}
  <1>1. CASE outcome \in Raises
    BY <1>1 DEF Score, Scores
  <1>2. CASE outcome \notin Raises /\ Abstains(s, outcome)
    BY <1>2 DEF Score, Scores
  <1>3. CASE outcome \notin Raises /\ ~Abstains(s, outcome)
    BY <1>3 DEF Score, Scores
  <1> QED BY <1>1, <1>2, <1>3

\* Of a run of the suite.
CheckAddsUp(s, r) ==
  /\ r.matched <= r.matchedUnquoted
  /\ HasRate(r.matched, ScoredKeys(r)) /\ HasRate(r.matchedUnquoted, ScoredKeys(r))
  /\ r.total + r.dropped = Len(s.cases) + Cardinality(ToSet(Generated(s.fuzzing, StandardInputs(s))))
  /\ IsSuccess(r) <=> r.rows # <<>> /\ FailingInputs(r) = <<>>

LEMMA RunAddsUp ==
  ASSUME NEW s, LegalData(s), NEW outcomes
  PROVE  CheckAddsUp(s, Report(s, outcomes))
  <1> DEFINE cases == Cases(s)
             D == DOMAIN cases
             rows == [i \in D |-> Row(s, cases[i], outcomes[i])]
             r == Report(s, outcomes)
             sc == [i \in D |-> rows[i].score]
             M == {i \in D : rows[i].score = "matched"}
             U == {i \in D : \/ rows[i].score = "matched"
                             \/ rows[i].score = "missed" /\ Unquoted(rows[i].output, rows[i].expected)}
             F == {i \in D : ~rows[i].passed}
             E == {i \in D : rows[i].errored}
             G == Generated(s.fuzzing, StandardInputs(s))
  <1>1. IsFiniteSet(D) /\ D = 1..Len(cases) /\ Len(cases) \in Nat /\ D \in SUBSET Nat
        /\ Len(cases) = Len(s.cases) + Len(Fuzzed(s).cases)
    BY CasesStand
  <1>2. \A i \in D : sc[i] \in Scores
    <2>1. \A i \in D : rows[i].score \in Scores
      BY ScoreStands DEF Row, Scores
    <2> HIDE DEF rows, D
    <2> QED BY <2>1
  <1>3. /\ r.rows = rows /\ r.total = Len(rows) /\ r.dropped = Fuzzed(s).dropped
        /\ r.matched = Cardinality(M) /\ r.matchedUnquoted = Cardinality(U)
        /\ r.failed = Cardinality(F) /\ r.errored = Cardinality(E)
        /\ r.keys = Cardinality({i \in D : rows[i].score # "no key"})
        /\ r.keysAbstained = Cardinality({i \in D : rows[i].score = "abstained"})
        /\ r.keysErrored = Cardinality({i \in D : rows[i].score = "errored"})
    BY DEF Report, Count, MatchedUnquoted
  <1>4. \A i \in D : rows[i].errored => ~rows[i].passed
    BY DEF Row
  <1>5. Len(rows) = Len(cases) /\ (Len(cases) > 0 <=> rows # <<>>)
    <2>1. DOMAIN rows = 1..Len(cases)
      BY <1>1
    <2> DEFINE n == Len(cases)
    <2>2. n \in Nat /\ DOMAIN rows = 1..n
      BY <1>1, <2>1
    <2> HIDE DEF rows, n
    <2>3. rows \in [1..n -> {rows[i] : i \in 1..n}]
      <3>1. rows = [i \in 1..n |-> rows[i]]
        BY <2>2 DEF rows
      <3> QED BY <3>1
    <2>4. Len(rows) = n /\ (n > 0 <=> rows # <<>>)
      BY <2>2, <2>3
    <2> QED BY <2>4 DEF n
  <1> HIDE DEF rows, cases, r
  <1>6. r.matched <= r.matchedUnquoted
    <2>1. IsFiniteSet(U) /\ M \in SUBSET U
      BY <1>1, FS_Subset
    <2> HIDE DEF U, M
    <2>2. Cardinality(M) <= Cardinality(U)
      BY <2>1, FS_Subset
    <2> QED BY <1>3, <2>2
  <1>7. HasRate(r.matched, ScoredKeys(r)) /\ HasRate(r.matchedUnquoted, ScoredKeys(r))
    <2>1. /\ M \subseteq {i \in D : sc[i] \in {"matched", "missed"}}
          /\ U \subseteq {i \in D : sc[i] \in {"matched", "missed"}}
      OBVIOUS
    <2>2. /\ {i \in D : rows[i].score # "no key"} = {i \in D : sc[i] # "no key"}
          /\ {i \in D : rows[i].score = "abstained"} = {i \in D : sc[i] = "abstained"}
          /\ {i \in D : rows[i].score = "errored"} = {i \in D : sc[i] = "errored"}
      OBVIOUS
    <2> HIDE DEF sc, M, U, D
    <2> DEFINE scored == Cardinality({i \in D : sc[i] # "no key"}) - Cardinality({i \in D : sc[i] = "abstained"})
                           - Cardinality({i \in D : sc[i] = "errored"})
    <2>3. HasRate(Cardinality(M), scored) /\ HasRate(Cardinality(U), scored)
      BY <1>1, <1>2, <2>1, ScoresAddUp
    <2>4. ScoredKeys(r) = scored
      BY <1>3, <2>2 DEF ScoredKeys
    <2> HIDE DEF scored
    <2> QED BY <1>3, <2>3, <2>4
  <1>8. r.total + r.dropped = Len(s.cases) + Cardinality(ToSet(G))
    <2>1. PICK V : /\ G \in Seq(V)
                   /\ Fuzzed(s).cases \in Seq(V)
                   /\ Len(Fuzzed(s).cases) + Fuzzed(s).dropped = Len(Distinct(G))
                   /\ Fuzzed(s).dropped \in Nat
      BY FuzzedStands
    <2>2. Cardinality(ToSet(G)) = Len(Distinct(G))
      <3> HIDE DEF G
      <3> QED BY <2>1, DistinctCounts
    <2> DEFINE a == Len(s.cases)
               f == Len(Fuzzed(s).cases)
               d == Fuzzed(s).dropped
    <2>3. a \in Nat /\ f \in Nat /\ d \in Nat
      <3>1. s.cases \in Seq([input : InputsOf(s), expected : Text \union {NoText}])
        BY DEF LegalData
      <3> QED BY <2>1, <3>1
    <2>4. r.total = a + f /\ r.dropped = d /\ Cardinality(ToSet(G)) = f + d
      BY <1>1, <1>3, <1>5, <2>1, <2>2
    <2> HIDE DEF a, f, d, G
    <2>5. r.total + r.dropped = a + Cardinality(ToSet(G))
      BY <2>3, <2>4
    <2> QED BY <2>5 DEF a
  <1>9. IsSuccess(r) <=> r.rows # <<>> /\ FailingInputs(r) = <<>>
    <2>1. IsFiniteSet(F) /\ IsFiniteSet(E) /\ E \subseteq F
      BY <1>1, <1>4, FS_Subset
    <2>2. (Cardinality(F) = 0 <=> F = {}) /\ (Cardinality(E) = 0 <=> E = {}) /\ Cardinality(F) \in Nat
      BY <2>1, FS_EmptySet, FS_CardinalityType
    <2>3. IsSuccess(r) <=> F = {} /\ rows # <<>>
      BY <1>3, <1>5, <2>1, <2>2 DEF IsSuccess
    <2>4. FailingInputs(r) = [n \in 1..Cardinality(F) |-> Kept(rows, F)[n].input]
      <3>1. {i \in DOMAIN r.rows : ~r.rows[i].passed} = F
        BY <1>3 DEF rows
      <3>2. DOMAIN Kept(rows, F) = 1..Cardinality(F)
        BY DEF Kept, InOrder
      <3> QED BY <1>3, <3>1, <3>2 DEF FailingInputs
    <2> HIDE DEF F
    <2>5. FailingInputs(r) = <<>> <=> Cardinality(F) = 0
      <3> DEFINE n == Cardinality(F)
                 t == FailingInputs(r)
      <3>1. n \in Nat /\ DOMAIN t = 1..n
        BY <2>2, <2>4
      <3>2. n # 0 => 1 \in 1..n
        BY <3>1
      <3>3. n = 0 => t = <<>>
        <4>1. ASSUME n = 0 PROVE t = [i \in 1..0 |-> Kept(rows, F)[i].input]
          BY <2>4, <4>1
        <4> HIDE DEF t
        <4> QED BY <4>1
      <3>4. DOMAIN <<>> = {}
        OBVIOUS
      <3> HIDE DEF n, t
      <3> QED BY <3>1, <3>2, <3>3, <3>4 DEF n, t
    <2> QED BY <1>3, <2>2, <2>3, <2>5
  <1> QED BY <1>6, <1>7, <1>8, <1>9 DEF CheckAddsUp, r

\* Of a comparison.
ComparisonAddsUp(r) ==
  /\ HasRate(r.matchedA, ScoredKeysA(r)) /\ HasRate(r.matchedB, ScoredKeysB(r))
  /\ r.identical <= r.equivalent /\ r.equivalent <= r.unquoted /\ r.unquoted <= r.total
  /\ \A i \in DOMAIN r.rows :
       /\ KeysDiffer(r.rows[i]) => GenuinelyDiffering(r.rows[i])
       /\ Differing(r.rows[i]) =>
            r.rows[i].kind # "byte_identical" \/ r.rows[i].a.raised \/ r.rows[i].b.raised

\* Two adapters that gave the same fare alike.
LEMMA SameFaresAlike ==
  ASSUME NEW s, NEW case, NEW a, NEW b, NEW r, r = CompareRow(s, case, a, b)
  PROVE  Differing(r) => r.kind # "byte_identical" \/ r.a.raised \/ r.b.raised
  <1> DEFINE sideA == Side(s, case, a)
             sideB == Side(s, case, b)
  <1>1. r.a = sideA /\ r.b = sideB /\ r.kind = MatchKind(sideA.output, sideB.output)
    BY DEF CompareRow
  <1>2. (sideA.raised <=> a \in Raises) /\ (sideB.raised <=> b \in Raises)
        /\ sideA.output = TextOf(a) /\ sideB.output = TextOf(b)
    BY DEF Side
  <1>3. SUFFICES ASSUME r.kind = "byte_identical", ~r.a.raised, ~r.b.raised
                 PROVE  ~Differing(r)
    OBVIOUS
  <1>4. sideA.output = sideB.output
    <2> DEFINE o == sideA.output
               p == sideB.output
    <2>1. MatchKind(o, p) = "byte_identical"
      BY <1>1, <1>3
    <2> HIDE DEF o, p
    <2>2. CASE o # p /\ Equivalent(o, p)
      BY <2>1, <2>2 DEF MatchKind
    <2>3. CASE o # p /\ ~Equivalent(o, p) /\ Unquoted(o, p)
      BY <2>1, <2>3 DEF MatchKind
    <2>4. CASE o # p /\ ~Equivalent(o, p) /\ ~Unquoted(o, p)
      BY <2>1, <2>4 DEF MatchKind
    <2> QED BY <2>2, <2>3, <2>4 DEF o, p
  <1>5. a = b
    BY <1>1, <1>2, <1>3, <1>4 DEF TextOf
  <1>6. r.a = r.b
    BY <1>1, <1>5
  <1> QED BY <1>3, <1>6 DEF Differing, KeysDiffer

LEMMA CompareAddsUp ==
  ASSUME NEW s, LegalData(s), NEW fuzz \in BOOLEAN, NEW a, NEW b
  PROVE  ComparisonAddsUp(CompareReport(s, fuzz, a, b))
  <1> DEFINE cases == IF fuzz THEN Cases(s) ELSE s.cases
             D == DOMAIN cases
             rows == [i \in D |-> CompareRow(s, cases[i], a[i], b[i])]
             r == CompareReport(s, fuzz, a, b)
             scA == [i \in D |-> rows[i].a.score]
             scB == [i \in D |-> rows[i].b.score]
             I == {i \in D : rows[i].kind = "byte_identical"}
             Q == {i \in D : rows[i].kind \in {"byte_identical", "equivalent"}}
             U == {i \in D : rows[i].kind # "different"}
             K == {i \in D : rows[i].expected # NoText}
  <1>1. IsFiniteSet(D) /\ D = 1..Len(cases) /\ Len(cases) \in Nat
    <2>1. CASE fuzz
      BY <2>1, CasesStand
    <2>2. CASE ~fuzz
      <3> DEFINE C == [input : InputsOf(s), expected : Text \union {NoText}]
      <3>1. cases \in Seq(C)
        BY <2>2 DEF LegalData
      <3> HIDE DEF C, cases
      <3> QED BY <3>1, SeqMembers, FS_Interval
    <2> QED BY <2>1, <2>2
  <1> HIDE DEF cases
  <1>2. /\ r.rows = rows /\ r.total = Len(rows)
        /\ r.identical = Cardinality(I) /\ r.equivalent = Cardinality(Q) /\ r.unquoted = Cardinality(U)
        /\ r.keys = Cardinality(K)
        /\ r.matchedA = Cardinality({i \in D : rows[i].a.score = "matched"})
        /\ r.abstainedA = Cardinality({i \in D : rows[i].a.score = "abstained"})
        /\ r.erroredA = Cardinality({i \in D : rows[i].a.score = "errored"})
        /\ r.matchedB = Cardinality({i \in D : rows[i].b.score = "matched"})
        /\ r.abstainedB = Cardinality({i \in D : rows[i].b.score = "abstained"})
        /\ r.erroredB = Cardinality({i \in D : rows[i].b.score = "errored"})
    BY DEF CompareReport, Count, cases
  <1>3. \A i \in D : /\ scA[i] \in Scores /\ scB[i] \in Scores
                     /\ scA[i] # "no key" <=> rows[i].expected # NoText
                     /\ scB[i] # "no key" <=> rows[i].expected # NoText
    <2>1. \A i \in D : /\ rows[i].expected = cases[i].expected
                       /\ rows[i].a = Side(s, cases[i], a[i]) /\ rows[i].b = Side(s, cases[i], b[i])
      BY DEF CompareRow
    <2>2. ASSUME NEW case, NEW outcome
          PROVE  /\ Side(s, case, outcome).score \in Scores
                 /\ Side(s, case, outcome).score # "no key" <=> case.expected # NoText
      <3>1. Score(s, case.expected, outcome) \in Scores \ {"no key"}
        BY ScoreStands
      <3>2. Side(s, case, outcome).score
              = IF case.expected = NoText THEN "no key" ELSE Score(s, case.expected, outcome)
        BY DEF Side
      <3> QED BY <3>1, <3>2 DEF Scores
    <2>3. \A i \in D : scA[i] = rows[i].a.score /\ scB[i] = rows[i].b.score
      OBVIOUS
    <2> HIDE DEF rows, D, scA, scB
    <2>4. ASSUME NEW i \in D
          PROVE  /\ scA[i] \in Scores /\ scB[i] \in Scores
                 /\ scA[i] # "no key" <=> rows[i].expected # NoText
                 /\ scB[i] # "no key" <=> rows[i].expected # NoText
      <3>1. scA[i] = Side(s, cases[i], a[i]).score /\ scB[i] = Side(s, cases[i], b[i]).score
        BY <2>1, <2>3
      <3>2. scA[i] \in Scores /\ (scA[i] # "no key" <=> cases[i].expected # NoText)
        BY <2>2, <3>1
      <3>3. scB[i] \in Scores /\ (scB[i] # "no key" <=> cases[i].expected # NoText)
        BY <2>2, <3>1
      <3>4. rows[i].expected = cases[i].expected
        BY <2>1
      <3> QED BY <3>2, <3>3, <3>4
    <2> QED BY <2>4
  <1>4. \A i \in D : rows[i] = CompareRow(s, cases[i], a[i], b[i])
    OBVIOUS
  <1>5. Cardinality(D) = Len(rows)
    <2> DEFINE n == Len(cases)
    <2>1. n \in Nat /\ DOMAIN rows = 1..n /\ rows = [i \in 1..n |-> rows[i]] /\ D = 1..n
      BY <1>1
    <2> HIDE DEF rows, n, D
    <2>2. rows \in [1..n -> {rows[i] : i \in 1..n}]
      BY <2>1
    <2>3. Len(rows) = n
      BY <2>1, <2>2
    <2>4. Cardinality(1..n) = n
      BY <2>1, FS_Interval
    <2> QED BY <2>1, <2>3, <2>4
  <1> HIDE DEF rows, r
  <1>6. r.identical <= r.equivalent /\ r.equivalent <= r.unquoted /\ r.unquoted <= r.total
    <2>1. I \subseteq Q /\ Q \subseteq U /\ U \subseteq D
      OBVIOUS
    <2> HIDE DEF I, Q, U, D
    <2>2. IsFiniteSet(U) /\ IsFiniteSet(Q) /\ Cardinality(U) <= Cardinality(D)
      BY <1>1, <2>1, FS_Subset
    <2>3. Cardinality(Q) <= Cardinality(U) /\ Cardinality(I) <= Cardinality(Q)
      BY <2>1, <2>2, FS_Subset
    <2> QED BY <1>2, <1>5, <2>2, <2>3
  <1>7. HasRate(r.matchedA, ScoredKeysA(r))
    <2> DEFINE M == {i \in D : scA[i] = "matched"}
    <2>1. M \subseteq {i \in D : scA[i] \in {"matched", "missed"}}
      OBVIOUS
    <2>2. /\ K = {i \in D : scA[i] # "no key"}
          /\ {i \in D : rows[i].a.score = "matched"} = M
          /\ {i \in D : rows[i].a.score = "abstained"} = {i \in D : scA[i] = "abstained"}
          /\ {i \in D : rows[i].a.score = "errored"} = {i \in D : scA[i] = "errored"}
      BY <1>3
    <2>3. \A i \in D : scA[i] \in Scores
      BY <1>3
    <2> HIDE DEF scA, M, D, K
    <2> DEFINE scored == Cardinality({i \in D : scA[i] # "no key"}) - Cardinality({i \in D : scA[i] = "abstained"})
                           - Cardinality({i \in D : scA[i] = "errored"})
    <2>4. HasRate(Cardinality(M), scored)
      BY <1>1, <2>1, <2>3, ScoresAddUp
    <2>5. ScoredKeysA(r) = scored
      BY <1>2, <2>2 DEF ScoredKeysA
    <2> HIDE DEF scored
    <2> QED BY <1>2, <2>2, <2>4, <2>5
  <1>8. HasRate(r.matchedB, ScoredKeysB(r))
    <2> DEFINE M == {i \in D : scB[i] = "matched"}
    <2>1. M \subseteq {i \in D : scB[i] \in {"matched", "missed"}}
      OBVIOUS
    <2>2. /\ K = {i \in D : scB[i] # "no key"}
          /\ {i \in D : rows[i].b.score = "matched"} = M
          /\ {i \in D : rows[i].b.score = "abstained"} = {i \in D : scB[i] = "abstained"}
          /\ {i \in D : rows[i].b.score = "errored"} = {i \in D : scB[i] = "errored"}
      BY <1>3
    <2>3. \A i \in D : scB[i] \in Scores
      BY <1>3
    <2> HIDE DEF scB, M, D, K
    <2> DEFINE scored == Cardinality({i \in D : scB[i] # "no key"}) - Cardinality({i \in D : scB[i] = "abstained"})
                           - Cardinality({i \in D : scB[i] = "errored"})
    <2>4. HasRate(Cardinality(M), scored)
      BY <1>1, <2>1, <2>3, ScoresAddUp
    <2>5. ScoredKeysB(r) = scored
      BY <1>2, <2>2 DEF ScoredKeysB
    <2> HIDE DEF scored
    <2> QED BY <1>2, <2>2, <2>4, <2>5
  <1>9. ASSUME NEW i \in DOMAIN r.rows
        PROVE  /\ KeysDiffer(r.rows[i]) => GenuinelyDiffering(r.rows[i])
               /\ Differing(r.rows[i]) =>
                    r.rows[i].kind # "byte_identical" \/ r.rows[i].a.raised \/ r.rows[i].b.raised
    <2>1. i \in D
      BY <1>2 DEF rows
    <2>2. r.rows[i] = CompareRow(s, cases[i], a[i], b[i])
      BY <1>2, <1>4, <2>1
    <2>3. KeysDiffer(r.rows[i]) => GenuinelyDiffering(r.rows[i])
      BY DEF GenuinelyDiffering, Differing, EquivalentOnly
    <2> QED BY <2>2, <2>3, SameFaresAlike
  <1> QED BY <1>6, <1>7, <1>8, <1>9 DEF ComparisonAddsUp, r

\* What is written adds up, of a suite with these cases and this fuzzing.
WrittenAddsUp(s, w) ==
  \/ w = NotWritten
  \/ \E r : w = [shape |-> "check", report |-> r] /\ CheckAddsUp(s, r)
  \/ \E r : w = [shape |-> "compare", report |-> r] /\ ComparisonAddsUp(r)

LEMMA WrittenSaysSo ==
  ASSUME WrittenAddsUp(suite, written)
  PROVE  ReportAddsUp
  <1>1. CASE written = NotWritten
    BY <1>1 DEF ReportAddsUp, NotWritten
  <1>2. ASSUME NEW r, written = [shape |-> "check", report |-> r], CheckAddsUp(suite, r)
        PROVE  ReportAddsUp
    <2>1. written.shape = "check" /\ written.report = r
      BY <1>2
    <2> QED BY <1>2, <2>1 DEF ReportAddsUp, CheckAddsUp
  <1>3. ASSUME NEW r, written = [shape |-> "compare", report |-> r], ComparisonAddsUp(r)
        PROVE  ReportAddsUp
    <2>1. written.shape = "compare" /\ written.report = r
      BY <1>3
    <2> QED BY <1>3, <2>1 DEF ReportAddsUp, ComparisonAddsUp
  <1> QED BY <1>1, <1>2, <1>3 DEF WrittenAddsUp

LEMMA WrittenKept ==
  ASSUME LoopInv, WrittenAddsUp(suite, written), [PawNext]_vars
  PROVE  WrittenAddsUp(suite', written')
  <1>0. SuiteKept /\ LegalData(suite)
    BY SuiteIsLegal DEF LoopInv, TypeOK
  <1>1. suite'.cases = suite.cases /\ suite'.fuzzing = suite.fuzzing
    <2>1. CASE suite' = suite
      BY <2>1
    <2>2. CASE Starts
      <3>1. PICK b \in BOOLEAN : suite' = [suite EXCEPT !.autoRecompile = b]
        BY <2>2 DEF Starts
      <3> QED BY <1>0, <3>1, SuiteStays
    <2>3. CASE UNCHANGED loop \/ LoopNext \/ LearningEnds
      BY <2>1, <2>3 DEF loop, LoopNext, RunSuite, AskTeacher, Learn, CompileRaises, LearningEnds
    <2> QED BY <2>2, <2>3, PawSteps
  <1>2. CASE written' = written
    <2>1. \A r : CheckAddsUp(suite, r) => CheckAddsUp(suite', r)
      BY <1>1 DEF CheckAddsUp, StandardInputs
    <2> QED BY <1>2, <2>1 DEF WrittenAddsUp
  <1>3. CASE CheckReadOnly
    <2>1. PICK outcomes \in Outcomes(suite) : written' = [shape |-> "check", report |-> Report(suite, outcomes)]
      BY <1>3 DEF CheckReadOnly
    <2>2. suite' = suite
      BY <1>3 DEF CheckReadOnly, loop
    <2> QED BY <1>0, <2>1, <2>2, RunAddsUp DEF WrittenAddsUp
  <1>4. CASE Compare
    <2>1. PICK fuzz \in BOOLEAN, a \in Outcomes(suite), b \in Outcomes(suite) :
            written' = [shape |-> "compare", report |-> CompareReport(suite, fuzz, a, b)]
      BY <1>4 DEF Compare
    <2> QED BY <1>0, <2>1, CompareAddsUp DEF WrittenAddsUp
  <1>5. CASE CheckRefused \/ CheckNothing \/ CheckLearns \/ CodeLearns \/ Learning \/ LearningEnds
             \/ JudgeWritten \/ DiffFiles \/ UNCHANGED vars
    BY <1>2, <1>5 DEF CheckRefused, CheckNothing, CheckLearns, CodeLearns, Start, Learning, LearningEnds,
                      JudgeWritten, DiffFiles, vars, tools
  <1> QED BY <1>3, <1>4, <1>5 DEF PawNext

-----------------------------------------------------------------------------
(* Two files of verdicts. *)

RowsOf(s, id) == {i \in DOMAIN s : s[i].id = id}

\* The rows of an id in a file of verdicts are its keys, one after the other.
LEMMA KeysStand ==
  ASSUME NEW report, NEW vs, vs = report.verdicts, NEW n \in Nat, DOMAIN vs = 1..n
  PROVE  /\ \A id : RowsOf(vs, id) \in SUBSET Nat /\ IsFiniteSet(RowsOf(vs, id))
         /\ \A i \in 1..n : KeyOf(report, i) = <<vs[i].id, Rank(RowsOf(vs, vs[i].id), i)>>
         /\ \A i, j \in 1..n : KeyOf(report, i) = KeyOf(report, j) => i = j
         /\ \A id : \A m : <<id, m>> \in DOMAIN ByKey(report) <=> m \in 1..Cardinality(RowsOf(vs, id))
         /\ \A k \in DOMAIN ByKey(report) : k = <<k[1], k[2]>>
         /\ \A i \in 1..n : KeyOf(report, i) \in DOMAIN ByKey(report)
                            /\ ByKey(report)[KeyOf(report, i)] = vs[i]
         /\ IsFiniteSet(DOMAIN ByKey(report)) /\ Cardinality(DOMAIN ByKey(report)) = n
  <1> DEFINE F(id) == RowsOf(vs, id)
             K == DOMAIN ByKey(report)
  <1>1. \A id : F(id) \in SUBSET Nat /\ IsFiniteSet(F(id))
    <2> SUFFICES ASSUME NEW id PROVE F(id) \in SUBSET Nat /\ IsFiniteSet(F(id))
      OBVIOUS
    <2>1. F(id) \subseteq 1..n
      BY DEF RowsOf
    <2>2. IsFiniteSet(1..n)
      BY FS_Interval
    <2>3. IsFiniteSet(F(id))
      BY <2>1, <2>2, FS_Subset
    <2>4. 1..n \subseteq Nat
      OBVIOUS
    <2> HIDE DEF F
    <2> QED BY <2>1, <2>3, <2>4
  <1>2. ASSUME NEW i \in 1..n
        PROVE  /\ KeyOf(report, i) = <<vs[i].id, Rank(F(vs[i].id), i)>>
               /\ i \in F(vs[i].id)
    <2> DEFINE same == {j \in 1..i : vs[j].id = vs[i].id}
    <2>1. same = {j \in F(vs[i].id) : j <= i}
      <3>1. \A j : j \in 1..i <=> j \in 1..n /\ j <= i
        OBVIOUS
      <3> QED BY <3>1 DEF RowsOf
    <2>2. KeyOf(report, i) = <<vs[i].id, Cardinality(same)>>
      BY DEF KeyOf
    <2> HIDE DEF same
    <2>3. KeyOf(report, i) = <<vs[i].id, Rank(F(vs[i].id), i)>>
      BY <2>1, <2>2 DEF Rank
    <2> QED BY <2>3 DEF RowsOf
  <1>3. ASSUME NEW i \in 1..n, NEW j \in 1..n, KeyOf(report, i) = KeyOf(report, j) PROVE i = j
    <2> DEFINE id == vs[i].id
    <2>1. vs[j].id = id /\ Rank(F(id), i) = Rank(F(id), j) /\ i \in F(id) /\ j \in F(id)
      BY <1>2, <1>3
    <2>2. InOrder(F(id))[Rank(F(id), i)] = i /\ InOrder(F(id))[Rank(F(id), j)] = j
      BY <1>1, <2>1, InOrderSorts
    <2> QED BY <2>1, <2>2
  <1>4. K = {KeyOf(report, i) : i \in 1..n}
    BY DEF ByKey
  <1>5. \A id : \A m : <<id, m>> \in K <=> m \in 1..Cardinality(F(id))
    <2> SUFFICES ASSUME NEW id, NEW m PROVE <<id, m>> \in K <=> m \in 1..Cardinality(F(id))
      OBVIOUS
    <2>1. ASSUME <<id, m>> \in K PROVE m \in 1..Cardinality(F(id))
      <3>1. PICK i \in 1..n : <<id, m>> = KeyOf(report, i)
        BY <1>4, <2>1
      <3>2. vs[i].id = id /\ m = Rank(F(id), i) /\ i \in F(id)
        BY <1>2, <3>1
      <3> QED BY <1>1, <3>2, Ranks
    <2>2. ASSUME m \in 1..Cardinality(F(id)) PROVE <<id, m>> \in K
      <3>1. PICK i \in F(id) : Rank(F(id), i) = m
        BY <1>1, <2>2, Ranks
      <3>2. i \in 1..n /\ vs[i].id = id
        BY DEF RowsOf
      <3>3. KeyOf(report, i) = <<id, m>>
        BY <1>2, <3>1, <3>2
      <3> QED BY <1>4, <3>2, <3>3
    <2> QED BY <2>1, <2>2
  <1>6. ASSUME NEW i \in 1..n
        PROVE  KeyOf(report, i) \in K /\ ByKey(report)[KeyOf(report, i)] = vs[i]
    <2> DEFINE Is(j) == /\ KeyOf(report, j) = KeyOf(report, i)
                        /\ \A l \in DOMAIN vs : KeyOf(report, l) = KeyOf(report, i) => l <= j
               latest == CHOOSE j \in DOMAIN vs : Is(j)
    <2>1. KeyOf(report, i) \in K
      BY <1>4
    <2>2. i \in DOMAIN vs /\ Is(i)
      BY <1>3
    <2>3. latest \in DOMAIN vs /\ Is(latest)
      <3> HIDE DEF Is
      <3> QED BY <2>2
    <2>4. latest = i
      BY <1>3, <2>3
    <2>5. ByKey(report)[KeyOf(report, i)] = vs[latest]
      BY <2>1 DEF ByKey
    <2> QED BY <2>1, <2>4, <2>5
  <1>7. \A k \in K : k = <<k[1], k[2]>>
    BY <1>2, <1>4
  <1>8. IsFiniteSet(K) /\ Cardinality(K) = n
    <2> DEFINE f == [i \in 1..n |-> KeyOf(report, i)]
    <2>1. f \in [1..n -> K] /\ (\A i, j \in 1..n : f[i] = f[j] => i = j) /\ \A k \in K : \E i \in 1..n : f[i] = k
      BY <1>3, <1>4
    <2>2. IsFiniteSet(1..n) /\ Cardinality(1..n) = n
      BY FS_Interval
    <2> HIDE DEF f, K
    <2> DEFINE S == 1..n
    <2>3. f \in [S -> K] /\ (\A i, j \in S : f[i] = f[j] => i = j) /\ \A k \in K : \E i \in S : f[i] = k
      BY <2>1
    <2>4. IsFiniteSet(S) /\ Cardinality(S) = n
      BY <2>2
    <2> HIDE DEF S
    <2>5. IsFiniteSet(K) /\ Cardinality(K) = Cardinality(S)
      BY <2>3, <2>4, AsMany
    <2> QED BY <2>4, <2>5
  <1> QED BY <1>1, <1>2, <1>3, <1>5, <1>6, <1>7, <1>8

YesRows(s, id) == {i \in RowsOf(s, id) : s[i].verdict}
YesKeys(f, count, id) == {m \in 1..count : f[<<id, m>>].verdict}

\* The rows of an id that are in favour are as many as the keys of it that are.
LEMMA YesCounts ==
  ASSUME NEW report, NEW vs, vs = report.verdicts, NEW n \in Nat, DOMAIN vs = 1..n, NEW id
  PROVE  Cardinality(YesRows(vs, id))
           = Cardinality(YesKeys(ByKey(report), Cardinality(RowsOf(vs, id)), id))
  <1> DEFINE F == RowsOf(vs, id)
             N == Cardinality(F)
             Y == YesRows(vs, id)
             T == {m \in 1..N : ByKey(report)[<<id, m>>].verdict}
             f == [i \in Y |-> Rank(F, i)]
  <1>1. F \in SUBSET Nat /\ IsFiniteSet(F) /\ F \subseteq 1..n
    <2>1. F \in SUBSET Nat /\ IsFiniteSet(F)
      BY KeysStand
    <2>2. F \subseteq 1..n
      BY DEF RowsOf
    <2> QED BY <2>1, <2>2
  <1>2. \A i \in F : ByKey(report)[<<id, Rank(F, i)>>] = vs[i]
    <2> SUFFICES ASSUME NEW i \in F PROVE ByKey(report)[<<id, Rank(F, i)>>] = vs[i]
      OBVIOUS
    <2>1. i \in 1..n /\ vs[i].id = id
      BY <1>1 DEF RowsOf
    <2>2. KeyOf(report, i) = <<id, Rank(F, i)>> /\ ByKey(report)[KeyOf(report, i)] = vs[i]
      BY <2>1, KeysStand
    <2> QED BY <2>2
  <1>3. Y \subseteq F /\ IsFiniteSet(Y) /\ \A i \in F : i \in Y <=> vs[i].verdict
    BY <1>1, FS_Subset DEF YesRows
  <1>4. \A i \in F : Rank(F, i) \in 1..N
    BY <1>1, Ranks
  <1>5. \A i \in F : InOrder(F)[Rank(F, i)] = i
    BY <1>1, InOrderSorts
  <1>6. \A m \in 1..N : \E i \in F : Rank(F, i) = m
    BY <1>1, Ranks
  <1> HIDE DEF F, N, Y
  <1>7. f \in [Y -> T]
    BY <1>2, <1>3, <1>4
  <1>8. \A i, j \in Y : f[i] = f[j] => i = j
    BY <1>3, <1>5
  <1>9. \A m \in T : \E i \in Y : f[i] = m
    <2> SUFFICES ASSUME NEW m \in T PROVE \E i \in Y : f[i] = m
      OBVIOUS
    <2>1. PICK i \in F : Rank(F, i) = m
      BY <1>6
    <2>2. vs[i].verdict
      BY <1>2, <2>1
    <2> QED BY <1>3, <2>1, <2>2
  <1> HIDE DEF f, T
  <1>10. Cardinality(T) = Cardinality(Y)
    BY <1>3, <1>7, <1>8, <1>9, AsMany
  <1> QED BY <1>10 DEF F, N, Y, T, YesKeys

\* What DiffAddsUp says of one side.
DiffSaysSo(d, old, new) ==
  LET Both(id) == LET o == Cardinality(RowsOf(old, id))
                      n == Cardinality(RowsOf(new, id)) IN IF o <= n THEN o ELSE n
      ids == {old[i].id : i \in DOMAIN old} IN
  /\ d.compared = Cardinality(UNION {{id} \X (1..Both(id)) : id \in ids})
  /\ d.oldOnly + d.compared = d.oldTotal /\ d.newOnly + d.compared = d.newTotal
  /\ \A id \in ids :
       /\ Cardinality({k \in d.flips : k[1] = id}) <= Both(id)
       /\ Cardinality(RowsOf(old, id)) = Cardinality(RowsOf(new, id))
            /\ Cardinality(YesRows(old, id)) # Cardinality(YesRows(new, id)) => \E k \in d.flips : k[1] = id

ColumnOf(id, b) == {<<id, m>> : m \in 1..b}

LEMMA Column ==
  ASSUME NEW b \in Nat, NEW id
  PROVE  IsFiniteSet(ColumnOf(id, b)) /\ Cardinality(ColumnOf(id, b)) = b
  <1> DEFINE S == 1..b
             T == ColumnOf(id, b)
             f == [m \in S |-> <<id, m>>]
  <1>1. IsFiniteSet(S) /\ Cardinality(S) = b
    BY FS_Interval
  <1>2. f \in [S -> T] /\ (\A x, y \in S : f[x] = f[y] => x = y) /\ \A z \in T : \E x \in S : f[x] = z
    BY DEF ColumnOf
  <1> HIDE DEF S, T, f
  <1>3. IsFiniteSet(T) /\ Cardinality(T) = Cardinality(S)
    BY <1>1, <1>2, AsMany
  <1> QED BY <1>1, <1>3 DEF T

LEMMA DiffStands ==
  ASSUME NEW old, NEW new, NEW so, NEW sn, so = old.verdicts, sn = new.verdicts,
         NEW p \in Nat, NEW q \in Nat, DOMAIN so = 1..p, DOMAIN sn = 1..q, Len(so) = p, Len(sn) = q
  PROVE  DiffSaysSo(DiffVerdicts(old, new), so, sn)
  <1> DEFINE o == ByKey(old)
             n == ByKey(new)
             common == DOMAIN o \intersect DOMAIN n
             d == DiffVerdicts(old, new)
             co(id) == Cardinality(RowsOf(so, id))
             cn(id) == Cardinality(RowsOf(sn, id))
             Both(id) == IF co(id) <= cn(id) THEN co(id) ELSE cn(id)
             ids == {so[i].id : i \in DOMAIN so}
             flips == {k \in common : o[k].verdict # n[k].verdict}
  <1>1. /\ d.compared = Cardinality(common) /\ d.flips = flips /\ d.oldTotal = p /\ d.newTotal = q
        /\ d.oldOnly = Cardinality(DOMAIN o \ DOMAIN n) /\ d.newOnly = Cardinality(DOMAIN n \ DOMAIN o)
    BY DEF DiffVerdicts
  <1>2. /\ \A id : \A m : <<id, m>> \in DOMAIN o <=> m \in 1..co(id)
        /\ \A k \in DOMAIN o : k = <<k[1], k[2]>>
        /\ IsFiniteSet(DOMAIN o) /\ Cardinality(DOMAIN o) = p
    BY KeysStand
  <1>3. /\ \A id : \A m : <<id, m>> \in DOMAIN n <=> m \in 1..cn(id)
        /\ IsFiniteSet(DOMAIN n) /\ Cardinality(DOMAIN n) = q
    BY KeysStand
  <1>4. \A id : co(id) \in Nat /\ cn(id) \in Nat /\ Both(id) \in Nat
    <2> SUFFICES ASSUME NEW id PROVE co(id) \in Nat /\ cn(id) \in Nat
      OBVIOUS
    <2>1. IsFiniteSet(RowsOf(so, id)) /\ IsFiniteSet(RowsOf(sn, id))
      BY KeysStand
    <2> QED BY <2>1, FS_CardinalityType
  <1>5. \A id : co(id) # 0 => id \in ids
    <2> SUFFICES ASSUME NEW id, co(id) # 0 PROVE id \in ids
      OBVIOUS
    <2>1. RowsOf(so, id) # {}
      BY FS_EmptySet
    <2> QED BY <2>1 DEF RowsOf
  <1>6. \A id \in ids : YesRows(so, id) = {i \in RowsOf(so, id) : so[i].verdict}
    BY DEF YesRows
  <1>7. /\ \A id : Cardinality(YesRows(so, id)) = Cardinality(YesKeys(o, co(id), id))
        /\ \A id : Cardinality(YesRows(sn, id)) = Cardinality(YesKeys(n, cn(id), id))
    BY YesCounts
  <1> HIDE DEF o, n, d, co, cn, ids
  <1>8. \A id : \A m : <<id, m>> \in common <=> m \in 1..Both(id)
    <2> SUFFICES ASSUME NEW id, NEW m PROVE <<id, m>> \in common <=> m \in 1..Both(id)
      OBVIOUS
    <2>1. <<id, m>> \in common <=> m \in 1..co(id) /\ m \in 1..cn(id)
      BY <1>2, <1>3
    <2> QED BY <1>4, <2>1
  <1>9. common = UNION {{id} \X (1..Both(id)) : id \in ids}
    <2>1. ASSUME NEW k \in common PROVE k \in UNION {{id} \X (1..Both(id)) : id \in ids}
      <3>1. k = <<k[1], k[2]>> /\ k[2] \in 1..Both(k[1]) /\ k[2] \in 1..co(k[1])
        BY <1>2, <1>8
      <3>2. k[1] \in ids
        BY <1>4, <1>5, <3>1
      <3> QED BY <3>1, <3>2
    <2>2. ASSUME NEW k \in UNION {{id} \X (1..Both(id)) : id \in ids} PROVE k \in common
      <3>1. PICK id \in ids : k \in {id} \X (1..Both(id))
        BY <2>2
      <3>2. k = <<id, k[2]>> /\ k[2] \in 1..Both(id)
        BY <3>1
      <3> QED BY <1>8, <3>2
    <2> HIDE DEF common
    <2> QED BY <2>1, <2>2
  <1>10. IsFiniteSet(common)
    BY <1>2, FS_Subset
  <1>11. d.oldOnly + d.compared = d.oldTotal /\ d.newOnly + d.compared = d.newTotal
    <2> DEFINE a == DOMAIN o \ DOMAIN n
               b == DOMAIN n \ DOMAIN o
    <2>1. IsFiniteSet(a) /\ IsFiniteSet(b)
      BY <1>2, <1>3, FS_Subset
    <2>2. a \cap common = {} /\ b \cap common = {} /\ DOMAIN o = a \cup common /\ DOMAIN n = b \cup common
      OBVIOUS
    <2> HIDE DEF a, b, common
    <2>3. /\ Cardinality(DOMAIN o) = Cardinality(a) + Cardinality(common)
          /\ Cardinality(DOMAIN n) = Cardinality(b) + Cardinality(common)
      BY <1>10, <2>1, <2>2, TwoSets
    <2> QED BY <1>1, <1>2, <1>3, <2>3 DEF a, b
  <1>12. ASSUME NEW id \in ids PROVE Cardinality({k \in d.flips : k[1] = id}) <= Both(id)
    <2> DEFINE b == Both(id)
               T == ColumnOf(id, b)
               X == {k \in d.flips : k[1] = id}
    <2>1. X \subseteq T
      <3> SUFFICES ASSUME NEW k \in X PROVE k \in T
        OBVIOUS
      <3>1. k \in common /\ k[1] = id
        BY <1>1
      <3>2. k = <<id, k[2]>>
        BY <1>2, <3>1
      <3>3. k[2] \in 1..b
        BY <1>8, <3>1, <3>2
      <3> QED BY <3>2, <3>3 DEF ColumnOf
    <2>2. b \in Nat
      BY <1>4
    <2> HIDE DEF b, X
    <2>3. IsFiniteSet(T) /\ Cardinality(T) = b
      BY <2>2, Column
    <2> HIDE DEF T
    <2>4. Cardinality(X) <= b
      BY <2>1, <2>3, FS_Subset
    <2> QED BY <2>4 DEF b, X
  <1>13. ASSUME NEW id \in ids, co(id) = cn(id), Cardinality(YesRows(so, id)) # Cardinality(YesRows(sn, id))
         PROVE  \E k \in d.flips : k[1] = id
    <2>1. SUFFICES ASSUME \A k \in d.flips : k[1] # id PROVE FALSE
      OBVIOUS
    <2>2. \A m \in 1..co(id) : <<id, m>> \in common
      BY <1>2, <1>3, <1>13
    <2>3. \A m \in 1..co(id) : o[<<id, m>>].verdict = n[<<id, m>>].verdict
      BY <1>1, <2>1, <2>2
    <2>4. YesKeys(o, co(id), id) = YesKeys(n, cn(id), id)
      BY <1>13, <2>3 DEF YesKeys
    <2> QED BY <1>7, <1>13, <2>4
  <1>14. d.compared = Cardinality(UNION {{id} \X (1..Both(id)) : id \in ids})
    BY <1>1, <1>9
  <1> QED BY <1>11, <1>12, <1>13, <1>14 DEF DiffSaysSo, d, co, cn, ids

FileStands(file) ==
  \A side \in DOMAIN file : \E n \in Nat : DOMAIN file[side].verdicts = 1..n /\ Len(file[side].verdicts) = n
RowsStand(rows) == \A side \in DOMAIN rows : \E n \in Nat : DOMAIN rows[side] = 1..n

\* What is written and judged are sequences.
FilesInv ==
  /\ written # NotWritten => RowsStand(RowsToJudge(written))
  /\ \A f \in 1..Len(verdicts) : FileStands(verdicts[f])

LEMMA WrittenStands ==
  ASSUME LoopInv, CheckReadOnly \/ Compare
  PROVE  RowsStand(RowsToJudge(written'))
  <1>0. LegalData(suite)
    BY SuiteIsLegal DEF LoopInv, TypeOK
  <1>1. \E n \in Nat : DOMAIN Cases(suite) = 1..n
    BY <1>0, CasesStand
  <1>2. \E n \in Nat : DOMAIN suite.cases = 1..n
    <2> DEFINE C == [input : InputsOf(suite), expected : Text \union {NoText}]
    <2>1. suite.cases \in Seq(C)
      BY <1>0 DEF LegalData
    <2> HIDE DEF C
    <2> QED BY <2>1, SeqMembers
  <1>3. ASSUME NEW w, NEW r, \A side \in DOMAIN RowsToJudge(w) : DOMAIN RowsToJudge(w)[side] = DOMAIN r.rows,
               DOMAIN r.rows \in {DOMAIN Cases(suite), DOMAIN suite.cases}
        PROVE  RowsStand(RowsToJudge(w))
    BY <1>1, <1>2, <1>3 DEF RowsStand
  <1>4. CASE CheckReadOnly
    <2>1. PICK outcomes \in Outcomes(suite) : written' = [shape |-> "check", report |-> Report(suite, outcomes)]
      BY <1>4 DEF CheckReadOnly
    <2> DEFINE r == Report(suite, outcomes)
               w == [shape |-> "check", report |-> r]
    <2>2. DOMAIN r.rows = DOMAIN Cases(suite)
      BY DEF Report
    <2> HIDE DEF r
    <2>3. \A side \in DOMAIN RowsToJudge(w) : DOMAIN RowsToJudge(w)[side] = DOMAIN r.rows
      BY CheckedRows
    <2>4. written' = w
      BY <2>1 DEF r
    <2> HIDE DEF w
    <2>5. RowsStand(RowsToJudge(w))
      BY <1>3, <2>2, <2>3
    <2> QED BY <2>4, <2>5
  <1>5. CASE Compare
    <2>1. PICK fuzz \in BOOLEAN, a \in Outcomes(suite), b \in Outcomes(suite) :
            written' = [shape |-> "compare", report |-> CompareReport(suite, fuzz, a, b)]
      BY <1>5 DEF Compare
    <2> DEFINE r == CompareReport(suite, fuzz, a, b)
               w == [shape |-> "compare", report |-> r]
    <2>2. DOMAIN r.rows \in {DOMAIN Cases(suite), DOMAIN suite.cases}
      BY DEF CompareReport
    <2> HIDE DEF r
    <2>3. \A side \in DOMAIN RowsToJudge(w) : DOMAIN RowsToJudge(w)[side] = DOMAIN r.rows
      BY ComparedRows
    <2>4. written' = w
      BY <2>1 DEF r
    <2> HIDE DEF w
    <2>5. RowsStand(RowsToJudge(w))
      BY <1>3, <2>2, <2>3
    <2> QED BY <2>4, <2>5
  <1> QED BY <1>4, <1>5

LEMMA JudgedStands ==
  ASSUME NEW rows, RowsStand(rows), NEW answers
  PROVE  FileStands([side \in DOMAIN rows |-> Judged(rows[side], answers[side])])
  <1> DEFINE file == [side \in DOMAIN rows |-> Judged(rows[side], answers[side])]
  <1>1. SUFFICES ASSUME NEW side \in DOMAIN rows
                 PROVE  \E n \in Nat : DOMAIN file[side].verdicts = 1..n /\ Len(file[side].verdicts) = n
    BY DEF FileStands
  <1>2. PICK n \in Nat : DOMAIN rows[side] = 1..n
    BY DEF RowsStand
  <1> DEFINE vs == [i \in 1..n |-> Verdict(rows[side][i], answers[side][i])]
  <1>3. file[side].verdicts = vs
    BY <1>2 DEF Judged
  <1>4. DOMAIN vs = 1..n /\ Len(vs) = n
    <2>1. vs \in [1..n -> {vs[i] : i \in 1..n}]
      OBVIOUS
    <2> HIDE DEF vs
    <2> QED BY <2>1
  <1> HIDE DEF vs, file
  <1> QED BY <1>3, <1>4

LEMMA FilesStay ==
  ASSUME LoopInv, MeasuredInv, FilesInv, [PawNext]_vars
  PROVE  FilesInv'
  <1>1. CASE UNCHANGED <<written, verdicts>>
    BY <1>1 DEF FilesInv
  <1>2. CASE CheckReadOnly \/ Compare
    <2>1. verdicts' = verdicts
      BY <1>2 DEF CheckReadOnly, Compare
    <2> QED BY <1>2, <2>1, WrittenStands DEF FilesInv
  <1>3. CASE JudgeWritten
    <2> DEFINE rows == RowsToJudge(written)
    <2>1. PICK answers : verdicts' = Append(IF Len(verdicts) = 2 THEN Tail(verdicts) ELSE verdicts,
                                            [side \in DOMAIN rows |-> Judged(rows[side], answers[side])])
      BY <1>3 DEF JudgeWritten
    <2> DEFINE file == [side \in DOMAIN rows |-> Judged(rows[side], answers[side])]
    <2>2. verdicts' = Append(KeptFiles(verdicts), file)
      BY <2>1 DEF KeptFiles
    <2>3. written' = written /\ RowsStand(rows)
      BY <1>3 DEF JudgeWritten, FilesInv
    <2>4. FileStands(file)
      <3> HIDE DEF rows
      <3> QED BY <2>3, JudgedStands
    <2> HIDE DEF file, rows
    <2>5. From(verdicts', verdicts, file)
      <3> DEFINE R == {verdicts[i] : i \in 1..Len(verdicts)}
                 S == R \union {file}
      <3>1. verdicts \in Seq(R)
        BY DEF MeasuredInv
      <3> HIDE DEF R
      <3>2. verdicts \in Seq(S) /\ file \in S
        BY <3>1
      <3> HIDE DEF S
      <3>3. From(Append(KeptFiles(verdicts), file), verdicts, file)
        BY <3>2, FilesKept
      <3> QED BY <2>2, <3>3
    <2>6. \A f \in 1..Len(verdicts') : FileStands(verdicts'[f])
      BY <2>4, <2>5 DEF From, FilesInv
    <2> QED BY <2>3, <2>6 DEF FilesInv
  <1>4. CASE CheckRefused \/ CheckNothing \/ CheckLearns \/ CodeLearns \/ Learning \/ LearningEnds
             \/ DiffFiles \/ UNCHANGED vars
    BY <1>1, <1>4 DEF CheckRefused, CheckNothing, CheckLearns, CodeLearns, Start, Learning, LearningEnds,
                      DiffFiles, vars, tools
  <1> QED BY <1>2, <1>3, <1>4 DEF PawNext

\* What the last diff shows, side by side.
Agrees(v, sh) ==
  \A side \in DOMAIN sh[1] : DiffSaysSo(sh[1][side], v[1][side].verdicts, v[2][side].verdicts)

DiffShown ==
  shown # <<>> /\ ran[Len(ran)].command = "diff" /\ DOMAIN verdicts[1] = DOMAIN verdicts[2] =>
    Agrees(verdicts, shown)

LEMMA ShownSaysSo ==
  ASSUME DiffShown
  PROVE  DiffAddsUp
  BY DEF DiffShown, Agrees, DiffAddsUp, DiffSaysSo, RowsOf, YesRows

LEMMA LastExit ==
  ASSUME MeasuredInv, NEW name, NEW code, Exit(name, code)
  PROVE  ran'[Len(ran')].command = name
  <1> DEFINE row == [command |-> name, exit |-> code]
  <1>1. ran' = Append(ran, row) /\ ran \in Seq({ran[i] : i \in 1..Len(ran)}) /\ row.command = name
    BY DEF Exit, MeasuredInv
  <1> HIDE DEF row
  <1>2. Len(ran') = Len(ran) + 1 /\ ran'[Len(ran) + 1] = row
    BY <1>1, Appended
  <1> QED BY <1>1, <1>2

LEMMA ShownKept ==
  ASSUME LoopInv, MeasuredInv, FilesInv, DiffShown, [PawNext]_vars
  PROVE  DiffShown'
  <1>1. CASE UNCHANGED <<ran, verdicts, shown>>
    BY <1>1 DEF DiffShown
  <1>2. ASSUME NEW name, NEW code, Exit(name, code), name # "diff" PROVE DiffShown'
    <2>1. ran'[Len(ran')].command = name
      BY <1>2, LastExit
    <2> QED BY <1>2, <2>1 DEF DiffShown
  <1>3. CASE DiffFiles /\ DOMAIN verdicts[1] # DOMAIN verdicts[2]
    BY <1>3 DEF DiffFiles, DiffShown
  <1>4. CASE DiffFiles /\ DOMAIN verdicts[1] = DOMAIN verdicts[2]
    <2> DEFINE diffs == [side \in DOMAIN verdicts[1] |->
                           DiffVerdicts(verdicts[1][side], verdicts[2][side])]
    <2>1. shown' = <<diffs>> /\ verdicts' = verdicts /\ Len(verdicts) = 2
      BY <1>4 DEF DiffFiles
    <2>2. ASSUME NEW side \in DOMAIN verdicts[1]
          PROVE  DiffSaysSo(diffs[side], verdicts[1][side].verdicts, verdicts[2][side].verdicts)
      <3>1. 1 \in 1..Len(verdicts) /\ 2 \in 1..Len(verdicts)
        BY <2>1
      <3>2. FileStands(verdicts[1]) /\ FileStands(verdicts[2])
        BY <3>1 DEF FilesInv
      <3>3. PICK p \in Nat : DOMAIN verdicts[1][side].verdicts = 1..p /\ Len(verdicts[1][side].verdicts) = p
        BY <3>2 DEF FileStands
      <3>4. PICK q \in Nat : DOMAIN verdicts[2][side].verdicts = 1..q /\ Len(verdicts[2][side].verdicts) = q
        BY <1>4, <3>2 DEF FileStands
      <3>5. DiffSaysSo(DiffVerdicts(verdicts[1][side], verdicts[2][side]),
                       verdicts[1][side].verdicts, verdicts[2][side].verdicts)
        BY <3>3, <3>4, DiffStands
      <3> QED BY <3>5
    <2>3. DOMAIN diffs = DOMAIN verdicts[1]
      OBVIOUS
    <2> HIDE DEF diffs
    <2>4. shown'[1] = diffs
      BY <2>1
    <2>5. Agrees(verdicts', shown')
      BY <2>1, <2>2, <2>3, <2>4 DEF Agrees
    <2> QED BY <2>5 DEF DiffShown
  <1>5. CASE CheckRefused \/ CheckNothing \/ CheckReadOnly \/ Compare \/ JudgeWritten
    <2>1. CASE CheckRefused
      <3>1. Exit("check", 2)
        BY <2>1 DEF CheckRefused
      <3> QED BY <1>2, <3>1
    <2>2. CASE CheckNothing
      <3>1. Exit("check", 1)
        BY <2>2 DEF CheckNothing
      <3> QED BY <1>2, <3>1
    <2>3. CASE CheckReadOnly
      <3>1. \E code : Exit("check", code)
        BY <2>3 DEF CheckReadOnly
      <3> QED BY <1>2, <3>1
    <2>4. CASE Compare
      <3>1. \E code : Exit("compare", code)
        BY <2>4 DEF Compare
      <3> QED BY <1>2, <3>1
    <2>5. CASE JudgeWritten
      <3>1. \E code : Exit("judge", code)
        BY <2>5 DEF JudgeWritten
      <3> QED BY <1>2, <3>1
    <2> QED BY <1>5, <2>1, <2>2, <2>3, <2>4, <2>5
  <1>6. CASE LearningEnds
    <2>1. UNCHANGED <<ran, verdicts, shown>> \/ \E code : Exit("check", code)
      BY <1>6 DEF LearningEnds
    <2> QED BY <1>1, <1>2, <2>1
  <1>7. CASE CheckLearns \/ CodeLearns \/ Learning \/ UNCHANGED vars
    BY <1>1, <1>7 DEF CheckLearns, CodeLearns, Start, Learning, tools, vars
  <1> QED BY <1>3, <1>4, <1>5, <1>6, <1>7 DEF PawNext

\* The counts of every report, of every comparison and of every diff of verdicts add up
\* (runner.py, compare.py, judge.py), for every suite, fuzzer, adapter and judge.
THEOREM TalliesAddUpCorrect == PawSpec => []TalliesAddUp
  <1> DEFINE Tallies == MeasuredInv /\ FilesInv /\ DiffShown /\ WrittenAddsUp(suite, written)
  <1>1. PawInit => Tallies
    <2> SUFFICES ASSUME PawInit PROVE Tallies
      OBVIOUS
    <2>1. ran = <<>> /\ verdicts = <<>> /\ written = NotWritten /\ shown = <<>> /\ 1..Len(verdicts) = {}
      BY DEF PawInit
    <2> QED BY <2>1, MeasuredInitially DEF FilesInv, DiffShown, WrittenAddsUp
  <1>2. LoopInv /\ Tallies /\ [PawNext]_vars => Tallies'
    BY MeasuredKept, FilesStay, ShownKept, WrittenKept
  <1>3. Tallies => TalliesAddUp
    BY WrittenSaysSo, ShownSaysSo DEF TalliesAddUp
  <1> HIDE DEF Tallies
  <1> QED BY <1>1, <1>2, <1>3, LoopHolds, PTL DEF PawSpec

-----------------------------------------------------------------------------
(* The counters of the shadow runner. *)

JobPlaces == {"new", "ensured", "counted", "queued", "refused", "dropped", "running", "done"}
Steps  == {"none", "look", "sum", "quiet", "late"}

DrainTypes ==
  /\ place \in [ShadowJob -> JobPlaces]
  /\ DOMAIN queues \subseteq JobKey
  /\ \A k \in DOMAIN queues : queues[k] \in Seq(ShadowJob)
  /\ pendingOf \in [JobKey -> Nat]
  /\ droppedOf \in [JobKey \X Phase -> Nat]
  /\ waiter \in [Waiter -> [step : Steps, keys : SUBSET JobKey, before : SUBSET ShadowJob]]

\* A queue holds the queued jobs of its key, each once.
QueuesHoldQueued ==
  /\ \A j \in ShadowJob : place[j] # "new" => j.key \in DOMAIN queues
  /\ \A k \in DOMAIN queues :
       /\ \A j \in ShadowJob : j.key = k /\ place[j] = "queued" <=> \E i \in 1..Len(queues[k]) : queues[k][i] = j
       /\ \A i, l \in 1..Len(queues[k]) : queues[k][i] = queues[k][l] => i = l

Underway == {"counted", "queued", "refused", "running"}
JobsAt(k, places) == {j \in ShadowJob : j.key = k /\ place[j] \in places}
Fallen(k, p) == {j \in ShadowJob : j.key = k /\ j.phase = p /\ place[j] = "dropped"}

\* The counters count the jobs.
CountersCount ==
  /\ \A k \in JobKey : pendingOf[k] = Cardinality(JobsAt(k, Underway))
  /\ \A k \in JobKey, p \in Phase : droppedOf[<<k, p>>] = Cardinality(Fallen(k, p))

\* A drain waits for jobs that had been accepted, with their keys in sight once it sums.
WaitsForAccepted ==
  \A d \in Waiter :
    /\ \A j \in waiter[d].before : place[j] \in {"queued", "running", "done"}
    /\ d # AtExit => \A j \in waiter[d].before : j.key \in Scope(d)
    /\ waiter[d].step = "sum" => d # AtExit /\ \A j \in waiter[d].before : j.key \in waiter[d].keys
    /\ waiter[d].step = "quiet" => \A j \in waiter[d].before : place[j] = "done"

DrainInv == DrainTypes /\ QueuesHoldQueued /\ CountersCount /\ WaitsForAccepted

-----------------------------------------------------------------------------
(* A job that moves, and the sets it is in. *)

MovedTo(j, to) ==
  /\ place'[j] = to /\ \A i \in ShadowJob \ {j} : place'[i] = place[i]
  /\ place' \in [ShadowJob -> JobPlaces]

LEMMA GoesMoves ==
  ASSUME DrainTypes, NEW j \in ShadowJob, NEW from, NEW to \in JobPlaces, Goes(j, from, to)
  PROVE  place[j] = from /\ MovedTo(j, to)
  BY DEF Goes, MovedTo, DrainTypes

LEMMA JobsFinite ==
  ASSUME NEW k, NEW S, NEW p
  PROVE  /\ IsFiniteSet(JobsAt(k, S)) /\ Cardinality(JobsAt(k, S)) \in Nat
         /\ IsFiniteSet(Fallen(k, p)) /\ Cardinality(Fallen(k, p)) \in Nat
  <1>1. JobsAt(k, S) \subseteq ShadowJob /\ Fallen(k, p) \subseteq ShadowJob
    BY DEF JobsAt, Fallen
  <1> QED BY <1>1, DrainAssumption, FS_Subset, FS_CardinalityType

\* The job stays in the set, or outside it.
LEMMA JobsStay ==
  ASSUME NEW j \in ShadowJob, NEW to, MovedTo(j, to), NEW S, NEW k,
         j.key = k => (place[j] \in S <=> to \in S)
  PROVE  JobsAt(k, S)' = JobsAt(k, S)
  BY DEF MovedTo, JobsAt

LEMMA JobsEnter ==
  ASSUME NEW j \in ShadowJob, NEW to, MovedTo(j, to), NEW S, place[j] \notin S, to \in S
  PROVE  Cardinality(JobsAt(j.key, S)') = Cardinality(JobsAt(j.key, S)) + 1
  <1> DEFINE k == j.key
  <1>1. JobsAt(k, S)' = JobsAt(k, S) \union {j} /\ j \notin JobsAt(k, S)
    BY DEF MovedTo, JobsAt
  <1> QED BY <1>1, JobsFinite, FS_AddElement

LEMMA JobsLeave ==
  ASSUME NEW j \in ShadowJob, NEW to, MovedTo(j, to), NEW S, place[j] \in S, to \notin S
  PROVE  /\ Cardinality(JobsAt(j.key, S)') = Cardinality(JobsAt(j.key, S)) - 1
         /\ Cardinality(JobsAt(j.key, S)) > 0
  <1> DEFINE k == j.key
             n == Cardinality(JobsAt(k, S))
             m == Cardinality(JobsAt(k, S)')
  <1>1. JobsAt(k, S)' = JobsAt(k, S) \ {j} /\ j \in JobsAt(k, S)
    BY DEF MovedTo, JobsAt
  <1>2. m = n - 1 /\ n \in Nat
    BY <1>1, JobsFinite, FS_RemoveElement
  <1>3. IsFiniteSet(JobsAt(k, S)')
    BY <1>1, JobsFinite, FS_Subset
  <1>4. m \in Nat
    BY <1>3, FS_CardinalityType
  <1>5. n > 0
    <2> HIDE DEF n, m
    <2> QED BY <1>2, <1>4
  <1> QED BY <1>2, <1>5

LEMMA FallenStay ==
  ASSUME NEW j \in ShadowJob, NEW to, MovedTo(j, to), NEW k, NEW p,
         j.key = k /\ j.phase = p => (place[j] = "dropped" <=> to = "dropped")
  PROVE  Fallen(k, p)' = Fallen(k, p)
  BY DEF MovedTo, Fallen

LEMMA FallenEnter ==
  ASSUME NEW j \in ShadowJob, MovedTo(j, "dropped"), place[j] # "dropped"
  PROVE  Cardinality(Fallen(j.key, j.phase)') = Cardinality(Fallen(j.key, j.phase)) + 1
  <1> DEFINE k == j.key
             p == j.phase
  <1>1. Fallen(k, p)' = Fallen(k, p) \union {j} /\ j \notin Fallen(k, p)
    BY DEF MovedTo, Fallen
  <1> QED BY <1>1, JobsFinite, FS_AddElement

-----------------------------------------------------------------------------
(* What a step of a job does, by its counters, its queue and those that wait for it. *)

LEMMA CountsStay ==
  ASSUME DrainInv, NEW j \in ShadowJob, NEW to \in JobPlaces, MovedTo(j, to),
         place[j] \in Underway <=> to \in Underway, place[j] # "dropped", to # "dropped",
         UNCHANGED <<pendingOf, droppedOf>>
  PROVE  CountersCount'
  <1>1. \A k \in JobKey : JobsAt(k, Underway)' = JobsAt(k, Underway)
    BY JobsStay
  <1>2. \A k \in JobKey, p \in Phase : Fallen(k, p)' = Fallen(k, p)
    BY FallenStay
  <1> QED BY <1>1, <1>2 DEF DrainInv, CountersCount

\* Whoever waits goes on waiting for a job that is accepted, or was not.
LEMMA WaitsStay ==
  ASSUME DrainInv, NEW j \in ShadowJob, NEW to, MovedTo(j, to), waiter' = waiter,
         place[j] \in {"queued", "running"} => to \in {"queued", "running", "done"},
         place[j] # "done"
  PROVE  WaitsForAccepted'
  <1>1. /\ j.key \in JobKey
        /\ \A i \in ShadowJob : place'[i] = IF i = j THEN to ELSE place[i]
    BY DEF DrainInv, DrainTypes, MovedTo, JobKey
  <1>2. \A i \in ShadowJob : place[i] \in {"queued", "running", "done"} => place'[i] \in {"queued", "running", "done"}
    BY <1>1
  <1>3. \A i \in ShadowJob : place[i] = "done" => place'[i] = "done"
    BY <1>1
  <1> QED BY <1>2, <1>3 DEF DrainInv, DrainTypes, WaitsForAccepted

\* The queues hold what they held, when no job enters or leaves the one it is in.
LEMMA QueuesStay ==
  ASSUME DrainInv, NEW j \in ShadowJob, NEW to, MovedTo(j, to), queues' = queues,
         place[j] \notin {"new", "queued"}, to # "queued"
  PROVE  QueuesHoldQueued'
  <1>1. \A i \in ShadowJob : place'[i] = IF i = j THEN to ELSE place[i]
    BY DEF MovedTo
  <1>2. \A i \in ShadowJob : /\ place'[i] # "new" => place[i] # "new"
                             /\ place'[i] = "queued" <=> place[i] = "queued"
    BY <1>1
  <1> QED BY <1>2 DEF DrainInv, QueuesHoldQueued

-----------------------------------------------------------------------------
(* The steps of submit(). *)

LEMMA EnsureWorkerKeeps ==
  ASSUME DrainInv, NEW j \in ShadowJob, EnsureWorker(j)
  PROVE  DrainInv'
  <1>1. place[j] = "new" /\ MovedTo(j, "ensured")
    BY GoesMoves DEF EnsureWorker, JobPlaces, DrainInv
  <1>2. j.key \in JobKey
    BY DEF JobKey
  <1>3. DrainTypes'
    BY <1>1, <1>2 DEF EnsureWorker, DrainInv, DrainTypes, MovedTo
  <1>4. QueuesHoldQueued'
    <2>1. CASE j.key \in DOMAIN queues
      BY <1>1, <2>1 DEF EnsureWorker, DrainInv, QueuesHoldQueued, MovedTo
    <2>2. CASE j.key \notin DOMAIN queues
      <3>1. /\ DOMAIN queues' = DOMAIN queues \union {j.key}
            /\ queues'[j.key] = <<>>
            /\ \A k \in DOMAIN queues : queues'[k] = queues[k]
        BY <2>2 DEF EnsureWorker
      <3>2. \A i \in ShadowJob : i.key = j.key => place'[i] # "queued"
        BY <1>1, <2>2 DEF DrainInv, QueuesHoldQueued, MovedTo
      <3> QED BY <1>1, <3>1, <3>2 DEF DrainInv, QueuesHoldQueued, MovedTo
    <2> QED BY <2>1, <2>2
  <1>5. CountersCount'
    BY <1>1, CountsStay DEF EnsureWorker, Underway, JobPlaces
  <1>6. WaitsForAccepted'
    BY <1>1, WaitsStay DEF EnsureWorker
  <1> QED BY <1>3, <1>4, <1>5, <1>6 DEF DrainInv

LEMMA CountJobKeeps ==
  ASSUME DrainInv, NEW j \in ShadowJob, CountJob(j)
  PROVE  DrainInv'
  <1>1. place[j] = "ensured" /\ MovedTo(j, "counted")
    BY GoesMoves DEF CountJob, JobPlaces, DrainInv
  <1>2. j.key \in JobKey
    BY DEF JobKey
  <1>3. DrainTypes'
    BY <1>1, <1>2 DEF CountJob, DrainInv, DrainTypes, MovedTo
  <1>4. QueuesHoldQueued'
    BY <1>1, QueuesStay DEF CountJob
  <1>5. CountersCount'
    <2>1. Cardinality(JobsAt(j.key, Underway)') = Cardinality(JobsAt(j.key, Underway)) + 1
      BY <1>1, JobsEnter DEF Underway
    <2>2. \A k \in JobKey : k # j.key => JobsAt(k, Underway)' = JobsAt(k, Underway)
      BY <1>1, JobsStay
    <2>3. \A k \in JobKey, p \in Phase : Fallen(k, p)' = Fallen(k, p)
      BY <1>1, FallenStay
    <2> QED BY <1>2, <2>1, <2>2, <2>3 DEF CountJob, DrainInv, DrainTypes, CountersCount
  <1>6. WaitsForAccepted'
    BY <1>1, WaitsStay DEF CountJob
  <1> QED BY <1>3, <1>4, <1>5, <1>6 DEF DrainInv

LEMMA AcceptKeeps ==
  ASSUME DrainInv, NEW j \in ShadowJob, Accept(j)
  PROVE  DrainInv'
  <1> DEFINE q == queues[j.key]
  <1>1. place[j] = "counted" /\ MovedTo(j, "queued")
    BY GoesMoves DEF Accept, JobPlaces, DrainInv
  <1>2. j.key \in DOMAIN queues /\ q \in Seq(ShadowJob)
    BY <1>1 DEF DrainInv, DrainTypes, QueuesHoldQueued
  <1>3. /\ DOMAIN queues' = DOMAIN queues
        /\ \A k \in DOMAIN queues : queues'[k] = IF k = j.key THEN Append(q, j) ELSE queues[k]
    BY <1>2 DEF Accept
  <1>4. DrainTypes'
    BY <1>1, <1>2, <1>3 DEF Accept, DrainInv, DrainTypes, MovedTo
  <1>5. QueuesHoldQueued'
    <2>1. \A i \in ShadowJob : place'[i] # "new" => i.key \in DOMAIN queues'
      BY <1>1, <1>3 DEF DrainInv, QueuesHoldQueued, MovedTo
    <2>2. ASSUME NEW k \in DOMAIN queues'
          PROVE  /\ \A i \in ShadowJob : i.key = k /\ place'[i] = "queued"
                                           <=> \E n \in 1..Len(queues'[k]) : queues'[k][n] = i
                 /\ \A n, m \in 1..Len(queues'[k]) : queues'[k][n] = queues'[k][m] => n = m
      <3>1. CASE k # j.key
        BY <1>1, <1>3, <3>1 DEF DrainInv, QueuesHoldQueued, MovedTo
      <3>2. CASE k = j.key
        <4> DEFINE r == Append(q, j)
        <4>1. /\ Len(r) = Len(q) + 1 /\ Len(q) \in Nat /\ r[Len(q) + 1] = j
              /\ \A n \in 1..Len(q) : r[n] = q[n]
          BY <1>2
        <4>2. \A n \in 1..Len(q) : q[n] # j
          BY <1>1, <1>2 DEF DrainInv, QueuesHoldQueued
        <4>3. /\ \A i \in ShadowJob : i.key = k /\ place[i] = "queued" <=> \E n \in 1..Len(q) : q[n] = i
              /\ \A n, m \in 1..Len(q) : q[n] = q[m] => n = m
          BY <1>2, <3>2 DEF DrainInv, QueuesHoldQueued
        <4>4. queues'[k] = r
          BY <1>3, <3>2
        <4>5. \A i \in ShadowJob : i.key = k /\ place'[i] = "queued" <=> i = j \/ (i.key = k /\ place[i] = "queued")
          BY <1>1, <3>2 DEF MovedTo
        <4> HIDE DEF r, q
        <4>6. \A n \in 1..Len(r) : n \in 1..Len(q) \/ n = Len(q) + 1
          BY <4>1
        <4>7. \A i : (\E n \in 1..Len(r) : r[n] = i) <=> i = j \/ \E n \in 1..Len(q) : q[n] = i
          BY <4>1, <4>6
        <4>8. \A n, m \in 1..Len(r) : r[n] = r[m] => n = m
          BY <4>1, <4>2, <4>3, <4>6
        <4>9. \A i \in ShadowJob : i.key = k /\ place'[i] = "queued" <=> \E n \in 1..Len(r) : r[n] = i
          BY <4>3, <4>5, <4>7
        <4> QED BY <4>4, <4>8, <4>9
      <3> QED BY <3>1, <3>2
    <2> QED BY <2>1, <2>2 DEF QueuesHoldQueued
  <1>6. CountersCount'
    BY <1>1, CountsStay DEF Accept, Underway, JobPlaces
  <1>7. WaitsForAccepted'
    BY <1>1, WaitsStay DEF Accept
  <1> QED BY <1>4, <1>5, <1>6, <1>7 DEF DrainInv

LEMMA RefuseKeeps ==
  ASSUME DrainInv, NEW j \in ShadowJob, Refuse(j)
  PROVE  DrainInv'
  <1>1. place[j] = "counted" /\ MovedTo(j, "refused")
    BY GoesMoves DEF Refuse, JobPlaces, DrainInv
  <1>2. DrainTypes'
    BY <1>1 DEF Refuse, DrainInv, DrainTypes, MovedTo
  <1>3. QueuesHoldQueued'
    BY <1>1, QueuesStay DEF Refuse
  <1>4. CountersCount'
    BY <1>1, CountsStay DEF Refuse, Underway, JobPlaces
  <1>5. WaitsForAccepted'
    BY <1>1, WaitsStay DEF Refuse
  <1> QED BY <1>2, <1>3, <1>4, <1>5 DEF DrainInv

\* A job that is no longer pending was counted: its key's counter is not at zero.
LEMMA UncountsOne ==
  ASSUME DrainInv, NEW j \in ShadowJob, NEW to, MovedTo(j, to),
         place[j] \in Underway, to \notin Underway,
         pendingOf' = [pendingOf EXCEPT ![j.key] = Uncount(@)]
  PROVE  /\ pendingOf' \in [JobKey -> Nat]
         /\ \A k \in JobKey : pendingOf'[k] = Cardinality(JobsAt(k, Underway)')
  <1>1. j.key \in JobKey
    BY DEF JobKey
  <1>2. /\ Cardinality(JobsAt(j.key, Underway)') = Cardinality(JobsAt(j.key, Underway)) - 1
        /\ Cardinality(JobsAt(j.key, Underway)) > 0
    BY JobsLeave
  <1>3. \A k \in JobKey : k # j.key => JobsAt(k, Underway)' = JobsAt(k, Underway)
    BY JobsStay
  <1> QED BY <1>1, <1>2, <1>3 DEF DrainInv, DrainTypes, CountersCount, Uncount

LEMMA DropKeeps ==
  ASSUME DrainInv, NEW j \in ShadowJob, Drop(j)
  PROVE  DrainInv'
  <1>1. place[j] = "refused" /\ MovedTo(j, "dropped")
    BY GoesMoves DEF Drop, JobPlaces, DrainInv
  <1>2. j.key \in JobKey /\ j.phase \in Phase
    BY DrainAssumption DEF JobKey
  <1>3. /\ pendingOf' \in [JobKey -> Nat]
        /\ \A k \in JobKey : pendingOf'[k] = Cardinality(JobsAt(k, Underway)')
    BY <1>1, UncountsOne DEF Drop, Underway
  <1>4. /\ droppedOf' \in [JobKey \X Phase -> Nat]
        /\ droppedOf'[<<j.key, j.phase>>] = droppedOf[<<j.key, j.phase>>] + 1
        /\ \A k \in JobKey, p \in Phase :
             k # j.key \/ p # j.phase => droppedOf'[<<k, p>>] = droppedOf[<<k, p>>]
    BY <1>2 DEF Drop, DrainInv, DrainTypes
  <1>5. DrainTypes'
    BY <1>1, <1>3, <1>4 DEF Drop, DrainInv, DrainTypes, MovedTo
  <1>6. QueuesHoldQueued'
    BY <1>1, QueuesStay DEF Drop
  <1>7. CountersCount'
    <2>1. Cardinality(Fallen(j.key, j.phase)') = Cardinality(Fallen(j.key, j.phase)) + 1
      BY <1>1, FallenEnter
    <2>2. \A k \in JobKey, p \in Phase : k # j.key \/ p # j.phase => Fallen(k, p)' = Fallen(k, p)
      BY <1>1, FallenStay
    <2> QED BY <1>2, <1>3, <1>4, <2>1, <2>2 DEF DrainInv, CountersCount
  <1>8. WaitsForAccepted'
    BY <1>1, WaitsStay DEF Drop
  <1> QED BY <1>5, <1>6, <1>7, <1>8 DEF DrainInv

-----------------------------------------------------------------------------
(* The steps of a worker. *)

LEMMA GetKeeps ==
  ASSUME DrainInv, NEW k \in JobKey, Get(k)
  PROVE  DrainInv'
  <1> DEFINE q == queues[k]
             j == Head(q)
             r == Tail(q)
  <1>1. k \in DOMAIN queues /\ q # <<>> /\ q \in Seq(ShadowJob)
    BY DEF Get, Takes, DrainInv, DrainTypes
  <1>2. /\ Len(q) \in Nat \ {0} /\ j = q[1] /\ j \in ShadowJob
        /\ r \in Seq(ShadowJob) /\ Len(r) = Len(q) - 1
        /\ \A n \in 1..Len(r) : r[n] = q[n + 1]
    BY <1>1, HeadTailProperties
  <1>3. place[j] = "queued" /\ MovedTo(j, "running")
    BY <1>2, GoesMoves DEF Get, Takes, JobPlaces, DrainInv
  <1>4. /\ DOMAIN queues' = DOMAIN queues
        /\ \A i \in DOMAIN queues : queues'[i] = IF i = k THEN r ELSE queues[i]
    BY <1>1 DEF Get, Takes
  <1>5. DrainTypes'
    BY <1>2, <1>3, <1>4 DEF Get, Takes, DrainInv, DrainTypes, MovedTo
  <1>6. /\ \A i \in ShadowJob : i.key = k /\ place[i] = "queued" <=> \E n \in 1..Len(q) : q[n] = i
        /\ \A n, m \in 1..Len(q) : q[n] = q[m] => n = m
    BY <1>1 DEF DrainInv, QueuesHoldQueued
  <1>7. j.key = k
    BY <1>2, <1>6
  <1>8. QueuesHoldQueued'
    <2>1. \A i \in ShadowJob : place'[i] # "new" => i.key \in DOMAIN queues'
      BY <1>1, <1>3, <1>4, <1>7 DEF DrainInv, QueuesHoldQueued, MovedTo
    <2>2. ASSUME NEW l \in DOMAIN queues'
          PROVE  /\ \A i \in ShadowJob : i.key = l /\ place'[i] = "queued"
                                           <=> \E n \in 1..Len(queues'[l]) : queues'[l][n] = i
                 /\ \A n, m \in 1..Len(queues'[l]) : queues'[l][n] = queues'[l][m] => n = m
      <3>1. CASE l # k
        BY <1>3, <1>4, <1>7, <3>1 DEF DrainInv, QueuesHoldQueued, MovedTo
      <3>2. CASE l = k
        <4>1. queues'[l] = r
          BY <1>4, <3>2
        <4>2. \A i \in ShadowJob : i.key = k /\ place'[i] = "queued" <=> i # j /\ i.key = k /\ place[i] = "queued"
          BY <1>2, <1>3 DEF MovedTo
        <4> HIDE DEF q, j, r
        <4>3. \A n \in 1..Len(r) : n + 1 \in 1..Len(q) /\ n + 1 # 1
          BY <1>2
        <4>4. \A n \in 1..Len(q) : n = 1 \/ (n - 1 \in 1..Len(r) /\ r[n - 1] = q[n])
          BY <1>2
        <4>5. 1 \in 1..Len(q)
          BY <1>2
        <4>6. \A i : (\E n \in 1..Len(r) : r[n] = i) <=> i # j /\ \E n \in 1..Len(q) : q[n] = i
          BY <1>2, <1>6, <4>3, <4>4, <4>5
        <4>7. \A n, m \in 1..Len(r) : r[n] = r[m] => n = m
          BY <1>2, <1>6, <4>3
        <4> QED BY <1>6, <3>2, <4>1, <4>2, <4>6, <4>7
      <3> QED BY <3>1, <3>2
    <2> QED BY <2>1, <2>2 DEF QueuesHoldQueued
  <1> HIDE DEF j
  <1>9. CountersCount'
    BY <1>2, <1>3, CountsStay DEF Get, Takes, Underway, JobPlaces
  <1>10. WaitsForAccepted'
    BY <1>2, <1>3, WaitsStay DEF Get, Takes
  <1> QED BY <1>5, <1>8, <1>9, <1>10 DEF DrainInv

LEMMA FinishKeeps ==
  ASSUME DrainInv, NEW j \in ShadowJob, Finish(j)
  PROVE  DrainInv'
  <1>1. place[j] = "running" /\ MovedTo(j, "done")
    BY GoesMoves DEF Finish, JobPlaces, DrainInv
  <1>2. /\ pendingOf' \in [JobKey -> Nat]
        /\ \A k \in JobKey : pendingOf'[k] = Cardinality(JobsAt(k, Underway)')
    BY <1>1, UncountsOne DEF Finish, Underway
  <1>3. DrainTypes'
    BY <1>1, <1>2 DEF Finish, DrainInv, DrainTypes, MovedTo
  <1>4. QueuesHoldQueued'
    BY <1>1, QueuesStay DEF Finish
  <1>5. CountersCount'
    <2>1. \A k \in JobKey, p \in Phase : Fallen(k, p)' = Fallen(k, p)
      BY <1>1, FallenStay
    <2> QED BY <1>2, <2>1 DEF Finish, DrainInv, CountersCount
  <1>6. WaitsForAccepted'
    BY <1>1, WaitsStay DEF Finish
  <1> QED BY <1>3, <1>4, <1>5, <1>6 DEF DrainInv

-----------------------------------------------------------------------------
(* The steps of those who wait, which write nothing but their own record. *)

\* A job that is under way shows: its key is pending.
LEMMA UnderwayShows ==
  ASSUME DrainInv, NEW j \in ShadowJob, place[j] \in Underway
  PROVE  pendingOf[j.key] > 0
  <1> DEFINE n == Cardinality(JobsAt(j.key, Underway))
  <1>1. j \in JobsAt(j.key, Underway)
    BY DEF JobsAt
  <1>2. n # 0 /\ n \in Nat
    BY <1>1, JobsFinite, FS_EmptySet
  <1>3. pendingOf[j.key] = n
    BY DEF DrainInv, CountersCount, JobKey
  <1> HIDE DEF n
  <1> QED BY <1>2, <1>3

LEMMA WaiterStepKeeps ==
  ASSUME DrainInv, NEW d \in Waiter, BeginWait(d) \/ KeysFor(d) \/ Look(d)
  PROVE  DrainInv'
  <1>1. UNCHANGED <<place, queues, pendingOf, droppedOf>>
    BY DEF BeginWait, KeysFor, Look
  <1>2. QueuesHoldQueued' /\ CountersCount'
    BY <1>1 DEF DrainInv, QueuesHoldQueued, CountersCount, JobsAt, Fallen
  <1>3. DrainTypes' /\ WaitsForAccepted'
    <2>1. CASE BeginWait(d)
      <3>1. Accepted(About(d)) \subseteq ShadowJob
        BY DEF Accepted
      <3>2. d # AtExit => About(d) = Scope(d)
        BY DEF About
      <3>3. \A j \in Accepted(About(d)) : place[j] \in {"queued", "running", "done"} /\ j.key \in About(d)
        BY DEF Accepted
      <3> QED BY <1>1, <2>1, <3>1, <3>2, <3>3
              DEF BeginWait, DrainInv, DrainTypes, WaitsForAccepted, Steps
    <2>2. CASE KeysFor(d)
      <3>1. \A j \in waiter[d].before : j.key \in Scope(d) \intersect DOMAIN queues
        BY <2>2 DEF KeysFor, DrainInv, DrainTypes, WaitsForAccepted, QueuesHoldQueued
      <3>2. /\ waiter'[d] = [waiter[d] EXCEPT !.step = "sum", !.keys = Scope(d) \intersect DOMAIN queues]
            /\ \A e \in Waiter : e # d => waiter'[e] = waiter[e]
            /\ DOMAIN waiter' = Waiter
            /\ waiter' = [e \in Waiter |-> waiter'[e]]
        BY <2>2 DEF KeysFor, DrainInv, DrainTypes
      <3>3. /\ waiter'[d].step = "sum" /\ waiter'[d].before = waiter[d].before
            /\ waiter'[d].keys = Scope(d) \intersect DOMAIN queues
            /\ waiter'[d] \in [step : Steps, keys : SUBSET JobKey, before : SUBSET ShadowJob]
        <4> DEFINE w == waiter[d]
                   seen == Scope(d) \intersect DOMAIN queues
        <4>1. w \in [step : Steps, keys : SUBSET JobKey, before : SUBSET ShadowJob]
          BY DEF DrainInv, DrainTypes
        <4>2. seen \in SUBSET JobKey
          BY DEF DrainInv, DrainTypes
        <4>3. waiter'[d] = [w EXCEPT !.step = "sum", !.keys = seen]
          BY <3>2
        <4> HIDE DEF w, seen
        <4>4. /\ waiter'[d].step = "sum" /\ waiter'[d].before = w.before /\ waiter'[d].keys = seen
              /\ waiter'[d] \in [step : Steps, keys : SUBSET JobKey, before : SUBSET ShadowJob]
          BY <4>1, <4>2, <4>3 DEF Steps
        <4> QED BY <4>4 DEF w, seen
      <3> QED BY <1>1, <2>2, <3>1, <3>2, <3>3 DEF KeysFor, DrainInv, DrainTypes, WaitsForAccepted
    <2>3. CASE Look(d)
      <3>1. PICK s \in {"quiet", "look", "late"} :
              /\ waiter' = [waiter EXCEPT ![d].step = s]
              /\ s = "quiet" => ~ Pending(IF d = AtExit THEN JobKey ELSE waiter[d].keys)
        BY <2>3 DEF Look
      <3>2. /\ waiter'[d] = [waiter[d] EXCEPT !.step = s]
            /\ \A e \in Waiter : e # d => waiter'[e] = waiter[e]
            /\ DOMAIN waiter' = Waiter
            /\ waiter' = [e \in Waiter |-> waiter'[e]]
        BY <3>1 DEF DrainInv, DrainTypes
      <3>3. /\ waiter'[d].step = s /\ waiter'[d].before = waiter[d].before
            /\ waiter'[d] \in [step : Steps, keys : SUBSET JobKey, before : SUBSET ShadowJob]
        BY <3>2 DEF DrainInv, DrainTypes, Steps
      <3>4. ASSUME s = "quiet", NEW j \in waiter[d].before
            PROVE  place[j] = "done"
        <4>1. j \in ShadowJob /\ place[j] \in {"queued", "running", "done"} /\ j.key \in JobKey
          <5>1. j \in ShadowJob
            BY DEF DrainInv, DrainTypes
          <5>2. place[j] \in {"queued", "running", "done"}
            BY DEF DrainInv, WaitsForAccepted
          <5> QED BY <5>1, <5>2 DEF JobKey
        <4>2. j.key \in (IF d = AtExit THEN JobKey ELSE waiter[d].keys)
          BY <2>3, <4>1 DEF Look, DrainInv, WaitsForAccepted
        <4>3. ~ (pendingOf[j.key] > 0)
          BY <3>1, <3>4, <4>2 DEF Pending
        <4> QED BY <4>1, <4>3, UnderwayShows DEF Underway
      <3>5. DrainTypes'
        <4> DEFINE W == [step : Steps, keys : SUBSET JobKey, before : SUBSET ShadowJob]
        <4>1. \A e \in Waiter : waiter[e] \in W
          BY DEF DrainInv, DrainTypes
        <4>2. waiter'[d] \in W
          BY <3>3
        <4> HIDE DEF W
        <4>3. \A e \in Waiter : waiter'[e] \in W
          BY <3>2, <4>1, <4>2
        <4>4. waiter' \in [Waiter -> W]
          BY <3>2, <4>3
        <4> QED BY <1>1, <4>4 DEF DrainInv, DrainTypes, W
      <3>6. WaitsForAccepted'
        BY <1>1, <3>2, <3>3, <3>4 DEF DrainInv, WaitsForAccepted
      <3> QED BY <3>5, <3>6
    <2> QED BY <2>1, <2>2, <2>3
  <1> QED BY <1>2, <1>3 DEF DrainInv

-----------------------------------------------------------------------------
LEMMA DrainStepKeeps == DrainInv /\ [DrainNext]_drain => DrainInv'
  <1> SUFFICES ASSUME DrainInv, [DrainNext]_drain PROVE DrainInv'
    OBVIOUS
  <1>1. CASE UNCHANGED drain
    <2>1. DrainTypes'
      BY <1>1 DEF drain, DrainInv, DrainTypes
    <2>2. QueuesHoldQueued'
      BY <1>1 DEF drain, DrainInv, QueuesHoldQueued
    <2>3. WaitsForAccepted'
      BY <1>1 DEF drain, DrainInv, WaitsForAccepted
    <2>4. CountersCount'
      BY <1>1 DEF drain, DrainInv, CountersCount, JobsAt, Fallen
    <2> QED BY <2>1, <2>2, <2>3, <2>4 DEF DrainInv
  <1>2. CASE DrainNext
    <2>1. ASSUME NEW j \in ShadowJob,
                 EnsureWorker(j) \/ CountJob(j) \/ Accept(j) \/ Refuse(j) \/ Drop(j) \/ Finish(j)
          PROVE  DrainInv'
      BY <2>1, EnsureWorkerKeeps, CountJobKeeps, AcceptKeeps, RefuseKeeps, DropKeeps, FinishKeeps
    <2> QED BY <1>2, <2>1, GetKeeps, WaiterStepKeeps DEF DrainNext
  <1> QED BY <1>1, <1>2

LEMMA DrainStarts == DrainInit => DrainInv
  <1> SUFFICES ASSUME DrainInit PROVE DrainInv
    OBVIOUS
  <1>1. DrainTypes
    BY DEF DrainInit, DrainTypes, JobPlaces, NotWaiting, Steps
  <1>2. QueuesHoldQueued
    BY DEF DrainInit, QueuesHoldQueued
  <1>3. CountersCount
    <2>1. \A k \in JobKey : JobsAt(k, Underway) = {}
      BY DEF DrainInit, JobsAt, Underway
    <2>2. \A k \in JobKey, p \in Phase : Fallen(k, p) = {}
      BY DEF DrainInit, Fallen
    <2> QED BY <2>1, <2>2, FS_EmptySet DEF DrainInit, CountersCount
  <1>4. WaitsForAccepted
    BY DEF DrainInit, WaitsForAccepted, NotWaiting
  <1> QED BY <1>1, <1>2, <1>3, <1>4 DEF DrainInv

-----------------------------------------------------------------------------
\* Sets without a common element add up.
LEMMA DisjointUnion ==
  ASSUME NEW S, NEW T, IsFiniteSet(S), IsFiniteSet(T), S \intersect T = {}
  PROVE  IsFiniteSet(S \union T) /\ Cardinality(S \union T) = Cardinality(S) + Cardinality(T)
  <1>1. /\ IsFiniteSet(S \union T)
        /\ Cardinality(S \union T) = Cardinality(S) + Cardinality(T) - Cardinality(S \intersect T)
    BY FS_Union
  <1>2. Cardinality(S \intersect T) = 0
    BY FS_EmptySet
  <1>3. Cardinality(S) \in Nat /\ Cardinality(T) \in Nat
    BY FS_CardinalityType
  <1> DEFINE a == Cardinality(S)
             b == Cardinality(T)
  <1>4. Cardinality(S \union T) = a + b - 0
    BY <1>1, <1>2
  <1>5. a + b - 0 = a + b
    <2>1. a \in Nat /\ b \in Nat
      BY <1>3
    <2> HIDE DEF a, b
    <2> QED BY <2>1
  <1> QED BY <1>1, <1>4, <1>5

\* Once no submit() of a key is under way, what is told of it is what has not been run.
LEMMA InvTellsTruth == DrainInv => DrainTellsTruth
  <1> SUFFICES ASSUME DrainInv PROVE DrainTellsTruth
    OBVIOUS
  <1>1. ASSUME NEW k \in JobKey,
               \A j \in ShadowJob : j.key = k => place[j] \notin {"ensured", "counted", "refused"}
        PROVE  Told(k) = Cardinality({j \in ShadowJob : j.key = k /\ place[j] \in {"queued", "running", "dropped"}})
    <2> DEFINE P == JobsAt(k, Underway)
               A == Fallen(k, "shadow")
               B == Fallen(k, "audit")
               C == Fallen(k, "fail_open")
               U == P \union A
               V == U \union B
    <2>1. {j \in ShadowJob : j.key = k /\ place[j] \in {"queued", "running", "dropped"}} = V \union C
      BY <1>1, DrainAssumption DEF JobsAt, Fallen, Underway, Phase
    <2>2. P \intersect A = {} /\ U \intersect B = {} /\ V \intersect C = {}
      BY DEF JobsAt, Fallen, Underway
    <2>3. /\ IsFiniteSet(P) /\ IsFiniteSet(A) /\ IsFiniteSet(B) /\ IsFiniteSet(C)
          /\ Cardinality(P) \in Nat /\ Cardinality(A) \in Nat /\ Cardinality(B) \in Nat /\ Cardinality(C) \in Nat
      BY JobsFinite
    <2>4. Told(k) = Cardinality(P) + Cardinality(A) + Cardinality(B) + Cardinality(C)
      BY DEF Told, DrainInv, CountersCount, Phase
    <2> HIDE DEF P, A, B, C
    <2>5. IsFiniteSet(U) /\ Cardinality(U) = Cardinality(P) + Cardinality(A)
      BY <2>2, <2>3, DisjointUnion
    <2>6. IsFiniteSet(V) /\ Cardinality(V) = Cardinality(U) + Cardinality(B)
      BY <2>2, <2>3, <2>5, DisjointUnion
    <2>7. Cardinality(V \union C) = Cardinality(V) + Cardinality(C)
      BY <2>2, <2>3, <2>6, DisjointUnion
    <2> QED BY <2>1, <2>4, <2>5, <2>6, <2>7
  <1>2. \A S : \A k \in JobKey : {j \in {j \in ShadowJob : j.key = k} : place[j] \in S}
                               = {j \in ShadowJob : j.key = k /\ place[j] \in S}
    OBVIOUS
  <1> QED BY <1>1, <1>2 DEF DrainTellsTruth, DrainInv, WaitsForAccepted

\* When drain() or shutdown() says that a task is quiet, the jobs accepted before it was
\* asked have been run; and once no submit() is under way, stats() accounts for every job
\* that has not been: for any number of jobs, databases and callers, and any length of queue.
THEOREM DrainTellsTruthCorrect == DrainSpec => []DrainTellsTruth
  BY DrainStarts, DrainStepKeeps, InvTellsTruth, PTL DEF DrainSpec
-----------------------------------------------------------------------------
(* The grammar of a field. *)

IsField(f) ==
  /\ f.min \in Nat \union {NoLength} /\ f.max \in Nat \union {NoLength}
  /\ HasPattern(f) => f.type.kind # "int"
  /\ IsBound(f.ge) /\ IsBound(f.gt) /\ IsBound(f.le) /\ IsBound(f.lt)
  /\ f.other \intersect {"length", "range"} = {}

\* The bounds of a length survive the quantifiers they are rendered with.
LEMMA LengthsRendered ==
  ASSUME NEW f, IsField(f), ~ (Bounds(f).high # Unlimited /\ Bounds(f).low > Bounds(f).high)
  PROVE  /\ Entries(Bounds(f)) = Bounds(f)
         /\ StringRegex(Bounds(f)).count = Bounds(f)
         /\ AtMost(Bounds(f), f) /\ AtLeast(Bounds(f), f)
  <1> DEFINE low == IF f.min = NoLength THEN 0 ELSE f.min
             high == IF f.max = NoLength THEN Unlimited ELSE f.max
  <1>1. low \in Nat /\ (high \in Nat \/ high = -1) /\ (high # -1 => low <= high)
    BY DEF IsField, Bounds, Unlimited, NoLength
  <1>2. Bounds(f) = [low |-> low, high |-> high]
    BY DEF Bounds
  <1>3. AtMost(Bounds(f), f) /\ AtLeast(Bounds(f), f)
    BY <1>1, <1>2 DEF AtMost, AtLeast, IsField, NoLength, Unlimited
  <1> HIDE DEF low, high
  <1>4. Entries([low |-> low, high |-> high]) = [low |-> low, high |-> high]
    BY <1>1 DEF Entries, Tail1, Unlimited
  <1>5. StringRegex([low |-> low, high |-> high]).count = [low |-> low, high |-> high]
    BY <1>1 DEF StringRegex
  <1> QED BY <1>2, <1>3, <1>4, <1>5

\* Of two numbers there may be, one is the greatest and one is the least.
LEMMA Greatest ==
  ASSUME NEW S, S # {}, NEW a \in Int, NEW b \in Int, S \subseteq {a, b}
  PROVE  (\E n \in S : \A m \in S : m <= n) /\ (\E n \in S : \A m \in S : n <= m)
  <1>1. CASE a \in S /\ b \in S
    <2>1. CASE a <= b
      BY <1>1, <2>1
    <2>2. CASE b <= a
      BY <1>1, <2>2
    <2> QED BY <2>1, <2>2
  <1>2. CASE S = {a} \/ S = {b}
    BY <1>2
  <1> QED BY <1>1, <1>2

\* The ends of a range that renders are the strictest of those that are declared.
LEMMA RangesRendered ==
  ASSUME NEW f, IsField(f), RangeRenders(f)
  PROVE  /\ Low(f) \in Lows(f) /\ \A n \in Lows(f) : n \in Int /\ n <= Low(f)
         /\ High(f) \in Highs(f) /\ \A n \in Highs(f) : n \in Int /\ High(f) <= n
  <1>1. \A b \in {f.ge, f.gt, f.le, f.lt} : b # NoBound => b.value \in Int
    BY DEF RangeRenders, IsField, IsBound, Ends
  <1> DEFINE a == IF f.ge = NoBound THEN 0 ELSE f.ge.value
             b == IF f.gt = NoBound THEN 0 ELSE f.gt.value + 1
             c == IF f.le = NoBound THEN 0 ELSE f.le.value
             d == IF f.lt = NoBound THEN 0 ELSE f.lt.value - 1
  <1>2. Lows(f) \subseteq {a, b} /\ Highs(f) \subseteq {c, d}
    BY DEF Lows, Highs
  <1>3. a \in Int /\ b \in Int
    BY <1>1
  <1>4. c \in Int /\ d \in Int
    BY <1>1
  <1> HIDE DEF a, b, c, d
  <1>5. Lows(f) # {} /\ Highs(f) # {}
    BY DEF RangeRenders
  <1>6. \E n \in Lows(f) : \A m \in Lows(f) : m <= n
    BY <1>2, <1>3, <1>5, Greatest
  <1>7. \E n \in Highs(f) : \A m \in Highs(f) : n <= m
    BY <1>2, <1>4, <1>5, Greatest
  <1>8. Low(f) \in Lows(f) /\ \A n \in Lows(f) : n <= Low(f)
    BY <1>6 DEF Low
  <1>9. High(f) \in Highs(f) /\ \A n \in Highs(f) : High(f) <= n
    BY <1>7 DEF High
  <1> QED BY <1>2, <1>3, <1>4, <1>8, <1>9

\* A constraint of a field that is not given up is in its grammar, as it is written.
KeptIn(value, f, what) ==
  /\ what \in {"length", "range"}
  /\ what = "length" =>
       /\ value.re \in {"string", "array", "map"} /\ value.count = Bounds(f)
       /\ AtMost(value.count, f) /\ AtLeast(value.count, f)
  /\ what = "range" => Enforces(value, f, what) /\ value.low = Low(f) /\ value.high = High(f)

LEMMA LengthKept ==
  ASSUME NEW f, IsField(f), NEW items, ~ (~HasPattern(f) /\ LengthRefused(f)),
         HasLength(f), "length" \notin Dropped(f)
  PROVE  KeptIn(FieldRegex(f, items), f, "length")
  <1>1. ~HasPattern(f) /\ Unrolls(f)
    BY DEF Dropped
  <1>2. LengthKind(f.type) \in {"string", "collection"}
    BY <1>1 DEF Unrolls
  <1>3. f.type.kind \in {"str", "list", "set", "variadic", "dict", "bare list", "bare set"}
    BY <1>2 DEF LengthKind, WithItems
  <1>4. ~ (Bounds(f).high # Unlimited /\ Bounds(f).low > Bounds(f).high)
    BY <1>1, <1>2 DEF LengthRefused
  <1>5. FieldRegex(f, items) = TypeRegex(f.type, Bounds(f), items)
    BY <1>1, <1>3 DEF FieldRegex
  <1>6. Entries(Bounds(f)) = Bounds(f) /\ StringRegex(Bounds(f)).count = Bounds(f)
        /\ AtMost(Bounds(f), f) /\ AtLeast(Bounds(f), f)
    BY <1>4, LengthsRendered
  <1>7. FieldRegex(f, items).re \in {"string", "array", "map"} /\ FieldRegex(f, items).count = Bounds(f)
    <2>1. CASE f.type.kind = "str"
      <3>1. FieldRegex(f, items) = StringRegex(Bounds(f))
        BY <1>5, <2>1 DEF TypeRegex
      <3>2. StringRegex(Bounds(f)).re = "string"
        BY DEF StringRegex
      <3> QED BY <1>6, <3>1, <3>2
    <2>2. CASE f.type.kind = "dict"
      BY <1>5, <1>6, <2>2 DEF TypeRegex
    <2>3. CASE f.type.kind \in {"list", "set", "variadic", "bare list", "bare set"}
      <3>1. TypeRegex(f.type, Bounds(f), items) = [re |-> "array", item |-> items[1], count |-> Entries(Bounds(f))]
        BY <2>3 DEF TypeRegex
      <3> QED BY <1>5, <1>6, <3>1
    <2> QED BY <1>3, <2>1, <2>2, <2>3
  <1> QED BY <1>6, <1>7 DEF KeptIn

LEMMA RangeKept ==
  ASSUME NEW f, IsField(f), NEW items, HasRange(f), "range" \notin Dropped(f)
  PROVE  KeptIn(FieldRegex(f, items), f, "range")
  <1>1. f.type.kind = "int" /\ RangeRenders(f) /\ ~HasPattern(f)
    BY DEF Dropped, IsField
  <1>2. FieldRegex(f, items) = [re |-> "integers", low |-> Low(f), high |-> High(f)]
    BY <1>1 DEF FieldRegex
  <1>3. /\ Low(f) \in Int /\ High(f) \in Int
        /\ \A n \in Lows(f) : n \in Int /\ n <= Low(f)
        /\ \A n \in Highs(f) : n \in Int /\ High(f) <= n
    BY <1>1, RangesRendered
  <1>4. ASSUME NEW n \in Low(f) .. High(f)
        PROVE  /\ f.ge # NoBound => n >= f.ge.value
               /\ f.gt # NoBound => n > f.gt.value
               /\ f.le # NoBound => n <= f.le.value
               /\ f.lt # NoBound => n < f.lt.value
    <2>1. /\ f.ge # NoBound => f.ge.value \in Lows(f)
          /\ f.gt # NoBound => f.gt.value + 1 \in Lows(f)
          /\ f.le # NoBound => f.le.value \in Highs(f)
          /\ f.lt # NoBound => f.lt.value - 1 \in Highs(f)
      BY DEF Lows, Highs
    <2>2. \A b \in {f.ge, f.gt, f.le, f.lt} : b # NoBound => b.value \in Int
      BY <1>1 DEF RangeRenders, IsField, IsBound, Ends
    <2> QED BY <1>3, <2>1, <2>2
  <1> QED BY <1>2, <1>4 DEF KeptIn, Enforces

-----------------------------------------------------------------------------
(* The fingerprint of a model. *)

LEMMA FieldsOfLegal ==
  ASSUME NEW m \in Legal, NEW i \in DOMAIN Models[m].fields
  PROVE  /\ IsField(Models[m].fields[i])
         /\ ~ (~HasPattern(Models[m].fields[i]) /\ LengthRefused(Models[m].fields[i]))
         /\ \A d \in Dropped(Models[m].fields[i]) : <<m, Models[m].fields[i].name, d>> \in Warned[m]
         /\ Grammar[m].fields[i].value = FieldRegex(Models[m].fields[i], RegexesIn(m)[i])
  <1>1. IsField(Models[m].fields[i])
    BY FieldAssumption DEF Legal, IsField
  <1>2. ~ (~HasPattern(Models[m].fields[i]) /\ LengthRefused(Models[m].fields[i]))
    BY DEF Legal, FieldsRefused
  <1>3. \A d \in Dropped(Models[m].fields[i]) : <<m, Models[m].fields[i].name, d>> \in FieldWarnings(m)
    BY DEF FieldWarnings
  <1>4. Warned[m] = FieldWarnings(m) \union WarningsIn(m)
    BY DEF Warned
  <1>5. Grammar[m].fields[i].value = FieldRegex(Models[m].fields[i], RegexesIn(m)[i])
    BY DEF Grammar, ObjectRegex
  <1> QED BY <1>1, <1>2, <1>3, <1>4, <1>5

\* Models of one fingerprint have the same fields, but for how their numbers are written.
LEMMA KeysTellFields ==
  ASSUME NEW m \in Legal, NEW n \in Legal, KeyFor[m] = KeyFor[n]
  PROVE  /\ DOMAIN Models[m].fields = DOMAIN Models[n].fields
         /\ \A i \in DOMAIN Models[m].fields :
              /\ SameField(Models[m].fields[i], Models[n].fields[i])
              /\ KeysIn(m)[i] = KeysIn(n)[i]
              /\ Keys(Models[m].fields[i], Models[m]) = Keys(Models[n].fields[i], Models[n])
  <1> DEFINE f == Models[m].fields
             g == Models[n].fields
             a == FieldsKey(Models[m], KeysIn(m))
             b == FieldsKey(Models[n], KeysIn(n))
  <1>1. a = b
    BY DEF KeyFor
  <1>2. DOMAIN a = DOMAIN f /\ DOMAIN b = DOMAIN g
    BY DEF FieldsKey
  <1>3. DOMAIN f = DOMAIN g
    BY <1>1, <1>2
  <1>4. ASSUME NEW i \in DOMAIN f
        PROVE  /\ SameField(f[i], g[i]) /\ KeysIn(m)[i] = KeysIn(n)[i]
               /\ Keys(f[i], Models[m]) = Keys(g[i], Models[n])
    <2>1. /\ a[i].name = f[i].name /\ a[i].type = KeysIn(m)[i] /\ a[i].pattern = f[i].pattern
          /\ a[i].keys = Keys(f[i], Models[m]) /\ a[i].constraints = ConstraintKey(f[i])
      BY DEF FieldsKey
    <2>2. /\ b[i].name = g[i].name /\ b[i].type = KeysIn(n)[i] /\ b[i].pattern = g[i].pattern
          /\ b[i].keys = Keys(g[i], Models[n]) /\ b[i].constraints = ConstraintKey(g[i])
      BY <1>3 DEF FieldsKey
    <2> HIDE DEF a, b
    <2>3. ConstraintKey(f[i]) = ConstraintKey(g[i])
      BY <1>1, <2>1, <2>2
    <2>4. SameField(f[i], g[i])
      BY <1>1, <2>1, <2>2, <2>3 DEF ConstraintKey, SameField, SameNumbers
    <2> QED BY <1>1, <2>1, <2>2, <2>4
  <1> QED BY <1>3, <1>4

\* Fields that are the same but for how numbers are written declare the same.
LEMMA SameFieldsDeclare ==
  ASSUME NEW f, NEW g, SameField(f, g)
  PROVE  /\ f.name = g.name /\ Declared(f) = Declared(g) /\ Bounds(f) = Bounds(g)
         /\ Lows(f) = Lows(g) /\ Highs(f) = Highs(g)
         /\ \A count : (AtMost(count, f) <=> AtMost(count, g)) /\ (AtLeast(count, f) <=> AtLeast(count, g))
         /\ \A a \in {<<f.ge, g.ge>>, <<f.gt, g.gt>>, <<f.le, g.le>>, <<f.lt, g.lt>>} :
              (a[1] = NoBound <=> a[2] = NoBound) /\ (a[1] # NoBound => a[1].value = a[2].value)
  <1>1. ASSUME NEW a, NEW b, SameNumbers(a, b)
        PROVE  (a = NoBound <=> b = NoBound) /\ (a # NoBound => a.value = b.value)
    <2>1. <<a.value>> # <<>> /\ <<b.value>> # <<>>
      OBVIOUS
    <2> QED BY <1>1, <2>1 DEF SameNumbers, NumberKey
  <1>2. /\ (f.ge = NoBound <=> g.ge = NoBound) /\ (f.ge # NoBound => f.ge.value = g.ge.value)
        /\ (f.gt = NoBound <=> g.gt = NoBound) /\ (f.gt # NoBound => f.gt.value = g.gt.value)
        /\ (f.le = NoBound <=> g.le = NoBound) /\ (f.le # NoBound => f.le.value = g.le.value)
        /\ (f.lt = NoBound <=> g.lt = NoBound) /\ (f.lt # NoBound => f.lt.value = g.lt.value)
    BY <1>1 DEF SameField
  <1>3. f.name = g.name /\ f.min = g.min /\ f.max = g.max /\ f.other = g.other
    BY DEF SameField
  <1>4. HasRange(f) <=> HasRange(g)
    BY <1>2 DEF HasRange, Ends
  <1>5. Lows(f) = Lows(g)
    BY <1>2 DEF Lows
  <1>6. Highs(f) = Highs(g)
    BY <1>2 DEF Highs
  <1>7. Declared(f) = Declared(g) /\ Bounds(f) = Bounds(g)
    BY <1>3, <1>4 DEF Declared, HasLength, Bounds
  <1>8. \A count : (AtMost(count, f) <=> AtMost(count, g)) /\ (AtLeast(count, f) <=> AtLeast(count, g))
    BY <1>3 DEF AtMost, AtLeast
  <1> QED BY <1>2, <1>3, <1>5, <1>6, <1>7, <1>8

\* What the grammar of one of them has of a constraint, it has of the other's.
LEMMA KeptInBoth ==
  ASSUME NEW f, NEW g, SameField(f, g), NEW value, NEW what, KeptIn(value, g, what)
  PROVE  KeptIn(value, f, what)
  <1>1. CASE what = "length"
    BY <1>1, SameFieldsDeclare DEF KeptIn
  <1>2. CASE what = "range"
    <2>1. Low(f) = Low(g) /\ High(f) = High(g)
      BY SameFieldsDeclare DEF Low, High
    <2>2. Enforces(value, f, what)
      <3>1. /\ (f.ge = NoBound <=> g.ge = NoBound) /\ (f.ge # NoBound => f.ge.value = g.ge.value)
            /\ (f.gt = NoBound <=> g.gt = NoBound) /\ (f.gt # NoBound => f.gt.value = g.gt.value)
            /\ (f.le = NoBound <=> g.le = NoBound) /\ (f.le # NoBound => f.le.value = g.le.value)
            /\ (f.lt = NoBound <=> g.lt = NoBound) /\ (f.lt # NoBound => f.lt.value = g.lt.value)
        BY SameFieldsDeclare
      <3> QED BY <1>2, <3>1 DEF KeptIn, Enforces
    <2> QED BY <1>2, <2>1, <2>2 DEF KeptIn
  <1> QED BY <1>1, <1>2 DEF KeptIn

\* What is kept as it is written is kept when it is read back, but for how few are left of
\* what may collapse.
LEMMA KeptReadBack ==
  ASSUME NEW f, IsField(f), NEW value, NEW what, KeptIn(value, f, what)
  PROVE  /\ Enforces(value, f, what) \/ (Unkept(f, what) /\ Limits(value, f))
         /\ what = "length" => value.count = Bounds(f)
         /\ what = "range" => value.low = Low(f) /\ value.high = High(f)
  <1>1. CASE what = "length"
    <2> DEFINE low == IF f.min = NoLength THEN 0 ELSE f.min
               high == IF f.max = NoLength THEN Unlimited ELSE f.max
               left == Left(f.type, value.count)
    <2>1. value.count = [low |-> low, high |-> high]
      BY <1>1 DEF KeptIn, Bounds
    <2>2. /\ left.high = high
          /\ left.low = IF f.type.kind \in Collapsing /\ low > 1 THEN 1 ELSE low
      BY <2>1 DEF Left
    <2>3. AtMost(left, f)
      <3>1. AtMost(value.count, f)
        BY <1>1 DEF KeptIn
      <3> QED BY <2>1, <2>2, <3>1 DEF AtMost
    <2>4. Limits(value, f)
      BY <1>1, <2>3 DEF KeptIn, Limits
    <2>5. AtLeast(left, f) \/ Unkept(f, what)
      <3>1. f.min \in Nat \/ f.min = NoLength
        BY DEF IsField
      <3>2. CASE f.min = NoLength
        BY <3>2 DEF AtLeast
      <3>3. CASE f.min # NoLength
        <4>1. low = f.min /\ f.min \in Nat
          BY <3>1, <3>3
        <4>2. CASE f.type.kind \in Collapsing /\ low > 1
          BY <1>1, <4>1, <4>2 DEF Unkept
        <4>3. CASE ~ (f.type.kind \in Collapsing /\ low > 1)
          <5>1. left.low = f.min
            BY <2>2, <4>1, <4>3
          <5> QED BY <4>1, <5>1 DEF AtLeast
        <4> QED BY <4>2, <4>3
      <3> QED BY <3>2, <3>3
    <2> QED BY <1>1, <2>4, <2>5 DEF Enforces, KeptIn
  <1>2. CASE what = "range"
    BY <1>2 DEF KeptIn
  <1> QED BY <1>1, <1>2 DEF KeptIn

\* Of a constraint that a model declares: the grammar of any model of its fingerprint
\* enforces it, or a compile of that model warns of it.
LEMMA EnforcedOrGivenUp ==
  ASSUME NEW m \in Legal, NEW n \in Legal, KeyFor[m] = KeyFor[n],
         NEW i \in DOMAIN Models[m].fields, NEW what \in Declared(Models[m].fields[i])
  PROVE  \/ <<n, Models[m].fields[i].name, what>> \in Warned[n]
         \/ KeptIn(Grammar[n].fields[i].value, Models[m].fields[i], what)
  <1> DEFINE f == Models[m].fields[i]
             g == Models[n].fields[i]
             items == RegexesIn(n)[i]
  <1>1. SameField(f, g) /\ i \in DOMAIN Models[n].fields
    BY KeysTellFields
  <1>2. f.name = g.name /\ what \in Declared(g)
    BY <1>1, SameFieldsDeclare
  <1>3. /\ IsField(g) /\ ~ (~HasPattern(g) /\ LengthRefused(g))
        /\ \A d \in Dropped(g) : <<n, g.name, d>> \in Warned[n]
        /\ Grammar[n].fields[i].value = FieldRegex(g, items)
    BY <1>1, FieldsOfLegal
  <1> HIDE DEF f, g, items
  <1>4. CASE what \in Dropped(g)
    BY <1>2, <1>3, <1>4 DEF f
  <1>5. CASE what \notin Dropped(g)
    <2>1. what \notin g.other
      BY <1>5 DEF Dropped
    <2>2. (what = "length" /\ HasLength(g)) \/ (what = "range" /\ HasRange(g))
      BY <1>2, <2>1 DEF Declared
    <2>3. KeptIn(FieldRegex(g, items), g, what)
      BY <1>3, <1>5, <2>2, LengthKept, RangeKept
    <2>4. KeptIn(FieldRegex(g, items), f, what)
      BY <1>1, <2>3, KeptInBoth
    <2> QED BY <1>3, <2>4 DEF f
  <1> QED BY <1>4, <1>5

\* Fields that are the same, and whose types are, render to the same.
LEMMA SameFieldsRender ==
  ASSUME NEW f, NEW g, SameField(f, g), Numbers(f) = Numbers(g), SameType(f.type, g.type), NEW items
  PROVE  FieldRegex(f, items) = FieldRegex(g, items)
  <1>1. f.ge = g.ge /\ f.gt = g.gt /\ f.le = g.le /\ f.lt = g.lt
    BY DEF Numbers
  <1>2. f.min = g.min /\ f.max = g.max /\ f.pattern = g.pattern
    BY DEF SameField
  <1>3. Lows(f) = Lows(g) /\ Highs(f) = Highs(g) /\ Ends(f) = Ends(g)
    BY <1>1 DEF Lows, Highs, Ends
  <1>4. Low(f) = Low(g) /\ High(f) = High(g) /\ (RangeRenders(f) <=> RangeRenders(g))
    BY <1>3 DEF Low, High, RangeRenders
  <1>5. Bounds(f) = Bounds(g) /\ (HasLength(f) <=> HasLength(g)) /\ LengthKind(f.type) = LengthKind(g.type)
    BY <1>2 DEF Bounds, HasLength, LengthKind, SameType
  <1>6. Unrolls(f) <=> Unrolls(g)
    BY <1>5 DEF Unrolls, SameType
  <1>7. \A bounds : TypeRegex(f.type, bounds, items) = TypeRegex(g.type, bounds, items)
    BY DEF TypeRegex, SameType
  <1>8. f.type.kind = g.type.kind /\ (HasPattern(f) <=> HasPattern(g)) /\ (HasRange(f) <=> HasRange(g))
    BY <1>2, <1>3 DEF SameType, HasPattern, HasRange
  <1> QED BY <1>2, <1>4, <1>5, <1>6, <1>7, <1>8 DEF FieldRegex

-----------------------------------------------------------------------------
(* The cache of grammars. *)

\* An entry whose grammar a model of its fingerprint has been compiled to.
Compiled(e, warned) ==
  \E n \in Legal : KeyFor[n] = e.key /\ e.grammar = Grammar[n] /\ Warned[n] \subseteq warned

CacheEntries == [key : {KeyFor[m] : m \in Legal}, grammar : {Grammar[m] : m \in Legal}]

GoodCache(s, warned) ==
  /\ s \in Seq(CacheEntries)
  /\ \A i \in 1..Len(s) : Compiled(s[i], warned)
  /\ \A i, j \in 1..Len(s) : s[i].key = s[j].key => i = j

CacheInv == GoodCache(cache, emitted) /\ Len(cache) <= MaxCached

JobsInv ==
  /\ DOMAIN job = Thread
  /\ \A t \in Thread : job[t].step \in {"compile", "insert"} => job[t].model \in Legal
  /\ \A t \in Thread : job[t].step = "insert" =>
       job[t].grammar = Grammar[job[t].model] /\ Warned[job[t].model] \subseteq emitted

Got(g) == [key |-> KeyFor[g.model], grammar |-> g.grammar]
GotInv ==
  /\ DOMAIN got = Thread
  /\ \A t \in Thread : got[t] # Nothing =>
       got[t].model \in Legal /\ Compiled(Got(got[t]), emitted)

LoaderInv == CacheInv /\ JobsInv /\ GotInv

LEMMA CompiledStays ==
  ASSUME NEW e, NEW warned, Compiled(e, warned), NEW more, warned \subseteq more
  PROVE  Compiled(e, more)
  BY DEF Compiled

\* A sequence of entries of a cache, none of them twice.
LEMMA PickedIsGood ==
  ASSUME NEW s, NEW warned, GoodCache(s, warned), NEW r, NEW h,
         r \in Seq(CacheEntries), h \in [1..Len(r) -> 1..Len(s)],
         \A i \in 1..Len(r) : r[i] = s[h[i]],
         \A i, j \in 1..Len(r) : h[i] = h[j] => i = j
  PROVE  GoodCache(r, warned)
  <1>1. \A i \in 1..Len(r) : h[i] \in 1..Len(s)
    OBVIOUS
  <1>2. \A i \in 1..Len(r) : Compiled(r[i], warned)
    BY <1>1 DEF GoodCache
  <1>3. \A i, j \in 1..Len(r) : r[i].key = r[j].key => i = j
    BY <1>1 DEF GoodCache
  <1> QED BY <1>2, <1>3 DEF GoodCache

\* The entry at place i of s is moved to its end: r.
MovedLast(s, i, r, S) ==
  /\ r \in Seq(S) /\ Len(r) = Len(s)
  /\ \A n \in 1..Len(s) : r[n] = IF n < i THEN s[n] ELSE IF n = Len(s) THEN s[i] ELSE s[n + 1]

\* What is before the place, and what is after it.
LEMMA Before ==
  ASSUME NEW S, NEW s \in Seq(S), NEW k \in Nat, k = Len(s), NEW i \in 1..k
  PROVE  /\ SubSeq(s, 1, i - 1) \in Seq(S) /\ Len(SubSeq(s, 1, i - 1)) = i - 1
         /\ \A n \in 1..(i - 1) : SubSeq(s, 1, i - 1)[n] = s[n]
  <1>1. \A n \in 1..(i - 1) : s[n] \in S
    OBVIOUS
  <1> QED BY <1>1, SubSeqProperties

LEMMA After ==
  ASSUME NEW S, NEW s \in Seq(S), NEW k \in Nat, k = Len(s), NEW i \in 1..k
  PROVE  /\ SubSeq(s, i + 1, k) \in Seq(S) /\ Len(SubSeq(s, i + 1, k)) = k - i
         /\ \A n \in 1..(k - i) : SubSeq(s, i + 1, k)[n] = s[i + n]
  <1>1. \A n \in (i + 1)..k : s[n] \in S
    OBVIOUS
  <1> DEFINE q == SubSeq(s, i + 1, k)
  <1>2. /\ q \in Seq(S)
        /\ Len(q) = IF i + 1 <= k THEN k - (i + 1) + 1 ELSE 0
        /\ \A n \in 1..(k - (i + 1) + 1) : q[n] = s[(i + 1) + n - 1]
    BY <1>1, SubSeqProperties
  <1> HIDE DEF q
  <1>3. Len(q) = k - i
    BY <1>2
  <1>4. \A n \in 1..(k - i) : q[n] = s[i + n]
    <2>1. \A n \in 1..(k - i) : n \in 1..(k - (i + 1) + 1) /\ (i + 1) + n - 1 = i + n
      OBVIOUS
    <2> QED BY <1>2, <2>1
  <1> QED BY <1>2, <1>3, <1>4 DEF q

LEMMA MovedToEnd ==
  ASSUME NEW S, NEW s \in Seq(S), NEW k \in Nat, k = Len(s), NEW i \in 1..k,
         NEW p \in Seq(S), Len(p) = i - 1, \A n \in 1..(i - 1) : p[n] = s[n],
         NEW q \in Seq(S), Len(q) = k - i, \A n \in 1..(k - i) : q[n] = s[i + n]
  PROVE  MovedLast(s, i, Append(p \o q, s[i]), S)
  <1> DEFINE u == p \o q
             r == Append(u, s[i])
  <1>1. s[i] \in S
    OBVIOUS
  <1>2. /\ u \in Seq(S) /\ Len(u) = Len(p) + Len(q)
        /\ \A n \in 1..Len(p) + Len(q) : u[n] = IF n <= Len(p) THEN p[n] ELSE q[n - Len(p)]
    BY ConcatProperties
  <1> HIDE DEF u
  <1>3. /\ r \in Seq(S) /\ Len(r) = Len(u) + 1
        /\ \A n \in 1..Len(u) : r[n] = u[n]
        /\ r[Len(u) + 1] = s[i]
    <2> DEFINE e == s[i]
    <2>1. e \in S /\ u \in Seq(S)
      BY <1>1, <1>2
    <2> HIDE DEF e
    <2>2. /\ Append(u, e) \in Seq(S) /\ Len(Append(u, e)) = Len(u) + 1
          /\ \A n \in 1..Len(u) : Append(u, e)[n] = u[n]
          /\ Append(u, e)[Len(u) + 1] = e
      BY <2>1, AppendProperties
    <2> QED BY <2>2 DEF e
  <1> HIDE DEF r
  <1>4. Len(p) + Len(q) = k - 1 /\ Len(u) = k - 1 /\ Len(r) = k
    BY <1>2, <1>3
  <1>5. ASSUME NEW n \in 1..k
        PROVE  r[n] = IF n < i THEN s[n] ELSE IF n = k THEN s[i] ELSE s[n + 1]
    <2>1. CASE n < i
      <3>1. n \in 1..(i - 1) /\ n \in 1..Len(u) /\ n \in 1..Len(p) + Len(q) /\ n <= Len(p)
        BY <1>4, <2>1
      <3> QED BY <1>2, <1>3, <2>1, <3>1
    <2>2. CASE ~ (n < i) /\ n = k
      BY <1>3, <1>4, <2>2
    <2>3. CASE ~ (n < i) /\ n # k
      <3>1. n \in 1..Len(u) /\ n \in 1..Len(p) + Len(q) /\ ~ (n <= Len(p))
        BY <1>4, <2>3
      <3>2. n - Len(p) \in 1..(k - i) /\ i + (n - Len(p)) = n + 1
        BY <2>3
      <3> QED BY <1>2, <1>3, <2>3, <3>1, <3>2
    <2> QED BY <2>1, <2>2, <2>3
  <1>6. MovedLast(s, i, r, S)
    BY <1>3, <1>4, <1>5 DEF MovedLast
  <1> QED BY <1>6 DEF r, u

LEMMA MovedIsGood ==
  ASSUME NEW s, NEW warned, GoodCache(s, warned), NEW i \in 1..Len(s), NEW r, MovedLast(s, i, r, CacheEntries)
  PROVE  GoodCache(r, warned) /\ Len(r) = Len(s)
  <1> DEFINE k == Len(s)
  <1>1. k \in Nat /\ i \in 1..k
    BY DEF GoodCache
  <1>2. /\ r \in Seq(CacheEntries) /\ Len(r) = k
        /\ \A n \in 1..k : r[n] = IF n < i THEN s[n] ELSE IF n = k THEN s[i] ELSE s[n + 1]
    BY DEF MovedLast
  <1> HIDE DEF k
  <1> DEFINE h == [n \in 1..k |-> IF n < i THEN n ELSE IF n = k THEN i ELSE n + 1]
  <1>3. h \in [1..k -> 1..k]
    <2>1. ASSUME NEW n \in 1..k
          PROVE  (IF n < i THEN n ELSE IF n = k THEN i ELSE n + 1) \in 1..k
      BY <1>1
    <2> QED BY <2>1
  <1>4. \A n \in 1..k : r[n] = s[h[n]]
    BY <1>1, <1>2
  <1>5. \A n, m \in 1..k : h[n] = h[m] => n = m
    BY <1>1
  <1> HIDE DEF h
  <1>6. /\ r \in Seq(CacheEntries) /\ h \in [1..Len(r) -> 1..Len(s)]
        /\ \A n \in 1..Len(r) : r[n] = s[h[n]]
        /\ \A n, m \in 1..Len(r) : h[n] = h[m] => n = m
    BY <1>2, <1>3, <1>4, <1>5 DEF k
  <1>7. GoodCache(r, warned)
    BY <1>6, PickedIsGood
  <1> QED BY <1>2, <1>7 DEF k

LEMMA UsedKeeps ==
  ASSUME CacheInv, NEW key, Cached(key) # {}
  PROVE  GoodCache(Used(key), emitted) /\ Len(Used(key)) <= MaxCached
  <1>1. cache \in Seq(CacheEntries) /\ Len(cache) \in Nat
    BY DEF CacheInv, GoodCache
  <1>2. PICK i \in 1..Len(cache) : Used(key) = Append(RemoveAt(cache, i), cache[i])
    <2>1. Cached(key) \subseteq 1..Len(cache)
      BY <1>1 DEF Cached
    <2>2. (CHOOSE i \in Cached(key) : TRUE) \in Cached(key)
      OBVIOUS
    <2> QED BY <2>1, <2>2 DEF Used
  <1>3. MovedLast(cache, i, Used(key), CacheEntries)
    <2> DEFINE p == SubSeq(cache, 1, i - 1)
               q == SubSeq(cache, i + 1, Len(cache))
    <2>1. p \in Seq(CacheEntries) /\ Len(p) = i - 1 /\ \A n \in 1..(i - 1) : p[n] = cache[n]
      BY <1>1, Before
    <2>2. /\ q \in Seq(CacheEntries) /\ Len(q) = Len(cache) - i
          /\ \A n \in 1..(Len(cache) - i) : q[n] = cache[i + n]
      BY <1>1, After
    <2>3. Used(key) = Append(p \o q, cache[i])
      BY <1>2 DEF RemoveAt
    <2> HIDE DEF p, q
    <2> QED BY <1>1, <2>1, <2>2, <2>3, MovedToEnd
  <1>4. GoodCache(Used(key), emitted) /\ Len(Used(key)) = Len(cache)
    BY <1>3, MovedIsGood DEF CacheInv
  <1> QED BY <1>4 DEF CacheInv

LEMMA NewestKeeps ==
  ASSUME NEW s, NEW warned, GoodCache(s, warned)
  PROVE  GoodCache(Newest(s), warned) /\ Len(Newest(s)) <= MaxCached
  <1>1. s \in Seq(CacheEntries) /\ Len(s) \in Nat /\ MaxCached \in Nat
    BY LoaderAssumption DEF GoodCache
  <1>2. CASE Len(s) > MaxCached
    <2> DEFINE k == Len(s) - MaxCached
               r == SubSeq(s, k + 1, Len(s))
    <2>1. k \in Nat /\ k + MaxCached = Len(s)
      BY <1>1, <1>2
    <2>2. Newest(s) = r
      BY <1>2 DEF Newest
    <2> HIDE DEF k
    <2>3. r \in Seq(CacheEntries) /\ Len(r) = MaxCached /\ \A i \in 1..MaxCached : r[i] = s[k + i]
      <3>1. \A i \in (k + 1)..Len(s) : s[i] \in CacheEntries
        BY <1>1, <2>1
      <3>2. k + 1 <= Len(s) + 1 /\ Len(s) - (k + 1) + 1 = MaxCached
        BY <1>1, <2>1
      <3> QED BY <1>1, <2>1, <3>1, <3>2, SubSeqProperties
    <2> HIDE DEF r
    <2> DEFINE h == [i \in 1..MaxCached |-> k + i]
    <2>4. h \in [1..MaxCached -> 1..Len(s)] /\ \A i, j \in 1..MaxCached : h[i] = h[j] => i = j
      BY <1>1, <2>1
    <2>5. \A i \in 1..MaxCached : r[i] = s[h[i]]
      BY <2>3
    <2> HIDE DEF h
    <2>6. GoodCache(r, warned)
      BY <2>3, <2>4, <2>5, PickedIsGood
    <2> QED BY <1>1, <2>2, <2>3, <2>6
  <1>3. CASE ~ (Len(s) > MaxCached)
    BY <1>1, <1>3 DEF Newest
  <1> QED BY <1>2, <1>3

LEMMA InsertKeeps ==
  ASSUME CacheInv, NEW m \in Legal, Cached(KeyFor[m]) = {}, Warned[m] \subseteq emitted
  PROVE  GoodCache(Append(cache, [key |-> KeyFor[m], grammar |-> Grammar[m]]), emitted)
  <1> DEFINE e == [key |-> KeyFor[m], grammar |-> Grammar[m]]
             r == Append(cache, e)
  <1>1. cache \in Seq(CacheEntries) /\ Len(cache) \in Nat /\ e \in CacheEntries
    BY DEF CacheInv, GoodCache, CacheEntries
  <1>2. Compiled(e, emitted)
    BY DEF Compiled
  <1>3. \A i \in 1..Len(cache) : cache[i].key # e.key
    BY <1>1 DEF Cached
  <1> HIDE DEF e
  <1>4. /\ r \in Seq(CacheEntries) /\ Len(r) = Len(cache) + 1 /\ r[Len(cache) + 1] = e
        /\ \A i \in 1..Len(cache) : r[i] = cache[i]
    BY <1>1
  <1> HIDE DEF r
  <1>5. \A i \in 1..Len(r) : Compiled(r[i], emitted)
    <2>1. \A i \in 1..Len(cache) : Compiled(cache[i], emitted)
      BY DEF CacheInv, GoodCache
    <2>2. \A i \in 1..Len(r) : i \in 1..Len(cache) \/ i = Len(cache) + 1
      BY <1>1, <1>4
    <2> QED BY <1>2, <1>4, <2>1, <2>2
  <1>6. ASSUME NEW i \in 1..Len(r), NEW j \in 1..Len(r), r[i].key = r[j].key PROVE i = j
    <2>1. \A n \in 1..Len(r) : n \in 1..Len(cache) \/ n = Len(cache) + 1
      BY <1>1, <1>4
    <2>2. CASE i \in 1..Len(cache) /\ j \in 1..Len(cache)
      BY <1>4, <1>6, <2>2 DEF CacheInv, GoodCache
    <2> QED BY <1>3, <1>4, <1>6, <2>1, <2>2
  <1>7. GoodCache(r, emitted)
    BY <1>4, <1>5, <1>6 DEF GoodCache
  <1> QED BY <1>7 DEF r, e

-----------------------------------------------------------------------------
(* The steps of the cache. *)

LEMMA LoaderStarts == LoaderInit => LoaderInv
  <1> SUFFICES ASSUME LoaderInit PROVE LoaderInv
    OBVIOUS
  <1>1. CacheInv
    BY LoaderAssumption DEF LoaderInit, CacheInv, GoodCache
  <1>2. JobsInv
    BY DEF LoaderInit, JobsInv, NoJob
  <1>3. GotInv
    BY DEF LoaderInit, GotInv
  <1> QED BY <1>1, <1>2, <1>3 DEF LoaderInv

LEMMA HitKeeps == ASSUME LoaderInv, NEW t \in Thread, Hit(t) PROVE LoaderInv'
  <1>1. PICK m \in Legal :
          /\ Cached(KeyFor[m]) # {} /\ cache' = Used(KeyFor[m])
          /\ got' = [got EXCEPT ![t] =
                       [model |-> m, grammar |-> cache[CHOOSE i \in Cached(KeyFor[m]) : TRUE].grammar]]
    BY DEF Hit
  <1>2. job' = job /\ emitted' = emitted
    BY DEF Hit
  <1>3. CacheInv'
    BY <1>1, <1>2, UsedKeeps DEF CacheInv, LoaderInv
  <1>4. JobsInv'
    BY <1>2 DEF JobsInv, LoaderInv
  <1>5. PICK e \in ToSet(cache) : e.key = KeyFor[m] /\ got'[t] = [model |-> m, grammar |-> e.grammar] /\ Compiled(e, emitted)
    <2>1. (CHOOSE i \in Cached(KeyFor[m]) : TRUE) \in Cached(KeyFor[m])
      BY <1>1
    <2>2. cache \in Seq(CacheEntries) /\ \A i \in 1..Len(cache) : Compiled(cache[i], emitted)
      BY DEF LoaderInv, CacheInv, GoodCache
    <2>3. DOMAIN cache = 1..Len(cache)
      BY <2>2
    <2>4. t \in DOMAIN got
      BY DEF LoaderInv, GotInv
    <2> QED BY <1>1, <2>1, <2>2, <2>3, <2>4 DEF Cached, ToSet
  <1>6. Compiled(Got(got'[t]), emitted) /\ got'[t].model = m
    BY <1>5 DEF Compiled, Got
  <1>7. GotInv'
    BY <1>1, <1>2, <1>6 DEF LoaderInv, GotInv
  <1> QED BY <1>3, <1>4, <1>7 DEF LoaderInv

LEMMA MissKeeps == ASSUME LoaderInv, NEW t \in Thread, Miss(t) PROVE LoaderInv'
  <1>1. cache' = cache /\ got' = got /\ emitted' = emitted
    BY DEF Miss
  <1>2. PICK m \in Legal : job' = [job EXCEPT ![t] = [step |-> "compile", model |-> m]]
    BY DEF Miss
  <1>3. CacheInv' /\ GotInv'
    BY <1>1 DEF LoaderInv, CacheInv, GotInv
  <1>4. JobsInv'
    BY <1>1, <1>2 DEF LoaderInv, JobsInv
  <1> QED BY <1>3, <1>4 DEF LoaderInv

LEMMA CompileKeeps == ASSUME LoaderInv, NEW t \in Thread, Compile(t) PROVE LoaderInv'
  <1>1. cache' = cache /\ got' = got /\ emitted' = emitted \union Warned[job[t].model]
    BY DEF Compile
  <1>2. /\ job[t].step = "compile" /\ job[t].model \in Legal
        /\ job' = [job EXCEPT ![t] = [step |-> "insert", model |-> @.model, grammar |-> Grammar[@.model]]]
    BY DEF Compile, LoaderInv, JobsInv
  <1>3. emitted \subseteq emitted'
    BY <1>1
  <1>4. CacheInv'
    BY <1>1, <1>3, CompiledStays DEF LoaderInv, CacheInv, GoodCache
  <1>5. GotInv'
    BY <1>1, <1>3, CompiledStays DEF LoaderInv, GotInv
  <1>6. JobsInv'
    BY <1>1, <1>2, <1>3 DEF LoaderInv, JobsInv
  <1> QED BY <1>4, <1>5, <1>6 DEF LoaderInv

LEMMA InsertStepKeeps == ASSUME LoaderInv, NEW t \in Thread, Insert(t) PROVE LoaderInv'
  <1> DEFINE m == job[t].model
             key == KeyFor[m]
             e == [key |-> key, grammar |-> Grammar[m]]
  <1>1. job[t].step = "insert" /\ m \in Legal /\ job[t].grammar = Grammar[m] /\ Warned[m] \subseteq emitted
    BY DEF Insert, LoaderInv, JobsInv
  <1>2. /\ emitted' = emitted
        /\ got' = [got EXCEPT ![t] = [model |-> m, grammar |-> Grammar[m]]]
        /\ job' = [job EXCEPT ![t] = NoJob]
    BY <1>1 DEF Insert
  <1>3. cache' = IF Cached(key) # {} THEN Used(key) ELSE Newest(Append(cache, e))
    BY <1>1 DEF Insert
  <1>4. CacheInv'
    <2>1. CASE Cached(key) # {}
      <3>1. GoodCache(Used(key), emitted) /\ Len(Used(key)) <= MaxCached
        BY <2>1, UsedKeeps DEF LoaderInv
      <3> QED BY <1>2, <1>3, <2>1, <3>1 DEF CacheInv
    <2>2. CASE Cached(key) = {}
      <3>1. GoodCache(Append(cache, e), emitted)
        BY <1>1, <2>2, InsertKeeps DEF LoaderInv
      <3>2. GoodCache(Newest(Append(cache, e)), emitted) /\ Len(Newest(Append(cache, e))) <= MaxCached
        BY <3>1, NewestKeeps
      <3> QED BY <1>2, <1>3, <2>2, <3>2 DEF CacheInv
    <2> QED BY <2>1, <2>2
  <1>5. JobsInv'
    BY <1>2 DEF LoaderInv, JobsInv, NoJob
  <1>6. GotInv'
    <2>1. Compiled(Got([model |-> m, grammar |-> Grammar[m]]), emitted)
      BY <1>1 DEF Compiled, Got
    <2> HIDE DEF m
    <2> QED BY <1>1, <1>2, <2>1 DEF LoaderInv, GotInv
  <1> QED BY <1>4, <1>5, <1>6 DEF LoaderInv

\* A call of the function, and a load that is refused, change nothing of it.
LEMMA LoaderUnchanged ==
  ASSUME LoaderInv, cache' = cache, job' = job, got' = got, emitted' = emitted
  PROVE  LoaderInv'
  BY DEF LoaderInv, CacheInv, JobsInv, GotInv

LEMMA LoaderStep == LoaderInv /\ [GrammarNext \/ FunctionNext]_schema => LoaderInv'
  <1> SUFFICES ASSUME LoaderInv, [GrammarNext \/ FunctionNext]_schema PROVE LoaderInv'
    OBVIOUS
  <1>1. CASE GrammarNext
    <2>1. PICK t \in Thread : LoadRefused(t) \/ Hit(t) \/ Miss(t) \/ Compile(t) \/ Insert(t)
      BY <1>1 DEF GrammarNext
    <2>2. CASE LoadRefused(t)
      BY <2>2, LoaderUnchanged DEF LoadRefused
    <2> QED BY <2>1, <2>2, HitKeeps, MissKeeps, CompileKeeps, InsertStepKeeps
  <1>2. CASE FunctionNext
    <2>1. cache' = cache /\ job' = job /\ got' = got /\ emitted' = emitted
      BY <1>2 DEF FunctionNext, Local, ReadCount, WriteCount, Warn, FallBack, cacheVars
    <2> QED BY <2>1, LoaderUnchanged
  <1>3. CASE UNCHANGED schema
    BY <1>3, LoaderUnchanged DEF schema, cacheVars
  <1> QED BY <1>1, <1>2, <1>3

LEMMA LoaderAlways == LoaderSpec => []LoaderInv
  BY LoaderStarts, LoaderStep, PTL DEF LoaderSpec

-----------------------------------------------------------------------------
(* What a load returns. *)

\* Models of one fingerprint that are not confused have one grammar.
LEMMA KeysTellGrammars ==
  ASSUME TypesTell, NEW m \in Legal, NEW n \in Legal, KeyFor[m] = KeyFor[n], ~Confused(n, m)
  PROVE  Grammar[n] = Grammar[m]
  <1> DEFINE f == Models[m].fields
             g == Models[n].fields
  <1>1. /\ DOMAIN f = DOMAIN g
        /\ \A i \in DOMAIN f :
             /\ SameField(f[i], g[i]) /\ SameField(g[i], f[i]) /\ KeysIn(m)[i] = KeysIn(n)[i]
             /\ Keys(f[i], Models[m]) = Keys(g[i], Models[n])
    BY KeysTellFields DEF SameField, SameNumbers
  <1>2. \A i \in DOMAIN f : Numbers(g[i]) = Numbers(f[i])
    BY <1>1 DEF Confused
  <1>3. ASSUME NEW i \in DOMAIN f PROVE FieldRegex(g[i], RegexesIn(n)[i]) = FieldRegex(f[i], RegexesIn(m)[i])
    BY <1>1, <1>2, <1>3, TypesTell, SameFieldsRender DEF TypesTell
  <1>4. ObjectRegex(Models[n], RegexesIn(n)) = ObjectRegex(Models[m], RegexesIn(m))
    BY <1>1, <1>3 DEF ObjectRegex
  <1> QED BY <1>4 DEF Grammar

\* What a load returns is the grammar of its model or of one that is confused with it;
\* the cache holds no more than it may, and nothing twice.
THEOREM CachedIsFreshCorrect == TypesTell => (LoaderSpec => []CachedIsFresh)
  <1>1. ASSUME TypesTell, LoaderInv PROVE CachedIsFresh
    <2>1. ASSUME NEW t \in Thread, got[t] # Nothing
          PROVE  \/ got[t].grammar = Grammar[got[t].model]
                 \/ \E m \in Legal : Confused(m, got[t].model) /\ got[t].grammar = Grammar[m]
      <3>1. PICK n \in Legal : KeyFor[n] = KeyFor[got[t].model] /\ got[t].grammar = Grammar[n]
        BY <1>1, <2>1 DEF LoaderInv, GotInv, Compiled, Got
      <3>2. got[t].model \in Legal
        BY <1>1, <2>1 DEF LoaderInv, GotInv
      <3> QED BY <1>1, <3>1, <3>2, KeysTellGrammars
    <2>2. cache \in Seq(CacheEntries) /\ DOMAIN cache = 1..Len(cache)
      BY <1>1 DEF LoaderInv, CacheInv, GoodCache
    <2> QED BY <1>1, <2>1, <2>2 DEF CachedIsFresh, LoaderInv, CacheInv, GoodCache
  <1>2. ASSUME TypesTell PROVE LoaderInv => CachedIsFresh
    BY <1>1, <1>2
  <1>3. ASSUME TypesTell PROVE LoaderSpec => []CachedIsFresh
    BY <1>2, <1>3, LoaderAlways, PTL
  <1> QED BY <1>3

\* Every constraint that a loaded model declares is in the grammar of the load, exactly,
\* or a compile has warned of it; of what may collapse to fewer entries, the upper end is.
THEOREM EnforcedOrWarnedCorrect == LoaderSpec => []EnforcedOrWarned
  <1>1. ASSUME LoaderInv PROVE EnforcedOrWarned
    <2> SUFFICES ASSUME NEW t \in Thread, got[t] # Nothing,
                        NEW i \in DOMAIN Models[got[t].model].fields,
                        NEW what \in Declared(Models[got[t].model].fields[i])
                 PROVE  LET f == Models[got[t].model].fields[i]
                            value == got[t].grammar.fields[i].value IN
                        \/ \E m \in Legal :
                             KeyFor[m] = KeyFor[got[t].model] /\ <<m, f.name, what>> \in emitted
                        \/ /\ Enforces(value, f, what) \/ (Unkept(f, what) /\ Limits(value, f))
                           /\ what = "length" => value.count = Bounds(f)
                           /\ what = "range" => value.low = Low(f) /\ value.high = High(f)
      BY DEF EnforcedOrWarned
    <2>1. PICK n \in Legal :
            KeyFor[n] = KeyFor[got[t].model] /\ got[t].grammar = Grammar[n] /\ Warned[n] \subseteq emitted
      BY <1>1 DEF LoaderInv, GotInv, Compiled, Got
    <2>2. got[t].model \in Legal
      BY <1>1 DEF LoaderInv, GotInv
    <2>3. IsField(Models[got[t].model].fields[i])
      BY <2>2, FieldsOfLegal
    <2> QED BY <2>1, <2>2, <2>3, EnforcedOrGivenUp, KeptReadBack
  <1> QED BY <1>1, LoaderAlways, PTL

-----------------------------------------------------------------------------
(* The bound function. *)

\* Whoever may fall back has counted the failure, and warned.
CountInv ==
  /\ state \in [warned : BOOLEAN, count : Nat]
  /\ call \in [Thread -> [step : {"none", "read", "write", "warn", "fall back"}, read : Nat]]
  /\ \A t \in Thread : call[t].step \in {"warn", "fall back"} => state.count > 0
  /\ \A t \in Thread : call[t].step = "fall back" => state.warned
  /\ fellBack => state.count > 0 /\ state.warned

\* However the counter is raced for, a count is never written over by none.
THEOREM CountShowsFailureCorrect == LoaderSpec => []CountShowsFailure
  <1>1. LoaderInit => CountInv
    <2> SUFFICES ASSUME LoaderInit PROVE CountInv
      OBVIOUS
    <2>1. /\ state = [warned |-> FALSE, count |-> 0] /\ call = [t \in Thread |-> NoCall] /\ fellBack = FALSE
          /\ NoCall \in [step : {"none", "read", "write", "warn", "fall back"}, read : Nat]
      BY DEF LoaderInit, NoCall
    <2> QED BY <2>1 DEF CountInv, NoCall
  <1>2. CountInv /\ [GrammarNext \/ FunctionNext]_schema => CountInv'
    <2> SUFFICES ASSUME CountInv, [GrammarNext \/ FunctionNext]_schema PROVE CountInv'
      OBVIOUS
    <2>1. CASE UNCHANGED callVars
      BY <2>1 DEF CountInv, callVars
    <2>2. ASSUME NEW t \in Thread, Local(t) PROVE CountInv'
      <3>1. PICK next \in {"read", "none"} : call' = [call EXCEPT ![t].step = next]
        BY <2>2 DEF Local
      <3>2. state' = state /\ fellBack' = fellBack
        BY <2>2 DEF Local
      <3> QED BY <3>1, <3>2 DEF CountInv
    <2>3. ASSUME NEW t \in Thread, ReadCount(t) PROVE CountInv'
      BY <2>3 DEF CountInv, ReadCount
    <2>4. ASSUME NEW t \in Thread, WriteCount(t) PROVE CountInv'
      <3>1. call' = [call EXCEPT ![t].step = "warn"] /\ fellBack' = fellBack
        BY <2>4 DEF WriteCount
      <3>2. state' = [state EXCEPT !.count = call[t].read + 1]
        BY <2>4 DEF WriteCount
      <3>3. call[t].read + 1 \in Nat /\ call[t].read + 1 > 0
        <4>1. call[t] \in [step : {"none", "read", "write", "warn", "fall back"}, read : Nat]
          BY DEF CountInv
        <4>2. call[t].read \in Nat
          BY <4>1
        <4> QED BY <4>2
      <3>4. state' \in [warned : BOOLEAN, count : Nat] /\ state'.count > 0 /\ state'.warned = state.warned
        BY <3>2, <3>3 DEF CountInv
      <3> QED BY <3>1, <3>4 DEF CountInv
    <2>5. ASSUME NEW t \in Thread, Warn(t) PROVE CountInv'
      BY <2>5 DEF CountInv, Warn
    <2>6. ASSUME NEW t \in Thread, FallBack(t) PROVE CountInv'
      BY <2>6 DEF CountInv, FallBack, MayFallBack, NoCall
    <2>7. CASE GrammarNext
      BY <2>1, <2>7 DEF GrammarNext, LoadRefused, Hit, Miss, Compile, Insert
    <2>8. CASE FunctionNext
      BY <2>2, <2>3, <2>4, <2>5, <2>6, <2>8 DEF FunctionNext
    <2>9. CASE UNCHANGED schema
      BY <2>1, <2>9 DEF schema
    <2> QED BY <2>7, <2>8, <2>9
  <1>3. CountInv => CountShowsFailure
    BY DEF CountInv, CountShowsFailure
  <1> QED BY <1>1, <1>2, <1>3, PTL DEF LoaderSpec

-----------------------------------------------------------------------------
(* Runs of mutate.py. *)

Active == {"runs", "again", "clean", "judged"}
Phases == {"p1", "p2"}
BeforePhases == {"provenance", "control", "controlled"}
AfterPhases  == {"write", "compare", "idle"}

\* What a job of the plan is.
GoodJob(j, o) ==
  /\ j.module \in Module /\ j.at \in DOMAIN Source[j.module]
  /\ j.kind = Source[j.module][j.at].kind /\ j.old = Source[j.module][j.at].token
  /\ j.new # j.old
  /\ \E t \in ResolveModules(o) : t.path = j.module

Shape(m) == DOMAIN m = {"step", "status", "in", "read", "names"}

\* What is where: the main thread, the copies, and the jobs.
MutationType ==
  /\ command.step \in BeforePhases \union Phases \union AfterPhases
  /\ DOMAIN command = {"step", "options", "run", "code", "clean", "wrote"}
  /\ command.run \in Nat /\ Workdir \in Dir
  /\ DOMAIN control = {"left", "now", "read", "failed"}
  /\ DOMAIN copies = Dir
  /\ \A d \in Dir : DOMAIN copies[d] = Copy /\ \A w \in Copy : DOMAIN copies[d][w] = Module
  /\ DOMAIN control.read = Module
  /\ idle \subseteq Copy
  /\ IsFiniteSet(Jobs)
  /\ \A j \in Jobs :
       /\ GoodJob(j, command.options) /\ Shape(mutants[j])
       /\ mutants[j].step \in Active \union {"todo", "done"} /\ mutants[j].in \in Copy
  /\ baseline # NoBaseline => \A m \in DOMAIN baseline : IsFiniteSet(baseline[m])

\* One thread to a copy.
Exclusive ==
  /\ command.step \in BeforePhases => idle = Copy /\ \A j \in Jobs : mutants[j].step = "todo"
  /\ command.step \in Phases =>
       /\ \A j \in Jobs : mutants[j].step \in Active => mutants[j].in \notin idle
       /\ \A i, j \in Jobs :
            mutants[i].step \in Active /\ mutants[j].step \in Active /\ mutants[i].in = mutants[j].in => i = j

\* An integer literal that gains 1 is another integer.
LEMMA NextInteger == \A token \in (1 - IntLimit)..(IntLimit - 1) : token + 1 # token
BY SMTT(30) DEF IntLimit

\* A node that is swapped holds another token than before.
LEMMA Swapped ==
  ASSUME NEW n, n.kind \in Kinds, NEW new \in Swaps(n)
  PROVE  new # n.token
<1>1. CASE n.kind = "cmp"
  <2>1. \A o \in Opposites : o[1] # o[2]
    <3>1. SUFFICES ASSUME NEW o \in Opposites PROVE o[1] # o[2]
      OBVIOUS
    <3>2. \/ o = <<"<", "<=">> \/ o = <<">", ">=">> \/ o = <<"==", "!=">>
          \/ o = <<"is", "is not">> \/ o = <<"in", "not in">>
      BY Zenon DEF Opposites
    <3>3. CASE o = <<"<", "<=">>     BY <3>3
    <3>4. CASE o = <<">", ">=">>     BY <3>4
    <3>5. CASE o = <<"==", "!=">>    BY <3>5
    <3>6. CASE o = <<"is", "is not">> BY <3>6
    <3>7. CASE o = <<"in", "not in">> BY <3>7
    <3> QED BY <3>2, <3>3, <3>4, <3>5, <3>6, <3>7
  <2>2. \E o \in Opposites : (o[1] = new /\ o[2] = n.token) \/ (o[2] = new /\ o[1] = n.token)
    BY <1>1 DEF Swaps
  <2> QED BY <2>1, <2>2
<1>2. CASE n.kind = "bool"
  BY <1>2 DEF Swaps
<1>3. CASE n.kind = "const"
  BY <1>3 DEF Swaps
<1>4. CASE n.kind = "int"
  <2>1. \E token \in (1 - IntLimit)..(IntLimit - 1) : token = n.token /\ new = token + 1
    BY <1>4 DEF Swaps
  <2>2. PICK token \in (1 - IntLimit)..(IntLimit - 1) : token = n.token /\ new = token + 1
    BY <2>1
  <2>3. token + 1 # token
    BY NextInteger
  <2> QED BY <2>2, <2>3
<1> QED BY <1>1, <1>2, <1>3, <1>4 DEF Kinds

\* Every mutant of the plan is one node of one module, with a token that is not its own.
LEMMA PlanIsGood ==
  ASSUME NEW o, ~ Unresolved(o), NEW j \in Plan(o)
  PROVE  GoodJob(j, o)
<1>1. PICK t \in ResolveModules(o) : j \in Collect(t.path, t.skip)
  BY DEF Plan
<1>2. t \in Target
  BY <1>1 DEF ResolveModules, Hits
<1> DEFINE m == t.path
<1>3. m \in Module
  BY <1>2 DEF Module
<1> DEFINE Made(p, new) ==
      [module |-> m, at |-> p, kind |-> Source[m][p].kind, old |-> Source[m][p].token, new |-> new,
       expr |-> Source[m][p].expr]
<1>4. \E p \in DOMAIN Source[m] : \E new \in Swaps(Source[m][p]) : j = Made(p, new)
  BY <1>1 DEF Collect
<1>5. PICK p \in DOMAIN Source[m] : \E new \in Swaps(Source[m][p]) : j = Made(p, new)
  BY <1>4
<1>6. PICK new \in Swaps(Source[m][p]) : j = Made(p, new)
  BY <1>5
<1>7. Source[m][p].kind \in Kinds
  BY <1>3, <1>6, MutationAssumption
<1>8. new # Source[m][p].token
  BY <1>6, <1>7, Swapped
<1> QED BY <1>1, <1>3, <1>6, <1>8 DEF GoodJob

\* The shapes stand when the tool starts.
LEMMA MutationTypeInit == MutationInit => MutationType /\ Exclusive
<1> SUFFICES ASSUME MutationInit PROVE MutationType /\ Exclusive
  OBVIOUS
<1>1. Workdir \in Dir
  BY DEF MutationInit, NoOptions, Workdir, Dir
<1>2. DOMAIN control.read = Module
  BY MutationAssumption DEF MutationInit, Originals
<1>3. IsFiniteSet(Jobs) /\ Jobs = {}
  BY FS_EmptySet DEF MutationInit, Jobs
<1>4. baseline # NoBaseline => \A m \in DOMAIN baseline : IsFiniteSet(baseline[m])
  BY MutationAssumption DEF MutationInit
<1>5. DOMAIN copies = Dir /\ \A d \in Dir : DOMAIN copies[d] = Copy /\ \A w \in Copy : DOMAIN copies[d][w] = Module
  BY DEF MutationInit, Originals
<1>6. MutationType
  BY <1>1, <1>2, <1>3, <1>4, <1>5 DEF MutationInit, MutationType, AfterPhases
<1>7. Exclusive
  BY DEF MutationInit, Exclusive, Phases, BeforePhases
<1> QED BY <1>6, <1>7

\* What the main thread changes of itself alone.
MainOnly == UNCHANGED <<control, mutants, copies, idle>> /\ command'.options = command.options

\* The steps of the main thread leave the shapes and the copies alone.
LEMMA MainKeepsType ==
  ASSUME MutationType, Exclusive,
         AssertProvenance \/ ControlGate \/ EndPhase2 \/ WriteBaseline \/ CompareBaseline \/ Kill
  PROVE  MutationType' /\ Exclusive'
<1>1. MainOnly /\ command'.step \in BeforePhases \union Phases \union AfterPhases /\ command'.run = command.run
      /\ DOMAIN command' = DOMAIN command
  BY DEF AssertProvenance, ControlGate, EndPhase2, WriteBaseline, CompareBaseline, Kill, Leave, Reach,
         MainOnly, BeforePhases, Phases, AfterPhases, MutationType
<1>2. baseline' # NoBaseline => \A m \in DOMAIN baseline' : IsFiniteSet(baseline'[m])
  <2>1. CASE UNCHANGED baseline
    BY <2>1 DEF MutationType
  <2>2. CASE baseline' = [m \in {t.path : t \in ResolveModules(command.options)} |-> SurvivorsOf(m)]
    <3>1. \A m : SurvivorsOf(m) \in SUBSET Jobs
      BY DEF SurvivorsOf, Survivors
    <3>2. \A m : IsFiniteSet(SurvivorsOf(m))
      BY <3>1, FS_Subset DEF MutationType
    <3> QED BY <2>2, <3>2
  <2>3. CASE WriteBaseline
    BY <2>1, <2>2, <2>3 DEF WriteBaseline
  <2> QED BY <2>1, <2>3 DEF AssertProvenance, ControlGate, EndPhase2, CompareBaseline, Kill
<1>3. Jobs' = Jobs /\ Workdir' = Workdir
  BY <1>1 DEF MainOnly, Jobs, Workdir
<1>4. MutationType'
  BY <1>1, <1>2, <1>3 DEF MutationType, MainOnly
<1>5. CASE AssertProvenance \/ ControlGate
  BY <1>1, <1>3, <1>4, <1>5 DEF AssertProvenance, ControlGate, Leave, Reach, MainOnly, Exclusive, BeforePhases, Phases, Active, MutationType
<1>6. CASE EndPhase2 \/ WriteBaseline \/ CompareBaseline \/ Kill
  <2>1. command'.step \in AfterPhases
    BY <1>6 DEF EndPhase2, WriteBaseline, CompareBaseline, Kill, Leave, Reach, AfterPhases, MutationType
  <2> QED BY <1>4, <2>1 DEF Exclusive, AfterPhases, BeforePhases, Phases
<1> QED BY <1>5, <1>6

\* Starting, or refusing to start, leaves every copy idle.
LEMMA StartKeepsType ==
  ASSUME MutationType, Exclusive, NEW o \in Options(command.run + 1), Decline(o) \/ Begin(o)
  PROVE  MutationType' /\ Exclusive'
<1>1. command.run + 1 \in 1..MaxRuns /\ MaxRuns \in Nat
  BY MutationAssumption DEF MutationType, Decline, Begin
<1>2. o.workdir \in Dir /\ IsFiniteSet(Plan(o))
  BY <1>1, MutationAssumption, PlanIsFinite
<1>3. CASE Decline(o)
  <2>1. Jobs' = {} /\ IsFiniteSet(Jobs') /\ command'.step = "idle" /\ Workdir' \in Dir
    BY <1>2, <1>3, FS_EmptySet DEF Decline, Jobs, Workdir, MutationType
  <2>2. MutationType'
    BY <1>3, <2>1 DEF MutationType, Decline
  <2>3. Exclusive'
    BY <2>1 DEF Exclusive, BeforePhases, Phases
  <2> QED BY <2>2, <2>3
<1>4. CASE Begin(o)
  <2>1. Jobs' = Plan(o) /\ command'.step = "provenance" /\ Workdir' = o.workdir /\ command'.options = o
    BY <1>4 DEF Begin, Jobs, Workdir, MutationType
  <2>2. \A j \in Plan(o) : GoodJob(j, o)
    <3>1. ~ Unresolved(o)
      BY <1>4 DEF Begin
    <3> QED BY <3>1, PlanIsGood
  <2>3. \A j \in Jobs' : mutants'[j] = NotStarted(j)
    BY <1>4, <2>1 DEF Begin
  <2>4. DOMAIN copies' = Dir /\ \A d \in Dir : DOMAIN copies'[d] = Copy /\ \A w \in Copy : DOMAIN copies'[d][w] = Module
    BY <1>4 DEF Begin, MutationType, Originals, Dir
  <2>7. \A j \in Jobs' :
          /\ GoodJob(j, command'.options) /\ Shape(mutants'[j])
          /\ mutants'[j].step \in Active \union {"todo", "done"} /\ mutants'[j].in \in Copy
    <3>1. \A j : Shape(NotStarted(j)) /\ NotStarted(j).step = "todo" /\ NotStarted(j).in \in Copy
      BY MutationAssumption DEF NotStarted, Shape
    <3> QED BY <2>1, <2>2, <2>3, <3>1
  <2>8. DOMAIN command' = DOMAIN command /\ command'.run \in Nat /\ DOMAIN control' = DOMAIN control
        /\ control'.read = control.read /\ idle' = Copy /\ baseline' = baseline
    BY <1>4 DEF MutationType, Begin
  <2>5. MutationType'
    BY <1>2, <2>1, <2>4, <2>7, <2>8 DEF MutationType, BeforePhases
  <2>6. Exclusive'
    BY <1>4, <2>1, <2>3 DEF Exclusive, Begin, BeforePhases, Phases, NotStarted
  <2> QED BY <2>5, <2>6
<1> QED BY <1>3, <1>4

\* So do the baseline suite and the control of phase 1.
LEMMA ControlKeepsType ==
  ASSUME MutationType, Exclusive, ControlEnds \/ \E c \in control.left : ControlBegins(c)
  PROVE  MutationType' /\ Exclusive'
<1>1. UNCHANGED <<mutants, idle, baseline>> /\ command.step \in BeforePhases /\ command'.step \in BeforePhases
      /\ command'.run = command.run /\ command'.options = command.options /\ DOMAIN command' = DOMAIN command
  BY DEF ControlEnds, ControlBegins, Reach, MutationType, BeforePhases
<1>2. Jobs' = Jobs /\ Workdir' = Workdir
  BY <1>1 DEF Jobs, Workdir
<1>3. /\ DOMAIN control' = DOMAIN control /\ DOMAIN control'.read = Module
      /\ DOMAIN copies' = Dir /\ \A d \in Dir : DOMAIN copies'[d] = Copy /\ \A w \in Copy : DOMAIN copies'[d][w] = Module
  <2>0. DOMAIN copies = Dir /\ Workdir \in Dir /\ First \in Copy
    BY MutationAssumption DEF MutationType
  <2>1. CASE ControlEnds
    <3>1. PICK failed : control' = [control EXCEPT !.failed = failed]
      BY <2>1 DEF ControlEnds
    <3>2. copies' = [copies EXCEPT ![Workdir][First] = control.read]
      BY <2>1 DEF ControlEnds
    <3> QED BY <2>0, <3>1, <3>2 DEF MutationType
  <2>2. CASE \E c \in control.left : ControlBegins(c)
    <3>1. PICK c \in control.left : ControlBegins(c)
      BY <2>2
    <3> DEFINE t == [m \in Module |-> IF m \in c.of THEN Unparse(copies[Workdir][First][m]) ELSE copies[Workdir][First][m]]
    <3>2. copies' = [copies EXCEPT ![Workdir][First] = t]
      BY <2>0, <3>1 DEF ControlBegins, MutationType
    <3>3. DOMAIN t = Module
      OBVIOUS
    <3> HIDE DEF t
    <3>4. DOMAIN control' = DOMAIN control /\ DOMAIN control'.read = Module
      BY <2>0, <3>1 DEF MutationType, ControlBegins
    <3> QED BY <2>0, <3>2, <3>3, <3>4 DEF MutationType
  <2> QED BY <2>1, <2>2
<1>6. MutationType'
  BY <1>1, <1>2, <1>3 DEF MutationType
<1>7. Exclusive'
  BY <1>1, <1>2 DEF Exclusive, BeforePhases, Phases
<1> QED BY <1>6, <1>7

\* What a step of a thread changes: its job, one module of its copy, and whether it holds one.
OfThread(j) ==
  /\ command.step \in Phases /\ UNCHANGED <<command, control, baseline, harness, timedOut>>
  /\ Jobs' = Jobs /\ \A i \in Jobs : i # j => mutants'[i] = mutants[i]
  /\ Shape(mutants'[j]) /\ mutants'[j].in \in Copy
  /\ copies' = copies \/ \E t : copies' = [copies EXCEPT ![Workdir][mutants'[j].in][j.module] = t]

TakesCopy(j) ==
  /\ mutants[j].step = "todo" /\ mutants'[j].step \in {"runs", "judged"}
  /\ mutants'[j].in \in idle /\ idle' = idle \ {mutants'[j].in}
KeepsCopy(j) ==
  /\ mutants[j].step \in Active /\ mutants'[j].step \in Active
  /\ mutants'[j].in = mutants[j].in /\ idle' = idle
GivesBack(j) ==
  /\ mutants[j].step = "judged" /\ mutants'[j].step = "done"
  /\ mutants'[j].in = mutants[j].in /\ idle' = idle \union {mutants[j].in}

\* What a step of one thread may change: its own mutant and the copy it holds.
LEMMA Threads ==
  ASSUME MutationType, NEW j \in Jobs
  PROVE  /\ \A w \in Copy : Take(j, w) => OfThread(j) /\ TakesCopy(j)
         /\ Run(j) \/ RunAgain(j) \/ RunClean(j) => OfThread(j) /\ KeepsCopy(j)
         /\ Release(j) => OfThread(j) /\ GivesBack(j)
<1> USE DEF Jobs
<1>0. Shape(mutants[j]) /\ mutants[j].in \in Copy
  BY DEF MutationType
<1>1. ASSUME NEW w \in Copy, Take(j, w)
      PROVE  OfThread(j) /\ TakesCopy(j)
  <2> DEFINE t == copies[Workdir][w][j.module]
  <2>1. CASE NodesAt(t, j) = {}
    <3>1. mutants' = [mutants EXCEPT ![j] = [mutants[j] EXCEPT !.in = w, !.read = t, !.step = "judged", !.status = "NOT_APPLIED"]]
      BY <1>1, <2>1 DEF Take
    <3>2. copies' = copies
      BY <1>1, <2>1 DEF Take
    <3> QED BY <1>0, <1>1, <3>1, <3>2 DEF Take, OfThread, TakesCopy, Step, Shape, Phases
  <2>2. CASE NodesAt(t, j) # {}
    <3>1. mutants' = [mutants EXCEPT ![j] = [mutants[j] EXCEPT !.in = w, !.read = t, !.step = "runs"]]
      BY <1>1, <2>2 DEF Take
    <3>2. copies' = [copies EXCEPT ![Workdir][mutants'[j].in][j.module] = ApplyMutation(t, j)]
      BY <1>1, <2>2 DEF Take, Write
    <3> QED BY <1>0, <1>1, <3>1, <3>2 DEF Take, OfThread, TakesCopy, Step, Shape, Phases
  <2> QED BY <2>1, <2>2
<1>2. ASSUME Run(j) PROVE OfThread(j) /\ KeepsCopy(j)
  <2>1. \/ \E status : mutants' = [mutants EXCEPT ![j].step = "judged", ![j].status = status]
        \/ \E names : mutants' = [mutants EXCEPT ![j].step = "again", ![j].names = names]
    BY <1>2 DEF Run, Judge
  <2>2. copies' = copies /\ idle' = idle /\ Step(j, "runs") /\ UNCHANGED <<command, control, baseline, harness, timedOut>>
    BY <1>2 DEF Run
  <2> QED BY <1>0, <2>1, <2>2 DEF OfThread, KeepsCopy, Step, Shape, Phases, Active
<1>3. ASSUME RunAgain(j) PROVE OfThread(j) /\ KeepsCopy(j)
  <2>1. \/ \E status : mutants' = [mutants EXCEPT ![j].step = "judged", ![j].status = status] /\ copies' = copies
        \/ /\ mutants' = [mutants EXCEPT ![j].step = "clean"]
           /\ copies' = [copies EXCEPT ![Workdir][mutants'[j].in][j.module] = mutants[j].read]
    BY <1>3 DEF RunAgain, Judge, Write
  <2>2. idle' = idle /\ Step(j, "again") /\ UNCHANGED <<command, control, baseline, harness, timedOut>>
    BY <1>3 DEF RunAgain
  <2> QED BY <1>0, <2>1, <2>2 DEF OfThread, KeepsCopy, Step, Shape, Phases, Active
<1>4. ASSUME RunClean(j) PROVE OfThread(j) /\ KeepsCopy(j)
  <2>1. /\ \E status : mutants' = [mutants EXCEPT ![j].step = "judged", ![j].status = status]
        /\ copies' = [copies EXCEPT ![Workdir][mutants'[j].in][j.module] = ApplyMutation(mutants[j].read, j)]
    BY <1>4 DEF RunClean, Judge, Write
  <2>2. idle' = idle /\ Step(j, "clean") /\ UNCHANGED <<command, control, baseline, harness, timedOut>>
    BY <1>4 DEF RunClean
  <2> QED BY <1>0, <2>1, <2>2 DEF OfThread, KeepsCopy, Step, Shape, Phases, Active
<1>5. ASSUME Release(j) PROVE OfThread(j) /\ GivesBack(j)
  <2>1. /\ mutants' = [mutants EXCEPT ![j].step = "done"]
        /\ copies' = [copies EXCEPT ![Workdir][mutants'[j].in][j.module] = mutants[j].read]
    BY <1>5 DEF Release, Write
  <2>2. idle' = idle \union {mutants[j].in} /\ Step(j, "judged")
        /\ UNCHANGED <<command, control, baseline, harness, timedOut>>
    BY <1>5 DEF Release
  <2> QED BY <1>0, <2>1, <2>2 DEF OfThread, GivesBack, Step, Shape, Phases
<1> QED BY <1>1, <1>2, <1>3, <1>4, <1>5

\* A step of a thread keeps the shapes, and no two threads come to hold one copy.
LEMMA ThreadKeepsType ==
  ASSUME MutationType, Exclusive, NEW j \in Jobs, OfThread(j), TakesCopy(j) \/ KeepsCopy(j) \/ GivesBack(j)
  PROVE  MutationType' /\ Exclusive'
<1>1. Workdir' = Workdir /\ Workdir \in Dir /\ j.module \in Module
  BY DEF OfThread, Workdir, MutationType, GoodJob
<1>2. DOMAIN copies' = Dir /\ \A d \in Dir : DOMAIN copies'[d] = Copy /\ \A w \in Copy : DOMAIN copies'[d][w] = Module
  <2>1. CASE copies' = copies
    BY <2>1 DEF MutationType
  <2>2. ASSUME NEW t, copies' = [copies EXCEPT ![Workdir][mutants'[j].in][j.module] = t]
        PROVE  DOMAIN copies' = Dir /\ \A d \in Dir : DOMAIN copies'[d] = Copy /\ \A w \in Copy : DOMAIN copies'[d][w] = Module
    BY <1>1, <2>2 DEF MutationType
  <2> QED BY <2>1, <2>2 DEF OfThread
<1>3. idle' \subseteq Copy /\ mutants'[j].step \in Active \union {"todo", "done"}
  BY DEF MutationType, TakesCopy, KeepsCopy, GivesBack, Active
<1>4. MutationType'
  BY <1>1, <1>2, <1>3 DEF OfThread, MutationType
<1>5. Exclusive'
  BY <1>1 DEF Exclusive, OfThread, TakesCopy, KeepsCopy, GivesBack, Active, BeforePhases, Phases, MutationType
<1> QED BY <1>4, <1>5

\* Phase 1 ends when no mutant is active, so every copy is idle again.
LEMMA Phase1KeepsType ==
  ASSUME MutationType, Exclusive, EndPhase1
  PROVE  MutationType' /\ Exclusive'
<1>1. UNCHANGED <<control, copies, idle, baseline>> /\ command'.options = command.options
      /\ command'.step \in {"p2", "write"} /\ command'.run = command.run /\ DOMAIN command' = DOMAIN command
  BY DEF EndPhase1, Reach, MutationType
<1>2. Jobs' = Jobs /\ Workdir' = Workdir
  BY <1>1 DEF Jobs, Workdir, EndPhase1
<1>3. \A j \in Jobs : Shape(mutants'[j]) /\ mutants'[j].step \in {"todo", "done"} /\ mutants'[j].in = mutants[j].in
  BY DEF EndPhase1, MutationType, Shape, AllDone
<1>4. MutationType'
  BY <1>1, <1>2, <1>3 DEF MutationType, Phases, AfterPhases
<1>5. Exclusive'
  BY <1>1, <1>2, <1>3 DEF Exclusive, Active, BeforePhases
<1> QED BY <1>4, <1>5

\* The shapes and the one thread to a copy hold at every step.
LEMMA MutationTypeNext == MutationType /\ Exclusive /\ [MutationNext]_mutation => MutationType' /\ Exclusive'
<1> SUFFICES ASSUME MutationType, Exclusive, [MutationNext]_mutation PROVE MutationType' /\ Exclusive'
  OBVIOUS
<1>1. CASE AssertProvenance \/ ControlGate \/ EndPhase2 \/ WriteBaseline \/ CompareBaseline \/ Kill
  BY <1>1, MainKeepsType
<1>2. ASSUME NEW o \in Options(command.run + 1), Decline(o) \/ Begin(o) PROVE MutationType' /\ Exclusive'
  BY <1>2, StartKeepsType
<1>3. CASE ControlEnds \/ \E c \in control.left : ControlBegins(c)
  BY <1>3, ControlKeepsType
<1>4. ASSUME NEW j \in Jobs, (\E w \in Copy : Take(j, w)) \/ Run(j) \/ RunAgain(j) \/ RunClean(j) \/ Release(j)
      PROVE  MutationType' /\ Exclusive'
  <2>1. OfThread(j) /\ (TakesCopy(j) \/ KeepsCopy(j) \/ GivesBack(j))
    BY <1>4, Threads
  <2> QED BY <2>1, ThreadKeepsType
<1>5. CASE EndPhase1
  BY <1>5, Phase1KeepsType
<1>6. CASE UNCHANGED mutation
  BY <1>6 DEF mutation, MutationType, Exclusive, Jobs, Workdir
<1> QED BY <1>1, <1>2, <1>3, <1>4, <1>5, <1>6 DEF MutationNext

-----------------------------------------------------------------------------
IsOriginal(copy) == \A m \in Module : copy[m] = Original(m)

\* What a thread that holds a copy finds in it.
HoldsItsMutant(j) ==
  /\ mutants[j].read = Original(j.module)
  /\ \A m \in Module : m # j.module => In(j)[m] = Original(m)
  /\ mutants[j].step \in {"runs", "again"} => In(j)[j.module] = ApplyMutation(Original(j.module), j)
  /\ mutants[j].step = "clean" => In(j)[j.module] = Original(j.module)

\* What is in the copies of a run that began on the repository.
CopiesOfRun ==
  command.clean =>
    /\ command.step \in {"provenance", "control"} => \A w \in Copy : IsOriginal(copies[Workdir][w])
    /\ command.step = "controlled" =>
         IsOriginal(control.read) /\ \A w \in Copy : w # First => IsOriginal(copies[Workdir][w])
    /\ command.step \in Phases =>
         /\ \A w \in idle : IsOriginal(copies[Workdir][w])
         /\ \A j \in Jobs : mutants[j].step \in Active => HoldsItsMutant(j)

\* The original text of a module has the nodes of its source.
LEMMA OriginalNodes == \A m : Original(m).nodes = Source[m]
BY DEF Original

\* The node a mutant describes is found in the original text at the place it names, and nowhere else.
LEMMA OneNodeAt ==
  ASSUME NEW j, j.module \in Module, j.at \in DOMAIN Source[j.module],
         j.kind = Source[j.module][j.at].kind, j.old = Source[j.module][j.at].token
  PROVE  NodesAt(Original(j.module), j) = {j.at}
BY DEF NodesAt, Original

\* What `Changed` lists: the nodes of a copy that are not those of the source.
LEMMA ChangedWhere ==
  ASSUME NEW copy, NEW x
  PROVE  x \in Changed(copy) <=>
           \E m \in Module : \E p \in DOMAIN Source[m] : copy[m].nodes[p] # Source[m][p] /\ x = <<m, p>>
<1> DEFINE Here(m) == {<<m, p>> : p \in {p \in DOMAIN Source[m] : copy[m].nodes[p] # Source[m][p]}}
<1>1. Changed(copy) = UNION {Here(m) : m \in Module}
  BY DEF Changed
<1>2. \A m : x \in Here(m) <=> \E p \in DOMAIN Source[m] : copy[m].nodes[p] # Source[m][p] /\ x = <<m, p>>
  OBVIOUS
<1> HIDE DEF Here
<1>3. x \in Changed(copy) <=> \E m \in Module : x \in Here(m)
  BY <1>1
<1> QED BY <1>2, <1>3

\* A copy with one mutant applied differs from the repository at its place and no other.
LEMMA OneNodeChanged ==
  ASSUME NEW j, NEW o, GoodJob(j, o), NEW copy,
         \A m \in Module : m # j.module => copy[m] = Original(m),
         copy[j.module] = ApplyMutation(Original(j.module), j)
  PROVE  Changed(copy) = {<<j.module, j.at>>}
<1> DEFINE m == j.module
           node == Source[m][j.at]
           swapped == [node EXCEPT !.token = j.new]
<1>1. /\ m \in Module /\ j.at \in DOMAIN Source[m] /\ j.new # node.token
      /\ NodesAt(Original(m), j) = {j.at}
  BY OneNodeAt DEF GoodJob
<1>2. "token" \in DOMAIN node
  BY <1>1, MutationAssumption
<1>3. \A p \in DOMAIN Source[m] :
        copy[m].nodes[p] = IF p = j.at THEN [Source[m][p] EXCEPT !.token = j.new] ELSE Source[m][p]
  <2>1. Original(m).nodes = Source[m]
    BY OriginalNodes
  <2>2. ApplyMutation(Original(m), j).nodes =
          [p \in DOMAIN Original(m).nodes |->
             IF p \in NodesAt(Original(m), j) THEN [Original(m).nodes[p] EXCEPT !.token = j.new] ELSE Original(m).nodes[p]]
    BY DEF ApplyMutation
  <2>3. ApplyMutation(Original(m), j).nodes =
          [p \in DOMAIN Source[m] |-> IF p = j.at THEN [Source[m][p] EXCEPT !.token = j.new] ELSE Source[m][p]]
    BY <1>1, <2>1, <2>2
  <2> QED BY <2>3
<1>4. swapped # node
  <2>1. swapped.token = j.new
    BY <1>2
  <2> QED BY <1>1, <2>1
<1>5. \A p \in DOMAIN Source[m] : copy[m].nodes[p] # Source[m][p] <=> p = j.at
  <2>1. copy[m].nodes[j.at] = swapped
    BY <1>1, <1>3
  <2>2. \A p \in DOMAIN Source[m] : p # j.at => copy[m].nodes[p] = Source[m][p]
    BY <1>3
  <2>3. copy[m].nodes[j.at] # Source[m][j.at]
    BY <1>4, <2>1
  <2> QED BY <2>2, <2>3
<1>6. \A n \in Module : n # m => \A p \in DOMAIN Source[n] : copy[n].nodes[p] = Source[n][p]
  BY OriginalNodes
<1> HIDE DEF m
<1>7. ASSUME NEW x \in Changed(copy) PROVE x = <<m, j.at>>
  <2>1. PICK n \in Module : \E p \in DOMAIN Source[n] : copy[n].nodes[p] # Source[n][p] /\ x = <<n, p>>
    BY <1>7, ChangedWhere
  <2>2. PICK p \in DOMAIN Source[n] : copy[n].nodes[p] # Source[n][p] /\ x = <<n, p>>
    BY <2>1
  <2>3. n = m
    BY <1>6, <2>2
  <2> QED BY <1>5, <2>2, <2>3
<1>8. <<m, j.at>> \in Changed(copy)
  <2>1. copy[m].nodes[j.at] # Source[m][j.at]
    BY <1>1, <1>5
  <2> QED BY <1>1, <2>1, ChangedWhere
<1> QED BY <1>7, <1>8 DEF m

\* A copy of original texts differs from the repository nowhere.
LEMMA NothingChanged ==
  ASSUME NEW copy, IsOriginal(copy) PROVE Changed(copy) = {}
<1> SUFFICES ASSUME NEW x \in Changed(copy) PROVE FALSE
  OBVIOUS
<1>1. PICK m \in Module : \E p \in DOMAIN Source[m] : copy[m].nodes[p] # Source[m][p] /\ x = <<m, p>>
  BY ChangedWhere
<1>2. copy[m].nodes = Source[m]
  BY OriginalNodes DEF IsOriginal
<1> QED BY <1>1, <1>2

\* What is on disk of each copy says that a thread tests its own mutant.
LEMMA OwnMutant == MutationType /\ CopiesOfRun => OwnMutantOnly
<1> SUFFICES ASSUME MutationType, CopiesOfRun, command.clean, NEW j \in Jobs, command.step \in Phases
             PROVE  /\ mutants[j].step \in {"runs", "again"} => Changed(In(j)) = {<<j.module, j.at>>}
                    /\ mutants[j].step = "clean" => Changed(In(j)) = {}
  BY DEF OwnMutantOnly, Step, Phases
<1>0. GoodJob(j, command.options)
  BY DEF MutationType
<1>1. CASE mutants[j].step \in {"runs", "again"}
  <2>1. /\ \A m \in Module : m # j.module => In(j)[m] = Original(m)
        /\ In(j)[j.module] = ApplyMutation(Original(j.module), j)
    BY <1>1 DEF CopiesOfRun, HoldsItsMutant, Active
  <2>2. Changed(In(j)) = {<<j.module, j.at>>}
    BY <1>0, <2>1, OneNodeChanged
  <2> QED BY <1>1, <2>2
<1>2. CASE mutants[j].step = "clean"
  <2>1. IsOriginal(In(j))
    BY <1>2 DEF CopiesOfRun, HoldsItsMutant, Active, IsOriginal
  <2> QED BY <1>2, <2>1, NothingChanged
<1> QED BY <1>1, <1>2


\* Every copy starts as the repository.
LEMMA CopiesInit == MutationInit => CopiesOfRun
BY DEF MutationInit, CopiesOfRun, Phases

\* The steps of the main thread leave every copy as it is.
LEMMA CopiesMain ==
  ASSUME MutationType, Exclusive, CopiesOfRun,
         AssertProvenance \/ ControlGate \/ EndPhase2 \/ WriteBaseline \/ CompareBaseline \/ Kill
  PROVE  CopiesOfRun'
<1>1. MainOnly /\ command'.clean = command.clean
  BY DEF AssertProvenance, ControlGate, EndPhase2, WriteBaseline, CompareBaseline, Kill, Leave, Reach, MainOnly, MutationType
<1>2. Workdir' = Workdir /\ Jobs' = Jobs
  BY <1>1 DEF MainOnly, Workdir, Jobs
<1>3. CASE EndPhase2 \/ WriteBaseline \/ CompareBaseline \/ Kill
  <2>1. command'.step \in AfterPhases
    BY <1>3 DEF EndPhase2, WriteBaseline, CompareBaseline, Kill, Leave, Reach, AfterPhases, MutationType
  <2> QED BY <2>1 DEF CopiesOfRun, AfterPhases, Phases
<1>4. CASE AssertProvenance
  <2>1. command.step = "provenance" /\ command'.step \in {"control", "idle"}
    BY <1>4 DEF AssertProvenance, Leave, Reach, MutationType
  <2> QED BY <1>1, <1>2, <2>1 DEF CopiesOfRun, MainOnly, Phases
<1>5. CASE ControlGate
  <2>1. command.step = "control" /\ command'.step \in {"p1", "idle"}
    BY <1>5 DEF ControlGate, Leave, Reach, MutationType
  <2>2. \A j \in Jobs : mutants'[j].step = "todo"
    BY <1>1, <2>1 DEF Exclusive, BeforePhases, MainOnly
  <2> QED BY <1>1, <1>2, <2>1, <2>2 DEF CopiesOfRun, MainOnly, MutationType, Active
<1> QED BY <1>3, <1>4, <1>5

\* A run whose `clean` is true begins with copies that are the repository.
LEMMA CopiesStart ==
  ASSUME MutationType, NEW o \in Options(command.run + 1), Decline(o) \/ Begin(o)
  PROVE  CopiesOfRun'
<1>1. CASE Decline(o)
  BY <1>1 DEF Decline, CopiesOfRun, MutationType, Phases
<1>2. CASE Begin(o)
  <2>1. command'.step = "provenance" /\ Workdir' = o.workdir /\ command'.clean = (copies'[o.workdir] = Originals)
    BY <1>2 DEF Begin, MutationType, Workdir
  <2>2. ASSUME command'.clean PROVE \A w \in Copy : IsOriginal(copies'[Workdir'][w])
    <3>1. copies'[Workdir'] = Originals
      <4>1. copies'[o.workdir] = Originals
        BY <2>1, <2>2, Zenon
      <4> QED BY <2>1, <4>1
    <3>2. \A w \in Copy : IsOriginal(Originals[w])
      BY DEF Originals, IsOriginal
    <3> QED BY <3>1, <3>2
  <2> QED BY <2>1, <2>2 DEF CopiesOfRun, Phases
<1> QED BY <1>1, <1>2

\* The control writes unparsed text and restores it.
LEMMA CopiesControl ==
  ASSUME MutationType, CopiesOfRun, ControlEnds \/ \E c \in control.left : ControlBegins(c)
  PROVE  CopiesOfRun'
<1>1. /\ command'.clean = command.clean /\ command'.options = command.options
      /\ DOMAIN copies = Dir /\ Workdir \in Dir /\ First \in Copy /\ DOMAIN copies[Workdir] = Copy
  BY MutationAssumption DEF ControlEnds, ControlBegins, Reach, MutationType
<1>2. Workdir' = Workdir
  BY <1>1 DEF Workdir
<1>3. CASE ControlEnds
  <2>1. PICK failed : control' = [control EXCEPT !.failed = failed]
    BY <1>3 DEF ControlEnds
  <2>2. copies' = [copies EXCEPT ![Workdir][First] = control.read]
    BY <1>3 DEF ControlEnds
  <2>3. command.step = "controlled" /\ command'.step = "control"
    BY <1>3 DEF ControlEnds, Reach, MutationType
  <2>4. \A w \in Copy : copies'[Workdir][w] = IF w = First THEN control.read ELSE copies[Workdir][w]
    BY <1>1, <2>2
  <2> QED BY <1>1, <1>2, <2>3, <2>4 DEF CopiesOfRun, Phases
<1>4. ASSUME NEW c \in control.left, ControlBegins(c)
      PROVE  CopiesOfRun'
  <2>1. control'.read = copies[Workdir][First]
    BY <1>4 DEF ControlBegins, MutationType
  <2>2. command.step = "control" /\ command'.step = "controlled"
    BY <1>4 DEF ControlBegins, Reach, MutationType
  <2>3. PICK t : copies' = [copies EXCEPT ![Workdir][First] = t]
    BY <1>4 DEF ControlBegins
  <2>4. \A w \in Copy : w # First => copies'[Workdir][w] = copies[Workdir][w]
    BY <1>1, <2>3
  <2> QED BY <1>1, <1>2, <2>1, <2>2, <2>4 DEF CopiesOfRun, Phases
<1> QED BY <1>3, <1>4

\* The other threads and the copies that nobody holds are left alone.
LEMMA CopiesThread ==
  ASSUME MutationType, Exclusive, CopiesOfRun, NEW j \in Jobs, OfThread(j), TakesCopy(j) \/ KeepsCopy(j) \/ GivesBack(j),
         command.clean /\ (TakesCopy(j) \/ KeepsCopy(j)) => HoldsItsMutant(j)',
         command.clean /\ GivesBack(j) => IsOriginal(copies'[Workdir][mutants[j].in])
  PROVE  CopiesOfRun'
<1> SUFFICES ASSUME command.clean PROVE CopiesOfRun'
  BY DEF CopiesOfRun, OfThread
<1>0. /\ command.step \in Phases /\ command' = command /\ Workdir' = Workdir /\ Jobs' = Jobs
      /\ DOMAIN copies = Dir /\ Workdir \in Dir /\ DOMAIN copies[Workdir] = Copy /\ idle \subseteq Copy
      /\ mutants'[j].in \in Copy
  BY DEF OfThread, Workdir, MutationType
<1>1. \A w \in Copy : w # mutants'[j].in => copies'[Workdir][w] = copies[Workdir][w]
  BY <1>0 DEF OfThread
<1>2. \A w \in idle' : IsOriginal(copies'[Workdir][w])
  <2>1. \A w \in idle : IsOriginal(copies[Workdir][w])
    BY <1>0 DEF CopiesOfRun
  <2>2. CASE TakesCopy(j)
    BY <1>0, <1>1, <2>1, <2>2 DEF TakesCopy
  <2>3. CASE KeepsCopy(j)
    BY <1>0, <1>1, <2>1, <2>3 DEF KeepsCopy, Exclusive
  <2>4. CASE GivesBack(j)
    BY <1>0, <1>1, <2>1, <2>4 DEF GivesBack
  <2> QED BY <2>2, <2>3, <2>4
<1>3. ASSUME NEW i \in Jobs, mutants'[i].step \in Active
      PROVE  HoldsItsMutant(i)'
  <2>1. CASE i = j
    BY <1>3, <2>1 DEF GivesBack, Active
  <2>2. CASE i # j
    <3>1. mutants'[i] = mutants[i] /\ mutants[i].in \in Copy
      BY <2>2 DEF OfThread, MutationType
    <3>2. mutants[i].in # mutants'[j].in
      BY <1>0, <1>3, <2>2, <3>1 DEF TakesCopy, KeepsCopy, GivesBack, Exclusive, Active
    <3>3. copies'[Workdir][mutants'[i].in] = copies[Workdir][mutants[i].in]
      BY <1>1, <3>1, <3>2
    <3>4. HoldsItsMutant(i)
      BY <1>0, <1>3, <3>1 DEF CopiesOfRun
    <3> QED BY <1>0, <3>1, <3>3, <3>4 DEF HoldsItsMutant, In
  <2> QED BY <2>1, <2>2
<1> QED BY <1>0, <1>2, <1>3 DEF CopiesOfRun, Phases

\* A thread writes its mutant to the copy it took, and restores it before it gives it back.
LEMMA CopiesThreads ==
  ASSUME MutationType, Exclusive, CopiesOfRun, NEW j \in Jobs,
         (\E w \in Copy : Take(j, w)) \/ Run(j) \/ RunAgain(j) \/ RunClean(j) \/ Release(j)
  PROVE  CopiesOfRun'
<1>0. /\ OfThread(j) /\ (TakesCopy(j) \/ KeepsCopy(j) \/ GivesBack(j)) /\ command.step \in Phases /\ Workdir' = Workdir
      /\ DOMAIN copies = Dir /\ Workdir \in Dir /\ DOMAIN copies[Workdir] = Copy
      /\ \A w \in Copy : DOMAIN copies[Workdir][w] = Module
      /\ mutants[j].in \in Copy /\ j.module \in Module /\ Shape(mutants[j]) /\ j \in DOMAIN mutants
  <2>1. OfThread(j) /\ (TakesCopy(j) \/ KeepsCopy(j) \/ GivesBack(j))
    BY Threads
  <2> QED BY <2>1 DEF OfThread, Workdir, MutationType, GoodJob, Jobs
<1> SUFFICES ASSUME command.clean
             PROVE  /\ TakesCopy(j) \/ KeepsCopy(j) => HoldsItsMutant(j)'
                    /\ GivesBack(j) => IsOriginal(copies'[Workdir][mutants[j].in])
  BY <1>0, CopiesThread
\* What Write leaves in the copy.
<1> DEFINE Writes(w, t) == copies' = [copies EXCEPT ![Workdir][w][j.module] = t]
<1>1. ASSUME NEW w \in Copy, NEW t, Writes(w, t)
      PROVE  /\ copies'[Workdir][w][j.module] = t
             /\ \A m \in Module : m # j.module => copies'[Workdir][w][m] = copies[Workdir][w][m]
  BY <1>0, <1>1
<1> HIDE DEF Writes
<1>2. ASSUME NEW w \in Copy, Take(j, w)
      PROVE  HoldsItsMutant(j)' /\ ~ GivesBack(j)
  <2> DEFINE t == copies[Workdir][w][j.module]
  <2>1. w \in idle /\ IsOriginal(copies[Workdir][w]) /\ t = Original(j.module)
    BY <1>0, <1>2 DEF Take, CopiesOfRun, IsOriginal
  <2>2. CASE NodesAt(t, j) = {}
    <3>1. mutants' = [mutants EXCEPT ![j] = [mutants[j] EXCEPT !.in = w, !.read = t, !.step = "judged", !.status = "NOT_APPLIED"]]
      BY <1>2, <2>2 DEF Take
    <3>2. copies' = copies
      BY <1>2, <2>2 DEF Take
    <3>3. mutants'[j].in = w /\ mutants'[j].read = t /\ mutants'[j].step = "judged"
      BY <1>0, <3>1 DEF Shape
    <3> QED BY <1>0, <2>1, <3>2, <3>3 DEF HoldsItsMutant, In, IsOriginal, GivesBack
  <2>3. CASE NodesAt(t, j) # {}
    <3>1. mutants' = [mutants EXCEPT ![j] = [mutants[j] EXCEPT !.in = w, !.read = t, !.step = "runs"]]
      BY <1>2, <2>3 DEF Take
    <3>2. mutants'[j].in = w /\ mutants'[j].read = t /\ mutants'[j].step = "runs"
      BY <1>0, <3>1 DEF Shape
    <3>3. Writes(w, ApplyMutation(t, j))
      BY <1>2, <2>3, <3>2 DEF Take, Write, Writes
    <3> QED BY <1>0, <1>1, <2>1, <3>2, <3>3 DEF HoldsItsMutant, In, IsOriginal, GivesBack
  <2> QED BY <2>2, <2>3
<1>3. CASE Run(j)
  <2>1. \/ \E status : mutants' = [mutants EXCEPT ![j].step = "judged", ![j].status = status]
        \/ \E names : mutants' = [mutants EXCEPT ![j].step = "again", ![j].names = names]
    BY <1>3 DEF Run, Judge
  <2>2. copies' = copies /\ mutants[j].step = "runs"
    BY <1>3 DEF Run, Step
  <2>3. mutants'[j].in = mutants[j].in /\ mutants'[j].read = mutants[j].read /\ mutants'[j].step \in {"judged", "again"}
    <3>1. ASSUME NEW status, mutants' = [mutants EXCEPT ![j].step = "judged", ![j].status = status]
          PROVE  mutants'[j].in = mutants[j].in /\ mutants'[j].read = mutants[j].read /\ mutants'[j].step = "judged"
      BY <1>0, <3>1 DEF Shape
    <3>2. ASSUME NEW names, mutants' = [mutants EXCEPT ![j].step = "again", ![j].names = names]
          PROVE  mutants'[j].in = mutants[j].in /\ mutants'[j].read = mutants[j].read /\ mutants'[j].step = "again"
      BY <1>0, <3>2 DEF Shape
    <3> QED BY <2>1, <3>1, <3>2
  <2>4. HoldsItsMutant(j)
    BY <1>0, <2>2 DEF CopiesOfRun, Active
  <2> QED BY <1>0, <2>2, <2>3, <2>4 DEF HoldsItsMutant, In, GivesBack
<1>4. CASE RunAgain(j)
  <2>0. mutants[j].step = "again" /\ HoldsItsMutant(j)
    BY <1>0, <1>4 DEF RunAgain, Step, CopiesOfRun, Active
  <2>1. CASE \E status : mutants' = [mutants EXCEPT ![j].step = "judged", ![j].status = status] /\ copies' = copies
    <3>1. mutants'[j].in = mutants[j].in /\ mutants'[j].read = mutants[j].read /\ mutants'[j].step = "judged"
      BY <1>0, <2>1 DEF Shape
    <3> QED BY <1>0, <2>0, <2>1, <3>1 DEF HoldsItsMutant, In, GivesBack
  <2>2. CASE mutants' = [mutants EXCEPT ![j].step = "clean"]
             /\ copies' = [copies EXCEPT ![Workdir][mutants'[j].in][j.module] = mutants[j].read]
    <3>1. mutants'[j].in = mutants[j].in /\ mutants'[j].read = mutants[j].read /\ mutants'[j].step = "clean"
      BY <1>0, <2>2 DEF Shape
    <3>2. Writes(mutants[j].in, mutants[j].read)
      BY <2>2, <3>1 DEF Writes
    <3> QED BY <1>0, <1>1, <2>0, <3>1, <3>2 DEF HoldsItsMutant, In, GivesBack
  <2> QED BY <1>4, <2>1, <2>2 DEF RunAgain, Judge, Write
<1>5. CASE RunClean(j)
  <2>0. mutants[j].step = "clean" /\ HoldsItsMutant(j)
    BY <1>0, <1>5 DEF RunClean, Step, CopiesOfRun, Active
  <2>1. \E status : mutants' = [mutants EXCEPT ![j].step = "judged", ![j].status = status]
    BY <1>5 DEF RunClean, Judge
  <2>2. mutants'[j].in = mutants[j].in /\ mutants'[j].read = mutants[j].read /\ mutants'[j].step = "judged"
    BY <1>0, <2>1 DEF Shape
  <2>3. Writes(mutants[j].in, ApplyMutation(mutants[j].read, j))
    BY <1>5, <2>2 DEF RunClean, Write, Writes
  <2> QED BY <1>0, <1>1, <2>0, <2>2, <2>3 DEF HoldsItsMutant, In, GivesBack
<1>6. CASE Release(j)
  <2>0. mutants[j].step = "judged" /\ HoldsItsMutant(j)
    BY <1>0, <1>6 DEF Release, Step, CopiesOfRun, Active
  <2>1. mutants' = [mutants EXCEPT ![j].step = "done"]
    BY <1>6 DEF Release
  <2>2. mutants'[j].in = mutants[j].in /\ mutants'[j].step = "done"
    BY <1>0, <2>1 DEF Shape
  <2>3. Writes(mutants[j].in, mutants[j].read)
    BY <1>6, <2>2 DEF Release, Write, Writes
  <2>4. IsOriginal(copies'[Workdir][mutants[j].in])
    BY <1>0, <1>1, <2>0, <2>3 DEF HoldsItsMutant, In, IsOriginal
  <2> QED BY <2>2, <2>4 DEF TakesCopy, KeepsCopy, Active
<1>7. CASE \E w \in Copy : Take(j, w)
  BY <1>2, <1>7
<1> QED BY <1>3, <1>4, <1>5, <1>6, <1>7

\* What is on disk of each copy is known at every step.
LEMMA CopiesNext == MutationType /\ Exclusive /\ CopiesOfRun /\ [MutationNext]_mutation => CopiesOfRun'
<1> SUFFICES ASSUME MutationType, Exclusive, CopiesOfRun, [MutationNext]_mutation PROVE CopiesOfRun'
  OBVIOUS
<1>1. CASE AssertProvenance \/ ControlGate \/ EndPhase2 \/ WriteBaseline \/ CompareBaseline \/ Kill
  BY <1>1, CopiesMain
<1>2. ASSUME NEW o \in Options(command.run + 1), Decline(o) \/ Begin(o) PROVE CopiesOfRun'
  BY <1>2, CopiesStart
<1>3. CASE ControlEnds \/ \E c \in control.left : ControlBegins(c)
  BY <1>3, CopiesControl
<1>4. ASSUME NEW j \in Jobs, (\E w \in Copy : Take(j, w)) \/ Run(j) \/ RunAgain(j) \/ RunClean(j) \/ Release(j)
      PROVE  CopiesOfRun'
  BY <1>4, CopiesThreads
<1>5. CASE EndPhase1
  <2>1. command'.step \in {"p2", "write"} /\ command'.clean = command.clean /\ Workdir' = Workdir /\ UNCHANGED <<copies, idle>>
    BY <1>5 DEF EndPhase1, Reach, MutationType, Workdir
  <2>2. Jobs' = Jobs /\ \A j \in Jobs : mutants'[j].step \in {"todo", "done"}
    BY <1>5 DEF EndPhase1, MutationType, Shape, AllDone, Jobs
  <2>3. command.step = "p1"
    BY <1>5 DEF EndPhase1
  <2> QED BY <2>1, <2>2, <2>3 DEF CopiesOfRun, Phases, Active
<1>6. CASE UNCHANGED mutation
  BY <1>6 DEF mutation, CopiesOfRun, HoldsItsMutant, In, Jobs, Workdir
<1> QED BY <1>1, <1>2, <1>3, <1>4, <1>5, <1>6 DEF MutationNext


-----------------------------------------------------------------------------
Statuses == {"KILLED", "SURVIVED", "SURVIVED_TIMEOUT", "ERROR"}

FirstPassed(j) == <<j, "p1", "passed">> \in endings \/ j \in timedOut
SecondEnded(j) == \E rc \in {"passed", "failed"} : <<j, "p2", rc>> \in endings

\* What a verdict says of how the tests have ended, in each phase and after both.
Phase1Sound(j) ==
  /\ mutants[j].step \notin {"again", "clean"}
  /\ mutants[j].step \in {"judged", "done"} =>
       /\ mutants[j].status \in Statuses
       /\ mutants[j].status = "KILLED" => Caught(j)
       /\ mutants[j].status = "SURVIVED" => <<j, "p1", "passed">> \in endings
Phase2Sound(j) ==
  /\ mutants[j].step # "done" => FirstPassed(j)
  /\ mutants[j].step \in {"again", "clean"} => <<j, "p2", "failed">> \in endings
  /\ mutants[j].step \in {"judged", "done"} =>
       /\ mutants[j].status \in Statuses
       /\ mutants[j].status = "KILLED" => Caught(j)
       /\ mutants[j].status = "SURVIVED" => FirstPassed(j) /\ SecondEnded(j)
FinallySound(j) ==
  /\ mutants[j].status \in Statuses
  /\ mutants[j].status = "KILLED" => Caught(j)
  /\ mutants[j].status = "ERROR" => j \in harness
  /\ mutants[j].status = "SURVIVED_TIMEOUT" => j \in timedOut
  /\ command.options.recheck /\ mutants[j].status = "SURVIVED" => FirstPassed(j) /\ SecondEnded(j)

VerdictsSound ==
  command.clean =>
    /\ command.wrote => command.step \in {"compare", "idle"}
    /\ command.step = "p1" => \A j \in Jobs : Phase1Sound(j)
    /\ command.step = "p2" => \A j \in Jobs : Phase2Sound(j)
    /\ command.step \in {"write", "compare"} => \A j \in Jobs : FinallySound(j)

\* The two parts of RatchetTellsTruth.
WrittenTruth ==
  command.wrote =>
    \A j \in Jobs :
      IF j \in baseline[j.module]
      THEN <<j, "p1", "passed">> \in endings /\ \E rc \in {"passed", "failed"} : <<j, "p2", rc>> \in endings
      ELSE Caught(j)
ComparedTruth ==
  command.step = "idle" /\ command.code = 0 /\ command.options.compare =>
    \A m \in {j.module : j \in Jobs} \intersect DOMAIN baseline :
      Cardinality({j \in Jobs : j.module = m /\ ~ Caught(j)}) <= Cardinality(baseline[m])

Truth == command.clean => WrittenTruth /\ ComparedTruth

\* Nothing is claimed of any mutant before the first run.
LEMMA TruthInit == MutationInit => VerdictsSound /\ Truth
BY DEF MutationInit, VerdictsSound, Truth, WrittenTruth, ComparedTruth, Jobs, NoOptions

\* A thread tells its verdict from how its tests have ended.
LEMMA VerdictOfRun ==
  ASSUME MutationType, NEW j \in Jobs, Run(j)
  PROVE  \E rc : /\ endings' = endings \union {<<j, command.step, rc>>}
                 /\ \/ mutants'[j].step = "judged" /\ mutants'[j].status = Classify(rc)
                    \/ command.step = "p2" /\ rc = "failed" /\ mutants'[j].step = "judged" /\ mutants'[j].status = "SURVIVED"
                    \/ command.step = "p2" /\ rc = "failed" /\ mutants'[j].step = "again"
<1>0. Shape(mutants[j]) /\ j \in DOMAIN mutants
  BY DEF MutationType, Jobs
<1>1. PICK e \in PytestEnds(In(j), TestsOf(j)) :
       /\ endings' = endings \union {<<j, command.step, Rc(e)>>}
       /\ \/ (command.step = "p1" \/ Rc(e) # "failed") /\ Judge(j, Classify(Rc(e)))
          \/ command.step = "p2" /\ Rc(e) = "failed" /\ e.names = {} /\ Judge(j, "SURVIVED")
          \/ /\ command.step = "p2" /\ Rc(e) = "failed" /\ e.names # {}
             /\ mutants' = [mutants EXCEPT ![j].step = "again", ![j].names = e.names]
  BY DEF Run
<1>2. \A status : Judge(j, status) => mutants'[j].step = "judged" /\ mutants'[j].status = status
  BY <1>0 DEF Judge, Shape
<1>3. \A names : mutants' = [mutants EXCEPT ![j].step = "again", ![j].names = names] => mutants'[j].step = "again"
  BY <1>0 DEF Shape
<1> QED BY <1>1, <1>2, <1>3

\* A thread gives its verdict from the end of a pytest that ran on its own mutant.
LEMMA VerdictsThread ==
  ASSUME MutationType, Exclusive, CopiesOfRun, VerdictsSound, Truth, NEW j \in Jobs,
         (\E w \in Copy : Take(j, w)) \/ Run(j) \/ RunAgain(j) \/ RunClean(j) \/ Release(j)
  PROVE  VerdictsSound' /\ Truth'
<1>0. /\ OfThread(j) /\ command.step \in Phases /\ Shape(mutants[j]) /\ GoodJob(j, command.options)
      /\ j \in DOMAIN mutants
  <2>1. OfThread(j)
    BY Threads
  <2> QED BY <2>1 DEF OfThread, MutationType, Jobs
<1> SUFFICES ASSUME command.clean
             PROVE  /\ command.step = "p1" => \A i \in Jobs : Phase1Sound(i)'
                    /\ command.step = "p2" => \A i \in Jobs : Phase2Sound(i)'
  <2>1. ~ command.wrote \/ ~ command.clean
    BY <1>0 DEF VerdictsSound, Phases
  <2> QED BY <1>0, <2>1 DEF OfThread, VerdictsSound, Truth, WrittenTruth, ComparedTruth, Phases
<1>1. endings \subseteq endings' /\ timedOut' = timedOut
  BY DEF Take, Run, RunAgain, RunClean, Release
<1>2. \A i : (Caught(i) => Caught(i)') /\ (FirstPassed(i) => FirstPassed(i)') /\ (SecondEnded(i) => SecondEnded(i)')
  BY <1>1 DEF Caught, FirstPassed, SecondEnded
<1>3. ASSUME NEW i \in Jobs, i # j
      PROVE  (Phase1Sound(i) => Phase1Sound(i)') /\ (Phase2Sound(i) => Phase2Sound(i)')
  <2>1. mutants'[i] = mutants[i]
    BY <1>0, <1>3 DEF OfThread
  <2> QED BY <1>1, <1>2, <2>1 DEF Phase1Sound, Phase2Sound
<1>4. /\ command.step = "p1" => Phase1Sound(j)
      /\ command.step = "p2" => Phase2Sound(j)
  BY DEF VerdictsSound
<1> SUFFICES /\ command.step = "p1" => Phase1Sound(j)'
             /\ command.step = "p2" => Phase2Sound(j)'
  BY <1>3 DEF VerdictsSound
<1>5. ASSUME NEW w \in Copy, Take(j, w)
      PROVE  /\ command.step = "p1" => Phase1Sound(j)'
             /\ command.step = "p2" => Phase2Sound(j)'
  <2> DEFINE t == copies[Workdir][w][j.module]
  <2>1. t = Original(j.module)
    BY <1>0, <1>5 DEF Take, CopiesOfRun, IsOriginal, GoodJob
  <2>2. NodesAt(t, j) # {}
    BY <1>0, <2>1, OneNodeAt DEF GoodJob
  <2>3. mutants' = [mutants EXCEPT ![j] = [mutants[j] EXCEPT !.in = w, !.read = t, !.step = "runs"]]
    BY <1>5, <2>2 DEF Take
  <2>4. mutants'[j].step = "runs" /\ mutants[j].step = "todo"
    BY <1>0, <1>5, <2>3 DEF Shape, Take, Step
  <2> QED BY <1>2, <1>4, <2>4 DEF Phase1Sound, Phase2Sound
<1>6. CASE Run(j)
  <2>1. PICK rc : /\ endings' = endings \union {<<j, command.step, rc>>}
                  /\ \/ mutants'[j].step = "judged" /\ mutants'[j].status = Classify(rc)
                     \/ command.step = "p2" /\ rc = "failed" /\ mutants'[j].step = "judged" /\ mutants'[j].status = "SURVIVED"
                     \/ command.step = "p2" /\ rc = "failed" /\ mutants'[j].step = "again"
    BY <1>6, VerdictOfRun
  <2>2. <<j, command.step, rc>> \in endings' /\ mutants[j].step = "runs"
    BY <1>6, <2>1 DEF Run, Step
  <2>3. /\ Classify(rc) \in Statuses
        /\ Classify(rc) = "KILLED" => rc = "failed"
        /\ Classify(rc) = "SURVIVED" => rc = "passed"
    BY DEF Classify, Statuses
  <2>4. rc = "failed" => Caught(j)'
    BY <1>0, <2>2 DEF Caught, Phases
  <2>5. command.step = "p1" => Phase1Sound(j)'
    BY <2>1, <2>2, <2>3, <2>4 DEF Phase1Sound
  <2>6. ASSUME command.step = "p2" PROVE Phase2Sound(j)'
    <3>1. FirstPassed(j)'
      BY <1>2, <1>4, <2>2, <2>6 DEF Phase2Sound
    <3>2. rc \in {"passed", "failed"} => SecondEnded(j)'
      BY <2>2, <2>6 DEF SecondEnded
    <3> QED BY <2>1, <2>2, <2>3, <2>4, <2>6, <3>1, <3>2 DEF Phase2Sound, Statuses
  <2> QED BY <2>5, <2>6
<1>7. CASE RunAgain(j) \/ RunClean(j)
  <2>1. mutants[j].step \in {"again", "clean"} /\ endings' = endings
    BY <1>7 DEF RunAgain, RunClean, Step
  <2>2. command.step = "p2" /\ FirstPassed(j) /\ <<j, "p2", "failed">> \in endings
    BY <1>0, <1>4, <2>1 DEF Phase1Sound, Phase2Sound, Phases
  <2>3. Caught(j)' /\ SecondEnded(j)' /\ FirstPassed(j)'
    BY <1>2, <2>2 DEF Caught, SecondEnded
  <2>4. \/ mutants' = [mutants EXCEPT ![j].step = "clean"]
        \/ \E status \in Statuses : mutants' = [mutants EXCEPT ![j].step = "judged", ![j].status = status]
    BY <1>7 DEF RunAgain, RunClean, Judge, Statuses
  <2>5. \/ mutants'[j].step = "clean"
        \/ mutants'[j].step = "judged" /\ mutants'[j].status \in Statuses
    <3>1. ASSUME NEW status \in Statuses, mutants' = [mutants EXCEPT ![j].step = "judged", ![j].status = status]
          PROVE  mutants'[j].step = "judged" /\ mutants'[j].status \in Statuses
      BY <1>0, <3>1 DEF Shape
    <3>2. CASE mutants' = [mutants EXCEPT ![j].step = "clean"]
      BY <1>0, <3>2 DEF Shape
    <3> QED BY <2>4, <3>1, <3>2
  <2> QED BY <2>1, <2>2, <2>3, <2>5 DEF Phase2Sound
<1>8. CASE Release(j)
  <2>1. mutants' = [mutants EXCEPT ![j].step = "done"] /\ mutants[j].step = "judged"
    BY <1>8 DEF Release, Step
  <2>2. mutants'[j].step = "done" /\ mutants'[j].status = mutants[j].status
    BY <1>0, <2>1 DEF Shape
  <2> QED BY <1>1, <1>2, <1>4, <2>1, <2>2 DEF Phase1Sound, Phase2Sound
<1> QED BY <1>5, <1>6, <1>7, <1>8


\* The ends of the two phases keep the verdicts that threads gave.
LEMMA VerdictsPhases ==
  ASSUME MutationType, VerdictsSound, Truth, EndPhase1 \/ EndPhase2
  PROVE  VerdictsSound' /\ Truth'
<1>1. /\ command'.clean = command.clean /\ command'.wrote = command.wrote /\ command'.options = command.options
      /\ command.step \in Phases /\ command'.step \in {"p2", "write"} /\ UNCHANGED <<endings, baseline>>
      /\ Jobs' = Jobs /\ \A j \in Jobs : mutants[j].step = "done"
  BY DEF EndPhase1, EndPhase2, Reach, MutationType, Phases, Jobs, AllDone
<1> SUFFICES ASSUME command.clean
             PROVE  /\ command'.step = "p2" => \A i \in Jobs : Phase2Sound(i)'
                    /\ command'.step = "write" => \A i \in Jobs : FinallySound(i)'
  <2>1. ~ command.wrote \/ ~ command.clean
    BY <1>1 DEF VerdictsSound, Phases
  <2> QED BY <1>1, <2>1 DEF VerdictsSound, Truth, WrittenTruth, ComparedTruth
<1>2. \A i : (Caught(i) => Caught(i)') /\ (SecondEnded(i) => SecondEnded(i)')
  BY <1>1 DEF Caught, SecondEnded
<1> SUFFICES ASSUME NEW i \in Jobs
             PROVE  /\ command'.step = "p2" => Phase2Sound(i)'
                    /\ command'.step = "write" => FinallySound(i)'
  OBVIOUS
<1>3. CASE EndPhase1
  <2>1. Phase1Sound(i) /\ mutants[i].step = "done"
    BY <1>1, <1>3 DEF VerdictsSound, EndPhase1
  <2>2. /\ mutants[i].status = "ERROR" => i \in harness'
        /\ mutants[i].status = "SURVIVED_TIMEOUT" => i \in timedOut'
    BY <1>3 DEF EndPhase1, With
  <2>3. i \in Survivors <=> mutants[i].status \in Survived
    BY DEF Survivors
  <2>4. ASSUME command'.step = "p2" PROVE Phase2Sound(i)'
    <3>1. mutants' = [j \in Jobs |-> IF j \in Survivors THEN [mutants[j] EXCEPT !.step = "todo"] ELSE mutants[j]]
      BY <1>3, <2>4 DEF EndPhase1, Reach, MutationType
    <3>2. CASE i \in Survivors
      <4>1. mutants'[i].step = "todo"
        BY <3>1, <3>2 DEF MutationType, Shape
      <4>2. FirstPassed(i)'
        BY <1>1, <2>1, <2>2, <2>3, <3>2 DEF FirstPassed, Phase1Sound, Survived
      <4> QED BY <4>1, <4>2 DEF Phase2Sound
    <3>3. CASE i \notin Survivors
      <4>1. mutants'[i] = mutants[i]
        BY <3>1, <3>3
      <4>2. mutants[i].status \in {"KILLED", "ERROR"}
        BY <2>1, <2>3, <3>3 DEF Phase1Sound, Statuses, Survived
      <4> QED BY <1>2, <2>1, <4>1, <4>2 DEF Phase1Sound, Phase2Sound
    <3> QED BY <3>2, <3>3
  <2>5. ASSUME command'.step = "write" PROVE FinallySound(i)'
    <3>1. mutants' = mutants /\ (command.options.recheck => Survivors = {})
      BY <1>3, <2>5 DEF EndPhase1, Reach, MutationType
    <3> QED BY <1>1, <1>2, <2>1, <2>2, <2>3, <3>1 DEF Phase1Sound, FinallySound, Survived
  <2> QED BY <2>4, <2>5
<1>4. CASE EndPhase2
  <2>1. Phase2Sound(i) /\ mutants[i].step = "done" /\ command'.step = "write"
    BY <1>1, <1>4 DEF VerdictsSound, EndPhase2, Reach, MutationType
  <2>2. /\ mutants[i].status = "ERROR" => i \in harness'
        /\ mutants[i].status = "SURVIVED_TIMEOUT" => i \in timedOut'
        /\ timedOut \subseteq timedOut' /\ mutants' = mutants
    BY <1>4 DEF EndPhase2, With
  <2>3. FirstPassed(i) => FirstPassed(i)'
    BY <1>1, <2>2 DEF FirstPassed
  <2> QED BY <1>1, <1>2, <2>1, <2>2, <2>3 DEF Phase2Sound, FinallySound
<1> QED BY <1>3, <1>4

\* A baseline that is written names what the tests passed on.
LEMMA TruthOfWrite ==
  ASSUME MutationType, VerdictsSound, Truth, WriteBaseline
  PROVE  VerdictsSound' /\ Truth'
<1>1. /\ command'.clean = command.clean /\ command'.options = command.options /\ command.step = "write"
      /\ command'.step = "compare" \/ (command'.step = "idle" /\ command'.code = 2 /\ command'.wrote = command.wrote)
      /\ UNCHANGED <<endings, harness, timedOut, mutants>> /\ Jobs' = Jobs
  BY DEF WriteBaseline, Leave, Reach, MutationType, Jobs
<1> SUFFICES ASSUME command.clean PROVE VerdictsSound' /\ Truth'
  BY <1>1 DEF VerdictsSound, Truth
<1>2. ~ command.wrote /\ \A j \in Jobs : FinallySound(j)
  BY <1>1 DEF VerdictsSound
<1>3. \A j \in Jobs : FinallySound(j)'
  BY <1>1, <1>2 DEF FinallySound, Caught, FirstPassed, SecondEnded
<1>4. VerdictsSound'
  BY <1>1, <1>2, <1>3 DEF VerdictsSound
<1>5. ComparedTruth'
  BY <1>1 DEF ComparedTruth
<1>6. ASSUME command'.wrote, NEW j \in Jobs
      PROVE  IF j \in baseline'[j.module]
             THEN <<j, "p1", "passed">> \in endings /\ \E rc \in {"passed", "failed"} : <<j, "p2", rc>> \in endings
             ELSE Caught(j)
  <2>1. /\ command.options.recheck /\ harness = {} /\ timedOut = {}
        /\ baseline' = [m \in {t.path : t \in ResolveModules(command.options)} |-> SurvivorsOf(m)]
    BY <1>2, <1>6 DEF WriteBaseline, Leave, Reach, MutationType
  <2>2. \E t \in ResolveModules(command.options) : t.path = j.module
    BY DEF MutationType, GoodJob
  <2>3. baseline'[j.module] = SurvivorsOf(j.module)
    BY <2>1, <2>2
  <2>4. j \in baseline'[j.module] <=> mutants[j].status \in Survived
    BY <2>3 DEF SurvivorsOf, Survivors
  <2>5. mutants[j].status \in {"SURVIVED", "KILLED"}
    BY <1>2, <2>1 DEF FinallySound, Statuses
  <2>6. /\ mutants[j].status = "KILLED" => Caught(j)
        /\ mutants[j].status = "SURVIVED" => <<j, "p1", "passed">> \in endings /\ SecondEnded(j)
    BY <1>2, <2>1 DEF FinallySound, FirstPassed
  <2> QED BY <2>4, <2>5, <2>6 DEF Survived, SecondEnded
<1>7. WrittenTruth'
  BY <1>1, <1>6 DEF WrittenTruth, Caught
<1> QED BY <1>4, <1>5, <1>7 DEF Truth

\* A comparison that ends with 0 was made with verdicts that stand.
LEMMA TruthOfCompare ==
  ASSUME MutationType, VerdictsSound, Truth, CompareBaseline
  PROVE  VerdictsSound' /\ Truth'
<1>1. /\ command'.clean = command.clean /\ command'.options = command.options /\ command.step = "compare"
      /\ command'.step = "idle" /\ command'.wrote = command.wrote
      /\ UNCHANGED <<endings, harness, timedOut, mutants, baseline>> /\ Jobs' = Jobs
  BY DEF CompareBaseline, Leave, MutationType, Jobs
<1> SUFFICES ASSUME command.clean PROVE VerdictsSound' /\ Truth'
  BY <1>1 DEF VerdictsSound, Truth
<1>2. \A j \in Jobs : FinallySound(j)
  BY <1>1 DEF VerdictsSound
<1>3. VerdictsSound' /\ WrittenTruth'
  BY <1>1 DEF VerdictsSound, Truth, WrittenTruth, Caught
<1>4. ASSUME command'.code = 0, command'.options.compare, NEW m \in {j.module : j \in Jobs} \intersect DOMAIN baseline
      PROVE  Cardinality({j \in Jobs : j.module = m /\ ~ Caught(j)}) <= Cardinality(baseline[m])
  <2>1. baseline # NoBaseline /\ ~ Regressed /\ harness = {}
    BY <1>1, <1>4 DEF CompareBaseline, Leave, MutationType
  <2>2. PICK j \in Jobs : j.module = m
    BY <1>4
  <2>3. PICK t \in ResolveModules(command.options) : t.path = m
    BY <2>2 DEF MutationType, GoodJob
  <2>4. ~ (Cardinality(SurvivorsOf(m)) > Cardinality(baseline[m]))
    BY <1>4, <2>1, <2>3 DEF Regressed
  <2> DEFINE Uncaught == {i \in Jobs : i.module = m /\ ~ Caught(i)}
  <2>5. \A i \in Uncaught : i \in SurvivorsOf(m)
    <3>1. \A i \in Uncaught : mutants[i].status \in Survived
      BY <1>2, <2>1 DEF FinallySound, Statuses, Survived
    <3> QED BY <3>1 DEF SurvivorsOf, Survivors
  <2>6. Uncaught \subseteq SurvivorsOf(m) /\ SurvivorsOf(m) \subseteq Jobs
    BY <2>5 DEF SurvivorsOf, Survivors
  <2>7. IsFiniteSet(SurvivorsOf(m)) /\ IsFiniteSet(baseline[m])
    BY <1>4, <2>1, <2>6, FS_Subset DEF MutationType
  <2>8. Cardinality(Uncaught) <= Cardinality(SurvivorsOf(m))
    BY <2>6, <2>7, FS_Subset
  <2>9. Cardinality(SurvivorsOf(m)) \in Nat /\ Cardinality(baseline[m]) \in Nat /\ Cardinality(Uncaught) \in Nat
    BY <2>6, <2>7, FS_Subset, FS_CardinalityType
  <2> HIDE DEF Uncaught
  <2>10. Cardinality(Uncaught) <= Cardinality(baseline[m])
    BY <2>4, <2>8, <2>9
  <2> QED BY <2>10 DEF Uncaught
<1>5. ComparedTruth'
  BY <1>1, <1>4 DEF ComparedTruth, Caught
<1> QED BY <1>3, <1>5 DEF Truth

\* Between those two steps neither claim changes.
LEMMA TruthElsewhere ==
  ASSUME MutationType, Exclusive, VerdictsSound, Truth,
         \/ AssertProvenance \/ ControlGate \/ Kill \/ ControlEnds \/ \E c \in control.left : ControlBegins(c)
  PROVE  VerdictsSound' /\ Truth'
<1>1. /\ command'.clean = command.clean /\ command'.options = command.options /\ command'.wrote = command.wrote
      /\ command'.step = "idle" => command'.code # 0
      /\ UNCHANGED <<endings, harness, timedOut, mutants, baseline>> /\ Jobs' = Jobs
  <2>1. /\ Leave(2) \/ Leave(137) \/ Reach("control") \/ Reach("controlled") \/ Reach("p1")
        /\ UNCHANGED <<endings, harness, timedOut, mutants, baseline>>
    BY DEF AssertProvenance, ControlGate, Kill, ControlEnds, ControlBegins
  <2>2. \A code : Leave(code) =>
          command'.clean = command.clean /\ command'.options = command.options /\ command'.wrote = command.wrote /\ command'.code = code
    BY DEF Leave, MutationType
  <2>3. \A step : Reach(step) =>
          command'.clean = command.clean /\ command'.options = command.options /\ command'.wrote = command.wrote /\ command'.step = step
    BY DEF Reach, MutationType
  <2>4. /\ command'.clean = command.clean /\ command'.options = command.options /\ command'.wrote = command.wrote
        /\ command'.step = "idle" => command'.code # 0
    BY <2>1, <2>2, <2>3
  <2> QED BY <2>1, <2>4 DEF Jobs
<1>2. Truth'
  BY <1>1 DEF Truth, WrittenTruth, ComparedTruth, Caught
<1>3. CASE Kill
  <2>1. command'.step = "idle"
    BY <1>3 DEF Kill, Leave, MutationType
  <2> QED BY <1>2, <2>1 DEF VerdictsSound
<1>4. CASE AssertProvenance \/ ControlGate \/ ControlEnds \/ \E c \in control.left : ControlBegins(c)
  <2>1. command.step \in BeforePhases /\ command'.step \in BeforePhases \union {"idle", "p1"}
    BY <1>4 DEF AssertProvenance, ControlGate, ControlEnds, ControlBegins, Leave, Reach, MutationType, BeforePhases
  <2>2. \A j \in Jobs : mutants'[j].step = "todo"
    BY <1>1, <2>1 DEF Exclusive
  <2>3. \A j \in Jobs : Phase1Sound(j)'
    BY <2>2 DEF Phase1Sound
  <2>4. command.clean => ~ command.wrote
    BY <2>1 DEF VerdictsSound, BeforePhases
  <2> QED BY <1>1, <1>2, <2>1, <2>3, <2>4 DEF VerdictsSound, BeforePhases
<1> QED BY <1>3, <1>4

\* A run that begins or declines claims nothing yet.
LEMMA TruthStart ==
  ASSUME MutationType, VerdictsSound, Truth, NEW o \in Options(command.run + 1), Decline(o) \/ Begin(o)
  PROVE  VerdictsSound' /\ Truth'
<1>1. CASE Decline(o)
  <2>1. command'.step = "idle" /\ ~ command'.wrote /\ Jobs' = {}
    BY <1>1 DEF Decline, MutationType, Jobs
  <2>2. {j.module : j \in Jobs'} = {}
    BY <2>1
  <2> QED BY <2>1, <2>2 DEF VerdictsSound, Truth, WrittenTruth, ComparedTruth
<1>2. CASE Begin(o)
  <2>1. command'.step = "provenance" /\ ~ command'.wrote
    BY <1>2 DEF Begin, MutationType
  <2> QED BY <2>1 DEF VerdictsSound, Truth, WrittenTruth, ComparedTruth
<1> QED BY <1>1, <1>2

MutationInv == MutationType /\ Exclusive /\ CopiesOfRun /\ VerdictsSound /\ Truth

\* What one run of tools/mutate.py keeps at every step: the shapes, one thread to a copy and one
\* of them in the repository, the text on disk of each, and what each verdict stands on.
THEOREM MutationInvariant == MutationSpec => []MutationInv
<1>1. MutationInit => MutationInv
  BY MutationTypeInit, CopiesInit, TruthInit DEF MutationInv
<1>2. MutationInv /\ [MutationNext]_mutation => MutationInv'
  <2> SUFFICES ASSUME MutationInv, [MutationNext]_mutation PROVE MutationInv'
    OBVIOUS
  <2>0. MutationType /\ Exclusive /\ CopiesOfRun /\ VerdictsSound /\ Truth
    BY DEF MutationInv
  <2>1. MutationType' /\ Exclusive' /\ CopiesOfRun'
    BY <2>0, MutationTypeNext, CopiesNext
  <2>2. VerdictsSound' /\ Truth'
    <3>1. ASSUME NEW o \in Options(command.run + 1), Decline(o) \/ Begin(o) PROVE VerdictsSound' /\ Truth'
      BY <2>0, <3>1, TruthStart
    <3>2. CASE AssertProvenance \/ ControlGate \/ Kill \/ ControlEnds \/ \E c \in control.left : ControlBegins(c)
      BY <2>0, <3>2, TruthElsewhere
    <3>3. ASSUME NEW j \in Jobs, (\E w \in Copy : Take(j, w)) \/ Run(j) \/ RunAgain(j) \/ RunClean(j) \/ Release(j)
          PROVE  VerdictsSound' /\ Truth'
      BY <2>0, <3>3, VerdictsThread
    <3>4. CASE EndPhase1 \/ EndPhase2
      BY <2>0, <3>4, VerdictsPhases
    <3>5. CASE WriteBaseline
      BY <2>0, <3>5, TruthOfWrite
    <3>6. CASE CompareBaseline
      BY <2>0, <3>6, TruthOfCompare
    <3>7. CASE UNCHANGED mutation
      BY <2>0, <3>7 DEF mutation, VerdictsSound, Truth, WrittenTruth, ComparedTruth, Phase1Sound, Phase2Sound,
         FinallySound, FirstPassed, SecondEnded, Caught, Jobs
    <3> QED BY <3>1, <3>2, <3>3, <3>4, <3>5, <3>6, <3>7 DEF MutationNext
  <2> QED BY <2>1, <2>2 DEF MutationInv
<1> QED BY <1>1, <1>2, PTL DEF MutationSpec

\* Whatever the copies, the plan and the ends of pytest: each thread runs the tests of its
\* mutant on that mutant, and confirms a kill on the repository.
THEOREM OwnMutantOnlyCorrect == MutationSpec => []OwnMutantOnly
<1>1. MutationInv => OwnMutantOnly
  BY OwnMutant DEF MutationInv
<1> QED BY <1>1, MutationInvariant, PTL

\* Whatever the ends of pytest: a baseline records what tests have passed on, and a
\* comparison that ends with 0 hides no mutant that no test has caught.
THEOREM RatchetTellsTruthCorrect == MutationSpec => []RatchetTellsTruth
<1>1. MutationInv => RatchetTellsTruth
  BY DEF MutationInv, Truth, WrittenTruth, ComparedTruth, RatchetTellsTruth
<1> QED BY <1>1, MutationInvariant, PTL

=============================================================================
