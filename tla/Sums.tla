-------------------------------- MODULE Sums --------------------------------
(* What sums over finite sets are worth, for the components that the tasks and *)
(* the reports add up with: the folds of the community modules go through a    *)
(* function that CHOOSE gives, and what would be an induction over the set is  *)
(* an argument about the smallest of the subsets that would not fit.           *)
EXTENDS Integers, FiniteSetsExt, FiniteSetTheorems, WellFoundedInduction, TLAPS

-----------------------------------------------------------------------------
(* The least of some naturals and the smallest of some sets: what the provers  *)
(* have of induction.                                                          *)

\* A set of naturals that is not empty has a least element.
LEMMA Least ==
  ASSUME NEW T \in SUBSET Nat, T # {}
  PROVE  \E x \in T : \A y \in T : x <= y
<1> DEFINE R == OpToRel(<, Nat)
<1>1. IsWellFoundedOn(R, Nat)
  BY NatLessThanWellFounded
<1>2. \A x, y \in Nat : y < x => <<y, x>> \in R
  BY DEF OpToRel
<1> HIDE DEF R
<1>3. PICK x \in T : \A y \in T : ~ (<<y, x>> \in R)
  BY <1>1, WFMin
<1>4. \A y \in T : x \in Nat /\ y \in Nat /\ ~ (y < x)
  BY <1>2, <1>3
<1>5. \A y \in T : x <= y
  BY <1>4
<1> QED BY <1>5

\* What Min returns.
LEMMA MinIs ==
  ASSUME NEW T \in SUBSET Nat, T # {}
  PROVE  Min(T) \in T /\ \A y \in T : Min(T) <= y
BY Least DEF Min

\* Of some subsets of a finite set there is one that holds no other: what induction over
\* finite sets rests on.
LEMMA Smallest ==
  ASSUME NEW S, IsFiniteSet(S), NEW Bad \in SUBSET SUBSET S, Bad # {}
  PROVE  \E B \in Bad : \A T \in Bad : T \subseteq B => T = B
<1> DEFINE R == StrictSubsetOrdering(S)
<1>1. IsWellFoundedOn(R, FiniteSubsetsOf(S))
  BY FS_StrictSubsetOrderingWellFounded
<1>2. Bad \subseteq FiniteSubsetsOf(S)
  BY FS_Subset DEF FiniteSubsetsOf
<1>3. \A T, B \in Bad : T \subseteq B /\ T # B => <<T, B>> \in R
  BY DEF StrictSubsetOrdering
<1> HIDE DEF R
<1>4. PICK B \in Bad : \A T \in Bad : ~ (<<T, B>> \in R)
  BY <1>1, <1>2, WFMin
<1> QED BY <1>3, <1>4

----------------------------------------------------------------------------
(* Sums over a finite set, as the folds of the community modules make them:   *)
(* one element after the other, in an order that CHOOSE gives.                *)

Pick(s) == CHOOSE x \in s : TRUE
Adds(f, S, g) == g = [s \in SUBSET S |-> IF s = {} THEN 0 ELSE f[Pick(s)] + g[s \ {Pick(s)}]]
Sum(f, S) == (CHOOSE g : Adds(f, S, g))[S]

\* What is picked is there.
LEMMA PickIn == ASSUME NEW s, s # {} PROVE Pick(s) \in s
BY DEF Pick

\* Within a subset, sums are what they are.
LEMMA AddsWithin ==
  ASSUME NEW f, NEW S, NEW g, Adds(f, S, g), NEW T \in SUBSET S
  PROVE  Adds(f, T, [s \in SUBSET T |-> g[s]])
<1> DEFINE h == [s \in SUBSET T |-> g[s]]
<1>1. ASSUME NEW s \in SUBSET T PROVE h[s] = IF s = {} THEN 0 ELSE f[Pick(s)] + h[s \ {Pick(s)}]
  <2>1. s \in SUBSET S /\ s \ {Pick(s)} \in SUBSET T
    OBVIOUS
  <2>2. g[s] = IF s = {} THEN 0 ELSE f[Pick(s)] + g[s \ {Pick(s)}]
    BY <2>1 DEF Adds
  <2> QED BY <2>1, <2>2
<1>2. h = [s \in SUBSET T |-> IF s = {} THEN 0 ELSE f[Pick(s)] + h[s \ {Pick(s)}]]
  BY <1>1
<1> QED BY <1>2 DEF Adds

\* There is one way to add.
LEMMA AddsOnce ==
  ASSUME NEW f, NEW S, IsFiniteSet(S), NEW g, NEW h, Adds(f, S, g), Adds(f, S, h)
  PROVE  g = h
<1> DEFINE Bad == {s \in SUBSET S : g[s] # h[s]}
<1>1. CASE Bad = {}
  BY <1>1 DEF Adds
<1>2. CASE Bad # {}
  <2>0. Bad \in SUBSET SUBSET S
    OBVIOUS
  <2>1. PICK B \in Bad : \A T \in Bad : T \subseteq B => T = B
    <3> HIDE DEF Bad
    <3> QED BY <1>2, <2>0, Smallest
  <2>2. /\ g[B] = IF B = {} THEN 0 ELSE f[Pick(B)] + g[B \ {Pick(B)}]
        /\ h[B] = IF B = {} THEN 0 ELSE f[Pick(B)] + h[B \ {Pick(B)}]
    BY DEF Adds
  <2>3. B # {}
    BY <2>2
  <2>4. B \ {Pick(B)} \in SUBSET S /\ B \ {Pick(B)} # B
    BY <2>3, PickIn
  <2>5. g[B \ {Pick(B)}] = h[B \ {Pick(B)}]
    BY <2>1, <2>4
  <2> QED BY <2>2, <2>3, <2>5
<1> QED BY <1>1, <1>2

\* There is a way to add.
LEMMA AddsSome ==
  ASSUME NEW f, NEW S, IsFiniteSet(S)
  PROVE  \E g : Adds(f, S, g)
<1> DEFINE Bad == {T \in SUBSET S : ~ \E g : Adds(f, T, g)}
<1> SUFFICES ASSUME Bad # {} PROVE FALSE
  OBVIOUS
<1>0. Bad \in SUBSET SUBSET S
  OBVIOUS
<1>1. PICK B \in Bad : \A T \in Bad : T \subseteq B => T = B
  <2> HIDE DEF Bad
  <2> QED BY <1>0, Smallest
<1> DEFINE G(t) == CHOOSE g : Adds(f, t, g)
           g == [t \in SUBSET B |-> IF t = {} THEN 0 ELSE f[Pick(t)] + G(t \ {Pick(t)})[t \ {Pick(t)}]]
<1>2. ASSUME NEW t \in SUBSET B, t # B PROVE Adds(f, t, G(t))
  <2>1. \E k : Adds(f, t, k)
    BY <1>1, <1>2
  <2> QED BY <2>1
<1>3. ASSUME NEW t \in SUBSET B, t # {} PROVE g[t \ {Pick(t)}] = G(t \ {Pick(t)})[t \ {Pick(t)}]
  <2> DEFINE u == t \ {Pick(t)}
  <2>1. u \in SUBSET B /\ u # B
    BY <1>3, PickIn
  <2>2. Adds(f, u, G(u))
    BY <1>2, <2>1
  <2>3. G(u)[u] = IF u = {} THEN 0 ELSE f[Pick(u)] + G(u)[u \ {Pick(u)}]
    <3> HIDE DEF u, G
    <3> QED BY <2>2 DEF Adds
  <2>4. CASE u = {}
    BY <2>1, <2>3, <2>4
  <2>5. CASE u # {}
    <3> DEFINE v == u \ {Pick(u)}
    <3>1. v \in SUBSET u /\ v \in SUBSET B /\ v # B /\ IsFiniteSet(v)
      BY <2>1, <2>5, PickIn, FS_Subset
    <3>2. Adds(f, v, G(v)) /\ Adds(f, v, [s \in SUBSET v |-> G(u)[s]])
      <4>1. Adds(f, v, G(v))
        BY <1>2, <3>1
      <4> HIDE DEF v, u, G
      <4> QED BY <4>1, <2>2, <3>1, AddsWithin
    <3>3. G(v) = [s \in SUBSET v |-> G(u)[s]]
      <4> HIDE DEF v, u, G
      <4> QED BY <3>1, <3>2, AddsOnce
    <3>4. G(v)[v] = G(u)[v]
      <4> HIDE DEF v, u, G
      <4> QED BY <3>3
    <3>5. g[u] = f[Pick(u)] + G(v)[v]
      <4> HIDE DEF G
      <4> QED BY <2>1, <2>5
    <3> QED BY <2>3, <2>5, <3>4, <3>5
  <2> QED BY <2>4, <2>5
<1>4. g = [t \in SUBSET B |-> IF t = {} THEN 0 ELSE f[Pick(t)] + g[t \ {Pick(t)}]]
  <2> HIDE DEF G
  <2> QED BY <1>3
<1>5. Adds(f, B, g)
  <2> HIDE DEF g
  <2> QED BY <1>4 DEF Adds
<1> QED BY <1>1, <1>5

\* How a sum adds.
LEMMA SumIs ==
  ASSUME NEW f, NEW S, IsFiniteSet(S)
  PROVE  Sum(f, S) = IF S = {} THEN 0 ELSE f[Pick(S)] + Sum(f, S \ {Pick(S)})
<1> DEFINE G(t) == CHOOSE g : Adds(f, t, g)
           u == S \ {Pick(S)}
<1>1. ASSUME NEW t, IsFiniteSet(t) PROVE Adds(f, t, G(t))
  <2>1. \E g : Adds(f, t, g)
    BY <1>1, AddsSome
  <2> QED BY <2>1
<1>2. \A t : Sum(f, t) = G(t)[t]
  BY DEF Sum
<1> HIDE DEF G
<1>3. Adds(f, S, G(S))
  BY <1>1
<1>4. G(S)[S] = IF S = {} THEN 0 ELSE f[Pick(S)] + G(S)[u]
  BY <1>3 DEF Adds
<1>5. u \in SUBSET S /\ IsFiniteSet(u)
  BY FS_Subset
<1> HIDE DEF u
<1>6. Adds(f, u, G(u)) /\ Adds(f, u, [s \in SUBSET u |-> G(S)[s]])
  BY <1>1, <1>3, <1>5, AddsWithin
<1>7. G(u) = [s \in SUBSET u |-> G(S)[s]]
  BY <1>5, <1>6, AddsOnce
<1>8. G(u)[u] = G(S)[u]
  BY <1>7
<1> QED BY <1>2, <1>4, <1>8 DEF u

\* Naturals add up to a natural.
LEMMA SumNat ==
  ASSUME NEW f, NEW S, IsFiniteSet(S), \A x \in S : f[x] \in Nat
  PROVE  Sum(f, S) \in Nat
<1> DEFINE Bad == {T \in SUBSET S : Sum(f, T) \notin Nat}
<1> SUFFICES ASSUME Bad # {} PROVE FALSE
  OBVIOUS
<1>1. Bad \in SUBSET SUBSET S
  OBVIOUS
<1>2. PICK B \in Bad : \A T \in Bad : T \subseteq B => T = B
  <2> HIDE DEF Bad
  <2> QED BY <1>1, Smallest
<1>3. IsFiniteSet(B)
  BY FS_Subset
<1>4. Sum(f, B) = IF B = {} THEN 0 ELSE f[Pick(B)] + Sum(f, B \ {Pick(B)})
  BY <1>3, SumIs
<1>5. B # {} => Pick(B) \in B /\ Sum(f, B \ {Pick(B)}) \in Nat
  BY <1>2, PickIn
<1> QED BY <1>4, <1>5

\* Integers add up to an integer.
LEMMA SumInt ==
  ASSUME NEW f, NEW S, IsFiniteSet(S), \A x \in S : f[x] \in Int
  PROVE  Sum(f, S) \in Int
<1> DEFINE Bad == {T \in SUBSET S : Sum(f, T) \notin Int}
<1> SUFFICES ASSUME Bad # {} PROVE FALSE
  OBVIOUS
<1>1. Bad \in SUBSET SUBSET S
  OBVIOUS
<1>2. PICK B \in Bad : \A T \in Bad : T \subseteq B => T = B
  <2> HIDE DEF Bad
  <2> QED BY <1>1, Smallest
<1>3. IsFiniteSet(B)
  BY FS_Subset
<1>4. Sum(f, B) = IF B = {} THEN 0 ELSE f[Pick(B)] + Sum(f, B \ {Pick(B)})
  BY <1>3, SumIs
<1>5. B # {} => Pick(B) \in B /\ Sum(f, B \ {Pick(B)}) \in Int
  BY <1>2, PickIn
<1> QED BY <1>4, <1>5

\* It does not matter what is added last.
LEMMA SumTake ==
  ASSUME NEW f, NEW S, IsFiniteSet(S), \A y \in S : f[y] \in Int, NEW x \in S
  PROVE  Sum(f, S) = f[x] + Sum(f, S \ {x})
<1> DEFINE Bad == {T \in SUBSET S : \E y \in T : Sum(f, T) # f[y] + Sum(f, T \ {y})}
<1> SUFFICES ASSUME Bad # {} PROVE FALSE
  OBVIOUS
<1>1. Bad \in SUBSET SUBSET S
  OBVIOUS
<1>2. PICK B \in Bad : \A T \in Bad : T \subseteq B => T = B
  <2> HIDE DEF Bad
  <2> QED BY <1>1, Smallest
<1>3. PICK y \in B : Sum(f, B) # f[y] + Sum(f, B \ {y})
  OBVIOUS
<1> DEFINE p == Pick(B)
           T == B \ {p}
           U == B \ {y}
           V == B \ {p, y}
<1>4. IsFiniteSet(B) /\ B # {} /\ p \in B
  BY FS_Subset, PickIn
<1>5. Sum(f, B) = f[p] + Sum(f, T)
  BY <1>4, SumIs
<1>6. y # p
  BY <1>3, <1>5
<1>7. T \in SUBSET S /\ U \in SUBSET S /\ T \subseteq B /\ U \subseteq B /\ T # B /\ U # B
  BY <1>4
<1>8. y \in T /\ p \in U /\ T \ {y} = V /\ U \ {p} = V
  BY <1>4, <1>6
<1>9. Sum(f, T) = f[y] + Sum(f, V) /\ Sum(f, U) = f[p] + Sum(f, V)
  BY <1>2, <1>7, <1>8
<1>10. Sum(f, V) \in Int /\ f[p] \in Int /\ f[y] \in Int
  <2>1. IsFiniteSet(V) /\ \A z \in V : f[z] \in Int
    BY <1>4, FS_Subset
  <2> QED BY <1>4, <2>1, SumInt
<1> HIDE DEF T, U, V, p
<1> QED BY <1>3, <1>5, <1>9, <1>10 DEF U

\* The sum of two sets that have nothing in common.
LEMMA SumUnion ==
  ASSUME NEW f, NEW A, NEW C, IsFiniteSet(A), IsFiniteSet(C), A \cap C = {},
         \A x \in A \cup C : f[x] \in Int
  PROVE  Sum(f, A \cup C) = Sum(f, A) + Sum(f, C)
<1> DEFINE Bad == {T \in SUBSET A : Sum(f, T \cup C) # Sum(f, T) + Sum(f, C)}
<1> SUFFICES ASSUME Bad # {} PROVE FALSE
  OBVIOUS
<1>1. Bad \in SUBSET SUBSET A
  OBVIOUS
<1>2. PICK B \in Bad : \A T \in Bad : T \subseteq B => T = B
  <2> HIDE DEF Bad
  <2> QED BY <1>1, Smallest
<1>3. Sum(f, C) \in Int
  BY SumInt
<1>4. B # {}
  <2>1. Sum(f, {}) = 0
    BY FS_EmptySet, SumIs
  <2>2. {} \cup C = C
    OBVIOUS
  <2>3. Sum(f, {} \cup C) = Sum(f, {}) + Sum(f, C)
    BY <1>3, <2>1, <2>2
  <2> QED BY <2>3
<1> DEFINE p == Pick(B)
           T == B \ {p}
<1>5. p \in B /\ T \subseteq B /\ T # B /\ T \in SUBSET A
  BY <1>4, PickIn
<1>6. Sum(f, T \cup C) = Sum(f, T) + Sum(f, C)
  BY <1>2, <1>5
<1>7. IsFiniteSet(B) /\ IsFiniteSet(T) /\ IsFiniteSet(B \cup C)
  BY <1>5, FS_Subset, FS_Union
<1>8. Sum(f, B) = f[p] + Sum(f, T)
  BY <1>5, <1>7, SumTake
<1>9. Sum(f, B \cup C) = f[p] + Sum(f, T \cup C)
  <2>1. (B \cup C) \ {p} = T \cup C
    BY <1>5
  <2>2. p \in B \cup C /\ \A x \in B \cup C : f[x] \in Int
    BY <1>5
  <2> HIDE DEF T
  <2> QED BY <1>7, <2>1, <2>2, SumTake
<1>10. Sum(f, T) \in Int /\ f[p] \in Int
  BY <1>5, <1>7, SumInt
<1> HIDE DEF p, T
<1> QED BY <1>3, <1>6, <1>8, <1>9, <1>10

\* What the parts of a set add up to, the set does.
LEMMA SumParts ==
  ASSUME NEW f, NEW h, NEW R, NEW C, IsFiniteSet(R),
         \A r \in R : IsFiniteSet(C[r]) /\ (\A x \in C[r] : f[x] \in Int) /\ h[r] = Sum(f, C[r]),
         \A r, s \in R : r # s => C[r] \cap C[s] = {}
  PROVE  Sum(h, R) = Sum(f, UNION {C[r] : r \in R}) /\ IsFiniteSet(UNION {C[r] : r \in R})
<1> DEFINE All(T) == UNION {C[r] : r \in T}
           Bad == {T \in SUBSET R : Sum(h, T) # Sum(f, All(T)) \/ ~ IsFiniteSet(All(T))}
<1> SUFFICES ASSUME Bad # {} PROVE FALSE
  OBVIOUS
<1>1. Bad \in SUBSET SUBSET R
  OBVIOUS
<1>2. PICK B \in Bad : \A T \in Bad : T \subseteq B => T = B
  <2> HIDE DEF Bad
  <2> QED BY <1>1, Smallest
<1>3. B # {}
  <2>1. Sum(h, {}) = 0 /\ Sum(f, {}) = 0 /\ IsFiniteSet({})
    BY FS_EmptySet, SumIs
  <2>2. All({}) = {}
    OBVIOUS
  <2> QED BY <2>1, <2>2
<1> DEFINE p == Pick(B)
           T == B \ {p}
<1>4. p \in B /\ T \subseteq B /\ T # B /\ T \in SUBSET R
  BY <1>3, PickIn
<1>5. Sum(h, T) = Sum(f, All(T)) /\ IsFiniteSet(All(T))
  BY <1>2, <1>4
<1>6. All(B) = C[p] \cup All(T) /\ C[p] \cap All(T) = {}
  BY <1>4
<1>7. \A x \in C[p] \cup All(T) : f[x] \in Int
  BY <1>4
<1>8. \A r \in B : h[r] \in Int
  BY SumInt
<1>9. IsFiniteSet(B) /\ IsFiniteSet(C[p]) /\ h[p] = Sum(f, C[p])
  BY <1>4, FS_Subset
<1> HIDE DEF All
<1>10. Sum(f, All(B)) = Sum(f, C[p]) + Sum(f, All(T)) /\ IsFiniteSet(All(B))
  <2> DEFINE A == C[p]
             D == All(T)
  <2>1. IsFiniteSet(A) /\ IsFiniteSet(D) /\ A \cap D = {} /\ \A x \in A \cup D : f[x] \in Int
    BY <1>5, <1>6, <1>7, <1>9
  <2>2. All(B) = A \cup D
    BY <1>6
  <2> HIDE DEF A, D
  <2>3. Sum(f, A \cup D) = Sum(f, A) + Sum(f, D) /\ IsFiniteSet(A \cup D)
    BY <2>1, SumUnion, FS_Union
  <2> QED BY <2>2, <2>3 DEF A, D
<1>11. Sum(h, B) = h[p] + Sum(h, T)
  BY <1>4, <1>8, <1>9, SumTake
<1> QED BY <1>5, <1>9, <1>10, <1>11

\* Equal parts add up to equal sums.
LEMMA SumSame ==
  ASSUME NEW f, NEW g, NEW S, IsFiniteSet(S), \A x \in S : f[x] = g[x]
  PROVE  Sum(f, S) = Sum(g, S)
<1> DEFINE Bad == {T \in SUBSET S : Sum(f, T) # Sum(g, T)}
<1> SUFFICES ASSUME Bad # {} PROVE FALSE
  OBVIOUS
<1>1. Bad \in SUBSET SUBSET S
  OBVIOUS
<1>2. PICK B \in Bad : \A T \in Bad : T \subseteq B => T = B
  <2> HIDE DEF Bad
  <2> QED BY <1>1, Smallest
<1>3. IsFiniteSet(B)
  BY FS_Subset
<1>4. /\ Sum(f, B) = IF B = {} THEN 0 ELSE f[Pick(B)] + Sum(f, B \ {Pick(B)})
      /\ Sum(g, B) = IF B = {} THEN 0 ELSE g[Pick(B)] + Sum(g, B \ {Pick(B)})
  BY <1>3, SumIs
<1>5. B # {} => Pick(B) \in B /\ f[Pick(B)] = g[Pick(B)] /\ Sum(f, B \ {Pick(B)}) = Sum(g, B \ {Pick(B)})
  BY <1>2, PickIn
<1> QED BY <1>4, <1>5

\* What comes to nothing adds nothing.
LEMMA SumSome ==
  ASSUME NEW f, NEW S, IsFiniteSet(S), NEW T \in SUBSET S,
         \A x \in T : f[x] \in Int, \A x \in S \ T : f[x] = 0
  PROVE  Sum(f, S) = Sum(f, T)
<1> DEFINE Bad == {B \in SUBSET (S \ T) : Sum(f, B) # 0}
<1>1. Bad = {}
  <2> SUFFICES ASSUME Bad # {} PROVE FALSE
    OBVIOUS
  <2>1. Bad \in SUBSET SUBSET S
    OBVIOUS
  <2>2. PICK B \in Bad : \A A \in Bad : A \subseteq B => A = B
    <3> HIDE DEF Bad
    <3> QED BY <2>1, Smallest
  <2>3. IsFiniteSet(B)
    BY FS_Subset
  <2>4. Sum(f, B) = IF B = {} THEN 0 ELSE f[Pick(B)] + Sum(f, B \ {Pick(B)})
    BY <2>3, SumIs
  <2>5. B # {} => Pick(B) \in B /\ f[Pick(B)] = 0 /\ Sum(f, B \ {Pick(B)}) = 0
    BY <2>2, PickIn
  <2> QED BY <2>4, <2>5
<1>2. Sum(f, S \ T) = 0
  BY <1>1
<1> DEFINE U == S \ T
<1>3. IsFiniteSet(T) /\ IsFiniteSet(U) /\ T \cap U = {} /\ T \cup U = S /\ \A x \in T \cup U : f[x] \in Int
  BY FS_Subset
<1> HIDE DEF U
<1>4. Sum(f, T \cup U) = Sum(f, T) + Sum(f, U) /\ Sum(f, T) \in Int
  BY <1>3, SumUnion, SumInt
<1>5. Sum(f, U) = 0
  BY <1>2 DEF U
<1>6. Sum(f, S) = Sum(f, T) + 0
  BY <1>3, <1>4, <1>5
<1> QED BY <1>4, <1>6

\* A factor can be taken out of a sum.
LEMMA SumScaled ==
  ASSUME NEW f, NEW g, NEW c \in Int, NEW S, IsFiniteSet(S), \A x \in S : f[x] \in Int /\ g[x] = c * f[x]
  PROVE  Sum(g, S) = c * Sum(f, S)
<1> DEFINE Bad == {T \in SUBSET S : Sum(g, T) # c * Sum(f, T)}
<1> SUFFICES ASSUME Bad # {} PROVE FALSE
  OBVIOUS
<1>1. Bad \in SUBSET SUBSET S
  OBVIOUS
<1>2. PICK B \in Bad : \A T \in Bad : T \subseteq B => T = B
  <2> HIDE DEF Bad
  <2> QED BY <1>1, Smallest
<1>3. IsFiniteSet(B)
  BY FS_Subset
<1>4. /\ Sum(f, B) = IF B = {} THEN 0 ELSE f[Pick(B)] + Sum(f, B \ {Pick(B)})
      /\ Sum(g, B) = IF B = {} THEN 0 ELSE g[Pick(B)] + Sum(g, B \ {Pick(B)})
  BY <1>3, SumIs
<1>5. CASE B = {}
  BY <1>4, <1>5
<1>6. CASE B # {}
  <2> DEFINE a == f[Pick(B)]
             b == Sum(f, B \ {Pick(B)})
  <2>1. /\ Pick(B) \in B /\ a \in Int /\ g[Pick(B)] = c * a
        /\ Sum(g, B \ {Pick(B)}) = c * b
    BY <1>2, <1>6, PickIn
  <2>2. b \in Int
    BY <2>1, FS_Subset, SumInt
  <2>3. Sum(f, B) = a + b /\ Sum(g, B) = c * a + c * b
    BY <1>4, <1>6, <2>1
  <2> HIDE DEF a, b
  <2>4. c * (a + b) = c * a + c * b
    BY <2>1, <2>2
  <2>5. Sum(g, B) = c * Sum(f, B)
    BY <2>3, <2>4
  <2> QED BY <2>5
<1> QED BY <1>5, <1>6

\* As often the same.
LEMMA SumConst ==
  ASSUME NEW f, NEW c \in Int, NEW S, IsFiniteSet(S), \A x \in S : f[x] = c
  PROVE  Sum(f, S) = Cardinality(S) * c
<1> DEFINE Bad == {T \in SUBSET S : Sum(f, T) # Cardinality(T) * c}
<1> SUFFICES ASSUME Bad # {} PROVE FALSE
  OBVIOUS
<1>1. Bad \in SUBSET SUBSET S
  OBVIOUS
<1>2. PICK B \in Bad : \A T \in Bad : T \subseteq B => T = B
  <2> HIDE DEF Bad
  <2> QED BY <1>1, Smallest
<1>3. IsFiniteSet(B)
  BY FS_Subset
<1>4. Sum(f, B) = IF B = {} THEN 0 ELSE f[Pick(B)] + Sum(f, B \ {Pick(B)})
  BY <1>3, SumIs
<1>5. CASE B = {}
  <2>1. Cardinality(B) = 0 /\ 0 * c = 0
    BY <1>5, FS_EmptySet
  <2> QED BY <1>4, <1>5, <2>1
<1>6. CASE B # {}
  <2> DEFINE n == Cardinality(B \ {Pick(B)})
  <2>1. Pick(B) \in B /\ f[Pick(B)] = c /\ Sum(f, B \ {Pick(B)}) = n * c
    BY <1>2, <1>6, PickIn
  <2>2. Cardinality(B) = n + 1 /\ n \in Nat
    <3>1. IsFiniteSet(B \ {Pick(B)}) /\ n = Cardinality(B) - 1
      BY <1>3, <2>1, FS_RemoveElement
    <3>2. n \in Nat /\ Cardinality(B) \in Nat
      BY <1>3, <3>1, FS_CardinalityType
    <3> HIDE DEF n
    <3> QED BY <3>1, <3>2
  <2>3. Sum(f, B) = c + n * c
    BY <1>4, <1>6, <2>1
  <2> HIDE DEF n
  <2>4. c + n * c = (n + 1) * c
    BY <2>2
  <2> QED BY <2>2, <2>3, <2>4
<1> QED BY <1>5, <1>6

\* The members of a group, and of some groups: t gives each its group.
Part(t, R, g) == {r \in R : t[r] = g}
Parts(t, R, G) == {r \in R : t[r] \in G}

\* What the groups of a set add up to, the members of these groups do.
LEMMA SumGroups ==
  ASSUME NEW f, NEW h, NEW t, NEW R, NEW G, IsFiniteSet(R), IsFiniteSet(G), \A r \in R : f[r] \in Int,
         \A g \in G : h[g] = Sum(f, Part(t, R, g))
  PROVE  Sum(h, G) = Sum(f, Parts(t, R, G))
<1> DEFINE C == [g \in G |-> Part(t, R, g)]
<1>1. \A g \in G : C[g] = Part(t, R, g) /\ IsFiniteSet(C[g]) /\ C[g] \in SUBSET R
  BY FS_Subset DEF Part
<1>2. \A g, k \in G : g # k => C[g] \cap C[k] = {}
  BY DEF Part
<1>3. UNION {C[g] : g \in G} = Parts(t, R, G)
  BY DEF Part, Parts
<1>4. \A g \in G : h[g] = Sum(f, C[g]) /\ \A x \in C[g] : f[x] \in Int
  BY <1>1
<1> HIDE DEF C
<1>5. Sum(h, G) = Sum(f, UNION {C[g] : g \in G})
  BY <1>1, <1>2, <1>4, SumParts
<1> QED BY <1>3, <1>5
=============================================================================
