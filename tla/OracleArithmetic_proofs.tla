---------------------- MODULE OracleArithmetic_proofs ----------------------
(***************************************************************************)
(* Lemmas about the verifier's arithmetic, for any finite set of votes:    *)
(* what sums of powers are, what calculate_median returns and how the      *)
(* ranges around it nest.                                                  *)
(***************************************************************************)
EXTENDS OraclePrices, FiniteSetTheorems, WellFoundedInduction, TLAPS

\* What the lemmas need to know of a set of votes
Ballot(v) == IsFiniteSet(DOMAIN v) /\ \A o \in DOMAIN v : v[o].result \in Nat

Below(v, p)  == {o \in DOMAIN v : v[o].result < p}
AtMost(v, p) == {o \in DOMAIN v : v[o].result <= p}
Above(v, p)  == {o \in DOMAIN v : v[o].result > p}

\* p is the k-th of the sorted prices
HasRank(v, p, k) ==
    /\ p \in Nat
    /\ Cardinality(Below(v, p)) < k
    /\ k <= Cardinality(AtMost(v, p))

(***************************************************************************)
(* Numbers                                                                 *)
(***************************************************************************)
\* Every nonempty set of naturals has a least element: the shortest of the
\* intervals that end in the set, which is minimal for strict inclusion.
LEMMA Least ==
    ASSUME NEW S \in SUBSET Nat, S # {}
    PROVE  \E p \in S : \A q \in S : p <= q
<1> DEFINE T == {0..p : p \in S}
<1>1. T \subseteq FiniteSubsetsOf(Nat)
  <2>1. \A p \in S : IsFiniteSet(0..p)
    BY FS_Interval
  <2> QED BY <2>1 DEF FiniteSubsetsOf
<1>2. PICK t \in T : \A u \in T : <<u, t>> \notin StrictSubsetOrdering(Nat)
  <2>1. T # {}
    OBVIOUS
  <2> HIDE DEF T
  <2> QED BY <1>1, <2>1, FS_StrictSubsetOrderingWellFounded, WFMin
<1>3. PICK p \in S : t = 0..p
  OBVIOUS
<1>4. ASSUME NEW q \in S, q < p PROVE FALSE
  <2>1. 0..q \in T
    OBVIOUS
  <2>2. /\ 0..q \in SUBSET Nat
        /\ 0..p \in SUBSET Nat
        /\ 0..q \subseteq 0..p
        /\ p \in 0..p
        /\ p \notin 0..q
    BY <1>4
  <2>3. <<0..q, 0..p>> \in StrictSubsetOrdering(Nat)
    BY <2>2 DEF StrictSubsetOrdering
  <2> QED BY <1>2, <1>3, <2>1, <2>3
<1> QED BY <1>4

LEMMA ProductMonotone ==
    ASSUME NEW m \in Nat, NEW a \in Nat, NEW b \in Nat, a <= b
    PROVE  m * a <= m * b
OBVIOUS

LEMMA Quotient ==
    ASSUME NEW x \in Nat, NEW d \in Nat \ {0}
    PROVE  /\ x \div d \in Nat
           /\ (x \div d) * d <= x
           /\ x < ((x \div d) + 1) * d
OBVIOUS

\* Rounding down keeps the order.
LEMMA QuotientMonotone ==
    ASSUME NEW x \in Nat, NEW y \in Nat, NEW d \in Nat \ {0}, x <= y
    PROVE  x \div d <= y \div d
<1> DEFINE p == x \div d
           q == y \div d
<1>1. p \in Nat /\ q \in Nat /\ p * d <= x /\ y < (q + 1) * d
  BY Quotient
<1> HIDE DEF p, q
<1>2. p * d < (q + 1) * d
  BY <1>1
<1>3. ASSUME q + 1 <= p PROVE FALSE
  <2>1. d * (q + 1) <= d * p
    BY <1>1, <1>3, ProductMonotone
  <2> QED BY <2>1, <1>2, <1>1
<1>4. p <= q
  BY <1>1, <1>3
<1> QED BY <1>4 DEF p, q

\* A ratio rounded down reaches a whole number exactly when the ratio does.
LEMMA QuotientReaches ==
    ASSUME NEW x \in Nat, NEW d \in Nat \ {0}, NEW t \in Nat
    PROVE  x \div d >= t <=> x >= t * d
<1> DEFINE p == x \div d
<1>1. p \in Nat /\ p * d <= x /\ x < (p + 1) * d
  BY Quotient
<1> HIDE DEF p
<1>2. ASSUME p >= t PROVE x >= t * d
  <2>1. d * t <= d * p
    BY <1>1, <1>2, ProductMonotone
  <2> QED BY <2>1, <1>1
<1>3. ASSUME x >= t * d, p < t PROVE FALSE
  <2>1. d * (p + 1) <= d * t
    BY <1>1, <1>3, ProductMonotone
  <2> QED BY <2>1, <1>1, <1>3
<1>4. p >= t <=> x >= t * d
  BY <1>1, <1>2, <1>3
<1> QED BY <1>4 DEF p

(***************************************************************************)
(* Sums                                                                    *)
(***************************************************************************)
\* Among sets of members of a finite set there is one that loses its place with
\* any of its members.
LEMMA Smallest ==
    ASSUME NEW S, IsFiniteSet(S), NEW F \in SUBSET SUBSET S, F # {}
    PROVE  \E s \in F : \A x \in s : s \ {x} \notin F
<1>1. F \subseteq FiniteSubsetsOf(S)
  BY FS_Subset DEF FiniteSubsetsOf
<1>2. PICK s \in F : \A u \in F : <<u, s>> \notin StrictSubsetOrdering(S)
  BY <1>1, FS_StrictSubsetOrderingWellFounded, WFMin
<1>3. ASSUME NEW x \in s PROVE <<s \ {x}, s>> \in StrictSubsetOrdering(S)
  BY <1>3 DEF StrictSubsetOrdering
<1> QED BY <1>2, <1>3

\* What the fold of the community modules makes of s, where g adds up what is smaller
AddsUp(w, g, s) ==
    IF s = {} THEN 0
    ELSE LET x == CHOOSE x \in s : TRUE IN w[x] + g[s \ {x}]

Adds(S, w, g) == g = [s \in SUBSET S |-> AddsUp(w, g, s)]

\* The sum of the weights w of the members of S
Total(S, w) == (CHOOSE g : Adds(S, w, g))[S]

UpTo(S, n) == {s \in SUBSET S : Cardinality(s) <= n}

AddsUpTo(S, w, n, g) == g = [s \in UpTo(S, n) |-> AddsUp(w, g, s)]

LEMMA Chosen ==
    ASSUME NEW S, IsFiniteSet(S), NEW s \in SUBSET S, s # {}
    PROVE  \E x \in s :
           /\ x = CHOOSE y \in s : TRUE
           /\ s \ {x} \in SUBSET S
           /\ IsFiniteSet(s \ {x})
           /\ Cardinality(s \ {x}) \in Nat
           /\ Cardinality(s \ {x}) = Cardinality(s) - 1
           /\ Cardinality(s) \in Nat
<1>1. IsFiniteSet(s)
  BY FS_Subset
<1>2. (CHOOSE x \in s : TRUE) \in s
  OBVIOUS
<1> QED BY <1>1, <1>2, FS_RemoveElement, FS_CardinalityType, FS_Subset

\* Sizes one after the other, there is a fold on the sets of each size.
LEMMA SomeFold ==
    ASSUME NEW S, IsFiniteSet(S), NEW w
    PROVE  \E g : Adds(S, w, g)
<1> DEFINE Missing == {n \in Nat : ~\E g : AddsUpTo(S, w, n, g)}
<1>1. ASSUME Missing # {} PROVE FALSE
  <2>1. PICK n \in Missing : \A k \in Missing : n <= k
    BY <1>1, Least
  <2>2. n # 0
    <3> DEFINE g == [s \in UpTo(S, 0) |-> 0]
    <3>1. \A s \in UpTo(S, 0) : s = {}
      BY FS_EmptySet, FS_Subset, FS_CardinalityType DEF UpTo
    <3>2. AddsUpTo(S, w, 0, g)
      BY <3>1 DEF AddsUpTo, AddsUp
    <3> QED BY <3>2, <2>1
  <2>3. n - 1 \in Nat /\ n \in Nat
    BY <2>1, <2>2
  <2>4. PICK g : AddsUpTo(S, w, n - 1, g)
    BY <2>1, <2>3
  <2> DEFINE h == [s \in UpTo(S, n) |-> AddsUp(w, g, s)]
  <2>5. \A s \in UpTo(S, n - 1) : s \in UpTo(S, n) /\ g[s] = h[s]
    <3>1. UpTo(S, n - 1) \subseteq UpTo(S, n)
      BY <2>3, FS_Subset, FS_CardinalityType DEF UpTo
    <3>2. \A s \in UpTo(S, n - 1) : g[s] = AddsUp(w, g, s)
      BY <2>4 DEF AddsUpTo
    <3> QED BY <3>1, <3>2
  <2>6. ASSUME NEW s \in UpTo(S, n) PROVE AddsUp(w, g, s) = AddsUp(w, h, s)
    <3> HIDE DEF h
    <3>1. CASE s = {}
      BY <3>1 DEF AddsUp
    <3>2. CASE s # {}
      <4>1. s \in SUBSET S /\ Cardinality(s) <= n
        BY DEF UpTo
      <4>2. PICK x \in s : /\ x = CHOOSE y \in s : TRUE
                           /\ s \ {x} \in SUBSET S
                           /\ Cardinality(s \ {x}) \in Nat
                           /\ Cardinality(s \ {x}) = Cardinality(s) - 1
                           /\ Cardinality(s) \in Nat
        BY <3>2, <4>1, Chosen
      <4>3. s \ {x} \in UpTo(S, n - 1)
        BY <2>3, <4>1, <4>2 DEF UpTo
      <4>4. g[s \ {x}] = h[s \ {x}]
        BY <2>5, <4>3
      <4> QED BY <3>2, <4>2, <4>4 DEF AddsUp
    <3> QED BY <3>1, <3>2
  <2>7. AddsUpTo(S, w, n, h)
    <3>1. \A s \in UpTo(S, n) : h[s] = AddsUp(w, h, s)
      BY <2>6
    <3>2. h = [s \in UpTo(S, n) |-> h[s]]
      OBVIOUS
    <3> HIDE DEF h
    <3> QED BY <3>1, <3>2 DEF AddsUpTo
  <2> QED BY <2>7, <2>1
<1>2. Cardinality(S) \in Nat
  BY FS_CardinalityType
<1>3. PICK g : AddsUpTo(S, w, Cardinality(S), g)
  BY <1>1, <1>2
<1>4. UpTo(S, Cardinality(S)) = SUBSET S
  BY FS_Subset DEF UpTo
<1> QED BY <1>3, <1>4 DEF Adds, AddsUpTo

\* Two folds agree where their sets and weights do.
LEMMA FoldsAgree ==
    ASSUME NEW S, IsFiniteSet(S), NEW T \in SUBSET S, NEW w, NEW v,
           \A x \in T : w[x] = v[x],
           NEW g, Adds(S, w, g), NEW h, Adds(T, v, h)
    PROVE  \A s \in SUBSET T : g[s] = h[s]
<1> DEFINE F == {s \in SUBSET T : g[s] # h[s]}
<1>1. ASSUME F # {} PROVE FALSE
  <2>1. IsFiniteSet(T)
    BY FS_Subset
  <2>2. PICK s \in F : \A x \in s : s \ {x} \notin F
    BY <1>1, <2>1, Smallest
  <2>3. g[s] = AddsUp(w, g, s) /\ h[s] = AddsUp(v, h, s)
    BY <2>2 DEF Adds
  <2>4. CASE s = {}
    BY <2>2, <2>3, <2>4 DEF AddsUp
  <2>5. CASE s # {}
    <3>1. PICK x \in s : x = CHOOSE y \in s : TRUE
      BY <2>5
    <3>2. g[s \ {x}] = h[s \ {x}] /\ w[x] = v[x]
      BY <2>2
    <3> QED BY <2>2, <2>3, <2>5, <3>1, <3>2 DEF AddsUp
  <2> QED BY <2>4, <2>5
<1> QED BY <1>1

LEMMA TotalIsFold ==
    ASSUME NEW S, IsFiniteSet(S), NEW T \in SUBSET S, NEW w, NEW v,
           \A x \in T : w[x] = v[x],
           NEW g, Adds(S, w, g)
    PROVE  Total(T, v) = g[T]
<1>1. IsFiniteSet(T)
  BY FS_Subset
<1> DEFINE h == CHOOSE h : Adds(T, v, h)
<1>2. Adds(T, v, h)
  BY <1>1, SomeFold
<1> HIDE DEF h
<1>3. \A s \in SUBSET T : g[s] = h[s]
  BY <1>2, FoldsAgree
<1> QED BY <1>3 DEF Total, h

\* A sum is that of the weights, whatever else they are weights of.
LEMMA SameTotal ==
    ASSUME NEW S, IsFiniteSet(S), NEW w, NEW v, \A x \in S : w[x] = v[x]
    PROVE  Total(S, w) = Total(S, v)
<1>1. PICK g : Adds(S, w, g)
  BY SomeFold
<1>2. Total(S, w) = g[S]
  BY <1>1, TotalIsFold
<1>3. Total(S, v) = g[S]
  BY <1>1, TotalIsFold
<1> QED BY <1>2, <1>3

LEMMA TotalOfNone == ASSUME NEW w PROVE Total({}, w) = 0
<1>1. IsFiniteSet({})
  BY FS_EmptySet
<1>2. PICK g : Adds({}, w, g)
  BY <1>1, SomeFold
<1>3. Total({}, w) = g[{}]
  BY <1>1, <1>2, TotalIsFold
<1> QED BY <1>2, <1>3 DEF Adds, AddsUp

LEMMA TotalTakesChosen ==
    ASSUME NEW S, IsFiniteSet(S), NEW w, S # {}
    PROVE  \E x \in S : Total(S, w) = w[x] + Total(S \ {x}, w)
<1>1. PICK g : Adds(S, w, g)
  BY SomeFold
<1>2. PICK x \in S : x = CHOOSE y \in S : TRUE
  OBVIOUS
<1>3. g[S] = w[x] + g[S \ {x}]
  BY <1>1, <1>2 DEF Adds, AddsUp
<1>4. Total(S, w) = g[S] /\ Total(S \ {x}, w) = g[S \ {x}]
  BY <1>1, TotalIsFold
<1> QED BY <1>3, <1>4

\* Finitely many weights that are naturals
Weights(S, w) == IsFiniteSet(S) /\ \A x \in S : w[x] \in Nat

LEMMA TotalType ==
    ASSUME NEW S, NEW w, Weights(S, w)
    PROVE  Total(S, w) \in Nat
<1>0. IsFiniteSet(S)
  BY DEF Weights
<1> DEFINE F == {s \in SUBSET S : Total(s, w) \notin Nat}
<1>1. ASSUME F # {} PROVE FALSE
  <2>1. PICK s \in F : \A x \in s : s \ {x} \notin F
    BY <1>0, <1>1, Smallest
  <2>2. s # {}
    BY TotalOfNone
  <2>3. PICK x \in s : Total(s, w) = w[x] + Total(s \ {x}, w)
    BY <1>0, <2>2, FS_Subset, TotalTakesChosen
  <2>4. Total(s \ {x}, w) \in Nat /\ w[x] \in Nat
    BY <2>1 DEF Weights
  <2> QED BY <2>1, <2>3, <2>4
<1> QED BY <1>1

\* The order in which members are taken does not matter.
LEMMA TotalTakes ==
    ASSUME NEW S, NEW w, Weights(S, w), NEW x \in S
    PROVE  Total(S, w) = w[x] + Total(S \ {x}, w)
<1>0. IsFiniteSet(S)
  BY DEF Weights
<1> DEFINE F == {s \in SUBSET S : \E y \in s : Total(s, w) # w[y] + Total(s \ {y}, w)}
<1>1. ASSUME F # {} PROVE FALSE
  <2>1. PICK s \in F : \A y \in s : s \ {y} \notin F
    <3> HIDE DEF F
    <3>1. F \in SUBSET SUBSET S
      BY DEF F
    <3> QED BY <1>0, <1>1, <3>1, Smallest
  <2>2. PICK y \in s : Total(s, w) # w[y] + Total(s \ {y}, w)
    BY <2>1
  <2>3. IsFiniteSet(s) /\ s \in SUBSET S
    BY <1>0, <2>1, FS_Subset
  <2>4. PICK z \in s : Total(s, w) = w[z] + Total(s \ {z}, w)
    BY <2>2, <2>3, TotalTakesChosen
  <2>5. y # z
    BY <2>2, <2>4
  <2>6. Total(s \ {z}, w) = w[y] + Total((s \ {z}) \ {y}, w)
    <3>1. s \ {z} \in SUBSET S /\ y \in s \ {z}
      BY <2>3, <2>5
    <3> QED BY <2>1, <3>1
  <2>7. Total(s \ {y}, w) = w[z] + Total((s \ {y}) \ {z}, w)
    <3>1. s \ {y} \in SUBSET S /\ z \in s \ {y}
      BY <2>3, <2>5
    <3> QED BY <2>1, <3>1
  <2>8. (s \ {y}) \ {z} = (s \ {z}) \ {y}
    OBVIOUS
  <2>9. w[y] \in Nat /\ w[z] \in Nat /\ Total((s \ {z}) \ {y}, w) \in Nat
    BY <2>3, TotalType, FS_Subset DEF Weights
  <2> HIDE DEF F
  <2>10. w[z] + (w[y] + Total((s \ {z}) \ {y}, w)) = w[y] + (w[z] + Total((s \ {z}) \ {y}, w))
    BY <2>9
  <2>11. Total(s, w) = w[y] + Total(s \ {y}, w)
    BY <2>4, <2>6, <2>7, <2>8, <2>10
  <2> QED BY <2>2, <2>11
<1> QED BY <1>1

\* One member more adds its weight.
LEMMA TotalAdds ==
    ASSUME NEW S, NEW x, x \notin S, NEW w, Weights(S \cup {x}, w)
    PROVE  /\ Total(S, w) \in Nat
           /\ Total(S \cup {x}, w) = Total(S, w) + w[x]
<1>1. (S \cup {x}) \ {x} = S
  OBVIOUS
<1>2. Total(S \cup {x}, w) = w[x] + Total(S, w)
  BY <1>1, TotalTakes
<1>3. Total(S, w) \in Nat /\ w[x] \in Nat
  BY TotalType, FS_Subset DEF Weights
<1> QED BY <1>2, <1>3

\* Fewer members do not have more weight.
LEMMA TotalMonotone ==
    ASSUME NEW S, NEW T \in SUBSET S, NEW w, Weights(S, w)
    PROVE  Total(T, w) <= Total(S, w)
<1>0. IsFiniteSet(S)
  BY DEF Weights
<1> DEFINE F == {s \in SUBSET S : T \subseteq s /\ ~(Total(T, w) <= Total(s, w))}
<1>1. ASSUME F # {} PROVE FALSE
  <2>1. PICK s \in F : \A y \in s : s \ {y} \notin F
    <3>1. F \in SUBSET SUBSET S
      OBVIOUS
    <3> HIDE DEF F
    <3> QED BY <1>0, <1>1, <3>1, Smallest
  <2>2. IsFiniteSet(s) /\ s \in SUBSET S /\ T \subseteq s /\ Weights(s, w) /\ Weights(T, w)
    BY <2>1, FS_Subset DEF Weights
  <2>3. Total(T, w) \in Nat
    BY <2>2, TotalType, FS_Subset
  <2>4. PICK y \in s : y \notin T
    BY <2>1, <2>2, <2>3
  <2>5. Total(s, w) = w[y] + Total(s \ {y}, w)
    BY <2>2, TotalTakes
  <2>6. Total(T, w) <= Total(s \ {y}, w)
    BY <2>1, <2>2, <2>4
  <2>7. w[y] \in Nat /\ Total(s \ {y}, w) \in Nat
    BY <2>2, TotalType, FS_Subset DEF Weights
  <2>8. Total(T, w) <= Total(s, w)
    BY <2>3, <2>5, <2>6, <2>7
  <2> QED BY <2>1, <2>8
<1> QED BY <1>1

\* A sum does not change when its members are renamed.
Renames(S, T, w, v, f) ==
    /\ \A x \in S : f[x] \in T /\ w[x] = v[f[x]]
    /\ \A x \in S : \A y \in S : f[x] = f[y] => x = y
    /\ \A t \in T : \E x \in S : f[x] = t

LEMMA TotalRenamed ==
    ASSUME NEW S, NEW T, IsFiniteSet(S), NEW w, NEW v, Weights(T, v), NEW f,
           Renames(S, T, w, v, f)
    PROVE  Total(S, w) = Total(T, v)
<1>0. /\ \A x \in S : f[x] \in T /\ w[x] = v[f[x]]
      /\ \A x \in S : \A y \in S : f[x] = f[y] => x = y
      /\ \A t \in T : \E x \in S : f[x] = t
  BY DEF Renames
<1> DEFINE Image(s) == {f[x] : x \in s}
           F == {s \in SUBSET S : Total(s, w) # Total(Image(s), v)}
<1>1. ASSUME F # {} PROVE FALSE
  <2>1. PICK s \in F : \A y \in s : s \ {y} \notin F
    <3>1. F \in SUBSET SUBSET S
      OBVIOUS
    <3> HIDE DEF F
    <3> QED BY <1>1, <3>1, Smallest
  <2>2. /\ s \in SUBSET S /\ Total(s, w) # Total(Image(s), v)
        /\ \A y \in s : Total(s \ {y}, w) = Total(Image(s \ {y}), v)
    BY <2>1
  <2>3. Weights(s, w)
    BY <1>0, <2>2, FS_Subset DEF Weights
  <2>4. Image(s) \subseteq T
    BY <1>0, <2>2
  <2>5. Weights(Image(s), v)
    <3> HIDE DEF Image
    <3> QED BY <2>4, FS_Subset DEF Weights
  <2>6. s # {}
    <3>1. s = {} => Image(s) = {}
      OBVIOUS
    <3> HIDE DEF Image
    <3> QED BY <2>2, <3>1, TotalOfNone
  <2>7. PICK x \in s : TRUE
    BY <2>6
  <2>8. f[x] \in Image(s) /\ Image(s \ {x}) = Image(s) \ {f[x]} /\ w[x] = v[f[x]]
    BY <1>0, <2>2
  <2> HIDE DEF Image
  <2>9. /\ Total(s, w) = w[x] + Total(s \ {x}, w)
        /\ Total(Image(s), v) = v[f[x]] + Total(Image(s) \ {f[x]}, v)
    BY <2>3, <2>5, <2>8, TotalTakes
  <2> QED BY <2>2, <2>8, <2>9
<1>2. Total(S, w) = Total(Image(S), v)
  BY <1>1
<1>3. Image(S) = T
  BY <1>0
<1> QED BY <1>2, <1>3

\* The sums of powers in the code
LEMMA SumPowerTotal ==
    ASSUME NEW v, NEW S, IsFiniteSet(S)
    PROVE  SumPower(v, S) = Total(S, [o \in S |-> v[o].power])
<1> DEFINE w == [o \in S |-> v[o].power]
           Power(g, s) == IF s = {} THEN 0
                          ELSE LET x == CHOOSE x \in s : TRUE IN v[x].power + g[s \ {x}]
           Fold(g) == g = [s \in SUBSET S |-> Power(g, s)]
           sum == CHOOSE g : Fold(g)
<1>1. ASSUME NEW g PROVE Fold(g) <=> Adds(S, w, g)
  <2>1. ASSUME NEW s \in SUBSET S PROVE Power(g, s) = AddsUp(w, g, s)
    <3>1. s # {} => (CHOOSE x \in s : TRUE) \in S
      OBVIOUS
    <3> QED BY <3>1 DEF AddsUp
  <2> HIDE DEF Power
  <2> QED BY <2>1 DEF Adds
<1>2. SumPower(v, S) = sum[S]
  BY DEF SumPower, MapThenSumSet, MapThenFoldSet
<1> HIDE DEF Fold, w
<1>3. Adds(S, w, sum)
  BY <1>1, SomeFold
<1>4. Total(S, w) = sum[S]
  BY <1>3, TotalIsFold
<1> QED BY <1>2, <1>4 DEF w

(***************************************************************************)
(* Ranks                                                                   *)
(***************************************************************************)
LEMMA Counts ==
    ASSUME NEW v, Ballot(v), NEW p \in Nat
    PROVE  /\ Cardinality(DOMAIN v) \in Nat
           /\ \A S \in SUBSET DOMAIN v :
                 IsFiniteSet(S) /\ Cardinality(S) \in Nat
                    /\ Cardinality(S) <= Cardinality(DOMAIN v)
           /\ Cardinality(AtMost(v, p)) + Cardinality(Above(v, p))
                = Cardinality(DOMAIN v)
<1>1. \A S \in SUBSET DOMAIN v :
         IsFiniteSet(S) /\ Cardinality(S) \in Nat
            /\ Cardinality(S) <= Cardinality(DOMAIN v)
  BY FS_Subset, FS_CardinalityType DEF Ballot
<1>2. /\ AtMost(v, p) \in SUBSET DOMAIN v
      /\ Above(v, p) \in SUBSET DOMAIN v
      /\ AtMost(v, p) \cap Above(v, p) = {}
      /\ AtMost(v, p) \cup Above(v, p) = DOMAIN v
  BY DEF Ballot, AtMost, Above
<1>3. Cardinality(DOMAIN v) = Cardinality(AtMost(v, p))
         + Cardinality(Above(v, p)) - Cardinality({})
  BY <1>1, <1>2, FS_Union
<1> QED BY <1>1, <1>2, <1>3, FS_EmptySet

\* Some price has nobody above it.
LEMMA Highest ==
    ASSUME NEW v, Ballot(v), DOMAIN v # {}
    PROVE  \E p \in Nat : AtMost(v, p) = DOMAIN v
<1> DEFINE T == {Above(v, v[o].result) : o \in DOMAIN v}
           R == StrictSubsetOrdering(DOMAIN v)
<1>1. T \subseteq FiniteSubsetsOf(DOMAIN v) /\ T # {}
  <2>1. \A o \in DOMAIN v : Above(v, v[o].result) \in SUBSET DOMAIN v
    BY DEF Above
  <2>2. \A o \in DOMAIN v : IsFiniteSet(Above(v, v[o].result))
    BY <2>1, FS_Subset DEF Ballot
  <2> QED BY <2>1, <2>2 DEF FiniteSubsetsOf
<1>2. PICK t \in T : \A u \in T : <<u, t>> \notin R
  <2> HIDE DEF T
  <2> QED BY <1>1, FS_StrictSubsetOrderingWellFounded, WFMin
<1>3. PICK o \in DOMAIN v : t = Above(v, v[o].result)
  OBVIOUS
<1>4. ASSUME NEW q \in t PROVE FALSE
  <2>1. /\ Above(v, v[q].result) \subseteq t
        /\ q \notin Above(v, v[q].result)
        /\ t \subseteq DOMAIN v
        /\ q \in DOMAIN v
    BY <1>3, <1>4 DEF Above, Ballot
  <2>2. <<Above(v, v[q].result), t>> \in R
    BY <2>1, <1>4 DEF StrictSubsetOrdering
  <2> QED BY <2>1, <2>2, <1>2
<1>5. AtMost(v, v[o].result) = DOMAIN v
  BY <1>3, <1>4 DEF AtMost, Above, Ballot
<1> QED BY <1>5 DEF Ballot

\* calculate_median's index is within the list: each rank is taken by one of
\* the submitted prices.
LEMMA RankTaken ==
    ASSUME NEW v, Ballot(v), NEW k \in 1..Cardinality(DOMAIN v)
    PROVE  \E p \in {v[o].result : o \in DOMAIN v} : HasRank(v, p, k)
<1> DEFINE S == {p \in Nat : k <= Cardinality(AtMost(v, p))}
<1>1. S # {}
  <2>1. DOMAIN v # {}
    BY FS_EmptySet
  <2> QED BY <2>1, Highest, FS_CardinalityType DEF Ballot
<1>2. PICK p \in S : \A q \in S : p <= q
  <2>1. S \in SUBSET Nat
    OBVIOUS
  <2> HIDE DEF S
  <2> QED BY <1>1, <2>1, Least
<1>3. Below(v, p) \in SUBSET DOMAIN v /\ Cardinality(Below(v, p)) \in Nat
  BY Counts DEF Below
<1>4. ASSUME k <= Cardinality(Below(v, p)) PROVE FALSE
  <2>1. PICK o \in Below(v, p) : TRUE
    BY <1>3, <1>4, FS_EmptySet
  <2>2. p - 1 \in Nat /\ AtMost(v, p - 1) = Below(v, p)
    BY <2>1 DEF Below, AtMost, Ballot
  <2> QED BY <2>2, <1>2, <1>4
<1>5. HasRank(v, p, k)
  BY <1>3, <1>4 DEF HasRank
<1>6. ASSUME \A o \in DOMAIN v : v[o].result # p PROVE FALSE
  <2>1. AtMost(v, p) = Below(v, p)
    BY <1>6 DEF Below, AtMost, Ballot
  <2> QED BY <2>1, <1>4
<1> QED BY <1>5, <1>6

LEMMA SortedRank ==
    ASSUME NEW v, Ballot(v), NEW k \in 1..Cardinality(DOMAIN v)
    PROVE  HasRank(v, Sorted(v, k), k)
<1>1. \E p \in {v[o].result : o \in DOMAIN v} :
         /\ Cardinality({o \in DOMAIN v : v[o].result < p}) < k
         /\ k <= Cardinality({o \in DOMAIN v : v[o].result <= p})
  BY RankTaken DEF HasRank, Below, AtMost
<1>2. /\ Sorted(v, k) \in {v[o].result : o \in DOMAIN v}
      /\ Cardinality({o \in DOMAIN v : v[o].result < Sorted(v, k)}) < k
      /\ k <= Cardinality({o \in DOMAIN v : v[o].result <= Sorted(v, k)})
  BY <1>1 DEF Sorted
<1> QED BY <1>2 DEF HasRank, Below, AtMost, Ballot

\* Ranks follow the order of prices, and no two prices have the same one.
LEMMA RankOrder ==
    ASSUME NEW v, Ballot(v), NEW p, NEW q, NEW i \in Nat, NEW j \in Nat,
           HasRank(v, p, i), HasRank(v, q, j), i <= j
    PROVE  p <= q
<1>1. ASSUME q < p PROVE FALSE
  <2>1. AtMost(v, q) \subseteq Below(v, p) /\ Below(v, p) \subseteq DOMAIN v
    BY <1>1 DEF AtMost, Below, Ballot, HasRank
  <2>2. IsFiniteSet(Below(v, p))
    BY <2>1, FS_Subset DEF Ballot
  <2>3. Cardinality(AtMost(v, q)) <= Cardinality(Below(v, p))
    BY <2>1, <2>2, FS_Subset
  <2>4. Cardinality(AtMost(v, q)) \in Nat /\ Cardinality(Below(v, p)) \in Nat
    BY <2>1, <2>2, FS_Subset, FS_CardinalityType
  <2> QED BY <2>3, <2>4 DEF HasRank
<1> QED BY <1>1 DEF HasRank

(***************************************************************************)
(* The median                                                              *)
(***************************************************************************)
\* At most half of the voters are below the median, at most half above it.
LEMMA MedianInTheMiddle ==
    ASSUME NEW v, Ballot(v), DOMAIN v # {}
    PROVE  /\ Median(v) \in Nat
           /\ 2 * Cardinality(Below(v, Median(v))) <= Cardinality(DOMAIN v)
           /\ 2 * Cardinality(Above(v, Median(v))) <= Cardinality(DOMAIN v)
<1> DEFINE n == Cardinality(DOMAIN v)
           m == Median(v)
<1>1. n \in Nat \ {0}
  BY FS_CardinalityType, FS_EmptySet DEF Ballot
<1>2. CASE n % 2 = 1
  <2>1. m = Sorted(v, n \div 2 + 1) /\ n \div 2 + 1 \in 1..n
    BY <1>1, <1>2 DEF Median
  <2>2. HasRank(v, m, n \div 2 + 1)
    BY <2>1, SortedRank
  <2> HIDE DEF m
  <2>3. /\ Cardinality(Below(v, m)) \in Nat
        /\ Cardinality(AtMost(v, m)) \in Nat
        /\ Cardinality(Above(v, m)) \in Nat
        /\ Cardinality(AtMost(v, m)) + Cardinality(Above(v, m)) = n
    BY <2>2, Counts DEF HasRank, Below, AtMost, Above
  <2>4. /\ m \in Nat
        /\ 2 * Cardinality(Below(v, m)) <= n
        /\ 2 * Cardinality(Above(v, m)) <= n
    BY <1>1, <1>2, <2>2, <2>3 DEF HasRank
  <2> QED BY <2>4 DEF m
<1>3. CASE n % 2 = 0
  <2> DEFINE a == Sorted(v, n \div 2)
             b == Sorted(v, n \div 2 + 1)
  <2>1. m = (a + b) \div 2 /\ n \div 2 \in 1..n /\ n \div 2 + 1 \in 1..n
    BY <1>1, <1>3 DEF Median
  <2>2. HasRank(v, a, n \div 2) /\ HasRank(v, b, n \div 2 + 1)
    BY <2>1, SortedRank
  <2> HIDE DEF a, b, m
  <2>3. a <= b
    BY <2>1, <2>2, RankOrder
  <2>4. m \in Nat /\ a <= m /\ m <= b /\ a \in Nat /\ b \in Nat
    BY <2>1, <2>2, <2>3 DEF HasRank
  <2>5. Below(v, m) \subseteq Below(v, b) /\ Above(v, m) \subseteq Above(v, a)
    BY <2>4 DEF Below, Above, Ballot
  <2>6. /\ IsFiniteSet(Below(v, b)) /\ Cardinality(Below(v, b)) \in Nat
        /\ IsFiniteSet(Above(v, a)) /\ Cardinality(Above(v, a)) \in Nat
        /\ Cardinality(AtMost(v, a)) \in Nat
        /\ Cardinality(AtMost(v, a)) + Cardinality(Above(v, a)) = n
    BY <2>4, Counts DEF Below, AtMost, Above
  <2>7. /\ Cardinality(Below(v, m)) <= Cardinality(Below(v, b))
        /\ Cardinality(Above(v, m)) <= Cardinality(Above(v, a))
        /\ Cardinality(Below(v, m)) \in Nat
        /\ Cardinality(Above(v, m)) \in Nat
    BY <2>5, <2>6, FS_Subset, FS_CardinalityType
  <2>8. /\ 2 * Cardinality(Below(v, m)) <= n
        /\ 2 * Cardinality(Above(v, m)) <= n
    BY <1>1, <1>3, <2>2, <2>6, <2>7 DEF HasRank
  <2> QED BY <2>4, <2>8 DEF m
<1> QED BY <1>1, <1>2, <1>3

\* The median is a price, or what lies between two of them.
LEMMA MedianOfPrices ==
    ASSUME NEW v, Ballot(v), DOMAIN v # {}
    PROVE  \E a, b \in {v[o].result : o \in DOMAIN v} : Median(v) = (a + b) \div 2
<1> DEFINE n == Cardinality(DOMAIN v)
           prices == {v[o].result : o \in DOMAIN v}
<1>1. n \in Nat \ {0}
  BY FS_CardinalityType, FS_EmptySet DEF Ballot
<1>2. \A k \in 1..n : Sorted(v, k) \in prices
  <2> SUFFICES ASSUME NEW k \in 1..n PROVE Sorted(v, k) \in prices
    OBVIOUS
  <2>1. \E p \in prices :
          /\ Cardinality({o \in DOMAIN v : v[o].result < p}) < k
          /\ k <= Cardinality({o \in DOMAIN v : v[o].result <= p})
    BY RankTaken DEF HasRank, Below, AtMost
  <2> QED BY <2>1 DEF Sorted
<1>3. prices \subseteq Nat
  BY DEF Ballot
<1> HIDE DEF prices
<1>4. CASE n % 2 = 1
  <2> DEFINE m == Median(v)
  <2>1. m = Sorted(v, n \div 2 + 1) /\ n \div 2 + 1 \in 1..n
    BY <1>1, <1>4 DEF Median
  <2>2. m \in prices /\ m \in Nat
    BY <2>1, <1>2, <1>3
  <2> HIDE DEF m
  <2>3. m = (m + m) \div 2
    BY <2>2
  <2> QED BY <2>2, <2>3 DEF m, prices
<1>5. CASE n % 2 = 0
  <2>1. /\ Median(v) = (Sorted(v, n \div 2) + Sorted(v, n \div 2 + 1)) \div 2
        /\ n \div 2 \in 1..n /\ n \div 2 + 1 \in 1..n
    BY <1>1, <1>5 DEF Median
  <2>2. Sorted(v, n \div 2) \in prices /\ Sorted(v, n \div 2 + 1) \in prices
    BY <2>1, <1>2
  <2> QED BY <2>1, <2>2 DEF prices
<1> QED BY <1>1, <1>4, <1>5

LEMMA MedianType ==
    ASSUME NEW v, Ballot(v)
    PROVE  Median(v) \in Nat
<1>1. CASE DOMAIN v = {}
  BY <1>1, FS_EmptySet DEF Median
<1> QED BY <1>1, MedianInTheMiddle

(***************************************************************************)
(* Spreads                                                                 *)
(***************************************************************************)
\* A wider spread makes a range that contains the narrower one, rounding
\* included.
LEMMA RangesNested ==
    ASSUME NEW m \in Nat, NEW a \in 0..One, NEW b \in 0..One, a <= b
    PROVE  /\ AllowedRange(m, b).minimum <= AllowedRange(m, a).minimum
           /\ AllowedRange(m, a).maximum <= AllowedRange(m, b).maximum
           /\ AllowedRange(m, b).minimum \in Nat
           /\ AllowedRange(m, a).minimum \in Nat
           /\ AllowedRange(m, b).maximum \in Nat
           /\ AllowedRange(m, a).maximum \in Nat
<1>1. /\ One - b \in Nat /\ One - a \in Nat /\ One - b <= One - a
      /\ One + a \in Nat /\ One + b \in Nat /\ One + a <= One + b
  BY DecimalAssumption
<1>2. /\ m * (One - b) <= m * (One - a)
      /\ m * (One + a) <= m * (One + b)
  BY <1>1, ProductMonotone
<1>3. /\ m * (One - b) \in Nat /\ m * (One - a) \in Nat
      /\ m * (One + b) \in Nat /\ m * (One + a) \in Nat
  BY <1>1
<1>4. /\ (m * (One - b)) \div One <= (m * (One - a)) \div One
      /\ (m * (One + a)) \div One <= (m * (One + b)) \div One
  BY <1>2, <1>3, QuotientMonotone, DecimalAssumption
<1>5. /\ (m * (One - b)) \div One \in Nat /\ (m * (One - a)) \div One \in Nat
      /\ (m * (One + b)) \div One \in Nat /\ (m * (One + a)) \div One \in Nat
  BY <1>3, Quotient, DecimalAssumption
<1> QED BY <1>4, <1>5 DEF AllowedRange, DecimalMul

\* The median lies in every range around itself.
LEMMA MedianInRange ==
    ASSUME NEW m \in Nat, NEW s \in 0..One
    PROVE  /\ AllowedRange(m, s).minimum \in Nat /\ AllowedRange(m, s).maximum \in Nat
           /\ AllowedRange(m, s).minimum <= m
           /\ m <= AllowedRange(m, s).maximum
<1>1. m * (One - 0) = m * One /\ m * (One + 0) = m * One /\ 0 \in 0..One /\ 0 <= s
  BY DecimalAssumption
<1>2. (m * One) \div One = m
  <2> DEFINE q == (m * One) \div One
  <2>1. m * One \in Nat
    BY DecimalAssumption
  <2>2. q \in Nat /\ q * One <= m * One /\ m * One < (q + 1) * One
    BY <2>1, Quotient, DecimalAssumption
  <2> HIDE DEF q
  <2>3. ASSUME q < m PROVE FALSE
    <3>1. One * (q + 1) <= One * m
      BY <2>2, <2>3, ProductMonotone, DecimalAssumption
    <3> QED BY <3>1, <2>2, DecimalAssumption
  <2>4. ASSUME m < q PROVE FALSE
    <3>1. One * (m + 1) <= One * q
      BY <2>2, <2>4, ProductMonotone, DecimalAssumption
    <3>2. One * (m + 1) = One * m + One
      BY DecimalAssumption
    <3> QED BY <3>1, <3>2, <2>2, DecimalAssumption
  <2>5. q = m
    BY <2>2, <2>3, <2>4
  <2> QED BY <2>5 DEF q
<1>3. AllowedRange(m, 0).minimum = m /\ AllowedRange(m, 0).maximum = m
  BY <1>1, <1>2 DEF AllowedRange, DecimalMul
<1> QED BY <1>1, <1>3, RangesNested
=============================================================================
