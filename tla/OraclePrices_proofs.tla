------------------------ MODULE OraclePrices_proofs ------------------------
(***************************************************************************)
(* Theorems about the verifier's arithmetic, for every set of votes, every *)
(* precision One and every Decimal range: what the median is, that no      *)
(* minority of voters moves it away from the others, that a valid vote is  *)
(* never slashed and that prices in the lower half of the range never      *)
(* abort process_votes.                                                    *)
(***************************************************************************)
EXTENDS MCOraclePrices, OracleArithmetic_proofs

(***************************************************************************)
(* The inputs of every state are ballots                                   *)
(***************************************************************************)
\* VOTES holds one well-typed vote of each of finitely many operators.
BallotBox ==
    /\ IsFiniteSet(DOMAIN votes)
    /\ \A o \in DOMAIN votes : votes[o] \in [power : Power, result : Price]

LEMMA BoxIsBallot == BallotBox => Ballot(votes)
BY InputAssumption DEF BallotBox, Ballot

\* The vote map stays finite and well typed, vote by vote.
THEOREM BallotBoxInvariant == Spec => []BallotBox
<1>1. Init => BallotBox
  BY FS_EmptySet DEF Init, BallotBox, EmptyMap
<1>2. BallotBox /\ [Next]_votes => BallotBox'
  <2> SUFFICES ASSUME BallotBox, [Next]_votes PROVE BallotBox'
    OBVIOUS
  <2>1. CASE Cast
    <3>1. PICK o \in Operator \ DOMAIN votes, p \in Price, w \in Power :
             votes' = Save(votes, o, [power |-> w, result |-> p])
      BY <2>1 DEF Cast
    <3>2. DOMAIN votes' = DOMAIN votes \cup {o}
      BY <3>1 DEF Save
    <3>3. IsFiniteSet(DOMAIN votes')
      BY <3>2, FS_AddElement DEF BallotBox
    <3>4. \A x \in DOMAIN votes' : votes'[x] \in [power : Power, result : Price]
      BY <3>1 DEF Save, BallotBox
    <3> QED BY <3>3, <3>4 DEF BallotBox
  <2>2. CASE UNCHANGED votes
    BY <2>2 DEF BallotBox
  <2> QED BY <2>1, <2>2 DEF Next
<1> QED BY <1>1, <1>2, PTL DEF Spec

(***************************************************************************)
(* A majority holds the median                                             *)
(***************************************************************************)
\* However the minority votes, the published price lies between the lowest and
\* the highest price of any majority of the voters.
THEOREM MajorityTheorem == Spec => []MajorityHoldsTheMedian
<1>1. BallotBox => MajorityHoldsTheMedian
  <2> SUFFICES ASSUME BallotBox, NEW S \in SUBSET Voters,
                      2 * Cardinality(S) > Count
               PROVE  /\ \E o \in S : votes[o].result <= Median(votes)
                      /\ \E o \in S : votes[o].result >= Median(votes)
    BY DEF MajorityHoldsTheMedian
  <2> DEFINE m == Median(votes)
  <2>1. Ballot(votes)
    BY BoxIsBallot
  <2>2. IsFiniteSet(S) /\ Cardinality(S) \in Nat /\ Count \in Nat
    BY <2>1, FS_Subset, FS_CardinalityType DEF Ballot, Voters, Count
  <2>3. Voters # {}
    BY <2>2, FS_EmptySet DEF Count
  <2>4. /\ m \in Nat
        /\ 2 * Cardinality(Below(votes, m)) <= Count
        /\ 2 * Cardinality(Above(votes, m)) <= Count
    BY <2>1, <2>3, MedianInTheMiddle DEF Voters, Count
  <2> HIDE DEF m
  <2>5. ASSUME NEW T \in SUBSET DOMAIN votes, S \subseteq T,
               2 * Cardinality(T) <= Count
        PROVE  FALSE
    <3>1. Cardinality(S) <= Cardinality(T) /\ Cardinality(T) \in Nat
      BY <2>1, <2>5, FS_Subset, FS_CardinalityType DEF Ballot
    <3> QED BY <2>2, <2>5, <3>1
  <2>6. \E o \in S : votes[o].result <= m
    BY <2>1, <2>4, <2>5 DEF Above, Ballot, Voters
  <2>7. \E o \in S : votes[o].result >= m
    BY <2>1, <2>4, <2>5 DEF Below, Ballot, Voters
  <2> QED BY <2>6, <2>7 DEF m
<1> QED BY <1>1, BallotBoxInvariant, PTL

(***************************************************************************)
(* The median is the middle of the sorted list                             *)
(***************************************************************************)
\* Neighbours in order make the whole list ordered.
LEMMA SortedList ==
    ASSUME Ballot(votes), NEW s \in SortedVotes, Count \in Nat,
           NEW i \in 1..Count, NEW j \in i..Count
    PROVE  votes[s[i]].result <= votes[s[j]].result
<1> DEFINE at(k) == votes[s[k]].result
           S == {k \in i..Count : at(k) < at(i)}
<1>1. \A k \in 1..Count : at(k) \in Nat
  BY DEF SortedVotes, Ballot, Voters
<1>2. ASSUME S # {} PROVE FALSE
  <2>1. PICK k \in S : \A l \in S : k <= l
    <3>1. S \in SUBSET Nat
      OBVIOUS
    <3> HIDE DEF S
    <3> QED BY <3>1, <1>2, Least
  <2>2. k - 1 \in i..Count /\ k - 1 \notin S /\ k - 1 \in 1..Count - 1
    BY <1>1, <2>1
  <2>3. at(k - 1) <= at((k - 1) + 1)
    BY <2>2 DEF SortedVotes
  <2> QED BY <1>1, <2>1, <2>2, <2>3
<1> QED BY <1>1, <1>2

\* The k-th entry of the sorted list has rank k.
LEMMA ListRank ==
    ASSUME Ballot(votes), NEW s \in SortedVotes, NEW k \in 1..Count
    PROVE  votes[s[k]].result = Sorted(votes, k)
<1> DEFINE p == votes[s[k]].result
<1>1. Count \in Nat /\ s \in [1..Count -> Voters]
  BY FS_CardinalityType DEF Ballot, Count, Voters, SortedVotes
<1>2. p \in Nat
  BY <1>1 DEF Ballot, Voters
<1>3. s \in Injection(1..Count, Voters)
  <2>1. s \in Surjection(1..Count, Voters)
    BY <1>1 DEF SortedVotes, Surjection
  <2>2. IsFiniteSet(1..Count) /\ Cardinality(1..Count) = Count
    BY <1>1, FS_Interval
  <2> QED BY <2>1, <2>2, FS_Surjection DEF Count
<1>4. k <= Cardinality(AtMost(votes, p))
  <2>1. [i \in 1..k |-> s[i]] \in Injection(1..k, AtMost(votes, p))
    <3>1. \A i \in 1..k : s[i] \in AtMost(votes, p)
      BY <1>1, SortedList DEF AtMost, Voters
    <3>2. \A i, j \in 1..k : s[i] = s[j] => i = j
      BY <1>1, <1>3 DEF Injection, IsInjective
    <3> QED BY <3>1, <3>2 DEF Injection, IsInjective
  <2>2. IsFiniteSet(AtMost(votes, p))
    BY <1>2, Counts, FS_Subset DEF AtMost, Ballot
  <2>3. Cardinality(1..k) = k
    BY FS_Interval
  <2> QED BY <2>1, <2>2, <2>3, FS_Injection
<1>5. Cardinality(Below(votes, p)) < k
  <2> DEFINE Lower == {i \in 1..k - 1 : s[i] \in Below(votes, p)}
             f == [i \in Lower |-> s[i]]
  <2>1. f \in Surjection(Lower, Below(votes, p))
    <3>1. ASSUME NEW o \in Below(votes, p) PROVE \E i \in Lower : s[i] = o
      <4>1. PICK i \in 1..Count : s[i] = o
        BY <1>1 DEF SortedVotes, Below, Voters
      <4>2. ASSUME k <= i PROVE FALSE
        BY <1>1, <1>2, <4>1, <4>2, SortedList DEF Below, Ballot
      <4> QED BY <1>1, <4>1, <4>2
    <3>2. f \in [Lower -> Below(votes, p)]
      OBVIOUS
    <3>3. \A o \in Below(votes, p) : \E i \in Lower : f[i] = o
      BY <3>1
    <3> HIDE DEF f, Lower
    <3> QED BY <3>2, <3>3 DEF Surjection
  <2>2. /\ IsFiniteSet(1..k - 1) /\ Cardinality(1..k - 1) = k - 1
        /\ Lower \in SUBSET (1..k - 1)
    BY FS_Interval
  <2>3. /\ IsFiniteSet(Lower) /\ Cardinality(Lower) <= k - 1
        /\ Cardinality(Lower) \in Nat
    BY <2>2, FS_Subset, FS_CardinalityType
  <2>4. /\ Cardinality(Below(votes, p)) <= Cardinality(Lower)
        /\ IsFiniteSet(Below(votes, p))
    BY <2>1, <2>3, FS_Surjection
  <2>5. Cardinality(Below(votes, p)) \in Nat
    BY <2>4, FS_CardinalityType
  <2> QED BY <2>3, <2>4, <2>5
<1>6. HasRank(votes, p, k)
  BY <1>2, <1>4, <1>5 DEF HasRank
<1>7. HasRank(votes, Sorted(votes, k), k)
  BY <1>1, SortedRank DEF Count, Voters
<1> HIDE DEF p
<1>8. p <= Sorted(votes, k) /\ Sorted(votes, k) <= p
  BY <1>1, <1>6, <1>7, RankOrder
<1>9. p = Sorted(votes, k)
  BY <1>6, <1>7, <1>8 DEF HasRank
<1> QED BY <1>9 DEF p

\* The rank-based Median is what calculate_median reads off the sorted Vec.
THEOREM MedianTheorem == Spec => []MedianOfSortedList
<1>1. BallotBox => MedianOfSortedList
  <2> SUFFICES ASSUME BallotBox, Count > 0, NEW s \in SortedVotes
               PROVE  Median(votes) =
                        IF Count % 2 = 1 THEN votes[s[Count \div 2 + 1]].result
                        ELSE (votes[s[Count \div 2 - 1 + 1]].result
                                + votes[s[Count \div 2 + 1]].result) \div 2
    BY DEF MedianOfSortedList
  <2>1. Ballot(votes) /\ Count \in Nat \ {0}
    BY BoxIsBallot, FS_CardinalityType DEF Ballot, Count, Voters
  <2>2. CASE Count % 2 = 1
    <3>1. Count \div 2 + 1 \in 1..Count
      BY <2>1, <2>2
    <3> QED BY <2>1, <2>2, <3>1, ListRank DEF Median, Count, Voters
  <2>3. CASE Count % 2 = 0
    <3>1. /\ Count \div 2 \in 1..Count /\ Count \div 2 + 1 \in 1..Count
          /\ Count \div 2 - 1 + 1 = Count \div 2
      BY <2>1, <2>3
    <3>2. /\ votes[s[Count \div 2]].result = Sorted(votes, Count \div 2)
          /\ votes[s[Count \div 2 + 1]].result = Sorted(votes, Count \div 2 + 1)
      BY <2>1, <3>1, ListRank
    <3> QED BY <2>1, <2>3, <3>1, <3>2 DEF Median, Count, Voters
  <2>4. Count % 2 = 0 \/ Count % 2 = 1
    BY <2>1
  <2> QED BY <2>2, <2>3, <2>4
<1> QED BY <1>1, BallotBoxInvariant, PTL

(***************************************************************************)
(* Spreads                                                                 *)
(***************************************************************************)
LEMMA ConfigType ==
    ASSUME NEW cfg \in Config
    PROVE  /\ cfg.allowed_spread \in 1..One
           /\ cfg.slashable_spread \in 1..One
           /\ cfg.allowed_spread < cfg.slashable_spread
<1>1. cfg.allowed_spread \in Nat /\ cfg.slashable_spread \in Nat
  BY InputAssumption DEF Config
<1>2. ValidConfig(cfg)
  BY DEF Config
<1> QED BY <1>1, <1>2, DecimalAssumption DEF ValidConfig, Percentage

\* No operator is slashed for a vote that counts towards the threshold.
THEOREM ValidSafe == Spec => []ValidNeverSlashable
<1>1. BallotBox => ValidNeverSlashable
  <2> SUFFICES ASSUME BallotBox, NEW cfg \in Config, NEW o \in DOMAIN votes,
                      o \in ValidVoters(votes,
                              AllowedRange(Median(votes), cfg.allowed_spread)),
                      o \in SlashableVoters(votes,
                              AllowedRange(Median(votes), cfg.slashable_spread))
               PROVE  FALSE
    BY DEF ValidNeverSlashable, ValidVoters
  <2> DEFINE inner == AllowedRange(Median(votes), cfg.allowed_spread)
             outer == AllowedRange(Median(votes), cfg.slashable_spread)
  <2>1. Median(votes) \in Nat /\ votes[o].result \in Nat
    BY BoxIsBallot, MedianType DEF Ballot
  <2>2. /\ cfg.allowed_spread \in 0..One
        /\ cfg.slashable_spread \in 0..One
        /\ cfg.allowed_spread <= cfg.slashable_spread
    BY ConfigType, DecimalAssumption
  <2>3. /\ outer.minimum <= inner.minimum /\ inner.maximum <= outer.maximum
        /\ outer.minimum \in Nat /\ inner.minimum \in Nat
        /\ outer.maximum \in Nat /\ inner.maximum \in Nat
    BY <2>1, <2>2, RangesNested
  <2>4. /\ votes[o].result >= inner.minimum
        /\ votes[o].result <= inner.maximum
    BY DEF ValidVoters
  <2>5. \/ votes[o].result < outer.minimum
        \/ votes[o].result > outer.maximum
    BY DEF SlashableVoters
  <2> HIDE DEF inner, outer
  <2> QED BY <2>1, <2>3, <2>4, <2>5
<1> QED BY <1>1, BallotBoxInvariant, PTL

(***************************************************************************)
(* Overflow                                                                *)
(***************************************************************************)
\* A ceiling of every vote is a ceiling of the median's two summands.
LEMMA SortedBounded ==
    ASSUME NEW v, Ballot(v), NEW k \in 1..Cardinality(DOMAIN v), NEW c \in Nat,
           \A o \in DOMAIN v : 2 * v[o].result <= c
    PROVE  Sorted(v, k) \in Nat /\ 2 * Sorted(v, k) <= c
<1>1. \E p \in {v[o].result : o \in DOMAIN v} :
         /\ Cardinality({o \in DOMAIN v : v[o].result < p}) < k
         /\ k <= Cardinality({o \in DOMAIN v : v[o].result <= p})
  BY RankTaken DEF HasRank, Below, AtMost
<1>2. Sorted(v, k) \in {v[o].result : o \in DOMAIN v}
  BY <1>1 DEF Sorted
<1> QED BY <1>2 DEF Ballot

\* Prices up to half the largest Decimal never abort a vote by overflow.
THEOREM HalfRangeSafe == Spec => []HalfRangeNeverOverflows
<1>1. BallotBox => HalfRangeNeverOverflows
  <2> SUFFICES ASSUME BallotBox, NEW cfg \in Config,
                      \A o \in DOMAIN votes : 2 * votes[o].result <= MaxAtomics
               PROVE  ~Overflows(votes, cfg)
    BY DEF HalfRangeNeverOverflows, Voters
  <2> DEFINE n == Cardinality(DOMAIN votes)
             m == Median(votes)
             low == Sorted(votes, n \div 2)
             high == Sorted(votes, n \div 2 + 1)
  <2>1. Ballot(votes) /\ n \in Nat
    BY BoxIsBallot, FS_CardinalityType DEF Ballot
  <2>2. ASSUME n # 0, n % 2 = 0
        PROVE  /\ low \in Nat /\ high \in Nat /\ low + high <= MaxAtomics
               /\ m = (low + high) \div 2
    <3>1. n \div 2 \in 1..n /\ n \div 2 + 1 \in 1..n
      BY <2>1, <2>2
    <3>2. /\ low \in Nat /\ 2 * low <= MaxAtomics
          /\ high \in Nat /\ 2 * high <= MaxAtomics
      BY <2>1, <3>1, SortedBounded, DecimalAssumption
    <3>3. m = (low + high) \div 2
      BY <2>2 DEF Median
    <3> HIDE DEF low, high, m
    <3> QED BY <3>2, <3>3, DecimalAssumption
  <2>3. m \in Nat /\ 2 * m <= MaxAtomics
    <3>1. CASE n = 0
      BY <3>1, DecimalAssumption DEF Median
    <3>2. CASE n # 0 /\ n % 2 = 0
      <4> HIDE DEF m, low, high
      <4> QED BY <2>2, <3>2, DecimalAssumption
    <3>3. CASE n % 2 = 1
      <4>1. n \div 2 + 1 \in 1..n /\ m = high
        BY <2>1, <3>3 DEF Median
      <4> QED BY <2>1, <4>1, SortedBounded, DecimalAssumption
    <3> QED BY <2>1, <3>1, <3>2, <3>3
  <2>4. DecimalMul(m, One + cfg.slashable_spread) <= MaxAtomics
    <3> DEFINE s == cfg.slashable_spread
    <3>1. s \in 1..One
      BY ConfigType
    <3> HIDE DEF m, s
    <3>2. m * (One + s) <= m * (2 * One)
      BY <2>3, <3>1, DecimalAssumption, ProductMonotone
    <3>3. m * (2 * One) = (2 * m) * One
      BY <2>3, DecimalAssumption
    <3>4. (m * (One + s)) \div One <= ((2 * m) * One) \div One
      BY <2>3, <3>1, <3>2, <3>3, DecimalAssumption, QuotientMonotone
    <3>5. ((2 * m) * One) \div One = 2 * m
      BY <2>3, DecimalAssumption
    <3>6. (m * (One + s)) \div One \in Nat
      BY <2>3, <3>1, DecimalAssumption, Quotient
    <3>7. (m * (One + s)) \div One <= MaxAtomics
      BY <2>3, <3>4, <3>5, <3>6, DecimalAssumption
    <3> QED BY <3>7 DEF DecimalMul, s
  <2>5. ~(low + high > MaxAtomics) \/ n = 0 \/ n % 2 # 0
    BY <2>2, DecimalAssumption
  <2>6. ~(DecimalMul(m, One + cfg.slashable_spread) > MaxAtomics)
    <3>1. m * (One + cfg.slashable_spread) \in Nat
      BY <2>3, ConfigType, DecimalAssumption
    <3>2. DecimalMul(m, One + cfg.slashable_spread) \in Nat
      BY <3>1, Quotient, DecimalAssumption DEF DecimalMul
    <3> HIDE DEF m
    <3> QED BY <2>4, <3>2, DecimalAssumption
  <2> QED BY <2>5, <2>6 DEF Overflows
<1> QED BY <1>1, BallotBoxInvariant, PTL

\* is_threshold_met compares a ratio rounded down, and that loses nothing: it
\* holds exactly when the power reaches the threshold's share of the total.
THEOREM ThresholdExact ==
    ASSUME NEW valid \in Nat, NEW total \in Nat \ {0}, NEW threshold \in Nat
    PROVE  ThresholdMet(valid, total, threshold)
             <=> valid * One >= threshold * total
<1>1. valid * One \in Nat
  BY DecimalAssumption
<1> QED BY <1>1, QuotientReaches DEF ThresholdMet, FromRatio

\* The powers that is_threshold_met is given are sums of votes, for any set of
\* voters: the test is exact for whatever votes are cast.
THEOREM ThresholdTheorem == Spec => []ThresholdIsExact
<1>1. BallotBox => ThresholdIsExact
  <2> SUFFICES ASSUME BallotBox, NEW threshold \in Threshold, NEW S \in SUBSET Voters,
                      SumPower(votes, Voters) > 0
               PROVE  ThresholdMet(SumPower(votes, S), SumPower(votes, Voters), threshold)
                        <=> SumPower(votes, S) * One >= threshold * SumPower(votes, Voters)
    BY DEF ThresholdIsExact
  <2>1. \A T \in SUBSET Voters : SumPower(votes, T) \in Nat
    <3> TAKE T \in SUBSET Voters
    <3> DEFINE w == [o \in T |-> votes[o].power]
    <3>1. Weights(T, w)
      BY FS_Subset, InputAssumption DEF BallotBox, Voters, Weights
    <3> HIDE DEF w
    <3>2. Total(T, w) \in Nat
      BY <3>1, TotalType
    <3> QED BY <3>1, <3>2, SumPowerTotal DEF w, Weights
  <2> QED BY <2>1, ThresholdExact, InputAssumption DEF Voters
<1> QED BY <1>1, BallotBoxInvariant, PTL
=============================================================================
