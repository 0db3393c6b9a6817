-------------------------- MODULE MCOraclePrices --------------------------
(***************************************************************************)
(* The arithmetic of OraclePrices against what it is meant to compute, on  *)
(* every set of votes up to a size: a state is a set of votes, a step adds *)
(* one more.                                                               *)
(***************************************************************************)
EXTENDS OraclePrices, Storage, TLC

CONSTANTS Operator, Price, Power, Spread, Threshold

\* Prices, spreads and thresholds are Decimals, powers Uint128: never negative.
ASSUME InputAssumption ==
    /\ Price \subseteq Nat /\ Spread \subseteq Nat
    /\ Power \subseteq Nat /\ Threshold \subseteq Nat

VARIABLE votes

Init == votes = EmptyMap

Cast == \E o \in Operator \ DOMAIN votes, p \in Price, w \in Power :
            votes' = Save(votes, o, [power |-> w, result |-> p])

Next == Cast
Spec == Init /\ [][Next]_votes

Config == {cfg \in [threshold_percent : Threshold,
                    allowed_spread : Spread, slashable_spread : Spread] :
              ValidConfig(cfg)}

Voters == DOMAIN votes
Count  == Cardinality(Voters)

\* The votes laid out as values.sort() leaves them
SortedVotes ==
    {s \in [1..Count -> Voters] :
        /\ \A o \in Voters : \E i \in 1..Count : s[i] = o
        /\ \A i \in 1..Count - 1 : votes[s[i]].result <= votes[s[i + 1]].result}

\* calculate_median is the middle of the sorted list, or the mean of the two
\* middles rounded down: ranks 0-based in the code are ranks 1-based here.
MedianOfSortedList ==
    Count > 0 =>
        \A s \in SortedVotes :
            LET at(i) == votes[s[i + 1]].result
                mid   == Count \div 2
            IN  Median(votes) = IF Count % 2 = 1 THEN at(mid)
                                ELSE (at(mid - 1) + at(mid)) \div 2

\* A majority of voters holds the median between its own lowest and highest
\* price, whatever the rest submit, and however much power the rest have.
MajorityHoldsTheMedian ==
    \A S \in SUBSET Voters :
        2 * Cardinality(S) > Count =>
            /\ \E o \in S : votes[o].result <= Median(votes)
            /\ \E o \in S : votes[o].result >= Median(votes)

\* An operator whose vote counts as valid is never slashed for it, although
\* both ranges round down.
ValidNeverSlashable ==
    \A cfg \in Config :
        LET range(spread) == AllowedRange(Median(votes), spread) IN
        ValidVoters(votes, range(cfg.allowed_spread))
            \cap SlashableVoters(votes, range(cfg.slashable_spread)) = {}

\* Rounding the ratio of powers down never decides whether the threshold is
\* met: it is met exactly when the unrounded ratio reaches it.
ThresholdIsExact ==
    \A threshold \in Threshold, S \in SUBSET Voters :
        LET total == SumPower(votes, Voters)
            valid == SumPower(votes, S)
        IN  total > 0 =>
              (ThresholdMet(valid, total, threshold)
                 <=> valid * One >= threshold * total)

\* Votes at most half the largest Decimal never abort process_votes.
HalfRangeNeverOverflows ==
    \A cfg \in Config :
        (\A o \in Voters : 2 * votes[o].result <= MaxAtomics)
            => ~Overflows(votes, cfg)

\* Operators are interchangeable: no definition looks at their names.
Symmetry == Permutations(Operator)
=============================================================================
