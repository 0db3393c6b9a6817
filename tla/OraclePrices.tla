---------------------------- MODULE OraclePrices ----------------------------
(***************************************************************************)
(* The arithmetic of the oracle verifier: median of the submitted prices,  *)
(* the spreads around it, the power that agrees, and who strayed too far.  *)
(*                                                                         *)
(* A Decimal is its number of atomics: One atomics make 1.0 (10^18 in the  *)
(* code).  Products and quotients round down to a whole atomic, and a      *)
(* value above MaxAtomics (2^128 - 1) is an overflow, which aborts the     *)
(* transaction.                                                            *)
(*                                                                         *)
(* Votes are a function from operators to records [power, result]: the     *)
(* code's Vec<(Addr, OperatorVote)> has one entry for each operator, and   *)
(* nothing depends on the order of the entries once prices are sorted.     *)
(***************************************************************************)
EXTENDS Integers, FiniteSetsExt

CONSTANTS One, MaxAtomics

ASSUME DecimalAssumption == One \in Nat \ {0} /\ MaxAtomics \in Nat

\* Decimal * Decimal, and Decimal::from_ratio
DecimalMul(a, b) == (a * b) \div One
FromRatio(n, d)  == (n * One) \div d

SumPower(votes, voters) == MapThenSumSet(LAMBDA o : votes[o].power, voters)

(***************************************************************************)
(* calculate_median.  Sorted(votes, k) is the k-th of the sorted prices,   *)
(* counted from 1: fewer than k votes lie below it, at least k at or below.*)
(***************************************************************************)
Sorted(votes, k) ==
    CHOOSE p \in {votes[o].result : o \in DOMAIN votes} :
        /\ Cardinality({o \in DOMAIN votes : votes[o].result < p}) < k
        /\ k <= Cardinality({o \in DOMAIN votes : votes[o].result <= p})

\* Mutant: the even case averages the wrong pair
MedianUpperPair(votes) ==
    LET n == Cardinality(DOMAIN votes) IN
    IF n = 0 THEN 0
    ELSE IF n % 2 = 0 THEN (Sorted(votes, n \div 2) + Sorted(votes, n)) \div 2
    ELSE Sorted(votes, n \div 2 + 1)

\* Mutant: an average of all prices, which one outlier can move
MeanPrice(votes) ==
    IF DOMAIN votes = {} THEN 0
    ELSE MapThenSumSet(LAMBDA o : votes[o].result, DOMAIN votes)
            \div Cardinality(DOMAIN votes)

Median(votes) ==
    LET n == Cardinality(DOMAIN votes) IN
    IF n = 0 THEN 0
    ELSE IF n % 2 = 0
         THEN (Sorted(votes, n \div 2) + Sorted(votes, n \div 2 + 1)) \div 2
         ELSE Sorted(votes, n \div 2 + 1)

(***************************************************************************)
(* Spreads                                                                 *)
(***************************************************************************)
\* calculate_allowed_range, for the allowed and the slashable spread
AllowedRange(median, spread) ==
    [minimum |-> DecimalMul(median, One - spread),
     maximum |-> DecimalMul(median, One + spread)]

\* filter_valid_votes: the voters within the range, its ends included
ValidVoters(votes, range) ==
    {o \in DOMAIN votes : /\ votes[o].result >= range.minimum
                          /\ votes[o].result <= range.maximum}

\* Mutant: the ends of the range count as outside it
OutsideOrOnEdge(votes, range) ==
    {o \in DOMAIN votes : \/ votes[o].result <= range.minimum
                          \/ votes[o].result >= range.maximum}

\* identify_slashable_operators: the voters strictly outside the range
SlashableVoters(votes, range) ==
    {o \in DOMAIN votes : \/ votes[o].result < range.minimum
                          \/ votes[o].result > range.maximum}

\* Mutant: strictly more than the threshold is asked for
ThresholdExceeded(valid_power, total_power, threshold_percent) ==
    FromRatio(valid_power, total_power) > threshold_percent

\* is_threshold_met
ThresholdMet(valid_power, total_power, threshold_percent) ==
    FromRatio(valid_power, total_power) >= threshold_percent

(***************************************************************************)
(* process_votes                                                           *)
(***************************************************************************)
ProcessVotes(votes, total_power, cfg) ==
    LET median == Median(votes)
        valid  == ValidVoters(votes, AllowedRange(median, cfg.allowed_spread))
    IN  [median    |-> median,
         slashable |-> SlashableVoters(votes,
                           AllowedRange(median, cfg.slashable_spread)),
         met       |-> ThresholdMet(SumPower(votes, valid), total_power,
                                    cfg.threshold_percent)]

\* Mutant: a product that has to fit before it is divided
OverflowsEarly(votes, cfg) ==
    Median(votes) * (One + cfg.slashable_spread) > MaxAtomics

\* Where the arithmetic of process_votes leaves the Decimal range, and the
\* whole transaction with it: the sum of the two middle prices, and the upper
\* end of the wider range.
Overflows(votes, cfg) ==
    LET n == Cardinality(DOMAIN votes) IN
    \/ /\ n # 0 /\ n % 2 = 0
       /\ Sorted(votes, n \div 2) + Sorted(votes, n \div 2 + 1) > MaxAtomics
    \/ DecimalMul(Median(votes), One + cfg.slashable_spread) > MaxAtomics

(***************************************************************************)
(* Configuration                                                           *)
(***************************************************************************)
Percentage(x) == x # 0 /\ x <= One

\* The checks of instantiate; required_percentage has none.
ValidConfig(cfg) ==
    /\ Percentage(cfg.threshold_percent)
    /\ Percentage(cfg.allowed_spread)
    /\ Percentage(cfg.slashable_spread)
    /\ cfg.slashable_spread > cfg.allowed_spread
=============================================================================
