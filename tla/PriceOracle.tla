---------------------------- MODULE PriceOracle ----------------------------
(***************************************************************************)
(* What the oracle promises to those who ask it for a price and to the     *)
(* operators who answer: a round of votes for every task, at most one      *)
(* price, in the middle of the votes, and no penalty but for a vote that   *)
(* differs from a published price.                                         *)
(*                                                                         *)
(* Contracts, clocks, powers, tallies and spreads are not part of the      *)
(* promise: any vote may settle its round.                                 *)
(***************************************************************************)
EXTENDS Naturals, FiniteSets

CONSTANTS Id,         \* task ids
          Operator,
          Price,
          NoPrice     \* of a round that is not settled

VARIABLES rounds,     \* id -> [status, votes : operator -> price, price]
          penalized   \* operators that were slashed

vars == <<rounds, penalized>>

NoVotes == [o \in {} |-> 0]

Fresh(status) == [status |-> status, votes |-> NoVotes, price |-> NoPrice]

\* price has at most half of the votes below it and at most half above it
InTheMiddle(price, votes) ==
    /\ 2 * Cardinality({o \in DOMAIN votes : votes[o] < price}) <= Cardinality(DOMAIN votes)
    /\ 2 * Cardinality({o \in DOMAIN votes : votes[o] > price}) <= Cardinality(DOMAIN votes)

Cast(votes, operator, price) ==
    [o \in DOMAIN votes \cup {operator} |-> IF o = operator THEN price ELSE votes[o]]

Init ==
    /\ rounds = [id \in {} |-> Fresh("open")]
    /\ penalized = {}

\* Somebody asks for a price.
Ask ==
    /\ \E id \in Id \ DOMAIN rounds, status \in {"open", "expired"} :
          rounds' = [i \in DOMAIN rounds \cup {id} |->
                        IF i = id THEN Fresh(status) ELSE rounds[i]]
    /\ UNCHANGED penalized

MayVote(operator, id) ==
    /\ id \in DOMAIN rounds
    /\ rounds[id].status = "open"
    /\ operator \notin DOMAIN rounds[id].votes

\* An operator votes, and the round goes on.
Vote ==
    /\ \E operator \in Operator, id \in Id :
          /\ MayVote(operator, id)
          /\ rounds' \in {[rounds EXCEPT ![id].votes = Cast(@, operator, price)] :
                            price \in Price}
    /\ UNCHANGED penalized

\* Ways to settle a round with one more vote
Settled(round, operator) ==
    {[status |-> "completed", votes |-> Cast(round.votes, operator, price),
      price |-> published] : price \in Price, published \in Price}

\* An operator votes, and the round is settled.
Settle ==
    \E operator \in Operator, id \in Id :
        /\ MayVote(operator, id)
        /\ rounds' \in {[rounds EXCEPT ![id] = round] : round \in Settled(rounds[id], operator)}
        /\ LET round == rounds'[id] IN
           /\ InTheMiddle(round.price, round.votes)
           /\ penalized \subseteq penalized'
           /\ penalized' \ penalized
                 \subseteq {o \in DOMAIN round.votes : round.votes[o] # round.price}

\* Rounds that nobody settled in time are over.
Lapse ==
    /\ \E over \in SUBSET {id \in DOMAIN rounds : rounds[id].status = "open"} :
          rounds' = [id \in DOMAIN rounds |->
                        IF id \in over THEN [rounds[id] EXCEPT !.status = "expired"]
                        ELSE rounds[id]]
    /\ UNCHANGED penalized

Next == Ask \/ Vote \/ Settle \/ Lapse

Spec == Init /\ [][Next]_vars
=============================================================================
