--------------------------- MODULE OracleVerifier ---------------------------
(***************************************************************************)
(* The oracle-verifier contract: it records one price vote of each         *)
(* operator for a task, and once enough power has voted it takes the       *)
(* median, slashes who strayed too far and reports the price to the queue. *)
(*                                                                         *)
(* The contract keys its maps by (task queue, task, ...).  One queue is    *)
(* deployed with it, so the queue is left out of the keys.  This module    *)
(* has no next-state relation: the queue's status reply and the delivery   *)
(* of the Complete message belong to the module that composes the two      *)
(* contracts (AvsOracle).                                                  *)
(***************************************************************************)
EXTENDS OraclePrices, Storage

CONSTANTS
    OperatorLists,   \* as in MockOperators
    Result,          \* result strings an operator may submit
    PriceOf,         \* the price each of them parses to
    Settings         \* the instantiation messages considered

VARIABLES
    now,             \* env.block.time, in seconds
    registry,        \* the operator contract's state
    settings,        \* CONFIG
    votes,           \* VOTES:    <<task, operator>> -> [power, result]
    options,         \* OPTIONS:  <<task, result string>> -> power
    metadata,        \* TASKS:    task -> [status, power_required, expires_at]
    slashed          \* SLASHED_OPERATORS

verifierVars == <<settings, votes, options, metadata, slashed>>

Members == INSTANCE MockOperators

\* instantiate
Init ==
    /\ settings \in {cfg \in Settings : ValidConfig(cfg)}
    /\ votes = EmptyMap
    /\ options = EmptyMap
    /\ metadata = EmptyMap
    /\ slashed = {}

(***************************************************************************)
(* ensure_valid_vote (external, lavs_helpers): an operator votes once, has *)
(* power, and the task is open.  The first vote on a task asks the queue   *)
(* for its status and keeps a copy of the deadline; a completed task takes *)
(* no further vote and any other refusal aborts.                           *)
(***************************************************************************)
\* Mutants: the share rounded down, and one more than that
PowerRequiredDown  == (Members!TotalPower * settings.required_percentage) \div 100
PowerRequiredAbove == (Members!TotalPower * settings.required_percentage) \div 100 + 1

PowerRequired == (Members!TotalPower * settings.required_percentage + 99) \div 100

LoadedMetadata(id, reply) ==
    IF id \in DOMAIN metadata THEN metadata[id]
    ELSE [status         |-> reply.status,
          power_required |-> PowerRequired,
          expires_at     |-> reply.expires_time]

\* Mutants: no memory of who voted; no look at the deadline
ValidVoteAgain(operator, id, reply) ==
    /\ Members!VotingPower(operator) > 0
    /\ LoadedMetadata(id, reply).status = "open"
    /\ LoadedMetadata(id, reply).expires_at > now
ValidVoteLate(operator, id, reply) ==
    /\ <<id, operator>> \notin DOMAIN votes
    /\ Members!VotingPower(operator) > 0
    /\ LoadedMetadata(id, reply).status = "open"

ValidVote(operator, id, reply) ==
    /\ <<id, operator>> \notin DOMAIN votes
    /\ Members!VotingPower(operator) > 0
    /\ LoadedMetadata(id, reply).status = "open"
    /\ LoadedMetadata(id, reply).expires_at > now

(***************************************************************************)
(* record_vote.  The string is both parsed and kept as the option's key:   *)
(* two strings that spell one price are two options.                       *)
(***************************************************************************)
VotesWith(operator, id, result) ==
    Save(votes, <<id, operator>>, [power  |-> Members!VotingPower(operator),
                                   result |-> PriceOf[result]])

\* Mutant: the power already tallied is overwritten
TallyFresh(operator, id, result) == Members!VotingPower(operator)

Tally(operator, id, result) ==
    (IF <<id, result>> \in DOMAIN options THEN options[<<id, result>>] ELSE 0)
        + Members!VotingPower(operator)

RecordVote(operator, id, result) ==
    /\ votes' = VotesWith(operator, id, result)
    /\ options' = Save(options, <<id, result>>, Tally(operator, id, result))

(***************************************************************************)
(* executed_task                                                           *)
(***************************************************************************)
\* VOTES.prefix((queue, task)): the voters on a task and their votes
VotesOn(store, id) ==
    [o \in {key[2] : key \in {k \in DOMAIN store : k[1] = id}} |-> store[<<id, o>>]]

AllVotes(operator, id, result) == VotesOn(VotesWith(operator, id, result), id)

Quorum(operator, id, result, reply) ==
    LET all == AllVotes(operator, id, result) IN
    SumPower(all, DOMAIN all) >= LoadedMetadata(id, reply).power_required

\* Mutant: the votes are read before the new one is saved
VerdictBeforeVote(operator, id, result) ==
    ProcessVotes(VotesOn(votes, id), Tally(operator, id, result), settings)

\* What the code passes for process_votes' total_power is the tally of this
\* very result string, not the sum of all votes.
Verdict(operator, id, result) ==
    ProcessVotes(AllVotes(operator, id, result), Tally(operator, id, result), settings)

Processed(operator, id, result, reply) ==
    /\ ValidVote(operator, id, reply)
    /\ Quorum(operator, id, result, reply)
    /\ ~Overflows(AllVotes(operator, id, result), settings)

\* Mutants: only the outliers of the last task; a status that stays as it was
SlashOnly(outliers) == outliers
LeftOpen(meta) == meta

\* noop_slash_validator, for every outlier
Slash(outliers) == slashed \cup outliers

\* task_data.status = TaskStatus::Completed
Closed(meta) == [meta EXCEPT !.status = "completed"]

\* Mutant: the task's metadata is not saved with its first vote
StoreVoteAlone(operator, id, result, reply) ==
    /\ ValidVote(operator, id, reply)
    /\ ~Quorum(operator, id, result, reply)
    /\ RecordVote(operator, id, result)
    /\ UNCHANGED <<settings, metadata, slashed>>

\* "vote_stored": not enough power has voted
StoreVote(operator, id, result, reply) ==
    /\ ValidVote(operator, id, reply)
    /\ ~Quorum(operator, id, result, reply)
    /\ RecordVote(operator, id, result)
    /\ metadata' = Save(metadata, id, LoadedMetadata(id, reply))
    /\ UNCHANGED <<settings, slashed>>

\* "threshold_not_met": the vote stays recorded, nothing else happens
KeepOpen(operator, id, result, reply) ==
    /\ Processed(operator, id, result, reply)
    /\ ~Verdict(operator, id, result).met
    /\ RecordVote(operator, id, result)
    /\ metadata' = Save(metadata, id, LoadedMetadata(id, reply))
    /\ UNCHANGED <<settings, slashed>>

\* Threshold met: outliers are slashed, the task is closed here and the median
\* is sent to the queue in a Complete message
ReportPrice(operator, id, result, reply) ==
    /\ Processed(operator, id, result, reply)
    /\ Verdict(operator, id, result).met
    /\ RecordVote(operator, id, result)
    /\ slashed' = Slash(Verdict(operator, id, result).slashable)
    /\ metadata' = Save(metadata, id, Closed(LoadedMetadata(id, reply)))
    /\ UNCHANGED settings

(***************************************************************************)
(* The queries                                                             *)
(***************************************************************************)
\* operator_vote
OperatorVote(id, operator) == votes[<<id, operator>>]

\* slashable_operators
SlashableOperators == slashed

\* task_info.  The status shown is aged with the clock.  The tallies range over OPTIONS
\* without a prefix.
TaskInfo(id) ==
    [status       |-> IF metadata[id].status = "open" /\ metadata[id].expires_at <= now
                      THEN "expired" ELSE metadata[id].status,
     power_needed |-> metadata[id].power_required,
     tallies      |-> options]
=============================================================================
