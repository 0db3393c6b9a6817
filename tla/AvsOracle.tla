----------------------------- MODULE AvsOracle -----------------------------
(***************************************************************************)
(* The deployed oracle: a task queue, the verifier it trusts and the       *)
(* operators the verifier asks, on one chain.                              *)
(*                                                                         *)
(* A transaction runs to its end before the next one starts, and the       *)
(* messages it sends belong to it: when the queue refuses the verifier's   *)
(* Complete message, the whole vote is undone.  A vote that reports a      *)
(* price is therefore one step of both contracts, or no step.              *)
(***************************************************************************)
EXTENDS Naturals, Sequences, FiniteSets, FiniteSetsExt

CONSTANTS
    \* the queue's
    Address, Denom, Amount, Requested, Response, InstantiateMsg, None, U64,
    StartTime, LastCreate, LastTime, MaxTasks,
    \* the verifier's and the operators'
    One, MaxAtomics, Operator, OperatorLists, Result, PriceOf, Settings,
    VerifierAddr     \* the verifier contract, as the queue knows it

VARIABLES now, config, tasks,
          registry,
          settings, votes, options, metadata, slashed

Queue    == INSTANCE TaskQueue
Verifier == INSTANCE OracleVerifier
Members  == INSTANCE MockOperators

(***************************************************************************)
(* Assumptions on the constants                                            *)
(***************************************************************************)
ASSUME DeploymentAssumption ==
    /\ U64 \in Nat \ {0} /\ StartTime \in 0..U64 - 1
    /\ LastCreate \in Nat /\ LastTime \in 0..U64 - 1 /\ MaxTasks \in Nat
    /\ None \notin Nat /\ None \notin Response
    /\ Requested \subseteq Queue!OptionU64
    /\ \A msg \in InstantiateMsg : msg.timeout \in Queue!TimeoutInfo
    /\ VerifierAddr \in Address /\ 0 \in Amount

\* Response holds the prices that may be voted and what the median makes of
\* any two of them.
ASSUME PriceAssumption ==
    /\ One \in Nat \ {0} /\ MaxAtomics \in Nat
    /\ Result = DOMAIN PriceOf
    /\ \A r \in Result : PriceOf[r] \in Nat \cap Response
    /\ \A r, s \in Result : (PriceOf[r] + PriceOf[s]) \div 2 \in Response
    /\ \A cfg \in Settings :
          /\ cfg.allowed_spread \in Nat /\ cfg.slashable_spread \in Nat
          /\ cfg.threshold_percent \in Nat /\ cfg.required_percentage \in Nat

\* A deployment lists its operators with powers that are never negative.
ASSUME OperatorAssumption ==
    OperatorLists \subseteq Seq([addr : Operator, voting_power : Nat])

queueVars    == <<config, tasks>>
verifierVars == <<settings, votes, options, metadata, slashed>>
vars         == <<now, config, tasks, registry,
                  settings, votes, options, metadata, slashed>>

\* The deployment: operators, then the verifier that knows them, then the
\* queue that knows the verifier
Init ==
    /\ Members!Init
    /\ Verifier!Init
    /\ Queue!Init
    /\ config.verifier = VerifierAddr

Create  == Queue!CreateAny  /\ UNCHANGED <<registry, verifierVars>>
Timeout == Queue!TimeoutAny /\ UNCHANGED <<registry, verifierVars>>
Tick    == Queue!Tick       /\ UNCHANGED <<registry, verifierVars>>

\* executed_task.  The verifier asks the queue about a task it does not know,
\* and the query fails for a task that does not exist.
StoreVote ==
    /\ \E operator \in Operator, id \in DOMAIN tasks, result \in Result :
          Verifier!StoreVote(operator, id, result, Queue!TaskStatus(id))
    /\ UNCHANGED <<now, config, tasks, registry>>

KeepOpen ==
    /\ \E operator \in Operator, id \in DOMAIN tasks, result \in Result :
          Verifier!KeepOpen(operator, id, result, Queue!TaskStatus(id))
    /\ UNCHANGED <<now, config, tasks, registry>>

\* The Complete message and the vote that sends it
ReportPrice ==
    /\ \E operator \in Operator, id \in DOMAIN tasks, result \in Result :
          /\ Verifier!ReportPrice(operator, id, result, Queue!TaskStatus(id))
          /\ Queue!Complete(VerifierAddr, Queue!NoFunds, id,
                            Verifier!Verdict(operator, id, result).median)
    /\ UNCHANGED registry

Next == Create \/ Timeout \/ Tick \/ StoreVote \/ KeepOpen \/ ReportPrice

Spec == Init /\ [][Next]_vars

(***************************************************************************)
(* Views of a task's votes                                                 *)
(***************************************************************************)
Known        == DOMAIN metadata
VotesOn(id)  == Verifier!VotesOn(votes, id)
Voters(id)   == DOMAIN VotesOn(id)
VotedPower(id) == Verifier!SumPower(VotesOn(id), Voters(id))
MedianOf(id) == Verifier!Median(VotesOn(id))

AllowedVoters(id) ==
    Verifier!ValidVoters(VotesOn(id),
        Verifier!AllowedRange(MedianOf(id), settings.allowed_spread))

Outliers(id) ==
    Verifier!SlashableVoters(VotesOn(id),
        Verifier!AllowedRange(MedianOf(id), settings.slashable_spread))

Completed(id) == metadata[id].status = "completed"

(***************************************************************************)
(* Correctness                                                             *)
(***************************************************************************)
\* The shape of the verifier's storage: tallies and metadata exist exactly
\* for the tasks somebody voted on, and every stored vote has power.
TypeOK ==
    /\ slashed \subseteq Operator
    /\ Known = {key[1] : key \in DOMAIN votes}
    /\ Known = {key[1] : key \in DOMAIN options}
    /\ Known \subseteq DOMAIN tasks
    /\ \A key \in DOMAIN votes : key[2] \in Operator /\ votes[key].power > 0
    /\ \A id \in Known : metadata[id].status \in {"open", "completed"}

\* The verifier keeps its own copy of a task's status and deadline, written at
\* the first vote.  It never goes stale in a way that matters: a task the
\* verifier would still take a vote on is one the queue would still complete,
\* so no vote is undone by a refused Complete message, the two contracts agree
\* on which tasks are completed, and their status queries never differ.
VerifierAgreesWithQueue ==
    /\ \A id \in DOMAIN tasks : tasks[id].status = "completed" => id \in Known
    /\ \A id \in Known :
          /\ metadata[id].expires_at = tasks[id].timing.expires_at
          /\ Completed(id) <=> tasks[id].status = "completed"
          /\ metadata[id].status = "open" /\ metadata[id].expires_at > now
                => Queue!Completable(tasks[id])
          /\ Verifier!TaskInfo(id).status = Queue!ObservedStatus(tasks[id])

\* The price the queue publishes is, then and ever after, the median of all
\* the votes recorded for the task.
PublishedPriceIsMedian ==
    \A id \in Known : Completed(id) => tasks[id].result = MedianOf(id)

\* Votes holding the required share of the operators' total power were in
\* before the price was published.
QuorumBeforeCompletion ==
    \A id \in Known :
        Completed(id) =>
            VotedPower(id) * 100
                >= registry.total_power * settings.required_percentage

\* The running tallies account for every vote: what is tallied for the result
\* strings that spell a price is the power of the operators who voted it.
TalliesMatchVotes ==
    \A id \in Known, price \in {PriceOf[r] : r \in Result} :
        MapThenSumSet(LAMBDA key : options[key],
            {key \in DOMAIN options : key[1] = id /\ PriceOf[key[2]] = price})
        = Verifier!SumPower(VotesOn(id),
            {o \in Voters(id) : VotesOn(id)[o].result = price})

\* An operator is slashed exactly for having strayed outside the slashable
\* spread of a price that was published: never for a task that failed, never
\* by the votes of another task, and nobody gets away.
SlashedExactlyOutliers ==
    slashed = UNION {Outliers(id) : id \in {i \in Known : Completed(i)}}

\* A task that has its quorum and is not completed has somebody to blame: a
\* vote outside the allowed spread of the median.
StalledOnlyByOutlier ==
    \A id \in Known :
        metadata[id].status = "open" /\ VotedPower(id) >= metadata[id].power_required
            => AllowedVoters(id) # Voters(id)

\* Where no operator is listed twice and not more than all of the power is
\* required, the operators can always reach the quorum: rounding a share of
\* their power up to a whole number never asks for more than all of it.
QuorumWithinReach ==
    settings.required_percentage <= 100 /\ Members!NobodyTwice =>
        \A id \in Known :
            metadata[id].power_required
                <= MapThenSumSet(LAMBDA o : Members!VotingPower(o), Members!AllVoters)

\* Votes are final, and none joins a task that has completed.
VotesAreFinal ==
    [][/\ \A key \in DOMAIN votes : key \in DOMAIN votes' /\ votes'[key] = votes[key]
       /\ \A key \in DOMAIN votes' \ DOMAIN votes :
             key[1] \in Known => ~Completed(key[1])]_vars

(***************************************************************************)
(* The deployed contracts keep the promise of PriceOracle, as it shows in  *)
(* the queries: task_status of the queue, operator_vote and                *)
(* slashable_operators of the verifier, the stored result.                 *)
(***************************************************************************)
Rounds ==
    [id \in DOMAIN tasks |->
        [status |-> Queue!ObservedStatus(tasks[id]),
         votes  |-> [o \in Voters(id) |-> Verifier!OperatorVote(id, o).result],
         price  |-> tasks[id].result]]

Promise == INSTANCE PriceOracle
    WITH rounds <- Rounds, penalized <- Verifier!SlashableOperators,
         Id <- 1..MaxTasks, Price <- Response, NoPrice <- None

\* Two contracts that keep two copies of a task's status, and a clock, appear
\* as one oracle: no vote after the price or the deadline, no second price, a
\* price in the middle of all votes, nobody slashed for agreeing with it.
KeepsPromise == Promise!Spec

(***************************************************************************)
(* If every operator votes while there is time, a price is published.  No  *)
(* block is produced while somebody can still vote; in a deployment where  *)
(* all results are within the spread this settles every task.              *)
(***************************************************************************)
Awaited ==
    \E o \in Members!AllVoters, id \in DOMAIN tasks :
        Verifier!ValidVote(o, id, Queue!TaskStatus(id))

CastVote == StoreVote \/ KeepOpen \/ ReportPrice

TimelyNext == Create \/ (~Awaited /\ Tick) \/ CastVote

TimelySpec == Init /\ [][TimelyNext]_vars /\ WF_vars(CastVote)

\* Honest operators who are in time always get a price published, whatever
\* the order of their votes.
TimelyTasksComplete ==
    \A id \in 1..MaxTasks :
        id \in DOMAIN tasks ~> id \in DOMAIN tasks /\ tasks[id].status = "completed"

(***************************************************************************)
(* What comments and tests of the verifier say and the code does not do    *)
(***************************************************************************)
\* A unit test of is_threshold_met: "threshold should be met when valid is %50
\* of total power".  executed_task passes the tally of the last voter's result
\* string for total_power, so a price may be published although the power that
\* agrees with it is below the threshold's share of the power that voted.
PublishedPriceMeetsThreshold ==
    \A id \in Known :
        Completed(id) =>
            Verifier!ThresholdMet(
                Verifier!SumPower(VotesOn(id), AllowedVoters(id)),
                VotedPower(id), settings.threshold_percent)

\* The task_info query is about "The ID of the task we are interested in": its
\* tallies should add up to the power that voted on that task.  They are those
\* of every task.
TaskInfoOfTask ==
    \A id \in Known :
        LET tallies == Verifier!TaskInfo(id).tallies IN
        MapThenSumSet(LAMBDA key : tallies[key], DOMAIN tallies) = VotedPower(id)
=============================================================================
