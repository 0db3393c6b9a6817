------------------------- MODULE AvsOracle_proofs -------------------------
(***************************************************************************)
(* Theorems about the deployed oracle, for any operators and powers, any   *)
(* settings instantiate accepts, any results and any number of tasks: the  *)
(* verifier's copy of a task never goes stale, votes are final, a price is *)
(* the median of all votes, slashing follows the prices, the tallies       *)
(* account for every vote, no price comes before its quorum, only outliers *)
(* stall a task, and the contracts together keep the promise of            *)
(* PriceOracle.                                                            *)
(*                                                                         *)
(* What executed_task does is proved in three layers: Casts is what every  *)
(* vote does, Joins and Settles are a vote that leaves its task open and   *)
(* one that publishes a price.  The code's tests on sums of powers, which  *)
(* choose between the two, matter only for tallies, quorum and threshold.  *)
(***************************************************************************)
EXTENDS AvsOracle, FiniteSetTheorems, TLAPS

\* What is proved about the queue alone and about the verifier's arithmetic
QueueFacts == INSTANCE TaskQueue_proofs
PriceFacts == INSTANCE OracleArithmetic_proofs

(***************************************************************************)
(* The queue inside the oracle is the queue of TaskQueue.                  *)
(***************************************************************************)
LEMMA SameInit == Init => QueueFacts!Init
BY DEF Init, Queue!Init, QueueFacts!Init, Queue!InitWith, QueueFacts!InitWith,
   Queue!ValidTimeoutConfig, QueueFacts!ValidTimeoutConfig,
   Queue!TimeoutConfig, QueueFacts!TimeoutConfig,
   Queue!UnwrapOr, QueueFacts!UnwrapOr, Queue!Config, QueueFacts!Config,
   Queue!EmptyMap, QueueFacts!EmptyMap

LEMMA SameCreate == Create => QueueFacts!CreateAny
BY DEF Create, Queue!CreateAny, QueueFacts!CreateAny, Queue!Create, QueueFacts!Create,
   Queue!Funds, QueueFacts!Funds, Queue!RequestorAccepts, QueueFacts!RequestorAccepts,
   Queue!CheckedTimeouts, QueueFacts!CheckedTimeouts, Queue!NewTask, QueueFacts!NewTask,
   Queue!Timing, QueueFacts!Timing, Queue!Save, QueueFacts!Save

LEMMA SameTimeout == Timeout => QueueFacts!TimeoutAny
BY DEF Timeout, Queue!TimeoutAny, QueueFacts!TimeoutAny, Queue!Timeout,
   QueueFacts!Timeout, Queue!Funds, QueueFacts!Funds, Queue!NoFunds,
   QueueFacts!NoFunds, Queue!Expirable, QueueFacts!Expirable,
   Queue!IsExpired, QueueFacts!IsExpired, Queue!Save, QueueFacts!Save

LEMMA SameTick == Tick => QueueFacts!Tick
BY DEF Tick, Queue!Tick, QueueFacts!Tick

LEMMA SameComplete ==
    ASSUME NEW id, NEW price,
           Queue!Complete(VerifierAddr, Queue!NoFunds, id, price)
    PROVE  QueueFacts!Complete(VerifierAddr, QueueFacts!NoFunds, id, price)
BY DEF Queue!Complete, QueueFacts!Complete, Queue!NoFunds, QueueFacts!NoFunds,
   Queue!Completable, QueueFacts!Completable, Queue!IsExpired, QueueFacts!IsExpired,
   Queue!Save, QueueFacts!Save

(***************************************************************************)
(* What a vote does                                                        *)
(***************************************************************************)
Ids == 1..MaxTasks

Loaded(id) == Verifier!LoadedMetadata(id, Queue!TaskStatus(id))

\* The part that StoreVote, KeepOpen and ReportPrice share
Casts(operator, id, result) ==
    /\ operator \in Operator /\ id \in DOMAIN tasks /\ result \in Result
    /\ Verifier!ValidVote(operator, id, Queue!TaskStatus(id))
    /\ Verifier!RecordVote(operator, id, result)
    /\ UNCHANGED <<now, config, registry, settings>>

\* A vote that leaves its task open
Joins(operator, id, result) ==
    /\ Casts(operator, id, result)
    /\ metadata' = Verifier!Save(metadata, id, Loaded(id))
    /\ UNCHANGED <<tasks, slashed>>

\* A vote that settles it
Settles(operator, id, result) ==
    LET verdict == Verifier!Verdict(operator, id, result) IN
    /\ Casts(operator, id, result)
    /\ metadata' = Verifier!Save(metadata, id, Verifier!Closed(Loaded(id)))
    /\ slashed' = slashed \cup verdict.slashable
    /\ Queue!Complete(VerifierAddr, Queue!NoFunds, id, verdict.median)

LEMMA OpenVote ==
    ASSUME StoreVote \/ KeepOpen
    PROVE  \E operator \in Operator, id \in DOMAIN tasks, result \in Result :
              Joins(operator, id, result)
<1>1. CASE StoreVote
  BY <1>1 DEF StoreVote, Verifier!StoreVote, Joins, Casts, Loaded
<1>2. CASE KeepOpen
  BY <1>2 DEF KeepOpen, Verifier!KeepOpen, Verifier!Processed, Joins, Casts, Loaded
<1> QED BY <1>1, <1>2

LEMMA PriceVote ==
    ASSUME ReportPrice
    PROVE  \E operator \in Operator, id \in DOMAIN tasks, result \in Result :
              Settles(operator, id, result)
BY ZenonT(30) DEF ReportPrice, Verifier!ReportPrice, Verifier!Processed,
   Verifier!Slash, Queue!Complete, Settles, Casts, Loaded

(***************************************************************************)
(* The votes of a task                                                     *)
(***************************************************************************)
\* Keys of VOTES are pairs of a task and an operator.
LEMMA VotesOnTask ==
    ASSUME NEW store, DOMAIN store \subseteq Ids \X Operator, NEW i
    PROVE  /\ DOMAIN Verifier!VotesOn(store, i)
                = {o \in Operator : <<i, o>> \in DOMAIN store}
           /\ \A o \in DOMAIN Verifier!VotesOn(store, i) :
                Verifier!VotesOn(store, i)[o] = store[<<i, o>>]
<1>1. {key[2] : key \in {k \in DOMAIN store : k[1] = i}}
         = {o \in Operator : <<i, o>> \in DOMAIN store}
  OBVIOUS
<1> QED BY <1>1 DEF Verifier!VotesOn

\* new holds the votes of store and one more, which joins the votes of its
\* task and of no other.
OneMore(new, store, id, op, vote) ==
    /\ DOMAIN new = DOMAIN store \cup {<<id, op>>}
    /\ DOMAIN new \subseteq Ids \X Operator
    /\ \A key \in DOMAIN store : new[key] = store[key]
    /\ new[<<id, op>>] = vote
    /\ \A i : i # id => Verifier!VotesOn(new, i) = Verifier!VotesOn(store, i)
    /\ op \notin DOMAIN Verifier!VotesOn(store, id)
    /\ DOMAIN Verifier!VotesOn(new, id) = DOMAIN Verifier!VotesOn(store, id) \cup {op}
    /\ Verifier!VotesOn(new, id)[op] = vote
    /\ \A o \in DOMAIN Verifier!VotesOn(store, id) :
          Verifier!VotesOn(new, id)[o] = Verifier!VotesOn(store, id)[o]

LEMMA SaveOneMore ==
    ASSUME NEW store, DOMAIN store \subseteq Ids \X Operator,
           NEW id \in Ids, NEW op \in Operator, NEW vote,
           <<id, op>> \notin DOMAIN store
    PROVE  OneMore(Verifier!Save(store, <<id, op>>, vote), store, id, op, vote)
<1> SUFFICES ASSUME NEW new, new = Verifier!Save(store, <<id, op>>, vote)
             PROVE  OneMore(new, store, id, op, vote)
  OBVIOUS
<1> DEFINE key == <<id, op>>
<1>1. /\ DOMAIN new = DOMAIN store \cup {key}
      /\ \A k \in DOMAIN store : new[k] = store[k]
      /\ new[key] = vote
  <2> HIDE DEF key
  <2> QED BY DEF Verifier!Save, key
<1>2. DOMAIN new \subseteq Ids \X Operator
  BY <1>1
<1>3. ASSUME NEW i, i # id
      PROVE  Verifier!VotesOn(new, i) = Verifier!VotesOn(store, i)
  <2>1. {k \in DOMAIN new : k[1] = i} = {k \in DOMAIN store : k[1] = i}
    BY <1>1, <1>3
  <2>2. \A o \in {k[2] : k \in {k \in DOMAIN store : k[1] = i}} :
           <<i, o>> \in DOMAIN store
    OBVIOUS
  <2> QED BY <1>1, <2>1, <2>2 DEF Verifier!VotesOn
<1> DEFINE before == Verifier!VotesOn(store, id)
           after  == Verifier!VotesOn(new, id)
<1>4. /\ DOMAIN before = {o \in Operator : <<id, o>> \in DOMAIN store}
      /\ \A o \in DOMAIN before : before[o] = store[<<id, o>>]
  BY VotesOnTask
<1>5. /\ DOMAIN after = {o \in Operator : <<id, o>> \in DOMAIN new}
      /\ \A o \in DOMAIN after : after[o] = new[<<id, o>>]
  BY ONLY <1>2, VotesOnTask
<1> HIDE DEF before, after
<1>6. \A o \in Operator : <<id, o>> \in DOMAIN new
                             <=> <<id, o>> \in DOMAIN store \/ o = op
  BY <1>1
<1>7. DOMAIN after = DOMAIN before \cup {op} /\ op \notin DOMAIN before
  BY <1>4, <1>5, <1>6
<1>8. after[op] = vote
  BY <1>1, <1>5, <1>7
<1>9. ASSUME NEW o \in DOMAIN before PROVE after[o] = before[o]
  <2>1. <<id, o>> \in DOMAIN store /\ o \in DOMAIN after
    BY <1>4, <1>7
  <2> QED BY <2>1, <1>1, <1>4, <1>5
<1> QED BY <1>1, <1>2, <1>3, <1>7, <1>8, <1>9 DEF OneMore, before, after

\* What VOTES holds: votes of finitely many operators on a task, each with
\* power and for a price some result string spells.
StoredVotes(store) ==
    /\ DOMAIN store \subseteq Ids \X Operator
    /\ \A key \in DOMAIN store :
          store[key].power > 0 /\ \E r \in Result : store[key].result = PriceOf[r]
    /\ \A i \in Ids : IsFiniteSet(DOMAIN Verifier!VotesOn(store, i))

LEMMA StoreOneMore ==
    ASSUME NEW store, StoredVotes(store), NEW id \in Ids, NEW op \in Operator,
           NEW vote, vote.power > 0, NEW r \in Result, vote.result = PriceOf[r],
           <<id, op>> \notin DOMAIN store
    PROVE  StoredVotes(Verifier!Save(store, <<id, op>>, vote))
<1> SUFFICES ASSUME NEW new, new = Verifier!Save(store, <<id, op>>, vote)
             PROVE  StoredVotes(new)
  OBVIOUS
<1>1. OneMore(new, store, id, op, vote)
  BY SaveOneMore DEF StoredVotes
<1>2. /\ DOMAIN new = DOMAIN store \cup {<<id, op>>}
      /\ DOMAIN new \subseteq Ids \X Operator
      /\ \A key \in DOMAIN store : new[key] = store[key]
      /\ new[<<id, op>>] = vote
      /\ \A i : i # id => Verifier!VotesOn(new, i) = Verifier!VotesOn(store, i)
      /\ DOMAIN Verifier!VotesOn(new, id)
           = DOMAIN Verifier!VotesOn(store, id) \cup {op}
  BY <1>1 DEF OneMore
<1>3. \A key \in DOMAIN new :
         new[key].power > 0 /\ \E s \in Result : new[key].result = PriceOf[s]
  BY <1>2 DEF StoredVotes
<1>4. ASSUME NEW i \in Ids PROVE IsFiniteSet(DOMAIN Verifier!VotesOn(new, i))
  <2>1. IsFiniteSet(DOMAIN Verifier!VotesOn(store, i))
    BY DEF StoredVotes
  <2> QED BY <1>2, <2>1, FS_AddElement
<1> QED BY <1>2, <1>3, <1>4 DEF StoredVotes

(***************************************************************************)
(* The reported price                                                      *)
(***************************************************************************)
LEMMA SameCount ==
    ASSUME NEW S
    PROVE  /\ PriceFacts!Cardinality(S) = Cardinality(S)
           /\ PriceFacts!IsFiniteSet(S) = IsFiniteSet(S)
BY DEF PriceFacts!Cardinality, Cardinality, PriceFacts!IsFiniteSet, IsFiniteSet

LEMMA SameMedian ==
    ASSUME NEW v PROVE Verifier!Median(v) = PriceFacts!Median(v)
BY DEF Verifier!Median, PriceFacts!Median, Verifier!Sorted, PriceFacts!Sorted,
   Verifier!Cardinality, PriceFacts!Cardinality

LEMMA SameRange ==
    ASSUME NEW m, NEW s
    PROVE  Verifier!AllowedRange(m, s) = PriceFacts!AllowedRange(m, s)
BY DEF Verifier!AllowedRange, PriceFacts!AllowedRange,
   Verifier!DecimalMul, PriceFacts!DecimalMul

\* What process_votes reports is in the middle of the votes and among the
\* results the queue may be sent.
LEMMA ReportedPrice ==
    ASSUME NEW store, StoredVotes(store), NEW i \in Ids,
           DOMAIN Verifier!VotesOn(store, i) # {}
    PROVE  LET v == Verifier!VotesOn(store, i)
               m == Verifier!Median(v)
           IN  /\ m \in Nat
               /\ m \in Response
               /\ 2 * Cardinality({o \in DOMAIN v : v[o].result < m})
                    <= Cardinality(DOMAIN v)
               /\ 2 * Cardinality({o \in DOMAIN v : v[o].result > m})
                    <= Cardinality(DOMAIN v)
<1> DEFINE v == Verifier!VotesOn(store, i)
           m == PriceFacts!Median(v)
<1>1. IsFiniteSet(DOMAIN v) /\ DOMAIN v # {}
  BY DEF StoredVotes
<1>2. \A o \in DOMAIN v : \E r \in Result : v[o].result = PriceOf[r]
  <2>1. /\ DOMAIN v = {o \in Operator : <<i, o>> \in DOMAIN store}
        /\ \A o \in DOMAIN v : v[o] = store[<<i, o>>]
    BY VotesOnTask, ZenonT(30) DEF StoredVotes
  <2> HIDE DEF v
  <2> QED BY <2>1 DEF StoredVotes
<1> HIDE DEF v
<1>3. \A o \in DOMAIN v : v[o].result \in Nat
  BY <1>2, PriceAssumption
<1>4. PriceFacts!Ballot(v) /\ DOMAIN v # {}
  BY <1>1, <1>3, SameCount DEF PriceFacts!Ballot
<1>5. /\ m \in Nat
      /\ 2 * Cardinality(PriceFacts!Below(v, m)) <= Cardinality(DOMAIN v)
      /\ 2 * Cardinality(PriceFacts!Above(v, m)) <= Cardinality(DOMAIN v)
  BY ONLY <1>4, PriceFacts!MedianInTheMiddle, SameCount, PriceAssumption
<1>6. PICK a, b \in {v[o].result : o \in DOMAIN v} : m = (a + b) \div 2
  BY ONLY <1>4, PriceFacts!MedianOfPrices, PriceAssumption
<1>7. \E r, s \in Result : a = PriceOf[r] /\ b = PriceOf[s]
  BY <1>2
<1>8. m \in Response
  BY <1>6, <1>7, PriceAssumption
<1>9. Verifier!Median(v) = m
  BY SameMedian
<1> QED BY <1>5, <1>8, <1>9 DEF v, PriceFacts!Below, PriceFacts!Above

(***************************************************************************)
(* The inductive invariant                                                 *)
(***************************************************************************)
Kept ==
    /\ DOMAIN tasks \subseteq Ids
    /\ StoredVotes(votes)
    /\ DOMAIN options \subseteq Ids \X Result
    /\ \A id \in Known :
          DOMAIN metadata[id] = {"status", "power_required", "expires_at"}
    /\ settings \in {cfg \in Settings : Verifier!ValidConfig(cfg)}

\* The verifier's copy of the deadline is right, and the two contracts
\* complete a task together.
SameOutcome ==
    /\ \A id \in DOMAIN tasks : tasks[id].status = "completed" => id \in Known
    /\ \A id \in Known :
          /\ metadata[id].expires_at = tasks[id].timing.expires_at
          /\ Completed(id) <=> tasks[id].status = "completed"

Base == QueueFacts!Safe /\ Kept /\ TypeOK /\ SameOutcome

LEMMA CastsOneMore ==
    ASSUME Kept, NEW op, NEW id, NEW r, Casts(op, id, r)
    PROVE  /\ id \in Ids
           /\ votes' = Verifier!VotesWith(op, id, r)
           /\ StoredVotes(votes')
           /\ \E vote : /\ OneMore(votes', votes, id, op, vote)
                        /\ vote.power > 0 /\ vote.result = PriceOf[r]
<1>1. /\ id \in Ids /\ op \in Operator /\ r \in Result
      /\ <<id, op>> \notin DOMAIN votes
      /\ votes' = Verifier!VotesWith(op, id, r)
  BY DEF Kept, Casts, Verifier!ValidVote, Verifier!RecordVote
<1>2. \E vote : /\ votes' = Verifier!Save(votes, <<id, op>>, vote)
                /\ vote.power > 0 /\ vote.result = PriceOf[r]
  BY <1>1 DEF Casts, Verifier!VotesWith, Verifier!ValidVote
<1>3. PICK vote : /\ votes' = Verifier!Save(votes, <<id, op>>, vote)
                  /\ vote.power > 0 /\ vote.result = PriceOf[r]
  BY <1>2
<1>4. StoredVotes(votes')
  BY <1>1, <1>3, StoreOneMore DEF Kept
<1>5. OneMore(votes', votes, id, op, vote)
  BY <1>1, <1>3, SaveOneMore DEF Kept, StoredVotes
<1> QED BY <1>1, <1>3, <1>4, <1>5

\* The price that settles a task
LEMMA SettlesMedian ==
    ASSUME Kept, NEW op, NEW id, NEW r, Settles(op, id, r)
    PROVE  LET v == Verifier!VotesOn(votes', id)
               m == Verifier!Median(v)
           IN  /\ Queue!Complete(VerifierAddr, Queue!NoFunds, id, m)
               /\ slashed' = slashed \cup Verifier!SlashableVoters(v,
                                Verifier!AllowedRange(m, settings.slashable_spread))
               /\ m \in Nat
               /\ m \in Response
               /\ 2 * Cardinality({o \in DOMAIN v : v[o].result < m})
                    <= Cardinality(DOMAIN v)
               /\ 2 * Cardinality({o \in DOMAIN v : v[o].result > m})
                    <= Cardinality(DOMAIN v)
<1> DEFINE v == Verifier!VotesOn(votes', id)
           m == Verifier!Median(v)
<1>1. Casts(op, id, r)
  BY DEF Settles
<1>2. /\ id \in Ids /\ StoredVotes(votes')
      /\ votes' = Verifier!VotesWith(op, id, r)
      /\ \E vote : OneMore(votes', votes, id, op, vote)
  BY <1>1, CastsOneMore
<1>a. DOMAIN v # {}
  BY <1>2 DEF OneMore
<1>3. Verifier!AllVotes(op, id, r) = v
  BY <1>2 DEF Verifier!AllVotes
<1>4. /\ Queue!Complete(VerifierAddr, Queue!NoFunds, id, m)
      /\ slashed' = slashed \cup Verifier!SlashableVoters(v,
                       Verifier!AllowedRange(m, settings.slashable_spread))
  <2> HIDE DEF v
  <2> QED BY <1>3 DEF Settles, Verifier!Verdict, Verifier!ProcessVotes
<1> QED BY <1>2, <1>a, <1>4, ReportedPrice

\* Every step of the oracle is a step of the queue, or none.
LEMMA QueueStep ==
    ASSUME Kept, [Next]_vars
    PROVE  [QueueFacts!Next]_(QueueFacts!vars)
<1>1. CASE Create
  BY <1>1, SameCreate DEF QueueFacts!Next
<1>2. CASE Timeout
  BY <1>2, SameTimeout DEF QueueFacts!Next
<1>3. CASE Tick
  BY <1>3, SameTick DEF QueueFacts!Next
<1>4. CASE StoreVote \/ KeepOpen
  BY <1>4 DEF StoreVote, KeepOpen, QueueFacts!vars
<1>5. CASE ReportPrice
  <2>1. PICK op \in Operator, id \in DOMAIN tasks, r \in Result : Settles(op, id, r)
    BY <1>5, PriceVote
  <2> DEFINE m == Verifier!Median(Verifier!VotesOn(votes', id))
  <2>2. Queue!Complete(VerifierAddr, Queue!NoFunds, id, m) /\ m \in Response
    BY <2>1, SettlesMedian
  <2> HIDE DEF m
  <2>3. QueueFacts!Complete(VerifierAddr, QueueFacts!NoFunds, id, m)
    BY <2>2, SameComplete
  <2>4. /\ VerifierAddr \in Address /\ id \in 1..MaxTasks
        /\ QueueFacts!NoFunds \in QueueFacts!Funds
    BY DeploymentAssumption DEF Kept, Ids, QueueFacts!NoFunds, QueueFacts!Funds
  <2> QED BY <2>2, <2>3, <2>4 DEF QueueFacts!Next, QueueFacts!CompleteAny
<1>6. CASE UNCHANGED vars
  BY <1>6 DEF vars, QueueFacts!vars
<1> QED BY <1>1, <1>2, <1>3, <1>4, <1>5, <1>6 DEF Next

LEMMA QueueSafe ==
    ASSUME Kept, QueueFacts!Safe, [Next]_vars
    PROVE  QueueFacts!Safe'
BY QueueStep, QueueFacts!NextSafe, DeploymentAssumption
   DEF Queue!OptionU64, QueueFacts!OptionU64, Queue!TimeoutInfo, QueueFacts!TimeoutInfo

\* What Safe says of a task
LEMMA TaskFacts ==
    ASSUME QueueFacts!Safe
    PROVE  /\ now \in Nat
           /\ \A id \in DOMAIN tasks :
                /\ tasks[id].timing.expires_at \in Nat
                /\ tasks[id].status \in {"open", "completed", "expired"}
                /\ tasks[id].status = "expired" => tasks[id].timing.expires_at <= now
                /\ tasks[id].status # "completed" => tasks[id].result = None
<1>1. \A id \in DOMAIN tasks :
         /\ tasks[id].timing.expires_at \in Nat
         /\ tasks[id].status \in {"open", "completed", "expired"}
  BY DeploymentAssumption DEF QueueFacts!Safe, QueueFacts!TypeOK, QueueFacts!Task
<1>2. \A id \in DOMAIN tasks :
         /\ tasks[id].status = "expired" => tasks[id].timing.expires_at <= now
         /\ tasks[id].status # "completed" => tasks[id].result = None
  BY DEF QueueFacts!Safe, QueueFacts!DeadlineSeparates,
     QueueFacts!ResultExactlyWhenCompleted
<1> QED BY <1>1, <1>2 DEF QueueFacts!Safe, QueueFacts!TypeOK

\* A vote is taken only on a task that the queue would still complete.
LEMMA VoteInTime ==
    ASSUME Base, NEW op, NEW id, NEW r, Casts(op, id, r)
    PROVE  /\ tasks[id].status = "open" /\ tasks[id].timing.expires_at > now
           /\ Loaded(id).status = "open"
           /\ Loaded(id).expires_at = tasks[id].timing.expires_at
           /\ id \in Known => ~Completed(id)
<1>1. /\ id \in DOMAIN tasks
      /\ Loaded(id).status = "open" /\ Loaded(id).expires_at > now
  BY DEF Casts, Verifier!ValidVote, Loaded
<1>2. /\ now \in Nat /\ tasks[id].timing.expires_at \in Nat
      /\ tasks[id].status \in {"open", "completed", "expired"}
      /\ tasks[id].status = "expired" => tasks[id].timing.expires_at <= now
  BY <1>1, TaskFacts DEF Base
<1>3. CASE id \in Known
  <2>1. Loaded(id) = metadata[id]
    BY <1>3 DEF Loaded, Verifier!LoadedMetadata, Known
  <2>2. ~Completed(id) /\ metadata[id].expires_at = tasks[id].timing.expires_at
    BY <1>1, <1>3, <2>1 DEF Base, SameOutcome, Completed
  <2>3. tasks[id].status # "completed"
    BY <1>3, <2>2 DEF Base, SameOutcome
  <2> QED BY <1>1, <1>2, <2>1, <2>2, <2>3
<1>4. CASE id \notin Known
  <2>1. /\ Loaded(id).status = Queue!ObservedStatus(tasks[id])
        /\ Loaded(id).expires_at = tasks[id].timing.expires_at
    BY <1>4 DEF Loaded, Verifier!LoadedMetadata, Known, Queue!TaskStatus
  <2>2. tasks[id].status = "open"
    BY <1>1, <2>1 DEF Queue!ObservedStatus
  <2> QED BY <1>1, <1>2, <1>4, <2>1, <2>2
<1> QED BY <1>3, <1>4

\* The metadata a vote leaves behind
LEMMA MetadataSaved ==
    ASSUME NEW id, NEW meta, metadata' = Verifier!Save(metadata, id, meta)
    PROVE  /\ Known' = Known \cup {id}
           /\ metadata'[id] = meta
           /\ \A i \in Known \ {id} : metadata'[i] = metadata[i]
BY DEF Verifier!Save, Known

\* What the verifier writes down for a task: a record it can close.
LEMMA MetadataFields ==
    ASSUME Kept, NEW id
    PROVE  LET fields == {"status", "power_required", "expires_at"} IN
           /\ DOMAIN Loaded(id) = fields
           /\ DOMAIN Verifier!Closed(Loaded(id)) = fields
           /\ Verifier!Closed(Loaded(id)).status = "completed"
           /\ Verifier!Closed(Loaded(id)).expires_at = Loaded(id).expires_at
<1>1. DOMAIN Loaded(id) = {"status", "power_required", "expires_at"}
  BY DEF Kept, Known, Loaded, Verifier!LoadedMetadata
<1> QED BY <1>1 DEF Verifier!Closed

(***************************************************************************)
(* The verifier's storage keeps its shape.                                 *)
(***************************************************************************)
Firsts(keys) == {key[1] : key \in keys}
Joined(T, S, key) == T = S \cup {key}

LEMMA FirstsOneMore ==
    ASSUME NEW S, NEW T, NEW a, NEW b, Joined(T, S, <<a, b>>)
    PROVE  Firsts(T) = Firsts(S) \cup {a}
<1>1. <<a, b>>[1] = a
  OBVIOUS
<1> DEFINE new == <<a, b>>
<1>2. new[1] = a
  BY <1>1
<1>3. T = S \cup {new}
  BY DEF Joined
<1> HIDE DEF new
<1>4. Firsts(T) = Firsts(S) \cup {new[1]}
  BY ONLY <1>3 DEF Firsts
<1> QED BY <1>2, <1>4 DEF new

\* What a vote does to the keys of VOTES and OPTIONS
LEMMA CastsKeys ==
    ASSUME Kept, NEW op, NEW id, NEW r, Casts(op, id, r)
    PROVE  /\ id \in DOMAIN tasks /\ op \in Operator
           /\ DOMAIN votes' = DOMAIN votes \cup {<<id, op>>}
           /\ \A key \in DOMAIN votes : votes'[key] = votes[key]
           /\ DOMAIN options' = DOMAIN options \cup {<<id, r>>}
           /\ DOMAIN options' \subseteq Ids \X Result
           /\ UNCHANGED settings
<1>1. /\ id \in DOMAIN tasks /\ op \in Operator /\ r \in Result
      /\ UNCHANGED settings
  BY DEF Casts
<1>2. \E vote : OneMore(votes', votes, id, op, vote)
  BY CastsOneMore
<1>3. /\ DOMAIN votes' = DOMAIN votes \cup {<<id, op>>}
      /\ \A key \in DOMAIN votes : votes'[key] = votes[key]
  BY <1>2 DEF OneMore
<1>4. DOMAIN options' = DOMAIN options \cup {<<id, r>>}
  BY DEF Casts, Verifier!RecordVote, Verifier!Save
<1>5. DOMAIN options' \subseteq Ids \X Result
  BY <1>1, <1>4 DEF Kept
<1> QED BY <1>1, <1>3, <1>4, <1>5

LEMMA CastsKeeps ==
    ASSUME Base, NEW op, NEW id, NEW r, Casts(op, id, r),
           NEW meta, metadata' = Verifier!Save(metadata, id, meta),
           meta.status \in {"open", "completed"},
           DOMAIN meta = {"status", "power_required", "expires_at"},
           slashed' \subseteq Operator, DOMAIN tasks' = DOMAIN tasks
    PROVE  Kept' /\ TypeOK'
<1>1. Kept /\ TypeOK
  BY DEF Base
<1>2. /\ id \in DOMAIN tasks /\ op \in Operator
      /\ DOMAIN votes' = DOMAIN votes \cup {<<id, op>>}
      /\ DOMAIN options' = DOMAIN options \cup {<<id, r>>}
      /\ DOMAIN options' \subseteq Ids \X Result
      /\ UNCHANGED settings
  BY <1>1, CastsKeys
<1>3. StoredVotes(votes')
  BY <1>1, CastsOneMore
<1>4. /\ Known' = Known \cup {id}
      /\ metadata'[id] = meta
      /\ \A i \in Known \ {id} : metadata'[i] = metadata[i]
  BY MetadataSaved
<1>5. Kept'
  BY <1>1, <1>2, <1>3, <1>4 DEF Kept
<1>6. Known' = {key[1] : key \in DOMAIN votes'}
  <2>1. Joined(DOMAIN votes', DOMAIN votes, <<id, op>>)
    BY <1>2 DEF Joined
  <2>2. Firsts(DOMAIN votes') = Firsts(DOMAIN votes) \cup {id}
    BY <2>1, FirstsOneMore
  <2> QED BY <1>1, <1>4, <2>2 DEF TypeOK, Firsts
<1>7. Known' = {key[1] : key \in DOMAIN options'}
  <2>1. Joined(DOMAIN options', DOMAIN options, <<id, r>>)
    BY <1>2 DEF Joined
  <2>2. Firsts(DOMAIN options') = Firsts(DOMAIN options) \cup {id}
    BY <2>1, FirstsOneMore
  <2> QED BY <1>1, <1>4, <2>2 DEF TypeOK, Firsts
<1>8. Known' \subseteq DOMAIN tasks'
  BY <1>1, <1>2, <1>4 DEF TypeOK
<1>9. \A key \in DOMAIN votes' : key[2] \in Operator /\ votes'[key].power > 0
  BY <1>3 DEF StoredVotes
<1>10. \A i \in Known' : metadata'[i].status \in {"open", "completed"}
  BY <1>1, <1>4 DEF TypeOK
<1> QED BY <1>5, <1>6, <1>7, <1>8, <1>9, <1>10 DEF TypeOK

LEMMA JoinsKeeps ==
    ASSUME Base, NEW op, NEW id, NEW r, Joins(op, id, r)
    PROVE  Kept' /\ TypeOK' /\ SameOutcome'
<1>1. /\ Casts(op, id, r) /\ Kept
      /\ UNCHANGED <<tasks, slashed>>
      /\ metadata' = Verifier!Save(metadata, id, Loaded(id))
  BY DEF Joins, Base
<1>2. /\ tasks[id].status = "open"
      /\ Loaded(id).status = "open"
      /\ Loaded(id).expires_at = tasks[id].timing.expires_at
  BY <1>1, VoteInTime
<1>3. DOMAIN Loaded(id) = {"status", "power_required", "expires_at"}
  BY <1>1, MetadataFields
<1>4. slashed' \subseteq Operator
  BY <1>1 DEF Base, TypeOK
<1>5. Kept' /\ TypeOK'
  BY <1>1, <1>2, <1>3, <1>4, CastsKeeps
<1>6. /\ Known' = Known \cup {id}
      /\ metadata'[id] = Loaded(id)
      /\ \A i \in Known \ {id} : metadata'[i] = metadata[i]
  BY <1>1, MetadataSaved
<1>7. SameOutcome'
  BY <1>1, <1>2, <1>6 DEF Base, SameOutcome, Completed
<1> QED BY <1>5, <1>7

LEMMA SettlesKeeps ==
    ASSUME Base, NEW op, NEW id, NEW r, Settles(op, id, r)
    PROVE  Kept' /\ TypeOK' /\ SameOutcome'
<1> DEFINE meta == Verifier!Closed(Loaded(id))
           v    == Verifier!VotesOn(votes', id)
           m    == Verifier!Median(v)
<1>1. /\ Casts(op, id, r) /\ Kept
      /\ metadata' = Verifier!Save(metadata, id, meta)
  BY DEF Settles, Base
<1>2. /\ Loaded(id).expires_at = tasks[id].timing.expires_at
      /\ id \in DOMAIN tasks
  BY <1>1, VoteInTime, CastsKeys
<1>3. /\ DOMAIN meta = {"status", "power_required", "expires_at"}
      /\ meta.status = "completed"
      /\ meta.expires_at = tasks[id].timing.expires_at
  BY <1>1, <1>2, MetadataFields
<1>4. /\ Queue!Complete(VerifierAddr, Queue!NoFunds, id, m) /\ m \in Response
      /\ slashed' = slashed \cup Verifier!SlashableVoters(v,
                       Verifier!AllowedRange(m, settings.slashable_spread))
  BY <1>1, SettlesMedian
<1>5. slashed' \subseteq Operator
  <2>1. StoredVotes(votes')
    BY <1>1, CastsOneMore
  <2>2. DOMAIN v \subseteq Operator
    BY <2>1, VotesOnTask DEF StoredVotes
  <2> HIDE DEF v
  <2> QED BY <1>4, <2>2 DEF Base, TypeOK, Verifier!SlashableVoters
<1> HIDE DEF m, v, meta
<1>6. /\ DOMAIN tasks' = DOMAIN tasks
      /\ tasks'[id].status = "completed"
      /\ tasks'[id].timing = tasks[id].timing
      /\ \A k \in DOMAIN tasks \ {id} : tasks'[k] = tasks[k]
  <2>1. QueueFacts!Complete(VerifierAddr, QueueFacts!NoFunds, id, m)
    BY <1>4, SameComplete
  <2> QED BY <1>4, <2>1, QueueFacts!CompleteEffect, DeploymentAssumption
          DEF Base, QueueFacts!Safe, Queue!OptionU64, QueueFacts!OptionU64,
              Queue!TimeoutInfo, QueueFacts!TimeoutInfo
<1>7. Kept' /\ TypeOK'
  BY <1>1, <1>3, <1>5, <1>6, CastsKeeps
<1>8. /\ Known' = Known \cup {id}
      /\ metadata'[id] = meta
      /\ \A i \in Known \ {id} : metadata'[i] = metadata[i]
  BY <1>1, MetadataSaved
<1>9. SameOutcome'
  BY <1>2, <1>3, <1>6, <1>8, ZenonT(30)
     DEF Base, SameOutcome, Completed, TypeOK
<1> QED BY <1>7, <1>9

\* The queue's own transactions, as the verifier's storage sees them
LEMMA CreateAdds ==
    ASSUME Base, Create
    PROVE  \E id \in Ids, timeout \in Nat :
              /\ id \notin DOMAIN tasks
              /\ DOMAIN tasks' = DOMAIN tasks \cup {id}
              /\ tasks'[id] = QueueFacts!NewTask(timeout)
              /\ \A k \in DOMAIN tasks : tasks'[k] = tasks[k]
<1>1. PICK sender \in Address, funds \in QueueFacts!Funds, t \in Requested :
         QueueFacts!Create(sender, funds, t)
  BY SameCreate DEF QueueFacts!CreateAny
<1>2. config.next_id \in Ids
  BY <1>1, DeploymentAssumption
     DEF QueueFacts!Create, Base, QueueFacts!Safe, QueueFacts!TypeOK, Ids
<1>3. \E timeout \in Nat :
         /\ config.next_id \notin DOMAIN tasks
         /\ DOMAIN tasks' = DOMAIN tasks \cup {config.next_id}
         /\ tasks'[config.next_id] = QueueFacts!NewTask(timeout)
         /\ \A k \in DOMAIN tasks : tasks'[k] = tasks[k]
  BY <1>1, QueueFacts!CreateEffect, DeploymentAssumption
     DEF Base, QueueFacts!Safe, Queue!OptionU64, QueueFacts!OptionU64,
         Queue!TimeoutInfo, QueueFacts!TimeoutInfo
<1> QED BY <1>2, <1>3

LEMMA TimeoutExpires ==
    ASSUME Base, Timeout
    PROVE  \E id \in DOMAIN tasks :
              /\ tasks[id].status = "open" /\ tasks[id].timing.expires_at <= now
              /\ DOMAIN tasks' = DOMAIN tasks
              /\ tasks'[id].status = "expired"
              /\ tasks'[id].result = tasks[id].result
              /\ tasks'[id].timing = tasks[id].timing
              /\ \A k \in DOMAIN tasks \ {id} : tasks'[k] = tasks[k]
<1>1. PICK funds, id : QueueFacts!Timeout(funds, id)
  BY SameTimeout DEF QueueFacts!TimeoutAny
<1>2. /\ id \in DOMAIN tasks
      /\ QueueFacts!Expirable(tasks[id])
      /\ DOMAIN tasks' = DOMAIN tasks
      /\ tasks'[id].status = "expired"
      /\ tasks'[id].result = tasks[id].result
      /\ tasks'[id].timing = tasks[id].timing
      /\ \A k \in DOMAIN tasks \ {id} : tasks'[k] = tasks[k]
  BY <1>1, QueueFacts!TimeoutEffect, DeploymentAssumption
     DEF Base, QueueFacts!Safe, Queue!OptionU64, QueueFacts!OptionU64,
         Queue!TimeoutInfo, QueueFacts!TimeoutInfo
<1> QED BY <1>2 DEF QueueFacts!Expirable, QueueFacts!IsExpired

\* Steps that leave the verifier's storage alone
LEMMA QuietKeeps ==
    ASSUME Base, UNCHANGED verifierVars, DOMAIN tasks' \subseteq Ids,
           DOMAIN tasks \subseteq DOMAIN tasks',
           \A id \in DOMAIN tasks :
              /\ tasks'[id].timing = tasks[id].timing
              /\ tasks'[id].status = "completed" <=> tasks[id].status = "completed",
           \A id \in DOMAIN tasks' \ DOMAIN tasks : tasks'[id].status # "completed"
    PROVE  Kept' /\ TypeOK' /\ SameOutcome'
<1>1. /\ votes' = votes /\ options' = options /\ metadata' = metadata
      /\ settings' = settings /\ slashed' = slashed
  BY DEF verifierVars
<1>2. Kept'
  BY <1>1 DEF Base, Kept, Known
<1>3. TypeOK'
  BY <1>1 DEF Base, TypeOK, Known
<1>4. SameOutcome'
  BY <1>1 DEF Base, TypeOK, SameOutcome, Completed, Known
<1> QED BY <1>2, <1>3, <1>4

LEMMA BaseInit == Init => Base
<1> SUFFICES ASSUME Init PROVE Base
  OBVIOUS
<1>1. QueueFacts!Safe
  BY SameInit, QueueFacts!InitSafe, DeploymentAssumption
     DEF Queue!OptionU64, QueueFacts!OptionU64, Queue!TimeoutInfo, QueueFacts!TimeoutInfo
<1>2. /\ tasks = QueueFacts!EmptyMap
      /\ votes = Verifier!EmptyMap /\ options = Verifier!EmptyMap
      /\ metadata = Verifier!EmptyMap /\ slashed = {}
      /\ settings \in {cfg \in Settings : Verifier!ValidConfig(cfg)}
  BY SameInit DEF Init, Verifier!Init, QueueFacts!Init, QueueFacts!InitWith
<1>3. /\ DOMAIN tasks = {} /\ DOMAIN votes = {} /\ DOMAIN options = {}
      /\ DOMAIN metadata = {}
  BY <1>2 DEF QueueFacts!EmptyMap, Verifier!EmptyMap
<1>4. ASSUME NEW i \in Ids PROVE IsFiniteSet(DOMAIN Verifier!VotesOn(votes, i))
  <2>1. DOMAIN Verifier!VotesOn(votes, i) = {}
    BY <1>3, VotesOnTask
  <2> QED BY <2>1, FS_EmptySet
<1>5. Kept
  BY <1>2, <1>3, <1>4 DEF Kept, StoredVotes, Known
<1>6. TypeOK
  BY <1>2, <1>3 DEF TypeOK, Known
<1>7. SameOutcome
  BY <1>3 DEF SameOutcome, Known
<1> QED BY <1>1, <1>5, <1>6, <1>7 DEF Base

LEMMA BaseNext == Base /\ [Next]_vars => Base'
<1> SUFFICES ASSUME Base, [Next]_vars PROVE Base'
  OBVIOUS
<1>1. QueueFacts!Safe'
  BY QueueSafe DEF Base
<1>2. DOMAIN tasks \subseteq Ids
  BY DEF Base, Kept
<1>3. CASE Create
  <2>1. PICK id \in Ids, timeout \in Nat :
          /\ DOMAIN tasks' = DOMAIN tasks \cup {id}
          /\ id \notin DOMAIN tasks
          /\ tasks'[id] = QueueFacts!NewTask(timeout)
          /\ \A k \in DOMAIN tasks : tasks'[k] = tasks[k]
    BY <1>3, CreateAdds
  <2>2. tasks'[id].status # "completed"
    BY <2>1 DEF QueueFacts!NewTask
  <2>3. UNCHANGED verifierVars
    BY <1>3 DEF Create
  <2>4. Kept' /\ TypeOK' /\ SameOutcome'
    BY <1>2, <2>1, <2>2, <2>3, QuietKeeps
  <2> QED BY <1>1, <2>4 DEF Base
<1>4. CASE Timeout
  <2>1. PICK id \in DOMAIN tasks :
          /\ tasks[id].status = "open"
          /\ DOMAIN tasks' = DOMAIN tasks
          /\ tasks'[id].status = "expired"
          /\ tasks'[id].timing = tasks[id].timing
          /\ \A k \in DOMAIN tasks \ {id} : tasks'[k] = tasks[k]
    BY <1>4, TimeoutExpires
  <2>2. UNCHANGED verifierVars
    BY <1>4 DEF Timeout
  <2>3. Kept' /\ TypeOK' /\ SameOutcome'
    BY <1>2, <2>1, <2>2, QuietKeeps
  <2> QED BY <1>1, <2>3 DEF Base
<1>5. CASE Tick \/ UNCHANGED vars
  <2>1. UNCHANGED verifierVars /\ tasks' = tasks
    BY <1>5 DEF Tick, Queue!Tick, vars, verifierVars
  <2>2. Kept' /\ TypeOK' /\ SameOutcome'
    BY <1>2, <2>1, QuietKeeps
  <2> QED BY <1>1, <2>2 DEF Base
<1>6. CASE StoreVote \/ KeepOpen
  BY <1>1, <1>6, OpenVote, JoinsKeeps DEF Base
<1>7. CASE ReportPrice
  BY <1>1, <1>7, PriceVote, SettlesKeeps DEF Base
<1> QED BY <1>3, <1>4, <1>5, <1>6, <1>7 DEF Next

\* The queue is safe, the verifier's storage is well formed and the two
\* contracts agree on every outcome, whatever order their steps come in.
THEOREM BaseInvariant == Spec => []Base
BY BaseInit, BaseNext, PTL DEF Spec

\* Whatever the verifier does to it, the queue behaves as a queue on its own:
\* every theorem about TaskQueue holds of the deployed one.
THEOREM QueueInside == Spec => QueueFacts!Spec
<1>1. Base /\ [Next]_vars => [QueueFacts!Next]_(QueueFacts!vars)
  BY QueueStep DEF Base
<1> QED BY <1>1, SameInit, BaseInvariant, PTL DEF Spec, QueueFacts!Spec

(***************************************************************************)
(* Two copies of a task's status                                           *)
(***************************************************************************)
LEMMA BaseAgrees == Base => VerifierAgreesWithQueue
<1> SUFFICES ASSUME Base, NEW id \in Known
             PROVE  /\ metadata[id].expires_at = tasks[id].timing.expires_at
                    /\ Completed(id) <=> tasks[id].status = "completed"
                    /\ metadata[id].status = "open" /\ metadata[id].expires_at > now
                          => Queue!Completable(tasks[id])
                    /\ Verifier!TaskInfo(id).status = Queue!ObservedStatus(tasks[id])
  BY DEF Base, SameOutcome, VerifierAgreesWithQueue
<1>1. /\ id \in DOMAIN tasks
      /\ metadata[id].status \in {"open", "completed"}
      /\ metadata[id].expires_at = tasks[id].timing.expires_at
      /\ metadata[id].status = "completed" <=> tasks[id].status = "completed"
      /\ Completed(id) <=> tasks[id].status = "completed"
  BY DEF Base, TypeOK, SameOutcome, Completed
<1>2. /\ now \in Nat /\ tasks[id].timing.expires_at \in Nat
      /\ tasks[id].status \in {"open", "completed", "expired"}
      /\ tasks[id].status = "expired" => tasks[id].timing.expires_at <= now
  BY <1>1, TaskFacts DEF Base
<1>3. metadata[id].status = "open" /\ metadata[id].expires_at > now
         => Queue!Completable(tasks[id])
  BY <1>1, <1>2 DEF Queue!Completable, Queue!IsExpired
<1>4. Verifier!TaskInfo(id).status = Queue!ObservedStatus(tasks[id])
  <2>1. Verifier!TaskInfo(id).status =
           IF metadata[id].status = "open" /\ metadata[id].expires_at <= now
           THEN "expired" ELSE metadata[id].status
    BY DEF Verifier!TaskInfo
  <2> QED BY <1>1, <1>2, <2>1 DEF Queue!ObservedStatus, Queue!IsExpired
<1> QED BY <1>1, <1>3, <1>4

\* For any operators, powers, prices and settings, and however votes, timeouts
\* and blocks interleave, the verifier's copy never goes stale: its Complete
\* message is never refused.
THEOREM Agreement == Spec => []VerifierAgreesWithQueue
BY BaseInvariant, BaseAgrees, PTL

\* Tallies and metadata exist exactly for the tasks somebody voted on.
THEOREM TypeCorrect == Spec => []TypeOK
<1>1. Base => TypeOK
  BY DEF Base
<1> QED BY <1>1, BaseInvariant, PTL

\* Votes are never changed or removed, and a completed task gets none.
THEOREM FinalVotes == Spec => VotesAreFinal
<1> DEFINE Final ==
      /\ \A key \in DOMAIN votes : key \in DOMAIN votes' /\ votes'[key] = votes[key]
      /\ \A key \in DOMAIN votes' \ DOMAIN votes :
            key[1] \in Known => ~Completed(key[1])
<1>1. Base /\ [Next]_vars => [Final]_vars
  <2> SUFFICES ASSUME Base, Next PROVE Final
    BY DEF vars
  <2>1. CASE Create \/ Timeout \/ Tick
    BY <2>1 DEF Create, Timeout, Tick, verifierVars
  <2>2. ASSUME NEW op, NEW id, NEW r, Casts(op, id, r)
        PROVE  Final
    <3>1. /\ DOMAIN votes' = DOMAIN votes \cup {<<id, op>>}
          /\ \A key \in DOMAIN votes : votes'[key] = votes[key]
      BY <2>2, CastsKeys DEF Base
    <3>2. id \in Known => ~Completed(id)
      BY <2>2, VoteInTime
    <3>3. \A key \in DOMAIN votes' \ DOMAIN votes : key[1] = id
      BY <3>1
    <3> QED BY <3>1, <3>2, <3>3
  <2> HIDE DEF Final
  <2>3. CASE StoreVote \/ KeepOpen
    BY <2>2, <2>3, OpenVote DEF Joins
  <2>4. CASE ReportPrice
    BY <2>2, <2>4, PriceVote DEF Settles
  <2> QED BY <2>1, <2>3, <2>4 DEF Next
<1> QED BY <1>1, BaseInvariant, PTL DEF Spec, VotesAreFinal

(***************************************************************************)
(* Prices and penalties                                                    *)
(***************************************************************************)
Done == {id \in Known : Completed(id)}

PriceIn(store, id) == Verifier!Median(Verifier!VotesOn(store, id))

OutliersIn(store, spread, id) ==
    Verifier!SlashableVoters(Verifier!VotesOn(store, id),
        Verifier!AllowedRange(PriceIn(store, id), spread))

Priced == \A id \in Done : tasks[id].result = PriceIn(votes, id)

Penalized == slashed = UNION {OutliersIn(votes, settings.slashable_spread, id) : id \in Done}

LEMMA PricedMeans == Priced => PublishedPriceIsMedian
BY DEF Priced, PublishedPriceIsMedian, Done, PriceIn, MedianOf, VotesOn

LEMMA PenalizedMeans == Penalized => SlashedExactlyOutliers
BY DEF Penalized, SlashedExactlyOutliers, Done, OutliersIn, PriceIn, Outliers,
   MedianOf, VotesOn

\* A vote that leaves its task open leaves the completed ones alone.
LEMMA JoinsDone ==
    ASSUME Base, NEW op, NEW id, NEW r, Joins(op, id, r)
    PROVE  /\ Done' = Done
           /\ \A i \in Done : Verifier!VotesOn(votes', i) = Verifier!VotesOn(votes, i)
<1>1. /\ Casts(op, id, r)
      /\ metadata' = Verifier!Save(metadata, id, Loaded(id))
  BY DEF Joins
<1>2. Loaded(id).status = "open" /\ (id \in Known => ~Completed(id))
  BY <1>1, VoteInTime
<1>3. /\ Known' = Known \cup {id}
      /\ metadata'[id] = Loaded(id)
      /\ \A i \in Known \ {id} : metadata'[i] = metadata[i]
  BY <1>1, MetadataSaved
<1>4. Done' = Done /\ id \notin Done
  BY <1>2, <1>3 DEF Done, Completed
<1>5. \E vote : OneMore(votes', votes, id, op, vote)
  BY <1>1, CastsOneMore DEF Base
<1>6. \A i : i # id => Verifier!VotesOn(votes', i) = Verifier!VotesOn(votes, i)
  BY <1>5 DEF OneMore
<1> QED BY <1>4, <1>6

\* A vote that settles its task adds it to the completed ones.
LEMMA SettlesDone ==
    ASSUME Base, NEW op, NEW id, NEW r, Settles(op, id, r)
    PROVE  /\ Done' = Done \cup {id} /\ id \notin Done /\ id \in DOMAIN tasks
           /\ \A i \in Done : /\ Verifier!VotesOn(votes', i) = Verifier!VotesOn(votes, i)
                              /\ tasks'[i] = tasks[i]
           /\ tasks'[id].result = PriceIn(votes', id)
           /\ slashed' = slashed \cup OutliersIn(votes', settings.slashable_spread, id)
           /\ UNCHANGED settings
<1> DEFINE meta == Verifier!Closed(Loaded(id))
           m    == Verifier!Median(Verifier!VotesOn(votes', id))
<1>1. /\ Casts(op, id, r) /\ Kept
      /\ metadata' = Verifier!Save(metadata, id, meta)
  BY DEF Settles, Base
<1>2. /\ id \in Known => ~Completed(id)
      /\ id \in DOMAIN tasks
      /\ UNCHANGED settings
  BY <1>1, VoteInTime, CastsKeys
<1>3. meta.status = "completed"
  BY <1>1, MetadataFields
<1>4. /\ Queue!Complete(VerifierAddr, Queue!NoFunds, id, m) /\ m \in Response
      /\ slashed' = slashed \cup OutliersIn(votes', settings.slashable_spread, id)
  BY <1>1, SettlesMedian DEF OutliersIn, PriceIn
<1> HIDE DEF meta, m
<1>5. /\ Known' = Known \cup {id}
      /\ metadata'[id] = meta
      /\ \A i \in Known \ {id} : metadata'[i] = metadata[i]
  BY <1>1, MetadataSaved
<1>6. Done' = Done \cup {id} /\ id \notin Done
  BY <1>2, <1>3, <1>5 DEF Done, Completed
<1>7. /\ tasks'[id].result = m
      /\ \A k \in DOMAIN tasks \ {id} : tasks'[k] = tasks[k]
  <2>1. QueueFacts!Complete(VerifierAddr, QueueFacts!NoFunds, id, m)
    BY <1>4, SameComplete
  <2> QED BY <1>4, <2>1, QueueFacts!CompleteEffect, DeploymentAssumption
          DEF Base, QueueFacts!Safe, Queue!OptionU64, QueueFacts!OptionU64,
              Queue!TimeoutInfo, QueueFacts!TimeoutInfo
<1>8. Done \subseteq DOMAIN tasks
  BY DEF Base, TypeOK, Done
<1>9. \E vote : OneMore(votes', votes, id, op, vote)
  BY <1>1, CastsOneMore
<1>10. \A i : i # id => Verifier!VotesOn(votes', i) = Verifier!VotesOn(votes, i)
  BY <1>9 DEF OneMore
<1>11. m = PriceIn(votes', id)
  BY DEF m, PriceIn
<1> QED BY <1>2, <1>4, <1>6, <1>7, <1>8, <1>10, <1>11

LEMMA PricesNext ==
    ASSUME Base, Priced, Penalized, [Next]_vars
    PROVE  Priced' /\ Penalized'
<1>1. CASE UNCHANGED verifierVars /\ \A id \in Done : tasks'[id].result = tasks[id].result
  <2>1. /\ votes' = votes /\ slashed' = slashed /\ settings' = settings
        /\ metadata' = metadata
    BY <1>1 DEF verifierVars
  <2>2. Done' = Done
    BY <2>1 DEF Done, Known, Completed
  <2> QED BY <1>1, <2>1, <2>2 DEF Priced, Penalized
<1>2. Done \subseteq DOMAIN tasks
  BY DEF Base, TypeOK, Done
<1>3. CASE Create
  BY <1>1, <1>2, <1>3, CreateAdds DEF Create
<1>4. CASE Timeout
  BY <1>1, <1>2, <1>4, TimeoutExpires DEF Timeout
<1>5. CASE Tick \/ UNCHANGED vars
  BY <1>1, <1>5 DEF Tick, Queue!Tick, vars, verifierVars
<1>6. CASE StoreVote \/ KeepOpen
  <2>1. PICK op \in Operator, id \in DOMAIN tasks, r \in Result : Joins(op, id, r)
    BY <1>6, OpenVote
  <2>2. /\ Done' = Done
        /\ \A i \in Done : Verifier!VotesOn(votes', i) = Verifier!VotesOn(votes, i)
    BY <2>1, JoinsDone
  <2>3. tasks' = tasks /\ slashed' = slashed /\ settings' = settings
    BY <2>1 DEF Joins, Casts
  <2>4. \A i \in Done :
          /\ PriceIn(votes', i) = PriceIn(votes, i)
          /\ OutliersIn(votes', settings.slashable_spread, i)
               = OutliersIn(votes, settings.slashable_spread, i)
    BY <2>2 DEF PriceIn, OutliersIn
  <2> QED BY <2>2, <2>3, <2>4 DEF Priced, Penalized
<1>7. CASE ReportPrice
  <2>1. PICK op \in Operator, id \in DOMAIN tasks, r \in Result : Settles(op, id, r)
    BY <1>7, PriceVote
  <2>2. /\ Done' = Done \cup {id} /\ id \notin Done
        /\ \A i \in Done : /\ Verifier!VotesOn(votes', i) = Verifier!VotesOn(votes, i)
                           /\ tasks'[i] = tasks[i]
        /\ tasks'[id].result = PriceIn(votes', id)
        /\ slashed' = slashed \cup OutliersIn(votes', settings.slashable_spread, id)
        /\ settings' = settings
    BY <2>1, SettlesDone
  <2>3. \A i \in Done :
          /\ PriceIn(votes', i) = PriceIn(votes, i)
          /\ OutliersIn(votes', settings.slashable_spread, i)
               = OutliersIn(votes, settings.slashable_spread, i)
    BY <2>2 DEF PriceIn, OutliersIn
  <2>4. Priced'
    BY <2>2, <2>3 DEF Priced
  <2>5. Penalized'
    BY <2>2, <2>3 DEF Penalized
  <2> QED BY <2>4, <2>5
<1> QED BY <1>3, <1>4, <1>5, <1>6, <1>7 DEF Next

\* A published price is the median of its task's votes, and the slashed
\* operators are those outside the slashable spread of one.
THEOREM PricesInvariant == Spec => [](Base /\ Priced /\ Penalized)
<1>1. Init => Base /\ Priced /\ Penalized
  <2> SUFFICES ASSUME Init PROVE Base /\ Priced /\ Penalized
    OBVIOUS
  <2>1. Base
    BY BaseInit
  <2>2. Done = {} /\ slashed = {}
    BY DEF Init, Verifier!Init, Verifier!EmptyMap, Done, Known
  <2> QED BY <2>1, <2>2 DEF Priced, Penalized
<1>2. Base /\ Priced /\ Penalized /\ [Next]_vars => (Base /\ Priced /\ Penalized)'
  BY BaseNext, PricesNext
<1> QED BY <1>1, <1>2, PTL DEF Spec

\* The queue's published price is the median of the verifier's votes for good.
THEOREM MedianPublished == Spec => []PublishedPriceIsMedian
BY PricesInvariant, PricedMeans, PTL

\* Slashing follows the published prices exactly, over all tasks together.
THEOREM SlashingExact == Spec => []SlashedExactlyOutliers
BY PricesInvariant, PenalizedMeans, PTL

(***************************************************************************)
(* Sums of powers                                                          *)
(***************************************************************************)
Powers(v) == \A o \in DOMAIN v : v[o].power \in Nat

LEMMA FiniteWeights ==
    ASSUME NEW S, IsFiniteSet(S), NEW w, \A x \in S : w[x] \in Nat
    PROVE  PriceFacts!IsFiniteSet(S) /\ PriceFacts!Weights(S, w)
BY SameCount DEF PriceFacts!Weights

LEMMA PowerTotal ==
    ASSUME NEW v, NEW S, IsFiniteSet(S)
    PROVE  Verifier!SumPower(v, S) = PriceFacts!Total(S, [o \in S |-> v[o].power])
<1>1. Verifier!SumPower(v, S) = PriceFacts!SumPower(v, S)
  BY DEF Verifier!SumPower, PriceFacts!SumPower, Verifier!MapThenSumSet,
     PriceFacts!MapThenSumSet, Verifier!MapThenFoldSet, PriceFacts!MapThenFoldSet
<1>2. PriceFacts!IsFiniteSet(S)
  BY SameCount
<1> QED BY <1>1, <1>2, PriceFacts!SumPowerTotal, PriceAssumption

LEMMA TallyTotal ==
    ASSUME NEW opts, NEW K
    PROVE  MapThenSumSet(LAMBDA key : opts[key], K) = PriceFacts!Total(K, opts)
BY DEF MapThenSumSet, MapThenFoldSet, PriceFacts!Total, PriceFacts!Adds, PriceFacts!AddsUp

LEMMA SumOfNone == ASSUME NEW v PROVE Verifier!SumPower(v, {}) = 0
<1>1. IsFiniteSet({})
  BY FS_EmptySet
<1> QED BY <1>1, PowerTotal, PriceFacts!TotalOfNone, PriceAssumption

LEMMA SumType ==
    ASSUME NEW v, NEW S, IsFiniteSet(S), \A o \in S : v[o].power \in Nat
    PROVE  Verifier!SumPower(v, S) \in Nat
<1> DEFINE w == [o \in S |-> v[o].power]
<1>1. PriceFacts!Weights(S, w)
  BY FiniteWeights
<1> HIDE DEF w
<1>2. PriceFacts!Total(S, w) \in Nat
  BY <1>1, PriceFacts!TotalType, PriceAssumption
<1> QED BY <1>2, PowerTotal DEF w

\* The same powers have the same sum.
LEMMA SumSame ==
    ASSUME NEW v, NEW u, NEW S, IsFiniteSet(S), \A o \in S : v[o].power = u[o].power
    PROVE  Verifier!SumPower(v, S) = Verifier!SumPower(u, S)
<1>1. [o \in S |-> v[o].power] = [o \in S |-> u[o].power]
  OBVIOUS
<1>2. /\ Verifier!SumPower(v, S) = PriceFacts!Total(S, [o \in S |-> v[o].power])
      /\ Verifier!SumPower(u, S) = PriceFacts!Total(S, [o \in S |-> u[o].power])
  BY PowerTotal
<1> QED BY <1>1, <1>2

LEMMA SumAdds ==
    ASSUME NEW v, NEW S, IsFiniteSet(S), NEW op, op \notin S,
           \A o \in S \cup {op} : v[o].power \in Nat
    PROVE  Verifier!SumPower(v, S \cup {op}) = Verifier!SumPower(v, S) + v[op].power
<1> DEFINE T == S \cup {op}
           w == [o \in T |-> v[o].power]
           u == [o \in S |-> v[o].power]
<1>1. IsFiniteSet(T) /\ T = S \cup {op}
  BY FS_AddElement
<1>2. /\ \A x \in T : w[x] \in Nat
      /\ w[op] = v[op].power /\ \A x \in S : w[x] = u[x]
  OBVIOUS
<1>3. Verifier!SumPower(v, T) = PriceFacts!Total(T, w)
  BY <1>1, PowerTotal
<1>4. Verifier!SumPower(v, S) = PriceFacts!Total(S, u)
  BY PowerTotal
<1> HIDE DEF T, w, u
<1>5. PriceFacts!Weights(S \cup {op}, w) /\ PriceFacts!IsFiniteSet(S)
  BY <1>1, <1>2, FiniteWeights
<1>6. PriceFacts!Total(S \cup {op}, w) = PriceFacts!Total(S, w) + w[op]
  BY <1>5, PriceFacts!TotalAdds, PriceAssumption
<1>7. PriceFacts!Total(S, w) = PriceFacts!Total(S, u)
  BY <1>2, <1>5, PriceFacts!SameTotal, PriceAssumption
<1> QED BY <1>1, <1>2, <1>3, <1>4, <1>6, <1>7

LEMMA SumMonotone ==
    ASSUME NEW v, NEW S, IsFiniteSet(S), NEW T \in SUBSET S, \A o \in S : v[o].power \in Nat
    PROVE  Verifier!SumPower(v, T) <= Verifier!SumPower(v, S)
<1> DEFINE w == [o \in S |-> v[o].power]
           u == [o \in T |-> v[o].power]
<1>1. IsFiniteSet(T)
  BY FS_Subset
<1>2. /\ \A x \in S : w[x] \in Nat
      /\ \A x \in T : w[x] = u[x]
  OBVIOUS
<1>3. /\ Verifier!SumPower(v, S) = PriceFacts!Total(S, w)
      /\ Verifier!SumPower(v, T) = PriceFacts!Total(T, u)
  BY <1>1, PowerTotal
<1> HIDE DEF w, u
<1>4. PriceFacts!Weights(S, w) /\ PriceFacts!IsFiniteSet(T)
  BY <1>1, <1>2, FiniteWeights
<1>5. PriceFacts!Total(T, w) <= PriceFacts!Total(S, w)
  BY <1>4, PriceFacts!TotalMonotone, PriceAssumption
<1>6. PriceFacts!Total(T, w) = PriceFacts!Total(T, u)
  BY <1>2, <1>4, PriceFacts!SameTotal, PriceAssumption
<1> QED BY <1>3, <1>5, <1>6

\* One key more, or more power under one of the keys, adds that power.
LEMMA TallyAdds ==
    ASSUME NEW old, NEW new, NEW K, NEW key, IsFiniteSet(K \cup {key}),
           \A k \in K \ {key} : old[k] \in Nat /\ new[k] = old[k],
           NEW before \in Nat, NEW power \in Nat,
           key \in K => old[key] = before, key \notin K => before = 0,
           new[key] = before + power
    PROVE  /\ PriceFacts!Total(K, old) \in Nat
           /\ PriceFacts!Total(K \cup {key}, new) = PriceFacts!Total(K, old) + power
<1> DEFINE R == K \ {key}
           T == K \cup {key}
<1>1. IsFiniteSet(R) /\ IsFiniteSet(K)
  BY FS_Subset
<1>2. /\ PriceFacts!Weights(R, old) /\ PriceFacts!Weights(T, new) /\ PriceFacts!Weights(K, old)
      /\ PriceFacts!IsFiniteSet(R)
  <2>1. (\A k \in T : new[k] \in Nat) /\ (\A k \in K : old[k] \in Nat)
    OBVIOUS
  <2> QED BY <1>1, <2>1, FiniteWeights
<1>3. T \ {key} = R /\ key \in T /\ (key \notin K => R = K)
  OBVIOUS
<1>4. \A k \in R : new[k] = old[k]
  OBVIOUS
<1> HIDE DEF R, T
<1>5. PriceFacts!Total(T, new) = new[key] + PriceFacts!Total(R, new)
  BY <1>2, <1>3, PriceFacts!TotalTakes, PriceAssumption
<1>6. PriceFacts!Total(R, new) = PriceFacts!Total(R, old)
  BY <1>2, <1>4, PriceFacts!SameTotal, PriceAssumption
<1>7. PriceFacts!Total(R, old) \in Nat /\ PriceFacts!Total(K, old) \in Nat
  BY <1>2, PriceFacts!TotalType, PriceAssumption
<1>8. PriceFacts!Total(K, old) = before + PriceFacts!Total(R, old)
  <2>1. CASE key \in K
    BY <1>2, <2>1, PriceFacts!TotalTakes, PriceAssumption DEF R
  <2>2. CASE key \notin K
    BY <1>3, <1>7, <2>2
  <2> QED BY <2>1, <2>2
<1> QED BY <1>5, <1>6, <1>7, <1>8 DEF T

(***************************************************************************)
(* Powers and tallies                                                      *)
(***************************************************************************)
\* The operators are those of the instantiation for good.
Listed == \E list \in OperatorLists : registry = Members!Registry(list)

\* What the tallies hold is finite and counts in whole units of power, and the
\* power a task needs is the share of the total, as it was at the first vote.
Powered ==
    /\ Listed
    /\ \A key \in DOMAIN votes : votes[key].power \in Nat
    /\ IsFiniteSet(DOMAIN options)
    /\ \A key \in DOMAIN options : options[key] \in Nat
    /\ \A id \in Known : metadata[id].power_required = Verifier!PowerRequired

LEMMA ListedPowers ==
    ASSUME NEW list \in Seq([addr : Operator, voting_power : Nat])
    PROVE  IsFiniteSet(DOMAIN list) /\ DOMAIN list \in SUBSET Nat
           /\ \A i \in DOMAIN list : list[i].voting_power \in Nat
<1> DEFINE Entry == [addr : Operator, voting_power : Nat]
<1>1. \A e \in Entry : e.voting_power \in Nat
  OBVIOUS
<1>2. list \in Seq(Entry)
  OBVIOUS
<1> HIDE DEF Entry
<1>3. DOMAIN list = 1..Len(list) /\ Len(list) \in Nat /\ \A i \in DOMAIN list : list[i] \in Entry
  BY <1>2
<1>4. IsFiniteSet(DOMAIN list)
  BY <1>3, FS_Interval
<1> QED BY <1>1, <1>3, <1>4

LEMMA ListTypes ==
    ASSUME Listed
    PROVE  /\ registry.operators \in Seq([addr : Operator, voting_power : Nat])
           /\ registry.total_power
                = PriceFacts!Total(DOMAIN registry.operators,
                     [i \in DOMAIN registry.operators |-> registry.operators[i].voting_power])
           /\ registry.total_power \in Nat
<1>1. PICK list \in OperatorLists : registry = Members!Registry(list)
  BY DEF Listed
<1>2. list \in Seq([addr : Operator, voting_power : Nat])
  BY OperatorAssumption
<1>3. /\ registry.operators = list
      /\ registry.total_power
           = Members!MapThenSumSet(LAMBDA i : list[i].voting_power, DOMAIN list)
  BY <1>1 DEF Members!Registry
<1> DEFINE S == DOMAIN list
           w == [i \in S |-> list[i].voting_power]
           Power(g, s) == IF s = {} THEN 0
                          ELSE LET x == CHOOSE x \in s : TRUE
                               IN list[x].voting_power + g[s \ {x}]
           Fold(g) == g = [s \in SUBSET S |-> Power(g, s)]
           sum == CHOOSE g : Fold(g)
<1>4. IsFiniteSet(S) /\ \A i \in S : w[i] \in Nat
  BY <1>2, ListedPowers
<1>5. ASSUME NEW g PROVE Fold(g) <=> PriceFacts!Adds(S, w, g)
  <2>1. ASSUME NEW s \in SUBSET S PROVE Power(g, s) = PriceFacts!AddsUp(w, g, s)
    <3>1. s # {} => (CHOOSE x \in s : TRUE) \in S
      OBVIOUS
    <3> QED BY <3>1 DEF PriceFacts!AddsUp
  <2> HIDE DEF Power
  <2> QED BY <2>1 DEF PriceFacts!Adds
<1>6. registry.total_power = sum[S]
  BY <1>3 DEF Members!MapThenSumSet, Members!MapThenFoldSet
<1> HIDE DEF Fold, w, S
<1>7. PriceFacts!IsFiniteSet(S) /\ PriceFacts!Weights(S, w)
  BY <1>4, FiniteWeights
<1>8. PriceFacts!Adds(S, w, sum)
  BY <1>5, <1>7, PriceFacts!SomeFold, PriceAssumption
<1>9. PriceFacts!Total(S, w) = sum[S]
  BY <1>7, <1>8, PriceFacts!TotalIsFold, PriceAssumption
<1>10. PriceFacts!Total(S, w) \in Nat
  BY <1>7, PriceFacts!TotalType, PriceAssumption
<1> QED BY <1>2, <1>3, <1>6, <1>9, <1>10 DEF w, S

LEMMA PowerType ==
    ASSUME Listed, NEW addr
    PROVE  /\ Verifier!Members!VotingPower(addr) \in Nat
           /\ Members!VotingPower(addr) \in Nat
<1> DEFINE list == registry.operators
           entries == {i \in DOMAIN list : list[i].addr = addr}
<1>1. list \in Seq([addr : Operator, voting_power : Nat])
  BY ListTypes
<1>2. ASSUME entries # {}
      PROVE  \E i \in entries : \A j \in entries : i <= j
  <2>1. entries \in SUBSET Nat
    BY <1>1
  <2> HIDE DEF entries
  <2> QED BY <1>2, <2>1, PriceFacts!Least, PriceAssumption
<1>3. /\ entries # {} => Verifier!Members!Min(entries) \in entries
      /\ entries # {} => Members!Min(entries) \in entries
  <2> HIDE DEF entries
  <2> QED BY <1>2 DEF Verifier!Members!Min, Members!Min
<1>4. \A i \in entries : list[i].voting_power \in Nat
  BY <1>1, ListedPowers
<1>5. /\ Verifier!Members!VotingPower(addr)
           = IF entries = {} THEN 0 ELSE list[Verifier!Members!Min(entries)].voting_power
      /\ Members!VotingPower(addr)
           = IF entries = {} THEN 0 ELSE list[Members!Min(entries)].voting_power
  BY DEF Verifier!Members!VotingPower, Members!VotingPower
<1> HIDE DEF entries, list
<1> QED BY <1>3, <1>4, <1>5

\* What a vote adds: its power to its own task, and to its result string's tally.
Counts(op, id, r, power, before) ==
    /\ power \in Nat \ {0} /\ before \in Nat
    /\ id \in Ids /\ r \in Result
    /\ OneMore(votes', votes, id, op, [power |-> power, result |-> PriceOf[r]])
    /\ DOMAIN options' = DOMAIN options \cup {<<id, r>>}
    /\ \A key \in DOMAIN options : key # <<id, r>> => options'[key] = options[key]
    /\ <<id, r>> \in DOMAIN options => options[<<id, r>>] = before
    /\ <<id, r>> \notin DOMAIN options => before = 0
    /\ options'[<<id, r>>] = before + power
    /\ Verifier!Tally(op, id, r) = before + power

LEMMA CastsCounts ==
    ASSUME Kept, Powered, NEW op, NEW id, NEW r, Casts(op, id, r)
    PROVE  \E power, before : Counts(op, id, r, power, before)
<1> DEFINE power == Verifier!Members!VotingPower(op)
           key == <<id, r>>
           before == IF key \in DOMAIN options THEN options[key] ELSE 0
           vote == [power |-> power, result |-> PriceOf[r]]
<1>1. power \in Nat /\ power > 0
  BY PowerType DEF Powered, Casts, Verifier!ValidVote
<1>2. before \in Nat
  BY DEF Powered
<1>3. /\ id \in Ids /\ op \in Operator /\ r \in Result
      /\ <<id, op>> \notin DOMAIN votes
      /\ votes' = Verifier!Save(votes, <<id, op>>, vote)
  BY DEF Kept, Casts, Verifier!ValidVote, Verifier!RecordVote, Verifier!VotesWith
<1>4. /\ Verifier!Tally(op, id, r) = before + power
      /\ options' = Verifier!Save(options, key, before + power)
  BY DEF Casts, Verifier!RecordVote, Verifier!Tally
<1> HIDE DEF power, before, vote
<1>5. OneMore(votes', votes, id, op, vote)
  BY <1>3, SaveOneMore DEF Kept, StoredVotes
<1>6. /\ DOMAIN options' = DOMAIN options \cup {key}
      /\ \A k \in DOMAIN options : k # key => options'[k] = options[k]
      /\ options'[key] = before + power
  <2> HIDE DEF key
  <2> QED BY <1>4 DEF Verifier!Save
<1>7. (key \in DOMAIN options => options[key] = before) /\ (key \notin DOMAIN options => before = 0)
  BY DEF before
<1>8. Counts(op, id, r, power, before)
  BY <1>1, <1>2, <1>3, <1>4, <1>5, <1>6, <1>7 DEF Counts, vote
<1> QED BY <1>8

\* The required power follows the metadata.
LEMMA LoadedRequired ==
    ASSUME Powered, NEW id
    PROVE  /\ Loaded(id).power_required = Verifier!PowerRequired
           /\ Kept => Verifier!Closed(Loaded(id)).power_required = Verifier!PowerRequired
<1>1. Loaded(id).power_required = Verifier!PowerRequired
  BY DEF Powered, Loaded, Verifier!LoadedMetadata, Known
<1>2. Kept => DOMAIN Loaded(id) = {"status", "power_required", "expires_at"}
  BY MetadataFields
<1> QED BY <1>1, <1>2 DEF Verifier!Closed

LEMMA CastsPowered ==
    ASSUME Kept, Powered, NEW op, NEW id, NEW r, Casts(op, id, r),
           NEW meta, metadata' = Verifier!Save(metadata, id, meta),
           meta.power_required = Verifier!PowerRequired
    PROVE  Powered'
<1>1. PICK power, before : Counts(op, id, r, power, before)
  BY CastsCounts
<1>2. /\ power \in Nat /\ before + power \in Nat
      /\ DOMAIN votes' = DOMAIN votes \cup {<<id, op>>}
      /\ \A key \in DOMAIN votes : votes'[key] = votes[key]
      /\ votes'[<<id, op>>].power = power
  BY <1>1 DEF Counts, OneMore
<1>3. /\ \A key \in DOMAIN votes' : votes'[key].power \in Nat
  BY <1>2 DEF Powered
<1>4. IsFiniteSet(DOMAIN options')
  BY <1>1, FS_AddElement DEF Counts, Powered
<1>5. \A key \in DOMAIN options' : options'[key] \in Nat
  BY <1>1, <1>2 DEF Counts, Powered
<1>6. registry' = registry /\ Verifier!PowerRequired' = Verifier!PowerRequired
  BY DEF Casts, Verifier!PowerRequired, Verifier!Members!TotalPower
<1>7. \A i \in Known' : metadata'[i].power_required = Verifier!PowerRequired
  BY MetadataSaved DEF Powered
<1> QED BY <1>3, <1>4, <1>5, <1>6, <1>7 DEF Powered, Listed

\* The tallies of the result strings that spell a price, the voters for that
\* price, and the power that voted
Keys(opts, id, price) == {key \in DOMAIN opts : key[1] = id /\ PriceOf[key[2]] = price}
VotersFor(v, price) == {o \in DOMAIN v : v[o].result = price}
PowerOn(v) == Verifier!SumPower(v, DOMAIN v)

TalliedIn(opts, store, id, price) ==
    PriceFacts!Total(Keys(opts, id, price), opts)
        = Verifier!SumPower(Verifier!VotesOn(store, id),
              VotersFor(Verifier!VotesOn(store, id), price))

Tallied == \A id \in Ids, price \in Nat : TalliedIn(options, votes, id, price)

\* The votes of a task are finitely many, of whole powers, in any store whose
\* votes are.
WholeVotes(store) ==
    /\ StoredVotes(store)
    /\ \A key \in DOMAIN store : store[key].power \in Nat

LEMMA StoreCounted ==
    ASSUME NEW store, WholeVotes(store), NEW id \in Ids
    PROVE  /\ IsFiniteSet(DOMAIN Verifier!VotesOn(store, id))
           /\ Powers(Verifier!VotesOn(store, id))
           /\ PowerOn(Verifier!VotesOn(store, id)) \in Nat
<1> DEFINE v == Verifier!VotesOn(store, id)
<1>1. DOMAIN store \subseteq Ids \X Operator /\ IsFiniteSet(DOMAIN v)
  BY DEF WholeVotes, StoredVotes
<1>2. \A o \in DOMAIN v : <<id, o>> \in DOMAIN store /\ v[o] = store[<<id, o>>]
  <2>1. /\ DOMAIN v = {o \in Operator : <<id, o>> \in DOMAIN store}
        /\ \A o \in DOMAIN v : v[o] = store[<<id, o>>]
    BY <1>1, VotesOnTask
  <2> HIDE DEF v
  <2> QED BY <2>1
<1> HIDE DEF v
<1>3. Powers(v)
  BY <1>2 DEF WholeVotes, Powers
<1>4. PowerOn(v) \in Nat
  BY <1>1, <1>3, SumType DEF Powers, PowerOn
<1> QED BY <1>1, <1>3, <1>4 DEF v

LEMMA VotesCounted ==
    ASSUME Kept, Powered, NEW id \in Ids
    PROVE  /\ IsFiniteSet(DOMAIN Verifier!VotesOn(votes, id))
           /\ Powers(Verifier!VotesOn(votes, id))
           /\ PowerOn(Verifier!VotesOn(votes, id)) \in Nat
<1>1. WholeVotes(votes)
  BY DEF Kept, Powered, WholeVotes
<1> QED BY <1>1, StoreCounted

LEMMA VotesCountedNext ==
    ASSUME Kept', Powered', NEW id \in Ids
    PROVE  /\ IsFiniteSet(DOMAIN Verifier!VotesOn(votes', id))
           /\ Powers(Verifier!VotesOn(votes', id))
           /\ PowerOn(Verifier!VotesOn(votes', id)) \in Nat
<1>1. WholeVotes(votes')
  BY DEF Kept, Powered, WholeVotes
<1> QED BY <1>1, StoreCounted

LEMMA CountsTallied ==
    ASSUME Kept, Powered, Kept', Powered', Tallied, NEW op, NEW id, NEW r, NEW power, NEW before,
           Counts(op, id, r, power, before)
    PROVE  Tallied'
<1> SUFFICES ASSUME NEW i \in Ids, NEW price \in Nat
             PROVE  TalliedIn(options', votes', i, price)
  BY DEF Tallied
<1> DEFINE key == <<id, r>>
           K   == Keys(options, i, price)
           K1  == Keys(options', i, price)
           v   == Verifier!VotesOn(votes, i)
           v1  == Verifier!VotesOn(votes', i)
           W   == VotersFor(v, price)
           W1  == VotersFor(v1, price)
           vote == [power |-> power, result |-> PriceOf[r]]
<1>1. /\ power \in Nat \ {0} /\ before \in Nat /\ id \in Ids /\ r \in Result
      /\ OneMore(votes', votes, id, op, vote)
      /\ DOMAIN options' = DOMAIN options \cup {key}
      /\ \A k \in DOMAIN options : k # key => options'[k] = options[k]
      /\ key \in DOMAIN options => options[key] = before
      /\ key \notin DOMAIN options => before = 0
      /\ options'[key] = before + power
  BY DEF Counts
<1>2. PriceFacts!Total(K, options) = Verifier!SumPower(v, W)
  BY DEF Tallied, TalliedIn
<1>3. IsFiniteSet(DOMAIN v) /\ Powers(v) /\ IsFiniteSet(W)
  BY VotesCounted, FS_Subset DEF VotersFor
<1>4. /\ K \subseteq DOMAIN options /\ K1 \subseteq DOMAIN options'
      /\ IsFiniteSet(DOMAIN options) /\ IsFiniteSet(K) /\ IsFiniteSet(K1)
      /\ \A k \in DOMAIN options : options[k] \in Nat
  BY FS_Subset DEF Powered, Keys
<1>5. CASE i = id /\ price = PriceOf[r]
  <2>1. K1 = K \cup {key} /\ (key \in DOMAIN options <=> key \in K)
    BY <1>1, <1>5 DEF Keys
  <2>2. /\ op \notin DOMAIN v /\ v1[op] = vote
        /\ DOMAIN v1 = DOMAIN v \cup {op}
        /\ \A o \in DOMAIN v : v1[o] = v[o]
    BY <1>1, <1>5 DEF OneMore
  <2>3. v1[op].power = power /\ v1[op].result = price
    BY <1>5, <2>2
  <2> HIDE DEF v, v1, K, K1, key, vote
  <2>4. W1 = W \cup {op} /\ op \notin W
    BY <2>2, <2>3 DEF VotersFor
  <2>5. \A k \in K \ {key} : options[k] \in Nat /\ options'[k] = options[k]
    BY <1>1, <1>4
  <2>6. /\ PriceFacts!Total(K, options) \in Nat
        /\ PriceFacts!Total(K1, options') = PriceFacts!Total(K, options) + power
    <3>1. IsFiniteSet(K \cup {key})
      BY <1>4, <2>1
    <3>2. /\ key \in K => options[key] = before
          /\ key \notin K => before = 0
          /\ power \in Nat
      BY <1>1, <2>1
    <3>3. /\ PriceFacts!Total(K, options) \in Nat
          /\ PriceFacts!Total(K \cup {key}, options') = PriceFacts!Total(K, options) + power
      BY ONLY <1>1, <2>5, <3>1, <3>2, TallyAdds
    <3> QED BY <2>1, <3>3
  <2>7. \A o \in W : v1[o].power = v[o].power /\ v[o].power \in Nat
    BY <1>3, <2>2 DEF VotersFor, Powers
  <2> HIDE DEF W, W1
  <2>8. Verifier!SumPower(v1, W1) = Verifier!SumPower(v1, W) + power
    BY <1>1, <1>3, <2>3, <2>4, <2>7, SumAdds
  <2>9. Verifier!SumPower(v1, W) = Verifier!SumPower(v, W)
    BY <1>3, <2>7, SumSame
  <2>10. PriceFacts!Total(K1, options') = Verifier!SumPower(v1, W1)
    BY <1>2, <2>6, <2>8, <2>9
  <2> QED BY <2>10 DEF TalliedIn, K1, W1, v1
<1>6. CASE ~(i = id /\ price = PriceOf[r])
  <2>1. K1 = K /\ key \notin K
    BY <1>1, <1>6 DEF Keys
  <2>2. W1 = W /\ \A o \in W : v1[o].power = v[o].power
    <3>1. CASE i # id
      BY <1>1, <3>1 DEF OneMore
    <3>2. CASE i = id
      <4>1. /\ op \notin DOMAIN v /\ v1[op] = vote
            /\ DOMAIN v1 = DOMAIN v \cup {op}
            /\ \A o \in DOMAIN v : v1[o] = v[o]
        BY <1>1, <3>2 DEF OneMore
      <4>2. v1[op].result # price
        BY <1>6, <3>2, <4>1
      <4> HIDE DEF v, v1, vote
      <4> QED BY <4>1, <4>2 DEF VotersFor
    <3> QED BY <3>1, <3>2
  <2> HIDE DEF v, v1, K, K1, W, W1, key, vote
  <2>3. PriceFacts!Total(K, options') = PriceFacts!Total(K, options)
    <3>1. \A k \in K : options'[k] = options[k]
      BY <1>1, <1>4, <2>1
    <3>2. PriceFacts!IsFiniteSet(K)
      BY <1>4, SameCount
    <3> QED BY <3>1, <3>2, PriceFacts!SameTotal, PriceAssumption
  <2>4. Verifier!SumPower(v1, W) = Verifier!SumPower(v, W)
    BY <1>3, <2>2, SumSame
  <2>5. PriceFacts!Total(K1, options') = Verifier!SumPower(v1, W1)
    BY <1>2, <2>1, <2>2, <2>3, <2>4
  <2> QED BY <2>5 DEF TalliedIn, K1, W1, v1
<1> QED BY <1>5, <1>6

(***************************************************************************)
(* Quorum and threshold                                                    *)
(***************************************************************************)
Allowed(v, spread) ==
    Verifier!ValidVoters(v, Verifier!AllowedRange(Verifier!Median(v), spread))

\* A completed task had its quorum.  An open one that has it too has a voter
\* outside the allowed spread.
Quorate == \A id \in Done : PowerOn(Verifier!VotesOn(votes, id)) >= Verifier!PowerRequired

Blamed(v, required, spread) == PowerOn(v) >= required => Allowed(v, spread) # DOMAIN v

Stalled ==
    \A id \in Known \ Done :
        Blamed(Verifier!VotesOn(votes, id), Verifier!PowerRequired, settings.allowed_spread)

\* The tests a vote was decided by
LEMMA OpenVoteWhy ==
    ASSUME Powered, StoreVote \/ KeepOpen
    PROVE  \E op \in Operator, id \in DOMAIN tasks, r \in Result :
              LET v == Verifier!AllVotes(op, id, r) IN
              /\ Joins(op, id, r)
              /\ \/ ~(PowerOn(v) >= Verifier!PowerRequired)
                 \/ ~Verifier!ThresholdMet(Verifier!SumPower(v, Allowed(v, settings.allowed_spread)),
                        Verifier!Tally(op, id, r), settings.threshold_percent)
<1>1. CASE StoreVote
  <2>1. PICK op \in Operator, id \in DOMAIN tasks, r \in Result :
           Joins(op, id, r) /\ ~Verifier!Quorum(op, id, r, Queue!TaskStatus(id))
    BY <1>1 DEF StoreVote, Verifier!StoreVote, Joins, Casts, Loaded
  <2>2. Loaded(id).power_required = Verifier!PowerRequired
    BY LoadedRequired
  <2> QED BY <2>1, <2>2 DEF Verifier!Quorum, PowerOn, Loaded
<1>2. CASE KeepOpen
  <2>1. PICK op \in Operator, id \in DOMAIN tasks, r \in Result :
           Joins(op, id, r) /\ ~Verifier!Verdict(op, id, r).met
    BY <1>2 DEF KeepOpen, Verifier!KeepOpen, Verifier!Processed, Joins, Casts, Loaded
  <2> QED BY <2>1 DEF Verifier!Verdict, Verifier!ProcessVotes, Allowed
<1> QED BY <1>1, <1>2

LEMMA PriceVoteWhy ==
    ASSUME Powered, ReportPrice
    PROVE  \E op \in Operator, id \in DOMAIN tasks, r \in Result :
              /\ Settles(op, id, r)
              /\ PowerOn(Verifier!AllVotes(op, id, r)) >= Verifier!PowerRequired
<1>1. PICK op \in Operator, id \in DOMAIN tasks, r \in Result :
         Settles(op, id, r) /\ Verifier!Quorum(op, id, r, Queue!TaskStatus(id))
  BY ZenonT(30) DEF ReportPrice, Verifier!ReportPrice, Verifier!Processed,
     Verifier!Slash, Queue!Complete, Settles, Casts, Loaded
<1>2. Loaded(id).power_required = Verifier!PowerRequired
  BY LoadedRequired
<1> QED BY <1>1, <1>2 DEF Verifier!Quorum, PowerOn, Loaded

\* All votes together have no less power than any tally of theirs.
LEMMA TallyWithinVotes ==
    ASSUME Kept', Powered', Tallied', NEW op, NEW id, NEW r, NEW power, NEW before,
           Counts(op, id, r, power, before)
    PROVE  /\ Verifier!Tally(op, id, r) \in Nat \ {0}
           /\ Verifier!Tally(op, id, r) <= PowerOn(Verifier!VotesOn(votes', id))
<1> DEFINE key == <<id, r>>
           K   == Keys(options', id, PriceOf[r])
           v   == Verifier!VotesOn(votes', id)
           W   == VotersFor(v, PriceOf[r])
<1>1. /\ id \in Ids /\ r \in Result /\ key \in K
      /\ Verifier!Tally(op, id, r) = options'[key]
      /\ Verifier!Tally(op, id, r) \in Nat \ {0}
  BY DEF Counts, Keys
<1>2. PriceOf[r] \in Nat
  BY <1>1, PriceAssumption
<1>3. PriceFacts!Total(K, options') = Verifier!SumPower(v, W)
  BY <1>1, <1>2 DEF Tallied, TalliedIn
<1>4. IsFiniteSet(K) /\ \A k \in K : options'[k] \in Nat
  BY FS_Subset DEF Powered, Keys
<1>5. IsFiniteSet(DOMAIN v) /\ \A o \in DOMAIN v : v[o].power \in Nat
  BY <1>1, VotesCountedNext DEF Powers
<1>6. W \subseteq DOMAIN v
  BY DEF VotersFor
<1> HIDE DEF K, v, W, key
<1>7. PriceFacts!Weights(K, options')
  BY <1>4, FiniteWeights
<1>8. /\ PriceFacts!Total(K, options') = options'[key] + PriceFacts!Total(K \ {key}, options')
      /\ PriceFacts!Total(K \ {key}, options') \in Nat
  <2>1. PriceFacts!Weights(K \ {key}, options')
    BY <1>4, FS_Subset, FiniteWeights
  <2> QED BY <1>1, <1>7, <2>1, PriceFacts!TotalTakes, PriceFacts!TotalType, PriceAssumption
<1>9. Verifier!SumPower(v, W) <= PowerOn(v)
  BY <1>5, <1>6, SumMonotone DEF PowerOn
<1>10. PowerOn(v) \in Nat /\ Verifier!SumPower(v, W) \in Nat
  BY <1>5, <1>6, SumType, FS_Subset DEF PowerOn
<1> QED BY <1>1, <1>3, <1>8, <1>9, <1>10 DEF v

\* Where everybody is within the allowed spread, whatever tally the code divides
\* by, the threshold is met.
LEMMA AllMeetThreshold ==
    ASSUME Kept, NEW power \in Nat, NEW tally \in Nat \ {0}, tally <= power
    PROVE  Verifier!ThresholdMet(power, tally, settings.threshold_percent)
<1>1. /\ settings.threshold_percent \in Nat /\ settings.threshold_percent <= One
      /\ One \in Nat \ {0}
  BY PriceAssumption DEF Kept, Verifier!ValidConfig, Verifier!Percentage
<1>2. One * tally <= One * power
  BY <1>1, PriceFacts!ProductMonotone, PriceAssumption
<1>3. power * One \in Nat /\ power * One >= One * tally
  BY <1>1, <1>2
<1>4. (power * One) \div tally >= One
  BY <1>1, <1>3, PriceFacts!QuotientReaches, PriceAssumption
<1>5. (power * One) \div tally \in Nat
  BY <1>3, PriceFacts!Quotient, PriceAssumption
<1> QED BY <1>1, <1>4, <1>5 DEF Verifier!ThresholdMet, Verifier!FromRatio

Counted == Powered /\ Tallied /\ Quorate /\ Stalled

\* Steps that leave the verifier and the operators alone
LEMMA QuietCounted ==
    ASSUME Counted, UNCHANGED <<registry, verifierVars>>
    PROVE  Counted'
<1>1. /\ registry' = registry /\ votes' = votes /\ options' = options
      /\ metadata' = metadata /\ settings' = settings
  BY DEF verifierVars
<1>2. /\ Known' = Known /\ Done' = Done
      /\ Verifier!PowerRequired' = Verifier!PowerRequired
  BY <1>1 DEF Known, Done, Completed, Verifier!PowerRequired, Verifier!Members!TotalPower
<1>3. Powered'
  BY <1>1, <1>2 DEF Counted, Powered, Listed
<1>4. Tallied'
  BY <1>1 DEF Counted, Tallied
<1>5. Quorate' /\ Stalled'
  BY <1>1, <1>2 DEF Counted, Quorate, Stalled
<1> QED BY <1>3, <1>4, <1>5 DEF Counted

\* Other tasks keep their votes, the voters of this one are those counted.
LEMMA CastsOthers ==
    ASSUME Kept, NEW op, NEW id, NEW r, Casts(op, id, r)
    PROVE  /\ \A i : i # id => Verifier!VotesOn(votes', i) = Verifier!VotesOn(votes, i)
           /\ Verifier!AllVotes(op, id, r) = Verifier!VotesOn(votes', id)
           /\ Verifier!PowerRequired' = Verifier!PowerRequired
           /\ settings' = settings
<1>1. /\ votes' = Verifier!VotesWith(op, id, r)
      /\ \E vote : OneMore(votes', votes, id, op, vote)
  BY CastsOneMore
<1> QED BY <1>1 DEF Verifier!AllVotes, OneMore, Casts, Verifier!PowerRequired,
           Verifier!Members!TotalPower

LEMMA JoinsCounted ==
    ASSUME Base, Base', Counted, StoreVote \/ KeepOpen
    PROVE  Counted'
<1>0. Kept /\ Kept' /\ Powered /\ Tallied /\ Quorate /\ Stalled
  BY DEF Base, Counted
<1>1. PICK op \in Operator, id \in DOMAIN tasks, r \in Result :
         LET v == Verifier!AllVotes(op, id, r) IN
         /\ Joins(op, id, r)
         /\ \/ ~(PowerOn(v) >= Verifier!PowerRequired)
            \/ ~Verifier!ThresholdMet(Verifier!SumPower(v, Allowed(v, settings.allowed_spread)),
                   Verifier!Tally(op, id, r), settings.threshold_percent)
  BY <1>0, OpenVoteWhy
<1> DEFINE v == Verifier!VotesOn(votes', id)
<1>2. /\ Casts(op, id, r)
      /\ metadata' = Verifier!Save(metadata, id, Loaded(id))
  BY <1>1 DEF Joins
<1>3. /\ \A i : i # id => Verifier!VotesOn(votes', i) = Verifier!VotesOn(votes, i)
      /\ Verifier!AllVotes(op, id, r) = v
      /\ Verifier!PowerRequired' = Verifier!PowerRequired
      /\ settings' = settings
  BY <1>0, <1>2, CastsOthers
<1>4. Powered'
  BY <1>0, <1>2, CastsPowered, LoadedRequired
<1>5. PICK power, before : Counts(op, id, r, power, before)
  BY <1>0, <1>2, CastsCounts
<1>6. Tallied'
  BY <1>0, <1>4, <1>5, CountsTallied
<1>7. /\ Done' = Done /\ Known' = Known \cup {id}
      /\ \A i \in Done : Verifier!VotesOn(votes', i) = Verifier!VotesOn(votes, i)
  BY <1>1, <1>2, JoinsDone, MetadataSaved
<1>8. Quorate'
  BY <1>0, <1>3, <1>7 DEF Quorate
<1>9. Blamed(v, Verifier!PowerRequired, settings.allowed_spread)
  <2> SUFFICES ASSUME PowerOn(v) >= Verifier!PowerRequired,
                      Allowed(v, settings.allowed_spread) = DOMAIN v
               PROVE  FALSE
    BY DEF Blamed
  <2> HIDE DEF v
  <2>1. ~Verifier!ThresholdMet(PowerOn(v), Verifier!Tally(op, id, r), settings.threshold_percent)
    BY <1>1, <1>3 DEF PowerOn
  <2>2. /\ Verifier!Tally(op, id, r) \in Nat \ {0}
        /\ Verifier!Tally(op, id, r) <= PowerOn(v)
    BY <1>0, <1>4, <1>5, <1>6, TallyWithinVotes DEF v
  <2>3. PowerOn(v) \in Nat
    <3>1. id \in Ids
      BY <1>5 DEF Counts
    <3> QED BY <1>0, <1>4, <3>1, VotesCountedNext DEF v
  <2> QED BY <1>0, <2>1, <2>2, <2>3, AllMeetThreshold
<1>10. Stalled'
  BY <1>0, <1>3, <1>7, <1>9 DEF Stalled
<1> QED BY <1>4, <1>6, <1>8, <1>10 DEF Counted

LEMMA SettlesCounted ==
    ASSUME Base, Base', Counted, ReportPrice
    PROVE  Counted'
<1>0. Kept /\ Kept' /\ Powered /\ Tallied /\ Quorate /\ Stalled
  BY DEF Base, Counted
<1>1. PICK op \in Operator, id \in DOMAIN tasks, r \in Result :
         /\ Settles(op, id, r)
         /\ PowerOn(Verifier!AllVotes(op, id, r)) >= Verifier!PowerRequired
  BY <1>0, PriceVoteWhy
<1> DEFINE v == Verifier!VotesOn(votes', id)
<1>2. /\ Casts(op, id, r)
      /\ metadata' = Verifier!Save(metadata, id, Verifier!Closed(Loaded(id)))
  BY <1>1 DEF Settles
<1>3. /\ \A i : i # id => Verifier!VotesOn(votes', i) = Verifier!VotesOn(votes, i)
      /\ Verifier!AllVotes(op, id, r) = v
      /\ Verifier!PowerRequired' = Verifier!PowerRequired
      /\ settings' = settings
  BY <1>0, <1>2, CastsOthers
<1>4. Powered'
  BY <1>0, <1>2, CastsPowered, LoadedRequired
<1>5. PICK power, before : Counts(op, id, r, power, before)
  BY <1>0, <1>2, CastsCounts
<1>6. Tallied'
  BY <1>0, <1>4, <1>5, CountsTallied
<1>7. Done' = Done \cup {id} /\ Known' = Known \cup {id} /\ id \notin Done
  BY <1>1, <1>2, SettlesDone, MetadataSaved
<1>8. Quorate'
  BY <1>0, <1>1, <1>3, <1>7 DEF Quorate
<1>9. Stalled'
  BY <1>0, <1>3, <1>7 DEF Stalled
<1> QED BY <1>4, <1>6, <1>8, <1>9 DEF Counted

LEMMA CountedInit == Init => Counted
<1> SUFFICES ASSUME Init PROVE Counted
  OBVIOUS
<1>1. /\ DOMAIN votes = {} /\ DOMAIN options = {} /\ Known = {} /\ Done = {}
  BY DEF Init, Verifier!Init, Verifier!EmptyMap, Known, Done
<1>2. Listed
  BY DEF Init, Members!Init, Listed
<1>3. IsFiniteSet({})
  BY FS_EmptySet
<1>4. Powered
  BY <1>1, <1>2, <1>3 DEF Powered
<1>5. ASSUME NEW id \in Ids, NEW price \in Nat
      PROVE  TalliedIn(options, votes, id, price)
  <2>1. /\ Keys(options, id, price) = {}
        /\ VotersFor(Verifier!VotesOn(votes, id), price) = {}
    BY <1>1 DEF Keys, VotersFor, Verifier!VotesOn
  <2> QED BY <2>1, SumOfNone, PriceFacts!TotalOfNone, PriceAssumption DEF TalliedIn
<1>6. Tallied
  BY <1>5 DEF Tallied
<1> QED BY <1>1, <1>4, <1>6 DEF Counted, Quorate, Stalled

LEMMA CountedNext ==
    ASSUME Base, Base', Counted, [Next]_vars
    PROVE  Counted'
<1>1. CASE Create \/ Timeout \/ Tick \/ UNCHANGED vars
  <2>1. UNCHANGED <<registry, verifierVars>>
    BY <1>1 DEF Create, Timeout, Tick, vars, verifierVars
  <2> QED BY <2>1, QuietCounted
<1>2. CASE StoreVote \/ KeepOpen
  BY <1>2, JoinsCounted
<1>3. CASE ReportPrice
  BY <1>3, SettlesCounted
<1> QED BY <1>1, <1>2, <1>3 DEF Next

\* Tallies, quorum and threshold, for any powers and any order of votes
THEOREM CountedInvariant == Spec => [](Base /\ Counted)
<1>1. Init => Base /\ Counted
  BY BaseInit, CountedInit
<1>2. Base /\ Counted /\ [Next]_vars => (Base /\ Counted)'
  BY BaseNext, CountedNext
<1> QED BY <1>1, <1>2, PTL DEF Spec

\* The running tallies account for every vote.
THEOREM TalliesRight == Spec => []TalliesMatchVotes
<1>1. Base /\ Counted => TalliesMatchVotes
  <2> SUFFICES ASSUME Base, Counted, NEW id \in Known, NEW r \in Result
               PROVE  MapThenSumSet(LAMBDA key : options[key],
                          {key \in DOMAIN options : key[1] = id /\ PriceOf[key[2]] = PriceOf[r]})
                      = Verifier!SumPower(VotesOn(id),
                          {o \in Voters(id) : VotesOn(id)[o].result = PriceOf[r]})
    BY DEF TalliesMatchVotes
  <2>1. id \in Ids /\ PriceOf[r] \in Nat
    BY PriceAssumption DEF Base, Kept, TypeOK
  <2>2. TalliedIn(options, votes, id, PriceOf[r])
    BY <2>1 DEF Counted, Tallied
  <2> QED BY <2>2, TallyTotal DEF TalliedIn, Keys, VotersFor, VotesOn, Voters
<1> QED BY <1>1, CountedInvariant, PTL

\* No price is published before the required share of the power has voted.
THEOREM QuorumFirst == Spec => []QuorumBeforeCompletion
<1>1. Base /\ Counted => QuorumBeforeCompletion
  <2> SUFFICES ASSUME Base, Counted, NEW id \in Known, Completed(id)
               PROVE  VotedPower(id) * 100
                         >= registry.total_power * settings.required_percentage
    BY DEF QuorumBeforeCompletion
  <2> DEFINE x == registry.total_power * settings.required_percentage
             p == VotedPower(id)
  <2>1. x \in Nat
    BY ListTypes, PriceAssumption DEF Base, Kept, Counted, Powered
  <2>2. p >= (x + 99) \div 100
    BY DEF Counted, Quorate, Done, PowerOn, VotedPower, VotesOn, Voters,
       Verifier!PowerRequired, Verifier!Members!TotalPower
  <2>3. p \in Nat
    BY VotesCounted DEF Base, Kept, TypeOK, Counted, PowerOn, VotedPower, VotesOn, Voters
  <2> HIDE DEF x, p
  <2>4. p * 100 >= x
    BY <2>1, <2>2, <2>3
  <2> QED BY <2>4 DEF x, p
<1> QED BY <1>1, CountedInvariant, PTL

\* A task that has its quorum and no price has a voter outside the allowed
\* spread, although the threshold is measured against the wrong power.
THEOREM OnlyOutliersStall == Spec => []StalledOnlyByOutlier
<1>1. Base /\ Counted => StalledOnlyByOutlier
  <2> SUFFICES ASSUME Base, Counted, NEW id \in Known, metadata[id].status = "open",
                      VotedPower(id) >= metadata[id].power_required
               PROVE  AllowedVoters(id) # Voters(id)
    BY DEF StalledOnlyByOutlier
  <2>1. id \in Known \ Done /\ metadata[id].power_required = Verifier!PowerRequired
    BY DEF Done, Completed, Counted, Powered
  <2>2. Blamed(Verifier!VotesOn(votes, id), Verifier!PowerRequired, settings.allowed_spread)
    BY <2>1 DEF Counted, Stalled
  <2> QED BY <2>1, <2>2 DEF Blamed, Allowed, PowerOn, AllowedVoters, MedianOf, VotedPower, VotesOn, Voters
<1> QED BY <1>1, CountedInvariant, PTL

\* The powers the operators can bring to a vote
Reach == MapThenSumSet(LAMBDA o : Members!VotingPower(o), Members!AllVoters)

LEMMA ReachTotal ==
    ASSUME Listed
    PROVE  /\ IsFiniteSet(Members!AllVoters)
           /\ Reach = PriceFacts!Total(Members!AllVoters,
                         [o \in Members!AllVoters |-> Members!VotingPower(o)])
<1> DEFINE S == Members!AllVoters
           w == [o \in S |-> Members!VotingPower(o)]
           Power(g, s) == IF s = {} THEN 0
                          ELSE LET x == CHOOSE x \in s : TRUE
                               IN Members!VotingPower(x) + g[s \ {x}]
           Fold(g) == g = [s \in SUBSET S |-> Power(g, s)]
           sum == CHOOSE g : Fold(g)
<1>1. IsFiniteSet(S)
  <2>1. IsFiniteSet(DOMAIN registry.operators)
    BY ListTypes, ListedPowers
  <2> DEFINE T == DOMAIN registry.operators
             addr == [i \in T |-> registry.operators[i].addr]
  <2>2. addr \in Surjection(T, S)
    BY DEF Members!AllVoters, Surjection
  <2> HIDE DEF addr
  <2> QED BY <2>1, <2>2, FS_Surjection
<1>2. \A o \in S : w[o] \in Nat
  BY PowerType
<1>3. ASSUME NEW g PROVE Fold(g) <=> PriceFacts!Adds(S, w, g)
  <2>1. ASSUME NEW s \in SUBSET S PROVE Power(g, s) = PriceFacts!AddsUp(w, g, s)
    <3>1. s # {} => (CHOOSE x \in s : TRUE) \in S
      OBVIOUS
    <3> QED BY <3>1 DEF PriceFacts!AddsUp
  <2> HIDE DEF Power
  <2> QED BY <2>1 DEF PriceFacts!Adds
<1>4. Reach = sum[S]
  BY DEF Reach, MapThenSumSet, MapThenFoldSet
<1> HIDE DEF Fold, w, S
<1>5. PriceFacts!IsFiniteSet(S) /\ PriceFacts!Weights(S, w)
  BY <1>1, <1>2, FiniteWeights
<1>6. PriceFacts!Adds(S, w, sum)
  BY <1>3, <1>5, PriceFacts!SomeFold, PriceAssumption
<1>7. PriceFacts!Total(S, w) = sum[S]
  BY <1>5, <1>6, PriceFacts!TotalIsFold, PriceAssumption
<1> QED BY <1>1, <1>4, <1>7 DEF w, S

\* Where nobody is listed twice, the operators bring all of the power there is.
LEMMA ReachAll ==
    ASSUME Listed, Members!NobodyTwice
    PROVE  Reach = registry.total_power
<1> DEFINE list == registry.operators
           S == DOMAIN list
           T == Members!AllVoters
           f == [i \in S |-> list[i].addr]
           w == [i \in S |-> list[i].voting_power]
           u == [o \in T |-> Members!VotingPower(o)]
<1>1. /\ Reach = PriceFacts!Total(T, u) /\ IsFiniteSet(T)
      /\ registry.total_power = PriceFacts!Total(S, w)
  BY ReachTotal, ListTypes
<1>2. IsFiniteSet(S) /\ S \in SUBSET Nat
  BY ListTypes, ListedPowers
<1>3. \A o \in T : u[o] \in Nat
  BY PowerType
<1>4. \A i \in S : f[i] \in T
  BY DEF Members!AllVoters
<1>5. \A t \in T : \E i \in S : f[i] = t
  BY DEF Members!AllVoters
<1>6. \A i \in S : \A j \in S : f[i] = f[j] => i = j
  BY DEF Members!NobodyTwice
<1>7. ASSUME NEW i \in S PROVE w[i] = u[f[i]]
  <2>1. {j \in S : list[j].addr = list[i].addr} = {i}
    BY DEF Members!NobodyTwice
  <2>2. Members!Min({i}) = i
    BY <1>2 DEF Members!Min
  <2>3. Members!VotingPower(list[i].addr) = list[i].voting_power
    BY <2>1, <2>2 DEF Members!VotingPower
  <2> QED BY <1>4, <2>3
<1> HIDE DEF S, T, f, w, u
<1>8. PriceFacts!IsFiniteSet(S) /\ PriceFacts!Weights(T, u)
  BY <1>1, <1>2, <1>3, FiniteWeights, SameCount
<1>9. PriceFacts!Total(S, w) = PriceFacts!Total(T, u)
  <2>1. PriceFacts!Renames(S, T, w, u, f)
    BY <1>4, <1>5, <1>6, <1>7 DEF PriceFacts!Renames
  <2> QED BY <1>8, <2>1, PriceFacts!TotalRenamed, PriceAssumption
<1> QED BY <1>1, <1>9

\* No rounding asks for more power than there is.
LEMMA ShareWithin ==
    ASSUME NEW total \in Nat, NEW share \in Nat, share <= 100
    PROVE  (total * share + 99) \div 100 <= total
<1> DEFINE x == total * share
<1>1. x \in Nat /\ x <= total * 100
  BY PriceFacts!ProductMonotone, PriceAssumption
<1> HIDE DEF x
<1>2. (x + 99) \div 100 <= total
  BY <1>1
<1> QED BY <1>2 DEF x

\* A quorum the operators cannot reach is never asked for, unless the deployment
\* lists one of them twice or asks for more than all of the power.
THEOREM QuorumReached == Spec => []QuorumWithinReach
<1>1. Base /\ Counted => QuorumWithinReach
  <2> SUFFICES ASSUME Base, Counted, settings.required_percentage <= 100,
                      Members!NobodyTwice, NEW id \in Known
               PROVE  metadata[id].power_required <= Reach
    BY DEF QuorumWithinReach, Reach
  <2>1. metadata[id].power_required = Verifier!PowerRequired
    BY DEF Counted, Powered
  <2>2. registry.total_power \in Nat /\ Reach = registry.total_power
    BY ListTypes, ReachAll DEF Counted, Powered
  <2>3. settings.required_percentage \in Nat
    BY PriceAssumption DEF Base, Kept
  <2> QED BY <2>1, <2>2, <2>3, ShareWithin DEF Verifier!PowerRequired, Verifier!Members!TotalPower
<1> QED BY <1>1, CountedInvariant, PTL

(***************************************************************************)
(* The promise of PriceOracle                                              *)
(***************************************************************************)
\* The prices voted on a task, by operator
Cards(store, id) ==
    [o \in DOMAIN Verifier!VotesOn(store, id) |-> store[<<id, o>>].result]

Round(id) ==
    [status |-> Queue!ObservedStatus(tasks[id]),
     votes  |-> Cards(votes, id),
     price  |-> tasks[id].result]

LEMMA RoundsAre ==
    /\ Rounds = [id \in DOMAIN tasks |-> Round(id)]
    /\ Rounds' = [id \in DOMAIN tasks' |-> Round(id)']
BY DEF Rounds, Round, Cards, Voters, VotesOn, Verifier!OperatorVote

LEMMA OneMoreCard ==
    ASSUME NEW new, NEW store, NEW id, NEW op, NEW vote,
           DOMAIN store \subseteq Ids \X Operator, OneMore(new, store, id, op, vote)
    PROVE  /\ Cards(new, id) = Promise!Cast(Cards(store, id), op, vote.result)
           /\ \A i : i # id => Cards(new, i) = Cards(store, i)
           /\ op \notin DOMAIN Cards(store, id)
           /\ DOMAIN Cards(new, id) = DOMAIN Verifier!VotesOn(new, id)
           /\ \A o \in DOMAIN Verifier!VotesOn(new, id) :
                 Cards(new, id)[o] = Verifier!VotesOn(new, id)[o].result
<1> DEFINE before == Verifier!VotesOn(store, id)
           after  == Verifier!VotesOn(new, id)
<1>1. /\ DOMAIN after = DOMAIN before \cup {op} /\ op \notin DOMAIN before
      /\ new[<<id, op>>] = vote
      /\ \A key \in DOMAIN store : new[key] = store[key]
      /\ \A i : i # id => Verifier!VotesOn(new, i) = Verifier!VotesOn(store, i)
      /\ DOMAIN new \subseteq Ids \X Operator
  BY DEF OneMore
<1>2. \A o \in DOMAIN before : <<id, o>> \in DOMAIN store
  BY VotesOnTask
<1>3. ASSUME NEW i, i # id PROVE Cards(new, i) = Cards(store, i)
  <2>1. Verifier!VotesOn(new, i) = Verifier!VotesOn(store, i)
    BY <1>1, <1>3
  <2>2. \A o \in DOMAIN Verifier!VotesOn(store, i) : <<i, o>> \in DOMAIN store
    BY VotesOnTask
  <2> QED BY <1>1, <2>1, <2>2 DEF Cards
<1>4. \A o \in DOMAIN after : after[o] = new[<<id, o>>]
  BY ONLY <1>1, VotesOnTask, ZenonT(30)
<1>5. Cards(new, id) = Promise!Cast(Cards(store, id), op, vote.result)
  <2> HIDE DEF before, after
  <2>1. /\ Cards(new, id) = [o \in DOMAIN after |-> new[<<id, o>>].result]
        /\ Cards(store, id) = [o \in DOMAIN before |-> store[<<id, o>>].result]
    BY DEF Cards, before, after
  <2> QED BY <1>1, <1>2, <2>1 DEF Promise!Cast
<1>6. op \notin DOMAIN Cards(store, id)
  BY <1>1 DEF Cards
<1>7. /\ DOMAIN Cards(new, id) = DOMAIN after
      /\ \A o \in DOMAIN after : Cards(new, id)[o] = after[o].result
  BY <1>4 DEF Cards
<1> QED BY <1>3, <1>5, <1>6, <1>7

LEMMA CreateAsks ==
    ASSUME Base, Create
    PROVE  Promise!Ask
<1>1. PICK id \in Ids, timeout \in Nat :
        /\ id \notin DOMAIN tasks
        /\ DOMAIN tasks' = DOMAIN tasks \cup {id}
        /\ tasks'[id] = QueueFacts!NewTask(timeout)
        /\ \A k \in DOMAIN tasks : tasks'[k] = tasks[k]
  BY CreateAdds
<1>2. now' = now /\ votes' = votes /\ slashed' = slashed
  BY DEF Create, Queue!CreateAny, Queue!Create, verifierVars
<1>3. DOMAIN Verifier!VotesOn(votes, id) = {}
  BY <1>1 DEF Base, TypeOK, Verifier!VotesOn
<1>4. Cards(votes, id) = Promise!NoVotes
  BY <1>3 DEF Cards, Promise!NoVotes
<1> DEFINE status == Queue!ObservedStatus(tasks[id])'
<1>5. Round(id)' = Promise!Fresh(status) /\ status \in {"open", "expired"}
  BY <1>1, <1>2, <1>4
     DEF Round, Promise!Fresh, QueueFacts!NewTask, Queue!ObservedStatus
<1>6. \A k \in DOMAIN tasks : Round(k)' = Round(k)
  BY <1>1, <1>2 DEF Round, Queue!ObservedStatus, Queue!IsExpired
<1>7. /\ id \in Ids \ DOMAIN Rounds
      /\ Rounds' = [i \in DOMAIN Rounds \cup {id} |->
                       IF i = id THEN Promise!Fresh(status) ELSE Rounds[i]]
  <2> HIDE DEF status
  <2> QED BY <1>1, <1>5, <1>6, RoundsAre
<1> HIDE DEF status
<1> QED BY <1>2, <1>5, <1>7 DEF Promise!Ask, Verifier!SlashableOperators, Ids

LEMMA TimeoutUnseen ==
    ASSUME Base, Timeout
    PROVE  UNCHANGED <<Rounds, Verifier!SlashableOperators>>
<1>1. PICK id \in DOMAIN tasks :
        /\ tasks[id].status = "open" /\ tasks[id].timing.expires_at <= now
        /\ DOMAIN tasks' = DOMAIN tasks
        /\ tasks'[id].status = "expired"
        /\ tasks'[id].result = tasks[id].result
        /\ tasks'[id].timing = tasks[id].timing
        /\ \A k \in DOMAIN tasks \ {id} : tasks'[k] = tasks[k]
  BY TimeoutExpires
<1>2. now' = now /\ votes' = votes /\ slashed' = slashed
  BY DEF Timeout, Queue!TimeoutAny, Queue!Timeout, verifierVars
<1>3. \A k \in DOMAIN tasks : Round(k)' = Round(k)
  BY <1>1, <1>2 DEF Round, Queue!ObservedStatus, Queue!IsExpired
<1>4. Rounds' = Rounds
  BY <1>1, <1>3, RoundsAre
<1> QED BY <1>2, <1>4 DEF Verifier!SlashableOperators

LEMMA TickLapses ==
    ASSUME Base, Tick
    PROVE  Promise!Lapse
<1> DEFINE over == {id \in DOMAIN tasks :
                      /\ tasks[id].status = "open"
                      /\ tasks[id].timing.expires_at > now
                      /\ tasks[id].timing.expires_at <= now'}
<1>1. /\ now' = now + 1 /\ tasks' = tasks /\ votes' = votes /\ slashed' = slashed
  BY DEF Tick, Queue!Tick, verifierVars
<1>2. /\ now \in Nat
      /\ \A id \in DOMAIN tasks : tasks[id].timing.expires_at \in Nat
  BY TaskFacts DEF Base
<1>3. \A id \in over : Round(id).status = "open"
  BY <1>2 DEF Round, Queue!ObservedStatus, Queue!IsExpired
<1>4. \A id \in over : Round(id)' = [Round(id) EXCEPT !.status = "expired"]
  BY <1>1, <1>2 DEF Round, Queue!ObservedStatus, Queue!IsExpired
<1>5. \A id \in DOMAIN tasks \ over : Round(id)' = Round(id)
  BY <1>1, <1>2 DEF Round, Queue!ObservedStatus, Queue!IsExpired
<1> HIDE DEF over
<1>6. over \in SUBSET {id \in DOMAIN Rounds : Rounds[id].status = "open"}
  BY <1>3, RoundsAre DEF over
<1>7. Rounds' = [id \in DOMAIN Rounds |->
                    IF id \in over THEN [Rounds[id] EXCEPT !.status = "expired"]
                    ELSE Rounds[id]]
  BY <1>1, <1>4, <1>5, RoundsAre
<1> QED BY <1>1, <1>6, <1>7 DEF Promise!Lapse, Verifier!SlashableOperators

\* What a vote shows of its round before and after it
LEMMA CastsShows ==
    ASSUME Base, NEW op, NEW id, NEW r, Casts(op, id, r),
           DOMAIN tasks' = DOMAIN tasks,
           \A k \in DOMAIN tasks \ {id} : tasks'[k] = tasks[k]
    PROVE  /\ op \in Operator /\ id \in Ids /\ PriceOf[r] \in Response
           /\ Promise!MayVote(op, id)
           /\ Round(id).status = "open"
           /\ DOMAIN Rounds' = DOMAIN Rounds /\ id \in DOMAIN Rounds
           /\ Rounds[id] = Round(id) /\ Rounds'[id] = Round(id)'
           /\ \A k \in DOMAIN Rounds \ {id} : Rounds'[k] = Rounds[k]
           /\ Round(id)'.votes = Promise!Cast(Round(id).votes, op, PriceOf[r])
           /\ Round(id)'.price = tasks'[id].result
           /\ Round(id)'.status = Queue!ObservedStatus(tasks[id])'
<1>1. /\ id \in DOMAIN tasks /\ op \in Operator /\ r \in Result /\ now' = now
  BY DEF Casts
<1>2. PICK vote : /\ OneMore(votes', votes, id, op, vote)
                  /\ vote.result = PriceOf[r]
  BY CastsOneMore DEF Base
<1>3. /\ Cards(votes', id) = Promise!Cast(Cards(votes, id), op, PriceOf[r])
      /\ \A i : i # id => Cards(votes', i) = Cards(votes, i)
      /\ op \notin DOMAIN Cards(votes, id)
  BY <1>2, OneMoreCard DEF Base, Kept, StoredVotes
<1>4. tasks[id].status = "open" /\ tasks[id].timing.expires_at > now
  BY VoteInTime
<1>5. now \in Nat /\ tasks[id].timing.expires_at \in Nat
  BY <1>1, TaskFacts DEF Base
<1>6. Round(id).status = "open" /\ Round(id).votes = Cards(votes, id)
  BY <1>4, <1>5 DEF Round, Queue!ObservedStatus, Queue!IsExpired
<1>7. \A k \in DOMAIN tasks \ {id} : Round(k)' = Round(k)
  BY <1>1, <1>3 DEF Round, Queue!ObservedStatus, Queue!IsExpired
<1>8. /\ Round(id)'.votes = Cards(votes', id)
      /\ Round(id)'.price = tasks'[id].result
      /\ Round(id)'.status = Queue!ObservedStatus(tasks[id])'
  BY DEF Round
<1>9. /\ DOMAIN Rounds' = DOMAIN Rounds /\ id \in DOMAIN Rounds
      /\ Rounds[id] = Round(id) /\ Rounds'[id] = Round(id)'
      /\ \A k \in DOMAIN Rounds \ {id} : Rounds'[k] = Rounds[k]
  BY <1>1, <1>7, RoundsAre
<1>10. Promise!MayVote(op, id)
  BY <1>3, <1>6, <1>9 DEF Promise!MayVote
<1>11. id \in Ids /\ PriceOf[r] \in Response
  BY <1>1, PriceAssumption DEF Base, Kept
<1> QED BY <1>1, <1>3, <1>6, <1>8, <1>9, <1>10, <1>11

LEMMA JoinsVotes ==
    ASSUME Base, NEW op, NEW id, NEW r, Joins(op, id, r)
    PROVE  Promise!Vote
<1>1. /\ Casts(op, id, r) /\ tasks' = tasks /\ slashed' = slashed
  BY DEF Joins
<1>2. /\ op \in Operator /\ id \in Ids /\ PriceOf[r] \in Response
      /\ Promise!MayVote(op, id)
      /\ DOMAIN Rounds' = DOMAIN Rounds /\ id \in DOMAIN Rounds
      /\ Rounds[id] = Round(id) /\ Rounds'[id] = Round(id)'
      /\ \A k \in DOMAIN Rounds \ {id} : Rounds'[k] = Rounds[k]
      /\ Round(id)'.votes = Promise!Cast(Round(id).votes, op, PriceOf[r])
  BY <1>1, CastsShows
<1>3. Round(id)'.status = Round(id).status /\ Round(id)'.price = Round(id).price
  BY <1>1 DEF Casts, Round, Queue!ObservedStatus, Queue!IsExpired
<1>4. Round(id)' = [Round(id) EXCEPT !.votes = Promise!Cast(@, op, PriceOf[r])]
  BY <1>2, <1>3 DEF Round
<1>5. Rounds' = [Rounds EXCEPT ![id].votes = Promise!Cast(@, op, PriceOf[r])]
  BY <1>2, <1>4, RoundsAre
<1>6. Rounds' \in {[Rounds EXCEPT ![id].votes = Promise!Cast(@, op, price)] :
                     price \in Response}
  BY <1>2, <1>5
<1>7. UNCHANGED Verifier!SlashableOperators
  BY <1>1 DEF Verifier!SlashableOperators
<1> QED BY <1>2, <1>6, <1>7 DEF Promise!Vote, Ids

LEMMA SettlesSettles ==
    ASSUME Base, NEW op, NEW id, NEW r, Settles(op, id, r)
    PROVE  Promise!Settle
<1> DEFINE v == Verifier!VotesOn(votes', id)
           m == Verifier!Median(v)
           spread == settings.slashable_spread
           range == Verifier!AllowedRange(m, spread)
<1>1. Casts(op, id, r) /\ Kept
  BY DEF Settles, Base
<1>2. /\ Queue!Complete(VerifierAddr, Queue!NoFunds, id, m)
      /\ slashed' = slashed \cup Verifier!SlashableVoters(v, range)
      /\ m \in Nat /\ m \in Response
      /\ 2 * Cardinality({o \in DOMAIN v : v[o].result < m})
           <= Cardinality(DOMAIN v)
      /\ 2 * Cardinality({o \in DOMAIN v : v[o].result > m})
           <= Cardinality(DOMAIN v)
  BY <1>1, SettlesMedian
<1>3. /\ DOMAIN tasks' = DOMAIN tasks
      /\ tasks'[id].status = "completed" /\ tasks'[id].result = m
      /\ \A k \in DOMAIN tasks \ {id} : tasks'[k] = tasks[k]
  <2> HIDE DEF m
  <2>1. QueueFacts!Complete(VerifierAddr, QueueFacts!NoFunds, id, m)
    BY <1>2, SameComplete
  <2> QED BY <1>2, <2>1, QueueFacts!CompleteEffect, DeploymentAssumption
          DEF Base, QueueFacts!Safe, Queue!OptionU64, QueueFacts!OptionU64,
              Queue!TimeoutInfo, QueueFacts!TimeoutInfo
<1>4. range.minimum \in Nat /\ range.maximum \in Nat
      /\ range.minimum <= m /\ m <= range.maximum
  <2>1. spread \in 0..One
    BY <1>1, PriceAssumption DEF Kept, Verifier!ValidConfig, Verifier!Percentage
  <2> HIDE DEF m, spread, range
  <2>2. /\ PriceFacts!AllowedRange(m, spread).minimum \in Nat
        /\ PriceFacts!AllowedRange(m, spread).maximum \in Nat
        /\ PriceFacts!AllowedRange(m, spread).minimum <= m
        /\ m <= PriceFacts!AllowedRange(m, spread).maximum
    BY <1>2, <2>1, PriceFacts!MedianInRange, PriceAssumption
  <2>3. range = PriceFacts!AllowedRange(m, spread)
    BY SameRange DEF range
  <2> QED BY <2>2, <2>3
<1>5. PICK vote : OneMore(votes', votes, id, op, vote)
  BY <1>1, CastsOneMore
<1>6. /\ DOMAIN Cards(votes', id) = DOMAIN v
      /\ \A o \in DOMAIN v : Cards(votes', id)[o] = v[o].result
  BY <1>1, <1>5, OneMoreCard DEF Kept, StoredVotes
<1> DEFINE round == Round(id)'
<1>7. /\ op \in Operator /\ id \in Ids /\ PriceOf[r] \in Response
      /\ Promise!MayVote(op, id)
      /\ DOMAIN Rounds' = DOMAIN Rounds /\ id \in DOMAIN Rounds
      /\ Rounds[id] = Round(id) /\ Rounds'[id] = round
      /\ \A k \in DOMAIN Rounds \ {id} : Rounds'[k] = Rounds[k]
      /\ round.votes = Promise!Cast(Round(id).votes, op, PriceOf[r])
  <2> HIDE DEF m, v
  <2> QED BY <1>1, <1>3, CastsShows
<1>8. round = [status |-> "completed", votes |-> Cards(votes', id), price |-> m]
  <2> HIDE DEF m, v
  <2> QED BY <1>3 DEF Round, Queue!ObservedStatus
<1> HIDE DEF v, m, range, spread, round
<1>9. round \in Promise!Settled(Rounds[id], op)
  <2>1. round = [status |-> "completed",
                 votes  |-> Promise!Cast(Rounds[id].votes, op, PriceOf[r]),
                 price  |-> m]
    BY <1>7, <1>8
  <2>2. m \in Response /\ PriceOf[r] \in Response
    BY <1>2, <1>7
  <2> QED BY <2>1, <2>2 DEF Promise!Settled
<1>10. Rounds' = [Rounds EXCEPT ![id] = round]
  BY <1>7, RoundsAre
<1>11. Promise!InTheMiddle(round.price, round.votes)
  <2>1. /\ {o \in DOMAIN round.votes : round.votes[o] < round.price}
             = {o \in DOMAIN v : v[o].result < m}
        /\ {o \in DOMAIN round.votes : round.votes[o] > round.price}
             = {o \in DOMAIN v : v[o].result > m}
        /\ DOMAIN round.votes = DOMAIN v
    BY <1>6, <1>8
  <2>2. \A S : Promise!Cardinality(S) = Cardinality(S)
    BY DEF Promise!Cardinality, Cardinality
  <2> QED BY <1>2, <2>1, <2>2 DEF Promise!InTheMiddle
<1>12. slashed' \ slashed \subseteq {o \in DOMAIN round.votes : round.votes[o] # round.price}
  BY <1>2, <1>4, <1>6, <1>8 DEF Verifier!SlashableVoters
<1>13. Rounds' \in {[Rounds EXCEPT ![id] = new] :
                       new \in Promise!Settled(Rounds[id], op)}
  BY <1>9, <1>10
<1>14. LET new == Rounds'[id] IN
         /\ Promise!InTheMiddle(new.price, new.votes)
         /\ Verifier!SlashableOperators \subseteq Verifier!SlashableOperators'
         /\ Verifier!SlashableOperators' \ Verifier!SlashableOperators
               \subseteq {o \in DOMAIN new.votes : new.votes[o] # new.price}
  BY <1>2, <1>7, <1>11, <1>12 DEF Verifier!SlashableOperators
<1> QED BY <1>7, <1>13, <1>14 DEF Promise!Settle, Ids

\* To those who ask it for prices and to its operators, the three contracts,
\* with their clocks, copies, tallies and spreads, are the oracle of
\* PriceOracle.
THEOREM Refinement == Spec => KeepsPromise
<1>1. Init => Promise!Init
  <2> SUFFICES ASSUME Init PROVE Promise!Init
    OBVIOUS
  <2>1. DOMAIN tasks = {} /\ slashed = {}
    BY SameInit DEF QueueFacts!Init, QueueFacts!InitWith, QueueFacts!EmptyMap,
       Init, Verifier!Init
  <2>2. Rounds = [id \in {} |-> Promise!Fresh("open")]
    BY <2>1, RoundsAre
  <2> QED BY <2>1, <2>2 DEF Promise!Init, Verifier!SlashableOperators
<1>2. Base /\ [Next]_vars => [Promise!Next]_(Promise!vars)
  <2> SUFFICES ASSUME Base, [Next]_vars
               PROVE  Promise!Next \/ UNCHANGED Promise!vars
    OBVIOUS
  <2>1. CASE Create
    BY <2>1, CreateAsks DEF Promise!Next
  <2>2. CASE Timeout
    BY <2>2, TimeoutUnseen DEF Promise!vars
  <2>3. CASE Tick
    BY <2>3, TickLapses DEF Promise!Next
  <2>4. CASE StoreVote \/ KeepOpen
    BY <2>4, OpenVote, JoinsVotes DEF Promise!Next
  <2>5. CASE ReportPrice
    BY <2>5, PriceVote, SettlesSettles DEF Promise!Next
  <2>6. CASE UNCHANGED vars
    <3>1. /\ now' = now /\ tasks' = tasks /\ votes' = votes /\ slashed' = slashed
      BY <2>6 DEF vars
    <3>2. \A k \in DOMAIN tasks : Round(k)' = Round(k)
      BY <3>1 DEF Round, Queue!ObservedStatus, Queue!IsExpired
    <3>3. Rounds' = Rounds
      BY <3>1, <3>2, RoundsAre
    <3> QED BY <3>1, <3>3 DEF Promise!vars, Verifier!SlashableOperators
  <2> QED BY <2>1, <2>2, <2>3, <2>4, <2>5, <2>6 DEF Next
<1> QED BY <1>1, <1>2, BaseInvariant, PTL DEF Spec, KeepsPromise, Promise!Spec
=============================================================================
