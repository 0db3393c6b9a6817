----------------------------- MODULE TaskQueue -----------------------------
(***************************************************************************)
(* The task-queue contract: a store of tasks with deadlines, a requestor   *)
(* who creates them, one verifier contract that completes them, and anyone *)
(* who marks an overdue one as timed out.                                  *)
(*                                                                         *)
(* A transaction that returns an error changes nothing, so every early     *)
(* return of a handler is a guard of its action.  Payload and description  *)
(* of a task are opaque and never read by the contract: left out.          *)
(***************************************************************************)
EXTENDS Naturals, SequencesExt, Storage

CONSTANTS
    Address,        \* addresses that may sign a transaction (the verifier too)
    Denom,          \* coin denominations
    Amount,         \* amounts of a coin a transaction may carry (0 among them)
    Requested,      \* the timeout fields a requestor may send (None among them)
    Response,       \* results the verifier may report
    InstantiateMsg, \* the instantiation messages considered
    None,           \* an absent Option
    U64,            \* one more than the largest u64
    StartTime,      \* block time at instantiation, in seconds
    LastCreate,     \* bound: no task is created later than this
    LastTime,       \* bound: block time stops here
    MaxTasks        \* bound: tasks created

VARIABLES
    now,            \* env.block.time, in seconds
    config,         \* CONFIG
    tasks           \* TASKS

vars == <<now, config, tasks>>

(***************************************************************************)
(* Instantiation                                                           *)
(***************************************************************************)
UnwrapOr(option, default) == IF option = None THEN default ELSE option

\* validate_timeout_info: absent limits are the default itself
TimeoutConfig(info) ==
    [default |-> info.default,
     minimum |-> UnwrapOr(info.minimum, info.default),
     maximum |-> UnwrapOr(info.maximum, info.default)]

ValidTimeoutConfig(t) ==
    /\ t.minimum <= t.default
    /\ t.default <= t.maximum
    /\ t.minimum <= t.maximum

\* Mutant: ids handed out from 0
ConfigFromZero(msg) ==
    [next_id   |-> 0,
     requestor |-> msg.requestor,
     timeout   |-> TimeoutConfig(msg.timeout),
     verifier  |-> msg.verifier]

Config(msg) ==
    [next_id   |-> 1,
     requestor |-> msg.requestor,
     timeout   |-> TimeoutConfig(msg.timeout),
     verifier  |-> msg.verifier]

(***************************************************************************)
(* Handling a message                                                      *)
(***************************************************************************)
\* Mutant: the TimeoutTooLong arm is missing
CheckedTimeoutsUnbounded(limits, requested) ==
    IF requested = None THEN {limits.default}
    ELSE {t \in {requested} : limits.minimum <= t}

\* check_timeout, Some(t) and None arms
CheckedTimeouts(limits, requested) ==
    IF requested = None THEN {limits.default}
    ELSE {t \in {requested} : limits.minimum <= t /\ t <= limits.maximum}

NoFunds == [d \in Denom |-> 0]

\* check_requestor.  must_pay accepts exactly one kind of coin.
RequestorAccepts(requestor, sender, funds) ==
    \/ /\ requestor.kind = "fixed"
       /\ sender = requestor.addr
    \/ /\ requestor.kind = "open_payment"
       /\ funds[requestor.denom] > 0
       /\ \A d \in Denom \ {requestor.denom} : funds[d] = 0
       /\ funds[requestor.denom] >= requestor.amount

\* Timing::new.  The sum is a u64 and the release build does not check it.
Timing(timeout) ==
    [created_at |-> now, expires_at |-> (now + timeout) % U64]

\* The record create stores
NewTask(timeout) ==
    [status       |-> "open",
     completed_at |-> None,
     timing       |-> Timing(timeout),
     result       |-> None]

IsExpired(timing) == timing.expires_at <= now

\* Mutants: a query that reports the stored status as it is, and one that
\* looks at the deadline before it looks at the status
StoredStatus(task) == task.status
DeadlineFirstStatus(task) ==
    IF IsExpired(task.timing) THEN "expired" ELSE task.status

\* validate_status: what every query reports of a stored task
ObservedStatus(task) ==
    IF task.status = "open" /\ IsExpired(task.timing) THEN "expired"
    ELSE task.status

\* Mutants: guards that forget the deadline or the status
CompletableLate(task)     == task.status = "open"
CompletableAgain(task)    == ~IsExpired(task.timing)
ExpirableCompleted(task)  == IsExpired(task.timing)

\* The task_status query, which the verifier asks before it takes a vote
TaskStatus(id) ==
    [status       |-> ObservedStatus(tasks[id]),
     created_time |-> tasks[id].timing.created_at,
     expires_time |-> tasks[id].timing.expires_at]

\* The status guards of Task::complete and Task::expire
Completable(task) == task.status = "open" /\ ~IsExpired(task.timing)
Expirable(task)   == task.status = "open" /\ IsExpired(task.timing)

(***************************************************************************)
(* The transactions                                                        *)
(***************************************************************************)
Create(sender, funds, requested) ==
    /\ now <= LastCreate
    /\ config.next_id <= MaxTasks
    /\ RequestorAccepts(config.requestor, sender, funds)
    /\ \E timeout \in CheckedTimeouts(config.timeout, requested) :
          tasks' = Save(tasks, config.next_id, NewTask(timeout))
    /\ config' = [config EXCEPT !.next_id = @ + 1]
    /\ UNCHANGED now

Complete(sender, funds, id, response) ==
    /\ funds = NoFunds
    /\ sender = config.verifier
    /\ id \in DOMAIN tasks
    /\ Completable(tasks[id])
    /\ tasks' = Save(tasks, id, [tasks[id] EXCEPT !.status       = "completed",
                                                  !.completed_at = now,
                                                  !.result       = response])
    /\ UNCHANGED <<now, config>>

Timeout(funds, id) ==
    /\ funds = NoFunds
    /\ id \in DOMAIN tasks
    /\ Expirable(tasks[id])
    /\ tasks' = Save(tasks, id, [tasks[id] EXCEPT !.status = "expired"])
    /\ UNCHANGED <<now, config>>

\* A block with a later timestamp
Tick ==
    /\ now < LastTime
    /\ now' = now + 1
    /\ UNCHANGED <<config, tasks>>

(***************************************************************************)
(* The list queries.  IDs come newest first; start_after is exclusive.     *)
(***************************************************************************)
\* The i-th of the ids is the one that i of them, itself included, are not
\* older than.
Descending(ids) ==
    [i \in 1..Cardinality(ids) |->
        CHOOSE id \in ids : Cardinality({k \in ids : k >= id}) = i]

Page(ids, start_after, limit) ==
    LET range == Descending({id \in ids : start_after = None \/ id < start_after})
    IN  IF limit = None \/ limit >= Len(range) THEN range
        ELSE SubSeq(range, 1, limit)

\* Mutant: the deadline's own second still counts
ListedOpenInclusive ==
    {id \in DOMAIN tasks : /\ tasks[id].status = "open"
                           /\ tasks[id].timing.expires_at >= now}

ListedOpen ==
    {id \in DOMAIN tasks : /\ tasks[id].status = "open"
                           /\ tasks[id].timing.expires_at > now}

ListOpen(start_after, limit) == Page(ListedOpen, start_after, limit)

ListedCompleted == {id \in DOMAIN tasks : tasks[id].status = "completed"}

ListCompleted(start_after, limit) == Page(ListedCompleted, start_after, limit)

(***************************************************************************)
(* The specification                                                       *)
(***************************************************************************)
Funds == [Denom -> Amount]

InitWith(msg) ==
    /\ ValidTimeoutConfig(TimeoutConfig(msg.timeout))
    /\ now = StartTime
    /\ config = Config(msg)
    /\ tasks = EmptyMap

Init == \E msg \in InstantiateMsg : InitWith(msg)

CreateAny   == \E sender \in Address, funds \in Funds, t \in Requested :
                  Create(sender, funds, t)
CompleteAny == \E sender \in Address, funds \in Funds,
                  id \in 1..MaxTasks, response \in Response :
                  Complete(sender, funds, id, response)
TimeoutAny  == \E funds \in Funds, id \in 1..MaxTasks : Timeout(funds, id)

Next == CreateAny \/ CompleteAny \/ TimeoutAny \/ Tick

Spec == Init /\ [][Next]_vars

\* Blocks keep coming, whatever the contract's users do.
FairSpec == Spec /\ WF_vars(Tick)

(***************************************************************************)
(* Assumptions on the constants                                            *)
(***************************************************************************)
ASSUME BoundsAssumption ==
    /\ U64 \in Nat \ {0}
    /\ StartTime \in 0..U64 - 1
    /\ LastCreate \in Nat
    /\ LastTime \in 0..U64 - 1
    /\ MaxTasks \in Nat
    /\ None \notin Nat

\* A u64 field, present or absent
OptionU64 == (0..U64 - 1) \cup {None}

TimeoutInfo == [default : 0..U64 - 1, minimum : OptionU64, maximum : OptionU64]

ASSUME MessageAssumption ==
    /\ Requested \subseteq OptionU64
    /\ None \notin Response
    /\ \A msg \in InstantiateMsg : msg.timeout \in TimeoutInfo

(***************************************************************************)
(* Correctness                                                             *)
(***************************************************************************)
TimeoutLimits ==
    [default : 0..U64 - 1, minimum : 0..U64 - 1, maximum : 0..U64 - 1]

Task == [status       : {"open", "completed", "expired"},
         completed_at : Nat \cup {None},
         timing       : [created_at : Nat, expires_at : 0..U64 - 1],
         result       : Response \cup {None}]

\* The shape of the contract's storage.  IDs are handed out from 1 without
\* gaps: every id below next_id holds a task and no other does.
TypeOK ==
    /\ now \in Nat
    /\ config \in [next_id   : Nat \ {0},
                   requestor : {msg.requestor : msg \in InstantiateMsg},
                   timeout   : {t \in TimeoutLimits : ValidTimeoutConfig(t)},
                   verifier  : {msg.verifier : msg \in InstantiateMsg}]
    /\ DOMAIN tasks = 1..config.next_id - 1
    /\ \A id \in DOMAIN tasks : tasks[id] \in Task

\* list_completed treats a completed task without a result as corrupt
\* storage (MissingResultCompleted): a result is stored exactly with the
\* completion, whatever order Complete and Timeout reach a task in.
ResultExactlyWhenCompleted ==
    \A id \in DOMAIN tasks :
        /\ tasks[id].status = "completed" <=> tasks[id].result # None
        /\ tasks[id].status = "completed" <=> tasks[id].completed_at # None

\* The deadline separates the two outcomes: a task completes strictly before
\* its expires_at and is marked expired at or after it, so no second of the
\* clock allows both Complete and Timeout.
DeadlineSeparates ==
    \A id \in DOMAIN tasks :
        /\ tasks[id].timing.created_at <= now
        /\ tasks[id].status = "completed" =>
              /\ tasks[id].timing.created_at <= tasks[id].completed_at
              /\ tasks[id].completed_at < tasks[id].timing.expires_at
              /\ tasks[id].completed_at <= now
        /\ tasks[id].status = "expired" => tasks[id].timing.expires_at <= now

WithinLimits(timing, deadline) ==
    /\ timing.created_at + config.timeout.minimum <= deadline
    /\ deadline <= timing.created_at + config.timeout.maximum

\* A task lives at least the configured minimum and at most the configured
\* maximum, whether its timeout was requested or defaulted.  Where now plus the
\* timeout leaves the u64, the deadline wraps, and it never wraps into the
\* future: the task has expired in the block that creates it, and nobody can
\* answer it.
LifetimeWithinLimits ==
    \A id \in DOMAIN tasks :
        LET timing == tasks[id].timing IN
        \/ WithinLimits(timing, timing.expires_at)
        \/ /\ WithinLimits(timing, timing.expires_at + U64)
           /\ timing.expires_at < timing.created_at
           /\ ObservedStatus(tasks[id]) = "expired"

\* Three pieces of code decide whether a task is still open: the filter of
\* list_open, validate_status for the status queries, and Task::complete.
\* They agree on every task at every second, the deadline's own included.
OpenEverywhereTheSame ==
    /\ ToSet(ListOpen(None, None)) = {id \in DOMAIN tasks : Completable(tasks[id])}
    /\ ToSet(ListOpen(None, None)) =
          {id \in DOMAIN tasks : ObservedStatus(tasks[id]) = "open"}

\* No transaction removes a task, moves its deadline or touches one that is
\* completed or marked expired: no id is handed out twice, nothing reopens.
ClosedTasksAreFinal ==
    [][\A id \in DOMAIN tasks :
          /\ id \in DOMAIN tasks'
          /\ tasks'[id].timing = tasks[id].timing
          /\ tasks[id].status # "open" => tasks'[id] = tasks[id]]_vars

\* Nobody has to call Timeout for a task to close: the passing of time is
\* enough for the queries to stop reporting it open.
EveryTaskCloses ==
    \A id \in 1..MaxTasks :
        id \in DOMAIN tasks ~>
            id \in DOMAIN tasks /\ ObservedStatus(tasks[id]) # "open"

(***************************************************************************)
(* The queue implements the abstract life cycle, seen through the status   *)
(* queries: block time closes tasks, the Timeout transaction only writes   *)
(* down what the queries already report.                                   *)
(***************************************************************************)
Observed == [id \in DOMAIN tasks |->
                [status |-> ObservedStatus(tasks[id]), answer |-> tasks[id].result]]

Lifecycle == INSTANCE TaskLifecycle
    WITH life <- Observed, Id <- 1..MaxTasks, Answer <- Response, NoAnswer <- None

\* Every behaviour of the contract is, to its clients, a behaviour of the
\* abstract life cycle: what validate_status reports never reopens a task.
ImplementsLifecycle == Lifecycle!Spec
=============================================================================
