-------------------------- MODULE TaskQueue_proofs --------------------------
(***************************************************************************)
(* Theorems about TaskQueue for every set of addresses, responses and      *)
(* instantiation messages, every clock width and every bound.              *)
(***************************************************************************)
EXTENDS TaskQueue, FiniteSetTheorems, TLAPS

(***************************************************************************)
(* Lemmas about the operators                                              *)
(***************************************************************************)
\* validate_timeout_info turns a well-typed message into u64 limits.
LEMMA TimeoutConfigType ==
    ASSUME NEW info \in TimeoutInfo
    PROVE  TimeoutConfig(info) \in TimeoutLimits
BY BoundsAssumption
   DEF TimeoutInfo, OptionU64, TimeoutConfig, TimeoutLimits, UnwrapOr

\* check_timeout lets through only timeouts within the limits.
LEMMA CheckedTimeoutWithinLimits ==
    ASSUME NEW limits \in TimeoutLimits, ValidTimeoutConfig(limits),
           NEW requested \in OptionU64,
           NEW timeout \in CheckedTimeouts(limits, requested)
    PROVE  /\ timeout \in 0..U64 - 1
           /\ limits.minimum <= timeout
           /\ timeout <= limits.maximum
<1>1. CASE requested = None
  BY <1>1, BoundsAssumption
     DEF CheckedTimeouts, TimeoutLimits, ValidTimeoutConfig
<1>2. CASE requested # None
  BY <1>2, BoundsAssumption DEF CheckedTimeouts, OptionU64
<1> QED BY <1>1, <1>2

\* A new task is well typed: its deadline is a u64, whatever the sum.
LEMMA NewTaskType ==
    ASSUME now \in Nat, NEW timeout \in Nat
    PROVE  NewTask(timeout) \in Task
<1>1. Timing(timeout) \in [created_at : Nat, expires_at : 0..U64 - 1]
  BY BoundsAssumption DEF Timing
<1> QED BY <1>1 DEF NewTask, Task

(***************************************************************************)
(* What each transaction does to the stored tasks                          *)
(***************************************************************************)
\* create stores one new task, under a fresh id, with a timeout within the
\* limits.
LEMMA CreateEffect ==
    ASSUME TypeOK, NEW sender, NEW funds, NEW requested \in Requested,
           Create(sender, funds, requested)
    PROVE  \E timeout \in Nat :
             /\ config.timeout.minimum <= timeout
             /\ timeout <= config.timeout.maximum
             /\ config.next_id \notin DOMAIN tasks
             /\ DOMAIN tasks' = DOMAIN tasks \cup {config.next_id}
             /\ tasks'[config.next_id] = NewTask(timeout)
             /\ \A k \in DOMAIN tasks : tasks'[k] = tasks[k]
<1> DEFINE id == config.next_id
<1>1. PICK timeout \in CheckedTimeouts(config.timeout, requested) :
         tasks' = Save(tasks, id, NewTask(timeout))
  BY DEF Create
<1>2. /\ timeout \in Nat
      /\ config.timeout.minimum <= timeout
      /\ timeout <= config.timeout.maximum
  BY CheckedTimeoutWithinLimits, MessageAssumption, BoundsAssumption DEF TypeOK
<1>3. id \notin DOMAIN tasks
  BY DEF TypeOK
<1>4. /\ DOMAIN tasks' = DOMAIN tasks \cup {id}
      /\ tasks'[id] = NewTask(timeout)
      /\ \A k \in DOMAIN tasks : tasks'[k] = tasks[k]
  <2> HIDE DEF id
  <2> QED BY <1>1, <1>3 DEF Save
<1> QED BY <1>2, <1>3, <1>4

\* complete rewrites one stored task.
LEMMA CompleteEffect ==
    ASSUME TypeOK, NEW sender, NEW funds, NEW id, NEW response \in Response,
           Complete(sender, funds, id, response)
    PROVE  /\ id \in DOMAIN tasks
           /\ Completable(tasks[id])
           /\ DOMAIN tasks' = DOMAIN tasks
           /\ tasks'[id].status = "completed"
           /\ tasks'[id].completed_at = now
           /\ tasks'[id].result = response
           /\ tasks'[id].timing = tasks[id].timing
           /\ tasks'[id] \in Task
           /\ \A k \in DOMAIN tasks \ {id} : tasks'[k] = tasks[k]
<1> DEFINE task == [tasks[id] EXCEPT !.status       = "completed",
                                     !.completed_at = now,
                                     !.result       = response]
<1>1. id \in DOMAIN tasks /\ Completable(tasks[id]) /\ tasks[id] \in Task
  BY DEF Complete, TypeOK
<1>2. task \in Task
  BY <1>1 DEF TypeOK, Task
<1>3. tasks' = Save(tasks, id, task)
  BY DEF Complete
<1>4. /\ DOMAIN tasks' = DOMAIN tasks
      /\ tasks'[id] = task
      /\ \A k \in DOMAIN tasks \ {id} : tasks'[k] = tasks[k]
  <2> HIDE DEF task
  <2> QED BY <1>1, <1>3 DEF Save
<1> QED BY <1>1, <1>2, <1>4 DEF Task

\* timeout rewrites the status of one stored task.
LEMMA TimeoutEffect ==
    ASSUME TypeOK, NEW funds, NEW id, Timeout(funds, id)
    PROVE  /\ id \in DOMAIN tasks
           /\ Expirable(tasks[id])
           /\ DOMAIN tasks' = DOMAIN tasks
           /\ tasks'[id].status = "expired"
           /\ tasks'[id].completed_at = tasks[id].completed_at
           /\ tasks'[id].result = tasks[id].result
           /\ tasks'[id].timing = tasks[id].timing
           /\ tasks'[id] \in Task
           /\ \A k \in DOMAIN tasks \ {id} : tasks'[k] = tasks[k]
<1> DEFINE task == [tasks[id] EXCEPT !.status = "expired"]
<1>1. id \in DOMAIN tasks /\ Expirable(tasks[id]) /\ tasks[id] \in Task
  BY DEF Timeout, TypeOK
<1>2. task \in Task
  BY <1>1 DEF Task
<1>3. tasks' = Save(tasks, id, task)
  BY DEF Timeout
<1>4. /\ DOMAIN tasks' = DOMAIN tasks
      /\ tasks'[id] = task
      /\ \A k \in DOMAIN tasks \ {id} : tasks'[k] = tasks[k]
  <2> HIDE DEF task
  <2> QED BY <1>1, <1>3 DEF Save
<1> QED BY <1>1, <1>2, <1>4 DEF Task

(***************************************************************************)
(* Type correctness                                                        *)
(***************************************************************************)
LEMMA InitTypeOK == Init => TypeOK
<1> SUFFICES ASSUME NEW msg \in InstantiateMsg, InitWith(msg)
             PROVE  TypeOK
  BY DEF Init
<1>1. TimeoutConfig(msg.timeout) \in TimeoutLimits
  BY TimeoutConfigType, MessageAssumption
<1>2. config \in [next_id   : Nat \ {0},
                  requestor : {m.requestor : m \in InstantiateMsg},
                  timeout   : {t \in TimeoutLimits : ValidTimeoutConfig(t)},
                  verifier  : {m.verifier : m \in InstantiateMsg}]
  BY <1>1 DEF InitWith, Config
<1>3. config.next_id = 1 /\ DOMAIN tasks = {}
  BY DEF InitWith, Config, EmptyMap
<1>4. DOMAIN tasks = 1..config.next_id - 1
  BY <1>3
<1> QED BY <1>2, <1>3, <1>4, BoundsAssumption DEF TypeOK, InitWith

\* create keeps the shape, whoever sends it and whatever comes with it.
LEMMA CreateTypeOK ==
    ASSUME TypeOK, NEW sender, NEW funds, NEW requested \in Requested,
           Create(sender, funds, requested)
    PROVE  TypeOK'
<1>1. PICK timeout \in Nat :
        /\ DOMAIN tasks' = DOMAIN tasks \cup {config.next_id}
        /\ tasks'[config.next_id] = NewTask(timeout)
        /\ \A k \in DOMAIN tasks : tasks'[k] = tasks[k]
  BY CreateEffect
<1>2. \A k \in DOMAIN tasks' : tasks'[k] \in Task
  BY <1>1, NewTaskType DEF TypeOK
<1>3. config' = [config EXCEPT !.next_id = @ + 1]
  BY DEF Create
<1>4. DOMAIN tasks' = 1..config'.next_id - 1
  BY <1>1, <1>3 DEF TypeOK
<1>5. config' \in [next_id   : Nat \ {0},
                   requestor : {m.requestor : m \in InstantiateMsg},
                   timeout   : {t \in TimeoutLimits : ValidTimeoutConfig(t)},
                   verifier  : {m.verifier : m \in InstantiateMsg}]
  BY <1>3 DEF TypeOK
<1>6. now' \in Nat
  BY DEF TypeOK, Create
<1> QED BY <1>2, <1>4, <1>5, <1>6 DEF TypeOK

LEMMA NextTypeOK == TypeOK /\ [Next]_vars => TypeOK'
<1> SUFFICES ASSUME TypeOK, [Next]_vars PROVE TypeOK'
  OBVIOUS
<1>1. ASSUME NEW sender, NEW funds, NEW requested \in Requested,
             Create(sender, funds, requested)
      PROVE  TypeOK'
  BY <1>1, CreateTypeOK
<1>2. ASSUME NEW sender, NEW funds, NEW id, NEW response \in Response,
             Complete(sender, funds, id, response)
      PROVE  TypeOK'
  BY <1>2, CompleteEffect DEF TypeOK, Complete
<1>3. ASSUME NEW funds, NEW id, Timeout(funds, id)
      PROVE  TypeOK'
  BY <1>3, TimeoutEffect DEF TypeOK, Timeout
<1>4. CASE Tick
  BY <1>4 DEF Tick, TypeOK
<1>5. CASE UNCHANGED vars
  BY <1>5 DEF vars, TypeOK
<1> QED BY <1>1, <1>2, <1>3, <1>4, <1>5
        DEF Next, CreateAny, CompleteAny, TimeoutAny

\* The storage keeps its shape: in particular every id below next_id holds a
\* task, so create never overwrites one.
THEOREM TypeCorrect == Spec => []TypeOK
BY InitTypeOK, NextTypeOK, PTL DEF Spec

(***************************************************************************)
(* Outcomes and deadlines                                                  *)
(***************************************************************************)
Safe == TypeOK /\ ResultExactlyWhenCompleted /\ DeadlineSeparates


\* Safe, of a single task
TaskSafe(task) ==
    /\ task.status = "completed" <=> task.result # None
    /\ task.status = "completed" <=> task.completed_at # None
    /\ task.timing.created_at <= now
    /\ task.status = "completed" =>
          /\ task.timing.created_at <= task.completed_at
          /\ task.completed_at < task.timing.expires_at
          /\ task.completed_at <= now
    /\ task.status = "expired" => task.timing.expires_at <= now

LEMMA SafePerTask ==
    Safe <=> TypeOK /\ \A id \in DOMAIN tasks : TaskSafe(tasks[id])
BY DEF Safe, ResultExactlyWhenCompleted, DeadlineSeparates, TaskSafe

LEMMA NextSafe == Safe /\ [Next]_vars => Safe'
<1> SUFFICES ASSUME Safe, [Next]_vars
             PROVE  Safe'
  OBVIOUS
<1> USE DEF Safe
<1>a. TypeOK /\ TypeOK' /\ \A id \in DOMAIN tasks : TaskSafe(tasks[id])
  BY NextTypeOK, SafePerTask
<1>b. SUFFICES ASSUME NEW k \in DOMAIN tasks'
               PROVE  TaskSafe(tasks[k])'
  BY <1>a DEF ResultExactlyWhenCompleted, DeadlineSeparates, TaskSafe
<1>1. ASSUME NEW sender, NEW funds, NEW requested \in Requested,
             Create(sender, funds, requested)
      PROVE  TaskSafe(tasks[k])'
  <2>1. PICK timeout \in Nat :
          /\ DOMAIN tasks' = DOMAIN tasks \cup {config.next_id}
          /\ tasks'[config.next_id] = NewTask(timeout)
          /\ \A i \in DOMAIN tasks : tasks'[i] = tasks[i]
    BY <1>1, CreateEffect
  <2>2. CASE k = config.next_id
    BY <1>1, <1>a, <2>1, <2>2 DEF Create, NewTask, Timing, TaskSafe, TypeOK
  <2>3. CASE k \in DOMAIN tasks
    BY <1>1, <1>a, <2>1, <2>3 DEF Create, TaskSafe
  <2> QED BY <2>1, <2>2, <2>3
<1>2. ASSUME NEW sender, NEW funds, NEW id, NEW response \in Response,
             Complete(sender, funds, id, response)
      PROVE  TaskSafe(tasks[k])'
  <2>1. now' = now
    BY <1>2 DEF Complete
  <2>2. /\ id \in DOMAIN tasks
        /\ Completable(tasks[id])
        /\ DOMAIN tasks' = DOMAIN tasks
        /\ tasks'[id].status = "completed"
        /\ tasks'[id].completed_at = now
        /\ tasks'[id].result = response
        /\ tasks'[id].timing = tasks[id].timing
        /\ \A i \in DOMAIN tasks \ {id} : tasks'[i] = tasks[i]
    BY <1>2, CompleteEffect
  <2>3. CASE k = id
    <3>1. tasks[id] \in Task /\ TaskSafe(tasks[id])
      BY <1>a, <2>2 DEF TypeOK
    <3>2. /\ now < tasks[k].timing.expires_at
          /\ tasks[k].timing.created_at <= now
      BY <1>a, <2>2, <2>3, <3>1
         DEF TypeOK, Task, Completable, IsExpired, TaskSafe
    <3> QED BY <1>a, <2>1, <2>2, <2>3, <3>2, BoundsAssumption, MessageAssumption
            DEF TaskSafe, TypeOK
  <2>4. CASE k # id
    BY <1>a, <2>1, <2>2, <2>4 DEF TaskSafe
  <2> QED BY <2>3, <2>4
<1>3. ASSUME NEW funds, NEW id, Timeout(funds, id)
      PROVE  TaskSafe(tasks[k])'
  <2>1. now' = now
    BY <1>3 DEF Timeout
  <2>2. /\ id \in DOMAIN tasks
        /\ Expirable(tasks[id])
        /\ DOMAIN tasks' = DOMAIN tasks
        /\ tasks'[id].status = "expired"
        /\ tasks'[id].completed_at = tasks[id].completed_at
        /\ tasks'[id].result = tasks[id].result
        /\ tasks'[id].timing = tasks[id].timing
        /\ \A i \in DOMAIN tasks \ {id} : tasks'[i] = tasks[i]
    BY <1>3, TimeoutEffect
  <2>3. CASE k = id
    <3>1. tasks[id] \in Task /\ TaskSafe(tasks[id])
      BY <1>a, <2>2 DEF TypeOK
    <3> QED BY <2>1, <2>2, <2>3, <3>1
            DEF Expirable, IsExpired, TaskSafe
  <2>4. CASE k # id
    BY <1>a, <2>1, <2>2, <2>4 DEF TaskSafe
  <2> QED BY <2>3, <2>4
<1>4. CASE Tick
  <2>1. tasks'[k] = tasks[k] /\ tasks[k] \in Task /\ TaskSafe(tasks[k])
    BY <1>4, <1>a DEF Tick, TypeOK
  <2>2. now' = now + 1 /\ now \in Nat
    BY <1>4, <1>a DEF Tick, TypeOK
  <2>3. tasks[k].completed_at # None => tasks[k].completed_at \in Nat
    BY <2>1 DEF Task
  <2> QED BY <2>1, <2>2, <2>3 DEF Task, TaskSafe
<1>5. CASE UNCHANGED vars
  BY <1>5, <1>a DEF vars, TaskSafe
<1> QED BY <1>1, <1>2, <1>3, <1>4, <1>5
        DEF Next, CreateAny, CompleteAny, TimeoutAny

LEMMA InitSafe == Init => Safe
BY InitTypeOK DEF Init, InitWith, EmptyMap, Safe,
   ResultExactlyWhenCompleted, DeadlineSeparates

THEOREM SafeInvariant == Spec => []Safe
BY InitSafe, NextSafe, PTL DEF Spec

\* A result is stored exactly with a completion, so list_completed never
\* meets the corrupt storage it guards against.
THEOREM ResultExactly == Spec => []ResultExactlyWhenCompleted
<1>1. Safe => ResultExactlyWhenCompleted
  BY DEF Safe
<1> QED BY <1>1, SafeInvariant, PTL

\* Completion strictly before the deadline, expiry at or after it.
THEOREM Deadlines == Spec => []DeadlineSeparates
<1>1. Safe => DeadlineSeparates
  BY DEF Safe
<1> QED BY <1>1, SafeInvariant, PTL

\* No id is handed out twice, no deadline moves, nothing closed reopens.
THEOREM ClosedFinal == Spec => ClosedTasksAreFinal
<1> DEFINE Final == \A id \in DOMAIN tasks :
                      /\ id \in DOMAIN tasks'
                      /\ tasks'[id].timing = tasks[id].timing
                      /\ tasks[id].status # "open" => tasks'[id] = tasks[id]
<1>1. TypeOK /\ [Next]_vars => [Final]_vars
  <2> SUFFICES ASSUME TypeOK, Next PROVE Final
    BY DEF vars
  <2>1. ASSUME NEW sender, NEW funds, NEW requested \in Requested,
               Create(sender, funds, requested)
        PROVE  Final
    BY <2>1, CreateEffect
  <2>2. ASSUME NEW sender, NEW funds, NEW id, NEW response \in Response,
               Complete(sender, funds, id, response)
        PROVE  Final
    BY <2>2, CompleteEffect DEF Completable
  <2>3. ASSUME NEW funds, NEW id, Timeout(funds, id)
        PROVE  Final
    BY <2>3, TimeoutEffect DEF Expirable
  <2>4. CASE Tick
    BY <2>4 DEF Tick
  <2> HIDE DEF Final
  <2> QED BY <2>1, <2>2, <2>3, <2>4
          DEF Next, CreateAny, CompleteAny, TimeoutAny
<1> QED BY <1>1, TypeCorrect, PTL DEF Spec, ClosedTasksAreFinal

(***************************************************************************)
(* Lifetimes                                                               *)
(***************************************************************************)
\* Block time is a u64.
InTime == now < U64

\* What create makes of the limits: the deadline they ask for, or that deadline
\* without its carry, which lies in the past.
DueOrWrapped(timing) ==
    \/ WithinLimits(timing, timing.expires_at)
    \/ /\ WithinLimits(timing, timing.expires_at + U64)
       /\ timing.expires_at < timing.created_at

Due == \A id \in DOMAIN tasks : DueOrWrapped(tasks[id].timing)

\* The sum of two u64 numbers leaves the u64 once at most.
LEMMA SumWraps ==
    ASSUME NEW t \in 0..U64 - 1, NEW d \in 0..U64 - 1
    PROVE  \/ (t + d) % U64 = t + d
           \/ /\ ((t + d) % U64) + U64 = t + d
              /\ (t + d) % U64 < t
<1>1. U64 \in Nat \ {0}
  BY BoundsAssumption
<1>2. CASE t + d < U64
  BY <1>1, <1>2
<1>3. CASE t + d >= U64
  <2>1. t + d - U64 \in 0..U64 - 1
    BY <1>1, <1>3
  <2>2. (t + d) % U64 = t + d - U64
    BY <1>1, <2>1
  <2> QED BY <1>1, <2>2
<1> QED BY <1>1, <1>2, <1>3

\* A new task's deadline is such a sum.
LEMMA NewTaskDue ==
    ASSUME TypeOK, InTime, NEW timeout \in Nat,
           config.timeout.minimum <= timeout, timeout <= config.timeout.maximum
    PROVE  DueOrWrapped(NewTask(timeout).timing)
<1>1. /\ config.timeout.minimum \in 0..U64 - 1 /\ config.timeout.maximum \in 0..U64 - 1
      /\ U64 \in Nat
  BY BoundsAssumption DEF TypeOK, TimeoutLimits
<1>2. now \in 0..U64 - 1 /\ timeout \in 0..U64 - 1
  BY <1>1 DEF TypeOK, InTime
<1> DEFINE deadline == (now + timeout) % U64
<1>3. deadline = now + timeout \/ (deadline + U64 = now + timeout /\ deadline < now)
  BY <1>2, SumWraps
<1>4. NewTask(timeout).timing = [created_at |-> now, expires_at |-> deadline]
  BY DEF NewTask, Timing
<1> HIDE DEF deadline
<1> QED BY <1>1, <1>2, <1>3, <1>4 DEF DueOrWrapped, WithinLimits

\* Every task lives for a time within the limits, or has expired when it is
\* created, because its deadline left the u64.
THEOREM Lifetimes == Spec => []LifetimeWithinLimits
<1> DEFINE Inv == Safe /\ InTime /\ Due
<1>1. Init => Inv
  <2>1. Init => InTime
    BY BoundsAssumption DEF Init, InitWith, InTime
  <2>2. Init => Due
    BY DEF Init, InitWith, EmptyMap, Due
  <2> QED BY <2>1, <2>2, InitSafe
<1>2. Inv /\ [Next]_vars => Inv'
  <2> SUFFICES ASSUME Inv, [Next]_vars PROVE Inv'
    OBVIOUS
  <2>0. TypeOK
    BY DEF Safe
  <2>1. Safe'
    BY NextSafe
  <2>2. InTime'
    <3>1. now' = now \/ Tick
      BY DEF Next, CreateAny, CompleteAny, TimeoutAny, Create, Complete, Timeout, vars
    <3>2. CASE Tick
      <4>1. now \in Nat /\ now < LastTime /\ now' = now + 1 /\ LastTime \in Nat
        BY <2>0, <3>2, BoundsAssumption DEF Tick, TypeOK
      <4>2. LastTime < U64 /\ U64 \in Nat
        BY BoundsAssumption
      <4> QED BY <4>1, <4>2 DEF InTime
    <3> QED BY <3>1, <3>2 DEF InTime
  <2>3. config'.timeout = config.timeout
    BY <2>0 DEF Next, CreateAny, CompleteAny, TimeoutAny, Create, Complete, Timeout,
       Tick, vars, TypeOK
  <2>4. \A timing : DueOrWrapped(timing) => DueOrWrapped(timing)'
    BY <2>3 DEF DueOrWrapped, WithinLimits
  <2>5. Due'
    <3>1. ASSUME NEW sender, NEW funds, NEW requested \in Requested,
                 Create(sender, funds, requested)
          PROVE  Due'
      <4>1. PICK timeout \in Nat :
              /\ config.timeout.minimum <= timeout
              /\ timeout <= config.timeout.maximum
              /\ DOMAIN tasks' = DOMAIN tasks \cup {config.next_id}
              /\ tasks'[config.next_id] = NewTask(timeout)
              /\ \A k \in DOMAIN tasks : tasks'[k] = tasks[k]
        BY <3>1, <2>0, CreateEffect
      <4>2. DueOrWrapped(tasks'[config.next_id].timing)
        BY <2>0, <4>1, NewTaskDue
      <4> QED BY <2>3, <4>1, <4>2 DEF Due, DueOrWrapped, WithinLimits
    <3>2. ASSUME NEW sender, NEW funds, NEW id, NEW response \in Response,
                 Complete(sender, funds, id, response)
          PROVE  Due'
      <4>1. /\ DOMAIN tasks' = DOMAIN tasks
            /\ \A k \in DOMAIN tasks : tasks'[k].timing = tasks[k].timing
        BY <3>2, <2>0, CompleteEffect
      <4> QED BY <2>3, <4>1 DEF Due, DueOrWrapped, WithinLimits
    <3>3. ASSUME NEW funds, NEW id, Timeout(funds, id)
          PROVE  Due'
      <4>1. /\ DOMAIN tasks' = DOMAIN tasks
            /\ \A k \in DOMAIN tasks : tasks'[k].timing = tasks[k].timing
        BY <3>3, <2>0, TimeoutEffect
      <4> QED BY <2>3, <4>1 DEF Due, DueOrWrapped, WithinLimits
    <3>4. CASE UNCHANGED tasks
      BY <3>4, <2>3 DEF Due, DueOrWrapped, WithinLimits
    <3> QED BY <3>1, <3>2, <3>3, <3>4
            DEF Next, CreateAny, CompleteAny, TimeoutAny, Tick, vars
  <2> QED BY <2>1, <2>2, <2>5
<1>3. Inv => LifetimeWithinLimits
  <2> SUFFICES ASSUME Safe, Due, NEW id \in DOMAIN tasks,
                      tasks[id].timing.expires_at < tasks[id].timing.created_at
               PROVE  ObservedStatus(tasks[id]) = "expired"
    BY DEF LifetimeWithinLimits, Due, DueOrWrapped
  <2>1. /\ tasks[id] \in Task /\ now \in Nat
        /\ tasks[id].timing.created_at <= now
        /\ tasks[id].status = "completed" =>
              /\ tasks[id].timing.created_at <= tasks[id].completed_at
              /\ tasks[id].completed_at < tasks[id].timing.expires_at
              /\ tasks[id].completed_at # None
    BY DEF Safe, TypeOK, DeadlineSeparates, ResultExactlyWhenCompleted
  <2>2. /\ tasks[id].timing.created_at \in Nat /\ tasks[id].timing.expires_at \in Nat
        /\ tasks[id].completed_at # None => tasks[id].completed_at \in Nat
        /\ tasks[id].status \in {"open", "completed", "expired"}
    BY <2>1, BoundsAssumption DEF Task
  <2>3. tasks[id].status # "completed" /\ IsExpired(tasks[id].timing)
    BY <2>1, <2>2 DEF IsExpired
  <2> QED BY <2>2, <2>3 DEF ObservedStatus
<1> QED BY <1>1, <1>2, <1>3, PTL DEF Spec

(***************************************************************************)
(* Refinement of the abstract life cycle                                   *)
(***************************************************************************)
LEMMA CreateAppears ==
    ASSUME Safe, NEW sender, NEW funds, NEW requested \in Requested,
           Create(sender, funds, requested)
    PROVE  Lifecycle!Appear
<1> DEFINE id == config.next_id
<1>1. PICK timeout \in Nat :
        /\ id \notin DOMAIN tasks
        /\ DOMAIN tasks' = DOMAIN tasks \cup {id}
        /\ tasks'[id] = NewTask(timeout)
        /\ \A k \in DOMAIN tasks : tasks'[k] = tasks[k]
  BY CreateEffect DEF Safe
<1>2. now' = now /\ id \in 1..MaxTasks
  BY BoundsAssumption DEF Create, Safe, TypeOK
<1>3. id \in (1..MaxTasks) \ DOMAIN Observed
  BY <1>1, <1>2 DEF Observed
<1> DEFINE born == Observed'[id]
<1>4. born = [status |-> ObservedStatus(NewTask(timeout))', answer |-> None]
  BY <1>1, <1>2 DEF Observed, NewTask, ObservedStatus, IsExpired, Timing
<1>5. born \in {Lifecycle!Open, Lifecycle!Lapsed}
  BY <1>4 DEF NewTask, ObservedStatus, Lifecycle!Open, Lifecycle!Lapsed
<1>6. Observed' = [i \in DOMAIN Observed \cup {id} |->
                     IF i = id THEN born ELSE Observed[i]]
  BY <1>1, <1>2 DEF Observed, ObservedStatus, IsExpired
<1> HIDE DEF id, born
<1> QED BY <1>3, <1>5, <1>6 DEF Lifecycle!Appear

LEMMA CompleteCompletes ==
    ASSUME Safe, NEW sender, NEW funds, NEW id, NEW response \in Response,
           Complete(sender, funds, id, response)
    PROVE  Lifecycle!Complete
<1>1. /\ id \in DOMAIN tasks
      /\ Completable(tasks[id])
      /\ DOMAIN tasks' = DOMAIN tasks
      /\ tasks'[id].status = "completed"
      /\ tasks'[id].result = response
      /\ \A k \in DOMAIN tasks \ {id} : tasks'[k] = tasks[k]
  BY CompleteEffect DEF Safe
<1>2. now' = now
  BY DEF Complete
<1>3. tasks[id].result = None
  BY <1>1 DEF Safe, ResultExactlyWhenCompleted, Completable
<1>4. id \in DOMAIN Observed /\ Observed[id] = Lifecycle!Open
  BY <1>1, <1>3
     DEF Observed, ObservedStatus, Completable, Lifecycle!Open
<1>5. Observed' = [Observed EXCEPT ![id] = Lifecycle!Done(response)]
  BY <1>1, <1>2 DEF Observed, ObservedStatus, IsExpired, Lifecycle!Done
<1> QED BY <1>4, <1>5 DEF Lifecycle!Complete

LEMMA TimeoutStutters ==
    ASSUME Safe, NEW funds, NEW id, Timeout(funds, id)
    PROVE  UNCHANGED Observed
<1>1. /\ id \in DOMAIN tasks
      /\ Expirable(tasks[id])
      /\ DOMAIN tasks' = DOMAIN tasks
      /\ tasks'[id].status = "expired"
      /\ tasks'[id].result = tasks[id].result
      /\ \A k \in DOMAIN tasks \ {id} : tasks'[k] = tasks[k]
  BY TimeoutEffect DEF Safe
<1>2. now' = now
  BY DEF Timeout
<1> QED BY <1>1, <1>2 DEF Observed, ObservedStatus, Expirable, IsExpired

LEMMA TickLapses ==
    ASSUME Safe, Tick
    PROVE  Lifecycle!Lapse
<1> DEFINE S == {id \in DOMAIN tasks :
                   Completable(tasks[id]) /\ Expirable(tasks[id])'}
<1>1. now \in Nat /\ now' = now + 1 /\ tasks' = tasks
  BY DEF Tick, Safe, TypeOK
<1>2. \A id \in S : Observed[id] = Lifecycle!Open
  BY DEF Safe, ResultExactlyWhenCompleted, Observed, ObservedStatus,
     Completable, Lifecycle!Open
<1>3. S \subseteq {id \in DOMAIN Observed : Observed[id] = Lifecycle!Open}
  BY <1>2 DEF Observed
<1>4. ASSUME NEW id \in DOMAIN tasks
      PROVE  Observed'[id] = IF id \in S THEN Lifecycle!Lapsed ELSE Observed[id]
  <2>1. tasks[id].timing.expires_at \in Nat
    BY BoundsAssumption DEF Safe, TypeOK, Task
  <2>2. CASE id \in S
    BY <1>1, <2>2 DEF Safe, ResultExactlyWhenCompleted, Observed,
       ObservedStatus, Completable, Expirable, Lifecycle!Lapsed
  <2>3. CASE id \notin S
    BY <1>1, <2>1, <2>3
       DEF Observed, ObservedStatus, Completable, Expirable, IsExpired
  <2> QED BY <2>2, <2>3
<1>5. Observed' = [id \in DOMAIN Observed |->
                     IF id \in S THEN Lifecycle!Lapsed ELSE Observed[id]]
  <2> HIDE DEF S
  <2> QED BY <1>1, <1>4 DEF Observed
<1> HIDE DEF S
<1> QED BY <1>3, <1>5 DEF Lifecycle!Lapse

\* What a client sees through the status queries is the abstract life cycle.
THEOREM Refinement == Spec => ImplementsLifecycle
<1>1. Init => Lifecycle!Init
  BY DEF Init, InitWith, EmptyMap, Lifecycle!Init, Observed
<1>2. Safe /\ [Next]_vars => [Lifecycle!Next]_Observed
  <2> SUFFICES ASSUME Safe, [Next]_vars
               PROVE  Lifecycle!Next \/ UNCHANGED Observed
    OBVIOUS
  <2>1. CASE CreateAny
    BY <2>1, CreateAppears DEF CreateAny, Lifecycle!Next
  <2>2. CASE CompleteAny
    BY <2>2, CompleteCompletes DEF CompleteAny, Lifecycle!Next
  <2>3. CASE TimeoutAny
    BY <2>3, TimeoutStutters DEF TimeoutAny
  <2>4. CASE Tick
    BY <2>4, TickLapses DEF Lifecycle!Next
  <2>5. CASE UNCHANGED vars
    BY <2>5 DEF vars, Observed, ObservedStatus, IsExpired
  <2> QED BY <2>1, <2>2, <2>3, <2>4, <2>5 DEF Next
<1> QED BY <1>1, <1>2, SafeInvariant, PTL
        DEF Spec, ImplementsLifecycle, Lifecycle!Spec

(***************************************************************************)
(* The lists                                                               *)
(***************************************************************************)
\* How many of the ids are not older than id
Rank(ids, id) == Cardinality({k \in ids : k >= id})

LEMMA RankOrder ==
    ASSUME NEW ids \in SUBSET Nat, IsFiniteSet(ids), NEW a \in ids, NEW b \in ids
    PROVE  /\ Rank(ids, a) \in 1..Cardinality(ids)
           /\ a < b => Rank(ids, b) < Rank(ids, a)
<1> DEFINE A == {k \in ids : k >= a}
           B == {k \in ids : k >= b}
<1>0. \A k \in ids : k \in Nat
  OBVIOUS
<1>1. IsFiniteSet(A) /\ IsFiniteSet(B) /\ Cardinality(A) <= Cardinality(ids)
  BY FS_Subset
<1>2. Cardinality(A) \in Nat /\ Cardinality(B) \in Nat /\ Cardinality(ids) \in Nat
  BY <1>1, FS_CardinalityType
<1>3. a \in A
  OBVIOUS
<1>4. ASSUME a < b PROVE B \in SUBSET A /\ B # A
  <2>1. a \notin B
    BY <1>0, <1>4
  <2>2. \A k \in B : k \in A
    BY <1>0, <1>4
  <2> QED BY <1>3, <2>1, <2>2
<1> HIDE DEF A, B
<1>5. Cardinality(A) # 0
  BY <1>1, <1>3, FS_EmptySet
<1>6. ASSUME a < b PROVE Cardinality(B) < Cardinality(A)
  <2>1. Cardinality(B) <= Cardinality(A) /\ Cardinality(A) # Cardinality(B)
    BY <1>1, <1>4, <1>6, FS_Subset
  <2> QED BY <1>2, <2>1
<1> QED BY <1>1, <1>2, <1>5, <1>6 DEF Rank, A, B

\* The ids come each once, newest first.
Lists(list, ids) ==
    /\ list \in Seq(ids)
    /\ \A i, j \in DOMAIN list : i < j => list[i] > list[j]
    /\ \A id \in ids : \E i \in DOMAIN list : list[i] = id

LEMMA DescendingLists ==
    ASSUME NEW ids \in SUBSET Nat, IsFiniteSet(ids)
    PROVE  Lists(Descending(ids), ids)
<1> DEFINE n == Cardinality(ids)
           rank == [id \in ids |-> Rank(ids, id)]
           list == Descending(ids)
<1>0. \A id \in ids : id \in Nat
  OBVIOUS
<1>1. n \in Nat
  BY FS_CardinalityType
<1>2. \A a \in ids : rank[a] \in 1..n
  BY RankOrder
<1>3. ASSUME NEW a \in ids, NEW b \in ids
      PROVE  (rank[a] = rank[b] => a = b) /\ (rank[a] < rank[b] => a > b)
  <2>1. rank[a] \in Nat /\ rank[b] \in Nat /\ a \in Nat /\ b \in Nat
    BY <1>0, <1>1, <1>2
  <2>2. (a < b => rank[b] < rank[a]) /\ (b < a => rank[a] < rank[b])
    BY RankOrder
  <2> HIDE DEF rank
  <2> QED BY <2>1, <2>2
<1>4. \A i \in 1..n : \E id \in ids : rank[id] = i
  <2>1. IsFiniteSet(1..n) /\ Cardinality(1..n) = n
    BY <1>1, FS_Interval
  <2>2. rank \in [ids -> 1..n] /\ \A a, b \in ids : rank[a] = rank[b] => a = b
    BY <1>2, <1>3
  <2> HIDE DEF rank
  <2>3. rank \in Injection(ids, 1..n)
    BY <2>2 DEF Injection, IsInjective
  <2>4. rank \in Surjection(ids, 1..n)
    BY <2>1, <2>3, FS_Injection
  <2> QED BY <2>4 DEF Surjection
<1>5. list = [i \in 1..n |-> CHOOSE id \in ids : rank[id] = i]
  <2>1. \A i \in 1..n : (CHOOSE id \in ids : Rank(ids, id) = i) = (CHOOSE id \in ids : rank[id] = i)
    OBVIOUS
  <2>2. list = [i \in 1..n |-> CHOOSE id \in ids : Rank(ids, id) = i]
    BY DEF Descending, Rank
  <2> HIDE DEF rank, list, n
  <2> QED BY <2>1, <2>2
<1> HIDE DEF list, rank, n
<1>6. DOMAIN list = 1..n /\ \A i \in 1..n : list[i] \in ids /\ rank[list[i]] = i
  BY <1>4, <1>5
<1>7. list \in Seq(ids)
  BY <1>1, <1>5, <1>6
<1>8. ASSUME NEW i \in 1..n, NEW j \in 1..n, i < j PROVE list[i] > list[j]
  <2>1. list[i] \in ids /\ list[j] \in ids /\ rank[list[i]] < rank[list[j]]
    BY <1>6, <1>8
  <2> QED BY <1>3, <2>1
<1>9. ASSUME NEW id \in ids PROVE list[rank[id]] = id
  <2>1. list[rank[id]] \in ids /\ rank[list[rank[id]]] = rank[id] /\ rank[id] \in 1..n
    BY <1>2, <1>6
  <2> QED BY <1>3, <2>1
<1>10. Lists(list, ids)
  BY <1>2, <1>6, <1>7, <1>8, <1>9 DEF Lists
<1> QED BY <1>10 DEF list

\* What a page shows: newest first, ids within its range, and if it leaves one
\* of them out it is full of newer ones.
InRange(ids, start_after) == {id \in ids : start_after = None \/ id < start_after}

PageOf(page, ids, start_after, limit) ==
    /\ page \in Seq(InRange(ids, start_after))
    /\ \A i, j \in DOMAIN page : i < j => page[i] > page[j]
    /\ \A id \in InRange(ids, start_after) :
          \/ \E i \in DOMAIN page : page[i] = id
          \/ /\ limit # None /\ Len(page) = limit
             /\ \A i \in DOMAIN page : page[i] > id

LEMMA PageShows ==
    ASSUME NEW ids \in SUBSET Nat, IsFiniteSet(ids), NEW start_after,
           NEW limit, limit = None \/ limit \in Nat
    PROVE  PageOf(Page(ids, start_after, limit), ids, start_after, limit)
<1> DEFINE S == InRange(ids, start_after)
           all == Descending(S)
           page == Page(ids, start_after, limit)
<1>1. S \in SUBSET Nat /\ IsFiniteSet(S)
  BY FS_Subset DEF InRange
<1>2. Lists(all, S)
  BY <1>1, DescendingLists
<1>3. page = IF limit = None \/ limit >= Len(all) THEN all ELSE SubSeq(all, 1, limit)
  BY DEF Page, InRange
<1> HIDE DEF S, all, page
<1>4. /\ all \in Seq(S) /\ Len(all) \in Nat /\ DOMAIN all = 1..Len(all)
      /\ \A i \in 1..Len(all) : all[i] \in S
  BY <1>2 DEF Lists
<1>5. CASE limit = None \/ limit >= Len(all)
  <2>1. page = all
    BY <1>3, <1>5
  <2> QED BY <1>2, <2>1 DEF Lists, PageOf, S, page
<1>6. CASE ~(limit = None \/ limit >= Len(all))
  <2>1. limit \in Nat /\ limit < Len(all) /\ page = SubSeq(all, 1, limit) /\ limit # None
    BY <1>3, <1>4, <1>6
  <2>2. /\ page \in Seq(S) /\ Len(page) = limit /\ DOMAIN page = 1..limit
        /\ \A i \in 1..limit : page[i] = all[i] /\ i \in 1..Len(all)
    BY <1>4, <2>1
  <2>3. \A i, j \in DOMAIN page : i < j => page[i] > page[j]
    BY <1>2, <1>4, <2>2 DEF Lists
  <2>4. ASSUME NEW id \in S, \A i \in DOMAIN page : page[i] # id
        PROVE  \A i \in DOMAIN page : page[i] > id
    <3>1. PICK k \in 1..Len(all) : all[k] = id
      BY <1>2, <1>4 DEF Lists
    <3>2. k > limit
      <4>1. k \notin 1..limit
        BY <2>2, <2>4, <3>1
      <4> QED BY <1>4, <2>1, <4>1
    <3>3. \A i \in 1..limit : all[i] > all[k]
      BY <1>2, <1>4, <2>1, <3>2 DEF Lists
    <3> QED BY <2>2, <3>1, <3>3
  <2> QED BY <2>1, <2>2, <2>3, <2>4 DEF PageOf, S, page
<1> QED BY <1>5, <1>6

LEMMA FiniteLists ==
    ASSUME TypeOK
    PROVE  /\ ListedOpen \in SUBSET Nat /\ IsFiniteSet(ListedOpen)
           /\ ListedCompleted \in SUBSET Nat /\ IsFiniteSet(ListedCompleted)
<1>1. DOMAIN tasks = 1..config.next_id - 1 /\ config.next_id \in Nat
  BY DEF TypeOK
<1>2. IsFiniteSet(DOMAIN tasks) /\ DOMAIN tasks \in SUBSET Nat
  BY <1>1, FS_Interval
<1> QED BY <1>2, FS_Subset DEF ListedOpen, ListedCompleted

\* list_open, the status queries and complete agree on which tasks are open, at
\* every second.
THEOREM OpenTheSame == Spec => []OpenEverywhereTheSame
<1>1. TypeOK => OpenEverywhereTheSame
  <2> SUFFICES ASSUME TypeOK PROVE OpenEverywhereTheSame
    OBVIOUS
  <2>1. PageOf(ListOpen(None, None), ListedOpen, None, None)
    BY FiniteLists, PageShows DEF ListOpen
  <2>2. InRange(ListedOpen, None) = ListedOpen
    BY DEF InRange
  <2>3. ToSet(ListOpen(None, None)) = ListedOpen
    BY <2>1, <2>2 DEF PageOf, ToSet
  <2>4. \A id \in DOMAIN tasks :
           /\ id \in ListedOpen <=> Completable(tasks[id])
           /\ id \in ListedOpen <=> ObservedStatus(tasks[id]) = "open"
    BY BoundsAssumption
       DEF ListedOpen, Completable, ObservedStatus, IsExpired, TypeOK, Task
  <2>5. ListedOpen \subseteq DOMAIN tasks
    BY DEF ListedOpen
  <2> QED BY <2>3, <2>4, <2>5 DEF OpenEverywhereTheSame
<1> QED BY <1>1, TypeCorrect, PTL
=============================================================================
