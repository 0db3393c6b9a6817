------------------------- MODULE QueueClient_proofs -------------------------
(***************************************************************************)
(* Theorems about the commands that use a queue: add-task, for any         *)
(* clients, any requestor rule and timeout limits instantiate accepts, and *)
(* any number of tasks, broken connections and late transactions; and the  *)
(* readers of QueueView, for any ranges, limits and page sizes.            *)
(***************************************************************************)
EXTENDS QueueClient, QueueView, FiniteSetTheorems, TLAPS

\* What is proved about the queue alone
QueueFacts == INSTANCE TaskQueue_proofs

(***************************************************************************)
(* The queue the clients talk to is the queue of TaskQueue.                *)
(***************************************************************************)
LEMMA SameConstants ==
    /\ QueueFacts!OptionU64 = Queue!OptionU64
    /\ QueueFacts!TimeoutInfo = Queue!TimeoutInfo
BY DEF Queue!OptionU64, QueueFacts!OptionU64, Queue!TimeoutInfo, QueueFacts!TimeoutInfo

LEMMA SameInit == Queue!Init => QueueFacts!Init
BY DEF Queue!Init, QueueFacts!Init, Queue!InitWith, QueueFacts!InitWith,
   Queue!ValidTimeoutConfig, QueueFacts!ValidTimeoutConfig,
   Queue!TimeoutConfig, QueueFacts!TimeoutConfig,
   Queue!UnwrapOr, QueueFacts!UnwrapOr, Queue!Config, QueueFacts!Config,
   Queue!EmptyMap, QueueFacts!EmptyMap

LEMMA SameCreate ==
    ASSUME NEW sender, NEW funds, NEW requested,
           Queue!Create(sender, funds, requested)
    PROVE  QueueFacts!Create(sender, funds, requested)
BY DEF Queue!Create, QueueFacts!Create,
   Queue!RequestorAccepts, QueueFacts!RequestorAccepts,
   Queue!CheckedTimeouts, QueueFacts!CheckedTimeouts, Queue!NewTask, QueueFacts!NewTask,
   Queue!Timing, QueueFacts!Timing, Queue!Save, QueueFacts!Save

LEMMA SameBlock ==
    ASSUME Block
    PROVE  QueueFacts!CompleteAny \/ QueueFacts!TimeoutAny \/ QueueFacts!Tick
<1>1. CASE Queue!CompleteAny
  BY <1>1 DEF Queue!CompleteAny, QueueFacts!CompleteAny, Queue!Complete,
     QueueFacts!Complete, Queue!Funds, QueueFacts!Funds, Queue!NoFunds, QueueFacts!NoFunds,
     Queue!Completable, QueueFacts!Completable, Queue!IsExpired, QueueFacts!IsExpired,
     Queue!Save, QueueFacts!Save
<1>2. CASE Queue!TimeoutAny
  BY <1>2 DEF Queue!TimeoutAny, QueueFacts!TimeoutAny, Queue!Timeout,
     QueueFacts!Timeout, Queue!Funds, QueueFacts!Funds, Queue!NoFunds,
     QueueFacts!NoFunds, Queue!Expirable, QueueFacts!Expirable,
     Queue!IsExpired, QueueFacts!IsExpired, Queue!Save, QueueFacts!Save
<1>3. CASE Queue!Tick
  BY <1>3 DEF Queue!Tick, QueueFacts!Tick
<1> QED BY <1>1, <1>2, <1>3 DEF Block

(***************************************************************************)
(* The invariant                                                           *)
(***************************************************************************)
Body0 == Body \cup {CHOOSE b \in Body : TRUE}

Job == [phase   : {"idle", "refused", "sending", "answered", "failed", "added"},
        body    : Body0,
        timeout : Requested \cup {None},
        id      : Nat]

Types ==
    /\ job \in [Client -> Job]
    /\ author \in Seq(Client)
    /\ reported \in [Client -> Seq(Nat)]
    /\ \A m \in strays : m.from \in Client /\ m.timeout \in Requested

\* What is being sent passed the client's own checks.
Sending ==
    \A c \in Client :
        job[c].phase = "sending" => MayRequest(c) /\ job[c].timeout \in Requested

\* The authors are those of the tasks on the queue.
Authored == Len(author) = config.next_id - 1

\* The id in an answer is newer than all the client has been told.
Answered ==
    \A c \in Client :
        job[c].phase = "answered" =>
            /\ job[c].id \in DOMAIN tasks
            /\ author[job[c].id] = c
            /\ \A i \in DOMAIN reported[c] : reported[c][i] < job[c].id

\* What a client has been told are tasks of its own, each newer than the last.
Told ==
    \A c \in Client : \A i \in DOMAIN reported[c] :
        /\ reported[c][i] \in DOMAIN tasks
        /\ author[reported[c][i]] = c
        /\ \A j \in DOMAIN reported[c] : i < j => reported[c][i] < reported[c][j]

\* The task of an answer lives as long as its client asked for.
Lasts(timing, timeout, default) ==
    timing.expires_at - timing.created_at = IF timeout = None THEN default ELSE timeout

Lives ==
    \A c \in Client :
        job[c].phase \in {"answered", "added"} =>
            /\ job[c].id \in DOMAIN tasks
            /\ Lasts(tasks[job[c].id].timing, job[c].timeout, config.timeout.default)

\* The limits are those of the instantiation message for good.
Limits ==
    \E msg \in InstantiateMsg : config.timeout = Queue!TimeoutConfig(msg.timeout)

Inv == QueueFacts!TypeOK /\ Limits /\ Types /\ Sending /\ Authored /\ Answered /\ Told /\ Lives

(***************************************************************************)
(* What the queue does                                                     *)
(***************************************************************************)
\* No deadline leaves the u64.
NoOverflow ==
    \A msg \in InstantiateMsg :
        LastCreate + Queue!TimeoutConfig(msg.timeout).maximum < U64

\* It stores one new task, under the next id, with the lifetime asked for.
LEMMA Created ==
    ASSUME NoOverflow, QueueFacts!TypeOK, Limits,
           NEW sender, NEW funds, NEW requested \in Requested,
           Queue!Create(sender, funds, requested)
    PROVE  /\ QueueFacts!TypeOK'
           /\ config' = [config EXCEPT !.next_id = @ + 1]
           /\ config.next_id \notin DOMAIN tasks
           /\ DOMAIN tasks' = DOMAIN tasks \cup {config.next_id}
           /\ \A k \in DOMAIN tasks : tasks'[k] = tasks[k]
           /\ Lasts(tasks'[config.next_id].timing, requested, config.timeout.default)
<1> DEFINE id == config.next_id
<1>0. QueueFacts!Create(sender, funds, requested)
  BY SameCreate
<1>1. QueueFacts!TypeOK'
  BY <1>0, QueueFacts!CreateTypeOK, SameConstants, QueueAssumption
<1>2. PICK timeout \in QueueFacts!CheckedTimeouts(config.timeout, requested) :
         tasks' = QueueFacts!Save(tasks, id, QueueFacts!NewTask(timeout))
  BY <1>0 DEF QueueFacts!Create
<1>3. id \notin DOMAIN tasks
  BY QueueAssumption DEF QueueFacts!TypeOK
<1>4. /\ DOMAIN tasks' = DOMAIN tasks \cup {id}
      /\ tasks'[id] = QueueFacts!NewTask(timeout)
      /\ \A k \in DOMAIN tasks : tasks'[k] = tasks[k]
  <2> HIDE DEF id
  <2> QED BY <1>2, <1>3 DEF QueueFacts!Save
<1>5. timeout \in Nat /\ timeout <= config.timeout.maximum
  BY <1>2, QueueFacts!CheckedTimeoutWithinLimits, SameConstants, QueueAssumption
     DEF QueueFacts!TypeOK
<1>6. now <= LastCreate /\ config' = [config EXCEPT !.next_id = @ + 1]
  BY <1>0 DEF QueueFacts!Create
<1>7. LastCreate + config.timeout.maximum < U64
  BY DEF NoOverflow, Limits, QueueFacts!TimeoutConfig, Queue!TimeoutConfig,
     QueueFacts!UnwrapOr, Queue!UnwrapOr
<1>8. now \in Nat /\ config.timeout.maximum \in Nat
  BY QueueAssumption DEF QueueFacts!TypeOK, QueueFacts!TimeoutLimits
<1>9. now + timeout < U64 /\ now + timeout \in Nat
  BY <1>5, <1>6, <1>7, <1>8, QueueAssumption
<1>10. (now + timeout) % U64 = now + timeout
  BY <1>9, QueueAssumption
<1>11. /\ tasks'[id].timing.expires_at = now + timeout
       /\ tasks'[id].timing.created_at = now
  BY <1>4, <1>10 DEF QueueFacts!NewTask, QueueFacts!Timing
<1>12. timeout = IF requested = None THEN config.timeout.default ELSE requested
  BY <1>2 DEF QueueFacts!CheckedTimeouts
<1>13. Lasts(tasks'[id].timing, requested, config.timeout.default)
  BY <1>5, <1>8, <1>11, <1>12 DEF Lasts
<1> QED BY <1>1, <1>3, <1>4, <1>6, <1>13

\* Votes, timeouts and blocks leave the timing of every task alone.
LEMMA Blocked ==
    ASSUME QueueFacts!TypeOK, Block
    PROVE  /\ QueueFacts!TypeOK'
           /\ config' = config
           /\ DOMAIN tasks' = DOMAIN tasks
           /\ \A k \in DOMAIN tasks : tasks'[k].timing = tasks[k].timing
<1>1. QueueFacts!Next
  BY SameBlock DEF QueueFacts!Next
<1>2. QueueFacts!TypeOK'
  BY <1>1, QueueFacts!NextTypeOK, SameConstants, QueueAssumption
<1>3. CASE QueueFacts!CompleteAny
  <2>1. PICK sender \in Address, funds \in QueueFacts!Funds, id \in 1..MaxTasks,
             response \in Response :
           QueueFacts!Complete(sender, funds, id, response)
    BY <1>3 DEF QueueFacts!CompleteAny
  <2>2. config' = config
    BY <2>1 DEF QueueFacts!Complete
  <2>3. /\ id \in DOMAIN tasks /\ DOMAIN tasks' = DOMAIN tasks
        /\ tasks'[id].timing = tasks[id].timing
        /\ \A k \in DOMAIN tasks \ {id} : tasks'[k] = tasks[k]
    BY <2>1, QueueFacts!CompleteEffect, SameConstants, QueueAssumption
  <2> QED BY <1>2, <2>2, <2>3
<1>4. CASE QueueFacts!TimeoutAny
  <2>1. PICK funds, id : QueueFacts!Timeout(funds, id)
    BY <1>4 DEF QueueFacts!TimeoutAny
  <2>2. config' = config
    BY <2>1 DEF QueueFacts!Timeout
  <2>3. /\ id \in DOMAIN tasks /\ DOMAIN tasks' = DOMAIN tasks
        /\ tasks'[id].timing = tasks[id].timing
        /\ \A k \in DOMAIN tasks \ {id} : tasks'[k] = tasks[k]
    BY <2>1, QueueFacts!TimeoutEffect, SameConstants, QueueAssumption
  <2> QED BY <1>2, <2>2, <2>3
<1>5. CASE QueueFacts!Tick
  BY <1>2, <1>5 DEF QueueFacts!Tick
<1> QED BY <1>3, <1>4, <1>5, SameBlock

(***************************************************************************)
(* The invariant holds                                                     *)
(***************************************************************************)
LEMMA InitInv == Init => Inv
<1> SUFFICES ASSUME Init PROVE Inv
  OBVIOUS
<1>1. QueueFacts!Init
  BY SameInit DEF Init
<1>2. QueueFacts!TypeOK
  BY <1>1, QueueFacts!InitTypeOK, SameConstants, QueueAssumption
<1>3. Limits /\ config.next_id = 1
  BY DEF Init, Queue!Init, Queue!InitWith, Queue!Config, Limits
<1>4. Types
  <2>1. NewJob("idle", CHOOSE b \in Body : TRUE, None) \in Job
    BY DEF NewJob, Job, Body0
  <2> QED BY <2>1 DEF Init, Types
<1>5. \A c \in Client : job[c].phase = "idle" /\ reported[c] = <<>>
  BY DEF Init, NewJob
<1>6. Authored
  BY <1>3 DEF Init, Authored
<1> QED BY <1>2, <1>3, <1>4, <1>5, <1>6 DEF Inv, Sending, Answered, Told, Lives

\* A step that leaves the queue alone and answers nobody
LEMMA IdleStep ==
    ASSUME Inv, UNCHANGED <<now, config, tasks, author, reported>>,
           job' \in [Client -> Job],
           \A m \in strays' : m.from \in Client /\ m.timeout \in Requested,
           \A c \in Client :
              \/ job'[c] = job[c]
              \/ job'[c].phase \in {"refused", "failed"}
              \/ /\ job'[c].phase = "sending"
                 /\ MayRequest(c) /\ job'[c].timeout \in Requested
    PROVE  Inv'
<1>1. QueueFacts!TypeOK' /\ Limits' /\ Authored'
  BY DEF Inv, QueueFacts!TypeOK, Limits, Authored
<1>2. Types'
  BY DEF Inv, Types
<1>3. Sending'
  BY DEF Inv, Sending, MayRequest
<1>4. Answered'
  BY DEF Inv, Answered
<1>5. Told'
  BY DEF Inv, Told
<1>6. Lives'
  BY DEF Inv, Lives
<1> QED BY <1>1, <1>2, <1>3, <1>4, <1>5, <1>6 DEF Inv

LEMMA AddInv ==
    ASSUME Inv, NEW c \in Client, Add(c) \/ CreateRefused(c) \/ Break(c)
    PROVE  Inv'
<1>0. job \in [Client -> Job]
  BY DEF Inv, Types
<1>1. ASSUME NEW body \in Body, NEW timeout \in Requested, AddTask(c, body, timeout)
      PROVE  Inv'
  <2> DEFINE update == NewJob("sending", body, timeout)
  <2>1. update \in Job /\ update.phase = "sending" /\ update.timeout = timeout
    BY DEF NewJob, Job, Body0
  <2>2. /\ MayRequest(c) /\ job' = [job EXCEPT ![c] = update] /\ strays' = strays
        /\ UNCHANGED <<now, config, tasks, author, reported>>
    BY <1>1 DEF AddTask
  <2> HIDE DEF update
  <2>3. job' \in [Client -> Job] /\ job'[c] = update
        /\ \A d \in Client : d # c => job'[d] = job[d]
    BY <1>0, <2>1, <2>2
  <2> QED BY <2>1, <2>2, <2>3, IdleStep DEF Inv, Types
<1>2. ASSUME NEW body \in Body, NEW timeout \in Requested, AddTaskRefused(c, body, timeout)
      PROVE  Inv'
  <2> DEFINE update == NewJob("refused", body, timeout)
  <2>1. update \in Job /\ update.phase = "refused"
    BY DEF NewJob, Job, Body0
  <2>2. /\ job' = [job EXCEPT ![c] = update] /\ strays' = strays
        /\ UNCHANGED <<now, config, tasks, author, reported>>
    BY <1>2 DEF AddTaskRefused
  <2> HIDE DEF update
  <2>3. job' \in [Client -> Job] /\ job'[c] = update
        /\ \A d \in Client : d # c => job'[d] = job[d]
    BY <1>0, <2>1, <2>2
  <2> QED BY <2>1, <2>2, <2>3, IdleStep DEF Inv, Types
<1>3. CASE CreateRefused(c) \/ Break(c)
  <2>1. /\ job' = [job EXCEPT ![c].phase = "failed"]
        /\ UNCHANGED <<now, config, tasks, author, reported>>
    BY <1>3 DEF CreateRefused, Break, Goto
  <2>2. job' \in [Client -> Job] /\ job'[c].phase = "failed"
        /\ \A d \in Client : d # c => job'[d] = job[d]
    BY <1>0, <2>1 DEF Job
  <2>3. \A m \in strays' : m.from \in Client /\ m.timeout \in Requested
    <3>1. CASE strays' = strays
      BY <3>1 DEF Inv, Types
    <3>2. CASE /\ job[c].phase = "sending"
               /\ strays' = strays \cup {[from |-> c, timeout |-> job[c].timeout]}
      <4>1. job[c].timeout \in Requested
        BY <3>2 DEF Inv, Sending
      <4> QED BY <3>2, <4>1 DEF Inv, Types
    <3> QED BY <1>3, <3>1, <3>2 DEF CreateRefused, Break
  <2> QED BY <2>1, <2>2, <2>3, IdleStep
<1> QED BY <1>1, <1>2, <1>3 DEF Add

\* A task is created for d, and at most d's own command is answered with it.
LEMMA NewTaskStep ==
    ASSUME NoOverflow, Inv, NEW d \in Client, NEW funds, NEW requested \in Requested,
           Queue!Create(d, funds, requested), author' = Append(author, d),
           reported' = reported, strays' \subseteq strays,
           job' \in [Client -> Job],
           \A c \in Client :
              \/ job'[c] = job[c]
              \/ /\ c = d
                 /\ job'[c].phase = "answered"
                 /\ job'[c].id = config.next_id
                 /\ job'[c].timeout = requested
    PROVE  Inv'
<1> DEFINE id == config.next_id
<1>1. /\ QueueFacts!TypeOK'
      /\ config' = [config EXCEPT !.next_id = @ + 1]
      /\ id \notin DOMAIN tasks
      /\ DOMAIN tasks' = DOMAIN tasks \cup {id}
      /\ \A k \in DOMAIN tasks : tasks'[k] = tasks[k]
      /\ Lasts(tasks'[id].timing, requested, config.timeout.default)
  BY Created DEF Inv
<1>2. /\ id \in Nat \ {0} /\ DOMAIN tasks = 1..id - 1
      /\ config'.next_id = id + 1
      /\ config'.timeout = config.timeout /\ config'.requestor = config.requestor
  BY <1>1 DEF Inv, QueueFacts!TypeOK
<1>3. author \in Seq(Client) /\ Len(author) = id - 1
  BY DEF Inv, Types, Authored
<1> HIDE DEF id
<1>4. /\ author' \in Seq(Client) /\ Len(author') = id /\ author'[id] = d
      /\ \A k \in DOMAIN tasks : author'[k] = author[k]
  BY <1>2, <1>3
<1>5. \A k \in DOMAIN tasks : k < id
  BY <1>2
<1>6. Limits' /\ Authored'
  BY <1>2, <1>4 DEF Inv, Limits, Authored
<1>7. Types'
  BY <1>4 DEF Inv, Types
<1>8. Sending'
  BY <1>2 DEF Inv, Sending, MayRequest
<1>9. \A c \in Client : \A i \in DOMAIN reported[c] : reported[c][i] \in DOMAIN tasks
  BY DEF Inv, Told
<1>10. Answered'
  <2> SUFFICES ASSUME NEW c \in Client, job'[c].phase = "answered"
               PROVE  /\ job'[c].id \in DOMAIN tasks'
                      /\ author'[job'[c].id] = c
                      /\ \A i \in DOMAIN reported[c] : reported[c][i] < job'[c].id
    BY DEF Answered
  <2>1. CASE job'[c] = job[c]
    <3>1. /\ job[c].id \in DOMAIN tasks /\ author[job[c].id] = c
          /\ \A i \in DOMAIN reported[c] : reported[c][i] < job[c].id
      BY <2>1 DEF Inv, Answered
    <3>2. job[c].id \in DOMAIN tasks' /\ author'[job[c].id] = author[job[c].id]
      BY <1>1, <1>4, <3>1
    <3> QED BY <2>1, <3>1, <3>2
  <2>2. CASE c = d /\ job'[c].id = id
    <3>1. \A i \in DOMAIN reported[c] : reported[c][i] < id
      BY <1>5, <1>9
    <3> QED BY <1>1, <1>4, <2>2, <3>1
  <2> QED BY <2>1, <2>2 DEF id
<1>11. Told'
  BY <1>1, <1>4 DEF Inv, Told
<1>12. Lives'
  <2> SUFFICES ASSUME NEW c \in Client, job'[c].phase \in {"answered", "added"}
               PROVE  /\ job'[c].id \in DOMAIN tasks'
                      /\ Lasts(tasks'[job'[c].id].timing, job'[c].timeout, config.timeout.default)
    BY <1>2 DEF Lives
  <2>1. CASE job'[c] = job[c]
    BY <1>1, <2>1 DEF Inv, Lives
  <2>2. CASE job'[c].id = id /\ job'[c].timeout = requested
    BY <1>1, <2>2
  <2> QED BY <2>1, <2>2 DEF id
<1> QED BY <1>1, <1>6, <1>7, <1>8, <1>10, <1>11, <1>12 DEF Inv

LEMMA CreateInv ==
    ASSUME NoOverflow, Inv, NEW c \in Client, Create(c)
    PROVE  Inv'
<1>1. job[c].timeout \in Requested /\ job \in [Client -> Job]
  BY DEF Inv, Types, Sending, Create
<1>2. config.next_id \in Nat
  BY DEF Inv, QueueFacts!TypeOK
<1>3. /\ Queue!Create(c, Payment(c), job[c].timeout)
      /\ job' = [job EXCEPT ![c].phase = "answered", ![c].id = config.next_id]
      /\ author' = Append(author, c) /\ UNCHANGED <<strays, reported>>
  BY DEF Create
<1>4. /\ job' \in [Client -> Job]
      /\ \A d \in Client : d # c => job'[d] = job[d]
      /\ job'[c].phase = "answered" /\ job'[c].id = config.next_id
      /\ job'[c].timeout = job[c].timeout
  BY <1>1, <1>2, <1>3 DEF Job
<1> QED BY <1>1, <1>3, <1>4, NewTaskStep

LEMMA LandInv ==
    ASSUME NoOverflow, Inv, Land
    PROVE  Inv'
<1>1. PICK m \in strays :
        /\ strays' = strays \ {m}
        /\ Queue!Create(m.from, Payment(m.from), m.timeout)
        /\ author' = Append(author, m.from)
        /\ UNCHANGED <<job, reported>>
  BY DEF Land
<1>2. m.from \in Client /\ m.timeout \in Requested /\ job' \in [Client -> Job]
  BY <1>1 DEF Inv, Types
<1> QED BY <1>1, <1>2, NewTaskStep

LEMMA ReportInv ==
    ASSUME Inv, NEW c \in Client, Report(c)
    PROVE  Inv'
<1>1. /\ job \in [Client -> Job] /\ reported \in [Client -> Seq(Nat)]
      /\ job[c].phase = "answered" /\ job[c].id \in Nat
  BY DEF Inv, Types, Report, Job
<1>2. /\ job' = [job EXCEPT ![c].phase = "added", ![c].id = job[c].id]
      /\ reported' = [reported EXCEPT ![c] = Append(reported[c], job[c].id)]
      /\ UNCHANGED <<now, config, tasks, strays, author>>
  BY DEF Report, TaskId
<1>3. /\ job' \in [Client -> Job]
      /\ \A d \in Client : d # c => job'[d] = job[d]
      /\ job'[c].phase = "added" /\ job'[c].id = job[c].id
      /\ job'[c].timeout = job[c].timeout
  BY <1>1, <1>2 DEF Job
<1>4. /\ reported' \in [Client -> Seq(Nat)]
      /\ \A d \in Client : d # c => reported'[d] = reported[d]
      /\ reported'[c] = Append(reported[c], job[c].id)
  BY <1>1, <1>2
<1> DEFINE old == reported[c]
           last == Len(old) + 1
<1>5. /\ Len(old) \in Nat /\ DOMAIN old = 1..Len(old) /\ DOMAIN reported'[c] = 1..last
      /\ reported'[c][last] = job[c].id
      /\ \A i \in DOMAIN old : reported'[c][i] = old[i]
  BY <1>1, <1>4
<1>6. QueueFacts!TypeOK' /\ Limits' /\ Authored'
  BY <1>2 DEF Inv, QueueFacts!TypeOK, Limits, Authored
<1>7. Types'
  BY <1>2, <1>3, <1>4 DEF Inv, Types
<1>8. Sending'
  BY <1>2, <1>3 DEF Inv, Sending, MayRequest
<1>9. Answered'
  BY <1>2, <1>3, <1>4 DEF Inv, Answered
<1>10. Lives'
  BY <1>1, <1>2, <1>3 DEF Inv, Lives
<1>11. /\ job[c].id \in DOMAIN tasks /\ author[job[c].id] = c
       /\ \A i \in DOMAIN old : old[i] < job[c].id
  BY <1>1 DEF Inv, Answered
<1>12. Told'
  <2>1. ASSUME NEW d \in Client, d # c, NEW i \in DOMAIN reported'[d]
        PROVE  /\ reported'[d][i] \in DOMAIN tasks'
               /\ author'[reported'[d][i]] = d
               /\ \A j \in DOMAIN reported'[d] : i < j => reported'[d][i] < reported'[d][j]
    BY <1>2, <1>4, <2>1 DEF Inv, Told
  <2>2. ASSUME NEW i \in DOMAIN reported'[c]
        PROVE  /\ reported'[c][i] \in DOMAIN tasks'
               /\ author'[reported'[c][i]] = c
               /\ \A j \in DOMAIN reported'[c] : i < j => reported'[c][i] < reported'[c][j]
    <3>1. CASE i = last
      BY <1>2, <1>5, <1>11, <3>1
    <3>2. CASE i \in DOMAIN old
      <4>1. reported'[c][i] = old[i]
        BY <1>5, <3>2
      <4>2. /\ old[i] \in DOMAIN tasks /\ author[old[i]] = c
            /\ \A j \in DOMAIN old : i < j => old[i] < old[j]
        BY <3>2 DEF Inv, Told
      <4>3. \A j \in DOMAIN reported'[c] : j \in DOMAIN old \/ j = last
        BY <1>5
      <4> HIDE DEF old, last
      <4> QED BY <1>2, <1>5, <1>11, <3>2, <4>1, <4>2, <4>3
    <3> QED BY <1>5, <3>1, <3>2
  <2> QED BY <2>1, <2>2 DEF Told
<1> QED BY <1>6, <1>7, <1>8, <1>9, <1>10, <1>12 DEF Inv

LEMMA BlockInv ==
    ASSUME Inv, Block
    PROVE  Inv'
<1>1. /\ QueueFacts!TypeOK' /\ config' = config /\ DOMAIN tasks' = DOMAIN tasks
      /\ \A k \in DOMAIN tasks : tasks'[k].timing = tasks[k].timing
  BY Blocked DEF Inv
<1>2. UNCHANGED <<job, strays, author, reported>>
  BY DEF Block
<1> QED BY <1>1, <1>2
        DEF Inv, Limits, Types, Sending, MayRequest, Authored, Answered, Told, Lives

LEMMA NextInv ==
    ASSUME NoOverflow
    PROVE  Inv /\ [Next]_vars => Inv'
<1> SUFFICES ASSUME Inv, [Next]_vars PROVE Inv'
  OBVIOUS
<1>1. CASE UNCHANGED vars
  BY <1>1 DEF vars, Inv, QueueFacts!TypeOK, Limits, Types, Sending, MayRequest,
     Authored, Answered, Told, Lives
<1> QED BY <1>1, AddInv, CreateInv, LandInv, ReportInv, BlockInv DEF Next

\* Each client is told the ids of tasks it created itself, no id twice and none
\* to two clients, and the task it was told last lives as long as it asked for,
\* provided no deadline reaches the end of the clock.
THEOREM OwnTasks ==
    ASSUME NoOverflow
    PROVE  Spec => []ReportsOwnTasks
<1>1. Inv => ReportsOwnTasks
  <2> SUFFICES ASSUME Inv PROVE ReportsOwnTasks
    OBVIOUS
  <2>1. ASSUME NEW c \in Client, NEW i \in DOMAIN reported[c], NEW j \in DOMAIN reported[c],
               reported[c][i] = reported[c][j]
        PROVE  i = j
    <3>1. reported[c] \in Seq(Nat)
      BY DEF Inv, Types
    <3>2. i \in Nat /\ j \in Nat /\ reported[c][i] \in Nat
      BY <3>1
    <3>3. ~(i < j) /\ ~(j < i)
      BY <2>1, <3>2 DEF Inv, Told
    <3> QED BY <3>2, <3>3
  <2>2. \A c \in Client : \A i \in DOMAIN reported[c] :
           reported[c][i] \in DOMAIN tasks /\ author[reported[c][i]] = c
    BY DEF Inv, Told
  <2>3. \A c \in Client : job[c].phase = "added" =>
           Lasts(tasks[job[c].id].timing, job[c].timeout, config.timeout.default)
    BY DEF Inv, Lives
  <2> QED BY <2>1, <2>2, <2>3 DEF ReportsOwnTasks, Lasts
<1> QED BY <1>1, InitInv, NextInv, PTL DEF Spec

(***************************************************************************)
(* What is sent is accepted                                                *)
(***************************************************************************)
\* The rule of the queue is one instantiate accepts, and what is being sent
\* passed it.
TakesInv ==
    /\ DOMAIN job = Client
    /\ \A c \in Client : "phase" \in DOMAIN job[c]
    /\ "requestor" \in DOMAIN config
    /\ config.requestor \in Requestor
    /\ \A c \in Client : job[c].phase = "sending" => MayRequest(c)

\* Nothing changes who may request a task.
LEMMA RequestorStays ==
    ASSUME TakesInv, [Next]_vars
    PROVE  "requestor" \in DOMAIN config' /\ config'.requestor = config.requestor
<1>1. ASSUME NEW sender, NEW funds, NEW requested, Queue!Create(sender, funds, requested)
      PROVE  "requestor" \in DOMAIN config' /\ config'.requestor = config.requestor
  <2>1. config' = [config EXCEPT !.next_id = config.next_id + 1]
    BY <1>1 DEF Queue!Create
  <2> QED BY <2>1 DEF TakesInv
<1>2. CASE Block
  BY <1>2 DEF Block, Queue!CompleteAny, Queue!Complete, Queue!TimeoutAny, Queue!Timeout,
     Queue!Tick, TakesInv
<1>3. CASE UNCHANGED config
  BY <1>3 DEF TakesInv
<1> QED BY <1>1, <1>2, <1>3
        DEF Next, Add, AddTask, AddTaskRefused, Create, CreateRefused, Break, Report, Land, vars

\* A client's command changes in a step of its own, and it is sent only after
\* the client's check.
Checked(c, update) ==
    /\ job' = [job EXCEPT ![c] = update]
    /\ "phase" \in DOMAIN update
    /\ update.phase = "sending" => MayRequest(c)

LEMMA JobStep ==
    ASSUME TakesInv, [Next]_vars
    PROVE  UNCHANGED job \/ \E c \in Client : \E update : Checked(c, update)
<1>1. ASSUME NEW c \in Client, NEW body, NEW timeout,
             AddTask(c, body, timeout) \/ AddTaskRefused(c, body, timeout)
      PROVE  \E update : Checked(c, update)
  <2>1. CASE AddTask(c, body, timeout)
    <3>1. Checked(c, NewJob("sending", body, timeout))
      BY <2>1 DEF AddTask, NewJob, Checked
    <3> QED BY <3>1
  <2>2. CASE AddTaskRefused(c, body, timeout)
    <3>1. Checked(c, NewJob("refused", body, timeout))
      BY <2>2 DEF AddTaskRefused, NewJob, Checked
    <3> QED BY <3>1
  <2> QED BY <1>1, <2>1, <2>2
<1>2. ASSUME NEW c \in Client, Create(c)
      PROVE  \E update : Checked(c, update)
  <2>1. Checked(c, [job[c] EXCEPT !.phase = "answered", !.id = config.next_id])
    BY <1>2 DEF Create, Checked, TakesInv
  <2> QED BY <2>1
<1>3. ASSUME NEW c \in Client, CreateRefused(c) \/ Break(c)
      PROVE  \E update : Checked(c, update)
  <2>1. Checked(c, [job[c] EXCEPT !.phase = "failed"])
    BY <1>3 DEF CreateRefused, Break, Goto, Checked, TakesInv
  <2> QED BY <2>1
<1>4. ASSUME NEW c \in Client, Report(c)
      PROVE  \E update : Checked(c, update)
  <2>1. Checked(c, [job[c] EXCEPT !.phase = "added", !.id = TaskId(c)])
    BY <1>4 DEF Report, Checked, TakesInv
  <2> QED BY <2>1
<1>5. CASE Land \/ Block \/ UNCHANGED vars
  BY <1>5 DEF Land, Block, vars
<1> QED BY <1>1, <1>2, <1>3, <1>4, <1>5 DEF Next, Add

LEMMA NextTakes == TakesInv /\ [Next]_vars => TakesInv'
<1> SUFFICES ASSUME TakesInv, [Next]_vars PROVE TakesInv'
  OBVIOUS
<1>1. "requestor" \in DOMAIN config' /\ config'.requestor = config.requestor
  BY RequestorStays
<1>2. CASE UNCHANGED job
  BY <1>1, <1>2 DEF TakesInv, MayRequest
<1>3. ASSUME NEW c \in Client, NEW update, Checked(c, update)
      PROVE  TakesInv'
  <2>1. /\ DOMAIN job' = Client /\ job'[c] = update
        /\ \A d \in Client : d # c => job'[d] = job[d]
    BY <1>3 DEF Checked, TakesInv
  <2> QED BY <1>1, <1>3, <2>1 DEF TakesInv, Checked, MayRequest
<1> QED BY <1>2, <1>3, JobStep

\* What a client pays is what the rule asks for.
LEMMA PaysThePrice ==
    ASSUME config.requestor \in Requestor, config.requestor.kind = "open_payment", NEW c
    PROVE  /\ config.requestor.amount \in Nat
           /\ Payment(c)[config.requestor.denom] = config.requestor.amount
           /\ \A d \in Denom \ {config.requestor.denom} : Payment(c)[d] = 0
<1>1. config.requestor.denom \in Denom /\ config.requestor.amount \in Nat
  BY DEF Requestor
<1> QED BY <1>1 DEF Payment

LEMMA PaymentAccepted ==
    ASSUME config.requestor \in Requestor, NEW c
    PROVE  /\ PriceOfNothing => ~Queue!RequestorAccepts(config.requestor, c, Payment(c))
           /\ MayRequest(c) /\ ~PriceOfNothing
                 => Queue!RequestorAccepts(config.requestor, c, Payment(c))
<1>1. CASE config.requestor.kind = "fixed"
  BY <1>1 DEF MayRequest, PriceOfNothing, Queue!RequestorAccepts
<1>2. CASE config.requestor.kind = "open_payment"
  BY <1>2, PaysThePrice DEF PriceOfNothing, Queue!RequestorAccepts
<1> QED BY <1>1, <1>2 DEF Requestor

\* Where the price is nothing nobody gets an answer.
NothingAdded ==
    /\ DOMAIN reported = Client
    /\ PriceOfNothing => \A c \in Client : job[c].phase # "answered" /\ reported[c] = <<>>

LEMMA NextNothing ==
    ASSUME TakesInv, NothingAdded, [Next]_vars
    PROVE  NothingAdded'
<1>1. PriceOfNothing' <=> PriceOfNothing
  BY RequestorStays DEF PriceOfNothing
<1>2. DOMAIN job = Client /\ (\A c \in Client : "phase" \in DOMAIN job[c])
      /\ config.requestor \in Requestor /\ DOMAIN reported = Client
  BY DEF TakesInv, NothingAdded
<1>3. ASSUME NEW c \in Client, NEW update, job' = [job EXCEPT ![c] = update],
             update.phase # "answered", UNCHANGED reported
      PROVE  NothingAdded'
  BY <1>1, <1>2, <1>3 DEF NothingAdded
<1>4. ASSUME NEW c \in Client, NEW body, NEW timeout,
             AddTask(c, body, timeout) \/ AddTaskRefused(c, body, timeout)
      PROVE  NothingAdded'
  <2>1. CASE AddTask(c, body, timeout)
    <3>1. NewJob("sending", body, timeout).phase # "answered"
      BY DEF NewJob
    <3> QED BY <1>3, <2>1, <3>1 DEF AddTask
  <2>2. CASE AddTaskRefused(c, body, timeout)
    <3>1. NewJob("refused", body, timeout).phase # "answered"
      BY DEF NewJob
    <3> QED BY <1>3, <2>2, <3>1 DEF AddTaskRefused
  <2> QED BY <1>4, <2>1, <2>2
<1>5. ASSUME NEW c \in Client, Create(c)
      PROVE  NothingAdded'
  <2>1. Queue!RequestorAccepts(config.requestor, c, Payment(c)) /\ UNCHANGED reported
    BY <1>5 DEF Create, Queue!Create
  <2>2. ~PriceOfNothing
    BY <1>2, <2>1, PaymentAccepted
  <2> QED BY <1>1, <1>2, <2>1, <2>2 DEF NothingAdded
<1>6. ASSUME NEW c \in Client, CreateRefused(c) \/ Break(c)
      PROVE  NothingAdded'
  <2>1. /\ job' = [job EXCEPT ![c] = [job[c] EXCEPT !.phase = "failed"]]
        /\ UNCHANGED reported
    BY <1>6 DEF CreateRefused, Break, Goto
  <2>2. [job[c] EXCEPT !.phase = "failed"].phase # "answered"
    BY <1>2
  <2> QED BY <1>3, <2>1, <2>2
<1>7. ASSUME NEW c \in Client, Report(c)
      PROVE  NothingAdded'
  <2>1. job[c].phase = "answered" /\ DOMAIN reported' = Client
    BY <1>2, <1>7 DEF Report
  <2> QED BY <1>1, <2>1 DEF NothingAdded
<1>8. CASE Land \/ Block \/ UNCHANGED vars
  <2>1. UNCHANGED <<job, reported>>
    BY <1>8 DEF Land, Block, vars
  <2> QED BY <1>1, <2>1 DEF NothingAdded
<1> QED BY <1>4, <1>5, <1>6, <1>7, <1>8 DEF Next, Add

\* Whatever the requestor rule, a client that passed its own check is accepted
\* by the queue with the payment it computes, unless the price is nothing, and
\* then no client is ever told of a task.
THEOREM TakesWhatIsSent == Spec => []QueueTakesWhatClientSends
<1>1. Init => TakesInv /\ NothingAdded
  <2> SUFFICES ASSUME Init PROVE TakesInv /\ NothingAdded
    OBVIOUS
  <2>1. PICK msg \in InstantiateMsg : config = Queue!Config(msg)
    BY DEF Init, Queue!Init, Queue!InitWith
  <2>2. "requestor" \in DOMAIN config /\ config.requestor \in Requestor
    BY <2>1, QueueAssumption DEF Queue!Config
  <2> QED BY <2>2 DEF Init, NewJob, TakesInv, NothingAdded
<1>2. TakesInv /\ NothingAdded => QueueTakesWhatClientSends
  BY PaymentAccepted DEF TakesInv, NothingAdded, QueueTakesWhatClientSends
<1>3. TakesInv /\ NothingAdded /\ [Next]_vars => TakesInv' /\ NothingAdded'
  BY NextTakes, NextNothing
<1> QED BY <1>1, <1>2, <1>3, PTL DEF Spec

(***************************************************************************)
(* Two lists in one                                                        *)
(***************************************************************************)
In(list, id) == \E k \in DOMAIN list : list[k] = id

Decreasing(list) ==
    /\ list \in Seq(Nat)
    /\ \A i, j \in DOMAIN list : i < j => list[i] > list[j]

\* Such a list holds nothing twice.
LEMMA DecreasingOnce ==
    ASSUME NEW list, Decreasing(list)
    PROVE  \A i, j \in DOMAIN list : list[i] = list[j] => i = j
<1> SUFFICES ASSUME NEW i \in DOMAIN list, NEW j \in DOMAIN list, list[i] = list[j]
             PROVE  i = j
  OBVIOUS
<1>1. i \in Nat /\ j \in Nat /\ list[i] \in Nat
  BY DEF Decreasing
<1>2. ~(i < j) /\ ~(j < i)
  BY <1>1 DEF Decreasing
<1> QED BY <1>1, <1>2

\* One list behind the other
LEMMA Joined ==
    ASSUME NEW a \in Seq(Nat), NEW b \in Seq(Nat)
    PROVE  /\ a \o b \in Seq(Nat) /\ Len(a \o b) = Len(a) + Len(b)
           /\ \A m \in DOMAIN a : m \in DOMAIN (a \o b) /\ (a \o b)[m] = a[m]
           /\ \A m \in DOMAIN b :
                 Len(a) + m \in DOMAIN (a \o b) /\ (a \o b)[Len(a) + m] = b[m]
           /\ \A m \in DOMAIN (a \o b) : m \notin DOMAIN a =>
                 m - Len(a) \in DOMAIN b /\ (a \o b)[m] = b[m - Len(a)]
           /\ \A id : In(a \o b, id) <=> In(a, id) \/ In(b, id)
<1> DEFINE s == a \o b
<1>1. /\ s \in Seq(Nat) /\ Len(s) = Len(a) + Len(b)
      /\ Len(a) \in Nat /\ DOMAIN a = 1..Len(a)
      /\ Len(b) \in Nat /\ DOMAIN b = 1..Len(b)
  OBVIOUS
<1>2. DOMAIN s = 1..Len(a) + Len(b)
  BY <1>1
<1>3. \A m \in 1..Len(a) + Len(b) : s[m] = IF m <= Len(a) THEN a[m] ELSE b[m - Len(a)]
  OBVIOUS
<1> HIDE DEF s
<1>4. \A m \in DOMAIN a : m \in DOMAIN s /\ s[m] = a[m]
  BY <1>1, <1>2, <1>3
<1>5. ASSUME NEW m \in DOMAIN b
      PROVE  Len(a) + m \in DOMAIN s /\ s[Len(a) + m] = b[m]
  <2>1. /\ Len(a) + m \in 1..Len(a) + Len(b) /\ ~(Len(a) + m <= Len(a))
        /\ (Len(a) + m) - Len(a) = m
    BY <1>1
  <2> QED BY <1>2, <1>3, <2>1
<1>6. ASSUME NEW m \in DOMAIN s, m \notin DOMAIN a
      PROVE  m - Len(a) \in DOMAIN b /\ s[m] = b[m - Len(a)]
  <2>1. m \in 1..Len(a) + Len(b) /\ ~(m <= Len(a)) /\ m - Len(a) \in 1..Len(b)
    BY <1>1, <1>2, <1>6
  <2> QED BY <1>1, <1>3, <2>1
<1>7. \A id : In(s, id) <=> In(a, id) \/ In(b, id)
  <2>1. ASSUME NEW id, NEW m \in DOMAIN s, s[m] = id PROVE In(a, id) \/ In(b, id)
    <3>1. CASE m \in DOMAIN a
      BY <1>4, <2>1, <3>1 DEF In
    <3>2. CASE m \notin DOMAIN a
      BY <1>6, <2>1, <3>2 DEF In
    <3> QED BY <3>1, <3>2
  <2>2. \A id : In(a, id) => In(s, id)
    BY <1>4 DEF In
  <2>3. \A id : In(b, id) => In(s, id)
    BY <1>5 DEF In
  <2>4. \A id : In(s, id) => In(a, id) \/ In(b, id)
    BY <2>1 DEF In
  <2> QED BY <2>2, <2>3, <2>4
<1>8. /\ s \in Seq(Nat) /\ Len(s) = Len(a) + Len(b)
      /\ \A m \in DOMAIN a : m \in DOMAIN s /\ s[m] = a[m]
      /\ \A m \in DOMAIN b : Len(a) + m \in DOMAIN s /\ s[Len(a) + m] = b[m]
      /\ \A m \in DOMAIN s : m \notin DOMAIN a =>
            m - Len(a) \in DOMAIN b /\ s[m] = b[m - Len(a)]
      /\ \A id : In(s, id) <=> In(a, id) \/ In(b, id)
  BY <1>1, <1>4, <1>5, <1>6, <1>7
<1> QED BY <1>8 DEF s

Newer(all, id)    == {k \in DOMAIN all : all[k] > id}
NotOlder(all, id) == {k \in DOMAIN all : all[k] >= id}

\* id is the i-th of all, newest first.
Ranked(all, id, i) ==
    Cardinality(Newer(all, id)) < i /\ i <= Cardinality(NotOlder(all, id))

\* The lines up to the k-th, were the lines put in order
Before(all, k) == {j \in DOMAIN all : all[j] > all[k] \/ (all[j] = all[k] /\ j <= k)}

\* Places of a list can be counted.
LEMMA Counted ==
    ASSUME NEW all \in Seq(Nat), NEW A \in SUBSET DOMAIN all
    PROVE  /\ IsFiniteSet(A) /\ Cardinality(A) \in Nat
           /\ \A B \in SUBSET A :
                 /\ Cardinality(B) \in Nat /\ Cardinality(B) <= Cardinality(A)
                 /\ B # A => Cardinality(B) < Cardinality(A)
<1>1. IsFiniteSet(DOMAIN all)
  <2>1. DOMAIN all = 1..Len(all) /\ Len(all) \in Nat
    OBVIOUS
  <2>2. IsFiniteSet(1..Len(all))
    BY <2>1, FS_Interval
  <2> QED BY <2>1, <2>2
<1>2. IsFiniteSet(A)
  BY <1>1, FS_Subset
<1>3. Cardinality(A) \in Nat
  BY <1>2, FS_CardinalityType
<1>4. ASSUME NEW B \in SUBSET A
      PROVE  /\ Cardinality(B) \in Nat /\ Cardinality(B) <= Cardinality(A)
             /\ B # A => Cardinality(B) < Cardinality(A)
  <2>1. IsFiniteSet(B) /\ Cardinality(B) <= Cardinality(A)
        /\ (Cardinality(A) = Cardinality(B) => A = B)
    BY <1>2, FS_Subset
  <2>2. Cardinality(B) \in Nat
    BY <2>1, FS_CardinalityType
  <2> QED BY <1>3, <2>1, <2>2
<1> QED BY <1>2, <1>3, <1>4

LEMMA BeforeRanks ==
    ASSUME NEW all \in Seq(Nat), NEW k \in DOMAIN all
    PROVE  Ranked(all, all[k], Cardinality(Before(all, k)))
<1> DEFINE N == Newer(all, all[k])
           B == Before(all, k)
           O == NotOlder(all, all[k])
<1>0. \A j \in DOMAIN all : all[j] \in Nat /\ j \in Nat
  OBVIOUS
<1>1. B \in SUBSET DOMAIN all /\ O \in SUBSET DOMAIN all
  BY DEF Before, NotOlder
<1>2. N \in SUBSET B /\ N # B
  <2>1. k \in B /\ k \notin N
    BY <1>0 DEF Before, Newer
  <2>2. \A j \in N : j \in B
    BY DEF Before, Newer
  <2> HIDE DEF N, B
  <2> QED BY <2>1, <2>2
<1>3. B \in SUBSET O
  BY <1>0 DEF Before, NotOlder
<1>4. Cardinality(N) < Cardinality(B) /\ Cardinality(B) <= Cardinality(O)
  <2> HIDE DEF N, B, O
  <2> QED BY <1>1, <1>2, <1>3, Counted
<1> QED BY <1>4 DEF Ranked

LEMMA BeforeOrders ==
    ASSUME NEW all \in Seq(Nat), NEW k \in DOMAIN all, NEW l \in DOMAIN all
    PROVE  /\ Cardinality(Before(all, k)) \in DOMAIN all
           /\ k # l => Cardinality(Before(all, k)) # Cardinality(Before(all, l))
<1> DEFINE B(m) == Before(all, m)
<1>0. \A j \in DOMAIN all : all[j] \in Nat /\ j \in Nat
  OBVIOUS
<1>1. \A m \in DOMAIN all : B(m) \in SUBSET DOMAIN all /\ m \in B(m)
  BY <1>0 DEF Before
<1>2. ASSUME NEW a \in DOMAIN all, NEW b \in DOMAIN all,
             all[a] > all[b] \/ (all[a] = all[b] /\ a < b)
      PROVE  Cardinality(B(a)) < Cardinality(B(b))
  <2>1. ASSUME NEW j \in B(a) PROVE j \in B(b)
    <3>1. j \in DOMAIN all /\ (all[j] > all[a] \/ (all[j] = all[a] /\ j <= a))
      BY DEF Before
    <3>2. /\ j \in Nat /\ a \in Nat /\ b \in Nat
          /\ all[j] \in Nat /\ all[a] \in Nat /\ all[b] \in Nat
      BY <1>0, <3>1
    <3>3. all[j] > all[b] \/ (all[j] = all[b] /\ j <= b)
      BY <1>2, <3>1, <3>2
    <3> QED BY <3>1, <3>3 DEF Before
  <2>2. b \notin B(a)
    BY <1>0, <1>2 DEF Before
  <2> HIDE DEF B
  <2>3. B(a) \in SUBSET B(b) /\ B(a) # B(b)
    BY <1>1, <2>1, <2>2
  <2> QED BY <1>1, <2>3, Counted
<1>3. \A m \in DOMAIN all : Cardinality(B(m)) \in Nat
  <2> HIDE DEF B
  <2> QED BY <1>1, Counted
<1>4. ASSUME k # l PROVE Cardinality(B(k)) # Cardinality(B(l))
  <2>1. \/ all[k] > all[l] \/ (all[k] = all[l] /\ k < l)
        \/ all[l] > all[k] \/ (all[k] = all[l] /\ l < k)
    BY <1>0, <1>4
  <2> HIDE DEF B
  <2> QED BY <1>2, <1>3, <2>1
<1>5. Cardinality(B(k)) \in DOMAIN all
  <2>1. DOMAIN all = 1..Len(all) /\ Len(all) \in Nat
    OBVIOUS
  <2>2. Cardinality(DOMAIN all) = Len(all)
    <3>1. \A n \in Nat : Cardinality(1..n) = n
      BY FS_Interval
    <3> QED BY <2>1, <3>1
  <2>3. Cardinality(B(k)) <= Cardinality(DOMAIN all)
    <3> HIDE DEF B
    <3> QED BY <1>1, Counted
  <2>4. Cardinality({}) < Cardinality(B(k))
    <3>1. {} \in SUBSET B(k) /\ {} # B(k)
      BY <1>1
    <3> HIDE DEF B
    <3> QED BY <1>1, <3>1, Counted
  <2>5. Cardinality({}) = 0
    BY FS_EmptySet
  <2> HIDE DEF B
  <2> QED BY <1>3, <2>1, <2>2, <2>3, <2>4, <2>5
<1> QED BY <1>4, <1>5

\* Every place has its line, one only, and every line its place.
LEMMA RankedOnce ==
    ASSUME NEW all \in Seq(Nat)
    PROVE  /\ \A i \in DOMAIN all : \E k \in DOMAIN all : Ranked(all, all[k], i)
           /\ \A k \in DOMAIN all : \E i \in DOMAIN all : Ranked(all, all[k], i)
           /\ \A i, j, k \in DOMAIN all :
                 Ranked(all, all[j], i) /\ Ranked(all, all[k], i) => all[j] = all[k]
<1> DEFINE D == DOMAIN all
           rank == [k \in D |-> Cardinality(Before(all, k))]
<1>1. rank \in [D -> D] /\ \A j, k \in D : rank[j] = rank[k] => j = k
  <2>1. \A k \in D : rank[k] \in D
    BY BeforeOrders
  <2>2. \A j, k \in D : j # k => rank[j] # rank[k]
    BY BeforeOrders
  <2> QED BY <2>1, <2>2
<1>2. \A i \in D : \E k \in D : rank[k] = i
  <2>1. IsFiniteSet(D)
    BY Counted
  <2> HIDE DEF D, rank
  <2>2. rank \in Injection(D, D)
    BY <1>1 DEF Injection, IsInjective
  <2>3. rank \in Surjection(D, D)
    BY <2>1, <2>2, FS_Injection
  <2> QED BY <2>3 DEF Surjection
<1>3. \A k \in D : Ranked(all, all[k], rank[k])
  BY BeforeRanks
<1>4. ASSUME NEW i \in D, NEW j \in D, NEW k \in D,
             Ranked(all, all[j], i), Ranked(all, all[k], i), all[j] > all[k]
      PROVE  FALSE
  <2> DEFINE N == Newer(all, all[k])
             O == NotOlder(all, all[j])
  <2>1. N \in SUBSET D
    BY DEF Newer
  <2>2. O \in SUBSET N
    <3>1. \A l \in D : all[l] \in Nat
      OBVIOUS
    <3> QED BY <1>4, <3>1 DEF Newer, NotOlder
  <2>3. Cardinality(O) <= Cardinality(N) /\ Cardinality(O) \in Nat /\ Cardinality(N) \in Nat
    <3> HIDE DEF N, O
    <3> QED BY <2>1, <2>2, Counted
  <2>4. Cardinality(N) < i /\ i <= Cardinality(O) /\ i \in Nat
    BY <1>4 DEF Ranked
  <2> HIDE DEF N, O
  <2> QED BY <2>3, <2>4
<1>5. ASSUME NEW i \in D, NEW j \in D, NEW k \in D,
             Ranked(all, all[j], i), Ranked(all, all[k], i)
      PROVE  all[j] = all[k]
  <2>1. all[j] \in Nat /\ all[k] \in Nat
    OBVIOUS
  <2>2. ~(all[j] > all[k]) /\ ~(all[k] > all[j])
    BY <1>4, <1>5
  <2> QED BY <2>1, <2>2
<1> QED
  <2>1. \A k \in D : \E i \in D : Ranked(all, all[k], i)
    <3> HIDE DEF rank, D
    <3> QED BY <1>1, <1>3
  <2>2. \A i \in D : \E k \in D : Ranked(all, all[k], i)
    <3> HIDE DEF rank, D
    <3> QED BY <1>2, <1>3
  <2> HIDE DEF rank
  <2> QED BY <1>5, <2>1, <2>2

\* What stands in two places of both lists put in order stands in two places of
\* the lists one behind the other.
LEMMA RankedTwice ==
    ASSUME NEW all \in Seq(Nat), NEW id, NEW i \in DOMAIN all, NEW j \in DOMAIN all,
           i < j, Ranked(all, id, i), Ranked(all, id, j), id \in Nat
    PROVE  \E k, l \in DOMAIN all :
              /\ k < l /\ all[k] = id /\ all[l] = id
              /\ (\A m \in DOMAIN all : all[m] = id => m \in {k, l}) => j = i + 1
<1> DEFINE N == Newer(all, id)
           O == NotOlder(all, id)
           E == {m \in DOMAIN all : all[m] = id}
<1>0. \A m \in DOMAIN all : all[m] \in Nat /\ m \in Nat
  OBVIOUS
<1>1. N \in SUBSET DOMAIN all /\ O \in SUBSET DOMAIN all /\ E \in SUBSET DOMAIN all
  BY DEF Newer, NotOlder
<1>2. O = N \cup E /\ N \cap E = {}
  BY <1>0 DEF Newer, NotOlder
<1>3. Cardinality(N) < i /\ j <= Cardinality(O)
  BY DEF Ranked
<1> HIDE DEF N, O, E
<1>4. /\ IsFiniteSet(N) /\ IsFiniteSet(E)
      /\ Cardinality(N) \in Nat /\ Cardinality(E) \in Nat /\ Cardinality(O) \in Nat
  BY <1>1, Counted
<1>5. Cardinality(O) = Cardinality(N) + Cardinality(E)
  <2>1. Cardinality(N \cap E) = 0
    BY <1>2, FS_EmptySet
  <2>2. Cardinality(N \cup E) = Cardinality(N) + Cardinality(E) - Cardinality(N \cap E)
    BY <1>4, FS_Union
  <2> QED BY <1>2, <1>4, <2>1, <2>2
<1>6. i \in Nat /\ j \in Nat
  BY <1>0
<1>7. /\ Cardinality(E) # 0 /\ Cardinality(E) # 1
      /\ Cardinality(E) = 2 => j = i + 1
  BY <1>3, <1>4, <1>5, <1>6
<1>8. \A m : Cardinality({m}) = 1
  BY FS_Singleton
<1>9. PICK k \in E : TRUE
  <2>1. E # {}
    BY <1>7, FS_EmptySet
  <2> QED BY <2>1
<1>10. PICK l \in E : l # k
  <2>1. E # {k}
    BY <1>7, <1>8
  <2> QED BY <1>9, <2>1
<1>11. ASSUME NEW a, NEW b, a # b, E = {a, b} PROVE j = i + 1
  <2>1. Cardinality(E) = 2
    <3>1. E = {a} \cup {b} /\ b \notin {a}
      BY <1>11
    <3>2. Cardinality({a} \cup {b}) = Cardinality({a}) + 1
      BY <3>1, FS_Singleton, FS_AddElement
    <3>3. Cardinality({a} \cup {b}) = 2
      <4>1. Cardinality({a}) = 1
        BY <1>8
      <4> QED BY <3>2, <4>1
    <3> QED BY <3>1, <3>3
  <2> QED BY <1>7, <2>1
<1>12. k \in DOMAIN all /\ l \in DOMAIN all /\ all[k] = id /\ all[l] = id /\ k \in Nat /\ l \in Nat
  BY <1>0, <1>9, <1>10 DEF E
<1>13. (\A m \in DOMAIN all : all[m] = id => m \in {k, l}) => j = i + 1
  <2> SUFFICES ASSUME \A m \in DOMAIN all : all[m] = id => m \in {k, l}
               PROVE  j = i + 1
    OBVIOUS
  <2>1. E = {k, l}
    BY <1>12 DEF E
  <2> QED BY <1>10, <1>11, <2>1
<1>14. CASE k < l
  BY <1>12, <1>13, <1>14
<1>15. CASE l < k
  <2>1. {k, l} = {l, k}
    OBVIOUS
  <2> QED BY <1>12, <1>13, <1>15, <2>1
<1> QED BY <1>10, <1>12, <1>14, <1>15

(***************************************************************************)
(* The readers of a queue                                                  *)
(***************************************************************************)
\* The queue they read is the queue of TaskQueue.
LEMMA SameReaders ==
    /\ \A S : Queue!Cardinality(S) = QueueFacts!Cardinality(S)
    /\ \A task : Queue!ObservedStatus(task) = QueueFacts!ObservedStatus(task)
    /\ Queue!ListedOpen = QueueFacts!ListedOpen
    /\ Queue!ListedCompleted = QueueFacts!ListedCompleted
BY DEF Queue!Cardinality, QueueFacts!Cardinality,
   Queue!ObservedStatus, QueueFacts!ObservedStatus,
   Queue!IsExpired, QueueFacts!IsExpired,
   Queue!ListedOpen, QueueFacts!ListedOpen,
   Queue!ListedCompleted, QueueFacts!ListedCompleted

LEMMA SamePage ==
    ASSUME NEW ids, NEW start_after, NEW limit
    PROVE  Queue!Page(ids, start_after, limit) = QueueFacts!Page(ids, start_after, limit)
<1>1. ASSUME NEW S PROVE Queue!Descending(S) = QueueFacts!Descending(S)
  <2>1. Queue!Descending(S) =
           [i \in 1..QueueFacts!Cardinality(S) |->
              CHOOSE id \in S : QueueFacts!Cardinality({k \in S : k >= id}) = i]
    <3>1. \A i : (CHOOSE id \in S : Queue!Cardinality({k \in S : k >= id}) = i)
                   = (CHOOSE id \in S : QueueFacts!Cardinality({k \in S : k >= id}) = i)
      BY SameReaders
    <3>2. Queue!Descending(S) =
             [i \in 1..QueueFacts!Cardinality(S) |->
                CHOOSE id \in S : Queue!Cardinality({k \in S : k >= id}) = i]
      <4>1. Queue!Cardinality(S) = QueueFacts!Cardinality(S)
        BY SameReaders
      <4> QED BY <4>1 DEF Queue!Descending
    <3> QED BY <3>1, <3>2
  <2> QED BY <2>1 DEF QueueFacts!Descending
<1> QED BY <1>1 DEF Queue!Page, QueueFacts!Page

LEMMA ReadersInit == ViewInit => QueueFacts!Init
BY DEF ViewInit, Queue!Init, QueueFacts!Init, Queue!InitWith, QueueFacts!InitWith,
   Queue!ValidTimeoutConfig, QueueFacts!ValidTimeoutConfig,
   Queue!TimeoutConfig, QueueFacts!TimeoutConfig,
   Queue!UnwrapOr, QueueFacts!UnwrapOr, Queue!Config, QueueFacts!Config,
   Queue!EmptyMap, QueueFacts!EmptyMap

LEMMA ReadersBlock == ViewBlock => QueueFacts!Next /\ UNCHANGED <<view, pager>>
<1> SUFFICES ASSUME ViewBlock PROVE QueueFacts!Next /\ UNCHANGED <<view, pager>>
  OBVIOUS
<1>1. UNCHANGED <<view, pager>> /\ Queue!Next
  BY DEF ViewBlock
<1>2. ASSUME NEW sender \in Address, NEW funds, NEW requested \in Requested,
             funds \in Queue!Funds, Queue!Create(sender, funds, requested)
      PROVE  QueueFacts!CreateAny
  <2>1. QueueFacts!Create(sender, funds, requested)
    BY <1>2 DEF Queue!Create, QueueFacts!Create,
       Queue!RequestorAccepts, QueueFacts!RequestorAccepts,
       Queue!CheckedTimeouts, QueueFacts!CheckedTimeouts,
       Queue!NewTask, QueueFacts!NewTask,
       Queue!Timing, QueueFacts!Timing, Queue!Save, QueueFacts!Save
  <2>2. funds \in QueueFacts!Funds
    BY <1>2 DEF Queue!Funds, QueueFacts!Funds
  <2> QED BY <2>1, <2>2 DEF QueueFacts!CreateAny
<1>3. Queue!CompleteAny => QueueFacts!CompleteAny
  BY DEF Queue!CompleteAny, QueueFacts!CompleteAny, Queue!Complete,
     QueueFacts!Complete, Queue!Funds, QueueFacts!Funds,
     Queue!NoFunds, QueueFacts!NoFunds,
     Queue!Completable, QueueFacts!Completable,
     Queue!IsExpired, QueueFacts!IsExpired, Queue!Save, QueueFacts!Save
<1>4. Queue!TimeoutAny => QueueFacts!TimeoutAny
  BY DEF Queue!TimeoutAny, QueueFacts!TimeoutAny, Queue!Timeout,
     QueueFacts!Timeout, Queue!Funds, QueueFacts!Funds,
     Queue!NoFunds, QueueFacts!NoFunds,
     Queue!Expirable, QueueFacts!Expirable,
     Queue!IsExpired, QueueFacts!IsExpired, Queue!Save, QueueFacts!Save
<1>5. Queue!Tick => QueueFacts!Tick
  BY DEF Queue!Tick, QueueFacts!Tick
<1> QED BY <1>1, <1>2, <1>3, <1>4, <1>5 DEF Queue!Next, Queue!CreateAny, QueueFacts!Next

(***************************************************************************)
(* What a reader relies on                                                 *)
(***************************************************************************)
\* What is completed stays so, what has expired too, nothing becomes open that
\* existed and was not, and a completion bears the time it happens.
Stays ==
    /\ now \in Nat /\ now' \in Nat /\ now <= now'
    /\ config'.next_id \in Nat /\ config.next_id <= config'.next_id
    /\ DOMAIN tasks \subseteq DOMAIN tasks'
    /\ \A id \in DOMAIN tasks :
          /\ tasks[id].status = "completed" => tasks'[id] = tasks[id]
          /\ QueueFacts!ObservedStatus(tasks[id]) = "expired" =>
                QueueFacts!ObservedStatus(tasks[id])' = "expired"
          /\ id \in QueueFacts!ListedOpen' => id \in QueueFacts!ListedOpen
          /\ tasks'[id].status = "completed" /\ tasks[id].status # "completed" =>
                tasks'[id].completed_at = now'

LEMMA QueueStays ==
    ASSUME QueueFacts!TypeOK, QueueFacts!Next
    PROVE  Stays /\ QueueFacts!TypeOK'
<1>0. QueueFacts!TypeOK'
  BY QueueFacts!NextTypeOK, SameConstants, QueueAssumption
<1>a. /\ now \in Nat /\ now' \in Nat /\ config.next_id \in Nat /\ config'.next_id \in Nat
      /\ DOMAIN tasks = 1..config.next_id - 1 /\ DOMAIN tasks' = 1..config'.next_id - 1
      /\ \A id \in DOMAIN tasks : tasks[id].timing.expires_at \in Nat
  BY <1>0, QueueAssumption DEF QueueFacts!TypeOK, QueueFacts!Task
<1>1. ASSUME NEW sender, NEW funds, NEW requested \in Requested,
             QueueFacts!Create(sender, funds, requested)
      PROVE  Stays
  <2>1. PICK timeout \in Nat :
          /\ DOMAIN tasks' = DOMAIN tasks \cup {config.next_id}
          /\ \A k \in DOMAIN tasks : tasks'[k] = tasks[k]
    BY <1>1, QueueFacts!CreateEffect, SameConstants, QueueAssumption
  <2>2. now' = now
    BY <1>1 DEF QueueFacts!Create
  <2>3. config.next_id <= config'.next_id
    BY <1>1, <1>a DEF QueueFacts!Create, QueueFacts!TypeOK
  <2> QED BY <1>0, <1>a, <2>1, <2>2, <2>3
          DEF Stays, QueueFacts!ObservedStatus, QueueFacts!IsExpired, QueueFacts!ListedOpen
<1>2. ASSUME NEW sender, NEW funds, NEW id, NEW response \in Response,
             QueueFacts!Complete(sender, funds, id, response)
      PROVE  Stays
  <2>1. /\ id \in DOMAIN tasks /\ QueueFacts!Completable(tasks[id])
        /\ DOMAIN tasks' = DOMAIN tasks
        /\ tasks'[id].status = "completed" /\ tasks'[id].completed_at = now
        /\ tasks'[id].timing = tasks[id].timing
        /\ \A k \in DOMAIN tasks \ {id} : tasks'[k] = tasks[k]
    BY <1>2, QueueFacts!CompleteEffect, SameConstants, QueueAssumption
  <2>2. now' = now /\ config' = config
    BY <1>2 DEF QueueFacts!Complete
  <2> QED BY <1>a, <2>1, <2>2
          DEF Stays, QueueFacts!ObservedStatus, QueueFacts!IsExpired, QueueFacts!ListedOpen,
              QueueFacts!Completable
<1>3. ASSUME NEW funds, NEW id, QueueFacts!Timeout(funds, id)
      PROVE  Stays
  <2>1. /\ id \in DOMAIN tasks /\ QueueFacts!Expirable(tasks[id])
        /\ DOMAIN tasks' = DOMAIN tasks
        /\ tasks'[id].status = "expired"
        /\ tasks'[id].timing = tasks[id].timing
        /\ \A k \in DOMAIN tasks \ {id} : tasks'[k] = tasks[k]
    BY <1>3, QueueFacts!TimeoutEffect, SameConstants, QueueAssumption
  <2>2. now' = now /\ config' = config
    BY <1>3 DEF QueueFacts!Timeout
  <2> QED BY <1>a, <2>1, <2>2
          DEF Stays, QueueFacts!ObservedStatus, QueueFacts!IsExpired, QueueFacts!ListedOpen,
              QueueFacts!Expirable
<1>4. CASE QueueFacts!Tick
  <2>1. now' = now + 1 /\ tasks' = tasks /\ config' = config
    BY <1>4 DEF QueueFacts!Tick
  <2>2. \A id \in DOMAIN tasks :
           /\ tasks[id].timing.expires_at <= now => tasks[id].timing.expires_at <= now'
           /\ tasks[id].timing.expires_at > now' => tasks[id].timing.expires_at > now
    BY <1>a, <2>1
  <2>3. now <= now'
    BY <1>a, <2>1
  <2> QED BY <1>0, <1>a, <2>1, <2>2, <2>3
          DEF Stays, QueueFacts!ObservedStatus, QueueFacts!IsExpired, QueueFacts!ListedOpen
<1> QED BY <1>0, <1>1, <1>2, <1>3, <1>4
        DEF QueueFacts!Next, QueueFacts!CreateAny, QueueFacts!CompleteAny, QueueFacts!TimeoutAny

(***************************************************************************)
(* The invariant of the readers                                            *)
(***************************************************************************)
ViewType == [phase       : {"none", "half", "shown"},
             start_after : Nat \cup {None},
             limit       : Nat \cup {None},
             next_id     : Nat,
             since       : Nat,
             first       : Seq(Nat),
             second      : Seq(Nat)]

PagerType == [phase       : {"none", "paging", "done"},
              start_after : Nat \cup {None},
              seen        : Seq(Nat),
              open        : SUBSET Nat]

ReadersTypes ==
    /\ view \in ViewType /\ pager \in PagerType
    /\ view.next_id <= config.next_id /\ view.since <= now
    /\ Decreasing(view.first) /\ Decreasing(view.second) /\ Decreasing(pager.seen)

\* Why the first answer may be without a task that is not completed
FirstExplains(id) ==
    \/ view.start_after # None /\ id >= view.start_after
    \/ In(view.first, id)
    \/ QueueFacts!ObservedStatus(tasks[id]) = "expired"
    \/ CutOff(view.first, id)

\* A task the first answer is without has been completed or is explained.
FirstAnswer ==
    view.phase # "none" =>
        \A id \in 1..view.next_id - 1 : FirstExplains(id) \/ tasks[id].status = "completed"

SecondAnswer ==
    view.phase = "shown" =>
        \A id \in 1..view.next_id - 1 :
            FirstExplains(id) \/ In(view.second, id) \/ CutOff(view.second, id)

\* The first answer held open tasks, the second one completed ones.
Lines ==
    /\ \A i \in DOMAIN view.first :
          /\ view.first[i] \in DOMAIN tasks
          /\ tasks[view.first[i]].status = "completed" =>
                tasks[view.first[i]].completed_at >= view.since
    /\ \A i \in DOMAIN view.second :
          /\ view.second[i] \in DOMAIN tasks
          /\ tasks[view.second[i]].status = "completed"

\* The pager has seen what is left open of the tasks it began with, down to
\* the id it goes on from.
Paged ==
    /\ pager.open \subseteq DOMAIN tasks
    /\ pager.start_after =
          IF pager.seen = <<>> THEN None ELSE pager.seen[Len(pager.seen)]
    /\ \A id \in pager.open \cap QueueFacts!ListedOpen :
          \/ In(pager.seen, id)
          \/ pager.phase # "done" /\ (pager.start_after = None \/ id < pager.start_after)

ReadersInv ==
    QueueFacts!TypeOK /\ ReadersTypes /\ FirstAnswer /\ SecondAnswer /\ Lines /\ Paged

\* What a query answers a reader: a page of the ids, newest first.
LEMMA ReadPage ==
    ASSUME QueueFacts!TypeOK,
           NEW ids \in {QueueFacts!ListedOpen, QueueFacts!ListedCompleted},
           NEW start_after, NEW limit \in Nat \cup {None}
    PROVE  LET page == Queue!Page(ids, start_after, limit)
           IN  /\ QueueFacts!PageOf(page, ids, start_after, limit)
               /\ Decreasing(page)
               /\ \A i \in DOMAIN page : page[i] \in ids
<1> DEFINE page == Queue!Page(ids, start_after, limit)
<1>1. ids \in SUBSET Nat /\ QueueFacts!IsFiniteSet(ids)
  BY QueueFacts!FiniteLists, SameConstants, QueueAssumption
<1>2. limit = None \/ limit \in Nat
  OBVIOUS
<1>3. QueueFacts!PageOf(QueueFacts!Page(ids, start_after, limit), ids, start_after, limit)
  BY <1>1, <1>2, QueueFacts!PageShows, SameConstants, QueueAssumption
<1>4. QueueFacts!PageOf(page, ids, start_after, limit)
  BY <1>3, SamePage
<1> HIDE DEF page
<1>5. page \in Seq(QueueFacts!InRange(ids, start_after))
  BY <1>4 DEF QueueFacts!PageOf
<1>6. QueueFacts!InRange(ids, start_after) \subseteq ids
  BY DEF QueueFacts!InRange
<1>7. \A i \in DOMAIN page : page[i] \in ids
  BY <1>5, <1>6
<1>8. page \in Seq(Nat)
  <2>1. /\ Len(page) \in Nat /\ DOMAIN page = 1..Len(page)
        /\ page = [i \in 1..Len(page) |-> page[i]]
    BY <1>5
  <2>2. \A i \in 1..Len(page) : page[i] \in Nat
    BY <1>1, <1>7, <2>1
  <2> HIDE DEF page
  <2> QED BY <2>1, <2>2
<1>9. Decreasing(page)
  BY <1>4, <1>8 DEF Decreasing, QueueFacts!PageOf
<1> QED BY <1>4, <1>7, <1>9 DEF page

LEMMA ReadersInitInv == ViewInit => ReadersInv
<1> SUFFICES ASSUME ViewInit PROVE ReadersInv
  OBVIOUS
<1>1. QueueFacts!TypeOK
  BY ReadersInit, QueueFacts!InitTypeOK, SameConstants, QueueAssumption
<1>2. /\ view = [phase |-> "none", start_after |-> None, limit |-> None, next_id |-> 1,
                 since |-> StartTime, first |-> <<>>, second |-> <<>>]
      /\ pager = [phase |-> "none", start_after |-> None, seen |-> <<>>, open |-> {}]
  BY DEF ViewInit
<1>3. now = StartTime
  BY ReadersInit DEF QueueFacts!Init, QueueFacts!InitWith
<1>4. /\ view \in ViewType /\ pager \in PagerType
      /\ view.next_id = 1 /\ view.since = StartTime
      /\ view.first = <<>> /\ view.second = <<>> /\ pager.seen = <<>>
      /\ view.phase = "none" /\ pager.open = {} /\ pager.start_after = None
  BY <1>2, QueueAssumption DEF ViewType, PagerType
<1>5. Decreasing(<<>>)
  BY DEF Decreasing
<1>6. ReadersTypes
  BY <1>1, <1>3, <1>4, <1>5, QueueAssumption DEF ReadersTypes, QueueFacts!TypeOK
<1> QED BY <1>1, <1>4, <1>6 DEF ReadersInv, FirstAnswer, SecondAnswer, Lines, Paged

\* The queue moves on between two queries.
LEMMA ReadersBlockInv ==
    ASSUME ReadersInv, ViewBlock
    PROVE  ReadersInv'
<1>1. Stays /\ QueueFacts!TypeOK' /\ view' = view /\ pager' = pager
  BY ReadersBlock, QueueStays DEF ReadersInv
<1>2. ReadersTypes
  BY DEF ReadersInv
<1>3. /\ view.next_id \in Nat /\ view.since \in Nat /\ config.next_id \in Nat
      /\ DOMAIN tasks = 1..config.next_id - 1
  BY <1>2 DEF ReadersInv, ReadersTypes, ViewType, QueueFacts!TypeOK
<1>4. ReadersTypes'
  <2>1. view.next_id <= config'.next_id /\ view.since <= now'
    BY <1>1, <1>2, <1>3 DEF Stays, ReadersTypes
  <2> QED BY <1>1, <1>2, <2>1 DEF ReadersTypes, ViewType, PagerType, Decreasing
<1>5. \A id \in 1..view.next_id - 1 : id \in DOMAIN tasks
  BY <1>2, <1>3 DEF ReadersTypes
<1>6. ASSUME NEW id \in DOMAIN tasks, FirstExplains(id)
      PROVE  FirstExplains(id)'
  <2>1. QueueFacts!ObservedStatus(tasks[id]) = "expired" =>
           QueueFacts!ObservedStatus(tasks[id])' = "expired"
    BY <1>1 DEF Stays
  <2>2. QueueFacts!ObservedStatus(tasks[id])' = "expired" =>
           FirstExplains(id)'
    BY DEF FirstExplains
  <2> QED BY <1>1, <1>6, <2>1, <2>2 DEF FirstExplains, In, CutOff
<1>7. FirstAnswer'
  <2>1. ASSUME NEW id \in 1..view.next_id - 1, tasks[id].status = "completed"
        PROVE  tasks'[id].status = "completed"
    BY <1>1, <1>5, <2>1 DEF Stays
  <2> QED BY <1>1, <1>5, <1>6, <2>1 DEF ReadersInv, FirstAnswer
<1>8. SecondAnswer'
  <2>1. ASSUME NEW id \in 1..view.next_id - 1, view.phase = "shown"
        PROVE  FirstExplains(id)' \/ In(view.second, id) \/ CutOff(view.second, id)
    BY <1>5, <1>6, <2>1 DEF ReadersInv, SecondAnswer
  <2> QED BY <1>1, <2>1 DEF SecondAnswer, In, CutOff
<1>9. Lines'
  <2>1. ASSUME NEW i \in DOMAIN view.first
        PROVE  /\ view.first[i] \in DOMAIN tasks'
               /\ tasks'[view.first[i]].status = "completed" =>
                     tasks'[view.first[i]].completed_at >= view.since
    <3>1. /\ view.first[i] \in DOMAIN tasks
          /\ tasks[view.first[i]].status = "completed" =>
                tasks[view.first[i]].completed_at >= view.since
      BY DEF ReadersInv, Lines
    <3>2. now' >= view.since
      BY <1>4, <1>1 DEF ReadersTypes, Stays
    <3> QED BY <1>1, <3>1, <3>2 DEF Stays
  <2>2. \A i \in DOMAIN view.second :
           /\ view.second[i] \in DOMAIN tasks'
           /\ tasks'[view.second[i]].status = "completed"
    BY <1>1 DEF ReadersInv, Lines, Stays
  <2> QED BY <1>1, <2>1, <2>2 DEF Lines
<1>10. Paged'
  <2>1. pager.open \subseteq DOMAIN tasks /\ DOMAIN tasks \subseteq DOMAIN tasks'
    BY <1>1 DEF ReadersInv, Paged, Stays
  <2>2. pager.open \cap QueueFacts!ListedOpen' \subseteq pager.open \cap QueueFacts!ListedOpen
    BY <1>1, <2>1 DEF Stays
  <2> QED BY <1>1, <2>1, <2>2 DEF ReadersInv, Paged, In
<1> QED BY <1>1, <1>4, <1>7, <1>8, <1>9, <1>10 DEF ReadersInv

LEMMA ReadersViewOpen ==
    ASSUME ReadersInv, NEW start_after \in StartAfter,
           NEW limit \in ViewLimit, ViewOpen(start_after, limit)
    PROVE  ReadersInv'
<1> DEFINE page == Queue!Page(QueueFacts!ListedOpen, start_after, limit)
<1>1. start_after \in Nat \cup {None} /\ limit \in Nat \cup {None}
  BY ReaderAssumption
<1>2. /\ UNCHANGED <<now, config, tasks, pager>>
      /\ view' = [phase |-> "half", start_after |-> start_after, limit |-> limit,
                  next_id |-> config.next_id, since |-> now, first |-> page, second |-> <<>>]
  BY SameReaders DEF ViewOpen, Query, Queue!ListOpen, queueVars
<1>3. /\ QueueFacts!PageOf(page, QueueFacts!ListedOpen, start_after, limit)
      /\ Decreasing(page) /\ \A i \in DOMAIN page : page[i] \in QueueFacts!ListedOpen
  BY <1>1, ReadPage DEF ReadersInv
<1> HIDE DEF page
<1>4. page \in Seq(Nat) /\ now \in Nat /\ config.next_id \in Nat
      /\ DOMAIN tasks = 1..config.next_id - 1
  BY <1>3 DEF ReadersInv, QueueFacts!TypeOK, Decreasing
<1>5. /\ view'.phase = "half" /\ view'.start_after = start_after /\ view'.limit = limit
      /\ view'.next_id = config.next_id /\ view'.since = now
      /\ view'.first = page /\ view'.second = <<>> /\ view' \in ViewType
  BY <1>1, <1>2, <1>4 DEF ViewType
<1>6. Decreasing(<<>>)
  BY DEF Decreasing
<1>7. ReadersTypes'
  BY <1>2, <1>3, <1>4, <1>5, <1>6 DEF ReadersInv, ReadersTypes, Decreasing
<1>8. FirstAnswer'
  <2> SUFFICES ASSUME NEW id \in DOMAIN tasks
               PROVE  FirstExplains(id)' \/ tasks[id].status = "completed"
    BY <1>2, <1>4, <1>5 DEF FirstAnswer
  <2>1. tasks[id].status \in {"open", "completed", "expired"}
        /\ tasks[id].timing.expires_at \in Nat /\ id \in Nat
    BY <1>4, QueueAssumption DEF ReadersInv, QueueFacts!TypeOK, QueueFacts!Task
  <2>2. CASE id \notin QueueFacts!ListedOpen
    <3>1. QueueFacts!ObservedStatus(tasks[id]) = "expired" \/ tasks[id].status = "completed"
      BY <1>4, <2>1, <2>2
         DEF QueueFacts!ListedOpen, QueueFacts!ObservedStatus, QueueFacts!IsExpired
    <3>2. QueueFacts!ObservedStatus(tasks[id])' = QueueFacts!ObservedStatus(tasks[id])
      BY <1>2 DEF QueueFacts!ObservedStatus, QueueFacts!IsExpired
    <3> QED BY <3>1, <3>2 DEF FirstExplains
  <2>3. CASE id \in QueueFacts!InRange(QueueFacts!ListedOpen, start_after)
    <3>1. \/ In(page, id)
          \/ /\ limit # None /\ Len(page) = limit
             /\ \A i \in DOMAIN page : page[i] > id
      BY <1>3, <2>3 DEF QueueFacts!PageOf, In
    <3> QED BY <1>5, <3>1 DEF FirstExplains, CutOff, In
  <2>4. CASE id \in QueueFacts!ListedOpen /\ start_after # None /\ ~(id < start_after)
    BY <1>1, <1>5, <2>1, <2>4 DEF FirstExplains
  <2> QED BY <2>2, <2>3, <2>4 DEF QueueFacts!InRange
<1>9. SecondAnswer'
  BY <1>5 DEF SecondAnswer
<1>10. Lines'
  BY <1>2, <1>3, <1>5 DEF Lines, QueueFacts!ListedOpen
<1>11. QueueFacts!TypeOK'
  BY <1>2 DEF ReadersInv, QueueFacts!TypeOK
<1>12. Paged'
  BY <1>2 DEF ReadersInv, Paged, QueueFacts!ListedOpen, In
<1> QED BY <1>7, <1>8, <1>9, <1>10, <1>11, <1>12 DEF ReadersInv

LEMMA ReadersViewCompleted ==
    ASSUME ReadersInv, ViewCompleted
    PROVE  ReadersInv'
<1> DEFINE page == Queue!Page(QueueFacts!ListedCompleted, view.start_after, view.limit)
<1>1. view \in ViewType /\ view.start_after \in Nat \cup {None} /\ view.limit \in Nat \cup {None}
  BY DEF ReadersInv, ReadersTypes, ViewType
<1>2. /\ UNCHANGED <<now, config, tasks, pager>> /\ view.phase = "half"
      /\ view' = [view EXCEPT !.phase = "shown", !.second = page]
  BY SameReaders
     DEF ViewCompleted, Query, Queue!ListCompleted, queueVars
<1>3. /\ QueueFacts!PageOf(page, QueueFacts!ListedCompleted, view.start_after, view.limit)
      /\ Decreasing(page) /\ \A i \in DOMAIN page : page[i] \in QueueFacts!ListedCompleted
  BY <1>1, ReadPage DEF ReadersInv
<1> HIDE DEF page
<1>4. page \in Seq(Nat) /\ config.next_id \in Nat /\ DOMAIN tasks = 1..config.next_id - 1
  BY <1>3 DEF ReadersInv, QueueFacts!TypeOK, Decreasing
<1>5. /\ view'.phase = "shown" /\ view'.start_after = view.start_after
      /\ view'.limit = view.limit /\ view'.next_id = view.next_id
      /\ view'.since = view.since /\ view'.first = view.first
      /\ view'.second = page /\ view' \in ViewType
  BY <1>1, <1>2, <1>4 DEF ViewType
<1>6. ReadersTypes'
  BY <1>2, <1>3, <1>5 DEF ReadersInv, ReadersTypes, Decreasing
<1>7. \A id : FirstExplains(id)' <=> FirstExplains(id)
  BY <1>2, <1>5
     DEF FirstExplains, QueueFacts!ObservedStatus, QueueFacts!IsExpired, In, CutOff
<1>8. FirstAnswer'
  BY <1>2, <1>5, <1>7 DEF ReadersInv, FirstAnswer
<1>9. SecondAnswer'
  <2> SUFFICES ASSUME NEW id \in 1..view.next_id - 1
               PROVE  FirstExplains(id) \/ In(page, id) \/ CutOff(view.second, id)'
    BY <1>5, <1>7 DEF SecondAnswer
  <2>1. FirstExplains(id) \/ tasks[id].status = "completed"
    BY <1>2 DEF ReadersInv, FirstAnswer
  <2>2. id \in DOMAIN tasks /\ id \in Nat
    BY <1>1, <1>4 DEF ReadersInv, ReadersTypes, ViewType
  <2>3. CASE tasks[id].status = "completed" /\ ~FirstExplains(id)
    <3>1. id \in QueueFacts!InRange(QueueFacts!ListedCompleted, view.start_after)
      BY <1>1, <2>2, <2>3 DEF QueueFacts!InRange, QueueFacts!ListedCompleted, FirstExplains
    <3>2. \/ In(page, id)
          \/ /\ view.limit # None /\ Len(page) = view.limit
             /\ \A i \in DOMAIN page : page[i] > id
      BY <1>3, <3>1 DEF QueueFacts!PageOf, In
    <3> QED BY <1>5, <3>2 DEF CutOff
  <2> QED BY <2>1, <2>3
<1>10. Lines'
  BY <1>2, <1>3, <1>5 DEF ReadersInv, Lines, QueueFacts!ListedCompleted
<1>11. QueueFacts!TypeOK'
  BY <1>2 DEF ReadersInv, QueueFacts!TypeOK
<1>12. Paged'
  BY <1>2 DEF ReadersInv, Paged, QueueFacts!ListedOpen, In
<1> QED BY <1>6, <1>8, <1>9, <1>10, <1>11, <1>12 DEF ReadersInv

\* A step of the pager leaves the view alone.
LEMMA ReadersPagerOnly ==
    ASSUME ReadersInv, UNCHANGED <<now, config, tasks, view>>,
           pager' \in PagerType, Decreasing(pager'.seen), Paged'
    PROVE  ReadersInv'
<1>1. QueueFacts!TypeOK'
  BY DEF ReadersInv, QueueFacts!TypeOK
<1>2. ReadersTypes'
  BY DEF ReadersInv, ReadersTypes, Decreasing
<1>3. \A id : FirstExplains(id)' <=> FirstExplains(id)
  BY DEF FirstExplains, QueueFacts!ObservedStatus, QueueFacts!IsExpired, In, CutOff
<1>4. FirstAnswer' /\ SecondAnswer'
  BY <1>3 DEF ReadersInv, FirstAnswer, SecondAnswer, In, CutOff
<1>5. Lines'
  BY DEF ReadersInv, Lines
<1> QED BY <1>1, <1>2, <1>4, <1>5 DEF ReadersInv

LEMMA ReadersStartPaging ==
    ASSUME ReadersInv, StartPaging
    PROVE  ReadersInv'
<1>1. /\ UNCHANGED <<now, config, tasks, view>>
      /\ pager' = [phase |-> "paging", start_after |-> None, seen |-> <<>>,
                   open |-> QueueFacts!ListedOpen]
  BY SameReaders DEF StartPaging, queueVars
<1>2. QueueFacts!ListedOpen \subseteq DOMAIN tasks /\ QueueFacts!ListedOpen \in SUBSET Nat
  BY DEF ReadersInv, QueueFacts!TypeOK, QueueFacts!ListedOpen
<1>3. /\ pager' \in PagerType /\ pager'.seen = <<>> /\ pager'.start_after = None
      /\ pager'.open = QueueFacts!ListedOpen /\ pager'.phase = "paging"
  BY <1>1, <1>2 DEF PagerType
<1>4. Decreasing(pager'.seen)
  BY <1>3 DEF Decreasing
<1>5. Paged'
  BY <1>1, <1>2, <1>3 DEF Paged
<1> QED BY <1>1, <1>3, <1>4, <1>5, ReadersPagerOnly

LEMMA ReadersNextPage ==
    ASSUME ReadersInv, NEW limit \in PageLimit, NextPage(limit)
    PROVE  ReadersInv'
<1> DEFINE open == QueueFacts!ListedOpen
           page == Queue!Page(open, pager.start_after, limit)
           old == pager.seen
           seen == old \o page
<1>1. limit \in Nat /\ limit >= 1
  BY ReaderAssumption
<1>2. /\ UNCHANGED <<now, config, tasks, view>> /\ pager.phase = "paging"
      /\ pager' = [pager EXCEPT
                    !.phase = IF Len(page) < limit THEN "done" ELSE "paging",
                    !.start_after = IF page = <<>> THEN pager.start_after ELSE page[Len(page)],
                    !.seen = seen]
  BY SameReaders
     DEF NextPage, ContinueAfter, Queue!ListOpen, queueVars
<1>3. /\ QueueFacts!PageOf(page, open, pager.start_after, limit)
      /\ Decreasing(page) /\ \A i \in DOMAIN page : page[i] \in open
  BY <1>1, ReadPage DEF ReadersInv
<1>4. pager \in PagerType /\ Decreasing(old) /\ Paged
  BY DEF ReadersInv, ReadersTypes
<1>5. \A i \in DOMAIN page : pager.start_after = None \/ page[i] < pager.start_after
  <2>1. page \in Seq(QueueFacts!InRange(open, pager.start_after))
    BY <1>3 DEF QueueFacts!PageOf
  <2>2. \A i \in DOMAIN page : page[i] \in QueueFacts!InRange(open, pager.start_after)
    BY <2>1
  <2> QED BY <2>2 DEF QueueFacts!InRange
<1>6. pager.start_after = IF old = <<>> THEN None ELSE old[Len(old)]
  BY <1>4 DEF Paged
<1> HIDE DEF page, open
<1>7. /\ page \in Seq(Nat) /\ Len(page) \in Nat /\ DOMAIN page = 1..Len(page)
      /\ \A i \in DOMAIN page : page[i] \in Nat
  BY <1>3 DEF Decreasing
<1>8. /\ old \in Seq(Nat) /\ Len(old) \in Nat /\ DOMAIN old = 1..Len(old)
      /\ \A i \in DOMAIN old : old[i] \in Nat
      /\ pager.start_after \in Nat \cup {None}
  BY <1>4 DEF Decreasing, PagerType
<1>9. /\ seen \in Seq(Nat) /\ Len(seen) = Len(old) + Len(page)
      /\ \A i \in DOMAIN old : i \in DOMAIN seen /\ seen[i] = old[i]
      /\ \A i \in DOMAIN page : Len(old) + i \in DOMAIN seen /\ seen[Len(old) + i] = page[i]
      /\ \A i \in DOMAIN seen : i \notin DOMAIN old =>
            i - Len(old) \in DOMAIN page /\ seen[i] = page[i - Len(old)]
      /\ \A id : In(seen, id) <=> In(old, id) \/ In(page, id)
  <2> HIDE DEF old
  <2> QED BY <1>7, <1>8, Joined
<1>10. \A i \in DOMAIN old, j \in DOMAIN page : old[i] > page[j]
  <2> SUFFICES ASSUME NEW i \in DOMAIN old, NEW j \in DOMAIN page PROVE old[i] > page[j]
    OBVIOUS
  <2>1. old # <<>> /\ Len(old) \in DOMAIN old
    BY <1>8
  <2>2. pager.start_after = old[Len(old)] /\ old[Len(old)] \in Nat
    BY <1>6, <1>8, <2>1
  <2>3. page[j] < old[Len(old)]
    BY <1>5, <2>2, QueueAssumption
  <2>4. i = Len(old) \/ old[i] > old[Len(old)]
    BY <1>4, <1>8, <2>1 DEF Decreasing
  <2> QED BY <1>7, <1>8, <2>2, <2>3, <2>4
<1> HIDE DEF seen, old
<1>11. Decreasing(seen)
  <2> SUFFICES ASSUME NEW i \in DOMAIN seen, NEW j \in DOMAIN seen, i < j
               PROVE  seen[i] > seen[j]
    BY <1>9 DEF Decreasing
  <2>0. i \in Nat /\ j \in Nat
    BY <1>9
  <2>1. CASE i \in DOMAIN old /\ j \in DOMAIN old
    BY <1>4, <1>9, <2>1 DEF Decreasing
  <2>2. CASE i \in DOMAIN old /\ j \notin DOMAIN old
    BY <1>9, <1>10, <2>2
  <2>3. CASE i \notin DOMAIN old /\ j \notin DOMAIN old
    <3>1. /\ i - Len(old) \in DOMAIN page /\ seen[i] = page[i - Len(old)]
          /\ j - Len(old) \in DOMAIN page /\ seen[j] = page[j - Len(old)]
      BY <1>9, <2>3
    <3>2. i - Len(old) < j - Len(old)
      BY <1>8, <2>0
    <3> QED BY <1>3, <3>1, <3>2 DEF Decreasing
  <2>4. ~(i \notin DOMAIN old /\ j \in DOMAIN old)
    BY <1>8, <1>9, <2>0
  <2> QED BY <2>1, <2>2, <2>3, <2>4
<1> DEFINE next == IF page = <<>> THEN pager.start_after ELSE page[Len(page)]
<1>12. next \in Nat \cup {None} /\ next = IF seen = <<>> THEN None ELSE seen[Len(seen)]
  <2>1. CASE page = <<>>
    <3>1. seen = old
      BY <1>8, <2>1 DEF seen
    <3> QED BY <1>6, <1>8, <2>1, <3>1 DEF old
  <2>2. CASE page # <<>>
    <3>1. Len(page) \in 1..Len(page)
      BY <1>7, <2>2
    <3>2. seen[Len(seen)] = page[Len(page)] /\ seen # <<>>
      <4>1. Len(page) \in DOMAIN page
        BY <1>7, <3>1
      <4>2. seen[Len(old) + Len(page)] = page[Len(page)]
        BY <1>9, <4>1
      <4>3. Len(seen) # 0
        BY <1>7, <1>8, <1>9, <3>1
      <4> QED BY <1>9, <4>2, <4>3
    <3> QED BY <1>7, <2>2, <3>1, <3>2
  <2> QED BY <2>1, <2>2
<1> HIDE DEF next
<1>13. /\ pager'.phase = IF Len(page) < limit THEN "done" ELSE "paging"
       /\ pager'.start_after = next /\ pager'.seen = seen
       /\ pager'.open = pager.open /\ pager' \in PagerType
  BY <1>2, <1>4, <1>9, <1>12 DEF PagerType, next
<1>14. Paged'
  <2>1. ASSUME NEW id \in pager.open \cap open
        PROVE  \/ In(seen, id)
               \/ Len(page) >= limit /\ (next = None \/ id < next)
    <3>1. \/ In(old, id)
          \/ pager.start_after = None \/ id < pager.start_after
      BY <1>4 DEF Paged, old, open
    <3>2. ASSUME id \in QueueFacts!InRange(open, pager.start_after), ~In(page, id)
          PROVE  Len(page) >= limit /\ id < next
      <4>1. Len(page) = limit /\ \A i \in DOMAIN page : page[i] > id
        BY <1>3, <3>2 DEF QueueFacts!PageOf, In
      <4>2. page # <<>> /\ Len(page) \in DOMAIN page
        BY <1>1, <1>7, <4>1
      <4>3. id \in Nat
        BY <1>4, <2>1 DEF PagerType
      <4> QED BY <1>1, <1>7, <4>1, <4>2, <4>3 DEF next
    <3> QED BY <1>9, <3>1, <3>2 DEF QueueFacts!InRange
  <2>2. open' = open
    BY <1>2 DEF open, QueueFacts!ListedOpen
  <2>3. pager'.phase # "done" <=> Len(page) >= limit
    BY <1>1, <1>7, <1>13
  <2>4. pager.open \subseteq DOMAIN tasks
    BY <1>4 DEF Paged
  <2>5. \A id \in pager'.open \cap open' :
           \/ In(seen, id)
           \/ pager'.phase # "done" /\ (next = None \/ id < next)
    BY <1>13, <2>1, <2>2, <2>3
  <2> QED BY <1>2, <1>12, <1>13, <2>4, <2>5 DEF Paged, open, In
<1> QED BY <1>2, <1>11, <1>13, <1>14, ReadersPagerOnly

LEMMA ReadersNextInv == ReadersInv /\ [ViewNext]_viewVars => ReadersInv'
<1> SUFFICES ASSUME ReadersInv, [ViewNext]_viewVars PROVE ReadersInv'
  OBVIOUS
<1>1. CASE UNCHANGED viewVars
  <2>1. UNCHANGED <<now, config, tasks, view, pager>>
    BY <1>1 DEF viewVars
  <2>2. pager' \in PagerType /\ Decreasing(pager'.seen) /\ Paged'
    BY <2>1 DEF ReadersInv, ReadersTypes, Decreasing, Paged, QueueFacts!ListedOpen, In
  <2> QED BY <2>1, <2>2, ReadersPagerOnly
<1>2. CASE View
  BY <1>2, ReadersViewOpen, ReadersViewCompleted DEF View
<1>3. CASE Paging
  BY <1>3, ReadersStartPaging, ReadersNextPage DEF Paging
<1> QED BY <1>1, <1>2, <1>3, ReadersBlockInv DEF ViewNext

\* What explains every line of a view and every id a pager has seen holds at
\* all times.
THEOREM ReadersInvariant == ViewSpec => []ReadersInv
BY ReadersInitInv, ReadersNextInv, PTL DEF ViewSpec

\* What the view prints.
LEMMA ShownLines ==
    ASSUME ReadersInv
    PROVE  LET all == view.first \o view.second
           IN  /\ all \in Seq(Nat)
               /\ DOMAIN Shown = DOMAIN all
               /\ \A i \in DOMAIN all :
                     /\ In(all, Shown[i])
                     /\ Ranked(all, Shown[i], i)
               /\ \A id : In(all, id) <=> id \in ToSet(Shown)
<1> DEFINE all == view.first \o view.second
           S == ToSet(all)
           shown == Shown
<1>1. view.first \in Seq(Nat) /\ view.second \in Seq(Nat)
  BY DEF ReadersInv, ReadersTypes, Decreasing
<1>2. all \in Seq(Nat)
  BY <1>1
<1>3. /\ DOMAIN shown = DOMAIN all
      /\ \A i \in DOMAIN all : shown[i] = CHOOSE id \in S : Ranked(all, id, i)
  <2> DEFINE Place(id, i) ==
               /\ Cardinality({k \in DOMAIN all : all[k] > id}) < i
               /\ i <= Cardinality({k \in DOMAIN all : all[k] >= id})
  <2>1. shown = [i \in DOMAIN all |-> CHOOSE id \in S : Place(id, i)]
    BY DEF Shown
  <2>2. \A id, i : Place(id, i) <=> Ranked(all, id, i)
    BY SameReaders DEF Ranked, Newer, NotOlder
  <2> HIDE DEF shown, all, S, Place
  <2>3. \A i : (CHOOSE id \in S : Place(id, i)) = (CHOOSE id \in S : Ranked(all, id, i))
    BY <2>2
  <2> QED BY <2>1, <2>3
<1>4. S = {all[k] : k \in DOMAIN all}
  BY DEF ToSet
<1> HIDE DEF shown, all, S
<1>5. ASSUME NEW i \in DOMAIN all
      PROVE  shown[i] \in S /\ Ranked(all, shown[i], i)
  <2>1. \E id \in S : Ranked(all, id, i)
    BY <1>2, <1>4, RankedOnce
  <2> QED BY <1>3, <2>1
<1>6. \A id : In(all, id) <=> id \in S
  BY <1>4 DEF In
<1>7. DOMAIN shown = DOMAIN all
  BY <1>3
<1>8. ASSUME NEW id PROVE In(all, id) <=> \E i \in DOMAIN shown : shown[i] = id
  <2>1. ASSUME NEW k \in DOMAIN all, all[k] = id
        PROVE  \E i \in DOMAIN shown : shown[i] = id
    <3>1. PICK i \in DOMAIN all : Ranked(all, all[k], i)
      BY <1>2, RankedOnce
    <3>2. PICK j \in DOMAIN all : shown[i] = all[j] /\ Ranked(all, all[j], i)
      BY <1>4, <1>5
    <3>3. all[j] = all[k]
      BY <1>2, <3>1, <3>2, RankedOnce
    <3> QED BY <1>7, <2>1, <3>2, <3>3
  <2>2. ASSUME NEW i \in DOMAIN shown, shown[i] = id PROVE In(all, id)
    BY <1>5, <1>6, <1>7, <2>2
  <2> QED BY <2>1, <2>2 DEF In
<1>9. \A id : (\E i \in DOMAIN shown : shown[i] = id) <=> id \in ToSet(shown)
  BY DEF ToSet
<1>10. /\ all \in Seq(Nat) /\ DOMAIN shown = DOMAIN all
       /\ \A i \in DOMAIN all : In(all, shown[i]) /\ Ranked(all, shown[i], i)
       /\ \A id : In(all, id) <=> id \in ToSet(shown)
  BY <1>2, <1>5, <1>6, <1>7, <1>8, <1>9
<1> QED BY <1>10 DEF all, shown

\* A view made of two blocks is without no task of its range but an expired one
\* or one a full list leaves out.
THEOREM NoneBetween == ViewSpec => []NoTaskFallsBetween
<1>1. ReadersInv => NoTaskFallsBetween
  <2> SUFFICES ASSUME ReadersInv, view.phase = "shown", NEW id \in 1..view.next_id - 1
               PROVE  \/ view.start_after # None /\ id >= view.start_after
                      \/ id \in ToSet(Shown)
                      \/ Queue!ObservedStatus(tasks[id]) = "expired"
                      \/ CutOff(view.first, id)
                      \/ CutOff(view.second, id)
    BY DEF NoTaskFallsBetween
  <2>1. FirstExplains(id) \/ In(view.second, id) \/ CutOff(view.second, id)
    BY DEF ReadersInv, SecondAnswer
  <2>2. In(view.first, id) \/ In(view.second, id) => id \in ToSet(Shown)
    <3>1. view.first \in Seq(Nat) /\ view.second \in Seq(Nat)
      BY DEF ReadersInv, ReadersTypes, Decreasing
    <3>2. In(view.first, id) \/ In(view.second, id) => In(view.first \o view.second, id)
      BY <3>1, Joined
    <3> QED BY <3>2, ShownLines
  <2> QED BY <2>1, <2>2, SameReaders DEF FirstExplains
<1> QED BY <1>1, ReadersInvariant, PTL

\* A task on two lines was completed while the view was made, and the lines come
\* one after the other.
THEOREM TwiceWhenCompleted == ViewSpec => []ShownTwiceWhenCompletedMeanwhile
<1>1. ReadersInv => ShownTwiceWhenCompletedMeanwhile
  <2> DEFINE first == view.first
             second == view.second
             all == first \o second
             shown == Shown
  <2> SUFFICES ASSUME ReadersInv, NEW i \in DOMAIN shown, NEW j \in DOMAIN shown,
                      i < j, shown[i] = shown[j]
               PROVE  /\ j = i + 1
                      /\ tasks[shown[i]].status = "completed"
                      /\ tasks[shown[i]].completed_at >= view.since
    BY DEF ShownTwiceWhenCompletedMeanwhile
  <2>1. /\ all \in Seq(Nat) /\ DOMAIN shown = DOMAIN all
        /\ \A m \in DOMAIN all : In(all, shown[m]) /\ Ranked(all, shown[m], m)
    BY ShownLines
  <2>2. Decreasing(first) /\ Decreasing(second)
    BY DEF ReadersInv, ReadersTypes
  <2>3. /\ Len(first) \in Nat /\ DOMAIN first = 1..Len(first)
        /\ \A m \in DOMAIN all : m \in Nat \ {0}
        /\ \A m \in DOMAIN first : all[m] = first[m]
        /\ \A m \in DOMAIN all : m \notin DOMAIN first =>
              m - Len(first) \in DOMAIN second /\ all[m] = second[m - Len(first)]
    <3>1. first \in Seq(Nat) /\ second \in Seq(Nat)
      BY <2>2 DEF Decreasing
    <3> HIDE DEF first, second
    <3> QED BY <2>1, <3>1, Joined
  <2>4. /\ \A m \in DOMAIN first :
              tasks[first[m]].status = "completed" => tasks[first[m]].completed_at >= view.since
        /\ \A m \in DOMAIN second : tasks[second[m]].status = "completed"
    BY DEF ReadersInv, Lines
  <2> HIDE DEF shown, all, first, second
  <2>5. \A m \in DOMAIN all : all[m] \in Nat
    BY <2>1
  <2> DEFINE id == shown[i]
  <2>6. id \in Nat /\ Ranked(all, id, i) /\ Ranked(all, id, j) /\ i \in DOMAIN all /\ j \in DOMAIN all
    BY <2>1, <2>5 DEF In
  <2> HIDE DEF id
  <2>7. PICK k \in DOMAIN all, l \in DOMAIN all :
           /\ k < l /\ all[k] = id /\ all[l] = id
           /\ (\A m \in DOMAIN all : all[m] = id => m \in {k, l}) => j = i + 1
    BY <2>1, <2>6, RankedTwice
  <2>9. \A m, n \in DOMAIN first : first[m] = first[n] => m = n
    BY <2>2, DecreasingOnce
  <2>10. \A m, n \in DOMAIN second : second[m] = second[n] => m = n
    BY <2>2, DecreasingOnce
  <2>11. \A m, n \in DOMAIN all : all[m] = all[n] /\ m < n =>
            m \in DOMAIN first /\ n \notin DOMAIN first
    <3> SUFFICES ASSUME NEW m \in DOMAIN all, NEW n \in DOMAIN all, all[m] = all[n], m < n
                 PROVE  m \in DOMAIN first /\ n \notin DOMAIN first
      OBVIOUS
    <3>1. m \in Nat /\ n \in Nat
      BY <2>3
    <3>2. ~(m \in DOMAIN first /\ n \in DOMAIN first)
      BY <2>3, <2>9, <3>1
    <3>3. ~(m \notin DOMAIN first /\ n \notin DOMAIN first)
      <4> SUFFICES ASSUME m \notin DOMAIN first, n \notin DOMAIN first PROVE FALSE
        OBVIOUS
      <4>1. m - Len(first) = n - Len(first)
        BY <2>3, <2>10
      <4> QED BY <2>3, <3>1, <4>1
    <3>4. ~(m \notin DOMAIN first /\ n \in DOMAIN first)
      BY <2>3, <3>1
    <3> QED BY <3>2, <3>3, <3>4
  <2>12. k \in DOMAIN first /\ l \notin DOMAIN first
    BY <2>7, <2>11
  <2>13. j = i + 1
    <3> SUFFICES ASSUME NEW m \in DOMAIN all, all[m] = id PROVE m \in {k, l}
      BY <2>7
    <3>1. m \in Nat /\ k \in Nat /\ l \in Nat
      BY <2>3
    <3>2. CASE m \in DOMAIN first
      BY <2>3, <2>7, <2>9, <2>12, <3>2
    <3>3. CASE m \notin DOMAIN first
      <4>1. m - Len(first) = l - Len(first)
        BY <2>7, <2>3, <2>10, <2>12, <3>3
      <4> QED BY <2>3, <3>1, <4>1
    <3> QED BY <3>2, <3>3
  <2>14. first[k] = id
    BY <2>3, <2>7, <2>12
  <2>15. second[l - Len(first)] = id /\ l - Len(first) \in DOMAIN second
    BY <2>7, <2>3, <2>12
  <2>16. tasks[id].status = "completed"
    BY <2>4, <2>15
  <2>17. tasks[id].completed_at >= view.since
    BY <2>4, <2>12, <2>14, <2>16
  <2> QED BY <2>13, <2>16, <2>17 DEF id
<1> QED BY <1>1, ReadersInvariant, PTL

\* A pager sees no task twice and all that stay open while it goes through them.
THEOREM PagerSees == ViewSpec => []PagerSeesEveryOpenTask
<1>1. ReadersInv => PagerSeesEveryOpenTask
  <2> SUFFICES ASSUME ReadersInv PROVE PagerSeesEveryOpenTask
    OBVIOUS
  <2>1. Decreasing(pager.seen) /\ Paged
    BY DEF ReadersInv, ReadersTypes
  <2>2. \A i, j \in DOMAIN pager.seen : pager.seen[i] = pager.seen[j] => i = j
    <3>1. \A i \in DOMAIN pager.seen : i \in Nat /\ pager.seen[i] \in Nat
      BY <2>1 DEF Decreasing
    <3> QED BY <2>1, <3>1 DEF Decreasing
  <2>3. IsInjective(pager.seen)
    BY <2>2 DEF IsInjective
  <2>4. ASSUME pager.phase = "done", NEW id \in pager.open \cap QueueFacts!ListedOpen
        PROVE  id \in ToSet(pager.seen)
    BY <2>1, <2>4 DEF Paged, In, ToSet
  <2> QED BY <2>3, <2>4, SameReaders DEF PagerSeesEveryOpenTask
<1> QED BY <1>1, ReadersInvariant, PTL
=============================================================================
