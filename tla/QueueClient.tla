---------------------------- MODULE QueueClient ----------------------------
(***************************************************************************)
(* The add-task command against the task queue.  The client asks the queue *)
(* for its configuration, pays what the requestor rule asks for, sends a   *)
(* Create message and reads the id of the new task from the answer.        *)
(* Several clients work at the same time; a connection may lose a          *)
(* transaction, its answer, or delay it until the client has given up.     *)
(***************************************************************************)
EXTENDS DeployedQueue

CONSTANTS
    Client,          \* addresses that run the command
    Body,            \* bodies a task may be given
    Json,            \* those that parse
    MaxFaults        \* bound: connections that break

VARIABLES job,       \* the command each client gave last
          strays,    \* Create messages on their way after their client gave up
          faults,    \* connections broken so far
          author,    \* who created each task (not in the code)
          reported   \* the ids each client was told (not in the code)

vars == <<now, config, tasks, job, strays, faults, author, reported>>

Busy(c) == job[c].phase \in {"sending", "answered"}

NewJob(phase, body, timeout) ==
    [phase |-> phase, body |-> body, timeout |-> timeout, id |-> 0]

Goto(c, phase) == job' = [job EXCEPT ![c].phase = phase]

(***************************************************************************)
(* add_task                                                                *)
(***************************************************************************)
\* Mutant: whoever may send a task pays nothing
PaymentNone(c) == Queue!NoFunds

\* Exactly the amount of the requestor rule, or nothing for a fixed requestor
Payment(c) ==
    [d \in Denom |->
        IF config.requestor.kind = "open_payment" /\ d = config.requestor.denom
        THEN config.requestor.amount ELSE 0]

MayRequest(c) == config.requestor.kind = "fixed" => config.requestor.addr = c

AddTask(c, body, timeout) ==
    /\ ~Busy(c)
    /\ body \in Json
    /\ MayRequest(c)
    /\ job' = [job EXCEPT ![c] = NewJob("sending", body, timeout)]
    /\ UNCHANGED <<now, config, tasks, strays, faults, author, reported>>

\* A body that is not JSON, or somebody else than the fixed requestor
AddTaskRefused(c, body, timeout) ==
    /\ ~Busy(c)
    /\ body \notin Json \/ ~MayRequest(c)
    /\ job' = [job EXCEPT ![c] = NewJob("refused", body, timeout)]
    /\ UNCHANGED <<now, config, tasks, strays, faults, author, reported>>

(***************************************************************************)
(* The chain                                                               *)
(***************************************************************************)
\* The queue creates the task; its id is an attribute of the answer.
Create(c) ==
    /\ job[c].phase = "sending"
    /\ Queue!Create(c, Payment(c), job[c].timeout)
    /\ job' = [job EXCEPT ![c].phase = "answered", ![c].id = config.next_id]
    /\ author' = Append(author, c)
    /\ UNCHANGED <<strays, faults, reported>>

\* The queue refuses the payment or the timeout.
CreateRefused(c) ==
    /\ job[c].phase = "sending"
    /\ \/ ~Queue!RequestorAccepts(config.requestor, c, Payment(c))
       \/ Queue!CheckedTimeouts(config.timeout, job[c].timeout) = {}
    /\ Goto(c, "failed")
    /\ UNCHANGED <<now, config, tasks, strays, faults, author, reported>>

\* The connection breaks before the task is created, or after.
Break(c) ==
    /\ Busy(c)
    /\ faults < MaxFaults
    /\ faults' = faults + 1
    /\ \/ strays' = strays
       \/ /\ job[c].phase = "sending"
          /\ strays' = strays \cup {[from |-> c, timeout |-> job[c].timeout]}
    /\ Goto(c, "failed")
    /\ UNCHANGED <<now, config, tasks, author, reported>>

Land ==
    \E message \in strays :
        /\ strays' = strays \ {message}
        /\ Queue!Create(message.from, Payment(message.from), message.timeout)
        /\ author' = Append(author, message.from)
        /\ UNCHANGED <<job, faults, reported>>

\* Mutant: the newest task is taken for the client's own
NewestId(c) == config.next_id - 1

\* The task_id attribute of the transaction's answer
TaskId(c) == job[c].id

Report(c) ==
    /\ job[c].phase = "answered"
    /\ job' = [job EXCEPT ![c].phase = "added", ![c].id = TaskId(c)]
    /\ reported' = [reported EXCEPT ![c] = Append(@, TaskId(c))]
    /\ UNCHANGED <<now, config, tasks, strays, faults, author>>

(***************************************************************************)
(* The specification                                                       *)
(***************************************************************************)
Init ==
    /\ Queue!Init
    /\ job = [c \in Client |-> NewJob("idle", CHOOSE b \in Body : TRUE, None)]
    /\ strays = {}
    /\ faults = 0
    /\ author = <<>>
    /\ reported = [c \in Client |-> <<>>]

\* The queue goes on without its clients: votes, timeouts and blocks.
Block ==
    /\ Queue!CompleteAny \/ Queue!TimeoutAny \/ Queue!Tick
    /\ UNCHANGED <<job, strays, faults, author, reported>>

Add(c) == \E body \in Body, timeout \in Requested :
              AddTask(c, body, timeout) \/ AddTaskRefused(c, body, timeout)

Next ==
    \/ \E c \in Client : Add(c) \/ Create(c) \/ CreateRefused(c) \/ Break(c) \/ Report(c)
    \/ Land
    \/ Block

Spec == Init /\ [][Next]_vars

(***************************************************************************)
(* An assumption on the constants                                          *)
(***************************************************************************)
ASSUME ClientAssumption == MaxFaults \in Nat

(***************************************************************************)
(* Correctness                                                             *)
(***************************************************************************)
\* A client is told the id of the task it asked for itself: nobody is told an
\* id twice, and no id goes to two clients, however their transactions and the
\* late ones of earlier commands fall.
ReportsOwnTasks ==
    \A c \in Client :
        /\ \A i \in DOMAIN reported[c] :
              /\ reported[c][i] \in DOMAIN tasks
              /\ author[reported[c][i]] = c
        /\ \A i, j \in DOMAIN reported[c] : reported[c][i] = reported[c][j] => i = j
        /\ job[c].phase = "added" =>
              LET task == tasks[job[c].id]
                  life == task.timing.expires_at - task.timing.created_at IN
              life = IF job[c].timeout = None THEN config.timeout.default
                     ELSE job[c].timeout

PriceOfNothing ==
    config.requestor.kind = "open_payment" /\ config.requestor.amount = 0

\* The client works out for itself who may request a task and what it costs,
\* and the queue decides again: what the client sends the queue never refuses
\* for its sender or its payment.  A price of zero is the one exception:
\* must_pay takes no payment of nothing, so every message of a client is
\* refused then, and no task is ever added this way.
QueueTakesWhatClientSends ==
    /\ \A c \in Client :
          job[c].phase = "sending" =>
              (Queue!RequestorAccepts(config.requestor, c, Payment(c)) <=> ~PriceOfNothing)
    /\ PriceOfNothing => \A c \in Client : reported[c] = <<>>
=============================================================================
