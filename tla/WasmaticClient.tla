--------------------------- MODULE WasmaticClient ---------------------------
(***************************************************************************)
(* The wasmatic commands of the command line: deploy, remove and test send *)
(* the same request to the endpoint of every operator, wait until each of  *)
(* them has answered (join_all) and fail if one answer is an error.        *)
(* Several clients share one name space.                                   *)
(*                                                                         *)
(* The endpoints are external: what they do is taken from how the commands *)
(* and their documentation use them.  A connection can break before the    *)
(* endpoint acts, after it acted, or so that it acts late; the client sees *)
(* an error in each case.                                                  *)
(***************************************************************************)
EXTENDS Naturals, Storage

CONSTANTS
    Client,       \* people running the commands
    Endpoint,     \* the endpoints of the chain's configuration
    Name,         \* names of applications
    Digest,       \* digests of components
    Input,        \* inputs of a test
    Json,         \* those that parse
    MaxFaults,    \* bound: connections that break
    MaxCommands,  \* bound: commands given
    MaxRuns       \* bound: test runs of an application

VARIABLES
    binaries,     \* components an endpoint holds
    apps,         \* its applications: name -> [digest, owner, testable, runs]
    late,         \* requests that reach an endpoint after the client gave up
    job,          \* the command each client gave last
    stage,        \* how far it is
    answer,       \* what each endpoint answered to the request under way
    faults,       \* connections broken so far
    given,        \* commands given so far
    latest,       \* who gave the latest command (not in the code)
    trouble,      \* whether a command has failed, or was given while another
                  \* one was under way (not in the code)
    withdrawn     \* names somebody has asked to remove (not in the code)

vars      == <<binaries, apps, late, job, stage, answer, faults, given,
               latest, trouble, withdrawn>>
past      == <<latest, trouble, withdrawn>>
endpoints == <<binaries, apps>>

EmptyApps == [e \in Endpoint |-> EmptyMap]

\* A client that has not given a command yet
NoJob == [op |-> "none"]

Under(c) == stage[c] \in {"uploading", "enabling", "deleting", "testing"}

(***************************************************************************)
(* Giving a command                                                        *)
(***************************************************************************)
\* One request to every endpoint
Ask(c, st) ==
    /\ stage' = [stage EXCEPT ![c] = st]
    /\ answer' = [answer EXCEPT ![c] = [e \in Endpoint |-> "waiting"]]

Give(c, j) ==
    /\ ~Under(c)
    /\ given < MaxCommands
    /\ given' = given + 1
    /\ job' = [job EXCEPT ![c] = j]
    /\ latest' = c
    /\ trouble' = (trouble \/ \E d \in Client : Under(d))
    /\ UNCHANGED <<endpoints, late, faults>>

DeployJob(name, digest, source, testable) ==
    [op |-> "deploy", name |-> name, digest |-> digest,
     source |-> source, testable |-> testable]

\* deploy.  A local file is uploaded first, a URL is named in the request.
Deploy(c, name, digest, source, testable) ==
    /\ Give(c, DeployJob(name, digest, source, testable))
    /\ Ask(c, IF source = "file" THEN "uploading" ELSE "enabling")
    /\ UNCHANGED withdrawn

\* Mutant: only one endpoint is asked
RemoveOnce(c, name) ==
    /\ Give(c, [op |-> "remove", name |-> name])
    /\ stage' = [stage EXCEPT ![c] = "deleting"]
    /\ LET one == CHOOSE e \in Endpoint : TRUE IN
       answer' = [answer EXCEPT ![c] =
                    [e \in Endpoint |-> IF e = one THEN "waiting" ELSE "ok"]]
    /\ withdrawn' = withdrawn \cup {name}

\* remove
Remove(c, name) ==
    /\ Give(c, [op |-> "remove", name |-> name])
    /\ Ask(c, "deleting")
    /\ withdrawn' = withdrawn \cup {name}

\* test
Test(c, name, input) ==
    /\ input \in Json
    /\ \A e \in Endpoint : name \in DOMAIN apps[e] => apps[e][name].runs < MaxRuns
    /\ Give(c, [op |-> "test", name |-> name, input |-> input])
    /\ Ask(c, "testing")
    /\ UNCHANGED withdrawn

\* Refused before anything is sent: a trigger that is neither a schedule nor a
\* queue, permissions or environment that do not parse, a URL without digest,
\* a file that cannot be read
DeployRefused(c, name) ==
    /\ Give(c, [op |-> "deploy", name |-> name])
    /\ stage' = [stage EXCEPT ![c] = "refused"]
    /\ UNCHANGED <<answer, withdrawn>>

\* A test input that is not JSON
TestRefused(c, name, input) ==
    /\ input \notin Json
    /\ Give(c, [op |-> "test", name |-> name, input |-> input])
    /\ stage' = [stage EXCEPT ![c] = "refused"]
    /\ UNCHANGED <<answer, withdrawn>>

(***************************************************************************)
(* An endpoint                                                             *)
(***************************************************************************)
\* What an endpoint refuses: a name that is taken, a component it does not
\* hold, an application it does not have or that is not testable.  Whether it
\* refuses to delete what it does not have is not known: it may.
Refuses(e, st, j) ==
    \/ st = "enabling" /\ j.name \in DOMAIN apps[e]
    \/ st = "enabling" /\ j.source = "file" /\ j.digest \notin binaries[e]
    \/ st = "testing" /\ j.name \notin DOMAIN apps[e]
    \/ st = "testing" /\ j.name \in DOMAIN apps[e] /\ ~apps[e][j.name].testable

MayRefuse(e, st, j) ==
    \/ Refuses(e, st, j)
    \/ st = "deleting" /\ j.name \notin DOMAIN apps[e]

Without(map, name) == [n \in DOMAIN map \ {name} |-> map[n]]

NewApp(c, j) == [digest |-> j.digest, owner |-> c, testable |-> j.testable, runs |-> 0]

Triggered(app) == [app EXCEPT !.runs = @ + 1]

\* What it does with a request it does not refuse
Acts(e, st, c, j) ==
    \/ /\ st = "uploading"
       /\ binaries' = [binaries EXCEPT ![e] = @ \cup {j.digest}]
       /\ UNCHANGED apps
    \/ /\ st = "enabling"
       /\ apps' = [apps EXCEPT ![e] = Save(@, j.name, NewApp(c, j))]
       /\ UNCHANGED binaries
    \/ /\ st = "deleting"
       /\ apps' = [apps EXCEPT ![e] = Without(@, j.name)]
       /\ UNCHANGED binaries
    \/ /\ st = "testing"
       /\ apps' = [apps EXCEPT ![e] = Save(@, j.name, Triggered(@[j.name]))]
       /\ UNCHANGED binaries

Answer(c, e, a) == answer' = [answer EXCEPT ![c] = [@ EXCEPT ![e] = a]]

Waiting(c, e) == Under(c) /\ answer[c][e] = "waiting"

Serve(c, e) ==
    /\ Waiting(c, e)
    /\ ~Refuses(e, stage[c], job[c])
    /\ Acts(e, stage[c], c, job[c])
    /\ Answer(c, e, "ok")
    /\ UNCHANGED <<late, job, stage, faults, given, past>>

Refuse(c, e) ==
    /\ Waiting(c, e)
    /\ MayRefuse(e, stage[c], job[c])
    /\ Answer(c, e, "error")
    /\ UNCHANGED <<endpoints, late, job, stage, faults, given, past>>

(***************************************************************************)
(* Connections                                                             *)
(***************************************************************************)
\* The endpoint acts and its answer is lost
LoseAnswer(c, e) ==
    /\ Waiting(c, e)
    /\ faults < MaxFaults
    /\ ~Refuses(e, stage[c], job[c])
    /\ Acts(e, stage[c], c, job[c])
    /\ Answer(c, e, "error")
    /\ faults' = faults + 1
    /\ UNCHANGED <<late, job, stage, given, past>>

\* The request is lost, or still on its way when the client gives up on it
LoseRequest(c, e) ==
    /\ Waiting(c, e)
    /\ faults < MaxFaults
    /\ \/ late' = late
       \/ late' = late \cup {[to |-> e, stage |-> stage[c], from |-> c, job |-> job[c]]}
    /\ Answer(c, e, "error")
    /\ faults' = faults + 1
    /\ UNCHANGED <<endpoints, job, stage, given, past>>

ArriveLate ==
    \E r \in late :
        /\ late' = late \ {r}
        /\ IF Refuses(r.to, r.stage, r.job) THEN UNCHANGED endpoints
           ELSE Acts(r.to, r.stage, r.from, r.job)
        /\ UNCHANGED <<job, stage, answer, faults, given, past>>

(***************************************************************************)
(* Collecting the answers                                                  *)
(***************************************************************************)
\* Mutant: one good answer is enough
OneOk(c) == \E e \in Endpoint : answer[c][e] = "ok"

AllOk(c) == \A e \in Endpoint : answer[c][e] = "ok"

\* join_all waits for every answer
Settled(c) == \A e \in Endpoint : answer[c][e] # "waiting"

\* The upload went well everywhere: the application is enabled everywhere
Uploaded(c) ==
    /\ stage[c] = "uploading" /\ Settled(c) /\ AllOk(c)
    /\ Ask(c, "enabling")
    /\ UNCHANGED <<endpoints, late, job, faults, given, past>>

Succeed(c) ==
    /\ Under(c) /\ stage[c] # "uploading" /\ Settled(c) /\ AllOk(c)
    /\ stage' = [stage EXCEPT ![c] = "succeeded"]
    /\ UNCHANGED <<endpoints, late, job, answer, faults, given, past>>

Fail(c) ==
    /\ Under(c) /\ Settled(c) /\ ~AllOk(c)
    /\ stage' = [stage EXCEPT ![c] = "failed"]
    /\ trouble' = TRUE
    /\ UNCHANGED <<endpoints, late, job, answer, faults, given, latest, withdrawn>>

(***************************************************************************)
(* The specification                                                       *)
(***************************************************************************)
Init ==
    /\ binaries = [e \in Endpoint |-> {}]
    /\ apps = EmptyApps
    /\ late = {}
    /\ job = [c \in Client |-> NoJob]
    /\ stage = [c \in Client |-> "idle"]
    /\ answer = [c \in Client |-> [e \in Endpoint |-> "ok"]]
    /\ faults = 0
    /\ given = 0
    /\ latest \in Client
    /\ trouble = FALSE
    /\ withdrawn = {}

Command(c) ==
    \/ \E name \in Name, digest \in Digest, source \in {"file", "url"}, testable \in BOOLEAN :
          Deploy(c, name, digest, source, testable)
    \/ \E name \in Name : Remove(c, name) \/ DeployRefused(c, name)
    \/ \E name \in Name, input \in Input : Test(c, name, input) \/ TestRefused(c, name, input)

Handle(c, e) == Serve(c, e) \/ Refuse(c, e)
Break(c, e)  == LoseAnswer(c, e) \/ LoseRequest(c, e)
Collect(c)   == Uploaded(c) \/ Succeed(c) \/ Fail(c)

Next ==
    \/ \E c \in Client : Command(c) \/ Collect(c)
    \/ \E c \in Client, e \in Endpoint : Handle(c, e) \/ Break(c, e)
    \/ ArriveLate

Spec == Init /\ [][Next]_vars

(***************************************************************************)
(* Somebody who wants an application deployed: remove what a failed        *)
(* attempt left, whatever remove answers, and deploy again.  Endpoints     *)
(* answer sooner or later and break off only MaxFaults times; the client   *)
(* itself sets no timeout.                                                 *)
(***************************************************************************)
Persist(c, name, digest) ==
    \/ /\ job[c].op \in {"none", "remove"}
       /\ Deploy(c, name, digest, "file", FALSE)
    \/ /\ stage[c] = "failed" /\ job[c].op = "deploy"
       /\ Remove(c, name)

PersistAny(c) == \E name \in Name, digest \in Digest : Persist(c, name, digest)

RetryNext ==
    \/ \E c \in Client : PersistAny(c) \/ Collect(c)
    \/ \E c \in Client, e \in Endpoint : Handle(c, e) \/ Break(c, e)
    \/ ArriveLate

RetrySpec ==
    /\ Init /\ [][RetryNext]_vars
    /\ \A c \in Client : WF_vars(PersistAny(c)) /\ WF_vars(Collect(c))
    /\ \A c \in Client, e \in Endpoint : WF_vars(Handle(c, e))

(***************************************************************************)
(* Correctness                                                             *)
(***************************************************************************)
\* As long as commands come one after the other and none has failed: between
\* commands the endpoints run the same applications, made from the same
\* components and triggered equally often, and the latest command has done what
\* it says.  Whatever sets the operators apart has been reported to somebody.
EndpointsDoAsTold ==
    ~trouble /\ (\A c \in Client : ~Under(c)) =>
        /\ \A e, f \in Endpoint : apps[e] = apps[f]
        /\ stage[latest] = "succeeded" =>
              LET told == job[latest] IN
              \A e \in Endpoint :
                 CASE told.op = "deploy" -> /\ told.name \in DOMAIN apps[e]
                                            /\ apps[e][told.name] = NewApp(latest, told)
                   [] told.op = "remove" -> told.name \notin DOMAIN apps[e]
                   [] told.op = "test"   -> apps[e][told.name].runs > 0

\* Several people, one name space: a deployment that succeeded is the one that
\* runs under its name at every endpoint, until somebody removes that name.
\* Of two deployments of one name at most one succeeds.
WinnerRunsEverywhere ==
    \A c \in Client :
        stage[c] = "succeeded" /\ job[c].op = "deploy" /\ job[c].name \notin withdrawn
            => \A e \in Endpoint :
                  /\ job[c].name \in DOMAIN apps[e]
                  /\ apps[e][job[c].name].owner = c
                  /\ apps[e][job[c].name].digest = job[c].digest

\* A deployment that failed half way is not lost: removing and deploying again
\* gets there in the end, although the endpoints it reached refuse the name,
\* although remove may answer with an error where there is nothing to remove,
\* and although requests given up on may still arrive.
RetrySucceeds ==
    \A c \in Client : <>(stage[c] = "succeeded" /\ job[c].op = "deploy")
=============================================================================
