----------------------- MODULE WasmaticClient_proofs -----------------------
(***************************************************************************)
(* Theorems about the wasmatic commands, for any number of clients,        *)
(* endpoints and names, and any number of commands, broken connections and *)
(* requests that arrive late.                                              *)
(***************************************************************************)
EXTENDS WasmaticClient, TLAPS

(***************************************************************************)
(* Types                                                                   *)
(***************************************************************************)
App == [digest : Digest, owner : Client, testable : BOOLEAN, runs : Nat]

AppMap(m) == \A n \in DOMAIN m : m[n] \in App

DeployJobs == [op : {"deploy"}, name : Name, digest : Digest,
               source : {"file", "url"}, testable : BOOLEAN]

\* A request belongs to a command of its kind, and who has asked to remove a
\* name has made that known.
Fits(st, j) ==
    /\ st \in {"uploading", "enabling"} => j \in DeployJobs
    /\ st = "deleting" => j.op = "remove" /\ j.name \in withdrawn
    /\ st = "testing" => j.op = "test"

Types ==
    /\ DOMAIN apps = Endpoint
    /\ \A e \in Endpoint : AppMap(apps[e])
    /\ DOMAIN job = Client
    /\ DOMAIN stage = Client
    /\ DOMAIN answer = Client
    /\ answer = [c \in Client |-> answer[c]]
    /\ \A c \in Client : DOMAIN answer[c] = Endpoint

Requests ==
    /\ \A c \in Client : Under(c) => Fits(stage[c], job[c])
    /\ \A r \in late : r.to \in Endpoint /\ r.from \in Client /\ Fits(r.stage, r.job)

(***************************************************************************)
(* The invariants                                                          *)
(***************************************************************************)
\* c's application runs at e under the name of c's job.
RunsAt(c, e) ==
    /\ job[c].name \in DOMAIN apps[e]
    /\ apps[e][job[c].name].owner = c
    /\ apps[e][job[c].name].digest = job[c].digest

\* Where an endpoint has enabled it, it runs until somebody removes the name.
Enabled ==
    \A c \in Client, e \in Endpoint :
        job[c].op = "deploy" /\ job[c].name \notin withdrawn
        /\ (stage[c] = "succeeded" \/ (stage[c] = "enabling" /\ answer[c][e] = "ok"))
            => RunsAt(c, e)

WinnerInv == Types /\ Requests /\ Enabled

\* What a request makes of an endpoint's applications
Effect(m, st, c, j) ==
    CASE st = "enabling" -> Save(m, j.name, NewApp(c, j))
      [] st = "deleting" -> Without(m, j.name)
      [] st = "testing"  -> Save(m, j.name, Triggered(m[j.name]))
      [] OTHER           -> m

\* The endpoint's applications m are as c's job says.
AsTold(m, c, j) ==
    CASE j.op = "deploy" -> j.name \in DOMAIN m /\ m[j.name] = NewApp(c, j)
      [] j.op = "remove" -> j.name \notin DOMAIN m
      [] j.op = "test"   -> m[j.name].runs > 0

\* c's request has got this far: where it is answered, the endpoint has done
\* what it says; everywhere else the applications are the ones from before.
Begun(c, base) ==
    \A e \in Endpoint :
        IF Under(c) /\ answer[c][e] = "ok"
        THEN /\ apps[e] = Effect(base, stage[c], c, job[c])
             /\ stage[c] # "uploading" => AsTold(apps[e], c, job[c])
        ELSE apps[e] = base

InStep ==
    /\ late = {}
    /\ \E base : Begun(latest, base)
    /\ stage[latest] = "succeeded" => \A e \in Endpoint : AsTold(apps[e], latest, job[latest])

Reported == Under(latest) /\ \E e \in Endpoint : answer[latest][e] = "error"

ToldInv ==
    /\ latest \in Client
    /\ ~trouble =>
          /\ \A c \in Client : Under(c) => c = latest
          /\ Reported \/ InStep

(***************************************************************************)
(* What an endpoint does with a request                                    *)
(***************************************************************************)
\* A deployment that is not refused finds its name free, a test finds its
\* application.
Free(m, st, j) ==
    /\ st = "enabling" => j.name \notin DOMAIN m
    /\ st = "testing" => j.name \in DOMAIN m

LEMMA EffectOnMap ==
    ASSUME NEW m, AppMap(m), NEW c \in Client, NEW st, NEW j,
           Fits(st, j), Free(m, st, j)
    PROVE  /\ AppMap(Effect(m, st, c, j))
           /\ st \in {"enabling", "deleting", "testing"} => AsTold(Effect(m, st, c, j), c, j)
           /\ \A n \in DOMAIN m \ withdrawn :
                 /\ n \in DOMAIN Effect(m, st, c, j)
                 /\ Effect(m, st, c, j)[n].owner = m[n].owner
                 /\ Effect(m, st, c, j)[n].digest = m[n].digest
<1>1. CASE st = "enabling"
  <2>1. j \in DeployJobs /\ j.op = "deploy" /\ NewApp(c, j) \in App
    BY <1>1 DEF Fits, DeployJobs, NewApp, App
  <2> DEFINE new == NewApp(c, j)
  <2>2. Effect(m, st, c, j) = [k \in DOMAIN m \cup {j.name} |-> IF k = j.name THEN new ELSE m[k]]
    BY <1>1 DEF Effect, Save
  <2>3. j.name \notin DOMAIN m
    BY <1>1 DEF Free
  <2>4. new \in App
    BY <2>1
  <2>5. AsTold(Effect(m, st, c, j), c, j)
    BY <2>1, <2>2 DEF AsTold
  <2> HIDE DEF new
  <2> QED BY <2>2, <2>3, <2>4, <2>5 DEF AppMap
<1>2. CASE st = "deleting"
  <2>1. j.op = "remove" /\ j.name \in withdrawn
    BY <1>2 DEF Fits
  <2>2. Effect(m, st, c, j) = [k \in DOMAIN m \ {j.name} |-> m[k]]
    BY <1>2 DEF Effect, Without
  <2> QED BY <2>1, <2>2 DEF AppMap, AsTold
<1>3. CASE st = "testing"
  <2>1. j.op = "test" /\ j.name \in DOMAIN m
    BY <1>3 DEF Fits, Free
  <2> DEFINE old == m[j.name]
             new == Triggered(old)
  <2>2. old \in App
    BY <2>1 DEF AppMap
  <2>3. new \in App /\ new.runs > 0 /\ new.owner = old.owner /\ new.digest = old.digest
    BY <2>2 DEF App, Triggered
  <2>4. Effect(m, st, c, j) = [k \in DOMAIN m \cup {j.name} |-> IF k = j.name THEN new ELSE m[k]]
    BY <1>3 DEF Effect, Save
  <2> HIDE DEF new
  <2> QED BY <2>1, <2>3, <2>4 DEF AppMap, AsTold
<1>4. CASE st \notin {"enabling", "deleting", "testing"}
  BY <1>4 DEF Effect
<1> QED BY <1>1, <1>2, <1>3, <1>4

\* An endpoint that acts changes its own applications only, and as the
\* request says.
LEMMA ActsAre ==
    ASSUME Types, NEW e \in Endpoint, NEW st, NEW c \in Client, NEW j,
           ~Refuses(e, st, j), Acts(e, st, c, j)
    PROVE  /\ DOMAIN apps' = Endpoint
           /\ apps'[e] = Effect(apps[e], st, c, j)
           /\ \A f \in Endpoint : f # e => apps'[f] = apps[f]
           /\ Free(apps[e], st, j)
<1>1. Free(apps[e], st, j)
  BY DEF Free, Refuses
<1>2. CASE st = "uploading"
  BY <1>1, <1>2 DEF Acts, Effect, Types
<1>3. CASE st = "enabling"
  BY <1>1, <1>3 DEF Acts, Effect, Types
<1>4. CASE st = "deleting"
  BY <1>1, <1>4 DEF Acts, Effect, Types
<1>5. CASE st = "testing"
  BY <1>1, <1>5 DEF Acts, Effect, Types
<1> QED BY <1>2, <1>3, <1>4, <1>5 DEF Acts

\* Whatever an endpoint does, its applications keep their shape, and what
\* nobody has asked to remove keeps its owner and its component.
LEMMA ActsKeep ==
    ASSUME Types, NEW e \in Endpoint, NEW st, NEW c \in Client, NEW j,
           Fits(st, j), ~Refuses(e, st, j), Acts(e, st, c, j)
    PROVE  /\ DOMAIN apps' = Endpoint
           /\ \A f \in Endpoint : AppMap(apps'[f])
           /\ \A f \in Endpoint : \A n \in DOMAIN apps[f] \ withdrawn :
                 /\ n \in DOMAIN apps'[f]
                 /\ apps'[f][n].owner = apps[f][n].owner
                 /\ apps'[f][n].digest = apps[f][n].digest
<1>1. AppMap(apps[e])
  BY DEF Types
<1>2. /\ DOMAIN apps' = Endpoint
      /\ apps'[e] = Effect(apps[e], st, c, j)
      /\ \A f \in Endpoint : f # e => apps'[f] = apps[f]
      /\ Free(apps[e], st, j)
  BY ActsAre
<1>3. /\ AppMap(Effect(apps[e], st, c, j))
      /\ \A n \in DOMAIN apps[e] \ withdrawn :
            /\ n \in DOMAIN Effect(apps[e], st, c, j)
            /\ Effect(apps[e], st, c, j)[n].owner = apps[e][n].owner
            /\ Effect(apps[e], st, c, j)[n].digest = apps[e][n].digest
  BY <1>1, <1>2, EffectOnMap
<1> HIDE DEF Effect
<1>4. ASSUME NEW f \in Endpoint
      PROVE  /\ AppMap(apps'[f])
             /\ \A n \in DOMAIN apps[f] \ withdrawn :
                   /\ n \in DOMAIN apps'[f]
                   /\ apps'[f][n].owner = apps[f][n].owner
                   /\ apps'[f][n].digest = apps[f][n].digest
  <2>1. CASE f = e
    BY <1>2, <1>3, <2>1
  <2>2. CASE f # e
    BY <1>2, <2>2 DEF Types
  <2> QED BY <2>1, <2>2
<1> QED BY <1>2, <1>4

(***************************************************************************)
(* Types, requests and winners                                             *)
(***************************************************************************)
\* An endpoint acts on a request: what was enabled stays so.
LEMMA ActsKeepEnabled ==
    ASSUME WinnerInv, NEW e \in Endpoint, NEW st, NEW d \in Client, NEW j,
           Fits(st, j), ~Refuses(e, st, j), Acts(e, st, d, j),
           UNCHANGED <<job, withdrawn>>
    PROVE  /\ DOMAIN apps' = Endpoint /\ \A f \in Endpoint : AppMap(apps'[f])
           /\ \A c \in Client, f \in Endpoint :
                 RunsAt(c, f) /\ job[c].name \notin withdrawn => RunsAt(c, f)'
BY ActsKeep DEF WinnerInv, RunsAt

\* The request under way is the one that fits.
LEMMA UnderFits ==
    ASSUME WinnerInv, NEW c \in Client, Under(c)
    PROVE  Fits(stage[c], job[c])
BY DEF WinnerInv, Requests

LEMMA InitWinner == Init => WinnerInv
BY DEF Init, WinnerInv, Types, Requests, Enabled, AppMap, EmptyApps, EmptyMap, Under, NoJob

\* A command is refused at once, or what it sends first fits it and no endpoint
\* has answered yet.
Asked(st, j, answers, names) ==
    /\ DOMAIN answers = Endpoint
    /\ st \in {"uploading", "enabling", "deleting", "testing", "refused"}
    /\ st \in {"uploading", "enabling"} => j \in DeployJobs
    /\ st = "deleting" => j.op = "remove" /\ j.name \in names
    /\ st = "testing" => j.op = "test"
    /\ st = "enabling" => \A e \in Endpoint : answers[e] = "waiting"

LEMMA AskWinner ==
    ASSUME WinnerInv, NEW c \in Client, NEW j, Give(c, j), NEW st, NEW answers,
           stage' = [stage EXCEPT ![c] = st],
           answer' = [answer EXCEPT ![c] = answers],
           withdrawn \subseteq withdrawn',
           Asked(st, j, answers, withdrawn')
    PROVE  WinnerInv'
<1>0. /\ DOMAIN answers = Endpoint
      /\ st \in {"uploading", "enabling", "deleting", "testing", "refused"}
      /\ st \in {"uploading", "enabling"} => j \in DeployJobs
      /\ st = "deleting" => j.op = "remove" /\ j.name \in withdrawn'
      /\ st = "testing" => j.op = "test"
      /\ st = "enabling" => \A e \in Endpoint : answers[e] = "waiting"
  BY DEF Asked
<1>1. UNCHANGED <<binaries, apps, late>> /\ job' = [job EXCEPT ![c] = j]
  BY DEF Give, endpoints
<1>2. /\ DOMAIN job' = Client /\ DOMAIN stage' = Client /\ DOMAIN answer' = Client
      /\ answer' = [d \in Client |-> answer'[d]]
      /\ job'[c] = j /\ stage'[c] = st /\ answer'[c] = answers
      /\ \A d \in Client : d # c => /\ job'[d] = job[d] /\ stage'[d] = stage[d]
                                    /\ answer'[d] = answer[d]
  BY <1>1 DEF WinnerInv, Types
<1>3. Types'
  BY <1>0, <1>1, <1>2 DEF WinnerInv, Types
<1>4. Requests'
  <2>1. ASSUME NEW d \in Client, Under(d)' PROVE Fits(stage[d], job[d])'
    <3>1. CASE d = c
      BY <1>0, <1>2, <3>1 DEF Fits
    <3>2. CASE d # c
      <4>1. Under(d) /\ stage'[d] = stage[d] /\ job'[d] = job[d]
        BY <1>2, <2>1, <3>2 DEF Under
      <4>2. Fits(stage[d], job[d])
        BY <4>1 DEF WinnerInv, Requests
      <4> QED BY <4>1, <4>2 DEF Fits
    <3> QED BY <3>1, <3>2
  <2>2. ASSUME NEW r \in late'
        PROVE  r.to \in Endpoint /\ r.from \in Client /\ Fits(r.stage, r.job)'
    <3>1. r.to \in Endpoint /\ r.from \in Client /\ Fits(r.stage, r.job)
      BY <1>1 DEF WinnerInv, Requests
    <3> QED BY <3>1 DEF Fits
  <2> QED BY <2>1, <2>2 DEF Requests
<1>5. Enabled'
  <2> SUFFICES ASSUME NEW d \in Client, NEW e \in Endpoint,
                      job'[d].op = "deploy", job'[d].name \notin withdrawn',
                      stage'[d] = "succeeded" \/ (stage'[d] = "enabling" /\ answer'[d][e] = "ok")
               PROVE  RunsAt(d, e)'
    BY DEF Enabled
  <2>1. d # c
    BY <1>0, <1>2
  <2>2. RunsAt(d, e)
    BY <1>2, <2>1 DEF WinnerInv, Enabled
  <2> QED BY <1>0, <1>1, <1>2, <2>1, <2>2 DEF RunsAt
<1> QED BY <1>3, <1>4, <1>5 DEF WinnerInv

LEMMA CommandWinner ==
    ASSUME WinnerInv, NEW c \in Client, Command(c)
    PROVE  WinnerInv'
<1> DEFINE nobody == [e \in Endpoint |-> "waiting"]
<1>0. /\ DOMAIN nobody = Endpoint /\ \A e \in Endpoint : nobody[e] = "waiting"
      /\ DOMAIN answer[c] = Endpoint
      /\ answer = [answer EXCEPT ![c] = answer[c]]
  BY DEF WinnerInv, Types
<1>1. ASSUME NEW name \in Name, NEW digest \in Digest, NEW source \in {"file", "url"},
             NEW testable \in BOOLEAN, Deploy(c, name, digest, source, testable)
      PROVE  WinnerInv'
  <2> DEFINE j == DeployJob(name, digest, source, testable)
             st == IF source = "file" THEN "uploading" ELSE "enabling"
  <2>1. j \in DeployJobs /\ st \in {"uploading", "enabling"}
    BY DEF DeployJob, DeployJobs
  <2>2. /\ Give(c, j) /\ stage' = [stage EXCEPT ![c] = st]
        /\ answer' = [answer EXCEPT ![c] = nobody] /\ withdrawn \subseteq withdrawn'
    BY <1>1 DEF Deploy, Ask
  <2>3. Asked(st, j, nobody, withdrawn')
    BY <1>0, <2>1, <2>2 DEF Asked
  <2> HIDE DEF j, st, nobody
  <2> QED BY <2>1, <2>2, <2>3, AskWinner
<1>2. ASSUME NEW name \in Name, Remove(c, name)
      PROVE  WinnerInv'
  <2> DEFINE j == [op |-> "remove", name |-> name]
             st == "deleting"
  <2>1. /\ Give(c, j) /\ stage' = [stage EXCEPT ![c] = st] /\ st = "deleting"
        /\ answer' = [answer EXCEPT ![c] = nobody] /\ withdrawn \subseteq withdrawn'
        /\ j.op = "remove" /\ j.name \in withdrawn'
    BY <1>2 DEF Remove, Ask
  <2>3. Asked(st, j, nobody, withdrawn')
    BY <1>0, <2>1 DEF Asked
  <2> HIDE DEF j, st, nobody
  <2> QED BY <2>1, <2>3, AskWinner
<1>3. ASSUME NEW name \in Name, DeployRefused(c, name)
      PROVE  WinnerInv'
  <2> DEFINE j == [op |-> "deploy", name |-> name]
             st == "refused"
  <2>1. /\ Give(c, j) /\ stage' = [stage EXCEPT ![c] = st] /\ st = "refused"
        /\ answer' = [answer EXCEPT ![c] = answer[c]] /\ withdrawn \subseteq withdrawn'
    BY <1>0, <1>3 DEF DeployRefused
  <2>3. Asked(st, j, answer[c], withdrawn')
    BY <1>0, <2>1 DEF Asked
  <2> HIDE DEF j, st
  <2> QED BY <2>1, <2>3, AskWinner
<1>4. ASSUME NEW name \in Name, NEW input \in Input, Test(c, name, input)
      PROVE  WinnerInv'
  <2> DEFINE j == [op |-> "test", name |-> name, input |-> input]
             st == "testing"
  <2>1. /\ Give(c, j) /\ stage' = [stage EXCEPT ![c] = st] /\ st = "testing" /\ j.op = "test"
        /\ answer' = [answer EXCEPT ![c] = nobody] /\ withdrawn \subseteq withdrawn'
    BY <1>4 DEF Test, Ask
  <2>3. Asked(st, j, nobody, withdrawn')
    BY <1>0, <2>1 DEF Asked
  <2> HIDE DEF j, st, nobody
  <2> QED BY <2>1, <2>3, AskWinner
<1>5. ASSUME NEW name \in Name, NEW input \in Input, TestRefused(c, name, input)
      PROVE  WinnerInv'
  <2> DEFINE j == [op |-> "test", name |-> name, input |-> input]
             st == "refused"
  <2>1. /\ Give(c, j) /\ stage' = [stage EXCEPT ![c] = st] /\ st = "refused"
        /\ answer' = [answer EXCEPT ![c] = answer[c]] /\ withdrawn \subseteq withdrawn'
    BY <1>0, <1>5 DEF TestRefused
  <2>3. Asked(st, j, answer[c], withdrawn')
    BY <1>0, <2>1 DEF Asked
  <2> HIDE DEF j, st
  <2> QED BY <2>1, <2>3, AskWinner
<1> QED BY <1>1, <1>2, <1>3, <1>4, <1>5 DEF Command

\* An answer is noted for one endpoint of one client.
LEMMA Answered ==
    ASSUME Types, NEW c \in Client, NEW e \in Endpoint, NEW a, Answer(c, e, a)
    PROVE  /\ DOMAIN answer' = Client /\ answer' = [d \in Client |-> answer'[d]]
           /\ \A d \in Client : DOMAIN answer'[d] = Endpoint
           /\ answer'[c][e] = a
           /\ \A d \in Client, f \in Endpoint :
                 d # c \/ f # e => answer'[d][f] = answer[d][f]
BY DEF Types, Answer

LEMMA ServeWinner ==
    ASSUME WinnerInv, NEW c \in Client, NEW e \in Endpoint, Serve(c, e)
    PROVE  WinnerInv'
<1>1. /\ Under(c) /\ ~Refuses(e, stage[c], job[c]) /\ Acts(e, stage[c], c, job[c])
      /\ Answer(c, e, "ok") /\ UNCHANGED <<late, job, stage, withdrawn>>
      /\ Fits(stage[c], job[c])
  BY UnderFits DEF Serve, Waiting, past
<1>2. /\ DOMAIN answer' = Client /\ answer' = [d \in Client |-> answer'[d]]
      /\ \A d \in Client : DOMAIN answer'[d] = Endpoint
      /\ \A d \in Client, f \in Endpoint :
            d # c \/ f # e => answer'[d][f] = answer[d][f]
  BY <1>1, Answered DEF WinnerInv
<1>3. /\ DOMAIN apps' = Endpoint /\ \A f \in Endpoint : AppMap(apps'[f])
      /\ \A d \in Client, f \in Endpoint :
            RunsAt(d, f) /\ job[d].name \notin withdrawn => RunsAt(d, f)'
  BY <1>1, ActsKeepEnabled
<1>4. stage[c] = "enabling" => RunsAt(c, e)'
  <2> SUFFICES ASSUME stage[c] = "enabling" PROVE RunsAt(c, e)'
    OBVIOUS
  <2>1. apps'[e] = Effect(apps[e], stage[c], c, job[c])
    BY <1>1, ActsAre DEF WinnerInv
  <2> QED BY <1>1, <2>1 DEF RunsAt, Effect, Save, NewApp
<1>5. Types'
  BY <1>1, <1>2, <1>3 DEF WinnerInv, Types
<1>6. Requests'
  BY <1>1 DEF WinnerInv, Requests, Under, Fits
<1>7. Enabled'
  <2> SUFFICES ASSUME NEW d \in Client, NEW f \in Endpoint,
                      job[d].op = "deploy", job[d].name \notin withdrawn,
                      stage[d] = "succeeded" \/ (stage[d] = "enabling" /\ answer'[d][f] = "ok")
               PROVE  RunsAt(d, f)'
    BY <1>1 DEF Enabled
  <2>1. CASE d = c /\ f = e
    BY <1>1, <1>4, <2>1 DEF Under
  <2>2. CASE d # c \/ f # e
    <3>1. RunsAt(d, f)
      BY <1>2, <2>2 DEF WinnerInv, Enabled
    <3> QED BY <1>3, <3>1
  <2> QED BY <2>1, <2>2
<1> QED BY <1>5, <1>6, <1>7 DEF WinnerInv

\* An endpoint acts and nobody is told that it did.
LEMMA UntoldWinner ==
    ASSUME WinnerInv, NEW e \in Endpoint, NEW st, NEW d \in Client, NEW j,
           Fits(st, j),
           UNCHANGED endpoints \/ (~Refuses(e, st, j) /\ Acts(e, st, d, j)),
           UNCHANGED <<job, stage, withdrawn>>,
           DOMAIN answer' = Client, answer' = [c \in Client |-> answer'[c]],
           \A c \in Client : DOMAIN answer'[c] = Endpoint,
           \A c \in Client, f \in Endpoint : answer'[c][f] = "ok" => answer[c][f] = "ok",
           \A r \in late' : r \in late \/ (r.to \in Endpoint /\ r.from \in Client /\ Fits(r.stage, r.job))
    PROVE  WinnerInv'
<1>1. /\ DOMAIN apps' = Endpoint /\ \A f \in Endpoint : AppMap(apps'[f])
      /\ \A c \in Client, f \in Endpoint :
            RunsAt(c, f) /\ job[c].name \notin withdrawn => RunsAt(c, f)'
  <2>1. CASE UNCHANGED endpoints
    BY <2>1 DEF endpoints, WinnerInv, Types, RunsAt
  <2>2. CASE ~Refuses(e, st, j) /\ Acts(e, st, d, j)
    BY <2>2, ActsKeepEnabled
  <2> QED BY <2>1, <2>2
<1>2. Types'
  BY <1>1 DEF WinnerInv, Types
<1>3. Requests'
  BY DEF WinnerInv, Requests, Under, Fits
<1>4. Enabled'
  <2> SUFFICES ASSUME NEW c \in Client, NEW f \in Endpoint,
                      job[c].op = "deploy", job[c].name \notin withdrawn,
                      stage[c] = "succeeded" \/ (stage[c] = "enabling" /\ answer'[c][f] = "ok")
               PROVE  RunsAt(c, f)'
    BY DEF Enabled
  <2>1. RunsAt(c, f)
    BY DEF WinnerInv, Enabled
  <2> QED BY <1>1, <2>1
<1> QED BY <1>2, <1>3, <1>4 DEF WinnerInv

LEMMA CollectWinner ==
    ASSUME WinnerInv, NEW c \in Client, Collect(c)
    PROVE  WinnerInv'
<1>1. UNCHANGED <<apps, late, job, withdrawn>>
  BY DEF Collect, Uploaded, Succeed, Fail, endpoints, past
<1>2. CASE Uploaded(c)
  <2>1. /\ stage' = [stage EXCEPT ![c] = "enabling"] /\ stage[c] = "uploading"
        /\ answer' = [answer EXCEPT ![c] = [e \in Endpoint |-> "waiting"]]
    BY <1>2 DEF Uploaded, Ask
  <2>2. Types' /\ Requests'
    BY <1>1, <2>1 DEF WinnerInv, Types, Requests, Under, Fits
  <2>3. Enabled'
    BY <1>1, <2>1 DEF WinnerInv, Types, Enabled, RunsAt
  <2> QED BY <2>2, <2>3 DEF WinnerInv
<1>3. CASE Succeed(c)
  <2>1. /\ Under(c) /\ stage[c] # "uploading" /\ stage' = [stage EXCEPT ![c] = "succeeded"]
        /\ \A e \in Endpoint : answer[c][e] = "ok"
        /\ answer' = answer
    BY <1>3 DEF Succeed, AllOk
  <2>2. Types' /\ Requests'
    BY <1>1, <2>1 DEF WinnerInv, Types, Requests, Under, Fits
  <2>3. job[c].op = "deploy" => stage[c] = "enabling"
    BY <2>1, UnderFits DEF Under, Fits
  <2>4. Enabled'
    BY <1>1, <2>1, <2>3 DEF WinnerInv, Types, Enabled, RunsAt
  <2> QED BY <2>2, <2>4 DEF WinnerInv
<1>4. CASE Fail(c)
  <2>1. stage' = [stage EXCEPT ![c] = "failed"] /\ answer' = answer
    BY <1>4 DEF Fail
  <2>2. Types' /\ Requests'
    BY <1>1, <2>1 DEF WinnerInv, Types, Requests, Under, Fits
  <2>3. Enabled'
    BY <1>1, <2>1 DEF WinnerInv, Types, Enabled, RunsAt
  <2> QED BY <2>2, <2>3 DEF WinnerInv
<1> QED BY <1>2, <1>3, <1>4 DEF Collect

LEMMA NextWinner == WinnerInv /\ [Next]_vars => WinnerInv'
<1> SUFFICES ASSUME WinnerInv, [Next]_vars PROVE WinnerInv'
  OBVIOUS
<1>1. ASSUME NEW c \in Client, Command(c) \/ Collect(c) PROVE WinnerInv'
  BY <1>1, CommandWinner, CollectWinner
<1>2. ASSUME NEW c \in Client, NEW e \in Endpoint, Serve(c, e) PROVE WinnerInv'
  BY <1>2, ServeWinner
<1>3. ASSUME NEW c \in Client, NEW e \in Endpoint, Refuse(c, e) \/ Break(c, e)
      PROVE  WinnerInv'
  <2>1. /\ Under(c) /\ Answer(c, e, "error") /\ UNCHANGED <<job, stage, withdrawn>>
        /\ UNCHANGED endpoints
           \/ (~Refuses(e, stage[c], job[c]) /\ Acts(e, stage[c], c, job[c]))
        /\ \A r \in late' : r \in late
              \/ r = [to |-> e, stage |-> stage[c], from |-> c, job |-> job[c]]
    <3>1. CASE Refuse(c, e)
      BY <3>1 DEF Refuse, Waiting, past
    <3>2. CASE LoseAnswer(c, e)
      BY <3>2 DEF LoseAnswer, Waiting, past
    <3>3. CASE LoseRequest(c, e)
      BY <3>3 DEF LoseRequest, Waiting, past
    <3> QED BY <1>3, <3>1, <3>2, <3>3 DEF Break
  <2>2. Fits(stage[c], job[c])
    BY <2>1, UnderFits
  <2>3. /\ DOMAIN answer' = Client /\ answer' = [d \in Client |-> answer'[d]]
        /\ \A d \in Client : DOMAIN answer'[d] = Endpoint
        /\ \A d \in Client, f \in Endpoint : answer'[d][f] = "ok" => answer[d][f] = "ok"
    BY <2>1, Answered DEF WinnerInv
  <2>4. \A r \in late' :
          r \in late \/ (r.to \in Endpoint /\ r.from \in Client /\ Fits(r.stage, r.job))
    BY <2>1, <2>2
  <2> QED BY <2>1, <2>2, <2>3, <2>4, UntoldWinner
<1>4. CASE ArriveLate
  <2>1. PICK r \in late :
          /\ late' = late \ {r}
          /\ IF Refuses(r.to, r.stage, r.job) THEN UNCHANGED endpoints
             ELSE Acts(r.to, r.stage, r.from, r.job)
          /\ UNCHANGED <<job, stage, answer, withdrawn>>
    BY <1>4 DEF ArriveLate, past
  <2>2. r.to \in Endpoint /\ r.from \in Client /\ Fits(r.stage, r.job)
    BY DEF WinnerInv, Requests
  <2>3. /\ DOMAIN answer' = Client /\ answer' = [d \in Client |-> answer'[d]]
        /\ \A d \in Client : DOMAIN answer'[d] = Endpoint
    BY <2>1 DEF WinnerInv, Types
  <2>4. \A s \in late' : s \in late
    BY <2>1
  <2> QED BY <2>1, <2>2, <2>3, <2>4, UntoldWinner
<1>5. CASE UNCHANGED vars
  BY <1>5 DEF vars, WinnerInv, Types, Requests, Enabled, RunsAt, Under, Fits
<1> QED BY <1>1, <1>2, <1>3, <1>4, <1>5 DEF Next, Handle

\* A deployment that succeeded runs under its name at every endpoint until
\* somebody asks to remove the name, whatever anybody else deploys, however
\* connections break and whenever late requests arrive.
THEOREM WinnerRuns == Spec => []WinnerRunsEverywhere
<1>1. WinnerInv => WinnerRunsEverywhere
  BY DEF WinnerInv, Enabled, RunsAt, WinnerRunsEverywhere
<1> QED BY <1>1, InitWinner, NextWinner, PTL DEF Spec

(***************************************************************************)
(* One command after the other                                             *)
(***************************************************************************)
LEMMA InitTold == Init => ToldInv
<1> SUFFICES ASSUME Init PROVE ToldInv
  OBVIOUS
<1>1. /\ \A c \in Client : ~Under(c)
      /\ late = {} /\ latest \in Client /\ stage[latest] = "idle"
      /\ \A e \in Endpoint : apps[e] = EmptyMap
  BY DEF Init, Under, EmptyApps
<1>2. Begun(latest, EmptyMap)
  BY <1>1 DEF Begun
<1> QED BY <1>1, <1>2 DEF ToldInv, InStep

\* A command is given: either somebody else's is under way, or the endpoints
\* agree.
LEMMA GiveTold ==
    ASSUME WinnerInv, ToldInv, NEW c \in Client, NEW j, Give(c, j), NEW st, NEW answers,
           stage' = [stage EXCEPT ![c] = st],
           answer' = [answer EXCEPT ![c] = answers],
           st = "refused" \/ \A e \in Endpoint : answers[e] = "waiting",
           st \in {"uploading", "enabling", "deleting", "testing", "refused"}
    PROVE  ToldInv'
<1> SUFFICES ASSUME ~trouble' PROVE /\ \A d \in Client : Under(d)' => d = c
                                    /\ InStep'
  BY DEF ToldInv, Give
<1>1. /\ ~trouble /\ (\A d \in Client : ~Under(d)) /\ latest' = c
      /\ UNCHANGED <<apps, late>>
  BY DEF Give, endpoints
<1>2. \A d \in Client : d # c => stage'[d] = stage[d]
  BY DEF WinnerInv, Types
<1>3. stage'[c] = st /\ answer'[c] = answers
  BY DEF WinnerInv, Types
<1>4. \A d \in Client : Under(d)' => d = c
  BY <1>1, <1>2 DEF Under
<1>6. ~Under(latest)
  BY <1>1 DEF ToldInv
<1>7. InStep
  BY <1>1, <1>6 DEF ToldInv, Reported
<1>8. PICK base : \A e \in Endpoint : apps[e] = base
  BY <1>6, <1>7 DEF InStep, Begun
<1>9. Begun(c, base)'
  BY <1>1, <1>3, <1>8 DEF Begun, Under
<1> QED BY <1>1, <1>3, <1>4, <1>7, <1>9 DEF InStep

LEMMA CommandTold ==
    ASSUME WinnerInv, ToldInv, NEW c \in Client, Command(c)
    PROVE  ToldInv'
<1> DEFINE nobody == [e \in Endpoint |-> "waiting"]
<1>0. /\ \A e \in Endpoint : nobody[e] = "waiting"
      /\ answer = [answer EXCEPT ![c] = answer[c]]
  BY DEF WinnerInv, Types
<1>1. PICK j, st, answers :
        /\ Give(c, j)
        /\ stage' = [stage EXCEPT ![c] = st]
        /\ answer' = [answer EXCEPT ![c] = answers]
        /\ st = "refused" \/ answers = nobody
        /\ st \in {"uploading", "enabling", "deleting", "testing", "refused"}
  <2>1. CASE \E name \in Name, digest \in Digest, source \in {"file", "url"},
                testable \in BOOLEAN : Deploy(c, name, digest, source, testable)
    BY <2>1 DEF Deploy, Ask
  <2>2. CASE \E name \in Name : Remove(c, name)
    BY <2>2 DEF Remove, Ask
  <2>3. CASE \E name \in Name : DeployRefused(c, name)
    BY <1>0, <2>3 DEF DeployRefused
  <2>4. CASE \E name \in Name, input \in Input : Test(c, name, input)
    BY <2>4 DEF Test, Ask
  <2>5. CASE \E name \in Name, input \in Input : TestRefused(c, name, input)
    BY <1>0, <2>5 DEF TestRefused
  <2> QED BY <2>1, <2>2, <2>3, <2>4, <2>5 DEF Command
<1>2. st = "refused" \/ \A e \in Endpoint : answers[e] = "waiting"
  BY <1>0, <1>1
<1> HIDE DEF nobody
<1> QED BY <1>1, <1>2, GiveTold

\* The latest command's request is answered well by e.
LEMMA ServeTold ==
    ASSUME WinnerInv, ToldInv, NEW c \in Client, NEW e \in Endpoint, Serve(c, e)
    PROVE  ToldInv'
<1> SUFFICES ASSUME ~trouble' PROVE /\ \A d \in Client : Under(d)' => d = c
                                    /\ latest' = c
                                    /\ Reported' \/ InStep'
  BY DEF ToldInv, Serve, past
<1>1. /\ Under(c) /\ answer[c][e] = "waiting"
      /\ ~Refuses(e, stage[c], job[c]) /\ Acts(e, stage[c], c, job[c])
      /\ Answer(c, e, "ok") /\ UNCHANGED <<late, job, stage, latest, trouble>>
      /\ Fits(stage[c], job[c])
  BY UnderFits DEF Serve, Waiting, past
<1>2. /\ latest = c /\ \A d \in Client : Under(d)' => d = c
  BY <1>1 DEF ToldInv, Under
<1>3. /\ answer'[c][e] = "ok"
      /\ \A f \in Endpoint : f # e => answer'[c][f] = answer[c][f]
  BY <1>1, Answered DEF WinnerInv
<1>4. CASE Reported
  BY <1>1, <1>2, <1>3, <1>4 DEF Reported, Under
<1>5. CASE InStep
  <2>1. PICK base : Begun(c, base)
    BY <1>2, <1>5 DEF InStep
  <2>2. apps[e] = base
    BY <1>1, <2>1 DEF Begun
  <2>3. /\ apps'[e] = Effect(base, stage[c], c, job[c])
        /\ \A f \in Endpoint : f # e => apps'[f] = apps[f]
        /\ Free(base, stage[c], job[c])
    BY <1>1, <2>2, ActsAre DEF WinnerInv
  <2>4. AppMap(base)
    BY <2>2 DEF WinnerInv, Types
  <2>5. stage[c] # "uploading" => AsTold(apps'[e], c, job[c])
    <3>1. stage[c] \in {"enabling", "deleting", "testing"} =>
              AsTold(Effect(base, stage[c], c, job[c]), c, job[c])
      BY <1>1, <2>3, <2>4, EffectOnMap
    <3> QED BY <1>1, <2>3, <3>1 DEF Under
  <2>6. ASSUME NEW f \in Endpoint, f # e
        PROVE  IF Under(c) /\ answer'[c][f] = "ok"
               THEN /\ apps'[f] = Effect(base, stage[c], c, job[c])
                    /\ stage[c] # "uploading" => AsTold(apps'[f], c, job[c])
               ELSE apps'[f] = base
    BY <1>3, <2>1, <2>3, <2>6 DEF Begun
  <2>7. \A f \in Endpoint :
            IF Under(c) /\ answer'[c][f] = "ok"
            THEN /\ apps'[f] = Effect(base, stage[c], c, job[c])
                 /\ stage[c] # "uploading" => AsTold(apps'[f], c, job[c])
            ELSE apps'[f] = base
    BY <1>1, <1>3, <2>3, <2>5, <2>6
  <2>8. stage'[c] # "succeeded" /\ late' = {}
    BY <1>1, <1>5 DEF Under, InStep
  <2>9. \E b : Begun(latest, b)'
    <3>1. UNCHANGED <<job, stage, latest>> /\ latest = c /\ (Under(c)' <=> Under(c))
      BY <1>1, <1>2 DEF Under
    <3> QED BY <2>7, <3>1 DEF Begun
  <2> QED BY <1>1, <1>2, <2>8, <2>9 DEF InStep
<1> QED BY <1>1, <1>2, <1>4, <1>5 DEF ToldInv, Under

\* It is answered with an error, or not at all: the command will fail.
LEMMA ErrorTold ==
    ASSUME WinnerInv, ToldInv, NEW c \in Client, NEW e \in Endpoint, Under(c),
           Answer(c, e, "error"), UNCHANGED <<stage, latest, trouble>>
    PROVE  ToldInv'
<1>1. answer'[c][e] = "error"
  BY Answered DEF WinnerInv
<1> QED BY <1>1 DEF ToldInv, Reported, Under

LEMMA LateTold ==
    ASSUME WinnerInv, ToldInv, ArriveLate
    PROVE  ToldInv'
<1>1. late # {} /\ UNCHANGED <<stage, answer, latest, trouble>>
  BY DEF ArriveLate, past
<1> QED BY <1>1 DEF ToldInv, InStep, Reported, Under

LEMMA CollectTold ==
    ASSUME WinnerInv, ToldInv, NEW c \in Client, Collect(c)
    PROVE  ToldInv'
<1>1. CASE Fail(c)
  BY <1>1 DEF Fail, ToldInv
<1>2. CASE trouble
  BY <1>2 DEF ToldInv, Collect, Uploaded, Succeed, Fail, past
<1>3. CASE ~trouble /\ (Uploaded(c) \/ Succeed(c))
  <2>1. /\ Under(c) /\ (\A e \in Endpoint : answer[c][e] = "ok")
        /\ UNCHANGED <<apps, late, job, latest, trouble>>
    BY <1>3 DEF Uploaded, Succeed, AllOk, Under, endpoints, past
  <2>2. latest = c /\ (\A d \in Client : Under(d) => d = c) /\ InStep
    BY <1>3, <2>1 DEF ToldInv, Reported
  <2>3. \A d \in Client : d # c => stage'[d] = stage[d]
    BY <1>3 DEF Uploaded, Succeed, Ask, WinnerInv, Types
  <2>4. \A d \in Client : Under(d)' => d = c
    BY <2>2, <2>3 DEF Under
  <2>5. PICK base : Begun(c, base)
    BY <2>2 DEF InStep
  <2>6. CASE Uploaded(c)
    <3>1. /\ stage[c] = "uploading" /\ stage'[c] = "enabling"
          /\ \A e \in Endpoint : answer'[c][e] = "waiting"
      BY <2>6 DEF Uploaded, Ask, WinnerInv, Types
    <3>2. \A e \in Endpoint : apps[e] = base
      BY <2>1, <2>5, <3>1 DEF Begun, Effect
    <3>3. Begun(c, base)'
      BY <2>1, <3>1, <3>2 DEF Begun
    <3> QED BY <2>1, <2>2, <2>4, <3>1, <3>3 DEF ToldInv, InStep
  <2>7. CASE Succeed(c)
    <3>1. stage[c] # "uploading" /\ stage'[c] = "succeeded"
      BY <2>7 DEF Succeed, WinnerInv, Types
    <3> DEFINE now == Effect(base, stage[c], c, job[c])
    <3>2. \A e \in Endpoint : apps[e] = now /\ AsTold(apps[e], c, job[c])
      BY <2>1, <2>5, <3>1 DEF Begun
    <3> HIDE DEF now
    <3>3. ~Under(c)' /\ latest' = c /\ job'[c] = job[c] /\ late' = {}
      BY <2>1, <2>2, <3>1 DEF Under, InStep
    <3>4. \E b : Begun(c, b)'
      BY <2>1, <3>2, <3>3 DEF Begun
    <3>5. InStep'
      BY <2>1, <2>2, <3>2, <3>3, <3>4 DEF InStep
    <3> QED BY <2>2, <2>4, <3>3, <3>5 DEF ToldInv
  <2> QED BY <1>3, <2>6, <2>7
<1> QED BY <1>1, <1>2, <1>3 DEF Collect

LEMMA NextTold == WinnerInv /\ ToldInv /\ [Next]_vars => ToldInv'
<1> SUFFICES ASSUME WinnerInv, ToldInv, [Next]_vars PROVE ToldInv'
  OBVIOUS
<1>1. ASSUME NEW c \in Client, Command(c) \/ Collect(c) PROVE ToldInv'
  BY <1>1, CommandTold, CollectTold
<1>2. ASSUME NEW c \in Client, NEW e \in Endpoint, Serve(c, e) PROVE ToldInv'
  BY <1>2, ServeTold
<1>3. ASSUME NEW c \in Client, NEW e \in Endpoint, Refuse(c, e) \/ Break(c, e)
      PROVE  ToldInv'
  <2>1. Under(c) /\ Answer(c, e, "error") /\ UNCHANGED <<stage, latest, trouble>>
    BY <1>3 DEF Refuse, Break, LoseAnswer, LoseRequest, Waiting, past
  <2> QED BY <2>1, ErrorTold
<1>4. CASE ArriveLate
  BY <1>4, LateTold
<1>5. CASE UNCHANGED vars
  BY <1>5 DEF vars, ToldInv, Reported, InStep, Begun, Under
<1> QED BY <1>1, <1>2, <1>3, <1>4, <1>5 DEF Next, Handle

\* As long as commands come one after the other and none has failed, the
\* endpoints run the same applications between commands and the latest command
\* has done what it says: whatever sets the operators apart has been reported.
THEOREM DoAsTold == Spec => []EndpointsDoAsTold
<1>1. WinnerInv /\ ToldInv => EndpointsDoAsTold
  <2> SUFFICES ASSUME WinnerInv, ToldInv, ~trouble, \A c \in Client : ~Under(c)
               PROVE  /\ \A e, f \in Endpoint : apps[e] = apps[f]
                      /\ stage[latest] = "succeeded" =>
                            \A e \in Endpoint : AsTold(apps[e], latest, job[latest])
    BY DEF EndpointsDoAsTold, AsTold
  <2>1. ~Under(latest) /\ InStep
    BY DEF ToldInv, Reported
  <2> QED BY <2>1 DEF InStep, Begun
<1> QED BY <1>1, InitWinner, NextWinner, InitTold, NextTold, PTL DEF Spec
=============================================================================
