--------------------- MODULE ContractDeployment_proofs ---------------------
(***************************************************************************)
(* Theorems about the command that deploys the contracts, for any operator *)
(* lists, any pool and any number of runs, faults and late transactions.   *)
(***************************************************************************)
EXTENDS ContractDeployment, FiniteSetTheorems, TLAPS

(***************************************************************************)
(* The invariant                                                           *)
(***************************************************************************)
\* Where the last run is past its uploads
PastUploads == phase \in Part \cup {"deployed"}

\* The code of a part, as the last run was told
Coded(p) ==
    /\ code_id[p] \in DOMAIN codes
    /\ codes[code_id[p]] = [part |-> p, run |-> Run]

\* The contract of a part, as the last run was told
Own(p) ==
    /\ addr[p] \in DOMAIN contracts
    /\ contracts[addr[p]].part = p
    /\ contracts[addr[p]].run = Run

\* An upload that is done has left a code of this run; past the uploads all
\* of them are done.
Codes ==
    /\ PastUploads => \A p \in Part : upload[p] = "done"
    /\ phase = "uploading" \/ PastUploads =>
          \A p \in Part : upload[p] = "done" => Coded(p)

\* The contracts the last run has instantiated, as far as it got
Chain ==
    /\ phase \in {"verifier", "task_queue", "deployed"} => Own("operators")
    /\ phase \in {"task_queue", "deployed"} =>
          Own("verifier") /\ contracts[addr["verifier"]].refers = addr["operators"]
    /\ phase = "deployed" =>
          Own("task_queue") /\ contracts[addr["task_queue"]].refers = addr["verifier"]

\* c's reference leads to an older one of the contracts cs, of the right kind
\* and of c's run; all three codes of a run are among ks.
ResolvesIn(cs, c, refers, part, run) ==
    part # "operators" =>
        /\ refers \in 1..c - 1
        /\ cs[refers].part = Needs(part)
        /\ cs[refers].run = run

StoredIn(ks, run) ==
    \A p \in Part : \E id \in DOMAIN ks : ks[id].part = p /\ ks[id].run = run

\* Every contract resolves and has its run's codes beside it, and so would
\* every instantiation that is still on its way.
SettledIn(ks, cs) ==
    \A c \in DOMAIN cs :
        ResolvesIn(cs, c, cs[c].refers, cs[c].part, cs[c].run) /\ StoredIn(ks, cs[c].run)

UnderwayIn(ks, cs, messages) ==
    \A m \in messages :
        m.kind = "instantiate" =>
            ResolvesIn(cs, Len(cs) + 1, m.refers, m.part, m.run) /\ StoredIn(ks, m.run)

Settled == SettledIn(codes, contracts) /\ UnderwayIn(codes, contracts, strays)

Started == phase # "idle" => runs # <<>>

DInv == TypeOK /\ Started /\ Codes /\ Chain /\ Settled

(***************************************************************************)
(* Sequences                                                               *)
(***************************************************************************)
LEMMA Appended ==
    ASSUME NEW S, NEW s \in Seq(S), NEW x \in S
    PROVE  /\ Append(s, x) \in Seq(S)
           /\ Len(s) \in Nat
           /\ DOMAIN s = 1..Len(s)
           /\ DOMAIN Append(s, x) = 1..Len(s) + 1
           /\ Append(s, x)[Len(s) + 1] = x
           /\ \A i \in DOMAIN s : Append(s, x)[i] = s[i]
OBVIOUS

Extends(s, t) == \A i \in DOMAIN s : i \in DOMAIN t /\ t[i] = s[i]

LEMMA AppendExtends ==
    ASSUME NEW S, NEW s \in Seq(S)
    PROVE  \A x : Extends(s, Append(s, x))
BY DEF Extends

LEMMA SeqMonotone ==
    ASSUME NEW S, NEW T, S \subseteq T
    PROVE  Seq(S) \subseteq Seq(T)
OBVIOUS

(***************************************************************************)
(* Type correctness                                                        *)
(***************************************************************************)
\* Neither a further run nor a further code spoils the shape of what is there.
LEMMA WithFurtherRun ==
    ASSUME TypeOK, NEW args \in Arguments, Give(args)
    PROVE  /\ runs' \in Seq(Arguments) /\ runs' # <<>>
           /\ Run \in Nat /\ Run' = Run + 1
           /\ codes' \in Seq(Code') /\ strays' \subseteq Stray'
           /\ contracts' \in Seq([part : Part, run : 1..Run', refers : Nat])
<1>1. runs' = Append(runs, args) /\ runs \in Seq(Arguments)
  BY DEF Give, TypeOK
<1>2. Run \in Nat /\ Run' = Run + 1 /\ runs' \in Seq(Arguments) /\ runs' # <<>>
  BY <1>1 DEF Run
<1>3. 1..Run \subseteq 1..Run'
  BY <1>2
<1>4. Code \subseteq Code' /\ Stray \subseteq Stray'
  BY <1>3 DEF Code, Stray
<1>5. [part : Part, run : 1..Run, refers : Nat]
         \subseteq [part : Part, run : 1..Run', refers : Nat]
  BY <1>3
<1>6. /\ codes' \in Seq(Code) /\ strays' \subseteq Stray
      /\ contracts' \in Seq([part : Part, run : 1..Run, refers : Nat])
  BY DEF Give, TypeOK
<1>7. codes' \in Seq(Code')
  BY <1>4, <1>6, SeqMonotone
<1>8. contracts' \in Seq([part : Part, run : 1..Run', refers : Nat])
  <2> DEFINE S == [part : Part, run : 1..Run, refers : Nat]
             T == [part : Part, run : 1..Run', refers : Nat]
  <2>1. S \subseteq T /\ contracts' \in Seq(S)
    BY <1>5, <1>6
  <2> HIDE DEF S, T
  <2>2. contracts' \in Seq(T)
    BY <2>1, SeqMonotone
  <2> QED BY <2>2 DEF T
<1> QED BY <1>2, <1>4, <1>6, <1>7, <1>8

LEMMA BusyFinite ==
    /\ IsFiniteSet(Part)
    /\ IsFiniteSet(Busy) /\ IsFiniteSet(Busy')
<1>1. IsFiniteSet(Part)
  <2>1. Part = (({} \cup {"operators"}) \cup {"task_queue"}) \cup {"verifier"}
    BY DEF Part
  <2> QED BY <2>1, FS_EmptySet, FS_AddElement
<1>2. Busy \subseteq Part /\ Busy' \subseteq Part
  BY DEF Busy
<1> QED BY <1>1, <1>2, FS_Subset

\* The size of the pool is an argument of the run.
LEMMA PoolIsSize == TypeOK /\ Started /\ phase # "idle" => PoolSize \in Nat
<1> SUFFICES ASSUME TypeOK, Started, phase # "idle" PROVE PoolSize \in Nat
  OBVIOUS
<1>1. runs \in Seq(Arguments) /\ runs # <<>>
  BY DEF TypeOK, Started
<1>2. runs[Len(runs)] \in Arguments
  BY <1>1
<1> QED BY <1>2, ArgumentsAssumption DEF PoolSize, Run

LEMMA InitTypeOK == Init => TypeOK /\ Started
<1> SUFFICES ASSUME Init PROVE TypeOK /\ Started
  OBVIOUS
<1> QED BY DEF Init, TypeOK, Started, Run, Code, Stray, Part

LEMMA NextTypeOK == TypeOK /\ Started /\ [Next]_vars => TypeOK' /\ Started'
<1> SUFFICES ASSUME TypeOK, Started, [Next]_vars PROVE TypeOK' /\ Started'
  OBVIOUS
<1>0. Run \in Nat /\ (phase # "idle" => Run \in 1..Run) /\ (phase # "idle" => runs # <<>>)
  BY DEF TypeOK, Started, Run
<1>1. ASSUME NEW args \in Arguments, Deploy(args)
      PROVE  TypeOK' /\ Started'
  <2>1. Give(args) /\ Busy' = {}
    BY <1>1 DEF Deploy, Busy
  <2>2. Cardinality(Busy)' <= PoolSize'
    <3>1. Len(runs') \in DOMAIN runs' /\ runs'[Len(runs')] \in Arguments
      BY <2>1, WithFurtherRun
    <3> QED BY <2>1, <3>1, FS_EmptySet, ArgumentsAssumption DEF PoolSize, Run
  <2> QED BY <1>1, <2>1, <2>2, WithFurtherRun DEF Deploy, TypeOK, Started
<1>2. ASSUME NEW args \in Arguments, DeployRefused(args)
      PROVE  TypeOK' /\ Started'
  BY <1>2, WithFurtherRun DEF DeployRefused, TypeOK, Started, Busy
<1>3. ASSUME NEW p \in Part, GetClient(p)
      PROVE  TypeOK' /\ Started'
  <2>0. phase = "uploading" /\ PoolSize \in Nat /\ PoolSize' = PoolSize
    BY <1>3, PoolIsSize DEF GetClient, PoolSize, Run
  <2>1. Busy' = Busy \cup {p}
    BY <1>3 DEF GetClient, Busy, TypeOK
  <2>2. Cardinality(Busy)' <= PoolSize
    <3>1. Cardinality(Busy) \in Nat
      BY BusyFinite, FS_CardinalityType
    <3>2. Cardinality(Busy \cup {p}) = Cardinality(Busy)
          \/ Cardinality(Busy \cup {p}) = Cardinality(Busy) + 1
      BY BusyFinite, FS_AddElement
    <3> QED BY <2>0, <2>1, <3>1, <3>2, <1>3 DEF GetClient
  <2> QED BY <1>3, <2>0, <2>2 DEF GetClient, TypeOK, Started, Run, Code, Stray
<1>4. ASSUME NEW p \in Part, StoreCode(p)
      PROVE  TypeOK' /\ Started'
  <2>0. phase = "uploading" /\ PoolSize \in Nat /\ PoolSize' = PoolSize
    BY <1>4, PoolIsSize DEF StoreCode, PoolSize, Run
  <2>1. Busy' \subseteq Busy
    BY <1>4 DEF StoreCode, Busy, TypeOK
  <2>2. Cardinality(Busy)' <= PoolSize
    <3>1. Cardinality(Busy') <= Cardinality(Busy)
      BY <2>1, BusyFinite, FS_Subset
    <3> QED BY <2>0, <3>1, BusyFinite, FS_CardinalityType DEF TypeOK
  <2>3. codes' \in Seq(Code) /\ Len(codes) \in Nat
    BY <1>0, <1>4 DEF StoreCode, TypeOK, Code
  <2> QED BY <1>4, <2>0, <2>2, <2>3 DEF StoreCode, TypeOK, Started, Run, Code, Stray
<1>5. ASSUME NEW p \in Part, UploadFails(p)
      PROVE  TypeOK' /\ Started'
  <2>1. strays' \subseteq Stray
    BY <1>0, <1>5 DEF UploadFails, TypeOK, Stray, Busy, PoolSize
  <2> QED BY <1>0, <1>5, <2>1 DEF UploadFails, TypeOK, Started, Run, Code, Stray, Busy, PoolSize
<1>6. CASE Uploaded
  BY <1>0, <1>6 DEF Uploaded, TypeOK, Started, Run, Code, Stray, Busy, PoolSize, Part
<1>7. CASE Instantiate
  <2>1. phase \in Part /\ Refers(phase) \in Nat
    BY <1>7 DEF Instantiate, Instantiating, Refers, Part, TypeOK
  <2>2. contracts' \in Seq([part : Part, run : 1..Run, refers : Nat])
    BY <1>0, <1>7, <2>1 DEF Instantiate, Contract, Message, TypeOK, Part
  <2>3. addr' \in [Part -> Nat]
    BY <1>7, <2>1 DEF Instantiate, TypeOK
  <2>4. phase' \in Part \cup {"deployed"}
    BY <1>7, <2>1 DEF Instantiate, After, Part
  <2> QED BY <1>0, <1>7, <2>1, <2>2, <2>3, <2>4
          DEF Instantiate, TypeOK, Started, Run, Code, Stray, Busy, PoolSize, Part
<1>8. CASE InstantiateRefused
  BY <1>0, <1>8 DEF InstantiateRefused, Instantiating, TypeOK, Started, Run, Code, Stray, Busy, PoolSize, Part
<1>9. CASE InstantiateBreaks
  <2>1. phase \in Part /\ Refers(phase) \in Nat
    BY <1>9 DEF InstantiateBreaks, Instantiating, Refers, Part, TypeOK
  <2>2. Message \in Stray
    BY <1>0, <2>1 DEF Message, Stray, Part
  <2>3. strays' \subseteq Stray
    BY <1>9, <2>2 DEF InstantiateBreaks, TypeOK
  <2> QED BY <1>0, <1>9, <2>1, <2>3
          DEF InstantiateBreaks, TypeOK, Started, Run, Code, Stray, Busy, PoolSize, Part
<1>10. CASE Land
  <2>1. PICK m \in strays :
          /\ strays' = strays \ {m}
          /\ \/ /\ codes' = Append(codes, [part |-> m.part, run |-> m.run])
                /\ UNCHANGED contracts
             \/ /\ contracts' = Append(contracts, Contract(m))
                /\ UNCHANGED codes
          /\ UNCHANGED <<runs, phase, upload, code_id, addr, faults>>
    BY <1>10 DEF Land
  <2>2. m \in Stray
    BY DEF TypeOK
  <2>3. /\ [part |-> m.part, run |-> m.run] \in Code
        /\ Contract(m) \in [part : Part, run : 1..Run, refers : Nat]
    BY <2>2 DEF Stray, Code, Contract
  <2>4. codes' \in Seq(Code) /\ contracts' \in Seq([part : Part, run : 1..Run, refers : Nat])
    <3> DEFINE C == [part : Part, run : 1..Run, refers : Nat]
    <3>1. /\ codes \in Seq(Code) /\ contracts \in Seq(C)
          /\ Contract(m) \in C
      BY <2>3 DEF TypeOK
    <3> HIDE DEF C
    <3>2. /\ Append(codes, [part |-> m.part, run |-> m.run]) \in Seq(Code)
          /\ Append(contracts, Contract(m)) \in Seq(C)
      BY <2>3, <3>1, Appended
    <3> QED BY <2>1, <3>1, <3>2 DEF C
  <2> QED BY <2>1, <2>4 DEF TypeOK, Started, Run, Code, Stray, Busy, PoolSize
<1>11. CASE UNCHANGED vars
  BY <1>11 DEF vars, TypeOK, Started, Run, Code, Stray, Busy, PoolSize
<1> QED BY <1>1, <1>2, <1>3, <1>4, <1>5, <1>6, <1>7, <1>8, <1>9, <1>10, <1>11
        DEF Next, Command, Upload, Advance, Break

\* The chain and the run keep their shape and the pool is never overdrawn,
\* for any number of clients, operators, runs and faults.
THEOREM TypeCorrect == Spec => []TypeOK
BY InitTypeOK, NextTypeOK, PTL DEF Spec

(***************************************************************************)
(* What is on the chain stays as it is                                     *)
(***************************************************************************)
Extended == Extends(codes, codes') /\ Extends(contracts, contracts')

LEMMA NextExtends == TypeOK /\ Started /\ [Next]_vars => Extended
<1> SUFFICES ASSUME TypeOK, Started, [Next]_vars PROVE Extended
  OBVIOUS
<1>1. \A x : Extends(codes, Append(codes, x))
  BY AppendExtends DEF TypeOK
<1>3. \A x : Extends(contracts, Append(contracts, x))
  <2> DEFINE C == [part : Part, run : 1..Run, refers : Nat]
  <2>1. contracts \in Seq(C)
    BY DEF TypeOK
  <2> HIDE DEF C
  <2> QED BY <2>1, AppendExtends
<1>2. \/ UNCHANGED <<codes, contracts>>
      \/ UNCHANGED contracts /\ \E x : codes' = Append(codes, x)
      \/ UNCHANGED codes /\ \E x : contracts' = Append(contracts, x)
  BY DEF Next, Command, Deploy, DeployRefused, Give, Upload, GetClient, StoreCode,
     Advance, Uploaded, Instantiate, InstantiateRefused, Break, UploadFails,
     InstantiateBreaks, Land, vars
<1>4. Extends(codes, codes) /\ Extends(contracts, contracts)
  BY DEF Extends
<1> QED BY <1>1, <1>2, <1>3, <1>4 DEF Extended

\* A reference that leads somewhere keeps leading there, and codes stay.
LEMMA ReferencesStay ==
    ASSUME NEW ks, NEW ks2, Extends(ks, ks2),
           NEW S, NEW cs \in Seq(S), NEW cs2, Extends(cs, cs2)
    PROVE  /\ \A run : StoredIn(ks, run) => StoredIn(ks2, run)
           /\ \A c \in 1..Len(cs) + 1 : \A refers, part, run :
                 ResolvesIn(cs, c, refers, part, run) => ResolvesIn(cs2, c, refers, part, run)
<1>1. \A run : StoredIn(ks, run) => StoredIn(ks2, run)
  BY DEF Extends, StoredIn
<1>2. ASSUME NEW c \in 1..Len(cs) + 1, NEW refers, NEW part, NEW run,
             ResolvesIn(cs, c, refers, part, run)
      PROVE  ResolvesIn(cs2, c, refers, part, run)
  <2>1. CASE part = "operators"
    BY <2>1 DEF ResolvesIn
  <2>2. CASE part # "operators"
    <3>1. refers \in DOMAIN cs
      BY <1>2, <2>2 DEF ResolvesIn
    <3> QED BY <1>2, <2>2, <3>1 DEF ResolvesIn, Extends
  <2> QED BY <2>1, <2>2
<1> QED BY <1>1, <1>2

\* What is settled stays so when a further code arrives,
LEMMA CodeSettles ==
    ASSUME NEW ks, NEW ks2, Extends(ks, ks2), NEW S, NEW cs \in Seq(S),
           NEW messages, NEW messages2,
           \A m \in messages2 : m.kind = "instantiate" => m \in messages,
           SettledIn(ks, cs), UnderwayIn(ks, cs, messages)
    PROVE  SettledIn(ks2, cs) /\ UnderwayIn(ks2, cs, messages2)
<1>1. \A run : StoredIn(ks, run) => StoredIn(ks2, run)
  BY DEF Extends, StoredIn
<1> QED BY <1>1 DEF SettledIn, UnderwayIn

\* and when a contract arrives that resolves itself.
LEMMA ContractSettles ==
    ASSUME NEW ks, NEW S, NEW cs \in Seq(S), NEW new \in S,
           NEW messages, NEW messages2 \in SUBSET messages,
           ResolvesIn(cs, Len(cs) + 1, new.refers, new.part, new.run),
           StoredIn(ks, new.run),
           SettledIn(ks, cs), UnderwayIn(ks, cs, messages)
    PROVE  SettledIn(ks, Append(cs, new)) /\ UnderwayIn(ks, Append(cs, new), messages2)
<1> DEFINE cs2 == Append(cs, new)
           last == Len(cs) + 1
<1>1. /\ Len(cs) \in Nat /\ last \in Nat /\ last = Len(cs) + 1
      /\ DOMAIN cs = 1..Len(cs) /\ DOMAIN cs2 = 1..last /\ Len(cs2) = last
      /\ cs2[last] = new
      /\ \A c \in DOMAIN cs : cs2[c] = cs[c]
  BY Appended
<1>2. Extends(cs, cs2) /\ Extends(ks, ks)
  BY <1>1 DEF Extends
<1> HIDE DEF cs2, last
<1>3. \A c \in 1..last : \A refers, part, run :
        ResolvesIn(cs, c, refers, part, run) => ResolvesIn(cs2, c, refers, part, run)
  BY <1>1, <1>2, ReferencesStay
<1>4. SettledIn(ks, cs2)
  <2> SUFFICES ASSUME NEW c \in DOMAIN cs2
               PROVE  /\ ResolvesIn(cs2, c, cs2[c].refers, cs2[c].part, cs2[c].run)
                      /\ StoredIn(ks, cs2[c].run)
    BY DEF SettledIn
  <2>1. CASE c = last
    BY <1>1, <1>3, <2>1
  <2>2. CASE c \in DOMAIN cs
    BY <1>1, <1>3, <2>2 DEF SettledIn
  <2> QED BY <1>1, <2>1, <2>2
<1>5. UnderwayIn(ks, cs2, messages2)
  <2> SUFFICES ASSUME NEW m \in messages2, m.kind = "instantiate"
               PROVE  ResolvesIn(cs2, last + 1, m.refers, m.part, m.run) /\ StoredIn(ks, m.run)
    BY <1>1 DEF UnderwayIn
  <2>1. ResolvesIn(cs, last, m.refers, m.part, m.run) /\ StoredIn(ks, m.run)
    BY <1>1 DEF UnderwayIn
  <2>2. ResolvesIn(cs2, last, m.refers, m.part, m.run)
    BY <1>1, <1>3, <2>1
  <2> QED BY <1>1, <2>1, <2>2 DEF ResolvesIn
<1> QED BY <1>4, <1>5 DEF cs2

\* Settled survives whatever adds neither a contract nor an instantiation on
\* its way.
LEMMA QuietSettled ==
    ASSUME TypeOK, Extended, Settled, contracts' = contracts,
           \A m \in strays' : m.kind = "instantiate" => m \in strays
    PROVE  Settled'
<1>1. contracts \in Seq([part : Part, run : 1..Run, refers : Nat])
  BY DEF TypeOK
<1>2. SettledIn(codes', contracts) /\ UnderwayIn(codes', contracts, strays')
  <2> DEFINE S == [part : Part, run : 1..Run, refers : Nat]
  <2>1. contracts \in Seq(S)
    BY <1>1
  <2> HIDE DEF S
  <2> QED BY <2>1, CodeSettles DEF Settled, Extended
<1> QED BY <1>2 DEF Settled

\* What the command is about to tell the next contract
LEMMA MessageResolves ==
    ASSUME DInv, phase \in Part
    PROVE  /\ ResolvesIn(contracts, Len(contracts) + 1, Refers(phase), phase, Run)
           /\ StoredIn(codes, Run)
<1>1. StoredIn(codes, Run)
  <2>1. ASSUME NEW p \in Part
        PROVE  \E id \in DOMAIN codes : codes[id].part = p /\ codes[id].run = Run
    <3>1. Coded(p)
      BY DEF DInv, Codes, PastUploads
    <3>2. /\ code_id[p] \in DOMAIN codes
          /\ codes[code_id[p]] = [part |-> p, run |-> Run]
      BY <3>1 DEF Coded
    <3> HIDE DEF Run
    <3>3. codes[code_id[p]].part = p /\ codes[code_id[p]].run = Run
      BY <3>2
    <3> QED BY <3>2, <3>3
  <2> QED BY <2>1 DEF StoredIn
<1>2. DOMAIN contracts = 1..Len(contracts) /\ Len(contracts) \in Nat
  BY DEF DInv, TypeOK
<1>3. \A n \in 1..Len(contracts) : n \in 1..(Len(contracts) + 1) - 1
  BY <1>2
<1>4. CASE phase = "operators"
  BY <1>1, <1>4 DEF ResolvesIn
<1>5. CASE phase = "verifier"
  BY <1>1, <1>2, <1>3, <1>5 DEF DInv, Chain, Own, ResolvesIn, Needs, Refers
<1>6. CASE phase = "task_queue"
  BY <1>1, <1>2, <1>3, <1>6 DEF DInv, Chain, Own, ResolvesIn, Needs, Refers
<1> QED BY <1>4, <1>5, <1>6 DEF Part

\* The last run's own contracts and codes stay its own.
LEMMA OwnStays ==
    ASSUME TypeOK, Extended, Run' = Run, NEW p \in Part
    PROVE  /\ Coded(p) /\ code_id'[p] = code_id[p] => Coded(p)'
           /\ Own(p) /\ addr'[p] = addr[p] =>
                 Own(p)' /\ contracts'[addr[p]] = contracts[addr[p]]
BY DEF Extended, Extends, Coded, Own

LEMMA RunKept ==
    ASSUME DInv, Extended, UNCHANGED <<runs, phase, upload, code_id, addr>>
    PROVE  Codes' /\ Chain'
<1>1. Run' = Run
  BY DEF Run
<1>2. \A p \in Part : /\ Coded(p) => Coded(p)'
                      /\ Own(p) => Own(p)' /\ contracts'[addr[p]] = contracts[addr[p]]
  BY <1>1, OwnStays DEF DInv
<1>3. Codes'
  BY <1>2 DEF DInv, Codes, PastUploads
<1>4. Chain'
  BY <1>2 DEF DInv, Chain, Part
<1> QED BY <1>3, <1>4

LEMMA InitDInv == Init => DInv
BY InitTypeOK DEF Init, DInv, Codes, PastUploads, Chain, Settled, SettledIn, UnderwayIn, Part

LEMMA NextDInv == DInv /\ [Next]_vars => DInv'
<1> SUFFICES ASSUME DInv, [Next]_vars PROVE DInv'
  OBVIOUS
<1>1. TypeOK' /\ Started' /\ Extended /\ TypeOK /\ Started
  BY NextTypeOK, NextExtends DEF DInv
<1>2. ASSUME NEW args \in Arguments, Deploy(args) \/ DeployRefused(args)
      PROVE  Codes' /\ Chain' /\ Settled'
  <2>1. UNCHANGED <<contracts, strays>> /\ phase' \in {"uploading", "refused"}
        /\ (phase' = "uploading" => \A p \in Part : upload'[p] = "queued")
    BY <1>2 DEF Deploy, DeployRefused, Give
  <2>2. Settled'
    BY <1>1, <2>1, QuietSettled DEF DInv
  <2>3. Codes' /\ Chain'
    BY <2>1 DEF Codes, PastUploads, Chain, Part
  <2> QED BY <2>2, <2>3
<1>3. ASSUME NEW p \in Part, GetClient(p)
      PROVE  Codes' /\ Chain' /\ Settled'
  <2>1. Settled'
    BY <1>1, <1>3, QuietSettled DEF DInv, GetClient
  <2>2. Codes'
    BY <1>3 DEF GetClient, DInv, TypeOK, Codes, PastUploads, Coded, Run, Part
  <2>3. Chain'
    BY <1>3 DEF GetClient, Chain
  <2> QED BY <2>1, <2>2, <2>3
<1>4. ASSUME NEW p \in Part, StoreCode(p)
      PROVE  Codes' /\ Chain' /\ Settled'
  <2>1. Settled'
    BY <1>1, <1>4, QuietSettled DEF DInv, StoreCode
  <2>2. Coded(p)'
    BY <1>1, <1>4 DEF StoreCode, TypeOK, Coded, Run
  <2>3. \A q \in Part : q # p => code_id'[q] = code_id[q] /\ upload'[q] = upload[q]
    BY <1>1, <1>4 DEF StoreCode, TypeOK
  <2>4. Run' = Run /\ phase = "uploading" /\ phase' = "uploading"
    BY <1>4 DEF StoreCode, Run
  <2>5. Codes'
    BY <1>1, <2>2, <2>3, <2>4, OwnStays DEF DInv, Codes, PastUploads, Part
  <2>6. Chain'
    BY <2>4 DEF Chain
  <2> QED BY <2>1, <2>5, <2>6
<1>5. ASSUME NEW p \in Part, UploadFails(p)
      PROVE  Codes' /\ Chain' /\ Settled'
  <2>1. Settled'
    BY <1>1, <1>5, QuietSettled DEF DInv, UploadFails
  <2> QED BY <1>5, <2>1 DEF UploadFails, Codes, PastUploads, Chain, Part
<1>6. CASE Uploaded
  <2>1. Settled'
    BY <1>1, <1>6, QuietSettled DEF DInv, Uploaded
  <2>2. Run' = Run
    BY <1>6 DEF Uploaded, Run
  <2>3. Codes'
    BY <1>1, <1>6, <2>2, OwnStays
       DEF Uploaded, AllUploaded, DInv, Codes, PastUploads
  <2>4. Chain'
    BY <1>6 DEF Uploaded, Chain
  <2> QED BY <1>1, <2>1, <2>3, <2>4 DEF DInv
<1>7. CASE Instantiate
  <2> DEFINE new == Contract(Message)
  <2>1. /\ phase \in Part /\ contracts' = Append(contracts, new)
        /\ addr' = [addr EXCEPT ![phase] = Len(contracts) + 1]
        /\ phase' = After(phase)
        /\ UNCHANGED <<codes, runs, upload, code_id, strays>>
    BY <1>7 DEF Instantiate, Instantiating
  <2>2. /\ new.part = phase /\ new.run = Run /\ new.refers = Refers(phase)
    BY DEF Contract, Message
  <2>3. Settled'
    <3> DEFINE C == [part : Part, run : 1..Run, refers : Nat]
    <3>1. /\ ResolvesIn(contracts, Len(contracts) + 1, new.refers, new.part, new.run)
          /\ StoredIn(codes, new.run)
      BY <2>1, <2>2, MessageResolves
    <3>2. contracts \in Seq(C) /\ new \in C
      BY <1>1, <2>1 DEF TypeOK, Started, Contract, Message, Refers, Run, Part
    <3> HIDE DEF C, new
    <3>3. SettledIn(codes, Append(contracts, new)) /\ UnderwayIn(codes, Append(contracts, new), strays)
      BY <3>1, <3>2, ContractSettles DEF DInv, Settled
    <3> QED BY <2>1, <3>3 DEF Settled
  <2>4. Run' = Run
    BY <2>1 DEF Run
  <2>0. PICK part \in Part : part = phase
    BY <2>1
  <2>5. /\ Own(part)' /\ contracts'[addr'[part]] = new
        /\ contracts'[addr'[part]].refers = Refers(phase)
    <3> DEFINE C == [part : Part, run : 1..Run, refers : Nat]
    <3>1. contracts \in Seq(C) /\ new \in C
      BY <1>1, <2>1 DEF TypeOK, Started, Contract, Message, Refers, Run, Part
    <3>2. addr'[part] = Len(contracts) + 1
      BY <1>1, <2>0, <2>1 DEF TypeOK
    <3> HIDE DEF C, new
    <3>3. addr'[part] \in DOMAIN contracts' /\ contracts'[addr'[part]] = new
      BY <2>1, <3>1, <3>2, Appended
    <3> QED BY <2>0, <2>2, <2>4, <3>3 DEF Own
  <2>6. \A p \in Part : /\ Coded(p) => Coded(p)'
                        /\ p # phase /\ Own(p) =>
                              /\ Own(p)' /\ addr'[p] = addr[p]
                              /\ contracts'[addr[p]] = contracts[addr[p]]
    BY <1>1, <2>1, <2>4, OwnStays DEF TypeOK
  <2>7. Codes'
    BY <2>1, <2>6 DEF DInv, Codes, PastUploads, After, Part
  <2>8. Chain'
    <3> HIDE DEF new
    <3>1. CASE phase = "operators"
      BY <2>0, <2>1, <2>5, <3>1 DEF After, Chain
    <3>2. CASE phase = "verifier"
      BY <2>0, <2>1, <2>5, <2>6, <3>2 DEF DInv, After, Chain, Refers, Part
    <3>3. CASE phase = "task_queue"
      BY <2>0, <2>1, <2>5, <2>6, <3>3 DEF DInv, After, Chain, Refers, Part
    <3> QED BY <2>1, <3>1, <3>2, <3>3 DEF Part
  <2> QED BY <1>1, <2>3, <2>7, <2>8 DEF DInv
<1>8. CASE InstantiateRefused
  <2>1. Settled'
    BY <1>1, <1>8, QuietSettled DEF DInv, InstantiateRefused
  <2>2. Codes' /\ Chain'
    BY <1>8 DEF InstantiateRefused, Codes, PastUploads, Chain, Part
  <2> QED BY <1>1, <2>1, <2>2 DEF DInv
<1>9. CASE InstantiateBreaks
  <2>1. phase \in Part /\ UNCHANGED <<codes, contracts>> /\ phase' = "failed"
        /\ strays' \subseteq strays \cup {Message}
    BY <1>9 DEF InstantiateBreaks, Instantiating
  <2>2. /\ Message.refers = Refers(phase) /\ Message.part = phase /\ Message.run = Run
    BY DEF Message
  <2>3. Settled'
    BY <2>1, <2>2, MessageResolves DEF DInv, Settled, UnderwayIn
  <2>4. Codes' /\ Chain'
    BY <2>1 DEF Codes, PastUploads, Chain, Part
  <2> QED BY <1>1, <2>3, <2>4 DEF DInv
<1>10. CASE Land
  <2>1. PICK m \in strays :
          /\ strays' = strays \ {m}
          /\ \/ UNCHANGED contracts
             \/ /\ m.kind = "instantiate"
                /\ contracts' = Append(contracts, Contract(m))
                /\ UNCHANGED codes
          /\ UNCHANGED <<runs, phase, upload, code_id, addr>>
    BY <1>10 DEF Land
  <2>2. Settled'
    <3>1. CASE UNCHANGED contracts
      BY <1>1, <2>1, <3>1, QuietSettled DEF DInv
    <3>2. CASE /\ m.kind = "instantiate" /\ contracts' = Append(contracts, Contract(m))
               /\ UNCHANGED codes
      <4> DEFINE C == [part : Part, run : 1..Run, refers : Nat]
                 new == Contract(m)
      <4>1. /\ ResolvesIn(contracts, Len(contracts) + 1, m.refers, m.part, m.run)
            /\ StoredIn(codes, m.run)
        BY <3>2 DEF DInv, Settled, UnderwayIn
      <4>2. new.refers = m.refers /\ new.part = m.part /\ new.run = m.run
        BY DEF Contract
      <4>3. contracts \in Seq(C) /\ new \in C
        BY <1>1 DEF TypeOK, Stray, Contract
      <4>4. strays' \in SUBSET strays
        BY <2>1
      <4> HIDE DEF C, new
      <4>5. /\ SettledIn(codes, Append(contracts, new))
            /\ UnderwayIn(codes, Append(contracts, new), strays')
        BY <4>1, <4>2, <4>3, <4>4, ContractSettles DEF DInv, Settled
      <4> QED BY <3>2, <4>5 DEF Settled, new
    <3> QED BY <2>1, <3>1, <3>2
  <2> QED BY <1>1, <2>1, <2>2, RunKept DEF DInv
<1>11. CASE UNCHANGED vars
  <2>1. Settled'
    BY <1>1, <1>11, QuietSettled DEF DInv, vars
  <2> QED BY <1>1, <1>11, <2>1, RunKept DEF vars, DInv
<1> QED BY <1>1, <1>2, <1>3, <1>4, <1>5, <1>6, <1>7, <1>8, <1>9, <1>10, <1>11
        DEF DInv, Next, Command, Upload, Advance, Break

\* Whatever earlier runs left behind and whatever of them lands late, every
\* contract refers to one of its own run, all codes of its run are stored, and
\* a run that succeeds prints a set of three that belong together.
THEOREM FitTogether == Spec => []ContractsFitTogether
<1>1. DInv => ContractsFitTogether
  <2> SUFFICES ASSUME DInv PROVE ContractsFitTogether
    OBVIOUS
  <2>1. phase = "deployed" =>
          /\ \A p \in Part : Own(p)
          /\ contracts[addr["task_queue"]].refers = addr["verifier"]
          /\ contracts[addr["verifier"]].refers = addr["operators"]
    BY DEF DInv, Chain, Part
  <2>2. \A c \in DOMAIN contracts :
          /\ Resolves(c, contracts[c].refers, contracts[c].part, contracts[c].run)
          /\ Stored(contracts[c].run)
    BY DEF DInv, Settled, SettledIn, ResolvesIn, StoredIn, Resolves, Stored
  <2> QED BY <2>1, <2>2 DEF Own, ContractsFitTogether
<1> QED BY <1>1, InitDInv, NextDInv, PTL DEF Spec
=============================================================================
