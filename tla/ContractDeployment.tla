------------------------- MODULE ContractDeployment -------------------------
(***************************************************************************)
(* The command that deploys the contracts: it parses its arguments,        *)
(* uploads three codes at the same time with clients from a pool, and then *)
(* instantiates operators, verifier and task queue one after the other.    *)
(* Every upload and instantiation is a transaction of its own.  When one   *)
(* fails the command stops, whatever is on the chain by then stays there,  *)
(* and somebody runs it again.                                             *)
(*                                                                         *)
(* A broken connection loses a transaction, its answer, or delays it until *)
(* after the command has given up.                                         *)
(***************************************************************************)
EXTENDS Naturals, FiniteSets, SequencesExt

CONSTANTS
    Address,        \* addresses that parse
    Endpoints,      \* the operator each configured wasmatic endpoint names
    Arguments,      \* what the command may be run with: records
                    \* [operators : Seq([name, powers]), valid : BOOLEAN,
                    \*  max_concurrent_accounts : Nat]
    MaxFaults,      \* bound: connections that break
    MaxRuns         \* bound: runs of the command

VARIABLES
    codes,          \* the chain's codes, by id: [part, run]
    contracts,      \* its contracts, by address: [part, run, refers]
    runs,           \* the arguments of every run so far
    phase,          \* how far the last run is
    upload,         \* the three uploads of the last run
    code_id,        \* the ids they returned
    addr,           \* the addresses the instantiations returned
    strays,         \* transactions still on their way after a run gave up
    faults          \* connections broken so far

vars == <<codes, contracts, runs, phase, upload, code_id, addr, strays, faults>>

Part == {"operators", "task_queue", "verifier"}

Run == Len(runs)

(***************************************************************************)
(* DeployContractArgs::parse                                               *)
(***************************************************************************)
\* "wasmatic" stands for the operator of every endpoint
StandsFor(name) == IF name = "wasmatic" THEN Endpoints ELSE <<name>>

\* The powers after the name are handed out one by one; who gets none has 1.
Entries(operator) ==
    [i \in DOMAIN StandsFor(operator.name) |->
        [addr         |-> StandsFor(operator.name)[i],
         voting_power |-> IF i <= Len(operator.powers) THEN operator.powers[i] ELSE 1]]

\* The operator list the contract is instantiated with
Operators(args) ==
    FlattenSeq([i \in DOMAIN args.operators |-> Entries(args.operators[i])])

Parses(args) ==
    /\ args.operators # <<>>
    /\ \A i \in DOMAIN Operators(args) :
          /\ Operators(args)[i].addr \in Address
          /\ Operators(args)[i].voting_power \in Nat

(***************************************************************************)
(* Running the command                                                     *)
(***************************************************************************)
Over == phase \in {"idle", "deployed", "failed", "refused"}

Give(args) ==
    /\ Over
    /\ Run < MaxRuns
    /\ runs' = Append(runs, args)
    /\ UNCHANGED <<codes, contracts, strays, faults>>

\* Arguments and artifacts are read before anything is sent.
Deploy(args) ==
    /\ Parses(args)
    /\ Give(args)
    /\ phase' = "uploading"
    /\ upload' = [p \in Part |-> "queued"]
    /\ code_id' = [p \in Part |-> 0]
    /\ addr' = [p \in Part |-> 0]

\* Arguments that do not parse, an endpoint that does not name an operator, a
\* missing artifact or mnemonic
DeployRefused(args) ==
    /\ Give(args)
    /\ phase' = "refused"
    /\ UNCHANGED <<upload, code_id, addr>>

(***************************************************************************)
(* CodeIds::upload: three uploads, as many at a time as the pool has       *)
(* clients.  A pool of none is accepted, and whoever waits for a client of *)
(* it waits until the command is interrupted.                              *)
(***************************************************************************)
PoolSize == runs[Run].max_concurrent_accounts

\* Mutant: clients come back to the pool when all uploads are done
BusyUntilTheEnd == {p \in Part : upload[p] \in {"sent", "done"}}

Busy == {p \in Part : upload[p] = "sent"}

\* Mutant: the pool has no bound
GetClientUnbounded(p) ==
    /\ phase = "uploading"
    /\ upload[p] = "queued"
    /\ upload' = [upload EXCEPT ![p] = "sent"]
    /\ UNCHANGED <<codes, contracts, runs, phase, code_id, addr, strays, faults>>

GetClient(p) ==
    /\ phase = "uploading"
    /\ upload[p] = "queued"
    /\ Cardinality(Busy) < PoolSize
    /\ upload' = [upload EXCEPT ![p] = "sent"]
    /\ UNCHANGED <<codes, contracts, runs, phase, code_id, addr, strays, faults>>

StoreCode(p) ==
    /\ phase = "uploading"
    /\ upload[p] = "sent"
    /\ codes' = Append(codes, [part |-> p, run |-> Run])
    /\ upload' = [upload EXCEPT ![p] = "done"]
    /\ code_id' = [code_id EXCEPT ![p] = Len(codes) + 1]
    /\ UNCHANGED <<contracts, runs, phase, addr, strays, faults>>

\* try_join!: the first error drops the other uploads, those on their way
\* included.  So does somebody who interrupts the command.
UploadFails(p) ==
    /\ phase = "uploading"
    /\ upload[p] \in {"queued", "sent"}
    /\ faults < MaxFaults
    /\ faults' = faults + 1
    /\ \E late \in SUBSET Busy :
          strays' = strays \cup {[kind |-> "upload", part |-> q, run |-> Run, refers |-> 0] :
                                    q \in late}
    /\ phase' = "failed"
    /\ UNCHANGED <<codes, contracts, runs, upload, code_id, addr>>

AllUploaded == \A p \in Part : upload[p] = "done"

Uploaded ==
    /\ phase = "uploading"
    /\ AllUploaded
    /\ phase' = "operators"
    /\ UNCHANGED <<codes, contracts, runs, upload, code_id, addr, strays, faults>>

(***************************************************************************)
(* deploy_contracts: three instantiations in a row                         *)
(***************************************************************************)
Instantiating == phase \in Part

After(part) ==
    CASE part = "operators"  -> "verifier"
      [] part = "verifier"   -> "task_queue"
      [] part = "task_queue" -> "deployed"

\* Mutant: the queue is told the operators' address
RefersToOperators(part) == IF part = "operators" THEN 0 ELSE addr["operators"]

\* The address each contract is told
Refers(part) ==
    CASE part = "operators"  -> 0
      [] part = "verifier"   -> addr["operators"]
      [] part = "task_queue" -> addr["verifier"]

Message == [kind |-> "instantiate", part |-> phase, run |-> Run, refers |-> Refers(phase)]

\* The chain runs the code the message was sent to; the message parses only
\* for its own kind.  The verifier checks the percentages it is given.
Accepted(part) ==
    /\ code_id[part] \in DOMAIN codes
    /\ codes[code_id[part]].part = part
    /\ part = "verifier" => runs[Run].valid

Contract(message) ==
    [part |-> message.part, run |-> message.run, refers |-> message.refers]

Instantiate ==
    /\ Instantiating
    /\ Accepted(phase)
    /\ contracts' = Append(contracts, Contract(Message))
    /\ addr' = [addr EXCEPT ![phase] = Len(contracts) + 1]
    /\ phase' = After(phase)
    /\ UNCHANGED <<codes, runs, upload, code_id, strays, faults>>

InstantiateRefused ==
    /\ Instantiating
    /\ ~Accepted(phase)
    /\ phase' = "failed"
    /\ UNCHANGED <<codes, contracts, runs, upload, code_id, addr, strays, faults>>

\* The transaction or its answer is lost
InstantiateBreaks ==
    /\ Instantiating
    /\ faults < MaxFaults
    /\ faults' = faults + 1
    /\ strays' \in {strays} \cup (IF Accepted(phase) THEN {strays \cup {Message}} ELSE {})
    /\ phase' = "failed"
    /\ UNCHANGED <<codes, contracts, runs, upload, code_id, addr>>

\* What was on its way when a run gave up reaches the chain
Land ==
    \E message \in strays :
        /\ strays' = strays \ {message}
        /\ \/ /\ message.kind = "upload"
              /\ codes' = Append(codes, [part |-> message.part, run |-> message.run])
              /\ UNCHANGED contracts
           \/ /\ message.kind = "instantiate"
              /\ contracts' = Append(contracts, Contract(message))
              /\ UNCHANGED codes
        /\ UNCHANGED <<runs, phase, upload, code_id, addr, faults>>

(***************************************************************************)
(* The specification                                                       *)
(***************************************************************************)
Init ==
    /\ codes = <<>>
    /\ contracts = <<>>
    /\ runs = <<>>
    /\ phase = "idle"
    /\ upload = [p \in Part |-> "queued"]
    /\ code_id = [p \in Part |-> 0]
    /\ addr = [p \in Part |-> 0]
    /\ strays = {}
    /\ faults = 0

Command == \E args \in Arguments : Deploy(args) \/ DeployRefused(args)

Upload(p) == GetClient(p) \/ StoreCode(p)

Advance == Uploaded \/ Instantiate \/ InstantiateRefused

Break == (\E p \in Part : UploadFails(p)) \/ InstantiateBreaks

Next ==
    \/ Command
    \/ \E p \in Part : Upload(p)
    \/ Advance
    \/ Break
    \/ Land

Spec == Init /\ [][Next]_vars

\* The chain answers sooner or later unless the connection breaks, and the
\* command goes on with the answer.
FairSpec ==
    /\ Spec
    /\ WF_vars(Advance)
    /\ \A p \in Part : WF_vars(Upload(p))

ASSUME ArgumentsAssumption ==
    /\ MaxFaults \in Nat /\ MaxRuns \in Nat
    /\ \A args \in Arguments :
          args.valid \in BOOLEAN /\ args.max_concurrent_accounts \in Nat

(***************************************************************************)
(* Correctness                                                             *)
(***************************************************************************)
Code == [part : Part, run : 1..Run]

Stray == [kind : {"upload", "instantiate"}, part : Part, run : 1..Run, refers : Nat]

\* The shape of the chain and of the run; the pool is never overdrawn.
TypeOK ==
    /\ codes \in Seq(Code)
    /\ contracts \in Seq([part : Part, run : 1..Run, refers : Nat])
    /\ runs \in Seq(Arguments)
    /\ phase \in {"idle", "uploading", "deployed", "failed", "refused"} \cup Part
    /\ upload \in [Part -> {"queued", "sent", "done"}]
    /\ code_id \in [Part -> Nat]
    /\ addr \in [Part -> Nat]
    /\ strays \subseteq Stray
    /\ phase = "uploading" => Cardinality(Busy) <= PoolSize

\* What a contract relies on, by kind
Needs(part) == IF part = "verifier" THEN "operators" ELSE "verifier"

\* c's reference leads to an older contract of the right kind and of c's run.
Resolves(c, refers, part, run) ==
    part # "operators" =>
        /\ refers \in 1..c - 1
        /\ contracts[refers].part = Needs(part)
        /\ contracts[refers].run = run

\* All three codes of a run are on the chain.
Stored(run) ==
    \A p \in Part : \E id \in DOMAIN codes : codes[id].part = p /\ codes[id].run = run

\* Whatever runs failed half way before, and whatever of them reaches the chain
\* late, every contract on the chain was told about a contract that is there,
\* of the right kind and from its own run; where there is a contract, all three
\* codes of its run were uploaded; and a run that succeeds prints the addresses
\* of such a set of three.
ContractsFitTogether ==
    /\ \A c \in DOMAIN contracts :
          /\ Resolves(c, contracts[c].refers, contracts[c].part, contracts[c].run)
          /\ Stored(contracts[c].run)
    /\ phase = "deployed" =>
          /\ \A p \in Part :
                /\ addr[p] \in DOMAIN contracts
                /\ contracts[addr[p]].part = p
                /\ contracts[addr[p]].run = Run
          /\ contracts[addr["task_queue"]].refers = addr["verifier"]
          /\ contracts[addr["verifier"]].refers = addr["operators"]

GoodArguments == runs[Run].valid /\ PoolSize > 0

\* A run with good arguments goes through unless a connection breaks: with a
\* single client in the pool already, no upload waits for ever for one, and
\* nothing that earlier runs left behind, or that still lands, is in the way.
GoodRunsDeploy ==
    \A n \in 0..MaxFaults :
        (phase = "uploading" /\ GoodArguments /\ faults = n)
            ~> (phase = "deployed" \/ faults > n)
=============================================================================
