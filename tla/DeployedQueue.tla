--------------------------- MODULE DeployedQueue ---------------------------
(***************************************************************************)
(* A task queue on the chain, as the commands that talk to it find it.     *)
(***************************************************************************)
EXTENDS Naturals, SequencesExt

CONSTANTS Address, Denom, Amount, Requested, Response, InstantiateMsg, None, U64,
          StartTime, LastCreate, LastTime, MaxTasks

VARIABLES now, config, tasks

Queue == INSTANCE TaskQueue

queueVars == <<now, config, tasks>>

Requestor == [kind : {"fixed"}, addr : Address]
                \cup [kind : {"open_payment"}, denom : Denom, amount : Nat]

\* What TaskQueue assumes, and that a message has a requestor rule
ASSUME QueueAssumption ==
    /\ U64 \in Nat \ {0} /\ StartTime \in 0..U64 - 1
    /\ LastCreate \in Nat /\ LastTime \in 0..U64 - 1 /\ MaxTasks \in Nat
    /\ None \notin Nat /\ None \notin Response
    /\ Requested \subseteq Queue!OptionU64
    /\ \A msg \in InstantiateMsg :
          msg.requestor \in Requestor /\ msg.timeout \in Queue!TimeoutInfo
=============================================================================
