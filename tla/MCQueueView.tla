---------------------------- MODULE MCQueueView ----------------------------
(***************************************************************************)
(* Instances of QueueView for TLC.                                         *)
(***************************************************************************)
EXTENDS QueueView

CONSTANTS verifier, requestor, answer

MCAddress == {verifier, requestor}
MCDenom   == {"fee"}
MCAmount  == {0}

MCInstantiateMsg ==
    {[requestor |-> [kind |-> "fixed", addr |-> requestor],
      timeout   |-> [default |-> 1, minimum |-> None, maximum |-> 3],
      verifier  |-> verifier]}
=============================================================================
