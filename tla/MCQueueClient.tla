--------------------------- MODULE MCQueueClient ---------------------------
(***************************************************************************)
(* Instances of QueueClient for TLC.                                       *)
(***************************************************************************)
EXTENDS QueueClient

CONSTANTS verifier, alice, bob, answer

MCAddress == {verifier, alice, bob}
MCDenom   == {"fee"}
MCAmount  == {0}

Limits == [default |-> 1, minimum |-> None, maximum |-> 2]

\* A fixed requestor, a price, and a price of nothing
MCInstantiateMsg ==
    {[requestor |-> r, timeout |-> Limits, verifier |-> verifier] :
        r \in {[kind |-> "fixed", addr |-> alice]} \cup
              [kind : {"open_payment"}, denom : {"fee"}, amount : {0, 2}]}

\* A body that does not parse is refused before its timeout matters.
InScope == \A c \in Client : job[c].body \in Json \/ job[c].timeout = None
=============================================================================
