---------------------------- MODULE MCTaskQueue ----------------------------
(***************************************************************************)
(* Instances of TaskQueue for TLC.                                         *)
(***************************************************************************)
EXTENDS TaskQueue

CONSTANTS verifier, requestor, stranger

MCAddress == {verifier, requestor, stranger}
MCDenom   == {"fee", "other"}
MCAmount  == 0..2
MCResponse == {"r1", "r2"}

Fixed       == [kind |-> "fixed", addr |-> requestor]
OpenPayment == [kind |-> "open_payment", denom |-> "fee", amount |-> 2]

Info(min, default, max) == [minimum |-> min, default |-> default, maximum |-> max]

Messages(requestors, infos) ==
    [requestor : requestors, timeout : infos, verifier : {verifier}]

\* Every combination of limits up to 2, valid or not, present or absent,
\* with either kind of requestor; and any timeout from 1 to the largest u64
MCInstantiateMsg ==
    Messages({Fixed, OpenPayment},
             [minimum : {None, 0, 1, 2}, default : 0..2, maximum : {None, 1, 2}])
        \cup Messages({Fixed}, {Info(None, 1, U64 - 1)})

\* The longest one takes every deadline past the largest u64.
MCRequested == {None, U64 - 2} \cup 0..3
=============================================================================
