------------------------ MODULE MCContractDeployment ------------------------
(***************************************************************************)
(* Instances of ContractDeployment for TLC.                                *)
(***************************************************************************)
EXTENDS ContractDeployment

\* The testnet configuration has three endpoints.
MCEndpoints == <<"op1", "op2", "op3">>
MCAddress   == {"op1", "op2", "op3", "alice"}

Given(name, powers) == [name |-> name, powers |-> powers]
Args(operators, valid, accounts) ==
    [operators |-> operators, valid |-> valid, max_concurrent_accounts |-> accounts]

\* Good arguments with a pool of none and with fewer clients than uploads
Mixed(accounts) ==
    Args(<<Given("alice", <<2>>), Given("wasmatic", <<3, 4>>)>>, TRUE, accounts)
Wrong  == Args(<<Given("wasmatic", <<>>)>>, FALSE, 2)
NoOne  == Args(<<>>, TRUE, 3)
Nobody == Args(<<Given("nobody", <<>>)>>, TRUE, 3)

MCArguments == {Mixed(accounts) : accounts \in 0..2} \cup {Wrong, Nobody, NoOne}
=============================================================================
