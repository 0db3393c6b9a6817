--------------------------- MODULE MockOperators ---------------------------
(***************************************************************************)
(* The mock-operators contract: a list of operators with voting powers,    *)
(* fixed at instantiation.  The queries take a block height and ignore it, *)
(* so heights are left out.                                                *)
(***************************************************************************)
EXTENDS Naturals, FiniteSetsExt

CONSTANT OperatorLists   \* operator lists a deployment may be made with:
                         \* sequences of records [addr, voting_power]

VARIABLE registry        \* CONFIG: [operators, total_power]

\* instantiate.  An address listed twice is kept twice, and counted twice.
Registry(list) ==
    [operators   |-> list,
     total_power |-> MapThenSumSet(LAMBDA i : list[i].voting_power, DOMAIN list)]

Init == \E list \in OperatorLists : registry = Registry(list)

\* voting_power: the first entry of the list for this address, or nothing
VotingPower(addr) ==
    LET entries == {i \in DOMAIN registry.operators :
                        registry.operators[i].addr = addr}
    IN  IF entries = {} THEN 0
        ELSE registry.operators[Min(entries)].voting_power

\* total_power
TotalPower == registry.total_power

\* The list as instantiate does not check it
NobodyTwice ==
    \A i, j \in DOMAIN registry.operators :
        registry.operators[i].addr = registry.operators[j].addr => i = j

\* all_voters
AllVoters == {registry.operators[i].addr : i \in DOMAIN registry.operators}
=============================================================================
