---------------------------- MODULE MCAvsOracle ----------------------------
(***************************************************************************)
(* Instances of AvsOracle for TLC.  Decimals have two places (One = 100).  *)
(***************************************************************************)
EXTENDS AvsOracle

CONSTANTS verifier, requestor, o1, o2, o3

MCAddress == {verifier, requestor}
MCDenom   == {"fee"}
MCAmount  == {0}
\* The requestor signs a vote, too, and has no power.
MCOperator == {o1, o2, o3, requestor}

Op(addr, power) == [addr |-> addr, voting_power |-> power]

\* The powers of the repository's own tests, a list that names one operator
\* twice, and one whose shares are not whole: 70% of its power are 7.7, which
\* the operators with 5 and 2 just miss, and 95% are 10.45, for which all
\* have to vote.
Tested     == <<Op(o1, 50), Op(o2, 30), Op(o3, 20)>>
Duplicated == <<Op(o1, 50), Op(o2, 30), Op(o2, 20), Op(o3, 20)>>
Uneven     == <<Op(o1, 5), Op(o2, 4), Op(o3, 2)>>

MCInstantiateMsg ==
    {[requestor |-> [kind |-> "fixed", addr |-> requestor],
      timeout   |-> [default |-> 1, minimum |-> None, maximum |-> 2],
      verifier  |-> verifier]}

Setting(required, threshold, allowed, slashable) ==
    [required_percentage |-> required, threshold_percent |-> threshold,
     allowed_spread |-> allowed, slashable_spread |-> slashable]

MCResult  == {"1.0", "1.00", "1.08", "1.20", "2.10"}
MCPriceOf == [r \in MCResult |->
    CASE r \in {"1.0", "1.00"} -> 100 [] r = "1.08" -> 108
      [] r = "1.20" -> 120 [] r = "2.10" -> 210]

\* These prices and the means of any two of them
MCResponse == {100, 104, 108, 110, 114, 120, 155, 159, 165, 210}

\* One deployment, in which two tasks are voted on: seven tenths of the power
\* have to vote, six tenths of that to agree
TwoTasksLists    == {Tested}
TwoTasksSettings == {Setting(70, 60, 5, 10)}

\* Many deployments, in which one task is: every share of power that has to
\* vote, the unvalidated extremes too, against both ends of the threshold
MCLists    == {Tested, Duplicated, Uneven}
MCSettings == TwoTasksSettings \cup
    {Setting(required, threshold, 5, 10) :
        required \in {0, 70, 95, 100, 150}, threshold \in {40, 90, 100}}

\* The shares each list is tried with
Shares(list) == IF list = Uneven THEN {70, 95} ELSE {0, 70, 100, 150}

\* With two tasks the prices are 1.0 and 1.20, which is outside the slashable
\* spread of 1.0, and time passes the deadlines; with one task any result may
\* be voted, 1.0 in two spellings, and the task is there from the beginning.
InScope ==
    LET voted == {key[2] : key \in DOMAIN options} IN
    IF settings \in TwoTasksSettings
    THEN registry.operators = Tested /\ voted \subseteq {"1.0", "1.20"}
    ELSE settings.required_percentage \in Shares(registry.operators)
            /\ config.next_id <= 2 /\ now <= 1
            /\ \A id \in DOMAIN tasks : tasks[id].timing.created_at = StartTime

\* A deployment for the statements the code does not keep: everybody has to
\* vote and nine tenths to agree
EverybodySettings == {Setting(100, 90, 5, 10)}

\* Deployments with honest operators: every result is within the spread of
\* every other one, all of them have to agree
HonestResult   == {"1.0", "1.00", "1.04"}
HonestPriceOf  == [r \in HonestResult |-> IF r = "1.04" THEN 104 ELSE 100]
HonestResponse == {100, 102, 104}
HonestSettings == {Setting(required, 100, 5, 10) : required \in {0, 70, 100}}
=============================================================================
