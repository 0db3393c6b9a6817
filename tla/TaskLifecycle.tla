--------------------------- MODULE TaskLifecycle ---------------------------
(***************************************************************************)
(* What the task queue promises, as a client sees it through the queries:  *)
(* tasks appear one after the other; an open task is answered at most once *)
(* and lapses at most once, and never both.  Clock, deadlines, payments    *)
(* and the Timeout transaction are not part of the promise: tasks lapse by *)
(* themselves, any number of them in the same instant.                     *)
(***************************************************************************)


CONSTANTS Id,        \* task ids
          Answer,    \* results
          NoAnswer   \* a task without one

VARIABLE life        \* life[id] = [status |-> ..., answer |-> ...]

Open      == [status |-> "open", answer |-> NoAnswer]
Lapsed    == [status |-> "expired", answer |-> NoAnswer]
Done(a)   == [status |-> "completed", answer |-> a]

Init == life = [id \in {} |-> Open]

\* A task with a zero timeout has lapsed when it first becomes visible.
Appear ==
    \E id \in Id \ DOMAIN life, born \in {Open, Lapsed} :
        life' = [i \in DOMAIN life \cup {id} |-> IF i = id THEN born ELSE life[i]]

Complete ==
    \E id \in DOMAIN life, a \in Answer :
        /\ life[id] = Open
        /\ life' = [life EXCEPT ![id] = Done(a)]

Lapse ==
    \E S \in SUBSET {id \in DOMAIN life : life[id] = Open} :
        life' = [id \in DOMAIN life |-> IF id \in S THEN Lapsed ELSE life[id]]

Next == Appear \/ Complete \/ Lapse

Spec == Init /\ [][Next]_life
=============================================================================
