----------------------------- MODULE QueueView -----------------------------
(***************************************************************************)
(* Clients that read a task queue while it changes.  The view command      *)
(* joins the answers of two queries, one for the open tasks and one for    *)
(* the completed ones; a pager goes through list_open page by page, each   *)
(* page starting after the last id of the one before.  Blocks are produced *)
(* between the queries.  Readers change nothing, so one of them at a time, *)
(* reading once, is enough.                                                *)
(***************************************************************************)
EXTENDS DeployedQueue

CONSTANTS
    StartAfter,      \* ids a view may start after, None among them
    ViewLimit,       \* limits a view may be asked for
    PageLimit        \* page sizes

VARIABLES view,      \* a view: its arguments and the two answers
          pager      \* a walk through list_open

viewVars == <<now, config, tasks, view, pager>>

(***************************************************************************)
(* tasks_view                                                              *)
(***************************************************************************)
\* Mutant: the queries the other way round
QuerySwapped(which, start_after, limit) ==
    IF which = "second" THEN Queue!ListOpen(start_after, limit)
    ELSE Queue!ListCompleted(start_after, limit)

\* The first query asks for the open tasks, the second one for the completed
\* tasks.  Nothing ties the two to one block.
Query(which, start_after, limit) ==
    IF which = "first" THEN Queue!ListOpen(start_after, limit)
    ELSE Queue!ListCompleted(start_after, limit)

ViewOpen(start_after, limit) ==
    /\ view.phase = "none" /\ pager.phase = "none"
    /\ view' = [phase |-> "half", start_after |-> start_after, limit |-> limit,
                next_id |-> config.next_id, since |-> now,
                first |-> Query("first", start_after, limit), second |-> <<>>]
    /\ UNCHANGED <<queueVars, pager>>

ViewCompleted ==
    /\ view.phase = "half"
    /\ view' = [view EXCEPT !.phase = "shown",
                            !.second = Query("second", view.start_after, view.limit)]
    /\ UNCHANGED <<queueVars, pager>>

\* Mutant: one list behind the other
Concatenated == view.first \o view.second

\* Both lists in one, newest first: the i-th line is the id that fewer than i
\* lines are newer than and at least i are not older than.
Shown ==
    LET all == view.first \o view.second
        Newer(id)    == {k \in DOMAIN all : all[k] > id}
        NotOlder(id) == {k \in DOMAIN all : all[k] >= id}
    IN  [i \in DOMAIN all |->
            CHOOSE id \in ToSet(all) :
                Cardinality(Newer(id)) < i /\ i <= Cardinality(NotOlder(id))]

(***************************************************************************)
(* Paging                                                                  *)
(***************************************************************************)
StartPaging ==
    /\ pager.phase = "none" /\ view.phase = "none"
    /\ pager' = [phase |-> "paging", start_after |-> None, seen |-> <<>>,
                 open |-> Queue!ListedOpen]
    /\ UNCHANGED <<queueVars, view>>

\* Mutant: the next page starts after the first id of this one
ContinueAfterFirst(page) == page[1]

\* The id the next page starts after
ContinueAfter(page) == page[Len(page)]

\* A page that is not full is the last one.
NextPage(limit) ==
    /\ pager.phase = "paging"
    /\ LET page == Queue!ListOpen(pager.start_after, limit) IN
       pager' = [pager EXCEPT
                   !.phase = IF Len(page) < limit THEN "done" ELSE "paging",
                   !.start_after = IF page = <<>> THEN @ ELSE ContinueAfter(page),
                   !.seen = @ \o page]
    /\ UNCHANGED <<queueVars, view>>

(***************************************************************************)
(* The specification                                                       *)
(***************************************************************************)
ViewInit ==
    /\ Queue!Init
    /\ view = [phase |-> "none", start_after |-> None, limit |-> None, next_id |-> 1,
               since |-> StartTime, first |-> <<>>, second |-> <<>>]
    /\ pager = [phase |-> "none", start_after |-> None, seen |-> <<>>, open |-> {}]

\* A transaction on the queue, or a later block
ViewBlock == Queue!Next /\ UNCHANGED <<view, pager>>

View == \/ \E start_after \in StartAfter, limit \in ViewLimit : ViewOpen(start_after, limit)
        \/ ViewCompleted

Paging == StartPaging \/ \E limit \in PageLimit : NextPage(limit)

ViewNext == ViewBlock \/ View \/ Paging

ViewSpec == ViewInit /\ [][ViewNext]_viewVars

(***************************************************************************)
(* Assumptions on the constants                                            *)
(***************************************************************************)
\* start_after is an Option<u64> and limit an Option<u32>; a page has at least
\* one line.
ASSUME ReaderAssumption ==
    /\ StartAfter \subseteq Nat \cup {None}
    /\ ViewLimit \subseteq Nat \cup {None}
    /\ PageLimit \subseteq Nat \ {0}

(***************************************************************************)
(* Correctness                                                             *)
(***************************************************************************)
\* A list may have left the task out: it is full of newer ones.
CutOff(list, id) ==
    /\ view.limit # None
    /\ Len(list) = view.limit
    /\ \A i \in DOMAIN list : list[i] > id

\* The two answers of a view may belong to different blocks, and still no task
\* falls between them: whatever was created before the view and lies in its
\* range is shown, unless it has expired or was pushed off a full list.
NoTaskFallsBetween ==
    view.phase = "shown" =>
        \A id \in 1..view.next_id - 1 :
            \/ view.start_after # None /\ id >= view.start_after
            \/ id \in ToSet(Shown)
            \/ Queue!ObservedStatus(tasks[id]) = "expired"
            \/ CutOff(view.first, id)
            \/ CutOff(view.second, id)

\* A task shown twice was completed while the view was made, and its two lines
\* come one after the other.
ShownTwiceWhenCompletedMeanwhile ==
    \A i, j \in DOMAIN Shown :
        i < j /\ Shown[i] = Shown[j] =>
            /\ j = i + 1
            /\ tasks[Shown[i]].status = "completed"
            /\ tasks[Shown[i]].completed_at >= view.since

\* A pager sees no task twice, and every task that was open before its first
\* page and still is after its last one.
PagerSeesEveryOpenTask ==
    /\ IsInjective(pager.seen)
    /\ pager.phase = "done" =>
          pager.open \cap Queue!ListedOpen \subseteq ToSet(pager.seen)
=============================================================================
