---------------------------- MODULE PriceHistory ----------------------------
(***************************************************************************)
(* The oracle's WASI component on one endpoint: a run fetches the price,   *)
(* reads the history file, puts the price in front, writes the file back   *)
(* and reports the average of the last hour.                               *)
(*                                                                         *)
(* std::fs::write empties the file before it writes it, so the file passes *)
(* through a state that does not parse; a crash or a failing write leaves  *)
(* it there.  The runtime (external) may have several runs under way: the  *)
(* trigger's and those of the operator's test command.  They share the     *)
(* file and nothing else.                                                  *)
(***************************************************************************)
EXTENDS Integers, Sequences, FiniteSetsExt

CONSTANTS
    Run,          \* runs that may be under way at the same time
    Price,        \* prices the service may return
    Window,       \* seconds averaged over (3600 in the code)
    Limit,        \* entries kept (1000 in the code)
    U64,          \* one more than the largest u64
    StartTime,    \* the clock's first reading, in seconds
    LastTime,     \* bound: the clock stops here
    MaxStepBack,  \* bound: seconds the clock is set back altogether
    MaxRecords    \* bound: no run starts after this many writes

ASSUME HistoryAssumption ==
    /\ Window \in Nat /\ Limit \in Nat \ {0} /\ U64 \in Nat \ {0}
    /\ StartTime \in Nat /\ LastTime \in Nat
    /\ StartTime <= LastTime /\ LastTime < U64
    /\ MaxStepBack \in Nat /\ MaxRecords \in Nat
    /\ Price \subseteq Nat

VARIABLES
    clock,        \* SystemTime::now()
    file,         \* price_history.json: [kind, prices]
    recorded,     \* every entry ever written, oldest first (not in the code)
    phase,        \* how far each run is
    price,        \* the price each run fetched
    now,          \* the time each run took
    history,      \* each run's own copy of the history, newest first
    overlapped,   \* whether two runs were under way at once (not in the code)
    setback       \* seconds the clock was set back (not in the code)

vars  == <<clock, file, recorded, phase, price, now, history, overlapped, setback>>
local == <<price, now, history>>
past  == <<overlapped, setback>>

(***************************************************************************)
(* The file                                                                *)
(***************************************************************************)
Absent == [kind |-> "absent", prices |-> <<>>]
Empty  == [kind |-> "empty",  prices |-> <<>>]   \* created or emptied, not yet written
Torn   == [kind |-> "torn",   prices |-> <<>>]   \* the bytes of no single write
Whole(prices) == [kind |-> "whole", prices |-> prices]

Unreadable == file.kind \in {"empty", "torn"}

(***************************************************************************)
(* Entries                                                                 *)
(***************************************************************************)
\* Mutants: nothing is truncated; the new entry goes to the wrong end; the
\* truncation drops the wrong end
PushedUntruncated(prices, t, p) == <<[time |-> t, price |-> p]>> \o prices
PushedBack(prices, t, p) ==
    LET all == Append(prices, [time |-> t, price |-> p]) IN
    IF Len(all) <= Limit THEN all ELSE SubSeq(all, 1, Limit)
PushedTruncatedFront(prices, t, p) ==
    LET all == <<[time |-> t, price |-> p]>> \o prices IN
    IF Len(all) <= Limit THEN all ELSE SubSeq(all, 2, Limit + 1)

\* record_latest_price: push_front, then truncate
Pushed(prices, t, p) ==
    LET all == <<[time |-> t, price |-> p]>> \o prices IN
    IF Len(all) <= Limit THEN all ELSE SubSeq(all, 1, Limit)

\* Mutant: the second an hour ago is left out
AveragedExclusive(prices, since) ==
    {i \in DOMAIN prices : \A j \in 1..i : prices[j].time > since}

\* average goes through the entries and stops at the first one that is too old
Averaged(prices, since) ==
    {i \in DOMAIN prices : \A j \in 1..i : prices[j].time >= since}

\* now - 3600, a u64 the release build does not check
Since(r) == (now[r] - Window) % U64

Average(r) ==
    LET in == Averaged(history[r], Since(r)) IN
    [sum   |-> MapThenSumSet(LAMBDA i : history[r][i].price, in),
     count |-> Cardinality(in)]

(***************************************************************************)
(* A run                                                                   *)
(***************************************************************************)
Goto(r, p) == phase' = [phase EXCEPT ![r] = p]

Over(r) == phase[r] \in {"idle", "reported", "failed", "unreadable"}

Start(r) ==
    /\ Over(r)
    /\ Len(recorded) < MaxRecords
    /\ Goto(r, "fetching")
    /\ overlapped' = (overlapped \/ \E s \in Run \ {r} : ~Over(s))
    /\ UNCHANGED <<clock, file, recorded, local, setback>>

\* The service answers with a price in US dollars
Fetch(r) ==
    /\ phase[r] = "fetching"
    /\ \E p \in Price : price' = [price EXCEPT ![r] = p]
    /\ Goto(r, "fetched")
    /\ UNCHANGED <<clock, file, recorded, now, history, past>>

\* No API key, a request that fails, status 429 or another one than 200, an
\* answer without a price in US dollars
FetchFails(r) ==
    /\ phase[r] = "fetching"
    /\ Goto(r, "failed")
    /\ UNCHANGED <<clock, file, recorded, local, past>>

\* PriceHistory::read: a missing file is an empty history
Read(r) ==
    /\ phase[r] = "fetched"
    /\ ~Unreadable
    /\ history' = [history EXCEPT ![r] = file.prices]
    /\ Goto(r, "read")
    /\ UNCHANGED <<clock, file, recorded, price, now, past>>

\* A file that does not parse is an error
ReadFails(r) ==
    /\ phase[r] = "fetched"
    /\ Unreadable
    /\ Goto(r, "unreadable")
    /\ UNCHANGED <<clock, file, recorded, local, past>>

\* The time is taken, the price put in front, and std::fs::write opens and
\* empties the file
OpenFile(r) ==
    /\ phase[r] = "read"
    /\ now' = [now EXCEPT ![r] = clock]
    /\ history' = [history EXCEPT ![r] = Pushed(@, clock, price[r])]
    /\ file' = Empty
    /\ Goto(r, "writing")
    /\ UNCHANGED <<clock, recorded, price, past>>

\* std::fs::write writes from the start of the file.  If another run has
\* written since this one emptied it, what that one wrote may stick out
\* behind.
WriteFile(r) ==
    /\ phase[r] = "writing"
    /\ file' \in {Whole(history[r])} \cup (IF file = Empty THEN {} ELSE {Torn})
    /\ recorded' = Append(recorded, history[r][1])
    /\ Goto(r, "written")
    /\ UNCHANGED <<clock, local, past>>

\* A crash of the runtime, or a disk that is full, in the middle of the write
WriteBreaks(r) ==
    /\ phase[r] = "writing"
    /\ file' \in {file, Torn}
    /\ Goto(r, "failed")
    /\ UNCHANGED <<clock, recorded, local, past>>

\* A crash anywhere else: the file stays as it is
Crash(r) ==
    /\ phase[r] \in {"fetching", "fetched", "read", "written"}
    /\ Goto(r, "failed")
    /\ UNCHANGED <<clock, file, recorded, local, past>>

\* The average of the run's own copy is returned
Report(r) ==
    /\ phase[r] = "written"
    /\ Goto(r, "reported")
    /\ UNCHANGED <<clock, file, recorded, local, past>>

(***************************************************************************)
(* The clock                                                               *)
(***************************************************************************)
Tick ==
    /\ clock < LastTime
    /\ clock' = clock + 1
    /\ UNCHANGED <<file, recorded, phase, local, past>>

StepBack ==
    /\ \E d \in 1..MaxStepBack - setback :
          /\ clock - d >= StartTime
          /\ clock' = clock - d
          /\ setback' = setback + d
    /\ UNCHANGED <<file, recorded, phase, local, overlapped>>

(***************************************************************************)
(* The specification                                                       *)
(***************************************************************************)
Init ==
    /\ clock = StartTime
    /\ file = Absent
    /\ recorded = <<>>
    /\ phase = [r \in Run |-> "idle"]
    /\ price = [r \in Run |-> 0]
    /\ now = [r \in Run |-> StartTime]
    /\ history = [r \in Run |-> <<>>]
    /\ overlapped = FALSE
    /\ setback = 0

Step(r) ==
    \/ Start(r) \/ Fetch(r) \/ FetchFails(r) \/ Read(r) \/ ReadFails(r)
    \/ OpenFile(r) \/ WriteFile(r) \/ WriteBreaks(r) \/ Crash(r) \/ Report(r)

Next == (\E r \in Run : Step(r)) \/ Tick \/ StepBack

Spec == Init /\ [][Next]_vars

(***************************************************************************)
(* Correctness                                                             *)
(***************************************************************************)
Entry == [time : Nat, price : Nat]

\* The shape of file and runs: no more than Limit entries in the file, and in
\* what a run is about to write, whichever way it got there.
TypeOK ==
    /\ clock \in StartTime..LastTime
    /\ file \in [kind : {"absent", "empty", "torn", "whole"}, prices : Seq(Entry)]
    /\ recorded \in Seq(Entry)
    /\ phase \in [Run -> {"idle", "fetching", "fetched", "read", "unreadable",
                          "writing", "written", "reported", "failed"}]
    /\ price \in [Run -> Nat]
    /\ now \in [Run -> StartTime..LastTime]
    /\ history \in [Run -> Seq(Entry)]
    /\ overlapped \in BOOLEAN /\ setback \in 0..MaxStepBack
    /\ Len(file.prices) <= Limit
    /\ \A r \in Run : Len(history[r]) <= Limit

\* As long as runs come one after the other, a file that parses holds the
\* newest Limit entries ever written, newest first.  No crash drops some of
\* them silently, and no file is mistaken for a fresh start.
FileIsNewestRecorded ==
    ~overlapped =>
        /\ file.kind = "absent" => recorded = <<>>
        /\ file.kind = "whole" =>
              /\ file.prices # <<>>
              /\ Len(file.prices) <= Len(recorded)
              /\ Len(file.prices) < Len(recorded) => Len(file.prices) = Limit
              /\ \A i \in DOMAIN file.prices :
                    file.prices[i] = recorded[Len(recorded) + 1 - i]

\* As long as runs come one after the other and the clock is never set back,
\* the price a run is about to report is the mean of every price recorded in
\* the last hour, as far as Limit entries reach, those of runs that crashed
\* after their write included.
ReportsHourlyAverage ==
    ~overlapped /\ setback = 0 =>
        \A r \in Run :
            phase[r] = "written" =>
                LET fresh == {i \in DOMAIN recorded :
                                 /\ i > Len(recorded) - Limit
                                 /\ recorded[i].time >= now[r] - Window}
                IN  Average(r) = [sum   |-> MapThenSumSet(LAMBDA i : recorded[i].price, fresh),
                                  count |-> Cardinality(fresh)]

\* The loop ends at the first entry that is too old and relies on times that
\* only grow.  Whatever runs overlap and wherever they crash, an average counts
\* every entry of the last hour in the run's copy, as long as the clock is never
\* set back; and once it was, an entry that is left out has no more seconds of
\* the hour left than the clock was set back altogether.
AveragesAllSince ==
    \A r \in Run :
        phase[r] \in {"writing", "written", "reported"} =>
            {i \in DOMAIN history[r] : history[r][i].time >= Since(r) + setback}
                \subseteq Averaged(history[r], Since(r))

\* A run averages over its own price at least, whatever overlaps, breaks or
\* sets the clock back: the mean is never zero by zero.
OwnPriceCounts ==
    \A r \in Run :
        phase[r] \in {"writing", "written", "reported"} =>
            /\ 1 \in Averaged(history[r], Since(r))
            /\ history[r][1].price = price[r]
=============================================================================
