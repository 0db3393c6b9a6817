------------------------ MODULE PriceHistory_proofs ------------------------
(***************************************************************************)
(* Theorems about PriceHistory for every set of runs, every window, every  *)
(* limit on the entries and every bound.                                   *)
(***************************************************************************)
EXTENDS PriceHistory, SequenceTheorems, FiniteSetTheorems, TLAPS

\* What is proved about sums, which has nothing to do with decimals
Arithmetic == INSTANCE OracleArithmetic_proofs WITH One <- 1, MaxAtomics <- 1

(***************************************************************************)
(* Lemmas about entries                                                    *)
(***************************************************************************)
\* Entries carry a time.
LEMMA EntryTime ==
    ASSUME NEW prices \in Seq(Entry), NEW i \in DOMAIN prices
    PROVE  prices[i] \in Entry /\ prices[i].time \in Nat
<1>1. prices[i] \in Entry
  BY LenProperties, ElementOfSeq
<1> QED BY <1>1 DEF Entry

\* record_latest_price: the new entry comes first, the others move back by
\* one, and only the last one can drop out.
LEMMA PushedEntries ==
    ASSUME NEW prices \in Seq(Entry), Len(prices) <= Limit,
           NEW t \in Nat, NEW p \in Nat
    PROVE  /\ Pushed(prices, t, p) \in Seq(Entry)
           /\ Len(Pushed(prices, t, p))
                = IF Len(prices) < Limit THEN Len(prices) + 1 ELSE Limit
           /\ Pushed(prices, t, p)[1] = [time |-> t, price |-> p]
           /\ \A i \in 2..Len(Pushed(prices, t, p)) :
                 Pushed(prices, t, p)[i] = prices[i - 1]
<1> DEFINE e == [time |-> t, price |-> p]
           one == <<e>>
           all == one \o prices
<1>1. e \in Entry /\ one \in Seq(Entry) /\ Len(one) = 1 /\ one[1] = e
  BY DEF Entry
<1>2. Limit \in Nat \ {0} /\ Len(prices) \in Nat
  BY HistoryAssumption
<1>3. /\ all \in Seq(Entry)
      /\ Len(all) = 1 + Len(prices)
      /\ \A i \in 1..1 + Len(prices) :
            all[i] = IF i <= 1 THEN one[i] ELSE prices[i - 1]
  <2> HIDE DEF one, e
  <2>1. /\ one \o prices \in Seq(Entry)
        /\ Len(one \o prices) = Len(one) + Len(prices)
        /\ \A i \in 1..Len(one) + Len(prices) :
              (one \o prices)[i] = IF i <= Len(one) THEN one[i] ELSE prices[i - Len(one)]
    BY <1>1, ConcatProperties
  <2> QED BY <1>1, <2>1
<1>4. all[1] = e /\ \A i \in 2..1 + Len(prices) : all[i] = prices[i - 1]
  <2> HIDE DEF all, one, e
  <2> QED BY <1>1, <1>2, <1>3
<1>5. Pushed(prices, t, p) = IF Len(all) <= Limit THEN all ELSE SubSeq(all, 1, Limit)
  BY DEF Pushed
<1> HIDE DEF all, one
<1>6. CASE Len(prices) < Limit
  BY <1>2, <1>3, <1>4, <1>5, <1>6
<1>7. CASE ~(Len(prices) < Limit)
  <2>1. Len(prices) = Limit /\ Len(all) = Limit + 1
    BY <1>2, <1>3, <1>7
  <2>2. \A i \in 1..Limit : all[i] \in Entry
    BY <2>1, <1>2, <1>3, ElementOfSeq
  <2>3. /\ SubSeq(all, 1, Limit) \in Seq(Entry)
        /\ Len(SubSeq(all, 1, Limit)) = Limit
        /\ \A i \in 1..Limit : SubSeq(all, 1, Limit)[i] = all[i]
    BY <2>2, <1>2, SubSeqProperties
  <2>4. Pushed(prices, t, p) = SubSeq(all, 1, Limit)
    BY <2>1, <1>2, <1>5
  <2> QED BY <2>1, <2>3, <2>4, <1>2, <1>4
<1> QED BY <1>6, <1>7

(***************************************************************************)
(* Type correctness                                                        *)
(***************************************************************************)
\* What a run may do to everything but itself.
LEMMA StepFrame ==
    ASSUME TypeOK, NEW r \in Run, Step(r)
    PROVE  /\ clock' = clock
           /\ \A s \in Run \ {r} : /\ phase'[s] = phase[s]
                                   /\ now'[s] = now[s]
                                   /\ price'[s] = price[s]
                                   /\ history'[s] = history[s]
BY DEF TypeOK, Step, Start, Fetch, FetchFails, Read, ReadFails, OpenFile, WriteFile,
       WriteBreaks, Crash, Report, Goto, local, past

\* A run leaves the record of the clock alone, and that of overlaps stays.
LEMMA StepPast ==
    ASSUME NEW r \in Run, Step(r)
    PROVE  setback' = setback /\ (overlapped => overlapped')
<1>1. CASE Start(r)
  BY <1>1, Zenon DEF Start
<1>2. CASE ~Start(r)
  <2>1. UNCHANGED past
    BY <1>2 DEF Step, Fetch, FetchFails, Read, ReadFails, OpenFile, WriteFile,
       WriteBreaks, Crash, Report, past
  <2>2. setback' = setback /\ overlapped' = overlapped
    BY <2>1 DEF past
  <2> QED BY <2>2, Zenon
<1> QED BY <1>1, <1>2, Zenon

\* Only a run about to write has a history that matters, and it is not empty.
LoadedOK == \A r \in Run :
    phase[r] \in {"writing", "written", "reported"} => Len(history[r]) # 0

Typed == TypeOK /\ LoadedOK

\* The first state has the shape.
LEMMA InitTyped == Init => Typed
<1> SUFFICES ASSUME Init PROVE Typed
  OBVIOUS
<1>1. overlapped \in BOOLEAN /\ setback = 0
  BY Zenon DEF Init
<1>2. file = Absent /\ phase = [r \in Run |-> "idle"] /\ recorded = <<>>
      /\ clock = StartTime /\ price = [r \in Run |-> 0]
      /\ now = [r \in Run |-> StartTime] /\ history = [r \in Run |-> <<>>]
  BY DEF Init
<1> QED BY <1>1, <1>2, HistoryAssumption DEF Typed, TypeOK, LoadedOK, Absent

\* Every step keeps the shape; only OpenFile and WriteFile build sequences.
LEMMA NextTyped == Typed /\ [Next]_vars => Typed'
<1> SUFFICES ASSUME Typed, [Next]_vars PROVE Typed'
  OBVIOUS
<1> USE HistoryAssumption
<1>1. ASSUME NEW r \in Run, Step(r) PROVE Typed'
  <2>1. CASE Start(r)
    BY <2>1 DEF Start, Goto, Typed, TypeOK, LoadedOK, local, past
  <2>2. CASE Fetch(r)
    BY <2>2 DEF Fetch, Goto, Typed, TypeOK, LoadedOK, past
  <2>3. CASE FetchFails(r)
    BY <2>3 DEF FetchFails, Goto, Typed, TypeOK, LoadedOK, local, past
  <2>4. CASE Read(r)
    BY <2>4 DEF Read, Goto, Typed, TypeOK, LoadedOK, past
  <2>5. CASE ReadFails(r)
    BY <2>5 DEF ReadFails, Goto, Typed, TypeOK, LoadedOK, local, past
  <2>6. CASE OpenFile(r)
    <3> DEFINE old == history[r]
               mine == price[r]
               new == Pushed(old, clock, mine)
    <3>1. new \in Seq(Entry) /\ Len(new) <= Limit /\ Len(new) # 0
      <4>1. old \in Seq(Entry) /\ Len(old) <= Limit /\ clock \in Nat /\ mine \in Nat
        BY DEF Typed, TypeOK
      <4> HIDE DEF old, mine
      <4>2. /\ new \in Seq(Entry)
            /\ Len(new) = IF Len(old) < Limit THEN Len(old) + 1 ELSE Limit
        BY <4>1, PushedEntries
      <4> HIDE DEF new
      <4> QED BY <4>1, <4>2
    <3>2. history' = [history EXCEPT ![r] = new]
      BY <2>6 DEF OpenFile
    <3> HIDE DEF new
    <3> QED BY <2>6, <3>1, <3>2 DEF OpenFile, Goto, Typed, TypeOK, LoadedOK, Empty, past
  <2>7. CASE WriteFile(r)
    <3>1. history[r] \in Seq(Entry) /\ history[r][1] \in Entry /\ Len(history[r]) <= Limit
      BY <2>7, ElementOfSeq DEF WriteFile, Typed, TypeOK, LoadedOK
    <3>2. recorded' \in Seq(Entry)
      BY <2>7, <3>1 DEF WriteFile, Typed, TypeOK
    <3>3. file' \in [kind : {"absent", "empty", "torn", "whole"}, prices : Seq(Entry)]
          /\ Len(file'.prices) <= Limit
      <4>1. CASE file' = Whole(history[r])
        BY <4>1, <3>1 DEF Whole
      <4>2. CASE file' = Torn
        BY <4>2 DEF Torn
      <4> QED BY <2>7, <4>1, <4>2 DEF WriteFile
    <3> QED BY <2>7, <3>1, <3>2, <3>3 DEF WriteFile, Goto, Typed, TypeOK, LoadedOK, local, past
  <2>8. CASE WriteBreaks(r)
    <3>1. file' \in [kind : {"absent", "empty", "torn", "whole"}, prices : Seq(Entry)]
          /\ Len(file'.prices) <= Limit
      <4>1. CASE file' = file
        BY <4>1 DEF Typed, TypeOK
      <4>2. CASE file' = Torn
        BY <4>2 DEF Torn
      <4> QED BY <2>8, <4>1, <4>2 DEF WriteBreaks
    <3> QED BY <2>8, <3>1 DEF WriteBreaks, Goto, Typed, TypeOK, LoadedOK, local, past
  <2>9. CASE Crash(r)
    BY <2>9 DEF Crash, Goto, Typed, TypeOK, LoadedOK, local, past
  <2>10. CASE Report(r)
    BY <2>10 DEF Report, Goto, Typed, TypeOK, LoadedOK, local, past
  <2> QED BY <1>1, <2>1, <2>2, <2>3, <2>4, <2>5, <2>6, <2>7, <2>8, <2>9, <2>10 DEF Step
<1>2. CASE Tick
  BY <1>2 DEF Tick, Typed, TypeOK, LoadedOK, local, past
<1>3. CASE StepBack
  BY <1>3 DEF StepBack, Typed, TypeOK, LoadedOK, local, past
<1>4. CASE UNCHANGED vars
  BY <1>4 DEF vars, Typed, TypeOK, LoadedOK
<1> QED BY <1>1, <1>2, <1>3, <1>4 DEF Next

\* The file and every run's copy of it stay well formed and within the limit,
\* whatever overlaps or breaks.
THEOREM TypeCorrect == Spec => []TypeOK
<1>1. Typed => TypeOK
  BY DEF Typed
<1> QED BY <1>1, InitTyped, NextTyped, PTL DEF Spec

(***************************************************************************)
(* Entries are ordered by time up to the seconds the clock was set back,   *)
(* and the loop that stops at the first old one misses no more than those  *)
(***************************************************************************)
\* An entry may be newer than one before it by slack seconds at most.
Descending(prices, slack) ==
    \A i, j \in DOMAIN prices : i <= j => prices[j].time <= prices[i].time + slack

NotAfter(prices, t) == \A i \in DOMAIN prices : prices[i].time <= t

InOrder(prices) == Descending(prices, setback) /\ NotAfter(prices, clock + setback)

Ordered == InOrder(file.prices) /\ \A r \in Run : InOrder(history[r])

\* An entry of the present keeps a history in order.
LEMMA PushedOrdered ==
    ASSUME NEW prices \in Seq(Entry), Len(prices) <= Limit,
           NEW p \in Nat, NEW t \in Nat, NEW slack \in Nat,
           Descending(prices, slack), NotAfter(prices, t + slack)
    PROVE  Descending(Pushed(prices, t, p), slack) /\ NotAfter(Pushed(prices, t, p), t + slack)
<1> DEFINE new == Pushed(prices, t, p)
<1>1. /\ new \in Seq(Entry)
      /\ Len(new) = IF Len(prices) < Limit THEN Len(prices) + 1 ELSE Limit
      /\ new[1] = [time |-> t, price |-> p]
      /\ \A i \in 2..Len(new) : new[i] = prices[i - 1]
  BY PushedEntries
<1> HIDE DEF new
<1>2. Len(new) \in Nat /\ DOMAIN new = 1..Len(new) /\ Len(new) <= Len(prices) + 1
      /\ Len(prices) \in Nat /\ DOMAIN prices = 1..Len(prices)
  BY <1>1, HistoryAssumption
<1>3. new[1].time = t
  BY <1>1
<1>4. ASSUME NEW i \in DOMAIN new PROVE new[i].time <= t + slack
  <2>1. CASE i = 1
    BY <2>1, <1>3
  <2>2. CASE i # 1
    <3>1. i - 1 \in DOMAIN prices /\ new[i] = prices[i - 1]
      BY <2>2, <1>1, <1>2
    <3> QED BY <3>1 DEF NotAfter
  <2> QED BY <2>1, <2>2
<1>5. ASSUME NEW i \in DOMAIN new, NEW j \in DOMAIN new, i <= j
      PROVE  new[j].time <= new[i].time + slack
  <2>1. CASE i = 1
    BY <2>1, <1>3, <1>4
  <2>2. CASE i # 1
    <3>1. i - 1 \in DOMAIN prices /\ j - 1 \in DOMAIN prices /\ i - 1 <= j - 1
          /\ new[i] = prices[i - 1] /\ new[j] = prices[j - 1]
      BY <2>2, <1>1, <1>2, <1>5
    <3> QED BY <3>1 DEF Descending
  <2> QED BY <2>1, <2>2
<1>6. Descending(new, slack) /\ NotAfter(new, t + slack)
  BY <1>4, <1>5 DEF Descending, NotAfter
<1> QED BY <1>6 DEF new

\* Nothing has been written yet.
LEMMA InitOrdered == Init => Ordered
BY DEF Init, Ordered, InOrder, Descending, NotAfter, Absent

\* Only OpenFile makes a history anew, and it takes the present time.
LEMMA StepOrdered ==
    ASSUME Typed, Ordered, NEW r \in Run, Step(r)
    PROVE  Ordered'
<1>1. clock' = clock /\ setback' = setback
  BY StepFrame, StepPast DEF Typed
<1>2. InOrder(file.prices) /\ \A s \in Run : InOrder(history[s])
  BY DEF Ordered
<1>3. CASE UNCHANGED <<file, history>>
  BY <1>1, <1>2, <1>3 DEF Ordered, InOrder
<1>4. CASE Read(r)
  <2>1. file' = file /\ history' = [history EXCEPT ![r] = file.prices]
    BY <1>4 DEF Read
  <2>2. \A s \in Run : history'[s] = IF s = r THEN file.prices ELSE history[s]
    BY <2>1 DEF Typed, TypeOK
  <2> QED BY <1>1, <1>2, <2>1, <2>2 DEF Ordered, InOrder
<1>5. CASE OpenFile(r)
  <2> DEFINE old == history[r]
             mine == price[r]
             new == Pushed(old, clock, mine)
  <2>1. /\ old \in Seq(Entry) /\ Len(old) <= Limit /\ mine \in Nat
        /\ clock \in Nat /\ setback \in Nat
    BY HistoryAssumption DEF Typed, TypeOK
  <2>2. Descending(old, setback) /\ NotAfter(old, clock + setback)
    BY <1>2 DEF InOrder
  <2>3. file' = Empty /\ history' = [history EXCEPT ![r] = new]
    BY <1>5 DEF OpenFile
  <2> HIDE DEF old, mine
  <2>4. Descending(new, setback) /\ NotAfter(new, clock + setback)
    BY <2>1, <2>2, PushedOrdered
  <2> HIDE DEF new
  <2>5. \A s \in Run : history'[s] = IF s = r THEN new ELSE history[s]
    BY <2>3 DEF Typed, TypeOK
  <2>6. Descending(<<>>, setback) /\ NotAfter(<<>>, clock + setback)
    BY DEF Descending, NotAfter
  <2> QED BY <1>1, <1>2, <2>3, <2>4, <2>5, <2>6 DEF Ordered, InOrder, Empty
<1>6. CASE WriteFile(r) \/ WriteBreaks(r)
  <2>1. history' = history
    BY <1>6 DEF WriteFile, WriteBreaks, local
  <2>2. file'.prices = file.prices \/ file'.prices = <<>> \/ file'.prices = history[r]
    BY <1>6 DEF WriteFile, WriteBreaks, Whole, Torn
  <2>3. Descending(<<>>, setback) /\ NotAfter(<<>>, clock + setback)
    BY DEF Descending, NotAfter
  <2> QED BY <1>1, <1>2, <2>1, <2>2, <2>3 DEF Ordered, InOrder
<1> QED BY <1>3, <1>4, <1>5, <1>6
        DEF Step, Start, Fetch, FetchFails, ReadFails, Crash, Report, local

\* Neither time that passes nor time that steps back, which is noted, disturbs
\* the order.
LEMMA NextOrdered == Typed /\ Ordered /\ [Next]_vars => Ordered'
<1> SUFFICES ASSUME Typed, Ordered, [Next]_vars PROVE Ordered'
  OBVIOUS
<1>1. CASE \E r \in Run : Step(r)
  BY <1>1, StepOrdered
<1>2. CASE Tick \/ StepBack \/ UNCHANGED vars
  <2>1. clock \in Nat /\ setback \in Nat
    BY HistoryAssumption DEF Typed, TypeOK
  <2>2. file' = file /\ history' = history
    BY <1>2 DEF Tick, StepBack, vars, local
  <2>3. /\ clock' \in Int /\ setback' \in Int
        /\ setback <= setback' /\ clock + setback <= clock' + setback'
    <3>1. CASE Tick
      BY <3>1, <2>1 DEF Tick, past
    <3>2. CASE StepBack
      <4>1. PICK d \in 1..MaxStepBack - setback : clock' = clock - d /\ setback' = setback + d
        BY <3>2 DEF StepBack
      <4> QED BY <4>1, <2>1, HistoryAssumption
    <3>3. CASE UNCHANGED vars
      BY <3>3, <2>1 DEF vars
    <3> QED BY <1>2, <3>1, <3>2, <3>3
  <2>4. ASSUME NEW prices \in Seq(Entry), InOrder(prices)
        PROVE  Descending(prices, setback') /\ NotAfter(prices, clock' + setback')
    <3>1. \A i \in DOMAIN prices : prices[i].time \in Nat
      BY EntryTime
    <3> QED BY <2>1, <2>3, <2>4, <3>1 DEF InOrder, Descending, NotAfter
  <2>5. file.prices \in Seq(Entry) /\ \A r \in Run : history[r] \in Seq(Entry)
    BY DEF Typed, TypeOK
  <2> QED BY <2>2, <2>4, <2>5 DEF Ordered, InOrder
<1> QED BY <1>1, <1>2 DEF Next

\* Behind an old entry of an ordered history there is none that is fresh by
\* more than the slack.
LEMMA OrderedAverage ==
    ASSUME NEW prices \in Seq(Entry), NEW slack \in Nat, Descending(prices, slack),
           NEW since \in Int
    PROVE  {i \in DOMAIN prices : prices[i].time >= since + slack}
              \subseteq Averaged(prices, since)
<1>1. \A i \in DOMAIN prices : prices[i].time \in Nat
  BY EntryTime
<1>2. ASSUME NEW i \in DOMAIN prices, prices[i].time >= since + slack, NEW j \in 1..i
      PROVE  prices[j].time >= since
  <2>1. j \in DOMAIN prices /\ j <= i
    OBVIOUS
  <2> QED BY <1>1, <1>2, <2>1 DEF Descending
<1> QED BY <1>2 DEF Averaged

\* Whatever runs overlap and wherever they crash, a run's average leaves out no
\* entry of the last hour that it has at hand, but for as many seconds as the
\* clock was set back.
THEOREM AveragesAll == Spec => []AveragesAllSince
<1>1. Typed /\ Ordered => AveragesAllSince
  <2> SUFFICES ASSUME Typed, Ordered, NEW r \in Run
               PROVE  {i \in DOMAIN history[r] : history[r][i].time >= Since(r) + setback}
                         \subseteq Averaged(history[r], Since(r))
    BY DEF AveragesAllSince
  <2>1. Since(r) \in Int /\ setback \in Nat
    BY HistoryAssumption DEF Since, Typed, TypeOK
  <2>2. history[r] \in Seq(Entry) /\ Descending(history[r], setback)
    BY DEF Typed, TypeOK, Ordered, InOrder
  <2> QED BY <2>1, <2>2, OrderedAverage
<1>2. Typed /\ Ordered /\ [Next]_vars => Typed' /\ Ordered'
  BY NextTyped, NextOrdered
<1>3. Init => Typed /\ Ordered
  BY InitTyped, InitOrdered
<1> QED BY <1>1, <1>2, <1>3, PTL DEF Spec

(***************************************************************************)
(* A run's own price                                                       *)
(***************************************************************************)
OwnFirst == \A r \in Run :
    phase[r] \in {"writing", "written", "reported"} =>
        history[r][1] = [time |-> now[r], price |-> price[r]]

\* OpenFile puts the run's own price in front, and nobody else touches it.
LEMMA NextOwnFirst == Typed /\ OwnFirst /\ [Next]_vars => OwnFirst'
<1> SUFFICES ASSUME Typed, OwnFirst, [Next]_vars PROVE OwnFirst'
  OBVIOUS
<1>1. ASSUME NEW r \in Run, Step(r), ~OpenFile(r) PROVE OwnFirst'
  BY <1>1 DEF Typed, TypeOK, OwnFirst, Goto, local, past, Step, Start, Fetch, FetchFails, Read,
              ReadFails, WriteFile, WriteBreaks, Crash, Report
<1>2. ASSUME NEW r \in Run, OpenFile(r) PROVE OwnFirst'
  <2> DEFINE old == history[r]
             mine == price[r]
             new == Pushed(old, clock, mine)
  <2>1. old \in Seq(Entry) /\ Len(old) <= Limit /\ clock \in Nat /\ mine \in Nat
    BY HistoryAssumption DEF Typed, TypeOK
  <2>2. history' = [history EXCEPT ![r] = new] /\ now' = [now EXCEPT ![r] = clock]
        /\ price' = price /\ phase' = [phase EXCEPT ![r] = "writing"]
    BY <1>2 DEF OpenFile, Goto
  <2>3. mine = price[r]
    OBVIOUS
  <2> HIDE DEF old, mine
  <2>4. new[1] = [time |-> clock, price |-> mine]
    BY <2>1, PushedEntries
  <2> HIDE DEF new
  <2> QED BY <2>2, <2>3, <2>4 DEF OwnFirst, Typed, TypeOK
<1>3. CASE Tick \/ StepBack \/ UNCHANGED vars
  BY <1>3 DEF Tick, StepBack, vars, local, OwnFirst
<1> QED BY <1>1, <1>2, <1>3 DEF Next

\* On a clock that starts an hour after the epoch or later, no run divides by
\* zero, even if the clock is set back in between.
THEOREM OwnPrice ==
    ASSUME Window <= StartTime
    PROVE  Spec => []OwnPriceCounts
<1>1. Typed /\ OwnFirst => OwnPriceCounts
  <2> SUFFICES ASSUME Typed, OwnFirst, NEW r \in Run,
                      phase[r] \in {"writing", "written", "reported"}
               PROVE  /\ 1 \in Averaged(history[r], Since(r))
                      /\ history[r][1].price = price[r]
    BY DEF OwnPriceCounts
  <2>1. now[r] \in Nat /\ now[r] - Window \in 0..U64 - 1
    BY HistoryAssumption DEF Typed, TypeOK
  <2>2. Since(r) = now[r] - Window
    BY <2>1, HistoryAssumption DEF Since
  <2>3. 1 \in DOMAIN history[r]
    BY DEF Typed, TypeOK, LoadedOK
  <2>4. history[r][1] = [time |-> now[r], price |-> price[r]]
    BY DEF OwnFirst
  <2>5. history[r][1].time = now[r] /\ history[r][1].price = price[r]
    BY <2>4
  <2>6. history[r][1].time >= Since(r)
    BY <2>1, <2>2, <2>5, HistoryAssumption
  <2>7. 1 \in Averaged(history[r], Since(r))
    <3> DEFINE prices == history[r]
               since == Since(r)
    <3>1. 1 \in DOMAIN prices /\ prices[1].time >= since
      BY <2>3, <2>6
    <3> HIDE DEF prices, since
    <3>2. 1 \in Averaged(prices, since)
      BY <3>1 DEF Averaged
    <3> QED BY <3>2 DEF prices, since
  <2> QED BY <2>5, <2>7
<1>2. Init => Typed /\ OwnFirst
  BY InitTyped DEF Init, OwnFirst
<1>3. Typed /\ OwnFirst /\ [Next]_vars => Typed' /\ OwnFirst'
  BY NextTyped, NextOwnFirst
<1> QED BY <1>1, <1>2, <1>3, PTL DEF Spec

(***************************************************************************)
(* One run at a time                                                       *)
(***************************************************************************)
\* prices is what is left of log when it is read from its end
NewestOf(prices, log) ==
    /\ Len(prices) <= Len(log)
    /\ Len(prices) < Len(log) => Len(prices) = Limit
    /\ \A i \in DOMAIN prices : prices[i] = log[Len(log) + 1 - i]

Alone == \A r, s \in Run : ~Over(r) /\ ~Over(s) => r = s

InOneLine ==
    /\ Alone
    /\ file.kind = "absent" => recorded = <<>> /\ file.prices = <<>>
    /\ file.kind = "whole" => file.prices # <<>> /\ NewestOf(file.prices, recorded)
    /\ \A r \in Run :
          /\ phase[r] = "read" => NewestOf(history[r], recorded)
          /\ phase[r] = "writing" =>
                /\ file = Empty
                /\ NewestOf(history[r], Append(recorded, history[r][1]))
          /\ phase[r] = "written" => NewestOf(history[r], recorded)

Kept == ~overlapped => InOneLine

\* a of b entries kept, and one more
LEMMA KeptLength ==
    ASSUME NEW a \in Nat, NEW b \in Nat, NEW n \in Nat,
           a <= b, a < b => a = Limit, n = IF a < Limit THEN a + 1 ELSE Limit
    PROVE  n <= b + 1 /\ (n < b + 1 => n = Limit)
BY HistoryAssumption

\* What record_latest_price is about to write is the newest of what will
\* then have been recorded.
LEMMA PushedNewest ==
    ASSUME NEW prices \in Seq(Entry), Len(prices) <= Limit, NEW log \in Seq(Entry),
           NEW t \in Nat, NEW p \in Nat, NewestOf(prices, log)
    PROVE  NewestOf(Pushed(prices, t, p), Append(log, Pushed(prices, t, p)[1]))
<1> DEFINE new == Pushed(prices, t, p)
           e   == new[1]
           all == Append(log, e)
<1>1. /\ new \in Seq(Entry)
      /\ Len(new) = IF Len(prices) < Limit THEN Len(prices) + 1 ELSE Limit
      /\ \A i \in 2..Len(new) : new[i] = prices[i - 1]
  BY PushedEntries
<1> HIDE DEF new
<1>2. Limit \in Nat \ {0} /\ Len(prices) \in Nat /\ Len(log) \in Nat /\ Len(new) \in Nat
      /\ DOMAIN prices = 1..Len(prices) /\ DOMAIN new = 1..Len(new)
  BY <1>1, HistoryAssumption
<1>3. Len(prices) <= Len(log) /\ (Len(prices) < Len(log) => Len(prices) = Limit)
  BY DEF NewestOf
<1>4. Len(new) <= Len(log) + 1 /\ (Len(new) < Len(log) + 1 => Len(new) = Limit)
  BY <1>1, <1>2, <1>3, KeptLength
<1>5. e \in Entry
  BY <1>1, <1>2, ElementOfSeq
<1> HIDE DEF e
<1>6. /\ Len(all) = Len(log) + 1
      /\ \A i \in 1..Len(log) : all[i] = log[i]
      /\ all[Len(log) + 1] = e
  BY <1>5, AppendProperties
<1> HIDE DEF all
<1>7. Len(new) <= Len(all) /\ (Len(new) < Len(all) => Len(new) = Limit)
  BY <1>4, <1>6
<1>8. ASSUME NEW i \in DOMAIN new PROVE new[i] = all[Len(all) + 1 - i]
  <2>1. CASE i = 1
    BY <2>1, <1>2, <1>6 DEF e
  <2>2. CASE i # 1
    <3>1. i - 1 \in DOMAIN prices /\ new[i] = prices[i - 1]
      BY <2>2, <1>1, <1>2
    <3>2. prices[i - 1] = log[Len(log) + 1 - (i - 1)]
      BY <3>1 DEF NewestOf
    <3>3. Len(log) + 1 - (i - 1) = Len(all) + 1 - i /\ Len(all) + 1 - i \in 1..Len(log)
      <4>1. \A n \in Nat : \A m \in 1..n + 1 :
               m # 1 => /\ n + 1 - (m - 1) = (n + 1) + 1 - m
                        /\ (n + 1) + 1 - m \in 1..n
        OBVIOUS
      <4>2. i \in 1..Len(log) + 1
        <5>1. i \in 1..Len(new)
          BY <1>2
        <5>2. \A n \in Nat : \A m \in Nat : n <= m + 1 => 1..n \subseteq 1..m + 1
          OBVIOUS
        <5> QED BY <1>2, <1>4, <5>1, <5>2
      <4>3. Len(all) = Len(log) + 1
        BY <1>6
      <4> QED BY <2>2, <1>2, <4>1, <4>2, <4>3
    <3> QED BY <3>1, <3>2, <3>3, <1>6
  <2> QED BY <2>1, <2>2
<1>9. NewestOf(new, all)
  BY <1>7, <1>8 DEF NewestOf
<1> QED BY <1>9 DEF new, e, all

\* A step of a run that is alone.
LEMMA StepKept ==
    ASSUME Typed, ~overlapped, InOneLine, NEW r \in Run, Step(r), ~overlapped'
    PROVE  InOneLine'
<1> DEFINE old == history[r]
<1>0. \A s \in Run \ {r} : Over(s) /\ phase'[s] = phase[s]
  <2>1. ASSUME NEW s \in Run \ {r} PROVE Over(s)
    <3>1. CASE Start(r)
      BY <3>1 DEF Start
    <3>2. CASE ~Over(r)
      BY <3>2 DEF InOneLine, Alone
    <3> QED BY <3>1, <3>2 DEF Step, Over, Start, Fetch, FetchFails, Read, ReadFails,
            OpenFile, WriteFile, WriteBreaks, Crash, Report
  <2> QED BY <2>1, StepFrame DEF Typed
<1>a. Alone' /\ \A s \in Run \ {r} : phase'[s] \notin {"read", "writing", "written"}
  BY <1>0 DEF Alone, Over
<1>1. CASE /\ UNCHANGED <<file, recorded, history>>
           /\ phase'[r] \notin {"read", "writing", "written"}
  BY <1>a, <1>1 DEF InOneLine, NewestOf
<1>2. CASE Read(r)
  <2>1. file' = file /\ recorded' = recorded /\ phase'[r] = "read"
        /\ history'[r] = file.prices /\ ~Unreadable
    BY <1>2 DEF Read, Goto, Typed, TypeOK
  <2>2. NewestOf(file.prices, recorded)
    <3>1. CASE file.kind = "absent"
      BY <3>1 DEF InOneLine, NewestOf
    <3>2. CASE file.kind = "whole"
      BY <3>2 DEF InOneLine
    <3> QED BY <2>1, <3>1, <3>2 DEF Unreadable, Typed, TypeOK
  <2> QED BY <1>a, <2>1, <2>2 DEF InOneLine, NewestOf
<1>3. CASE OpenFile(r)
  <2> DEFINE mine == price[r]
             new == Pushed(old, clock, mine)
  <2>1. old \in Seq(Entry) /\ Len(old) <= Limit /\ clock \in Nat /\ mine \in Nat
        /\ recorded \in Seq(Entry)
    BY HistoryAssumption DEF Typed, TypeOK
  <2>2. NewestOf(old, recorded)
    BY <1>3 DEF OpenFile, InOneLine
  <2>3. file' = Empty /\ recorded' = recorded /\ phase'[r] = "writing"
        /\ history'[r] = new
    BY <1>3 DEF OpenFile, Goto, Typed, TypeOK
  <2> HIDE DEF old, mine
  <2>4. NewestOf(new, Append(recorded, new[1]))
    BY <2>1, <2>2, PushedNewest
  <2> HIDE DEF new
  <2> QED BY <1>a, <2>3, <2>4 DEF InOneLine, NewestOf, Empty
<1>4. CASE WriteFile(r)
  <2>1. file = Empty /\ NewestOf(old, Append(recorded, old[1])) /\ old # <<>>
    BY <1>4 DEF WriteFile, InOneLine, Typed, TypeOK, LoadedOK
  <2>2. file' = Whole(old) /\ recorded' = Append(recorded, old[1])
        /\ phase'[r] = "written" /\ history' = history
    BY <1>4, <2>1 DEF WriteFile, Goto, local, Typed, TypeOK
  <2> QED BY <1>a, <2>1, <2>2 DEF InOneLine, NewestOf, Whole
<1>5. CASE WriteBreaks(r)
  <2>1. file = Empty
    BY <1>5 DEF WriteBreaks, InOneLine
  <2>2. file'.kind \in {"empty", "torn"} /\ phase'[r] = "failed"
    BY <1>5, <2>1 DEF WriteBreaks, Goto, Typed, TypeOK, Empty, Torn
  <2> QED BY <1>a, <2>2 DEF InOneLine
<1> QED BY <1>1, <1>2, <1>3, <1>4, <1>5
        DEF Step, Start, Fetch, FetchFails, ReadFails, Crash, Report, Goto, local,
            Typed, TypeOK

\* Runs that overlap are noted when the later one starts.
LEMMA NextKept == Typed /\ Kept /\ [Next]_vars => Kept'
<1> SUFFICES ASSUME Typed, Kept, [Next]_vars, ~overlapped' PROVE InOneLine'
  BY DEF Kept
<1>1. ASSUME NEW r \in Run, Step(r) PROVE InOneLine'
  <2>1. overlapped => overlapped'
    BY <1>1, StepPast
  <2>2. ~overlapped /\ InOneLine
    BY <2>1 DEF Kept
  <2> QED BY <1>1, <2>2, StepKept
<1>2. CASE Tick \/ StepBack \/ UNCHANGED vars
  <2>1. /\ file' = file /\ recorded' = recorded /\ phase' = phase /\ history' = history
        /\ overlapped' = overlapped
    BY <1>2 DEF Tick, StepBack, vars, local, past
  <2>2. InOneLine
    BY <2>1 DEF Kept
  <2> QED BY <2>1, <2>2 DEF InOneLine, Alone, Over, NewestOf
<1> QED BY <1>1, <1>2 DEF Next

LEMMA InitKept == Init => Kept
<1> SUFFICES ASSUME Init PROVE InOneLine
  BY DEF Kept
<1>1. \A r \in Run : phase[r] = "idle"
  BY DEF Init
<1> QED BY <1>1 DEF Init, InOneLine, Alone, Over, Absent

\* As long as runs do not overlap, a file that parses is complete: nothing
\* recorded is lost but what the limit drops, whatever crashes.
THEOREM NewestRecorded == Spec => []FileIsNewestRecorded
<1>1. Kept => FileIsNewestRecorded
  BY DEF Kept, InOneLine, FileIsNewestRecorded, NewestOf
<1>2. Init => Typed /\ Kept
  BY InitTyped, InitKept
<1>3. Typed /\ Kept /\ [Next]_vars => Typed' /\ Kept'
  BY NextTyped, NextKept
<1> QED BY <1>1, <1>2, <1>3, PTL DEF Spec

(***************************************************************************)
(* The average that is reported                                            *)
(***************************************************************************)
LEMMA FiniteThere ==
    ASSUME NEW S, IsFiniteSet(S), NEW w
    PROVE  /\ Arithmetic!IsFiniteSet(S)
           /\ (\A x \in S : w[x] \in Nat) => Arithmetic!Weights(S, w)
<1>1. Arithmetic!IsFiniteSet(S)
  BY DEF Arithmetic!IsFiniteSet, IsFiniteSet
<1> QED BY <1>1 DEF Arithmetic!Weights

\* The sum of prices in the code is a sum as OracleArithmetic_proofs has it.
PriceSum(prices, S) == MapThenSumSet(LAMBDA i : prices[i].price, S)

LEMMA PriceTotal ==
    ASSUME NEW prices, NEW S, IsFiniteSet(S)
    PROVE  PriceSum(prices, S) = Arithmetic!Total(S, [i \in S |-> prices[i].price])
<1> DEFINE w == [i \in S |-> prices[i].price]
           Summed(g, s) == IF s = {} THEN 0
                           ELSE LET x == CHOOSE x \in s : TRUE
                                IN prices[x].price + g[s \ {x}]
           Fold(g) == g = [s \in SUBSET S |-> Summed(g, s)]
           sum == CHOOSE g : Fold(g)
<1>1. ASSUME NEW g PROVE Fold(g) <=> Arithmetic!Adds(S, w, g)
  <2>1. ASSUME NEW s \in SUBSET S PROVE Summed(g, s) = Arithmetic!AddsUp(w, g, s)
    <3>1. s # {} => (CHOOSE x \in s : TRUE) \in S
      OBVIOUS
    <3> QED BY <3>1 DEF Arithmetic!AddsUp
  <2> HIDE DEF Summed
  <2> QED BY <2>1 DEF Arithmetic!Adds
<1>2. PriceSum(prices, S) = sum[S]
  BY DEF PriceSum, MapThenSumSet, MapThenFoldSet
<1> HIDE DEF Fold, w
<1>3. Arithmetic!IsFiniteSet(S)
  BY FiniteThere
<1>4. Arithmetic!Adds(S, w, sum)
  BY <1>1, <1>3, Arithmetic!SomeFold
<1>5. Arithmetic!Total(S, w) = sum[S]
  BY <1>3, <1>4, Arithmetic!TotalIsFold
<1> QED BY <1>2, <1>5 DEF w

\* Entries of the last hour: in a history, by position, and in the log of all
\* that was recorded
FreshIn(prices, since) == {i \in DOMAIN prices : prices[i].time >= since}
FreshOf(log, since) == {i \in DOMAIN log : i > Len(log) - Limit /\ log[i].time >= since}

\* A history that is what is left of the log holds the same fresh entries in
\* reverse.
LEMMA FreshMirrored ==
    ASSUME NEW prices \in Seq(Entry), NEW log \in Seq(Entry), Len(prices) <= Limit,
           NewestOf(prices, log), NEW since \in Int
    PROVE  LET n == Len(log)
               f == [i \in FreshIn(prices, since) |-> n + 1 - i]
           IN  /\ \A i \in FreshIn(prices, since) :
                     f[i] \in FreshOf(log, since) /\ prices[i] = log[f[i]]
               /\ \A i \in FreshIn(prices, since) : \A j \in FreshIn(prices, since) :
                     f[i] = f[j] => i = j
               /\ \A t \in FreshOf(log, since) : \E i \in FreshIn(prices, since) : f[i] = t
<1> DEFINE n == Len(log)
           l == Len(prices)
           S == FreshIn(prices, since)
           T == FreshOf(log, since)
           f == [i \in S |-> n + 1 - i]
<1>1. /\ n \in Nat /\ l \in Nat /\ Limit \in Nat
      /\ DOMAIN prices = 1..l /\ DOMAIN log = 1..n
      /\ l <= Limit /\ l <= n /\ (l < n => l = Limit)
  BY HistoryAssumption DEF NewestOf
<1>2. \A i \in 1..l : prices[i] = log[n + 1 - i]
  BY <1>1 DEF NewestOf
<1> HIDE DEF n, l
<1>3. \A i \in 1..l : n + 1 - i \in 1..n /\ n + 1 - i > n - Limit
  BY <1>1
<1>4. \A t \in 1..n : t > n - Limit => n + 1 - t \in 1..l /\ n + 1 - (n + 1 - t) = t
  BY <1>1
<1>5. \A i \in S : i \in 1..l /\ prices[i].time >= since
  BY <1>1 DEF FreshIn
<1>6. \A i \in S : f[i] \in T /\ prices[i] = log[f[i]]
  BY <1>1, <1>2, <1>3, <1>5 DEF FreshOf, n
<1>7. \A i \in S : \A j \in S : f[i] = f[j] => i = j
  BY <1>1, <1>5
<1>8. ASSUME NEW t \in T PROVE \E i \in S : f[i] = t
  <2>1. t \in 1..n /\ t > n - Limit /\ log[t].time >= since
    BY <1>1 DEF FreshOf, n
  <2>2. n + 1 - t \in 1..l /\ n + 1 - (n + 1 - t) = t
    BY <1>4, <2>1
  <2>3. prices[n + 1 - t] = log[t]
    BY <1>2, <2>2
  <2>4. n + 1 - t \in S
    BY <1>1, <2>1, <2>2, <2>3 DEF FreshIn
  <2> QED BY <2>2, <2>4
<1> QED BY <1>6, <1>7, <1>8 DEF n

\* Sum and number of the fresh entries are the same in both.
LEMMA FreshAgree ==
    ASSUME NEW prices \in Seq(Entry), NEW log \in Seq(Entry), Len(prices) <= Limit,
           NewestOf(prices, log), NEW since \in Int
    PROVE  /\ PriceSum(prices, FreshIn(prices, since)) = PriceSum(log, FreshOf(log, since))
           /\ Cardinality(FreshIn(prices, since)) = Cardinality(FreshOf(log, since))
<1> DEFINE S == FreshIn(prices, since)
           T == FreshOf(log, since)
           f == [i \in S |-> Len(log) + 1 - i]
           w == [i \in S |-> prices[i].price]
           u == [i \in T |-> log[i].price]
<1>1. /\ \A i \in S : f[i] \in T /\ prices[i] = log[f[i]]
      /\ \A i \in S : \A j \in S : f[i] = f[j] => i = j
      /\ \A t \in T : \E i \in S : f[i] = t
  BY FreshMirrored
<1>2. IsFiniteSet(S) /\ IsFiniteSet(T)
  <2>1. \A k \in Nat : IsFiniteSet(1..k)
    BY FS_Interval
  <2>2. S \subseteq 1..Len(prices) /\ T \subseteq 1..Len(log)
    BY DEF FreshIn, FreshOf
  <2>3. Len(prices) \in Nat /\ Len(log) \in Nat
    OBVIOUS
  <2> QED BY <2>1, <2>2, <2>3, FS_Subset
<1>3. \A i \in T : u[i] \in Nat
  <2>1. ASSUME NEW i \in T PROVE log[i].price \in Nat
    <3>1. log[i] \in Entry
      BY ElementOfSeq DEF FreshOf
    <3> QED BY <3>1 DEF Entry
  <2> QED BY <2>1
<1>4. \A i \in S : w[i] = u[f[i]]
  BY <1>1
<1>5. PriceSum(prices, S) = Arithmetic!Total(S, w) /\ PriceSum(log, T) = Arithmetic!Total(T, u)
  BY <1>2, PriceTotal
<1>6. f \in Bijection(S, T)
  BY <1>1 DEF Bijection, Injection, Surjection, IsInjective
<1> HIDE DEF S, T, f, w, u
<1>7. Arithmetic!IsFiniteSet(S) /\ Arithmetic!Weights(T, u)
  BY <1>2, <1>3, FiniteThere
<1>8. Arithmetic!Renames(S, T, w, u, f)
  BY <1>1, <1>4 DEF Arithmetic!Renames
<1>9. Arithmetic!Total(S, w) = Arithmetic!Total(T, u)
  BY <1>7, <1>8, Arithmetic!TotalRenamed
<1>10. Cardinality(S) = Cardinality(T)
  BY <1>2, <1>6, FS_Bijection DEF ExistsBijection
<1> QED BY <1>5, <1>9, <1>10 DEF S, T

\* On a clock that starts an hour after the epoch or later, and as long as runs
\* do not overlap and the clock is not set back, what a run reports is the mean
\* of all prices recorded in the last hour, those of crashed runs included.
THEOREM HourlyAverage ==
    ASSUME Window <= StartTime
    PROVE  Spec => []ReportsHourlyAverage
<1>1. Typed /\ Ordered /\ Kept => ReportsHourlyAverage
  <2> SUFFICES ASSUME Typed, Ordered, Kept, ~overlapped, setback = 0,
                      NEW r \in Run, phase[r] = "written"
               PROVE  Average(r) =
                        [sum   |-> PriceSum(recorded, FreshOf(recorded, now[r] - Window)),
                         count |-> Cardinality(FreshOf(recorded, now[r] - Window))]
    BY DEF ReportsHourlyAverage, PriceSum, FreshOf
  <2> DEFINE since == now[r] - Window
  <2>1. since \in 0..U64 - 1 /\ Since(r) = since
    <3>1. now[r] \in Nat /\ now[r] - Window \in 0..U64 - 1
      BY HistoryAssumption DEF Typed, TypeOK
    <3> QED BY <3>1, HistoryAssumption DEF Since
  <2>2. /\ history[r] \in Seq(Entry) /\ recorded \in Seq(Entry)
        /\ Len(history[r]) <= Limit /\ Descending(history[r], 0)
        /\ NewestOf(history[r], recorded)
    BY DEF Typed, TypeOK, Ordered, InOrder, Kept, InOneLine
  <2> HIDE DEF since
  <2>3. since \in Int
    BY <2>1, HistoryAssumption
  <2>4. Averaged(history[r], since) = FreshIn(history[r], since)
    <3>1. {i \in DOMAIN history[r] : history[r][i].time >= since + 0}
             \subseteq Averaged(history[r], since)
      BY <2>2, <2>3, OrderedAverage
    <3>2. \A i \in DOMAIN history[r] : i \in 1..i /\ history[r][i].time \in Nat
      BY <2>2, EntryTime
    <3> QED BY <2>3, <3>1, <3>2 DEF FreshIn, Averaged
  <2>5. Average(r) = [sum   |-> PriceSum(history[r], FreshIn(history[r], since)),
                      count |-> Cardinality(FreshIn(history[r], since))]
    BY <2>1, <2>4 DEF Average, PriceSum
  <2>6. /\ PriceSum(history[r], FreshIn(history[r], since))
             = PriceSum(recorded, FreshOf(recorded, since))
        /\ Cardinality(FreshIn(history[r], since)) = Cardinality(FreshOf(recorded, since))
    BY <2>2, <2>3, FreshAgree
  <2> QED BY <2>5, <2>6 DEF since
<1>2. Init => Typed /\ Ordered /\ Kept
  BY InitTyped, InitOrdered, InitKept
<1>3. Typed /\ Ordered /\ Kept /\ [Next]_vars => Typed' /\ Ordered' /\ Kept'
  BY NextTyped, NextOrdered, NextKept
<1> QED BY <1>1, <1>2, <1>3, PTL DEF Spec
=============================================================================
