# The oracle AVS in TLA+

A verification development for the oracle AVS example: three CosmWasm contracts
(`contracts/`), the WASI component that operators run (`wasi/oracle-example`) and
the command line that deploys and watches them (`tools/cli`). It holds TLA+ models
of the contracts, the TLC configurations that check them, and TLAPS proofs.

## 1. The system

A *requestor* creates price tasks in the **task queue**. *Operators* run the WASI
component, which fetches a price and averages it over its own history, and send
the result to the **oracle verifier** as a vote. The verifier asks the **operator
contract** for the voter's power and the queue for the task's status. When enough
power has voted it takes the median, measures how much power agrees with it,
slashes the outliers and sends the price to the queue, which stores it.

| Component | State | Operations | Talks to |
|---|---|---|---|
| Task queue (`contracts/task-queue`) | next id, requestor, timeout limits, verifier; tasks with status, timing, result, indexed by status | `create`, `complete`, `timeout`; `task`, `task_status`, `list_open`, `list_completed`, `config` | called by the verifier (`Complete`) and queried by it |
| Oracle verifier (`contracts/oracle-verifier`) | config; votes by task and operator; tallies by task and result string; metadata by task; slashed operators | `executed_task`; `task_info`, `operator_vote`, `slashable_operators`, `config` | queries queue and operators, sends `Complete` |
| Mock operators (`contracts/mock-operators`) | operator list, total power | `voting_power`, `total_power`, `all_voters` | queried by the verifier |
| WASI component (`wasi/oracle-example`) | price history file (at most 1000 entries, newest first) | `run_task`: fetch, read, record, average | price service, file system |
| CLI: contracts (`commands/deploy.rs`) | a pool of clients; codes and contracts on the chain | parse operators, upload three codes, instantiate operators, verifier and queue | chain |
| CLI: component (`commands/wasmatic.rs`) | none of its own; applications and components at every endpoint | deploy, remove, test | endpoints of all operators |
| CLI: tasks (`commands/task_queue.rs`) | none of its own | add a task, view the queue | task queue |

What is hard here, and what makes each part right:

* **Deadlines.** Nobody has to mark a task as expired: the stored status lags behind
  the clock, and four places in the code compare the clock with the deadline. They
  must agree on the deadline's own second, a task must complete before it or
  not at all, and a closed task must stay closed.
* **Two contracts, one decision.** The verifier keeps a copy of the status and
  deadline it read at the first vote. Completion must reach both contracts or neither.
* **Order of votes.** Votes come in any order, some of them after the outcome. The
  published price must be that of all recorded votes, the slashed operators exactly
  those who strayed from a published price.
* **Arithmetic.** Fixed-point numbers round down and abort on overflow, `u64` deadlines
  wrap. The ranges of valid and of slashable prices must not cross.
* **Files.** The history is read, extended and written back by runs that may crash
  anywhere, overlap on one file, or see a clock that was set back. A damaged file must
  be noticed, and no price of the last hour may be lost.
* **Partial failures.** Deployments are several remote calls, each of which may be
  refused, lost, or carried out after its sender has given up. What they leave behind
  must fit together, must not be mistaken for a success, and must not stop the next try.
* **Stale views.** A view joins two queries, a pager many, and blocks come in between.

## 2. The modules

| Module | Models | Correspondence |
|---|---|---|
| `Storage` | `cw_storage_plus` maps (external) | a map is a function, `Save` is `map.save` |
| `TaskQueue` | the task-queue contract | `config` = `CONFIG`, `tasks` = `TASKS`, `now` = block time; `Create`, `Complete`, `Timeout` are the execute handlers, `Tick` a later block; `ObservedStatus` = `validate_status`, `ListOpen` and `ListCompleted` the queries |
| `TaskLifecycle` | what the queue promises its clients | no clock: tasks appear, are answered at most once, or lapse |
| `OraclePrices` | the verifier's arithmetic | one operator for each helper of `process_votes` |
| `MockOperators` | the operator contract | `registry` = its `CONFIG` |
| `OracleVerifier` | the verifier contract | `settings`, `votes`, `options`, `metadata`, `slashed` = `CONFIG`, `VOTES`, `OPTIONS`, `TASKS`, `SLASHED_OPERATORS`; `StoreVote`, `KeepOpen`, `ReportPrice` are the three outcomes of `executed_task` |
| `AvsOracle` | the deployed system | composes the three contracts; a step is a transaction |
| `PriceOracle` | what the deployed system promises requestors and operators | a round of votes for each task, at most one price in the middle of the votes, no penalty for agreeing with it |
| `PriceHistory` | the WASI component on one endpoint | `file` = `price_history.json`; `Start`, `Fetch`, `Read`, `OpenFile`, `WriteFile`, `Report` are the steps of `run_task`, `Pushed` and `Averaged` are `record` and `average`; `Crash`, `WriteBreaks`, `Tick`, `StepBack` the environment |
| `ContractDeployment` | `deploy.rs` and the client pool | `upload` is the state of the three concurrent uploads, `phase` the contract whose instantiation is under way, `codes` and `contracts` the chain, `strays` transactions that land late |
| `WasmaticClient` | `wasmatic.rs` | `stage` and `answer` are the futures `join_all` waits for; `Serve`, `Refuse`, `ArriveLate` the endpoints (external), `LoseRequest`, `LoseAnswer` the network |
| `DeployedQueue` | the queue on the chain, as the two modules below find it and extend it | `now`, `config`, `tasks` of `TaskQueue` (its instance `Queue`) |
| `QueueClient` | `add_task` against `TaskQueue` | `Payment` is the match on the requestor, `Report` the id read from the answer |
| `QueueView` | `tasks_view`, and a walk through `list_open` page by page, against `TaskQueue` | `ViewOpen`, `ViewCompleted` the two queries, `Shown` the sorted lines |
| `TaskQueue_proofs`, `OracleArithmetic_proofs`, `OraclePrices_proofs`, `AvsOracle_proofs`, `PriceHistory_proofs`, `ContractDeployment_proofs`, `WasmaticClient_proofs`, `QueueClient_proofs` | theorems | section 5 |
| `MC...` | instances for TLC | section 3 |

Conventions. A transaction that returns an error, or panics, changes nothing, so every
early return is a guard. Messages a contract sends belong to the transaction: the vote
that publishes a price is one step of verifier and queue, disabled when the queue
would refuse. Payloads and descriptions are opaque and left out. Block height is left
out: the operator contract ignores it. A result string is a value with a price
(`PriceOf`); several strings may spell one price, as in the code, where tallies are
kept by string. Strings that do not parse abort the transaction and are left out.
The verifier's maps are keyed by queue as well as task; one queue is deployed with it,
so the queue is left out of the keys. In the CLI an `await` ends a step: what the
command knew before is kept in its own variables, and anybody else may act in between.

External code, modelled from its use: `ensure_valid_vote` of `lavs_helpers` (an
operator votes once and needs power; the first vote copies status and deadline from the
queue and rounds the required power up; a task that is not open any more takes no
vote), `Decimal` (products and ratios round down, overflow aborts), `must_pay` and
`nonpayable`; `std::fs::write`, which empties a file before it writes it; the wasmatic
endpoints, which hold components and applications by name and refuse a name that
is taken.

Variables marked "not in the code" only record what happened (`overlapped`, `setback`,
`recorded`, `trouble`, `withdrawn`, `author`, `reported`), for properties to refer to.

Operators whose comment starts with "Mutant" are deliberate mistakes, one for
each checked property: with the mistake in place of the definition it follows, TLC
refutes the property. No other definition uses them.

## 3. The runs

| Run | Instance | Shows |
|---|---|---|
| `queue` | every combination of limits up to 2 seconds, valid or not, both kinds of requestor, and one that takes any timeout of a clock of 16, 2 tasks, 4 seconds after the start | results, deadlines, lifetimes, agreement of the three notions of "open", closed tasks final, refinement of `TaskLifecycle`, every task stops being reported open |
| `prices` | up to 4 votes, 6 prices, 2 powers, 5 spreads, 5 thresholds, `One` = 100, `MaxAtomics` = 24 | the median against a sorted list, majority and median, valid votes never slashable, rounding never decides the threshold, no overflow below half the range |
| `oracle` | 3 operators with the powers of the repository's tests and a signer without power; either 2 tasks with 2 prices, or 1 task with 5 result strings (two spell one price, one is high enough to overflow) under required percentages 0, 70, 100, 150, thresholds 40, 90, 100, with and without a duplicate operator, or with powers 5, 4, 2 and required percentages 70, 95, of which the share is not whole | contracts agree, tallies and slashed operators match the votes, the published price is the median for good, quorum first and within reach, only an outlier stalls a task, votes final, refinement of `PriceOracle` |
| `oracle_timely` | 1 task, honest operators, required percentages 0, 70, 100, threshold 100 | whoever votes in time gets a price published |
| `history` | 2 runs, 2 prices, a window of 1 second, a file of 2 entries, up to 3 writes, clock set back by 2 altogether | what a file that parses holds, what is averaged, after crashes, overlaps and clock changes |
| `deployment` | 3 uploads, 2 runs with good, bad or no operators and a pool of 0, 1 or 2 clients, 2 broken connections | contracts refer to contracts of their own run, good runs go through |
| `wasmatic` | 2 people, 2 endpoints, 1 name, 2 components, 3 commands, 1 broken connection | endpoints differ only after reported trouble, of two deployments at most one succeeds |
| `wasmatic_retry` | 1 person, 2 endpoints, 2 broken connections, 14 commands | removing and deploying again succeeds in the end |
| `readers` | 3 tasks, one view with any start and limit, or one walk with pages of 1 and 2 | no task falls between queries or pages, a task is shown twice only if completed meanwhile |
| `add_task` | 2 clients, 3 tasks, a fixed requestor or a price of 0 or 2, a timeout left open, accepted or too long, 1 broken connection | ids go to their owners, the queue accepts what the client works out, unless the price is nothing, and then nobody adds a task |

Violation runs, where the code does not do what the repository says:

| Run | The repository says | The code does |
|---|---|---|
| `oracle_threshold` | the threshold is a share of the total power (`oracle-verifier/src/contract.rs:809`) | line 183 passes the tally of the last voter's own result string: with 50, 30 and 20 votes, 90% needed and the last voter alone with its string, 30% is enough |
| `oracle_task_info` | tallies of the task asked for (`oracle-verifier/src/msg.rs:52`) | tallies of every task (`contract.rs:360`) |

Smaller disagreements, visible in the modules and not violation runs of their own:

* A timeout that takes the deadline past the largest `u64` makes it wrap into the past
  (`task-queue/src/state.rs:155`; no release profile turns overflow checks on), and the task may be marked as
  timed out at once, where `contracts/task-queue/README.md:40` lets it be marked once its time has passed.
  `LifetimeWithinLimits` says what such a task is: expired from the block that creates it.
* `list_open` is newest first (`task-queue/src/contract.rs:232`), the README's line 45
  says oldest first; `list_completed` is by id (`contract.rs:274`), line 46 says most
  recently closed first.
* `threshold_percentage` is described as how many must submit
  (`oracle-verifier/src/msg.rs:15`) and is how many must agree (`contract.rs:260`);
  `required_percentage` is described as the power needed to agree (`msg.rs:21`) and is
  the power needed to vote at all (`contract.rs:177`).
* A crash inside `std::fs::write` (`price_history.rs:41`) leaves a history file that no
  later run can read, where the comment at line 20 promises to start empty; nothing
  repairs it.
* After the clock was set back, `average` (`price_history.rs:57`) stops at an entry that
  is too old with fresh ones behind it; line 48 says "since the specified time". `AveragesAllSince` says how
  fresh they can be.
* The walkthrough's `wasmatic test --input ''` (`DEMO.md:73`) and
  `add-task -b ''` (`DEMO.md:88`) are refused by the JSON parsers
  (`wasmatic.rs:173`, `task_queue.rs:62`).
* `wasmatic:5` gives the power 5 to the first endpoint's operator only, the others get 1
  (`deploy.rs:55`, against `args.rs:76`).

**Why the bounds are enough.** Two tasks are the least on which ids, order and the
mixing of tasks show; a task never reads another one except in lists, and lists with
limits and pages need the third. Timeouts 0, 1, 2 put an event before, on and after
every deadline. Three operators are the least for an even and an odd median below and at
the quorum, four votes put the even median between two distinct inner prices; small
prices make both ends of the ranges round, and small `MaxAtomics` reaches every
overflow. Of the powers 5, 4, 2 seven tenths are 7.7 and 95% are 10.45: rounded up, the
first is just missed by 5 and 2, and the second asks for everybody; rounded down they would not be. `InScope` keeps the two halves of run `oracle` apart: two tasks need
different prices and times but no exotic deployment, exotic deployments need one task.
In `history`, three writes overflow a file of two, and one second of window with one
or two seconds of step back gives entries inside, on and outside the hour. Two runs are the
least that overlap. Two endpoints are the least that can differ, and a pool of two clients
for three uploads makes one of them wait, a pool of one makes them take turns. A pool of none is accepted
and holds the command until it is interrupted, so `GoodRunsDeploy` asks for one client. In `add_task` three tasks
and two clients are enough for an id to go astray, and its `InScope` leaves out timeouts with a body that does not
parse, which is refused first. In `queue` the clock ends at 16, and one configuration takes any timeout up to 15: a requested 14 takes
every deadline past the end. `wasmatic_retry` allows more commands than any
sequence of its faults makes necessary, so the bound never ends the retries.

Bounds in guards: `LastCreate`, `LastTime`, `MaxTasks`, `MaxRecords`, `MaxStepBack`,
`MaxFaults`, `MaxCommands`, `MaxRuns`; time, faults or commands run out, so no run checks
for deadlock. The contracts never wait for anything: every message is refused or
handled. Where the CLI waits (for a client of the pool, for an answer), liveness
properties take the place of the deadlock check.

**Fairness.**

* `queue`: `FairSpec` assumes that blocks keep coming (weak fairness of `Tick`), which the
  chain provides; nobody is assumed to vote, complete or call `Timeout`. `LastTime` lies
  past every deadline a task can get.
* `oracle_timely`: `TimelySpec` assumes what the property asks of operators, that they vote
  before the deadline: no block is produced while somebody can still vote, and votes are
  cast (weak fairness of `CastVote`). The order of votes is free.
* `deployment`: weak fairness of every upload and of the command's own progress; a future
  that is ready is polled, and a client returned to the pool is handed out. Nothing
  is assumed of faults: `GoodRunsDeploy` holds until the next one.
* `wasmatic_retry`: the person keeps trying, each request is answered unless its
  connection breaks, and the command collects the answers. Faults are finitely many.

## 4. Reading the results

The queue is right about everything it promises except the order of its lists and
timeouts that overflow; a task with such a timeout is stillborn, not immortal.
The verifier and the queue never disagree about a completed task,
votes are final, a published price is the median of all votes and the slashed
operators are exactly its outliers; but the threshold that is meant to guard
publication is measured against the wrong power, in favour of whoever votes last.
`StalledOnlyByOutlier` says what remains: when everybody is within the allowed spread
the task always completes, and `TimelyTasksComplete` that it does so in every order of votes.

The component never reports a silently truncated history: crashes, overlaps and a
clock set back can damage its file or leave prices out, but only in the ways the conditions
of the properties name (`overlapped`, `setback`). A damaged file stops the operator for good.

The CLI's deployments leave debris after a failure, never a wrong reference: contracts
point to contracts of their own run and a retry starts afresh. On the wasmatic endpoints
names are the only identity; two people who deploy one name may both fail, and what
remains has to be removed by hand.

## 5. The proofs

`TaskQueue_proofs` proves, for every set of addresses, responses and instantiation
messages, every width of the clock and every bound:

* `TypeCorrect`: storage keeps its shape; ids are consecutive. Inductive as it stands.
* `ResultExactly`, `Deadlines`: from the invariant `Safe`, which joins the type, results
  and deadlines. Neither is inductive without the other's knowledge: a completion
  needs `created_at <= now`, which is part of `DeadlineSeparates`, and an expiry needs that an open task
  has no result. The effect of each handler on the stored tasks is a lemma
  (`CreateEffect`, `CompleteEffect`, `TimeoutEffect`) that all later proofs cite.
* `ClosedFinal`: the action property, from the same lemmas.
* `Lifetimes`: needs no bound on timeouts. The sum of two `u64` numbers leaves the `u64` once at most (`SumWraps`), so
  a deadline is the one asked for or lies before the creation (`Due`); with `Safe` such a task is neither
  open nor completed.
* `Refinement`: the queue implements `TaskLifecycle` with every task's status as the
  queries report it. `Timeout` maps to a stutter, `Tick` to the lapse of all tasks whose
  deadline it reaches.
* `OpenTheSame`: what `list_open` returns is exactly what the status queries report open and
  `complete` accepts. `TaskQueue` writes the descending order by ranks (the i-th id is the one that i ids,
  itself included, are not older than), because the provers cannot look into `SortSeq`. `DescendingLists` shows that
  this is the sorted list: the rank is an injection of a finite set into an interval of its own size, so every
  rank is taken. `PageShows` says what `start_after` and `limit` make of it: a page that leaves out an id of its range is full, of newer ones.

`OracleArithmetic_proofs` holds what the next modules need of medians and sums, for any finite
set of votes. The median: every rank is taken by a submitted price (`RankTaken`, from the least
natural with k votes at or below it), ranks follow the order of prices (`RankOrder`), hence at
most half of the votes lie on either side of the median (`MedianInTheMiddle`). The model
finds the k-th price by counting votes, not by sorting, so the argument counts too.
Existence of least and greatest elements comes from the well-foundedness of strict inclusion
on finite sets, because induction over the votes is not available.

Sums are folds of the community modules, which define them by a recursive function. What such a
function is for every finite set would be an induction too; here it is a smallest counterexample,
over the naturals or over the subsets of a finite set (`Smallest`), which needs no theorem with an
operator for a parameter. `SomeFold` shows that a recursive function exists up to every size of its
arguments, `FoldsAgree` that there is only one, so a sum (`Total`) takes its first member as
the fold does (`TotalTakesChosen`); that it may take any other member first (`TotalTakes`) is the
one step where the order of summation matters, and again a smallest set is the argument. From there:
one member more adds its weight (`TotalAdds`), a part has no larger sum than the whole (`TotalMonotone`), and
renaming the members changes nothing (`TotalRenamed`).

`OraclePrices_proofs` proves, for any precision `One`, any Decimal range and any accepted
configuration, the properties of run `prices`:

* `MajorityTheorem`: the median lies between the lowest and the highest price of any
  majority of the voters, so a minority cannot move it away.
* `MedianTheorem`: that median is the one `calculate_median` takes from the middle of the sorted
  list: the k-th entry of any sorted listing of the votes has rank k (`ListRank`).
* `ValidSafe`, `HalfRangeSafe`, `ThresholdTheorem`: rounding down keeps the order of numbers
  (`QuotientMonotone`) and does not change what reaches a whole number
  (`QuotientReaches`), so ranges nest, half-range prices stay in range and
  the threshold test is exact for every sum of powers.

The invariant behind them, `BallotBox`, says that the votes are finitely many and well typed.

`AvsOracle_proofs` is about the composed system, for any operators and powers, any settings
`instantiate` accepts, any results and any number of tasks:

* Reuse. `QueueFacts` is an instance of `TaskQueue_proofs`. Every step of the composition is a
  step of the queue or leaves it alone (`QueueStep`), so the queue's invariant `Safe` holds here too,
  and `QueueInside` states it as a whole: all theorems about the queue hold of the deployed
  one.
* Layers. What `executed_task` does is split: `Casts` is what every vote does (one vote more,
  on one open task, other tasks' votes untouched), `Joins` a vote that leaves the task open,
  `Settles` one that publishes. Each of `StoreVote`, `KeepOpen` and `ReportPrice` is shown to be one of them
  (`OpenVote`, `PriceVote`). Up to `Penalized` it does not matter how the code's tests on
  sums of powers choose between `Joins` and `Settles`.
* `Base` joins the queue's `Safe`, the shape of the verifier's maps (`Kept`, `TypeOK`) and `SameOutcome`: where
  the verifier has metadata it holds the queue's deadline and says "completed" exactly
  when the queue does. None of the parts is inductive alone: that a vote finds a task the queue would
  complete needs the copied deadline, and that the copy stays right needs that the
  queue never reopens a task. `Agreement`, `TypeCorrect` and `FinalVotes` follow.
* `Priced` and `Penalized` add that a completed task's result is the median of its votes and that the
  slashed operators are its outliers. They rest on `Base`, because only it excludes a
  vote after the price. `MedianPublished` and `SlashingExact` follow.
* `Counted` adds the sums. `Powered` says that tallies and powers are finitely many whole numbers
  and that the power a task needs, stored at its first vote, is still the one the code would work
  out; `Tallied` that the strings that spell a price are tallied with the power of its voters;
  `Quorate` that a completed task had its quorum; `Stalled` that an open one with its quorum has a voter
  outside the allowed spread. `Stalled` is the one that is not inductive without the others: the code
  divides the agreeing power by a tally instead of the power that voted, and only `Tallied` says that
  this tally cannot be the larger of the two (`TallyWithinVotes`), so that the threshold is met when
  everybody agrees (`AllMeetThreshold`, the configuration allows at most 100%). `TalliesRight`, `QuorumFirst` and
  `OnlyOutliersStall` follow.
* `QuorumReached`: the operators can reach the quorum. The sum of the listed powers is the sum over
  the distinct operators when nobody is listed twice (`ReachAll`, by `TotalRenamed`), and
  rounding a share of at most 100% up does not exceed the whole (`ShareWithin`).
* `Refinement`: `AvsOracle` implements `PriceOracle`. `Create` maps to `Ask`, `Joins` to `Vote`, `Settles` to
  `Settle`, `Tick` to the lapse of the open rounds whose deadline it reaches, `Timeout` to a stutter. `Settle` asks
  for a price in the middle of the votes (`MedianInTheMiddle`) and for penalties only on votes that
  differ from it (`RangesNested`: the median lies in its own range).

`PriceHistory_proofs` proves, for any number of runs, any window, limit and clock, with crashes at every point:

* `TypeCorrect`: neither file nor run ever holds more than `Limit` entries.
* `AveragesAll`: an average leaves out no entry of the run's copy that has more seconds of the hour left than the
  clock was set back altogether, however many runs overlap. The invariant `Ordered` says that all copies of the history are
  in order of time, and not newer than the clock, up to that many seconds; a step back takes from the clock
  what it adds to the slack. Overlapping runs may lose entries, never reorder them.
* `OwnPrice`: a run's own price is part of its average, so the mean is never zero by zero. It
  assumes `Window <= StartTime`: within the first hour after the epoch `since` would wrap.
* `NewestRecorded`: as long as runs do not overlap, a file that parses holds the newest entries
  and nothing else is forgotten, whatever crashed. The invariant relates file, the copy of
  the one run under way and the list of everything ever written.
* `HourlyAverage`: the mean such a run reports is that of all prices of the last hour that `Limit` entries can
  hold. A run that has written has the newest entries in its hands, last one first: position i of its copy is
  position n + 1 - i of everything recorded. `FreshMirrored` shows that this maps the fresh entries of the one one-to-one onto
  those of the other, and `TotalRenamed` of `OracleArithmetic_proofs` that a sum does not depend on the names
  of its summands. It needs `Window <= StartTime`, as `OwnPrice` does.

`ContractDeployment_proofs` is about the deployment of the contracts, for any operator lists, any number of
runs, clients in the pool, faults and late transactions:

* `TypeCorrect`: with the shape of the state, that the pool is never overdrawn, whatever size the run was given. It needs `Started`, that
  only a run that was given can be past "idle".
* `FitTogether`: the invariant `DInv` follows one run along its steps and keeps what earlier runs left
  behind. `Codes` says that an upload that is done has left a code of this run, `Chain` that each instantiation
  made so far refers to the one before. `Settled` says of every contract on the chain, and of every instantiation
  that is still on its way, that it refers to an older contract of its own run. The strays have
  to be part of it: what arrives late becomes a contract without its run looking at it again. That
  chain and codes only grow (`NextExtends`) keeps old references right (`ReferencesStay`).

`WasmaticClient_proofs` is about the wasmatic commands, for any clients, endpoints and names, and any
number of commands, lost requests, lost answers and late arrivals:

* `WinnerRuns`: the invariant `WinnerInv` says that where an endpoint has said "ok" to the second request of a deployment,
  or the whole deployment succeeded, its application runs, unless somebody asked to remove
  the name. `Requests` is needed for requests that arrive late: a removal on its way has made its name known,
  and nothing else takes an application away (`EffectOnMap`).
* `DoAsTold`: the invariant `ToldInv` says that, without trouble, only the latest command is under way and that
  there is one map of applications all endpoints had before it: those that answered have that map with the effect of
  the request, the others the map itself (`Begun`). The refusal of an endpoint is the one exception
  (`Reported`), and it ends in trouble.

`QueueClient_proofs` is about the commands that use a queue: `add_task`, for any clients, requestor rule, limits, tasks and
faults, and the readers of `QueueView`, for any ranges, limits and page sizes. Like `AvsOracle_proofs` it takes
what it needs of the queue from `TaskQueue_proofs`:

* `OwnTasks`: the invariant says that an answer under way names a task its client created, newer than all it was told
  (`Answered`), and that what it was told increases (`Told`); so nothing is told twice. That the task lives as long as was asked needs
  `NoOverflow`: no deadline leaves the `u64`.
* `TakesWhatIsSent`: what is being sent passed `MayRequest`, and the queue never changes
  its rule; it needs no assumption on the clock. Where the price is nothing every message is refused, so no client
  is ever told an id (`NothingAdded`).
* `NoneBetween`: the invariant `ReadersInv` keeps, between the two queries, an explanation for every task the first
  answer is without: out of range, expired, pushed off a full list, or completed. The first three last (`Stays`), and of the
  completed ones `PageShows` says what the second answer does with them.
* `TwiceWhenCompleted`: the first answer held open tasks, so what of it is completed now was completed since (`Lines`).
  Neither list repeats an id, so a repeated id is once in each; `RankedTwice` counts that its two lines are adjacent.
* `PagerSees`: what a pager has seen decreases strictly, ends with the id it goes on from, and
  holds every still open task down to there (`Paged`). Tasks that are created meanwhile have larger ids and disturb neither.

Assumptions on constants, each evaluated by TLC in a run whose module extends it:
`BoundsAssumption` and `MessageAssumption` in `TaskQueue` (numbers are numbers, block time fits a `u64`, message fields are `u64`
or absent, an absent result is no result; run `queue`), `DecimalAssumption` in `OraclePrices` and
`InputAssumption` in `MCOraclePrices` (run `prices`), `DeploymentAssumption` and
`PriceAssumption` in `AvsOracle` (the same of the composition, and that stored results include the means
of any two prices), `OperatorAssumption` there (powers in an operator list are never negative, as a `Uint128` never is; run `oracle`), `HistoryAssumption` in `PriceHistory` (run `history`),
`ArgumentsAssumption` in `ContractDeployment` (run `deployment`), `QueueAssumption` in `DeployedQueue` (runs
`add_task` and `readers`), `ClientAssumption` in `QueueClient` (run `add_task`), `ReaderAssumption` in `QueueView` (`start_after` and `limit` are numbers or absent, a page has a line; run `readers`).

Every invariant, action property and refinement that a passing run checks is a theorem. Only model-checked is liveness
(`EveryTaskCloses`, `TimelyTasksComplete`, `GoodRunsDeploy`, `RetrySucceeds`), because the provers take neither
fairness nor ENABLED.

## 6. Plan

Done: all modules of the table in section 2, their runs, and the proofs of section 5.

Left: the steps on which the liveness arguments rest, as far as they are safety: for example that while blocks
come, the time a task has left shrinks (`EveryTaskCloses`), or that a deployment nobody disturbs has one step less to take
after each step (`GoodRunsDeploy`).

Not modelled:

* `wasi/oracle-example/src/bindings.rs`, 7234 generated lines, more than half of the
  repository's Rust: marshalling between the component and its host, no state of its own.
* Tests inside the contracts' sources: they are what the models are compared with, not code to model.
* Faucet, wallet and address commands, generic contract commands, argument declarations,
  logging and program entry: one remote call each, or none.
* The requestor argument of the deployment and the addresses a view prints: carried
  through unchanged.
* The price service: a choice of prices or an error.
* Build scripts.

Two hazards have no property. The view takes one `start_after` and one `limit` for both of its lists
(`task_queue.rs:162`), and nothing in the repository says how to continue such a view; the
runs check each list's own range. And the CLI's HTTP client sets no timeout (`wasmatic.rs:35`):
an endpoint that never answers holds the command for ever, which `RetrySucceeds` assumes away.
