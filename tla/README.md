# A TLA+ model of the Gonka explorer's backend

The backend (`src/backend/src/backend/`) is one asyncio process. It asks the
nodes of the Gonka chain for data, keeps copies of it in memory and in one
SQLite file, and serves them to the frontend. Nearly all its state is shared by
coroutines that run interleaved: API requests, some fifteen pollers started by
`app.py`, and tasks they spawn. A coroutine runs alone between two `await`s, so
every action of these modules is what runs between two awaits, except that
requests which read at a height fixed before, and write nothing, are one step.

## The system

| Component | Code | State | What is hard | Status |
|---|---|---|---|---|
| Node pool | `node_pool.py` | per node: latency, heights, failures, cooldown, floors, demotion | six hints of different age rank the nodes | modelled |
| Chain client | `client.py` | the pool, `_refresh_task`, `_fallback_urls` | failover across awaits while nodes fail, prune and catch up | partly |
| Epoch lifecycle | `service.py` 536-1244, `database.py` 663-862 | `current_epoch_id`, `current_epoch_data`; `inference_stats`, `epoch_status` | several writers of the epoch id, two transactions, restarts | modelled |
| Block indexer | `service.py` 2879-3070, `database.py` 1576-1810 | eight block tables | partial fetches, rollback, plain INSERTs | modelled |
| Rewards | `service.py` 1754-1804, 1962-2050 | `participant_rewards`, `epoch_total_rewards` | totals from partial answers, overlapping tasks, claims that arrive later | modelled |
| Warm keys, hardware | `service.py` 1806-1960 | two tables, `cache_warming_in_progress` | three writers with different content for one row; rows and weights asked in two requests | partly |
| Model usage | `service.py` 4449-4611, `model_usage.py` | usage and status tables | windows that overwrite each other, rewritten by the upstream into its presets | modelled |
| Proposals | `service.py` 3884-4135 | `gov_proposals`, `params_snapshot` | errors between saving a status and saving its snapshot; a node that lags | modelled |
| Models page | `service.py` 2286-2554 | `models`, `models_api_cache` | the epoch is in memory, the answer is not | modelled |
| Validator rows | `service.py` 1246-1412, 2052-2133 | `jail_status`, `confirmation_data`, `node_health` | pollers and pages fill the same rows | modelled |
| Confirmation rates | `service.py` 148-380, 616-709, 1415-1600, 2052-2180 | the same rows, and the objects of `current_epoch_data` | a details request works on the object the page serves | partly |
| Timeline | `service.py` 2196-2284 | answer in memory, `timeline_cache` | overlapping calls stamp their answers with the time they began | modelled |
| Participant inferences | `service.py` 2556-2750, `client.py` | `participant_inferences` | a listing read for minutes while what it lists ends | modelled |
| Markets | `service.py` 4228-4400 | `market_stats` rows | four sources in turn, any of them down | partly |
| Pollers, lifespan | `app.py` | task handles | what is retried, and when | partly |
| Geography, denominations, gonka.gg datasets; schema; protobuf; frontend; scripts | the rest | one replacing write each, or none | no interplay | not modelled |

The pollers call the service; the service calls the client for every answer of
the chain and the database for every row; the client asks the pool for an order
and reports each answer back to it. `PROJECT.json` lists each component with
its status, the lines each definition stands for, and each hazard with its line
and the properties that guard it.

## Modules

| Module | Models | |
|---|---|---|
| `NodePool` | `node_pool.py` | also the pool under any caller (`PoolSpec`) |
| `ChainClient` | `client.py` | EXTENDS `NodePool`: the client calls the pool's operations inside its own steps |
| `EpochLifecycle` | the epoch part of `service.py`, `database.py`, the route and the poller | |
| `BlockLog` | what the indexer promises: an append-only log of complete blocks | |
| `BlockIndexer` | the indexer | shown to implement `BlockLog` |
| `Rewards` | claims of participants and totals of epochs | |
| `Hardware` | hardware rows and the weights on them | |
| `ModelUsage` | the usage sync | |
| `Proposals` | the governance cycle and the parameter snapshots | |
| `ModelsPage`, `ValidatorRows`, `ConfirmationRates`, `TimelineCache`, `Inferences`, `Markets` | the caches behind the pages | |
| `ChainClient_proofs` | theorems about `NodePool` and `ChainClient` | |
| `EpochLifecycle_proofs`, `BlockIndexer_proofs`, `Rewards_proofs`, `ModelUsage_proofs` | theorems about the module of that name | |
| `Caches_proofs` | theorems about `Proposals`, `Hardware` and the product `MCCaches` | |
| `Pages_proofs` | theorems about the six page modules and the product `MCPages` | |
| `FiniteLemmas` | induction over finite sets, sorted listings, sums, whole division | no model: what the proofs need |
| `MC*` | model values for TLC, and which parts are explored together | |

**NodePool.** `pool[n]` is `NodeState` of the n-th URL. Deadlines are kept as
the time left and the age of the state floor as an age, so time is one action
(`PoolElapse`). Latency is a rank; smoothing yields any rank between the old
and the new one. `Orders` is the set of listings `order()` may return, which the
index makes a single one. `consecutive_failures` saturates at `OverflowCount`,
from where `record_failure` raises (`FailureRaises`): in the code that is where
`2 ** exponent` no longer fits a float, in the model a small bound `MaxExponent`.

**ChainClient.** `chain` and `up` are the real nodes (tip, lowest block, lowest
state, reachable or not); they move freely within the bounds `Outages`,
`Pruners` and `Laggards`. `req[r]` is one coroutine inside `_make_request`
(`kind = "chain"`) or `_fetch_block_rpc` (`kind = "block"`), with the order it
took when it started; `heard` is a history variable. `Refresher` is the slot of
the refresh task's own request in `discover_urls`. The four kinds of answer
(`AnswerServed`, `AnswerAppError`, `AnswerUnavailable`, `AnswerFailure`) are the
outcomes of `_fetch_json`; what the pool records is part of the same step. An
application error is only answered by a node that holds the height: a node that
lacks it says so with one of the markers `classify_error` knows. The probe of a
node that may be load-balanced reports any floor up to the real one.

**EpochLifecycle.** `call[c]` holds the locals of one coroutine; `pc` names the
await it is in. `get_historical_epoch_stats` is both a visitor's call and a
subroutine of the poller's, told apart by `epoch`. `stats` has a row per
participant, and `Gathered` is the batches a fetch may end with: everybody, or,
when requests fail, some of the `Members` or nobody at all, because the loops skip
whom they cannot read (`service.py` 897, 1177). `save_stats_batch` commits a
batch in one transaction and takes an empty one for no error. `hollow` is a
history variable: the epochs whose mark comes from a call that stored nobody.
`get_canonical_height` asks for the latest epoch (`ReadLatest`) and stores the id
a step later (`StoreLatest`), so an id may move back; pages that need the id and
find none (`service.py` 1425, 2291, 3076, 3688, 3865) do the same, and a visitor's
call stands for them. The modelled chain has epochs of `EpochLength` blocks; `Offset`
stands for the 10 blocks of `get_canonical_height`, `PocLead` for the distance
from `next_poc_start` to the boundary. `Restart` loses memory and coroutines and
keeps SQLite. Abstracted: the latest epoch of the chain and the epoch of its
participants are the same number, the tip is the chain's and not that of a
lagging node, and every modelled epoch has the same members.

**BlockIndexer.** `db[t][h]` counts the copies of block `h`'s rows in table `t`,
so a duplicate is visible; `txn` is the view of the open transaction. Tables 4,
7 and 8 are written with INSERT, the others with INSERT OR REPLACE.

**Rewards.** The chain pays one participant of an ended epoch at a time. A
calculation of a total reads the stored one, asks participant after participant
(or leaves one out when the request fails), and compares its sum with what it
read; the poller and the page of an epoch start calculations that overlap. The
poll of the claims sees the chain as of the height it read first, because all
its requests name that height, and stores its batch at the end; the page of a
participant asks the chain as it is.

**Hardware.** The three writers (`poll_hardware_nodes`, the warming after each
fetch of the current epoch, the page of a participant) store rows with weights
from different places. A weight is named by the epoch it really belongs to, and
`Weighed[e]` is the nodes to which epoch `e` gives one; `served` is the epoch of
`current_epoch_data`, which the service gives away from memory, with the nodes
its `ml_nodes_map`s name. An answer may name fewer than there are (`Answers`): a
model group that cannot be read is left out (`service.py` 657-659), a participant
may be skipped, and what is loaded after a restart is no better than it was
stored. A request for hardware that fails is answered with no nodes (`client.py`
563-572), and the save then deletes the stored rows (`FetchNodes`, `RowsSaved`).
The page reads its own weights between its check and its request (`WeighNodes`).
Incomplete answers and failed requests count against `MaxHardwareFaults`. The
warm keys have the same shape with nothing second to get wrong: their step only
takes its place before the hardware.

**ModelUsage.** Time runs in ticks. A sync makes three passes: recent hours,
epochs that need an exact range, and the backfill by days. The upstream turns a
window it does not like into one of its presets; the answer is accepted for
what it covers. A stored total is remembered by the size of its buckets, the
first and last tick it counts, the end of its epoch and the time it was asked;
`FinalizeMargin` and `LateArrival` are the margin of the code and how late
traffic really is counted.

**Proposals.** A proposal is voted on until the chain decides; ids are in the
order of the heights. The cycle lists what is voted on, finalises the cached
ones that no longer are, and folds the parameter updates of those that passed
into a snapshot. An answer of a lagging node to the question for a status is one
of the faults. `Broken` are proposals that cannot be enriched.

**ModelsPage.** The page of the running epoch takes the epoch from memory and
its models from the chain as it is by then; a poller replaces the copies; a
visitor may name a height, also one beyond the tip.

**ValidatorRows.** Everything a round asks about the chain is asked at one
height, so a row is worth that height; the health rows, which no height names,
are worth the time at which the first node was asked.

**ConfirmationRates.** The same rows from the other side: what they say and
what is made of it. The arithmetic is in thousandths, rounded as the code
rounds it (`_floor_int`, `min(…, 1)`). The page of the running epoch is a
function from members to objects, built from the subgroups that answered and
merged with the rows; `StartDetail` takes one of these objects, and what
`get_participant_details` assigns to it is seen on the page as long as the page
has not been rebuilt. In the model such an overwritten rate is passing; that it
happens at all disagrees with `planning/task-21.md:129`, which prefers the
chain's ratio once it is cached. Left out: the collateral, a pure function of
two weights, and the changes of the weights within an epoch.

**TimelineCache.** A call takes the time when it begins, waits, and stores its
answer with that time; a loaded answer is stamped as if it were almost too old.

**Inferences.** Inferences of two epochs end, expire or are invalidated while
the listing is read, a page at a time; the epoch of an expired one is worked out
from its start by a division that rounds up. Of those that start in one block the
stable sort keeps the order of the listing (`Newer`).

**Markets.** Four sources are asked in turn; two rows are written.

The MC modules. Components that share no variable are put into one run with a
variable `subject` (in `MCClient`: `trouble`) that says which of them moves: a
behaviour of the product would be nothing but an interleaving of unrelated
behaviours. `MCClient` explores the client with nodes that fail and with nodes
that prune, `MCLiveness` the client and two overlapping calls of the epoch
poller, `MCCaches` totals, claims, hardware, usage and proposals, `MCPages` the
six page caches. A liveness property is asked of the part that is awake.

## What is checked

Every run takes less than five minutes with two workers; `caches`, with seven
temporal properties, is the longest with three and a half.

| Run | Shows | Bounds |
|---|---|---|
| `node_pool` | a node that holds the height outranks one that lacks it, health only decides among equals; one blip changes no order; "pruned" does not cost the realtime place; block floors never drop; a cooldown means repeated failures | 2 nodes, heights 1-2, two failures before a cooldown, overflow at 3; 176,400 states |
| `client_safety` | a request gives up only when exhausted, participants are asked only when every node failed it, a real answer ends it, and learnt floors never overtake the real ones | 2 nodes, one late, 1 participant, 1 caller and the refresh; or 2 nodes that prune and catch up, heights 1-2, demotion; 3.7 million states |
| `liveness` | every request ends; a node that stays up is forgiven; two overlapping pollers catch up with the chain for good, although one may store an id that is over | 2 nodes that fail and return at will; 2 pollers, 3 epochs of one block, restarts that stop; 486,880 states |
| `epoch_safety` | finished epochs have rows of their finish height unless the call that marked them found nobody; served participants are stored; memory is not ahead of the chain | 1 poller, 1 visitor, 1 participant that a fetch may leave out, epochs of 2 blocks up to the first of the second, failing requests, restarts; 8.0 million states |
| `block_indexer` | the log refinement, and that, once polls are no longer lost, everything before the first unservable block is indexed | 7 blocks, batches of at most 3, lag 1, block 6 unservable; 1,754 states |
| `caches` | stored rewards never say more than the chain and totals settle on it; claims and weights arrive; final usage is complete, nothing is truncated or replaced by something coarser, a final total stays, the running epoch stays fresh although an older one cannot be served, and ended ones become final; outcomes are the chain's, snapshots hold only what passed, and every vote is finalised | see below; 654,209 states |
| `pages` | nothing older than promised is given from memory; confirmed rates are the chain's and estimates are never below the full one; models, validators and their rates, inferences and markets end up as they are outside | see below; 407,935 states |

Bounds of `caches`: three epochs with members {p1, p2}, {p2}, {p2} and rewards 1
and 3 (2 ugnk per GNK, so a sum is rounded), windows of 2, 1 and 1 epochs, the
claims up to epoch 2, one visitor; one participant with one node over two
epochs; three epochs of usage starting at 1, 4 and 7, up to time 10, with
hours of one tick and days of two, presets of 4 and 6, exact ranges from an age
of 7 and one request of backfill, so that the second epoch falls for a time into
the gap that nothing serves exactly (`tests/test_model_usage.py:286`): too old
for the first preset, too young for a range; three proposals, two keys, the third proposal broken; one fault or
restart each. Bounds of `pages`: epochs of two blocks and tips up to 3, visited
heights 1 and 4 (beyond the tip), one event or fault each; two calls of the
timeline with a time to live of 2 and times up to 4; three inferences that
start at 3, 2 and 1 with two workers, one per page of the listing and one kept
per status; two quotes per market; one participant of two models whose weights
the scales do not divide, one details request, one failed request.

Why they are enough. Two nodes make every comparison of the sort key possible,
and the invariants of the client are about one request against the pool, which
others change at will (`Requests` beyond the refresher's slot add only more
reports, which the environment already produces in every order). Two heights
separate "has" from "lacks". Two epochs contain every boundary: before it, at
it, after it; a third lets the window of the totals move past one. Batches of
three in a chain of seven contain a full batch, a short one, and one that fails
in its middle. `MaxExponent = 0` puts the overflow at the failure after the
first cooldown, so the liveness run passes it. The starts of the usage epochs
are not aligned with its days, and three of them are at one time final, ended
and running; with the second in the gap, a walk that took the oldest epoch first
would starve the running one. One participant in `epoch_safety` makes a batch
full or empty; that the theorems hold for any `Members` covers the partial ones.
Of three proposals one is first, one second to fold and one broken
between them. The faults of one part are independent events, and every part has
a fault in each place where one can bite; a second one would only come after
the first was made up for. Participants of one page share nothing but the
requests that fail, so one of them shows what happens to any.

Fairness. Requests end because every await has an httpx timeout (`client.py`
64-93) and the event loop runs what is ready: weak fairness of each coroutine's
step. Pollers loop for ever and catch every exception (`app.py` 69-78, 230-241):
weak fairness of their first step. The indexer's `ReadTip` and `FetchOk` are
strongly fair: a question that is asked again and again is answered in the end,
since the client tries every node each time; its other steps are weakly fair.
Nothing is assumed about restarts, failing requests or visitors: where progress
needs that they stop, they are bounded, or the property names them in its
antecedent (`PollLost`). The chain is fair where a property waits for it: blocks
come, and rewards are paid.

### Where the code and its texts disagree

* `client_outage`: a node that stays down for long makes `record_failure` raise
  OverflowError (`node_pool.py:137`), and the request ends without asking the
  remaining nodes; the docstring of `order` rules out an outage.
* `epoch_canonical`: at an epoch change the old epoch is finished at the tip,
  not at `effective_block_height(N+1) - 10` (`planning/task-3.md:85`), because
  `current_epoch_id` still names it.
* `epoch_running`: asking the API for the running epoch by its id marks it
  finished (`planning/task-3.md:49`).
* `hardware_weights`: the poll of the hardware reads the epoch in one request
  and the weights in another, which may be answered from memory
  (`service.py:1855`): the weights of one epoch end up on the rows of another,
  although `planning/task-11.md:10` has them stored per epoch.
* `models_epoch`: the models page stores what it computed from the participants
  of one epoch as the weights of another (`service.py:2350`,
  `planning/task-14.md:161`).

## What is proved

Each theorem holds for every value of the constants that satisfies the module's
assumption, in particular for any number of nodes, callers, epochs and blocks.
Every safety invariant and every action property that a passing run checks is
stated by a theorem (`TypeOK` once per module).

* `ChainClient_proofs`, the pool. `PoolTypes`, `CooldownsHaveACause`
  (`CoolingMeansRepeatedFailures`), `FloorsOnlyRise` (`BlockFloorNeverDrops`),
  `ABlipKeepsTheOrder` (`BlipKeepsOrder`) and
  `APrunedAnswerKeepsTheRealtimeOrder`. `Follows` says what a report leaves of a
  node's state; an order depends on nothing but the sort keys, and the two
  reports leave the comparisons between keys as they were.
  `HistoryOutranksHealth` (`HistoryBeforeHealth`): the keys are compared by a
  total preorder, so a sorted listing of the nodes exists (`OrderedListing`), and
  its first component is the missing data.
* `ChainClient_proofs`, the client. `TypeCorrect` (`TypeOK`), `HintsAreSound`
  (`HintsSound`), and the three failover properties `GivesUpExhausted`,
  `ParticipantsAreLast` and `ARealAnswerEnds`. An order is a permutation in
  progress (`AskingOK`), and the real floors of a node never decrease: what an
  answer teaches is at most what the node has at that moment. The failover
  properties come from one invariant more, `HeardInv`: a request has heard from
  exactly the nodes before its place in the order, and from each what lets a
  request go on.
* `EpochLifecycle_proofs`: `TypeCorrect`, `FinishedEpochsHaveStats`,
  `ServedDataIsStored`, `NeverAheadOfTheChain`. The invariant says, for every
  await a coroutine can be in, what its locals are worth (`Locals`): an epoch
  that was read is not ahead of the chain, a coroutine about to publish has
  stored a row of everybody in its batch, one about to mark has seen or stored rows
  of its target unless it found nobody. None of the properties is inductive
  without it. `FinishedEpochsHaveStats` does not say that a finished epoch always
  has rows, which is false by `service.py` 897 and 1076: it says that an empty
  batch of the call that marks is the only way to that. `ServedDataIsStored` says
  the same of what is shown: nobody is shown without a row.
* `BlockIndexer_proofs`: `TypeCorrect`, `Contiguous` (`BatchIsContiguous`, which
  only the proof states) and `Refinement` (`ImplementsLog`). The invariant says
  that the tables hold exactly the blocks up to some `n`, that a poll under way
  started from that `n`, and that the transaction holds the tables saved so far
  with the batch and the others without. `Commit` then maps to one `Append`,
  and every other step but `Grow` to a stutter.
* `Rewards_proofs`: `RewardsTypes` and `RowsAreNeverAhead` (`RowsNeverAhead`). The
  rows that a poll or a page carries are as truthful as the stored ones, and the
  view of a poll is a past state of the chain; payments only grow.
  `TotalsNeverOverstate` (`TotalNeverOverstates`) adds `SumsInv`: the sum of a
  calculation under way is at most that of what the chain assigned to the members
  it has passed (`Grounded`), whatever of them it left out; the division by
  `UgnkPerGnk` is monotone, and no payment lowers a sum.
* `ModelUsage_proofs`: `UsageTypes`, and from one invariant about every stored
  total and the answer in flight, `FinalTotalsAreComplete`,
  `TotalsAreNeverTruncated` and `TotalsGetMoreExact`. That a final total is never
  replaced needs one invariant more, `FinalApart`: of the epochs a sync still works
  on, only one it has just saved has a final total, because a sync leaves those out
  when it starts and every pass hands on only what it did not cover.
* `Caches_proofs`, the proposals: `ProposalTypes`, `OutcomesStayTrue` and
  `SnapshotsStaySound`: what the cycle carries was decided by the chain at the
  height of its proposal, so every snapshot it builds folds only updates that
  passed at or below it.
* `Caches_proofs`, the hardware. `HardwareRowsStaySound`, which only the proof
  states: one row per epoch, participant and node, no row of an epoch to come, and
  a weight only where an epoch that has begun gives one to that very node, whichever
  of the three coroutines replace the rows and whatever fails. The invariant says
  that a map in memory or in a job names only nodes of the epoch it is of
  (`MapOK`). That weighed nodes have a weight holds only in the end (`WeightsArrive`).
* `Pages_proofs`, one part per page, with an invariant each:
  * `NoRateIsInvented` (`RatesAreGrounded`). The page's objects are what the answered
    subgroups make of the chain's weights and what rows and details requests
    overwrote; leaving subgroups out makes the denominator smaller, so no
    estimate sinks (`SumRises`, `QuotientFalls`), and a node's scaled and rounded
    weights never add up to more than the scaled weight of the member.
  * `TheTimelineIsFresh` (`TimelineIsFresh`): a stamp is never later than the time
    the answer was asked for, and a loaded answer has the stamp of its loading
    less `LoadedAge`.
  * Properties that only the proofs state: `FiguresStayWithThePrice` (the 24h
    figures of the DEX row are those of its price), `RatiosKeepTheirEpoch` and
    `RatiosNeverGoBack` (confirmation data is stored under no epoch later than its
    height, and never replaced by an older answer), `WeightsAreNeverOfThePast` (the
    models' weights of an epoch were read in it or later, the exact bound that
    the run `models_epoch` leaves), and `RowsStayTrue` (the rows of a participant
    are its own inferences, with a status they had, in the epoch of their start).
    `RowsStayTrue` has an exception, which the code needs: an inference that starts
    and expires while a round reads pages, after the epoch changed, is filed under
    the epoch the round began in.
* The products. `CachesAreApart` and `PagesAreApart` say that a behaviour of the MC
  modules' products is, for each component, a behaviour of that component alone.
  So whatever is proved of a component holds of what the runs explore;
  `CachesTypes` and `PagesTypes` (`CachesTypeOK`, `PagesTypeOK`) are instances.

Assumptions: those named in the modules (`PoolAssumption`, `ClientAssumption`,
`LifecycleAssumption`, `IndexerAssumption`, `RewardsAssumption`,
`HardwareAssumption`, `UsageAssumption` and `MarginAssumption`,
`ProposalsAssumption`, `ModelsAssumption`, `StakeAssumption`, `RatesAssumption`,
`TimelineAssumption`, `InferencesAssumption`, `MarketsAssumption`, and
`CachesAssumption` of the product); TLC evaluates them on every run. Two deserve a
word. `PoolAssumption` has one of arithmetic: that `2^k` is a natural number for the
exponents that occur, which the provers cannot derive. `RewardsAssumption` has the
members of an epoch pairwise different: the code keys the chain's list by `index`
(`service.py` 1062-1066), while the loop that adds the rewards up (1975) goes
through the list as it is and would count a member listed twice twice.

How sums and listings are proved. A library theorem on induction takes an operator as
a parameter, which the provers cannot instantiate. `FiniteLemmas` states
induction with a set instead (`NatInduct`, `SubsetInduct`: the good cases of a
set contain the first and each next one, so they are all), derived from the
well-foundedness of `<`. The sums of the community modules are folds: what they
choose is shown to exist and to unfold by one element (`SumUnfolds`), and the
rest follows by `SubsetInduct`.

Only model-checked: the liveness properties (`RequestsEnd`, `NodesRecover`,
`EpochsCatchUp`, `EverythingServedIsIndexed`, `TotalsSettle`, `ClaimsAreLearnt`,
`WeightsArrive`, `RunningStaysFresh`, `EndedBecomeFinal`, `VotesAreFinalised`,
`ModelsFollow`, `ValidatorsFollow`, `InferencesEndRight`, `MarketsStayApart`), which
need fairness and so `ENABLED`, and the five disagreements, which are
counterexamples.

## What is not modelled

* The lookups of the warm keys, the collateral arithmetic, `dex.py` and
  `denoms.py`: a request followed by one replacing write, or a pure function.
* The geography of the nodes and the datasets copied from gonka.gg: one writer,
  one row, no state between two calls.
* `collect_history_*`, `repair_*` and `migrate_*`: nothing in this tree calls
  them. `initialize()` and its migrations run before any poller starts.
* Several `MsgUpdateParams` in one proposal (their union is one set of keys), the
  split of a usage bucket between epochs (floats), and the fallback for a
  proposal without `voting_start_height`.
* `current_epoch_id` being stale in `get_participant_details`, which then treats
  the epoch as a past one, and the missing row in `get_market_stats`
  (`service.py:4343`).
* `confirmation_data` under a details request of a past epoch, whose object is
  built for that request alone.
* The protobuf bindings are generated (15,700 of the repository's 27,900 lines of
  Python); the frontend keeps no shared state.

## Plan

1. `EpochLifecycle`: runs for the two promises of `planning/task-3.md` at lines
   89 and 102 (a height named for the current epoch is not checked; a round in
   which finishing the old epoch fails is not repeated). The model has both
   behaviours.
2. `ChainClient`: discovery that fails and empties the list of participants.
3. Proofs: with 1 and 2, the invariants of the two modules anew; an abstract
   specification for the tables of `Rewards` and `ModelUsage` (a row that only
   gets truer), of which `RowsNeverAhead` and `MoreExactOverTime` are the steps.
