# A verification project for HyperSignal MCP

HyperSignal is an MCP server over Hyperliquid: tools that read market data, score
traders, keep standing alerts and place orders, sold by API key or per call over
x402. This directory models what it does with state: who is charged for what, when an
alert fires and is delivered, which signals and scores are published, what is sent to
the exchange, how upstream requests are rationed; and, as functions, the algorithms
behind its answers. `src/` is the reference; every definition names the lines it stands
for in `PROJECT.json` ("map").

    tlc -config MCX402Payments.cfg MCX402Payments.tla     # one run
    tlapm X402Payments_proofs.tla                         # the proofs of a module

## 1. Inventory

The program is one Node process per server. `server-http.ts` serves many callers
(and runs an alert engine, Telegram and webhooks), `server-stdio.ts` serves one local
client (and runs an alert engine and the execution runner). Processes may share one
SQLite database; a statement, a `db.transaction`, and the code between two awaits are
each atomic in their process. Between awaits everything interleaves.

| component | state | operations | interacts with | hard behaviours | correct when |
|---|---|---|---|---|---|
| x402 payments (`billing/x402.ts`) | `pendingByPayer`, the state of each charge (memory), `x402_payments` (disk) | verify and reserve, settle, release, unknown outcome | facilitator (`/verify`, `/settle`), tool dispatch, database | concurrent presentations, several encodings of one authorization, time-outs racing late transfers, restarts | one settlement per authorization; "not charged" is true; every failure gives the reservation back; callers are answered |
| tool dispatch (`tools/registry.ts`) | none | charge, run, cancel, settle, deliver, refund | every kind of charge | each of the phases may fail | a failure refunds once, a result is delivered once paid |
| billing database (`billing/db.ts`) | `api_keys`, `usage_counters`, `free_key_grants`, `x402_payments`, `pro_purchases` | upserts, transactions of re-issue and renewal, counters | all processes | several writers of one row | see keys |
| billing service (`billing/service.ts`), key tools | none of its own | bootstrap, issue free key, authorize, refund, plan and commit a purchase | database, tools, restarts | re-issue while calls run, month boundaries, crash between two writes, changing lists | quota per requester, one working free key, the last lists decide keys and tiers, time paid for is time had |
| alert engine (`alerts/engine.ts`) | `running` flag, previous cohort positions (memory) | tick: list, read market, evaluate, store, record; score signals; resolve score outcomes | alert store, signal and score stores, market data, notifiers | overlapping ticks, several engines, deletion during a tick, crash between two writes, wallets that cannot be read | cooldown kept, fires on the rising edge only, a flip is one the whole cohort made |
| alert store (`store/alertStore.ts`, `tools/premium/alerts.ts`) | `alerts`, `fired_events` | create, list, delete, poll, acknowledge | engine, owners | lost answers, delivery order against acknowledgement order, count checked before an await | at least once (reliable), at most once (default) |
| house alerts (`alerts/house.ts`) | rows of subject "house" | read the market, delete, create | alert store, market | crash between two statements | they follow the market in the end |
| signal store (`store/signalStore.ts`) | `signals` | record, due, score, abandon, migrate, track record | engine tick, price sources | bounded batches, late scoring after an outage, overlapping ticks | every signal ends scored or abandoned, once; a published return is of its horizon, as near as its source allows |
| score store and sampler (`store/scoreStore.ts`, `smartmoney/`) | `score_snapshots` | sample in chunks, due, resolve, calibrate | cohort, engine tick | restart or refresh in a sample, retries, overlapping windows, two sampling processes | one cohort a day (one process samples), independent outcomes, every sample closes |
| cohorts (`hl/cohort*.ts`, `store/cohortStore.ts`) | `whale_cohort` | refresh, rank, resolve | leaderboard, tools, engine | refresh while read, staleness | a cohort is replaced whole |
| execution runner (`execution/runner.ts`) | `plans`, `timers`, `consecutiveErrors` (memory), `execution_plans` (disk) | schedule, fire a slice, record, cancel, stop, shut down, reload | trading service, execution tools, other processes on the database | slices overlap cancel, shutdown and each other; crashes; a second process; failed writes | no slice sent twice or after the end, reports are true, a plan ends |
| execution planners (`execution/plan.ts`) | none | TWAP lots, iceberg clips (no tool asks for them), offsets, mirror deltas | runner, copy tool | rounding | sizes add up, mirroring is idempotent |
| trading service and tools (`trading/exchange.ts`, `tools/trading/`) | nonce, asset maps | place, cancel, close, copy a wallet | exchange, cached account | unknown outcome of a post, cached positions, concurrent calls | an order is posted once, a closing order never turns a position, nonces increase |
| rate limiter, cache, upstream client (`core/`) | tokens and queue; entries and loads in flight | acquire, surcharge, pause; get, load, evict; request, retry, read page by page | every upstream request | weights, single flight, retries, entries that arrive while paging | the budget is kept, no starvation, a failed load leaves nobody waiting, no entry is lost |
| price feed (`core/ws.ts`) | socket, flags, mids | connect, drop, reconnect, close | network | errors and closes of one socket, silence, a constructor that throws | a drop is followed by an attempt |
| Telegram, webhooks (`telegram/`, `webhook/`) | links, codes, caps, update offset | link, notify, retry | the engine's events | delivery failures, caps counted before a lookup, updates repeated after a restart | caps kept, a code links one chat, every update is handled |
| market, account and premium analytics (`tools/free/`, `tools/premium/`, `hl/`) | snapshots | coordination, liquidation map, HIP-3, whale flow, screeners | upstream client | wallets missing from a snapshot, boundaries | answers meet their definitions |
| Polymarket divergence (`polymarket/`) | none | comparable contracts, contradictions | upstream | which pairs compare | only real contradictions are reported |
| configuration and logging, signing, admin and public pages, MCP resources, Apify actor | none | reading, formatting, cryptography | | | not modelled (section 6) |

`PROJECT.json` "components" lists every source file with what is modelled of it, and
"hazards" what is hard to test, at its line, with the properties that cover it.

## 2. The modules

    PaymentContract          what a paying caller is promised
      ^ implemented by
    X402Payments             payments over x402, several processes    X402Payments_proofs
    KeyTable                 tables of keys, usage and grants as values
      ^ ApiKeys              free and environment keys, quota
          ^ ProPurchase      buying and renewing Pro, with ApiKeys    Keys_proofs
    Alerts                   alerts, ticks, events and polling        Alerts_proofs
    Timeline                 the clock and wallets of two records:
      ^ Signals              tick -> signal -> score, the whale flip  Scores_proofs
      ^ Cohort               the ranked cohort and its refresh
          ^ Samples          daily score samples and their outcomes   Scores_proofs
    ExecutionRunner          background TWAP plans                    ExecutionRunner_proofs
    CopyTrading              mirroring and closing on cached accounts CopyTrading_proofs
    UpstreamClient           limiter, cache and retries together      Reads_proofs
    Paging  WhaleFlow        reads of several answers                 Reads_proofs
    Notifications            Telegram and webhooks                    Notifications_proofs
    HouseAlerts  MidsFeed                                             small state machines
    Planning  Calibration  Coordination  Coherence
    LiquidationMap  Listings  (Selections: Array.filter)              functions
      ^ AnalyticTools        the functions as answers of tools        Reads_proofs
    MC*                      instances for TLC

**X402Payments.** A call is presented (`Present`: early checks, the count per payer,
the request to `/verify`), reserved (`VerifyValid`: payment id and count in one
synchronous piece), run, settled, and answered; `pc` is where its handler waits and
`charge` the closure's own state (`reserved`, `settled`, `unknown`, `released`). The
payment id is the authorization, however the header encoded it. `consumed` is the table
x402_payments, shared; `pending` is the map pendingByPayer, one per process. Outside
the code, `requests` holds the settle requests that may still move money and `paidFor`
who an authorization's money was taken for: a transfer may land after the server gave
up (`Transfer`), or never. A facilitator that refuses without naming a transaction is
believed, as the code believes it. A payload without `from` or `nonce` is assumed
to be refused by `/verify`. `Restart` empties the memory of a process and
loses its handlers.

**PaymentContract** is the same story as a caller sees it: offered, charged, told. The
refinement maps `pc` to what the caller was told; `X402Payments` implements it.

**KeyTable** holds the statements and transactions of `billing/db.ts` on the tables of
keys as operators on functions. **ApiKeys** is the billing service over them: issue and
re-issue (with its cooldown and ceiling), authorization that counts before the tool runs,
refund to the key and month that were charged, `bootstrapKeysFromEnv` at each start, and
the two writes of `issueFreeKey` with a crash between them. `known` keeps random keys
unguessed; `owner` and `served` are history. **ProPurchase** EXTENDS it: a purchase waits
twice (verify, settle) while everything of ApiKeys goes on. `PlanNewKey` stores the key
before it is paid, `PlanRenewal` only notes, commit extends from the row it finds at that
time. Payment is seen through PaymentContract's three outcomes.

**Alerts.** A tick lists the rows, awaits the market and then evaluates all alerts in one
synchronous loop (`Evaluate`), or dies in it (`CrashInTick`: any subset of the alerts
updated, the last one perhaps without its event). `ticks` holds what a tick listed, so
stale rows are written back as the code writes them. Events carry `at` and their place
in the sequence is their id; an event that ages out keeps its place, marked `purged`.
Polling is in its two modes; `arrives` says whether the answer reached the owner. The
alert types with an edge in their own state (funding, price move) are modelled; what the
market shows is an input.

**Signals.** The rest of a tick: after `BeginTick` the market and the wallets are read,
each of which may fail (`FailTick`, `Looks`); `Loop` evaluates the flip of the cohort's
net position (a reading with a wallet missing is skipped) and records a signal for
whatever fires; `ScoreNext` scores one signal of the batch that was due then, or gives it
up when it lags too far. `Start` includes the migration of an older database. Of a score
the model keeps the moment its price is of, which is what a published return depends on:
a tick is in time by the moment it began, but its market rows come from the cache (at most
`MarketAge` old) or up to `MaxRead` later (`ReadMarket`); a late signal is priced by a
candle before its horizon or, where there is none, after it, within `CandleReach`.

**Cohort** and **Samples.** A refresh waits for the leaderboard and replaces the table
whole; resolving prefers a fresh cohort, then the operator's list, the leaderboard, a
stale cohort. A sampling pass resolves a cohort once and writes its scores chunk by
chunk; it begins only on a day that has no sample. One process samples: both servers start
a sampler, and `running` is in memory, so two on one database are outside the model.
`Resolve` reads one due sample's fills: it stores the outcome, or counts an attempt, and gives up at the last one.
`outcomes` selects, oldest first, the samples of a wallet whose windows do not overlap.

**CopyTrading.** A call reads the two accounts (from the cache, if the entry is young
enough), plans deltas in units, gives up as a whole above the risk cap, rounds each delta
to lots and posts it unless it is too small or above the cap per order. An order in
`flying` carries its nonce and may execute in part, not at all, or after its caller gave
up; the signature awaited between nonce and post belongs to the step that takes the nonce,
which only moves the departure of an order that may execute at any later moment anyway.
The target and the account also move by themselves (`MaxMoves`), and a position is closed (`PlanClose`) beside it from the same cached account. The legs of a call are a
function of coins, `None` where there is none to come. Three ghosts say when a call can
be held to its goal: `calm` (it read the account as it was, and only its own legs, each
in full, have moved it), `synced` and `repeating`.

**UpstreamClient** composes the single-flight LRU cache, the retrying request and the
token bucket: a caller joins a load in flight or begins one; each request, a retry
included, waits in the queue of the limiter for its weight; the surcharge for the items
of an answer is bought before the answer is returned. The queue holds the callers whose
loads wait, what each is to pay follows from its load (`due`), and `pump` serves as many
heads as the tokens pay for (`granted`). The cache is a function of keys beside `recent`,
the insertion order of the Map it is in the code. `credit` is what the exchange has left
for this client, at the weights the exchange gives; `uncharged` what of it the client never
pays for: the part of a weight above the whole budget, which `clamped` takes off, and the
items of an answer that is lost after the exchange counted it (`Refuse`, `Fail`).
**Paging** reads a window of fills (by time and id) or funding page by page while entries
arrive; what was collected is a set of places in the exchange's order (`rows`) beside the
number of rows the caller is given (`count`), so a repeated row shows. **MidsFeed** is the
socket with its flags and timers; the constructor of a socket may throw (`attempt`), which
sets no timer, so that only the next `getMid` tries again.

**Notifications.** Chats send updates, Telegram keeps them until a poll names a higher
offset, and the offset is lost in a crash; a code is redeemed once within its time;
messages and webhooks count against a cap per chat and per key. A message leaves when it is
counted, a webhook's POST after a lookup (`Posted`, or `Undelivered`), and lookups of a key
overlap, as nobody awaits `notify`; `posts` records when each was counted and when it left. **HouseAlerts** is
`ensureHouseAlerts` statement by statement.

**Functions.** `Planning` (slices, clips, offsets), `Calibration` (buckets, rank
correlation and verdict of the published calibration), `Coordination` (clusters of wallets
that trade alike), `Coherence` (contracts that contradict each other), `LiquidationMap`
(buckets and their distance), `Listings` (pages, screeners) define each algorithm as the
code computes it; `AnalyticTools` asks them for answers and states what an answer must
satisfy by another definition (sums, partitions, closures, extrema). `Selections` is
`Array.filter`, and sorting and union-find's way up are written place by place
(`place`, `ascent`), because what a fold or a library selection returns could not be reasoned
about. Observations are those `calibrate` keeps, with a finite score and return; the links
between wallets are joined one by one (`joinPair`), as in the loop of
`detectCoordination`. `WhaleFlow` keeps
the snapshots of what the cohort's net position is worth, which moves with the mark price
(`reprice`) as well as with trades; the store in memory and the database differ in what they
forget (`recorded`, `remembered`). The cap on all keys of the store in memory is left out.
**MCStandalone** instantiates what shares no state with anything else: a behaviour works
one part and leaves the others at rest, so no part multiplies another's states.

**ExecutionRunner.** `Start` is the constructor with the table as it is, `Schedule`
hl_twap_order, `FireChild` a timer up to its await, `PostOrder` the one post,
`Rejected`, `Submitted` and `Failed` the rest of `fireChild` (record, error count, stop,
finalize, save), `Cancel` hl_cancel_execution in whichever process it is called,
`Shutdown` the signal handler, `Crash` a kill. A process has one pid; `taken` lets the
pid of a dead one belong to something else that is alive. Each database write may fail
(`Saves`), as `save` swallows errors; where two writes follow each other in one
synchronous piece both outcomes are taken. Preview plans (`live` false) are left out:
no tool schedules one.

## 3. The runs

| run | question | result |
|---|---|---|
| `x402_safety` | 3 calls, 2 processes, 2 encodings of one authorization and a second one, one payment in flight per payer | holds: no double settlement, no false "not charged", no leak, exact counts, the contract is implemented, every call is answered |
| `keys` | 1 requester, 2 keys to issue, 2 operator keys, 2 calls, a month boundary, changing lists | holds: quota per requester, one free key, keys and tiers as the last lists that name a key say |
| `pro_purchase` | 2 purchases against 2 issued keys, an operator key, a requester and outages | holds: paid time only, a bought key works |
| `alerts_safety` | 2 alerts, 2 owners (reliable, default), 2 overlapping ticks of one process, crashes, ageing | holds: cooldown, rising edge, both delivery promises |
| `execution_safety` | a plan of 3 slices, 2 processes, every write may fail, pid reuse | holds: sent once, true reports, running means driven, a plan ends |
| `signals` | 2 wallets that may be unreadable, 2 ticks, a market that is cached or late, a batch of 1, missing prices, an older database | holds: returns of the horizon up to the named distances, scored once, genuine flips, every signal closes |
| `samples` | 3 wallets (one never readable), chunks of 1, refreshes and restarts in a pass | holds: one cohort a day, independent outcomes, every sample closes |
| `copy_trading` | 2 calls on 2 coins, a target that turns or leaves, closings beside them | holds: a call that saw the positions ends in sync, shrinking never turns, nonces increase |
| `upstream` | 3 callers, a light key and one above the whole budget, retries, surcharges, lost answers, a cache of one entry | holds: the budget but for what no code pays for, no value stored too long before it was asked for, every caller answered |
| `notifications` | 2 chats, one code, one webhook with lookups, a crash | holds: a code links once, caps kept up to a lookup, every update handled |
| `standalone` | the functions, paging, whale flow, house alerts and the price feed | holds: answers meet their definitions, pages complete, flow alerts right, house alerts follow, feed reconnects |
| `copy_in_sync` | "once matched, a repeat call submits nothing" | violated: within the 5 s of the cached account it submits every order again |

**Bounds, and why they are enough.**

- `x402_safety`: two processes and three calls are the fewest with a race on one
  authorization within a process and one across processes, and a third call that finds a
  leaked or freed reservation; two headers for one authorization separate a payment from
  its encoding. MAX_PENDING_PER_PAYER is 1: the second call of a process is refused while one
  is in flight, and two that are verified at once pass the check together (section 5).
- `keys`: two periods, so a call can be charged in one and end in the next, and as many
  keys as it takes to issue, re-issue and refuse. MaxUse caps the calls counted for a Pro
  key only, a free key stops at its Quota (2) first. `pro_purchase`: two terms of 2 ticks
  overlap and run out before MaxTime (3).
- `alerts_safety`: an alert fires, its cooldown (2) ends, and its event (Retention 1)
  ages out; Limit 1 makes every second event wait; MaxEvents (2) is room for a repetition.
  Ties in `ORDER BY at` are taken in insertion order, as SQLite's scan gives them.
- `execution_safety`: three slices are the fewest with one answered, one in flight and one
  waiting when two errors in a row (MaxErrors 2) stop the plan.
- `signals`: a batch of 1 with 2 signals makes one wait for the other; Horizon 1,
  Tolerance 0 and MaxLag 1 within MaxTime 4 let a signal be scored on time, from a
  candle, too late, or never. MarketAge, MaxRead and CandleReach are 1, so each source can
  be off its moment. The second tick overlaps the first.
- `samples`: chunks of 1 with a cohort of 2 leave a pass half done; Window 2 over sample
  days 0..2 makes windows overlap; with Limit 1 and a broken wallet, a sample that cannot
  be resolved stands before one that can.
- `copy_trading`: a lot is 2 units, so sizes round; the caps (6 per order, 13 in all) refuse
  a single order or a whole call; TTL 1 over times 0..1 gives a fresh and an old cache.
- `upstream`: Capacity 2 with weights 1 and 3 and surcharges up to 1 makes the heavy
  request wait behind light ones and weigh more than the whole budget, which the code allows
  (HL_RATE_WEIGHT_PER_MIN from 10, config.ts:136, against WEIGHT_INFO 20, hlClient.ts:29);
  MaxRetries 1 and MaxEntries 1 reach both limits.
- `notifications`: Cap 1 in a Window of 2 is reached by one message; a lookup of up to
  MaxLookup 1 lets a POST leave as late as the next is counted; Ttl 1 lets the code expire;
  2 updates are the fewest with one before and one after the crash.
- `standalone`: each set is as small as an algorithm's cases allow (every alignment of
  sizes with lots, both sides of each threshold, ties and absent values); pages of 2, at
  most 3 of them, over 5 entries reach a full page of one time and the last page. Flow: 2
  wallets, 2 prices and a threshold of 2 make trades, the price, or both the reason of an
  alert; Lookback 2 accepts ages 1 to 3, Retention 2 forgets the oldest of those. A page of 2
  makes every tie of a fill a crowded page: other ties rest on the theorem `PagesRight`.

Symmetry is used only where no liveness is checked and only over sets the specification
never orders.

**Deadlock** is not checked: calls, keys, plans, ticks and the clock are finite in every
instance, so it stops when they are used up.

**Fairness**, in each case no more than the code arranges:

- `X402Payments`: the server's own steps. `postWithTimeout` (x402.ts:240-270) ends each
  wait for the facilitator, requests of tools time out in `core/http.ts`, so a handler
  moves on; a facilitator that answers, or a transfer that lands, is never assumed.
- `ExecutionRunner`: timers go off and `placeOrder`, whose requests all have time-outs,
  throws at the latest then; no order is assumed to be accepted, no process to stay alive.
- `Signals`, `Samples`: the engine's timer goes on (weak), and a market, or a wallet's
  fills, that is read again and again is readable again and again (strong); the wallets in
  `Broken` are never readable. A price need not ever be found. That a tick's wait for the
  market is bounded (`MaxRead`) is the time-outs and retries of `core/http.ts`; the bound
  itself is a parameter.
- `UpstreamClient`: requests end, by their time-out at the latest, and back-offs and
  timers run out; no request is assumed to succeed.
- `Notifications`: the poll loop goes on (it catches what a poll throws); that a message
  arrives is not assumed.
- `HouseAlerts`: the daily refresh and its statements; `MidsFeed`: reconnect timers fire;
  how an attempt ends, and whether anybody asks for a price, is not assumed.

## 4. What is proved

The proofs hold for every value of the constants: any number of calls, processes, keys,
purchases, alerts, ticks, plans, coins, wallets, codes, pages. They assume what the
modules' named ASSUMEs say: numbers are numbers, constant maps are functions, `None` is
none of the values it stands beside, and the sets that are counted or summed over (calls,
callers, wallets) are finite. Where a theorem names it, also:

- `OperatorLists`: the operator lists keys of his own making in the environment, never a
  key the server issued. A self-serve key that he did list would be revoked by the
  requester's next re-issue.
- `OneEngine`: all ticks belong to one process. With two, the theorems are false (section
  5). `AtMostOnce` does without it.

| module | theorems | inductive invariant and why it is needed |
|---|---|---|
| X402Payments_proofs | `TypeCorrect`, `SettledOnce`, `NotChargedStaysTrue`, `ReservationsReturned`, `PendingExact`, `Refinement` | the charge follows the handler (`ChargeFollowsCall`); a charge that holds its payment id has it in the table (`HolderConsumed`) and alone (`HolderUnique`); a settle request or transfer belongs to a call that still holds its id (`RequestHolds`, `PaidHolds`). That no second request is sent follows only from the uniqueness of the holder. `PendingExact` counts the payments in flight by the cardinality of their set |
| Keys_proofs (ApiKeys) | `TypeCorrect`, `OneFreeKey`, `EnvironmentDecides`, `QuotaBounded` | issued keys are known, a key in a grant is its requester's, a free key has a grant, running calls hold known keys, unknown keys are unused; and `ChargedTo`: the counter of the key a requester holds covers what was served and what is running in its month. The quota follows although a re-issue moves the counter while calls charged to the old key run |
| Keys_proofs (ProPurchase) | `BoughtStays`, `TimeIsPaid` | a key being bought is held by its purchase alone (`NewKeys`); a renewal is of a key its buyer sent (`Renewals`); a re-issue takes the key of a grant, which is never one paid for (`Grants`); the label of a row tells who may write it (`RowsOrdered`); and the end date lies between what the paid terms add up to from the first and from the last payment (`Paid`, `Unpaid`, `Times`) |
| Alerts_proofs | `TypeCorrect`, `OneEngineKeepsCooldown`, `RisingEdge` | every event of an alert is known to its row and to each copy of the row a tick holds (`Seen`), and one process has one tick (`OneTick`): without the second a stale copy is written back |
| Alerts_proofs (polling) | `AtMostOnce`, `AtLeastOnce` | `ReadEvents`: an event that was handed out by default is acknowledged, so no later batch has it. For acknowledging owners `InOrder` (ids and dates agree: one engine dates its events) makes a batch a first part of the queue, so whatever stands before an event that was got was got too (`Handed`), and an acknowledgement up to an id loses nothing |
| Scores_proofs (Signals) | `SignalsTyped`, `AtTheHorizon`, `ScoreIsFinal`, `FlipGenuine` | `Scoring`: one tick at a time, and what it has to score is open, due, and still in the table; a row with a source has a price of a moment the source allows (`RowOK`), rows of an older version included. `SignWas`: the sign stored with the alert is one the whole cohort's net had since it last fired, as an incomplete reading never moves it |
| Scores_proofs (Samples) | `OneCohort`, `Observations` | a pass in progress is of the day it began and all samples of that day are of its cohort, as a pass begins only on a day without samples. `Observations` is a fact about the selection (a recursive function of the day), by induction over the days: what is chosen up to a day is apart, and what was passed over overlaps something chosen before |
| ExecutionRunner_proofs | `TypeCorrect`, `SentOnce`, `ReportsHonest`, `Driven`, `FiresRunning` | `TimersRunning`: a plan with a timer left is running in the memory of one live process, its row, if ever written, says so and names that process, and no other process knows it. So a starting process skips it, a cancellation elsewhere cannot exist, and whatever ends a plan takes its timers. With `PostedOnce` and `AllHonest` it is kept by every action, failed writes included |
| CopyTrading_proofs | `CopyTyped`, `InSync`, `NeverTurns`, `NoncesGrow` | `EndsInSync` speaks of calls that are over; `Tracked` says of a calm one, coin by coin, that the leg is still to come, on its way, or settled, and in the first two cases that the account holds what the leg was planned from, which is what the exchange's clipping and the rounding to lots rest on. `LegsRight`: a leg is reduce-only exactly when it shrinks what was held. `NoncesBelow`: no order under way has a later nonce than the last one given |
| Reads_proofs (UpstreamClient) | `BudgetKept`, `NeverStale` | `credit + owed + uncharged >= tokens`: the exchange's account is behind the limiter's bucket by no more than what is owed for items and what nobody pays for, over a queue that holds no load twice (`Queued`); what a bucket that is full lets run over goes against the latter. `FreshInv`: an entry expires TTL after it was stored, a call asked no later than now |
| Reads_proofs (Paging) | `PagesRight` | `ReadSoFar`: everything of the window before the cursor has been collected, nothing after it, and the exchange records nothing before it any more, because entries come in order. The two loops differ in what they know at the cursor itself (fills may share its time) |
| Reads_proofs (WhaleFlow) | `FlowRight` | `ViewsRight`, `SnapshotsRight`: a view is at most a unit of time old, and a view or snapshot is what the cohort's position in each coin is worth unless a trade or the price changed that since; `nearest` then compares with a snapshot of before the last change only if that is within the window, and a snapshot that is retained is among what may be found (`remembered`) |
| Reads_proofs (AnalyticTools) | `AnswersRight`, from `ScheduleRight`, `ClipsRight`, `RanksRight`, `VerdictRight`, `QuartilesRight`, `EvidenceRight`, `UnionKeeps`, `ComponentsRight`, `ReportRight`, `MapRight`, `Hip3Right`, `PagesOfList`, `CurveRight` | `AnalyticInv`: an answer is right, or it is a search for groups that is under way (`Searching`): the parents are a forest (a depth falls on every way up), wallets with one root are connected by links, and linked wallets have one root or their pair is still to come (`Joined`). The first and the last are what a join needs and the end gives; see below for the functions |
| Notifications_proofs | `LinkedOnce`, `Capped` | a code that is still in the table has not linked yet, and one that left it is not issued again (`CodeSpent`); the book a sender keeps of a receiver holds exactly the deliveries counted for it, but for what was an hour old when the last was counted, so each delivery and the one that comes Cap later were counted an hour apart (`Booked`); a request leaves between its counting and MaxLookup later (`Left`, `Waiting`), and more than Cap numbers hold two that are Cap apart (`Spread`) |

Each action keeps the invariant by a lemma of its own; the theorems are two or three
lines from it. Facts the proofs share stand before them as lemmas. **Induction** over
data is done on a set: the numbers a fact holds of contain 0 and, with each number, the
next (`Induction` in Scores_proofs), or else the least number left out would contradict
that (`LeastOf`), from the well-foundedness of the naturals. So what the library's
`MapThenSumSet` computes is proved from its definition (the sums at the head of
Reads_proofs), and what the recursive selection of outcomes returns.

**The functions** are proved right for inputs of any size, each against the definition
AnalyticTools states. Slices: the first m of them add up to m times the quotient and the
smaller of m and the remainder, and a schedule that lost slices of no lots is refused.
Ranks: the places of a run of equals are an interval, as later in the order is a later place and every place is taken. Verdicts: negated, the k-th value takes the k-th
place from the other end, so each rank r becomes 2n + 2 - r, the covariance changes
its sign and no variance moves; so "positive" becomes "inverted" and back, "weak_positive"
becomes "no_evidence", and the other two stay, or in the case of "no_evidence" may become
"weak_positive". This is no independent definition of a verdict, only what the code's own
thresholds do under that turn. Bins: the price range of a bin holds a price exactly when
its key is the price's, on either side of the mark, and a sum is the sum of the sums of
its parts. Groups: every fact about roots is by induction along the way up, which a forest
ends within as many steps as there are wallets; compression keeps all roots. Pages: the rest
of a list from each offset on is one page and the rest from the next offset. Curve: the
steps are wider than one, so places rise. Contracts: of finitely many listings some one is
most liquid (`MostOf`) and as many as one likes are the widest (`TopOf`).

**Only model-checked.** All liveness (fairness and ENABLED are out of the prover's reach),
and `copy_in_sync`, whose property is false. No module declares a recursive operator.
The invariants and step properties of all passing runs are proved. Type invariants are
declared in every module and proved for X402Payments, ApiKeys, Alerts, Signals,
ExecutionRunner and CopyTrading; of the others the proofs carry the part they use.

## 5. Disagreements

Where the code does not do what a comment, a tool's description or a document says. The
first is shown by a run and quoted under "findings"; the others follow from the models
(weaken the assumption, or state the sentence as an invariant, to see them).

1. **Mirroring twice within 5 s doubles the orders** (`copy_in_sync`). The account is
   cached for TTL.account and no order drops the entry (hlClient.ts:144-148, cache.ts:84);
   plan.ts:90-91 and execution.ts:117-119 promise that a repeat submits nothing. Besides,
   a residual of exactly half a lot rounds to a whole lot, which the next call takes back.
2. **The bound on pending payments is not kept.** pendingByPayer is compared before the
   await of `/verify` (x402.ts:124) and raised after it (x402.ts:143); the comment at
   x402.ts:121-122 says "Bound how many may be in flight per payer".
3. **A refund can be lost.** The refund decrements the counter of the hash it charged
   (service.ts:187); after a re-issue the counter belongs to the new key (db.ts:273) and no
   row matches. registry.ts:223: "must not use up the caller's quota or money".
4. **A renewal can be paid and not applied.** commit runs after settlement; if the free key
   was re-issued meanwhile its row is gone and extendProKey throws (service.ts:330).
   buyPro.ts:18: "The payment is taken only once the key is ready."
5. **Two engines fire twice.** `running` is per process (engine.ts:70), and
   server-stdio.ts:37 and server-http.ts:89-93 each start one on a shared database;
   docs/audit/01-invariants.md (S1) says an alert never fires twice in its cooldown. Scores
   are final for one engine per database only, too.
6. **With two engines, acknowledging the highest id can skip an event.** pollUnacked orders
   by `at` (alertStore.ts:125), ackThrough acknowledges by id; alerts.ts:133-134 promises
   redelivery until acknowledged.
7. **A cancellation counts slices in flight as dropped** (execution.ts:317-328): they are
   sent, become `submitted`, and the last one overwrites `cancelled` (runner.ts:201-202).
8. **A second process overwrites a plan's row with its stale copy** (runner.ts:112), against
   "a restart still shows what a plan sent" (runner.ts:7-8).
9. **A flip through flat fires.** evaluate.ts:89 says "ignore flips through/into flat"; but
   when no wallet holds the coin, its aggregate has no entry (whales.ts:74-116), the alert is
   skipped with its old sign (evaluate.ts:85), and the opposite sign fires later. Only a
   hedged net of exactly 0 is ignored.
10. **The price feed serves old mids after a quick reconnect**: until the first message of
    the new socket, `connected` holds and the last message of the old one still counts as
    fresh, while ws.ts:3-4 says that getMid falls back to a request when the feed dropped.
11. **Telegram updates are handled again after a crash** (bot.ts:89, the offset is only in
    memory): an old /stop or /start is replayed and can undo a later link.
12. **The published methodology differs from the score**: scoreCalibration.ts:53 against
    smartMoney.ts:68-70.
13. **A weak negative correlation is folded into "no_evidence"** (calibration.ts:178-182):
    there is a weak_positive from 0.1 but no weak counterpart of inverted, while
    calibration.ts:29-34 says that a significant negative correlation is reported "rather than
    folded into `no_evidence`". `VerdictTurns` states what the code does.
14. **A score is not "AT" its horizon to the minute** (engine.ts:243-252): a tick is in time by
    the moment it began (engine.ts:69), though its market is cached or read after an await
    (engine.ts:86), and priceAt takes a candle of up to five minutes before, or the first one
    after (engine.ts:291-296, where its comment says "but not after").
15. **A request can weigh more than the budget pays for.** rateLimiter.ts:35 charges a weight
    above the bucket as the bucket (needed for progress), and the items of an answer whose body
    is lost are never bought (http.ts:54-74, hlClient.ts:57-59), while hlClient.ts:54 says
    "Hyperliquid weighs every HTTP request, retries included".
16. **A webhook can get more than its cap in an hour.** notify counts a delivery before the
    lookup and posts after it (webhooks.ts:110-115); webhooks.ts:104 says "within the hourly
    cap". CapKept bounds by how much.
17. **Whale flow alerts without a flow, and misses exits.** The compared value is in USD, so a
    price move alone fires (whaleFlowAlerts.ts:87-94), where the description says "who
    opened/closed what"; a coin that was left is looked for among keys of 26 h
    (sqliteSnapshots.ts:55-60) although a snapshot of up to 36 h is accepted, so "Detects full
    exits" fails for a caller that pauses.
18. **Small ones.** whale flow calls a net of 0 between hedged wallets `fullyClosed`; the
    equity curve has points + 1 values (traderReport.ts:26, 129-136); the "sliding" window
    of the address limiter is fixed (server-http.ts:37); a day whose sample a crash cut
    short stays partial; waiting for the surcharge can make a cached value older than its
    TTL when it is first returned; a bought key later put on HYPERSIGNAL_PRO_KEYS keeps its
    end date (db.ts:141).

Hazards known and covered by no property: creations counted before an await
(premium/alerts.ts:48), a crash between updateState and recordFired (engine.ts:130: the
event is lost; the model takes the step and promises nothing about it), the event of an alert
deleted during the tick, which is still recorded (engine.ts:130), a crash between
reservation and settlement (x402.ts:142: the id stays taken, unpaid), a new key discarded
while its payment may still land (buyPro.ts:56), a pid that now belongs to an unrelated
process (runner.ts:43: it "hides that plan until it exits"; the row of the dead plan is not
marked interrupted for as long), alerts of a re-issued key that can no longer be polled
(db.ts:272), and a bought key that the operator lists and later takes off (db.ts:141: it is
then revoked; the models assume that he lists only keys of his own making).

## 6. Not modelled, and why

- **Configuration and logging**: read once, no state. **Signing** of orders and signals:
  cryptography. **Admin and public pages, MCP resources and prompts**: read-only views.
  **Apify actor**: a thin client of the public server.
- **Statistics in floating point**: profiles, scores of a trader, portfolio risk, the
  normal distribution that prices Polymarket contracts. TLC has integers only; the models
  take the score, the price or the return as an input and check what is done with it.
- **Parsing and shapes**: request bodies, titles of Polymarket questions, asset ids and the
  wire format of orders, wording of answers.
- **The per-address limiter** of the HTTP server: one counter and one window.
- **Two HTTP servers issuing keys at once** on one database (service.ts:126): issuing is one
  step of one process in ApiKeys. **Two samplers on one database**: Samples has one process.
- **Values of the cache**: UpstreamClient says when an answer was stored, not how old it was
  then or what it says.

What a next step would take: several issuing processes in ApiKeys, and the composition of
ApiKeys with Alerts (what becomes of the alerts of a re-issued key).
