------------------------------ MODULE WhaleFlow ------------------------------
(***************************************************************************)
(* hl_whale_flow_alerts (src/tools/premium/whaleFlowAlerts.ts): each call  *)
(* loads the cohort's accounts, compares what the net position is worth    *)
(* with a snapshot about a lookback old, and records one of its own        *)
(* (src/core/snapshots.ts, src/store/sqliteSnapshots.ts).  Calls overlap,  *)
(* and the worth moves with the market as well as with trades.             *)
(***************************************************************************)
EXTENDS Integers, Sequences, SequencesExt, FiniteSets, FiniteSetsExt

CONSTANTS
    FlowWallets,    \* the cohort
    FlowCoins,
    Sizes,          \* signed positions of a wallet in a coin, 0 for none
    MarkPrices,     \* what a coin may be worth
    FlowCalls,      \* calls to come
    Lookback,       \* lookbackMs; snapshots within half of it count
    Threshold,      \* thresholdUsd
    Retention,      \* MAX_AGE_MS of a snapshot
    MaxPerKey,      \* MAX_PER_KEY of the store in memory
    MaxFlowTime,    \* bound: last value of the clock
    MaxSnapshots,   \* bound: snapshots of a coin
    NoView          \* a call that has not loaded

ASSUME FlowAssumption ==
    /\ IsFiniteSet(FlowWallets) /\ Sizes \subseteq Int /\ 0 \in Sizes
    /\ MarkPrices \subseteq Nat \ {0}
    /\ {Lookback, Threshold, Retention, MaxFlowTime} \subseteq Nat
    /\ MaxPerKey \in Nat \ {0} /\ MaxSnapshots \in Nat

VARIABLES
    persistent,     \* does the database keep the snapshots?
    positions,      \* of the exchange: wallet and coin to size
    price,          \* of the exchange: coin to mark price
    series,         \* snapshots of a coin, in the order they were recorded
    flowCalls,      \* what a call loaded
    flowAnswer,     \* what a call has just answered, and what it saw
    flowNow,
    changedAt       \* ghost: when a position of the cohort in a coin last changed
                    \* in size or in worth

flowVars == <<persistent, positions, price, series, flowCalls, flowAnswer, flowNow,
              changedAt>>

FlowInit ==
    /\ persistent \in BOOLEAN
    /\ positions \in [FlowWallets -> [FlowCoins -> Sizes]]
    /\ price \in [FlowCoins -> MarkPrices]
    /\ series = [c \in FlowCoins |-> <<>>]
    /\ flowCalls = [k \in FlowCalls |-> NoView]
    /\ flowAnswer = NoView
    /\ flowNow = 0
    /\ changedAt = [c \in FlowCoins |-> 0]

\* positionValueUsd of the wallets, signed by the side of the position.
valuesIn(c) == [w \in FlowWallets |-> positions[w][c] * price[c]]

\* aggregateByCoin: netNtlUsd of a coin, and whether it has an entry.
aggregate(wallets) ==
    [c \in FlowCoins |->
        [net |-> MapThenSumSet(LAMBDA w : valuesIn(c)[w], wallets),
         held |-> \E w \in wallets : positions[w][c] # 0]]

trade(w, c, size) ==
    /\ size # positions[w][c]
    /\ positions' = [positions EXCEPT ![w][c] = size]
    /\ changedAt' = [changedAt EXCEPT ![c] = flowNow]
    /\ flowAnswer' = NoView
    /\ UNCHANGED <<persistent, price, series, flowCalls, flowNow>>

\* The market moves: what is held of the coin is worth something else.
reprice(c, p) ==
    /\ p # price[c]
    /\ price' = [price EXCEPT ![c] = p]
    /\ changedAt' = IF \E w \in FlowWallets : positions[w][c] # 0
                    THEN [changedAt EXCEPT ![c] = flowNow] ELSE changedAt
    /\ flowAnswer' = NoView
    /\ UNCHANGED <<persistent, positions, series, flowCalls, flowNow>>

\* Mutant: the wallets that could be loaded are the cohort.
accountsSome(k, loaded) ==
    flowCalls' = [flowCalls EXCEPT ![k] = [view |-> aggregate(loaded), at |-> flowNow]]

\* A call with a wallet missing answers that, and is over.
accounts(k, loaded) ==
    flowCalls' = IF loaded = FlowWallets
                 THEN [flowCalls EXCEPT ![k] = [view |-> aggregate(loaded), at |-> flowNow]]
                 ELSE flowCalls

loadAccounts(k) ==
    /\ flowCalls[k] = NoView
    /\ \E loaded \in SUBSET FlowWallets : accounts(k, loaded)
    /\ flowAnswer' = NoView
    /\ UNCHANGED <<persistent, positions, price, series, flowNow, changedAt>>

age(s) == flowNow - s.at
retained(s) == age(s) <= Retention
off(s) == IF age(s) > Lookback THEN age(s) - Lookback ELSE Lookback - age(s)

butFirst(q, n) == SubSeq(q, n + 1, Len(q))

\* What a call may find stored of a coin: in the database the write of any tool
\* that is the 200th deletes the rows no longer retained, so those may be gone.
remembered(c) ==
    LET q == series[c]
    IN  IF persistent
        THEN {butFirst(q, n) :
                n \in {m \in 0 .. Len(q) : \A i \in 1 .. m : ~retained(q[i])}}
        ELSE {q}

\* nearest: the snapshot closest to Lookback ago, within half of it; the first
\* of the closest in memory, any of them from the database.
nearest(q) ==
    LET best == {i \in DOMAIN q : /\ 2 * off(q[i]) <= Lookback
                                  /\ \A j \in DOMAIN q : off(q[i]) <= off(q[j])}
    IN  IF persistent \/ best = {} THEN best ELSE {Min(best)}

\* record: the store in memory keeps the last MaxPerKey, and none too old.
recorded(q, net) ==
    LET s == Append(q, [at |-> flowNow, net |-> net])
    IN  IF persistent THEN s
        ELSE butFirst(s, Min({n \in 0 .. Len(q) :
                                retained(s[n + 1]) /\ Len(s) - n <= MaxPerKey}))

far(x, y) == x - y >= Threshold \/ y - x >= Threshold

\* The coins that are evaluated: those held, and the keys of the store, of the
\* database only those with a snapshot that is retained.
evaluated(view) ==
    {c \in FlowCoins :
        \/ view[c].held
        \/ \E s \in ToSet(series[c]) : persistent => retained(s)}

\* The rest of the call, without an await: alerts and snapshots.
evaluate(k) ==
    LET view == flowCalls[k].view
        coins == evaluated(view)
    IN  /\ flowCalls[k] # NoView
        /\ \A c \in coins : Len(series[c]) < MaxSnapshots
        /\ \E found \in [coins -> UNION {remembered(c) : c \in coins}],
              prior \in [coins -> 0 .. MaxSnapshots] :
              /\ \A c \in coins :
                    /\ found[c] \in remembered(c)
                    /\ IF nearest(found[c]) = {} THEN prior[c] = 0
                       ELSE prior[c] \in nearest(found[c])
              /\ flowAnswer' =
                   [view |-> view, now |-> flowNow, seen |-> series,
                    alerts |-> {c \in coins : prior[c] # 0
                                              /\ far(view[c].net, found[c][prior[c]].net)}]
              /\ series' = [c \in FlowCoins |->
                              IF c \in coins THEN recorded(found[c], view[c].net) ELSE series[c]]
        /\ flowCalls' = [flowCalls EXCEPT ![k] = NoView]
        /\ UNCHANGED <<persistent, positions, price, flowNow, changedAt>>

\* A call is over within a unit of time, which is far below the lookback.
flowTick ==
    /\ flowNow < MaxFlowTime
    /\ \A k \in FlowCalls : flowCalls[k] # NoView => flowCalls[k].at = flowNow
    /\ flowNow' = flowNow + 1
    /\ flowAnswer' = NoView
    /\ UNCHANGED <<persistent, positions, price, series, flowCalls, changedAt>>

FlowNext ==
    \/ \E w \in FlowWallets, c \in FlowCoins, size \in Sizes : trade(w, c, size)
    \/ \E c \in FlowCoins, p \in MarkPrices : reprice(c, p)
    \/ \E k \in FlowCalls : loadAccounts(k) \/ evaluate(k)
    \/ flowTick

FlowSpec == FlowInit /\ [][FlowNext]_flowVars

------------------------------------------------------------------------------
\* Snapshots a call may compare with.
baseline(c) ==
    {s \in ToSet(flowAnswer.seen[c]) :
        LET a == flowAnswer.now - s.at IN 2 * a >= Lookback /\ 2 * a <= 3 * Lookback}

\* An alert is about a coin of which a position changed, or was worth something
\* else, since the oldest snapshot that may be compared with was taken, unless
\* the caller asked for changes of nothing too; the price alone may have moved
\* (whaleFlowAlerts.ts:87-94).  A coin that is far from every such snapshot, one
\* the cohort has left included, is alerted on if one of them is retained: with
\* a long lookback older ones count too, but of a coin no longer held those may
\* be forgotten (whaleFlowAlerts.ts:116-124, sqliteSnapshots.ts:33-60).
FlowAlertsAreRight ==
    flowAnswer # NoView =>
        \A c \in FlowCoins :
            /\ c \in flowAnswer.alerts /\ Threshold > 0 =>
                  2 * (flowAnswer.now - 1 - changedAt[c]) <= 3 * Lookback
            /\ (\E s \in baseline(c) : flowAnswer.now - s.at <= Retention)
               /\ (\A s \in baseline(c) : far(flowAnswer.view[c].net, s.net))
               => c \in flowAnswer.alerts
==============================================================================
