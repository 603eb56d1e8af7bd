------------------------------- MODULE Signals -------------------------------
(***************************************************************************)
(* From a fired alert to the published track record.  The engine's tick    *)
(* (src/alerts/engine.ts) looks at the whale cohort and the market, records *)
(* a signal for every alert that fires and scores the signals whose        *)
(* horizon has passed; src/store/signalStore.ts keeps them.  One alert     *)
(* watches the sign of the cohort's net position (src/alerts/evaluate.ts); *)
(* the others fire as the market pleases, their edges are Alerts' concern. *)
(* Of a score the model keeps the moment its price is of.                  *)
(***************************************************************************)
EXTENDS Timeline, Sequences, SequencesExt

CONSTANTS
    Ticks,          \* tick invocations that may be in progress
    Horizon,        \* horizonMinutes of a signal
    Tolerance,      \* scoreTolerangeMs
    MarketAge,      \* TTL.markets: how old the market rows a tick reads may be
    MaxRead,        \* bound: the longest a tick waits for the market rows
    CandleReach,    \* how far from the time asked for the candle of priceAt may lie
    MaxLag,         \* MAX_SCORING_LAG_MS
    Batch,          \* LIMIT of dueForScoring
    Cooldown,       \* cooldownMinutes of the whale alert
    MaxSignals,     \* bound: rows of table signals
    LastSignal      \* bound: last time a signal is recorded

ASSUME SignalsAssumption ==
    /\ {Horizon, Tolerance, MaxLag, Cooldown, LastSignal} \subseteq Nat
    /\ {MarketAge, MaxRead, CandleReach} \subseteq Nat
    /\ {Batch, MaxSignals} \subseteq Nat \ {0}
    /\ LastSignal + Horizon + MaxLag < MaxTime
    /\ Horizon + MaxLag + MaxRead <= MaxTime

VARIABLES
    signals,        \* table signals, in the order of insertion
    sign,           \* lastState of the whale alert
    lastFired,      \* lastFiredAt of the whale alert
    ticks,          \* ticks in progress
    up,             \* has this version been started on the database?
    net,            \* ghost: sign of the cohort's net when the alert last fired
    was             \* ghost: signs the net had in the looks since then

signalVars == <<signals, sign, lastFired, ticks, clock, up, net, was>>

Signs == {-1, 0, 1}
Sources == {"live", "historical", "stale"}
\* pxAt (not in the table) is the moment the scored price is of.  A row scored
\* before the column score_source existed has source "unset"; of such a row only
\* scored_at is read, the `now` of the tick that scored it.
Signal == [refOk : BOOLEAN, ts : Nat, scoredAt : Nat \cup {None}, pxAt : Int \cup {None},
           source : Sources \cup {"unset", None}]
\* market: the moment the market rows are of, once they are read.  looked: has
\* the loop over the alerts been done?  todo: the rows dueForScoring then
\* returned that are not scored yet.
Tick == [now : Nat, market : Int \cup {None}, looked : BOOLEAN,
         todo : SUBSET (1 .. MaxSignals)]

ASSUME NoSignalAssumption == None \notin Sources \cup {"unset"} \cup Tick \cup Int

SignalTypeOK ==
    /\ signals \in Seq(Signal) /\ Len(signals) <= MaxSignals
    /\ sign \in Signs
    /\ lastFired \in Nat \cup {None}
    /\ ticks \in [Ticks -> Tick \cup {None}]
    /\ clock \in 0 .. MaxTime
    /\ up \in BOOLEAN
    /\ net \in Signs /\ was \subseteq Signs \ {0}

dueAt(s) == s.ts + Horizon

\* A database without signals, or one with a row that a tick of an older
\* version scored, whenever it got to it, at the market it read.
OldRow(at, px) ==
    [refOk |-> TRUE, ts |-> 0, scoredAt |-> at, pxAt |-> px, source |-> "unset"]

SignalInit ==
    /\ \/ signals = <<>> /\ clock = 0
       \/ \E at \in Horizon .. Horizon + MaxLag :
             \E px \in at - MarketAge .. at + MaxRead :
                signals = <<OldRow(at, px)>> /\ clock = at + MaxRead
    /\ sign = 0 /\ lastFired = None
    /\ ticks = [t \in Ticks |-> None]
    /\ up = FALSE
    /\ net = 0 /\ was = {}

------------------------------------------------------------------------------

\* migrateScoreSource: an old score taken late is stale.
migrateScoreSource(s) ==
    IF s.source # "unset" THEN s
    ELSE [s EXCEPT !.source =
            IF s.scoredAt - dueAt(s) <= Tolerance THEN "live" ELSE "stale"]

\* The process starts, or dies in whatever it is doing and starts again.
Start ==
    /\ up' = TRUE
    /\ signals' = [i \in DOMAIN signals |-> migrateScoreSource(signals[i])]
    /\ ticks' = [t \in Ticks |-> None]
    /\ UNCHANGED <<sign, lastFired, clock, net, was>>

started == [now |-> clock, market |-> None, looked |-> FALSE, todo |-> {}]

\* Mutant: tick without the `running` flag.
BeginTickTwice(t) ==
    /\ up /\ ticks[t] = None
    /\ ticks' = [ticks EXCEPT ![t] = started]
    /\ UNCHANGED <<signals, sign, lastFired, clock, up, net, was>>

\* tick: one at a time; `now` is taken before anything is awaited.
BeginTick(t) ==
    /\ up /\ \A u \in Ticks : ticks[u] = None
    /\ ticks' = [ticks EXCEPT ![t] = started]
    /\ UNCHANGED <<signals, sign, lastFired, clock, up, net, was>>

\* The answer of getMarketRows, MaxRead after the tick began at the latest:
\* rows of this moment, or of the cache.
ReadMarket(t) ==
    /\ ticks[t] # None /\ ticks[t].market = None
    /\ \E at \in clock - MarketAge .. clock : ticks' = [ticks EXCEPT ![t].market = at]
    /\ UNCHANGED <<signals, sign, lastFired, clock, up, net, was>>

\* The market could not be read: nothing is evaluated and nothing scored.
FailTick(t) ==
    /\ ticks[t] # None /\ ticks[t].market = None
    /\ ticks' = [ticks EXCEPT ![t] = None]
    /\ UNCHANGED <<signals, sign, lastFired, clock, up, net, was>>

Total(pos, W) == FoldSet(LAMBDA w, acc : pos[w] + acc, 0, W)
signOf(n) == IF n > 0 THEN 1 ELSE IF n < 0 THEN -1 ELSE 0

\* aggregateByCoin: no entry for a coin that none of the wallets holds.
aggregateByCoin(pos, W) ==
    IF \E w \in W : pos[w] # 0 THEN signOf(Total(pos, W)) ELSE None

\* Mutant: the wallets that loaded stand for the cohort.
netOfLoaded(pos, loaded) == aggregateByCoin(pos, loaded)

\* computeWhaleNet: an incomplete cohort is skipped.
computeWhaleNet(pos, loaded) ==
    IF loaded = Wallets THEN aggregateByCoin(pos, loaded) ELSE None

cooling(now) == lastFired # None /\ now - lastFired < Cooldown

\* evalWhaleFlip fires from long to short or from short to long.
evalWhaleFlip(n, now) == ~cooling(now) /\ n # None /\ n * sign = -1

newSignal(refOk, now) ==
    [refOk |-> refOk, ts |-> now, scoredAt |-> None, pxAt |-> None, source |-> None]

\* dueForScoring: unscored rows past their horizon, ORDER BY ts (the order of
\* insertion, one tick at a time) LIMIT.
dueForScoring(rows, now) ==
    LET due == {i \in DOMAIN rows : rows[i].source = None /\ dueAt(rows[i]) <= now}
    IN  {i \in due : Cardinality({j \in due : j < i}) < Batch}

\* What a tick may find: the cohort holds `pos`, the wallets of `loaded` could
\* be read, and the market has the whale alert's coin or (`known`) not.
Looks ==
    {[seen |-> IF known THEN computeWhaleNet(pos, loaded) ELSE None,
      net |-> signOf(Total(pos, Wallets))] :
        pos \in [Wallets -> Signs], loaded \in SUBSET Wallets, known \in BOOLEAN}

\* The loop over the alerts, once the market and the wallets are read: refOk
\* says that the coin has a positive price, other that another alert fires.
EvaluateAlerts(t, look, refOk, other) ==
    LET now   == ticks[t].now
        fires == evalWhaleFlip(look.seen, now)
        new   == (IF fires THEN 1 ELSE 0) + (IF other THEN 1 ELSE 0)
    IN  /\ new > 0 => Len(signals) + new <= MaxSignals /\ now <= LastSignal
        /\ signals' = signals \o [i \in 1 .. new |-> newSignal(refOk, now)]
        /\ sign' = IF look.seen = None \/ cooling(now) THEN sign ELSE look.seen
        /\ lastFired' = IF fires THEN now ELSE lastFired
        /\ ticks' = [ticks EXCEPT ![t].looked = TRUE,
                                  ![t].todo = dueForScoring(signals', now)]
        /\ net' = IF fires THEN look.net ELSE net
        /\ was' = ((IF fires THEN {} ELSE was) \cup {look.net}) \ {0}
        /\ UNCHANGED <<clock, up>>

Loop(t) ==
    /\ ticks[t] # None /\ ticks[t].market # None /\ ~ticks[t].looked
    /\ \E look \in Looks, refOk, other \in BOOLEAN : EvaluateAlerts(t, look, refOk, other)

------------------------------------------------------------------------------
\* Is the tick that began at `now` in time for s?
inTime(s, now) == now - dueAt(s) <= Tolerance

\* Mutant: a late signal is scored at the market of the tick.
pricedNow(s, k) == {k.market}

\* The moments the price that tick k finds for s may be of: those of the market
\* rows it read when it is in time; when it is late, those of the candles that
\* priceAt takes, one that covers the horizon or, where there is none, one of
\* before it or of after it within its reach.
pricedAt(s, k) ==
    IF inTime(s, k.now) THEN {k.market}
    ELSE dueAt(s) - CandleReach .. dueAt(s) + CandleReach

setScore(s, now, px) ==
    [s EXCEPT !.pxAt = px,
              !.source = IF inTime(s, now) THEN "live" ELSE "historical"]

markStale(s) == [s EXCEPT !.source = "stale"]

\* Mutant: a signal without a price is never given up.
scoreDueForever(s, now, px) ==
    IF ~s.refOk THEN markStale(s)
    ELSE IF px # None THEN setScore(s, now, px) ELSE s

\* One round of scoreDueSignals: a signal without a reference price is stale,
\* one without a price at its horizon only once it is late beyond MaxLag.
scoreDueSignal(s, now, px) ==
    IF ~s.refOk THEN markStale(s)
    ELSE IF px # None THEN setScore(s, now, px)
    ELSE IF now - dueAt(s) > MaxLag THEN markStale(s)
    ELSE s

\* The market may lack the coin, and the request for candles may fail.
ScoreNext(t) ==
    /\ ticks[t] # None
    /\ \E i \in ticks[t].todo :
          /\ \A j \in ticks[t].todo : i <= j
          /\ \E px \in pricedAt(signals[i], ticks[t]) \cup {None} :
                signals' = [signals EXCEPT ![i] = scoreDueSignal(@, ticks[t].now, px)]
          /\ ticks' = [ticks EXCEPT ![t].todo = @ \ {i}]
    /\ UNCHANGED <<sign, lastFired, clock, up, net, was>>

EndTick(t) ==
    /\ ticks[t] # None /\ ticks[t].looked /\ ticks[t].todo = {}
    /\ ticks' = [ticks EXCEPT ![t] = None]
    /\ UNCHANGED <<signals, sign, lastFired, clock, up, net, was>>

TimePasses ==
    /\ clock < MaxTime
    /\ \A t \in Ticks : ticks[t] # None /\ ticks[t].market = None =>
                          clock < ticks[t].now + MaxRead
    /\ clock' = clock + 1
    /\ UNCHANGED <<signals, sign, lastFired, ticks, up, net, was>>

SignalNext ==
    \/ Start
    \/ \E t \in Ticks :
          \/ BeginTick(t) \/ ReadMarket(t) \/ FailTick(t)
          \/ Loop(t) \/ ScoreNext(t) \/ EndTick(t)
    \/ TimePasses

SignalSpec == SignalInit /\ [][SignalNext]_signalVars

\* The timer keeps ticking, and again and again the market can be read and the
\* process lives long enough to finish a round of scoring.
SignalFairness ==
    /\ WF_signalVars(Start /\ ~up) /\ WF_signalVars(TimePasses)
    /\ WF_signalVars(\E t \in Ticks : BeginTick(t) \/ EndTick(t))
    /\ SF_signalVars(\E t \in Ticks : ReadMarket(t)) /\ SF_signalVars(\E t \in Ticks : Loop(t))
    /\ SF_signalVars(\E t \in Ticks : ScoreNext(t))

FairSignalSpec == SignalSpec /\ SignalFairness

------------------------------------------------------------------------------
\* The rows trackRecord counts: scored and not stale.
trackRecord == {i \in DOMAIN signals : signals[i].pxAt # None /\ signals[i].source # "stale"}

\* A published return is of the horizon of its signal, however long the process
\* was down or the market silent, and for the rows of an older version too
\* (signalStore.ts:10-18, engine.ts:243-252).  It is not of the horizon to the
\* millisecond: a tick is in time by the moment it began (engine.ts:69, 262), its
\* market may be cached or answer later, and a candle may be a neighbour.
ReturnsAreAtTheHorizon ==
    up => \A i \in trackRecord :
            LET s == signals[i]
            IN  /\ s.refOk
                /\ s.source = "live" =>
                      s.pxAt \in dueAt(s) - MarketAge .. dueAt(s) + Tolerance + MaxRead
                /\ s.source # "live" =>
                      s.pxAt \in dueAt(s) - CandleReach .. dueAt(s) + CandleReach

\* The record is final: a signal is scored, or given up, once, whatever ticks
\* and crashes do afterwards (engine.ts:124-126: one tick at a time).
ScoredOnce ==
    [][\A i \in DOMAIN signals :
          signals[i].source \in Sources => signals'[i] = signals[i]]_signalVars

\* A whale flip is genuine: the whole cohort's net has the sign reported, and
\* has had the opposite one since the alert last fired; a wallet that failed
\* to load is never read as an exit (engine.ts:198-205).
FlipIsGenuine ==
    [][lastFired' # lastFired => net' = sign' /\ -net' \in was /\ net' # 0]_signalVars

\* Every signal ends scored or stale: one that can never be priced does not
\* stay at the head of the bounded queue and block those behind it.
EverySignalCloses == <>[](\A i \in DOMAIN signals : signals[i].source \in Sources)
==============================================================================
