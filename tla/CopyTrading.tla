----------------------------- MODULE CopyTrading -----------------------------
(***************************************************************************)
(* hl_copy_wallet and hl_close_position on the trading account             *)
(* (src/tools/trading/execution.ts, src/execution/plan.ts,                 *)
(* src/trading/exchange.ts).  Calls of one process overlap across awaits;  *)
(* what they know of an account is what HyperliquidClient cached for       *)
(* TTL.account, and a posted order may execute after its caller gave up.   *)
(* Calls are live and canSubmit is ok: the others post nothing.  Sizes are *)
(* in units of 10^-8 coin, the precision of the planner; the exchange      *)
(* takes whole lots.                                                       *)
(***************************************************************************)
EXTENDS Integers, FiniteSets, FiniteSetsExt

CONSTANTS
    Coins,
    Calls,          \* tool calls to come
    Targets,        \* positions the copied wallet may have
    Holdings,       \* positions the trading account may have at first
    MyEquity, TargetEquity,  \* accountValue of the two accounts
    Scale,          \* argument scale
    Price,          \* mark price of a coin, per unit
    Lot,            \* units in a lot, 10^(8 - szDecimals)
    OrderCap,       \* maxOrderNotionalUsd
    RiskCap,        \* equity * maxLeverage
    TTL,            \* TTL.account
    MaxTime,        \* bound: last value of the clock
    MaxPos,         \* bound: largest position
    MaxMoves,       \* bound: trades of others
    None, Done

ASSUME CopyAssumption ==
    /\ {MyEquity, TargetEquity, Lot} \subseteq Nat \ {0}
    /\ {Scale, OrderCap, RiskCap, TTL, MaxTime, MaxPos, MaxMoves} \subseteq Nat
    /\ Price \in [Coins -> Nat \ {0}]
    /\ Targets \subseteq [Coins -> Int]
    /\ Holdings \subseteq [Coins -> -MaxPos .. MaxPos]

VARIABLES
    pos,            \* the trading account on the exchange, signed
    target,         \* the copied wallet on the exchange
    cache,          \* TtlLruCache: the two clearinghouseState entries
    calls,          \* calls in progress
    flying,         \* orders posted and not executed
    lastNonce,
    now,
    moves,          \* trades of others so far
    synced,         \* ghost: a call brought pos in line, nothing moved since
    calm,           \* ghost: calls whose legs alone, each in full, have moved
                    \* the account since they read it, as it was
    repeating       \* ghost: calls that began when synced held, and it holds

ghosts == <<synced, calm, repeating>>
vars == <<pos, target, cache, calls, flying, lastNonce, now, moves, ghosts>>

Positions == [Coins -> -MaxPos .. MaxPos]
abs(x) == IF x < 0 THEN -x ELSE x

\* held: what the caller read; goal: where the order is to take it.
Leg == [held : Int, goal : Int, reduceOnly : BOOLEAN]
Order == [nonce : Nat, call : Calls, coin : Coins, leg : Leg]
\* goal: None until the call has planned; wait: nonce of the order it awaits.
Call == [kind : {"copy", "close"}, seen : Targets \cup {None},
         goal : [Coins -> Int] \cup {None}, legs : [Coins -> Leg \cup {None}],
         wait : Nat \cup {None}, refused : SUBSET Coins]

ASSUME NoCallAssumption ==
    /\ None \notin Call /\ None \notin Leg /\ None \notin [Coins -> Int]
    /\ Done \notin Call

Entry(V) == [value : V, exp : Nat] \cup {None}

TypeOK ==
    /\ pos \in Positions /\ target \in Targets
    /\ cache \in [mine : Entry(Positions), target : Entry(Targets)]
    /\ calls \in [Calls -> Call \cup {None, Done}]
    /\ flying \subseteq Order /\ lastNonce \in Nat
    /\ now \in 0 .. MaxTime /\ moves \in 0 .. MaxMoves
    /\ synced \in BOOLEAN /\ calm \subseteq Calls /\ repeating \subseteq Calls

Init ==
    /\ pos \in Holdings
    /\ target \in Targets
    /\ cache = [mine |-> None, target |-> None]
    /\ calls = [c \in Calls |-> None]
    /\ flying = {} /\ lastNonce = 0 /\ now = 0 /\ moves = 0
    /\ synced = FALSE /\ calm = {} /\ repeating = {}

Running(c) == calls[c] \notin {None, Done}

------------------------------------------------------------------------------
\* Math.round(n / d)
roundDiv(n, d) == (2 * n + d) \div (2 * d)

desired(tgt) ==
    [x \in Coins |-> roundDiv(tgt[x] * MyEquity * Scale, TargetEquity)]

shrinks(held, goal) == held # 0 /\ held * goal >= 0 /\ abs(goal) < abs(held)

noLegs == [x \in Coins |-> None]

Move(held, goal) == [held |-> held, goal |-> goal, reduceOnly |-> shrinks(held, goal)]

\* Mutant: a coin the target has left needs no order.
mirrorHeldOnly(tgt, mine) ==
    LET goal == desired(tgt)
    IN [x \in Coins |-> IF tgt[x] # 0 /\ goal[x] # mine[x]
                         THEN Move(mine[x], goal[x]) ELSE None]

\* planMirror: deltas from what is held to the target's exposure, scaled.
planMirror(tgt, mine) ==
    LET goal == desired(tgt)
    IN [x \in Coins |-> IF goal[x] # mine[x] THEN Move(mine[x], goal[x]) ELSE None]

\* Coins with a leg to come.
open(legs) == {x \in Coins : legs[x] # None}

deltaNotional(legs) ==
    MapThenSumSet(LAMBDA x : abs(legs[x].goal - legs[x].held) * Price[x], open(legs))

------------------------------------------------------------------------------
fresh(k) == cache[k] # None /\ now < cache[k].exp

\* clearinghouseState: the cached account, else the exchange's, cached.
load(k, current) ==
    IF fresh(k) THEN <<cache[k].value, cache>>
    ELSE <<current, [cache EXCEPT ![k] = [value |-> current, exp |-> now + TTL]]>>

NewCall(kind, seen, goal, legs) ==
    [kind |-> kind, seen |-> seen, goal |-> goal, legs |-> legs, wait |-> None,
     refused |-> {}]

\* copyWallet: the target's account is read first.
BeginCopy(c) ==
    /\ calls[c] = None
    /\ LET read == load("target", target)
       IN /\ calls' = [calls EXCEPT ![c] = NewCall("copy", read[1], None, noLegs)]
          /\ cache' = read[2]
    /\ repeating' = IF synced THEN repeating \cup {c} ELSE repeating
    /\ UNCHANGED <<pos, target, flying, lastNonce, now, moves, synced, calm>>

\* A call that read its account as it is, no order on its way, is calm.
calmAfter(c, mine) == IF mine = pos /\ flying = {} THEN calm \cup {c} ELSE calm

\* copyWallet: the own account is read, the trade planned, and refused as a
\* whole above the risk cap.
PlanCopy(c) ==
    /\ Running(c) /\ calls[c].kind = "copy" /\ calls[c].goal = None
    /\ LET read == load("mine", pos)
           seen == calls[c].seen
           legs == planMirror(seen, read[1])
       IN /\ cache' = read[2]
          /\ \/ /\ deltaNotional(legs) > RiskCap
                /\ calls' = [calls EXCEPT ![c] = Done]
                /\ repeating' = repeating \ {c} /\ UNCHANGED calm
             \/ /\ deltaNotional(legs) <= RiskCap
                /\ calls' = [calls EXCEPT ![c] = NewCall("copy", seen, desired(seen), legs)]
                /\ calm' = calmAfter(c, read[1]) /\ UNCHANGED repeating
    /\ UNCHANGED <<pos, target, flying, lastNonce, now, moves, synced>>

\* Mutant: an order that may open a position.
closeLegOpen(x, mine) ==
    [noLegs EXCEPT ![x] = [held |-> mine[x], goal |-> 0, reduceOnly |-> FALSE]]

\* closePosition: a reduce-only order for the whole position.
closeLeg(x, mine) ==
    [noLegs EXCEPT ![x] = [held |-> mine[x], goal |-> 0, reduceOnly |-> TRUE]]

PlanClose(c, x) ==
    /\ calls[c] = None
    /\ LET read == load("mine", pos)
           mine == read[1]
       IN /\ cache' = read[2]
          /\ \/ /\ mine[x] = 0
                /\ calls' = [calls EXCEPT ![c] = Done] /\ UNCHANGED calm
             \/ /\ mine[x] # 0
                /\ calls' = [calls EXCEPT ![c] =
                      NewCall("close", None, [mine EXCEPT ![x] = 0], closeLeg(x, mine))]
                /\ calm' = calmAfter(c, mine)
    /\ UNCHANGED <<pos, target, flying, lastNonce, now, moves, synced, repeating>>

------------------------------------------------------------------------------
\* formatSize: the nearest whole number of lots, in units.
formatSize(leg) == roundDiv(abs(leg.goal - leg.held), Lot) * Lot

\* placeOrder: too small for a lot, or above the cap and not reduce-only.
refusedOrder(x, leg) ==
    \/ formatSize(leg) = 0
    \/ ~leg.reduceOnly /\ formatSize(leg) * Price[x] > OrderCap

\* Mutant: the time alone.
nonceOfTime(last) == IF now + 1 > last THEN now + 1 ELSE last

\* nextNonce: the time (which is never 0), or one more than the last.
nextNonce(last) == IF now + 1 > last + 1 THEN now + 1 ELSE last + 1

tooSmall(leg) == formatSize(leg) = 0

\* The next leg.  A refused one does not stop the others, nor does one that failed.
\* The signature awaited between the nonce and the post is part of the step: an
\* order on its way may execute at any later moment, whenever it left.
SendLeg(c, x) ==
    /\ Running(c) /\ x \in open(calls[c].legs) /\ calls[c].wait = None
    /\ LET leg == calls[c].legs[x]
           nonce == nextNonce(lastNonce)
       IN \/ /\ refusedOrder(x, leg)
             /\ calls' = [calls EXCEPT ![c].legs[x] = None,
                    ![c].refused = IF tooSmall(leg) THEN @ ELSE @ \cup {x}]
             /\ UNCHANGED <<flying, lastNonce>>
          \/ /\ ~refusedOrder(x, leg)
             /\ calls' = [calls EXCEPT ![c].legs[x] = None, ![c].wait = nonce]
             /\ flying' = flying \cup {[nonce |-> nonce, call |-> c, coin |-> x, leg |-> leg]}
             /\ lastNonce' = nonce
    /\ UNCHANGED <<pos, target, cache, now, moves, ghosts>>

\* The answer to the leg arrives, or postJson gives up on it (maxRetries 0).
Answered(c) ==
    /\ Running(c) /\ calls[c].wait # None
    /\ calls' = [calls EXCEPT ![c].wait = None]
    /\ UNCHANGED <<pos, target, cache, flying, lastNonce, now, moves, ghosts>>

\* All legs are done.
Finished(c) ==
    /\ Running(c) /\ calls[c].goal # None
    /\ calls[c].legs = noLegs /\ calls[c].wait = None

inSync(c) == calls[c].kind = "copy" /\ c \in calm /\ calls[c].refused = {}
                /\ calls[c].seen = target /\ flying = {}

Return(c) ==
    /\ Finished(c)
    /\ calls' = [calls EXCEPT ![c] = Done]
    /\ synced' = (synced \/ inSync(c))
    /\ calm' = calm \ {c} /\ repeating' = repeating \ {c}
    /\ UNCHANGED <<pos, target, cache, flying, lastNonce, now, moves>>

\* approveBuilderFeeGuide: the payload for the user's own wallet takes a nonce.
ApproveBuilderFeeGuide ==
    /\ lastNonce < MaxTime
    /\ lastNonce' = nextNonce(lastNonce)
    /\ UNCHANGED <<pos, target, cache, calls, flying, now, moves, ghosts>>

------------------------------------------------------------------------------
\* The exchange.  A reduce-only order never takes a position through zero or
\* away from it; an IOC order fills as far as there is somebody to trade with.
sideOf(leg) == IF leg.goal > leg.held THEN 1 ELSE -1
room(o) ==
    IF ~o.leg.reduceOnly THEN formatSize(o.leg)
    ELSE IF pos[o.coin] * sideOf(o.leg) >= 0 THEN 0
    ELSE IF formatSize(o.leg) < abs(pos[o.coin]) THEN formatSize(o.leg) ELSE abs(pos[o.coin])

\* pos moves: of the calm calls, those in C remain so.
Disturb(C) == calm' = calm \cap C /\ repeating' = {} /\ synced' = FALSE

Execute(o, lots) ==
    /\ o \in flying
    /\ lots * Lot <= room(o)
    /\ pos' = [pos EXCEPT ![o.coin] = @ + sideOf(o.leg) * (lots * Lot)]
    /\ pos' \in Positions
    /\ flying' = flying \ {o}
    /\ \/ /\ lots = 0
          /\ calm' = IF room(o) = 0 THEN calm ELSE calm \ {o.call}
          /\ UNCHANGED <<synced, repeating>>
       \/ /\ lots # 0
          /\ Disturb(IF lots * Lot = room(o) THEN {o.call} ELSE {})
    /\ UNCHANGED <<target, cache, calls, lastNonce, now, moves>>

\* The user trades elsewhere.
UserTrades(x, d) ==
    /\ moves < MaxMoves /\ moves' = moves + 1
    /\ pos' = [pos EXCEPT ![x] = @ + d * Lot] /\ pos' \in Positions
    /\ Disturb({})
    /\ UNCHANGED <<target, cache, calls, flying, lastNonce, now>>

TargetTrades(t) ==
    /\ moves < MaxMoves /\ moves' = moves + 1
    /\ target' = t /\ t # target
    /\ synced' = FALSE /\ repeating' = {}
    /\ UNCHANGED <<pos, cache, calls, flying, lastNonce, now, calm>>

Tick ==
    /\ now < MaxTime /\ now' = now + 1
    /\ UNCHANGED <<pos, target, cache, calls, flying, lastNonce, moves, ghosts>>

Next ==
    \/ \E c \in Calls : BeginCopy(c) \/ PlanCopy(c) \/ Answered(c) \/ Return(c)
    \/ \E c \in Calls, x \in Coins : PlanClose(c, x) \/ SendLeg(c, x)
    \/ ApproveBuilderFeeGuide
    \/ \E o \in flying, n \in 0 .. MaxPos : Execute(o, n)
    \/ \E x \in Coins, d \in {-1, 1} : UserTrades(x, d)
    \/ \E t \in Targets : TargetTrades(t)
    \/ Tick

Spec == Init /\ [][Next]_vars

------------------------------------------------------------------------------
\* A call that read the account as it was, and whose orders alone moved it,
\* each filled in full, leaves every coin within half a lot of the scaled
\* target, those the target has left and those it has turned around included;
\* only a leg the per-order cap refused stays behind, and never an exit.
EndsInSync ==
    \A c \in Calls : Finished(c) /\ c \in calm /\ flying = {} =>
        \A x \in Coins :
            \/ x \in calls[c].refused /\ calls[c].goal[x] # 0
            \/ 2 * abs(pos[x] - calls[c].goal[x]) <= Lot

\* However old the account a call decided on, an order that was to shrink or
\* close a position never turns it around or makes it larger.
ShrinkNeverTurns ==
    [][\A o \in flying \ flying' : shrinks(o.leg.held, o.leg.goal) =>
          /\ pos'[o.coin] * pos[o.coin] >= 0
          /\ abs(pos'[o.coin]) <= abs(pos[o.coin])]_vars

\* Orders that are on their way together, of whichever calls, were signed
\* with different nonces, the later signed the larger.
NoncesIncrease ==
    [][\A o \in flying' \ flying : \A p \in flying : p.nonce < o.nonce]_vars

\* plan.ts:90 and the tool's description: a call made once the account
\* matches a target that has not moved submits nothing.
RepeatSubmitsNothing ==
    \A c \in repeating : Running(c) => calls[c].wait = None
==============================================================================
