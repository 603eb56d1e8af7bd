---------------------------- MODULE UpstreamClient ----------------------------
(***************************************************************************)
(* HyperliquidClient (src/core/hlClient.ts): every read of the exchange    *)
(* goes through TtlLruCache.getOrLoad (src/core/cache.ts), which loads a   *)
(* key once for all who ask, and through info, which buys each HTTP        *)
(* request, a retry included (src/core/http.ts), from the RateLimiter      *)
(* (src/core/rateLimiter.ts), and after the answer pays for its items.     *)
(* The tokens are refilled on every read of the limiter: here at every     *)
(* tick of the clock, which nobody can tell apart.                         *)
(***************************************************************************)
EXTENDS Integers, Sequences, SequencesExt, FiniteSets, FiniteSetsExt

CONSTANTS
    Callers,        \* calls of getOrLoad to come
    Keys,
    Weight,         \* weight of the request for a key, at the exchange
    Extras,         \* floor(items / itemsPerWeight) of an answer, of a key
    Capacity,       \* rateWeightPerMin
    Rate,           \* tokens refilled in a unit of time
    MaxWait,        \* 5,000 ms, the longest wake-up timer
    MaxRetries,
    TTL,
    MaxEntries,     \* of the cache
    MaxTime,        \* bound: the last time a call is made, and bounds below
    None, Failed

ASSUME UpstreamAssumption ==
    /\ IsFiniteSet(Callers)
    /\ {Capacity, Rate, MaxWait, TTL, MaxEntries} \subseteq Nat \ {0}
    /\ Weight \in [Keys -> Nat \ {0}] /\ Extras \in [Keys -> SUBSET Nat]
    /\ \A k \in Keys : 0 \in Extras[k]
    /\ {MaxRetries, MaxTime} \subseteq Nat
    /\ None # Failed /\ None \notin Nat /\ Failed \notin Nat /\ None \notin Callers

VARIABLES
    tokens, queue,  \* RateLimiter: tokens and the loads that wait for some, in order
    timer,          \* time until the wake-up timer is due, or None
    cache, recent,  \* TtlLruCache.store: entries, and keys least recently used first
    pending,        \* TtlLruCache.pending: the load of a key, named by its caller
    loads,          \* loads in progress
    calls,
    now,
    credit,         \* ghost: what the exchange has left of the budget
    uncharged       \* ghost: what it counted and the client never pays for, less
                    \* what ran over in a full bucket since

budget == <<credit, uncharged>>
vars == <<tokens, queue, timer, cache, recent, pending, loads, calls, now, budget>>

Entry == [stored : Nat, exp : Nat]
Load == [key : Keys, phase : {"acquire", "sent", "backoff", "extra", "ready"},
         attempt : 0 .. MaxRetries, extra : Nat]
\* on: the load the call waits for; stored: when the value it got was stored.
Call == [key : Keys, asked : Nat, on : Callers \cup {None},
         stored : Nat \cup {None, Failed}]

ASSUME NothingAssumption == None \notin Load /\ None \notin Call

Least(x, y) == IF x < y THEN x ELSE y
Most(x, y) == IF x > y THEN x ELSE y
\* Mutant: no clamp.
bareWeight(w) == IF w < 1 THEN 1 ELSE w
\* acquire: clamped to [1, capacity].
clamped(w) == Least(IF w < 1 THEN 1 ELSE w, Capacity)

TypeOK ==
    /\ tokens \in 0 .. Capacity
    /\ queue \in Seq(Callers)
    /\ timer \in 0 .. MaxWait \cup {None}
    /\ cache \in [Keys -> Entry \cup {None}]
    /\ recent \in Seq({k \in Keys : cache[k] # None}) /\ Len(recent) <= MaxEntries
    /\ pending \in [Keys -> Callers \cup {None}]
    /\ loads \in [Callers -> Load \cup {None}]
    /\ calls \in [Callers -> Call \cup {None}]
    /\ now \in Nat /\ credit \in Int /\ uncharged \in Nat

Init ==
    /\ tokens = Capacity /\ queue = <<>> /\ timer = None
    /\ cache = [k \in Keys |-> None] /\ recent = <<>>
    /\ pending = [k \in Keys |-> None]
    /\ loads = [c \in Callers |-> None] /\ calls = [c \in Callers |-> None]
    /\ now = 0 /\ credit = Capacity /\ uncharged = 0

------------------------------------------------------------------------------
\* The rate limiter.
\* What a load that waits is to pay: its request, or the items it got.
due(l) ==
    [c \in Callers |-> IF l[c] = None THEN 0
                      ELSE clamped(IF l[c].phase = "extra" THEN l[c].extra
                                   ELSE Weight[l[c].key])]

TotalWeight(C, l) == MapThenSumSet(LAMBDA c : due(l)[c], C)

heads(q, n) == {q[i] : i \in 1 .. n}

\* How many heads of the queue the tokens serve.
granted(q, l) ==
    CHOOSE n \in 0 .. Len(q) :
        /\ TotalWeight(heads(q, n), l) <= tokens
        /\ n < Len(q) => TotalWeight(heads(q, n + 1), l) > tokens

\* How long until the head's deficit is refilled, at most MaxWait.
waitFor(weight, left) == Least((weight - left + Rate - 1) \div Rate, MaxWait)

requests(C, l) == {c \in C : l[c].phase = "acquire"}

\* What the requests of these loads weigh at the exchange.
counted(C, l) ==
    LET weight == [c \in C |-> Weight[l[c].key]]
    IN  MapThenSumSet(LAMBDA c : weight[c], C)

\* The part of a weight that is more than the whole budget.
excess(w) == Most(0, w - Capacity)

\* resolve: the loads that are served go on.
resolve(C, l) ==
    [c \in Callers |->
        IF c \in C THEN [l[c] EXCEPT !.phase = IF @ = "extra" THEN "ready" ELSE "sent"]
        ELSE l[c]]

\* pump, on the queue q, the loads l and the timer t: heads are served while
\* the tokens last, then at most one wake-up timer is pending.  The exchange
\* counts the requests that leave, and these items of an answer.
pump(q, l, t, items) ==
    LET n == granted(q, l)
        served == heads(q, n)
        leaving == requests(served, l)
        left == tokens - TotalWeight(served, l)
    IN /\ tokens' = left
       /\ queue' = SubSeq(q, n + 1, Len(q))
       /\ timer' = IF t = None /\ n < Len(q) THEN waitFor(due(l)[q[n + 1]], left) ELSE t
       /\ loads' = resolve(served, l)
       /\ credit' = credit - items - counted(leaving, l)
       /\ uncharged' = uncharged + excess(items)
                          + (counted(leaving, l) - TotalWeight(leaving, l))

\* acquire: at once, or at the end of the queue.
acquire(c, l, items) == pump(Append(queue, c), l, timer, items)

TimerFires ==
    /\ timer = 0
    /\ pump(queue, loads, None, 0)
    /\ UNCHANGED <<cache, recent, pending, calls, now>>

------------------------------------------------------------------------------
\* The cache.
\* Mutant: an entry is good until it is evicted.
liveAlways(k) == cache[k] # None

\* get: an entry that has not expired.
live(k) == cache[k] # None /\ cache[k].exp > now

\* get, on a miss: an expired entry goes.
drop(k) ==
    /\ cache' = [cache EXCEPT ![k] = None]
    /\ recent' = Remove(recent, k)

\* set: expired entries go, the key becomes the most recent, the oldest makes room.
stored(k) ==
    LET kept == SelectSeq(recent, LAMBDA j : j # k /\ live(j))
        order == Append(kept, k)
        room == IF Len(order) > MaxEntries THEN Tail(order) ELSE order
    IN  /\ recent' = room
        /\ cache' = [j \in Keys |->
              IF j = k THEN [stored |-> now, exp |-> now + TTL]
              ELSE IF j \in ToSet(room) THEN cache[j] ELSE None]

NewLoad(k) == [key |-> k, phase |-> "acquire", attempt |-> 0, extra |-> 0]
NewCall(k, on, at) == [key |-> k, asked |-> now, on |-> on, stored |-> at]

\* getOrLoad, the value is cached: it becomes the most recent.
Hit(c, k) ==
    /\ calls[c] = None /\ now <= MaxTime /\ live(k)
    /\ calls' = [calls EXCEPT ![c] = NewCall(k, None, cache[k].stored)]
    /\ recent' = Append(Remove(recent, k), k)
    /\ UNCHANGED <<tokens, queue, timer, cache, pending, loads, now, budget>>

\* getOrLoad, somebody is loading it.
Join(c, k) ==
    /\ calls[c] = None /\ now <= MaxTime /\ ~live(k) /\ pending[k] # None
    /\ calls' = [calls EXCEPT ![c] = NewCall(k, pending[k], None)]
    /\ drop(k)
    /\ UNCHANGED <<tokens, queue, timer, pending, loads, now, budget>>

\* getOrLoad, nobody is.
mustLoad(k) == ~live(k) /\ pending[k] = None

Start(c, k) ==
    /\ calls[c] = None /\ now <= MaxTime /\ mustLoad(k)
    /\ calls' = [calls EXCEPT ![c] = NewCall(k, c, None)]
    /\ drop(k)
    /\ pending' = [pending EXCEPT ![k] = c]
    /\ acquire(c, [loads EXCEPT ![c] = NewLoad(k)], 0)
    /\ UNCHANGED now

\* The load is over, for all who wait for it: finally, it is not pending.
settle(c, value) ==
    /\ pending' = [pending EXCEPT ![loads[c].key] = None]
    /\ loads' = [loads EXCEPT ![c] = None]
    /\ calls' = [d \in Callers |->
          IF calls[d] # None /\ calls[d].on = c
          THEN [calls[d] EXCEPT !.on = None, !.stored = value] ELSE calls[d]]

------------------------------------------------------------------------------
sent(c) == loads[c] # None /\ loads[c].phase = "sent"

mayHold(c, items) == items \in Extras[loads[c].key]

\* info: the exchange answers and counts the items; they are paid for next.
Answer(c, extra) ==
    /\ sent(c) /\ mayHold(c, extra)
    /\ LET l == [loads EXCEPT ![c].phase = IF extra > 0 THEN "extra" ELSE "ready",
                              ![c].extra = extra]
       IN IF extra > 0 THEN acquire(c, l, extra)
          ELSE loads' = l /\ UNCHANGED <<tokens, queue, timer, budget>>
    /\ UNCHANGED <<cache, recent, pending, calls, now>>

Store(c) ==
    /\ loads[c] # None /\ loads[c].phase = "ready"
    /\ stored(loads[c].key)
    /\ settle(c, now)
    /\ UNCHANGED <<tokens, queue, timer, now, budget>>

\* An answer that the exchange counted is lost on its way: cut off by the
\* timeout or the network, or not JSON.  Nobody pays for its items.
lost(items) ==
    /\ credit' = credit - items
    /\ uncharged' = uncharged + items

\* postJson: a timeout, a network error or a status worth a retry.
Refuse(c, items) ==
    /\ sent(c) /\ mayHold(c, items) /\ loads[c].attempt < MaxRetries
    /\ loads' = [loads EXCEPT ![c].phase = "backoff", ![c].attempt = @ + 1]
    /\ lost(items)
    /\ UNCHANGED <<tokens, queue, timer, cache, recent, pending, calls, now>>

\* Mutant: a retry is free.
RetryFree(c) ==
    /\ loads[c] # None /\ loads[c].phase = "backoff"
    /\ loads' = [loads EXCEPT ![c].phase = "sent"]
    /\ credit' = credit - Weight[loads[c].key]
    /\ uncharged' = uncharged + excess(Weight[loads[c].key])
    /\ UNCHANGED <<tokens, queue, timer, cache, recent, pending, calls, now>>

\* onRetry, after the backoff.
Retry(c) ==
    /\ loads[c] # None /\ loads[c].phase = "backoff"
    /\ acquire(c, [loads EXCEPT ![c].phase = "acquire"], 0)
    /\ UNCHANGED <<cache, recent, pending, calls, now>>

\* A status that is final, a body that is not JSON, or the last attempt.
Fail(c, items) ==
    /\ sent(c) /\ mayHold(c, items)
    /\ settle(c, Failed)
    /\ lost(items)
    /\ UNCHANGED <<tokens, queue, timer, cache, recent, now>>

\* A timer is not late by as much as a unit of time.
Tick ==
    /\ timer # 0
    /\ now < MaxTime + TTL \/ (queue # <<>> /\ tokens < Capacity)
    /\ now' = now + 1
    /\ tokens' = Least(Capacity, tokens + Rate)
    /\ credit' = Least(Capacity, credit + Rate)
    /\ uncharged' = Most(0, uncharged - Most(0, tokens + Rate - Capacity))
    /\ timer' = IF timer = None THEN None ELSE timer - 1
    /\ UNCHANGED <<queue, cache, recent, pending, loads, calls>>

AnyExtra == UNION {Extras[k] : k \in Keys}

Step(c) ==
    \/ \E k \in Keys : Hit(c, k) \/ Join(c, k) \/ Start(c, k)
    \/ \E e \in AnyExtra : Answer(c, e) \/ Refuse(c, e) \/ Fail(c, e)
    \/ Store(c) \/ Retry(c)

Next == TimerFires \/ Tick \/ \E c \in Callers : Step(c)

Spec == Init /\ [][Next]_vars

\* Every request is answered or times out, a backoff ends, timers fire.
FairSpec ==
    /\ Spec
    /\ WF_vars(TimerFires) /\ WF_vars(Tick)
    /\ \A c \in Callers :
          WF_vars(\/ Store(c) \/ Retry(c)
                  \/ \E e \in AnyExtra : Answer(c, e) \/ Refuse(c, e) \/ Fail(c, e))

------------------------------------------------------------------------------
\* The loads whose items the exchange has counted, and the client has not paid.
owing(l) == {c \in Callers : l[c] # None /\ l[c].phase = "extra"}

owed == TotalWeight(owing(loads), loads)

\* What leaves for the exchange, retries and items included and at the full
\* weight the exchange gives it, exceeds the budget by no more than the items of
\* the answers still to be paid for and what no code pays for: what a weight has
\* above the whole budget (rateLimiter.ts:35 charges it as the budget), and the
\* items of an answer lost on its way (http.ts:54-74).
WithinBudget == credit + owed + uncharged >= 0

\* Nobody is given a value stored TTL or longer before he asked.  What the value
\* is, and how old it was when it was stored, are not looked at.
AnswersAreFresh ==
    \A c \in Callers : calls[c] # None /\ calls[c].stored \notin {None, Failed}
                          => calls[c].asked < calls[c].stored + TTL

\* Nobody waits forever: not behind a request heavier than the whole budget,
\* not in a queue whose timer was never set, not on a load that failed.
EveryCallAnswered ==
    \A c \in Callers : (calls[c] # None) ~> (calls[c] # None /\ calls[c].on = None)
==============================================================================
