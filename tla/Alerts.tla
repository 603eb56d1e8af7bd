------------------------------- MODULE Alerts -------------------------------
(***************************************************************************)
(* Standing alerts: created, listed and deleted by their owner's tools     *)
(* (src/tools/premium/alerts.ts), evaluated by the ticks of one or more    *)
(* engines over one database (src/alerts/engine.ts), their events kept and *)
(* delivered by src/store/alertStore.ts.  Alerts are of the two rising     *)
(* edge types; what the market shows an alert is an input of each tick.    *)
(***************************************************************************)
EXTENDS Integers, Sequences, FiniteSets

CONSTANTS
    AlertIds,       \* alert ids to come
    Subjects,       \* owners
    Reliable,       \* owners that poll with reliable=true and acknowledge
    Processes,      \* servers with an engine, sharing the database
    Ticks,          \* tick invocations that may be in progress
    ProcessOf,      \* the process a tick runs in
    Requests,       \* calls of hl_create_alert in progress at once
    Cooldown,       \* cooldownMinutes
    Retention,      \* days an event is kept
    MaxAlerts,      \* MAX_ALERTS_PER_KEY
    Limit,          \* events per poll
    MaxTime,        \* bound: last value of the clock
    MaxEvents,      \* bound: events ever recorded
    None

ASSUME AlertsAssumption ==
    /\ Reliable \subseteq Subjects
    /\ ProcessOf \in [Ticks -> Processes]
    /\ Cooldown \in Nat /\ Retention \in Nat /\ MaxAlerts \in Nat
    /\ Limit \in Nat \ {0} /\ MaxTime \in Nat \ {0} /\ MaxEvents \in Nat
    /\ IsFiniteSet(AlertIds)

VARIABLES
    alerts,         \* table alerts
    events,         \* table fired_events, by id
    ticks,          \* ticks in progress: their `now` and the rows they listed
    creating,       \* owner of a hl_create_alert between check and insert
    clock,
    got,            \* ghost: how often an event reached its owner
    dipped          \* ghost: alerts seen below their threshold since they fired

vars == <<alerts, events, ticks, creating, clock, got, dipped>>

\* A row of table alerts; state: did the last evaluation find it over?
Row == [subject : Subjects, over : BOOLEAN, lastFired : Nat \cup {None}]
Event == [alert : AlertIds, subject : Subjects, at : Nat,
          acked : BOOLEAN, purged : BOOLEAN]
Rows == [AlertIds -> Row \cup {None}]
Tick == [now : Nat, rows : Rows]
Ids == 1 .. MaxEvents

ASSUME NoneAssumption == None \notin Row \cup Tick \cup Subjects \cup Nat

TypeOK ==
    /\ alerts \in Rows
    /\ events \in Seq(Event) /\ Len(events) <= MaxEvents
    /\ ticks \in [Ticks -> Tick \cup {None}]
    /\ creating \in [Requests -> Subjects \cup {None}]
    /\ clock \in 0 .. MaxTime
    /\ got \in [Ids -> 0 .. 2]
    /\ dipped \subseteq AlertIds

Init ==
    /\ alerts = [a \in AlertIds |-> None]
    /\ events = <<>>
    /\ ticks = [t \in Ticks |-> None]
    /\ creating = [r \in Requests |-> None]
    /\ clock = 1
    /\ got = [i \in Ids |-> 0]
    /\ dipped = {}

owned(s) == {a \in AlertIds : alerts[a] # None /\ alerts[a].subject = s}

------------------------------------------------------------------------------
\* hl_create_alert: the owner's alerts are counted, the market is looked up
\* (an await), then the row is inserted.
BeginCreate(r, s) ==
    /\ creating[r] = None
    /\ Cardinality(owned(s)) < MaxAlerts
    /\ creating' = [creating EXCEPT ![r] = s]
    /\ UNCHANGED <<alerts, events, ticks, clock, got, dipped>>

FinishCreate(r, a) ==
    /\ creating[r] # None
    /\ alerts[a] = None /\ a \notin dipped
    /\ \A i \in 1 .. Len(events) : events[i].alert # a
    /\ \A t \in Ticks : ticks[t] # None => ticks[t].rows[a] = None
    /\ alerts' = [alerts EXCEPT ![a] =
                    [subject |-> creating[r], over |-> FALSE, lastFired |-> None]]
    /\ creating' = [creating EXCEPT ![r] = None]
    /\ UNCHANGED <<events, ticks, clock, got, dipped>>

\* The coin is unknown or the request fails.
FailCreate(r) ==
    /\ creating[r] # None
    /\ creating' = [creating EXCEPT ![r] = None]
    /\ UNCHANGED <<alerts, events, ticks, clock, got, dipped>>

deleteAlert(a) ==
    /\ alerts[a] # None
    /\ alerts' = [alerts EXCEPT ![a] = None]
    /\ UNCHANGED <<events, ticks, creating, clock, got, dipped>>

------------------------------------------------------------------------------
\* Mutant: tick without the `running` flag.
BeginTickTwice(t) ==
    /\ ticks[t] = None
    /\ ticks' = [ticks EXCEPT ![t] = [now |-> clock, rows |-> alerts]]
    /\ UNCHANGED <<alerts, events, creating, clock, got, dipped>>

\* tick: one at a time per process; it lists the alerts and awaits the market.
BeginTick(t) ==
    /\ \A u \in Ticks : ProcessOf[u] = ProcessOf[t] => ticks[u] = None
    /\ ticks' = [ticks EXCEPT ![t] = [now |-> clock, rows |-> alerts]]
    /\ UNCHANGED <<alerts, events, creating, clock, got, dipped>>

\* The market could not be read: the tick ends without a trace.
FailTick(t) ==
    /\ ticks[t] # None
    /\ ticks' = [ticks EXCEPT ![t] = None]
    /\ UNCHANGED <<alerts, events, creating, clock, got, dipped>>

cooling(row, now) == row.lastFired # None /\ now - row.lastFired < Cooldown

\* Alerts of the tick that are evaluated: market[a] says over, under or unknown.
Evaluated(tick, market) ==
    {a \in AlertIds : /\ tick.rows[a] # None /\ ~cooling(tick.rows[a], tick.now)
                      /\ market[a] # None}

\* evaluateAlert fires on the rising edge only.
Fires(tick, market) ==
    {a \in Evaluated(tick, market) : market[a] /\ ~tick.rows[a].over}

\* Mutant: what the evaluation saw is stored only when the alert fires.
updateStateOfFired(tick, market, done) ==
    [a \in AlertIds |->
        IF a \in done \cap Fires(tick, market) /\ alerts[a] # None
        THEN [alerts[a] EXCEPT !.over = FALSE, !.lastFired = tick.now]
        ELSE alerts[a]]

\* updateState writes the row listed at the start of the tick back, with the
\* new state; a row deleted meanwhile stays deleted.
updateState(tick, market, done) ==
    [a \in AlertIds |->
        IF a \in done \cap Evaluated(tick, market) /\ alerts[a] # None
        THEN [alerts[a] EXCEPT
                !.over = market[a],
                !.lastFired = IF a \in Fires(tick, market) THEN tick.now
                              ELSE tick.rows[a].lastFired]
        ELSE alerts[a]]

\* recordFired: an event per alert, in some order, and old events purged.
purge(evs) ==
    [i \in DOMAIN evs |->
        IF evs[i].at < clock - Retention THEN [evs[i] EXCEPT !.purged = TRUE]
        ELSE evs[i]]

Orders(S) == {q \in [1 .. Cardinality(S) -> S] : {q[i] : i \in DOMAIN q} = S}

newEvent(tick, a) ==
    [alert |-> a, subject |-> tick.rows[a].subject, at |-> tick.now,
     acked |-> FALSE, purged |-> FALSE]

recordFired(tick, order) ==
    IF order = <<>> THEN events
    ELSE purge(events \o [i \in DOMAIN order |-> newEvent(tick, order[i])])

seenLow(tick, market, done) ==
    (dipped \ (done \cap Fires(tick, market)))
        \cup {a \in done \cap Evaluated(tick, market) : ~market[a]}

\* The loop over the alerts: no await, so one step of its process.
Evaluate(t, market) ==
    LET tick == ticks[t]  fired == Fires(ticks[t], market)
    IN  /\ ticks[t] # None
        /\ Len(events) + Cardinality(fired) <= MaxEvents
        /\ alerts' = updateState(tick, market, AlertIds)
        /\ \E order \in Orders(fired) : events' = recordFired(tick, order)
        /\ dipped' = seenLow(tick, market, AlertIds)
        /\ ticks' = [ticks EXCEPT ![t] = None]
        /\ UNCHANGED <<creating, clock, got>>

\* The process dies in the loop: the alerts of `done` were updated, and all
\* their events recorded but perhaps that of one, `last`.
CrashInTick(t, market, done, last) ==
    LET tick == ticks[t]  fired == (Fires(ticks[t], market) \cap done) \ {last}
    IN  /\ ticks[t] # None
        /\ Len(events) + Cardinality(fired) <= MaxEvents
        /\ alerts' = updateState(tick, market, done)
        /\ \E order \in Orders(fired) : events' = recordFired(tick, order)
        /\ dipped' = seenLow(tick, market, done)
        /\ ticks' = [u \in Ticks |->
                       IF ProcessOf[u] = ProcessOf[t] THEN None ELSE ticks[u]]
        /\ UNCHANGED <<creating, clock, got>>

------------------------------------------------------------------------------
unacked(s) ==
    {i \in DOMAIN events : events[i].subject = s /\ ~events[i].acked /\ ~events[i].purged}

\* ackThrough: every event up to the watermark that is still in the table.
ackThrough(s, mark) ==
    [i \in DOMAIN events |->
        IF i \in unacked(s) /\ i <= mark
        THEN [events[i] EXCEPT !.acked = TRUE] ELSE events[i]]

\* Mutant: ordered by insertion, newest first.
batchNewest(U) == {i \in U : Cardinality({j \in U : j > i}) < Limit}

\* ORDER BY at ASC LIMIT, ties in the order of insertion.
earlier(i, j) == events[i].at < events[j].at \/ (events[i].at = events[j].at /\ i < j)

batch(U) == {i \in U : Cardinality({j \in U : earlier(j, i)}) < Limit}

deliver(B, arrives) ==
    [i \in Ids |-> IF arrives /\ i \in B /\ got[i] < 2 THEN got[i] + 1 ELSE got[i]]

\* An owner acknowledges nothing, or the highest event id it has processed.
marks(s) ==
    LET processed == {i \in DOMAIN events : events[i].subject = s /\ got[i] > 0}
    IN  {0} \cup {i \in processed : \A j \in processed : j <= i}

\* hl_poll_alerts with reliable=true, acknowledging or not.
PollReliable(s, mark, arrives) ==
    LET U == {i \in unacked(s) : i > mark}
    IN  /\ events' = ackThrough(s, mark)
        /\ got' = deliver(batch(U), arrives)
        /\ UNCHANGED <<alerts, ticks, creating, clock, dipped>>

\* Mutant: the default keeps what was read in the queue.
PollOnceKeeping(s, arrives) ==
    /\ got' = deliver(batch(unacked(s)), arrives)
    /\ UNCHANGED <<alerts, events, ticks, creating, clock, dipped>>

\* The default: events are acknowledged as they are read.
PollOnce(s, arrives) ==
    LET B == batch(unacked(s))
    IN  /\ events' = [i \in DOMAIN events |->
                        IF i \in B THEN [events[i] EXCEPT !.acked = TRUE]
                        ELSE events[i]]
        /\ got' = deliver(B, arrives)
        /\ UNCHANGED <<alerts, ticks, creating, clock, dipped>>

Advance ==
    /\ clock < MaxTime
    /\ clock' = clock + 1
    /\ UNCHANGED <<alerts, events, ticks, creating, got, dipped>>

\* What the market may show the alerts a tick has listed.
Markets(t) == [{a \in AlertIds : ticks[t].rows[a] # None} -> BOOLEAN \cup {None}]

Next ==
    \/ \E r \in Requests :
          \/ \E s \in Subjects : BeginCreate(r, s)
          \/ \E a \in AlertIds : FinishCreate(r, a)
          \/ FailCreate(r)
    \/ \E a \in AlertIds : deleteAlert(a)
    \/ \E t \in Ticks :
          \/ BeginTick(t) \/ FailTick(t)
          \/ /\ ticks[t] # None
             /\ \E market \in Markets(t) :
                   \/ Evaluate(t, market)
                   \/ \E done \in SUBSET DOMAIN market : \E last \in done :
                         CrashInTick(t, market, done, last)
    \/ \E s \in Reliable, arrives \in BOOLEAN :
          \E mark \in marks(s) : PollReliable(s, mark, arrives)
    \/ \E s \in Subjects \ Reliable, arrives \in BOOLEAN : PollOnce(s, arrives)
    \/ Advance

Spec == Init /\ [][Next]_vars

------------------------------------------------------------------------------
\* An alert fires no more often than its cooldown (01-invariants.md, S1).
CooldownKept ==
    \A i, j \in DOMAIN events :
        i < j /\ events[i].alert = events[j].alert =>
            events[j].at - events[i].at >= Cooldown
                \/ events[i].at - events[j].at >= Cooldown

\* A condition that persists is reported once: between two events of an alert
\* some tick has seen it below its threshold (evaluate.ts:69-70).
FiresOnRisingEdge ==
    [][\A i \in Len(events) + 1 .. Len(events') :
          LET a == events'[i].alert
          IN  (\E j \in DOMAIN events : events[j].alert = a) => a \in dipped]_vars

\* Reliable polling is at-least-once (alerts.ts:130-135): an event leaves the
\* queue unseen by its owner only when it ages out.
ReliableAtLeastOnce ==
    \A i \in DOMAIN events :
        events[i].subject \in Reliable /\ events[i].acked => got[i] > 0

\* Default polling is at-most-once: no event is delivered twice.
DefaultAtMostOnce ==
    \A i \in DOMAIN events : events[i].subject \notin Reliable => got[i] <= 1
==============================================================================
