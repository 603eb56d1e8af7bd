---------------------------- MODULE Alerts_proofs ----------------------------
(***************************************************************************)
(* What an alert reports, for any number of alerts, owners and ticks, as   *)
(* long as one engine evaluates the database (OneEngine): two engines on   *)
(* one database both fire what both have listed.  Seen is what makes it    *)
(* inductive: a tick decides by the rows it listed, so what is true of the *)
(* table must be true of every listed copy too.                            *)
(* And what its owner gets: by default an event once at most, with any     *)
(* number of engines; when he acknowledges, and one engine dates its       *)
(* events in the order of their ids (InOrder), every event that does not   *)
(* age out: he is given the queue from its front (Handed).                 *)
(***************************************************************************)
EXTENDS Alerts, FiniteSetTheorems, FunctionTheorems, TLAPS

\* The ticks belong to one process (engine.ts:70).
OneEngine == \A t, u \in Ticks : ProcessOf[t] = ProcessOf[u]

OneTick == \A t, u \in Ticks : ticks[t] # None /\ ticks[u] # None => t = u

EventOf(a) == \E i \in DOMAIN events : events[i].alert = a

\* What a row of the alerts knows of the events recorded.
RowSeen(rows, a) ==
    rows[a] # None =>
        /\ \A i \in DOMAIN events :
              events[i].alert = a =>
                  rows[a].lastFired # None /\ events[i].at <= rows[a].lastFired
        /\ EventOf(a) /\ ~rows[a].over => a \in dipped

Seen ==
    \A a \in AlertIds :
        /\ RowSeen(alerts, a)
        /\ \A t \in Ticks : ticks[t] # None => RowSeen(ticks[t].rows, a)

IInv == TypeOK /\ OneTick /\ Seen /\ CooldownKept

------------------------------------------------------------------------------
(* Types. *)

LEMMA InitTypeOK == Init => TypeOK
BY AlertsAssumption DEF Init, TypeOK, Rows, Ids

LEMMA CreateTyped ==
  ASSUME TypeOK,
         \E r \in Requests : \/ \E s \in Subjects : BeginCreate(r, s)
                             \/ \E a \in AlertIds : FinishCreate(r, a)
                             \/ FailCreate(r)
  PROVE  TypeOK'
<1>1. ASSUME NEW r \in Requests, NEW s \in Subjects, BeginCreate(r, s) PROVE TypeOK'
  BY <1>1 DEF BeginCreate, TypeOK
<1>2. ASSUME NEW r \in Requests, FailCreate(r) PROVE TypeOK'
  BY <1>2 DEF FailCreate, TypeOK
<1>3. ASSUME NEW r \in Requests, NEW a \in AlertIds, FinishCreate(r, a) PROVE TypeOK'
  <2>1. creating[r] \in Subjects
    BY <1>3 DEF FinishCreate, TypeOK
  <2>2. [subject |-> creating[r], over |-> FALSE, lastFired |-> None] \in Row
    BY <2>1 DEF Row
  <2> QED
    BY <1>3, <2>2 DEF FinishCreate, TypeOK, Rows
<1> QED
  BY <1>1, <1>2, <1>3

\* A tick that evaluated some alerts writes rows back.
LEMMA UpdateTyped ==
  ASSUME TypeOK, NEW t \in Ticks, ticks[t] # None, NEW market \in Markets(t),
         NEW done \in SUBSET AlertIds
  PROVE  updateState(ticks[t], market, done) \in Rows
<1> DEFINE tick == ticks[t]
<1>1. tick \in Tick /\ tick.now \in Nat /\ tick.rows \in Rows
  BY DEF TypeOK, Tick
<1>2. ASSUME NEW a \in done \cap Evaluated(tick, market), alerts[a] # None
      PROVE  [alerts[a] EXCEPT
                !.over = market[a],
                !.lastFired = IF a \in Fires(tick, market) THEN tick.now
                              ELSE tick.rows[a].lastFired] \in Row
  <2>1. alerts[a] \in Row /\ tick.rows[a] \in Row
    BY <1>1, <1>2 DEF TypeOK, Rows, Evaluated
  <2>2. market[a] \in BOOLEAN
    BY <1>2 DEF Evaluated, Markets
  <2> QED
    BY <1>1, <2>1, <2>2 DEF Row
<1> QED
  BY <1>2 DEF updateState, TypeOK, Rows

\* An event as a tick leaves it: it may be purged.
Kept(e, f) ==
    /\ f.alert = e.alert /\ f.subject = e.subject /\ f.at = e.at
    /\ f.acked <=> e.acked
    /\ e.purged => f.purged

\* The events a tick records: those before, perhaps purged, and one of each
\* alert it fired.
LEMMA Recorded ==
  ASSUME TypeOK, NEW t \in Ticks, ticks[t] # None,
         NEW fired \in SUBSET AlertIds, \A a \in fired : ticks[t].rows[a] # None,
         Len(events) + Cardinality(fired) <= MaxEvents,
         NEW order \in Orders(fired)
  PROVE  LET evs == recordFired(ticks[t], order)
         IN  /\ evs \in Seq(Event) /\ Len(evs) <= MaxEvents /\ Len(events) <= Len(evs)
             /\ \A i \in DOMAIN events : Kept(events[i], evs[i])
             /\ \A i \in Len(events) + 1 .. Len(evs) :
                   evs[i].alert \in fired /\ evs[i].at = ticks[t].now /\ ~evs[i].acked
             /\ \A i, j \in Len(events) + 1 .. Len(evs) :
                   evs[i].alert = evs[j].alert => i = j
<1> DEFINE n == Cardinality(fired)  tick == ticks[t]
           new == [i \in DOMAIN order |-> newEvent(tick, order[i])]
           all == events \o new
<1>1. IsFiniteSet(fired) /\ n \in Nat
  BY AlertsAssumption, FS_Subset, FS_CardinalityType
<1>2. order \in [1 .. n -> fired] /\ DOMAIN order = 1 .. n
      /\ {order[i] : i \in 1 .. n} = fired
  BY DEF Orders
<1>3. \A i, j \in 1 .. n : order[i] = order[j] => i = j
  <2>1. \A a \in fired : \E i \in 1 .. n : order[i] = a
    BY <1>2
  <2>2. order \in Surjection(1 .. n, fired)
    BY <1>2, <2>1, Fun_IsSurj
  <2>3. IsFiniteSet(1 .. n) /\ Cardinality(1 .. n) = n
    BY <1>1, FS_Interval
  <2>4. order \in Injection(1 .. n, fired)
    BY <1>1, <2>2, <2>3, FS_Surjection
  <2> QED
    BY <2>4, Fun_InjectionProperties
<1>4. tick \in Tick /\ tick.now \in Nat /\ tick.rows \in Rows
  BY DEF TypeOK, Tick
<1>5. \A i \in 1 .. n : newEvent(tick, order[i]) \in Event
  BY <1>2, <1>4 DEF newEvent, Event, Rows, Row
<1>6. new \in Seq(Event) /\ Len(new) = n /\ \A i \in 1 .. n : new[i] = newEvent(tick, order[i])
  BY <1>1, <1>2, <1>5
<1>7. events \in Seq(Event)
  BY DEF TypeOK
<1> HIDE DEF new
<1>8. /\ all \in Seq(Event) /\ Len(all) = Len(events) + n
      /\ \A i \in DOMAIN events : all[i] = events[i]
      /\ \A i \in Len(events) + 1 .. Len(all) : all[i] = new[i - Len(events)]
  BY <1>1, <1>6, <1>7
<1> HIDE DEF all
<1>9. \A i \in Len(events) + 1 .. Len(all) :
         i - Len(events) \in 1 .. n /\ all[i].alert = order[i - Len(events)]
            /\ all[i].at = tick.now /\ ~all[i].acked
  <2> SUFFICES ASSUME NEW i \in Len(events) + 1 .. Len(all)
               PROVE  i - Len(events) \in 1 .. n /\ all[i].alert = order[i - Len(events)]
                         /\ all[i].at = tick.now /\ ~all[i].acked
    OBVIOUS
  <2>1. i - Len(events) \in 1 .. n /\ all[i] = new[i - Len(events)]
    <3>1. Len(events) \in Nat /\ i \in Int /\ Len(all) = Len(events) + n
      BY <1>1, <1>7, <1>8
    <3>2. i - Len(events) \in 1 .. n
      <4> HIDE DEF n
      <4> QED
        BY <1>1, <3>1
    <3>3. all[i] = new[i - Len(events)]
      BY <1>8
    <3> QED
      BY <3>2, <3>3
  <2>2. all[i] = newEvent(tick, order[i - Len(events)])
    BY <1>6, <2>1
  <2> QED
    BY <2>1, <2>2 DEF newEvent
<1>10. /\ purge(all) \in Seq(Event) /\ Len(purge(all)) = Len(all)
       /\ \A i \in 1 .. Len(all) : Kept(all[i], purge(all)[i])
  <2>1. \A i \in 1 .. Len(all) : [all[i] EXCEPT !.purged = TRUE] \in Event
    <3> SUFFICES ASSUME NEW i \in 1 .. Len(all)
                 PROVE  [all[i] EXCEPT !.purged = TRUE] \in Event
      OBVIOUS
    <3>1. all[i] \in Event
      BY <1>8
    <3> QED
      BY <3>1 DEF Event
  <2>2. purge(all) = [i \in 1 .. Len(all) |->
                         IF all[i].at < clock - Retention
                         THEN [all[i] EXCEPT !.purged = TRUE] ELSE all[i]]
    BY <1>8 DEF purge
  <2>3. \A i \in 1 .. Len(all) : all[i] \in Event
    BY <1>8
  <2>4. Len(all) \in Nat
    BY <1>8
  <2>5. purge(all) \in Seq(Event) /\ Len(purge(all)) = Len(all)
    BY <2>1, <2>2, <2>3, <2>4
  <2>6. \A i \in 1 .. Len(all) :
           purge(all)[i] = all[i] \/ purge(all)[i] = [all[i] EXCEPT !.purged = TRUE]
    BY <2>2
  <2>7. ASSUME NEW e \in Event PROVE Kept(e, e) /\ Kept(e, [e EXCEPT !.purged = TRUE])
    BY DEF Event, Kept
  <2> QED
    BY <2>3, <2>5, <2>6, <2>7
<1>11. CASE order = <<>>
  <2>1. n = 0
    BY <1>1, <1>2, <1>11
  <2> QED
    BY <1>7, <1>11 DEF recordFired, TypeOK, Kept
<1>12. CASE order # <<>>
  <2>1. recordFired(tick, order) = purge(all)
    BY <1>12 DEF recordFired, all, new
  <2>2. DOMAIN events = 1 .. Len(events) /\ Len(events) \in Nat
    BY <1>7
  <2>3. \A i \in Len(events) + 1 .. Len(all) : purge(all)[i].alert \in fired
    BY <1>1, <1>2, <1>8, <1>9, <1>10, <2>2 DEF Kept
  <2>5. \A i \in Len(events) + 1 .. Len(all) :
           purge(all)[i].at = tick.now /\ ~purge(all)[i].acked
    <3> SUFFICES ASSUME NEW i \in Len(events) + 1 .. Len(all)
                 PROVE  purge(all)[i].at = tick.now /\ ~purge(all)[i].acked
      OBVIOUS
    <3>1. Kept(all[i], purge(all)[i])
      BY <1>8, <1>10, <2>2
    <3>2. all[i].at = tick.now /\ ~all[i].acked
      BY <1>9
    <3> QED
      BY <3>1, <3>2 DEF Kept
  <2>4. \A i, j \in Len(events) + 1 .. Len(all) :
           purge(all)[i].alert = purge(all)[j].alert => i = j
    <3> SUFFICES ASSUME NEW i \in Len(events) + 1 .. Len(all),
                        NEW j \in Len(events) + 1 .. Len(all),
                        purge(all)[i].alert = purge(all)[j].alert
                 PROVE  i = j
      OBVIOUS
    <3>1. order[i - Len(events)] = order[j - Len(events)]
      BY <1>1, <1>8, <1>9, <1>10, <2>2 DEF Kept
    <3>2. i - Len(events) = j - Len(events)
      BY <1>3, <1>9, <3>1
    <3> QED
      BY <2>2, <3>2
  <2> QED
    BY <1>1, <1>8, <1>10, <2>1, <2>2, <2>3, <2>4, <2>5
<1> QED
  BY <1>11, <1>12

LEMMA TickTyped ==
  ASSUME TypeOK, NEW t \in Ticks, ticks[t] # None, NEW market \in Markets(t),
         NEW done \in SUBSET AlertIds, NEW fired \in SUBSET (Fires(ticks[t], market) \cap done),
         Len(events) + Cardinality(fired) <= MaxEvents,
         NEW order \in Orders(fired),
         events' = recordFired(ticks[t], order),
         alerts' = updateState(ticks[t], market, done),
         dipped' = seenLow(ticks[t], market, done),
         ticks' \in [Ticks -> Tick \cup {None}],
         UNCHANGED <<creating, clock, got>>
  PROVE  TypeOK'
<1>1. alerts' \in Rows
  BY UpdateTyped
<1>2. \A a \in fired : a \in AlertIds /\ ticks[t].rows[a] # None
  BY DEF Fires, Evaluated
<1>3. events' \in Seq(Event) /\ Len(events') <= MaxEvents
  BY <1>2, Recorded
<1>4. dipped' \subseteq AlertIds
  BY DEF TypeOK, seenLow
<1> QED
  BY <1>1, <1>3, <1>4 DEF TypeOK

\* What Evaluate and CrashInTick have in common: some of the alerts of the tick
\* are done, and of those that fired some are recorded.
Ticked(t, market, done, fired, order) ==
    /\ ticks[t] # None
    /\ fired \subseteq Fires(ticks[t], market) \cap done
    /\ Len(events) + Cardinality(fired) <= MaxEvents
    /\ order \in Orders(fired)
    /\ events' = recordFired(ticks[t], order)
    /\ alerts' = updateState(ticks[t], market, done)
    /\ dipped' = seenLow(ticks[t], market, done)
    /\ ticks'[t] = None /\ ticks' \in [Ticks -> Tick \cup {None}]
    /\ \A u \in Ticks : ticks'[u] \in {ticks[u], None}
    /\ UNCHANGED <<creating, clock, got>>

TickEnds ==
    \E t \in Ticks : \E market \in Markets(t), done \in SUBSET AlertIds :
        \E fired \in SUBSET AlertIds : \E order \in Orders(fired) :
            Ticked(t, market, done, fired, order)

LEMMA EvaluateTicks ==
  ASSUME TypeOK, NEW t \in Ticks, NEW market \in Markets(t), Evaluate(t, market)
  PROVE  TickEnds
<1> DEFINE fired == Fires(ticks[t], market)
<1>1. PICK order \in Orders(fired) : events' = recordFired(ticks[t], order)
  BY DEF Evaluate
<1>2. fired \subseteq AlertIds
  BY DEF Fires, Evaluated
<1>3. Ticked(t, market, AlertIds, fired, order)
  BY <1>1, <1>2 DEF Evaluate, Ticked, TypeOK
<1> HIDE DEF fired
<1> QED
  BY <1>2, <1>3 DEF TickEnds

LEMMA CrashTicks ==
  ASSUME TypeOK, NEW t \in Ticks, NEW market \in Markets(t),
         NEW done \in SUBSET DOMAIN market, NEW last \in done,
         CrashInTick(t, market, done, last)
  PROVE  TickEnds
<1> DEFINE fired == (Fires(ticks[t], market) \cap done) \ {last}
<1>1. PICK order \in Orders(fired) : events' = recordFired(ticks[t], order)
  BY DEF CrashInTick
<1>2. fired \subseteq AlertIds /\ done \subseteq AlertIds
  BY DEF Fires, Evaluated, Markets
<1>3. Ticked(t, market, done, fired, order)
  BY <1>1, <1>2 DEF CrashInTick, Ticked, TypeOK
<1> HIDE DEF fired
<1> QED
  BY <1>2, <1>3 DEF TickEnds

\* Polling: the events keep their number, alerts and times.
Polled ==
    /\ events' \in Seq(Event) /\ Len(events') = Len(events)
    /\ \A i \in DOMAIN events :
          events'[i].alert = events[i].alert /\ events'[i].at = events[i].at
    /\ got' \in [Ids -> 0 .. 2]
    /\ UNCHANGED <<alerts, ticks, creating, clock, dipped>>

LEMMA PollKeeps ==
  ASSUME TypeOK,
         \/ \E s \in Reliable, arrives \in BOOLEAN :
               \E mark \in marks(s) : PollReliable(s, mark, arrives)
         \/ \E s \in Subjects \ Reliable, arrives \in BOOLEAN : PollOnce(s, arrives)
  PROVE  Polled
<1>1. ASSUME NEW B, NEW arrives PROVE deliver(B, arrives) \in [Ids -> 0 .. 2]
  BY DEF TypeOK, deliver
<1>2. ASSUME NEW S
      PROVE  LET evs == [i \in DOMAIN events |->
                            IF i \in S THEN [events[i] EXCEPT !.acked = TRUE] ELSE events[i]]
             IN  /\ evs \in Seq(Event) /\ Len(evs) = Len(events)
                 /\ \A i \in DOMAIN events :
                       evs[i].alert = events[i].alert /\ evs[i].at = events[i].at
  <2>1. events \in Seq(Event) /\ DOMAIN events = 1 .. Len(events)
    BY DEF TypeOK
  <2>2. \A i \in 1 .. Len(events) : events[i] \in Event
    BY <2>1
  <2>3. \A i \in 1 .. Len(events) : [events[i] EXCEPT !.acked = TRUE] \in Event
    BY <2>2 DEF Event
  <2> QED
    BY <2>1, <2>2, <2>3 DEF Event
<1>3. ASSUME NEW s \in Reliable, NEW arrives \in BOOLEAN, NEW mark,
             PollReliable(s, mark, arrives)
      PROVE  Polled
  <2> DEFINE S == {j \in unacked(s) : j <= mark}
  <2>1. events' = [i \in DOMAIN events |->
                     IF i \in S THEN [events[i] EXCEPT !.acked = TRUE] ELSE events[i]]
    BY <1>3 DEF PollReliable, ackThrough
  <2>2. /\ events' \in Seq(Event) /\ Len(events') = Len(events)
        /\ \A i \in DOMAIN events :
              events'[i].alert = events[i].alert /\ events'[i].at = events[i].at
    <3> HIDE DEF S
    <3> QED
      BY <1>2, <2>1
  <2>3. got' \in [Ids -> 0 .. 2]
    BY <1>1, <1>3 DEF PollReliable
  <2> QED
    BY <1>3, <2>2, <2>3 DEF Polled, PollReliable
<1>4. ASSUME NEW s \in Subjects, NEW arrives \in BOOLEAN, PollOnce(s, arrives)
      PROVE  Polled
  <2> DEFINE S == batch(unacked(s))
  <2>1. events' = [i \in DOMAIN events |->
                     IF i \in S THEN [events[i] EXCEPT !.acked = TRUE] ELSE events[i]]
    BY <1>4 DEF PollOnce
  <2>2. /\ events' \in Seq(Event) /\ Len(events') = Len(events)
        /\ \A i \in DOMAIN events :
              events'[i].alert = events[i].alert /\ events'[i].at = events[i].at
    <3> HIDE DEF S
    <3> QED
      BY <1>2, <2>1
  <2>3. got' \in [Ids -> 0 .. 2]
    BY <1>1, <1>4 DEF PollOnce
  <2> QED
    BY <1>4, <2>2, <2>3 DEF Polled, PollOnce
<1> QED
  BY <1>3, <1>4

LEMMA NextSplit ==
  ASSUME TypeOK, Next
  PROVE  \/ \E r \in Requests : \/ \E s \in Subjects : BeginCreate(r, s)
                                \/ \E a \in AlertIds : FinishCreate(r, a)
                                \/ FailCreate(r)
         \/ \E a \in AlertIds : deleteAlert(a)
         \/ \E t \in Ticks : BeginTick(t) \/ FailTick(t)
         \/ TickEnds
         \/ Polled
         \/ Advance
BY EvaluateTicks, CrashTicks, PollKeeps DEF Next

LEMMA NextTyped == ASSUME TypeOK, [Next]_vars PROVE TypeOK'
<1>1. CASE UNCHANGED vars
  BY <1>1 DEF vars, TypeOK
<1>2. CASE \E r \in Requests : \/ \E s \in Subjects : BeginCreate(r, s)
                               \/ \E a \in AlertIds : FinishCreate(r, a)
                               \/ FailCreate(r)
  BY <1>2, CreateTyped
<1>3. CASE \E a \in AlertIds : deleteAlert(a)
  BY <1>3 DEF deleteAlert, TypeOK, Rows
<1>4. CASE \E t \in Ticks : BeginTick(t) \/ FailTick(t)
  <2>1. [now |-> clock, rows |-> alerts] \in Tick
    BY AlertsAssumption DEF TypeOK, Tick
  <2> QED
    BY <1>4, <2>1 DEF BeginTick, FailTick, TypeOK
<1>5. CASE TickEnds
  BY <1>5, TickTyped DEF TickEnds, Ticked
<1>6. CASE Polled
  BY <1>6 DEF Polled, TypeOK
<1>7. CASE Advance
  BY <1>7, AlertsAssumption DEF Advance, TypeOK
<1> QED
  BY <1>1, <1>2, <1>3, <1>4, <1>5, <1>6, <1>7, NextSplit

\* Every variable keeps its type, whatever the engines do.
THEOREM TypeCorrect == Spec => []TypeOK
BY InitTypeOK, NextTyped, PTL DEF Spec

------------------------------------------------------------------------------
(* One engine. *)

LEMMA InitIInv == Init => IInv
BY InitTypeOK DEF Init, IInv, OneTick, Seen, RowSeen, CooldownKept

LEMMA OneTickKept == ASSUME OneEngine, TypeOK, OneTick, [Next]_vars PROVE OneTick'
<1>1. CASE \E t \in Ticks : BeginTick(t) \/ FailTick(t)
  BY <1>1 DEF OneTick, OneEngine, BeginTick, FailTick, TypeOK
<1>2. CASE TickEnds
  BY <1>2 DEF TickEnds, Ticked, OneTick
<1>3. CASE UNCHANGED ticks
  BY <1>3 DEF OneTick
<1> QED
  BY <1>1, <1>2, <1>3, NextSplit
     DEF vars, BeginCreate, FinishCreate, FailCreate, deleteAlert, Polled, Advance

\* The events stay, and every row keeps what it knows of them.
LEMMA SeenSame ==
  ASSUME TypeOK, Seen, CooldownKept,
         DOMAIN events' = DOMAIN events,
         \A i \in DOMAIN events :
            events'[i].alert = events[i].alert /\ events'[i].at = events[i].at,
         dipped' = dipped,
         \A a \in AlertIds : alerts'[a] \in {alerts[a], None} \/ ~EventOf(a),
         \A t \in Ticks : ticks'[t] \in {ticks[t], None}
                            \/ (ticks'[t].rows = alerts /\ alerts' = alerts)
  PROVE  Seen' /\ CooldownKept'
<1>1. CooldownKept'
  BY DEF CooldownKept
<1>2. \A a : EventOf(a)' <=> EventOf(a)
  BY DEF EventOf
<1>3. ASSUME NEW a \in AlertIds PROVE RowSeen(alerts, a)'
  BY <1>2 DEF Seen, RowSeen, EventOf
<1>4. ASSUME NEW a \in AlertIds, NEW t \in Ticks, ticks'[t] # None
      PROVE  RowSeen(ticks[t].rows, a)'
  BY <1>2, <1>4 DEF Seen, RowSeen, EventOf
<1> QED
  BY <1>1, <1>3, <1>4 DEF Seen

\* The alerts a tick may fire are due, and none of them is cooling down.
LEMMA TickSeen ==
  ASSUME IInv, NEW t \in Ticks, NEW market \in Markets(t),
         NEW done \in SUBSET AlertIds, NEW fired \in SUBSET AlertIds,
         NEW order \in Orders(fired), Ticked(t, market, done, fired, order)
  PROVE  Seen' /\ CooldownKept'
<1> DEFINE tick == ticks[t]  rows == ticks[t].rows
<1> USE DEF IInv
<1>1. /\ tick.now \in Nat /\ rows \in Rows
      /\ \A a \in AlertIds : alerts[a] \in Row \cup {None} /\ rows[a] \in Row \cup {None}
  BY DEF TypeOK, Tick, Rows, Ticked
<1>2. /\ events' \in Seq(Event) /\ Len(events) <= Len(events')
      /\ \A i \in DOMAIN events :
            events'[i].alert = events[i].alert /\ events'[i].at = events[i].at
      /\ \A i \in Len(events) + 1 .. Len(events') :
            events'[i].alert \in fired /\ events'[i].at = tick.now
      /\ \A i, j \in Len(events) + 1 .. Len(events') :
            events'[i].alert = events'[j].alert => i = j
  BY Recorded DEF Ticked, Fires, Evaluated, Kept
<1>3. /\ DOMAIN events = 1 .. Len(events) /\ DOMAIN events' = 1 .. Len(events')
      /\ Len(events) \in Nat /\ Len(events') \in Nat
      /\ \A i \in DOMAIN events : events[i] \in Event
      /\ \A i \in DOMAIN events' : events'[i] \in Event
  BY <1>2 DEF TypeOK
<1>4. \A u \in Ticks : ticks'[u] = None
  BY DEF Ticked, OneTick
<1>5. ASSUME NEW a \in Fires(tick, market), NEW i \in DOMAIN events, events[i].alert = a
      PROVE  tick.now - events[i].at >= Cooldown /\ tick.now >= events[i].at
             /\ a \in dipped
  <2>1. RowSeen(rows, a) /\ rows[a] # None /\ ~rows[a].over /\ a \in AlertIds
        /\ ~cooling(rows[a], tick.now)
    BY <1>5 DEF Seen, Fires, Evaluated, Ticked
  <2>2. rows[a].lastFired # None /\ events[i].at <= rows[a].lastFired /\ a \in dipped
    BY <1>5, <2>1 DEF RowSeen, EventOf
  <2>3. rows[a].lastFired \in Nat
    BY <1>1, <2>1, <2>2 DEF Row
  <2>4. events[i].at \in Nat
    BY <1>3 DEF Event
  <2>5. ~(tick.now - rows[a].lastFired < Cooldown)
    BY <2>1, <2>2 DEF cooling
  <2> QED
    BY <1>1, <2>2, <2>3, <2>4, <2>5, AlertsAssumption
<1>6. CooldownKept'
  <2> SUFFICES ASSUME NEW i \in DOMAIN events', NEW j \in DOMAIN events', i < j,
                      events'[i].alert = events'[j].alert
               PROVE  events'[j].at - events'[i].at >= Cooldown
                         \/ events'[i].at - events'[j].at >= Cooldown
    BY DEF CooldownKept
  <2>1. CASE j \in DOMAIN events
    <3>1. i \in DOMAIN events
      BY <1>3, <2>1
    <3> QED
      BY <1>2, <2>1, <3>1 DEF CooldownKept
  <2>2. CASE j \notin DOMAIN events
    <3>1. j \in Len(events) + 1 .. Len(events')
      BY <1>3, <2>2
    <3>2. i \in DOMAIN events
      BY <1>2, <1>3, <3>1
    <3>3. events'[j].alert \in Fires(tick, market) /\ events'[j].at = tick.now
      BY <1>2, <3>1 DEF Ticked
    <3> QED
      BY <1>2, <1>5, <3>2, <3>3
  <2> QED
    BY <2>1, <2>2
<1>7. ASSUME NEW a \in AlertIds, alerts'[a] # None PROVE RowSeen(alerts, a)'
  <2>1. alerts[a] # None
    BY <1>7 DEF Ticked, updateState
  <2>2. CASE a \in done \cap Fires(tick, market)
    <3>1. alerts'[a].over = TRUE /\ alerts'[a].lastFired = tick.now
      BY <1>1, <2>1, <2>2 DEF Ticked, updateState, Fires, Evaluated, Row
    <3>2. tick.now # None
      BY <1>1, NoneAssumption
    <3>3. ASSUME NEW i \in DOMAIN events', events'[i].alert = a
          PROVE  events'[i].at <= tick.now
      <4>1. CASE i \in DOMAIN events
        BY <1>2, <1>3, <1>5, <2>2, <3>3, <4>1 DEF Event
      <4>2. CASE i \in Len(events) + 1 .. Len(events')
        BY <1>1, <1>2, <4>2
      <4> QED
        BY <1>3, <4>1, <4>2
    <3> QED
      BY <3>1, <3>2, <3>3 DEF RowSeen
  <2>3. CASE a \notin done \cap Fires(tick, market)
    <3>1. a \notin fired
      BY <2>3 DEF Ticked
    <3>2. \A i \in DOMAIN events' :
             events'[i].alert = a => i \in DOMAIN events /\ events[i].alert = a
                                       /\ events'[i].at = events[i].at
      BY <1>2, <1>3, <3>1
    <3>3. EventOf(a)' => EventOf(a)
      BY <3>2 DEF EventOf
    <3>4. CASE a \in done \cap Evaluated(tick, market)
      <4>1. alerts'[a].over = market[a] /\ alerts'[a].lastFired = rows[a].lastFired
            /\ rows[a] # None /\ market[a] \in BOOLEAN
        BY <1>1, <2>1, <2>3, <3>4
           DEF Ticked, updateState, Evaluated, Fires, Markets, Row
      <4>2. ~market[a] => a \in dipped'
        BY <3>4 DEF Ticked, seenLow
      <4>3. RowSeen(rows, a)
        BY DEF Seen, Ticked
      <4> QED
        BY <3>2, <4>1, <4>2, <4>3 DEF RowSeen
    <3>5. CASE a \notin done \cap Evaluated(tick, market)
      <4>1. alerts'[a] = alerts[a]
        BY <3>5 DEF Ticked, updateState, TypeOK
      <4>2. a \in dipped => a \in dipped'
        BY <2>3 DEF Ticked, seenLow
      <4>3. RowSeen(alerts, a)
        BY DEF Seen
      <4> QED
        BY <3>2, <3>3, <4>1, <4>2, <4>3 DEF RowSeen
    <3> QED
      BY <3>4, <3>5
  <2> QED
    BY <2>2, <2>3
<1>8. \A a \in AlertIds : RowSeen(alerts, a)'
  BY <1>7 DEF RowSeen
<1> QED
  BY <1>4, <1>6, <1>8 DEF Seen

LEMMA NextKeeps == ASSUME OneEngine, IInv, [Next]_vars PROVE IInv'
<1> USE DEF IInv
<1>1. TypeOK' /\ OneTick'
  BY NextTyped, OneTickKept
<1>2. CASE UNCHANGED vars
  BY <1>1, <1>2, SeenSame DEF vars
<1>3. CASE \E r \in Requests : \/ \E s \in Subjects : BeginCreate(r, s)
                               \/ FailCreate(r)
  BY <1>1, <1>3, SeenSame DEF BeginCreate, FailCreate
<1>4. ASSUME NEW r \in Requests, NEW a \in AlertIds, FinishCreate(r, a)
      PROVE  Seen' /\ CooldownKept'
  <2>1. ~EventOf(a)
    BY <1>4 DEF FinishCreate, EventOf, TypeOK
  <2>2. \A b \in AlertIds : alerts'[b] = alerts[b] \/ b = a
    BY <1>4 DEF FinishCreate, TypeOK, Rows
  <2> QED
    BY <1>4, <2>1, <2>2, SeenSame DEF FinishCreate
<1>5. ASSUME NEW a \in AlertIds, deleteAlert(a) PROVE Seen' /\ CooldownKept'
  <2>1. \A b \in AlertIds : alerts'[b] \in {alerts[b], None}
    BY <1>5 DEF deleteAlert, TypeOK, Rows
  <2> QED
    BY <1>5, <2>1, SeenSame DEF deleteAlert
<1>6. ASSUME NEW t \in Ticks, BeginTick(t) \/ FailTick(t) PROVE Seen' /\ CooldownKept'
  <2>1. \A u \in Ticks : ticks'[u] \in {ticks[u], None}
                            \/ (ticks'[u].rows = alerts /\ alerts' = alerts)
    BY <1>6 DEF BeginTick, FailTick, TypeOK
  <2> QED
    BY <1>6, <2>1, SeenSame DEF BeginTick, FailTick
<1>7. CASE TickEnds
  BY <1>1, <1>7, TickSeen DEF TickEnds
<1>8. CASE Polled
  <2>1. DOMAIN events' = DOMAIN events
    BY <1>8 DEF Polled, TypeOK
  <2> QED
    BY <1>1, <1>8, <2>1, SeenSame DEF Polled
<1>9. CASE Advance
  BY <1>1, <1>9, SeenSame DEF Advance
<1> QED
  BY <1>1, <1>2, <1>3, <1>4, <1>5, <1>6, <1>7, <1>8, <1>9, NextSplit

\* An alert of a single engine fires no more often than its cooldown, also when
\* the engine dies in the middle of a tick (01-invariants.md, S1).
THEOREM OneEngineKeepsCooldown == ASSUME OneEngine PROVE Spec => []CooldownKept
<1>1. Init => IInv
  BY InitIInv
<1>2. IInv /\ [Next]_vars => IInv'
  BY NextKeeps
<1>3. IInv => CooldownKept
  BY DEF IInv
<1> QED
  BY <1>1, <1>2, <1>3, PTL DEF Spec

\* A condition that persists is reported once (evaluate.ts:69-70).
THEOREM RisingEdge == ASSUME OneEngine PROVE Spec => FiresOnRisingEdge
<1> DEFINE Edge == \A i \in Len(events) + 1 .. Len(events') :
              LET a == events'[i].alert
              IN  (\E j \in DOMAIN events : events[j].alert = a) => a \in dipped
<1>1. ASSUME IInv, [Next]_vars PROVE [Edge]_vars
  <2> SUFFICES ASSUME NEW i \in Len(events) + 1 .. Len(events'),
                      EventOf(events'[i].alert)
               PROVE  events'[i].alert \in dipped
    BY DEF EventOf
  <2>1. Len(events) \in Nat
    BY DEF IInv, TypeOK
  <2>2. TickEnds
    <3>1. Len(events') # Len(events)
      BY <2>1
    <3> QED
      BY <1>1, <3>1, NextSplit
         DEF IInv, vars, BeginCreate, FinishCreate, FailCreate, deleteAlert,
             BeginTick, FailTick, Polled, Advance
  <2> PICK t \in Ticks : \E market \in Markets(t), done \in SUBSET AlertIds,
                            fired \in SUBSET AlertIds : \E order \in Orders(fired) :
                            Ticked(t, market, done, fired, order)
    BY <2>2 DEF TickEnds
  <2> PICK market \in Markets(t), done \in SUBSET AlertIds, fired \in SUBSET AlertIds :
          \E order \in Orders(fired) : Ticked(t, market, done, fired, order)
    OBVIOUS
  <2> DEFINE a == events'[i].alert
  <2>3. a \in fired
    BY <1>1, Recorded DEF IInv, Ticked, Fires, Evaluated
  <2>4. ticks[t].rows[a] # None /\ ~ticks[t].rows[a].over /\ RowSeen(ticks[t].rows, a)
    BY <1>1, <2>3 DEF IInv, Seen, Ticked, Fires, Evaluated
  <2> QED
    BY <2>4 DEF RowSeen
<1>2. Init => IInv
  BY InitIInv
<1>3. IInv /\ [Next]_vars => IInv'
  BY NextKeeps
<1> QED
  BY <1>1, <1>2, <1>3, PTL DEF Spec, FiresOnRisingEdge

------------------------------------------------------------------------------
(* The queue of events and what its readers got. *)

\* Nothing is read: events stay as they are, perhaps purged, and new ones are
\* added to them.
Unread ==
    /\ got' = got
    /\ Len(events) <= Len(events')
    /\ \A i \in DOMAIN events : Kept(events[i], events'[i])
    /\ \A i \in Len(events) + 1 .. Len(events') : ~events'[i].acked

\* The events of S are acknowledged.
Acks(S) ==
    /\ Len(events') = Len(events)
    /\ \A i \in DOMAIN events :
          /\ events'[i].subject = events[i].subject /\ events'[i].at = events[i].at
          /\ events'[i].purged <=> events[i].purged
          /\ events'[i].acked <=> events[i].acked \/ i \in S

ReadReliable ==
    \E s \in Reliable, arrives \in BOOLEAN : \E mark \in marks(s) :
        /\ Acks({i \in unacked(s) : i <= mark})
        /\ got' = deliver(batch({i \in unacked(s) : i > mark}), arrives)

ReadOnce ==
    \E s \in Subjects \ Reliable, arrives \in BOOLEAN :
        /\ Acks(batch(unacked(s)))
        /\ got' = deliver(batch(unacked(s)), arrives)

LEMMA EventsTyped ==
  ASSUME TypeOK
  PROVE  /\ DOMAIN events = 1 .. Len(events) /\ Len(events) \in Nat
         /\ DOMAIN events \subseteq Ids
         /\ \A i \in DOMAIN events : events[i] \in Event /\ events[i].at \in Nat
<1>1. DOMAIN events = 1 .. Len(events) /\ Len(events) \in Nat /\ Len(events) <= MaxEvents
      /\ \A i \in DOMAIN events : events[i] \in Event
  BY DEF TypeOK
<1>2. \A i \in DOMAIN events : events[i].at \in Nat
  BY <1>1 DEF Event
<1> QED
  BY <1>1, <1>2, AlertsAssumption DEF Ids

LEMMA KeptItself == ASSUME NEW e PROVE Kept(e, e)
BY DEF Kept

LEMMA AcksThese ==
  ASSUME TypeOK, NEW S,
         events' = [i \in DOMAIN events |->
                      IF i \in S THEN [events[i] EXCEPT !.acked = TRUE] ELSE events[i]]
  PROVE  Acks(S)
<1>1. ASSUME NEW e \in Event
      PROVE  LET f == [e EXCEPT !.acked = TRUE]
             IN  /\ f.subject = e.subject /\ f.at = e.at
                 /\ f.purged <=> e.purged
                 /\ f.acked
  BY DEF Event
<1>2. Len(events') = Len(events)
  BY EventsTyped
<1>3. ASSUME NEW i \in DOMAIN events
      PROVE  /\ events'[i].subject = events[i].subject /\ events'[i].at = events[i].at
             /\ events'[i].purged <=> events[i].purged
             /\ events'[i].acked <=> events[i].acked \/ i \in S
  <2>1. events[i] \in Event
    BY EventsTyped
  <2>2. CASE i \in S
    BY <1>1, <2>1, <2>2
  <2>3. CASE i \notin S
    BY <2>3
  <2> QED
    BY <2>2, <2>3
<1> QED
  BY <1>2, <1>3 DEF Acks

LEMMA TickUnread == ASSUME TypeOK, TickEnds PROVE Unread
<1> PICK t \in Ticks : \E market \in Markets(t), done \in SUBSET AlertIds,
                          fired \in SUBSET AlertIds : \E order \in Orders(fired) :
                          Ticked(t, market, done, fired, order)
  BY DEF TickEnds
<1> PICK market \in Markets(t), done \in SUBSET AlertIds, fired \in SUBSET AlertIds :
        \E order \in Orders(fired) : Ticked(t, market, done, fired, order)
  OBVIOUS
<1> QED
  BY Recorded DEF Ticked, Fires, Evaluated, Unread

LEMMA NextReads == ASSUME TypeOK, [Next]_vars PROVE Unread \/ ReadReliable \/ ReadOnce
<1>1. CASE UNCHANGED <<events, got>>
  BY <1>1, KeptItself, EventsTyped DEF Unread
<1>2. CASE TickEnds
  BY <1>2, TickUnread
<1>3. ASSUME NEW s \in Reliable, NEW arrives \in BOOLEAN, NEW mark \in marks(s),
             PollReliable(s, mark, arrives)
      PROVE  ReadReliable
  <2> DEFINE S == {i \in unacked(s) : i <= mark}
  <2>1. events' = [i \in DOMAIN events |->
                     IF i \in S THEN [events[i] EXCEPT !.acked = TRUE] ELSE events[i]]
    BY <1>3 DEF PollReliable, ackThrough
  <2>2. Acks(S)
    <3> HIDE DEF S
    <3> QED
      BY <2>1, AcksThese
  <2> QED
    BY <1>3, <2>2 DEF PollReliable, ReadReliable
<1>4. ASSUME NEW s \in Subjects \ Reliable, NEW arrives \in BOOLEAN, PollOnce(s, arrives)
      PROVE  ReadOnce
  <2> DEFINE S == batch(unacked(s))
  <2>1. events' = [i \in DOMAIN events |->
                     IF i \in S THEN [events[i] EXCEPT !.acked = TRUE] ELSE events[i]]
    BY <1>4 DEF PollOnce
  <2>2. Acks(S)
    <3> HIDE DEF S
    <3> QED
      BY <2>1, AcksThese
  <2> QED
    BY <1>4, <2>2 DEF PollOnce, ReadOnce
<1> QED
  BY <1>1, <1>2, <1>3, <1>4, EvaluateTicks, CrashTicks
     DEF Next, vars, BeginCreate, FinishCreate, FailCreate, deleteAlert, BeginTick,
         FailTick, Advance

\* What a delivery leaves.
LEMMA Delivered ==
  ASSUME TypeOK, NEW B, NEW arrives \in BOOLEAN, got' = deliver(B, arrives)
  PROVE  /\ \A i \in Ids : got'[i] = got[i] \/ (i \in B /\ arrives /\ got'[i] = got[i] + 1)
         /\ \A i \in Ids \cap B : arrives => got'[i] > 0
         /\ \A i \in Ids : got[i] \in Nat /\ got'[i] \in Nat /\ got[i] <= got'[i]
BY DEF TypeOK, deliver

\* An event read by an owner who does not acknowledge is acknowledged, and was
\* read once.
ReadEvents ==
    /\ \A i \in Ids \ DOMAIN events : got[i] = 0
    /\ \A i \in DOMAIN events :
          events[i].subject \notin Reliable /\ got[i] > 0 => events[i].acked /\ got[i] <= 1

LEMMA ReadKept == ASSUME TypeOK, TypeOK', ReadEvents, [Next]_vars PROVE ReadEvents'
<1> DEFINE Once(i) ==
              events[i].subject \notin Reliable /\ got[i] > 0 => events[i].acked /\ got[i] <= 1
<1>0. /\ DOMAIN events = 1 .. Len(events) /\ Len(events) \in Nat /\ DOMAIN events \subseteq Ids
      /\ DOMAIN events' = 1 .. Len(events') /\ Len(events') \in Nat /\ DOMAIN events' \subseteq Ids
      /\ \A i \in Ids : got[i] \in Nat
  <2>1. DOMAIN events' = 1 .. Len(events') /\ Len(events') \in Nat /\ DOMAIN events' \subseteq Ids
    BY AlertsAssumption DEF TypeOK, Ids
  <2> QED
    BY <2>1, EventsTyped DEF TypeOK
<1>1. CASE Unread
  <2>1. \A i \in Ids \ DOMAIN events' : got'[i] = 0
    BY <1>0, <1>1 DEF Unread, ReadEvents
  <2>2. ASSUME NEW i \in DOMAIN events' PROVE Once(i)'
    <3>1. CASE i \in DOMAIN events
      <4>1. Kept(events[i], events'[i]) /\ got' = got
        BY <1>1, <3>1 DEF Unread
      <4> QED
        BY <3>1, <4>1 DEF Kept, ReadEvents
    <3>2. CASE i \notin DOMAIN events
      BY <1>0, <1>1, <2>2, <3>2 DEF Unread, ReadEvents
    <3> QED
      BY <3>1, <3>2
  <2> QED
    BY <2>1, <2>2 DEF ReadEvents
<1>2. CASE ReadReliable
  <2> PICK s \in Reliable, arrives \in BOOLEAN : \E mark \in marks(s) :
        /\ Acks({i \in unacked(s) : i <= mark})
        /\ got' = deliver(batch({i \in unacked(s) : i > mark}), arrives)
    BY <1>2 DEF ReadReliable
  <2> PICK mark \in marks(s) :
        /\ Acks({i \in unacked(s) : i <= mark})
        /\ got' = deliver(batch({i \in unacked(s) : i > mark}), arrives)
    OBVIOUS
  <2> DEFINE B == batch({i \in unacked(s) : i > mark})
             S == {i \in unacked(s) : i <= mark}
  <2>1. \A i \in B : i \in DOMAIN events /\ events[i].subject \in Reliable
    BY DEF batch, unacked
  <2> HIDE DEF B, S
  <2>2. Acks(S) /\ got' = deliver(B, arrives)
    BY DEF B, S
  <2>3. \A i \in Ids : got'[i] = got[i] \/ i \in B
    BY <2>2, Delivered
  <2>4. \A i \in Ids \ DOMAIN events' : got'[i] = 0
    BY <1>0, <2>1, <2>2, <2>3 DEF Acks, ReadEvents
  <2>5. ASSUME NEW i \in DOMAIN events' PROVE Once(i)'
    <3>1. i \in DOMAIN events
      BY <1>0, <2>2 DEF Acks
    <3>2. events'[i].subject = events[i].subject /\ (events[i].acked => events'[i].acked)
      BY <2>2, <3>1 DEF Acks
    <3>3. events[i].subject \notin Reliable => got'[i] = got[i]
      BY <1>0, <2>1, <2>3, <3>1
    <3> QED
      BY <3>1, <3>2, <3>3 DEF ReadEvents
  <2> QED
    BY <2>4, <2>5 DEF ReadEvents
<1>3. CASE ReadOnce
  <2> PICK s \in Subjects \ Reliable, arrives \in BOOLEAN :
        Acks(batch(unacked(s))) /\ got' = deliver(batch(unacked(s)), arrives)
    BY <1>3 DEF ReadOnce
  <2> DEFINE B == batch(unacked(s))
  <2>1. \A i \in B : i \in DOMAIN events /\ ~events[i].acked /\ events[i].subject \notin Reliable
    BY DEF batch, unacked
  <2> HIDE DEF B
  <2>2. Acks(B) /\ got' = deliver(B, arrives)
    BY DEF B
  <2>3. \A i \in Ids : got'[i] = got[i] \/ (i \in B /\ got'[i] = got[i] + 1)
    BY <2>2, Delivered
  <2>4. \A i \in Ids \ DOMAIN events' : got'[i] = 0
    BY <1>0, <2>1, <2>2, <2>3 DEF Acks, ReadEvents
  <2>5. ASSUME NEW i \in DOMAIN events' PROVE Once(i)'
    <3>1. i \in DOMAIN events
      BY <1>0, <2>2 DEF Acks
    <3>2. events'[i].subject = events[i].subject
          /\ (events'[i].acked <=> events[i].acked \/ i \in B)
      BY <2>2, <3>1 DEF Acks
    <3>3. CASE got'[i] = got[i]
      BY <3>1, <3>2, <3>3 DEF ReadEvents
    <3>4. CASE i \in B /\ got'[i] = got[i] + 1
      <4>1. got[i] = 0
        BY <1>0, <2>1, <3>1, <3>4 DEF ReadEvents
      <4> QED
        BY <3>2, <3>4, <4>1
    <3> QED
      BY <1>0, <2>3, <3>1, <3>3, <3>4
  <2> QED
    BY <2>4, <2>5 DEF ReadEvents
<1> QED
  BY <1>1, <1>2, <1>3, NextReads

\* Default polling is at-most-once, with any number of engines: no event is
\* delivered to its owner twice (alerts.ts:130-135).
THEOREM AtMostOnce == Spec => []DefaultAtMostOnce
<1>1. Init => TypeOK /\ ReadEvents
  BY InitTypeOK DEF Init, ReadEvents
<1>2. TypeOK /\ ReadEvents /\ [Next]_vars => (TypeOK /\ ReadEvents)'
  BY NextTyped, ReadKept
<1>3. TypeOK /\ ReadEvents => DefaultAtMostOnce
  <2> SUFFICES ASSUME TypeOK, ReadEvents, NEW i \in DOMAIN events,
                      events[i].subject \notin Reliable
               PROVE  got[i] <= 1
    BY DEF DefaultAtMostOnce
  <2>1. got[i] \in Nat
    BY EventsTyped DEF TypeOK
  <2> QED
    BY <2>1 DEF ReadEvents
<1> QED
  BY <1>1, <1>2, <1>3, PTL DEF Spec

\* The events are dated in the order of their ids, and none is of the future.
InOrder ==
    /\ \A i, j \in DOMAIN events : i < j => events[i].at <= events[j].at
    /\ \A i \in DOMAIN events : events[i].at <= clock
    /\ \A t \in Ticks : ticks[t] # None =>
          ticks[t].now <= clock /\ \A i \in DOMAIN events : events[i].at <= ticks[t].now

\* What is left in the queue of an owner who acknowledges is behind what he
\* got: he was given the events in the order of their ids.
Handed ==
    \A i, j \in DOMAIN events :
        /\ i < j /\ got[j] > 0
        /\ events[i].subject = events[j].subject /\ events[i].subject \in Reliable
        /\ i \in unacked(events[i].subject)
        => got[i] > 0

\* A batch is a first part of the queue.
LEMMA BatchFirst ==
  ASSUME TypeOK, InOrder, NEW U \in SUBSET DOMAIN events,
         NEW j \in batch(U), NEW i \in U, i < j
  PROVE  i \in batch(U)
<1> DEFINE before(k) == {l \in U : earlier(l, k)}
<1>1. /\ DOMAIN events = 1 .. Len(events) /\ Len(events) \in Nat
      /\ \A k \in DOMAIN events : events[k].at \in Nat
  BY EventsTyped
<1>2. IsFiniteSet(U)
  <2>1. IsFiniteSet(DOMAIN events)
    BY <1>1, FS_Interval
  <2> QED
    BY <2>1, FS_Subset
<1>3. j \in U /\ Cardinality(before(j)) < Limit
  BY DEF batch
<1>4. before(i) \subseteq before(j)
  <2> SUFFICES ASSUME NEW k \in U, earlier(k, i) PROVE earlier(k, j)
    OBVIOUS
  <2>1. events[i].at <= events[j].at
    BY <1>3 DEF InOrder
  <2> QED
    BY <1>1, <1>3, <2>1 DEF earlier
<1>5. before(j) \subseteq U
  OBVIOUS
<1> HIDE DEF before
<1>6. Cardinality(before(i)) <= Cardinality(before(j)) /\ Cardinality(before(i)) \in Nat
      /\ Cardinality(before(j)) \in Nat
  <2>1. IsFiniteSet(before(j))
    BY <1>2, <1>5, FS_Subset
  <2> QED
    BY <1>4, <2>1, FS_Subset, FS_CardinalityType
<1>7. Cardinality(before(i)) < Limit
  BY <1>3, <1>6, AlertsAssumption
<1> QED
  BY <1>7 DEF batch, before

\* One engine dates its events in order.
LEMMA OrderKept ==
  ASSUME OneEngine, TypeOK, TypeOK', OneTick, InOrder, [Next]_vars
  PROVE  InOrder'
<1>0. /\ DOMAIN events = 1 .. Len(events) /\ Len(events) \in Nat
      /\ \A i \in DOMAIN events : events[i].at \in Nat
      /\ clock \in Nat /\ \A t \in Ticks : ticks[t] # None => ticks[t].now \in Nat
  <2>1. \A t \in Ticks : ticks[t] # None => ticks[t].now \in Nat
    BY DEF TypeOK, Tick
  <2> QED
    BY <2>1, EventsTyped DEF TypeOK
\* The events stay as they are.
<1>1. ASSUME DOMAIN events' = DOMAIN events,
             \A i \in DOMAIN events : events'[i].at = events[i].at,
             clock' \in Nat, clock <= clock',
             \A t \in Ticks : ticks'[t] # None => ticks'[t] = ticks[t] \/ ticks'[t].now = clock
      PROVE  InOrder'
  <2>1. \A t \in Ticks : ticks'[t] # None =>
           ticks'[t].now <= clock' /\ \A i \in DOMAIN events : events[i].at <= ticks'[t].now
    BY <1>0, <1>1 DEF InOrder
  <2> QED
    BY <1>0, <1>1, <2>1 DEF InOrder
<1>2. CASE UNCHANGED <<events, ticks, clock>>
  BY <1>0, <1>1, <1>2
<1>3. CASE \E t \in Ticks : BeginTick(t) \/ FailTick(t)
  <2>1. \A t \in Ticks : ticks'[t] # None => ticks'[t] = ticks[t] \/ ticks'[t].now = clock
    BY <1>3 DEF BeginTick, FailTick, TypeOK
  <2> QED
    BY <1>0, <1>1, <1>3, <2>1 DEF BeginTick, FailTick
<1>4. CASE TickEnds
  <2> PICK t \in Ticks : \E market \in Markets(t), done \in SUBSET AlertIds,
                            fired \in SUBSET AlertIds : \E order \in Orders(fired) :
                            Ticked(t, market, done, fired, order)
    BY <1>4 DEF TickEnds
  <2> PICK market \in Markets(t), done \in SUBSET AlertIds, fired \in SUBSET AlertIds :
          \E order \in Orders(fired) : Ticked(t, market, done, fired, order)
    OBVIOUS
  <2> DEFINE at == ticks[t].now
  <2>1. /\ DOMAIN events' = 1 .. Len(events') /\ Len(events') \in Nat
        /\ \A i \in DOMAIN events : events'[i].at = events[i].at
        /\ \A i \in Len(events) + 1 .. Len(events') : events'[i].at = at
    <3>1. DOMAIN events' = 1 .. Len(events') /\ Len(events') \in Nat
      BY DEF TypeOK
    <3> QED
      BY <3>1, Recorded DEF Ticked, Fires, Evaluated, Kept
  <2>2. ticks[t] # None /\ clock' = clock /\ \A u \in Ticks : ticks'[u] = None
    BY DEF Ticked, OneTick
  <2>3. at \in Nat /\ at <= clock /\ \A i \in DOMAIN events : events[i].at <= at
    BY <1>0, <2>2 DEF InOrder
  <2> HIDE DEF at
  <2>4. \A i \in DOMAIN events' : events'[i].at = at \/ (i \in DOMAIN events
                                     /\ events'[i].at = events[i].at)
    BY <1>0, <2>1
  <2>5. \A i, j \in DOMAIN events' : i < j => events'[i].at <= events'[j].at
    <3> SUFFICES ASSUME NEW i \in DOMAIN events', NEW j \in DOMAIN events', i < j
                 PROVE  events'[i].at <= events'[j].at
      OBVIOUS
    <3>1. CASE j \in DOMAIN events
      <4>1. i \in DOMAIN events
        BY <1>0, <2>1, <3>1
      <4> QED
        BY <2>1, <3>1, <4>1 DEF InOrder
    <3>2. CASE j \notin DOMAIN events
      <4>1. events'[j].at = at
        BY <2>4, <3>2
      <4> QED
        BY <1>0, <2>3, <2>4, <4>1
    <3> QED
      BY <3>1, <3>2
  <2>6. \A i \in DOMAIN events' : events'[i].at <= clock'
    BY <1>0, <2>2, <2>3, <2>4
  <2> QED
    BY <2>2, <2>5, <2>6 DEF InOrder
<1>5. CASE Polled
  BY <1>0, <1>1, <1>5 DEF Polled, TypeOK
<1>6. CASE Advance
  BY <1>0, <1>1, <1>6 DEF Advance
<1> QED
  BY <1>2, <1>3, <1>4, <1>5, <1>6, NextSplit
     DEF vars, BeginCreate, FinishCreate, FailCreate, deleteAlert

\* What is acknowledged was got, and what is skipped was got before.
Reaches ==
    /\ \A i \in Ids \ DOMAIN events : got[i] = 0
    /\ Handed
    /\ ReliableAtLeastOnce

LEMMA ReachesKept ==
  ASSUME TypeOK, TypeOK', InOrder, Reaches, ReadEvents, ReadEvents', [Next]_vars
  PROVE  Reaches'
<1>0. /\ DOMAIN events = 1 .. Len(events) /\ Len(events) \in Nat /\ DOMAIN events \subseteq Ids
      /\ DOMAIN events' = 1 .. Len(events') /\ Len(events') \in Nat /\ DOMAIN events' \subseteq Ids
      /\ \A i \in Ids : got[i] \in Nat /\ got'[i] \in Nat
  <2>1. DOMAIN events' = 1 .. Len(events') /\ Len(events') \in Nat /\ DOMAIN events' \subseteq Ids
    BY AlertsAssumption DEF TypeOK, Ids
  <2>2. \A i \in Ids : got[i] \in 0 .. 2 /\ got'[i] \in 0 .. 2
    BY DEF TypeOK
  <2> QED
    BY <2>1, <2>2, EventsTyped
<1> DEFINE Open(i, s) == events[i].subject = s /\ ~events[i].acked /\ ~events[i].purged
<1>1. CASE Unread
  <2>1. \A i \in DOMAIN events : Kept(events[i], events'[i])
    BY <1>1 DEF Unread
  <2>2. ReliableAtLeastOnce'
    <3> SUFFICES ASSUME NEW i \in DOMAIN events', events'[i].subject \in Reliable, events'[i].acked
                 PROVE  got'[i] > 0
      BY DEF ReliableAtLeastOnce
    <3>1. i \in DOMAIN events
      BY <1>0, <1>1 DEF Unread
    <3> QED
      BY <1>1, <2>1, <3>1 DEF Unread, Kept, Reaches, ReliableAtLeastOnce
  <2>3. Handed'
    <3> SUFFICES ASSUME NEW i \in DOMAIN events', NEW j \in DOMAIN events', i < j, got'[j] > 0,
                        events'[i].subject = events'[j].subject, events'[i].subject \in Reliable,
                        ~events'[i].acked, ~events'[i].purged
                 PROVE  got'[i] > 0
      BY DEF Handed, unacked
    <3>1. j \in DOMAIN events
      BY <1>0, <1>1 DEF Unread, Reaches
    <3>2. i \in DOMAIN events
      BY <1>0, <3>1
    <3>3. events[i].subject = events[j].subject /\ events[i].subject \in Reliable
          /\ ~events[i].acked /\ ~events[i].purged
      BY <2>1, <3>1, <3>2 DEF Kept
    <3> QED
      BY <1>1, <3>1, <3>2, <3>3 DEF Unread, Reaches, Handed, unacked
  <2> QED
    BY <1>1, <2>2, <2>3 DEF Reaches, ReadEvents
<1>2. CASE ReadOnce
  <2> PICK s \in Subjects \ Reliable, arrives \in BOOLEAN :
        Acks(batch(unacked(s))) /\ got' = deliver(batch(unacked(s)), arrives)
    BY <1>2 DEF ReadOnce
  <2> DEFINE B == batch(unacked(s))
  <2>1. \A i \in B : i \in DOMAIN events /\ events[i].subject \notin Reliable
    BY DEF batch, unacked
  <2> HIDE DEF B
  <2>2. Acks(B) /\ got' = deliver(B, arrives)
    BY DEF B
  <2>3. \A i \in DOMAIN events : events[i].subject \in Reliable => got'[i] = got[i]
    BY <1>0, <2>1, <2>2, Delivered
  <2>4. \A i \in DOMAIN events :
           /\ events'[i].subject = events[i].subject /\ (events'[i].purged <=> events[i].purged)
           /\ events[i].subject \in Reliable => (events'[i].acked <=> events[i].acked)
    BY <2>1, <2>2 DEF Acks
  <2>5. DOMAIN events' = DOMAIN events
    BY <1>0, <2>2 DEF Acks
  <2>6. ReliableAtLeastOnce'
    BY <2>3, <2>4, <2>5 DEF Reaches, ReliableAtLeastOnce
  <2>7. Handed'
    BY <2>3, <2>4, <2>5 DEF Reaches, Handed, unacked
  <2> QED
    BY <2>6, <2>7 DEF Reaches, ReadEvents
<1>3. CASE ReadReliable
  <2> PICK s \in Reliable, arrives \in BOOLEAN : \E mark \in marks(s) :
        /\ Acks({i \in unacked(s) : i <= mark})
        /\ got' = deliver(batch({i \in unacked(s) : i > mark}), arrives)
    BY <1>3 DEF ReadReliable
  <2> PICK mark \in marks(s) :
        /\ Acks({i \in unacked(s) : i <= mark})
        /\ got' = deliver(batch({i \in unacked(s) : i > mark}), arrives)
    OBVIOUS
  <2> DEFINE U == {i \in unacked(s) : i > mark}
             B == batch(U)
             S == {i \in unacked(s) : i <= mark}
  <2>1. /\ mark \in Int
        /\ mark # 0 => mark \in DOMAIN events /\ events[mark].subject = s /\ got[mark] > 0
    BY <1>0 DEF marks
  <2>2. \A i : i \in unacked(s) <=> i \in DOMAIN events /\ Open(i, s)
    BY DEF unacked
  <2>3. U \subseteq DOMAIN events /\ B \subseteq U
        /\ \A i \in DOMAIN events : i \in U <=> Open(i, s) /\ i > mark
    BY <2>2 DEF batch
  <2>4. \A i : i \in S <=> i \in DOMAIN events /\ Open(i, s) /\ i <= mark
    BY <2>2
  <2>5. \A j \in B, i \in U : i < j => i \in B
    BY <2>3, BatchFirst
  <2> HIDE DEF U, B, S
  <2>6. Acks(S) /\ got' = deliver(B, arrives)
    BY DEF U, B, S
  <2>7. /\ \A i \in Ids : got'[i] = got[i] \/ (i \in B /\ arrives)
        /\ \A i \in Ids \cap B : arrives => got'[i] > 0
        /\ \A i \in Ids : got[i] <= got'[i]
    BY <2>6, Delivered
  <2>8. DOMAIN events' = DOMAIN events
    BY <1>0, <2>6 DEF Acks
  <2>9. \A i \in DOMAIN events :
           /\ events'[i].subject = events[i].subject /\ (events'[i].purged <=> events[i].purged)
           /\ events'[i].acked <=> events[i].acked \/ i \in S
    BY <2>6 DEF Acks
  <2>10. ReliableAtLeastOnce'
    <3> SUFFICES ASSUME NEW i \in DOMAIN events, events[i].subject \in Reliable,
                        events[i].acked \/ i \in S
                 PROVE  got'[i] > 0
      BY <2>8, <2>9 DEF ReliableAtLeastOnce
    <3>1. got[i] > 0 => got'[i] > 0
      BY <1>0, <2>7
    <3>2. CASE events[i].acked
      BY <3>1, <3>2 DEF Reaches, ReliableAtLeastOnce
    <3>3. CASE i \in S
      <4>1. Open(i, s) /\ i <= mark /\ mark # 0
        BY <1>0, <2>4, <3>3
      <4>2. CASE i = mark
        BY <2>1, <3>1, <4>1, <4>2
      <4>3. CASE i < mark
        BY <2>1, <2>2, <3>1, <4>1, <4>3 DEF Reaches, Handed
      <4> QED
        BY <1>0, <2>1, <4>1, <4>2, <4>3
    <3> QED
      BY <3>2, <3>3
  <2>11. Handed'
    <3> SUFFICES ASSUME NEW i \in DOMAIN events, NEW j \in DOMAIN events, i < j, got'[j] > 0,
                        events[i].subject = events[j].subject, events[i].subject \in Reliable,
                        ~events[i].acked, i \notin S, ~events[i].purged
                 PROVE  got'[i] > 0
      BY <2>8, <2>9 DEF Handed, unacked
    <3>1. got[i] > 0 => got'[i] > 0
      BY <1>0, <2>7
    <3>2. CASE got'[j] = got[j]
      BY <3>1, <3>2 DEF Reaches, Handed, unacked
    <3>3. CASE j \in B /\ arrives
      <4>1. events[i].subject = s /\ i > mark
        BY <1>0, <2>1, <2>3, <2>4, <3>3
      <4>2. i \in U
        BY <2>3, <4>1
      <4> QED
        BY <1>0, <2>5, <2>7, <3>3, <4>2
    <3> QED
      BY <1>0, <2>7, <3>2, <3>3
  <2> QED
    BY <2>10, <2>11 DEF Reaches, ReadEvents
<1> QED
  BY <1>1, <1>2, <1>3, NextReads

\* Reliable polling is at-least-once (alerts.ts:130-135): with one engine, what
\* an owner acknowledges reached him, whatever answers were lost.
THEOREM AtLeastOnce == ASSUME OneEngine PROVE Spec => []ReliableAtLeastOnce
<1> DEFINE Inv == TypeOK /\ OneTick /\ InOrder /\ ReadEvents /\ Reaches
<1>1. Init => Inv
  <2> SUFFICES ASSUME Init PROVE Inv
    OBVIOUS
  <2>1. /\ DOMAIN events = {} /\ clock = 1
        /\ \A t \in Ticks : ticks[t] = None
        /\ \A i \in Ids : got[i] = 0
    BY DEF Init
  <2>2. OneTick /\ InOrder
    BY <2>1 DEF OneTick, InOrder
  <2>3. ReadEvents
    BY <2>1 DEF ReadEvents
  <2>4. Reaches
    BY <2>1 DEF Reaches, Handed, ReliableAtLeastOnce
  <2>5. TypeOK
    BY InitTypeOK
  <2> QED
    BY <2>2, <2>3, <2>4, <2>5
<1>2. Inv /\ [Next]_vars => Inv'
  BY NextTyped, OneTickKept, OrderKept, ReadKept, ReachesKept
<1>3. Inv => ReliableAtLeastOnce
  BY DEF Reaches
<1> QED
  BY <1>1, <1>2, <1>3, PTL DEF Spec
==============================================================================
