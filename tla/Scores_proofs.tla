---------------------------- MODULE Scores_proofs ----------------------------
(***************************************************************************)
(* The two records of the engine's tick.  Of the signals, for any cohort,  *)
(* any cooldown and any restarts: a whale flip is genuine (SignWas: the    *)
(* stored sign is one the whole cohort's net had since the alert fired), a *)
(* score is final, and what is published is of the horizon (Scoring: one   *)
(* tick at a time scores rows that are due and open).  Of the samples, for *)
(* any wallets and cohorts: those of a day are of one cohort (IInv: a pass *)
(* begins on a day without samples), and the outcomes counted do not       *)
(* overlap (by induction over the days).                                   *)
(***************************************************************************)
EXTENDS Signals, Samples, FiniteSetTheorems, WellFoundedInduction, TLAPS

\* What is true of zero and goes from each number to the next is true of all.
LEMMA Induction ==
  ASSUME NEW T, 0 \in T, \A n \in Nat : n \in T => n + 1 \in T
  PROVE  Nat \subseteq T
<1> DEFINE R == {ss \in Nat \X Nat : ss[1] < ss[2]}
           U == Nat \ T
<1> SUFFICES ASSUME U # {} PROVE FALSE
  OBVIOUS
<1>1. IsWellFoundedOn(R, Nat)
  BY NatLessThanWellFounded DEF OpToRel
<1>2. PICK n \in U : \A m \in U : <<m, n>> \notin R
  <2>1. U \in SUBSET Nat
    OBVIOUS
  <2> HIDE DEF R, U
  <2> QED
    BY <1>1, <2>1, WFMin
<1>3. n # 0 /\ n - 1 \in Nat
  OBVIOUS
<1>4. n - 1 \notin U
  <2> SUFFICES ASSUME n - 1 \in U PROVE <<n - 1, n>> \in R
    BY <1>2
  <2>1. <<n - 1, n>> \in Nat \X Nat /\ <<n - 1, n>>[1] = n - 1 /\ <<n - 1, n>>[2] = n
    BY <1>3
  <2> QED
    BY <1>3, <2>1
<1>5. n - 1 \in T => n - 1 + 1 \in T
  BY <1>3
<1> QED
  BY <1>3, <1>4, <1>5

------------------------------------------------------------------------------
SignWas == sign \in Signs /\ (sign # 0 => sign \in was)

LEMMA SignOfTyped == ASSUME NEW n PROVE signOf(n) \in Signs
BY DEF signOf, Signs

\* What is seen at all is what the whole cohort holds.
LEMMA SeenIsNet ==
  ASSUME NEW look \in Looks
  PROVE  look.net \in Signs /\ (look.seen # None => look.seen = look.net)
<1> PICK pos \in [Wallets -> Signs], loaded \in SUBSET Wallets, known \in BOOLEAN :
        look = [seen |-> IF known THEN computeWhaleNet(pos, loaded) ELSE None,
                net |-> signOf(Total(pos, Wallets))]
  BY DEF Looks
<1>1. look.net = signOf(Total(pos, Wallets))
      /\ look.seen = IF known THEN computeWhaleNet(pos, loaded) ELSE None
  OBVIOUS
<1>2. look.seen # None => look.seen = signOf(Total(pos, Wallets))
  BY <1>1 DEF computeWhaleNet, aggregateByCoin
<1> QED
  BY <1>1, <1>2, SignOfTyped

\* A round of evaluation: the sign is kept or replaced by the net, and a flip
\* is from the stored sign to its opposite.
LEMMA EvaluateFlips ==
  ASSUME SignWas, NEW t \in Ticks, NEW look \in Looks,
         NEW refOk \in BOOLEAN, NEW other \in BOOLEAN, EvaluateAlerts(t, look, refOk, other)
  PROVE  /\ SignWas'
         /\ lastFired' # lastFired => net' = sign' /\ -net' \in was /\ net' # 0
<1> DEFINE now == ticks[t].now  fires == evalWhaleFlip(look.seen, now)
<1>1. /\ sign' = IF look.seen = None \/ cooling(now) THEN sign ELSE look.seen
      /\ lastFired' = IF fires THEN now ELSE lastFired
      /\ net' = IF fires THEN look.net ELSE net
      /\ was' = ((IF fires THEN {} ELSE was) \cup {look.net}) \ {0}
  BY DEF EvaluateAlerts
<1>2. look.net \in Signs /\ (look.seen # None => look.seen = look.net)
  BY SeenIsNet
<1>3. CASE fires
  <2>1. /\ look.seen # None /\ ~cooling(now) /\ look.seen * sign = -1
    BY <1>3 DEF evalWhaleFlip
  <2>2. sign' = look.net /\ look.net * sign = -1
    BY <1>1, <1>2, <2>1
  <2>3. sign # 0 /\ look.net # 0 /\ sign = -look.net
    BY <1>2, <2>2 DEF SignWas, Signs
  <2> QED
    BY <1>1, <1>2, <1>3, <2>2, <2>3 DEF SignWas
<1>4. CASE ~fires
  <2>1. lastFired' = lastFired /\ was' = (was \cup {look.net}) \ {0}
    BY <1>1, <1>4
  <2>2. sign' = sign \/ sign' = look.net
    BY <1>1, <1>2
  <2> QED
    BY <1>2, <2>1, <2>2 DEF SignWas
<1> QED
  BY <1>3, <1>4

\* A flip that is reported is a flip of the whole cohort: a wallet that failed
\* to load is never read as an exit (engine.ts:198-205).
THEOREM FlipGenuine == SignalSpec => FlipIsGenuine
<1> DEFINE Genuine == lastFired' # lastFired => net' = sign' /\ -net' \in was /\ net' # 0
<1>1. SignalInit => SignWas
  BY DEF SignalInit, SignWas, Signs
<1>2. ASSUME SignWas, [SignalNext]_signalVars PROVE SignWas' /\ [Genuine]_signalVars
  <2>1. CASE \E t \in Ticks : Loop(t)
    BY <1>2, <2>1, EvaluateFlips DEF Loop
  <2>2. CASE UNCHANGED <<sign, lastFired, was>>
    BY <1>2, <2>2 DEF SignWas
  <2> QED
    BY <1>2, <2>1, <2>2
       DEF SignalNext, signalVars, Start, BeginTick, ReadMarket, FailTick, EndTick, ScoreNext,
           TimePasses
<1>3. SignWas /\ [SignalNext]_signalVars => SignWas'
  BY <1>2
<1> QED
  BY <1>1, <1>2, <1>3, PTL DEF SignalSpec, FlipIsGenuine

\* A row as the table may hold it: what is published is of the horizon, what an
\* older version scored is of a market that its tick read.
RowOK(s) ==
    /\ s.source = None => s.pxAt = None
    /\ s.source = "live" =>
          s.refOk /\ s.pxAt \in dueAt(s) - MarketAge .. dueAt(s) + Tolerance + MaxRead
    /\ s.source = "historical" =>
          s.refOk /\ s.pxAt \in dueAt(s) - CandleReach .. dueAt(s) + CandleReach
    /\ s.source = "unset" =>
          /\ s.refOk /\ s.scoredAt \in Nat /\ dueAt(s) <= s.scoredAt
          /\ s.pxAt \in s.scoredAt - MarketAge .. s.scoredAt + MaxRead
    /\ up => s.source # "unset"

\* A tick scores alone, in a process that runs, rows that are due and open, at
\* market rows it read within MaxRead.
TickOK(t) ==
    /\ up
    /\ ticks[t].now <= clock
    /\ ticks[t].market = None => ticks[t].todo = {} /\ clock <= ticks[t].now + MaxRead
    /\ ticks[t].market # None =>
          ticks[t].market \in ticks[t].now - MarketAge .. ticks[t].now + MaxRead
    /\ \A i \in ticks[t].todo :
          /\ i \in DOMAIN signals
          /\ signals[i].source = None /\ dueAt(signals[i]) <= ticks[t].now

Scoring ==
    /\ SignalTypeOK
    /\ \A i \in DOMAIN signals : RowOK(signals[i])
    /\ \A t \in Ticks : ticks[t] # None => TickOK(t)
    /\ \A t, u \in Ticks : ticks[t] # None /\ ticks[u] # None => t = u

LEMMA SignalsFacts ==
  /\ Horizon \in Nat /\ Tolerance \in Nat /\ MaxLag \in Nat /\ LastSignal \in Nat
  /\ MaxSignals \in Nat /\ MaxSignals > 0 /\ Batch \in Nat /\ MaxTime \in Nat /\ LastSignal + Horizon + MaxLag < MaxTime
  /\ MarketAge \in Nat /\ MaxRead \in Nat /\ CandleReach \in Nat
  /\ Horizon + MaxLag + MaxRead <= MaxTime
  /\ None \notin Int /\ None \notin Nat /\ None \notin Tick /\ None \notin Sources /\ None # "unset"
BY SignalsAssumption, TimelineAssumption, NoSignalAssumption

LEMMA InitScoring == ASSUME SignalInit PROVE Scoring
<1> USE SignalsFacts DEF SignalInit
<1>1. signals \in Seq(Signal) /\ clock \in 0 .. MaxTime /\ \A i \in DOMAIN signals : RowOK(signals[i])
  <2>1. CASE signals = <<>> /\ clock = 0
    BY <2>1
  <2>2. ASSUME NEW at \in Horizon .. Horizon + MaxLag,
               NEW px \in at - MarketAge .. at + MaxRead,
               signals = <<OldRow(at, px)>>, clock = at + MaxRead
        PROVE  /\ signals \in Seq(Signal) /\ clock \in 0 .. MaxTime
               /\ \A i \in DOMAIN signals : RowOK(signals[i])
    <3>1. OldRow(at, px) \in Signal
      BY DEF OldRow, Signal
    <3>2. RowOK(OldRow(at, px))
      BY DEF OldRow, RowOK, dueAt
    <3> QED
      BY <2>2, <3>1, <3>2
  <2> QED
    BY <2>1, <2>2
<1>2. Len(signals) <= MaxSignals
  <2>1. CASE signals = <<>>
    BY <2>1
  <2>2. ASSUME NEW r, signals = <<r>> PROVE Len(signals) <= MaxSignals
    BY <2>2
  <2> QED
    BY <2>1, <2>2 DEF SignalInit
<1> QED
  BY <1>1, <1>2 DEF Scoring, SignalTypeOK, Signs

\* A restart scores nothing anew, it only names the source of an old score.
LEMMA StartKeeps == ASSUME Scoring, Start PROVE Scoring'
<1> USE SignalsFacts DEF Start
<1>1. ASSUME NEW s \in Signal, RowOK(s)
      PROVE  LET m == migrateScoreSource(s)
             IN  m \in Signal /\ RowOK(m)' /\ (s.source \in Sources => m = s)
  BY <1>1 DEF RowOK, migrateScoreSource, Signal, Sources, dueAt
<1>2. \A i \in DOMAIN signals : signals[i] \in Signal /\ RowOK(signals[i])
  BY DEF Scoring, SignalTypeOK
<1>3. DOMAIN signals = 1 .. Len(signals) /\ Len(signals) \in Nat
  BY DEF Scoring, SignalTypeOK
<1>4. signals' \in Seq(Signal) /\ Len(signals') = Len(signals) /\ DOMAIN signals' = DOMAIN signals
  BY <1>1, <1>2, <1>3
<1>5. \A i \in DOMAIN signals' : RowOK(signals[i])'
  BY <1>1, <1>2, <1>3
<1>6. SignalTypeOK'
  BY <1>4 DEF Scoring, SignalTypeOK
<1> QED
  BY <1>5, <1>6 DEF Scoring

\* A sequence of which one row is replaced.
LEMMA RowReplaced ==
  ASSUME NEW S, NEW s \in Seq(S), NEW i \in DOMAIN s, NEW r \in S,
         NEW t, t = [s EXCEPT ![i] = r]
  PROVE  /\ t \in Seq(S) /\ Len(t) = Len(s) /\ DOMAIN t = DOMAIN s
         /\ \A j \in DOMAIN s : t[j] = IF j = i THEN r ELSE s[j]
OBVIOUS

\* A round of evaluation only adds rows, and takes rows that are due.
LEMMA EvaluateKeeps ==
  ASSUME Scoring, NEW t \in Ticks, ticks[t] # None, ticks[t].market # None, NEW look \in Looks,
         NEW refOk \in BOOLEAN, NEW other \in BOOLEAN, EvaluateAlerts(t, look, refOk, other)
  PROVE  /\ Scoring'
         /\ \A i \in DOMAIN signals : signals'[i] = signals[i]
<1> DEFINE now == ticks[t].now
           fires == evalWhaleFlip(look.seen, now)
           new == (IF fires THEN 1 ELSE 0) + (IF other THEN 1 ELSE 0)
           row == newSignal(refOk, now)
           d == {i \in DOMAIN signals' : signals'[i].source = None /\ dueAt(signals'[i]) <= now}
           todo == dueForScoring(signals', now)
           market == ticks[t].market
<1> USE SignalsFacts
<1>1. /\ ticks[t] \in Tick /\ now \in Nat /\ now <= clock /\ up
      /\ \A u \in Ticks : ticks[u] # None => u = t
      /\ market \in Int /\ market # None /\ market \in now - MarketAge .. now + MaxRead
      /\ ticks[t] = [now |-> now, market |-> market, looked |-> ticks[t].looked,
                     todo |-> ticks[t].todo]
  BY DEF Scoring, SignalTypeOK, TickOK, Tick
<1>2. /\ new > 0 => Len(signals) + new <= MaxSignals
      /\ signals' = signals \o [i \in 1 .. new |-> row]
      /\ sign' = IF look.seen = None \/ cooling(now) THEN sign ELSE look.seen
      /\ lastFired' = IF fires THEN now ELSE lastFired
      /\ ticks' = [ticks EXCEPT ![t].looked = TRUE, ![t].todo = todo]
      /\ net' = IF fires THEN look.net ELSE net
      /\ was' = ((IF fires THEN {} ELSE was) \cup {look.net}) \ {0}
      /\ clock' = clock /\ up' = up
  BY DEF EvaluateAlerts
<1>3. new \in {0, 1, 2}
  OBVIOUS
<1>4. row \in Signal /\ RowOK(row)
  BY <1>1 DEF newSignal, Signal, RowOK, Sources
<1> HIDE DEF new, row
<1>5. /\ signals \in Seq(Signal) /\ signals' \in Seq(Signal)
      /\ Len(signals') = Len(signals) + new
      /\ \A i \in DOMAIN signals : i \in DOMAIN signals' /\ signals'[i] = signals[i]
      /\ \A i \in DOMAIN signals' : i \in DOMAIN signals \/ signals'[i] = row
  <2>1. signals \in Seq(Signal)
    BY DEF Scoring, SignalTypeOK
  <2> DEFINE q == [i \in 1 .. new |-> row]
  <2>2. q \in Seq(Signal) /\ Len(q) = new /\ \A i \in 1 .. new : q[i] = row
    BY <1>3, <1>4
  <2>3. signals' = signals \o q
    BY <1>2
  <2> HIDE DEF q
  <2>4. signals' \in Seq(Signal) /\ Len(signals') = Len(signals) + new
    <3>1. q \in Seq(Signal) /\ Len(q) = new
      BY <2>2
    <3>2. signals \o q \in Seq(Signal) /\ Len(signals \o q) = Len(signals) + Len(q)
      BY ONLY <2>1, <3>1
    <3> QED
      BY ONLY <2>3, <3>1, <3>2
  <2>5. ASSUME NEW i \in DOMAIN signals
        PROVE  i \in DOMAIN signals' /\ signals'[i] = signals[i]
    BY ONLY <2>1, <2>2, <2>3
  <2>6. ASSUME NEW i \in DOMAIN signals', i \notin DOMAIN signals
        PROVE  signals'[i] = row
    <3>1. i \in Nat /\ Len(signals) \in Nat /\ new \in Nat
          /\ i > Len(signals) /\ i <= Len(signals) + new
      BY ONLY <1>3, <2>1, <2>4, <2>6
    <3>2. i - Len(signals) \in 1 .. new /\ signals'[i] = q[i - Len(signals)]
      BY ONLY <2>1, <2>2, <2>3, <3>1
    <3> QED
      BY ONLY <2>2, <3>2
  <2> QED
    BY ONLY <2>1, <2>4, <2>5, <2>6
<1>6. Len(signals') <= MaxSignals
  <2>1. Len(signals) \in Nat /\ Len(signals) <= MaxSignals
    BY DEF Scoring, SignalTypeOK
  <2>2. new > 0 => Len(signals) + new <= MaxSignals
    BY <1>2
  <2>3. Len(signals') = Len(signals) + new
    BY <1>5
  <2> QED
    BY <1>3, <2>1, <2>2, <2>3
<1>7. \A i \in DOMAIN signals' : RowOK(signals[i])'
  <2>1. \A i \in DOMAIN signals' : RowOK(signals'[i])
    BY <1>4, <1>5 DEF Scoring
  <2> QED
    BY <1>2, <2>1 DEF RowOK
<1>8. todo \subseteq d
  BY DEF dueForScoring
<1>9. d \subseteq 1 .. MaxSignals
  BY <1>5, <1>6
<1> HIDE DEF todo
<1>10. /\ ticks' \in [Ticks -> Tick \cup {None}]
       /\ ticks'[t].now = now /\ ticks'[t].market = market /\ ticks'[t].todo = todo
       /\ \A u \in Ticks \ {t} : ticks'[u] = ticks[u]
  <2>1. ticks \in [Ticks -> Tick \cup {None}]
    BY DEF Scoring, SignalTypeOK
  <2>2. ticks' = [ticks EXCEPT ![t] = [ticks[t] EXCEPT !.looked = TRUE, !.todo = todo]]
    BY <1>2, <2>1
  <2>3. todo \in SUBSET (1 .. MaxSignals) /\ ticks[t] \in Tick
    BY <1>1, <1>8, <1>9
  <2> DEFINE k == [ticks[t] EXCEPT !.looked = TRUE, !.todo = todo]
  <2>4. k \in Tick /\ k.now = now /\ k.market = market /\ k.todo = todo
    BY <2>3 DEF Tick
  <2> HIDE DEF k, now, market
  <2> QED
    BY <2>1, <2>2, <2>4 DEF k
<1>11. SignalTypeOK'
  <2>1. sign' \in Signs /\ net' \in Signs /\ was' \subseteq Signs
    BY <1>2, SeenIsNet DEF Scoring, SignalTypeOK
  <2>2. lastFired' \in Nat \cup {None}
    BY <1>1, <1>2 DEF Scoring, SignalTypeOK
  <2> QED
    BY <1>2, <1>5, <1>6, <1>10, <2>1, <2>2 DEF Scoring, SignalTypeOK
<1>12. TickOK(t)'
  <2>1. \A i \in todo : i \in DOMAIN signals' /\ signals'[i].source = None
                        /\ signals'[i].ts + Horizon <= now
    BY <1>8 DEF dueAt
  <2>2. ticks'[t].now = now /\ ticks'[t].todo = todo /\ ticks'[t].market = market
    BY <1>10
  <2> HIDE DEF now, market
  <2> QED
    BY <1>1, <1>2, <2>1, <2>2 DEF TickOK, dueAt
<1>13. \A u \in Ticks : ticks'[u] # None => u = t
  BY <1>1, <1>10
<1> QED
  BY <1>5, <1>7, <1>11, <1>12, <1>13 DEF Scoring

\* One round of scoring leaves a row as the table may hold it.
LEMMA RowScored ==
  ASSUME Scoring, NEW s \in Signal, RowOK(s), s.source = None,
         NEW k \in Tick, dueAt(s) <= k.now, k.market # None,
         k.market \in k.now - MarketAge .. k.now + MaxRead,
         NEW px \in pricedAt(s, k) \cup {None}
  PROVE  scoreDueSignal(s, k.now, px) \in Signal /\ RowOK(scoreDueSignal(s, k.now, px))
<1> USE SignalsFacts
<1>1. markStale(s) \in Signal /\ RowOK(markStale(s))
  BY DEF markStale, Signal, RowOK, Sources
<1>2. dueAt(s) \in Nat /\ k.now \in Nat /\ k.market \in Int
  BY DEF dueAt, Signal, Tick
<1>3. px # None => setScore(s, k.now, px) \in Signal /\ (s.refOk => RowOK(setScore(s, k.now, px)))
  <2> SUFFICES ASSUME px \in pricedAt(s, k)
               PROVE  /\ setScore(s, k.now, px) \in Signal
                      /\ s.refOk => RowOK(setScore(s, k.now, px))
    OBVIOUS
  <2> DEFINE r == setScore(s, k.now, px)
  <2>1. /\ px \in Int
        /\ inTime(s, k.now) => px \in dueAt(s) - MarketAge .. dueAt(s) + Tolerance + MaxRead
        /\ ~inTime(s, k.now) => px \in dueAt(s) - CandleReach .. dueAt(s) + CandleReach
    BY <1>2 DEF pricedAt, inTime
  <2>2. /\ r \in Signal /\ r.ts = s.ts /\ r.refOk = s.refOk /\ r.pxAt = px
        /\ r.source = IF inTime(s, k.now) THEN "live" ELSE "historical"
    BY <2>1 DEF setScore, Signal, Sources
  <2> HIDE DEF r
  <2>3. dueAt(r) = dueAt(s)
    BY <2>2 DEF dueAt
  <2>4. s.refOk => RowOK(r)
    <3>1. CASE inTime(s, k.now)
      BY <2>1, <2>2, <2>3, <3>1 DEF RowOK
    <3>2. CASE ~inTime(s, k.now)
      BY <2>1, <2>2, <2>3, <3>2 DEF RowOK
    <3> QED
      BY <3>1, <3>2
  <2> QED
    BY <2>2, <2>4 DEF r
<1> QED
  BY <1>1, <1>3 DEF scoreDueSignal

\* What the tick scores was open: its rows are its own.
LEMMA ScoreKeeps ==
  ASSUME Scoring, NEW t \in Ticks, ScoreNext(t)
  PROVE  /\ Scoring'
         /\ \A i \in DOMAIN signals : signals[i].source \in Sources => signals'[i] = signals[i]
<1> USE SignalsFacts
<1> DEFINE now == ticks[t].now
<1>1. /\ ticks[t] # None /\ ticks[t] \in Tick /\ TickOK(t)
      /\ \A u \in Ticks : ticks[u] # None => u = t
  <2>1. ticks[t] # None
    BY DEF ScoreNext
  <2>2. ticks \in [Ticks -> Tick \cup {None}]
    BY DEF Scoring, SignalTypeOK
  <2>3. TickOK(t) /\ \A u \in Ticks : ticks[u] # None => u = t
    BY <2>1 DEF Scoring
  <2> QED
    BY ONLY <2>1, <2>2, <2>3
<1>2. PICK i \in ticks[t].todo :
        /\ \E px \in pricedAt(signals[i], ticks[t]) \cup {None} :
              signals' = [signals EXCEPT ![i] = scoreDueSignal(@, now, px)]
        /\ ticks' = [ticks EXCEPT ![t].todo = @ \ {i}]
  BY DEF ScoreNext
<1>3. /\ i \in DOMAIN signals /\ signals[i].source = None /\ dueAt(signals[i]) <= now
      /\ now \in Nat /\ signals \in Seq(Signal) /\ signals[i] \in Signal /\ RowOK(signals[i])
      /\ ticks[t].market # None
      /\ ticks[t].market \in now - MarketAge .. now + MaxRead
  BY <1>1 DEF TickOK, Tick, Scoring, SignalTypeOK
<1> PICK px \in pricedAt(signals[i], ticks[t]) \cup {None} :
        signals' = [signals EXCEPT ![i] = scoreDueSignal(@, now, px)]
  BY <1>2
<1> DEFINE row == scoreDueSignal(signals[i], now, px)
           market == ticks[t].market
<1>4. row \in Signal /\ RowOK(row)
  BY <1>1, <1>3, RowScored
<1>5. signals' = [signals EXCEPT ![i] = row]
  BY <1>2
<1>6. /\ ticks'[t].now = now /\ ticks'[t].market = market
      /\ ticks'[t].todo = ticks[t].todo \ {i}
      /\ ticks' \in [Ticks -> Tick \cup {None}] /\ \A u \in Ticks \ {t} : ticks'[u] = ticks[u]
  <2>1. ticks \in [Ticks -> Tick \cup {None}] /\ ticks[t] \in Tick
    BY <1>1 DEF Scoring, SignalTypeOK
  <2>2. ticks' = [ticks EXCEPT ![t] = [ticks[t] EXCEPT !.todo = ticks[t].todo \ {i}]]
    BY <1>2, <2>1
  <2> DEFINE k == [ticks[t] EXCEPT !.todo = ticks[t].todo \ {i}]
  <2>3. k \in Tick /\ k.now = now /\ k.market = market /\ k.todo = ticks[t].todo \ {i}
    BY <2>1 DEF Tick
  <2> HIDE DEF k, now, market
  <2> QED
    BY <2>1, <2>2, <2>3 DEF k
<1> HIDE DEF row, now, market
<1>7. /\ signals' \in Seq(Signal) /\ Len(signals') = Len(signals)
      /\ DOMAIN signals' = DOMAIN signals
      /\ \A j \in DOMAIN signals : signals'[j] = IF j = i THEN row ELSE signals[j]
  <2>1. signals \in Seq(Signal) /\ i \in DOMAIN signals /\ row \in Signal
    BY <1>3, <1>4
  <2> QED
    BY <1>5, <2>1, RowReplaced
<1>8. up' = up /\ clock' = clock /\ UNCHANGED <<sign, lastFired, net, was>>
  BY DEF ScoreNext
<1>9. \A j \in DOMAIN signals' : RowOK(signals[j])'
  <2>1. \A j \in DOMAIN signals' : RowOK(signals'[j])
    BY <1>4, <1>7 DEF Scoring
  <2> QED
    BY <1>8, <2>1 DEF RowOK
<1>10. TickOK(t)'
  <2>1. /\ ticks'[t].now = ticks[t].now /\ ticks'[t].market = ticks[t].market
        /\ ticks'[t].todo = ticks[t].todo \ {i}
    BY <1>6 DEF now, market
  <2>2. \A j \in ticks[t].todo \ {i} :
          /\ j \in DOMAIN signals' /\ signals'[j].source = None
          /\ signals'[j].ts + Horizon <= ticks[t].now
    BY <1>1, <1>7 DEF TickOK, dueAt
  <2> QED
    BY <1>1, <1>3, <1>8, <2>1, <2>2 DEF TickOK, dueAt
<1>11. SignalTypeOK'
  BY <1>6, <1>7, <1>8 DEF Scoring, SignalTypeOK
<1>12. \A j \in DOMAIN signals : signals[j].source \in Sources => signals'[j] = signals[j]
  BY <1>3, <1>7
<1>13. \A u \in Ticks : ticks'[u] # None => u = t
  BY <1>1, <1>6
<1> QED
  BY <1>9, <1>10, <1>11, <1>12, <1>13 DEF Scoring

\* A tick begins, reads the market or ends, or time passes.
LEMMA TickKeeps ==
  ASSUME Scoring,
         \/ TimePasses
         \/ \E t \in Ticks : BeginTick(t) \/ ReadMarket(t) \/ FailTick(t) \/ EndTick(t)
  PROVE  Scoring' /\ signals' = signals
<1> USE SignalsFacts
<1>1. /\ UNCHANGED <<signals, sign, lastFired, up, net, was>>
      /\ clock' \in 0 .. MaxTime /\ clock <= clock' /\ clock \in Nat
  BY DEF TimePasses, BeginTick, ReadMarket, FailTick, EndTick, Scoring, SignalTypeOK
<1>2. /\ ticks' \in [Ticks -> Tick \cup {None}]
      /\ \A u \in Ticks : ticks'[u] # None =>
            \/ ticks'[u] = ticks[u]
            \/ /\ ticks[u] # None /\ ticks[u].market = None
               /\ \E at \in clock - MarketAge .. clock :
                     ticks'[u] = [ticks[u] EXCEPT !.market = at]
            \/ /\ ticks'[u] = started /\ up
               /\ \A v \in Ticks : ticks[v] = None /\ (v # u => ticks'[v] = None)
  <2>1. ticks \in [Ticks -> Tick \cup {None}]
    BY DEF Scoring, SignalTypeOK
  <2>2. started \in Tick
    BY <1>1 DEF Tick, started
  <2>3. CASE TimePasses
    BY <2>1, <2>3 DEF TimePasses
  <2>4. ASSUME NEW t \in Ticks, BeginTick(t)
        PROVE  <1>2!2 /\ ticks' \in [Ticks -> Tick \cup {None}]
    BY <2>1, <2>2, <2>4 DEF BeginTick
  <2>5. ASSUME NEW t \in Ticks, FailTick(t) \/ EndTick(t) PROVE ticks' = [ticks EXCEPT ![t] = None]
    BY <2>5 DEF FailTick, EndTick
  <2>6. ASSUME NEW t \in Ticks, ReadMarket(t)
        PROVE  <1>2!2 /\ ticks' \in [Ticks -> Tick \cup {None}]
    <3>1. PICK at \in clock - MarketAge .. clock : ticks' = [ticks EXCEPT ![t].market = at]
      BY <2>6 DEF ReadMarket
    <3>2. ticks[t] # None /\ ticks[t] \in Tick /\ ticks[t].market = None
      BY <2>1, <2>6 DEF ReadMarket
    <3>3. ticks' = [ticks EXCEPT ![t] = [ticks[t] EXCEPT !.market = at]]
      BY <2>1, <3>1
    <3>4. [ticks[t] EXCEPT !.market = at] \in Tick
      BY <1>1, <3>2 DEF Tick
    <3> QED
      BY <2>1, <3>2, <3>3, <3>4
  <2> QED
    BY <2>1, <2>3, <2>4, <2>5, <2>6
<1>3. SignalTypeOK'
  BY <1>1, <1>2 DEF Scoring, SignalTypeOK
<1>4. \A i \in DOMAIN signals : RowOK(signals[i])'
  BY <1>1 DEF Scoring, RowOK, dueAt
<1>5. ASSUME NEW u \in Ticks, ticks'[u] # None PROVE TickOK(u)'
  <2>1. CASE ticks'[u] = ticks[u]
    <3>1. TickOK(u) /\ ticks[u] \in Tick
      BY <1>5, <2>1 DEF Scoring, SignalTypeOK
    <3>2. ticks[u].now \in Nat
      BY <3>1 DEF Tick
    <3>3. ticks[u].market = None => clock' <= ticks[u].now + MaxRead
      <4>1. CASE TimePasses
        BY <1>1, <1>5, <2>1, <3>2, <4>1 DEF TimePasses
      <4>2. CASE clock' = clock
        BY <3>1, <4>2 DEF TickOK
      <4> QED
        BY <4>1, <4>2 DEF BeginTick, ReadMarket, FailTick, EndTick
    <3> QED
      BY <1>1, <2>1, <3>1, <3>2, <3>3 DEF TickOK, dueAt
  <2>2. CASE ticks'[u] = started /\ up
    <3>1. ticks'[u].now = clock /\ ticks'[u].market = None /\ ticks'[u].todo = {}
      BY <2>2 DEF started
    <3>2. clock' <= clock + MaxRead
      <4>1. CASE TimePasses
        BY <1>1, <1>5, <3>1, <4>1 DEF TimePasses
      <4>2. CASE clock' = clock
        BY <1>1, <4>2
      <4> QED
        BY <4>1, <4>2 DEF BeginTick, ReadMarket, FailTick, EndTick
    <3>3. ticks'[u].now <= clock' /\ up'
      BY <1>1, <2>2, <3>1
    <3> QED
      BY <3>1, <3>2, <3>3 DEF TickOK
  <2>3. ASSUME ticks[u] # None, ticks[u].market = None,
               NEW at \in clock - MarketAge .. clock,
               ticks'[u] = [ticks[u] EXCEPT !.market = at]
        PROVE  TickOK(u)'
    <3>1. TickOK(u) /\ ticks[u] \in Tick
      BY <2>3 DEF Scoring, SignalTypeOK
    <3>2. /\ ticks'[u].now = ticks[u].now /\ ticks'[u].todo = ticks[u].todo
          /\ ticks'[u].market = at /\ ticks[u].now \in Nat
      BY <2>3, <3>1 DEF Tick
    <3> QED
      BY <1>1, <2>3, <3>1, <3>2 DEF TickOK
  <2> QED
    BY <1>2, <1>5, <2>1, <2>2, <2>3
<1>6. \A u, v \in Ticks : ticks'[u] # None /\ ticks'[v] # None => u = v
  BY <1>2 DEF Scoring
<1> QED
  BY <1>1, <1>3, <1>4, <1>5, <1>6 DEF Scoring

LEMMA SignalNextKeeps ==
  ASSUME Scoring, [SignalNext]_signalVars
  PROVE  /\ Scoring'
         /\ \A i \in DOMAIN signals : signals[i].source \in Sources => signals'[i] = signals[i]
<1>1. CASE UNCHANGED signalVars
  BY <1>1 DEF signalVars, Scoring, SignalTypeOK, RowOK, TickOK, dueAt
<1>2. CASE Start
  BY <1>2, StartKeeps DEF Start, migrateScoreSource, Sources
<1>3. CASE TimePasses \/ \E t \in Ticks : BeginTick(t) \/ ReadMarket(t) \/ FailTick(t) \/ EndTick(t)
  BY <1>3, TickKeeps
<1>4. CASE \E t \in Ticks : Loop(t)
  BY <1>4, EvaluateKeeps DEF Loop
<1>5. CASE \E t \in Ticks : ScoreNext(t)
  BY <1>5, ScoreKeeps
<1> QED
  BY <1>1, <1>2, <1>3, <1>4, <1>5 DEF SignalNext

LEMMA ScoringMeansHorizon == Scoring => ReturnsAreAtTheHorizon
<1> SUFFICES ASSUME Scoring, up, NEW i \in trackRecord
             PROVE  LET s == signals[i]
                    IN  /\ s.refOk
                        /\ s.source = "live" =>
                              s.pxAt \in dueAt(s) - MarketAge .. dueAt(s) + Tolerance + MaxRead
                        /\ s.source # "live" =>
                              s.pxAt \in dueAt(s) - CandleReach .. dueAt(s) + CandleReach
  BY DEF ReturnsAreAtTheHorizon
<1>1. i \in DOMAIN signals /\ signals[i].pxAt # None /\ signals[i].source # "stale"
  BY DEF trackRecord
<1>2. RowOK(signals[i]) /\ signals[i] \in Signal
  BY <1>1 DEF Scoring, SignalTypeOK
<1>3. signals[i].source \in {"live", "historical"}
  BY <1>1, <1>2 DEF RowOK, Signal, Sources
<1> QED
  BY <1>2, <1>3 DEF RowOK

\* The table, the alert and the ticks in progress keep their types.
THEOREM SignalsTyped == SignalSpec => []SignalTypeOK
<1>1. SignalInit => Scoring
  BY InitScoring
<1>2. Scoring /\ [SignalNext]_signalVars => Scoring'
  BY SignalNextKeeps
<1>3. Scoring => SignalTypeOK
  BY DEF Scoring
<1> QED
  BY <1>1, <1>2, <1>3, PTL DEF SignalSpec

\* A published return is of the horizon of its signal: a live one of a market
\* read by a tick that began in time, any other of a candle within its reach,
\* after any outage and for the rows of an older version too (signalStore.ts:10-18).
THEOREM AtTheHorizon == SignalSpec => []ReturnsAreAtTheHorizon
<1>1. SignalInit => Scoring
  BY InitScoring
<1>2. Scoring /\ [SignalNext]_signalVars => Scoring'
  BY SignalNextKeeps
<1> QED
  BY <1>1, <1>2, ScoringMeansHorizon, PTL DEF SignalSpec

\* A signal is scored, or given up, once, whatever ticks and crashes do
\* afterwards (engine.ts:124-126).
THEOREM ScoreIsFinal == SignalSpec => ScoredOnce
<1> DEFINE Final == \A i \in DOMAIN signals : signals[i].source \in Sources => signals'[i] = signals[i]
<1>1. SignalInit => Scoring
  BY InitScoring
<1>2. Scoring /\ [SignalNext]_signalVars => Scoring' /\ [Final]_signalVars
  BY SignalNextKeeps
<1> QED
  BY <1>1, <1>2, PTL DEF SignalSpec, ScoredOnce

------------------------------------------------------------------------------
DueSampled ==
    due # None => due \in Seq(Keys) /\ \A i \in DOMAIN due : samples[due[i]] # None

IInv ==
    /\ samples \in [Keys -> Sample \cup {None}]
    /\ sampledFrom = [d \in Days |-> sampledFrom[d]]
    /\ pass # None => pass = [day |-> pass.day, left |-> pass.left, cohort |-> pass.cohort]
    /\ DueSampled
    /\ \A d \in Days :
          /\ sampledFrom[d] # {} => hasSampleForDay(d)
          /\ pass # None /\ pass.day = d => sampledFrom[d] \subseteq {pass.cohort}
          /\ \A x, y \in sampledFrom[d] : x = y

LEMMA InitIInv == Init => IInv
BY DEF Init, IInv, DueSampled

\* Samples are never lost.
LEMMA SamplesStay ==
  ASSUME IInv, samples' \in [Keys -> Sample \cup {None}],
         \A k \in Keys : samples[k] # None => samples'[k] # None,
         UNCHANGED sampledFrom,
         DueSampled',
         \/ pass' = pass
         \/ pass' = None
         \/ /\ pass' = [day |-> pass'.day, left |-> pass'.left, cohort |-> pass'.cohort]
            /\ ~hasSampleForDay(pass'.day)
  PROVE  IInv'
<1>1. \A d \in Days : hasSampleForDay(d) => hasSampleForDay(d)'
  BY DEF hasSampleForDay, Keys
<1>2. ASSUME NEW d \in Days
      PROVE  /\ sampledFrom[d] # {} => hasSampleForDay(d)'
             /\ pass' # None /\ pass'.day = d => sampledFrom[d] \subseteq {pass'.cohort}
             /\ \A x, y \in sampledFrom[d] : x = y
  BY <1>1 DEF IInv
<1> QED
  BY <1>2 DEF IInv

LEMMA ChunkKeeps ==
  ASSUME IInv, NEW ok \in SUBSET Wallets, SampleChunk(ok)
  PROVE  IInv'
<1> USE DEF SampleChunk
<1> DEFINE new == {recordKey(pass, w) : w \in ToSet(upTo(pass.left, Chunk)) \cap ok}
           row == [attempts |-> 0, resolved |-> FALSE]
<1>1. row \in Sample /\ row # None
  <2>1. row \in Sample
    BY SamplesAssumption DEF Sample
  <2> HIDE DEF row
  <2> QED
    BY <2>1, NoneAssumption
<1>2. /\ samples' = [k \in Keys |-> IF k \in new /\ samples[k] = None THEN row ELSE samples[k]]
      /\ \A k \in new : k[2] = pass.day /\ \E w \in Wallets : k = <<w, pass.day>>
  BY DEF recordKey
<1> HIDE DEF row, new
<1>3. samples' \in [Keys -> Sample \cup {None}]
      /\ \A k \in Keys : samples[k] # None => samples'[k] # None
  BY <1>1, <1>2 DEF IInv
<1>4. DueSampled'
  BY <1>3 DEF IInv, DueSampled
<1>5. \A d \in Days : hasSampleForDay(d) => hasSampleForDay(d)'
  BY <1>3 DEF hasSampleForDay, Keys
<1>6. /\ pass # None /\ (pass' # None => pass'.day = pass.day /\ pass'.cohort = pass.cohort)
      /\ sampledFrom' = [d \in Days |->
            IF \E k \in new : k[2] = d /\ samples[k] = None
            THEN sampledFrom[d] \cup {pass.cohort} ELSE sampledFrom[d]]
  BY DEF new
<1>7. ASSUME NEW d \in Days, sampledFrom'[d] # sampledFrom[d]
      PROVE  hasSampleForDay(d)' /\ d = pass.day /\ sampledFrom'[d] = sampledFrom[d] \cup {pass.cohort}
  <2>1. PICK k \in new : k[2] = d /\ samples[k] = None
    BY <1>6, <1>7
  <2>2. PICK w \in Wallets : k = <<w, d>>
    BY <1>2, <2>1
  <2>3. k \in Keys /\ samples'[k] # None
    <3>1. k \in Keys
      BY <2>2 DEF Keys
    <3> QED
      BY <1>1, <1>2, <2>1, <3>1
  <2> QED
    BY <1>2, <1>6, <1>7, <2>1, <2>2, <2>3 DEF hasSampleForDay
<1>8. ASSUME NEW d \in Days
      PROVE  /\ sampledFrom'[d] # {} => hasSampleForDay(d)'
             /\ pass' # None /\ pass'.day = d => sampledFrom'[d] \subseteq {pass'.cohort}
             /\ \A x, y \in sampledFrom'[d] : x = y
  <2>1. CASE sampledFrom'[d] = sampledFrom[d]
    BY <1>5, <1>6, <2>1 DEF IInv
  <2>2. CASE sampledFrom'[d] # sampledFrom[d]
    <3>1. sampledFrom[d] \subseteq {pass.cohort}
      BY <1>6, <1>7, <2>2 DEF IInv
    <3> QED
      BY <1>6, <1>7, <2>2, <3>1
  <2> QED
    BY <2>1, <2>2
<1>9. pass' # None => pass' = [day |-> pass'.day, left |-> pass'.left, cohort |-> pass'.cohort]
  BY <1>6 DEF IInv
<1> QED
  BY <1>3, <1>4, <1>6, <1>8, <1>9 DEF IInv

\* A batch names samples.
LEMMA BatchSampled ==
  ASSUME NEW q \in Batches
  PROVE  q \in Seq(Keys) /\ \A i \in DOMAIN q : samples[q[i]] # None
<1> DEFINE open == {k \in Keys : isDue(k)}
           n == IF Cardinality(open) < Limit THEN Cardinality(open) ELSE Limit
<1>1. IsFiniteSet(Days)
  BY SamplesAssumption, FS_Interval DEF Days
<1>2. IsFiniteSet(Keys)
  BY <1>1, SamplesAssumption, FS_Product DEF Keys
<1>3. n \in Nat
  BY <1>2, SamplesAssumption, FS_Subset, FS_CardinalityType
<1>4. q \in [1 .. n -> open]
  BY DEF Batches
<1> HIDE DEF n
<1> QED
  BY <1>3, <1>4 DEF isDue, unresolved

LEMMA ResolveKeeps ==
  ASSUME IInv, NEW ok \in BOOLEAN, Resolve(ok)
  PROVE  IInv'
<1> USE DEF Resolve
<1> DEFINE k == Head(due)
           row == IF ok THEN setOutcome(samples[k]) ELSE markAttempt(samples[k])
<1>1. due \in Seq(Keys) /\ due # <<>> /\ \A i \in DOMAIN due : samples[due[i]] # None
  BY DEF IInv, DueSampled
<1>2. k \in Keys /\ samples[k] \in Sample
  <2>1. 1 \in DOMAIN due /\ k = due[1]
    BY <1>1
  <2> QED
    BY <1>1, <2>1 DEF IInv
<1>3. row \in Sample
  <2>1. setOutcome(samples[k]) \in Sample
    BY <1>2 DEF Sample, setOutcome
  <2>2. samples[k].attempts \in 0 .. MaxAttempts /\ MaxAttempts \in Nat
    BY <1>2, SamplesAssumption DEF Sample
  <2>3. ASSUME NEW n \in 0 .. MaxAttempts
        PROVE  [samples[k] EXCEPT !.attempts = n] \in Sample
    BY <1>2 DEF Sample
  <2>4. (IF samples[k].attempts < MaxAttempts THEN samples[k].attempts + 1
         ELSE samples[k].attempts) \in 0 .. MaxAttempts
    BY <2>2
  <2>5. markAttempt(samples[k]) \in Sample
    BY <2>3, <2>4 DEF markAttempt
  <2> QED
    BY <2>1, <2>5
<1>4. samples' = [samples EXCEPT ![k] = row]
  OBVIOUS
<1> HIDE DEF row
<1>5. samples' \in [Keys -> Sample \cup {None}]
      /\ \A l \in Keys : samples[l] # None => samples'[l] # None
  BY <1>2, <1>3, <1>4, NoneAssumption DEF IInv
<1>6. DueSampled'
  <2>1. Tail(due) \in Seq(Keys)
        /\ \A i \in DOMAIN Tail(due) : i + 1 \in DOMAIN due /\ Tail(due)[i] = due[i + 1]
    BY <1>1
  <2>2. \A i \in DOMAIN due : due[i] \in Keys
    BY <1>1
  <2> QED
    BY <1>1, <1>5, <2>1, <2>2 DEF DueSampled
<1> QED
  BY <1>5, <1>6, SamplesStay

LEMMA NextKeeps == ASSUME IInv, [Next]_vars PROVE IInv'
<1>1. CASE UNCHANGED sampleVars
  BY <1>1, SamplesStay DEF sampleVars, IInv, DueSampled
<1>2. ASSUME NEW rows, BeginPass(rows) PROVE IInv'
  <2>1. UNCHANGED <<samples, sampledFrom, due>> /\ ~hasSampleForDay(pass'.day)
        /\ pass' = [day |-> pass'.day, left |-> pass'.left, cohort |-> pass'.cohort]
    BY <1>2 DEF BeginPass
  <2>2. DueSampled'
    BY <2>1 DEF IInv, DueSampled
  <2> QED
    BY <2>1, <2>2, SamplesStay DEF IInv
<1>3. CASE \E ok \in SUBSET Wallets : SampleChunk(ok)
  BY <1>3, ChunkKeeps
<1>4. CASE BeginResolve \/ EndResolve \/ Restart
  <2>1. UNCHANGED <<samples, sampledFrom>> /\ (pass' = pass \/ pass' = None)
    BY <1>4 DEF BeginResolve, EndResolve, Restart
  <2>2. DueSampled'
    <3>1. CASE BeginResolve
      BY <2>1, <3>1, BatchSampled DEF BeginResolve, DueSampled
    <3>2. CASE EndResolve \/ Restart
      BY <2>1, <3>2 DEF EndResolve, Restart, DueSampled
    <3> QED
      BY <1>4, <3>1, <3>2
  <2> QED
    BY <2>1, <2>2, SamplesStay DEF IInv
<1>5. CASE \E ok \in BOOLEAN : Resolve(ok)
  BY <1>5, ResolveKeeps
<1> QED
  BY <1>1, <1>2, <1>3, <1>4, <1>5 DEF Next, vars, Advance

\* All samples of a day are of one cohort, whatever cohorts are resolved and
\* wherever the server is restarted (scoreStore.ts:148-154).
THEOREM OneCohort == Spec => []OneCohortADay
<1>1. Init => IInv
  BY InitIInv
<1>2. IInv /\ [Next]_vars => IInv'
  BY NextKeeps
<1>3. IInv => OneCohortADay
  <2> SUFFICES ASSUME IInv, NEW d \in Days PROVE Cardinality(sampledFrom[d]) <= 1
    BY DEF OneCohortADay
  <2>1. CASE sampledFrom[d] = {}
    <3>1. Cardinality(sampledFrom[d]) = 0
      BY <2>1, FS_EmptySet
    <3> QED
      BY <3>1
  <2>2. CASE sampledFrom[d] # {}
    <3>1. PICK x \in sampledFrom[d] : sampledFrom[d] = {x}
      BY <2>2 DEF IInv
    <3>2. Cardinality(sampledFrom[d]) = 1
      BY <3>1, FS_Singleton
    <3> QED
      BY <3>2
  <2> QED
    BY <2>1, <2>2
<1> QED
  BY <1>1, <1>2, <1>3, PTL DEF Spec

------------------------------------------------------------------------------
\* The recursion of `outcomes`, one day of it.
keepUpTo(w, k, d) ==
    IF d = -1 THEN {}
    ELSE IF isResolved(w, d) /\ ~overlaps(d, k[d - 1]) THEN k[d - 1] \cup {d} ELSE k[d - 1]

kept(w) == CHOOSE k : k = [d \in -1 .. LastSample |-> keepUpTo(w, k, d)]

\* The recursion defines a function.
LEMMA KeptExists ==
  ASSUME NEW w \in Wallets
  PROVE  kept(w) = [d \in -1 .. LastSample |-> keepUpTo(w, kept(w), d)]
<1> DEFINE Q(n) == \A m \in Int : m = n - 1 => \E k : k = [d \in -1 .. m |-> keepUpTo(w, k, d)]
           T == {n \in Nat : Q(n)}
<1>1. Q(0)
  <2> DEFINE k == [d \in -1 .. -1 |-> {}]
  <2>1. \A d \in -1 .. -1 : keepUpTo(w, k, d) = {}
    BY DEF keepUpTo
  <2>2. k = [d \in -1 .. -1 |-> keepUpTo(w, k, d)]
    BY <2>1
  <2>3. -1 \in Int /\ 0 - 1 = -1
    OBVIOUS
  <2> HIDE DEF k
  <2> QED
    BY <2>2, <2>3
<1>2. ASSUME NEW n \in Nat, Q(n) PROVE Q(n + 1)
  <2>1. PICK k : k = [d \in -1 .. n - 1 |-> keepUpTo(w, k, d)]
    <3>1. n - 1 \in Int
      OBVIOUS
    <3> QED
      BY <1>2, <3>1
  <2> DEFINE j == [d \in -1 .. n |-> IF d = n THEN keepUpTo(w, k, n) ELSE k[d]]
  <2>2. \A d \in -1 .. n : d # -1 => j[d - 1] = k[d - 1]
    OBVIOUS
  <2>3. ASSUME NEW d \in -1 .. n PROVE keepUpTo(w, j, d) = keepUpTo(w, k, d)
    <3>1. CASE d = -1
      BY <3>1 DEF keepUpTo
    <3>2. CASE d # -1
      <4>1. j[d - 1] = k[d - 1]
        BY <2>2, <3>2
      <4> HIDE DEF j
      <4> QED
        BY <3>2, <4>1 DEF keepUpTo
    <3> QED
      BY <3>1, <3>2
  <2>4. \A d \in -1 .. n : j[d] = keepUpTo(w, k, d)
    BY <2>1
  <2> HIDE DEF j
  <2>5. j = [d \in -1 .. n |-> keepUpTo(w, k, d)]
    BY <2>4 DEF j
  <2>6. j = [d \in -1 .. n |-> keepUpTo(w, j, d)]
    BY <2>3, <2>5
  <2>7. n + 1 - 1 = n
    OBVIOUS
  <2> QED
    BY <2>6, <2>7
<1>3. \A n \in Nat : Q(n)
  <2> HIDE DEF Q
  <2>1. 0 \in T /\ \A n \in Nat : n \in T => n + 1 \in T
    BY <1>1, <1>2
  <2>2. Nat \subseteq T
    <3> HIDE DEF T
    <3> QED
      BY <2>1, Induction
  <2> QED
    BY <2>2
<1> HIDE DEF Q
<1>4. Q(LastSample + 1) /\ LastSample + 1 - 1 = LastSample
  BY <1>3, SamplesAssumption
<1>5. \E k : k = [d \in -1 .. LastSample |-> keepUpTo(w, k, d)]
  <2>1. LastSample \in Int
    BY SamplesAssumption
  <2> QED
    BY <1>4, <2>1 DEF Q
<1> HIDE DEF keepUpTo
<1> QED
  BY <1>5 DEF kept

\* What is kept up to a day does not overlap, and covers each sample resolved.
LEMMA KeptUpTo ==
  ASSUME NEW w \in Wallets, NEW n \in Nat, n <= LastSample
  PROVE  /\ kept(w)[n] \subseteq 0 .. n
         /\ \A d, e \in kept(w)[n] : d < e => d + Window <= e
         /\ \A d \in 0 .. n : isResolved(w, d) => \E e \in kept(w)[n] : e <= d /\ d < e + Window
<1> DEFINE k == kept(w)
           Q(i) == i <= LastSample + 1 =>
               /\ k[i - 1] \subseteq 0 .. i - 1
               /\ \A d, e \in k[i - 1] : d < e => d + Window <= e
               /\ \A d \in 0 .. i - 1 : isResolved(w, d) => \E e \in k[i - 1] : e <= d /\ d < e + Window
           T == {i \in Nat : Q(i)}
<1>0. LastSample \in Nat /\ Window \in Nat /\ Window > 0
  BY SamplesAssumption
<1>1. ASSUME NEW d \in -1 .. LastSample PROVE k[d] = keepUpTo(w, k, d)
  <2>1. k = [e \in -1 .. LastSample |-> keepUpTo(w, k, e)]
    BY KeptExists
  <2> HIDE DEF k
  <2> QED
    BY <2>1
<1> HIDE DEF k
<1>2. Q(0)
  <2>1. -1 \in -1 .. LastSample /\ 0 - 1 = -1
    BY <1>0
  <2>2. k[-1] = {}
    BY <1>1, <2>1 DEF keepUpTo
  <2> QED
    BY <2>1, <2>2
<1>3. ASSUME NEW i \in Nat, Q(i) PROVE Q(i + 1)
  <2> SUFFICES ASSUME i <= LastSample
      PROVE  /\ k[i] \subseteq 0 .. i
             /\ \A d, e \in k[i] : d < e => d + Window <= e
             /\ \A d \in 0 .. i : isResolved(w, d) => \E e \in k[i] : e <= d /\ d < e + Window
    BY <1>0
  <2>1. /\ k[i - 1] \subseteq 0 .. i - 1
        /\ \A d, e \in k[i - 1] : d < e => d + Window <= e
        /\ \A d \in 0 .. i - 1 : isResolved(w, d) => \E e \in k[i - 1] : e <= d /\ d < e + Window
    <3>1. i <= LastSample + 1
      BY <1>0, <1>3
    <3> QED
      BY <1>3, <3>1
  <2>2. k[i] = IF isResolved(w, i) /\ ~overlaps(i, k[i - 1]) THEN k[i - 1] \cup {i} ELSE k[i - 1]
    <3>1. i \in -1 .. LastSample /\ i # -1
      BY <1>0
    <3>2. k[i] = keepUpTo(w, k, i)
      BY <1>1, <3>1
    <3> QED
      BY <3>1, <3>2 DEF keepUpTo
  <2>3. CASE isResolved(w, i) /\ ~overlaps(i, k[i - 1])
    <3>1. k[i] = k[i - 1] \cup {i} /\ \A e \in k[i - 1] : e + Window <= i
      BY <1>0, <2>1, <2>2, <2>3 DEF overlaps
    <3>2. i <= i /\ i < i + Window
      BY <1>0
    <3> QED
      BY <1>0, <2>1, <3>1, <3>2
  <2>4. CASE ~isResolved(w, i)
    BY <1>0, <2>1, <2>2, <2>4
  <2>5. CASE overlaps(i, k[i - 1])
    <3>1. PICK e \in k[i - 1] : i < e + Window
      BY <2>5 DEF overlaps
    <3> QED
      BY <1>0, <2>1, <2>2, <2>5, <3>1
  <2> QED
    BY <2>3, <2>4, <2>5
<1>4. \A i \in Nat : Q(i)
  <2> HIDE DEF Q
  <2>1. 0 \in T /\ \A i \in Nat : i \in T => i + 1 \in T
    BY <1>2, <1>3
  <2>2. Nat \subseteq T
    <3> HIDE DEF T
    <3> QED
      BY <2>1, Induction
  <2> QED
    BY <2>2
<1>5. Q(n + 1) /\ n + 1 - 1 = n /\ n + 1 <= LastSample + 1
  BY <1>0, <1>4
<1> QED
  BY <1>5 DEF k

\* Every state's outcomes are independent observations.
LEMMA Independent == OutcomesIndependent
<1> SUFFICES ASSUME NEW w \in Wallets
      PROVE  /\ \A d, e \in outcomes(w) : d < e =>
                   (d .. d + Window - 1) \cap (e .. e + Window - 1) = {}
             /\ \A d \in Days : isResolved(w, d) =>
                   \E e \in outcomes(w) : (d .. d + Window - 1) \cap (e .. e + Window - 1) # {}
  BY DEF OutcomesIndependent
<1>0. LastSample \in Nat /\ Window \in Nat /\ Window > 0
  BY SamplesAssumption
<1>1. outcomes(w) = kept(w)[LastSample]
  BY DEF outcomes, kept, keepUpTo
<1>2. /\ outcomes(w) \subseteq 0 .. LastSample
      /\ \A d, e \in outcomes(w) : d < e => d + Window <= e
      /\ \A d \in 0 .. LastSample : isResolved(w, d) =>
            \E e \in outcomes(w) : e <= d /\ d < e + Window
  BY <1>0, <1>1, KeptUpTo
<1>3. ASSUME NEW d \in outcomes(w), NEW e \in outcomes(w), d < e
      PROVE  (d .. d + Window - 1) \cap (e .. e + Window - 1) = {}
  <2>1. d \in Nat /\ e \in Nat /\ d + Window <= e
    BY <1>0, <1>2, <1>3
  <2> QED
    BY <1>0, <2>1
<1>4. ASSUME NEW d \in Days, isResolved(w, d)
      PROVE  \E e \in outcomes(w) : (d .. d + Window - 1) \cap (e .. e + Window - 1) # {}
  <2>1. PICK e \in outcomes(w) : e <= d /\ d < e + Window
    BY <1>2, <1>4 DEF Days
  <2>2. d \in (d .. d + Window - 1) \cap (e .. e + Window - 1)
    BY <1>0, <1>2, <2>1 DEF Days
  <2> QED
    BY <2>2
<1> QED
  BY <1>3, <1>4

\* Calibration counts independent observations: no two windows of a wallet
\* share a day, and none that would add to them is dropped (scoreStore.ts:193).
THEOREM Observations == Spec => []OutcomesIndependent
BY Independent, PTL
==============================================================================
