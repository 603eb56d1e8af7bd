------------------------- MODULE CopyTrading_proofs -------------------------
(***************************************************************************)
(* Copy trading, for any coins, calls, accounts, prices, lots and caps:    *)
(* EndsInSync, ShrinkNeverTurns and NoncesIncrease.                        *)
(*                                                                         *)
(* EndsInSync speaks of calls that are done.  Until then each coin of a    *)
(* calm call is still to come, on its way, or settled (OnTrack): in the    *)
(* first two cases the account holds what the leg was planned from, which  *)
(* is what the exchange's clipping and the rounding to lots rest on        *)
(* (Filled).  ShrinkNeverTurns rests on a leg being reduce-only exactly    *)
(* when it shrinks what was held (Right), whatever the account holds when  *)
(* it executes (ReducesOnly).                                              *)
(***************************************************************************)
EXTENDS CopyTrading, TLAPS

\* A leg moves something, and reduces only when it shrinks what is held.
Right(leg) == leg = Move(leg.held, leg.goal) /\ leg.held # leg.goal

LegsRight ==
    /\ \A c \in Calls : Running(c) =>
          \A x \in open(calls[c].legs) : Right(calls[c].legs[x])
    /\ \A o \in flying : Right(o.leg)

NoncesBelow == \A o \in flying : o.nonce <= lastNonce

\* The orders of a call on a coin that are on their way.
ordersOf(c, x) == {o \in flying : o.call = c /\ o.coin = x}

\* A coin still to come, on its way, or done.
Pending(c, x) ==
    /\ calls[c].legs[x] # None /\ ordersOf(c, x) = {}
    /\ calls[c].legs[x].held = pos[x] /\ calls[c].legs[x].goal = calls[c].goal[x]
OnItsWay(c, x) ==
    /\ calls[c].legs[x] = None
    /\ \E o \in flying : /\ ordersOf(c, x) = {o}
                         /\ o.leg.held = pos[x] /\ o.leg.goal = calls[c].goal[x]
Settled(c, x) ==
    /\ calls[c].legs[x] = None /\ ordersOf(c, x) = {}
    /\ \/ x \in calls[c].refused /\ calls[c].goal[x] # 0
       \/ 2 * abs(pos[x] - calls[c].goal[x]) <= Lot

OnTrack(c) ==
    /\ Running(c) /\ calls[c].goal # None
    /\ \A x \in Coins : Pending(c, x) \/ OnItsWay(c, x) \/ Settled(c, x)

Tracked == \A c \in calm : OnTrack(c)

\* A call that copies knows what the copied wallet held.
SeenTargets ==
    \A c \in Calls : Running(c) /\ calls[c].kind = "copy" => calls[c].seen \in Targets

Typed == TypeOK /\ SeenTargets

IInv == Typed /\ LegsRight /\ NoncesBelow /\ Tracked

------------------------------------------------------------------------------
(* Arithmetic. *)

\* The nearest whole number of lots is within half a lot.
LEMMA Nearest ==
  ASSUME NEW n \in Nat, NEW L \in Nat \ {0}
  PROVE  /\ roundDiv(n, L) * L \in Nat
         /\ 2 * (roundDiv(n, L) * L) <= 2 * n + L
         /\ 2 * n + L < 2 * (roundDiv(n, L) * L) + 2 * L
<1> DEFINE q == (2 * n + L) \div (2 * L)
<1>1. q \in Nat
  OBVIOUS
<1>2. 2 * (q * L) <= 2 * n + L /\ 2 * n + L < 2 * (q * L) + 2 * L
  OBVIOUS
<1>3. q * L \in Nat
  <2> HIDE DEF q
  <2> QED
    BY <1>1
<1> QED
  BY <1>2, <1>3 DEF roundDiv

LEMMA Rounded == ASSUME NEW n \in Int, NEW d \in Nat \ {0} PROVE roundDiv(n, d) \in Int
BY DEF roundDiv

\* A position shrinks when it comes nearer to zero on its own side.
LEMMA Shrinking ==
  ASSUME NEW held \in Int, NEW goal \in Int
  PROVE  shrinks(held, goal) <=> \/ held > 0 /\ 0 <= goal /\ goal < held
                                 \/ held < 0 /\ held < goal /\ goal <= 0
<1>1. CASE held = 0
  BY <1>1 DEF shrinks
<1>2. CASE held > 0
  <2>1. held * goal >= 0 <=> goal >= 0
    BY <1>2
  <2> QED
    BY <1>2, <2>1 DEF shrinks, abs
<1>3. CASE held < 0
  <2>1. held * goal >= 0 <=> goal <= 0
    BY <1>3
  <2> QED
    BY <1>3, <2>1 DEF shrinks, abs
<1> QED
  BY <1>1, <1>2, <1>3

\* What is on the side of an order it may close.
LEMMA Opposite ==
  ASSUME NEW leg, NEW p \in Int
  PROVE  /\ sideOf(leg) \in {1, -1}
         /\ p * sideOf(leg) >= 0 <=> (IF sideOf(leg) = 1 THEN p >= 0 ELSE p <= 0)
BY DEF sideOf

LEMMA SizeOf ==
  ASSUME NEW leg \in Leg
  PROVE  /\ formatSize(leg) \in Nat
         /\ 2 * formatSize(leg) <= 2 * abs(leg.goal - leg.held) + Lot
         /\ 2 * abs(leg.goal - leg.held) < 2 * formatSize(leg) + Lot
<1>1. Lot \in Nat \ {0}
  BY CopyAssumption
<1>2. PICK n \in Nat : n = abs(leg.goal - leg.held)
  BY DEF abs, Leg
<1>3. PICK f \in Nat : f = roundDiv(n, Lot) * Lot
  BY <1>1, Nearest
<1>4. f = formatSize(leg)
  BY <1>2, <1>3 DEF formatSize
<1>5. 2 * f <= 2 * n + Lot /\ 2 * n + Lot < 2 * f + 2 * Lot
  BY <1>1, <1>3, Nearest
<1> QED
  BY <1>1, <1>2, <1>4, <1>5

LEMMA RoomTyped ==
  ASSUME NEW o \in Order, pos[o.coin] \in Int
  PROVE  room(o) \in Nat
<1>1. o.leg \in Leg
  BY DEF Order
<1>2. formatSize(o.leg) \in Nat /\ abs(pos[o.coin]) \in Nat
  BY <1>1, SizeOf DEF abs
<1> QED
  BY <1>2 DEF room

\* An order that found what it was planned from, and is filled in full, takes
\* its coin within half a lot of its goal.
LEMMA Filled ==
  ASSUME NEW o \in Order, Right(o.leg), pos[o.coin] \in Int, o.leg.held = pos[o.coin],
         NEW after, after = pos[o.coin] + sideOf(o.leg) * room(o),
         NEW goal, goal = o.leg.goal
  PROVE  2 * abs(after - goal) <= Lot
<1>1. o.leg \in Leg
  BY DEF Order
<1>2. PICK p \in Int, g \in Int, f \in Nat, s \in {1, -1} :
          p = pos[o.coin] /\ g = goal /\ f = formatSize(o.leg) /\ s = sideOf(o.leg)
  BY <1>1, SizeOf, Opposite DEF Leg
<1>3. /\ Lot \in Nat
      /\ 2 * f <= 2 * abs(g - p) + Lot /\ 2 * abs(g - p) < 2 * f + Lot
      /\ p # g /\ s = IF g > p THEN 1 ELSE -1
  BY <1>1, <1>2, SizeOf, CopyAssumption DEF Right, sideOf
<1>4. o.leg.reduceOnly <=> shrinks(p, g)
  BY <1>2 DEF Right, Move
<1>5. CASE ~o.leg.reduceOnly
  <2>1. room(o) = f
    BY <1>2, <1>5 DEF room
  <2>2. 2 * abs(p + s * f - g) <= Lot
    BY <1>3 DEF abs
  <2> QED
    BY <1>2, <2>1, <2>2
<1>6. CASE o.leg.reduceOnly
  <2>1. \/ p > 0 /\ 0 <= g /\ g < p /\ s = -1
        \/ p < 0 /\ p < g /\ g <= 0 /\ s = 1
    BY <1>3, <1>4, <1>6, Shrinking
  <2>2. ~(p * s >= 0)
    BY <2>1
  <2>3. room(o) = IF f < abs(p) THEN f ELSE abs(p)
    BY <1>2, <1>6, <2>2 DEF room
  <2>4. PICK v \in Int : v = p + s * (IF f < abs(p) THEN f ELSE abs(p))
    BY DEF abs
  <2>5. 2 * abs(v - g) <= Lot
    BY <1>3, <2>1, <2>4 DEF abs
  <2>6. after = v
    BY <1>2, <2>3, <2>4
  <2> QED
    BY <1>2, <2>5, <2>6
<1> QED
  BY <1>5, <1>6

\* A leg too small for a lot leaves its coin within half a lot of its goal,
\* and one the per-order cap refuses is not an exit.
LEMMA RefusedSettles ==
  ASSUME NEW x \in Coins, NEW leg \in Leg, Right(leg), refusedOrder(x, leg)
  PROVE  IF tooSmall(leg) THEN 2 * abs(leg.held - leg.goal) <= Lot ELSE leg.goal # 0
<1>1. CASE tooSmall(leg)
  <2>1. 2 * abs(leg.goal - leg.held) < Lot
    BY <1>1, SizeOf, CopyAssumption DEF tooSmall
  <2>2. leg.goal \in Int /\ leg.held \in Int /\ Lot \in Nat
    BY CopyAssumption DEF Leg
  <2>3. 2 * abs(leg.held - leg.goal) <= Lot
    BY <2>1, <2>2 DEF abs
  <2> QED
    BY <1>1, <2>3
<1>2. CASE ~tooSmall(leg)
  <2>1. ~leg.reduceOnly
    BY <1>2 DEF refusedOrder, tooSmall
  <2>2. leg.goal \in Int /\ leg.held \in Int /\ leg.held # leg.goal
    BY DEF Leg, Right
  <2>3. ~shrinks(leg.held, leg.goal)
    BY <2>1 DEF Right, Move
  <2>4. leg.goal # 0
    BY <2>2, <2>3, Shrinking
  <2> QED
    BY <1>2, <2>4
<1> QED
  BY <1>1, <1>2

------------------------------------------------------------------------------
(* Types. *)

LEMMA LoadsTarget ==
  ASSUME TypeOK
  PROVE  /\ load("target", target)[1] \in Targets
         /\ load("target", target)[2] \in [mine : Entry(Positions), target : Entry(Targets)]
<1>1. CASE fresh("target")
  BY <1>1 DEF load, fresh, TypeOK, Entry
<1>2. CASE ~fresh("target")
  <2>1. now + TTL \in Nat
    BY CopyAssumption DEF TypeOK
  <2>2. [value |-> target, exp |-> now + TTL] \in Entry(Targets)
    BY <2>1 DEF TypeOK, Entry
  <2> QED
    BY <1>2, <2>2 DEF load, TypeOK
<1> QED
  BY <1>1, <1>2

LEMMA LoadsMine ==
  ASSUME TypeOK
  PROVE  /\ load("mine", pos)[1] \in Positions
         /\ load("mine", pos)[2] \in [mine : Entry(Positions), target : Entry(Targets)]
<1>1. CASE fresh("mine")
  BY <1>1 DEF load, fresh, TypeOK, Entry
<1>2. CASE ~fresh("mine")
  <2>1. now + TTL \in Nat
    BY CopyAssumption DEF TypeOK
  <2>2. [value |-> pos, exp |-> now + TTL] \in Entry(Positions)
    BY <2>1 DEF TypeOK, Entry
  <2> QED
    BY <1>2, <2>2 DEF load, TypeOK
<1> QED
  BY <1>1, <1>2

LEMMA DesiredTyped == ASSUME NEW t \in Targets PROVE desired(t) \in [Coins -> Int]
<1>1. ASSUME NEW x \in Coins PROVE roundDiv(t[x] * MyEquity * Scale, TargetEquity) \in Int
  <2>1. t[x] \in Int
    BY CopyAssumption
  <2>2. t[x] * MyEquity \in Int
    BY <2>1, CopyAssumption
  <2>3. t[x] * MyEquity * Scale \in Int
    BY <2>2, CopyAssumption
  <2> QED
    BY <2>3, CopyAssumption, Rounded
<1> QED
  BY <1>1 DEF desired

LEMMA MoveTyped ==
  ASSUME NEW held \in Int, NEW goal \in Int
  PROVE  Move(held, goal) \in Leg /\ Move(held, goal).held = held /\ Move(held, goal).goal = goal
<1>1. shrinks(held, goal) \in BOOLEAN
  BY DEF shrinks
<1> QED
  BY <1>1 DEF Move, Leg

LEMMA MirrorTyped ==
  ASSUME NEW t \in Targets, NEW mine \in Positions
  PROVE  planMirror(t, mine) \in [Coins -> Leg \cup {None}]
<1>1. desired(t) \in [Coins -> Int] /\ \A x \in Coins : mine[x] \in Int
  BY DesiredTyped, CopyAssumption DEF Positions
<1>2. ASSUME NEW x \in Coins PROVE Move(mine[x], desired(t)[x]) \in Leg
  BY <1>1, MoveTyped
<1> HIDE DEF desired
<1> QED
  BY <1>2 DEF planMirror

\* The order that closes is the one that moves what is held to nothing.
LEMMA CloseIsMove ==
  ASSUME NEW x \in Coins, NEW mine \in Positions, mine[x] # 0
  PROVE  closeLeg(x, mine) = [noLegs EXCEPT ![x] = Move(mine[x], 0)]
<1>1. mine[x] \in Int
  BY CopyAssumption DEF Positions
<1>2. shrinks(mine[x], 0) = TRUE
  BY <1>1, Shrinking
<1> QED
  BY <1>2 DEF closeLeg, Move

LEMMA CallTyped ==
  ASSUME NEW kind \in {"copy", "close"}, NEW seen \in Targets \cup {None},
         NEW goal \in [Coins -> Int] \cup {None}, NEW legs \in [Coins -> Leg \cup {None}]
  PROVE  NewCall(kind, seen, goal, legs) \in Call
BY DEF NewCall, Call

\* The call after it sent, or was refused, the order for coin x.
LEMMA SendLegTyped ==
  ASSUME Typed, NEW c \in Calls, NEW x \in Coins, SendLeg(c, x)
  PROVE  /\ calls[c] \in Call /\ calls[c].legs[x] \in Leg
         /\ nextNonce(lastNonce) \in Nat /\ lastNonce < nextNonce(lastNonce)
         /\ Typed'
<1> USE DEF Typed, TypeOK
<1>1. calls[c] \in Call /\ calls[c].legs[x] \in Leg
  BY DEF SendLeg, Running, open, Call
<1>2. nextNonce(lastNonce) \in Nat /\ lastNonce < nextNonce(lastNonce)
  BY DEF nextNonce
<1> DEFINE leg == calls[c].legs[x]  nonce == nextNonce(lastNonce)
<1>3. calls'[c] \in Call /\ calls'[c].kind = calls[c].kind /\ calls'[c].seen = calls[c].seen
  BY <1>1, <1>2 DEF SendLeg, Call
<1>4. calls' \in [Calls -> Call \cup {None, Done}]
      /\ \A d \in Calls : d # c => calls'[d] = calls[d]
  BY <1>3 DEF SendLeg
<1>5. flying' \subseteq Order /\ lastNonce' \in Nat
  BY <1>1, <1>2 DEF SendLeg, Order
<1>6. SeenTargets'
  BY <1>3, <1>4 DEF SeenTargets, Running, SendLeg
<1> QED
  BY <1>1, <1>2, <1>4, <1>5, <1>6 DEF SendLeg, ghosts

LEMMA TypedNext == ASSUME Typed, [Next]_vars PROVE Typed'
<1> USE DEF Typed
<1>1. ASSUME NEW c \in Calls, BeginCopy(c) PROVE Typed'
  <2>1. NewCall("copy", load("target", target)[1], None, noLegs) \in Call
        /\ NewCall("copy", load("target", target)[1], None, noLegs).seen \in Targets
    BY LoadsTarget, CallTyped DEF noLegs, NewCall
  <2>2. TypeOK'
    BY <1>1, <2>1, LoadsTarget DEF TypeOK, BeginCopy
  <2>3. SeenTargets'
    BY <1>1, <2>1 DEF TypeOK, BeginCopy, SeenTargets, Running
  <2> QED
    BY <2>2, <2>3
<1>2. ASSUME NEW c \in Calls, PlanCopy(c) PROVE Typed'
  <2> DEFINE mine == load("mine", pos)[1]  seen == calls[c].seen
             new == NewCall("copy", seen, desired(seen), planMirror(seen, mine))
  <2>1. seen \in Targets /\ mine \in Positions
    BY <1>2, LoadsMine DEF PlanCopy, SeenTargets
  <2>2. new \in Call /\ new.seen \in Targets
    <3> HIDE DEF seen, mine
    <3> QED
      BY <2>1, DesiredTyped, MirrorTyped, CallTyped DEF NewCall
  <2>3. calls' = [calls EXCEPT ![c] = Done] \/ calls' = [calls EXCEPT ![c] = new]
    BY <1>2 DEF PlanCopy
  <2> HIDE DEF new, mine, seen
  <2>4. cache' \in [mine : Entry(Positions), target : Entry(Targets)]
    BY <1>2, LoadsMine DEF PlanCopy
  <2>5. calm' \subseteq Calls /\ repeating' \subseteq Calls
    BY <1>2 DEF PlanCopy, calmAfter, TypeOK
  <2>6. TypeOK'
    BY <1>2, <2>2, <2>3, <2>4, <2>5 DEF TypeOK, PlanCopy
  <2>7. SeenTargets'
    BY <2>2, <2>3 DEF TypeOK, SeenTargets, Running
  <2> QED
    BY <2>6, <2>7
<1>3. ASSUME NEW c \in Calls, NEW x \in Coins, PlanClose(c, x) PROVE Typed'
  <2> DEFINE mine == load("mine", pos)[1]
             new == NewCall("close", None, [mine EXCEPT ![x] = 0], closeLeg(x, mine))
  <2>1. mine \in Positions
    BY LoadsMine
  <2>2. mine[x] # 0 => new \in Call /\ new.kind = "close"
    <3> HIDE DEF mine
    <3> SUFFICES ASSUME mine[x] # 0 PROVE new \in Call /\ new.kind = "close"
      OBVIOUS
    <3>1. mine \in [Coins -> Int]
      BY <2>1, CopyAssumption DEF Positions
    <3>2. Move(mine[x], 0) \in Leg
      BY <3>1, MoveTyped
    <3>3. closeLeg(x, mine) \in [Coins -> Leg \cup {None}]
      BY <2>1, <3>2, CloseIsMove DEF noLegs
    <3> QED
      BY <3>1, <3>3, CallTyped DEF NewCall
  <2>3. \/ calls' = [calls EXCEPT ![c] = Done]
        \/ mine[x] # 0 /\ calls' = [calls EXCEPT ![c] = new]
    BY <1>3 DEF PlanClose
  <2> HIDE DEF new, mine
  <2>4. cache' \in [mine : Entry(Positions), target : Entry(Targets)]
    BY <1>3, LoadsMine DEF PlanClose
  <2>5. calm' \subseteq Calls
    BY <1>3 DEF PlanClose, calmAfter, TypeOK
  <2>6. TypeOK'
    BY <1>3, <2>2, <2>3, <2>4, <2>5 DEF TypeOK, PlanClose
  <2>7. SeenTargets'
    BY <2>2, <2>3 DEF TypeOK, SeenTargets, Running
  <2> QED
    BY <2>6, <2>7
<1>4. ASSUME NEW c \in Calls, Answered(c) PROVE Typed'
  <2>1. calls[c] \in Call
    BY <1>4 DEF Answered, Running, TypeOK
  <2>2. calls'[c] \in Call /\ calls'[c].kind = calls[c].kind /\ calls'[c].seen = calls[c].seen
    BY <1>4, <2>1 DEF Answered, Call, TypeOK
  <2>3. TypeOK'
    BY <1>4, <2>2 DEF TypeOK, Answered, ghosts
  <2>4. SeenTargets'
    BY <1>4, <2>2 DEF TypeOK, Answered, SeenTargets, Running
  <2> QED
    BY <2>3, <2>4
<1>5. ASSUME NEW c \in Calls, Return(c) PROVE Typed'
  BY <1>5 DEF Return, TypeOK, SeenTargets, Running
<1>6. CASE ApproveBuilderFeeGuide
  <2>1. lastNonce' \in Nat
    BY <1>6 DEF ApproveBuilderFeeGuide, TypeOK, nextNonce
  <2> QED
    BY <1>6, <2>1 DEF ApproveBuilderFeeGuide, TypeOK, SeenTargets, Running, ghosts
<1>7. ASSUME NEW o \in flying, NEW n \in 0 .. MaxPos, Execute(o, n) PROVE Typed'
  <2>1. calm' \subseteq Calls /\ repeating' \subseteq Calls /\ synced' \in BOOLEAN
    BY <1>7 DEF Execute, Disturb, TypeOK
  <2> QED
    BY <1>7, <2>1 DEF Execute, TypeOK, SeenTargets, Running
<1>8. ASSUME NEW x \in Coins, NEW d \in {-1, 1}, UserTrades(x, d) PROVE Typed'
  <2>1. moves' \in 0 .. MaxMoves
    BY <1>8, CopyAssumption DEF UserTrades, TypeOK
  <2> QED
    BY <1>8, <2>1 DEF UserTrades, Disturb, TypeOK, SeenTargets, Running
<1>9. ASSUME NEW t \in Targets, TargetTrades(t) PROVE Typed'
  <2>1. moves' \in 0 .. MaxMoves
    BY <1>9, CopyAssumption DEF TargetTrades, TypeOK
  <2> QED
    BY <1>9, <2>1 DEF TargetTrades, TypeOK, SeenTargets, Running
<1>10. CASE Tick
  <2>1. now' \in 0 .. MaxTime
    BY <1>10, CopyAssumption DEF Tick, TypeOK
  <2> QED
    BY <1>10, <2>1 DEF Tick, TypeOK, SeenTargets, Running, ghosts
<1>11. CASE UNCHANGED vars
  BY <1>11 DEF vars, ghosts, TypeOK, SeenTargets, Running
<1> QED
  BY <1>1, <1>2, <1>3, <1>4, <1>5, <1>6, <1>7, <1>8, <1>9, <1>10, <1>11, SendLegTyped
     DEF Next

LEMMA InitTyped == Init => Typed
<1>1. ASSUME Init PROVE TypeOK
  <2>1. pos \in Positions /\ target \in Targets
    BY <1>1, CopyAssumption DEF Init, Positions
  <2>2. cache \in [mine : Entry(Positions), target : Entry(Targets)]
    BY <1>1 DEF Init, Entry
  <2>3. now \in 0 .. MaxTime /\ moves \in 0 .. MaxMoves /\ lastNonce \in Nat
    BY <1>1, CopyAssumption DEF Init
  <2>4. calls \in [Calls -> Call \cup {None, Done}]
    BY <1>1 DEF Init
  <2> QED
    BY <1>1, <2>1, <2>2, <2>3, <2>4 DEF Init, TypeOK
<1>2. ASSUME Init PROVE SeenTargets
  BY <1>2 DEF Init, SeenTargets, Running
<1> QED
  BY <1>1, <1>2 DEF Typed

------------------------------------------------------------------------------
(* Nonces and legs. *)

\* What leaves an order where it was, and takes no leg up, keeps both.
LEMMA RightNext == ASSUME Typed, LegsRight, [Next]_vars PROVE LegsRight'
<1>0. ASSUME flying' \subseteq flying,
             \A c \in Calls : calls'[c] = calls[c] \/ calls'[c] \in {None, Done}
                              \/ open(calls'[c].legs) = {}
      PROVE  LegsRight'
  BY <1>0 DEF LegsRight, Running
<1>1. ASSUME NEW c \in Calls, BeginCopy(c) PROVE LegsRight'
  <2>1. open(NewCall("copy", load("target", target)[1], None, noLegs).legs) = {}
    BY DEF NewCall, open, noLegs
  <2> QED
    BY <1>0, <1>1, <2>1 DEF BeginCopy, Typed, TypeOK
<1>2. ASSUME NEW c \in Calls, PlanCopy(c) PROVE LegsRight'
  <2> DEFINE mine == load("mine", pos)[1]  seen == calls[c].seen
             new == NewCall("copy", seen, desired(seen), planMirror(seen, mine))
  <2>1. seen \in Targets /\ mine \in Positions
    BY <1>2, LoadsMine DEF PlanCopy, SeenTargets, Typed
  <2>2. ASSUME NEW x \in open(new.legs) PROVE Right(new.legs[x])
    <3> HIDE DEF seen, mine
    <3>1. new.legs[x] = Move(mine[x], desired(seen)[x]) /\ desired(seen)[x] # mine[x]
          /\ x \in Coins
      BY <2>2 DEF NewCall, planMirror, open
    <3>2. mine[x] \in Int /\ desired(seen)[x] \in Int
      BY <2>1, <3>1, DesiredTyped, CopyAssumption DEF Positions
    <3> QED
      BY <3>1, <3>2, MoveTyped DEF Right
  <2>3. \/ calls' = [calls EXCEPT ![c] = Done]
        \/ calls' = [calls EXCEPT ![c] = new]
    BY <1>2 DEF PlanCopy
  <2> HIDE DEF new, mine, seen
  <2> QED
    BY <1>2, <2>2, <2>3 DEF LegsRight, Running, PlanCopy, Typed, TypeOK
<1>3. ASSUME NEW c \in Calls, NEW x \in Coins, PlanClose(c, x) PROVE LegsRight'
  <2> DEFINE mine == load("mine", pos)[1]
             new == NewCall("close", None, [mine EXCEPT ![x] = 0], closeLeg(x, mine))
  <2>1. mine \in Positions
    BY LoadsMine DEF Typed
  <2>2. ASSUME mine[x] # 0, NEW y \in open(new.legs) PROVE Right(new.legs[y])
    <3> HIDE DEF mine
    <3>1. mine[x] \in Int
      BY <2>1, CopyAssumption DEF Positions
    <3>2. new.legs = [noLegs EXCEPT ![x] = Move(mine[x], 0)]
      BY <2>1, <2>2, CloseIsMove DEF NewCall
    <3>3. new.legs[y] = Move(mine[x], 0)
      BY <2>2, <3>2 DEF open, noLegs
    <3> QED
      BY <2>2, <3>1, <3>3, MoveTyped DEF Right
  <2>3. \/ calls' = [calls EXCEPT ![c] = Done]
        \/ mine[x] # 0 /\ calls' = [calls EXCEPT ![c] = new]
    BY <1>3 DEF PlanClose
  <2> HIDE DEF new, mine
  <2> QED
    BY <1>3, <2>2, <2>3 DEF LegsRight, Running, PlanClose, Typed, TypeOK
<1>4. ASSUME NEW c \in Calls, NEW x \in Coins, SendLeg(c, x) PROVE LegsRight'
  <2>1. Right(calls[c].legs[x]) /\ Running(c)
    BY <1>4 DEF LegsRight, SendLeg
  <2>2. calls[c] \in Call
    BY <1>4, SendLegTyped
  <2>3. \A y \in open(calls'[c].legs) : y \in open(calls[c].legs)
                                        /\ calls'[c].legs[y] = calls[c].legs[y]
    BY <1>4, <2>2 DEF SendLeg, open, Typed, TypeOK, Call
  <2>4. \A d \in Calls : d # c => calls'[d] = calls[d]
    BY <1>4 DEF SendLeg, Typed, TypeOK
  <2>5. \A o \in flying' : o \in flying \/ o.leg = calls[c].legs[x]
    BY <1>4 DEF SendLeg
  <2> QED
    BY <2>1, <2>3, <2>4, <2>5 DEF LegsRight, Running
<1>5. ASSUME NEW c \in Calls, Answered(c) PROVE LegsRight'
  <2>1. calls'[c].legs = calls[c].legs /\ \A d \in Calls : d # c => calls'[d] = calls[d]
    BY <1>5 DEF Answered, Typed, TypeOK, Call, Running
  <2> QED
    BY <1>5, <2>1 DEF LegsRight, Answered, Running
<1>6. ASSUME NEW c \in Calls, Return(c) PROVE LegsRight'
  BY <1>0, <1>6 DEF Return, Typed, TypeOK
<1>7. ASSUME NEW o \in flying, NEW n \in 0 .. MaxPos, Execute(o, n) PROVE LegsRight'
  BY <1>0, <1>7 DEF Execute
<1>8. CASE UNCHANGED <<calls, flying>>
  BY <1>0, <1>8
<1> QED
  BY <1>1, <1>2, <1>3, <1>4, <1>5, <1>6, <1>7, <1>8
     DEF Next, vars, ApproveBuilderFeeGuide, UserTrades, TargetTrades, Tick

LEMMA NoncesNext == ASSUME Typed, NoncesBelow, [Next]_vars PROVE NoncesBelow'
<1>1. ASSUME NEW c \in Calls, NEW x \in Coins, SendLeg(c, x) PROVE NoncesBelow'
  <2>1. nextNonce(lastNonce) \in Nat /\ lastNonce < nextNonce(lastNonce)
    BY <1>1, SendLegTyped
  <2>2. lastNonce \in Nat /\ \A o \in flying : o.nonce \in Nat
    BY DEF Typed, TypeOK, Order
  <2> QED
    BY <1>1, <2>1, <2>2 DEF SendLeg, NoncesBelow
<1>2. CASE ApproveBuilderFeeGuide
  <2>1. lastNonce \in Nat /\ now \in Nat /\ \A o \in flying : o.nonce \in Nat
    BY DEF Typed, TypeOK, Order
  <2> QED
    BY <1>2, <2>1 DEF ApproveBuilderFeeGuide, NoncesBelow, nextNonce
<1>3. CASE flying' \subseteq flying /\ lastNonce' = lastNonce
  BY <1>3 DEF NoncesBelow
<1> QED
  BY <1>1, <1>2, <1>3
     DEF Next, vars, BeginCopy, PlanCopy, PlanClose, Answered, Return, Execute, UserTrades,
         TargetTrades, Tick

\* An order that reduces moves its coin towards zero, and not through it.
LEMMA ReducesOnly ==
  ASSUME Typed, NEW o \in flying, NEW n \in 0 .. MaxPos, Execute(o, n), o.leg.reduceOnly
  PROVE  pos'[o.coin] * pos[o.coin] >= 0 /\ abs(pos'[o.coin]) <= abs(pos[o.coin])
<1>1. o \in Order /\ o.coin \in Coins /\ pos \in [Coins -> Int] /\ n \in Nat /\ Lot \in Nat
  BY CopyAssumption DEF Typed, TypeOK, Order, Positions
<1>2. PICK p \in Int, q \in Nat, r \in Nat, s \in {1, -1} :
          p = pos[o.coin] /\ q = n * Lot /\ r = room(o) /\ s = sideOf(o.leg)
  BY <1>1, RoomTyped, Opposite
<1>3. q <= r /\ pos'[o.coin] = p + s * q
  BY <1>1, <1>2 DEF Execute
<1>4. r <= abs(p) /\ (p * s >= 0 => r = 0)
  <2>1. formatSize(o.leg) \in Nat /\ abs(p) \in Nat
    BY <1>1, SizeOf DEF Order, abs
  <2> QED
    BY <1>2, <2>1 DEF room
<1>5. \/ q = 0
      \/ p > 0 /\ s = -1 /\ q <= p
      \/ p < 0 /\ s = 1 /\ q <= -p
  BY <1>3, <1>4 DEF abs
<1>6. (p + s * q) * p >= 0 /\ abs(p + s * q) <= abs(p)
  <2>1. CASE q = 0
    <3>1. p + s * q = p
      BY <2>1
    <3>2. p * p >= 0
      OBVIOUS
    <3>3. abs(p) <= abs(p)
      BY DEF abs
    <3> QED
      BY <3>1, <3>2, <3>3
  <2>2. CASE p > 0 /\ s = -1 /\ q <= p
    <3>1. p + s * q \in Nat /\ p + s * q <= p
      BY <2>2
    <3>2. (p + s * q) * p >= 0
      BY <2>2, <3>1
    <3> QED
      BY <2>2, <3>1, <3>2 DEF abs
  <2>3. CASE p < 0 /\ s = 1 /\ q <= -p
    <3>1. p + s * q \in Int /\ p + s * q <= 0 /\ p <= p + s * q
      BY <2>3
    <3>2. (p + s * q) * p >= 0
      BY <2>3, <3>1
    <3> QED
      BY <2>3, <3>1, <3>2 DEF abs
  <2> QED
    BY <1>5, <2>1, <2>2, <2>3
<1> QED
  BY <1>2, <1>3, <1>6

------------------------------------------------------------------------------
(* The coins of a calm call. *)

\* A call is where it was when neither its record, nor the account, nor its
\* orders changed.
LEMMA Untouched ==
  ASSUME NEW c, OnTrack(c), calls'[c] = calls[c], pos' = pos,
         \A x \in Coins : ordersOf(c, x)' = ordersOf(c, x)
  PROVE  OnTrack(c)'
<1>1. Running(c)' /\ calls'[c].goal # None
  BY DEF OnTrack, Running
<1>2. ASSUME NEW x \in Coins
      PROVE  (Pending(c, x) \/ OnItsWay(c, x) \/ Settled(c, x))'
  <2>1. CASE Pending(c, x)
    BY <2>1 DEF Pending
  <2>2. CASE OnItsWay(c, x)
    <3>1. PICK o \in flying : /\ ordersOf(c, x) = {o}
                              /\ o.leg.held = pos[x] /\ o.leg.goal = calls[c].goal[x]
      BY <2>2 DEF OnItsWay
    <3>2. ordersOf(c, x)' = {o}
      BY <3>1
    <3>3. o \in flying'
      BY <3>2 DEF ordersOf
    <3> QED
      BY <2>2, <3>1, <3>2, <3>3 DEF OnItsWay
  <2>3. CASE Settled(c, x)
    BY <2>3 DEF Settled
  <2> QED
    BY <2>1, <2>2, <2>3 DEF OnTrack
<1> QED
  BY <1>1, <1>2 DEF OnTrack

\* A call that planned from the account as it is, nothing on its way.
LEMMA Planned ==
  ASSUME NEW c, NEW goal \in [Coins -> Int], calls'[c] \in Call,
         pos \in [Coins -> Int], flying = {}, UNCHANGED <<pos, flying>>,
         calls'[c].goal = goal,
         \A x \in Coins : IF goal[x] = pos[x] THEN calls'[c].legs[x] = None
                          ELSE calls'[c].legs[x] = Move(pos[x], goal[x])
  PROVE  OnTrack(c)'
<1>1. Running(c)' /\ goal # None
  BY NoCallAssumption DEF Running
<1>2. ASSUME NEW x \in Coins
      PROVE  (Pending(c, x) \/ Settled(c, x))'
  <2>1. ordersOf(c, x)' = {} /\ pos'[x] = pos[x]
    BY DEF ordersOf
  <2>2. CASE goal[x] = pos[x]
    <3>1. 2 * abs(pos[x] - goal[x]) <= Lot
      BY <2>2, CopyAssumption DEF abs
    <3> QED
      BY <2>1, <2>2, <3>1 DEF Settled
  <2>3. CASE goal[x] # pos[x]
    <3>1. Move(pos[x], goal[x]) # None /\ Move(pos[x], goal[x]).held = pos[x]
          /\ Move(pos[x], goal[x]).goal = goal[x]
      BY MoveTyped, NoCallAssumption
    <3> QED
      BY <2>1, <2>3, <3>1 DEF Pending
  <2> QED
    BY <2>2, <2>3
<1> QED
  BY <1>1, <1>2 DEF OnTrack

\* The leg for x is sent, or refused.
LEMMA Sent ==
  ASSUME Typed, LegsRight, NEW c \in Calls, NEW x \in Coins, SendLeg(c, x), OnTrack(c)
  PROVE  OnTrack(c)'
<1> DEFINE leg == calls[c].legs[x]
           order == [nonce |-> nextNonce(lastNonce), call |-> c, coin |-> x, leg |-> leg]
<1>1. /\ calls[c] \in Call /\ leg \in Leg /\ calls \in [Calls -> Call \cup {None, Done}]
      /\ Right(leg) /\ pos' = pos
  BY SendLegTyped DEF Typed, TypeOK, LegsRight, SendLeg, ghosts
<1>2. /\ calls'[c] \in Call /\ calls'[c].goal = calls[c].goal
      /\ calls'[c].legs = [calls[c].legs EXCEPT ![x] = None]
      /\ calls[c].refused \subseteq calls'[c].refused
  <2>1. calls'[c] \in Call \cup {None, Done} /\ nextNonce(lastNonce) \in Nat
    BY SendLegTyped DEF Typed, TypeOK
  <2>2. /\ calls'[c].goal = calls[c].goal
        /\ calls'[c].legs = [calls[c].legs EXCEPT ![x] = None]
        /\ calls[c].refused \subseteq calls'[c].refused
    BY <1>1 DEF SendLeg, Call
  <2>3. calls'[c] \in Call
    BY <1>1, <2>1 DEF SendLeg, Call
  <2> QED
    BY <2>2, <2>3
<1>3. Running(c)' /\ calls'[c].goal # None
  BY <1>2, NoCallAssumption DEF Running, OnTrack
<1>4. leg # None /\ Pending(c, x)
  BY <1>1, NoCallAssumption DEF OnTrack, OnItsWay, Settled
<1>5. ASSUME NEW y \in Coins, y # x
      PROVE  (Pending(c, y) \/ OnItsWay(c, y) \/ Settled(c, y))'
  <2>1. ordersOf(c, y)' = ordersOf(c, y)
    BY <1>5 DEF SendLeg, ordersOf
  <2>2. calls'[c].legs[y] = calls[c].legs[y]
    BY <1>1, <1>2, <1>5 DEF Call
  <2>3. flying \subseteq flying'
    BY DEF SendLeg
  <2> QED
    BY <1>1, <1>2, <2>1, <2>2, <2>3 DEF OnTrack, Pending, OnItsWay, Settled
<1>6. calls'[c].legs[x] = None
  BY <1>1, <1>2 DEF Call
<1>7. CASE refusedOrder(x, leg)
  <2>1. ordersOf(c, x)' = {}
    <3>1. flying' = flying
      BY <1>7 DEF SendLeg
    <3> QED
      BY <1>4, <3>1 DEF Pending, ordersOf
  <2>2. IF tooSmall(leg) THEN 2 * abs(pos[x] - calls[c].goal[x]) <= Lot
        ELSE calls[c].goal[x] # 0
    BY <1>1, <1>4, <1>7, RefusedSettles DEF Pending
  <2>3. ~tooSmall(leg) => x \in calls'[c].refused
    BY <1>1, <1>7 DEF SendLeg, Call
  <2>4. Settled(c, x)'
    BY <1>1, <1>2, <1>6, <2>1, <2>2, <2>3 DEF Settled
  <2> QED
    BY <1>3, <1>5, <2>4 DEF OnTrack
<1>8. CASE ~refusedOrder(x, leg)
  <2>1. flying' = flying \cup {order}
    BY <1>8 DEF SendLeg
  <2>2. ordersOf(c, x)' = {order}
    BY <1>4, <2>1 DEF Pending, ordersOf
  <2>3. order.leg.held = pos[x] /\ order.leg.goal = calls[c].goal[x]
    BY <1>4 DEF Pending
  <2> HIDE DEF order
  <2>4. OnItsWay(c, x)'
    BY <1>1, <1>2, <1>6, <2>1, <2>2, <2>3 DEF OnItsWay
  <2> QED
    BY <1>3, <1>5, <2>4 DEF OnTrack
<1> QED
  BY <1>7, <1>8

\* An order of the call executes in full.
LEMMA Executed ==
  ASSUME Typed, LegsRight, NEW o \in flying, NEW n \in 0 .. MaxPos, Execute(o, n),
         n * Lot = room(o), OnTrack(o.call)
  PROVE  OnTrack(o.call)'
<1> DEFINE c == o.call
<1>1. o \in Order /\ Right(o.leg) /\ o.coin \in Coins /\ pos \in [Coins -> Int]
  BY CopyAssumption DEF Typed, TypeOK, LegsRight, Order, Positions
<1>2. calls' = calls /\ flying' = flying \ {o}
      /\ pos' = [pos EXCEPT ![o.coin] = @ + sideOf(o.leg) * (n * Lot)]
  BY DEF Execute
<1>3. Running(c)' /\ calls'[c].goal # None
  BY <1>2 DEF OnTrack, Running
<1>4. ASSUME NEW y \in Coins, y # o.coin
      PROVE  (Pending(c, y) \/ OnItsWay(c, y) \/ Settled(c, y))'
  <2>1. ordersOf(c, y)' = ordersOf(c, y) /\ o \notin ordersOf(c, y)
    BY <1>2, <1>4 DEF ordersOf
  <2>2. pos'[y] = pos[y]
    BY <1>1, <1>2, <1>4
  <2> QED
    BY <1>2, <2>1, <2>2 DEF OnTrack, Pending, OnItsWay, Settled
<1>5. Settled(c, o.coin)'
  <2>1. o \in ordersOf(c, o.coin)
    BY DEF ordersOf
  <2>2. /\ calls[c].legs[o.coin] = None /\ ordersOf(c, o.coin) = {o}
        /\ o.leg.held = pos[o.coin] /\ o.leg.goal = calls[c].goal[o.coin]
    BY <1>1, <2>1 DEF OnTrack, Pending, OnItsWay, Settled
  <2>3. ordersOf(c, o.coin)' = {}
    BY <1>2, <2>2 DEF ordersOf
  <2>4. pos'[o.coin] = pos[o.coin] + sideOf(o.leg) * room(o)
    BY <1>1, <1>2
  <2>5. 2 * abs(pos'[o.coin] - calls[c].goal[o.coin]) <= Lot
    <3>1. pos[o.coin] \in Int
      BY <1>1
    <3> QED
      BY <1>1, <2>2, <2>4, <3>1, Filled
  <2> QED
    BY <1>2, <2>2, <2>3, <2>5 DEF Settled
<1> QED
  BY <1>3, <1>4, <1>5 DEF OnTrack

LEMMA TrackedNext == ASSUME Typed, LegsRight, Tracked, [Next]_vars PROVE Tracked'
<1>0. /\ calls \in [Calls -> Call \cup {None, Done}] /\ calm \subseteq Calls
      /\ pos \in [Coins -> Int]
  BY CopyAssumption DEF Typed, TypeOK, Positions
<1>1. ASSUME NEW c \in calm, calls'[c] = calls[c], pos' = pos,
             \A x \in Coins : ordersOf(c, x)' = ordersOf(c, x)
      PROVE  OnTrack(c)'
  BY <1>1, Untouched DEF Tracked
<1>2. ASSUME UNCHANGED <<pos, flying>>, NEW c \in Calls,
             \A d \in Calls : d # c => calls'[d] = calls[d],
             calm' \subseteq calm \cup {c}, c \in calm' => OnTrack(c)'
      PROVE  Tracked'
  BY <1>0, <1>1, <1>2 DEF Tracked, ordersOf
<1>3. ASSUME NEW c \in Calls, BeginCopy(c) PROVE Tracked'
  <2>1. c \notin calm
    BY <1>3 DEF BeginCopy, Tracked, OnTrack, Running
  <2> QED
    BY <1>0, <1>2, <1>3, <2>1 DEF BeginCopy
<1>4. ASSUME NEW c \in Calls, PlanCopy(c) PROVE Tracked'
  <2> DEFINE mine == load("mine", pos)[1]  seen == calls[c].seen
             legs == planMirror(seen, mine)
             new == NewCall("copy", seen, desired(seen), legs)
  <2>1. c \notin calm
    BY <1>4 DEF PlanCopy, Tracked, OnTrack
  <2>2. seen \in Targets /\ mine \in Positions
    BY <1>4, LoadsMine DEF PlanCopy, SeenTargets, Typed
  <2>3. CASE c \notin calm'
    <3>1. calm' \subseteq calm \cup {c}
      BY <1>4 DEF PlanCopy, calmAfter
    <3> QED
      BY <1>0, <1>2, <1>4, <2>3, <3>1 DEF PlanCopy
  <2>4. CASE c \in calm'
    <3>1. calls' = [calls EXCEPT ![c] = new] /\ calm' = calmAfter(c, mine)
      BY <1>4, <2>1, <2>4 DEF PlanCopy
    <3>2. mine = pos /\ flying = {} /\ calm' \subseteq calm \cup {c}
      BY <2>1, <2>4, <3>1 DEF calmAfter
    <3> HIDE DEF seen, mine
    <3>3. desired(seen) \in [Coins -> Int] /\ legs \in [Coins -> Leg \cup {None}]
      BY <2>2, DesiredTyped, MirrorTyped
    <3>4. new \in Call
      BY <2>2, <3>3, CallTyped
    <3>5. calls'[c] = new
      BY <1>0, <3>1
    <3>6. \A x \in Coins : IF desired(seen)[x] = pos[x] THEN new.legs[x] = None
                           ELSE new.legs[x] = Move(pos[x], desired(seen)[x])
      BY <3>2 DEF NewCall, planMirror
    <3>7. new.goal = desired(seen)
      BY DEF NewCall
    <3> HIDE DEF new, legs
    <3>8. UNCHANGED <<pos, flying>>
      BY <1>4 DEF PlanCopy
    <3>9. OnTrack(c)'
      BY <1>0, <3>2, <3>3, <3>4, <3>5, <3>6, <3>7, <3>8, Planned
    <3> QED
      BY <1>0, <1>2, <3>1, <3>2, <3>8, <3>9
  <2> QED
    BY <2>3, <2>4
<1>5. ASSUME NEW c \in Calls, NEW x \in Coins, PlanClose(c, x) PROVE Tracked'
  <2> DEFINE mine == load("mine", pos)[1]
             goal == [mine EXCEPT ![x] = 0]
             new == NewCall("close", None, goal, closeLeg(x, mine))
  <2>1. c \notin calm
    BY <1>5 DEF PlanClose, Tracked, OnTrack, Running
  <2>2. mine \in Positions
    BY LoadsMine DEF Typed
  <2>3. CASE c \notin calm'
    <3>1. calm' \subseteq calm \cup {c}
      BY <1>5 DEF PlanClose, calmAfter
    <3> QED
      BY <1>0, <1>2, <1>5, <2>3, <3>1 DEF PlanClose
  <2>4. CASE c \in calm'
    <3>1. mine[x] # 0 /\ calls' = [calls EXCEPT ![c] = new] /\ calm' = calmAfter(c, mine)
      BY <1>5, <2>1, <2>4 DEF PlanClose
    <3>2. mine = pos /\ flying = {} /\ calm' \subseteq calm \cup {c}
      BY <2>1, <2>4, <3>1 DEF calmAfter
    <3> HIDE DEF mine
    <3>3. closeLeg(x, mine) = [noLegs EXCEPT ![x] = Move(mine[x], 0)]
      BY <2>2, <3>1, CloseIsMove
    <3>4. goal \in [Coins -> Int] /\ Move(mine[x], 0) \in Leg
      BY <1>0, <3>2, MoveTyped
    <3>5. new \in Call
      BY <3>3, <3>4, CallTyped DEF noLegs
    <3>6. calls'[c] = new
      BY <1>0, <3>1
    <3>7. \A y \in Coins : IF goal[y] = pos[y] THEN new.legs[y] = None
                           ELSE new.legs[y] = Move(pos[y], goal[y])
      BY <1>0, <3>1, <3>2, <3>3 DEF NewCall, noLegs
    <3>8. new.goal = goal
      BY DEF NewCall
    <3> HIDE DEF new, goal
    <3>9. UNCHANGED <<pos, flying>>
      BY <1>5 DEF PlanClose
    <3>10. OnTrack(c)'
      BY <1>0, <3>2, <3>4, <3>5, <3>6, <3>7, <3>8, <3>9, Planned
    <3> QED
      BY <1>0, <1>2, <3>1, <3>2, <3>9, <3>10
  <2> QED
    BY <2>3, <2>4
<1>6. ASSUME NEW c \in Calls, NEW x \in Coins, SendLeg(c, x) PROVE Tracked'
  <2> SUFFICES ASSUME NEW d \in calm PROVE OnTrack(d)'
    BY <1>6 DEF Tracked, SendLeg, ghosts
  <2>1. CASE d = c
    BY <1>6, <2>1, Sent DEF Tracked
  <2>2. CASE d # c
    <3>1. calls'[d] = calls[d] /\ pos' = pos
      BY <1>0, <1>6, <2>2 DEF SendLeg
    <3>2. ASSUME NEW y \in Coins PROVE ordersOf(d, y)' = ordersOf(d, y)
      BY <1>6, <2>2 DEF SendLeg, ordersOf
    <3> QED
      BY <1>1, <3>1, <3>2
  <2> QED
    BY <2>1, <2>2
<1>7. ASSUME NEW c \in Calls, Answered(c) PROVE Tracked'
  <2>1. calls[c] \in Call /\ calls'[c] = [calls[c] EXCEPT !.wait = None]
    BY <1>0, <1>7 DEF Answered, Running
  <2>2. calls'[c] \in Call /\ calls'[c].goal = calls[c].goal
        /\ calls'[c].legs = calls[c].legs /\ calls'[c].refused = calls[c].refused
    BY <2>1 DEF Call
  <2>3. UNCHANGED <<pos, flying, calm>> /\ \A d \in Calls : d # c => calls'[d] = calls[d]
    BY <1>0, <1>7 DEF Answered, ghosts
  <2>4. ASSUME c \in calm PROVE OnTrack(c)'
    BY <2>2, <2>3, <2>4, NoCallAssumption
       DEF Tracked, OnTrack, Running, Pending, OnItsWay, Settled, ordersOf
  <2> QED
    BY <1>2, <2>3, <2>4
<1>8. ASSUME NEW c \in Calls, Return(c) PROVE Tracked'
  BY <1>0, <1>2, <1>8 DEF Return
<1>9. ASSUME NEW o \in flying, NEW n \in 0 .. MaxPos, Execute(o, n) PROVE Tracked'
  <2> SUFFICES ASSUME NEW d \in calm' PROVE OnTrack(d)'
    BY DEF Tracked
  <2>0. /\ o.call \in Calls /\ o.coin \in Coins /\ pos[o.coin] \in Int /\ n \in Nat
        /\ Lot \in Nat \ {0} /\ room(o) \in Nat /\ sideOf(o.leg) \in {1, -1}
    BY <1>0, RoomTyped, Opposite, CopyAssumption DEF Typed, TypeOK, Order
  <2>1. d \in calm /\ calls' = calls
    BY <1>9 DEF Execute, Disturb
  <2>2. CASE d = o.call
    <3>1. n * Lot = room(o)
      <4>1. CASE n = 0
        <5>1. room(o) = 0
          BY <1>9, <2>2, <4>1 DEF Execute
        <5> QED
          BY <2>0, <4>1, <5>1
      <4>2. CASE n # 0
        BY <1>9, <4>2 DEF Execute, Disturb
      <4> QED
        BY <4>1, <4>2
    <3> QED
      BY <1>9, <2>1, <2>2, <3>1, Executed DEF Tracked
  <2>3. CASE d # o.call
    <3>1. n = 0
      BY <1>9, <2>3 DEF Execute, Disturb
    <3>2. pos[o.coin] + sideOf(o.leg) * (n * Lot) = pos[o.coin]
      BY <2>0, <3>1
    <3>3. pos' = pos
      BY <1>0, <1>9, <3>2 DEF Execute
    <3>4. ASSUME NEW y \in Coins PROVE ordersOf(d, y)' = ordersOf(d, y)
      BY <1>9, <2>3 DEF Execute, ordersOf
    <3> QED
      BY <1>1, <2>1, <3>3, <3>4
  <2> QED
    BY <2>2, <2>3
<1>10. CASE calm' = {}
  BY <1>10 DEF Tracked
<1>11. CASE UNCHANGED <<calls, pos, flying, calm>>
  BY <1>1, <1>11 DEF Tracked, ordersOf
<1> QED
  BY <1>3, <1>4, <1>5, <1>6, <1>7, <1>8, <1>9, <1>10, <1>11
     DEF Next, vars, ghosts, ApproveBuilderFeeGuide, UserTrades, TargetTrades, Tick, Disturb

------------------------------------------------------------------------------
LEMMA Invariant == Spec => []IInv
<1>1. Init => IInv
  BY InitTyped DEF Init, IInv, LegsRight, NoncesBelow, Tracked, Running
<1>2. IInv /\ [Next]_vars => IInv'
  BY TypedNext, RightNext, NoncesNext, TrackedNext DEF IInv
<1> QED
  BY <1>1, <1>2, PTL DEF Spec

\* The state keeps its types: what a call knows of an account has every coin,
\* a position is within its bounds, an order is one of a call.
THEOREM CopyTyped == Spec => []TypeOK
<1>1. IInv => TypeOK
  BY DEF IInv, Typed
<1> QED
  BY <1>1, Invariant, PTL

\* A call that read the account as it was, and whose orders alone moved it,
\* leaves every coin within half a lot of its goal, unless the per-order cap
\* refused a leg, which is never an exit (execution.ts, copyWallet; plan.ts,
\* planMirror; exchange.ts, placeOrder and closePosition).
THEOREM InSync == Spec => []EndsInSync
<1>1. IInv => EndsInSync
  <2> SUFFICES ASSUME IInv, NEW c \in Calls, Finished(c), c \in calm, flying = {},
                      NEW x \in Coins
               PROVE  \/ x \in calls[c].refused /\ calls[c].goal[x] # 0
                      \/ 2 * abs(pos[x] - calls[c].goal[x]) <= Lot
    BY DEF EndsInSync
  <2>1. calls[c].legs[x] = None
    BY DEF Finished, noLegs
  <2>2. ordersOf(c, x) = {}
    BY DEF ordersOf
  <2> QED
    BY <2>1, <2>2 DEF IInv, Tracked, OnTrack, Pending, OnItsWay, Settled
<1> QED
  BY <1>1, Invariant, PTL

\* An order that was to shrink or close a position never turns it around or
\* makes it larger, however old the account it was planned from and whatever
\* else trades meanwhile (plan.ts, planMirror; exchange.ts, closePosition).
THEOREM NeverTurns == Spec => ShrinkNeverTurns
<1>1. IInv /\ [Next]_vars =>
        [\A o \in flying \ flying' : shrinks(o.leg.held, o.leg.goal) =>
            /\ pos'[o.coin] * pos[o.coin] >= 0
            /\ abs(pos'[o.coin]) <= abs(pos[o.coin])]_vars
  <2> SUFFICES ASSUME IInv, Next, NEW o \in flying \ flying',
                      shrinks(o.leg.held, o.leg.goal)
               PROVE  /\ pos'[o.coin] * pos[o.coin] >= 0
                      /\ abs(pos'[o.coin]) <= abs(pos[o.coin])
    OBVIOUS
  <2>1. PICK p \in flying, n \in 0 .. MaxPos : Execute(p, n)
    BY DEF Next, BeginCopy, PlanCopy, Answered, Return, PlanClose, SendLeg,
           ApproveBuilderFeeGuide, UserTrades, TargetTrades, Tick
  <2>2. p = o
    BY <2>1 DEF Execute
  <2>3. o.leg.reduceOnly
    <3>1. o.leg = Move(o.leg.held, o.leg.goal)
      BY DEF IInv, LegsRight, Right
    <3>2. shrinks(o.leg.held, o.leg.goal) = TRUE
      BY DEF shrinks
    <3> QED
      BY <3>1, <3>2 DEF Move
  <2> QED
    BY <2>1, <2>2, <2>3, ReducesOnly DEF IInv
<1> QED
  BY <1>1, Invariant, PTL DEF Spec, ShrinkNeverTurns

\* Orders that are on their way together were signed with different nonces,
\* the later the larger (exchange.ts, nextNonce).
THEOREM NoncesGrow == Spec => NoncesIncrease
<1>1. IInv /\ [Next]_vars =>
        [\A o \in flying' \ flying : \A p \in flying : p.nonce < o.nonce]_vars
  <2> SUFFICES ASSUME IInv, Next, NEW o \in flying' \ flying, NEW p \in flying
               PROVE  p.nonce < o.nonce
    OBVIOUS
  <2>1. PICK c \in Calls, x \in Coins : SendLeg(c, x)
    BY DEF Next, BeginCopy, PlanCopy, Answered, Return, PlanClose, Execute,
           ApproveBuilderFeeGuide, UserTrades, TargetTrades, Tick
  <2>2. o.nonce = nextNonce(lastNonce)
    BY <2>1 DEF SendLeg
  <2>3. p.nonce \in Nat /\ lastNonce \in Nat /\ p.nonce <= lastNonce
    BY DEF IInv, Typed, TypeOK, Order, NoncesBelow
  <2>4. nextNonce(lastNonce) \in Nat /\ lastNonce < nextNonce(lastNonce)
    BY <2>1, SendLegTyped DEF IInv
  <2> QED
    BY <2>2, <2>3, <2>4
<1> QED
  BY <1>1, Invariant, PTL DEF Spec, NoncesIncrease
==============================================================================
