----------------------------- MODULE HouseAlerts -----------------------------
(***************************************************************************)
(* The server's own alerts (src/alerts/house.ts): at the start and once a  *)
(* day ensureHouseAlerts brings them in line with the coins of the highest *)
(* open interest.  The market is awaited first; then the alerts are listed *)
(* and, one statement after the other, deleted and created.  The process   *)
(* may die between two statements, and the next one starts over.           *)
(***************************************************************************)
EXTENDS Integers, FiniteSets

CONSTANTS
    MarketCoins,
    FundingCoins,   \* FUNDING_COINS: how many coins are at the top
    WhaleFlipCoins, \* WHALE_FLIP_COINS
    MaxMoves,       \* bound: changes of the ranking
    MaxHouseCrashes,
    NoRefresh       \* no refresh in progress

ASSUME HouseAssumption ==
    /\ FundingCoins \in Nat /\ WhaleFlipCoins \subseteq MarketCoins
    /\ MaxMoves \in Nat /\ MaxHouseCrashes \in Nat

VARIABLES
    top,            \* coins at the top of the market
    house,          \* alerts of the subject "house": how many of each
    refresh,        \* the statements a refresh has still to run
    moves, houseCrashes

houseVars == <<top, house, refresh, moves, houseCrashes>>

Alert == {"funding_apr", "whale_net_flip"} \X MarketCoins
Tops == {T \in SUBSET MarketCoins : Cardinality(T) = FundingCoins}

HouseTypeOK ==
    /\ top \in Tops
    /\ house \in [Alert -> 0 .. 2]
    /\ refresh \in [delete : SUBSET Alert, create : SUBSET Alert] \cup {NoRefresh}
    /\ moves \in 0 .. MaxMoves /\ houseCrashes \in 0 .. MaxHouseCrashes

\* The database may hold what an earlier process left.
HouseInit ==
    /\ top \in Tops
    /\ house \in [Alert -> 0 .. 1]
    /\ \A c \in MarketCoins \ WhaleFlipCoins : house[<<"whale_net_flip", c>>] = 0
    /\ refresh = NoRefresh
    /\ moves = 0 /\ houseCrashes = 0

\* The alerts there are to be for the coins T.
wanted(T) ==
    ({"funding_apr"} \X T) \cup ({"whale_net_flip"} \X WhaleFlipCoins)

marketMoves ==
    /\ moves < MaxMoves
    /\ top' \in Tops \ {top}
    /\ moves' = moves + 1
    /\ UNCHANGED <<house, refresh, houseCrashes>>

\* Mutant: what is there already is not looked at.
toCreateAll == wanted(top)

existing == {a \in Alert : house[a] > 0}

toDelete == {a \in existing : a[1] = "funding_apr" /\ a[2] \notin top}
toCreate == wanted(top) \ existing

\* The market has answered: the alerts are listed, the work is known.  A market
\* that fails ends the refresh without a trace.
ensureHouseAlerts ==
    /\ refresh = NoRefresh
    /\ refresh' = [delete |-> toDelete, create |-> toCreate]
    /\ UNCHANGED <<top, house, moves, houseCrashes>>

\* One statement: deletes come first.
statement ==
    /\ refresh # NoRefresh
    /\ \/ \E a \in refresh.delete :
            /\ house' = [house EXCEPT ![a] = 0]
            /\ refresh' = [refresh EXCEPT !.delete = @ \ {a}]
       \/ \E a \in refresh.create :
            /\ refresh.delete = {} /\ house[a] < 2
            /\ house' = [house EXCEPT ![a] = @ + 1]
            /\ refresh' = [refresh EXCEPT !.create = @ \ {a}]
       \/ /\ refresh.delete = {} /\ refresh.create = {}
          /\ refresh' = NoRefresh
          /\ UNCHANGED house
    /\ UNCHANGED <<top, moves, houseCrashes>>

dies ==
    /\ refresh # NoRefresh /\ houseCrashes < MaxHouseCrashes
    /\ refresh' = NoRefresh
    /\ houseCrashes' = houseCrashes + 1
    /\ UNCHANGED <<top, house, moves>>

HouseNext == marketMoves \/ ensureHouseAlerts \/ statement \/ dies

\* The timer goes on, some refresh finds the market, and its statements run.
HouseFairness == WF_houseVars(ensureHouseAlerts) /\ WF_houseVars(statement)

------------------------------------------------------------------------------
\* If the ranking stays, so do in the end exactly the alerts it asks for, one
\* of each, whatever crashes left half done (house.ts, ensureHouseAlerts).
HouseFollowsTheMarket ==
    \A T \in Tops :
        <>[](top = T) => <>[](house = [a \in Alert |-> IF a \in wanted(T) THEN 1 ELSE 0])
==============================================================================
