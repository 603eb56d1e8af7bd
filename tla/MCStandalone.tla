---------------------------- MODULE MCStandalone ----------------------------
(***************************************************************************)
(* Five components that share no state with each other: a behaviour works  *)
(* one of them, which part names, and leaves the others at rest.           *)
(***************************************************************************)
EXTENDS AnalyticTools, Paging, WhaleFlow, HouseAlerts, MidsFeed

CONSTANTS w1, w2, w3, w4, x1, x2, x3

VARIABLE part

vars == <<answer, pagingVars, flowVars, houseVars, feedVars, part>>

\* Values of the constants.
McHalves == {0, 1, 2, 3, 4, 5, 7, 10}
McGroup == <<w1, w2, w3, w4>>
McPairs == {p \in SUBSET {w1, w2, w3, w4} : Cardinality(p) = 2}
McContracts ==
    [mode : {"above", "below"}, endDate : {1}, threshold : 1 .. 2]
    \cup {[mode |-> "touch", endDate |-> 1, threshold |-> 1]}
McValues == {-1, 2}
McDexs == <<x1, x2, x3>>
McTimes == 0 .. 3

------------------------------------------------------------------------------
PagingRest ==
    /\ entries = <<>> /\ rows = {} /\ count = 0
    /\ request = [kind |-> "fills", start |-> 0, end |-> OpenEnd, known |-> 0]
    /\ cursor = 0 /\ page = 0 /\ done = FALSE

FlowRest ==
    /\ persistent = TRUE
    /\ positions = [w \in FlowWallets |-> [c \in FlowCoins |-> 0]]
    /\ price = [c \in FlowCoins |-> 1]
    /\ series = [c \in FlowCoins |-> <<>>]
    /\ flowCalls = [k \in FlowCalls |-> NoView]
    /\ flowAnswer = NoView /\ flowNow = 0
    /\ changedAt = [c \in FlowCoins |-> 0]

HouseRest ==
    /\ top = CHOOSE T \in Tops : TRUE
    /\ house = [a \in Alert |-> IF a \in wanted(top) THEN 1 ELSE 0]
    /\ refresh = NoRefresh /\ moves = 0 /\ houseCrashes = 0

Init ==
    /\ part \in {"tools", "paging", "flow", "house", "feed"}
    /\ AnalyticInit /\ FeedInit
    /\ IF part = "paging" THEN PagingInit ELSE PagingRest
    /\ IF part = "flow" THEN FlowInit ELSE FlowRest
    /\ IF part = "house" THEN HouseInit ELSE HouseRest

Tools ==
    /\ part = "tools" /\ AnalyticNext
    /\ UNCHANGED <<pagingVars, flowVars, houseVars, feedVars, part>>
PagedRead ==
    /\ part = "paging" /\ PagingNext
    /\ UNCHANGED <<answer, flowVars, houseVars, feedVars, part>>
Flow ==
    /\ part = "flow" /\ FlowNext
    /\ UNCHANGED <<answer, pagingVars, houseVars, feedVars, part>>
House(A) ==
    /\ part = "house" /\ A
    /\ UNCHANGED <<answer, pagingVars, flowVars, feedVars, part>>
Feed(A) ==
    /\ part = "feed" /\ A
    /\ UNCHANGED <<answer, pagingVars, flowVars, houseVars, part>>

Next == Tools \/ PagedRead \/ Flow \/ House(HouseNext) \/ Feed(FeedNext)

\* HouseFairness and FeedFairness, of the part that is at work.
Fairness ==
    /\ WF_vars(House(ensureHouseAlerts)) /\ WF_vars(House(statement))
    /\ WF_vars(Feed(reconnect))

Spec == Init /\ [][Next]_vars /\ Fairness
==============================================================================
