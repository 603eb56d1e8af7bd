--------------------------- MODULE AnalyticTools ---------------------------
(***************************************************************************)
(* The tools that answer from data alone: each call works out its answer   *)
(* in one step.  The inputs are all there are over small sets; answer is   *)
(* the last call and what it returned.                                     *)
(***************************************************************************)
EXTENDS Planning, Calibration, Coordination, Coherence, LiquidationMap, Listings

CONSTANTS
    Halves, Slices, Durations, SizeCaps,    \* arguments of hl_twap_order
    Scores, Returns, Samples,               \* observations: how many, and values
    Group, Pairs,                           \* wallets in order, pairs that may be linked
    Contracts, Prices, Liquidities, Listings,
    LiquidationPrices, Values,              \* of positions; 0 for no price
    Dexs,                                   \* builder dexes in order
    MaxItems,                               \* bound: items of a list
    NoAnswer

ASSUME AnalyticAssumption ==
    /\ Halves \subseteq Nat /\ Slices \subseteq Nat \ {0} /\ Durations \subseteq Nat
    /\ SizeCaps \subseteq Int
    /\ Scores \subseteq Int /\ Returns \subseteq Int /\ Samples \subseteq Nat
    /\ Group \in Seq(ToSet(Group)) /\ Dexs \in Seq(ToSet(Dexs))
    /\ \A c \in Contracts : c.threshold \in Int
    /\ Prices \subseteq Int \cup {NoPrice} /\ Liquidities \subseteq Int /\ Listings \in Nat
    /\ LiquidationPrices \subseteq Nat /\ Values \subseteq Int
    /\ MaxItems \in Nat

VARIABLE answer

AnalyticInit == answer = NoAnswer

TwapArgs == [halves : Halves, slices : Slices, duration : Durations,
             reduceOnly : BOOLEAN, live : BOOLEAN]

hl_twap_order ==
    \E args \in TwapArgs, cap \in SizeCaps, maySubmit \in BOOLEAN :
        answer' = [tool |-> "twap", args |-> args, cap |-> cap,
                   result |-> twapOrder(args, cap, maySubmit)]

iceberg ==
    \E t \in Halves, clip \in Halves :
        answer' = [tool |-> "iceberg", total |-> t, clip |-> clip,
                   result |-> planIceberg(t, clip, 1)]

\* significant is the p-value's verdict.
hl_score_calibration ==
    \E n \in Samples :
        \E scores \in [1 .. n -> Scores], returns \in [1 .. n -> Returns],
           significant \in BOOLEAN :
            LET obs == [i \in 1 .. n |-> [score |-> scores[i],
                                        forwardReturn |-> returns[i]]]
            IN  answer' = [tool |-> "calibration", obs |-> obs,
                           significant |-> significant,
                           result |-> calibrate(obs, significant)]

hl_coordination ==
    \E linked \in SUBSET Pairs :
        answer' = [tool |-> "coordination", linked |-> linked,
                   pairs |-> linkedPairs(Group, linked), parent |-> alone(Group)]

\* The next linked pair is joined: the loop of detectCoordination.
joinPair ==
    /\ answer # NoAnswer /\ answer.tool = "coordination" /\ answer.pairs # <<>>
    /\ answer' = [answer EXCEPT
                    !.pairs = Tail(@),
                    !.parent = union(@, Head(answer.pairs)[1], Head(answer.pairs)[2])]

hl_polymarket_divergence ==
    \E contracts \in [1 .. Listings -> Contracts], probs \in [1 .. Listings -> Prices],
       liquid \in [1 .. Listings -> Liquidities] :
        answer' = [tool |-> "divergence",
                   entries |-> [i \in 1 .. Listings |->
                       [mode |-> contracts[i].mode, endDate |-> contracts[i].endDate,
                        threshold |-> contracts[i].threshold,
                        yesProb |-> probs[i], liquidity |-> liquid[i]]]]

Positions ==
    [sameCoin : {TRUE}, liquidationPx : LiquidationPrices, value : Values]
    \cup {[sameCoin |-> FALSE, liquidationPx |-> mark, value |-> 1]}

hl_liquidation_map ==
    \E positions \in [1 .. 3 -> Positions], bucketPct \in 2 .. 3, distance \in {0, 3} :
        answer' = [tool |-> "liquidations", positions |-> positions, distance |-> distance,
                   result |-> liquidationMap(positions, bucketPct, distance)]

\* A coin of the main universe's own list is one of the first dex's.
hl_hip3_analytics ==
    LET Coin == [dex : ToSet(Dexs), name : {"a"}]
    IN  \E failing \in SUBSET ToSet(Dexs), filter \in ToSet(Dexs) \cup {NoFilter},
           live \in SUBSET Coin, main \in SUBSET {c \in Coin : c.dex = Dexs[1]},
           names \in {Dexs, <<>>} :
            answer' = [tool |-> "hip3", names |-> names, filter |-> filter, live |-> live,
                       result |-> collectHip3Rows(main, names, filter, failing, live)]

\* A list of n items, a page of limit of them; a curve of as many points.
pagedList ==
    \E n \in 0 .. MaxItems, limit \in 1 .. MaxItems :
        answer' = [tool |-> "list", n |-> n, limit |-> limit]

AnalyticNext ==
    \/ /\ answer = NoAnswer
       /\ \/ hl_twap_order \/ iceberg \/ hl_score_calibration
          \/ hl_coordination \/ hl_polymarket_divergence
          \/ hl_liquidation_map \/ hl_hip3_analytics \/ pagedList
    \/ joinPair

AnalyticSpec == AnalyticInit /\ [][AnalyticNext]_answer

------------------------------------------------------------------------------
sizesOf(children) == [i \in DOMAIN children |-> children[i].size]

sumOfSizes(children) ==
    MapThenSumSet(LAMBDA i : sizesOf(children)[i], DOMAIN children)

\* What is scheduled is what was asked: as many slices, that add up to the total
\* rounded to the lot, differ by at most a lot, none empty, in order within the
\* duration (plan.ts, planTwap; execution.ts, hl_twap_order).
ScheduleIsExact(a) ==
    LET c == a.result.children
    IN  a.result.mode \in {"scheduled", "dry_run", "blocked"} =>
          /\ Len(c) = a.args.slices
          /\ sumOfSizes(c) = roundToLots(a.args.halves)
          /\ \A i, j \in DOMAIN c : c[i].size - c[j].size <= 1 /\ c[i].size > 0
          /\ \A i, j \in DOMAIN c : i < j => c[i].at <= c[j].at
          /\ c[Len(c)].at <= a.args.duration
          /\ a.args.reduceOnly \/ \A i \in DOMAIN c : c[i].size <= a.cap

ClipsAreExact(a) ==
    a.total > 0 /\ a.clip > 0 =>
        /\ sumOfSizes(a.result) = a.total
        /\ \A i \in DOMAIN a.result : a.result[i].size \in 1 .. a.clip

EvidenceIsRight(a) ==
    /\ RanksAreMidRanks(scoresOf(a.obs)) /\ RanksAreMidRanks(returnsOf(a.obs))
    /\ VerdictTurns(a.obs, a.significant, a.result)
    /\ QuartilesPartition(a.result)

\* Every answer is what an independent definition of it says: schedules, ranks,
\* quartiles, clusters, impossible prices, liquidation bins and pages; a verdict
\* is held against the one on the negated returns.
AnswersAreRight ==
    answer # NoAnswer =>
        CASE answer.tool = "twap" -> ScheduleIsExact(answer)
          [] answer.tool = "iceberg" -> ClipsAreExact(answer)
          [] answer.tool = "calibration" -> EvidenceIsRight(answer)
          [] answer.tool = "coordination" ->
                answer.pairs = <<>> => ClustersAreComponents(answer.parent, answer.linked)
          [] answer.tool = "divergence" -> ReportIsSound(answer.entries)
          [] answer.tool = "liquidations" ->
                MapIsSound(answer.positions, answer.distance, answer.result)
          [] answer.tool = "hip3" ->
                Hip3Accounted(answer.names, answer.filter, answer.live, answer.result)
          [] answer.tool = "list" ->
                /\ PagesAreTheList([i \in 1 .. answer.n |-> i], answer.limit)
                /\ CurveIsFaithful(answer.n, answer.limit)
==============================================================================
