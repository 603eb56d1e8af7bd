--------------------------- MODULE LiquidationMap ---------------------------
(***************************************************************************)
(* hl_liquidation_map (src/tools/premium/liquidationMap.ts): liquidation   *)
(* prices of the cohort's positions in bins by their distance from the     *)
(* mark, in percent of it; the mark is 100.                                *)
(***************************************************************************)
EXTENDS Integers, Sequences, FiniteSetsExt

CONSTANTS NoCluster

ASSUME ClusterAssumption ==
    NoCluster \notin [side : {"downside", "upside"}, pxLow : Int, pxHigh : Int,
                      notional : Nat, positions : Nat]

mark == 100

abs(x) == IF x < 0 THEN -x ELSE x

\* The positions that count: of the market's coin, with a liquidation price (0
\* for none) within maxDistance of the mark.
considered(positions, maxDistance) ==
    {i \in DOMAIN positions :
        /\ positions[i].sameCoin /\ positions[i].liquidationPx > 0
        /\ abs(positions[i].liquidationPx - mark) <= maxDistance}

\* A bin's key: its side and index.
binOf(p, bucketPct) ==
    [side |-> IF p.liquidationPx < mark THEN "downside" ELSE "upside",
     index |-> abs(p.liquidationPx - mark) \div bucketPct]

notionals(positions) == [i \in DOMAIN positions |-> abs(positions[i].value)]

\* What the positions ids are worth, added up.
worth(positions, ids) == MapThenSumSet(LAMBDA i : notionals(positions)[i], ids)

bucketOf(positions, key, ids, bucketPct) ==
    LET members == {i \in ids : binOf(positions[i], bucketPct) = key}
        low == key.index * bucketPct
        high == low + bucketPct
    IN  [side |-> key.side,
         pxLow |-> IF key.side = "downside" THEN mark - high ELSE mark + low,
         pxHigh |-> IF key.side = "downside" THEN mark - low ELSE mark + high,
         notional |-> worth(positions, members),
         positions |-> Cardinality(members)]

nearestOf(buckets, side) ==
    LET S == {b \in buckets : b.side = side}
    IN  IF S = {} THEN NoCluster
        ELSE CHOOSE b \in S : \A c \in S :
                IF side = "downside" THEN b.pxHigh >= c.pxHigh ELSE b.pxLow <= c.pxLow

liquidationMap(positions, bucketPct, maxDistance) ==
    LET ids == considered(positions, maxDistance)
        buckets == {bucketOf(positions, key, ids, bucketPct) :
                        key \in {binOf(positions[i], bucketPct) : i \in ids}}
    IN  [considered |-> Cardinality(ids),
         totalNotional |-> worth(positions, ids),
         nearestDownside |-> nearestOf(buckets, "downside"),
         nearestUpside |-> nearestOf(buckets, "upside"),
         buckets |-> buckets]

------------------------------------------------------------------------------
holds(b, px) ==
    IF b.side = "downside" THEN b.pxLow < px /\ px <= b.pxHigh /\ px < mark
    ELSE b.pxLow <= px /\ px < b.pxHigh

\* The price ranges of the bins tell where the liquidations are: each price that
\* counts is in the range of one bin, bins add up to the totals, and no counted
\* price lies between the mark and the nearest cluster (liquidationMap.ts, run).
MapIsSound(positions, maxDistance, m) ==
    LET ids == considered(positions, maxDistance)
        px(i) == positions[i].liquidationPx
        held == [b \in m.buckets |-> b.notional]
    IN  /\ \A i \in ids : Cardinality({b \in m.buckets : holds(b, px(i))}) = 1
        /\ \A b \in m.buckets :
              b.positions = Cardinality({i \in ids : holds(b, px(i))})
        /\ MapThenSumSet(LAMBDA b : held[b], m.buckets) = m.totalNotional
        /\ \A i \in ids : px(i) < mark =>
              m.nearestDownside # NoCluster /\ px(i) <= m.nearestDownside.pxHigh
        /\ \A i \in ids : px(i) >= mark =>
              m.nearestUpside # NoCluster /\ px(i) >= m.nearestUpside.pxLow
==============================================================================
