------------------------------ MODULE Listings ------------------------------
(***************************************************************************)
(* Lists that tools cut to size: pages (paginate of src/core/format.ts),   *)
(* the PnL curve of a trader report, and the markets of the builder dexes  *)
(* (src/tools/premium/hip3Analytics.ts).                                   *)
(***************************************************************************)
EXTENDS Integers, Sequences, SequencesExt, FiniteSetsExt, Selections

CONSTANTS
    MaxDexs,        \* MAX_DEXS
    NoOffset,       \* nextOffset null
    NoFilter        \* no dex asked for

ASSUME ListingsAssumption == MaxDexs \in Nat /\ NoOffset \notin Nat

paginate(all, start, limit) ==
    [items |-> SubSeq(all, start + 1, Min({start + limit, Len(all)})),
     nextOffset |-> IF start + limit < Len(all) THEN start + limit ELSE NoOffset]

\* points steps of equal width, and the last value.
downsample(arr, points) ==
    IF Len(arr) <= points THEN arr
    ELSE Append([i \in 1 .. points |-> arr[((i - 1) * Len(arr)) \div points + 1]],
                Last(arr))

\* collectHip3Rows: rows of the main universe, overridden by those of each dex
\* that answers; a coin is [dex, name], a row a coin and where it comes from.
collectHip3Rows(main, dexNames, filter, failing, live) ==
    LET asked == pick(dexNames, {i \in DOMAIN dexNames : filter \in {NoFilter, dexNames[i]}})
        tried == SubSeq(asked, 1, Min({MaxDexs, Len(asked)}))
        scanned == ToSet(tried) \ failing
        own == {c \in live : c.dex \in scanned}
        rows == {[coin |-> c, from |-> c.dex] : c \in own}
                    \cup {[coin |-> c, from |-> "main"] : c \in main \ own}
    IN  [rows |-> {r \in rows : filter = NoFilter \/ r.coin.dex = filter},
         scanned |-> scanned,
         failed |-> ToSet(tried) \cap failing,
         notScanned |-> ToSet(asked) \ ToSet(tried)]

------------------------------------------------------------------------------
\* Following nextOffset from the start returns every item once, in order
\* (format.ts, paginate).
PagesAreTheList(all, limit) ==
    LET from[o \in 0 .. Len(all)] ==
            LET page == paginate(all, o, limit)
            IN  page.items \o (IF page.nextOffset = NoOffset THEN <<>>
                               ELSE from[page.nextOffset])
    IN  from[0] = all

\* A curve keeps its ends and its order, and no point twice (traderReport.ts,
\* downsample).
CurveIsFaithful(n, points) ==
    LET curve == downsample([i \in 1 .. n |-> i], points)
    IN  n > 0 => /\ Head(curve) = 1 /\ Last(curve) = n
                 /\ \A i, j \in DOMAIN curve : i < j => curve[i] < curve[j]
                 /\ Len(curve) <= points + 1

\* Each dex asked for is reported as scanned, failed or not scanned, and a
\* market that is missing belongs to a dex that is not reported as scanned
\* (hip3Analytics.ts, collectHip3Rows).
Hip3Accounted(dexNames, filter, live, r) ==
    /\ r.scanned \cap r.failed = {} /\ r.notScanned \cap (r.scanned \cup r.failed) = {}
    /\ \A d \in ToSet(dexNames) : filter \in {NoFilter, d} =>
          d \in r.scanned \cup r.failed \cup r.notScanned
    /\ \A c \in live : c.dex \in r.scanned =>
          [coin |-> c, from |-> c.dex] \in r.rows
    /\ \A x, y \in r.rows : x.coin = y.coin => x = y
==============================================================================
