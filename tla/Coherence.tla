------------------------------ MODULE Coherence ------------------------------
(***************************************************************************)
(* Prices of prediction markets that cannot all be right                   *)
(* (src/polymarket/coherence.ts), as hl_polymarket_divergence uses them    *)
(* (src/tools/premium/polymarketDivergence.ts): of the listings of one     *)
(* contract the most liquid is kept, then every pair of thresholds of one  *)
(* mode and end date is compared.  An entry is a record of mode, endDate,  *)
(* threshold, yesProb (None for a price out of range) and liquidity.       *)
(***************************************************************************)
EXTENDS Integers, Sequences, SequencesExt, FiniteSetsExt

CONSTANTS MaxReported, NoPrice

ASSUME CoherenceAssumption == MaxReported \in Nat \ {0} /\ NoPrice \notin Int

isUpward(mode) == mode \in {"above", "touch"}

contract(e) == <<e.mode, e.endDate, e.threshold>>

\* dedupeLadderEntries: of one contract's listings the first of the most liquid.
dedupeLadderEntries(entries) ==
    LET kept(i) == \A j \in DOMAIN entries :
            contract(entries[j]) = contract(entries[i]) =>
                \/ entries[j].liquidity < entries[i].liquidity
                \/ entries[j].liquidity = entries[i].liquidity /\ i <= j
    IN  [unique |-> {i \in DOMAIN entries : kept(i)}]

\* Is a nearer than b on the ladder both are on?
nearer(a, b) ==
    /\ a.mode = b.mode /\ a.endDate = b.endDate
    /\ IF isUpward(a.mode) THEN a.threshold < b.threshold ELSE a.threshold > b.threshold

\* findLadderViolations: all pairs; the further outcome is priced higher.
violations(entries, ids) ==
    {p \in ids \X ids :
        LET a == entries[p[1]]  b == entries[p[2]]
        IN  /\ a.yesProb # NoPrice /\ b.yesProb # NoPrice
            /\ nearer(a, b) /\ b.yesProb > a.yesProb}

gap(entries, p) == entries[p[2]].yesProb - entries[p[1]].yesProb

\* The MaxReported widest.
findLadderViolations(entries, ids) ==
    LET V == violations(entries, ids)
        size == Min({MaxReported, Cardinality(V)})
    IN  CHOOSE W \in SUBSET V :
            /\ Cardinality(W) = size
            /\ \A p \in W, q \in V \ W : gap(entries, p) >= gap(entries, q)

\* hl_polymarket_divergence, up to the pricing model: what it reports of the
\* market's own prices.
report(entries) ==
    LET ids == dedupeLadderEntries(entries).unique
    IN  [unique |-> ids, violations |-> findLadderViolations(entries, ids)]

------------------------------------------------------------------------------
\* The prices of a ladder are possible: some price falls along it.
possible(entries, ids) ==
    \A i, j \in ids :
        /\ entries[i].yesProb # NoPrice /\ entries[j].yesProb # NoPrice
        /\ nearer(entries[i], entries[j])
        => entries[j].yesProb <= entries[i].yesProb

\* One listing of each contract is left, none more liquid was dropped; nothing is
\* reported of prices that are possible, and taking one end of every reported
\* pair away leaves prices that are possible (coherence.ts).
ReportIsSound(entries) ==
    LET r == report(entries)  ids == r.unique
    IN  /\ \A i \in DOMAIN entries :
              \E k \in ids : /\ contract(entries[k]) = contract(entries[i])
                             /\ entries[k].liquidity >= entries[i].liquidity
        /\ \A i, k \in ids : contract(entries[i]) = contract(entries[k]) => i = k
        /\ (r.violations = {}) <=> possible(entries, ids)
        /\ Cardinality(r.violations) < MaxReported =>
              possible(entries, ids \ {p[2] : p \in r.violations})
==============================================================================
