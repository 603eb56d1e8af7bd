---------------------------- MODULE Calibration ----------------------------
(***************************************************************************)
(* The evidence for the score (src/smartmoney/calibration.ts): the rank    *)
(* correlation of scores and forward returns, the quartiles and the        *)
(* verdict.  An observation is one with a finite score and return, which   *)
(* are all calibrate keeps.  Ranks are doubled to stay integers; a         *)
(* correlation is kept as a fraction num / sqrt(den2).                     *)
(***************************************************************************)
EXTENDS Integers, Sequences, FiniteSetsExt

CONSTANTS
    MinForRank,     \* 4: fewest observations that are ranked
    MinForVerdict   \* 30: fewest a verdict is given for

ASSUME CalibrationAssumption == MinForRank \in Nat /\ MinForVerdict \in Nat

\* The place of i when xs is sorted, equal values in their first order.
place(xs, i) ==
    Cardinality({j \in 1 .. Len(xs) : xs[j] < xs[i] \/ (xs[j] = xs[i] /\ j <= i)})

\* The indices of xs in that order.
sorted(xs) == [k \in 1 .. Len(xs) |-> CHOOSE i \in 1 .. Len(xs) : place(xs, i) = k]

\* rankWithTies, doubled: the mean of the places its run of equals takes.
rankWithTies(xs) ==
    LET run(i) == {place(xs, k) : k \in {k \in 1 .. Len(xs) : xs[k] = xs[i]}}
    IN  [i \in 1 .. Len(xs) |-> Min(run(i)) + Max(run(i))]

total(f) == MapThenSumSet(LAMBDA i : f[i], 1 .. Len(f))

\* The sum of the products of the distances from the means, times their number.
covariance(a, b) ==
    Len(a) * total([i \in 1 .. Len(a) |-> a[i] * b[i]]) - total(a) * total(b)

\* spearman: the correlation of the ranks, 0 when either has no spread.
spearman(xs, ys) ==
    LET ra == rankWithTies(xs)
        rb == rankWithTies(ys)
        num == covariance(ra, rb)
        den2 == covariance(ra, ra) * covariance(rb, rb)
    IN  IF den2 = 0 THEN [num |-> 0, den2 |-> 1] ELSE [num |-> num, den2 |-> den2]

\* r > tenths / 10, and r < -tenths / 10.
above(r, tenths) == r.num > 0 /\ 100 * r.num * r.num > tenths * tenths * r.den2
below(r, tenths) == r.num < 0 /\ 100 * r.num * r.num > tenths * tenths * r.den2

quarter(n, q) ==
    IF q = 4 THEN 3 * (n \div 4) + 1 .. n
    ELSE (q - 1) * (n \div 4) + 1 .. q * (n \div 4)

verdictOf(r, n, significant) ==
    CASE n < MinForVerdict -> "insufficient_data"
      [] n >= MinForVerdict /\ ~significant -> "no_evidence"
      [] OTHER -> CASE above(r, 2) -> "positive"
                    [] below(r, 2) -> "inverted"
                    [] above(r, 1) /\ ~above(r, 2) -> "weak_positive"
                    [] OTHER -> "no_evidence"

scoresOf(obs) == [i \in 1 .. Len(obs) |-> obs[i].score]
returnsOf(obs) == [i \in 1 .. Len(obs) |-> obs[i].forwardReturn]

\* calibrate; significant: is the p-value below 0.05?
calibrate(usable, significant) ==
    LET n == Len(usable)
        scores == scoresOf(usable)
        returns == returnsOf(usable)
        r == spearman(scores, returns)
        order == sorted(scores)
        quartile(q) == [k \in quarter(n, q) |-> usable[order[k]]]
    IN  IF n < MinForRank THEN [n |-> n, verdict |-> "insufficient_data"]
        ELSE [n |-> n, spearman |-> r,
              quartiles |-> [q \in 1 .. 4 |-> quartile(q)],
              verdict |-> verdictOf(r, n, significant)]

------------------------------------------------------------------------------
\* What the ranks must be: twice the mean place among all values.
midRank(xs) ==
    [i \in 1 .. Len(xs) |->
        2 * Cardinality({j \in 1 .. Len(xs) : xs[j] < xs[i]})
            + Cardinality({j \in 1 .. Len(xs) : xs[j] = xs[i]}) + 1]

\* Ranks are mean places, also in ties (calibration.ts, rankWithTies).
RanksAreMidRanks(xs) == rankWithTies(xs) = midRank(xs)

mirror(obs) == [i \in 1 .. Len(obs) |-> [obs[i] EXCEPT !.forwardReturn = -@]]

\* What negating every return makes of a verdict.
turned(verdict) ==
    CASE verdict = "positive" -> {"inverted"}
      [] verdict = "inverted" -> {"positive"}
      [] verdict = "weak_positive" -> {"no_evidence"}
      [] verdict = "no_evidence" -> {"no_evidence", "weak_positive"}
      [] OTHER -> {verdict}

\* The evidence against a score is judged as that for it where it is strong:
\* negated returns turn "positive" into "inverted" and back.  It is not where it
\* is weak: "weak_positive" has no opposite, a correlation of that size against
\* the score is "no_evidence" (calibration.ts:175-183; cf. 29-34).
VerdictTurns(obs, significant, report) ==
    calibrate(mirror(obs), significant).verdict \in turned(report.verdict)

\* Every usable observation is in one quartile, and quartiles do not overlap in
\* score (calibration.ts, calibrate).
QuartilesPartition(c) ==
    c.n >= MinForRank =>
        /\ \A k \in 1 .. c.n : \E q \in 1 .. 4 : k \in DOMAIN c.quartiles[q]
        /\ \A p, q \in 1 .. 4 : p < q =>
              \A j \in DOMAIN c.quartiles[p], k \in DOMAIN c.quartiles[q] :
                  j # k /\ c.quartiles[p][j].score <= c.quartiles[q][k].score
==============================================================================
