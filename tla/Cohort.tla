------------------------------- MODULE Cohort -------------------------------
(***************************************************************************)
(* The server-chosen cohort: table whale_cohort (src/store/cohortStore.ts), *)
(* replaced by the refresher (src/hl/cohortRefresh.ts) with the ranking of  *)
(* a leaderboard (src/hl/cohortRank.ts) and read by resolveCohort           *)
(* (src/hl/cohort.ts), which falls back on other sources when it is old.    *)
(***************************************************************************)
EXTENDS Timeline, Sequences, SequencesExt

CONSTANTS
    Boards,         \* payloads the leaderboard may answer: sequences of rows
    TopN,           \* HL_COHORT_SIZE and HL_SCORE_SAMPLE_SIZE
    MinEquity,      \* HL_COHORT_MIN_EQUITY
    FreshAge,       \* MAX_AUTO_AGE_SECONDS
    StaleAge,       \* MAX_STALE_AUTO_AGE_SECONDS
    EnvCohort,      \* HL_WHALE_ADDRESSES, in order
    LastRefresh     \* bound: last time a refresh begins

\* A row of the leaderboard; wallet is None when it has no valid address.
BoardRow == [wallet : Wallets \cup {None}, equity : Nat]

ASSUME CohortAssumption ==
    /\ Boards \subseteq Seq(BoardRow)
    /\ {TopN, MinEquity, FreshAge, StaleAge, LastRefresh} \subseteq Nat
    /\ EnvCohort \in Seq(Wallets)
    /\ None \notin Wallets

VARIABLES
    cohort,         \* table whale_cohort: wallets by rank
    refreshedAt,
    refreshing      \* is a refresh awaiting the leaderboard?

cohortVars == <<cohort, refreshedAt, refreshing, clock>>

CohortTypeOK ==
    /\ cohort \in Seq(Wallets) /\ IsInjective(cohort) /\ Len(cohort) <= TopN
    /\ refreshedAt \in 0 .. MaxTime
    /\ refreshing \in BOOLEAN
    /\ clock \in 0 .. MaxTime

CohortInit ==
    /\ cohort = <<>> /\ refreshedAt = 0
    /\ refreshing = FALSE /\ clock = 0

upTo(s, n) == SubSeq(s, 1, IF Len(s) < n THEN Len(s) ELSE n)

\* rankCohort: the first row of a wallet that passes the filter counts; sorted
\* by rankBy, ties in the order of the payload; the first TopN.
rankCohort(rows) ==
    LET passes(i) == rows[i].wallet # None /\ rows[i].equity >= MinEquity
        first == {i \in DOMAIN rows :
                    passes(i) /\ \A j \in 1 .. i - 1 : ~(passes(j) /\ rows[j].wallet = rows[i].wallet)}
        order == SetToSortSeq(first, LAMBDA i, j :
                    rows[i].equity > rows[j].equity \/ (rows[i].equity = rows[j].equity /\ i < j))
    IN  upTo([k \in DOMAIN order |-> rows[order[k]].wallet], TopN)

\* refresh: one at a time.
BeginRefresh ==
    /\ ~refreshing /\ refreshing' = TRUE
    /\ clock <= LastRefresh
    /\ UNCHANGED <<cohort, refreshedAt, clock>>

\* The answer is ranked and replaces the table in one transaction; a bad
\* answer, an empty one and one that nothing of passes leave it as it was.
EndRefresh(rows) ==
    /\ refreshing /\ refreshing' = FALSE
    /\ IF rankCohort(rows) # <<>>
       THEN cohort' = rankCohort(rows) /\ refreshedAt' = clock
       ELSE UNCHANGED <<cohort, refreshedAt>>
    /\ UNCHANGED clock

\* fetchLeaderboard: the wallets with the largest accounts, unfiltered.
fetchLeaderboard(rows) ==
    LET valid == {i \in DOMAIN rows : rows[i].wallet # None}
        order == SetToSortSeq(valid, LAMBDA i, j :
                    rows[i].equity > rows[j].equity \/ (rows[i].equity = rows[j].equity /\ i < j))
        best  == SelectSeq([k \in DOMAIN order |-> k], LAMBDA k :
                    \A j \in 1 .. k - 1 : rows[order[j]].wallet # rows[order[k]].wallet)
    IN  upTo([k \in DOMAIN best |-> rows[order[best[k]]].wallet], TopN)

resolution(source, ws) == [source |-> source, wallets |-> ws]

\* resolveCohort without an argument, the leaderboard answering rows (empty
\* when it fails): the fresh table, the configured wallets, the leaderboard,
\* the stale table, no cohort.
resolveCohort(rows) ==
    LET age == clock - refreshedAt
    IN  IF cohort # <<>> /\ age <= FreshAge THEN resolution("auto", cohort)
        ELSE IF EnvCohort # <<>> THEN resolution("env", upTo(EnvCohort, TopN))
        ELSE IF fetchLeaderboard(rows) # <<>> THEN resolution("leaderboard", fetchLeaderboard(rows))
        ELSE IF cohort # <<>> /\ age <= StaleAge THEN resolution("auto_stale", cohort)
        ELSE resolution("none", <<>>)

CohortNext ==
    BeginRefresh \/ \E rows \in Boards \cup {<<>>} : EndRefresh(rows)

==============================================================================
