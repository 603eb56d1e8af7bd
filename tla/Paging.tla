------------------------------- MODULE Paging -------------------------------
(***************************************************************************)
(* Reading a window of an account's fills, or of a coin's funding, page by *)
(* page (src/core/hlClient.ts).  The exchange answers a page with the      *)
(* oldest entries of the window, at most PageLimit, and goes on recording  *)
(* entries between two pages.  Times and limits are in small units.  A     *)
(* page, and what was collected, are sets of the entries' places in the    *)
(* exchange's order; count is how many rows the caller is given for them.  *)
(***************************************************************************)
EXTENDS Integers, Sequences, SequencesExt, FiniteSets, FiniteSetsExt

CONSTANTS
    PageLimit,      \* FILLS_PAGE_LIMIT, TIME_RANGE_PAGE_LIMIT
    MaxPages,       \* FILLS_MAX_PAGES, FUNDING_MAX_PAGES
    Times,          \* bound: times of entries
    MaxRecorded,    \* bound: entries ever recorded
    OpenEnd         \* endTime undefined

ASSUME PagingAssumption ==
    /\ PageLimit \in Nat \ {0} /\ MaxPages \in Nat \ {0} /\ MaxRecorded \in Nat
    /\ Times \subseteq Nat /\ OpenEnd \notin Nat

VARIABLES
    entries,        \* times of the entries the exchange has, in their order
    request,        \* the call, and how many entries there were when it began
    rows, count,    \* all: the entries collected, and its length
    cursor, page,   \* of the loop
    done

pagingVars == <<entries, request, rows, count, cursor, page, done>>

Kinds == {"fills", "funding"}

Request == [kind : Kinds, start : Times, end : Times \cup {OpenEnd},
            known : 0 .. MaxRecorded]

PagingTypeOK ==
    /\ entries \in Seq(Times) /\ Len(entries) <= MaxRecorded
    /\ request \in Request
    /\ rows \subseteq DOMAIN entries /\ count \in Nat
    /\ cursor \in Nat /\ page \in 0 .. MaxPages /\ done \in BOOLEAN

\* Funding is paid once an hour, fills may share a millisecond.
follows(kind, t, u) == IF kind = "funding" THEN t < u ELSE t <= u

PagingInit ==
    /\ request \in Request
    /\ entries \in [1 .. request.known -> Times]
    /\ \A i, j \in DOMAIN entries : i < j => follows(request.kind, entries[i], entries[j])
    /\ rows = {} /\ count = 0
    /\ cursor = request.start /\ page = 0 /\ done = FALSE

\* The window of a request that starts at from.
window(from) ==
    {i \in DOMAIN entries : /\ entries[i] >= from
                            /\ request.end = OpenEnd \/ entries[i] <= request.end}

\* The exchange's answer: the first of them.
answerTo(from) ==
    {i \in window(from) : Cardinality({j \in window(from) : j < i}) < PageLimit}

maxTime(batch) == Max({entries[i] : i \in batch})

\* The loop ends, or goes on from the next cursor.
ends == done' = TRUE /\ UNCHANGED cursor
goesOn(next) == done' = (page + 1 = MaxPages) /\ cursor' = next

\* Mutant: fills are paged like funding, past the last time seen.
fillsPast(batch) ==
    /\ rows' = rows \cup batch
    /\ count' = count + Cardinality(batch)
    /\ IF Cardinality(batch) < PageLimit THEN ends ELSE goesOn(maxTime(batch) + 1)

\* fetchAllFills: pages overlap on the last time and are rid of what was seen;
\* no progress when a single time fills the page.
afterFills(batch) ==
    /\ rows' = rows \cup batch
    /\ count' = count + Cardinality(batch \ rows)
    /\ IF Cardinality(batch) < PageLimit \/ maxTime(batch) <= cursor
       THEN ends ELSE goesOn(maxTime(batch))

\* fetchAllFunding: the next page starts after the last time.
afterFunding(batch) ==
    /\ rows' = rows \cup batch
    /\ count' = count + Cardinality(batch)
    /\ IF Cardinality(batch) < PageLimit \/ maxTime(batch) < cursor
       THEN ends ELSE goesOn(maxTime(batch) + 1)

\* One request of the loop and what it makes of the answer.
fetchPage ==
    LET batch == answerTo(cursor)
    IN  /\ ~done /\ page < MaxPages
        /\ page' = page + 1
        /\ IF batch = {} THEN ends /\ UNCHANGED <<rows, count>>
           ELSE IF request.kind = "fills" THEN afterFills(batch) ELSE afterFunding(batch)
        /\ UNCHANGED <<entries, request>>

\* The exchange records an entry while the call is in progress.
record(t) ==
    /\ ~done /\ Len(entries) < MaxRecorded
    /\ entries # <<>> => follows(request.kind, Last(entries), t)
    /\ entries' = Append(entries, t)
    /\ UNCHANGED <<request, rows, count, cursor, page, done>>

PagingNext == fetchPage \/ \E t \in Times : record(t)

PagingSpec == PagingInit /\ [][PagingNext]_pagingVars

------------------------------------------------------------------------------
crowded == \E t \in Times : Cardinality({i \in DOMAIN entries : entries[i] = t}) >= PageLimit

\* A window read in pages has no entry twice and no gap, whatever was recorded
\* meanwhile, and lacks an entry it held at first only if the page bound was
\* met or one time filled a page (hlClient.ts, fetchAllFills, fetchAllFunding).
PagesComplete ==
    LET W == window(request.start)
    IN  /\ Cardinality(rows) = count /\ rows \subseteq W
        /\ \A i \in rows, j \in W : j < i => j \in rows
        /\ done =>
              \/ W \cap 1 .. request.known \subseteq rows
              \/ page = MaxPages
              \/ request.kind = "fills" /\ crowded
==============================================================================
