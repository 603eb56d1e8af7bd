------------------------------- MODULE Samples -------------------------------
(***************************************************************************)
(* Score samples and their outcomes.  Once a day the sampler              *)
(* (src/smartmoney/scoreSampler.ts) scores the cohort the server resolves, *)
(* chunk by chunk, into table score_snapshots (src/store/scoreStore.ts);   *)
(* when a sample's forward window is over, the engine's tick resolves its  *)
(* outcome (resolveDueScoreOutcomes, src/alerts/engine.ts).  The clock     *)
(* counts days; samples of the older equity basis are ignored everywhere.  *)
(* One process samples: server-http.ts:105 and server-stdio.ts:42 each     *)
(* start a sampler, and two on one database are not modelled.              *)
(***************************************************************************)
EXTENDS Cohort

CONSTANTS
    Chunk,          \* CHUNK_SIZE
    Window,         \* SCORE_HORIZON_DAYS
    MaxAttempts,    \* MAX_RESOLVE_ATTEMPTS
    Limit,          \* snapshots due returns to a tick
    LastSample,     \* bound: last day on which a sampling pass starts
    Broken          \* wallets whose fills can never be read

Days == 0 .. LastSample
Keys == Wallets \X Days     \* unique index (address, horizon, day)

ASSUME SamplesAssumption ==
    /\ {MaxAttempts, LastSample} \subseteq Nat /\ Window \in Nat \ {0}
    /\ Chunk \in Nat \ {0} /\ Limit \in Nat \ {0}
    /\ LastSample + Window <= MaxTime
    /\ Broken \subseteq Wallets /\ IsFiniteSet(Wallets)

VARIABLES
    samples,        \* table score_snapshots
    pass,           \* the sampling pass in progress
    due,            \* snapshots the tick in progress still has to resolve
    sampledFrom     \* ghost: cohorts the samples of a day were taken from

sampleVars == <<samples, pass, due, sampledFrom>>
vars == <<cohortVars, sampleVars>>

Sample == [attempts : 0 .. MaxAttempts, resolved : BOOLEAN]
Pass == [day : Days, left : Seq(Wallets), cohort : Seq(Wallets)]

ASSUME NoneAssumption == None \notin Sample /\ None \notin Seq(Keys)

TypeOK ==
    /\ CohortTypeOK
    /\ samples \in [Keys -> Sample \cup {None}]
    /\ pass \in Pass \cup {None}
    /\ due \in Seq(Keys) \cup {None}
    /\ sampledFrom \in [Days -> SUBSET Seq(Wallets)]

Init ==
    /\ CohortInit
    /\ samples = [k \in Keys |-> None]
    /\ pass = None /\ due = None
    /\ sampledFrom = [d \in Days |-> {}]

------------------------------------------------------------------------------
\* Mutant: the day is not looked up, the rows are deduplicated anyway.
hasNoSample(d) == FALSE

hasSampleForDay(d) == \E w \in Wallets : samples[<<w, d>>] # None

\* runOnce up to the first chunk: one pass at a time, one sampled pass a day.
BeginPass(rows) ==
    LET found == resolveCohort(rows)
    IN  /\ pass = None /\ clock <= LastSample
        /\ ~hasSampleForDay(clock)
        /\ found.wallets # <<>>
        /\ pass' = [day |-> clock, left |-> found.wallets, cohort |-> found.wallets]
        /\ UNCHANGED <<cohortVars, samples, due, sampledFrom>>

\* record, dated when the pass began.
recordKey(p, w) == <<w, p.day>>

\* analyzeCohort of the next chunk: the wallets of `ok` were read, the others
\* failed and are skipped.  A second row for the day is ignored.
SampleChunk(ok) ==
    LET chunk == ToSet(upTo(pass.left, Chunk))
        new   == {recordKey(pass, w) : w \in chunk \cap ok}
        left  == SubSeq(pass.left, Chunk + 1, Len(pass.left))
    IN  /\ pass # None
        /\ samples' = [k \in Keys |->
              IF k \in new /\ samples[k] = None
              THEN [attempts |-> 0, resolved |-> FALSE] ELSE samples[k]]
        /\ pass' = IF left = <<>> THEN None ELSE [pass EXCEPT !.left = left]
        /\ sampledFrom' = [d \in Days |->
              IF \E k \in new : k[2] = d /\ samples[k] = None
              THEN sampledFrom[d] \cup {pass.cohort} ELSE sampledFrom[d]]
        /\ UNCHANGED <<cohortVars, due>>

------------------------------------------------------------------------------

unresolved(k) == samples[k] # None /\ ~samples[k].resolved

\* due: the window is over, the attempts are not used up.
isDue(k) ==
    unresolved(k) /\ samples[k].attempts < MaxAttempts /\ k[2] + Window <= clock

\* ORDER BY attempts ASC, ts ASC; ties in any order.
before(k, l) ==
    \/ samples[k].attempts < samples[l].attempts
    \/ samples[k].attempts = samples[l].attempts /\ k[2] < l[2]

Batches ==
    LET open == {k \in Keys : isDue(k)}
        n    == IF Cardinality(open) < Limit THEN Cardinality(open) ELSE Limit
    IN  {q \in [1 .. n -> open] :
            /\ IsInjective(q)
            /\ \A i \in 1 .. n, k \in open : k \notin {q[j] : j \in 1 .. i} => ~before(k, q[i])}

\* resolveDueScoreOutcomes, called by one tick at a time.
BeginResolve ==
    /\ due = None
    /\ due' \in Batches
    /\ UNCHANGED <<cohortVars, samples, pass, sampledFrom>>

\* Mutant: a failure is not counted.
ResolveUncounted(ok) ==
    /\ due \notin {None, <<>>}
    /\ Head(due)[1] \in Broken => ~ok
    /\ samples' = [samples EXCEPT ![Head(due)].resolved = ok \/ @]
    /\ due' = Tail(due)
    /\ UNCHANGED <<cohortVars, pass, sampledFrom>>

setOutcome(s) == [s EXCEPT !.resolved = TRUE]
markAttempt(s) ==
    [s EXCEPT !.attempts = IF @ < MaxAttempts THEN @ + 1 ELSE @]

\* The fills of the window are read, or not.
Resolve(ok) ==
    /\ due \notin {None, <<>>}
    /\ Head(due)[1] \in Broken => ~ok
    /\ samples' = [samples EXCEPT ![Head(due)] =
                     IF ok THEN setOutcome(@) ELSE markAttempt(@)]
    /\ due' = Tail(due)
    /\ UNCHANGED <<cohortVars, pass, sampledFrom>>

EndResolve ==
    /\ due = <<>> /\ due' = None
    /\ UNCHANGED <<cohortVars, samples, pass, sampledFrom>>

\* The process dies and starts again: a pass and a tick end where they are.
Restart ==
    /\ pass' = None /\ due' = None
    /\ refreshing' = FALSE
    /\ UNCHANGED <<cohort, refreshedAt, clock, samples, sampledFrom>>

Advance ==
    /\ clock < MaxTime
    /\ clock' = clock + 1
    /\ UNCHANGED <<cohort, refreshedAt, refreshing, sampleVars>>

Next ==
    \/ CohortNext /\ UNCHANGED sampleVars
    \/ \E rows \in Boards \cup {<<>>} : BeginPass(rows)
    \/ \E ok \in SUBSET Wallets : SampleChunk(ok)
    \/ BeginResolve \/ EndResolve
    \/ \E ok \in BOOLEAN : Resolve(ok)
    \/ Restart \/ Advance

Spec == Init /\ [][Next]_vars

\* The days pass, ticks keep coming, and again and again one of them lives to
\* hear of the fills it asked for.
Fairness ==
    /\ WF_vars(Advance) /\ WF_vars(BeginResolve) /\ WF_vars(EndResolve)
    /\ SF_vars(\E ok \in BOOLEAN : Resolve(ok))

FairSpec == Spec /\ Fairness
------------------------------------------------------------------------------
\* Mutant: the window of the last sample kept is one day short.
overlapsShort(d, days) == \E e \in days : d < e + Window - 1

\* Does the forward window of a sample overlap one already kept?
overlaps(d, days) == \E e \in days : d < e + Window

isResolved(w, d) == samples[<<w, d>>] # None /\ samples[<<w, d>>].resolved

\* outcomes: of each wallet the resolved samples, oldest first, whose windows
\* do not overlap.
outcomes(w) ==
    LET keep[d \in -1 .. LastSample] ==
            IF d = -1 THEN {}
            ELSE IF isResolved(w, d) /\ ~overlaps(d, keep[d - 1])
            THEN keep[d - 1] \cup {d} ELSE keep[d - 1]
    IN  keep[LastSample]

\* What calibration counts are independent observations: no two windows of one
\* wallet share a day, and no resolved sample is dropped without sharing a day
\* with one that is kept (scoreStore.ts:193-196).
OutcomesIndependent ==
    \A w \in Wallets :
        LET K == outcomes(w)
        IN  /\ \A d, e \in K : d < e => (d .. d + Window - 1) \cap (e .. e + Window - 1) = {}
            /\ \A d \in Days : isResolved(w, d) =>
                  \E e \in K : (d .. d + Window - 1) \cap (e .. e + Window - 1) # {}

\* All samples of a day are of one cohort, also when the server is restarted
\* or the cohort replaced in the middle of it (scoreStore.ts:148-154), as long
\* as one process samples: `running` is per process (scoreSampler.ts:93).
OneCohortADay == \A d \in Days : Cardinality(sampledFrom[d]) <= 1

\* Every sample ends resolved or abandoned: a wallet whose fills can never be
\* read does not keep the others from their outcome (scoreStore.ts:118-126).
EverySampleCloses ==
    <>[](\A k \in Keys : samples[k] # None =>
            samples[k].resolved \/ samples[k].attempts = MaxAttempts)
==============================================================================
