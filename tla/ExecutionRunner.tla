--------------------------- MODULE ExecutionRunner ---------------------------
(***************************************************************************)
(* The background runner of TWAP plans (src/execution/runner.ts): stdio    *)
(* servers, perhaps several on one database, each with its plans in memory *)
(* and timers that fire the slices; orders go to the exchange through      *)
(* TradingService.placeOrder (src/trading/exchange.ts) and are in flight   *)
(* across awaits, so slices overlap each other, cancellation and shutdown. *)
(* Plans are live: hl_twap_order schedules no others.                      *)
(***************************************************************************)
EXTENDS Naturals

CONSTANTS
    Plans,          \* plan ids to come
    Procs,          \* stdio processes to come, one pid each
    N,              \* slices of a plan
    MaxErrors,      \* MAX_CONSECUTIVE_CHILD_ERRORS
    Saves,          \* outcomes of a database write: {TRUE}, or BOOLEAN
    None

ASSUME RunnerAssumption ==
    /\ N \in Nat \ {0} /\ MaxErrors \in Nat \ {0}
    /\ Saves \subseteq BOOLEAN /\ Saves # {}
    /\ None \notin Procs

VARIABLES
    life,           \* of each process
    mem,            \* mem[p]: the map `plans` of process p
    db,             \* table execution_plans: owner_pid and plan
    host,           \* the process whose timers drive a plan
    timers,         \* slices whose timer has not fired
    flight,         \* fireChild calls in progress
    errors,         \* consecutiveErrors
    sent            \* ghost: orders posted to the exchange for a slice

vars == <<life, mem, db, host, timers, flight, errors, sent>>

Slices == 1 .. N
Jobs == Plans \X Slices
Statuses == {"running", "completed", "failed", "cancelled", "interrupted"}
Plan == [status : Statuses,
         children : [Slices -> {"pending", "submitted", "error"}]]
Saved == [owner : Procs, plan : Plan]

ASSUME NoneAssumption == None \notin Plan \cup Saved

TypeOK ==
    /\ life \in [Procs -> {"unborn", "alive", "dead"}]
    /\ mem \in [Procs -> [Plans -> Plan \cup {None}]]
    /\ db \in [Plans -> Saved \cup {None}]
    /\ host \in [Plans -> Procs \cup {None}]
    /\ timers \subseteq Jobs
    /\ flight \in [Jobs -> {"no", "resolving", "posted"}]
    /\ errors \in [Plans -> Nat]
    /\ sent \in [Jobs -> Nat]

Init ==
    /\ life = [p \in Procs |-> "unborn"]
    /\ mem = [p \in Procs |-> [e \in Plans |-> None]]
    /\ db = [e \in Plans |-> None]
    /\ host = [e \in Plans |-> None]
    /\ timers = {}
    /\ flight = [j \in Jobs |-> "no"]
    /\ errors = [e \in Plans |-> 0]
    /\ sent = [j \in Jobs |-> 0]

\* save: a failed write is logged and forgotten.
save(table, p, e, plan, ok) ==
    IF ok THEN [table EXCEPT ![e] = [owner |-> p, plan |-> plan]] ELSE table

interrupted(plan) == [plan EXCEPT !.status = "interrupted"]
pendingOf(plan) == {i \in Slices : plan.children[i] = "pending"}
timersOf(e) == {j \in timers : j[1] = e}

------------------------------------------------------------------------------
\* Rows of plans that another process is still sending.  A pid in `taken`
\* belonged to a process that died and is now used by one that is no runner.
skipped(row, taken) ==
    row.plan.status = "running" /\ (life[row.owner] = "alive" \/ row.owner \in taken)

\* Mutant: a plan cut short is left running.
loadedAsIs(row) == row.plan

\* A plan whose process died mid-plan comes back interrupted.
loaded(row) == IF row.plan.status = "running" THEN interrupted(row.plan) ELSE row.plan

\* Mutant: the slices of a plan cut short are scheduled again.
StartResuming(p, taken, ok) ==
    LET mine == {e \in Plans : db[e] # None /\ ~skipped(db[e], taken)}
        cut == {e \in mine : db[e].plan.status = "running"}
    IN  /\ life[p] = "unborn"
        /\ life' = [life EXCEPT ![p] = "alive"]
        /\ mem' = [mem EXCEPT ![p] =
                     [e \in Plans |-> IF e \in mine THEN db[e].plan ELSE None]]
        /\ host' = [e \in Plans |-> IF e \in cut THEN p ELSE host[e]]
        /\ timers' = timers \cup {j \in Jobs : j[1] \in cut
                                        /\ j[2] \in pendingOf(db[j[1]].plan)}
        /\ UNCHANGED <<db, flight, errors, sent>>

\* The constructor loads the table and marks the plans cut short.
Start(p, taken, ok) ==
    LET mine == {e \in Plans : db[e] # None /\ ~skipped(db[e], taken)}
        cut == {e \in mine : db[e].plan.status = "running"}
    IN  /\ life[p] = "unborn"
        /\ life' = [life EXCEPT ![p] = "alive"]
        /\ mem' = [mem EXCEPT ![p] =
                     [e \in Plans |-> IF e \in mine THEN loaded(db[e]) ELSE None]]
        /\ db' = [e \in Plans |->
                    IF e \in cut /\ ok[e]
                    THEN [owner |-> p, plan |-> loaded(db[e])] ELSE db[e]]
        /\ UNCHANGED <<host, timers, flight, errors, sent>>

\* schedule, called by hl_twap_order: a timer per slice.
Schedule(p, e, ok) ==
    LET plan == [status |-> "running", children |-> [i \in Slices |-> "pending"]]
    IN  /\ life[p] = "alive" /\ host[e] = None
        /\ host' = [host EXCEPT ![e] = p]
        /\ mem' = [mem EXCEPT ![p][e] = plan]
        /\ db' = save(db, p, e, plan, ok)
        /\ timers' = timers \cup ({e} \X Slices)
        /\ UNCHANGED <<life, flight, errors, sent>>

\* Timers a process clears for a plan: it has handles only to its own.
clearTimers(p, e) == IF host[e] = p THEN timers \ timersOf(e) ELSE timers

\* cancel, called by hl_cancel_execution.
Cancel(p, e, ok) ==
    LET old == mem[p][e]
        plan == [old EXCEPT !.status = IF @ = "running" THEN "cancelled" ELSE @]
    IN  /\ life[p] = "alive" /\ old # None
        /\ timers' = clearTimers(p, e)
        /\ mem' = [mem EXCEPT ![p][e] = plan]
        /\ db' = save(db, p, e, plan, ok)
        /\ UNCHANGED <<life, host, flight, errors, sent>>

------------------------------------------------------------------------------
memOf(e) == mem[host[e]][e]

\* fireChild up to its first await.  Offsets grow with the index, so the
\* timers of a plan go off in the order of its slices.
FireChild(e, i) ==
    /\ <<e, i>> \in timers
    /\ \A j \in timersOf(e) : i <= j[2]
    /\ timers' = timers \ {<<e, i>>}
    /\ flight' = [flight EXCEPT ![<<e, i>>] =
                    IF memOf(e).status = "cancelled" THEN "no" ELSE "resolving"]
    /\ UNCHANGED <<life, mem, db, host, errors, sent>>

\* placeOrder has resolved the market and signed: the order is posted.
PostOrder(e, i) ==
    /\ flight[<<e, i>>] = "resolving"
    /\ flight' = [flight EXCEPT ![<<e, i>>] = "posted"]
    /\ sent' = [sent EXCEPT ![<<e, i>>] = @ + 1]
    /\ UNCHANGED <<life, mem, db, host, timers, errors>>

\* Mutants of the end of a plan: one slice submitted will do; only a plan
\* without errors is ended.
endStatusOfAny(plan) ==
    IF pendingOf(plan) # {} THEN plan.status
    ELSE IF \E i \in Slices : plan.children[i] = "submitted" THEN "completed" ELSE "failed"
endStatusIfClean(plan) ==
    IF \A i \in Slices : plan.children[i] = "submitted" THEN "completed" ELSE plan.status

\* finalize when all children are resolved.
endStatus(plan) ==
    IF pendingOf(plan) # {} THEN plan.status
    ELSE IF \E i \in Slices : plan.children[i] = "error" THEN "failed" ELSE "completed"

\* A success starts the count of consecutive errors again.
errorsAfter(e, outcome) == IF outcome = "error" THEN errors[e] + 1 ELSE 0

\* The rest of fireChild once placeOrder has returned or thrown: no await.
\* A plan that stops is stored as cancelled, then (write `ok`) as failed.
Resolve(e, i, outcome, ok) ==
    LET p == host[e]
        plan == [memOf(e) EXCEPT !.children[i] = outcome]
        count == errorsAfter(e, outcome)
        stop == count >= MaxErrors /\ plan.status = "running"
        next == [plan EXCEPT !.status = IF stop THEN "failed" ELSE endStatus(plan)]
    IN  /\ flight' = [flight EXCEPT ![<<e, i>>] = "no"]
        /\ errors' = [errors EXCEPT ![e] = count]
        /\ timers' = IF stop \/ pendingOf(plan) = {} THEN clearTimers(p, e) ELSE timers
        /\ mem' = [mem EXCEPT ![p][e] = next]
        /\ \E first \in Saves :
              LET called == [plan EXCEPT !.status = "cancelled"]
              IN  db' = save(save(db, p, e, called, stop /\ first), p, e, next, ok)
        /\ UNCHANGED <<life, host, sent>>

\* The market is unknown, the size too small, trading blocked: nothing posted.
Rejected(e, i, ok) ==
    /\ flight[<<e, i>>] = "resolving"
    /\ Resolve(e, i, "error", ok)

\* The exchange answers; or it refuses, or nobody knows (maxRetries is 0).
Submitted(e, i, ok) ==
    /\ flight[<<e, i>>] = "posted"
    /\ Resolve(e, i, "submitted", ok)
Failed(e, i, ok) ==
    /\ flight[<<e, i>>] = "posted"
    /\ Resolve(e, i, "error", ok)

------------------------------------------------------------------------------
\* The process is gone, with its memory, timers and calls in progress.
die(p) ==
    LET own == {e \in Plans : host[e] = p}
    IN  /\ life' = [life EXCEPT ![p] = "dead"]
        /\ mem' = [mem EXCEPT ![p] = [e \in Plans |-> None]]
        /\ timers' = {j \in timers : j[1] \notin own}
        /\ flight' = [j \in Jobs |-> IF j[1] \in own THEN "no" ELSE flight[j]]
        /\ UNCHANGED <<host, errors, sent>>

Crash(p) ==
    /\ life[p] = "alive"
    /\ die(p)
    /\ UNCHANGED db

\* SIGINT or SIGTERM: cancelAllPending stores what is unfinished, first as
\* cancelled, then as interrupted, and the process exits.
Shutdown(p, ok, ok1) ==
    LET left == {e \in Plans : /\ mem[p][e] # None /\ mem[p][e].status = "running"
                               /\ pendingOf(mem[p][e]) # {}}
        kept(e) == [owner |-> p, plan |-> [mem[p][e] EXCEPT !.status =
                       IF ok1[e] THEN "interrupted" ELSE "cancelled"]]
    IN  /\ life[p] = "alive"
        /\ die(p)
        /\ db' = [e \in Plans |-> IF e \in left /\ (ok[e] \/ ok1[e]) THEN kept(e) ELSE db[e]]

Next ==
    \/ \E p \in Procs :
          \/ \E taken \in SUBSET {q \in Procs : life[q] = "dead"} :
                \E ok \in [Plans -> Saves] : Start(p, taken, ok)
          \/ \E e \in Plans, ok \in Saves : Schedule(p, e, ok) \/ Cancel(p, e, ok)
          \/ Crash(p)
          \/ \E ok, ok1 \in [Plans -> Saves] : Shutdown(p, ok, ok1)
    \/ \E e \in Plans, i \in Slices :
          \/ FireChild(e, i) \/ PostOrder(e, i)
          \/ \E ok \in Saves : Rejected(e, i, ok) \/ Submitted(e, i, ok) \/ Failed(e, i, ok)

\* Timers go off, and every wait inside placeOrder is cut off by a timeout.
Fairness ==
    \A e \in Plans, i \in Slices :
        /\ WF_vars(FireChild(e, i))
        /\ WF_vars(\E ok \in Saves : Rejected(e, i, ok) \/ Failed(e, i, ok))

Spec == Init /\ [][Next]_vars
FairSpec == Spec /\ Fairness

------------------------------------------------------------------------------
running(p, e) == mem[p][e] # None /\ mem[p][e].status = "running"

\* No slice is ordered twice, across failures, restarts and other processes
\* ("NEVER retry submissions", exchange.ts:295-296; "never resumed",
\* runner.ts:9).
SliceSentOnce == \A j \in Jobs : sent[j] <= 1

\* A slice is only ever fired by a live process for a plan that is running
\* there: none starts after a cancellation, a shutdown, the third failure in a
\* row (runner.ts:190-200), or for a plan stored as interrupted.
FiresOnlyWhileRunning ==
    [][\A j \in Jobs : flight[j] = "no" /\ flight'[j] = "resolving" =>
          /\ life[host[j[1]]] = "alive" /\ running(host[j[1]], j[1])
          /\ db[j[1]] # None => db[j[1]].plan.status \in {"running"}]_vars

\* What is reported as sent was sent: a plan shown as completed, in memory or
\* after a restart, posted every one of its slices, and no slice is shown as
\* submitted that was not posted.
ReportedIsSent ==
    \A e \in Plans :
        \A plan \in {mem[p][e] : p \in Procs} \cup {IF db[e] = None THEN None ELSE db[e].plan} :
            plan # None =>
                \A i \in Slices :
                    plan.status = "completed" \/ plan.children[i] = "submitted"
                        => sent[<<e, i>>] = 1

\* A plan that a live process shows as running is being run by a process that
\* is alive; a plan nobody drives is not shown as running.
RunningIsDriven ==
    \A p \in Procs, e \in Plans :
        running(p, e) => /\ host[e] = p
                         /\ \A i \in pendingOf(mem[p][e]) :
                               <<e, i>> \in timers \/ flight[<<e, i>>] # "no"

\* A plan ends unless its process does ("Release the handles so a finished plan
\* no longer holds the process open", runner.ts:202).
PlanEnds ==
    \A p \in Procs, e \in Plans : running(p, e) ~> ~running(p, e)

==============================================================================
