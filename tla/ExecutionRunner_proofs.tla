------------------------ MODULE ExecutionRunner_proofs ------------------------
(***************************************************************************)
(* Proofs about ExecutionRunner, for any number of plans, processes and    *)
(* slices, and whatever database writes fail.  The heart of the inductive  *)
(* invariant is that a plan with timers left is running in one live        *)
(* process, whose row (if it was ever written) no other process can load,  *)
(* and that a slice whose timer or fireChild is pending was never posted.  *)
(***************************************************************************)
EXTENDS ExecutionRunner, TLAPS

\* A plan id nobody scheduled is nowhere.
Unscheduled ==
    \A e \in Plans : host[e] = None =>
        /\ db[e] = None
        /\ \A p \in Procs : mem[p][e] = None
        /\ \A i \in Slices : /\ <<e, i>> \notin timers
                             /\ flight[<<e, i>>] = "no" /\ sent[<<e, i>>] = 0

HostsBorn == \A e \in Plans : host[e] # None => life[host[e]] # "unborn"

\* A slice still to be posted was not posted yet; one posted was posted once.
PostedOnce ==
    \A e \in Plans, i \in Slices :
        /\ sent[<<e, i>>] = 0
              \/ (sent[<<e, i>>] = 1 /\ <<e, i>> \notin timers
                                     /\ flight[<<e, i>>] # "resolving")
        /\ flight[<<e, i>>] = "posted" => sent[<<e, i>>] = 1

FlightHosted ==
    \A e \in Plans, i \in Slices : flight[<<e, i>>] # "no" =>
        /\ <<e, i>> \notin timers
        /\ host[e] # None /\ mem[host[e]][e] # None

\* What a plan with a timer left looks like, in memory and in the table.
Timed(e) ==
    /\ host[e] # None /\ life[host[e]] = "alive"
    /\ running(host[e], e)
    /\ db[e] # None => db[e].plan.status = "running" /\ db[e].owner = host[e]
    /\ \A q \in Procs : mem[q][e] # None => q = host[e]

TimersRunning == \A e \in Plans, i \in Slices : <<e, i>> \in timers => Timed(e)

\* What a plan reports as sent was sent.
Honest(plan, e, posted) ==
    \A i \in Slices :
        plan.status = "completed" \/ plan.children[i] = "submitted"
            => posted[<<e, i>>] = 1

AllHonest ==
    \A e \in Plans :
        /\ db[e] # None => Honest(db[e].plan, e, sent)
        /\ \A p \in Procs : mem[p][e] # None => Honest(mem[p][e], e, sent)

IInv ==
    /\ TypeOK /\ Unscheduled /\ HostsBorn /\ PostedOnce /\ FlightHosted
    /\ TimersRunning /\ AllHonest /\ RunningIsDriven

------------------------------------------------------------------------------
(* Facts about plans and rows. *)

\* A plan that gets another status is a plan, with the same slices.
LEMMA StatusOfPlan ==
  ASSUME NEW plan \in Plan, NEW s \in Statuses
  PROVE  /\ [plan EXCEPT !.status = s] \in Plan
         /\ [plan EXCEPT !.status = s].status = s
         /\ [plan EXCEPT !.status = s].children = plan.children
BY DEF Plan

\* A plan one slice of which is resolved is a plan, with the same status.
LEMMA ChildOfPlan ==
  ASSUME NEW plan \in Plan, NEW i \in Slices, NEW outcome \in {"submitted", "error"}
  PROVE  LET next == [plan EXCEPT !.children[i] = outcome]
         IN  /\ next \in Plan /\ next.status = plan.status
             /\ next.children = [plan.children EXCEPT ![i] = outcome]
BY DEF Plan

\* What a starting process loads is a plan it does not run.
LEMMA LoadedPlan ==
  ASSUME NEW row \in Saved
  PROVE  /\ loaded(row) \in Plan
         /\ loaded(row).status # "running"
         /\ loaded(row).children = row.plan.children
         /\ loaded(row).status = "completed" => row.plan.status = "completed"
<1>1. row.plan \in Plan
  BY DEF Saved
<1>2. CASE row.plan.status = "running"
  <2>1. loaded(row) = [row.plan EXCEPT !.status = "interrupted"]
    BY <1>2 DEF loaded, interrupted
  <2>2. "interrupted" \in Statuses
    BY DEF Statuses
  <2> HIDE DEF loaded, Plan
  <2>3. /\ loaded(row) \in Plan
        /\ loaded(row).status = "interrupted"
        /\ loaded(row).children = row.plan.children
    BY <1>1, <2>1, <2>2, StatusOfPlan
  <2> QED
    BY <2>3
<1>3. CASE row.plan.status # "running"
  BY <1>1, <1>3 DEF loaded
<1> QED
  BY <1>2, <1>3

\* A write leaves the row as it was or stores the plan for its process.
LEMMA SaveCases ==
  ASSUME NEW table \in [Plans -> Saved \cup {None}], NEW p \in Procs,
         NEW e \in Plans, NEW plan \in Plan, NEW ok \in BOOLEAN
  PROVE  /\ save(table, p, e, plan, ok) \in [Plans -> Saved \cup {None}]
         /\ \A d \in Plans : d # e => save(table, p, e, plan, ok)[d] = table[d]
         /\ save(table, p, e, plan, ok)[e] \in {table[e], [owner |-> p, plan |-> plan]}
BY DEF save, Saved

------------------------------------------------------------------------------
\* The servers start in the invariant.
THEOREM InitIInv == Init => IInv
<1> SUFFICES ASSUME Init PROVE IInv
  OBVIOUS
<1> USE DEF Init, Jobs
<1>1. TypeOK
  BY DEF TypeOK
<1>2. Unscheduled /\ HostsBorn /\ PostedOnce
  BY DEF Unscheduled, HostsBorn, PostedOnce
<1>3. FlightHosted /\ TimersRunning
  BY DEF FlightHosted, TimersRunning
<1>4. AllHonest /\ RunningIsDriven
  BY DEF AllHonest, RunningIsDriven, running
<1> QED
  BY <1>1, <1>2, <1>3, <1>4 DEF IInv
------------------------------------------------------------------------------
(* Every action keeps the invariant. *)

LEMMA StartKeeps ==
  ASSUME NEW p \in Procs, NEW taken \in SUBSET Procs, NEW ok \in [Plans -> Saves],
         IInv, Start(p, taken, ok)
  PROVE  IInv'
<1> DEFINE mine == {e \in Plans : db[e] # None /\ ~skipped(db[e], taken)}
<1> USE DEF IInv
<1>a. /\ life[p] = "unborn" /\ life' = [life EXCEPT ![p] = "alive"]
      /\ UNCHANGED <<host, timers, flight, errors, sent>>
  BY DEF Start
<1>b. \A e \in Plans : db[e] # None =>
         /\ db[e] \in Saved /\ loaded(db[e]) \in Plan
         /\ loaded(db[e]).status # "running"
         /\ loaded(db[e]).children = db[e].plan.children
         /\ loaded(db[e]).status = "completed" => db[e].plan.status = "completed"
  BY LoadedPlan DEF TypeOK
<1>c. \A e \in Plans : mem'[p][e] = IF e \in mine THEN loaded(db[e]) ELSE None
  BY DEF Start, TypeOK
<1>d. \A q \in Procs : q # p => mem'[q] = mem[q]
  BY DEF Start, TypeOK
<1>e. \A e \in Plans :
         db'[e] = db[e]
           \/ (e \in mine /\ db'[e] = [owner |-> p, plan |-> loaded(db[e])])
  BY DEF Start, TypeOK
<1>f. \A e \in Plans : db'[e] # None => db[e] # None
  BY <1>e
<1>g. db' \in [Plans -> Saved \cup {None}]
  <2>1. \A e \in mine : [owner |-> p, plan |-> loaded(db[e])] \in Saved
    BY <1>b DEF Saved
  <2>2. \A e \in Plans : db'[e] \in Saved \cup {None}
    BY <1>e, <2>1 DEF TypeOK
  <2> QED
    BY <2>2 DEF Start
<1>h. mem' \in [Procs -> [Plans -> Plan \cup {None}]]
  <2>1. [e \in Plans |-> IF e \in mine THEN loaded(db[e]) ELSE None]
           \in [Plans -> Plan \cup {None}]
    BY <1>b
  <2> QED
    BY <2>1 DEF Start, TypeOK
<1>1. TypeOK'
  BY <1>a, <1>g, <1>h DEF TypeOK
<1>2. Unscheduled'
  BY <1>a, <1>c, <1>d, <1>f DEF Unscheduled
<1>3. HostsBorn'
  BY <1>a DEF HostsBorn, TypeOK
<1>4. PostedOnce'
  BY <1>a DEF PostedOnce
<1>5. FlightHosted'
  BY <1>a, <1>d DEF FlightHosted, HostsBorn, TypeOK
<1>6. TimersRunning'
  <2> SUFFICES ASSUME NEW e \in Plans, Timed(e) PROVE Timed(e)'
    BY <1>a DEF TimersRunning
  <2>1. host[e] # p /\ life'[host[e]] = "alive" /\ host'[e] = host[e]
    BY <1>a DEF Timed, TypeOK
  <2>2. e \notin mine
    BY DEF Timed, skipped
  <2>3. db'[e] = db[e] /\ mem'[p][e] = None
    BY <1>c, <1>e, <2>2
  <2>4. \A q \in Procs : mem'[q][e] # None => mem[q][e] # None /\ q # p
    BY <1>d, <2>3
  <2>5. running(host[e], e)'
    BY <1>d, <2>1 DEF Timed, running, TypeOK
  <2> QED
    BY <2>1, <2>3, <2>4, <2>5 DEF Timed
<1>7. AllHonest'
  <2>1. \A e \in Plans : db[e] # None => Honest(loaded(db[e]), e, sent')
    BY <1>a, <1>b DEF AllHonest, Honest
  <2>2. \A e \in Plans : db'[e] # None => Honest(db'[e].plan, e, sent')
    <3> SUFFICES ASSUME NEW e \in Plans, db'[e] # None
                 PROVE  Honest(db'[e].plan, e, sent')
      OBVIOUS
    <3>1. CASE db'[e] = db[e]
      BY <1>a, <3>1 DEF AllHonest, Honest
    <3>2. CASE e \in mine /\ db'[e] = [owner |-> p, plan |-> loaded(db[e])]
      BY <2>1, <3>2
    <3> QED
      BY <1>e, <3>1, <3>2
  <2>3. \A e \in Plans, q \in Procs : mem'[q][e] # None => Honest(mem'[q][e], e, sent')
    BY <1>a, <1>c, <1>d, <2>1 DEF AllHonest, Honest
  <2> QED
    BY <2>2, <2>3 DEF AllHonest
<1>8. RunningIsDriven'
  <2>1. \A e \in Plans : ~running(p, e)'
    BY <1>b, <1>c DEF running
  <2>2. \A q \in Procs, e \in Plans : q # p /\ running(q, e)' => running(q, e)
    BY <1>d DEF running
  <2> QED
    BY <1>a, <1>d, <2>1, <2>2 DEF RunningIsDriven, pendingOf
<1> QED
  BY <1>1, <1>2, <1>3, <1>4, <1>5, <1>6, <1>7, <1>8

LEMMA ScheduleKeeps ==
  ASSUME NEW p \in Procs, NEW e \in Plans, NEW ok \in Saves, IInv, Schedule(p, e, ok)
  PROVE  IInv'
<1> DEFINE plan == [status |-> "running", children |-> [i \in Slices |-> "pending"]]
<1> USE DEF IInv
<1>a. /\ life[p] = "alive" /\ host[e] = None /\ host' = [host EXCEPT ![e] = p]
      /\ mem' = [mem EXCEPT ![p][e] = plan] /\ db' = save(db, p, e, plan, ok)
      /\ timers' = timers \cup ({e} \X Slices)
      /\ UNCHANGED <<life, flight, errors, sent>>
  BY DEF Schedule
<1>b. plan \in Plan /\ plan.status = "running" /\ plan # None
  BY NoneAssumption DEF Plan, Statuses
<1>c. /\ db[e] = None /\ \A q \in Procs : mem[q][e] = None
      /\ \A i \in Slices : /\ <<e, i>> \notin timers
                           /\ flight[<<e, i>>] = "no" /\ sent[<<e, i>>] = 0
  BY <1>a DEF Unscheduled
<1> HIDE DEF plan
<1>d. /\ db' \in [Plans -> Saved \cup {None}]
      /\ \A d \in Plans : d # e => db'[d] = db[d]
      /\ db'[e] \in {None, [owner |-> p, plan |-> plan]}
  <2>1. db \in [Plans -> Saved \cup {None}] /\ ok \in BOOLEAN
    BY RunnerAssumption DEF TypeOK
  <2> HIDE DEF IInv
  <2> QED
    BY <1>a, <1>b, <1>c, <2>1, SaveCases
<1>e. /\ mem'[p][e] = plan
      /\ \A q \in Procs, d \in Plans : q # p \/ d # e => mem'[q][d] = mem[q][d]
  BY <1>a DEF TypeOK
<1>f. p # None /\ host'[e] = p /\ \A d \in Plans : d # e => host'[d] = host[d]
  BY <1>a, RunnerAssumption DEF TypeOK
<1>g. \A d \in Plans, i \in Slices : <<d, i>> \in timers' <=> <<d, i>> \in timers \/ d = e
  BY <1>a
<1>1. TypeOK'
  <2>1. mem' \in [Procs -> [Plans -> Plan \cup {None}]]
    BY <1>a, <1>b DEF TypeOK
  <2> QED
    BY <1>a, <1>d, <2>1 DEF TypeOK, Jobs
<1>2. Unscheduled'
  BY <1>a, <1>d, <1>e, <1>f, <1>g DEF Unscheduled
<1>3. HostsBorn'
  BY <1>a, <1>f DEF HostsBorn
<1>4. PostedOnce'
  BY <1>a, <1>c, <1>g DEF PostedOnce
<1>5. FlightHosted'
  BY <1>a, <1>c, <1>e, <1>f, <1>g DEF FlightHosted
<1>6. TimersRunning'
  <2>1. Timed(e)'
    BY <1>a, <1>b, <1>c, <1>d, <1>e, <1>f DEF Timed, running
  <2>2. \A d \in Plans : d # e /\ Timed(d) => Timed(d)'
    <3> SUFFICES ASSUME NEW d \in Plans, d # e, Timed(d) PROVE Timed(d)'
      OBVIOUS
    <3>1. host'[d] = host[d] /\ host[d] \in Procs /\ db'[d] = db[d]
      BY <1>d, <1>f DEF Timed, TypeOK
    <3>2. \A q \in Procs : mem'[q][d] = mem[q][d]
      BY <1>e
    <3> QED
      BY <1>a, <3>1, <3>2 DEF Timed, running
  <2> QED
    BY <1>g, <2>1, <2>2 DEF TimersRunning
<1>7. AllHonest'
  <2>1. Honest(plan, e, sent')
    BY DEF Honest, plan
  <2> QED
    BY <1>a, <1>d, <1>e, <2>1 DEF AllHonest, Honest
<1>8. RunningIsDriven'
  <2>1. \A i \in Slices : <<e, i>> \in timers'
    BY <1>g
  <2> QED
    BY <1>a, <1>c, <1>e, <1>f, <1>g, <2>1 DEF RunningIsDriven, running, pendingOf
<1> QED
  BY <1>1, <1>2, <1>3, <1>4, <1>5, <1>6, <1>7, <1>8
LEMMA CancelKeeps ==
  ASSUME NEW p \in Procs, NEW e \in Plans, NEW ok \in Saves, IInv, Cancel(p, e, ok)
  PROVE  IInv'
<1> DEFINE old == mem[p][e]
           plan == [old EXCEPT !.status = IF @ = "running" THEN "cancelled" ELSE @]
<1> USE DEF IInv
<1>a. /\ life[p] = "alive" /\ old # None
      /\ timers' = clearTimers(p, e) /\ mem' = [mem EXCEPT ![p][e] = plan]
      /\ db' = save(db, p, e, plan, ok)
      /\ UNCHANGED <<life, host, flight, errors, sent>>
  BY DEF Cancel
<1>b. /\ old \in Plan /\ plan \in Plan /\ plan.status # "running"
      /\ plan.children = old.children
      /\ plan.status = "completed" => old.status = "completed"
  <2>1. old \in Plan
    BY <1>a DEF TypeOK
  <2>2. CASE old.status = "running"
    <3>1. plan = [old EXCEPT !.status = "cancelled"]
      BY <2>1, <2>2 DEF Plan
    <3>2. "cancelled" \in Statuses
      BY DEF Statuses
    <3> HIDE DEF old, plan, Plan
    <3>3. plan \in Plan /\ plan.status = "cancelled" /\ plan.children = old.children
      BY <2>1, <3>1, <3>2, StatusOfPlan
    <3> QED
      BY <2>1, <3>3
  <2>3. CASE old.status # "running"
    <3>1. plan = old
      BY <2>1, <2>3 DEF Plan
    <3> HIDE DEF plan
    <3> QED
      BY <2>1, <2>3, <3>1
  <2> QED
    BY <2>2, <2>3
<1> HIDE DEF plan
<1>c. plan # None /\ host[e] # None
  BY <1>a, <1>b, NoneAssumption DEF Unscheduled
<1>d. /\ db' \in [Plans -> Saved \cup {None}]
      /\ \A d \in Plans : d # e => db'[d] = db[d]
      /\ db'[e] \in {db[e], [owner |-> p, plan |-> plan]}
  <2>1. db \in [Plans -> Saved \cup {None}] /\ ok \in BOOLEAN
    BY RunnerAssumption DEF TypeOK
  <2> HIDE DEF IInv
  <2> QED
    BY <1>a, <1>b, <2>1, SaveCases
<1>e. /\ mem'[p][e] = plan
      /\ \A q \in Procs, d \in Plans : q # p \/ d # e => mem'[q][d] = mem[q][d]
  BY <1>a DEF TypeOK
<1>f. timers' \subseteq timers
  BY <1>a DEF clearTimers
\* Only the process whose timers fire a plan with timers knows it.
<1>g. \A i \in Slices : <<e, i>> \notin timers'
  <2>1. CASE host[e] = p
    BY <1>a, <2>1 DEF clearTimers, timersOf
  <2>2. CASE host[e] # p
    BY <1>a, <1>f, <2>2 DEF TimersRunning, Timed
  <2> QED
    BY <2>1, <2>2
<1>h. \A d \in Plans, i \in Slices : d # e /\ <<d, i>> \in timers => <<d, i>> \in timers'
  BY <1>a DEF clearTimers, timersOf
<1>1. TypeOK'
  <2>1. mem' \in [Procs -> [Plans -> Plan \cup {None}]]
    BY <1>a, <1>b DEF TypeOK
  <2> QED
    BY <1>a, <1>d, <1>f, <2>1 DEF TypeOK
<1>2. Unscheduled'
  BY <1>a, <1>c, <1>d, <1>e, <1>f DEF Unscheduled
<1>3. HostsBorn'
  BY <1>a DEF HostsBorn
<1>4. PostedOnce'
  BY <1>a, <1>f DEF PostedOnce
<1>5. FlightHosted'
  BY <1>a, <1>c, <1>e, <1>f DEF FlightHosted, TypeOK
<1>6. TimersRunning'
  <2> SUFFICES ASSUME NEW d \in Plans, d # e, Timed(d) PROVE Timed(d)'
    BY <1>f, <1>g DEF TimersRunning
  <2>1. host'[d] = host[d] /\ host[d] \in Procs /\ db'[d] = db[d]
    BY <1>a, <1>d DEF Timed, TypeOK
  <2>2. \A q \in Procs : mem'[q][d] = mem[q][d]
    BY <1>e
  <2> QED
    BY <1>a, <2>1, <2>2 DEF Timed, running
<1>7. AllHonest'
  <2>1. Honest(plan, e, sent')
    BY <1>a, <1>b DEF AllHonest, Honest
  <2> QED
    BY <1>a, <1>d, <1>e, <2>1 DEF AllHonest, Honest
<1>8. RunningIsDriven'
  <2> SUFFICES ASSUME NEW q \in Procs, NEW d \in Plans, running(q, d)'
               PROVE  /\ host'[d] = q
                      /\ \A i \in pendingOf(mem'[q][d]) :
                            <<d, i>> \in timers' \/ flight'[<<d, i>>] # "no"
    BY DEF RunningIsDriven, pendingOf
  <2>1. (q # p \/ d # e) /\ mem'[q][d] = mem[q][d]
    BY <1>b, <1>e DEF running
  <2>2. /\ host[d] = q
        /\ \A i \in pendingOf(mem[q][d]) : <<d, i>> \in timers \/ flight[<<d, i>>] # "no"
    BY <2>1 DEF RunningIsDriven, running
  <2>3. \A i \in Slices : <<d, i>> \in timers => <<d, i>> \in timers'
    BY <1>a, <1>h, <2>1, <2>2 DEF clearTimers
  <2> QED
    BY <1>a, <2>1, <2>2, <2>3 DEF pendingOf
<1> QED
  BY <1>1, <1>2, <1>3, <1>4, <1>5, <1>6, <1>7, <1>8

LEMMA FireChildKeeps ==
  ASSUME NEW e \in Plans, NEW i \in Slices, IInv, FireChild(e, i)
  PROVE  IInv' /\ Timed(e) /\ flight' = [flight EXCEPT ![<<e, i>>] = "resolving"]
<1> USE DEF IInv
<1>a. /\ <<e, i>> \in timers /\ timers' = timers \ {<<e, i>>}
      /\ UNCHANGED <<life, mem, db, host, errors, sent>>
  BY DEF FireChild
<1>b. Timed(e)
  BY <1>a DEF TimersRunning
<1>c. flight' = [flight EXCEPT ![<<e, i>>] = "resolving"]
  BY <1>b DEF FireChild, memOf, Timed, running
<1>d. flight[<<e, i>>] = "no" /\ <<e, i>> \in Jobs
  BY <1>a DEF FlightHosted, Jobs
<1>1. TypeOK'
  BY <1>a, <1>c DEF TypeOK
<1>2. Unscheduled'
  BY <1>a, <1>b, <1>c DEF Unscheduled, Timed
<1>3. HostsBorn'
  BY <1>a DEF HostsBorn
<1>4. PostedOnce'
  <2> SUFFICES ASSUME NEW d \in Plans, NEW k \in Slices
               PROVE  /\ sent[<<d, k>>] = 0
                            \/ (sent[<<d, k>>] = 1 /\ <<d, k>> \notin timers'
                                                   /\ flight'[<<d, k>>] # "resolving")
                      /\ flight'[<<d, k>>] = "posted" => sent[<<d, k>>] = 1
    BY <1>a DEF PostedOnce
  <2>1. CASE <<d, k>> = <<e, i>>
    <3>1. sent[<<e, i>>] = 0
      BY <1>a DEF PostedOnce
    <3>2. flight'[<<d, k>>] = "resolving"
      BY <1>c, <1>d, <2>1 DEF TypeOK
    <3> QED
      BY <2>1, <3>1, <3>2
  <2>2. CASE <<d, k>> # <<e, i>>
    <3>1. flight'[<<d, k>>] = flight[<<d, k>>]
      BY <1>c, <2>2 DEF TypeOK, Jobs
    <3> QED
      BY <1>a, <3>1 DEF PostedOnce
  <2> QED
    BY <2>1, <2>2
<1>5. FlightHosted'
  BY <1>a, <1>b, <1>c DEF FlightHosted, Timed, running
<1>6. TimersRunning'
  BY <1>a DEF TimersRunning, Timed, running
<1>7. AllHonest'
  BY <1>a DEF AllHonest, Honest
<1>8. RunningIsDriven'
  <2>1. \A d \in Plans, k \in Slices :
           <<d, k>> \in timers \/ flight[<<d, k>>] # "no"
              => <<d, k>> \in timers' \/ flight'[<<d, k>>] # "no"
    BY <1>a, <1>c DEF TypeOK, Jobs
  <2> QED
    BY <1>a, <2>1 DEF RunningIsDriven, running, pendingOf
<1> QED
  BY <1>b, <1>c, <1>1, <1>2, <1>3, <1>4, <1>5, <1>6, <1>7, <1>8

LEMMA PostOrderKeeps ==
  ASSUME NEW e \in Plans, NEW i \in Slices, IInv, PostOrder(e, i)
  PROVE  IInv'
<1> USE DEF IInv
<1>a. /\ flight[<<e, i>>] = "resolving"
      /\ flight' = [flight EXCEPT ![<<e, i>>] = "posted"]
      /\ sent' = [sent EXCEPT ![<<e, i>>] = @ + 1]
      /\ UNCHANGED <<life, mem, db, host, timers, errors>>
  BY DEF PostOrder
<1>b. <<e, i>> \in Jobs /\ <<e, i>> \notin timers
  BY <1>a DEF Jobs, FlightHosted
<1>c. sent[<<e, i>>] = 0
  BY <1>a DEF PostedOnce
<1>d. sent'[<<e, i>>] = 1 /\ \A j \in Jobs : j # <<e, i>> => sent'[j] = sent[j]
  BY <1>a, <1>b, <1>c DEF TypeOK
<1>e. flight'[<<e, i>>] = "posted" /\ \A j \in Jobs : j # <<e, i>> => flight'[j] = flight[j]
  BY <1>a, <1>b DEF TypeOK
<1>f. host[e] # None /\ mem[host[e]][e] # None
  BY <1>a DEF FlightHosted
<1>1. TypeOK'
  <2>1. sent' \in [Jobs -> Nat]
    <3>1. sent[<<e, i>>] + 1 \in Nat
      BY <1>c
    <3> QED
      BY <1>a, <3>1 DEF TypeOK
  <2> QED
    BY <1>a, <2>1 DEF TypeOK
<1>2. Unscheduled'
  BY <1>a, <1>d, <1>e, <1>f DEF Unscheduled, Jobs
<1>3. HostsBorn'
  BY <1>a DEF HostsBorn
<1>4. PostedOnce'
  <2> SUFFICES ASSUME NEW d \in Plans, NEW k \in Slices
               PROVE  /\ sent'[<<d, k>>] = 0
                            \/ (sent'[<<d, k>>] = 1 /\ <<d, k>> \notin timers
                                                    /\ flight'[<<d, k>>] # "resolving")
                      /\ flight'[<<d, k>>] = "posted" => sent'[<<d, k>>] = 1
    BY <1>a DEF PostedOnce
  <2>1. CASE <<d, k>> = <<e, i>>
    BY <1>b, <1>d, <1>e, <2>1
  <2>2. CASE <<d, k>> # <<e, i>>
    <3>1. flight'[<<d, k>>] = flight[<<d, k>>] /\ sent'[<<d, k>>] = sent[<<d, k>>]
      BY <1>d, <1>e, <2>2 DEF Jobs
    <3> QED
      BY <3>1 DEF PostedOnce
  <2> QED
    BY <2>1, <2>2
<1>5. FlightHosted'
  BY <1>a, <1>e DEF FlightHosted, Jobs
<1>6. TimersRunning'
  BY <1>a DEF TimersRunning, Timed, running
<1>7. AllHonest'
  <2>1. \A d \in Plans, k \in Slices : sent[<<d, k>>] = 1 => sent'[<<d, k>>] = 1
    BY <1>c, <1>d DEF Jobs
  <2> QED
    BY <1>a, <2>1 DEF AllHonest, Honest
<1>8. RunningIsDriven'
  BY <1>a, <1>e DEF RunningIsDriven, running, pendingOf, Jobs
<1> QED
  BY <1>1, <1>2, <1>3, <1>4, <1>5, <1>6, <1>7, <1>8

LEMMA ResolveKeeps ==
  ASSUME NEW e \in Plans, NEW i \in Slices, NEW outcome \in {"submitted", "error"},
         NEW ok \in Saves, IInv, flight[<<e, i>>] # "no",
         outcome = "submitted" => flight[<<e, i>>] = "posted",
         Resolve(e, i, outcome, ok)
  PROVE  IInv'
<1> DEFINE p == host[e]
           old == memOf(e)
           plan == [old EXCEPT !.children[i] = outcome]
           count == errorsAfter(e, outcome)
           stop == count >= MaxErrors /\ plan.status = "running"
           next == [plan EXCEPT !.status = IF stop THEN "failed" ELSE endStatus(plan)]
           called == [plan EXCEPT !.status = "cancelled"]
<1> USE DEF IInv
<1>a. /\ flight' = [flight EXCEPT ![<<e, i>>] = "no"]
      /\ errors' = [errors EXCEPT ![e] = count]
      /\ timers' = IF stop \/ pendingOf(plan) = {} THEN clearTimers(p, e) ELSE timers
      /\ mem' = [mem EXCEPT ![p][e] = next]
      /\ UNCHANGED <<life, host, sent>>
  BY DEF Resolve
<1>b. PICK first \in Saves :
         db' = save(save(db, p, e, called, stop /\ first), p, e, next, ok)
  BY DEF Resolve
<1>c. p \in Procs /\ p # None /\ old \in Plan /\ old # None
  BY RunnerAssumption DEF FlightHosted, TypeOK, memOf
<1>d. Honest(old, e, sent) /\ (outcome = "submitted" => sent[<<e, i>>] = 1)
  BY <1>c DEF AllHonest, PostedOnce, memOf
<1>e. stop \in BOOLEAN
  OBVIOUS
<1>r. /\ plan \in Plan /\ plan.status = old.status
      /\ plan.children = [old.children EXCEPT ![i] = outcome]
  <2> HIDE DEF IInv, old
  <2> QED
    BY <1>c, ChildOfPlan
<1> HIDE DEF plan
\* The stored plan runs on only if it was running and a slice is left, and
\* reports nothing that was not sent.
<1>f. /\ plan \in Plan /\ plan.status = old.status
      /\ next \in Plan /\ Honest(next, e, sent)
      /\ next.children = [old.children EXCEPT ![i] = outcome]
      /\ next.status = "running" =>
            ~stop /\ old.status = "running" /\ pendingOf(plan) # {}
      /\ ~stop /\ pendingOf(plan) # {} => next.status = old.status
  <2> HIDE DEF stop, old, IInv
  <2> DEFINE s == IF stop THEN "failed" ELSE endStatus(plan)
  <2>1. s \in Statuses
    BY <1>r DEF endStatus, Plan, Statuses
  <2>2. /\ next \in Plan /\ next.children = plan.children /\ next.status = s
    <3>1. next = [plan EXCEPT !.status = s]
      OBVIOUS
    <3> HIDE DEF next, s
    <3> QED
      BY <1>r, <2>1, <3>1, StatusOfPlan
  <2> HIDE DEF next
  <2>3. \A k \in Slices : plan.children[k] = "submitted" => sent[<<e, k>>] = 1
    BY <1>c, <1>d, <1>r DEF Honest, Plan
  <2>4. ~stop => next.status = endStatus(plan)
    BY <2>2
  <2>5. stop => next.status = "failed"
    BY <2>2
  <2> HIDE DEF s
  <2>6. next.status = "running" => old.status = "running" /\ pendingOf(plan) # {}
    BY <1>r, <2>4, <2>5 DEF endStatus
  <2>7. next.status = "completed" => \A k \in Slices : sent[<<e, k>>] = 1
    <3> SUFFICES ASSUME next.status = "completed", NEW k \in Slices
                 PROVE  sent[<<e, k>>] = 1
      OBVIOUS
    <3>1. endStatus(plan) = "completed"
      BY <2>4, <2>5
    <3>2. CASE pendingOf(plan) # {}
      BY <1>d, <1>r, <3>1, <3>2 DEF endStatus, Honest
    <3>3. CASE pendingOf(plan) = {}
      <4>1. plan.children[k] # "error" /\ plan.children[k] # "pending"
        BY <3>1, <3>3 DEF endStatus, pendingOf
      <4>2. plan.children[k] = "submitted"
        BY <1>r, <4>1 DEF Plan
      <4> QED
        BY <2>3, <4>2
    <3> QED
      BY <3>2, <3>3
  <2>8. Honest(next, e, sent)
    BY <2>2, <2>3, <2>7 DEF Honest
  <2> QED
    BY <1>r, <2>2, <2>4, <2>5, <2>6, <2>8 DEF endStatus
<1>g. called \in Plan /\ called.status = "cancelled" /\ called.children = plan.children
  <2>1. "cancelled" \in Statuses
    BY DEF Statuses
  <2> HIDE DEF IInv
  <2> QED
    BY <1>f, <2>1, StatusOfPlan
<1>h. Honest(called, e, sent)
  <2>1. called.status # "completed" /\ called.children = next.children
    BY <1>g, <1>f, <1>r
  <2> QED
    BY <1>f, <2>1 DEF Honest
<1>i. count \in Nat
  BY DEF errorsAfter, TypeOK
<1> HIDE DEF next, called, old, count
<1>j. /\ db' \in [Plans -> Saved \cup {None}]
      /\ \A d \in Plans : d # e => db'[d] = db[d]
      /\ \/ db'[e] = db[e]
         \/ db'[e] = [owner |-> p, plan |-> next]
         \/ stop /\ db'[e] = [owner |-> p, plan |-> called]
  <2> DEFINE both == stop /\ first
             table == save(db, p, e, called, both)
  <2>1. db \in [Plans -> Saved \cup {None}] /\ ok \in BOOLEAN /\ both \in BOOLEAN
    BY RunnerAssumption DEF TypeOK
  <2>3. ~stop => table = db
    BY DEF save
  <2>4. db' = save(table, p, e, next, ok)
    BY <1>b
  <2> HIDE DEF IInv, stop, both
  <2>2. /\ table \in [Plans -> Saved \cup {None}]
        /\ \A d \in Plans : d # e => table[d] = db[d]
        /\ table[e] \in {db[e], [owner |-> p, plan |-> called]}
    BY <1>c, <1>g, <2>1, SaveCases
  <2> HIDE DEF table
  <2>5. /\ db' \in [Plans -> Saved \cup {None}]
        /\ \A d \in Plans : d # e => db'[d] = table[d]
        /\ db'[e] \in {table[e], [owner |-> p, plan |-> next]}
    BY <1>c, <1>f, <2>1, <2>2, <2>4, SaveCases
  <2> QED
    BY <2>2, <2>3, <2>5
<1>k. /\ mem'[p][e] = next /\ next # None
      /\ \A q \in Procs, d \in Plans : q # p \/ d # e => mem'[q][d] = mem[q][d]
  BY <1>a, <1>c, <1>f, NoneAssumption DEF TypeOK
<1>l. /\ flight'[<<e, i>>] = "no"
      /\ \A j \in Jobs : j # <<e, i>> => flight'[j] = flight[j]
  BY <1>a DEF TypeOK, Jobs
\* Timers are left only to a plan that goes on; those of others stay.
<1>m. /\ timers' \subseteq timers
      /\ \A d \in Plans, k \in Slices : <<d, k>> \in timers /\ d # e => <<d, k>> \in timers'
  BY <1>a DEF clearTimers, timersOf
<1>n. (\E k \in Slices : <<e, k>> \in timers') => ~stop /\ pendingOf(plan) # {}
  <2>1. stop \/ pendingOf(plan) = {} => timers' = timers \ timersOf(e)
    BY <1>a DEF clearTimers
  <2> QED
    BY <2>1 DEF timersOf
<1>1. TypeOK'
  <2>1. mem' \in [Procs -> [Plans -> Plan \cup {None}]]
    BY <1>a, <1>f DEF TypeOK
  <2> QED
    BY <1>a, <1>i, <1>j, <1>m, <2>1 DEF TypeOK
<1>2. Unscheduled'
  BY <1>a, <1>c, <1>j, <1>k, <1>l, <1>m DEF Unscheduled, Jobs
<1>3. HostsBorn'
  BY <1>a DEF HostsBorn
<1>4. PostedOnce'
  <2> SUFFICES ASSUME NEW d \in Plans, NEW k \in Slices
               PROVE  /\ sent[<<d, k>>] = 0
                            \/ (sent[<<d, k>>] = 1 /\ <<d, k>> \notin timers'
                                                   /\ flight'[<<d, k>>] # "resolving")
                      /\ flight'[<<d, k>>] = "posted" => sent[<<d, k>>] = 1
    BY <1>a DEF PostedOnce
  <2>1. flight'[<<d, k>>] \in {"no", flight[<<d, k>>]}
    BY <1>l DEF Jobs
  <2> QED
    BY <1>m, <2>1 DEF PostedOnce
<1>5. FlightHosted'
  BY <1>a, <1>k, <1>l, <1>m DEF FlightHosted, Jobs, TypeOK
<1>6. TimersRunning'
  <2> SUFFICES ASSUME NEW d \in Plans, NEW k \in Slices, <<d, k>> \in timers'
               PROVE  Timed(d)'
    BY DEF TimersRunning
  <2>1. Timed(d)
    BY <1>m DEF TimersRunning
  <2>2. \A q \in Procs : mem'[q][d] # None => q = host[d]
    BY <1>k, <2>1 DEF Timed
  <2>3. CASE d # e
    <3>1. host[d] \in Procs /\ db'[d] = db[d] /\ mem'[host[d]][d] = mem[host[d]][d]
      BY <1>j, <1>k, <2>1, <2>3 DEF Timed, TypeOK
    <3> QED
      BY <1>a, <2>1, <2>2, <3>1 DEF Timed, running
  <2>4. CASE d = e
    <3>1. ~stop /\ next.status = "running"
      BY <1>f, <1>n, <2>1, <2>4 DEF Timed, running, old, memOf
    <3>2. db'[e] # None => db'[e].plan.status = "running" /\ db'[e].owner = p
      BY <1>j, <2>1, <2>4, <3>1 DEF Timed
    <3> QED
      BY <1>a, <1>k, <2>1, <2>2, <2>4, <3>1, <3>2 DEF Timed, running
  <2> QED
    BY <2>3, <2>4
<1>7. AllHonest'
  <2>1. db'[e] # None => Honest(db'[e].plan, e, sent)
    BY <1>f, <1>h, <1>j DEF AllHonest
  <2> QED
    BY <1>a, <1>f, <1>j, <1>k, <2>1 DEF AllHonest
<1>8. RunningIsDriven'
  <2> SUFFICES ASSUME NEW q \in Procs, NEW d \in Plans, running(q, d)'
               PROVE  /\ host'[d] = q
                      /\ \A k \in pendingOf(mem'[q][d]) :
                            <<d, k>> \in timers' \/ flight'[<<d, k>>] # "no"
    BY DEF RunningIsDriven, pendingOf
  <2>1. CASE d # e
    <3>1. mem'[q][d] = mem[q][d]
      BY <1>k, <2>1
    <3> QED
      BY <1>a, <1>l, <1>m, <2>1, <3>1 DEF RunningIsDriven, running, pendingOf, Jobs
  <2>2. CASE d = e /\ q # p
    BY <1>k, <2>2 DEF RunningIsDriven, running
  <2>3. CASE d = e /\ q = p
    <3>1. old.status = "running" /\ timers' = timers
      BY <1>a, <1>f, <1>k, <2>3 DEF running
    <3>2. \A k \in pendingOf(old) : <<e, k>> \in timers \/ flight[<<e, k>>] # "no"
      BY <1>c, <3>1 DEF RunningIsDriven, running, old, memOf
    <3>3. \A k \in pendingOf(next) : k \in pendingOf(old) /\ k # i
      BY <1>c, <1>f DEF pendingOf, Plan
    <3>4. \A k \in Slices : k # i => flight'[<<e, k>>] = flight[<<e, k>>]
      BY <1>l DEF Jobs
    <3> QED
      BY <1>a, <1>k, <2>3, <3>1, <3>2, <3>3, <3>4 DEF pendingOf
  <2> QED
    BY <2>1, <2>2, <2>3
<1> QED
  BY <1>1, <1>2, <1>3, <1>4, <1>5, <1>6, <1>7, <1>8
\* A process goes, and what it leaves in the table is unfinished: stored as
\* cancelled or interrupted, or as it was.
LEMMA DieKeeps ==
  ASSUME NEW p \in Procs, IInv, life[p] = "alive", die(p),
         db' \in [Plans -> Saved \cup {None}],
         \A e \in Plans :
            \/ db'[e] = db[e]
            \/ /\ host[e] = p /\ mem[p][e] # None /\ db'[e] # None
               /\ db'[e].plan.status \in {"interrupted", "cancelled"}
               /\ db'[e].plan.children = mem[p][e].children
  PROVE  IInv'
<1> USE DEF IInv
<1>a. /\ life' = [life EXCEPT ![p] = "dead"]
      /\ mem' = [mem EXCEPT ![p] = [e \in Plans |-> None]]
      /\ timers' \subseteq timers
      /\ \A e \in Plans, i \in Slices :
            <<e, i>> \in timers' <=> <<e, i>> \in timers /\ host[e] # p
      /\ flight' = [j \in Jobs |-> IF host[j[1]] = p /\ j[1] \in Plans THEN "no" ELSE flight[j]]
      /\ UNCHANGED <<host, errors, sent>>
  BY DEF die
<1>b. \A e \in Plans, i \in Slices :
         flight'[<<e, i>>] = IF host[e] = p THEN "no" ELSE flight[<<e, i>>]
  BY <1>a DEF Jobs
<1>c. \A e \in Plans : mem'[p][e] = None
  BY <1>a DEF TypeOK
<1>d. \A q \in Procs : q # p => mem'[q] = mem[q]
  BY <1>a DEF TypeOK
<1>1. TypeOK'
  <2>1. mem' \in [Procs -> [Plans -> Plan \cup {None}]]
    BY <1>a DEF TypeOK
  <2>2. flight' \in [Jobs -> {"no", "resolving", "posted"}]
    BY <1>a DEF TypeOK
  <2> QED
    BY <1>a, <2>1, <2>2 DEF TypeOK
<1>2. Unscheduled'
  BY <1>a, <1>b, <1>c, <1>d, RunnerAssumption DEF Unscheduled
<1>3. HostsBorn'
  BY <1>a DEF HostsBorn, TypeOK
<1>4. PostedOnce'
  <2>1. \A e \in Plans, i \in Slices : flight'[<<e, i>>] \in {"no", flight[<<e, i>>]}
    BY <1>b
  <2> SUFFICES ASSUME NEW d \in Plans, NEW k \in Slices
               PROVE  /\ sent[<<d, k>>] = 0
                            \/ (sent[<<d, k>>] = 1 /\ <<d, k>> \notin timers'
                                                   /\ flight'[<<d, k>>] # "resolving")
                      /\ flight'[<<d, k>>] = "posted" => sent[<<d, k>>] = 1
    BY <1>a DEF PostedOnce
  <2> QED
    BY <1>a, <2>1 DEF PostedOnce
<1>5. FlightHosted'
  <2> SUFFICES ASSUME NEW e \in Plans, NEW i \in Slices, flight'[<<e, i>>] # "no"
               PROVE  /\ <<e, i>> \notin timers'
                      /\ host'[e] # None /\ mem'[host'[e]][e] # None
    BY DEF FlightHosted
  <2>1. host[e] # p /\ flight[<<e, i>>] # "no"
    BY <1>b
  <2>2. /\ <<e, i>> \notin timers /\ host[e] \in Procs
        /\ host[e] # None /\ mem[host[e]][e] # None
    BY <2>1 DEF FlightHosted, TypeOK
  <2> QED
    BY <1>a, <1>d, <2>1, <2>2
<1>6. TimersRunning'
  <2> SUFFICES ASSUME NEW e \in Plans, Timed(e), host[e] # p PROVE Timed(e)'
    BY <1>a DEF TimersRunning
  <2>1. /\ host[e] \in Procs /\ db'[e] = db[e] /\ life'[host[e]] = "alive"
        /\ mem'[host[e]][e] = mem[host[e]][e]
    BY <1>a, <1>d DEF Timed, TypeOK
  <2>2. \A q \in Procs : mem'[q][e] # None => mem[q][e] # None
    BY <1>c, <1>d
  <2> QED
    BY <1>a, <2>1, <2>2 DEF Timed, running
<1>7. AllHonest'
  <2>1. \A e \in Plans : db'[e] # None => Honest(db'[e].plan, e, sent)
    <3> SUFFICES ASSUME NEW e \in Plans, db'[e] # None
                 PROVE  Honest(db'[e].plan, e, sent)
      OBVIOUS
    <3>1. CASE db'[e] = db[e]
      BY <3>1 DEF AllHonest
    <3>2. CASE db'[e] # db[e]
      BY <3>2 DEF AllHonest, Honest
    <3> QED
      BY <3>1, <3>2
  <2> QED
    BY <1>a, <1>c, <1>d, <2>1 DEF AllHonest
<1>8. RunningIsDriven'
  <2> SUFFICES ASSUME NEW q \in Procs, NEW e \in Plans, running(q, e)'
               PROVE  /\ host'[e] = q
                      /\ \A i \in pendingOf(mem'[q][e]) :
                            <<e, i>> \in timers' \/ flight'[<<e, i>>] # "no"
    BY DEF RunningIsDriven, pendingOf
  <2>1. q # p /\ mem'[q][e] = mem[q][e]
    BY <1>c, <1>d DEF running
  <2>2. host[e] = q /\ \A i \in pendingOf(mem[q][e]) :
                          <<e, i>> \in timers \/ flight[<<e, i>>] # "no"
    BY <2>1 DEF RunningIsDriven, running
  <2> QED
    BY <1>a, <1>b, <2>1, <2>2 DEF pendingOf
<1> QED
  BY <1>1, <1>2, <1>3, <1>4, <1>5, <1>6, <1>7, <1>8

LEMMA CrashKeeps ==
  ASSUME NEW p \in Procs, IInv, Crash(p)
  PROVE  IInv'
<1>1. db \in [Plans -> Saved \cup {None}]
  BY DEF IInv, TypeOK
<1> QED
  BY <1>1, DieKeeps DEF Crash

LEMMA ShutdownKeeps ==
  ASSUME NEW p \in Procs, NEW ok \in [Plans -> Saves], NEW ok1 \in [Plans -> Saves],
         IInv, Shutdown(p, ok, ok1)
  PROVE  IInv'
<1> DEFINE left == {e \in Plans : /\ mem[p][e] # None /\ mem[p][e].status = "running"
                                  /\ pendingOf(mem[p][e]) # {}}
           last(e) == IF ok1[e] THEN "interrupted" ELSE "cancelled"
           kept(e) == [owner |-> p, plan |-> [mem[p][e] EXCEPT !.status = last(e)]]
<1>1. /\ life[p] = "alive" /\ die(p)
      /\ db' = [e \in Plans |-> IF e \in left /\ (ok[e] \/ ok1[e]) THEN kept(e) ELSE db[e]]
  BY DEF Shutdown
<1>2. db \in [Plans -> Saved \cup {None}]
  BY DEF IInv, TypeOK
<1>3. \A e \in left :
         /\ host[e] = p /\ mem[p][e] # None
         /\ kept(e) \in Saved
         /\ kept(e).plan.status \in {"interrupted", "cancelled"}
         /\ kept(e).plan.children = mem[p][e].children
  <2> SUFFICES ASSUME NEW e \in left
               PROVE  /\ host[e] = p /\ mem[p][e] # None
                      /\ kept(e) \in Saved
                      /\ kept(e).plan.status \in {"interrupted", "cancelled"}
                      /\ kept(e).plan.children = mem[p][e].children
    OBVIOUS
  <2>1. mem[p][e] # None /\ mem[p][e] \in Plan
    BY DEF IInv, TypeOK
  <2>2. host[e] = p
    BY DEF IInv, RunningIsDriven, running
  <2>3. last(e) \in Statuses /\ last(e) \in {"interrupted", "cancelled"}
    BY DEF Statuses
  <2> DEFINE plan == [mem[p][e] EXCEPT !.status = last(e)]
  <2> HIDE DEF last, left
  <2>4. plan \in Plan /\ plan.status = last(e) /\ plan.children = mem[p][e].children
    BY <2>1, <2>3, StatusOfPlan
  <2> HIDE DEF plan
  <2>5. kept(e) = [owner |-> p, plan |-> plan]
    BY DEF plan
  <2> HIDE DEF kept
  <2>6. kept(e) \in Saved /\ kept(e).plan = plan
    BY <2>4, <2>5 DEF Saved
  <2> QED
    BY <2>1, <2>2, <2>3, <2>4, <2>6
<1> HIDE DEF kept
<1>4. \A e \in Plans : db'[e] = db[e] \/ (e \in left /\ db'[e] = kept(e))
  BY <1>1
<1>5. db' \in [Plans -> Saved \cup {None}]
  BY <1>1, <1>2, <1>3
<1>6. \A e \in left : kept(e) # None
  BY <1>3, NoneAssumption
<1> HIDE DEF left
<1>7. \A e \in Plans :
         \/ db'[e] = db[e]
         \/ /\ host[e] = p /\ mem[p][e] # None /\ db'[e] # None
            /\ db'[e].plan.status \in {"interrupted", "cancelled"}
            /\ db'[e].plan.children = mem[p][e].children
  BY <1>3, <1>4, <1>6
<1> QED
  BY <1>1, <1>5, <1>7, DieKeeps

------------------------------------------------------------------------------
(* The invariant holds throughout, and what follows from it. *)

LEMMA NextKeeps == IInv /\ [Next]_vars => IInv'
<1> SUFFICES ASSUME IInv, [Next]_vars PROVE IInv'
  OBVIOUS
<1>1. ASSUME NEW p \in Procs, NEW taken \in SUBSET {q \in Procs : life[q] = "dead"},
             NEW ok \in [Plans -> Saves], Start(p, taken, ok)
      PROVE  IInv'
  BY <1>1, StartKeeps
<1>2. ASSUME NEW p \in Procs, NEW e \in Plans, NEW ok \in Saves, Schedule(p, e, ok)
      PROVE  IInv'
  BY <1>2, ScheduleKeeps
<1>3. ASSUME NEW p \in Procs, NEW e \in Plans, NEW ok \in Saves, Cancel(p, e, ok)
      PROVE  IInv'
  BY <1>3, CancelKeeps
<1>4. ASSUME NEW p \in Procs, Crash(p) PROVE IInv'
  BY <1>4, CrashKeeps
<1>5. ASSUME NEW p \in Procs, NEW ok \in [Plans -> Saves], NEW ok1 \in [Plans -> Saves],
             Shutdown(p, ok, ok1)
      PROVE  IInv'
  BY <1>5, ShutdownKeeps
<1>6. ASSUME NEW e \in Plans, NEW i \in Slices, FireChild(e, i) PROVE IInv'
  BY <1>6, FireChildKeeps
<1>7. ASSUME NEW e \in Plans, NEW i \in Slices, PostOrder(e, i) PROVE IInv'
  BY <1>7, PostOrderKeeps
<1>8. ASSUME NEW e \in Plans, NEW i \in Slices, NEW ok \in Saves,
             Rejected(e, i, ok) \/ Submitted(e, i, ok) \/ Failed(e, i, ok)
      PROVE  IInv'
  <2>1. CASE Rejected(e, i, ok)
    BY <2>1, ResolveKeeps DEF Rejected
  <2>2. CASE Submitted(e, i, ok)
    BY <2>2, ResolveKeeps DEF Submitted
  <2>3. CASE Failed(e, i, ok)
    BY <2>3, ResolveKeeps DEF Failed
  <2> QED
    BY <1>8, <2>1, <2>2, <2>3
<1>9. CASE UNCHANGED vars
  BY <1>9 DEF vars, IInv, TypeOK, Unscheduled, HostsBorn, PostedOnce, FlightHosted,
              TimersRunning, Timed, AllHonest, Honest, RunningIsDriven, running, pendingOf
<1> QED
  BY <1>1, <1>2, <1>3, <1>4, <1>5, <1>6, <1>7, <1>8, <1>9 DEF Next

\* The inductive invariant holds in every state of every behaviour: the runner
\* of src/execution/runner.ts never leaves it.
THEOREM Invariance == Spec => []IInv
BY InitIInv, NextKeeps, PTL DEF Spec

\* Plans, rows, timers and calls in progress always have the shape TypeOK says.
THEOREM TypeCorrect == Spec => []TypeOK
<1>1. IInv => TypeOK
  BY DEF IInv
<1> QED
  BY <1>1, Invariance, PTL

\* No slice is ordered twice: a plan cut short is never resumed, whatever
\* writes fail and whichever processes read its row (runner.ts:9, 60-84).
THEOREM SentOnce == Spec => []SliceSentOnce
<1>1. IInv => SliceSentOnce
  BY DEF IInv, PostedOnce, SliceSentOnce, Jobs, TypeOK
<1> QED
  BY <1>1, Invariance, PTL

\* What a plan reports as sent, in memory or in the table, was sent.
THEOREM ReportsHonest == Spec => []ReportedIsSent
<1>1. IInv => ReportedIsSent
  BY DEF IInv, AllHonest, Honest, ReportedIsSent
<1> QED
  BY <1>1, Invariance, PTL

\* A plan shown as running has a live process with timers or calls for what is
\* left of it.
THEOREM Driven == Spec => []RunningIsDriven
<1>1. IInv => RunningIsDriven
  BY DEF IInv
<1> QED
  BY <1>1, Invariance, PTL

\* A slice is fired only by a live process for a plan running there and not
\* stored as ended: cancellation, shutdown and the error limit leave no timer.
THEOREM FiresRunning == Spec => FiresOnlyWhileRunning
<1> DEFINE Fired ==
      \A j \in Jobs : flight[j] = "no" /\ flight'[j] = "resolving" =>
          /\ life[host[j[1]]] = "alive" /\ running(host[j[1]], j[1])
          /\ db[j[1]] # None => db[j[1]].plan.status \in {"running"}
<1>1. ASSUME IInv, [Next]_vars PROVE Fired
  <2> SUFFICES ASSUME NEW d \in Plans, NEW k \in Slices,
                      flight[<<d, k>>] = "no", flight'[<<d, k>>] = "resolving"
               PROVE  Timed(d)
    BY DEF Jobs, Timed
  <2>1. \E e \in Plans, i \in Slices : FireChild(e, i)
    <3>1. flight \in [Jobs -> {"no", "resolving", "posted"}] /\ flight' # flight
      BY <1>1 DEF IInv, TypeOK
    <3>2. \A p \in Procs : ~die(p)
      BY DEF die, Jobs
    <3>3. \A e \in Plans, i \in Slices, outcome \in {"submitted", "error"}, ok \in Saves :
             ~Resolve(e, i, outcome, ok)
      BY <3>1 DEF Resolve, Jobs
    <3>4. \A e \in Plans, i \in Slices : ~PostOrder(e, i)
      BY <3>1 DEF PostOrder, Jobs
    <3>5. \A p \in Procs, taken \in SUBSET Procs, ok \in [Plans -> Saves] :
             ~Start(p, taken, ok)
      BY <3>1 DEF Start
    <3>6. \A p \in Procs, e \in Plans, ok \in Saves : ~Schedule(p, e, ok) /\ ~Cancel(p, e, ok)
      BY <3>1 DEF Schedule, Cancel
    <3> QED
      BY <1>1, <3>1, <3>2, <3>3, <3>4, <3>5, <3>6
         DEF Next, vars, Crash, Shutdown, Rejected, Submitted, Failed
  <2>2. PICK e \in Plans, i \in Slices : FireChild(e, i)
    BY <2>1
  <2>3. Timed(e) /\ flight' = [flight EXCEPT ![<<e, i>>] = "resolving"]
    BY <1>1, <2>2, FireChildKeeps
  <2>4. <<d, k>> = <<e, i>>
    BY <1>1, <2>3 DEF IInv, TypeOK, Jobs
  <2> QED
    BY <2>3, <2>4
<1> QED
  BY <1>1, Invariance, PTL DEF Spec, FiresOnlyWhileRunning
==============================================================================
