------------------------------ MODULE Planning ------------------------------
(***************************************************************************)
(* The schedule of a TWAP (src/execution/plan.ts) and what hl_twap_order   *)
(* (src/tools/trading/execution.ts) makes of it.  A size is counted in     *)
(* half lots, so that a total may fall between two lots; a schedule is in  *)
(* whole lots.                                                             *)
(***************************************************************************)
EXTENDS Integers, Sequences, Selections

\* Math.round(totalSize * perLot): half a lot rounds up.
roundToLots(halves) == (halves + 1) \div 2

\* Mutant: what does not divide evenly goes to the last slice.
rawSliceLast(lots, slices, i) ==
    lots \div slices + (IF i = slices - 1 THEN lots % slices ELSE 0)

\* The slices as first written, in lots, numbered from 0: the extra lots go to
\* the first of them.
rawSlice(lots, slices, i) ==
    lots \div slices + (IF i < lots % slices THEN 1 ELSE 0)

\* Math.round(gap * i) for the gap between slices that fills the duration.
offset(duration, slices, i) ==
    IF slices = 1 THEN 0
    ELSE (2 * duration * i + slices - 1) \div (2 * (slices - 1))

\* planTwap: no schedule for less than half a lot; empty slices are dropped.
planTwap(halves, asked, duration) ==
    LET slices == IF asked < 1 THEN 1 ELSE asked
        lots == roundToLots(halves)
        child(i) == [size |-> rawSlice(lots, slices, i - 1),
                     at |-> offset(duration, slices, i - 1)]
    IN  IF lots = 0 THEN <<>>
        ELSE pick([i \in 1 .. slices |-> child(i)],
                  {i \in 1 .. slices : child(i).size > 0})

\* hl_twap_order: a schedule with fewer slices than asked, or with a slice above
\* the cap, is refused; a live one is scheduled if the service may submit.
twapOrder(args, cap, maySubmit) ==
    LET children == planTwap(args.halves, args.slices, args.duration)
        tooLarge == \E i \in DOMAIN children : children[i].size > cap
        mode == CASE Len(children) < args.slices -> "bad_plan"
                  [] Len(children) >= args.slices /\ tooLarge /\ ~args.reduceOnly ->
                        "order_too_large"
                  [] OTHER -> IF ~args.live THEN "dry_run"
                              ELSE IF ~maySubmit THEN "blocked" ELSE "scheduled"
    IN  [mode |-> mode, children |-> children]

\* Iceberg: whole clips, and what is left of the total.  No tool plans one.
planIceberg(total, clip, spacing) ==
    IF total = 0 \/ clip = 0 THEN <<>>
    ELSE [i \in 1 .. (total + clip - 1) \div clip |->
            [size |-> IF i * clip <= total THEN clip ELSE total - (i - 1) * clip,
             at |-> (i - 1) * spacing]]
==============================================================================
