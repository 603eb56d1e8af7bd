------------------------------ MODULE KeyTable ------------------------------
(***************************************************************************)
(* Tables api_keys, usage_counters and free_key_grants of the billing      *)
(* database (src/billing/db.ts), as values: an operator takes the table a  *)
(* statement or transaction reads and returns the table it leaves.         *)
(* A table is a function from keys (or fingerprints) to a row or None.     *)
(* Usage is summed over tools: every reader of it sums.                    *)
(***************************************************************************)
EXTENDS Integers

CONSTANTS
    Keys,           \* API keys, identified with their hashes
    Fingerprints,   \* hashed client addresses
    None

Tiers == {"free", "pro"}
Labels == {"self-serve", "pro-x402", "pro-bootstrap", "free-bootstrap"}
BootstrapLabels == {"pro-bootstrap", "free-bootstrap"}

KeyRow == [tier : Tiers, label : Labels, disabled : BOOLEAN, expires : Nat \cup {None}]
Grant == [key : Keys, at : Nat]

ASSUME KeyTableAssumption == None \notin Keys \cup Fingerprints \cup KeyRow \cup Grant \cup Nat

Maximum(a, b) == IF a > b THEN a ELSE b

\* upsertKey: a conflicting row keeps its end date.
upsertKey(keys, k, tier, label) ==
    [keys EXCEPT ![k] =
        [tier |-> tier, label |-> label, disabled |-> FALSE,
         expires |-> IF keys[k] = None THEN None ELSE keys[k].expires]]

grantProKey(keys, k, end) ==
    [keys EXCEPT ![k] =
        [tier |-> "pro", label |-> "pro-x402", disabled |-> FALSE, expires |-> end]]

discardProKey(keys, k) ==
    IF keys[k] # None /\ keys[k].label = "pro-x402"
    THEN [keys EXCEPT ![k] = None] ELSE keys

\* Mutant: a revocation takes every key that is not listed.
disableAllMissing(keys, present) ==
    [k \in Keys |-> IF keys[k] # None /\ k \notin present
                    THEN [keys[k] EXCEPT !.disabled = TRUE] ELSE keys[k]]

\* The end that a renewal of row `row` at `now` leaves: computed from the row
\* the UPDATE finds, so two renewals that race both count.
extendedEnd(row, now, term) ==
    Maximum(now, IF row.expires = None THEN 0 ELSE row.expires) + term

\* extendProKey, where the row exists (it throws where it does not).
extendProKey(keys, k, now, term) ==
    [keys EXCEPT ![k] =
        [tier |-> "pro", disabled |-> FALSE,
         label |-> IF @.label \in BootstrapLabels THEN @.label ELSE "pro-x402",
         expires |-> extendedEnd(@, now, term)]]

dropGrantsOf(grants, k) ==
    [f \in Fingerprints |->
        IF grants[f] # None /\ grants[f].key = k THEN None ELSE grants[f]]

\* Mutant: nothing is revoked.
disableNothing(keys, present) == keys

\* disableMissingBootstrapKeys: only rows labelled by the environment.
disableMissingBootstrapKeys(keys, present) ==
    [k \in Keys |->
        IF keys[k] # None /\ keys[k].label \in BootstrapLabels /\ k \notin present
        THEN [keys[k] EXCEPT !.disabled = TRUE] ELSE keys[k]]

\* Mutants of re-issue: the prior key stays; its usage stays behind.
keepPrior(keys, prior) == keys
leaveUsage(used, prior, k) == used

\* recordFreeKeyGrant, its three effects: the prior key goes if it is free...
revokePrior(keys, prior) ==
    IF prior # None /\ keys[prior.key] # None /\ keys[prior.key].tier = "free"
    THEN [keys EXCEPT ![prior.key] = None] ELSE keys

\* ...its usage moves to the new key, whatever became of the prior key...
moveUsage(used, prior, k) ==
    IF prior # None
    THEN [used EXCEPT ![k] = used[prior.key],
                      ![prior.key] = [p \in DOMAIN used[prior.key] |-> 0]]
    ELSE used

\* ...and the grant names the new key.
recordGrant(grants, f, k, now) == [grants EXCEPT ![f] = [key |-> k, at |-> now]]

incrementUsage(used, k, p) == [used EXCEPT ![k][p] = @ + 1]

decrementUsage(used, k, p) == [used EXCEPT ![k][p] = IF @ > 0 THEN @ - 1 ELSE @]
==============================================================================
