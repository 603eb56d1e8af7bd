----------------------------- MODULE ProPurchase -----------------------------
(***************************************************************************)
(* Buying Pro over x402 (src/tools/free/buyPro.ts, planProPurchase in      *)
(* src/billing/service.ts), composed with the keys of ApiKeys: a purchase  *)
(* waits for the facilitator twice, and everything else goes on meanwhile. *)
(* The payment is seen through PaymentContract: it is confirmed, refused   *)
(* or left unconfirmed.                                                    *)
(***************************************************************************)
EXTENDS ApiKeys

CONSTANTS
    Purchases,      \* calls of hl_buy_pro
    Term            \* PRO_TERM_DAYS, in ticks

ASSUME TermAssumption == Term \in Nat \ {0}

VARIABLES
    buy,            \* progress of a purchase, its subject and its key
    bought,         \* ghost: terms paid for and applied, per key
    since,          \* ghost: when the first of them was planned or applied
    latest          \* ghost: and the latest

buyVars == <<buy, bought, since, latest>>
allVars == <<vars, buyVars>>

Answers == {"refused", "done", "notCharged", "unconfirmed", "activationFailed", "lost"}

ProTypeOK ==
    /\ TypeOK
    /\ buy \in [Purchases ->
                  [at : {"idle", "verifying", "settling"} \cup Answers,
                   key : Keys \cup {None}, renewed : BOOLEAN]]
    /\ bought \in [Keys -> Nat] /\ since \in [Keys -> Nat] /\ latest \in [Keys -> Nat]

ProInit ==
    /\ Init
    /\ buy = [b \in Purchases |-> [at |-> "idle", key |-> None, renewed |-> FALSE]]
    /\ bought = [k \in Keys |-> 0]
    /\ since = [k \in Keys |-> 0] /\ latest = [k \in Keys |-> 0]

moveTo(b, at) == buy' = [buy EXCEPT ![b].at = at]

------------------------------------------------------------------------------
\* assertProPurchasable: not a key without an end, nor one of the operator's.
Purchasable(k) ==
    k # None /\ keys[k] # None =>
        /\ ~(keys[k].tier = "pro" /\ keys[k].expires = None)
        /\ keys[k].label \notin BootstrapLabels

\* subjectFor: the caller's key unless it is unknown or disabled, else "anon".
subjectFor(k) == IF k # None /\ keys[k] # None /\ ~keys[k].disabled THEN k ELSE None

\* The handler checks the subject and asks the facilitator to verify.
Ask(b, k) ==
    /\ buy[b].at = "idle"
    /\ k \in known \cup {None}
    /\ buy' = [buy EXCEPT ![b] =
                 [at |-> IF Purchasable(subjectFor(k)) THEN "verifying" ELSE "refused",
                  key |-> subjectFor(k), renewed |-> FALSE]]
    /\ UNCHANGED <<vars, bought, since, latest>>

VerifyFails(b) ==
    /\ buy[b].at = "verifying"
    /\ moveTo(b, "refused")
    /\ UNCHANGED <<vars, bought, since, latest>>

subjectHasRow(b) == buy[b].key # None /\ keys[buy[b].key] # None

\* Mutant: a renewal is applied when it is planned.
PlanAndExtend(b) ==
    /\ buy[b].at = "verifying"
    /\ subjectHasRow(b)
    /\ buy' = [buy EXCEPT ![b].at = "settling", ![b].renewed = TRUE]
    /\ keys' = extendProKey(keys, buy[b].key, now, Term)
    /\ UNCHANGED <<used, grants, calls, now, env, known, owner, served,
                   bought, since, latest>>

\* planProPurchase of a key that is in the table: only noted.
PlanRenewal(b) ==
    /\ buy[b].at = "verifying"
    /\ subjectHasRow(b)
    /\ buy' = [buy EXCEPT ![b].at = "settling", ![b].renewed = TRUE]
    /\ UNCHANGED <<vars, bought, since, latest>>

\* planProPurchase without one: the new key is stored before it is paid for.
PlanNewKey(b, k) ==
    /\ buy[b].at = "verifying"
    /\ ~subjectHasRow(b)
    /\ Fresh(k)
    /\ keys' = grantProKey(keys, k, now + Term)
    /\ buy' = [buy EXCEPT ![b] = [at |-> "settling", key |-> k, renewed |-> FALSE]]
    /\ since' = [since EXCEPT ![k] = now] /\ latest' = [latest EXCEPT ![k] = now]
    /\ UNCHANGED <<used, grants, calls, now, env, known, owner, served, bought>>

\* The payment settled, a new key is the buyer's: the result hands it out.
CommitNewKey(b) ==
    /\ buy[b].at = "settling" /\ ~buy[b].renewed
    /\ moveTo(b, "done")
    /\ known' = known \cup {buy[b].key}
    /\ bought' = [bought EXCEPT ![buy[b].key] = @ + 1]
    /\ UNCHANGED <<keys, used, grants, calls, now, env, owner, served, since, latest>>

\* The payment settled, commit extends the key...
CommitRenewal(b) ==
    LET k == buy[b].key
    IN  /\ buy[b].at = "settling" /\ buy[b].renewed /\ keys[k] # None
        /\ moveTo(b, "done")
        /\ keys' = extendProKey(keys, k, now, Term)
        /\ grants' = dropGrantsOf(grants, k)
        /\ bought' = [bought EXCEPT ![k] = @ + 1]
        /\ since' = IF bought[k] = 0 THEN [since EXCEPT ![k] = now] ELSE since
        /\ latest' = [latest EXCEPT ![k] = now]
        /\ UNCHANGED <<used, calls, now, env, known, owner, served>>

\* ...or finds it gone, after the money has moved.
CommitFails(b) ==
    /\ buy[b].at = "settling" /\ buy[b].renewed /\ keys[buy[b].key] = None
    /\ moveTo(b, "activationFailed")
    /\ UNCHANGED <<vars, bought, since, latest>>

\* onUndelivered: a planned new key goes again, a planned renewal leaves nothing.
discard(b) ==
    keys' = IF buy[b].renewed THEN keys ELSE discardProKey(keys, buy[b].key)

\* Settlement refused, or the request was cancelled before it was asked for;
\* settlement unconfirmed.
SettleFails(b) ==
    /\ buy[b].at = "settling"
    /\ \E answer \in {"notCharged", "unconfirmed"} : moveTo(b, answer)
    /\ discard(b)
    /\ UNCHANGED <<used, grants, calls, now, env, known, owner, served,
                   bought, since, latest>>

\* A dying process takes its purchases with it, paid or not.
OutageLosesPurchases ==
    /\ Outage
    /\ buy' = [b \in Purchases |->
                 IF buy[b].at \in {"verifying", "settling"}
                 THEN [buy[b] EXCEPT !.at = "lost"] ELSE buy[b]]
    /\ UNCHANGED <<bought, since, latest>>

ProNext ==
    \/ Handlers /\ UNCHANGED buyVars
    \/ OutageLosesPurchases
    \/ \E b \in Purchases :
          \/ \E k \in Keys \cup {None} : Ask(b, k)
          \/ VerifyFails(b) \/ PlanRenewal(b)
          \/ \E k \in Keys : PlanNewKey(b, k)
          \/ CommitNewKey(b) \/ CommitRenewal(b) \/ CommitFails(b)
          \/ SettleFails(b)

ProSpec == ProInit /\ [][ProNext]_allVars

------------------------------------------------------------------------------
\* Time on a key somebody holds is exactly the time paid for: each settled
\* purchase adds one term to what was left, racing renewals both count, and a
\* payment that did not settle adds nothing (service.ts:286-292, db.ts:100-105).
PaidTimeOnly ==
    \A k \in known :
        keys[k] # None /\ keys[k].expires # None =>
            /\ bought[k] > 0
            /\ keys[k].expires >= since[k] + bought[k] * Term
            /\ keys[k].expires <= latest[k] + bought[k] * Term

\* A key that was paid for stays in the table, Pro and enabled, whatever is
\* re-issued, discarded or revoked beside it; and it has left its self-serve
\* grant, so that asking for a free key later cannot touch it (db.ts:103-104).
BoughtKeyWorks ==
    /\ \A k \in Keys :
          bought[k] > 0 =>
              keys[k] # None /\ keys[k].tier = "pro" /\ ~keys[k].disabled
    /\ \A f \in Fingerprints : grants[f] # None => bought[grants[f].key] = 0

==============================================================================
