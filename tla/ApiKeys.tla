------------------------------- MODULE ApiKeys -------------------------------
(***************************************************************************)
(* Free keys, the environment's keys and the monthly quota                 *)
(* (src/billing/service.ts): keys are issued, re-issued, provisioned and   *)
(* revoked while calls charged to them are still running.                  *)
(***************************************************************************)
EXTENDS KeyTable, FiniteSets

CONSTANTS
    Calls,          \* premium tool calls in progress at once
    OperatorKeys,   \* raw keys the operator made up
    EnvLists,       \* settings of HYPERSIGNAL_PRO_KEYS and _FREE_KEYS
    Quota,          \* TIERS.free.monthlyPremiumCalls
    Cooldown,       \* FREE_KEY_REISSUE_COOLDOWN_MS, in ticks
    MaxSelfServe,   \* MAX_SELF_SERVE_KEYS
    Month,          \* ticks per billing period
    MaxTime,        \* bound: last tick
    MaxUse          \* bound: calls counted per key and period

ASSUME EnvAssumption ==
    /\ OperatorKeys \subseteq Keys
    /\ EnvLists \subseteq [pro : SUBSET Keys, free : SUBSET Keys]
ASSUME NumbersAssumption ==
    /\ Quota \in Nat /\ Cooldown \in Nat /\ MaxSelfServe \in Nat
    /\ Month \in Nat \ {0} /\ MaxTime \in Nat /\ MaxUse \in Nat
    /\ IsFiniteSet(Calls)

VARIABLES
    keys,           \* table api_keys
    used,           \* table usage_counters: key and period to count
    grants,         \* table free_key_grants
    calls,          \* calls running, with the key and period they charged
    now,            \* clock
    env,            \* the last lists a process was started with that list any key
    known,          \* keys whose raw value somebody holds
    owner,          \* ghost: the fingerprint a free key was issued to
    served          \* ghost: free premium calls delivered to a fingerprint

vars == <<keys, used, grants, calls, now, env, known, owner, served>>

Periods == 0 .. MaxTime \div Month
period == now \div Month

Idle == [key |-> None, period |-> 0, free |-> FALSE]

TypeOK ==
    /\ keys \in [Keys -> KeyRow \cup {None}]
    /\ used \in [Keys -> [Periods -> Nat]]
    /\ grants \in [Fingerprints -> Grant \cup {None}]
    /\ calls \in [Calls -> [key : Keys \cup {None}, period : Periods, free : BOOLEAN]]
    /\ now \in 0 .. MaxTime
    /\ env \in EnvLists
    /\ known \subseteq Keys
    /\ owner \in [Keys -> Fingerprints \cup {None}]
    /\ served \in [Fingerprints -> [Periods -> Nat]]

------------------------------------------------------------------------------
listed(e) == e.pro \cup e.free

\* bootstrapKeysFromEnv: the pro list is provisioned first, so a key on both
\* lists ends as free; both lists empty leaves every key as it was.
provision(table, e) ==
    [k \in Keys |->
        IF k \in e.free
        THEN upsertKey(table, k, "free", "free-bootstrap")[k]
        ELSE IF k \in e.pro
        THEN upsertKey(table, k, "pro", "pro-bootstrap")[k]
        ELSE table[k]]

bootstrapKeysFromEnv(table, e) ==
    IF listed(e) = {} THEN table
    ELSE disableMissingBootstrapKeys(provision(table, e), listed(e))

\* Lists without a key leave in force those of an earlier start.
inForce(e) == IF listed(e) = {} THEN env ELSE e

Init ==
    /\ env \in EnvLists /\ listed(env) \subseteq OperatorKeys
    /\ keys = bootstrapKeysFromEnv([k \in Keys |-> None], env)
    /\ used = [k \in Keys |-> [p \in Periods |-> 0]]
    /\ grants = [f \in Fingerprints |-> None]
    /\ calls = [c \in Calls |-> Idle]
    /\ now = 0
    /\ known = OperatorKeys
    /\ owner = [k \in Keys |-> None]
    /\ served = [f \in Fingerprints |-> [p \in Periods |-> 0]]

\* A random key nobody has seen.
Fresh(k) == keys[k] = None /\ k \notin known

MayIssue(f) ==
    IF grants[f] # None
    THEN now - grants[f].at >= Cooldown
    ELSE Cardinality({g \in Fingerprints : grants[g] # None}) < MaxSelfServe

\* issueFreeKey: upsertKey, then the transaction of recordFreeKeyGrant.
IssueFreeKey(f, k) ==
    /\ Fresh(k) /\ MayIssue(f)
    /\ keys' = revokePrior(upsertKey(keys, k, "free", "self-serve"), grants[f])
    /\ used' = moveUsage(used, grants[f], k)
    /\ grants' = recordGrant(grants, f, k, now)
    /\ known' = known \cup {k}
    /\ owner' = [owner EXCEPT ![k] = f]
    /\ UNCHANGED <<calls, now, env, served>>

\* authorizerFor on a key the caller sent: charge it, or refuse (x402 aside).
expired(row) == row.expires # None /\ row.expires <= now

Usable(k) == keys[k] # None /\ ~keys[k].disabled /\ ~expired(keys[k])

Chargeable(k) ==
    /\ Usable(k)
    /\ keys[k].tier = "free" => used[k][period] < Quota

Authorize(c, k) ==
    /\ calls[c] = Idle
    /\ k \in known /\ Chargeable(k)
    /\ used[k][period] < MaxUse
    /\ used' = incrementUsage(used, k, period)
    /\ calls' = [calls EXCEPT ![c] =
                    [key |-> k, period |-> period, free |-> keys[k].tier = "free"]]
    /\ UNCHANGED <<keys, grants, now, env, known, owner, served>>

\* The tool delivers its result.
Deliver(c) ==
    /\ calls[c] # Idle
    /\ served' = IF calls[c].free /\ owner[calls[c].key] # None
                 THEN [served EXCEPT ![owner[calls[c].key]][calls[c].period] = @ + 1]
                 ELSE served
    /\ calls' = [calls EXCEPT ![c] = Idle]
    /\ UNCHANGED <<keys, used, grants, now, env, known, owner>>

\* The tool fails or is cancelled: refund the key and period it charged.
Fail(c) ==
    /\ calls[c] # Idle
    /\ used' = decrementUsage(used, calls[c].key, calls[c].period)
    /\ calls' = [calls EXCEPT ![c] = Idle]
    /\ UNCHANGED <<keys, grants, now, env, known, owner, served>>

\* A restart, perhaps with other lists; what ran is neither served nor refunded.
Restart(e) ==
    /\ listed(e) \subseteq known
    /\ env' = inForce(e)
    /\ keys' = bootstrapKeysFromEnv(keys, e)
    /\ calls' = [c \in Calls |-> Idle]
    /\ UNCHANGED <<used, grants, now, known, owner, served>>

\* The process dies inside issueFreeKey, before the grant is recorded: the
\* key is in the table but nobody was told it.
IssueInterrupted(f, k, e) ==
    /\ Fresh(k) /\ MayIssue(f) /\ listed(e) \subseteq known
    /\ env' = inForce(e)
    /\ keys' = bootstrapKeysFromEnv(upsertKey(keys, k, "free", "self-serve"), e)
    /\ calls' = [c \in Calls |-> Idle]
    /\ UNCHANGED <<used, grants, now, known, owner, served>>

Tick ==
    /\ now < MaxTime
    /\ now' = now + 1
    /\ UNCHANGED <<keys, used, grants, calls, env, known, owner, served>>

\* A process dies and starts again.
Outage ==
    \E e \in EnvLists :
        \/ Restart(e)
        \/ \E f \in Fingerprints, k \in Keys : IssueInterrupted(f, k, e)

Handlers ==
    \/ \E f \in Fingerprints, k \in Keys : IssueFreeKey(f, k)
    \/ \E c \in Calls :
          \/ \E k \in Keys : Authorize(c, k)
          \/ Deliver(c) \/ Fail(c)
    \/ Tick

Next == Handlers \/ Outage

Spec == Init /\ [][Next]_vars

------------------------------------------------------------------------------
\* Free calls of f in progress, charged to period p.
Running(f, p) ==
    Cardinality({c \in Calls : /\ calls[c].key # None /\ calls[c].free
                               /\ owner[calls[c].key] = f /\ calls[c].period = p})

\* Asking again is not a quota reset (service.ts:116-120, db.ts:253-260): the
\* calls a requester was served and is being served, over all the keys it was
\* ever issued, stay within one monthly allowance.
QuotaPerRequester ==
    \A f \in Fingerprints, p \in Periods : served[f][p] + Running(f, p) <= Quota

\* Of all free keys issued to a requester at most one still works, and it is the
\* one the grant names (db.ts:42-43, service.ts:117).
OneActiveFreeKey ==
    \A k \in Keys :
        owner[k] # None /\ Usable(k) /\ keys[k].tier = "free" =>
            grants[owner[k]] # None /\ grants[owner[k]].key = k

\* The tier of a listed key; a key on both lists is provisioned as free last.
listedTier(e, k) == IF k \in e.free THEN "free" ELSE "pro"

\* The environment is the source of truth (service.ts:76-80): of the rows it
\* labels exactly those it lists work, each in the tier of its list, and a
\* start with both lists empty leaves them as the last lists that named a key
\* had them (service.ts:90-95).
EnvironmentRules ==
    /\ {k \in Keys : keys[k] # None /\ keys[k].label \in BootstrapLabels /\ ~keys[k].disabled}
           = listed(env)
    /\ \A k \in listed(env) : keys[k].tier = listedTier(env, k)

==============================================================================
