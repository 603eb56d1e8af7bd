----------------------------- MODULE Keys_proofs -----------------------------
(***************************************************************************)
(* Keys, for any number of keys, requesters, calls and purchases at once.  *)
(* The operator is assumed to list keys of his own making only             *)
(* (OperatorLists): a key issued here and then listed would be taken for a *)
(* bootstrap key.                                                          *)
(*                                                                         *)
(* Free keys and the monthly allowance: the quota rests on Charged, that   *)
(* the counter of the key a requester holds covers all he was and is being *)
(* served, so the check on that one counter bounds him, over every key he  *)
(* ever had.                                                               *)
(*                                                                         *)
(* What a buyer of Pro has: a key paid for is known, and what can take a   *)
(* key away spares it: a re-issue takes the key of a grant, which is never *)
(* one paid for (Grants); a purchase that fails takes the key it planned,  *)
(* which nobody else can renew or be handed (NewKeys); the environment     *)
(* takes keys it labelled itself (RowsOrdered).                            *)
(***************************************************************************)
EXTENDS ProPurchase, FiniteSetTheorems, TLAPS

OperatorLists == \A e \in EnvLists : listed(e) \subseteq OperatorKeys

\* A key somebody was issued is known, and none of the operator's.
IssuedKnown ==
    /\ OperatorKeys \subseteq known
    /\ \A k \in Keys : owner[k] # None => k \in known \ OperatorKeys

\* A grant names a key that was issued to its requester.
GrantOwned == \A f \in Fingerprints : grants[f] # None => owner[grants[f].key] = f

\* An issued key is free, and the one its grant names; whether it has run out
\* does not matter.
FreeGranted ==
    \A k \in Keys :
        owner[k] # None /\ keys[k] # None =>
            /\ keys[k].tier = "free"
            /\ grants[owner[k]] # None /\ grants[owner[k]].key = k

\* A call runs on a known key, and is a free call if the key was issued.
CallsKnown ==
    \A c \in Calls :
        /\ calls[c].key = None => calls[c] = Idle
        /\ calls[c].key # None =>
              calls[c].key \in known /\ (owner[calls[c].key] # None => calls[c].free)

\* Nothing is counted for a key nobody holds.
UnknownUnused == \A k \in Keys \ known, p \in Periods : used[k][p] = 0

IInv ==
    /\ TypeOK /\ IssuedKnown /\ GrantOwned /\ FreeGranted /\ CallsKnown
    /\ UnknownUnused /\ EnvironmentRules

\* Free calls of f in progress, charged to period p.
Live(f, p) ==
    {c \in Calls : /\ calls[c].key # None /\ calls[c].free
                   /\ owner[calls[c].key] = f /\ calls[c].period = p}

\* The counter of the key that f holds covers what f was and is being served.
ChargedTo(f, p) ==
    /\ grants[f] = None => served[f][p] = 0 /\ Live(f, p) = {}
    /\ grants[f] # None =>
          /\ served[f][p] + Cardinality(Live(f, p)) <= used[grants[f].key][p]
          /\ used[grants[f].key][p] <= Quota

Charged == \A f \in Fingerprints, p \in Periods : ChargedTo(f, p)

------------------------------------------------------------------------------
(* The tables. *)

LEMMA PeriodTyped == ASSUME now \in 0 .. MaxTime PROVE period \in Periods /\ 0 \in Periods
<1>1. now \div Month \in Nat /\ MaxTime \div Month \in Nat
  BY NumbersAssumption
<1>2. now \div Month <= MaxTime \div Month
  BY NumbersAssumption
<1> QED
  BY <1>1, <1>2 DEF period, Periods

TableType == [Keys -> KeyRow \cup {None}]

\* The tier and the presence of a key that is not listed are left alone.
LEMMA Provisioned ==
  ASSUME NEW table \in TableType, NEW e \in EnvLists
  PROVE  /\ bootstrapKeysFromEnv(table, e) \in TableType
         /\ \A k \in Keys \ listed(e) :
               LET row == bootstrapKeysFromEnv(table, e)[k]
               IN  /\ row = None <=> table[k] = None
                   /\ row # None => row.tier = table[k].tier
<1> DEFINE mid == provision(table, e)  end == bootstrapKeysFromEnv(table, e)
<1>1. mid \in TableType
  BY EnvAssumption DEF TableType, provision, upsertKey, KeyRow, Tiers, Labels
<1>2. \A k \in Keys \ listed(e) : mid[k] = table[k]
  BY DEF provision, listed
<1>3. end \in TableType
  BY <1>1 DEF TableType, bootstrapKeysFromEnv, disableMissingBootstrapKeys, KeyRow
<1>4. ASSUME NEW k \in Keys \ listed(e)
      PROVE  /\ end[k] = None <=> table[k] = None
             /\ end[k] # None => end[k].tier = table[k].tier
  <2>1. CASE listed(e) = {}
    BY <2>1 DEF bootstrapKeysFromEnv
  <2>2. CASE listed(e) # {}
    <3>1. end[k] = IF mid[k] # None /\ mid[k].label \in BootstrapLabels
                   THEN [mid[k] EXCEPT !.disabled = TRUE] ELSE mid[k]
      BY <2>2 DEF bootstrapKeysFromEnv, disableMissingBootstrapKeys
    <3>2. mid[k] # None => [mid[k] EXCEPT !.disabled = TRUE] # None
      BY <1>1, KeyTableAssumption DEF TableType, KeyRow
    <3> QED
      BY <1>1, <1>2, <3>1, <3>2 DEF TableType, KeyRow
  <2> QED
    BY <2>1, <2>2
<1> QED
  BY <1>3, <1>4

\* Exactly the listed keys work as the environment's, in the tier of their list.
LEMMA ListsDecide ==
  ASSUME NEW table \in TableType, NEW e \in EnvLists, listed(e) # {}
  PROVE  LET end == bootstrapKeysFromEnv(table, e)
         IN  {k \in Keys : end[k] # None /\ end[k].label \in BootstrapLabels
                             /\ ~end[k].disabled} = listed(e)
             /\ \A k \in listed(e) : end[k].tier = listedTier(e, k)
<1> DEFINE mid == provision(table, e)  end == bootstrapKeysFromEnv(table, e)
<1>1. mid \in TableType
  BY EnvAssumption DEF TableType, provision, upsertKey, KeyRow, Tiers, Labels
<1>2. listed(e) \subseteq Keys
  BY EnvAssumption DEF listed
<1>3. ASSUME NEW k \in listed(e)
      PROVE  /\ end[k] # None /\ end[k].label \in BootstrapLabels /\ ~end[k].disabled
             /\ end[k].tier = listedTier(e, k)
  <2>1. /\ mid[k].label \in BootstrapLabels /\ ~mid[k].disabled /\ mid[k] \in KeyRow
        /\ mid[k].tier = listedTier(e, k)
    BY <1>2, EnvAssumption
       DEF provision, upsertKey, listed, listedTier, BootstrapLabels, TableType, KeyRow,
           Tiers, Labels
  <2>2. end[k] = mid[k]
    BY <1>2 DEF bootstrapKeysFromEnv, disableMissingBootstrapKeys
  <2> QED
    BY <2>1, <2>2, KeyTableAssumption
<1>4. ASSUME NEW k \in Keys \ listed(e), end[k] # None, end[k].label \in BootstrapLabels
      PROVE  end[k].disabled
  <2>1. end[k] = IF mid[k] # None /\ mid[k].label \in BootstrapLabels
                 THEN [mid[k] EXCEPT !.disabled = TRUE] ELSE mid[k]
    BY DEF bootstrapKeysFromEnv, disableMissingBootstrapKeys
  <2> QED
    BY <1>1, <1>4, <2>1 DEF TableType, KeyRow
<1> QED
  BY <1>2, <1>3, <1>4

------------------------------------------------------------------------------
(* IInv is inductive. *)

LEMMA InitIInv == OperatorLists /\ Init => IInv
<1> SUFFICES ASSUME OperatorLists, Init PROVE IInv
  OBVIOUS
<1> DEFINE none == [k \in Keys |-> None]
<1>1. none \in TableType
  BY DEF TableType
<1>2. keys \in TableType
  BY <1>1, Provisioned DEF Init
<1>3. \A k \in Keys : keys[k] # None => k \in OperatorKeys
  BY <1>1, Provisioned DEF Init, OperatorLists
<1>4. TypeOK
  <2>1. 0 \in Periods /\ now \in 0 .. MaxTime
    BY PeriodTyped, NumbersAssumption DEF Init
  <2>2. calls \in [Calls -> [key : Keys \cup {None}, period : Periods, free : BOOLEAN]]
    BY <2>1 DEF Init, Idle
  <2> QED
    BY <1>2, <2>1, <2>2, EnvAssumption DEF Init, TypeOK, TableType
<1>5. IssuedKnown /\ GrantOwned /\ FreeGranted /\ CallsKnown /\ UnknownUnused
  BY DEF Init, IssuedKnown, GrantOwned, FreeGranted, CallsKnown, UnknownUnused, Idle
<1>6. EnvironmentRules
  <2>1. CASE listed(env) # {}
    BY <1>1, <2>1, ListsDecide DEF Init, EnvironmentRules
  <2>2. CASE listed(env) = {}
    BY <2>2 DEF Init, EnvironmentRules, bootstrapKeysFromEnv
  <2> QED
    BY <2>1, <2>2
<1> QED
  BY <1>4, <1>5, <1>6 DEF IInv

\* A fresh key is nobody's, and no call runs on it.
LEMMA FreshIsNew ==
  ASSUME IInv, NEW k \in Keys, Fresh(k)
  PROVE  /\ keys[k] = None /\ k \notin known /\ owner[k] = None
         /\ k \notin OperatorKeys
         /\ \A f \in Fingerprints : grants[f] # None => grants[f].key # k
         /\ \A c \in Calls : calls[c].key # k
         /\ \A p \in Periods : used[k][p] = 0
<1>1. \A f \in Fingerprints : grants[f] # None => owner[grants[f].key] # None
  BY KeyTableAssumption DEF IInv, GrantOwned
<1> QED
  BY <1>1, KeyTableAssumption DEF IInv, Fresh, IssuedKnown, CallsKnown, UnknownUnused

LEMMA IssueKeeps ==
  ASSUME OperatorLists, IInv, NEW f \in Fingerprints, NEW k \in Keys, IssueFreeKey(f, k)
  PROVE  IInv'
<1> USE DEF IssueFreeKey, recordGrant
<1> DEFINE prior == grants[f]
           mid == upsertKey(keys, k, "free", "self-serve")
<1>1. /\ keys[k] = None /\ k \notin known /\ owner[k] = None /\ k \notin OperatorKeys
      /\ \A g \in Fingerprints : grants[g] # None => grants[g].key # k
      /\ \A c \in Calls : calls[c].key # k
  BY FreshIsNew
<1>2. prior # None => prior.key \in Keys /\ prior.key # k /\ owner[prior.key] = f
  BY <1>1 DEF IInv, TypeOK, Grant, GrantOwned
<1>3. mid \in TableType /\ mid[k].tier = "free" /\ mid[k].label = "self-serve"
      /\ mid[k] # None /\ \A j \in Keys : j # k => mid[j] = keys[j]
  <2>1. mid = [keys EXCEPT ![k] = [tier |-> "free", label |-> "self-serve",
                                   disabled |-> FALSE, expires |-> None]]
    BY <1>1 DEF upsertKey
  <2>2. [tier |-> "free", label |-> "self-serve", disabled |-> FALSE,
         expires |-> None] \in KeyRow
    BY DEF KeyRow, Tiers, Labels
  <2>3. mid \in TableType
    BY <2>1, <2>2 DEF IInv, TypeOK, TableType
  <2>4. mid[k] # None
    BY <2>1, <2>2, KeyTableAssumption DEF IInv, TypeOK
  <2> QED
    BY <2>1, <2>3, <2>4 DEF IInv, TypeOK
<1>4. keys' \in TableType /\ keys'[k] = mid[k]
      /\ \A j \in Keys : j # k => keys'[j] \in {keys[j], None}
  BY <1>2, <1>3 DEF revokePrior, TableType
<1>5. prior # None => keys'[prior.key] = None \/ keys'[prior.key].tier # "free"
  BY <1>2, <1>3 DEF revokePrior, TableType
<1>6. recordGrant(grants, f, k, now) \in [Fingerprints -> Grant \cup {None}]
      /\ [key |-> k, at |-> now] # None
  BY KeyTableAssumption DEF IInv, TypeOK, Grant
<1>7. used' \in [Keys -> [Periods -> Nat]]
      /\ \A j \in Keys, p \in Periods :
            j \notin known' => used'[j][p] = used[j][p]
  <2>1. CASE prior = None
    BY <2>1 DEF moveUsage, IInv, TypeOK
  <2>2. CASE prior # None
    <3>1. prior.key \in known
      BY <1>2, <2>2, KeyTableAssumption DEF IInv, IssuedKnown
    <3>2. used[prior.key] \in [Periods -> Nat]
      BY <1>2, <2>2 DEF IInv, TypeOK
    <3>3. used' = [used EXCEPT ![k] = used[prior.key],
                               ![prior.key] = [p \in Periods |-> 0]]
      BY <2>2, <3>2 DEF moveUsage
    <3>4. [p \in Periods |-> 0] \in [Periods -> Nat]
      OBVIOUS
    <3>5. used' \in [Keys -> [Periods -> Nat]]
      BY <3>2, <3>3, <3>4 DEF IInv, TypeOK
    <3> QED
      BY <1>2, <2>2, <3>1, <3>3, <3>5 DEF IInv, TypeOK
  <2> QED
    BY <2>1, <2>2
<1>8. TypeOK'
  BY <1>4, <1>6, <1>7 DEF IInv, TypeOK, TableType
<1>9. IssuedKnown'
  BY <1>1 DEF IInv, TypeOK, IssuedKnown
<1>10. GrantOwned'
  BY <1>1, <1>2, <1>6 DEF IInv, TypeOK, GrantOwned
<1>11. FreeGranted'
  <2> SUFFICES ASSUME NEW j \in Keys, owner'[j] # None, keys'[j] # None
               PROVE  /\ keys'[j].tier = "free"
                      /\ grants'[owner'[j]] # None /\ grants'[owner'[j]].key = j
    BY DEF FreeGranted
  <2>1. CASE j = k
    BY <1>3, <1>4, <1>6, <2>1 DEF IInv, TypeOK
  <2>2. CASE j # k
    <3>1. keys'[j] = keys[j] /\ owner'[j] = owner[j] /\ owner[j] \in Fingerprints
      BY <1>4, <2>2 DEF IInv, TypeOK
    <3>2. keys[j].tier = "free" /\ grants[owner[j]] # None /\ grants[owner[j]].key = j
      BY <3>1 DEF IInv, FreeGranted
    <3>3. owner[j] # f
      BY <1>5, <3>1, <3>2
    <3> QED
      BY <1>6, <3>1, <3>2, <3>3 DEF IInv, TypeOK
  <2> QED
    BY <2>1, <2>2
<1>12. CallsKnown'
  BY <1>1 DEF IInv, TypeOK, CallsKnown
<1>13. UnknownUnused'
  BY <1>7 DEF IInv, UnknownUnused
<1>14. EnvironmentRules'
  <2>1. listed(env) \subseteq OperatorKeys
    BY DEF IInv, TypeOK, OperatorLists
  <2>2. \A j \in OperatorKeys : j # k /\ (prior # None => j # prior.key)
    BY <1>1, <1>2, KeyTableAssumption DEF IInv, IssuedKnown
  <2>3. \A j \in OperatorKeys : keys'[j] = keys[j]
    BY <1>3, <2>2, EnvAssumption DEF revokePrior
  <2>4. "self-serve" \notin BootstrapLabels
    BY DEF BootstrapLabels
  <2> QED
    BY <1>3, <1>4, <2>1, <2>3, <2>4, EnvAssumption DEF IInv, EnvironmentRules
<1> QED
  BY <1>8, <1>9, <1>10, <1>11, <1>12, <1>13, <1>14 DEF IInv

LEMMA AuthorizeKeeps ==
  ASSUME IInv, NEW c \in Calls, NEW k \in Keys, Authorize(c, k)
  PROVE  IInv'
<1> USE DEF Authorize
<1>1. period \in Periods
  BY PeriodTyped DEF IInv, TypeOK
<1>2. used' \in [Keys -> [Periods -> Nat]]
      /\ \A j \in Keys : j # k => used'[j] = used[j]
  <2>1. used[k] \in [Periods -> Nat] /\ used[k][period] + 1 \in Nat
    BY <1>1 DEF IInv, TypeOK
  <2>2. used' = [used EXCEPT ![k] = [used[k] EXCEPT ![period] = used[k][period] + 1]]
    BY DEF incrementUsage
  <2>3. [used[k] EXCEPT ![period] = used[k][period] + 1] \in [Periods -> Nat]
    BY <2>1
  <2> QED
    BY <2>2, <2>3 DEF IInv, TypeOK
<1>3. TypeOK'
  <2>1. [key |-> k, period |-> period, free |-> keys[k].tier = "free"]
          \in [key : Keys \cup {None}, period : Periods, free : BOOLEAN]
    BY <1>1
  <2> QED
    BY <1>2, <2>1 DEF IInv, TypeOK
<1>4. CallsKnown'
  <2>1. owner[k] # None => keys[k].tier = "free"
    BY DEF IInv, FreeGranted, Chargeable, Usable
  <2> QED
    BY <2>1, KeyTableAssumption DEF IInv, TypeOK, CallsKnown
<1>5. UnknownUnused'
  BY <1>2 DEF IInv, UnknownUnused
<1>6. IssuedKnown' /\ GrantOwned' /\ FreeGranted' /\ EnvironmentRules'
  BY DEF IInv, IssuedKnown, GrantOwned, FreeGranted, EnvironmentRules, listed
<1> QED
  BY <1>3, <1>4, <1>5, <1>6 DEF IInv

\* Idle is a call like another.
LEMMA IdleTyped ==
  Idle \in [key : Keys \cup {None}, period : Periods, free : BOOLEAN]
BY PeriodTyped, NumbersAssumption DEF Idle, Periods

LEMMA DeliverKeeps ==
  ASSUME IInv, NEW c \in Calls, Deliver(c)
  PROVE  IInv'
<1> USE DEF Deliver
<1>1. calls[c].key \in Keys /\ calls[c].period \in Periods
  BY DEF IInv, TypeOK, CallsKnown
<1>2. served' \in [Fingerprints -> [Periods -> Nat]]
  <2>1. CASE ~(calls[c].free /\ owner[calls[c].key] # None)
    BY <2>1 DEF IInv, TypeOK
  <2>2. CASE calls[c].free /\ owner[calls[c].key] # None
    <3> DEFINE f == owner[calls[c].key]  p == calls[c].period
    <3>1. f \in Fingerprints /\ served[f] \in [Periods -> Nat] /\ served[f][p] + 1 \in Nat
      BY <1>1, <2>2 DEF IInv, TypeOK
    <3>2. served' = [served EXCEPT ![f] = [served[f] EXCEPT ![p] = served[f][p] + 1]]
      BY <2>2
    <3>3. [served[f] EXCEPT ![p] = served[f][p] + 1] \in [Periods -> Nat]
      BY <3>1
    <3> QED
      BY <3>1, <3>2, <3>3 DEF IInv, TypeOK
  <2> QED
    BY <2>1, <2>2
<1>3. TypeOK'
  BY <1>2, IdleTyped DEF IInv, TypeOK
<1>4. CallsKnown'
  BY DEF IInv, TypeOK, CallsKnown, Idle
<1>5. /\ IssuedKnown' /\ GrantOwned' /\ FreeGranted' /\ UnknownUnused'
      /\ EnvironmentRules'
  BY DEF IInv, IssuedKnown, GrantOwned, FreeGranted, UnknownUnused, EnvironmentRules,
     listed
<1> QED
  BY <1>3, <1>4, <1>5 DEF IInv

LEMMA FailKeeps ==
  ASSUME IInv, NEW c \in Calls, Fail(c)
  PROVE  IInv'
<1> USE DEF Fail
<1> DEFINE k == calls[c].key  p == calls[c].period
<1>1. k \in Keys /\ p \in Periods /\ k \in known
  BY DEF IInv, TypeOK, CallsKnown
<1>2. used' \in [Keys -> [Periods -> Nat]]
      /\ \A j \in Keys : j # k => used'[j] = used[j]
  <2> DEFINE n == IF used[k][p] > 0 THEN used[k][p] - 1 ELSE used[k][p]
  <2>1. used[k] \in [Periods -> Nat] /\ n \in Nat
    BY <1>1 DEF IInv, TypeOK
  <2>2. used' = [used EXCEPT ![k] = [used[k] EXCEPT ![p] = n]]
    BY DEF decrementUsage
  <2>3. [used[k] EXCEPT ![p] = n] \in [Periods -> Nat]
    BY <2>1
  <2>4. used \in [Keys -> [Periods -> Nat]]
    BY DEF IInv, TypeOK
  <2> HIDE DEF n
  <2> QED
    BY <1>1, <2>2, <2>3, <2>4
<1>3. TypeOK'
  BY <1>2, IdleTyped DEF IInv, TypeOK
<1>4. CallsKnown'
  BY DEF IInv, TypeOK, CallsKnown, Idle
<1>5. UnknownUnused'
  BY <1>1, <1>2 DEF IInv, UnknownUnused
<1>6. IssuedKnown' /\ GrantOwned' /\ FreeGranted' /\ EnvironmentRules'
  BY DEF IInv, IssuedKnown, GrantOwned, FreeGranted, EnvironmentRules, listed
<1> QED
  BY <1>3, <1>4, <1>5, <1>6 DEF IInv

\* A restart on any table that leaves the issued keys as they were.
LEMMA RestartedKeeps ==
  ASSUME OperatorLists, IInv, NEW e \in EnvLists, NEW table \in TableType,
         \A k \in Keys : owner[k] # None => table[k] = keys[k],
         \A k \in Keys : \/ table[k] = keys[k]
                         \/ keys[k] = None /\ table[k].label = "self-serve",
         env' = inForce(e), keys' = bootstrapKeysFromEnv(table, e),
         calls' = [c \in Calls |-> Idle],
         UNCHANGED <<used, grants, now, known, owner, served>>
  PROVE  IInv'
<1>1. TypeOK'
  BY Provisioned, IdleTyped DEF IInv, TypeOK, TableType, inForce
<1>2. FreeGranted'
  BY Provisioned DEF IInv, FreeGranted, IssuedKnown, OperatorLists
<1>3. CallsKnown'
  BY DEF CallsKnown, Idle
<1>4. EnvironmentRules'
  <2>1. CASE listed(e) # {}
    BY <2>1, ListsDecide DEF EnvironmentRules, inForce
  <2>2. CASE listed(e) = {}
    <3>1. keys' = table /\ env' = env
      BY <2>2 DEF bootstrapKeysFromEnv, inForce
    <3>2. "self-serve" \notin BootstrapLabels
      BY DEF BootstrapLabels
    <3>3. listed(env) \subseteq Keys
      BY EnvAssumption DEF IInv, TypeOK, listed
    <3> QED
      BY <3>1, <3>2, <3>3 DEF IInv, EnvironmentRules
  <2> QED
    BY <2>1, <2>2
<1>5. IssuedKnown' /\ GrantOwned' /\ UnknownUnused'
  BY DEF IInv, IssuedKnown, GrantOwned, UnknownUnused
<1> QED
  BY <1>1, <1>2, <1>3, <1>4, <1>5 DEF IInv

LEMMA OutageKeeps ==
  ASSUME OperatorLists, IInv, Outage
  PROVE  IInv'
<1> PICK e \in EnvLists :
        \/ Restart(e)
        \/ \E f \in Fingerprints, k \in Keys : IssueInterrupted(f, k, e)
  BY DEF Outage
<1>1. CASE Restart(e)
  BY <1>1, RestartedKeeps DEF Restart, IInv, TypeOK, TableType
<1>2. ASSUME NEW f \in Fingerprints, NEW k \in Keys, IssueInterrupted(f, k, e)
      PROVE  IInv'
  <2> DEFINE table == upsertKey(keys, k, "free", "self-serve")
  <2>1. keys[k] = None /\ owner[k] = None
    BY <1>2, FreshIsNew DEF IssueInterrupted
  <2>2. table = [keys EXCEPT ![k] = [tier |-> "free", label |-> "self-serve",
                                     disabled |-> FALSE, expires |-> None]]
    BY <2>1 DEF upsertKey
  <2>3. [tier |-> "free", label |-> "self-serve", disabled |-> FALSE,
         expires |-> None] \in KeyRow
    BY DEF KeyRow, Tiers, Labels
  <2>4. /\ table \in TableType /\ \A j \in Keys : owner[j] # None => table[j] = keys[j]
    BY <2>1, <2>2, <2>3 DEF IInv, TypeOK, TableType
  <2>5. ASSUME NEW j \in Keys
        PROVE  \/ table[j] = keys[j]
               \/ keys[j] = None /\ table[j].label = "self-serve"
    <3>1. keys \in [Keys -> KeyRow \cup {None}]
      BY DEF IInv, TypeOK
    <3>2. CASE j = k
      BY <2>1, <2>2, <3>1, <3>2
    <3>3. CASE j # k
      BY <2>2, <3>1, <3>3
    <3> QED
      BY <3>2, <3>3
  <2> QED
    BY <1>2, <2>4, <2>5, RestartedKeeps DEF IssueInterrupted
<1> QED
  BY <1>1, <1>2

LEMMA NextKeeps ==
  ASSUME OperatorLists, IInv, [Next]_vars
  PROVE  IInv'
<1>1. CASE UNCHANGED vars
  BY <1>1 DEF vars, IInv, TypeOK, IssuedKnown, GrantOwned, FreeGranted, CallsKnown,
     UnknownUnused, EnvironmentRules
<1>2. CASE \E f \in Fingerprints, k \in Keys : IssueFreeKey(f, k)
  BY <1>2, IssueKeeps
<1>3. CASE \E c \in Calls, k \in Keys : Authorize(c, k)
  BY <1>3, AuthorizeKeeps
<1>4. CASE \E c \in Calls : Deliver(c) \/ Fail(c)
  BY <1>4, DeliverKeeps, FailKeeps
<1>5. CASE Tick
  BY <1>5, NumbersAssumption DEF Tick, IInv, TypeOK, IssuedKnown, GrantOwned, FreeGranted,
     CallsKnown, UnknownUnused, EnvironmentRules
<1>6. CASE Outage
  BY <1>6, OutageKeeps
<1> QED
  BY <1>1, <1>2, <1>3, <1>4, <1>5, <1>6 DEF Next, Handlers

\* The types, the grants and the environment's keys stay in order.
THEOREM Invariance == ASSUME OperatorLists PROVE Spec => []IInv
<1>1. Init => IInv
  BY InitIInv
<1>2. IInv /\ [Next]_vars => IInv'
  BY NextKeeps
<1> QED
  BY <1>1, <1>2, PTL DEF Spec

\* Every variable keeps its type.
THEOREM TypeCorrect == ASSUME OperatorLists PROVE Spec => []TypeOK
<1>1. IInv => TypeOK
  BY DEF IInv
<1> QED
  BY <1>1, Invariance, PTL

\* Of all free keys issued to a requester only the one his grant names works
\* (db.ts:42-43, service.ts:117).
THEOREM OneFreeKey == ASSUME OperatorLists PROVE Spec => []OneActiveFreeKey
<1>1. IInv => OneActiveFreeKey
  BY DEF IInv, FreeGranted, OneActiveFreeKey, Usable
<1> QED
  BY <1>1, Invariance, PTL

\* Exactly the keys of the last lists that named one work as bootstrap keys,
\* each in the tier of its list (service.ts:76-95).
THEOREM EnvironmentDecides == ASSUME OperatorLists PROVE Spec => []EnvironmentRules
<1>1. IInv => EnvironmentRules
  BY DEF IInv
<1> QED
  BY <1>1, Invariance, PTL

------------------------------------------------------------------------------
(* The monthly allowance. *)

LEMMA LiveFinite ==
  ASSUME NEW f, NEW p
  PROVE  IsFiniteSet(Live(f, p)) /\ Cardinality(Live(f, p)) \in Nat
BY FS_Subset, FS_CardinalityType, NumbersAssumption DEF Live

\* A step that leaves the calls, the grant, its counter and the deliveries of a
\* requester alone.
LEMMA SameCharged ==
  ASSUME NEW f \in Fingerprints, NEW p \in Periods, ChargedTo(f, p),
         Live(f, p)' = Live(f, p), grants'[f] = grants[f],
         served'[f][p] = served[f][p],
         grants[f] # None => used'[grants[f].key][p] = used[grants[f].key][p]
  PROVE  ChargedTo(f, p)'
<1>1. Cardinality(Live(f, p))' = Cardinality(Live(f, p))
  OBVIOUS
<1> QED
  BY <1>1 DEF ChargedTo

\* The counters have their types where Charged reads them.
LEMMA CountersTyped ==
  ASSUME IInv, NEW f \in Fingerprints, NEW p \in Periods
  PROVE  /\ served[f][p] \in Nat /\ Quota \in Nat
         /\ grants[f] # None => /\ grants[f].key \in Keys /\ owner[grants[f].key] = f
                                /\ used[grants[f].key][p] \in Nat
<1>1. grants[f] # None => grants[f].key \in Keys
  BY DEF IInv, TypeOK, Grant
<1> QED
  BY <1>1, NumbersAssumption DEF IInv, TypeOK, GrantOwned

LEMMA InitCharged == ASSUME Init PROVE Charged
BY DEF Init, Charged, ChargedTo, Live, Idle

\* Issuing a key carries the count over and changes no call.
LEMMA IssueCharged ==
  ASSUME OperatorLists, IInv, Charged,
         NEW f \in Fingerprints, NEW k \in Keys, IssueFreeKey(f, k)
  PROVE  Charged'
<1> USE DEF IssueFreeKey, recordGrant
<1> SUFFICES ASSUME NEW g \in Fingerprints, NEW p \in Periods
             PROVE  ChargedTo(g, p)'
  BY DEF Charged
<1>0. ChargedTo(g, p)
  BY DEF Charged
<1>1. /\ keys[k] = None /\ k \notin known /\ owner[k] = None
      /\ \A h \in Fingerprints : grants[h] # None => grants[h].key # k
      /\ \A c \in Calls : calls[c].key # k
      /\ \A q \in Periods : used[k][q] = 0
  BY FreshIsNew
<1>2. Live(g, p)' = Live(g, p)
  BY <1>1 DEF Live, IInv, TypeOK
<1>3. CASE g # f
  <2>1. grants'[g] = grants[g]
    BY <1>3 DEF IInv, TypeOK
  <2>2. ASSUME grants[g] # None PROVE used'[grants[g].key] = used[grants[g].key]
    <3>1. grants[g].key \in Keys /\ owner[grants[g].key] = g /\ grants[g].key # k
      BY <1>1, <2>2 DEF IInv, TypeOK, Grant, GrantOwned
    <3>2. grants[f] # None => grants[f].key # grants[g].key
      BY <1>3, <3>1 DEF IInv, GrantOwned
    <3> QED
      BY <3>1, <3>2 DEF moveUsage, IInv, TypeOK
  <2> QED
    BY <1>0, <1>2, <2>1, <2>2, SameCharged
<1>4. CASE g = f
  <2>1. grants'[g] # None /\ grants'[g].key = k
    BY <1>4, KeyTableAssumption DEF IInv, TypeOK, Grant
  <2>2. CASE grants[f] = None
    <3>1. used'[k][p] = 0 /\ served'[g][p] = 0 /\ Live(g, p)' = {}
      BY <1>0, <1>1, <1>2, <1>4, <2>2 DEF moveUsage, ChargedTo
    <3>2. Quota \in Nat /\ Cardinality(Live(g, p)') = 0
      BY <3>1, FS_EmptySet, NumbersAssumption
    <3> QED
      BY <2>1, <3>1, <3>2 DEF ChargedTo
  <2>3. CASE grants[f] # None
    <3>1. grants[f].key \in Keys /\ grants[f].key # k
      BY <1>1, <2>3 DEF IInv, TypeOK, Grant
    <3>2. used'[k] = used[grants[f].key]
      BY <2>3, <3>1 DEF moveUsage, IInv, TypeOK
    <3>3. Cardinality(Live(g, p)') = Cardinality(Live(g, p)) /\ served'[g] = served[g]
      BY <1>2
    <3> QED
      BY <1>0, <1>4, <2>1, <2>3, <3>2, <3>3 DEF ChargedTo
  <2> QED
    BY <2>2, <2>3
<1> QED
  BY <1>3, <1>4

\* An authorized call is charged to the key it runs on, within the quota.
LEMMA AuthorizeCharged ==
  ASSUME IInv, Charged, NEW c \in Calls, NEW k \in Keys, Authorize(c, k)
  PROVE  Charged'
<1> USE DEF Authorize
<1> SUFFICES ASSUME NEW g \in Fingerprints, NEW p \in Periods
             PROVE  ChargedTo(g, p)'
  BY DEF Charged
<1>0. ChargedTo(g, p)
  BY DEF Charged
<1>1. /\ used' = [used EXCEPT ![k] = [used[k] EXCEPT ![period] = used[k][period] + 1]]
      /\ used[k] \in [Periods -> Nat] /\ period \in Periods
  BY PeriodTyped DEF incrementUsage, IInv, TypeOK
<1>2. /\ calls[c].key = None /\ calls'[c].key = k /\ calls'[c].period = period
      /\ calls'[c].free = (keys[k].tier = "free") /\ k # None
      /\ \A d \in Calls : d # c => calls'[d] = calls[d]
  BY KeyTableAssumption DEF Idle, IInv, TypeOK
<1>3. CASE owner[k] = g /\ p = period
  <2>1. keys[k].tier = "free" /\ grants[g] # None /\ grants[g].key = k
    BY <1>3, KeyTableAssumption DEF Chargeable, Usable, IInv, FreeGranted
  <2>2. Live(g, p)' = Live(g, p) \cup {c} /\ c \notin Live(g, p)
    BY <1>2, <1>3, <2>1 DEF Live
  <2>3. Cardinality(Live(g, p)') = Cardinality(Live(g, p)) + 1
    BY <2>2, LiveFinite, FS_AddElement
  <2>4. used[k][p] < Quota /\ used'[k][p] = used[k][p] + 1
    BY <1>1, <1>3, <2>1 DEF Chargeable, IInv, TypeOK
  <2>5. served[g][p] + Cardinality(Live(g, p)) <= used[k][p]
    BY <1>0, <2>1 DEF ChargedTo
  <2>6. served[g][p] \in Nat /\ used[k][p] \in Nat /\ Quota \in Nat
        /\ Cardinality(Live(g, p)) \in Nat
    BY <2>1, CountersTyped, LiveFinite
  <2>7. served' = served /\ grants' = grants
    OBVIOUS
  <2> QED
    BY <2>1, <2>3, <2>4, <2>5, <2>6, <2>7 DEF ChargedTo
<1>4. CASE ~(owner[k] = g /\ p = period)
  <2>1. Live(g, p)' = Live(g, p)
    BY <1>2, <1>4 DEF Live
  <2>2. grants[g] # None => used'[grants[g].key][p] = used[grants[g].key][p]
    BY <1>1, <1>4, CountersTyped DEF IInv, TypeOK
  <2> QED
    BY <1>0, <2>1, <2>2, SameCharged
<1> QED
  BY <1>3, <1>4

\* A call that ends leaves the calls of the requester it ran for.
LEMMA EndedCall ==
  ASSUME IInv, NEW c \in Calls, calls[c] # Idle, calls' = [calls EXCEPT ![c] = Idle],
         owner' = owner, NEW g \in Fingerprints, NEW p \in Periods
  PROVE  IF owner[calls[c].key] = g /\ calls[c].period = p
         THEN /\ c \in Live(g, p) /\ calls[c].free
              /\ Cardinality(Live(g, p)') = Cardinality(Live(g, p)) - 1
         ELSE Live(g, p)' = Live(g, p)
<1>1. /\ calls[c].key # None /\ calls'[c].key = None
      /\ \A d \in Calls : d # c => calls'[d] = calls[d]
  BY DEF Idle, IInv, TypeOK, CallsKnown
<1>2. CASE owner[calls[c].key] = g /\ calls[c].period = p
  <2>1. calls[c].free
    BY <1>1, <1>2, KeyTableAssumption DEF IInv, CallsKnown
  <2>2. c \in Live(g, p) /\ Live(g, p)' = Live(g, p) \ {c}
    BY <1>1, <1>2, <2>1 DEF Live
  <2>3. Cardinality(Live(g, p)') = Cardinality(Live(g, p)) - 1
    BY <2>2, LiveFinite, FS_RemoveElement
  <2> QED
    BY <1>2, <2>1, <2>2, <2>3
<1>3. CASE ~(owner[calls[c].key] = g /\ calls[c].period = p)
  BY <1>1, <1>3 DEF Live
<1> QED
  BY <1>2, <1>3

\* A delivered call moves from the calls in progress to those served.
LEMMA DeliverCharged ==
  ASSUME IInv, Charged, NEW c \in Calls, Deliver(c)
  PROVE  Charged'
<1> USE DEF Deliver
<1> SUFFICES ASSUME NEW g \in Fingerprints, NEW p \in Periods
             PROVE  ChargedTo(g, p)'
  BY DEF Charged
<1> DEFINE k == calls[c].key
<1>0. ChargedTo(g, p)
  BY DEF Charged
<1>1. k \in Keys /\ used' = used /\ grants' = grants
  BY DEF IInv, TypeOK, CallsKnown
<1>2. CASE owner[k] = g /\ calls[c].period = p
  <2>1. c \in Live(g, p) /\ calls[c].free
        /\ Cardinality(Live(g, p)') = Cardinality(Live(g, p)) - 1
    BY <1>2, EndedCall
  <2>2. grants[g] # None
    BY <1>0, <2>1 DEF ChargedTo
  <2>3. served'[g][p] = served[g][p] + 1
    BY <1>1, <1>2, <2>1, KeyTableAssumption DEF IInv, TypeOK
  <2>4. served[g][p] + Cardinality(Live(g, p)) <= used[grants[g].key][p]
        /\ used[grants[g].key][p] <= Quota
    BY <1>0, <2>2 DEF ChargedTo
  <2>5. served[g][p] \in Nat /\ Cardinality(Live(g, p)) \in Nat
    BY CountersTyped, LiveFinite
  <2>6. served'[g][p] + Cardinality(Live(g, p)') = served[g][p] + Cardinality(Live(g, p))
    BY <2>1, <2>3, <2>5
  <2> QED
    BY <1>1, <2>2, <2>4, <2>6 DEF ChargedTo
<1>3. CASE ~(owner[k] = g /\ calls[c].period = p)
  <2>1. Live(g, p)' = Live(g, p)
    BY <1>3, EndedCall
  <2>2. served'[g][p] = served[g][p]
    BY <1>1, <1>3 DEF IInv, TypeOK
  <2> QED
    BY <1>0, <1>1, <2>1, <2>2, SameCharged
<1> QED
  BY <1>2, <1>3

\* A refunded call gives back at most what it was charged.
LEMMA FailCharged ==
  ASSUME IInv, Charged, NEW c \in Calls, Fail(c)
  PROVE  Charged'
<1> USE DEF Fail
<1> SUFFICES ASSUME NEW g \in Fingerprints, NEW p \in Periods
             PROVE  ChargedTo(g, p)'
  BY DEF Charged
<1> DEFINE k == calls[c].key  q == calls[c].period
           n == IF used[k][q] > 0 THEN used[k][q] - 1 ELSE used[k][q]
<1>0. ChargedTo(g, p)
  BY DEF Charged
<1>1. k \in Keys /\ q \in Periods /\ served' = served /\ grants' = grants
  BY DEF IInv, TypeOK, CallsKnown
<1>2. used' = [used EXCEPT ![k] = [used[k] EXCEPT ![q] = n]]
      /\ used[k] \in [Periods -> Nat]
  BY <1>1 DEF decrementUsage, IInv, TypeOK
<1>3. CASE owner[k] = g /\ q = p
  <2>1. c \in Live(g, p) /\ Cardinality(Live(g, p)') = Cardinality(Live(g, p)) - 1
    BY <1>3, EndedCall
  <2>2. grants[g] # None
    BY <1>0, <2>1 DEF ChargedTo
  <2> DEFINE u == used[grants[g].key][p]  v == used'[grants[g].key][p]
  <2>3. served[g][p] \in Nat /\ Cardinality(Live(g, p)) \in Nat /\ u \in Nat
        /\ Quota \in Nat
    BY <2>2, CountersTyped, LiveFinite
  <2>4. v = u \/ (u > 0 /\ v = u - 1)
    <3> HIDE DEF n
    <3>1. CASE grants[g].key # k
      BY <1>1, <1>2, <2>2, <3>1, CountersTyped DEF IInv, TypeOK
    <3>2. CASE grants[g].key = k
      <4>1. v = n
        BY <1>1, <1>2, <1>3, <3>2 DEF IInv, TypeOK
      <4> QED
        BY <1>3, <2>3, <3>2, <4>1 DEF n
    <3> QED
      BY <3>1, <3>2
  <2>5. served[g][p] + Cardinality(Live(g, p)) <= u /\ u <= Quota
    BY <1>0, <2>2 DEF ChargedTo
  <2>6. served[g][p] + Cardinality(Live(g, p)') <= v /\ v <= Quota
    <3> HIDE DEF u, v
    <3> QED
      BY <2>1, <2>3, <2>4, <2>5
  <2> QED
    BY <1>1, <2>2, <2>6 DEF ChargedTo
<1>4. CASE ~(owner[k] = g /\ q = p)
  <2>1. Live(g, p)' = Live(g, p)
    BY <1>4, EndedCall
  <2>2. grants[g] # None => used'[grants[g].key][p] = used[grants[g].key][p]
    <3> HIDE DEF n
    <3> QED
      BY <1>1, <1>2, <1>4, CountersTyped DEF IInv, TypeOK
  <2> QED
    BY <1>0, <1>1, <2>1, <2>2, SameCharged
<1> QED
  BY <1>3, <1>4

\* After a restart nothing runs: what ran stays charged.
LEMMA OutageCharged == ASSUME IInv, Charged, Outage PROVE Charged'
<1> SUFFICES ASSUME NEW g \in Fingerprints, NEW p \in Periods
             PROVE  ChargedTo(g, p)'
  BY DEF Charged
<1>1. /\ calls' = [c \in Calls |-> Idle]
      /\ used' = used /\ grants' = grants /\ served' = served
  BY DEF Outage, Restart, IssueInterrupted
<1>2. Live(g, p)' = {}
  BY <1>1 DEF Live, Idle
<1>3. Cardinality(Live(g, p)') = 0
  BY <1>2, FS_EmptySet
<1>4. served[g][p] \in Nat /\ Cardinality(Live(g, p)) \in Nat
      /\ (grants[g] # None => used[grants[g].key][p] \in Nat)
  BY CountersTyped, LiveFinite
<1> QED
  BY <1>1, <1>2, <1>3, <1>4 DEF Charged, ChargedTo

LEMMA NextCharged ==
  ASSUME OperatorLists, IInv, Charged, [Next]_vars
  PROVE  Charged'
<1>1. CASE UNCHANGED vars
  BY <1>1 DEF vars, Charged, ChargedTo, Live
<1>2. CASE \E f \in Fingerprints, k \in Keys : IssueFreeKey(f, k)
  BY <1>2, IssueCharged
<1>3. CASE \E c \in Calls, k \in Keys : Authorize(c, k)
  BY <1>3, AuthorizeCharged
<1>4. CASE \E c \in Calls : Deliver(c) \/ Fail(c)
  BY <1>4, DeliverCharged, FailCharged
<1>5. CASE Tick
  BY <1>5 DEF Tick, Charged, ChargedTo, Live
<1>6. CASE Outage
  BY <1>6, OutageCharged
<1> QED
  BY <1>1, <1>2, <1>3, <1>4, <1>5, <1>6 DEF Next, Handlers

\* Asking again is not a quota reset: over all the keys a requester was ever
\* issued, he is served at most one allowance a month (service.ts:116-120,
\* db.ts:253-260).
THEOREM QuotaBounded == ASSUME OperatorLists PROVE Spec => []QuotaPerRequester
<1>1. Init => IInv /\ Charged
  BY InitIInv, InitCharged
<1>2. (IInv /\ Charged) /\ [Next]_vars => (IInv /\ Charged)'
  BY NextKeeps, NextCharged
<1>3. IInv /\ Charged => QuotaPerRequester
  <2> SUFFICES ASSUME IInv, Charged, NEW f \in Fingerprints, NEW p \in Periods
               PROVE  served[f][p] + Cardinality(Live(f, p)) <= Quota
    BY DEF QuotaPerRequester, Running, Live
  <2>1. served[f][p] \in Nat /\ Quota \in Nat
        /\ (grants[f] # None => used[grants[f].key][p] \in Nat)
    BY CountersTyped
  <2>2. ChargedTo(f, p)
    BY DEF Charged
  <2>3. Cardinality(Live(f, p)) \in Nat
    BY LiveFinite
  <2>4. CASE grants[f] = None
    <3>1. served[f][p] = 0 /\ Live(f, p) = {}
      BY <2>2, <2>4 DEF ChargedTo
    <3>2. Cardinality(Live(f, p)) = 0
      BY <3>1, FS_EmptySet
    <3> QED
      BY <2>1, <3>1, <3>2
  <2>5. CASE grants[f] # None
    BY <2>1, <2>2, <2>3, <2>5 DEF ChargedTo
  <2> QED
    BY <2>4, <2>5
<1> QED
  BY <1>1, <1>2, <1>3, PTL DEF Spec

------------------------------------------------------------------------------
(* Purchases of Pro. *)

BuyType == [at : {"idle", "verifying", "settling"} \cup Answers,
            key : Keys \cup {None}, renewed : BOOLEAN]

PurchaseTypes ==
    /\ keys \in TableType
    /\ grants \in [Fingerprints -> Grant \cup {None}]
    /\ now \in Nat
    /\ known \subseteq Keys /\ OperatorKeys \subseteq known
    /\ buy \in [Purchases -> BuyType]
    /\ bought \in [Keys -> Nat] /\ since \in [Keys -> Nat] /\ latest \in [Keys -> Nat]

RowOK(table, k) ==
    table[k] # None =>
        IF k \in OperatorKeys
        THEN table[k].label \in BootstrapLabels /\ table[k].expires = None
        ELSE /\ ~table[k].disabled
             /\ \/ /\ table[k].label = "self-serve" /\ table[k].tier = "free"
                   /\ table[k].expires = None
                \/ /\ table[k].label = "pro-x402" /\ table[k].tier = "pro"
                   /\ table[k].expires \in Nat

RowsOrdered == \A k \in Keys : RowOK(keys, k)

\* A purchase that has planned a new key holds it alone.
Pending(b) == buy[b].at = "settling" /\ ~buy[b].renewed

PlannedKey(b) ==
    LET k == buy[b].key
    IN  /\ k \in Keys \ known /\ keys[k] # None /\ keys[k].label = "pro-x402"
        /\ keys[k].expires = since[k] + Term /\ latest[k] = since[k]
        /\ \A c \in Purchases : Pending(c) /\ buy[c].key = k => c = b

NewKeys == \A b \in Purchases : Pending(b) => PlannedKey(b)

\* A purchase renews a key its buyer sent.
Renewing(b) ==
    \/ buy[b].at = "verifying" /\ buy[b].key # None
    \/ buy[b].at = "settling" /\ buy[b].renewed

Renewals == \A b \in Purchases : Renewing(b) => buy[b].key \in known \ OperatorKeys

PaidKey(k) ==
    bought[k] > 0 =>
        /\ k \in known /\ keys[k] # None /\ keys[k].label = "pro-x402"
        /\ keys[k].expires >= since[k] + bought[k] * Term
        /\ keys[k].expires <= latest[k] + bought[k] * Term

Paid == \A k \in Keys : PaidKey(k)

Unpaid ==
    \A k \in known : bought[k] = 0 /\ keys[k] # None => keys[k].label # "pro-x402"

Grants ==
    \A f \in Fingerprints :
        grants[f] # None =>
            grants[f].key \in known \ OperatorKeys /\ bought[grants[f].key] = 0

Times == \A k \in Keys : latest[k] <= now

PInv ==
    /\ PurchaseTypes /\ RowsOrdered /\ NewKeys /\ Renewals /\ Paid /\ Unpaid
    /\ Grants /\ Times

------------------------------------------------------------------------------
(* The tables. *)

\* Provisioning leaves every key alone that is not the operator's.
LEMMA ProvisionSpares ==
  ASSUME OperatorLists, NEW table \in TableType, \A k \in Keys : RowOK(table, k),
         NEW e \in EnvLists
  PROVE  LET end == bootstrapKeysFromEnv(table, e)
         IN  /\ end \in TableType
             /\ \A k \in Keys : RowOK(end, k)
             /\ \A k \in Keys \ OperatorKeys : end[k] = table[k]
<1> DEFINE mid == provision(table, e)  end == bootstrapKeysFromEnv(table, e)
<1>1. end \in TableType
  BY Provisioned
<1>2. listed(e) \subseteq OperatorKeys /\ OperatorKeys \subseteq Keys
      /\ BootstrapLabels = {"pro-bootstrap", "free-bootstrap"}
  BY EnvAssumption DEF OperatorLists, BootstrapLabels
<1>3. \A k \in Keys \ OperatorKeys : mid[k] = table[k]
  BY <1>2 DEF provision, listed
<1>4. \A k \in OperatorKeys : mid[k] # None => mid[k].label \in BootstrapLabels
                                                /\ mid[k].expires = None
  BY <1>2, EnvAssumption DEF provision, upsertKey, RowOK, TableType, KeyRow
<1>5. mid \in TableType
  BY EnvAssumption DEF TableType, provision, upsertKey, KeyRow, Tiers, Labels
<1>6. CASE listed(e) = {}
  BY <1>1, <1>6 DEF bootstrapKeysFromEnv
<1>7. CASE listed(e) # {}
  <2>1. \A k \in Keys :
           end[k] = IF mid[k] # None /\ mid[k].label \in BootstrapLabels /\ k \notin listed(e)
                    THEN [mid[k] EXCEPT !.disabled = TRUE] ELSE mid[k]
    BY <1>7 DEF bootstrapKeysFromEnv, disableMissingBootstrapKeys
  <2>2. \A k \in Keys \ OperatorKeys : end[k] = table[k]
    BY <1>2, <1>3, <2>1 DEF RowOK
  <2>3. ASSUME NEW k \in OperatorKeys, end[k] # None
        PROVE  end[k].label \in BootstrapLabels /\ end[k].expires = None
    <3>1. mid[k] # None /\ mid[k] \in KeyRow
      BY <1>2, <1>5, <2>1, <2>3 DEF TableType
    <3>2. mid[k].label \in BootstrapLabels /\ mid[k].expires = None
      BY <1>4, <3>1
    <3> QED
      BY <1>2, <2>1, <3>1, <3>2 DEF KeyRow
  <2>4. \A k \in Keys : RowOK(end, k)
    BY <2>2, <2>3 DEF RowOK
  <2> QED
    BY <1>1, <2>2, <2>4
<1> QED
  BY <1>6, <1>7

\* A key nobody has seen enters the table as a self-serve key.
LEMMA Issued ==
  ASSUME PInv, NEW k \in Keys, Fresh(k)
  PROVE  LET table == upsertKey(keys, k, "free", "self-serve")
         IN  /\ table \in TableType /\ \A j \in Keys : RowOK(table, j)
             /\ \A j \in Keys \ {k} : table[j] = keys[j]
             /\ table[k] # None /\ table[k].label = "self-serve"
<1> DEFINE row == [tier |-> "free", label |-> "self-serve", disabled |-> FALSE,
                   expires |-> None]
           table == upsertKey(keys, k, "free", "self-serve")
<1>0. row \in KeyRow
  BY DEF KeyRow, Tiers, Labels
<1>1. row \in KeyRow /\ row # None
  <2> HIDE DEF row
  <2> QED
    BY <1>0, KeyTableAssumption
<1>2. table = [keys EXCEPT ![k] = row]
  BY DEF upsertKey, Fresh
<1>3. k \notin OperatorKeys
  BY DEF PInv, PurchaseTypes, Fresh
<1>4. table \in TableType /\ table[k] = row /\ \A j \in Keys \ {k} : table[j] = keys[j]
  BY <1>1, <1>2 DEF PInv, PurchaseTypes, TableType
<1>5. RowOK(table, k)
  BY <1>3, <1>4 DEF RowOK
<1>6. \A j \in Keys \ {k} : RowOK(table, j)
  BY <1>4 DEF PInv, RowsOrdered, RowOK
<1> QED
  BY <1>1, <1>4, <1>5, <1>6

\* A fresh key has no purchases, no grant and no pending purchase.
LEMMA FreshIsUnpaid ==
  ASSUME PInv, NEW k \in Keys, Fresh(k)
  PROVE  /\ k \notin OperatorKeys /\ bought[k] = 0
         /\ \A f \in Fingerprints : grants[f] # None => grants[f].key # k
         /\ \A b \in Purchases : Pending(b) => buy[b].key # k
BY DEF PInv, PurchaseTypes, Paid, PaidKey, Grants, NewKeys, PlannedKey, Fresh

LEMMA InitPInv == ASSUME OperatorLists, ProInit PROVE PInv
<1> DEFINE none == [k \in Keys |-> None]
<1>1. none \in TableType /\ \A k \in Keys : RowOK(none, k)
  BY DEF TableType, RowOK
<1>2. keys \in TableType /\ (\A k \in Keys : RowOK(keys, k))
      /\ \A k \in Keys \ OperatorKeys : keys[k] = None
  BY <1>1, ProvisionSpares DEF ProInit, Init
<1>3. PurchaseTypes
  BY <1>2, EnvAssumption DEF ProInit, Init, PurchaseTypes, BuyType
<1>4. Unpaid
  <2>1. \A k \in Keys : keys[k] # None => keys[k].label \in BootstrapLabels
    BY <1>2 DEF RowOK
  <2> QED
    BY <1>3, <2>1 DEF Unpaid, BootstrapLabels, PurchaseTypes
<1>5. RowsOrdered /\ NewKeys /\ Renewals /\ Paid /\ Grants /\ Times
  BY <1>2 DEF RowsOrdered, ProInit, Init, NewKeys, Pending, Renewals, Renewing, Paid,
     PaidKey, Grants, Times
<1> QED
  BY <1>3, <1>4, <1>5 DEF PInv

------------------------------------------------------------------------------
(* The handlers of ApiKeys and outages. *)

\* A step that touches none of what the argument is about.
LEMMA QuietKeeps ==
  ASSUME PInv, now' \in Nat, now <= now',
         UNCHANGED <<keys, grants, known, buy, bought, since, latest>>
  PROVE  PInv'
<1>1. PurchaseTypes' /\ RowsOrdered'
  BY DEF PInv, PurchaseTypes, RowsOrdered, RowOK
<1>2. NewKeys' /\ Renewals' /\ Paid' /\ Unpaid' /\ Grants'
  BY DEF PInv, NewKeys, Pending, PlannedKey, Renewals, Renewing, Paid, PaidKey, Unpaid,
     Grants
<1>3. Times'
  BY DEF PInv, PurchaseTypes, Times
<1> QED
  BY <1>1, <1>2, <1>3 DEF PInv

LEMMA IssueSparesPurchases ==
  ASSUME PInv, NEW f \in Fingerprints, NEW k \in Keys, IssueFreeKey(f, k),
         UNCHANGED buyVars
  PROVE  PInv'
<1> USE DEF IssueFreeKey, recordGrant, buyVars
<1> DEFINE prior == grants[f]
           mid == upsertKey(keys, k, "free", "self-serve")
<1>1. /\ mid \in TableType /\ (\A j \in Keys : RowOK(mid, j))
      /\ \A j \in Keys \ {k} : mid[j] = keys[j]
      /\ mid[k] # None /\ mid[k].label = "self-serve"
  BY Issued
<1>2. /\ k \notin OperatorKeys /\ bought[k] = 0
      /\ \A b \in Purchases : Pending(b) => buy[b].key # k
  BY FreshIsUnpaid
<1>3. prior # None => /\ prior.key \in known \ OperatorKeys /\ bought[prior.key] = 0
                      /\ prior.key \in Keys
  BY DEF PInv, Grants, PurchaseTypes
<1>4. /\ keys' \in TableType
      /\ \A j \in Keys : keys'[j] \in {mid[j], None}
      /\ \A j \in Keys : (prior # None => j # prior.key) => keys'[j] = mid[j]
  BY <1>1, <1>3 DEF revokePrior, TableType
<1>5. PurchaseTypes'
  <2>1. recordGrant(grants, f, k, now) \in [Fingerprints -> Grant \cup {None}]
    BY DEF PInv, PurchaseTypes, Grant
  <2> QED
    BY <1>4, <2>1 DEF PInv, PurchaseTypes
<1>6. RowsOrdered'
  BY <1>1, <1>4 DEF RowsOrdered, RowOK
<1>7. NewKeys'
  <2> SUFFICES ASSUME NEW b \in Purchases, Pending(b) PROVE PlannedKey(b)'
    BY DEF NewKeys, Pending
  <2>1. PlannedKey(b)
    BY DEF PInv, NewKeys
  <2>2. keys'[buy[b].key] = keys[buy[b].key] /\ buy[b].key # k
    BY <1>1, <1>2, <1>3, <1>4, <2>1 DEF PlannedKey
  <2> QED
    BY <2>1, <2>2 DEF PlannedKey, Pending
<1>8. Renewals'
  BY DEF PInv, Renewals, Renewing
<1>9. Paid'
  <2> SUFFICES ASSUME NEW j \in Keys, bought[j] > 0 PROVE PaidKey(j)'
    BY DEF Paid, PaidKey
  <2>1. PaidKey(j)
    BY DEF PInv, Paid
  <2>2. keys'[j] = keys[j]
    BY <1>1, <1>2, <1>3, <1>4
  <2> QED
    BY <2>1, <2>2 DEF PaidKey
<1>10. Unpaid'
  <2> SUFFICES ASSUME NEW j \in known', bought[j] = 0, keys'[j] # None
               PROVE  keys'[j].label # "pro-x402"
    BY DEF Unpaid
  <2>1. j \in Keys /\ keys'[j] = mid[j]
    BY <1>4 DEF PInv, PurchaseTypes
  <2>2. CASE j = k
    BY <1>1, <2>1, <2>2
  <2>3. CASE j # k
    BY <1>1, <2>1, <2>3 DEF PInv, Unpaid
  <2> QED
    BY <2>2, <2>3
<1>11. Grants'
  BY <1>2 DEF PInv, Grants, PurchaseTypes
<1>12. Times'
  BY DEF PInv, Times
<1> QED
  BY <1>5, <1>6, <1>7, <1>8, <1>9, <1>10, <1>11, <1>12 DEF PInv

LEMMA OutageSparesPurchases ==
  ASSUME OperatorLists, PInv, OutageLosesPurchases
  PROVE  PInv'
<1> USE DEF OutageLosesPurchases
<1>1. PICK e \in EnvLists :
        \/ Restart(e)
        \/ \E f \in Fingerprints, k \in Keys : IssueInterrupted(f, k, e)
  BY DEF Outage
<1>2. PICK table \in TableType :
        /\ keys' = bootstrapKeysFromEnv(table, e)
        /\ \A j \in Keys : RowOK(table, j)
        /\ \A j \in Keys : table[j] = keys[j]
              \/ (keys[j] = None /\ j \notin known /\ table[j] # None)
  <2>1. CASE Restart(e)
    BY <2>1 DEF Restart, PInv, PurchaseTypes, RowsOrdered
  <2>2. ASSUME NEW f \in Fingerprints, NEW k \in Keys, IssueInterrupted(f, k, e)
        PROVE  \E table \in TableType :
                  /\ keys' = bootstrapKeysFromEnv(table, e)
                  /\ \A j \in Keys : RowOK(table, j)
                  /\ \A j \in Keys : table[j] = keys[j]
                        \/ (keys[j] = None /\ j \notin known /\ table[j] # None)
    BY <2>2, Issued DEF IssueInterrupted, Fresh
  <2> QED
    BY <1>1, <2>1, <2>2
<1>3. /\ keys' \in TableType /\ (\A j \in Keys : RowOK(keys', j))
      /\ \A j \in Keys \ OperatorKeys : keys'[j] = table[j]
  BY <1>2, ProvisionSpares
<1>4. UNCHANGED <<grants, now, known, bought, since, latest>>
  BY <1>1 DEF Restart, IssueInterrupted
<1>5. buy' \in [Purchases -> BuyType] /\ \A b \in Purchases : ~Renewing(b)' /\ ~Pending(b)'
  BY DEF PInv, PurchaseTypes, BuyType, Answers, Renewing, Pending
<1>6. PurchaseTypes' /\ RowsOrdered'
  BY <1>3, <1>4, <1>5 DEF PInv, PurchaseTypes, RowsOrdered, RowOK
<1>7. NewKeys' /\ Renewals'
  BY <1>5 DEF NewKeys, Renewals
<1>8. Paid'
  <2> SUFFICES ASSUME NEW j \in Keys, bought[j] > 0 PROVE PaidKey(j)'
    BY <1>4 DEF Paid, PaidKey
  <2>1. PaidKey(j) /\ j \notin OperatorKeys
    BY DEF PInv, Paid, PaidKey, RowsOrdered, RowOK, BootstrapLabels
  <2>2. keys'[j] = keys[j]
    BY <1>2, <1>3, <2>1 DEF PaidKey
  <2> QED
    BY <1>4, <2>1, <2>2 DEF PaidKey
<1>9. Unpaid'
  <2> SUFFICES ASSUME NEW j \in known, bought[j] = 0, keys'[j] # None
               PROVE  keys'[j].label # "pro-x402"
    BY <1>4 DEF Unpaid
  <2>1. CASE j \in OperatorKeys
    BY <1>3, <2>1, EnvAssumption DEF RowOK, BootstrapLabels
  <2>2. CASE j \notin OperatorKeys
    BY <1>2, <1>3, <2>2 DEF PInv, Unpaid, PurchaseTypes
  <2> QED
    BY <2>1, <2>2
<1>10. Grants' /\ Times'
  BY <1>4 DEF PInv, Grants, Times
<1> QED
  BY <1>6, <1>7, <1>8, <1>9, <1>10 DEF PInv

------------------------------------------------------------------------------
(* Purchases. *)

\* A purchase that moves without touching the keys, and does not plan a key.
LEMMA MoveKeeps ==
  ASSUME PInv, NEW b \in Purchases, buy' \in [Purchases -> BuyType],
         UNCHANGED <<keys, grants, now, known, bought, since, latest>>,
         \A c \in Purchases : c # b => buy'[c] = buy[c],
         ~Pending(b)',
         Renewing(b)' => buy'[b].key \in known \ OperatorKeys
  PROVE  PInv'
<1>1. PurchaseTypes' /\ RowsOrdered'
  BY DEF PInv, PurchaseTypes, RowsOrdered, RowOK
<1>2. NewKeys'
  BY DEF PInv, NewKeys, Pending, PlannedKey
<1>3. Renewals'
  BY DEF PInv, Renewals, Renewing
<1>4. Paid' /\ Unpaid' /\ Grants' /\ Times'
  BY DEF PInv, Paid, PaidKey, Unpaid, Grants, Times
<1> QED
  BY <1>1, <1>2, <1>3, <1>4 DEF PInv

LEMMA AskKeeps ==
  ASSUME PInv, NEW b \in Purchases, NEW k \in Keys \cup {None}, Ask(b, k)
  PROVE  PInv'
<1> DEFINE s == subjectFor(k)
<1>1. s \in known \cup {None} /\ s \in Keys \cup {None}
      /\ (s # None => keys[s] # None)
  BY DEF Ask, subjectFor, PInv, PurchaseTypes
<1>2. Purchasable(s) /\ s # None => s \notin OperatorKeys
  BY <1>1 DEF Purchasable, PInv, RowsOrdered, RowOK
<1> HIDE DEF s
<1>3. /\ buy' = [buy EXCEPT ![b] =
                   [at |-> IF Purchasable(s) THEN "verifying" ELSE "refused",
                    key |-> s, renewed |-> FALSE]]
      /\ UNCHANGED <<keys, grants, now, known, bought, since, latest>>
  BY DEF Ask, vars, s
<1>4. buy' \in [Purchases -> BuyType]
  BY <1>1, <1>3 DEF PInv, PurchaseTypes, BuyType, Answers
<1>5. ~Pending(b)' /\ (Renewing(b)' => buy'[b].key \in known \ OperatorKeys)
  BY <1>1, <1>2, <1>3 DEF Pending, Renewing, PInv, PurchaseTypes
<1> QED
  BY <1>3, <1>4, <1>5, MoveKeeps DEF PInv, PurchaseTypes

\* The planned renewal keeps the key, the others end the purchase.
LEMMA QuietMovesKeep ==
  ASSUME PInv, NEW b \in Purchases, VerifyFails(b) \/ PlanRenewal(b) \/ CommitFails(b)
  PROVE  PInv'
<1>1. UNCHANGED <<keys, grants, now, known, bought, since, latest>>
  BY DEF VerifyFails, PlanRenewal, CommitFails, vars
<1>2. buy' \in [Purchases -> BuyType]
      /\ \A c \in Purchases : c # b => buy'[c] = buy[c]
  BY DEF VerifyFails, PlanRenewal, CommitFails, moveTo, PInv, PurchaseTypes, BuyType,
     Answers
<1>3. ~Pending(b)' /\ (Renewing(b)' => buy'[b].key = buy[b].key /\ Renewing(b))
  <2>1. buy[b] \in BuyType
    BY DEF PInv, PurchaseTypes
  <2>2. CASE PlanRenewal(b)
    <3>1. buy'[b] = [buy[b] EXCEPT !.at = "settling", !.renewed = TRUE]
      BY <2>2 DEF PlanRenewal, PInv, PurchaseTypes
    <3>2. buy'[b].renewed = TRUE /\ buy'[b].key = buy[b].key
      BY <2>1, <3>1 DEF BuyType
    <3>3. buy[b].at = "verifying" /\ buy[b].key # None
      BY <2>2 DEF PlanRenewal, subjectHasRow
    <3> QED
      BY <3>2, <3>3 DEF Pending, Renewing
  <2>3. CASE VerifyFails(b) \/ CommitFails(b)
    <3>1. buy'[b].at \in {"refused", "activationFailed"}
      BY <2>1, <2>3 DEF VerifyFails, CommitFails, moveTo, PInv, PurchaseTypes, BuyType
    <3> QED
      BY <3>1 DEF Pending, Renewing
  <2> QED
    BY <2>2, <2>3
<1> QED
  BY <1>1, <1>2, <1>3, MoveKeeps DEF PInv, Renewals

LEMMA PlanNewKeyKeeps ==
  ASSUME PInv, NEW b \in Purchases, NEW k \in Keys, PlanNewKey(b, k)
  PROVE  PInv'
<1> USE DEF PlanNewKey
<1> DEFINE row == [tier |-> "pro", label |-> "pro-x402", disabled |-> FALSE,
                   expires |-> now + Term]
<1>1. /\ k \notin OperatorKeys /\ bought[k] = 0
      /\ \A f \in Fingerprints : grants[f] # None => grants[f].key # k
      /\ \A c \in Purchases : Pending(c) => buy[c].key # k
  BY FreshIsUnpaid
<1>2. row \in KeyRow /\ now + Term \in Nat
  BY TermAssumption DEF KeyRow, Tiers, Labels, PInv, PurchaseTypes
<1>3. keys' = [keys EXCEPT ![k] = row]
  BY DEF grantProKey
<1>4. /\ keys' \in TableType /\ keys'[k] = row /\ row # None
      /\ \A j \in Keys \ {k} : keys'[j] = keys[j]
  <2>1. row # None
    <3> HIDE DEF row
    <3> QED
      BY <1>2, KeyTableAssumption
  <2> QED
    BY <1>2, <1>3, <2>1 DEF PInv, PurchaseTypes, TableType
<1>5. /\ buy'[b] = [at |-> "settling", key |-> k, renewed |-> FALSE]
      /\ buy' \in [Purchases -> BuyType]
      /\ \A c \in Purchases \ {b} : buy'[c] = buy[c]
  BY DEF PInv, PurchaseTypes, BuyType
<1>6. PurchaseTypes'
  BY <1>4, <1>5 DEF PInv, PurchaseTypes
<1>7. RowsOrdered'
  <2> SUFFICES ASSUME NEW j \in Keys PROVE RowOK(keys', j)
    BY DEF RowsOrdered, RowOK
  <2>1. CASE j = k
    BY <1>1, <1>2, <1>4, <2>1 DEF RowOK
  <2>2. CASE j # k
    BY <1>4, <2>2 DEF RowOK, PInv, RowsOrdered
  <2> QED
    BY <2>1, <2>2
<1>8. NewKeys'
  <2>1. k \in Keys \ known' /\ since'[k] = now /\ latest'[k] = now
    BY DEF Fresh, PInv, PurchaseTypes
  <2>2. PlannedKey(b)'
    <3>1. \A c \in Purchases : Pending(c)' /\ buy'[c].key = k => c = b
      BY <1>1, <1>5 DEF Pending
    <3> QED
      BY <1>4, <1>5, <2>1, <3>1 DEF PlannedKey
  <2>3. ASSUME NEW c \in Purchases, c # b, Pending(c)' PROVE PlannedKey(c)'
    <3>1. Pending(c) /\ PlannedKey(c) /\ buy[c].key # k
      BY <1>1, <1>5, <2>3 DEF Pending, PInv, NewKeys
    <3>2. \A d \in Purchases : Pending(d)' /\ buy'[d].key = buy[c].key => d = c
      BY <1>5, <3>1 DEF PlannedKey, Pending
    <3>3. /\ buy'[c].key = buy[c].key /\ keys'[buy[c].key] = keys[buy[c].key]
          /\ since'[buy[c].key] = since[buy[c].key]
          /\ latest'[buy[c].key] = latest[buy[c].key]
      BY <1>4, <1>5, <2>3, <3>1 DEF PlannedKey, PInv, PurchaseTypes
    <3> QED
      BY <3>1, <3>2, <3>3 DEF PlannedKey
  <2> QED
    BY <2>2, <2>3 DEF NewKeys
<1>9. Renewals'
  BY <1>5 DEF PInv, Renewals, Renewing
<1>10. Paid'
  <2> SUFFICES ASSUME NEW j \in Keys, bought[j] > 0 PROVE PaidKey(j)'
    BY DEF Paid, PaidKey
  <2>1. PaidKey(j) /\ j # k
    BY <1>1 DEF PInv, Paid, PurchaseTypes
  <2>2. keys'[j] = keys[j] /\ since'[j] = since[j] /\ latest'[j] = latest[j]
    BY <1>4, <2>1 DEF PInv, PurchaseTypes
  <2> QED
    BY <2>1, <2>2 DEF PaidKey
<1>11. Unpaid'
  BY <1>4 DEF PInv, Unpaid, PurchaseTypes, Fresh
<1>12. Grants' /\ Times'
  BY DEF PInv, Grants, Times, PurchaseTypes
<1> QED
  BY <1>6, <1>7, <1>8, <1>9, <1>10, <1>11, <1>12 DEF PInv

\* The payment settled: the planned key is paid for, and its buyer's.
LEMMA CommitNewKeyKeeps ==
  ASSUME PInv, NEW b \in Purchases, CommitNewKey(b)
  PROVE  PInv'
<1> USE DEF CommitNewKey, moveTo
<1> DEFINE k == buy[b].key
<1>1. Pending(b) /\ PlannedKey(b) /\ k \in Keys /\ k \notin known /\ bought[k] = 0
  <2>1. Pending(b) /\ PlannedKey(b)
    BY DEF Pending, PInv, NewKeys
  <2>2. k \in Keys /\ k \notin known
    BY <2>1 DEF PlannedKey
  <2>3. bought[k] = 0
    BY <2>2 DEF PInv, Paid, PaidKey, PurchaseTypes
  <2> QED
    BY <2>1, <2>2, <2>3
<1>2. /\ buy' \in [Purchases -> BuyType] /\ buy'[b].at = "done"
      /\ \A c \in Purchases \ {b} : buy'[c] = buy[c]
  BY DEF PInv, PurchaseTypes, BuyType, Answers
<1>3. bought' \in [Keys -> Nat] /\ bought'[k] = 1
      /\ \A j \in Keys \ {k} : bought'[j] = bought[j]
  BY <1>1 DEF PInv, PurchaseTypes
<1>4. PurchaseTypes' /\ RowsOrdered'
  BY <1>1, <1>2, <1>3 DEF PInv, PurchaseTypes, RowsOrdered, RowOK
<1>5. NewKeys'
  <2> SUFFICES ASSUME NEW c \in Purchases, Pending(c)' PROVE PlannedKey(c)'
    BY DEF NewKeys
  <2>1. c # b /\ Pending(c) /\ PlannedKey(c) /\ buy'[c] = buy[c]
    BY <1>2 DEF Pending, PInv, NewKeys
  <2>2. buy[c].key # k
    BY <1>1, <2>1 DEF PlannedKey
  <2>3. \A d \in Purchases : Pending(d)' => Pending(d) /\ buy'[d] = buy[d]
    BY <1>2 DEF Pending
  <2>4. buy[c].key \in Keys \ known'
    BY <2>1, <2>2 DEF PlannedKey
  <2> QED
    BY <2>1, <2>3, <2>4 DEF PlannedKey
<1>6. Renewals'
  BY <1>2 DEF PInv, Renewals, Renewing
<1>7. Paid'
  <2> SUFFICES ASSUME NEW j \in Keys, bought'[j] > 0 PROVE PaidKey(j)'
    BY DEF Paid, PaidKey
  <2>1. CASE j = k
    <3>1. since[k] + bought'[k] * Term = since[k] + Term
          /\ latest[k] + bought'[k] * Term = latest[k] + Term
          /\ since[k] + Term \in Nat
      BY <1>1, <1>3, TermAssumption DEF PInv, PurchaseTypes
    <3>2. keys[k].expires = since[k] + Term /\ latest[k] = since[k]
      BY <1>1 DEF PlannedKey
    <3> QED
      BY <1>1, <2>1, <3>1, <3>2 DEF PaidKey, PlannedKey
  <2>2. CASE j # k
    BY <1>3, <2>2 DEF PInv, Paid, PaidKey
  <2> QED
    BY <2>1, <2>2
<1>8. Unpaid'
  BY <1>1, <1>3 DEF PInv, Unpaid, PurchaseTypes
<1>9. Grants' /\ Times'
  BY <1>1, <1>3 DEF PInv, Grants, Times, PurchaseTypes
<1> QED
  BY <1>4, <1>5, <1>6, <1>7, <1>8, <1>9 DEF PInv

\* The payment settled: one more term on a key somebody holds.
LEMMA CommitRenewalKeeps ==
  ASSUME PInv, NEW b \in Purchases, CommitRenewal(b)
  PROVE  PInv'
<1> USE DEF CommitRenewal, moveTo
<1> DEFINE k == buy[b].key  old == keys[k]
           end == extendedEnd(keys[k], now, Term)
           row == [tier |-> "pro", disabled |-> FALSE, label |-> "pro-x402",
                   expires |-> end]
<1>1. k \in known /\ k \in Keys /\ k \notin OperatorKeys /\ keys[k] # None
  BY DEF PInv, Renewals, Renewing, PurchaseTypes
<1>2. /\ old \in KeyRow /\ old.label \notin BootstrapLabels
      /\ old.expires = None \/ old.expires \in Nat
      /\ old.expires = None <=> bought[k] = 0
  <2>1. old \in KeyRow
    BY <1>1 DEF PInv, PurchaseTypes, TableType
  <2>2. RowOK(keys, k) /\ PaidKey(k)
    BY <1>1 DEF PInv, RowsOrdered, Paid
  <2>3. bought[k] = 0 => old.label # "pro-x402"
    BY <1>1 DEF PInv, Unpaid
  <2>4. bought[k] \in Nat
    BY <1>1 DEF PInv, PurchaseTypes
  <2> QED
    BY <1>1, <2>1, <2>2, <2>3, <2>4, KeyTableAssumption DEF RowOK, PaidKey, BootstrapLabels
<1>3. end \in Nat
  BY <1>2, TermAssumption, KeyTableAssumption
     DEF extendedEnd, Maximum, PInv, PurchaseTypes
<1>4. /\ keys' = [keys EXCEPT ![k] = row]
      /\ row \in KeyRow /\ row # None
  <2>1. keys' = [keys EXCEPT ![k] = row]
    BY <1>2 DEF extendProKey
  <2>2. row \in KeyRow
    <3> HIDE DEF end
    <3> QED
      BY <1>3 DEF KeyRow, Tiers, Labels
  <2>3. row # None
    <3> HIDE DEF row
    <3> QED
      BY <2>2, KeyTableAssumption
  <2> QED
    BY <2>1, <2>2, <2>3
<1>5. /\ keys' \in TableType /\ keys'[k] = row
      /\ \A j \in Keys \ {k} : keys'[j] = keys[j]
  <2> HIDE DEF row
  <2> QED
    BY <1>1, <1>4 DEF PInv, PurchaseTypes, TableType
<1>6. /\ keys'[k] # None /\ keys'[k].tier = "pro" /\ ~keys'[k].disabled
      /\ keys'[k].label = "pro-x402" /\ keys'[k].expires = end
  BY <1>4, <1>5
<1> HIDE DEF end, row
<1>7. /\ buy' \in [Purchases -> BuyType] /\ buy'[b].at = "done"
      /\ \A c \in Purchases \ {b} : buy'[c] = buy[c]
  BY DEF PInv, PurchaseTypes, BuyType, Answers
<1>8. /\ bought' \in [Keys -> Nat] /\ bought'[k] = bought[k] + 1
      /\ latest' \in [Keys -> Nat] /\ latest'[k] = now
      /\ since' \in [Keys -> Nat]
      /\ since'[k] = IF bought[k] = 0 THEN now ELSE since[k]
      /\ \A j \in Keys \ {k} : /\ bought'[j] = bought[j] /\ since'[j] = since[j]
                               /\ latest'[j] = latest[j]
  BY <1>1 DEF PInv, PurchaseTypes
<1>9. /\ grants' \in [Fingerprints -> Grant \cup {None}]
      /\ \A f \in Fingerprints : grants'[f] # None =>
            grants'[f] = grants[f] /\ grants[f].key # k
  BY DEF dropGrantsOf, PInv, PurchaseTypes
<1>10. PurchaseTypes'
  BY <1>5, <1>7, <1>8, <1>9 DEF PInv, PurchaseTypes
<1>11. RowsOrdered'
  <2> SUFFICES ASSUME NEW j \in Keys PROVE RowOK(keys', j)
    BY DEF RowsOrdered, RowOK
  <2>1. CASE j = k
    BY <1>1, <1>3, <1>6, <2>1 DEF RowOK
  <2>2. CASE j # k
    BY <1>5, <2>2 DEF PInv, RowsOrdered, RowOK
  <2> QED
    BY <2>1, <2>2
<1>12. NewKeys'
  <2> SUFFICES ASSUME NEW c \in Purchases, Pending(c)' PROVE PlannedKey(c)'
    BY DEF NewKeys
  <2>1. c # b /\ Pending(c) /\ PlannedKey(c) /\ buy'[c] = buy[c]
    BY <1>7 DEF Pending, PInv, NewKeys
  <2>2. buy[c].key \in Keys \ {k}
    BY <1>1, <2>1 DEF PlannedKey
  <2>3. \A d \in Purchases : Pending(d)' => Pending(d) /\ buy'[d] = buy[d]
    BY <1>7 DEF Pending
  <2>4. /\ keys'[buy[c].key] = keys[buy[c].key]
        /\ since'[buy[c].key] = since[buy[c].key]
        /\ latest'[buy[c].key] = latest[buy[c].key]
    BY <1>5, <1>8, <2>2
  <2> QED
    BY <2>1, <2>3, <2>4 DEF PlannedKey
<1>13. Renewals'
  BY <1>7 DEF PInv, Renewals, Renewing
<1>14. Paid'
  <2> SUFFICES ASSUME NEW j \in Keys, bought'[j] > 0 PROVE PaidKey(j)'
    BY DEF Paid, PaidKey
  <2>1. CASE j # k
    BY <1>5, <1>8, <2>1 DEF PInv, Paid, PaidKey
  <2>2. CASE j = k
    <3> DEFINE x == keys[k].expires  n == bought[k]  total == n * Term
    <3>1. n \in Nat /\ Term \in Nat /\ now \in Nat /\ since[k] \in Nat
          /\ latest[k] \in Nat /\ latest[k] <= now
      BY <1>1, TermAssumption DEF PInv, PurchaseTypes, Times
    <3>2. total \in Nat /\ (n + 1) * Term = total + Term
      BY <3>1
    <3>3. CASE n = 0
      <4>1. end = now + Term /\ total = 0
        BY <1>2, <3>1, <3>3 DEF end, extendedEnd, Maximum
      <4>2. bought'[k] * Term = Term /\ since'[k] = now /\ latest'[k] = now
        BY <1>8, <3>1, <3>3
      <4>3. keys'[k].expires = now + Term
        BY <1>6, <4>1
      <4>4. k \in known'
        BY <1>1
      <4> QED
        BY <1>6, <2>2, <3>1, <4>2, <4>3, <4>4 DEF PaidKey
    <3>4. CASE n > 0
      <4>1. x \in Nat /\ since[k] + total <= x /\ x <= latest[k] + total
        BY <1>1, <1>2, <3>4 DEF PInv, Paid, PaidKey
      <4>2. end = (IF now > x THEN now ELSE x) + Term
        BY <1>2, <3>4 DEF end, extendedEnd, Maximum
      <4>3. since[k] + (total + Term) <= end /\ end <= now + (total + Term)
        <5> HIDE DEF x, total
        <5> QED
          BY <3>1, <3>2, <4>1, <4>2
      <4>4. since'[k] = since[k]
        BY <1>8, <3>4
      <4> QED
        BY <1>1, <1>6, <1>8, <2>2, <3>2, <4>3, <4>4 DEF PaidKey
    <3> QED
      BY <3>1, <3>3, <3>4
  <2> QED
    BY <2>1, <2>2
<1>15. Unpaid'
  <2> SUFFICES ASSUME NEW j \in known, bought'[j] = 0, keys'[j] # None
               PROVE  keys'[j].label # "pro-x402"
    BY DEF Unpaid
  <2>1. j # k /\ j \in Keys
    BY <1>1, <1>8 DEF PInv, PurchaseTypes
  <2> QED
    BY <1>5, <1>8, <2>1 DEF PInv, Unpaid
<1>16. Grants'
  <2> SUFFICES ASSUME NEW f \in Fingerprints, grants'[f] # None
               PROVE  grants'[f].key \in known \ OperatorKeys /\ bought'[grants'[f].key] = 0
    BY DEF Grants
  <2>1. grants'[f] = grants[f] /\ grants[f].key # k
    BY <1>9
  <2>2. grants[f].key \in known \ OperatorKeys /\ bought[grants[f].key] = 0
        /\ grants[f].key \in Keys
    BY <2>1 DEF PInv, Grants, PurchaseTypes
  <2> QED
    BY <1>8, <2>1, <2>2
<1>17. Times'
  BY <1>1, <1>8 DEF PInv, Times, PurchaseTypes
<1> QED
  BY <1>10, <1>11, <1>12, <1>13, <1>14, <1>15, <1>16, <1>17 DEF PInv

\* The payment did not settle: a planned key goes, nothing else does.
LEMMA SettleFailsKeeps ==
  ASSUME PInv, NEW b \in Purchases, SettleFails(b)
  PROVE  PInv'
<1> USE DEF SettleFails, moveTo
<1> DEFINE k == buy[b].key
<1>1. /\ buy' \in [Purchases -> BuyType] /\ buy'[b].at \in {"notCharged", "unconfirmed"}
      /\ \A c \in Purchases \ {b} : buy'[c] = buy[c]
  BY DEF PInv, PurchaseTypes, BuyType, Answers
<1>2. CASE buy[b].renewed
  <2>1. keys' = keys /\ ~Pending(b)' /\ ~Renewing(b)'
    BY <1>1, <1>2 DEF discard, Pending, Renewing
  <2> QED
    BY <1>1, <2>1, MoveKeeps
<1>3. CASE ~buy[b].renewed
  <2>1. Pending(b) /\ PlannedKey(b) /\ k \in Keys \ known
    BY <1>3 DEF Pending, PlannedKey, PInv, NewKeys
  <2>2. /\ keys' \in TableType
        /\ \A j \in Keys \ {k} : keys'[j] = keys[j]
        /\ \A j \in Keys : keys'[j] \in {keys[j], None}
    BY <1>3, <2>1 DEF discard, discardProKey, PInv, PurchaseTypes, TableType
  <2>3. PurchaseTypes' /\ RowsOrdered'
    BY <1>1, <2>2 DEF PInv, PurchaseTypes, RowsOrdered, RowOK
  <2>4. NewKeys'
    <3> SUFFICES ASSUME NEW c \in Purchases, Pending(c)' PROVE PlannedKey(c)'
      BY DEF NewKeys
    <3>1. c # b /\ Pending(c) /\ PlannedKey(c) /\ buy'[c] = buy[c]
      BY <1>1 DEF Pending, PInv, NewKeys
    <3>2. buy[c].key \in Keys \ {k}
      BY <2>1, <3>1 DEF PlannedKey
    <3>3. \A d \in Purchases : Pending(d)' => Pending(d) /\ buy'[d] = buy[d]
      BY <1>1 DEF Pending
    <3>4. keys'[buy[c].key] = keys[buy[c].key]
      BY <2>2, <3>2
    <3> QED
      BY <3>1, <3>3, <3>4 DEF PlannedKey
  <2>5. Renewals'
    BY <1>1 DEF PInv, Renewals, Renewing
  <2>6. Paid'
    <3> SUFFICES ASSUME NEW j \in Keys, bought[j] > 0 PROVE PaidKey(j)'
      BY DEF Paid, PaidKey
    <3>1. PaidKey(j) /\ j # k
      BY <2>1 DEF PInv, Paid, PaidKey
    <3>2. keys'[j] = keys[j]
      BY <2>2, <3>1
    <3> QED
      BY <3>1, <3>2 DEF PaidKey
  <2>7. Unpaid' /\ Grants' /\ Times'
    BY <2>2 DEF PInv, Unpaid, Grants, Times, PurchaseTypes
  <2> QED
    BY <2>3, <2>4, <2>5, <2>6, <2>7 DEF PInv
<1> QED
  BY <1>2, <1>3

LEMMA ProNextKeeps == ASSUME OperatorLists, PInv, [ProNext]_allVars PROVE PInv'
<1>1. CASE UNCHANGED allVars
  BY <1>1, QuietKeeps DEF allVars, vars, buyVars, PInv, PurchaseTypes
<1>2. CASE Handlers /\ UNCHANGED buyVars
  <2>1. CASE \E f \in Fingerprints, k \in Keys : IssueFreeKey(f, k)
    BY <1>2, <2>1, IssueSparesPurchases
  <2>2. CASE \E c \in Calls : (\E k \in Keys : Authorize(c, k)) \/ Deliver(c) \/ Fail(c)
    BY <1>2, <2>2, QuietKeeps DEF Authorize, Deliver, Fail, buyVars, PInv, PurchaseTypes
  <2>3. CASE Tick
    BY <1>2, <2>3, QuietKeeps DEF Tick, buyVars, PInv, PurchaseTypes
  <2> QED
    BY <1>2, <2>1, <2>2, <2>3 DEF Handlers
<1>3. CASE OutageLosesPurchases
  BY <1>3, OutageSparesPurchases
<1>4. ASSUME NEW b \in Purchases,
             \/ \E k \in Keys \cup {None} : Ask(b, k)
             \/ VerifyFails(b) \/ PlanRenewal(b)
             \/ \E k \in Keys : PlanNewKey(b, k)
             \/ CommitNewKey(b) \/ CommitRenewal(b) \/ CommitFails(b)
             \/ SettleFails(b)
      PROVE  PInv'
  BY <1>4, AskKeeps, QuietMovesKeep, PlanNewKeyKeeps, CommitNewKeyKeeps,
     CommitRenewalKeeps, SettleFailsKeeps
<1> QED
  BY <1>1, <1>2, <1>3, <1>4 DEF ProNext

------------------------------------------------------------------------------
\* However keys are issued, bought, renewed, revoked and purchases interrupted.
THEOREM ProInvariance == ASSUME OperatorLists PROVE ProSpec => []PInv
<1>1. ProInit => PInv
  BY InitPInv
<1>2. PInv /\ [ProNext]_allVars => PInv'
  BY ProNextKeeps
<1> QED
  BY <1>1, <1>2, PTL DEF ProSpec

\* A key that was paid for stays, Pro and enabled, and has left its grant
\* (db.ts:103-104).
THEOREM BoughtStays == ASSUME OperatorLists PROVE ProSpec => []BoughtKeyWorks
<1>1. PInv => BoughtKeyWorks
  <2> SUFFICES ASSUME PInv PROVE BoughtKeyWorks
    OBVIOUS
  <2>1. ASSUME NEW k \in Keys, bought[k] > 0
        PROVE  keys[k] # None /\ keys[k].tier = "pro" /\ ~keys[k].disabled
    <3>1. PaidKey(k) /\ RowOK(keys, k)
      BY DEF PInv, Paid, RowsOrdered
    <3> QED
      BY <2>1, <3>1 DEF PaidKey, RowOK, BootstrapLabels
  <2> QED
    BY <2>1 DEF BoughtKeyWorks, PInv, Grants
<1> QED
  BY <1>1, ProInvariance, PTL

\* Time on a key is the time paid for, whatever renewals race
\* (service.ts:286-292, db.ts:100-105).
THEOREM TimeIsPaid == ASSUME OperatorLists PROVE ProSpec => []PaidTimeOnly
<1>1. PInv => PaidTimeOnly
  <2> SUFFICES ASSUME PInv, NEW k \in known, keys[k] # None, keys[k].expires # None
               PROVE  /\ bought[k] > 0
                      /\ keys[k].expires >= since[k] + bought[k] * Term
                      /\ keys[k].expires <= latest[k] + bought[k] * Term
    BY DEF PaidTimeOnly
  <2>1. k \in Keys /\ bought[k] \in Nat
    BY DEF PInv, PurchaseTypes
  <2>2. keys[k].label = "pro-x402"
    BY <2>1 DEF PInv, RowsOrdered, RowOK
  <2>3. bought[k] > 0
    BY <2>1, <2>2 DEF PInv, Unpaid
  <2> QED
    BY <2>1, <2>3 DEF PInv, Paid, PaidKey
<1> QED
  BY <1>1, ProInvariance, PTL
==============================================================================
