---------------------------- MODULE X402Payments ----------------------------
(***************************************************************************)
(* Pay-per-call over x402 (src/billing/x402.ts) as the tool handler drives *)
(* it (src/tools/registry.ts): verify with the facilitator, reserve the    *)
(* authorization in the shared database, run the tool, settle, answer.     *)
(* Several server processes may share the database.  The facilitator and   *)
(* the token contract are external: an authorization moves money at most   *)
(* once, a settle request may land long after the server gave up on it,    *)
(* and an explicit refusal without a transaction is the truth.             *)
(***************************************************************************)
EXTENDS Naturals, FiniteSets

CONSTANTS
    Calls,          \* tool calls, each handled once
    Servers,        \* processes sharing one database
    ServerOf,       \* the process that handles a call
    Headers,        \* X-PAYMENT headers callers may send
    Auths,          \* EIP-3009 authorizations: (from, nonce) pairs
    AuthOf,         \* the authorization a header encodes
    Payers,         \* wallets
    PayerOf,        \* the wallet that signed an authorization
    MaxPending,     \* MAX_PENDING_PER_PAYER
    None

ASSUME CallsAssumption ==
    /\ IsFiniteSet(Calls)
    /\ ServerOf \in [Calls -> Servers]
ASSUME HeadersAssumption ==
    /\ AuthOf \in [Headers -> Auths]
    /\ PayerOf \in [Auths -> Payers]
ASSUME MaxPendingAssumption == MaxPending \in Nat \ {0}
ASSUME NoneAssumption == None \notin Calls \cup Headers \cup Auths

VARIABLES
    pc,             \* where the handler of a call is, or the answer it gave
    header,         \* the X-PAYMENT header a call carries
    charge,         \* state of the call's X402Charge closure
    pending,        \* pendingByPayer of each process (memory)
    consumed,       \* payment ids in table x402_payments (disk)
    requests,       \* calls whose /settle request is at the facilitator
    paidFor         \* the call whose settle request moved an authorization

vars == <<pc, header, charge, pending, consumed, requests, paidFor>>

Running == {"verifying", "running", "settling"}
Answers == {"refused", "served", "notCharged", "unconfirmed", "lost"}

TypeOK ==
    /\ pc \in [Calls -> {"idle"} \cup Running \cup Answers]
    /\ header \in [Calls -> Headers \cup {None}]
    /\ charge \in [Calls -> {"none", "reserved", "settled", "unknown", "released"}]
    /\ pending \in [Servers -> [Payers -> Nat]]
    /\ consumed \subseteq Auths
    /\ requests \subseteq Calls
    /\ paidFor \in [Auths -> Calls \cup {None}]

------------------------------------------------------------------------------
\* Mutant: the id is a hash of the header as it was sent.
deriveIdOfEncoding(h) == h

\* Replay key of a payment: the authorization, however it was encoded.
deriveId(h) == AuthOf[h]

authOf(c) == AuthOf[header[c]]
payerOf(c) == PayerOf[authOf(c)]

Init ==
    /\ pc = [c \in Calls |-> "idle"]
    /\ header = [c \in Calls |-> None]
    /\ charge = [c \in Calls |-> "none"]
    /\ pending = [s \in Servers |-> [p \in Payers |-> 0]]
    /\ consumed = {}
    /\ requests = {}
    /\ paidFor = [a \in Auths |-> None]

\* An INSERT that a conflict turns into a replay, and its undoing.
consumePaymentId(id) == consumed' = consumed \cup {id}
releasePaymentId(id) == consumed' = consumed \ {id}

\* finish(next): the charge leaves "reserved"; pendingByPayer never goes below 0.
finish(c, next) ==
    /\ charge' = [charge EXCEPT ![c] = next]
    /\ pending' = [pending EXCEPT ![ServerOf[c]][payerOf(c)] =
                      IF @ > 0 THEN @ - 1 ELSE 0]

\* release(): gives the authorization back, unless settlement was concluded.
release(c) ==
    IF charge[c] = "reserved"
    THEN /\ releasePaymentId(deriveId(header[c]))
         /\ finish(c, "released")
    ELSE UNCHANGED <<consumed, charge, pending>>

\* Mutant: the failed call ends its charge but keeps the payment id.
failCallKeepingId(c, answer) ==
    /\ pc' = [pc EXCEPT ![c] = answer]
    /\ finish(c, "released")
    /\ UNCHANGED consumed

\* The call is answered with an error; the catch block refunds the charge.
failCall(c, answer) ==
    /\ pc' = [pc EXCEPT ![c] = answer]
    /\ release(c)

------------------------------------------------------------------------------
\* verifyPayment up to the call of /verify.  No or malformed header, no
\* facilitator, an authorization about to expire: refused at once.
RefuseEarly(c) ==
    /\ pc[c] = "idle"
    /\ pc' = [pc EXCEPT ![c] = "refused"]
    /\ UNCHANGED <<header, charge, pending, consumed, requests, paidFor>>

\* The payer's pending payments are counted here, before the await of /verify.
Present(c, h) ==
    /\ pc[c] = "idle"
    /\ header' = [header EXCEPT ![c] = h]
    /\ pc' = [pc EXCEPT ![c] =
                IF pending[ServerOf[c]][PayerOf[AuthOf[h]]] < MaxPending
                THEN "verifying" ELSE "refused"]
    /\ UNCHANGED <<charge, pending, consumed, requests, paidFor>>

\* /verify says valid: reserve the payment id, or refuse a replay.
VerifyValid(c) ==
    /\ pc[c] = "verifying"
    /\ IF deriveId(header[c]) \notin consumed
       THEN /\ consumePaymentId(deriveId(header[c]))
            /\ pending' = [pending EXCEPT ![ServerOf[c]][payerOf(c)] = @ + 1]
            /\ charge' = [charge EXCEPT ![c] = "reserved"]
            /\ pc' = [pc EXCEPT ![c] = "running"]
       ELSE /\ pc' = [pc EXCEPT ![c] = "refused"]
            /\ UNCHANGED <<consumed, pending, charge>>
    /\ UNCHANGED <<header, requests, paidFor>>

\* /verify says invalid, or does not answer before VERIFY_TIMEOUT_MS.
VerifyFails(c) ==
    /\ pc[c] = "verifying"
    /\ pc' = [pc EXCEPT ![c] = "refused"]
    /\ UNCHANGED <<header, charge, pending, consumed, requests, paidFor>>

\* The tool threw, or the request was cancelled by the time it returned.
RunFails(c) ==
    /\ pc[c] = "running"
    /\ failCall(c, "notCharged")
    /\ UNCHANGED <<header, requests, paidFor>>

\* The tool returned a result: post /settle and await the answer.
RunDelivers(c) ==
    /\ pc[c] = "running"
    /\ pc' = [pc EXCEPT ![c] = "settling"]
    /\ requests' = requests \cup {c}
    /\ UNCHANGED <<header, charge, pending, consumed, paidFor>>

\* The facilitator answers success: hand out the result.
SettleConfirmed(c) ==
    /\ pc[c] = "settling"
    /\ c \in requests /\ paidFor[authOf(c)] = c
    /\ pc' = [pc EXCEPT ![c] = "served"]
    /\ requests' = requests \ {c}
    /\ finish(c, "settled")
    /\ UNCHANGED <<header, consumed, paidFor>>

\* The facilitator answers success: false and names no transaction.
SettleRefused(c) ==
    /\ pc[c] = "settling"
    /\ c \in requests /\ paidFor[authOf(c)] # c
    /\ requests' = requests \ {c}
    /\ failCall(c, "notCharged")
    /\ UNCHANGED <<header, paidFor>>

\* Mutants: an unconfirmed settlement is taken for a refusal; for a success;
\* leaves the payer's count as it was; waits for the facilitator for ever.
SettleUnknownIsRefusal(c) ==
    /\ pc[c] = "settling"
    /\ failCall(c, "notCharged")
    /\ UNCHANGED <<header, requests, paidFor>>
SettleUnknownServes(c) ==
    /\ pc[c] = "settling"
    /\ pc' = [pc EXCEPT ![c] = "served"]
    /\ finish(c, "settled")
    /\ UNCHANGED <<header, consumed, requests, paidFor>>
SettleUnknownKeepsCount(c) ==
    /\ pc[c] = "settling"
    /\ pc' = [pc EXCEPT ![c] = "unconfirmed"]
    /\ charge' = [charge EXCEPT ![c] = "unknown"]
    /\ UNCHANGED <<header, pending, consumed, requests, paidFor>>
SettleUnknownWithoutTimeout(c) ==
    /\ pc[c] = "settling" /\ c \notin requests
    /\ pc' = [pc EXCEPT ![c] = "unconfirmed"]
    /\ finish(c, "unknown")
    /\ UNCHANGED <<header, consumed, requests, paidFor>>

\* Timeout, gateway error, unreadable body, refusal with a transaction: the
\* reservation is kept.  The refund of the catch block then finds the charge
\* no longer reserved and changes nothing.
SettleUnknown(c) ==
    /\ pc[c] = "settling"
    /\ pc' = [pc EXCEPT ![c] = "unconfirmed"]
    /\ finish(c, "unknown")
    /\ UNCHANGED <<header, consumed, requests, paidFor>>

------------------------------------------------------------------------------
\* External: the transfer of a settle request lands on-chain.
Transfer(c) ==
    /\ c \in requests
    /\ paidFor[authOf(c)] = None
    /\ paidFor' = [paidFor EXCEPT ![authOf(c)] = c]
    /\ UNCHANGED <<pc, header, charge, pending, consumed, requests>>

\* External: a request nobody waits for any more is dropped or forgotten.
DropRequest(c) ==
    /\ c \in requests /\ pc[c] # "settling"
    /\ requests' = requests \ {c}
    /\ UNCHANGED <<pc, header, charge, pending, consumed, paidFor>>

\* The process dies (or is redeployed) and comes back: its calls get no
\* answer, its pendingByPayer is empty again, the database is as it was.
Restart(s) ==
    /\ \E c \in Calls : ServerOf[c] = s /\ pc[c] \in Running
    /\ pc' = [c \in Calls |->
                IF ServerOf[c] = s /\ pc[c] \in Running THEN "lost" ELSE pc[c]]
    /\ pending' = [pending EXCEPT ![s] = [p \in Payers |-> 0]]
    /\ UNCHANGED <<header, charge, consumed, requests, paidFor>>

Next ==
    \/ \E c \in Calls :
          \/ RefuseEarly(c) \/ VerifyValid(c) \/ VerifyFails(c)
          \/ \E h \in Headers : Present(c, h)
          \/ RunFails(c) \/ RunDelivers(c)
          \/ SettleConfirmed(c) \/ SettleRefused(c) \/ SettleUnknown(c)
          \/ Transfer(c) \/ DropRequest(c)
    \/ \E s \in Servers : Restart(s)

\* Only the server's own progress is fair: the facilitator may never answer,
\* but postWithTimeout ends every wait, and upstream requests time out.
Fairness ==
    \A c \in Calls :
        /\ WF_vars(VerifyFails(c))
        /\ WF_vars(RunFails(c) \/ RunDelivers(c))
        /\ WF_vars(SettleUnknown(c))

Spec == Init /\ [][Next]_vars
FairSpec == Spec /\ Fairness

------------------------------------------------------------------------------
\* A settle request of c may still move money, or has moved it.
MayHavePaid(c) == c \in requests \/ \E a \in Auths : paidFor[a] = c

\* The charge of c holds its payment id: reserved and not given back.
Holds(c) == charge[c] \in {"reserved", "settled", "unknown"}

\* A live handler holds an unfinished charge of payer p on process s.
InFlight(s, p) ==
    {c \in Calls : /\ ServerOf[c] = s /\ pc[c] \in Running
                   /\ charge[c] = "reserved" /\ payerOf(c) = p}

\* One authorization, however often and in whatever encoding it is presented,
\* on whichever process, is settled for one call only: no second settle
\* request is sent while an earlier one moved the money or still may.
OneSettlementPerAuthorization ==
    \A c, d \in Calls :
        MayHavePaid(c) /\ MayHavePaid(d) /\ authOf(c) = authOf(d) => c = d

\* A caller told that nothing was charged (the call failed, the payment was
\* refused or a replay) never pays for that call, not even by a transfer
\* that lands after the answer.
NotChargedIsTrue ==
    \A c \in Calls : pc[c] \in {"refused", "notCharged"} => ~MayHavePaid(c)

\* Every error path gives its authorization back: a payment id stays taken
\* only by a call that is still being handled, was paid or may yet be paid,
\* or was cut off by a restart.
NoReservationLeak ==
    \A a \in consumed :
        \E c \in Calls : /\ Holds(c) /\ authOf(c) = a
                         /\ pc[c] \in Running \cup {"served", "unconfirmed", "lost"}

\* pendingByPayer counts exactly the payments verified and not finished: no
\* path loses a payment from the count, and none leaves one behind in it, which
\* would refuse the payer until the process restarts.  That the payments stay
\* within MaxPending is not said and not so: the count is compared before the
\* await of /verify (x402.ts:124) and raised after it (x402.ts:143), so all calls
\* that wait there together pass.
PendingIsExact ==
    \A s \in Servers, p \in Payers : pending[s][p] = Cardinality(InFlight(s, p))

\* "Facilitator calls must never hang a request" (x402.ts:240-241): a call
\* that got past the first checks is answered, or its process restarted.
EveryCallAnswered ==
    \A c \in Calls : pc[c] = "verifying" ~> pc[c] \in Answers

------------------------------------------------------------------------------
\* Refinement: what callers are told and what is taken from them.
toldTo(c) ==
    CASE pc[c] = "served" -> "result"
      [] pc[c] \in {"refused", "notCharged"} -> "not charged"
      [] pc[c] = "unconfirmed" -> "unconfirmed"
      [] pc[c] = "lost" -> "lost"
      [] OTHER -> "nothing"

Contract == INSTANCE PaymentContract WITH
    offered <- [c \in Calls |-> IF header[c] = None THEN None ELSE authOf(c)],
    paidFor <- paidFor,
    told <- [c \in Calls |-> toldTo(c)]

\* The server keeps the promise of PaymentContract.
ContractKept == Contract!Spec
==============================================================================
