------------------------- MODULE X402Payments_proofs -------------------------
(***************************************************************************)
(* Proofs about X402Payments, for any number of calls, processes, headers, *)
(* authorizations and payers.  IInv is the inductive invariant: a charge   *)
(* holds the payment id of its authorization alone, and a settle request   *)
(* or a transfer always belongs to a call that still holds its id.         *)
(***************************************************************************)
EXTENDS X402Payments, FiniteSetTheorems, TLAPS

\* The state of the charge follows the progress of the handler.
ChargeFollowsCall ==
    \A c \in Calls :
        /\ pc[c] \in {"idle", "verifying", "refused"} => charge[c] = "none"
        /\ pc[c] \in {"running", "settling"} => charge[c] = "reserved"
        /\ pc[c] = "served" => charge[c] = "settled"
        /\ pc[c] = "unconfirmed" => charge[c] = "unknown"
        /\ pc[c] = "notCharged" => charge[c] = "released"
        /\ pc[c] = "lost" => charge[c] \in {"none", "reserved"}

\* A call past the first checks carries a header, one before them none.
HeaderPresent ==
    \A c \in Calls :
        /\ pc[c] = "idle" => header[c] = None
        /\ pc[c] = "verifying" \/ charge[c] # "none" => header[c] \in Headers

HolderConsumed == \A c \in Calls : Holds(c) => authOf(c) \in consumed

HolderUnique ==
    \A c, d \in Calls : Holds(c) /\ Holds(d) /\ authOf(c) = authOf(d) => c = d

\* Calls whose settle request was sent and not refused.
Sent == {"settling", "served", "unconfirmed", "lost"}

RequestHolds == \A c \in requests : Holds(c) /\ pc[c] \in Sent

PaidHolds ==
    \A a \in Auths : paidFor[a] # None =>
        /\ Holds(paidFor[a]) /\ authOf(paidFor[a]) = a
        /\ pc[paidFor[a]] \in Sent

ServedPaid == \A c \in Calls : pc[c] = "served" => paidFor[authOf(c)] = c

IInv ==
    /\ TypeOK /\ ChargeFollowsCall /\ HeaderPresent
    /\ HolderConsumed /\ HolderUnique /\ RequestHolds /\ PaidHolds /\ ServedPaid
    /\ NoReservationLeak

------------------------------------------------------------------------------
(* finish and release, as the step lemmas use them. *)

\* Ending a charge keeps pendingByPayer a table of naturals.
LEMMA FinishPending ==
  ASSUME NEW c \in Calls, NEW next, TypeOK, header[c] \in Headers, finish(c, next)
  PROVE  pending' \in [Servers -> [Payers -> Nat]]
<1> DEFINE s == ServerOf[c]  p == payerOf(c)
           left == IF pending[s][p] > 0 THEN pending[s][p] - 1 ELSE 0
<1>1. s \in Servers /\ p \in Payers
  BY CallsAssumption, HeadersAssumption DEF payerOf, authOf
<1>2. pending[s] \in [Payers -> Nat] /\ pending[s][p] \in Nat
  BY <1>1 DEF TypeOK
<1>3. left \in Nat
  BY <1>2
<1>4. pending' = [pending EXCEPT ![s] = [pending[s] EXCEPT ![p] = left]]
  BY DEF finish
<1> QED
  BY <1>1, <1>2, <1>3, <1>4 DEF TypeOK

\* Releasing a reserved charge gives back exactly its own authorization.
LEMMA ReleaseReserved ==
  ASSUME NEW c \in Calls, TypeOK, header[c] \in Headers,
         charge[c] = "reserved", release(c)
  PROVE  /\ consumed' = consumed \ {authOf(c)}
         /\ charge' = [charge EXCEPT ![c] = "released"]
         /\ pending' \in [Servers -> [Payers -> Nat]]
<1>1. finish(c, "released") /\ consumed' = consumed \ {authOf(c)}
  BY DEF release, releasePaymentId, deriveId, authOf
<1> QED
  BY <1>1, FinishPending DEF finish

------------------------------------------------------------------------------
\* The server starts in the invariant.
THEOREM InitIInv == Init => IInv
<1> SUFFICES ASSUME Init PROVE IInv
  OBVIOUS
<1>1. TypeOK
  BY DEF Init, TypeOK, Running, Answers
<1>2. ChargeFollowsCall /\ HeaderPresent
  BY DEF Init, ChargeFollowsCall, HeaderPresent
<1>3. HolderConsumed /\ HolderUnique /\ RequestHolds
  BY DEF Init, HolderConsumed, HolderUnique, RequestHolds, Holds
<1>4. PaidHolds /\ ServedPaid /\ NoReservationLeak
  BY DEF Init, PaidHolds, ServedPaid, NoReservationLeak
<1> QED
  BY <1>1, <1>2, <1>3, <1>4 DEF IInv

LEMMA RefuseEarlyKeeps ==
  ASSUME NEW c \in Calls, IInv, RefuseEarly(c)
  PROVE  IInv'
<1> USE DEF IInv, TypeOK
<1>1. TypeOK'
  BY DEF RefuseEarly, Running, Answers
<1>2. ChargeFollowsCall'
  BY DEF RefuseEarly, ChargeFollowsCall
<1>3. HeaderPresent'
  BY DEF RefuseEarly, HeaderPresent
<1>4. HolderConsumed'
  BY DEF RefuseEarly, HolderConsumed, Holds, authOf
<1>5. HolderUnique'
  BY DEF RefuseEarly, HolderUnique, Holds, authOf
<1>6. RequestHolds'
  BY DEF RefuseEarly, RequestHolds, Sent, Holds
<1>7. PaidHolds'
  BY DEF RefuseEarly, PaidHolds, Sent, Holds, authOf
<1>8. ServedPaid'
  BY DEF RefuseEarly, ServedPaid, authOf
<1>9. NoReservationLeak'
  BY DEF RefuseEarly, NoReservationLeak, Holds, authOf, Running
<1> QED
  BY <1>1, <1>2, <1>3, <1>4, <1>5, <1>6, <1>7, <1>8, <1>9

LEMMA PresentKeeps ==
  ASSUME NEW c \in Calls, NEW h \in Headers, IInv, Present(c, h)
  PROVE  IInv'
<1> USE DEF IInv, TypeOK
<1>1. TypeOK'
  BY HeadersAssumption DEF Present, Running, Answers
<1>2. ChargeFollowsCall'
  BY DEF Present, ChargeFollowsCall
<1>3. HeaderPresent'
  BY DEF Present, HeaderPresent
<1>4. HolderConsumed'
  BY DEF Present, HolderConsumed, Holds, authOf, ChargeFollowsCall
<1>5. HolderUnique'
  BY DEF Present, HolderUnique, Holds, authOf, ChargeFollowsCall
<1>6. RequestHolds'
  BY DEF Present, RequestHolds, Sent, Holds
<1>7. PaidHolds'
  BY DEF Present, PaidHolds, Sent, Holds, authOf, ChargeFollowsCall
<1>8. ServedPaid'
  BY DEF Present, ServedPaid, authOf
<1>9. NoReservationLeak'
  BY DEF Present, NoReservationLeak, Holds, authOf, Running, ChargeFollowsCall
<1> QED
  BY <1>1, <1>2, <1>3, <1>4, <1>5, <1>6, <1>7, <1>8, <1>9

LEMMA VerifyValidKeeps ==
  ASSUME NEW c \in Calls, IInv, VerifyValid(c)
  PROVE  IInv'
<1> USE DEF IInv, TypeOK
<1>a. deriveId(header[c]) \in Auths
  BY HeadersAssumption DEF VerifyValid, consumePaymentId, HeaderPresent, deriveId
<1>0. pending' \in [Servers -> [Payers -> Nat]]
  <2> DEFINE s == ServerOf[c]  p == payerOf(c)
  <2>1. s \in Servers /\ p \in Payers
    BY CallsAssumption, HeadersAssumption DEF VerifyValid, consumePaymentId, HeaderPresent, payerOf, authOf
  <2>2. pending[s] \in [Payers -> Nat] /\ pending[s][p] + 1 \in Nat
    BY <2>1
  <2>3. \/ pending' = [pending EXCEPT ![s] = [pending[s] EXCEPT ![p] = pending[s][p] + 1]]
        \/ pending' = pending
    BY DEF VerifyValid, consumePaymentId
  <2> QED
    BY <2>1, <2>2, <2>3
<1>1. TypeOK'
  BY <1>0, <1>a DEF VerifyValid, consumePaymentId, Running, Answers
<1>2. ChargeFollowsCall'
  BY <1>0 DEF VerifyValid, consumePaymentId, ChargeFollowsCall
<1>3. HeaderPresent'
  BY <1>0 DEF VerifyValid, consumePaymentId, HeaderPresent
<1>4. HolderConsumed'
  BY <1>0 DEF VerifyValid, consumePaymentId, HolderConsumed, Holds, authOf, deriveId
<1>5. HolderUnique'
  BY <1>0 DEF VerifyValid, consumePaymentId, HolderUnique, Holds, authOf, deriveId, HolderConsumed
<1>6. RequestHolds'
  BY <1>0 DEF VerifyValid, consumePaymentId, RequestHolds, Sent, Holds, ChargeFollowsCall
<1>7. PaidHolds'
  BY <1>0 DEF VerifyValid, consumePaymentId, PaidHolds, Sent, Holds, authOf, ChargeFollowsCall
<1>8. ServedPaid'
  BY <1>0 DEF VerifyValid, consumePaymentId, ServedPaid, authOf
<1>9. NoReservationLeak'
  <2>1. CASE deriveId(header[c]) \in consumed
    BY <2>1 DEF VerifyValid, consumePaymentId, NoReservationLeak, Holds, authOf, Running, ChargeFollowsCall
  <2>2. CASE deriveId(header[c]) \notin consumed
    <3>1. Holds(c)' /\ pc'[c] \in Running /\ consumed' = consumed \cup {authOf(c)'}
      BY <2>2 DEF VerifyValid, consumePaymentId, Holds, Running, deriveId, authOf
    <3>2. \A d \in Calls \ {c} : UNCHANGED <<pc[d], Holds(d), authOf(d)>>
      BY <2>2 DEF VerifyValid, consumePaymentId, Holds, authOf
    <3>3. ~Holds(c)
      BY DEF VerifyValid, consumePaymentId, ChargeFollowsCall, Holds
    <3> QED
      BY <3>1, <3>2, <3>3 DEF NoReservationLeak
  <2> QED
    BY <2>1, <2>2
<1> QED
  BY <1>1, <1>2, <1>3, <1>4, <1>5, <1>6, <1>7, <1>8, <1>9

LEMMA VerifyFailsKeeps ==
  ASSUME NEW c \in Calls, IInv, VerifyFails(c)
  PROVE  IInv'
<1> USE DEF IInv, TypeOK
<1>1. TypeOK'
  BY DEF VerifyFails, Running, Answers
<1>2. ChargeFollowsCall'
  BY DEF VerifyFails, ChargeFollowsCall
<1>3. HeaderPresent'
  BY DEF VerifyFails, HeaderPresent
<1>4. HolderConsumed'
  BY DEF VerifyFails, HolderConsumed, Holds, authOf
<1>5. HolderUnique'
  BY DEF VerifyFails, HolderUnique, Holds, authOf
<1>6. RequestHolds'
  BY DEF VerifyFails, RequestHolds, Sent, Holds
<1>7. PaidHolds'
  BY DEF VerifyFails, PaidHolds, Sent, Holds, authOf
<1>8. ServedPaid'
  BY DEF VerifyFails, ServedPaid, authOf
<1>9. NoReservationLeak'
  BY DEF VerifyFails, NoReservationLeak, Holds, authOf, Running, ChargeFollowsCall
<1> QED
  BY <1>1, <1>2, <1>3, <1>4, <1>5, <1>6, <1>7, <1>8, <1>9

LEMMA RunFailsKeeps ==
  ASSUME NEW c \in Calls, IInv, RunFails(c)
  PROVE  IInv'
<1> USE DEF IInv, TypeOK
<1>0. /\ header[c] \in Headers /\ charge[c] = "reserved"
      /\ consumed' = consumed \ {authOf(c)}
      /\ charge' = [charge EXCEPT ![c] = "released"]
      /\ pending' \in [Servers -> [Payers -> Nat]]
  BY ReleaseReserved DEF RunFails, failCall, ChargeFollowsCall, HeaderPresent
<1>1. TypeOK'
  BY <1>0 DEF RunFails, failCall, Running, Answers
<1>2. ChargeFollowsCall'
  BY <1>0 DEF RunFails, failCall, ChargeFollowsCall
<1>3. HeaderPresent'
  BY <1>0 DEF RunFails, failCall, HeaderPresent
<1>4. HolderConsumed'
  BY <1>0 DEF RunFails, failCall, HolderConsumed, Holds, authOf, HolderUnique
<1>5. HolderUnique'
  BY <1>0 DEF RunFails, failCall, HolderUnique, Holds, authOf
<1>6. RequestHolds'
  BY <1>0 DEF RunFails, failCall, RequestHolds, Sent, Holds
<1>7. PaidHolds'
  BY <1>0 DEF RunFails, failCall, PaidHolds, Sent, Holds, authOf
<1>8. ServedPaid'
  BY <1>0 DEF RunFails, failCall, ServedPaid, authOf
<1>9. NoReservationLeak'
  BY <1>0 DEF RunFails, failCall, NoReservationLeak, Holds, authOf, Running
<1> QED
  BY <1>1, <1>2, <1>3, <1>4, <1>5, <1>6, <1>7, <1>8, <1>9

LEMMA RunDeliversKeeps ==
  ASSUME NEW c \in Calls, IInv, RunDelivers(c)
  PROVE  IInv'
<1> USE DEF IInv, TypeOK
<1>1. TypeOK'
  BY DEF RunDelivers, Running, Answers
<1>2. ChargeFollowsCall'
  BY DEF RunDelivers, ChargeFollowsCall
<1>3. HeaderPresent'
  BY DEF RunDelivers, HeaderPresent
<1>4. HolderConsumed'
  BY DEF RunDelivers, HolderConsumed, Holds, authOf
<1>5. HolderUnique'
  BY DEF RunDelivers, HolderUnique, Holds, authOf
<1>6. RequestHolds'
  BY DEF RunDelivers, RequestHolds, Sent, Holds, ChargeFollowsCall
<1>7. PaidHolds'
  BY DEF RunDelivers, PaidHolds, Sent, Holds, authOf
<1>8. ServedPaid'
  BY DEF RunDelivers, ServedPaid, authOf
<1>9. NoReservationLeak'
  BY DEF RunDelivers, NoReservationLeak, Holds, authOf, Running
<1> QED
  BY <1>1, <1>2, <1>3, <1>4, <1>5, <1>6, <1>7, <1>8, <1>9

LEMMA SettleConfirmedKeeps ==
  ASSUME NEW c \in Calls, IInv, SettleConfirmed(c)
  PROVE  IInv'
<1> USE DEF IInv, TypeOK
<1>0. /\ header[c] \in Headers /\ charge[c] = "reserved"
      /\ charge' = [charge EXCEPT ![c] = "settled"]
      /\ pending' \in [Servers -> [Payers -> Nat]]
  BY FinishPending DEF SettleConfirmed, finish, ChargeFollowsCall, HeaderPresent
<1>1. TypeOK'
  BY <1>0 DEF SettleConfirmed, Running, Answers
<1>2. ChargeFollowsCall'
  BY <1>0 DEF SettleConfirmed, ChargeFollowsCall
<1>3. HeaderPresent'
  BY <1>0 DEF SettleConfirmed, HeaderPresent
<1>4. HolderConsumed'
  BY <1>0 DEF SettleConfirmed, HolderConsumed, Holds, authOf
<1>5. HolderUnique'
  BY <1>0 DEF SettleConfirmed, HolderUnique, Holds, authOf
<1>6. RequestHolds'
  BY <1>0 DEF SettleConfirmed, RequestHolds, Sent, Holds
<1>7. PaidHolds'
  BY <1>0 DEF SettleConfirmed, PaidHolds, Sent, Holds, authOf
<1>8. ServedPaid'
  BY <1>0 DEF SettleConfirmed, ServedPaid, authOf
<1>9. NoReservationLeak'
  BY <1>0 DEF SettleConfirmed, NoReservationLeak, Holds, authOf, Running
<1> QED
  BY <1>1, <1>2, <1>3, <1>4, <1>5, <1>6, <1>7, <1>8, <1>9

LEMMA SettleRefusedKeeps ==
  ASSUME NEW c \in Calls, IInv, SettleRefused(c)
  PROVE  IInv'
<1> USE DEF IInv, TypeOK
<1>0. /\ header[c] \in Headers /\ charge[c] = "reserved"
      /\ consumed' = consumed \ {authOf(c)}
      /\ charge' = [charge EXCEPT ![c] = "released"]
      /\ pending' \in [Servers -> [Payers -> Nat]]
  BY ReleaseReserved DEF SettleRefused, failCall, ChargeFollowsCall, HeaderPresent
<1>1. TypeOK'
  BY <1>0 DEF SettleRefused, failCall, Running, Answers
<1>2. ChargeFollowsCall'
  BY <1>0 DEF SettleRefused, failCall, ChargeFollowsCall
<1>3. HeaderPresent'
  BY <1>0 DEF SettleRefused, failCall, HeaderPresent
<1>4. HolderConsumed'
  BY <1>0 DEF SettleRefused, failCall, HolderConsumed, Holds, authOf, HolderUnique
<1>5. HolderUnique'
  BY <1>0 DEF SettleRefused, failCall, HolderUnique, Holds, authOf
<1>6. RequestHolds'
  BY <1>0 DEF SettleRefused, failCall, RequestHolds, Sent, Holds
<1>7. PaidHolds'
  BY <1>0 DEF SettleRefused, failCall, PaidHolds, Sent, Holds, authOf
<1>8. ServedPaid'
  BY <1>0 DEF SettleRefused, failCall, ServedPaid, authOf
<1>9. NoReservationLeak'
  BY <1>0 DEF SettleRefused, failCall, NoReservationLeak, Holds, authOf, Running
<1> QED
  BY <1>1, <1>2, <1>3, <1>4, <1>5, <1>6, <1>7, <1>8, <1>9

LEMMA SettleUnknownKeeps ==
  ASSUME NEW c \in Calls, IInv, SettleUnknown(c)
  PROVE  IInv'
<1> USE DEF IInv, TypeOK
<1>0. /\ header[c] \in Headers /\ charge[c] = "reserved"
      /\ charge' = [charge EXCEPT ![c] = "unknown"]
      /\ pending' \in [Servers -> [Payers -> Nat]]
  BY FinishPending DEF SettleUnknown, finish, ChargeFollowsCall, HeaderPresent
<1>1. TypeOK'
  BY <1>0 DEF SettleUnknown, Running, Answers
<1>2. ChargeFollowsCall'
  BY <1>0 DEF SettleUnknown, ChargeFollowsCall
<1>3. HeaderPresent'
  BY <1>0 DEF SettleUnknown, HeaderPresent
<1>4. HolderConsumed'
  BY <1>0 DEF SettleUnknown, HolderConsumed, Holds, authOf
<1>5. HolderUnique'
  BY <1>0 DEF SettleUnknown, HolderUnique, Holds, authOf
<1>6. RequestHolds'
  BY <1>0 DEF SettleUnknown, RequestHolds, Sent, Holds
<1>7. PaidHolds'
  BY <1>0 DEF SettleUnknown, PaidHolds, Sent, Holds, authOf
<1>8. ServedPaid'
  BY <1>0 DEF SettleUnknown, ServedPaid, authOf
<1>9. NoReservationLeak'
  BY <1>0 DEF SettleUnknown, NoReservationLeak, Holds, authOf, Running
<1> QED
  BY <1>1, <1>2, <1>3, <1>4, <1>5, <1>6, <1>7, <1>8, <1>9

LEMMA TransferKeeps ==
  ASSUME NEW c \in Calls, IInv, Transfer(c)
  PROVE  IInv'
<1> USE DEF IInv, TypeOK
<1>1. TypeOK'
  BY DEF Transfer, Running, Answers
<1>2. ChargeFollowsCall'
  BY DEF Transfer, ChargeFollowsCall
<1>3. HeaderPresent'
  BY DEF Transfer, HeaderPresent
<1>4. HolderConsumed'
  BY DEF Transfer, HolderConsumed, Holds, authOf
<1>5. HolderUnique'
  BY DEF Transfer, HolderUnique, Holds, authOf
<1>6. RequestHolds'
  BY DEF Transfer, RequestHolds, Sent, Holds
<1>7. PaidHolds'
  BY DEF Transfer, PaidHolds, Sent, Holds, authOf, RequestHolds
<1>8. ServedPaid'
  BY NoneAssumption DEF Transfer, ServedPaid, authOf
<1>9. NoReservationLeak'
  BY DEF Transfer, NoReservationLeak, Holds, authOf, Running
<1> QED
  BY <1>1, <1>2, <1>3, <1>4, <1>5, <1>6, <1>7, <1>8, <1>9

LEMMA DropRequestKeeps ==
  ASSUME NEW c \in Calls, IInv, DropRequest(c)
  PROVE  IInv'
<1> USE DEF IInv, TypeOK
<1>1. TypeOK'
  BY DEF DropRequest, Running, Answers
<1>2. ChargeFollowsCall'
  BY DEF DropRequest, ChargeFollowsCall
<1>3. HeaderPresent'
  BY DEF DropRequest, HeaderPresent
<1>4. HolderConsumed'
  BY DEF DropRequest, HolderConsumed, Holds, authOf
<1>5. HolderUnique'
  BY DEF DropRequest, HolderUnique, Holds, authOf
<1>6. RequestHolds'
  BY DEF DropRequest, RequestHolds, Sent, Holds
<1>7. PaidHolds'
  BY DEF DropRequest, PaidHolds, Sent, Holds, authOf
<1>8. ServedPaid'
  BY DEF DropRequest, ServedPaid, authOf
<1>9. NoReservationLeak'
  BY DEF DropRequest, NoReservationLeak, Holds, authOf, Running
<1> QED
  BY <1>1, <1>2, <1>3, <1>4, <1>5, <1>6, <1>7, <1>8, <1>9

LEMMA RestartKeeps ==
  ASSUME NEW s \in Servers, IInv, Restart(s)
  PROVE  IInv'
<1> USE DEF IInv, TypeOK
<1>1. TypeOK'
  BY DEF Restart, Running, Answers
<1>2. ChargeFollowsCall'
  BY DEF Restart, ChargeFollowsCall, Running
<1>3. HeaderPresent'
  BY DEF Restart, HeaderPresent
<1>4. HolderConsumed'
  BY DEF Restart, HolderConsumed, Holds, authOf
<1>5. HolderUnique'
  BY DEF Restart, HolderUnique, Holds, authOf
<1>6. RequestHolds'
  BY DEF Restart, RequestHolds, Sent, Holds
<1>7. PaidHolds'
  BY DEF Restart, PaidHolds, Sent, Holds, authOf
<1>8. ServedPaid'
  BY DEF Restart, ServedPaid, authOf
<1>9. NoReservationLeak'
  BY DEF Restart, NoReservationLeak, Holds, authOf, Running
<1> QED
  BY <1>1, <1>2, <1>3, <1>4, <1>5, <1>6, <1>7, <1>8, <1>9

\* Every step of every actor keeps the invariant.
LEMMA NextKeeps == IInv /\ [Next]_vars => IInv'
<1> SUFFICES ASSUME IInv, [Next]_vars PROVE IInv'
  OBVIOUS
<1>1. CASE UNCHANGED vars
  BY <1>1 DEF vars, IInv, TypeOK, ChargeFollowsCall, HeaderPresent, HolderConsumed,
     HolderUnique, RequestHolds, PaidHolds, ServedPaid, NoReservationLeak, Holds, authOf
<1>2. CASE \E c \in Calls : \/ RefuseEarly(c) \/ VerifyValid(c) \/ VerifyFails(c)
                            \/ \E h \in Headers : Present(c, h)
  BY <1>2, RefuseEarlyKeeps, VerifyValidKeeps, VerifyFailsKeeps, PresentKeeps
<1>3. CASE \E c \in Calls : RunFails(c) \/ RunDelivers(c)
  BY <1>3, RunFailsKeeps, RunDeliversKeeps
<1>4. CASE \E c \in Calls : SettleConfirmed(c) \/ SettleRefused(c) \/ SettleUnknown(c)
  BY <1>4, SettleConfirmedKeeps, SettleRefusedKeeps, SettleUnknownKeeps
<1>5. CASE \E c \in Calls : Transfer(c) \/ DropRequest(c)
  BY <1>5, TransferKeeps, DropRequestKeeps
<1>6. CASE \E s \in Servers : Restart(s)
  BY <1>6, RestartKeeps
<1> QED
  BY <1>1, <1>2, <1>3, <1>4, <1>5, <1>6 DEF Next

\* IInv holds in every reachable state.
THEOREM Invariance == Spec => []IInv
<1>1. Init => IInv
  BY InitIInv
<1>2. IInv /\ [Next]_vars => IInv'
  BY NextKeeps
<1> QED
  BY <1>1, <1>2, PTL DEF Spec

------------------------------------------------------------------------------
\* Every variable stays in its type, in every reachable state.
THEOREM TypeCorrect == Spec => []TypeOK
<1>1. IInv => TypeOK
  BY DEF IInv
<1> QED
  BY <1>1, Invariance, PTL

\* An authorization is settled for one call only (x402.ts:136-142): replays
\* and re-encodings, on any process, never send a second settle request while
\* an earlier one has moved the money or still may.
THEOREM SettledOnce == Spec => []OneSettlementPerAuthorization
<1>1. IInv => OneSettlementPerAuthorization
  <2> SUFFICES ASSUME IInv, NEW c \in Calls, NEW d \in Calls,
                      MayHavePaid(c), MayHavePaid(d), authOf(c) = authOf(d)
               PROVE  c = d
    BY DEF OneSettlementPerAuthorization
  <2>1. Holds(c) /\ Holds(d)
    BY NoneAssumption DEF IInv, MayHavePaid, RequestHolds, PaidHolds
  <2> QED
    BY <2>1 DEF IInv, HolderUnique
<1> QED
  BY <1>1, Invariance, PTL

\* "It was not charged" is never wrong, and never becomes wrong later
\* (x402.ts:204-211, registry.ts:185-189).
THEOREM NotChargedStaysTrue == Spec => []NotChargedIsTrue
<1>1. IInv => NotChargedIsTrue
  <2> SUFFICES ASSUME IInv, NEW c \in Calls, pc[c] \in {"refused", "notCharged"}
               PROVE  ~MayHavePaid(c)
    BY DEF NotChargedIsTrue
  <2>1. ~Holds(c)
    BY DEF IInv, ChargeFollowsCall, Holds
  <2> QED
    BY <2>1, NoneAssumption DEF IInv, MayHavePaid, RequestHolds, PaidHolds
<1> QED
  BY <1>1, Invariance, PTL

\* No error path strands a payer's authorization (registry.ts:223-225).
THEOREM ReservationsReturned == Spec => []NoReservationLeak
<1>1. IInv => NoReservationLeak
  BY DEF IInv
<1> QED
  BY <1>1, Invariance, PTL

------------------------------------------------------------------------------
(* pendingByPayer is exact: every step changes a count and the set of live *)
(* charges it counts together.                                             *)

LEMMA InFlightFinite ==
  ASSUME NEW s, NEW p
  PROVE  IsFiniteSet(InFlight(s, p))
BY FS_Subset, CallsAssumption DEF InFlight

\* Verifying adds the call to its payer's charges, and one to the count.
LEMMA VerifyCounts ==
  ASSUME IInv, PendingIsExact, NEW c \in Calls, VerifyValid(c)
  PROVE  PendingIsExact'
<1> USE DEF IInv
<1> DEFINE s0 == ServerOf[c]
<1>0. PICK p0 \in Payers : p0 = payerOf(c)
  BY HeadersAssumption DEF VerifyValid, consumePaymentId, HeaderPresent, ChargeFollowsCall, payerOf, authOf
<1>1. s0 \in Servers /\ charge[c] = "none"
  BY CallsAssumption DEF VerifyValid, consumePaymentId, ChargeFollowsCall
<1>2. CASE deriveId(header[c]) \in consumed
  <2>1. pending' = pending
    BY <1>2 DEF VerifyValid, consumePaymentId
  <2>2. \A s \in Servers, p \in Payers : InFlight(s, p)' = InFlight(s, p)
    BY <1>0, <1>1, <1>2 DEF VerifyValid, consumePaymentId, InFlight, payerOf, authOf, TypeOK, Running
  <2> QED
    BY <2>1, <2>2 DEF PendingIsExact
<1>3. CASE deriveId(header[c]) \notin consumed
  <2>1. InFlight(s0, p0)' = InFlight(s0, p0) \cup {c} /\ c \notin InFlight(s0, p0)
    BY <1>0, <1>1, <1>3 DEF VerifyValid, consumePaymentId, InFlight, payerOf, authOf, TypeOK, Running
  <2>2. \A s \in Servers, p \in Payers :
          s # s0 \/ p # p0 => InFlight(s, p)' = InFlight(s, p)
    BY <1>0, <1>1, <1>3 DEF VerifyValid, consumePaymentId, InFlight, payerOf, authOf, TypeOK, Running
  <2>3. Cardinality(InFlight(s0, p0)') = Cardinality(InFlight(s0, p0)) + 1
    BY <2>1, FS_AddElement, InFlightFinite
  <2>4. pending'[s0][p0] = pending[s0][p0] + 1
    BY <1>0, <1>1, <1>3 DEF VerifyValid, consumePaymentId, TypeOK
  <2>5. \A s \in Servers, p \in Payers :
          s # s0 \/ p # p0 => pending'[s][p] = pending[s][p]
    BY <1>0, <1>1, <1>3 DEF VerifyValid, consumePaymentId, TypeOK
  <2> SUFFICES ASSUME NEW s \in Servers, NEW p \in Payers
               PROVE  pending'[s][p] = Cardinality(InFlight(s, p)')
    BY DEF PendingIsExact
  <2>a. CASE s = s0 /\ p = p0
    BY <2>a, <1>0, <1>1, <2>3, <2>4 DEF PendingIsExact
  <2>b. CASE s # s0 \/ p # p0
    BY <2>b, <2>2, <2>5 DEF PendingIsExact
  <2> QED
    BY <2>a, <2>b
<1> QED
  BY <1>2, <1>3

\* Ending a reserved charge removes the call, and one from the count.
LEMMA FinishCounts ==
  ASSUME IInv, PendingIsExact, NEW c \in Calls, NEW next, NEW answer \in Answers,
         next # "reserved", pc[c] \in {"running", "settling"}, finish(c, next),
         pc' = [pc EXCEPT ![c] = answer], UNCHANGED header
  PROVE  PendingIsExact'
<1> USE DEF IInv
<1> DEFINE s0 == ServerOf[c]
<1>0. PICK p0 \in Payers : p0 = payerOf(c)
  BY HeadersAssumption DEF HeaderPresent, ChargeFollowsCall, payerOf, authOf
<1>1. s0 \in Servers /\ charge[c] = "reserved"
  BY CallsAssumption DEF ChargeFollowsCall
<1>2. InFlight(s0, p0)' = InFlight(s0, p0) \ {c} /\ c \in InFlight(s0, p0)
  BY <1>0, <1>1 DEF finish, InFlight, payerOf, authOf, TypeOK, Running, Answers
<1>3. \A s \in Servers, p \in Payers :
        s # s0 \/ p # p0 => InFlight(s, p)' = InFlight(s, p)
  BY <1>0, <1>1 DEF finish, InFlight, payerOf, authOf, TypeOK, Running, Answers
<1>4. /\ Cardinality(InFlight(s0, p0)') = Cardinality(InFlight(s0, p0)) - 1
      /\ Cardinality(InFlight(s0, p0)) \in Nat \ {0}
  BY <1>2, FS_RemoveElement, FS_EmptySet, FS_CardinalityType, InFlightFinite
<1>5. pending'[s0][p0] = pending[s0][p0] - 1
  <2>1. pending[s0][p0] \in Nat \ {0}
    BY <1>0, <1>1, <1>4 DEF PendingIsExact
  <2> QED
    BY <1>0, <1>1, <2>1 DEF finish, TypeOK
<1>6. \A s \in Servers, p \in Payers :
        s # s0 \/ p # p0 => pending'[s][p] = pending[s][p]
  BY <1>0, <1>1 DEF finish, TypeOK
<1> QED
  <2> SUFFICES ASSUME NEW s \in Servers, NEW p \in Payers
               PROVE  pending'[s][p] = Cardinality(InFlight(s, p)')
    BY DEF PendingIsExact
  <2>a. CASE s = s0 /\ p = p0
    BY <2>a, <1>0, <1>1, <1>4, <1>5 DEF PendingIsExact
  <2>b. CASE s # s0 \/ p # p0
    BY <2>b, <1>3, <1>6 DEF PendingIsExact
  <2> QED
    BY <2>a, <2>b

LEMMA ReleaseCounts ==
  ASSUME IInv, PendingIsExact, NEW c \in Calls, NEW answer \in Answers,
         pc[c] \in {"running", "settling"}, failCall(c, answer), UNCHANGED header
  PROVE  PendingIsExact'
<1>1. charge[c] = "reserved"
  BY DEF IInv, ChargeFollowsCall
<1>2. finish(c, "released") /\ pc' = [pc EXCEPT ![c] = answer]
  BY <1>1 DEF failCall, release, releasePaymentId
<1> QED
  BY <1>2, FinishCounts

\* A restart empties the counts of its process, whose calls are gone.
LEMMA RestartCounts ==
  ASSUME IInv, PendingIsExact, NEW s0 \in Servers, Restart(s0)
  PROVE  PendingIsExact'
<1> USE DEF IInv
<1>1. \A p \in Payers : pending'[s0][p] = 0 /\ InFlight(s0, p)' = {}
  BY DEF Restart, TypeOK, InFlight, Running
<1>2. \A s \in Servers \ {s0}, p \in Payers :
        pending'[s][p] = pending[s][p] /\ InFlight(s, p)' = InFlight(s, p)
  BY DEF Restart, TypeOK, InFlight, payerOf, authOf
<1> QED
  BY <1>1, <1>2, FS_EmptySet DEF PendingIsExact

\* Every other step leaves both the counts and the live charges alone.
LEMMA OtherStepsCountNothing ==
  ASSUME IInv, PendingIsExact, NEW c \in Calls,
         \/ RefuseEarly(c) \/ VerifyFails(c) \/ \E h \in Headers : Present(c, h)
         \/ RunDelivers(c) \/ Transfer(c) \/ DropRequest(c)
  PROVE  PendingIsExact'
<1> USE DEF IInv
<1>1. pending' = pending
  BY DEF RefuseEarly, VerifyFails, Present, RunDelivers, Transfer, DropRequest
<1>2. \A s \in Servers, p \in Payers : InFlight(s, p)' = InFlight(s, p)
  <2>1. CASE RefuseEarly(c) \/ VerifyFails(c) \/ \E h \in Headers : Present(c, h)
    BY <2>1 DEF RefuseEarly, VerifyFails, Present, InFlight, payerOf, authOf,
       TypeOK, ChargeFollowsCall, Running
  <2>2. CASE RunDelivers(c) \/ Transfer(c) \/ DropRequest(c)
    BY <2>2 DEF RunDelivers, Transfer, DropRequest, InFlight, payerOf, authOf,
       TypeOK, Running
  <2> QED
    BY <2>1, <2>2
<1> QED
  BY <1>1, <1>2 DEF PendingIsExact

\* pendingByPayer is the number of verified, unfinished payments of a payer
\* on a process (x402.ts:143, 170-176): no path leaks or loses a count.
THEOREM PendingExact == Spec => []PendingIsExact
<1>1. Init => PendingIsExact
  <2> SUFFICES ASSUME Init, NEW s \in Servers, NEW p \in Payers
               PROVE  pending[s][p] = Cardinality(InFlight(s, p))
    BY DEF PendingIsExact
  <2>1. InFlight(s, p) = {}
    BY DEF Init, InFlight, Running
  <2> QED
    BY <2>1, FS_EmptySet DEF Init
<1>2. IInv /\ PendingIsExact /\ [Next]_vars => PendingIsExact'
  <2> SUFFICES ASSUME IInv, PendingIsExact, [Next]_vars PROVE PendingIsExact'
    OBVIOUS
  <2>1. CASE UNCHANGED vars
    BY <2>1 DEF vars, PendingIsExact, InFlight, payerOf, authOf
  <2>2. CASE \E c \in Calls : VerifyValid(c)
    BY <2>2, VerifyCounts
  <2>3. CASE \E c \in Calls : RunFails(c) \/ SettleRefused(c)
    BY <2>3, ReleaseCounts DEF RunFails, SettleRefused, Answers
  <2>4. CASE \E c \in Calls : SettleConfirmed(c) \/ SettleUnknown(c)
    BY <2>4, FinishCounts DEF SettleConfirmed, SettleUnknown, Answers
  <2>5. CASE \E s \in Servers : Restart(s)
    BY <2>5, RestartCounts
  <2>6. CASE \E c \in Calls :
               \/ RefuseEarly(c) \/ VerifyFails(c) \/ \E h \in Headers : Present(c, h)
               \/ RunDelivers(c) \/ Transfer(c) \/ DropRequest(c)
    BY <2>6, OtherStepsCountNothing
  <2> QED
    BY <2>1, <2>2, <2>3, <2>4, <2>5, <2>6 DEF Next
<1> QED
  BY <1>1, <1>2, Invariance, PTL DEF Spec

------------------------------------------------------------------------------
(* Refinement of PaymentContract. *)

\* Steps that change neither what was offered and paid for nor an answer.
LEMMA SilentSteps ==
  ASSUME IInv, NEW c \in Calls,
         RunDelivers(c) \/ DropRequest(c) \/ (VerifyValid(c) /\ pc'[c] = "running")
  PROVE  UNCHANGED Contract!vars
<1> USE DEF IInv, TypeOK
<1>1. UNCHANGED <<header, paidFor>>
  BY DEF RunDelivers, DropRequest, VerifyValid, consumePaymentId
<1>2. \A d \in Calls : toldTo(d)' = toldTo(d)
  BY DEF RunDelivers, DropRequest, VerifyValid, consumePaymentId, toldTo
<1> QED
  BY <1>1, <1>2 DEF Contract!vars, authOf

\* Answers that promise the call was not charged.
LEMMA RefusingSteps ==
  ASSUME IInv, IInv', NEW c \in Calls, pc[c] \in {"idle"} \cup Running,
         pc' = [pc EXCEPT ![c] = "refused"] \/ pc' = [pc EXCEPT ![c] = "notCharged"],
         UNCHANGED <<header, paidFor>>
  PROVE  Contract!Refuse(c)
<1>1. toldTo(c) = "nothing" /\ toldTo(c)' = "not charged"
  BY DEF toldTo, Running, IInv, TypeOK
<1>2. \A d \in Calls \ {c} : toldTo(d)' = toldTo(d)
  BY DEF toldTo, IInv, TypeOK
<1>3. \A a \in Auths : paidFor[a] # c
  <2>1. ~Holds(c)'
    BY DEF IInv, TypeOK, ChargeFollowsCall, Holds
  <2> QED
    BY <2>1, NoneAssumption DEF IInv, PaidHolds
<1> QED
  BY <1>1, <1>2, <1>3 DEF Contract!Refuse, authOf

\* Presenting a header offers its authorization; the payer at the limit is
\* refused in the same step.
LEMMA PresentRefines ==
  ASSUME IInv, NEW c \in Calls, NEW h \in Headers, Present(c, h)
  PROVE  (\E a \in Auths : Contract!Offer(c, a)) \/ Contract!Refuse(c)
<1> USE NoneAssumption DEF IInv, TypeOK
<1>1. AuthOf[h] \in Auths /\ AuthOf[h] # None /\ h # None
  BY HeadersAssumption
<1>2. toldTo(c) = "nothing" /\ header[c] = None /\ header' = [header EXCEPT ![c] = h]
  BY DEF Present, toldTo, HeaderPresent
<1>3. \A d \in Calls \ {c} : toldTo(d)' = toldTo(d)
  BY DEF Present, toldTo
<1>4. \A a \in Auths : paidFor[a] # c
  BY DEF Present, ChargeFollowsCall, Holds, PaidHolds
<1>5. paidFor' = paidFor /\ pc'[c] \in {"verifying", "refused"}
  BY DEF Present
<1>6. CASE pc'[c] = "verifying"
  <2>1. toldTo(c)' = "nothing"
    BY <1>6 DEF toldTo
  <2> QED
    BY <1>1, <1>2, <1>3, <1>5, <2>1 DEF Contract!Offer, authOf
<1>7. CASE pc'[c] = "refused"
  <2>1. toldTo(c)' = "not charged"
    BY <1>7 DEF toldTo
  <2> QED
    BY <1>1, <1>2, <1>3, <1>4, <1>5, <2>1 DEF Contract!Refuse, authOf
<1> QED
  BY <1>5, <1>6, <1>7

LEMMA TransferRefines ==
  ASSUME IInv, NEW c \in Calls, Transfer(c)
  PROVE  Contract!Charge(c)
<1> USE NoneAssumption DEF IInv, TypeOK
<1>1. Holds(c) /\ pc[c] \in Sent /\ pc[c] # "served"
  BY DEF Transfer, RequestHolds, ServedPaid
<1>2. header[c] \in Headers /\ authOf(c) \in Auths
  BY <1>1, HeadersAssumption DEF Holds, HeaderPresent, authOf
<1>3. toldTo(c) \in {"nothing", "unconfirmed", "lost"}
  BY <1>1 DEF toldTo, Sent
<1>4. \A d \in Calls : toldTo(d)' = toldTo(d)
  BY DEF Transfer, toldTo
<1> QED
  BY <1>2, <1>3, <1>4 DEF Transfer, Contract!Charge, authOf

LEMMA AnswerRefines ==
  ASSUME IInv, NEW c \in Calls, SettleConfirmed(c) \/ SettleUnknown(c)
  PROVE  Contract!Serve(c) \/ Contract!Unconfirmed(c)
<1> USE NoneAssumption DEF IInv, TypeOK
<1>1. header[c] \in Headers /\ authOf(c) \in Auths /\ toldTo(c) = "nothing"
  BY HeadersAssumption
     DEF SettleConfirmed, SettleUnknown, ChargeFollowsCall, HeaderPresent, authOf, toldTo
<1>2. \A d \in Calls \ {c} : toldTo(d)' = toldTo(d)
  BY DEF SettleConfirmed, SettleUnknown, toldTo
<1>3. CASE SettleConfirmed(c)
  <2>1. toldTo(c)' = "result"
    BY <1>3 DEF SettleConfirmed, toldTo
  <2> QED
    BY <1>1, <1>2, <1>3, <2>1 DEF SettleConfirmed, Contract!Serve, authOf
<1>4. CASE SettleUnknown(c)
  <2>1. toldTo(c)' = "unconfirmed"
    BY <1>4 DEF SettleUnknown, toldTo
  <2> QED
    BY <1>1, <1>2, <1>4, <2>1 DEF SettleUnknown, Contract!Unconfirmed, authOf
<1> QED
  BY <1>3, <1>4

LEMMA RestartRefines ==
  ASSUME IInv, NEW s \in Servers, Restart(s)
  PROVE  \E C \in SUBSET Calls : Contract!Lose(C)
<1> DEFINE C == {c \in Calls : ServerOf[c] = s /\ pc[c] \in Running}
<1>1. \A c \in C : toldTo(c) = "nothing" /\ toldTo(c)' = "lost"
  BY DEF Restart, toldTo, Running, IInv, TypeOK
<1>2. \A c \in Calls \ C : toldTo(c)' = toldTo(c)
  BY DEF Restart, toldTo, IInv, TypeOK
<1>3. UNCHANGED <<header, paidFor>>
  BY DEF Restart
<1>4. Contract!Lose(C)
  BY <1>1, <1>2, <1>3 DEF Contract!Lose, authOf
<1> QED
  BY <1>4

LEMMA StepRefines == IInv /\ IInv' /\ [Next]_vars => [Contract!Next]_Contract!vars
<1> SUFFICES ASSUME IInv, IInv', [Next]_vars PROVE Contract!Next \/ UNCHANGED Contract!vars
  OBVIOUS
<1>1. CASE UNCHANGED vars
  BY <1>1 DEF vars, Contract!vars, authOf, toldTo
<1>2. ASSUME NEW c \in Calls, NEW h \in Headers, Present(c, h)
      PROVE  Contract!Next
  BY <1>2, PresentRefines DEF Contract!Next
<1>3. ASSUME NEW c \in Calls, \/ RefuseEarly(c) \/ VerifyFails(c) \/ RunFails(c)
                              \/ SettleRefused(c)
      PROVE  Contract!Next
  <2>1. Contract!Refuse(c)
    BY <1>3, RefusingSteps
       DEF RefuseEarly, VerifyFails, RunFails, SettleRefused, failCall, Running
  <2> QED
    BY <2>1 DEF Contract!Next
<1>4. ASSUME NEW c \in Calls, VerifyValid(c)
      PROVE  Contract!Next \/ UNCHANGED Contract!vars
  <2>1. CASE deriveId(header[c]) \in consumed
    <3>1. Contract!Refuse(c)
      BY <1>4, <2>1, RefusingSteps DEF VerifyValid, consumePaymentId, Running
    <3> QED
      BY <3>1 DEF Contract!Next
  <2>2. CASE deriveId(header[c]) \notin consumed
    BY <1>4, <2>2, SilentSteps DEF VerifyValid, consumePaymentId, IInv, TypeOK
  <2> QED
    BY <2>1, <2>2
<1>5. ASSUME NEW c \in Calls, RunDelivers(c) \/ DropRequest(c)
      PROVE  UNCHANGED Contract!vars
  BY <1>5, SilentSteps
<1>6. ASSUME NEW c \in Calls, Transfer(c) \/ SettleConfirmed(c) \/ SettleUnknown(c)
      PROVE  Contract!Next
  BY <1>6, TransferRefines, AnswerRefines DEF Contract!Next
<1>7. ASSUME NEW s \in Servers, Restart(s)
      PROVE  Contract!Next
  BY <1>7, RestartRefines DEF Contract!Next
<1> QED
  BY <1>1, <1>2, <1>3, <1>4, <1>5, <1>6, <1>7 DEF Next

\* The server keeps the promise of PaymentContract: it serves only against
\* this call's money, charges an authorization once, and says "not charged"
\* only when it is true (x402.ts:161-217, registry.ts:167-228).
THEOREM Refinement == Spec => ContractKept
<1>1. Init => Contract!Init
  BY DEF Init, Contract!Init, toldTo
<1>2. IInv /\ IInv' /\ [Next]_vars => [Contract!Next]_Contract!vars
  BY StepRefines
<1> QED
  BY <1>1, <1>2, Invariance, PTL DEF Spec, ContractKept, Contract!Spec

==============================================================================
