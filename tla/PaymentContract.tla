--------------------------- MODULE PaymentContract ---------------------------
(***************************************************************************)
(* What a caller who pays per call over x402 is promised, with no server,  *)
(* facilitator or database in sight: which authorization the call offered, *)
(* which call (if any) each authorization's money went to, and what the    *)
(* caller was told.  X402Payments implements this specification.           *)
(***************************************************************************)
CONSTANTS Calls, Auths, None

VARIABLES
    offered,    \* the authorization a call offered, or None
    paidFor,    \* the call an authorization's money was taken for, or None
    told        \* what the caller of a call was told

vars == <<offered, paidFor, told>>

Init ==
    /\ offered = [c \in Calls |-> None]
    /\ paidFor = [a \in Auths |-> None]
    /\ told = [c \in Calls |-> "nothing"]

Offer(c, a) ==
    /\ told[c] = "nothing" /\ offered[c] = None
    /\ offered' = [offered EXCEPT ![c] = a]
    /\ UNCHANGED <<paidFor, told>>

\* Money moves at most once per authorization, for a call that offered it and
\* was neither told "not charged" nor served for nothing.
Charge(c) ==
    /\ offered[c] # None
    /\ paidFor[offered[c]] = None
    /\ told[c] \in {"nothing", "unconfirmed", "lost"}
    /\ paidFor' = [paidFor EXCEPT ![offered[c]] = c]
    /\ UNCHANGED <<offered, told>>

\* A result is handed out only against the money of this very call.
Serve(c) ==
    /\ told[c] = "nothing" /\ offered[c] # None
    /\ paidFor[offered[c]] = c
    /\ told' = [told EXCEPT ![c] = "result"]
    /\ UNCHANGED <<offered, paidFor>>

\* "Not charged" is only said when it is true.  A refusal may be the answer to
\* the very request that offered the authorization.
Refuse(c) ==
    /\ told[c] = "nothing"
    /\ \A a \in Auths : paidFor[a] # c
    /\ told' = [told EXCEPT ![c] = "not charged"]
    /\ \/ UNCHANGED offered
       \/ /\ offered[c] = None
          /\ \E a \in Auths : offered' = [offered EXCEPT ![c] = a]
    /\ UNCHANGED paidFor

\* The outcome of a settlement may be unknown, and a crash answers nobody.
Unconfirmed(c) ==
    /\ told[c] = "nothing"
    /\ told' = [told EXCEPT ![c] = "unconfirmed"]
    /\ UNCHANGED <<offered, paidFor>>

Lose(C) ==
    /\ \A c \in C : told[c] = "nothing"
    /\ told' = [c \in Calls |-> IF c \in C THEN "lost" ELSE told[c]]
    /\ UNCHANGED <<offered, paidFor>>

Next ==
    \/ \E c \in Calls :
          \/ \E a \in Auths : Offer(c, a)
          \/ Charge(c) \/ Serve(c) \/ Refuse(c) \/ Unconfirmed(c)
    \/ \E C \in SUBSET Calls : Lose(C)

Spec == Init /\ [][Next]_vars
==============================================================================
