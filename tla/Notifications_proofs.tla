------------------------ MODULE Notifications_proofs ------------------------
(***************************************************************************)
(* A link code links once, and the requests that left for a receiver keep  *)
(* its cap up to the time a lookup takes, for any number of keys, chats,   *)
(* codes, updates and crashes, and any cap, hour and lookup time.          *)
(*                                                                         *)
(* CodeLinksOnce alone is not inductive: a code that linked must also have *)
(* left the table, and must not be issued again.  CapKept says nothing of  *)
(* the books a sender keeps: Booked relates them to the deliveries counted *)
(* so far, which are what they hold and, before it, what was an hour old   *)
(* when the last was counted; Left relates a request to its counting, and  *)
(* Waiting says how old a delivery whose lookup runs may be.               *)
(***************************************************************************)
EXTENDS Notifications, FiniteSetTheorems, WellFoundedInduction, TLAPS

\* The part of TypeOK the codes rest on.
CodesTyped ==
    /\ codes \in [Codes -> [subject : Subjects, expires : Nat] \cup {None}]
    /\ linked \in [Codes -> 0 .. 2]
    /\ clock \in 0 .. MaxTime

\* A code in the table has not linked yet, and none linked twice.
CodeSpent ==
    /\ \A c \in Codes : codes[c] # None => linked[c] = 0
    /\ CodeLinksOnce

IInv == CodesTyped /\ CodeSpent

------------------------------------------------------------------------------
LEMMA InitIInv == Init => IInv
BY NotificationsAssumption DEF Init, IInv, CodesTyped, CodeSpent, CodeLinksOnce

\* A new code has never linked; other codes stay or expire.
LEMMA CreateKeeps ==
  ASSUME IInv, NEW s \in Subjects, NEW c \in Codes, createLinkCode(s, c)
  PROVE  IInv'
<1> USE DEF IInv, CodesTyped
<1>1. clock + Ttl \in Nat
  BY NotificationsAssumption
<1>2. CodesTyped'
  BY <1>1 DEF createLinkCode, ghosts
<1>3. CodeSpent'
  BY DEF createLinkCode, CodeSpent, CodeLinksOnce, ghosts
<1> QED
  BY <1>2, <1>3

\* Redeeming takes the code out of the table in the step that links it.
LEMMA RedeemKeeps ==
  ASSUME IInv, NEW c, NEW chat, redeem(c, chat), clock' = clock
  PROVE  IInv'
<1> USE DEF IInv, CodesTyped
<1>1. CodesTyped'
  <2>1. codes' \in [Codes -> [subject : Subjects, expires : Nat] \cup {None}]
    BY DEF redeem
  <2>2. linked' \in [Codes -> 0 .. 2]
    <3>1. CASE c \notin Codes
      BY <3>1 DEF redeem, linkTo
    <3>2. CASE c \in Codes /\ linked[c] < 2
      <4>1. linked[c] + 1 \in 0 .. 2
        BY <3>2
      <4> QED
        BY <3>2, <4>1 DEF redeem, linkTo
    <3>3. CASE c \in Codes /\ ~(linked[c] < 2)
      BY <3>3 DEF redeem, linkTo
    <3> QED
      BY <3>1, <3>2, <3>3
  <2> QED
    BY <2>1, <2>2
<1>2. CodeSpent'
  <2>1. CASE c \in Codes
    BY <2>1 DEF redeem, linkTo, valid, CodeSpent, CodeLinksOnce
  <2>2. CASE c \notin Codes
    BY <2>2 DEF redeem, linkTo, CodeSpent, CodeLinksOnce
  <2> QED
    BY <2>1, <2>2
<1> QED
  BY <1>1, <1>2

\* The other steps touch neither the codes nor what they linked.
LEMMA OthersKeep ==
  ASSUME IInv, UNCHANGED <<codes, linked, clock>>
  PROVE  IInv'
BY DEF IInv, CodesTyped, CodeSpent, CodeLinksOnce

LEMMA NextKeeps == IInv /\ [Next]_vars => IInv'
<1> SUFFICES ASSUME IInv, [Next]_vars PROVE IInv'
  OBVIOUS
<1>1. CASE UNCHANGED vars
  BY <1>1, OthersKeep DEF vars, tables, ghosts
<1>2. CASE Linking
  <2>1. CASE \E s \in Subjects, c \in Codes : createLinkCode(s, c)
    BY <2>1, CreateKeeps
  <2>2. CASE \E s \in Subjects : unlink(s)
    BY <2>2, OthersKeep DEF unlink, ghosts
  <2>3. CASE \E chat \in Chats, text \in Text : ChatSends(chat, text)
    BY <2>3, OthersKeep DEF ChatSends, tables, ghosts
  <2> QED
    BY <1>2, <2>1, <2>2, <2>3 DEF Linking
<1>3. CASE handleUpdate
  <2>1. CASE updates[bot.offset].text = Stop
    BY <1>3, <2>1, OthersKeep DEF handleUpdate
  <2>2. CASE updates[bot.offset].text # Stop
    BY <1>3, <2>2, RedeemKeeps DEF handleUpdate
  <2> QED
    BY <2>1, <2>2
<1>4. CASE Poll \/ HandleFails \/ Replied
  BY <1>4, OthersKeep DEF Poll, HandleFails, Replied, tables, ghosts
<1>5. CASE Webhook
  BY <1>5, OthersKeep DEF Webhook, BeginSet, RefuseSet, FinishSet, deleteWebhook,
     Posted, Undelivered, tables, ghosts
<1>6. CASE (\E s \in Subjects : Notify(s)) \/ Crash
  BY <1>6, OthersKeep DEF Notify, Crash, tables, ghosts
<1>7. CASE Tick
  BY <1>7, NotificationsAssumption
     DEF Tick, tables, ghosts, IInv, CodesTyped, CodeSpent, CodeLinksOnce
<1> QED
  BY <1>1, <1>2, <1>3, <1>4, <1>5, <1>6, <1>7 DEF Next, Loop

\* A code links its key to one chat, once, in every reachable state: whoever
\* sends it, and however often Telegram delivers it (store.ts, redeem).
THEOREM LinkedOnce == Spec => []CodeLinksOnce
<1>1. Init => IInv
  BY InitIInv
<1>2. IInv /\ [Next]_vars => IInv'
  BY NextKeeps
<1>3. IInv => CodeLinksOnce
  BY DEF IInv, CodeSpent
<1> QED
  BY <1>1, <1>2, <1>3, PTL DEF Spec

------------------------------------------------------------------------------
\* A set of numbers that is not empty has a least one.
LEMMA Least ==
  ASSUME NEW T \in SUBSET Nat, T # {}
  PROVE  \E n \in T : \A m \in T : n <= m
<1> DEFINE R == {ss \in Nat \X Nat : ss[1] < ss[2]}
<1>1. IsWellFoundedOn(R, Nat)
  BY NatLessThanWellFounded DEF OpToRel
<1>2. PICK n \in T : \A m \in T : <<m, n>> \notin R
  <2> HIDE DEF R
  <2> QED
    BY <1>1, WFMin
<1>3. ASSUME NEW m \in T, m < n PROVE FALSE
  <2>1. <<m, n>> \in Nat \X Nat /\ <<m, n>>[1] = m /\ <<m, n>>[2] = n
    OBVIOUS
  <2> QED
    BY <1>2, <1>3, <2>1
<1> QED
  BY <1>3

\* A set of numbers with every positive number below one of its own is the
\* first numbers, as many as it has.
LEMMA FirstNumbers ==
  ASSUME NEW n \in Nat, NEW D \in SUBSET (1 .. n),
         \A i \in D, j \in 1 .. n : j <= i => j \in D
  PROVE  Cardinality(D) \in Nat /\ Cardinality(D) <= n /\ D = 1 .. Cardinality(D)
<1> DEFINE Over == {m \in Nat : \A i \in D : i <= m}
<1>1. PICK m \in Over : \A k \in Over : m <= k
  <2>1. n \in Over /\ Over \in SUBSET Nat
    OBVIOUS
  <2> HIDE DEF Over
  <2> QED
    BY <2>1, Least
<1>2. m = 0 \/ m \in D
  <2> SUFFICES ASSUME m # 0, m \notin D PROVE m - 1 \in Over
    BY <1>1
  <2>1. m - 1 \in Nat
    BY <1>1
  <2> QED
    BY <1>1, <2>1
<1>3. m <= n /\ D = 1 .. m
  <2>1. D \subseteq 1 .. m
    BY <1>1
  <2>2. m <= n
    BY <1>2
  <2>3. 1 .. m \subseteq D
    BY <1>2, <2>2
  <2> QED
    BY <2>1, <2>2, <2>3
<1>4. Cardinality(1 .. m) = m
  BY <1>1, FS_Interval
<1> QED
  BY <1>1, <1>3, <1>4

\* More than k numbers span at least k.
LEMMA Spread ==
  ASSUME NEW n \in Nat, NEW D \in SUBSET (1 .. n), NEW k \in Nat, Cardinality(D) > k
  PROVE  \E i, j \in D : j - i >= k
<1>0. IsFiniteSet(1 .. n)
  BY FS_Interval
<1>1. IsFiniteSet(D)
  BY <1>0, FS_Subset
<1>2. D # {} /\ Cardinality(D) \in Nat
  BY <1>1, FS_EmptySet, FS_CardinalityType
<1>3. PICK i \in D : \A m \in D : i <= m
  <2>1. D \in SUBSET Nat
    OBVIOUS
  <2> QED
    BY <1>2, <2>1, Least
<1> DEFINE Over == {m \in Nat : \A d \in D : d <= m}
<1>4. PICK j \in Over : \A m \in Over : j <= m
  <2>1. n \in Over /\ Over \in SUBSET Nat
    OBVIOUS
  <2> HIDE DEF Over
  <2> QED
    BY <2>1, Least
<1>5. j \in D
  <2> SUFFICES ASSUME j \notin D PROVE FALSE
    OBVIOUS
  <2>1. i < j /\ i \in Nat /\ j \in Nat
    BY <1>3, <1>4
  <2>2. j - 1 \in Over
    BY <1>4, <2>1
  <2> QED
    BY <1>4, <2>1, <2>2
<1>6. D \subseteq i .. j /\ i \in Int /\ j \in Int /\ i <= j
  BY <1>3, <1>4, <1>5
<1>7. Cardinality(D) <= j - i + 1
  <2>1. IsFiniteSet(i .. j) /\ Cardinality(i .. j) = j - i + 1
    BY <1>6, FS_Interval
  <2> QED
    BY <1>6, <2>1, FS_Subset
<1> QED
  BY <1>2, <1>3, <1>5, <1>6, <1>7

------------------------------------------------------------------------------
\* The times at which the deliveries of a receiver were counted.
counts(d) == [i \in 1 .. Len(d) |-> d[i].counted]

\* What was counted until t, p, and what of it is in the books, b: the last of
\* it, at most Cap; what was struck is an hour before the last, and so is each
\* delivery before the one that comes Cap later.
Booked(p, b, t) ==
    /\ p \in Seq(Nat) /\ b \in Seq(Nat)
    /\ Len(b) <= Cap /\ Len(b) <= Len(p)
    /\ \A i \in 1 .. Len(p) : p[i] <= t
    /\ \A i, j \in 1 .. Len(p) : i < j => p[i] <= p[j]
    /\ \A i \in 1 .. Len(b) : b[i] = p[Len(p) - Len(b) + i]
    /\ \A i \in 1 .. Len(p) - Len(b) : p[Len(p)] - p[i] >= Window
    /\ \A i, j \in 1 .. Len(p) : j - i >= Cap => p[j] - p[i] >= Window

\* A request left no earlier than it was counted, and not much later.
Left(d, w) ==
    /\ d \in Seq(Delivery)
    /\ \A i \in 1 .. Len(d) :
           d[i].left = None \/ (d[i].counted <= d[i].left /\ d[i].left <= d[i].counted + w)

\* The deliveries whose lookup runs.
Waiting(d, N, t) ==
    \A n \in N : n \in 1 .. Len(d) /\ t - d[n].counted <= MaxLookup

Books ==
    /\ clock \in Nat
    /\ posts = [r \in Receivers |-> posts[r]]
    /\ sentAt = [r \in Receivers |-> sentAt[r]]
    /\ posting = [s \in Subjects |-> posting[s]]
    /\ \A r \in Receivers : Booked(counts(posts[r]), sentAt[r], clock) /\ Left(posts[r], late(r))
    /\ \A s \in Subjects : Waiting(posts[s], posting[s], clock)

\* What is struck is the oldest, and all that is an hour old.
LEMMA Struck ==
  ASSUME NEW b \in Seq(Nat), clock \in Nat, Window \in Nat,
         \A i, j \in 1 .. Len(b) : i < j => b[i] <= b[j]
  PROVE  \E c \in 0 .. Len(b) :
            /\ \A i \in 1 .. c : clock - b[i] >= Window
            /\ recent(b) \in Seq(Nat) /\ Len(recent(b)) = Len(b) - c
            /\ \A i \in 1 .. Len(b) - c : recent(b)[i] = b[c + i]
<1> DEFINE D == {i \in 1 .. Len(b) : clock - b[i] >= Window}
           c == Cardinality(D)
<1>1. Len(b) \in Nat /\ \A i \in 1 .. Len(b) : b[i] \in Nat
  OBVIOUS
<1>2. \A i \in D, j \in 1 .. Len(b) : j <= i => j \in D
  <2> SUFFICES ASSUME NEW i \in D, NEW j \in 1 .. Len(b), j < i PROVE j \in D
    BY <1>1
  <2>1. b[j] <= b[i] /\ b[i] \in Nat /\ b[j] \in Nat
    BY <1>1
  <2> QED
    BY <2>1
<1>3. c \in Nat /\ c <= Len(b) /\ D = 1 .. c
  <2>1. D \in SUBSET (1 .. Len(b))
    OBVIOUS
  <2> HIDE DEF D
  <2> QED
    BY <1>1, <1>2, <2>1, FirstNumbers
<1>4. recent(b) = SubSeq(b, c + 1, Len(b))
  <2>1. DOMAIN b = 1 .. Len(b)
    OBVIOUS
  <2>2. D = {i \in DOMAIN b : clock - b[i] >= Window}
    BY <2>1
  <2> QED
    BY <2>2 DEF recent, since
<1>5. \A i \in 1 .. c : clock - b[i] >= Window
  BY <1>3
<1> HIDE DEF c, D
<1>6. recent(b) \in Seq(Nat) /\ Len(recent(b)) = Len(b) - c
      /\ \A i \in 1 .. Len(b) - c : recent(b)[i] = b[c + i]
  BY <1>1, <1>3, <1>4
<1>7. c \in 0 .. Len(b)
  BY <1>1, <1>3
<1> QED
  BY <1>5, <1>6, <1>7

\* A request is counted.
LEMMA SendBooked ==
  ASSUME clock \in Nat, NEW p, NEW b, Booked(p, b, clock), Len(recent(b)) < Cap
  PROVE  Booked(Append(p, clock), Append(recent(b), clock), clock)
<1>1. Cap \in Nat /\ Window \in Nat
  BY NotificationsAssumption
<1>2. p \in Seq(Nat) /\ b \in Seq(Nat)
  BY DEF Booked
<1>3. PICK n \in Nat, m \in Nat : n = Len(p) /\ m = Len(b)
  BY <1>2
<1>4. /\ m <= Cap /\ m <= n
      /\ \A i \in 1 .. n : p[i] <= clock
      /\ \A i, j \in 1 .. n : i < j => p[i] <= p[j]
      /\ \A i \in 1 .. m : b[i] = p[n - m + i]
      /\ \A i \in 1 .. n - m : p[n] - p[i] >= Window
      /\ \A i, j \in 1 .. n : j - i >= Cap => p[j] - p[i] >= Window
  BY <1>3 DEF Booked
<1>5. (\A i \in 1 .. n : p[i] \in Nat) /\ \A i \in 1 .. m : b[i] \in Nat
  BY <1>2, <1>3
<1>6. \A i, j \in 1 .. m : i < j => b[i] <= b[j]
  <2> SUFFICES ASSUME NEW i \in 1 .. m, NEW j \in 1 .. m, i < j PROVE b[i] <= b[j]
    OBVIOUS
  <2>1. n - m + i \in 1 .. n /\ n - m + j \in 1 .. n /\ n - m + i < n - m + j
    BY <1>4
  <2> QED
    BY <1>4, <2>1
<1>7. PICK c \in 0 .. m :
            /\ \A i \in 1 .. c : clock - b[i] >= Window
            /\ recent(b) \in Seq(Nat) /\ Len(recent(b)) = m - c
            /\ \A i \in 1 .. m - c : recent(b)[i] = b[c + i]
  BY <1>1, <1>2, <1>3, <1>6, Struck
<1> DEFINE q == Append(p, clock)  a == Append(recent(b), clock)
<1>8. PICK k \in Nat : k = m - c
  OBVIOUS
<1>9. /\ q \in Seq(Nat) /\ Len(q) = n + 1 /\ q[n + 1] = clock
      /\ \A i \in 1 .. n : q[i] = p[i]
  BY <1>2, <1>3
<1>10. /\ a \in Seq(Nat) /\ Len(a) = k + 1 /\ a[k + 1] = clock
       /\ \A i \in 1 .. k : a[i] = b[m - k + i]
  BY <1>7, <1>8
<1>11. k + 1 <= Cap /\ k <= m /\ k <= n
  BY <1>1, <1>4, <1>7, <1>8
<1> HIDE DEF q, a
<1>12. \A i \in 1 .. n + 1 : q[i] \in Nat /\ q[i] <= clock
  BY <1>4, <1>5, <1>9
<1>13. \A i, j \in 1 .. n + 1 : i < j => q[i] <= q[j]
  <2> SUFFICES ASSUME NEW i \in 1 .. n + 1, NEW j \in 1 .. n + 1, i < j
               PROVE q[i] <= q[j]
    OBVIOUS
  <2>1. i \in 1 .. n /\ (j \in 1 .. n \/ j = n + 1)
    OBVIOUS
  <2> QED
    BY <1>4, <1>9, <1>12, <2>1
<1>14. ASSUME NEW i \in 1 .. k + 1 PROVE a[i] = q[n - k + i]
  <2>1. CASE i = k + 1
    BY <1>9, <1>10, <2>1
  <2>2. CASE i # k + 1
    <3>1. i \in 1 .. k /\ m - k + i \in 1 .. m /\ n - k + i \in 1 .. n
          /\ n - m + (m - k + i) = n - k + i
      BY <1>4, <1>11, <2>2
    <3>2. a[i] = b[m - k + i] /\ b[m - k + i] = p[n - m + (m - k + i)]
      BY <1>4, <1>10, <3>1
    <3> QED
      BY <1>9, <3>1, <3>2
  <2> QED
    BY <2>1, <2>2
<1>15. ASSUME NEW i \in 1 .. n - k PROVE clock - q[i] >= Window
  <2>1. i \in 1 .. n /\ q[i] = p[i] /\ p[i] \in Nat
    BY <1>5, <1>9
  <2>2. CASE i <= n - m
    <3>1. i \in 1 .. n - m /\ n \in 1 .. n
      BY <1>4, <2>1, <2>2
    <3>2. p[n] - p[i] >= Window /\ p[n] <= clock /\ p[n] \in Nat
      BY <1>4, <1>5, <3>1
    <3> QED
      BY <1>1, <2>1, <3>2
  <2>3. CASE ~(i <= n - m)
    <3>1. PICK j \in 1 .. c : j = i - (n - m)
      BY <1>4, <1>7, <1>8, <2>1, <2>3
    <3>2. j \in 1 .. m /\ n - m + j = i
      BY <1>4, <3>1
    <3>3. clock - b[j] >= Window /\ b[j] = p[n - m + j]
      BY <1>4, <1>7, <3>1, <3>2
    <3> QED
      BY <2>1, <3>2, <3>3
  <2> QED
    BY <2>2, <2>3
<1>16. ASSUME NEW i \in 1 .. n + 1, NEW j \in 1 .. n + 1, j - i >= Cap
       PROVE  q[j] - q[i] >= Window
  <2>1. CASE j = n + 1
    <3>1. i \in 1 .. n - k
      BY <1>1, <1>11, <1>16, <2>1
    <3> QED
      BY <1>9, <1>15, <2>1, <3>1
  <2>2. CASE j # n + 1
    <3>1. i \in 1 .. n /\ j \in 1 .. n
      BY <1>1, <1>16, <2>2
    <3>2. q[i] = p[i] /\ q[j] = p[j] /\ p[j] - p[i] >= Window
      BY <1>4, <1>9, <1>16, <3>1
    <3> QED
      BY <3>2
  <2> QED
    BY <2>1, <2>2
<1>17. /\ Len(a) <= Cap /\ Len(a) <= Len(q)
       /\ \A i \in 1 .. Len(q) : q[i] <= clock
       /\ \A i, j \in 1 .. Len(q) : i < j => q[i] <= q[j]
       /\ \A i, j \in 1 .. Len(q) : j - i >= Cap => q[j] - q[i] >= Window
  BY <1>9, <1>10, <1>11, <1>12, <1>13, <1>16
<1>18. ASSUME NEW i \in 1 .. Len(a) PROVE a[i] = q[Len(q) - Len(a) + i]
  <2>1. i \in 1 .. k + 1 /\ Len(q) - Len(a) + i = n - k + i
    BY <1>9, <1>10
  <2> QED
    BY <1>14, <2>1
<1>19. ASSUME NEW i \in 1 .. Len(q) - Len(a) PROVE q[Len(q)] - q[i] >= Window
  <2>1. i \in 1 .. n - k /\ q[Len(q)] = clock
    BY <1>9, <1>10
  <2> QED
    BY <1>15, <2>1
<1>20. Booked(q, a, clock)
  BY <1>9, <1>10, <1>17, <1>18, <1>19 DEF Booked
<1> QED
  BY <1>20 DEF q, a

\* The clock runs on.
LEMMA LaterBooked ==
  ASSUME NEW t \in Nat, NEW u \in Nat, t <= u, NEW p, NEW b, Booked(p, b, t)
  PROVE  Booked(p, b, u)
BY DEF Booked

LEMMA DeliveryIs ==
  ASSUME NEW d \in Seq(Delivery), NEW i \in 1 .. Len(d)
  PROVE  d[i] \in Delivery /\ d[i].counted \in Nat /\ d[i].left \in Nat \cup {None}
<1>1. d[i] \in Delivery
  OBVIOUS
<1> QED
  BY <1>1 DEF Delivery

\* One more delivery, counted now.
LEMMA CountedOnce ==
  ASSUME clock \in Nat, NEW r \in Receivers, NEW d, Left(d, late(r))
  PROVE  /\ counts(Append(d, delivery(r))) = Append(counts(d), clock)
         /\ Left(Append(d, delivery(r)), late(r))
         /\ Len(Append(d, delivery(r))) = Len(d) + 1
         /\ \A i \in 1 .. Len(d) : Append(d, delivery(r))[i] = d[i]
         /\ Append(d, delivery(r))[Len(d) + 1].counted = clock
<1>1. d \in Seq(Delivery) /\ delivery(r) \in Delivery
  BY DEF Left, Delivery, delivery
<1>2. PICK n \in Nat : n = Len(d)
  BY <1>1
<1> DEFINE e == Append(d, delivery(r))
<1>3. /\ e \in Seq(Delivery) /\ Len(e) = n + 1 /\ e[n + 1] = delivery(r)
      /\ \A i \in 1 .. n : e[i] = d[i]
  BY <1>1, <1>2
<1>4. delivery(r).counted = clock
      /\ (delivery(r).left = None \/ (delivery(r).left = clock /\ late(r) = 0))
  BY DEF delivery, late
<1> HIDE DEF e
<1>5. counts(e) = Append(counts(d), clock)
  <2>1. counts(e) = [i \in 1 .. n + 1 |-> e[i].counted]
        /\ counts(d) = [i \in 1 .. n |-> d[i].counted]
    BY <1>2, <1>3 DEF counts
  <2>2. \A i \in 1 .. n : d[i].counted \in Nat
    BY <1>1, <1>2, DeliveryIs
  <2>3. counts(d) \in Seq(Nat) /\ Len(counts(d)) = n
    BY <2>1, <2>2
  <2> DEFINE c == Append(counts(d), clock)
  <2>4. c \in Seq(Nat) /\ Len(c) = n + 1 /\ c[n + 1] = clock
        /\ \A i \in 1 .. n : c[i] = d[i].counted
    BY <2>1, <2>3
  <2>5. counts(e) \in Seq(Nat) /\ Len(counts(e)) = n + 1
        /\ \A i \in 1 .. n + 1 : counts(e)[i] = e[i].counted
    <3>1. \A i \in 1 .. n + 1 : e[i].counted \in Nat
      BY <1>3, DeliveryIs
    <3> QED
      BY <2>1, <3>1
  <2> HIDE DEF c
  <2>6. \A i \in 1 .. n + 1 : counts(e)[i] = c[i]
    <3> SUFFICES ASSUME NEW i \in 1 .. n + 1 PROVE counts(e)[i] = c[i]
      OBVIOUS
    <3>1. i \in 1 .. n \/ i = n + 1
      OBVIOUS
    <3> QED
      BY <1>3, <1>4, <2>4, <2>5, <3>1
  <2>7. counts(e) = c
    BY <2>4, <2>5, <2>6
  <2> QED
    BY <2>7 DEF c
<1>6. Left(e, late(r))
  <2> SUFFICES ASSUME NEW i \in 1 .. n + 1
      PROVE e[i].left = None
            \/ (e[i].counted <= e[i].left /\ e[i].left <= e[i].counted + late(r))
    BY <1>3 DEF Left
  <2>1. CASE i = n + 1
    BY <1>3, <1>4, <2>1
  <2>2. CASE i # n + 1
    <3>1. i \in 1 .. n
      BY <2>2
    <3> QED
      BY <1>2, <1>3, <3>1 DEF Left
  <2> QED
    BY <2>1, <2>2
<1> QED
  BY <1>2, <1>3, <1>4, <1>5, <1>6 DEF e

\* A delivery leaves, when its lookup ends.
LEMMA LeavesLate ==
  ASSUME clock \in Nat, NEW s \in Subjects, NEW d, Left(d, late(s)),
         NEW n \in 1 .. Len(d), clock - d[n].counted <= MaxLookup, d[n].counted <= clock
  PROVE  LET e == [d EXCEPT ![n].left = clock]
         IN  counts(e) = counts(d) /\ Left(e, late(s)) /\ Len(e) = Len(d)
             /\ \A i \in 1 .. Len(d) : e[i].counted = d[i].counted
<1>0. MaxLookup \in Nat /\ late(s) = MaxLookup
  BY NotificationsAssumption DEF late
<1>1. d \in Seq(Delivery)
  BY DEF Left
<1>2. PICK k \in Nat : k = Len(d)
  BY <1>1
<1> DEFINE e == [d EXCEPT ![n].left = clock]
<1>3. \A i \in 1 .. k : d[i] \in Delivery
  BY <1>1, <1>2
<1>4. e = [i \in 1 .. k |-> IF i = n THEN [d[n] EXCEPT !.left = clock] ELSE d[i]]
  <2>1. d = [i \in 1 .. k |-> d[i]]
    BY <1>1, <1>2
  <2> QED
    BY <1>2, <2>1
<1>5. [d[n] EXCEPT !.left = clock] \in Delivery
      /\ [d[n] EXCEPT !.left = clock].left = clock
      /\ [d[n] EXCEPT !.left = clock].counted = d[n].counted
  BY <1>2, <1>3 DEF Delivery
<1> HIDE DEF e
<1>6. e \in Seq(Delivery) /\ Len(e) = k
  BY <1>3, <1>4, <1>5
<1>7. \A i \in 1 .. k : e[i].counted = d[i].counted
                        /\ e[i].left = IF i = n THEN clock ELSE d[i].left
  BY <1>4, <1>5
<1>8. counts(e) = counts(d)
  BY <1>2, <1>6, <1>7 DEF counts
<1>9. Left(e, late(s))
  <2> SUFFICES ASSUME NEW i \in 1 .. k
      PROVE e[i].left = None
            \/ (e[i].counted <= e[i].left /\ e[i].left <= e[i].counted + late(s))
    BY <1>6 DEF Left
  <2>1. CASE i = n
    <3>1. d[n].counted \in Nat
      BY <1>1, DeliveryIs
    <3> QED
      BY <1>0, <1>7, <2>1, <3>1
  <2>2. CASE i # n
    BY <1>2, <1>7, <2>2 DEF Left
  <2> QED
    BY <2>1, <2>2
<1> QED
  BY <1>2, <1>6, <1>7, <1>8, <1>9 DEF e

------------------------------------------------------------------------------
LEMMA SendKeeps ==
  ASSUME Books, NEW R \in SUBSET Receivers, \A r \in R : free(r), send(R), clock' = clock,
         posting' = [s \in Subjects |-> posting'[s]],
         \A s \in Subjects :
             posting'[s] = posting[s]
             \/ (s \in R /\ posting'[s] = posting[s] \cup {Len(posts[s]) + 1})
  PROVE  Books'
<1>1. ASSUME NEW r \in Receivers
      PROVE  /\ Booked(counts(posts'[r]), sentAt'[r], clock')
             /\ Left(posts'[r], late(r))
             /\ \A i \in 1 .. Len(posts[r]) : posts'[r][i] = posts[r][i]
             /\ Len(posts[r]) \in Nat
             /\ Len(posts'[r]) = Len(posts[r]) \/ Len(posts'[r]) = Len(posts[r]) + 1
             /\ r \in R => /\ Len(posts'[r]) = Len(posts[r]) + 1
                           /\ posts'[r][Len(posts[r]) + 1].counted = clock
  <2>1. clock \in Nat /\ Booked(counts(posts[r]), sentAt[r], clock) /\ Left(posts[r], late(r))
    BY DEF Books
  <2>2. Len(posts[r]) \in Nat
    BY <2>1 DEF Left
  <2>3. CASE r \in R
    <3>1. posts'[r] = Append(posts[r], delivery(r))
          /\ sentAt'[r] = Append(recent(sentAt[r]), clock)
      BY <2>3 DEF send
    <3>2. Booked(Append(counts(posts[r]), clock), Append(recent(sentAt[r]), clock), clock)
      BY <2>1, <2>3, SendBooked DEF free
    <3> DEFINE d == posts[r]
               e == Append(posts[r], delivery(r))
    <3>3. /\ counts(e) = Append(counts(d), clock) /\ Left(e, late(r))
          /\ Len(e) = Len(d) + 1 /\ e[Len(d) + 1].counted = clock
          /\ \A i \in 1 .. Len(d) : e[i] = d[i]
      BY <2>1, CountedOnce
    <3>4. posts'[r] = e /\ posts[r] = d
      BY <3>1
    <3> HIDE DEF d, e
    <3>5. Booked(counts(posts'[r]), sentAt'[r], clock')
      BY <3>1, <3>2, <3>3, <3>4
    <3> QED
      BY <2>2, <3>3, <3>4, <3>5
  <2>4. CASE r \notin R
    <3>1. posts'[r] = posts[r] /\ sentAt'[r] = sentAt[r]
      BY <2>4 DEF send
    <3> QED
      BY <2>1, <2>2, <2>4, <3>1
  <2> QED
    BY <2>3, <2>4
<1>2. ASSUME NEW r \in Receivers
      PROVE  (Booked(counts(posts[r]), sentAt[r], clock) /\ Left(posts[r], late(r)))'
  BY <1>1 DEF late
<1>3. ASSUME NEW s \in Subjects, NEW n \in posting'[s]
      PROVE  n \in 1 .. Len(posts'[s]) /\ clock - posts'[s][n].counted <= MaxLookup
  <2>1. s \in Receivers /\ MaxLookup \in Nat /\ clock \in Nat
    BY NotificationsAssumption DEF Receivers, Books
  <2>2. CASE n \in posting[s]
    <3>1. n \in 1 .. Len(posts[s]) /\ clock - posts[s][n].counted <= MaxLookup
      BY <2>2 DEF Books, Waiting
    <3> QED
      BY <1>1, <2>1, <3>1
  <2>3. CASE n \notin posting[s]
    <3>1. s \in R /\ n = Len(posts[s]) + 1
      BY <1>3, <2>3
    <3> QED
      BY <1>1, <2>1, <3>1
  <2> QED
    BY <2>2, <2>3
<1>4. ASSUME NEW s \in Subjects PROVE Waiting(posts[s], posting[s], clock)'
  BY <1>3 DEF Waiting
<1> QED
  BY <1>2, <1>4 DEF Books, send

\* A webhook's request leaves.
LEMMA LeaveKeeps ==
  ASSUME Books, NEW s \in Subjects, NEW n, Posted(s, n)
  PROVE  Books'
<1>1. n \in posting[s] /\ UNCHANGED <<sentAt, clock>> /\ clock \in Nat /\ s \in Receivers
  BY DEF Posted, Books, Receivers
<1>2. n \in 1 .. Len(posts[s]) /\ clock - posts[s][n].counted <= MaxLookup
  BY <1>1 DEF Books, Waiting
<1> DEFINE e == [posts[s] EXCEPT ![n].left = clock]
<1>3. posts' = [posts EXCEPT ![s] = e] /\ posts'[s] = e
  BY <1>1 DEF Posted, Books
<1>4. Left(posts[s], late(s)) /\ Booked(counts(posts[s]), sentAt[s], clock)
  BY <1>1 DEF Books
<1>5. posts[s][n].counted <= clock
  <2>1. Len(counts(posts[s])) = Len(posts[s]) /\ counts(posts[s])[n] = posts[s][n].counted
    BY <1>2, <1>4 DEF counts, Left
  <2> QED
    BY <1>2, <1>4, <2>1 DEF Booked
<1>6. counts(e) = counts(posts[s]) /\ Left(e, late(s)) /\ Len(e) = Len(posts[s])
      /\ \A i \in 1 .. Len(posts[s]) : e[i].counted = posts[s][i].counted
  BY <1>1, <1>2, <1>4, <1>5, LeavesLate
<1> HIDE DEF e
<1>7. ASSUME NEW r \in Receivers
      PROVE  (Booked(counts(posts[r]), sentAt[r], clock) /\ Left(posts[r], late(r)))'
  <2>1. Booked(counts(posts'[r]), sentAt'[r], clock') /\ Left(posts'[r], late(r))
    <3>1. CASE r = s
      BY <1>1, <1>3, <1>4, <1>6, <3>1
    <3>2. CASE r # s
      BY <1>1, <1>3, <3>2 DEF Books
    <3> QED
      BY <3>1, <3>2
  <2> QED
    BY <1>1, <2>1 DEF late
<1>8. ASSUME NEW t \in Subjects PROVE Waiting(posts[t], posting[t], clock)'
  <2>1. ASSUME NEW m \in posting'[t]
        PROVE  m \in 1 .. Len(posts'[t]) /\ clock' - posts'[t][m].counted <= MaxLookup
    <3>1. m \in posting[t]
      BY DEF Posted, Books
    <3>2. m \in 1 .. Len(posts[t]) /\ clock - posts[t][m].counted <= MaxLookup
      BY <3>1 DEF Books, Waiting
    <3>3. t \in Receivers
      BY DEF Receivers
    <3>4. CASE t = s
      BY <1>1, <1>3, <1>6, <3>2, <3>4
    <3>5. CASE t # s
      BY <1>1, <1>3, <3>2, <3>3, <3>5 DEF Books
    <3> QED
      BY <3>4, <3>5
  <2> QED
    BY <2>1 DEF Waiting
<1> QED
  BY <1>1, <1>3, <1>7, <1>8 DEF Books, Posted

LEMMA NextBooks == ASSUME Books, [Next]_vars PROVE Books'
<1>0. ASSUME UNCHANGED <<posts, sentAt>>, clock' \in Nat, clock <= clock',
             posting' = [s \in Subjects |-> posting'[s]],
             \A s \in Subjects : posting'[s] \subseteq posting[s],
             \A s \in Subjects : \A n \in posting[s] :
                 clock' - posts[s][n].counted <= MaxLookup
      PROVE  Books'
  <2>1. ASSUME NEW r \in Receivers
        PROVE  (Booked(counts(posts[r]), sentAt[r], clock) /\ Left(posts[r], late(r)))'
    <3>1. Booked(counts(posts[r]), sentAt[r], clock) /\ Left(posts[r], late(r)) /\ clock \in Nat
      BY DEF Books
    <3>2. Booked(counts(posts[r]), sentAt[r], clock)'
      BY <1>0, <3>1, LaterBooked
    <3> QED
      BY <1>0, <3>1, <3>2 DEF late
  <2>2. ASSUME NEW s \in Subjects PROVE Waiting(posts[s], posting[s], clock)'
    BY <1>0 DEF Books, Waiting
  <2> QED
    BY <1>0, <2>1, <2>2 DEF Books
<1>1. CASE UNCHANGED <<posts, sentAt, clock, posting>>
  BY <1>0, <1>1 DEF Books, Waiting
<1>2. CASE handleUpdate
  <2> DEFINE chat == updates[bot.offset].chat
  <2>1. send(IF free(chat) THEN {chat} ELSE {}) /\ clock' = clock /\ posting' = posting
    BY <1>2 DEF handleUpdate
  <2>2. posting' = [s \in Subjects |-> posting'[s]]
        /\ \A s \in Subjects : posting'[s] = posting[s]
    BY <2>1 DEF Books
  <2> HIDE DEF chat
  <2>3. CASE free(chat) /\ chat \in Receivers
    BY <2>1, <2>2, <2>3, SendKeeps
  <2>4. CASE ~free(chat)
    BY <2>1, <2>2, <2>4, SendKeeps
  <2>5. CASE chat \notin Receivers
    <3>1. UNCHANGED <<posts, sentAt>>
      BY <2>1, <2>5 DEF send, Books
    <3> QED
      BY <1>1, <2>1, <3>1
  <2> QED
    BY <2>3, <2>4, <2>5
<1>3. ASSUME NEW s \in Subjects, Notify(s) PROVE Books'
  <2> DEFINE chat == IF links[s] # None /\ free(links[s]) THEN {links[s]} ELSE {}
             hook == IF hooks[s] # None /\ free(s) THEN {s} ELSE {}
             R == (chat \cup hook) \cap Receivers
  <2>1. send(chat \cup hook) /\ clock' = clock
    BY <1>3 DEF Notify
  <2>2. \A r \in R : free(r)
    OBVIOUS
  <2>3. hook = {} \/ hook = {s}
    OBVIOUS
  <2>4. posting' = [posting EXCEPT ![s] =
                      IF hook = {} THEN @ ELSE @ \cup {Len(posts[s]) + 1}]
    BY <1>3 DEF Notify
  <2> HIDE DEF chat, hook
  <2>5. send(R)
    BY <2>1 DEF send
  <2>6. posting' = [t \in Subjects |-> posting'[t]]
    BY <2>4 DEF Books
  <2>7. ASSUME NEW t \in Subjects
        PROVE  posting'[t] = posting[t]
               \/ (t \in R /\ posting'[t] = posting[t] \cup {Len(posts[t]) + 1})
    BY <2>3, <2>4 DEF Books, Receivers
  <2> HIDE DEF R
  <2>8. R \in SUBSET Receivers
    BY DEF R
  <2> QED
    BY <2>1, <2>2, <2>5, <2>6, <2>7, <2>8, SendKeeps
<1>4. CASE Crash
  <2>1. clock' \in Nat /\ clock' = clock
    BY <1>4 DEF Crash, Books
  <2>2. ASSUME NEW r \in Receivers
        PROVE  (Booked(counts(posts[r]), sentAt[r], clock) /\ Left(posts[r], late(r)))'
    <3>1. posts'[r] = <<>> /\ sentAt'[r] = <<>>
      BY <1>4 DEF Crash
    <3>2. <<>> \in Seq(Delivery) /\ <<>> \in Seq(Nat) /\ Len(<<>>) = 0
      OBVIOUS
    <3>3. counts(<<>>) = <<>>
      BY DEF counts
    <3> QED
      BY <2>1, <3>1, <3>2, <3>3, NotificationsAssumption DEF Booked, Left, counts
  <2>3. ASSUME NEW s \in Subjects PROVE Waiting(posts[s], posting[s], clock)'
    BY <1>4 DEF Crash, Waiting
  <2> QED
    BY <1>4, <2>1, <2>2, <2>3 DEF Crash, Books
<1>5. CASE Tick
  <2>1. clock' \in Nat /\ clock <= clock' /\ UNCHANGED <<posts, sentAt, posting>>
    BY <1>5 DEF Tick, ghosts, Books
  <2>2. ASSUME NEW s \in Subjects, NEW n \in posting[s]
        PROVE  clock' - posts[s][n].counted <= MaxLookup
    <3>1. clock - posts[s][n].counted < MaxLookup /\ clock' = clock + 1
      BY <1>5 DEF Tick
    <3>2. n \in 1 .. Len(posts[s]) /\ posts[s] \in Seq(Delivery) /\ clock \in Nat
      BY DEF Books, Waiting, Left, Receivers
    <3>3. posts[s][n].counted \in Nat
      BY <3>2, DeliveryIs
    <3> QED
      BY <3>1, <3>2, <3>3, NotificationsAssumption
  <2> QED
    BY <1>0, <2>1, <2>2 DEF Books
<1>6. ASSUME NEW s \in Subjects, NEW n \in posting[s], Posted(s, n) PROVE Books'
  BY <1>6, LeaveKeeps
<1>7. ASSUME NEW s \in Subjects, NEW n \in posting[s], Undelivered(s, n) PROVE Books'
  <2>1. UNCHANGED <<posts, sentAt, clock>> /\ posting' = [posting EXCEPT ![s] = @ \ {n}]
    BY <1>7 DEF Undelivered, ghosts
  <2> QED
    BY <1>0, <2>1 DEF Books, Waiting
<1> QED
  BY <1>1, <1>2, <1>3, <1>4, <1>5, <1>6, <1>7
     DEF Next, vars, ghosts, tables, Linking, createLinkCode, unlink, ChatSends, Webhook,
         BeginSet, RefuseSet, FinishSet, deleteWebhook, Loop, Poll, HandleFails, Replied

\* Of more than Cap requests that left for a receiver in one life of the
\* process, two left an hour apart, less, for a webhook, the longest lookup
\* (bot.ts, send; webhooks.ts, notify).
THEOREM Capped == Spec => []CapKept
<1>1. Init => Books
  <2> SUFFICES ASSUME Init PROVE Books
    OBVIOUS
  <2>1. ASSUME NEW r \in Receivers
        PROVE  Booked(counts(posts[r]), sentAt[r], clock) /\ Left(posts[r], late(r))
    <3>1. posts[r] = <<>> /\ sentAt[r] = <<>>
      BY DEF Init
    <3>2. <<>> \in Seq(Delivery) /\ <<>> \in Seq(Nat) /\ Len(<<>>) = 0
      OBVIOUS
    <3>3. counts(<<>>) = <<>>
      BY DEF counts
    <3>4. clock \in Nat
      BY DEF Init
    <3>5. Booked(<<>>, <<>>, clock)
      BY <3>2, <3>4, NotificationsAssumption DEF Booked
    <3>6. Left(<<>>, late(r))
      BY <3>2 DEF Left
    <3> QED
      BY <3>1, <3>3, <3>5, <3>6
  <2> QED
    BY <2>1 DEF Init, Books, Waiting
<1>2. Books /\ [Next]_vars => Books'
  BY NextBooks
<1>3. Books => CapKept
  <2> SUFFICES ASSUME Books, NEW r \in Receivers,
                      NEW D \in SUBSET {n \in DOMAIN posts[r] : posts[r][n].left # None},
                      Cardinality(D) > Cap
               PROVE  \E m, n \in D : posts[r][n].left - posts[r][m].left >= Window - late(r)
    BY DEF CapKept
  <2>1. Booked(counts(posts[r]), sentAt[r], clock) /\ Left(posts[r], late(r))
    BY DEF Books
  <2>2. PICK k \in Nat : k = Len(posts[r])
    BY <2>1 DEF Left
  <2>3. D \in SUBSET (1 .. k) /\ \A i \in D : posts[r][i].left # None
    BY <2>1, <2>2 DEF Left
  <2>4. Cap \in Nat /\ Window \in Nat /\ late(r) \in Nat
    BY NotificationsAssumption DEF late
  <2>5. PICK m \in D, n \in D : n - m >= Cap
    BY <2>3, <2>4, Spread
  <2>6. m \in 1 .. k /\ n \in 1 .. k
    BY <2>3
  <2>7. posts[r][n].counted - posts[r][m].counted >= Window
    <3>1. Len(counts(posts[r])) = k /\ counts(posts[r])[m] = posts[r][m].counted
          /\ counts(posts[r])[n] = posts[r][n].counted
      BY <2>2, <2>6 DEF counts
    <3> QED
      BY <2>1, <2>5, <2>6, <3>1 DEF Booked
  <2>8. posts[r][n].counted <= posts[r][n].left
        /\ posts[r][m].left <= posts[r][m].counted + late(r)
    BY <2>1, <2>2, <2>3, <2>6 DEF Left
  <2>9. /\ posts[r][n].counted \in Nat /\ posts[r][n].left \in Nat
        /\ posts[r][m].counted \in Nat /\ posts[r][m].left \in Nat
    <3>1. posts[r] \in Seq(Delivery)
      BY <2>1 DEF Left
    <3> QED
      BY <2>2, <2>3, <2>6, <3>1, DeliveryIs
  <2> QED
    BY <2>4, <2>7, <2>8, <2>9
<1> QED
  BY <1>1, <1>2, <1>3, PTL DEF Spec
==============================================================================
