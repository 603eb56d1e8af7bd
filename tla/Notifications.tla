--------------------------- MODULE Notifications ---------------------------
(***************************************************************************)
(* What the server pushes when an alert fires: messages of the Telegram    *)
(* bot (src/telegram/bot.ts, store.ts) and POSTs to webhooks               *)
(* (src/webhook/webhooks.ts).  A key is linked to a chat by a one-time     *)
(* code the chat sends back; the bot's long poll reads what chats send.    *)
(* Telegram keeps an update until a later poll names a higher offset, the  *)
(* offset is in memory only, and the process may die at any time.          *)
(***************************************************************************)
EXTENDS Integers, Sequences, FiniteSets

CONSTANTS
    Subjects,       \* key owners
    Chats,          \* Telegram chats
    Codes,          \* link codes to come: random, so never issued twice
    Urls,           \* webhook targets
    Cap,            \* MAX_MESSAGES_PER_HOUR, MAX_PER_HOUR
    Window,         \* the hour, in steps of the clock
    MaxLookup,      \* of the resolver: steps of the clock a DNS lookup takes at most
    Ttl,            \* LINK_CODE_TTL_MS, in steps of the clock
    MaxTime,        \* bound: last value of the clock
    MaxUpdates,     \* bound: updates chats send
    Stop,           \* the text /stop; any other text is /start with a code
    MaxCrashes,     \* bound: crashes
    None

ASSUME NotificationsAssumption ==
    /\ {Cap, Window, MaxLookup, Ttl} \subseteq Nat
    /\ MaxTime \in Nat /\ MaxUpdates \in Nat
    /\ MaxCrashes \in Nat /\ Stop \notin Codes /\ None \notin Nat

VARIABLES
    codes,      \* table telegram_codes
    links,      \* table telegram_links
    hooks,      \* table webhooks
    updates,    \* what the chats sent; update_id is the position
    confirmed,  \* Telegram: updates before this one are gone
    bot,        \* the poll loop: offset, end of the batch, reply in flight
    sentAt,     \* sentAt of the bot and of the webhook sender
    setting,    \* hl_set_webhook between the DNS lookup and the row
    posting,    \* the webhook's deliveries whose lookup is in flight, by number
    clock,
    crashes,
    handled,    \* ghost: updates handed to handleUpdate
    posts,      \* ghost: the deliveries to a receiver in this life of the process:
                \* when each was counted, and when its request left
    linked      \* ghost: how often a code linked its key

tables == <<codes, links, hooks>>
ghosts == <<handled, posts, linked>>
vars == <<tables, updates, confirmed, bot, sentAt, setting, posting, clock,
          crashes, ghosts>>

Receivers == Chats \cup Subjects
Text == Codes \cup {Stop}
Update == [chat : Chats, text : Text]
Ids == 1 .. MaxUpdates
Delivery == [counted : Nat, left : Nat \cup {None}]

TypeOK ==
    /\ codes \in [Codes -> [subject : Subjects, expires : Nat] \cup {None}]
    /\ links \in [Subjects -> Chats \cup {None}]
    /\ hooks \in [Subjects -> Urls \cup {None}]
    /\ updates \in Seq(Update) /\ Len(updates) <= MaxUpdates
    /\ confirmed \in 1 .. MaxUpdates + 1
    /\ bot \in [offset : 1 .. MaxUpdates + 1, last : 0 .. MaxUpdates,
                replying : BOOLEAN]
    /\ sentAt \in [Receivers -> Seq(0 .. MaxTime)]
    /\ posts \in [Receivers -> Seq(Delivery)]
    /\ setting \in [Subjects -> Urls \cup {None}]
    /\ posting \in [Subjects -> SUBSET Nat]
    /\ clock \in 0 .. MaxTime /\ crashes \in 0 .. MaxCrashes
    /\ handled \subseteq Ids
    /\ linked \in [Codes -> 0 .. 2]

idleBot == [offset |-> 1, last |-> 0, replying |-> FALSE]

Init ==
    /\ codes = [c \in Codes |-> None]
    /\ links = [s \in Subjects |-> None]
    /\ hooks = [s \in Subjects |-> None]
    /\ updates = <<>> /\ confirmed = 1 /\ bot = idleBot
    /\ sentAt = [r \in Receivers |-> <<>>]
    /\ posts = [r \in Receivers |-> <<>>]
    /\ setting = [s \in Subjects |-> None]
    /\ posting = [s \in Subjects |-> {}]
    /\ clock = 0 /\ crashes = 0
    /\ handled = {}
    /\ linked = [c \in Codes |-> 0]

------------------------------------------------------------------------------
\* The times from the first that is younger than w: they are in clock order.
since(times, w) ==
    SubSeq(times, Cardinality({i \in DOMAIN times : clock - times[i] >= w}) + 1, Len(times))

\* Mutant: a message leaves the window one step early.
recentShort(times) == since(times, Window - 1)

\* Messages to a receiver within the last hour.
recent(times) == since(times, Window)

free(r) == Len(recent(sentAt[r])) < Cap

\* A message to a chat leaves when it is counted, a POST only after a lookup.
delivery(r) == [counted |-> clock, left |-> IF r \in Subjects THEN None ELSE clock]

\* send, and the webhook's notify up to its lookup: counted before the answer.
send(R) ==
    /\ sentAt' = [r \in Receivers |->
                    IF r \in R THEN Append(recent(sentAt[r]), clock) ELSE sentAt[r]]
    /\ posts' = [r \in Receivers |->
                    IF r \in R THEN Append(posts[r], delivery(r)) ELSE posts[r]]

------------------------------------------------------------------------------
\* createLinkCode: expired codes go, a fresh one comes.
createLinkCode(s, c) ==
    /\ codes[c] = None /\ linked[c] = 0
    /\ \A i \in DOMAIN updates : updates[i].text # c
    /\ codes' = [d \in Codes |->
                    IF d = c THEN [subject |-> s, expires |-> clock + Ttl]
                    ELSE IF codes[d] # None /\ codes[d].expires < clock THEN None
                    ELSE codes[d]]
    /\ UNCHANGED <<links, hooks, updates, confirmed, bot, sentAt, setting, posting,
                   clock, crashes, ghosts>>

\* hl_unlink_telegram.
unlink(s) ==
    /\ links[s] # None
    /\ links' = [links EXCEPT ![s] = None]
    /\ UNCHANGED <<codes, hooks, updates, confirmed, bot, sentAt, setting, posting,
                   clock, crashes, ghosts>>

\* A chat opens a link it was given, or sends /stop.
ChatSends(chat, text) ==
    /\ Len(updates) < MaxUpdates
    /\ text # Stop => codes[text] # None \/ linked[text] > 0
    /\ updates' = Append(updates, [chat |-> chat, text |-> text])
    /\ UNCHANGED <<tables, confirmed, bot, sentAt, setting, posting, clock,
                   crashes, ghosts>>

\* getUpdates: names the offset, so Telegram drops what was before it, and
\* returns everything it has from there on.
Poll ==
    LET from == IF bot.offset > confirmed THEN bot.offset ELSE confirmed
    IN  /\ bot.last < bot.offset /\ ~bot.replying
        /\ from > confirmed \/ Len(updates) >= from
        /\ confirmed' = from
        /\ bot' = [bot EXCEPT !.offset = from, !.last = Len(updates)]
        /\ UNCHANGED <<tables, updates, sentAt, setting, posting, clock, crashes,
                       ghosts>>

valid(c) == codes[c] # None /\ codes[c].expires >= clock

\* redeem once the row is gone: it links its key unless it had expired.
linkTo(c, chat) ==
    /\ links' = IF valid(c) THEN [links EXCEPT ![codes[c].subject] = chat] ELSE links
    /\ linked' = IF valid(c) /\ linked[c] < 2
                 THEN [linked EXCEPT ![c] = @ + 1] ELSE linked

\* Mutant: a code that linked stays in the table.
redeemKeeping(c, chat) == codes' = codes /\ linkTo(c, chat)

\* redeem.
redeem(c, chat) == codes' = [codes EXCEPT ![c] = None] /\ linkTo(c, chat)

\* unlinkChat: every key linked to the chat.
unlinkChat(chat) ==
    links' = [s \in Subjects |-> IF links[s] = chat THEN None ELSE links[s]]

inBatch == bot.offset <= bot.last /\ ~bot.replying

\* One update of the batch: the offset, the tables, and the reply's request.
handleUpdate ==
    LET u == updates[bot.offset]
    IN  /\ inBatch
        /\ IF u.text = Stop
           THEN unlinkChat(u.chat) /\ UNCHANGED <<codes, linked>>
           ELSE redeem(u.text, u.chat)
        /\ send(IF free(u.chat) THEN {u.chat} ELSE {})
        /\ bot' = [bot EXCEPT !.offset = @ + 1, !.replying = free(u.chat)]
        /\ handled' = handled \cup {bot.offset}
        /\ UNCHANGED <<hooks, updates, confirmed, setting, posting, clock, crashes>>

\* Mutant: the offset moved past the whole batch before its updates are handled.
HandleFailsAhead ==
    /\ inBatch
    /\ bot' = [bot EXCEPT !.offset = bot.last + 1, !.last = 0]
    /\ handled' = handled \cup {bot.offset}
    /\ UNCHANGED <<tables, updates, confirmed, sentAt, setting, posting, clock,
                   crashes, posts, linked>>

\* The database refuses: the rest of the batch is dropped, to be polled again;
\* the offset is past this update.
HandleFails ==
    /\ inBatch
    /\ bot' = [bot EXCEPT !.offset = @ + 1, !.last = 0]
    /\ handled' = handled \cup {bot.offset}
    /\ UNCHANGED <<tables, updates, confirmed, sentAt, setting, posting, clock,
                   crashes, posts, linked>>

\* The reply arrived, or failed.
Replied ==
    /\ bot.replying
    /\ bot' = [bot EXCEPT !.replying = FALSE]
    /\ UNCHANGED <<tables, updates, confirmed, sentAt, setting, posting, clock,
                   crashes, ghosts>>

------------------------------------------------------------------------------
\* hl_set_webhook: the URL's addresses are looked up ...
BeginSet(s, url) ==
    /\ setting[s] = None
    /\ setting' = [setting EXCEPT ![s] = url]
    /\ UNCHANGED <<tables, updates, confirmed, bot, sentAt, posting, clock, crashes,
                   ghosts>>

\* ... are not all public, or not found ...
RefuseSet(s) ==
    /\ setting[s] # None
    /\ setting' = [setting EXCEPT ![s] = None]
    /\ UNCHANGED <<tables, updates, confirmed, bot, sentAt, posting, clock, crashes,
                   ghosts>>

\* ... or the row gets the URL (and a new secret, which is returned).
FinishSet(s) ==
    /\ setting[s] # None
    /\ hooks' = [hooks EXCEPT ![s] = setting[s]]
    /\ setting' = [setting EXCEPT ![s] = None]
    /\ UNCHANGED <<codes, links, updates, confirmed, bot, sentAt, posting, clock,
                   crashes, ghosts>>

deleteWebhook(s) ==
    /\ hooks[s] # None
    /\ hooks' = [hooks EXCEPT ![s] = None]
    /\ UNCHANGED <<codes, links, updates, confirmed, bot, sentAt, setting, posting,
                   clock, crashes, ghosts>>

------------------------------------------------------------------------------
\* The engine reports a fired alert: a message to the linked chat, and the
\* webhook is read and its addresses are looked up, each within its cap.  Nobody
\* waits for either (server-http.ts:90-91), so lookups of a key overlap.
Notify(s) ==
    LET chat == IF links[s] # None /\ free(links[s]) THEN {links[s]} ELSE {}
        hook == IF hooks[s] # None /\ free(s) THEN {s} ELSE {}
    IN  /\ chat \cup hook # {}
        /\ send(chat \cup hook)
        /\ posting' = [posting EXCEPT ![s] =
                         IF hook = {} THEN @ ELSE @ \cup {Len(posts[s]) + 1}]
        /\ UNCHANGED <<tables, updates, confirmed, bot, setting, clock, crashes,
                       handled, linked>>

\* The addresses are public, and the body is POSTed ...
Posted(s, n) ==
    /\ n \in posting[s]
    /\ posting' = [posting EXCEPT ![s] = @ \ {n}]
    /\ posts' = [posts EXCEPT ![s][n].left = clock]
    /\ UNCHANGED <<tables, updates, confirmed, bot, sentAt, setting, clock, crashes,
                   handled, linked>>

\* ... or they are not, or not found: the delivery has failed.
Undelivered(s, n) ==
    /\ n \in posting[s]
    /\ posting' = [posting EXCEPT ![s] = @ \ {n}]
    /\ UNCHANGED <<tables, updates, confirmed, bot, sentAt, setting, clock, crashes,
                   ghosts>>

------------------------------------------------------------------------------
Crash ==
    /\ crashes < MaxCrashes
    /\ crashes' = crashes + 1
    /\ bot' = idleBot
    /\ sentAt' = [r \in Receivers |-> <<>>]
    /\ posts' = [r \in Receivers |-> <<>>]
    /\ setting' = [s \in Subjects |-> None]
    /\ posting' = [s \in Subjects |-> {}]
    /\ UNCHANGED <<tables, updates, confirmed, clock, handled, linked>>

Tick ==
    /\ clock < MaxTime
    /\ \A s \in Subjects : \A n \in posting[s] : clock - posts[s][n].counted < MaxLookup
    /\ clock' = clock + 1
    /\ UNCHANGED <<tables, updates, confirmed, bot, sentAt, setting, posting, crashes,
                   ghosts>>

Linking ==
    \/ \E s \in Subjects, c \in Codes : createLinkCode(s, c)
    \/ \E s \in Subjects : unlink(s)
    \/ \E chat \in Chats, text \in Text : ChatSends(chat, text)

Webhook ==
    \E s \in Subjects :
        \/ \E url \in Urls : BeginSet(s, url)
        \/ RefuseSet(s) \/ FinishSet(s) \/ deleteWebhook(s)
        \/ \E n \in posting[s] : Posted(s, n) \/ Undelivered(s, n)

Loop == Poll \/ handleUpdate \/ HandleFails \/ Replied

Next == Linking \/ Webhook \/ Loop \/ (\E s \in Subjects : Notify(s)) \/ Crash \/ Tick

Spec == Init /\ [][Next]_vars

\* The poll loop goes on for as long as the process runs.
FairSpec == Spec /\ WF_vars(Loop)

------------------------------------------------------------------------------
\* A code links its key to one chat, once, whoever sends it and however often
\* Telegram delivers it (store.ts, redeem; bot.ts, start after a restart).
CodeLinksOnce == \A c \in Codes : linked[c] <= 1

\* How long a request may leave after it was counted.
late(r) == IF r \in Subjects THEN MaxLookup ELSE 0

\* Of more than Cap requests to a receiver in one life of the process, in
\* whatever order they left, two left an hour apart: alerts and the bot's
\* replies together (bot.ts, send).  A webhook's cap is kept where it is counted,
\* before the lookup (webhooks.ts:106-112); its receiver may get more than Cap
\* in an hour, but not in an hour less the longest lookup.
CapKept ==
    \A r \in Receivers :
        LET sent == {n \in DOMAIN posts[r] : posts[r][n].left # None}
        IN  \A D \in SUBSET sent :
                Cardinality(D) > Cap =>
                    \E m, n \in D : posts[r][n].left - posts[r][m].left >= Window - late(r)

\* What a chat sends is handed to handleUpdate in the end: neither a failing
\* update earlier in its batch nor a restart loses it (bot.ts, start).
EveryUpdateHandled == \A i \in Ids : (Len(updates) >= i) ~> (i \in handled)
==============================================================================
