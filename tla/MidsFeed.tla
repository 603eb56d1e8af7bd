------------------------------- MODULE MidsFeed -------------------------------
(***************************************************************************)
(* The live mid prices (src/core/ws.ts): one socket, opened on demand,     *)
(* reopened by a timer after it dropped, and dropped when it has long been *)
(* silent; getMid falls back on a request while the feed is not fresh.     *)
(* The network opens, feeds, silences and loses the socket as it likes,    *)
(* and an attempt may fail in the constructor of the socket already.       *)
(* Time is what it makes of the last message: fresh for 15 seconds, then   *)
(* late, and silent after STALE_RECONNECT_MS.                              *)
(***************************************************************************)
EXTENDS Integers

CONSTANTS
    MaxTimers       \* bound: reconnect timers pending at once

ASSUME FeedAssumption == MaxTimers \in Nat \ {0}

VARIABLES
    ws,             \* the socket: "none", "opening" or "open"
    connected, connecting, closed,
    heard,          \* the last message: "fresh", "late" or "silent"
    mids,           \* the stored mids: "none", of an "old" socket or of "this" one
    timers,         \* pending reconnect timers
    served,         \* the last getMid: "nothing" yet, "rest", or the mids it used
    down            \* ghost: a socket dropped, and no attempt was made since

feedVars == <<ws, connected, connecting, closed, heard, mids, timers, served, down>>

FeedTypeOK ==
    /\ ws \in {"none", "opening", "open"}
    /\ {connected, connecting, closed, down} \subseteq BOOLEAN
    /\ heard \in {"fresh", "late", "silent"}
    /\ mids \in {"none", "old", "this"}
    /\ timers \in 0 .. MaxTimers
    /\ served \in {"nothing", "rest", "old", "this"}

FeedInit ==
    /\ ws = "none" /\ connected = FALSE /\ connecting = FALSE /\ closed = FALSE
    /\ heard = "silent" /\ mids = "none" /\ timers = 0 /\ served = "nothing"
    /\ down = FALSE

older == IF mids = "none" THEN "none" ELSE "old"

\* Mutant: the flag of the attempt survives its failure.
onDropConnecting(t) ==
    /\ ws' = "none" /\ connected' = FALSE /\ UNCHANGED connecting
    /\ mids' = older /\ down' = TRUE
    /\ timers' = IF closed THEN t ELSE t + 1

\* onDrop, t timers pending: the socket is gone, a timer will open the next.
onDrop(t) ==
    /\ ws' = "none" /\ connected' = FALSE /\ connecting' = FALSE
    /\ mids' = older /\ down' = TRUE
    /\ timers' = IF closed THEN t ELSE t + 1

\* The constructor of the socket returns one, or throws: that attempt is over,
\* and no timer is set for another.
attempt ==
    /\ down' = FALSE
    /\ \/ ws' = "opening" /\ connecting' = TRUE
       \/ UNCHANGED <<ws, connecting>>

\* ensureConnected, t timers pending: a silent socket is dropped; a socket is
\* opened unless there is one or the feed is closed.
ensureConnected(t) ==
    IF connected /\ heard = "silent" THEN t < MaxTimers /\ onDrop(t)
    ELSE /\ IF closed \/ connected \/ connecting THEN UNCHANGED <<ws, connecting, down>>
            ELSE attempt
         /\ timers' = t
         /\ UNCHANGED <<connected, mids>>

\* getMid: what the map holds if the feed is fresh, else a request.
getMid ==
    /\ ensureConnected(timers)
    /\ served' = IF connected' /\ heard = "fresh" /\ mids # "none" THEN mids ELSE "rest"
    /\ UNCHANGED <<closed, heard>>

reconnect ==
    /\ timers > 0
    /\ ensureConnected(timers - 1)
    /\ UNCHANGED <<closed, heard, served>>

\* on open: silence is measured from here.  A closed feed ends the socket, and
\* its close event is dropped's.
opened ==
    /\ ws = "opening" /\ ~closed
    /\ ws' = "open" /\ connected' = TRUE /\ connecting' = FALSE
    /\ heard' = "fresh"
    /\ UNCHANGED <<closed, mids, timers, served, down>>

\* on message: of all mids, or of anything else.
message ==
    /\ ws = "open" /\ heard' = "fresh"
    /\ mids' \in {mids, "this"}
    /\ UNCHANGED <<ws, connected, connecting, closed, timers, served, down>>

\* on close, on error.
dropped ==
    /\ ws # "none" /\ timers < MaxTimers
    /\ onDrop(timers)
    /\ UNCHANGED <<closed, heard, served>>

\* close: the handlers stay with the socket.
close ==
    /\ ~closed
    /\ closed' = TRUE /\ connected' = FALSE
    /\ UNCHANGED <<ws, connecting, heard, mids, timers, served, down>>

timePasses ==
    /\ heard # "silent"
    /\ heard' = IF heard = "fresh" THEN "late" ELSE "silent"
    /\ UNCHANGED <<ws, connected, connecting, closed, mids, timers, served, down>>

FeedNext ==
    \/ getMid \/ reconnect \/ opened \/ message \/ dropped \/ close \/ timePasses

\* Timers fire.
FeedFairness == WF_feedVars(reconnect)

------------------------------------------------------------------------------
\* A drop, of an open socket, of one that was opening or of a silent one, is
\* followed by another attempt unless the feed is closed, though nobody asks for
\* a price: no flag left over from a failed attempt keeps the feed down, and no
\* drop is left without a timer (ws.ts:86-101).  Of an attempt that failed in the
\* constructor (ws.ts:80-83) this says nothing: the next one is the next getMid's.
FeedReconnects == down ~> (~down \/ closed)
==============================================================================
