--------------------------- MODULE ChannelProvider ---------------------------
(***************************************************************************)
(* What the interface ChannelProvider of src/src/common.ts promises to     *)
(* publishers and consumers: channel() hands out the channel it has cached *)
(* or asks for a new one and caches that; a channel it listens to leaves   *)
(* the cache in the very step in which it closes.  How connections come    *)
(* about is left out: Broker implements this specification, and Clients    *)
(* is built on it.                                                         *)
(***************************************************************************)
CONSTANTS Askers, Chans, None

VARIABLES cache,   \* the channel of each kind that is handed out
          heard,   \* the channels whose 'close' event reaches the provider
          status,  \* the status of every channel
          ask      \* the calls that wait for a new channel

vars == <<cache, heard, status, ask>>

Kinds == {"normal", "confirming"}
Live == {"open", "closing"}
NoAsk == [kind |-> None, chan |-> None]
AskRecord == [kind : Kinds \cup {None}, chan : Chans \cup {None}]

TypeOK ==
    /\ cache \in [Kinds -> Chans \cup {None}]
    /\ heard \subseteq Chans
    /\ status \in [Chans -> Live \cup {"unused", "opening", "closed"}]
    /\ ask \in [Askers -> AskRecord]

Init ==
    /\ cache = [k \in Kinds |-> None]
    /\ heard = {}
    /\ status = [h \in Chans |-> "unused"]
    /\ ask = [a \in Askers |-> NoAsk]

\* channel() with an empty cache.
Ask(a, k) ==
    /\ ask[a] = NoAsk /\ cache[k] = None
    /\ ask' = [ask EXCEPT ![a] = [kind |-> k, chan |-> None]]
    /\ UNCHANGED <<cache, heard, status>>

\* The connection is refused or dead: channel() rejects.
Fail(a) ==
    /\ ask[a] # NoAsk /\ ask[a].chan = None
    /\ ask' = [ask EXCEPT ![a] = NoAsk]
    /\ UNCHANGED <<cache, heard, status>>

\* Every call that waits opens a channel of its own.
Begin(a, h) ==
    /\ ask[a] # NoAsk /\ ask[a].chan = None
    /\ status[h] = "unused"
    /\ status' = [status EXCEPT ![h] = "opening"]
    /\ ask' = [ask EXCEPT ![a].chan = h]
    /\ UNCHANGED <<cache, heard>>

Opened(h) ==
    /\ status[h] = "opening"
    /\ status' = [status EXCEPT ![h] = "open"]
    /\ UNCHANGED <<cache, heard, ask>>

\* channel() caches the new channel and returns it, also if it has died meanwhile;
\* then nobody hears of it.
Hand(a) ==
    LET h == ask[a].chan IN
    /\ h # None /\ status[h] # "opening"
    /\ cache' = [cache EXCEPT ![ask[a].kind] = h]
    /\ heard' = IF status[h] \in Live THEN heard \cup {h} ELSE heard
    /\ ask' = [ask EXCEPT ![a] = NoAsk]
    /\ UNCHANGED status

\* close() tells channels of the cache to close.
TellToClose(H) ==
    /\ \A h \in H : status[h] = "open" /\ \E k \in Kinds : cache[k] = h
    /\ status' = [h \in Chans |-> IF h \in H THEN "closing" ELSE status[h]]
    /\ UNCHANGED <<cache, heard, ask>>

\* The channels H close together, as those of a connection do.
Close(H) ==
    /\ \A h \in H : status[h] \in Live \cup {"opening"}
    /\ status' = [h \in Chans |-> IF h \in H THEN "closed" ELSE status[h]]
    /\ cache' = [k \in Kinds |-> IF cache[k] \in H \cap heard THEN None ELSE cache[k]]
    /\ ask' = [a \in Askers |-> IF ask[a].chan \in H /\ status[ask[a].chan] = "opening"
                                THEN NoAsk ELSE ask[a]]
    /\ UNCHANGED heard

Next ==
    \/ \E a \in Askers, k \in Kinds : Ask(a, k)
    \/ \E a \in Askers : Fail(a) \/ Hand(a) \/ \E h \in Chans : Begin(a, h)
    \/ \E h \in Chans : Opened(h)
    \/ \E H \in SUBSET Chans : TellToClose(H) \/ Close(H)

Spec == Init /\ [][Next]_vars
=============================================================================
