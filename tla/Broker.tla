------------------------------- MODULE Broker -------------------------------
(***************************************************************************)
(* The Broker of src/src/broker.ts: one cached AMQP connection, one cached  *)
(* channel of each kind, and the asynchronous calls that create, use and   *)
(* close them.  A call is an async function: it runs to its next await in  *)
(* one step, so every await is a value of call[c].at, and what other calls *)
(* and the server do meanwhile happens between two of its steps.           *)
(*                                                                         *)
(* amqplib settles a promise in the step in which it reads the server's    *)
(* answer; the code after the await runs later ("connected", "opened").    *)
(* The broker attaches its 'close' listener only in that later step.       *)
(***************************************************************************)
EXTENDS Naturals, FiniteSets

CONSTANTS Callers,  \* concurrent users of one Broker object
          Conns,    \* amqplib connections that may be opened (a bound)
          Chans,    \* amqplib channels that may be opened (a bound)
          None      \* null and undefined

ASSUME NoneAssumption == None \notin Conns \cup Chans
ASSUME DistinctAssumption == Conns \cap Chans = {}

VARIABLES connection,  \* this[$connection]
          channels,    \* this.channels
          watched,     \* emitters whose 'close' event reaches this broker
          cn,          \* amqplib: the status of every connection
          chan,        \* amqplib: the status, connection and kind of every channel
          call         \* the activation record of each caller's async call

vars == <<connection, channels, watched, cn, chan, call>>

-----------------------------------------------------------------------------
Kinds  == {"normal", "confirming"}
ASSUME KindsAssumption == None \notin Kinds
Status == {"unused", "opening", "open", "closing", "closed"}
Live   == {"open", "closing"}      \* the 'close' event has not fired yet

\* "rpc" stands for every operation that awaits a channel and then one reply.
ChannelOps == {"channel", "confirmChannel", "rpc"}
Ops        == ChannelOps \cup {"connect", "close", "none"}
KindOf(op) == IF op = "confirmChannel" THEN "confirming" ELSE "normal"

Points == {"idle", "connecting", "connected", "creating", "opening", "opened",
           "using", "replying", "closing", "closed"}

Frame == [op : Ops, at : Points, conn : Conns \cup {None}, chan : Chans \cup {None}]
Idle  == [op |-> "none", at |-> "idle", conn |-> None, chan |-> None]

TypeOK ==
    /\ connection \in Conns \cup {None}
    /\ channels \in [Kinds -> Chans \cup {None}]
    /\ watched \subseteq Conns \cup Chans
    /\ cn \in [Conns -> Status]
    /\ chan \in [Chans -> [status : Status, conn : Conns \cup {None}, kind : Kinds]]
    /\ call \in [Callers -> Frame]

Init ==
    /\ connection = None
    /\ channels = [k \in Kinds |-> None]
    /\ watched = {}
    /\ cn = [x \in Conns |-> "unused"]
    /\ chan = [y \in Chans |-> [status |-> "unused", conn |-> None, kind |-> "normal"]]
    /\ call = [c \in Callers |-> Idle]

-----------------------------------------------------------------------------
\* Helpers: where a call stands, and what a closing emitter does.

At(c, p)   == call[c].at = p
Settle(c)  == call' = [call EXCEPT ![c] = Idle]      \* the call returns or rejects
GoTo(c, p) == call' = [call EXCEPT ![c].at = p]

\* Listeners attached to an emitter that has already closed never run.
Watch(r, status) == IF status \in Live THEN watched \cup {r} ELSE watched

\* The cleanup task of a connection, with its identity check.
EvictConnectionAlways(x) == None
EvictConnection(x) == IF connection = x /\ x \in watched THEN None ELSE connection

\* The cleanup tasks of the channels Y, with their identity check.
EvictChannelsNever(Y) == channels
EvictChannelsMisspelt(Y) ==
    [k \in Kinds \cup {"confirm"} |->
        IF k \notin Kinds \/ channels["confirming"] \in Y \cap watched THEN None ELSE channels[k]]
EvictChannelsByKind(Y) ==
    [k \in Kinds |-> IF \E y \in Y \cap watched : chan[y].kind = k THEN None ELSE channels[k]]
EvictChannels(Y) ==
    [k \in Kinds |-> IF channels[k] \in Y \cap watched THEN None ELSE channels[k]]

Closed(Y) ==
    [y \in Chans |-> IF y \in Y THEN [chan[y] EXCEPT !.status = "closed"] ELSE chan[y]]

\* Calls that wait for an answer on a channel in Y are rejected when it closes.
Rejected(Y) == {c \in Callers : call[c].at \in {"opening", "replying"} /\ call[c].chan \in Y}

\* Bound: a call starts only if the channels left suffice for every call in flight.
ChannelsLeft ==
    Cardinality({y \in Chans : chan[y].status = "unused"}) >
    Cardinality({c \in Callers : call[c].op \in ChannelOps
                                 /\ call[c].at \in {"connecting", "connected", "creating"}})

-----------------------------------------------------------------------------
(***************************************************************************)
(* connect(), also as the first await of channel() and confirmChannel().   *)
(***************************************************************************)
NoConnectionAlways == TRUE
NoConnection == connection = None

\* The early return with the cached connection.
ReuseConnection(c, op) ==
    /\ ~NoConnection
    /\ call' = [call EXCEPT ![c] = [op |-> op, at |-> "creating", conn |-> connection, chan |-> None]]
    /\ UNCHANGED cn

\* amqplib's connect() is called; the Bound is that a connection is unused.
OpenConnection(c, op) ==
    /\ NoConnection
    /\ \E x \in Conns :
          /\ cn[x] = "unused"
          /\ cn' = [cn EXCEPT ![x] = "opening"]
          /\ call' = [call EXCEPT ![c] = [op |-> op, at |-> "connecting", conn |-> x, chan |-> None]]

Connect(c) ==
    /\ At(c, "idle")
    /\ OpenConnection(c, "connect")
    /\ UNCHANGED <<connection, channels, watched, chan>>

\* After the await: attach the listeners, cache the connection, return it.
ConnectResumes(c) ==
    LET x == call[c].conn IN
    /\ At(c, "connected")
    /\ watched' = Watch(x, cn[x])
    /\ connection' = x
    /\ IF call[c].op = "connect" THEN Settle(c) ELSE GoTo(c, "creating")
    /\ UNCHANGED <<channels, cn, chan>>

(***************************************************************************)
(* channel(), confirmChannel() and the operations that need a channel.     *)
(* A call that finds its channel cached returns it and changes nothing.    *)
(***************************************************************************)
Channel(c, op) ==
    /\ At(c, "idle")
    /\ channels[KindOf(op)] = None
    /\ ChannelsLeft
    /\ ReuseConnection(c, op) \/ OpenConnection(c, op)
    /\ UNCHANGED <<connection, channels, watched, chan>>

\* cn.createChannel() or cn.createConfirmChannel(): it throws on a dead connection.
CreateChannelWaits(c) ==
    /\ At(c, "creating")
    /\ cn[call[c].conn] = "open"
    /\ \E y \in Chans :
          /\ chan[y].status = "unused"
          /\ chan' = [chan EXCEPT ![y] = [status |-> "opening", conn |-> call[c].conn,
                                          kind |-> KindOf(call[c].op)]]
          /\ call' = [call EXCEPT ![c].at = "opening", ![c].chan = y]
    /\ UNCHANGED <<connection, channels, watched, cn>>

CreateChannel(c) ==
    \/ CreateChannelWaits(c)
    \/ /\ At(c, "creating")
       /\ cn[call[c].conn] # "open"
       /\ Settle(c)
       /\ UNCHANGED <<connection, channels, watched, cn, chan>>

\* After the await: attach the listeners, cache the channel, return it.
ChannelResumes(c) ==
    LET y == call[c].chan IN
    /\ At(c, "opened")
    /\ watched' = Watch(y, chan[y].status)
    /\ channels' = [channels EXCEPT ![KindOf(call[c].op)] = y]
    /\ IF call[c].op = "rpc" THEN GoTo(c, "using") ELSE Settle(c)
    /\ UNCHANGED <<connection, cn, chan>>

\* assertQueue() and its siblings with a cached channel.
Rpc(c) ==
    /\ At(c, "idle")
    /\ channels["normal"] # None
    /\ call' = [call EXCEPT ![c] = [op |-> "rpc", at |-> "using", conn |-> None,
                                    chan |-> channels["normal"]]]
    /\ UNCHANGED <<connection, channels, watched, cn, chan>>

\* ch.assertQueue(...): sent on an open channel, thrown back by any other.
SendRpc(c) ==
    /\ At(c, "using")
    /\ IF chan[call[c].chan].status = "open" THEN GoTo(c, "replying") ELSE Settle(c)
    /\ UNCHANGED <<connection, channels, watched, cn, chan>>

(***************************************************************************)
(* close(): the cached channels and then the cached connection are told to *)
(* close in one step; only the connection is awaited.                      *)
(***************************************************************************)
ToClose == {y \in Chans : /\ \E k \in Kinds : channels[k] = y
                          /\ chan[y].status = "open"
                          /\ cn[chan[y].conn] = "open"}

CloseUnawaited(c) ==
    /\ At(c, "idle")
    /\ connection # None
    /\ call' = [call EXCEPT ![c] = [op |-> "close", at |-> "closed", conn |-> connection, chan |-> None]]
    /\ cn' = [cn EXCEPT ![connection] = IF @ = "open" THEN "closing" ELSE @]
    /\ UNCHANGED <<connection, channels, watched, chan>>

Close(c) ==
    /\ At(c, "idle")
    /\ connection # None
    /\ chan' = [y \in Chans |-> IF y \in ToClose THEN [chan[y] EXCEPT !.status = "closing"] ELSE chan[y]]
    /\ IF cn[connection] = "open"
       THEN /\ cn' = [cn EXCEPT ![connection] = "closing"]
            /\ call' = [call EXCEPT ![c] = [op |-> "close", at |-> "closing",
                                            conn |-> connection, chan |-> None]]
       ELSE UNCHANGED <<cn, call>>          \* cn.close() throws: close() rejects
    /\ UNCHANGED <<connection, channels, watched>>

\* After the await: emit 'close' with source 'self' and return.
CloseResumes(c) ==
    /\ At(c, "closed")
    /\ Settle(c)
    /\ UNCHANGED <<connection, channels, watched, cn, chan>>

-----------------------------------------------------------------------------
(***************************************************************************)
(* amqplib and the server: code outside the repository.                    *)
(***************************************************************************)
ConnectionOpens(c) ==
    /\ At(c, "connecting")
    /\ cn' = [cn EXCEPT ![call[c].conn] = "open"]
    /\ GoTo(c, "connected")
    /\ UNCHANGED <<connection, channels, watched, chan>>

ConnectionRefused(c) ==
    /\ At(c, "connecting")
    /\ cn' = [cn EXCEPT ![call[c].conn] = "closed"]
    /\ Settle(c)
    /\ UNCHANGED <<connection, channels, watched, chan>>

ChannelOpens(c) ==
    LET y == call[c].chan IN
    /\ At(c, "opening")
    /\ cn[chan[y].conn] = "open"
    /\ chan' = [chan EXCEPT ![y].status = "open"]
    /\ GoTo(c, "opened")
    /\ UNCHANGED <<connection, channels, watched, cn>>

RpcReply(c) ==
    /\ At(c, "replying")
    /\ chan[call[c].chan].status = "open"
    /\ cn[chan[call[c].chan].conn] = "open"
    /\ Settle(c)
    /\ UNCHANGED <<connection, channels, watched, cn, chan>>

\* Channel y closes: by the server's error, or as it was asked to.
ChannelCloses(y) ==
    /\ chan[y].status \in {"opening", "open", "closing"}
    /\ chan' = Closed({y})
    /\ channels' = EvictChannels({y})
    /\ call' = [c \in Callers |-> IF c \in Rejected({y}) THEN Idle ELSE call[c]]
    /\ UNCHANGED <<connection, watched, cn>>

\* Connection x closes, and its channels before it, in one synchronous burst
\* of 'close' events.  Only the server's close-ok settles the promise of
\* cn.close(): if the socket is lost first, close() keeps waiting.
ConnectionCloses(x, closeOk) ==
    LET Y == {y \in Chans : chan[y].conn = x /\ chan[y].status \in {"opening", "open", "closing"}} IN
    /\ IF closeOk THEN cn[x] = "closing" ELSE cn[x] \in Live
    /\ cn' = [cn EXCEPT ![x] = "closed"]
    /\ connection' = EvictConnection(x)
    /\ chan' = Closed(Y)
    /\ channels' = EvictChannels(Y)
    /\ call' = [c \in Callers |->
                   IF c \in Rejected(Y) THEN Idle
                   ELSE IF closeOk /\ At(c, "closing") /\ call[c].conn = x
                        THEN [call[c] EXCEPT !.at = "closed"] ELSE call[c]]
    /\ UNCHANGED watched

-----------------------------------------------------------------------------
Request(c) ==
    \/ Connect(c) \/ Rpc(c) \/ Close(c)
    \/ \E op \in ChannelOps : Channel(c, op)

Resume(c) ==
    \/ ConnectResumes(c) \/ CreateChannel(c) \/ ChannelResumes(c)
    \/ SendRpc(c) \/ CloseResumes(c)

Answer(c) ==
    \/ ConnectionOpens(c) \/ ConnectionRefused(c)
    \/ ChannelOpens(c) \/ RpcReply(c)

ConnectionEnds(x) == \E closeOk \in BOOLEAN : ConnectionCloses(x, closeOk)

Next ==
    \/ \E c \in Callers : Request(c) \/ Resume(c) \/ Answer(c)
    \/ \E y \in Chans : ChannelCloses(y)
    \/ \E x \in Conns : ConnectionEnds(x)

Spec == Init /\ [][Next]_vars

\* The event loop runs every continuation; the server answers what is asked or,
\* by the heartbeat, the connection is lost.
Fairness ==
    /\ \A c \in Callers : WF_vars(Resume(c)) /\ WF_vars(Answer(c))
    /\ \A x \in Conns : WF_vars(cn[x] = "closing" /\ ConnectionEnds(x))
    /\ \A y \in Chans : WF_vars(chan[y].status = "closing" /\ ChannelCloses(y))

FairSpec == Spec /\ Fairness

-----------------------------------------------------------------------------
(***************************************************************************)
(* Properties                                                              *)
(***************************************************************************)

\* What channel(), confirmChannel() and connect() return from the cache is not
\* dead: a cached connection or channel whose 'close' the broker can hear has
\* not closed, and neither has the connection under a cached channel.  The one
\* dead entry possible is an emitter that closed before it could be listened to.
CacheIsLive ==
    /\ connection \in watched => cn[connection] \in Live
    /\ \A k \in Kinds : channels[k] \in watched =>
          /\ chan[channels[k]].status \in Live
          /\ cn[chan[channels[k]].conn] \in Live

\* When close() returns, its connection is closed and the broker has let go of
\* it and of every channel on it that it listens to, whatever other calls have
\* cached while close() was waiting.
CloseReleases ==
    \A c \in Callers : At(c, "closed") =>
        /\ cn[call[c].conn] = "closed"
        /\ connection # call[c].conn
        /\ \A k \in Kinds : channels[k] \in watched => chan[channels[k]].conn # call[c].conn

\* The cleanup of an emitter that another one has replaced in the cache leaves
\* its replacement alone: only the death of the cached emitter itself empties
\* the cache.
EvictionStep ==
    /\ connection # None /\ connection' = None => cn'[connection] = "closed"
    /\ \A k \in Kinds : channels[k] # None /\ channels'[k] = None =>
          chan'[channels[k]].status = "closed"

EvictsOnlyTheDead == [][EvictionStep]_vars

\* An open connection that neither the broker nor a call of it can reach is
\* never closed by close().  One arises in a single way: connect() finishes
\* while the broker has a connection, and takes its place.
Orphans == {x \in Conns : /\ cn[x] = "open"
                          /\ connection # x
                          /\ \A c \in Callers : ~(At(c, "connected") /\ call[c].conn = x)}

OrphanedOnlyByOverwrite ==
    [][\A x \in Orphans' \ Orphans :
          connection = x /\ \E c \in Callers : At(c, "connected") /\ connection' = call[c].conn]_vars

\* Every call returns or rejects, save a close() whose connection was lost
\* before the server confirmed that it closed.
CallsSettle ==
    \A c \in Callers :
        ~At(c, "idle") ~> (At(c, "idle") \/ (At(c, "closing") /\ cn[call[c].conn] = "closed"))

\* With calls that do not overlap: at most one connection exists at a time.
OneConnection ==
    \A x, y \in Conns : {cn[x], cn[y]} \subseteq Live \cup {"opening"} => x = y

\* With calls that do not overlap: when close() returns nothing is left open.
CloseLeavesNothingOpen ==
    (\E c \in Callers : At(c, "closed")) =>
        /\ \A x \in Conns : cn[x] \in {"unused", "closed"}
        /\ \A y \in Chans : chan[y].status \in {"unused", "closed"}

\* The broker keeps the promise of a ChannelProvider: a call of channel() asks from
\* its first await until it has cached the channel that it opened.
Asking == {"connecting", "connected", "creating", "opening", "opened"}
AskOf(c) ==
    IF call[c].op \in ChannelOps /\ call[c].at \in Asking
    THEN [kind |-> KindOf(call[c].op), chan |-> call[c].chan]
    ELSE [kind |-> None, chan |-> None]

Provider == INSTANCE ChannelProvider
                WITH Askers <- Callers,
                     cache  <- channels,
                     heard  <- watched \cap Chans,
                     status <- [y \in Chans |-> chan[y].status],
                     ask    <- [c \in Callers |-> AskOf(c)]

\* Whatever calls overlap and whichever connections are lost: to publishers and
\* consumers the broker is a cache that a dead channel leaves at once, and every
\* call of channel() either fails or caches a channel opened for it alone.
ImplementsProvider == Provider!Spec
=============================================================================
