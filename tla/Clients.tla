------------------------------- MODULE Clients -------------------------------
(***************************************************************************)
(* The publishers and consumers of one broker, which is a ChannelProvider: *)
(* each caches the channel it was handed (channel() of src/src/publisher.ts *)
(* and src/src/consumer.ts), a consumer may get its own from a publisher   *)
(* (options.publisher), and the broker keeps one publisher of its own for  *)
(* publish() and sendToQueue() (src/src/broker.ts).                        *)
(*                                                                         *)
(* The promises of channel() are native: when the broker has a channel,    *)
(* all clients that wait for it in turn take it before the next event.     *)
(***************************************************************************)
EXTENDS FiniteSets

CONSTANTS Calls,        \* overlapping calls of some channel()
          Pool,         \* the publishers that publisher() may make (a bound)
          Publishers,   \* those that the application makes with createPublisher()
          Consumers,
          PublisherOf,  \* options.publisher of every consumer
          Confirming,   \* the clients with options.publisherConfirms
          Chans, None

Clients == Pool \cup Publishers \cup Consumers

ASSUME NoneAssumption == None \notin Chans \cup Clients \cup {"normal", "confirming"}
ASSUME ClientsAssumption ==
    /\ Pool \cap Publishers = {} /\ (Pool \cup Publishers) \cap Consumers = {}
    /\ PublisherOf \in [Consumers -> Pool \cup Publishers \cup {None}]
    /\ Confirming \subseteq Clients

VARIABLES cache, heard, status, ask,  \* the broker, as a ChannelProvider
          channel,                    \* this[$channel] of every client
          listens,                    \* the channels whose 'close' reaches a client
          waiting,                    \* the clients that wait in turn in every call
          shared,                     \* this[$publisher] of the broker
          made                        \* the publishers of Pool made so far

brokerVars == <<cache, heard, status, ask>>
clientVars == <<channel, listens, waiting, shared, made>>
vars == <<brokerVars, clientVars>>

Broker == INSTANCE ChannelProvider WITH Askers <- Calls

TypeOK ==
    /\ Broker!TypeOK
    /\ channel \in [Clients -> Chans \cup {None}]
    /\ listens \in [Clients -> SUBSET Chans]
    /\ waiting \in [Calls -> SUBSET Clients]
    /\ shared \in Pool \cup {None}
    /\ made \subseteq Pool

Init ==
    /\ Broker!Init
    /\ channel = [p \in Clients |-> None]
    /\ listens = [p \in Clients |-> {}]
    /\ waiting = [a \in Calls |-> {}]
    /\ shared = None
    /\ made = {}

-----------------------------------------------------------------------------
(***************************************************************************)
(* channel()                                                               *)
(***************************************************************************)
Exists(p) == p \in Pool => p \in made
Parent(p) == IF p \in Consumers THEN PublisherOf[p] ELSE None

\* Whom client p asks for a channel in the end: the broker, itself or by its publisher.
AskerItself(p) == p
Asker(p) == IF Parent(p) = None THEN p ELSE Parent(p)
Kind(p) == IF Asker(p) \in Confirming THEN "confirming" ELSE "normal"

\* The clients without a channel on the way there, and the channel cached at its end.
Chain(p) == {q \in {p, Asker(p)} : channel[q] = None}
Cached(p) == IF channel[Asker(p)] # None THEN channel[Asker(p)] ELSE cache[Kind(p)]

\* The clients W listen to channel h and cache it, whatever they have cached meanwhile.
Adopt(W, h) ==
    /\ channel' = [p \in Clients |-> IF p \in W THEN h ELSE channel[p]]
    /\ listens' = [p \in Clients |-> IF p \in W /\ status[h] \in Broker!Live
                                     THEN listens[p] \cup {h} ELSE listens[p]]

GetCached(p) ==
    /\ Exists(p) /\ channel[p] = None /\ Cached(p) # None
    /\ Adopt(Chain(p), Cached(p))
    /\ UNCHANGED <<brokerVars, waiting, shared, made>>

GetNewUnawaited(a, p) ==
    /\ Exists(p) /\ channel[p] = None /\ Cached(p) = None
    /\ Broker!Ask(a, Kind(p))
    /\ waiting' = [waiting EXCEPT ![a] = Chain(p)]
    /\ channel' = [q \in Clients |-> IF q \in Chain(p) THEN a ELSE channel[q]]
    /\ UNCHANGED <<listens, shared, made>>
GetNew(a, p) ==
    /\ Exists(p) /\ channel[p] = None /\ Cached(p) = None
    /\ Broker!Ask(a, Kind(p))
    /\ waiting' = [waiting EXCEPT ![a] = Chain(p)]
    /\ UNCHANGED <<channel, listens, shared, made>>

\* channel() of the broker itself, as its own operations call it.
AskBroker(a, k) == Broker!Ask(a, k) /\ UNCHANGED clientVars

Handed(a) ==
    /\ Broker!Hand(a)
    /\ Adopt(waiting[a], ask[a].chan)
    /\ waiting' = [waiting EXCEPT ![a] = {}]
    /\ UNCHANGED <<shared, made>>

Failed(a) ==
    /\ Broker!Fail(a)
    /\ waiting' = [waiting EXCEPT ![a] = {}]
    /\ UNCHANGED <<channel, listens, shared, made>>

(***************************************************************************)
(* The broker's own publisher, and close()                                 *)
(***************************************************************************)
\* publisher() without one; publish() and sendToQueue() begin with it.
MakeShared(p) ==
    /\ shared = None /\ p \in Pool \ made
    /\ shared' = p
    /\ made' = made \cup {p}
    /\ UNCHANGED <<brokerVars, channel, listens, waiting>>

\* When any of the publishers P emits 'close', the broker's cleanup task checks
\* that it is still the shared one.
DropAny(P) == IF P # {} THEN None ELSE shared
Drop(P) == IF shared \in P THEN None ELSE shared

\* close() of a publisher emits 'close' if it has a channel, and keeps that.
Emits(P) == {p \in P : channel[p] # None}

ClosePublisher(p) ==
    /\ Exists(p) /\ channel[p] # None
    /\ shared' = Drop({p})
    /\ UNCHANGED <<brokerVars, channel, listens, waiting, made>>

\* close() of the broker: its publisher, then its channels, then the connection.
CloseBroker(H) ==
    /\ Broker!TellToClose(H)
    /\ shared' = Drop(Emits({shared} \ {None}))
    /\ UNCHANGED <<channel, listens, waiting, made>>

\* The channels H close: every client that listens to one of them empties its
\* cache of it, and emits 'close', also when it uses another one by now.
EvictedOfConsumers(H) ==
    [p \in Clients |-> IF p \in Consumers /\ channel[p] \in H \cap listens[p] THEN None ELSE channel[p]]
Evicted(H) == [p \in Clients |-> IF channel[p] \in H \cap listens[p] THEN None ELSE channel[p]]
Hears(H) == {p \in Pool \cup Publishers : H \cap listens[p] # {}}

ChannelsClose(H) ==
    /\ Broker!Close(H)
    /\ channel' = Evicted(H)
    /\ shared' = Drop(Hears(H))
    /\ waiting' = [a \in Calls |-> IF ask'[a] = Broker!NoAsk THEN {} ELSE waiting[a]]
    /\ UNCHANGED <<listens, made>>

\* The server's part.
ChannelOpens(a, h) == (Broker!Begin(a, h) \/ Broker!Opened(h)) /\ UNCHANGED clientVars

-----------------------------------------------------------------------------
Next ==
    \/ \E p \in Clients : GetCached(p) \/ \E a \in Calls : GetNew(a, p)
    \/ \E p \in Pool : MakeShared(p)
    \/ \E p \in Pool \cup Publishers : ClosePublisher(p)
    \/ \E a \in Calls : \/ Handed(a) \/ Failed(a)
                        \/ \E k \in Broker!Kinds : AskBroker(a, k)
                        \/ \E h \in Chans : ChannelOpens(a, h)
    \/ \E H \in SUBSET Chans : CloseBroker(H) \/ ChannelsClose(H)

Spec == Init /\ [][Next]_vars

-----------------------------------------------------------------------------
(***************************************************************************)
(* Properties                                                              *)
(***************************************************************************)
\* No client keeps a channel that it heard close, however many of them, and of
\* their calls, share the broker's two channels; nor does the broker.
CachesAreLive ==
    /\ \A p \in Clients : channel[p] \in listens[p] => status[channel[p]] \in Broker!Live
    /\ \A k \in Broker!Kinds : cache[k] \in heard => status[cache[k]] \in Broker!Live

\* No client is handed a channel that it has heard close, neither by the broker
\* nor by a publisher: what Publisher and Consumer assume of their provider.
NeverHandedTheDead ==
    [][\A p \in Clients : channel'[p] \in listens[p] \ {channel[p]} =>
          status[channel'[p]] # "closed"]_vars

\* A consumer with a publisher uses the publisher's channel.
SharesChannel(p) == channel[p] # None => channel[p] = channel[PublisherOf[p]]

\* It stops to do so only when a call that overlapped with others gets a channel
\* of its own, never because channels close or publishers do.
DivergesOnlyByOverlap ==
    [][\A p \in Consumers : PublisherOf[p] # None /\ SharesChannel(p) /\ ~SharesChannel(p)' =>
          \E a \in Calls : PublisherOf[p] \in waiting[a] /\ waiting'[a] = {}]_vars

\* The broker lets go of its publisher only when that publisher is closed or a
\* channel it listens to closes, whatever other publishers come and go.
SharedIsKept ==
    [][shared # None /\ shared' # shared =>
          /\ shared' = None
          /\ \/ channel[shared] # None /\ (ClosePublisher(shared) \/ \E H \in SUBSET Chans : CloseBroker(H))
             \/ \E h \in listens[shared] : status'[h] # status[h] /\ status'[h] = "closed"]_vars
=============================================================================
