------------------------------- MODULE Consumer -------------------------------
(***************************************************************************)
(* consume(), cancel() and close() of src/src/consumer.ts: overlapping     *)
(* calls on one Consumer, which keeps one channel and one consumerTag      *)
(* although every consume() makes a subscription of its own.  The server   *)
(* may cancel a subscription (its callback gets null and calls cancel())   *)
(* and a channel may close at any point of this.                           *)
(*                                                                         *)
(* As in Publisher, a call at "subscribing" is in a microtask: it moves    *)
(* before the next event is handled (Quiet).  amqplib's own promises are   *)
(* bluebird's, so the code after ch.consume() and ch.cancel() runs in a    *)
(* later turn ("subscribed", "canceled").                                  *)
(***************************************************************************)
EXTENDS Naturals, FiniteSets

CONSTANTS Callers,  \* concurrent users of one Consumer
          Tags,     \* the tags the server may give out (a bound)
          Chans,    \* the channels the provider may hand out (a bound)
          None

ASSUME NoneAssumption == None \notin Chans \cup Tags
ASSUME DistinctAssumption == Callers \cap Tags = {}

VARIABLES channel,  \* this[$channel]
          watched,  \* the channels whose 'close' event reaches this consumer
          status,   \* amqplib: the status of every channel
          tag,      \* this.consumerTag
          sub,      \* server: the subscription under each tag
          call,     \* the activation record of every call
          careful   \* whether the application lets consume() overlap with nothing

vars == <<channel, watched, status, tag, sub, call, careful>>

-----------------------------------------------------------------------------
\* Tag t as a party: the subscription's callback, called with null.
Who    == Callers \cup Tags
Status == {"unused", "open", "closing", "closed"}
Points == {"idle", "asking", "subscribing", "asked", "subscribed",
           "cancelling", "canceled", "closed"}

Frame == [op : {"none", "consume", "cancel", "close"}, at : Points,
          chan : Chans \cup {None}, tag : Tags \cup {None}]
Idle  == [op |-> "none", at |-> "idle", chan |-> None, tag |-> None]

TypeOK ==
    /\ channel \in Chans \cup {None}
    /\ watched \subseteq Chans
    /\ status \in [Chans -> Status]
    /\ tag \in Tags \cup {None}
    /\ sub \in [Tags -> [status : {"unused", "live", "gone"}, chan : Chans \cup {None}]]
    /\ call \in [Who -> Frame]
    /\ careful \in BOOLEAN

Init ==
    /\ channel = None
    /\ watched = {}
    /\ status = [h \in Chans |-> "unused"]
    /\ tag = None
    /\ sub = [t \in Tags |-> [status |-> "unused", chan |-> None]]
    /\ call = [w \in Who |-> Idle]
    /\ careful \in BOOLEAN

-----------------------------------------------------------------------------
At(w, p)   == call[w].at = p
GoTo(w, p) == call' = [call EXCEPT ![w].at = p]
Settle(w)  == call' = [call EXCEPT ![w] = Idle]

Live(t) == sub[t].status = "live"
Ends(t) == sub' = [sub EXCEPT ![t].status = "gone"]

Consuming == {w \in Who : call[w].op = "consume"}

\* No continuation is due: the next event may be handled.
Quiet == \A w \in Who : ~At(w, "subscribing")

(***************************************************************************)
(* consume()                                                               *)
(***************************************************************************)
\* Bound: a call starts only if the tags left suffice for all that subscribe.
TagsLeft == Cardinality({t \in Tags : sub[t].status = "unused"}) >
            Cardinality({w \in Consuming : ~At(w, "subscribed")})

\* channel() returns the cached channel, or the provider is asked for one.
Consume(c) ==
    /\ At(c, "idle")
    /\ careful => (\A w \in Who : At(w, "idle")) /\ \A t \in Tags : ~Live(t)
    /\ TagsLeft
    /\ call' = [call EXCEPT ![c] = [op |-> "consume", chan |-> channel, tag |-> None,
                                    at |-> IF channel = None THEN "asking" ELSE "subscribing"]]
    /\ UNCHANGED <<channel, watched, status, tag, sub, careful>>

\* channel(), after its await: the provider hands out a channel, which it may have
\* opened for others.  Listeners on one that has closed never run, and it does not
\* hand out one that it heard close: see Publisher.
ChannelResumes(c, h) ==
    /\ At(c, "asking")
    /\ status[h] = "closed" => h \notin watched
    /\ \E s \in IF status[h] = "unused" THEN Status \ {"unused"} ELSE {status[h]} :
          /\ status' = [status EXCEPT ![h] = s]
          /\ watched' = IF s = "closed" THEN watched ELSE watched \cup {h}
    /\ channel' = h
    /\ call' = [call EXCEPT ![c].at = "subscribing", ![c].chan = h]
    /\ UNCHANGED <<tag, sub, careful>>

ProviderRejects(c) ==
    /\ At(c, "asking")
    /\ Settle(c)
    /\ UNCHANGED <<channel, watched, status, tag, sub, careful>>

\* ch.consume(...): sent on an open channel, thrown back by any other.
Subscribe(c) ==
    /\ At(c, "subscribing")
    /\ IF status[call[c].chan] = "open" THEN GoTo(c, "asked") ELSE Settle(c)
    /\ UNCHANGED <<channel, watched, status, tag, sub, careful>>

ConsumeResumesWhole(c) ==
    /\ At(c, "subscribed")
    /\ tag' = [consumerTag |-> call[c].tag]
    /\ Settle(c)
    /\ UNCHANGED <<channel, watched, status, sub, careful>>
ConsumeResumes(c) ==
    /\ At(c, "subscribed")
    /\ tag' = call[c].tag
    /\ Settle(c)
    /\ UNCHANGED <<channel, watched, status, sub, careful>>

(***************************************************************************)
(* cancel() and close()                                                    *)
(***************************************************************************)
\* What remains once cancel() is over: close() emits 'close' and returns.
Finish(w, op) ==
    call' = [call EXCEPT ![w] = IF op = "close" THEN [Idle EXCEPT !.op = op, !.at = "closed"] ELSE Idle]

\* cancel() up to its await, which is there only with a tag and a channel; a
\* channel that is not open throws, and the tag stays.
BeginCancelClears(w, op) ==
    IF tag # None /\ channel # None /\ status[channel] = "open"
    THEN /\ call' = [call EXCEPT ![w] = [op |-> op, at |-> "cancelling", chan |-> channel, tag |-> tag]]
         /\ tag' = None
    ELSE Finish(w, op) /\ tag' = None
BeginCancel(w, op) ==
    IF tag = None \/ channel = None THEN Finish(w, op) /\ tag' = None
    ELSE /\ call' = IF status[channel] = "open"
                    THEN [call EXCEPT ![w] = [op |-> op, at |-> "cancelling",
                                              chan |-> channel, tag |-> tag]]
                    ELSE call
         /\ UNCHANGED tag

MayCancel(c) == At(c, "idle") /\ (careful => Consuming = {})

Cancel(c) ==
    /\ MayCancel(c)
    /\ BeginCancel(c, "cancel")
    /\ UNCHANGED <<channel, watched, status, sub, careful>>

Close(c) ==
    /\ MayCancel(c)
    /\ IF channel = None THEN Finish(c, "close") /\ UNCHANGED tag ELSE BeginCancel(c, "close")
    /\ UNCHANGED <<channel, watched, status, sub, careful>>

\* The listeners of 'canceled' and the last line of cancel() clear the tag.
CancelResumes(w) ==
    /\ At(w, "canceled")
    /\ tag' = None
    /\ Finish(w, call[w].op)
    /\ UNCHANGED <<channel, watched, status, sub, careful>>

CloseReturns(c) ==
    /\ At(c, "closed")
    /\ Settle(c)
    /\ UNCHANGED <<channel, watched, status, tag, sub, careful>>

-----------------------------------------------------------------------------
(***************************************************************************)
(* amqplib and the server: code outside the repository.                    *)
(***************************************************************************)
SubscribeOk(c, t) ==
    /\ Quiet
    /\ At(c, "asked")
    /\ status[call[c].chan] = "open"
    /\ sub[t].status = "unused"
    /\ sub' = [sub EXCEPT ![t] = [status |-> "live", chan |-> call[c].chan]]
    /\ call' = [call EXCEPT ![c].at = "subscribed", ![c].tag = t]
    /\ UNCHANGED <<channel, watched, status, tag, careful>>

\* A tag is known on its own channel only; to cancel an unknown one is no error.
CancelOk(w) ==
    LET t == call[w].tag IN
    /\ Quiet
    /\ At(w, "cancelling")
    /\ status[call[w].chan] = "open"
    /\ IF sub[t].chan = call[w].chan THEN Ends(t) ELSE UNCHANGED sub
    /\ GoTo(w, "canceled")
    /\ UNCHANGED <<channel, watched, status, tag, careful>>

\* The queue is deleted, say: the callback is called with null, and cancels.
ServerCancels(t) ==
    /\ Quiet
    /\ Live(t)
    /\ status[sub[t].chan] = "open"
    /\ Ends(t)
    /\ BeginCancel(t, "cancel")
    /\ UNCHANGED <<channel, watched, status, careful>>

\* The broker's close() tells the channel to close.
ChannelClosing(h) ==
    /\ Quiet
    /\ status[h] = "open"
    /\ status' = [status EXCEPT ![h] = "closing"]
    /\ UNCHANGED <<channel, watched, tag, sub, call, careful>>

\* The cleanup task of the channel, with its identity check.
EvictNever(h) == channel
EvictAny(h) == IF h \in watched THEN None ELSE channel
Evict(h) == IF channel = h /\ h \in watched THEN None ELSE channel

ChannelCloses(h) ==
    /\ Quiet
    /\ status[h] \in {"open", "closing"}
    /\ status' = [status EXCEPT ![h] = "closed"]
    /\ channel' = Evict(h)
    /\ sub' = [t \in Tags |-> IF Live(t) /\ sub[t].chan = h
                              THEN [sub[t] EXCEPT !.status = "gone"] ELSE sub[t]]
    /\ call' = [w \in Who |-> IF call[w].at \in {"asked", "cancelling"} /\ call[w].chan = h
                              THEN Idle ELSE call[w]]
    /\ UNCHANGED <<watched, tag, careful>>

-----------------------------------------------------------------------------
Provided(c) == ProviderRejects(c) \/ \E h \in Chans : ChannelResumes(c, h)
Resume(w) == Subscribe(w) \/ ConsumeResumes(w) \/ CancelResumes(w) \/ CloseReturns(w)
Answer(w) == CancelOk(w) \/ \E t \in Tags : SubscribeOk(w, t)

Next ==
    \/ \E c \in Callers : Consume(c) \/ Cancel(c) \/ Close(c)
    \/ \E w \in Who : Provided(w) \/ Resume(w) \/ Answer(w)
    \/ \E t \in Tags : ServerCancels(t)
    \/ \E h \in Chans : ChannelClosing(h) \/ ChannelCloses(h)

Spec == Init /\ [][Next]_vars

-----------------------------------------------------------------------------
(***************************************************************************)
(* Properties                                                              *)
(***************************************************************************)
\* The consumer's channel is not one that it could hear close.
CacheIsLive == channel \in watched => status[channel] \in {"open", "closing"}

\* A subscription is out of reach when its consume() is over and cancel() would
\* not cancel it, neither one called now nor one under way.
OutOfReach(t) ==
    /\ Live(t)
    /\ \A w \in Who : At(w, "subscribed") => call[w].tag # t
    /\ tag # t \/ channel # sub[t].chan
    /\ \A w \in Who : At(w, "cancelling") => call[w].tag # t \/ call[w].chan # sub[t].chan

\* A living subscription gets out of reach only by what another call does: the channel
\* of another call takes the place of the cached one; a consume() returns and
\* overwrites its tag (one that comes after it is enough, no overlap is needed), or
\* finds its own channel replaced; or a cancel(), that of close() or of a subscription
\* which the server cancelled as well, clears its tag on the way out from cancelling
\* something else.  No cancel() of itself does, nor one that throws, nor the server's
\* null, nor a channel that closes and the cleanup of it.
OrphanedByAnother ==
    [][\A t \in Tags : OutOfReach(t)' /\ ~OutOfReach(t) =>
          \/ channel # None /\ channel' \notin {channel, None}
          \/ \E w \in Who : ConsumeResumes(w) /\ (call[w].tag # t \/ channel # sub[t].chan)
          \/ \E w \in Who : CancelResumes(w) /\ (call[w].tag # t \/ call[w].chan # sub[t].chan)]_vars

\* For a careful application, which starts consume() only when nothing is under way
\* or subscribed, and nothing during it: when close() returns no subscription is
\* left, whatever calls of cancel() and close() overlap, whatever the server
\* cancels and whichever channels close meanwhile.
CloseEnds ==
    careful /\ (\E w \in Who : At(w, "closed")) => \A t \in Tags : ~Live(t)
=============================================================================
