----------------------------- MODULE Publisher -----------------------------
(***************************************************************************)
(* publish() of src/src/publisher.ts: overlapping calls on one Publisher,  *)
(* each of which pushes its message through the middleware, finds a        *)
(* channel, writes the message once for every destination, waits whenever  *)
(* the channel's write buffer is full, and may wait for the server's       *)
(* confirms.  The channel can close at any point of this.                  *)
(*                                                                         *)
(* An await on a native promise resumes before the next event is handled:  *)
(* while a call is at "sending", only calls move (Quiet).                  *)
(***************************************************************************)
EXTENDS Integers, Sequences, FiniteSets

CONSTANTS Calls,              \* the calls of publish()
          Chans,              \* the channels its provider may hand out (a bound)
          MaxDestinations,    \* destinations of a call (a bound)
          HighWater,          \* messages at which a channel's write buffer is full
          PublisherConfirms,  \* options.publisherConfirms
          AutoConfirm,        \* options.autoConfirm
          None

ASSUME NatAssumption == MaxDestinations \in Nat /\ HighWater \in Nat \ {0}
ASSUME OptionsAssumption == {PublisherConfirms, AutoConfirm} \subseteq BOOLEAN
ASSUME NoneAssumption == None \notin Chans
ASSUME CallsAssumption == IsFiniteSet(Calls)

VARIABLES channel,   \* this[$channel]
          watched,   \* the channels whose 'close' event reaches this publisher
          status,    \* amqplib: the status of every channel
          buffer,    \* amqplib: what is written to a channel and not yet sent
          received,  \* server: what has arrived on each channel
          answer,    \* the server's confirm of each message
          call       \* the activation record of every call

vars == <<channel, watched, status, buffer, received, answer, call>>

-----------------------------------------------------------------------------
\* Copy k of call c's message: the one for its k-th destination.
Copies == Calls \X (1..MaxDestinations)
Status == {"unused", "open", "closing", "closed"}
Points == {"idle", "piping", "asking", "sending", "draining", "confirming",
           "fulfilled", "rejected"}

\* Of todo destinations i are written; drained: the call has waited for 'drain'.
Frame == [at : Points, todo : 0..MaxDestinations, i : 0..MaxDestinations,
          chan : Chans \cup {None}, awaiting : SUBSET Copies, drained : BOOLEAN]
Idle  == [at |-> "idle", todo |-> 0, i |-> 0, chan |-> None, awaiting |-> {}, drained |-> FALSE]

TypeOK ==
    /\ channel \in Chans \cup {None}
    /\ watched \subseteq Chans
    /\ status \in [Chans -> Status]
    /\ buffer \in [Chans -> Seq(Copies)]
    /\ received \in [Chans -> Seq(Copies)]
    /\ answer \in [Copies -> {"none", "ack", "nack"}]
    /\ call \in [Calls -> Frame]

Init ==
    /\ channel = None
    /\ watched = {}
    /\ status = [h \in Chans |-> "unused"]
    /\ buffer = [h \in Chans |-> <<>>]
    /\ received = [h \in Chans |-> <<>>]
    /\ answer = [m \in Copies |-> "none"]
    /\ call = [c \in Calls |-> Idle]

-----------------------------------------------------------------------------
At(c, p)   == call[c].at = p
GoTo(c, p) == call' = [call EXCEPT ![c].at = p]

\* No continuation is due: the next event may be handled.
Quiet == \A c \in Calls : ~At(c, "sending")

\* The copies written to channel h that the server has not answered.
Unconfirmed(h) ==
    {m \in Copies : /\ call[m[1]].chan = h
                    /\ m[2] <= call[m[1]].i
                    /\ answer[m] = "none"}

(***************************************************************************)
(* publish(), up to its channel                                            *)
(***************************************************************************)
Publish(c) ==
    /\ At(c, "idle")
    /\ \E n \in 0..MaxDestinations : call' = [call EXCEPT ![c].at = "piping", ![c].todo = n]
    /\ UNCHANGED <<channel, watched, status, buffer, received, answer>>

PipelineThrows(c) ==
    /\ At(c, "piping")
    /\ GoTo(c, "rejected")
    /\ UNCHANGED <<channel, watched, status, buffer, received, answer>>

\* channel(): the cached one, or the provider is asked.
Channel(c) ==
    /\ At(c, "piping")
    /\ call' = IF channel # None
               THEN [call EXCEPT ![c].at = "sending", ![c].chan = channel]
               ELSE [call EXCEPT ![c].at = "asking"]
    /\ UNCHANGED <<channel, watched, status, buffer, received, answer>>

\* The provider hands out a channel that it may have opened for others.  It may be
\* dead, if the provider could not hear it close (Broker's CacheIsLive); then neither
\* can the publisher, for listeners attached to a channel that has closed never run.
ChannelResumes(c, h) ==
    /\ At(c, "asking")
    /\ status[h] = "closed" => h \notin watched
    /\ \E s \in IF status[h] = "unused" THEN Status \ {"unused"} ELSE {status[h]} :
          /\ status' = [status EXCEPT ![h] = s]
          /\ watched' = IF s = "closed" THEN watched ELSE watched \cup {h}
    /\ channel' = h
    /\ call' = [call EXCEPT ![c].at = "sending", ![c].chan = h]
    /\ UNCHANGED <<buffer, received, answer>>

ProviderRejects(c) ==
    /\ At(c, "asking")
    /\ GoTo(c, "rejected")
    /\ UNCHANGED <<channel, watched, status, buffer, received, answer>>

(***************************************************************************)
(* The loop over the destinations                                          *)
(***************************************************************************)
\* What the loop writes before it is over or ch.publish() returns false, which
\* the write that reaches the high-water mark does, and every write above it.
BurstPastTheEnd(c) == call[c].todo - call[c].i + 1
BurstIgnoresFull(c) == call[c].todo - call[c].i
Burst(c) ==
    LET left == call[c].todo - call[c].i
        held == Len(buffer[call[c].chan]) IN
    IF left = 0 \/ held + left <= HighWater THEN left
    ELSE IF held < HighWater THEN HighWater - held ELSE 1

Written(c, n) == [k \in 1..n |-> <<c, call[c].i + k>>]

Full(c, n) == n > 0 /\ Len(buffer[call[c].chan]) + n >= HighWater

\* After the loop: waitForConfirms() awaits all that is unconfirmed on the
\* channel, whoever published it.
AfterLoopUnawaited(c, n) == [call[c] EXCEPT !.i = @ + n, !.at = "fulfilled"]
AfterLoop(c, n) ==
    LET unconfirmed == Unconfirmed(call[c].chan) \cup {Written(c, n)[k] : k \in 1..n}
        waits == call[c].todo > 0 /\ PublisherConfirms /\ AutoConfirm /\ unconfirmed # {}
    IN [call[c] EXCEPT !.i = @ + n,
                       !.at = IF waits THEN "confirming" ELSE "fulfilled",
                       !.awaiting = IF waits THEN unconfirmed ELSE {}]

WaitForDrainAgain(c, n) == [call[c] EXCEPT !.i = @ + n - 1, !.at = "draining", !.drained = TRUE]
WaitForDrain(c, n) == [call[c] EXCEPT !.i = @ + n, !.at = "draining", !.drained = TRUE]

Send(c) ==
    LET h == call[c].chan
        n == Burst(c) IN
    /\ At(c, "sending")
    /\ IF call[c].i < call[c].todo /\ status[h] # "open"
       THEN GoTo(c, "rejected") /\ UNCHANGED buffer         \* ch.publish() throws
       ELSE /\ buffer' = [buffer EXCEPT ![h] = @ \o Written(c, n)]
            /\ call' = [call EXCEPT ![c] = IF Full(c, n) THEN WaitForDrain(c, n) ELSE AfterLoop(c, n)]
    /\ UNCHANGED <<channel, watched, status, received, answer>>

-----------------------------------------------------------------------------
(***************************************************************************)
(* amqplib and the server: code outside the repository.                    *)
(***************************************************************************)
Waiting(h) == {c \in Calls : At(c, "draining") /\ call[c].chan = h}

\* The first message of the buffer goes out; 'drain' when that empties it.
Flush(h) ==
    /\ Quiet
    /\ status[h] \in {"open", "closing"} /\ buffer[h] # <<>>
    /\ received' = [received EXCEPT ![h] = Append(@, Head(buffer[h]))]
    /\ buffer' = [buffer EXCEPT ![h] = Tail(@)]
    /\ call' = [c \in Calls |-> IF Tail(buffer[h]) = <<>> /\ c \in Waiting(h)
                                THEN [call[c] EXCEPT !.at = "sending"] ELSE call[c]]
    /\ UNCHANGED <<channel, watched, status, answer>>

\* A call that waits for confirms, when the copies M are answered.
Told(c, M, verdict) ==
    IF ~At(c, "confirming") \/ call[c].awaiting \cap M = {} THEN call[c]
    ELSE IF verdict = "nack" THEN [call[c] EXCEPT !.at = "rejected"]
    ELSE [call[c] EXCEPT !.awaiting = @ \ M,
                         !.at = IF call[c].awaiting \subseteq M THEN "fulfilled" ELSE @]

\* The server answers the p-th message of channel h, or all up to it.
Confirm(h, p, multiple, verdict) ==
    LET M == {m \in {received[h][q] : q \in IF multiple THEN 1..p ELSE {p}} : answer[m] = "none"} IN
    /\ Quiet
    /\ PublisherConfirms
    /\ status[h] \in {"open", "closing"}
    /\ answer[received[h][p]] = "none"
    /\ answer' = [m \in Copies |-> IF m \in M THEN verdict ELSE answer[m]]
    /\ call' = [c \in Calls |-> Told(c, M, verdict)]
    /\ UNCHANGED <<channel, watched, status, buffer, received>>

\* The broker's close() tells the channel to close.
ChannelClosing(h) ==
    /\ Quiet
    /\ status[h] = "open"
    /\ status' = [status EXCEPT ![h] = "closing"]
    /\ UNCHANGED <<channel, watched, buffer, received, answer, call>>

\* The cleanup task of the channel, with its identity check.
EvictNever(h) == channel
Evict(h) == IF channel = h /\ h \in watched THEN None ELSE channel

\* The listener that a call waiting for 'drain' has on 'close'.
FailsNever(h) == {}
Fails(h) == Waiting(h)

\* 'close': what is buffered is lost.  Whether amqplib rejects those that wait
\* for confirms or leaves them waiting is left open.
ChannelCloses(h, rejects) ==
    /\ Quiet
    /\ status[h] \in {"open", "closing"}
    /\ status' = [status EXCEPT ![h] = "closed"]
    /\ buffer' = [buffer EXCEPT ![h] = <<>>]
    /\ channel' = Evict(h)
    /\ call' = [c \in Calls |->
                  IF c \in Fails(h) \/ (rejects /\ At(c, "confirming") /\ call[c].chan = h)
                  THEN [call[c] EXCEPT !.at = "rejected"] ELSE call[c]]
    /\ UNCHANGED <<watched, received, answer>>

-----------------------------------------------------------------------------
CallStep(c) ==
    \/ Publish(c) \/ PipelineThrows(c) \/ Channel(c)
    \/ \E h \in Chans : ChannelResumes(c, h)
    \/ ProviderRejects(c) \/ Send(c)

Confirms(h) ==
    \E p \in 1..Len(received[h]), multiple \in BOOLEAN, verdict \in {"ack", "nack"} :
        Confirm(h, p, multiple, verdict)

Closes(h) == \E rejects \in BOOLEAN : ChannelCloses(h, rejects)

Next ==
    \/ \E c \in Calls : CallStep(c)
    \/ \E h \in Chans : Flush(h) \/ Confirms(h) \/ ChannelClosing(h) \/ Closes(h)

Spec == Init /\ [][Next]_vars

\* The event loop runs what is due; the middleware and the provider settle; a
\* channel sends what it holds and is told of what it sent, or it closes.
Fairness ==
    /\ \A c \in Calls : WF_vars(~At(c, "idle") /\ CallStep(c))
    /\ \A h \in Chans : /\ WF_vars(Flush(h))
                        /\ WF_vars(Confirms(h))
                        /\ WF_vars(status[h] = "closing" /\ Closes(h))

FairSpec == Spec /\ Fairness

-----------------------------------------------------------------------------
(***************************************************************************)
(* Properties                                                              *)
(***************************************************************************)
Log(h) == received[h] \o buffer[h]

\* The copies of a call are in the order of its destinations, and none is left out.
InOrder(log) ==
    \A p, q \in 1..Len(log) : p < q /\ log[p][1] = log[q][1] => log[p][2] < log[q][2]
Gapless(log) ==
    \A p \in 1..Len(log) : \A k \in 1..log[p][2] : \E q \in 1..Len(log) : log[q] = <<log[p][1], k>>

\* However calls overlap and wait, a channel carries the copies of one call in
\* the order of its destinations, each once and with none left out; while the
\* channel lives every copy the call has written is among them.
SentInOrder ==
    \A h \in Chans :
        /\ InOrder(Log(h))
        /\ Gapless(Log(h))
        /\ status[h] \in {"open", "closing"} =>
              \A c \in Calls : call[c].chan = h =>
                  \A k \in 1..call[c].i : \E q \in 1..Len(Log(h)) : Log(h)[q] = <<c, k>>

\* The channel this[$channel] is not one that the publisher could hear close.
CacheIsLive == channel \in watched => status[channel] \in {"open", "closing"}

\* A publish() that fulfils has written every copy, and the server has answered
\* every one of them if it was to wait for confirms, also when the channel
\* closed meanwhile, and whatever other calls await the same confirms.
FulfilledIsDone ==
    \A c \in Calls : At(c, "fulfilled") =>
        /\ call[c].i = call[c].todo
        /\ PublisherConfirms /\ AutoConfirm =>
              \A k \in 1..call[c].todo : answer[<<c, k>>] # "none"

\* A publish() that waits for confirms and fulfils has had no copy refused,
\* unless it had to wait for 'drain': a nack that comes then is not seen.
NackMissedOnlyInDrain ==
    PublisherConfirms /\ AutoConfirm =>
        \A c \in Calls : At(c, "fulfilled") /\ ~call[c].drained =>
            \A k \in 1..call[c].todo : answer[<<c, k>>] = "ack"

\* Back-pressure: below the mark nobody can be at fault; above it, there is at
\* most one message for every call that waits.
BufferBounded ==
    \A h \in Chans : Len(buffer[h]) < HighWater + Cardinality(Waiting(h))

\* No publish() waits for what cannot come any more: before a 'drain' something must
\* still go out, and it is that very channel's; confirms of a channel that has not
\* closed are awaited only for copies that it carries and that have no answer yet.
NobodyWaitsInVain ==
    \A c \in Calls :
        /\ At(c, "draining") => /\ status[call[c].chan] \in {"open", "closing"}
                               /\ buffer[call[c].chan] # <<>>
        /\ At(c, "confirming") /\ status[call[c].chan] # "closed" =>
              /\ call[c].awaiting # {}
              /\ \A m \in call[c].awaiting :
                    /\ answer[m] = "none"
                    /\ \E q \in 1..Len(Log(call[c].chan)) : Log(call[c].chan)[q] = m

\* Every publish() fulfils or rejects, save one that waits for the confirms of
\* a channel that has closed.
PublishSettles ==
    \A c \in Calls :
        At(c, "piping") ~> \/ At(c, "fulfilled") \/ At(c, "rejected")
                           \/ At(c, "confirming") /\ status[call[c].chan] = "closed"
=============================================================================
