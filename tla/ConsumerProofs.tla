--------------------------- MODULE ConsumerProofs ---------------------------
(***************************************************************************)
(* The inductive invariant of Consumer and the theorems that rest on it,   *)
(* for any number of callers, subscriptions and channels.                  *)
(***************************************************************************)
EXTENDS Consumer, TLAPS

\* What a call holds at each of its awaits.
CallsAreSound ==
    \A w \in Who :
        /\ call[w].op = "consume" <=> call[w].at \in {"asking", "subscribing", "asked", "subscribed"}
        /\ call[w].at \in {"subscribing", "asked"} => call[w].chan \in Chans
        /\ At(w, "subscribed") => call[w].tag \in Tags
        /\ call[w].op = "consume" => w \in Callers

\* Only channels that were handed out are listened to.
WatchedAreUsed == \A h \in watched : status[h] # "unused"

\* A subscription is on a channel; its callback is called with null only once the
\* server has ended it.
SubscriptionsAreSound ==
    \A t \in Tags : /\ Live(t) => sub[t].chan \in Chans
                    /\ ~At(t, "idle") => sub[t].status = "gone"

\* While a careful application subscribes, nothing is under way but the cancel()
\* that the server may provoke for the very subscription that consume() made.
ConsumesAlone ==
    \A c \in Consuming :
        /\ \A v \in Who \ {c} : At(v, "idle") \/ (At(c, "subscribed") /\ v = call[c].tag)
        /\ \A t \in Tags : Live(t) => /\ At(c, "subscribed") /\ t = call[c].tag
                                      /\ channel = sub[t].chan
        /\ call[c].at \in {"subscribing", "asked"} => channel = call[c].chan

\* Its one subscription is at hand once consume() is over,
IsAtHand == \A t \in Tags : Live(t) => Consuming # {} \/ (tag = t /\ channel = sub[t].chan)

\* and every cancel() under way is for it.
CancelsTheLiving ==
    \A w \in Who, t \in Tags : Live(t) =>
        /\ At(w, "cancelling") => call[w].tag = t /\ call[w].chan = sub[t].chan
        /\ ~At(w, "canceled") /\ ~At(w, "closed")

Careful == ConsumesAlone /\ IsAtHand /\ CancelsTheLiving

IInv ==
    /\ TypeOK
    /\ CacheIsLive
    /\ CallsAreSound
    /\ WatchedAreUsed
    /\ SubscriptionsAreSound
    /\ careful => Careful

LEMMA InitEstablishes == Init => IInv
<1> SUFFICES ASSUME Init
             PROVE  IInv
  OBVIOUS
<1>1. \A w \in Who : call[w] = Idle
  BY DEF Init
<1>2. \A t \in Tags : ~Live(t)
  BY DEF Init, Live
<1>3. TypeOK
  BY DEF Init, TypeOK, Idle, Frame, Points, Status
<1>4. CacheIsLive /\ WatchedAreUsed
  BY DEF Init, CacheIsLive, WatchedAreUsed
<1>5. CallsAreSound
  BY <1>1 DEF CallsAreSound, At, Idle
<1>6. SubscriptionsAreSound
  BY <1>1, <1>2 DEF SubscriptionsAreSound, At, Idle, Who
<1>7. ConsumesAlone
  BY <1>1 DEF ConsumesAlone, Consuming, Idle
<1>8. IsAtHand /\ CancelsTheLiving
  BY <1>2 DEF IsAtHand, CancelsTheLiving
<1>9. QED
  BY <1>3, <1>4, <1>5, <1>6, <1>7, <1>8 DEF IInv, Careful

-----------------------------------------------------------------------------
(***************************************************************************)
(* What settling a call, or moving it on, does to the activation records.  *)
(***************************************************************************)
LEMMA SettleEffect ==
    ASSUME call \in [Who -> Frame], NEW w \in Who, Settle(w)
    PROVE  /\ call' \in [Who -> Frame]
           /\ call'[w] = Idle
           /\ \A v \in Who \ {w} : call'[v] = call[v]
BY DEF Settle, Idle, Frame, Points

LEMMA GoToEffect ==
    ASSUME call \in [Who -> Frame], NEW w \in Who, NEW p \in Points, GoTo(w, p)
    PROVE  /\ call' \in [Who -> Frame]
           /\ call'[w].at = p /\ call'[w].op = call[w].op
           /\ call'[w].chan = call[w].chan /\ call'[w].tag = call[w].tag
           /\ \A v \in Who \ {w} : call'[v] = call[v]
BY DEF GoTo, Frame

\* A call that is over holds nothing up: the invariant stands.
LEMMA SettlePreserves ==
    ASSUME IInv, NEW w \in Who, call[w].at \in {"asking", "subscribing", "closed"}, Settle(w),
           UNCHANGED <<channel, watched, status, tag, sub, careful>>
    PROVE  IInv'
<1>1. /\ call' \in [Who -> Frame] /\ call'[w] = Idle
      /\ \A v \in Who \ {w} : call'[v] = call[v]
  BY SettleEffect DEF IInv, TypeOK
<1>2. TypeOK' /\ CacheIsLive' /\ WatchedAreUsed'
  BY <1>1 DEF IInv, TypeOK, CacheIsLive, WatchedAreUsed
<1>3. CallsAreSound' /\ SubscriptionsAreSound'
  <2>1. CallsAreSound'
    BY <1>1 DEF IInv, CallsAreSound, At, Idle
  <2>2. SubscriptionsAreSound'
    BY <1>1 DEF IInv, SubscriptionsAreSound, At, Live, Idle, Who
  <2>3. QED
    BY <2>1, <2>2
<1>4. ASSUME careful
      PROVE  ConsumesAlone'
  BY <1>1, <1>4 DEF IInv, Careful, ConsumesAlone, Consuming, At, Live, Idle
<1>5. ASSUME careful
      PROVE  IsAtHand'
  BY <1>1, <1>5 DEF IInv, Careful, CallsAreSound, ConsumesAlone, IsAtHand, Consuming, At, Live, Idle
<1>6. ASSUME careful
      PROVE  CancelsTheLiving'
  BY <1>1, <1>6 DEF IInv, Careful, CancelsTheLiving, At, Live, Idle
<1>7. QED
  BY <1>2, <1>3, <1>4, <1>5, <1>6 DEF IInv, Careful

-----------------------------------------------------------------------------
(***************************************************************************)
(* Every action preserves the invariant: consume().                        *)
(***************************************************************************)
LEMMA ConsumePreserves ==
    ASSUME IInv, NEW c \in Callers, Consume(c)
    PROVE  IInv'
<1>1. /\ call \in [Who -> Frame] /\ channel \in Chans \cup {None} /\ c \in Who
      /\ UNCHANGED <<channel, watched, status, tag, sub, careful>>
  BY DEF Consume, IInv, TypeOK, Who
<1>2. /\ call'[c].op = "consume" /\ call'[c].chan = channel
      /\ call'[c].at \in {"asking", "subscribing"} /\ (call'[c].at = "subscribing" => channel # None)
      /\ \A v \in Who \ {c} : call'[v] = call[v]
  BY <1>1 DEF Consume
<1>3. TypeOK' /\ CacheIsLive' /\ WatchedAreUsed'
  <2>1. call' \in [Who -> Frame]
    BY <1>1 DEF Consume, Frame, Points
  <2>2. QED
    BY <1>1, <2>1 DEF IInv, TypeOK, CacheIsLive, WatchedAreUsed
<1>4. CallsAreSound'
  BY <1>1, <1>2 DEF IInv, CallsAreSound, At
<1>5. SubscriptionsAreSound'
  BY <1>1, <1>2, DistinctAssumption DEF IInv, SubscriptionsAreSound, At, Live, Who
<1>6. ASSUME careful
      PROVE  Careful'
  <2>1. (\A w \in Who : At(w, "idle")) /\ \A t \in Tags : ~Live(t)
    BY <1>6 DEF Consume
  <2>2. \A t \in Tags : ~Live(t)'
    BY <1>1, <2>1 DEF Live
  <2>3. ConsumesAlone'
    <3>1. Consuming' = {c}
      BY <1>1, <1>2, <2>1 DEF IInv, CallsAreSound, Consuming, At
    <3>2. QED
      BY <1>1, <1>2, <2>1, <2>2, <3>1 DEF ConsumesAlone, At
  <2>4. QED
    BY <2>2, <2>3 DEF Careful, IsAtHand, CancelsTheLiving
<1>7. QED
  BY <1>1, <1>3, <1>4, <1>5, <1>6 DEF IInv

LEMMA ChannelResumesPreserves ==
    ASSUME IInv, NEW c \in Who, NEW h \in Chans, ChannelResumes(c, h)
    PROVE  IInv'
<1>1. /\ call \in [Who -> Frame] /\ At(c, "asking")
      /\ channel' = h /\ UNCHANGED <<tag, sub, careful>>
      /\ call' = [call EXCEPT ![c].at = "subscribing", ![c].chan = h]
  BY DEF ChannelResumes, IInv, TypeOK
<1>2. PICK s \in Status \ {"unused"} :
         /\ status' = [status EXCEPT ![h] = s]
         /\ watched' = IF s = "closed" THEN watched ELSE watched \cup {h}
         /\ status[h] # "unused" => s = status[h]
  BY DEF ChannelResumes, IInv, TypeOK
<1>3. /\ call' \in [Who -> Frame] /\ call'[c].op = call[c].op /\ call'[c].at = "subscribing"
      /\ call'[c].chan = h /\ \A v \in Who \ {c} : call'[v] = call[v]
  BY <1>1 DEF Frame, Points
<1>4. TypeOK'
  BY <1>1, <1>2, <1>3 DEF IInv, TypeOK
<1>5. WatchedAreUsed'
  BY <1>2 DEF IInv, TypeOK, WatchedAreUsed
<1>6. CacheIsLive'
  <2>1. s = "closed" => h \notin watched
    BY <1>2 DEF ChannelResumes, IInv, WatchedAreUsed
  <2>2. status'[h] = s
    BY <1>2 DEF IInv, TypeOK
  <2>3. QED
    BY <1>1, <1>2, <2>1, <2>2 DEF CacheIsLive, Status
<1>7. CallsAreSound'
  BY <1>1, <1>3 DEF IInv, CallsAreSound, At
<1>8. SubscriptionsAreSound'
  BY <1>1, <1>3 DEF IInv, SubscriptionsAreSound, At, Live, Who
<1>9. ASSUME careful
      PROVE  Careful'
  <2>1. c \in Consuming /\ Consuming' = Consuming
    BY <1>1, <1>3 DEF IInv, CallsAreSound, Consuming, At
  <2>2. /\ \A v \in Who \ {c} : At(v, "idle")
        /\ \A t \in Tags : ~Live(t)
    BY <1>1, <1>9, <2>1 DEF IInv, Careful, ConsumesAlone, At
  <2>3. Consuming = {c}
    BY <2>1, <2>2 DEF IInv, CallsAreSound, Consuming, At
  <2>4. \A t \in Tags : ~Live(t)'
    BY <1>1, <2>2 DEF Live
  <2>5. ConsumesAlone'
    BY <1>1, <1>3, <2>1, <2>2, <2>3, <2>4 DEF ConsumesAlone, At
  <2>6. QED
    BY <2>4, <2>5 DEF Careful, IsAtHand, CancelsTheLiving
<1>10. QED
  BY <1>1, <1>4, <1>5, <1>6, <1>7, <1>8, <1>9 DEF IInv

LEMMA SubscribePreserves ==
    ASSUME IInv, NEW c \in Who, Subscribe(c)
    PROVE  IInv'
<1>1. At(c, "subscribing") /\ UNCHANGED <<channel, watched, status, tag, sub, careful>>
  BY DEF Subscribe
<1>2. CASE Settle(c)
  BY <1>1, <1>2, SettlePreserves DEF At
<1>3. CASE GoTo(c, "asked")
  <2>1. /\ call' \in [Who -> Frame] /\ call'[c].at = "asked" /\ call'[c].op = call[c].op
        /\ call'[c].chan = call[c].chan
        /\ \A v \in Who \ {c} : call'[v] = call[v]
    BY <1>3, GoToEffect DEF IInv, TypeOK, Points
  <2>2. TypeOK' /\ CacheIsLive' /\ WatchedAreUsed'
    BY <1>1, <2>1 DEF IInv, TypeOK, CacheIsLive, WatchedAreUsed
  <2>3. CallsAreSound'
    BY <1>1, <2>1 DEF IInv, CallsAreSound, At
  <2>4. SubscriptionsAreSound'
    BY <1>1, <2>1 DEF IInv, SubscriptionsAreSound, At, Live, Who
  <2>5. ASSUME careful
        PROVE  Careful'
    <3>1. c \in Consuming /\ Consuming' = Consuming
      BY <1>1, <2>1 DEF IInv, CallsAreSound, Consuming, At
    <3>2. /\ \A v \in Who \ {c} : At(v, "idle")
          /\ \A t \in Tags : ~Live(t)
          /\ channel = call[c].chan
      BY <1>1, <2>5, <3>1 DEF IInv, Careful, ConsumesAlone, At
    <3>3. Consuming = {c}
      BY <3>1, <3>2 DEF IInv, CallsAreSound, Consuming, At
    <3>4. \A t \in Tags : ~Live(t)'
      BY <1>1, <3>2 DEF Live
    <3>5. ConsumesAlone'
      BY <1>1, <2>1, <3>1, <3>2, <3>3, <3>4 DEF ConsumesAlone, At
    <3>6. QED
      BY <3>4, <3>5 DEF Careful, IsAtHand, CancelsTheLiving
  <2>6. QED
    BY <1>1, <2>2, <2>3, <2>4, <2>5 DEF IInv
<1>4. QED
  BY <1>2, <1>3 DEF Subscribe

LEMMA SubscribeOkPreserves ==
    ASSUME IInv, NEW c \in Who, NEW t \in Tags, SubscribeOk(c, t)
    PROVE  IInv'
<1>1. /\ call \in [Who -> Frame] /\ At(c, "asked") /\ call[c].chan \in Chans
      /\ sub[t].status = "unused" /\ UNCHANGED <<channel, watched, status, tag, careful>>
      /\ sub' = [sub EXCEPT ![t] = [status |-> "live", chan |-> call[c].chan]]
      /\ call' = [call EXCEPT ![c].at = "subscribed", ![c].tag = t]
  BY DEF SubscribeOk, IInv, TypeOK, CallsAreSound, At
<1>2. /\ call' \in [Who -> Frame] /\ call'[c].at = "subscribed" /\ call'[c].op = call[c].op
      /\ call'[c].tag = t /\ \A v \in Who \ {c} : call'[v] = call[v]
  BY <1>1 DEF Frame, Points
<1>3. /\ sub' \in [Tags -> [status : {"unused", "live", "gone"}, chan : Chans \cup {None}]]
      /\ sub'[t].status = "live" /\ sub'[t].chan = call[c].chan
      /\ \A u \in Tags \ {t} : sub'[u] = sub[u]
  BY <1>1 DEF IInv, TypeOK
<1>4. TypeOK' /\ CacheIsLive' /\ WatchedAreUsed'
  BY <1>1, <1>2, <1>3 DEF IInv, TypeOK, CacheIsLive, WatchedAreUsed
<1>5. CallsAreSound'
  BY <1>1, <1>2 DEF IInv, CallsAreSound, At
<1>6. SubscriptionsAreSound'
  <2>1. ASSUME NEW u \in Tags, ~At(u, "idle")'
        PROVE  sub'[u].status = "gone"
    <3>1. ~At(u, "idle")
      BY <1>1, <1>2, <2>1 DEF At, Who
    <3>2. QED
      BY <1>1, <1>3, <3>1 DEF IInv, SubscriptionsAreSound
  <2>2. QED
    BY <1>1, <1>3, <2>1 DEF IInv, SubscriptionsAreSound, Live
<1>7. ASSUME careful
      PROVE  Careful'
  <2>1. c \in Consuming /\ Consuming' = Consuming
    BY <1>1, <1>2 DEF IInv, CallsAreSound, Consuming, At
  <2>2. /\ \A v \in Who \ {c} : At(v, "idle")
        /\ \A u \in Tags : ~Live(u)
        /\ channel = call[c].chan
    BY <1>1, <1>7, <2>1 DEF IInv, Careful, ConsumesAlone, At
  <2>3. Consuming = {c}
    BY <2>1, <2>2 DEF IInv, CallsAreSound, Consuming, At
  <2>4. \A u \in Tags : Live(u)' => u = t
    BY <1>3, <2>2 DEF Live
  <2>5. ConsumesAlone'
    BY <1>1, <1>2, <1>3, <2>1, <2>2, <2>3, <2>4 DEF ConsumesAlone, At
  <2>6. IsAtHand'
    BY <2>1 DEF IsAtHand
  <2>7. CancelsTheLiving'
    BY <1>2, <2>2 DEF CancelsTheLiving, At
  <2>8. QED
    BY <2>5, <2>6, <2>7 DEF Careful
<1>8. QED
  BY <1>1, <1>4, <1>5, <1>6, <1>7 DEF IInv

LEMMA ConsumeResumesPreserves ==
    ASSUME IInv, NEW c \in Who, ConsumeResumes(c)
    PROVE  IInv'
<1>1. /\ At(c, "subscribed") /\ Settle(c) /\ call[c].tag \in Tags /\ tag' = call[c].tag
      /\ UNCHANGED <<channel, watched, status, sub, careful>>
  BY DEF ConsumeResumes, IInv, CallsAreSound
<1>2. /\ call' \in [Who -> Frame] /\ call'[c] = Idle
      /\ \A v \in Who \ {c} : call'[v] = call[v]
  BY <1>1, SettleEffect DEF IInv, TypeOK
<1>3. TypeOK' /\ CacheIsLive' /\ WatchedAreUsed'
  BY <1>1, <1>2 DEF IInv, TypeOK, CacheIsLive, WatchedAreUsed
<1>4. CallsAreSound'
  BY <1>2 DEF IInv, CallsAreSound, At, Idle
<1>5. SubscriptionsAreSound'
  BY <1>1, <1>2 DEF IInv, SubscriptionsAreSound, At, Live, Idle, Who
<1>6. ASSUME careful
      PROVE  Careful'
  <2>1. c \in Consuming
    BY <1>1 DEF IInv, CallsAreSound, Consuming, At
  <2>2. /\ \A v \in Who \ {c} : At(v, "idle") \/ v = call[c].tag
        /\ \A t \in Tags : Live(t) => t = call[c].tag /\ channel = sub[t].chan
    BY <1>6, <2>1 DEF IInv, Careful, ConsumesAlone
  <2>3. \A v \in Who \ {c} : v \notin Consuming
    <3>1. \A v \in Consuming : v \in Callers /\ ~At(v, "idle")
      BY DEF IInv, CallsAreSound, Consuming, At
    <3>2. QED
      BY <1>1, <2>2, <3>1, DistinctAssumption
  <2>4. Consuming' = {}
    BY <1>2, <2>3 DEF Consuming, Idle
  <2>5. ConsumesAlone'
    BY <2>4 DEF ConsumesAlone
  <2>6. IsAtHand'
    BY <1>1, <2>2 DEF IsAtHand, Live
  <2>7. CancelsTheLiving'
    BY <1>1, <1>2, <1>6 DEF IInv, Careful, CancelsTheLiving, At, Live, Idle
  <2>8. QED
    BY <2>5, <2>6, <2>7 DEF Careful
<1>7. QED
  BY <1>1, <1>3, <1>4, <1>5, <1>6 DEF IInv

-----------------------------------------------------------------------------
(***************************************************************************)
(* cancel() and close().                                                   *)
(***************************************************************************)
LEMMA FinishEffect ==
    ASSUME call \in [Who -> Frame], NEW w \in Who,
           NEW op \in {"none", "cancel", "close"}, Finish(w, op)
    PROVE  /\ call' \in [Who -> Frame]
           /\ call'[w].op # "consume"
           /\ call'[w].at = IF op = "close" THEN "closed" ELSE "idle"
           /\ \A v \in Who \ {w} : call'[v] = call[v]
<1>1. CASE op = "close"
  BY <1>1 DEF Finish, Idle, Frame, Points
<1>2. CASE op # "close"
  BY <1>2 DEF Finish, Idle, Frame, Points
<1>3. QED
  BY <1>1, <1>2

\* What a call of cancel() or close() by w, or a cancel() of the callback w, may do:
\* wait for the server with the tag and the channel at hand, end, or throw.
LEMMA BeginCancelEffect ==
    ASSUME TypeOK, NEW w \in Who, NEW op \in {"cancel", "close"}, BeginCancel(w, op)
    PROVE  /\ call' \in [Who -> Frame] /\ tag' \in {tag, None}
           /\ \A v \in Who \ {w} : call'[v] = call[v]
           /\ \/ /\ call'[w].op # "consume" /\ call'[w].at = "cancelling"
                 /\ call'[w].tag = tag /\ call'[w].chan = channel
                 /\ tag' = tag
              \/ /\ call'[w].op # "consume" /\ tag' = None
                 /\ call'[w].at = IF op = "close" THEN "closed" ELSE "idle"
                 /\ tag = None \/ channel = None
              \/ call' = call /\ tag' = tag
<1>1. CASE tag = None \/ channel = None
  BY <1>1, FinishEffect DEF BeginCancel, TypeOK
<1>2. CASE tag # None /\ channel # None /\ status[channel] = "open"
  <2>1. /\ call' = [call EXCEPT ![w] = [op |-> op, at |-> "cancelling", chan |-> channel, tag |-> tag]]
        /\ tag' = tag
    BY <1>2 DEF BeginCancel
  <2>2. [op |-> op, at |-> "cancelling", chan |-> channel, tag |-> tag] \in Frame
    BY <1>2 DEF TypeOK, Frame, Points
  <2>3. call \in [Who -> Frame]
    BY DEF TypeOK
  <2>4. /\ call' \in [Who -> Frame] /\ \A v \in Who \ {w} : call'[v] = call[v]
        /\ call'[w] = [op |-> op, at |-> "cancelling", chan |-> channel, tag |-> tag]
    BY <2>1, <2>2, <2>3
  <2>5. QED
    BY <2>1, <2>4
<1>3. CASE tag # None /\ channel # None /\ status[channel] # "open"
  BY <1>3 DEF BeginCancel, TypeOK
<1>4. QED
  BY <1>1, <1>2, <1>3

\* Those parts of the invariant that no cancel() can disturb.
LEMMA CancelKeepsSound ==
    ASSUME IInv, NEW w \in Callers, call' \in [Who -> Frame], tag' \in {tag, None},
           \A v \in Who \ {w} : call'[v] = call[v],
           call'[w] # call[w] => call'[w].op # "consume" /\ call'[w].at \in {"cancelling", "closed", "idle"},
           UNCHANGED <<channel, watched, status, sub, careful>>
    PROVE  TypeOK' /\ CacheIsLive' /\ CallsAreSound' /\ WatchedAreUsed' /\ SubscriptionsAreSound'
<1>1. TypeOK' /\ CacheIsLive' /\ WatchedAreUsed'
  BY DEF IInv, TypeOK, CacheIsLive, WatchedAreUsed
<1>2. CallsAreSound'
  BY DEF IInv, CallsAreSound, At
<1>3. SubscriptionsAreSound'
  <2>1. \A t \in Tags : t \in Who \ {w}
    BY DistinctAssumption DEF Who
  <2>2. QED
    BY <2>1 DEF IInv, SubscriptionsAreSound, At, Live
<1>4. QED
  BY <1>1, <1>2, <1>3

LEMMA CancelOrClosePreserves ==
    ASSUME IInv, NEW c \in Callers, MayCancel(c), NEW op \in {"cancel", "close"},
           \/ BeginCancel(c, op)
           \/ channel = None /\ Finish(c, op) /\ UNCHANGED tag,
           UNCHANGED <<channel, watched, status, sub, careful>>
    PROVE  IInv'
<1>1. c \in Who /\ TypeOK /\ At(c, "idle")
  BY DEF IInv, Who, MayCancel
<1>2. /\ call' \in [Who -> Frame] /\ tag' \in {tag, None}
      /\ \A v \in Who \ {c} : call'[v] = call[v]
      /\ \/ /\ call'[c].op # "consume" /\ call'[c].at = "cancelling"
            /\ call'[c].tag = tag /\ call'[c].chan = channel
            /\ tag' = tag
         \/ /\ call'[c].op # "consume" /\ call'[c].at \in {"closed", "idle"}
            /\ tag = None \/ channel = None
         \/ call' = call /\ tag' = tag
  <2>1. CASE BeginCancel(c, op)
    BY <1>1, <2>1, BeginCancelEffect
  <2>2. CASE channel = None /\ Finish(c, op) /\ UNCHANGED tag
    BY <1>1, <2>2, FinishEffect DEF TypeOK
  <2>3. QED
    BY <2>1, <2>2
<1>3. TypeOK' /\ CacheIsLive' /\ CallsAreSound' /\ WatchedAreUsed' /\ SubscriptionsAreSound'
  <2>1. call'[c] # call[c] => call'[c].op # "consume" /\ call'[c].at \in {"cancelling", "closed", "idle"}
    BY <1>2
  <2>2. QED
    BY <1>2, <2>1, CancelKeepsSound
<1>4. ASSUME careful
      PROVE  Careful'
  <2>1. Consuming = {}
    BY <1>4 DEF MayCancel
  <2>2. Consuming' = {}
    BY <1>1, <1>2, <2>1 DEF Consuming
  <2>3. \A t \in Tags : Live(t) => tag = t /\ channel = sub[t].chan /\ tag # None /\ channel # None
    BY <1>4, <2>1, NoneAssumption DEF IInv, Careful, IsAtHand, SubscriptionsAreSound
  <2>4. \A t \in Tags : Live(t)' => Live(t) /\ sub'[t] = sub[t]
    BY DEF Live
  <2>5. (\E t \in Tags : Live(t)) => tag' = tag
    BY <1>2, <2>3, BeginCancelEffect DEF Finish, BeginCancel
  <2>6. ConsumesAlone'
    BY <2>2 DEF ConsumesAlone
  <2>7. IsAtHand'
    BY <2>3, <2>4, <2>5 DEF IsAtHand
  <2>8. CancelsTheLiving'
    <3>1. ASSUME NEW t \in Tags, Live(t)', NEW w \in Who
          PROVE  /\ At(w, "cancelling")' => call'[w].tag = t /\ call'[w].chan = sub'[t].chan
                 /\ ~At(w, "canceled")' /\ ~At(w, "closed")'
      <4>1. Live(t) /\ sub'[t] = sub[t] /\ tag = t /\ channel = sub[t].chan /\ tag # None /\ channel # None
        BY <2>3, <2>4, <3>1
      <4>2. /\ At(w, "cancelling") => call[w].tag = t /\ call[w].chan = sub[t].chan
            /\ ~At(w, "canceled") /\ ~At(w, "closed")
        BY <1>4, <4>1 DEF IInv, Careful, CancelsTheLiving
      <4>3. CASE w # c \/ call' = call
        BY <1>2, <4>1, <4>2, <4>3 DEF At
      <4>4. CASE w = c /\ call' # call
        BY <1>2, <4>1, <4>4 DEF At
      <4>5. QED
        BY <4>3, <4>4
    <3>2. QED
      BY <3>1 DEF CancelsTheLiving
  <2>9. QED
    BY <2>6, <2>7, <2>8 DEF Careful
<1>5. QED
  BY <1>3, <1>4 DEF IInv

LEMMA CancelPreserves ==
    ASSUME IInv, NEW c \in Callers, Cancel(c)
    PROVE  IInv'
BY CancelOrClosePreserves DEF Cancel

LEMMA ClosePreserves ==
    ASSUME IInv, NEW c \in Callers, Close(c)
    PROVE  IInv'
<1>1. /\ MayCancel(c)
      /\ \/ BeginCancel(c, "close")
         \/ channel = None /\ Finish(c, "close") /\ UNCHANGED tag
      /\ UNCHANGED <<channel, watched, status, sub, careful>>
  BY DEF Close
<1>2. QED
  BY <1>1, CancelOrClosePreserves

LEMMA CancelResumesPreserves ==
    ASSUME IInv, NEW w \in Who, CancelResumes(w)
    PROVE  IInv'
<1>1. /\ At(w, "canceled") /\ tag' = None /\ Finish(w, call[w].op)
      /\ call[w].op \in {"none", "cancel", "close"} /\ call \in [Who -> Frame]
      /\ UNCHANGED <<channel, watched, status, sub, careful>>
  BY DEF CancelResumes, IInv, TypeOK, CallsAreSound, At, Frame
<1>2. /\ call' \in [Who -> Frame] /\ call'[w].op # "consume" /\ call'[w].at \in {"closed", "idle"}
      /\ \A v \in Who \ {w} : call'[v] = call[v]
  BY <1>1, FinishEffect
<1>3. TypeOK' /\ CacheIsLive' /\ WatchedAreUsed'
  BY <1>1, <1>2 DEF IInv, TypeOK, CacheIsLive, WatchedAreUsed
<1>4. CallsAreSound'
  BY <1>1, <1>2 DEF IInv, CallsAreSound, At
<1>5. SubscriptionsAreSound'
  BY <1>1, <1>2 DEF IInv, SubscriptionsAreSound, At, Live, Who
<1>6. ASSUME careful
      PROVE  Careful'
  <2>1. \A t \in Tags : ~Live(t)'
    BY <1>1, <1>6 DEF IInv, Careful, CancelsTheLiving, Live
  <2>2. ConsumesAlone'
    <3>1. ASSUME NEW c \in Consuming'
          PROVE  /\ c \in Consuming /\ call'[c] = call[c] /\ c # w
      BY <1>2, <3>1 DEF Consuming
    <3>2. ASSUME NEW c \in Consuming', NEW v \in Who \ {c}
          PROVE  At(v, "idle")' \/ (At(c, "subscribed")' /\ v = call'[c].tag)
      BY <1>1, <1>2, <1>6, <3>1, <3>2 DEF IInv, Careful, ConsumesAlone, At
    <3>3. ASSUME NEW c \in Consuming'
          PROVE  call'[c].at \in {"subscribing", "asked"} => channel' = call'[c].chan
      BY <1>1, <1>6, <3>1, <3>3 DEF IInv, Careful, ConsumesAlone
    <3>4. QED
      BY <2>1, <3>2, <3>3 DEF ConsumesAlone
  <2>3. QED
    BY <2>1, <2>2 DEF Careful, IsAtHand, CancelsTheLiving
<1>7. QED
  BY <1>1, <1>3, <1>4, <1>5, <1>6 DEF IInv

-----------------------------------------------------------------------------
(***************************************************************************)
(* amqplib and the server.                                                 *)
(***************************************************************************)
LEMMA CancelOkPreserves ==
    ASSUME IInv, NEW w \in Who, CancelOk(w)
    PROVE  IInv'
<1>1. /\ At(w, "cancelling") /\ GoTo(w, "canceled") /\ call \in [Who -> Frame]
      /\ IF sub[call[w].tag].chan = call[w].chan THEN Ends(call[w].tag) ELSE UNCHANGED sub
      /\ UNCHANGED <<channel, watched, status, tag, careful>>
  BY DEF CancelOk, IInv, TypeOK
<1>2. /\ call' \in [Who -> Frame] /\ call'[w].at = "canceled" /\ call'[w].op = call[w].op
      /\ \A v \in Who \ {w} : call'[v] = call[v]
  BY <1>1, GoToEffect DEF Points
<1>3. /\ sub' \in [Tags -> [status : {"unused", "live", "gone"}, chan : Chans \cup {None}]]
      /\ \A t \in Tags : sub'[t] = sub[t] \/ (sub'[t].status = "gone" /\ t = call[w].tag)
      /\ \A t \in Tags : t = call[w].tag /\ sub[t].chan = call[w].chan => sub'[t].status = "gone"
  BY <1>1 DEF Ends, IInv, TypeOK
<1>4. TypeOK' /\ CacheIsLive' /\ WatchedAreUsed'
  BY <1>1, <1>2, <1>3 DEF IInv, TypeOK, CacheIsLive, WatchedAreUsed
<1>5. CallsAreSound'
  BY <1>1, <1>2 DEF IInv, CallsAreSound, At
<1>6. SubscriptionsAreSound'
  <2>1. \A t \in Tags : Live(t)' => sub'[t].chan \in Chans
    BY <1>3 DEF IInv, SubscriptionsAreSound, Live
  <2>2. \A t \in Tags : ~At(t, "idle")' => sub'[t].status = "gone"
    BY <1>1, <1>2, <1>3 DEF IInv, SubscriptionsAreSound, At, Who
  <2>3. QED
    BY <2>1, <2>2 DEF SubscriptionsAreSound
<1>7. ASSUME careful
      PROVE  Careful'
  <2>1. \A t \in Tags : ~Live(t)'
    BY <1>1, <1>3, <1>7 DEF IInv, Careful, CancelsTheLiving, Live
  <2>2. ConsumesAlone'
    <3>1. ASSUME NEW c \in Consuming'
          PROVE  c \in Consuming /\ call'[c] = call[c] /\ c # w
      BY <1>1, <1>2, <3>1 DEF IInv, CallsAreSound, Consuming, At
    <3>2. ASSUME NEW c \in Consuming', NEW v \in Who \ {c}
          PROVE  At(v, "idle")' \/ (At(c, "subscribed")' /\ v = call'[c].tag)
      BY <1>1, <1>2, <1>7, <3>1, <3>2 DEF IInv, Careful, ConsumesAlone, At
    <3>3. ASSUME NEW c \in Consuming'
          PROVE  call'[c].at \in {"subscribing", "asked"} => channel' = call'[c].chan
      BY <1>1, <1>7, <3>1, <3>3 DEF IInv, Careful, ConsumesAlone
    <3>4. QED
      BY <2>1, <3>2, <3>3 DEF ConsumesAlone
  <2>3. QED
    BY <2>1, <2>2 DEF Careful, IsAtHand, CancelsTheLiving
<1>8. QED
  BY <1>1, <1>4, <1>5, <1>6, <1>7 DEF IInv

LEMMA ServerCancelsPreserves ==
    ASSUME IInv, NEW t \in Tags, ServerCancels(t)
    PROVE  IInv'
<1>1. /\ Live(t) /\ Ends(t) /\ BeginCancel(t, "cancel") /\ t \in Who
      /\ At(t, "idle") /\ t \notin Callers
      /\ UNCHANGED <<channel, watched, status, careful>>
  BY DistinctAssumption DEF ServerCancels, IInv, SubscriptionsAreSound, Live, Who
<1>2. /\ call' \in [Who -> Frame] /\ tag' \in {tag, None}
      /\ \A v \in Who \ {t} : call'[v] = call[v]
      /\ call' = call \/ (call'[t].op # "consume" /\ call'[t].at \in {"cancelling", "idle"})
  BY <1>1, BeginCancelEffect DEF IInv
<1>3. /\ sub' \in [Tags -> [status : {"unused", "live", "gone"}, chan : Chans \cup {None}]]
      /\ sub'[t].status = "gone" /\ \A u \in Tags \ {t} : sub'[u] = sub[u]
  BY <1>1 DEF Ends, IInv, TypeOK
<1>4. TypeOK' /\ CacheIsLive' /\ WatchedAreUsed'
  BY <1>1, <1>2, <1>3 DEF IInv, TypeOK, CacheIsLive, WatchedAreUsed
<1>5. CallsAreSound'
  BY <1>1, <1>2 DEF IInv, CallsAreSound, At
<1>6. SubscriptionsAreSound'
  <2>1. \A u \in Tags : Live(u)' => sub'[u].chan \in Chans
    BY <1>3 DEF IInv, SubscriptionsAreSound, Live
  <2>2. \A u \in Tags : ~At(u, "idle")' => sub'[u].status = "gone"
    BY <1>2, <1>3 DEF IInv, SubscriptionsAreSound, At, Who
  <2>3. QED
    BY <2>1, <2>2 DEF SubscriptionsAreSound
<1>7. ASSUME careful
      PROVE  Careful'
  <2>1. \A u \in Tags : Live(u) => u = t
    BY <1>1, <1>7 DEF IInv, Careful, ConsumesAlone, IsAtHand
  <2>2. \A u \in Tags : ~Live(u)'
    BY <1>3, <2>1 DEF Live
  <2>3. ConsumesAlone'
    <3>1. t \notin Consuming
      BY <1>1 DEF IInv, CallsAreSound, Consuming
    <3>2. ASSUME NEW c \in Consuming'
          PROVE  c \in Consuming /\ call'[c] = call[c] /\ c # t
      BY <1>2, <3>1, <3>2 DEF Consuming
    <3>3. ASSUME NEW c \in Consuming'
          PROVE  At(c, "subscribed") /\ t = call[c].tag
      BY <1>1, <1>7, <3>2, <3>3 DEF IInv, Careful, ConsumesAlone
    <3>4. ASSUME NEW c \in Consuming', NEW v \in Who \ {c}
          PROVE  At(v, "idle")' \/ (At(c, "subscribed")' /\ v = call'[c].tag)
      BY <1>2, <1>7, <3>2, <3>3, <3>4 DEF IInv, Careful, ConsumesAlone, At
    <3>5. QED
      BY <2>2, <3>2, <3>3, <3>4 DEF ConsumesAlone, At
  <2>4. QED
    BY <2>2, <2>3 DEF Careful, IsAtHand, CancelsTheLiving
<1>8. QED
  BY <1>1, <1>4, <1>5, <1>6, <1>7 DEF IInv

LEMMA ChannelClosingPreserves ==
    ASSUME IInv, NEW h \in Chans, ChannelClosing(h)
    PROVE  IInv'
<1>1. /\ status' \in [Chans -> Status] /\ status'[h] = "closing"
      /\ \A g \in Chans \ {h} : status'[g] = status[g]
      /\ UNCHANGED <<channel, watched, tag, sub, call, careful>>
  BY DEF ChannelClosing, IInv, TypeOK, Status
<1>2. TypeOK' /\ CacheIsLive' /\ WatchedAreUsed'
  BY <1>1 DEF IInv, TypeOK, CacheIsLive, WatchedAreUsed
<1>3. CallsAreSound' /\ SubscriptionsAreSound'
  BY <1>1 DEF IInv, CallsAreSound, SubscriptionsAreSound, At, Live
<1>4. careful => Careful'
  BY <1>1 DEF IInv, Careful, ConsumesAlone, IsAtHand, CancelsTheLiving, Consuming, At, Live
<1>5. QED
  BY <1>1, <1>2, <1>3, <1>4 DEF IInv

\* What the closing of a channel does to a subscription and to a call.
LEMMA ChannelClosesEffect ==
    ASSUME TypeOK, NEW h \in Chans, ChannelCloses(h)
    PROVE  /\ status' \in [Chans -> Status] /\ status'[h] = "closed"
           /\ \A g \in Chans \ {h} : status'[g] = status[g]
           /\ sub' \in [Tags -> [status : {"unused", "live", "gone"}, chan : Chans \cup {None}]]
           /\ \A t \in Tags :
                 /\ sub'[t] = sub[t] \/ sub'[t].status = "gone"
                 /\ Live(t)' => Live(t) /\ sub'[t] = sub[t] /\ sub[t].chan # h
           /\ call' \in [Who -> Frame]
           /\ \A w \in Who : \/ call'[w] = call[w]
                             \/ /\ call'[w] = Idle /\ call[w].chan = h
                                /\ call[w].at \in {"asked", "cancelling"}
           /\ \A w \in Who : call'[w].at \in {"asked", "cancelling"} =>
                                call'[w] = call[w] /\ call[w].chan # h
           /\ channel' = Evict(h) /\ UNCHANGED <<watched, tag, careful>>
<1>1. status' \in [Chans -> Status] /\ status'[h] = "closed"
      /\ \A g \in Chans \ {h} : status'[g] = status[g]
  BY DEF ChannelCloses, TypeOK, Status
<1>2. sub' \in [Tags -> [status : {"unused", "live", "gone"}, chan : Chans \cup {None}]]
  BY DEF ChannelCloses, TypeOK
<1>3. \A t \in Tags :
         /\ sub'[t] = sub[t] \/ sub'[t].status = "gone"
         /\ Live(t)' => Live(t) /\ sub'[t] = sub[t] /\ sub[t].chan # h
  BY DEF ChannelCloses, TypeOK, Live
<1>4. call' \in [Who -> Frame]
  BY DEF ChannelCloses, TypeOK, Idle, Frame, Points
<1>5. \A w \in Who : /\ \/ call'[w] = call[w]
                        \/ /\ call'[w] = Idle /\ call[w].chan = h
                           /\ call[w].at \in {"asked", "cancelling"}
                     /\ call'[w].at \in {"asked", "cancelling"} =>
                                call'[w] = call[w] /\ call[w].chan # h
  BY DEF ChannelCloses, Idle
<1>6. QED
  BY <1>1, <1>2, <1>3, <1>4, <1>5 DEF ChannelCloses

LEMMA ChannelClosesPreserves ==
    ASSUME IInv, NEW h \in Chans, ChannelCloses(h)
    PROVE  IInv'
<1>1. /\ status' \in [Chans -> Status] /\ status'[h] = "closed"
      /\ \A g \in Chans \ {h} : status'[g] = status[g]
      /\ channel' = Evict(h) /\ UNCHANGED <<watched, tag, careful>>
  BY ChannelClosesEffect DEF IInv
<1>2. /\ sub' \in [Tags -> [status : {"unused", "live", "gone"}, chan : Chans \cup {None}]]
      /\ \A t \in Tags :
            /\ sub'[t] = sub[t] \/ sub'[t].status = "gone"
            /\ Live(t)' => Live(t) /\ sub'[t] = sub[t] /\ sub[t].chan # h
  BY ChannelClosesEffect DEF IInv
<1>3. /\ call' \in [Who -> Frame]
      /\ \A w \in Who : call'[w] = call[w] \/ (call'[w] = Idle /\ call[w].at \in {"asked", "cancelling"})
      /\ \A w \in Who : call'[w].at \in {"asked", "cancelling"} => call'[w] = call[w] /\ call[w].chan # h
  BY ChannelClosesEffect DEF IInv
<1>4. TypeOK'
  BY <1>1, <1>2, <1>3 DEF IInv, TypeOK, Evict
<1>5. CacheIsLive' /\ WatchedAreUsed'
  BY <1>1, NoneAssumption DEF IInv, TypeOK, CacheIsLive, WatchedAreUsed, Evict
<1>6. CallsAreSound'
  BY <1>3 DEF IInv, CallsAreSound, At, Idle
<1>7. SubscriptionsAreSound'
  <2>1. \A t \in Tags : Live(t)' => sub'[t].chan \in Chans
    BY <1>2 DEF IInv, SubscriptionsAreSound
  <2>2. ASSUME NEW t \in Tags, ~At(t, "idle")'
        PROVE  sub'[t].status = "gone"
    <3>1. ~At(t, "idle")
      BY <1>3, <2>2 DEF At, Idle, Who
    <3>2. QED
      BY <1>2, <3>1 DEF IInv, SubscriptionsAreSound
  <2>3. QED
    BY <2>1, <2>2 DEF SubscriptionsAreSound
<1>8. ASSUME careful
      PROVE  Careful'
  <2>1. ASSUME NEW t \in Tags, Live(t)', channel = sub[t].chan
        PROVE  channel' = sub'[t].chan
    BY <1>1, <1>2, <2>1 DEF Evict
  <2>2. ASSUME NEW c \in Consuming'
        PROVE  c \in Consuming /\ call'[c] = call[c] /\ ~At(c, "subscribing")
    BY <1>3, <2>2 DEF Consuming, Idle, ChannelCloses, Quiet
  <2>3. ASSUME NEW c \in Who, At(c, "subscribed")
        PROVE  call'[c] = call[c]
    BY <1>3, <2>3 DEF At
  <2>4. ConsumesAlone'
    <3>1. ASSUME NEW c \in Consuming', NEW v \in Who \ {c}
          PROVE  At(v, "idle")' \/ (At(c, "subscribed")' /\ v = call'[c].tag)
      BY <1>3, <1>8, <2>2, <3>1 DEF IInv, Careful, ConsumesAlone, At, Idle
    <3>2. ASSUME NEW c \in Consuming', NEW t \in Tags, Live(t)'
          PROVE  At(c, "subscribed")' /\ t = call'[c].tag /\ channel' = sub'[t].chan
      BY <1>2, <1>8, <2>1, <2>2, <3>2 DEF IInv, Careful, ConsumesAlone, At
    <3>3. ASSUME NEW c \in Consuming', call'[c].at \in {"subscribing", "asked"}
          PROVE  channel' = call'[c].chan
      <4>1. c \in Who /\ call'[c] = call[c] /\ call[c].chan # h /\ channel = call[c].chan
        BY <1>3, <1>8, <2>2, <3>3 DEF IInv, Careful, ConsumesAlone, At, Consuming
      <4>2. QED
        BY <1>1, <4>1 DEF Evict
    <3>4. QED
      BY <3>1, <3>2, <3>3 DEF ConsumesAlone
  <2>5. IsAtHand'
    <3>1. ASSUME NEW t \in Tags, Live(t)', Consuming # {}
          PROVE  Consuming' # {}
      <4>1. PICK c \in Consuming : TRUE
        BY <3>1
      <4>2. c \in Who /\ At(c, "subscribed")
        BY <1>2, <1>8, <3>1, <4>1 DEF IInv, Careful, ConsumesAlone, Consuming
      <4>3. c \in Consuming'
        BY <2>3, <4>1, <4>2 DEF Consuming
      <4>4. QED
        BY <4>3
    <3>2. QED
      BY <1>1, <1>2, <1>8, <2>1, <3>1 DEF IInv, Careful, IsAtHand
  <2>6. CancelsTheLiving'
    <3>1. ASSUME NEW t \in Tags, Live(t)', NEW w \in Who
          PROVE  /\ At(w, "cancelling")' => call'[w].tag = t /\ call'[w].chan = sub'[t].chan
                 /\ ~At(w, "canceled")' /\ ~At(w, "closed")'
      BY <1>2, <1>3, <1>8, <3>1 DEF IInv, Careful, CancelsTheLiving, At, Idle
    <3>2. QED
      BY <3>1 DEF CancelsTheLiving
  <2>7. QED
    BY <2>4, <2>5, <2>6 DEF Careful
<1>9. QED
  BY <1>1, <1>4, <1>5, <1>6, <1>7, <1>8 DEF IInv

-----------------------------------------------------------------------------
(***************************************************************************)
(* The invariant holds in every reachable state.                           *)
(***************************************************************************)
LEMMA NextPreserves == IInv /\ [Next]_vars => IInv'
<1> SUFFICES ASSUME IInv, [Next]_vars
             PROVE  IInv'
  OBVIOUS
<1>1. ASSUME NEW c \in Callers, Consume(c) \/ Cancel(c) \/ Close(c)
      PROVE  IInv'
  BY <1>1, ConsumePreserves, CancelPreserves, ClosePreserves
<1>2. ASSUME NEW w \in Who, Provided(w)
      PROVE  IInv'
  <2>1. CASE ProviderRejects(w)
    BY <2>1, SettlePreserves DEF ProviderRejects, At
  <2>2. QED
    BY <1>2, <2>1, ChannelResumesPreserves DEF Provided
<1>3. ASSUME NEW w \in Who, Resume(w)
      PROVE  IInv'
  <2>1. CASE CloseReturns(w)
    BY <2>1, SettlePreserves DEF CloseReturns, At
  <2>2. QED
    BY <1>3, <2>1, SubscribePreserves, ConsumeResumesPreserves, CancelResumesPreserves DEF Resume
<1>4. ASSUME NEW w \in Who, Answer(w)
      PROVE  IInv'
  BY <1>4, CancelOkPreserves, SubscribeOkPreserves DEF Answer
<1>5. ASSUME NEW t \in Tags, ServerCancels(t)
      PROVE  IInv'
  BY <1>5, ServerCancelsPreserves
<1>6. ASSUME NEW h \in Chans, ChannelClosing(h) \/ ChannelCloses(h)
      PROVE  IInv'
  BY <1>6, ChannelClosingPreserves, ChannelClosesPreserves
<1>7. CASE UNCHANGED vars
  <2>1. UNCHANGED <<channel, watched, status, tag, sub, call, careful>>
    BY <1>7 DEF vars
  <2>2. TypeOK' /\ CacheIsLive' /\ WatchedAreUsed'
    BY <2>1 DEF IInv, TypeOK, CacheIsLive, WatchedAreUsed
  <2>3. CallsAreSound' /\ SubscriptionsAreSound'
    BY <2>1 DEF IInv, CallsAreSound, SubscriptionsAreSound, At, Live
  <2>4. careful => Careful'
    BY <2>1 DEF IInv, Careful, ConsumesAlone, IsAtHand, CancelsTheLiving, Consuming, At, Live
  <2>5. QED
    BY <2>1, <2>2, <2>3, <2>4 DEF IInv
<1>8. QED
  BY <1>1, <1>2, <1>3, <1>4, <1>5, <1>6, <1>7 DEF Next

THEOREM Invariance == Spec => []IInv
BY InitEstablishes, NextPreserves, PTL DEF Spec

-----------------------------------------------------------------------------
(***************************************************************************)
(* The tags that the consumer and its calls hold.                          *)
(***************************************************************************)
\* The server has given out every tag that is held, and a cancel() that came back
\* has ended its subscription, if that was on the channel which it asked.
TagIsGiven(w) ==
    call[w].at \in {"subscribed", "cancelling", "canceled"} =>
        /\ call[w].tag \in Tags
        /\ sub[call[w].tag].status # "unused"
        /\ At(w, "canceled") /\ sub[call[w].tag].chan = call[w].chan => ~Live(call[w].tag)

TagsAreGiven ==
    /\ tag # None => sub[tag].status # "unused"
    /\ \A w \in Who : TagIsGiven(w)

\* A subscription that was given out keeps its channel, and does not come back.
SubscriptionsAge ==
    \A t \in Tags : sub[t].status # "unused" =>
        /\ sub'[t].status # "unused" /\ sub'[t].chan = sub[t].chan
        /\ ~Live(t) => ~Live(t)'

\* To be shown of a step: subscriptions age, and what a call or the consumer takes
\* up is given out.
LEMMA GivenIsKept ==
    ASSUME TagsAreGiven, tag \in Tags \cup {None}, SubscriptionsAge,
           \A w \in Who : call'[w] = call[w] \/ TagIsGiven(w)',
           tag' \in {tag, None} \/ sub'[tag'].status # "unused"
    PROVE  TagsAreGiven'
<1>1. tag' # None => sub'[tag'].status # "unused"
  BY DEF TagsAreGiven, SubscriptionsAge
<1>2. ASSUME NEW w \in Who, call'[w] = call[w]
      PROVE  TagIsGiven(w)'
  <2>1. TagIsGiven(w)
    BY DEF TagsAreGiven
  <2>2. CASE call[w].at \in {"subscribed", "cancelling", "canceled"}
    <3>1. /\ call[w].tag \in Tags /\ sub[call[w].tag].status # "unused"
          /\ At(w, "canceled") /\ sub[call[w].tag].chan = call[w].chan => ~Live(call[w].tag)
      BY <2>1, <2>2 DEF TagIsGiven
    <3>2. /\ sub'[call[w].tag].status # "unused" /\ sub'[call[w].tag].chan = sub[call[w].tag].chan
          /\ ~Live(call[w].tag) => sub'[call[w].tag].status # "live"
      BY <3>1 DEF SubscriptionsAge, Live
    <3>3. QED
      BY <1>2, <3>1, <3>2 DEF TagIsGiven, At, Live
  <2>3. CASE call[w].at \notin {"subscribed", "cancelling", "canceled"}
    BY <1>2, <2>3 DEF TagIsGiven
  <2>4. QED
    BY <2>2, <2>3
<1>3. QED
  BY <1>1, <1>2 DEF TagsAreGiven

LEMMA StepKeepsGiven ==
    ASSUME IInv, TagsAreGiven, [Next]_vars
    PROVE  TagsAreGiven'
<1>1. TypeOK /\ call \in [Who -> Frame] /\ tag \in Tags \cup {None}
  BY DEF IInv, TypeOK
<1>2. ASSUME UNCHANGED sub
      PROVE  SubscriptionsAge
  BY <1>2 DEF SubscriptionsAge, Live
<1>3. ASSUME NEW u \in Tags, Ends(u), sub[u].status # "unused"
      PROVE  SubscriptionsAge
  BY <1>1, <1>3 DEF SubscriptionsAge, Ends, Live, TypeOK
\* One call moves to where it holds no tag.
<1>4. ASSUME NEW w \in Who, \A v \in Who \ {w} : call'[v] = call[v],
             call'[w] = call[w] \/ call'[w].at \notin {"subscribed", "cancelling", "canceled"},
             tag' \in {tag, None}, UNCHANGED sub
      PROVE  TagsAreGiven'
  <2>1. \A v \in Who : call'[v] = call[v] \/ TagIsGiven(v)'
    BY <1>4 DEF TagIsGiven
  <2>2. QED
    BY <1>1, <1>2, <1>4, <2>1, GivenIsKept
\* A cancel() begins, which takes the tag at hand.
<1>5. ASSUME NEW w \in Who, NEW op \in {"cancel", "close"}, BeginCancel(w, op), SubscriptionsAge
      PROVE  TagsAreGiven'
  <2>1. /\ tag' \in {tag, None} /\ \A v \in Who \ {w} : call'[v] = call[v]
        /\ \/ call'[w].at = "cancelling" /\ call'[w].tag = tag
           \/ call'[w].at \in {"closed", "idle"}
           \/ call'[w] = call[w]
    BY <1>1, <1>5, BeginCancelEffect
  <2>2. CASE tag # None
    <3>1. tag \in Tags /\ sub'[tag].status # "unused"
      BY <1>1, <1>5, <2>2 DEF TagsAreGiven, SubscriptionsAge
    <3>2. \A v \in Who : call'[v] = call[v] \/ TagIsGiven(v)'
      BY <2>1, <3>1 DEF TagIsGiven, At
    <3>3. QED
      BY <1>1, <1>5, <2>1, <3>2, GivenIsKept
  <2>3. CASE tag = None
    <3>1. Finish(w, op)
      BY <1>5, <2>3 DEF BeginCancel
    <3>2. call'[w].at \in {"closed", "idle"}
      BY <1>1, <3>1, FinishEffect
    <3>3. \A v \in Who : call'[v] = call[v] \/ TagIsGiven(v)'
      BY <2>1, <3>2 DEF TagIsGiven
    <3>4. QED
      BY <1>1, <1>5, <2>1, <3>3, GivenIsKept
  <2>4. QED
    BY <2>2, <2>3
<1>6. ASSUME NEW c \in Callers, Consume(c)
      PROVE  TagsAreGiven'
  <2>1. /\ c \in Who /\ call'[c].at \in {"asking", "subscribing"}
        /\ \A v \in Who \ {c} : call'[v] = call[v]
        /\ UNCHANGED <<tag, sub>>
    BY <1>1, <1>6 DEF Consume, Who
  <2>2. QED
    BY <1>4, <2>1
<1>7. ASSUME NEW c \in Callers, Cancel(c) \/ Close(c)
      PROVE  TagsAreGiven'
  <2>1. c \in Who /\ UNCHANGED sub
    BY <1>7 DEF Cancel, Close, Who
  <2>2. CASE \E op \in {"cancel", "close"} : BeginCancel(c, op)
    BY <1>2, <1>5, <2>1, <2>2
  <2>3. CASE Finish(c, "close") /\ UNCHANGED tag
    <3>1. call'[c].at = "closed" /\ \A v \in Who \ {c} : call'[v] = call[v]
      BY <1>1, <2>1, <2>3, FinishEffect
    <3>2. QED
      BY <1>4, <2>1, <2>3, <3>1
  <2>4. QED
    BY <1>7, <2>2, <2>3 DEF Cancel, Close
<1>8. ASSUME NEW w \in Who, NEW h \in Chans, ChannelResumes(w, h)
      PROVE  TagsAreGiven'
  <2>1. /\ call'[w].at = "subscribing" /\ UNCHANGED <<tag, sub>>
        /\ \A v \in Who \ {w} : call'[v] = call[v]
    BY <1>1, <1>8 DEF ChannelResumes, Frame
  <2>2. QED
    BY <1>4, <2>1
<1>9. ASSUME NEW w \in Who, ProviderRejects(w) \/ CloseReturns(w) \/ Subscribe(w)
      PROVE  TagsAreGiven'
  <2>1. /\ call'[w].at \in {"idle", "asked"} /\ UNCHANGED <<tag, sub>>
        /\ \A v \in Who \ {w} : call'[v] = call[v]
    <3>1. (Settle(w) \/ GoTo(w, "asked")) /\ UNCHANGED <<tag, sub>>
      BY <1>9 DEF ProviderRejects, CloseReturns, Subscribe
    <3>2. QED
      BY <1>1, <3>1, SettleEffect, GoToEffect DEF Idle, Points
  <2>2. QED
    BY <1>4, <2>1
<1>10. ASSUME NEW w \in Who, ConsumeResumes(w)
       PROVE  TagsAreGiven'
  <2>1. /\ At(w, "subscribed") /\ tag' = call[w].tag /\ UNCHANGED sub
        /\ call'[w] = Idle /\ \A v \in Who \ {w} : call'[v] = call[v]
    BY <1>1, <1>10, SettleEffect DEF ConsumeResumes
  <2>2. sub'[tag'].status # "unused"
    BY <2>1 DEF TagsAreGiven, TagIsGiven, At
  <2>3. \A v \in Who : call'[v] = call[v] \/ TagIsGiven(v)'
    BY <2>1 DEF TagIsGiven, Idle
  <2>4. QED
    BY <1>1, <1>2, <2>1, <2>2, <2>3, GivenIsKept
<1>11. ASSUME NEW w \in Who, CancelResumes(w)
       PROVE  TagsAreGiven'
  <2>1. /\ tag' = None /\ UNCHANGED sub
        /\ call'[w].at \in {"closed", "idle"} /\ \A v \in Who \ {w} : call'[v] = call[v]
    BY <1>1, <1>11 DEF CancelResumes, Finish, Idle
  <2>2. QED
    BY <1>4, <2>1
<1>12. ASSUME NEW w \in Who, NEW u \in Tags, SubscribeOk(w, u)
       PROVE  TagsAreGiven'
  <2>1. /\ sub[u].status = "unused" /\ sub' = [sub EXCEPT ![u] = [status |-> "live", chan |-> call[w].chan]]
        /\ call'[w].at = "subscribed" /\ call'[w].tag = u /\ UNCHANGED tag
        /\ \A v \in Who \ {w} : call'[v] = call[v]
    BY <1>1, <1>12 DEF SubscribeOk, Frame
  <2>2. SubscriptionsAge /\ sub'[u].status # "unused"
    BY <1>1, <2>1 DEF SubscriptionsAge, Live, TypeOK
  <2>3. \A v \in Who : call'[v] = call[v] \/ TagIsGiven(v)'
    BY <2>1, <2>2 DEF TagIsGiven, At
  <2>4. QED
    BY <1>1, <2>1, <2>2, <2>3, GivenIsKept
<1>13. ASSUME NEW w \in Who, CancelOk(w)
       PROVE  TagsAreGiven'
  <2>1. /\ At(w, "cancelling") /\ UNCHANGED tag /\ GoTo(w, "canceled")
        /\ IF sub[call[w].tag].chan = call[w].chan THEN Ends(call[w].tag) ELSE UNCHANGED sub
    BY <1>13 DEF CancelOk
  <2>2. /\ call'[w].at = "canceled" /\ call'[w].tag = call[w].tag /\ call'[w].chan = call[w].chan
        /\ \A v \in Who \ {w} : call'[v] = call[v]
    BY <1>1, <2>1, GoToEffect DEF Points
  <2>3. call[w].tag \in Tags /\ sub[call[w].tag].status # "unused"
    BY <2>1 DEF TagsAreGiven, TagIsGiven, At
  <2>4. SubscriptionsAge
    BY <1>2, <1>3, <2>1, <2>3
  <2>5. TagIsGiven(w)'
    <3>1. sub'[call[w].tag].status # "unused" /\ sub'[call[w].tag].chan = sub[call[w].tag].chan
      BY <2>3, <2>4 DEF SubscriptionsAge
    <3>2. sub[call[w].tag].chan = call[w].chan => sub'[call[w].tag].status = "gone"
      BY <1>1, <2>1, <2>3 DEF Ends, TypeOK
    <3>3. QED
      BY <2>2, <2>3, <3>1, <3>2 DEF TagIsGiven, At, Live
  <2>6. QED
    BY <1>1, <2>1, <2>2, <2>4, <2>5, GivenIsKept
<1>14. ASSUME NEW u \in Tags, ServerCancels(u)
       PROVE  TagsAreGiven'
  <2>1. u \in Who /\ BeginCancel(u, "cancel") /\ Ends(u) /\ sub[u].status # "unused"
    BY <1>14 DEF ServerCancels, Live, Who
  <2>2. QED
    BY <1>3, <1>5, <2>1
<1>15. ASSUME NEW h \in Chans, ChannelClosing(h)
       PROVE  TagsAreGiven'
  BY <1>1, <1>2, <1>15, GivenIsKept DEF ChannelClosing
<1>16. ASSUME NEW h \in Chans, ChannelCloses(h)
       PROVE  TagsAreGiven'
  <2>1. SubscriptionsAge
    BY <1>1, <1>16 DEF ChannelCloses, SubscriptionsAge, Live, TypeOK
  <2>2. UNCHANGED tag /\ \A w \in Who : call'[w] = call[w] \/ call'[w] = Idle
    BY <1>1, <1>16, ChannelClosesEffect
  <2>3. \A w \in Who : call'[w] = call[w] \/ TagIsGiven(w)'
    BY <2>2 DEF TagIsGiven, Idle
  <2>4. QED
    BY <1>1, <2>1, <2>2, <2>3, GivenIsKept
<1>17. CASE UNCHANGED vars
  BY <1>1, <1>2, <1>17, GivenIsKept DEF vars
<1>18. QED
  BY <1>6, <1>7, <1>8, <1>9, <1>10, <1>11, <1>12, <1>13, <1>14, <1>15, <1>16, <1>17
     DEF Next, Provided, Resume, Answer

LEMMA GivenInvariance == Spec => []TagsAreGiven
<1>1. Init => TagsAreGiven
  BY DEF Init, Idle, TagsAreGiven, TagIsGiven
<1>2. QED
  BY Invariance, <1>1, StepKeepsGiven, PTL DEF Spec

-----------------------------------------------------------------------------
(***************************************************************************)
(* What puts a living subscription out of reach.                           *)
(***************************************************************************)
\* A subscription within reach stays there while whatever reaches it is left alone.
LEMMA ReachIsKept ==
    ASSUME NEW t \in Tags, Live(t), sub'[t] = sub[t], ~OutOfReach(t),
           \A w \in Who : At(w, "subscribed") => call'[w] = call[w],
           tag = t /\ channel = sub[t].chan => tag' = tag /\ channel' = channel,
           \A w \in Who : At(w, "cancelling") /\ call[w].tag = t /\ call[w].chan = sub[t].chan
                          => call'[w] = call[w]
    PROVE  ~OutOfReach(t)'
<1>1. CASE \E w \in Who : At(w, "subscribed") /\ call[w].tag = t
  BY <1>1 DEF OutOfReach, At
<1>2. CASE tag = t /\ channel = sub[t].chan
  BY <1>2 DEF OutOfReach
<1>3. CASE \E w \in Who : At(w, "cancelling") /\ call[w].tag = t /\ call[w].chan = sub[t].chan
  BY <1>3 DEF OutOfReach, At
<1>4. QED
  BY <1>1, <1>2, <1>3 DEF OutOfReach

\* A call at none of the awaits that reach a subscription moves; nothing else changes.
LEMMA MovingKeepsReach ==
    ASSUME TypeOK, NEW t \in Tags, ~OutOfReach(t), Live(t) => sub[t].chan \in Chans,
           NEW w \in Who, call[w].at \notin {"subscribed", "cancelling"},
           \A v \in Who \ {w} : call'[v] = call[v],
           channel = None \/ (channel' = channel /\ tag' = tag),
           UNCHANGED sub
    PROVE  ~OutOfReach(t)'
<1>1. CASE ~Live(t)
  BY <1>1 DEF OutOfReach, Live
<1>2. CASE Live(t)
  <2>1. \A v \in Who : At(v, "subscribed") \/ At(v, "cancelling") => call'[v] = call[v]
    BY DEF At
  <2>2. tag = t /\ channel = sub[t].chan => tag' = tag /\ channel' = channel
    BY <1>2, NoneAssumption
  <2>3. QED
    BY <1>2, <2>1, <2>2, ReachIsKept
<1>3. QED
  BY <1>1, <1>2

\* cancel() and close() that begin take no subscription out of reach.
LEMMA BeginningKeepsReach ==
    ASSUME IInv, NEW t \in Tags, ~OutOfReach(t), NEW w \in Who, At(w, "idle"),
           NEW op \in {"cancel", "close"},
           BeginCancel(w, op) \/ (channel = None /\ Finish(w, op) /\ UNCHANGED tag),
           UNCHANGED channel,
           NEW u \in Tags, sub' = sub \/ Ends(u)
    PROVE  ~OutOfReach(t)'
<1>1. /\ \A v \in Who \ {w} : call'[v] = call[v]
      /\ tag' # tag => channel = None
  <2>1. CASE BeginCancel(w, op)
    BY <2>1, BeginCancelEffect DEF IInv, BeginCancel
  <2>2. CASE channel = None /\ Finish(w, op) /\ UNCHANGED tag
    BY <2>2, FinishEffect DEF IInv, TypeOK
  <2>3. QED
    BY <2>1, <2>2
<1>2. CASE Live(t)'
  <2>1. Live(t) /\ sub'[t] = sub[t]
    BY <1>2 DEF Live, Ends, IInv, TypeOK
  <2>2. sub[t].chan \in Chans
    BY <2>1 DEF IInv, SubscriptionsAreSound
  <2>3. \A v \in Who : At(v, "subscribed") \/ At(v, "cancelling") => call'[v] = call[v]
    BY <1>1 DEF At
  <2>4. tag = t /\ channel = sub[t].chan => tag' = tag /\ channel' = channel
    BY <1>1, <2>2, NoneAssumption
  <2>5. QED
    BY <2>1, <2>3, <2>4, ReachIsKept
<1>3. QED
  BY <1>2 DEF OutOfReach

LEMMA StepKeepsReach ==
    ASSUME IInv, TagsAreGiven, [Next]_vars, NEW t \in Tags, ~OutOfReach(t),
           channel = None \/ channel' \in {channel, None},
           \A w \in Who : ConsumeResumes(w) => call[w].tag = t /\ channel = sub[t].chan,
           \A w \in Who : CancelResumes(w) => call[w].tag = t /\ call[w].chan = sub[t].chan
    PROVE  ~OutOfReach(t)'
<1>1. TypeOK /\ (Live(t) => sub[t].chan \in Chans) /\ call \in [Who -> Frame]
  BY DEF IInv, SubscriptionsAreSound, TypeOK
<1>2. ASSUME NEW c \in Callers, Consume(c)
      PROVE  ~OutOfReach(t)'
  <2>1. /\ c \in Who /\ call[c].at \notin {"subscribed", "cancelling"}
        /\ \A v \in Who \ {c} : call'[v] = call[v]
        /\ UNCHANGED <<channel, tag, sub>>
    BY <1>1, <1>2 DEF Consume, At, Who
  <2>2. QED
    BY <1>1, <2>1, MovingKeepsReach
<1>3. ASSUME NEW c \in Callers, Cancel(c) \/ Close(c)
      PROVE  ~OutOfReach(t)'
  <2>1. c \in Who /\ At(c, "idle") /\ UNCHANGED <<channel, sub>>
    BY <1>3 DEF Cancel, Close, MayCancel, Who
  <2>2. CASE Cancel(c)
    BY <2>1, <2>2, BeginningKeepsReach DEF Cancel
  <2>3. CASE Close(c)
    <3>1. BeginCancel(c, "close") \/ (channel = None /\ Finish(c, "close") /\ UNCHANGED tag)
      BY <2>3 DEF Close
    <3>2. QED
      BY <2>1, <3>1, BeginningKeepsReach
  <2>4. QED
    BY <1>3, <2>2, <2>3
<1>4. ASSUME NEW w \in Who, NEW h \in Chans, ChannelResumes(w, h)
      PROVE  ~OutOfReach(t)'
  <2>1. /\ call[w].at \notin {"subscribed", "cancelling"} /\ channel' = h
        /\ \A v \in Who \ {w} : call'[v] = call[v]
        /\ UNCHANGED <<tag, sub>>
    BY <1>1, <1>4 DEF ChannelResumes, At
  <2>2. channel' # None
    BY <2>1, NoneAssumption
  <2>3. QED
    BY <1>1, <2>1, <2>2, MovingKeepsReach
<1>5. ASSUME NEW w \in Who, ProviderRejects(w) \/ CloseReturns(w)
      PROVE  ~OutOfReach(t)'
  <2>1. /\ call[w].at \notin {"subscribed", "cancelling"} /\ Settle(w)
        /\ UNCHANGED <<channel, tag, sub>>
    BY <1>5 DEF ProviderRejects, CloseReturns, At
  <2>2. \A v \in Who \ {w} : call'[v] = call[v]
    BY <1>1, <2>1, SettleEffect
  <2>3. QED
    BY <1>1, <2>1, <2>2, MovingKeepsReach
<1>6. ASSUME NEW w \in Who, Subscribe(w)
      PROVE  ~OutOfReach(t)'
  <2>1. /\ call[w].at \notin {"subscribed", "cancelling"} /\ UNCHANGED <<channel, tag, sub>>
        /\ Settle(w) \/ GoTo(w, "asked")
    BY <1>6 DEF Subscribe, At
  <2>2. \A v \in Who \ {w} : call'[v] = call[v]
    BY <1>1, <2>1 DEF Settle, GoTo
  <2>3. QED
    BY <1>1, <2>1, <2>2, MovingKeepsReach
<1>7. ASSUME NEW w \in Who, ConsumeResumes(w)
      PROVE  ~OutOfReach(t)'
  <2>1. tag' = t /\ channel' = sub'[t].chan
    BY <1>7 DEF ConsumeResumes
  <2>2. QED
    BY <2>1 DEF OutOfReach
<1>8. ASSUME NEW w \in Who, CancelResumes(w)
      PROVE  ~OutOfReach(t)'
  <2>1. At(w, "canceled") /\ call[w].tag = t /\ call[w].chan = sub[t].chan /\ UNCHANGED sub
    BY <1>8 DEF CancelResumes
  <2>2. ~Live(t)
    BY <2>1 DEF TagsAreGiven, TagIsGiven, At
  <2>3. QED
    BY <2>1, <2>2 DEF OutOfReach, Live
<1>9. ASSUME NEW w \in Who, NEW u \in Tags, SubscribeOk(w, u)
      PROVE  ~OutOfReach(t)'
  <2>1. /\ At(w, "asked") /\ sub[u].status = "unused" /\ UNCHANGED <<channel, tag>>
        /\ call'[w].at = "subscribed" /\ call'[w].tag = u
        /\ \A v \in Who \ {w} : call'[v] = call[v]
        /\ \A r \in Tags \ {u} : sub'[r] = sub[r]
    BY <1>1, <1>9 DEF SubscribeOk, At, Frame, TypeOK
  <2>2. CASE t = u
    BY <2>1, <2>2 DEF OutOfReach, At
  <2>3. CASE t # u /\ Live(t)
    <3>1. \A v \in Who : At(v, "subscribed") \/ At(v, "cancelling") => call'[v] = call[v]
      BY <2>1 DEF At
    <3>2. QED
      BY <2>1, <2>3, <3>1, ReachIsKept
  <2>4. CASE t # u /\ ~Live(t)
    BY <2>1, <2>4 DEF OutOfReach, Live
  <2>5. QED
    BY <2>2, <2>3, <2>4
<1>10. ASSUME NEW w \in Who, CancelOk(w)
       PROVE  ~OutOfReach(t)'
  <2>1. /\ At(w, "cancelling") /\ UNCHANGED <<channel, tag>>
        /\ \A v \in Who \ {w} : call'[v] = call[v]
        /\ IF sub[call[w].tag].chan = call[w].chan THEN Ends(call[w].tag) ELSE UNCHANGED sub
    BY <1>1, <1>10 DEF CancelOk, GoTo
  <2>2. CASE Live(t)'
    <3>1. Live(t) /\ sub'[t] = sub[t] /\ ~(call[w].tag = t /\ call[w].chan = sub[t].chan)
      BY <1>1, <2>1, <2>2 DEF Live, Ends, TypeOK
    <3>2. \A v \in Who : At(v, "subscribed") => call'[v] = call[v]
      BY <2>1 DEF At
    <3>3. \A v \in Who : At(v, "cancelling") /\ call[v].tag = t /\ call[v].chan = sub[t].chan
                         => call'[v] = call[v]
      BY <2>1, <3>1
    <3>4. QED
      BY <2>1, <3>1, <3>2, <3>3, ReachIsKept
  <2>3. QED
    BY <2>2 DEF OutOfReach
<1>11. ASSUME NEW u \in Tags, ServerCancels(u)
       PROVE  ~OutOfReach(t)'
  <2>1. /\ u \in Who /\ At(u, "idle") /\ BeginCancel(u, "cancel") /\ Ends(u)
        /\ UNCHANGED channel
    BY <1>11 DEF ServerCancels, IInv, SubscriptionsAreSound, Live, Who
  <2>2. QED
    BY <2>1, BeginningKeepsReach
<1>12. ASSUME NEW h \in Chans, ChannelClosing(h)
       PROVE  ~OutOfReach(t)'
  BY <1>12 DEF ChannelClosing, OutOfReach, At, Live
<1>13. ASSUME NEW h \in Chans, ChannelCloses(h)
       PROVE  ~OutOfReach(t)'
  <2>1. /\ Live(t)' => Live(t) /\ sub'[t] = sub[t] /\ sub[t].chan # h
        /\ channel' = Evict(h) /\ UNCHANGED tag
    BY <1>1, <1>13, ChannelClosesEffect
  <2>2. \A w \in Who : \/ call'[w] = call[w]
                       \/ call[w].chan = h /\ call[w].at \in {"asked", "cancelling"}
    BY <1>1, <1>13, ChannelClosesEffect
  <2>3. CASE Live(t)'
    <3>1. \A w \in Who : At(w, "subscribed") => call'[w] = call[w]
      BY <2>2 DEF At
    <3>2. tag = t /\ channel = sub[t].chan => tag' = tag /\ channel' = channel
      BY <2>1, <2>3 DEF Evict
    <3>3. \A w \in Who : At(w, "cancelling") /\ call[w].tag = t /\ call[w].chan = sub[t].chan
                         => call'[w] = call[w]
      BY <2>1, <2>2, <2>3
    <3>4. QED
      BY <2>1, <2>3, <3>1, <3>2, <3>3, ReachIsKept
  <2>4. QED
    BY <2>3 DEF OutOfReach
<1>14. CASE UNCHANGED vars
  BY <1>14 DEF vars, OutOfReach, At, Live
<1>15. QED
  BY <1>2, <1>3, <1>4, <1>5, <1>6, <1>7, <1>8, <1>9, <1>10, <1>11, <1>12, <1>13, <1>14
     DEF Next, Provided, Resume, Answer

-----------------------------------------------------------------------------
(***************************************************************************)
(* The theorems.                                                           *)
(***************************************************************************)
\* Every variable of the consumer keeps its type.
THEOREM TypeCorrect == Spec => []TypeOK
BY Invariance, PTL DEF IInv

\* The consumer never keeps a channel whose 'close' event reached it: the cleanup
\* task, which tests that the channel is still its own, is enough.
THEOREM CacheCorrect == Spec => []CacheIsLive
BY Invariance, PTL DEF IInv

\* In a careful application no subscription outlives the close() that returns:
\* every living one is at hand and every cancel() that waited was for it.
THEOREM CloseIsComplete == Spec => []CloseEnds
<1>1. IInv => CloseEnds
  BY DEF IInv, Careful, CancelsTheLiving, CloseEnds
<1>2. QED
  BY Invariance, <1>1, PTL

\* Without any discipline of the application, a subscription gets out of reach only
\* by another call: one whose channel replaces the cached one, a consume() that
\* overwrites the tag, or the end of a cancel() of something else.
THEOREM OnlyOthersOrphan == Spec => OrphanedByAnother
<1>1. IInv /\ TagsAreGiven /\ [Next]_vars =>
        [\A t \in Tags : OutOfReach(t)' /\ ~OutOfReach(t) =>
            \/ channel # None /\ channel' \notin {channel, None}
            \/ \E w \in Who : ConsumeResumes(w) /\ (call[w].tag # t \/ channel # sub[t].chan)
            \/ \E w \in Who : CancelResumes(w) /\ (call[w].tag # t \/ call[w].chan # sub[t].chan)]_vars
  BY StepKeepsReach
<1>2. QED
  BY Invariance, GivenInvariance, <1>1, PTL DEF Spec, OrphanedByAnother
=============================================================================
