---------------------------- MODULE BrokerProofs ----------------------------
(***************************************************************************)
(* The inductive invariant of Broker and the theorems that rest on it, for *)
(* any number of callers, connections and channels.                        *)
(***************************************************************************)
EXTENDS Broker, TLAPS

\* amqplib keeps a channel alive no longer than its connection.
ChannelsNeedConnections ==
    \A y \in Chans : chan[y].status \in Live \cup {"opening"} =>
        /\ chan[y].conn \in Conns
        /\ cn[chan[y].conn] \in Live

\* An emitter is listened to only once it has opened.
WatchedHaveOpened ==
    /\ \A x \in Conns : x \in watched => cn[x] \notin {"unused", "opening"}
    /\ \A y \in Chans : y \in watched => chan[y].status \notin {"unused", "opening"}

\* What is cached and has not closed is listened to.
CachedAreWatched ==
    /\ connection # None => connection \in watched \/ cn[connection] = "closed"
    /\ \A k \in Kinds : channels[k] # None =>
          channels[k] \in watched \/ chan[channels[k]].status = "closed"

\* The connection a call is creating, or waits for to close.
ConnectionCalls ==
    \A c \in Callers :
        /\ At(c, "connecting") => /\ call[c].conn \in Conns
                                  /\ cn[call[c].conn] = "opening"
        /\ At(c, "connected") => /\ call[c].conn \in Conns \ watched
                                 /\ cn[call[c].conn] \in Live \cup {"closed"}
        /\ At(c, "creating") => call[c].conn \in Conns
        /\ At(c, "closing") => call[c].conn \in Conns \cap watched
        /\ At(c, "closed") => /\ call[c].conn \in Conns \cap watched
                              /\ cn[call[c].conn] = "closed"

\* The channel a call is creating or using.
ChannelCalls ==
    \A c \in Callers :
        /\ At(c, "opening") => /\ call[c].chan \in Chans
                               /\ chan[call[c].chan].status = "opening"
        /\ At(c, "opened") => /\ call[c].chan \in Chans \ watched
                              /\ chan[call[c].chan].status \in Live \cup {"closed"}
        /\ call[c].at \in {"using", "replying"} => call[c].chan \in Chans

\* Two calls never create the same connection or the same channel.
OneCreator ==
    \A c, d \in Callers : c # d =>
        /\ ~(/\ {call[c].at, call[d].at} \subseteq {"connecting", "connected"}
             /\ call[c].conn = call[d].conn)
        /\ ~(/\ {call[c].at, call[d].at} \subseteq {"opening", "opened"}
             /\ call[c].chan = call[d].chan)

IInv ==
    /\ TypeOK
    /\ CacheIsLive
    /\ ChannelsNeedConnections
    /\ WatchedHaveOpened
    /\ CachedAreWatched
    /\ ConnectionCalls
    /\ ChannelCalls
    /\ OneCreator

-----------------------------------------------------------------------------
(***************************************************************************)
(* What settling a call, or moving it on, does to the activation records.  *)
(***************************************************************************)

\* A call that settles is idle; the other calls do not notice.
LEMMA SettleEffect ==
    ASSUME call \in [Callers -> Frame], NEW c \in Callers, Settle(c)
    PROVE  /\ call' \in [Callers -> Frame]
           /\ call'[c].at = "idle"
           /\ \A d \in Callers \ {c} : call'[d] = call[d]
BY DEF Settle, Idle, Frame, Ops, ChannelOps, Points

\* A call that moves on keeps its connection and its channel.
LEMMA GoToEffect ==
    ASSUME call \in [Callers -> Frame], NEW c \in Callers, NEW p \in Points, GoTo(c, p)
    PROVE  /\ call' \in [Callers -> Frame]
           /\ call'[c].at = p
           /\ call'[c].conn = call[c].conn
           /\ call'[c].chan = call[c].chan
           /\ \A d \in Callers \ {c} : call'[d] = call[d]
BY DEF GoTo, Frame

\* A step that moves calls only keeps the invariant if it keeps what the calls
\* are known to hold.
LEMMA OnlyCallsMove ==
    ASSUME IInv, UNCHANGED <<connection, channels, watched, cn, chan>>,
           call' \in [Callers -> Frame],
           ConnectionCalls', ChannelCalls', OneCreator'
    PROVE  IInv'
BY DEF IInv, TypeOK, CacheIsLive, ChannelsNeedConnections, WatchedHaveOpened, CachedAreWatched

\* In particular when one call becomes idle.
LEMMA SettlePreserves ==
    ASSUME IInv, NEW c \in Callers, Settle(c),
           UNCHANGED <<connection, channels, watched, cn, chan>>
    PROVE  IInv'
<1>1. /\ call' \in [Callers -> Frame]
      /\ call'[c].at = "idle"
      /\ \A d \in Callers \ {c} : call'[d] = call[d]
  BY SettleEffect DEF IInv, TypeOK
<1>2. ConnectionCalls'
  BY <1>1 DEF IInv, ConnectionCalls, At
<1>3. ChannelCalls'
  BY <1>1 DEF IInv, ChannelCalls, At
<1>4. OneCreator'
  BY <1>1 DEF IInv, OneCreator
<1>5. QED
  BY <1>1, <1>2, <1>3, <1>4, OnlyCallsMove

-----------------------------------------------------------------------------
(***************************************************************************)
(* Every action preserves the invariant.                                   *)
(***************************************************************************)

\* connect() and channel() call amqplib's connect(): a new connection opens.
LEMMA OpenConnectionPreserves ==
    ASSUME IInv, NEW c \in Callers, NEW op \in Ops, At(c, "idle"), OpenConnection(c, op),
           UNCHANGED <<connection, channels, watched, chan>>
    PROVE  IInv'
<1>1. PICK x \in Conns :
         /\ cn[x] = "unused"
         /\ cn' = [cn EXCEPT ![x] = "opening"]
         /\ call' = [call EXCEPT ![c] = [op |-> op, at |-> "connecting", conn |-> x, chan |-> None]]
  BY DEF OpenConnection
<1>2. /\ call' \in [Callers -> Frame]
      /\ call'[c].at = "connecting" /\ call'[c].conn = x
      /\ \A d \in Callers \ {c} : call'[d] = call[d]
  BY <1>1 DEF IInv, TypeOK, Frame, Points
<1>3. /\ cn' \in [Conns -> Status] /\ cn'[x] = "opening"
      /\ \A z \in Conns \ {x} : cn'[z] = cn[z]
      /\ x \notin watched
  BY <1>1 DEF IInv, TypeOK, Status, WatchedHaveOpened
<1>4. TypeOK'
  BY <1>2, <1>3 DEF IInv, TypeOK
<1>5. CacheIsLive'
  BY <1>1, <1>3, NoneAssumption DEF IInv, TypeOK, CacheIsLive, Live, ChannelsNeedConnections, Kinds
<1>6. ChannelsNeedConnections'
  BY <1>1, <1>3 DEF IInv, ChannelsNeedConnections, Live
<1>7. WatchedHaveOpened'
  BY <1>3 DEF IInv, WatchedHaveOpened
<1>8. CachedAreWatched'
  BY <1>1, <1>3 DEF IInv, TypeOK, CachedAreWatched
<1>9. ConnectionCalls'
  BY <1>1, <1>2, <1>3 DEF IInv, ConnectionCalls, At, Live
<1>10. ChannelCalls'
  BY <1>2 DEF IInv, ChannelCalls, At
<1>11. OneCreator'
  BY <1>1, <1>2 DEF IInv, OneCreator, ConnectionCalls, At, Live
<1>12. QED
  BY <1>4, <1>5, <1>6, <1>7, <1>8, <1>9, <1>10, <1>11 DEF IInv

\* connect() with no connection cached.
LEMMA ConnectPreserves ==
    ASSUME IInv, NEW c \in Callers, Connect(c)
    PROVE  IInv'
BY OpenConnectionPreserves DEF Connect, Ops

\* channel(), confirmChannel() and the operations with no channel cached.
LEMMA ChannelPreserves ==
    ASSUME IInv, NEW c \in Callers, NEW op \in ChannelOps, Channel(c, op)
    PROVE  IInv'
<1>1. CASE OpenConnection(c, op)
  BY <1>1, OpenConnectionPreserves DEF Channel, Ops
<1>2. CASE ReuseConnection(c, op)
  <2>1. connection \in Conns
    BY <1>2 DEF ReuseConnection, NoConnection, IInv, TypeOK
  <2>2. /\ call' \in [Callers -> Frame]
        /\ call'[c].at = "creating" /\ call'[c].conn = connection
        /\ \A d \in Callers \ {c} : call'[d] = call[d]
    BY <1>2, <2>1 DEF ReuseConnection, IInv, TypeOK, Frame, Points, Ops
  <2>3. ConnectionCalls'
    BY <1>2, <2>1, <2>2 DEF ReuseConnection, Channel, IInv, ConnectionCalls, At
  <2>4. ChannelCalls'
    BY <1>2, <2>2 DEF ReuseConnection, Channel, IInv, ChannelCalls, At
  <2>5. OneCreator'
    BY <2>2 DEF IInv, OneCreator
  <2>6. QED
    BY <1>2, <2>2, <2>3, <2>4, <2>5, OnlyCallsMove DEF ReuseConnection, Channel
<1>3. QED
  BY <1>1, <1>2 DEF Channel

\* The continuation of connect(): the listeners are attached and the
\* connection cached, whatever has become of it.
LEMMA ConnectResumesPreserves ==
    ASSUME IInv, NEW c \in Callers, ConnectResumes(c)
    PROVE  IInv'
<1> DEFINE x == call[c].conn
<1>1. /\ x \in Conns /\ x \notin watched
      /\ cn[x] \in Live \cup {"closed"}
  BY DEF ConnectResumes, IInv, ConnectionCalls
<1>2. /\ connection' = x
      /\ watched' = IF cn[x] \in Live THEN watched \cup {x} ELSE watched
      /\ UNCHANGED <<channels, cn, chan>>
  BY DEF ConnectResumes, Watch
<1>3. /\ call' \in [Callers -> Frame]
      /\ call'[c].at \in {"idle", "creating"}
      /\ call'[c].at = "creating" => call'[c].conn = x
      /\ \A d \in Callers \ {c} : call'[d] = call[d]
  BY SettleEffect, GoToEffect DEF ConnectResumes, IInv, TypeOK, Points
<1>4. \A d \in Callers \ {c} : call[d].at \in {"connecting", "connected"} => call[d].conn # x
  BY DEF ConnectResumes, IInv, OneCreator, At
<1>5. TypeOK'
  BY <1>1, <1>2, <1>3 DEF IInv, TypeOK
<1>6. CacheIsLive'
  BY <1>1, <1>2, NoneAssumption, DistinctAssumption DEF IInv, TypeOK, CacheIsLive
<1>7. ChannelsNeedConnections'
  BY <1>2 DEF IInv, ChannelsNeedConnections
<1>8. WatchedHaveOpened'
  BY <1>1, <1>2, DistinctAssumption DEF IInv, WatchedHaveOpened, Live
<1>9. CachedAreWatched'
  BY <1>1, <1>2 DEF IInv, CachedAreWatched
<1>10. ConnectionCalls'
  BY <1>1, <1>2, <1>3, <1>4 DEF IInv, ConnectionCalls, At
<1>11. ChannelCalls'
  BY <1>1, <1>2, <1>3, DistinctAssumption DEF IInv, ChannelCalls, At
<1>12. OneCreator'
  BY <1>3 DEF IInv, OneCreator
<1>13. QED
  BY <1>5, <1>6, <1>7, <1>8, <1>9, <1>10, <1>11, <1>12 DEF IInv

\* createChannel(): a new channel starts to open, or the call rejects.
LEMMA CreateChannelPreserves ==
    ASSUME IInv, NEW c \in Callers, CreateChannel(c)
    PROVE  IInv'
<1>1. CASE CreateChannelWaits(c)
  <2> DEFINE x == call[c].conn
  <2>1. PICK y \in Chans :
           /\ chan[y].status = "unused"
           /\ chan' = [chan EXCEPT ![y] = [status |-> "opening", conn |-> x,
                                           kind |-> KindOf(call[c].op)]]
           /\ call' = [call EXCEPT ![c].at = "opening", ![c].chan = y]
    BY <1>1 DEF CreateChannelWaits
  <2>2. x \in Conns /\ cn[x] \in Live
    BY <1>1 DEF CreateChannelWaits, IInv, ConnectionCalls, Live
  <2>3. /\ chan' \in [Chans -> [status : Status, conn : Conns \cup {None}, kind : Kinds]]
        /\ chan'[y].status = "opening" /\ chan'[y].conn = x
        /\ \A z \in Chans \ {y} : chan'[z] = chan[z]
        /\ y \notin watched
    BY <2>1, <2>2 DEF IInv, TypeOK, Status, Kinds, KindOf, WatchedHaveOpened
  <2>4. /\ call' \in [Callers -> Frame]
        /\ call'[c].at = "opening" /\ call'[c].chan = y
        /\ \A d \in Callers \ {c} : call'[d] = call[d]
    <3>1. call \in [Callers -> Frame]
      BY DEF IInv, TypeOK
    <3>2. PICK f : f = [call[c] EXCEPT !.at = "opening", !.chan = y]
      OBVIOUS
    <3>3. f \in Frame /\ f.at = "opening" /\ f.chan = y
      BY <3>1, <3>2 DEF Frame, Points
    <3>4. call' = [call EXCEPT ![c] = f]
      BY <2>1, <3>2
    <3>5. QED
      BY <3>1, <3>3, <3>4
  <2>5. UNCHANGED <<connection, channels, watched, cn>>
    BY <1>1 DEF CreateChannelWaits
  <2>6. TypeOK'
    BY <2>3, <2>4, <2>5 DEF IInv, TypeOK
  <2>7. CacheIsLive'
    BY <2>3, <2>5, NoneAssumption DEF IInv, TypeOK, CacheIsLive
  <2>8. ChannelsNeedConnections'
    BY <2>2, <2>3, <2>5 DEF IInv, ChannelsNeedConnections
  <2>9. WatchedHaveOpened'
    BY <2>3, <2>5 DEF IInv, WatchedHaveOpened
  <2>10. CachedAreWatched'
    BY <2>1, <2>3, <2>5 DEF IInv, TypeOK, CachedAreWatched
  <2>11. ConnectionCalls'
    BY <2>4, <2>5 DEF IInv, ConnectionCalls, At
  <2>12. ChannelCalls'
    BY <2>1, <2>3, <2>4, <2>5 DEF IInv, ChannelCalls, At, Live
  <2>13. OneCreator'
    BY <2>1, <2>4 DEF IInv, OneCreator, ChannelCalls, At, Live
  <2>14. QED
    BY <2>6, <2>7, <2>8, <2>9, <2>10, <2>11, <2>12, <2>13 DEF IInv
<1>2. CASE ~CreateChannelWaits(c)
  BY <1>2, SettlePreserves DEF CreateChannel
<1>3. QED
  BY <1>1, <1>2

\* The continuation of channel(): the listeners are attached and the channel
\* cached, whatever has become of it.
LEMMA ChannelResumesPreserves ==
    ASSUME IInv, NEW c \in Callers, ChannelResumes(c)
    PROVE  IInv'
<1> DEFINE y == call[c].chan
           k == KindOf(call[c].op)
<1>1. /\ y \in Chans /\ y \notin watched
      /\ chan[y].status \in Live \cup {"closed"}
      /\ k \in Kinds
  BY DEF ChannelResumes, IInv, ChannelCalls, KindOf, Kinds
<1>2. /\ channels' = [channels EXCEPT ![k] = y]
      /\ watched' = IF chan[y].status \in Live THEN watched \cup {y} ELSE watched
      /\ UNCHANGED <<connection, cn, chan>>
  BY DEF ChannelResumes, Watch
<1>3. /\ call' \in [Callers -> Frame]
      /\ call'[c].at \in {"idle", "using"}
      /\ call'[c].at = "using" => call'[c].chan = y
      /\ \A d \in Callers \ {c} : call'[d] = call[d]
  BY SettleEffect, GoToEffect DEF ChannelResumes, IInv, TypeOK, Points
<1>4. \A d \in Callers \ {c} : call[d].at \in {"opening", "opened"} => call[d].chan # y
  BY DEF ChannelResumes, IInv, OneCreator, At
<1>5. /\ channels'[k] = y
      /\ \A j \in Kinds \ {k} : channels'[j] = channels[j]
  BY <1>1, <1>2 DEF IInv, TypeOK
<1>6. TypeOK'
  BY <1>1, <1>2, <1>3 DEF IInv, TypeOK
<1>7. CacheIsLive'
  <2>1. connection' \in watched' => cn'[connection'] \in Live
    BY <1>1, <1>2, NoneAssumption, DistinctAssumption DEF IInv, TypeOK, CacheIsLive
  <2>2. ASSUME NEW j \in Kinds, channels'[j] \in watched'
        PROVE  /\ chan'[channels'[j]].status \in Live
               /\ cn'[chan'[channels'[j]].conn] \in Live
    BY <1>1, <1>2, <1>5, <2>2 DEF IInv, CacheIsLive, ChannelsNeedConnections
  <2>3. QED
    BY <2>1, <2>2 DEF CacheIsLive
<1>8. ChannelsNeedConnections'
  BY <1>2 DEF IInv, ChannelsNeedConnections
<1>9. WatchedHaveOpened'
  BY <1>1, <1>2, DistinctAssumption DEF IInv, WatchedHaveOpened, Live
<1>10. CachedAreWatched'
  BY <1>1, <1>2, <1>5 DEF IInv, CachedAreWatched
<1>11. ConnectionCalls'
  BY <1>1, <1>2, <1>3, DistinctAssumption DEF IInv, ConnectionCalls, At
<1>12. ChannelCalls'
  BY <1>1, <1>2, <1>3, <1>4 DEF IInv, ChannelCalls, At
<1>13. OneCreator'
  BY <1>3 DEF IInv, OneCreator
<1>14. QED
  BY <1>6, <1>7, <1>8, <1>9, <1>10, <1>11, <1>12, <1>13 DEF IInv

\* An operation that finds its channel cached.
LEMMA RpcPreserves ==
    ASSUME IInv, NEW c \in Callers, Rpc(c)
    PROVE  IInv'
<1>1. channels["normal"] \in Chans
  BY DEF Rpc, IInv, TypeOK, Kinds
<1>2. /\ call' \in [Callers -> Frame]
      /\ call'[c].at = "using" /\ call'[c].chan \in Chans
      /\ \A d \in Callers \ {c} : call'[d] = call[d]
  BY <1>1 DEF Rpc, IInv, TypeOK, Frame, Points, Ops, ChannelOps
<1>3. ConnectionCalls'
  BY <1>2 DEF Rpc, IInv, ConnectionCalls, At
<1>4. ChannelCalls'
  BY <1>2 DEF Rpc, IInv, ChannelCalls, At
<1>5. OneCreator'
  BY <1>2 DEF IInv, OneCreator
<1>6. QED
  BY <1>2, <1>3, <1>4, <1>5, OnlyCallsMove DEF Rpc

\* The request of an operation is sent, or thrown back by a closed channel.
LEMMA SendRpcPreserves ==
    ASSUME IInv, NEW c \in Callers, SendRpc(c)
    PROVE  IInv'
<1>1. CASE Settle(c)
  BY <1>1, SettlePreserves DEF SendRpc
<1>2. CASE GoTo(c, "replying")
  <2>1. /\ call' \in [Callers -> Frame]
        /\ call'[c].at = "replying" /\ call'[c].chan = call[c].chan
        /\ \A d \in Callers \ {c} : call'[d] = call[d]
    BY <1>2, GoToEffect DEF IInv, TypeOK, Points
  <2>2. ConnectionCalls'
    BY <2>1 DEF SendRpc, IInv, ConnectionCalls, At
  <2>3. ChannelCalls'
    BY <2>1 DEF SendRpc, IInv, ChannelCalls, At
  <2>4. OneCreator'
    BY <2>1 DEF IInv, OneCreator
  <2>5. QED
    BY <2>1, <2>2, <2>3, <2>4, OnlyCallsMove DEF SendRpc
<1>3. QED
  BY <1>1, <1>2 DEF SendRpc

\* close(): the cached channels, and the cached connection if it is open,
\* start to close.
LEMMA ClosePreserves ==
    ASSUME IInv, NEW c \in Callers, Close(c)
    PROVE  IInv'
<1>1. connection \in Conns
  BY DEF Close, IInv, TypeOK
<1>2. /\ chan' \in [Chans -> [status : Status, conn : Conns \cup {None}, kind : Kinds]]
      /\ \A y \in Chans : /\ chan'[y].conn = chan[y].conn
                          /\ \/ chan'[y].status = chan[y].status
                             \/ chan[y].status = "open" /\ chan'[y].status = "closing"
  BY DEF Close, ToClose, IInv, TypeOK, Status
<1>3. /\ cn' \in [Conns -> Status]
      /\ \A x \in Conns : \/ cn'[x] = cn[x]
                          \/ cn[x] = "open" /\ cn'[x] = "closing"
  BY <1>1 DEF Close, IInv, TypeOK, Status
<1>4. /\ call' \in [Callers -> Frame]
      /\ \/ call'[c] = call[c]
         \/ call'[c].at = "closing" /\ call'[c].conn = connection /\ connection \in watched
      /\ \A d \in Callers \ {c} : call'[d] = call[d]
  BY <1>1 DEF Close, IInv, TypeOK, CachedAreWatched, Frame, Points, Ops
<1>5. UNCHANGED <<connection, channels, watched>>
  BY DEF Close
<1>6. TypeOK'
  BY <1>2, <1>3, <1>4, <1>5 DEF IInv, TypeOK
<1>7. CacheIsLive'
  <2>1. connection' \in watched' => cn'[connection'] \in Live
    BY <1>1, <1>3, <1>5 DEF IInv, CacheIsLive, Live
  <2>2. ASSUME NEW k \in Kinds, channels'[k] \in watched'
        PROVE  /\ chan'[channels'[k]].status \in Live
               /\ cn'[chan'[channels'[k]].conn] \in Live
    <3>1. channels[k] \in Chans
      BY <2>2, <1>5, NoneAssumption DEF IInv, TypeOK
    <3>2. /\ chan[channels[k]].status \in Live
          /\ cn[chan[channels[k]].conn] \in Live
      BY <2>2, <1>5 DEF IInv, CacheIsLive
    <3>3. chan[channels[k]].conn \in Conns
      BY <3>1, <3>2 DEF IInv, ChannelsNeedConnections
    <3>4. QED
      BY <3>1, <3>2, <3>3, <1>2, <1>3, <1>5 DEF Live
  <2>3. QED
    BY <2>1, <2>2 DEF CacheIsLive
<1>8. ChannelsNeedConnections'
  BY <1>2, <1>3 DEF IInv, ChannelsNeedConnections, Live
<1>9. WatchedHaveOpened'
  BY <1>2, <1>3, <1>5 DEF IInv, WatchedHaveOpened
<1>10. CachedAreWatched'
  BY <1>1, <1>2, <1>3, <1>5 DEF IInv, TypeOK, CachedAreWatched
<1>11. ConnectionCalls'
  BY <1>1, <1>3, <1>4, <1>5 DEF Close, IInv, ConnectionCalls, At, Live
<1>12. ChannelCalls'
  BY <1>2, <1>4, <1>5 DEF Close, IInv, ChannelCalls, At, Live
<1>13. OneCreator'
  BY <1>4 DEF Close, IInv, OneCreator, At
<1>14. QED
  BY <1>6, <1>7, <1>8, <1>9, <1>10, <1>11, <1>12, <1>13 DEF IInv

\* amqplib's connect() resolves.
LEMMA ConnectionOpensPreserves ==
    ASSUME IInv, NEW c \in Callers, ConnectionOpens(c)
    PROVE  IInv'
<1> DEFINE x == call[c].conn
<1>1. x \in Conns /\ x \notin watched /\ cn[x] = "opening"
  BY DEF ConnectionOpens, IInv, ConnectionCalls, WatchedHaveOpened
<1>2. /\ cn' \in [Conns -> Status] /\ cn'[x] = "open"
      /\ \A z \in Conns \ {x} : cn'[z] = cn[z]
  BY <1>1 DEF ConnectionOpens, IInv, TypeOK, Status
<1>3. /\ call' \in [Callers -> Frame]
      /\ call'[c].at = "connected" /\ call'[c].conn = x
      /\ \A d \in Callers \ {c} : call'[d] = call[d]
  BY GoToEffect DEF ConnectionOpens, IInv, TypeOK, Points
<1>4. UNCHANGED <<connection, channels, watched, chan>>
  BY DEF ConnectionOpens
<1>5. TypeOK'
  BY <1>2, <1>3, <1>4 DEF IInv, TypeOK
<1>6. CacheIsLive'
  BY <1>1, <1>2, <1>4, NoneAssumption DEF IInv, TypeOK, CacheIsLive, ChannelsNeedConnections, Live
<1>7. ChannelsNeedConnections'
  BY <1>1, <1>2, <1>4 DEF IInv, ChannelsNeedConnections, Live
<1>8. WatchedHaveOpened'
  BY <1>1, <1>2, <1>4 DEF IInv, WatchedHaveOpened
<1>9. CachedAreWatched'
  BY <1>1, <1>2, <1>4 DEF IInv, TypeOK, CachedAreWatched
<1>10. ConnectionCalls'
  BY <1>1, <1>2, <1>3, <1>4 DEF ConnectionOpens, IInv, ConnectionCalls, OneCreator, At, Live
<1>11. ChannelCalls'
  BY <1>3, <1>4 DEF IInv, ChannelCalls, At
<1>12. OneCreator'
  BY <1>3 DEF ConnectionOpens, IInv, OneCreator, At
<1>13. QED
  BY <1>5, <1>6, <1>7, <1>8, <1>9, <1>10, <1>11, <1>12 DEF IInv

\* amqplib's connect() rejects.
LEMMA ConnectionRefusedPreserves ==
    ASSUME IInv, NEW c \in Callers, ConnectionRefused(c)
    PROVE  IInv'
<1> DEFINE x == call[c].conn
<1>1. x \in Conns /\ x \notin watched /\ cn[x] = "opening"
  BY DEF ConnectionRefused, IInv, ConnectionCalls, WatchedHaveOpened
<1>2. /\ cn' \in [Conns -> Status] /\ cn'[x] = "closed"
      /\ \A z \in Conns \ {x} : cn'[z] = cn[z]
  BY <1>1 DEF ConnectionRefused, IInv, TypeOK, Status
<1>3. /\ call' \in [Callers -> Frame]
      /\ call'[c].at = "idle"
      /\ \A d \in Callers \ {c} : call'[d] = call[d]
  BY SettleEffect DEF ConnectionRefused, IInv, TypeOK
<1>4. UNCHANGED <<connection, channels, watched, chan>>
  BY DEF ConnectionRefused
<1>5. TypeOK'
  BY <1>2, <1>3, <1>4 DEF IInv, TypeOK
<1>6. CacheIsLive'
  BY <1>1, <1>2, <1>4, NoneAssumption DEF IInv, TypeOK, CacheIsLive, ChannelsNeedConnections, Live
<1>7. ChannelsNeedConnections'
  BY <1>1, <1>2, <1>4 DEF IInv, ChannelsNeedConnections, Live
<1>8. WatchedHaveOpened'
  BY <1>1, <1>2, <1>4 DEF IInv, WatchedHaveOpened
<1>9. CachedAreWatched'
  BY <1>1, <1>2, <1>4 DEF IInv, TypeOK, CachedAreWatched
<1>10. ConnectionCalls'
  BY <1>1, <1>2, <1>3, <1>4 DEF ConnectionRefused, IInv, ConnectionCalls, OneCreator, At, Live
<1>11. ChannelCalls'
  BY <1>3, <1>4 DEF IInv, ChannelCalls, At
<1>12. OneCreator'
  BY <1>3 DEF IInv, OneCreator
<1>13. QED
  BY <1>5, <1>6, <1>7, <1>8, <1>9, <1>10, <1>11, <1>12 DEF IInv

\* createChannel() resolves.
LEMMA ChannelOpensPreserves ==
    ASSUME IInv, NEW c \in Callers, ChannelOpens(c)
    PROVE  IInv'
<1> DEFINE y == call[c].chan
<1>1. y \in Chans /\ y \notin watched /\ chan[y].status = "opening"
  BY DEF ChannelOpens, IInv, ChannelCalls, WatchedHaveOpened
<1>2. /\ chan' \in [Chans -> [status : Status, conn : Conns \cup {None}, kind : Kinds]]
      /\ chan'[y].status = "open" /\ chan'[y].conn = chan[y].conn
      /\ \A z \in Chans \ {y} : chan'[z] = chan[z]
  BY <1>1 DEF ChannelOpens, IInv, TypeOK, Status
<1>3. /\ call' \in [Callers -> Frame]
      /\ call'[c].at = "opened" /\ call'[c].chan = y
      /\ \A d \in Callers \ {c} : call'[d] = call[d]
  BY GoToEffect DEF ChannelOpens, IInv, TypeOK, Points
<1>4. UNCHANGED <<connection, channels, watched, cn>>
  BY DEF ChannelOpens
<1>5. TypeOK'
  BY <1>2, <1>3, <1>4 DEF IInv, TypeOK
<1>6. CacheIsLive'
  BY <1>1, <1>2, <1>4, NoneAssumption DEF IInv, TypeOK, CacheIsLive
<1>7. ChannelsNeedConnections'
  BY <1>1, <1>2, <1>4 DEF IInv, ChannelsNeedConnections, Live
<1>8. WatchedHaveOpened'
  BY <1>1, <1>2, <1>4 DEF IInv, WatchedHaveOpened
<1>9. CachedAreWatched'
  BY <1>1, <1>2, <1>4 DEF IInv, TypeOK, CachedAreWatched
<1>10. ConnectionCalls'
  BY <1>3, <1>4 DEF IInv, ConnectionCalls, At
<1>11. ChannelCalls'
  BY <1>1, <1>2, <1>3, <1>4 DEF ChannelOpens, IInv, ChannelCalls, OneCreator, At, Live
<1>12. OneCreator'
  BY <1>3 DEF ChannelOpens, IInv, OneCreator, At
<1>13. QED
  BY <1>5, <1>6, <1>7, <1>8, <1>9, <1>10, <1>11, <1>12 DEF IInv

\* A channel closes alone.
LEMMA ChannelClosesPreserves ==
    ASSUME IInv, NEW y \in Chans, ChannelCloses(y)
    PROVE  IInv'
<1>1. /\ chan' \in [Chans -> [status : Status, conn : Conns \cup {None}, kind : Kinds]]
      /\ chan[y].status # "unused" /\ chan'[y].status = "closed"
      /\ \A z \in Chans \ {y} : chan'[z] = chan[z]
  BY DEF ChannelCloses, Closed, IInv, TypeOK, Status
<1>2. /\ channels' \in [Kinds -> Chans \cup {None}]
      /\ \A k \in Kinds : channels'[k] = IF channels[k] = y /\ y \in watched THEN None ELSE channels[k]
  BY DEF ChannelCloses, EvictChannels, IInv, TypeOK
<1>3. /\ call' \in [Callers -> Frame]
      /\ \A d \in Callers : call'[d] = IF d \in Rejected({y}) THEN Idle ELSE call[d]
  BY DEF ChannelCloses, IInv, TypeOK, Idle, Frame, Ops, ChannelOps, Points
<1>4. UNCHANGED <<connection, watched, cn>>
  BY DEF ChannelCloses
<1>5. TypeOK'
  BY <1>1, <1>2, <1>3, <1>4 DEF IInv, TypeOK
<1>6. CacheIsLive'
  BY <1>1, <1>2, <1>4, NoneAssumption DEF IInv, TypeOK, CacheIsLive
<1>7. ChannelsNeedConnections'
  BY <1>1, <1>4 DEF IInv, ChannelsNeedConnections, Live
<1>8. WatchedHaveOpened'
  BY <1>1, <1>4 DEF IInv, WatchedHaveOpened
<1>9. CachedAreWatched'
  BY <1>1, <1>2, <1>4 DEF IInv, TypeOK, CachedAreWatched
<1>10. ConnectionCalls'
  BY <1>3, <1>4 DEF IInv, ConnectionCalls, Idle, At
<1>11. ChannelCalls'
  BY <1>1, <1>3, <1>4 DEF IInv, ChannelCalls, Rejected, Idle, At
<1>12. OneCreator'
  BY <1>3 DEF IInv, OneCreator, Idle
<1>13. QED
  BY <1>5, <1>6, <1>7, <1>8, <1>9, <1>10, <1>11, <1>12 DEF IInv

\* A connection that closes rejects the calls that wait on its channels, and
\* moves on the calls of close() that wait for it.
LEMMA ConnectionClosesCalls ==
    ASSUME call \in [Callers -> Frame],
           NEW x \in Conns, NEW closeOk \in BOOLEAN, ConnectionCloses(x, closeOk)
    PROVE  LET Y == {y \in Chans : chan[y].conn = x /\ chan[y].status \in {"opening", "open", "closing"}} IN
           /\ call' \in [Callers -> Frame]
           /\ \A d \in Callers :
                 \/ call'[d].at = "idle" /\ call[d].at \in {"opening", "replying"}
                 \/ /\ call'[d] = call[d]
                    /\ ~(call[d].at \in {"opening", "replying"} /\ call[d].chan \in Y)
                 \/ /\ call[d].at = "closing" /\ call'[d].at = "closed"
                    /\ call'[d].conn = call[d].conn /\ call[d].conn = x
<1> DEFINE Y == {y \in Chans : chan[y].conn = x /\ chan[y].status \in {"opening", "open", "closing"}}
           Waits(d) == call[d].at \in {"opening", "replying"} /\ call[d].chan \in Y
           Closes(d) == closeOk /\ call[d].at = "closing" /\ call[d].conn = x
<1>1. /\ call' = [d \in Callers |-> call'[d]]
      /\ \A d \in Callers : call'[d] = IF Waits(d) THEN Idle
                                       ELSE IF Closes(d) THEN [call[d] EXCEPT !.at = "closed"]
                                       ELSE call[d]
  BY DEF ConnectionCloses, Rejected, At
<1>2. Idle \in Frame /\ Idle.at = "idle"
  BY DEF Idle, Frame, Ops, ChannelOps, Points
<1>3. ASSUME NEW d \in Callers
      PROVE  /\ call'[d] \in Frame
             /\ \/ call'[d].at = "idle" /\ call[d].at \in {"opening", "replying"}
                \/ call'[d] = call[d] /\ ~Waits(d)
                \/ /\ call[d].at = "closing" /\ call'[d].at = "closed"
                   /\ call'[d].conn = call[d].conn /\ call[d].conn = x
  <2>1. CASE Waits(d)
    BY <1>1, <1>2, <2>1
  <2>2. CASE ~Waits(d) /\ Closes(d)
    <3>1. call'[d] = [call[d] EXCEPT !.at = "closed"]
      BY <1>1, <2>2
    <3>2. QED
      BY <2>2, <3>1 DEF Frame, Points
  <2>3. CASE ~Waits(d) /\ ~Closes(d)
    BY <1>1, <2>3
  <2>4. QED
    BY <2>1, <2>2, <2>3
<1>4. call' \in [Callers -> Frame]
  BY <1>1, <1>3
<1>5. QED
  BY <1>3, <1>4

\* A connection closes, and its channels with it.
LEMMA ConnectionClosesPreserves ==
    ASSUME IInv, NEW x \in Conns, NEW closeOk \in BOOLEAN, ConnectionCloses(x, closeOk)
    PROVE  IInv'
<1> DEFINE Y == {y \in Chans : chan[y].conn = x /\ chan[y].status \in {"opening", "open", "closing"}}
<1>1. /\ cn[x] \in Live /\ cn' \in [Conns -> Status] /\ cn'[x] = "closed"
      /\ \A z \in Conns \ {x} : cn'[z] = cn[z]
  BY DEF ConnectionCloses, Live, IInv, TypeOK, Status
<1>2. /\ chan' \in [Chans -> [status : Status, conn : Conns \cup {None}, kind : Kinds]]
      /\ \A y \in Y : chan'[y].status = "closed" /\ chan'[y].conn = chan[y].conn
      /\ \A y \in Chans \ Y : chan'[y] = chan[y]
  BY DEF ConnectionCloses, Closed, IInv, TypeOK, Status
<1>3. /\ channels' \in [Kinds -> Chans \cup {None}]
      /\ \A k \in Kinds : channels'[k] = IF channels[k] \in Y \cap watched THEN None ELSE channels[k]
  BY DEF ConnectionCloses, EvictChannels, IInv, TypeOK
<1>4. connection' = IF connection = x /\ x \in watched THEN None ELSE connection
  BY DEF ConnectionCloses, EvictConnection
<1>5. /\ call' \in [Callers -> Frame]
      /\ \A d \in Callers :
            \/ call'[d].at = "idle"
            \/ /\ call'[d] = call[d]
               /\ ~(call[d].at \in {"opening", "replying"} /\ call[d].chan \in Y)
            \/ /\ call[d].at = "closing" /\ call'[d].at = "closed"
               /\ call'[d].conn = call[d].conn /\ call[d].conn = x
  BY ConnectionClosesCalls DEF IInv, TypeOK
<1>6. watched' = watched
  BY DEF ConnectionCloses
<1>7. TypeOK'
  BY <1>1, <1>2, <1>3, <1>4, <1>5, <1>6 DEF IInv, TypeOK
<1>8. CacheIsLive'
  <2>1. connection' \in watched' => cn'[connection'] \in Live
    BY <1>1, <1>4, <1>6, NoneAssumption DEF IInv, TypeOK, CacheIsLive
  <2>2. ASSUME NEW k \in Kinds, channels'[k] \in watched'
        PROVE  /\ chan'[channels'[k]].status \in Live
               /\ cn'[chan'[channels'[k]].conn] \in Live
    <3>1. channels'[k] = channels[k] /\ channels[k] \in Chans \ Y
      BY <2>2, <1>3, <1>6, NoneAssumption DEF IInv, TypeOK
    <3>2. /\ chan[channels[k]].status \in Live
          /\ cn[chan[channels[k]].conn] \in Live
      BY <2>2, <3>1, <1>6 DEF IInv, CacheIsLive
    <3>3. chan[channels[k]].conn \in Conns \ {x}
      BY <3>1, <3>2 DEF IInv, ChannelsNeedConnections, Live
    <3>4. QED
      BY <3>1, <3>2, <3>3, <1>1, <1>2
  <2>3. QED
    BY <2>1, <2>2 DEF CacheIsLive
<1>9. ChannelsNeedConnections'
  BY <1>1, <1>2 DEF IInv, ChannelsNeedConnections, Live
<1>10. WatchedHaveOpened'
  BY <1>1, <1>2, <1>6 DEF IInv, WatchedHaveOpened, Live
<1>11. CachedAreWatched'
  BY <1>1, <1>2, <1>3, <1>4, <1>6 DEF IInv, TypeOK, CachedAreWatched
<1>12. ConnectionCalls'
  BY <1>1, <1>5, <1>6 DEF IInv, ConnectionCalls, At, Live
<1>13. ChannelCalls'
  BY <1>2, <1>5, <1>6 DEF IInv, ChannelCalls, At
<1>14. OneCreator'
  BY <1>5 DEF IInv, OneCreator
<1>15. QED
  BY <1>7, <1>8, <1>9, <1>10, <1>11, <1>12, <1>13, <1>14 DEF IInv

-----------------------------------------------------------------------------
(***************************************************************************)
(* The theorems.                                                           *)
(***************************************************************************)

\* The initial state satisfies the invariant and every step keeps it.
LEMMA InitEstablishes == Init => IInv
BY NoneAssumption DEF Init, IInv, TypeOK, CacheIsLive, ChannelsNeedConnections,
    WatchedHaveOpened, CachedAreWatched, ConnectionCalls, ChannelCalls, OneCreator,
    Idle, Frame, Points, Ops, ChannelOps, Kinds, Status, Live, At

LEMMA NextPreserves == IInv /\ [Next]_vars => IInv'
<1> SUFFICES ASSUME IInv, [Next]_vars
             PROVE  IInv'
  OBVIOUS
<1>1. ASSUME NEW c \in Callers, Request(c)
      PROVE  IInv'
  BY <1>1, ConnectPreserves, ChannelPreserves, RpcPreserves, ClosePreserves DEF Request
<1>2. ASSUME NEW c \in Callers, Resume(c)
      PROVE  IInv'
  <2>1. CASE CloseResumes(c)
    BY <2>1, SettlePreserves DEF CloseResumes
  <2>2. QED
    BY <1>2, <2>1, ConnectResumesPreserves, CreateChannelPreserves, ChannelResumesPreserves,
       SendRpcPreserves DEF Resume
<1>3. ASSUME NEW c \in Callers, Answer(c)
      PROVE  IInv'
  <2>1. CASE RpcReply(c)
    BY <2>1, SettlePreserves DEF RpcReply
  <2>2. QED
    BY <1>3, <2>1, ConnectionOpensPreserves, ConnectionRefusedPreserves, ChannelOpensPreserves
       DEF Answer
<1>4. ASSUME NEW x \in Conns, ConnectionEnds(x)
      PROVE  IInv'
  BY <1>4, ConnectionClosesPreserves DEF ConnectionEnds
<1>5. CASE UNCHANGED vars
  BY <1>5 DEF vars, IInv, TypeOK, CacheIsLive, ChannelsNeedConnections, WatchedHaveOpened,
     CachedAreWatched, ConnectionCalls, ChannelCalls, OneCreator, At
<1>6. QED
  BY <1>1, <1>2, <1>3, <1>4, <1>5, ChannelClosesPreserves DEF Next

\* The invariant holds in every reachable state.
THEOREM Invariance == Spec => []IInv
BY InitEstablishes, NextPreserves, PTL DEF Spec

\* The variables of the broker, of its calls and of amqplib have their types.
THEOREM TypeCorrect == Spec => []TypeOK
<1>1. IInv => TypeOK
  BY DEF IInv
<1>2. QED
  BY <1>1, Invariance, PTL

\* The caches of connect(), channel() and confirmChannel() hold nothing dead
\* that the broker could have heard die.
THEOREM CacheLiveness == Spec => []CacheIsLive
<1>1. IInv => CacheIsLive
  BY DEF IInv
<1>2. QED
  BY <1>1, Invariance, PTL

\* When close() returns the broker has let go of the connection it closed, and
\* of every channel on it that it listens to.
THEOREM CloseReleasesItsConnection == Spec => []CloseReleases
<1>1. IInv => CloseReleases
  BY DEF IInv, CloseReleases, CacheIsLive, ConnectionCalls, Live
<1>2. QED
  BY <1>1, Invariance, PTL

\* Only the death of the cached emitter itself empties the cache: the cleanup
\* of one that has been replaced leaves its replacement alone.
THEOREM EvictionIsExact == Spec => EvictsOnlyTheDead
<1>1. ASSUME IInv, [Next]_vars
      PROVE  [EvictionStep]_vars
  <2>1. ASSUME NEW c \in Callers, Request(c) \/ Answer(c)
        PROVE  EvictionStep
    BY <2>1 DEF Request, Answer, Connect, Channel, Rpc, Close, ConnectionOpens,
       ConnectionRefused, ChannelOpens, RpcReply, EvictionStep
  <2>2. ASSUME NEW c \in Callers, Resume(c)
        PROVE  EvictionStep
    <3>1. CASE ConnectResumes(c)
      <4>1. connection' \in Conns /\ channels' = channels
        BY <1>1, <3>1 DEF ConnectResumes, IInv, ConnectionCalls
      <4>2. QED
        BY <4>1, NoneAssumption DEF EvictionStep
    <3>2. CASE ChannelResumes(c)
      <4>1. /\ call[c].chan \in Chans /\ connection' = connection
            /\ channels' = [channels EXCEPT ![KindOf(call[c].op)] = call[c].chan]
        BY <1>1, <3>2 DEF ChannelResumes, IInv, ChannelCalls
      <4>2. \A k \in Kinds : channels'[k] \in {channels[k], call[c].chan}
        BY <1>1, <4>1 DEF IInv, TypeOK
      <4>3. QED
        BY <4>1, <4>2, NoneAssumption DEF EvictionStep
    <3>3. QED
      BY <2>2, <3>1, <3>2 DEF Resume, CreateChannel, CreateChannelWaits, SendRpc,
         CloseResumes, EvictionStep
  <2>3. ASSUME NEW y \in Chans, ChannelCloses(y)
        PROVE  EvictionStep
    BY <1>1, <2>3 DEF ChannelCloses, EvictChannels, Closed, IInv, TypeOK, EvictionStep
  <2>4. ASSUME NEW x \in Conns, ConnectionEnds(x)
        PROVE  EvictionStep
    <3> DEFINE Y == {y \in Chans : /\ chan[y].conn = x
                                   /\ chan[y].status \in {"opening", "open", "closing"}}
    <3>1. /\ cn' = [cn EXCEPT ![x] = "closed"]
          /\ connection' = EvictConnection(x)
          /\ chan' = Closed(Y)
          /\ channels' = EvictChannels(Y)
      BY <2>4 DEF ConnectionEnds, ConnectionCloses
    <3>2. connection # None /\ connection' = None => cn'[connection] = "closed"
      BY <1>1, <3>1 DEF EvictConnection, IInv, TypeOK
    <3>3. ASSUME NEW k \in Kinds, channels[k] # None, channels'[k] = None
          PROVE  chan'[channels[k]].status = "closed"
      <4>1. channels[k] \in Y
        BY <3>1, <3>3 DEF EvictChannels
      <4>2. QED
        BY <1>1, <3>1, <4>1 DEF Closed, IInv, TypeOK
    <3>4. QED
      BY <3>2, <3>3 DEF EvictionStep
  <2>5. QED
    BY <1>1, <2>1, <2>2, <2>3, <2>4 DEF Next
<1>2. QED
  BY <1>1, Invariance, PTL DEF Spec, EvictsOnlyTheDead

\* A step makes no orphan if the cached connection stays, none opens, and the
\* calls that have one in their hands keep it.
LEMMA NoNewOrphans ==
    ASSUME connection' = connection,
           \A x \in Conns : cn'[x] = "open" => cn[x] = "open",
           \A c \in Callers : At(c, "connected") => call'[c] = call[c]
    PROVE  Orphans' \subseteq Orphans
<1> SUFFICES ASSUME NEW x \in Conns, x \in Orphans'
             PROVE  x \in Orphans
  BY DEF Orphans
<1>1. cn[x] = "open" /\ connection # x
  BY DEF Orphans
<1>2. ASSUME NEW c \in Callers, At(c, "connected"), call[c].conn = x
      PROVE  FALSE
  BY <1>2 DEF Orphans, At
<1>3. QED
  BY <1>1, <1>2 DEF Orphans

\* An open connection gets out of reach only when connect() finishes while the
\* broker has a connection, and takes its place in the cache.
THEOREM OrphansAreOverwritten == Spec => OrphanedOnlyByOverwrite
<1> DEFINE Overwritten(x) ==
        connection = x /\ \E c \in Callers : At(c, "connected") /\ connection' = call[c].conn
<1>1. ASSUME IInv, [Next]_vars
      PROVE  [\A x \in Orphans' \ Orphans : Overwritten(x)]_vars
  <2>1. ASSUME NEW c \in Callers, Request(c)
        PROVE  Orphans' \subseteq Orphans
    <3>1. connection' = connection /\ At(c, "idle")
      BY <2>1 DEF Request, Connect, Rpc, Close, Channel
    <3>2. \A x \in Conns : cn'[x] = "open" => cn[x] = "open"
      BY <1>1, <2>1 DEF Request, Connect, Rpc, Close, Channel, ReuseConnection, OpenConnection, IInv, TypeOK
    <3>3. \A d \in Callers : d # c => call'[d] = call[d]
      BY <1>1, <2>1 DEF Request, Connect, Rpc, Close, Channel, ReuseConnection, OpenConnection, IInv, TypeOK
    <3>4. QED
      BY <3>1, <3>2, <3>3, NoNewOrphans DEF At
  <2>2. ASSUME NEW c \in Callers, ConnectResumes(c)
        PROVE  \A x \in Orphans' \ Orphans : Overwritten(x)
    <3>1. /\ At(c, "connected") /\ connection' = call[c].conn /\ cn' = cn
          /\ \A d \in Callers : d # c => call'[d] = call[d]
      BY <1>1, <2>2 DEF ConnectResumes, Settle, GoTo, IInv, TypeOK
    <3>2. ASSUME NEW x \in Orphans' \ Orphans, connection # x
          PROVE  FALSE
      <4>1. x \in Conns /\ cn[x] = "open" /\ call[c].conn # x
        BY <3>1, <3>2 DEF Orphans
      <4>2. PICK d \in Callers : At(d, "connected") /\ call[d].conn = x
        BY <3>2, <4>1 DEF Orphans
      <4>3. d # c /\ call'[d] = call[d]
        BY <3>1, <4>1, <4>2
      <4>4. QED
        BY <3>2, <4>2, <4>3 DEF Orphans, At
    <3>3. QED
      BY <3>1, <3>2
  <2>3. ASSUME NEW c \in Callers, CreateChannel(c) \/ ChannelResumes(c) \/ SendRpc(c) \/ CloseResumes(c)
        PROVE  Orphans' \subseteq Orphans
    <3>1. connection' = connection /\ cn' = cn /\ ~At(c, "connected")
      BY <2>3 DEF CreateChannel, CreateChannelWaits, ChannelResumes, SendRpc, CloseResumes, At
    <3>2. \A d \in Callers : d # c => call'[d] = call[d]
      BY <1>1, <2>3 DEF CreateChannel, CreateChannelWaits, ChannelResumes, SendRpc, CloseResumes,
         Settle, GoTo, IInv, TypeOK
    <3>3. QED
      BY <3>1, <3>2, NoNewOrphans
  <2>4. ASSUME NEW c \in Callers, ConnectionOpens(c)
        PROVE  Orphans' \subseteq Orphans
    <3>1. /\ At(c, "connecting") /\ connection' = connection
          /\ cn' = [cn EXCEPT ![call[c].conn] = "open"]
          /\ call' = [call EXCEPT ![c].at = "connected"]
      BY <2>4 DEF ConnectionOpens, GoTo
    <3>2. /\ call'[c].at = "connected" /\ call'[c].conn = call[c].conn
          /\ \A d \in Callers : d # c => call'[d] = call[d]
      BY <1>1, <3>1 DEF IInv, TypeOK, Frame
    <3>3. ASSUME NEW x \in Orphans'
          PROVE  x \in Orphans
      <4>1. x \in Conns /\ x # call[c].conn /\ connection # x
        BY <3>1, <3>2, <3>3 DEF Orphans, At
      <4>2. cn[x] = "open"
        BY <1>1, <3>1, <3>3, <4>1 DEF Orphans, IInv, TypeOK
      <4>3. ASSUME NEW d \in Callers, At(d, "connected"), call[d].conn = x
            PROVE  FALSE
        <5>1. d # c
          BY <3>1, <4>3 DEF At
        <5>2. QED
          BY <3>2, <3>3, <4>3, <5>1 DEF Orphans, At
      <4>4. QED
        BY <4>1, <4>2, <4>3 DEF Orphans
    <3>4. QED
      BY <3>3
  <2>5. ASSUME NEW c \in Callers, ConnectionRefused(c) \/ ChannelOpens(c) \/ RpcReply(c)
        PROVE  Orphans' \subseteq Orphans
    <3>1. connection' = connection /\ ~At(c, "connected")
      BY <2>5 DEF ConnectionRefused, ChannelOpens, RpcReply, At
    <3>2. \A x \in Conns : cn'[x] = "open" => cn[x] = "open"
      BY <1>1, <2>5 DEF ConnectionRefused, ChannelOpens, RpcReply, IInv, TypeOK
    <3>3. \A d \in Callers : d # c => call'[d] = call[d]
      BY <1>1, <2>5 DEF ConnectionRefused, ChannelOpens, RpcReply, Settle, GoTo, IInv, TypeOK
    <3>4. QED
      BY <3>1, <3>2, <3>3, NoNewOrphans
  <2>6. ASSUME NEW y \in Chans, ChannelCloses(y)
        PROVE  Orphans' \subseteq Orphans
    BY <1>1, <2>6, NoNewOrphans DEF ChannelCloses, Rejected, At
  <2>7. ASSUME NEW y \in Conns, ConnectionEnds(y)
        PROVE  Orphans' \subseteq Orphans
    <3>1. PICK Y \in SUBSET Chans, closeOk \in BOOLEAN :
             /\ cn' = [cn EXCEPT ![y] = "closed"]
             /\ connection' = EvictConnection(y)
             /\ call' = [c \in Callers |->
                           IF c \in Rejected(Y) THEN Idle
                           ELSE IF closeOk /\ At(c, "closing") /\ call[c].conn = y
                                THEN [call[c] EXCEPT !.at = "closed"] ELSE call[c]]
      BY <2>7 DEF ConnectionEnds, ConnectionCloses
    <3>2. \A c \in Callers : At(c, "connected") => call'[c] = call[c]
      BY <3>1 DEF Rejected, At
    <3>3. ASSUME NEW x \in Orphans'
          PROVE  x \in Orphans
      <4>1. x \in Conns /\ x # y /\ cn[x] = "open"
        BY <1>1, <3>1, <3>3 DEF Orphans, IInv, TypeOK
      <4>2. connection # x
        BY <3>1, <3>3, <4>1 DEF Orphans, EvictConnection
      <4>3. ASSUME NEW d \in Callers, At(d, "connected"), call[d].conn = x
            PROVE  FALSE
        BY <3>2, <3>3, <4>3 DEF Orphans, At
      <4>4. QED
        BY <4>1, <4>2, <4>3 DEF Orphans
    <3>4. QED
      BY <3>3
  <2>8. CASE Next
    BY <2>1, <2>2, <2>3, <2>4, <2>5, <2>6, <2>7, <2>8 DEF Next, Resume, Answer
  <2>9. QED
    BY <1>1, <2>8
<1>2. QED
  BY <1>1, Invariance, PTL DEF Spec, OrphanedOnlyByOverwrite

-----------------------------------------------------------------------------
(***************************************************************************)
(* Calls that do not overlap: what a single caller may rely on.            *)
(***************************************************************************)

Serial == \A c, d \in Callers : c = d

\* What a single caller opened is cached or still in its hands, and it opens a
\* connection only with none cached.
SerialInv ==
    /\ \A x \in Conns : cn[x] \in Live \cup {"opening"} =>
          \/ x = connection
          \/ \E c \in Callers : call[c].at \in {"connecting", "connected"} /\ call[c].conn = x
    /\ \A c \in Callers :
          /\ call[c].at \in {"connecting", "connected"} => connection = None
          /\ call[c].at \in {"closing", "closed"} => connection \in {None, call[c].conn}

\* A step that starts no connection and ends none, of a call that is not
\* connecting, keeps SerialInv.
LEMMA SerialStutter ==
    ASSUME SerialInv, NEW c \in Callers, UNCHANGED <<connection, cn>>,
           call[c].at \notin {"connecting", "connected"},
           call'[c].at \notin {"connecting", "connected", "closing", "closed"},
           \A d \in Callers \ {c} : call'[d] = call[d]
    PROVE  SerialInv'
BY DEF SerialInv

LEMMA SerialStep ==
    ASSUME Serial, IInv, SerialInv, [Next]_vars
    PROVE  SerialInv'
<1> USE DEF Serial
<1>1. ASSUME NEW c \in Callers, Request(c)
      PROVE  SerialInv'
  <2>1. ASSUME NEW op \in Ops, OpenConnection(c, op), UNCHANGED connection, At(c, "idle")
        PROVE  SerialInv'
    <3>1. PICK x \in Conns :
            /\ connection = None
            /\ cn[x] = "unused"
            /\ cn' = [cn EXCEPT ![x] = "opening"]
            /\ call' = [call EXCEPT ![c] = [op |-> op, at |-> "connecting", conn |-> x, chan |-> None]]
      BY <2>1 DEF OpenConnection, NoConnection
    <3>2. call'[c].at = "connecting" /\ call'[c].conn = x
      BY <3>1 DEF IInv, TypeOK
    <3>3. \A z \in Conns : cn[z] \notin Live \cup {"opening"}
      BY <2>1, <3>1, NoneAssumption DEF SerialInv, At
    <3>4. \A z \in Conns : cn'[z] \in Live \cup {"opening"} => z = x
      BY <3>1, <3>3 DEF IInv, TypeOK
    <3>5. QED
      BY <2>1, <3>1, <3>2, <3>4 DEF SerialInv
  <2>2. CASE Connect(c)
    BY <2>2, <2>1 DEF Connect, Ops
  <2>3. ASSUME NEW op \in ChannelOps, Channel(c, op)
        PROVE  SerialInv'
    <3>1. CASE OpenConnection(c, op)
      BY <3>1, <2>1, <2>3 DEF Channel, Ops
    <3>2. CASE ReuseConnection(c, op)
      BY <3>2, <2>3, SerialStutter DEF Channel, ReuseConnection, At, IInv, TypeOK
    <3>3. QED
      BY <2>3, <3>1, <3>2 DEF Channel
  <2>4. CASE Rpc(c)
    BY <2>4, SerialStutter DEF Rpc, At, IInv, TypeOK
  <2>5. CASE Close(c)
    <3>1. /\ connection' = connection
          /\ \A x \in Conns : cn'[x] \in Live \cup {"opening"} => cn[x] \in Live \cup {"opening"}
      BY <2>5 DEF Close, IInv, TypeOK, Live
    <3>2. \/ call'[c] = call[c]
          \/ call'[c].at = "closing" /\ call'[c].conn = connection
      BY <2>5 DEF Close, IInv, TypeOK
    <3>3. QED
      BY <2>5, <3>1, <3>2 DEF Close, At, SerialInv
  <2>6. QED
    BY <1>1, <2>2, <2>3, <2>4, <2>5 DEF Request
<1>2. ASSUME NEW c \in Callers, Resume(c)
      PROVE  SerialInv'
  <2>1. CASE ConnectResumes(c)
    <3>1. connection' = call[c].conn /\ cn' = cn
      BY <2>1 DEF ConnectResumes
    <3>2. call'[c].at \in {"idle", "creating"}
      BY <2>1, SettleEffect, GoToEffect DEF ConnectResumes, IInv, TypeOK, Points
    <3>3. connection = None
      BY <2>1 DEF ConnectResumes, At, SerialInv
    <3>4. QED
      BY <3>1, <3>2, <3>3, NoneAssumption DEF SerialInv
  <2>2. CASE CreateChannel(c)
    <3>1. /\ call[c].at = "creating" /\ call'[c].at \in {"idle", "opening"}
          /\ UNCHANGED <<connection, cn>>
          /\ \A d \in Callers \ {c} : call'[d] = call[d]
      <4>1. CASE CreateChannelWaits(c)
        BY <4>1 DEF CreateChannelWaits, At, IInv, TypeOK, Frame
      <4>2. CASE ~CreateChannelWaits(c)
        BY <2>2, <4>2, SettleEffect DEF CreateChannel, At, IInv, TypeOK
      <4>3. QED
        BY <4>1, <4>2
    <3>2. QED
      BY <3>1, SerialStutter
  <2>3. CASE ChannelResumes(c)
    <3>1. /\ call[c].at = "opened" /\ call'[c].at \in {"idle", "using"}
          /\ UNCHANGED <<connection, cn>>
          /\ \A d \in Callers \ {c} : call'[d] = call[d]
      BY <2>3, SettleEffect, GoToEffect DEF ChannelResumes, At, IInv, TypeOK, Points
    <3>2. QED
      BY <3>1, SerialStutter
  <2>4. CASE SendRpc(c)
    <3>1. /\ call[c].at = "using" /\ call'[c].at \in {"idle", "replying"}
          /\ UNCHANGED <<connection, cn>>
          /\ \A d \in Callers \ {c} : call'[d] = call[d]
      BY <2>4, SettleEffect, GoToEffect DEF SendRpc, At, IInv, TypeOK, Points
    <3>2. QED
      BY <3>1, SerialStutter
  <2>5. CASE CloseResumes(c)
    BY <2>5, SettleEffect, SerialStutter DEF CloseResumes, At, IInv, TypeOK
  <2>6. QED
    BY <1>2, <2>1, <2>2, <2>3, <2>4, <2>5 DEF Resume
<1>3. ASSUME NEW c \in Callers, Answer(c)
      PROVE  SerialInv'
  <2>1. CASE ConnectionOpens(c)
    <3>1. /\ call[c].at = "connecting" /\ call[c].conn \in Conns
          /\ cn' = [cn EXCEPT ![call[c].conn] = "open"]
          /\ connection' = connection
      BY <2>1 DEF ConnectionOpens, IInv, ConnectionCalls, At
    <3>2. call'[c].at = "connected" /\ call'[c].conn = call[c].conn
      BY <2>1, GoToEffect DEF ConnectionOpens, IInv, TypeOK, Points
    <3>3. QED
      BY <3>1, <3>2 DEF SerialInv, IInv, TypeOK
  <2>2. CASE ConnectionRefused(c)
    <3>1. /\ call[c].at = "connecting" /\ call[c].conn \in Conns
          /\ cn' = [cn EXCEPT ![call[c].conn] = "closed"]
          /\ connection' = connection
      BY <2>2 DEF ConnectionRefused, IInv, ConnectionCalls, At
    <3>2. call'[c].at = "idle"
      BY <2>2, SettleEffect DEF ConnectionRefused, IInv, TypeOK
    <3>3. QED
      BY <3>1, <3>2 DEF SerialInv, IInv, TypeOK, Live
  <2>3. CASE ChannelOpens(c)
    <3>1. /\ call[c].at = "opening" /\ call'[c].at = "opened"
          /\ UNCHANGED <<connection, cn>>
          /\ \A d \in Callers \ {c} : call'[d] = call[d]
      BY <2>3, GoToEffect DEF ChannelOpens, At, IInv, TypeOK, Points
    <3>2. QED
      BY <3>1, SerialStutter
  <2>4. CASE RpcReply(c)
    BY <2>4, SettleEffect, SerialStutter DEF RpcReply, At, IInv, TypeOK
  <2>5. QED
    BY <1>3, <2>1, <2>2, <2>3, <2>4 DEF Answer
<1>4. ASSUME NEW y \in Chans, ChannelCloses(y)
      PROVE  SerialInv'
  <2>1. /\ UNCHANGED <<connection, cn>>
        /\ \A d \in Callers : call'[d] = call[d] \/ /\ call'[d].at = "idle"
                                                    /\ call[d].at \in {"opening", "replying"}
    BY <1>4 DEF ChannelCloses, Rejected, Idle
  <2>2. QED
    BY <2>1 DEF SerialInv
<1>5. ASSUME NEW x \in Conns, ConnectionEnds(x)
      PROVE  SerialInv'
  <2>1. PICK closeOk \in BOOLEAN : ConnectionCloses(x, closeOk)
    BY <1>5 DEF ConnectionEnds
  <2>2. /\ cn[x] \in Live
        /\ cn' = [cn EXCEPT ![x] = "closed"]
        /\ connection' = EvictConnection(x)
    BY <2>1 DEF ConnectionCloses, Live
  <2>3. \A d \in Callers :
           \/ call'[d] = call[d]
           \/ call'[d].at = "idle" /\ call[d].at \in {"opening", "replying"}
           \/ /\ call[d].at = "closing" /\ call'[d].at = "closed"
              /\ call'[d].conn = call[d].conn
    BY <2>1, ConnectionClosesCalls DEF IInv, TypeOK
  <2>4. \A z \in Conns : cn'[z] \in Live \cup {"opening"} => z # x /\ cn'[z] = cn[z]
    BY <2>2 DEF IInv, TypeOK, Live
  <2>5. QED
    BY <2>2, <2>3, <2>4 DEF EvictConnection, SerialInv
<1>6. CASE UNCHANGED vars
  BY <1>6 DEF vars, SerialInv
<1>7. QED
  BY <1>1, <1>2, <1>3, <1>4, <1>5, <1>6 DEF Next

LEMMA SerialInvariance == Serial => (Spec => []SerialInv)
<1> SUFFICES ASSUME Serial PROVE Spec => []SerialInv
  OBVIOUS
<1>1. Init => SerialInv
  BY DEF Init, SerialInv, Idle, Live
<1>2. IInv /\ SerialInv /\ [Next]_vars => SerialInv'
  BY SerialStep
<1>3. QED
  BY <1>1, <1>2, Invariance, PTL DEF Spec

\* A single caller never has two connections at a time.
THEOREM SerialOneConnection == Serial => (Spec => []OneConnection)
<1> SUFFICES ASSUME Serial PROVE Spec => []OneConnection
  OBVIOUS
<1>1. SerialInv => OneConnection
  BY NoneAssumption DEF Serial, SerialInv, OneConnection
<1>2. QED
  BY <1>1, SerialInvariance, PTL

\* When close() returns to a single caller nothing that it opened is open.
THEOREM SerialClose == Serial => (Spec => []CloseLeavesNothingOpen)
<1> SUFFICES ASSUME Serial PROVE Spec => []CloseLeavesNothingOpen
  OBVIOUS
<1>1. ASSUME IInv, SerialInv, NEW c \in Callers, At(c, "closed")
      PROVE  /\ \A x \in Conns : cn[x] \in {"unused", "closed"}
             /\ \A y \in Chans : chan[y].status \in {"unused", "closed"}
  <2>1. connection \in {None, call[c].conn} /\ cn[call[c].conn] = "closed"
    BY <1>1 DEF SerialInv, IInv, ConnectionCalls, At
  <2>2. \A x \in Conns : cn[x] \notin Live \cup {"opening"}
    BY <1>1, <2>1, NoneAssumption DEF Serial, SerialInv, At, Live
  <2>3. \A y \in Chans : chan[y].status \notin Live \cup {"opening"}
    BY <1>1, <2>2 DEF IInv, ChannelsNeedConnections
  <2>4. QED
    BY <1>1, <2>2, <2>3 DEF IInv, TypeOK, Status, Live
<1>2. IInv /\ SerialInv => CloseLeavesNothingOpen
  BY <1>1 DEF CloseLeavesNothingOpen
<1>3. QED
  BY <1>2, SerialInvariance, Invariance, PTL

-----------------------------------------------------------------------------
(***************************************************************************)
(* Broker implements ChannelProvider: every step of the broker, of amqplib *)
(* or of the server is a step of the provider, or nothing to it.           *)
(***************************************************************************)
\* What a call is for, until it has a channel.
AskingCalls ==
    \A c \in Callers :
        /\ call[c].at \in {"connecting", "connected"} =>
              call[c].op \in ChannelOps \cup {"connect"} /\ call[c].chan = None
        /\ At(c, "creating") => call[c].op \in ChannelOps /\ call[c].chan = None
        /\ call[c].at \in {"opening", "opened"} => call[c].op \in ChannelOps

LEMMA AskingInit == Init => AskingCalls
BY DEF Init, AskingCalls, At, Idle

LEMMA AskingStep == IInv /\ AskingCalls /\ [Next]_vars => AskingCalls'
<1> SUFFICES ASSUME IInv, AskingCalls, [Next]_vars
             PROVE  AskingCalls'
  OBVIOUS
<1> USE DEF AskingCalls, At
<1>0. call \in [Callers -> Frame]
  BY DEF IInv, TypeOK
<1>1. ASSUME NEW c \in Callers, Request(c)
      PROVE  AskingCalls'
  BY <1>0, <1>1 DEF Request, Connect, Rpc, Close, Channel, ReuseConnection, OpenConnection
<1>2. ASSUME NEW c \in Callers, Resume(c)
      PROVE  AskingCalls'
  BY <1>0, <1>2 DEF Resume, ConnectResumes, CreateChannel, CreateChannelWaits, ChannelResumes, SendRpc,
     CloseResumes, Settle, GoTo, Idle, Frame
<1>3. ASSUME NEW c \in Callers, Answer(c)
      PROVE  AskingCalls'
  BY <1>0, <1>3 DEF Answer, ConnectionOpens, ConnectionRefused, ChannelOpens, RpcReply,
     Settle, GoTo, Idle, Frame
<1>4. ASSUME NEW y \in Chans, ChannelCloses(y)
      PROVE  AskingCalls'
  BY <1>0, <1>4 DEF ChannelCloses, Idle
<1>5. ASSUME NEW x \in Conns, ConnectionEnds(x)
      PROVE  AskingCalls'
  BY <1>0, <1>5 DEF ConnectionEnds, ConnectionCloses, Idle, Frame
<1>6. CASE UNCHANGED vars
  BY <1>6 DEF vars
<1>7. QED
  BY <1>1, <1>2, <1>3, <1>4, <1>5, <1>6 DEF Next

-----------------------------------------------------------------------------
(***************************************************************************)
(* What the calls ask for, before and after a step.                        *)
(***************************************************************************)
Nothing == [kind |-> None, chan |-> None]

LEMMA KindsOfOps == \A op \in Ops : KindOf(op) \in Kinds
BY DEF KindOf, Kinds

LEMMA AskingIsSomething ==
    ASSUME NEW c \in Callers, call[c].op \in ChannelOps, call[c].at \in Asking
    PROVE  /\ AskOf(c) = [kind |-> KindOf(call[c].op), chan |-> call[c].chan]
           /\ AskOf(c) # Nothing
<1>1. AskOf(c) = [kind |-> KindOf(call[c].op), chan |-> call[c].chan]
  BY DEF AskOf
<1>2. KindOf(call[c].op) # None
  BY KindsAssumption DEF KindOf, Kinds
<1>3. QED
  BY <1>1, <1>2 DEF Nothing

LEMMA NotAskingIsNothing ==
    ASSUME NEW c \in Callers, call[c].op \notin ChannelOps \/ call[c].at \notin Asking
    PROVE  AskOf(c) = Nothing
BY DEF AskOf, Nothing

\* To the provider a step is nothing that leaves alone what it consists of.
LEMMA Stutters ==
    ASSUME UNCHANGED <<channels, chan>>, (watched \cap Chans)' = watched \cap Chans,
           \A c \in Callers : AskOf(c)' = AskOf(c)
    PROVE  UNCHANGED Provider!vars
BY DEF Provider!vars

-----------------------------------------------------------------------------
(***************************************************************************)
(* Every action of Broker is one of ChannelProvider, or nothing.           *)
(***************************************************************************)
\* A step of one call only: what the others ask for is as it was.
LEMMA OthersAskTheSame ==
    ASSUME NEW c \in Callers, \A d \in Callers \ {c} : call'[d] = call[d]
    PROVE  \A d \in Callers \ {c} : AskOf(d)' = AskOf(d)
BY DEF AskOf

LEMMA ConnectSimulates ==
    ASSUME IInv, NEW c \in Callers, Connect(c)
    PROVE  UNCHANGED Provider!vars
<1>1. call \in [Callers -> Frame]
  BY DEF IInv, TypeOK
<1>2. /\ At(c, "idle") /\ call'[c].op = "connect"
      /\ \A d \in Callers \ {c} : call'[d] = call[d]
  BY <1>1 DEF Connect, OpenConnection
<1>3. AskOf(c)' = AskOf(c)
  BY <1>2 DEF AskOf, At, Asking, ChannelOps
<1>4. UNCHANGED <<channels, watched, chan>>
  BY DEF Connect
<1>5. QED
  BY <1>2, <1>3, <1>4, OthersAskTheSame, Stutters

LEMMA ChannelSimulates ==
    ASSUME IInv, NEW c \in Callers, NEW op \in ChannelOps, Channel(c, op)
    PROVE  Provider!Ask(c, KindOf(op))
<1>1. call \in [Callers -> Frame]
  BY DEF IInv, TypeOK
<1>2. /\ At(c, "idle") /\ channels[KindOf(op)] = None
      /\ call'[c].op = op /\ call'[c].at \in {"creating", "connecting"} /\ call'[c].chan = None
      /\ \A d \in Callers \ {c} : call'[d] = call[d]
  BY <1>1 DEF Channel, ReuseConnection, OpenConnection
<1>3. AskOf(c) = Nothing
  BY <1>2, NotAskingIsNothing DEF At, Asking
<1>4. AskOf(c)' = [kind |-> KindOf(op), chan |-> None]
  BY <1>2 DEF AskOf, Asking
<1>5. UNCHANGED <<channels, watched, chan>>
  BY DEF Channel
<1>6. \A d \in Callers \ {c} : AskOf(d)' = AskOf(d)
  BY <1>2, OthersAskTheSame
<1>7. QED
  BY <1>2, <1>3, <1>4, <1>5, <1>6 DEF Provider!Ask, Provider!NoAsk, Nothing

\* A call that fails before it has a channel, or that was none for a channel.
LEMMA SettleSimulates ==
    ASSUME IInv, AskingCalls, NEW c \in Callers, Settle(c), UNCHANGED <<channels, watched, chan>>,
           call[c].at \notin {"opening", "opened"}
    PROVE  UNCHANGED Provider!vars \/ Provider!Fail(c)
<1>1. call \in [Callers -> Frame]
  BY DEF IInv, TypeOK
<1>2. call'[c].at = "idle" /\ \A d \in Callers \ {c} : call'[d] = call[d]
  BY <1>1, SettleEffect
<1>3. AskOf(c)' = Nothing
  BY <1>2 DEF AskOf, Asking, Nothing
<1>4. \A d \in Callers \ {c} : AskOf(d)' = AskOf(d)
  BY <1>2, OthersAskTheSame
<1>5. CASE call[c].op \in ChannelOps /\ call[c].at \in Asking
  <2>1. AskOf(c) = [kind |-> KindOf(call[c].op), chan |-> call[c].chan] /\ AskOf(c) # Nothing
    BY <1>5, AskingIsSomething
  <2>2. call[c].chan = None
    BY <1>5 DEF AskingCalls, Asking, At
  <2>3. AskOf(c) # Nothing /\ AskOf(c).chan = None
    BY <2>1, <2>2
  <2>4. QED
    BY <1>3, <1>4, <2>3 DEF Provider!Fail, Provider!NoAsk, Nothing
<1>6. CASE ~(call[c].op \in ChannelOps /\ call[c].at \in Asking)
  BY <1>3, <1>4, <1>6, NotAskingIsNothing, Stutters
<1>7. QED
  BY <1>5, <1>6

\* A call that moves on, asking as before or not asking at all.
LEMMA GoToSimulates ==
    ASSUME IInv, NEW c \in Callers, NEW p \in Points, GoTo(c, p), UNCHANGED <<channels, chan>>,
           (watched \cap Chans)' = watched \cap Chans,
           call[c].at \in Asking <=> p \in Asking
    PROVE  UNCHANGED Provider!vars
<1>1. call \in [Callers -> Frame]
  BY DEF IInv, TypeOK
<1>2. /\ call'[c].at = p /\ call'[c].op = call[c].op /\ call'[c].chan = call[c].chan
      /\ \A d \in Callers \ {c} : call'[d] = call[d]
  BY <1>1 DEF GoTo, Frame
<1>3. AskOf(c)' = AskOf(c)
  BY <1>2 DEF AskOf
<1>4. QED
  BY <1>2, <1>3, OthersAskTheSame, Stutters

LEMMA ConnectResumesSimulates ==
    ASSUME IInv, AskingCalls, NEW c \in Callers, ConnectResumes(c)
    PROVE  UNCHANGED Provider!vars
<1>1. /\ At(c, "connected") /\ call[c].conn \in Conns
      /\ watched' = Watch(call[c].conn, cn[call[c].conn]) /\ UNCHANGED <<channels, chan>>
  BY DEF ConnectResumes, IInv, ConnectionCalls
<1>2. (watched \cap Chans)' = watched \cap Chans
  BY <1>1, DistinctAssumption DEF Watch
<1>3. CASE call[c].op = "connect"
  <2>1. call \in [Callers -> Frame] /\ Settle(c)
    BY <1>3 DEF IInv, TypeOK, ConnectResumes
  <2>2. call'[c].at = "idle" /\ \A d \in Callers \ {c} : call'[d] = call[d]
    BY <2>1, SettleEffect
  <2>3. AskOf(c) = Nothing
    BY <1>3, NotAskingIsNothing DEF ChannelOps
  <2>4. AskOf(c)' = Nothing
    BY <2>2 DEF AskOf, Asking, Nothing
  <2>5. QED
    BY <1>1, <1>2, <2>2, <2>3, <2>4, OthersAskTheSame, Stutters
<1>4. CASE call[c].op # "connect"
  <2>1. GoTo(c, "creating") /\ "creating" \in Points /\ (call[c].at \in Asking <=> "creating" \in Asking)
    BY <1>1, <1>4 DEF ConnectResumes, Points, At, Asking
  <2>2. QED
    BY <1>1, <1>2, <2>1, GoToSimulates
<1>5. QED
  BY <1>3, <1>4

LEMMA CreateChannelSimulates ==
    ASSUME IInv, AskingCalls, NEW c \in Callers, CreateChannelWaits(c)
    PROVE  \E h \in Chans : Provider!Begin(c, h)
<1>1. /\ call \in [Callers -> Frame]
      /\ chan \in [Chans -> [status : Status, conn : Conns \cup {None}, kind : Kinds]]
  BY DEF IInv, TypeOK
<1>2. PICK y \in Chans :
         /\ At(c, "creating") /\ chan[y].status = "unused"
         /\ chan' = [chan EXCEPT ![y] = [status |-> "opening", conn |-> call[c].conn,
                                         kind |-> KindOf(call[c].op)]]
         /\ call' = [call EXCEPT ![c].at = "opening", ![c].chan = y]
         /\ UNCHANGED <<channels, watched>>
  BY DEF CreateChannelWaits
<1>3. call[c].op \in ChannelOps /\ call[c].chan = None
  BY <1>2 DEF AskingCalls
<1>4. /\ call'[c].op = call[c].op /\ call'[c].at = "opening" /\ call'[c].chan = y
      /\ \A d \in Callers \ {c} : call'[d] = call[d]
  BY <1>1, <1>2 DEF Frame
<1>5. AskOf(c) = [kind |-> KindOf(call[c].op), chan |-> None] /\ AskOf(c) # Nothing
  BY <1>2, <1>3, AskingIsSomething DEF At, Asking
<1>6. AskOf(c)' = [kind |-> KindOf(call[c].op), chan |-> y]
  BY <1>3, <1>4 DEF AskOf, Asking
<1>7. \A d \in Callers \ {c} : AskOf(d)' = AskOf(d)
  BY <1>4, OthersAskTheSame
<1>8. \A h \in Chans : chan'[h].status = IF h = y THEN "opening" ELSE chan[h].status
  BY <1>1, <1>2
<1>9. AskOf(c) # Nothing /\ AskOf(c).chan = None /\ AskOf(c)' = [AskOf(c) EXCEPT !.chan = y]
  BY <1>5, <1>6
<1>10. Provider!Begin(c, y)
  BY <1>2, <1>7, <1>8, <1>9 DEF Provider!Begin, Provider!NoAsk, Nothing
<1>11. QED
  BY <1>10

LEMMA ChannelOpensSimulates ==
    ASSUME IInv, NEW c \in Callers, ChannelOpens(c)
    PROVE  \E h \in Chans : Provider!Opened(h)
<1>1. /\ call \in [Callers -> Frame]
      /\ chan \in [Chans -> [status : Status, conn : Conns \cup {None}, kind : Kinds]]
  BY DEF IInv, TypeOK
<1>2. PICK y \in Chans :
         /\ y = call[c].chan /\ At(c, "opening") /\ chan[y].status = "opening"
         /\ chan' = [chan EXCEPT ![y].status = "open"]
         /\ GoTo(c, "opened") /\ UNCHANGED <<channels, watched>>
  BY DEF ChannelOpens, IInv, ChannelCalls
<1>3. /\ call'[c].at = "opened" /\ call'[c].op = call[c].op /\ call'[c].chan = call[c].chan
      /\ \A d \in Callers \ {c} : call'[d] = call[d]
  BY <1>1, <1>2 DEF GoTo, Frame
<1>4. AskOf(c)' = AskOf(c)
  BY <1>2, <1>3 DEF AskOf, Asking, At
<1>5. \A d \in Callers : AskOf(d)' = AskOf(d)
  BY <1>3, <1>4, OthersAskTheSame
<1>6. \A h \in Chans : chan'[h].status = IF h = y THEN "open" ELSE chan[h].status
  BY <1>1, <1>2
<1>7. Provider!Opened(y)
  BY <1>2, <1>5, <1>6 DEF Provider!Opened
<1>8. QED
  BY <1>7

LEMMA ChannelResumesSimulates ==
    ASSUME IInv, AskingCalls, NEW c \in Callers, ChannelResumes(c)
    PROVE  Provider!Hand(c)
<1>1. call \in [Callers -> Frame] /\ channels \in [Kinds -> Chans \cup {None}]
  BY DEF IInv, TypeOK
<1>2. PICK y \in Chans :
         /\ y = call[c].chan /\ At(c, "opened") /\ chan[y].status # "opening"
         /\ watched' = Watch(y, chan[y].status)
         /\ channels' = [channels EXCEPT ![KindOf(call[c].op)] = y]
         /\ UNCHANGED chan
  BY DEF ChannelResumes, IInv, ChannelCalls, Live
<1>3. call[c].op \in ChannelOps
  BY <1>2 DEF AskingCalls, At
<1>4. call'[c].at \in {"using", "idle"} /\ \A d \in Callers \ {c} : call'[d] = call[d]
  BY <1>1, SettleEffect, GoToEffect DEF ChannelResumes, Points
<1>5. AskOf(c) = [kind |-> KindOf(call[c].op), chan |-> y]
  BY <1>2, <1>3, AskingIsSomething DEF At, Asking
<1>6. AskOf(c)' = Nothing
  BY <1>4 DEF AskOf, Asking, Nothing
<1>7. \A d \in Callers \ {c} : AskOf(d)' = AskOf(d)
  BY <1>4, OthersAskTheSame
<1>8. (watched \cap Chans)' = IF chan[y].status \in Live THEN (watched \cap Chans) \cup {y} ELSE watched \cap Chans
  BY <1>2 DEF Watch
<1>9. y # None /\ Provider!Live = Live
  BY <1>2, NoneAssumption DEF Provider!Live, Live
<1>10. AskOf(c).chan = y /\ AskOf(c).kind = KindOf(call[c].op)
  BY <1>5
<1>11. QED
  BY <1>2, <1>6, <1>7, <1>8, <1>9, <1>10 DEF Provider!Hand, Provider!NoAsk, Nothing

LEMMA CloseSimulates ==
    ASSUME IInv, NEW c \in Callers, Close(c), NEW H, H = ToClose
    PROVE  Provider!TellToClose(H)
<1>1. /\ call \in [Callers -> Frame]
      /\ chan \in [Chans -> [status : Status, conn : Conns \cup {None}, kind : Kinds]]
  BY DEF IInv, TypeOK
<1>2. /\ At(c, "idle") /\ UNCHANGED <<channels, watched>>
      /\ call'[c] = call[c] \/ call'[c].op = "close"
      /\ \A d \in Callers \ {c} : call'[d] = call[d]
  BY <1>1 DEF Close
<1>3. AskOf(c)' = AskOf(c)
  BY <1>2 DEF AskOf, ChannelOps, At, Asking
<1>4. \A d \in Callers : AskOf(d)' = AskOf(d)
  BY <1>2, <1>3, OthersAskTheSame
<1>5. \A h \in Chans : chan'[h].status = IF h \in H THEN "closing" ELSE chan[h].status
  BY <1>1 DEF Close
<1>6. \A h \in H : h \in Chans /\ chan[h].status = "open" /\ \E k \in Kinds : channels[k] = h
  BY DEF ToClose
<1>7. QED
  BY <1>2, <1>4, <1>5, <1>6 DEF Provider!TellToClose, Provider!Kinds, Kinds

\* Channels close, alone or with their connection.
LEMMA ClosesSimulate ==
    ASSUME IInv, AskingCalls, NEW Y \in SUBSET Chans,
           \A y \in Y : chan[y].status \in {"opening", "open", "closing"},
           chan' = Closed(Y), channels' = EvictChannels(Y), UNCHANGED watched,
           \A c \in Rejected(Y) : call'[c] = Idle,
           \A c \in Callers \ Rejected(Y) :
               \/ call'[c] = call[c]
               \/ {call[c].at, call'[c].at} \cap Asking = {}
    PROVE  Provider!Close(Y)
<1>1. /\ call \in [Callers -> Frame] /\ channels \in [Kinds -> Chans \cup {None}]
      /\ chan \in [Chans -> [status : Status, conn : Conns \cup {None}, kind : Kinds]]
  BY DEF IInv, TypeOK
<1>2. \A y \in Y : y \in Chans /\ chan[y].status \in Provider!Live \cup {"opening"}
  BY DEF Provider!Live
<1>3. \A h \in Chans : chan'[h].status = IF h \in Y THEN "closed" ELSE chan[h].status
  BY <1>1 DEF Closed
<1>4. channels' = [k \in Provider!Kinds |-> IF channels[k] \in Y \cap (watched \cap Chans) THEN None ELSE channels[k]]
  BY DEF EvictChannels, Provider!Kinds, Kinds
<1>5. ASSUME NEW c \in Callers
      PROVE  AskOf(c)' = IF AskOf(c).chan \in Y /\ chan[AskOf(c).chan].status = "opening"
                         THEN Nothing ELSE AskOf(c)
  <2>1. CASE c \in Rejected(Y)
    <3>1. AskOf(c)' = Nothing
      BY <2>1 DEF AskOf, Idle, Asking, Nothing
    <3>2. CASE At(c, "opening")
      <4>1. call[c].op \in ChannelOps /\ call[c].chan \in Y /\ chan[call[c].chan].status = "opening"
        BY <2>1, <3>2 DEF AskingCalls, Rejected, IInv, ChannelCalls, At
      <4>2. AskOf(c).chan = call[c].chan
        BY <3>2, <4>1, AskingIsSomething DEF At, Asking
      <4>3. QED
        BY <3>1, <4>1, <4>2
    <3>3. CASE ~At(c, "opening")
      <4>1. AskOf(c) = Nothing
        BY <2>1, <3>3, NotAskingIsNothing DEF Rejected, At, Asking
      <4>2. QED
        BY <3>1, <4>1
    <3>4. QED
      BY <3>2, <3>3
  <2>2. CASE c \notin Rejected(Y)
    <3>1. AskOf(c)' = AskOf(c)
      BY <2>2 DEF AskOf
    <3>2. ASSUME AskOf(c).chan \in Y, chan[AskOf(c).chan].status = "opening"
          PROVE  FALSE
      <4>1. AskOf(c).chan # None
        BY <3>2, NoneAssumption
      <4>2. call[c].op \in ChannelOps /\ call[c].at \in Asking /\ AskOf(c).chan = call[c].chan
        BY <4>1 DEF AskOf
      <4>3. call[c].at \in {"opening", "opened"}
        BY <4>1, <4>2 DEF AskingCalls, Asking, At
      <4>4. QED
        BY <2>2, <3>2, <4>2, <4>3 DEF IInv, ChannelCalls, At, Rejected, Live
    <3>3. QED
      BY <3>1, <3>2
  <2>3. QED
    BY <2>1, <2>2
<1>6. QED
  BY <1>2, <1>3, <1>4, <1>5 DEF Provider!Close, Provider!NoAsk, Nothing

-----------------------------------------------------------------------------
(***************************************************************************)
(* The refinement.                                                         *)
(***************************************************************************)
LEMMA InitSimulates == Init => Provider!Init
BY NoneAssumption DEF Init, Provider!Init, Provider!Kinds, Provider!NoAsk, Kinds, AskOf, Idle, Asking

LEMMA NextSimulates == IInv /\ AskingCalls /\ [Next]_vars => [Provider!Next]_Provider!vars
<1> SUFFICES ASSUME IInv, AskingCalls, [Next]_vars
             PROVE  Provider!Next \/ UNCHANGED Provider!vars
  OBVIOUS
<1>1. ASSUME NEW c \in Callers, Request(c)
      PROVE  Provider!Next \/ UNCHANGED Provider!vars
  <2>1. CASE Connect(c)
    BY <2>1, ConnectSimulates
  <2>2. CASE Rpc(c)
    <3>1. AskOf(c) = Nothing
      BY <2>2, NotAskingIsNothing DEF Rpc, At, Asking
    <3>2. AskOf(c)' = Nothing /\ \A d \in Callers \ {c} : call'[d] = call[d]
      BY <2>2 DEF Rpc, AskOf, Asking, Nothing, IInv, TypeOK
    <3>3. QED
      BY <2>2, <3>1, <3>2, OthersAskTheSame, Stutters DEF Rpc
  <2>3. CASE Close(c)
    <3>1. PICK H \in SUBSET Chans : H = ToClose
      BY DEF ToClose
    <3>2. Provider!TellToClose(H)
      BY <2>3, <3>1, CloseSimulates
    <3>3. QED
      BY <3>2 DEF Provider!Next
  <2>4. ASSUME NEW op \in ChannelOps, Channel(c, op)
        PROVE  Provider!Next
    <3>1. Provider!Ask(c, KindOf(op)) /\ KindOf(op) \in Provider!Kinds
      BY <2>4, ChannelSimulates DEF KindOf, Provider!Kinds
    <3>2. QED
      BY <3>1 DEF Provider!Next
  <2>5. QED
    BY <1>1, <2>1, <2>2, <2>3, <2>4 DEF Request
<1>2. ASSUME NEW c \in Callers, Resume(c)
      PROVE  Provider!Next \/ UNCHANGED Provider!vars
  <2>1. CASE ConnectResumes(c)
    BY <2>1, ConnectResumesSimulates
  <2>2. CASE CreateChannelWaits(c)
    BY <2>2, CreateChannelSimulates DEF Provider!Next
  <2>3. CASE Settle(c) /\ UNCHANGED <<channels, watched, chan>> /\ call[c].at \notin {"opening", "opened"}
    BY <2>3, SettleSimulates DEF Provider!Next
  <2>4. CASE ChannelResumes(c)
    BY <2>4, ChannelResumesSimulates DEF Provider!Next
  <2>5. CASE SendRpc(c) /\ GoTo(c, "replying")
    BY <2>5, GoToSimulates DEF SendRpc, Points, Asking, At
  <2>6. QED
    BY <1>2, <2>1, <2>2, <2>3, <2>4, <2>5 DEF Resume, CreateChannel, SendRpc, CloseResumes, At
<1>3. ASSUME NEW c \in Callers, Answer(c)
      PROVE  Provider!Next \/ UNCHANGED Provider!vars
  <2>1. CASE ConnectionOpens(c)
    BY <2>1, GoToSimulates DEF ConnectionOpens, Points, Asking, At
  <2>2. CASE ConnectionRefused(c) \/ RpcReply(c)
    BY <2>2, SettleSimulates DEF ConnectionRefused, RpcReply, At, Provider!Next
  <2>3. CASE ChannelOpens(c)
    BY <2>3, ChannelOpensSimulates DEF Provider!Next
  <2>4. QED
    BY <1>3, <2>1, <2>2, <2>3 DEF Answer
<1>4. ASSUME NEW y \in Chans, ChannelCloses(y)
      PROVE  Provider!Next
  <2>1. /\ {y} \in SUBSET Chans /\ \A z \in {y} : chan[z].status \in {"opening", "open", "closing"}
        /\ chan' = Closed({y}) /\ channels' = EvictChannels({y}) /\ UNCHANGED watched
        /\ \A c \in Rejected({y}) : call'[c] = Idle
        /\ \A c \in Callers \ Rejected({y}) : call'[c] = call[c]
    BY <1>4 DEF ChannelCloses, Rejected
  <2>2. Provider!Close({y})
    BY <2>1, ClosesSimulate
  <2>3. QED
    BY <2>1, <2>2 DEF Provider!Next
<1>5. ASSUME NEW x \in Conns, ConnectionEnds(x)
      PROVE  Provider!Next
  <2>1. PICK Y \in SUBSET Chans, closeOk \in BOOLEAN :
           /\ \A y \in Y : chan[y].status \in {"opening", "open", "closing"}
           /\ chan' = Closed(Y) /\ channels' = EvictChannels(Y) /\ UNCHANGED watched
           /\ call' = [c \in Callers |->
                         IF c \in Rejected(Y) THEN Idle
                         ELSE IF closeOk /\ At(c, "closing") /\ call[c].conn = x
                              THEN [call[c] EXCEPT !.at = "closed"] ELSE call[c]]
    BY <1>5 DEF ConnectionEnds, ConnectionCloses
  <2>2. \A c \in Rejected(Y) : call'[c] = Idle
    BY <2>1 DEF Rejected
  <2>3. ASSUME NEW c \in Callers \ Rejected(Y), call'[c] # call[c]
        PROVE  {call[c].at, call'[c].at} \cap Asking = {}
    <3>1. call[c].at = "closing" /\ call'[c] = [call[c] EXCEPT !.at = "closed"]
      BY <2>1, <2>3 DEF At
    <3>2. call'[c].at = "closed"
      BY <3>1 DEF IInv, TypeOK, Frame
    <3>3. QED
      BY <3>1, <3>2 DEF Asking
  <2>4. Provider!Close(Y)
    BY <2>1, <2>2, <2>3, ClosesSimulate
  <2>5. QED
    BY <2>4 DEF Provider!Next
<1>6. CASE UNCHANGED vars
  BY <1>6, Stutters DEF vars, AskOf
<1>7. QED
  BY <1>1, <1>2, <1>3, <1>4, <1>5, <1>6 DEF Next

\* To publishers and consumers the broker is a channel provider, whatever calls
\* overlap and whichever connections are lost.
THEOREM BrokerIsAProvider == Spec => ImplementsProvider
<1>1. Spec => []AskingCalls
  BY AskingInit, AskingStep, Invariance, PTL DEF Spec
<1>2. QED
  BY <1>1, InitSimulates, NextSimulates, Invariance, PTL DEF Spec, ImplementsProvider, Provider!Spec
=============================================================================
