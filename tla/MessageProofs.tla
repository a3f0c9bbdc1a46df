--------------------------- MODULE MessageProofs ---------------------------
(***************************************************************************)
(* The inductive invariants of Message and the theorems that rest on them, *)
(* for any number of jobs, channels and tags and any prefetch.             *)
(***************************************************************************)
EXTENDS Message, SequenceTheorems, TLAPS

Id(t) == <<channel, t>>                \* the message of tag t of the current channel
Got(t) == channel # 0 /\ Held(Id(t))     \* the application has it

\* A channel that is closed at one end has nothing on its way to that end, and
\* the server waits for nothing on a channel it has closed.
ClosedIsEmpty ==
    /\ client = "closed" => server = "closed" /\ toClient = <<>>
    /\ server = "closed" => toServer = <<>> /\ \A t \in Tags : unacked[t] = None
    /\ client # "closed" => channel # 0

\* Tags and channels not yet used have left no trace.
FutureIsBlank ==
    /\ \A m \in Ids : m[1] > channel \/ (m[1] = channel /\ m[2] >= nextTag) => messages[m] = None
    /\ \A t \in Tags : t >= nextTag => unacked[t] = None
    /\ \A i \in 1..Len(toClient) : toClient[i].tag < nextTag

\* Deliveries arrive in the order of their tags, each for the first time, and
\* the server waits for the job it sent under a tag, or for none.
InOrder ==
    /\ \A i, k \in 1..Len(toClient) : i < k => toClient[i].tag < toClient[k].tag
    /\ \A i \in 1..Len(toClient) :
          /\ unacked[toClient[i].tag] \in {None, toClient[i].job}
          /\ \A t \in Tags : Got(t) => t < toClient[i].tag
    /\ client = "open" =>
          \A t \in Tags : t < nextTag =>
              Got(t) \/ \E i \in 1..Len(toClient) : toClient[i].tag = t

\* A message holds the job that the server has under its tag.
SameJob ==
    \A t \in Tags : Got(t) => unacked[t] \in {None, messages[Id(t)].job}

\* The application has called nothing that returned on a message that needs it.
FirstCall ==
    \A m \in Ids : messages[m] # None /\ NeedsAck(m) => messages[m].told = None

\* What is on its way to the server is what the application said, and it holds
\* every message that a frame can settle.
Backed(f) ==
    /\ Got(f.tag)
    /\ messages[Id(f.tag)].ackState \cap Acknowledged # {}
    /\ messages[Id(f.tag)].told = f.verdict
    /\ \A t \in Tags : t < f.tag /\ unacked[t] # None => Got(t)

FramesAreVerdicts == \A i \in 1..Len(toServer) : Backed(toServer[i])

IInv ==
    /\ TypeOK
    /\ ClosedIsEmpty
    /\ FutureIsBlank
    /\ InOrder
    /\ SameJob
    /\ FirstCall
    /\ FramesAreVerdicts
    /\ VerdictsHonoured

\* The server waits for a job under one tag.
OneTag ==
    /\ \A t \in Tags : unacked[t] # None => job[unacked[t]] = "unacked"
    /\ \A t, u \in Tags : unacked[t] # None /\ unacked[t] = unacked[u] => t = u
    /\ \A j \in Jobs : job[j] = "unacked" => \E t \in Tags : unacked[t] = j

\* When every subscription said what it wants: what the server waits for is
\* sent as such, and is then to be settled or its frame is on its way.
OnItsWay(t) == \E i \in 1..Len(toServer) : toServer[i].tag = t

Answerable ==
    /\ \A i \in 1..Len(toClient) : unacked[toClient[i].tag] # None => ConsumerAck(toClient[i].option)
    /\ client = "open" =>
          \A t \in Tags : Got(t) /\ unacked[t] # None => NeedsAck(Id(t)) \/ OnItsWay(t)

\* Without allUpTo: a message that needs it has its tag, and so has one on its
\* way; a tag is settled once.
OneByOne ==
    /\ \A i \in 1..Len(toServer) : ~toServer[i].verdict.all
    /\ TagsAreKnown
    /\ server = "open" =>
          /\ \A i \in 1..Len(toClient) : ConsumerAck(toClient[i].option) => unacked[toClient[i].tag] # None
          /\ \A t \in Tags : Got(t) /\ NeedsAck(Id(t)) => unacked[t] # None

-----------------------------------------------------------------------------
(***************************************************************************)
(* Sequences, messages and verdicts.                                       *)
(***************************************************************************)

LEMMA TailFacts ==
    ASSUME NEW S, NEW q \in Seq(S), q # <<>>
    PROVE  /\ Len(q) \in Nat /\ 1 \in 1..Len(q)
           /\ Head(q) = q[1] /\ q[1] \in S
           /\ Tail(q) \in Seq(S)
           /\ Len(Tail(q)) = Len(q) - 1
           /\ \A i \in 1..Len(Tail(q)) : i + 1 \in 1..Len(q) /\ Tail(q)[i] = q[i + 1]
OBVIOUS

LEMMA AppendFacts ==
    ASSUME NEW S, NEW q \in Seq(S), NEW e \in S
    PROVE  /\ Append(q, e) \in Seq(S)
           /\ Len(q) \in Nat
           /\ Len(Append(q, e)) = Len(q) + 1
           /\ \A i \in 1..Len(q) : Append(q, e)[i] = q[i]
           /\ Append(q, e)[Len(q) + 1] = e
           /\ \A i \in 1..(Len(q) + 1) : i \in 1..Len(q) \/ i = Len(q) + 1
OBVIOUS

\* The identity of a message of the current channel.
LEMMA IdFacts ==
    ASSUME TypeOK, channel # 0
    PROVE  /\ channel \in 1..MaxChannels
           /\ \A t \in Tags : /\ Id(t) \in Ids
                              /\ Id(t)[1] = channel /\ Id(t)[2] = t
           /\ \A t, u \in Tags : Id(t) = Id(u) => t = u
BY BoundsAssumption DEF TypeOK, Id, Ids

\* A message that the application holds is a Message.
LEMMA HeldFacts ==
    ASSUME TypeOK, NEW m \in Ids, Held(m)
    PROVE  /\ messages[m] \in MessageType
           /\ messages[m].job \in Jobs
           /\ messages[m].ackState \subseteq AckStates
           /\ messages[m].told \in Verdict \cup {None}
BY DEF TypeOK, Held, MessageType

\* What is on its way has the type of frames and deliveries.
LEMMA FrameFacts ==
    ASSUME TypeOK
    PROVE  /\ Len(toServer) \in Nat /\ Len(toClient) \in Nat
           /\ \A i \in 1..Len(toServer) : toServer[i] \in Frame
           /\ \A f \in Frame : f.tag \in Tags /\ f.verdict \in Verdict
           /\ \A i \in 1..Len(toClient) : toClient[i].tag \in Tags /\ toClient[i].job \in Jobs
<1>1. toServer \in Seq(Frame) /\ toClient \in Seq(Delivery)
  BY DEF TypeOK
<1>2. /\ \A i \in 1..Len(toServer) : toServer[i] \in Frame
      /\ \A i \in 1..Len(toClient) : toClient[i] \in Delivery
  BY <1>1
<1>3. QED
  BY <1>1, <1>2 DEF Frame, Delivery

\* The verdicts on jobs stay honoured while no message is lost or changes its
\* job, no verdict is changed, and no job is settled.
LEMMA VerdictsPersist ==
    ASSUME VerdictsHonoured,
           \A m \in Ids : Held(m) =>
              /\ Held(m)'
              /\ messages'[m].job = messages[m].job
              /\ messages[m].ackState \cap Acknowledged # {} /\ messages[m].told # None =>
                    /\ messages'[m].ackState \cap Acknowledged # {}
                    /\ messages'[m].told = messages[m].told,
           \A j \in Jobs : job'[j] \in {"acked", "dropped"} => job'[j] = job[j]
    PROVE  VerdictsHonoured'
<1>1. \A m \in Ids : \A verbs : Held(m) /\ Judged(m, verbs) => Judged(m, verbs)'
  BY DEF Judged
<1>2. QED
  BY <1>1 DEF VerdictsHonoured

\* The same when the messages do not change at all.
LEMMA VerdictsStand ==
    ASSUME VerdictsHonoured, UNCHANGED messages,
           \A j \in Jobs : job'[j] \in {"acked", "dropped"} => job'[j] = job[j]
    PROVE  VerdictsHonoured'
BY VerdictsPersist DEF Held

-----------------------------------------------------------------------------
(***************************************************************************)
(* Every action preserves IInv.                                            *)
(***************************************************************************)

\* The first delivery on its way, and what is left of the others.
LEMMA HeadOfClient ==
    ASSUME IInv, toClient # <<>>
    PROVE  /\ channel # 0 /\ channel \in 1..MaxChannels
           /\ Head(toClient) \in Delivery
           /\ ~Got(Head(toClient).tag)
           /\ Head(toClient).tag < nextTag
           /\ unacked[Head(toClient).tag] \in {None, Head(toClient).job}
           /\ \A t \in Tags : Got(t) => t < Head(toClient).tag
<1>1. 1 \in 1..Len(toClient) /\ Head(toClient) = toClient[1] /\ toClient[1] \in Delivery
  BY TailFacts DEF IInv, TypeOK
<1>2. toClient[1].tag \in Tags /\ toClient[1].tag \in Nat
  BY <1>1, BoundsAssumption DEF Delivery, Tags
<1>3. channel # 0
  BY DEF IInv, ClosedIsEmpty
<1>4. \A t \in Tags : Got(t) => t < toClient[1].tag
  BY <1>1 DEF IInv, InOrder
<1>5. QED
  BY <1>1, <1>2, <1>3, <1>4, IdFacts DEF IInv, InOrder, FutureIsBlank

\* A new channel starts blank.
LEMMA ChannelPreserves ==
    ASSUME IInv, Channel
    PROVE  IInv'
<1>1. /\ channel' = channel + 1 /\ channel \in 0..MaxChannels /\ channel' \in 1..MaxChannels
      /\ client' = "open" /\ server' = "open" /\ nextTag' = 1
      /\ UNCHANGED <<subs, unacked, job, toClient, toServer, messages>>
  BY BoundsAssumption DEF Channel, IInv, TypeOK
<1>2. toClient = <<>> /\ toServer = <<>> /\ \A t \in Tags : unacked[t] = None
  BY DEF Channel, IInv, ClosedIsEmpty
<1>3. \A m \in Ids : m[1] >= channel' => messages[m] = None
  BY <1>1 DEF IInv, FutureIsBlank, Ids
<1>4. \A t \in Tags : ~Got(t)'
  BY <1>1, <1>3 DEF Got, Held, Id, Ids
<1>5. TypeOK'
  BY <1>1, BoundsAssumption DEF IInv, TypeOK
<1>6. ClosedIsEmpty'
  BY <1>1 DEF ClosedIsEmpty
<1>7. FutureIsBlank'
  BY <1>1, <1>2, <1>3 DEF FutureIsBlank, Ids
<1>8. InOrder'
  BY <1>1, <1>2, BoundsAssumption DEF InOrder, Tags
<1>9. SameJob'
  BY <1>4 DEF SameJob
<1>10. FirstCall'
  BY <1>1 DEF IInv, FirstCall, NeedsAck
<1>11. FramesAreVerdicts'
  BY <1>1, <1>2 DEF FramesAreVerdicts
<1>12. VerdictsHonoured'
  BY <1>1, VerdictsStand DEF IInv
<1>13. QED
  BY <1>5, <1>6, <1>7, <1>8, <1>9, <1>10, <1>11, <1>12 DEF IInv

\* The delivery callback makes a Message of the first delivery on its way.
LEMMA ReceivePreserves ==
    ASSUME IInv, Receive
    PROVE  IInv'
<1>0. PICK d \in Delivery : d = Head(toClient)
  BY HeadOfClient DEF Receive
<1> DEFINE n == [job |-> d.job, told |-> None,
                 ackState |-> IF ConsumerAck(d.option) THEN {"Needed"} ELSE {}]
<1>1. /\ toClient # <<>> /\ toClient' = Tail(toClient)
      /\ UNCHANGED <<channel, client, server, subs, nextTag, unacked, job, toServer>>
      /\ client = "open" => messages' = [messages EXCEPT ![Id(d.tag)] = n]
      /\ client # "open" => messages' = messages
  BY <1>0 DEF Receive, Id
<1>2. /\ channel # 0 /\ channel \in 1..MaxChannels
      /\ d.tag \in Tags /\ d.tag \in Nat /\ d.job \in Jobs
      /\ ~Got(d.tag) /\ d.tag < nextTag
      /\ unacked[d.tag] \in {None, d.job}
      /\ \A t \in Tags : Got(t) => t < d.tag
  BY <1>0, <1>1, HeadOfClient, BoundsAssumption DEF Delivery, Tags
<1>3. n \in MessageType /\ n # None
  BY <1>2, NoneAssumption DEF MessageType, AckStates
<1>4. /\ toClient' \in Seq(Delivery) /\ Len(toClient) \in Nat /\ 1 \in 1..Len(toClient)
      /\ d = toClient[1]
      /\ Len(toClient') = Len(toClient) - 1
      /\ \A i \in 1..Len(toClient') : i + 1 \in 1..Len(toClient) /\ toClient'[i] = toClient[i + 1]
  BY <1>0, <1>1, TailFacts DEF IInv, TypeOK
<1>5. messages' \in [Ids -> MessageType \cup {None}]
  BY <1>1, <1>3, IdFacts DEF IInv, TypeOK
<1>6. \A m \in Ids : m # Id(d.tag) => messages'[m] = messages[m]
  BY <1>1 DEF IInv, TypeOK
<1>7. /\ Id(d.tag) \in Ids /\ ~Held(Id(d.tag))
      /\ client = "open" => messages'[Id(d.tag)] = n
  BY <1>1, <1>2, IdFacts DEF IInv, TypeOK, Got
<1>8. \A t \in Tags : Id(t)' = Id(t) /\ Id(t) \in Ids /\ (Id(t) = Id(d.tag) => t = d.tag)
  BY <1>1, <1>2, IdFacts DEF IInv, Id
<1>9. /\ \A t \in Tags : Got(t) => Got(t)' /\ messages'[Id(t)] = messages[Id(t)]
      /\ \A t \in Tags : Got(t)' => Got(t) \/ (t = d.tag /\ client = "open")
      /\ client = "open" => Got(d.tag)'
  BY <1>1, <1>2, <1>3, <1>6, <1>7, <1>8 DEF Got, Held
<1>10. TypeOK'
  BY <1>1, <1>4, <1>5 DEF IInv, TypeOK
<1>11. ClosedIsEmpty'
  BY <1>1 DEF IInv, ClosedIsEmpty
<1>12. FutureIsBlank'
  <2>1. \A m \in Ids : m[1] > channel' \/ (m[1] = channel' /\ m[2] >= nextTag') => messages'[m] = None
    BY <1>1, <1>2, <1>6, <1>8 DEF IInv, TypeOK, FutureIsBlank, Id
  <2>2. \A i \in 1..Len(toClient') : toClient'[i].tag < nextTag'
    BY <1>1, <1>4 DEF IInv, FutureIsBlank
  <2>3. QED
    BY <1>1, <2>1, <2>2 DEF IInv, FutureIsBlank
<1>13. InOrder'
  <2>1. \A i, k \in 1..Len(toClient') : i < k => toClient'[i].tag < toClient'[k].tag
    <3>1. ASSUME NEW i \in 1..Len(toClient'), NEW k \in 1..Len(toClient'), i < k
          PROVE  toClient'[i].tag < toClient'[k].tag
      <4>1. /\ i + 1 \in 1..Len(toClient) /\ k + 1 \in 1..Len(toClient) /\ i + 1 < k + 1
            /\ toClient'[i] = toClient[i + 1] /\ toClient'[k] = toClient[k + 1]
        BY <1>4, <3>1
      <4>2. toClient[i + 1].tag < toClient[k + 1].tag
        BY <4>1 DEF IInv, InOrder
      <4>3. QED
        BY <4>1, <4>2
    <3>2. QED
      BY <3>1
  <2>2. \A i \in 1..Len(toClient') : unacked'[toClient'[i].tag] \in {None, toClient'[i].job}
    BY <1>1, <1>4 DEF IInv, InOrder
  <2>3. \A i \in 1..Len(toClient') : d.tag < toClient'[i].tag
    BY <1>4 DEF IInv, InOrder
  <2>4. \A i \in 1..Len(toClient'), t \in Tags : Got(t)' => t < toClient'[i].tag
    BY <1>4, <1>9, <2>3 DEF IInv, InOrder
  <2>5. ASSUME client' = "open", NEW t \in Tags, t < nextTag'
        PROVE  Got(t)' \/ \E i \in 1..Len(toClient') : toClient'[i].tag = t
    <3>1. CASE Got(t)
      BY <3>1, <1>9
    <3>2. CASE t = d.tag
      BY <3>2, <2>5, <1>1, <1>9
    <3>3. CASE ~Got(t) /\ t # d.tag
      <4>1. PICK i \in 1..Len(toClient) : toClient[i].tag = t
        BY <3>3, <2>5, <1>1 DEF IInv, InOrder
      <4>2. i # 1
        BY <4>1, <3>3, <1>4
      <4>3. i - 1 \in 1..Len(toClient') /\ toClient'[i - 1] = toClient[(i - 1) + 1]
        BY <4>2, <1>4
      <4>4. QED
        BY <4>1, <4>3
    <3>4. QED
      BY <3>1, <3>2, <3>3
  <2>6. QED
    BY <2>1, <2>2, <2>4, <2>5 DEF InOrder
<1>14. SameJob'
  BY <1>1, <1>2, <1>7, <1>8, <1>9 DEF IInv, SameJob
<1>15. FirstCall'
  BY <1>1, <1>6, <1>7, <1>3 DEF IInv, FirstCall, Held, NeedsAck
<1>16. FramesAreVerdicts'
  <2> SUFFICES ASSUME NEW f \in Frame, Backed(f)
               PROVE  Backed(f)'
    BY <1>1, FrameFacts DEF FramesAreVerdicts, IInv
  <2>1. QED
    BY <1>1, <1>8, <1>9, FrameFacts DEF IInv, Backed
<1>17. VerdictsHonoured'
  BY <1>1, <1>6, <1>7, VerdictsPersist DEF IInv, Held
<1>18. QED
  BY <1>10, <1>11, <1>12, <1>13, <1>14, <1>15, <1>16, <1>17 DEF IInv

\* Steps that change nothing but how the channel stands at the consumer's end,
\* or what is subscribed.
LEMMA StatusPreserves ==
    ASSUME IInv, UNCHANGED <<channel, server, nextTag, unacked, job, toClient, toServer, messages>>,
           subs' \in [Options -> {"none", "asked", "active"}],
           client' \in {"open", "closing", "closed"},
           client' # client => /\ client # "closed"
                               /\ client' = "open" \/ client' = "closing"
                                  \/ (server = "closed" /\ toClient = <<>>)
                               /\ client' # "open"
    PROVE  IInv'
<1>1. \A t \in Tags : Got(t)' = Got(t) /\ Id(t)' = Id(t)
  BY DEF Got, Held, Id
<1>2. TypeOK'
  BY DEF IInv, TypeOK
<1>3. ClosedIsEmpty'
  BY DEF IInv, ClosedIsEmpty
<1>4. FutureIsBlank'
  BY DEF IInv, FutureIsBlank
<1>5. InOrder'
  BY <1>1 DEF IInv, InOrder
<1>6. SameJob'
  BY <1>1 DEF IInv, SameJob
<1>7. FirstCall'
  BY DEF IInv, FirstCall, NeedsAck
<1>8. FramesAreVerdicts'
  <2> SUFFICES ASSUME NEW f \in Frame, Backed(f)
               PROVE  Backed(f)'
    BY FrameFacts DEF FramesAreVerdicts, IInv
  <2>1. QED
    BY <1>1, FrameFacts DEF IInv, Backed
<1>9. VerdictsHonoured'
  BY VerdictsStand DEF IInv
<1>10. QED
  BY <1>2, <1>3, <1>4, <1>5, <1>6, <1>7, <1>8, <1>9 DEF IInv

\* ack(), nack() and reject(): a call that returns.
LEMMA SettlePreserves ==
    ASSUME IInv, NEW m \in Ids, NEW v \in Verdict, NEW bit \in Acknowledged, Settle(m, v, bit)
    PROVE  IInv'
<1>1. /\ Held(m)
      /\ UNCHANGED <<channel, client, server, subs, nextTag, unacked, job, toClient>>
  BY DEF Settle, Held
<1>2. /\ messages[m] \in MessageType
      /\ messages[m].ackState \subseteq AckStates
      /\ messages[m].told \in Verdict \cup {None}
      /\ v # None
  BY <1>1, HeldFacts, NoneAssumption DEF IInv
<1>3. Told(m, v) \in Verdict
  BY <1>2 DEF Told
<1>4. /\ messages' \in [Ids -> MessageType \cup {None}]
      /\ \A l \in Ids : l # m => messages'[l] = messages[l]
      /\ messages'[m] \in MessageType /\ messages'[m] # None
      /\ messages'[m].job = messages[m].job
      /\ messages'[m].told = Told(m, v)
      /\ messages'[m].ackState = IF NeedsAck(m) THEN messages[m].ackState \cup {bit}
                                 ELSE messages[m].ackState
  <2>1. /\ messages[m].ackState \cup {bit} \in SUBSET AckStates
        /\ messages[m].job \in Jobs
    BY <1>1, <1>2, HeldFacts DEF IInv, Acknowledged, AckStates
  <2>2. CASE NeedsAck(m)
    <3> DEFINE n == [job |-> messages[m].job, told |-> Told(m, v),
                     ackState |-> messages[m].ackState \cup {bit}]
    <3>2. messages' = [messages EXCEPT ![m] = n]
      BY <2>2 DEF Settle
    <3>3. n \in MessageType /\ n # None
      BY <2>1, <1>3, NoneAssumption DEF MessageType
    <3>4. QED
      BY <3>2, <3>3, <2>2 DEF IInv, TypeOK
  <2>3. CASE ~NeedsAck(m)
    <3>1. messages' = [messages EXCEPT ![m].told = Told(m, v)]
      BY <2>3 DEF Settle
    <3> DEFINE n == [job |-> messages[m].job, ackState |-> messages[m].ackState, told |-> Told(m, v)]
    <3>2. messages' = [messages EXCEPT ![m] = n]
      <4>1. n = [messages[m] EXCEPT !.told = Told(m, v)]
        BY <1>2 DEF MessageType
      <4>2. QED
        BY <3>1, <4>1 DEF IInv, TypeOK
    <3>3. n \in MessageType /\ n # None
      BY <2>1, <1>2, <1>3, NoneAssumption DEF MessageType
    <3>4. QED
      BY <3>2, <3>3, <2>3 DEF IInv, TypeOK
  <2>4. QED
    BY <2>2, <2>3
<1>5. \A l \in Ids : Held(l)' = Held(l) /\ (Held(l) => messages'[l].job = messages[l].job)
  BY <1>1, <1>4 DEF Held
<1>6. \A t \in Tags : Got(t)' = Got(t) /\ Id(t)' = Id(t) /\ (Got(t) => Id(t) \in Ids)
  BY <1>1, <1>5, IdFacts DEF Got, Id, IInv
<1>7. \A l \in Ids : Held(l) /\ NeedsAck(l)' => l # m /\ NeedsAck(l)
  BY <1>1, <1>4 DEF NeedsAck, Acknowledged, IInv
<1>8. TypeOK'
  <2>1. toServer' \in Seq(Frame)
    <3>1. m[2] \in Tags
      BY DEF Ids
    <3>2. [tag |-> m[2], verdict |-> v] \in Frame
      BY <3>1 DEF Frame
    <3>3. QED
      <4>1. toServer \in Seq(Frame)
        BY DEF IInv, TypeOK
      <4>2. Append(toServer, [tag |-> m[2], verdict |-> v]) \in Seq(Frame)
        BY <3>2, <4>1, AppendFacts
      <4>3. QED
        BY <4>1, <4>2 DEF Settle
  <2>2. QED
    BY <1>1, <1>4, <2>1 DEF IInv, TypeOK
<1>9. ClosedIsEmpty'
  BY <1>1 DEF Settle, IInv, ClosedIsEmpty
<1>10. FutureIsBlank'
  BY <1>1, <1>5 DEF IInv, FutureIsBlank, Held
<1>11. InOrder'
  BY <1>1, <1>6 DEF IInv, InOrder
<1>12. SameJob'
  BY <1>1, <1>5, <1>6 DEF IInv, SameJob, Got
<1>13. FirstCall'
  BY <1>4, <1>5, <1>7 DEF IInv, FirstCall, Held
<1>14. FramesAreVerdicts'
  <2>1. ASSUME NEW f \in Frame, Backed(f)
        PROVE  Backed(f)'
    <3>1. f.tag \in Tags /\ Id(f.tag) \in Ids /\ Got(f.tag) /\ messages[Id(f.tag)].told # None
      BY <2>1, <1>6, FrameFacts, NoneAssumption DEF IInv, Backed
    <3>2. CASE Id(f.tag) = m
      BY <2>1, <3>1, <3>2, <1>1, <1>4, <1>6 DEF NeedsAck, Told, Backed
    <3>3. CASE Id(f.tag) # m
      BY <2>1, <3>1, <3>3, <1>1, <1>4, <1>6 DEF Backed
    <3>4. QED
      BY <3>2, <3>3
  <2>2. CASE toServer' = toServer
    BY <2>1, <2>2, FrameFacts DEF FramesAreVerdicts, IInv
  <2>3. ASSUME toServer' = Append(toServer, [tag |-> m[2], verdict |-> v]), NeedsAck(m), Reaches(m)
        PROVE  FramesAreVerdicts'
    <3>1. PICK f \in Frame : f = [tag |-> m[2], verdict |-> v]
      BY DEF Ids, Frame
    <3>2. f.tag \in Tags /\ m = Id(f.tag) /\ f.verdict = v /\ Got(f.tag) /\ client = "open"
      <4>1. f.tag = m[2] /\ f.verdict = v
        BY <3>1
      <4>2. m[1] = channel /\ client = "open" /\ channel # 0 /\ m[2] \in Tags /\ m = <<m[1], m[2]>>
        BY <2>3 DEF Ids, Reaches
      <4>3. m = Id(f.tag)
        BY <4>1, <4>2 DEF Id
      <4>4. QED
        BY <4>1, <4>2, <4>3, <1>1 DEF Got
    <3>3. /\ Len(toServer') = Len(toServer) + 1 /\ Len(toServer) \in Nat
          /\ \A i \in 1..Len(toServer) : toServer'[i] = toServer[i]
          /\ toServer'[Len(toServer) + 1] = f
      BY <2>3, <3>1, AppendFacts DEF IInv, TypeOK
    <3>4. /\ messages'[m].ackState \cap Acknowledged # {}
          /\ messages'[m].told = v
      BY <2>3, <1>1, <1>4 DEF Told, IInv, FirstCall, Held
    <3>5. ASSUME NEW u \in Tags, u < f.tag
          PROVE  Got(u)
      <4>1. u \in Nat /\ f.tag \in Nat /\ nextTag \in Nat
        BY <3>2, BoundsAssumption DEF Tags, IInv, TypeOK
      <4>2. f.tag < nextTag
        BY <3>2, <4>1, <1>1, IdFacts DEF IInv, FutureIsBlank, Got, Held
      <4>3. \A i \in 1..Len(toClient) : f.tag < toClient[i].tag
        BY <3>2 DEF IInv, InOrder
      <4>4. Got(u) \/ \E i \in 1..Len(toClient) : toClient[i].tag = u
        BY <3>2, <3>5, <4>1, <4>2 DEF IInv, InOrder
      <4>5. QED
        BY <3>5, <4>1, <4>3, <4>4
    <3>6. Backed(f)'
      BY <3>2, <3>4, <3>5, <1>6 DEF Backed
    <3>7. QED
      BY <2>1, <3>3, <3>6, FrameFacts DEF FramesAreVerdicts, IInv
  <2>4. QED
    BY <2>2, <2>3 DEF Settle
<1>15. VerdictsHonoured'
  <2>1. \A l \in Ids : Held(l) =>
           /\ Held(l)'
           /\ messages'[l].job = messages[l].job
           /\ messages[l].ackState \cap Acknowledged # {} /\ messages[l].told # None =>
                 /\ messages'[l].ackState \cap Acknowledged # {}
                 /\ messages'[l].told = messages[l].told
    BY <1>4, <1>5 DEF NeedsAck, Told
  <2>2. QED
    BY <2>1, <1>1, VerdictsPersist DEF IInv
<1>16. QED
  BY <1>8, <1>9, <1>10, <1>11, <1>12, <1>13, <1>14, <1>15 DEF IInv

\* The server sends a job under the next tag.
LEMMA DeliverPreserves ==
    ASSUME IInv, NEW j \in Jobs, NEW o \in Options, Deliver(j, o)
    PROVE  IInv'
<1>1. PICK d \in Delivery : d = [tag |-> nextTag, job |-> j, option |-> o]
  BY OptionsAssumption DEF Deliver, Delivery
<1>2. /\ d.tag = nextTag /\ d.job = j /\ d.tag \in Tags /\ d.tag \in Nat
      /\ toClient' = Append(toClient, d) /\ nextTag' = d.tag + 1
      /\ server = "open" /\ job[j] = "ready"
      /\ UNCHANGED <<channel, client, server, subs, toServer, messages>>
  BY <1>1, BoundsAssumption DEF Deliver, Tags
<1>3. /\ Len(toClient') = Len(toClient) + 1 /\ Len(toClient) \in Nat
      /\ toClient' \in Seq(Delivery)
      /\ \A i \in 1..Len(toClient) : toClient'[i] = toClient[i]
      /\ toClient'[Len(toClient) + 1] = d
  BY <1>2, AppendFacts DEF IInv, TypeOK
<1>4. /\ unacked' \in [Tags -> Jobs \cup {None}]
      /\ unacked'[d.tag] \in {None, j}
      /\ \A t \in Tags : t # d.tag => unacked'[t] = unacked[t]
      /\ unacked[d.tag] = None
  <2>1. unacked[d.tag] = None
    BY <1>2 DEF IInv, FutureIsBlank
  <2>2. unacked' = unacked \/ unacked' = [unacked EXCEPT ![d.tag] = j]
    BY <1>2 DEF Deliver
  <2>3. QED
    BY <2>1, <2>2, <1>2 DEF IInv, TypeOK
<1>5. /\ job' \in [Jobs -> {"ready", "unacked", "acked", "dropped", "sent"}]
      /\ \A k \in Jobs : job'[k] \in {"acked", "dropped"} => job'[k] = job[k]
  BY DEF Deliver, IInv, TypeOK
<1>6. \A t \in Tags : Got(t)' = Got(t) /\ Id(t)' = Id(t)
  BY <1>2 DEF Got, Held, Id
<1>7. client # "closed" /\ channel # 0
  BY <1>2 DEF IInv, ClosedIsEmpty
<1>8. \A t \in Tags : Got(t) => t < d.tag
  <2> SUFFICES ASSUME NEW t \in Tags, Got(t)
               PROVE  t < d.tag
    OBVIOUS
  <2>1. Id(t) \in Ids /\ Id(t)[1] = channel /\ Id(t)[2] = t /\ messages[Id(t)] # None
    BY <1>7, IdFacts DEF IInv, Got, Held
  <2>2. ~(t >= nextTag)
    BY <2>1 DEF IInv, FutureIsBlank
  <2>3. t \in Nat
    BY BoundsAssumption DEF Tags
  <2>4. QED
    BY <2>2, <2>3, <1>2
<1>9. \A i \in 1..Len(toClient) : toClient[i].tag < d.tag
  BY <1>2 DEF IInv, FutureIsBlank
<1>10. TypeOK'
  BY <1>2, <1>3, <1>4, <1>5, BoundsAssumption DEF IInv, TypeOK, Tags
<1>11. ClosedIsEmpty'
  BY <1>2, <1>7 DEF IInv, ClosedIsEmpty
<1>12. FutureIsBlank'
  <2>1. \A m \in Ids : m[1] > channel \/ (m[1] = channel /\ m[2] >= nextTag') => messages[m] = None
    BY <1>2, BoundsAssumption DEF IInv, FutureIsBlank, Ids, Tags
  <2>2. \A t \in Tags : t >= nextTag' => unacked'[t] = None
    BY <1>2, <1>4, BoundsAssumption DEF IInv, FutureIsBlank, Tags
  <2>3. \A i \in 1..Len(toClient') : toClient'[i].tag < nextTag'
    BY <1>2, <1>3, <1>9, FrameFacts, BoundsAssumption DEF IInv, Tags
  <2>4. QED
    BY <1>2, <2>1, <2>2, <2>3 DEF FutureIsBlank
<1>13. InOrder'
  <2>1. \A i, k \in 1..Len(toClient') : i < k => toClient'[i].tag < toClient'[k].tag
    <3>1. ASSUME NEW i \in 1..Len(toClient'), NEW k \in 1..Len(toClient'), i < k
          PROVE  toClient'[i].tag < toClient'[k].tag
      <4>1. i \in 1..Len(toClient) /\ toClient'[i] = toClient[i]
        BY <1>3, <3>1
      <4>2. CASE k \in 1..Len(toClient)
        <5>1. toClient'[k] = toClient[k]
          BY <1>3, <4>2
        <5>2. QED
          BY <3>1, <4>1, <4>2, <5>1 DEF IInv, InOrder
      <4>3. CASE k \notin 1..Len(toClient)
        <5>1. toClient'[k] = d
          BY <1>3, <3>1, <4>3
        <5>2. QED
          BY <1>9, <4>1, <5>1
      <4>4. QED
        BY <4>2, <4>3
    <3>2. QED
      BY <3>1
  <2>2. \A i \in 1..Len(toClient') : unacked'[toClient'[i].tag] \in {None, toClient'[i].job}
    <3>1. ASSUME NEW i \in 1..Len(toClient)
          PROVE  unacked'[toClient'[i].tag] \in {None, toClient'[i].job}
      <4>1. toClient'[i] = toClient[i] /\ toClient[i].tag \in Tags /\ toClient[i].tag < d.tag
        BY <1>3, <1>9, FrameFacts DEF IInv
      <4>2. toClient[i].tag # d.tag
        BY <4>1, <1>2, BoundsAssumption DEF Tags
      <4>3. QED
        BY <4>1, <4>2, <1>4 DEF IInv, InOrder
    <3>2. QED
      BY <3>1, <1>2, <1>3, <1>4
  <2>3. \A i \in 1..Len(toClient'), t \in Tags : Got(t)' => t < toClient'[i].tag
    BY <1>3, <1>6, <1>8 DEF IInv, InOrder
  <2>4. ASSUME client = "open", NEW t \in Tags, t < nextTag'
        PROVE  Got(t) \/ \E i \in 1..Len(toClient') : toClient'[i].tag = t
    <3>1. CASE t = d.tag
      BY <3>1, <1>3
    <3>2. CASE t # d.tag
      <4>1. t < nextTag
        BY <3>2, <2>4, <1>2, BoundsAssumption DEF Tags
      <4>2. Got(t) \/ \E i \in 1..Len(toClient) : toClient[i].tag = t
        BY <4>1, <2>4 DEF IInv, InOrder
      <4>3. QED
        BY <4>2, <1>3
    <3>3. QED
      BY <3>1, <3>2
  <2>5. QED
    BY <2>1, <2>2, <2>3, <2>4, <1>2, <1>6 DEF InOrder
<1>14. SameJob'
  BY <1>2, <1>4, <1>6, <1>8, BoundsAssumption DEF IInv, SameJob, Tags
<1>15. FirstCall'
  BY <1>2 DEF IInv, FirstCall, NeedsAck
<1>16. FramesAreVerdicts'
  <2>1. ASSUME NEW f \in Frame, Backed(f)
        PROVE  Backed(f)'
    <3>1. f.tag \in Tags /\ f.tag < d.tag
      BY <2>1, <1>8, FrameFacts DEF IInv, Backed
    <3>2. \A t \in Tags : t < f.tag => unacked'[t] = unacked[t]
      BY <3>1, <1>2, <1>4, BoundsAssumption DEF Tags
    <3>3. QED
      BY <2>1, <3>1, <3>2, <1>2, <1>6 DEF Backed
  <2>2. QED
    BY <2>1, <1>2, FrameFacts DEF IInv, FramesAreVerdicts
<1>17. VerdictsHonoured'
  BY <1>2, <1>5, VerdictsStand DEF IInv
<1>18. QED
  BY <1>10, <1>11, <1>12, <1>13, <1>14, <1>15, <1>16, <1>17 DEF IInv

\* The server's end of the channel closes, because it was asked to, because of
\* an unknown tag, or with the connection, which takes the deliveries with it.
LEMMA ServerEndsPreserves ==
    ASSUME IInv, ServerEnds, UNCHANGED <<channel, nextTag, messages>>,
           client # "closed" \/ client' = client,
           \/ UNCHANGED <<client, toClient>>
           \/ client' = "closed" /\ toClient' = <<>>
    PROVE  IInv'
<1>1. /\ server' = "closed" /\ toServer' = <<>>
      /\ subs' \in [Options -> {"none", "asked", "active"}]
      /\ unacked' \in [Tags -> Jobs \cup {None}]
      /\ \A t \in Tags : unacked'[t] = None
      /\ job' \in [Jobs -> {"ready", "unacked", "acked", "dropped", "sent"}]
      /\ \A j \in Jobs : job'[j] \in {"acked", "dropped"} => job'[j] = job[j]
  BY DEF ServerEnds, IInv, TypeOK
<1>2. \A t \in Tags : Got(t)' = Got(t) /\ Id(t)' = Id(t)
  BY DEF Got, Held, Id
<1>3. TypeOK'
  <2>1. <<>> \in Seq(Delivery) /\ <<>> \in Seq(Frame)
    OBVIOUS
  <2>2. QED
    BY <1>1, <2>1 DEF IInv, TypeOK
<1>4. ClosedIsEmpty'
  BY <1>1 DEF IInv, ClosedIsEmpty
<1>5. FutureIsBlank'
  BY <1>1 DEF IInv, FutureIsBlank
<1>6. InOrder'
  <2>1. CASE UNCHANGED <<client, toClient>>
    BY <2>1, <1>1, <1>2, FrameFacts DEF IInv, InOrder
  <2>2. CASE client' = "closed" /\ toClient' = <<>>
    BY <2>2 DEF InOrder
  <2>3. QED
    BY <2>1, <2>2
<1>7. SameJob'
  BY <1>1, <1>2 DEF IInv, SameJob
<1>8. FirstCall'
  BY DEF IInv, FirstCall, NeedsAck
<1>9. FramesAreVerdicts'
  BY <1>1 DEF FramesAreVerdicts
<1>10. VerdictsHonoured'
  BY <1>1, VerdictsStand DEF IInv
<1>11. QED
  BY <1>3, <1>4, <1>5, <1>6, <1>7, <1>8, <1>9, <1>10 DEF IInv

\* The server reads an acknowledgement.
LEMMA ServerSettlesPreserves ==
    ASSUME IInv, ServerSettles
    PROVE  IInv'
<1>1. /\ server = "open" /\ toServer # <<>>
      /\ UNCHANGED <<channel, client, nextTag, toClient, messages>>
  BY DEF ServerSettles
<1>2. PICK f \in Frame : f = Head(toServer) /\ Backed(f)
  BY <1>1, TailFacts, FrameFacts DEF IInv, TypeOK, FramesAreVerdicts
<1>3. CASE unacked[f.tag] = None
  BY <1>1, <1>2, <1>3, ServerEndsPreserves DEF ServerSettles
<1>4. CASE unacked[f.tag] # None
  <2>1. /\ unacked' = [t \in Tags |-> IF t \in Settled(f) THEN None ELSE unacked[t]]
        /\ job' = [j \in Jobs |-> IF \E t \in Settled(f) : unacked[t] = j
                                  THEN Outcome(f.verdict) ELSE job[j]]
        /\ toServer' = Tail(toServer)
        /\ UNCHANGED <<server, subs>>
    BY <1>2, <1>4 DEF ServerSettles
  <2>2. f.tag \in Tags /\ f.verdict \in Verdict /\ channel # 0
    BY <1>2, FrameFacts DEF Backed, Got, IInv
  <2>3. /\ unacked' \in [Tags -> Jobs \cup {None}]
        /\ \A t \in Tags : unacked'[t] \in {None, unacked[t]}
    BY <2>1 DEF IInv, TypeOK
  <2>4. /\ Outcome(f.verdict) \in {"acked", "ready", "dropped"}
        /\ Outcome(f.verdict) = "acked" => f.verdict.verb = "ack"
        /\ Outcome(f.verdict) = "dropped" => f.verdict.verb \in {"nack", "reject"}
    BY <2>2 DEF Outcome, Verdict, AllVerbs
  <2>5. /\ toServer' \in Seq(Frame)
        /\ \A i \in 1..Len(toServer') : i + 1 \in 1..Len(toServer) /\ toServer'[i] = toServer[i + 1]
    BY <1>1, <2>1, TailFacts DEF IInv, TypeOK
  <2>6. \A t \in Tags : Got(t)' = Got(t) /\ Id(t)' = Id(t) /\ (Got(t) => Id(t) \in Ids)
    BY <1>1, IdFacts DEF Got, Held, Id, IInv
  <2>7. TypeOK'
    <3>1. job' \in [Jobs -> {"ready", "unacked", "acked", "dropped", "sent"}]
      BY <2>1, <2>4 DEF IInv, TypeOK
    <3>2. QED
      BY <1>1, <2>1, <2>3, <2>5, <3>1 DEF IInv, TypeOK
  <2>8. ClosedIsEmpty'
    BY <1>1, <2>1 DEF IInv, ClosedIsEmpty
  <2>9. FutureIsBlank'
    BY <1>1, <2>3 DEF IInv, FutureIsBlank
  <2>10. InOrder'
    BY <1>1, <2>3, <2>6, FrameFacts DEF IInv, InOrder
  <2>11. SameJob'
    BY <1>1, <2>3, <2>6 DEF IInv, SameJob
  <2>12. FirstCall'
    BY <1>1 DEF IInv, FirstCall, NeedsAck
  <2>13. FramesAreVerdicts'
    <3>1. ASSUME NEW g \in Frame, Backed(g)
          PROVE  Backed(g)'
      BY <3>1, <1>1, <2>3, <2>6, FrameFacts DEF IInv, Backed
    <3>2. QED
      BY <3>1, <2>5, FrameFacts DEF IInv, FramesAreVerdicts
  <2>14. VerdictsHonoured'
    <3>1. ASSUME NEW t \in Settled(f)
          PROVE  /\ Id(t) \in Ids /\ Held(Id(t)) /\ messages[Id(t)].job = unacked[t]
                 /\ Judged(Id(t), {f.verdict.verb})
      <4>1. t \in Tags /\ unacked[t] # None /\ (t = f.tag \/ (f.verdict.all /\ t < f.tag))
        BY DEF Settled
      <4>2. Got(t) /\ Got(f.tag)
        BY <4>1, <1>2 DEF Backed
      <4>3. messages[Id(t)].job = unacked[t]
        BY <4>1, <4>2 DEF IInv, SameJob
      <4>4. /\ messages[Id(f.tag)].ackState \cap Acknowledged # {}
            /\ messages[Id(f.tag)].told = f.verdict /\ f.verdict # None
        BY <1>2, <2>2, NoneAssumption DEF Backed
      <4>5. Judged(Id(t), {f.verdict.verb})
        <5>1. /\ Id(f.tag) \in Ids /\ Held(Id(f.tag))
              /\ Id(f.tag)[1] = Id(t)[1] /\ Id(f.tag)[2] = f.tag /\ Id(t)[2] = t
          BY <4>1, <4>2, <2>2, <2>6, IdFacts DEF Got, IInv
        <5>2. t \in Nat /\ f.tag \in Nat
          BY <4>1, <2>2, BoundsAssumption DEF Tags
        <5>3. Id(f.tag) = Id(t) \/ (f.verdict.all /\ Id(f.tag)[2] > Id(t)[2])
          BY <4>1, <5>1, <5>2
        <5>4. QED
          BY <4>4, <5>1, <5>3 DEF Judged
      <4>6. QED
        BY <4>1, <4>2, <4>3, <4>5, <2>6 DEF Got
    <3>2. \A j \in Jobs : \/ job'[j] = job[j]
                          \/ \E t \in Settled(f) : unacked[t] = j /\ job'[j] = Outcome(f.verdict)
      BY <2>1
    <3>3. ASSUME NEW j \in Jobs, NEW t \in Settled(f), unacked[t] = j, job'[j] = Outcome(f.verdict)
          PROVE  /\ job'[j] = "acked" =>
                       \E m \in Ids : Held(m) /\ messages[m].job = j /\ Judged(m, {"ack"})
                 /\ job'[j] = "dropped" =>
                       \E m \in Ids : Held(m) /\ messages[m].job = j /\ Judged(m, {"nack", "reject"})
      <4>1. job'[j] = "acked" => Judged(Id(t), {"ack"})
        BY <3>1, <3>3, <2>4
      <4>2. job'[j] = "dropped" => Judged(Id(t), {"nack", "reject"})
        BY <3>1, <3>3, <2>4 DEF Judged
      <4>3. QED
        BY <3>1, <3>3, <4>1, <4>2
    <3>4. \A m \in Ids : Held(m)' = Held(m) /\ \A verbs : Judged(m, verbs)' = Judged(m, verbs)
      BY <1>1 DEF Held, Judged
    <3>5. QED
      BY <1>1, <3>2, <3>3, <3>4 DEF IInv, VerdictsHonoured
  <2>15. QED
    BY <2>7, <2>8, <2>9, <2>10, <2>11, <2>12, <2>13, <2>14 DEF IInv
<1>5. QED
  BY <1>3, <1>4

-----------------------------------------------------------------------------
(***************************************************************************)
(* The theorems that hold whatever the application calls.                  *)
(***************************************************************************)
LEMMA InitEstablishes == Init => IInv
<1> SUFFICES ASSUME Init PROVE IInv
  OBVIOUS
<1>1. <<>> \in Seq(Delivery) /\ <<>> \in Seq(Frame)
  OBVIOUS
<1>2. \A m \in Ids : ~Held(m)
  BY DEF Init, Held
<1>3. \A t \in Tags : ~Got(t)
  BY DEF Init, Got
<1>4. TypeOK
  BY <1>1, BoundsAssumption DEF Init, TypeOK
<1>5. ClosedIsEmpty /\ FutureIsBlank
  BY DEF Init, ClosedIsEmpty, FutureIsBlank
<1>6. InOrder /\ SameJob /\ FirstCall /\ FramesAreVerdicts
  BY <1>2, <1>3 DEF Init, InOrder, SameJob, FirstCall, FramesAreVerdicts, Held
<1>7. VerdictsHonoured
  BY DEF Init, VerdictsHonoured
<1>8. QED
  BY <1>4, <1>5, <1>6, <1>7 DEF IInv

\* What the application's calls are.
LEMMA ApplicationSettles ==
    ASSUME NEW m \in Ids, Application(m)
    PROVE  \E v \in Verdict, bit \in Acknowledged :
              Settle(m, v, bit) /\ (AllUpTo \subseteq {FALSE} => ~v.all)
<1>1. ASSUME NEW all \in AllUpTo, Ack(m, all)
      PROVE  \E v \in Verdict, bit \in Acknowledged :
                Settle(m, v, bit) /\ (AllUpTo \subseteq {FALSE} => ~v.all)
  <2> DEFINE v == [verb |-> "ack", all |-> all, requeue |-> FALSE]
  <2>1. v \in Verdict /\ "Acked" \in Acknowledged /\ (AllUpTo \subseteq {FALSE} => ~v.all)
    BY VerbsAssumption DEF Verdict, AllVerbs, Acknowledged
  <2>2. Settle(m, v, "Acked")
    BY <1>1 DEF Ack
  <2>3. QED
    BY <2>1, <2>2
<1>2. ASSUME NEW all \in AllUpTo, NEW requeue \in BOOLEAN, Nack(m, all, requeue)
      PROVE  \E v \in Verdict, bit \in Acknowledged :
                Settle(m, v, bit) /\ (AllUpTo \subseteq {FALSE} => ~v.all)
  <2> DEFINE v == [verb |-> "nack", all |-> all, requeue |-> requeue]
  <2>1. v \in Verdict /\ "Nacked" \in Acknowledged /\ (AllUpTo \subseteq {FALSE} => ~v.all)
    BY VerbsAssumption DEF Verdict, AllVerbs, Acknowledged
  <2>2. Settle(m, v, "Nacked")
    BY <1>2 DEF Nack
  <2>3. QED
    BY <2>1, <2>2
<1>3. ASSUME NEW requeue \in BOOLEAN, Reject(m, requeue)
      PROVE  \E v \in Verdict, bit \in Acknowledged :
                Settle(m, v, bit) /\ (AllUpTo \subseteq {FALSE} => ~v.all)
  <2> DEFINE v == [verb |-> "reject", all |-> FALSE, requeue |-> requeue]
  <2>1. v \in Verdict /\ "Rejected" \in Acknowledged /\ ~v.all
    BY DEF Verdict, AllVerbs, Acknowledged
  <2>2. Settle(m, v, "Rejected")
    BY <1>3 DEF Reject
  <2>3. QED
    BY <2>1, <2>2
<1>4. QED
  BY <1>1, <1>2, <1>3 DEF Application

LEMMA NextPreserves == IInv /\ [Next]_vars => IInv'
<1> SUFFICES ASSUME IInv, [Next]_vars
             PROVE  IInv'
  OBVIOUS
<1>1. CASE Consumer
  <2>1. ASSUME NEW o \in Options, Consume(o)
        PROVE  IInv'
    BY <2>1, StatusPreserves DEF Consume, IInv, TypeOK
  <2>2. QED
    BY <1>1, <2>1, ChannelPreserves, ReceivePreserves DEF Consumer
<1>2. CASE Server
  <2>1. ASSUME NEW o \in Options, Subscribe(o)
        PROVE  IInv'
    BY <2>1, StatusPreserves DEF Subscribe, IInv, TypeOK
  <2>2. CASE ServerCloses
    BY <2>2, ServerEndsPreserves DEF ServerCloses
  <2>3. CASE ClientCloses
    BY <2>3, StatusPreserves DEF ClientCloses, IInv, TypeOK
  <2>4. QED
    BY <1>2, <2>1, <2>2, <2>3, ServerSettlesPreserves, DeliverPreserves DEF Server
<1>3. CASE CloseChannel
  BY <1>3, StatusPreserves DEF CloseChannel, IInv, TypeOK
<1>4. CASE ConnectionLost
  BY <1>4, ServerEndsPreserves DEF ConnectionLost
<1>5. ASSUME NEW m \in Ids, Application(m)
      PROVE  IInv'
  BY <1>5, ApplicationSettles, SettlePreserves
<1>6. CASE UNCHANGED vars
  BY <1>6, StatusPreserves DEF vars, IInv, TypeOK
<1>7. QED
  BY <1>1, <1>2, <1>3, <1>4, <1>5, <1>6 DEF Next

\* The invariant holds in every reachable state.
THEOREM Invariance == Spec => []IInv
BY InitEstablishes, NextPreserves, PTL DEF Spec

\* The variables of the consumer, the server and the application have their types.
THEOREM TypeCorrect == Spec => []TypeOK
<1>1. IInv => TypeOK
  BY DEF IInv
<1>2. QED
  BY <1>1, Invariance, PTL

\* At least once: however channels close and whatever the application calls, a
\* job leaves the queue only by a verdict the application gave on a Message of it.
THEOREM AtLeastOnce == Spec => []VerdictsHonoured
<1>1. IInv => VerdictsHonoured
  BY DEF IInv
<1>2. QED
  BY <1>1, Invariance, PTL

-----------------------------------------------------------------------------
(***************************************************************************)
(* What the server waits for: each job under one tag, and, when every      *)
(* subscription said what it wants, in reach of the application.           *)
(***************************************************************************)

\* The server sends j as the delivery d, under the next tag, and waits for it
\* or forgets it.
Sent(d, j, o) ==
    /\ d.tag = nextTag /\ d.option = o /\ d.tag \in Tags
    /\ server = "open" /\ job[j] = "ready"
    /\ UNCHANGED <<channel, client, server, toServer, messages>>
    /\ Len(toClient') = Len(toClient) + 1 /\ Len(toClient) \in Nat
    /\ \A i \in 1..Len(toClient) : toClient'[i] = toClient[i]
    /\ toClient'[Len(toClient) + 1] = d
    /\ unacked[d.tag] = None
    /\ \A t \in Tags : t # d.tag => unacked'[t] = unacked[t]
    /\ \/ o = "noAck" /\ unacked'[d.tag] = None /\ job'[j] = "sent"
       \/ o # "noAck" /\ unacked'[d.tag] = j /\ job'[j] = "unacked"
    /\ \A k \in Jobs : k # j => job'[k] = job[k]
    /\ j # None

LEMMA DeliverFacts ==
    ASSUME IInv, NEW j \in Jobs, NEW o \in Options, Deliver(j, o)
    PROVE  \E d \in Delivery : Sent(d, j, o)
<1>1. PICK d \in Delivery : d = [tag |-> nextTag, job |-> j, option |-> o]
  BY OptionsAssumption DEF Deliver, Delivery
<1>2. /\ d.tag = nextTag /\ d.option = o /\ d.tag \in Tags
      /\ toClient' = Append(toClient, d)
      /\ server = "open" /\ job[j] = "ready"
      /\ UNCHANGED <<channel, client, server, toServer, messages>>
  BY <1>1 DEF Deliver
<1>3. /\ Len(toClient') = Len(toClient) + 1 /\ Len(toClient) \in Nat
      /\ \A i \in 1..Len(toClient) : toClient'[i] = toClient[i]
      /\ toClient'[Len(toClient) + 1] = d
  BY <1>2, AppendFacts DEF IInv, TypeOK
<1>4. /\ unacked[d.tag] = None
      /\ unacked \in [Tags -> Jobs \cup {None}]
      /\ job \in [Jobs -> {"ready", "unacked", "acked", "dropped", "sent"}]
  BY <1>2 DEF IInv, TypeOK, FutureIsBlank
<1>5. \/ /\ o = "noAck" /\ unacked' = unacked
         /\ job' = [job EXCEPT ![j] = "sent"]
      \/ /\ o # "noAck" /\ unacked' = [unacked EXCEPT ![d.tag] = j]
         /\ job' = [job EXCEPT ![j] = "unacked"]
  BY <1>2 DEF Deliver
<1>6. j # None
  BY NoneAssumption
<1>7. /\ \A t \in Tags : t # d.tag => unacked'[t] = unacked[t]
      /\ \/ o = "noAck" /\ unacked'[d.tag] = None /\ job'[j] = "sent"
         \/ o # "noAck" /\ unacked'[d.tag] = j /\ job'[j] = "unacked"
      /\ \A k \in Jobs : k # j => job'[k] = job[k]
  BY <1>2, <1>4, <1>5
<1>8. QED
  BY <1>2, <1>3, <1>4, <1>6, <1>7 DEF Sent

\* The server lets go of jobs, each with its tag.
LEMMA OneTagFewer ==
    ASSUME OneTag, IInv,
           \A t \in Tags : unacked'[t] \in {None, unacked[t]},
           \A j \in Jobs : \/ job'[j] = job[j] /\ \A t \in Tags : unacked[t] = j => unacked'[t] = j
                           \/ job'[j] # "unacked" /\ \A t \in Tags : unacked'[t] # j
    PROVE  OneTag'
<1>1. \A t \in Tags : unacked[t] \in Jobs \cup {None}
  BY DEF IInv, TypeOK
<1>2. \A t \in Tags : unacked'[t] # None => unacked'[t] = unacked[t] /\ unacked[t] \in Jobs
  BY <1>1
<1>3. \A t \in Tags : unacked'[t] # None => job'[unacked'[t]] = "unacked"
  BY <1>2 DEF OneTag
<1>4. \A t, u \in Tags : unacked'[t] # None /\ unacked'[t] = unacked'[u] => t = u
  BY <1>2 DEF OneTag
<1>5. \A j \in Jobs : job'[j] = "unacked" => \E t \in Tags : unacked'[t] = j
  BY DEF OneTag
<1>6. QED
  BY <1>3, <1>4, <1>5 DEF OneTag

LEMMA OneTagDeliver ==
    ASSUME OneTag, IInv, NEW j \in Jobs, NEW o \in Options, Deliver(j, o)
    PROVE  OneTag'
<1>1. PICK d \in Delivery : Sent(d, j, o)
  BY DeliverFacts
<1>2. \A t \in Tags : unacked[t] \in Jobs \cup {None} /\ unacked[t] # j
  BY <1>1 DEF IInv, TypeOK, OneTag, Sent
<1>3. \A t \in Tags : unacked'[t] # None => job'[unacked'[t]] = "unacked"
  BY <1>1, <1>2 DEF OneTag, Sent
<1>4. \A t, u \in Tags : unacked'[t] # None /\ unacked'[t] = unacked'[u] => t = u
  BY <1>1, <1>2 DEF OneTag, Sent
<1>5. ASSUME NEW k \in Jobs, job'[k] = "unacked"
      PROVE  \E t \in Tags : unacked'[t] = k
  <2>1. CASE k = j
    BY <2>1, <1>1, <1>5 DEF Sent
  <2>2. CASE k # j
    <3>1. PICK t \in Tags : unacked[t] = k
      BY <2>2, <1>1, <1>5 DEF OneTag, Sent
    <3>2. t # d.tag
      BY <3>1, <1>1, NoneAssumption DEF Sent
    <3>3. QED
      BY <3>1, <3>2, <1>1 DEF Sent
  <2>3. QED
    BY <2>1, <2>2
<1>6. QED
  BY <1>3, <1>4, <1>5 DEF OneTag

LEMMA OneTagEnds ==
    ASSUME OneTag, IInv, ServerEnds
    PROVE  OneTag'
<1>1. /\ \A t \in Tags : unacked'[t] = None
      /\ \A j \in Jobs : job'[j] # "unacked" /\ j # None
  BY NoneAssumption DEF ServerEnds
<1>2. QED
  BY <1>1, OneTagFewer

LEMMA OneTagSettles ==
    ASSUME OneTag, IInv, ServerSettles
    PROVE  OneTag'
<1>1. PICK f \in Frame : f = Head(toServer)
  BY TailFacts DEF ServerSettles, IInv, TypeOK
<1>2. CASE unacked[f.tag] = None
  BY <1>1, <1>2, OneTagEnds DEF ServerSettles
<1>3. CASE unacked[f.tag] # None
  <2>1. /\ unacked' = [t \in Tags |-> IF t \in Settled(f) THEN None ELSE unacked[t]]
        /\ job' = [j \in Jobs |-> IF \E t \in Settled(f) : unacked[t] = j
                                  THEN Outcome(f.verdict) ELSE job[j]]
    BY <1>1, <1>3 DEF ServerSettles
  <2>2. Outcome(f.verdict) # "unacked"
    BY DEF Outcome
  <2>3. \A t \in Settled(f) : t \in Tags /\ unacked[t] # None
    BY DEF Settled
  <2>4. ASSUME NEW j \in Jobs, NEW s \in Settled(f), unacked[s] = j
        PROVE  job'[j] # "unacked" /\ \A t \in Tags : unacked'[t] # j
    <3>1. j # None
      BY NoneAssumption
    <3>2. \A t \in Tags : unacked[t] = j => t = s
      BY <2>3, <2>4 DEF OneTag
    <3>3. QED
      BY <2>1, <2>2, <2>4, <3>1, <3>2
  <2>5. ASSUME NEW j \in Jobs, ~\E t \in Settled(f) : unacked[t] = j
        PROVE  job'[j] = job[j] /\ \A t \in Tags : unacked[t] = j => unacked'[t] = j
    BY <2>1, <2>5
  <2>6. \A t \in Tags : unacked'[t] \in {None, unacked[t]}
    BY <2>1
  <2>7. QED
    BY <2>4, <2>5, <2>6, OneTagFewer
<1>4. QED
  BY <1>2, <1>3

LEMMA OneTagStep == IInv /\ OneTag /\ [Next]_vars => OneTag'
<1> SUFFICES ASSUME IInv, OneTag, [Next]_vars PROVE OneTag'
  OBVIOUS
<1> DEFINE Stands == UNCHANGED <<unacked, job>>
<1>1. ASSUME Stands PROVE OneTag'
  BY <1>1 DEF OneTag
<1>2. CASE Consumer
  <2>1. Stands
    BY <1>2 DEF Consumer, Channel, Receive, Consume
  <2>2. QED
    BY <1>1, <2>1
<1>3. CASE Server
  <2>1. ASSUME NEW o \in Options, Subscribe(o) PROVE Stands
    BY <2>1 DEF Subscribe
  <2>2. ASSUME ClientCloses PROVE Stands
    BY <2>2 DEF ClientCloses
  <2>3. CASE ServerCloses
    BY <2>3, OneTagEnds DEF ServerCloses
  <2>4. QED
    BY <1>1, <1>3, <2>1, <2>2, <2>3, OneTagSettles, OneTagDeliver DEF Server
<1>4. CASE CloseChannel
  <2>1. Stands
    BY <1>4 DEF CloseChannel
  <2>2. QED
    BY <1>1, <2>1
<1>5. CASE ConnectionLost
  BY <1>5, OneTagEnds DEF ConnectionLost
<1>6. ASSUME NEW m \in Ids, Application(m)
      PROVE  OneTag'
  <2>1. Stands
    BY <1>6, ApplicationSettles DEF Settle
  <2>2. QED
    BY <1>1, <2>1
<1>7. CASE UNCHANGED vars
  <2>1. Stands
    BY <1>7 DEF vars
  <2>2. QED
    BY <1>1, <2>1
<1>8. QED
  BY <1>2, <1>3, <1>4, <1>5, <1>6, <1>7 DEF Next

LEMMA OneTagInvariance == Spec => []OneTag
<1>1. Init => OneTag
  BY DEF Init, OneTag
<1>2. QED
  BY <1>1, OneTagStep, Invariance, PTL DEF Spec

\* A channel, or the lack of one, of which the server waits for nothing.
LEMMA AnswerableNothing ==
    ASSUME IInv', \A t \in Tags : unacked'[t] = None
    PROVE  Answerable'
<1>1. \A i \in 1..Len(toClient') : toClient'[i].tag \in Tags
  <2>1. toClient' \in Seq(Delivery)
    BY DEF IInv, TypeOK
  <2>2. \A i \in 1..Len(toClient') : toClient'[i] \in Delivery
    BY <2>1
  <2>3. QED
    BY <2>2 DEF Delivery
<1>2. QED
  BY <1>1 DEF Answerable

LEMMA AnswerableStutter ==
    ASSUME Answerable, client' = "open" => client = "open",
           UNCHANGED <<channel, unacked, toClient, toServer, messages>>
    PROVE  Answerable'
BY DEF Answerable, Got, Held, Id, NeedsAck, OnItsWay

LEMMA AnswerableReceive ==
    ASSUME IInv, Answerable, Receive
    PROVE  Answerable'
<1>1. PICK d \in Delivery :
         /\ d = Head(toClient) /\ 1 \in 1..Len(toClient) /\ d = toClient[1]
         /\ Len(toClient) \in Nat /\ Len(toClient') = Len(toClient) - 1
         /\ \A i \in 1..Len(toClient') : i + 1 \in 1..Len(toClient) /\ toClient'[i] = toClient[i + 1]
  BY HeadOfClient, TailFacts DEF Receive, IInv, TypeOK
<1>2. /\ UNCHANGED <<channel, client, server, unacked, job, toServer>>
      /\ channel # 0 /\ d.tag \in Tags
  BY <1>1, HeadOfClient DEF Receive, Delivery
<1>3. \A t \in Tags : Id(t)' = Id(t) /\ Id(t) \in Ids /\ (Id(t) = Id(d.tag) => t = d.tag)
  BY <1>2, IdFacts DEF IInv, Id
<1>4. \A m \in Ids : messages'[m] = messages[m] \/
         /\ m = Id(d.tag)
         /\ messages'[m].ackState = IF ConsumerAck(d.option) THEN {"Needed"} ELSE {}
  BY <1>1, <1>2, <1>3 DEF Receive, IInv, TypeOK, Id
<1>5. ASSUME client = "open", NEW t \in Tags, Got(t)', unacked[t] # None
      PROVE  NeedsAck(Id(t))' \/ OnItsWay(t)'
  <2>1. CASE messages'[Id(t)] = messages[Id(t)]
    BY <2>1, <1>2, <1>3, <1>5 DEF Answerable, Got, Held, NeedsAck, OnItsWay
  <2>2. CASE t = d.tag /\ messages'[Id(t)].ackState = IF ConsumerAck(d.option) THEN {"Needed"} ELSE {}
    <3>1. ConsumerAck(d.option)
      BY <2>2, <1>1, <1>5 DEF Answerable
    <3>2. QED
      BY <3>1, <2>2, <1>3 DEF NeedsAck, Acknowledged
  <2>3. QED
    BY <2>1, <2>2, <1>3, <1>4
<1>6. \A i \in 1..Len(toClient') : unacked[toClient'[i].tag] # None => ConsumerAck(toClient'[i].option)
  BY <1>1 DEF Answerable
<1>7. QED
  BY <1>2, <1>5, <1>6 DEF Answerable

LEMMA AnswerableSettle ==
    ASSUME IInv, Answerable, NEW m \in Ids, NEW v \in Verdict, NEW bit \in Acknowledged,
           Settle(m, v, bit)
    PROVE  Answerable'
<1>1. /\ Held(m)
      /\ UNCHANGED <<channel, client, server, unacked, job, toClient>>
      /\ \A l \in Ids : l # m => messages'[l] = messages[l]
      /\ ~NeedsAck(m) => messages'[m].ackState = messages[m].ackState
  <2>1. messages[m] \in MessageType
    BY HeldFacts DEF Settle, Held, IInv
  <2>2. QED
    BY <2>1 DEF Settle, Held, IInv, TypeOK, MessageType
<1>2. toServer \in Seq(Frame)
  BY DEF IInv, TypeOK
<1>3. PICK f \in Frame : f = [tag |-> m[2], verdict |-> v]
  BY DEF Ids, Frame
<1>4. \/ toServer' = toServer
      \/ toServer' = Append(toServer, f)
  BY <1>3 DEF Settle
<1>5. \A t \in Tags : OnItsWay(t) => OnItsWay(t)'
  BY <1>2, <1>4, AppendFacts DEF OnItsWay
<1>6. ASSUME client = "open", NEW t \in Tags, Got(t)', unacked[t] # None
      PROVE  NeedsAck(Id(t))' \/ OnItsWay(t)'
  <2>1. Id(t)' = Id(t) /\ Id(t) \in Ids /\ channel # 0 /\ Id(t)[2] = t
    BY <1>1, <1>6, IdFacts DEF Got, Id, IInv
  <2>2. Got(t)
    BY <2>1, <1>1, <1>6 DEF Got, Held
  <2>3. CASE ~NeedsAck(Id(t))
    BY <2>2, <2>3, <1>5, <1>6 DEF Answerable
  <2>4. CASE NeedsAck(Id(t)) /\ Id(t) # m
    BY <2>1, <2>4, <1>1 DEF NeedsAck
  <2>5. CASE NeedsAck(Id(t)) /\ Id(t) = m
    <3>1. server = "open"
      BY <1>6 DEF IInv, ClosedIsEmpty, TypeOK
    <3>2. toServer' = Append(toServer, f) /\ f.tag = t
      BY <2>1, <2>5, <3>1, <1>3 DEF Settle
    <3>3. Len(toServer) + 1 \in 1..Len(toServer') /\ toServer'[Len(toServer) + 1] = f
      BY <3>2, <1>2, AppendFacts
    <3>4. QED
      BY <3>2, <3>3 DEF OnItsWay
  <2>6. QED
    BY <2>3, <2>4, <2>5
<1>7. QED
  BY <1>1, <1>6 DEF Answerable

LEMMA AnswerableDeliver ==
    ASSUME IInv, Answerable, NEW j \in Jobs, NEW o \in Options, "omitted" \notin Options,
           Deliver(j, o)
    PROVE  Answerable'
<1>1. PICK d \in Delivery : Sent(d, j, o)
  BY DeliverFacts
<1>2. \A i \in 1..Len(toClient) :
         toClient[i].tag \in Tags /\ (unacked'[toClient[i].tag] # None => ConsumerAck(toClient[i].option))
  <2>1. \A i \in 1..Len(toClient) : toClient[i].tag \in Tags /\ toClient[i].tag # d.tag
    <3>1. d.tag = nextTag /\ nextTag \in Nat
      BY <1>1 DEF Sent, IInv, TypeOK
    <3>2. \A i \in 1..Len(toClient) : toClient[i].tag \in Tags /\ toClient[i].tag < nextTag
      BY FrameFacts DEF IInv, FutureIsBlank
    <3>3. QED
      BY <3>1, <3>2, BoundsAssumption DEF Tags
  <2>2. QED
    BY <2>1, <1>1 DEF Answerable, Sent
<1>3. unacked'[d.tag] # None => ConsumerAck(d.option)
  BY <1>1, OptionsAssumption DEF Sent, AllOptions, ConsumerAck
<1>4. \A i \in 1..Len(toClient') : unacked'[toClient'[i].tag] # None => ConsumerAck(toClient'[i].option)
  BY <1>1, <1>2, <1>3 DEF Sent
<1>5. ASSUME client = "open", NEW t \in Tags, Got(t), unacked'[t] # None
      PROVE  NeedsAck(Id(t)) \/ OnItsWay(t)
  <2>1. t # nextTag
    <3>1. Id(t) \in Ids /\ Id(t)[1] = channel /\ Id(t)[2] = t /\ messages[Id(t)] # None
      BY <1>5, IdFacts DEF IInv, Got, Held
    <3>2. ~(t >= nextTag) /\ nextTag \in Nat
      BY <3>1 DEF IInv, FutureIsBlank, TypeOK
    <3>3. QED
      BY <3>2
  <2>2. unacked[t] # None
    BY <2>1, <1>1, <1>5 DEF Sent
  <2>3. QED
    BY <2>2, <1>5 DEF Answerable
<1>6. \A t \in Tags : /\ Got(t)' = Got(t) /\ NeedsAck(Id(t))' = NeedsAck(Id(t))
                      /\ OnItsWay(t)' = OnItsWay(t)
  BY <1>1 DEF Sent, Got, Held, Id, NeedsAck, OnItsWay
<1>7. QED
  BY <1>1, <1>4, <1>5, <1>6 DEF Answerable, Sent

LEMMA AnswerableSettles ==
    ASSUME IInv, IInv', Answerable, ServerSettles
    PROVE  Answerable'
<1>1. /\ toServer # <<>>
      /\ UNCHANGED <<channel, client, toClient, messages>>
  BY DEF ServerSettles
<1>2. /\ 1 \in 1..Len(toServer) /\ Len(toServer) \in Nat
      /\ Head(toServer) = toServer[1]
      /\ Len(Tail(toServer)) = Len(toServer) - 1
      /\ \A i \in 1..Len(Tail(toServer)) :
            i + 1 \in 1..Len(toServer) /\ Tail(toServer)[i] = toServer[i + 1]
  BY <1>1, TailFacts DEF IInv, TypeOK
<1>3. PICK f \in Frame : f = toServer[1] /\ f.tag \in Tags
  BY <1>2, FrameFacts DEF IInv
<1>4. CASE unacked[f.tag] = None
  <2>1. ServerEnds
    BY <1>2, <1>3, <1>4 DEF ServerSettles
  <2>2. \A t \in Tags : unacked'[t] = None
    BY <2>1 DEF ServerEnds
  <2>3. QED
    BY <2>2, AnswerableNothing
<1>5. CASE unacked[f.tag] # None
  <2>1. /\ unacked' = [t \in Tags |-> IF t \in Settled(f) THEN None ELSE unacked[t]]
        /\ toServer' = Tail(toServer)
    BY <1>2, <1>3, <1>5 DEF ServerSettles
  <2>2. f.tag \in Settled(f)
    BY <1>3, <1>5 DEF Settled
  <2>3. \A t \in Tags : unacked'[t] # None => unacked[t] # None /\ t # f.tag
    BY <2>1, <2>2
  <2>4. \A i \in 1..Len(toClient) : unacked'[toClient[i].tag] # None => ConsumerAck(toClient[i].option)
    BY <2>3, FrameFacts DEF Answerable, IInv
  <2>5. ASSUME NEW t \in Tags, t # f.tag, OnItsWay(t)
        PROVE  OnItsWay(t)'
    <3>1. PICK i \in 1..Len(toServer) : toServer[i].tag = t
      BY <2>5 DEF OnItsWay
    <3>2. i # 1
      BY <3>1, <2>5, <1>3
    <3>3. i - 1 \in 1..Len(toServer') /\ toServer'[i - 1] = toServer[(i - 1) + 1]
      BY <3>2, <2>1, <1>2
    <3>4. QED
      BY <3>1, <3>3 DEF OnItsWay
  <2>6. \A t \in Tags : Got(t)' = Got(t) /\ NeedsAck(Id(t))' = NeedsAck(Id(t))
    BY <1>1 DEF Got, Held, Id, NeedsAck
  <2>7. QED
    BY <1>1, <2>3, <2>4, <2>5, <2>6 DEF Answerable
<1>6. QED
  BY <1>4, <1>5

LEMMA AnswerableStep ==
    ASSUME "omitted" \notin Options, IInv, IInv', Answerable, [Next]_vars
    PROVE  Answerable'
<1>1. CASE Consumer
  <2>1. CASE Channel
    <3>1. \A t \in Tags : unacked'[t] = None
      BY <2>1 DEF Channel, IInv, ClosedIsEmpty
    <3>2. QED
      BY <3>1, AnswerableNothing
  <2>2. ASSUME NEW o \in Options, Consume(o)
        PROVE  Answerable'
    BY <2>2, AnswerableStutter DEF Consume
  <2>3. QED
    BY <1>1, <2>1, <2>2, AnswerableReceive DEF Consumer
<1>2. ASSUME ServerEnds
      PROVE  Answerable'
  <2>1. \A t \in Tags : unacked'[t] = None
    BY <1>2 DEF ServerEnds
  <2>2. QED
    BY <2>1, AnswerableNothing
<1>3. CASE Server
  <2>1. ASSUME NEW o \in Options, Subscribe(o)
        PROVE  Answerable'
    BY <2>1, AnswerableStutter DEF Subscribe
  <2>2. CASE ServerCloses
    BY <2>2, <1>2 DEF ServerCloses
  <2>3. CASE ClientCloses
    BY <2>3, AnswerableStutter DEF ClientCloses
  <2>4. QED
    BY <1>3, <2>1, <2>2, <2>3, AnswerableSettles, AnswerableDeliver DEF Server
<1>4. CASE CloseChannel
  BY <1>4, AnswerableStutter DEF CloseChannel
<1>5. CASE ConnectionLost
  BY <1>5, <1>2 DEF ConnectionLost
<1>6. ASSUME NEW m \in Ids, Application(m)
      PROVE  Answerable'
  BY <1>6, ApplicationSettles, AnswerableSettle
<1>7. CASE UNCHANGED vars
  BY <1>7, AnswerableStutter DEF vars
<1>8. QED
  BY <1>1, <1>3, <1>4, <1>5, <1>6, <1>7 DEF Next

LEMMA InReach == IInv /\ OneTag /\ Answerable => NoJobIsStranded
<1> SUFFICES ASSUME IInv, OneTag, Answerable, NEW j \in Jobs, job[j] = "unacked"
             PROVE  /\ server = "open" /\ client # "closed"
                    /\ client = "open" =>
                          \E t \in Tags :
                              /\ unacked[t] = j
                              /\ \/ \E i \in 1..Len(toClient) : toClient[i].tag = t
                                 \/ Held(<<channel, t>>) /\ NeedsAck(<<channel, t>>)
                                 \/ \E i \in 1..Len(toServer) : toServer[i].tag = t
  BY DEF NoJobIsStranded
<1>1. PICK t \in Tags : unacked[t] = j /\ j # None
  BY NoneAssumption DEF OneTag
<1>2. server = "open" /\ client # "closed"
  BY <1>1 DEF IInv, ClosedIsEmpty, TypeOK
<1>3. t < nextTag
  <2>1. t \in Nat /\ nextTag \in Nat
    BY BoundsAssumption DEF Tags, IInv, TypeOK
  <2>2. ~(t >= nextTag)
    BY <1>1 DEF IInv, FutureIsBlank
  <2>3. QED
    BY <2>1, <2>2
<1>4. ASSUME client = "open", ~\E i \in 1..Len(toClient) : toClient[i].tag = t
      PROVE  \/ Held(<<channel, t>>) /\ NeedsAck(<<channel, t>>)
             \/ \E i \in 1..Len(toServer) : toServer[i].tag = t
  <2>1. Got(t)
    BY <1>3, <1>4 DEF IInv, InOrder
  <2>2. NeedsAck(Id(t)) \/ OnItsWay(t)
    BY <2>1, <1>1, <1>4 DEF Answerable
  <2>3. QED
    BY <2>1, <2>2 DEF Got, Id, OnItsWay
<1>5. QED
  BY <1>1, <1>2, <1>4

\* With options that say what is wanted, every job that the server waits for is
\* within the application's reach, whatever it calls and however channels close.
THEOREM NobodyStrands == "omitted" \notin Options => (Spec => []NoJobIsStranded)
<1> SUFFICES ASSUME "omitted" \notin Options PROVE Spec => []NoJobIsStranded
  OBVIOUS
<1>1. Init => Answerable
  BY DEF Init, Answerable, Got
<1>2. IInv /\ IInv' /\ Answerable /\ [Next]_vars => Answerable'
  BY AnswerableStep
<1>3. Spec => []Answerable
  BY <1>1, <1>2, Invariance, PTL DEF Spec
<1>4. QED
  BY <1>3, InReach, OneTagInvariance, Invariance, PTL

-----------------------------------------------------------------------------
(***************************************************************************)
(* Without allUpTo: every message is settled by a call on itself.          *)
(***************************************************************************)
NoAllUpTo == AllUpTo \subseteq {FALSE}

\* A channel's deliveries, acknowledgements and messages agree with the tags
\* that the server waits for.
LEMMA OneByOneStutter ==
    ASSUME OneByOne,
           UNCHANGED <<channel, server, unacked, job, toClient, toServer, messages>>
    PROVE  OneByOne'
BY DEF OneByOne, TagsAreKnown, Got, Held, Id, NeedsAck

\* A new channel has no messages and no tags.
LEMMA ChannelOneByOne ==
    ASSUME IInv, OneByOne, Channel
    PROVE  OneByOne'
<1>1. channel' = channel + 1 /\ channel \in 0..MaxChannels /\ channel' \in 1..MaxChannels
  BY BoundsAssumption DEF Channel, IInv, TypeOK
<1>2. \A t \in Tags : ~Got(t)'
  BY <1>1 DEF Channel, IInv, FutureIsBlank, Got, Held, Id, Ids
<1>3. toClient' = <<>> /\ toServer' = <<>>
  BY DEF Channel, IInv, ClosedIsEmpty
<1>4. QED
  BY <1>2, <1>3 DEF Channel, OneByOne, TagsAreKnown

\* A Message needs an acknowledgement only if the server waits for it.
LEMMA ReceiveOneByOne ==
    ASSUME IInv, OneByOne, Receive
    PROVE  OneByOne'
<1>1. PICK d \in Delivery :
         /\ d = Head(toClient) /\ 1 \in 1..Len(toClient) /\ d = toClient[1]
         /\ Len(toClient) \in Nat /\ Len(toClient') = Len(toClient) - 1
         /\ \A i \in 1..Len(toClient') : i + 1 \in 1..Len(toClient) /\ toClient'[i] = toClient[i + 1]
  BY HeadOfClient, TailFacts DEF Receive, IInv, TypeOK
<1>2. /\ UNCHANGED <<channel, client, server, unacked, job, toServer>>
      /\ channel # 0 /\ d.tag \in Tags
  BY <1>1, HeadOfClient DEF Receive, Delivery
<1>3. \A t \in Tags : Id(t)' = Id(t) /\ Id(t) \in Ids /\ (Id(t) = Id(d.tag) => t = d.tag)
  BY <1>2, IdFacts DEF IInv, Id
<1>4. \A m \in Ids : messages'[m] = messages[m] \/
         /\ m = Id(d.tag)
         /\ messages'[m].ackState = IF ConsumerAck(d.option) THEN {"Needed"} ELSE {}
  BY <1>1, <1>2, <1>3 DEF Receive, IInv, TypeOK, Id
<1>5. ASSUME server = "open", NEW t \in Tags, Got(t)', NeedsAck(Id(t))'
      PROVE  unacked[t] # None
  <2>1. CASE messages'[Id(t)] = messages[Id(t)]
    BY <2>1, <1>2, <1>3, <1>5 DEF OneByOne, Got, Held, NeedsAck
  <2>2. CASE t = d.tag /\ messages'[Id(t)].ackState = IF ConsumerAck(d.option) THEN {"Needed"} ELSE {}
    <3>1. ConsumerAck(d.option)
      BY <2>2, <1>3, <1>5 DEF NeedsAck
    <3>2. QED
      BY <3>1, <2>2, <1>1, <1>5 DEF OneByOne
  <2>3. QED
    BY <2>1, <2>2, <1>3, <1>4
<1>6. server = "open" =>
         \A i \in 1..Len(toClient') : ConsumerAck(toClient'[i].option) => unacked[toClient'[i].tag] # None
  BY <1>1 DEF OneByOne
<1>7. QED
  BY <1>2, <1>5, <1>6 DEF OneByOne, TagsAreKnown

\* A call sends a tag that the server waits for and that is not on its way.
LEMMA SettleOneByOne ==
    ASSUME IInv, OneByOne, NEW m \in Ids, NEW v \in Verdict, NEW bit \in Acknowledged,
           Settle(m, v, bit), ~v.all
    PROVE  OneByOne'
<1>1. /\ Held(m)
      /\ UNCHANGED <<channel, client, server, unacked, job, toClient>>
      /\ \A l \in Ids : l # m => messages'[l] = messages[l]
      /\ NeedsAck(m) => messages'[m].ackState = messages[m].ackState \cup {bit}
      /\ ~NeedsAck(m) => messages'[m].ackState = messages[m].ackState
  <2>1. messages[m] \in MessageType
    BY HeldFacts DEF Settle, Held, IInv
  <2>2. QED
    BY <2>1 DEF Settle, Held, IInv, TypeOK, MessageType
<1>2. \A l \in Ids : NeedsAck(l)' => l # m /\ NeedsAck(l)
  BY <1>1 DEF NeedsAck, Acknowledged
<1>3. ASSUME server = "open", NEW t \in Tags, Got(t)', NeedsAck(Id(t))'
      PROVE  unacked[t] # None
  <2>1. Id(t)' = Id(t) /\ Id(t) \in Ids /\ channel # 0
    BY <1>1, <1>3, IdFacts DEF Got, Id, IInv
  <2>2. Id(t) # m /\ NeedsAck(Id(t))
    BY <2>1, <1>2, <1>3
  <2>3. Got(t)
    BY <2>1, <2>2, <1>1, <1>3 DEF Got, Held
  <2>4. QED
    BY <2>2, <2>3, <1>3 DEF OneByOne
<1>4. (\A i \in 1..Len(toServer') : ~toServer'[i].verdict.all) /\ TagsAreKnown'
  <2>1. CASE toServer' = toServer
    BY <2>1, <1>1 DEF OneByOne, TagsAreKnown
  <2>2. ASSUME toServer' = Append(toServer, [tag |-> m[2], verdict |-> v]),
               NeedsAck(m), Reaches(m), server = "open"
        PROVE  (\A i \in 1..Len(toServer') : ~toServer'[i].verdict.all) /\ TagsAreKnown'
    <3>1. PICK f \in Frame : f = [tag |-> m[2], verdict |-> v]
      BY DEF Ids, Frame
    <3>2. f.tag \in Tags /\ m = Id(f.tag) /\ f.verdict = v /\ Got(f.tag)
      <4>1. channel # 0
        BY <2>2 DEF Ids, Reaches
      <4>2. QED
        BY <4>1, <2>2, <3>1, <1>1 DEF Ids, Reaches, Id, Got
    <3>3. /\ Len(toServer') = Len(toServer) + 1 /\ Len(toServer) \in Nat
          /\ \A i \in 1..Len(toServer) : toServer'[i] = toServer[i]
          /\ toServer'[Len(toServer) + 1] = f
      BY <2>2, <3>1, AppendFacts DEF IInv, TypeOK
    <3>4. unacked[f.tag] # None
      BY <2>2, <3>2 DEF OneByOne
    <3>5. \A i \in 1..Len(toServer) : toServer[i].tag # f.tag
      BY <2>2, <3>2 DEF IInv, FramesAreVerdicts, Backed, NeedsAck
    <3>6. \A i \in 1..Len(toServer') : ~toServer'[i].verdict.all
      BY <3>2, <3>3 DEF OneByOne
    <3>7. TagsAreKnown'
      BY <3>3, <3>4, <3>5, <1>1 DEF OneByOne, TagsAreKnown
    <3>8. QED
      BY <3>6, <3>7
  <2>3. QED
    BY <2>1, <2>2 DEF Settle
<1>5. QED
  BY <1>1, <1>3, <1>4 DEF OneByOne

\* A job goes out under one new tag, and only if no tag has it.
LEMMA DeliverOneByOne ==
    ASSUME IInv, OneByOne, NEW j \in Jobs, NEW o \in Options, Deliver(j, o)
    PROVE  OneByOne'
<1>1. PICK d \in Delivery : Sent(d, j, o)
  BY DeliverFacts
<1>2. \A t \in Tags : unacked[t] # None => unacked'[t] = unacked[t]
  BY <1>1 DEF Sent
<1>3. TagsAreKnown'
  BY <1>1, <1>2, FrameFacts DEF OneByOne, TagsAreKnown, IInv, Sent
<1>4. \A i \in 1..Len(toClient') : ConsumerAck(toClient'[i].option) => unacked'[toClient'[i].tag] # None
  <2>1. ASSUME NEW i \in 1..Len(toClient), ConsumerAck(toClient'[i].option)
        PROVE  unacked'[toClient'[i].tag] # None
    BY <2>1, <1>1, <1>2, FrameFacts DEF OneByOne, IInv, Sent
  <2>2. ConsumerAck(o) => unacked'[d.tag] # None
    BY <1>1 DEF Sent, ConsumerAck
  <2>3. QED
    BY <2>1, <2>2, <1>1 DEF Sent
<1>5. \A t \in Tags : Got(t)' /\ NeedsAck(Id(t))' => unacked'[t] # None
  BY <1>1, <1>2 DEF OneByOne, Got, Held, Id, NeedsAck, Sent
<1>6. QED
  BY <1>1, <1>3, <1>4, <1>5 DEF OneByOne, Sent

\* The server waits for nothing on a channel it has closed.
LEMMA ServerEndsOneByOne ==
    ASSUME IInv, OneByOne, ServerEnds
    PROVE  OneByOne'
<1>1. /\ server' = "closed" /\ toServer' = <<>>
      /\ \A t \in Tags : unacked'[t] = None
  BY DEF ServerEnds
<1>2. QED
  BY <1>1 DEF OneByOne, TagsAreKnown

\* The server settles the one tag it is told.
LEMMA ServerSettlesOneByOne ==
    ASSUME IInv, OneByOne, ServerSettles
    PROVE  OneByOne'
<1>1. /\ server = "open" /\ toServer # <<>>
      /\ UNCHANGED <<channel, client, toClient, messages>>
  BY DEF ServerSettles
<1>2. /\ 1 \in 1..Len(toServer) /\ Len(toServer) \in Nat
      /\ Head(toServer) = toServer[1]
      /\ Len(Tail(toServer)) = Len(toServer) - 1
      /\ \A i \in 1..Len(Tail(toServer)) :
            i + 1 \in 1..Len(toServer) /\ Tail(toServer)[i] = toServer[i + 1]
  BY <1>1, TailFacts DEF IInv, TypeOK
<1>3. PICK f \in Frame : f = toServer[1]
  BY <1>2, FrameFacts DEF IInv
<1>4. /\ f = Head(toServer) /\ Backed(f) /\ f.tag \in Tags
      /\ ~f.verdict.all /\ unacked[f.tag] # None
      /\ \A i \in 1..Len(toServer) : i # 1 => toServer[i].tag # f.tag
  BY <1>2, <1>3, FrameFacts DEF IInv, FramesAreVerdicts, OneByOne, TagsAreKnown
<1>5. Settled(f) = {f.tag}
  BY <1>4 DEF Settled
<1>6. /\ \A t \in Tags : unacked'[t] = IF t = f.tag THEN None ELSE unacked[t]
      /\ \A j \in Jobs : j # unacked[f.tag] => job'[j] = job[j]
      /\ toServer' = Tail(toServer)
      /\ server' = server
  BY <1>1, <1>4, <1>5 DEF ServerSettles
<1>7. (\A i \in 1..Len(toServer') : ~toServer'[i].verdict.all) /\ TagsAreKnown'
  <2>1. \A i \in 1..Len(toServer') : toServer'[i] = toServer[i + 1] /\ i + 1 \in 2..Len(toServer)
    BY <1>2, <1>6
  <2>2. \A i \in 1..Len(toServer') : toServer'[i].tag \in Tags /\ toServer'[i].tag # f.tag
    BY <2>1, <1>4, FrameFacts DEF IInv
  <2>3. \A i \in 1..Len(toServer') : unacked'[toServer'[i].tag] # None
    BY <2>1, <2>2, <1>6 DEF OneByOne, TagsAreKnown
  <2>4. \A i, k \in 1..Len(toServer') : toServer'[k].tag = toServer'[i].tag => k = i
    BY <2>1 DEF OneByOne, TagsAreKnown
  <2>5. QED
    BY <2>1, <2>3, <2>4 DEF OneByOne, TagsAreKnown
<1>8. \A i \in 1..Len(toClient) : ConsumerAck(toClient[i].option) => unacked'[toClient[i].tag] # None
  <2>1. \A i \in 1..Len(toClient) : f.tag < toClient[i].tag /\ toClient[i].tag \in Tags
    BY <1>4, FrameFacts DEF IInv, InOrder, Backed
  <2>2. \A i \in 1..Len(toClient) : f.tag # toClient[i].tag
    BY <2>1, <1>4, BoundsAssumption DEF Tags
  <2>3. QED
    BY <2>1, <2>2, <1>1, <1>6 DEF OneByOne
<1>9. \A t \in Tags : Got(t)' /\ NeedsAck(Id(t))' => unacked'[t] # None
  BY <1>1, <1>4, <1>6 DEF OneByOne, Backed, Got, Held, Id, NeedsAck
<1>10. QED
  BY <1>1, <1>7, <1>8, <1>9 DEF OneByOne

LEMMA OneByOneStep ==
    ASSUME NoAllUpTo, IInv, OneByOne, [Next]_vars
    PROVE  OneByOne'
<1>1. CASE Consumer
  BY <1>1, ChannelOneByOne, ReceiveOneByOne, OneByOneStutter DEF Consumer, Consume
<1>2. CASE Server
  BY <1>2, ServerSettlesOneByOne, DeliverOneByOne, ServerEndsOneByOne, OneByOneStutter
     DEF Server, ServerCloses, ClientCloses, Subscribe
<1>3. CASE CloseChannel
  BY <1>3, OneByOneStutter DEF CloseChannel
<1>4. CASE ConnectionLost
  BY <1>4, ServerEndsOneByOne DEF ConnectionLost
<1>5. ASSUME NEW m \in Ids, Application(m)
      PROVE  OneByOne'
  BY <1>5, ApplicationSettles, SettleOneByOne DEF NoAllUpTo
<1>6. CASE UNCHANGED vars
  BY <1>6, OneByOneStutter DEF vars
<1>7. QED
  BY <1>1, <1>2, <1>3, <1>4, <1>5, <1>6 DEF Next

LEMMA OneByOneInvariance == NoAllUpTo => (Spec => []OneByOne)
<1> SUFFICES ASSUME NoAllUpTo PROVE Spec => []OneByOne
  OBVIOUS
<1>1. Init => OneByOne
  BY DEF Init, OneByOne, TagsAreKnown
<1>2. IInv /\ OneByOne /\ [Next]_vars => OneByOne'
  BY OneByOneStep
<1>3. QED
  BY <1>1, <1>2, Invariance, PTL DEF Spec

\* Without allUpTo no call makes the server close the channel.
THEOREM KnownTags == NoAllUpTo => (Spec => []TagsAreKnown)
<1> SUFFICES ASSUME NoAllUpTo PROVE Spec => []TagsAreKnown
  OBVIOUS
<1>1. OneByOne => TagsAreKnown
  BY DEF OneByOne
<1>2. QED
  BY <1>1, OneByOneInvariance, PTL

\* Without allUpTo needsAck tells the truth about every message that could
\* still be acknowledged.
THEOREM NeedsAckTells == NoAllUpTo => (Spec => []NeedsAckIsTrue)
<1> SUFFICES ASSUME NoAllUpTo PROVE Spec => []NeedsAckIsTrue
  OBVIOUS
<1>1. IInv /\ OneByOne => NeedsAckIsTrue
  <2> SUFFICES ASSUME IInv, OneByOne, NEW m \in Ids,
                      Held(m), Reaches(m), server = "open", NeedsAck(m)
               PROVE  unacked[m[2]] = messages[m].job
    BY DEF NeedsAckIsTrue
  <2>1. m[2] \in Tags /\ m = Id(m[2]) /\ channel # 0
    BY DEF Ids, Reaches, Id
  <2>2. QED
    BY <2>1 DEF OneByOne, IInv, SameJob, Got
<1>2. QED
  BY <1>1, OneByOneInvariance, Invariance, PTL

\* Without allUpTo the application can settle a job through one Message at most.
THEOREM OneLive == NoAllUpTo => (Spec => []OneLiveMessage)
<1> SUFFICES ASSUME NoAllUpTo PROVE Spec => []OneLiveMessage
  OBVIOUS
<1>1. IInv /\ OneTag /\ OneByOne => OneLiveMessage
  <2> SUFFICES ASSUME IInv, OneTag, OneByOne, NEW l \in Ids, NEW m \in Ids,
                      Held(l), Held(m), NeedsAck(l), NeedsAck(m), Reaches(l), Reaches(m),
                      server = "open", messages[l].job = messages[m].job
               PROVE  l = m
    BY DEF OneLiveMessage
  <2>1. /\ l[2] \in Tags /\ l = Id(l[2])
        /\ m[2] \in Tags /\ m = Id(m[2]) /\ channel # 0
    BY DEF Ids, Reaches, Id
  <2>2. /\ unacked[l[2]] = messages[l].job /\ unacked[l[2]] # None
        /\ unacked[m[2]] = messages[m].job
    BY <2>1 DEF OneByOne, IInv, SameJob, Got
  <2>3. l[2] = m[2]
    BY <2>1, <2>2 DEF OneTag
  <2>4. QED
    BY <2>1, <2>3
<1>2. QED
  BY <1>1, OneByOneInvariance, OneTagInvariance, Invariance, PTL
=============================================================================
