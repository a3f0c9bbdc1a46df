------------------------------ MODULE Message ------------------------------
(***************************************************************************)
(* The life of a delivery: src/src/message.ts with the delivery callback of *)
(* src/src/consumer.ts.  The server hands jobs of a queue to a Consumer,   *)
(* each with a delivery tag that counts from 1 on every channel; the       *)
(* consumer wraps each in a Message; the application, which holds the      *)
(* Messages as long as it likes and in any order (the middleware is        *)
(* asynchronous), calls ack(), nack() and reject() on them; the server     *)
(* settles its tags as those frames reach it.  What it has not heard of    *)
(* when the channel closes it delivers again.                              *)
(***************************************************************************)
EXTENDS Naturals, Sequences, FiniteSets

CONSTANTS Jobs,         \* the messages of the queue
          Options,      \* what consume() is given: a subset of AllOptions
          Verbs,        \* what the application calls: a subset of AllVerbs
          AllUpTo,      \* the allUpTo it passes: a subset of BOOLEAN
          Prefetch,     \* prefetch(n): unacknowledged deliveries per channel
          MaxChannels,  \* channels the consumer opens in turn (a bound)
          MaxTag,       \* deliveries per channel (a bound)
          None

AllOptions == {"omitted", "noAck", "ack"}   \* no options, noAck: true, noAck: false
AllVerbs   == {"ack", "nack", "reject"}

ASSUME OptionsAssumption == Options \subseteq AllOptions
ASSUME VerbsAssumption   == Verbs \subseteq AllVerbs /\ AllUpTo \subseteq BOOLEAN
ASSUME BoundsAssumption  == {Prefetch, MaxChannels, MaxTag} \subseteq Nat

VARIABLES channel,   \* how many channels the consumer has opened: the last is current
          client,    \* the current channel as amqplib sees it
          server,    \* and as the server sees it
          subs,      \* consume() calls on the current channel, by their options
          nextTag,   \* server: the next delivery tag
          unacked,   \* server: the job under each tag it waits for, or None
          job,       \* server: what has become of each job
          toClient,  \* deliveries on their way to the consumer
          toServer,  \* acknowledgements on their way to the server
          messages   \* the Message objects, by channel and tag

vars == <<channel, client, server, subs, nextTag, unacked, job, toClient, toServer, messages>>

-----------------------------------------------------------------------------
Tags     == 1..MaxTag
Ids      == (1..MaxChannels) \X Tags
Verdict  == [verb : AllVerbs, all : BOOLEAN, requeue : BOOLEAN]
Frame    == [tag : Tags, verdict : Verdict]
Delivery == [tag : Tags, job : Jobs, option : AllOptions]

\* The bits of $ackState, as a set; and what the call that returned first said.
AckStates    == {"Needed", "Acked", "Nacked", "Rejected"}
AcknowledgedNotNacked == {"Acked", "Rejected"}
Acknowledged == {"Acked", "Nacked", "Rejected"}
MessageType  == [job : Jobs, ackState : SUBSET AckStates, told : Verdict \cup {None}]

ASSUME NoneAssumption == None \notin Jobs \cup Verdict \cup MessageType

TypeOK ==
    /\ channel \in 0..MaxChannels
    /\ client \in {"open", "closing", "closed"}
    /\ server \in {"open", "closed"}
    /\ subs \in [Options -> {"none", "asked", "active"}]
    /\ nextTag \in 1..(MaxTag + 1)
    /\ unacked \in [Tags -> Jobs \cup {None}]
    /\ job \in [Jobs -> {"ready", "unacked", "acked", "dropped", "sent"}]
    /\ toClient \in Seq(Delivery)
    /\ toServer \in Seq(Frame)
    /\ messages \in [Ids -> MessageType \cup {None}]

Init ==
    /\ channel = 0
    /\ client = "closed"
    /\ server = "closed"
    /\ subs = [o \in Options |-> "none"]
    /\ nextTag = 1
    /\ unacked = [t \in Tags |-> None]
    /\ job = [j \in Jobs |-> "ready"]
    /\ toClient = <<>>
    /\ toServer = <<>>
    /\ messages = [m \in Ids |-> None]

-----------------------------------------------------------------------------
(***************************************************************************)
(* The consumer: consumer.ts                                               *)
(***************************************************************************)
\* The "confusing double-negative" of consume().
ConsumerAckOfNoAck(o) == o = "noAck"
ConsumerAckUnlessOmitted(o) == o # "omitted"
ConsumerAck(o) == o = "ack"

\* channel(): with none cached, a new one.
Channel ==
    /\ client = "closed" /\ server = "closed"
    /\ channel < MaxChannels
    /\ channel' = channel + 1
    /\ client' = "open" /\ server' = "open"
    /\ nextTag' = 1
    /\ UNCHANGED <<subs, unacked, job, toClient, toServer, messages>>

\* consume(queue, options): the request is on its way.
Consume(o) ==
    /\ client = "open"
    /\ subs[o] = "none"
    /\ subs' = [subs EXCEPT ![o] = "asked"]
    /\ UNCHANGED <<channel, client, server, nextTag, unacked, job, toClient, toServer, messages>>

\* The delivery callback: a new Message.
Receive ==
    LET d == Head(toClient) IN
    /\ toClient # <<>>
    /\ toClient' = Tail(toClient)
    /\ messages' = IF client = "open"
                   THEN [messages EXCEPT ![<<channel, d.tag>>] =
                           [job |-> d.job, told |-> None,
                            ackState |-> IF ConsumerAck(d.option) THEN {"Needed"} ELSE {}]]
                   ELSE messages                       \* amqplib drops it
    /\ UNCHANGED <<channel, client, server, subs, nextTag, unacked, job, toServer>>

(***************************************************************************)
(* The Message: message.ts                                                 *)
(***************************************************************************)
NeedsAckOnce(m) == "Needed" \in messages[m].ackState
NeedsAck(m) ==
    /\ "Needed" \in messages[m].ackState
    /\ messages[m].ackState \cap Acknowledged = {}

\* this[$channel] is the channel that delivered the message; ack() on a channel
\* that has closed throws, before $ackState changes.
ReachesAny(m) == client = "open"
Reaches(m) == m[1] = channel /\ client = "open"

Told(m, v) == IF messages[m].told = None THEN v ELSE messages[m].told

\* A call that returns: it sends v and sets a bit, or finds nothing to do.
\* One that throws changes nothing.
Settle(m, v, bit) ==
    /\ messages[m] # None
    /\ IF NeedsAck(m)
       THEN /\ Reaches(m)
            /\ messages' = [messages EXCEPT ![m] = [job |-> @.job, told |-> Told(m, v),
                                                   ackState |-> @.ackState \cup {bit}]]
            /\ toServer' = IF server = "open"
                           THEN Append(toServer, [tag |-> m[2], verdict |-> v]) ELSE toServer
       ELSE /\ messages' = [messages EXCEPT ![m].told = Told(m, v)]
            /\ UNCHANGED toServer
    /\ UNCHANGED <<channel, client, server, subs, nextTag, unacked, job, toClient>>

Ack(m, all) ==
    "ack" \in Verbs /\ Settle(m, [verb |-> "ack", all |-> all, requeue |-> FALSE], "Acked")
NackMisspelt(m, all, requeue) ==
    "nack" \in Verbs /\ Settle(m, [verb |-> "nack", all |-> all, requeue |-> requeue], "Nack")
Nack(m, all, requeue) ==
    "nack" \in Verbs /\ Settle(m, [verb |-> "nack", all |-> all, requeue |-> requeue], "Nacked")
Reject(m, requeue) ==
    "reject" \in Verbs /\ Settle(m, [verb |-> "reject", all |-> FALSE, requeue |-> requeue], "Rejected")

-----------------------------------------------------------------------------
(***************************************************************************)
(* The server and the connection: code outside the repository.             *)
(***************************************************************************)
Subscribe(o) ==
    /\ server = "open"
    /\ subs[o] = "asked"
    /\ subs' = [subs EXCEPT ![o] = "active"]
    /\ UNCHANGED <<channel, client, server, nextTag, unacked, job, toClient, toServer, messages>>

\* A job goes out; without acknowledgements the server forgets it at once.
Deliver(j, o) ==
    /\ server = "open"
    /\ subs[o] = "active"
    /\ job[j] = "ready"
    /\ nextTag \in Tags
    /\ IF o = "noAck"
       THEN /\ job' = [job EXCEPT ![j] = "sent"]
            /\ UNCHANGED unacked
       ELSE /\ Cardinality({t \in Tags : unacked[t] # None}) < Prefetch
            /\ job' = [job EXCEPT ![j] = "unacked"]
            /\ unacked' = [unacked EXCEPT ![nextTag] = j]
    /\ toClient' = Append(toClient, [tag |-> nextTag, job |-> j, option |-> o])
    /\ nextTag' = nextTag + 1
    /\ UNCHANGED <<channel, client, server, subs, toServer, messages>>

\* The server's end of the channel closes: what it waits for is ready again.
ServerEnds ==
    /\ server' = "closed"
    /\ subs' = [o \in Options |-> "none"]
    /\ unacked' = [t \in Tags |-> None]
    /\ job' = [j \in Jobs |-> IF job[j] = "unacked" THEN "ready" ELSE job[j]]
    /\ toServer' = <<>>

Outcome(v) == IF v.verb = "ack" THEN "acked" ELSE IF v.requeue THEN "ready" ELSE "dropped"

\* The tags a frame settles; none when its own tag is not one the server waits for.
Settled(f) == {t \in Tags : unacked[t] # None /\ (t = f.tag \/ (f.verdict.all /\ t < f.tag))}

ServerSettles ==
    LET f == Head(toServer) IN
    /\ server = "open" /\ toServer # <<>>
    /\ IF unacked[f.tag] = None
       THEN ServerEnds                            \* PRECONDITION_FAILED: unknown tag
       ELSE /\ unacked' = [t \in Tags |-> IF t \in Settled(f) THEN None ELSE unacked[t]]
            /\ job' = [j \in Jobs |-> IF \E t \in Settled(f) : unacked[t] = j
                                      THEN Outcome(f.verdict) ELSE job[j]]
            /\ toServer' = Tail(toServer)
            /\ UNCHANGED <<server, subs>>
    /\ UNCHANGED <<channel, client, nextTag, toClient, messages>>

\* The broker asks the channel to close; the server reads all that came before.
CloseChannel ==
    /\ channel < MaxChannels
    /\ client = "open"
    /\ client' = "closing"
    /\ UNCHANGED <<channel, server, subs, nextTag, unacked, job, toClient, toServer, messages>>

ServerCloses ==
    /\ client = "closing" /\ server = "open" /\ toServer = <<>>
    /\ ServerEnds
    /\ UNCHANGED <<channel, client, nextTag, toClient, messages>>

\* The 'close' event, behind the deliveries sent before it: a consume() that was
\* asked of this channel meanwhile is rejected with it.
ClientCloses ==
    /\ client # "closed" /\ server = "closed" /\ toClient = <<>>
    /\ client' = "closed"
    /\ subs' = [o \in Options |-> "none"]
    /\ UNCHANGED <<channel, server, nextTag, unacked, job, toClient, toServer, messages>>

\* The connection is lost, with all that is on its way.
ConnectionLost ==
    /\ channel < MaxChannels
    /\ client # "closed"
    /\ client' = "closed"
    /\ toClient' = <<>>
    /\ ServerEnds
    /\ UNCHANGED <<channel, nextTag, messages>>

-----------------------------------------------------------------------------
Consumer == Channel \/ Receive \/ \E o \in Options : Consume(o)

Application(m) ==
    \/ \E all \in AllUpTo : Ack(m, all)
    \/ \E all \in AllUpTo, requeue \in BOOLEAN : Nack(m, all, requeue)
    \/ \E requeue \in BOOLEAN : Reject(m, requeue)

Server ==
    \/ ServerSettles \/ ServerCloses \/ ClientCloses
    \/ \E o \in Options : Subscribe(o)
    \/ \E j \in Jobs, o \in Options : Deliver(j, o)

Next ==
    \/ Consumer \/ Server \/ CloseChannel \/ ConnectionLost
    \/ \E m \in Ids : Application(m)

Spec == Init /\ [][Next]_vars

\* Deliveries and acknowledgements arrive, the consumer consumes again when it
\* lost its channel, and the application settles every message it can.
Fairness ==
    /\ WF_vars(Channel) /\ WF_vars(Receive)
    /\ \A o \in Options : WF_vars(Consume(o))
    /\ WF_vars(Server)
    /\ \A m \in Ids : WF_vars(messages[m] # None /\ NeedsAck(m) /\ Application(m))

FairSpec == Spec /\ Fairness

-----------------------------------------------------------------------------
(***************************************************************************)
(* Properties                                                              *)
(***************************************************************************)
Held(m) == messages[m] # None

\* Without allUpTo, no call on any Message, however often and in whatever order
\* the application makes them, and whatever channels have closed meanwhile, ever
\* sends the server a tag it is not waiting for, which would close the channel
\* for every user of it.
TagsAreKnown ==
    \A i \in 1..Len(toServer) :
        /\ unacked[toServer[i].tag] # None
        /\ \A k \in 1..Len(toServer) : toServer[k].tag = toServer[i].tag => k = i

\* The message m was acknowledged (or refused) by a call on itself, or by one
\* with allUpTo on a later message of its channel.
Judged(m, verbs) ==
    \E l \in Ids : /\ Held(l)
                   /\ l = m \/ (l[1] = m[1] /\ l[2] > m[2])
                   /\ messages[l].ackState \cap Acknowledged # {}
                   /\ messages[l].told # None
                   /\ messages[l].told.verb \in verbs
                   /\ l = m \/ messages[l].told.all

\* At least once: the server lets go of a job only because the application
\* settled a Message of that very job, the way the application said.
VerdictsHonoured ==
    \A j \in Jobs :
        /\ job[j] = "acked" =>
              \E m \in Ids : Held(m) /\ messages[m].job = j /\ Judged(m, {"ack"})
        /\ job[j] = "dropped" =>
              \E m \in Ids : Held(m) /\ messages[m].job = j /\ Judged(m, {"nack", "reject"})

\* No job is stranded: one that the server waits for is on its way to the
\* application, or held by it in a Message that it can still settle, or its
\* acknowledgement is on its way; or else its channel is closing.
NoJobIsStranded ==
    \A j \in Jobs : job[j] = "unacked" =>
        /\ server = "open" /\ client # "closed"
        /\ client = "open" =>
              \E t \in Tags :
                  /\ unacked[t] = j
                  /\ \/ \E i \in 1..Len(toClient) : toClient[i].tag = t
                     \/ Held(<<channel, t>>) /\ NeedsAck(<<channel, t>>)
                     \/ \E i \in 1..Len(toServer) : toServer[i].tag = t

\* Without allUpTo, the application never holds two Messages of a job that it
\* could both settle: a redelivered job's earlier Messages are spent or dead.
OneLiveMessage ==
    \A l, m \in Ids :
        /\ Held(l) /\ Held(m)
        /\ NeedsAck(l) /\ NeedsAck(m) /\ Reaches(l) /\ Reaches(m)
        /\ server = "open"
        /\ messages[l].job = messages[m].job
        => l = m

\* With prefetch, closed channels and lost connections, every job is in the end
\* settled, if the application settles what it is given; unless it refuses jobs
\* again and again, until no tag is left (MaxTag).
EveryJobSettles ==
    \A j \in Jobs : <>[](job[j] \in {"acked", "dropped", "sent"} \/ nextTag > MaxTag)

\* README.md: "ack(allUpTo?) acknowledges the message".  When ack() has returned
\* the server is told, or has been, or delivers the message again.
AckAcknowledges ==
    \A m \in Ids :
        /\ Held(m) /\ Reaches(m) /\ server = "open"
        /\ messages[m].told # None /\ messages[m].told.verb = "ack"
        => \/ unacked[m[2]] = None
           \/ \E i \in 1..Len(toServer) : toServer[i].tag = m[2]

\* message.ts: needsAck is "needs ack but not already acknowledged (in any way)".
NeedsAckIsTrue ==
    \A m \in Ids :
        Held(m) /\ Reaches(m) /\ server = "open" /\ NeedsAck(m) => unacked[m[2]] = messages[m].job
=============================================================================
