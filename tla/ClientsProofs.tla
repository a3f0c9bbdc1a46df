---------------------------- MODULE ClientsProofs ----------------------------
(***************************************************************************)
(* The inductive invariant of Clients and the theorems that rest on it,    *)
(* for any number of publishers, consumers, calls and channels.            *)
(***************************************************************************)
EXTENDS Clients, TLAPS

Used == Broker!Live \cup {"closed"}

\* Whatever is cached or listened to has been open.
HandedOutAreUsed ==
    /\ \A p \in Clients : channel[p] # None => status[channel[p]] \in Used
    /\ \A k \in Broker!Kinds : cache[k] # None => status[cache[k]] \in Used
    /\ \A h \in heard : status[h] \in Used

\* The channel that a call is about to hand out is known to that call alone.
NewAreFresh ==
    \A a \in Calls : ask[a].chan # None =>
        /\ status[ask[a].chan] # "unused" /\ ask[a].chan \notin heard
        /\ \A p \in Clients : channel[p] # ask[a].chan
        /\ \A k \in Broker!Kinds : cache[k] # ask[a].chan
        /\ \A b \in Calls \ {a} : ask[b].chan # ask[a].chan

\* A client listens to nothing that the broker has not listened to before it.
ListensAreHeard == \A p \in Clients : listens[p] \subseteq heard

\* A cached channel is alive exactly if the broker, and all that cache it, would
\* hear it close.
CachedAreHeard ==
    /\ \A p \in Clients : channel[p] # None =>
          /\ channel[p] \in heard <=> status[channel[p]] \in Broker!Live
          /\ channel[p] \in heard => channel[p] \in listens[p]
    /\ \A k \in Broker!Kinds : cache[k] # None =>
          (cache[k] \in heard <=> status[cache[k]] \in Broker!Live)

\* A consumer that waits for its publisher's channel waits with the publisher.
PublishersWaitToo ==
    \A a \in Calls, p \in Consumers :
        p \in waiting[a] /\ PublisherOf[p] # None => PublisherOf[p] \in waiting[a]

IInv ==
    /\ TypeOK
    /\ HandedOutAreUsed
    /\ NewAreFresh
    /\ ListensAreHeard
    /\ CachedAreHeard
    /\ PublishersWaitToo

LEMMA InitEstablishes == Init => IInv
<1> SUFFICES ASSUME Init
             PROVE  IInv
  OBVIOUS
<1>1. TypeOK
  BY DEF Init, TypeOK, Broker!Init, Broker!TypeOK, Broker!NoAsk, Broker!AskRecord
<1>2. HandedOutAreUsed /\ NewAreFresh
  BY DEF Init, Broker!Init, Broker!NoAsk, HandedOutAreUsed, NewAreFresh
<1>3. ListensAreHeard /\ CachedAreHeard /\ PublishersWaitToo
  BY DEF Init, Broker!Init, ListensAreHeard, CachedAreHeard, PublishersWaitToo
<1>4. QED
  BY <1>1, <1>2, <1>3 DEF IInv

-----------------------------------------------------------------------------
(***************************************************************************)
(* Helpers.                                                                *)
(***************************************************************************)
\* Whom a client asks is a client, and one kind of channel serves it.
LEMMA AskerIsAClient ==
    ASSUME NEW p \in Clients
    PROVE  Asker(p) \in Clients /\ Kind(p) \in Broker!Kinds
BY ClientsAssumption DEF Asker, Parent, Kind, Clients, Broker!Kinds

LEMMA AdoptEffect ==
    ASSUME TypeOK, NEW W \in SUBSET Clients, NEW h \in Chans, Adopt(W, h)
    PROVE  /\ channel' \in [Clients -> Chans \cup {None}]
           /\ listens' \in [Clients -> SUBSET Chans]
           /\ \A p \in W : channel'[p] = h
           /\ \A p \in Clients \ W : channel'[p] = channel[p] /\ listens'[p] = listens[p]
           /\ \A p \in Clients : listens[p] \subseteq listens'[p] /\ listens'[p] \subseteq listens[p] \cup {h}
           /\ \A p \in W : h \in listens'[p] <=> h \in listens[p] \/ status[h] \in Broker!Live
           /\ status[h] \notin Broker!Live => listens' = listens
<1>1. channel' \in [Clients -> Chans \cup {None}] /\ listens' \in [Clients -> SUBSET Chans]
  BY DEF Adopt, TypeOK
<1>2. /\ \A p \in W : channel'[p] = h
      /\ \A p \in Clients \ W : channel'[p] = channel[p] /\ listens'[p] = listens[p]
      /\ \A p \in Clients : listens[p] \subseteq listens'[p] /\ listens'[p] \subseteq listens[p] \cup {h}
      /\ \A p \in W : h \in listens'[p] <=> h \in listens[p] \/ status[h] \in Broker!Live
  BY DEF Adopt
<1>3. status[h] \notin Broker!Live => listens' = listens
  BY DEF Adopt, TypeOK
<1>4. QED
  BY <1>1, <1>2, <1>3

\* The channel that a client finds cached, at its publisher or at the broker.
LEMMA CachedIsSound ==
    ASSUME IInv, NEW p \in Clients, Cached(p) # None
    PROVE  /\ Cached(p) \in Chans /\ status[Cached(p)] \in Used
           /\ Cached(p) \in heard <=> status[Cached(p)] \in Broker!Live
           /\ \A a \in Calls : ask[a].chan # Cached(p)
<1>1. Asker(p) \in Clients /\ Kind(p) \in Broker!Kinds
  BY AskerIsAClient
<1>2. CASE channel[Asker(p)] # None
  BY <1>1, <1>2 DEF IInv, TypeOK, HandedOutAreUsed, CachedAreHeard, NewAreFresh, Cached
<1>3. CASE channel[Asker(p)] = None
  BY <1>1, <1>3 DEF IInv, TypeOK, Broker!TypeOK, HandedOutAreUsed, CachedAreHeard, NewAreFresh, Cached
<1>4. QED
  BY <1>2, <1>3

-----------------------------------------------------------------------------
(***************************************************************************)
(* Every action preserves the invariant: channel().                        *)
(***************************************************************************)
LEMMA GetCachedPreserves ==
    ASSUME IInv, NEW p \in Clients, GetCached(p)
    PROVE  IInv'
<1> DEFINE h == Cached(p)
           W == Chain(p)
<1>1. /\ h \in Chans /\ status[h] \in Used
      /\ h \in heard <=> status[h] \in Broker!Live
      /\ \A a \in Calls : ask[a].chan # h
  BY CachedIsSound DEF GetCached
<1>2. W \in SUBSET Clients /\ Adopt(W, h)
  BY AskerIsAClient DEF GetCached, Chain
<1>3. UNCHANGED <<cache, heard, status, ask, waiting, shared, made>>
  BY DEF GetCached, brokerVars
<1> HIDE DEF h, W
<1>4. /\ channel' \in [Clients -> Chans \cup {None}]
      /\ listens' \in [Clients -> SUBSET Chans]
      /\ \A q \in W : channel'[q] = h
      /\ \A q \in Clients \ W : channel'[q] = channel[q] /\ listens'[q] = listens[q]
      /\ \A q \in Clients : listens[q] \subseteq listens'[q] /\ listens'[q] \subseteq listens[q] \cup {h}
      /\ \A q \in W : h \in listens'[q] <=> h \in listens[q] \/ status[h] \in Broker!Live
      /\ status[h] \notin Broker!Live => listens' = listens
  BY <1>1, <1>2, AdoptEffect DEF IInv
<1>5. TypeOK'
  BY <1>3, <1>4 DEF IInv, TypeOK, Broker!TypeOK
<1>6. HandedOutAreUsed'
  BY <1>1, <1>2, <1>3, <1>4 DEF IInv, HandedOutAreUsed
<1>7. NewAreFresh'
  BY <1>1, <1>2, <1>3, <1>4 DEF IInv, NewAreFresh
<1>8. ListensAreHeard'
  BY <1>1, <1>3, <1>4 DEF IInv, ListensAreHeard
<1>9. CachedAreHeard'
  <2>1. ASSUME NEW q \in Clients, channel'[q] # None
        PROVE  /\ channel'[q] \in heard' <=> status'[channel'[q]] \in Broker!Live
               /\ channel'[q] \in heard' => channel'[q] \in listens'[q]
    <3>1. CASE q \in W
      BY <1>1, <1>3, <1>4, <3>1
    <3>2. CASE q \notin W
      BY <1>3, <1>4, <2>1, <3>2 DEF IInv, CachedAreHeard
    <3>3. QED
      BY <3>1, <3>2
  <2>2. QED
    BY <1>3, <2>1 DEF IInv, CachedAreHeard
<1>10. PublishersWaitToo'
  BY <1>3 DEF IInv, PublishersWaitToo
<1>11. QED
  BY <1>5, <1>6, <1>7, <1>8, <1>9, <1>10 DEF IInv

LEMMA AskPreserves ==
    ASSUME IInv, NEW a \in Calls, NEW k \in Broker!Kinds, Broker!Ask(a, k),
           UNCHANGED <<channel, listens, shared, made>>,
           waiting' \in [Calls -> SUBSET Clients], PublishersWaitToo'
    PROVE  IInv'
<1>1. /\ ask' \in [Calls -> Broker!AskRecord] /\ ask'[a].chan = None
      /\ \A b \in Calls \ {a} : ask'[b] = ask[b]
      /\ UNCHANGED <<cache, heard, status>>
  BY DEF Broker!Ask, Broker!AskRecord, IInv, TypeOK, Broker!TypeOK
<1>2. TypeOK' /\ HandedOutAreUsed' /\ ListensAreHeard' /\ CachedAreHeard'
  BY <1>1 DEF IInv, TypeOK, Broker!TypeOK, HandedOutAreUsed, ListensAreHeard, CachedAreHeard
<1>3. NewAreFresh'
  BY <1>1 DEF IInv, NewAreFresh
<1>4. QED
  BY <1>2, <1>3 DEF IInv

LEMMA GetNewPreserves ==
    ASSUME IInv, NEW a \in Calls, NEW p \in Clients, GetNew(a, p)
    PROVE  IInv'
<1>1. Asker(p) \in Clients /\ Kind(p) \in Broker!Kinds /\ Chain(p) \in SUBSET Clients
  BY AskerIsAClient DEF Chain
<1>2. /\ Broker!Ask(a, Kind(p)) /\ UNCHANGED <<channel, listens, shared, made>>
      /\ waiting' = [waiting EXCEPT ![a] = Chain(p)]
  BY DEF GetNew
<1>3. waiting' \in [Calls -> SUBSET Clients]
  BY <1>1, <1>2 DEF IInv, TypeOK
<1>4. PublishersWaitToo'
  <2>1. ASSUME NEW c \in Consumers, c \in Chain(p), PublisherOf[c] # None
        PROVE  PublisherOf[c] \in Chain(p)
    <3>1. c = p
      BY <2>1, ClientsAssumption DEF Chain, Asker, Parent
    <3>2. Asker(p) = PublisherOf[p] /\ channel[Asker(p)] = None
      BY <2>1, <3>1 DEF Asker, Parent, GetNew, Cached
    <3>3. QED
      BY <3>1, <3>2 DEF Chain
  <2>2. QED
    BY <1>2, <2>1 DEF IInv, TypeOK, PublishersWaitToo
<1>5. QED
  BY <1>1, <1>2, <1>3, <1>4, AskPreserves

LEMMA AskBrokerPreserves ==
    ASSUME IInv, NEW a \in Calls, NEW k \in Broker!Kinds, AskBroker(a, k)
    PROVE  IInv'
<1>1. Broker!Ask(a, k) /\ UNCHANGED <<channel, listens, waiting, shared, made>>
  BY DEF AskBroker, clientVars
<1>2. waiting' \in [Calls -> SUBSET Clients] /\ PublishersWaitToo'
  BY <1>1 DEF IInv, TypeOK, PublishersWaitToo
<1>3. QED
  BY <1>1, <1>2, AskPreserves

\* No client that stops to wait is waited with.
LEMMA WaitingEnds ==
    ASSUME IInv, waiting' \in [Calls -> SUBSET Clients],
           \A a \in Calls : waiting'[a] \in {waiting[a], {}}
    PROVE  PublishersWaitToo'
BY DEF IInv, PublishersWaitToo

LEMMA HandedPreserves ==
    ASSUME IInv, NEW a \in Calls, Handed(a)
    PROVE  IInv'
<1>1. PICK h : h = ask[a].chan
  OBVIOUS
<1>2. PICK W : W = waiting[a]
  OBVIOUS
<1>3. PICK k : k = ask[a].kind
  OBVIOUS
<1>4. /\ h # None /\ h \in Chans /\ status[h] \in Used /\ W \in SUBSET Clients
      /\ k \in Broker!Kinds \cup {None} /\ Adopt(W, h)
      /\ h \notin heard /\ \A q \in Clients : channel[q] # h
      /\ \A j \in Broker!Kinds : cache[j] # h
      /\ \A b \in Calls \ {a} : ask[b].chan # h
  <2>1. h # None /\ h \in Chans /\ W \in SUBSET Clients /\ k \in Broker!Kinds \cup {None} /\ Adopt(W, h)
    BY <1>1, <1>2, <1>3 DEF IInv, TypeOK, Broker!TypeOK, Broker!AskRecord, Handed, Broker!Hand
  <2>2. status[h] \in Used
    BY <1>1, <2>1 DEF IInv, TypeOK, Broker!TypeOK, NewAreFresh, Handed, Broker!Hand, Used
  <2>3. QED
    BY <1>1, <2>1, <2>2 DEF IInv, NewAreFresh
<1>5. /\ heard' = IF status[h] \in Broker!Live THEN heard \cup {h} ELSE heard
      /\ cache' = [cache EXCEPT ![k] = h] /\ ask' = [ask EXCEPT ![a] = Broker!NoAsk]
      /\ waiting' = [waiting EXCEPT ![a] = {}]
      /\ UNCHANGED <<status, shared, made>>
  BY <1>1, <1>3 DEF Handed, Broker!Hand
<1>6. /\ channel' \in [Clients -> Chans \cup {None}]
      /\ listens' \in [Clients -> SUBSET Chans]
      /\ \A q \in W : channel'[q] = h
      /\ \A q \in Clients \ W : channel'[q] = channel[q] /\ listens'[q] = listens[q]
      /\ \A q \in Clients : listens[q] \subseteq listens'[q] /\ listens'[q] \subseteq listens[q] \cup {h}
      /\ \A q \in W : h \in listens'[q] <=> h \in listens[q] \/ status[h] \in Broker!Live
      /\ status[h] \notin Broker!Live => listens' = listens
  BY <1>4, AdoptEffect DEF IInv
<1>7. /\ cache' \in [Broker!Kinds -> Chans \cup {None}]
      /\ \A j \in Broker!Kinds : cache'[j] = h \/ cache'[j] = cache[j]
  BY <1>4, <1>5 DEF IInv, TypeOK, Broker!TypeOK
<1>8. /\ ask' \in [Calls -> Broker!AskRecord] /\ ask'[a].chan = None
      /\ \A b \in Calls \ {a} : ask'[b] = ask[b]
  BY <1>5 DEF IInv, TypeOK, Broker!TypeOK, Broker!AskRecord, Broker!NoAsk
<1>9. /\ waiting' \in [Calls -> SUBSET Clients] /\ heard' \in SUBSET Chans
      /\ \A b \in Calls : waiting'[b] \in {waiting[b], {}}
  BY <1>4, <1>5 DEF IInv, TypeOK, Broker!TypeOK
<1>10. TypeOK'
  BY <1>5, <1>6, <1>7, <1>8, <1>9 DEF IInv, TypeOK, Broker!TypeOK
<1>11. HandedOutAreUsed'
  BY <1>4, <1>5, <1>6, <1>7 DEF IInv, HandedOutAreUsed
<1>12. NewAreFresh'
  <2>1. ASSUME NEW b \in Calls, ask'[b].chan # None
        PROVE  /\ status'[ask'[b].chan] # "unused" /\ ask'[b].chan \notin heard'
               /\ \A p \in Clients : channel'[p] # ask'[b].chan
               /\ \A j \in Broker!Kinds : cache'[j] # ask'[b].chan
               /\ \A c \in Calls \ {b} : ask'[c].chan # ask'[b].chan
    <3>1. b # a /\ ask'[b] = ask[b] /\ ask[b].chan # h
      BY <1>4, <1>8, <2>1
    <3>2. QED
      BY <1>4, <1>5, <1>6, <1>7, <1>8, <2>1, <3>1 DEF IInv, NewAreFresh
  <2>2. QED
    BY <2>1 DEF NewAreFresh
<1>13. ListensAreHeard'
  BY <1>5, <1>6 DEF IInv, ListensAreHeard
<1>14. CachedAreHeard'
  <2>1. ASSUME NEW q \in Clients, channel'[q] # None
        PROVE  /\ channel'[q] \in heard' <=> status'[channel'[q]] \in Broker!Live
               /\ channel'[q] \in heard' => channel'[q] \in listens'[q]
    <3>1. CASE q \in W
      BY <1>4, <1>5, <1>6, <3>1
    <3>2. CASE q \notin W
      BY <1>4, <1>5, <1>6, <2>1, <3>2 DEF IInv, CachedAreHeard
    <3>3. QED
      BY <3>1, <3>2
  <2>2. ASSUME NEW j \in Broker!Kinds, cache'[j] # None
        PROVE  cache'[j] \in heard' <=> status'[cache'[j]] \in Broker!Live
    BY <1>4, <1>5, <1>7, <2>2 DEF IInv, CachedAreHeard
  <2>3. QED
    BY <2>1, <2>2 DEF CachedAreHeard
<1>15. PublishersWaitToo'
  BY <1>9, WaitingEnds
<1>16. QED
  BY <1>10, <1>11, <1>12, <1>13, <1>14, <1>15 DEF IInv

LEMMA FailedPreserves ==
    ASSUME IInv, NEW a \in Calls, Failed(a)
    PROVE  IInv'
<1>1. /\ ask' \in [Calls -> Broker!AskRecord] /\ ask'[a].chan = None
      /\ \A b \in Calls \ {a} : ask'[b] = ask[b]
      /\ UNCHANGED <<cache, heard, status, channel, listens, shared, made>>
  BY DEF Failed, Broker!Fail, Broker!AskRecord, Broker!NoAsk, IInv, TypeOK, Broker!TypeOK
<1>2. /\ waiting' \in [Calls -> SUBSET Clients]
      /\ \A b \in Calls : waiting'[b] \in {waiting[b], {}}
  BY DEF Failed, IInv, TypeOK
<1>3. TypeOK' /\ HandedOutAreUsed' /\ ListensAreHeard' /\ CachedAreHeard'
  BY <1>1, <1>2 DEF IInv, TypeOK, Broker!TypeOK, HandedOutAreUsed, ListensAreHeard, CachedAreHeard
<1>4. NewAreFresh'
  BY <1>1 DEF IInv, NewAreFresh
<1>5. QED
  BY <1>2, <1>3, <1>4, WaitingEnds DEF IInv

-----------------------------------------------------------------------------
(***************************************************************************)
(* The broker's own publisher, closing, and the server.                    *)
(***************************************************************************)
\* Steps that only make or drop the broker's publisher.
LEMMA SharedPreserves ==
    ASSUME IInv, UNCHANGED <<cache, heard, status, ask, channel, listens, waiting>>,
           shared' \in Pool \cup {None}, made' \subseteq Pool
    PROVE  IInv'
<1>1. TypeOK'
  BY DEF IInv, TypeOK, Broker!TypeOK
<1>2. HandedOutAreUsed' /\ ListensAreHeard' /\ CachedAreHeard' /\ PublishersWaitToo'
  BY DEF IInv, HandedOutAreUsed, ListensAreHeard, CachedAreHeard, PublishersWaitToo
<1>3. NewAreFresh'
  BY DEF IInv, NewAreFresh
<1>4. QED
  BY <1>1, <1>2, <1>3 DEF IInv

LEMMA DropIsTyped ==
    ASSUME IInv, NEW P
    PROVE  Drop(P) \in Pool \cup {None}
BY DEF Drop, IInv, TypeOK

LEMMA MakeSharedPreserves ==
    ASSUME IInv, NEW p \in Pool, MakeShared(p)
    PROVE  IInv'
<1>1. /\ UNCHANGED <<cache, heard, status, ask, channel, listens, waiting>>
      /\ shared' \in Pool \cup {None} /\ made' \subseteq Pool
  BY DEF MakeShared, brokerVars, IInv, TypeOK
<1>2. QED
  BY <1>1, SharedPreserves

LEMMA ClosePublisherPreserves ==
    ASSUME IInv, NEW p \in Pool \cup Publishers, ClosePublisher(p)
    PROVE  IInv'
<1>1. /\ UNCHANGED <<cache, heard, status, ask, channel, listens, waiting>>
      /\ shared' \in Pool \cup {None} /\ made' \subseteq Pool
  BY DropIsTyped DEF ClosePublisher, brokerVars, IInv, TypeOK
<1>2. QED
  BY <1>1, SharedPreserves

\* Steps in which only channels that nobody has yet begin or open, or channels
\* that are open are told to close.
LEMMA StatusPreserves ==
    ASSUME IInv, status' \in [Chans -> Broker!Live \cup {"unused", "opening", "closed"}],
           \A h \in Chans : \/ status'[h] = status[h]
                            \/ status'[h] \in Broker!Live /\ status[h] \in Broker!Live
                            \/ status[h] \notin Used /\ status'[h] # "unused",
           ask' \in [Calls -> Broker!AskRecord],
           \A a \in Calls : ask'[a] # ask[a] => status[ask'[a].chan] = "unused" /\ ask'[a].chan \in Chans
                                                /\ status'[ask'[a].chan] # "unused",
           \A a, b \in Calls : ask'[a] # ask[a] /\ ask'[b] # ask[b] => a = b,
           shared' \in Pool \cup {None},
           UNCHANGED <<cache, heard, channel, listens, waiting, made>>
    PROVE  IInv'
<1>1. TypeOK'
  BY DEF IInv, TypeOK, Broker!TypeOK
<1>2. \A h \in Chans : status[h] \in Used =>
         status'[h] \in Used /\ (status'[h] \in Broker!Live <=> status[h] \in Broker!Live)
  BY DEF Used, Broker!Live
<1>3. HandedOutAreUsed'
  BY <1>2 DEF IInv, TypeOK, Broker!TypeOK, HandedOutAreUsed
<1>4. CachedAreHeard'
  BY <1>2 DEF IInv, TypeOK, Broker!TypeOK, HandedOutAreUsed, CachedAreHeard
<1>5. ListensAreHeard' /\ PublishersWaitToo'
  BY DEF IInv, ListensAreHeard, PublishersWaitToo
<1>6. NewAreFresh'
  <2>1. \A a \in Calls : ask[a].chan # None => ask[a].chan \in Chans /\ status[ask[a].chan] # "unused"
    BY DEF IInv, TypeOK, Broker!TypeOK, Broker!AskRecord, NewAreFresh
  <2>2. \A h \in Chans : status[h] # "unused" => status'[h] # "unused"
    BY DEF Used, Broker!Live
  <2>3. ASSUME NEW a \in Calls, ask'[a] = ask[a], ask[a].chan # None
        PROVE  /\ status'[ask'[a].chan] # "unused" /\ ask'[a].chan \notin heard'
               /\ \A p \in Clients : channel'[p] # ask'[a].chan
               /\ \A k \in Broker!Kinds : cache'[k] # ask'[a].chan
               /\ \A b \in Calls \ {a} : ask'[b].chan # ask'[a].chan
    BY <2>1, <2>2, <2>3 DEF IInv, NewAreFresh
  <2>4. ASSUME NEW a \in Calls, ask'[a] # ask[a]
        PROVE  /\ status'[ask'[a].chan] # "unused" /\ ask'[a].chan \notin heard'
               /\ \A p \in Clients : channel'[p] # ask'[a].chan
               /\ \A k \in Broker!Kinds : cache'[k] # ask'[a].chan
               /\ \A b \in Calls \ {a} : ask'[b].chan # ask'[a].chan
    <3>1. ask'[a].chan # None /\ status[ask'[a].chan] \notin Used /\ status'[ask'[a].chan] # "unused"
      BY <2>4, NoneAssumption DEF Used, Broker!Live
    <3>2. \A b \in Calls \ {a} : ask'[b] = ask[b] /\ ask[b].chan # ask'[a].chan
      BY <2>1, <2>4, <3>1
    <3>3. QED
      BY <3>1, <3>2 DEF IInv, HandedOutAreUsed
  <2>5. QED
    BY <2>3, <2>4 DEF NewAreFresh
<1>7. QED
  BY <1>1, <1>3, <1>4, <1>5, <1>6 DEF IInv

LEMMA CloseBrokerPreserves ==
    ASSUME IInv, NEW H \in SUBSET Chans, CloseBroker(H)
    PROVE  IInv'
<1>1. /\ status' \in [Chans -> Broker!Live \cup {"unused", "opening", "closed"}]
      /\ \A h \in Chans : \/ status'[h] = status[h]
                          \/ status'[h] \in Broker!Live /\ status[h] \in Broker!Live
  BY DEF CloseBroker, Broker!TellToClose, Broker!Live, IInv, TypeOK, Broker!TypeOK
<1>2. ask' \in [Calls -> Broker!AskRecord] /\ \A a \in Calls : ask'[a] = ask[a]
  BY DEF CloseBroker, Broker!TellToClose, IInv, TypeOK, Broker!TypeOK
<1>3. UNCHANGED <<cache, heard, channel, listens, waiting, made>> /\ shared' \in Pool \cup {None}
  BY DropIsTyped DEF CloseBroker, Broker!TellToClose
<1>4. QED
  BY <1>1, <1>2, <1>3, StatusPreserves

LEMMA ChannelOpensPreserves ==
    ASSUME IInv, NEW a \in Calls, NEW h \in Chans, ChannelOpens(a, h)
    PROVE  IInv'
<1>1. UNCHANGED <<cache, heard, channel, listens, waiting, shared, made>>
      /\ shared' \in Pool \cup {None}
  BY DEF ChannelOpens, Broker!Begin, Broker!Opened, clientVars, IInv, TypeOK
<1>2. CASE Broker!Begin(a, h)
  <2>1. /\ status' \in [Chans -> Broker!Live \cup {"unused", "opening", "closed"}]
        /\ status[h] = "unused" /\ status'[h] = "opening"
        /\ \A g \in Chans : g # h => status'[g] = status[g]
    BY <1>2 DEF Broker!Begin, IInv, TypeOK, Broker!TypeOK
  <2>2. /\ ask' \in [Calls -> Broker!AskRecord] /\ ask'[a].chan = h
        /\ \A b \in Calls : b # a => ask'[b] = ask[b]
    <3>1. ask \in [Calls -> Broker!AskRecord]
      BY DEF IInv, TypeOK, Broker!TypeOK
    <3>2. PICK f : f = [ask[a] EXCEPT !.chan = h]
      OBVIOUS
    <3>3. f \in Broker!AskRecord /\ f.chan = h
      BY <3>1, <3>2 DEF Broker!AskRecord
    <3>4. ask' = [ask EXCEPT ![a] = f]
      BY <1>2, <3>2 DEF Broker!Begin
    <3>5. QED
      BY <3>1, <3>3, <3>4
  <2>3. \A g \in Chans : \/ status'[g] = status[g]
                         \/ status[g] \notin Used /\ status'[g] # "unused"
    BY <2>1 DEF Used, Broker!Live
  <2>4. \A b \in Calls : ask'[b] # ask[b] => status[ask'[b].chan] = "unused" /\ ask'[b].chan \in Chans
                                             /\ status'[ask'[b].chan] # "unused"
    BY <2>1, <2>2
  <2>5. QED
    BY <1>1, <2>1, <2>2, <2>3, <2>4, StatusPreserves
<1>3. CASE Broker!Opened(h)
  <2>1. /\ status' \in [Chans -> Broker!Live \cup {"unused", "opening", "closed"}]
        /\ status[h] = "opening" /\ status'[h] = "open"
        /\ \A g \in Chans : g # h => status'[g] = status[g]
    BY <1>3 DEF Broker!Opened, Broker!Live, IInv, TypeOK, Broker!TypeOK
  <2>2. ask' \in [Calls -> Broker!AskRecord] /\ \A b \in Calls : ask'[b] = ask[b]
    BY <1>3 DEF Broker!Opened, IInv, TypeOK, Broker!TypeOK
  <2>3. \A g \in Chans : \/ status'[g] = status[g]
                         \/ status[g] \notin Used /\ status'[g] # "unused"
    BY <2>1 DEF Used, Broker!Live
  <2>4. QED
    BY <1>1, <2>1, <2>2, <2>3, StatusPreserves
<1>4. QED
  BY <1>2, <1>3 DEF ChannelOpens

LEMMA ChannelsClosePreserves ==
    ASSUME IInv, NEW H \in SUBSET Chans, ChannelsClose(H)
    PROVE  IInv'
<1>1. /\ status' \in [Chans -> Broker!Live \cup {"unused", "opening", "closed"}]
      /\ \A h \in H : status'[h] = "closed" /\ status[h] \in Broker!Live \cup {"opening"}
      /\ \A h \in Chans \ H : status'[h] = status[h]
  BY DEF ChannelsClose, Broker!Close, IInv, TypeOK, Broker!TypeOK
<1>2. /\ cache' \in [Broker!Kinds -> Chans \cup {None}]
      /\ \A k \in Broker!Kinds : cache'[k] = IF cache[k] \in H \cap heard THEN None ELSE cache[k]
  BY DEF ChannelsClose, Broker!Close, IInv, TypeOK, Broker!TypeOK
<1>3. /\ ask' \in [Calls -> Broker!AskRecord]
      /\ \A a \in Calls : ask'[a] = ask[a] \/ ask'[a].chan = None
  BY DEF ChannelsClose, Broker!Close, Broker!NoAsk, Broker!AskRecord, IInv, TypeOK, Broker!TypeOK
<1>4. /\ channel' \in [Clients -> Chans \cup {None}]
      /\ \A p \in Clients : channel'[p] = IF channel[p] \in H \cap listens[p] THEN None ELSE channel[p]
  BY DEF ChannelsClose, Evicted, IInv, TypeOK
<1>5. /\ waiting' \in [Calls -> SUBSET Clients]
      /\ \A a \in Calls : waiting'[a] \in {waiting[a], {}}
  BY DEF ChannelsClose, IInv, TypeOK
<1>6. UNCHANGED <<heard, listens, made>> /\ shared' \in Pool \cup {None}
  BY DropIsTyped DEF ChannelsClose, Broker!Close
<1>7. None \notin Chans
  BY NoneAssumption
<1>8. TypeOK'
  BY <1>1, <1>2, <1>3, <1>4, <1>5, <1>6 DEF IInv, TypeOK, Broker!TypeOK
<1>9. HandedOutAreUsed'
  <2>1. \A h \in Chans : status[h] \in Used => status'[h] \in Used
    BY <1>1 DEF Used
  <2>2. QED
    BY <1>2, <1>4, <1>6, <2>1 DEF IInv, TypeOK, Broker!TypeOK, HandedOutAreUsed
<1>10. NewAreFresh'
  <2>1. ASSUME NEW a \in Calls, ask'[a].chan # None
        PROVE  /\ status'[ask'[a].chan] # "unused" /\ ask'[a].chan \notin heard'
               /\ \A p \in Clients : channel'[p] # ask'[a].chan
               /\ \A k \in Broker!Kinds : cache'[k] # ask'[a].chan
               /\ \A b \in Calls \ {a} : ask'[b].chan # ask'[a].chan
    <3>1. ask'[a] = ask[a] /\ ask[a].chan \in Chans
      BY <1>3, <2>1 DEF IInv, TypeOK, Broker!TypeOK, Broker!AskRecord
    <3>2. status'[ask[a].chan] # "unused"
      BY <1>1, <2>1, <3>1 DEF IInv, NewAreFresh
    <3>3. /\ \A p \in Clients : channel'[p] # ask[a].chan
          /\ \A k \in Broker!Kinds : cache'[k] # ask[a].chan
      BY <1>2, <1>4, <1>7, <2>1, <3>1 DEF IInv, NewAreFresh
    <3>4. \A b \in Calls \ {a} : ask'[b].chan # ask[a].chan
      BY <1>3, <2>1, <3>1 DEF IInv, NewAreFresh
    <3>5. QED
      BY <1>6, <2>1, <3>1, <3>2, <3>3, <3>4 DEF IInv, NewAreFresh
  <2>2. QED
    BY <2>1 DEF NewAreFresh
<1>11. CachedAreHeard'
  <2>1. ASSUME NEW p \in Clients, channel'[p] # None
        PROVE  /\ channel'[p] \in heard' <=> status'[channel'[p]] \in Broker!Live
               /\ channel'[p] \in heard' => channel'[p] \in listens'[p]
    <3>1. channel'[p] = channel[p] /\ channel[p] \in Chans /\ channel[p] \notin H \cap listens[p]
      BY <1>4, <2>1 DEF IInv, TypeOK
    <3>2. CASE channel[p] \in H
      <4>1. channel[p] \notin heard
        BY <2>1, <3>1, <3>2 DEF IInv, CachedAreHeard
      <4>2. QED
        BY <1>1, <1>6, <3>1, <3>2, <4>1 DEF Broker!Live
    <3>3. CASE channel[p] \notin H
      BY <1>1, <1>6, <2>1, <3>1, <3>3 DEF IInv, CachedAreHeard
    <3>4. QED
      BY <3>2, <3>3
  <2>2. ASSUME NEW k \in Broker!Kinds, cache'[k] # None
        PROVE  cache'[k] \in heard' <=> status'[cache'[k]] \in Broker!Live
    <3>1. cache'[k] = cache[k] /\ cache[k] \in Chans /\ cache[k] \notin H \cap heard
      BY <1>2, <2>2 DEF IInv, TypeOK, Broker!TypeOK
    <3>2. CASE cache[k] \in H
      BY <1>1, <1>6, <3>1, <3>2 DEF Broker!Live
    <3>3. CASE cache[k] \notin H
      BY <1>1, <1>6, <2>2, <3>1, <3>3 DEF IInv, CachedAreHeard
    <3>4. QED
      BY <3>2, <3>3
  <2>3. QED
    BY <2>1, <2>2 DEF CachedAreHeard
<1>12. ListensAreHeard' /\ PublishersWaitToo'
  BY <1>5, <1>6, WaitingEnds DEF IInv, ListensAreHeard
<1>13. QED
  BY <1>8, <1>9, <1>10, <1>11, <1>12 DEF IInv

-----------------------------------------------------------------------------
(***************************************************************************)
(* The invariant holds in every reachable state.                           *)
(***************************************************************************)
LEMMA NextPreserves == IInv /\ [Next]_vars => IInv'
<1> SUFFICES ASSUME IInv, [Next]_vars
             PROVE  IInv'
  OBVIOUS
<1>1. ASSUME NEW p \in Clients, GetCached(p) \/ \E a \in Calls : GetNew(a, p)
      PROVE  IInv'
  BY <1>1, GetCachedPreserves, GetNewPreserves
<1>2. ASSUME NEW p \in Pool, MakeShared(p)
      PROVE  IInv'
  BY <1>2, MakeSharedPreserves
<1>3. ASSUME NEW p \in Pool \cup Publishers, ClosePublisher(p)
      PROVE  IInv'
  BY <1>3, ClosePublisherPreserves
<1>4. ASSUME NEW a \in Calls, Handed(a) \/ Failed(a)
      PROVE  IInv'
  BY <1>4, HandedPreserves, FailedPreserves
<1>5. ASSUME NEW a \in Calls, NEW k \in Broker!Kinds, AskBroker(a, k)
      PROVE  IInv'
  BY <1>5, AskBrokerPreserves
<1>6. ASSUME NEW a \in Calls, NEW h \in Chans, ChannelOpens(a, h)
      PROVE  IInv'
  BY <1>6, ChannelOpensPreserves
<1>7. ASSUME NEW H \in SUBSET Chans, CloseBroker(H) \/ ChannelsClose(H)
      PROVE  IInv'
  BY <1>7, CloseBrokerPreserves, ChannelsClosePreserves
<1>8. CASE UNCHANGED vars
  <2>1. /\ UNCHANGED <<cache, heard, status, ask, channel, listens, waiting>>
        /\ shared' \in Pool \cup {None} /\ made' \subseteq Pool
    BY <1>8 DEF vars, brokerVars, clientVars, IInv, TypeOK
  <2>2. QED
    BY <2>1, SharedPreserves
<1>9. QED
  BY <1>1, <1>2, <1>3, <1>4, <1>5, <1>6, <1>7, <1>8 DEF Next

THEOREM Invariance == Spec => []IInv
BY InitEstablishes, NextPreserves, PTL DEF Spec

-----------------------------------------------------------------------------
(***************************************************************************)
(* The theorems.                                                           *)
(***************************************************************************)
\* Every variable of the clients and of their broker keeps its type.
THEOREM TypeCorrect == Spec => []TypeOK
BY Invariance, PTL DEF IInv

\* No client, and not the broker, keeps a channel that it heard close.
THEOREM CachesCorrect == Spec => []CachesAreLive
<1>1. IInv => CachesAreLive
  <2> SUFFICES ASSUME IInv
               PROVE  CachesAreLive
    OBVIOUS
  <2>1. ASSUME NEW p \in Clients, channel[p] \in listens[p]
        PROVE  status[channel[p]] \in Broker!Live
    BY <2>1, NoneAssumption DEF IInv, TypeOK, Broker!TypeOK, ListensAreHeard, CachedAreHeard
  <2>2. ASSUME NEW k \in Broker!Kinds, cache[k] \in heard
        PROVE  status[cache[k]] \in Broker!Live
    BY <2>2, NoneAssumption DEF IInv, TypeOK, Broker!TypeOK, CachedAreHeard
  <2>3. QED
    BY <2>1, <2>2 DEF CachesAreLive
<1>2. QED
  BY Invariance, <1>1, PTL

\* A client that gets a channel in this step: one that is alive, or new to it.
LEMMA AdoptedIsAlive ==
    ASSUME IInv, NEW W \in SUBSET Clients, NEW h \in Chans, Adopt(W, h),
           h \in heard => status[h] \in Broker!Live,
           NEW p \in Clients, channel'[p] \in listens[p] \ {channel[p]}
    PROVE  status[channel'[p]] # "closed"
<1>1. p \in W /\ channel'[p] = h
  BY DEF Adopt
<1>2. h \in heard
  BY <1>1 DEF IInv, ListensAreHeard
<1>3. QED
  BY <1>1, <1>2 DEF Broker!Live

\* No client is handed a channel that it has heard close.
THEOREM HandsOutTheLiving == Spec => NeverHandedTheDead
<1> DEFINE Good == \A p \in Clients : channel'[p] \in listens[p] \ {channel[p]} =>
                                         status[channel'[p]] # "closed"
<1>1. ASSUME IInv, [Next]_vars
      PROVE  Good
  <2>1. ASSUME NEW p \in Clients, GetCached(p)
        PROVE  Good
    <3>1. /\ Chain(p) \in SUBSET Clients /\ Cached(p) \in Chans
          /\ Cached(p) \in heard => status[Cached(p)] \in Broker!Live
          /\ Adopt(Chain(p), Cached(p))
      BY <1>1, <2>1, AskerIsAClient, CachedIsSound DEF GetCached, Chain
    <3>2. QED
      BY <1>1, <3>1, AdoptedIsAlive
  <2>2. ASSUME NEW a \in Calls, Handed(a)
        PROVE  Good
    <3>1. /\ waiting[a] \in SUBSET Clients /\ ask[a].chan \in Chans
          /\ ask[a].chan \notin heard /\ Adopt(waiting[a], ask[a].chan)
      BY <1>1, <2>2 DEF IInv, TypeOK, Broker!TypeOK, Broker!AskRecord, NewAreFresh, Handed, Broker!Hand
    <3>2. QED
      BY <1>1, <3>1, AdoptedIsAlive
  <2>3. ASSUME NEW H \in SUBSET Chans, ChannelsClose(H)
        PROVE  Good
    <3>1. \A p \in Clients : channel'[p] \in {channel[p], None}
      BY <2>3 DEF ChannelsClose, Evicted
    <3>2. \A p \in Clients : None \notin listens[p]
      BY <1>1, NoneAssumption DEF IInv, TypeOK
    <3>3. QED
      BY <3>1, <3>2
  <2>4. CASE UNCHANGED channel
    BY <2>4
  <2>5. QED
    BY <1>1, <2>1, <2>2, <2>3, <2>4
       DEF Next, GetNew, MakeShared, ClosePublisher, Failed, AskBroker, ChannelOpens, CloseBroker,
           clientVars, vars
<1>2. IInv /\ [Next]_vars => [Good]_vars
  BY <1>1
<1> HIDE DEF Good
<1>3. Spec => [][Good]_vars
  BY Invariance, <1>2, PTL DEF Spec
<1>4. QED
  BY <1>3 DEF NeverHandedTheDead, Good

\* The broker lets go of its publisher only when that publisher is closed or a
\* channel it listens to closes.
THEOREM PublisherIsKept == Spec => SharedIsKept
<1>1. ASSUME IInv, [Next]_vars, shared # None, shared' # shared
      PROVE  /\ shared' = None
             /\ \/ channel[shared] # None /\ (ClosePublisher(shared) \/ \E H \in SUBSET Chans : CloseBroker(H))
                \/ \E h \in listens[shared] : status'[h] # status[h] /\ status'[h] = "closed"
  <2>1. \A P : shared' = Drop(P) => shared \in P /\ shared' = None
    BY <1>1 DEF Drop
  <2>2. ASSUME NEW p \in Pool \cup Publishers, ClosePublisher(p)
        PROVE  shared' = None /\ channel[shared] # None /\ ClosePublisher(shared)
    <3>1. shared' = Drop({p}) /\ channel[p] # None
      BY <2>2 DEF ClosePublisher
    <3>2. shared = p /\ shared' = None
      BY <2>1, <3>1
    <3>3. QED
      BY <2>2, <3>1, <3>2
  <2>3. ASSUME NEW H \in SUBSET Chans, CloseBroker(H)
        PROVE  shared' = None /\ channel[shared] # None
    <3>1. shared' = Drop(Emits({shared} \ {None}))
      BY <2>3 DEF CloseBroker
    <3>2. shared \in Emits({shared} \ {None}) /\ shared' = None
      BY <2>1, <3>1
    <3>3. QED
      BY <3>2 DEF Emits
  <2>4. ASSUME NEW H \in SUBSET Chans, ChannelsClose(H)
        PROVE  shared' = None /\ \E h \in listens[shared] : status'[h] # status[h] /\ status'[h] = "closed"
    <3>1. shared \in Hears(H) /\ shared' = None
      BY <2>1, <2>4 DEF ChannelsClose
    <3>2. PICK h \in H : h \in listens[shared]
      BY <3>1 DEF Hears
    <3>3. status'[h] = "closed" /\ status[h] \in Broker!Live \cup {"opening"}
      BY <2>4 DEF ChannelsClose, Broker!Close
    <3>4. QED
      BY <3>1, <3>2, <3>3 DEF Broker!Live
  <2>5. QED
    BY <1>1, <2>2, <2>3, <2>4
       DEF Next, GetCached, GetNew, MakeShared, Handed, Failed, AskBroker, ChannelOpens,
           clientVars, vars
<1> DEFINE Kept == shared # None /\ shared' # shared =>
                     /\ shared' = None
                     /\ \/ channel[shared] # None
                           /\ (ClosePublisher(shared) \/ \E H \in SUBSET Chans : CloseBroker(H))
                        \/ \E h \in listens[shared] : status'[h] # status[h] /\ status'[h] = "closed"
<1>2. IInv /\ [Next]_vars => [Kept]_vars
  BY <1>1
<1> HIDE DEF Kept
<1>3. Spec => [][Kept]_vars
  BY Invariance, <1>2, PTL DEF Spec
<1>4. QED
  BY <1>3 DEF SharedIsKept, Kept

\* Closing channels part no consumer from its publisher: either both hear it or none.
LEMMA ClosingKeepsShared ==
    ASSUME IInv, NEW H \in SUBSET Chans, ChannelsClose(H),
           NEW p \in Consumers, PublisherOf[p] # None, SharesChannel(p)
    PROVE  SharesChannel(p)'
<1>1. PICK q : q = PublisherOf[p]
  OBVIOUS
<1>2. p \in Clients /\ q \in Clients
  BY <1>1, ClientsAssumption DEF Clients
<1>3. /\ channel'[p] = IF channel[p] \in H \cap listens[p] THEN None ELSE channel[p]
      /\ channel'[q] = IF channel[q] \in H \cap listens[q] THEN None ELSE channel[q]
  BY <1>2 DEF ChannelsClose, Evicted
<1>4. channel[p] # None /\ channel[p] \in listens[q] => channel[p] \in listens[p]
  BY <1>2 DEF IInv, ListensAreHeard, CachedAreHeard
<1>5. QED
  BY <1>1, <1>3, <1>4 DEF SharesChannel

\* Nor does a call that finds a channel cached.
LEMMA CachedKeepsShared ==
    ASSUME IInv, NEW r \in Clients, GetCached(r),
           NEW p \in Consumers, PublisherOf[p] # None, SharesChannel(p)
    PROVE  SharesChannel(p)'
<1>1. PICK q : q = PublisherOf[p]
  OBVIOUS
<1>2. p \in Clients /\ q \in Clients /\ q \notin Consumers /\ p # q
  BY <1>1, ClientsAssumption DEF Clients
<1>3. /\ channel'[p] = IF p \in Chain(r) THEN Cached(r) ELSE channel[p]
      /\ channel'[q] = IF q \in Chain(r) THEN Cached(r) ELSE channel[q]
  BY <1>2 DEF GetCached, Adopt
<1>4. CASE p \in Chain(r)
  <2>1. r = p /\ Asker(r) = q
    BY <1>1, <1>2, <1>4, ClientsAssumption DEF Chain, Asker, Parent
  <2>2. CASE channel[q] = None
    BY <1>1, <1>3, <1>4, <2>1, <2>2, <1>2 DEF SharesChannel, Chain
  <2>3. CASE channel[q] # None
    BY <1>1, <1>3, <1>4, <2>1, <2>3 DEF SharesChannel, Chain, Cached
  <2>4. QED
    BY <2>2, <2>3
<1>5. CASE p \notin Chain(r)
  BY <1>1, <1>3, <1>5 DEF SharesChannel, Chain
<1>6. QED
  BY <1>4, <1>5

\* A consumer parts from its publisher only in the step in which a call that the
\* publisher waits in gets its channel.
THEOREM PartsOnlyByOverlap == Spec => DivergesOnlyByOverlap
<1>1. ASSUME IInv, [Next]_vars, NEW p \in Consumers, PublisherOf[p] # None,
             SharesChannel(p), ~SharesChannel(p)'
      PROVE  \E a \in Calls : PublisherOf[p] \in waiting[a] /\ waiting'[a] = {}
  <2>1. ASSUME NEW a \in Calls, Handed(a)
        PROVE  PublisherOf[p] \in waiting[a] /\ waiting'[a] = {}
    <3>1. waiting'[a] = {}
      BY <1>1, <2>1 DEF Handed, IInv, TypeOK
    <3>2. /\ p \in Clients /\ PublisherOf[p] \in Clients
          /\ channel'[p] = IF p \in waiting[a] THEN ask[a].chan ELSE channel[p]
          /\ channel'[PublisherOf[p]] =
                IF PublisherOf[p] \in waiting[a] THEN ask[a].chan ELSE channel[PublisherOf[p]]
      BY <1>1, <2>1, ClientsAssumption DEF Handed, Adopt, Clients
    <3>3. CASE PublisherOf[p] \notin waiting[a]
      <4>1. p \notin waiting[a]
        BY <1>1, <3>3 DEF IInv, PublishersWaitToo
      <4>2. QED
        BY <1>1, <3>2, <3>3, <4>1 DEF SharesChannel
    <3>4. QED
      BY <3>1, <3>3
  <2>2. ASSUME NEW r \in Clients, GetCached(r)
        PROVE  FALSE
    BY <1>1, <2>2, CachedKeepsShared
  <2>3. ASSUME NEW H \in SUBSET Chans, ChannelsClose(H)
        PROVE  FALSE
    BY <1>1, <2>3, ClosingKeepsShared
  <2>4. CASE UNCHANGED channel
    BY <1>1, <2>4 DEF SharesChannel
  <2>5. QED
    BY <1>1, <2>1, <2>2, <2>3, <2>4
       DEF Next, GetNew, MakeShared, ClosePublisher, Failed, AskBroker, ChannelOpens, CloseBroker,
           clientVars, vars
<1> DEFINE Parts == \A p \in Consumers : PublisherOf[p] # None /\ SharesChannel(p) /\ ~SharesChannel(p)' =>
                      \E a \in Calls : PublisherOf[p] \in waiting[a] /\ waiting'[a] = {}
<1>2. IInv /\ [Next]_vars => [Parts]_vars
  BY <1>1
<1> HIDE DEF Parts
<1>3. Spec => [][Parts]_vars
  BY Invariance, <1>2, PTL DEF Spec
<1>4. QED
  BY <1>3 DEF DivergesOnlyByOverlap, Parts
=============================================================================
