--------------------------- MODULE PublishPipeline ---------------------------
(***************************************************************************)
(* What publishes say and what consumers hear: the middleware of           *)
(* src/src/publisher-middleware.ts, the reply() of src/src/message.ts, the *)
(* copies that publish() of src/src/publisher.ts sends, and the middleware *)
(* of src/src/consumer-middleware.ts.                                      *)
(*                                                                         *)
(* The middleware runs in one step, at the call.  The copies go out later, *)
(* one after another, with other calls between them, and each takes its    *)
(* properties from the options object as it is then.  Callers may share    *)
(* options objects, and copies of these share their headers object.        *)
(***************************************************************************)
EXTENDS Naturals, Sequences, SequencesExt

CONSTANTS Calls,       \* the calls of publish()
          Objs,        \* options objects that callers own, and may share
          Plain,       \* calls on a publisher without the default middleware
          Persisting,  \* calls on one that uses persistentMessages too
          Encodings,   \* what options.contentEncoding may list
          Copies,      \* destinations of a call
          None

ASSUME NoneAssumption == None \notin Calls \cup Objs \cup {"text", "json"}
ASSUME DistinctAssumption == Calls \cap Objs = {}
ASSUME CopiesAssumption == Copies \in Nat \ {0}
ASSUME EncodingsAssumption == <<>> \in Encodings /\ Encodings \subseteq Seq(STRING)

VARIABLES opt,   \* the options objects: the callers', and one made by each call
          crc,   \* 'x-crc32' in the headers objects, named after who made them
          call,  \* the activation record of every call
          sent,  \* the copies that each call has sent
          mates  \* history: the calls whose use of the same options may disturb it

vars == <<opt, crc, call, sent, mates>>

-----------------------------------------------------------------------------
\* A content: whose it is, in which form, and compressed how.  A checksum is the
\* content that it sums up.
Buffers == {"buffer", "text", "json"}
Forms == Buffers \cup {"string", "object", "thrown"}
Content == [from : Calls, form : Forms, layers : Seq(STRING)]
Options == [type : {None, "text", "json"}, encoding : Encodings, head : Objs \cup Calls \cup {None},
            corr : Calls \cup {None}, persistent : BOOLEAN]
Frame == [at : {"idle", "sending", "done"}, kind : {"string", "object", "buffer"},
            obj : Objs \cup {None}, replies : BOOLEAN, content : Content \cup {None},
            ref : Objs \cup Calls \cup {None}]
Wire == [content : Content, type : {None, "text", "json"}, encoding : Encodings,
            crc : Content \cup {None}, corr : Calls \cup {None}, persistent : BOOLEAN]

Blank == [type |-> None, encoding |-> <<>>, head |-> None, corr |-> None, persistent |-> FALSE]
Idle == [at |-> "idle", kind |-> "buffer", obj |-> None, replies |-> FALSE,
          content |-> None, ref |-> None]

TypeOK ==
    /\ opt \in [Objs \cup Calls -> Options]
    /\ crc \in [Objs \cup Calls -> Content \cup {None}]
    /\ call \in [Calls -> Frame]
    /\ sent \in [Calls -> Seq(Wire)]
    /\ mates \in [Calls -> SUBSET Calls]

\* Callers may or may not have set a content type and encoding, and headers.
Init ==
    /\ \E t \in [Objs -> {None, "text", "json"}], e \in [Objs -> Encodings], h \in [Objs -> BOOLEAN] :
          opt = [x \in Objs \cup Calls |->
                    IF x \in Calls THEN Blank
                    ELSE [Blank EXCEPT !.type = t[x], !.encoding = e[x],
                                       !.head = IF h[x] THEN x ELSE None]]
    /\ crc = [x \in Objs \cup Calls |-> None]
    /\ call = [c \in Calls |-> Idle]
    /\ sent = [c \in Calls |-> <<>>]
    /\ mates = [c \in Calls |-> {}]

-----------------------------------------------------------------------------
(***************************************************************************)
(* The publisher's middleware.  An op has a content and a reference to its *)
(* options, and stands for the heap too: the options and headers objects.  *)
(***************************************************************************)
IsBuffer(content) == content.form \in Buffers
OptionsOf(op) == IF op.ref = None THEN Blank ELSE op.opt[op.ref]

\* options || {}
Present(c, op) == IF op.ref # None THEN op ELSE [op EXCEPT !.ref = c, !.opt[c] = Blank]

\* Object.assign({}, options, { contentType }): a copy, with the same headers object.
Typed(c, op, type) ==
    IF OptionsOf(op).type = type THEN op
    ELSE [op EXCEPT !.ref = c, !.opt[c] = [OptionsOf(op) EXCEPT !.type = type]]

EncodeStringMisspelt(c, op) ==
    IF op.content.form # "string" THEN op ELSE Typed(c, [op EXCEPT !.content.form = "text"], "test")
EncodeString(c, op) ==
    IF op.content.form # "string" THEN op ELSE Typed(c, [op EXCEPT !.content.form = "text"], "text")

EncodeObject(c, op) ==
    IF op.content.form # "object" THEN op ELSE Typed(c, [op EXCEPT !.content.form = "json"], "json")

Known == {"gzip", "deflate", "identity"}
Compressed(content, e) ==
    IF e = "identity" THEN content ELSE [content EXCEPT !.layers = Append(@, e)]
EncodeReversed(op) ==
    [op EXCEPT !.content = FoldLeft(Compressed, @, Reverse(OptionsOf(op).encoding))]
ContentEncoding(op) ==
    LET encoding == OptionsOf(op).encoding IN
    IF \E i \in DOMAIN encoding : encoding[i] \notin Known THEN [op EXCEPT !.content.form = "thrown"]
    ELSE [op EXCEPT !.content = FoldLeft(Compressed, @, encoding)]

\* The checksum goes into the headers object, whoever owns it, or into a new one
\* that is added to the options object, whoever owns that.
Crc32IfAbsent(c, op) ==
    LET o == Present(c, op)  head == o.opt[o.ref].head IN
    IF head = None THEN [o EXCEPT !.opt[o.ref].head = c, !.crc[c] = op.content] ELSE o
Crc32(c, op) ==
    LET o == Present(c, op)  head == o.opt[o.ref].head IN
    IF head = None THEN [o EXCEPT !.opt[o.ref].head = c, !.crc[c] = op.content]
    ELSE [o EXCEPT !.crc[head] = op.content]

PersistentMessagesIfPresent(c, op) == IF op.ref = None THEN op ELSE [op EXCEPT !.opt[op.ref].persistent = TRUE]
PersistentMessages(c, op) == LET o == Present(c, op) IN [o EXCEPT !.opt[o.ref].persistent = TRUE]

Default(c, op) ==
    LET e == ContentEncoding(EncodeObject(c, EncodeString(c, op))) IN
    IF e.content.form = "thrown" THEN e ELSE Crc32(c, e)

Pipeline(c, op) ==
    LET o == IF c \in Plain THEN EncodeString(c, op) ELSE Default(c, op) IN
    IF c \in Persisting /\ o.content.form # "thrown" THEN PersistentMessages(c, o) ELSE o

\* reply(): Object.assign(options || {}, { correlationId }).
Correlate(c, op) == LET o == Present(c, op) IN [o EXCEPT !.opt[o.ref].corr = c]

-----------------------------------------------------------------------------
(***************************************************************************)
(* publish() and reply()                                                   *)
(***************************************************************************)
UsesOf(o) == {d \in Calls : o # None /\ ~(call[d].at = "idle") /\ call[d].obj = o}

Publish(c, kind, o, replies) ==
    LET op0 == [content |-> [from |-> c, form |-> kind, layers |-> <<>>],
                ref |-> o, opt |-> opt, crc |-> crc]
        op == Pipeline(c, IF replies THEN Correlate(c, op0) ELSE op0) IN
    /\ call[c].at = "idle"
    /\ opt' = op.opt /\ crc' = op.crc
    /\ call' = [call EXCEPT ![c] = [at |-> IF IsBuffer(op.content) THEN "sending" ELSE "done",
                                    kind |-> kind, obj |-> o, replies |-> replies,
                                    content |-> op.content, ref |-> op.ref]]
    /\ mates' = [d \in Calls |-> IF d = c THEN (IF c \in Plain THEN UsesOf(o) ELSE {})
                                 ELSE IF d \in UsesOf(o) THEN mates[d] \cup {c} ELSE mates[d]]
    /\ UNCHANGED sent

\* ch.publish(...): the frame is written here.  What is no Buffer it throws back;
\* that call is "done" at once.
Copy(c) ==
    LET options == IF call[c].ref = None THEN Blank ELSE opt[call[c].ref] IN
    [content |-> call[c].content, type |-> options.type, encoding |-> options.encoding,
     crc |-> IF options.head = None THEN None ELSE crc[options.head],
     corr |-> options.corr, persistent |-> options.persistent]

Send(c) ==
    /\ call[c].at = "sending"
    /\ sent' = [sent EXCEPT ![c] = Append(@, Copy(c))]
    /\ call' = [call EXCEPT ![c].at = IF Len(sent[c]) + 1 = Copies THEN "done" ELSE @]
    /\ UNCHANGED <<opt, crc, mates>>

Next ==
    \E c \in Calls :
        \/ \E kind \in {"string", "object", "buffer"}, o \in Objs \cup {None}, replies \in BOOLEAN :
              Publish(c, kind, o, replies)
        \/ Send(c)

Spec == Init /\ [][Next]_vars

-----------------------------------------------------------------------------
(***************************************************************************)
(* The consumer's middleware: what a message is to the application.        *)
(***************************************************************************)
Rejected(content) == content.form = "thrown"
Reject(content) == [content EXCEPT !.form = "thrown"]

\* Takes off what encoding e has put on; gunzip and inflate throw at anything else.
Uncompressed(content, e) ==
    IF Rejected(content) \/ e = "identity" THEN content
    ELSE IF content.layers # <<>> /\ Last(content.layers) = e THEN [content EXCEPT !.layers = Front(@)]
    ELSE Reject(content)

ConsumerCrc32Check(m) ==
    IF m.crc # None /\ m.crc # m.content THEN Reject(m.content) ELSE m.content

\* From the last encoding to the first, and back to the original content at the
\* first that is not known: unless one of those before it throws.
ConsumerContentDecoding(m, content) ==
    LET n     == Len(m.encoding)
        stops == {i \in 1..n : m.encoding[i] \notin Known}
        first == IF stops = {} THEN 0 ELSE CHOOSE i \in stops : \A j \in stops : j <= i
        tried == Reverse(SubSeq(m.encoding, first + 1, n))
        done  == FoldLeft(Uncompressed, content, tried)
    IN IF stops = {} \/ Rejected(done) THEN done ELSE content

\* Bytes that nobody made JSON of do not parse; compressed bytes are no text.
ConsumerDecodeObject(m, content) ==
    IF m.type # "json" THEN content
    ELSE IF content.form = "json" /\ content.layers = <<>> THEN [content EXCEPT !.form = "object"]
    ELSE Reject(content)

ConsumerDecodeString(m, content) ==
    IF IsBuffer(content) /\ m.type = "text" THEN [content EXCEPT !.form = "string"] ELSE content

ConsumeMiddleware(m) ==
    LET checked == ConsumerCrc32Check(m)
        decoded == ConsumerContentDecoding(m, checked)
        object  == ConsumerDecodeObject(m, decoded) IN
    IF Rejected(checked) \/ Rejected(decoded) THEN Reject(m.content)
    ELSE ConsumerDecodeString(m, object)

-----------------------------------------------------------------------------
(***************************************************************************)
(* Properties                                                              *)
(***************************************************************************)
Sent(c) == {sent[c][i] : i \in DOMAIN sent[c]}

\* A call that other uses of its options may reach: it sends from an options or
\* a headers object that it did not make itself.
Exposed(c) ==
    /\ mates[c] # {}
    /\ call[c].ref # c \/ opt[c].head # c

\* The message as it was published.  A Buffer is taken as it is, so callers that
\* give one a content type say themselves what it is.
Faithful(c) ==
    \A m \in Sent(c) :
        \/ call[c].kind = "buffer" /\ m.type # None
        \/ c \in Plain /\ m.encoding # <<>>
        \/ ConsumeMiddleware(m) = [from |-> c, form |-> call[c].kind, layers |-> <<>>]

\* Whatever is published, compressed and interleaved arrives as what was published,
\* unless another call has used the same options meanwhile and this one has not
\* made an options and a headers object of its own.
RoundTrip == \A c \in Calls : ~Exposed(c) => Faithful(c)

\* The same of the checksum alone: every copy carries that of its own content.
ChecksumIsOwn ==
    \A c \in Calls : ~Exposed(c) => \A m \in Sent(c) : m.crc \in {None, m.content}

\* A reply carries the correlation of the message it answers, and a message of a
\* publisher that persists its messages is persistent, under the same condition.
AddressedRightly ==
    \A c \in Calls : ~Exposed(c) =>
        \A m \in Sent(c) : /\ call[c].replies => m.corr = c
                           /\ c \in Persisting => m.persistent

\* What src/src/publisher.spec.ts calls "sends what is published".
SendsWhatIsPublished == \A c \in Calls : Faithful(c)
=============================================================================
