---------------------------- MODULE PipelineProofs ----------------------------
(***************************************************************************)
(* Why what is published is what is heard, for any number of calls,        *)
(* options objects, encodings and copies.  One argument is about sharing:  *)
(* checksums, correlations and persistence are each call's own.  Another   *)
(* is about contents: what the consumer's middleware makes of one is what  *)
(* the publisher's middleware was given, as each undoes the other's steps. *)
(***************************************************************************)
EXTENDS PublishPipeline, FoldProofs

X == Objs \cup Calls

IsOp(op) ==
    /\ op = [content |-> op.content, ref |-> op.ref, opt |-> op.opt, crc |-> op.crc]
    /\ op.ref \in X \cup {None}
    /\ op.opt \in [X -> Options]
    /\ op.crc = [x \in X |-> op.crc[x]]

\* What a stage of the middleware that has no part in checksums may do to op0: use
\* other options, of its own, with the same headers.
Keeps(c, op0, op) ==
    /\ IsOp(op)
    /\ op.ref \in {op0.ref, c}
    /\ \A x \in X \ {c, op0.ref} : op.opt[x] = op0.opt[x]
    /\ \A x \in X \ {c} : op.opt[x].head = op0.opt[x].head
    /\ op.opt[c].head \in {op0.opt[c].head, OptionsOf(op0).head}
    /\ OptionsOf(op).head = OptionsOf(op0).head
    /\ OptionsOf(op).encoding = OptionsOf(op0).encoding
    /\ op.crc = op0.crc

\* Nor does it change whom the message answers.
Alike(c, op0, op) ==
    /\ Keeps(c, op0, op)
    /\ op0.ref # None => op.ref # None
    /\ OptionsOf(op).corr = OptionsOf(op0).corr

\* It may leave the content and the content type as they are.
Same(op0, op) == op.content = op0.content /\ OptionsOf(op).type = OptionsOf(op0).type

LEMMA BlankIsOptions == Blank \in Options /\ Blank.head = None /\ Blank.corr = None
BY EncodingsAssumption DEF Blank, Options

LEMMA AlikeSelf ==
    ASSUME NEW c \in Calls, NEW op, IsOp(op)
    PROVE  Alike(c, op, op)
BY DEF Alike, Keeps

LEMMA AlikeTransitive ==
    ASSUME NEW c \in Calls, NEW op0, NEW op1, NEW op2,
           Alike(c, op0, op1), Alike(c, op1, op2)
    PROVE  Alike(c, op0, op2)
BY DEF Alike, Keeps

LEMMA PresentEffect ==
    ASSUME NEW c \in Calls, NEW op, IsOp(op)
    PROVE  /\ Alike(c, op, Present(c, op)) /\ Present(c, op).ref # None
           /\ Same(op, Present(c, op))
<1>1. CASE op.ref # None
  BY <1>1, AlikeSelf DEF Present, Same
<1>2. CASE op.ref = None
  <2>1. PICK o : o = Present(c, op)
    OBVIOUS
  <2>2. o = [op EXCEPT !.ref = c, !.opt[c] = Blank]
    BY <1>2, <2>1 DEF Present
  <2>3. o = [content |-> op.content, ref |-> c, opt |-> [op.opt EXCEPT ![c] = Blank], crc |-> op.crc]
    BY <2>2 DEF IsOp
  <2>4. /\ o.opt \in [X -> Options] /\ o.opt[c] = Blank /\ c \in X /\ c # None
        /\ \A x \in X \ {c} : o.opt[x] = op.opt[x]
    BY <2>3, BlankIsOptions, NoneAssumption DEF IsOp, X
  <2>5. IsOp(o)
    BY <2>3, <2>4 DEF IsOp
  <2>6. OptionsOf(o) = Blank /\ OptionsOf(op) = Blank
    BY <1>2, <2>3, <2>4 DEF OptionsOf
  <2>7. QED
    BY <1>2, <2>1, <2>3, <2>4, <2>5, <2>6, BlankIsOptions DEF Alike, Keeps, Same
<1>3. QED
  BY <1>1, <1>2

LEMMA TypedEffect ==
    ASSUME NEW c \in Calls, NEW op, IsOp(op), NEW type \in {None, "text", "json"}
    PROVE  /\ Alike(c, op, Typed(c, op, type))
           /\ Typed(c, op, type).content = op.content
           /\ OptionsOf(Typed(c, op, type)).type = type
<1>1. CASE OptionsOf(op).type = type
  BY <1>1, AlikeSelf DEF Typed
<1>2. CASE OptionsOf(op).type # type
  <2>1. PICK o : o = Typed(c, op, type)
    OBVIOUS
  <2>2. PICK d : d = [OptionsOf(op) EXCEPT !.type = type]
    OBVIOUS
  <2>3. o = [op EXCEPT !.ref = c, !.opt[c] = d]
    BY <1>2, <2>1, <2>2 DEF Typed
  <2>4. o = [content |-> op.content, ref |-> c, opt |-> [op.opt EXCEPT ![c] = d], crc |-> op.crc]
    BY <2>3 DEF IsOp
  <2>5. OptionsOf(op) \in Options
    BY BlankIsOptions DEF IsOp, OptionsOf
  <2>6. /\ d \in Options /\ d.head = OptionsOf(op).head /\ d.corr = OptionsOf(op).corr
        /\ d.encoding = OptionsOf(op).encoding /\ d.type = type
    BY <2>2, <2>5 DEF Options
  <2>7. /\ o.opt \in [X -> Options] /\ o.opt[c] = d /\ c \in X /\ c # None
        /\ \A x \in X \ {c} : o.opt[x] = op.opt[x]
    BY <2>4, <2>6, NoneAssumption DEF IsOp, X
  <2>8. IsOp(o) /\ OptionsOf(o) = d
    BY <2>4, <2>7 DEF IsOp, OptionsOf
  <2>9. QED
    BY <2>1, <2>4, <2>6, <2>7, <2>8 DEF Alike, Keeps
<1>3. QED
  BY <1>1, <1>2

\* What the stages make of contents.
OfString(content) == IF content.form = "string" THEN [content EXCEPT !.form = "text"] ELSE content
OfObject(content) == IF content.form = "object" THEN [content EXCEPT !.form = "json"] ELSE content
Encoded(content, encoding) ==
    IF \E i \in DOMAIN encoding : encoding[i] \notin Known THEN [content EXCEPT !.form = "thrown"]
    ELSE FoldLeft(Compressed, content, encoding)

\* A stage may put any content in the place of the one it was given.
LEMMA ContentEffect ==
    ASSUME NEW c \in Calls, NEW op, IsOp(op), NEW new
    PROVE  /\ Alike(c, op, [op EXCEPT !.content = new])
           /\ [op EXCEPT !.content = new].content = new
           /\ OptionsOf([op EXCEPT !.content = new]).type = OptionsOf(op).type
<1>1. PICK o : o = [op EXCEPT !.content = new]
  OBVIOUS
<1>2. o = [content |-> new, ref |-> op.ref, opt |-> op.opt, crc |-> op.crc]
  BY <1>1 DEF IsOp
<1>3. IsOp(o) /\ OptionsOf(o) = OptionsOf(op)
  BY <1>2 DEF IsOp, OptionsOf
<1>4. QED
  BY <1>1, <1>2, <1>3 DEF Alike, Keeps

LEMMA EncodeStringEffect ==
    ASSUME NEW c \in Calls, NEW op, IsOp(op)
    PROVE  /\ Alike(c, op, EncodeString(c, op))
           /\ EncodeString(c, op).content = OfString(op.content)
           /\ OptionsOf(EncodeString(c, op)).type =
                 IF op.content.form = "string" THEN "text" ELSE OptionsOf(op).type
<1>1. CASE op.content.form # "string"
  BY <1>1, AlikeSelf DEF EncodeString, OfString
<1>2. CASE op.content.form = "string"
  <2>1. PICK new : new = OfString(op.content)
    OBVIOUS
  <2>2. PICK o : o = [op EXCEPT !.content = new]
    OBVIOUS
  <2>3. new = [op.content EXCEPT !.form = "text"]
    BY <1>2, <2>1 DEF OfString
  <2>4. o = [op EXCEPT !.content.form = "text"]
    BY <2>2, <2>3
  <2>5. EncodeString(c, op) = Typed(c, o, "text")
    BY <1>2, <2>4 DEF EncodeString
  <2>6. Alike(c, op, o) /\ o.content = new
    BY <2>2, ContentEffect
  <2>7. PICK r : r = Typed(c, o, "text")
    OBVIOUS
  <2>8. Alike(c, o, r) /\ r.content = new /\ OptionsOf(r).type = "text"
    BY <2>6, <2>7, TypedEffect DEF Alike, Keeps
  <2>9. Alike(c, op, r)
    BY <2>6, <2>8, AlikeTransitive
  <2>10. QED
    BY <1>2, <2>1, <2>5, <2>7, <2>8, <2>9
<1>3. QED
  BY <1>1, <1>2

LEMMA EncodeObjectEffect ==
    ASSUME NEW c \in Calls, NEW op, IsOp(op)
    PROVE  /\ Alike(c, op, EncodeObject(c, op))
           /\ EncodeObject(c, op).content = OfObject(op.content)
           /\ OptionsOf(EncodeObject(c, op)).type =
                 IF op.content.form = "object" THEN "json" ELSE OptionsOf(op).type
<1>1. CASE op.content.form # "object"
  BY <1>1, AlikeSelf DEF EncodeObject, OfObject
<1>2. CASE op.content.form = "object"
  <2>1. PICK new : new = OfObject(op.content)
    OBVIOUS
  <2>2. PICK o : o = [op EXCEPT !.content = new]
    OBVIOUS
  <2>3. new = [op.content EXCEPT !.form = "json"]
    BY <1>2, <2>1 DEF OfObject
  <2>4. o = [op EXCEPT !.content.form = "json"]
    BY <2>2, <2>3
  <2>5. EncodeObject(c, op) = Typed(c, o, "json")
    BY <1>2, <2>4 DEF EncodeObject
  <2>6. Alike(c, op, o) /\ o.content = new
    BY <2>2, ContentEffect
  <2>7. PICK r : r = Typed(c, o, "json")
    OBVIOUS
  <2>8. Alike(c, o, r) /\ r.content = new /\ OptionsOf(r).type = "json"
    BY <2>6, <2>7, TypedEffect DEF Alike, Keeps
  <2>9. Alike(c, op, r)
    BY <2>6, <2>8, AlikeTransitive
  <2>10. QED
    BY <1>2, <2>1, <2>5, <2>7, <2>8, <2>9
<1>3. QED
  BY <1>1, <1>2

LEMMA ContentEncodingEffect ==
    ASSUME NEW c \in Calls, NEW op, IsOp(op)
    PROVE  /\ Alike(c, op, ContentEncoding(op))
           /\ ContentEncoding(op).content = Encoded(op.content, OptionsOf(op).encoding)
           /\ OptionsOf(ContentEncoding(op)).type = OptionsOf(op).type
<1>1. PICK new : new = Encoded(op.content, OptionsOf(op).encoding)
  OBVIOUS
<1>2. PICK o : o = [op EXCEPT !.content = new]
  OBVIOUS
<1>3. ContentEncoding(op) = o
  BY <1>1, <1>2, Zenon DEF ContentEncoding, Encoded
<1>4. QED
  BY <1>1, <1>2, <1>3, ContentEffect

-----------------------------------------------------------------------------
(***************************************************************************)
(* The stages that do change something, and all of them together.          *)
(***************************************************************************)
\* Changing one field of the options that an op uses.
LEMMA SetEffect ==
    ASSUME NEW c \in Calls, NEW op, IsOp(op), op.ref # None,
           NEW d \in Options, d.head = OptionsOf(op).head, d.encoding = OptionsOf(op).encoding,
           NEW o, o = [op EXCEPT !.opt[op.ref] = d]
    PROVE  /\ Keeps(c, op, o) /\ o.ref = op.ref /\ OptionsOf(o) = d /\ o.content = op.content
<1>1. o = [content |-> op.content, ref |-> op.ref, opt |-> [op.opt EXCEPT ![op.ref] = d], crc |-> op.crc]
  BY DEF IsOp
<1>2. /\ o.opt \in [X -> Options] /\ o.opt[op.ref] = d
      /\ \A x \in X \ {op.ref} : o.opt[x] = op.opt[x]
  BY <1>1 DEF IsOp
<1>3. IsOp(o) /\ OptionsOf(o) = d
  BY <1>1, <1>2 DEF IsOp, OptionsOf
<1>4. \A x \in X : o.opt[x].head = op.opt[x].head
  BY <1>2 DEF OptionsOf
<1>5. QED
  BY <1>1, <1>2, <1>3, <1>4 DEF Keeps, X

LEMMA CorrelateEffect ==
    ASSUME NEW c \in Calls, NEW op, IsOp(op)
    PROVE  /\ Keeps(c, op, Correlate(c, op)) /\ Correlate(c, op).ref # None
           /\ OptionsOf(Correlate(c, op)).corr = c
           /\ Same(op, Correlate(c, op))
<1>1. PICK o : o = Present(c, op)
  OBVIOUS
<1>2. PICK d : d = [OptionsOf(o) EXCEPT !.corr = c]
  OBVIOUS
<1>3. PICK r : r = [o EXCEPT !.opt[o.ref] = d]
  OBVIOUS
<1>4. Alike(c, op, o) /\ o.ref # None /\ IsOp(o) /\ Same(op, o)
  BY <1>1, PresentEffect DEF Alike, Keeps
<1>5. OptionsOf(o) \in Options /\ OptionsOf(o) = o.opt[o.ref]
  BY <1>4 DEF OptionsOf, IsOp
<1>6. /\ d \in Options /\ d.head = OptionsOf(o).head /\ d.corr = c
      /\ d.encoding = OptionsOf(o).encoding /\ d.type = OptionsOf(o).type
  BY <1>2, <1>5 DEF Options
<1>7. Keeps(c, o, r) /\ r.ref = o.ref /\ OptionsOf(r) = d /\ r.content = o.content
  BY <1>3, <1>4, <1>6, SetEffect
<1>8. Correlate(c, op) = r
  BY <1>1, <1>2, <1>3, <1>5 DEF Correlate
<1>9. Same(op, r)
  BY <1>4, <1>6, <1>7 DEF Same
<1>10. QED
  BY <1>4, <1>6, <1>7, <1>8, <1>9 DEF Alike, Keeps

LEMMA PersistentMessagesEffect ==
    ASSUME NEW c \in Calls, NEW op, IsOp(op)
    PROVE  /\ Alike(c, op, PersistentMessages(c, op))
           /\ PersistentMessages(c, op).ref # None
           /\ op.ref # None => PersistentMessages(c, op).ref = op.ref
           /\ Same(op, PersistentMessages(c, op))
           /\ OptionsOf(PersistentMessages(c, op)).persistent
<1>1. PICK o : o = Present(c, op)
  OBVIOUS
<1>2. PICK d : d = [OptionsOf(o) EXCEPT !.persistent = TRUE]
  OBVIOUS
<1>3. PICK r : r = [o EXCEPT !.opt[o.ref] = d]
  OBVIOUS
<1>4. /\ Alike(c, op, o) /\ o.ref # None /\ IsOp(o) /\ Same(op, o)
      /\ op.ref # None => o.ref = op.ref
  <2>1. op.ref # None => o = op
    BY <1>1 DEF Present
  <2>2. QED
    BY <1>1, <2>1, PresentEffect DEF Alike, Keeps
<1>5. OptionsOf(o) \in Options /\ OptionsOf(o) = o.opt[o.ref]
  BY <1>4 DEF OptionsOf, IsOp
<1>6. /\ d \in Options /\ d.head = OptionsOf(o).head /\ d.corr = OptionsOf(o).corr /\ d.persistent
      /\ d.encoding = OptionsOf(o).encoding /\ d.type = OptionsOf(o).type
  BY <1>2, <1>5 DEF Options
<1>7. Keeps(c, o, r) /\ r.ref = o.ref /\ OptionsOf(r) = d /\ r.content = o.content
  BY <1>3, <1>4, <1>6, SetEffect
<1>8. PersistentMessages(c, op) = r
  BY <1>1, <1>2, <1>3, <1>5 DEF PersistentMessages
<1>9. Alike(c, o, r)
  BY <1>4, <1>6, <1>7 DEF Alike
<1>10. Same(op, r)
  BY <1>4, <1>6, <1>7 DEF Same
<1>11. QED
  BY <1>4, <1>6, <1>7, <1>8, <1>9, <1>10, AlikeTransitive

\* The middleware as a whole, from op0: it writes to options and headers of its own
\* and to those it was given, and no other; only to the options it was given does it
\* add its own headers, and then uses them.
Does(c, op0, op) ==
    /\ IsOp(op)
    /\ op.ref \in {op0.ref, c}
    /\ op0.ref # None => op.ref # None
    /\ \A x \in X \ {c, op0.ref} : op.opt[x] = op0.opt[x]
    /\ OptionsOf(op).corr = OptionsOf(op0).corr
    /\ \A x \in X \ {c} : \/ op.opt[x].head = op0.opt[x].head
                          \/ op.opt[x].head = c /\ op.ref = x /\ op0.opt[x].head = None
    /\ op.opt[c].head \in {op0.opt[c].head, OptionsOf(op0).head, c}
    /\ \A x \in X \ {c, OptionsOf(op0).head} : op.crc[x] = op0.crc[x]
    /\ \A x \in X : op.crc[x] \in {op0.crc[x], op.content}
    /\ OptionsOf(op).encoding = OptionsOf(op0).encoding

\* The op carries the checksum of its own content.
SumsUp(op) ==
    /\ op.ref # None /\ OptionsOf(op).head # None
    /\ op.crc[OptionsOf(op).head] = op.content

LEMMA AlikeDoes ==
    ASSUME NEW c \in Calls, NEW op0, NEW op, Alike(c, op0, op)
    PROVE  Does(c, op0, op)
BY DEF Alike, Keeps, Does

LEMMA Crc32Effect ==
    ASSUME NEW c \in Calls, NEW op, IsOp(op)
    PROVE  Does(c, op, Crc32(c, op)) /\ SumsUp(Crc32(c, op)) /\ Same(op, Crc32(c, op))
<1>1. PICK o : o = Present(c, op)
  OBVIOUS
<1>2. /\ Alike(c, op, o) /\ o.ref # None /\ IsOp(o) /\ o.content = op.content
      /\ OptionsOf(o).type = OptionsOf(op).type
  BY <1>1, PresentEffect DEF Alike, Keeps, Same
<1>3. PICK d : d = OptionsOf(o)
  OBVIOUS
<1>4. d \in Options /\ d = o.opt[o.ref] /\ d.head \in X \cup {None} /\ c \in X /\ c # None
      /\ o.ref \in X
  BY <1>2, <1>3, NoneAssumption DEF OptionsOf, IsOp, Options, X
<1>5. PICK r : r = Crc32(c, op)
  OBVIOUS
<1>6. CASE d.head # None
  <2>1. r = [o EXCEPT !.crc[d.head] = op.content]
    BY <1>1, <1>4, <1>5, <1>6 DEF Crc32
  <2>2. r = [content |-> o.content, ref |-> o.ref, opt |-> o.opt,
             crc |-> [o.crc EXCEPT ![d.head] = op.content]]
    BY <1>2, <2>1 DEF IsOp
  <2>3. /\ r.crc = [x \in X |-> r.crc[x]] /\ r.crc[d.head] = op.content
        /\ \A x \in X \ {d.head} : r.crc[x] = o.crc[x]
    BY <1>2, <1>4, <1>6, <2>2 DEF IsOp
  <2>4. IsOp(r) /\ OptionsOf(r) = d
    BY <1>2, <1>3, <2>2, <2>3 DEF IsOp, OptionsOf
  <2>5. SumsUp(r)
    BY <1>2, <1>6, <2>2, <2>3, <2>4 DEF SumsUp
  <2>6. Does(c, op, r)
    BY <1>2, <1>3, <2>2, <2>3, <2>4 DEF Alike, Keeps, Does
  <2>7. Same(op, r)
    BY <1>2, <1>3, <2>2, <2>4 DEF Same
  <2>8. QED
    BY <1>5, <2>5, <2>6, <2>7
<1>7. CASE d.head = None
  <2>1. PICK e : e = [d EXCEPT !.head = c]
    OBVIOUS
  <2>2. /\ e \in Options /\ e.head = c /\ e.corr = d.corr
        /\ e.encoding = d.encoding /\ e.type = d.type
    BY <1>4, <2>1 DEF Options
  <2>3. r = [o EXCEPT !.opt[o.ref] = e, !.crc[c] = op.content]
    BY <1>1, <1>4, <1>5, <1>7, <2>1 DEF Crc32
  <2>4. r = [content |-> o.content, ref |-> o.ref, opt |-> [o.opt EXCEPT ![o.ref] = e],
             crc |-> [o.crc EXCEPT ![c] = op.content]]
    BY <1>2, <2>3 DEF IsOp
  <2>5. /\ r.crc = [x \in X |-> r.crc[x]] /\ r.crc[c] = op.content
        /\ \A x \in X \ {c} : r.crc[x] = o.crc[x]
    BY <1>2, <1>4, <2>4 DEF IsOp
  <2>6. /\ r.opt \in [X -> Options] /\ r.opt[o.ref] = e
        /\ \A x \in X \ {o.ref} : r.opt[x] = o.opt[x]
    BY <1>2, <1>4, <2>2, <2>4 DEF IsOp
  <2>7. IsOp(r) /\ OptionsOf(r) = e
    BY <1>2, <2>4, <2>5, <2>6 DEF IsOp, OptionsOf
  <2>8. SumsUp(r)
    BY <1>2, <1>4, <2>2, <2>4, <2>5, <2>7 DEF SumsUp
  <2>9. Does(c, op, r)
    <3>1. /\ r.ref \in {op.ref, c}
          /\ op.ref # None => r.ref # None
          /\ \A x \in X \ {c, op.ref} : r.opt[x] = op.opt[x]
          /\ \A x \in X \ {c} : r.crc[x] = op.crc[x]
          /\ r.crc[c] = r.content
      BY <1>2, <2>4, <2>5, <2>6 DEF Alike, Keeps
    <3>2. OptionsOf(r).corr = OptionsOf(op).corr /\ OptionsOf(r).encoding = OptionsOf(op).encoding
      BY <1>2, <1>3, <2>2, <2>7 DEF Alike, Keeps
    <3>3. \A x \in X \ {c} : \/ r.opt[x].head = op.opt[x].head
                             \/ r.opt[x].head = c /\ r.ref = x /\ op.opt[x].head = None
      BY <1>2, <1>4, <1>7, <2>2, <2>4, <2>6 DEF Alike, Keeps
    <3>4. r.opt[c].head \in {op.opt[c].head, OptionsOf(op).head, c}
      BY <1>2, <1>4, <2>2, <2>6 DEF Alike, Keeps
    <3>5. QED
      BY <2>7, <3>1, <3>2, <3>3, <3>4 DEF Does
  <2>10. Same(op, r)
    BY <1>2, <1>3, <2>2, <2>4, <2>7 DEF Same
  <2>11. QED
    BY <1>5, <2>8, <2>9, <2>10
<1>8. QED
  BY <1>6, <1>7

LEMMA AlikeThenDoes ==
    ASSUME NEW c \in Calls, NEW op0, NEW op1, NEW op2, Alike(c, op0, op1), Does(c, op1, op2)
    PROVE  Does(c, op0, op2)
BY DEF Alike, Keeps, Does

\* The content of a call before the middleware, and its form after it.
Kinds == {"string", "object", "buffer"}
Base(c, form) == [from |-> c, form |-> form, layers |-> <<>>]
FormOf(kind) == IF kind = "string" THEN "text" ELSE IF kind = "object" THEN "json" ELSE kind

LEMMA BaseEncoded ==
    ASSUME NEW c \in Calls, NEW kind \in Kinds
    PROVE  /\ OfObject(OfString(Base(c, kind))) = Base(c, FormOf(kind))
           /\ OfString(Base(c, kind)) = Base(c, IF kind = "string" THEN "text" ELSE kind)
           /\ Base(c, kind).form = kind
<1>1. \A f, g : [Base(c, f) EXCEPT !.form = g] = Base(c, g) /\ Base(c, f).form = f
  BY DEF Base
<1>2. OfString(Base(c, kind)) = Base(c, IF kind = "string" THEN "text" ELSE kind)
  BY <1>1 DEF OfString
<1>3. OfObject(OfString(Base(c, kind))) = Base(c, FormOf(kind))
  <2>1. CASE kind = "string"
    BY <1>1, <1>2, <2>1 DEF OfObject, FormOf
  <2>2. CASE kind # "string"
    BY <1>1, <1>2, <2>2 DEF OfObject, FormOf
  <2>3. QED
    BY <2>1, <2>2
<1>4. QED
  BY <1>1, <1>2, <1>3

LEMMA DefaultEffect ==
    ASSUME NEW c \in Calls, NEW op, IsOp(op), NEW kind \in Kinds, op.content = Base(c, kind)
    PROVE  /\ Does(c, op, Default(c, op))
           /\ Default(c, op).content.form # "thrown" => SumsUp(Default(c, op))
           /\ Default(c, op).content = Encoded(Base(c, FormOf(kind)), OptionsOf(op).encoding)
           /\ kind = "string" => OptionsOf(Default(c, op)).type = "text"
           /\ kind = "object" => OptionsOf(Default(c, op)).type = "json"
<1>1. PICK s : s = EncodeString(c, op)
  OBVIOUS
<1>2. PICK o : o = EncodeObject(c, s)
  OBVIOUS
<1>3. PICK e : e = ContentEncoding(o)
  OBVIOUS
<1>4. Alike(c, op, s) /\ IsOp(s) /\ s.content = OfString(op.content)
  BY <1>1, EncodeStringEffect DEF Alike, Keeps
<1>5. Alike(c, s, o) /\ IsOp(o) /\ o.content = OfObject(s.content)
  BY <1>2, <1>4, EncodeObjectEffect DEF Alike, Keeps
<1>6. Alike(c, o, e) /\ IsOp(e) /\ e.content = Encoded(o.content, OptionsOf(o).encoding)
  BY <1>3, <1>5, ContentEncodingEffect DEF Alike, Keeps
<1>7. Alike(c, op, o)
  BY <1>4, <1>5, AlikeTransitive
<1>8. Alike(c, op, e)
  BY <1>6, <1>7, AlikeTransitive
<1>9. PICK r : r = Default(c, op)
  OBVIOUS
<1>10. r = IF e.content.form = "thrown" THEN e ELSE Crc32(c, e)
  BY <1>1, <1>2, <1>3, <1>9 DEF Default
<1>11. Same(e, r)
  BY <1>6, <1>10, Crc32Effect DEF Same
<1>12. r.content = Encoded(Base(c, FormOf(kind)), OptionsOf(op).encoding)
  <2>1. r.content = Encoded(OfObject(OfString(op.content)), OptionsOf(op).encoding)
    BY <1>4, <1>5, <1>6, <1>7, <1>11 DEF Same, Alike, Keeps
  <2>2. QED
    BY <2>1, BaseEncoded
<1>13. OptionsOf(r).type = OptionsOf(o).type
  BY <1>3, <1>5, <1>11, ContentEncodingEffect DEF Same
<1>14. /\ kind = "string" => OptionsOf(r).type = "text"
       /\ kind = "object" => OptionsOf(r).type = "json"
  <2>1. OptionsOf(s).type = IF op.content.form = "string" THEN "text" ELSE OptionsOf(op).type
    BY <1>1, EncodeStringEffect
  <2>2. OptionsOf(o).type = IF s.content.form = "object" THEN "json" ELSE OptionsOf(s).type
    BY <1>2, <1>4, EncodeObjectEffect
  <2>3. op.content.form = kind /\ s.content = Base(c, IF kind = "string" THEN "text" ELSE kind)
    BY <1>4, BaseEncoded
  <2>4. s.content.form = IF kind = "string" THEN "text" ELSE kind
    BY <2>3 DEF Base
  <2>5. CASE kind = "string"
    BY <1>13, <2>1, <2>2, <2>3, <2>4, <2>5
  <2>6. CASE kind = "object"
    BY <1>13, <2>2, <2>4, <2>6
  <2>7. QED
    BY <2>5, <2>6
<1>15. Does(c, op, r) /\ (r.content.form # "thrown" => SumsUp(r))
  BY <1>6, <1>8, <1>10, Crc32Effect, AlikeDoes, AlikeThenDoes
<1>16. QED
  BY <1>9, <1>12, <1>14, <1>15

\* What the message of a call says, whatever options it is sent with.
Says(c, kind, op) ==
    /\ op.content = IF c \in Plain THEN Base(c, IF kind = "string" THEN "text" ELSE kind)
                    ELSE Encoded(Base(c, FormOf(kind)), OptionsOf(op).encoding)
    /\ kind = "string" => OptionsOf(op).type = "text"
    /\ kind = "object" /\ c \notin Plain => OptionsOf(op).type = "json"

LEMMA SaysTheSame ==
    ASSUME NEW c, NEW kind, NEW o, NEW op, Says(c, kind, o), Same(o, op),
           OptionsOf(op).encoding = OptionsOf(o).encoding
    PROVE  Says(c, kind, op)
BY DEF Says, Same

\* The op after the middleware of its publisher.
LEMMA PipelineEffect ==
    ASSUME NEW c \in Calls, NEW op0, IsOp(op0), NEW op, op = Pipeline(c, op0),
           NEW kind \in Kinds, op0.content = Base(c, kind)
    PROVE  /\ Does(c, op0, op)
           /\ c \in Plain => Keeps(c, op0, op)
           /\ c \notin Plain /\ op.content.form # "thrown" => SumsUp(op)
           /\ c \in Persisting /\ op.content.form # "thrown" => op.ref # None /\ OptionsOf(op).persistent
           /\ Says(c, kind, op)
<1>1. PICK o : o = IF c \in Plain THEN EncodeString(c, op0) ELSE Default(c, op0)
  OBVIOUS
<1>2. /\ Does(c, op0, o)
      /\ c \in Plain => Alike(c, op0, o)
      /\ c \notin Plain /\ o.content.form # "thrown" => SumsUp(o)
      /\ Says(c, kind, o)
  <2>1. CASE c \in Plain
    <3>1. o = EncodeString(c, op0)
      BY <1>1, <2>1
    <3>2. /\ Alike(c, op0, o) /\ o.content = OfString(op0.content)
          /\ OptionsOf(o).type = IF op0.content.form = "string" THEN "text" ELSE OptionsOf(op0).type
      BY <3>1, EncodeStringEffect
    <3>3. o.content = Base(c, IF kind = "string" THEN "text" ELSE kind) /\ op0.content.form = kind
      BY <3>2, BaseEncoded
    <3>4. Says(c, kind, o)
      BY <2>1, <3>2, <3>3 DEF Says
    <3>5. QED
      BY <2>1, <3>2, <3>4, AlikeDoes
  <2>2. CASE c \notin Plain
    <3>1. o = Default(c, op0)
      BY <1>1, <2>2
    <3>2. Does(c, op0, o) /\ (o.content.form # "thrown" => SumsUp(o))
      BY <3>1, DefaultEffect
    <3>3. Says(c, kind, o)
      BY <2>2, <3>1, <3>2, DefaultEffect DEF Says, Does
    <3>4. QED
      BY <2>2, <3>2, <3>3
  <2>3. QED
    BY <2>1, <2>2
<1>3. CASE c \in Persisting /\ o.content.form # "thrown"
  <2>1. op = PersistentMessages(c, o) /\ IsOp(o)
    BY <1>1, <1>2, <1>3 DEF Pipeline, Does
  <2>2. /\ Alike(c, o, op) /\ op.ref # None /\ OptionsOf(op).persistent
        /\ o.ref # None => op.ref = o.ref
        /\ Same(o, op) /\ op.content = o.content
    BY <2>1, PersistentMessagesEffect DEF Same
  <2>3. Does(c, op0, op)
    <3>1. /\ IsOp(op) /\ op.ref \in {op0.ref, c}
          /\ op0.ref # None => op.ref # None
          /\ \A x \in X \ {c, op0.ref} : op.opt[x] = op0.opt[x]
          /\ OptionsOf(op).corr = OptionsOf(op0).corr
      BY <1>2, <2>2 DEF Does, Alike, Keeps
    <3>2. \A x \in X \ {c} : \/ op.opt[x].head = op0.opt[x].head
                             \/ op.opt[x].head = c /\ op.ref = x /\ op0.opt[x].head = None
      BY <1>2, <2>2, NoneAssumption DEF Does, Alike, Keeps, X
    <3>3. OptionsOf(o).head \in {op0.opt[c].head, OptionsOf(op0).head, c}
      <4>1. CASE o.ref = None
        BY <1>2, <4>1, BlankIsOptions DEF Does, OptionsOf
      <4>2. CASE o.ref = c
        BY <1>2, <4>2, NoneAssumption DEF Does, OptionsOf
      <4>3. CASE o.ref # None /\ o.ref # c
        BY <1>2, <4>3, <2>1 DEF Does, OptionsOf, IsOp
      <4>4. QED
        BY <4>1, <4>2, <4>3
    <3>4. op.opt[c].head \in {op0.opt[c].head, OptionsOf(op0).head, c}
      BY <1>2, <2>2, <3>3 DEF Does, Alike, Keeps
    <3>5. /\ \A x \in X \ {c, OptionsOf(op0).head} : op.crc[x] = op0.crc[x]
          /\ \A x \in X : op.crc[x] \in {op0.crc[x], op.content}
          /\ OptionsOf(op).encoding = OptionsOf(op0).encoding
      BY <1>2, <2>2 DEF Does, Alike, Keeps
    <3>6. QED
      BY <3>1, <3>2, <3>4, <3>5 DEF Does
  <2>4. c \in Plain => Keeps(c, op0, op)
    BY <1>2, <2>2, AlikeTransitive DEF Alike
  <2>5. c \notin Plain => SumsUp(op)
    BY <1>2, <1>3, <2>2 DEF SumsUp, Alike, Keeps
  <2>6. Says(c, kind, op)
    BY <1>2, <2>2, SaysTheSame DEF Alike, Keeps
  <2>7. QED
    BY <2>2, <2>3, <2>4, <2>5, <2>6
<1>4. CASE ~(c \in Persisting /\ o.content.form # "thrown")
  <2>1. op = o
    BY <1>1, <1>4 DEF Pipeline
  <2>2. QED
    BY <1>2, <1>4, <2>1 DEF Alike
<1>5. QED
  BY <1>3, <1>4

-----------------------------------------------------------------------------
(***************************************************************************)
(* The inductive invariant.                                                *)
(***************************************************************************)
IsFrame(f) ==
    f = [at |-> f.at, kind |-> f.kind, obj |-> f.obj, replies |-> f.replies,
         content |-> f.content, ref |-> f.ref]

IsSeq(s) == s \in Seq({s[i] : i \in DOMAIN s})

Idles(c) == call[c].at = "idle"

\* The types, as far as the argument needs them.
Shape ==
    /\ opt \in [X -> Options]
    /\ crc = [x \in X |-> crc[x]]
    /\ call = [c \in Calls |-> call[c]]
    /\ \A c \in Calls : IsFrame(call[c]) /\ call[c].ref \in {None, c, call[c].obj}
    /\ \A c \in Calls : call[c].obj \in Objs \cup {None}
    /\ sent = [c \in Calls |-> sent[c]] /\ \A c \in Calls : IsSeq(sent[c])
    /\ mates \in [Calls -> SUBSET Calls]

\* A call that has not begun has left no trace.
IdleAreBlank ==
    \A c \in Calls : Idles(c) => opt[c] = Blank /\ sent[c] = <<>>

\* The headers of a call are in the options x only if it used x as they are.
FromUse(e, x) == e \in Calls /\ ~Idles(e) /\ call[e].obj = x /\ call[e].ref = x

\* The headers in the options of a caller are the caller's, or those of a call that
\* used these options as they are.
GivenHeads == \A x \in Objs : opt[x].head \in {None, x} \/ FromUse(opt[x].head, x)

\* Those in the options that a call made itself are its own, or were in the options
\* that it was given.
OwnHeads ==
    \A c \in Calls : ~Idles(c) =>
        \/ opt[c].head \in {None, c}
        \/ /\ call[c].obj # None
           /\ opt[c].head = call[c].obj \/ FromUse(opt[c].head, call[c].obj)

\* Headers of a caller that no call has used hold no checksum.
UnusedAreClean == \A x \in Objs : UsesOf(x) = {} => crc[x] = None

\* The message says how its content is to be read.
Tells(c, m) ==
    /\ call[c].kind \in Kinds /\ m.encoding \in Encodings
    /\ c \in Plain => m.content = Base(c, FormOf(call[c].kind))
    /\ c \notin Plain => /\ \A i \in DOMAIN m.encoding : m.encoding[i] \in Known
                        /\ m.content = FoldLeft(Compressed, Base(c, FormOf(call[c].kind)), m.encoding)
    /\ call[c].kind = "string" => m.type = "text"
    /\ call[c].kind = "object" => m.type = "json"

Good(c, m) ==
    /\ m.crc \in {None, m.content}
    /\ call[c].replies => m.corr = c
    /\ c \in Persisting => m.persistent
    /\ Tells(c, m)

\* What a call that is not exposed sends next is as good as what it has sent.
SendsWell ==
    \A c \in Calls : ~Exposed(c) =>
        /\ call[c].at = "sending" => Good(c, Copy(c))
        /\ \A m \in Sent(c) : Good(c, m)

PInv == Shape /\ IdleAreBlank /\ GivenHeads /\ OwnHeads /\ UnusedAreClean /\ SendsWell

LEMMA EmptyIsSeq == IsSeq(<<>>)
BY DEF IsSeq

LEMMA InitEstablishes == Init => PInv
<1> SUFFICES ASSUME Init
             PROVE  PInv
  OBVIOUS
<1>1. PICK t \in [Objs -> {None, "text", "json"}], e \in [Objs -> Encodings], h \in [Objs -> BOOLEAN] :
          opt = [x \in X |-> IF x \in Calls THEN Blank
                             ELSE [Blank EXCEPT !.type = t[x], !.encoding = e[x],
                                                !.head = IF h[x] THEN x ELSE None]]
  BY DEF Init, X
<1>2. \A x \in Objs : opt[x] \in Options /\ opt[x].head \in {None, x}
  BY <1>1, DistinctAssumption DEF Blank, Options, X
<1>3. opt \in [X -> Options] /\ \A c \in Calls : opt[c] = Blank
  <2>1. \A c \in Calls : opt[c] = Blank
    BY <1>1 DEF X
  <2>2. \A x \in X : opt[x] \in Options
    BY <1>2, <2>1, BlankIsOptions DEF X
  <2>3. QED
    BY <1>1, <2>1, <2>2
<1>4. \A c \in Calls : call[c] = Idle /\ sent[c] = <<>>
  BY DEF Init
<1>5. Shape
  <2>1. IsFrame(Idle) /\ Idle.ref = None /\ Idle.obj = None
    BY DEF IsFrame, Idle
  <2>2. crc = [x \in X |-> crc[x]] /\ call = [c \in Calls |-> call[c]] /\ sent = [c \in Calls |-> sent[c]]
    BY DEF Init, X
  <2>3. mates \in [Calls -> SUBSET Calls]
    BY DEF Init
  <2>4. QED
    BY <1>3, <1>4, <2>1, <2>2, <2>3, EmptyIsSeq DEF Shape
<1>6. IdleAreBlank /\ GivenHeads /\ OwnHeads
  BY <1>2, <1>3, <1>4 DEF IdleAreBlank, GivenHeads, OwnHeads, Idles, Idle
<1>7. UnusedAreClean
  BY DEF Init, UnusedAreClean
<1>8. SendsWell
  BY <1>4 DEF SendsWell, Sent, Idle
<1>9. QED
  BY <1>5, <1>6, <1>7, <1>8 DEF PInv

-----------------------------------------------------------------------------
(***************************************************************************)
(* publish()                                                               *)
(***************************************************************************)
\* The headers of the options o that a call is given.
HeadOf(o) == IF o = None THEN None ELSE opt[o].head

\* What the copies of a call take from its options.
CopiedOptions(c) == IF call[c].ref = None THEN Blank ELSE opt[call[c].ref]

LEMMA PublishEffect ==
    ASSUME PInv, NEW c \in Calls, NEW kind \in Kinds, NEW o \in Objs \cup {None}, NEW replies \in BOOLEAN,
           Publish(c, kind, o, replies)
    PROVE  /\ opt' \in [X -> Options] /\ crc' = [x \in X |-> crc'[x]]
           /\ call'[c].ref \in {None, c, o}
           /\ \A x \in X \ {c, o} : opt'[x] = opt[x]
           /\ \A x \in X \ {c} : \/ opt'[x].head = opt[x].head
                                 \/ opt'[x].head = c /\ call'[c].ref = x /\ opt[x].head = None
           /\ opt'[c].head \in {None, HeadOf(o), c}
           /\ \A x \in X \ {c, HeadOf(o)} : crc'[x] = crc[x]
           /\ replies => call'[c].ref # None /\ opt'[call'[c].ref].corr = c
           /\ c \in Plain => /\ crc' = crc
                             /\ call'[c].ref # None => opt'[call'[c].ref].head = HeadOf(o)
           /\ call'[c].at = "sending" /\ c \notin Plain =>
                 /\ call'[c].ref # None /\ opt'[call'[c].ref].head # None
                 /\ crc'[opt'[call'[c].ref].head] = call'[c].content
           /\ call'[c].at = "sending" /\ c \in Persisting =>
                 call'[c].ref # None /\ opt'[call'[c].ref].persistent
           /\ \A x \in X : crc'[x] \in {crc[x], call'[c].content}
           /\ \E op : /\ Says(c, kind, op) /\ call'[c].content = op.content
                     /\ OptionsOf(op) = CopiedOptions(c)'
<1>1. PICK op0 : op0 = [content |-> [from |-> c, form |-> kind, layers |-> <<>>],
                        ref |-> o, opt |-> opt, crc |-> crc]
  OBVIOUS
<1>2. PICK op1 : op1 = IF replies THEN Correlate(c, op0) ELSE op0
  OBVIOUS
<1>3. PICK op : op = Pipeline(c, op1)
  OBVIOUS
<1>4. /\ Idles(c) /\ opt' = op.opt /\ crc' = op.crc
      /\ call' = [call EXCEPT ![c] = [at |-> IF IsBuffer(op.content) THEN "sending" ELSE "done",
                                      kind |-> kind, obj |-> o, replies |-> replies,
                                      content |-> op.content, ref |-> op.ref]]
  BY <1>1, <1>2, <1>3 DEF Publish, Idles
<1>5. /\ call'[c].ref = op.ref /\ call'[c].content = op.content
      /\ call'[c].at = "sending" => op.content.form # "thrown"
  BY <1>4 DEF PInv, Shape, IsBuffer, Buffers
<1>6. IsOp(op0)
  BY <1>1 DEF IsOp, PInv, Shape, X
<1>7. /\ OptionsOf(op0).head = HeadOf(o) /\ op0.opt[c].head = None
  BY <1>1, <1>4, BlankIsOptions DEF OptionsOf, HeadOf, PInv, IdleAreBlank
<1>8. /\ Keeps(c, op0, op1) /\ (replies => op1.ref # None /\ OptionsOf(op1).corr = c)
  <2>1. CASE replies
    BY <1>2, <1>6, <2>1, CorrelateEffect
  <2>2. CASE ~replies
    BY <1>2, <1>6, <2>2, AlikeSelf DEF Alike
  <2>3. QED
    BY <2>1, <2>2
<1>9. IsOp(op1) /\ op1.content = Base(c, kind)
  BY <1>1, <1>2, <1>6, <1>8, CorrelateEffect DEF Keeps, Same, Base
<1>10. /\ Does(c, op1, op) /\ Says(c, kind, op)
       /\ c \in Plain => Keeps(c, op1, op)
       /\ c \notin Plain /\ op.content.form # "thrown" => SumsUp(op)
       /\ c \in Persisting /\ op.content.form # "thrown" => op.ref # None /\ OptionsOf(op).persistent
  BY <1>3, <1>9, PipelineEffect
<1>11. op.ref # None => OptionsOf(op) = op.opt[op.ref]
  BY DEF OptionsOf
<1>12. opt' \in [X -> Options] /\ crc' = [x \in X |-> crc'[x]]
  BY <1>4, <1>10 DEF Does, IsOp
<1>13. op.ref \in {None, c, o}
  BY <1>1, <1>8, <1>10 DEF Does, Keeps
<1>14. \A x \in X \ {c, o} : op.opt[x] = opt[x]
  BY <1>1, <1>8, <1>10 DEF Does, Keeps
<1>15. \A x \in X \ {c} : \/ op.opt[x].head = opt[x].head
                          \/ op.opt[x].head = c /\ op.ref = x /\ opt[x].head = None
  BY <1>1, <1>8, <1>10 DEF Does, Keeps
<1>16. op.opt[c].head \in {None, HeadOf(o), c}
  BY <1>7, <1>8, <1>10 DEF Does, Keeps
<1>17. \A x \in X \ {c, HeadOf(o)} : op.crc[x] = crc[x]
  BY <1>1, <1>7, <1>8, <1>10 DEF Does, Keeps
<1>18. replies => op.ref # None /\ op.opt[op.ref].corr = c
  BY <1>8, <1>10, <1>11 DEF Does
<1>19. c \in Plain => op.crc = crc /\ (op.ref # None => op.opt[op.ref].head = HeadOf(o))
  BY <1>1, <1>7, <1>8, <1>10, <1>11 DEF Keeps
<1>20. call'[c].at = "sending" /\ c \notin Plain =>
          /\ op.ref # None /\ op.opt[op.ref].head # None
          /\ op.crc[op.opt[op.ref].head] = op.content
  BY <1>5, <1>10, <1>11 DEF SumsUp
<1>21. call'[c].at = "sending" /\ c \in Persisting => op.ref # None /\ op.opt[op.ref].persistent
  BY <1>5, <1>10, <1>11
<1>22. \A x \in X : op.crc[x] \in {crc[x], op.content}
  BY <1>1, <1>8, <1>10 DEF Does, Keeps
<1>23. OptionsOf(op) = CopiedOptions(c)'
  BY <1>4, <1>5 DEF OptionsOf, CopiedOptions
<1>24. \E p : Says(c, kind, p) /\ call'[c].content = p.content /\ OptionsOf(p) = CopiedOptions(c)'
  BY <1>5, <1>10, <1>23
<1>25. QED
  BY <1>4, <1>5, <1>12, <1>13, <1>14, <1>15, <1>16, <1>17, <1>18, <1>19, <1>20, <1>21, <1>22, <1>24

\* What publish() does to the activation records.
LEMMA PublishFrames ==
    ASSUME PInv, NEW c \in Calls, NEW kind \in Kinds, NEW o \in Objs \cup {None}, NEW replies \in BOOLEAN,
           Publish(c, kind, o, replies)
    PROVE  /\ call' = [d \in Calls |-> call'[d]] /\ IsFrame(call'[c])
           /\ call'[c].at \in {"sending", "done"} /\ call'[c].obj = o
           /\ call'[c].kind = kind /\ call'[c].replies = replies
           /\ call'[c].at = "sending" => IsBuffer(call'[c].content)
           /\ \A d \in Calls \ {c} : call'[d] = call[d]
           /\ mates' \in [Calls -> SUBSET Calls]
           /\ c \in Plain => mates'[c] = UsesOf(o)
           /\ \A d \in Calls \ {c} : mates[d] \subseteq mates'[d] /\ (d \in UsesOf(o) => c \in mates'[d])
           /\ Idles(c) /\ UNCHANGED sent
<1>1. PICK op : call' = [call EXCEPT ![c] = [at |-> IF IsBuffer(op.content) THEN "sending" ELSE "done",
                                             kind |-> kind, obj |-> o, replies |-> replies,
                                             content |-> op.content, ref |-> op.ref]]
  BY DEF Publish
<1>2. call'[c] = [at |-> IF IsBuffer(op.content) THEN "sending" ELSE "done",
                  kind |-> kind, obj |-> o, replies |-> replies,
                  content |-> op.content, ref |-> op.ref]
  BY <1>1 DEF PInv, Shape
<1>3. call' = [d \in Calls |-> call'[d]] /\ \A d \in Calls \ {c} : call'[d] = call[d]
  BY <1>1 DEF PInv, Shape
<1>4. /\ IsFrame(call'[c]) /\ call'[c].at \in {"sending", "done"} /\ call'[c].obj = o
      /\ call'[c].kind = kind /\ call'[c].replies = replies
      /\ call'[c].at = "sending" => IsBuffer(call'[c].content)
  BY <1>2 DEF IsFrame
<1>5. mates' = [d \in Calls |-> IF d = c THEN (IF c \in Plain THEN UsesOf(o) ELSE {})
                                ELSE IF d \in UsesOf(o) THEN mates[d] \cup {c} ELSE mates[d]]
      /\ Idles(c) /\ UNCHANGED sent
  BY DEF Publish, Idles
<1>6. mates' \in [Calls -> SUBSET Calls]
  BY <1>5 DEF UsesOf, PInv, Shape
<1>7. QED
  BY <1>3, <1>4, <1>5, <1>6

\* The headers that the options o hold are no call's that has not begun.
LEMMA HeadIsUsed ==
    ASSUME PInv, NEW o \in Objs \cup {None}
    PROVE  HeadOf(o) = None \/ (o # None /\ (HeadOf(o) = o \/ FromUse(HeadOf(o), o)))
BY DEF PInv, GivenHeads, HeadOf

\* A call that is not exposed after another one has published was not before, and
\* sends what it would have sent before.
LEMMA OthersSendTheSame ==
    ASSUME PInv, NEW c \in Calls, NEW kind \in Kinds, NEW o \in Objs \cup {None}, NEW replies \in BOOLEAN,
           Publish(c, kind, o, replies), NEW d \in Calls \ {c}, ~Idles(d), ~Exposed(d)'
    PROVE  ~Exposed(d) /\ Copy(d)' = Copy(d)
<1>1. /\ \A x \in X \ {c, o} : opt'[x] = opt[x]
      /\ \A x \in X \ {c, HeadOf(o)} : crc'[x] = crc[x]
  BY PublishEffect
<1>2. /\ call'[d] = call[d] /\ Idles(c)
      /\ mates[d] \subseteq mates'[d] /\ (d \in UsesOf(o) => c \in mates'[d])
  <2>1. Idles(c) /\ \A e \in Calls \ {c} : call'[e] = call[e]
    BY PublishFrames
  <2>2. mates[d] \subseteq mates'[d] /\ (d \in UsesOf(o) => c \in mates'[d])
    BY PublishFrames
  <2>3. QED
    BY <2>1, <2>2
<1>3. d # o /\ d \in X /\ d # None /\ opt'[d] = opt[d]
  BY <1>1, DistinctAssumption, NoneAssumption DEF X
<1>4. ~Exposed(d)
  BY <1>2, <1>3 DEF Exposed
<1>5. call[d].ref \in {None, d, call[d].obj} /\ call[d].obj \in Objs \cup {None}
  BY DEF PInv, Shape
<1>6. PICK r : r = call[d].ref
  OBVIOUS
<1>7. r = None \/ (r \in X /\ r # c /\ r # o)
  <2>1. CASE r = d
    BY <1>3, <2>1
  <2>2. CASE r # d /\ r # None
    <3>1. r = call[d].obj /\ r \in Objs
      BY <1>5, <1>6, <2>2
    <3>2. r # o
      BY <1>2, <1>6, <2>2, <3>1, NoneAssumption DEF Exposed, UsesOf, Idles
    <3>3. QED
      BY <3>1, <3>2, DistinctAssumption DEF X
  <2>3. QED
    BY <2>1, <2>2
<1>8. CASE r = None
  BY <1>2, <1>4, <1>6, <1>8, BlankIsOptions DEF Copy
<1>9. CASE r # None
  <2>1. r \in X /\ r # c /\ r # o /\ opt'[r] = opt[r]
    BY <1>1, <1>7, <1>9
  <2>2. PICK h : h = opt[r].head
    OBVIOUS
  <2>3. h \in X \cup {None}
    BY <2>1, <2>2 DEF PInv, Shape, Options, X
  <2>4. ASSUME h # None
        PROVE  crc'[h] = crc[h]
    <3>1. h # c
      BY <1>2, <1>5, <1>6, <2>1, <2>2, <2>4, DistinctAssumption, NoneAssumption
         DEF PInv, GivenHeads, OwnHeads, FromUse, X
    <3>2. ASSUME h = HeadOf(o)
          PROVE  FALSE
      <4>1. o # None /\ (h = o \/ FromUse(h, o))
        BY <2>4, <3>2, HeadIsUsed
      <4>2. CASE r \in Objs
        <5>1. h = r \/ FromUse(h, r)
          BY <2>2, <2>4, <4>2 DEF PInv, GivenHeads
        <5>2. QED
          BY <2>1, <4>1, <4>2, <5>1, DistinctAssumption DEF FromUse
      <4>3. CASE r \notin Objs
        <5>1. r = d
          BY <1>5, <1>6, <1>9, <4>3
        <5>2. h = d \/ (call[d].obj # None /\ (h = call[d].obj \/ FromUse(h, call[d].obj)))
          BY <2>2, <2>4, <5>1 DEF PInv, OwnHeads
        <5>3. CASE h = d
          BY <1>6, <1>3, <4>1, <5>1, <5>3 DEF FromUse
        <5>4. CASE h # d
          <6>1. call[d].obj = o
            BY <1>5, <4>1, <5>2, <5>4, DistinctAssumption DEF FromUse
          <6>2. d \in UsesOf(o)
            BY <4>1, <6>1 DEF UsesOf, Idles
          <6>3. ~(call'[d].ref # d \/ opt'[d].head # d)
            BY <1>2, <6>2 DEF Exposed
          <6>4. QED
            BY <2>1, <2>2, <5>1, <5>4, <6>3
        <5>5. QED
          BY <5>3, <5>4
      <4>4. QED
        BY <4>2, <4>3
    <3>3. QED
      BY <1>1, <2>3, <2>4, <3>1, <3>2
  <2>5. /\ call'[d].ref = r /\ call[d].ref = r /\ call'[d].content = call[d].content
        /\ opt'[r] = opt[r]
        /\ (IF opt[r].head = None THEN None ELSE crc'[opt[r].head]) =
           (IF opt[r].head = None THEN None ELSE crc[opt[r].head])
    BY <1>2, <1>6, <2>1, <2>2, <2>4
  <2>6. QED
    BY <1>4, <1>9, <2>5 DEF Copy
<1>10. QED
  BY <1>4, <1>8, <1>9

\* The copies of a call say what was published.
LEMMA CopyTells ==
    ASSUME PInv, NEW c \in Calls, NEW kind \in Kinds, NEW o \in Objs \cup {None}, NEW replies \in BOOLEAN,
           Publish(c, kind, o, replies), call'[c].at = "sending"
    PROVE  Tells(c, Copy(c))'
<1>1. PICK op : Says(c, kind, op) /\ call'[c].content = op.content /\ OptionsOf(op) = CopiedOptions(c)'
  BY PublishEffect
<1>2. call'[c].kind = kind /\ IsBuffer(op.content)
  BY <1>1, PublishFrames
<1>3. PICK m : m = Copy(c)'
  OBVIOUS
<1>4. /\ m.content = op.content
      /\ m.encoding = OptionsOf(op).encoding /\ m.type = OptionsOf(op).type
  BY <1>1, <1>3 DEF Copy, CopiedOptions
<1>5. m.encoding \in Encodings
  <2>1. opt' \in [X -> Options] /\ call'[c].ref \in {None, c, o}
    BY PublishEffect
  <2>2. CopiedOptions(c)' \in Options
    BY <2>1, BlankIsOptions DEF CopiedOptions, X
  <2>3. QED
    BY <1>1, <1>4, <2>2 DEF Options
<1>6. c \in Plain => m.content = Base(c, FormOf(kind)) /\ kind # "object"
  <2>1. HAVE c \in Plain
  <2>2. op.content = Base(c, IF kind = "string" THEN "text" ELSE kind)
    BY <1>1, <2>1 DEF Says
  <2>3. kind # "object"
    BY <1>2, <2>2 DEF IsBuffer, Buffers, Base
  <2>4. QED
    BY <1>4, <2>2, <2>3 DEF FormOf
<1>7. c \notin Plain => /\ \A i \in DOMAIN m.encoding : m.encoding[i] \in Known
                      /\ m.content = FoldLeft(Compressed, Base(c, FormOf(kind)), m.encoding)
  <2>1. HAVE c \notin Plain
  <2>2. op.content = Encoded(Base(c, FormOf(kind)), m.encoding)
    BY <1>1, <1>4, <2>1 DEF Says
  <2>3. CASE \E i \in DOMAIN m.encoding : m.encoding[i] \notin Known
    <3>1. op.content = [Base(c, FormOf(kind)) EXCEPT !.form = "thrown"]
      BY <2>2, <2>3 DEF Encoded
    <3>2. op.content.form = "thrown"
      BY <3>1 DEF Base
    <3>3. QED
      BY <1>2, <3>2 DEF IsBuffer, Buffers
  <2>4. CASE ~(\E i \in DOMAIN m.encoding : m.encoding[i] \notin Known)
    <3>1. op.content = FoldLeft(Compressed, Base(c, FormOf(kind)), m.encoding)
      BY <2>2, <2>4, Zenon DEF Encoded
    <3>2. \A i \in DOMAIN m.encoding : m.encoding[i] \in Known
      BY <2>4
    <3>3. m.content = FoldLeft(Compressed, Base(c, FormOf(kind)), m.encoding)
      BY <1>4, <3>1, Zenon
    <3>4. QED
      BY <3>2, <3>3, Zenon
  <2>5. QED
    BY <2>3, <2>4
<1>8. /\ kind = "string" => m.type = "text"
      /\ kind = "object" => m.type = "json"
  BY <1>1, <1>4, <1>6 DEF Says
<1>9. QED
  BY <1>2, <1>3, <1>5, <1>6, <1>7, <1>8, Zenon DEF Tells

LEMMA PublishPreserves ==
    ASSUME PInv, NEW c \in Calls, NEW kind \in Kinds, NEW o \in Objs \cup {None}, NEW replies \in BOOLEAN,
           Publish(c, kind, o, replies)
    PROVE  PInv'
<1>1. /\ opt' \in [X -> Options] /\ crc' = [x \in X |-> crc'[x]]
      /\ call'[c].ref \in {None, c, o}
      /\ \A x \in X \ {c, o} : opt'[x] = opt[x]
      /\ \A x \in X \ {c} : \/ opt'[x].head = opt[x].head
                            \/ opt'[x].head = c /\ call'[c].ref = x /\ opt[x].head = None
      /\ opt'[c].head \in {None, HeadOf(o), c}
      /\ \A x \in X \ {c, HeadOf(o)} : crc'[x] = crc[x]
  BY PublishEffect
<1>2. /\ call' = [d \in Calls |-> call'[d]] /\ IsFrame(call'[c])
      /\ call'[c].at \in {"sending", "done"} /\ call'[c].obj = o
      /\ \A d \in Calls \ {c} : call'[d] = call[d]
      /\ mates' \in [Calls -> SUBSET Calls]
      /\ Idles(c) /\ UNCHANGED sent
  BY PublishFrames
<1>3. Shape'
  <2>1. \A d \in Calls : IsFrame(call'[d]) /\ call'[d].ref \in {None, d, call'[d].obj}
                         /\ call'[d].obj \in Objs \cup {None}
    BY <1>1, <1>2 DEF PInv, Shape
  <2>2. sent' = [d \in Calls |-> sent'[d]] /\ \A d \in Calls : IsSeq(sent'[d])
    BY <1>2 DEF PInv, Shape
  <2>3. QED
    BY <1>1, <1>2, <2>1, <2>2 DEF Shape
<1>4. IdleAreBlank'
  <2>1. ASSUME NEW d \in Calls, Idles(d)'
        PROVE  opt'[d] = Blank /\ sent'[d] = <<>>
    <3>1. d # c /\ Idles(d) /\ d # o /\ d \in X
      BY <1>2, <2>1, DistinctAssumption, NoneAssumption DEF Idles, X
    <3>2. QED
      BY <1>1, <1>2, <3>1 DEF PInv, IdleAreBlank
  <2>2. QED
    BY <2>1 DEF IdleAreBlank
<1>5. \A e, x : FromUse(e, x) => FromUse(e, x)'
  BY <1>2 DEF FromUse, Idles
<1>6. GivenHeads'
  <2>1. ASSUME NEW x \in Objs
        PROVE  opt'[x].head \in {None, x} \/ FromUse(opt[x].head, x)'
    <3>1. x \in X \ {c} /\ x # None
      BY DistinctAssumption, NoneAssumption DEF X
    <3>2. CASE opt'[x].head = opt[x].head
      BY <1>5, <3>2 DEF PInv, GivenHeads
    <3>3. CASE opt'[x].head = c /\ call'[c].ref = x
      BY <1>1, <1>2, <3>1, <3>3 DEF FromUse, Idles
    <3>4. QED
      BY <1>1, <3>1, <3>2, <3>3
  <2>2. QED
    BY <2>1 DEF GivenHeads
<1>7. OwnHeads'
  <2>1. ASSUME NEW d \in Calls, ~Idles(d)'
        PROVE  \/ opt'[d].head \in {None, d}
               \/ /\ call'[d].obj # None
                  /\ opt'[d].head = call'[d].obj \/ FromUse(opt[d].head, call[d].obj)'
    <3>1. CASE d = c
      BY <1>1, <1>2, <1>5, <3>1, HeadIsUsed
    <3>2. CASE d # c
      <4>1. opt'[d] = opt[d] /\ call'[d] = call[d] /\ ~Idles(d)
        BY <1>1, <1>2, <2>1, <3>2, DistinctAssumption, NoneAssumption DEF X, Idles
      <4>2. QED
        BY <1>5, <4>1 DEF PInv, OwnHeads
    <3>3. QED
      BY <3>1, <3>2
  <2>2. QED
    BY <2>1 DEF OwnHeads
<1>8. UnusedAreClean'
  <2>1. ASSUME NEW x \in Objs, UsesOf(x)' = {}
        PROVE  crc'[x] = None
    <3>1. x # None /\ x \in X /\ x # c
      BY DistinctAssumption, NoneAssumption DEF X
    <3>2. x # o
      BY <1>2, <2>1, <3>1 DEF UsesOf
    <3>3. UsesOf(x) = {}
      BY <1>2, <2>1, <3>1 DEF UsesOf, Idles
    <3>4. x # HeadOf(o)
      BY <3>1, <3>2, HeadIsUsed, DistinctAssumption DEF FromUse
    <3>5. QED
      BY <1>1, <3>1, <3>3, <3>4 DEF PInv, UnusedAreClean
  <2>2. QED
    BY <2>1 DEF UnusedAreClean
<1>9. SendsWell'
  <2>1. ASSUME NEW d \in Calls, ~Exposed(d)', d # c
        PROVE  /\ call'[d].at = "sending" => Good(d, Copy(d))'
               /\ \A m \in Sent(d)' : Good(d, m)'
    <3>1. CASE Idles(d)
      BY <1>2, <2>1, <3>1 DEF PInv, IdleAreBlank, Idles, Sent
    <3>2. CASE ~Idles(d)
      <4>1. ~Exposed(d) /\ Copy(d)' = Copy(d) /\ call'[d] = call[d] /\ Sent(d)' = Sent(d)
        BY <1>2, <2>1, <3>2, OthersSendTheSame DEF Sent
      <4>2. \A m : Good(d, m)' <=> Good(d, m)
        BY <4>1 DEF Good, Tells
      <4>3. QED
        BY <4>1, <4>2 DEF PInv, SendsWell
    <3>3. QED
      BY <3>1, <3>2
  <2>2. \A m \in Sent(c)' : FALSE
    BY <1>2 DEF PInv, IdleAreBlank, Sent
  <2>3. ASSUME ~Exposed(c)', call'[c].at = "sending"
        PROVE  Good(c, Copy(c))'
    <3>1. /\ replies => call'[c].ref # None /\ opt'[call'[c].ref].corr = c
          /\ c \in Persisting => call'[c].ref # None /\ opt'[call'[c].ref].persistent
      BY <2>3, PublishEffect
    <3>2. Copy(c)'.crc \in {None, Copy(c)'.content}
      <4>1. CASE c \notin Plain
        <5>1. /\ call'[c].ref # None /\ opt'[call'[c].ref].head # None
              /\ crc'[opt'[call'[c].ref].head] = call'[c].content
          BY <2>3, <4>1, PublishEffect
        <5>2. QED
          BY <5>1 DEF Copy
      <4>2. CASE c \in Plain
        <5>1. crc' = crc /\ (call'[c].ref # None => opt'[call'[c].ref].head = HeadOf(o))
          BY <4>2, PublishEffect
        <5>2. HeadOf(o) # c
          BY <1>2, HeadIsUsed, DistinctAssumption, NoneAssumption DEF FromUse
        <5>3. UsesOf(o) = {}
          <6>1. mates'[c] = UsesOf(o)
            BY <4>2, PublishFrames
          <6>2. mates'[c] = {} \/ (call'[c].ref = c /\ opt'[c].head = c)
            BY <2>3 DEF Exposed
          <6>3. c # None
            BY NoneAssumption
          <6>4. QED
            BY <5>1, <5>2, <6>1, <6>2, <6>3
        <5>4. HeadOf(o) # None => crc[HeadOf(o)] = None
          BY <5>3, HeadIsUsed DEF FromUse, UsesOf, Idles, PInv, UnusedAreClean
        <5>5. QED
          BY <5>1, <5>4, BlankIsOptions DEF Copy
      <4>3. QED
        BY <4>1, <4>2
    <3>3. call'[c].replies = replies /\ call'[c].kind = kind
      BY PublishFrames
    <3>4. Copy(c)'.corr = CopiedOptions(c)'.corr /\ Copy(c)'.persistent = CopiedOptions(c)'.persistent
      BY DEF Copy, CopiedOptions
    <3>5. /\ replies => Copy(c)'.corr = c
          /\ c \in Persisting => Copy(c)'.persistent
      BY <3>1, <3>4 DEF CopiedOptions
    <3>6. Tells(c, Copy(c))'
      BY <2>3, CopyTells
    <3>7. QED
      BY <3>2, <3>3, <3>5, <3>6 DEF Good
  <2>4. QED
    BY <2>1, <2>2, <2>3 DEF SendsWell
<1>10. QED
  BY <1>3, <1>4, <1>6, <1>7, <1>8, <1>9 DEF PInv

-----------------------------------------------------------------------------
(***************************************************************************)
(* Sending the copies.                                                     *)
(***************************************************************************)
LEMMA AppendEffect ==
    ASSUME NEW s, IsSeq(s), NEW e
    PROVE  /\ IsSeq(Append(s, e))
           /\ \A i \in DOMAIN Append(s, e) : Append(s, e)[i] = e \/ \E j \in DOMAIN s : Append(s, e)[i] = s[j]
<1>1. PICK S : S = {s[i] : i \in DOMAIN s}
  OBVIOUS
<1>2. PICK t : t = Append(s, e)
  OBVIOUS
<1>3. s \in Seq(S) /\ e \in S \cup {e}
  BY <1>1 DEF IsSeq
<1>4. s \in Seq(S \cup {e}) /\ Len(s) \in Nat /\ DOMAIN s = 1..Len(s)
  BY <1>3
<1>5. /\ t \in Seq(S \cup {e}) /\ Len(t) = Len(s) + 1 /\ t[Len(s) + 1] = e
      /\ \A i \in 1..Len(s) : t[i] = s[i]
  BY <1>2, <1>3, <1>4
<1>6. DOMAIN t = 1..Len(t) /\ Len(t) \in Nat /\ t = [i \in 1..Len(t) |-> t[i]]
  BY <1>5
<1>7. t \in [1..Len(t) -> {t[i] : i \in DOMAIN t}]
  BY <1>6
<1>8. IsSeq(t)
  BY <1>6, <1>7 DEF IsSeq
<1>9. \A i \in DOMAIN t : t[i] = e \/ \E j \in DOMAIN s : t[i] = s[j]
  BY <1>4, <1>5, <1>6
<1>10. QED
  BY <1>2, <1>8, <1>9

LEMMA SendPreserves ==
    ASSUME PInv, NEW c \in Calls, Send(c)
    PROVE  PInv'
<1>1. /\ call[c].at = "sending" /\ UNCHANGED <<opt, crc, mates>>
      /\ sent' = [sent EXCEPT ![c] = Append(sent[c], Copy(c))]
  BY DEF Send
<1>2. PICK p \in {"sending", "done"} : call' = [call EXCEPT ![c].at = p]
  BY <1>1 DEF Send
<1>3. /\ call' = [d \in Calls |-> call'[d]]
      /\ \A d \in Calls \ {c} : call'[d] = call[d]
      /\ call'[c] = [call[c] EXCEPT !.at = p]
  BY <1>2 DEF PInv, Shape
<1>4. IsFrame(call[c])
  BY DEF PInv, Shape
<1>5. call'[c] = [at |-> p, kind |-> call[c].kind, obj |-> call[c].obj, replies |-> call[c].replies,
                  content |-> call[c].content, ref |-> call[c].ref]
  BY <1>3, <1>4 DEF IsFrame
<1>6. /\ IsFrame(call'[c]) /\ call'[c].at = p /\ call'[c].obj = call[c].obj
      /\ call'[c].replies = call[c].replies /\ call'[c].content = call[c].content
      /\ call'[c].ref = call[c].ref /\ call'[c].kind = call[c].kind
  BY <1>5 DEF IsFrame
<1>7. /\ sent' = [d \in Calls |-> sent'[d]] /\ sent'[c] = Append(sent[c], Copy(c))
      /\ \A d \in Calls \ {c} : sent'[d] = sent[d]
  BY <1>1 DEF PInv, Shape
<1>8. /\ IsSeq(sent'[c])
      /\ \A m \in Sent(c)' : m = Copy(c) \/ m \in Sent(c)
  <2>1. IsSeq(sent[c])
    BY DEF PInv, Shape
  <2>2. QED
    BY <1>7, <2>1, AppendEffect DEF Sent
<1>9. \A d \in Calls : /\ Idles(d)' <=> Idles(d)
                       /\ call'[d].obj = call[d].obj /\ call'[d].ref = call[d].ref
                       /\ call'[d].replies = call[d].replies /\ call'[d].kind = call[d].kind
  BY <1>1, <1>3, <1>6 DEF Idles
<1>10. Shape'
  <2>1. \A d \in Calls : IsFrame(call'[d]) /\ call'[d].ref \in {None, d, call'[d].obj}
                         /\ call'[d].obj \in Objs \cup {None}
    BY <1>3, <1>6, <1>9 DEF PInv, Shape
  <2>2. \A d \in Calls : IsSeq(sent'[d])
    BY <1>7, <1>8 DEF PInv, Shape
  <2>3. QED
    BY <1>1, <1>3, <1>7, <2>1, <2>2 DEF PInv, Shape
<1>11. IdleAreBlank'
  BY <1>1, <1>3, <1>7, <1>9 DEF PInv, IdleAreBlank, Idles
<1>12. \A e, x : FromUse(e, x)' <=> FromUse(e, x)
  BY <1>9 DEF FromUse
<1>13. GivenHeads' /\ OwnHeads'
  BY <1>1, <1>9, <1>12 DEF PInv, GivenHeads, OwnHeads
<1>14. UnusedAreClean'
  BY <1>1, <1>9 DEF PInv, UnusedAreClean, UsesOf, Idles
<1>15. SendsWell'
  <2>1. \A d \in Calls : Exposed(d)' <=> Exposed(d)
    BY <1>1, <1>9 DEF Exposed
  <2>2. \A d \in Calls : Copy(d)' = Copy(d)
    <3>1. \A d \in Calls : call'[d].content = call[d].content /\ call'[d].ref = call[d].ref
      BY <1>3, <1>6
    <3>2. opt' = opt /\ crc' = crc
      BY <1>1
    <3>3. QED
      BY <3>1, <3>2 DEF Copy
  <2>3. \A d \in Calls : \A m : Good(d, m)' <=> Good(d, m)
    BY <1>9 DEF Good, Tells
  <2>4. ASSUME NEW d \in Calls, ~Exposed(d)
        PROVE  /\ call'[d].at = "sending" => Good(d, Copy(d))
               /\ \A m \in Sent(d)' : Good(d, m)
    <3>1. CASE d = c
      BY <1>1, <1>8, <2>4, <3>1 DEF PInv, SendsWell
    <3>2. CASE d # c
      BY <1>3, <1>7, <2>4, <3>2 DEF PInv, SendsWell, Sent
    <3>3. QED
      BY <3>1, <3>2
  <2>5. QED
    BY <2>1, <2>2, <2>3, <2>4 DEF SendsWell
<1>16. QED
  BY <1>10, <1>11, <1>13, <1>14, <1>15 DEF PInv

-----------------------------------------------------------------------------
(***************************************************************************)
(* What the publisher's middleware has compressed, the consumer's takes    *)
(* apart again.                                                            *)
(***************************************************************************)
LEMMA CompressedIn ==
    ASSUME NEW x \in Content, NEW e \in STRING
    PROVE  Compressed(x, e) \in Content /\ Compressed(x, e).form = x.form
<1>1. PICK new : new = Append(x.layers, e)
  OBVIOUS
<1>2. new \in Seq(STRING)
  BY <1>1 DEF Content
<1>3. PICK y : y = [x EXCEPT !.layers = new]
  OBVIOUS
<1>4. y \in Content /\ y.form = x.form
  BY <1>2, <1>3 DEF Content
<1>5. Compressed(x, e) \in {x, y}
  BY <1>1, <1>3 DEF Compressed
<1>6. QED
  BY <1>4, <1>5

LEMMA UncompressedIn ==
    ASSUME NEW x \in Content, NEW e \in STRING
    PROVE  Uncompressed(x, e) \in Content
<1>1. Reject(x) \in Content
  BY DEF Reject, Content, Forms
<1>2. x.layers \in Seq(STRING)
  BY DEF Content
<1>3. x.layers # <<>> => Front(x.layers) \in Seq(STRING)
  BY <1>2, FrontIn
<1>4. x.layers # <<>> => [x EXCEPT !.layers = Front(x.layers)] \in Content
  BY <1>3 DEF Content
<1>5. QED
  BY <1>1, <1>4 DEF Uncompressed

\* What the fold of Compressed() chooses.
Compressings(a, s, iter) ==
    iter = [t \in SUBSET DOMAIN s |-> IF t = {} THEN a ELSE Compressed(iter[t \ {Max(t)}], s[Max(t)])]

LEMMA CompressingsUnfolds ==
    ASSUME NEW a, NEW s
    PROVE  FoldLeft(Compressed, a, s) = (CHOOSE iter : Compressings(a, s, iter))[DOMAIN s]
BY Zenon DEF FoldLeft, MapThenFoldSet, Compressings

Compressing == [p \in Content \X STRING |-> Compressed(p[1], p[2])]

LEMMA CompressedIsFold ==
    ASSUME NEW a \in Content, NEW s \in Seq(STRING)
    PROVE  /\ FoldLeft(Compressed, a, s) = Fold(Compressing, a, s)
           /\ Folding(Content, STRING, Compressing, a, s)
           /\ \A x \in Content, e \in STRING : Compressing[<<x, e>>] = Compressed(x, e)
<1>1. PICK A : A = Content
  OBVIOUS
<1>2. PICK E : E = STRING
  OBVIOUS
<1>3. PICK f : f = Compressing
  OBVIOUS
<1>4. \A x \in A, e \in E : Compressed(x, e) \in A
  BY <1>1, <1>2, CompressedIn
<1>5. f = [p \in A \X E |-> Compressed(p[1], p[2])]
  BY <1>1, <1>2, <1>3 DEF Compressing
<1>6. f \in [A \X E -> A] /\ \A x \in A, e \in E : f[<<x, e>>] = Compressed(x, e)
  BY <1>4, <1>5
<1>7. Folding(A, E, f, a, s)
  BY <1>1, <1>2, <1>6 DEF Folding
<1>8. \E iter : Compressings(a, s, iter)
  <2>1. PICK g \in [SUBSET DOMAIN s -> A] : Accumulates(f, a, s, g)
    BY <1>7, Accumulator
  <2>2. ASSUME NEW t \in SUBSET DOMAIN s, t # {}
        PROVE  f[<<g[t \ {Max(t)}], s[Max(t)]>>] = Compressed(g[t \ {Max(t)}], s[Max(t)])
    <3>1. s[Max(t)] \in E
      BY <1>2, <2>2, LastIndexOf
    <3>2. g[t \ {Max(t)}] \in A
      BY <2>1
    <3>3. QED
      BY <1>6, <3>1, <3>2
  <2>3. Compressings(a, s, g)
    BY <2>1, <2>2 DEF Accumulates, Compressings
  <2>4. QED
    BY <2>3
<1>9. PICK iter : iter = CHOOSE it : Compressings(a, s, it)
  OBVIOUS
<1>10. Compressings(a, s, iter)
  BY <1>8, <1>9, Zenon
<1>11. FoldLeft(Compressed, a, s) = iter[DOMAIN s]
  BY <1>9, CompressingsUnfolds, Zenon
<1>12. iter[{}] = a
  BY <1>10 DEF Compressings
<1>13. ASSUME NEW i \in 1..Len(s), iter[1..(i - 1)] \in A
       PROVE  iter[1..i] = f[<<iter[1..(i - 1)], s[i]>>]
  <2>1. /\ 1..i \in SUBSET DOMAIN s /\ 1..i # {} /\ s[i] \in E
        /\ Max(1..i) = i /\ (1..i) \ {i} = 1..(i - 1)
    BY <1>2, FirstIndices
  <2>2. iter[1..i] = Compressed(iter[1..(i - 1)], s[i])
    BY <1>10, <2>1 DEF Compressings
  <2>3. QED
    BY <1>6, <1>13, <2>1, <2>2
<1>14. Steps(A, f, a, s, iter)
  BY <1>12, <1>13 DEF Steps
<1>15. iter[DOMAIN s] = Fold(f, a, s)
  BY <1>7, <1>14, FoldAgrees
<1>16. QED
  BY <1>1, <1>2, <1>3, <1>6, <1>7, <1>11, <1>15, Zenon

\* What the fold of Uncompressed() chooses.
Uncompressings(a, s, iter) ==
    iter = [t \in SUBSET DOMAIN s |-> IF t = {} THEN a ELSE Uncompressed(iter[t \ {Max(t)}], s[Max(t)])]

LEMMA UncompressingsUnfolds ==
    ASSUME NEW a, NEW s
    PROVE  FoldLeft(Uncompressed, a, s) = (CHOOSE iter : Uncompressings(a, s, iter))[DOMAIN s]
BY Zenon DEF FoldLeft, MapThenFoldSet, Uncompressings

Uncompressing == [p \in Content \X STRING |-> Uncompressed(p[1], p[2])]

LEMMA UncompressedIsFold ==
    ASSUME NEW a \in Content, NEW s \in Seq(STRING)
    PROVE  /\ FoldLeft(Uncompressed, a, s) = Fold(Uncompressing, a, s)
           /\ Folding(Content, STRING, Uncompressing, a, s)
           /\ \A x \in Content, e \in STRING : Uncompressing[<<x, e>>] = Uncompressed(x, e)
<1>1. PICK A : A = Content
  OBVIOUS
<1>2. PICK E : E = STRING
  OBVIOUS
<1>3. PICK f : f = Uncompressing
  OBVIOUS
<1>4. \A x \in A, e \in E : Uncompressed(x, e) \in A
  BY <1>1, <1>2, UncompressedIn
<1>5. f = [p \in A \X E |-> Uncompressed(p[1], p[2])]
  BY <1>1, <1>2, <1>3 DEF Uncompressing
<1>6. f \in [A \X E -> A] /\ \A x \in A, e \in E : f[<<x, e>>] = Uncompressed(x, e)
  BY <1>4, <1>5
<1>7. Folding(A, E, f, a, s)
  BY <1>1, <1>2, <1>6 DEF Folding
<1>8. \E iter : Uncompressings(a, s, iter)
  <2>1. PICK g \in [SUBSET DOMAIN s -> A] : Accumulates(f, a, s, g)
    BY <1>7, Accumulator
  <2>2. ASSUME NEW t \in SUBSET DOMAIN s, t # {}
        PROVE  f[<<g[t \ {Max(t)}], s[Max(t)]>>] = Uncompressed(g[t \ {Max(t)}], s[Max(t)])
    <3>1. s[Max(t)] \in E
      BY <1>2, <2>2, LastIndexOf
    <3>2. g[t \ {Max(t)}] \in A
      BY <2>1
    <3>3. QED
      BY <1>6, <3>1, <3>2
  <2>3. Uncompressings(a, s, g)
    BY <2>1, <2>2 DEF Accumulates, Uncompressings
  <2>4. QED
    BY <2>3
<1>9. PICK iter : iter = CHOOSE it : Uncompressings(a, s, it)
  OBVIOUS
<1>10. Uncompressings(a, s, iter)
  BY <1>8, <1>9, Zenon
<1>11. FoldLeft(Uncompressed, a, s) = iter[DOMAIN s]
  BY <1>9, UncompressingsUnfolds, Zenon
<1>12. iter[{}] = a
  BY <1>10 DEF Uncompressings
<1>13. ASSUME NEW i \in 1..Len(s), iter[1..(i - 1)] \in A
       PROVE  iter[1..i] = f[<<iter[1..(i - 1)], s[i]>>]
  <2>1. /\ 1..i \in SUBSET DOMAIN s /\ 1..i # {} /\ s[i] \in E
        /\ Max(1..i) = i /\ (1..i) \ {i} = 1..(i - 1)
    BY <1>2, FirstIndices
  <2>2. iter[1..i] = Uncompressed(iter[1..(i - 1)], s[i])
    BY <1>10, <2>1 DEF Uncompressings
  <2>3. QED
    BY <1>6, <1>13, <2>1, <2>2
<1>14. Steps(A, f, a, s, iter)
  BY <1>12, <1>13 DEF Steps
<1>15. iter[DOMAIN s] = Fold(f, a, s)
  BY <1>7, <1>14, FoldAgrees
<1>16. QED
  BY <1>1, <1>2, <1>3, <1>6, <1>7, <1>11, <1>15, Zenon

\* Taking off one encoding.
LEMMA OneInverse ==
    ASSUME NEW x \in Content, x.form # "thrown", NEW e \in STRING
    PROVE  Uncompressed(Compressed(x, e), e) = x
<1>1. CASE e = "identity"
  BY <1>1 DEF Compressed, Uncompressed
<1>2. CASE e # "identity"
  <2>1. x = [from |-> x.from, form |-> x.form, layers |-> x.layers] /\ x.layers \in Seq(STRING)
    BY DEF Content
  <2>2. PICK m : m = Append(x.layers, e)
    OBVIOUS
  <2>3. PICK y : y = [x EXCEPT !.layers = m]
    OBVIOUS
  <2>4. Compressed(x, e) = y
    BY <1>2, <2>2, <2>3 DEF Compressed
  <2>5. m # <<>> /\ Last(m) = e /\ Front(m) = x.layers
    BY <2>1, <2>2, FrontAndLast
  <2>6. y = [from |-> x.from, form |-> x.form, layers |-> m]
    BY <2>1, <2>3
  <2>7. Uncompressed(y, e) = [y EXCEPT !.layers = Front(y.layers)]
    <3>1. y.layers = m /\ y.form # "thrown"
      BY <2>6
    <3>2. QED
      BY <1>2, <2>5, <3>1 DEF Uncompressed, Rejected
  <2>8. [y EXCEPT !.layers = Front(y.layers)] = x
    BY <2>1, <2>5, <2>6
  <2>9. QED
    BY <2>4, <2>7, <2>8
<1>3. QED
  BY <1>1, <1>2

\* The contents that no middleware has thrown at.
Legible == {x \in Content : x.form # "thrown"}

\* Whatever has been put on comes off in the reverse order.
LEMMA AllInverse ==
    ASSUME NEW b \in Legible, NEW s \in Seq(STRING)
    PROVE  /\ FoldLeft(Compressed, b, s) \in Legible
           /\ FoldLeft(Uncompressed, FoldLeft(Compressed, b, s), Reverse(s)) = b
<1>0. b \in Content /\ Reverse(s) \in Seq(STRING) /\ Legible \in SUBSET Content
  BY ReverseIn DEF Legible
<1>1. PICK f : f = Compressing
  OBVIOUS
<1>2. PICK g : g = Uncompressing
  OBVIOUS
<1>3. /\ FoldLeft(Compressed, b, s) = Fold(f, b, s)
      /\ Folding(Content, STRING, f, b, s)
      /\ \A x \in Content, e \in STRING : f[<<x, e>>] = Compressed(x, e)
  BY <1>0, <1>1, CompressedIsFold
<1>4. /\ Folding(Content, STRING, g, b, s)
      /\ \A x \in Content, e \in STRING : g[<<x, e>>] = Uncompressed(x, e)
  BY <1>0, <1>2, UncompressedIsFold
<1>5. f \in [Content \X STRING -> Content] /\ g \in [Content \X STRING -> Content]
  BY <1>3, <1>4 DEF Folding
<1>6. ASSUME NEW x \in Legible, NEW e \in STRING
      PROVE  f[<<x, e>>] \in Legible /\ g[<<f[<<x, e>>], e>>] = x
  <2>1. x \in Content /\ x.form # "thrown"
    BY DEF Legible
  <2>2. PICK y : y = Compressed(x, e)
    OBVIOUS
  <2>3. y \in Content /\ y.form = x.form /\ Uncompressed(y, e) = x
    BY <2>1, <2>2, CompressedIn, OneInverse
  <2>4. f[<<x, e>>] = y /\ g[<<y, e>>] = x
    BY <1>3, <1>4, <2>1, <2>2, <2>3
  <2>5. y \in Legible
    BY <2>1, <2>3 DEF Legible
  <2>6. QED
    BY <2>4, <2>5
<1>7. Fold(f, b, s) \in Legible /\ Fold(g, Fold(f, b, s), Reverse(s)) = b
  <2>1. Undoes(Content, STRING, Legible, f, g)
    BY <1>0, <1>5, <1>6 DEF Undoes
  <2>2. QED
    BY <2>1, FoldInverse
<1>8. PICK y : y = Fold(f, b, s)
  OBVIOUS
<1>9. PICK r : r = Reverse(s)
  OBVIOUS
<1>10. y \in Content /\ r \in Seq(STRING)
  BY <1>0, <1>7, <1>8, <1>9
<1>11. FoldLeft(Uncompressed, y, r) = Fold(g, y, r)
  BY <1>2, <1>10, UncompressedIsFold
<1>12. QED
  BY <1>3, <1>7, <1>8, <1>9, <1>11, Zenon

\* The parts of ConsumerContentDecoding().
Stops(encoding) == {i \in 1..Len(encoding) : encoding[i] \notin Known}
FirstTried(stops) == IF stops = {} THEN 0 ELSE CHOOSE i \in stops : \A j \in stops : j <= i
Tried(encoding) == Reverse(SubSeq(encoding, FirstTried(Stops(encoding)) + 1, Len(encoding)))

LEMMA DecodingUnfolds ==
    ASSUME NEW m, NEW content
    PROVE  ConsumerContentDecoding(m, content) =
               IF Stops(m.encoding) = {} \/ Rejected(FoldLeft(Uncompressed, content, Tried(m.encoding)))
               THEN FoldLeft(Uncompressed, content, Tried(m.encoding)) ELSE content
BY Zenon DEF ConsumerContentDecoding, Stops, FirstTried, Tried

LEMMA AllAreTried ==
    ASSUME NEW s \in Seq(STRING), \A i \in DOMAIN s : s[i] \in Known
    PROVE  Stops(s) = {} /\ Tried(s) = Reverse(s)
<1>1. Len(s) \in Nat /\ DOMAIN s = 1..Len(s)
  BY ElementsOf
<1>2. Stops(s) = {}
  BY <1>1 DEF Stops
<1>3. FirstTried(Stops(s)) + 1 = 1
  BY <1>2 DEF FirstTried
<1>4. SubSeq(s, 1, Len(s)) = s
  BY SubSeqFull
<1>5. QED
  BY <1>2, <1>3, <1>4 DEF Tried

LEMMA DecodingInverts ==
    ASSUME NEW b \in Legible, NEW m, m.encoding \in Seq(STRING),
           \A i \in DOMAIN m.encoding : m.encoding[i] \in Known
    PROVE  ConsumerContentDecoding(m, FoldLeft(Compressed, b, m.encoding)) = b
<1>1. PICK s : s = m.encoding
  OBVIOUS
<1>2. PICK y : y = FoldLeft(Compressed, b, s)
  OBVIOUS
<1>3. Stops(s) = {} /\ Tried(s) = Reverse(s)
  BY <1>1, AllAreTried
<1>4. FoldLeft(Uncompressed, y, Reverse(s)) = b
  BY <1>1, <1>2, AllInverse
<1>5. ConsumerContentDecoding(m, y) = FoldLeft(Uncompressed, y, Tried(s))
  BY <1>1, <1>3, DecodingUnfolds, Zenon
<1>6. QED
  BY <1>1, <1>2, <1>3, <1>4, <1>5, Zenon

LEMMA BaseIsLegible ==
    ASSUME NEW c \in Calls, NEW kind \in Kinds
    PROVE  Base(c, FormOf(kind)) \in Legible /\ FormOf(kind) \in Buffers
<1>1. FormOf(kind) \in Buffers /\ FormOf(kind) \in Forms /\ FormOf(kind) # "thrown"
  BY DEF FormOf, Kinds, Buffers, Forms
<1>2. PICK n : n = <<>>
  OBVIOUS
<1>3. n \in Seq(STRING)
  BY <1>2
<1>4. PICK f : f = FormOf(kind)
  OBVIOUS
<1>5. Base(c, f) = [from |-> c, form |-> f, layers |-> n]
  BY <1>2 DEF Base
<1>6. Base(c, f) \in Legible
  BY <1>1, <1>3, <1>4, <1>5 DEF Legible, Content
<1>7. QED
  BY <1>1, <1>4, <1>6

\* A decoded content is made again what its type says it was.
LEMMA Restored ==
    ASSUME NEW c \in Calls, NEW kind \in Kinds, NEW m, NEW b, b = Base(c, FormOf(kind)),
           kind = "string" => m.type = "text", kind = "object" => m.type = "json",
           kind = "buffer" => m.type = None
    PROVE  ConsumerDecodeString(m, ConsumerDecodeObject(m, b)) = Base(c, kind)
<1>1. \A f, g : [Base(c, f) EXCEPT !.form = g] = Base(c, g)
  BY DEF Base
<1>2. \A f : Base(c, f).form = f /\ Base(c, f).layers = <<>>
  BY DEF Base
<1>3. CASE kind = "string"
  <2>1. b = Base(c, "text") /\ m.type = "text"
    BY <1>3 DEF FormOf
  <2>2. ConsumerDecodeObject(m, b) = b
    BY <2>1 DEF ConsumerDecodeObject
  <2>3. IsBuffer(b)
    BY <1>2, <2>1 DEF IsBuffer, Buffers
  <2>4. ConsumerDecodeString(m, b) = [b EXCEPT !.form = "string"]
    BY <2>1, <2>3 DEF ConsumerDecodeString
  <2>5. QED
    BY <1>1, <1>3, <2>1, <2>2, <2>4
<1>4. CASE kind = "object"
  <2>1. b = Base(c, "json") /\ m.type = "json"
    BY <1>4 DEF FormOf
  <2>2. ConsumerDecodeObject(m, b) = [b EXCEPT !.form = "object"]
    BY <1>2, <2>1 DEF ConsumerDecodeObject
  <2>3. ConsumerDecodeObject(m, b) = Base(c, "object")
    BY <1>1, <2>1, <2>2
  <2>4. \A x : ConsumerDecodeString(m, x) = x
    BY <2>1 DEF ConsumerDecodeString
  <2>5. QED
    BY <1>4, <2>3, <2>4
<1>5. CASE kind = "buffer"
  <2>1. b = Base(c, "buffer") /\ m.type = None
    BY <1>5 DEF FormOf
  <2>2. QED
    BY <1>5, <2>1, NoneAssumption DEF ConsumerDecodeObject, ConsumerDecodeString
<1>6. QED
  BY <1>3, <1>4, <1>5 DEF Kinds

\* What is told rightly is understood rightly.
LEMMA ToldIsHeard ==
    ASSUME NEW c \in Calls, NEW m, Tells(c, m), m.crc \in {None, m.content},
           ~ (call[c].kind = "buffer" /\ m.type # None), ~ (c \in Plain /\ m.encoding # <<>>)
    PROVE  ConsumeMiddleware(m) = Base(c, call[c].kind)
<1>1. PICK kind \in Kinds : kind = call[c].kind
  BY DEF Tells
<1>2. PICK b \in Legible : b = Base(c, FormOf(kind))
  BY BaseIsLegible
<1>3. m.encoding \in Seq(STRING)
  BY EncodingsAssumption DEF Tells
<1>4. FoldLeft(Compressed, b, <<>>) = b
  <2>1. b \in Content
    BY DEF Legible
  <2>2. PICK n : n = <<>>
    OBVIOUS
  <2>3. n \in Seq(STRING)
    BY <2>2
  <2>4. FoldLeft(Compressed, b, n) = Fold(Compressing, b, n) /\ Folding(Content, STRING, Compressing, b, n)
    BY <2>1, <2>3, CompressedIsFold
  <2>5. Fold(Compressing, b, n) = b
    BY <2>2, <2>4, FoldEmpty
  <2>6. QED
    BY <2>2, <2>4, <2>5
<1>5. /\ \A i \in DOMAIN m.encoding : m.encoding[i] \in Known
      /\ m.content = FoldLeft(Compressed, b, m.encoding)
  <2>1. CASE c \in Plain
    <3>1. m.encoding = <<>> /\ m.content = b
      BY <1>1, <1>2, <2>1 DEF Tells
    <3>2. DOMAIN m.encoding = {}
      BY <3>1
    <3>3. QED
      BY <1>4, <3>1, <3>2
  <2>2. CASE c \notin Plain
    BY <1>1, <1>2, <2>2 DEF Tells
  <2>3. QED
    BY <2>1, <2>2
<1>6. m.content \in Legible
  BY <1>3, <1>5, AllInverse
<1>7. ConsumerCrc32Check(m) = m.content
  BY DEF ConsumerCrc32Check
<1>8. ConsumerContentDecoding(m, m.content) = b
  BY <1>3, <1>5, DecodingInverts
<1>9. ~ Rejected(m.content) /\ ~ Rejected(b)
  BY <1>6 DEF Rejected, Legible
<1>10. ConsumeMiddleware(m) = ConsumerDecodeString(m, ConsumerDecodeObject(m, b))
  BY <1>7, <1>8, <1>9, Zenon DEF ConsumeMiddleware
<1>11. ConsumerDecodeString(m, ConsumerDecodeObject(m, b)) = Base(c, kind)
  BY <1>1, <1>2, Restored DEF Tells
<1>12. QED
  BY <1>1, <1>10, <1>11

-----------------------------------------------------------------------------
(***************************************************************************)
(* The types.                                                              *)
(***************************************************************************)
HaveContents == \A c \in Calls : ~Idles(c) => call[c].content \in Content

TInv == TypeOK /\ HaveContents

LEMMA BaseIsContent ==
    ASSUME NEW c \in Calls, NEW form \in Forms
    PROVE  Base(c, form) \in Content
<1>1. PICK n : n = <<>>
  OBVIOUS
<1>2. n \in Seq(STRING)
  BY <1>1
<1>3. Base(c, form) = [from |-> c, form |-> form, layers |-> n]
  BY <1>1 DEF Base
<1>4. QED
  BY <1>2, <1>3 DEF Content

LEMMA EncodedIsContent ==
    ASSUME NEW b \in Legible, NEW s \in Seq(STRING)
    PROVE  Encoded(b, s) \in Content
<1>1. [b EXCEPT !.form = "thrown"] \in Content
  BY DEF Legible, Content, Forms
<1>2. FoldLeft(Compressed, b, s) \in Content
  BY AllInverse DEF Legible
<1>3. QED
  BY <1>1, <1>2 DEF Encoded

LEMMA SaidIsContent ==
    ASSUME NEW c \in Calls, NEW kind \in Kinds, NEW op, Says(c, kind, op), OptionsOf(op) \in Options
    PROVE  op.content \in Content
<1>1. CASE c \in Plain
  <2>1. PICK form \in Forms : form = IF kind = "string" THEN "text" ELSE kind
    BY DEF Kinds, Forms, Buffers
  <2>2. op.content = Base(c, form)
    BY <1>1, <2>1 DEF Says
  <2>3. QED
    BY <2>2, BaseIsContent
<1>2. CASE c \notin Plain
  <2>1. PICK s \in Seq(STRING) : s = OptionsOf(op).encoding
    BY EncodingsAssumption DEF Options
  <2>2. op.content = Encoded(Base(c, FormOf(kind)), s)
    BY <1>2, <2>1 DEF Says
  <2>3. QED
    BY <2>2, BaseIsLegible, EncodedIsContent
<1>3. QED
  BY <1>1, <1>2

LEMMA FrameIn ==
    ASSUME NEW f, IsFrame(f), f.at \in {"idle", "sending", "done"}, f.kind \in Kinds,
           f.obj \in Objs \cup {None}, f.replies \in BOOLEAN, f.content \in Content \cup {None},
           f.ref \in X \cup {None}
    PROVE  f \in Frame
<1>1. f = [at |-> f.at, kind |-> f.kind, obj |-> f.obj, replies |-> f.replies,
           content |-> f.content, ref |-> f.ref]
  BY DEF IsFrame
<1>2. QED
  BY <1>1, Zenon DEF Frame, Kinds, X

LEMMA InitTypes == Init => TInv
<1> SUFFICES ASSUME Init
             PROVE  TInv
  OBVIOUS
<1>1. PInv
  BY InitEstablishes
<1>2. \A c \in Calls : call[c] = Idle /\ sent[c] = <<>>
  BY DEF Init
<1>3. Idle \in Frame
  <2>1. /\ IsFrame(Idle) /\ Idle.at = "idle" /\ Idle.kind = "buffer" /\ Idle.obj = None
        /\ Idle.replies = FALSE /\ Idle.content = None /\ Idle.ref = None
    BY DEF IsFrame, Idle
  <2>2. QED
    BY <2>1, FrameIn DEF Kinds
<1>4. call \in [Calls -> Frame]
  BY <1>1, <1>2, <1>3 DEF PInv, Shape
<1>5. sent \in [Calls -> Seq(Wire)]
  <2>1. PICK n : n = <<>>
    OBVIOUS
  <2>2. n \in Seq(Wire)
    BY <2>1
  <2>3. QED
    BY <1>1, <1>2, <2>1, <2>2 DEF PInv, Shape
<1>6. crc \in [X -> Content \cup {None}]
  BY DEF Init, X
<1>7. HaveContents
  BY <1>2 DEF HaveContents, Idles, Idle
<1>8. QED
  BY <1>1, <1>4, <1>5, <1>6, <1>7 DEF TInv, TypeOK, PInv, Shape, X

LEMMA PublishTypes ==
    ASSUME PInv, PInv', TInv, NEW c \in Calls, NEW kind \in Kinds, NEW o \in Objs \cup {None},
           NEW replies \in BOOLEAN, Publish(c, kind, o, replies)
    PROVE  TInv'
<1>1. call'[c].content \in Content
  <2>1. PICK op : Says(c, kind, op) /\ call'[c].content = op.content /\ OptionsOf(op) = CopiedOptions(c)'
    BY PublishEffect
  <2>2. CopiedOptions(c)' \in Options
    <3>1. opt' \in [X -> Options] /\ call'[c].ref \in {None, c, o}
      BY PublishEffect
    <3>2. call'[c].ref \in X \cup {None}
      BY <3>1 DEF X
    <3>3. QED
      BY <3>1, <3>2, BlankIsOptions DEF CopiedOptions
  <2>3. QED
    BY <2>1, <2>2, SaidIsContent
<1>2. crc' \in [X -> Content \cup {None}]
  <2>1. \A x \in X : crc[x] \in Content \cup {None}
    BY DEF TInv, TypeOK, X
  <2>2. crc' = [x \in X |-> crc'[x]] /\ \A x \in X : crc'[x] \in {crc[x], call'[c].content}
    BY PublishEffect
  <2>3. \A x \in X : crc'[x] \in Content \cup {None}
    BY <1>1, <2>1, <2>2
  <2>4. QED
    BY <2>2, <2>3
<1>3. call'[c] \in Frame
  <2>1. /\ IsFrame(call'[c]) /\ call'[c].at \in {"sending", "done"} /\ call'[c].obj = o
        /\ call'[c].kind = kind /\ call'[c].replies = replies
    BY PublishFrames
  <2>2. call'[c].ref \in X \cup {None}
    BY PublishEffect DEF X
  <2>3. QED
    BY <1>1, <2>1, <2>2, FrameIn
<1>4. call' = [d \in Calls |-> call'[d]] /\ \A d \in Calls \ {c} : call'[d] = call[d]
  BY PublishFrames
<1>5. call' \in [Calls -> Frame]
  <2>1. \A d \in Calls : call'[d] \in Frame
    BY <1>3, <1>4 DEF TInv, TypeOK
  <2>2. QED
    BY <1>4, <2>1
<1>6. HaveContents'
  BY <1>1, <1>4 DEF TInv, HaveContents, Idles
<1>7. UNCHANGED sent
  BY PublishFrames
<1>8. QED
  BY <1>2, <1>5, <1>6, <1>7 DEF TInv, TypeOK, PInv, Shape, X

LEMMA CopyIn ==
    ASSUME PInv, TInv, NEW c \in Calls, ~Idles(c)
    PROVE  Copy(c) \in Wire
<1>1. PICK d \in Options : d = IF call[c].ref = None THEN Blank ELSE opt[call[c].ref]
  <2>1. call[c].ref \in X \cup {None}
    BY DEF PInv, Shape, X
  <2>2. QED
    BY <2>1, BlankIsOptions DEF PInv, Shape
<1>2. PICK k : k = IF d.head = None THEN None ELSE crc[d.head]
  OBVIOUS
<1>3. k \in Content \cup {None}
  BY <1>2 DEF Options, TInv, TypeOK
<1>4. call[c].content \in Content
  BY DEF TInv, HaveContents
<1>5. Copy(c) = [content |-> call[c].content, type |-> d.type, encoding |-> d.encoding,
                 crc |-> k, corr |-> d.corr, persistent |-> d.persistent]
  BY <1>1, <1>2, Zenon DEF Copy
<1>6. /\ d.type \in {None, "text", "json"} /\ d.encoding \in Encodings
      /\ d.corr \in Calls \cup {None} /\ d.persistent \in BOOLEAN
  BY DEF Options
<1>7. QED
  BY <1>3, <1>4, <1>5, <1>6 DEF Wire

LEMMA SendTypes ==
    ASSUME PInv, PInv', TInv, NEW c \in Calls, Send(c)
    PROVE  TInv'
<1>1. /\ call[c].at = "sending" /\ UNCHANGED <<opt, crc, mates>>
      /\ sent' = [sent EXCEPT ![c] = Append(sent[c], Copy(c))]
  BY DEF Send
<1>2. PICK p \in {"sending", "done"} : call' = [call EXCEPT ![c].at = p]
  BY <1>1 DEF Send
<1>3. call \in [Calls -> Frame]
  BY DEF TInv, TypeOK
<1>4. /\ call' = [d \in Calls |-> call'[d]]
      /\ \A d \in Calls \ {c} : call'[d] = call[d]
      /\ call'[c] = [call[c] EXCEPT !.at = p]
  BY <1>2, <1>3
<1>5. call'[c] \in Frame /\ call'[c].content = call[c].content
  BY <1>3, <1>4 DEF Frame
<1>6. call' \in [Calls -> Frame]
  <2>1. \A d \in Calls : call'[d] \in Frame
    BY <1>3, <1>4, <1>5
  <2>2. QED
    BY <1>4, <2>1
<1>7. HaveContents'
  BY <1>1, <1>4, <1>5 DEF TInv, HaveContents, Idles
<1>8. sent' \in [Calls -> Seq(Wire)]
  <2>1. sent \in [Calls -> Seq(Wire)]
    BY DEF TInv, TypeOK
  <2>2. PICK m \in Wire : m = Copy(c)
    BY <1>1, CopyIn DEF Idles
  <2>3. PICK u \in Seq(Wire) : u = sent[c]
    BY <2>1
  <2>4. PICK s : s = Append(u, m)
    OBVIOUS
  <2>5. s \in Seq(Wire)
    BY <2>4, AppendProperties
  <2>6. sent' = [sent EXCEPT ![c] = s]
    BY <1>1, <2>2, <2>3, <2>4
  <2>7. QED
    BY <2>1, <2>5, <2>6
<1>9. QED
  BY <1>1, <1>6, <1>7, <1>8 DEF TInv, TypeOK

-----------------------------------------------------------------------------
(***************************************************************************)
(* The theorems.                                                           *)
(***************************************************************************)
LEMMA NextPreserves == PInv /\ [Next]_vars => PInv'
<1> SUFFICES ASSUME PInv, [Next]_vars
             PROVE  PInv'
  OBVIOUS
<1>1. ASSUME NEW c \in Calls, NEW kind \in Kinds, NEW o \in Objs \cup {None},
             NEW replies \in BOOLEAN, Publish(c, kind, o, replies)
      PROVE  PInv'
  BY <1>1, PublishPreserves
<1>2. ASSUME NEW c \in Calls, Send(c)
      PROVE  PInv'
  BY <1>2, SendPreserves
<1>3. CASE UNCHANGED vars
  <2>1. UNCHANGED <<opt, crc, call, sent, mates>>
    BY <1>3 DEF vars
  <2>2. Shape' /\ IdleAreBlank'
    BY <2>1 DEF PInv, Shape, IdleAreBlank, Idles
  <2>3. GivenHeads' /\ OwnHeads' /\ UnusedAreClean'
    BY <2>1 DEF PInv, GivenHeads, OwnHeads, UnusedAreClean, FromUse, UsesOf, Idles
  <2>4. SendsWell'
    <3>1. \A d \in Calls : (Exposed(d)' <=> Exposed(d)) /\ Copy(d)' = Copy(d) /\ Sent(d)' = Sent(d)
      BY <2>1 DEF Exposed, Copy, Sent
    <3>2. \A d \in Calls : \A m : Good(d, m)' <=> Good(d, m)
      BY <2>1 DEF Good, Tells
    <3>3. call' = call
      BY <2>1
    <3>4. QED
      BY <3>1, <3>2, <3>3 DEF PInv, SendsWell
  <2>5. QED
    BY <2>2, <2>3, <2>4 DEF PInv
<1>4. QED
  BY <1>1, <1>2, <1>3 DEF Next, Kinds

THEOREM Invariance == Spec => []PInv
BY InitEstablishes, NextPreserves, PTL DEF Spec

\* Every copy of a call that is not exposed carries the checksum of its own content,
\* however the copies of any number of calls interleave.
THEOREM ChecksumsAreOwn == Spec => []ChecksumIsOwn
<1>1. PInv => ChecksumIsOwn
  BY DEF PInv, SendsWell, Good, ChecksumIsOwn
<1>2. QED
  BY Invariance, <1>1, PTL

\* So it is with the correlation of a reply and with persistence.
THEOREM AddressesAreRight == Spec => []AddressedRightly
<1>1. PInv => AddressedRightly
  BY DEF PInv, SendsWell, Good, AddressedRightly
<1>2. QED
  BY Invariance, <1>1, PTL

\* Every message of a call that is not exposed is heard as it was published: whatever
\* the middleware has encoded and compressed, the consumer's brings back, for any list
\* of encodings and however the copies of any number of calls interleave.
THEOREM RoundTripHolds == Spec => []RoundTrip
<1>1. ASSUME PInv, NEW c \in Calls, ~Exposed(c), NEW m \in Sent(c)
      PROVE  \/ call[c].kind = "buffer" /\ m.type # None
             \/ c \in Plain /\ m.encoding # <<>>
             \/ ConsumeMiddleware(m) = Base(c, call[c].kind)
  <2>1. Tells(c, m) /\ m.crc \in {None, m.content}
    BY <1>1 DEF PInv, SendsWell, Good
  <2>2. QED
    BY <2>1, ToldIsHeard
<1>2. PInv => RoundTrip
  BY <1>1 DEF RoundTrip, Faithful, Base
<1>3. QED
  BY Invariance, <1>2, PTL

LEMMA NextTypes == PInv /\ PInv' /\ TInv /\ [Next]_vars => TInv'
<1> SUFFICES ASSUME PInv, PInv', TInv, [Next]_vars
             PROVE  TInv'
  OBVIOUS
<1>1. ASSUME NEW c \in Calls, NEW kind \in Kinds, NEW o \in Objs \cup {None},
             NEW replies \in BOOLEAN, Publish(c, kind, o, replies)
      PROVE  TInv'
  BY <1>1, PublishTypes
<1>2. ASSUME NEW c \in Calls, Send(c)
      PROVE  TInv'
  BY <1>2, SendTypes
<1>3. CASE UNCHANGED vars
  BY <1>3 DEF vars, TInv, TypeOK, HaveContents, Idles
<1>4. QED
  BY <1>1, <1>2, <1>3 DEF Next, Kinds

\* Every options object, checksum and copy is of the type that the middleware assumes:
\* what compresses and decodes is only ever given contents.
THEOREM TypeCorrect == Spec => []TypeOK
<1>1. TInv => TypeOK
  BY DEF TInv
<1>2. QED
  BY Invariance, InitTypes, NextTypes, <1>1, PTL DEF Spec
===============================================================================
