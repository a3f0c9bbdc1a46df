----------------------------- MODULE ParseProofs -----------------------------
(***************************************************************************)
(* Why parseDestinations() reads addresses as the scanner does, and reads  *)
(* back what it has parsed, for addresses of any length.                   *)
(***************************************************************************)
EXTENDS ParseDestinations, FoldProofs

-----------------------------------------------------------------------------
(***************************************************************************)
(* split()                                                                 *)
(***************************************************************************)
SplitStep(parts, ch, sep) ==
    IF ch = sep THEN Append(parts, <<>>) ELSE [parts EXCEPT ![Len(parts)] = Append(@, ch)]

\* What its fold chooses.
Splits(s, sep, iter) ==
    iter = [t \in SUBSET DOMAIN s |-> IF t = {} THEN << <<>> >>
                                      ELSE SplitStep(iter[t \ {Max(t)}], s[Max(t)], sep)]

LEMMA SplitUnfolds ==
    ASSUME NEW s, NEW sep
    PROVE  Split(s, sep) = (CHOOSE iter : Splits(s, sep, iter))[DOMAIN s]
BY Zenon DEF Split, FoldLeft, MapThenFoldSet, Splits, SplitStep

\* The parts of a text over C: at least one, and no separator in any.
Parts(C, sep) == {parts \in Seq(Seq(C \ {sep})) : parts # <<>>}

LEMMA SplitStepIn ==
    ASSUME NEW C, NEW sep, NEW parts \in Parts(C, sep), NEW ch \in C
    PROVE  SplitStep(parts, ch, sep) \in Parts(C, sep)
<1>1. PICK T : T = Seq(C \ {sep})
  OBVIOUS
<1>2. parts \in Seq(T) /\ parts # <<>>
  BY <1>1 DEF Parts
<1>3. <<>> \in T /\ (ch # sep => \A u \in T : Append(u, ch) \in T)
  BY <1>1
<1>4. CASE ch = sep
  <2>1. Append(parts, <<>>) \in Seq(T) /\ Append(parts, <<>>) # <<>>
    BY <1>2, <1>3, AppendProperties
  <2>2. QED
    BY <1>1, <1>4, <2>1 DEF SplitStep, Parts
<1>5. CASE ch # sep
  <2>1. PICK n : n = Len(parts)
    OBVIOUS
  <2>2. n \in 1..Len(parts) /\ parts[n] \in T
    BY <1>2, <2>1, EmptySeq, ElementOfSeq
  <2>3. PICK e \in T : e = Append(parts[n], ch)
    BY <1>3, <1>5, <2>2
  <2>4. PICK q : q = [parts EXCEPT ![n] = e]
    OBVIOUS
  <2>5. q \in Seq(T) /\ Len(q) = Len(parts)
    BY <1>2, <2>2, <2>3, <2>4, ExceptSeq
  <2>6. q # <<>>
    BY <2>2, <2>5
  <2>7. SplitStep(parts, ch, sep) = q
    BY <1>5, <2>1, <2>3, <2>4 DEF SplitStep
  <2>8. QED
    BY <1>1, <2>5, <2>6, <2>7 DEF Parts
<1>6. QED
  BY <1>4, <1>5

SplitFunction(C, sep) == [p \in Parts(C, sep) \X C |-> SplitStep(p[1], p[2], sep)]

LEMMA SplitIsFold ==
    ASSUME NEW C, NEW sep, NEW s \in Seq(C)
    PROVE  /\ Split(s, sep) = Fold(SplitFunction(C, sep), << <<>> >>, s)
           /\ Folding(Parts(C, sep), C, SplitFunction(C, sep), << <<>> >>, s)
           /\ \A p \in Parts(C, sep), ch \in C : SplitFunction(C, sep)[<<p, ch>>] = SplitStep(p, ch, sep)
<1>1. PICK A : A = Parts(C, sep)
  OBVIOUS
<1>2. PICK f : f = SplitFunction(C, sep)
  OBVIOUS
<1>3. PICK a : a = << <<>> >>
  OBVIOUS
<1>4. \A p \in A, ch \in C : f[<<p, ch>>] = SplitStep(p, ch, sep) /\ SplitStep(p, ch, sep) \in A
  BY <1>1, <1>2, SplitStepIn DEF SplitFunction
<1>5. f \in [A \X C -> A]
  BY <1>1, <1>2, <1>4 DEF SplitFunction
<1>6. a \in A
  BY <1>1, <1>3 DEF Parts
<1>7. Folding(A, C, f, a, s)
  BY <1>5, <1>6 DEF Folding
<1>8. \E iter : Splits(s, sep, iter)
  <2>1. PICK g \in [SUBSET DOMAIN s -> A] : Accumulates(f, a, s, g)
    BY <1>7, Accumulator
  <2>2. ASSUME NEW t \in SUBSET DOMAIN s, t # {}
        PROVE  f[<<g[t \ {Max(t)}], s[Max(t)]>>] = SplitStep(g[t \ {Max(t)}], s[Max(t)], sep)
    <3>1. s[Max(t)] \in C
      BY <2>2, LastIndexOf
    <3>2. g[t \ {Max(t)}] \in A
      BY <2>1
    <3>3. QED
      BY <1>4, <3>1, <3>2
  <2>3. Splits(s, sep, g)
    BY <1>3, <2>1, <2>2 DEF Accumulates, Splits
  <2>4. QED
    BY <2>3
<1>9. PICK iter : iter = CHOOSE it : Splits(s, sep, it)
  OBVIOUS
<1>10. Splits(s, sep, iter)
  BY <1>8, <1>9, Zenon
<1>11. Split(s, sep) = iter[DOMAIN s]
  BY <1>9, SplitUnfolds
<1>12. iter[{}] = a
  BY <1>3, <1>10 DEF Splits
<1>13. ASSUME NEW i \in 1..Len(s), iter[1..(i - 1)] \in A
       PROVE  iter[1..i] = f[<<iter[1..(i - 1)], s[i]>>]
  <2>1. /\ 1..i \in SUBSET DOMAIN s /\ 1..i # {} /\ s[i] \in C
        /\ Max(1..i) = i /\ (1..i) \ {i} = 1..(i - 1)
    BY FirstIndices
  <2>2. iter[1..i] = SplitStep(iter[1..(i - 1)], s[i], sep)
    BY <1>10, <2>1 DEF Splits
  <2>3. QED
    BY <1>4, <1>13, <2>1, <2>2
<1>14. Steps(A, f, a, s, iter)
  BY <1>12, <1>13 DEF Steps
<1>15. iter[DOMAIN s] = Fold(f, a, s)
  BY <1>7, <1>14, FoldAgrees
<1>16. QED
  BY <1>1, <1>2, <1>3, <1>4, <1>7, <1>11, <1>15

LEMMA SplitEmpty ==
    ASSUME NEW sep
    PROVE  Split(<<>>, sep) = << <<>> >>
<1>1. PICK s : s = <<>>
  OBVIOUS
<1>2. PICK C : C = {sep}
  OBVIOUS
<1>3. s \in Seq(C)
  BY <1>1
<1>4. PICK f : f = SplitFunction(C, sep)
  OBVIOUS
<1>5. Split(s, sep) = Fold(f, << <<>> >>, s) /\ Folding(Parts(C, sep), C, f, << <<>> >>, s)
  BY <1>3, <1>4, SplitIsFold
<1>6. Fold(f, << <<>> >>, s) = << <<>> >>
  BY <1>1, <1>5, FoldEmpty
<1>7. QED
  BY <1>1, <1>5, <1>6

LEMMA SplitAppend ==
    ASSUME NEW C, NEW sep, NEW s \in Seq(C), NEW ch \in C
    PROVE  /\ Split(s, sep) \in Parts(C, sep)
           /\ Split(Append(s, ch), sep) = SplitStep(Split(s, sep), ch, sep)
<1>1. PICK f : f = SplitFunction(C, sep)
  OBVIOUS
<1>2. PICK u \in Seq(C) : u = Append(s, ch)
  BY AppendProperties
<1>3. /\ Split(s, sep) = Fold(f, << <<>> >>, s)
      /\ Folding(Parts(C, sep), C, f, << <<>> >>, s)
      /\ \A p \in Parts(C, sep), e \in C : f[<<p, e>>] = SplitStep(p, e, sep)
  BY <1>1, SplitIsFold
<1>4. Split(u, sep) = Fold(f, << <<>> >>, u)
  BY <1>1, SplitIsFold
<1>5. Fold(f, << <<>> >>, s) \in Parts(C, sep)
  BY <1>3, FoldIn
<1>6. Fold(f, << <<>> >>, Append(s, ch)) = f[<<Fold(f, << <<>> >>, s), ch>>]
  BY <1>3, FoldAppend
<1>7. QED
  BY <1>2, <1>3, <1>4, <1>5, <1>6

\* A step adds a character to the last part, or a part.
LEMMA SplitStepLast ==
    ASSUME NEW T, NEW F \in Seq(T), NEW L \in T, NEW sep, NEW ch, Append(L, ch) \in T
    PROVE  SplitStep(Append(F, L), ch, sep) =
              IF ch = sep THEN Append(Append(F, L), <<>>) ELSE Append(F, Append(L, ch))
<1>1. PICK e \in T : e = Append(L, ch)
  OBVIOUS
<1>2. \A x, y \in T : /\ Append(F, x)[Len(Append(F, x))] = x
                      /\ [Append(F, x) EXCEPT ![Len(Append(F, x))] = y] = Append(F, y)
  BY ReplaceLast
<1>3. PICK p : p = Append(F, L)
  OBVIOUS
<1>4. p[Len(p)] = L /\ [p EXCEPT ![Len(p)] = e] = Append(F, e)
  BY <1>2, <1>3
<1>5. QED
  BY <1>1, <1>3, <1>4 DEF SplitStep

\* The texts over the characters of C.
Texts(C) == Seq(C)

LEMMA TextsGrow ==
    ASSUME NEW C
    PROVE  /\ <<>> \in Texts(C) /\ \A s \in Texts(C), ch \in C : Append(s, ch) \in Texts(C)
           /\ \A D : C \subseteq D => Texts(C) \subseteq Texts(D)
BY EmptySeq, AppendProperties, SeqMonotonic DEF Texts

LEMMA OneText == \A e : Append(<<>>, e) = <<e>>
OBVIOUS

\* The parts are one, and others before it.
LEMMA SplitLast ==
    ASSUME NEW C, NEW sep, NEW s \in Texts(C)
    PROVE  \E F \in Seq(Texts(C \ {sep})), L \in Texts(C \ {sep}) : Split(s, sep) = Append(F, L)
<1>1. PICK f : f = SplitFunction(C, sep)
  OBVIOUS
<1>2. /\ Split(s, sep) = Fold(f, << <<>> >>, s)
      /\ Folding(Parts(C, sep), C, f, << <<>> >>, s)
  BY <1>1, SplitIsFold DEF Texts
<1>3. Split(s, sep) \in Parts(C, sep)
  BY <1>2, FoldIn
<1>4. Split(s, sep) \in Seq(Texts(C \ {sep})) /\ Split(s, sep) # <<>>
  BY <1>3 DEF Parts, Texts
<1>5. QED
  BY <1>4, SequenceEmptyOrAppend

LEMMA SplitAppendLast ==
    ASSUME NEW C, NEW sep, NEW s \in Texts(C), NEW ch \in C,
           NEW F \in Seq(Texts(C)), NEW L \in Texts(C), Split(s, sep) = Append(F, L)
    PROVE  /\ ch = sep => Split(Append(s, ch), sep) = Append(Append(F, L), <<>>)
           /\ ch # sep => Split(Append(s, ch), sep) = Append(F, Append(L, ch))
<1>1. Append(L, ch) \in Texts(C)
  BY TextsGrow
<1>2. SplitStep(Append(F, L), ch, sep) =
         IF ch = sep THEN Append(Append(F, L), <<>>) ELSE Append(F, Append(L, ch))
  BY <1>1, SplitStepLast
<1>3. Split(Append(s, ch), sep) = SplitStep(Split(s, sep), ch, sep)
  BY SplitAppend DEF Texts
<1>4. QED
  BY <1>2, <1>3

\* A text without a separator is a single part; a text with one is two.
LEMMA SplitOfOne ==
    ASSUME NEW C, NEW sep, sep \notin C, NEW s \in Texts(C)
    PROVE  Split(s, sep) = <<s>>
<1>1. PICK S : S = {u \in Texts(C) : Split(u, sep) = Append(<<>>, u)}
  OBVIOUS
<1>2. <<>> \in S
  BY <1>1, SplitEmpty, OneText, TextsGrow
<1>3. ASSUME NEW u \in S, NEW ch \in C
      PROVE  Append(u, ch) \in S
  <2>1. u \in Texts(C) /\ Split(u, sep) = Append(<<>>, u) /\ ch # sep
    BY <1>1
  <2>2. PICK G : G = <<>>
    OBVIOUS
  <2>3. G \in Seq(Texts(C)) /\ Split(u, sep) = Append(G, u)
    BY <2>1, <2>2, EmptySeq
  <2>4. Split(Append(u, ch), sep) = Append(G, Append(u, ch))
    BY <2>1, <2>3, SplitAppendLast
  <2>5. QED
    BY <1>1, <2>1, <2>2, <2>4, TextsGrow
<1>4. S \in SUBSET Seq(C) /\ s \in Seq(C)
  BY <1>1 DEF Texts
<1>5. s \in S
  BY <1>2, <1>3, <1>4, SequenceInduction
<1>6. QED
  BY <1>1, <1>5, OneText

Joined(r, sep, s) == r \o <<sep>> \o s

LEMMA SplitOfTwo ==
    ASSUME NEW C, NEW sep, sep \notin C, NEW r \in Texts(C), NEW s \in Texts(C)
    PROVE  Split(Joined(r, sep, s), sep) = Append(Append(<<>>, r), s)
<1>1. PICK D : D = C \cup {sep}
  OBVIOUS
<1>2. PICK x : x = Append(r, sep)
  OBVIOUS
<1>3. PICK F : F = Append(<<>>, r)
  OBVIOUS
<1>4. PICK S : S = {u \in Texts(C) : Split(x \o u, sep) = Append(F, u)}
  OBVIOUS
<1>5. sep \in D /\ r \in Texts(D) /\ x \in Texts(D) /\ \A u \in Texts(C) : u \in Texts(D)
  BY <1>1, <1>2, TextsGrow
<1>6. F \in Seq(Texts(D)) /\ <<>> \in Seq(Texts(D))
  BY <1>3, <1>5, EmptySeq, AppendProperties
<1>7. x \o <<>> = x /\ Joined(r, sep, s) = x \o s
  BY <1>2, <1>5, ConcatEmptySeq, AppendIsConcat DEF Texts, Joined
<1>8. <<>> \in S
  <2>1. Split(r, sep) = Append(<<>>, r)
    BY SplitOfOne, OneText
  <2>2. Split(Append(r, sep), sep) = SplitStep(Split(r, sep), sep, sep)
    BY <1>5, SplitAppend DEF Texts
  <2>3. SplitStep(Split(r, sep), sep, sep) = Append(Split(r, sep), <<>>)
    BY DEF SplitStep
  <2>4. QED
    BY <1>2, <1>3, <1>4, <1>7, <2>1, <2>2, <2>3, TextsGrow
<1>9. ASSUME NEW u \in S, NEW ch \in C
      PROVE  Append(u, ch) \in S
  <2>1. u \in Texts(C) /\ Split(x \o u, sep) = Append(F, u)
    BY <1>4
  <2>2. ch # sep /\ ch \in D /\ u \in Texts(D)
    BY <1>1, <1>5, <2>1
  <2>3. x \o u \in Texts(D) /\ x \o Append(u, ch) = Append(x \o u, ch)
    BY <1>5, <2>2, ConcatAppend DEF Texts
  <2>4. Split(Append(x \o u, ch), sep) = Append(F, Append(u, ch))
    BY <1>6, <2>1, <2>2, <2>3, SplitAppendLast
  <2>5. QED
    BY <1>4, <2>1, <2>3, <2>4, TextsGrow
<1>10. S \in SUBSET Seq(C) /\ s \in Seq(C)
  BY <1>4 DEF Texts
<1>11. s \in S
  BY <1>8, <1>9, <1>10, SequenceInduction
<1>12. QED
  BY <1>3, <1>4, <1>7, <1>11

-----------------------------------------------------------------------------
(***************************************************************************)
(* trim()                                                                  *)
(***************************************************************************)
Inked(s) == {i \in 1..Len(s) : s[i] # Blank}

LEMMA TrimEffect ==
    ASSUME NEW C, NEW s \in Seq(C)
    PROVE  /\ Trim(s) \in Seq(C)
           /\ Trim(s) = <<>> \/ (Trim(s)[1] # Blank /\ Trim(s)[Len(Trim(s))] # Blank)
<1>1. Len(s) \in Nat /\ \A i \in 1..Len(s) : s[i] \in C
  BY ElementsOf
<1>2. CASE Inked(s) = {}
  BY <1>2 DEF Trim, Inked
<1>3. CASE Inked(s) # {}
  <2>1. Inked(s) \in SUBSET Nat /\ Inked(s) \in SUBSET (1..Len(s))
    BY <1>1 DEF Inked
  <2>2. \E i \in Inked(s) : \A j \in Inked(s) : i <= j
    BY <1>3, <2>1, LeastElement
  <2>3. \E i \in Inked(s) : \A j \in Inked(s) : j <= i
    <3>1. Max(Inked(s)) \in Inked(s) /\ \A j \in Inked(s) : j <= Max(Inked(s))
      BY <1>1, <1>3, <2>1, Greatest
    <3>2. QED
      BY <3>1
  <2>4. PICK m : m = CHOOSE i \in Inked(s) : \A j \in Inked(s) : i <= j
    OBVIOUS
  <2>5. PICK n : n = CHOOSE i \in Inked(s) : \A j \in Inked(s) : j <= i
    OBVIOUS
  <2>6. m \in Inked(s) /\ \A j \in Inked(s) : m <= j
    BY <2>2, <2>4
  <2>7. n \in Inked(s) /\ \A j \in Inked(s) : j <= n
    BY <2>3, <2>5
  <2>8. m \in 1..Len(s) /\ n \in 1..Len(s) /\ m <= n /\ s[m] # Blank /\ s[n] # Blank
    BY <2>6, <2>7 DEF Inked
  <2>9. PICK u : u = SubSeq(s, m, n)
    OBVIOUS
  <2>10. Trim(s) = u
    BY <1>3, <2>4, <2>5, <2>9 DEF Trim, Inked
  <2>11. u \in Seq(C) /\ Len(u) = n - m + 1 /\ u[1] = s[m] /\ u[Len(u)] = s[n]
    BY <1>1, <2>8, <2>9
  <2>12. QED
    BY <2>8, <2>10, <2>11
<1>4. QED
  BY <1>2, <1>3

\* A text that begins and ends in ink is trimmed.
LEMMA TrimOfTrimmed ==
    ASSUME NEW C, NEW s \in Seq(C), s = <<>> \/ (s[1] # Blank /\ s[Len(s)] # Blank)
    PROVE  Trim(s) = s
<1>1. CASE s = <<>>
  BY <1>1 DEF Trim
<1>2. CASE s # <<>>
  <2>1. Len(s) \in Nat \ {0}
    BY <1>2, EmptySeq
  <2>2. 1 \in Inked(s) /\ Len(s) \in Inked(s) /\ \A j \in Inked(s) : 1 <= j /\ j <= Len(s)
    BY <1>2, <2>1 DEF Inked
  <2>3. \A i \in Inked(s) : i \in Nat
    BY <2>1 DEF Inked
  <2>4. PICK m : m = CHOOSE i \in Inked(s) : \A j \in Inked(s) : i <= j
    OBVIOUS
  <2>5. PICK n : n = CHOOSE i \in Inked(s) : \A j \in Inked(s) : j <= i
    OBVIOUS
  <2>6. m \in Inked(s) /\ m <= 1
    BY <2>2, <2>4
  <2>7. n \in Inked(s) /\ Len(s) <= n
    BY <2>2, <2>5
  <2>8. m = 1 /\ n = Len(s)
    BY <2>1, <2>2, <2>3, <2>6, <2>7
  <2>9. Trim(s) = SubSeq(s, m, n)
    BY <2>2, <2>4, <2>5 DEF Trim, Inked
  <2>10. QED
    BY <2>8, <2>9, SubSeqFull
<1>3. QED
  BY <1>1, <1>2

-----------------------------------------------------------------------------
(***************************************************************************)
(* What parts, strings and addresses denote.                               *)
(***************************************************************************)
Text == Texts(Alphabet)
InPart == Alphabet \ {";"}     \* the characters of a part, of what a ':' ends in it,
InField == InPart \ {":"}      \* and of a routing key
InKey == InField \ {","}

Trimmed(s) == s = <<>> \/ (s[1] # Blank /\ s[Len(s)] # Blank)

Destinations == {d \in [exchange : Texts(InField), routingKey : Texts(InKey)] :
                    Trimmed(d.exchange) /\ Trimmed(d.routingKey)}

LEMMA Alphabets ==
    /\ Texts(InKey) \subseteq Texts(InField) /\ Texts(InField) \subseteq Texts(InPart)
    /\ Texts(InPart) \subseteq Text
<1>1. InKey \subseteq InField /\ InField \subseteq InPart /\ InPart \subseteq Alphabet
  BY DEF InPart, InField, InKey
<1>2. QED
  BY <1>1, TextsGrow DEF Text

LEMMA TrimIn ==
    ASSUME NEW C, NEW s \in Texts(C)
    PROVE  Trim(s) \in Texts(C) /\ Trimmed(Trim(s))
BY TrimEffect DEF Texts, Trimmed

LEMMA KeysDenote ==
    ASSUME NEW exchange \in Texts(InField), Trimmed(exchange), NEW keys \in Texts(InField)
    PROVE  DestinationsFromRoutingKeys(exchange, keys) \in Seq(Destinations)
<1>1. PICK F \in Seq(Texts(InKey)), L \in Texts(InKey) : Split(keys, ",") = Append(F, L)
  BY SplitLast DEF InKey
<1>2. PICK q : q = Append(F, L)
  OBVIOUS
<1>3. q \in Seq(Texts(InKey))
  BY <1>2, AppendProperties
<1>4. Len(q) \in Nat /\ \A i \in 1..Len(q) : q[i] \in Texts(InKey)
  BY <1>3, ElementsOf
<1>5. \A i \in 1..Len(q) : [exchange |-> exchange, routingKey |-> Trim(q[i])] \in Destinations
  BY <1>4, TrimIn DEF Destinations
<1>6. DestinationsFromRoutingKeys(exchange, keys) =
         [i \in 1..Len(q) |-> [exchange |-> exchange, routingKey |-> Trim(q[i])]]
  BY <1>1, <1>2 DEF DestinationsFromRoutingKeys
<1>7. QED
  BY <1>4, <1>5, <1>6

LEMMA PartDenotes ==
    ASSUME NEW part \in Texts(InPart)
    PROVE  OfPart(part) \in Seq(Destinations)
<1>1. PICK F \in Seq(Texts(InField)), L \in Texts(InField) : Split(part, ":") = Append(F, L)
  BY SplitLast DEF InField
<1>2. PICK dd : dd = Append(F, L)
  OBVIOUS
<1>3. dd \in Seq(Texts(InField)) /\ Len(dd) = Len(F) + 1 /\ Len(F) \in Nat
  BY <1>2, AppendProperties, LenProperties
<1>4. dd[1] \in Texts(InField) /\ (Len(dd) > 1 => dd[2] \in Texts(InField))
  BY <1>3, ElementOfSeq
<1>5. Trim(dd[1]) \in Texts(InField) /\ Trimmed(Trim(dd[1])) /\ <<>> \in Texts(InField) /\ Trimmed(<<>>)
  BY <1>4, TrimIn, TextsGrow DEF Trimmed
<1>6. Len(dd) > 1 => DestinationsFromRoutingKeys(Trim(dd[1]), dd[2]) \in Seq(Destinations)
  BY <1>4, <1>5, KeysDenote
<1>7. DestinationsFromRoutingKeys(<<>>, dd[1]) \in Seq(Destinations)
  BY <1>4, <1>5, KeysDenote
<1>8. <<>> \in Seq(Destinations)
  BY EmptySeq
<1>9. QED
  BY <1>1, <1>2, <1>6, <1>7, <1>8 DEF OfPart

PartResults(d) == [j \in 1..Len(d) |-> OfPart(d[j])]
StringResults(ss) == [i \in 1..Len(ss) |-> OfString(ss[i])]

LEMMA PartResultsAppend ==
    ASSUME NEW d \in Seq(Texts(InPart)), NEW part \in Texts(InPart)
    PROVE  /\ PartResults(d) \in Seq(Seq(Destinations))
           /\ PartResults(Append(d, part)) = Append(PartResults(d), OfPart(part))
<1>1. PICK E : E = Seq(Destinations)
  OBVIOUS
<1>2. Len(d) \in Nat /\ \A j \in 1..Len(d) : OfPart(d[j]) \in E
  BY <1>1, ElementsOf, PartDenotes
<1>3. PICK G : G = PartResults(d)
  OBVIOUS
<1>4. G \in Seq(E) /\ Len(G) = Len(d) /\ \A j \in 1..Len(d) : G[j] = OfPart(d[j])
  BY <1>2, <1>3 DEF PartResults
<1>5. PICK q : q = Append(d, part)
  OBVIOUS
<1>6. PICK n : n = Len(d) + 1
  OBVIOUS
<1>7. Len(q) = n /\ q[n] = part /\ (\A j \in 1..Len(d) : q[j] = d[j])
  BY <1>5, <1>6, AppendProperties
<1>8. PICK H : H = PartResults(q)
  OBVIOUS
<1>9. n \in 1..n /\ \A j \in 1..Len(d) : j \in 1..n
  BY <1>2, <1>6
<1>10. H = [j \in 1..n |-> H[j]] /\ \A j \in 1..n : H[j] = OfPart(q[j])
  BY <1>7, <1>8 DEF PartResults
<1>11. (\A j \in 1..Len(G) : H[j] = G[j]) /\ H[n] = OfPart(part)
  BY <1>4, <1>7, <1>9, <1>10
<1>12. OfPart(part) \in E
  BY <1>1, PartDenotes
<1>13. H = Append(G, OfPart(part))
  <2>1. Continues(H, G, OfPart(part))
    BY <1>4, <1>6, <1>10, <1>11 DEF Continues
  <2>2. QED
    BY <1>4, <1>12, <2>1, ContinuesIsAppend
<1>14. QED
  BY <1>1, <1>3, <1>4, <1>5, <1>8, <1>13

\* The parts of a string, one after another.
LEMMA StringDenotes ==
    ASSUME NEW s, NEW F \in Seq(Texts(InPart)), NEW L \in Texts(InPart), Split(s, ";") = Append(F, L)
    PROVE  /\ FlattenSeq(PartResults(F)) \in Seq(Destinations) /\ OfPart(L) \in Seq(Destinations)
           /\ FlattenSeq(PartResults(Append(F, L))) = FlattenSeq(PartResults(F)) \o OfPart(L)
           /\ OfString(s) = FlattenSeq(PartResults(F)) \o OfPart(L)
           /\ OfString(s) \in Seq(Destinations)
<1>1. OfString(s) = FlattenSeq(PartResults(Append(F, L)))
  BY DEF OfString, PartResults
<1>2. PartResults(Append(F, L)) = Append(PartResults(F), OfPart(L))
  BY PartResultsAppend
<1>3. PartResults(F) \in Seq(Seq(Destinations)) /\ OfPart(L) \in Seq(Destinations)
  BY PartResultsAppend, PartDenotes
<1>4. /\ FlattenSeq(PartResults(F)) \in Seq(Destinations)
      /\ FlattenSeq(Append(PartResults(F), OfPart(L))) = FlattenSeq(PartResults(F)) \o OfPart(L)
  BY <1>3, FlattenAppend
<1>5. FlattenSeq(PartResults(F)) \o OfPart(L) \in Seq(Destinations)
  BY <1>3, <1>4, ConcatProperties
<1>6. QED
  BY <1>1, <1>2, <1>3, <1>4, <1>5

LEMMA StringDenotesSome ==
    ASSUME NEW s \in Text
    PROVE  OfString(s) \in Seq(Destinations)
<1>1. PICK F \in Seq(Texts(InPart)), L \in Texts(InPart) : Split(s, ";") = Append(F, L)
  BY SplitLast DEF InPart, Text
<1>2. QED
  BY <1>1, StringDenotes

LEMMA StringResultsAppend ==
    ASSUME NEW ss \in Seq(Text), NEW s \in Text
    PROVE  /\ StringResults(ss) \in Seq(Seq(Destinations))
           /\ StringResults(Append(ss, s)) = Append(StringResults(ss), OfString(s))
<1>1. PICK E : E = Seq(Destinations)
  OBVIOUS
<1>2. Len(ss) \in Nat /\ \A j \in 1..Len(ss) : OfString(ss[j]) \in E
  BY <1>1, ElementsOf, StringDenotesSome
<1>3. PICK G : G = StringResults(ss)
  OBVIOUS
<1>4. G \in Seq(E) /\ Len(G) = Len(ss) /\ \A j \in 1..Len(ss) : G[j] = OfString(ss[j])
  BY <1>2, <1>3 DEF StringResults
<1>5. PICK q : q = Append(ss, s)
  OBVIOUS
<1>6. PICK n : n = Len(ss) + 1
  OBVIOUS
<1>7. Len(q) = n /\ q[n] = s /\ (\A j \in 1..Len(ss) : q[j] = ss[j])
  BY <1>5, <1>6, AppendProperties
<1>8. PICK H : H = StringResults(q)
  OBVIOUS
<1>9. n \in 1..n /\ \A j \in 1..Len(ss) : j \in 1..n
  BY <1>2, <1>6
<1>10. H = [j \in 1..n |-> H[j]] /\ \A j \in 1..n : H[j] = OfString(q[j])
  BY <1>7, <1>8 DEF StringResults
<1>11. (\A j \in 1..Len(G) : H[j] = G[j]) /\ H[n] = OfString(s)
  BY <1>4, <1>7, <1>9, <1>10
<1>12. OfString(s) \in E
  BY <1>1, StringDenotesSome
<1>13. H = Append(G, OfString(s))
  <2>1. Continues(H, G, OfString(s))
    BY <1>4, <1>6, <1>10, <1>11 DEF Continues
  <2>2. QED
    BY <1>4, <1>12, <2>1, ContinuesIsAppend
<1>14. QED
  BY <1>1, <1>3, <1>4, <1>5, <1>8, <1>13

\* The strings of an address, one after another.
LEMMA ParseAppend ==
    ASSUME NEW ss \in Seq(Text), NEW s \in Text
    PROVE  /\ Parse(ss) \in Seq(Destinations)
           /\ Parse(Append(ss, s)) = Parse(ss) \o OfString(s)
<1>1. \A u : Parse(u) = FlattenSeq(StringResults(u))
  BY DEF Parse, StringResults
<1>2. /\ StringResults(ss) \in Seq(Seq(Destinations)) /\ OfString(s) \in Seq(Destinations)
      /\ StringResults(Append(ss, s)) = Append(StringResults(ss), OfString(s))
  BY StringResultsAppend, StringDenotesSome
<1>3. /\ FlattenSeq(StringResults(ss)) \in Seq(Destinations)
      /\ FlattenSeq(Append(StringResults(ss), OfString(s))) = FlattenSeq(StringResults(ss)) \o OfString(s)
  BY <1>2, FlattenAppend
<1>4. QED
  BY <1>1, <1>2, <1>3

LEMMA ParseEmpty == Parse(<<>>) = <<>> /\ FlattenSeq(PartResults(<<>>)) = <<>>
<1>1. StringResults(<<>>) = <<>> /\ PartResults(<<>>) = <<>>
  BY DEF StringResults, PartResults
<1>2. QED
  BY <1>1, FlattenEmpty DEF Parse, StringResults

-----------------------------------------------------------------------------
(***************************************************************************)
(* Destinations written out and read back.                                 *)
(***************************************************************************)
WrittenOut(d) == Joined(d.exchange, ":", d.routingKey)

LEMMA WrittenIn ==
    ASSUME NEW d \in Destinations
    PROVE  WrittenOut(d) \in Texts(InPart)
<1>1. d.exchange \in Seq(InPart) /\ d.routingKey \in Seq(InPart)
  BY Alphabets DEF Destinations, Texts
<1>2. ":" \in InPart
  BY DEF InPart, Alphabet
<1>3. QED
  BY <1>1, <1>2 DEF WrittenOut, Joined, Texts

\* The part that a destination is written as denotes it, and nothing else.
LEMMA WrittenPart ==
    ASSUME NEW d \in Destinations
    PROVE  OfPart(WrittenOut(d)) = <<d>>
<1>1. PICK e \in Texts(InField), k \in Texts(InKey) :
         d = [exchange |-> e, routingKey |-> k] /\ Trimmed(e) /\ Trimmed(k)
  BY DEF Destinations
<1>2. d.exchange = e /\ d.routingKey = k
  BY <1>1
<1>3. Trim(e) = e /\ Trim(k) = k
  BY <1>1, TrimOfTrimmed DEF Trimmed, Texts
<1>4. Split(WrittenOut(d), ":") = Append(Append(<<>>, e), k)
  <2>1. ":" \notin InField /\ k \in Texts(InField)
    BY Alphabets DEF InField
  <2>2. Split(Joined(e, ":", k), ":") = Append(Append(<<>>, e), k)
    BY <2>1, SplitOfTwo
  <2>3. QED
    BY <1>2, <2>2 DEF WrittenOut
<1>5. PICK dd : dd = Append(Append(<<>>, e), k)
  OBVIOUS
<1>6. Len(dd) = 2 /\ dd[1] = e /\ dd[2] = k
  BY <1>5
<1>7. OfPart(WrittenOut(d)) = DestinationsFromRoutingKeys(e, k)
  BY <1>3, <1>4, <1>5, <1>6 DEF OfPart
<1>8. Split(k, ",") = <<k>>
  <2>1. "," \notin InKey
    BY DEF InKey
  <2>2. QED
    BY <2>1, SplitOfOne
<1>9. DestinationsFromRoutingKeys(e, k) = [i \in 1..1 |-> [exchange |-> e, routingKey |-> Trim(<<k>>[i])]]
  BY <1>8 DEF DestinationsFromRoutingKeys
<1>10. \A i \in 1..1 : [exchange |-> e, routingKey |-> Trim(<<k>>[i])] = d
  BY <1>1, <1>3
<1>11. DestinationsFromRoutingKeys(e, k) = [i \in 1..1 |-> d]
  BY <1>9, <1>10
<1>12. QED
  BY <1>7, <1>11

LEMMA WrittenString ==
    ASSUME NEW d \in Destinations
    PROVE  OfString(WrittenOut(d)) = <<d>>
<1>1. PICK w \in Texts(InPart) : w = WrittenOut(d)
  BY WrittenIn
<1>2. ";" \notin InPart
  BY DEF InPart
<1>3. Split(w, ";") = Append(<<>>, w)
  BY <1>2, SplitOfOne, OneText
<1>4. PICK F : F = <<>>
  OBVIOUS
<1>5. F \in Seq(Texts(InPart)) /\ Split(w, ";") = Append(F, w)
  BY <1>3, <1>4, EmptySeq
<1>6. OfString(w) = FlattenSeq(PartResults(F)) \o OfPart(w) /\ OfPart(w) \in Seq(Destinations)
  BY <1>5, StringDenotes
<1>7. FlattenSeq(PartResults(F)) = <<>>
  BY <1>4, ParseEmpty
<1>8. OfString(w) = OfPart(w)
  BY <1>6, <1>7, ConcatEmptySeq
<1>9. QED
  BY <1>1, <1>8, WrittenPart

LEMMA WrittenAppend ==
    ASSUME NEW ds \in Seq(Destinations), NEW d \in Destinations
    PROVE  Written(ds) \in Seq(Text) /\ Written(Append(ds, d)) = Append(Written(ds), WrittenOut(d))
<1>1. Len(ds) \in Nat /\ \A i \in 1..Len(ds) : ds[i] \in Destinations
  BY ElementsOf
<1>2. \A e \in Destinations : WrittenOut(e) \in Text
  BY WrittenIn, Alphabets
<1>3. PICK G : G = Written(ds)
  OBVIOUS
<1>4. G = [i \in 1..Len(ds) |-> WrittenOut(ds[i])]
  BY <1>3 DEF Written, WrittenOut, Joined
<1>5. G \in Seq(Text) /\ Len(G) = Len(ds) /\ \A j \in 1..Len(ds) : G[j] = WrittenOut(ds[j])
  BY <1>1, <1>2, <1>4
<1>6. PICK q : q = Append(ds, d)
  OBVIOUS
<1>7. PICK n : n = Len(ds) + 1
  OBVIOUS
<1>8. Len(q) = n /\ q[n] = d /\ \A j \in 1..Len(ds) : q[j] = ds[j]
  BY <1>6, <1>7, AppendProperties
<1>9. PICK H : H = Written(q)
  OBVIOUS
<1>10. H = [j \in 1..n |-> WrittenOut(q[j])]
  BY <1>8, <1>9 DEF Written, WrittenOut, Joined
<1>11. n \in 1..n /\ \A j \in 1..Len(ds) : j \in 1..n
  BY <1>1, <1>7
<1>12. H = [j \in 1..n |-> H[j]] /\ \A j \in 1..n : H[j] = WrittenOut(q[j])
  BY <1>10
<1>13. Continues(H, G, WrittenOut(d))
  BY <1>5, <1>7, <1>8, <1>11, <1>12 DEF Continues
<1>14. H = Append(G, WrittenOut(d))
  BY <1>2, <1>5, <1>13, ContinuesIsAppend
<1>15. QED
  BY <1>3, <1>5, <1>6, <1>9, <1>14

LEMMA WrittenIsReadBack ==
    ASSUME NEW ds \in Seq(Destinations)
    PROVE  Parse(Written(ds)) = ds
<1>1. PICK S : S = {u \in Seq(Destinations) : Parse(Written(u)) = u}
  OBVIOUS
<1>2. <<>> \in S
  <2>1. Written(<<>>) = <<>>
    BY DEF Written
  <2>2. <<>> \in Seq(Destinations)
    BY EmptySeq
  <2>3. Parse(Written(<<>>)) = <<>>
    BY <2>1, ParseEmpty
  <2>4. QED
    BY <1>1, <2>2, <2>3
<1>3. ASSUME NEW u \in S, NEW d \in Destinations
      PROVE  Append(u, d) \in S
  <2>1. u \in Seq(Destinations) /\ Parse(Written(u)) = u
    BY <1>1
  <2>2. Written(u) \in Seq(Text) /\ Written(Append(u, d)) = Append(Written(u), WrittenOut(d))
    BY <2>1, WrittenAppend
  <2>3. WrittenOut(d) \in Text
    BY WrittenIn, Alphabets
  <2>4. Parse(Append(Written(u), WrittenOut(d))) = Parse(Written(u)) \o OfString(WrittenOut(d))
    BY <2>2, <2>3, ParseAppend
  <2>5. u \o <<d>> = Append(u, d) /\ Append(u, d) \in Seq(Destinations)
    BY <2>1, AppendIsConcat, AppendProperties
  <2>6. Parse(Written(Append(u, d))) = Append(u, d)
    BY <2>1, <2>2, <2>4, <2>5, WrittenString
  <2>7. QED
    BY <1>1, <2>5, <2>6
<1>4. S \in SUBSET Seq(Destinations)
  BY <1>1
<1>5. ds \in S
  BY <1>2, <1>3, <1>4, SequenceInduction
<1>6. QED
  BY <1>1, <1>5

LEMMA ParseIn ==
    ASSUME NEW ss \in Seq(Text)
    PROVE  Parse(ss) \in Seq(Destinations)
<1>1. PICK s \in Text : TRUE
  BY TextsGrow DEF Text
<1>2. QED
  BY <1>1, ParseAppend

\* Whatever addresses are parsed, what they denote is read back from itself.
THEOREM ParsedIsReadBack ==
    \A ss \in Seq(Text) : Parse(Written(Parse(ss))) = Parse(ss)
BY ParseIn, WrittenIsReadBack

-----------------------------------------------------------------------------
(***************************************************************************)
(* The scanner at a place in a part: h is what stands before the first     *)
(* colon, q the keys behind it, or all of it when there is none.  Of the   *)
(* keys, K are over, and k is the one being read.                          *)
(***************************************************************************)
TrimmedKeys(K) == [i \in 1..Len(K) |-> Trim(K[i])]

Scan(r, h, n, ks, k) == [results |-> r, head |-> h, colons |-> n, keys |-> ks, key |-> k]

Reading(r, h, n, K, k) == Scan(r, h, n, TrimmedKeys(K), k)

Keyed(q, K, k) ==
    K \in Seq(Texts(InKey)) /\ k \in Texts(InKey) /\ Split(q, ",") = Append(K, k)

NoColon(p, h, n, q) == n = 0 /\ h = p /\ q = p
OneColon(p, h, n, q) == n = 1 /\ p = Joined(h, ":", q)
MoreColons(p, h, n, q) ==
    /\ n = 2
    /\ \E G \in Seq(Texts(InField)), L \in Texts(InField) :
          Len(G) > 1 /\ G[1] = h /\ G[2] = q /\ Split(p, ":") = Append(G, L)

Stands(p, h, n, q) ==
    /\ h \in Texts(InField) /\ q \in Texts(InField)
    /\ NoColon(p, h, n, q) \/ OneColon(p, h, n, q) \/ MoreColons(p, h, n, q)

Reads(sc, p, r) ==
    \E h, n, q, K, k : Stands(p, h, n, q) /\ Keyed(q, K, k) /\ sc = Reading(r, h, n, K, k)

LEMMA TrimmedKeysAppend ==
    ASSUME NEW K \in Seq(Texts(InKey)), NEW k \in Texts(InKey)
    PROVE  /\ TrimmedKeys(K) \in Seq(Texts(InKey))
           /\ TrimmedKeys(Append(K, k)) = Append(TrimmedKeys(K), Trim(k))
<1>1. PICK E : E = Texts(InKey)
  OBVIOUS
<1>2. Len(K) \in Nat /\ \A j \in 1..Len(K) : Trim(K[j]) \in E
  BY <1>1, ElementsOf, TrimIn
<1>3. PICK G : G = TrimmedKeys(K)
  OBVIOUS
<1>4. G \in Seq(E) /\ Len(G) = Len(K) /\ \A j \in 1..Len(K) : G[j] = Trim(K[j])
  BY <1>2, <1>3 DEF TrimmedKeys
<1>5. PICK q : q = Append(K, k)
  OBVIOUS
<1>6. PICK n : n = Len(K) + 1
  OBVIOUS
<1>7. Len(q) = n /\ q[n] = k /\ (\A j \in 1..Len(K) : q[j] = K[j])
  BY <1>5, <1>6, AppendProperties
<1>8. PICK H : H = TrimmedKeys(q)
  OBVIOUS
<1>9. n \in 1..n /\ \A j \in 1..Len(K) : j \in 1..n
  BY <1>2, <1>6
<1>10. H = [j \in 1..n |-> H[j]] /\ \A j \in 1..n : H[j] = Trim(q[j])
  BY <1>7, <1>8 DEF TrimmedKeys
<1>11. (\A j \in 1..Len(G) : H[j] = G[j]) /\ H[n] = Trim(k)
  BY <1>4, <1>7, <1>9, <1>10
<1>12. Trim(k) \in E
  BY <1>1, TrimIn
<1>13. H = Append(G, Trim(k))
  <2>1. Continues(H, G, Trim(k))
    BY <1>4, <1>6, <1>10, <1>11 DEF Continues
  <2>2. QED
    BY <1>4, <1>12, <2>1, ContinuesIsAppend
<1>14. QED
  BY <1>1, <1>3, <1>4, <1>5, <1>8, <1>13

LEMMA KeyedStart == Keyed(<<>>, <<>>, <<>>) /\ TrimmedKeys(<<>>) = <<>>
<1>1. Split(<<>>, ",") = Append(<<>>, <<>>)
  BY SplitEmpty, OneText
<1>2. <<>> \in Seq(Texts(InKey)) /\ <<>> \in Texts(InKey)
  BY EmptySeq, TextsGrow
<1>3. TrimmedKeys(<<>>) = <<>>
  BY DEF TrimmedKeys
<1>4. QED
  BY <1>1, <1>2, <1>3 DEF Keyed

LEMMA KeyedAppend ==
    ASSUME NEW q \in Texts(InField), NEW K, NEW k, Keyed(q, K, k), NEW ch \in InField
    PROVE  /\ ch = "," => Keyed(Append(q, ch), Append(K, k), <<>>)
           /\ ch # "," => Keyed(Append(q, ch), K, Append(k, ch))
<1>1. K \in Seq(Texts(InKey)) /\ k \in Texts(InKey) /\ Split(q, ",") = Append(K, k)
  BY DEF Keyed
<1>2. Seq(Texts(InKey)) \subseteq Seq(Texts(InField)) /\ Texts(InKey) \subseteq Texts(InField)
  BY Alphabets, SeqMonotonic
<1>3. /\ ch = "," => Split(Append(q, ch), ",") = Append(Append(K, k), <<>>)
      /\ ch # "," => Split(Append(q, ch), ",") = Append(K, Append(k, ch))
  <2>1. PICK sep : sep = ","
    OBVIOUS
  <2>2. K \in Seq(Texts(InField)) /\ k \in Texts(InField) /\ Split(q, sep) = Append(K, k)
    BY <1>1, <1>2, <2>1
  <2>3. /\ ch = sep => Split(Append(q, ch), sep) = Append(Append(K, k), <<>>)
        /\ ch # sep => Split(Append(q, ch), sep) = Append(K, Append(k, ch))
    BY <2>2, SplitAppendLast
  <2>4. QED
    BY <2>1, <2>3
<1>4. <<>> \in Texts(InKey) /\ (ch # "," => Append(k, ch) \in Texts(InKey))
  BY <1>1, TextsGrow DEF InKey
<1>5. Append(K, k) \in Seq(Texts(InKey))
  BY <1>1, AppendProperties
<1>6. QED
  BY <1>1, <1>3, <1>4, <1>5 DEF Keyed

LEMMA StandsAt ==
    ASSUME NEW p, NEW h, NEW n, NEW q, Stands(p, h, n, q)
    PROVE  /\ n = 0 <=> NoColon(p, h, n, q)
           /\ n = 1 <=> OneColon(p, h, n, q)
           /\ n = 2 <=> MoreColons(p, h, n, q)
           /\ n \in {0, 1, 2} /\ h \in Texts(InField) /\ q \in Texts(InField)
BY DEF Stands, NoColon, OneColon, MoreColons

LEMMA TwoParts ==
    ASSUME NEW T, NEW h \in T, NEW q \in T, NEW F, F = Append(<<>>, h), NEW G, G = Append(F, q)
    PROVE  G \in Seq(T) /\ Len(G) > 1 /\ G[1] = h /\ G[2] = q
<1>1. F \in Seq(T) /\ Len(F) = 1 /\ F[1] = h
  OBVIOUS
<1>2. PICK n : n = Len(F) + 1
  OBVIOUS
<1>3. G \in Seq(T)
  BY <1>1
<1>4. Len(G) = n /\ G[n] = q /\ (\A j \in 1..Len(F) : G[j] = F[j])
  BY <1>1, <1>2, AppendProperties
<1>5. n = 2 /\ 1 \in 1..Len(F)
  BY <1>1, <1>2
<1>6. Len(G) > 1
  BY <1>4, <1>5
<1>7. G[1] = h
  BY <1>1, <1>4, <1>5
<1>8. QED
  BY <1>3, <1>4, <1>5, <1>6, <1>7

\* Reading on in the same part.
LEMMA StandsAppend ==
    ASSUME NEW p \in Texts(InPart), NEW h, NEW n, NEW q, Stands(p, h, n, q), NEW ch \in InPart
    PROVE  /\ n = 0 /\ ch # ":" => Stands(Append(p, ch), Append(p, ch), 0, Append(q, ch))
           /\ n = 0 /\ ch = ":" => Stands(Append(p, ch), h, 1, <<>>)
           /\ n = 1 /\ ch # ":" => Stands(Append(p, ch), h, 1, Append(q, ch))
           /\ n > 0 /\ ch = ":" => Stands(Append(p, ch), h, 2, q)
           /\ n = 2 /\ ch # ":" => Stands(Append(p, ch), h, 2, q)
<1>1. h \in Texts(InField) /\ q \in Texts(InField) /\ <<>> \in Texts(InField)
  BY StandsAt, TextsGrow
<1>2. ch # ":" => ch \in InField
  BY DEF InField
<1>3. ":" \notin InField
  BY DEF InField
<1>4. n = 0 /\ ch # ":" => Stands(Append(p, ch), Append(p, ch), 0, Append(q, ch))
  <2>1. HAVE n = 0 /\ ch # ":"
  <2>2. q = p /\ Append(q, ch) \in Texts(InField)
    BY <1>1, <1>2, <2>1, StandsAt, TextsGrow DEF NoColon
  <2>3. QED
    BY <2>2 DEF Stands, NoColon
<1>5. n = 0 /\ ch = ":" => Stands(Append(p, ch), h, 1, <<>>)
  <2>1. HAVE n = 0 /\ ch = ":"
  <2>2. h = p
    BY <2>1, StandsAt DEF NoColon
  <2>3. Append(p, ch) = Joined(h, ch, <<>>)
    BY <2>2, AppendIsConcat, ConcatEmptySeq, AppendProperties DEF Joined, Texts
  <2>4. QED
    BY <1>1, <2>1, <2>3 DEF Stands, OneColon
<1>6. n = 1 /\ ch # ":" => Stands(Append(p, ch), h, 1, Append(q, ch))
  <2>1. HAVE n = 1 /\ ch # ":"
  <2>2. PICK sep : sep = ":"
    OBVIOUS
  <2>3. p = Joined(h, sep, q)
    BY <2>1, <2>2, StandsAt DEF OneColon
  <2>4. Append(q, ch) \in Texts(InField)
    BY <1>1, <1>2, <2>1, TextsGrow
  <2>5. Append(p, ch) = Joined(h, sep, Append(q, ch))
    <3>1. Append(h, sep) \in Seq(InPart) /\ q \in Seq(InPart) /\ h \in Seq(InPart) /\ sep \in InPart
      BY <1>1, <2>2, Alphabets, AppendProperties DEF Texts, InPart, Alphabet
    <3>2. \A u : Joined(h, sep, u) = Append(h, sep) \o u
      BY <3>1, AppendIsConcat DEF Joined
    <3>3. Append(h, sep) \o Append(q, ch) = Append(Append(h, sep) \o q, ch)
      BY <3>1, ConcatAppend
    <3>4. QED
      BY <2>3, <3>2, <3>3
  <2>6. QED
    BY <1>1, <2>2, <2>4, <2>5 DEF Stands, OneColon
<1>7. n > 0 /\ ch = ":" => Stands(Append(p, ch), h, 2, q)
  <2>1. HAVE n > 0 /\ ch = ":"
  <2>2. n = 1 \/ n = 2
    BY <2>1, StandsAt
  <2>3. \E G \in Seq(Texts(InField)), L \in Texts(InField) :
           Len(G) > 1 /\ G[1] = h /\ G[2] = q /\ Split(Append(p, ch), ":") = Append(G, L)
    <3>1. PICK sep : sep = ":"
      OBVIOUS
    <3>2. Seq(Texts(InField)) \subseteq Seq(Texts(InPart)) /\ Texts(InField) \subseteq Texts(InPart)
      BY Alphabets, SeqMonotonic
    <3>3. PICK e : e = <<>>
      OBVIOUS
    <3>4. e \in Texts(InField)
      BY <1>1, <3>3
    <3>5. CASE n = 1
      <4>1. p = Joined(h, sep, q) /\ sep \notin InField
        BY <1>3, <3>1, <3>5, StandsAt DEF OneColon
      <4>2. PICK F : F = Append(<<>>, h)
        OBVIOUS
      <4>3. Split(p, sep) = Append(F, q)
        BY <1>1, <4>1, <4>2, SplitOfTwo
      <4>4. F \in Seq(Texts(InField)) /\ Len(F) = 1 /\ F[1] = h
        BY <1>1, <4>2
      <4>5. PICK G : G = Append(F, q)
        OBVIOUS
      <4>6. G \in Seq(Texts(InField)) /\ Len(G) > 1 /\ G[1] = h /\ G[2] = q
        BY <1>1, <4>2, <4>5, TwoParts
      <4>7. F \in Seq(Texts(InPart)) /\ q \in Texts(InPart) /\ ch = sep
        BY <1>1, <2>1, <3>1, <3>2, <4>4
      <4>8. Split(Append(p, ch), sep) = Append(G, e)
        BY <3>3, <4>3, <4>5, <4>7, SplitAppendLast
      <4>9. QED
        BY <3>1, <3>4, <4>6, <4>8
    <3>6. CASE n = 2
      <4>1. PICK F \in Seq(Texts(InField)), L \in Texts(InField) :
               Len(F) > 1 /\ F[1] = h /\ F[2] = q /\ Split(p, sep) = Append(F, L)
        BY <3>1, <3>6, StandsAt DEF MoreColons
      <4>2. PICK G : G = Append(F, L)
        OBVIOUS
      <4>3. G \in Seq(Texts(InField)) /\ Len(G) = Len(F) + 1 /\ Len(F) \in Nat
        BY <4>1, <4>2, AppendProperties, LenProperties
      <4>4. Len(G) > 1 /\ G[1] = h /\ G[2] = q
        BY <4>1, <4>2, <4>3, AppendProperties
      <4>5. F \in Seq(Texts(InPart)) /\ L \in Texts(InPart) /\ ch = sep
        BY <2>1, <3>1, <3>2, <4>1
      <4>6. Split(Append(p, ch), sep) = Append(G, e)
        BY <3>3, <4>1, <4>2, <4>5, SplitAppendLast
      <4>7. QED
        BY <3>1, <3>4, <4>3, <4>4, <4>6
    <3>7. QED
      BY <2>2, <3>5, <3>6
  <2>4. QED
    BY <1>1, <2>3 DEF Stands, MoreColons
<1>8. n = 2 /\ ch # ":" => Stands(Append(p, ch), h, 2, q)
  <2>1. HAVE n = 2 /\ ch # ":"
  <2>2. PICK sep : sep = ":"
    OBVIOUS
  <2>3. PICK G \in Seq(Texts(InField)), L \in Texts(InField) :
           Len(G) > 1 /\ G[1] = h /\ G[2] = q /\ Split(p, sep) = Append(G, L)
    BY <2>1, <2>2, StandsAt DEF MoreColons
  <2>4. G \in Seq(Texts(InPart)) /\ L \in Texts(InPart) /\ ch # sep
    BY <2>1, <2>2, <2>3, Alphabets, SeqMonotonic
  <2>5. Split(Append(p, ch), sep) = Append(G, Append(L, ch)) /\ Append(L, ch) \in Texts(InField)
    BY <1>2, <2>1, <2>3, <2>4, SplitAppendLast, TextsGrow
  <2>6. \E H \in Seq(Texts(InField)), M \in Texts(InField) :
           Len(H) > 1 /\ H[1] = h /\ H[2] = q /\ Split(Append(p, ch), sep) = Append(H, M)
    BY <2>3, <2>5
  <2>7. QED
    BY <1>1, <2>2, <2>6 DEF Stands, MoreColons
<1>9. QED
  BY <1>4, <1>5, <1>6, <1>7, <1>8

\* What the scanner does with a character that does not end the part.
WithHead(s, ch) == [s EXCEPT !.head = Append(@, ch)]
WithKey(s, ch) == [s EXCEPT !.key = Append(@, ch)]
WithKeys(s, x, y) == [s EXCEPT !.keys = x, !.key = y]
WithColon(s, x, y, z) == [s EXCEPT !.colons = x, !.keys = y, !.key = z]

Turns(s, ch) ==
    /\ ch = ":" /\ s.colons = 0 => Read(s, ch) = WithColon(s, 1, <<>>, <<>>)
    /\ ch = ":" /\ s.colons # 0 => Read(s, ch) = [s EXCEPT !.colons = 2]
    /\ ch # ":" /\ s.colons = 2 => Read(s, ch) = s
    /\ ch = "," /\ s.colons = 0 => Read(s, ch) = EndKey(WithHead(s, ch))
    /\ ch = "," /\ s.colons = 1 => Read(s, ch) = EndKey(s)
    /\ ch \notin {":", ","} /\ s.colons = 0 => Read(s, ch) = WithKey(WithHead(s, ch), ch)
    /\ ch \notin {":", ","} /\ s.colons = 1 => Read(s, ch) = WithKey(s, ch)

LEMMA ReadTurns ==
    ASSUME NEW s, NEW ch \in InPart, NEW n \in {0, 1, 2}, s.colons = n
    PROVE  Turns(s, ch)
<1>1. n > 0 <=> n # 0
  OBVIOUS
<1>2. n < 2 <=> n # 2
  OBVIOUS
<1>3. 0 # 1 /\ 0 # 2 /\ 1 # 2
  OBVIOUS
<1>4. ch # ";"
  BY DEF InPart
<1>5. ":" # "," /\ ":" # ";" /\ "," # ";"
  OBVIOUS
<1>6. QED
  BY <1>1, <1>2, <1>3, <1>4, <1>5, Zenon DEF Read, Turns, WithHead, WithKey, WithColon

LEMMA ScanFields ==
    ASSUME NEW r, NEW h, NEW n, NEW ks, NEW k, NEW s, s = Scan(r, h, n, ks, k)
    PROVE  s.results = r /\ s.head = h /\ s.colons = n /\ s.keys = ks /\ s.key = k
BY DEF Scan

LEMMA ScanHead ==
    ASSUME NEW r, NEW h, NEW n, NEW ks, NEW k, NEW s, s = Scan(r, h, n, ks, k), NEW ch
    PROVE  WithHead(s, ch) = Scan(r, Append(h, ch), n, ks, k)
<1>1. s.head = h
  BY DEF Scan
<1>2. PICK x : x = Append(h, ch)
  OBVIOUS
<1>3. [s EXCEPT !.head = x] = Scan(r, x, n, ks, k)
  BY DEF Scan
<1>4. QED
  BY <1>1, <1>2, <1>3, Zenon DEF WithHead

LEMMA ScanColons ==
    ASSUME NEW r, NEW h, NEW n, NEW ks, NEW k, NEW s, s = Scan(r, h, n, ks, k), NEW x
    PROVE  [s EXCEPT !.colons = x] = Scan(r, h, x, ks, k)
BY DEF Scan

LEMMA ScanNewKey ==
    ASSUME NEW r, NEW h, NEW n, NEW ks, NEW k, NEW s, s = Scan(r, h, n, ks, k), NEW x
    PROVE  [s EXCEPT !.key = x] = Scan(r, h, n, ks, x)
BY DEF Scan

LEMMA ScanKey ==
    ASSUME NEW r, NEW h, NEW n, NEW ks, NEW k, NEW s, s = Scan(r, h, n, ks, k), NEW ch
    PROVE  WithKey(s, ch) = Scan(r, h, n, ks, Append(k, ch))
<1>1. s.key = k
  BY DEF Scan
<1>2. PICK x : x = Append(k, ch)
  OBVIOUS
<1>3. [s EXCEPT !.key = x] = Scan(r, h, n, ks, x)
  BY ScanNewKey
<1>4. QED
  BY <1>1, <1>2, <1>3, Zenon DEF WithKey

LEMMA ScanEndsKey ==
    ASSUME NEW r, NEW h, NEW n, NEW ks, NEW k, NEW s, s = Scan(r, h, n, ks, k), NEW x, NEW y
    PROVE  WithKeys(s, x, y) = Scan(r, h, n, x, y)
<1>1. PICK u : u = [s EXCEPT !.keys = x]
  OBVIOUS
<1>2. u = Scan(r, h, n, x, k)
  BY <1>1 DEF Scan
<1>3. [u EXCEPT !.key = y] = Scan(r, h, n, x, y)
  BY <1>2, ScanNewKey
<1>4. QED
  BY <1>1, <1>3, Zenon DEF WithKeys

LEMMA ScanEndsHead ==
    ASSUME NEW r, NEW h, NEW n, NEW ks, NEW k, NEW s, s = Scan(r, h, n, ks, k), NEW x, NEW y, NEW z
    PROVE  WithColon(s, x, y, z) = Scan(r, h, x, y, z)
<1>1. PICK u : u = [s EXCEPT !.colons = x]
  OBVIOUS
<1>2. u = Scan(r, h, x, ks, k)
  BY <1>1 DEF Scan
<1>3. WithKeys(u, y, z) = Scan(r, h, x, y, z)
  BY <1>2, ScanEndsKey
<1>4. QED
  BY <1>1, <1>3, Zenon DEF WithKeys, WithColon

LEMMA FreshReads == \A r : Reads(Fresh(r), <<>>, r)
<1>1. TAKE r
<1>2. <<>> \in Texts(InField)
  BY TextsGrow
<1>3. Stands(<<>>, <<>>, 0, <<>>)
  BY <1>2 DEF Stands, NoColon
<1>4. Fresh(r) = Reading(r, <<>>, 0, <<>>, <<>>)
  BY KeyedStart DEF Fresh, Reading, Scan
<1>5. QED
  BY <1>3, <1>4, KeyedStart DEF Reads

LEMMA EndKeyEffect ==
    ASSUME NEW r, NEW h, NEW n, NEW K \in Seq(Texts(InKey)), NEW k \in Texts(InKey)
    PROVE  EndKey(Reading(r, h, n, K, k)) = Reading(r, h, n, Append(K, k), <<>>)
<1>1. TrimmedKeys(Append(K, k)) = Append(TrimmedKeys(K), Trim(k))
  BY TrimmedKeysAppend
<1>2. PICK s : s = Reading(r, h, n, K, k)
  OBVIOUS
<1>3. s = Scan(r, h, n, TrimmedKeys(K), k)
  BY <1>2 DEF Reading
<1>4. s.keys = TrimmedKeys(K) /\ s.key = k
  BY <1>3, ScanFields
<1>5. EndKey(s) = WithKeys(s, Append(s.keys, Trim(s.key)), <<>>)
  BY Zenon DEF EndKey, WithKeys
<1>6. PICK x : x = Append(s.keys, Trim(s.key))
  OBVIOUS
<1>7. PICK y : y = <<>>
  OBVIOUS
<1>8. EndKey(s) = WithKeys(s, x, y)
  BY <1>5, <1>6, <1>7
<1>9. EndKey(s) = Scan(r, h, n, x, y)
  BY <1>3, <1>8, ScanEndsKey
<1>10. x = TrimmedKeys(Append(K, k))
  BY <1>1, <1>4, <1>6
<1>11. QED
  BY <1>2, <1>7, <1>9, <1>10 DEF Reading

LEMMA ReadsOn ==
    ASSUME NEW p \in Texts(InPart), NEW sc, NEW r, Reads(sc, p, r), NEW ch \in InPart
    PROVE  Reads(Read(sc, ch), Append(p, ch), r)
<1>1. PICK h, n, q, K, k : Stands(p, h, n, q) /\ Keyed(q, K, k) /\ sc = Reading(r, h, n, K, k)
  BY DEF Reads
<1>2. n \in {0, 1, 2} /\ h \in Texts(InField) /\ q \in Texts(InField)
  BY <1>1, StandsAt
<1>3. K \in Seq(Texts(InKey)) /\ k \in Texts(InKey)
  BY <1>1 DEF Keyed
<1>4. PICK ks : ks = TrimmedKeys(K)
  OBVIOUS
<1>5. sc = Scan(r, h, n, ks, k) /\ sc.colons = n
  BY <1>1, <1>4, ScanFields DEF Reading
<1>6. Turns(sc, ch)
  BY <1>2, <1>5, ReadTurns
<1>7. ch # ":" => ch \in InField
  BY DEF InField
<1>8. CASE ch = ":" /\ n = 0
  <2>1. Read(sc, ch) = WithColon(sc, 1, <<>>, <<>>)
    BY <1>5, <1>6, <1>8 DEF Turns
  <2>2. WithColon(sc, 1, <<>>, <<>>) = Reading(r, h, 1, <<>>, <<>>)
    BY <1>5, ScanEndsHead, KeyedStart DEF Reading
  <2>3. Stands(Append(p, ch), h, 1, <<>>)
    BY <1>1, <1>8, StandsAppend
  <2>4. QED
    BY <2>1, <2>2, <2>3, KeyedStart DEF Reads
<1>9. CASE ch = ":" /\ n # 0
  <2>1. Read(sc, ch) = [sc EXCEPT !.colons = 2]
    BY <1>5, <1>6, <1>9 DEF Turns
  <2>2. [sc EXCEPT !.colons = 2] = Scan(r, h, 2, ks, k)
    BY <1>5, ScanColons
  <2>3. Read(sc, ch) = Reading(r, h, 2, K, k)
    BY <1>4, <2>1, <2>2 DEF Reading
  <2>4. Stands(Append(p, ch), h, 2, q)
    BY <1>1, <1>2, <1>9, StandsAppend
  <2>5. QED
    BY <1>1, <2>3, <2>4 DEF Reads
<1>10. CASE ch # ":" /\ n = 2
  <2>1. Read(sc, ch) = sc
    BY <1>5, <1>6, <1>10 DEF Turns
  <2>2. Stands(Append(p, ch), h, 2, q)
    BY <1>1, <1>10, StandsAppend
  <2>3. QED
    BY <1>1, <1>10, <2>1, <2>2 DEF Reads
<1>11. CASE ch # ":" /\ n # 2
  <2>1. PICK g : g = IF n = 0 THEN Append(h, ch) ELSE h
    OBVIOUS
  <2>2. PICK u : u = IF n = 0 THEN WithHead(sc, ch) ELSE sc
    OBVIOUS
  <2>3. u = Reading(r, g, n, K, k)
    <3>1. WithHead(sc, ch) = Scan(r, Append(h, ch), n, ks, k)
      BY <1>5, ScanHead
    <3>2. QED
      BY <1>4, <1>5, <2>1, <2>2, <3>1 DEF Reading
  <2>4. Stands(Append(p, ch), g, n, Append(q, ch))
    <3>1. CASE n = 0
      <4>1. h = p
        BY <1>1, <3>1, StandsAt DEF NoColon
      <4>2. QED
        BY <1>1, <1>11, <2>1, <3>1, <4>1, StandsAppend
    <3>2. CASE n = 1
      BY <1>1, <1>11, <2>1, <3>2, StandsAppend
    <3>3. QED
      BY <1>2, <1>11, <3>1, <3>2
  <2>5. CASE ch = ","
    <3>1. Read(sc, ch) = EndKey(u)
      BY <1>2, <1>5, <1>6, <1>11, <2>2, <2>5 DEF Turns
    <3>2. EndKey(u) = Reading(r, g, n, Append(K, k), <<>>)
      BY <1>3, <2>3, EndKeyEffect
    <3>3. Keyed(Append(q, ch), Append(K, k), <<>>)
      BY <1>1, <1>2, <1>7, <1>11, <2>5, KeyedAppend
    <3>4. QED
      BY <2>4, <3>1, <3>2, <3>3 DEF Reads
  <2>6. CASE ch # ","
    <3>1. Read(sc, ch) = WithKey(u, ch)
      BY <1>2, <1>5, <1>6, <1>11, <2>2, <2>6 DEF Turns
    <3>2. WithKey(u, ch) = Reading(r, g, n, K, Append(k, ch))
      BY <2>3, ScanKey DEF Reading
    <3>3. Keyed(Append(q, ch), K, Append(k, ch))
      BY <1>1, <1>2, <1>7, <1>11, <2>6, KeyedAppend
    <3>4. QED
      BY <2>4, <3>1, <3>2, <3>3 DEF Reads
  <2>7. QED
    BY <2>5, <2>6
<1>12. QED
  BY <1>8, <1>9, <1>10, <1>11

\* The destinations of keys that are split are those of the trimmed keys.
Addressed(exchange, ks) == [i \in 1..Len(ks) |-> [exchange |-> exchange, routingKey |-> ks[i]]]

LEMMA KeyedDenote ==
    ASSUME NEW x, NEW q, NEW K, NEW k, Keyed(q, K, k)
    PROVE  DestinationsFromRoutingKeys(x, q) = Addressed(x, Append(TrimmedKeys(K), Trim(k)))
<1>1. K \in Seq(Texts(InKey)) /\ k \in Texts(InKey) /\ Split(q, ",") = Append(K, k)
  BY DEF Keyed
<1>2. PICK keys : keys = Append(K, k)
  OBVIOUS
<1>3. PICK ks : ks = TrimmedKeys(keys)
  OBVIOUS
<1>4. ks = [i \in 1..Len(keys) |-> Trim(keys[i])]
  BY <1>3 DEF TrimmedKeys
<1>5. Len(keys) \in Nat
  BY <1>1, <1>2, AppendProperties, LenProperties
<1>6. Len(ks) = Len(keys) /\ \A i \in 1..Len(keys) : ks[i] = Trim(keys[i])
  BY <1>4, <1>5
<1>7. DestinationsFromRoutingKeys(x, q) =
         [i \in 1..Len(keys) |-> [exchange |-> x, routingKey |-> Trim(keys[i])]]
  BY <1>1, <1>2 DEF DestinationsFromRoutingKeys
<1>8. DestinationsFromRoutingKeys(x, q) = Addressed(x, ks)
  BY <1>6, <1>7 DEF Addressed
<1>9. ks = Append(TrimmedKeys(K), Trim(k))
  BY <1>1, <1>2, <1>3, TrimmedKeysAppend
<1>10. QED
  BY <1>8, <1>9

\* What a part denotes, by the place its end is at.
LEMMA PartStands ==
    ASSUME NEW p \in Texts(InPart), NEW h, NEW n, NEW q, Stands(p, h, n, q)
    PROVE  OfPart(p) = IF n = 0 /\ h = <<>> THEN <<>>
                       ELSE DestinationsFromRoutingKeys(IF n = 0 THEN <<>> ELSE Trim(h), q)
<1>1. n \in {0, 1, 2} /\ h \in Texts(InField) /\ q \in Texts(InField)
  BY StandsAt
<1>2. ":" \notin InField
  BY DEF InField
<1>3. CASE n = 0
  <2>1. h = p /\ q = p
    BY <1>3, StandsAt DEF NoColon
  <2>2. Split(p, ":") = <<p>>
    BY <1>1, <1>2, <2>1, SplitOfOne
  <2>3. PICK dd : dd = <<p>>
    OBVIOUS
  <2>4. Len(dd) = 1 /\ dd[1] = p
    BY <2>3
  <2>5. OfPart(p) = IF p # <<>> THEN DestinationsFromRoutingKeys(<<>>, p) ELSE <<>>
    BY <2>2, <2>3, <2>4 DEF OfPart
  <2>6. QED
    BY <1>3, <2>1, <2>5
<1>4. CASE n # 0
  <2>1. PICK dd : dd = Split(p, ":")
    OBVIOUS
  <2>2. Len(dd) > 1 /\ dd[1] = h /\ dd[2] = q
    <3>1. CASE n = 1
      <4>1. PICK sep : sep = ":"
        OBVIOUS
      <4>2. p = Joined(h, sep, q) /\ sep \notin InField
        BY <1>2, <3>1, <4>1, StandsAt DEF OneColon
      <4>3. dd = Append(Append(<<>>, h), q)
        BY <1>1, <2>1, <4>1, <4>2, SplitOfTwo
      <4>4. QED
        BY <1>1, <4>3, TwoParts
    <3>2. CASE n = 2
      <4>1. PICK G \in Seq(Texts(InField)), L \in Texts(InField) :
               Len(G) > 1 /\ G[1] = h /\ G[2] = q /\ dd = Append(G, L)
        BY <2>1, <3>2, StandsAt DEF MoreColons
      <4>2. Len(dd) = Len(G) + 1 /\ Len(G) \in Nat /\ \A j \in 1..Len(G) : dd[j] = G[j]
        BY <4>1, AppendProperties, LenProperties
      <4>3. 1 \in 1..Len(G) /\ 2 \in 1..Len(G)
        BY <4>1, <4>2
      <4>4. QED
        BY <4>1, <4>2, <4>3
    <3>3. QED
      BY <1>1, <1>4, <3>1, <3>2
  <2>3. OfPart(p) = DestinationsFromRoutingKeys(Trim(h), q)
    BY <2>1, <2>2 DEF OfPart
  <2>4. QED
    BY <1>4, <2>3
<1>5. QED
  BY <1>3, <1>4

LEMMA ResultsAre ==
    ASSUME NEW p \in Texts(InPart), NEW sc, NEW r \in Seq(Destinations), Reads(sc, p, r)
    PROVE  Results(sc) = r \o OfPart(p)
<1>1. PICK h, n, q, K, k : Stands(p, h, n, q) /\ Keyed(q, K, k) /\ sc = Reading(r, h, n, K, k)
  BY DEF Reads
<1>2. K \in Seq(Texts(InKey)) /\ k \in Texts(InKey)
  BY <1>1 DEF Keyed
<1>3. PICK x : x = IF n = 0 THEN <<>> ELSE Trim(h)
  OBVIOUS
<1>4. sc.results = r /\ sc.head = h /\ sc.colons = n
  BY <1>1, ScanFields DEF Reading
<1>5. PICK ks : ks = Append(TrimmedKeys(K), Trim(k))
  OBVIOUS
<1>6. EndKey(sc).keys = ks
  <2>1. EndKey(sc) = Scan(r, h, n, TrimmedKeys(Append(K, k)), <<>>)
    BY <1>1, <1>2, EndKeyEffect DEF Reading
  <2>2. EndKey(sc).keys = TrimmedKeys(Append(K, k))
    BY <2>1, ScanFields
  <2>3. QED
    BY <1>2, <1>5, <2>2, TrimmedKeysAppend
<1>7. DestinationsFromRoutingKeys(x, q) = Addressed(x, ks)
  BY <1>1, <1>5, KeyedDenote
<1>8. OfPart(p) = IF n = 0 /\ h = <<>> THEN <<>> ELSE Addressed(x, ks)
  BY <1>1, <1>3, <1>7, PartStands
<1>9. Results(sc) = IF n = 0 /\ h = <<>> THEN r ELSE r \o Addressed(x, ks)
  BY <1>3, <1>4, <1>6, Zenon DEF Results, Addressed
<1>10. r \o <<>> = r
  BY ConcatEmptySeq
<1>11. QED
  BY <1>8, <1>9, <1>10

-----------------------------------------------------------------------------
(***************************************************************************)
(* The scanner has the destinations of the strings W that are over, then   *)
(* those of the parts F of the last string that are over, and is at the    *)
(* end of what has been written of the part p.                             *)
(***************************************************************************)
Before(W, F) == Parse(W) \o FlattenSeq(PartResults(F))

ReadSoFar(W, s, F, p) ==
    /\ strings = Append(W, s) /\ Split(s, ";") = Append(F, p)
    /\ Reads(scan, p, Before(W, F))

\* The scanner has read what has been written, and stands in the last part of it.
ScanInv ==
    \E W \in Seq(Text), s \in Text, F \in Seq(Texts(InPart)), p \in Texts(InPart) : ReadSoFar(W, s, F, p)

\* Three sequences, joined in either order.
LEMMA ConcatThree ==
    ASSUME NEW E, NEW r \in Seq(E), NEW s \in Seq(E), NEW t \in Seq(E)
    PROVE  r \o s \in Seq(E) /\ r \o (s \o t) = (r \o s) \o t
<1>1. r \o s \in Seq(E)
  BY ConcatProperties
<1>2. (r \o s) \o t = r \o (s \o t)
  BY ConcatAssociative, SMTT(30)
<1>3. QED
  BY <1>1, <1>2

LEMMA BeforeIn ==
    ASSUME NEW W \in Seq(Text), NEW F \in Seq(Texts(InPart)), NEW p \in Texts(InPart)
    PROVE  /\ Before(W, F) \in Seq(Destinations)
           /\ Before(W, Append(F, p)) = Before(W, F) \o OfPart(p)
<1>1. Parse(W) \in Seq(Destinations)
  BY ParseIn
<1>2. /\ FlattenSeq(PartResults(F)) \in Seq(Destinations) /\ OfPart(p) \in Seq(Destinations)
      /\ FlattenSeq(PartResults(Append(F, p))) = FlattenSeq(PartResults(F)) \o OfPart(p)
  <2>1. PartResults(Append(F, p)) = Append(PartResults(F), OfPart(p))
    BY PartResultsAppend
  <2>2. PartResults(F) \in Seq(Seq(Destinations)) /\ OfPart(p) \in Seq(Destinations)
    BY PartResultsAppend, PartDenotes
  <2>3. QED
    BY <2>1, <2>2, FlattenAppend
<1>3. PICK r : r = Parse(W)
  OBVIOUS
<1>4. PICK d : d = FlattenSeq(PartResults(F))
  OBVIOUS
<1>5. PICK o : o = OfPart(p)
  OBVIOUS
<1>6. Before(W, F) = r \o d /\ Before(W, Append(F, p)) = r \o (d \o o)
  BY <1>2, <1>3, <1>4, <1>5 DEF Before
<1>7. r \in Seq(Destinations) /\ d \in Seq(Destinations) /\ o \in Seq(Destinations)
  BY <1>1, <1>2, <1>3, <1>4, <1>5
<1>8. r \o d \in Seq(Destinations) /\ r \o (d \o o) = (r \o d) \o o
  BY <1>7, ConcatThree, SMTT(30)
<1>9. QED
  BY <1>5, <1>6, <1>8

\* What the scanner has after a string is over, or after all of them.
LEMMA AllRead ==
    ASSUME NEW W \in Seq(Text), NEW s \in Text, NEW F \in Seq(Texts(InPart)), NEW p \in Texts(InPart),
           ReadSoFar(W, s, F, p)
    PROVE  /\ Results(scan) = Before(W, Append(F, p))
           /\ Results(scan) = Parse(strings)
<1>1. Before(W, F) \in Seq(Destinations) /\ Before(W, Append(F, p)) = Before(W, F) \o OfPart(p)
  BY BeforeIn
<1>2. Results(scan) = Before(W, F) \o OfPart(p)
  BY <1>1, ResultsAre DEF ReadSoFar
<1>3. OfString(s) = FlattenSeq(PartResults(Append(F, p)))
  BY StringDenotes DEF ReadSoFar
<1>4. Parse(strings) = Parse(W) \o OfString(s)
  BY ParseAppend DEF ReadSoFar
<1>5. QED
  BY <1>1, <1>2, <1>3, <1>4 DEF Before

LEMMA InitReads == Init => ScanInv
<1>1. SUFFICES ASSUME Init
               PROVE  ScanInv
  OBVIOUS
<1>2. PICK e : e = <<>>
  OBVIOUS
<1>3. e \in Seq(Text) /\ e \in Text /\ e \in Seq(Texts(InPart)) /\ e \in Texts(InPart)
  BY <1>2, EmptySeq, TextsGrow DEF Text
<1>4. strings = Append(e, e) /\ scan = Fresh(e)
  BY <1>1, <1>2, OneText DEF Init
<1>5. Split(e, ";") = Append(e, e)
  BY <1>2, SplitEmpty, OneText
<1>6. Before(e, e) = e
  BY <1>2, ParseEmpty, ConcatEmptySeq, EmptySeq DEF Before
<1>7. ReadSoFar(e, e, e, e)
  BY <1>2, <1>4, <1>5, <1>6, FreshReads DEF ReadSoFar
<1>8. QED
  BY <1>3, <1>7 DEF ScanInv

LEMMA WriteReads ==
    ASSUME ScanInv, NEW ch \in Alphabet, Write(ch)
    PROVE  ScanInv'
<1>1. PICK W \in Seq(Text), s \in Text, F \in Seq(Texts(InPart)), p \in Texts(InPart) : ReadSoFar(W, s, F, p)
  BY DEF ScanInv
<1>2. PICK t \in Text : t = Append(s, ch)
  BY TextsGrow DEF Text
<1>3. strings' = Append(W, t)
  <2>1. \A x, y \in Text : /\ [Append(W, x) EXCEPT ![Len(Append(W, x))] = y] = Append(W, y)
                           /\ Append(W, x)[Len(Append(W, x))] = x
    BY ReplaceLast
  <2>2. PICK old : old = Append(W, s)
    OBVIOUS
  <2>3. [old EXCEPT ![Len(old)] = t] = Append(W, t) /\ old[Len(old)] = s
    BY <2>1, <2>2
  <2>4. strings' = [old EXCEPT ![Len(old)] = Append(old[Len(old)], ch)]
    BY <1>1, <2>2, Zenon DEF Write, ReadSoFar
  <2>5. QED
    BY <1>2, <2>3, <2>4
<1>4. scan' = Read(scan, ch)
  BY DEF Write
<1>5. F \in Seq(Text) /\ p \in Text
  BY Alphabets, SeqMonotonic
<1>6. PICK semi : semi = ";"
  OBVIOUS
<1>7. Split(s, semi) = Append(F, p)
  BY <1>1, <1>6 DEF ReadSoFar
<1>8. /\ ch = semi => Split(t, semi) = Append(Append(F, p), <<>>)
      /\ ch # semi => Split(t, semi) = Append(F, Append(p, ch))
  <2>1. PICK C : C = Alphabet
    OBVIOUS
  <2>2. s \in Texts(C) /\ ch \in C /\ F \in Seq(Texts(C)) /\ p \in Texts(C)
    BY <1>5, <2>1 DEF Text
  <2>3. /\ ch = semi => Split(Append(s, ch), semi) = Append(Append(F, p), <<>>)
        /\ ch # semi => Split(Append(s, ch), semi) = Append(F, Append(p, ch))
    BY <1>7, <2>2, SplitAppendLast
  <2>4. QED
    BY <1>2, <2>3
<1>9. CASE ch = semi
  <2>1. PICK G \in Seq(Texts(InPart)) : G = Append(F, p)
    BY AppendProperties
  <2>2. PICK e \in Texts(InPart) : e = <<>>
    BY TextsGrow
  <2>3. Results(scan) = Before(W, G)
    BY <1>1, <2>1, AllRead
  <2>4. scan' = Fresh(Before(W, G))
    BY <1>4, <1>6, <1>9, <2>3, Zenon DEF Read
  <2>5. Reads(scan', e, Before(W, G))
    BY <2>2, <2>4, FreshReads
  <2>6. strings' = Append(W, t) /\ Split(t, ";") = Append(G, e)
    BY <1>3, <1>6, <1>8, <1>9, <2>1, <2>2
  <2>7. QED
    BY <2>5, <2>6 DEF ScanInv, ReadSoFar
<1>10. CASE ch # semi
  <2>1. ch \in InPart
    BY <1>6, <1>10 DEF InPart
  <2>2. PICK u \in Texts(InPart) : u = Append(p, ch)
    BY <2>1, TextsGrow
  <2>3. Reads(scan', u, Before(W, F))
    BY <1>1, <1>4, <2>1, <2>2, ReadsOn DEF ReadSoFar
  <2>4. strings' = Append(W, t) /\ Split(t, ";") = Append(F, u)
    BY <1>3, <1>6, <1>8, <1>10, <2>2
  <2>5. QED
    BY <2>3, <2>4 DEF ScanInv, ReadSoFar
<1>11. QED
  BY <1>9, <1>10

LEMMA NextStringReads ==
    ASSUME ScanInv, NextString
    PROVE  ScanInv'
<1>1. PICK W \in Seq(Text), s \in Text, F \in Seq(Texts(InPart)), p \in Texts(InPart) : ReadSoFar(W, s, F, p)
  BY DEF ScanInv
<1>2. PICK V \in Seq(Text) : V = Append(W, s)
  BY AppendProperties
<1>3. PICK e : e = <<>>
  OBVIOUS
<1>4. e \in Text /\ e \in Seq(Texts(InPart)) /\ e \in Texts(InPart)
  BY <1>3, EmptySeq, TextsGrow DEF Text
<1>5. Results(scan) = Parse(V)
  BY <1>1, <1>2, AllRead DEF ReadSoFar
<1>6. Before(V, e) = Parse(V)
  BY <1>3, ParseEmpty, ParseIn, ConcatEmptySeq DEF Before
<1>7. strings' = Append(V, e) /\ scan' = Fresh(Results(scan))
  BY <1>1, <1>2, <1>3 DEF NextString, ReadSoFar
<1>8. Reads(scan', e, Before(V, e))
  BY <1>3, <1>5, <1>6, <1>7, FreshReads
<1>9. Split(e, ";") = Append(e, e)
  BY <1>3, SplitEmpty, OneText
<1>10. QED
  BY <1>4, <1>7, <1>8, <1>9 DEF ScanInv, ReadSoFar

LEMMA Stutters ==
    ASSUME ScanInv, UNCHANGED <<strings, scan>>
    PROVE  ScanInv'
BY DEF ScanInv, ReadSoFar

LEMMA ScanInvariance == Spec => []ScanInv
<1>1. ScanInv /\ [Next]_<<strings, scan>> => ScanInv'
  BY WriteReads, NextStringReads, Stutters DEF Next
<1>2. QED
  BY InitReads, <1>1, PTL DEF Spec

\* Whatever is written, and however long it is, an address means what the scanner
\* reads: the splitting code and the reading from left to right agree.
THEOREM AddressesAreScanned == Spec => []ParsesAsScanned
<1>1. ScanInv => ParsesAsScanned
  BY AllRead DEF ScanInv, ParsesAsScanned
<1>2. QED
  BY ScanInvariance, <1>1, PTL

\* Whatever is written, the destinations it denotes, written out, are read back.
THEOREM ParsingIsStable == Spec => []ParseIsStable
<1>1. ScanInv => strings \in Seq(Text)
  <2>1. \A W \in Seq(Text), s \in Text : Append(W, s) \in Seq(Text)
    BY AppendProperties
  <2>2. QED
    BY <2>1 DEF ScanInv, ReadSoFar
<1>2. ScanInv => ParseIsStable
  BY <1>1, ParsedIsReadBack DEF ParseIsStable
<1>3. QED
  BY ScanInvariance, <1>2, PTL
=============================================================================
