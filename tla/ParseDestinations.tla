-------------------------- MODULE ParseDestinations --------------------------
(***************************************************************************)
(* parseDestinations() of src/src/util.ts, which takes addresses apart by  *)
(* split() and trim(), against a scanner that reads them character by      *)
(* character.  The state machine writes every array of strings up to a     *)
(* bound, and the scanner reads along.                                     *)
(***************************************************************************)
EXTENDS Naturals, Sequences, SequencesExt

CONSTANT MaxLength  \* characters and strings of an address (a bound)
ASSUME LengthAssumption == MaxLength \in Nat

VARIABLES strings,  \* the argument: an array of strings, of one if it is a string
          scan      \* the scanner, after all of it

-----------------------------------------------------------------------------
(***************************************************************************)
(* The code                                                                *)
(***************************************************************************)
Blank == " "
Alphabet == {"a", Blank, ":", ";", ","}

Split(s, sep) ==
    FoldLeft(LAMBDA parts, ch : IF ch = sep THEN Append(parts, <<>>)
                                ELSE [parts EXCEPT ![Len(parts)] = Append(@, ch)],
             << <<>> >>, s)

Trim(s) ==
    LET inked == {i \in 1..Len(s) : s[i] # Blank} IN
    IF inked = {} THEN <<>>
    ELSE SubSeq(s, CHOOSE i \in inked : \A j \in inked : i <= j,
                   CHOOSE i \in inked : \A j \in inked : j <= i)

DestinationsFromRoutingKeys(exchange, routingKeys) ==
    LET keys == Split(routingKeys, ",") IN
    [i \in 1..Len(keys) |-> [exchange |-> exchange, routingKey |-> Trim(keys[i])]]

\* What stands behind a second colon is dropped.
OfPartAlways(part) ==
    LET dd == Split(part, ":") IN
    IF Len(dd) > 1 THEN DestinationsFromRoutingKeys(Trim(dd[1]), dd[2])
    ELSE DestinationsFromRoutingKeys(<<>>, dd[1])
OfPartOffByOne(part) ==
    LET dd == Split(part, ":") IN
    IF Len(dd) > 2 THEN DestinationsFromRoutingKeys(Trim(dd[1]), dd[2])
    ELSE IF dd[1] # <<>> THEN DestinationsFromRoutingKeys(<<>>, dd[1]) ELSE <<>>
OfPart(part) ==
    LET dd == Split(part, ":") IN
    IF Len(dd) > 1 THEN DestinationsFromRoutingKeys(Trim(dd[1]), dd[2])
    ELSE IF dd[1] # <<>> THEN DestinationsFromRoutingKeys(<<>>, dd[1]) ELSE <<>>

OfString(s) == LET d == Split(s, ";") IN FlattenSeq([j \in 1..Len(d) |-> OfPart(d[j])])
Parse(ss) == FlattenSeq([i \in 1..Len(ss) |-> OfString(ss[i])])

-----------------------------------------------------------------------------
(***************************************************************************)
(* The scanner: the destinations of the parts read so far, and of the part *)
(* it is in what stands before its first colon, the colons, the keys.      *)
(***************************************************************************)
Fresh(results) == [results |-> results, head |-> <<>>, colons |-> 0, keys |-> <<>>, key |-> <<>>]

EndKey(s) == [s EXCEPT !.keys = Append(@, Trim(s.key)), !.key = <<>>]

\* A part that is empty, and not blank, stands for nothing.
Results(s) ==
    LET exchange == IF s.colons = 0 THEN <<>> ELSE Trim(s.head)
        keys == EndKey(s).keys IN
    IF s.colons = 0 /\ s.head = <<>> THEN s.results
    ELSE s.results \o [i \in 1..Len(keys) |-> [exchange |-> exchange, routingKey |-> keys[i]]]

Read(s, ch) ==
    LET t == IF s.colons = 0 THEN [s EXCEPT !.head = Append(@, ch)] ELSE s IN
    CASE ch = ";" -> Fresh(Results(s))
      [] ch = ":" /\ s.colons = 0 -> [s EXCEPT !.colons = 1, !.keys = <<>>, !.key = <<>>]
      [] ch = ":" /\ s.colons > 0 -> [s EXCEPT !.colons = 2]
      [] ch \notin {";", ":"} /\ s.colons = 2 -> s
      [] ch = "," /\ s.colons < 2 -> EndKey(t)
      [] OTHER -> [t EXCEPT !.key = Append(@, ch)]

-----------------------------------------------------------------------------
Init == strings = << <<>> >> /\ scan = Fresh(<<>>)

Length == FoldLeft(LAMBDA n, s : n + 1 + Len(s), 0, strings)

Write(ch) ==
    /\ Length <= MaxLength
    /\ strings' = [strings EXCEPT ![Len(strings)] = Append(@, ch)]
    /\ scan' = Read(scan, ch)

\* The next string of the array begins a new part, as ';' does.
NextString ==
    /\ Length <= MaxLength
    /\ strings' = Append(strings, <<>>)
    /\ scan' = Fresh(Results(scan))

Next == NextString \/ \E ch \in Alphabet : Write(ch)

Spec == Init /\ [][Next]_<<strings, scan>>

-----------------------------------------------------------------------------
(***************************************************************************)
(* Properties                                                              *)
(***************************************************************************)
\* An address means the same read from left to right: parts end at ';' and at the
\* end of a string; before the first ':' stands the exchange, commas included;
\* behind it, up to a second one, or in a part without any, the routing keys.
ParsesAsScanned == Parse(strings) = Results(scan)

\* Destinations written out as addresses, one by one, are read back as they are.
Written(ds) == [i \in 1..Len(ds) |-> ds[i].exchange \o <<":">> \o ds[i].routingKey]
ParseIsStable == Parse(Written(Parse(strings))) = Parse(strings)
=============================================================================
