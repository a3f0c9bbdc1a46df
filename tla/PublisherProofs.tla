-------------------------- MODULE PublisherProofs --------------------------
(***************************************************************************)
(* The inductive invariant of Publisher and the theorems that rest on it,  *)
(* for any number of calls, destinations and channels and any high-water   *)
(* mark.                                                                   *)
(***************************************************************************)
EXTENDS Publisher, SequenceTheorems, FiniteSetTheorems, TLAPS

\* What each await implies about the call that stands there.
CallsAreSound ==
    \A c \in Calls :
        /\ call[c].i <= call[c].todo
        /\ call[c].chan = None => call[c].i = 0
        /\ call[c].chan # None => status[call[c].chan] # "unused"
        /\ call[c].at \in {"idle", "piping", "asking"} => call[c].chan = None /\ ~call[c].drained
        /\ call[c].at \in {"sending", "draining", "confirming", "fulfilled"} => call[c].chan # None
        /\ At(c, "draining") => call[c].drained /\ status[call[c].chan] \in {"open", "closing"}
        /\ At(c, "sending") /\ ~call[c].drained => call[c].i = 0
        /\ call[c].at \in {"confirming", "fulfilled"} => call[c].i = call[c].todo

\* A call that waits for confirms awaits every copy of its own that has none;
\* if it never waited for 'drain', it has missed no refusal.
ConfirmsAreSeen ==
    \A c \in Calls :
        /\ At(c, "confirming") =>
              \A k \in 1..call[c].todo : answer[<<c, k>>] = "none" => <<c, k>> \in call[c].awaiting
        /\ At(c, "confirming") /\ ~call[c].drained =>
              \A k \in 1..call[c].todo : answer[<<c, k>>] # "nack"

\* A copy that has not been written has no answer.
UnwrittenIsUnanswered ==
    \A m \in Copies : m[2] > call[m[1]].i => answer[m] = "none"

\* A channel that is not in use holds nothing, and one that is has carried only
\* what calls have written to it.
ClosedIsEmpty ==
    \A h \in Chans :
        /\ status[h] = "unused" => /\ h \notin watched /\ h # channel
                                   /\ buffer[h] = <<>> /\ received[h] = <<>>
        /\ status[h] = "closed" => buffer[h] = <<>>

LogsAreWritten ==
    \A h \in Chans : \A p \in 1..Len(Log(h)) :
        call[Log(h)[p][1]].chan = h /\ Log(h)[p][2] <= call[Log(h)[p][1]].i

\* The two halves of SentInOrder.
Ordered == \A h \in Chans : InOrder(Log(h)) /\ Gapless(Log(h))
Complete ==
    \A h \in Chans : status[h] \in {"open", "closing"} =>
        \A c \in Calls : call[c].chan = h =>
            \A k \in 1..call[c].i : \E q \in 1..Len(Log(h)) : Log(h)[q] = <<c, k>>

IInv ==
    /\ TypeOK
    /\ CallsAreSound
    /\ ConfirmsAreSeen
    /\ UnwrittenIsUnanswered
    /\ ClosedIsEmpty
    /\ LogsAreWritten
    /\ CacheIsLive
    /\ FulfilledIsDone
    /\ NackMissedOnlyInDrain
    /\ BufferBounded
    /\ Ordered
    /\ Complete
-----------------------------------------------------------------------------
(***************************************************************************)
(* Sequences and copies.                                                   *)
(***************************************************************************)

\* A copy is the pair of its call and its number.
LEMMA CopyFacts ==
    /\ \A m \in Copies : m = <<m[1], m[2]>> /\ m[1] \in Calls /\ m[2] \in 1..MaxDestinations
    /\ \A c \in Calls, k \in 1..MaxDestinations :
          <<c, k>> \in Copies /\ <<c, k>>[1] = c /\ <<c, k>>[2] = k
BY DEF Copies

\* The elements of a concatenation.
LEMMA LogFacts ==
    ASSUME NEW r \in Seq(Copies), NEW b \in Seq(Copies)
    PROVE  /\ r \o b \in Seq(Copies)
           /\ Len(r) \in Nat /\ Len(b) \in Nat
           /\ Len(r \o b) = Len(r) + Len(b)
           /\ \A p \in 1..Len(r) : (r \o b)[p] = r[p] /\ p \in 1..Len(r \o b)
           /\ \A p \in 1..Len(b) : (r \o b)[Len(r) + p] = b[p] /\ Len(r) + p \in 1..Len(r \o b)
           /\ \A p \in 1..Len(r \o b) : /\ (r \o b)[p] \in Copies
                                       /\ (p \in 1..Len(r) \/ \E q \in 1..Len(b) : p = Len(r) + q)
<1>1. /\ r \o b \in Seq(Copies) /\ Len(r) \in Nat /\ Len(b) \in Nat
      /\ Len(r \o b) = Len(r) + Len(b)
  OBVIOUS
<1>2. /\ \A p \in 1..Len(r) : (r \o b)[p] = r[p]
      /\ \A p \in 1..Len(b) : (r \o b)[Len(r) + p] = b[p]
  BY <1>1
<1>3. \A p \in 1..Len(r \o b) : (r \o b)[p] \in Copies
  BY <1>1, ElementOfSeq
<1>4. \A p \in 1..Len(r \o b) : p \in 1..Len(r) \/ \E q \in 1..Len(b) : p = Len(r) + q
  <2>1. ASSUME NEW p \in 1..Len(r \o b), p \notin 1..Len(r)
        PROVE  p - Len(r) \in 1..Len(b) /\ p = Len(r) + (p - Len(r))
    BY <2>1, <1>1
  <2>2. QED
    BY <2>1
<1>5. QED
  BY <1>1, <1>2, <1>3, <1>4

\* What follows in a concatenation.
LEMMA Following ==
    ASSUME NEW r \in Seq(Copies), NEW b \in Seq(Copies), NEW p \in 1..Len(b)
    PROVE  (r \o b)[Len(r) + p] = b[p]
  BY LogFacts

\* Writing to a buffer writes to the log of its channel.
LEMMA LogAssociative ==
    ASSUME NEW r \in Seq(Copies), NEW b \in Seq(Copies), NEW w \in Seq(Copies)
    PROVE  r \o (b \o w) = (r \o b) \o w
<1>1. PICK E : E = Copies
  OBVIOUS
<1>2. r \in Seq(E) /\ b \in Seq(E) /\ w \in Seq(E)
  BY <1>1
<1>3. QED
  BY <1>2, ConcatAssociative, SMTT(30)

\* Sending the first message of a buffer leaves the log of its channel as it is.
LEMMA FlushFacts ==
    ASSUME NEW r \in Seq(Copies), NEW b \in Seq(Copies), b # <<>>
    PROVE  /\ Append(r, Head(b)) \in Seq(Copies) /\ Tail(b) \in Seq(Copies)
           /\ Len(b) \in Nat /\ Len(Tail(b)) = Len(b) - 1
           /\ Append(r, Head(b)) \o Tail(b) = r \o b
<1>1. /\ Head(b) = b[1] /\ b[1] \in Copies /\ Tail(b) \in Seq(Copies)
      /\ Len(b) \in Nat \ {0} /\ Len(Tail(b)) = Len(b) - 1
      /\ \A q \in 1..Len(Tail(b)) : Tail(b)[q] = b[q + 1]
  OBVIOUS
<1>2. /\ Append(r, Head(b)) \in Seq(Copies) /\ Len(r) \in Nat
      /\ Len(Append(r, Head(b))) = Len(r) + 1
      /\ \A p \in 1..Len(r) : Append(r, Head(b))[p] = r[p]
      /\ Append(r, Head(b))[Len(r) + 1] = b[1]
  BY <1>1
<1> DEFINE s == Append(r, Head(b))
           t == Tail(b)
<1> HIDE DEF s, t
<1>3. /\ s \o t \in Seq(Copies) /\ r \o b \in Seq(Copies)
      /\ Len(s \o t) = Len(r) + Len(b) /\ Len(r \o b) = Len(r) + Len(b)
  BY <1>1, <1>2, LogFacts DEF s, t
<1>4. ASSUME NEW p \in 1..(Len(r) + Len(b))
      PROVE  (s \o t)[p] = (r \o b)[p]
  <2>1. CASE p \in 1..Len(r)
    BY <2>1, <1>1, <1>2, LogFacts DEF s, t
  <2>2. CASE p = Len(r) + 1
    <3>1. (s \o t)[p] = b[1]
      BY <2>2, <1>1, <1>2, LogFacts DEF s, t
    <3>2. (r \o b)[Len(r) + 1] = b[1] /\ 1 \in 1..Len(b)
      BY <1>1, LogFacts
    <3>3. QED
      BY <2>2, <3>1, <3>2
  <2>3. CASE p > Len(r) + 1
    <3>1. PICK q \in 1..(Len(b) - 1) : p = Len(r) + 1 + q
      <4>1. p - Len(r) - 1 \in 1..(Len(b) - 1) /\ p = Len(r) + 1 + (p - Len(r) - 1)
        BY <2>3, <1>1, <1>2
      <4>2. QED
        BY <4>1
    <3>2. (s \o t)[Len(s) + q] = t[q] /\ Len(s) = Len(r) + 1
      <4>1. /\ s \in Seq(Copies) /\ t \in Seq(Copies)
            /\ Len(s) = Len(r) + 1 /\ Len(t) = Len(b) - 1
        BY <1>1, <1>2 DEF s, t
      <4>2. q \in 1..Len(t)
        BY <4>1
      <4>3. (s \o t)[Len(s) + q] = t[q]
        BY <4>1, <4>2, Following
      <4>4. QED
        BY <4>1, <4>3
    <3>3. (r \o b)[Len(r) + (q + 1)] = b[q + 1] /\ t[q] = b[q + 1]
      BY <1>1, <1>2, <3>1, LogFacts DEF t
    <3>4. p = Len(s) + q /\ p = Len(r) + (q + 1)
      BY <1>2, <3>1, <3>2
    <3>5. QED
      BY <3>2, <3>3, <3>4
  <2>4. p \in 1..Len(r) \/ p = Len(r) + 1 \/ p > Len(r) + 1
    BY <1>1, <1>2
  <2>5. QED
    BY <2>1, <2>2, <2>3, <2>4
<1>5. s \o t = r \o b
  BY <1>3, <1>4, SeqEqual
<1>6. QED
  BY <1>1, <1>2, <1>5 DEF s, t

-----------------------------------------------------------------------------
(***************************************************************************)
(* The invariant, action by action.                                        *)
(***************************************************************************)

\* The order of what channels carry depends on nothing but that.
LEMMA OrderKept ==
    ASSUME Ordered, \A h \in Chans : Log(h)' = Log(h)
    PROVE  Ordered'
<1>1. ASSUME NEW h \in Chans
      PROVE  InOrder(Log(h))'
  <2>1. InOrder(Log(h)) /\ Log(h)' = Log(h)
    BY DEF Ordered
  <2>2. QED
    BY <2>1 DEF InOrder
<1>2. ASSUME NEW h \in Chans
      PROVE  Gapless(Log(h))'
  <2>1. Gapless(Log(h)) /\ Log(h)' = Log(h)
    BY DEF Ordered
  <2>2. QED
    BY <2>1 DEF Gapless
<1>3. QED
  BY <1>1, <1>2 DEF Ordered

\* A step that writes nothing: call c moves on towards its channel or rejects.
LEMMA MovesOnPreserves ==
    ASSUME IInv, NEW c \in Calls, NEW f \in Frame,
           call' = [call EXCEPT ![c] = f],
           call[c].at \in {"idle", "piping", "asking", "sending"},
           f.at \in {"piping", "asking", "sending", "rejected"},
           f.i = call[c].i, f.i <= f.todo, f.drained = call[c].drained,
           call[c].chan = None \/ f.chan = call[c].chan,
           f.at \in {"piping", "asking"} => f.chan = None /\ ~f.drained,
           f.at = "sending" => f.chan # None /\ call[c].chan = None,
           f.chan # None => status'[f.chan] # "unused",
           status' \in [Chans -> Status],
           \A h \in Chans : status'[h] = status[h] \/ (status[h] = "unused" /\ status'[h] # "unused"),
           watched' \subseteq Chans,
           \A h \in Chans : status'[h] = "unused" => h \notin watched' /\ h # channel',
           channel' \in Chans \cup {None},
           CacheIsLive',
           UNCHANGED <<buffer, received, answer>>
    PROVE  IInv'
<1>1. /\ call \in [Calls -> Frame] /\ call' \in [Calls -> Frame]
      /\ call'[c] = f
      /\ \A d \in Calls : d # c => call'[d] = call[d]
      /\ \A d \in Calls : call'[d].i = call[d].i
  BY DEF IInv, TypeOK
<1>2. TypeOK'
  BY <1>1 DEF IInv, TypeOK
<1>3. \A h \in Chans : Log(h)' = Log(h) /\ Waiting(h)' = Waiting(h)
  BY <1>1 DEF Log, Waiting, At
<1>4. CallsAreSound'
  <2>1. ASSUME NEW d \in Calls, call[d].chan # None
        PROVE  status'[call[d].chan] = status[call[d].chan]
    BY <2>1, <1>1 DEF IInv, CallsAreSound, Frame
  <2>2. QED
    BY <1>1, <2>1 DEF IInv, CallsAreSound, At, Frame
<1>5. ConfirmsAreSeen'
  BY <1>1 DEF IInv, ConfirmsAreSeen, At
<1>6. UnwrittenIsUnanswered'
  BY <1>1, CopyFacts DEF IInv, UnwrittenIsUnanswered
<1>7. ClosedIsEmpty'
  BY DEF IInv, ClosedIsEmpty
<1>8. LogsAreWritten'
  <2>1. ASSUME NEW h \in Chans, NEW p \in 1..Len(Log(h))
        PROVE  call'[Log(h)[p][1]].chan = h /\ Log(h)[p][2] <= call'[Log(h)[p][1]].i
    <3>1. Log(h)[p] \in Copies
      BY <2>1, LogFacts DEF IInv, TypeOK, Log
    <3>2. call[Log(h)[p][1]].chan = h /\ Log(h)[p][2] <= call[Log(h)[p][1]].i
      BY DEF IInv, LogsAreWritten
    <3>3. QED
      BY <3>1, <3>2, <1>1, CopyFacts, NoneAssumption
  <2>2. QED
    BY <2>1, <1>3 DEF LogsAreWritten
<1>9. FulfilledIsDone' /\ NackMissedOnlyInDrain'
  BY <1>1 DEF IInv, FulfilledIsDone, NackMissedOnlyInDrain, At
<1>10. BufferBounded'
  BY <1>3 DEF IInv, BufferBounded
<1>11. Ordered' /\ Complete'
  <2>1. ASSUME NEW h \in Chans, status'[h] \in {"open", "closing"},
               NEW d \in Calls, call'[d].chan = h, NEW k \in 1..call'[d].i
        PROVE  \E q \in 1..Len(Log(h)') : Log(h)'[q] = <<d, k>>
    <3>1. call[d].i # 0
      BY <2>1, <1>1
    <3>2. call[d].chan # None
      BY <3>1 DEF IInv, CallsAreSound
    <3>3. call[d].chan = h /\ status[h] # "unused"
      BY <2>1, <3>2, <1>1 DEF IInv, CallsAreSound
    <3>4. status[h] \in {"open", "closing"} /\ k \in 1..call[d].i
      BY <2>1, <3>3, <1>1
    <3>5. \E q \in 1..Len(Log(h)) : Log(h)[q] = <<d, k>>
      BY <3>3, <3>4 DEF IInv, Complete
    <3>6. QED
      BY <3>5, <1>3
  <2>2. Complete'
    BY <2>1 DEF Complete
  <2>3. Ordered'
    BY <1>3, OrderKept DEF IInv
  <2>4. QED
    BY <2>2, <2>3
<1>12. QED
  BY <1>2, <1>4, <1>5, <1>6, <1>7, <1>8, <1>9, <1>10, <1>11 DEF IInv

\* What one burst of the loop comes to.
LEMMA BurstFacts ==
    ASSUME IInv, NEW c \in Calls, call[c].chan \in Chans
    PROVE  LET n == Burst(c)
               held == Len(buffer[call[c].chan])
           IN  /\ held \in Nat /\ n \in Nat
               /\ call[c].i + n <= call[c].todo
               /\ call[c].i = call[c].todo => n = 0
               /\ Full(c, n) => n > 0 /\ (held + n = HighWater \/ (held >= HighWater /\ n = 1))
               /\ ~Full(c, n) => call[c].i + n = call[c].todo /\ (n = 0 \/ held + n < HighWater)
<1>1. /\ call[c].i \in Nat /\ call[c].todo \in Nat /\ call[c].i <= call[c].todo
      /\ Len(buffer[call[c].chan]) \in Nat /\ HighWater \in Nat \ {0}
  BY NatAssumption DEF IInv, TypeOK, Frame, CallsAreSound
<1> DEFINE held == Len(buffer[call[c].chan])
           left == call[c].todo - call[c].i
           n == Burst(c)
<1>2. /\ left \in Nat /\ held \in Nat /\ HighWater \in Nat \ {0}
      /\ call[c].i + left = call[c].todo
  BY <1>1
<1>3. n = IF left = 0 \/ held + left <= HighWater THEN left
          ELSE IF held < HighWater THEN HighWater - held ELSE 1
  BY DEF Burst
<1>4. Full(c, n) <=> n > 0 /\ held + n >= HighWater
  BY DEF Full
<1> HIDE DEF held, left, n
<1>5. /\ n \in Nat /\ n <= left /\ (left = 0 => n = 0)
      /\ n > 0 /\ held + n >= HighWater => held + n = HighWater \/ (held >= HighWater /\ n = 1)
      /\ ~(n > 0 /\ held + n >= HighWater) => n = left /\ (n = 0 \/ held + n < HighWater)
  <2>1. CASE left = 0 \/ held + left <= HighWater
    BY <2>1, <1>2, <1>3
  <2>2. CASE left # 0 /\ held + left > HighWater /\ held < HighWater
    BY <2>2, <1>2, <1>3
  <2>3. CASE left # 0 /\ held + left > HighWater /\ held >= HighWater
    BY <2>3, <1>2, <1>3
  <2>4. QED
    BY <2>1, <2>2, <2>3, <1>2
<1>6. /\ call[c].i + n <= call[c].todo
      /\ call[c].i = call[c].todo => n = 0
      /\ n = left => call[c].i + n = call[c].todo
  BY <1>1, <1>2, <1>5
<1>7. QED
  BY <1>2, <1>4, <1>5, <1>6 DEF held, n

\* What a burst writes: the copies for the next destinations.
LEMMA WrittenFacts ==
    ASSUME IInv, NEW c \in Calls, NEW n \in Nat, call[c].i + n <= call[c].todo
    PROVE  /\ Written(c, n) \in Seq(Copies)
           /\ Len(Written(c, n)) = n
           /\ \A k \in 1..n : /\ Written(c, n)[k] = <<c, call[c].i + k>>
                              /\ call[c].i + k \in 1..MaxDestinations
<1>1. /\ call[c].i \in Nat /\ call[c].todo \in 0..MaxDestinations /\ MaxDestinations \in Nat
  BY NatAssumption DEF IInv, TypeOK, Frame
<1>2. \A k \in 1..n : call[c].i + k \in 1..MaxDestinations
  BY <1>1
<1>3. \A k \in 1..n : <<c, call[c].i + k>> \in Copies
  BY <1>2, CopyFacts
<1>4. QED
  BY <1>2, <1>3 DEF Written

\* An orderly log that has all that the call c wrote of its first i copies.
HasWritten(log, c, i) ==
    /\ InOrder(log) /\ Gapless(log)
    /\ \A k \in 1..i : \E q \in 1..Len(log) : log[q] = <<c, k>>

\* The log has all that its call wrote before.
WrittenAfter(log, w, c, i, n) ==
    /\ log \in Seq(Copies) /\ w \in Seq(Copies) /\ c \in Calls
    /\ i \in Nat /\ n \in Nat /\ Len(w) = n
    /\ \A k \in 1..n : w[k] = <<c, i + k>> /\ i + k \in 1..MaxDestinations
    /\ HasWritten(log, c, i)
    /\ \A p \in 1..Len(log) : log[p][1] = c => log[p][2] <= i

\* A burst keeps the order of such a log.
LEMMA WriteKeepsOrder ==
    ASSUME NEW log, NEW w, NEW c, NEW i, NEW n, WrittenAfter(log, w, c, i, n)
    PROVE  HasWritten(log \o w, c, i + n)
<1>0. /\ log \in Seq(Copies) /\ w \in Seq(Copies) /\ c \in Calls
      /\ i \in Nat /\ n \in Nat /\ Len(w) = n
      /\ \A k \in 1..n : w[k] = <<c, i + k>> /\ i + k \in 1..MaxDestinations
      /\ InOrder(log) /\ Gapless(log)
      /\ \A p \in 1..Len(log) : log[p][1] = c => log[p][2] <= i
      /\ \A k \in 1..i : \E q \in 1..Len(log) : log[q] = <<c, k>>
  BY DEF WrittenAfter, HasWritten
<1> USE <1>0
<1> DEFINE new == log \o w
<1>1. /\ new \in Seq(Copies) /\ Len(log) \in Nat /\ Len(new) = Len(log) + n
      /\ \A p \in 1..Len(log) : new[p] = log[p] /\ p \in 1..Len(new)
      /\ \A p \in 1..n : new[Len(log) + p] = <<c, i + p>> /\ Len(log) + p \in 1..Len(new)
      /\ \A p \in 1..Len(new) : new[p] \in Copies
      /\ \A p \in 1..Len(new) : p \in 1..Len(log) \/ \E q \in 1..n : p = Len(log) + q
  BY LogFacts
<1> HIDE DEF new
<1>2. InOrder(new)
  <2>1. ASSUME NEW p \in 1..Len(new), NEW q \in 1..Len(new), p < q, new[p][1] = new[q][1]
        PROVE  new[p][2] < new[q][2]
    <3>1. CASE q \in 1..Len(log)
      <4>1. p \in 1..Len(log)
        BY <2>1, <3>1, <1>1
      <4>2. new[p] = log[p] /\ new[q] = log[q]
        BY <4>1, <3>1, <1>1
      <4>3. log[p][2] < log[q][2]
        BY <4>1, <4>2, <3>1, <2>1 DEF InOrder
      <4>4. QED
        BY <4>2, <4>3
    <3>2. CASE p \in 1..Len(log) /\ q \notin 1..Len(log)
      <4>1. PICK r \in 1..n : q = Len(log) + r
        BY <3>2, <1>1
      <4>2. new[q] = <<c, i + r>> /\ new[p] = log[p]
        BY <4>1, <3>2, <1>1
      <4>3. log[p][1] = c
        BY <4>2, <2>1
      <4>4. log[p][2] <= i /\ log[p][2] \in Nat
        <5>1. log[p] \in Copies
          BY <3>2, ElementOfSeq
        <5>2. log[p][2] \in 1..MaxDestinations
          BY <5>1, CopyFacts
        <5>3. log[p][2] \in Nat
          BY <5>2, NatAssumption
        <5>4. QED
          BY <5>3, <3>2, <4>3
      <4>5. QED
        BY <4>2, <4>4
    <3>3. CASE p \notin 1..Len(log) /\ q \notin 1..Len(log)
      <4>1. PICK r \in 1..n : q = Len(log) + r
        BY <3>3, <1>1
      <4>2. PICK t \in 1..n : p = Len(log) + t
        BY <3>3, <1>1
      <4>3. new[q] = <<c, i + r>> /\ new[p] = <<c, i + t>>
        BY <4>1, <4>2, <1>1
      <4>4. t < r
        BY <4>1, <4>2, <2>1, <1>1
      <4>5. QED
        BY <4>3, <4>4
    <3>4. QED
      BY <3>1, <3>2, <3>3
  <2>2. QED
    BY <2>1 DEF InOrder
<1>3. \A k \in 1..(i + n) : \E q \in 1..Len(new) : new[q] = <<c, k>>
  <2>1. ASSUME NEW k \in 1..(i + n)
        PROVE  \E q \in 1..Len(new) : new[q] = <<c, k>>
    <3>1. CASE k <= i
      <4>1. k \in 1..i
        BY <3>1
      <4>2. PICK q \in 1..Len(log) : log[q] = <<c, k>>
        BY <4>1
      <4>3. QED
        BY <4>2, <1>1
    <3>2. CASE k > i
      <4>1. k - i \in 1..n /\ i + (k - i) = k
        BY <3>2
      <4>2. new[Len(log) + (k - i)] = <<c, i + (k - i)>> /\ Len(log) + (k - i) \in 1..Len(new)
        BY <4>1, <1>1
      <4>3. QED
        BY <4>1, <4>2
    <3>3. k <= i \/ k > i
      OBVIOUS
    <3>4. QED
      BY <3>1, <3>2, <3>3
  <2>2. QED
    BY <2>1
<1>4. Gapless(new)
  <2>1. ASSUME NEW p \in 1..Len(new), NEW k \in 1..new[p][2]
        PROVE  \E q \in 1..Len(new) : new[q] = <<new[p][1], k>>
    <3>1. CASE p \in 1..Len(log)
      <4>1. new[p] = log[p]
        BY <3>1, <1>1
      <4>2. PICK q \in 1..Len(log) : log[q] = <<log[p][1], k>>
        BY <4>1, <3>1 DEF Gapless
      <4>3. QED
        BY <4>1, <4>2, <1>1
    <3>2. CASE p \notin 1..Len(log)
      <4>1. PICK r \in 1..n : p = Len(log) + r
        BY <3>2, <1>1
      <4>2. new[p] = <<c, i + r>>
        BY <4>1, <1>1
      <4>3. new[p][1] = c /\ k \in 1..(i + n)
        BY <4>2
      <4>4. QED
        BY <4>3, <1>3
    <3>3. QED
      BY <3>1, <3>2
  <2>2. QED
    BY <2>1 DEF Gapless
<1>5. QED
  BY <1>2, <1>3, <1>4 DEF new, HasWritten

\* Send, when the channel takes what the call writes.
LEMMA SendWrites ==
    ASSUME IInv, NEW c \in Calls, At(c, "sending"),
           call[c].i < call[c].todo => status[call[c].chan] = "open",
           buffer' = [buffer EXCEPT ![call[c].chan] = @ \o Written(c, Burst(c))],
           call' = [call EXCEPT ![c] = IF Full(c, Burst(c)) THEN WaitForDrain(c, Burst(c))
                                       ELSE AfterLoop(c, Burst(c))],
           UNCHANGED <<channel, watched, status, received, answer>>
    PROVE  IInv'
<1>0. PICK h \in Chans : call[c].chan = h /\ h # None
  BY NoneAssumption DEF IInv, TypeOK, CallsAreSound, Frame, At
<1> DEFINE i == call[c].i
           todo == call[c].todo
           n == Burst(c)
           W == Written(c, n)
           held == Len(buffer[h])
           fills == Full(c, n)
           f == IF fills THEN WaitForDrain(c, n) ELSE AfterLoop(c, n)
<1>1. /\ call[c].chan = h /\ h # None /\ status[h] # "unused"
      /\ MaxDestinations \in Nat /\ i \in Nat /\ todo \in 0..MaxDestinations /\ i <= todo /\ call[c] \in Frame
      /\ ~call[c].drained => i = 0
  BY <1>0, NatAssumption DEF IInv, TypeOK, CallsAreSound, Frame, At
<1>2. /\ held \in Nat /\ n \in Nat /\ i + n <= todo /\ (i = todo => n = 0)
      /\ fills => n > 0 /\ (held + n = HighWater \/ (held >= HighWater /\ n = 1))
      /\ ~fills => i + n = todo /\ (n = 0 \/ held + n < HighWater)
  BY <1>1, BurstFacts
<1>3. /\ W \in Seq(Copies) /\ Len(W) = n
      /\ \A k \in 1..n : W[k] = <<c, i + k>> /\ i + k \in 1..MaxDestinations
  BY <1>2, WrittenFacts
<1>4. n > 0 => status[h] = "open"
  BY <1>1, <1>2
<1> DEFINE seen == Unconfirmed(h) \cup {W[k] : k \in 1..n}
           waits == todo > 0 /\ PublisherConfirms /\ AutoConfirm /\ seen # {}
<1>5. seen \subseteq Copies
  <2>1. {W[k] : k \in 1..n} \subseteq Copies
    BY <1>3, CopyFacts
  <2>2. QED
    BY <2>1 DEF Unconfirmed
<1>6. ASSUME NEW k \in 1..(i + n), answer[<<c, k>>] = "none"
      PROVE  <<c, k>> \in seen
  <2>1. CASE k <= i
    <3>1. k \in 1..MaxDestinations
      BY <2>1, <1>1, <1>2
    <3>2. <<c, k>> \in Unconfirmed(h)
      BY <1>1, <1>6, <2>1, <3>1, CopyFacts DEF Unconfirmed
    <3>3. QED
      BY <3>2
  <2>2. CASE k > i
    <3>1. k - i \in 1..n /\ i + (k - i) = k
      BY <2>2, <1>1, <1>2
    <3>2. W[k - i] = <<c, k>>
      BY <3>1, <1>3
    <3>3. QED
      BY <3>1, <3>2
  <2>3. k <= i \/ k > i
    BY <1>1, <1>2
  <2>4. QED
    BY <2>1, <2>2, <2>3
<1>7. /\ f \in Frame /\ f.chan = h /\ f.i = i + n /\ f.todo = todo
      /\ fills => f.at = "draining" /\ f.drained
      /\ ~fills => /\ f.drained = call[c].drained
                   /\ f.at = (IF waits THEN "confirming" ELSE "fulfilled")
                   /\ waits => f.awaiting = seen
  <2>1. i + n \in 0..MaxDestinations
    BY <1>1, <1>2
  <2>2. CASE fills
    BY <2>1, <2>2, <1>1, NatAssumption DEF WaitForDrain, Frame, Points
  <2>3. CASE ~fills
    <3>1. f = [call[c] EXCEPT !.i = @ + n,
                              !.at = IF waits THEN "confirming" ELSE "fulfilled",
                              !.awaiting = IF waits THEN seen ELSE {}]
      BY <1>1, <2>3 DEF AfterLoop
    <3> HIDE DEF f, waits, seen
    <3>2. QED
      BY <2>1, <2>3, <3>1, <1>1, <1>5 DEF Frame, Points
  <2>4. QED
    BY <2>2, <2>3
<1> HIDE DEF f, waits, seen, fills, W, n, held
<1>8. /\ call \in [Calls -> Frame] /\ call' = [call EXCEPT ![c] = f] /\ call'[c] = f
      /\ call' \in [Calls -> Frame]
      /\ \A d \in Calls : d # c => call'[d] = call[d]
      /\ buffer' = [buffer EXCEPT ![h] = buffer[h] \o W]
      /\ buffer[h] \o W \in Seq(Copies) /\ Len(buffer[h] \o W) = held + n
  <2>1. call \in [Calls -> Frame] /\ call' = [call EXCEPT ![c] = f]
    BY DEF IInv, TypeOK, f, fills, n
  <2>2. buffer \in [Chans -> Seq(Copies)] /\ buffer' = [buffer EXCEPT ![h] = buffer[h] \o W]
    BY <1>1 DEF IInv, TypeOK, W, n
  <2>3. buffer[h] \o W \in Seq(Copies) /\ Len(buffer[h] \o W) = held + n
    BY <2>2, <1>3, LogFacts DEF held
  <2>4. call'[c] = f /\ \A d \in Calls : d # c => call'[d] = call[d]
    BY <2>1
  <2>5. call' \in [Calls -> Frame]
    BY <2>1, <1>7
  <2>6. QED
    BY <2>1, <2>2, <2>3, <2>4, <2>5
<1>9. TypeOK' /\ CacheIsLive'
  <2>1. buffer' \in [Chans -> Seq(Copies)]
    BY <1>8 DEF IInv, TypeOK
  <2>2. QED
    BY <2>1, <1>8 DEF IInv, TypeOK, CacheIsLive
<1>10. CallsAreSound'
  <2>1. fills => status[h] = "open"
    BY <1>2, <1>4
  <2>2. /\ f.i <= f.todo /\ f.chan # None /\ status[f.chan] # "unused"
        /\ f.at \in {"draining", "confirming", "fulfilled"}
        /\ f.at = "draining" => f.drained /\ status[f.chan] \in {"open", "closing"}
        /\ f.at \in {"confirming", "fulfilled"} => f.i = f.todo
    BY <2>1, <1>1, <1>2, <1>7
  <2>3. QED
    BY <2>2, <1>8 DEF IInv, CallsAreSound, At
<1>11. /\ Log(h)' = Log(h) \o W /\ Log(h) \in Seq(Copies)
       /\ \A g \in Chans : g # h => Log(g)' = Log(g)
  <2>1. received[h] \in Seq(Copies) /\ buffer[h] \in Seq(Copies)
    BY <1>1 DEF IInv, TypeOK
  <2>2. received[h] \o (buffer[h] \o W) = (received[h] \o buffer[h]) \o W
    <3>1. W \in Seq(Copies)
      BY <1>3
    <3>2. QED
      BY <2>1, <3>1, LogAssociative
  <2>3. buffer'[h] = buffer[h] \o W /\ \A g \in Chans : g # h => buffer'[g] = buffer[g]
    BY <1>1, <1>8 DEF IInv, TypeOK
  <2>4. QED
    BY <2>1, <2>2, <2>3, LogFacts DEF Log
<1>12. ConfirmsAreSeen'
  <2>1. ASSUME f.at = "confirming", NEW k \in 1..f.todo, answer[<<c, k>>] = "none"
        PROVE  <<c, k>> \in f.awaiting
    BY <2>1, <1>2, <1>6, <1>7
  <2>2. ASSUME f.at = "confirming", ~f.drained, NEW k \in 1..f.todo
        PROVE  answer[<<c, k>>] # "nack"
    <3>1. i = 0 /\ k \in 1..MaxDestinations
      BY <2>2, <1>1, <1>7
    <3>2. answer[<<c, k>>] = "none"
      BY <3>1, CopyFacts DEF IInv, UnwrittenIsUnanswered
    <3>3. QED
      BY <3>2
  <2>3. QED
    BY <2>1, <2>2, <1>8 DEF IInv, ConfirmsAreSeen, At
<1>13. UnwrittenIsUnanswered'
  <2>1. ASSUME NEW m \in Copies, m[2] > call'[m[1]].i
        PROVE  answer[m] = "none"
    <3>1. CASE m[1] = c
      <4>1. m[2] \in Nat /\ call'[c].i = i + n
        BY <1>7, <1>8, CopyFacts, NatAssumption
      <4>2. m[2] > i + n /\ i \in Nat /\ n \in Nat
        BY <2>1, <3>1, <4>1, <1>1, <1>2
      <4>3. m[2] > call[m[1]].i
        BY <3>1, <4>1, <4>2
      <4>4. QED
        BY <4>3 DEF IInv, UnwrittenIsUnanswered
    <3>2. CASE m[1] # c
      BY <2>1, <3>2, <1>8, CopyFacts DEF IInv, UnwrittenIsUnanswered
    <3>3. QED
      BY <3>1, <3>2
  <2>2. QED
    BY <2>1 DEF UnwrittenIsUnanswered
<1>14. ClosedIsEmpty'
  <2>1. n = 0 => W = <<>> /\ buffer[h] \o W = buffer[h]
    <3>1. buffer[h] \in Seq(Copies)
      BY <1>1 DEF IInv, TypeOK
    <3>2. n = 0 => W = <<>>
      BY <1>3, EmptySeq
    <3>3. QED
      BY <3>1, <3>2, ConcatEmptySeq
  <2>2. buffer'[h] = buffer[h] \o W /\ \A g \in Chans : g # h => buffer'[g] = buffer[g]
    BY <1>1, <1>8 DEF IInv, TypeOK
  <2>3. status[h] = "closed" => buffer'[h] = <<>>
    <3>1. status[h] = "closed" => n = 0
      BY <1>2, <1>4
    <3>2. status[h] = "closed" => buffer[h] = <<>>
      BY <1>1 DEF IInv, ClosedIsEmpty
    <3>3. QED
      BY <2>1, <2>2, <3>1, <3>2
  <2>4. ASSUME NEW g \in Chans
        PROVE  /\ status[g] = "unused" => /\ g \notin watched /\ g # channel
                                           /\ buffer'[g] = <<>> /\ received[g] = <<>>
               /\ status[g] = "closed" => buffer'[g] = <<>>
    <3>1. CASE g = h
      BY <3>1, <1>1, <2>3
    <3>2. CASE g # h
      BY <3>2, <2>2 DEF IInv, ClosedIsEmpty
    <3>3. QED
      BY <3>1, <3>2
  <2>5. QED
    BY <2>4 DEF ClosedIsEmpty
<1>15. LogsAreWritten'
  <2>1. ASSUME NEW g \in Chans, NEW m \in Copies,
               call[m[1]].chan = g, m[2] <= call[m[1]].i
        PROVE  call'[m[1]].chan = g /\ m[2] <= call'[m[1]].i
    <3>1. CASE m[1] = c
      <4>1. call'[c].chan = call[c].chan /\ call'[c].i = call[c].i + n
        BY <1>1, <1>7, <1>8
      <4>2. m[2] \in Nat
        BY CopyFacts, NatAssumption
      <4>3. QED
        BY <4>1, <4>2, <3>1, <2>1, <1>1, <1>2
    <3>2. CASE m[1] # c
      BY <2>1, <3>2, <1>8, CopyFacts
    <3>3. QED
      BY <3>1, <3>2
  <2>2. ASSUME NEW g \in Chans, NEW p \in 1..Len(Log(g)')
        PROVE  call'[Log(g)'[p][1]].chan = g /\ Log(g)'[p][2] <= call'[Log(g)'[p][1]].i
    <3>1. ASSUME NEW q \in 1..Len(Log(g))
          PROVE  call'[Log(g)[q][1]].chan = g /\ Log(g)[q][2] <= call'[Log(g)[q][1]].i
      <4>1. Log(g)[q] \in Copies
        BY LogFacts DEF IInv, TypeOK, Log
      <4>2. call[Log(g)[q][1]].chan = g /\ Log(g)[q][2] <= call[Log(g)[q][1]].i
        BY DEF IInv, LogsAreWritten
      <4>3. QED
        BY <4>1, <4>2, <2>1
    <3>2. CASE g # h
      <4>1. Log(g)' = Log(g)
        BY <3>2, <1>11
      <4>2. QED
        BY <3>1, <4>1
    <3>3. CASE g = h /\ p \in 1..Len(Log(h))
      <4>1. Log(g)'[p] = Log(g)[p]
        BY <3>3, <1>3, <1>11, LogFacts
      <4>2. QED
        BY <3>1, <3>3, <4>1
    <3>4. CASE g = h /\ p \notin 1..Len(Log(h))
      <4>1. PICK q \in 1..n : p = Len(Log(h)) + q
        <5>1. p \in 1..Len(Log(h) \o W)
          BY <3>4, <1>11
        <5>2. QED
          BY <5>1, <3>4, <1>3, <1>11, LogFacts
      <4>2. Log(h)'[p] = W[q]
        BY <4>1, <1>3, <1>11, LogFacts
      <4>3. Log(h)'[p] = <<c, i + q>>
        BY <4>1, <4>2, <1>3
      <4>4. call'[c].chan = h /\ i + q <= call'[c].i
        <5>1. call'[c].chan = h /\ call'[c].i = i + n
          BY <1>7, <1>8
        <5>2. i \in Nat /\ n \in Nat
          BY <1>1, <1>2
        <5>3. QED
          BY <4>1, <5>1, <5>2
      <4>5. QED
        BY <3>4, <4>3, <4>4
    <3>5. QED
      BY <3>2, <3>3, <3>4
  <2>3. QED
    BY <2>2 DEF LogsAreWritten
<1>16. FulfilledIsDone' /\ NackMissedOnlyInDrain'
  <2>1. ASSUME f.at = "fulfilled", PublisherConfirms, AutoConfirm, NEW k \in 1..f.todo
        PROVE  answer[<<c, k>>] # "none"
    <3>1. ~fills /\ ~waits /\ k \in 1..(i + n) /\ todo > 0
      BY <2>1, <1>1, <1>2, <1>7
    <3>2. seen = {}
      BY <3>1, <2>1 DEF waits
    <3>3. QED
      BY <3>1, <3>2, <1>6
  <2>2. ASSUME f.at = "fulfilled", ~f.drained, PublisherConfirms, AutoConfirm, NEW k \in 1..f.todo
        PROVE  answer[<<c, k>>] = "ack"
    <3>1. i = 0 /\ k \in 1..MaxDestinations
      BY <2>2, <1>1, <1>7
    <3>2. answer[<<c, k>>] = "none"
      BY <3>1, CopyFacts DEF IInv, UnwrittenIsUnanswered
    <3>3. QED
      BY <3>2, <2>1, <2>2
  <2>3. f.at = "fulfilled" => f.i = f.todo
    BY <1>2, <1>7
  <2>4. FulfilledIsDone'
    BY <2>1, <2>3, <1>8 DEF IInv, FulfilledIsDone, At
  <2>5. NackMissedOnlyInDrain'
    BY <2>2, <1>8 DEF IInv, NackMissedOnlyInDrain, At
  <2>6. QED
    BY <2>4, <2>5
<1>17. BufferBounded'
  <2>1. ASSUME NEW g \in Chans
        PROVE  Len(buffer'[g]) < HighWater + Cardinality(Waiting(g)')
    <3>1. /\ Waiting(g) \subseteq Calls /\ IsFiniteSet(Waiting(g))
          /\ Cardinality(Waiting(g)) \in Nat /\ c \notin Waiting(g)
          /\ Len(buffer[g]) < HighWater + Cardinality(Waiting(g)) /\ HighWater \in Nat \ {0}
      <4>1. Waiting(g) \subseteq Calls /\ c \notin Waiting(g)
        BY DEF Waiting, At
      <4>2. IsFiniteSet(Waiting(g))
        BY <4>1, FS_Subset, CallsAssumption
      <4>3. Cardinality(Waiting(g)) \in Nat
        BY <4>2, FS_CardinalityType
      <4>4. QED
        BY <4>1, <4>2, <4>3, NatAssumption DEF IInv, BufferBounded
    <3>2. CASE g = h /\ fills
      <4>1. Waiting(h)' = Waiting(h) \cup {c}
        BY <3>2, <1>7, <1>8 DEF Waiting, At
      <4>2. Cardinality(Waiting(h)') = Cardinality(Waiting(h)) + 1
        BY <4>1, <3>1, <3>2, FS_AddElement
      <4>3. Len(buffer'[h]) = held + n
        BY <1>1, <1>8 DEF IInv, TypeOK
      <4>4. held < HighWater + Cardinality(Waiting(h))
        BY <3>1, <3>2 DEF held
      <4>5. QED
        BY <3>1, <3>2, <4>2, <4>3, <4>4, <1>2
    <3>3. CASE g = h /\ ~fills
      <4>1. Waiting(h)' = Waiting(h)
        BY <3>3, <1>7, <1>8 DEF Waiting, At
      <4>2. Len(buffer'[h]) = held + n
        BY <1>1, <1>8 DEF IInv, TypeOK
      <4>3. held < HighWater + Cardinality(Waiting(h))
        BY <3>1, <3>3 DEF held
      <4>4. QED
        BY <3>1, <3>3, <4>1, <4>2, <4>3, <1>2
    <3>4. CASE g # h
      <4>1. Waiting(g)' = Waiting(g)
        BY <3>4, <1>7, <1>8 DEF Waiting, At
      <4>2. buffer'[g] = buffer[g]
        BY <3>4, <1>8 DEF IInv, TypeOK
      <4>3. QED
        BY <3>1, <4>1, <4>2
    <3>5. QED
      BY <3>2, <3>3, <3>4
  <2>2. QED
    BY <2>1 DEF BufferBounded
<1>18. Ordered' /\ Complete'
  <2>1. CASE n = 0
    <3>1. Log(h)' = Log(h)
      BY <2>1, <1>3, <1>11, EmptySeq, ConcatEmptySeq
    <3>2. \A g \in Chans : Log(g)' = Log(g)
      BY <3>1, <1>11
    <3>3. Ordered'
      BY <3>2, OrderKept DEF IInv
    <3>4. \A d \in Calls : call'[d].i = call[d].i /\ call'[d].chan = call[d].chan
      BY <2>1, <1>1, <1>7, <1>8
    <3>5. Complete'
      <4>1. ASSUME NEW g \in Chans, status'[g] \in {"open", "closing"},
                   NEW d \in Calls, call'[d].chan = g, NEW k \in 1..call'[d].i
            PROVE  \E q \in 1..Len(Log(g)') : Log(g)'[q] = <<d, k>>
        <5>1. call[d].chan = g /\ k \in 1..call[d].i /\ status[g] \in {"open", "closing"}
          BY <4>1, <3>4
        <5>2. \E q \in 1..Len(Log(g)) : Log(g)[q] = <<d, k>>
          BY <5>1 DEF IInv, Complete
        <5>3. QED
          BY <5>2, <3>2
      <4>2. QED
        BY <4>1 DEF Complete
    <3>6. QED
      BY <3>3, <3>5
  <2>2. CASE n > 0
    <3>1. status[h] = "open"
      BY <2>2, <1>4
    <3>2. \A p \in 1..Len(Log(h)) : Log(h)[p][1] = c => Log(h)[p][2] <= i
      BY <1>1 DEF IInv, LogsAreWritten
    <3>3. \A k \in 1..i : \E q \in 1..Len(Log(h)) : Log(h)[q] = <<c, k>>
      BY <3>1, <1>1 DEF IInv, Complete
    <3>4. InOrder(Log(h)) /\ Gapless(Log(h))
      BY <1>1 DEF IInv, Ordered
    <3>5. /\ InOrder(Log(h) \o W) /\ Gapless(Log(h) \o W)
          /\ \A k \in 1..(i + n) : \E q \in 1..Len(Log(h) \o W) : (Log(h) \o W)[q] = <<c, k>>
      <4>1. /\ Log(h) \in Seq(Copies) /\ W \in Seq(Copies) /\ Len(W) = n
            /\ i \in Nat /\ n \in Nat
            /\ \A k \in 1..n : W[k] = <<c, i + k>> /\ i + k \in 1..MaxDestinations
        BY <1>1, <1>2, <1>3, <1>11
      <4>2. PICK l : l = Log(h)
        OBVIOUS
      <4>3. PICK j : j = i
        OBVIOUS
      <4>4. HasWritten(l, c, j)
        BY <4>2, <4>3, <3>3, <3>4 DEF HasWritten
      <4>5. WrittenAfter(l, W, c, j, n)
        BY <4>1, <4>2, <4>3, <4>4, <3>2 DEF WrittenAfter
      <4>6. HasWritten(l \o W, c, j + n)
        BY <4>5, WriteKeepsOrder
      <4>7. QED
        BY <4>2, <4>3, <4>6 DEF HasWritten
    <3>6. ASSUME NEW g \in Chans
          PROVE  InOrder(Log(g))' /\ Gapless(Log(g))'
      <4>1. InOrder(Log(g)) /\ Gapless(Log(g))
        BY DEF IInv, Ordered
      <4>2. CASE g = h
        <5>1. InOrder(Log(h))'
          <6>1. InOrder(Log(h) \o W) /\ Log(h)' = Log(h) \o W
            BY <3>5, <1>11
          <6>2. QED
            BY <6>1 DEF InOrder
        <5>2. Gapless(Log(h))'
          <6>1. Gapless(Log(h) \o W) /\ Log(h)' = Log(h) \o W
            BY <3>5, <1>11
          <6>2. QED
            BY <6>1 DEF Gapless
        <5>3. QED
          BY <4>2, <5>1, <5>2
      <4>3. CASE g # h
        BY <4>1, <4>3, <1>11 DEF InOrder, Gapless
      <4>4. QED
        BY <4>2, <4>3
    <3>7. ASSUME NEW g \in Chans, status'[g] \in {"open", "closing"},
                 NEW d \in Calls, call'[d].chan = g, NEW k \in 1..call'[d].i
          PROVE  \E q \in 1..Len(Log(g)') : Log(g)'[q] = <<d, k>>
      <4>1. CASE d = c
        <5>1. g = h /\ k \in 1..(i + n)
          BY <4>1, <3>7, <1>7, <1>8
        <5>2. QED
          BY <4>1, <5>1, <3>5, <1>11
      <4>2. CASE d # c
        <5>1. \E q \in 1..Len(Log(g)) : Log(g)[q] = <<d, k>>
          <6>1. call[d].chan = g /\ k \in 1..call[d].i /\ status[g] \in {"open", "closing"}
            BY <4>2, <3>7, <1>8
          <6>2. QED
            BY <6>1 DEF IInv, Complete
        <5>2. PICK q \in 1..Len(Log(g)) : Log(g)[q] = <<d, k>>
          BY <5>1
        <5>3. q \in 1..Len(Log(g)') /\ Log(g)'[q] = Log(g)[q]
          <6>1. g = h => q \in 1..Len(Log(h) \o W) /\ (Log(h) \o W)[q] = Log(h)[q]
            BY <1>3, <1>11, LogFacts
          <6>2. QED
            BY <6>1, <1>11
        <5>4. QED
          BY <5>2, <5>3
      <4>3. QED
        BY <4>1, <4>2
    <3>8. QED
      BY <3>6, <3>7 DEF Ordered, Complete
  <2>3. QED
    BY <2>1, <2>2, <1>2
<1>19. QED
  BY <1>9, <1>10, <1>12, <1>13, <1>14, <1>15, <1>16, <1>17, <1>18 DEF IInv

\* Every step of publish() itself.
LEMMA CallStepPreserves ==
    ASSUME IInv, NEW c \in Calls, CallStep(c)
    PROVE  IInv'
<1>1. /\ call \in [Calls -> Frame] /\ call[c] \in Frame
      /\ call[c].at \in {"idle", "piping", "asking"} =>
            call[c].chan = None /\ ~call[c].drained /\ call[c].i = 0
      /\ call[c].i <= call[c].todo /\ MaxDestinations \in Nat
      /\ call[c].chan # None => status[call[c].chan] # "unused"
  BY NatAssumption DEF IInv, TypeOK, CallsAreSound
<1>2. /\ status \in [Chans -> Status] /\ watched \subseteq Chans /\ channel \in Chans \cup {None}
      /\ \A h \in Chans : status[h] = "unused" => h \notin watched /\ h # channel
      /\ CacheIsLive
  BY DEF IInv, TypeOK, ClosedIsEmpty
<1>3. CASE Publish(c)
  <2>1. PICK n \in 0..MaxDestinations : call' = [call EXCEPT ![c].at = "piping", ![c].todo = n]
    BY <1>3 DEF Publish
  <2> DEFINE f == [call[c] EXCEPT !.at = "piping", !.todo = n]
  <2>2. /\ call' = [call EXCEPT ![c] = f] /\ f \in Frame /\ call[c].at = "idle"
        /\ f.at = "piping" /\ f.i = 0 /\ f.todo = n /\ ~f.drained /\ f.chan = None
    BY <1>1, <1>3, <2>1 DEF Publish, At, Frame, Points
  <2>3. UNCHANGED <<channel, watched, status, buffer, received, answer>>
    BY <1>3 DEF Publish
  <2> HIDE DEF f
  <2>4. CacheIsLive' /\ f.i <= f.todo
    BY <1>2, <2>2, <2>3 DEF CacheIsLive
  <2>5. QED
    <3>1. /\ call[c].at \in {"idle", "piping", "asking", "sending"}
          /\ f.at \in {"piping", "asking", "sending", "rejected"}
          /\ f.i = call[c].i /\ f.i <= f.todo /\ f.drained = call[c].drained
          /\ call[c].chan = None
          /\ f.at \in {"piping", "asking"} => f.chan = None /\ ~f.drained
          /\ f.at = "sending" => f.chan # None
          /\ f.chan # None => status'[f.chan] # "unused"
      BY <1>1, <2>2, <2>4 DEF Frame
    <3>2. /\ status' \in [Chans -> Status] /\ watched' \subseteq Chans /\ channel' \in Chans \cup {None}
          /\ \A h \in Chans : status'[h] = status[h] \/ (status[h] = "unused" /\ status'[h] # "unused")
          /\ \A h \in Chans : status'[h] = "unused" => h \notin watched' /\ h # channel'
      BY <1>2, <2>3
    <3>3. QED
      BY <3>1, <3>2, <2>2, <2>3, <2>4, MovesOnPreserves
<1>4. ASSUME call[c].at \in {"piping", "asking", "sending"}, GoTo(c, "rejected"),
             UNCHANGED <<channel, watched, status, buffer, received, answer>>
      PROVE  IInv'
  <2> DEFINE f == [call[c] EXCEPT !.at = "rejected"]
  <2>1. /\ call' = [call EXCEPT ![c] = f] /\ f \in Frame
        /\ f.at = "rejected" /\ f.i = call[c].i /\ f.todo = call[c].todo
        /\ f.drained = call[c].drained /\ f.chan = call[c].chan
    BY <1>1, <1>4 DEF GoTo, Frame, Points
  <2> HIDE DEF f
  <2>2. CacheIsLive'
    BY <1>2, <1>4 DEF CacheIsLive
  <2>3. QED
    BY <1>1, <1>2, <1>4, <2>1, <2>2, MovesOnPreserves
<1>5. CASE PipelineThrows(c) \/ ProviderRejects(c)
  BY <1>4, <1>5 DEF PipelineThrows, ProviderRejects, At
<1>6. CASE Channel(c)
  <2> DEFINE f == IF channel # None THEN [call[c] EXCEPT !.at = "sending", !.chan = channel]
                  ELSE [call[c] EXCEPT !.at = "asking"]
  <2>1. /\ call' = [call EXCEPT ![c] = f] /\ call[c].at = "piping"
        /\ UNCHANGED <<channel, watched, status, buffer, received, answer>>
    BY <1>6 DEF Channel, At
  <2>2. /\ f \in Frame /\ f.i = call[c].i /\ f.todo = call[c].todo /\ ~f.drained
        /\ channel # None => f.at = "sending" /\ f.chan = channel
        /\ channel = None => f.at = "asking" /\ f.chan = None
    BY <1>1, <1>2, <2>1 DEF Frame, Points
  <2> HIDE DEF f
  <2>3. CacheIsLive' /\ (f.chan # None => status[f.chan] # "unused")
    BY <1>2, <2>1, <2>2 DEF CacheIsLive
  <2>4. QED
    <3>1. /\ call[c].at \in {"idle", "piping", "asking", "sending"}
          /\ f.at \in {"piping", "asking", "sending", "rejected"}
          /\ f.i = call[c].i /\ f.i <= f.todo /\ f.drained = call[c].drained
          /\ call[c].chan = None
          /\ f.at \in {"piping", "asking"} => f.chan = None /\ ~f.drained
          /\ f.at = "sending" => f.chan # None
          /\ f.chan # None => status'[f.chan] # "unused"
      BY <1>1, <2>1, <2>2, <2>3 DEF Frame
    <3>2. /\ status' \in [Chans -> Status] /\ watched' \subseteq Chans /\ channel' \in Chans \cup {None}
          /\ \A h \in Chans : status'[h] = status[h] \/ (status[h] = "unused" /\ status'[h] # "unused")
          /\ \A h \in Chans : status'[h] = "unused" => h \notin watched' /\ h # channel'
      BY <1>2, <2>1
    <3>3. QED
      BY <3>1, <3>2, <2>1, <2>2, <2>3, MovesOnPreserves
<1>7. ASSUME NEW h \in Chans, ChannelResumes(c, h)
      PROVE  IInv'
  <2> DEFINE f == [call[c] EXCEPT !.at = "sending", !.chan = h]
  <2>0. PICK s \in IF status[h] = "unused" THEN Status \ {"unused"} ELSE {status[h]} :
          /\ status' = [status EXCEPT ![h] = s]
          /\ watched' = IF s = "closed" THEN watched ELSE watched \cup {h}
    BY <1>7 DEF ChannelResumes
  <2>1. /\ call' = [call EXCEPT ![c] = f] /\ call[c].at = "asking"
        /\ UNCHANGED <<buffer, received, answer>>
        /\ channel' = h
        /\ status[h] = "closed" => h \notin watched
        /\ s \in Status \ {"unused"}
        /\ status[h] # "unused" => s = status[h]
    BY <1>2, <1>7, <2>0 DEF ChannelResumes, At, Status
  <2>2. /\ f \in Frame /\ f.i = call[c].i /\ f.todo = call[c].todo /\ ~f.drained
        /\ f.at = "sending" /\ f.chan = h /\ h # None
    BY <1>1, <2>1, NoneAssumption DEF Frame, Points
  <2> HIDE DEF f
  <2>3. /\ status' \in [Chans -> Status] /\ status'[h] # "unused"
        /\ \A g \in Chans : status'[g] = status[g] \/ (status[g] = "unused" /\ status'[g] # "unused")
        /\ watched' \subseteq Chans
        /\ \A g \in Chans : status'[g] = "unused" => g \notin watched' /\ g # channel'
    BY <1>2, <2>0, <2>1 DEF Status
  <2>4. CacheIsLive'
    <3>1. status'[h] = s
      BY <1>2, <2>0
    <3>2. CASE s = "closed"
      BY <1>2, <2>0, <2>1, <3>2 DEF CacheIsLive
    <3>3. CASE s # "closed"
      BY <2>1, <3>1, <3>3 DEF CacheIsLive, Status
    <3>4. QED
      BY <3>2, <3>3
  <2>5. QED
    <3>1. /\ call[c].at \in {"idle", "piping", "asking", "sending"}
          /\ f.at \in {"piping", "asking", "sending", "rejected"}
          /\ f.i = call[c].i /\ f.i <= f.todo /\ f.drained = call[c].drained
          /\ call[c].chan = None
          /\ f.at \in {"piping", "asking"} => f.chan = None /\ ~f.drained
          /\ f.at = "sending" => f.chan # None
          /\ f.chan # None => status'[f.chan] # "unused"
      BY <1>1, <2>1, <2>2, <2>3 DEF Frame
    <3>2. /\ status' \in [Chans -> Status] /\ watched' \subseteq Chans /\ channel' \in Chans \cup {None}
          /\ \A g \in Chans : status'[g] = status[g] \/ (status[g] = "unused" /\ status'[g] # "unused")
          /\ \A g \in Chans : status'[g] = "unused" => g \notin watched' /\ g # channel'
      BY <2>1, <2>3
    <3>3. QED
      BY <3>1, <3>2, <2>1, <2>2, <2>4, MovesOnPreserves
<1>8. CASE Send(c)
  <2>1. CASE call[c].i < call[c].todo /\ status[call[c].chan] # "open"
    BY <1>4, <1>8, <2>1 DEF Send, At
  <2>2. CASE ~(call[c].i < call[c].todo /\ status[call[c].chan] # "open")
    <3>1. /\ At(c, "sending")
          /\ buffer' = [buffer EXCEPT ![call[c].chan] = @ \o Written(c, Burst(c))]
          /\ call' = [call EXCEPT ![c] = IF Full(c, Burst(c)) THEN WaitForDrain(c, Burst(c))
                                          ELSE AfterLoop(c, Burst(c))]
          /\ UNCHANGED <<channel, watched, status, received, answer>>
      BY <1>8, <2>2 DEF Send
    <3>2. call[c].i < call[c].todo => status[call[c].chan] = "open"
      BY <2>2
    <3>3. QED
      BY <3>1, <3>2, SendWrites
  <2>3. QED
    BY <2>1, <2>2
<1>9. QED
  BY <1>3, <1>5, <1>6, <1>7, <1>8 DEF CallStep

-----------------------------------------------------------------------------
\* Calls that wait can be counted.
LEMMA FiniteCalls ==
    ASSUME NEW S, S \subseteq Calls
    PROVE  IsFiniteSet(S) /\ Cardinality(S) \in Nat
BY FS_Subset, FS_CardinalityType, CallsAssumption

\* What is said of the logs holds while neither they nor the calls' counts change.
LEMMA LogsKept ==
    ASSUME IInv,
           \A d \in Calls : call'[d].i = call[d].i /\ call'[d].chan = call[d].chan,
           \A h \in Chans : Log(h)' = Log(h),
           \A h \in Chans : status'[h] \in {"open", "closing"} => status[h] \in {"open", "closing"}
    PROVE  LogsAreWritten' /\ Ordered' /\ Complete'
<1>1. ASSUME NEW h \in Chans, NEW p \in 1..Len(Log(h)')
      PROVE  call'[Log(h)'[p][1]].chan = h /\ Log(h)'[p][2] <= call'[Log(h)'[p][1]].i
  <2>1. p \in 1..Len(Log(h)) /\ Log(h)'[p] = Log(h)[p]
    BY <1>1
  <2>2. Log(h)[p] \in Copies
    BY <2>1, LogFacts DEF IInv, TypeOK, Log
  <2>3. call[Log(h)[p][1]].chan = h /\ Log(h)[p][2] <= call[Log(h)[p][1]].i
    BY <2>1 DEF IInv, LogsAreWritten
  <2>4. QED
    BY <2>1, <2>2, <2>3, CopyFacts
<1>2. Ordered'
  BY OrderKept DEF IInv
<1>3. ASSUME NEW h \in Chans, status'[h] \in {"open", "closing"},
             NEW d \in Calls, call'[d].chan = h, NEW k \in 1..call'[d].i
      PROVE  \E q \in 1..Len(Log(h)') : Log(h)'[q] = <<d, k>>
  <2>1. call[d].chan = h /\ k \in 1..call[d].i /\ status[h] \in {"open", "closing"}
    BY <1>3
  <2>2. \E q \in 1..Len(Log(h)) : Log(h)[q] = <<d, k>>
    BY <2>1 DEF IInv, Complete
  <2>3. QED
    BY <2>2
<1>4. QED
  BY <1>1, <1>2, <1>3 DEF LogsAreWritten, Complete

\* A message goes out and may release those that wait for 'drain'.
LEMMA FlushPreserves ==
    ASSUME IInv, NEW h \in Chans, Flush(h)
    PROVE  IInv'
<1>1. /\ call \in [Calls -> Frame] /\ HighWater \in Nat \ {0}
      /\ buffer \in [Chans -> Seq(Copies)] /\ received \in [Chans -> Seq(Copies)]
      /\ buffer[h] # <<>> /\ status[h] \in {"open", "closing"}
      /\ received' = [received EXCEPT ![h] = Append(received[h], Head(buffer[h]))]
      /\ buffer' = [buffer EXCEPT ![h] = Tail(buffer[h])]
      /\ call' = [c \in Calls |-> IF Tail(buffer[h]) = <<>> /\ c \in Waiting(h)
                                   THEN [call[c] EXCEPT !.at = "sending"] ELSE call[c]]
      /\ UNCHANGED <<channel, watched, status, answer>>
  BY NatAssumption DEF IInv, TypeOK, Flush
<1>2. /\ Append(received[h], Head(buffer[h])) \in Seq(Copies) /\ Tail(buffer[h]) \in Seq(Copies)
      /\ Len(buffer[h]) \in Nat /\ Len(Tail(buffer[h])) = Len(buffer[h]) - 1
      /\ Append(received[h], Head(buffer[h])) \o Tail(buffer[h]) = received[h] \o buffer[h]
  BY <1>1, FlushFacts
<1>3. \A d \in Calls : call[d] \in Frame
  BY <1>1
<1>4. ASSUME NEW d \in Calls
      PROVE  /\ call'[d] \in Frame
             /\ call'[d].i = call[d].i /\ call'[d].todo = call[d].todo
             /\ call'[d].chan = call[d].chan /\ call'[d].awaiting = call[d].awaiting
             /\ call'[d].drained = call[d].drained
             /\ call'[d] = call[d] \/ (call[d].at = "draining" /\ call'[d].at = "sending")
  BY <1>1, <1>3 DEF Waiting, At, Frame, Points
<1>5. TypeOK'
  <2>1. call' \in [Calls -> Frame]
    BY <1>1, <1>4
  <2>2. buffer' \in [Chans -> Seq(Copies)] /\ received' \in [Chans -> Seq(Copies)]
    BY <1>1, <1>2
  <2>3. QED
    BY <2>1, <2>2, <1>1 DEF IInv, TypeOK
<1>6. \A g \in Chans : Log(g)' = Log(g)
  BY <1>1, <1>2 DEF Log
<1>7. CallsAreSound'
  <2> DEFINE Sound(e) ==
          /\ e.i <= e.todo
          /\ e.chan = None => e.i = 0
          /\ e.chan # None => status[e.chan] # "unused"
          /\ e.at \in {"idle", "piping", "asking"} => e.chan = None /\ ~e.drained
          /\ e.at \in {"sending", "draining", "confirming", "fulfilled"} => e.chan # None
          /\ e.at = "draining" => e.drained /\ status[e.chan] \in {"open", "closing"}
          /\ e.at = "sending" /\ ~e.drained => e.i = 0
          /\ e.at \in {"confirming", "fulfilled"} => e.i = e.todo
  <2>1. ASSUME NEW d \in Calls
        PROVE  Sound(call'[d])
    <3>1. Sound(call[d])
      BY DEF IInv, CallsAreSound, At
    <3>2. CASE call'[d] = call[d]
      BY <3>1, <3>2
    <3>3. CASE call[d].at = "draining" /\ call'[d].at = "sending"
      BY <3>1, <3>3, <1>4
    <3>4. QED
      BY <3>2, <3>3, <1>4
  <2>2. QED
    BY <2>1, <1>1 DEF CallsAreSound, At
<1>8. ConfirmsAreSeen'
  BY <1>1, <1>4 DEF IInv, ConfirmsAreSeen, At
<1>9. UnwrittenIsUnanswered'
  BY <1>1, <1>4, CopyFacts DEF IInv, UnwrittenIsUnanswered
<1>10. ClosedIsEmpty' /\ CacheIsLive'
  BY <1>1 DEF IInv, ClosedIsEmpty, CacheIsLive
<1>11. FulfilledIsDone' /\ NackMissedOnlyInDrain'
  BY <1>1, <1>4 DEF IInv, FulfilledIsDone, NackMissedOnlyInDrain, At
<1>12. BufferBounded'
  <2>1. ASSUME NEW g \in Chans
        PROVE  Len(buffer'[g]) < HighWater + Cardinality(Waiting(g)')
    <3>1. /\ Waiting(g) \subseteq Calls /\ Waiting(g)' \subseteq Calls
          /\ Len(buffer[g]) < HighWater + Cardinality(Waiting(g))
      BY DEF Waiting, IInv, BufferBounded
    <3>2. Cardinality(Waiting(g)) \in Nat /\ Cardinality(Waiting(g)') \in Nat
      BY <3>1, FiniteCalls
    <3>3. CASE g # h
      <4>1. Waiting(g)' = Waiting(g) /\ buffer'[g] = buffer[g]
        BY <3>3, <1>1, <1>4 DEF Waiting, At
      <4>2. QED
        BY <4>1, <3>1
    <3>4. CASE g = h /\ Tail(buffer[h]) = <<>>
      <4>1. Len(buffer'[h]) = 0
        BY <3>4, <1>1
      <4>2. QED
        BY <4>1, <3>2, <3>4, <1>1
    <3>5. CASE g = h /\ Tail(buffer[h]) # <<>>
      <4>1. Waiting(h)' = Waiting(h) /\ Len(buffer'[h]) = Len(buffer[h]) - 1
        BY <3>5, <1>1, <1>2 DEF Waiting, At
      <4>2. QED
        BY <4>1, <3>1, <3>2, <3>5, <1>1, <1>2
    <3>6. QED
      BY <3>3, <3>4, <3>5
  <2>2. QED
    BY <2>1 DEF BufferBounded
<1>13. LogsAreWritten' /\ Ordered' /\ Complete'
  BY <1>1, <1>4, <1>6, LogsKept
<1>14. QED
  BY <1>5, <1>7, <1>8, <1>9, <1>10, <1>11, <1>12, <1>13 DEF IInv

\* The broker's close() reaches a channel.
LEMMA ChannelClosingPreserves ==
    ASSUME IInv, NEW h \in Chans, ChannelClosing(h)
    PROVE  IInv'
<1>1. /\ status \in [Chans -> Status] /\ status[h] = "open"
      /\ status' = [status EXCEPT ![h] = "closing"]
      /\ UNCHANGED <<channel, watched, buffer, received, answer, call>>
  BY DEF IInv, TypeOK, ChannelClosing
<1>2. \A g \in Chans : status'[g] = status[g] \/ (status[g] = "open" /\ status'[g] = "closing")
  BY <1>1
<1>3. TypeOK'
  BY <1>1 DEF IInv, TypeOK, Status
<1>4. CallsAreSound'
  BY <1>1, <1>2 DEF IInv, TypeOK, CallsAreSound, At, Frame
<1>5. ConfirmsAreSeen' /\ UnwrittenIsUnanswered' /\ FulfilledIsDone' /\ NackMissedOnlyInDrain'
  BY <1>1 DEF IInv, ConfirmsAreSeen, UnwrittenIsUnanswered, FulfilledIsDone, NackMissedOnlyInDrain, At
<1>6. ClosedIsEmpty' /\ CacheIsLive'
  BY <1>1, <1>2 DEF IInv, TypeOK, ClosedIsEmpty, CacheIsLive
<1>7. BufferBounded'
  BY <1>1 DEF IInv, BufferBounded, Waiting, At
<1>8. \A g \in Chans : Log(g)' = Log(g)
  BY <1>1 DEF Log
<1>9. LogsAreWritten' /\ Ordered' /\ Complete'
  BY <1>1, <1>2, <1>8, LogsKept
<1>10. QED
  BY <1>3, <1>4, <1>5, <1>6, <1>7, <1>9 DEF IInv

\* The server answers messages and tells the calls that await them.
LEMMA ConfirmPreserves ==
    ASSUME IInv, NEW h \in Chans, NEW p \in 1..Len(received[h]), NEW multiple \in BOOLEAN,
           NEW verdict \in {"ack", "nack"}, Confirm(h, p, multiple, verdict)
    PROVE  IInv'
<1> DEFINE M == {m \in {received[h][q] : q \in IF multiple THEN 1..p ELSE {p}} : answer[m] = "none"}
<1>1. /\ call \in [Calls -> Frame] /\ answer \in [Copies -> {"none", "ack", "nack"}]
      /\ received[h] \in Seq(Copies) /\ buffer[h] \in Seq(Copies)
      /\ answer' = [m \in Copies |-> IF m \in M THEN verdict ELSE answer[m]]
      /\ call' = [c \in Calls |-> Told(c, M, verdict)]
      /\ UNCHANGED <<channel, watched, status, buffer, received>>
  BY DEF IInv, TypeOK, Confirm
<1>2. /\ M \subseteq Copies
      /\ \A m \in M : answer[m] = "none" /\ m[2] <= call[m[1]].i
  <2>1. ASSUME NEW m \in M
        PROVE  m \in Copies /\ answer[m] = "none" /\ m[2] <= call[m[1]].i
    <3>1. PICK q \in 1..Len(received[h]) : m = received[h][q]
      BY <1>1
    <3>2. q \in 1..Len(Log(h)) /\ Log(h)[q] = m
      BY <1>1, <3>1, LogFacts DEF Log
    <3>3. m \in Copies
      BY <1>1, <3>1, ElementOfSeq
    <3>4. QED
      BY <3>2, <3>3 DEF IInv, LogsAreWritten
  <2>2. QED
    BY <2>1
<1> HIDE DEF M
<1>3. ASSUME NEW m \in Copies
      PROVE  /\ m \in M => answer[m] = "none" /\ answer'[m] = verdict
             /\ m \notin M => answer'[m] = answer[m]
             /\ answer[m] \in {"none", "ack", "nack"}
  BY <1>1, <1>2
<1>4. ASSUME NEW d \in Calls
      PROVE  /\ call'[d] \in Frame
             /\ call'[d].i = call[d].i /\ call'[d].todo = call[d].todo
             /\ call'[d].chan = call[d].chan /\ call'[d].drained = call[d].drained
             /\ \/ call'[d] = call[d] /\ (At(d, "confirming") => call[d].awaiting \cap M = {})
                \/ At(d, "confirming") /\ call'[d].at = "rejected"
                \/ /\ At(d, "confirming") /\ verdict = "ack"
                   /\ call'[d].awaiting = call[d].awaiting \ M
                   /\ \/ call'[d].at = "confirming"
                      \/ call'[d].at = "fulfilled" /\ call[d].awaiting \subseteq M
  <2>1. call'[d] = Told(d, M, verdict) /\ call[d] \in Frame
    BY <1>1
  <2>2. CASE ~At(d, "confirming") \/ call[d].awaiting \cap M = {}
    BY <2>1, <2>2 DEF Told
  <2>3. CASE At(d, "confirming") /\ call[d].awaiting \cap M # {} /\ verdict = "nack"
    BY <2>1, <2>3 DEF Told, Frame, Points
  <2>4. CASE At(d, "confirming") /\ call[d].awaiting \cap M # {} /\ verdict # "nack"
    <3> DEFINE g == [call[d] EXCEPT !.awaiting = @ \ M,
                                    !.at = IF call[d].awaiting \subseteq M THEN "fulfilled" ELSE @]
    <3>1. call'[d] = g
      BY <2>1, <2>4 DEF Told
    <3>2. /\ g \in Frame /\ g.i = call[d].i /\ g.todo = call[d].todo /\ g.chan = call[d].chan
          /\ g.drained = call[d].drained /\ g.awaiting = call[d].awaiting \ M
          /\ g.at = IF call[d].awaiting \subseteq M THEN "fulfilled" ELSE "confirming"
      BY <2>1, <2>4 DEF Frame, Points, At
    <3> HIDE DEF g
    <3>3. QED
      BY <2>4, <3>1, <3>2
  <2>5. QED
    BY <2>2, <2>3, <2>4
<1>5. TypeOK'
  <2>1. call' \in [Calls -> Frame]
    BY <1>1, <1>4
  <2>2. answer' \in [Copies -> {"none", "ack", "nack"}]
    BY <1>1
  <2>3. QED
    BY <2>1, <2>2, <1>1 DEF IInv, TypeOK
<1>6. CallsAreSound'
  <2> DEFINE Sound(e) ==
          /\ e.i <= e.todo
          /\ e.chan = None => e.i = 0
          /\ e.chan # None => status[e.chan] # "unused"
          /\ e.at \in {"idle", "piping", "asking"} => e.chan = None /\ ~e.drained
          /\ e.at \in {"sending", "draining", "confirming", "fulfilled"} => e.chan # None
          /\ e.at = "draining" => e.drained /\ status[e.chan] \in {"open", "closing"}
          /\ e.at = "sending" /\ ~e.drained => e.i = 0
          /\ e.at \in {"confirming", "fulfilled"} => e.i = e.todo
  <2>1. ASSUME NEW d \in Calls
        PROVE  Sound(call'[d])
    <3>1. Sound(call[d])
      BY DEF IInv, CallsAreSound, At
    <3>2. CASE call'[d] = call[d]
      BY <3>1, <3>2
    <3>3. CASE At(d, "confirming") /\ call'[d].at \in {"rejected", "confirming", "fulfilled"}
      BY <3>1, <3>3, <1>4 DEF At
    <3>4. QED
      BY <3>2, <3>3, <1>4
  <2>2. QED
    BY <2>1, <1>1 DEF CallsAreSound, At
<1>7. ASSUME NEW d \in Calls, At(d, "confirming"), NEW k \in 1..call[d].todo
      PROVE  /\ <<d, k>> \in Copies
             /\ answer[<<d, k>>] = "none" => <<d, k>> \in call[d].awaiting
             /\ ~call[d].drained => answer[<<d, k>>] # "nack"
  <2>1. k \in 1..MaxDestinations
    BY <1>1, NatAssumption DEF Frame
  <2>2. QED
    BY <1>7, <2>1, CopyFacts DEF IInv, ConfirmsAreSeen
<1>8. ConfirmsAreSeen'
  <2>1. ASSUME NEW d \in Calls, call'[d].at = "confirming", NEW k \in 1..call'[d].todo
        PROVE  /\ answer'[<<d, k>>] = "none" => <<d, k>> \in call'[d].awaiting
               /\ ~call'[d].drained => answer'[<<d, k>>] # "nack"
    <3>1. At(d, "confirming") /\ k \in 1..call[d].todo
      BY <2>1, <1>4 DEF At
    <3>2. /\ <<d, k>> \in Copies
          /\ answer[<<d, k>>] = "none" => <<d, k>> \in call[d].awaiting
          /\ ~call[d].drained => answer[<<d, k>>] # "nack"
      BY <3>1, <1>7
    <3>3. CASE <<d, k>> \in M
      BY <2>1, <3>1, <3>2, <3>3, <1>3, <1>4
    <3>4. CASE <<d, k>> \notin M
      BY <2>1, <3>1, <3>2, <3>4, <1>3, <1>4
    <3>5. QED
      BY <3>3, <3>4
  <2>2. QED
    BY <2>1 DEF ConfirmsAreSeen, At
<1>9. UnwrittenIsUnanswered'
  <2>1. ASSUME NEW m \in Copies, m[2] > call'[m[1]].i
        PROVE  answer'[m] = "none"
    <3>1. m[1] \in Calls /\ m[2] \in Nat
      BY CopyFacts, NatAssumption
    <3>4. call'[m[1]].i = call[m[1]].i /\ call[m[1]].i \in Nat
      BY <3>1, <1>1, <1>4, NatAssumption DEF Frame
    <3>5. m[2] > call[m[1]].i
      BY <2>1, <3>4
    <3>2. m \notin M
      BY <3>1, <3>4, <3>5, <1>2
    <3>3. QED
      BY <3>2, <3>5, <1>3 DEF IInv, UnwrittenIsUnanswered
  <2>2. QED
    BY <2>1 DEF UnwrittenIsUnanswered
<1>10. ClosedIsEmpty' /\ CacheIsLive'
  BY <1>1 DEF IInv, ClosedIsEmpty, CacheIsLive
<1>11. ASSUME NEW d \in Calls, call'[d].at = "fulfilled"
       PROVE  /\ call'[d].i = call'[d].todo
              /\ PublisherConfirms /\ AutoConfirm =>
                    \A k \in 1..call'[d].todo : answer'[<<d, k>>] # "none"
              /\ PublisherConfirms /\ AutoConfirm /\ ~call'[d].drained =>
                    \A k \in 1..call'[d].todo : answer'[<<d, k>>] = "ack"
  <2>1. call[d].at \in {"confirming", "fulfilled"} /\ call[d].i = call[d].todo
    BY <1>11, <1>4 DEF At, IInv, CallsAreSound
  <2>2. ASSUME NEW k \in 1..call[d].todo, PublisherConfirms, AutoConfirm
        PROVE  answer'[<<d, k>>] # "none" /\ (~call[d].drained => answer'[<<d, k>>] = "ack")
    <3>1. <<d, k>> \in Copies
      <4>1. k \in 1..MaxDestinations
        BY <1>1, NatAssumption DEF Frame
      <4>2. QED
        BY <4>1, CopyFacts
    <3>2. CASE At(d, "fulfilled")
      <4>1. answer[<<d, k>>] # "none" /\ (~call[d].drained => answer[<<d, k>>] = "ack")
        BY <3>2, <2>2 DEF IInv, FulfilledIsDone, NackMissedOnlyInDrain
      <4>2. QED
        BY <4>1, <3>1, <1>3
    <3>3. CASE At(d, "confirming")
      <4>1. verdict = "ack" /\ call[d].awaiting \subseteq M
        BY <3>3, <1>11, <1>4 DEF At
      <4>2. CASE <<d, k>> \in M
        BY <4>1, <4>2, <3>1, <1>3
      <4>3. CASE <<d, k>> \notin M
        BY <4>1, <4>3, <3>1, <3>3, <1>3, <1>7
      <4>4. QED
        BY <4>2, <4>3
    <3>4. QED
      BY <2>1, <3>2, <3>3 DEF At
  <2>3. QED
    BY <2>1, <2>2, <1>4
<1>12. FulfilledIsDone' /\ NackMissedOnlyInDrain'
  BY <1>11 DEF FulfilledIsDone, NackMissedOnlyInDrain, At
<1>13. BufferBounded'
  <2>1. \A g \in Chans : Waiting(g)' = Waiting(g) /\ buffer'[g] = buffer[g]
    BY <1>1, <1>4 DEF Waiting, At
  <2>2. QED
    BY <2>1 DEF IInv, BufferBounded
<1>14. LogsAreWritten' /\ Ordered' /\ Complete'
  <2>1. \A g \in Chans : Log(g)' = Log(g)
    BY <1>1 DEF Log
  <2>2. QED
    BY <2>1, <1>1, <1>4, LogsKept
<1>15. QED
  BY <1>5, <1>6, <1>8, <1>9, <1>10, <1>12, <1>13, <1>14 DEF IInv

\* What is left of a log that loses its end is in order and without gaps.
LEMMA PrefixKeepsOrder ==
    ASSUME NEW r \in Seq(Copies), NEW b \in Seq(Copies), InOrder(r \o b), Gapless(r \o b)
    PROVE  InOrder(r) /\ Gapless(r)
<1> DEFINE log == r \o b
<1>1. /\ Len(r) \in Nat /\ Len(log) = Len(r) + Len(b) /\ Len(b) \in Nat
      /\ \A p \in 1..Len(r) : log[p] = r[p] /\ p \in 1..Len(log)
      /\ \A p \in 1..Len(log) : log[p] \in Copies
  BY LogFacts
<1>2. InOrder(log) /\ Gapless(log)
  OBVIOUS
<1> HIDE DEF log
<1>3. InOrder(r)
  BY <1>1, <1>2 DEF InOrder
<1>4. ASSUME NEW p \in 1..Len(r), NEW k \in 1..r[p][2]
      PROVE  \E q \in 1..Len(r) : r[q] = <<r[p][1], k>>
  <2>1. r[p] = log[p] /\ p \in 1..Len(log)
    BY <1>1
  <2>2. PICK q \in 1..Len(log) : log[q] = <<r[p][1], k>>
    BY <1>2, <2>1 DEF Gapless
  <2>3. CASE q <= Len(r)
    BY <1>1, <2>2, <2>3
  <2>4. CASE q > Len(r)
    <3>1. p < q /\ log[p][1] = log[q][1]
      BY <1>1, <2>1, <2>2, <2>4
    <3>2. log[p][2] < log[q][2]
      BY <1>2, <2>1, <2>2, <3>1 DEF InOrder
    <3>3. log[q][2] = k /\ log[p][2] = r[p][2]
      BY <2>1, <2>2
    <3>4. r[p][2] \in Nat
      BY <1>1, <2>1, CopyFacts, NatAssumption
    <3>5. QED
      BY <3>2, <3>3, <3>4
  <2>5. QED
    BY <2>3, <2>4, <1>1
<1>5. QED
  BY <1>3, <1>4 DEF Gapless

\* A channel closes with what it buffers.
LEMMA ChannelClosesPreserves ==
    ASSUME IInv, NEW h \in Chans, NEW rejects \in BOOLEAN, ChannelCloses(h, rejects)
    PROVE  IInv'
<1>1. /\ call \in [Calls -> Frame] /\ status \in [Chans -> Status] /\ HighWater \in Nat \ {0}
      /\ buffer \in [Chans -> Seq(Copies)] /\ received \in [Chans -> Seq(Copies)]
      /\ watched \subseteq Chans /\ channel \in Chans \cup {None}
      /\ status[h] \in {"open", "closing"}
      /\ status' = [status EXCEPT ![h] = "closed"]
      /\ buffer' = [buffer EXCEPT ![h] = <<>>]
      /\ channel' = IF channel = h /\ h \in watched THEN None ELSE channel
      /\ call' = [c \in Calls |->
                    IF c \in Waiting(h) \/ (rejects /\ At(c, "confirming") /\ call[c].chan = h)
                    THEN [call[c] EXCEPT !.at = "rejected"] ELSE call[c]]
      /\ UNCHANGED <<watched, received, answer>>
  BY NatAssumption DEF IInv, TypeOK, ChannelCloses, Evict, Fails
<1>2. /\ status'[h] = "closed" /\ buffer'[h] = <<>>
      /\ \A g \in Chans : g # h => status'[g] = status[g] /\ buffer'[g] = buffer[g]
  BY <1>1
<1>3. ASSUME NEW d \in Calls
      PROVE  /\ call[d] \in Frame /\ call'[d] \in Frame
             /\ call'[d].i = call[d].i /\ call'[d].todo = call[d].todo
             /\ call'[d].chan = call[d].chan /\ call'[d].drained = call[d].drained
             /\ \/ call'[d] = call[d] /\ ~(call[d].at = "draining" /\ call[d].chan = h)
                \/ call'[d].at = "rejected" /\ call[d].chan = h
  <2>1. call[d] \in Frame
    BY <1>1
  <2>2. QED
    BY <1>1, <2>1 DEF Waiting, At, Frame, Points
<1>4. TypeOK'
  <2>1. call' \in [Calls -> Frame]
    BY <1>1, <1>3
  <2>2. status' \in [Chans -> Status] /\ buffer' \in [Chans -> Seq(Copies)]
    BY <1>1 DEF Status
  <2>3. QED
    BY <2>1, <2>2, <1>1 DEF IInv, TypeOK
<1>5. CallsAreSound'
  <2>1. ASSUME NEW d \in Calls
        PROVE  /\ call'[d].i <= call'[d].todo
               /\ call'[d].chan = None => call'[d].i = 0
               /\ call'[d].chan # None => status'[call'[d].chan] # "unused"
               /\ call'[d].at \in {"idle", "piping", "asking"} => call'[d].chan = None /\ ~call'[d].drained
               /\ call'[d].at \in {"sending", "draining", "confirming", "fulfilled"} => call'[d].chan # None
               /\ call'[d].at = "draining" =>
                     call'[d].drained /\ status'[call'[d].chan] \in {"open", "closing"}
               /\ call'[d].at = "sending" /\ ~call'[d].drained => call'[d].i = 0
               /\ call'[d].at \in {"confirming", "fulfilled"} => call'[d].i = call'[d].todo
    <3>1. /\ call[d].i <= call[d].todo
          /\ call[d].chan = None => call[d].i = 0
          /\ call[d].chan # None => call[d].chan \in Chans /\ status[call[d].chan] # "unused"
          /\ call[d].at \in {"idle", "piping", "asking"} => call[d].chan = None /\ ~call[d].drained
          /\ call[d].at \in {"sending", "draining", "confirming", "fulfilled"} => call[d].chan # None
          /\ call[d].at = "draining" =>
                call[d].drained /\ status[call[d].chan] \in {"open", "closing"}
          /\ call[d].at = "sending" /\ ~call[d].drained => call[d].i = 0
          /\ call[d].at \in {"confirming", "fulfilled"} => call[d].i = call[d].todo
      BY <1>3 DEF IInv, CallsAreSound, At, Frame
    <3>2. call[d].chan # None => status'[call[d].chan] # "unused"
      BY <3>1, <1>2
    <3>3. CASE call'[d] = call[d] /\ ~(call[d].at = "draining" /\ call[d].chan = h)
      BY <3>1, <3>2, <3>3, <1>2
    <3>4. CASE call'[d].at = "rejected" /\ call[d].chan = h
      BY <3>1, <3>2, <3>4, <1>3
    <3>5. QED
      BY <3>3, <3>4, <1>3
  <2>2. QED
    BY <2>1 DEF CallsAreSound, At
<1>6. ConfirmsAreSeen'
  BY <1>1, <1>3 DEF IInv, ConfirmsAreSeen, At
<1>7. UnwrittenIsUnanswered'
  BY <1>1, <1>3, CopyFacts DEF IInv, UnwrittenIsUnanswered
<1>8. ClosedIsEmpty'
  <2>1. ASSUME NEW g \in Chans
        PROVE  /\ status'[g] = "unused" => /\ g \notin watched /\ g # channel'
                                           /\ buffer'[g] = <<>> /\ received[g] = <<>>
               /\ status'[g] = "closed" => buffer'[g] = <<>>
    BY <1>1, <1>2, NoneAssumption DEF IInv, ClosedIsEmpty
  <2>2. QED
    BY <2>1, <1>1 DEF ClosedIsEmpty
<1>9. CacheIsLive'
  BY <1>1, <1>2, NoneAssumption DEF IInv, CacheIsLive
<1>10. FulfilledIsDone' /\ NackMissedOnlyInDrain'
  BY <1>1, <1>3 DEF IInv, FulfilledIsDone, NackMissedOnlyInDrain, At
<1>11. BufferBounded'
  <2>1. ASSUME NEW g \in Chans
        PROVE  Len(buffer'[g]) < HighWater + Cardinality(Waiting(g)')
    <3>1. CASE g = h
      <4>1. Cardinality(Waiting(g)') \in Nat
        <5>1. Waiting(g)' \subseteq Calls
          BY DEF Waiting
        <5>2. QED
          BY <5>1, FiniteCalls
      <4>2. Len(buffer'[g]) = 0
        BY <3>1, <1>2
      <4>3. QED
        BY <4>1, <4>2, <1>1
    <3>2. CASE g # h
      <4>1. Waiting(g)' = Waiting(g) /\ buffer'[g] = buffer[g]
        BY <3>2, <1>2, <1>3 DEF Waiting, At
      <4>2. QED
        BY <4>1 DEF IInv, BufferBounded
    <3>3. QED
      BY <3>1, <3>2
  <2>2. QED
    BY <2>1 DEF BufferBounded
<1>12. /\ Log(h)' = received[h] /\ received[h] \in Seq(Copies) /\ buffer[h] \in Seq(Copies)
       /\ Log(h) = received[h] \o buffer[h]
       /\ \A g \in Chans : g # h => Log(g)' = Log(g)
  BY <1>1, <1>2, ConcatEmptySeq DEF Log
<1>13. LogsAreWritten'
  <2>1. ASSUME NEW g \in Chans, NEW p \in 1..Len(Log(g)')
        PROVE  call'[Log(g)'[p][1]].chan = g /\ Log(g)'[p][2] <= call'[Log(g)'[p][1]].i
    <3>1. p \in 1..Len(Log(g)) /\ Log(g)'[p] = Log(g)[p]
      <4>1. CASE g = h
        <5>1. p \in 1..Len(received[h])
          BY <4>1, <1>12
        <5>2. p \in 1..Len(received[h] \o buffer[h]) /\ (received[h] \o buffer[h])[p] = received[h][p]
          BY <5>1, <1>12, LogFacts
        <5>3. QED
          BY <4>1, <5>2, <1>12
      <4>2. CASE g # h
        BY <4>2, <1>12
      <4>3. QED
        BY <4>1, <4>2
    <3>2. Log(g)[p] \in Copies
      BY <3>1, LogFacts DEF IInv, TypeOK, Log
    <3>3. call[Log(g)[p][1]].chan = g /\ Log(g)[p][2] <= call[Log(g)[p][1]].i
      BY <3>1 DEF IInv, LogsAreWritten
    <3>4. QED
      BY <3>1, <3>2, <3>3, <1>3, CopyFacts
  <2>2. QED
    BY <2>1 DEF LogsAreWritten
<1>14. Ordered'
  <2>1. ASSUME NEW g \in Chans
        PROVE  InOrder(Log(g))' /\ Gapless(Log(g))'
    <3>1. InOrder(Log(g)) /\ Gapless(Log(g))
      BY DEF IInv, Ordered
    <3>2. CASE g # h
      <4>1. Log(g)' = Log(g)
        BY <3>2, <1>12
      <4>2. InOrder(Log(g))'
        BY <3>1, <4>1 DEF InOrder
      <4>3. Gapless(Log(g))'
        BY <3>1, <4>1 DEF Gapless
      <4>4. QED
        BY <4>2, <4>3
    <3>3. CASE g = h
      <4>1. InOrder(received[h]) /\ Gapless(received[h])
        BY <3>1, <3>3, <1>12, PrefixKeepsOrder
      <4>2. Log(g)' = received[h]
        BY <3>3, <1>12
      <4>3. InOrder(Log(g))'
        BY <4>1, <4>2 DEF InOrder
      <4>4. Gapless(Log(g))'
        BY <4>1, <4>2 DEF Gapless
      <4>5. QED
        BY <4>3, <4>4
    <3>4. QED
      BY <3>2, <3>3
  <2>2. QED
    BY <2>1 DEF Ordered
<1>15. Complete'
  <2>1. ASSUME NEW g \in Chans, status'[g] \in {"open", "closing"},
               NEW d \in Calls, call'[d].chan = g, NEW k \in 1..call'[d].i
        PROVE  \E q \in 1..Len(Log(g)') : Log(g)'[q] = <<d, k>>
    <3>1. g # h /\ status[g] \in {"open", "closing"} /\ call[d].chan = g /\ k \in 1..call[d].i
      BY <2>1, <1>2, <1>3
    <3>2. \E q \in 1..Len(Log(g)) : Log(g)[q] = <<d, k>>
      BY <3>1 DEF IInv, Complete
    <3>3. QED
      BY <3>1, <3>2, <1>12
  <2>2. QED
    BY <2>1 DEF Complete
<1>16. QED
  BY <1>4, <1>5, <1>6, <1>7, <1>8, <1>9, <1>10, <1>11, <1>13, <1>14, <1>15 DEF IInv

-----------------------------------------------------------------------------
\* The inductive invariant holds at the start ...
LEMMA InitEstablishes == Init => IInv
<1> SUFFICES ASSUME Init PROVE IInv
  OBVIOUS
<1>1. \A c \in Calls : call[c] = Idle /\ Idle \in Frame
  BY NatAssumption DEF Init, Idle, Frame, Points
<1>2. TypeOK
  BY <1>1 DEF Init, TypeOK, Status
<1>3. CallsAreSound /\ ConfirmsAreSeen /\ FulfilledIsDone /\ NackMissedOnlyInDrain
  BY <1>1 DEF CallsAreSound, ConfirmsAreSeen, FulfilledIsDone, NackMissedOnlyInDrain, At, Idle
<1>4. UnwrittenIsUnanswered /\ ClosedIsEmpty /\ CacheIsLive
  BY NoneAssumption DEF Init, UnwrittenIsUnanswered, ClosedIsEmpty, CacheIsLive
<1>5. BufferBounded
  <2>1. ASSUME NEW h \in Chans
        PROVE  Len(buffer[h]) < HighWater + Cardinality(Waiting(h))
    <3>1. Waiting(h) \subseteq Calls /\ Len(buffer[h]) = 0
      BY DEF Init, Waiting
    <3>2. Cardinality(Waiting(h)) \in Nat
      BY <3>1, FiniteCalls
    <3>3. QED
      BY <3>1, <3>2, NatAssumption
  <2>2. QED
    BY <2>1 DEF BufferBounded
<1>6. \A h \in Chans : Len(Log(h)) = 0
  BY DEF Init, Log
<1>7. Ordered
  <2>1. ASSUME NEW h \in Chans
        PROVE  InOrder(Log(h)) /\ Gapless(Log(h))
    BY <1>6 DEF InOrder, Gapless
  <2>2. QED
    BY <2>1 DEF Ordered
<1>8. LogsAreWritten /\ Complete
  BY <1>6, <1>2 DEF Init, LogsAreWritten, Complete
<1>9. QED
  BY <1>2, <1>3, <1>4, <1>5, <1>7, <1>8 DEF IInv

\* ... and every step of a call, a channel or the server keeps it.
LEMMA NextPreserves == IInv /\ [Next]_vars => IInv'
<1> SUFFICES ASSUME IInv, [Next]_vars PROVE IInv'
  OBVIOUS
<1>1. ASSUME NEW c \in Calls, CallStep(c)
      PROVE  IInv'
  BY <1>1, CallStepPreserves
<1>2. ASSUME NEW h \in Chans, Flush(h)
      PROVE  IInv'
  BY <1>2, FlushPreserves
<1>3. ASSUME NEW h \in Chans, Confirms(h)
      PROVE  IInv'
  <2>1. PICK p \in 1..Len(received[h]), multiple \in BOOLEAN, verdict \in {"ack", "nack"} :
            Confirm(h, p, multiple, verdict)
    BY <1>3 DEF Confirms
  <2>2. QED
    BY <2>1, ConfirmPreserves
<1>4. ASSUME NEW h \in Chans, ChannelClosing(h)
      PROVE  IInv'
  BY <1>4, ChannelClosingPreserves
<1>5. ASSUME NEW h \in Chans, Closes(h)
      PROVE  IInv'
  <2>1. PICK rejects \in BOOLEAN : ChannelCloses(h, rejects)
    BY <1>5 DEF Closes
  <2>2. QED
    BY <2>1, ChannelClosesPreserves
<1>6. CASE UNCHANGED vars
  <2>1. /\ TypeOK' /\ CallsAreSound' /\ ConfirmsAreSeen' /\ UnwrittenIsUnanswered' /\ ClosedIsEmpty'
        /\ CacheIsLive' /\ FulfilledIsDone' /\ NackMissedOnlyInDrain' /\ BufferBounded'
    BY <1>6 DEF vars, IInv, TypeOK, CallsAreSound, ConfirmsAreSeen, UnwrittenIsUnanswered, ClosedIsEmpty,
                CacheIsLive, FulfilledIsDone, NackMissedOnlyInDrain, BufferBounded, Waiting, At
  <2>2. LogsAreWritten' /\ Ordered' /\ Complete'
    <3>1. \A h \in Chans : Log(h)' = Log(h)
      BY <1>6 DEF vars, Log
    <3>2. QED
      BY <1>6, <3>1, LogsKept DEF vars
  <2>3. QED
    BY <2>1, <2>2 DEF IInv
<1>7. QED
  BY <1>1, <1>2, <1>3, <1>4, <1>5, <1>6 DEF Next

\* publish() keeps the inductive invariant, whatever calls and closes overlap.
THEOREM Invariance == Spec => []IInv
<1>1. QED
  BY InitEstablishes, NextPreserves, PTL DEF Spec

\* Every state of publish() is one that its types describe.
THEOREM TypeCorrect == Spec => []TypeOK
<1>1. IInv => TypeOK
  BY DEF IInv
<1>2. QED
  BY <1>1, Invariance, PTL

\* For any number of overlapping calls and any high-water mark, a channel carries
\* the copies of a call in order, each once and with none left out.
THEOREM SendingKeepsOrder == Spec => []SentInOrder
<1>1. IInv => SentInOrder
  BY DEF IInv, Ordered, Complete, SentInOrder
<1>2. QED
  BY <1>1, Invariance, PTL

\* What a channel's buffer holds above the mark is at most one message for every
\* call that waits for 'drain'.
THEOREM BackPressure == Spec => []BufferBounded
<1>1. IInv => BufferBounded
  BY DEF IInv
<1>2. QED
  BY <1>1, Invariance, PTL

\* The cleanup task never leaves a channel cached that the publisher heard close.
THEOREM CacheCorrect == Spec => []CacheIsLive
<1>1. IInv => CacheIsLive
  BY DEF IInv
<1>2. QED
  BY <1>1, Invariance, PTL

\* A call fulfils only when all its copies are written and, where it waits for
\* confirms, answered.
THEOREM FulfilmentIsEarned == Spec => []FulfilledIsDone
<1>1. IInv => FulfilledIsDone
  BY DEF IInv
<1>2. QED
  BY <1>1, Invariance, PTL

\* A call that fulfils misses a refusal only if it waited for 'drain'.
THEOREM RefusalsAreSeen == Spec => []NackMissedOnlyInDrain
<1>1. IInv => NackMissedOnlyInDrain
  BY DEF IInv
<1>2. QED
  BY <1>1, Invariance, PTL

-----------------------------------------------------------------------------
(***************************************************************************)
(* Nobody waits in vain.  That needs no more than what each wait is for.   *)
(***************************************************************************)
DrainsAreDue == \A c \in Calls : At(c, "draining") => buffer[call[c].chan] # <<>>

AwaitsTheWritten ==
    \A c \in Calls : At(c, "confirming") =>
        /\ call[c].awaiting # {}
        /\ \A m \in call[c].awaiting :
              answer[m] = "none" /\ call[m[1]].chan = call[c].chan /\ m[2] <= call[m[1]].i

WInv == DrainsAreDue /\ AwaitsTheWritten

\* What a call awaits are copies.
LEMMA AwaitedFacts ==
    ASSUME IInv, NEW c \in Calls, NEW m \in call[c].awaiting
    PROVE  m \in Copies /\ m[1] \in Calls /\ m[2] \in Nat /\ call[m[1]].i \in Nat
<1>1. call[c] \in Frame
  BY DEF IInv, TypeOK
<1>2. m \in Copies
  BY <1>1 DEF Frame
<1>3. m[1] \in Calls /\ m[2] \in 1..MaxDestinations
  BY <1>2, CopyFacts
<1>4. call[m[1]].i \in 0..MaxDestinations
  BY <1>3 DEF IInv, TypeOK, Frame
<1>5. QED
  BY <1>2, <1>3, <1>4, NatAssumption

\* A step of a call that writes nothing and waits for no answer of the server.
LEMMA MovingOnWaits ==
    ASSUME IInv, WInv, NEW c \in Calls, call[c].at \in {"idle", "piping", "asking", "sending"},
           call'[c].at \in {"piping", "asking", "sending", "rejected"},
           call[c].chan # None => call'[c].chan = call[c].chan, call'[c].i = call[c].i,
           \A d \in Calls \ {c} : call'[d] = call[d], UNCHANGED <<buffer, answer>>
    PROVE  WInv'
<1>1. ASSUME NEW d \in Calls, At(d, "draining")'
      PROVE  buffer'[call'[d].chan] # <<>>
  BY <1>1 DEF WInv, DrainsAreDue, At
<1>2. ASSUME NEW d \in Calls, At(d, "confirming")'
      PROVE  /\ call'[d].awaiting # {}
             /\ \A m \in call'[d].awaiting :
                   answer'[m] = "none" /\ call'[m[1]].chan = call'[d].chan /\ m[2] <= call'[m[1]].i
  <2>1. d # c /\ call'[d] = call[d] /\ At(d, "confirming")
    BY <1>2 DEF At
  <2>2. call[d].chan # None
    BY <2>1 DEF IInv, CallsAreSound, At
  <2>3. ASSUME NEW m \in call[d].awaiting
        PROVE  answer'[m] = "none" /\ call'[m[1]].chan = call[d].chan /\ m[2] <= call'[m[1]].i
    <3>1. answer[m] = "none" /\ call[m[1]].chan = call[d].chan /\ m[2] <= call[m[1]].i
      BY <2>1 DEF WInv, AwaitsTheWritten
    <3>2. m[1] \in Calls
      BY AwaitedFacts
    <3>3. call'[m[1]].chan = call[m[1]].chan /\ call'[m[1]].i = call[m[1]].i
      BY <2>2, <3>1, <3>2
    <3>4. QED
      BY <3>1, <3>3
  <2>4. QED
    BY <2>1, <2>3 DEF WInv, AwaitsTheWritten
<1>3. QED
  BY <1>1, <1>2 DEF WInv, DrainsAreDue, AwaitsTheWritten

\* The fields of a call that stops to wait for drain.
LEMMA DrainFields ==
    ASSUME NEW r \in Frame, NEW n, NEW q, q = [r EXCEPT !.i = @ + n, !.at = "draining", !.drained = TRUE]
    PROVE  q.chan = r.chan /\ q.i = r.i + n /\ q.at = "draining"
  BY DEF Frame

\* Appending to a sequence.
LEMMA AppendedLen ==
    ASSUME NEW S, NEW b \in Seq(S), NEW w \in Seq(S)
    PROVE  Len(b \o w) = Len(b) + Len(w) /\ b \o w \in Seq(S) /\ Len(b) \in Nat /\ (b # <<>> => Len(b) > 0)
  OBVIOUS

\* A call that writes: what it then waits for has just been written, by it or before.
LEMMA WritingWaits ==
    ASSUME IInv, WInv, NEW c \in Calls, At(c, "sending"),
           buffer' = [buffer EXCEPT ![call[c].chan] = @ \o Written(c, Burst(c))],
           call' = [call EXCEPT ![c] = IF Full(c, Burst(c)) THEN WaitForDrain(c, Burst(c))
                                       ELSE AfterLoop(c, Burst(c))],
           UNCHANGED answer
    PROVE  WInv'
<1>0. PICK h \in Chans : call[c].chan = h /\ h # None
  BY NoneAssumption DEF IInv, TypeOK, CallsAreSound, Frame, At
<1> DEFINE i == call[c].i
           n == Burst(c)
           W == Written(c, n)
           seen == Unconfirmed(h) \cup {W[k] : k \in 1..n}
<1>1. /\ MaxDestinations \in Nat /\ i \in Nat /\ i <= call[c].todo /\ call[c] \in Frame
      /\ call[c].todo \in 0..MaxDestinations /\ (~call[c].drained => i = 0)
  BY <1>0, NatAssumption DEF IInv, TypeOK, CallsAreSound, Frame, At
<1>2. n \in Nat /\ i + n <= call[c].todo /\ (Full(c, n) => n > 0)
  BY <1>0, <1>1, BurstFacts
<1>3. /\ W \in Seq(Copies) /\ Len(W) = n
      /\ \A k \in 1..n : W[k] = <<c, i + k>> /\ i + k \in 1..MaxDestinations
  BY <1>1, <1>2, WrittenFacts
<1>4. /\ call \in [Calls -> Frame] /\ buffer \in [Chans -> Seq(Copies)]
      /\ \A d \in Calls \ {c} : call'[d] = call[d]
  BY DEF IInv, TypeOK
<1>5. /\ call'[c].chan = h /\ call'[c].i = i + n
      /\ call'[c].at = "draining" => n > 0
      /\ call'[c].at = "confirming" => call'[c].awaiting = seen /\ seen # {}
  <2>1. CASE Full(c, n)
    <3>1. call'[c] = WaitForDrain(c, n)
      BY <1>4, <2>1
    <3>2. "draining" \in Points /\ call[c] \in Frame /\ n \in Nat /\ n > 0
      BY <1>1, <1>2, <2>1 DEF Points
    <3> HIDE DEF n, seen
    <3>3. call'[c] = [call[c] EXCEPT !.i = @ + n, !.at = "draining", !.drained = TRUE]
      BY <3>1 DEF WaitForDrain
    <3>4. call'[c].chan = call[c].chan /\ call'[c].i = call[c].i + n /\ call'[c].at = "draining"
      <4>1. PICK r \in Frame : r = call[c]
        BY <3>2
      <4>2. PICK q : q = call'[c]
        OBVIOUS
      <4>3. q = [r EXCEPT !.i = @ + n, !.at = "draining", !.drained = TRUE]
        BY <3>3, <4>1, <4>2
      <4>4. q.chan = r.chan /\ q.i = r.i + n /\ q.at = "draining"
        BY <4>3, DrainFields
      <4>5. QED
        BY <4>1, <4>2, <4>4
    <3>5. QED
      BY <1>0, <3>2, <3>4
  <2>2. CASE ~Full(c, n)
    <3>1. call'[c] = AfterLoop(c, n)
      BY <1>4, <2>2
    <3> DEFINE waits == call[c].todo > 0 /\ PublisherConfirms /\ AutoConfirm /\ seen # {}
    <3>2. call'[c] = [call[c] EXCEPT !.i = @ + n,
                                     !.at = IF waits THEN "confirming" ELSE "fulfilled",
                                     !.awaiting = IF waits THEN seen ELSE {}]
      BY <1>0, <3>1 DEF AfterLoop
    <3>3. waits => seen # {}
      OBVIOUS
    <3> DEFINE p == IF waits THEN "confirming" ELSE "fulfilled"
               a == IF waits THEN seen ELSE {}
    <3>4. p \in Points /\ p # "draining" /\ (p = "confirming" => a = seen /\ seen # {})
      BY <3>3 DEF Points
    <3>5. call'[c] = [call[c] EXCEPT !.i = @ + n, !.at = p, !.awaiting = a]
      BY <3>2
    <3>6. call[c] \in Frame /\ n \in Nat
      BY <1>1, <1>2
    <3> HIDE DEF n, seen, p, a
    <3>7. /\ call'[c].chan = call[c].chan /\ call'[c].i = call[c].i + n
          /\ call'[c].at = p /\ call'[c].awaiting = a
      <4>1. PICK r \in Frame : r = call[c]
        BY <3>6
      <4>2. PICK q : q = call'[c]
        OBVIOUS
      <4>3. q = [r EXCEPT !.i = @ + n, !.at = p, !.awaiting = a]
        BY <3>5, <4>1, <4>2
      <4>4. q.chan = r.chan /\ q.i = r.i + n /\ q.at = p /\ q.awaiting = a
        BY <4>3 DEF Frame
      <4>5. QED
        BY <4>1, <4>2, <4>4
    <3>8. QED
      BY <1>0, <3>4, <3>7
  <2>3. QED
    BY <2>1, <2>2
<1>6. /\ \A g \in Chans : g # h => buffer'[g] = buffer[g]
      /\ buffer[h] # <<>> \/ n > 0 => buffer'[h] # <<>>
  <2>1. buffer'[h] = buffer[h] \o W /\ \A g \in Chans : g # h => buffer'[g] = buffer[g]
    BY <1>0, <1>4
  <2>2. /\ buffer[h] \in Seq(Copies) /\ buffer[h] \o W \in Seq(Copies)
        /\ Len(buffer[h] \o W) = Len(buffer[h]) + n
    <3>1. buffer[h] \in Seq(Copies) /\ W \in Seq(Copies) /\ Len(W) = n
      BY <1>3, <1>4
    <3> HIDE DEF n, W
    <3>2. QED
      BY <3>1, AppendedLen
  <2>3. Len(buffer[h]) \in Nat /\ (buffer[h] # <<>> => Len(buffer[h]) > 0)
    BY <2>2
  <2>4. buffer[h] # <<>> \/ n > 0 => Len(buffer[h] \o W) # 0
    BY <1>2, <2>2, <2>3
  <2>5. QED
    BY <2>1, <2>4
<1>7. ASSUME NEW m \in seen
      PROVE  answer[m] = "none" /\ call'[m[1]].chan = h /\ m[2] <= call'[m[1]].i
  <2>1. CASE m \in Unconfirmed(h)
    <3>1. m \in Copies /\ call[m[1]].chan = h /\ m[2] <= call[m[1]].i /\ answer[m] = "none"
      BY <2>1 DEF Unconfirmed
    <3>2. m[1] \in Calls /\ m[2] \in 1..MaxDestinations
      BY <3>1, CopyFacts
    <3>3. CASE m[1] = c
      BY <1>1, <1>2, <1>5, <3>1, <3>2, <3>3
    <3>4. CASE m[1] # c
      BY <1>4, <3>1, <3>2, <3>4
    <3>5. QED
      BY <3>3, <3>4
  <2>2. CASE m \notin Unconfirmed(h)
    <3>1. PICK k \in 1..n : m = <<c, i + k>> /\ i + k \in 1..MaxDestinations
      BY <1>3, <2>2
    <3>2. m \in Copies /\ m[1] = c /\ m[2] = i + k
      BY <3>1, CopyFacts
    <3>3. i + k > i /\ i + k <= i + n
      BY <1>1, <1>2
    <3>4. answer[m] = "none"
      BY <3>2, <3>3 DEF IInv, UnwrittenIsUnanswered
    <3>5. QED
      BY <1>5, <3>2, <3>3, <3>4
  <2>3. QED
    BY <2>1, <2>2
<1> HIDE DEF seen, n, W
<1>8. ASSUME NEW d \in Calls, At(d, "draining")'
      PROVE  buffer'[call'[d].chan] # <<>>
  <2>1. CASE d = c
    BY <1>5, <1>6, <1>8, <2>1 DEF At
  <2>2. CASE d # c
    <3>1. call'[d] = call[d] /\ At(d, "draining") /\ buffer[call[d].chan] # <<>>
      BY <1>4, <1>8, <2>2 DEF At, WInv, DrainsAreDue
    <3>2. call[d].chan \in Chans
      BY <3>1, <1>4 DEF IInv, CallsAreSound, Frame, At
    <3>3. QED
      BY <1>6, <3>1, <3>2
  <2>3. QED
    BY <2>1, <2>2
<1>9. ASSUME NEW d \in Calls, At(d, "confirming")'
      PROVE  /\ call'[d].awaiting # {}
             /\ \A m \in call'[d].awaiting :
                   answer'[m] = "none" /\ call'[m[1]].chan = call'[d].chan /\ m[2] <= call'[m[1]].i
  <2>1. CASE d = c
    BY <1>5, <1>7, <1>9, <2>1 DEF At
  <2>2. CASE d # c
    <3>1. call'[d] = call[d] /\ At(d, "confirming")
      BY <1>4, <1>9, <2>2 DEF At
    <3>2. ASSUME NEW m \in call[d].awaiting
          PROVE  answer'[m] = "none" /\ call'[m[1]].chan = call[d].chan /\ m[2] <= call'[m[1]].i
      <4>1. answer[m] = "none" /\ call[m[1]].chan = call[d].chan /\ m[2] <= call[m[1]].i
        BY <3>1 DEF WInv, AwaitsTheWritten
      <4>2. m[1] \in Calls /\ m[2] \in Nat /\ call[m[1]].i \in Nat
        BY AwaitedFacts
      <4>3. call'[m[1]].chan = call[m[1]].chan /\ call[m[1]].i <= call'[m[1]].i
        <5>1. CASE m[1] = c
          BY <1>0, <1>1, <1>2, <1>5, <5>1 DEF n
        <5>2. CASE m[1] # c
          BY <1>4, <4>2, <5>2
        <5>3. QED
          BY <5>1, <5>2
      <4>4. call'[m[1]].i \in Nat
        BY <1>1, <1>2, <1>4, <1>5, <4>2
      <4>5. QED
        BY <4>1, <4>2, <4>3, <4>4
    <3>3. QED
      BY <3>1, <3>2 DEF WInv, AwaitsTheWritten
  <2>3. QED
    BY <2>1, <2>2
<1>10. QED
  BY <1>8, <1>9 DEF WInv, DrainsAreDue, AwaitsTheWritten

LEMMA CallStepWaits ==
    ASSUME IInv, WInv, NEW c \in Calls, CallStep(c)
    PROVE  WInv'
<1>1. /\ call \in [Calls -> Frame] /\ call[c] \in Frame
      /\ call[c].at \in {"idle", "piping", "asking"} => call[c].chan = None
  BY DEF IInv, TypeOK, CallsAreSound
<1>2. CASE Send(c) /\ ~(call[c].i < call[c].todo /\ status[call[c].chan] # "open")
  BY <1>2, WritingWaits DEF Send
<1>3. CASE Send(c) /\ call[c].i < call[c].todo /\ status[call[c].chan] # "open"
  <2>1. /\ At(c, "sending") /\ call' = [call EXCEPT ![c].at = "rejected"] /\ UNCHANGED <<buffer, answer>>
    BY <1>3 DEF Send, GoTo
  <2>2. QED
    BY <1>1, <2>1, MovingOnWaits DEF At, Frame
<1>4. CASE Publish(c)
  <2>1. PICK k \in 0..MaxDestinations : call' = [call EXCEPT ![c].at = "piping", ![c].todo = k]
    BY <1>4 DEF Publish
  <2>2. QED
    BY <1>1, <1>4, <2>1, MovingOnWaits DEF Publish, At, Frame
<1>5. CASE PipelineThrows(c) \/ ProviderRejects(c)
  BY <1>1, <1>5, MovingOnWaits DEF PipelineThrows, ProviderRejects, GoTo, At, Frame
<1>6. CASE Channel(c)
  <2>1. CASE channel # None
    BY <1>1, <1>6, <2>1, MovingOnWaits DEF Channel, At, Frame
  <2>2. CASE channel = None
    BY <1>1, <1>6, <2>2, MovingOnWaits DEF Channel, At, Frame
  <2>3. QED
    BY <2>1, <2>2
<1>7. ASSUME NEW h \in Chans, ChannelResumes(c, h)
      PROVE  WInv'
  BY <1>1, <1>7, MovingOnWaits DEF ChannelResumes, At, Frame
<1>8. QED
  BY <1>2, <1>3, <1>4, <1>5, <1>6, <1>7 DEF CallStep

\* Where only some calls stop to wait and no answer is given.
LEMMA StoppingWaits ==
    ASSUME IInv, WInv, UNCHANGED answer,
           \A d \in Calls : /\ call'[d].chan = call[d].chan /\ call'[d].i = call[d].i
                            /\ \/ call'[d] = call[d] \/ call'[d].at \in {"sending", "rejected"},
           \A d \in Calls : At(d, "draining")' => buffer'[call[d].chan] # <<>>
    PROVE  WInv'
<1>1. DrainsAreDue'
  BY DEF DrainsAreDue, At
<1>2. ASSUME NEW d \in Calls, At(d, "confirming")'
      PROVE  /\ call'[d].awaiting # {}
             /\ \A m \in call'[d].awaiting :
                   answer'[m] = "none" /\ call'[m[1]].chan = call'[d].chan /\ m[2] <= call'[m[1]].i
  <2>1. call'[d] = call[d] /\ At(d, "confirming")
    BY <1>2 DEF At
  <2>2. \A m \in call[d].awaiting : m[1] \in Calls
    BY AwaitedFacts
  <2>3. QED
    BY <2>1, <2>2 DEF WInv, AwaitsTheWritten
<1>3. QED
  BY <1>1, <1>2 DEF WInv, AwaitsTheWritten

\* The last message of a buffer releases those that wait for it.
LEMMA FlushWaits ==
    ASSUME IInv, WInv, NEW h \in Chans, Flush(h)
    PROVE  WInv'
<1>1. /\ call \in [Calls -> Frame] /\ buffer \in [Chans -> Seq(Copies)]
      /\ buffer' = [buffer EXCEPT ![h] = Tail(buffer[h])]
      /\ call' = [c \in Calls |-> IF Tail(buffer[h]) = <<>> /\ c \in Waiting(h)
                                   THEN [call[c] EXCEPT !.at = "sending"] ELSE call[c]]
      /\ UNCHANGED answer
  BY DEF IInv, TypeOK, Flush
<1>2. ASSUME NEW d \in Calls
      PROVE  /\ call'[d].chan = call[d].chan /\ call'[d].i = call[d].i
             /\ call'[d] = call[d] \/ call'[d].at \in {"sending", "rejected"}
             /\ Tail(buffer[h]) = <<>> /\ At(d, "draining") /\ call[d].chan = h => call'[d].at = "sending"
  <2>1. call[d] \in Frame
    BY <1>1
  <2>2. QED
    BY <1>1, <2>1 DEF Waiting, At, Frame
<1>3. ASSUME NEW d \in Calls, At(d, "draining")'
      PROVE  buffer'[call[d].chan] # <<>>
  <2>1. call'[d] = call[d] /\ At(d, "draining")
    BY <1>2, <1>3 DEF At
  <2>2. call[d].chan \in Chans /\ buffer[call[d].chan] # <<>>
    BY <2>1, <1>1 DEF IInv, CallsAreSound, WInv, DrainsAreDue, Frame, At
  <2>3. CASE call[d].chan = h
    BY <1>1, <1>2, <1>3, <2>1, <2>3 DEF At
  <2>4. CASE call[d].chan # h
    BY <1>1, <2>2, <2>4
  <2>5. QED
    BY <2>3, <2>4
<1>4. QED
  BY <1>1, <1>2, <1>3, StoppingWaits

LEMMA ChannelClosesWaits ==
    ASSUME IInv, WInv, NEW h \in Chans, NEW rejects \in BOOLEAN, ChannelCloses(h, rejects)
    PROVE  WInv'
<1>1. /\ call \in [Calls -> Frame] /\ buffer \in [Chans -> Seq(Copies)]
      /\ buffer' = [buffer EXCEPT ![h] = <<>>]
      /\ call' = [c \in Calls |->
                    IF c \in Waiting(h) \/ (rejects /\ At(c, "confirming") /\ call[c].chan = h)
                    THEN [call[c] EXCEPT !.at = "rejected"] ELSE call[c]]
      /\ UNCHANGED answer
  BY DEF IInv, TypeOK, ChannelCloses, Fails
<1>2. ASSUME NEW d \in Calls
      PROVE  /\ call'[d].chan = call[d].chan /\ call'[d].i = call[d].i
             /\ call'[d] = call[d] \/ call'[d].at \in {"sending", "rejected"}
             /\ At(d, "draining") /\ call[d].chan = h => call'[d].at = "rejected"
  <2>1. call[d] \in Frame
    BY <1>1
  <2>2. QED
    BY <1>1, <2>1 DEF Waiting, At, Frame
<1>3. ASSUME NEW d \in Calls, At(d, "draining")'
      PROVE  buffer'[call[d].chan] # <<>>
  <2>1. call'[d] = call[d] /\ At(d, "draining")
    BY <1>2, <1>3 DEF At
  <2>2. call[d].chan \in Chans /\ buffer[call[d].chan] # <<>> /\ call[d].chan # h
    BY <2>1, <1>1, <1>2, <1>3 DEF IInv, CallsAreSound, WInv, DrainsAreDue, Frame, At
  <2>3. QED
    BY <1>1, <2>2
<1>4. QED
  BY <1>1, <1>2, <1>3, StoppingWaits

\* An answer takes from every call that waits what it answers.
LEMMA ConfirmWaits ==
    ASSUME IInv, WInv, NEW h \in Chans, NEW p \in 1..Len(received[h]), NEW multiple \in BOOLEAN,
           NEW verdict \in {"ack", "nack"}, Confirm(h, p, multiple, verdict)
    PROVE  WInv'
<1> DEFINE M == {m \in {received[h][q] : q \in IF multiple THEN 1..p ELSE {p}} : answer[m] = "none"}
<1>1. /\ call \in [Calls -> Frame]
      /\ answer' = [m \in Copies |-> IF m \in M THEN verdict ELSE answer[m]]
      /\ call' = [c \in Calls |-> Told(c, M, verdict)]
      /\ UNCHANGED buffer
  BY DEF IInv, TypeOK, Confirm
<1> HIDE DEF M
<1>2. ASSUME NEW d \in Calls
      PROVE  /\ call'[d].i = call[d].i /\ call'[d].chan = call[d].chan
             /\ call'[d].at # "confirming" =>
                   call'[d] = call[d] \/ call'[d].at \in {"rejected", "fulfilled"}
             /\ call'[d].at = "confirming" =>
                   At(d, "confirming") /\ call'[d].awaiting = call[d].awaiting \ M
                   /\ ~(call[d].awaiting \subseteq M)
  <2>1. call'[d] = Told(d, M, verdict) /\ call[d] \in Frame
    BY <1>1
  <2>2. CASE ~At(d, "confirming")
    BY <2>1, <2>2 DEF Told, At
  <2>3. CASE At(d, "confirming") /\ call[d].awaiting \cap M = {}
    <3>1. call'[d] = call[d] /\ call[d].awaiting # {}
      BY <2>1, <2>3 DEF Told, WInv, AwaitsTheWritten
    <3>2. QED
      BY <2>3, <3>1
  <2>4. CASE At(d, "confirming") /\ call[d].awaiting \cap M # {} /\ verdict = "nack"
    BY <2>1, <2>4 DEF Told, Frame
  <2>5. CASE At(d, "confirming") /\ call[d].awaiting \cap M # {} /\ verdict # "nack"
    BY <2>1, <2>5 DEF Told, Frame, At
  <2>6. QED
    BY <2>2, <2>3, <2>4, <2>5
<1>3. DrainsAreDue'
  <2>1. ASSUME NEW d \in Calls, At(d, "draining")'
        PROVE  buffer'[call'[d].chan] # <<>>
    BY <1>1, <1>2, <2>1 DEF WInv, DrainsAreDue, At
  <2>2. QED
    BY <2>1 DEF DrainsAreDue
<1>4. ASSUME NEW d \in Calls, At(d, "confirming")'
      PROVE  /\ call'[d].awaiting # {}
             /\ \A m \in call'[d].awaiting :
                   answer'[m] = "none" /\ call'[m[1]].chan = call'[d].chan /\ m[2] <= call'[m[1]].i
  <2>1. /\ At(d, "confirming") /\ call'[d].awaiting = call[d].awaiting \ M
        /\ ~(call[d].awaiting \subseteq M)
    BY <1>2, <1>4 DEF At
  <2>2. ASSUME NEW m \in call[d].awaiting, m \notin M
        PROVE  answer'[m] = "none" /\ call'[m[1]].chan = call'[d].chan /\ m[2] <= call'[m[1]].i
    <3>1. answer[m] = "none" /\ call[m[1]].chan = call[d].chan /\ m[2] <= call[m[1]].i
      BY <2>1 DEF WInv, AwaitsTheWritten
    <3>2. m \in Copies /\ m[1] \in Calls
      BY AwaitedFacts
    <3>3. QED
      BY <1>1, <1>2, <2>2, <3>1, <3>2
  <2>3. QED
    BY <2>1, <2>2
<1>5. QED
  BY <1>3, <1>4 DEF WInv, AwaitsTheWritten

LEMMA NextWaits == IInv /\ WInv /\ [Next]_vars => WInv'
<1> SUFFICES ASSUME IInv, WInv, [Next]_vars
             PROVE  WInv'
  OBVIOUS
<1>1. ASSUME NEW c \in Calls, CallStep(c)
      PROVE  WInv'
  BY <1>1, CallStepWaits
<1>2. ASSUME NEW h \in Chans, Flush(h)
      PROVE  WInv'
  BY <1>2, FlushWaits
<1>3. ASSUME NEW h \in Chans, Confirms(h)
      PROVE  WInv'
  BY <1>3, ConfirmWaits DEF Confirms
<1>4. ASSUME NEW h \in Chans, ChannelClosing(h)
      PROVE  WInv'
  BY <1>4 DEF ChannelClosing, WInv, DrainsAreDue, AwaitsTheWritten, At
<1>5. ASSUME NEW h \in Chans, Closes(h)
      PROVE  WInv'
  BY <1>5, ChannelClosesWaits DEF Closes
<1>6. CASE UNCHANGED vars
  BY <1>6 DEF vars, WInv, DrainsAreDue, AwaitsTheWritten, At
<1>7. QED
  BY <1>1, <1>2, <1>3, <1>4, <1>5, <1>6 DEF Next

\* No lost wake-up: whoever waits for 'drain' or for confirms waits for what its
\* channel still has to send or the server to answer, or for a channel that has closed.
THEOREM WaitsAreServed == Spec => []NobodyWaitsInVain
<1>1. Init => WInv
  BY DEF Init, Idle, WInv, DrainsAreDue, AwaitsTheWritten, At
<1>2. ASSUME IInv, WInv, NEW c \in Calls
      PROVE  /\ At(c, "draining") => /\ status[call[c].chan] \in {"open", "closing"}
                                     /\ buffer[call[c].chan] # <<>>
             /\ At(c, "confirming") /\ status[call[c].chan] # "closed" =>
                   /\ call[c].awaiting # {}
                   /\ \A m \in call[c].awaiting :
                         /\ answer[m] = "none"
                         /\ \E q \in 1..Len(Log(call[c].chan)) : Log(call[c].chan)[q] = m
  <2>1. At(c, "draining") => /\ status[call[c].chan] \in {"open", "closing"}
                             /\ buffer[call[c].chan] # <<>>
    BY <1>2 DEF IInv, CallsAreSound, WInv, DrainsAreDue
  <2>2. ASSUME At(c, "confirming"), status[call[c].chan] # "closed", NEW m \in call[c].awaiting
        PROVE  answer[m] = "none" /\ \E q \in 1..Len(Log(call[c].chan)) : Log(call[c].chan)[q] = m
    <3>1. answer[m] = "none" /\ call[m[1]].chan = call[c].chan /\ m[2] <= call[m[1]].i
      BY <1>2, <2>2 DEF WInv, AwaitsTheWritten
    <3>2. PICK h \in Chans : h = call[c].chan
      BY <1>2, <2>2 DEF IInv, TypeOK, CallsAreSound, Frame, At
    <3>3. status[h] \in {"open", "closing"}
      BY <1>2, <2>2, <3>2, NoneAssumption DEF IInv, TypeOK, CallsAreSound, Status
    <3>4. m \in Copies /\ m[1] \in Calls /\ m = <<m[1], m[2]>> /\ m[2] \in 1..MaxDestinations
      BY <1>2, AwaitedFacts, CopyFacts
    <3>5. call[m[1]].i \in Nat
      BY <1>2, AwaitedFacts
    <3>6. m[2] \in 1..call[m[1]].i
      BY <3>1, <3>4, <3>5, NatAssumption
    <3>7. \E q \in 1..Len(Log(h)) : Log(h)[q] = <<m[1], m[2]>>
      BY <1>2, <3>1, <3>2, <3>3, <3>4, <3>6 DEF IInv, Complete
    <3>8. QED
      BY <3>1, <3>2, <3>4, <3>7
  <2>3. At(c, "confirming") => call[c].awaiting # {}
    BY <1>2 DEF WInv, AwaitsTheWritten
  <2>4. QED
    BY <2>1, <2>2, <2>3
<1>3. IInv /\ WInv => NobodyWaitsInVain
  BY <1>2 DEF NobodyWaitsInVain
<1>4. QED
  BY Invariance, NextWaits, <1>1, <1>3, PTL DEF Spec
=============================================================================
