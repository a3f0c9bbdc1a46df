------------------------------ MODULE FoldProofs ------------------------------
(***************************************************************************)
(* Induction over the natural numbers, from the least element of a set of  *)
(* them, and what it shows of the folds of the community modules.  A fold  *)
(* over a function f stands for any other that computes the same steps.    *)
(***************************************************************************)
EXTENDS Integers, Sequences, SequencesExt, SequenceTheorems, WellFoundedInduction, TLAPS

LEMMA LeastElement ==
    ASSUME NEW T \in SUBSET Nat, T # {}
    PROVE  \E x \in T : \A y \in T : x <= y
<1>1. PICK R : R = OpToRel(<, Nat)
  OBVIOUS
<1>2. IsWellFoundedOn(R, Nat)
  BY <1>1, NatLessThanWellFounded
<1>3. PICK x \in T : \A y \in T : ~ (<<y, x>> \in R)
  BY <1>2, WFMin
<1>4. \A y, z \in Nat : <<y, z>> \in R <=> y < z
  BY <1>1 DEF OpToRel
<1>5. ASSUME NEW y \in T
      PROVE  x <= y
  <2>1. x \in Nat /\ y \in Nat /\ ~ (<<y, x>> \in R)
    BY <1>3
  <2>2. ~ (y < x)
    BY <1>4, <2>1
  <2>3. QED
    BY <2>1, <2>2
<1>6. QED
  BY <1>5

LEMMA Induction ==
    ASSUME NEW S \in SUBSET Nat, 0 \in S, \A n \in S : n + 1 \in S
    PROVE  \A n \in Nat : n \in S
<1>1. SUFFICES ASSUME Nat \ S # {}
               PROVE  FALSE
  OBVIOUS
<1>2. PICK x \in Nat \ S : \A y \in Nat \ S : x <= y
  BY <1>1, LeastElement
<1>3. x # 0 /\ x - 1 \in Nat /\ x - 1 \in S
  BY <1>2
<1>4. QED
  BY <1>2, <1>3

\* The greatest of a set of indices, which a fold takes last.
LEMMA Greatest ==
    ASSUME NEW n \in Nat, NEW t \in SUBSET (1..n), t # {}
    PROVE  Max(t) \in t /\ \A y \in t : y <= Max(t)
<1>1. PICK T : T = {n - y : y \in t}
  OBVIOUS
<1>2. T \in SUBSET Nat /\ T # {}
  <2>1. \A y \in t : n - y \in Nat
    OBVIOUS
  <2>2. QED
    BY <1>1, <2>1
<1>3. PICK z \in T : \A y \in T : z <= y
  BY <1>2, LeastElement
<1>4. PICK x \in t : z = n - x
  BY <1>1, <1>3
<1>5. \A y \in t : n - y \in T
  BY <1>1
<1>6. \A y \in t : x >= y
  BY <1>3, <1>4, <1>5
<1>7. \E w \in t : \A y \in t : w >= y
  BY <1>6
<1>8. Max(t) \in t /\ \A y \in t : Max(t) >= y
  BY <1>7 DEF Max
<1>9. QED
  BY <1>8

LEMMA EmptyInterval == 1..0 = {}
OBVIOUS

LEMMA LongerInterval ==
    ASSUME NEW n \in Nat
    PROVE  1..(n + 1) = (1..n) \cup {n + 1} /\ n + 1 \notin 1..n /\ 1..n \subseteq 1..(n + 1)
OBVIOUS

LEMMA ElementsOf ==
    ASSUME NEW E, NEW s \in Seq(E)
    PROVE  Len(s) \in Nat /\ DOMAIN s = 1..Len(s) /\ \A i \in 1..Len(s) : s[i] \in E
OBVIOUS

LEMMA GreatestOfAll ==
    ASSUME NEW n \in Nat \ {0}
    PROVE  Max(1..n) = n /\ (1..n) \ {n} = 1..(n - 1)
<1>1. 1..n # {} /\ n \in 1..n /\ (1..n) \ {n} = 1..(n - 1)
  OBVIOUS
<1>2. Max(1..n) \in 1..n /\ \A y \in 1..n : y <= Max(1..n)
  BY <1>1, Greatest
<1>3. QED
  BY <1>1, <1>2

-----------------------------------------------------------------------------
Fold(f, a, s) == FoldLeft(LAMBDA x, y : f[<<x, y>>], a, s)

\* What FoldLeft chooses: the results over all sets of indices.
Accumulates(f, a, s, iter) ==
    iter = [t \in SUBSET DOMAIN s |-> IF t = {} THEN a ELSE f[<<iter[t \ {Max(t)}], s[Max(t)]>>]]

LEMMA FoldUnfolds ==
    ASSUME NEW f, NEW a, NEW s
    PROVE  Fold(f, a, s) = (CHOOSE iter : Accumulates(f, a, s, iter))[DOMAIN s]
BY Zenon DEF Fold, FoldLeft, MapThenFoldSet, Accumulates

\* g has the results over the sets of the first n indices, with op[i] the step to i.
Accumulated(A, a, op, n, g) ==
    /\ g \in [SUBSET (1..n) -> A]
    /\ g[{}] = a
    /\ \A t \in SUBSET (1..n) : t # {} => g[t] = op[Max(t)][g[t \ {Max(t)}]]

HasResults(A, a, op, n) == \E g : Accumulated(A, a, op, n, g)

LEMMA ResultsGrow ==
    ASSUME NEW A, NEW n \in Nat, NEW op, NEW m, m = n + 1, \A b \in A : op[m][b] \in A,
           NEW a \in A, HasResults(A, a, op, n)
    PROVE  HasResults(A, a, op, m)
<1>1. 1..m = (1..n) \cup {m} /\ m \notin 1..n /\ m \in Nat
  BY LongerInterval
<1>2. PICK g : /\ g \in [SUBSET (1..n) -> A] /\ g[{}] = a
               /\ \A t \in SUBSET (1..n) : t # {} => g[t] = op[Max(t)][g[t \ {Max(t)}]]
  BY DEF HasResults, Accumulated
<1>3. PICK h : h = [t \in SUBSET (1..m) |-> IF m \in t THEN op[m][g[t \ {m}]] ELSE g[t]]
  OBVIOUS
<1>4. \A t \in SUBSET (1..m) : /\ m \in t => t \ {m} \in SUBSET (1..n)
                               /\ m \notin t => t \in SUBSET (1..n)
  BY <1>1
<1>5. \A t \in SUBSET (1..m) : m \in t => h[t] = op[m][g[t \ {m}]] /\ g[t \ {m}] \in A
  BY <1>2, <1>3, <1>4
<1>6. \A t \in SUBSET (1..m) : m \notin t => h[t] = g[t] /\ g[t] \in A
  BY <1>2, <1>3, <1>4
<1>7. \A t \in SUBSET (1..m) : h[t] \in A
  BY <1>5, <1>6
<1>8. h \in [SUBSET (1..m) -> A]
  BY <1>3, <1>7
<1>9. h[{}] = a
  BY <1>2, <1>6
<1>10. ASSUME NEW t \in SUBSET (1..m), t # {}
       PROVE  h[t] = op[Max(t)][h[t \ {Max(t)}]]
  <2>1. Max(t) \in t /\ \A y \in t : y <= Max(t)
    BY <1>1, <1>10, Greatest
  <2>2. CASE m \in t
    <3>1. \A y \in 1..m : m <= y => y = m
      BY <1>1
    <3>2. Max(t) = m
      BY <2>1, <2>2, <3>1
    <3>3. h[t \ {m}] = g[t \ {m}]
      BY <1>6
    <3>4. QED
      BY <1>5, <2>2, <3>2, <3>3
  <2>3. CASE m \notin t
    <3>1. t \in SUBSET (1..n)
      BY <1>4, <2>3
    <3>2. h[t] = g[t] /\ h[t \ {Max(t)}] = g[t \ {Max(t)}]
      BY <1>6, <2>3
    <3>3. QED
      BY <1>2, <1>10, <3>1, <3>2
  <2>4. QED
    BY <2>2, <2>3
<1>11. Accumulated(A, a, op, m, h)
  BY <1>8, <1>9, <1>10 DEF Accumulated
<1>12. QED
  BY <1>11 DEF HasResults

LEMMA ResultsExist ==
    ASSUME NEW A, NEW N \in Nat, NEW op, \A i \in 1..N : \A b \in A : op[i][b] \in A, NEW a \in A
    PROVE  \E g : Accumulated(A, a, op, N, g)
<1>1. PICK S : S = {n \in Nat : n <= N => HasResults(A, a, op, n)}
  OBVIOUS
<1>2. HasResults(A, a, op, 0)
  <2>1. PICK g : g = [t \in SUBSET {} |-> a]
    OBVIOUS
  <2>2. g \in [SUBSET {} -> A] /\ g[{}] = a /\ \A t \in SUBSET {} : t = {}
    BY <2>1
  <2>3. Accumulated(A, a, op, 0, g)
    BY <2>2, EmptyInterval DEF Accumulated
  <2>4. QED
    BY <2>3 DEF HasResults
<1>3. ASSUME NEW n \in S
      PROVE  n + 1 \in S
  <2>1. n \in Nat /\ n + 1 \in Nat /\ (n <= N => HasResults(A, a, op, n))
    BY <1>1
  <2>2. PICK m : m = n + 1
    OBVIOUS
  <2>3. m <= N => n <= N /\ m \in 1..N
    BY <2>1, <2>2
  <2>4. m <= N => HasResults(A, a, op, m)
    BY <2>1, <2>2, <2>3, ResultsGrow
  <2>5. QED
    BY <1>1, <2>1, <2>2, <2>4
<1>4. S \in SUBSET Nat /\ 0 \in S
  BY <1>1, <1>2
<1>5. \A n \in Nat : n \in S
  BY <1>3, <1>4, Induction
<1>6. HasResults(A, a, op, N)
  BY <1>1, <1>5
<1>7. QED
  BY <1>6 DEF HasResults

Folding(A, E, f, a, s) == f \in [A \X E -> A] /\ a \in A /\ s \in Seq(E)

LEMMA Accumulator ==
    ASSUME NEW A, NEW E, NEW f, NEW a, NEW s, Folding(A, E, f, a, s)
    PROVE  \E g \in [SUBSET DOMAIN s -> A] : Accumulates(f, a, s, g)
<1>0. f \in [A \X E -> A] /\ a \in A /\ s \in Seq(E)
  BY DEF Folding
<1>1. Len(s) \in Nat /\ DOMAIN s = 1..Len(s) /\ \A i \in 1..Len(s) : s[i] \in E
  BY <1>0, ElementsOf
<1>2. PICK op : op = [i \in 1..Len(s) |-> [b \in A |-> f[<<b, s[i]>>]]]
  OBVIOUS
<1>3. \A i \in 1..Len(s) : \A b \in A : op[i][b] = f[<<b, s[i]>>] /\ op[i][b] \in A
  BY <1>0, <1>1, <1>2
<1>4. \A i \in 1..Len(s) : \A b \in A : op[i][b] \in A
  BY <1>3
<1>5. PICK g : Accumulated(A, a, op, Len(s), g)
  BY <1>0, <1>1, <1>4, ResultsExist
<1>6. /\ g \in [SUBSET (1..Len(s)) -> A] /\ g[{}] = a
      /\ \A t \in SUBSET (1..Len(s)) : t # {} => g[t] = op[Max(t)][g[t \ {Max(t)}]]
  BY <1>5 DEF Accumulated
<1>7. ASSUME NEW t \in SUBSET (1..Len(s)), t # {}
      PROVE  g[t] = f[<<g[t \ {Max(t)}], s[Max(t)]>>]
  <2>1. Max(t) \in 1..Len(s)
    BY <1>1, <1>7, Greatest
  <2>2. g[t \ {Max(t)}] \in A
    BY <1>6
  <2>3. QED
    BY <1>3, <1>6, <1>7, <2>1, <2>2
<1>8. g = [t \in SUBSET (1..Len(s)) |-> IF t = {} THEN a ELSE f[<<g[t \ {Max(t)}], s[Max(t)]>>]]
  BY <1>6, <1>7
<1>9. Accumulates(f, a, s, g)
  BY <1>1, <1>8 DEF Accumulates
<1>10. QED
  BY <1>1, <1>6, <1>9

LEMMA LastIndexOf ==
    ASSUME NEW E, NEW s \in Seq(E), NEW t \in SUBSET DOMAIN s, t # {}
    PROVE  Max(t) \in DOMAIN s /\ s[Max(t)] \in E
<1>1. Len(s) \in Nat /\ DOMAIN s = 1..Len(s) /\ \A i \in 1..Len(s) : s[i] \in E
  BY ElementsOf
<1>2. Max(t) \in 1..Len(s)
  BY <1>1, Greatest
<1>3. QED
  BY <1>1, <1>2

\* The first i indices of a sequence, which are those that a fold has taken at i.
LEMMA FirstIndices ==
    ASSUME NEW E, NEW s \in Seq(E), NEW i \in 1..Len(s)
    PROVE  /\ 1..i \in SUBSET DOMAIN s /\ 1..i # {} /\ s[i] \in E
           /\ Max(1..i) = i /\ (1..i) \ {i} = 1..(i - 1)
<1>1. Len(s) \in Nat /\ DOMAIN s = 1..Len(s) /\ s[i] \in E
  BY ElementsOf
<1>2. i \in Nat \ {0}
  BY <1>1
<1>3. Max(1..i) = i /\ (1..i) \ {i} = 1..(i - 1)
  BY <1>2, GreatestOfAll
<1>4. 1..i \in SUBSET (1..Len(s)) /\ i \in 1..i
  BY <1>1, <1>2
<1>5. QED
  BY <1>1, <1>3, <1>4

-----------------------------------------------------------------------------
\* iter takes the steps of f along s, as long as its values are in A.
Steps(A, f, a, s, iter) ==
    /\ iter[{}] = a
    /\ \A i \in 1..Len(s) : iter[1..(i - 1)] \in A => iter[1..i] = f[<<iter[1..(i - 1)], s[i]>>]

LEMMA AccumulatorSteps ==
    ASSUME NEW A, NEW E, NEW f, NEW a, NEW s, Folding(A, E, f, a, s),
           NEW g, Accumulates(f, a, s, g)
    PROVE  Steps(A, f, a, s, g)
<1>1. g[{}] = a
  BY DEF Accumulates
<1>0. s \in Seq(E)
  BY DEF Folding
<1>2. ASSUME NEW i \in 1..Len(s)
      PROVE  g[1..i] = f[<<g[1..(i - 1)], s[i]>>]
  <2>1. /\ 1..i \in SUBSET DOMAIN s /\ 1..i # {} /\ s[i] \in E
        /\ Max(1..i) = i /\ (1..i) \ {i} = 1..(i - 1)
    BY <1>0, FirstIndices
  <2>2. QED
    BY <2>1 DEF Accumulates
<1>3. QED
  BY <1>1, <1>2 DEF Steps

LEMMA StepsAgree ==
    ASSUME NEW A, NEW E, NEW f, NEW a, NEW s, Folding(A, E, f, a, s), NEW iter, Steps(A, f, a, s, iter), NEW g, Steps(A, f, a, s, g)
    PROVE  iter[1..Len(s)] = g[1..Len(s)] /\ g[1..Len(s)] \in A
<1> DEFINE Same(i) == iter[1..i] = g[1..i] /\ g[1..i] \in A
<1>0. f \in [A \X E -> A] /\ a \in A /\ s \in Seq(E)
  BY DEF Folding
<1>1. Len(s) \in Nat /\ \A i \in 1..Len(s) : s[i] \in E
  BY <1>0, ElementsOf
<1>2. PICK S : S = {i \in Nat : i <= Len(s) => Same(i)}
  OBVIOUS
<1>3. Same(0)
  BY <1>0, EmptyInterval DEF Steps
<1>4. ASSUME NEW i \in 1..Len(s), Same(i - 1)
      PROVE  Same(i)
  <2>1. iter[1..i] = f[<<iter[1..(i - 1)], s[i]>>] /\ g[1..i] = f[<<g[1..(i - 1)], s[i]>>]
    BY <1>4 DEF Steps
  <2>2. s[i] \in E
    BY <1>1
  <2>3. QED
    BY <1>0, <1>4, <2>1, <2>2
<1> HIDE DEF Same
<1>5. ASSUME NEW i \in S
      PROVE  i + 1 \in S
  <2>1. i \in Nat /\ i + 1 \in Nat /\ (i <= Len(s) => Same(i))
    BY <1>2
  <2>2. PICK j : j = i + 1
    OBVIOUS
  <2>3. j <= Len(s) => j \in 1..Len(s) /\ j - 1 = i /\ i <= Len(s)
    BY <1>1, <2>1, <2>2
  <2>4. j <= Len(s) => Same(j)
    BY <1>4, <2>1, <2>3
  <2>5. QED
    BY <1>2, <2>1, <2>2, <2>4
<1>6. S \in SUBSET Nat /\ 0 \in S
  BY <1>2, <1>3
<1>7. \A i \in Nat : i \in S
  BY <1>5, <1>6, Induction
<1>8. Same(Len(s))
  BY <1>1, <1>2, <1>7
<1>9. QED
  BY <1>8 DEF Same

\* Any other function that takes the steps of f ends where the fold does.
LEMMA FoldAgrees ==
    ASSUME NEW A, NEW E, NEW f, NEW a, NEW s, Folding(A, E, f, a, s),
           NEW iter, Steps(A, f, a, s, iter)
    PROVE  Fold(f, a, s) \in A /\ iter[DOMAIN s] = Fold(f, a, s)
<1>1. PICK g : g = CHOOSE it : Accumulates(f, a, s, it)
  OBVIOUS
<1>2. \E it : Accumulates(f, a, s, it)
  BY Accumulator
<1>3. Accumulates(f, a, s, g)
  BY <1>1, <1>2, Zenon
<1>4. Fold(f, a, s) = g[DOMAIN s]
  BY <1>1, FoldUnfolds
<1>5. Steps(A, f, a, s, g)
  BY <1>3, AccumulatorSteps
<1>6. DOMAIN s = 1..Len(s)
  BY ElementsOf DEF Folding
<1>7. iter[1..Len(s)] = g[1..Len(s)] /\ g[1..Len(s)] \in A
  BY <1>5, StepsAgree
<1>8. QED
  BY <1>4, <1>6, <1>7

LEMMA FoldEmpty ==
    ASSUME NEW A, NEW E, NEW f, NEW a, NEW s, Folding(A, E, f, a, s), s = <<>>
    PROVE  Fold(f, a, s) = a
<1>1. DOMAIN s = {}
  OBVIOUS
<1>2. PICK g : Accumulates(f, a, s, g)
  BY Accumulator
<1>3. Steps(A, f, a, s, g)
  BY <1>2, AccumulatorSteps
<1>4. g[DOMAIN s] = Fold(f, a, s)
  BY <1>3, FoldAgrees
<1>5. g[{}] = a
  BY <1>3 DEF Steps
<1>6. QED
  BY <1>1, <1>4, <1>5

LEMMA FoldIn ==
    ASSUME NEW A, NEW E, NEW f, NEW a, NEW s, Folding(A, E, f, a, s)
    PROVE  Fold(f, a, s) \in A
<1>1. PICK g : Accumulates(f, a, s, g)
  BY Accumulator
<1>2. Steps(A, f, a, s, g)
  BY <1>1, AccumulatorSteps
<1>3. QED
  BY <1>2, FoldAgrees

LEMMA FoldAppend ==
    ASSUME NEW A, NEW E, NEW f, NEW a, NEW s, Folding(A, E, f, a, s), NEW e \in E
    PROVE  /\ Fold(f, a, s) \in A
           /\ Fold(f, a, Append(s, e)) = f[<<Fold(f, a, s), e>>]
<1>0. f \in [A \X E -> A] /\ a \in A /\ s \in Seq(E)
  BY DEF Folding
<1>1. PICK u : u = Append(s, e)
  OBVIOUS
<1>2. PICK n : n = Len(s) + 1
  OBVIOUS
<1>3. /\ u \in Seq(E) /\ Len(u) = n /\ u[n] = e /\ \A i \in 1..Len(s) : u[i] = s[i]
  BY <1>0, <1>1, <1>2
<1>4. Len(s) \in Nat /\ DOMAIN s = 1..Len(s) /\ DOMAIN u = 1..n
  BY <1>0, <1>3, ElementsOf
<1>12. Folding(A, E, f, a, u)
  BY <1>0, <1>3 DEF Folding
<1>5. PICK g : Accumulates(f, a, u, g)
  BY <1>12, Accumulator
<1>6. Steps(A, f, a, u, g)
  BY <1>5, <1>12, AccumulatorSteps
<1>7. Steps(A, f, a, s, g)
  <2>1. 1..Len(s) \subseteq 1..Len(u)
    BY <1>2, <1>3, <1>4
  <2>2. QED
    BY <1>3, <1>6, <2>1 DEF Steps
<1>8. Fold(f, a, s) \in A /\ g[1..Len(s)] = Fold(f, a, s)
  BY <1>4, <1>7, FoldAgrees
<1>9. g[1..n] = Fold(f, a, u)
  BY <1>4, <1>6, <1>12, FoldAgrees
<1>10. g[1..n] = f[<<g[1..Len(s)], e>>]
  <2>1. n \in 1..Len(u) /\ n - 1 = Len(s)
    BY <1>2, <1>3, <1>4
  <2>2. QED
    BY <1>3, <1>6, <1>8, <2>1 DEF Steps
<1>11. QED
  BY <1>1, <1>8, <1>9, <1>10

-----------------------------------------------------------------------------
\* Induction over the sequences of elements of E.
LEMMA SequenceInduction ==
    ASSUME NEW E, NEW S \in SUBSET Seq(E), <<>> \in S,
           \A s \in S, e \in E : Append(s, e) \in S
    PROVE  \A s \in Seq(E) : s \in S
<1>1. PICK T : T = {n \in Nat : \A s \in Seq(E) : Len(s) = n => s \in S}
  OBVIOUS
<1>2. 0 \in T
  <2>1. \A s \in Seq(E) : Len(s) = 0 => s = <<>>
    OBVIOUS
  <2>2. QED
    BY <1>1, <2>1
<1>3. ASSUME NEW n \in T
      PROVE  n + 1 \in T
  <2>1. n \in Nat /\ \A s \in Seq(E) : Len(s) = n => s \in S
    BY <1>1
  <2>2. ASSUME NEW s \in Seq(E), Len(s) = n + 1
        PROVE  s \in S
    <3>1. s # <<>>
      BY <2>1, <2>2
    <3>2. PICK u \in Seq(E), e \in E : s = Append(u, e)
      BY <3>1, SequenceEmptyOrAppend
    <3>3. Len(u) = n
      BY <2>1, <2>2, <3>2
    <3>4. QED
      BY <2>1, <3>2, <3>3
  <2>3. QED
    BY <1>1, <2>1, <2>2
<1>4. \A n \in Nat : n \in T
  BY <1>1, <1>2, <1>3, Induction
<1>5. QED
  BY <1>1, <1>4

-----------------------------------------------------------------------------
\* A sequence with its last element replaced.
LEMMA ReplaceLast ==
    ASSUME NEW T, NEW F \in Seq(T), NEW L \in T, NEW e \in T
    PROVE  /\ [Append(F, L) EXCEPT ![Len(Append(F, L))] = e] = Append(F, e)
           /\ Append(F, L)[Len(Append(F, L))] = L
<1>1. PICK p : p = Append(F, L)
  OBVIOUS
<1>2. PICK n : n = Len(F) + 1
  OBVIOUS
<1>3. p \in Seq(T) /\ Len(p) = n /\ n \in 1..Len(p) /\ p[n] = L /\ \A i \in 1..Len(F) : p[i] = F[i]
  BY <1>1, <1>2, AppendProperties, LenProperties
<1>4. PICK q : q = [p EXCEPT ![n] = e]
  OBVIOUS
<1>5. q \in Seq(T) /\ Len(q) = n /\ \A i \in 1..n : q[i] = IF i = n THEN e ELSE p[i]
  BY <1>3, <1>4, ExceptSeq
<1>6. PICK r : r = Append(F, e)
  OBVIOUS
<1>7. r \in Seq(T) /\ Len(r) = n /\ r[n] = e /\ \A i \in 1..Len(F) : r[i] = F[i]
  BY <1>2, <1>6, AppendProperties
<1>8. \A i \in 1..n : i = n \/ i \in 1..Len(F)
  BY <1>2, LenProperties
<1>9. \A i \in 1..Len(q) : q[i] = r[i]
  BY <1>3, <1>5, <1>7, <1>8
<1>10. q = r
  BY <1>5, <1>7, <1>9, SeqEqual
<1>11. QED
  BY <1>1, <1>3, <1>4, <1>6, <1>10

\* H, a function over indices, has the values of G and then e.
Continues(H, G, e) ==
    /\ H = [j \in 1..(Len(G) + 1) |-> H[j]]
    /\ \A j \in 1..Len(G) : H[j] = G[j]
    /\ H[Len(G) + 1] = e

LEMMA ContinuesIsAppend ==
    ASSUME NEW E, NEW G \in Seq(E), NEW e \in E, NEW H, Continues(H, G, e)
    PROVE  H = Append(G, e)
<1>0. PICK n : n = Len(G) + 1
  OBVIOUS
<1>1. PICK r : r = Append(G, e)
  OBVIOUS
<1>2. r \in Seq(E) /\ Len(r) = n /\ r[n] = e /\ \A i \in 1..Len(G) : r[i] = G[i]
  BY <1>0, <1>1, AppendProperties
<1>3. r = [j \in 1..n |-> r[j]]
  BY <1>2, LenProperties
<1>4. \A j \in 1..n : j = n \/ j \in 1..Len(G)
  BY <1>0, LenProperties
<1>5. H = [j \in 1..n |-> H[j]] /\ \A j \in 1..n : H[j] = r[j]
  BY <1>0, <1>2, <1>4 DEF Continues
<1>6. QED
  BY <1>1, <1>3, <1>5

LEMMA ConcatAppend ==
    ASSUME NEW E, NEW r \in Seq(E), NEW s \in Seq(E), NEW e \in E
    PROVE  r \o s \in Seq(E) /\ r \o Append(s, e) = Append(r \o s, e)
<1>1. PICK u : u = <<e>>
  OBVIOUS
<1>0. u \in Seq(E)
  BY <1>1
<1>2. r \o s \in Seq(E)
  BY ConcatProperties
<1>3. Append(s, e) = s \o u /\ Append(r \o s, e) = (r \o s) \o u
  BY <1>1, <1>2, AppendIsConcat
<1>4. QED
  BY <1>0, <1>2, <1>3, ConcatAssociative

\* What FlattenSeq chooses.
Flattens(ss, flatten) == flatten = [i \in 1..Len(ss) |-> IF i = 1 THEN ss[i] ELSE flatten[i - 1] \o ss[i]]

Concatenation(A) == [p \in A \X A |-> p[1] \o p[2]]

\* fl and g concatenate the first N of ss.
Concatenates(N, ss, fl, g) ==
    \A i \in 1..N : /\ i = 1 => g[1..i] = ss[i]
                    /\ g[1..i] = g[1..(i - 1)] \o ss[i]
                    /\ fl[i] = IF i = 1 THEN ss[i] ELSE fl[i - 1] \o ss[i]

LEMMA FlattenSteps ==
    ASSUME NEW N \in Nat \ {0}, NEW ss, NEW fl, NEW g, Concatenates(N, ss, fl, g)
    PROVE  fl[N] = g[1..N]
<1> DEFINE Same(i) == fl[i] = g[1..i]
<1>1. PICK S : S = {i \in Nat : i + 1 <= N => Same(i + 1)}
  OBVIOUS
<1>2. Same(1)
  <2>1. 1 \in 1..N
    OBVIOUS
  <2>2. fl[1] = ss[1] /\ g[1..1] = ss[1]
    BY <2>1 DEF Concatenates
  <2>3. QED
    BY <2>2
<1>3. ASSUME NEW i \in 1..N, i # 1, Same(i - 1)
      PROVE  Same(i)
  BY <1>3 DEF Concatenates
<1> HIDE DEF Same
<1>4. ASSUME NEW i \in S
      PROVE  i + 1 \in S
  <2>1. i \in Nat /\ i + 1 \in Nat /\ (i + 1 <= N => Same(i + 1))
    BY <1>1
  <2>2. PICK j : j = (i + 1) + 1
    OBVIOUS
  <2>3. j <= N => j \in 1..N /\ j - 1 = i + 1 /\ j # 1 /\ i + 1 <= N
    BY <2>1, <2>2
  <2>4. j <= N => Same(j)
    BY <1>3, <2>1, <2>3
  <2>5. QED
    BY <1>1, <2>1, <2>2, <2>4
<1>5. S \in SUBSET Nat /\ 0 \in S
  <2>1. 0 + 1 = 1
    OBVIOUS
  <2>2. QED
    BY <1>1, <1>2, <2>1
<1>6. \A i \in Nat : i \in S
  BY <1>4, <1>5, Induction
<1>7. N - 1 \in Nat /\ (N - 1) + 1 = N /\ N <= N
  OBVIOUS
<1>8. Same(N)
  BY <1>1, <1>6, <1>7
<1>9. QED
  BY <1>8 DEF Same

LEMMA FlattenIsFold ==
    ASSUME NEW A, <<>> \in A, \A r, s \in A : r \o s \in A, \A r \in A : <<>> \o r = r, NEW ss \in Seq(A)
    PROVE  FlattenSeq(ss) = Fold(Concatenation(A), <<>>, ss)
<1>1. Len(ss) \in Nat /\ DOMAIN ss = 1..Len(ss) /\ \A i \in 1..Len(ss) : ss[i] \in A
  BY ElementsOf
<1>2. PICK f : f = Concatenation(A)
  OBVIOUS
<1>3. f \in [A \X A -> A] /\ \A r, s \in A : f[<<r, s>>] = r \o s
  BY <1>2 DEF Concatenation
<1>0. Folding(A, A, f, <<>>, ss)
  BY <1>3 DEF Folding
<1>4. CASE ss = <<>>
  <2>1. FlattenSeq(ss) = <<>>
    BY <1>4 DEF FlattenSeq
  <2>2. Fold(f, <<>>, ss) = <<>>
    BY <1>0, <1>4, FoldEmpty
  <2>3. QED
    BY <1>2, <2>1, <2>2
<1>5. CASE ss # <<>>
  <2>1. PICK g \in [SUBSET DOMAIN ss -> A] : Accumulates(f, <<>>, ss, g)
    BY <1>0, Accumulator
  <2>2. Steps(A, f, <<>>, ss, g)
    BY <1>0, <2>1, AccumulatorSteps
  <2>3. \A i \in 1..Len(ss) : 1..i \in SUBSET DOMAIN ss /\ 1..(i - 1) \in SUBSET DOMAIN ss
    BY <1>1
  <2>4. \A i \in 1..Len(ss) : /\ g[1..(i - 1)] \in A /\ g[1..i] \in A
                              /\ g[1..i] = g[1..(i - 1)] \o ss[i]
    BY <1>1, <1>3, <2>1, <2>2, <2>3 DEF Steps
  <2>5. g[{}] = <<>>
    BY <2>2 DEF Steps
  <2>6. \A i \in 1..Len(ss) : i = 1 => g[1..i] = ss[i]
    <3>1. ASSUME NEW i \in 1..Len(ss), i = 1
          PROVE  g[1..i] = ss[i]
      <4>1. 1..(i - 1) = {}
        BY <3>1
      <4>2. g[1..i] = g[1..(i - 1)] \o ss[i] /\ ss[i] \in A
        BY <1>1, <2>4
      <4>3. <<>> \o ss[i] = ss[i]
        BY <4>2
      <4>4. QED
        BY <2>5, <4>1, <4>2, <4>3
    <3>2. QED
      BY <3>1
  <2>7. \E fl : Flattens(ss, fl)
    <3>1. PICK fl : fl = [i \in 1..Len(ss) |-> g[1..i]]
      OBVIOUS
    <3>2. ASSUME NEW i \in 1..Len(ss)
          PROVE  fl[i] = IF i = 1 THEN ss[i] ELSE fl[i - 1] \o ss[i]
      <4>1. CASE i = 1
        BY <2>6, <3>1, <4>1
      <4>2. CASE i # 1
        <5>1. i - 1 \in 1..Len(ss)
          BY <1>1, <4>2
        <5>2. fl[i] = g[1..i] /\ fl[i - 1] = g[1..(i - 1)]
          BY <3>1, <5>1
        <5>3. QED
          BY <2>4, <4>2, <5>2
      <4>3. QED
        BY <4>1, <4>2
    <3>3. Flattens(ss, fl)
      BY <3>1, <3>2 DEF Flattens
    <3>4. QED
      BY <3>3
  <2>8. PICK fl : fl = CHOOSE it : Flattens(ss, it)
    OBVIOUS
  <2>9. Flattens(ss, fl)
    BY <2>7, <2>8, Zenon
  <2>10. Len(ss) \in 1..Len(ss) /\ Len(ss) # 0
    BY <1>1, <1>5
  <2>11. FlattenSeq(ss) = fl[Len(ss)]
    BY <2>8, <2>10, Zenon DEF FlattenSeq, Flattens
  <2>12. \A i \in 1..Len(ss) : fl[i] = IF i = 1 THEN ss[i] ELSE fl[i - 1] \o ss[i]
    BY <2>9 DEF Flattens
  <2>13. fl[Len(ss)] = g[1..Len(ss)]
    <3>1. PICK N : N = Len(ss)
      OBVIOUS
    <3>2. N \in Nat \ {0}
      BY <1>1, <2>10, <3>1
    <3>3. Concatenates(N, ss, fl, g)
      BY <2>4, <2>6, <2>12, <3>1 DEF Concatenates
    <3>4. fl[N] = g[1..N]
      BY <3>2, <3>3, FlattenSteps
    <3>5. QED
      BY <3>1, <3>4
  <2>14. g[DOMAIN ss] = Fold(f, <<>>, ss)
    BY <1>0, <2>2, FoldAgrees
  <2>15. QED
    BY <1>1, <1>2, <2>11, <2>13, <2>14
<1>6. QED
  BY <1>4, <1>5

LEMMA FlattenEmpty == FlattenSeq(<<>>) = <<>>
BY DEF FlattenSeq

LEMMA FlattenAppend ==
    ASSUME NEW E, NEW ss \in Seq(Seq(E)), NEW s \in Seq(E)
    PROVE  /\ FlattenSeq(ss) \in Seq(E)
           /\ FlattenSeq(Append(ss, s)) = FlattenSeq(ss) \o s
<1>1. PICK A : A = Seq(E)
  OBVIOUS
<1>2. <<>> \in A /\ (\A r, u \in A : r \o u \in A) /\ \A r \in A : <<>> \o r = r
  BY <1>1
<1>3. ss \in Seq(A) /\ s \in A
  BY <1>1
<1>4. Append(ss, s) \in Seq(A)
  BY <1>3
<1>5. PICK f : f = Concatenation(A)
  OBVIOUS
<1>6. FlattenSeq(ss) = Fold(f, <<>>, ss) /\ FlattenSeq(Append(ss, s)) = Fold(f, <<>>, Append(ss, s))
  BY <1>2, <1>3, <1>4, <1>5, FlattenIsFold
<1>7. f \in [A \X A -> A] /\ \A r, u \in A : f[<<r, u>>] = r \o u
  BY <1>2, <1>5 DEF Concatenation
<1>8. Fold(f, <<>>, ss) \in A /\ Fold(f, <<>>, Append(ss, s)) = f[<<Fold(f, <<>>, ss), s>>]
  <2>1. Folding(A, A, f, <<>>, ss)
    BY <1>2, <1>3, <1>7 DEF Folding
  <2>2. Fold(f, <<>>, ss) \in A
    BY <2>1, FoldIn
  <2>3. Fold(f, <<>>, Append(ss, s)) = f[<<Fold(f, <<>>, ss), s>>]
    BY <1>3, <2>1, FoldAppend
  <2>4. QED
    BY <2>2, <2>3
<1>9. QED
  BY <1>1, <1>3, <1>6, <1>7, <1>8

-----------------------------------------------------------------------------
\* The last element of a sequence, and those in front of it.
LEMMA FrontAndLast ==
    ASSUME NEW T, NEW l \in Seq(T), NEW e \in T
    PROVE  Append(l, e) # <<>> /\ Last(Append(l, e)) = e /\ Front(Append(l, e)) = l
<1>1. PICK m : m = Append(l, e)
  OBVIOUS
<1>2. PICK n : n = Len(l) + 1
  OBVIOUS
<1>3. m \in Seq(T) /\ Len(m) = n /\ m[n] = e /\ \A i \in 1..Len(l) : m[i] = l[i]
  BY <1>1, <1>2, AppendProperties
<1>4. n \in Nat /\ n # 0 /\ n - 1 = Len(l) /\ Len(l) \in Nat
  BY <1>2, LenProperties
<1>5. m # <<>>
  BY <1>3, <1>4
<1>6. Last(m) = e
  BY <1>3 DEF Last
<1>7. PICK f : f = [i \in 1..Len(l) |-> m[i]]
  OBVIOUS
<1>8. Front(m) = f
  <2>1. Front(m) = SubSeq(m, 1, Len(l))
    BY <1>3, <1>4 DEF Front
  <2>2. SubSeq(m, 1, Len(l)) = [i \in 1..Len(l) |-> m[i]]
    <3>1. Len(l) <= Len(m)
      BY <1>2, <1>3, <1>4
    <3>2. QED
      BY <1>3, <1>4, <3>1, SubSeqProperties
  <2>3. QED
    BY <1>7, <2>1, <2>2
<1>9. l = [i \in 1..Len(l) |-> l[i]]
  BY LenProperties
<1>10. f = l
  BY <1>3, <1>7, <1>9
<1>11. QED
  BY <1>1, <1>5, <1>6, <1>8, <1>10

LEMMA FrontIn ==
    ASSUME NEW T, NEW s \in Seq(T), s # <<>>
    PROVE  Front(s) \in Seq(T)
<1>1. PICK u \in Seq(T), e \in T : s = Append(u, e)
  BY SequenceEmptyOrAppend
<1>2. Front(Append(u, e)) = u
  BY FrontAndLast
<1>3. QED
  BY <1>1, <1>2

LEMMA ConsProperties ==
    ASSUME NEW E, NEW x \in E, NEW s \in Seq(E), NEW e \in E
    PROVE  /\ Cons(x, s) \in Seq(E) /\ Cons(x, <<>>) = Append(<<>>, x)
           /\ Cons(x, Append(s, e)) = Append(Cons(x, s), e)
<1>1. PICK u : u = <<x>>
  OBVIOUS
<1>2. u \in Seq(E) /\ u \o <<>> = u /\ Append(<<>>, x) = u
  BY <1>1
<1>3. u \o s \in Seq(E) /\ u \o Append(s, e) = Append(u \o s, e)
  BY <1>2, ConcatAppend
<1>4. QED
  BY <1>1, <1>2, <1>3 DEF Cons

\* A fold along a sequence may be started after its first step.
LEMMA FoldCons ==
    ASSUME NEW A, NEW E, NEW f, NEW a, NEW s, Folding(A, E, f, a, s), NEW x \in E
    PROVE  Fold(f, a, Cons(x, s)) = Fold(f, f[<<a, x>>], s)
<1>0. f \in [A \X E -> A] /\ a \in A /\ s \in Seq(E)
  BY DEF Folding
<1> DEFINE Agree(u) == Fold(f, a, Cons(x, u)) = Fold(f, f[<<a, x>>], u)
<1>1. PICK S : S = {u \in Seq(E) : Agree(u)}
  OBVIOUS
<1>2. PICK b \in A : b = f[<<a, x>>]
  BY <1>0
<1>3. Agree(<<>>)
  <2>1. PICK n : n = <<>>
    OBVIOUS
  <2>0. n \in Seq(E)
    BY <2>1
  <2>6. Folding(A, E, f, a, n) /\ Folding(A, E, f, b, n)
    BY <1>0, <2>0 DEF Folding
  <2>2. Fold(f, a, Append(n, x)) = f[<<Fold(f, a, n), x>>]
    BY <2>6, FoldAppend
  <2>3. Fold(f, a, n) = a /\ Fold(f, b, n) = b
    BY <2>1, <2>6, FoldEmpty
  <2>4. Cons(x, n) = Append(n, x)
    BY <2>0, <2>1, ConsProperties
  <2>5. QED
    BY <1>2, <2>1, <2>2, <2>3, <2>4
<1>4. ASSUME NEW u \in Seq(E), Agree(u), NEW e \in E
      PROVE  Agree(Append(u, e))
  <2>1. PICK w \in Seq(E) : w = Cons(x, u)
    BY ConsProperties
  <2>2. Cons(x, Append(u, e)) = Append(w, e)
    BY <2>1, ConsProperties
  <2>6. Folding(A, E, f, a, w) /\ Folding(A, E, f, b, u)
    BY <1>0 DEF Folding
  <2>3. Fold(f, a, Append(w, e)) = f[<<Fold(f, a, w), e>>]
    BY <2>6, FoldAppend
  <2>4. Fold(f, b, Append(u, e)) = f[<<Fold(f, b, u), e>>]
    BY <2>6, FoldAppend
  <2>5. QED
    BY <1>2, <1>4, <2>1, <2>2, <2>3, <2>4
<1> HIDE DEF Agree
<1>5. S \in SUBSET Seq(E) /\ <<>> \in S
  BY <1>1, <1>3
<1>6. \A u \in S, e \in E : Append(u, e) \in S
  <2>1. ASSUME NEW u \in S, NEW e \in E
        PROVE  Append(u, e) \in S
    <3>1. u \in Seq(E) /\ Agree(u)
      BY <1>1
    <3>2. Append(u, e) \in Seq(E)
      BY <3>1
    <3>3. QED
      BY <1>1, <1>4, <3>1, <3>2
  <2>2. QED
    BY <2>1
<1>7. s \in S
  BY <1>0, <1>5, <1>6, SequenceInduction
<1>8. QED
  BY <1>1, <1>7 DEF Agree

LEMMA ReverseIn ==
    ASSUME NEW E, NEW s \in Seq(E)
    PROVE  Reverse(s) \in Seq(E) /\ Len(Reverse(s)) = Len(s)
BY DEF Reverse

LEMMA ReverseAppend ==
    ASSUME NEW E, NEW s \in Seq(E), NEW e \in E
    PROVE  Reverse(Append(s, e)) = Cons(e, Reverse(s))
<1>1. PICK m : m = Append(s, e)
  OBVIOUS
<1>2. PICK n : n = Len(s) + 1
  OBVIOUS
<1>3. m \in Seq(E) /\ Len(m) = n /\ m[n] = e /\ \A i \in 1..Len(s) : m[i] = s[i]
  BY <1>1, <1>2, AppendProperties
<1>4. n \in Nat /\ n - 1 = Len(s) /\ Len(s) \in Nat
  BY <1>2, LenProperties
<1>5. PICK r : r = Reverse(s)
  OBVIOUS
<1>6. r \in Seq(E) /\ Len(r) = Len(s) /\ \A i \in 1..Len(s) : r[i] = s[Len(s) - i + 1]
  BY <1>5, <1>4, ReverseIn DEF Reverse
<1>7. PICK q : q = Reverse(m)
  OBVIOUS
<1>8. q \in Seq(E) /\ Len(q) = n /\ \A i \in 1..n : q[i] = m[n - i + 1]
  BY <1>3, <1>4, <1>7, ReverseIn DEF Reverse
<1>9. PICK u : u = <<e>>
  OBVIOUS
<1>10. u \in Seq(E) /\ Len(u) = 1 /\ u[1] = e
  BY <1>9
<1>11. PICK t : t = u \o r
  OBVIOUS
<1>12. /\ t \in Seq(E) /\ Len(t) = Len(u) + Len(r)
       /\ \A i \in 1..(Len(u) + Len(r)) : t[i] = IF i <= Len(u) THEN u[i] ELSE r[i - Len(u)]
  <2>0. u \in Seq(E) /\ r \in Seq(E)
    BY <1>6, <1>10
  <2>1. /\ u \o r \in Seq(E) /\ Len(u \o r) = Len(u) + Len(r)
        /\ \A i \in 1..(Len(u) + Len(r)) : (u \o r)[i] = IF i <= Len(u) THEN u[i] ELSE r[i - Len(u)]
    BY <2>0, ConcatProperties
  <2>2. QED
    BY <1>11, <2>1
<1>13. Len(t) = n /\ \A i \in 1..n : t[i] = IF i <= 1 THEN u[i] ELSE r[i - 1]
  BY <1>4, <1>6, <1>10, <1>12
<1>14. ASSUME NEW i \in 1..n
       PROVE  q[i] = t[i]
  <2>1. CASE i = 1
    <3>1. 1 \in 1..n /\ n - 1 + 1 = n
      BY <1>4, <1>2
    <3>2. QED
      BY <1>3, <1>8, <1>10, <1>13, <2>1, <3>1
  <2>2. CASE i # 1
    <3>1. PICK j : j = i - 1
      OBVIOUS
    <3>2. j \in 1..Len(s) /\ ~ (i <= 1)
      BY <1>4, <2>2, <3>1
    <3>3. PICK k : k = Len(s) - j + 1
      OBVIOUS
    <3>4. k \in 1..Len(s) /\ n - i + 1 = k
      BY <1>4, <3>1, <3>2, <3>3
    <3>5. t[i] = s[k]
      BY <1>6, <1>13, <3>1, <3>2, <3>3
    <3>6. q[i] = s[k]
      BY <1>3, <1>8, <3>4
    <3>7. QED
      BY <3>5, <3>6
  <2>3. QED
    BY <2>1, <2>2
<1>15. q = t
  BY <1>8, <1>12, <1>13, <1>14, SeqEqual
<1>16. QED
  BY <1>1, <1>5, <1>7, <1>9, <1>11, <1>15 DEF Cons

\* g undoes each step of f on B, so backwards it undoes all of them.
Undoes(A, E, B, f, g) ==
    /\ f \in [A \X E -> A] /\ g \in [A \X E -> A] /\ B \in SUBSET A
    /\ \A b \in B, e \in E : f[<<b, e>>] \in B /\ g[<<f[<<b, e>>], e>>] = b

LEMMA FoldInverse ==
    ASSUME NEW A, NEW E, NEW B, NEW f, NEW g, Undoes(A, E, B, f, g), NEW a \in B, NEW s \in Seq(E)
    PROVE  Fold(f, a, s) \in B /\ Fold(g, Fold(f, a, s), Reverse(s)) = a
<1>0. /\ f \in [A \X E -> A] /\ g \in [A \X E -> A] /\ a \in A /\ \A b \in B : b \in A
      /\ \A b \in B, e \in E : f[<<b, e>>] \in B /\ g[<<f[<<b, e>>], e>>] = b
  BY DEF Undoes
<1> DEFINE Undone(u) == Fold(f, a, u) \in B /\ Fold(g, Fold(f, a, u), Reverse(u)) = a
<1>1. PICK S : S = {u \in Seq(E) : Undone(u)}
  OBVIOUS
<1>2. Undone(<<>>)
  <2>1. Reverse(<<>>) = <<>>
    BY DEF Reverse
  <2>2. PICK n : n = <<>>
    OBVIOUS
  <2>6. n \in Seq(E)
    BY <2>2
  <2>3. Folding(A, E, f, a, n) /\ Folding(A, E, g, a, n)
    BY <1>0, <2>6 DEF Folding
  <2>4. Fold(f, a, n) = a /\ Fold(g, a, n) = a
    BY <2>2, <2>3, FoldEmpty
  <2>5. QED
    BY <2>1, <2>2, <2>4
<1>3. ASSUME NEW u \in Seq(E), Undone(u), NEW e \in E
      PROVE  Undone(Append(u, e))
  <2>1. PICK b \in B : b = Fold(f, a, u)
    BY <1>3
  <2>0. Folding(A, E, f, a, u)
    BY <1>0 DEF Folding
  <2>2. Fold(f, a, Append(u, e)) = f[<<b, e>>]
    BY <2>0, <2>1, FoldAppend
  <2>3. PICK d \in B : d = f[<<b, e>>]
    BY <1>0
  <2>10. d \in A
    BY <1>0
  <2>4. g[<<d, e>>] = b
    BY <1>0, <2>3
  <2>5. PICK r \in Seq(E) : r = Reverse(u)
    BY ReverseIn
  <2>6. Reverse(Append(u, e)) = Cons(e, r)
    BY <2>5, ReverseAppend
  <2>11. Folding(A, E, g, d, r)
    BY <1>0, <2>10 DEF Folding
  <2>7. Fold(g, d, Cons(e, r)) = Fold(g, g[<<d, e>>], r)
    BY <2>11, FoldCons
  <2>8. Fold(g, b, r) = a
    BY <1>3, <2>1, <2>5
  <2>9. QED
    BY <2>2, <2>3, <2>4, <2>6, <2>7, <2>8
<1> HIDE DEF Undone
<1>4. S \in SUBSET Seq(E) /\ <<>> \in S
  BY <1>1, <1>2
<1>5. \A u \in S, e \in E : Append(u, e) \in S
  <2>1. ASSUME NEW u \in S, NEW e \in E
        PROVE  Append(u, e) \in S
    <3>1. u \in Seq(E) /\ Undone(u)
      BY <1>1
    <3>2. Append(u, e) \in Seq(E)
      BY <3>1
    <3>3. QED
      BY <1>1, <1>3, <3>1, <3>2
  <2>2. QED
    BY <2>1
<1>6. s \in S
  BY <1>4, <1>5, SequenceInduction
<1>7. QED
  BY <1>1, <1>6 DEF Undone
===============================================================================
