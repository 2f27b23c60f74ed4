------------------------------- MODULE Counting -------------------------------
(***************************************************************************)
(* How often something occurs in a sequence that is appended to at its end *)
(* and taken from at its head, as the queues of the app and the client are;*)
(* and what a loop that goes along a sequence has after each of its turns. *)
(* Induction is by the least number that would be an exception.            *)
(***************************************************************************)
EXTENDS Sequences, Integers, FiniteSets, FiniteSetTheorems,
        WellFoundedInduction, TLAPS

LEMMA AppendFacts ==
  ASSUME NEW S, NEW s \in Seq(S), NEW e \in S
  PROVE  /\ Len(s) \in Nat /\ DOMAIN s = 1 .. Len(s)
         /\ Append(s, e) \in Seq(S) /\ DOMAIN Append(s, e) = 1 .. Len(s) + 1
         /\ \A i \in 1 .. Len(s) : Append(s, e)[i] = s[i]
         /\ Append(s, e)[Len(s) + 1] = e
OBVIOUS

LEMMA TailFacts ==
  ASSUME NEW S, NEW s \in Seq(S), s # <<>>
  PROVE  /\ Len(s) \in Nat /\ Len(s) > 0 /\ DOMAIN s = 1 .. Len(s)
         /\ Tail(s) \in Seq(S) /\ DOMAIN Tail(s) = 1 .. Len(s) - 1
         /\ \A i \in 1 .. Len(s) - 1 : Tail(s)[i] = s[i + 1]
         /\ Head(s) = s[1] /\ Head(s) \in S
OBVIOUS

\* How often members of a set occur in a sequence.
Occurrences(s, T) == {i \in DOMAIN s : s[i] \in T}
Occurs(s, T) == Cardinality(Occurrences(s, T))

LEMMA OccursFinite ==
  ASSUME NEW S, NEW s \in Seq(S), NEW T
  PROVE  /\ IsFiniteSet(Occurrences(s, T)) /\ Occurs(s, T) \in Nat
         /\ Occurs(s, T) = 0 <=> \A i \in DOMAIN s : s[i] \notin T
<1>1. DOMAIN s = 1 .. Len(s) /\ Len(s) \in Nat
  OBVIOUS
<1>2. IsFiniteSet(1 .. Len(s))
  BY <1>1, FS_Interval
<1>3. IsFiniteSet(Occurrences(s, T))
  BY <1>1, <1>2, FS_Subset DEF Occurrences
<1>4. Occurs(s, T) \in Nat /\ (Occurs(s, T) = 0 <=> Occurrences(s, T) = {})
  BY <1>3, FS_CardinalityType, FS_EmptySet DEF Occurs
<1>. QED
  BY <1>3, <1>4 DEF Occurrences

LEMMA OccursAppend ==
  ASSUME NEW S, NEW s \in Seq(S), NEW e \in S, NEW T
  PROVE  Occurs(Append(s, e), T) = Occurs(s, T) + IF e \in T THEN 1 ELSE 0
<1> DEFINE n == Len(s)
           I == Occurrences(s, T)
<1>1. /\ n \in Nat /\ DOMAIN s = 1 .. n /\ DOMAIN Append(s, e) = 1 .. n + 1
      /\ \A i \in 1 .. n : Append(s, e)[i] = s[i]
      /\ Append(s, e)[n + 1] = e
  BY AppendFacts
<1>2. 1 .. n + 1 = (1 .. n) \cup {n + 1} /\ n + 1 \notin 1 .. n
  BY <1>1
<1>3. Occurrences(Append(s, e), T) = IF e \in T THEN I \cup {n + 1} ELSE I
  BY <1>1, <1>2 DEF Occurrences
<1>4. IsFiniteSet(I) /\ Cardinality(I) \in Nat /\ n + 1 \notin I
  BY <1>1, <1>2, OccursFinite DEF Occurrences, Occurs
<1>5. Cardinality(I \cup {n + 1}) = Cardinality(I) + 1
  BY <1>4, FS_AddElement
<1>. QED
  BY <1>3, <1>4, <1>5 DEF Occurs

LEMMA OccursTail ==
  ASSUME NEW S, NEW s \in Seq(S), s # <<>>, NEW T
  PROVE  Occurs(s, T) = Occurs(Tail(s), T) + IF Head(s) \in T THEN 1 ELSE 0
<1> DEFINE n == Len(s)
           I == Occurrences(Tail(s), T)
           J == Occurrences(s, T) \ {1}
           f == [i \in I |-> i + 1]
<1>1. /\ n \in Nat /\ n > 0 /\ DOMAIN s = 1 .. n /\ DOMAIN Tail(s) = 1 .. n - 1
      /\ \A i \in 1 .. n - 1 : Tail(s)[i] = s[i + 1]
      /\ Head(s) = s[1] /\ Tail(s) \in Seq(S)
  BY TailFacts
<1>2. I \subseteq 1 .. n - 1 /\ J \subseteq 2 .. n
  BY <1>1 DEF Occurrences
<1>3. \A i \in I : i + 1 \in J
  BY <1>1 DEF Occurrences
<1>4. \A j \in J : j - 1 \in I /\ j = (j - 1) + 1
  <2>1. TAKE j \in J
  <2>2. j \in 2 .. n /\ s[j] \in T
    BY <1>2, <2>1 DEF Occurrences
  <2>3. j - 1 \in 1 .. n - 1 /\ (j - 1) + 1 = j
    BY <1>1, <2>2
  <2>. QED
    BY <1>1, <2>2, <2>3 DEF Occurrences
<1>5. f \in Bijection(I, J)
  <2>1. f \in [I -> J]
    BY <1>3
  <2>2. \A a, b \in I : f[a] = f[b] => a = b
    <3>1. \A a, b \in 1 .. n - 1 : a + 1 = b + 1 => a = b
      BY <1>1
    <3>. QED
      BY <1>2, <3>1
  <2>3. \A j \in J : \E i \in I : f[i] = j
    <3>1. TAKE j \in J
    <3>2. j - 1 \in I /\ f[j - 1] = j
      BY <1>4
    <3>. QED
      BY <3>2
  <2>. HIDE DEF f, I, J
  <2>. QED
    BY <2>1, <2>2, <2>3 DEF Bijection, Injection, Surjection, IsInjective
<1>6. IsFiniteSet(I) /\ IsFiniteSet(Occurrences(s, T)) /\ Cardinality(Occurrences(s, T)) \in Nat
  BY <1>1, OccursFinite DEF Occurs
<1>7. Cardinality(J) = Cardinality(I)
  BY <1>5, <1>6, FS_Bijection DEF ExistsBijection
<1>8. Cardinality(J) = Cardinality(Occurrences(s, T)) - IF 1 \in Occurrences(s, T) THEN 1 ELSE 0
  <2>1. Cardinality(J) = IF 1 \in Occurrences(s, T) THEN Cardinality(Occurrences(s, T)) - 1
                         ELSE Cardinality(Occurrences(s, T))
    BY ONLY <1>6, FS_RemoveElement
  <2>. QED
    BY <1>6, <2>1
<1>9. 1 \in Occurrences(s, T) <=> Head(s) \in T
  BY <1>1 DEF Occurrences
<1>10. Occurs(s, T) \in Nat
  BY OccursFinite
<1>11. Occurs(s, T) = Cardinality(Occurrences(s, T)) /\ Occurs(Tail(s), T) = Cardinality(I)
  BY DEF Occurs
<1>. HIDE DEF I, J, f, n
<1>. QED
  BY <1>6, <1>7, <1>8, <1>9, <1>10, <1>11

-----------------------------------------------------------------------------
(* Loops                                                                   *)

\* A set of natural numbers has a least one.
LEMMA Least ==
  ASSUME NEW T \in SUBSET Nat, T # {}
  PROVE  \E n \in T : \A m \in T : n <= m
<1> DEFINE R == {ss \in Nat \X Nat : ss[1] < ss[2]}
<1>1. IsWellFoundedOn(R, Nat)
  BY NatLessThanWellFounded DEF OpToRel
<1>2. T \subseteq Nat
  OBVIOUS
<1>3. \A x, y \in Nat : <<y, x>> \in R <=> y < x
  OBVIOUS
<1>. HIDE DEF R
<1>4. \E x \in T : \A y \in T : ~ (<<y, x>> \in R)
  BY <1>1, <1>2, WFMin
<1>5. PICK x \in T : \A y \in T : ~ (<<y, x>> \in R)
  BY <1>4
<1>6. \A y \in T : x <= y
  <2>1. TAKE y \in T
  <2>2. x \in Nat /\ y \in Nat
    BY <1>2
  <2>3. ~(y < x)
    BY <1>3, <1>5, <2>2
  <2>. QED
    BY <2>2, <2>3
<1>. QED
  BY <1>6

\* What holds at the start of a count and goes on to the next number holds
\* throughout.
LEMMA Throughout ==
  ASSUME NEW n \in Nat, NEW T, 0 \in T,
         \A k \in 1 .. n : k - 1 \in T => k \in T
  PROVE  0 .. n \subseteq T
<1>1. SUFFICES ASSUME (0 .. n) \ T # {} PROVE FALSE
  OBVIOUS
<1>2. PICK m \in (0 .. n) \ T : \A k \in (0 .. n) \ T : m <= k
  <2>1. (0 .. n) \ T \in SUBSET Nat
    OBVIOUS
  <2>. QED
    BY <1>1, <2>1, Least
<1>3. m \in 1 .. n /\ m - 1 \in 0 .. n /\ ~(m <= m - 1)
  <2>1. m # 0
    OBVIOUS
  <2>. QED
    BY <2>1
<1>4. m - 1 \in T
  BY <1>2, <1>3
<1>. QED
  BY <1>3, <1>4

\* g has what a loop has before its first turn and after every one.
Turns(g, n, first, turn) ==
  g[0] = first /\ \A i \in 1 .. n : g[i] = turn[i][g[i - 1]]

\* There is what a loop has after every turn.
LEMMA LoopRuns ==
  ASSUME NEW n \in Nat, NEW S, NEW first \in S, NEW turn \in [1 .. n -> [S -> S]]
  PROVE  \E g \in [0 .. n -> S] : Turns(g, n, first, turn)
<1> USE DEF Turns
<1> DEFINE Ran(k) == \E g \in [0 .. k -> S] : Turns(g, k, first, turn)
           T == {k \in 0 .. n : Ran(k)}
<1>1. Ran(0)
  <2>1. [i \in 0 .. 0 |-> first] \in [0 .. 0 -> S] /\ Turns([i \in 0 .. 0 |-> first], 0, first, turn)
    OBVIOUS
  <2>. QED
    BY <2>1
<1>2. ASSUME NEW k \in 1 .. n, Ran(k - 1) PROVE Ran(k)
  <2>1. PICK g \in [0 .. k - 1 -> S] : Turns(g, k - 1, first, turn)
    BY <1>2
  <2>2. g[k - 1] \in S /\ turn[k] \in [S -> S]
    OBVIOUS
  <2>3. PICK s \in S : s = turn[k][g[k - 1]]
    BY <2>2
  <2>4. PICK h : h = [i \in 0 .. k |-> IF i = k THEN s ELSE g[i]]
    OBVIOUS
  <2>5. h \in [0 .. k -> S] /\ h[k] = s /\ \A i \in 0 .. k - 1 : h[i] = g[i]
    BY <2>4
  <2>6. h[0] = first
    BY <2>1, <2>5
  <2>7. ASSUME NEW i \in 1 .. k PROVE h[i] = turn[i][h[i - 1]]
    <3>1. CASE i = k
      BY <2>3, <2>5, <3>1
    <3>2. CASE i # k
      <4>1. i \in 1 .. k - 1 /\ i \in 0 .. k - 1 /\ i - 1 \in 0 .. k - 1
        BY <3>2
      <4>. QED
        BY <2>1, <2>5, <4>1
    <3>. QED
      BY <3>1, <3>2
  <2>8. Turns(h, k, first, turn)
    BY <2>6, <2>7
  <2>. QED
    BY <2>5, <2>8
<1>. HIDE DEF Ran
<1>3. 0 \in T /\ \A k \in 1 .. n : k - 1 \in T => k \in T
  <2>1. 0 \in 0 .. n /\ \A k \in 1 .. n : k \in 0 .. n
    OBVIOUS
  <2>. QED
    BY <1>1, <1>2, <2>1
<1>4. 0 .. n \subseteq T
  <2>. HIDE DEF T
  <2>. QED
    BY <1>3, Throughout
<1>5. Ran(n)
  BY <1>4
<1>. QED
  BY <1>5 DEF Ran
===============================================================================
