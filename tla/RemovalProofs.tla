---------------------------- MODULE RemovalProofs ----------------------------
(***************************************************************************)
(* What Without computes for every queue, what is left of the messages     *)
(* and of their numbers when a queue is thinned, and induction over a      *)
(* range of numbers in the form the other proofs use it: about a set       *)
(* instead of a predicate, from the well-foundedness of < on Nat.          *)
(***************************************************************************)
EXTENDS Removal, WellFoundedInduction, SequenceTheorems, FiniteSetTheorems, TLAPS

Below == OpToRel(<, Nat)

\* A set of numbers that is not empty has a least element.
LEMMA LeastNumber ==
  ASSUME NEW S, S \subseteq Nat, S # {}
  PROVE  \E m \in S : \A k \in S : m <= k
<1>1. IsWellFoundedOn(Below, Nat)
  BY NatLessThanWellFounded DEF Below
<1>2. PICK m \in S : \A k \in S : <<k, m>> \notin Below
  BY <1>1, WFMin
<1>3. ASSUME NEW x \in Nat, NEW y \in Nat PROVE <<x, y>> \in Below <=> x < y
  BY DEF Below, OpToRel
<1>4. ASSUME NEW k \in S PROVE m <= k
  <2>1. k \in Nat /\ m \in Nat /\ ~(k < m)
    BY <1>2, <1>3
  <2> QED
    BY <2>1
<1> QED
  BY <1>4

\* Induction over 0 .. n.
LEMMA RangeInduction ==
  ASSUME NEW n \in Nat, NEW T, 0 \in T,
         \A i \in 0 .. n - 1 : i \in T => i + 1 \in T
  PROVE  \A i \in 0 .. n : i \in T
<1> SUFFICES ASSUME (0 .. n) \ T # {} PROVE FALSE
  OBVIOUS
<1>1. PICK m \in (0 .. n) \ T : \A k \in (0 .. n) \ T : m <= k
  <2>1. (0 .. n) \ T \subseteq Nat
    OBVIOUS
  <2> QED
    BY <2>1, LeastNumber, Zenon
<1>2. m - 1 \in 0 .. n - 1 /\ m - 1 \in T
  BY <1>1
<1> QED
  BY <1>1, <1>2

\* A recursion over 0 .. n whose step is a function has a solution.
Recurs(f, n, first, step) ==
  f = [i \in 0 .. n |-> IF i = 0 THEN first ELSE step[<<i, f[i - 1]>>]]

LEMMA RecursionHasSolution ==
  ASSUME NEW n \in Nat, NEW V, NEW first \in V, NEW step \in [(1 .. n) \X V -> V]
  PROVE  \E f \in [0 .. n -> V] : Recurs(f, n, first, step)
<1> DEFINE Solves(m, f) == /\ f \in [0 .. m -> V] /\ f[0] = first
                           /\ \A i \in 1 .. m : f[i] = step[<<i, f[i - 1]>>]
           T == {m \in 0 .. n : \E f : Solves(m, f)}
<1>1. 0 \in T
  <2>1. Solves(0, [i \in 0 .. 0 |-> first])
    OBVIOUS
  <2> HIDE DEF Solves
  <2> QED
    BY <2>1
<1>2. ASSUME NEW m \in 0 .. n - 1, m \in T PROVE m + 1 \in T
  <2>1. PICK f : Solves(m, f)
    BY <1>2
  <2> DEFINE g == [i \in 0 .. m + 1 |-> IF i <= m THEN f[i] ELSE step[<<m + 1, f[m]>>]]
  <2>2. g \in [0 .. m + 1 -> V] /\ g[0] = first
    BY <2>1
  <2>3. ASSUME NEW i \in 1 .. m + 1 PROVE g[i] = step[<<i, g[i - 1]>>]
    BY <2>1
  <2>4. Solves(m + 1, g)
    BY <2>2, <2>3
  <2> HIDE DEF Solves
  <2> QED
    BY <2>4
<1>3. n \in T
  <2> HIDE DEF T
  <2> QED
    BY <1>1, <1>2, RangeInduction
<1>4. PICK f : Solves(n, f)
  BY <1>3
<1>5. Recurs(f, n, first, step)
  BY <1>4 DEF Recurs
<1> QED
  BY <1>4, <1>5

-----------------------------------------------------------------------------

\* The recursion of Without, for one queue and one set.
Retains(f, s, dropped) ==
  f = [i \in 0 .. Len(s) |->
         IF i = 0 THEN <<>>
         ELSE IF s[i] \in dropped THEN f[i - 1]
         ELSE Append(f[i - 1], s[i])]

LEMMA RetainsHasSolution ==
  ASSUME NEW X, NEW s \in Seq(X), NEW dropped
  PROVE  \E f \in [0 .. Len(s) -> Seq(X)] : Retains(f, s, dropped)
<1> DEFINE step == [p \in (1 .. Len(s)) \X Seq(X) |->
                      IF s[p[1]] \in dropped THEN p[2] ELSE Append(p[2], s[p[1]])]
<1>1. step \in [(1 .. Len(s)) \X Seq(X) -> Seq(X)]
  OBVIOUS
<1>2. PICK f \in [0 .. Len(s) -> Seq(X)] : Recurs(f, Len(s), <<>>, step)
  <2>1. Len(s) \in Nat /\ <<>> \in Seq(X)
    OBVIOUS
  <2> HIDE DEF step
  <2> QED
    BY <1>1, <2>1, RecursionHasSolution
<1>3. ASSUME NEW i \in 0 .. Len(s), i # 0
      PROVE  step[<<i, f[i - 1]>>]
               = IF s[i] \in dropped THEN f[i - 1] ELSE Append(f[i - 1], s[i])
  <2>1. i \in 1 .. Len(s) /\ i - 1 \in 0 .. Len(s)
    BY <1>3
  <2>2. <<i, f[i - 1]>> \in (1 .. Len(s)) \X Seq(X)
    BY <1>2, <2>1
  <2> QED
    BY <2>2
<1> HIDE DEF step
<1>4. Retains(f, s, dropped)
  BY <1>2, <1>3 DEF Retains, Recurs
<1> QED
  BY <1>4

\* So Without is the last value of a function that satisfies the recursion.
Unfolds(f, X, s, dropped) ==
  /\ f \in [0 .. Len(s) -> Seq(X)]
  /\ f[0] = <<>>
  /\ \A i \in 1 .. Len(s) :
       f[i] = IF s[i] \in dropped THEN f[i - 1] ELSE Append(f[i - 1], s[i])
  /\ Without(s, dropped) = f[Len(s)]

LEMMA WithoutRecursion ==
  ASSUME NEW X, NEW s \in Seq(X), NEW dropped
  PROVE  \E f : Unfolds(f, X, s, dropped)
<1> DEFINE f == CHOOSE g : Retains(g, s, dropped)
<1>1. Retains(f, s, dropped)
  BY RetainsHasSolution, Zenon
<1>2. Without(s, dropped) = f[Len(s)]
  BY DEF Without, Retains
<1> HIDE DEF f
<1>3. /\ f[0] = <<>>
      /\ \A i \in 1 .. Len(s) :
           f[i] = IF s[i] \in dropped THEN f[i - 1] ELSE Append(f[i - 1], s[i])
  <2>1. /\ 0 \in 0 .. Len(s)
        /\ \A i \in 1 .. Len(s) : i \in 0 .. Len(s) /\ i # 0
    OBVIOUS
  <2> QED
    BY <1>1, <2>1, Zenon DEF Retains
<1> DEFINE T == {i \in 0 .. Len(s) : f[i] \in Seq(X)}
<1>4. \A i \in 0 .. Len(s) : i \in T
  <2>1. 0 \in T
    <3>1. 0 \in 0 .. Len(s) /\ <<>> \in Seq(X)
      OBVIOUS
    <3> QED
      BY <1>3, <3>1
  <2>2. ASSUME NEW i \in 0 .. Len(s) - 1, i \in T PROVE i + 1 \in T
    <3>1. /\ i + 1 \in 1 .. Len(s) /\ i + 1 \in 0 .. Len(s) /\ (i + 1) - 1 = i
          /\ s[i + 1] \in X /\ f[i] \in Seq(X)
      BY <2>2
    <3>2. f[i + 1] = IF s[i + 1] \in dropped THEN f[i] ELSE Append(f[i], s[i + 1])
      BY <1>3, <3>1
    <3>3. f[i + 1] \in Seq(X)
      BY <3>1, <3>2, AppendProperties
    <3> QED
      BY <3>1, <3>3
  <2> HIDE DEF T
  <2> QED
    BY <2>1, <2>2, RangeInduction
<1>5. f \in [0 .. Len(s) -> Seq(X)]
  BY <1>1, <1>4 DEF Retains
<1> QED
  BY <1>2, <1>3, <1>5 DEF Unfolds

-----------------------------------------------------------------------------

\* A removal makes no message up: what is left is a queue of the same kind.
LEMMA WithoutIsSeq ==
  ASSUME NEW X, NEW s \in Seq(X), NEW dropped
  PROVE  Without(s, dropped) \in Seq(X)
<1>1. PICK f : Unfolds(f, X, s, dropped)
  BY WithoutRecursion
<1>2. Len(s) \in 0 .. Len(s)
  OBVIOUS
<1> QED
  BY <1>1, <1>2 DEF Unfolds

\* The messages of a sequence.
Elements(s) == {s[i] : i \in 1 .. Len(s)}

LEMMA ElementsAppend ==
  ASSUME NEW X, NEW s \in Seq(X), NEW e \in X
  PROVE  Elements(Append(s, e)) = Elements(s) \union {e}
<1>1. /\ Len(Append(s, e)) = Len(s) + 1
      /\ \A i \in 1 .. Len(s) : Append(s, e)[i] = s[i]
      /\ Append(s, e)[Len(s) + 1] = e
      /\ Len(s) \in Nat
  BY AppendProperties, LenProperties
<1>2. ASSUME NEW x \in Elements(Append(s, e)) PROVE x \in Elements(s) \union {e}
  BY <1>1 DEF Elements
<1>3. ASSUME NEW x \in Elements(s) \union {e} PROVE x \in Elements(Append(s, e))
  <2>1. CASE x = e
    <3>1. Len(s) + 1 \in 1 .. Len(Append(s, e))
      BY <1>1
    <3> QED
      BY <1>1, <2>1, <3>1 DEF Elements
  <2>2. CASE x # e
    BY <1>1, <1>3, <2>2 DEF Elements
  <2> QED
    BY <2>1, <2>2
<1> QED
  BY <1>2, <1>3

LEMMA ElementsTail ==
  ASSUME NEW X, NEW s \in Seq(X), s # <<>>
  PROVE  Tail(s) \in Seq(X) /\ Elements(s) = Elements(Tail(s)) \union {s[1]}
<1>1. /\ Len(s) \in Nat \ {0} /\ Tail(s) \in Seq(X) /\ Len(Tail(s)) = Len(s) - 1
      /\ \A i \in 1 .. Len(Tail(s)) : Tail(s)[i] = s[i + 1] /\ i + 1 \in 1 .. Len(s)
  BY HeadTailProperties, LenProperties, EmptySeq
<1>2. ASSUME NEW x \in Elements(s) PROVE x \in Elements(Tail(s)) \union {s[1]}
  <2>1. PICK i \in 1 .. Len(s) : x = s[i]
    BY DEF Elements
  <2>2. CASE i # 1
    <3>1. i - 1 \in 1 .. Len(Tail(s)) /\ (i - 1) + 1 = i
      BY <1>1, <2>2
    <3> QED
      BY <1>1, <2>1, <3>1 DEF Elements
  <2> QED
    BY <2>1, <2>2
<1>3. Elements(Tail(s)) \union {s[1]} \subseteq Elements(s)
  BY <1>1 DEF Elements
<1> QED
  BY <1>1, <1>2, <1>3

\* Exactly the messages that are not dropped stay.
LEMMA WithoutElements ==
  ASSUME NEW X, NEW s \in Seq(X), NEW dropped
  PROVE  Elements(Without(s, dropped)) = Elements(s) \ dropped
<1>u. PICK f : Unfolds(f, X, s, dropped)
  BY WithoutRecursion
<1>1. /\ f \in [0 .. Len(s) -> Seq(X)]
      /\ f[0] = <<>>
      /\ \A i \in 1 .. Len(s) :
           f[i] = IF s[i] \in dropped THEN f[i - 1] ELSE Append(f[i - 1], s[i])
      /\ Without(s, dropped) = f[Len(s)]
  BY <1>u DEF Unfolds
<1> DEFINE Prefix(i) == {s[j] : j \in 1 .. i} \ dropped
           T == {i \in 0 .. Len(s) : Elements(f[i]) = Prefix(i)}
<1>2. 0 \in T
  BY <1>1 DEF Elements
<1>3. ASSUME NEW i \in 0 .. Len(s) - 1, i \in T PROVE i + 1 \in T
  <2>1. /\ i + 1 \in 1 .. Len(s) /\ i + 1 \in 0 .. Len(s) /\ (i + 1) - 1 = i
        /\ s[i + 1] \in X /\ f[i] \in Seq(X)
    BY <1>1, <1>3
  <2>2. f[i + 1] = IF s[i + 1] \in dropped THEN f[i] ELSE Append(f[i], s[i + 1])
    BY <1>1, <2>1
  <2>3. {s[j] : j \in 1 .. i + 1} = {s[j] : j \in 1 .. i} \union {s[i + 1]}
    <3>1. 1 .. i + 1 = (1 .. i) \union {i + 1}
      OBVIOUS
    <3> QED
      BY <3>1
  <2>4. Elements(f[i]) = {s[j] : j \in 1 .. i} \ dropped
    BY <1>3
  <2>5. Elements(f[i + 1]) = {s[j] : j \in 1 .. i + 1} \ dropped
    <3>1. CASE s[i + 1] \in dropped
      BY <2>2, <2>3, <2>4, <3>1
    <3>2. CASE s[i + 1] \notin dropped
      BY <2>1, <2>2, <2>3, <2>4, <3>2, ElementsAppend
    <3> QED
      BY <3>1, <3>2
  <2> QED
    BY <2>1, <2>5
<1>4. Len(s) \in T
  <2>1. Len(s) \in Nat /\ Len(s) \in 0 .. Len(s)
    OBVIOUS
  <2> HIDE DEF T
  <2> QED
    BY <1>2, <1>3, <2>1, RangeInduction
<1> QED
  BY <1>1, <1>4 DEF Elements

\* The first message, when no other is dropped, leaves the tail.
LEMMA WithoutHead ==
  ASSUME NEW X, NEW s \in Seq(X), s # <<>>, NEW dropped, s[1] \in dropped,
         \A i \in 2 .. Len(s) : s[i] \notin dropped
  PROVE  Without(s, dropped) = Tail(s)
<1>u. PICK f : Unfolds(f, X, s, dropped)
  BY WithoutRecursion
<1>1. /\ f \in [0 .. Len(s) -> Seq(X)]
      /\ f[0] = <<>>
      /\ \A i \in 1 .. Len(s) :
           f[i] = IF s[i] \in dropped THEN f[i - 1] ELSE Append(f[i - 1], s[i])
      /\ Without(s, dropped) = f[Len(s)]
  BY <1>u DEF Unfolds
<1>2. Len(s) \in Nat \ {0}
  OBVIOUS
<1> DEFINE T == {k \in 0 .. Len(s) - 1 : f[k + 1] = SubSeq(s, 2, k + 1)}
<1>3. 0 \in T
  <2>1. f[1] = <<>>
    <3>1. 1 \in 1 .. Len(s) /\ 1 - 1 = 0
      BY <1>2
    <3>2. f[1] = f[1 - 1]
      BY <1>1, <3>1
    <3> QED
      BY <1>1, <3>1, <3>2
  <2>2. SubSeq(s, 2, 1) = <<>>
    BY SubSeqEmpty
  <2>3. 0 \in 0 .. Len(s) - 1 /\ 0 + 1 = 1
    BY <1>2
  <2>4. f[0 + 1] = SubSeq(s, 2, 0 + 1)
    BY <2>1, <2>2, <2>3
  <2> QED
    BY <2>3, <2>4
<1>4. ASSUME NEW k \in 0 .. (Len(s) - 1) - 1, k \in T PROVE k + 1 \in T
  <2>1. f[k + 2] = Append(f[k + 1], s[k + 2])
    <3>1. k + 2 \in 1 .. Len(s) /\ k + 2 \in 2 .. Len(s) /\ (k + 2) - 1 = k + 1
      BY <1>2
    <3> QED
      BY <1>1, <3>1
  <2>2. SubSeq(s, 2, k + 2) = Append(SubSeq(s, 2, k + 1), s[k + 2])
    <3>1. 2 \in 1 .. Len(s) /\ k + 2 \in 2 .. Len(s) /\ (k + 2) - 1 = k + 1
      BY <1>2
    <3>2. SubSeq(s, 2, k + 2) = SubSeq(s, 2, k + 1) \o <<s[k + 2]>>
      BY <3>1, SubSeqRecursiveSecond
    <3>3. SubSeq(s, 2, k + 1) \in Seq(X) /\ s[k + 2] \in X
      BY <3>1, SubSeqProperties
    <3> QED
      BY <3>2, <3>3, AppendIsConcat
  <2>3. f[k + 1] = SubSeq(s, 2, k + 1) /\ k + 1 \in 0 .. Len(s) - 1 /\ (k + 1) + 1 = k + 2
    BY <1>2, <1>4
  <2> QED
    BY <2>1, <2>2, <2>3
<1>5. Len(s) - 1 \in T
  <2>1. Len(s) - 1 \in Nat /\ Len(s) - 1 \in 0 .. Len(s) - 1
    BY <1>2
  <2> HIDE DEF T
  <2> QED
    BY <1>3, <1>4, <2>1, RangeInduction
<1>6. f[Len(s)] = SubSeq(s, 2, Len(s))
  BY <1>2, <1>5
<1> QED
  BY <1>1, <1>6, TailIsSubSeq

-----------------------------------------------------------------------------
(* How many messages of a sequence are of some kinds.                      *)

Places(s, kinds, n) == {i \in 1 .. n : s[i] \in kinds}
Count(s, kinds) == Cardinality(Places(s, kinds, Len(s)))
One(e, kinds) == IF e \in kinds THEN 1 ELSE 0

LEMMA PlacesFinite ==
  ASSUME NEW s, NEW kinds, NEW n \in Nat
  PROVE  IsFiniteSet(Places(s, kinds, n)) /\ Cardinality(Places(s, kinds, n)) \in Nat
<1>1. IsFiniteSet(1 .. n)
  BY FS_Interval
<1>2. Places(s, kinds, n) \in SUBSET (1 .. n)
  BY DEF Places
<1> QED
  BY <1>1, <1>2, FS_Subset, FS_CardinalityType

LEMMA PlacesGrow ==
  ASSUME NEW s, NEW kinds, NEW n \in Nat
  PROVE  Cardinality(Places(s, kinds, n + 1))
           = Cardinality(Places(s, kinds, n)) + One(s[n + 1], kinds)
<1>1. IsFiniteSet(Places(s, kinds, n)) /\ Cardinality(Places(s, kinds, n)) \in Nat
  BY PlacesFinite
<1>2. 1 .. n + 1 = (1 .. n) \union {n + 1} /\ n + 1 \notin 1 .. n
  OBVIOUS
<1>3. CASE s[n + 1] \in kinds
  <2>1. /\ Places(s, kinds, n + 1) = Places(s, kinds, n) \union {n + 1}
        /\ n + 1 \notin Places(s, kinds, n)
    BY <1>2, <1>3 DEF Places
  <2> QED
    BY <1>1, <1>3, <2>1, FS_AddElement DEF One
<1>4. CASE s[n + 1] \notin kinds
  <2>1. Places(s, kinds, n + 1) = Places(s, kinds, n)
    BY <1>2, <1>4 DEF Places
  <2> QED
    BY <1>1, <1>4, <2>1 DEF One
<1> QED
  BY <1>3, <1>4

LEMMA CountIsNat ==
  ASSUME NEW X, NEW s \in Seq(X), NEW kinds
  PROVE  Count(s, kinds) \in Nat
  BY PlacesFinite, LenProperties DEF Count

LEMMA CountAppend ==
  ASSUME NEW X, NEW s \in Seq(X), NEW e \in X, NEW kinds
  PROVE  Count(Append(s, e), kinds) = Count(s, kinds) + One(e, kinds)
<1> DEFINE t == Append(s, e)
<1>1. /\ Len(t) = Len(s) + 1 /\ Len(s) \in Nat
      /\ \A i \in 1 .. Len(s) : t[i] = s[i]
      /\ t[Len(s) + 1] = e
  BY AppendProperties, LenProperties
<1> HIDE DEF t
<1>2. Places(t, kinds, Len(s)) = Places(s, kinds, Len(s))
  BY <1>1 DEF Places
<1>3. Cardinality(Places(t, kinds, Len(s) + 1))
        = Cardinality(Places(t, kinds, Len(s))) + One(t[Len(s) + 1], kinds)
  BY <1>1, PlacesGrow
<1>4. Count(t, kinds) = Count(s, kinds) + One(e, kinds)
  BY <1>1, <1>2, <1>3 DEF Count
<1> QED
  BY <1>4 DEF t

\* The places of the tail, moved by one, are places of the sequence but the first.
LEMMA CountTail ==
  ASSUME NEW X, NEW s \in Seq(X), s # <<>>, NEW kinds
  PROVE  Count(Tail(s), kinds) + One(s[1], kinds) <= Count(s, kinds)
<1> DEFINE all == Places(s, kinds, Len(s))
           rest == Places(Tail(s), kinds, Len(Tail(s)))
           moved == [i \in rest |-> i + 1]
<1>1. /\ Len(s) \in Nat \ {0} /\ Len(Tail(s)) = Len(s) - 1 /\ Len(Tail(s)) \in Nat
      /\ \A i \in 1 .. Len(Tail(s)) : Tail(s)[i] = s[i + 1] /\ i + 1 \in 2 .. Len(s)
  BY HeadTailProperties, LenProperties, EmptySeq
<1>2. IsFiniteSet(all) /\ Cardinality(all) \in Nat
  BY <1>1, PlacesFinite
<1>3. IsFiniteSet(all \ {1}) /\ IsFiniteSet(rest) /\ Cardinality(rest) \in Nat
  BY <1>1, <1>2, PlacesFinite, FS_RemoveElement
<1>4. moved \in Injection(rest, all \ {1})
  <2>1. \A i \in rest : i \in Nat /\ i + 1 \in all \ {1}
    BY <1>1 DEF Places
  <2>2. \A i, j \in rest : i + 1 = j + 1 => i = j
    BY <2>1
  <2> QED
    BY <2>1, <2>2 DEF Injection, IsInjective
<1>5. Cardinality(rest) <= Cardinality(all \ {1})
  <2> HIDE DEF all, rest, moved
  <2> QED
    BY <1>3, <1>4, FS_Injection
<1>6. Cardinality(all \ {1}) = Cardinality(all) - One(s[1], kinds)
  <2>1. 1 \in all <=> s[1] \in kinds
    BY <1>1 DEF Places
  <2> HIDE DEF all
  <2>2. Cardinality(all \ {1})
          = IF 1 \in all THEN Cardinality(all) - 1 ELSE Cardinality(all)
    BY <1>2, FS_RemoveElement
  <2>3. CASE 1 \in all
    BY <2>1, <2>2, <2>3 DEF One
  <2>4. CASE 1 \notin all
    <3>1. \A n \in Nat : n - 0 = n
      OBVIOUS
    <3>2. One(s[1], kinds) = 0 /\ Cardinality(all \ {1}) = Cardinality(all)
      BY <2>1, <2>2, <2>4 DEF One
    <3> QED
      BY <1>2, <3>1, <3>2, Zenon
  <2> QED
    BY <2>3, <2>4
<1>7. Cardinality(rest) + One(s[1], kinds) <= Cardinality(all)
  <2>1. \A a, b, c \in Nat : \A n \in Nat : a <= b /\ b = c - n => a + n <= c
    OBVIOUS
  <2>2. One(s[1], kinds) \in Nat
    BY DEF One
  <2>3. Cardinality(all \ {1}) \in Nat
    BY <1>3, FS_CardinalityType
  <2> HIDE DEF all, rest
  <2> QED
    BY <1>2, <1>3, <1>5, <1>6, <2>1, <2>2, <2>3, Zenon
<1> QED
  BY <1>7 DEF Count

-----------------------------------------------------------------------------
(* A sequence t that has been made of s by taking messages out.            *)

Thins(t, s) ==
  \E g \in Injection(1 .. Len(t), 1 .. Len(s)) : \A i \in 1 .. Len(t) : t[i] = s[g[i]]

Single(s, e) == \A i, j \in 1 .. Len(s) : s[i] = e /\ s[j] = e => i = j

LEMMA ThinsElements ==
  ASSUME NEW s, NEW t, Thins(t, s)
  PROVE  /\ Elements(t) \subseteq Elements(s)
         /\ \A e : Single(s, e) => Single(t, e)
<1>1. PICK g \in Injection(1 .. Len(t), 1 .. Len(s)) : \A i \in 1 .. Len(t) : t[i] = s[g[i]]
  BY DEF Thins
<1>2. \A i \in 1 .. Len(t) : g[i] \in 1 .. Len(s)
  BY DEF Injection
<1>3. \A i, j \in 1 .. Len(t) : g[i] = g[j] => i = j
  BY DEF Injection, IsInjective
<1>4. Elements(t) \subseteq Elements(s)
  BY <1>1, <1>2 DEF Elements
<1>5. \A e : Single(s, e) => Single(t, e)
  BY <1>1, <1>2, <1>3 DEF Single
<1> QED
  BY <1>4, <1>5

\* No more messages of a kind are left than there were.
LEMMA ThinsCount ==
  ASSUME NEW X, NEW Y, NEW s \in Seq(X), NEW t \in Seq(Y), Thins(t, s), NEW kinds
  PROVE  Count(t, kinds) <= Count(s, kinds)
<1> DEFINE all == Places(s, kinds, Len(s))
           rest == Places(t, kinds, Len(t))
<1>1. PICK g \in Injection(1 .. Len(t), 1 .. Len(s)) : \A i \in 1 .. Len(t) : t[i] = s[g[i]]
  BY DEF Thins
<1> DEFINE moved == [i \in rest |-> g[i]]
<1>2. IsFiniteSet(all) /\ IsFiniteSet(rest)
  BY PlacesFinite, LenProperties
<1>3. moved \in Injection(rest, all)
  <2>1. \A i \in rest : i \in 1 .. Len(t) /\ t[i] \in kinds
    BY DEF Places
  <2>2. \A i \in rest : g[i] \in 1 .. Len(s) /\ s[g[i]] \in kinds
    BY <1>1, <2>1 DEF Injection
  <2>3. \A i \in rest : g[i] \in all
    BY <2>2 DEF Places
  <2>4. \A i, j \in rest : g[i] = g[j] => i = j
    BY <2>1 DEF Injection, IsInjective
  <2> HIDE DEF all, rest
  <2> QED
    BY <2>3, <2>4 DEF Injection, IsInjective
<1>4. Cardinality(rest) <= Cardinality(all)
  <2> HIDE DEF all, rest, moved
  <2> QED
    BY <1>2, <1>3, FS_Injection
<1> QED
  BY <1>4 DEF Count

\* The first n messages.
LEMMA PrefixThins ==
  ASSUME NEW X, NEW s \in Seq(X), NEW n \in 0 .. Len(s)
  PROVE  SubSeq(s, 1, n) \in Seq(X) /\ Thins(SubSeq(s, 1, n), s)
<1> DEFINE t == SubSeq(s, 1, n)
<1>1. Len(s) \in Nat /\ \A i \in 1 .. Len(s) : s[i] \in X
  BY ElementOfSeq, LenProperties
<1>2. 1 \in Int /\ n \in Int /\ \A i \in 1 .. n : s[i] \in X
  BY <1>1
<1>3. /\ t \in Seq(X) /\ Len(t) = IF 1 <= n THEN n - 1 + 1 ELSE 0
      /\ \A i \in 1 .. n - 1 + 1 : t[i] = s[1 + i - 1]
  BY <1>2, SubSeqProperties
<1> HIDE DEF t
<1>4. Len(t) = n /\ \A i \in 1 .. n : t[i] = s[i]
  BY <1>3
<1>5. Thins(t, s)
  <2> DEFINE g == [i \in 1 .. Len(t) |-> i]
  <2>1. g \in Injection(1 .. Len(t), 1 .. Len(s))
    BY <1>1, <1>4 DEF Injection, IsInjective
  <2>2. \A i \in 1 .. Len(t) : t[i] = s[g[i]]
    BY <1>4
  <2> HIDE DEF g
  <2> QED
    BY <2>1, <2>2 DEF Thins
<1> QED
  BY <1>3, <1>5 DEF t

=============
