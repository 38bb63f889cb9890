---------------------------- MODULE QueueLemmas ----------------------------
(***************************************************************************)
(* What the sequence operators the models use do to the elements of a       *)
(* queue.  Shared by the proof modules.                                    *)
(***************************************************************************)
EXTENDS Naturals, Integers, Sequences, SequencesExt, SequenceTheorems,
        WellFoundedInduction, TLAPS

-----------------------------------------------------------------------------
(* Induction, in the form the provers can use: a set of naturals has a least  *)
(* element.  A claim about every natural follows from the least one that     *)
(* would refute it.                                                        *)

LEMMA LeastOf ==
    ASSUME NEW T, T \subseteq Nat, T # {}
    PROVE  \E n \in T : \A m \in T : n <= m
  <1> DEFINE R == OpToRel(<, Nat)
  <1>1. IsWellFoundedOn(R, Nat)
    BY NatLessThanWellFounded
  <1>2. \A x, y \in Nat : x < y => <<x, y>> \in R
    BY DEF OpToRel
  <1> HIDE DEF R
  <1>3. \E x \in T : \A y \in T : ~(<<y, x>> \in R)
    BY <1>1, WFMin
  <1>4. PICK n \in T : \A m \in T : ~(<<m, n>> \in R)
    BY <1>3
  <1>5. ASSUME NEW m \in T PROVE n <= m
    <2>1. ~(m < n)
      BY <1>2, <1>4
    <2> QED
      BY <2>1
  <1> QED
    BY <1>5

\* A bounded set of naturals has a greatest element.
LEMMA GreatestOf ==
    ASSUME NEW T, T \subseteq Nat, T # {}, NEW bound \in Nat, \A n \in T : n <= bound
    PROVE  \E n \in T : \A m \in T : m <= n
  <1> DEFINE U == {bound - n : n \in T}
  <1>1. U \subseteq Nat /\ U # {}
    <2>1. \A n \in T : n \in Nat /\ bound - n \in Nat
      OBVIOUS
    <2> QED
      BY <2>1
  <1>2. PICK u \in U : \A v \in U : u <= v
    <2> HIDE DEF U
    <2> QED
      BY <1>1, LeastOf
  <1>3. PICK n \in T : u = bound - n
    OBVIOUS
  <1>4. ASSUME NEW m \in T PROVE m <= n
    <2>1. bound - m \in U
      OBVIOUS
    <2>2. bound - n <= bound - m
      BY <1>2, <1>3, <2>1
    <2> QED
      BY <2>2
  <1> QED
    BY <1>4

-----------------------------------------------------------------------------
(* The elements of a queue. *)

\* The elements of a queue are the values at its positions.
LEMMA ElementsOf ==
    ASSUME NEW M, NEW s \in Seq(M)
    PROVE  /\ ToSet(s) = {s[i] : i \in 1..Len(s)}
           /\ ToSet(s) \subseteq M
           /\ ToSet(s) # {} <=> s # <<>>
  <1>1. DOMAIN s = 1..Len(s) /\ Len(s) \in Nat /\ \A i \in 1..Len(s) : s[i] \in M
    BY LenProperties
  <1>2. s # <<>> => Len(s) \in Nat \ {0}
    BY EmptySeq
  <1>3. s = <<>> => Len(s) = 0
    BY EmptySeq
  <1>4. s # <<>> => s[1] \in ToSet(s)
    BY <1>1, <1>2 DEF ToSet
  <1>5. s = <<>> => ToSet(s) = {}
    BY <1>1, <1>3 DEF ToSet
  <1> QED
    BY <1>1, <1>4, <1>5 DEF ToSet

\* Concatenation joins the elements.
LEMMA ElementsOfConcat ==
    ASSUME NEW M, NEW s \in Seq(M), NEW t \in Seq(M)
    PROVE  /\ s \o t \in Seq(M)
           /\ ToSet(s \o t) = ToSet(s) \union ToSet(t)
  <1>1. /\ s \o t \in Seq(M)
        /\ Len(s \o t) = Len(s) + Len(t)
        /\ \A i \in 1 .. Len(s) + Len(t) :
              (s \o t)[i] = IF i <= Len(s) THEN s[i] ELSE t[i - Len(s)]
    BY ConcatProperties
  <1>2. Len(s) \in Nat /\ Len(t) \in Nat
    BY LenProperties
  <1>3. ToSet(s) = {s[i] : i \in 1..Len(s)}
    BY ElementsOf
  <1>4. ToSet(t) = {t[i] : i \in 1..Len(t)}
    BY ElementsOf
  <1>5. ToSet(s \o t) = {(s \o t)[i] : i \in 1..(Len(s) + Len(t))}
    <2> DEFINE st == s \o t
    <2>1. st \in Seq(M) /\ Len(st) = Len(s) + Len(t)
      BY <1>1
    <2> HIDE DEF st
    <2>2. ToSet(st) = {st[i] : i \in 1..Len(st)}
      BY <2>1, ElementsOf
    <2>3. ToSet(st) = {st[i] : i \in 1..(Len(s) + Len(t))}
      BY <2>1, <2>2
    <2> QED
      BY <2>3 DEF st
  <1>6. ToSet(s \o t) \subseteq ToSet(s) \union ToSet(t)
    <2> SUFFICES ASSUME NEW i \in 1..(Len(s) + Len(t))
                 PROVE  (s \o t)[i] \in ToSet(s) \union ToSet(t)
      BY <1>5
    <2>1. CASE i <= Len(s)
      BY <2>1, <1>1, <1>2, <1>3
    <2>2. CASE ~(i <= Len(s))
      <3>1. i - Len(s) \in 1..Len(t)
        BY <2>2, <1>2
      <3> QED
        BY <3>1, <2>2, <1>1, <1>2, <1>4
    <2> QED
      BY <2>1, <2>2
  <1>7. ToSet(s) \subseteq ToSet(s \o t)
    <2> SUFFICES ASSUME NEW i \in 1..Len(s)
                 PROVE  s[i] \in ToSet(s \o t)
      BY <1>3
    <2>1. i \in 1..(Len(s) + Len(t)) /\ (s \o t)[i] = s[i]
      BY <1>1, <1>2
    <2> QED
      BY <2>1, <1>5
  <1>8. ToSet(t) \subseteq ToSet(s \o t)
    <2> SUFFICES ASSUME NEW i \in 1..Len(t)
                 PROVE  t[i] \in ToSet(s \o t)
      BY <1>4
    <2>1. Len(s) + i \in 1..(Len(s) + Len(t)) /\ ~(Len(s) + i <= Len(s))
      BY <1>2
    <2>2. (s \o t)[Len(s) + i] = t[(Len(s) + i) - Len(s)]
      BY <1>1, <2>1
    <2>3. (Len(s) + i) - Len(s) = i
      BY <1>2
    <2> QED
      BY <2>1, <2>2, <2>3, <1>5
  <1> QED
    BY <1>1, <1>6, <1>7, <1>8

\* Appending adds exactly one element.
LEMMA ElementsOfAppend ==
    ASSUME NEW M, NEW s \in Seq(M), NEW m \in M
    PROVE  /\ Append(s, m) \in Seq(M)
           /\ ToSet(Append(s, m)) = ToSet(s) \union {m}
           /\ Append(s, m) # <<>>
  <1>1. Append(s, m) = s \o <<m>> /\ <<m>> \in Seq(M) /\ Append(s, m) \in Seq(M)
    OBVIOUS
  <1>2. ToSet(<<m>>) = {m}
    BY DEF ToSet
  <1>3. ToSet(Append(s, m)) = ToSet(s) \union {m}
    <2> DEFINE one == <<m>>
    <2>1. one \in Seq(M)
      BY <1>1
    <2> HIDE DEF one
    <2>2. ToSet(s \o one) = ToSet(s) \union ToSet(one)
      BY <2>1, ElementsOfConcat
    <2>3. ToSet(one) = {m}
      BY <1>2 DEF one
    <2>4. Append(s, m) = s \o one
      BY <1>1 DEF one
    <2> QED
      BY <2>2, <2>3, <2>4
  <1> QED
    BY <1>1, <1>3, ElementsOf

\* Removing a position adds no element.
LEMMA ElementsOfRemoveAt ==
    ASSUME NEW M, NEW s \in Seq(M), NEW i \in DOMAIN s
    PROVE  /\ RemoveAt(s, i) \in Seq(M)
           /\ ToSet(RemoveAt(s, i)) \subseteq ToSet(s)
  <1>1. DOMAIN s = 1..Len(s) /\ Len(s) \in Nat
    BY LenProperties
  <1>2. ToSet(s) = {s[j] : j \in 1..Len(s)}
    BY ElementsOf
  <1> DEFINE front == SubSeq(s, 1, i - 1)
             back  == SubSeq(s, i + 1, Len(s))
             E     == ToSet(s)
  <1>3. front \in Seq(E)
    BY <1>1, <1>2, SubSeqProperties
  <1>4. back \in Seq(E)
    BY <1>1, <1>2, SubSeqProperties
  <1>5. RemoveAt(s, i) = front \o back
    BY DEF RemoveAt
  <1>6. RemoveAt(s, i) \in Seq(E)
    BY <1>3, <1>4, <1>5, ConcatProperties
  <1>7. E \subseteq M
    BY ElementsOf
  <1>8. RemoveAt(s, i) \in Seq(M)
    BY <1>6, <1>7, SeqMonotonic
  <1>9. ToSet(RemoveAt(s, i)) \subseteq E
    BY <1>6, ElementsOf
  <1> QED
    BY <1>8, <1>9

\* The head is an element, and the tail has no other elements.
LEMMA ElementsOfTail ==
    ASSUME NEW M, NEW s \in Seq(M), s # <<>>
    PROVE  /\ Head(s) \in ToSet(s)
           /\ Tail(s) \in Seq(M)
           /\ ToSet(Tail(s)) \subseteq ToSet(s)
  <1>1. ToSet(s) = {s[j] : j \in 1..Len(s)}
    BY ElementsOf
  <1>2. Len(s) \in Nat \ {0} /\ Head(s) = s[1]
    BY EmptySeq
  <1>3. s \in Seq(ToSet(s))
    BY <1>1, LenProperties
  <1>4. Tail(s) \in Seq(M) /\ Tail(s) \in Seq(ToSet(s))
    BY <1>3, HeadTailProperties
  <1>5. ToSet(Tail(s)) \subseteq ToSet(s)
    BY <1>4, ElementsOf
  <1> QED
    BY <1>1, <1>2, <1>4, <1>5

\* Appending a new element keeps the elements distinct.
LEMMA DistinctAppend ==
    ASSUME NEW M, NEW s \in Seq(M), NEW m \in M, IsInjective(s), m \notin ToSet(s)
    PROVE  IsInjective(Append(s, m))
  <1>1. Len(s) \in Nat /\ DOMAIN s = 1..Len(s)
    BY LenProperties
  <1>2. DOMAIN Append(s, m) = 1..(Len(s) + 1)
    BY AppendProperties, <1>1
  <1>3. \A i \in 1..Len(s) : Append(s, m)[i] = s[i] /\ s[i] # m
    BY AppendProperties, <1>1 DEF ToSet
  <1>4. Append(s, m)[Len(s) + 1] = m
    BY AppendProperties
  <1>5. \A i \in 1..(Len(s) + 1) : i \in 1..Len(s) \/ i = Len(s) + 1
    BY <1>1
  <1>6. \A i, j \in 1..Len(s) : s[i] = s[j] => i = j
    BY <1>1 DEF IsInjective
  <1> QED
    BY <1>2, <1>3, <1>4, <1>5, <1>6 DEF IsInjective

\* The head of a queue without duplicates is not in its tail.
LEMMA DistinctTail ==
    ASSUME NEW M, NEW s \in Seq(M), s # <<>>, IsInjective(s)
    PROVE  IsInjective(Tail(s)) /\ Head(s) \notin ToSet(Tail(s))
  <1>1. Len(s) \in Nat \ {0} /\ DOMAIN s = 1..Len(s) /\ Head(s) = s[1]
    BY LenProperties, EmptySeq
  <1>2. /\ Tail(s) \in Seq(M) /\ Len(Tail(s)) = Len(s) - 1
        /\ \A i \in 1 .. Len(s) - 1 : Tail(s)[i] = s[i + 1]
    BY <1>1, HeadTailProperties
  <1>3. DOMAIN Tail(s) = 1 .. Len(s) - 1
    BY <1>2, LenProperties
  <1>4. \A i, j \in 1..Len(s) : s[i] = s[j] => i = j
    BY <1>1 DEF IsInjective
  <1>5. \A i \in 1 .. Len(s) - 1 : i + 1 \in 1..Len(s) /\ i + 1 # 1
    BY <1>1
  <1>6. IsInjective(Tail(s))
    BY <1>1, <1>2, <1>3, <1>4, <1>5 DEF IsInjective
  <1>7. Head(s) \notin ToSet(Tail(s))
    BY <1>1, <1>2, <1>3, <1>4, <1>5 DEF ToSet
  <1> QED
    BY <1>6, <1>7

\* Removing a position keeps the elements distinct.
LEMMA DistinctRemoveAt ==
    ASSUME NEW M, NEW s \in Seq(M), NEW i \in DOMAIN s, IsInjective(s)
    PROVE  IsInjective(RemoveAt(s, i))
  <1> DEFINE front == SubSeq(s, 1, i - 1)
             back  == SubSeq(s, i + 1, Len(s))
             Place(j) == IF j < i THEN j ELSE j + 1
  <1>1. Len(s) \in Nat /\ DOMAIN s = 1..Len(s) /\ i \in 1..Len(s)
    BY LenProperties
  <1>2. /\ front \in Seq(M) /\ Len(front) = i - 1
        /\ \A j \in 1 .. i - 1 : front[j] = s[j]
    BY <1>1, SubSeqProperties, ElementOfSeq
  <1>3. /\ back \in Seq(M) /\ Len(back) = Len(s) - i
        /\ \A j \in 1 .. Len(s) - i : back[j] = s[i + j]
    <2>1. i + 1 \in 1 .. Len(s) + 1 /\ Len(s) \in i .. Len(s)
      BY <1>1
    <2> QED
      BY <1>1, <2>1, SubSeqProperties, ElementOfSeq
  <1>4. /\ front \o back \in Seq(M) /\ Len(front \o back) = Len(s) - 1
        /\ \A j \in 1 .. Len(s) - 1 :
              (front \o back)[j] = IF j <= i - 1 THEN front[j] ELSE back[j - (i - 1)]
    <2> HIDE DEF front, back
    <2>1. /\ front \o back \in Seq(M) /\ Len(front \o back) = Len(front) + Len(back)
          /\ \A j \in 1 .. Len(front) + Len(back) :
                (front \o back)[j] = IF j <= Len(front) THEN front[j] ELSE back[j - Len(front)]
      BY <1>2, <1>3, ConcatProperties
    <2>2. Len(front) + Len(back) = Len(s) - 1
      BY <1>1, <1>2, <1>3
    <2> QED
      BY <1>2, <2>1, <2>2
  <1>5. DOMAIN RemoveAt(s, i) = 1 .. Len(s) - 1
    BY <1>4, LenProperties DEF RemoveAt
  <1>6. ASSUME NEW j \in 1 .. Len(s) - 1
        PROVE  RemoveAt(s, i)[j] = s[Place(j)] /\ Place(j) \in 1..Len(s)
    <2>1. CASE j < i
      <3>1. j \in 1 .. i - 1 /\ j <= i - 1
        BY <2>1, <1>1
      <3> QED
        BY <2>1, <3>1, <1>1, <1>2, <1>4 DEF RemoveAt
    <2>2. CASE ~(j < i)
      <3>1. j - (i - 1) \in 1 .. Len(s) - i /\ ~(j <= i - 1) /\ i + (j - (i - 1)) = j + 1
        BY <2>2, <1>1
      <3>2. back[j - (i - 1)] = s[i + (j - (i - 1))]
        BY <3>1, <1>3
      <3>3. (front \o back)[j] = back[j - (i - 1)]
        BY <3>1, <1>4
      <3>4. RemoveAt(s, i)[j] = s[j + 1]
        BY <3>1, <3>2, <3>3 DEF RemoveAt
      <3>5. j + 1 \in 1..Len(s)
        BY <1>1
      <3> QED
        BY <2>2, <3>4, <3>5
    <2> QED
      BY <2>1, <2>2
  <1>7. \A j, k \in 1 .. Len(s) - 1 : Place(j) = Place(k) => j = k
    BY <1>1
  <1>8. \A j, k \in 1..Len(s) : s[j] = s[k] => j = k
    BY <1>1 DEF IsInjective
  <1> HIDE DEF Place
  <1> QED
    BY <1>5, <1>6, <1>7, <1>8 DEF IsInjective
=============================================================================
