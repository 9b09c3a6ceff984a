--------------------------- MODULE SequenceLemmas ---------------------------
(***************************************************************************)
(* What the proofs of the other modules use about sequences, for sequences *)
(* in the sense of IsSequence.                                             *)
(***************************************************************************)
EXTENDS Lists, Integers, SequenceTheorems, WellFoundedInduction, TLAPS

\* A sequence, in the sense of IsSequence, is one over the set of its elements.
LEMMA SequenceOf == ASSUME NEW s, IsSequence(s) PROVE s \in Seq({s[i] : i \in 1..Len(s)})
  BY DEF IsSequence

\* And conversely.
LEMMA IsSequenceOf == ASSUME NEW S, NEW s \in Seq(S) PROVE IsSequence(s)
  BY LenProperties DEF IsSequence

\* <<x>> is a sequence of length 1.
LEMMA SingletonSequence == ASSUME NEW x PROVE IsSequence(<<x>>) /\ Len(<<x>>) = 1
  BY DEF IsSequence

\* <<>> is a sequence of length 0.
LEMMA EmptySequence == IsSequence(<<>>) /\ Len(<<>>) = 0
  BY EmptySeq, IsSequenceOf

\* The concatenation of two sequences is a sequence, and the lengths add up.
LEMMA ConcatSequences ==
  ASSUME NEW s, NEW t, IsSequence(s), IsSequence(t)
  PROVE  IsSequence(s \o t) /\ Len(s \o t) = Len(s) + Len(t)
<1> DEFINE S == {s[i] : i \in 1..Len(s)} \cup {t[i] : i \in 1..Len(t)}
<1>1. s \in Seq(S) /\ t \in Seq(S)
  BY DEF IsSequence
<1> HIDE DEF S
<1>2. s \o t \in Seq(S) /\ Len(s \o t) = Len(s) + Len(t)
  BY <1>1, ConcatProperties
<1> QED BY <1>2, IsSequenceOf

\* First the elements of the one, then those of the other.
LEMMA ConcatElements ==
  ASSUME NEW s, NEW t, IsSequence(s), IsSequence(t)
  PROVE  /\ \A i \in 1..Len(s) : (s \o t)[i] = s[i]
         /\ \A i \in 1..Len(t) : (s \o t)[Len(s) + i] = t[i]
<1> DEFINE S == {s[i] : i \in 1..Len(s)} \cup {t[i] : i \in 1..Len(t)}
<1>1. s \in Seq(S) /\ t \in Seq(S) /\ Len(s) \in Nat /\ Len(t) \in Nat
  BY DEF IsSequence
<1> HIDE DEF S
<1>2. \A i \in 1..Len(s) + Len(t) : (s \o t)[i] = IF i <= Len(s) THEN s[i] ELSE t[i - Len(s)]
  BY <1>1, ConcatProperties
<1>3. \A i \in 1..Len(s) : (s \o t)[i] = s[i]
  BY <1>1, <1>2
<1>4. ASSUME NEW i \in 1..Len(t) PROVE (s \o t)[Len(s) + i] = t[i]
  <2>1. Len(s) + i \in 1..Len(s) + Len(t) /\ ~(Len(s) + i <= Len(s)) /\ (Len(s) + i) - Len(s) = i
    BY <1>1
  <2> QED BY <1>2, <2>1
<1> QED BY <1>3, <1>4

\* A function on 1..n is a sequence of length n.
LEMMA FunctionSequence ==
  ASSUME NEW s, NEW n \in Nat, s = [i \in 1..n |-> s[i]]
  PROVE  IsSequence(s) /\ Len(s) = n
<1> DEFINE S == {s[i] : i \in 1..n}
<1>1. \A i \in 1..n : s[i] \in S
  OBVIOUS
<1> HIDE DEF S
<1>2. [i \in 1..n |-> s[i]] \in Seq(S)
  BY <1>1, IsASeq
<1>3. s \in Seq(S)
  BY <1>2, Zenon
<1>4. DOMAIN s = 1..n
  <2>1. DOMAIN [i \in 1..n |-> s[i]] = 1..n
    OBVIOUS
  <2> QED BY <2>1, Zenon
<1>5. Len(s) = n
  BY <1>3, <1>4, LenProperties
<1> QED BY <1>3, <1>5, IsSequenceOf

\* Append keeps what was there and adds x at the end.
LEMMA AppendSequence ==
  ASSUME NEW s, NEW x, IsSequence(s)
  PROVE  /\ IsSequence(Append(s, x))
         /\ Len(Append(s, x)) = Len(s) + 1
         /\ \A i \in 1..Len(s) : Append(s, x)[i] = s[i]
         /\ Append(s, x)[Len(s) + 1] = x
<1> DEFINE S == {s[i] : i \in 1..Len(s)} \cup {x}
<1>1. s \in Seq(S) /\ x \in S
  BY DEF IsSequence
<1> HIDE DEF S
<1>2. /\ Append(s, x) \in Seq(S)
      /\ Len(Append(s, x)) = Len(s) + 1
      /\ \A i \in 1..Len(s) : Append(s, x)[i] = s[i]
      /\ Append(s, x)[Len(s) + 1] = x
  BY <1>1, AppendProperties
<1> QED BY <1>2, IsSequenceOf

\* Changing a sequence at one place, inside or outside its domain, keeps its length.
LEMMA ExceptSequence ==
  ASSUME NEW s, NEW i, NEW x, IsSequence(s)
  PROVE  IsSequence([s EXCEPT ![i] = x]) /\ Len([s EXCEPT ![i] = x]) = Len(s)
<1>1. CASE i \in 1..Len(s)
  <2> DEFINE S == {s[j] : j \in 1..Len(s)} \cup {x}
  <2>1. s \in Seq(S) /\ x \in S
    BY DEF IsSequence
  <2> HIDE DEF S
  <2>2. [s EXCEPT ![i] = x] \in Seq(S) /\ Len([s EXCEPT ![i] = x]) = Len(s)
    BY <1>1, <2>1, ExceptSeq
  <2> QED BY <2>2, IsSequenceOf
<1>2. CASE i \notin 1..Len(s)
  <2>1. [s EXCEPT ![i] = x] = s
    BY <1>2 DEF IsSequence
  <2> QED BY <2>1
<1> QED BY <1>1, <1>2

\* The beginning of a sequence, up to its n-th element.
LEMMA PrefixSequence ==
  ASSUME NEW s, IsSequence(s), NEW n \in Nat, n <= Len(s)
  PROVE  /\ IsSequence(SubSeq(s, 1, n))
         /\ Len(SubSeq(s, 1, n)) = n
         /\ \A i \in 1..n : SubSeq(s, 1, n)[i] = s[i]
<1> DEFINE S == {s[i] : i \in 1..Len(s)}
<1>1. \A i \in 1..n : s[i] \in S
  BY DEF IsSequence
<1> HIDE DEF S
<1>2. /\ SubSeq(s, 1, n) \in Seq(S)
      /\ Len(SubSeq(s, 1, n)) = n
      /\ \A i \in 1..n : SubSeq(s, 1, n)[i] = s[i]
  BY <1>1, SubSeqProperties
<1> QED BY <1>2, IsSequenceOf

\* Sequences of one length with the same elements are the same.
LEMMA SameSequence ==
  ASSUME NEW s, NEW t, IsSequence(s), IsSequence(t), Len(s) = Len(t),
         \A i \in 1..Len(s) : s[i] = t[i]
  PROVE  s = t
  BY DEF IsSequence

\* The domain of a sequence.
LEMMA DomainOfSequence ==
  ASSUME NEW s, IsSequence(s)
  PROVE  DOMAIN s = 1..Len(s)
<1>1. s = [i \in 1..Len(s) |-> s[i]]
  BY DEF IsSequence
<1> QED BY <1>1, Zenon

\* What was there before an append is a prefix of what is there after it.
LEMMA PrefixOfAppend ==
  ASSUME NEW s, IsSequence(s), NEW x, NEW n \in Nat, n <= Len(s)
  PROVE  SubSeq(Append(s, x), 1, n) = SubSeq(s, 1, n)
<1>1. IsSequence(Append(s, x)) /\ Len(Append(s, x)) = Len(s) + 1 /\ \A i \in 1..Len(s) : Append(s, x)[i] = s[i]
  BY AppendSequence
<1>2. n <= Len(Append(s, x))
  BY <1>1 DEF IsSequence
<1>3. \A i \in 1..n : SubSeq(Append(s, x), 1, n)[i] = SubSeq(s, 1, n)[i]
  BY <1>1, <1>2, PrefixSequence DEF IsSequence
<1> QED BY <1>1, <1>2, <1>3, PrefixSequence, SameSequence

\* The whole of a sequence.
LEMMA WholeSequence ==
  ASSUME NEW s, IsSequence(s)
  PROVE  SubSeq(s, 1, Len(s)) = s
<1>1. Len(s) \in Nat /\ Len(s) <= Len(s)
  BY DEF IsSequence
<1>2. /\ IsSequence(SubSeq(s, 1, Len(s)))
      /\ Len(SubSeq(s, 1, Len(s))) = Len(s)
      /\ \A i \in 1..Len(s) : SubSeq(s, 1, Len(s))[i] = s[i]
  BY <1>1, PrefixSequence
<1> QED BY <1>2, SameSequence

\* A set of places of a sequence that is not empty has a last one: the distances
\* to the end have a least one.
LEMMA Greatest ==
  ASSUME NEW n \in Nat, NEW S \in SUBSET (1..n), S # {}
  PROVE  \E x \in S : \A y \in S : y <= x
<1> DEFINE Below == {x \in Nat \X Nat : x[1] < x[2]}
           Distances == {n - i : i \in S}
<1>1. IsWellFoundedOn(Below, Nat)
  <2>1. OpToRel(<, Nat) = Below
    BY DEF OpToRel
  <2> QED BY <2>1, NatLessThanWellFounded, Zenon
<1>2. Distances \in SUBSET Nat /\ Distances # {}
  <2>1. \A i \in S : n - i \in Nat
    OBVIOUS
  <2>2. PICK i \in S : TRUE
    OBVIOUS
  <2>3. n - i \in Distances
    BY <2>2
  <2> QED BY <2>1, <2>3
<1> HIDE DEF Distances
<1>3. \E d \in Distances : \A e \in Distances : ~(<<e, d>> \in Below)
  <2> HIDE DEF Below
  <2> QED BY <1>1, <1>2, WFMin, Zenon
<1>4. PICK d \in Distances : \A e \in Distances : ~(<<e, d>> \in Below)
  BY <1>3
<1>5. \A e \in Distances : d <= e
  <2> SUFFICES ASSUME NEW e \in Distances PROVE d <= e
    OBVIOUS
  <2>1. d \in Nat /\ e \in Nat /\ ~(<<e, d>> \in Below)
    BY <1>2, <1>4
  <2>2. ~(e < d)
    <3>1. <<e, d>> \in Nat \X Nat /\ <<e, d>>[1] = e /\ <<e, d>>[2] = d
      BY <2>1
    <3> QED BY <2>1, <3>1
  <2> QED BY <2>1, <2>2
<1>6. PICK x \in S : d = n - x
  BY <1>4 DEF Distances
<1>7. \A y \in S : n - x <= n - y
  BY <1>5, <1>6 DEF Distances
<1> QED BY <1>6, <1>7

\* What holds of 0, and of n + 1 when it holds of n, holds of every number: a
\* least one of which it does not hold cannot be.
LEMMA Counting ==
  ASSUME NEW S, 0 \in S, \A n \in Nat : n \in S => n + 1 \in S
  PROVE  \A n \in Nat : n \in S
<1> DEFINE Below == {x \in Nat \X Nat : x[1] < x[2]}
           Missing == {n \in Nat : n \notin S}
<1> SUFFICES ASSUME Missing # {} PROVE FALSE
  OBVIOUS
<1>1. IsWellFoundedOn(Below, Nat)
  <2>1. OpToRel(<, Nat) = Below
    BY DEF OpToRel
  <2> QED BY <2>1, NatLessThanWellFounded, Zenon
<1>2. PICK d \in Missing : \A e \in Missing : ~(<<e, d>> \in Below)
  <2>1. Missing \in SUBSET Nat
    OBVIOUS
  <2> HIDE DEF Below, Missing
  <2> QED BY <1>1, <2>1, WFMin, Zenon
<1>3. d # 0 /\ d - 1 \in Nat /\ (d - 1) + 1 = d
  OBVIOUS
<1>4. d - 1 \notin Missing
  <2>1. <<d - 1, d>> \in Nat \X Nat /\ <<d - 1, d>>[1] = d - 1 /\ <<d - 1, d>>[2] = d
    BY <1>3
  <2>2. <<d - 1, d>> \in Below
    BY <1>3, <2>1
  <2> QED BY <1>2, <2>2
<1> QED BY <1>3, <1>4

\* What Picked has made of the first n places.
PickedRecursion(f, s, places, n) ==
  f = [i \in 0..n |->
         IF i = 0 THEN <<>> ELSE IF i \in places THEN Append(f[i - 1], s[i]) ELSE f[i - 1]]

\* There is such a function, for any number of places.
LEMMA PickedExist ==
  ASSUME NEW s, NEW places, NEW n \in Nat
  PROVE  \E f : PickedRecursion(f, s, places, n)
<1> DEFINE Next(p, i) == IF i \in places THEN Append(p, s[i]) ELSE p
           S == {m \in Nat : \E f : PickedRecursion(f, s, places, m)}
<1>1. 0 \in S
  <2> DEFINE f == [i \in 0..0 |-> <<>>]
  <2>1. f = [i \in 0..0 |-> IF i = 0 THEN <<>> ELSE IF i \in places THEN Append(f[i - 1], s[i]) ELSE f[i - 1]]
    OBVIOUS
  <2> HIDE DEF f
  <2>2. \E g : PickedRecursion(g, s, places, 0)
    BY <2>1 DEF PickedRecursion
  <2> QED BY <2>2
<1>2. ASSUME NEW m \in Nat, m \in S PROVE m + 1 \in S
  <2>1. PICK f : f = [i \in 0..m |-> IF i = 0 THEN <<>> ELSE Next(f[i - 1], i)]
    BY <1>2, Zenon DEF PickedRecursion
  <2> DEFINE g == [i \in 0..m + 1 |-> IF i = m + 1 THEN Next(f[m], m + 1) ELSE f[i]]
  <2> HIDE DEF Next
  <2>2. ASSUME NEW i \in 0..m + 1
        PROVE  g[i] = IF i = 0 THEN <<>> ELSE Next(g[i - 1], i)
    <3>1. CASE i = m + 1
      <4>1. i # 0 /\ i - 1 = m /\ m \in 0..m + 1 /\ m # m + 1
        BY <3>1
      <4> QED BY <3>1, <4>1
    <3>2. CASE i # m + 1
      <4>1. i \in 0..m /\ (i # 0 => i - 1 \in 0..m + 1 /\ i - 1 # m + 1)
        BY <3>2
      <4>2. g[i] = f[i] /\ (i # 0 => g[i - 1] = f[i - 1])
        BY <3>2, <4>1
      <4>3. f[i] = IF i = 0 THEN <<>> ELSE Next(f[i - 1], i)
        BY <2>1, <4>1
      <4> QED BY <4>2, <4>3
    <3> QED BY <3>1, <3>2
  <2>3. g = [i \in 0..m + 1 |-> g[i]]
    OBVIOUS
  <2> HIDE DEF g
  <2>4. g = [i \in 0..m + 1 |-> IF i = 0 THEN <<>> ELSE Next(g[i - 1], i)]
    BY <2>2, <2>3
  <2>5. PickedRecursion(g, s, places, m + 1)
    BY <2>4, Zenon DEF PickedRecursion, Next
  <2> QED BY <2>5
<1> HIDE DEF S
<1>3. n \in S
  BY <1>1, <1>2, Counting
<1> QED BY <1>3 DEF S

\* p are elements of s, from different places in their order: at says from which.
Picks(p, s, places, at) ==
  /\ IsSequence(p)
  /\ \A i \in 1..Len(p) :
       /\ at[i] \in 1..Len(s) /\ at[i] \in places /\ p[i] = s[at[i]]
       /\ \A j \in 1..Len(p) : i < j => at[i] < at[j]

\* So does Picked.
LEMMA PickedAre ==
  ASSUME NEW s, IsSequence(s), NEW places
  PROVE  \E at : Picks(Picked(s, places), s, places, at)
<1> DEFINE n == Len(s)
           f == CHOOSE f : PickedRecursion(f, s, places, n)
           Next(p, i) == IF i \in places THEN Append(p, s[i]) ELSE p
           Upto(p, m, at) ==
             \A i \in 1..Len(p) :
               /\ at[i] \in 1..m /\ at[i] \in places /\ p[i] = s[at[i]]
               /\ \A j \in 1..Len(p) : i < j => at[i] < at[j]
           S == {m \in Nat : m <= n => IsSequence(f[m]) /\ \E at : Upto(f[m], m, at)}
<1>0. n \in Nat
  BY DEF IsSequence
<1>1. Picked(s, places) = f[n]
  BY Zenon DEF Picked, PickedRecursion
<1>2. f = [i \in 0..n |-> IF i = 0 THEN <<>> ELSE Next(f[i - 1], i)]
  <2>1. \E g : PickedRecursion(g, s, places, n)
    BY <1>0, PickedExist
  <2>2. PickedRecursion(f, s, places, n)
    BY <2>1, Zenon
  <2> HIDE DEF f
  <2> QED BY <2>2, Zenon DEF PickedRecursion
<1> HIDE DEF f, Next
<1>3. f[0] = <<>> /\ \A i \in 1..n : f[i] = Next(f[i - 1], i)
  <2>1. 0 \in 0..n /\ \A i \in 1..n : i \in 0..n /\ i # 0
    BY <1>0
  <2> QED BY <1>2, <2>1
<1> HIDE DEF n
<1>4. 0 \in S
  <2>1. IsSequence(f[0]) /\ Len(f[0]) = 0
    BY <1>3, EmptySequence
  <2> QED BY <2>1
<1>5. ASSUME NEW m \in Nat, m \in S PROVE m + 1 \in S
  <2> SUFFICES ASSUME m + 1 <= n
               PROVE  IsSequence(f[m + 1]) /\ \E at : Upto(f[m + 1], m + 1, at)
    OBVIOUS
  <2> DEFINE p == f[m]
  <2>1. IsSequence(p) /\ \E at : Upto(p, m, at)
    BY <1>0, <1>5
  <2>2. PICK at : Upto(p, m, at)
    BY <2>1
  <2>3. f[m + 1] = Next(p, m + 1)
    <3>1. m + 1 \in 1..n /\ (m + 1) - 1 = m
      BY <1>0
    <3> QED BY <1>3, <3>1
  <2>4. Len(p) \in Nat
    BY <2>1 DEF IsSequence
  <2> HIDE DEF p
  <2>5. CASE m + 1 \notin places
    <3>1. f[m + 1] = p
      BY <2>3, <2>5 DEF Next
    <3>2. Upto(p, m + 1, at)
      BY <2>2
    <3> QED BY <2>1, <3>1, <3>2
  <2>6. CASE m + 1 \in places
    <3> DEFINE q == Append(p, s[m + 1])
               to == [i \in 1..Len(p) + 1 |-> IF i = Len(p) + 1 THEN m + 1 ELSE at[i]]
    <3>1. f[m + 1] = q
      BY <2>3, <2>6 DEF Next
    <3>2. /\ IsSequence(q) /\ Len(q) = Len(p) + 1
          /\ \A i \in 1..Len(p) : q[i] = p[i]
          /\ q[Len(p) + 1] = s[m + 1]
      BY <2>1, AppendSequence
    <3>3. /\ \A i \in 1..Len(p) : to[i] = at[i]
          /\ to[Len(p) + 1] = m + 1
      BY <2>4
    <3> HIDE DEF q, to
    <3>4. ASSUME NEW i \in 1..Len(q)
          PROVE  /\ to[i] \in 1..m + 1 /\ to[i] \in places /\ q[i] = s[to[i]]
                 /\ \A j \in 1..Len(q) : i < j => to[i] < to[j]
      <4>1. CASE i = Len(p) + 1
        BY <2>4, <2>6, <3>2, <3>3, <4>1
      <4>2. CASE i \in 1..Len(p)
        <5>1. /\ at[i] \in 1..m /\ at[i] \in places /\ p[i] = s[at[i]]
              /\ \A j \in 1..Len(p) : i < j => at[i] < at[j]
          BY <2>2, <4>2
        <5>2. ASSUME NEW j \in 1..Len(q), i < j PROVE to[i] < to[j]
          <6>1. CASE j = Len(p) + 1
            BY <3>3, <4>2, <5>1, <6>1
          <6>2. CASE j # Len(p) + 1
            <7>1. j \in 1..Len(p)
              BY <2>4, <3>2, <6>2
            <7> QED BY <3>3, <4>2, <5>1, <5>2, <7>1
          <6> QED BY <6>1, <6>2
        <5> QED BY <3>2, <3>3, <4>2, <5>1, <5>2
      <4> QED BY <2>4, <3>2, <4>1, <4>2
    <3>5. Upto(q, m + 1, to)
      BY <3>4
    <3> QED BY <3>1, <3>2, <3>5
  <2> QED BY <2>5, <2>6
<1> HIDE DEF S
<1>6. n \in S
  BY <1>0, <1>4, <1>5, Counting
<1>7. IsSequence(f[n]) /\ \E at : Upto(f[n], n, at)
  BY <1>0, <1>6 DEF S
<1> QED BY <1>1, <1>7 DEF Picks, n

=============================================================================
