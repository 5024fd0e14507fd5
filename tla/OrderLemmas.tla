---------------------------- MODULE OrderLemmas ----------------------------
(***************************************************************************)
(* Finite sets that are compared, listed, queued and summed: what Max and  *)
(* Min choose, what the sequences are that a query with or without an      *)
(* order returns, who stands in a line after somebody leaves it, how the   *)
(* sum of a function's values changes with one of them, what is picked     *)
(* from a sequence, when a recursive function of numbers exists, and which *)
(* elements sequences have that are put one after the other.               *)
(***************************************************************************)
EXTENDS Integers, SequencesExt, FiniteSetsExt, Functions, Lines, FiniteSetTheorems, SequenceTheorems,
        WellFoundedInduction, TLAPS

-----------------------------------------------------------------------------
(* Greatest and least elements.                                             *)

\* A set of finite sets that is not empty has one with no smaller one in it.
LEMMA SmallestSet ==
  ASSUME NEW S, IsFiniteSet(S), NEW T \in SUBSET (SUBSET S), T # {}
  PROVE  \E U \in T : \A V \in T : V \subseteq U => V = U
<1>1. T \subseteq FiniteSubsetsOf(S)  BY FS_FiniteSubsetsOfFinite
<1>2. IsWellFoundedOn(StrictSubsetOrdering(S), FiniteSubsetsOf(S))
  BY FS_StrictSubsetOrderingWellFounded
<1>3. PICK U \in T : \A V \in T : ~ (<<V, U>> \in StrictSubsetOrdering(S))
  BY <1>1, <1>2, WFMin
<1> QED  BY <1>3 DEF StrictSubsetOrdering

\* A relation that compares any two elements has a greatest one in a finite set.
LEMMA Greatest ==
  ASSUME NEW S, IsFiniteSet(S), S # {}, NEW R,
         \A a, b \in S : <<a, b>> \in R \/ <<b, a>> \in R,
         \A a, b, c \in S : <<a, b>> \in R /\ <<b, c>> \in R => <<a, c>> \in R
  PROVE  \E x \in S : \A y \in S : <<y, x>> \in R
<1> DEFINE Tops(U) == \E x \in U : \A y \in U : <<y, x>> \in R
           T == {U \in SUBSET S : U # {} /\ ~Tops(U)}
<1>1. SUFFICES T = {}  OBVIOUS
<1>2. SUFFICES ASSUME T # {} PROVE FALSE  OBVIOUS
<1>3. T \in SUBSET (SUBSET S)  OBVIOUS
<1>4. PICK U \in T : \A V \in T : V \subseteq U => V = U
  <2> HIDE DEF T
  <2> QED  BY <1>2, <1>3, SmallestSet
<1>5. PICK x \in U : TRUE  OBVIOUS
<1>6. U \ {x} \notin T
  <2> HIDE DEF T
  <2>1. U \ {x} \subseteq U /\ U \ {x} # U  BY <1>5
  <2> QED  BY <1>4, <2>1
<1>7. CASE U \ {x} = {}
  <2>1. U = {x}  BY <1>7
  <2> QED  BY <2>1
<1>8. CASE U \ {x} # {}
  <2>1. PICK m \in U \ {x} : \A y \in U \ {x} : <<y, m>> \in R  BY <1>6, <1>8
  <2>2. CASE <<x, m>> \in R
    <3>1. \A y \in U : <<y, m>> \in R  BY <2>1, <2>2
    <3> QED  BY <3>1, <2>1
  <2>3. CASE <<m, x>> \in R
    <3>1. \A y \in U \ {x} : <<y, x>> \in R  BY <2>1, <2>3
    <3>2. <<x, x>> \in R  OBVIOUS
    <3>3. \A y \in U : <<y, x>> \in R  BY <3>1, <3>2
    <3> QED  BY <3>3
  <2> QED  BY <2>1, <2>2, <2>3
<1> QED  BY <1>7, <1>8

LEMMA MaxOfSet ==
  ASSUME NEW S \in SUBSET Int, IsFiniteSet(S), S # {}
  PROVE  Max(S) \in S /\ \A y \in S : Max(S) >= y
<1> DEFINE R == {p \in S \X S : p[1] <= p[2]}
<1>1. \A a, b \in S : <<a, b>> \in R <=> a <= b  OBVIOUS
<1>2. \A a, b \in S : a <= b \/ b <= a  OBVIOUS
<1>3. \A a, b, c \in S : a <= b /\ b <= c => a <= c  OBVIOUS
<1> HIDE DEF R
<1>4. \A a, b \in S : <<a, b>> \in R \/ <<b, a>> \in R  BY <1>1, <1>2
<1>5. \A a, b, c \in S : <<a, b>> \in R /\ <<b, c>> \in R => <<a, c>> \in R  BY <1>1, <1>3
<1>6. PICK x \in S : \A y \in S : <<y, x>> \in R  BY <1>4, <1>5, Greatest
<1>7. \A y \in S : x >= y  BY <1>1, <1>6
<1> QED  BY <1>7 DEF Max

LEMMA MinOfSet ==
  ASSUME NEW S \in SUBSET Int, IsFiniteSet(S), S # {}
  PROVE  Min(S) \in S /\ \A y \in S : Min(S) <= y
<1> DEFINE R == {p \in S \X S : p[2] <= p[1]}
<1>1. \A a, b \in S : <<a, b>> \in R <=> b <= a  OBVIOUS
<1>2. \A a, b \in S : a <= b \/ b <= a  OBVIOUS
<1>3. \A a, b, c \in S : a <= b /\ b <= c => a <= c  OBVIOUS
<1> HIDE DEF R
<1>4. \A a, b \in S : <<a, b>> \in R \/ <<b, a>> \in R  BY <1>1, <1>2
<1>5. \A a, b, c \in S : <<a, b>> \in R /\ <<b, c>> \in R => <<a, c>> \in R  BY <1>1, <1>3
<1>6. PICK x \in S : \A y \in S : <<y, x>> \in R  BY <1>4, <1>5, Greatest
<1>7. \A y \in S : x <= y  BY <1>1, <1>6
<1> QED  BY <1>7 DEF Min

LEMMA MinOfPair ==
  ASSUME NEW a \in Int, NEW b \in Int
  PROVE  Min({a, b}) = IF a <= b THEN a ELSE b
<1> DEFINE m == IF a <= b THEN a ELSE b
<1>1. m \in {a, b} /\ \A y \in {a, b} : m <= y  OBVIOUS
<1>2. \A x \in {a, b} : (\A y \in {a, b} : x <= y) => x = m  OBVIOUS
<1> HIDE DEF m
<1>3. (CHOOSE x \in {a, b} : \A y \in {a, b} : x <= y) = m  BY <1>1, <1>2
<1> QED  BY <1>3 DEF Min, m

LEMMA MaxOfPair ==
  ASSUME NEW a \in Nat, NEW b \in Nat
  PROVE  Max({a, b}) \in Nat
<1>1. IsFiniteSet({a, b})
  <2>1. IsFiniteSet({a}) BY FS_Singleton
  <2>2. {a} \cup {b} = {a, b}  OBVIOUS
  <2> QED  BY <2>1, <2>2, FS_AddElement
<1> QED  BY <1>1, MaxOfSet

-----------------------------------------------------------------------------
(* Listings.                                                                *)

\* A function on 1..n is a sequence of length n.
LEMMA FunctionIsSeq ==
  ASSUME NEW S, NEW n \in Nat, NEW f \in [1..n -> S]
  PROVE  f \in Seq(S) /\ Len(f) = n
<1>1. f \in Seq(S)  BY SeqDef
<1>2. DOMAIN f = 1..Len(f) /\ Len(f) \in Nat  BY <1>1, LenProperties
<1> QED  BY <1>1, <1>2

LEMMA Listing ==
  ASSUME NEW S, IsFiniteSet(S), NEW s \in SetToSeqs(S)
  PROVE  /\ s \in Seq(S) /\ Len(s) = Cardinality(S) /\ DOMAIN s = 1..Len(s)
         /\ \A i, j \in DOMAIN s : s[i] = s[j] => i = j
         /\ \A x \in S : \E i \in DOMAIN s : s[i] = x
<1>1. Cardinality(S) \in Nat  BY FS_CardinalityType
<1>2. s \in [1..Cardinality(S) -> S] /\ \A i, j \in 1..Cardinality(S) : i # j => s[i] # s[j]
  BY DEF SetToSeqs
<1>3. s \in Seq(S) /\ Len(s) = Cardinality(S)  BY <1>1, <1>2, FunctionIsSeq
<1> DEFINE D == 1..Cardinality(S)
<1>4. s \in Injection(D, S)  BY <1>2 DEF Injection, IsInjective
<1>5. IsFiniteSet(D) /\ Cardinality(D) = Cardinality(S)  BY <1>1, FS_Interval
<1>6. s \in Surjection(D, S)
  <2> HIDE DEF D
  <2> QED  BY <1>4, <1>5, FS_Injection
<1>7. \A x \in S : \E i \in D : s[i] = x  BY <1>6 DEF Surjection
<1> QED  BY <1>2, <1>3, <1>7

\* Any finite set can be listed in an order that compares any two of its elements.
LEMMA Sorting ==
  ASSUME NEW S, IsFiniteSet(S), NEW R,
         \A a, b \in S : <<a, b>> \in R \/ <<b, a>> \in R,
         \A a, b, c \in S : <<a, b>> \in R /\ <<b, c>> \in R => <<a, c>> \in R
  PROVE  \E s \in SetToSeqs(S) : \A i \in 1..(Len(s) - 1) : <<s[i], s[i + 1]>> \in R
<1> DEFINE Sorted(U) == \E s \in SetToSeqs(U) : \A i \in 1..(Len(s) - 1) : <<s[i], s[i + 1]>> \in R
           T == {U \in SUBSET S : ~Sorted(U)}
<1>1. SUFFICES ASSUME T # {} PROVE FALSE  OBVIOUS
<1>2. T \in SUBSET (SUBSET S)  OBVIOUS
<1>3. PICK U \in T : \A V \in T : V \subseteq U => V = U
  <2> HIDE DEF T
  <2> QED  BY <1>1, <1>2, SmallestSet
<1> HIDE DEF Sorted
<1>4. U \in SUBSET S /\ ~Sorted(U)  OBVIOUS
<1>5. IsFiniteSet(U)  BY <1>4, FS_Subset
<1>6. CASE U = {}
  <2> DEFINE e == [i \in 1..0 |-> i]
  <2>1. Cardinality(U) = 0  BY <1>6, FS_EmptySet
  <2>2. e \in [1..0 -> U]  OBVIOUS
  <2>3. Len(e) = 0  BY <2>2, FunctionIsSeq
  <2>4. e \in SetToSeqs(U)  BY <2>1, <2>2 DEF SetToSeqs
  <2> QED  BY <1>4, <2>3, <2>4 DEF Sorted
<1>7. CASE U # {}
  <2>1. PICK x \in U : \A y \in U : <<y, x>> \in R  BY <1>4, <1>5, <1>7, Greatest
  <2> DEFINE V == U \ {x}
             n == Cardinality(V)
  <2>2. V \notin T  BY <1>3, <2>1
  <2>3. Sorted(V)  BY <1>4, <2>2
  <2>4. IsFiniteSet(V) /\ n \in Nat /\ Cardinality(U) = n + 1
    <3>1. IsFiniteSet(V)  BY <1>5, FS_RemoveElement
    <3>2. n = Cardinality(U) - 1  BY <1>5, <2>1, FS_RemoveElement
    <3>3. n \in Nat /\ Cardinality(U) \in Nat  BY <1>5, <3>1, FS_CardinalityType
    <3> HIDE DEF n, V
    <3> QED  BY <3>1, <3>2, <3>3
  <2>5. PICK s \in SetToSeqs(V) : \A i \in 1..(Len(s) - 1) : <<s[i], s[i + 1]>> \in R
    BY <2>3 DEF Sorted
  <2>6. s \in [1..n -> V] /\ (\A i, j \in 1..n : i # j => s[i] # s[j]) /\ Len(s) = n
    BY <2>4, <2>5, FunctionIsSeq DEF SetToSeqs
  <2> DEFINE f == [i \in 1..(n + 1) |-> IF i = n + 1 THEN x ELSE s[i]]
  <2> HIDE DEF T, n, V
  <2>7. f \in [1..(n + 1) -> U]  BY <2>1, <2>4, <2>6 DEF V
  <2>8. Len(f) = n + 1  BY <2>4, <2>7, FunctionIsSeq
  <2>9. \A i, j \in 1..(n + 1) : i # j => f[i] # f[j]  BY <2>4, <2>6 DEF V
  <2>10. f \in SetToSeqs(U)  BY <2>4, <2>7, <2>9 DEF SetToSeqs
  <2>11. \A i \in 1..((n + 1) - 1) : <<f[i], f[i + 1]>> \in R
    <3> TAKE i \in 1..((n + 1) - 1)
    <3>1. i \in 1..n /\ i + 1 \in 1..(n + 1)  BY <2>4
    <3>2. f[i] = s[i] /\ s[i] \in U  BY <2>4, <2>6, <2>7, <3>1 DEF V
    <3>3. CASE i = n  BY <2>1, <2>4, <3>1, <3>2, <3>3
    <3>4. CASE i # n
      <4>1. i \in 1..(n - 1) /\ i + 1 \in 1..n /\ f[i + 1] = s[i + 1]  BY <2>4, <3>1, <3>4
      <4> QED  BY <2>5, <2>6, <3>2, <4>1
    <3> QED  BY <3>3, <3>4
  <2> QED  BY <1>4, <2>8, <2>10, <2>11 DEF Sorted
<1> QED  BY <1>6, <1>7
-----------------------------------------------------------------------------
(* Lines: sequences in which nobody is twice.                               *)

Distinct(s) == \A i, j \in 1..Len(s) : s[i] = s[j] => i = j
Line(s, A) == s \in Seq(A) /\ Distinct(s)

LEMMA Members ==
  ASSUME NEW A, NEW s \in Seq(A)
  PROVE  /\ \A x : x \in ToSet(s) <=> \E i \in 1..Len(s) : s[i] = x
         /\ Len(s) \in Nat /\ \A i \in 1..Len(s) : s[i] \in A
         /\ s # <<>> => Head(s) = s[1] /\ Len(s) >= 1
BY LenProperties, HeadTailProperties, EmptySeq, ElementOfSeq DEF ToSet

LEMMA Joining ==
  ASSUME NEW A, NEW s, Line(s, A), NEW x \in A, x \notin ToSet(s)
  PROVE  /\ Line(Append(s, x), A) /\ ToSet(Append(s, x)) = ToSet(s) \cup {x}
         /\ Append(s, x) # <<>> /\ (s # <<>> => Head(Append(s, x)) = Head(s))
<1> DEFINE t == Append(s, x)
<1>1. s \in Seq(A) /\ Distinct(s) /\ Len(s) \in Nat  BY Members DEF Line
<1>2. t \in Seq(A) /\ Len(t) = Len(s) + 1 /\ t[Len(s) + 1] = x /\ \A i \in 1..Len(s) : t[i] = s[i]
  BY <1>1, AppendProperties
<1>3. \A i \in 1..Len(t) : i = Len(s) + 1 \/ i \in 1..Len(s)  BY <1>1, <1>2
<1> HIDE DEF t
<1>4. \A i \in 1..Len(s) : s[i] # x  BY <1>1, Members
<1>5. Distinct(t)  BY <1>1, <1>2, <1>3, <1>4 DEF Distinct
<1>6. ToSet(t) = ToSet(s) \cup {x}
  <2>1. \A y : y \in ToSet(t) <=> \E i \in 1..Len(t) : t[i] = y  BY <1>2, Members
  <2>2. \A y : y \in ToSet(s) <=> \E i \in 1..Len(s) : s[i] = y  BY <1>1, Members
  <2>3. 1..Len(t) = (1..Len(s)) \cup {Len(s) + 1}  BY <1>1, <1>2
  <2> QED  BY <1>2, <2>1, <2>2, <2>3
<1>7. t # <<>>  BY <1>1, <1>2, EmptySeq
<1>8. s # <<>> => Head(t) = Head(s)
  <2> SUFFICES ASSUME s # <<>> PROVE Head(t) = Head(s)  OBVIOUS
  <2>1. Len(s) >= 1 /\ Head(s) = s[1] /\ Head(t) = t[1]  BY <1>1, <1>2, <1>7, Members
  <2> QED  BY <1>1, <1>2, <2>1
<1> QED  BY <1>2, <1>5, <1>6, <1>7, <1>8 DEF Line, t

LEMMA Leaving ==
  ASSUME NEW A, NEW s, Line(s, A), s # <<>>
  PROVE  Line(Tail(s), A) /\ ToSet(Tail(s)) = ToSet(s) \ {Head(s)}
<1> DEFINE t == Tail(s)
<1>1. s \in Seq(A) /\ Distinct(s) /\ Len(s) \in Nat /\ Head(s) = s[1] /\ Len(s) >= 1
  BY Members DEF Line
<1>2. t \in Seq(A) /\ Len(t) = Len(s) - 1 /\ \A i \in 1..Len(t) : t[i] = s[i + 1]
  BY <1>1, HeadTailProperties
<1> HIDE DEF t
<1>3. \A i \in 1..Len(t) : i + 1 \in 1..Len(s)  BY <1>1, <1>2
<1>4. Distinct(t)
  <2> SUFFICES ASSUME NEW i \in 1..Len(t), NEW j \in 1..Len(t), t[i] = t[j] PROVE i = j
    BY DEF Distinct
  <2>1. i + 1 = j + 1  BY <1>1, <1>2, <1>3 DEF Distinct
  <2> QED  BY <2>1
<1>5. ToSet(t) = ToSet(s) \ {Head(s)}
  <2>1. \A y : y \in ToSet(t) <=> \E i \in 1..Len(t) : t[i] = y  BY <1>2, Members
  <2>2. \A y : y \in ToSet(s) <=> \E i \in 1..Len(s) : s[i] = y  BY <1>1, Members
  <2>3. \A i \in 1..Len(t) : s[i + 1] # s[1]  BY <1>1, <1>3 DEF Distinct
  <2>4. \A i \in 1..Len(s) : i = 1 \/ (i - 1 \in 1..Len(t) /\ t[i - 1] = s[i])  BY <1>1, <1>2
  <2> QED  BY <1>1, <1>2, <1>3, <2>1, <2>2, <2>3, <2>4
<1> QED  BY <1>2, <1>4, <1>5 DEF Line, t

\* Whoever gives up its place leaves the others in their order.
LEMMA GivingUp ==
  ASSUME NEW A, NEW s, Line(s, A), NEW x
  PROVE  /\ Line(Without(s, x), A) /\ ToSet(Without(s, x)) = ToSet(s) \ {x}
         /\ (s # <<>> /\ Head(s) # x => Without(s, x) # <<>> /\ Head(Without(s, x)) = Head(s))
<1>1. s \in Seq(A) /\ Distinct(s) /\ Len(s) \in Nat /\ DOMAIN s = 1..Len(s)
  BY Members, LenProperties DEF Line
<1>2. CASE x \notin ToSet(s)  BY <1>2 DEF Without
<1>3. CASE x \in ToSet(s)
  <2> DEFINE p == CHOOSE i \in DOMAIN s : s[i] = x
             a == SubSeq(s, 1, p - 1)
             b == SubSeq(s, p + 1, Len(s))
             t == a \o b
  <2>1. p \in 1..Len(s) /\ s[p] = x  BY <1>1, <1>3, Members
  <2>2. Without(s, x) = t  BY <1>3 DEF Without, RemoveAt
  <2> HIDE DEF p
  <2>3. a \in Seq(A) /\ Len(a) = p - 1 /\ \A i \in 1..(p - 1) : a[i] = s[i]
    <3>1. \A i \in 1..(p - 1) : i \in 1..Len(s)  BY <1>1, <2>1
    <3>2. /\ a \in Seq(A) /\ Len(a) = IF 1 <= p - 1 THEN (p - 1) - 1 + 1 ELSE 0
          /\ \A i \in 1..((p - 1) - 1 + 1) : a[i] = s[1 + i - 1]
      BY <1>1, <2>1, <3>1, SubSeqProperties
    <3> QED  BY <1>1, <2>1, <3>2
  <2>4. b \in Seq(A) /\ Len(b) = Len(s) - p /\ \A i \in 1..(Len(s) - p) : b[i] = s[p + i]
    <3>1. \A i \in (p + 1)..Len(s) : i \in 1..Len(s)  BY <1>1, <2>1
    <3>2. /\ b \in Seq(A) /\ Len(b) = IF p + 1 <= Len(s) THEN Len(s) - (p + 1) + 1 ELSE 0
          /\ \A i \in 1..(Len(s) - (p + 1) + 1) : b[i] = s[(p + 1) + i - 1]
      BY <1>1, <2>1, <3>1, SubSeqProperties
    <3>3. ASSUME NEW i \in 1..(Len(s) - p) PROVE b[i] = s[p + i]
      <4>1. i \in 1..(Len(s) - (p + 1) + 1) /\ (p + 1) + i - 1 = p + i  BY <1>1, <2>1
      <4> QED  BY <3>2, <4>1
    <3>4. Len(b) = Len(s) - p
      <4> HIDE DEF b
      <4>1. p \in Int /\ Len(s) \in Int /\ p <= Len(s)  BY <1>1, <2>1
      <4>2. CASE p = Len(s)
        <5>1. ~(p + 1 <= p)  BY <4>1
        <5>2. Len(b) = 0  BY <3>2, <4>2, <5>1
        <5> QED  BY <4>1, <4>2, <5>2
      <4>3. CASE p # Len(s)
        <5>1. p + 1 <= Len(s)  BY <4>1, <4>3
        <5> QED  BY <3>2, <4>1, <5>1
      <4> QED  BY <4>2, <4>3
    <3> QED  BY <3>2, <3>3, <3>4
  <2> HIDE DEF a, b
  <2>5. t \in Seq(A) /\ Len(t) = Len(s) - 1
        /\ \A i \in 1..(Len(s) - 1) : t[i] = IF i < p THEN s[i] ELSE s[i + 1]
    <3>1. t \in Seq(A) /\ Len(t) = Len(a) + Len(b)
          /\ \A i \in 1..(Len(a) + Len(b)) : t[i] = IF i <= Len(a) THEN a[i] ELSE b[i - Len(a)]
      BY <2>3, <2>4, ConcatProperties
    <3>2. Len(t) = Len(s) - 1  BY <1>1, <2>1, <2>3, <2>4, <3>1
    <3>3. ASSUME NEW i \in 1..(Len(s) - 1) PROVE t[i] = IF i < p THEN s[i] ELSE s[i + 1]
      <4>1. t[i] = IF i <= p - 1 THEN a[i] ELSE b[i - (p - 1)]  BY <1>1, <2>1, <2>3, <2>4, <3>1
      <4>2. CASE i < p
        <5>1. i \in 1..(p - 1)  BY <1>1, <2>1, <4>2
        <5> QED  BY <2>3, <4>1, <4>2, <5>1
      <4>3. CASE ~(i < p)
        <5>1. i - (p - 1) \in 1..(Len(s) - p) /\ p + (i - (p - 1)) = i + 1  BY <1>1, <2>1, <4>3
        <5>2. b[i - (p - 1)] = s[i + 1]  BY <2>4, <5>1
        <5> QED  BY <2>1, <4>1, <4>3, <5>2
      <4> QED  BY <4>2, <4>3
    <3> QED  BY <3>1, <3>2, <3>3
  <2> HIDE DEF t
  <2>6. \A i \in 1..Len(t) : (IF i < p THEN i ELSE i + 1) \in (1..Len(s)) \ {p}
                              /\ t[i] = s[IF i < p THEN i ELSE i + 1]
    BY <1>1, <2>1, <2>5
  <2>7. Distinct(t)
    <3> SUFFICES ASSUME NEW i \in 1..Len(t), NEW j \in 1..Len(t), t[i] = t[j] PROVE i = j
      BY DEF Distinct
    <3>1. (IF i < p THEN i ELSE i + 1) = (IF j < p THEN j ELSE j + 1)  BY <1>1, <2>6 DEF Distinct
    <3> QED  BY <1>1, <2>1, <2>5, <3>1
  <2>8. ToSet(t) = ToSet(s) \ {x}
    <3>1. \A y : y \in ToSet(t) <=> \E i \in 1..Len(t) : t[i] = y  BY <2>5, Members
    <3>2. \A y : y \in ToSet(s) <=> \E i \in 1..Len(s) : s[i] = y  BY <1>1, Members
    <3>3. \A i \in (1..Len(s)) \ {p} : s[i] # x  BY <1>1, <2>1 DEF Distinct
    <3>4. ASSUME NEW i \in (1..Len(s)) \ {p} PROVE \E j \in 1..Len(t) : t[j] = s[i]
      <4>1. CASE i < p
        <5>1. i \in 1..Len(t) /\ t[i] = s[i]  BY <1>1, <2>1, <2>5, <4>1
        <5> QED  BY <5>1
      <4>2. CASE i > p
        <5>1. i - 1 \in 1..Len(t) /\ t[i - 1] = s[i]  BY <1>1, <2>1, <2>5, <4>2
        <5> QED  BY <5>1
      <4> QED  BY <1>1, <2>1, <4>1, <4>2
    <3>5. ToSet(t) \subseteq ToSet(s) \ {x}  BY <2>6, <3>1, <3>2, <3>3
    <3>6. ToSet(s) \ {x} \subseteq ToSet(t)  BY <2>1, <3>1, <3>2, <3>4
    <3> QED  BY <3>5, <3>6
  <2>9. s # <<>> /\ Head(s) # x => t # <<>> /\ Head(t) = Head(s)
    <3> SUFFICES ASSUME s # <<>>, Head(s) # x PROVE t # <<>> /\ Head(t) = Head(s)  OBVIOUS
    <3>1. Head(s) = s[1] /\ 1 < p /\ Len(t) >= 1 /\ t[1] = s[1]  BY <1>1, <2>1, <2>5, Members
    <3>2. t # <<>>  BY <3>1, EmptySeq
    <3> QED  BY <2>5, <3>1, <3>2, Members
  <2> QED  BY <2>2, <2>5, <2>7, <2>8, <2>9 DEF Line
<1> QED  BY <1>2, <1>3

LEMMA LengthIsSize ==
  ASSUME NEW A, NEW s, Line(s, A)
  PROVE  Len(s) = Cardinality(ToSet(s))
<1>1. s \in Seq(A) /\ Distinct(s) /\ Len(s) \in Nat  BY Members DEF Line
<1>2. IsFiniteSet(1..Len(s)) /\ Cardinality(1..Len(s)) = Len(s)  BY <1>1, FS_Interval
<1> DEFINE D == 1..Len(s)
           f == [i \in D |-> s[i]]
           R == ToSet(s)
<1>3. \A x : x \in R <=> \E i \in D : s[i] = x  BY <1>1, Members
<1>4. \A i, j \in D : s[i] = s[j] => i = j  BY <1>1 DEF Distinct
<1>5. ExistsBijection(D, R)
  <2> HIDE DEF D, R
  <2>1. f \in Bijection(D, R)
    BY <1>3, <1>4 DEF Bijection, Injection, Surjection, IsInjective
  <2> QED  BY <2>1 DEF ExistsBijection
<1> HIDE DEF D, R
<1>6. Cardinality(D) = Cardinality(R)  BY <1>2, <1>5, FS_Bijection DEF D
<1> QED  BY <1>2, <1>6 DEF D, R

-----------------------------------------------------------------------------
(* The sum of a function's values, element by element.                      *)

\* The sums of the subsets of T, as SumFunctionOnSet finds them.
Summing(g, f, T) ==
  g = [U \in SUBSET T |-> IF U = {} THEN 0
                          ELSE f[CHOOSE x \in U : TRUE] + g[U \ {CHOOSE x \in U : TRUE}]]

\* Two ways to sum the subsets of a set agree where both speak.
LEMMA OneSum ==
  ASSUME NEW f, NEW V, IsFiniteSet(V), NEW T \in SUBSET V,
         NEW g, Summing(g, f, T), NEW h, Summing(h, f, V)
  PROVE  \A U \in SUBSET T : g[U] = h[U]
<1> DEFINE Wrong == {U \in SUBSET T : g[U] # h[U]}
<1>1. SUFFICES Wrong = {}  OBVIOUS
<1>2. SUFFICES ASSUME Wrong # {} PROVE FALSE  OBVIOUS
<1>3. Wrong \in SUBSET (SUBSET V)  OBVIOUS
<1>4. PICK U \in Wrong : \A W \in Wrong : W \subseteq U => W = U
  <2> HIDE DEF Wrong
  <2> QED  BY <1>2, <1>3, SmallestSet
<1> DEFINE x == CHOOSE y \in U : TRUE
<1>5. U \in SUBSET T /\ U \in SUBSET V /\ g[U] # h[U]  OBVIOUS
<1>6. /\ g[U] = IF U = {} THEN 0 ELSE f[x] + g[U \ {x}]
      /\ h[U] = IF U = {} THEN 0 ELSE f[x] + h[U \ {x}]
  BY <1>5 DEF Summing
<1>7. U # {}  BY <1>5, <1>6
<1>8. x \in U  BY <1>7
<1> HIDE DEF x
<1>9. U \ {x} \in SUBSET T /\ U \ {x} \subseteq U /\ U \ {x} # U  BY <1>5, <1>8
<1>10. U \ {x} \notin Wrong
  <2> HIDE DEF Wrong
  <2> QED  BY <1>4, <1>9
<1>11. g[U \ {x}] = h[U \ {x}]  BY <1>9, <1>10
<1> QED  BY <1>5, <1>6, <1>7, <1>11

LEMMA SomeSum ==
  ASSUME NEW f, NEW S, IsFiniteSet(S)
  PROVE  \A T \in SUBSET S : \E g : Summing(g, f, T)
<1> DEFINE None == {T \in SUBSET S : ~ \E g : Summing(g, f, T)}
<1>1. SUFFICES ASSUME None # {} PROVE FALSE  OBVIOUS
<1>2. None \in SUBSET (SUBSET S)  OBVIOUS
<1>3. PICK T \in None : \A W \in None : W \subseteq T => W = T
  <2> HIDE DEF None
  <2> QED  BY <1>1, <1>2, SmallestSet
<1> DEFINE Of(W) == CHOOSE g : Summing(g, f, W)
<1>4. T \in SUBSET S /\ ~ \E g : Summing(g, f, T)  OBVIOUS
<1>5. ASSUME NEW W \in SUBSET T, W # T PROVE Summing(Of(W), f, W)
  <2>1. W \in SUBSET S  BY <1>4
  <2>2. W \notin None
    <3> HIDE DEF None
    <3> QED  BY <1>3, <1>5
  <2>3. \E g : Summing(g, f, W)  BY <2>1, <2>2
  <2> QED  BY <2>3
<1> DEFINE p(U) == CHOOSE x \in U : TRUE
           Smaller(U) == U \ {p(U)}
           g == [U \in SUBSET T |-> IF U = {} THEN 0 ELSE f[p(U)] + Of(Smaller(U))[Smaller(U)]]
<1>6. ASSUME NEW U \in SUBSET T, U # {} PROVE Smaller(U) \in SUBSET T /\ Smaller(U) # T
  BY <1>6
<1> HIDE DEF Of
<1>7. ASSUME NEW W \in SUBSET T, W # T PROVE g[W] = Of(W)[W]
  <2>1. Summing(Of(W), f, W)  BY <1>5, <1>7
  <2>2. Of(W)[W] = IF W = {} THEN 0 ELSE f[p(W)] + Of(W)[Smaller(W)]
    <3>1. W \in SUBSET W  OBVIOUS
    <3> QED  BY <2>1, <3>1 DEF Summing
  <2>3. CASE W = {}  BY <2>2, <2>3
  <2>4. CASE W # {}
    <3>1. Smaller(W) \in SUBSET T /\ Smaller(W) # T /\ Smaller(W) \in SUBSET W  BY <1>6, <2>4
    <3>2. Summing(Of(Smaller(W)), f, Smaller(W))  BY <1>5, <3>1
    <3>3. IsFiniteSet(W)  BY <1>4, FS_Subset
    <3>4. Of(Smaller(W))[Smaller(W)] = Of(W)[Smaller(W)]
      <4> DEFINE V == Smaller(W)
      <4>1. V \in SUBSET W /\ V \in SUBSET V /\ Summing(Of(V), f, V)  BY <3>1, <3>2
      <4> HIDE DEF V
      <4> QED  BY <2>1, <3>3, <4>1, OneSum DEF V
    <3> QED  BY <2>2, <2>4, <3>4
  <2> QED  BY <2>3, <2>4
<1>8. \A U \in SUBSET T : U # {} => g[Smaller(U)] = Of(Smaller(U))[Smaller(U)]
  BY <1>6, <1>7
<1>9. g = [U \in SUBSET T |-> IF U = {} THEN 0 ELSE f[p(U)] + g[Smaller(U)]]
  <2> DEFINE Other(U) == Of(Smaller(U))[Smaller(U)]
  <2>3. \A U \in SUBSET T : g[U] = IF U = {} THEN 0 ELSE f[p(U)] + Other(U)  OBVIOUS
  <2>4. \A U \in SUBSET T : U # {} => g[Smaller(U)] = Other(U)  BY <1>8
  <2>1. \A U \in SUBSET T : g[U] = IF U = {} THEN 0 ELSE f[p(U)] + g[Smaller(U)]
    <3> HIDE DEF g, Other, Smaller, p
    <3> QED  BY <2>3, <2>4
  <2>2. g = [U \in SUBSET T |-> g[U]]  OBVIOUS
  <2> HIDE DEF g
  <2> QED  BY <2>1, <2>2
<1>10. Summing(g, f, T)
  <2> HIDE DEF g
  <2> QED  BY <1>9 DEF Summing
<1> QED  BY <1>4, <1>10

\* The sum over a set is the value at one of its elements and the sum over the others.
LEMMA SumTakesOne ==
  ASSUME NEW f, NEW T, IsFiniteSet(T)
  PROVE  SumFunctionOnSet(f, T) =
           IF T = {} THEN 0
           ELSE f[CHOOSE x \in T : TRUE] + SumFunctionOnSet(f, T \ {CHOOSE x \in T : TRUE})
<1> DEFINE Of(W) == CHOOSE g : Summing(g, f, W)
           x == CHOOSE y \in T : TRUE
           R == T \ {x}
<1>1. \A W : SumFunctionOnSet(f, W) = Of(W)[W]
  BY DEF SumFunctionOnSet, FoldFunctionOnSet, MapThenFoldSet, Summing
<1>2. \A W \in SUBSET T : Summing(Of(W), f, W)
  BY SomeSum
<1> HIDE DEF Of
<1>3. R \in SUBSET T /\ T \in SUBSET T /\ R \in SUBSET R  OBVIOUS
<1>4. Of(T)[T] = IF T = {} THEN 0 ELSE f[x] + Of(T)[R]
  BY <1>2, <1>3 DEF Summing
<1>5. Of(R)[R] = Of(T)[R]
  <2> HIDE DEF R
  <2> QED  BY <1>2, <1>3, OneSum
<1> HIDE DEF x
<1> QED  BY <1>1, <1>4, <1>5 DEF x

LEMMA SumIsNumber ==
  ASSUME NEW S, IsFiniteSet(S), NEW N \in {Nat, Int}, NEW f \in [S -> N]
  PROVE  \A T \in SUBSET S : SumFunctionOnSet(f, T) \in N
<1> DEFINE Wrong == {T \in SUBSET S : SumFunctionOnSet(f, T) \notin N}
<1>1. SUFFICES ASSUME Wrong # {} PROVE FALSE  OBVIOUS
<1>2. Wrong \in SUBSET (SUBSET S)  OBVIOUS
<1>3. PICK T \in Wrong : \A W \in Wrong : W \subseteq T => W = T
  <2> HIDE DEF Wrong
  <2> QED  BY <1>1, <1>2, SmallestSet
<1>4. T \in SUBSET S /\ SumFunctionOnSet(f, T) \notin N /\ IsFiniteSet(T)  BY FS_Subset
<1> DEFINE x == CHOOSE y \in T : TRUE
<1>5. SumFunctionOnSet(f, T) = IF T = {} THEN 0 ELSE f[x] + SumFunctionOnSet(f, T \ {x})
  BY <1>4, SumTakesOne
<1>6. T # {}  BY <1>4, <1>5
<1>7. x \in T  BY <1>6
<1> HIDE DEF x
<1>8. T \ {x} \in SUBSET S /\ T \ {x} \subseteq T /\ T \ {x} # T  BY <1>4, <1>7
<1>9. SumFunctionOnSet(f, T \ {x}) \in N
  <2>1. T \ {x} \notin Wrong
    <3> HIDE DEF Wrong
    <3> QED  BY <1>3, <1>8
  <2> QED  BY <1>8, <2>1
<1>10. f[x] \in N  BY <1>4, <1>7
<1> QED  BY <1>4, <1>5, <1>6, <1>9, <1>10

\* Any element may be taken first.
LEMMA SumTakesAny ==
  ASSUME NEW S, IsFiniteSet(S), NEW f \in [S -> Int]
  PROVE  \A T \in SUBSET S : \A c \in T :
           SumFunctionOnSet(f, T) = f[c] + SumFunctionOnSet(f, T \ {c})
<1> DEFINE Sum(T) == SumFunctionOnSet(f, T)
           Wrong == {T \in SUBSET S : \E c \in T : Sum(T) # f[c] + Sum(T \ {c})}
<1>1. SUFFICES ASSUME Wrong # {} PROVE FALSE  OBVIOUS
<1>2. Wrong \in SUBSET (SUBSET S)  OBVIOUS
<1>3. PICK T \in Wrong : \A W \in Wrong : W \subseteq T => W = T
  <2> HIDE DEF Wrong
  <2> QED  BY <1>1, <1>2, SmallestSet
<1>4. PICK c \in T : Sum(T) # f[c] + Sum(T \ {c})  OBVIOUS
<1>5. \A W \in SUBSET S : Sum(W) \in Int  BY SumIsNumber
<1>6. \A W \in SUBSET S : IsFiniteSet(W)  BY FS_Subset
<1> DEFINE x == CHOOSE y \in T : TRUE
<1>7. x \in T /\ T \in SUBSET S  BY <1>4
<1>8. Sum(T) = f[x] + Sum(T \ {x})  BY <1>6, <1>7, SumTakesOne
<1> HIDE DEF x
<1>9. x # c  BY <1>4, <1>8
<1>10. ASSUME NEW y \in T, NEW z \in T, y # z
       PROVE  Sum(T \ {y}) = f[z] + Sum((T \ {y}) \ {z})
  <2>1. T \ {y} \in SUBSET S /\ T \ {y} \subseteq T /\ T \ {y} # T /\ z \in T \ {y}
    BY <1>7, <1>10
  <2>2. T \ {y} \notin Wrong
    <3> HIDE DEF Wrong
    <3> QED  BY <1>3, <2>1
  <2> QED  BY <2>1, <2>2
<1>11. Sum(T \ {x}) = f[c] + Sum((T \ {x}) \ {c}) /\ Sum(T \ {c}) = f[x] + Sum((T \ {c}) \ {x})
  BY <1>7, <1>9, <1>10
<1>12. (T \ {x}) \ {c} = (T \ {c}) \ {x} /\ (T \ {x}) \ {c} \in SUBSET S
  BY <1>7
<1>13. /\ Sum((T \ {x}) \ {c}) \in Int /\ f[x] \in Int /\ f[c] \in Int /\ Sum(T) \in Int
       /\ Sum(T \ {c}) \in Int /\ Sum(T \ {x}) \in Int
  <2>1. T \ {c} \in SUBSET S /\ T \ {x} \in SUBSET S  BY <1>7
  <2> QED  BY <1>5, <1>7, <1>12, <2>1
<1>14. Sum((T \ {x}) \ {c}) = Sum((T \ {c}) \ {x})  BY <1>12
<1> HIDE DEF Sum
<1> QED  BY <1>4, <1>8, <1>11, <1>13, <1>14

\* Functions that agree on a set have the same sum there.
LEMMA SumOfSame ==
  ASSUME NEW S, IsFiniteSet(S), NEW f, NEW g, \A x \in S : f[x] = g[x]
  PROVE  SumFunctionOnSet(f, S) = SumFunctionOnSet(g, S)
<1> DEFINE Wrong == {T \in SUBSET S : SumFunctionOnSet(f, T) # SumFunctionOnSet(g, T)}
<1>1. SUFFICES ASSUME Wrong # {} PROVE FALSE  OBVIOUS
<1>2. Wrong \in SUBSET (SUBSET S)  OBVIOUS
<1>3. PICK T \in Wrong : \A W \in Wrong : W \subseteq T => W = T
  <2> HIDE DEF Wrong
  <2> QED  BY <1>1, <1>2, SmallestSet
<1>4. T \in SUBSET S /\ SumFunctionOnSet(f, T) # SumFunctionOnSet(g, T) /\ IsFiniteSet(T)
  BY FS_Subset
<1> DEFINE x == CHOOSE y \in T : TRUE
<1>5. /\ SumFunctionOnSet(f, T) = IF T = {} THEN 0 ELSE f[x] + SumFunctionOnSet(f, T \ {x})
      /\ SumFunctionOnSet(g, T) = IF T = {} THEN 0 ELSE g[x] + SumFunctionOnSet(g, T \ {x})
  BY <1>4, SumTakesOne
<1>6. T # {}  BY <1>4, <1>5
<1>7. x \in T  BY <1>6
<1> HIDE DEF x
<1>8. T \ {x} \in SUBSET S /\ T \ {x} \subseteq T /\ T \ {x} # T  BY <1>4, <1>7
<1>9. SumFunctionOnSet(f, T \ {x}) = SumFunctionOnSet(g, T \ {x})
  <2>1. T \ {x} \notin Wrong
    <3> HIDE DEF Wrong
    <3> QED  BY <1>3, <1>8
  <2> QED  BY <1>8, <2>1
<1>10. f[x] = g[x]  BY <1>4, <1>7
<1> QED  BY <1>4, <1>5, <1>6, <1>9, <1>10

LEMMA SumNumber ==
  ASSUME NEW S, IsFiniteSet(S), NEW N \in {Nat, Int}, NEW f \in [S -> N]
  PROVE  SumFunction(f) \in N
<1>1. DOMAIN f = S /\ S \in SUBSET S  OBVIOUS
<1> QED  BY <1>1, SumIsNumber DEF SumFunction

LEMMA SumZero ==
  ASSUME NEW S, IsFiniteSet(S)
  PROVE  SumFunction([x \in S |-> 0]) = 0
<1> DEFINE f == [x \in S |-> 0]
           Wrong == {T \in SUBSET S : SumFunctionOnSet(f, T) # 0}
<1>0. SUFFICES SumFunction(f) = 0  OBVIOUS
<1>1. SUFFICES Wrong = {}
  <2>1. DOMAIN f = S /\ S \in SUBSET S  OBVIOUS
  <2> HIDE DEF f
  <2> QED  BY <2>1 DEF SumFunction
<1>2. SUFFICES ASSUME Wrong # {} PROVE FALSE  OBVIOUS
<1>3. PICK T \in Wrong : \A W \in Wrong : W \subseteq T => W = T
  <2>1. Wrong \in SUBSET (SUBSET S)  OBVIOUS
  <2> HIDE DEF Wrong
  <2> QED  BY <1>2, <2>1, SmallestSet
<1>4. T \in SUBSET S /\ SumFunctionOnSet(f, T) # 0 /\ IsFiniteSet(T)  BY FS_Subset
<1> DEFINE x == CHOOSE y \in T : TRUE
<1>5. SumFunctionOnSet(f, T) = IF T = {} THEN 0 ELSE f[x] + SumFunctionOnSet(f, T \ {x})
  <2> HIDE DEF f
  <2> QED  BY <1>4, SumTakesOne
<1>6. T # {}  BY <1>4, <1>5
<1>7. x \in T  BY <1>6
<1> HIDE DEF x
<1>8. f[x] = 0  BY <1>4, <1>7
<1>9. T \ {x} \in SUBSET S /\ T \ {x} \subseteq T /\ T \ {x} # T  BY <1>4, <1>7
<1>10. SumFunctionOnSet(f, T \ {x}) = 0
  <2>1. T \ {x} \notin Wrong
    <3> HIDE DEF Wrong
    <3> QED  BY <1>3, <1>9
  <2> QED  BY <1>9, <2>1
<1> HIDE DEF f
<1> QED  BY <1>4, <1>5, <1>6, <1>8, <1>10

\* One value changes, and the sum by as much.
LEMMA SumChange ==
  ASSUME NEW S, IsFiniteSet(S), NEW f \in [S -> Int], NEW g \in [S -> Int], NEW c \in S,
         \A x \in S \ {c} : g[x] = f[x]
  PROVE  SumFunction(g) = SumFunction(f) + g[c] - f[c]
<1>1. DOMAIN f = S /\ DOMAIN g = S /\ S \in SUBSET S /\ S \ {c} \in SUBSET S  OBVIOUS
<1>2. SumFunctionOnSet(f, S) = f[c] + SumFunctionOnSet(f, S \ {c})  BY <1>1, SumTakesAny
<1>3. SumFunctionOnSet(g, S) = g[c] + SumFunctionOnSet(g, S \ {c})  BY <1>1, SumTakesAny
<1>4. SumFunctionOnSet(g, S \ {c}) = SumFunctionOnSet(f, S \ {c})
  <2>1. IsFiniteSet(S \ {c})  BY <1>1, FS_Subset
  <2> DEFINE R == S \ {c}
  <2>2. IsFiniteSet(R) /\ \A x \in R : g[x] = f[x]  BY <2>1
  <2> HIDE DEF R
  <2>3. SumFunctionOnSet(g, R) = SumFunctionOnSet(f, R)  BY <2>2, SumOfSame
  <2> QED  BY <2>3 DEF R
<1>5. SumFunctionOnSet(f, S \ {c}) \in Int /\ f[c] \in Int /\ g[c] \in Int  BY <1>1, SumIsNumber
<1>6. SumFunction(f) = SumFunctionOnSet(f, S) /\ SumFunction(g) = SumFunctionOnSet(g, S)
  BY <1>1 DEF SumFunction
<1> QED  BY <1>2, <1>3, <1>4, <1>5, <1>6

\* A sum is at most the largest value for each value that is not zero.
LEMMA SumBound ==
  ASSUME NEW S, IsFiniteSet(S), NEW f \in [S -> Nat], NEW m \in Nat, \A x \in S : f[x] <= m
  PROVE  SumFunction(f) <= Cardinality({x \in S : f[x] # 0}) * m
<1> DEFINE Sum(T) == SumFunctionOnSet(f, T)
           Some(T) == {x \in T : f[x] # 0}
           Wrong == {T \in SUBSET S : ~(Sum(T) <= Cardinality(Some(T)) * m)}
<1>0. f \in [S -> Int]  OBVIOUS
<1>1. SUFFICES Wrong = {}
  <2>1. DOMAIN f = S /\ S \in SUBSET S  OBVIOUS
  <2> QED  BY <2>1 DEF SumFunction
<1>2. SUFFICES ASSUME Wrong # {} PROVE FALSE  OBVIOUS
<1>3. PICK T \in Wrong : \A W \in Wrong : W \subseteq T => W = T
  <2>1. Wrong \in SUBSET (SUBSET S)  OBVIOUS
  <2> HIDE DEF Wrong
  <2> QED  BY <1>2, <2>1, SmallestSet
<1>4. T \in SUBSET S /\ ~(Sum(T) <= Cardinality(Some(T)) * m)  OBVIOUS
<1>5. IsFiniteSet(T) /\ IsFiniteSet(Some(T)) /\ Cardinality(Some(T)) \in Nat
  <2>1. IsFiniteSet(T)  BY <1>4, FS_Subset
  <2>2. IsFiniteSet(Some(T))  BY <2>1, FS_Subset
  <2> QED  BY <2>1, <2>2, FS_CardinalityType
<1>6. T # {}
  <2>1. CASE T = {}
    <3>1. Sum(T) = 0  BY <1>5, <2>1, SumTakesOne
    <3>2. Cardinality(Some(T)) = 0  BY <2>1, FS_EmptySet
    <3> QED  BY <1>4, <3>1, <3>2
  <2> QED  BY <2>1
<1>7. PICK c \in T : TRUE  BY <1>6
<1> DEFINE R == T \ {c}
<1>8. Sum(T) = f[c] + Sum(R)  BY <1>0, <1>4, SumTakesAny
<1>9. R \in SUBSET S /\ R \subseteq T /\ R # T  BY <1>4, <1>7
<1>10. Sum(R) <= Cardinality(Some(R)) * m
  <2>1. R \notin Wrong
    <3> HIDE DEF Wrong, R
    <3> QED  BY <1>3, <1>9
  <2> QED  BY <1>9, <2>1
<1>11. Sum(R) \in Nat /\ f[c] \in Nat /\ f[c] <= m  BY <1>4, <1>9, SumIsNumber
<1>12. Cardinality(Some(R)) = IF f[c] # 0 THEN Cardinality(Some(T)) - 1 ELSE Cardinality(Some(T))
  <2>1. Some(R) = Some(T) \ {c}  OBVIOUS
  <2>2. c \in Some(T) <=> f[c] # 0  BY <1>7
  <2> DEFINE V == Some(T)
  <2>3. IsFiniteSet(V)  BY <1>5
  <2>4. Cardinality(V \ {c}) = IF c \in V THEN Cardinality(V) - 1 ELSE Cardinality(V)
    <3> HIDE DEF V
    <3> QED  BY <2>3, FS_RemoveElement
  <2>5. Cardinality(Some(R)) = Cardinality(V \ {c})  BY <2>1
  <2> QED  BY <2>2, <2>4, <2>5
<1> DEFINE k == Cardinality(Some(T))
<1>13. CASE f[c] = 0  BY <1>4, <1>8, <1>10, <1>11, <1>12, <1>13
<1>14. CASE f[c] # 0
  <2>1. Sum(R) <= (k - 1) * m  BY <1>10, <1>12, <1>14
  <2>2. (k - 1) * m = k * m - m /\ k * m \in Int  BY <1>5
  <2> QED  BY <1>4, <1>8, <1>11, <2>1, <2>2
<1> QED  BY <1>13, <1>14

\* An element more, or without its element.
LEMMA SumAdds ==
  ASSUME NEW S, IsFiniteSet(S), NEW c, c \notin S, NEW f \in [S -> Int], NEW g \in [S \cup {c} -> Int],
         \A x \in S : g[x] = f[x]
  PROVE  SumFunction(g) = SumFunction(f) + g[c]
<1> DEFINE T == S \cup {c}
<1>1. IsFiniteSet(T) /\ T \in SUBSET T /\ c \in T /\ T \ {c} = S  BY FS_AddElement
<1>2. DOMAIN f = S /\ DOMAIN g = T /\ g \in [T -> Int]  OBVIOUS
<1> HIDE DEF T
<1>3. SumFunctionOnSet(g, T) = g[c] + SumFunctionOnSet(g, S)  BY <1>1, <1>2, SumTakesAny
<1>4. SumFunctionOnSet(g, S) = SumFunctionOnSet(f, S)  BY SumOfSame
<1>5. SumFunctionOnSet(f, S) \in Int  BY SumIsNumber
<1>6. g[c] \in Int  BY <1>1, <1>2
<1> QED  BY <1>2, <1>3, <1>4, <1>5, <1>6 DEF SumFunction

\* No value is larger than the sum, nor are two.
LEMMA SumHolds ==
  ASSUME NEW S, IsFiniteSet(S), NEW f \in [S -> Nat], NEW a \in S
  PROVE  /\ f[a] <= SumFunction(f)
         /\ \A b \in S \ {a} : f[a] + f[b] <= SumFunction(f)
<1> DEFINE Sum(T) == SumFunctionOnSet(f, T)
<1>1. \A T \in SUBSET S : Sum(T) \in Nat  BY SumIsNumber
<1>2. f \in [S -> Int] /\ DOMAIN f = S /\ S \in SUBSET S /\ S \ {a} \in SUBSET S  OBVIOUS
<1>3. Sum(S) = f[a] + Sum(S \ {a})  BY <1>2, SumTakesAny
<1>4. ASSUME NEW b \in S \ {a}
      PROVE  Sum(S \ {a}) = f[b] + Sum((S \ {a}) \ {b}) /\ (S \ {a}) \ {b} \in SUBSET S
  BY <1>2, SumTakesAny
<1> HIDE DEF Sum
<1>5. f[a] <= Sum(S)  BY <1>1, <1>2, <1>3
<1>6. ASSUME NEW b \in S \ {a}
      PROVE  f[a] + f[b] <= Sum(S)
  <2>1. Sum(S \ {a}) = f[b] + Sum((S \ {a}) \ {b}) /\ Sum((S \ {a}) \ {b}) \in Nat
    BY <1>1, <1>4
  <2> QED  BY <1>3, <2>1
<1>7. SumFunction(f) = Sum(S)  BY <1>2 DEF SumFunction, Sum
<1> QED  BY <1>5, <1>6, <1>7

-----------------------------------------------------------------------------
(* Elements that are picked by their places.                                *)

LEMMA Places ==
  ASSUME NEW I, IsFiniteSet(I), \A i \in I : i \in Nat, NEW n \in 1..Cardinality(I)
  PROVE  Place(I, n) \in I /\ Cardinality({j \in I : j <= Place(I, n)}) = n
<1> DEFINE Upto(U, i) == {j \in U : j <= i}
           Has(U) == \A m \in 1..Cardinality(U) : \E i \in U : Cardinality(Upto(U, i)) = m
           Wrong == {U \in SUBSET I : ~Has(U)}
<1>1. SUFFICES Wrong = {}
  <2>1. I \in SUBSET I  OBVIOUS
  <2>2. Has(I)  BY <1>1, <2>1
  <2>3. PICK i \in I : Cardinality({j \in I : j <= i}) = n  BY <2>2
  <2> DEFINE Count(j) == Cardinality({k \in I : k <= j})
             q == CHOOSE j \in I : Count(j) = n
  <2>4. \E j \in I : Count(j) = n  BY <2>3
  <2>5. q \in I /\ Count(q) = n
    <3> HIDE DEF Count
    <3> QED  BY <2>4
  <2>6. Place(I, n) = q  BY DEF Place
  <2> QED  BY <2>5, <2>6
<1>2. SUFFICES ASSUME Wrong # {} PROVE FALSE  OBVIOUS
<1>3. Wrong \in SUBSET (SUBSET I)  OBVIOUS
<1>4. PICK U \in Wrong : \A W \in Wrong : W \subseteq U => W = U
  <2>1. IsFiniteSet(I)  OBVIOUS
  <2>2. \A T \in SUBSET (SUBSET I) : T # {} => \E U \in T : \A W \in T : W \subseteq U => W = U
    BY <2>1, SmallestSet
  <2> HIDE DEF Wrong
  <2> QED  BY <1>2, <1>3, <2>2
<1>5. U \in SUBSET I /\ ~Has(U) /\ IsFiniteSet(U)  BY <1>4, FS_Subset
<1>6. PICK m \in 1..Cardinality(U) : \A i \in U : Cardinality(Upto(U, i)) # m  BY <1>5
<1>7. Cardinality(U) \in Nat /\ U # {}  BY <1>5, <1>6, FS_CardinalityType, FS_EmptySet
<1>8. Max(U) \in U /\ \A y \in U : Max(U) >= y
  <2>1. U \in SUBSET Int  BY <1>5
  <2> QED  BY <1>5, <1>7, <2>1, MaxOfSet
<1> DEFINE t == Max(U)
           R == U \ {t}
<1>9. Cardinality(R) = Cardinality(U) - 1 /\ IsFiniteSet(R)  BY <1>5, <1>8, FS_RemoveElement
<1>10. m # Cardinality(U)
  <2>1. Upto(U, t) = U  BY <1>5, <1>8
  <2> QED  BY <1>6, <1>8, <2>1
<1>11. Has(R)
  <2>1. R \in SUBSET I /\ R \subseteq U /\ R # U  BY <1>5, <1>8
  <2>2. R \notin Wrong
    <3> HIDE DEF Wrong, R
    <3> QED  BY <1>4, <2>1
  <2> QED  BY <2>1, <2>2
<1>12. PICK i \in R : Cardinality(Upto(R, i)) = m
  <2>1. m \in 1..Cardinality(R)  BY <1>6, <1>7, <1>9, <1>10
  <2> QED  BY <1>11, <2>1
<1>13. Upto(R, i) = Upto(U, i)
  <2>1. i \in Nat /\ t \in Nat /\ i <= t /\ i # t  BY <1>5, <1>8, <1>12
  <2> QED  BY <2>1
<1> QED  BY <1>6, <1>12, <1>13

LEMMA Picking ==
  ASSUME NEW A, NEW s \in Seq(A), NEW I \in SUBSET DOMAIN s
  PROVE  /\ Pick(s, I) \in Seq(A) /\ Len(Pick(s, I)) = Cardinality(I)
         /\ \A n \in DOMAIN Pick(s, I) : \E i \in I : Pick(s, I)[n] = s[i]
         /\ Pick(s, I) = s <=> I = DOMAIN s
<1>1. /\ DOMAIN s = 1..Len(s) /\ Len(s) \in Nat /\ \A i \in DOMAIN s : s[i] \in A
      /\ s = [i \in 1..Len(s) |-> s[i]]
  BY LenProperties, ElementOfSeq
<1>2. IsFiniteSet(1..Len(s)) /\ Cardinality(1..Len(s)) = Len(s)
  <2>1. Len(s) \in Nat  BY <1>1
  <2> QED  BY <2>1, FS_Interval
<1>3. IsFiniteSet(I) /\ \A i \in I : i \in Nat  BY <1>1, <1>2, FS_Subset
<1>4. Cardinality(I) \in Nat  BY <1>3, FS_CardinalityType
<1> DEFINE c == Cardinality(I)
           p == Pick(s, I)
<1>5. \A n \in 1..c : Place(I, n) \in I  BY <1>3, Places
<1>6. p = [n \in 1..c |-> s[Place(I, n)]]  BY DEF Pick
<1>7. p \in [1..c -> A]  BY <1>1, <1>5, <1>6
<1>8. p \in Seq(A) /\ Len(p) = c  BY <1>4, <1>7, FunctionIsSeq
<1>9. \A n \in DOMAIN p : \E i \in I : p[n] = s[i]  BY <1>5, <1>6
<1>10. ASSUME p = s PROVE I = DOMAIN s
  <2>1. c = Len(s)  BY <1>8, <1>10
  <2> QED  BY <1>1, <1>2, <2>1, FS_Subset
<1>11. ASSUME I = DOMAIN s PROVE p = s
  <2>1. c = Len(s)  BY <1>1, <1>2, <1>11
  <2>2. ASSUME NEW n \in 1..Len(s) PROVE Place(I, n) = n
    <3> DEFINE q == Place(I, n)
    <3>1. q \in 1..Len(s) /\ Cardinality({j \in 1..Len(s) : j <= q}) = n
      BY <1>1, <1>3, <1>11, <2>1, Places
    <3>2. {j \in 1..Len(s) : j <= q} = 1..q  BY <1>1, <3>1
    <3>3. Cardinality(1..q) = q
      <4>1. q \in Nat /\ q >= 1  BY <1>1, <3>1
      <4> HIDE DEF q
      <4> QED  BY <4>1, FS_Interval
    <3> QED  BY <3>1, <3>2, <3>3
  <2>3. p = [n \in 1..Len(s) |-> s[n]]
    <3> HIDE DEF p, c
    <3> QED  BY <1>6, <2>1, <2>2
  <2> QED  BY <1>1, <2>3
<1> QED  BY <1>8, <1>9, <1>10, <1>11

-----------------------------------------------------------------------------
(* Recursive functions of numbers, and what is put one after the other.     *)

\* A set of numbers that has 0, and with a number the next one up to n, has all up to n.
LEMMA Climbing ==
  ASSUME NEW n \in Nat, NEW T, 0 \in T, \A i \in 1..n : i - 1 \in T => i \in T
  PROVE  \A i \in 0..n : i \in T
<1>. DEFINE Wrong == {i \in 0..n : i \notin T}
<1>1. SUFFICES ASSUME Wrong # {} PROVE FALSE
  OBVIOUS
<1>2. Min(Wrong) \in Wrong /\ \A y \in Wrong : Min(Wrong) <= y
  <2>1. IsFiniteSet(0..n)
    BY FS_Interval
  <2>2. IsFiniteSet(Wrong) /\ Wrong \in SUBSET Int
    BY <2>1, FS_Subset
  <2>. HIDE DEF Wrong
  <2>. QED  BY <1>1, <2>2, MinOfSet
<1>. DEFINE m == Min(Wrong)
<1>3. m \in 1..n /\ m \notin T
  BY <1>2
<1>4. m - 1 \notin Wrong
  <2>. HIDE DEF Wrong
  <2>. QED  BY <1>2, <1>3
<1>. QED
  BY <1>3, <1>4

\* A recursive function of numbers exists when its steps stay within a set.
Runs(g, n, V, a, step) ==
  g \in [0..n -> V] /\ g[0] = a /\ \A i \in 1..n : g[i] = step[i][g[i - 1]]
LEMMA Recursion ==
  ASSUME NEW n \in Nat, NEW V, NEW a \in V, NEW step \in [1..n -> [V -> V]]
  PROVE  \E g : Runs(g, n, V, a, step)
<1>. DEFINE Has(g, m) == g \in [0..m -> V] /\ g[0] = a /\ \A i \in 1..m : g[i] = step[i][g[i - 1]]
            T == {m \in 0..n : \E g : Has(g, m)}
<1>1. 0 \in T
  <2>. DEFINE g == [i \in 0..0 |-> a]
  <2>1. Has(g, 0) /\ 0 \in 0..n
    OBVIOUS
  <2>. HIDE DEF g, Has
  <2>. QED  BY <2>1
<1>2. ASSUME NEW m \in 1..n, m - 1 \in T PROVE m \in T
  <2>1. PICK g : Has(g, m - 1)
    BY <1>2
  <2>. DEFINE h == [i \in 0..m |-> IF i = m THEN step[m][g[m - 1]] ELSE g[i]]
  <2>2. g[m - 1] \in V
    BY <2>1
  <2>3. h \in [0..m -> V] /\ h[0] = a
    BY <2>1, <2>2
  <2>4. ASSUME NEW i \in 1..m PROVE h[i] = step[i][h[i - 1]]
    <3>1. i - 1 \in 0..(m - 1) /\ h[i - 1] = g[i - 1]
      OBVIOUS
    <3>2. CASE i = m
      <4>1. h[i] = step[m][g[m - 1]]
        BY <3>2
      <4>. QED  BY <3>1, <3>2, <4>1
    <3>3. CASE i # m
      <4>1. i \in 1..(m - 1) /\ h[i] = g[i]
        BY <3>3
      <4>. QED  BY <2>1, <3>1, <4>1
    <3>. QED  BY <3>2, <3>3
  <2>5. Has(h, m)
    <3>. HIDE DEF h
    <3>. QED  BY <2>3, <2>4
  <2>6. m \in 0..n
    OBVIOUS
  <2>. HIDE DEF h, Has
  <2>. QED  BY <2>5, <2>6
<1>3. n \in T
  <2>. HIDE DEF T
  <2>1. n \in 0..n
    OBVIOUS
  <2>. QED  BY <1>1, <1>2, <2>1, Climbing
<1>4. PICK g : Has(g, n)
  BY <1>3
<1>. QED
  BY <1>4 DEF Runs

\* The elements of sequences that are put one after the other.
LEMMA Flattening ==
  ASSUME NEW S, NEW seqs \in Seq(Seq(S))
  PROVE  /\ FlattenSeq(seqs) \in Seq(S)
         /\ \A x : (\E k \in DOMAIN FlattenSeq(seqs) : FlattenSeq(seqs)[k] = x)
                   <=> \E i \in DOMAIN seqs : \E j \in DOMAIN seqs[i] : seqs[i][j] = x
<1>1. /\ Len(seqs) \in Nat /\ DOMAIN seqs = 1..Len(seqs)
      /\ \A i \in DOMAIN seqs : seqs[i] \in Seq(S)
  BY LenProperties, ElementOfSeq
<1>2. CASE Len(seqs) = 0
  <2>1. FlattenSeq(seqs) = seqs
    BY <1>2, Zenon DEF FlattenSeq
  <2>2. seqs = << >>
    BY <1>2, EmptySeq
  <2>3. DOMAIN seqs = {}
    BY <1>1, <1>2
  <2>. QED  BY <2>1, <2>2, <2>3
<1>3. CASE Len(seqs) # 0
  <2>. DEFINE N == Len(seqs)
              Is(g) == g = [i \in 1..N |-> IF i = 1 THEN seqs[i] ELSE g[i - 1] \o seqs[i]]
              step == [i \in 1..(N - 1) |-> [s \in Seq(S) |-> s \o seqs[i + 1]]]
              Upto(m, x) == \E i \in 1..m : \E j \in DOMAIN seqs[i] : seqs[i][j] = x
              In(s, x) == \E k \in DOMAIN s : s[k] = x
  <2>1. N \in Nat /\ N - 1 \in Nat /\ seqs[1] \in Seq(S)
    BY <1>1, <1>3
  <2>2. step \in [1..(N - 1) -> [Seq(S) -> Seq(S)]]
    <3>. SUFFICES ASSUME NEW i \in 1..(N - 1), NEW s \in Seq(S) PROVE s \o seqs[i + 1] \in Seq(S)
      OBVIOUS
    <3>1. seqs[i + 1] \in Seq(S)
      BY <1>1, <2>1
    <3>. QED  BY <3>1, ConcatProperties
  <2>3. PICK h \in [0..(N - 1) -> Seq(S)] :
          h[0] = seqs[1] /\ \A i \in 1..(N - 1) : h[i] = step[i][h[i - 1]]
    <3>. DEFINE n == N - 1
                V == Seq(S)
                a == seqs[1]
    <3>1. n \in Nat /\ a \in V /\ step \in [1..n -> [V -> V]]
      BY <2>1, <2>2
    <3>. HIDE DEF step, N, n, V, a
    <3>2. PICK g : Runs(g, n, V, a, step)
      BY <3>1, Recursion
    <3>. QED  BY <3>2 DEF n, V, a, Runs
  <2>. DEFINE f == [i \in 1..N |-> h[i - 1]]
  <2>4. ASSUME NEW i \in 1..N PROVE f[i] = IF i = 1 THEN seqs[i] ELSE f[i - 1] \o seqs[i]
    <3>1. CASE i = 1  BY <2>1, <2>3, <3>1
    <3>2. CASE i # 1
      <4>1. i - 1 \in 1..(N - 1) /\ i - 1 \in 1..N /\ (i - 1) - 1 \in 0..(N - 1) /\ (i - 1) + 1 = i
        BY <2>1, <3>2
      <4>2. h[i - 1] = h[(i - 1) - 1] \o seqs[i]
        BY <2>3, <4>1
      <4>. QED  BY <3>2, <4>1, <4>2
    <3>. QED  BY <3>1, <3>2
  <2>5. \E g : Is(g)
    <3>1. f = [i \in 1..N |-> IF i = 1 THEN seqs[i] ELSE f[i - 1] \o seqs[i]]
      <4>1. f = [i \in 1..N |-> f[i]]
        OBVIOUS
      <4>. HIDE DEF f
      <4>. QED  BY <2>4, <4>1
    <3>. QED  BY <3>1
  <2>. DEFINE flatten == CHOOSE g : Is(g)
  <2>6. Is(flatten)
    <3>. HIDE DEF Is
    <3>. QED  BY <2>5
  <2>7. FlattenSeq(seqs) = flatten[N]
    BY <1>3, Zenon DEF FlattenSeq
  <2>. HIDE DEF flatten
  <2>8. \A i \in 1..N : flatten[i] = IF i = 1 THEN seqs[i] ELSE flatten[i - 1] \o seqs[i]
    BY <2>6
  <2>. DEFINE T == {m \in 0..N : m = 0 \/ (flatten[m] \in Seq(S) /\ \A x : In(flatten[m], x) <=> Upto(m, x))}
  <2>9. ASSUME NEW m \in 1..N, m - 1 \in T PROVE m \in T
    <3>1. CASE m = 1
      <4>1. flatten[m] = seqs[1]
        BY <2>8, <3>1
      <4>2. \A x : Upto(1, x) <=> In(seqs[1], x)
        OBVIOUS
      <4>. QED  BY <2>1, <3>1, <4>1, <4>2
    <3>2. CASE m # 1
      <4>. DEFINE s == flatten[m - 1]
                  t == seqs[m]
      <4>1. flatten[m] = s \o t /\ t \in Seq(S)
        BY <1>1, <2>8, <3>2
      <4>2. s \in Seq(S) /\ \A x : In(s, x) <=> Upto(m - 1, x)
        BY <2>9, <3>2
      <4>. HIDE DEF s, t
      <4>3. /\ s \o t \in Seq(S)
            /\ DOMAIN (s \o t) = 1..(Len(s) + Len(t)) /\ Len(s) \in Nat /\ Len(t) \in Nat
            /\ DOMAIN s = 1..Len(s) /\ DOMAIN t = 1..Len(t)
            /\ \A k \in 1..(Len(s) + Len(t)) :
                 (s \o t)[k] = IF k <= Len(s) THEN s[k] ELSE t[k - Len(s)]
        BY <4>1, <4>2, ConcatProperties, LenProperties
      <4>4. ASSUME NEW x PROVE In(s \o t, x) <=> In(s, x) \/ In(t, x)
        <5>1. ASSUME NEW k \in DOMAIN s, s[k] = x PROVE In(s \o t, x)
          <6>1. k \in DOMAIN (s \o t) /\ (s \o t)[k] = x
            BY <4>3, <5>1
          <6>. QED  BY <6>1
        <5>2. ASSUME NEW k \in DOMAIN t, t[k] = x PROVE In(s \o t, x)
          <6>1. Len(s) + k \in DOMAIN (s \o t) /\ (s \o t)[Len(s) + k] = x
            BY <4>3, <5>2
          <6>. QED  BY <6>1
        <5>3. ASSUME NEW k \in DOMAIN (s \o t), (s \o t)[k] = x PROVE In(s, x) \/ In(t, x)
          <6>1. CASE k <= Len(s)
            <7>1. k \in DOMAIN s /\ s[k] = x
              BY <4>3, <5>3, <6>1
            <7>. QED  BY <7>1
          <6>2. CASE ~(k <= Len(s))
            <7>1. k - Len(s) \in DOMAIN t /\ t[k - Len(s)] = x
              BY <4>3, <5>3, <6>2
            <7>. QED  BY <7>1
          <6>. QED  BY <6>1, <6>2
        <5>. QED  BY <5>1, <5>2, <5>3
      <4>5. ASSUME NEW x PROVE Upto(m, x) <=> Upto(m - 1, x) \/ In(t, x)
        <5>1. 1..m = 1..(m - 1) \cup {m}
          OBVIOUS
        <5>. QED  BY <5>1 DEF t
      <4>6. m \in 0..N /\ flatten[m] = s \o t
        BY <2>1, <4>1
      <4>. HIDE DEF Upto, In, N
      <4>. QED  BY <4>2, <4>3, <4>4, <4>5, <4>6
    <3>. QED  BY <3>1, <3>2
  <2>10. N \in T
    <3>1. 0 \in T /\ N \in 0..N
      BY <2>1
    <3>. HIDE DEF T, N
    <3>. QED  BY <2>1, <2>9, <3>1, Climbing
  <2>. QED
    BY <1>1, <1>3, <2>7, <2>10
<1>. QED
  BY <1>2, <1>3
=============================================================================
