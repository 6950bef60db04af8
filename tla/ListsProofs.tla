----------------------------- MODULE ListsProofs -----------------------------
(***************************************************************************)
(* What the list operations of Lists return, for every list.               *)
(*                                                                         *)
(* The induction theorems of the library take a predicate as a parameter;  *)
(* here a predicate is the set of the numbers it holds for, so that the    *)
(* provers can instantiate the theorem.                                    *)
(***************************************************************************)
EXTENDS Lists, TLAPS, FiniteSetTheorems

\* The order of the natural numbers as a set of pairs.
Less == {ss \in Nat \X Nat : ss[1] < ss[2]}
\* It has no infinite descending chain.
LEMMA LessWellFounded == IsWellFoundedOn(Less, Nat)
<1>1. Less = OpToRel(<, Nat)
  BY DEF Less, OpToRel
<1> QED
  BY <1>1, NatLessThanWellFounded

\* A set of natural numbers that is not empty has a least element.
LEMMA NatMinimum ==
  ASSUME NEW T \in SUBSET Nat, T # {}
  PROVE  \E x \in T : \A y \in T : x <= y
<1>1. PICK x \in T : \A y \in T : ~ (<<y, x>> \in Less)
  BY LessWellFounded, WFMin
<1>2. \A y \in T : ~ (y < x)
  BY <1>1 DEF Less
<1>3. \A y \in T : x <= y
  BY <1>2
<1> QED
  BY <1>3

\* Induction: a set that has 0 and with each number the next one has them all.
LEMMA SetInduction ==
  ASSUME NEW S, 0 \in S, \A n \in Nat : n \in S => n + 1 \in S
  PROVE  \A n \in Nat : n \in S
<1> SUFFICES ASSUME Nat \ S # {} PROVE FALSE
  OBVIOUS
<1>1. PICK x \in Nat \ S : \A y \in Nat \ S : x <= y
  BY NatMinimum
<1>2. x # 0 /\ x - 1 \in Nat
  BY <1>1
<1>3. x - 1 \in S
  BY <1>1, <1>2
<1>4. (x - 1) + 1 \in S
  BY <1>2, <1>3
<1> QED
  BY <1>1, <1>4

-----------------------------------------------------------------------------
(* Removing elements from a list.                                          *)

\* The n-th value of the recursion in Kept, when the earlier ones are those of g.
Step(g, s, S, n) ==
  IF n = 0 THEN <<>> ELSE IF s[n] \in S THEN Append(g[n - 1], s[n]) ELSE g[n - 1]

\* There is a function that satisfies the recursion, up to every m.
LEMMA KeptExists ==
  ASSUME NEW s, NEW S
  PROVE  \A m \in Nat : \E g : g = [n \in 0..m |-> Step(g, s, S, n)]
<1> DEFINE I == {m \in Nat : \E g : g = [n \in 0..m |-> Step(g, s, S, n)]}
<1>1. 0 \in I
  <2>1. [n \in 0..0 |-> <<>>] = [n \in 0..0 |-> Step([k \in 0..0 |-> <<>>], s, S, n)]
    BY DEF Step
  <2> QED
    BY <2>1
<1>2. ASSUME NEW m \in Nat, m \in I PROVE m + 1 \in I
  <2>1. PICK g : g = [n \in 0..m |-> Step(g, s, S, n)]
    BY <1>2
  <2> DEFINE h == [n \in 0..(m + 1) |-> IF n = m + 1 THEN Step(g, s, S, n) ELSE g[n]]
  <2>2. \A n \in 0..(m + 1) : h[n] = Step(h, s, S, n)
    <3>0. SUFFICES ASSUME NEW n \in 0..(m + 1) PROVE h[n] = Step(h, s, S, n)
      OBVIOUS
    <3>1. n # 0 => h[n - 1] = g[n - 1]
      OBVIOUS
    <3>2. n # m + 1 => g[n] = Step(g, s, S, n)
      BY <2>1
    <3>3. Step(h, s, S, n) = Step(g, s, S, n)
      BY <3>1 DEF Step
    <3> QED
      BY <3>2, <3>3
  <2>3. h = [n \in 0..(m + 1) |-> Step(h, s, S, n)]
    BY <2>2
  <2> HIDE DEF h
  <2> QED
    BY <2>3
<1> HIDE DEF I
<1>3. \A m \in Nat : m \in I
  BY <1>1, <1>2, SetInduction
<1> QED
  BY <1>3 DEF I

\* So Kept is the last value of such a function.
LEMMA KeptDef ==
  ASSUME NEW X, NEW s \in Seq(X), NEW S
  PROVE  \E g : /\ g = [n \in 0..Len(s) |-> Step(g, s, S, n)]
                /\ Kept(s, S) = g[Len(s)]
<1> DEFINE kept == CHOOSE g : g = [n \in 0..Len(s) |-> Step(g, s, S, n)]
<1>1. kept = [n \in 0..Len(s) |-> Step(kept, s, S, n)]
  BY KeptExists
<1>2. Kept(s, S) = kept[Len(s)]
  BY DEF Kept, Step
<1> QED
  BY <1>1, <1>2

\* What an element at the end of a list changes.
LEMMA AppendProperties ==
  ASSUME NEW X, NEW t \in Seq(X), NEW x \in X
  PROVE  /\ Append(t, x) \in Seq(X)
         /\ Range(Append(t, x)) = Range(t) \cup {x}
         /\ Append(t, x) # <<>>
         /\ IsInjective(t) /\ x \notin Range(t) => IsInjective(Append(t, x))
<1>1. Append(t, x) \in Seq(X) /\ Len(Append(t, x)) = Len(t) + 1 /\ Len(t) \in Nat
  OBVIOUS
<1>2. \A i \in 1..(Len(t) + 1) : Append(t, x)[i] = IF i = Len(t) + 1 THEN x ELSE t[i]
  OBVIOUS
<1>3. Range(Append(t, x)) = Range(t) \cup {x}
  BY <1>1, <1>2 DEF Range
<1>4. IsInjective(t) /\ x \notin Range(t) => IsInjective(Append(t, x))
  BY <1>1, <1>2 DEF Range, IsInjective
<1>5. Append(t, x) # <<>>
  BY <1>1
<1> QED
  BY <1>1, <1>3, <1>4, <1>5

\* Removing keeps a list a list; its elements are those of S; none is on it twice that
\* was not before.
LEMMA KeptProperties ==
  ASSUME NEW X, NEW s \in Seq(X), NEW S
  PROVE  /\ Kept(s, S) \in Seq(X)
         /\ \A x : x \in Range(Kept(s, S)) <=> x \in Range(s) /\ x \in S
         /\ IsInjective(s) => IsInjective(Kept(s, S))
<1>1. PICK g : g = [n \in 0..Len(s) |-> Step(g, s, S, n)] /\ Kept(s, S) = g[Len(s)]
  BY KeptDef
<1>2. g[0] = <<>> /\ \A n \in 0..Len(s) : n # 0 => g[n] = IF s[n] \in S THEN Append(g[n - 1], s[n]) ELSE g[n - 1]
  <2>1. \A n \in 0..Len(s) : g[n] = Step(g, s, S, n)
    <3> DEFINE h == [n \in 0..Len(s) |-> Step(g, s, S, n)]
    <3>1. \A n \in 0..Len(s) : h[n] = Step(g, s, S, n)
      OBVIOUS
    <3>2. g = h
      BY <1>1
    <3> HIDE DEF h
    <3> QED
      BY <3>1, <3>2
  <2>2. 0 \in 0..Len(s)
    OBVIOUS
  <2> QED
    BY <2>1, <2>2 DEF Step
<1> DEFINE Good(n) == /\ g[n] \in Seq(X)
                      /\ Range(g[n]) = {s[i] : i \in 1..n} \cap S
                      /\ IsInjective(s) => IsInjective(g[n])
           I == {n \in Nat : n <= Len(s) => Good(n)}
<1>3. 0 \in I
  <2>1. <<>> \in Seq(X) /\ Range(<<>>) = {} /\ IsInjective(<<>>)
    BY DEF Range, IsInjective
  <2>2. {s[i] : i \in 1..0} = {}
    OBVIOUS
  <2> QED
    BY <1>2, <2>1, <2>2
<1>4. ASSUME NEW n \in Nat, n \in I PROVE n + 1 \in I
  <2>0. SUFFICES ASSUME n + 1 <= Len(s) PROVE Good(n + 1)
    OBVIOUS
  <2>1. Good(n) /\ n + 1 \in 0..Len(s) /\ n + 1 # 0 /\ s[n + 1] \in X
    BY <2>0, <1>4
  <2>2. g[n + 1] = IF s[n + 1] \in S THEN Append(g[n], s[n + 1]) ELSE g[n]
    BY <2>1, <1>2
  <2>3. {s[i] : i \in 1..(n + 1)} = {s[i] : i \in 1..n} \cup {s[n + 1]}
    BY <2>1
  <2>4. IsInjective(s) => s[n + 1] \notin {s[i] : i \in 1..n}
    BY <2>1, <2>0 DEF IsInjective
  <2>5. CASE s[n + 1] \in S
    BY <2>1, <2>2, <2>3, <2>4, <2>5, AppendProperties
  <2>6. CASE s[n + 1] \notin S
    BY <2>1, <2>2, <2>3, <2>6
  <2> QED
    BY <2>5, <2>6
<1> HIDE DEF I
<1>5. Len(s) \in I
  BY <1>3, <1>4, SetInduction
<1>6. Good(Len(s))
  BY <1>5 DEF I
<1>7. Range(s) = {s[i] : i \in 1..Len(s)}
  BY DEF Range
<1> HIDE DEF Good
<1>8. Range(Kept(s, S)) = Range(s) \cap S
  BY <1>1, <1>6, <1>7 DEF Good
<1> QED
  BY <1>1, <1>6, <1>8 DEF Good

\* A new element at the head (llist_add, hash_add).
LEMMA ConsProperties ==
  ASSUME NEW X, NEW s \in Seq(X), NEW y \in X
  PROVE  /\ <<y>> \o s \in Seq(X)
         /\ \A x : x \in Range(<<y>> \o s) <=> x = y \/ x \in Range(s)
         /\ IsInjective(s) /\ y \notin Range(s) => IsInjective(<<y>> \o s)
<1> DEFINE t == <<y>> \o s
<1>1. t \in Seq(X) /\ Len(t) = Len(s) + 1 /\ Len(s) \in Nat
  OBVIOUS
<1>2. \A i \in 1..Len(t) : t[i] = IF i = 1 THEN y ELSE s[i - 1]
  OBVIOUS
<1>3. DOMAIN t = 1..(Len(s) + 1) /\ DOMAIN s = 1..Len(s)
  BY <1>1
<1> HIDE DEF t
<1>4. ASSUME NEW x PROVE x \in Range(t) <=> x = y \/ x \in Range(s)
  <2>1. ASSUME x \in Range(t) PROVE x = y \/ x \in Range(s)
    <3>1. PICK i \in 1..(Len(s) + 1) : t[i] = x
      BY <2>1, <1>3 DEF Range
    <3>2. i # 1 => i - 1 \in 1..Len(s) /\ s[i - 1] = x
      BY <3>1, <1>1, <1>2
    <3>3. i = 1 => x = y
      BY <3>1, <1>1, <1>2
    <3> QED
      BY <3>2, <3>3, <1>3 DEF Range
  <2>2. ASSUME x = y \/ x \in Range(s) PROVE x \in Range(t)
    <3>1. CASE x = y
      <4>1. 1 \in 1..(Len(s) + 1) /\ t[1] = y
        BY <1>1, <1>2
      <4> QED
        BY <3>1, <4>1, <1>3 DEF Range
    <3>2. CASE x \in Range(s)
      <4>1. PICK i \in 1..Len(s) : s[i] = x
        BY <3>2, <1>3 DEF Range
      <4>2. i + 1 \in 1..(Len(s) + 1) /\ t[i + 1] = x
        BY <4>1, <1>1, <1>2
      <4> QED
        BY <4>2, <1>3 DEF Range
    <3> QED
      BY <2>2, <3>1, <3>2
  <2> QED
    BY <2>1, <2>2
<1>5. ASSUME IsInjective(s), y \notin Range(s) PROVE IsInjective(t)
  <2>1. \A i \in 1..Len(s) : s[i] # y
    BY <1>3, <1>5 DEF Range
  <2>2. \A i, j \in 1..Len(s) : s[i] = s[j] => i = j
    BY <1>3, <1>5 DEF IsInjective
  <2>3. SUFFICES ASSUME NEW i \in 1..(Len(s) + 1), NEW j \in 1..(Len(s) + 1), t[i] = t[j] PROVE i = j
    BY <1>3 DEF IsInjective
  <2>4. CASE i = 1
    BY <1>1, <1>2, <2>1, <2>3, <2>4
  <2>5. CASE j = 1
    BY <1>1, <1>2, <2>1, <2>3, <2>5
  <2>6. CASE i # 1 /\ j # 1
    <3>1. i - 1 \in 1..Len(s) /\ j - 1 \in 1..Len(s) /\ s[i - 1] = s[j - 1]
      BY <1>1, <1>2, <2>3, <2>6
    <3> QED
      BY <2>2, <3>1
  <2> QED
    BY <2>4, <2>5, <2>6
<1> QED
  BY <1>1, <1>4, <1>5 DEF t
-----------------------------------------------------------------------------
(* Counting the elements of a list that are in a set.                      *)

Count(s, A) == Cardinality({i \in DOMAIN s : s[i] \in A})

\* There are finitely many.
LEMMA CountType ==
  ASSUME NEW X, NEW s \in Seq(X), NEW A
  PROVE  IsFiniteSet({i \in DOMAIN s : s[i] \in A}) /\ Count(s, A) \in Nat
<1>1. IsFiniteSet(1..Len(s)) /\ DOMAIN s = 1..Len(s)
  BY FS_Interval
<1>2. IsFiniteSet({i \in DOMAIN s : s[i] \in A})
  BY <1>1, FS_Subset
<1> QED
  BY <1>2, FS_CardinalityType DEF Count

\* None in the empty list.
LEMMA CountEmpty == ASSUME NEW A PROVE Count(<<>>, A) = 0
<1>1. {i \in DOMAIN <<>> : <<>>[i] \in A} = {}
  OBVIOUS
<1> QED
  BY <1>1, FS_EmptySet DEF Count

\* An element at the end counts once.
LEMMA CountAppend ==
  ASSUME NEW X, NEW s \in Seq(X), NEW x \in X, NEW A
  PROVE  Count(Append(s, x), A) = Count(s, A) + (IF x \in A THEN 1 ELSE 0)
<1> DEFINE t == Append(s, x)
           I == {i \in DOMAIN s : s[i] \in A}
           J == {i \in DOMAIN t : t[i] \in A}
<1>1. t \in Seq(X) /\ Len(t) = Len(s) + 1 /\ Len(s) \in Nat
  OBVIOUS
<1>2. \A i \in 1..(Len(s) + 1) : t[i] = IF i = Len(s) + 1 THEN x ELSE s[i]
  OBVIOUS
<1>3. DOMAIN t = 1..(Len(s) + 1) /\ DOMAIN s = 1..Len(s)
  BY <1>1
<1> HIDE DEF t
<1>4. x \in A => J = I \cup {Len(s) + 1}
  BY <1>1, <1>2, <1>3
<1>5. x \notin A => J = I
  BY <1>1, <1>2, <1>3
<1>6. Len(s) + 1 \notin I
  BY <1>1, <1>3
<1>7. IsFiniteSet(I) /\ Cardinality(I) \in Nat
  BY CountType DEF Count
<1>8. Cardinality(J) = Cardinality(I) + (IF x \in A THEN 1 ELSE 0)
  <2> HIDE DEF I, J
  <2>1. Cardinality(I \cup {Len(s) + 1}) = Cardinality(I) + 1
    BY <1>6, <1>7, FS_AddElement
  <2>2. CASE x \in A
    BY <1>4, <2>1, <2>2
  <2>3. CASE x \notin A
    BY <1>5, <1>7, <2>3
  <2> QED
    BY <2>2, <2>3
<1> QED
  BY <1>8 DEF Count, t

\* So does an element at the head.
LEMMA CountCons ==
  ASSUME NEW X, NEW s \in Seq(X), NEW x \in X, NEW A
  PROVE  Count(<<x>> \o s, A) = Count(s, A) + (IF x \in A THEN 1 ELSE 0)
<1> DEFINE t == <<x>> \o s
           I == {i \in DOMAIN s : s[i] \in A}
           J == {i \in DOMAIN t : t[i] \in A}
           f == [i \in I |-> i + 1]
<1>1. t \in Seq(X) /\ Len(t) = Len(s) + 1 /\ Len(s) \in Nat
  OBVIOUS
<1>2. \A i \in 1..(Len(s) + 1) : t[i] = IF i = 1 THEN x ELSE s[i - 1]
  OBVIOUS
<1>3. DOMAIN t = 1..(Len(s) + 1) /\ DOMAIN s = 1..Len(s)
  BY <1>1
<1> HIDE DEF t
<1>4. J \ {1} = {i + 1 : i \in I}
  <2>1. ASSUME NEW j \in J \ {1} PROVE j - 1 \in I /\ j = (j - 1) + 1
    BY <1>1, <1>2, <1>3
  <2>2. ASSUME NEW i \in I PROVE i + 1 \in J \ {1}
    BY <1>1, <1>2, <1>3
  <2> HIDE DEF I, J
  <2> QED
    BY <2>1, <2>2
<1>5. ExistsBijection(I, J \ {1})
  <2>1. I \subseteq Int
    BY <1>3
  <2> HIDE DEF I, J
  <2>2. f \in [I -> J \ {1}] /\ (\A i, j \in I : f[i] = f[j] => i = j)
    BY <1>4, <2>1
  <2>3. \A j \in J \ {1} : \E i \in I : f[i] = j
    BY <1>4
  <2>4. f \in Bijection(I, J \ {1})
    BY <2>2, <2>3 DEF Bijection, Injection, Surjection, IsInjective
  <2> QED
    BY <2>4 DEF ExistsBijection
<1>6. IsFiniteSet(I) /\ Cardinality(I) \in Nat
  BY CountType DEF Count
<1>7. 1 \in J <=> x \in A
  BY <1>1, <1>2, <1>3
<1>8. Cardinality(J) = Cardinality(I) + (IF x \in A THEN 1 ELSE 0)
  <2>0. IsFiniteSet(J)
    BY CountType, <1>1
  <2> HIDE DEF I, J
  <2>1. Cardinality(J \ {1}) = Cardinality(I)
    BY <1>5, <1>6, FS_Bijection
  <2>2. Cardinality(J \ {1}) = (IF 1 \in J THEN Cardinality(J) - 1 ELSE Cardinality(J)) /\ Cardinality(J) \in Nat
    BY <2>0, FS_RemoveElement, FS_CardinalityType
  <2> QED
    BY <1>6, <1>7, <2>1, <2>2
<1> QED
  BY <1>8 DEF Count, t
\* What Kept leaves of them are those in S.
LEMMA CountKept ==
  ASSUME NEW X, NEW s \in Seq(X), NEW S, NEW A
  PROVE  Count(Kept(s, S), A) = Count(s, A \cap S)
<1>1. PICK g : g = [n \in 0..Len(s) |-> Step(g, s, S, n)] /\ Kept(s, S) = g[Len(s)]
  BY KeptDef
<1>2. g[0] = <<>> /\ \A n \in 0..Len(s) : n # 0 => g[n] = IF s[n] \in S THEN Append(g[n - 1], s[n]) ELSE g[n - 1]
  <2>1. \A n \in 0..Len(s) : g[n] = Step(g, s, S, n)
    <3> DEFINE h == [n \in 0..Len(s) |-> Step(g, s, S, n)]
    <3>1. \A n \in 0..Len(s) : h[n] = Step(g, s, S, n)
      OBVIOUS
    <3>2. g = h
      BY <1>1
    <3> HIDE DEF h
    <3> QED
      BY <3>1, <3>2
  <2>2. 0 \in 0..Len(s)
    OBVIOUS
  <2> QED
    BY <2>1, <2>2 DEF Step
<1> DEFINE C(n) == {i \in 1..n : s[i] \in A \cap S}
           Good(n) == g[n] \in Seq(X) /\ Count(g[n], A) = Cardinality(C(n))
           I == {n \in Nat : n <= Len(s) => Good(n)}
<1>3. 0 \in I
  <2>1. <<>> \in Seq(X) /\ Count(<<>>, A) = 0
    BY CountEmpty
  <2>2. C(0) = {}
    OBVIOUS
  <2> QED
    BY <1>2, <2>1, <2>2, FS_EmptySet
<1>4. ASSUME NEW n \in Nat, n \in I PROVE n + 1 \in I
  <2>0. SUFFICES ASSUME n + 1 <= Len(s) PROVE Good(n + 1)
    OBVIOUS
  <2>1. Good(n) /\ n + 1 \in 0..Len(s) /\ n + 1 # 0 /\ s[n + 1] \in X
    BY <2>0, <1>4
  <2>2. g[n + 1] = IF s[n + 1] \in S THEN Append(g[n], s[n + 1]) ELSE g[n]
    BY <2>1, <1>2
  <2>3. IsFiniteSet(C(n)) /\ Cardinality(C(n)) \in Nat /\ n + 1 \notin C(n)
    <3>1. IsFiniteSet(1..n) /\ C(n) \in SUBSET (1..n)
      BY FS_Interval
    <3> QED
      BY <3>1, FS_Subset, FS_CardinalityType
  <2>4. s[n + 1] \in A \cap S => C(n + 1) = C(n) \cup {n + 1}
    OBVIOUS
  <2>5. s[n + 1] \notin A \cap S => C(n + 1) = C(n)
    OBVIOUS
  <2> HIDE DEF C
  <2>6. Cardinality(C(n) \cup {n + 1}) = Cardinality(C(n)) + 1
    BY <2>3, FS_AddElement
  <2>7. Count(Append(g[n], s[n + 1]), A) = Cardinality(C(n)) + (IF s[n + 1] \in A THEN 1 ELSE 0)
    BY <2>1, CountAppend
  <2>8. Append(g[n], s[n + 1]) \in Seq(X)
    BY <2>1
  <2>9. CASE s[n + 1] \in S /\ s[n + 1] \in A
    BY <2>2, <2>4, <2>6, <2>7, <2>8, <2>9
  <2>10. CASE s[n + 1] \in S /\ s[n + 1] \notin A
    BY <2>2, <2>3, <2>5, <2>7, <2>8, <2>10
  <2>11. CASE s[n + 1] \notin S
    BY <2>1, <2>2, <2>5, <2>11
  <2> QED
    BY <2>9, <2>10, <2>11
<1> HIDE DEF I
<1>5. Len(s) \in I
  BY <1>3, <1>4, SetInduction
<1>6. Good(Len(s))
  BY <1>5 DEF I
<1>7. C(Len(s)) = {i \in DOMAIN s : s[i] \in A \cap S}
  OBVIOUS
<1> QED
  BY <1>1, <1>6, <1>7 DEF Count
\* Every counted element is in B or not.
CountIn(s, A, B) == Count(s, A \cap B)
CountOut(s, A, B) == Count(s, A \ B)
LEMMA CountSplit ==
  ASSUME NEW X, NEW s \in Seq(X), NEW A, NEW B
  PROVE  Count(s, A) = CountIn(s, A, B) + CountOut(s, A, B)
<1> DEFINE I == {i \in DOMAIN s : s[i] \in A \cap B}
           J == {i \in DOMAIN s : s[i] \in A \ B}
           K == {i \in DOMAIN s : s[i] \in A}
<1>1. IsFiniteSet(I) /\ IsFiniteSet(J) /\ Cardinality(I) \in Nat /\ Cardinality(J) \in Nat
  BY CountType DEF Count
<1>2. K = I \cup J /\ I \cap J = {}
  OBVIOUS
<1> HIDE DEF I, J, K
<1>3. Cardinality(I \cup J) = Cardinality(I) + Cardinality(J) - Cardinality(I \cap J)
  BY <1>1, FS_Union
<1>4. Cardinality(I \cap J) = 0
  BY <1>2, FS_EmptySet
<1>5. Cardinality(K) = Cardinality(I) + Cardinality(J)
  BY <1>1, <1>2, <1>3, <1>4
<1> QED
  BY <1>5 DEF Count, CountIn, CountOut, I, J, K

\* A list with the same elements in A at the same places.
LEMMA CountSame ==
  ASSUME NEW s, NEW t, NEW A, DOMAIN s = DOMAIN t, \A i \in DOMAIN s : s[i] \in A <=> t[i] \in A
  PROVE  Count(s, A) = Count(t, A)
<1>1. {i \in DOMAIN s : s[i] \in A} = {i \in DOMAIN t : t[i] \in A}
  OBVIOUS
<1> QED
  BY <1>1 DEF Count
=============================================================================
