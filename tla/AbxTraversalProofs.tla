------------------------ MODULE AbxTraversalProofs ------------------------
(***************************************************************************)
(* The elements that serde's entry points find and read, for any document, *)
(* whether its tags balance or not, for any calls in any order, types that *)
(* refuse what they are given, and whichever reads fail.                   *)
(*                                                                         *)
(* The invariant says where the open elements of read_element_body start:  *)
(* at places one inside the other, each with the texts and the children    *)
(* that stand between it and what has been consumed; and what the search   *)
(* has passed before the first of them.                                    *)
(***************************************************************************)
EXTENDS AbxTraversal, FiniteSetTheorems, SequenceTheorems, WellFoundedInduction, TLAPS

-----------------------------------------------------------------------------
(***************************************************************************)
(* Lists of anything.                                                      *)
(***************************************************************************)
LEMMA ListOf ==
  ASSUME NEW S, NEW s \in Seq(S)
  PROVE  IsList(s)
<1>1. s \in [1..Len(s) -> S] /\ DOMAIN s = 1..Len(s) /\ Len(s) \in Nat
  BY LenProperties
<1>2. s \in [1..Len(s) -> Range(s)]
  BY <1>1 DEF Range
<1> QED
  BY <1>1, <1>2, SeqDef DEF IsList

LEMMA EmptyList == IsList(<<>>) /\ Len(<<>>) = 0
  BY EmptySeq DEF IsList

LEMMA Singleton ==
  ASSUME NEW x
  PROVE  IsList(<<x>>) /\ Len(<<x>>) = 1 /\ <<x>>[1] = x
<1>1. <<x>> \in Seq({x})
  OBVIOUS
<1> QED
  BY <1>1, ListOf

LEMMA ListLength ==
  ASSUME NEW s, IsList(s)
  PROVE  Len(s) \in Nat /\ (s # <<>> <=> Len(s) > 0) /\ DOMAIN s = 1..Len(s)
  BY LenProperties, EmptySeq DEF IsList

LEMMA SameList ==
  ASSUME NEW s, IsList(s), NEW t, IsList(t), Len(s) = Len(t),
         \A i \in 1..Len(s) : s[i] = t[i]
  PROVE  s = t
<1>1. s \in Seq(Range(s) \cup Range(t)) /\ t \in Seq(Range(s) \cup Range(t))
  BY SeqMonotonic DEF IsList
<1> QED
  BY <1>1, SeqEqual

LEMMA AppendList ==
  ASSUME NEW s, IsList(s), NEW x
  PROVE  /\ IsList(Append(s, x))
         /\ Len(Append(s, x)) = Len(s) + 1
         /\ \A i \in 1..Len(s) : Append(s, x)[i] = s[i]
         /\ Append(s, x)[Len(s) + 1] = x
<1> DEFINE S == Range(s) \cup {x}
<1>1. s \in Seq(S)
  BY SeqMonotonic DEF IsList
<1>2. x \in S
  OBVIOUS
<1> HIDE DEF S
<1>3. /\ Append(s, x) \in Seq(S)
      /\ Len(Append(s, x)) = Len(s) + 1
      /\ \A i \in 1..Len(s) : Append(s, x)[i] = s[i]
      /\ Append(s, x)[Len(s) + 1] = x
  BY <1>1, <1>2, AppendProperties
<1>4. IsList(Append(s, x))
  BY <1>3, ListOf
<1> QED
  BY <1>3, <1>4

IsConcat(u, s, t) ==
  /\ IsList(u) /\ Len(u) = Len(s) + Len(t)
  /\ \A i \in 1..Len(s) : u[i] = s[i]
  /\ \A i \in 1..Len(t) : u[Len(s) + i] = t[i]

LEMMA ConcatIs ==
  ASSUME NEW s, IsList(s), NEW t, IsList(t)
  PROVE  IsConcat(s \o t, s, t)
<1> DEFINE S == Range(s) \cup Range(t)
<1>1. s \in Seq(S) /\ t \in Seq(S)
  BY SeqMonotonic DEF IsList
<1> HIDE DEF S
<1>2. Len(s) \in Nat /\ Len(t) \in Nat
  BY ListLength
<1>3. /\ s \o t \in Seq(S)
      /\ Len(s \o t) = Len(s) + Len(t)
      /\ \A i \in 1..Len(s) : (s \o t)[i] = s[i]
      /\ \A i \in (Len(s) + 1)..(Len(s) + Len(t)) : (s \o t)[i] = t[i - Len(s)]
  BY <1>1, <1>2, ConcatProperties
<1>4. ASSUME NEW i \in 1..Len(t) PROVE (s \o t)[Len(s) + i] = t[i]
  <2>1. /\ Len(s) + i \in (Len(s) + 1)..(Len(s) + Len(t))
        /\ (Len(s) + i) - Len(s) = i
    BY <1>2
  <2> QED
    BY <1>3, <2>1
<1>5. IsList(s \o t)
  BY <1>3, ListOf
<1> QED
  BY <1>3, <1>4, <1>5 DEF IsConcat

LEMMA ConcatList ==
  ASSUME NEW s, IsList(s), NEW t, IsList(t)
  PROVE  /\ IsList(s \o t)
         /\ Len(s \o t) = Len(s) + Len(t)
         /\ \A i \in 1..Len(s) : (s \o t)[i] = s[i]
         /\ \A i \in 1..Len(t) : (s \o t)[Len(s) + i] = t[i]
BY ConcatIs DEF IsConcat

LEMMA ConcatEmpty ==
  ASSUME NEW s, IsList(s)
  PROVE  s \o <<>> = s /\ <<>> \o s = s
BY ConcatEmptySeq DEF IsList

LEMMA NatSetInduction ==
  ASSUME NEW T \in SUBSET Nat, 0 \in T, \A n \in T : n + 1 \in T
  PROVE  T = Nat
<1> DEFINE U == Nat \ T
<1> SUFFICES ASSUME U # {} PROVE FALSE
  OBVIOUS
<1>1. PICK x \in U : \A y \in U : ~(<<y, x>> \in OpToRel(<, Nat))
  BY WFMin, NatLessThanWellFounded
<1>2. x # 0 /\ x \in Nat
  OBVIOUS
<1>3. x - 1 \in Nat /\ x - 1 < x /\ (x - 1) + 1 = x
  BY <1>2
<1>4. <<x - 1, x>> \in OpToRel(<, Nat)
  BY <1>2, <1>3 DEF OpToRel
<1>5. x - 1 \notin U
  BY <1>1, <1>4
<1> QED
  BY <1>1, <1>3, <1>5

-----------------------------------------------------------------------------
(***************************************************************************)
(* Sets of places in order.                                                *)
(***************************************************************************)
\* s has the members of S, n of them, the smallest first.
Orders(s, n, S) ==
  /\ n \in Nat /\ s \in [1..n -> S]
  /\ \A i \in 1..n, j \in 1..n : i < j => s[i] < s[j]
  /\ \A k \in S : \E i \in 1..n : s[i] = k

Before(S, k) == {j \in S : j <= k}

LEMMA RankOfPlace ==
  ASSUME NEW S \in SUBSET Nat, NEW n, NEW s, Orders(s, n, S), NEW i \in 1..n
  PROVE  Cardinality(Before(S, s[i])) = i /\ IsFiniteSet(Before(S, s[i]))
<1> DEFINE B == Before(S, s[i])
           f == [l \in 1..i |-> s[l]]
<1>1. /\ n \in Nat /\ i \in Nat /\ i <= n /\ s \in [1..n -> S]
      /\ \A l, j \in 1..n : l < j => s[l] < s[j]
      /\ \A k \in S : \E l \in 1..n : s[l] = k
  BY DEF Orders
<1>2. ASSUME NEW l \in 1..n PROVE s[l] \in Nat /\ s[l] \in S /\ (s[l] <= s[i] <=> l <= i)
  <2>1. s[l] \in Nat /\ s[i] \in Nat /\ s[l] \in S
    BY <1>1
  <2>2. CASE l < i
    BY <1>1, <2>1, <2>2
  <2>3. CASE l = i
    BY <2>1, <2>3
  <2>4. CASE i < l
    <3>1. s[i] < s[l]
      BY <1>1, <2>4
    <3> QED
      BY <2>1, <2>4, <3>1
  <2> QED
    BY <1>1, <2>1, <2>2, <2>3, <2>4
<1>3. f \in [1..i -> B]
  <2>1. ASSUME NEW l \in 1..i PROVE s[l] \in B
    BY <1>1, <1>2 DEF Before
  <2> QED
    BY <2>1
<1>4. ASSUME NEW k \in B PROVE \E l \in 1..i : f[l] = k
  <2>1. k \in S /\ k <= s[i]
    BY DEF Before
  <2>2. PICK l \in 1..n : s[l] = k
    BY <1>1, <2>1
  <2>3. l \in 1..i
    BY <1>1, <1>2, <2>1, <2>2
  <2> QED
    BY <2>2, <2>3
<1>5. ASSUME NEW l \in 1..i, NEW j \in 1..i, f[l] = f[j] PROVE l = j
  <2>1. l \in 1..n /\ j \in 1..n /\ s[l] = s[j] /\ s[l] \in Nat
    BY <1>1, <1>2, <1>5
  <2>2. ~(l < j) /\ ~(j < l)
    BY <1>1, <2>1
  <2> QED
    BY <2>2
<1> HIDE DEF f, B
<1>6. f \in Bijection(1..i, B)
  BY <1>3, <1>4, <1>5 DEF Bijection, Injection, Surjection, IsInjective
<1>7. IsFiniteSet(1..i) /\ Cardinality(1..i) = i
  BY <1>1, FS_Interval
<1>8. IsFiniteSet(B) /\ Cardinality(B) = i
  BY <1>6, <1>7, FS_Bijection DEF ExistsBijection
<1> QED
  BY <1>8 DEF B

\* There is one such list, and InOrder gives it.
LEMMA OrderIs ==
  ASSUME NEW S \in SUBSET Nat, NEW n, NEW s, Orders(s, n, S)
  PROVE  IsFiniteSet(S) /\ Cardinality(S) = n /\ InOrder(S) = s
<1>1. /\ n \in Nat /\ s \in [1..n -> S]
      /\ \A l, j \in 1..n : l < j => s[l] < s[j]
      /\ \A k \in S : \E l \in 1..n : s[l] = k
  BY DEF Orders
<1>2. IsFiniteSet(S) /\ Cardinality(S) = n
  <2>1. CASE n = 0
    <3>1. S = {}
      BY <1>1, <2>1
    <3> QED
      BY <2>1, <3>1, FS_EmptySet
  <2>2. CASE n # 0
    <3>1. n \in 1..n
      BY <1>1, <2>2
    <3>2. Before(S, s[n]) = S
      <4>1. ASSUME NEW k \in S PROVE k <= s[n]
        <5>1. PICK l \in 1..n : s[l] = k
          BY <1>1
        <5>2. s[l] \in S /\ s[n] \in S /\ (l = n \/ l < n)
          BY <1>1, <3>1
        <5>3. s[l] \in Nat /\ s[n] \in Nat
          BY <5>2
        <5> QED
          BY <1>1, <3>1, <5>1, <5>2, <5>3
      <4> QED
        BY <4>1 DEF Before
    <3> QED
      BY <3>1, <3>2, RankOfPlace
  <2> QED
    BY <2>1, <2>2
<1>3. ASSUME NEW i \in 1..n
      PROVE  (CHOOSE k \in S : Cardinality({j \in S : j <= k}) = i) = s[i]
  <2> DEFINE P(k) == Cardinality({j \in S : j <= k}) = i
  <2>1. s[i] \in S /\ P(s[i])
    <3>1. s[i] \in S /\ Cardinality(Before(S, s[i])) = i
      BY <1>1, RankOfPlace
    <3> QED
      BY <3>1, Zenon DEF Before
  <2>2. ASSUME NEW k \in S, P(k) PROVE k = s[i]
    <3>1. PICK l \in 1..n : s[l] = k
      BY <1>1
    <3>2. Cardinality(Before(S, k)) = l
      BY <3>1, RankOfPlace
    <3>3. Cardinality(Before(S, k)) = i
      BY <2>2, Zenon DEF Before
    <3> QED
      BY <3>1, <3>2, <3>3
  <2> HIDE DEF P
  <2>3. (CHOOSE k \in S : P(k)) = s[i]
    BY <2>1, <2>2
  <2> QED
    BY <2>3 DEF P
<1>4. InOrder(S) = [i \in 1..n |-> CHOOSE k \in S : Cardinality({j \in S : j <= k}) = i]
  BY <1>2 DEF InOrder
<1>5. InOrder(S) = [i \in 1..n |-> s[i]]
  BY <1>3, <1>4
<1> QED
  BY <1>1, <1>2, <1>5

LEMMA NoneOrdered == Orders(<<>>, 0, {})
<1>1. <<>> \in [1..0 -> {}]
  OBVIOUS
<1> QED
  BY <1>1 DEF Orders

\* One place more, behind the others.
LEMMA OneMoreOrdered ==
  ASSUME NEW S \in SUBSET Nat, NEW n, NEW s, Orders(s, n, S), NEW m \in Nat, \A k \in S : k < m
  PROVE  Orders([i \in 1..(n + 1) |-> IF i = n + 1 THEN m ELSE s[i]], n + 1, S \cup {m})
<1> DEFINE r == [i \in 1..(n + 1) |-> IF i = n + 1 THEN m ELSE s[i]]
           R == S \cup {m}
<1>1. /\ n \in Nat /\ s \in [1..n -> S]
      /\ \A l, j \in 1..n : l < j => s[l] < s[j]
      /\ \A k \in S : \E l \in 1..n : s[l] = k
  BY DEF Orders
<1>2. /\ n + 1 \in Nat /\ n + 1 \in 1..(n + 1) /\ r[n + 1] = m
      /\ \A i \in 1..n : i \in 1..(n + 1) /\ r[i] = s[i] /\ r[i] \in S
      /\ \A i \in 1..(n + 1) : i = n + 1 \/ i \in 1..n
      /\ DOMAIN r = 1..(n + 1) /\ r = [i \in 1..(n + 1) |-> r[i]]
  BY <1>1
<1> HIDE DEF r
<1>3. r \in [1..(n + 1) -> R]
  BY <1>2
<1>4. ASSUME NEW i \in 1..(n + 1), NEW j \in 1..(n + 1), i < j PROVE r[i] < r[j]
  <2>1. i \in 1..n
    BY <1>1, <1>4
  <2>2. CASE j = n + 1
    BY <1>2, <2>1, <2>2
  <2>3. CASE j \in 1..n
    BY <1>1, <1>2, <1>4, <2>1, <2>3
  <2> QED
    BY <1>2, <2>2, <2>3
<1>5. ASSUME NEW k \in R PROVE \E i \in 1..(n + 1) : r[i] = k
  BY <1>1, <1>2
<1>6. Orders(r, n + 1, R)
  BY <1>2, <1>3, <1>4, <1>5 DEF Orders
<1> QED
  BY <1>6 DEF r

HasOrder(S) == \E n \in Nat : \E s : Orders(s, n, S)

LEMMA BeforeNext ==
  ASSUME NEW S \in SUBSET Nat, NEW m \in Nat
  PROVE  /\ m + 1 \in S => Before(S, m + 1) = Before(S, m) \cup {m + 1}
         /\ m + 1 \notin S => Before(S, m + 1) = Before(S, m)
         /\ Before(S, m) \in SUBSET Nat /\ \A k \in Before(S, m) : k < m + 1
<1>1. ASSUME NEW k \in S PROVE k \in Nat /\ (k <= m + 1 <=> k <= m \/ k = m + 1) /\ (k <= m => k < m + 1)
  OBVIOUS
<1>2. \A k : k \in Before(S, m) <=> k \in S /\ k <= m
  BY DEF Before
<1>3. \A k : k \in Before(S, m + 1) <=> k \in S /\ k <= m + 1
  BY DEF Before
<1>4. m + 1 \in S => Before(S, m + 1) = Before(S, m) \cup {m + 1}
  BY <1>1, <1>2, <1>3
<1>5. m + 1 \notin S => Before(S, m + 1) = Before(S, m)
  BY <1>1, <1>2, <1>3
<1> QED
  BY <1>1, <1>2, <1>4, <1>5

LEMMA OrderExists ==
  ASSUME NEW N \in Nat, NEW S \in SUBSET (1..N)
  PROVE  HasOrder(S)
<1> DEFINE T == {m \in Nat : HasOrder(Before(S, m))}
<1>0. \A k \in S : k \in Nat /\ k >= 1 /\ k <= N
  OBVIOUS
<1>1. 0 \in T
  <2>1. ASSUME NEW k \in Before(S, 0) PROVE FALSE
    <3>1. k \in S /\ k <= 0
      BY DEF Before
    <3> QED
      BY <1>0, <3>1
  <2>2. Before(S, 0) = {}
    BY <2>1
  <2>3. HasOrder(Before(S, 0))
    BY <2>2, NoneOrdered DEF HasOrder
  <2> QED
    BY <2>3
<1>2. ASSUME NEW m \in T PROVE m + 1 \in T
  <2>1. m \in Nat /\ m + 1 \in Nat /\ HasOrder(Before(S, m))
    OBVIOUS
  <2>2. PICK n \in Nat : \E s : Orders(s, n, Before(S, m))
    BY <2>1 DEF HasOrder
  <2>3. PICK s : Orders(s, n, Before(S, m))
    BY <2>2
  <2>4. S \in SUBSET Nat
    BY <1>0
  <2>5. CASE m + 1 \in S
    <3>1. Before(S, m + 1) = Before(S, m) \cup {m + 1}
      BY <2>1, <2>5, <2>4, BeforeNext
    <3>2. Before(S, m) \in SUBSET Nat /\ \A k \in Before(S, m) : k < m + 1
      BY <2>1, <2>4, BeforeNext
    <3>3. Orders([i \in 1..(n + 1) |-> IF i = n + 1 THEN m + 1 ELSE s[i]], n + 1, Before(S, m) \cup {m + 1})
      BY <2>1, <2>3, <3>2, OneMoreOrdered
    <3>4. HasOrder(Before(S, m + 1))
      <4>1. n + 1 \in Nat
        OBVIOUS
      <4> QED
        BY <3>1, <3>3, <4>1, Zenon DEF HasOrder
    <3> QED
      BY <2>1, <3>4
  <2>6. CASE m + 1 \notin S
    <3>1. Before(S, m + 1) = Before(S, m)
      BY <2>1, <2>6, <2>4, BeforeNext
    <3> QED
      BY <2>1, <3>1
  <2> QED
    BY <2>5, <2>6
<1> HIDE DEF T
<1>3. T \in SUBSET Nat
  BY DEF T
<1>4. T = Nat
  BY <1>1, <1>2, <1>3, NatSetInduction
<1>5. HasOrder(Before(S, N))
  BY <1>4 DEF T
<1>6. Before(S, N) = S
  BY <1>0 DEF Before
<1> QED
  BY <1>5, <1>6

LEMMA OrderedSet ==
  ASSUME NEW N \in Nat, NEW S \in SUBSET (1..N)
  PROVE  /\ IsFiniteSet(S) /\ Cardinality(S) \in Nat /\ S \in SUBSET Nat
         /\ Orders(InOrder(S), Cardinality(S), S)
         /\ \A i \in 1..Cardinality(S) : InOrder(S)[i] \in S
<1>1. S \in SUBSET Nat
  OBVIOUS
<1>2. PICK n \in Nat : \E s : Orders(s, n, S)
  BY OrderExists DEF HasOrder
<1>3. PICK s : Orders(s, n, S)
  BY <1>2
<1>4. IsFiniteSet(S) /\ Cardinality(S) = n /\ InOrder(S) = s
  BY <1>1, <1>3, OrderIs
<1>5. s \in [1..n -> S]
  BY <1>3 DEF Orders
<1> QED
  BY <1>1, <1>3, <1>4, <1>5

\* The places of T behind those of S.
LEMMA OrderJoined ==
  ASSUME NEW N \in Nat, NEW S \in SUBSET (1..N), NEW T \in SUBSET (1..N),
         \A k \in S, l \in T : k < l
  PROVE  /\ Cardinality(S \cup T) = Cardinality(S) + Cardinality(T)
         /\ \A i \in 1..Cardinality(S) : InOrder(S \cup T)[i] = InOrder(S)[i]
         /\ \A i \in 1..Cardinality(T) : InOrder(S \cup T)[Cardinality(S) + i] = InOrder(T)[i]
<1> DEFINE m == Cardinality(S)
           n == Cardinality(T)
           s == InOrder(S)
           t == InOrder(T)
           r == [i \in 1..(m + n) |-> IF i <= m THEN s[i] ELSE t[i - m]]
           R == S \cup T
<1>1. Orders(s, m, S) /\ Orders(t, n, T)
  BY OrderedSet
<1> HIDE DEF m, n, s, t
<1>2. /\ m \in Nat /\ s \in [1..m -> S]
      /\ \A l, j \in 1..m : l < j => s[l] < s[j]
      /\ \A k \in S : \E l \in 1..m : s[l] = k
  BY <1>1 DEF Orders
<1>3. /\ n \in Nat /\ t \in [1..n -> T]
      /\ \A l, j \in 1..n : l < j => t[l] < t[j]
      /\ \A k \in T : \E l \in 1..n : t[l] = k
  BY <1>1 DEF Orders
<1>4. /\ DOMAIN r = 1..(m + n) /\ r = [i \in 1..(m + n) |-> r[i]]
      /\ \A i \in 1..m : i \in 1..(m + n) /\ r[i] = s[i]
      /\ \A i \in 1..n : m + i \in 1..(m + n) /\ r[m + i] = t[i]
      /\ \A i \in 1..(m + n) : i \in 1..m \/ (i - m \in 1..n /\ m + (i - m) = i)
  <2>1. ASSUME NEW i \in 1..n PROVE m + i \in 1..(m + n) /\ r[m + i] = t[i]
    <3>1. m + i \in 1..(m + n) /\ ~(m + i <= m) /\ (m + i) - m = i
      BY <1>2, <1>3
    <3> QED
      BY <3>1
  <2> QED
    BY <1>2, <1>3, <2>1
<1> HIDE DEF r
<1>5. ASSUME NEW i \in 1..(m + n) PROVE r[i] \in R
  <2>1. CASE i \in 1..m
    BY <1>2, <1>4, <2>1
  <2>2. CASE i - m \in 1..n /\ m + (i - m) = i
    <3>1. r[i] = t[i - m]
      BY <1>4, <2>2
    <3> QED
      BY <1>3, <2>2, <3>1
  <2> QED
    BY <1>4, <2>1, <2>2
<1>6. r \in [1..(m + n) -> R]
  BY <1>4, <1>5
<1>7. ASSUME NEW i \in 1..(m + n), NEW j \in 1..(m + n), i < j PROVE r[i] < r[j]
  <2>1. CASE j \in 1..m
    <3>1. i \in 1..m
      BY <1>2, <1>7, <2>1
    <3> QED
      BY <1>2, <1>4, <1>7, <2>1, <3>1
  <2>2. CASE i \in 1..m /\ j - m \in 1..n /\ m + (j - m) = j
    <3>1. r[j] = t[j - m] /\ r[i] = s[i]
      BY <1>4, <2>2
    <3>2. s[i] \in S /\ t[j - m] \in T
      BY <1>2, <1>3, <2>2
    <3> QED
      BY <3>1, <3>2
  <2>3. CASE i - m \in 1..n /\ m + (i - m) = i /\ j - m \in 1..n /\ m + (j - m) = j
    <3>1. r[j] = t[j - m] /\ r[i] = t[i - m]
      BY <1>4, <2>3
    <3>2. i - m < j - m
      BY <1>2, <1>3, <1>7
    <3> QED
      BY <1>3, <2>3, <3>1, <3>2
  <2> QED
    BY <1>4, <2>1, <2>2, <2>3
<1>8. ASSUME NEW k \in R PROVE \E i \in 1..(m + n) : r[i] = k
  BY <1>2, <1>3, <1>4
<1>9. Orders(r, m + n, R) /\ R \in SUBSET Nat
  <2>1. m + n \in Nat
    BY <1>2, <1>3
  <2> QED
    BY <2>1, <1>6, <1>7, <1>8 DEF Orders
<1> HIDE DEF R
<1>10. Cardinality(R) = m + n /\ InOrder(R) = r
  BY <1>9, OrderIs
<1> QED
  BY <1>4, <1>10 DEF R, m, n, s, t

\* One place more, behind the others.
LEMMA OrderGrows ==
  ASSUME NEW N \in Nat, NEW S \in SUBSET (1..N), NEW m \in 1..N, \A k \in S : k < m
  PROVE  /\ Cardinality(S \cup {m}) = Cardinality(S) + 1
         /\ \A i \in 1..Cardinality(S) : InOrder(S \cup {m})[i] = InOrder(S)[i]
         /\ InOrder(S \cup {m})[Cardinality(S) + 1] = m
<1>1. {m} \in SUBSET (1..N)
  OBVIOUS
<1>2. Cardinality({m}) = 1
  BY FS_Singleton
<1>3. InOrder({m})[1] = m
  <2>1. InOrder({m})[1] \in {m}
    BY <1>1, <1>2, OrderedSet
  <2> QED
    BY <2>1
<1>4. /\ Cardinality(S \cup {m}) = Cardinality(S) + Cardinality({m})
      /\ \A i \in 1..Cardinality(S) : InOrder(S \cup {m})[i] = InOrder(S)[i]
      /\ \A i \in 1..Cardinality({m}) : InOrder(S \cup {m})[Cardinality(S) + i] = InOrder({m})[i]
  BY <1>1, OrderJoined
<1> QED
  BY <1>2, <1>3, <1>4

-----------------------------------------------------------------------------
(***************************************************************************)
(* How deep a place is.                                                    *)
(***************************************************************************)
LEMMA KindsDiffer ==
  ASSUME NEW e
  PROVE  /\ ~(IsStart(e) /\ Closes(e)) /\ ~(IsStart(e) /\ IsText(e)) /\ ~(IsText(e) /\ Closes(e))
         /\ IsEndDocument(e) => Closes(e)
  BY DEF IsStart, Closes, IsEnd, IsEndDocument, IsText, CMD_START_TAG, CMD_END_TAG, CMD_END_DOCUMENT, CMD_TEXT

Starts(evs, n)  == {k \in 1..n : IsStart(evs[k])}
Closers(evs, n) == {k \in 1..n : Closes(evs[k])}

LEMMA CountNext ==
  ASSUME NEW n \in Nat, NEW S, NEW T, S \subseteq 1..n, T = S \/ T = S \cup {n + 1}
  PROVE  /\ Cardinality(S) \in Nat /\ Cardinality(T) \in Nat
         /\ Cardinality(T) = IF n + 1 \in T THEN Cardinality(S) + 1 ELSE Cardinality(S)
<1>1. IsFiniteSet(S) /\ Cardinality(S) \in Nat
  <2>1. IsFiniteSet(1..n)
    BY FS_Interval
  <2>2. IsFiniteSet(S)
    BY <2>1, FS_Subset
  <2> QED
    BY <2>2, FS_CardinalityType
<1>2. n + 1 \notin S
  OBVIOUS
<1> QED
  BY <1>1, <1>2, FS_AddElement

LEMMA DepthNext ==
  ASSUME NEW evs, NEW n \in Nat
  PROVE  /\ Depth(evs, n) \in Int
         /\ IsStart(evs[n + 1]) => Depth(evs, n + 1) = Depth(evs, n) + 1
         /\ Closes(evs[n + 1]) => Depth(evs, n + 1) = Depth(evs, n) - 1
         /\ ~IsStart(evs[n + 1]) /\ ~Closes(evs[n + 1]) => Depth(evs, n + 1) = Depth(evs, n)
<1> DEFINE S == Starts(evs, n)
           T == Starts(evs, n + 1)
           C == Closers(evs, n)
           D == Closers(evs, n + 1)
<1>1. Depth(evs, n) = Cardinality(S) - Cardinality(C) /\ Depth(evs, n + 1) = Cardinality(T) - Cardinality(D)
  BY Zenon DEF Depth, Starts, Closers
<1>2. /\ S \subseteq 1..n /\ (n + 1 \in T <=> IsStart(evs[n + 1]))
      /\ T = S \/ T = S \cup {n + 1}
  BY DEF Starts
<1>3. /\ C \subseteq 1..n /\ (n + 1 \in D <=> Closes(evs[n + 1]))
      /\ D = C \/ D = C \cup {n + 1}
  BY DEF Closers
<1> HIDE DEF S, T, C, D
<1>4. /\ Cardinality(S) \in Nat /\ Cardinality(T) \in Nat
      /\ Cardinality(T) = IF n + 1 \in T THEN Cardinality(S) + 1 ELSE Cardinality(S)
  BY <1>2, CountNext
<1>5. /\ Cardinality(C) \in Nat /\ Cardinality(D) \in Nat
      /\ Cardinality(D) = IF n + 1 \in D THEN Cardinality(C) + 1 ELSE Cardinality(C)
  BY <1>3, CountNext
<1>6. ~(IsStart(evs[n + 1]) /\ Closes(evs[n + 1]))
  BY KindsDiffer
<1> QED
  BY <1>1, <1>2, <1>3, <1>4, <1>5, <1>6

LEMMA DepthType ==
  ASSUME NEW evs, NEW n \in Nat
  PROVE  Depth(evs, n) \in Int
  BY DepthNext

LEMMA SpanIs ==
  ASSUME NEW evs, IsList(evs), NEW p \in 1..Len(evs)
  PROVE  /\ Span(evs, p) \in SUBSET (1..Len(evs)) /\ p \notin Span(evs, p)
         /\ Kids(evs, p) \in SUBSET Span(evs, p) /\ Texts(evs, p) \in SUBSET Span(evs, p)
         /\ Kids(evs, p) \in SUBSET (1..Len(evs)) /\ Texts(evs, p) \in SUBSET (1..Len(evs))
         /\ \A n \in Span(evs, p) : p < n
<1>1. Len(evs) \in Nat
  BY ListLength
<1>2. ASSUME NEW n \in Span(evs, p) PROVE n \in 1..Len(evs) /\ p < n
  BY <1>1 DEF Span
<1>3. Kids(evs, p) \in SUBSET Span(evs, p) /\ Texts(evs, p) \in SUBSET Span(evs, p)
  BY DEF Kids, Texts
<1>4. p \notin Span(evs, p)
  BY <1>1, <1>2
<1> QED
  BY <1>2, <1>3, <1>4

-----------------------------------------------------------------------------
(***************************************************************************)
(* The texts of an element.                                                *)
(***************************************************************************)
\* The recursive function of Said, on the first N events.
Saying(f, evs, S, N) ==
  f = [n \in 0..N |-> IF n = 0 THEN <<>>
                      ELSE IF n \in S THEN f[n - 1] \o evs[n].text ELSE f[n - 1]]

CanSay(evs, S, N) == \E f : Saying(f, evs, S, N)

LEMMA SayingExists ==
  ASSUME NEW evs, NEW S, NEW N \in Nat
  PROVE  CanSay(evs, S, N)
<1> DEFINE T == {n \in Nat : CanSay(evs, S, n)}
<1>1. 0 \in T
  <2> DEFINE f == [n \in 0..0 |-> <<>>]
  <2>1. Saying(f, evs, S, 0)
    BY DEF Saying
  <2> HIDE DEF f
  <2> QED
    BY <2>1 DEF CanSay
<1>2. ASSUME NEW n \in T PROVE n + 1 \in T
  <2>1. PICK f : Saying(f, evs, S, n)
    BY DEF CanSay
  <2>2. n \in Nat
    OBVIOUS
  <2> DEFINE x == IF n + 1 \in S THEN f[n] \o evs[n + 1].text ELSE f[n]
             g == [k \in 0..(n + 1) |-> IF k = n + 1 THEN x ELSE f[k]]
             h == [k \in 0..(n + 1) |->
                     IF k = 0 THEN <<>>
                     ELSE IF k \in S THEN g[k - 1] \o evs[k].text ELSE g[k - 1]]
  <2>3. ASSUME NEW k \in 0..(n + 1) PROVE g[k] = h[k]
    <3>1. CASE k = n + 1
      <4>1. k # 0 /\ k - 1 = n /\ n \in 0..(n + 1) /\ n # n + 1
        BY <2>2, <3>1
      <4>2. g[k - 1] = f[n]
        BY <4>1
      <4> QED
        BY <3>1, <4>1, <4>2
    <3>2. CASE k # n + 1
      <4>1. k \in 0..n /\ (k # 0 => k - 1 \in 0..(n + 1) /\ k - 1 # n + 1)
        BY <2>2, <3>2
      <4>2. f[k] = IF k = 0 THEN <<>>
                   ELSE IF k \in S THEN f[k - 1] \o evs[k].text ELSE f[k - 1]
        BY <2>1, <4>1 DEF Saying
      <4>3. g[k] = f[k] /\ (k # 0 => g[k - 1] = f[k - 1])
        BY <3>2, <4>1
      <4> QED
        BY <4>2, <4>3
    <3> QED
      BY <3>1, <3>2
  <2>4. g = h
    BY <2>3
  <2>5. Saying(g, evs, S, n + 1)
    BY <2>4, Zenon DEF Saying
  <2>6. CanSay(evs, S, n + 1)
    BY <2>5, Zenon DEF CanSay
  <2>7. n + 1 \in Nat
    BY <2>2
  <2> HIDE DEF x, g, h
  <2> QED
    BY <2>6, <2>7
<1> HIDE DEF T
<1>3. T \in SUBSET Nat
  BY DEF T
<1>4. T = Nat
  BY <1>1, <1>2, <1>3, NatSetInduction
<1> QED
  BY <1>4 DEF T

LEMMA SaidIs ==
  ASSUME NEW evs, IsList(evs), NEW S
  PROVE  \E f : Saying(f, evs, S, Len(evs)) /\ Said(evs, S) = f[Len(evs)]
<1> DEFINE said == CHOOSE f : f = [n \in 0..Len(evs) |->
                     IF n = 0 THEN <<>>
                     ELSE IF n \in S THEN f[n - 1] \o evs[n].text ELSE f[n - 1]]
<1>1. \E f : Saying(f, evs, S, Len(evs))
  BY SayingExists, ListLength DEF CanSay
<1>2. Saying(said, evs, S, Len(evs))
  BY <1>1 DEF Saying
<1>3. Said(evs, S) = said[Len(evs)]
  BY DEF Said
<1> HIDE DEF said
<1> QED
  BY <1>2, <1>3

LEMMA SayingStep ==
  ASSUME NEW f, NEW evs, NEW S, NEW N \in Nat, Saying(f, evs, S, N)
  PROVE  /\ f[0] = <<>>
         /\ \A n \in Nat : n + 1 <= N =>
              f[n + 1] = IF n + 1 \in S THEN f[n] \o evs[n + 1].text ELSE f[n]
<1>1. ASSUME NEW k \in 0..N
      PROVE  f[k] = IF k = 0 THEN <<>>
                    ELSE IF k \in S THEN f[k - 1] \o evs[k].text ELSE f[k - 1]
  BY DEF Saying
<1>2. f[0] = <<>>
  <2>1. 0 \in 0..N
    OBVIOUS
  <2> QED
    BY <2>1, <1>1
<1>3. ASSUME NEW n \in Nat, n + 1 <= N
      PROVE  f[n + 1] = IF n + 1 \in S THEN f[n] \o evs[n + 1].text ELSE f[n]
  <2>1. n + 1 \in 0..N /\ (n + 1) - 1 = n /\ n + 1 # 0
    BY <1>3
  <2> QED
    BY <1>1, <2>1
<1> QED
  BY <1>2, <1>3

LEMMA NothingSaid ==
  ASSUME NEW evs, IsList(evs)
  PROVE  Said(evs, {}) = <<>>
<1>1. PICK f : Saying(f, evs, {}, Len(evs)) /\ Said(evs, {}) = f[Len(evs)]
  BY SaidIs
<1> DEFINE N == Len(evs)
           T == {n \in Nat : n <= N => f[n] = <<>>}
<1>2. N \in Nat
  BY ListLength
<1>3. /\ f[0] = <<>>
      /\ \A n \in Nat : n + 1 <= N => f[n + 1] = f[n]
  BY <1>1, <1>2, SayingStep
<1> HIDE DEF N
<1>4. 0 \in T
  BY <1>3
<1>5. ASSUME NEW n \in T PROVE n + 1 \in T
  BY <1>2, <1>3
<1>6. T \in SUBSET Nat
  OBVIOUS
<1> HIDE DEF T
<1>7. T = Nat
  BY <1>4, <1>5, <1>6, NatSetInduction
<1>8. f[N] = <<>>
  <2>1. N \in T /\ N <= N
    BY <1>2, <1>7
  <2> QED
    BY <2>1 DEF T
<1> QED
  BY <1>1, <1>8 DEF N

SaysMore(f, g, x, m, n) == (n < m => g[n] = f[n]) /\ (n >= m => g[n] = f[n] \o x)

\* One text more, behind the others.
LEMMA OneTextMore ==
  ASSUME NEW evs, IsList(evs), NEW m \in 1..Len(evs), NEW S \in SUBSET (1..Len(evs)), \A k \in S : k < m
  PROVE  Said(evs, S \cup {m}) = Said(evs, S) \o evs[m].text
<1> DEFINE N == Len(evs)
           R == S \cup {m}
           x == evs[m].text
<1>1. PICK f : Saying(f, evs, S, N) /\ Said(evs, S) = f[N]
  BY SaidIs
<1>2. PICK g : Saying(g, evs, R, N) /\ Said(evs, R) = g[N]
  BY SaidIs
<1>3. N \in Nat /\ m \in Nat /\ m >= 1 /\ m <= N
  BY ListLength
<1>4. \A k \in Nat : /\ k < m => (k \in R <=> k \in S)
                     /\ k = m => k \in R /\ k \notin S
                     /\ k > m => k \notin R /\ k \notin S
  <2>1. \A k \in S : k \in Nat
    OBVIOUS
  <2>2. m \notin S
    BY <1>3
  <2> QED
    BY <1>3, <2>1, <2>2
<1> DEFINE T == {n \in Nat : n <= N => SaysMore(f, g, x, m, n)}
<1>5. f[0] = <<>> /\ g[0] = <<>>
  BY <1>1, <1>2, <1>3, SayingStep
<1>6. \A n \in Nat : n + 1 <= N => f[n + 1] = IF n + 1 \in S THEN f[n] \o evs[n + 1].text ELSE f[n]
  BY <1>1, <1>3, SayingStep
<1>7. \A n \in Nat : n + 1 <= N => g[n + 1] = IF n + 1 \in R THEN g[n] \o evs[n + 1].text ELSE g[n]
  BY <1>2, <1>3, SayingStep
<1>8. x = evs[m].text
  OBVIOUS
<1>11. \A n \in Nat : n \in T <=> (n <= N => SaysMore(f, g, x, m, n))
  OBVIOUS
<1>12. T \in SUBSET Nat
  OBVIOUS
<1> HIDE DEF N, R, x, T
<1>9. 0 \in T
  BY <1>3, <1>5, <1>11 DEF SaysMore
<1>10. ASSUME NEW n \in T PROVE n + 1 \in T
  <2>1. n \in Nat /\ n + 1 \in Nat
    BY <1>12
  <2>2. CASE n + 1 < m /\ n + 1 <= N
    <3>1. n < m /\ n <= N
      BY <1>3, <2>1, <2>2
    <3>2. g[n] = f[n] /\ (n + 1 \in R <=> n + 1 \in S)
      BY <1>4, <1>11, <2>1, <2>2, <3>1 DEF SaysMore
    <3>3. g[n + 1] = f[n + 1] /\ ~(n + 1 >= m)
      BY <1>3, <1>6, <1>7, <2>1, <2>2, <3>2
    <3>4. SaysMore(f, g, x, m, n + 1)
      BY <3>3 DEF SaysMore
    <3> QED
      BY <1>11, <2>1, <3>4
  <2>3. CASE n + 1 = m /\ n + 1 <= N
    <3>1. n < m /\ n <= N
      BY <1>3, <2>1, <2>3
    <3>2. g[n] = f[n] /\ n + 1 \in R /\ n + 1 \notin S
      BY <1>4, <1>11, <2>1, <2>3, <3>1 DEF SaysMore
    <3>3. f[n + 1] = f[n] /\ g[n + 1] = g[n] \o evs[n + 1].text
      BY <1>6, <1>7, <2>1, <2>3, <3>2
    <3>4. g[n + 1] = f[n + 1] \o x
      BY <1>8, <2>3, <3>2, <3>3, Zenon
    <3>5. ~(n + 1 < m)
      BY <1>3, <2>1, <2>3
    <3>6. SaysMore(f, g, x, m, n + 1)
      BY <3>4, <3>5, Zenon DEF SaysMore
    <3> QED
      BY <1>11, <2>1, <3>6
  <2>4. CASE n + 1 > m /\ n + 1 <= N
    <3>1. n >= m /\ n <= N
      BY <1>3, <2>1, <2>4
    <3>2. g[n] = f[n] \o x /\ n + 1 \notin R /\ n + 1 \notin S
      BY <1>4, <1>11, <2>1, <2>4, <3>1 DEF SaysMore
    <3>3. f[n + 1] = f[n] /\ g[n + 1] = g[n]
      BY <1>6, <1>7, <2>1, <2>4, <3>2
    <3>4. g[n + 1] = f[n + 1] \o x
      BY <3>2, <3>3, Zenon
    <3>5. ~(n + 1 < m)
      BY <1>3, <2>1, <2>4
    <3>6. SaysMore(f, g, x, m, n + 1)
      BY <3>4, <3>5, Zenon DEF SaysMore
    <3> QED
      BY <1>11, <2>1, <3>6
  <2>5. CASE n + 1 > N
    BY <1>3, <1>11, <2>1, <2>5
  <2> QED
    BY <1>3, <2>1, <2>2, <2>3, <2>4, <2>5
<1>13. T = Nat
  BY <1>9, <1>10, <1>12, NatSetInduction
<1>14. g[N] = f[N] \o x
  <2>1. N \in T /\ N <= N /\ N >= m
    BY <1>3, <1>13
  <2>2. SaysMore(f, g, x, m, N)
    BY <1>3, <1>11, <2>1
  <2> QED
    BY <2>1, <2>2, Zenon DEF SaysMore
<1> QED
  BY <1>1, <1>2, <1>14 DEF R, x

-----------------------------------------------------------------------------
(***************************************************************************)
(* The children of an element, and the elements themselves.                *)
(***************************************************************************)
LEMMA FunctionList ==
  ASSUME NEW n \in Nat, NEW s, DOMAIN s = 1..n, s = [i \in 1..n |-> s[i]]
  PROVE  IsList(s) /\ Len(s) = n
<1>1. s \in [1..n -> Range(s)]
  BY DEF Range
<1>2. s \in Seq(Range(s))
  BY <1>1, SeqDef
<1>3. DOMAIN s = 1..Len(s) /\ Len(s) \in Nat
  BY <1>2, LenProperties
<1> QED
  BY <1>2, <1>3 DEF IsList

\* What is known of an element's text and of its children from the places they stand at.
TextOf(evs, S) == IF S = {} THEN <<>> ELSE <<Said(evs, S)>>
ChildAt(evs, f, k) == <<evs[k].text, f[k]>>
Children(evs, f, S) == [i \in 1..Cardinality(S) |-> ChildAt(evs, f, InOrder(S)[i])]

LEMMA ChildrenAre ==
  ASSUME NEW evs, NEW f, NEW N \in Nat, NEW S \in SUBSET (1..N)
  PROVE  /\ IsList(Children(evs, f, S)) /\ Len(Children(evs, f, S)) = Cardinality(S)
         /\ \A i \in 1..Cardinality(S) : /\ InOrder(S)[i] \in S
                                         /\ Children(evs, f, S)[i] = ChildAt(evs, f, InOrder(S)[i])
<1> DEFINE s == Children(evs, f, S)
<1>1. Cardinality(S) \in Nat /\ \A i \in 1..Cardinality(S) : InOrder(S)[i] \in S
  BY OrderedSet
<1>2. /\ DOMAIN s = 1..Cardinality(S) /\ s = [i \in 1..Cardinality(S) |-> s[i]]
      /\ \A i \in 1..Cardinality(S) : s[i] = ChildAt(evs, f, InOrder(S)[i])
  BY DEF Children
<1> HIDE DEF s
<1>3. IsList(s) /\ Len(s) = Cardinality(S)
  BY <1>1, <1>2, FunctionList
<1> QED
  BY <1>1, <1>2, <1>3 DEF s

AreChildren(evs, f, S, n) ==
  /\ IsList(Children(evs, f, S)) /\ Len(Children(evs, f, S)) = n
  /\ \A i \in 1..n : /\ InOrder(S)[i] \in S
                     /\ Children(evs, f, S)[i] = ChildAt(evs, f, InOrder(S)[i])

LEMMA CountedChildren ==
  ASSUME NEW evs, NEW f, NEW N \in Nat, NEW S \in SUBSET (1..N)
  PROVE  AreChildren(evs, f, S, Cardinality(S))
BY ChildrenAre DEF AreChildren

LEMMA NoChildren ==
  ASSUME NEW evs, NEW f
  PROVE  Children(evs, f, {}) = <<>>
<1>1. {} \in SUBSET (1..0) /\ 0 \in Nat /\ Cardinality({}) = 0
  BY FS_EmptySet
<1>2. AreChildren(evs, f, {}, Cardinality({}))
  BY <1>1, CountedChildren, Zenon
<1>3. IsList(Children(evs, f, {})) /\ Len(Children(evs, f, {})) = 0
  BY <1>1, <1>2, Zenon DEF AreChildren
<1> QED
  BY <1>3, ListLength

\* The children depend on what they are only.
LEMMA SameChildren ==
  ASSUME NEW evs, NEW f, NEW g, NEW N \in Nat, NEW S \in SUBSET (1..N), \A k \in S : f[k] = g[k]
  PROVE  Children(evs, f, S) = Children(evs, g, S)
<1>1. \A i \in 1..Cardinality(S) : InOrder(S)[i] \in S
  BY OrderedSet
<1>2. ASSUME NEW i \in 1..Cardinality(S)
      PROVE  ChildAt(evs, f, InOrder(S)[i]) = ChildAt(evs, g, InOrder(S)[i])
  BY <1>1 DEF ChildAt
<1> QED
  BY <1>2 DEF Children

ChildrenSplit(evs, f, S, T) == Children(evs, f, S \cup T) = Children(evs, f, S) \o Children(evs, f, T)

LEMMA ChildrenJoined ==
  ASSUME NEW evs, NEW f, NEW N \in Nat, NEW S \in SUBSET (1..N), NEW T \in SUBSET (1..N),
         \A k \in S, l \in T : k < l
  PROVE  ChildrenSplit(evs, f, S, T)
<1> DEFINE m == Cardinality(S)
           n == Cardinality(T)
           R == S \cup T
           s == Children(evs, f, S)
           t == Children(evs, f, T)
           r == Children(evs, f, R)
<1>1. R \in SUBSET (1..N)
  OBVIOUS
<1>2. /\ Cardinality(R) = m + n
      /\ \A i \in 1..m : InOrder(R)[i] = InOrder(S)[i]
      /\ \A i \in 1..n : InOrder(R)[m + i] = InOrder(T)[i]
  BY OrderJoined
<1>3. /\ IsList(s) /\ Len(s) = m
      /\ \A i \in 1..m : s[i] = ChildAt(evs, f, InOrder(S)[i])
  BY ChildrenAre
<1>4. /\ IsList(t) /\ Len(t) = n
      /\ \A i \in 1..n : t[i] = ChildAt(evs, f, InOrder(T)[i])
  BY ChildrenAre
<1> HIDE DEF R, m, n
<1>5. /\ IsList(r) /\ Len(r) = m + n
      /\ \A i \in 1..(m + n) : r[i] = ChildAt(evs, f, InOrder(R)[i])
  <2>1. /\ IsList(r) /\ Len(r) = Cardinality(R)
        /\ \A i \in 1..Cardinality(R) : r[i] = ChildAt(evs, f, InOrder(R)[i])
    BY <1>1, ChildrenAre
  <2> QED
    BY <1>2, <2>1
<1> HIDE DEF s, t, r
<1> DEFINE u == s \o t
<1>6. /\ IsList(u) /\ Len(u) = m + n
      /\ \A i \in 1..m : u[i] = s[i]
      /\ \A i \in 1..n : u[m + i] = t[i]
  <2>1. IsList(s) /\ IsList(t) /\ Len(s) = m /\ Len(t) = n
    BY <1>3, <1>4
  <2>2. IsConcat(u, s, t)
    BY <2>1, ConcatIs, Zenon
  <2> HIDE DEF u
  <2> QED
    BY <2>1, <2>2 DEF IsConcat
<1> HIDE DEF u
<1>7. m \in Nat /\ n \in Nat
  BY <1>3, <1>4, ListLength
<1>8. ASSUME NEW i \in 1..(m + n) PROVE r[i] = u[i]
  <2>1. CASE i \in 1..m
    BY <1>2, <1>3, <1>5, <1>6, <2>1
  <2>2. CASE i \notin 1..m
    <3>1. PICK j \in 1..n : i = m + j
      <4>1. i - m \in 1..n /\ i = m + (i - m)
        BY <1>7, <2>2
      <4> QED
        BY <4>1
    <3> QED
      BY <1>2, <1>4, <1>5, <1>6, <3>1
  <2> QED
    BY <2>1, <2>2
<1>9. r = u
  BY <1>5, <1>6, <1>8, SameList
<1> QED
  BY <1>9, Zenon DEF R, s, t, r, u, ChildrenSplit

LEMMA OneChild ==
  ASSUME NEW evs, NEW f, NEW N \in Nat, NEW m \in 1..N
  PROVE  Children(evs, f, {m}) = <<ChildAt(evs, f, m)>>
<1> DEFINE s == Children(evs, f, {m})
           x == ChildAt(evs, f, m)
<1>1. {m} \in SUBSET (1..N) /\ Cardinality({m}) = 1
  BY FS_Singleton
<1>2. /\ IsList(s) /\ Len(s) = 1
      /\ \A i \in 1..1 : InOrder({m})[i] \in {m} /\ s[i] = ChildAt(evs, f, InOrder({m})[i])
  <2>1. AreChildren(evs, f, {m}, Cardinality({m}))
    BY <1>1, CountedChildren, Zenon
  <2>2. AreChildren(evs, f, {m}, 1)
    BY <1>1, <2>1, Zenon
  <2> QED
    BY <2>2, Zenon DEF AreChildren
<1>3. s[1] = x
  BY <1>2
<1> HIDE DEF s, x
<1>4. IsList(<<x>>) /\ Len(<<x>>) = 1 /\ <<x>>[1] = x
  BY Singleton
<1>5. s = <<x>>
  BY <1>2, <1>3, <1>4, SameList
<1> QED
  BY <1>5 DEF s, x

LEMMA AppendedIsConcat ==
  ASSUME NEW s, IsList(s), NEW x
  PROVE  Append(s, x) = s \o <<x>>
<1>1. IsList(<<x>>) /\ Len(<<x>>) = 1 /\ <<x>>[1] = x
  BY Singleton
<1>2. /\ IsList(Append(s, x)) /\ Len(Append(s, x)) = Len(s) + 1
      /\ \A i \in 1..Len(s) : Append(s, x)[i] = s[i]
      /\ Append(s, x)[Len(s) + 1] = x
  BY AppendList
<1>3. /\ IsList(s \o <<x>>) /\ Len(s \o <<x>>) = Len(s) + 1
      /\ \A i \in 1..Len(s) : (s \o <<x>>)[i] = s[i]
      /\ \A i \in 1..1 : (s \o <<x>>)[Len(s) + i] = <<x>>[i]
  BY <1>1, ConcatList
<1>4. Len(s) \in Nat
  BY ListLength
<1>5. ASSUME NEW i \in 1..(Len(s) + 1) PROVE Append(s, x)[i] = (s \o <<x>>)[i]
  <2>1. i \in 1..Len(s) \/ (i = Len(s) + 1 /\ 1 \in 1..1)
    BY <1>4
  <2> QED
    BY <1>1, <1>2, <1>3, <2>1
<1> QED
  BY <1>2, <1>3, <1>5, SameList

LEMMA ChildrenGrow ==
  ASSUME NEW evs, NEW f, NEW N \in Nat, NEW S \in SUBSET (1..N), NEW m \in 1..N, \A k \in S : k < m
  PROVE  Children(evs, f, S \cup {m}) = Append(Children(evs, f, S), ChildAt(evs, f, m))
<1> DEFINE T == {m}
           s == Children(evs, f, S)
           x == ChildAt(evs, f, m)
<1>1. T \in SUBSET (1..N) /\ \A k \in S, l \in T : k < l
  OBVIOUS
<1>2. Children(evs, f, T) = <<x>>
  BY OneChild
<1>3. IsList(s)
  BY ChildrenAre
<1>4. Append(s, x) = s \o <<x>>
  BY <1>3, AppendedIsConcat
<1> HIDE DEF T
<1>5. ChildrenSplit(evs, f, S, T)
  BY <1>1, ChildrenJoined
<1>6. Children(evs, f, S \cup T) = s \o Children(evs, f, T)
  BY <1>5, Zenon DEF ChildrenSplit
<1> QED
  BY <1>2, <1>4, <1>6, Zenon DEF T

\* One text more, behind the others: what TextAfter does.
LEMMA TextGrows ==
  ASSUME NEW evs, IsList(evs), NEW m \in 1..Len(evs), IsList(evs[m].text),
         NEW S \in SUBSET (1..Len(evs)), \A k \in S : k < m
  PROVE  TextOf(evs, S \cup {m}) = IF TextOf(evs, S) = <<>> THEN <<evs[m].text>>
                                    ELSE <<TextOf(evs, S)[1] \o evs[m].text>>
<1> DEFINE said == Said(evs, S)
           more == Said(evs, S \cup {m})
           x == evs[m].text
<1>1. more = said \o x
  BY OneTextMore
<1>2. S = {} => said \o x = x
  BY NothingSaid, ConcatEmpty
<1>3. TextOf(evs, S \cup {m}) = <<more>>
  BY DEF TextOf
<1>4. S = {} => TextOf(evs, S) = <<>>
  BY DEF TextOf
<1>5. S # {} => TextOf(evs, S) = <<said>>
  BY DEF TextOf
<1> HIDE DEF said, more
<1>6. <<said>> # <<>> /\ <<said>>[1] = said
  BY Singleton, EmptyList
<1> QED
  BY <1>1, <1>2, <1>3, <1>4, <1>5, <1>6

LEMMA ElementIs ==
  ASSUME NEW evs, NEW f, NEW p
  PROVE  ElementAt(evs, f, p) = [attributes |-> evs[p].attributes,
                                 text       |-> TextOf(evs, Texts(evs, p)),
                                 children   |-> Children(evs, f, Kids(evs, p))]
BY Zenon DEF ElementAt, TextOf, Children, ChildAt

\* An element does not depend on what is before it.
LEMMA SameElement ==
  ASSUME NEW evs, IsList(evs), NEW p \in 1..Len(evs), NEW f, NEW g,
         \A k \in (p + 1)..Len(evs) : f[k] = g[k]
  PROVE  ElementAt(evs, f, p) = ElementAt(evs, g, p)
<1>1. Len(evs) \in Nat
  BY ListLength
<1>2. Kids(evs, p) \in SUBSET (1..Len(evs)) /\ \A k \in Kids(evs, p) : k \in (p + 1)..Len(evs)
  BY <1>1, SpanIs
<1>3. Children(evs, f, Kids(evs, p)) = Children(evs, g, Kids(evs, p))
  BY <1>1, <1>2, SameChildren
<1> QED
  BY <1>3, ElementIs

ElementsFrom(f, evs, m) == \A p \in m..Len(evs) : f[p] = ElementAt(evs, f, p)

LEMMA ElementsExist ==
  ASSUME NEW evs, IsList(evs)
  PROVE  \E f : ElementsFrom(f, evs, 1)
<1> DEFINE N == Len(evs)
           T == {n \in Nat : n <= N => \E f : ElementsFrom(f, evs, N + 1 - n)}
<1>1. N \in Nat
  BY ListLength
<1>2. \A n \in Nat : n \in T <=> (n <= N => \E f : ElementsFrom(f, evs, N + 1 - n))
  OBVIOUS
<1>3. T \in SUBSET Nat
  OBVIOUS
<1> HIDE DEF T
<1>4. 0 \in T
  <2>1. (N + 1 - 0)..Len(evs) = {}
    BY <1>1
  <2>2. \A f : ElementsFrom(f, evs, N + 1 - 0)
    BY <2>1 DEF ElementsFrom
  <2> QED
    BY <1>2, <2>2
<1>5. ASSUME NEW n \in T PROVE n + 1 \in T
  <2>1. n \in Nat /\ n + 1 \in Nat
    BY <1>3
  <2>2. CASE n + 1 <= N
    <3>1. n <= N
      BY <1>1, <2>1, <2>2
    <3>2. PICK f : ElementsFrom(f, evs, N + 1 - n)
      BY <1>2, <2>1, <3>1
    <3> DEFINE m == N + 1 - (n + 1)
               x == ElementAt(evs, f, m)
               g == [p \in m..N |-> IF p = m THEN x ELSE f[p]]
    <3>3. m \in 1..N /\ N + 1 - n = m + 1
      BY <1>1, <2>1, <2>2
    <3>4. g[m] = x /\ \A p \in (m + 1)..N : g[p] = f[p]
      BY <1>1, <3>3
    <3> HIDE DEF g
    <3>5. ASSUME NEW p \in m..N PROVE ElementAt(evs, g, p) = ElementAt(evs, f, p)
      <4>1. p \in 1..N /\ \A k \in (p + 1)..N : g[k] = f[k]
        BY <1>1, <3>3, <3>4
      <4> QED
        BY <4>1, SameElement
    <3>6. ASSUME NEW p \in m..N PROVE g[p] = ElementAt(evs, g, p)
      <4>1. CASE p = m
        BY <3>4, <3>5, <4>1
      <4>2. CASE p # m
        <5>1. p \in (m + 1)..N
          BY <1>1, <3>3, <4>2
        <5>2. f[p] = ElementAt(evs, f, p)
          BY <3>2, <3>3, <5>1 DEF ElementsFrom
        <5> QED
          BY <3>4, <3>5, <5>1, <5>2
      <4> QED
        BY <4>1, <4>2
    <3>7. ElementsFrom(g, evs, m)
      BY <3>6 DEF ElementsFrom
    <3> QED
      BY <1>2, <2>1, <3>7
  <2>3. CASE ~(n + 1 <= N)
    BY <1>2, <2>1, <2>3
  <2> QED
    BY <2>2, <2>3
<1>6. T = Nat
  BY <1>3, <1>4, <1>5, NatSetInduction
<1>7. N <= N /\ N + 1 - N = 1
  BY <1>1
<1> QED
  BY <1>1, <1>2, <1>6, <1>7

LEMMA ElementsAre ==
  ASSUME NEW evs, IsList(evs), NEW p \in 1..Len(evs)
  PROVE  Elements(evs)[p] = [attributes |-> evs[p].attributes,
                             text       |-> TextOf(evs, Texts(evs, p)),
                             children   |-> Children(evs, Elements(evs), Kids(evs, p))]
<1> DEFINE N == Len(evs)
           P(f) == f = [q \in 1..N |-> ElementAt(evs, f, q)]
<1>1. \E f : P(f)
  <2>1. PICK f : ElementsFrom(f, evs, 1)
    BY ElementsExist
  <2> DEFINE g == [q \in 1..N |-> f[q]]
  <2>2. ASSUME NEW q \in 1..N PROVE g[q] = ElementAt(evs, g, q)
    <3>1. N \in Nat
      BY ListLength
    <3>2. \A k \in (q + 1)..N : g[k] = f[k]
      BY <3>1
    <3>3. ElementAt(evs, g, q) = ElementAt(evs, f, q)
      BY <3>2, SameElement
    <3> QED
      BY <2>1, <3>3 DEF ElementsFrom
  <2>3. P(g)
    BY <2>2
  <2> HIDE DEF g, P
  <2> QED
    BY <2>3
<1>2. Elements(evs) = CHOOSE f : P(f)
  BY Zenon DEF Elements
<1>3. P(Elements(evs))
  <2> HIDE DEF P
  <2> QED
    BY <1>1, <1>2
<1>4. Elements(evs)[p] = ElementAt(evs, Elements(evs), p)
  BY <1>3
<1> QED
  BY <1>4, ElementIs

-----------------------------------------------------------------------------
(***************************************************************************)
(* The invariant.                                                          *)
(***************************************************************************)
\* What of an element has been read once the events up to n have: its texts up to there,
\* and its children up to m, which is the place before an open one.
TextsTo(evs, p, n) == {k \in Texts(evs, p) : k <= n}
KidsTo(evs, p, m)  == {k \in Kids(evs, p) : k <= m}

FrameAt(evs, p, n, m) == [name       |-> evs[p].text,
                          attributes |-> evs[p].attributes,
                          text       |-> TextOf(evs, TextsTo(evs, p, n)),
                          children   |-> Children(evs, Elements(evs), KidsTo(evs, p, m))]

ReadTo(ps, j, n) == IF j < Len(ps) THEN ps[j + 1] - 1 ELSE n

\* The open elements start at the places ps, one inside the other, and n events have been read.
Places(evs, ps, n) ==
  /\ n \in 1..Len(evs) /\ IsList(ps) /\ Len(ps) > 0
  /\ \A j \in 1..Len(ps) : ps[j] \in 1..n /\ IsStart(evs[ps[j]])
  /\ \A i \in 1..Len(ps), j \in 1..Len(ps) : i < j => ps[i] < ps[j]
  /\ \A j \in 1..Len(ps) : Depth(evs, ps[j]) = Depth(evs, ps[1]) + j - 1
  /\ \A j \in 1..Len(ps) : \A k \in ps[j]..n : Depth(evs, k) >= Depth(evs, ps[j])
  /\ n < Len(evs) => Depth(evs, n) = Depth(evs, ps[Len(ps)])

Path(evs, ps, fs, n) ==
  /\ Places(evs, ps, n)
  /\ IsList(fs) /\ Len(fs) = Len(ps)
  /\ \A j \in 1..Len(ps) : fs[j] = FrameAt(evs, ps[j], n, ReadTo(ps, j, n))

\* The start tags a call w looks for.
Sought(evs, w, k) == IsStart(evs[k]) /\ (w.op = "root" \/ evs[k].text = w.element)
Looked(evs, w, from, n) == {k \in (from + 1)..n : Sought(evs, w, k)}
Outermost(evs, C) == {p \in C : \A k \in C : p \notin Span(evs, k)}
ItemsOf(evs, O) == [i \in 1..Cardinality(O) |-> Elements(evs)[InOrder(O)[i]]]

\* What the search has been through between two places.
NoEndBetween(evs, O, from, n) ==
  \A m \in (from + 1)..n : IsEndDocument(evs[m]) => \E p \in O : m \in Span(evs, p)

Searched(evs, w, from, n, out) ==
  /\ \A k \in Looked(evs, w, from, n) : Span(evs, k) \subseteq 1..n
  /\ out = ItemsOf(evs, Outermost(evs, Looked(evs, w, from, n)))
  /\ NoEndBetween(evs, Outermost(evs, Looked(evs, w, from, n)), from, n)
  /\ w.op # "all" => Looked(evs, w, from, n) = {}

ReadingAt(evs, w, from, n, fs, out) ==
  \E ps : /\ Path(evs, ps, fs, n)
          /\ from < ps[1] /\ Sought(evs, w, ps[1])
          /\ Searched(evs, w, from, ps[1] - 1, out)

TypeInv ==
  /\ stream \in Streams
  /\ taken \in 0..Len(Events)
  /\ began \in 0..taken
  /\ call = <<>> \/ \E w \in Wanted : call = <<w>>
  /\ call = <<>> => frames = <<>>
  /\ IsList(answers)

SearchInv == Searching => Searched(Events, call[1], began, taken, items)
ReadInv   == Reading => ReadingAt(Events, call[1], began, taken, frames, items)

-----------------------------------------------------------------------------
(***************************************************************************)
(* What an event does to an open element.                                  *)
(***************************************************************************)
LEMMA ReadIs ==
  ASSUME NEW evs, IsList(evs), NEW p \in 1..Len(evs), NEW n \in Nat
  PROVE  /\ TextsTo(evs, p, n) \in SUBSET (1..Len(evs)) /\ KidsTo(evs, p, n) \in SUBSET (1..Len(evs))
         /\ \A k : k \in TextsTo(evs, p, n) <=> k \in Texts(evs, p) /\ k <= n
         /\ \A k : k \in KidsTo(evs, p, n) <=> k \in Kids(evs, p) /\ k <= n
         /\ n = p => TextsTo(evs, p, n) = {} /\ KidsTo(evs, p, n) = {}
<1>1. Texts(evs, p) \in SUBSET (1..Len(evs)) /\ Kids(evs, p) \in SUBSET (1..Len(evs))
  BY SpanIs
<1>2. \A k : k \in TextsTo(evs, p, n) <=> k \in Texts(evs, p) /\ k <= n
  BY DEF TextsTo
<1>3. \A k : k \in KidsTo(evs, p, n) <=> k \in Kids(evs, p) /\ k <= n
  BY DEF KidsTo
<1>4. \A k : k \in Texts(evs, p) \/ k \in Kids(evs, p) => k \in Nat /\ p < k
  BY SpanIs
<1>5. TextsTo(evs, p, p) = {} /\ KidsTo(evs, p, p) = {}
  <2>1. \A k \in Nat : ~(p < k /\ k <= p)
    OBVIOUS
  <2>2. \A k : k \notin TextsTo(evs, p, p) /\ k \notin KidsTo(evs, p, p)
    BY <1>4, <2>1 DEF TextsTo, KidsTo
  <2> QED
    BY <2>2
<1>6. TextsTo(evs, p, n) \in SUBSET (1..Len(evs)) /\ KidsTo(evs, p, n) \in SUBSET (1..Len(evs))
  BY <1>1, <1>2, <1>3
<1> QED
  BY <1>2, <1>3, <1>5, <1>6

LEMMA ReadNext ==
  ASSUME NEW evs, IsList(evs), NEW p \in 1..Len(evs), NEW n \in Nat
  PROVE  /\ n + 1 \in Texts(evs, p) => TextsTo(evs, p, n + 1) = TextsTo(evs, p, n) \cup {n + 1}
         /\ n + 1 \notin Texts(evs, p) => TextsTo(evs, p, n + 1) = TextsTo(evs, p, n)
         /\ n + 1 \notin Kids(evs, p) => KidsTo(evs, p, n + 1) = KidsTo(evs, p, n)
<1>1. n + 1 \in Nat
  OBVIOUS
<1>2. \A k : k \in Texts(evs, p) \/ k \in Kids(evs, p) => k \in Nat
  BY SpanIs
<1>3. \A k \in Nat : k <= n + 1 <=> (k <= n \/ k = n + 1)
  OBVIOUS
<1>4. /\ \A k : k \in TextsTo(evs, p, n) <=> k \in Texts(evs, p) /\ k <= n
      /\ \A k : k \in KidsTo(evs, p, n) <=> k \in Kids(evs, p) /\ k <= n
  BY ReadIs
<1>5. /\ \A k : k \in TextsTo(evs, p, n + 1) <=> k \in Texts(evs, p) /\ k <= n + 1
      /\ \A k : k \in KidsTo(evs, p, n + 1) <=> k \in Kids(evs, p) /\ k <= n + 1
  BY <1>1, ReadIs
<1>6. n + 1 \in Texts(evs, p) => TextsTo(evs, p, n + 1) = TextsTo(evs, p, n) \cup {n + 1}
  BY <1>2, <1>3, <1>4, <1>5
<1>7. n + 1 \notin Texts(evs, p) => TextsTo(evs, p, n + 1) = TextsTo(evs, p, n)
  BY <1>2, <1>3, <1>4, <1>5
<1>8. n + 1 \notin Kids(evs, p) => KidsTo(evs, p, n + 1) = KidsTo(evs, p, n)
  BY <1>2, <1>3, <1>4, <1>5
<1> QED
  BY <1>6, <1>7, <1>8

LEMMA SpanHas ==
  ASSUME NEW evs, IsList(evs), NEW p \in 1..Len(evs), NEW n \in 1..Len(evs), p < n
  PROVE  n \in Span(evs, p) <=> \A k \in (p + 1)..(n - 1) : Depth(evs, k) >= Depth(evs, p)
<1>1. Len(evs) \in Nat
  BY ListLength
<1>2. n \in (p + 1)..Len(evs)
  BY <1>1
<1> QED
  BY <1>2 DEF Span

LEMMA FrameNew ==
  ASSUME NEW evs, IsList(evs), NEW p \in 1..Len(evs)
  PROVE  FrameAt(evs, p, p, p) = Frame(evs[p])
<1>1. TextsTo(evs, p, p) = {} /\ KidsTo(evs, p, p) = {}
  BY ReadIs
<1>2. TextOf(evs, TextsTo(evs, p, p)) = <<>>
  BY <1>1 DEF TextOf
<1>3. Children(evs, Elements(evs), KidsTo(evs, p, p)) = <<>>
  BY <1>1, NoChildren
<1> QED
  BY <1>2, <1>3 DEF FrameAt, Frame

\* An event that is no text of the element and starts no child.
LEMMA FrameKept ==
  ASSUME NEW evs, IsList(evs), NEW p \in 1..Len(evs), NEW n \in Nat, NEW m, NEW l,
         n + 1 \notin Texts(evs, p), m = l \/ (m = n + 1 /\ l = n /\ n + 1 \notin Kids(evs, p))
  PROVE  FrameAt(evs, p, n + 1, m) = FrameAt(evs, p, n, l)
<1>1. TextsTo(evs, p, n + 1) = TextsTo(evs, p, n)
  BY ReadNext
<1>2. KidsTo(evs, p, m) = KidsTo(evs, p, l)
  BY ReadNext
<1> QED
  BY <1>1, <1>2 DEF FrameAt

LEMMA PlacesAre ==
  ASSUME NEW evs, IsList(evs), NEW ps, NEW n, Places(evs, ps, n)
  PROVE  /\ n \in 1..Len(evs) /\ n \in Nat /\ Len(evs) \in Nat /\ Len(ps) \in Nat /\ Len(ps) \in 1..Len(ps)
         /\ \A j \in 1..Len(ps) : /\ ps[j] \in 1..Len(evs) /\ ps[j] \in Nat /\ ps[j] <= n /\ j <= Len(ps)
                                  /\ Depth(evs, ps[j]) \in Int
                                  /\ j < Len(ps) => /\ ps[j] < ps[Len(ps)]
                                                    /\ Depth(evs, ps[j]) < Depth(evs, ps[Len(ps)])
         /\ \A k \in Nat : Depth(evs, k) \in Int
<1> DEFINE L == Len(ps)
<1>1. L \in Nat /\ L \in 1..L /\ Len(evs) \in Nat
  BY ListLength DEF Places
<1>2. \A k \in Nat : Depth(evs, k) \in Int
  BY DepthType
<1>3. n \in 1..Len(evs) /\ n \in Nat
  BY DEF Places
<1>4. ASSUME NEW j \in 1..L
      PROVE  /\ ps[j] \in 1..Len(evs) /\ ps[j] \in Nat /\ ps[j] <= n /\ j <= L
             /\ Depth(evs, ps[j]) \in Int
             /\ j < L => ps[j] < ps[L] /\ Depth(evs, ps[j]) < Depth(evs, ps[L])
  <2>1. ps[j] \in 1..n
    BY DEF Places
  <2>2. j < L => ps[j] < ps[L]
    BY <1>1 DEF Places
  <2>3. Depth(evs, ps[j]) = Depth(evs, ps[1]) + j - 1 /\ Depth(evs, ps[L]) = Depth(evs, ps[1]) + L - 1
    BY <1>1 DEF Places
  <2>4. 1 \in 1..L /\ ps[1] \in 1..n
    BY <1>1 DEF Places
  <2>5. Depth(evs, ps[1]) \in Int
    BY <1>2, <1>3, <2>4
  <2> QED
    BY <1>1, <1>3, <2>1, <2>2, <2>3, <2>5
<1> QED
  BY <1>1, <1>2, <1>3, <1>4

\* An event that neither opens nor closes an element.
LEMMA PlacesKept ==
  ASSUME NEW evs, IsList(evs), NEW ps, NEW n, Places(evs, ps, n), n < Len(evs),
         ~IsStart(evs[n + 1]), ~Closes(evs[n + 1])
  PROVE  Places(evs, ps, n + 1)
<1>1. n \in Nat /\ Len(evs) \in Nat /\ n + 1 \in 1..Len(evs) /\ Len(ps) \in 1..Len(ps)
  BY PlacesAre
<1>2. Depth(evs, n + 1) = Depth(evs, n)
  BY <1>1, DepthNext
<1>3. Depth(evs, n) = Depth(evs, ps[Len(ps)])
  BY DEF Places
<1>4. ASSUME NEW j \in 1..Len(ps)
      PROVE  /\ ps[j] \in 1..(n + 1) /\ IsStart(evs[ps[j]])
             /\ \A k \in ps[j]..(n + 1) : Depth(evs, k) >= Depth(evs, ps[j])
  <2>1. ps[j] \in 1..n /\ IsStart(evs[ps[j]])
    BY DEF Places
  <2>2. \A k \in ps[j]..n : Depth(evs, k) >= Depth(evs, ps[j])
    BY DEF Places
  <2>3. \A k \in ps[j]..(n + 1) : k \in ps[j]..n \/ k = n + 1
    BY <1>1, <2>1
  <2>4. n \in ps[j]..n
    BY <1>1, <2>1
  <2> QED
    BY <1>1, <1>2, <2>1, <2>2, <2>3, <2>4
<1> QED
  BY <1>1, <1>2, <1>3, <1>4 DEF Places

LEMMA PlacesEnter ==
  ASSUME NEW evs, IsList(evs), NEW ps, NEW n, Places(evs, ps, n), n < Len(evs), IsStart(evs[n + 1])
  PROVE  Places(evs, Append(ps, n + 1), n + 1)
<1> DEFINE L == Len(ps)
           qs == Append(ps, n + 1)
<1>1. n \in Nat /\ Len(evs) \in Nat /\ n + 1 \in 1..Len(evs) /\ L \in Nat /\ L \in 1..L
  BY PlacesAre
<1>2. IsList(qs) /\ Len(qs) = L + 1 /\ (\A i \in 1..L : qs[i] = ps[i]) /\ qs[L + 1] = n + 1
  <2>1. IsList(ps)
    BY DEF Places
  <2> QED
    BY <2>1, AppendList
<1>3. Depth(evs, n + 1) = Depth(evs, ps[L]) + 1
  <2>1. Depth(evs, n) = Depth(evs, ps[L])
    BY DEF Places
  <2> QED
    BY <1>1, <2>1, DepthNext
<1>4. /\ \A j \in 1..L : ps[j] \in 1..n /\ IsStart(evs[ps[j]])
      /\ \A i \in 1..L, j \in 1..L : i < j => ps[i] < ps[j]
      /\ \A j \in 1..L : Depth(evs, ps[j]) = Depth(evs, ps[1]) + j - 1
      /\ \A j \in 1..L : \A k \in ps[j]..n : Depth(evs, k) >= Depth(evs, ps[j])
  BY DEF Places
<1>5. /\ \A j \in 1..L : /\ ps[j] \in Nat /\ ps[j] <= n /\ Depth(evs, ps[j]) \in Int
                         /\ j < L => Depth(evs, ps[j]) < Depth(evs, ps[L])
      /\ 1 \in 1..L
      /\ \A j \in 1..(L + 1) : j \in 1..L \/ j = L + 1
      /\ Depth(evs, n + 1) \in Int
  <2>1. \A j \in 1..L : /\ ps[j] \in Nat /\ ps[j] <= n /\ Depth(evs, ps[j]) \in Int
                        /\ j < L => Depth(evs, ps[j]) < Depth(evs, ps[L])
    BY PlacesAre
  <2>2. Depth(evs, n + 1) \in Int
    BY <1>1, DepthType
  <2> HIDE DEF L
  <2>3. 1 \in 1..L /\ \A j \in 1..(L + 1) : j \in 1..L \/ j = L + 1
    BY <1>1
  <2> QED
    BY <2>1, <2>2, <2>3
<1> HIDE DEF qs, L
<1>6. ASSUME NEW j \in 1..(L + 1) PROVE qs[j] \in 1..(n + 1) /\ IsStart(evs[qs[j]])
  <2>1. CASE j \in 1..L
    <3>1. qs[j] = ps[j] /\ ps[j] \in 1..n /\ IsStart(evs[ps[j]])
      BY <1>2, <1>4, <2>1
    <3>2. ps[j] \in 1..(n + 1)
      BY <1>1, <3>1
    <3> QED
      BY <3>1, <3>2, Zenon
  <2>2. CASE j = L + 1
    BY <1>1, <1>2, <2>2
  <2> QED
    BY <1>5, <2>1, <2>2
<1>7. ASSUME NEW i \in 1..(L + 1), NEW j \in 1..(L + 1), i < j PROVE qs[i] < qs[j]
  <2>1. i \in 1..L
    BY <1>1, <1>7
  <2>2. CASE j \in 1..L
    BY <1>2, <1>4, <1>7, <2>1, <2>2
  <2>3. CASE j = L + 1
    BY <1>1, <1>2, <1>5, <2>1, <2>3
  <2> QED
    BY <1>5, <2>2, <2>3
<1>8. ASSUME NEW j \in 1..(L + 1) PROVE Depth(evs, qs[j]) = Depth(evs, qs[1]) + j - 1
  <2>1. qs[1] = ps[1]
    BY <1>2, <1>5
  <2>2. CASE j \in 1..L
    BY <1>2, <1>4, <2>1, <2>2
  <2>3. CASE j = L + 1
    <3>1. Depth(evs, ps[L]) = Depth(evs, ps[1]) + L - 1
      BY <1>1, <1>4
    <3>2. Depth(evs, ps[1]) \in Int
      BY <1>5
    <3> QED
      BY <1>1, <1>2, <1>3, <2>1, <2>3, <3>1, <3>2
  <2> QED
    BY <1>5, <2>2, <2>3
<1>9. ASSUME NEW j \in 1..(L + 1), NEW k \in qs[j]..(n + 1) PROVE Depth(evs, k) >= Depth(evs, qs[j])
  <2>1. CASE j \in 1..L
    <3>1. qs[j] = ps[j] /\ ps[j] \in Nat
      BY <1>2, <1>5, <2>1
    <3>2. CASE k = n + 1
      <4>1. j = L \/ j < L
        BY <1>1, <2>1
      <4>2. Depth(evs, ps[j]) <= Depth(evs, ps[L])
        BY <1>1, <1>5, <2>1, <4>1
      <4> QED
        BY <1>1, <1>3, <1>5, <2>1, <3>1, <3>2, <4>2
    <3>3. CASE k # n + 1
      <4>1. k \in ps[j]..n
        BY <1>1, <3>1, <3>3
      <4> QED
        BY <1>4, <2>1, <3>1, <4>1
    <3> QED
      BY <3>2, <3>3
  <2>2. CASE j = L + 1
    <3>1. k = n + 1
      BY <1>1, <1>2, <2>2
    <3> QED
      BY <1>2, <1>5, <2>2, <3>1
  <2> QED
    BY <1>5, <2>1, <2>2
<1>10. Len(qs) > 0 /\ Depth(evs, n + 1) = Depth(evs, qs[Len(qs)])
  BY <1>1, <1>2
<1>11. Places(evs, qs, n + 1)
  BY <1>1, <1>2, <1>6, <1>7, <1>8, <1>9, <1>10 DEF Places
<1> QED
  BY <1>11 DEF qs

LEMMA ShorterList ==
  ASSUME NEW s, IsList(s), NEW m \in 0..Len(s)
  PROVE  /\ IsList(SubSeq(s, 1, m)) /\ Len(SubSeq(s, 1, m)) = m
         /\ \A i \in 1..m : SubSeq(s, 1, m)[i] = s[i]
<1>1. Len(s) \in Nat /\ s \in Seq(Range(s))
  BY ListLength DEF IsList
<1>2. SubSeq(s, 1, m) = [i \in 1..m |-> s[i]]
  BY <1>1
<1>3. m \in Nat
  BY <1>1
<1> DEFINE r == [i \in 1..m |-> s[i]]
<1>4. DOMAIN r = 1..m /\ r = [i \in 1..m |-> r[i]] /\ \A i \in 1..m : r[i] = s[i]
  OBVIOUS
<1> HIDE DEF r
<1>5. IsList(r) /\ Len(r) = m
  BY <1>3, <1>4, FunctionList
<1>6. SubSeq(s, 1, m) = r
  BY <1>2 DEF r
<1> QED
  BY <1>4, <1>5, <1>6

\* The event t ends the body of the innermost element: it closes it, or there are no more.
Ending(evs, n, t) == \/ t = n + 1 /\ n < Len(evs) /\ Closes(evs[t])
                     \/ t = n /\ n = Len(evs)

LEMMA PlacesLeave ==
  ASSUME NEW evs, IsList(evs), NEW ps, NEW n, Places(evs, ps, n), NEW t, Ending(evs, n, t), Len(ps) > 1
  PROVE  Places(evs, SubSeq(ps, 1, Len(ps) - 1), t)
<1> DEFINE L == Len(ps)
           M == L - 1
           qs == SubSeq(ps, 1, M)
<1>1. n \in Nat /\ Len(evs) \in Nat /\ n \in 1..Len(evs) /\ L \in Nat /\ L \in 1..L
  BY PlacesAre
<1>2. IsList(qs) /\ Len(qs) = M /\ \A i \in 1..M : qs[i] = ps[i]
  <2>1. IsList(ps) /\ M \in 0..L
    BY <1>1 DEF Places
  <2> QED
    BY <2>1, ShorterList
<1>3. t \in 1..Len(evs) /\ (t = n \/ t = n + 1) /\ t \in Nat
  BY <1>1 DEF Ending
<1>4. M \in Nat /\ M > 0 /\ M \in 1..M /\ L = M + 1 /\ M < L /\ 1 \in 1..M /\ \A j \in 1..M : j \in 1..L /\ j < L
  BY <1>1
<1>5. /\ \A j \in 1..L : ps[j] \in 1..n /\ IsStart(evs[ps[j]])
      /\ \A i \in 1..L, j \in 1..L : i < j => ps[i] < ps[j]
      /\ \A j \in 1..L : Depth(evs, ps[j]) = Depth(evs, ps[1]) + j - 1
      /\ \A j \in 1..L : \A k \in ps[j]..n : Depth(evs, k) >= Depth(evs, ps[j])
      /\ n < Len(evs) => Depth(evs, n) = Depth(evs, ps[L])
  BY DEF Places
<1>6. \A j \in 1..L : ps[j] \in Nat /\ ps[j] <= n /\ Depth(evs, ps[j]) \in Int
  BY PlacesAre
<1>7. t = n + 1 => Depth(evs, t) = Depth(evs, ps[M])
  <2>1. t = n + 1 => Depth(evs, t) = Depth(evs, n) - 1 /\ n < Len(evs)
    BY <1>1, DepthNext DEF Ending
  <2>2. Depth(evs, ps[L]) = Depth(evs, ps[1]) + L - 1 /\ Depth(evs, ps[M]) = Depth(evs, ps[1]) + M - 1
    BY <1>1, <1>4, <1>5
  <2>3. Depth(evs, ps[1]) \in Int
    BY <1>4, <1>6
  <2> QED
    BY <1>4, <1>5, <2>1, <2>2, <2>3
<1> HIDE DEF qs, L, M
<1>8. ASSUME NEW j \in 1..M
      PROVE  /\ qs[j] \in 1..t /\ IsStart(evs[qs[j]])
             /\ Depth(evs, qs[j]) = Depth(evs, qs[1]) + j - 1
             /\ \A k \in qs[j]..t : Depth(evs, k) >= Depth(evs, qs[j])
  <2>1. /\ qs[j] = ps[j] /\ qs[1] = ps[1]
        /\ ps[j] \in 1..n /\ IsStart(evs[ps[j]]) /\ Depth(evs, ps[j]) = Depth(evs, ps[1]) + j - 1
    BY <1>2, <1>4, <1>5
  <2>2. ASSUME NEW k \in ps[j]..t PROVE Depth(evs, k) >= Depth(evs, ps[j])
    <3>1. CASE k \in ps[j]..n
      BY <1>4, <1>5, <3>1
    <3>2. CASE k \notin ps[j]..n
      <4>1. k = t /\ t = n + 1
        BY <1>1, <1>3, <2>1, <3>2
      <4>2. /\ Depth(evs, ps[j]) = Depth(evs, ps[1]) + j - 1 /\ Depth(evs, ps[M]) = Depth(evs, ps[1]) + M - 1
            /\ Depth(evs, ps[1]) \in Int /\ j <= M
        BY <1>4, <1>5, <1>6
      <4> QED
        BY <1>4, <1>7, <4>1, <4>2
    <3> QED
      BY <3>1, <3>2
  <2> QED
    BY <1>1, <1>3, <2>1, <2>2
<1>9. ASSUME NEW i \in 1..M, NEW j \in 1..M, i < j PROVE qs[i] < qs[j]
  BY <1>2, <1>4, <1>5, <1>9
<1>10. t < Len(evs) => Depth(evs, t) = Depth(evs, qs[Len(qs)])
  <2>1. t < Len(evs) => t = n + 1
    BY <1>1 DEF Ending
  <2> QED
    BY <1>2, <1>4, <1>7, <2>1
<1>11. Places(evs, qs, t)
  BY <1>2, <1>3, <1>4, <1>8, <1>9, <1>10 DEF Places
<1> QED
  BY <1>11 DEF qs, M, L

LEMMA ReplaceIn ==
  ASSUME NEW s, IsList(s), NEW i \in 1..Len(s), NEW x
  PROVE  /\ IsList([s EXCEPT ![i] = x]) /\ Len([s EXCEPT ![i] = x]) = Len(s)
         /\ [s EXCEPT ![i] = x][i] = x
         /\ \A j \in 1..Len(s) : j # i => [s EXCEPT ![i] = x][j] = s[j]
<1> DEFINE r == [s EXCEPT ![i] = x]
<1>1. Len(s) \in Nat /\ DOMAIN s = 1..Len(s)
  BY ListLength
<1>2. r = [j \in DOMAIN s |-> IF j = i THEN x ELSE s[j]]
  OBVIOUS
<1>3. /\ DOMAIN r = 1..Len(s) /\ r = [j \in 1..Len(s) |-> r[j]]
      /\ r[i] = x /\ \A j \in 1..Len(s) : j # i => r[j] = s[j]
  BY <1>1, <1>2
<1> HIDE DEF r
<1>4. IsList(r) /\ Len(r) = Len(s)
  BY <1>1, <1>3, FunctionList
<1> QED
  BY <1>3, <1>4 DEF r

LEMMA PathEnter ==
  ASSUME NEW evs, IsList(evs), NEW ps, NEW fs, NEW n, Path(evs, ps, fs, n), n < Len(evs), IsStart(evs[n + 1])
  PROVE  Path(evs, Append(ps, n + 1), Append(fs, Frame(evs[n + 1])), n + 1)
<1> DEFINE L == Len(ps)
           qs == Append(ps, n + 1)
           gs == Append(fs, Frame(evs[n + 1]))
<1>1. /\ Places(evs, ps, n) /\ IsList(fs) /\ Len(fs) = L /\ IsList(ps)
      /\ \A j \in 1..L : fs[j] = FrameAt(evs, ps[j], n, ReadTo(ps, j, n))
  BY DEF Path, Places
<1>2. /\ n \in Nat /\ Len(evs) \in Nat /\ n + 1 \in 1..Len(evs) /\ L \in Nat /\ L \in 1..L
      /\ \A j \in 1..L : ps[j] \in 1..Len(evs)
  BY <1>1, PlacesAre
<1>3. Places(evs, qs, n + 1)
  BY <1>1, PlacesEnter
<1>4. IsList(qs) /\ Len(qs) = L + 1 /\ (\A i \in 1..L : qs[i] = ps[i]) /\ qs[L + 1] = n + 1
  BY <1>1, AppendList
<1>5. IsList(gs) /\ Len(gs) = L + 1 /\ (\A i \in 1..L : gs[i] = fs[i]) /\ gs[L + 1] = Frame(evs[n + 1])
  BY <1>1, AppendList
<1> HIDE DEF qs, gs, L
<1>6. ASSUME NEW j \in 1..L PROVE gs[j] = FrameAt(evs, qs[j], n + 1, ReadTo(qs, j, n + 1))
  <2>1. j < Len(qs) /\ j + 1 \in 1..(L + 1) /\ (j < L => j + 1 \in 1..L)
    BY <1>2, <1>4
  <2>2. j < L => qs[j + 1] = ps[j + 1]
    BY <1>4, <2>1
  <2>3. ~(j < L) => qs[j + 1] - 1 = n
    <3>1. ~(j < L) => j + 1 = L + 1
      BY <1>2
    <3> QED
      BY <1>2, <1>4, <3>1
  <2>4. ReadTo(qs, j, n + 1) = ReadTo(ps, j, n)
    BY <2>1, <2>2, <2>3 DEF ReadTo, L
  <2>5. n + 1 \notin Texts(evs, ps[j])
    BY KindsDiffer DEF Texts
  <2>6. FrameAt(evs, ps[j], n + 1, ReadTo(ps, j, n)) = FrameAt(evs, ps[j], n, ReadTo(ps, j, n))
    BY <1>2, <2>5, FrameKept
  <2> QED
    BY <1>1, <1>4, <1>5, <2>4, <2>6
<1>7. gs[L + 1] = FrameAt(evs, qs[L + 1], n + 1, ReadTo(qs, L + 1, n + 1))
  <2>1. ReadTo(qs, L + 1, n + 1) = n + 1
    BY <1>2, <1>4 DEF ReadTo
  <2>2. FrameAt(evs, n + 1, n + 1, n + 1) = Frame(evs[n + 1])
    BY <1>2, FrameNew
  <2> QED
    BY <1>4, <1>5, <2>1, <2>2
<1>8. \A j \in 1..(L + 1) : j \in 1..L \/ j = L + 1
  BY <1>2
<1>9. \A j \in 1..Len(qs) : gs[j] = FrameAt(evs, qs[j], n + 1, ReadTo(qs, j, n + 1))
  BY <1>4, <1>6, <1>7, <1>8
<1> QED
  BY <1>3, <1>4, <1>5, <1>9 DEF Path, qs, gs

LEMMA PathIgnore ==
  ASSUME NEW evs, IsList(evs), NEW ps, NEW fs, NEW n, Path(evs, ps, fs, n), n < Len(evs),
         ~IsStart(evs[n + 1]), ~Closes(evs[n + 1]), ~IsText(evs[n + 1])
  PROVE  Path(evs, ps, fs, n + 1)
<1> DEFINE L == Len(ps)
<1>1. /\ Places(evs, ps, n) /\ IsList(fs) /\ Len(fs) = L
      /\ \A j \in 1..L : fs[j] = FrameAt(evs, ps[j], n, ReadTo(ps, j, n))
  BY DEF Path
<1>2. /\ n \in Nat /\ L \in Nat /\ \A j \in 1..L : ps[j] \in 1..Len(evs)
  BY <1>1, PlacesAre
<1>3. Places(evs, ps, n + 1)
  BY <1>1, PlacesKept
<1>4. ASSUME NEW j \in 1..L PROVE fs[j] = FrameAt(evs, ps[j], n + 1, ReadTo(ps, j, n + 1))
  <2>1. n + 1 \notin Texts(evs, ps[j]) /\ n + 1 \notin Kids(evs, ps[j])
    BY DEF Texts, Kids
  <2>2. \/ ReadTo(ps, j, n + 1) = ReadTo(ps, j, n)
        \/ ReadTo(ps, j, n + 1) = n + 1 /\ ReadTo(ps, j, n) = n
    BY DEF ReadTo
  <2>3. FrameAt(evs, ps[j], n + 1, ReadTo(ps, j, n + 1)) = FrameAt(evs, ps[j], n, ReadTo(ps, j, n))
    BY <1>2, <2>1, <2>2, FrameKept
  <2> QED
    BY <1>1, <2>3
<1> QED
  BY <1>1, <1>3, <1>4 DEF Path

\* A text goes to the innermost element.
LEMMA PathText ==
  ASSUME NEW evs, IsList(evs), NEW ps, NEW fs, NEW n, Path(evs, ps, fs, n), n < Len(evs),
         IsText(evs[n + 1]), IsList(evs[n + 1].text)
  PROVE  Path(evs, ps, [fs EXCEPT ![Len(fs)].text = TextAfter(fs[Len(fs)], evs[n + 1].text)], n + 1)
<1> DEFINE L == Len(ps)
           p == ps[L]
           old == fs[L]
           x == evs[n + 1].text
           new == [old EXCEPT !.text = TextAfter(old, x)]
           gs == [fs EXCEPT ![L] = new]
<1> HIDE DEF new, gs
<1>1. /\ Places(evs, ps, n) /\ IsList(fs) /\ Len(fs) = L
      /\ \A j \in 1..L : fs[j] = FrameAt(evs, ps[j], n, ReadTo(ps, j, n))
  BY DEF Path
<1>2. /\ n \in Nat /\ L \in Nat /\ L \in 1..L /\ n + 1 \in 1..Len(evs) /\ Len(evs) \in Nat
      /\ \A j \in 1..L : /\ ps[j] \in 1..Len(evs) /\ ps[j] \in Nat /\ ps[j] <= n
                         /\ j < L => Depth(evs, ps[j]) < Depth(evs, ps[L])
                         /\ Depth(evs, ps[j]) \in Int
  <2>1. /\ n \in Nat /\ L \in Nat /\ L \in 1..L /\ n \in 1..Len(evs) /\ Len(evs) \in Nat
        /\ \A j \in 1..L : /\ ps[j] \in 1..Len(evs) /\ ps[j] \in Nat /\ ps[j] <= n
                           /\ j < L => Depth(evs, ps[j]) < Depth(evs, ps[L])
                           /\ Depth(evs, ps[j]) \in Int
    BY <1>1, PlacesAre
  <2>2. n + 1 \in 1..Len(evs)
    BY <2>1
  <2> QED
    BY <2>1, <2>2
<1>3. ~IsStart(evs[n + 1]) /\ ~Closes(evs[n + 1])
  BY KindsDiffer
<1>4. Places(evs, ps, n + 1)
  BY <1>1, <1>3, PlacesKept
<1>5. Depth(evs, n + 1) = Depth(evs, p)
  <2>1. Depth(evs, n) = Depth(evs, p)
    BY <1>1 DEF Places
  <2> QED
    BY <1>2, <1>3, <2>1, DepthNext
<1>6. IsList(gs) /\ Len(gs) = L /\ gs[L] = new /\ \A j \in 1..L : j # L => gs[j] = fs[j]
  BY <1>1, <1>2, ReplaceIn DEF gs
<1>7. ASSUME NEW j \in 1..L, j # L PROVE gs[j] = FrameAt(evs, ps[j], n + 1, ReadTo(ps, j, n + 1))
  <2>1. j < L
    BY <1>2, <1>7
  <2>2. Depth(evs, n + 1) # Depth(evs, ps[j])
    BY <1>2, <1>5, <2>1
  <2>3. n + 1 \notin Texts(evs, ps[j])
    BY <2>2 DEF Texts
  <2>4. ReadTo(ps, j, n + 1) = ReadTo(ps, j, n)
    BY <2>1 DEF ReadTo
  <2>5. FrameAt(evs, ps[j], n + 1, ReadTo(ps, j, n)) = FrameAt(evs, ps[j], n, ReadTo(ps, j, n))
    BY <1>2, <2>3, FrameKept
  <2>6. gs[j] = fs[j] /\ fs[j] = FrameAt(evs, ps[j], n, ReadTo(ps, j, n))
    BY <1>1, <1>6, <1>7
  <2> QED
    BY <2>4, <2>5, <2>6
<1>8. new = FrameAt(evs, p, n + 1, n + 1)
  <2>1. p \in 1..Len(evs) /\ p \in Nat /\ p < n + 1
    BY <1>2
  <2>2. n + 1 \in Span(evs, p)
    <3>1. \A k \in p..n : Depth(evs, k) >= Depth(evs, p)
      BY <1>1, <1>2 DEF Places
    <3>2. \A k \in (p + 1)..((n + 1) - 1) : k \in p..n
      BY <1>2, <2>1
    <3> QED
      BY <1>2, <2>1, <3>1, <3>2, SpanHas
  <2>3. n + 1 \in Texts(evs, p) /\ n + 1 \notin Kids(evs, p)
    BY <1>3, <1>5, <2>2 DEF Texts, Kids
  <2> DEFINE S == TextsTo(evs, p, n)
  <2>4. S \in SUBSET (1..Len(evs)) /\ \A k \in S : k < n + 1
    <3>1. S \in SUBSET (1..Len(evs)) /\ \A k : k \in S <=> k \in Texts(evs, p) /\ k <= n
      BY <1>2, <2>1, ReadIs
    <3> HIDE DEF S
    <3>2. \A k \in S : k \in 1..Len(evs) /\ k <= n
      BY <3>1
    <3> QED
      BY <1>2, <3>1, <3>2
  <2>5. TextsTo(evs, p, n + 1) = S \cup {n + 1} /\ KidsTo(evs, p, n + 1) = KidsTo(evs, p, n)
    BY <1>2, <2>1, <2>3, ReadNext
  <2>6. TextOf(evs, S \cup {n + 1}) = IF TextOf(evs, S) = <<>> THEN <<x>> ELSE <<TextOf(evs, S)[1] \o x>>
    <3> HIDE DEF S
    <3> QED
      BY <1>2, <2>4, TextGrows, Zenon
  <2>7. old = FrameAt(evs, p, n, n)
    <3>1. old = FrameAt(evs, p, n, ReadTo(ps, L, n))
      BY <1>1, <1>2
    <3>2. ReadTo(ps, L, n) = n
      BY <1>2 DEF ReadTo
    <3> QED
      BY <3>1, <3>2
  <2>8. TextAfter(old, x) = TextOf(evs, TextsTo(evs, p, n + 1))
    <3>1. old.text = TextOf(evs, S)
      BY <2>7 DEF FrameAt
    <3> QED
      BY <2>5, <2>6, <3>1, Zenon DEF TextAfter
  <2> QED
    BY <2>5, <2>7, <2>8 DEF FrameAt, new
<1>9. ReadTo(ps, L, n + 1) = n + 1
  BY <1>2 DEF ReadTo
<1>10. \A j \in 1..Len(ps) : gs[j] = FrameAt(evs, ps[j], n + 1, ReadTo(ps, j, n + 1))
  BY <1>6, <1>7, <1>8, <1>9
<1>11. Path(evs, ps, gs, n + 1)
  BY <1>4, <1>6, <1>10 DEF Path
<1>12. [fs EXCEPT ![Len(fs)].text = TextAfter(fs[Len(fs)], x)] = gs
  BY <1>1 DEF gs, new
<1> QED
  BY <1>11, <1>12

LEMMA FrameFields ==
  ASSUME NEW a, NEW b, NEW c, NEW d, NEW e, NEW f,
         f = [name |-> a, attributes |-> b, text |-> c, children |-> d]
  PROVE  /\ Data(f) = [attributes |-> b, text |-> c, children |-> d]
         /\ [f EXCEPT !.children = e] = [name |-> a, attributes |-> b, text |-> c, children |-> e]
BY DEF Data

\* The innermost element is complete when its body is over.
LEMMA LastElement ==
  ASSUME NEW evs, IsList(evs), NEW ps, NEW fs, NEW n, Path(evs, ps, fs, n), NEW t, Ending(evs, n, t)
  PROVE  /\ Span(evs, ps[Len(ps)]) = (ps[Len(ps)] + 1)..t
         /\ fs[Len(ps)].name = evs[ps[Len(ps)]].text
         /\ Data(fs[Len(ps)]) = Elements(evs)[ps[Len(ps)]]
<1> DEFINE L == Len(ps)
           p == ps[L]
<1>1. /\ Places(evs, ps, n)
      /\ \A j \in 1..L : fs[j] = FrameAt(evs, ps[j], n, ReadTo(ps, j, n))
  BY DEF Path
<1>2. /\ n \in Nat /\ L \in Nat /\ L \in 1..L /\ Len(evs) \in Nat /\ n \in 1..Len(evs)
      /\ p \in 1..Len(evs) /\ p \in Nat /\ p <= n /\ Depth(evs, p) \in Int
  BY <1>1, PlacesAre
<1>3. /\ \A k \in p..n : Depth(evs, k) >= Depth(evs, p)
      /\ n < Len(evs) => Depth(evs, n) = Depth(evs, p)
  BY <1>1, <1>2 DEF Places
<1>4. t \in 1..Len(evs) /\ t \in Nat /\ (t = n \/ t = n + 1)
  BY <1>2 DEF Ending
<1>5. ASSUME NEW k PROVE k \in Span(evs, p) <=> k \in (p + 1)..t
  <2>1. CASE k \in (p + 1)..t
    <3>1. k \in 1..Len(evs) /\ p < k
      BY <1>2, <1>4, <2>1
    <3>2. \A j \in (p + 1)..(k - 1) : j \in p..n
      BY <1>2, <1>4, <2>1
    <3> QED
      BY <1>2, <1>3, <2>1, <3>1, <3>2, SpanHas
  <2>2. CASE k \notin (p + 1)..t
    <3>1. SUFFICES ASSUME k \in Span(evs, p) PROVE FALSE
      BY <2>2
    <3>2. k \in 1..Len(evs) /\ p < k
      BY <1>2, <3>1, SpanIs
    <3>3. t < k
      BY <1>2, <1>4, <2>2, <3>2
    <3>4. t = n + 1 /\ Closes(evs[n + 1]) /\ n < Len(evs)
      BY <1>2, <3>2, <3>3 DEF Ending
    <3>5. Depth(evs, t) < Depth(evs, p)
      BY <1>2, <1>3, <3>4, DepthNext
    <3>6. t \in (p + 1)..(k - 1)
      BY <1>2, <3>2, <3>3, <3>4
    <3>7. Depth(evs, t) >= Depth(evs, p)
      BY <1>2, <3>1, <3>2, <3>6, SpanHas
    <3>8. Depth(evs, t) \in Int
      BY <1>4, DepthType
    <3> QED
      BY <1>2, <3>5, <3>7, <3>8
  <2> QED
    BY <2>1, <2>2
<1>6. Span(evs, p) = (p + 1)..t
  BY <1>5
<1>7. ASSUME NEW k \in Span(evs, p), IsText(evs[k]) \/ IsStart(evs[k]) PROVE k <= n
  <2>1. k \in Nat /\ k <= t
    BY <1>2, <1>4, <1>5
  <2>2. t = n + 1 => Closes(evs[t])
    BY <1>2 DEF Ending
  <2>3. t = n + 1 => k # t
    BY <1>7, <2>2, KindsDiffer
  <2> QED
    BY <1>2, <1>4, <2>1, <2>3
<1>8. TextsTo(evs, p, n) = Texts(evs, p) /\ KidsTo(evs, p, n) = Kids(evs, p)
  BY <1>7 DEF TextsTo, KidsTo, Texts, Kids
<1>9. fs[L] = FrameAt(evs, p, n, n)
  <2>1. ReadTo(ps, L, n) = n
    BY <1>2 DEF ReadTo
  <2> QED
    BY <1>1, <1>2, <2>1
<1>10. fs[L].name = evs[p].text
  BY <1>9 DEF FrameAt
<1>11. Data(fs[L]) = Elements(evs)[p]
  <2>1. Elements(evs)[p] = [attributes |-> evs[p].attributes,
                            text       |-> TextOf(evs, Texts(evs, p)),
                            children   |-> Children(evs, Elements(evs), Kids(evs, p))]
    BY <1>2, ElementsAre
  <2>2. fs[L] = [name       |-> evs[p].text,
                 attributes |-> evs[p].attributes,
                 text       |-> TextOf(evs, Texts(evs, p)),
                 children   |-> Children(evs, Elements(evs), Kids(evs, p))]
    BY <1>8, <1>9, Zenon DEF FrameAt
  <2>3. Data(fs[L]) = [attributes |-> evs[p].attributes,
                       text       |-> TextOf(evs, Texts(evs, p)),
                       children   |-> Children(evs, Elements(evs), Kids(evs, p))]
    BY <2>2, FrameFields
  <2> QED
    BY <2>1, <2>3
<1> QED
  BY <1>6, <1>10, <1>11

\* The children of the element at q, up to t, with the one at p the last.
LastKid(evs, q, p, t) ==
  /\ KidsTo(evs, q, t) = KidsTo(evs, q, p - 1) \cup {p}
  /\ \A k \in KidsTo(evs, q, p - 1) : k < p
  /\ KidsTo(evs, q, p - 1) \in SUBSET (1..Len(evs))

LEMMA ChildRead ==
  ASSUME NEW evs, IsList(evs), NEW ps, NEW n, Places(evs, ps, n), NEW t, Ending(evs, n, t), Len(ps) > 1
  PROVE  LastKid(evs, ps[Len(ps) - 1], ps[Len(ps)], t)
<1> SUFFICES ASSUME NEW p, NEW q, p = ps[Len(ps)], q = ps[Len(ps) - 1] PROVE LastKid(evs, q, p, t)
  OBVIOUS
<1> DEFINE L == Len(ps)
           M == L - 1
<1>1. /\ n \in Nat /\ L \in Nat /\ L \in 1..L /\ Len(evs) \in Nat /\ n \in 1..Len(evs)
      /\ p \in 1..Len(evs) /\ p \in Nat /\ p <= n /\ Depth(evs, p) \in Int
  BY PlacesAre
<1>2. M \in 1..L /\ M < L
  BY <1>1
<1>3. q \in 1..Len(evs) /\ q \in Nat /\ q < p /\ Depth(evs, q) \in Int
  BY <1>2, PlacesAre
<1>4. Depth(evs, p) = Depth(evs, q) + 1
  <2>1. Depth(evs, p) = Depth(evs, ps[1]) + L - 1 /\ Depth(evs, q) = Depth(evs, ps[1]) + M - 1
    BY <1>1, <1>2 DEF Places
  <2>2. Depth(evs, ps[1]) \in Int
    <3>1. 1 \in 1..L
      BY <1>1
    <3> QED
      BY <3>1, PlacesAre
  <2> QED
    BY <1>1, <2>1, <2>2
<1>5. /\ \A k \in p..n : Depth(evs, k) >= Depth(evs, p)
      /\ \A k \in q..n : Depth(evs, k) >= Depth(evs, q)
      /\ IsStart(evs[p])
  BY <1>1, <1>2 DEF Places
<1>6. t \in 1..Len(evs) /\ t \in Nat /\ (t = n \/ t = n + 1)
  BY <1>1 DEF Ending
<1>7. p \in Kids(evs, q)
  <2>1. \A j \in (q + 1)..(p - 1) : j \in q..n
    BY <1>1, <1>3
  <2>2. p \in Span(evs, q)
    BY <1>1, <1>3, <1>5, <2>1, SpanHas
  <2> QED
    BY <1>4, <1>5, <2>2 DEF Kids
<1>8. ASSUME NEW k \in Kids(evs, q), k <= t, p < k PROVE FALSE
  <2>1. IsStart(evs[k]) /\ Depth(evs, k) = Depth(evs, p) /\ k \in 1..Len(evs)
    <3>1. k \in 1..Len(evs)
      BY <1>3, SpanIs
    <3>2. IsStart(evs[k]) /\ Depth(evs, k) = Depth(evs, q) + 1
      BY DEF Kids
    <3> QED
      BY <1>4, <3>1, <3>2
  <2>2. t = n + 1 => Closes(evs[t])
    BY <1>1 DEF Ending
  <2>3. k # t \/ t = n
    BY <1>6, <2>1, <2>2, KindsDiffer
  <2>4. k - 1 \in p..n /\ k - 1 \in Nat /\ (k - 1) + 1 = k
    BY <1>1, <1>6, <1>8, <2>1, <2>3
  <2>5. Depth(evs, k) = Depth(evs, k - 1) + 1 /\ Depth(evs, k - 1) \in Int
    BY <2>1, <2>4, DepthNext
  <2> QED
    BY <1>1, <1>5, <2>1, <2>4, <2>5
<1>9. /\ p - 1 \in Nat
      /\ \A k : k \in KidsTo(evs, q, t) <=> k \in Kids(evs, q) /\ k <= t
      /\ \A k : k \in KidsTo(evs, q, p - 1) <=> k \in Kids(evs, q) /\ k <= p - 1
      /\ KidsTo(evs, q, p - 1) \in SUBSET (1..Len(evs))
  <2>1. p - 1 \in Nat
    BY <1>1
  <2> QED
    BY <1>3, <1>6, <2>1, ReadIs
<1>10. \A k \in Kids(evs, q) : k \in Nat
  BY <1>3, SpanIs
<1>11. ASSUME NEW k PROVE k \in KidsTo(evs, q, t) <=> k \in KidsTo(evs, q, p - 1) \cup {p}
  <2>1. p <= t
    BY <1>1, <1>6
  <2>2. ASSUME k \in Nat PROVE k <= p - 1 <=> k < p
    BY <1>1, <2>2
  <2>3. ASSUME k \in Nat PROVE k < p \/ k = p \/ p < k
    BY <1>1, <2>3
  <2>4. ASSUME k \in Nat, k < p PROVE k <= t
    BY <1>1, <1>6, <2>1, <2>4
  <2> QED
    BY <1>7, <1>8, <1>9, <1>10, <2>1, <2>2, <2>3, <2>4
<1>12. \A k \in KidsTo(evs, q, p - 1) : k < p
  BY <1>1, <1>9, <1>10
<1>13. KidsTo(evs, q, t) = KidsTo(evs, q, p - 1) \cup {p}
  BY <1>11
<1> QED
  BY <1>9, <1>12, <1>13 DEF LastKid

\* A child goes to the element around it.
LEMMA PathLeave ==
  ASSUME NEW evs, IsList(evs), NEW ps, NEW fs, NEW n, Path(evs, ps, fs, n), NEW t, Ending(evs, n, t),
         Len(ps) > 1, NEW M, M = Len(fs) - 1
  PROVE  Path(evs, SubSeq(ps, 1, M),
              [SubSeq(fs, 1, M) EXCEPT
                 ![M].children = Append(fs[M].children, <<fs[Len(fs)].name, Data(fs[Len(fs)])>>)], t)
<1> DEFINE L == Len(ps)
           p == ps[L]
           q == ps[M]
           qs == SubSeq(ps, 1, M)
           old == SubSeq(fs, 1, M)
           child == <<fs[L].name, Data(fs[L])>>
           new == [fs[M] EXCEPT !.children = Append(fs[M].children, child)]
           gs == [old EXCEPT ![M] = new]
<1> HIDE DEF new, gs, old, qs, child
<1>1. /\ Places(evs, ps, n) /\ IsList(ps) /\ IsList(fs) /\ Len(fs) = L
      /\ \A j \in 1..L : fs[j] = FrameAt(evs, ps[j], n, ReadTo(ps, j, n))
  BY DEF Path, Places
<1>2. /\ n \in Nat /\ L \in Nat /\ L \in 1..L /\ Len(evs) \in Nat /\ n \in 1..Len(evs)
      /\ \A j \in 1..L : ps[j] \in 1..Len(evs) /\ ps[j] \in Nat /\ ps[j] <= n
  BY <1>1, PlacesAre
<1>3. /\ M = L - 1 /\ M \in Nat /\ M \in 0..L /\ M \in 1..M /\ M < L /\ M + 1 = L
      /\ \A j \in 1..M : j \in 1..L /\ j < L
      /\ \A j \in 1..M : j # M => j < M /\ j + 1 \in 1..M
  BY <1>1, <1>2
<1>4. Places(evs, qs, t)
  BY <1>1, <1>3, PlacesLeave DEF qs
<1>5. IsList(qs) /\ Len(qs) = M /\ \A i \in 1..M : qs[i] = ps[i]
  BY <1>1, <1>3, ShorterList DEF qs
<1>6. IsList(old) /\ Len(old) = M /\ \A i \in 1..M : old[i] = fs[i]
  BY <1>1, <1>3, ShorterList DEF old
<1>7. IsList(gs) /\ Len(gs) = M /\ gs[M] = new /\ \A j \in 1..M : j # M => gs[j] = old[j]
  BY <1>3, <1>6, ReplaceIn DEF gs
<1>8. t = n \/ (t = n + 1 /\ Closes(evs[n + 1]))
  BY DEF Ending
<1>9. ASSUME NEW j \in 1..M PROVE TextsTo(evs, ps[j], t) = TextsTo(evs, ps[j], n)
  <2>1. Closes(evs[n + 1]) => n + 1 \notin Texts(evs, ps[j])
    BY KindsDiffer DEF Texts
  <2> QED
    BY <1>2, <1>3, <1>8, <2>1, ReadNext
<1>10. ASSUME NEW j \in 1..M, j # M PROVE gs[j] = FrameAt(evs, qs[j], t, ReadTo(qs, j, t))
  <2>1. ReadTo(qs, j, t) = ReadTo(ps, j, n)
    BY <1>3, <1>5, <1>10 DEF ReadTo
  <2>2. fs[j] = FrameAt(evs, ps[j], n, ReadTo(ps, j, n))
    BY <1>1, <1>3
  <2>3. FrameAt(evs, ps[j], t, ReadTo(ps, j, n)) = FrameAt(evs, ps[j], n, ReadTo(ps, j, n))
    BY <1>9 DEF FrameAt
  <2> QED
    BY <1>5, <1>6, <1>7, <1>10, <2>1, <2>2, <2>3
<1>11. new = FrameAt(evs, q, t, t)
  <2> DEFINE S == KidsTo(evs, q, p - 1)
             f == Elements(evs)
  <2>1. /\ KidsTo(evs, q, t) = S \cup {p} /\ S \in SUBSET (1..Len(evs)) /\ \A k \in S : k < p
    <3>1. LastKid(evs, ps[Len(ps) - 1], ps[Len(ps)], t)
      BY <1>1, ChildRead
    <3>2. LastKid(evs, q, p, t)
      BY <1>3, <3>1
    <3> QED
      BY <3>2, Zenon DEF LastKid
  <2>2. child = ChildAt(evs, f, p)
    BY LastElement DEF child, ChildAt
  <2>3. p \in 1..Len(evs)
    BY <1>2
  <2>4. fs[M] = FrameAt(evs, q, n, p - 1)
    <3>1. ReadTo(ps, M, n) = p - 1
      BY <1>3 DEF ReadTo
    <3> QED
      BY <1>1, <1>3, <3>1
  <2>5. fs[M].children = Children(evs, f, S)
    BY <2>4 DEF FrameAt
  <2>6. Children(evs, f, S \cup {p}) = Append(Children(evs, f, S), ChildAt(evs, f, p))
    <3> HIDE DEF S
    <3> QED
      BY <1>2, <2>1, <2>3, ChildrenGrow
  <2>7. Append(fs[M].children, child) = Children(evs, f, KidsTo(evs, q, t))
    BY <2>1, <2>2, <2>5, <2>6, Zenon
  <2>8. new = [name       |-> evs[q].text,
               attributes |-> evs[q].attributes,
               text       |-> TextOf(evs, TextsTo(evs, q, n)),
               children   |-> Append(fs[M].children, child)]
    BY <2>4, FrameFields DEF new, FrameAt
  <2>9. TextsTo(evs, q, t) = TextsTo(evs, q, n)
    BY <1>3, <1>9
  <2> QED
    BY <2>7, <2>8, <2>9, Zenon DEF FrameAt
<1>12. gs[M] = FrameAt(evs, qs[M], t, ReadTo(qs, M, t))
  <2>1. ReadTo(qs, M, t) = t
    BY <1>3, <1>5 DEF ReadTo
  <2> QED
    BY <1>3, <1>5, <1>7, <1>11, <2>1
<1>13. \A j \in 1..Len(qs) : gs[j] = FrameAt(evs, qs[j], t, ReadTo(qs, j, t))
  BY <1>5, <1>10, <1>12
<1>14. Path(evs, qs, gs, t)
  BY <1>4, <1>5, <1>7, <1>13 DEF Path
<1>15. gs = [SubSeq(fs, 1, M) EXCEPT
               ![M].children = Append(fs[M].children, <<fs[Len(fs)].name, Data(fs[Len(fs)])>>)]
  <2>1. old[M] = fs[M]
    BY <1>3, <1>6
  <2>2. gs = [old EXCEPT ![M] = [old[M] EXCEPT !.children = Append(fs[M].children, child)]]
    BY <2>1 DEF gs, new
  <2> QED
    BY <1>1, <2>2 DEF old, child
<1> QED
  BY <1>14, <1>15 DEF qs

-----------------------------------------------------------------------------
(***************************************************************************)
(* What the search goes past.                                              *)
(***************************************************************************)
\* An element inside another ends before it.
LEMMA SpanInside ==
  ASSUME NEW evs, IsList(evs), NEW p \in 1..Len(evs), NEW k \in Span(evs, p), IsStart(evs[k])
  PROVE  Span(evs, k) \subseteq Span(evs, p) /\ Depth(evs, k) > Depth(evs, p)
<1>1. k \in 1..Len(evs) /\ p < k /\ p \in Nat /\ k \in Nat /\ Len(evs) \in Nat
  <2>1. Len(evs) \in Nat
    BY ListLength
  <2> QED
    BY <2>1, SpanIs
<1>2. \A j \in (p + 1)..(k - 1) : Depth(evs, j) >= Depth(evs, p)
  BY <1>1, SpanHas
<1>3. \A j \in Nat : Depth(evs, j) \in Int
  BY DepthType
<1>4. Depth(evs, k) = Depth(evs, k - 1) + 1 /\ Depth(evs, k - 1) >= Depth(evs, p)
  <2>1. k - 1 \in Nat /\ (k - 1) + 1 = k /\ (k - 1 = p \/ k - 1 \in (p + 1)..(k - 1))
    BY <1>1
  <2>2. Depth(evs, k) = Depth(evs, k - 1) + 1
    BY <2>1, DepthNext
  <2>3. Depth(evs, k - 1) >= Depth(evs, p)
    <3>1. CASE k - 1 = p
      BY <1>1, <1>3, <3>1
    <3>2. CASE k - 1 \in (p + 1)..(k - 1)
      BY <1>2, <3>2, Zenon
    <3> QED
      BY <2>1, <3>1, <3>2
  <2> QED
    BY <2>2, <2>3
<1>5. Depth(evs, k) > Depth(evs, p)
  <2>1. k - 1 \in Nat
    BY <1>1
  <2> QED
    BY <1>1, <1>3, <1>4, <2>1
<1>6. ASSUME NEW n \in Span(evs, k) PROVE n \in Span(evs, p)
  <2>1. n \in 1..Len(evs) /\ k < n /\ n \in Nat
    BY <1>1, SpanIs
  <2>2. \A j \in (k + 1)..(n - 1) : Depth(evs, j) >= Depth(evs, k)
    BY <1>1, <2>1, SpanHas
  <2>3. ASSUME NEW j \in (p + 1)..(n - 1) PROVE Depth(evs, j) >= Depth(evs, p)
    <3>1. j \in (p + 1)..(k - 1) \/ j = k \/ j \in (k + 1)..(n - 1)
      BY <1>1, <2>1
    <3>2. j \in Nat
      BY <1>1
    <3> QED
      BY <1>1, <1>2, <1>3, <1>5, <2>2, <3>1, <3>2
  <2>4. p < n
    BY <1>1, <2>1
  <2> QED
    BY <2>1, <2>3, <2>4, SpanHas
<1> QED
  BY <1>5, <1>6

LEMMA LookedIs ==
  ASSUME NEW evs, IsList(evs), NEW w, NEW from \in Nat, NEW n \in 0..Len(evs)
  PROVE  /\ Looked(evs, w, from, n) \in SUBSET (1..Len(evs))
         /\ Outermost(evs, Looked(evs, w, from, n)) \in SUBSET (1..Len(evs))
         /\ \A k : k \in Looked(evs, w, from, n) <=> k \in (from + 1)..n /\ Sought(evs, w, k)
<1>1. Len(evs) \in Nat
  BY ListLength
<1>2. \A k : k \in Looked(evs, w, from, n) <=> k \in (from + 1)..n /\ Sought(evs, w, k)
  BY DEF Looked
<1>3. \A k \in (from + 1)..n : k \in 1..Len(evs)
  BY <1>1
<1>4. Looked(evs, w, from, n) \in SUBSET (1..Len(evs))
  BY <1>2, <1>3
<1>5. Outermost(evs, Looked(evs, w, from, n)) \in SUBSET (1..Len(evs))
  BY <1>4 DEF Outermost
<1> QED
  BY <1>2, <1>4, <1>5

LEMMA NoItems ==
  ASSUME NEW evs
  PROVE  Outermost(evs, {}) = {} /\ ItemsOf(evs, {}) = <<>>
<1>1. Outermost(evs, {}) = {}
  BY DEF Outermost
<1>2. Cardinality({}) = 0
  BY FS_EmptySet
<1>3. ItemsOf(evs, {}) = <<>>
  BY <1>2 DEF ItemsOf
<1> QED
  BY <1>1, <1>3

ItemsWith(evs, S, m) == ItemsOf(evs, S \cup {m}) = Append(ItemsOf(evs, S), Elements(evs)[m])

LEMMA ItemsGrow ==
  ASSUME NEW evs, IsList(evs), NEW S \in SUBSET (1..Len(evs)), NEW m \in 1..Len(evs), \A k \in S : k < m
  PROVE  ItemsWith(evs, S, m)
<1> DEFINE n == Cardinality(S)
           R == S \cup {m}
           s == ItemsOf(evs, S)
           r == ItemsOf(evs, R)
           x == Elements(evs)[m]
           y == Append(s, x)
<1>1. Len(evs) \in Nat
  BY ListLength
<1>2. /\ Cardinality(R) = n + 1
      /\ \A i \in 1..n : InOrder(R)[i] = InOrder(S)[i]
      /\ InOrder(R)[n + 1] = m
  BY <1>1, OrderGrows
<1>3. n \in Nat
  BY <1>1, OrderedSet
<1>4. DOMAIN s = 1..n /\ s = [i \in 1..n |-> s[i]] /\ \A i \in 1..n : s[i] = Elements(evs)[InOrder(S)[i]]
  BY DEF ItemsOf
<1> HIDE DEF R, n
<1>5. /\ DOMAIN r = 1..(n + 1) /\ r = [i \in 1..(n + 1) |-> r[i]]
      /\ \A i \in 1..(n + 1) : r[i] = Elements(evs)[InOrder(R)[i]]
  BY <1>2 DEF ItemsOf
<1> HIDE DEF s, r, x
<1>6. IsList(s) /\ Len(s) = n
  BY <1>3, <1>4, FunctionList
<1>7. IsList(r) /\ Len(r) = n + 1
  <2>1. n + 1 \in Nat
    BY <1>3
  <2> QED
    BY <1>5, <2>1, FunctionList
<1>8. IsList(y) /\ Len(y) = n + 1 /\ (\A i \in 1..n : y[i] = s[i]) /\ y[n + 1] = x
  BY <1>6, AppendList
<1> HIDE DEF y
<1>9. ASSUME NEW i \in 1..(n + 1) PROVE r[i] = y[i]
  <2>1. CASE i \in 1..n
    BY <1>2, <1>4, <1>5, <1>8, <2>1
  <2>2. CASE i = n + 1
    BY <1>2, <1>5, <1>8, <2>2 DEF x
  <2> QED
    BY <1>3, <2>1, <2>2
<1>10. r = y
  BY <1>7, <1>8, <1>9, SameList
<1> QED
  BY <1>10, Zenon DEF ItemsWith, r, s, x, y, R

\* Where the search begins.
LEMMA SearchBegins ==
  ASSUME NEW evs, NEW w, NEW n \in Nat
  PROVE  Searched(evs, w, n, n, <<>>)
<1>1. (n + 1)..n = {}
  OBVIOUS
<1>2. Looked(evs, w, n, n) = {}
  BY <1>1 DEF Looked
<1> QED
  BY <1>1, <1>2, NoItems DEF Searched, NoEndBetween

\* An event that is passed.
LEMMA SearchPasses ==
  ASSUME NEW evs, IsList(evs), NEW w, NEW out, NEW n \in Nat, n < Len(evs), NEW from \in 0..n,
         Searched(evs, w, from, n, out), ~Sought(evs, w, n + 1), ~IsEndDocument(evs[n + 1])
  PROVE  Searched(evs, w, from, n + 1, out)
<1> DEFINE C == Looked(evs, w, from, n)
           D == Looked(evs, w, from, n + 1)
<1>1. Len(evs) \in Nat /\ from \in Nat /\ n \in 0..Len(evs) /\ n + 1 \in 0..Len(evs)
  BY ListLength
<1>2. \A k : k \in (from + 1)..(n + 1) <=> k \in (from + 1)..n \/ k = n + 1
  BY <1>1
<1>3. D = C
  <2>1. \A k : k \in C <=> k \in (from + 1)..n /\ Sought(evs, w, k)
    BY <1>1, LookedIs, Zenon
  <2>2. \A k : k \in D <=> k \in (from + 1)..(n + 1) /\ Sought(evs, w, k)
    BY <1>1, LookedIs, Zenon
  <2> HIDE DEF C, D
  <2>3. \A k : k \in D <=> k \in C
    BY <1>2, <2>1, <2>2, Zenon
  <2> QED
    BY <2>3
<1>4. \A k \in C : Span(evs, k) \subseteq 1..(n + 1)
  <2>1. \A k \in C : Span(evs, k) \subseteq 1..n
    BY DEF Searched
  <2>2. 1..n \subseteq 1..(n + 1)
    OBVIOUS
  <2> QED
    BY <2>1, <2>2
<1>5. NoEndBetween(evs, Outermost(evs, C), from, n + 1)
  <2>1. NoEndBetween(evs, Outermost(evs, C), from, n)
    BY DEF Searched
  <2> QED
    BY <1>2, <2>1 DEF NoEndBetween
<1>6. out = ItemsOf(evs, Outermost(evs, C)) /\ (w.op # "all" => C = {})
  BY DEF Searched
<1> HIDE DEF C, D
<1>7. D = Looked(evs, w, from, n + 1)
  BY DEF D
<1> QED
  BY <1>3, <1>4, <1>5, <1>6, <1>7 DEF Searched

\* An element that is among those wanted, with everything in it.
LEMMA SearchTakes ==
  ASSUME NEW evs, IsList(evs), NEW w, w.op = "all", NEW out, NEW p \in 1..Len(evs), NEW from \in 0..(p - 1),
         Searched(evs, w, from, p - 1, out), Sought(evs, w, p), NEW t \in p..Len(evs),
         Span(evs, p) = (p + 1)..t
  PROVE  Searched(evs, w, from, t, Append(out, Elements(evs)[p]))
<1> DEFINE C == Looked(evs, w, from, p - 1)
           D == Looked(evs, w, from, t)
           O == Outermost(evs, C)
<1>1. /\ Len(evs) \in Nat /\ from \in Nat /\ p \in Nat /\ t \in Nat /\ from < p /\ p <= t
      /\ p - 1 \in 0..Len(evs) /\ t \in 0..Len(evs)
  BY ListLength
<1>2. \A k : k \in (from + 1)..t <=> k \in (from + 1)..(p - 1) \/ k = p \/ k \in (p + 1)..t
  BY <1>1
<1>3. /\ C \in SUBSET (1..Len(evs)) /\ D \in SUBSET (1..Len(evs)) /\ O \in SUBSET (1..Len(evs))
      /\ \A k : k \in C <=> k \in (from + 1)..(p - 1) /\ Sought(evs, w, k)
      /\ \A k : k \in D <=> k \in (from + 1)..t /\ Sought(evs, w, k)
  BY <1>1, LookedIs
<1>4. /\ \A k \in C : Span(evs, k) \subseteq 1..(p - 1)
      /\ out = ItemsOf(evs, O)
      /\ NoEndBetween(evs, O, from, p - 1)
  BY DEF Searched
<1>5. \A k : k \in O <=> k \in C /\ \A l \in C : k \notin Span(evs, l)
  BY DEF Outermost
<1>6. \A k : k \in Outermost(evs, D) <=> k \in D /\ \A l \in D : k \notin Span(evs, l)
  BY DEF Outermost
<1> HIDE DEF C, D, O
<1>7. \A k : k \in D <=> k \in C \/ k = p \/ (k \in (p + 1)..t /\ Sought(evs, w, k))
  BY <1>2, <1>3
<1>8. \A k \in C : k < p
  BY <1>1, <1>3
<1>9. ASSUME NEW k, NEW l \in D, k \in Span(evs, l) PROVE l < k
  BY <1>3, <1>9, SpanIs
<1>10. ASSUME NEW k PROVE k \in Outermost(evs, D) <=> k \in O \cup {p}
  <2>1. ASSUME k \in Outermost(evs, D) PROVE k \in O \cup {p}
    <3>1. k \in D /\ p \in D /\ k \notin Span(evs, p)
      BY <1>6, <1>7, <2>1
    <3>2. k \in C \/ k = p
      BY <1>7, <3>1
    <3> QED
      BY <1>5, <1>6, <1>7, <2>1, <3>2
  <2>2. ASSUME k \in O, NEW l \in D, k \in Span(evs, l) PROVE FALSE
    <3>1. k \in C /\ k < p /\ l \notin C /\ k \in Nat
      BY <1>3, <1>5, <1>8, <2>2
    <3>2. l \in Nat /\ p <= l
      BY <1>1, <1>7, <3>1
    <3>3. l < k
      BY <1>9, <2>2
    <3> QED
      BY <1>1, <3>1, <3>2, <3>3
  <2>3. ASSUME NEW l \in D, p \in Span(evs, l) PROVE FALSE
    <3>1. l < p
      BY <1>9, <2>3
    <3>2. l \in C
      BY <1>1, <1>7, <3>1
    <3>3. p \in 1..(p - 1)
      BY <1>4, <2>3, <3>2
    <3> QED
      BY <1>1, <3>3
  <2>4. k \in O => k \in D
    BY <1>5, <1>7
  <2>5. p \in D
    BY <1>7
  <2> QED
    BY <1>6, <2>1, <2>2, <2>3, <2>4, <2>5
<1>11. Outermost(evs, D) = O \cup {p}
  BY <1>10
<1>12. \A k \in O : k < p
  BY <1>5, <1>8
<1>13. ItemsOf(evs, Outermost(evs, D)) = Append(out, Elements(evs)[p])
  <2>1. ItemsWith(evs, O, p)
    BY <1>3, <1>12, ItemsGrow
  <2> QED
    BY <1>4, <1>11, <2>1, Zenon DEF ItemsWith
<1>14. \A k \in D : Span(evs, k) \subseteq 1..t
  <2>1. ASSUME NEW k \in C PROVE Span(evs, k) \subseteq 1..t
    <3>1. 1..(p - 1) \subseteq 1..t
      BY <1>1
    <3> QED
      BY <1>4, <3>1
  <2>2. Span(evs, p) \subseteq 1..t
    BY <1>1
  <2>3. ASSUME NEW k \in (p + 1)..t, Sought(evs, w, k) PROVE Span(evs, k) \subseteq 1..t
    <3>1. IsStart(evs[k])
      BY <2>3 DEF Sought
    <3>2. Span(evs, k) \subseteq Span(evs, p)
      BY <3>1, SpanInside
    <3> QED
      BY <2>2, <3>2
  <2> QED
    BY <1>7, <2>1, <2>2, <2>3
<1>15. NoEndBetween(evs, Outermost(evs, D), from, t)
  <2>1. ASSUME NEW m \in (from + 1)..t, IsEndDocument(evs[m])
        PROVE  \E k \in O \cup {p} : m \in Span(evs, k)
    <3>1. m # p
      <4>1. IsStart(evs[p])
        BY DEF Sought
      <4> QED
        BY <2>1, <4>1, KindsDiffer
    <3>2. m \in (from + 1)..(p - 1) \/ m \in Span(evs, p)
      BY <1>2, <3>1
    <3> QED
      BY <1>4, <2>1, <3>2 DEF NoEndBetween
  <2> QED
    BY <1>11, <2>1 DEF NoEndBetween
<1> QED
  BY <1>13, <1>14, <1>15 DEF Searched, D

-----------------------------------------------------------------------------
(***************************************************************************)
(* The names of an element's tree.                                         *)
(***************************************************************************)
Names(evs, S) == [i \in 1..Cardinality(S) |-> evs[InOrder(S)[i]].text]

NamesWith(evs, S, m) == Names(evs, S \cup {m}) = Append(Names(evs, S), evs[m].text)

LEMMA NamesGrow ==
  ASSUME NEW evs, IsList(evs), NEW S \in SUBSET (1..Len(evs)), NEW m \in 1..Len(evs), \A k \in S : k < m
  PROVE  NamesWith(evs, S, m)
<1> DEFINE n == Cardinality(S)
           R == S \cup {m}
           s == Names(evs, S)
           r == Names(evs, R)
           x == evs[m].text
           y == Append(s, x)
<1>1. Len(evs) \in Nat
  BY ListLength
<1>2. /\ Cardinality(R) = n + 1
      /\ \A i \in 1..n : InOrder(R)[i] = InOrder(S)[i]
      /\ InOrder(R)[n + 1] = m
  BY <1>1, OrderGrows
<1>3. n \in Nat
  BY <1>1, OrderedSet
<1>4. DOMAIN s = 1..n /\ s = [i \in 1..n |-> s[i]] /\ \A i \in 1..n : s[i] = evs[InOrder(S)[i]].text
  BY DEF Names
<1> HIDE DEF R, n
<1>5. /\ DOMAIN r = 1..(n + 1) /\ r = [i \in 1..(n + 1) |-> r[i]]
      /\ \A i \in 1..(n + 1) : r[i] = evs[InOrder(R)[i]].text
  BY <1>2 DEF Names
<1> HIDE DEF s, r, x
<1>6. IsList(s) /\ Len(s) = n
  BY <1>3, <1>4, FunctionList
<1>7. IsList(r) /\ Len(r) = n + 1
  <2>1. n + 1 \in Nat
    BY <1>3
  <2> QED
    BY <1>5, <2>1, FunctionList
<1>8. IsList(y) /\ Len(y) = n + 1 /\ (\A i \in 1..n : y[i] = s[i]) /\ y[n + 1] = x
  BY <1>6, AppendList
<1> HIDE DEF y
<1>9. ASSUME NEW i \in 1..(n + 1) PROVE r[i] = y[i]
  <2>1. CASE i \in 1..n
    BY <1>2, <1>4, <1>5, <1>8, <2>1
  <2>2. CASE i = n + 1
    BY <1>2, <1>5, <1>8, <2>2 DEF x
  <2> QED
    BY <1>3, <2>1, <2>2
<1>10. r = y
  BY <1>7, <1>8, <1>9, SameList
<1> QED
  BY <1>10, Zenon DEF NamesWith, r, s, x, y, R

\* The walk of Preorder, that many steps of it.
WalkFrom(x) == [names |-> <<>>, todo |-> <<x>>]
WalkStep(s) == IF s.todo = <<>> THEN s
               ELSE [names |-> Append(s.names, Head(s.todo)[1]),
                     todo  |-> Head(s.todo)[2].children \o Tail(s.todo)]

Walking(w, x, n) == w = [k \in 0..n |-> IF k = 0 THEN WalkFrom(x) ELSE WalkStep(w[k - 1])]

CanWalk(x, n) == \E w : Walking(w, x, n)

LEMMA WalkExists ==
  ASSUME NEW x, NEW N \in Nat
  PROVE  CanWalk(x, N)
<1> DEFINE T == {n \in Nat : CanWalk(x, n)}
<1>1. 0 \in T
  <2> DEFINE f == [n \in 0..0 |-> WalkFrom(x)]
  <2>1. Walking(f, x, 0)
    BY DEF Walking
  <2> HIDE DEF f
  <2> QED
    BY <2>1 DEF CanWalk
<1>2. ASSUME NEW n \in T PROVE n + 1 \in T
  <2>1. PICK f : Walking(f, x, n)
    BY DEF CanWalk
  <2>2. n \in Nat
    OBVIOUS
  <2> DEFINE y == WalkStep(f[n])
             g == [k \in 0..(n + 1) |-> IF k = n + 1 THEN y ELSE f[k]]
             h == [k \in 0..(n + 1) |-> IF k = 0 THEN WalkFrom(x) ELSE WalkStep(g[k - 1])]
  <2>3. ASSUME NEW k \in 0..(n + 1) PROVE g[k] = h[k]
    <3>1. CASE k = n + 1
      <4>1. k # 0 /\ k - 1 = n /\ n \in 0..(n + 1) /\ n # n + 1
        BY <2>2, <3>1
      <4>2. g[k - 1] = f[n]
        BY <4>1
      <4> QED
        BY <3>1, <4>1, <4>2
    <3>2. CASE k # n + 1
      <4>1. k \in 0..n /\ (k # 0 => k - 1 \in 0..(n + 1) /\ k - 1 # n + 1)
        BY <2>2, <3>2
      <4>2. f[k] = IF k = 0 THEN WalkFrom(x) ELSE WalkStep(f[k - 1])
        BY <2>1, <4>1 DEF Walking
      <4>3. g[k] = f[k] /\ (k # 0 => g[k - 1] = f[k - 1])
        BY <3>2, <4>1
      <4> QED
        BY <4>2, <4>3
    <3> QED
      BY <3>1, <3>2
  <2>4. g = h
    BY <2>3
  <2>5. Walking(g, x, n + 1)
    BY <2>4, Zenon DEF Walking
  <2>6. CanWalk(x, n + 1)
    BY <2>5, Zenon DEF CanWalk
  <2>7. n + 1 \in Nat
    BY <2>2
  <2> HIDE DEF y, g, h
  <2> QED
    BY <2>6, <2>7
<1> HIDE DEF T
<1>3. T \in SUBSET Nat
  BY DEF T
<1>4. T = Nat
  BY <1>1, <1>2, <1>3, NatSetInduction
<1> QED
  BY <1>4 DEF T

LEMMA PreorderIs ==
  ASSUME NEW name, NEW data, NEW n \in Nat
  PROVE  \E w : Walking(w, <<name, data>>, n) /\ Preorder(name, data, n) = w[n].names
<1> DEFINE walk == CHOOSE w : w = [k \in 0..n |->
                     IF k = 0 THEN [names |-> <<>>, todo |-> << <<name, data>> >>]
                     ELSE LET s == w[k - 1] IN
                          IF s.todo = <<>> THEN s
                          ELSE [names |-> Append(s.names, Head(s.todo)[1]),
                                todo  |-> Head(s.todo)[2].children \o Tail(s.todo)]]
<1>1. \E w : Walking(w, <<name, data>>, n)
  BY WalkExists DEF CanWalk
<1>2. Walking(walk, <<name, data>>, n)
  BY <1>1, Zenon DEF Walking, WalkFrom, WalkStep
<1>3. Preorder(name, data, n) = walk[n].names
  BY Zenon DEF Preorder
<1> HIDE DEF walk
<1> QED
  BY <1>2, <1>3

LEMMA WalkingStep ==
  ASSUME NEW w, NEW x, NEW N \in Nat, Walking(w, x, N)
  PROVE  w[0] = WalkFrom(x) /\ \A n \in Nat : n + 1 <= N => w[n + 1] = WalkStep(w[n])
<1>1. ASSUME NEW k \in 0..N PROVE w[k] = IF k = 0 THEN WalkFrom(x) ELSE WalkStep(w[k - 1])
  BY DEF Walking
<1>2. w[0] = WalkFrom(x)
  <2>1. 0 \in 0..N
    OBVIOUS
  <2> QED
    BY <2>1, <1>1
<1>3. ASSUME NEW n \in Nat, n + 1 <= N PROVE w[n + 1] = WalkStep(w[n])
  <2>1. n + 1 \in 0..N /\ (n + 1) - 1 = n /\ n + 1 # 0
    BY <1>3
  <2> QED
    BY <1>1, <2>1
<1> QED
  BY <1>2, <1>3

LEMMA SmallestLargest ==
  ASSUME NEW N \in Nat, NEW S \in SUBSET (1..N), S # {}
  PROVE  /\ \E m \in S : \A k \in S : m <= k
         /\ \E m \in S : \A k \in S : k <= m
<1> DEFINE n == Cardinality(S)
           s == InOrder(S)
<1>1. S \in SUBSET Nat /\ Orders(s, n, S)
  BY OrderedSet
<1> HIDE DEF n, s
<1>2. /\ n \in Nat /\ s \in [1..n -> S]
      /\ \A l, j \in 1..n : l < j => s[l] < s[j]
      /\ \A k \in S : \E l \in 1..n : s[l] = k
  BY <1>1 DEF Orders
<1>3. 1 \in 1..n /\ n \in 1..n
  <2>1. \E l \in 1..n : TRUE
    BY <1>2
  <2> QED
    BY <1>2, <2>1
<1>4. ASSUME NEW k \in S PROVE s[1] <= k /\ k <= s[n]
  <2>1. PICK l \in 1..n : s[l] = k
    BY <1>2
  <2>2. s[1] \in Nat /\ s[n] \in Nat /\ k \in Nat
    BY <1>1, <1>2, <1>3
  <2>3. (1 = l \/ 1 < l) /\ (l = n \/ l < n)
    BY <1>2
  <2> QED
    BY <1>2, <1>3, <2>1, <2>2, <2>3
<1> QED
  BY <1>2, <1>3, <1>4

\* Two children of an element are one behind the other.
LEMMA KidsApart ==
  ASSUME NEW evs, IsList(evs), NEW q \in 1..Len(evs), NEW c \in Kids(evs, q), NEW d \in Kids(evs, q), c < d,
         NEW n \in Span(evs, c)
  PROVE  n < d
<1>1. /\ c \in 1..Len(evs) /\ d \in 1..Len(evs) /\ Len(evs) \in Nat /\ c \in Nat /\ d \in Nat
      /\ IsStart(evs[c]) /\ IsStart(evs[d]) /\ Depth(evs, c) = Depth(evs, d)
  <2>1. Len(evs) \in Nat /\ c \in 1..Len(evs) /\ d \in 1..Len(evs)
    BY ListLength, SpanIs
  <2> QED
    BY <2>1 DEF Kids
<1>2. n \in 1..Len(evs) /\ c < n
  BY <1>1, SpanIs
<1>3. d - 1 \in Nat /\ (d - 1) + 1 = d /\ c <= d - 1
  BY <1>1
<1>4. Depth(evs, d) = Depth(evs, d - 1) + 1 /\ Depth(evs, d - 1) \in Int
  BY <1>1, <1>3, DepthNext
<1>5. SUFFICES ASSUME d <= n PROVE FALSE
  BY <1>1, <1>2
<1>6. c # d - 1
  BY <1>1, <1>4
<1>7. d - 1 \in (c + 1)..(n - 1)
  BY <1>1, <1>2, <1>3, <1>5, <1>6
<1>8. Depth(evs, d - 1) >= Depth(evs, c)
  BY <1>1, <1>2, <1>7, SpanHas
<1> QED
  BY <1>1, <1>4, <1>8

\* What starts in an element is a child of it or in one.
LEMMA KidAround ==
  ASSUME NEW evs, IsList(evs), NEW q \in 1..Len(evs), NEW r \in Span(evs, q), IsStart(evs[r])
  PROVE  \E c \in Kids(evs, q) : r = c \/ r \in Span(evs, c)
<1> DEFINE J == {j \in q..r : Depth(evs, j) = Depth(evs, q)}
<1>1. /\ Len(evs) \in Nat /\ q \in Nat /\ r \in Nat /\ r \in 1..Len(evs) /\ q < r
  <2>1. Len(evs) \in Nat
    BY ListLength
  <2> QED
    BY <2>1, SpanIs
<1>2. \A j \in (q + 1)..(r - 1) : Depth(evs, j) >= Depth(evs, q)
  BY <1>1, SpanHas
<1>3. \A j \in Nat : Depth(evs, j) \in Int
  BY DepthType
<1>4. Depth(evs, r) > Depth(evs, q)
  BY SpanInside
<1>5. PICK m \in J : \A k \in J : k <= m
  <2>1. q \in J /\ J \in SUBSET (1..Len(evs))
    BY <1>1
  <2> HIDE DEF J
  <2> QED
    BY <1>1, <2>1, SmallestLargest
<1>6. m \in Nat /\ q <= m /\ m < r /\ Depth(evs, m) = Depth(evs, q) /\ m + 1 \in Nat /\ m + 1 <= r
  <2>1. m \in q..r /\ Depth(evs, m) = Depth(evs, q) /\ m # r
    BY <1>1, <1>3, <1>4
  <2> QED
    BY <1>1, <2>1
<1>7. \A j \in (m + 1)..r : Depth(evs, j) > Depth(evs, q)
  <2>1. ASSUME NEW j \in (m + 1)..r PROVE Depth(evs, j) > Depth(evs, q)
    <3>1. j \in q..r /\ ~(j <= m) /\ j \in Nat /\ (j = r \/ j \in (q + 1)..(r - 1))
      BY <1>1, <1>6
    <3>2. Depth(evs, j) # Depth(evs, q)
      BY <1>5, <3>1
    <3> QED
      BY <1>1, <1>2, <1>3, <1>4, <3>1, <3>2
  <2> QED
    BY <2>1
<1> DEFINE c == m + 1
<1>8. IsStart(evs[c]) /\ Depth(evs, c) = Depth(evs, q) + 1
  <2>1. Depth(evs, c) > Depth(evs, m)
    BY <1>1, <1>6, <1>7
  <2>2. Depth(evs, m) \in Int /\ Depth(evs, c) \in Int
    BY <1>3, <1>6
  <2>3. /\ Closes(evs[c]) => Depth(evs, c) = Depth(evs, m) - 1
        /\ IsStart(evs[c]) => Depth(evs, c) = Depth(evs, m) + 1
        /\ ~IsStart(evs[c]) /\ ~Closes(evs[c]) => Depth(evs, c) = Depth(evs, m)
    BY <1>6, DepthNext
  <2> QED
    BY <1>6, <2>1, <2>2, <2>3
<1>9. c \in 1..Len(evs) /\ q < c /\ c <= r /\ c \in Nat
  BY <1>1, <1>6
<1> HIDE DEF c
<1>10. c \in Kids(evs, q)
  <2>1. \A j \in (q + 1)..(c - 1) : j \in (q + 1)..(r - 1)
    BY <1>1, <1>9
  <2>2. c \in Span(evs, q)
    BY <1>2, <1>9, <2>1, SpanHas
  <2> QED
    BY <1>8, <2>2 DEF Kids
<1>11. r = c \/ r \in Span(evs, c)
  <2>1. ASSUME NEW j \in (c + 1)..(r - 1) PROVE Depth(evs, j) >= Depth(evs, c)
    <3>1. j \in (m + 1)..r /\ j \in Nat
      BY <1>1, <1>6, <1>9 DEF c
    <3> QED
      BY <1>1, <1>3, <1>7, <1>8, <1>9, <3>1
  <2>2. c < r => r \in Span(evs, c)
    BY <1>1, <1>9, <2>1, SpanHas
  <2> QED
    BY <1>1, <1>9, <2>2
<1> QED
  BY <1>10, <1>11

HeadAndTail(x, s) == Head(<<x>> \o s) = x /\ Tail(<<x>> \o s) = s /\ <<x>> \o s # <<>>

LEMMA HeadTail ==
  ASSUME NEW x, NEW s, IsList(s)
  PROVE  HeadAndTail(x, s)
<1> DEFINE r == <<x>> \o s
<1>1. /\ IsList(r) /\ Len(r) = 1 + Len(s)
      /\ r[1] = x /\ \A i \in 1..Len(s) : r[1 + i] = s[i]
  BY Singleton, ConcatList
<1>2. Len(s) \in Nat
  BY ListLength
<1> HIDE DEF r
<1>3. r # <<>> /\ r \in Seq(Range(r))
  BY <1>1, <1>2, ListLength DEF IsList
<1>4. Head(r) = x
  BY <1>1, <1>3
<1> DEFINE u == Tail(r)
<1>5. u \in Seq(Range(r)) /\ Len(u) = Len(s) /\ \A i \in 1..Len(u) : u[i] = r[i + 1]
  BY <1>1, <1>2, <1>3, HeadTailProperties
<1> HIDE DEF u
<1>6. IsList(u)
  BY <1>5, ListOf
<1>7. \A i \in 1..Len(u) : u[i] = s[i]
  BY <1>1, <1>2, <1>5
<1>8. u = s
  BY <1>5, <1>6, <1>7, SameList
<1> QED
  BY <1>3, <1>4, <1>8, Zenon DEF HeadAndTail, r, u

\* The start tags of an element and of all in it.
TagsOf(evs, p) == {k \in {p} \cup Span(evs, p) : IsStart(evs[k])}

LEMMA TagsAre ==
  ASSUME NEW evs, IsList(evs), NEW p \in 1..Len(evs)
  PROVE  /\ TagsOf(evs, p) \in SUBSET (1..Len(evs)) /\ \A k \in TagsOf(evs, p) : IsStart(evs[k])
         /\ \A q \in TagsOf(evs, p) : Kids(evs, q) \subseteq TagsOf(evs, p)
<1>1. TagsOf(evs, p) \in SUBSET (1..Len(evs)) /\ \A k \in TagsOf(evs, p) : IsStart(evs[k])
  BY SpanIs DEF TagsOf
<1>2. ASSUME NEW q \in TagsOf(evs, p), NEW k \in Kids(evs, q) PROVE k \in TagsOf(evs, p)
  <2>1. k \in Span(evs, q) /\ IsStart(evs[k])
    BY DEF Kids
  <2>2. q = p \/ (q \in Span(evs, p) /\ IsStart(evs[q]))
    BY DEF TagsOf
  <2>3. k \in Span(evs, p)
    BY <2>1, <2>2, SpanInside
  <2> QED
    BY <2>1, <2>3 DEF TagsOf
<1> QED
  BY <1>1, <1>2

\* The walk s has been to the tags V; the elements to go to start at P.
WalkAt(evs, p, s, P, V) ==
  /\ P \subseteq TagsOf(evs, p) /\ V \subseteq TagsOf(evs, p)
  /\ s.names = Names(evs, V) /\ s.todo = Children(evs, Elements(evs), P)
  /\ \A k \in V, l \in TagsOf(evs, p) : l \notin V => k < l
  /\ \A q \in P : q \notin V
  /\ \A l \in TagsOf(evs, p) : l \notin V => \E q \in P : l = q \/ l \in Span(evs, q)
  /\ \A q \in P, r \in P : q < r => \A n \in Span(evs, q) : n < r

LEMMA WalkBegins ==
  ASSUME NEW evs, IsList(evs), NEW p \in 1..Len(evs), IsStart(evs[p])
  PROVE  WalkAt(evs, p, WalkFrom(<<evs[p].text, Elements(evs)[p]>>), {p}, {})
<1>1. Len(evs) \in Nat /\ p \in Nat
  BY ListLength
<1>2. Children(evs, Elements(evs), {p}) = <<ChildAt(evs, Elements(evs), p)>>
  BY <1>1, OneChild
<1>3. Names(evs, {}) = <<>>
  BY FS_EmptySet DEF Names
<1>4. p \in TagsOf(evs, p)
  BY DEF TagsOf
<1>5. \A l \in TagsOf(evs, p) : l = p \/ l \in Span(evs, p)
  BY DEF TagsOf
<1>6. ~(p < p)
  BY <1>1
<1>7. WalkFrom(<<evs[p].text, Elements(evs)[p]>>)
        = [names |-> Names(evs, {}), todo |-> Children(evs, Elements(evs), {p})]
  BY <1>2, <1>3 DEF WalkFrom, ChildAt
<1> DEFINE s == WalkFrom(<<evs[p].text, Elements(evs)[p]>>)
<1>8. s.names = Names(evs, {}) /\ s.todo = Children(evs, Elements(evs), {p})
  BY <1>7
<1> HIDE DEF s
<1>9. WalkAt(evs, p, s, {p}, {})
  BY <1>4, <1>5, <1>6, <1>8 DEF WalkAt
<1> QED
  BY <1>9 DEF s\* The element the walk goes to next is the one that starts first.
LEMMA WalkGoesOn ==
  ASSUME NEW evs, IsList(evs), NEW p \in 1..Len(evs), NEW s, NEW P, NEW V, WalkAt(evs, p, s, P, V), P # {}
  PROVE  \E q \in P : WalkAt(evs, p, WalkStep(s), Kids(evs, q) \cup (P \ {q}), V \cup {q})
<1> DEFINE tags == TagsOf(evs, p)
           f == Elements(evs)
<1>1. /\ P \subseteq tags /\ V \subseteq tags
      /\ s.names = Names(evs, V) /\ s.todo = Children(evs, f, P)
      /\ \A k \in V, l \in tags : l \notin V => k < l
      /\ \A q \in P : q \notin V
      /\ \A l \in tags : l \notin V => \E q \in P : l = q \/ l \in Span(evs, q)
      /\ \A q \in P, r \in P : q < r => \A n \in Span(evs, q) : n < r
  BY DEF WalkAt
<1>2. /\ Len(evs) \in Nat /\ tags \in SUBSET (1..Len(evs))
      /\ \A k \in tags : IsStart(evs[k]) /\ k \in 1..Len(evs) /\ k \in Nat /\ Kids(evs, k) \subseteq tags
  <2>1. Len(evs) \in Nat
    BY ListLength
  <2>2. /\ tags \in SUBSET (1..Len(evs)) /\ \A k \in tags : IsStart(evs[k])
        /\ \A k \in tags : Kids(evs, k) \subseteq tags
    BY TagsAre
  <2>3. \A k \in tags : k \in 1..Len(evs) /\ k \in Nat
    BY <2>1, <2>2
  <2> QED
    BY <2>1, <2>2, <2>3
<1> HIDE DEF tags, f
<1>3. P \in SUBSET (1..Len(evs)) /\ V \in SUBSET (1..Len(evs))
  BY <1>1, <1>2
<1>4. PICK q \in P : \A r \in P : q <= r
  BY <1>2, <1>3, SmallestLargest
<1>5. q \in tags /\ q \in 1..Len(evs) /\ q \in Nat /\ IsStart(evs[q]) /\ q \notin V
  BY <1>1, <1>2
<1> DEFINE R == P \ {q}
           K == Kids(evs, q)
           Q == {q}
<1>6. R \in SUBSET (1..Len(evs)) /\ K \in SUBSET (1..Len(evs)) /\ Q \in SUBSET (1..Len(evs)) /\ P = Q \cup R
  <2>1. K \in SUBSET (1..Len(evs))
    BY <1>5, SpanIs
  <2> QED
    BY <1>3, <1>5, <2>1
<1>7. \A k \in K : k \in Span(evs, q) /\ q < k /\ k \in tags /\ k \in Nat /\ k \in 1..Len(evs)
  <2>1. \A k \in K : k \in Span(evs, q) /\ q < k
    BY <1>5, SpanIs
  <2> QED
    BY <1>2, <1>5, <2>1
<1>8. \A r \in R : q < r /\ r \in P /\ r \in tags /\ r \in Nat
  BY <1>1, <1>2, <1>4, <1>5
<1>9. \A k \in K, r \in R : k < r
  BY <1>1, <1>7, <1>8
<1>10. \A k \in Q, r \in R : k < r
  BY <1>8
<1>11. WalkStep(s) = [names |-> Names(evs, V \cup {q}), todo |-> Children(evs, f, K \cup R)]
  <2> DEFINE x == ChildAt(evs, f, q)
             u == Children(evs, f, R)
             v == Children(evs, f, K)
  <2>1. IsList(u)
    BY <1>2, <1>6, ChildrenAre
  <2>2. ChildrenSplit(evs, f, Q, R) /\ ChildrenSplit(evs, f, K, R)
    <3> HIDE DEF Q, R, K
    <3> QED
      BY <1>2, <1>6, <1>9, <1>10, ChildrenJoined
  <2>3. Children(evs, f, Q) = <<x>>
    BY <1>2, <1>5, OneChild
  <2>4. s.todo = <<x>> \o u
    BY <1>1, <1>6, <2>2, <2>3, Zenon DEF ChildrenSplit
  <2>5. HeadAndTail(x, u)
    BY <2>1, HeadTail
  <2>6. s.todo # <<>> /\ Head(s.todo) = x /\ Tail(s.todo) = u
    BY <2>4, <2>5, Zenon DEF HeadAndTail
  <2>7. x[1] = evs[q].text /\ x[2].children = v
    <3>1. f[q] = [attributes |-> evs[q].attributes,
                  text       |-> TextOf(evs, Texts(evs, q)),
                  children   |-> Children(evs, f, Kids(evs, q))]
      BY <1>5, ElementsAre DEF f
    <3>2. x[1] = evs[q].text /\ x[2] = f[q]
      BY DEF ChildAt
    <3> QED
      BY <3>1, <3>2
  <2>8. NamesWith(evs, V, q)
    BY <1>1, <1>3, <1>5, NamesGrow
  <2>9. Append(s.names, x[1]) = Names(evs, V \cup {q})
    BY <1>1, <2>7, <2>8, Zenon DEF NamesWith
  <2>10. v \o u = Children(evs, f, K \cup R)
    BY <2>2, Zenon DEF ChildrenSplit
  <2> HIDE DEF x, u, v
  <2> QED
    BY <2>6, <2>7, <2>9, <2>10, Zenon DEF WalkStep
<1>12. K \cup R \subseteq tags /\ V \cup {q} \subseteq tags
  BY <1>1, <1>5, <1>7, <1>8
<1>13. ASSUME NEW l \in tags, l \notin V \cup {q}
       PROVE  q < l /\ \E r \in K \cup R : l = r \/ l \in Span(evs, r)
  <2>1. l \notin V /\ l # q /\ l \in Nat
    BY <1>2, <1>13
  <2>2. PICK r \in P : l = r \/ l \in Span(evs, r)
    BY <1>1, <2>1
  <2>3. r \in 1..Len(evs) /\ r \in Nat /\ q <= r /\ r <= l
    <3>1. r \in 1..Len(evs) /\ r \in Nat /\ q <= r
      BY <1>1, <1>2, <1>4
    <3>2. l \in Span(evs, r) => r < l
      BY <3>1, SpanIs
    <3> QED
      BY <2>1, <2>2, <3>1, <3>2
  <2>4. q < l
    BY <1>5, <2>1, <2>3
  <2>5. CASE r # q
    <3>1. r \in R
      BY <2>5
    <3> QED
      BY <2>2, <2>4, <3>1
  <2>6. CASE r = q
    <3>1. l \in Span(evs, q) /\ IsStart(evs[l])
      BY <1>2, <2>1, <2>2, <2>6
    <3>2. \E c \in K : l = c \/ l \in Span(evs, c)
      BY <1>5, <3>1, KidAround
    <3> QED
      BY <2>4, <3>2
  <2> QED
    BY <2>5, <2>6
<1>14. \A k \in V \cup {q}, l \in tags : l \notin V \cup {q} => k < l
  BY <1>1, <1>13
<1>15. \A r \in K \cup R : r \notin V \cup {q}
  <2>1. ASSUME NEW k \in K PROVE k \notin V \cup {q}
    <3>1. k \in tags /\ q < k /\ k \in Nat
      BY <1>7
    <3>2. k \notin V
      BY <1>1, <1>2, <1>5, <3>1
    <3> QED
      BY <1>5, <3>1, <3>2
  <2> QED
    BY <1>1, <2>1
<1>16. ASSUME NEW x \in K \cup R, NEW y \in K \cup R, x < y, NEW n \in Span(evs, x) PROVE n < y
  <2>1. CASE x \in K /\ y \in K
    BY <1>5, <1>16, <2>1, KidsApart
  <2>2. CASE x \in K /\ y \in R
    <3>1. IsStart(evs[x]) /\ x \in Span(evs, q)
      BY <1>2, <1>7, <2>2
    <3>2. n \in Span(evs, q)
      BY <1>5, <1>16, <3>1, SpanInside
    <3> QED
      BY <1>1, <1>8, <2>2, <3>2
  <2>3. CASE x \in R /\ y \in K
    <3>1. y < x /\ x \in Nat /\ y \in Nat
      BY <1>7, <1>8, <1>9, <2>3
    <3> QED
      BY <1>16, <3>1
  <2>4. CASE x \in R /\ y \in R
    BY <1>1, <1>16, <2>4
  <2> QED
    BY <2>1, <2>2, <2>3, <2>4
<1>17. WalkAt(evs, p, WalkStep(s), K \cup R, V \cup {q})
  <2>1. /\ WalkStep(s).names = Names(evs, V \cup {q})
        /\ WalkStep(s).todo = Children(evs, Elements(evs), K \cup R)
    BY <1>11 DEF f
  <2> HIDE DEF K, R
  <2> QED
    BY <1>12, <1>13, <1>14, <1>15, <1>16, <2>1, Zenon DEF WalkAt, tags
<1> QED
  BY <1>17

Walked(evs, p, s, k) == \E P, V : WalkAt(evs, p, s, P, V) /\ (P # {} => Cardinality(V) = k)

\* The walk goes through all of the element.
LEMMA TagsWalked ==
  ASSUME NEW evs, IsList(evs), NEW p \in 1..Len(evs), IsStart(evs[p])
  PROVE  Preorder(evs[p].text, Elements(evs)[p], Len(evs) + 1) = Names(evs, TagsOf(evs, p))
<1> DEFINE N == Len(evs)
           x == <<evs[p].text, Elements(evs)[p]>>
<1>1. N \in Nat /\ N + 1 \in Nat
  BY ListLength
<1>2. PICK w : /\ Walking(w, x, N + 1)
               /\ Preorder(evs[p].text, Elements(evs)[p], N + 1) = w[N + 1].names
  BY <1>1, PreorderIs
<1>3. w[0] = WalkFrom(x) /\ \A n \in Nat : n + 1 <= N + 1 => w[n + 1] = WalkStep(w[n])
  BY <1>1, <1>2, WalkingStep
<1> DEFINE T == {k \in Nat : k <= N + 1 => Walked(evs, p, w[k], k)}
<1>4. T \in SUBSET Nat /\ \A k \in Nat : k \in T <=> (k <= N + 1 => Walked(evs, p, w[k], k))
  OBVIOUS
<1> HIDE DEF T
<1>5. 0 \in T
  <2>1. WalkAt(evs, p, w[0], {p}, {}) /\ Cardinality({}) = 0
    BY <1>3, WalkBegins, FS_EmptySet
  <2>2. Walked(evs, p, w[0], 0)
    BY <2>1 DEF Walked
  <2> QED
    BY <1>4, <2>2
<1>6. ASSUME NEW k \in T PROVE k + 1 \in T
  <2>1. k \in Nat /\ k + 1 \in Nat /\ (k + 1 <= N + 1 => k <= N + 1)
    BY <1>1, <1>4
  <2>2. SUFFICES ASSUME k + 1 <= N + 1 PROVE Walked(evs, p, w[k + 1], k + 1)
    BY <1>4, <2>1
  <2>3. w[k + 1] = WalkStep(w[k]) /\ Walked(evs, p, w[k], k)
    BY <1>3, <1>4, <2>1, <2>2
  <2>4. PICK P, V : WalkAt(evs, p, w[k], P, V) /\ (P # {} => Cardinality(V) = k)
    BY <2>3 DEF Walked
  <2>5. CASE P = {}
    <3>1. w[k].todo = <<>>
      BY <2>4, <2>5, NoChildren DEF WalkAt
    <3>2. w[k + 1] = w[k]
      BY <2>3, <3>1 DEF WalkStep
    <3> QED
      BY <2>4, <2>5, <3>2 DEF Walked
  <2>6. CASE P # {}
    <3>1. PICK q \in P : WalkAt(evs, p, WalkStep(w[k]), Kids(evs, q) \cup (P \ {q}), V \cup {q})
      BY <2>4, <2>6, WalkGoesOn
    <3>2. V \in SUBSET (1..N) /\ q \notin V
      BY <2>4, TagsAre DEF WalkAt
    <3>3. Cardinality(V \cup {q}) = k + 1
      <4>1. IsFiniteSet(V)
        BY <1>1, <3>2, OrderedSet
      <4> QED
        BY <2>4, <2>6, <3>2, <4>1, FS_AddElement
    <3> QED
      BY <2>3, <3>1, <3>3 DEF Walked
  <2> QED
    BY <2>5, <2>6
<1>7. T = Nat
  BY <1>4, <1>5, <1>6, NatSetInduction
<1>8. PICK P, V : WalkAt(evs, p, w[N + 1], P, V) /\ (P # {} => Cardinality(V) = N + 1)
  <2>1. Walked(evs, p, w[N + 1], N + 1)
    BY <1>1, <1>4, <1>7
  <2> QED
    BY <2>1 DEF Walked
<1>9. P = {}
  <2>1. V \in SUBSET (1..N)
    BY <1>8, TagsAre DEF WalkAt
  <2>2. IsFiniteSet(1..N) /\ Cardinality(1..N) = N
    BY <1>1, FS_Interval
  <2>3. Cardinality(V) <= N
    BY <2>1, <2>2, FS_Subset
  <2> QED
    BY <1>1, <1>8, <2>3
<1>10. V = TagsOf(evs, p)
  BY <1>8, <1>9 DEF WalkAt
<1>11. w[N + 1].names = Names(evs, V)
  BY <1>8 DEF WalkAt
<1> QED
  BY <1>2, <1>10, <1>11

-----------------------------------------------------------------------------
(***************************************************************************)
(* The answers.                                                            *)
(***************************************************************************)
Passed(evs, a) == Looked(evs, a.call, a.from, a.upto)
Ended(evs, a)  == a.upto = Len(evs) \/ IsEndDocument(evs[a.upto])

ElementFound(evs, a, p) ==
  /\ \A k \in Passed(evs, a) : p <= k
  /\ \A n \in (a.from + 1)..p : ~IsEndDocument(evs[n])
  /\ a.result[2] = Elements(evs)[p]
  /\ Span(evs, p) = (p + 1)..a.upto

NextGood(evs, a) ==
  /\ a.result[1] = "some" => \E p \in Passed(evs, a) : ElementFound(evs, a, p)
  /\ a.result[1] = "none" => /\ Passed(evs, a) = {} /\ Ended(evs, a)
                             /\ \A n \in (a.from + 1)..(a.upto - 1) : ~IsEndDocument(evs[n])

AllGood(evs, a) ==
  /\ a.result[2] = ItemsOf(evs, Outermost(evs, Passed(evs, a)))
  /\ Ended(evs, a)
  /\ NoEndBetween(evs, Outermost(evs, Passed(evs, a)), a.from, a.upto - 1)

TagsFrom(evs, p, n) == {k \in p..n : IsStart(evs[k])}

TagsGood(evs, a) ==
  \E p \in Passed(evs, a) :
    /\ \A k \in Passed(evs, a) : p <= k
    /\ Preorder(evs[p].text, a.result[2], Len(evs) + 1) = Names(evs, TagsFrom(evs, p, a.upto))

Good(evs, a) ==
  /\ a.call.op # "all" => NextGood(evs, a)
  /\ a.result[1] = "items" => AllGood(evs, a)
  /\ a.result[1] = "some" => TagsGood(evs, a)

LEMMA GoodError ==
  ASSUME NEW evs, NEW a, a.result = <<"error">>
  PROVE  Good(evs, a)
<1>1. a.result[1] = "error"
  OBVIOUS
<1> QED
  BY <1>1 DEF Good, NextGood

LEMMA GoodSome ==
  ASSUME NEW evs, IsList(evs), NEW a, a.call.op # "all", NEW out,
         NEW p \in 1..Len(evs), a.from \in 0..(p - 1), a.upto \in p..Len(evs),
         Searched(evs, a.call, a.from, p - 1, out), Sought(evs, a.call, p),
         Span(evs, p) = (p + 1)..a.upto, a.result = <<"some", Elements(evs)[p]>>
  PROVE  Good(evs, a)
<1> DEFINE from == a.from
           t == a.upto
           w == a.call
<1>1. /\ Len(evs) \in Nat /\ p \in Nat /\ from \in Nat /\ t \in Nat /\ from < p /\ p <= t
      /\ t \in 0..Len(evs) /\ p - 1 \in 0..Len(evs)
  BY ListLength
<1>2. \A k : k \in Passed(evs, a) <=> k \in (from + 1)..t /\ Sought(evs, w, k)
  BY <1>1, LookedIs DEF Passed
<1>3. \A k : k \in (from + 1)..(p - 1) => ~Sought(evs, w, k)
  BY <1>1, LookedIs DEF Searched
<1>4. p \in Passed(evs, a) /\ \A k \in Passed(evs, a) : p <= k
  <2>1. p \in (from + 1)..t
    BY <1>1
  <2>2. ASSUME NEW k \in Passed(evs, a) PROVE p <= k
    <3>1. k \in (from + 1)..t /\ k \notin (from + 1)..(p - 1)
      BY <1>2, <1>3
    <3> QED
      BY <1>1, <3>1
  <2> QED
    BY <1>2, <2>1, <2>2
<1>5. IsStart(evs[p])
  BY DEF Sought
<1>6. \A n \in (from + 1)..p : ~IsEndDocument(evs[n])
  <2>1. Outermost(evs, Looked(evs, w, from, p - 1)) = {}
    BY NoItems DEF Searched
  <2>2. \A n \in (from + 1)..(p - 1) : ~IsEndDocument(evs[n])
    BY <2>1 DEF Searched, NoEndBetween
  <2>3. ~IsEndDocument(evs[p])
    BY <1>5, KindsDiffer
  <2>4. \A n \in (from + 1)..p : n \in (from + 1)..(p - 1) \/ n = p
    BY <1>1
  <2> QED
    BY <2>2, <2>3, <2>4
<1>7. a.result[1] = "some" /\ a.result[2] = Elements(evs)[p]
  OBVIOUS
<1>8. NextGood(evs, a)
  <2>1. ElementFound(evs, a, p)
    BY <1>4, <1>6, <1>7 DEF ElementFound
  <2> QED
    BY <1>4, <1>7, <2>1 DEF NextGood
<1>9. TagsGood(evs, a)
  <2>1. Preorder(evs[p].text, Elements(evs)[p], Len(evs) + 1) = Names(evs, TagsOf(evs, p))
    BY <1>5, TagsWalked
  <2>2. \A k : k \in p..t <=> k = p \/ k \in Span(evs, p)
    BY <1>1
  <2>3. TagsOf(evs, p) = TagsFrom(evs, p, t)
    BY <2>2 DEF TagsOf, TagsFrom
  <2> QED
    BY <1>4, <1>7, <2>1, <2>3, Zenon DEF TagsGood
<1> QED
  BY <1>7, <1>8, <1>9 DEF Good

\* The search has come to its end, at t.
LEMMA SearchOver ==
  ASSUME NEW evs, IsList(evs), NEW a, NEW out, NEW n \in 0..Len(evs), a.from \in 0..n,
         Searched(evs, a.call, a.from, n, out),
         \/ a.upto = n + 1 /\ n < Len(evs) /\ IsEndDocument(evs[n + 1])
         \/ a.upto = n /\ n = Len(evs)
  PROVE  /\ Passed(evs, a) = Looked(evs, a.call, a.from, n)
         /\ Ended(evs, a)
         /\ NoEndBetween(evs, Outermost(evs, Passed(evs, a)), a.from, a.upto - 1)
<1>1. Len(evs) \in Nat /\ n \in Nat /\ a.from \in Nat
  BY ListLength
<1>2. Ended(evs, a)
  BY DEF Ended
<1>3. Passed(evs, a) = Looked(evs, a.call, a.from, n)
  <2>1. CASE a.upto = n + 1 /\ n < Len(evs) /\ IsEndDocument(evs[n + 1])
    <3>1. ~Sought(evs, a.call, n + 1)
      BY <2>1, KindsDiffer DEF Sought
    <3>2. \A k : k \in (a.from + 1)..(n + 1) <=> k \in (a.from + 1)..n \/ k = n + 1
      BY <1>1
    <3>3. Looked(evs, a.call, a.from, n + 1) = Looked(evs, a.call, a.from, n)
      BY <3>1, <3>2 DEF Looked
    <3> QED
      BY <2>1, <3>3 DEF Passed
  <2>2. CASE a.upto = n /\ n = Len(evs)
    BY <2>2 DEF Passed
  <2> QED
    BY <2>1, <2>2
<1>4. NoEndBetween(evs, Outermost(evs, Passed(evs, a)), a.from, a.upto - 1)
  <2>1. NoEndBetween(evs, Outermost(evs, Passed(evs, a)), a.from, n)
    BY <1>3 DEF Searched
  <2>2. \A m \in (a.from + 1)..(a.upto - 1) : m \in (a.from + 1)..n
    BY <1>1
  <2> QED
    BY <2>1, <2>2 DEF NoEndBetween
<1> QED
  BY <1>2, <1>3, <1>4

LEMMA GoodNone ==
  ASSUME NEW evs, IsList(evs), NEW a, NEW out, NEW n \in 0..Len(evs), a.from \in 0..n,
         Searched(evs, a.call, a.from, n, out),
         \/ a.upto = n + 1 /\ n < Len(evs) /\ IsEndDocument(evs[n + 1])
         \/ a.upto = n /\ n = Len(evs),
         a.call.op # "all", a.result = <<"none">>
  PROVE  Good(evs, a)
<1>1. /\ Passed(evs, a) = Looked(evs, a.call, a.from, n)
      /\ Ended(evs, a)
      /\ NoEndBetween(evs, Outermost(evs, Passed(evs, a)), a.from, a.upto - 1)
  BY SearchOver
<1>2. Passed(evs, a) = {} /\ Outermost(evs, Passed(evs, a)) = {}
  BY <1>1, NoItems DEF Searched
<1>3. a.result[1] = "none"
  OBVIOUS
<1> QED
  BY <1>1, <1>2, <1>3 DEF Good, NextGood, NoEndBetween

LEMMA GoodItems ==
  ASSUME NEW evs, IsList(evs), NEW a, NEW out, NEW n \in 0..Len(evs), a.from \in 0..n,
         Searched(evs, a.call, a.from, n, out),
         \/ a.upto = n + 1 /\ n < Len(evs) /\ IsEndDocument(evs[n + 1])
         \/ a.upto = n /\ n = Len(evs),
         a.call.op = "all", a.result = <<"items", out>>
  PROVE  Good(evs, a)
<1>1. /\ Passed(evs, a) = Looked(evs, a.call, a.from, n)
      /\ Ended(evs, a)
      /\ NoEndBetween(evs, Outermost(evs, Passed(evs, a)), a.from, a.upto - 1)
  BY SearchOver
<1>2. a.result[1] = "items" /\ a.result[2] = out
  OBVIOUS
<1>3. out = ItemsOf(evs, Outermost(evs, Passed(evs, a)))
  BY <1>1 DEF Searched
<1>4. AllGood(evs, a)
  BY <1>1, <1>2, <1>3, Zenon DEF AllGood
<1> QED
  BY <1>2, <1>4 DEF Good

-----------------------------------------------------------------------------
(***************************************************************************)
(* The steps.                                                              *)
(***************************************************************************)
AnswersGood == \A a \in Judged : Good(Events, a)

Inv == TypeInv /\ SearchInv /\ ReadInv /\ AnswersGood

LEMMA EventsAre ==
  ASSUME TypeInv
  PROVE  /\ IsList(Events) /\ Len(Events) \in Nat
         /\ \A k \in 1..Len(Events) : IsList(Events[k].text)
         /\ taken \in Nat /\ began \in Nat /\ taken \in 0..Len(Events) /\ began \in 0..taken
         /\ taken < Len(Events) => taken + 1 \in 1..Len(Events) /\ taken + 1 \in 0..Len(Events)
<1>1. IsList(Events) /\ \A k \in 1..Len(Events) : IsList(Events[k].text)
  BY StreamsAssumption DEF TypeInv, Events
<1>2. Len(Events) \in Nat
  BY <1>1, ListLength
<1> QED
  BY <1>1, <1>2 DEF TypeInv

LEMMA CallIs ==
  ASSUME TypeInv, call # <<>>
  PROVE  call[1] \in Wanted /\ call[1].op \in {"next", "all", "root"} /\ Operation = call[1].op
<1>1. PICK w \in Wanted : call = <<w>>
  BY DEF TypeInv
<1>2. call[1] = w
  BY <1>1
<1> QED
  BY <1>1, <1>2, WantedAssumption DEF Operation

LEMMA EventAhead ==
  ASSUME TypeInv, call # <<>>
  PROVE  /\ Ahead = Events[taken + 1]
         /\ Matches(Ahead) <=> Sought(Events, call[1], taken + 1)
  BY CallIs DEF Ahead, Events, Matches, Sought

\* An event of the stream has been taken: nothing else of it changes.
LEMMA Delivered ==
  ASSUME TypeInv, Deliver
  PROVE  stream' = stream /\ Events' = Events /\ taken' = taken + 1 /\ taken < Len(Events)
  BY DEF Deliver, Events

\* The call goes on.
LEMMA GoesOn ==
  ASSUME TypeInv, stream' = stream, taken' \in taken..Len(Events), call # <<>>,
         UNCHANGED <<call, began, answers>>
  PROVE  TypeInv' /\ AnswersGood' /\ call' # <<>> /\ Events' = Events
<1>1. Events' = Events
  BY DEF Events
<1>2. Judged' = {}
  BY DEF Judged
<1>3. taken' \in 0..Len(Events') /\ began' \in 0..taken'
  BY <1>1, EventsAre
<1> QED
  BY <1>1, <1>2, <1>3 DEF TypeInv, AnswersGood

Answer(w, from, upto, result) == [call |-> w, from |-> from, upto |-> upto, result |-> result]

\* The call is over.
LEMMA Returns ==
  ASSUME TypeInv, stream' = stream, taken' \in taken..Len(Events), NEW result, Return(result),
         Good(Events, Answer(call[1], began, taken', result))
  PROVE  Inv'
<1> DEFINE a == Answer(call[1], began, taken', result)
<1>1. Events' = Events
  BY DEF Events
<1>2. answers' = Append(answers, a) /\ call' = <<>> /\ frames' = <<>> /\ began' = began
  BY DEF Return, Answer
<1>3. IsList(answers) /\ Len(answers) \in Nat
  BY ListLength DEF TypeInv
<1> HIDE DEF a
<1>4. IsList(answers') /\ Len(answers') = Len(answers) + 1 /\ answers'[Len(answers')] = a
  BY <1>2, <1>3, AppendList
<1>5. Judged' \subseteq {a}
  BY <1>4 DEF Judged
<1>6. AnswersGood'
  BY <1>1, <1>5 DEF AnswersGood, a
<1>7. taken' \in 0..Len(Events') /\ began' \in 0..taken'
  BY <1>1, <1>2, EventsAre
<1>8. TypeInv'
  BY <1>1, <1>2, <1>4, <1>7 DEF TypeInv
<1>9. SearchInv' /\ ReadInv'
  BY <1>2 DEF SearchInv, ReadInv, Searching, Reading
<1> QED
  BY <1>6, <1>8, <1>9 DEF Inv

LEMMA BeginStep ==
  ASSUME Inv, NEW w \in Wanted, Begin(w)
  PROVE  Inv'
<1>1. /\ TypeInv /\ stream' = stream /\ Events' = Events /\ taken' = taken /\ frames = <<>> /\ frames' = <<>>
      /\ call' = <<w>> /\ began' = taken /\ items' = <<>> /\ answers' = answers
  BY DEF Inv, TypeInv, Begin, Events
<1>2. call' # <<>> /\ call'[1] = w
  BY <1>1, Singleton, EmptyList
<1>3. TypeInv'
  BY <1>1, EventsAre DEF TypeInv
<1>4. SearchInv'
  <2>1. Searched(Events, w, taken, taken, <<>>)
    BY <1>1, EventsAre, SearchBegins
  <2> QED
    BY <1>1, <1>2, <2>1 DEF SearchInv
<1>5. ReadInv' /\ AnswersGood'
  BY <1>1, <1>2 DEF ReadInv, Reading, AnswersGood, Judged
<1> QED
  BY <1>3, <1>4, <1>5 DEF Inv

LEMMA PathBegins ==
  ASSUME NEW evs, IsList(evs), NEW p \in 1..Len(evs), IsStart(evs[p])
  PROVE  Path(evs, <<p>>, <<Frame(evs[p])>>, p)
<1> DEFINE ps == <<p>>
           fs == <<Frame(evs[p])>>
<1>1. /\ IsList(ps) /\ Len(ps) = 1 /\ ps[1] = p
      /\ IsList(fs) /\ Len(fs) = 1 /\ fs[1] = Frame(evs[p])
  BY Singleton
<1>2. p \in Nat /\ Len(evs) \in Nat /\ Depth(evs, p) \in Int
  BY ListLength, DepthType
<1>3. FrameAt(evs, p, p, p) = Frame(evs[p])
  BY FrameNew
<1> HIDE DEF ps, fs
<1>4. \A j \in 1..Len(ps) : j = 1
  BY <1>1
<1>5. ReadTo(ps, 1, p) = p
  BY <1>1 DEF ReadTo
<1>6. \A k \in p..p : k = p
  BY <1>2
<1>7. Places(evs, ps, p)
  BY <1>1, <1>2, <1>4, <1>6 DEF Places
<1>8. Path(evs, ps, fs, p)
  BY <1>1, <1>3, <1>4, <1>5, <1>7 DEF Path
<1> QED
  BY <1>8 DEF ps, fs

LEMMA FoundStep ==
  ASSUME Inv, Found
  PROVE  Inv'
<1> DEFINE p == taken + 1
           w == call[1]
<1>1. /\ TypeInv /\ SearchInv /\ Searching /\ call # <<>> /\ frames = <<>> /\ Deliver /\ Matches(Ahead)
      /\ frames' = <<Frame(Ahead)>> /\ UNCHANGED <<call, began, items, answers>>
  BY DEF Inv, Found, Searching
<1>2. stream' = stream /\ Events' = Events /\ taken' = p /\ taken < Len(Events)
  BY <1>1, Delivered
<1>3. Ahead = Events[p] /\ Sought(Events, w, p)
  BY <1>1, EventAhead
<1>4. p \in 1..Len(Events) /\ IsList(Events) /\ taken \in Nat /\ began \in Nat /\ began < p /\ p - 1 = taken
      /\ p \in taken..Len(Events)
  BY <1>1, <1>2, EventsAre
<1>5. TypeInv' /\ AnswersGood' /\ call' # <<>>
  BY <1>1, <1>2, <1>4, GoesOn
<1>6. ReadingAt(Events, w, began, p, <<Frame(Ahead)>>, items)
  <2>1. IsStart(Events[p])
    BY <1>3 DEF Sought
  <2>2. Path(Events, <<p>>, <<Frame(Events[p])>>, p)
    BY <1>4, <2>1, PathBegins
  <2>3. <<p>>[1] = p
    OBVIOUS
  <2>4. Searched(Events, w, began, p - 1, items)
    BY <1>1, <1>4 DEF SearchInv
  <2> QED
    BY <1>3, <1>4, <2>2, <2>3, <2>4 DEF ReadingAt
<1>7. ReadInv'
  BY <1>1, <1>2, <1>6 DEF ReadInv
<1>8. SearchInv'
  BY <1>1, Singleton, EmptyList DEF SearchInv, Searching
<1> QED
  BY <1>5, <1>7, <1>8 DEF Inv

LEMMA SkipStep ==
  ASSUME Inv, Skip
  PROVE  Inv'
<1>1. /\ TypeInv /\ SearchInv /\ Searching /\ call # <<>> /\ frames = <<>> /\ Deliver
      /\ ~Matches(Ahead) /\ ~IsEndDocument(Ahead)
      /\ UNCHANGED <<call, began, frames, items, answers>>
  BY DEF Inv, Skip, Searching
<1>2. stream' = stream /\ Events' = Events /\ taken' = taken + 1 /\ taken < Len(Events)
  BY <1>1, Delivered
<1>3. Ahead = Events[taken + 1] /\ ~Sought(Events, call[1], taken + 1)
  BY <1>1, EventAhead
<1>4. IsList(Events) /\ taken \in Nat /\ began \in 0..taken /\ taken + 1 \in taken..Len(Events)
  BY <1>1, <1>2, EventsAre
<1>5. TypeInv' /\ AnswersGood'
  BY <1>1, <1>2, <1>4, GoesOn
<1>6. Searched(Events, call[1], began, taken + 1, items)
  BY <1>1, <1>2, <1>3, <1>4, SearchPasses DEF SearchInv
<1>7. SearchInv'
  BY <1>1, <1>2, <1>6 DEF SearchInv
<1>8. ReadInv'
  BY <1>1 DEF ReadInv, Reading
<1> QED
  BY <1>5, <1>7, <1>8 DEF Inv

LEMMA NothingFoundStep ==
  ASSUME Inv, NothingFound
  PROVE  Inv'
<1> DEFINE w == call[1]
           a == Answer(w, began, taken', NotFound)
<1>1. /\ TypeInv /\ SearchInv /\ Searching /\ call # <<>> /\ Return(NotFound)
      /\ (Deliver /\ IsEndDocument(Ahead)) \/ End
  BY DEF Inv, NothingFound, Searching
<1>2. \/ taken' = taken + 1 /\ taken < Len(Events) /\ IsEndDocument(Events[taken + 1])
      \/ taken' = taken /\ taken = Len(Events)
  BY <1>1, Delivered, EventAhead DEF End, Finish, Events
<1>3. stream' = stream
  BY <1>1 DEF Deliver, End, Finish
<1>4. taken' \in taken..Len(Events) /\ IsList(Events) /\ taken \in 0..Len(Events) /\ began \in 0..taken
  BY <1>1, <1>2, EventsAre
<1>5. Searched(Events, w, began, taken, items)
  BY <1>1 DEF SearchInv
<1>6. w.op \in {"next", "all", "root"} /\ Operation = w.op
  BY <1>1, CallIs
<1>7. a.call = w /\ a.from = began /\ a.upto = taken' /\ a.result = NotFound
  BY DEF Answer
<1> HIDE DEF a, w
<1>8. Good(Events, a)
  <2>1. CASE w.op = "next"
    <3>1. NotFound = <<"none">>
      BY <1>6, <2>1 DEF NotFound
    <3> QED
      BY <1>2, <1>4, <1>5, <1>7, <2>1, <3>1, GoodNone
  <2>2. CASE w.op = "all"
    <3>1. NotFound = <<"items", items>>
      BY <1>6, <2>2 DEF NotFound
    <3> QED
      BY <1>2, <1>4, <1>5, <1>7, <2>2, <3>1, GoodItems
  <2>3. CASE w.op = "root"
    <3>1. NotFound = <<"error">>
      BY <1>6, <2>3 DEF NotFound
    <3> QED
      BY <1>7, <3>1, GoodError
  <2> QED
    BY <1>6, <2>1, <2>2, <2>3
<1> QED
  BY <1>1, <1>3, <1>4, <1>8, Returns DEF a, w

\* The elements stay open, with another event read.
LEMMA ReadsOn ==
  ASSUME Inv, Reading, stream' = stream, taken' \in taken..Len(Events), UNCHANGED <<call, began, items, answers>>,
         NEW ps, NEW qs, Path(Events, ps, frames, taken), Path(Events, qs, frames', taken'), qs[1] = ps[1],
         began < ps[1], Sought(Events, call[1], ps[1]),
         Searched(Events, call[1], began, ps[1] - 1, items)
  PROVE  Inv'
<1>1. TypeInv /\ call # <<>>
  BY DEF Inv, TypeInv, Reading
<1>2. TypeInv' /\ AnswersGood' /\ Events' = Events
  BY <1>1, GoesOn
<1>3. frames' # <<>>
  <2>1. IsList(frames') /\ Len(frames') = Len(qs) /\ Len(qs) > 0
    BY DEF Path, Places
  <2> QED
    BY <2>1, ListLength
<1>4. ReadInv'
  BY <1>2 DEF ReadInv, ReadingAt
<1>5. SearchInv'
  BY <1>3 DEF SearchInv, Searching
<1> QED
  BY <1>2, <1>4, <1>5 DEF Inv

LEMMA OpenElements ==
  ASSUME Inv, Reading
  PROVE  /\ TypeInv /\ call # <<>> /\ IsList(Events)
         /\ \E ps : /\ Path(Events, ps, frames, taken)
                    /\ began < ps[1] /\ Sought(Events, call[1], ps[1])
                    /\ Searched(Events, call[1], began, ps[1] - 1, items)
                    /\ Len(frames) = Len(ps) /\ Len(ps) \in Nat /\ Len(ps) > 0 /\ IsList(ps)
                    /\ ps[1] \in 1..taken /\ IsStart(Events[ps[1]])
<1>1. TypeInv /\ call # <<>>
  BY DEF Inv, TypeInv, Reading
<1>2. IsList(Events)
  BY <1>1, EventsAre
<1>3. PICK ps : /\ Path(Events, ps, frames, taken)
                /\ began < ps[1] /\ Sought(Events, call[1], ps[1])
                /\ Searched(Events, call[1], began, ps[1] - 1, items)
  BY DEF Inv, ReadInv, ReadingAt
<1>4. Len(frames) = Len(ps) /\ IsList(ps) /\ Len(ps) > 0 /\ Places(Events, ps, taken)
  BY <1>3 DEF Path, Places
<1>5. Len(ps) \in Nat /\ 1 \in 1..Len(ps)
  BY <1>4, ListLength
<1>6. ps[1] \in 1..taken /\ IsStart(Events[ps[1]])
  BY <1>4, <1>5 DEF Places
<1> QED
  BY <1>1, <1>2, <1>3, <1>4, <1>5, <1>6

LEMMA EnterStep ==
  ASSUME Inv, Enter
  PROVE  Inv'
<1>1. /\ Reading /\ Deliver /\ IsStart(Ahead) /\ frames' = Append(frames, Frame(Ahead))
      /\ UNCHANGED <<call, began, items, answers>>
  BY DEF Enter
<1>2. TypeInv /\ call # <<>> /\ IsList(Events)
  BY <1>1, OpenElements
<1>3. PICK ps : /\ Path(Events, ps, frames, taken)
                /\ began < ps[1] /\ Sought(Events, call[1], ps[1])
                /\ Searched(Events, call[1], began, ps[1] - 1, items)
                /\ Len(ps) \in Nat /\ Len(ps) > 0 /\ IsList(ps)
  BY <1>1, OpenElements
<1>4. stream' = stream /\ taken' = taken + 1 /\ taken < Len(Events) /\ Ahead = Events[taken + 1]
  BY <1>1, <1>2, Delivered, EventAhead
<1>5. taken' \in taken..Len(Events)
  BY <1>2, <1>4, EventsAre
<1>6. Path(Events, Append(ps, taken + 1), frames', taken')
  BY <1>1, <1>2, <1>3, <1>4, PathEnter
<1>7. Append(ps, taken + 1)[1] = ps[1]
  <2>1. 1 \in 1..Len(ps)
    BY <1>3
  <2> QED
    BY <1>3, <2>1, AppendList
<1> QED
  BY <1>1, <1>3, <1>4, <1>5, <1>6, <1>7, ReadsOn

LEMMA CollectTextStep ==
  ASSUME Inv, CollectText
  PROVE  Inv'
<1>1. /\ Reading /\ Deliver /\ IsText(Ahead)
      /\ frames' = [frames EXCEPT ![Len(frames)].text = TextAfter(frames[Len(frames)], Ahead.text)]
      /\ UNCHANGED <<call, began, items, answers>>
  BY DEF CollectText, Top
<1>2. TypeInv /\ call # <<>> /\ IsList(Events)
  BY <1>1, OpenElements
<1>3. PICK ps : /\ Path(Events, ps, frames, taken)
                /\ began < ps[1] /\ Sought(Events, call[1], ps[1])
                /\ Searched(Events, call[1], began, ps[1] - 1, items)
  BY <1>1, OpenElements
<1>4. stream' = stream /\ taken' = taken + 1 /\ taken < Len(Events) /\ Ahead = Events[taken + 1]
  BY <1>1, <1>2, Delivered, EventAhead
<1>5. taken' \in taken..Len(Events) /\ IsList(Events[taken + 1].text)
  BY <1>2, <1>4, EventsAre
<1>6. Path(Events, ps, frames', taken')
  BY <1>1, <1>2, <1>3, <1>4, <1>5, PathText
<1> QED
  BY <1>1, <1>3, <1>4, <1>5, <1>6, ReadsOn

LEMMA IgnoreStep ==
  ASSUME Inv, Ignore
  PROVE  Inv'
<1>1. /\ Reading /\ Deliver /\ ~IsStart(Ahead) /\ ~IsText(Ahead) /\ ~Closes(Ahead)
      /\ UNCHANGED <<call, began, frames, items, answers>>
  BY DEF Ignore
<1>2. TypeInv /\ call # <<>> /\ IsList(Events)
  BY <1>1, OpenElements
<1>3. PICK ps : /\ Path(Events, ps, frames, taken)
                /\ began < ps[1] /\ Sought(Events, call[1], ps[1])
                /\ Searched(Events, call[1], began, ps[1] - 1, items)
  BY <1>1, OpenElements
<1>4. stream' = stream /\ taken' = taken + 1 /\ taken < Len(Events) /\ Ahead = Events[taken + 1]
  BY <1>1, <1>2, Delivered, EventAhead
<1>5. taken' \in taken..Len(Events)
  BY <1>2, <1>4, EventsAre
<1>6. Path(Events, ps, frames', taken')
  BY <1>1, <1>2, <1>3, <1>4, PathIgnore
<1> QED
  BY <1>1, <1>3, <1>4, <1>5, <1>6, ReadsOn

\* The body of an element is over at the last event that has been read.
LEMMA BodyEnds ==
  ASSUME TypeInv, call # <<>>, BodyOver
  PROVE  /\ stream' = stream /\ Events' = Events /\ taken' \in taken..Len(Events)
         /\ Ending(Events, taken, taken')
<1>1. CASE Deliver /\ Closes(Ahead)
  <2>1. stream' = stream /\ Events' = Events /\ taken' = taken + 1 /\ taken < Len(Events) /\ Ahead = Events[taken + 1]
    BY <1>1, Delivered, EventAhead
  <2> QED
    BY <1>1, <2>1, EventsAre DEF Ending
<1>2. CASE End
  <2>1. stream' = stream /\ Events' = Events /\ taken' = taken /\ taken = Len(Events)
    BY <1>2 DEF End, Finish, Events
  <2> QED
    BY <2>1, EventsAre DEF Ending
<1> QED
  BY <1>1, <1>2 DEF BodyOver

LEMMA LeaveStep ==
  ASSUME Inv, Leave
  PROVE  Inv'
<1> DEFINE M == Len(frames) - 1
           child == <<frames[Len(frames)].name, Data(frames[Len(frames)])>>
<1>1. /\ Len(frames) > 1 /\ BodyOver /\ UNCHANGED <<call, began, items, answers>>
      /\ frames' = [SubSeq(frames, 1, M) EXCEPT ![M].children = Append(frames[M].children, child)]
  BY DEF Leave, WithChild, Top
<1>2. Reading
  BY <1>1, EmptyList DEF Reading
<1>3. TypeInv /\ call # <<>> /\ IsList(Events)
  BY <1>2, OpenElements
<1>4. PICK ps : /\ Path(Events, ps, frames, taken)
                /\ began < ps[1] /\ Sought(Events, call[1], ps[1])
                /\ Searched(Events, call[1], began, ps[1] - 1, items)
                /\ Len(frames) = Len(ps) /\ Len(ps) \in Nat /\ IsList(ps)
  BY <1>2, OpenElements
<1>5. stream' = stream /\ taken' \in taken..Len(Events) /\ Ending(Events, taken, taken')
  BY <1>1, <1>3, BodyEnds
<1>6. Path(Events, SubSeq(ps, 1, M), frames', taken')
  BY <1>1, <1>3, <1>4, <1>5, PathLeave
<1>7. SubSeq(ps, 1, M)[1] = ps[1]
  <2>1. M \in 0..Len(ps) /\ 1 \in 1..M
    BY <1>1, <1>4
  <2> QED
    BY <1>4, <2>1, ShorterList
<1> QED
  BY <1>1, <1>2, <1>4, <1>5, <1>6, <1>7, ReadsOn

\* The element looked for is complete.
LEMMA ElementOver ==
  ASSUME Inv, Len(frames) = 1, BodyOver
  PROVE  \E p \in 1..Len(Events) :
           /\ began \in 0..(p - 1) /\ taken' \in p..Len(Events)
           /\ Sought(Events, call[1], p) /\ Searched(Events, call[1], began, p - 1, items)
           /\ Span(Events, p) = (p + 1)..taken'
           /\ Data(Top) = Elements(Events)[p]
<1>1. Reading
  BY EmptyList DEF Reading
<1>2. TypeInv /\ call # <<>> /\ IsList(Events)
  BY <1>1, OpenElements
<1>3. PICK ps : /\ Path(Events, ps, frames, taken)
                /\ began < ps[1] /\ Sought(Events, call[1], ps[1])
                /\ Searched(Events, call[1], began, ps[1] - 1, items)
                /\ Len(frames) = Len(ps) /\ ps[1] \in 1..taken
  BY <1>1, OpenElements
<1>4. taken' \in taken..Len(Events) /\ Ending(Events, taken, taken')
  BY <1>2, BodyEnds
<1>5. /\ Span(Events, ps[1]) = (ps[1] + 1)..taken'
      /\ Data(frames[1]) = Elements(Events)[ps[1]]
  BY <1>2, <1>3, <1>4, LastElement
<1>6. ps[1] \in 1..Len(Events) /\ began \in 0..(ps[1] - 1) /\ taken' \in ps[1]..Len(Events)
  BY <1>2, <1>3, <1>4, EventsAre
<1>7. Top = frames[1]
  BY DEF Top
<1> QED
  BY <1>3, <1>5, <1>6, <1>7

LEMMA DeserializeStep ==
  ASSUME Inv, Deserialize
  PROVE  Inv'
<1>1. /\ Len(frames) = 1 /\ BodyOver
      /\ IF Operation = "all"
         THEN /\ items' = WithItem(Data(Top))
              /\ frames' = <<>>
              /\ UNCHANGED <<call, began, answers>>
         ELSE Return(<<"some", Data(Top)>>)
  BY DEF Deserialize
<1>2. Reading
  BY <1>1, EmptyList DEF Reading
<1>3. TypeInv /\ call # <<>> /\ IsList(Events)
  BY <1>2, OpenElements
<1>4. stream' = stream /\ Events' = Events /\ taken' \in taken..Len(Events)
  BY <1>1, <1>3, BodyEnds
<1>5. PICK p \in 1..Len(Events) :
           /\ began \in 0..(p - 1) /\ taken' \in p..Len(Events)
           /\ Sought(Events, call[1], p) /\ Searched(Events, call[1], began, p - 1, items)
           /\ Span(Events, p) = (p + 1)..taken'
           /\ Data(Top) = Elements(Events)[p]
  BY <1>1, ElementOver
<1>6. Operation = call[1].op
  BY <1>3, CallIs
<1>7. CASE Operation = "all"
  <2>1. /\ items' = Append(items, Elements(Events)[p])
        /\ frames' = <<>> /\ UNCHANGED <<call, began, answers>>
    BY <1>1, <1>5, <1>7 DEF WithItem
  <2>2. TypeInv' /\ AnswersGood'
    BY <1>3, <1>4, <2>1, GoesOn
  <2>3. Searched(Events, call[1], began, taken', items')
    BY <1>3, <1>5, <1>6, <1>7, <2>1, SearchTakes
  <2>4. SearchInv'
    BY <1>4, <2>1, <2>3 DEF SearchInv
  <2>5. ReadInv'
    BY <2>1 DEF ReadInv, Reading
  <2> QED
    BY <2>2, <2>4, <2>5 DEF Inv
<1>8. CASE Operation # "all"
  <2> DEFINE result == <<"some", Data(Top)>>
             a == Answer(call[1], began, taken', result)
  <2>1. Return(result)
    BY <1>1, <1>8
  <2>2. a.call = call[1] /\ a.from = began /\ a.upto = taken' /\ a.result = <<"some", Elements(Events)[p]>>
    BY <1>5 DEF Answer
  <2> HIDE DEF a, result
  <2>3. Good(Events, a)
    BY <1>3, <1>5, <1>6, <1>8, <2>2, GoodSome
  <2> QED
    BY <1>3, <1>4, <2>1, <2>3, Returns DEF a
<1> QED
  BY <1>7, <1>8

\* A call that fails.
LEMMA ErrorReturns ==
  ASSUME TypeInv, stream' = stream, taken' \in taken..Len(Events), Return(<<"error">>)
  PROVE  Inv'
<1> DEFINE a == Answer(call[1], began, taken', <<"error">>)
<1>1. a.result = <<"error">>
  BY DEF Answer
<1> HIDE DEF a
<1>2. Good(Events, a)
  BY <1>1, GoodError
<1> QED
  BY <1>2, Returns DEF a

LEMMA RefuseStep ==
  ASSUME Inv, Refuse
  PROVE  Inv'
<1>1. Len(frames) = 1 /\ BodyOver /\ Return(<<"error">>)
  BY DEF Refuse
<1>2. Reading
  BY <1>1, EmptyList DEF Reading
<1>3. TypeInv /\ call # <<>>
  BY <1>2, OpenElements
<1> QED
  BY <1>1, <1>3, BodyEnds, ErrorReturns

LEMMA SourceFailsStep ==
  ASSUME Inv, SourceFails
  PROVE  Inv'
<1>1. TypeInv /\ stream' = stream /\ taken' = taken /\ Return(<<"error">>)
  BY DEF Inv, SourceFails, Malformed, Finish, ReadFails
<1>2. taken' \in taken..Len(Events)
  BY <1>1, EventsAre
<1> QED
  BY <1>1, <1>2, ErrorReturns

LEMMA InvInit ==
  ASSUME Init
  PROVE  Inv
<1>1. /\ stream \in Streams /\ taken = 0 /\ call = <<>> /\ began = 0 /\ frames = <<>> /\ answers = <<>>
  BY DEF Init, SourceInit, Fresh
<1>2. IsList(Events) /\ Len(Events) \in Nat
  BY <1>1, StreamsAssumption, ListLength DEF Events
<1>3. TypeInv
  BY <1>1, <1>2, EmptyList DEF TypeInv
<1>4. SearchInv /\ ReadInv /\ AnswersGood
  BY <1>1 DEF SearchInv, Searching, ReadInv, Reading, AnswersGood, Judged
<1> QED
  BY <1>3, <1>4 DEF Inv

LEMMA InvNext ==
  ASSUME Inv, [Next]_vars
  PROVE  Inv'
<1>1. CASE Progress
  BY <1>1, FoundStep, SkipStep, NothingFoundStep, EnterStep, CollectTextStep, IgnoreStep, LeaveStep,
     DeserializeStep, RefuseStep, SourceFailsStep DEF Progress
<1>2. ASSUME NEW w \in Wanted, Begin(w) PROVE Inv'
  BY <1>2, BeginStep
<1>3. CASE UNCHANGED vars
  BY <1>3 DEF vars, Inv, TypeInv, SearchInv, ReadInv, AnswersGood, Judged, Events, Searching, Reading
<1> QED
  BY <1>1, <1>2, <1>3 DEF Next

-----------------------------------------------------------------------------
(***************************************************************************)
(* The theorems.                                                           *)
(***************************************************************************)
\* The invariant, of every run of any calls over any streams.
THEOREM TraversalInvariant == Spec => []Inv
<1>1. Init => Inv
  BY InvInit
<1>2. Inv /\ [Next]_vars => Inv'
  BY InvNext
<1> QED
  BY <1>1, <1>2, PTL DEF Spec

\* What a call passes and what it ends with are those of the properties.
LEMMA PassedIsCandidates ==
  ASSUME NEW a
  PROVE  Passed(Events, a) = Candidates(a) /\ (Ended(Events, a) <=> SearchedAll(a))
BY DEF Passed, Candidates, Looked, Sought, Ended, SearchedAll

\* deserialize_next, deserialize_iter, from_slice and from_reader answer the first element of
\* that name behind what has been consumed, with all that is in it and nothing else
\* consumed, and None only when there is none left (traversal.rs:45, slice.rs:267).
THEOREM TraversalNextIsTheElement == Spec => []NextIsTheElement
<1>1. Inv => NextIsTheElement
  <2> SUFFICES ASSUME Inv, NEW a \in Judged, a.call.op # "all"
               PROVE  /\ a.result[1] = "some" =>
                           \E p \in Candidates(a) :
                             /\ \A k \in Candidates(a) : p <= k
                             /\ \A n \in (a.from + 1)..p : ~IsEndDocument(Events[n])
                             /\ a.result[2] = Elements(Events)[p]
                             /\ Span(Events, p) = (p + 1)..a.upto
                      /\ a.result[1] = "none" =>
                           /\ Candidates(a) = {} /\ SearchedAll(a)
                           /\ \A n \in (a.from + 1)..(a.upto - 1) : ~IsEndDocument(Events[n])
    BY DEF NextIsTheElement
  <2>1. NextGood(Events, a)
    BY DEF Inv, AnswersGood, Good
  <2> QED
    BY <2>1, PassedIsCandidates DEF NextGood, ElementFound
<1> QED
  BY <1>1, TraversalInvariant, PTL

\* deserialize_all answers all the elements of that name, in order, those in another one
\* left out, and goes on to the end of the document (traversal.rs:69).
THEOREM TraversalAllAreOutermost == Spec => []AllAreOutermost
<1>1. Inv => AllAreOutermost
  <2> SUFFICES ASSUME Inv, NEW a \in Judged, a.result[1] = "items"
               PROVE  LET outermost == {p \in Candidates(a) : \A k \in Candidates(a) : p \notin Span(Events, k)}
                      IN /\ a.result[2] = [i \in 1..Cardinality(outermost) |-> Elements(Events)[InOrder(outermost)[i]]]
                         /\ SearchedAll(a)
                         /\ \A n \in (a.from + 1)..(a.upto - 1) :
                              IsEndDocument(Events[n]) => \E p \in outermost : n \in Span(Events, p)
    BY DEF AllAreOutermost
  <2> DEFINE O == Outermost(Events, Candidates(a))
  <2>1. AllGood(Events, a)
    BY DEF Inv, AnswersGood, Good
  <2>2. a.result[2] = ItemsOf(Events, O) /\ SearchedAll(a) /\ NoEndBetween(Events, O, a.from, a.upto - 1)
    BY <2>1, PassedIsCandidates, Zenon DEF AllGood
  <2> QED
    BY <2>2, Zenon DEF ItemsOf, NoEndBetween, Outermost
<1> QED
  BY <1>1, TraversalInvariant, PTL

\* The start tags between the one found and the last event consumed are the elements of the
\* answer, each once and in order, whatever the document (read_element_body, traversal.rs:91).
THEOREM TraversalStartTagsKept == Spec => []StartTagsKept
<1>1. Inv => StartTagsKept
  <2> SUFFICES ASSUME Inv, NEW a \in Judged, a.result[1] = "some"
               PROVE  \E first \in Candidates(a) :
                        LET tags == {k \in first..a.upto : IsStart(Events[k])}
                        IN /\ \A k \in Candidates(a) : first <= k
                           /\ Preorder(Events[first].text, a.result[2], Len(Events) + 1)
                                = [i \in 1..Cardinality(tags) |-> Events[InOrder(tags)[i]].text]
    BY DEF StartTagsKept
  <2>1. TagsGood(Events, a) /\ Passed(Events, a) = Candidates(a)
    BY PassedIsCandidates DEF Inv, AnswersGood, Good
  <2>2. PICK p \in Candidates(a) :
          /\ \A k \in Candidates(a) : p <= k
          /\ Preorder(Events[p].text, a.result[2], Len(Events) + 1) = Names(Events, TagsFrom(Events, p, a.upto))
    BY <2>1, Zenon DEF TagsGood
  <2> WITNESS p \in Candidates(a)
  <2> QED
    BY <2>2, Zenon DEF TagsFrom, Names
<1> QED
  BY <1>1, TraversalInvariant, PTL
=============================================================================
