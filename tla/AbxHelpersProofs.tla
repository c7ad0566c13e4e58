-------------------------- MODULE AbxHelpersProofs --------------------------
(***************************************************************************)
(* What the helpers of a parser answer, for any document, any calls in any *)
(* order, and whichever reads and writes fail.                             *)
(*                                                                         *)
(* The invariant says of the call in progress that it has made of the      *)
(* events consumed since it began what the answer has to be made of, and   *)
(* of the calls answered that each began where the one before it ended.    *)
(***************************************************************************)
EXTENDS AbxHelpers, FiniteSetTheorems, SequenceTheorems, WellFoundedInduction, TLAPS

-----------------------------------------------------------------------------
(***************************************************************************)
(* Lists of anything.                                                      *)
(***************************************************************************)
LEMMA ListOf ==
  ASSUME NEW S, NEW s \in Seq(S)
  PROVE  IsList(s)
<1>1. s \in [1..Len(s) -> S] /\ DOMAIN s = 1..Len(s) /\ Len(s) \in Nat
  BY LenProperties
<1>2. s \in [1..Len(s) -> Range(s)]
  BY <1>1 DEF Range
<1> QED
  BY <1>1, <1>2, SeqDef DEF IsList

LEMMA EmptyList == IsList(<<>>) /\ Len(<<>>) = 0
  BY EmptySeq DEF IsList

LEMMA Singleton ==
  ASSUME NEW x
  PROVE  IsList(<<x>>) /\ Len(<<x>>) = 1 /\ <<x>>[1] = x
<1>1. <<x>> \in Seq({x})
  OBVIOUS
<1> QED
  BY <1>1, ListOf

LEMMA ListLength ==
  ASSUME NEW s, IsList(s)
  PROVE  Len(s) \in Nat /\ (s # <<>> <=> Len(s) > 0) /\ DOMAIN s = 1..Len(s)
  BY LenProperties, EmptySeq DEF IsList

LEMMA SameList ==
  ASSUME NEW s, IsList(s), NEW t, IsList(t), Len(s) = Len(t),
         \A i \in 1..Len(s) : s[i] = t[i]
  PROVE  s = t
<1>1. s \in Seq(Range(s) \cup Range(t)) /\ t \in Seq(Range(s) \cup Range(t))
  BY SeqMonotonic DEF IsList
<1> QED
  BY <1>1, SeqEqual

LEMMA AppendList ==
  ASSUME NEW s, IsList(s), NEW x
  PROVE  /\ IsList(Append(s, x))
         /\ Len(Append(s, x)) = Len(s) + 1
         /\ \A i \in 1..Len(s) : Append(s, x)[i] = s[i]
         /\ Append(s, x)[Len(s) + 1] = x
<1> DEFINE S == Range(s) \cup {x}
<1>1. s \in Seq(S)
  BY SeqMonotonic DEF IsList
<1>2. x \in S
  OBVIOUS
<1> HIDE DEF S
<1>3. /\ Append(s, x) \in Seq(S)
      /\ Len(Append(s, x)) = Len(s) + 1
      /\ \A i \in 1..Len(s) : Append(s, x)[i] = s[i]
      /\ Append(s, x)[Len(s) + 1] = x
  BY <1>1, <1>2, AppendProperties
<1>4. IsList(Append(s, x))
  BY <1>3, ListOf
<1> QED
  BY <1>3, <1>4

LEMMA ConcatList ==
  ASSUME NEW s, IsList(s), NEW t, IsList(t)
  PROVE  /\ IsList(s \o t)
         /\ Len(s \o t) = Len(s) + Len(t)
         /\ \A i \in 1..Len(s) : (s \o t)[i] = s[i]
         /\ \A i \in 1..Len(t) : (s \o t)[Len(s) + i] = t[i]
<1> DEFINE S == Range(s) \cup Range(t)
<1>1. s \in Seq(S) /\ t \in Seq(S)
  BY SeqMonotonic DEF IsList
<1> HIDE DEF S
<1>2. Len(s) \in Nat /\ Len(t) \in Nat
  BY ListLength
<1>3. /\ s \o t \in Seq(S)
      /\ Len(s \o t) = Len(s) + Len(t)
      /\ \A i \in 1..Len(s) : (s \o t)[i] = s[i]
      /\ \A i \in (Len(s) + 1)..(Len(s) + Len(t)) : (s \o t)[i] = t[i - Len(s)]
  BY <1>1, <1>2, ConcatProperties
<1>4. ASSUME NEW i \in 1..Len(t) PROVE (s \o t)[Len(s) + i] = t[i]
  <2>1. /\ Len(s) + i \in (Len(s) + 1)..(Len(s) + Len(t))
        /\ (Len(s) + i) - Len(s) = i
    BY <1>2
  <2> QED
    BY <1>3, <2>1
<1>5. IsList(s \o t)
  BY <1>3, ListOf
<1> QED
  BY <1>3, <1>4, <1>5

LEMMA ConcatEmpty ==
  ASSUME NEW s, IsList(s)
  PROVE  s \o <<>> = s /\ <<>> \o s = s
BY ConcatEmptySeq DEF IsList

LEMMA AppendConcat ==
  ASSUME NEW s, IsList(s), NEW t, IsList(t), NEW x
  PROVE  s \o Append(t, x) = Append(s \o t, x)
<1> DEFINE l == s \o Append(t, x)
           r == Append(s \o t, x)
<1>1. Len(s) \in Nat /\ Len(t) \in Nat
  BY ListLength
<1>2. IsList(Append(t, x)) /\ Len(Append(t, x)) = Len(t) + 1
  BY AppendList
<1>3. IsList(s \o t) /\ Len(s \o t) = Len(s) + Len(t)
  BY ConcatList
<1>4. IsList(l) /\ Len(l) = Len(s) + Len(Append(t, x))
  BY <1>2, ConcatList
<1>5. IsList(r) /\ Len(r) = Len(s \o t) + 1
  BY <1>3, AppendList
<1>6. Len(l) = Len(r) /\ Len(r) = Len(s) + Len(t) + 1
  BY <1>1, <1>2, <1>3, <1>4, <1>5
<1>7. ASSUME NEW i \in 1..Len(s) PROVE l[i] = s[i] /\ r[i] = s[i]
  <2>1. i \in 1..Len(s \o t)
    BY <1>1, <1>3
  <2>2. r[i] = (s \o t)[i]
    BY <1>3, <2>1, AppendList
  <2> QED
    BY <1>2, <2>2, ConcatList
<1>8. ASSUME NEW i \in 1..Len(t) PROVE l[Len(s) + i] = t[i] /\ r[Len(s) + i] = t[i]
  <2>1. Len(s) + i \in 1..Len(s \o t) /\ i \in 1..Len(Append(t, x))
    BY <1>1, <1>2, <1>3
  <2>2. r[Len(s) + i] = (s \o t)[Len(s) + i]
    BY <1>3, <2>1, AppendList
  <2>3. l[Len(s) + i] = Append(t, x)[i]
    BY <1>2, <2>1, ConcatList
  <2>4. Append(t, x)[i] = t[i]
    BY AppendList
  <2> QED
    BY <2>2, <2>3, <2>4, ConcatList
<1>9. l[Len(s) + (Len(t) + 1)] = x /\ r[Len(s) + (Len(t) + 1)] = x
  <2>1. Len(t) + 1 \in 1..Len(Append(t, x))
    BY <1>1, <1>2
  <2>2. l[Len(s) + (Len(t) + 1)] = Append(t, x)[Len(t) + 1]
    BY <1>2, <2>1, ConcatList
  <2>3. Len(s) + (Len(t) + 1) = Len(s \o t) + 1
    BY <1>1, <1>3
  <2> QED
    BY <1>3, <2>2, <2>3, AppendList
<1> HIDE DEF l, r
<1>10. ASSUME NEW i \in 1..Len(l) PROVE l[i] = r[i]
  <2>1. \/ i \in 1..Len(s)
        \/ i - Len(s) \in 1..Len(t) /\ i = Len(s) + (i - Len(s))
        \/ i = Len(s) + (Len(t) + 1)
    BY <1>1, <1>6
  <2> QED
    BY <2>1, <1>7, <1>8, <1>9
<1> QED
  BY <1>4, <1>5, <1>6, <1>10, SameList DEF l, r

-----------------------------------------------------------------------------
(***************************************************************************)
(* The values of the attributes of a name, attribute by attribute.         *)
(***************************************************************************)
LEMMA NatSetInduction ==
  ASSUME NEW T \in SUBSET Nat, 0 \in T, \A n \in T : n + 1 \in T
  PROVE  T = Nat
<1> DEFINE U == Nat \ T
<1> SUFFICES ASSUME U # {} PROVE FALSE
  OBVIOUS
<1>1. PICK x \in U : \A y \in U : ~(<<y, x>> \in OpToRel(<, Nat))
  BY WFMin, NatLessThanWellFounded
<1>2. x # 0 /\ x \in Nat
  OBVIOUS
<1>3. x - 1 \in Nat /\ x - 1 < x /\ (x - 1) + 1 = x
  BY <1>2
<1>4. <<x - 1, x>> \in OpToRel(<, Nat)
  BY <1>2, <1>3 DEF OpToRel
<1>5. x - 1 \notin U
  BY <1>1, <1>4
<1> QED
  BY <1>1, <1>3, <1>5

\* The recursive function of ValuesOf, on the first N attributes.
Values(f, as, name, N) ==
  f = [n \in 0..N |->
         IF n = 0 THEN <<>>
         ELSE IF as[n].name = name THEN Append(f[n - 1], as[n].value)
         ELSE f[n - 1]]

SomeValues(as, name, N) == \E f : Values(f, as, name, N)

LEMMA ValuesExist ==
  ASSUME NEW as, NEW name, NEW N \in Nat
  PROVE  SomeValues(as, name, N)
<1> DEFINE T == {n \in Nat : SomeValues(as, name, n)}
<1>1. 0 \in T
  <2> DEFINE f == [n \in 0..0 |-> <<>>]
  <2>1. Values(f, as, name, 0)
    BY DEF Values
  <2> HIDE DEF f
  <2> QED
    BY <2>1 DEF SomeValues
<1>2. ASSUME NEW n \in T PROVE n + 1 \in T
  <2>1. PICK f : Values(f, as, name, n)
    BY DEF SomeValues
  <2>2. n \in Nat
    OBVIOUS
  <2> DEFINE x == IF as[n + 1].name = name THEN Append(f[n], as[n + 1].value) ELSE f[n]
             g == [k \in 0..(n + 1) |-> IF k = n + 1 THEN x ELSE f[k]]
             h == [k \in 0..(n + 1) |->
                     IF k = 0 THEN <<>>
                     ELSE IF as[k].name = name THEN Append(g[k - 1], as[k].value)
                     ELSE g[k - 1]]
  <2>3. ASSUME NEW k \in 0..(n + 1) PROVE g[k] = h[k]
    <3>1. CASE k = n + 1
      <4>1. k # 0 /\ k - 1 = n /\ n \in 0..(n + 1) /\ n # n + 1
        BY <2>2, <3>1
      <4>2. g[k - 1] = f[n]
        BY <4>1
      <4> QED
        BY <3>1, <4>1, <4>2
    <3>2. CASE k # n + 1
      <4>1. k \in 0..n /\ (k # 0 => k - 1 \in 0..(n + 1) /\ k - 1 # n + 1)
        BY <2>2, <3>2
      <4>2. f[k] = IF k = 0 THEN <<>>
                   ELSE IF as[k].name = name THEN Append(f[k - 1], as[k].value)
                   ELSE f[k - 1]
        BY <2>1, <4>1 DEF Values
      <4>3. g[k] = f[k] /\ (k # 0 => g[k - 1] = f[k - 1])
        BY <3>2, <4>1
      <4> QED
        BY <4>2, <4>3
    <3> QED
      BY <3>1, <3>2
  <2>4. g = h
    BY <2>3
  <2>5. Values(g, as, name, n + 1)
    BY <2>4, Zenon DEF Values
  <2>6. SomeValues(as, name, n + 1)
    BY <2>5, Zenon DEF SomeValues
  <2>7. n + 1 \in Nat
    BY <2>2
  <2> HIDE DEF x, g, h
  <2> QED
    BY <2>6, <2>7
<1> HIDE DEF T
<1>3. T \in SUBSET Nat
  BY DEF T
<1>4. T = Nat
  BY <1>1, <1>2, <1>3, NatSetInduction
<1> QED
  BY <1>4 DEF T

LEMMA ValuesOfIs ==
  ASSUME NEW as, IsList(as), NEW name
  PROVE  \E f : Values(f, as, name, Len(as)) /\ ValuesOf(as, name) = f[Len(as)]
<1> DEFINE upTo == CHOOSE f : f = [n \in 0..Len(as) |->
                     IF n = 0 THEN <<>>
                     ELSE IF as[n].name = name THEN Append(f[n - 1], as[n].value)
                     ELSE f[n - 1]]
<1>1. \E f : Values(f, as, name, Len(as))
  BY ValuesExist, ListLength DEF SomeValues
<1>2. Values(upTo, as, name, Len(as))
  BY <1>1 DEF Values
<1>3. ValuesOf(as, name) = upTo[Len(as)]
  BY DEF ValuesOf
<1> HIDE DEF upTo
<1> QED
  BY <1>2, <1>3

\* The values v of the first n attributes, with that of the next.
WithNext(v, as, name, n) == IF as[n + 1].name = name THEN Append(v, as[n + 1].value) ELSE v

LEMMA ValuesStep ==
  ASSUME NEW f, NEW as, NEW name, NEW N \in Nat, Values(f, as, name, N)
  PROVE  /\ f[0] = <<>>
         /\ \A n \in 0..N : n + 1 \in 0..N => f[n + 1] = WithNext(f[n], as, name, n)
<1>1. ASSUME NEW k \in 0..N
      PROVE  f[k] = IF k = 0 THEN <<>>
                    ELSE IF as[k].name = name THEN Append(f[k - 1], as[k].value)
                    ELSE f[k - 1]
  BY DEF Values
<1>2. f[0] = <<>>
  <2>1. 0 \in 0..N
    OBVIOUS
  <2> QED
    BY <2>1, <1>1
<1>3. ASSUME NEW n \in 0..N, n + 1 \in 0..N
      PROVE  f[n + 1] = WithNext(f[n], as, name, n)
  <2>1. (n + 1) - 1 = n /\ n + 1 # 0
    OBVIOUS
  <2> QED
    BY <1>1, <1>3, <2>1 DEF WithNext
<1> QED
  BY <1>2, <1>3

\* The first and the last of the values are those of the first and the last attribute.
FirstIs(v, as, name, n) ==
  \E i \in 1..n : /\ as[i].name = name /\ v[1] = as[i].value
                  /\ \A j \in 1..n : as[j].name = name => i <= j
LastIs(v, as, name, n) ==
  \E i \in 1..n : /\ as[i].name = name /\ v[Len(v)] = as[i].value
                  /\ \A j \in 1..n : as[j].name = name => j <= i
Picked(v, as, name, n) ==
  /\ IsList(v)
  /\ v = <<>> => \A i \in 1..n : as[i].name # name
  /\ v # <<>> => FirstIs(v, as, name, n) /\ LastIs(v, as, name, n)

LEMMA PickedGrows ==
  ASSUME NEW v, NEW as, NEW name, NEW n \in Nat, Picked(v, as, name, n)
  PROVE  Picked(WithNext(v, as, name, n), as, name, n + 1)
<1>1. IsList(v)
  BY DEF Picked
<1>2. n + 1 \in 1..(n + 1) /\ (\A i \in 1..(n + 1) : i \in 1..n \/ i = n + 1)
      /\ (\A i \in 1..n : i \in 1..(n + 1) /\ i <= n + 1 /\ i \in Nat)
  OBVIOUS
<1>3. CASE as[n + 1].name # name
  <2>1. FirstIs(v, as, name, n) => FirstIs(v, as, name, n + 1)
    BY <1>2, <1>3 DEF FirstIs
  <2>2. LastIs(v, as, name, n) => LastIs(v, as, name, n + 1)
    BY <1>2, <1>3 DEF LastIs
  <2> QED
    BY <1>2, <1>3, <2>1, <2>2 DEF Picked, WithNext
<1>4. CASE as[n + 1].name = name
  <2> DEFINE x == as[n + 1].value
             w == Append(v, x)
  <2>1. /\ IsList(w) /\ Len(w) = Len(v) + 1 /\ w[Len(v) + 1] = x
        /\ \A i \in 1..Len(v) : w[i] = v[i]
    BY <1>1, AppendList
  <2> HIDE DEF w
  <2>2. Len(v) \in Nat /\ (v # <<>> <=> Len(v) > 0) /\ (w # <<>> <=> Len(w) > 0)
    BY <1>1, <2>1, ListLength
  <2>3. w # <<>>
    BY <2>1, <2>2
  <2>4. LastIs(w, as, name, n + 1)
    <3>1. w[Len(w)] = x
      BY <2>1
    <3>2. \A j \in 1..(n + 1) : as[j].name = name => j <= n + 1
      OBVIOUS
    <3> QED
      BY <1>2, <1>4, <3>1, <3>2, Zenon DEF LastIs, x
  <2>5. FirstIs(w, as, name, n + 1)
    <3>1. CASE v = <<>>
      <4>1. \A i \in 1..n : as[i].name # name
        BY <3>1 DEF Picked
      <4>2. Len(v) = 0
        BY <2>2, <3>1
      <4>3. w[1] = x
        <5>1. Len(v) + 1 = 1
          BY <4>2
        <5> QED
          BY <2>1, <5>1
      <4>4. n + 1 <= n + 1
        OBVIOUS
      <4>5. \A j \in 1..(n + 1) : as[j].name = name => n + 1 <= j
        BY <1>2, <4>1, <4>4
      <4> QED
        BY <1>2, <1>4, <4>3, <4>5 DEF FirstIs
    <3>2. CASE v # <<>>
      <4>1. w[1] = v[1]
        <5>1. 1 \in 1..Len(v)
          BY <2>2, <3>2
        <5> QED
          BY <2>1, <5>1
      <4>2. FirstIs(v, as, name, n)
        BY <3>2 DEF Picked
      <4> QED
        BY <1>2, <4>1, <4>2 DEF FirstIs
    <3> QED
      BY <3>1, <3>2
  <2> QED
    BY <1>4, <2>1, <2>3, <2>4, <2>5 DEF Picked, w, WithNext
<1> QED
  BY <1>3, <1>4

LEMMA ValuesPicked ==
  ASSUME NEW f, NEW as, NEW name, NEW N \in Nat, Values(f, as, name, N)
  PROVE  \A n \in 0..N : Picked(f[n], as, name, n)
<1> DEFINE T == {n \in Nat : n \in 0..N => Picked(f[n], as, name, n)}
<1>1. 0 \in T
  <2>1. f[0] = <<>>
    BY ValuesStep
  <2>2. Picked(<<>>, as, name, 0)
    BY EmptyList DEF Picked
  <2> QED
    BY <2>1, <2>2
<1>5. \A n \in 0..N : n + 1 \in 0..N => f[n + 1] = WithNext(f[n], as, name, n)
  BY ValuesStep
<1>2. ASSUME NEW n \in T PROVE n + 1 \in T
  <2>1. n \in Nat /\ n + 1 \in Nat
    OBVIOUS
  <2> SUFFICES ASSUME n + 1 \in 0..N PROVE Picked(f[n + 1], as, name, n + 1)
    BY <2>1, Zenon
  <2>2. n \in 0..N /\ n + 1 \in 0..N
    BY <2>1
  <2>3. Picked(f[n], as, name, n)
    BY <2>2
  <2>4. f[n + 1] = WithNext(f[n], as, name, n)
    BY <1>5, <2>2
  <2>5. Picked(WithNext(f[n], as, name, n), as, name, n + 1)
    BY <2>1, <2>3, PickedGrows
  <2> QED
    BY <2>4, <2>5
<1> HIDE DEF T
<1>3. T \in SUBSET Nat
  BY DEF T
<1>4. T = Nat
  BY <1>1, <1>2, <1>3, NatSetInduction
<1>6. ASSUME NEW n \in 0..N PROVE Picked(f[n], as, name, n)
  <2>1. n \in T
    BY <1>4
  <2> QED
    BY <2>1 DEF T
<1> QED
  BY <1>6

\* The values of a name: none if no attribute has the name, else from the first of them to the last.
LEMMA ValuesOfFacts ==
  ASSUME NEW as, IsList(as), NEW name
  PROVE  /\ IsList(ValuesOf(as, name))
         /\ ValuesOf(as, name) = <<>> <=> Named(as, name) = {}
         /\ ValuesOf(as, name) # <<>> =>
              /\ \E i \in Named(as, name) : /\ Head(ValuesOf(as, name)) = as[i].value
                                            /\ \A j \in Named(as, name) : i <= j
              /\ \E i \in Named(as, name) : /\ Last(ValuesOf(as, name)) = as[i].value
                                            /\ \A j \in Named(as, name) : j <= i
<1> DEFINE v == ValuesOf(as, name)
           n == Len(as)
<1>1. n \in Nat
  BY ListLength
<1>2. PICK f : Values(f, as, name, n) /\ v = f[n]
  BY ValuesOfIs
<1> HIDE DEF v, n
<1>3. n \in 0..n
  BY <1>1
<1>4. Picked(v, as, name, n)
  BY <1>1, <1>2, <1>3, ValuesPicked
<1>5. IsList(v)
  BY <1>4 DEF Picked
<1>6. v = <<>> => Named(as, name) = {}
  BY <1>4 DEF Picked, Named, n
<1>7. ASSUME v # <<>>
      PROVE  /\ Named(as, name) # {}
             /\ \E i \in Named(as, name) : Head(v) = as[i].value /\ \A j \in Named(as, name) : i <= j
             /\ \E i \in Named(as, name) : Last(v) = as[i].value /\ \A j \in Named(as, name) : j <= i
  <2>1. Head(v) = v[1] /\ Last(v) = v[Len(v)]
    BY <1>5, <1>7 DEF IsList, Last
  <2>2. FirstIs(v, as, name, n) /\ LastIs(v, as, name, n)
    BY <1>4, <1>7 DEF Picked
  <2> QED
    BY <2>1, <2>2 DEF FirstIs, LastIs, Named, n
<1> QED
  BY <1>5, <1>6, <1>7 DEF v

-----------------------------------------------------------------------------
(***************************************************************************)
(* Lists of the items at places, in order.                                 *)
(***************************************************************************)
Ordered(list, item) ==
  /\ IsList(list)
  /\ IsFiniteSet(DOMAIN item)
  /\ DOMAIN item \subseteq Nat \X Nat
  /\ InOrder(list, item)

\* p comes behind all of P.
Behind(P, p) == \A q \in P : q[1] < p[1] \/ (q[1] = p[1] /\ q[2] < p[2])

\* item2 has item x at the place p, behind those of item.
Extends(item2, item, p, x) ==
  /\ p \in Nat \X Nat
  /\ Behind(DOMAIN item, p)
  /\ DOMAIN item2 = DOMAIN item \cup {p}
  /\ \A q \in DOMAIN item : item2[q] = item[q]
  /\ item2[p] = x

LEMMA RankBounds ==
  ASSUME NEW P, IsFiniteSet(P), P \subseteq Nat \X Nat, NEW q \in P
  PROVE  Cardinality(UpTo(P, q)) \in 1..Cardinality(P)
<1>1. UpTo(P, q) \subseteq P
  BY DEF UpTo
<1>2. q \in UpTo(P, q)
  <2>1. q[2] \in Nat
    OBVIOUS
  <2>2. q[2] <= q[2]
    BY <2>1
  <2> QED
    BY <2>2, Zenon DEF UpTo
<1> DEFINE U == UpTo(P, q)
<1> HIDE DEF U
<1>3. IsFiniteSet(U) /\ Cardinality(U) <= Cardinality(P)
  BY <1>1, FS_Subset DEF U
<1>4. Cardinality(U) \in Nat /\ Cardinality(P) \in Nat
  BY <1>3, FS_CardinalityType
<1>5. Cardinality(U) # 0
  BY <1>2, <1>3, FS_EmptySet DEF U
<1>6. Cardinality(U) \in 1..Cardinality(P)
  BY <1>3, <1>4, <1>5
<1> QED
  BY <1>6 DEF U

LEMMA OneMore ==
  ASSUME NEW list, NEW item, NEW item2, NEW p, NEW x,
         Ordered(list, item), Extends(item2, item, p, x)
  PROVE  Ordered(Append(list, x), item2)
<1> DEFINE P == DOMAIN item
           Q == DOMAIN item2
           list2 == Append(list, x)
<1>1. /\ IsList(list) /\ IsFiniteSet(P) /\ P \subseteq Nat \X Nat
      /\ Len(list) = Cardinality(P)
      /\ \A q \in P : list[Cardinality(UpTo(P, q))] = item[q]
  BY DEF Ordered, InOrder
<1>2. /\ p \in Nat \X Nat /\ Q = P \cup {p}
      /\ \A q \in P : q[1] < p[1] \/ (q[1] = p[1] /\ q[2] < p[2])
      /\ \A q \in P : item2[q] = item[q]
      /\ item2[p] = x
  BY DEF Extends, Behind
<1>3. /\ IsList(list2) /\ Len(list2) = Len(list) + 1
      /\ \A i \in 1..Len(list) : list2[i] = list[i]
      /\ list2[Len(list) + 1] = x
  BY <1>1, AppendList
<1> HIDE DEF P, Q, list2
<1>4. p[1] \in Nat /\ p[2] \in Nat
  BY <1>2
<1>5. p \notin P
  BY <1>2, <1>4
<1>6. IsFiniteSet(Q) /\ Cardinality(Q) = Cardinality(P) + 1
  BY <1>1, <1>2, <1>5, FS_AddElement
<1>7. Q \subseteq Nat \X Nat
  BY <1>1, <1>2
<1>8. ASSUME NEW q \in P PROVE list2[Cardinality(UpTo(Q, q))] = item2[q]
  <2>1. q[1] \in Nat /\ q[2] \in Nat
    BY <1>1
  <2>2. ~(p[1] < q[1] \/ (p[1] = q[1] /\ p[2] <= q[2]))
    BY <1>2, <1>4, <2>1
  <2>3. UpTo(Q, q) = UpTo(P, q)
    BY <1>2, <2>2 DEF UpTo
  <2>4. Cardinality(UpTo(P, q)) \in 1..Len(list)
    BY <1>1, RankBounds
  <2> QED
    BY <1>1, <1>2, <1>3, <2>3, <2>4
<1>9. list2[Cardinality(UpTo(Q, p))] = item2[p]
  <2>1. p[2] <= p[2]
    BY <1>4
  <2>2. \A q \in P : q[2] \in Nat
    BY <1>1
  <2>3. \A q \in P : q[1] < p[1] \/ (q[1] = p[1] /\ q[2] <= p[2])
    BY <1>2, <1>4, <2>2
  <2>4. UpTo(Q, p) = Q
    BY <1>2, <2>1, <2>3 DEF UpTo
  <2>5. Cardinality(Q) = Len(list) + 1
    BY <1>1, <1>6
  <2> QED
    BY <1>2, <1>3, <2>4, <2>5
<1>10. \A q \in Q : list2[Cardinality(UpTo(Q, q))] = item2[q]
  BY <1>2, <1>8, <1>9
<1>11. Len(list2) = Cardinality(Q)
  BY <1>1, <1>3, <1>6
<1> QED
  BY <1>3, <1>6, <1>7, <1>10, <1>11 DEF Ordered, InOrder, Q, list2

LEMMA NoItems ==
  ASSUME NEW item, DOMAIN item = {}
  PROVE  Ordered(<<>>, item)
BY EmptyList, FS_EmptySet DEF Ordered, InOrder

LEMMA AppendOne ==
  ASSUME NEW s, IsList(s), NEW x
  PROVE  s \o <<x>> = Append(s, x)
<1>1. Append(<<>>, x) = <<x>>
  OBVIOUS
<1>2. s \o Append(<<>>, x) = Append(s \o <<>>, x)
  BY EmptyList, AppendConcat
<1> QED
  BY <1>1, <1>2, ConcatEmpty

-----------------------------------------------------------------------------
(***************************************************************************)
(* What one more event adds.                                               *)
(***************************************************************************)
LEMMA RangeGrows ==
  ASSUME NEW from \in Nat, NEW m \in Nat, from <= m, NEW next, next = m + 1
  PROVE  (from + 1)..next = ((from + 1)..m) \cup {next}
OBVIOUS

LEMMA TagsOfBounds ==
  ASSUME NEW evs, NEW name, NEW from \in Nat, NEW m \in Nat
  PROVE  /\ TagsOf(evs, name, from, from) = {}
         /\ TagsOf(evs, name, from, m) \subseteq 1..m
<1>1. (from + 1)..from = {} /\ (from + 1)..m \subseteq 1..m
  OBVIOUS
<1> QED
  BY <1>1, Zenon DEF TagsOf

LEMMA TagAdded ==
  ASSUME NEW evs, NEW name, NEW from \in Nat, NEW m \in Nat, from <= m, NEW next, next = m + 1,
         IsTag(evs[next], name)
  PROVE  TagsOf(evs, name, from, next) = TagsOf(evs, name, from, m) \cup {next}
<1>1. (from + 1)..next = ((from + 1)..m) \cup {next}
  BY RangeGrows
<1> QED
  BY <1>1, Zenon DEF TagsOf

LEMMA TagSkipped ==
  ASSUME NEW evs, NEW name, NEW from \in Nat, NEW m \in Nat, from <= m, NEW next, next = m + 1,
         ~IsTag(evs[next], name)
  PROVE  TagsOf(evs, name, from, next) = TagsOf(evs, name, from, m)
<1>1. (from + 1)..next = ((from + 1)..m) \cup {next}
  BY RangeGrows
<1> QED
  BY <1>1, Zenon DEF TagsOf

LEMMA TagNamesBounds ==
  ASSUME NEW evs, NEW from \in Nat, NEW m
  PROVE  /\ TagNames(evs, from, from) = {}
         /\ \A name : name \notin TagNames(evs, from, m) => TagsOf(evs, name, from, m) = {}
<1>1. (from + 1)..from = {}
  OBVIOUS
<1>2. TagNames(evs, from, from) = {}
  BY <1>1 DEF TagNames
<1>3. \A name : name \notin TagNames(evs, from, m) => TagsOf(evs, name, from, m) = {}
  BY DEF TagNames, TagsOf, IsTag
<1> QED
  BY <1>2, <1>3

LEMMA TagNameAdded ==
  ASSUME NEW evs, NEW from \in Nat, NEW m \in Nat, from <= m, NEW next, next = m + 1,
         IsStart(evs[next])
  PROVE  TagNames(evs, from, next) = TagNames(evs, from, m) \cup {evs[next].text}
<1>1. (from + 1)..next = ((from + 1)..m) \cup {next}
  BY RangeGrows
<1> QED
  BY <1>1, Zenon DEF TagNames

LEMMA TagNameSkipped ==
  ASSUME NEW evs, NEW from \in Nat, NEW m \in Nat, from <= m, NEW next, next = m + 1,
         ~IsStart(evs[next])
  PROVE  TagNames(evs, from, next) = TagNames(evs, from, m)
<1>1. (from + 1)..next = ((from + 1)..m) \cup {next}
  BY RangeGrows
<1> QED
  BY <1>1, Zenon DEF TagNames

\* A place in the event next is behind those in the events up to m.
LEMMA LaterEvent ==
  ASSUME NEW m \in Nat, NEW next, next = m + 1, NEW i, NEW P, \A q \in P : q[1] \in 1..m
  PROVE  Behind(P, <<next, i>>)
BY DEF Behind

LEMMA EachTagGrows ==
  ASSUME NEW evs, NEW name, NEW from \in Nat, NEW m \in Nat, from <= m, NEW next, next = m + 1,
         IsTag(evs[next], name)
  PROVE  Extends(EachTag(evs, name, from, next), EachTag(evs, name, from, m),
                 <<next, 0>>, evs[next].attributes)
<1> DEFINE T == TagsOf(evs, name, from, m)
           U == TagsOf(evs, name, from, next)
           old == EachTag(evs, name, from, m)
           new == EachTag(evs, name, from, next)
           p == <<next, 0>>
<1>1. /\ old = [q \in T \X {0} |-> evs[q[1]].attributes]
      /\ new = [q \in U \X {0} |-> evs[q[1]].attributes]
  BY DEF EachTag
<1>2. T \subseteq 1..m
  BY TagsOfBounds
<1>3. U = T \cup {next}
  BY TagAdded
<1>4. p \in Nat \X Nat /\ p[1] = next
  OBVIOUS
<1> HIDE DEF T, U, old, new
<1>5. DOMAIN old = T \X {0}
  BY <1>1
<1>6. Behind(DOMAIN old, p)
  <2>1. \A q \in DOMAIN old : q[1] \in 1..m
    BY <1>2, <1>5
  <2> QED
    BY <2>1, LaterEvent
<1>7. DOMAIN new = DOMAIN old \cup {p}
  BY <1>1, <1>3
<1>8. \A q \in DOMAIN old : new[q] = old[q]
  BY <1>1, <1>3
<1>9. new[p] = evs[next].attributes
  BY <1>1, <1>3
<1> QED
  BY <1>4, <1>6, <1>7, <1>8, <1>9 DEF Extends, old, new

LEMMA EachTagStays ==
  ASSUME NEW evs, NEW name, NEW from \in Nat, NEW m \in Nat, from <= m, NEW next, next = m + 1,
         ~IsTag(evs[next], name)
  PROVE  EachTag(evs, name, from, next) = EachTag(evs, name, from, m)
<1>1. TagsOf(evs, name, from, next) = TagsOf(evs, name, from, m)
  BY TagSkipped
<1> QED
  BY <1>1, Zenon DEF EachTag

LEMMA EachTagOfNone ==
  ASSUME NEW evs, NEW name, NEW from, NEW m, TagsOf(evs, name, from, m) = {}
  PROVE  DOMAIN EachTag(evs, name, from, m) = {}
BY DEF EachTag

LEMMA EachMapGrows ==
  ASSUME NEW evs, NEW name, NEW from \in Nat, NEW m \in Nat, from <= m, NEW next, next = m + 1,
         IsTag(evs[next], name)
  PROVE  Extends(EachMap(evs, name, from, next), EachMap(evs, name, from, m),
                 <<next, 0>>, LastOfEach(evs[next].attributes))
<1> DEFINE T == TagsOf(evs, name, from, m)
           U == TagsOf(evs, name, from, next)
           old == EachMap(evs, name, from, m)
           new == EachMap(evs, name, from, next)
           p == <<next, 0>>
<1>1. /\ old = [q \in T \X {0} |-> LastOfEach(evs[q[1]].attributes)]
      /\ new = [q \in U \X {0} |-> LastOfEach(evs[q[1]].attributes)]
  BY DEF EachMap
<1>2. T \subseteq 1..m
  BY TagsOfBounds
<1>3. U = T \cup {next}
  BY TagAdded
<1>4. p \in Nat \X Nat /\ p[1] = next
  OBVIOUS
<1> HIDE DEF T, U, old, new
<1>5. DOMAIN old = T \X {0}
  BY <1>1
<1>6. Behind(DOMAIN old, p)
  <2>1. \A q \in DOMAIN old : q[1] \in 1..m
    BY <1>2, <1>5
  <2> QED
    BY <2>1, LaterEvent
<1>7. DOMAIN new = DOMAIN old \cup {p}
  BY <1>1, <1>3
<1>8. \A q \in DOMAIN old : new[q] = old[q]
  BY <1>1, <1>3
<1>9. new[p] = LastOfEach(evs[next].attributes)
  BY <1>1, <1>3
<1> QED
  BY <1>4, <1>6, <1>7, <1>8, <1>9 DEF Extends, old, new

LEMMA EachMapStays ==
  ASSUME NEW evs, NEW name, NEW from \in Nat, NEW m \in Nat, from <= m, NEW next, next = m + 1,
         ~IsTag(evs[next], name)
  PROVE  EachMap(evs, name, from, next) = EachMap(evs, name, from, m)
<1>1. TagsOf(evs, name, from, next) = TagsOf(evs, name, from, m)
  BY TagSkipped
<1> QED
  BY <1>1, Zenon DEF EachMap

LEMMA EachMapOfNone ==
  ASSUME NEW evs, NEW name, NEW from, NEW m, TagsOf(evs, name, from, m) = {}
  PROVE  DOMAIN EachMap(evs, name, from, m) = {}
BY DEF EachMap

\* The values taken from the events up to m, and from the first n attributes of the next.
ValuesUpTo(evs, name, attr, from, m, n) ==
  [p \in ValuePlaces(evs, name, attr, from, m)
           \cup ({m + 1} \X {i \in 1..n : evs[m + 1].attributes[i].name = attr}) |->
     evs[p[1]].attributes[p[2]].value]

LEMMA ValuePlacesBounds ==
  ASSUME NEW evs, NEW name, NEW attr, NEW from \in Nat, NEW m \in Nat
  PROVE  /\ ValuePlaces(evs, name, attr, from, from) = {}
         /\ \A q \in ValuePlaces(evs, name, attr, from, m) : q[1] \in 1..m
<1> DEFINE T == TagsOf(evs, name, from, m)
           Of(k) == {k} \X Named(evs[k].attributes, attr)
<1>1. ValuePlaces(evs, name, attr, from, from) = {}
  BY TagsOfBounds DEF ValuePlaces
<1>2. ASSUME NEW q \in ValuePlaces(evs, name, attr, from, m) PROVE q[1] \in 1..m
  <2>1. PICK k \in T : q \in Of(k)
    BY DEF ValuePlaces
  <2>2. T \subseteq 1..m
    BY TagsOfBounds
  <2>3. q[1] = k
    BY <2>1
  <2> QED
    BY <2>2, <2>3
<1> QED
  BY <1>1, <1>2

LEMMA ValuesAdded ==
  ASSUME NEW evs, NEW name, NEW attr, NEW from \in Nat, NEW m \in Nat, from <= m,
         NEW next, next = m + 1, IsTag(evs[next], name)
  PROVE  ValuePlaces(evs, name, attr, from, next)
           = ValuePlaces(evs, name, attr, from, m) \cup ({next} \X Named(evs[next].attributes, attr))
<1> DEFINE T == TagsOf(evs, name, from, m)
           Of(k) == {k} \X Named(evs[k].attributes, attr)
<1>1. TagsOf(evs, name, from, next) = T \cup {next}
  BY TagAdded
<1> HIDE DEF Of
<1>2. UNION {Of(k) : k \in T \cup {next}} = (UNION {Of(k) : k \in T}) \cup Of(next)
  OBVIOUS
<1>3. /\ ValuePlaces(evs, name, attr, from, m) = UNION {Of(k) : k \in T}
      /\ ValuePlaces(evs, name, attr, from, next) = UNION {Of(k) : k \in T \cup {next}}
  BY <1>1, Zenon DEF ValuePlaces, Of
<1> QED
  BY <1>2, <1>3 DEF Of

LEMMA ValuesSkipped ==
  ASSUME NEW evs, NEW name, NEW attr, NEW from \in Nat, NEW m \in Nat, from <= m,
         NEW next, next = m + 1, ~IsTag(evs[next], name)
  PROVE  ValuePlaces(evs, name, attr, from, next) = ValuePlaces(evs, name, attr, from, m)
<1>1. TagsOf(evs, name, from, next) = TagsOf(evs, name, from, m)
  BY TagSkipped
<1> QED
  BY <1>1, Zenon DEF ValuePlaces

LEMMA OneValueMore ==
  ASSUME NEW evs, NEW name, NEW attr, NEW from \in Nat, NEW m \in Nat, NEW n \in Nat,
         NEW next, next = m + 1, NEW i, i = n + 1, evs[next].attributes[i].name = attr
  PROVE  Extends(ValuesUpTo(evs, name, attr, from, m, i), ValuesUpTo(evs, name, attr, from, m, n),
                 <<next, i>>, evs[next].attributes[i].value)
<1> DEFINE V == ValuePlaces(evs, name, attr, from, m)
           N(k) == {l \in 1..k : evs[next].attributes[l].name = attr}
           old == ValuesUpTo(evs, name, attr, from, m, n)
           new == ValuesUpTo(evs, name, attr, from, m, i)
           a   == evs[next].attributes[i]
           p   == <<next, i>>
           at(q) == evs[q[1]].attributes[q[2]].value
<1>1. /\ old = [q \in V \cup ({next} \X N(n)) |-> at(q)]
      /\ new = [q \in V \cup ({next} \X N(i)) |-> at(q)]
  BY DEF ValuesUpTo
<1>2. \A q \in V : q[1] \in 1..m
  BY ValuePlacesBounds
<1>3. 1..i = (1..n) \cup {i}
  OBVIOUS
<1>4. N(n) \subseteq 1..n
  OBVIOUS
<1>5. N(i) = N(n) \cup {i}
  BY <1>3
<1>6. p \in Nat \X Nat /\ p[1] = next /\ p[2] = i
  OBVIOUS
<1> HIDE DEF V, N, old, new
<1>7. DOMAIN old = V \cup ({next} \X N(n))
  BY <1>1
<1>8. Behind(DOMAIN old, p)
  <2>1. ASSUME NEW q \in DOMAIN old
        PROVE  q[1] \in 1..m \/ (q[1] = next /\ q[2] \in 1..n)
    BY <1>2, <1>4, <1>7
  <2> QED
    BY <1>6, <2>1 DEF Behind
<1>9. DOMAIN new = DOMAIN old \cup {p}
  <2>1. {next} \X (N(n) \cup {i}) = ({next} \X N(n)) \cup {p}
    OBVIOUS
  <2> QED
    BY <1>1, <1>5, <1>7, <2>1
<1>10. \A q \in DOMAIN old : new[q] = old[q]
  BY <1>1, <1>7, <1>9
<1>11. new[p] = a.value
  BY <1>1, <1>6, <1>9
<1> QED
  BY <1>6, <1>8, <1>9, <1>10, <1>11 DEF Extends, old, new

LEMMA NoValueMore ==
  ASSUME NEW evs, NEW name, NEW attr, NEW from \in Nat, NEW m \in Nat, NEW n \in Nat,
         NEW next, next = m + 1, NEW i, i = n + 1, evs[next].attributes[i].name # attr
  PROVE  ValuesUpTo(evs, name, attr, from, m, i) = ValuesUpTo(evs, name, attr, from, m, n)
<1> DEFINE N(k) == {l \in 1..k : evs[next].attributes[l].name = attr}
<1>1. 1..i = (1..n) \cup {i}
  OBVIOUS
<1>2. N(i) = N(n)
  BY <1>1
<1> QED
  BY <1>2, Zenon DEF ValuesUpTo

LEMMA EachValueStays ==
  ASSUME NEW evs, NEW name, NEW attr, NEW from \in Nat, NEW m \in Nat, from <= m,
         NEW next, next = m + 1, ~IsTag(evs[next], name)
  PROVE  EachValue(evs, name, attr, from, next) = EachValue(evs, name, attr, from, m)
<1>1. ValuePlaces(evs, name, attr, from, next) = ValuePlaces(evs, name, attr, from, m)
  BY ValuesSkipped
<1> QED
  BY <1>1, Zenon DEF EachValue

LEMMA AppendsConcat ==
  ASSUME NEW acc, IsList(acc)
  PROVE  \A s, x : IsList(s) => acc \o Append(s, x) = Append(acc \o s, x)
<1> SUFFICES ASSUME NEW s, NEW x, IsList(s)
             PROVE  acc \o Append(s, x) = Append(acc \o s, x)
  OBVIOUS
<1> QED
  BY AppendConcat

LEMMA EachValueGrows ==
  ASSUME NEW evs, NEW name, NEW attr, NEW from \in Nat, NEW m \in Nat, from <= m,
         NEW next, next = m + 1, IsTag(evs[next], name), IsList(evs[next].attributes),
         NEW acc, Ordered(acc, EachValue(evs, name, attr, from, m))
  PROVE  Ordered(acc \o ValuesOf(evs[next].attributes, attr), EachValue(evs, name, attr, from, next))
<1> DEFINE as == evs[next].attributes
           N == Len(as)
           item(n) == ValuesUpTo(evs, name, attr, from, m, n)
<1>1. IsList(acc)
  BY DEF Ordered
<1>2. N \in Nat
  BY ListLength
<1>3. PICK f : Values(f, as, attr, N) /\ ValuesOf(as, attr) = f[N]
  BY ValuesOfIs
<1>4. \A s, x : IsList(s) => acc \o Append(s, x) = Append(acc \o s, x)
  BY <1>1, AppendsConcat, Zenon
<1>5. Ordered(acc \o f[N], EachValue(evs, name, attr, from, next))
  <2> DEFINE T == {n \in Nat : n \in 0..N => Ordered(acc \o f[n], item(n))}
  <2>1. 0 \in T
    <3>1. {i \in 1..0 : as[i].name = attr} = {}
      OBVIOUS
    <3>2. {next} \X {} = {}
      OBVIOUS
    <3>3. item(0) = EachValue(evs, name, attr, from, m)
      BY <3>1, <3>2 DEF ValuesUpTo, EachValue
    <3>4. acc \o f[0] = acc
      <4>1. f[0] = <<>>
        BY <1>2, <1>3, ValuesStep
      <4> QED
        BY <1>1, <4>1, ConcatEmpty
    <3> QED
      BY <3>3, <3>4
  <2>2. \A n \in 0..N : n + 1 \in 0..N => f[n + 1] = WithNext(f[n], as, attr, n)
    BY <1>2, <1>3, ValuesStep
  <2>3. \A n \in 0..N : Picked(f[n], as, attr, n)
    BY <1>2, <1>3, ValuesPicked
  <2>4. ASSUME NEW n \in T PROVE n + 1 \in T
    <3>1. n \in Nat /\ n + 1 \in Nat
      OBVIOUS
    <3> SUFFICES ASSUME n + 1 \in 0..N PROVE Ordered(acc \o f[n + 1], item(n + 1))
      BY <3>1, Zenon
    <3> HIDE DEF N
    <3>2. n \in 0..N
      BY <1>2, <3>1
    <3>3. Ordered(acc \o f[n], item(n))
      BY <3>2
    <3>4. IsList(f[n])
      BY <2>3, <3>2 DEF Picked
    <3>5. f[n + 1] = WithNext(f[n], as, attr, n)
      BY <2>2, <3>2
    <3>6. CASE as[n + 1].name = attr
      <4>1. Extends(item(n + 1), item(n), <<next, n + 1>>, as[n + 1].value)
        BY <3>1, <3>6, OneValueMore
      <4>2. f[n + 1] = Append(f[n], as[n + 1].value)
        BY <3>5, <3>6 DEF WithNext
      <4>3. acc \o Append(f[n], as[n + 1].value) = Append(acc \o f[n], as[n + 1].value)
        BY <1>4, <3>4
      <4> HIDE DEF item
      <4> QED
        BY <3>3, <4>1, <4>2, <4>3, OneMore
    <3>7. CASE as[n + 1].name # attr
      <4>1. item(n + 1) = item(n)
        BY <3>1, <3>7, NoValueMore
      <4>2. f[n + 1] = f[n]
        BY <3>5, <3>7 DEF WithNext
      <4> HIDE DEF item
      <4> QED
        BY <3>3, <4>1, <4>2
    <3> QED
      BY <3>6, <3>7
  <2> HIDE DEF T, item, N
  <2>5. T \in SUBSET Nat
    BY DEF T
  <2>6. T = Nat
    BY <2>1, <2>4, <2>5, NatSetInduction
  <2>7. N \in T /\ N \in 0..N
    BY <1>2, <2>6
  <2>8. Ordered(acc \o f[N], item(N))
    BY <2>7 DEF T
  <2>9. ValuePlaces(evs, name, attr, from, next)
          = ValuePlaces(evs, name, attr, from, m) \cup ({next} \X Named(as, attr))
    BY ValuesAdded
  <2>10. item(N) = EachValue(evs, name, attr, from, next)
    BY <2>9, Zenon DEF item, N, EachValue, ValuesUpTo, Named
  <2> QED
    BY <2>8, <2>10
<1> QED
  BY <1>3, <1>5

LEMMA LastOfEachIs ==
  ASSUME NEW as, IsList(as)
  PROVE  AttributeMap(as) = LastOfEach(as)
<1> DEFINE names == {as[i].name : i \in 1..Len(as)}
<1>1. DOMAIN as = 1..Len(as) /\ Len(as) \in Nat
  BY ListLength
<1>2. ASSUME NEW n \in names
      PROVE  Last(ValuesOf(as, n))
               = as[CHOOSE i \in Named(as, n) : \A j \in Named(as, n) : j <= i].value
  <2>1. Named(as, n) # {}
    BY DEF Named
  <2>2. PICK i \in Named(as, n) : /\ Last(ValuesOf(as, n)) = as[i].value
                                  /\ \A j \in Named(as, n) : j <= i
    BY <2>1, ValuesOfFacts
  <2> DEFINE l == CHOOSE k \in Named(as, n) : \A j \in Named(as, n) : j <= k
  <2>3. l \in Named(as, n) /\ \A j \in Named(as, n) : j <= l
    BY <2>2
  <2>4. i \in Nat /\ l \in Nat
    BY <2>3, <1>1 DEF Named
  <2> HIDE DEF l
  <2>5. i <= l /\ l <= i
    BY <2>2, <2>3, Zenon
  <2>6. i = l
    BY <2>4, <2>5
  <2> QED
    BY <2>2, <2>6 DEF l
<1> QED
  BY <1>1, <1>2, Zenon DEF AttributeMap, LastOfEach

-----------------------------------------------------------------------------
(***************************************************************************)
(* What a helper has made of the events behind `from` up to m, before it   *)
(* returns.                                                                *)
(***************************************************************************)
NoneEnds(evs, from, m) == \A k \in (from + 1)..m : ~IsEndDocument(evs[k])
NoneHits(c, evs, from, m) == \A k \in (from + 1)..m : ~Hit(c, evs[k])

Searched(evs, acc, c, from, m) ==
  acc = <<>> /\ NoneHits(c, evs, from, m) /\ NoneEnds(evs, from, m)

Mapped(evs, acc, from, m) ==
  /\ DOMAIN acc = TagNames(evs, from, m)
  /\ \A n \in TagNames(evs, from, m) : Ordered(acc[n], EachMap(evs, n, from, m))

Rendered(evs, acc, from, m) ==
  Ordered(acc, XmlOf(evs, from, m)) /\ NoneEnds(evs, from, m)

SoFar(evs, acc, c, from, m) ==
  /\ c.op \in FindOps => Searched(evs, acc, c, from, m)
  /\ c.op = "all_attributes_of" => Ordered(acc, EachTag(evs, c.element, from, m))
  /\ c.op = "find_all_attributes" => Ordered(acc, EachValue(evs, c.element, c.attr, from, m))
  /\ c.op = "into_map" => Mapped(evs, acc, from, m)
  /\ c.op \in XmlOps => Rendered(evs, acc, from, m)

LEMMA RangeOfNone ==
  ASSUME NEW from \in Nat
  PROVE  (from + 1)..from = {}
OBVIOUS

LEMMA XmlOpens ==
  ASSUME NEW evs, NEW from \in Nat
  PROVE  Rendered(evs, <<Declaration>>, from, from)
<1> DEFINE none == [p \in {} |-> Declaration]
           item == XmlOf(evs, from, from)
           p0   == <<from, 0>>
<1>1. NoneEnds(evs, from, from)
  BY RangeOfNone DEF NoneEnds
<1>2. XmlPlaces(evs, from, from) = {from}
  BY RangeOfNone DEF XmlPlaces
<1>3. item = [p \in {from} \X {0} |-> IF p[1] = from THEN Declaration ELSE evs[p[1]]]
  BY <1>2 DEF XmlOf
<1> HIDE DEF item
<1>4. DOMAIN none = {}
  OBVIOUS
<1> HIDE DEF none
<1>5. Ordered(<<>>, none)
  BY <1>4, NoItems
<1>6. DOMAIN item = {p0} /\ item[p0] = Declaration
  <2>1. {from} \X {0} = {p0} /\ p0[1] = from
    OBVIOUS
  <2> QED
    BY <1>3, <2>1
<1>7. Extends(item, none, p0, Declaration)
  <2>1. p0 \in Nat \X Nat
    OBVIOUS
  <2>2. Behind(DOMAIN none, p0)
    BY <1>4 DEF Behind
  <2> QED
    BY <1>4, <1>6, <2>1, <2>2 DEF Extends
<1>8. Ordered(Append(<<>>, Declaration), item)
  BY <1>5, <1>7, OneMore
<1>9. Append(<<>>, Declaration) = <<Declaration>>
  OBVIOUS
<1> QED
  BY <1>1, <1>8, <1>9 DEF Rendered, item

LEMMA Opened ==
  ASSUME NEW evs, NEW c \in Calls, NEW from \in Nat
  PROVE  SoFar(evs, Opening(c), c, from, from)
<1>1. CASE c.op \in FindOps
  <2>1. Opening(c) = <<>> /\ c.op \notin RestOps \cup XmlOps
    BY <1>1 DEF Opening, FindOps, RestOps, XmlOps
  <2>2. Searched(evs, <<>>, c, from, from)
    BY RangeOfNone DEF Searched, NoneHits, NoneEnds
  <2> QED
    BY <2>1, <2>2 DEF SoFar, RestOps
<1>2. CASE c.op \in RestOps
  <2>1. Opening(c) = <<>> /\ c.op \notin FindOps \cup XmlOps
    BY <1>2 DEF Opening, FindOps, RestOps, XmlOps
  <2>2. Ordered(<<>>, EachTag(evs, c.element, from, from))
    BY TagsOfBounds, EachTagOfNone, NoItems
  <2>3. Ordered(<<>>, EachValue(evs, c.element, c.attr, from, from))
    <3>1. ValuePlaces(evs, c.element, c.attr, from, from) = {}
      BY ValuePlacesBounds
    <3>2. DOMAIN EachValue(evs, c.element, c.attr, from, from) = {}
      BY <3>1 DEF EachValue
    <3> QED
      BY <3>2, NoItems
  <2>4. Mapped(evs, <<>>, from, from)
    <3>1. TagNames(evs, from, from) = {}
      BY TagNamesBounds
    <3>2. DOMAIN <<>> = {}
      OBVIOUS
    <3> QED
      BY <3>1, <3>2 DEF Mapped
  <2> QED
    BY <2>1, <2>2, <2>3, <2>4 DEF SoFar
<1>3. CASE c.op \in XmlOps
  <2>1. Opening(c) = <<Declaration>> /\ c.op \notin FindOps \cup RestOps
    BY <1>3 DEF Opening, FindOps, RestOps, XmlOps
  <2>2. Rendered(evs, <<Declaration>>, from, from)
    BY XmlOpens
  <2> QED
    BY <2>1, <2>2 DEF SoFar, RestOps
<1> QED
  BY <1>1, <1>2, <1>3, CallsAssumption

LEMMA MapSkips ==
  ASSUME NEW evs, NEW from \in Nat, NEW m \in Nat, from <= m, NEW next, next = m + 1,
         NEW acc, Mapped(evs, acc, from, m), ~IsStart(evs[next])
  PROVE  Mapped(evs, acc, from, next)
<1>1. TagNames(evs, from, next) = TagNames(evs, from, m)
  BY TagNameSkipped
<1>2. ASSUME NEW n PROVE EachMap(evs, n, from, next) = EachMap(evs, n, from, m)
  <2>1. ~IsTag(evs[next], n)
    BY DEF IsTag
  <2> QED
    BY <2>1, EachMapStays
<1> QED
  BY <1>1, <1>2 DEF Mapped

LEMMA MapTakes ==
  ASSUME NEW evs, NEW from \in Nat, NEW m \in Nat, from <= m, NEW next, next = m + 1,
         NEW acc, Mapped(evs, acc, from, m), IsStart(evs[next]), IsList(evs[next].attributes)
  PROVE  Mapped(evs, WithEntry(acc, evs[next]), from, next)
<1> DEFINE e == evs[next]
           map == WithEntry(acc, e)
           names == TagNames(evs, from, m)
           new == AttributeMap(e.attributes)
<1>1. TagNames(evs, from, next) = names \cup {e.text}
  BY TagNameAdded
<1>2. DOMAIN acc = names
  BY DEF Mapped
<1>3. /\ DOMAIN map = names \cup {e.text}
      /\ \A n \in names \cup {e.text} :
           map[n] = (IF n \in names THEN acc[n] ELSE <<>>) \o (IF n = e.text THEN <<new>> ELSE <<>>)
  BY <1>2 DEF WithEntry
<1>4. new = LastOfEach(e.attributes)
  BY LastOfEachIs
<1>5. \A n \in names : Ordered(acc[n], EachMap(evs, n, from, m))
  BY DEF Mapped
<1> HIDE DEF map, new
<1>6. ASSUME NEW n \in names \cup {e.text}, n # e.text
      PROVE  Ordered(map[n], EachMap(evs, n, from, next))
  <2>1. n \in names
    BY <1>6
  <2>2. map[n] = acc[n] \o <<>>
    BY <1>3, <1>6, <2>1
  <2>3. Ordered(acc[n], EachMap(evs, n, from, m))
    BY <1>5, <2>1
  <2>4. acc[n] \o <<>> = acc[n]
    BY <2>3, ConcatEmpty DEF Ordered
  <2>5. ~IsTag(e, n)
    BY <1>6 DEF IsTag
  <2>6. EachMap(evs, n, from, next) = EachMap(evs, n, from, m)
    BY <2>5, EachMapStays
  <2> QED
    BY <2>2, <2>3, <2>4, <2>6
<1>7. Ordered(map[e.text], EachMap(evs, e.text, from, next))
  <2> DEFINE n == e.text
             old == IF n \in names THEN acc[n] ELSE <<>>
  <2>1. map[n] = old \o <<new>>
    BY <1>3
  <2>2. Ordered(old, EachMap(evs, n, from, m))
    <3>1. CASE n \in names
      BY <1>5, <3>1
    <3>2. CASE n \notin names
      <4>1. TagsOf(evs, n, from, m) = {}
        BY <3>2, TagNamesBounds
      <4>2. Ordered(<<>>, EachMap(evs, n, from, m))
        BY <4>1, EachMapOfNone, NoItems
      <4> QED
        BY <3>2, <4>2
    <3> QED
      BY <3>1, <3>2
  <2>3. IsTag(e, n)
    BY DEF IsTag
  <2>4. Extends(EachMap(evs, n, from, next), EachMap(evs, n, from, m), <<next, 0>>, new)
    BY <1>4, <2>3, EachMapGrows
  <2> HIDE DEF old
  <2>5. Ordered(Append(old, new), EachMap(evs, n, from, next))
    BY <2>2, <2>4, OneMore
  <2>6. old \o <<new>> = Append(old, new)
    BY <2>2, AppendOne DEF Ordered
  <2> QED
    BY <2>1, <2>5, <2>6
<1>8. \A n \in names \cup {e.text} : Ordered(map[n], EachMap(evs, n, from, next))
  BY <1>6, <1>7
<1> QED
  BY <1>1, <1>3, <1>8 DEF Mapped, map

\* The places of the XML, as the rendering goes on behind an event that does not end the document.
LEMMA NoneEndsGrows ==
  ASSUME NEW evs, NEW from \in Nat, NEW m \in Nat, from <= m, NEW next, next = m + 1,
         NoneEnds(evs, from, m), ~IsEndDocument(evs[next])
  PROVE  NoneEnds(evs, from, next)
<1>1. (from + 1)..next = ((from + 1)..m) \cup {next}
  BY RangeGrows
<1> QED
  BY <1>1 DEF NoneEnds

LEMMA XmlPlacesSoFar ==
  ASSUME NEW evs, NEW from \in Nat, NEW m \in Nat, NoneEnds(evs, from, m)
  PROVE  XmlPlaces(evs, from, m) = {from} \cup {k \in (from + 1)..m : Render(evs[k]) # <<>>}
<1>1. \A k \in (from + 1)..m : \A j \in (from + 1)..k : j \in (from + 1)..m
  OBVIOUS
<1> QED
  BY <1>1 DEF XmlPlaces, NoneEnds

LEMMA XmlGrows ==
  ASSUME NEW evs, NEW from \in Nat, NEW m \in Nat, from <= m, NEW next, next = m + 1,
         NEW acc, Rendered(evs, acc, from, m), ~IsEndDocument(evs[next])
  PROVE  Rendered(evs, acc \o Render(evs[next]), from, next)
<1> DEFINE e == evs[next]
           P == XmlPlaces(evs, from, m)
           Q == XmlPlaces(evs, from, next)
           old == XmlOf(evs, from, m)
           new == XmlOf(evs, from, next)
           p == <<next, 0>>
<1>1. NoneEnds(evs, from, m) /\ Ordered(acc, old)
  BY DEF Rendered
<1>2. NoneEnds(evs, from, next)
  BY <1>1, NoneEndsGrows
<1>3. (from + 1)..next = ((from + 1)..m) \cup {next}
  BY RangeGrows
<1>4. /\ P = {from} \cup {k \in (from + 1)..m : Render(evs[k]) # <<>>}
      /\ Q = {from} \cup {k \in (from + 1)..next : Render(evs[k]) # <<>>}
  BY <1>1, <1>2, XmlPlacesSoFar
<1>5. Q = P \cup (IF Render(e) # <<>> THEN {next} ELSE {})
  BY <1>3, <1>4
<1>6. /\ old = [q \in P \X {0} |-> IF q[1] = from THEN Declaration ELSE evs[q[1]]]
      /\ new = [q \in Q \X {0} |-> IF q[1] = from THEN Declaration ELSE evs[q[1]]]
  BY DEF XmlOf
<1>7. \A k \in P : k < next
  BY <1>4
<1> HIDE DEF P, Q, old, new
<1>8. CASE Render(e) = <<>>
  <2>1. Q = P
    BY <1>5, <1>8
  <2>2. new = old
    BY <1>6, <2>1
  <2>3. acc \o Render(e) = acc
    BY <1>1, <1>8, ConcatEmpty DEF Ordered
  <2> QED
    BY <1>1, <1>2, <2>2, <2>3 DEF Rendered, new
<1>9. CASE Render(e) # <<>>
  <2>1. Render(e) = <<e>>
    BY <1>9 DEF Render
  <2>2. Q = P \cup {next}
    BY <1>5, <1>9
  <2>3. DOMAIN old = P \X {0} /\ DOMAIN new = Q \X {0}
    BY <1>6
  <2>4. Behind(DOMAIN old, p)
    BY <1>7, <2>3 DEF Behind
  <2>5. DOMAIN new = DOMAIN old \cup {p}
    BY <2>2, <2>3
  <2>6. \A q \in DOMAIN old : new[q] = old[q]
    BY <1>6, <2>2
  <2>7. new[p] = e
    <3>1. p \in Q \X {0} /\ p[1] = next /\ next # from
      BY <2>2
    <3> QED
      BY <1>6, <3>1
  <2>8. p \in Nat \X Nat
    OBVIOUS
  <2>9. Extends(new, old, p, e)
    BY <2>4, <2>5, <2>6, <2>7, <2>8 DEF Extends
  <2>10. Ordered(Append(acc, e), new)
    BY <1>1, <2>9, OneMore
  <2>11. acc \o Render(e) = Append(acc, e)
    BY <1>1, <2>1, AppendOne DEF Ordered
  <2> QED
    BY <1>2, <2>10, <2>11 DEF Rendered, new
<1> QED
  BY <1>8, <1>9

LEMMA CollectOf ==
  ASSUME NEW c, NEW acc, NEW e
  PROVE  /\ c.op = "find_attribute" => Collect(c, acc, e) =
              (IF HasIt(c, e) THEN <<Head(ValuesOf(e.attributes, c.attr))>> ELSE <<>>)
         /\ c.op = "attributes_of" => Collect(c, acc, e) = (IF Tagged(c, e) THEN <<e.attributes>> ELSE <<>>)
         /\ c.op = "find_all_attributes" => Collect(c, acc, e) =
              (IF Tagged(c, e) THEN acc \o ValuesOf(e.attributes, c.attr) ELSE acc)
         /\ c.op = "all_attributes_of" => Collect(c, acc, e) =
              (IF Tagged(c, e) THEN Append(acc, e.attributes) ELSE acc)
         /\ c.op = "into_map" => Collect(c, acc, e) = (IF IsStart(e) THEN WithEntry(acc, e) ELSE acc)
         /\ c.op \in XmlOps => Collect(c, acc, e) =
              (IF IsEndDocument(e) THEN acc ELSE acc \o Render(e))
BY DEF Collect, XmlOps

LEMMA StopsWhen ==
  ASSUME NEW c, NEW e
  PROVE  /\ c.op \in FindOps => (Stops(c, e) <=> Hit(c, e) \/ IsEndDocument(e))
         /\ c.op \in RestOps => ~Stops(c, e)
         /\ c.op \in XmlOps => (Stops(c, e) <=> IsEndDocument(e))
BY DEF Stops, Hit, FindOps, RestOps, XmlOps

\* An event that does not end the search or the rendering: the call goes on with what it has then.
LEMMA CollectKeeps ==
  ASSUME NEW evs, NEW c \in Calls, NEW from \in Nat, NEW m \in Nat, from <= m,
         NEW next, next = m + 1, NEW acc,
         SoFar(evs, acc, c, from, m), ~Stops(c, evs[next]), IsList(evs[next].attributes)
  PROVE  SoFar(evs, Collect(c, acc, evs[next]), c, from, next)
<1> DEFINE e == evs[next]
           coll == Collect(c, acc, e)
<1>1. CASE c.op \in FindOps
  <2>1. ~Hit(c, e) /\ ~IsEndDocument(e)
    BY <1>1, StopsWhen
  <2>2. Searched(evs, acc, c, from, m)
    BY <1>1 DEF SoFar
  <2>3. (from + 1)..next = ((from + 1)..m) \cup {next}
    BY RangeGrows
  <2>4. NoneHits(c, evs, from, next) /\ NoneEnds(evs, from, next)
    BY <2>1, <2>2, <2>3 DEF Searched, NoneHits, NoneEnds
  <2>5. coll = <<>>
    <3>1. CASE c.op = "find_attribute"
      BY <2>1, <3>1, CollectOf DEF Hit
    <3>2. CASE c.op = "attributes_of"
      BY <2>1, <3>2, CollectOf DEF Hit
    <3> QED
      BY <1>1, <3>1, <3>2 DEF FindOps
  <2>6. c.op \notin RestOps \cup XmlOps
    BY <1>1 DEF FindOps, RestOps, XmlOps
  <2> HIDE DEF coll
  <2> QED
    BY <2>4, <2>5, <2>6 DEF SoFar, Searched, RestOps, coll
<1>2. CASE c.op = "all_attributes_of"
  <2>1. Ordered(acc, EachTag(evs, c.element, from, m))
    BY <1>2 DEF SoFar
  <2>2. CASE Tagged(c, e)
    <3>1. coll = Append(acc, e.attributes)
      BY <1>2, <2>2, CollectOf
    <3>2. Extends(EachTag(evs, c.element, from, next), EachTag(evs, c.element, from, m),
                  <<next, 0>>, e.attributes)
      BY <2>2, EachTagGrows DEF Tagged
    <3>3. Ordered(coll, EachTag(evs, c.element, from, next))
      BY <2>1, <3>1, <3>2, OneMore
    <3> HIDE DEF coll
    <3> QED
      BY <1>2, <3>3 DEF SoFar, FindOps, XmlOps, coll
  <2>3. CASE ~Tagged(c, e)
    <3>1. coll = acc
      BY <1>2, <2>3, CollectOf
    <3>2. EachTag(evs, c.element, from, next) = EachTag(evs, c.element, from, m)
      BY <2>3, EachTagStays DEF Tagged
    <3> HIDE DEF coll
    <3> QED
      BY <1>2, <2>1, <3>1, <3>2 DEF SoFar, FindOps, XmlOps, coll
  <2> QED
    BY <2>2, <2>3
<1>3. CASE c.op = "find_all_attributes"
  <2>1. Ordered(acc, EachValue(evs, c.element, c.attr, from, m))
    BY <1>3 DEF SoFar
  <2>2. CASE Tagged(c, e)
    <3>1. coll = acc \o ValuesOf(e.attributes, c.attr)
      BY <1>3, <2>2, CollectOf
    <3>2. Ordered(coll, EachValue(evs, c.element, c.attr, from, next))
      BY <2>1, <2>2, <3>1, EachValueGrows DEF Tagged
    <3> HIDE DEF coll
    <3> QED
      BY <1>3, <3>2 DEF SoFar, FindOps, XmlOps, coll
  <2>3. CASE ~Tagged(c, e)
    <3>1. coll = acc
      BY <1>3, <2>3, CollectOf
    <3>2. EachValue(evs, c.element, c.attr, from, next) = EachValue(evs, c.element, c.attr, from, m)
      BY <2>3, EachValueStays DEF Tagged
    <3> HIDE DEF coll
    <3> QED
      BY <1>3, <2>1, <3>1, <3>2 DEF SoFar, FindOps, XmlOps, coll
  <2> QED
    BY <2>2, <2>3
<1>4. CASE c.op = "into_map"
  <2>1. Mapped(evs, acc, from, m)
    BY <1>4 DEF SoFar
  <2>2. Mapped(evs, coll, from, next)
    <3>1. CASE IsStart(e)
      <4>1. coll = WithEntry(acc, e)
        BY <1>4, <3>1, CollectOf
      <4> QED
        BY <2>1, <3>1, <4>1, MapTakes
    <3>2. CASE ~IsStart(e)
      <4>1. coll = acc
        BY <1>4, <3>2, CollectOf
      <4> QED
        BY <2>1, <3>2, <4>1, MapSkips
    <3> QED
      BY <3>1, <3>2
  <2> HIDE DEF coll
  <2> QED
    BY <1>4, <2>2 DEF SoFar, FindOps, XmlOps, coll
<1>5. CASE c.op \in XmlOps
  <2>1. Rendered(evs, acc, from, m)
    BY <1>5 DEF SoFar
  <2>2. ~IsEndDocument(e)
    BY <1>5, StopsWhen
  <2>3. coll = acc \o Render(e)
    BY <1>5, <2>2, CollectOf
  <2>4. Rendered(evs, coll, from, next)
    BY <2>1, <2>2, <2>3, XmlGrows
  <2>5. c.op \notin FindOps \cup RestOps
    BY <1>5 DEF FindOps, RestOps, XmlOps
  <2> HIDE DEF coll
  <2> QED
    BY <2>4, <2>5 DEF SoFar, RestOps, coll
<1> QED
  BY <1>1, <1>2, <1>3, <1>4, <1>5, CallsAssumption DEF RestOps

-----------------------------------------------------------------------------
(***************************************************************************)
(* The answers: what the properties say of each of them, on its own.       *)
(***************************************************************************)
AnswerOf(c, from, upto, outcome, value) ==
  [call |-> c, from |-> from, upto |-> upto, outcome |-> outcome, value |-> value]

GoodFind(evs, a) == a.call.op \in FindOps /\ a.outcome = "ok" => Found(evs, a)
GoodRest(evs, a) ==
  a.call.op \in RestOps /\ a.outcome = "ok" =>
    a.upto = Len(evs) /\ Gathered(evs, a.value, a.call, a.from, a.upto)
GoodXml(evs, a) ==
  a.call.op \in XmlOps =>
    /\ a.outcome = "ok" => InOrder(a.value, XmlOf(evs, a.from, Len(evs)))
    /\ a.outcome = "error" => \/ a.value = <<>>
                              \/ \E n \in a.from..a.upto : InOrder(a.value, XmlOf(evs, a.from, n))

\* find_attribute, whether it answers or fails, leaves no tag behind that it looked for: the one it
\* answers with is the last event it consumed.
LeavesNone(evs, a) ==
  a.call.op = "find_attribute" =>
    /\ a.value = <<>> => NoneHits(a.call, evs, a.from, a.upto)
    /\ a.value # <<>> => /\ a.upto > a.from
                         /\ NoneHits(a.call, evs, a.from, a.upto - 1)
                         /\ HasIt(a.call, evs[a.upto])
                         /\ IsFrom(a.value, a.call, evs[a.upto].attributes)

Good(evs, a) == GoodFind(evs, a) /\ GoodRest(evs, a) /\ GoodXml(evs, a) /\ LeavesNone(evs, a)


\* The search that ends on an event answers with it.
LEMMA StopFinds ==
  ASSUME NEW evs, NEW c \in Calls, NEW from \in Nat, NEW m \in Nat, from <= m,
         NEW next, next = m + 1, NEW acc, c.op \in FindOps,
         SoFar(evs, acc, c, from, m), Stops(c, evs[next]), IsList(evs[next].attributes)
  PROVE  LET a == AnswerOf(c, from, next, "ok", Collect(c, acc, evs[next]))
         IN  Found(evs, a) /\ LeavesNone(evs, a)
<1> DEFINE e == evs[next]
           v == Collect(c, acc, e)
           a == AnswerOf(c, from, next, "ok", v)
<1>1. Searched(evs, acc, c, from, m)
  BY DEF SoFar
<1>2. a.call = c /\ a.from = from /\ a.upto = next /\ a.value = v
  BY DEF AnswerOf
<1>3. Hit(c, e) \/ IsEndDocument(e)
  BY StopsWhen
<1>4. (v # <<>> <=> Hit(c, e)) /\ (Hit(c, e) => IsFrom(v, c, e.attributes))
  <2>1. CASE c.op = "find_attribute"
    <3> DEFINE vals == ValuesOf(e.attributes, c.attr)
    <3>1. v = IF HasIt(c, e) THEN <<Head(vals)>> ELSE <<>>
      BY <2>1, CollectOf
    <3>2. Hit(c, e) <=> HasIt(c, e)
      BY <2>1 DEF Hit
    <3>3. HasIt(c, e) => vals # <<>>
      BY DEF HasIt
    <3>4. ASSUME HasIt(c, e)
          PROVE  \E i \in Named(e.attributes, c.attr) :
                    v = <<e.attributes[i].value>> /\ \A j \in Named(e.attributes, c.attr) : i <= j
      <4>1. vals # <<>>
        BY <3>3, <3>4
      <4>2. PICK i \in Named(e.attributes, c.attr) :
                   Head(vals) = e.attributes[i].value /\ \A j \in Named(e.attributes, c.attr) : i <= j
        BY <4>1, ValuesOfFacts
      <4>3. v = <<e.attributes[i].value>>
        BY <3>1, <3>4, <4>2
      <4> HIDE DEF v
      <4> QED
        BY <4>2, <4>3
    <3>5. v # <<>> <=> HasIt(c, e)
      BY <3>1
    <3> HIDE DEF v
    <3> QED
      BY <2>1, <3>2, <3>4, <3>5 DEF IsFrom
  <2>2. CASE c.op = "attributes_of"
    <3>1. v = IF Tagged(c, e) THEN <<e.attributes>> ELSE <<>>
      BY <2>2, CollectOf
    <3>2. Hit(c, e) <=> Tagged(c, e)
      BY <2>2 DEF Hit
    <3> HIDE DEF v
    <3> QED
      BY <2>2, <3>1, <3>2 DEF IsFrom
  <2> QED
    BY <2>1, <2>2 DEF FindOps
<1> HIDE DEF v, a
<1>5. next > from /\ next - 1 = m
  OBVIOUS
<1>6. NoneHits(c, evs, from, m) /\ NoneEnds(evs, from, m)
  BY <1>1 DEF Searched
<1>7. Found(evs, a)
  BY <1>2, <1>3, <1>4, <1>5, <1>6 DEF Found, NoneHits, NoneEnds
<1>8. LeavesNone(evs, a)
  <2>1. CASE c.op = "find_attribute"
    <3>1. Hit(c, e) <=> HasIt(c, e)
      BY <2>1 DEF Hit
    <3>2. (from + 1)..next = ((from + 1)..m) \cup {next}
      BY RangeGrows
    <3>3. ~Hit(c, e) => NoneHits(c, evs, from, next)
      BY <1>6, <3>2 DEF NoneHits
    <3> QED
      BY <1>2, <1>4, <1>5, <1>6, <3>1, <3>3 DEF LeavesNone
  <2>2. CASE c.op # "find_attribute"
    BY <1>2, <2>2 DEF LeavesNone
  <2> QED
    BY <2>1, <2>2
<1> QED
  BY <1>7, <1>8 DEF a, v

\* Nothing is rendered behind the end of the document.
LEMMA NothingBehindTheEnd ==
  ASSUME NEW evs, NEW from \in Nat, NEW m \in Nat, from <= m, NEW next, next = m + 1,
         NEW N \in Nat, next <= N, NoneEnds(evs, from, m), IsEndDocument(evs[next])
  PROVE  XmlOf(evs, from, N) = XmlOf(evs, from, m)
<1>1. ASSUME NEW k \in (from + 1)..N, \A j \in (from + 1)..k : ~IsEndDocument(evs[j])
      PROVE  k \in (from + 1)..m
  <2>1. next \notin (from + 1)..k
    BY <1>1
  <2> QED
    BY <2>1
<1>2. (from + 1)..m \subseteq (from + 1)..N
  OBVIOUS
<1>3. XmlPlaces(evs, from, N) = XmlPlaces(evs, from, m)
  BY <1>1, <1>2, Zenon DEF XmlPlaces
<1> QED
  BY <1>3, Zenon DEF XmlOf

LEMMA StopIsGood ==
  ASSUME NEW evs, NEW c \in Calls, NEW from \in Nat, NEW m \in Nat, from <= m,
         NEW next, next = m + 1, NEW acc, Len(evs) \in Nat, next <= Len(evs),
         SoFar(evs, acc, c, from, m), Stops(c, evs[next]), IsList(evs[next].attributes)
  PROVE  Good(evs, AnswerOf(c, from, next, "ok", Collect(c, acc, evs[next])))
<1> DEFINE v == Collect(c, acc, evs[next])
           a == AnswerOf(c, from, next, "ok", v)
<1>1. a.call = c /\ a.from = from /\ a.upto = next /\ a.value = v /\ a.outcome = "ok"
  BY DEF AnswerOf
<1>2. CASE c.op \in FindOps
  <2>1. Found(evs, a) /\ LeavesNone(evs, a)
    BY <1>2, StopFinds
  <2>2. c.op \notin RestOps \cup XmlOps
    BY <1>2 DEF FindOps, RestOps, XmlOps
  <2> HIDE DEF v, a
  <2>3. GoodFind(evs, a) /\ GoodRest(evs, a) /\ GoodXml(evs, a)
    BY <1>1, <2>1, <2>2 DEF GoodFind, GoodRest, GoodXml
  <2> QED
    BY <2>1, <2>3 DEF Good, a, v
<1>3. CASE c.op \in XmlOps
  <2>1. IsEndDocument(evs[next])
    BY <1>3, StopsWhen
  <2>2. v = acc
    BY <1>3, <2>1, CollectOf
  <2>3. Rendered(evs, acc, from, m)
    BY <1>3 DEF SoFar
  <2>4. XmlOf(evs, from, Len(evs)) = XmlOf(evs, from, m)
    BY <2>1, <2>3, NothingBehindTheEnd DEF Rendered
  <2>5. c.op \notin FindOps \cup RestOps
    BY <1>3 DEF FindOps, RestOps, XmlOps
  <2> HIDE DEF v, a
  <2>6. GoodXml(evs, a)
    BY <1>1, <2>2, <2>3, <2>4 DEF GoodXml, Rendered, Ordered
  <2>7. GoodFind(evs, a) /\ GoodRest(evs, a) /\ LeavesNone(evs, a)
    BY <1>1, <2>5 DEF GoodFind, GoodRest, LeavesNone, FindOps
  <2> QED
    BY <2>6, <2>7 DEF Good, a, v
<1>4. c.op \notin RestOps
  BY StopsWhen
<1> QED
  BY <1>2, <1>3, <1>4, CallsAssumption

LEMMA EndIsGood ==
  ASSUME NEW evs, NEW c \in Calls, NEW from \in Nat, NEW m \in Nat, from <= m,
         NEW acc, m = Len(evs), SoFar(evs, acc, c, from, m)
  PROVE  Good(evs, AnswerOf(c, from, m, "ok", acc))
<1> DEFINE a == AnswerOf(c, from, m, "ok", acc)
<1>1. a.call = c /\ a.from = from /\ a.upto = m /\ a.value = acc /\ a.outcome = "ok"
  BY DEF AnswerOf
<1> HIDE DEF a
<1>2. CASE c.op \in FindOps
  <2>1. Searched(evs, acc, c, from, m)
    BY <1>2 DEF SoFar
  <2>2. c.op \notin RestOps \cup XmlOps
    BY <1>2 DEF FindOps, RestOps, XmlOps
  <2>3. \A k \in (from + 1)..(m - 1) : k \in (from + 1)..m
    OBVIOUS
  <2>4. m > from => m \in (from + 1)..m
    OBVIOUS
  <2>5. Found(evs, a)
    BY <1>1, <2>1, <2>3, <2>4 DEF Found, Searched, NoneHits, NoneEnds
  <2>6. LeavesNone(evs, a)
    BY <1>1, <2>1 DEF LeavesNone, Searched
  <2>7. GoodFind(evs, a) /\ GoodRest(evs, a) /\ GoodXml(evs, a)
    BY <1>1, <2>2, <2>5 DEF GoodFind, GoodRest, GoodXml
  <2> QED
    BY <2>6, <2>7 DEF Good, a
<1>3. CASE c.op \in RestOps
  <2>1. c.op \notin FindOps \cup XmlOps
    BY <1>3 DEF FindOps, RestOps, XmlOps
  <2>2. Gathered(evs, acc, c, from, m)
    BY <2>1 DEF SoFar, Gathered, Mapped, Ordered
  <2>3. GoodFind(evs, a) /\ GoodRest(evs, a) /\ GoodXml(evs, a) /\ LeavesNone(evs, a)
    BY <1>1, <2>1, <2>2 DEF GoodFind, GoodRest, GoodXml, LeavesNone, FindOps
  <2> QED
    BY <2>3 DEF Good, a
<1>4. CASE c.op \in XmlOps
  <2>1. c.op \notin FindOps \cup RestOps
    BY <1>4 DEF FindOps, RestOps, XmlOps
  <2>2. InOrder(acc, XmlOf(evs, from, m))
    BY <1>4 DEF SoFar, Rendered, Ordered
  <2>3. GoodFind(evs, a) /\ GoodRest(evs, a) /\ GoodXml(evs, a) /\ LeavesNone(evs, a)
    BY <1>1, <2>1, <2>2 DEF GoodFind, GoodRest, GoodXml, LeavesNone, FindOps
  <2> QED
    BY <2>3 DEF Good, a
<1> QED
  BY <1>2, <1>3, <1>4, CallsAssumption

\* A call that fails hands nothing over; write_xml leaves what it has written.
LEMMA ErrorIsGood ==
  ASSUME NEW evs, NEW c \in Calls, NEW from \in Nat, NEW m \in Nat, from <= m,
         NEW upto \in Nat, m <= upto, NEW acc, SoFar(evs, acc, c, from, m),
         c.op # "write_xml" => upto = m,
         NEW v, v = <<>> \/ (c.op = "write_xml" /\ v = acc)
  PROVE  Good(evs, AnswerOf(c, from, upto, "error", v))
<1> DEFINE a == AnswerOf(c, from, upto, "error", v)
<1>1. a.call = c /\ a.from = from /\ a.upto = upto /\ a.value = v /\ a.outcome = "error"
  BY DEF AnswerOf
<1> HIDE DEF a
<1>2. GoodFind(evs, a) /\ GoodRest(evs, a)
  BY <1>1 DEF GoodFind, GoodRest
<1>3. GoodXml(evs, a)
  <2>1. CASE v = <<>>
    BY <1>1, <2>1 DEF GoodXml
  <2>2. CASE c.op = "write_xml" /\ v = acc
    <3>1. InOrder(acc, XmlOf(evs, from, m))
      BY <2>2 DEF SoFar, Rendered, Ordered, XmlOps
    <3>2. m \in from..upto
      OBVIOUS
    <3> QED
      BY <1>1, <2>2, <3>1, <3>2 DEF GoodXml
  <2> QED
    BY <2>1, <2>2
<1>4. LeavesNone(evs, a)
  <2>1. CASE c.op = "find_attribute"
    <3>1. v = <<>> /\ upto = m
      BY <2>1
    <3>2. NoneHits(c, evs, from, m)
      BY <2>1 DEF SoFar, Searched, FindOps
    <3> QED
      BY <1>1, <3>1, <3>2 DEF LeavesNone
  <2>2. CASE c.op # "find_attribute"
    BY <1>1, <2>2 DEF LeavesNone
  <2> QED
    BY <2>1, <2>2
<1> QED
  BY <1>2, <1>3, <1>4 DEF Good, a

-----------------------------------------------------------------------------
(***************************************************************************)
(* The inductive invariant.                                                *)
(***************************************************************************)
\* The events behind Reach are not consumed, or consumed by the call in progress.
Reach == IF call = <<>> THEN taken ELSE began

TypeInv ==
  /\ stream \in Streams
  /\ taken \in 0..Len(Events)
  /\ IsList(answers)
  /\ call = <<>> \/ \E c \in Calls : call = <<c>>
  /\ call # <<>> => began \in 0..taken

\* Every call starts where the one before it ended.
Spans(as, reach) ==
  /\ \A i \in 1..Len(as) : as[i].from \in Nat /\ as[i].upto \in as[i].from..reach
  /\ \A i, j \in 1..Len(as) : i < j => as[i].upto <= as[j].from
  /\ \A k \in 1..reach : \E i \in 1..Len(as) : as[i].from < k /\ k <= as[i].upto
SpanInv == Spans(answers, Reach)

CallInv == call # <<>> => SoFar(Events, found, call[1], began, taken)

AllGood(evs, as) == \A i \in 1..Len(as) : Good(evs, as[i])
GoodInv == AllGood(Events, answers)

IInv == TypeInv /\ SpanInv /\ CallInv /\ GoodInv

LEMMA Interval ==
  ASSUME NEW x \in Nat, NEW r \in Nat, NEW u \in Nat, r <= u, NEW y \in x..r
  PROVE  y \in x..u /\ y <= r
OBVIOUS

Extended(t, s, x) == /\ Len(t) = Len(s) + 1
                     /\ \A i \in 1..Len(s) : t[i] = s[i]
                     /\ t[Len(s) + 1] = x

LEMMA AppendExtends ==
  ASSUME NEW s, IsList(s), NEW x
  PROVE  Extended(Append(s, x), s, x)
BY AppendList DEF Extended

LEMMA SpansGrow ==
  ASSUME NEW as, IsList(as), NEW reach \in Nat, Spans(as, reach),
         NEW a, a.from = reach, a.upto \in Nat, reach <= a.upto
  PROVE  Spans(Append(as, a), a.upto)
<1> DEFINE bs == Append(as, a)
           n == Len(as)
           upto == a.upto
<1>1. /\ Len(bs) = n + 1
      /\ \A i \in 1..n : bs[i] = as[i]
      /\ bs[n + 1] = a
  <2>1. Extended(bs, as, a)
    BY AppendExtends, Zenon
  <2> QED
    BY <2>1, Zenon DEF Extended
<1>2. n \in Nat /\ upto \in Nat
  BY ListLength
<1>3. /\ \A i \in 1..n : as[i].from \in Nat /\ as[i].upto \in as[i].from..reach
      /\ \A i, j \in 1..n : i < j => as[i].upto <= as[j].from
      /\ \A k \in 1..reach : \E i \in 1..n : as[i].from < k /\ k <= as[i].upto
  BY DEF Spans
<1> HIDE DEF bs, n
<1>4. \A i \in 1..Len(bs) : i \in 1..n \/ i = n + 1
  BY <1>1, <1>2
<1>5. \A i \in 1..n : i \in 1..Len(bs)
  BY <1>1, <1>2
<1>6. n + 1 \in 1..Len(bs)
  BY <1>1, <1>2
<1>7. ASSUME NEW i \in 1..Len(bs) PROVE bs[i].from \in Nat /\ bs[i].upto \in bs[i].from..upto
  <2>1. CASE i \in 1..n
    <3>1. as[i].from \in Nat /\ as[i].upto \in as[i].from..reach
      BY <1>3, <2>1
    <3>2. as[i].upto \in as[i].from..upto
      BY <1>2, <3>1, Interval
    <3> QED
      BY <1>1, <2>1, <3>1, <3>2
  <2>2. CASE i = n + 1
    BY <1>1, <1>2, <2>2
  <2> QED
    BY <1>4, <2>1, <2>2
<1>8. ASSUME NEW i \in 1..Len(bs), NEW j \in 1..Len(bs), i < j PROVE bs[i].upto <= bs[j].from
  <2>1. i \in 1..n
    BY <1>1, <1>2, <1>8
  <2>2. CASE j \in 1..n
    BY <1>1, <1>3, <1>8, <2>1, <2>2
  <2>3. CASE j = n + 1
    <3>1. as[i].from \in Nat /\ as[i].upto \in as[i].from..reach
      BY <1>3, <2>1
    <3>2. as[i].upto <= reach
      BY <1>2, <3>1, Interval
    <3> QED
      BY <1>1, <2>1, <2>3, <3>2
  <2> QED
    BY <1>4, <2>2, <2>3
<1>9. ASSUME NEW k \in 1..upto PROVE \E i \in 1..Len(bs) : bs[i].from < k /\ k <= bs[i].upto
  <2>1. CASE k <= reach
    <3>1. k \in 1..reach
      BY <2>1
    <3> QED
      BY <1>1, <1>3, <1>5, <3>1
  <2>2. CASE reach < k
    <3>1. bs[n + 1].from < k /\ k <= bs[n + 1].upto
      BY <1>1, <2>2
    <3> QED
      BY <1>6, <3>1
  <2> QED
    BY <2>1, <2>2
<1> QED
  BY <1>7, <1>8, <1>9 DEF Spans, bs

LEMMA GoodGrows ==
  ASSUME NEW evs, NEW as, IsList(as), AllGood(evs, as), NEW a, Good(evs, a)
  PROVE  AllGood(evs, Append(as, a))
<1> DEFINE bs == Append(as, a)
           n == Len(as)
<1>1. /\ Len(bs) = n + 1
      /\ \A i \in 1..n : bs[i] = as[i]
      /\ bs[n + 1] = a
  <2>1. Extended(bs, as, a)
    BY AppendExtends, Zenon
  <2> QED
    BY <2>1, Zenon DEF Extended
<1>2. n \in Nat
  BY ListLength
<1> HIDE DEF bs, n
<1>3. \A i \in 1..Len(bs) : i \in 1..n \/ i = n + 1
  BY <1>1, <1>2
<1>4. \A i \in 1..n : Good(evs, as[i])
  BY DEF AllGood, n
<1> QED
  BY <1>1, <1>3, <1>4, Zenon DEF AllGood, bs

LEMMA StreamFacts ==
  ASSUME TypeInv
  PROVE  /\ Len(Events) \in Nat
         /\ \A k \in 1..Len(Events) : IsList(Events[k].attributes)
<1>1. stream \in Streams
  BY DEF TypeInv
<1>2. IsList(stream.events) /\ \A k \in 1..Len(stream.events) : IsList(stream.events[k].attributes)
  BY <1>1, StreamsAssumption
<1> QED
  BY <1>2, ListLength DEF Events

\* A call in progress returns.
LEMMA ReturnKeeps ==
  ASSUME IInv, NEW c \in Calls, call = <<c>>, NEW outcome, NEW v, Return(outcome, v),
         stream' = stream, taken' \in taken..Len(Events),
         Good(Events, AnswerOf(c, began, taken', outcome, v))
  PROVE  IInv'
<1> DEFINE a == AnswerOf(c, began, taken', outcome, v)
<1>1. /\ stream \in Streams /\ taken \in 0..Len(Events) /\ IsList(answers)
      /\ call # <<>> /\ began \in 0..taken /\ Len(Events) \in Nat
  BY StreamFacts DEF IInv, TypeInv
<1>2. Reach = began
  BY <1>1 DEF Reach
<1>3. Spans(answers, began) /\ AllGood(Events, answers)
  BY <1>2 DEF IInv, SpanInv, GoodInv
<1>4. answers' = Append(answers, a)
  <2>1. call[1] = c
    OBVIOUS
  <2> QED
    BY <2>1, Zenon DEF Return, Answered, AnswerOf
<1>5. call' = <<>>
  BY DEF Return
<1>6. a.from = began /\ a.upto = taken'
  BY DEF AnswerOf
<1> HIDE DEF a
<1>7. Spans(answers', taken')
  <2>1. began \in Nat /\ a.upto \in Nat /\ began <= a.upto
    BY <1>1, <1>6
  <2>2. Spans(Append(answers, a), a.upto)
    BY <1>1, <1>3, <1>6, <2>1, SpansGrow
  <2> QED
    BY <1>4, <1>6, <2>2
<1>8. AllGood(Events, answers')
  <2>1. Good(Events, a)
    BY DEF a
  <2> QED
    BY <1>1, <1>3, <1>4, <2>1, GoodGrows
<1>9. Events' = Events
  BY DEF Events
<1>10. Reach' = taken'
  BY <1>5 DEF Reach
<1>11. SpanInv'
  BY <1>7, <1>10 DEF SpanInv
<1>12. GoodInv'
  BY <1>8, <1>9 DEF GoodInv
<1>13. TypeInv'
  <2>1. IsList(answers')
    BY <1>1, <1>4, AppendList
  <2>2. taken' \in 0..Len(Events)
    BY <1>1
  <2> QED
    BY <1>1, <1>5, <1>9, <2>1, <2>2 DEF TypeInv
<1>14. CallInv'
  BY <1>5 DEF CallInv
<1> QED
  BY <1>11, <1>12, <1>13, <1>14 DEF IInv

-----------------------------------------------------------------------------
(***************************************************************************)
(* The invariant holds, and every step keeps it.                           *)
(***************************************************************************)
LEMMA InitIInv == Init => IInv
<1> SUFFICES ASSUME Init PROVE IInv
  OBVIOUS
<1>1. stream \in Streams /\ taken = 0 /\ call = <<>> /\ answers = <<>>
  BY DEF Init, SourceInit, Fresh
<1>2. IsList(Events)
  BY <1>1, StreamsAssumption DEF Events
<1>3. Len(Events) \in Nat
  BY <1>2, ListLength
<1>4. IsList(answers) /\ Len(answers) = 0
  BY <1>1, EmptyList
<1>5. TypeInv
  BY <1>1, <1>3, <1>4 DEF TypeInv
<1>6. SpanInv
  BY <1>1, <1>4 DEF SpanInv, Spans, Reach
<1>7. GoodInv
  BY <1>4 DEF GoodInv, AllGood
<1> QED
  BY <1>1, <1>5, <1>6, <1>7 DEF IInv, CallInv

LEMMA BeginKeeps ==
  ASSUME IInv, NEW c \in Calls, Begin(c)
  PROVE  IInv'
<1>1. /\ call = <<>> /\ call' = <<c>> /\ began' = taken /\ found' = Opening(c)
      /\ stream' = stream /\ taken' = taken /\ answers' = answers
  BY DEF Begin
<1>2. Events' = Events
  BY <1>1 DEF Events
<1>3. TypeInv /\ taken \in Nat
  BY StreamFacts DEF IInv, TypeInv
<1>4. call' # <<>>
  BY <1>1
<1>5. TypeInv'
  <2>1. taken \in 0..taken
    BY <1>3
  <2> QED
    BY <1>1, <1>2, <1>3, <2>1 DEF TypeInv
<1>6. SpanInv'
  <2>1. Reach = taken
    BY <1>1 DEF Reach
  <2>2. Reach' = taken
    BY <1>1, <1>4 DEF Reach
  <2> QED
    BY <1>1, <2>1, <2>2 DEF IInv, SpanInv
<1>7. GoodInv'
  BY <1>1, <1>2 DEF IInv, GoodInv
<1>8. CallInv'
  <2>1. SoFar(Events, Opening(c), c, taken, taken)
    BY <1>3, Opened
  <2>2. call'[1] = c
    BY <1>1
  <2> QED
    BY <1>1, <1>2, <2>1, <2>2 DEF CallInv
<1> QED
  BY <1>5, <1>6, <1>7, <1>8 DEF IInv

LEMMA BeginFailsKeeps ==
  ASSUME IInv, NEW c \in Calls, BeginFails(c)
  PROVE  IInv'
<1> DEFINE a == AnswerOf(c, taken, taken, "error", <<>>)
<1>1. /\ call = <<>> /\ call' = <<>> /\ stream' = stream /\ taken' = taken
      /\ answers' = Append(answers, a)
  BY Zenon DEF BeginFails, Answered, AnswerOf
<1>2. Events' = Events
  BY <1>1 DEF Events
<1>3. TypeInv /\ taken \in Nat /\ IsList(answers)
  BY StreamFacts DEF IInv, TypeInv
<1>4. Reach = taken /\ Reach' = taken
  BY <1>1 DEF Reach
<1>5. Good(Events, a)
  <2>1. SoFar(Events, Opening(c), c, taken, taken)
    BY <1>3, Opened
  <2>2. taken <= taken
    BY <1>3
  <2> QED
    BY <1>3, <2>1, <2>2, ErrorIsGood
<1>6. a.from = taken /\ a.upto = taken
  BY DEF AnswerOf
<1> HIDE DEF a
<1>7. SpanInv'
  <2>1. taken <= taken
    BY <1>3
  <2>2. Spans(answers, taken)
    BY <1>4 DEF IInv, SpanInv
  <2>3. Spans(Append(answers, a), a.upto)
    BY <1>3, <1>6, <2>1, <2>2, SpansGrow
  <2> QED
    BY <1>1, <1>4, <1>6, <2>3 DEF SpanInv
<1>8. GoodInv'
  <2>1. AllGood(Events, answers)
    BY DEF IInv, GoodInv
  <2>2. AllGood(Events, Append(answers, a))
    BY <1>3, <1>5, <2>1, GoodGrows
  <2> QED
    BY <1>1, <1>2, <2>2 DEF GoodInv
<1>9. TypeInv'
  <2>1. IsList(answers')
    BY <1>1, <1>3, AppendList
  <2> QED
    BY <1>1, <1>2, <1>3, <2>1 DEF TypeInv
<1>10. CallInv'
  BY <1>1 DEF CallInv
<1> QED
  BY <1>7, <1>8, <1>9, <1>10 DEF IInv

\* What a call in progress knows of the event ahead.
LEMMA Delivered ==
  ASSUME IInv, NEW c \in Calls, call = <<c>>, Deliver
  PROVE  /\ taken \in Nat /\ began \in Nat /\ began <= taken
         /\ stream' = stream /\ taken' = taken + 1
         /\ taken + 1 \in 1..Len(Events) /\ Len(Events) \in Nat
         /\ Ahead = Events[taken + 1] /\ IsList(Events[taken + 1].attributes)
         /\ SoFar(Events, found, c, began, taken)
<1>1. /\ taken \in 0..Len(Events) /\ call # <<>> /\ began \in 0..taken
  BY DEF IInv, TypeInv
<1>2. Len(Events) \in Nat /\ \A k \in 1..Len(Events) : IsList(Events[k].attributes)
  BY StreamFacts DEF IInv
<1>3. taken < Len(Events) /\ taken' = taken + 1 /\ stream' = stream
  BY DEF Deliver, Events
<1>4. Ahead = Events[taken + 1]
  BY DEF Ahead, Events
<1>5. taken + 1 \in 1..Len(Events)
  BY <1>1, <1>2, <1>3
<1>6. SoFar(Events, found, c, began, taken)
  BY <1>1 DEF IInv, CallInv
<1> QED
  BY <1>1, <1>2, <1>3, <1>4, <1>5, <1>6

LEMMA UseKeeps ==
  ASSUME IInv, NEW c \in Calls, call = <<c>>, Use
  PROVE  IInv'
<1> DEFINE next == taken + 1
<1>1. /\ Deliver /\ ~Stops(c, Ahead) /\ found' = Collect(c, found, Ahead)
      /\ call' = call /\ began' = began /\ answers' = answers
  BY DEF Use
<1>2. /\ taken \in Nat /\ began \in Nat /\ began <= taken
      /\ stream' = stream /\ taken' = next
      /\ next \in 1..Len(Events) /\ Len(Events) \in Nat
      /\ Ahead = Events[next] /\ IsList(Events[next].attributes)
      /\ SoFar(Events, found, c, began, taken)
  BY <1>1, Delivered
<1>3. Events' = Events
  BY <1>2 DEF Events
<1>4. next = taken + 1
  OBVIOUS
<1> HIDE DEF next
<1>5. SoFar(Events, Collect(c, found, Events[next]), c, began, next)
  BY <1>1, <1>2, <1>4, CollectKeeps
<1>6. CallInv'
  <2>1. call'[1] = c
    BY <1>1
  <2> QED
    BY <1>1, <1>2, <1>3, <1>5, <2>1 DEF CallInv
<1>7. call # <<>>
  OBVIOUS
<1>8. Reach = began /\ Reach' = began
  BY <1>1, <1>7 DEF Reach
<1>9. SpanInv'
  BY <1>1, <1>8 DEF IInv, SpanInv
<1>10. GoodInv'
  BY <1>1, <1>3 DEF IInv, GoodInv
<1>11. TypeInv'
  <2>1. next \in 0..Len(Events) /\ began \in 0..next
    BY <1>2, <1>4
  <2> QED
    BY <1>1, <1>2, <1>3, <2>1 DEF IInv, TypeInv
<1> QED
  BY <1>6, <1>9, <1>10, <1>11 DEF IInv

LEMMA StopKeeps ==
  ASSUME IInv, NEW c \in Calls, call = <<c>>, Stop
  PROVE  IInv'
<1> DEFINE next == taken + 1
           v == Collect(c, found, Ahead)
<1>1. Deliver /\ Stops(c, Ahead) /\ Return("ok", v)
  BY DEF Stop
<1>2. /\ taken \in Nat /\ began \in Nat /\ began <= taken
      /\ stream' = stream /\ taken' = next
      /\ next \in 1..Len(Events) /\ Len(Events) \in Nat
      /\ Ahead = Events[next] /\ IsList(Events[next].attributes)
      /\ SoFar(Events, found, c, began, taken)
  BY <1>1, Delivered
<1>3. next = taken + 1
  OBVIOUS
<1> HIDE DEF next
<1>4. v = Collect(c, found, Events[next])
  BY <1>2
<1> HIDE DEF v
<1>5. next <= Len(Events)
  BY <1>2
<1>6. Good(Events, AnswerOf(c, began, next, "ok", v))
  BY <1>1, <1>2, <1>3, <1>4, <1>5, StopIsGood
<1>7. next \in taken..Len(Events)
  BY <1>2, <1>3
<1> QED
  BY <1>1, <1>2, <1>6, <1>7, ReturnKeeps

LEMMA AtEndKeeps ==
  ASSUME IInv, NEW c \in Calls, call = <<c>>, AtEnd
  PROVE  IInv'
<1>1. taken = Len(Events) /\ stream' = stream /\ taken' = taken /\ Return("ok", found)
  BY DEF AtEnd, End, Finish, Events
<1>2. call # <<>> /\ taken \in 0..Len(Events) /\ began \in 0..taken /\ Len(Events) \in Nat
  BY StreamFacts DEF IInv, TypeInv
<1>3. SoFar(Events, found, c, began, taken)
  BY <1>2 DEF IInv, CallInv
<1>4. taken \in Nat /\ began \in Nat /\ began <= taken
  BY <1>2
<1>5. Good(Events, AnswerOf(c, began, taken, "ok", found))
  BY <1>1, <1>3, <1>4, EndIsGood
<1>6. taken \in taken..Len(Events)
  BY <1>2
<1> QED
  BY <1>1, <1>5, <1>6, ReturnKeeps

LEMMA SourceFailsKeeps ==
  ASSUME IInv, NEW c \in Calls, call = <<c>>, SourceFails
  PROVE  IInv'
<1>1. stream' = stream /\ taken' = taken /\ Return("error", Kept)
  BY DEF SourceFails, Malformed, Finish, ReadFails
<1>2. call # <<>> /\ taken \in 0..Len(Events) /\ began \in 0..taken /\ Len(Events) \in Nat
  BY StreamFacts DEF IInv, TypeInv
<1>3. SoFar(Events, found, c, began, taken)
  BY <1>2 DEF IInv, CallInv
<1>4. taken \in Nat /\ began \in Nat /\ began <= taken /\ taken <= taken
  BY <1>2
<1>5. Kept = <<>> \/ (c.op = "write_xml" /\ Kept = found)
  BY DEF Kept, Operation
<1>6. Good(Events, AnswerOf(c, began, taken, "error", Kept))
  BY <1>3, <1>4, <1>5, ErrorIsGood
<1>7. taken \in taken..Len(Events)
  BY <1>2
<1> QED
  BY <1>1, <1>6, <1>7, ReturnKeeps

LEMMA SinkFailsKeeps ==
  ASSUME IInv, NEW c \in Calls, call = <<c>>, SinkFails
  PROVE  IInv'
<1> DEFINE next == taken + 1
<1>1. Deliver /\ c.op = "write_xml" /\ Return("error", Kept)
  BY DEF SinkFails, Operation
<1>2. /\ taken \in Nat /\ began \in Nat /\ began <= taken
      /\ stream' = stream /\ taken' = next
      /\ next \in 1..Len(Events) /\ Len(Events) \in Nat
      /\ SoFar(Events, found, c, began, taken)
  BY <1>1, Delivered
<1>3. next \in Nat /\ taken <= next /\ next \in taken..Len(Events)
  BY <1>2
<1> HIDE DEF next
<1>4. Kept = <<>> \/ (c.op = "write_xml" /\ Kept = found)
  BY DEF Kept, Operation
<1>5. Good(Events, AnswerOf(c, began, next, "error", Kept))
  BY <1>1, <1>2, <1>3, <1>4, ErrorIsGood
<1> QED
  BY <1>1, <1>2, <1>3, <1>5, ReturnKeeps

LEMMA StutterKeeps ==
  ASSUME IInv, UNCHANGED vars
  PROVE  IInv'
BY DEF vars, IInv, TypeInv, SpanInv, CallInv, GoodInv, Reach, Events

LEMMA NextKeeps == IInv /\ [Next]_vars => IInv'
<1> SUFFICES ASSUME IInv, [Next]_vars PROVE IInv'
  OBVIOUS
<1>1. CASE UNCHANGED vars
  BY <1>1, StutterKeeps
<1>2. CASE \E c \in Calls : Begin(c) \/ BeginFails(c)
  BY <1>2, BeginKeeps, BeginFailsKeeps
<1>3. CASE Progress
  <2>1. call # <<>>
    BY <1>3 DEF Progress, Use, Stop, AtEnd, SourceFails, SinkFails
  <2>2. PICK c \in Calls : call = <<c>>
    BY <2>1 DEF IInv, TypeInv
  <2> QED
    BY <1>3, <2>2, UseKeeps, StopKeeps, AtEndKeeps, SourceFailsKeeps, SinkFailsKeeps DEF Progress
<1> QED
  BY <1>1, <1>2, <1>3 DEF Next

\* The helpers keep their invariant: what a call in progress has is what its answer has to be made
\* of, the calls divide what was consumed, and every answer given is right.
THEOREM HelpersInvariant == Spec => []IInv
BY InitIInv, NextKeeps, PTL DEF Spec

-----------------------------------------------------------------------------
(***************************************************************************)
(* What it says of the answers.                                            *)
(***************************************************************************)
LEMMA JudgedIsGood ==
  ASSUME IInv, NEW ops, NEW a \in Judged(ops)
  PROVE  a.call.op \in ops /\ a.outcome = "ok" /\ Good(Events, a)
<1>1. /\ answers # <<>> /\ a = answers[Len(answers)]
      /\ a.call.op \in ops /\ a.outcome = "ok"
  BY DEF Judged
<1>2. IsList(answers) /\ AllGood(Events, answers)
  BY DEF IInv, TypeInv, GoodInv
<1>3. Len(answers) \in 1..Len(answers)
  <2> DEFINE n == Len(answers)
  <2>1. n \in Nat /\ n > 0
    BY <1>1, <1>2, ListLength
  <2> HIDE DEF n
  <2>2. n \in 1..n
    BY <2>1
  <2> QED
    BY <2>2 DEF n
<1> QED
  BY <1>1, <1>2, <1>3 DEF AllGood

LEMMA IInvFindsTheNext == IInv => FindsTheNext
BY JudgedIsGood DEF FindsTheNext, Good, GoodFind

LEMMA IInvTakesTheRest == IInv => TakesTheRest
BY JudgedIsGood DEF TakesTheRest, Good, GoodRest

LEMMA IInvSameXml == IInv => SameXml
<1> SUFFICES ASSUME IInv PROVE SameXml
  OBVIOUS
<1>1. \A i \in 1..Len(answers) : GoodXml(Events, answers[i])
  BY DEF IInv, GoodInv, AllGood, Good
<1> QED
  BY <1>1 DEF SameXml, GoodXml

LEMMA SearchesInARow ==
  ASSUME IInv, NEW c, c.op = "find_attribute", call = <<>>,
         \A i \in 1..Len(answers) : answers[i].call = c,
         NEW hits, hits = {i \in 1..Len(answers) : answers[i].value # <<>>}
  PROVE  /\ {answers[i].upto : i \in hits} = {k \in 1..taken : HasIt(c, Events[k])}
         /\ \A i, j \in hits : i < j => answers[i].upto < answers[j].upto
         /\ \A i \in hits : IsFrom(answers[i].value, c, Events[answers[i].upto].attributes)
<1> DEFINE I == 1..Len(answers)
           from(i) == answers[i].from
           upto(i) == answers[i].upto
<1>1. taken \in Nat /\ Reach = taken
  BY StreamFacts DEF IInv, TypeInv, Reach
<1>2. /\ \A i \in I : from(i) \in Nat /\ upto(i) \in from(i)..taken
      /\ \A i, j \in I : i < j => upto(i) <= from(j)
      /\ \A k \in 1..taken : \E i \in I : from(i) < k /\ k <= upto(i)
  BY <1>1 DEF IInv, SpanInv, Spans
<1>3. \A i \in I : LeavesNone(Events, answers[i]) /\ answers[i].call = c
  BY DEF IInv, GoodInv, AllGood, Good
<1>4. \A i \in I :
        /\ answers[i].value = <<>> => NoneHits(c, Events, from(i), upto(i))
        /\ answers[i].value # <<>> => /\ upto(i) > from(i)
                                      /\ NoneHits(c, Events, from(i), upto(i) - 1)
                                      /\ HasIt(c, Events[upto(i)])
                                      /\ IsFrom(answers[i].value, c, Events[upto(i)].attributes)
  BY <1>3 DEF LeavesNone
<1>5. \A e : Hit(c, e) <=> HasIt(c, e)
  BY DEF Hit
<1>6. /\ hits \subseteq I
      /\ \A i \in I : i \notin hits => answers[i].value = <<>>
      /\ \A i \in hits : answers[i].value # <<>>
  OBVIOUS
<1> HIDE DEF I, from, upto
<1>7. \A i \in I : upto(i) \in Nat /\ from(i) \in Nat /\ upto(i) <= taken
  <2>1. ASSUME NEW i \in I PROVE upto(i) \in Nat /\ from(i) \in Nat /\ upto(i) <= taken
    <3>1. from(i) \in Nat /\ upto(i) \in from(i)..taken
      BY <1>2
    <3> QED
      BY <1>1, <3>1
  <2> QED
    BY <2>1
<1>8. ASSUME NEW i \in hits PROVE upto(i) \in 1..taken /\ HasIt(c, Events[upto(i)])
  <2>1. i \in I /\ upto(i) > from(i) /\ HasIt(c, Events[upto(i)])
    BY <1>4, <1>6
  <2> QED
    BY <1>1, <1>7, <2>1
<1>9. ASSUME NEW k \in 1..taken, HasIt(c, Events[k]) PROVE \E i \in hits : upto(i) = k
  <2>1. PICK i \in I : from(i) < k /\ k <= upto(i)
    BY <1>2
  <2>2. from(i) \in Nat /\ upto(i) \in Nat /\ k \in Nat
    BY <1>7
  <2>3. Hit(c, Events[k])
    BY <1>5, <1>9
  <2>4. i \in hits
    <3> SUFFICES ASSUME i \notin hits PROVE FALSE
      OBVIOUS
    <3>1. NoneHits(c, Events, from(i), upto(i))
      BY <1>4, <1>6
    <3>2. k \in (from(i) + 1)..upto(i)
      BY <2>1, <2>2
    <3> QED
      BY <2>3, <3>1, <3>2 DEF NoneHits
  <2>5. NoneHits(c, Events, from(i), upto(i) - 1)
    BY <1>4, <1>6, <2>4
  <2>6. k \notin (from(i) + 1)..(upto(i) - 1)
    BY <2>3, <2>5 DEF NoneHits
  <2>7. upto(i) = k
    BY <2>1, <2>2, <2>6
  <2> QED
    BY <2>4, <2>7
<1>10. ASSUME NEW i \in hits, NEW j \in hits, i < j PROVE upto(i) < upto(j)
  <2>1. upto(i) <= from(j) /\ from(j) < upto(j)
    <3>1. i \in I /\ j \in I
      BY <1>6
    <3>2. from(j) < upto(j)
      <4>1. upto(j) > from(j)
        BY <1>4, <1>6, <3>1
      <4> QED
        BY <1>7, <3>1, <4>1
    <3>3. upto(i) <= from(j)
      BY <1>2, <1>10, <3>1
    <3> QED
      BY <3>2, <3>3
  <2>2. upto(i) \in Nat /\ upto(j) \in Nat /\ from(j) \in Nat
    BY <1>6, <1>7
  <2> QED
    BY <2>1, <2>2
<1>11. {upto(i) : i \in hits} = {k \in 1..taken : HasIt(c, Events[k])}
  BY <1>8, <1>9, Zenon
<1>12. \A i \in hits : IsFrom(answers[i].value, c, Events[upto(i)].attributes)
  BY <1>4, <1>6
<1> QED
  BY <1>10, <1>11, <1>12, Zenon DEF upto

LEMMA IInvRepeatedFind == IInv => RepeatedFindMissesNone
<1> DEFINE c == answers[1].call
           hits == {i \in 1..Len(answers) : answers[i].value # <<>>}
<1> SUFFICES ASSUME IInv, call = <<>>, c.op = "find_attribute",
                    \A i \in 1..Len(answers) : answers[i].call = c
             PROVE  /\ {answers[i].upto : i \in hits} = {k \in 1..taken : HasIt(c, Events[k])}
                    /\ \A i, j \in hits : i < j => answers[i].upto < answers[j].upto
                    /\ \A i \in hits : IsFrom(answers[i].value, c, Events[answers[i].upto].attributes)
  BY Zenon DEF RepeatedFindMissesNone
<1>1. hits = {i \in 1..Len(answers) : answers[i].value # <<>>}
  OBVIOUS
<1> HIDE DEF c, hits
<1> QED
  BY <1>1, SearchesInARow

\* A search answers with the next tag that has what it looks for, passes over none, and reads
\* nothing behind it or behind the end of the document: find_attribute and attributes_of, for any
\* document and any calls before it.
THEOREM HelpersFindTheNext == Spec => []FindsTheNext
BY HelpersInvariant, IInvFindsTheNext, PTL

\* The helpers that collect return at the end of the events only, and with everything that is
\* between the place where they began and that end, in order; into_map under the names of the tags, and each
\* attribute with the last of its values.
THEOREM HelpersTakeTheRest == Spec => []TakesTheRest
BY HelpersInvariant, IInvTakesTheRest, PTL

\* to_xml and write_xml render the same events, up to the end of the document, and a write_xml that
\* fails at any read or write has written a beginning of that.
THEOREM HelpersRenderTheSame == Spec => []SameXml
BY HelpersInvariant, IInvSameXml, PTL

\* find_attribute called over and over sees each tag that has the attribute once and in order,
\* however many calls fail on the way: what was consumed is divided among the calls without a gap,
\* and a call that fails has consumed no tag it looked for.
THEOREM HelpersMissNone == Spec => []RepeatedFindMissesNone
BY HelpersInvariant, IInvRepeatedFind, PTL
=============================================================================
