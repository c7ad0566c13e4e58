-------------------------- MODULE AbxElementProofs --------------------------
(***************************************************************************)
(* What a client is shown of an element, for any element and whatever the  *)
(* client asks of the values: its fields, each under a key of its own, in  *)
(* their order, and of each the visits that the type asked for calls for.  *)
(*                                                                         *)
(* The invariant has three parts.  IInv says of each source of keys, which *)
(* are the attributes, the groups and the text, what keeps its keys from   *)
(* those of the sources before it.  GInv says of the groups that they are  *)
(* the children grouped so far, one group for each name in the order in    *)
(* which the names first stand, and of what has been handed out that it is *)
(* the first fields.  VInv follows the visits of the last value.           *)
(***************************************************************************)
EXTENDS AbxElement, SequenceTheorems, WellFoundedInduction, TLAPS

Lists == /\ IsList(element.attributes) /\ IsList(element.children)
         /\ IsList(todo) /\ IsList(groups) /\ IsList(attrs) /\ IsList(shown)

\* Before the map is opened nothing has been handed out and there is no text yet.
Unopened == pc = "group" => shown = <<>> /\ text = <<>>

\* The attributes still to come are attributes, and few enough.
AttributesLeft ==
  /\ \A i \in 1..Len(attrs) : attrs[i].name \in NamesOf(element.attributes)
  /\ attrs # <<>> => Len(shown) + Len(attrs) <= Len(element.attributes)

\* The groups have names of their own, and none that has been handed out.
GroupsFresh ==
  /\ \A k \in 1..Len(groups) : groups[k][1] \notin NamesOf(element.attributes)
  /\ \A k \in 1..Len(groups), l \in 1..Len(groups) : groups[k][1] = groups[l][1] => k = l
  /\ \A k \in 1..Len(groups), i \in 1..Len(shown) : shown[i][1] # groups[k][1]

\* As long as the text is to come, no other key is called $text.
TextFresh ==
  text # <<>> =>
    /\ TEXT_FIELD \notin NamesOf(element.attributes)
    /\ \A k \in 1..Len(groups) : groups[k][1] # TEXT_FIELD
    /\ \A i \in 1..Len(shown) : shown[i][1] # TEXT_FIELD

IInv == Lists /\ Unopened /\ AttributesLeft /\ GroupsFresh /\ TextFresh /\ NoKeyTwice

-----------------------------------------------------------------------------
(***************************************************************************)
(* Lists of anything.                                                      *)
(***************************************************************************)
LEMMA ListOf ==
  ASSUME NEW S, NEW s \in Seq(S)
  PROVE  IsList(s)
<1>1. s \in [1..Len(s) -> S] /\ DOMAIN s = 1..Len(s) /\ Len(s) \in Nat
  BY LenProperties
<1>2. s \in [1..Len(s) -> Range(s)]
  BY <1>1 DEF Range
<1> QED
  BY <1>1, <1>2, SeqDef DEF IsList

LEMMA EmptyList == IsList(<<>>) /\ Len(<<>>) = 0
  BY EmptySeq DEF IsList

LEMMA Singleton ==
  ASSUME NEW x
  PROVE  IsList(<<x>>) /\ Len(<<x>>) = 1 /\ <<x>>[1] = x
<1>1. <<x>> \in Seq({x})
  OBVIOUS
<1> QED
  BY <1>1, ListOf

LEMMA SameList ==
  ASSUME NEW s, IsList(s), NEW t, IsList(t), Len(s) = Len(t),
         \A i \in 1..Len(s) : s[i] = t[i]
  PROVE  s = t
<1>1. s \in Seq(Range(s) \cup Range(t)) /\ t \in Seq(Range(s) \cup Range(t))
  BY SeqMonotonic DEF IsList
<1> QED
  BY <1>1, SeqEqual

LEMMA ListLength ==
  ASSUME NEW s, IsList(s)
  PROVE  Len(s) \in Nat /\ (s # <<>> => Len(s) > 0)
  BY LenProperties, EmptySeq DEF IsList

LEMMA OneItem ==
  ASSUME NEW s, IsList(s), Len(s) <= 1
  PROVE  s # <<>> => s = <<s[1]>> /\ Len(s) = 1
<1> SUFFICES ASSUME s # <<>> PROVE s = <<s[1]>> /\ Len(s) = 1
  OBVIOUS
<1>1. Len(s) = 1
  BY ListLength
<1> DEFINE one == <<s[1]>>
<1>2. IsList(one) /\ Len(one) = 1 /\ one[1] = s[1]
  BY Singleton
<1> HIDE DEF one
<1>3. s = one
  BY <1>1, <1>2, SameList
<1> QED
  BY <1>1, <1>3 DEF one

LEMMA ItemInRange ==
  ASSUME NEW s, IsList(s), NEW i \in 1..Len(s)
  PROVE  s[i] \in Range(s)
<1>1. s \in Seq(Range(s))
  BY DEF IsList
<1> QED
  BY <1>1, ElementOfSeq

LEMMA AppendList ==
  ASSUME NEW s, IsList(s), NEW x
  PROVE  /\ IsList(Append(s, x))
         /\ Len(Append(s, x)) = Len(s) + 1
         /\ \A i \in 1..Len(s) : Append(s, x)[i] = s[i]
         /\ Append(s, x)[Len(s) + 1] = x
<1> DEFINE S == Range(s) \cup {x}
<1>1. s \in Seq(S)
  BY SeqMonotonic DEF IsList
<1>2. x \in S
  OBVIOUS
<1> HIDE DEF S
<1>3. /\ Append(s, x) \in Seq(S)
      /\ Len(Append(s, x)) = Len(s) + 1
      /\ \A i \in 1..Len(s) : Append(s, x)[i] = s[i]
      /\ Append(s, x)[Len(s) + 1] = x
  BY <1>1, <1>2, AppendProperties
<1>4. IsList(Append(s, x))
  BY <1>3, ListOf
<1> QED
  BY <1>3, <1>4

LEMMA TailList ==
  ASSUME NEW s, IsList(s), s # <<>>
  PROVE  /\ IsList(Tail(s))
         /\ Len(Tail(s)) = Len(s) - 1
         /\ \A i \in 1..Len(Tail(s)) : Tail(s)[i] = s[i + 1]
         /\ Head(s) = s[1]
<1>1. s \in Seq(Range(s))
  BY DEF IsList
<1>2. Head(s) = s[1]
  BY <1>1
<1> QED
  BY <1>1, <1>2, HeadTailProperties, ListOf

-----------------------------------------------------------------------------
\* Nothing has been handed out and nothing is grouped in an initial state.
LEMMA InitKeys == Init => IInv
<1> SUFFICES ASSUME Init PROVE IInv
  OBVIOUS
<1>1. IsList(element.attributes) /\ IsList(element.children)
  BY ElementsAssumption DEF Init, ElementData
<1>2. Lists
  BY <1>1, EmptyList DEF Init, Lists
<1>3. Len(element.attributes) \in Nat /\ Len(shown) = 0
  BY <1>1, ListLength, EmptyList DEF Init
<1>4. AttributesLeft
  BY <1>3 DEF Init, AttributesLeft, NamesOf
<1>5. Len(groups) = 0
  BY EmptyList DEF Init
<1>6. GroupsFresh /\ TextFresh /\ Unopened /\ NoKeyTwice
  BY <1>3, <1>5 DEF Init, GroupsFresh, TextFresh, Unopened, NoKeyTwice
<1> QED
  BY <1>2, <1>4, <1>6 DEF IInv

\* A child enters a group that has its name, or opens one under a name no group has.
LEMMA GroupKeys == IInv /\ Group => IInv'
<1> SUFFICES ASSUME IInv, Group PROVE IInv'
  OBVIOUS
<1>1. /\ UNCHANGED <<element, pc, attrs, text, shown>>
      /\ pc = "group" /\ todo # <<>> /\ todo' = Tail(todo)
  BY DEF Group
<1>2. IsList(groups) /\ IsList(todo) /\ Len(groups) \in Nat
  BY ListLength DEF IInv, Lists
<1>3. IsList(todo')
  BY <1>1, <1>2, TailList
<1>4. Len(shown) = 0 /\ text = <<>>
  BY <1>1, EmptyList DEF IInv, Unopened
<1>5. IsList(groups') /\ GroupsFresh'
  <2>1. CASE UNCHANGED groups
    BY <2>1, <1>1, <1>2 DEF IInv, GroupsFresh
  <2>2. CASE /\ ~Shadowed(Child[1]) /\ GroupsOf(Child[1]) = {}
             /\ groups' = Append(groups, NewGroup(Child[1], Child[2]))
    <3>1. /\ IsList(groups') /\ Len(groups') = Len(groups) + 1
          /\ \A k \in 1..Len(groups) : groups'[k] = groups[k]
          /\ groups'[Len(groups) + 1] = NewGroup(Child[1], Child[2])
      BY <2>2, <1>2, AppendList
    <3>2. groups'[Len(groups) + 1][1] = Child[1]
      BY <3>1 DEF NewGroup
    <3>3. \A k \in 1..Len(groups) : groups[k][1] # Child[1]
      BY <2>2 DEF GroupsOf
    <3>4. Child[1] \notin NamesOf(element.attributes)
      BY <2>2 DEF Shadowed
    <3>5. \A k \in 1..Len(groups') : groups'[k][1] \notin NamesOf(element.attributes)
      BY <3>1, <3>2, <3>4, <1>2 DEF IInv, GroupsFresh
    <3>6. \A k \in 1..Len(groups'), l \in 1..Len(groups') : groups'[k][1] = groups'[l][1] => k = l
      BY <3>1, <3>2, <3>3, <1>2 DEF IInv, GroupsFresh
    <3> QED
      BY <3>1, <3>5, <3>6, <1>1, <1>4 DEF GroupsFresh
  <2>3. CASE \E k \in GroupsOf(Child[1]) :
               groups' = [groups EXCEPT ![k] = <<Child[1], WithItem(groups[k][2], Child[2])>>]
    <3>1. PICK k \in GroupsOf(Child[1]) :
               groups' = [groups EXCEPT ![k] = <<Child[1], WithItem(groups[k][2], Child[2])>>]
      BY <2>3
    <3>2. k \in 1..Len(groups) /\ groups[k][1] = Child[1]
      BY DEF GroupsOf
    <3> DEFINE group == <<Child[1], WithItem(groups[k][2], Child[2])>>
    <3>3. group[1] = Child[1]
      OBVIOUS
    <3> HIDE DEF group
    <3>4. groups' = [groups EXCEPT ![k] = group]
      BY <3>1 DEF group
    <3> DEFINE S == Range(groups) \cup {group}
    <3>5. groups \in Seq(S) /\ group \in S
      BY <1>2, SeqMonotonic DEF IsList
    <3> HIDE DEF S
    <3>6. /\ groups' \in Seq(S) /\ Len(groups') = Len(groups)
          /\ \A i \in 1..Len(groups) : groups'[i] = IF i = k THEN group ELSE groups[i]
      BY <3>2, <3>4, <3>5, ExceptSeq
    <3>7. \A i \in 1..Len(groups) : groups'[i][1] = groups[i][1]
      BY <3>2, <3>3, <3>6
    <3>8. IsList(groups')
      BY <3>6, ListOf
    <3> QED
      BY <3>6, <3>7, <3>8, <1>1, <1>4 DEF IInv, GroupsFresh
  <2> QED
    BY <2>1, <2>2, <2>3 DEF Group
<1>6. Lists' /\ AttributesLeft' /\ TextFresh' /\ Unopened' /\ NoKeyTwice'
  BY <1>1, <1>3, <1>4, <1>5
  DEF IInv, Lists, AttributesLeft, TextFresh, Unopened, NoKeyTwice, NamesOf
<1> QED
  BY <1>5, <1>6 DEF IInv

\* The text comes along only if nothing else is called $text.
LEMMA VisitMapKeys == IInv /\ VisitMap => IInv'
<1> SUFFICES ASSUME IInv, VisitMap PROVE IInv'
  OBVIOUS
<1>1. /\ UNCHANGED <<element, todo, groups, attrs, shown>>
      /\ pc = "group" /\ pc' = "key"
      /\ text' = IF TextShadowed THEN <<>> ELSE element.text
  BY DEF VisitMap
<1>2. Len(shown) = 0
  BY <1>1, EmptyList DEF IInv, Unopened
<1>3. text' # <<>> => /\ TEXT_FIELD \notin NamesOf(element.attributes)
                      /\ \A k \in 1..Len(groups) : groups[k][1] # TEXT_FIELD
  BY <1>1 DEF TextShadowed, GroupsOf
<1>4. TextFresh'
  BY <1>1, <1>2, <1>3 DEF TextFresh
<1>5. Lists' /\ Unopened' /\ AttributesLeft' /\ GroupsFresh' /\ NoKeyTwice'
  BY <1>1 DEF IInv, Lists, Unopened, AttributesLeft, GroupsFresh, NoKeyTwice
<1> QED
  BY <1>4, <1>5 DEF IInv

\* What handing out a key does to the list of keys.
LEMMA HandOutKeys ==
  ASSUME NEW key, NEW value, IInv, HandOut(key, value), pc = "key"
  PROVE  /\ UNCHANGED <<element, todo>>
         /\ pc' = "value"
         /\ IsList(shown')
         /\ Len(shown) \in Nat /\ Len(shown') = Len(shown) + 1
         /\ \A i \in 1..Len(shown) : shown'[i] = shown[i]
         /\ shown'[Len(shown) + 1][1] = key
         /\ shown'[Len(shown) + 1] = <<key, value>>
<1>1. /\ shown' = Append(shown, <<key, value>>)
      /\ UNCHANGED <<element, todo>> /\ pc' = "value"
  BY DEF HandOut
<1>2. IsList(shown)
  BY DEF IInv, Lists
<1>3. /\ IsList(shown') /\ Len(shown') = Len(shown) + 1
      /\ \A i \in 1..Len(shown) : shown'[i] = shown[i]
      /\ shown'[Len(shown) + 1] = <<key, value>>
  BY <1>1, <1>2, AppendList
<1> QED
  BY <1>1, <1>2, <1>3, ListLength

\* An attribute may repeat one, and takes no name of a group or of the text.
LEMMA NextAttributeKeys == IInv /\ NextAttribute => IInv'
<1> SUFFICES ASSUME IInv, NextAttribute PROVE IInv'
  OBVIOUS
<1> DEFINE key == Head(attrs).name
<1>1. /\ pc = "key" /\ attrs # <<>> /\ attrs' = Tail(attrs) /\ UNCHANGED <<groups, text>>
      /\ HandOut(key, Attr(Head(attrs)))
  BY DEF NextAttribute
<1>2. IsList(attrs) /\ Len(attrs) \in Nat /\ Len(attrs) > 0
  BY <1>1, ListLength DEF IInv, Lists
<1>3. /\ IsList(attrs') /\ Len(attrs') = Len(attrs) - 1
      /\ \A i \in 1..Len(attrs') : attrs'[i] = attrs[i + 1]
      /\ Head(attrs) = attrs[1]
  BY <1>1, <1>2, TailList
<1>4. key \in NamesOf(element.attributes)
  BY <1>2, <1>3 DEF IInv, AttributesLeft
<1> HIDE DEF key
<1>5. /\ UNCHANGED <<element, todo>> /\ pc' = "value" /\ IsList(shown')
      /\ Len(shown) \in Nat /\ Len(shown') = Len(shown) + 1
      /\ \A i \in 1..Len(shown) : shown'[i] = shown[i]
      /\ shown'[Len(shown) + 1][1] = key
  BY <1>1, HandOutKeys
<1>6. Len(element.attributes) \in Nat
  BY ListLength DEF IInv, Lists
<1>7. Len(shown) + Len(attrs) <= Len(element.attributes)
  BY <1>1 DEF IInv, AttributesLeft
<1>8. AttributesLeft'
  <2>1. \A i \in 1..Len(attrs') : attrs'[i].name \in NamesOf(element.attributes)
    BY <1>2, <1>3 DEF IInv, AttributesLeft
  <2> QED
    BY <2>1, <1>2, <1>3, <1>5, <1>6, <1>7 DEF AttributesLeft
<1>9. GroupsFresh'
  <2>1. \A k \in 1..Len(groups) : groups[k][1] # key
    BY <1>4 DEF IInv, GroupsFresh
  <2> QED
    BY <2>1, <1>1, <1>5 DEF IInv, GroupsFresh
<1>10. TextFresh'
  BY <1>1, <1>4, <1>5 DEF IInv, TextFresh
<1>11. NoKeyTwice'
  BY <1>2, <1>5, <1>6, <1>7 DEF IInv, NoKeyTwice
<1>12. Lists' /\ Unopened'
  BY <1>1, <1>3, <1>5 DEF IInv, Lists, Unopened
<1> QED
  BY <1>8, <1>9, <1>10, <1>11, <1>12 DEF IInv

\* A group's name is no other group's, no attribute's, and not $text while there is text.
LEMMA NextGroupKeys == IInv /\ NextGroup => IInv'
<1> SUFFICES ASSUME IInv, NextGroup PROVE IInv'
  OBVIOUS
<1> DEFINE key == Head(groups)[1]
<1>1. /\ pc = "key" /\ attrs = <<>> /\ groups # <<>> /\ groups' = Tail(groups)
      /\ UNCHANGED <<attrs, text>>
      /\ HandOut(key, Children(Head(groups)[2]))
  BY DEF NextGroup
<1>2. IsList(groups) /\ Len(groups) \in Nat /\ Len(groups) > 0
  BY <1>1, ListLength DEF IInv, Lists
<1>3. /\ IsList(groups') /\ Len(groups') = Len(groups) - 1
      /\ \A k \in 1..Len(groups') : groups'[k] = groups[k + 1]
      /\ Head(groups) = groups[1]
  BY <1>1, <1>2, TailList
<1>4. key = groups[1][1]
  BY <1>3
<1> HIDE DEF key
<1>5. /\ UNCHANGED <<element, todo>> /\ pc' = "value" /\ IsList(shown')
      /\ Len(shown) \in Nat /\ Len(shown') = Len(shown) + 1
      /\ \A i \in 1..Len(shown) : shown'[i] = shown[i]
      /\ shown'[Len(shown) + 1][1] = key
  BY <1>1, HandOutKeys
<1>6. \A k \in 1..Len(groups') : groups'[k][1] # key
  BY <1>2, <1>3, <1>4 DEF IInv, GroupsFresh
<1>7. \A i \in 1..Len(shown) : shown[i][1] # key
  BY <1>2, <1>4 DEF IInv, GroupsFresh
<1>8. GroupsFresh'
  <2>1. \A k \in 1..Len(groups') : groups'[k][1] \notin NamesOf(element.attributes)
    BY <1>2, <1>3 DEF IInv, GroupsFresh
  <2>2. \A k \in 1..Len(groups'), l \in 1..Len(groups') : groups'[k][1] = groups'[l][1] => k = l
    BY <1>2, <1>3 DEF IInv, GroupsFresh
  <2>3. \A k \in 1..Len(groups'), i \in 1..Len(shown) : shown[i][1] # groups'[k][1]
    BY <1>2, <1>3 DEF IInv, GroupsFresh
  <2>4. \A k \in 1..Len(groups'), i \in 1..Len(shown') : shown'[i][1] # groups'[k][1]
    BY <2>3, <1>5, <1>6
  <2> QED
    BY <2>1, <2>2, <2>4, <1>5 DEF GroupsFresh
<1>9. TextFresh'
  BY <1>1, <1>2, <1>3, <1>4, <1>5 DEF IInv, TextFresh
<1>10. NoKeyTwice'
  <2> SUFFICES ASSUME NEW i \in 1..Len(shown'), NEW j \in 1..Len(shown'),
                      i < j, shown'[i][1] = shown'[j][1]
               PROVE  j <= Len(element.attributes)
    BY <1>5 DEF NoKeyTwice
  <2>1. i \in 1..Len(shown) /\ shown'[i] = shown[i]
    BY <1>5
  <2>2. CASE j \in 1..Len(shown)
    <3>1. shown'[j] = shown[j]
      BY <1>5, <2>2
    <3> QED
      BY <2>1, <2>2, <3>1 DEF IInv, NoKeyTwice
  <2>3. CASE j = Len(shown) + 1
    BY <1>5, <1>7, <2>1, <2>3
  <2> QED
    BY <1>5, <2>2, <2>3
<1>11. Len(attrs) = 0
  BY <1>1, EmptyList
<1>12. Lists' /\ Unopened' /\ AttributesLeft'
  BY <1>1, <1>3, <1>5, <1>11 DEF IInv, Lists, Unopened, AttributesLeft
<1> QED
  BY <1>8, <1>9, <1>10, <1>12 DEF IInv

\* The text is handed out under a name that nothing else has.
LEMMA NextTextKeys == IInv /\ NextText => IInv'
<1> SUFFICES ASSUME IInv, NextText PROVE IInv'
  OBVIOUS
<1>1. /\ pc = "key" /\ attrs = <<>> /\ groups = <<>> /\ text # <<>> /\ text' = <<>>
      /\ UNCHANGED <<groups, attrs>>
      /\ HandOut(TEXT_FIELD, Text(text[1]))
  BY DEF NextText
<1>2. /\ UNCHANGED <<element, todo>> /\ pc' = "value" /\ IsList(shown')
      /\ Len(shown) \in Nat /\ Len(shown') = Len(shown) + 1
      /\ \A i \in 1..Len(shown) : shown'[i] = shown[i]
      /\ shown'[Len(shown) + 1][1] = TEXT_FIELD
  BY <1>1, HandOutKeys
<1>3. \A i \in 1..Len(shown) : shown[i][1] # TEXT_FIELD
  BY <1>1 DEF IInv, TextFresh
<1>4. NoKeyTwice'
  BY <1>2, <1>3 DEF IInv, NoKeyTwice
<1>5. Len(groups) = 0 /\ Len(attrs) = 0
  BY <1>1, EmptyList
<1>6. Lists' /\ Unopened' /\ AttributesLeft' /\ GroupsFresh' /\ TextFresh'
  BY <1>1, <1>2, <1>5 DEF IInv, Lists, Unopened, AttributesLeft, GroupsFresh, TextFresh
<1> QED
  BY <1>4, <1>6 DEF IInv

\* No other step touches what IInv is about, but to leave "group" behind.
LEMMA OtherKeys ==
  ASSUME IInv, pc' = "group" => pc = "group",
         UNCHANGED <<element, todo, groups, attrs, text, shown>>
  PROVE  IInv'
<1>1. Lists' /\ Unopened' /\ TextFresh' /\ NoKeyTwice'
  BY DEF IInv, Lists, Unopened, TextFresh, NoKeyTwice
<1>2. AttributesLeft' /\ GroupsFresh'
  BY DEF IInv, AttributesLeft, GroupsFresh
<1> QED
  BY <1>1, <1>2 DEF IInv

\* Every step keeps the invariant.
LEMMA NextKeys == IInv /\ [Next]_vars => IInv'
<1> SUFFICES ASSUME IInv, [Next]_vars PROVE IInv'
  OBVIOUS
<1>1. CASE Group
  BY <1>1, GroupKeys
<1>2. CASE VisitMap
  BY <1>2, VisitMapKeys
<1>3. CASE NextAttribute
  BY <1>3, NextAttributeKeys
<1>4. CASE NextGroup
  BY <1>4, NextGroupKeys
<1>5. CASE NextText
  BY <1>5, NextTextKeys
<1>6. CASE NoKey
  BY <1>6, OtherKeys DEF NoKey
<1>7. CASE VisitSome
  BY <1>7, OtherKeys DEF VisitSome
<1>8. CASE VisitSeq
  BY <1>8, OtherKeys DEF VisitSeq
<1>9. CASE VisitOnce
  BY <1>9, OtherKeys DEF VisitOnce
<1>10. CASE NextElement
  BY <1>10, OtherKeys DEF NextElement
<1>11. CASE NoElement
  BY <1>11, OtherKeys DEF NoElement
<1>12. CASE Refuse
  BY <1>12, OtherKeys DEF Refuse
<1>13. CASE UNCHANGED vars
  BY <1>13, OtherKeys DEF vars
<1> QED
  BY <1>1, <1>2, <1>3, <1>4, <1>5, <1>6, <1>7, <1>8, <1>9, <1>10, <1>11, <1>12, <1>13
  DEF Next, NextKey, NextValue

\* No key is handed out twice, but for repeated attributes, for every element and whatever
\* the client asks (element.rs:61-78, 113-129, 141-158).
THEOREM ElementNoKeyTwice == Spec => []NoKeyTwice
<1>1. IInv => NoKeyTwice
  BY DEF IInv
<1> QED
  BY <1>1, InitKeys, NextKeys, PTL DEF Spec
-----------------------------------------------------------------------------
(***************************************************************************)
(* The fields: what of the element has been grouped and handed out.        *)
(***************************************************************************)
\* How many children have been grouped.
Grouped == Len(element.children) - Len(todo)

\* The children and the attributes that are left are the last of them.
LeftOvers ==
  /\ element \in Elements /\ request \in Requests
  /\ Len(todo) <= Len(element.children)
  /\ \A i \in 1..Len(todo) : todo[i] = element.children[Grouped + i]
  /\ pc # "group" => todo = <<>>
  /\ Len(attrs) <= Len(element.attributes)
  /\ \A i \in 1..Len(attrs) :
       attrs[i] = element.attributes[Len(element.attributes) - Len(attrs) + i]
  /\ pc = "group" => attrs = element.attributes

\* The children of a group are a list.
ItemLists ==
  /\ \A k \in 1..Len(groups) : IsList(groups[k][2])
  /\ \A i \in 1..Len(shown) : shown[i][2].kind = "children" => IsList(shown[i][2].of)

\* Each child grouped so far is in a group, unless an attribute has its name.
Covered ==
  pc = "group" => \A j \in 1..Grouped : Shadowed(Name(j)) \/ GroupsOf(Name(j)) # {}

\* The text is what the field of the text will be, and it goes last.
TextLeft ==
  pc # "group" => text = FieldText \/ (text = <<>> /\ attrs = <<>> /\ groups = <<>>)

\* p says where the first child of every group stands: the last groups are still to be
\* handed out, and what has been handed out are the first fields.
FieldsShown(p) ==
  /\ InOrder(p, FirstPlaces(Grouped))
  /\ Len(p) <= Grouped /\ Len(groups) <= Len(p)
  /\ pc = "group" \/ attrs # <<>> => Len(groups) = Len(p)
  /\ \A k \in 1..Len(groups) :
       IsGroup(groups[k][1], groups[k][2], p[Len(p) - Len(groups) + k], Grouped)
  /\ pc # "group" => Len(shown) = (Len(element.attributes) - Len(attrs))
                                    + (Len(p) - Len(groups)) + (Len(FieldText) - Len(text))
  /\ \A i \in 1..Len(shown) : IsField(shown[i], i, p)

FieldsInv == \E m \in 0..Len(element.children) :
               \E p \in [1..m -> 1..Len(element.children)] : FieldsShown(p)

GInv == LeftOvers /\ ItemLists /\ Covered /\ TextLeft /\ FieldsInv

(***************************************************************************)
(* The visits: what the client has been shown of the last value.           *)
(***************************************************************************)
LastValue == shown[Len(shown)][2]

\* Before any visit the client asks for what is inside of the Options it has asked for.
ValueInv ==
  pc = "value" =>
    /\ shown # <<>> /\ pending = <<LastValue>> /\ visits = <<>>
    /\ \E k \in 1..Len(request) : /\ asked = SubSeq(request, k, Len(request))
                                  /\ \A j \in 1..(k - 1) : request[j] = "option"

\* The client asks for a Vec of what it asks for at k + 1.
IsVec(k) ==
  /\ Inside(k) /\ request[k] = "seq" /\ Head(asked) = request[k + 1]
  /\ \A i \in 1..Len(visits) : visits[i] = VisitOfElement(LastValue.of[i], request[k + 1])

\* Of the children of a Vec, the first have been visited and the others are to come.
ItemsInv ==
  pc = "items" =>
    /\ shown # <<>> /\ LastValue.kind = "children"
    /\ IsList(iter) /\ IsList(visits)
    /\ Len(visits) + Len(iter) = Len(LastValue.of)
    /\ \A i \in 1..Len(iter) : iter[i] = LastValue.of[Len(visits) + i]
    /\ \E k \in 1..(Len(request) - 1) : IsVec(k)

\* The visits of a value, once it has been deserialized.
Visited ==
  \/ IsNull(LastValue)
  \/ \E k \in 1..Len(request) :
       /\ Inside(k)
       /\ IF LastValue.kind = "children" /\ request[k] = "seq"
          THEN /\ k + 1 \in 1..Len(request)
               /\ visits = [i \in 1..Len(LastValue.of) |->
                              VisitOfElement(LastValue.of[i], request[k + 1])]
          ELSE visits = <<VisitOfValue(LastValue, request[k])>>

KeyInv == pc = "key" /\ shown # <<>> => Visited

\* The children that are still to be visited are elements, and a value waits only in between
\* its key and its visits.
Waiting == /\ \A i \in 1..Len(iter) : ElementData(iter[i])
           /\ pc \in {"group", "key", "items", "done"} => pending = <<>>
           /\ pc \in {"group", "key", "value", "items", "done", "refused"}
           /\ pc = "refused" => shown # <<>>

\* There are no more keys when there is nothing left to hand out.
Finished == pc = "done" => attrs = <<>> /\ groups = <<>> /\ text = <<>>

VInv == ValueInv /\ ItemsInv /\ KeyInv /\ Waiting /\ Finished

EInv == IInv /\ GInv /\ VInv
-----------------------------------------------------------------------------
(***************************************************************************)
(* Lemmas about the fields.                                                *)
(***************************************************************************)
\* What a list of numbers in order is.
LEMMA NoneInOrder == \A p : p \in [1..0 -> {}] => InOrder(p, {})
  BY DEF InOrder

\* A number greater than all others goes behind them.
LEMMA OneMoreInOrder ==
  ASSUME NEW m \in Nat, NEW n \in Nat, NEW p \in [1..m -> 1..n], NEW S, InOrder(p, S),
         NEW r \in [1..(m + 1) -> 1..(n + 1)], \A i \in 1..m : r[i] = p[i], r[m + 1] = n + 1
  PROVE  InOrder(r, S \cup {n + 1})
<1>1. DOMAIN p = 1..m /\ DOMAIN r = 1..(m + 1)
  OBVIOUS
<1>2. \A i \in 1..m : p[i] \in 1..n
  OBVIOUS
<1>3. \A i, j \in DOMAIN r : i < j => r[i] < r[j]
  <2> SUFFICES ASSUME NEW i \in 1..(m + 1), NEW j \in 1..(m + 1), i < j PROVE r[i] < r[j]
    BY <1>1
  <2>1. i \in 1..m /\ r[i] = p[i]
    OBVIOUS
  <2>2. CASE j = m + 1
    BY <2>1, <2>2, <1>2
  <2>3. CASE j \in 1..m
    BY <2>1, <2>3, <1>1 DEF InOrder
  <2> QED
    BY <2>2, <2>3
<1>4. S = {p[i] : i \in 1..m}
  BY <1>1 DEF InOrder
<1>5. S \cup {n + 1} = {r[i] : i \in 1..(m + 1)}
  <2>1. \A x \in S : \E i \in 1..(m + 1) : x = r[i]
    BY <1>4
  <2>2. \A i \in 1..(m + 1) : r[i] \in S \cup {n + 1}
    <3> SUFFICES ASSUME NEW i \in 1..(m + 1) PROVE r[i] \in S \cup {n + 1}
      OBVIOUS
    <3>1. CASE i = m + 1
      BY <3>1
    <3>2. CASE i \in 1..m
      BY <3>2, <1>4
    <3> QED
      BY <3>1, <3>2
  <2> QED
    BY <2>1, <2>2
<1> QED
  BY <1>1, <1>3, <1>5 DEF InOrder

\* Among one child more there is one place more, or the same.
LEMMA PlacesGrow ==
  ASSUME NEW n \in Nat, NEW name
  PROVE  /\ Name(n + 1) = name => Places(name, n + 1) = Places(name, n) \cup {n + 1}
         /\ Name(n + 1) # name => Places(name, n + 1) = Places(name, n)
  BY DEF Places

LEMMA FirstPlacesGrow ==
  ASSUME NEW n \in Nat
  PROVE  LET new == /\ ~Shadowed(Name(n + 1))
                    /\ \A j \in 1..n : Name(j) # Name(n + 1)
         IN  /\ new => FirstPlaces(n + 1) = FirstPlaces(n) \cup {n + 1}
             /\ ~new => FirstPlaces(n + 1) = FirstPlaces(n)
<1>1. 1..(n + 1) = (1..n) \cup {n + 1} /\ (n + 1) - 1 = n /\ n + 1 \notin 1..n
  OBVIOUS
<1>2. \A i : i \in FirstPlaces(n + 1) <=>
               \/ i \in FirstPlaces(n)
               \/ /\ i = n + 1 /\ ~Shadowed(Name(n + 1))
                  /\ \A j \in 1..n : Name(j) # Name(n + 1)
  BY <1>1 DEF FirstPlaces
<1> QED
  BY <1>2

\* The children of another name are all there still.
LEMMA AllNamedStays ==
  ASSUME NEW n \in Nat, NEW name, NEW items, IsList(items),
         AllNamed(items, name, n), Name(n + 1) # name
  PROVE  AllNamed(items, name, n + 1)
<1>1. PICK q \in [1..Len(items) -> 1..n] :
             /\ InOrder(q, Places(name, n))
             /\ \A k \in 1..Len(items) : items[k] = element.children[q[k]][2]
  BY DEF AllNamed
<1>2. q \in [1..Len(items) -> 1..(n + 1)]
  OBVIOUS
<1>3. InOrder(q, Places(name, n + 1))
  BY <1>1, PlacesGrow
<1> QED
  BY <1>1, <1>2, <1>3 DEF AllNamed

\* A child goes behind the others of its name.
LEMMA AllNamedGrows ==
  ASSUME NEW n \in Nat, NEW name, NEW items, IsList(items),
         AllNamed(items, name, n), Name(n + 1) = name,
         NEW more, IsList(more), Len(more) = Len(items) + 1,
         \A i \in 1..Len(items) : more[i] = items[i],
         more[Len(items) + 1] = element.children[n + 1][2]
  PROVE  AllNamed(more, name, n + 1)
<1> DEFINE m == Len(items)
<1>1. PICK q \in [1..Len(items) -> 1..n] :
             /\ InOrder(q, Places(name, n))
             /\ \A k \in 1..Len(items) : items[k] = element.children[q[k]][2]
  BY DEF AllNamed
<1>2. m \in Nat
  BY ListLength
<1> DEFINE r == [i \in 1..(m + 1) |-> IF i = m + 1 THEN n + 1 ELSE q[i]]
<1>3. r \in [1..(m + 1) -> 1..(n + 1)]
  BY <1>2
<1>4. (\A i \in 1..m : r[i] = q[i]) /\ r[m + 1] = n + 1
  BY <1>2
<1> HIDE DEF r
<1>5. InOrder(r, Places(name, n) \cup {n + 1})
  BY <1>1, <1>2, <1>3, <1>4, OneMoreInOrder
<1>6. InOrder(r, Places(name, n + 1))
  BY <1>5, PlacesGrow
<1>7. \A k \in 1..(m + 1) : more[k] = element.children[r[k]][2]
  <2> SUFFICES ASSUME NEW k \in 1..(m + 1) PROVE more[k] = element.children[r[k]][2]
    OBVIOUS
  <2>1. CASE k = m + 1
    BY <2>1, <1>4
  <2>2. CASE k \in 1..m
    BY <2>2, <1>1, <1>4
  <2> QED
    BY <2>1, <2>2, <1>2
<1> QED
  BY <1>3, <1>6, <1>7 DEF AllNamed

\* The first child of its name is alone.
LEMMA AllNamedOpens ==
  ASSUME NEW n \in Nat, NEW name, Name(n + 1) = name, \A j \in 1..n : Name(j) # name,
         NEW items, IsList(items), Len(items) = 1, items[1] = element.children[n + 1][2]
  PROVE  AllNamed(items, name, n + 1)
<1>1. Places(name, n) = {}
  BY DEF Places
<1>2. AllNamed(<<>>, name, n)
  <2>1. Len(<<>>) = 0 /\ 1..0 = {}
    BY EmptyList
  <2> DEFINE q == [i \in 1..0 |-> i]
  <2>2. q \in [1..Len(<<>>) -> 1..n] /\ DOMAIN q = {}
    BY <2>1
  <2> HIDE DEF q
  <2>3. InOrder(q, Places(name, n))
    BY <2>2, <1>1 DEF InOrder
  <2>4. \A k \in 1..Len(<<>>) : <<>>[k] = element.children[q[k]][2]
    BY <2>1
  <2> QED
    BY <2>2, <2>3, <2>4 DEF AllNamed
<1> DEFINE none == <<>>
<1>3. IsList(none) /\ AllNamed(none, name, n) /\ Len(items) = Len(none) + 1 /\ Len(none) = 0
  BY <1>2, EmptyList
<1> HIDE DEF none
<1>4. \A i \in 1..Len(none) : items[i] = none[i]
  BY <1>3
<1>5. items[Len(none) + 1] = element.children[n + 1][2]
  BY <1>3
<1> QED
  BY <1>3, <1>4, <1>5, AllNamedGrows

\* Children of a name are there if one of them is.
LEMMA AllNamedSome ==
  ASSUME NEW n \in Nat, NEW i \in 1..n, NEW items, AllNamed(items, Name(i), n)
  PROVE  items # <<>>
<1>1. PICK q \in [1..Len(items) -> 1..n] : InOrder(q, Places(Name(i), n))
  BY DEF AllNamed
<1>2. i \in Places(Name(i), n)
  BY DEF Places
<1>3. \E k \in 1..Len(items) : q[k] = i
  BY <1>1, <1>2 DEF InOrder
<1> QED
  BY <1>3, EmptyList

\* Nothing but the element tells its fields.
LEMMA SameElement ==
  ASSUME element' = element
  PROVE  /\ \A i : Name(i)' = Name(i)
         /\ \A name : Shadowed(name)' <=> Shadowed(name)
         /\ \A n : FirstPlaces(n)' = FirstPlaces(n)
         /\ \A items, name, n : AllNamed(items, name, n)' <=> AllNamed(items, name, n)
         /\ \A name, items, i, n : IsGroup(name, items, i, n)' <=> IsGroup(name, items, i, n)
         /\ FieldText' = FieldText
         /\ \A f, i, p : IsField(f, i, p)' <=> IsField(f, i, p)
<1>1. \A i : Name(i)' = Name(i)
  BY DEF Name
<1>2. \A name : Shadowed(name)' <=> Shadowed(name)
  BY DEF Shadowed
<1>3. \A n : FirstPlaces(n)' = FirstPlaces(n)
  BY <1>1, <1>2 DEF FirstPlaces
<1>4. \A name, n : Places(name, n)' = Places(name, n)
  BY <1>1 DEF Places
<1>5. \A items, name, n : AllNamed(items, name, n)' <=> AllNamed(items, name, n)
  BY <1>4 DEF AllNamed
<1>6. FieldText' = FieldText
  BY <1>2, <1>4 DEF FieldText
<1>7. \A name, items, i, n : IsGroup(name, items, i, n)' <=> IsGroup(name, items, i, n)
  BY <1>1, <1>5 DEF IsGroup
<1>8. \A f, i, p : IsField(f, i, p)' <=> IsField(f, i, p)
  BY <1>6, <1>7 DEF IsField
<1> QED
  BY <1>1, <1>2, <1>3, <1>5, <1>6, <1>7, <1>8

LEMMA LengthOfPlaces ==
  ASSUME NEW m \in Nat, NEW n \in Nat, NEW p \in [1..m -> 1..n]
  PROVE  Len(p) = m /\ DOMAIN p = 1..m
<1>1. p \in Seq(1..n)
  BY IsASeq
<1> QED
  BY <1>1, LenProperties

\* The lengths are numbers.
LEMMA Lengths ==
  ASSUME IInv, LeftOvers
  PROVE  /\ Len(element.children) \in Nat /\ Len(element.attributes) \in Nat
         /\ Len(todo) \in Nat /\ Len(groups) \in Nat /\ Len(attrs) \in Nat /\ Len(shown) \in Nat
         /\ Grouped \in 0..Len(element.children)
<1>1. /\ Len(element.children) \in Nat /\ Len(element.attributes) \in Nat
      /\ Len(todo) \in Nat /\ Len(groups) \in Nat /\ Len(attrs) \in Nat /\ Len(shown) \in Nat
  BY ListLength DEF IInv, Lists
<1> QED
  BY <1>1 DEF LeftOvers, Grouped

-----------------------------------------------------------------------------
\* Nothing is grouped and nothing handed out in an initial state.
LEMMA InitFields == Init => GInv
<1> SUFFICES ASSUME Init PROVE GInv
  OBVIOUS
<1>1. /\ element \in Elements /\ request \in Requests /\ pc = "group"
      /\ todo = element.children /\ attrs = element.attributes
      /\ groups = <<>> /\ shown = <<>> /\ text = <<>>
  BY DEF Init
<1>2. Len(element.children) \in Nat /\ Len(element.attributes) \in Nat
  BY <1>1, ElementsAssumption, ListLength DEF ElementData
<1>3. Grouped = 0 /\ Len(groups) = 0 /\ Len(shown) = 0
  BY <1>1, <1>2, EmptyList DEF Grouped
<1>4. LeftOvers
  <2>1. \A i \in 1..Len(todo) : todo[i] = element.children[Grouped + i]
    BY <1>1, <1>2, <1>3
  <2>2. \A i \in 1..Len(attrs) :
          attrs[i] = element.attributes[Len(element.attributes) - Len(attrs) + i]
    BY <1>1, <1>2
  <2> QED
    BY <2>1, <2>2, <1>1, <1>2 DEF LeftOvers
<1>5. ItemLists /\ Covered /\ TextLeft
  BY <1>1, <1>3 DEF ItemLists, Covered, TextLeft
<1> DEFINE p == [i \in 1..0 |-> i]
<1>6. p \in [1..0 -> 1..Len(element.children)] /\ DOMAIN p = {}
  OBVIOUS
<1> HIDE DEF p
<1>7. Len(p) = 0
  BY <1>2, <1>6, LengthOfPlaces
<1>8. FirstPlaces(0) = {}
  BY DEF FirstPlaces
<1>9. InOrder(p, FirstPlaces(Grouped))
  BY <1>3, <1>6, <1>8 DEF InOrder
<1>10. FieldsShown(p)
  BY <1>1, <1>3, <1>7, <1>9 DEF FieldsShown
<1>11. FieldsInv
  <2>1. 0 \in 0..Len(element.children)
    BY <1>2
  <2> QED
    BY <2>1, <1>6, <1>10, Zenon DEF FieldsInv
<1> QED
  BY <1>4, <1>5, <1>11 DEF GInv

\* The child that is grouped is the next one.
LEMMA GroupMoves ==
  ASSUME IInv, LeftOvers, Group
  PROVE  /\ Grouped \in Nat /\ Grouped + 1 \in 1..Len(element.children)
         /\ Grouped' = Grouped + 1
         /\ Child[1] = Name(Grouped + 1) /\ Child[2] = element.children[Grouped + 1][2]
         /\ LeftOvers'
<1>1. /\ UNCHANGED <<element, request, pc, attrs, text, shown>>
      /\ pc = "group" /\ todo # <<>> /\ todo' = Tail(todo)
  BY DEF Group
<1>2. IsList(todo) /\ Len(todo) \in Nat /\ Len(todo) > 0 /\ Len(element.children) \in Nat
  BY <1>1, ListLength DEF IInv, Lists
<1>3. /\ Len(todo') = Len(todo) - 1
      /\ \A i \in 1..Len(todo') : todo'[i] = todo[i + 1]
      /\ Head(todo) = todo[1]
  BY <1>1, <1>2, TailList
<1>4. Len(todo) <= Len(element.children)
  BY DEF LeftOvers
<1>5. /\ Grouped \in Nat /\ Grouped + 1 \in 1..Len(element.children)
      /\ Grouped' = Grouped + 1
  BY <1>1, <1>2, <1>3, <1>4 DEF Grouped
<1>6. \A i \in 1..Len(todo) : todo[i] = element.children[Grouped + i]
  BY DEF LeftOvers
<1>7. Child = element.children[Grouped + 1]
  BY <1>2, <1>3, <1>6 DEF Child
<1>8. Child[1] = Name(Grouped + 1) /\ Child[2] = element.children[Grouped + 1][2]
  BY <1>7 DEF Name
<1>9. \A i \in 1..Len(todo') : todo'[i] = element.children[Grouped' + i]
  <2> SUFFICES ASSUME NEW i \in 1..Len(todo') PROVE todo'[i] = element.children[Grouped' + i]
    OBVIOUS
  <2>1. i + 1 \in 1..Len(todo) /\ Grouped + (i + 1) = Grouped' + i
    BY <1>2, <1>3, <1>5
  <2> QED
    BY <2>1, <1>3, <1>6
<1>10. LeftOvers'
  BY <1>1, <1>2, <1>3, <1>4, <1>9 DEF LeftOvers
<1> QED
  BY <1>5, <1>8, <1>10

\* A child is left out for an attribute, opens a group, or goes into the group of its name.
LEMMA GroupFields == IInv /\ GInv /\ Group => GInv'
<1> SUFFICES ASSUME IInv, GInv, Group PROVE GInv'
  OBVIOUS
<1> DEFINE d == Grouped
           n == Len(element.children)
           name == Child[1]
<1>1. /\ UNCHANGED <<element, request, pc, attrs, text, shown>> /\ pc = "group"
  BY DEF Group
<1>2. /\ d \in Nat /\ d + 1 \in 1..n /\ Grouped' = d + 1
      /\ name = Name(d + 1) /\ Child[2] = element.children[d + 1][2]
      /\ LeftOvers'
  BY GroupMoves DEF GInv
<1>3. n \in Nat /\ Len(groups) \in Nat /\ Len(shown) = 0 /\ IsList(groups)
  BY <1>1, Lengths, EmptyList DEF IInv, GInv, Unopened, Lists
<1>4. PICK m \in 0..n : \E p \in [1..m -> 1..n] : FieldsShown(p)
  BY DEF GInv, FieldsInv
<1>5. PICK p \in [1..m -> 1..n] : FieldsShown(p)
  BY <1>4
<1>6. Len(p) = m /\ DOMAIN p = 1..m
  BY <1>3, <1>4, LengthOfPlaces
<1>7. /\ InOrder(p, FirstPlaces(d)) /\ m <= d /\ Len(groups) = m
      /\ \A k \in 1..m : IsGroup(groups[k][1], groups[k][2], p[k], d)
  <2>1. /\ InOrder(p, FirstPlaces(d)) /\ Len(p) <= d /\ Len(groups) = Len(p)
        /\ \A k \in 1..Len(groups) :
             IsGroup(groups[k][1], groups[k][2], p[Len(p) - Len(groups) + k], d)
    BY <1>1, <1>5 DEF FieldsShown
  <2>2. \A k \in 1..m : Len(p) - Len(groups) + k = k
    BY <2>1, <1>3
  <2> QED
    BY <2>1, <2>2, <1>6
<1>8. \A k \in 1..m : p[k] \in 1..d
  <2>1. \A k \in 1..m : p[k] \in FirstPlaces(d)
    BY <1>6, <1>7 DEF InOrder
  <2> QED
    BY <2>1 DEF FirstPlaces
<1>9. \A k \in 1..m : /\ groups[k][1] = Name(p[k]) /\ AllNamed(groups[k][2], groups[k][1], d)
                      /\ IsList(groups[k][2]) /\ ~Shadowed(groups[k][1])
  BY <1>7 DEF IsGroup, GInv, ItemLists, IInv, GroupsFresh, Shadowed
<1>10. \A k \in 1..m, l \in 1..m : groups[k][1] = groups[l][1] => k = l
  BY <1>7 DEF IInv, GroupsFresh
<1>11. \A j \in 1..d : Shadowed(Name(j)) \/ GroupsOf(Name(j)) # {}
  BY <1>1 DEF GInv, Covered
<1>12. /\ \A i : Name(i)' = Name(i)
       /\ \A nm : Shadowed(nm)' <=> Shadowed(nm)
       /\ \A i : FirstPlaces(i)' = FirstPlaces(i)
       /\ \A nm, items, i, k : IsGroup(nm, items, i, k)' <=> IsGroup(nm, items, i, k)
  BY <1>1, SameElement
<1> HIDE DEF d, n, name
<1>13. ASSUME NEW r \in [1..Len(groups') -> 1..n], Len(groups') \in 0..(d + 1),
              InOrder(r, FirstPlaces(d + 1)),
              \A k \in 1..Len(groups') : IsGroup(groups'[k][1], groups'[k][2], r[k], d + 1)
       PROVE  FieldsInv'
  <2>1. Len(r) = Len(groups')
    BY <1>2, <1>3, <1>13, LengthOfPlaces
  <2>2. FieldsShown(r)'
    BY <2>1, <1>1, <1>2, <1>3, <1>12, <1>13 DEF FieldsShown
  <2>3. Len(groups') \in 0..n
    BY <1>2, <1>3, <1>13
  <2> QED
    BY <2>2, <2>3, <1>1, Zenon DEF FieldsInv, n
<1>14. ASSUME \A nm : GroupsOf(nm) # {} => \E k \in 1..Len(groups') : groups'[k][1] = nm,
              Shadowed(name) \/ \E k \in 1..Len(groups') : groups'[k][1] = name
       PROVE  Covered'
  <2>1. ASSUME NEW j \in 1..(d + 1)
        PROVE  Shadowed(Name(j)) \/ \E k \in 1..Len(groups') : groups'[k][1] = Name(j)
    <3>1. j = d + 1 \/ j \in 1..d
      BY <1>2
    <3> QED
      BY <3>1, <1>2, <1>11, <1>14
  <2> QED
    BY <2>1, <1>1, <1>2 DEF Covered, GroupsOf, Shadowed, Name
<1>15. CASE Shadowed(name) /\ UNCHANGED groups
  <2>1. FirstPlaces(d + 1) = FirstPlaces(d)
    BY <1>2, <1>15, FirstPlacesGrow
  <2>2. \A k \in 1..m : groups[k][1] # name
    BY <1>9, <1>15
  <2>3. \A k \in 1..m : AllNamed(groups[k][2], groups[k][1], d + 1)
    BY <2>2, <1>2, <1>9, AllNamedStays
  <2>4. FieldsInv'
    <3>1. \A k \in 1..m : IsGroup(groups[k][1], groups[k][2], p[k], d + 1)
      BY <2>3, <1>9 DEF IsGroup
    <3> QED
      BY <3>1, <2>1, <1>2, <1>3, <1>7, <1>13, <1>15
  <2>5. Covered'
    <3>1. \A nm : GroupsOf(nm) # {} => \E k \in 1..Len(groups') : groups'[k][1] = nm
      BY <1>15 DEF GroupsOf
    <3> QED
      BY <3>1, <1>14, <1>15
  <2>6. ItemLists' /\ TextLeft'
    BY <1>1, <1>15 DEF GInv, ItemLists, TextLeft
  <2> QED
    BY <2>4, <2>5, <2>6, <1>2 DEF GInv
<1>16. CASE /\ ~Shadowed(name) /\ GroupsOf(name) = {}
            /\ groups' = Append(groups, NewGroup(name, Child[2]))
  <2> DEFINE items == <<Child[2]>>
  <2>1. NewGroup(name, Child[2]) = <<name, items>>
    BY DEF NewGroup
  <2>2. IsList(items) /\ Len(items) = 1 /\ items[1] = element.children[d + 1][2]
    BY <1>2, Singleton
  <2> HIDE DEF items
  <2>3. /\ Len(groups') = m + 1
        /\ \A k \in 1..m : groups'[k] = groups[k]
        /\ groups'[m + 1] = <<name, items>>
    BY <2>1, <1>3, <1>7, <1>16, AppendList
  <2>4. \A j \in 1..d : Name(j) # name
    BY <1>11, <1>16
  <2>5. FirstPlaces(d + 1) = FirstPlaces(d) \cup {d + 1}
    BY <2>4, <1>2, <1>16, FirstPlacesGrow
  <2> DEFINE r == [i \in 1..(m + 1) |-> IF i = m + 1 THEN d + 1 ELSE p[i]]
  <2>6. r \in [1..(m + 1) -> 1..(d + 1)]
    BY <1>2, <1>8
  <2>7. (\A i \in 1..m : r[i] = p[i]) /\ r[m + 1] = d + 1
    BY <1>3
  <2> HIDE DEF r
  <2>8. p \in [1..m -> 1..d]
    BY <1>8
  <2>9. InOrder(r, FirstPlaces(d + 1))
    <3>1. m \in Nat /\ d \in Nat /\ InOrder(p, FirstPlaces(d))
      BY <1>2, <1>3, <1>7
    <3>2. InOrder(r, FirstPlaces(d) \cup {d + 1})
      BY <3>1, <2>6, <2>7, <2>8, OneMoreInOrder
    <3> QED
      BY <3>2, <2>5
  <2>10. \A k \in 1..m : AllNamed(groups[k][2], groups[k][1], d + 1)
    <3>1. \A k \in 1..m : groups[k][1] # name
      BY <2>4, <1>8, <1>9
    <3> QED
      BY <3>1, <1>2, <1>9, AllNamedStays
  <2>11. AllNamed(items, name, d + 1)
    BY <2>2, <2>4, <1>2, AllNamedOpens
  <2>12. \A k \in 1..(m + 1) : IsGroup(groups'[k][1], groups'[k][2], r[k], d + 1)
    <3> SUFFICES ASSUME NEW k \in 1..(m + 1)
                 PROVE  IsGroup(groups'[k][1], groups'[k][2], r[k], d + 1)
      OBVIOUS
    <3>1. CASE k = m + 1
      <4>1. groups'[k][1] = name /\ groups'[k][2] = items /\ r[k] = d + 1
        BY <3>1, <2>3, <2>7
      <4> QED
        BY <4>1, <2>11, <1>2 DEF IsGroup
    <3>2. CASE k \in 1..m
      <4>1. groups'[k] = groups[k] /\ r[k] = p[k]
        BY <3>2, <2>3, <2>7
      <4> QED
        BY <4>1, <3>2, <2>10, <1>9 DEF IsGroup
    <3> QED
      BY <3>1, <3>2, <1>3
  <2>13. FieldsInv'
    <3>1. r \in [1..Len(groups') -> 1..n]
      BY <2>3, <2>6, <1>2, <1>3
    <3> QED
      BY <3>1, <2>3, <2>9, <2>12, <1>2, <1>3, <1>7, <1>13
  <2>14. Covered'
    <3>1. \A nm : GroupsOf(nm) # {} => \E k \in 1..Len(groups') : groups'[k][1] = nm
      BY <2>3, <1>3, <1>7 DEF GroupsOf
    <3>2. m + 1 \in 1..Len(groups') /\ groups'[m + 1][1] = name
      BY <2>3, <1>3
    <3> QED
      BY <3>1, <3>2, <1>14
  <2>15. ItemLists'
    <3>1. \A k \in 1..Len(groups') : IsList(groups'[k][2])
      <4> SUFFICES ASSUME NEW k \in 1..(m + 1) PROVE IsList(groups'[k][2])
        BY <2>3
      <4>1. CASE k = m + 1
        BY <4>1, <2>2, <2>3
      <4>2. CASE k \in 1..m
        BY <4>2, <2>3, <1>9
      <4> QED
        BY <4>1, <4>2, <1>3
    <3> QED
      BY <3>1, <1>1, <1>3 DEF ItemLists
  <2>16. TextLeft'
    BY <1>1 DEF TextLeft
  <2> QED
    BY <2>13, <2>14, <2>15, <2>16, <1>2 DEF GInv
<1>17. ASSUME NEW k \in GroupsOf(name), ~Shadowed(name),
              groups' = [groups EXCEPT ![k] = <<name, WithItem(groups[k][2], Child[2])>>]
       PROVE  GInv'
  <2>1. k \in 1..m /\ groups[k][1] = name
    BY <1>7 DEF GroupsOf
  <2> DEFINE more  == Append(groups[k][2], Child[2])
             group == <<name, more>>
             items == groups[k][2]
  <2>2. groups' = [groups EXCEPT ![k] = group]
    BY <1>17 DEF WithItem
  <2>3. IsList(items) /\ AllNamed(items, name, d)
    BY <2>1, <1>9
  <2>4. /\ IsList(more) /\ Len(more) = Len(items) + 1
        /\ \A i \in 1..Len(items) : more[i] = items[i]
        /\ more[Len(items) + 1] = element.children[d + 1][2]
    BY <2>3, <1>2, AppendList
  <2>5. group[1] = name /\ group[2] = more
    OBVIOUS
  <2> HIDE DEF more, group, items
  <2>6. AllNamed(more, name, d + 1)
    BY <2>3, <2>4, <1>2, AllNamedGrows
  <2>7. /\ Len(groups') = m
        /\ \A i \in 1..m : groups'[i] = IF i = k THEN group ELSE groups[i]
    <3> DEFINE S == Range(groups) \cup {group}
    <3>1. groups \in Seq(S) /\ group \in S
      BY <1>3, SeqMonotonic DEF IsList
    <3> HIDE DEF S
    <3> QED
      BY <3>1, <2>1, <2>2, <1>7, ExceptSeq
  <2>8. FirstPlaces(d + 1) = FirstPlaces(d)
    <3>1. Name(p[k]) = Name(d + 1) /\ p[k] \in 1..d
      BY <2>1, <1>2, <1>8, <1>9
    <3> QED
      BY <3>1, <1>2, FirstPlacesGrow
  <2>9. ASSUME NEW i \in 1..m
        PROVE  /\ IsGroup(groups'[i][1], groups'[i][2], p[i], d + 1)
               /\ IsList(groups'[i][2])
    <3>1. CASE i = k
      BY <3>1, <2>1, <2>4, <2>5, <2>6, <2>7, <1>9 DEF IsGroup
    <3>2. CASE i # k
      <4>1. groups'[i] = groups[i] /\ groups[i][1] # name
        BY <3>2, <2>1, <2>7, <1>10
      <4>2. AllNamed(groups[i][2], groups[i][1], d + 1)
        BY <4>1, <1>2, <1>9, AllNamedStays
      <4> QED
        BY <4>1, <4>2, <1>9 DEF IsGroup
    <3> QED
      BY <3>1, <3>2
  <2>10. FieldsInv'
    BY <2>7, <2>8, <2>9, <1>2, <1>3, <1>7, <1>13
  <2>11. Covered'
    <3>1. \A i \in 1..m : groups'[i][1] = groups[i][1]
      BY <2>1, <2>5, <2>7
    <3>2. \A nm : GroupsOf(nm) # {} => \E i \in 1..Len(groups') : groups'[i][1] = nm
      BY <3>1, <2>7, <1>7 DEF GroupsOf
    <3>3. \E i \in 1..Len(groups') : groups'[i][1] = name
      BY <3>1, <2>1, <2>7
    <3> QED
      BY <3>2, <3>3, <1>14
  <2>12. ItemLists'
    BY <2>7, <2>9, <1>1, <1>3 DEF ItemLists
  <2>13. TextLeft'
    BY <1>1 DEF TextLeft
  <2> QED
    BY <2>10, <2>11, <2>12, <2>13, <1>2 DEF GInv
<1>18. \/ Shadowed(name) /\ UNCHANGED groups
       \/ /\ ~Shadowed(name) /\ GroupsOf(name) = {}
          /\ groups' = Append(groups, NewGroup(name, Child[2]))
       \/ \E k \in GroupsOf(name) :
            /\ ~Shadowed(name)
            /\ groups' = [groups EXCEPT ![k] = <<name, WithItem(groups[k][2], Child[2])>>]
  BY DEF Group, name
<1> QED
  BY <1>15, <1>16, <1>17, <1>18

\* The text of an element, or none.
LEMMA FieldTextIs ==
  ASSUME LeftOvers
  PROVE  /\ Len(FieldText) \in Nat
         /\ FieldText # <<>> => element.text = <<FieldText[1]>> /\ Len(FieldText) = 1
<1>1. IsList(element.text) /\ Len(element.text) <= 1
  BY ElementsAssumption DEF LeftOvers, ElementData
<1>2. Len(element.text) \in Nat
  BY <1>1, ListLength
<1>3. element.text # <<>> => element.text = <<element.text[1]>> /\ Len(element.text) = 1
  BY <1>1, <1>2, OneItem
<1> QED
  BY <1>2, <1>3, EmptyList DEF FieldText

\* The map is opened with all groups, and with the text unless something is called $text.
LEMMA VisitMapFields == IInv /\ GInv /\ VisitMap => GInv'
<1> SUFFICES ASSUME IInv, GInv, VisitMap PROVE GInv'
  OBVIOUS
<1> DEFINE n == Len(element.children)
           a == Len(element.attributes)
<1>1. /\ UNCHANGED <<element, request, todo, groups, attrs, shown>>
      /\ pc = "group" /\ pc' = "key" /\ todo = <<>>
      /\ text' = IF TextShadowed THEN <<>> ELSE element.text
  BY DEF VisitMap
<1>2. n \in Nat /\ a \in Nat /\ Len(groups) \in Nat
  BY Lengths DEF GInv
<1>3. Len(shown) = 0 /\ Grouped = n /\ Grouped' = n /\ attrs = element.attributes
  BY <1>1, <1>2, EmptyList DEF IInv, GInv, Unopened, Grouped, LeftOvers
<1>4. PICK m \in 0..n : \E p \in [1..m -> 1..n] : FieldsShown(p)
  BY DEF GInv, FieldsInv
<1>5. PICK p \in [1..m -> 1..n] : FieldsShown(p)
  BY <1>4
<1>6. Len(p) = m /\ m \in Nat
  BY <1>2, <1>4, LengthOfPlaces
<1>7. Len(groups) = Len(p)
  BY <1>1, <1>5 DEF FieldsShown
<1>8. TextShadowed <=> Shadowed(TEXT_FIELD) \/ Places(TEXT_FIELD, n) # {}
  <2>1. ASSUME NEW k \in GroupsOf(TEXT_FIELD) PROVE Places(TEXT_FIELD, n) # {}
    <3>1. k \in 1..m /\ groups[k][1] = TEXT_FIELD
      BY <1>6, <1>7 DEF GroupsOf
    <3>2. IsGroup(groups[k][1], groups[k][2], p[Len(p) - Len(groups) + k], n)
      BY <3>1, <1>3, <1>5, <1>6, <1>7 DEF FieldsShown
    <3>3. Len(p) - Len(groups) + k = k
      BY <3>1, <1>2, <1>6, <1>7
    <3>4. Name(p[k]) = TEXT_FIELD /\ p[k] \in 1..n
      BY <3>1, <3>2, <3>3 DEF IsGroup
    <3> QED
      BY <3>4 DEF Places
  <2>2. ASSUME NEW j \in Places(TEXT_FIELD, n)
        PROVE  Shadowed(TEXT_FIELD) \/ GroupsOf(TEXT_FIELD) # {}
    <3>1. j \in 1..n /\ Name(j) = TEXT_FIELD
      BY DEF Places
    <3> QED
      BY <3>1, <1>1, <1>3 DEF GInv, Covered
  <2> QED
    BY <2>1, <2>2 DEF TextShadowed, Shadowed
<1>9. text' = FieldText
  BY <1>1, <1>8 DEF FieldText
<1>10. Len(FieldText) \in Nat
  BY FieldTextIs DEF GInv
<1>11. FieldText' = FieldText /\ (\A i : FirstPlaces(i)' = FirstPlaces(i))
       /\ \A nm, items, i, k : IsGroup(nm, items, i, k)' <=> IsGroup(nm, items, i, k)
  BY <1>1, SameElement
<1>12. FieldsShown(p)'
  <2>1. InOrder(p, FirstPlaces(n)) /\ Len(p) <= n
    BY <1>3, <1>5 DEF FieldsShown
  <2>2. \A k \in 1..Len(groups) :
          IsGroup(groups[k][1], groups[k][2], p[Len(p) - Len(groups) + k], n)
    BY <1>3, <1>5 DEF FieldsShown
  <2>3. Len(shown) = (a - Len(attrs)) + (Len(p) - Len(groups)) + (Len(FieldText) - Len(text'))
    BY <1>2, <1>3, <1>6, <1>7, <1>9, <1>10
  <2> HIDE DEF n
  <2>4. a = Len(element'.attributes)
    BY <1>1
  <2>5. Len(groups) <= Len(p)
    BY <1>2, <1>7
  <2> HIDE DEF a
  <2>6. Len(shown) = 0
    BY <1>3
  <2> QED
    BY <2>1, <2>2, <2>3, <2>4, <2>5, <2>6, <1>1, <1>3, <1>7, <1>11 DEF FieldsShown
<1>13. FieldsInv'
  BY <1>1, <1>12, Zenon DEF FieldsInv
<1>14. LeftOvers' /\ ItemLists' /\ Covered'
  BY <1>1 DEF GInv, LeftOvers, ItemLists, Covered, Grouped
<1>15. TextLeft'
  BY <1>9, <1>11 DEF TextLeft
<1> QED
  BY <1>13, <1>14, <1>15 DEF GInv

\* What is handed out comes behind the fields shown before.
LEMMA HandOutFields ==
  ASSUME NEW key, NEW value, IInv, GInv, HandOut(key, value), pc = "key",
         NEW p, FieldsShown(p), IsField(<<key, value>>, Len(shown) + 1, p),
         value.kind = "children" => IsList(value.of)
  PROVE  /\ (\A i \in 1..Len(shown) : IsField(shown[i], i, p))'
         /\ \A i \in 1..Len(shown') : shown'[i][2].kind = "children" => IsList(shown'[i][2].of)
<1>1. /\ element' = element
      /\ Len(shown) \in Nat /\ Len(shown') = Len(shown) + 1
      /\ \A i \in 1..Len(shown) : shown'[i] = shown[i]
      /\ shown'[Len(shown) + 1] = <<key, value>>
  BY HandOutKeys
<1>2. \A f, i : IsField(f, i, p)' <=> IsField(f, i, p)
  BY <1>1, SameElement
<1>3. <<key, value>>[2] = value
  OBVIOUS
<1>4. ASSUME NEW i \in 1..Len(shown')
      PROVE  /\ IsField(shown'[i], i, p)
             /\ shown'[i][2].kind = "children" => IsList(shown'[i][2].of)
  <2>1. CASE i = Len(shown) + 1
    BY <2>1, <1>1, <1>3
  <2>2. CASE i \in 1..Len(shown)
    <3>1. shown'[i] = shown[i]
      BY <2>2, <1>1
    <3>2. IsField(shown[i], i, p)
      BY <2>2 DEF FieldsShown
    <3>3. shown[i][2].kind = "children" => IsList(shown[i][2].of)
      BY <2>2 DEF GInv, ItemLists
    <3> QED
      BY <3>1, <3>2, <3>3
  <2> QED
    BY <2>1, <2>2, <1>1
<1>5. (\A i \in 1..Len(shown) : IsField(shown[i], i, p))'
  BY <1>2, <1>4
<1> QED
  BY <1>4, <1>5

\* An attribute is the next field as long as there is one.
LEMMA NextAttributeFields == IInv /\ GInv /\ NextAttribute => GInv'
<1> SUFFICES ASSUME IInv, GInv, NextAttribute PROVE GInv'
  OBVIOUS
<1> DEFINE n == Len(element.children)
           a == Len(element.attributes)
           key == Head(attrs).name
           value == Attr(Head(attrs))
<1>1. /\ pc = "key" /\ attrs # <<>> /\ attrs' = Tail(attrs) /\ UNCHANGED <<groups, text>>
      /\ HandOut(key, value)
  BY DEF NextAttribute
<1>2. UNCHANGED <<element, request, todo>> /\ pc' = "value"
  BY <1>1 DEF HandOut
<1>3. n \in Nat /\ a \in Nat /\ Len(groups) \in Nat /\ Len(attrs) \in Nat /\ Len(shown) \in Nat
  BY Lengths DEF GInv
<1>4. PICK m \in 0..n : \E p \in [1..m -> 1..n] : FieldsShown(p)
  BY DEF GInv, FieldsInv
<1>5. PICK p \in [1..m -> 1..n] : FieldsShown(p)
  BY <1>4
<1>6. Len(p) = m /\ m \in Nat
  BY <1>3, <1>4, LengthOfPlaces
<1>7. IsList(attrs) /\ Len(attrs) > 0
  BY <1>1, ListLength DEF IInv, Lists
<1>8. /\ Len(attrs') = Len(attrs) - 1
      /\ \A i \in 1..Len(attrs') : attrs'[i] = attrs[i + 1]
      /\ Head(attrs) = attrs[1]
  BY <1>1, <1>7, TailList
<1>9. text = FieldText
  BY <1>1 DEF GInv, TextLeft
<1>10. Len(groups) = Len(p) /\ Len(FieldText) \in Nat
  BY <1>1, <1>5, FieldTextIs DEF FieldsShown, GInv
<1>11. Len(shown) = (a - Len(attrs)) + (Len(p) - Len(groups)) + (Len(FieldText) - Len(text))
  BY <1>1, <1>5 DEF FieldsShown
<1>12. Len(shown) = a - Len(attrs) /\ Len(attrs) <= a
  BY <1>3, <1>6, <1>9, <1>10, <1>11 DEF GInv, LeftOvers
<1>13. \A i \in 1..Len(attrs) : attrs[i] = element.attributes[a - Len(attrs) + i]
  BY DEF GInv, LeftOvers
<1>14. attrs[1] = element.attributes[Len(shown) + 1]
  BY <1>3, <1>7, <1>12, <1>13
<1>15. IsField(<<key, value>>, Len(shown) + 1, p)
  <2>1. Len(shown) + 1 <= a
    BY <1>3, <1>7, <1>12
  <2>2. key = element.attributes[Len(shown) + 1].name /\ value = Attr(element.attributes[Len(shown) + 1])
    BY <1>8, <1>14
  <2> HIDE DEF key, value
  <2> QED
    BY <2>1, <2>2 DEF IsField
<1>16. value.kind # "children"
  BY DEF Attr
<1> HIDE DEF key, value
<1>17. /\ (\A i \in 1..Len(shown) : IsField(shown[i], i, p))'
       /\ \A i \in 1..Len(shown') : shown'[i][2].kind = "children" => IsList(shown'[i][2].of)
  BY <1>1, <1>5, <1>15, <1>16, HandOutFields
<1>18. Len(shown') = Len(shown) + 1
  BY <1>1, HandOutKeys
<1>19. FieldText' = FieldText /\ (\A i : FirstPlaces(i)' = FirstPlaces(i))
       /\ \A nm, items, i, k : IsGroup(nm, items, i, k)' <=> IsGroup(nm, items, i, k)
  BY <1>2, SameElement
<1>20. FieldsShown(p)'
  <2>1. /\ InOrder(p, FirstPlaces(Grouped)) /\ Len(p) <= Grouped
        /\ \A k \in 1..Len(groups) :
             IsGroup(groups[k][1], groups[k][2], p[Len(p) - Len(groups) + k], Grouped)
    BY <1>5 DEF FieldsShown
  <2>2. Len(shown') = (a - Len(attrs')) + (Len(p) - Len(groups)) + (Len(FieldText) - Len(text))
    BY <1>3, <1>6, <1>8, <1>11, <1>18, <1>10, <1>9
  <2>3. a = Len(element'.attributes) /\ Grouped' = Grouped /\ Len(groups) <= Len(p)
    BY <1>2, <1>3, <1>10 DEF Grouped
  <2> HIDE DEF a
  <2> QED
    BY <2>1, <2>2, <2>3, <1>1, <1>2, <1>10, <1>17, <1>19 DEF FieldsShown
<1>21. FieldsInv'
  BY <1>2, <1>20, Zenon DEF FieldsInv
<1>22. LeftOvers'
  <2>1. \A i \in 1..Len(attrs') : attrs'[i] = element.attributes[a - Len(attrs') + i]
    <3> SUFFICES ASSUME NEW i \in 1..Len(attrs')
                 PROVE  attrs'[i] = element.attributes[a - Len(attrs') + i]
      OBVIOUS
    <3> HIDE DEF a
    <3>1. i \in Nat /\ i + 1 \in 1..Len(attrs)
      BY <1>3, <1>8
    <3>2. a - Len(attrs) + (i + 1) = a - Len(attrs') + i
      BY <3>1, <1>3, <1>8
    <3>3. attrs'[i] = attrs[i + 1]
      BY <1>8
    <3>4. attrs[i + 1] = element.attributes[a - Len(attrs) + (i + 1)]
      BY <3>1, <1>13
    <3> QED
      BY <3>2, <3>3, <3>4
  <2>2. Len(attrs') <= a
    BY <1>3, <1>8, <1>12
  <2> QED
    BY <2>1, <2>2, <1>1, <1>2 DEF GInv, LeftOvers, Grouped
<1>23. ItemLists' /\ Covered' /\ TextLeft'
  BY <1>1, <1>2, <1>9, <1>17, <1>19 DEF GInv, ItemLists, Covered, TextLeft
<1> QED
  BY <1>21, <1>22, <1>23 DEF GInv

\* After the attributes a group is the next field.
LEMMA NextGroupFields == IInv /\ GInv /\ NextGroup => GInv'
<1> SUFFICES ASSUME IInv, GInv, NextGroup PROVE GInv'
  OBVIOUS
<1> DEFINE n == Len(element.children)
           a == Len(element.attributes)
           key == Head(groups)[1]
           value == Children(Head(groups)[2])
<1>1. /\ pc = "key" /\ attrs = <<>> /\ groups # <<>> /\ groups' = Tail(groups)
      /\ UNCHANGED <<attrs, text>>
      /\ HandOut(key, value)
  BY DEF NextGroup
<1>2. UNCHANGED <<element, request, todo>> /\ pc' = "value"
  BY <1>1 DEF HandOut
<1>3. n \in Nat /\ a \in Nat /\ Len(groups) \in Nat /\ Len(shown) \in Nat
  BY Lengths DEF GInv
<1>4. PICK m \in 0..n : \E p \in [1..m -> 1..n] : FieldsShown(p)
  BY DEF GInv, FieldsInv
<1>5. PICK p \in [1..m -> 1..n] : FieldsShown(p)
  BY <1>4
<1>6. Len(p) = m /\ DOMAIN p = 1..m /\ m \in Nat
  BY <1>3, <1>4, LengthOfPlaces
<1>7. IsList(groups) /\ Len(groups) > 0
  BY <1>1, ListLength DEF IInv, Lists
<1>8. /\ Len(groups') = Len(groups) - 1
      /\ \A i \in 1..Len(groups') : groups'[i] = groups[i + 1]
      /\ Head(groups) = groups[1]
  BY <1>1, <1>7, TailList
<1>9. text = FieldText /\ Len(FieldText) \in Nat
  BY <1>1, FieldTextIs DEF GInv, TextLeft
<1>10. Grouped = n
  <2>1. todo = <<>>
    BY <1>1 DEF GInv, LeftOvers
  <2> QED
    BY <2>1, <1>3, EmptyList DEF Grouped
<1>11. /\ InOrder(p, FirstPlaces(n)) /\ Len(p) <= n /\ Len(groups) <= m
       /\ Len(shown) = (a - Len(attrs)) + (m - Len(groups)) + (Len(FieldText) - Len(text))
  BY <1>1, <1>5, <1>6, <1>10 DEF FieldsShown
<1>12. \A k \in 1..Len(groups) : IsGroup(groups[k][1], groups[k][2], p[m - Len(groups) + k], n)
  BY <1>5, <1>6, <1>10 DEF FieldsShown
<1>13. Len(attrs) = 0
  BY <1>1, EmptyList
<1> HIDE DEF a, n
<1>14. Len(shown) = a + (m - Len(groups))
  BY <1>3, <1>6, <1>9, <1>11, <1>13
<1>15. IsField(<<key, value>>, Len(shown) + 1, p)
  <2>1. (Len(shown) + 1) - a = m - Len(groups) + 1 /\ m - Len(groups) + 1 \in 1..m
    BY <1>3, <1>6, <1>7, <1>11, <1>14
  <2>2. IsGroup(groups[1][1], groups[1][2], p[m - Len(groups) + 1], n)
    BY <1>3, <1>7, <1>12
  <2>3. key = groups[1][1] /\ value = Children(groups[1][2]) /\ value.of = groups[1][2]
    BY <1>8 DEF Children
  <2> HIDE DEF key, value
  <2>4. <<key, value>>[1] = key /\ <<key, value>>[2] = value
    OBVIOUS
  <2>5. IsGroup(key, value.of, p[(Len(shown) + 1) - a], n) /\ (Len(shown) + 1) - a \in DOMAIN p
    BY <2>1, <2>2, <2>3, <1>6
  <2> QED
    BY <2>3, <2>4, <2>5 DEF IsField, a, n
<1>16. IsList(value.of)
  BY <1>3, <1>7, <1>8 DEF Children, GInv, ItemLists
<1> HIDE DEF key, value
<1>17. /\ (\A i \in 1..Len(shown) : IsField(shown[i], i, p))'
       /\ \A i \in 1..Len(shown') : shown'[i][2].kind = "children" => IsList(shown'[i][2].of)
  BY <1>1, <1>5, <1>15, <1>16, HandOutFields
<1>18. Len(shown') = Len(shown) + 1
  BY <1>1, HandOutKeys
<1>19. FieldText' = FieldText /\ (\A i : FirstPlaces(i)' = FirstPlaces(i))
       /\ \A nm, items, i, k : IsGroup(nm, items, i, k)' <=> IsGroup(nm, items, i, k)
  BY <1>2, SameElement
<1>20. FieldsShown(p)'
  <2>1. \A k \in 1..Len(groups') :
             IsGroup(groups'[k][1], groups'[k][2], p[Len(p) - Len(groups') + k], n)
    <3> SUFFICES ASSUME NEW k \in 1..Len(groups')
                 PROVE  IsGroup(groups'[k][1], groups'[k][2], p[Len(p) - Len(groups') + k], n)
      OBVIOUS
    <3>1. k \in Nat /\ k + 1 \in 1..Len(groups)
      BY <1>3, <1>8
    <3>2. Len(p) - Len(groups') + k = m - Len(groups) + (k + 1)
      BY <3>1, <1>3, <1>6, <1>8
    <3> QED
      BY <3>1, <3>2, <1>8, <1>12
  <2>2. Len(shown') = (a - Len(attrs)) + (Len(p) - Len(groups')) + (Len(FieldText) - Len(text))
    BY <1>3, <1>6, <1>8, <1>9, <1>13, <1>14, <1>18
  <2>3. a = Len(element'.attributes) /\ Grouped' = n /\ Len(groups') <= Len(p)
    BY <1>2, <1>3, <1>6, <1>8, <1>10, <1>11 DEF Grouped, a
  <2> QED
    BY <2>1, <2>2, <2>3, <1>1, <1>2, <1>11, <1>17, <1>19 DEF FieldsShown
<1>21. FieldsInv'
  BY <1>2, <1>20, Zenon DEF FieldsInv, n
<1>22. LeftOvers'
  BY <1>1, <1>2 DEF GInv, LeftOvers, Grouped
<1>23. ItemLists'
  <2>1. \A k \in 1..Len(groups') : IsList(groups'[k][2])
    <3> SUFFICES ASSUME NEW k \in 1..Len(groups') PROVE IsList(groups'[k][2])
      OBVIOUS
    <3>1. k + 1 \in 1..Len(groups) /\ groups'[k] = groups[k + 1]
      BY <1>3, <1>8
    <3> QED
      BY <3>1 DEF GInv, ItemLists
  <2> QED
    BY <2>1, <1>17 DEF ItemLists
<1>24. Covered' /\ TextLeft'
  BY <1>1, <1>2, <1>9, <1>19 DEF Covered, TextLeft
<1> QED
  BY <1>21, <1>22, <1>23, <1>24 DEF GInv

\* The text is the last field.
LEMMA NextTextFields == IInv /\ GInv /\ NextText => GInv'
<1> SUFFICES ASSUME IInv, GInv, NextText PROVE GInv'
  OBVIOUS
<1> DEFINE n == Len(element.children)
           a == Len(element.attributes)
           value == Text(text[1])
<1>1. /\ pc = "key" /\ attrs = <<>> /\ groups = <<>> /\ text # <<>> /\ text' = <<>>
      /\ UNCHANGED <<groups, attrs>>
      /\ HandOut(TEXT_FIELD, value)
  BY DEF NextText
<1>2. UNCHANGED <<element, request, todo>> /\ pc' = "value"
  BY <1>1 DEF HandOut
<1>3. n \in Nat /\ a \in Nat /\ Len(shown) \in Nat
  BY Lengths DEF GInv
<1>4. PICK m \in 0..n : \E p \in [1..m -> 1..n] : FieldsShown(p)
  BY DEF GInv, FieldsInv
<1>5. PICK p \in [1..m -> 1..n] : FieldsShown(p)
  BY <1>4
<1>6. Len(p) = m /\ m \in Nat
  BY <1>3, <1>4, LengthOfPlaces
<1>7. text = FieldText /\ Len(FieldText) = 1
  BY <1>1, FieldTextIs DEF GInv, TextLeft
<1>8. Len(attrs) = 0 /\ Len(groups) = 0 /\ Len(text') = 0
  BY <1>1, EmptyList
<1>9. Len(shown) = (a - Len(attrs)) + (Len(p) - Len(groups)) + (Len(FieldText) - Len(text))
  BY <1>1, <1>5 DEF FieldsShown
<1> HIDE DEF a
<1>10. Len(shown) = a + Len(p)
  <2>1. Len(FieldText) - Len(text) = 0
    BY <1>7
  <2> QED
    BY <2>1, <1>3, <1>6, <1>8, <1>9
<1>11. IsField(<<TEXT_FIELD, value>>, Len(shown) + 1, p)
  <2>1. FieldText # <<>> /\ value = Text(FieldText[1])
    BY <1>1, <1>7
  <2> HIDE DEF value
  <2> QED
    BY <2>1, <1>10 DEF IsField, a
<1>12. value.kind # "children"
  BY DEF Text
<1> HIDE DEF value
<1>13. /\ (\A i \in 1..Len(shown) : IsField(shown[i], i, p))'
       /\ \A i \in 1..Len(shown') : shown'[i][2].kind = "children" => IsList(shown'[i][2].of)
  BY <1>1, <1>5, <1>11, <1>12, HandOutFields
<1>14. Len(shown') = Len(shown) + 1
  BY <1>1, HandOutKeys
<1>15. FieldText' = FieldText /\ (\A i : FirstPlaces(i)' = FirstPlaces(i))
       /\ \A nm, items, i, k : IsGroup(nm, items, i, k)' <=> IsGroup(nm, items, i, k)
  BY <1>2, SameElement
<1>16. FieldsShown(p)'
  <2>1. /\ InOrder(p, FirstPlaces(Grouped)) /\ Len(p) <= Grouped /\ Len(groups) <= Len(p)
    BY <1>5 DEF FieldsShown
  <2>2. Len(shown') = (a - Len(attrs)) + (Len(p) - Len(groups)) + (Len(FieldText) - Len(text'))
    BY <1>3, <1>6, <1>7, <1>8, <1>10, <1>14
  <2>3. a = Len(element'.attributes) /\ Grouped' = Grouped /\ 1..Len(groups') = {}
    BY <1>1, <1>2, <1>8 DEF Grouped, a
  <2> QED
    BY <2>1, <2>2, <2>3, <1>1, <1>2, <1>13, <1>15 DEF FieldsShown
<1>17. FieldsInv'
  BY <1>2, <1>16, Zenon DEF FieldsInv
<1>18. LeftOvers' /\ ItemLists' /\ Covered' /\ TextLeft'
  BY <1>1, <1>2, <1>13 DEF GInv, LeftOvers, Grouped, ItemLists, Covered, TextLeft
<1> QED
  BY <1>17, <1>18 DEF GInv

\* No other step touches the fields.
LEMMA OtherFields ==
  ASSUME GInv, pc' = "group" => pc = "group", pc = "group" => pc' = "group",
         UNCHANGED <<element, request, todo, groups, attrs, text, shown>>
  PROVE  GInv'
<1>1. FieldText' = FieldText /\ (\A i : FirstPlaces(i)' = FirstPlaces(i))
      /\ (\A nm, items, i, k : IsGroup(nm, items, i, k)' <=> IsGroup(nm, items, i, k))
      /\ \A f, i, p : IsField(f, i, p)' <=> IsField(f, i, p)
  BY SameElement
<1>2. \A p : FieldsShown(p) => FieldsShown(p)'
  BY <1>1 DEF FieldsShown, Grouped
<1>3. FieldsInv'
  BY <1>2 DEF GInv, FieldsInv
<1>4. LeftOvers' /\ ItemLists' /\ TextLeft'
  BY <1>1 DEF GInv, LeftOvers, Grouped, ItemLists, TextLeft
<1>5. Covered'
  BY DEF GInv, Covered, Grouped, GroupsOf, Shadowed, Name
<1> QED
  BY <1>3, <1>4, <1>5 DEF GInv

LEMMA NextFields == IInv /\ GInv /\ [Next]_vars => GInv'
<1> SUFFICES ASSUME IInv, GInv, [Next]_vars PROVE GInv'
  OBVIOUS
<1>1. CASE Group
  BY <1>1, GroupFields
<1>2. CASE VisitMap
  BY <1>2, VisitMapFields
<1>3. CASE NextAttribute
  BY <1>3, NextAttributeFields
<1>4. CASE NextGroup
  BY <1>4, NextGroupFields
<1>5. CASE NextText
  BY <1>5, NextTextFields
<1>6. CASE NoKey
  BY <1>6, OtherFields DEF NoKey
<1>7. CASE VisitSome
  BY <1>7, OtherFields DEF VisitSome
<1>8. CASE VisitSeq
  BY <1>8, OtherFields DEF VisitSeq, Wants
<1>9. CASE VisitOnce
  BY <1>9, OtherFields DEF VisitOnce
<1>10. CASE NextElement
  BY <1>10, OtherFields DEF NextElement
<1>11. CASE NoElement
  BY <1>11, OtherFields DEF NoElement
<1>12. CASE Refuse
  BY <1>12, OtherFields DEF Refuse
<1>13. CASE UNCHANGED vars
  BY <1>13, OtherFields DEF vars
<1> QED
  BY <1>1, <1>2, <1>3, <1>4, <1>5, <1>6, <1>7, <1>8, <1>9, <1>10, <1>11, <1>12, <1>13
  DEF Next, NextKey, NextValue

\* Children are elements.
LEMMA NamedAreElements ==
  ASSUME element \in Elements, NEW n \in 0..Len(element.children),
         NEW items, NEW name, AllNamed(items, name, n)
  PROVE  \A k \in 1..Len(items) : ElementData(items[k])
<1>1. PICK q \in [1..Len(items) -> 1..n] :
             \A k \in 1..Len(items) : items[k] = element.children[q[k]][2]
  BY DEF AllNamed
<1>2. IsList(element.children) /\ Len(element.children) \in Nat
  BY ElementsAssumption, ListLength DEF ElementData
<1>3. \A c \in Range(element.children) : ElementData(c[2])
  BY ElementsAssumption
<1>4. ASSUME NEW k \in 1..Len(items) PROVE ElementData(items[k])
  <2>1. q[k] \in 1..Len(element.children)
    BY <1>2
  <2>2. element.children[q[k]] \in Range(element.children)
    BY <2>1, <1>2, ItemInRange
  <2> QED
    BY <2>2, <1>1, <1>3
<1> QED
  BY <1>4

-----------------------------------------------------------------------------
\* The first children of their names can be put in order, however many there are.
HasOrder(n) == \E m \in 0..n : \E p \in [1..m -> 1..n] : InOrder(p, FirstPlaces(n))

LEMMA OrderExists ==
  ASSUME NEW n \in Nat
  PROVE  HasOrder(n)
<1> DEFINE T == {i \in Nat : HasOrder(i)}
           U == Nat \ T
<1>1. 0 \in T
  <2> DEFINE p == [i \in 1..0 |-> i]
  <2>1. p \in [1..0 -> 1..0] /\ DOMAIN p = {}
    OBVIOUS
  <2> HIDE DEF p
  <2>2. FirstPlaces(0) = {}
    BY DEF FirstPlaces
  <2>3. InOrder(p, FirstPlaces(0))
    BY <2>1, <2>2 DEF InOrder
  <2>4. 0 \in 0..0
    OBVIOUS
  <2>5. HasOrder(0)
    BY <2>1, <2>3, <2>4, Zenon DEF HasOrder
  <2> QED
    BY <2>5
<1>2. ASSUME NEW i \in T PROVE i + 1 \in T
  <2>1. i \in Nat
    OBVIOUS
  <2>2. PICK m \in 0..i : \E p \in [1..m -> 1..i] : InOrder(p, FirstPlaces(i))
    BY DEF HasOrder
  <2>3. PICK p \in [1..m -> 1..i] : InOrder(p, FirstPlaces(i))
    BY <2>2
  <2>4. m \in Nat /\ m \in 0..(i + 1) /\ m + 1 \in 0..(i + 1)
    BY <2>1
  <2>5. CASE FirstPlaces(i + 1) = FirstPlaces(i)
    <3>1. p \in [1..m -> 1..(i + 1)]
      BY <2>1
    <3>2. HasOrder(i + 1)
      BY <3>1, <2>3, <2>4, <2>5, Zenon DEF HasOrder
    <3> QED
      BY <3>2, <2>1
  <2>6. CASE FirstPlaces(i + 1) = FirstPlaces(i) \cup {i + 1}
    <3> DEFINE r == [j \in 1..(m + 1) |-> IF j = m + 1 THEN i + 1 ELSE p[j]]
    <3>1. /\ r \in [1..(m + 1) -> 1..(i + 1)]
          /\ (\A j \in 1..m : r[j] = p[j]) /\ r[m + 1] = i + 1
      BY <2>1, <2>4
    <3> HIDE DEF r
    <3>2. InOrder(r, FirstPlaces(i) \cup {i + 1})
      BY <3>1, <2>1, <2>3, <2>4, OneMoreInOrder
    <3>3. HasOrder(i + 1)
      BY <3>1, <3>2, <2>4, <2>6, Zenon DEF HasOrder
    <3> QED
      BY <3>3, <2>1
  <2> QED
    BY <2>1, <2>5, <2>6, FirstPlacesGrow
<1> HIDE DEF T
<1>3. T \subseteq Nat
  BY DEF T
<1>4. U = {}
  <2> SUFFICES ASSUME U # {} PROVE FALSE
    OBVIOUS
  <2>1. PICK x \in U : \A y \in U : ~(<<y, x>> \in OpToRel(<, Nat))
    BY WFMin, NatLessThanWellFounded
  <2>2. x # 0 /\ x \in Nat
    BY <1>1
  <2>3. x - 1 \in Nat /\ x - 1 < x /\ (x - 1) + 1 = x
    BY <2>2
  <2>4. <<x - 1, x>> \in OpToRel(<, Nat)
    BY <2>2, <2>3 DEF OpToRel
  <2>5. x - 1 \notin U
    BY <2>1, <2>4
  <2> QED
    BY <1>2, <2>1, <2>3, <2>5
<1> QED
  BY <1>3, <1>4 DEF T

\* While the children are grouped no field has been shown.
LEMMA FieldsAreShown == IInv /\ GInv /\ VInv => EveryPartShown
<1> SUFFICES ASSUME IInv, GInv, VInv PROVE EveryPartShown
  OBVIOUS
<1> DEFINE n == Len(element.children)
<1>1. n \in Nat /\ Len(groups) \in Nat
  BY Lengths DEF GInv
<1>2. CASE pc = "group"
  <2>1. Len(shown) = 0
    BY <1>2, EmptyList DEF IInv, Unopened
  <2>2. PICK m \in 0..n : \E p \in [1..m -> 1..n] : InOrder(p, FirstPlaces(n))
    BY <1>1, OrderExists DEF HasOrder
  <2>3. PICK p \in [1..m -> 1..n] : InOrder(p, FirstPlaces(n))
    BY <2>2
  <2>4. \A i \in 1..Len(shown) : IsField(shown[i], i, p)
    BY <2>1
  <2> QED
    BY <2>3, <2>4, <1>2, Zenon DEF EveryPartShown
<1>3. CASE pc # "group"
  <2>1. todo = <<>>
    BY <1>3 DEF GInv, LeftOvers
  <2>2. Grouped = n
    BY <2>1, <1>1, EmptyList DEF Grouped
  <2>3. PICK m \in 0..n : \E p \in [1..m -> 1..n] : FieldsShown(p)
    BY DEF GInv, FieldsInv
  <2>4. PICK p \in [1..m -> 1..n] : FieldsShown(p)
    BY <2>3
  <2>5. Len(p) = m /\ m \in Nat
    BY <1>1, <2>3, LengthOfPlaces
  <2>6. /\ InOrder(p, FirstPlaces(n))
        /\ \A i \in 1..Len(shown) : IsField(shown[i], i, p)
        /\ Len(shown) = (Len(element.attributes) - Len(attrs))
                          + (Len(p) - Len(groups)) + (Len(FieldText) - Len(text))
    BY <2>2, <2>4, <1>3 DEF FieldsShown
  <2>7. pc = "done" => Len(shown) = Len(element.attributes) + m + Len(FieldText)
    <3> SUFFICES ASSUME pc = "done" PROVE Len(shown) = Len(element.attributes) + m + Len(FieldText)
      OBVIOUS
    <3>1. Len(attrs) = 0 /\ Len(groups) = 0 /\ Len(text) = 0
      BY EmptyList DEF VInv, Finished
    <3>2. Len(FieldText) \in Nat /\ Len(element.attributes) \in Nat
      BY FieldTextIs, Lengths DEF GInv
    <3> QED
      BY <3>1, <3>2, <2>5, <2>6
  <2> QED
    BY <2>6, <2>7, Zenon DEF EveryPartShown
<1> QED
  BY <1>2, <1>3

\* What has been shown are the values of fields.
LEMMA FieldValues ==
  ASSUME IInv, GInv, pc # "group", NEW i \in 1..Len(shown)
  PROVE  /\ FieldValue(shown[i][2])
         /\ shown[i][2].kind = "children" =>
              /\ AllNamed(shown[i][2].of, shown[i][1], Len(element.children))
              /\ IsList(shown[i][2].of)
<1> DEFINE n == Len(element.children)
           f == shown[i]
<1>1. n \in Nat /\ Len(shown) \in Nat /\ i \in Nat /\ i >= 1
  BY Lengths DEF GInv
<1>2. PICK m \in 0..n : \E p \in [1..m -> 1..n] : FieldsShown(p)
  BY DEF GInv, FieldsInv
<1>3. PICK p \in [1..m -> 1..n] : FieldsShown(p)
  BY <1>2
<1>4. IsField(f, i, p) /\ DOMAIN p = 1..m
  BY <1>3 DEF FieldsShown
<1>5. IsList(element.attributes) /\ element \in Elements
  BY DEF IInv, Lists, GInv, LeftOvers
<1> HIDE DEF f
<1>6. CASE i <= Len(element.attributes)
             /\ f = <<element.attributes[i].name, Attr(element.attributes[i])>>
  <2>1. f[2].kind = "attr" /\ f[2].of = element.attributes[i]
    BY <1>6 DEF Attr
  <2>2. Len(element.attributes) \in Nat
    BY <1>5, ListLength
  <2>3. element.attributes[i] \in Range(element.attributes)
    <3>1. i \in 1..Len(element.attributes)
      BY <1>1, <1>6, <2>2
    <3> QED
      BY <3>1, <1>5, ItemInRange
  <2> QED
    BY <2>1, <2>3 DEF FieldValue, f
<1>7. CASE /\ i - Len(element.attributes) \in DOMAIN p
           /\ f[2] = Children(f[2].of)
           /\ IsGroup(f[1], f[2].of, p[i - Len(element.attributes)], n)
  <2> DEFINE x == p[i - Len(element.attributes)]
             items == f[2].of
  <2>1. x \in 1..n
    BY <1>4, <1>7
  <2>2. f[2].kind = "children"
    BY <1>7 DEF Children
  <2>3. f[1] = Name(x) /\ AllNamed(items, f[1], n)
    BY <1>7 DEF IsGroup
  <2> HIDE DEF x, items
  <2>4. items # <<>>
    BY <2>1, <2>3, <1>1, AllNamedSome
  <2>5. \A k \in 1..Len(items) : ElementData(items[k])
    BY <2>3, <1>1, <1>5, NamedAreElements
  <2>6. IsList(items)
    BY <2>2 DEF GInv, ItemLists, items, f
  <2> QED
    BY <2>2, <2>3, <2>4, <2>5, <2>6 DEF FieldValue, items, f
<1>8. CASE FieldText # <<>> /\ f = <<TEXT_FIELD, Text(FieldText[1])>>
  <2>1. f[2].kind = "text" /\ f[2].of = FieldText[1]
    BY <1>8 DEF Text
  <2>2. element.text = <<FieldText[1]>>
    BY <1>8, FieldTextIs DEF GInv
  <2> QED
    BY <2>1, <2>2 DEF FieldValue, f
<1> QED
  BY <1>4, <1>6, <1>7, <1>8 DEF IsField

-----------------------------------------------------------------------------
(***************************************************************************)
(* The visits.                                                             *)
(***************************************************************************)
\* What the client asks for ends in a type that is neither an Option nor a Vec.
LEMMA RequestIs ==
  ASSUME LeftOvers
  PROVE  /\ request \in Seq(Range(request)) /\ Len(request) \in Nat /\ Len(request) > 0
         /\ request[Len(request)] \notin {"option", "seq"}
         /\ \A k \in 1..Len(request) :
              /\ Head(SubSeq(request, k, Len(request))) = request[k]
              /\ Tail(SubSeq(request, k, Len(request))) = SubSeq(request, k + 1, Len(request))
              /\ request[k] \in {"option", "seq"} => k + 1 \in 1..Len(request)
         /\ SubSeq(request, 1, Len(request)) = request
<1>1. /\ IsList(request) /\ request # <<>>
      /\ request[Len(request)] \notin {"option", "seq"}
  BY RequestsAssumption DEF LeftOvers
<1>2. Len(request) \in Nat /\ Len(request) > 0 /\ request \in Seq(Range(request))
  BY <1>1, ListLength DEF IsList
<1>3. ASSUME NEW k \in 1..Len(request)
      PROVE  /\ Head(SubSeq(request, k, Len(request))) = request[k]
             /\ Tail(SubSeq(request, k, Len(request))) = SubSeq(request, k + 1, Len(request))
  <2>1. Len(request) \in k..Len(request)
    BY <1>2
  <2> QED
    BY <2>1, <1>2, HeadTailOfSubSeq
<1>4. ASSUME NEW k \in 1..Len(request), request[k] \in {"option", "seq"}
      PROVE  k + 1 \in 1..Len(request)
  <2>1. k # Len(request)
    BY <1>1, <1>4
  <2> QED
    BY <2>1, <1>2
<1>5. SubSeq(request, 1, Len(request)) = request
  BY <1>2, SubSeqFull
<1> QED
  BY <1>1, <1>2, <1>3, <1>4, <1>5

\* There is one type inside of all the Options.
LEMMA OneInside ==
  ASSUME NEW k \in Nat, NEW l \in Nat, k >= 1, l >= 1, Inside(k), Inside(l)
  PROVE  k = l
<1>1. ~(k < l)
  <2>1. k < l => k \in 1..(l - 1)
    OBVIOUS
  <2> QED
    BY <2>1 DEF Inside
<1>2. ~(l < k)
  <2>1. l < k => l \in 1..(k - 1)
    OBVIOUS
  <2> QED
    BY <2>1 DEF Inside
<1> QED
  BY <1>1, <1>2

\* Nothing has been shown before the map is opened, and something once a value is visited.
LEMMA InitVisits == Init => VInv
<1> SUFFICES ASSUME Init PROVE VInv
  OBVIOUS
<1>1. pc = "group" /\ iter = <<>> /\ pending = <<>>
  BY DEF Init
<1>2. Waiting
  BY <1>1, EmptyList DEF Waiting
<1> QED
  BY <1>1, <1>2 DEF VInv, ValueInv, ItemsInv, KeyInv, Finished

\* With a key its value waits to be visited.
LEMMA HandOutVisits ==
  ASSUME NEW key, NEW value, IInv, GInv, VInv, pc = "key", HandOut(key, value)
  PROVE  VInv'
<1>1. /\ pending' = <<value>> /\ asked' = request /\ visits' = <<>>
      /\ UNCHANGED <<request, iter>>
  BY DEF HandOut
<1>2. /\ IsList(shown') /\ Len(shown) \in Nat /\ Len(shown') = Len(shown) + 1
      /\ shown'[Len(shown) + 1] = <<key, value>> /\ pc' = "value"
  BY HandOutKeys
<1>3. shown' # <<>>
  BY <1>2, EmptyList
<1>4. LastValue' = value
  BY <1>2 DEF LastValue
<1>5. 1 \in 1..Len(request) /\ SubSeq(request, 1, Len(request)) = request
  BY RequestIs DEF GInv
<1>6. \A j \in 1..(1 - 1) : request[j] = "option"
  OBVIOUS
<1>7. ValueInv'
  <2>1. /\ asked' = SubSeq(request', 1, Len(request'))
        /\ 1 \in 1..Len(request')
        /\ \A j \in 1..(1 - 1) : request'[j] = "option"
    BY <1>1, <1>5
  <2> QED
    BY <2>1, <1>1, <1>3, <1>4, Zenon DEF ValueInv
<1>8. Waiting'
  BY <1>1, <1>2 DEF VInv, Waiting
<1> QED
  BY <1>2, <1>7, <1>8 DEF VInv, ItemsInv, KeyInv, Finished

\* An Option is opened on the same value.
LEMMA VisitSomeVisits == IInv /\ GInv /\ VInv /\ VisitSome => VInv'
<1> SUFFICES ASSUME IInv, GInv, VInv, VisitSome PROVE VInv'
  OBVIOUS
<1>1. /\ pc = "value" /\ Head(asked) = "option" /\ asked' = Tail(asked)
      /\ UNCHANGED <<request, pc, pending, iter, shown, visits>>
  BY DEF VisitSome, Wants
<1>2. PICK k \in 1..Len(request) : /\ asked = SubSeq(request, k, Len(request))
                                   /\ \A j \in 1..(k - 1) : request[j] = "option"
  BY <1>1 DEF VInv, ValueInv
<1>3. request[k] = "option" /\ k + 1 \in 1..Len(request)
      /\ asked' = SubSeq(request, k + 1, Len(request))
  BY <1>1, <1>2, RequestIs DEF GInv
<1>4. \A j \in 1..((k + 1) - 1) : request[j] = "option"
  <2> SUFFICES ASSUME NEW j \in 1..((k + 1) - 1) PROVE request[j] = "option"
    OBVIOUS
  <2>1. j = k \/ j \in 1..(k - 1)
    OBVIOUS
  <2> QED
    BY <2>1, <1>2, <1>3
<1>5. \E l \in 1..Len(request') : /\ asked' = SubSeq(request', l, Len(request'))
                                  /\ \A j \in 1..(l - 1) : request'[j] = "option"
  BY <1>1, <1>3, <1>4
<1>6. ValueInv'
  BY <1>1, <1>5 DEF VInv, ValueInv, LastValue
<1>7. Waiting'
  BY <1>1 DEF VInv, Waiting
<1> QED
  BY <1>1, <1>6, <1>7 DEF VInv, ItemsInv, KeyInv, Finished

\* A Vec of children is visited child by child.
LEMMA VisitSeqVisits == IInv /\ GInv /\ VInv /\ VisitSeq => VInv'
<1> SUFFICES ASSUME IInv, GInv, VInv, VisitSeq PROVE VInv'
  OBVIOUS
<1>1. /\ pc = "value" /\ Head(asked) = "seq" /\ Value.kind = "children"
      /\ iter' = Value.of /\ pending' = <<>> /\ asked' = Tail(asked) /\ pc' = "items"
      /\ UNCHANGED <<element, request, shown, visits>>
  BY DEF VisitSeq, Wants
<1>2. shown # <<>> /\ pending = <<LastValue>> /\ visits = <<>>
  BY <1>1 DEF VInv, ValueInv
<1>3. Value = LastValue /\ LastValue' = LastValue
  BY <1>1, <1>2 DEF Value, LastValue
<1>4. Len(shown) \in 1..Len(shown)
  BY <1>2, ListLength DEF IInv, Lists
<1>5. IsList(LastValue.of) /\ \A i \in 1..Len(LastValue.of) : ElementData(LastValue.of[i])
  BY <1>1, <1>3, <1>4, FieldValues DEF FieldValue, LastValue
<1>6. PICK k \in 1..Len(request) : /\ asked = SubSeq(request, k, Len(request))
                                   /\ \A j \in 1..(k - 1) : request[j] = "option"
  BY <1>1 DEF VInv, ValueInv
<1>7. request[k] = "seq" /\ k + 1 \in 1..Len(request)
      /\ asked' = SubSeq(request, k + 1, Len(request))
  BY <1>1, <1>6, RequestIs DEF GInv
<1>8. k \in 1..(Len(request) - 1) /\ Inside(k)' /\ Head(asked') = request[k + 1]
  <2>1. k \in 1..(Len(request) - 1)
    BY <1>7, RequestIs DEF GInv
  <2>2. Inside(k)'
    BY <1>1, <1>6, <1>7 DEF Inside
  <2>3. Head(asked') = request[k + 1]
    BY <1>7, RequestIs DEF GInv
  <2> QED
    BY <2>1, <2>2, <2>3
<1>9. ItemsInv'
  <2>1. Len(visits') = 0 /\ IsList(visits') /\ Len(iter') \in Nat
    BY <1>1, <1>2, <1>3, <1>5, EmptyList, ListLength
  <2>2. IsVec(k)'
    <3>1. Inside(k)' /\ request'[k] = "seq" /\ Head(asked') = request'[k + 1]
      BY <1>1, <1>7, <1>8
    <3>2. 1..Len(visits') = {}
      BY <2>1
    <3> QED
      BY <3>1, <3>2 DEF IsVec
  <2>3. \E l \in 1..(Len(request') - 1) : IsVec(l)'
    BY <2>2, <1>1, <1>8
  <2>4. \A i \in 1..Len(iter') : iter'[i] = LastValue'.of[Len(visits') + i]
    BY <2>1, <1>1, <1>3
  <2>5. Len(visits') + Len(iter') = Len(LastValue'.of)
    BY <2>1, <1>1, <1>3
  <2>6. shown' # <<>> /\ LastValue'.kind = "children" /\ IsList(iter')
    BY <1>1, <1>2, <1>3, <1>5
  <2> QED
    BY <2>1, <2>3, <2>4, <2>5, <2>6 DEF ItemsInv
<1>10. Waiting'
  BY <1>1, <1>3, <1>5 DEF Waiting
<1> QED
  BY <1>1, <1>9, <1>10 DEF VInv, ValueInv, KeyInv, Finished

\* Anything else is visited once.
LEMMA VisitOnceVisits == IInv /\ GInv /\ VInv /\ VisitOnce => VInv'
<1> SUFFICES ASSUME IInv, GInv, VInv, VisitOnce PROVE VInv'
  OBVIOUS
<1>1. /\ pc = "value"
      /\ Head(asked) = "option" => IsNull(Value)
      /\ Head(asked) = "seq" => Value.kind # "children"
      /\ visits' = Append(visits, VisitOfValue(Value, Head(asked)))
      /\ pending' = <<>> /\ pc' = "key"
      /\ UNCHANGED <<request, shown, iter>>
  BY DEF VisitOnce, Wants
<1>2. shown # <<>> /\ pending = <<LastValue>> /\ visits = <<>>
  BY <1>1 DEF VInv, ValueInv
<1>3. Value = LastValue /\ LastValue' = LastValue
  BY <1>1, <1>2 DEF Value, LastValue
<1>4. PICK k \in 1..Len(request) : /\ asked = SubSeq(request, k, Len(request))
                                   /\ \A j \in 1..(k - 1) : request[j] = "option"
  BY <1>1 DEF VInv, ValueInv
<1>5. Head(asked) = request[k]
  BY <1>4, RequestIs DEF GInv
<1> DEFINE v == VisitOfValue(LastValue, request[k])
<1>6. visits' = <<v>>
  <2>1. v = VisitOfValue(Value, Head(asked))
    BY <1>3, <1>5
  <2> HIDE DEF v
  <2>2. visits' = Append(<<>>, v)
    BY <2>1, <1>1, <1>2
  <2> QED
    BY <2>2
<1> HIDE DEF v
<1>7. KeyInv'
  <2>1. CASE request[k] = "option"
    <3>1. IsNull(LastValue)'
      BY <2>1, <1>1, <1>3, <1>5 DEF IsNull
    <3> QED
      BY <3>1 DEF KeyInv, Visited
  <2>2. CASE request[k] # "option"
    <3>1. Inside(k)'
      BY <2>2, <1>1, <1>4 DEF Inside
    <3>2. ~(LastValue'.kind = "children" /\ request'[k] = "seq")
      BY <1>1, <1>3, <1>5
    <3>3. visits' = <<VisitOfValue(LastValue', request'[k])>>
      BY <1>1, <1>3, <1>6 DEF v
    <3>4. k \in 1..Len(request')
      BY <1>1
    <3>5. Visited'
      BY <3>1, <3>2, <3>3, <3>4 DEF Visited
    <3> QED
      BY <3>5 DEF KeyInv
  <2> QED
    BY <2>1, <2>2
<1>8. Waiting'
  BY <1>1 DEF VInv, Waiting
<1> QED
  BY <1>1, <1>7, <1>8 DEF VInv, ValueInv, ItemsInv, Finished

\* The next child of a Vec is visited as what the Vec is of.
LEMMA NextElementVisits == IInv /\ GInv /\ VInv /\ NextElement => VInv'
<1> SUFFICES ASSUME IInv, GInv, VInv, NextElement PROVE VInv'
  OBVIOUS
<1> DEFINE v == VisitOfElement(Head(iter), Head(asked))
<1>1. /\ pc = "items" /\ pc' = "items" /\ iter # <<>>
      /\ visits' = Append(visits, v) /\ iter' = Tail(iter)
      /\ UNCHANGED <<request, pending, asked, shown>>
  BY DEF NextElement
<1>2. /\ shown # <<>> /\ LastValue.kind = "children"
      /\ IsList(iter) /\ IsList(visits)
      /\ Len(visits) + Len(iter) = Len(LastValue.of)
      /\ \A i \in 1..Len(iter) : iter[i] = LastValue.of[Len(visits) + i]
  BY <1>1 DEF VInv, ItemsInv
<1>3. PICK k \in 1..(Len(request) - 1) : IsVec(k)
  BY <1>1 DEF VInv, ItemsInv
<1>4. LastValue' = LastValue
  BY <1>1 DEF LastValue
<1>5. Len(iter) \in Nat /\ Len(iter) > 0 /\ Len(visits) \in Nat
  BY <1>1, <1>2, ListLength
<1>6. /\ IsList(iter') /\ Len(iter') = Len(iter) - 1
      /\ \A i \in 1..Len(iter') : iter'[i] = iter[i + 1]
      /\ Head(iter) = iter[1]
  BY <1>1, <1>2, TailList
<1>7. v = VisitOfElement(LastValue.of[Len(visits) + 1], request[k + 1])
  BY <1>2, <1>3, <1>5, <1>6 DEF IsVec
<1> HIDE DEF v
<1>8. /\ IsList(visits') /\ Len(visits') = Len(visits) + 1
      /\ \A i \in 1..Len(visits) : visits'[i] = visits[i]
      /\ visits'[Len(visits) + 1] = v
  BY <1>1, <1>2, AppendList
<1>9. ItemsInv'
  <2>1. \A i \in 1..Len(visits') : visits'[i] = VisitOfElement(LastValue.of[i], request[k + 1])
    <3> SUFFICES ASSUME NEW i \in 1..Len(visits')
                 PROVE  visits'[i] = VisitOfElement(LastValue.of[i], request[k + 1])
      OBVIOUS
    <3>1. CASE i = Len(visits) + 1
      BY <3>1, <1>7, <1>8
    <3>2. CASE i \in 1..Len(visits)
      BY <3>2, <1>3, <1>8 DEF IsVec
    <3> QED
      BY <3>1, <3>2, <1>5, <1>8
  <2>2. IsVec(k)'
    <3>1. Inside(k)' /\ request'[k] = "seq" /\ Head(asked') = request'[k + 1]
      BY <1>1, <1>3 DEF IsVec, Inside
    <3> QED
      BY <3>1, <2>1, <1>1, <1>4 DEF IsVec
  <2>3. \E l \in 1..(Len(request') - 1) : IsVec(l)'
    BY <2>2, <1>1
  <2>4. \A i \in 1..Len(iter') : iter'[i] = LastValue'.of[Len(visits') + i]
    <3> SUFFICES ASSUME NEW i \in 1..Len(iter') PROVE iter'[i] = LastValue.of[Len(visits') + i]
      BY <1>4
    <3>1. i + 1 \in 1..Len(iter) /\ Len(visits) + (i + 1) = Len(visits') + i
      BY <1>5, <1>6, <1>8
    <3> QED
      BY <3>1, <1>2, <1>6
  <2>5. Len(visits') + Len(iter') = Len(LastValue'.of)
    <3>1. Len(visits') + Len(iter') = Len(visits) + Len(iter)
      BY <1>5, <1>6, <1>8
    <3> QED
      BY <3>1, <1>2, <1>4
  <2> QED
    BY <2>3, <2>4, <2>5, <1>1, <1>2, <1>4, <1>6, <1>8 DEF ItemsInv
<1>10. Waiting'
  <2>1. \A i \in 1..Len(iter') : ElementData(iter'[i])
    <3> SUFFICES ASSUME NEW i \in 1..Len(iter') PROVE ElementData(iter'[i])
      OBVIOUS
    <3>1. i + 1 \in 1..Len(iter)
      BY <1>5, <1>6
    <3> QED
      BY <3>1, <1>6 DEF VInv, Waiting
  <2> QED
    BY <2>1, <1>1 DEF VInv, Waiting
<1> QED
  BY <1>1, <1>9, <1>10 DEF VInv, ValueInv, KeyInv, Finished

\* A Vec ends when every child has been visited.
LEMMA NoElementVisits == IInv /\ GInv /\ VInv /\ NoElement => VInv'
<1> SUFFICES ASSUME IInv, GInv, VInv, NoElement PROVE VInv'
  OBVIOUS
<1>1. /\ pc = "items" /\ pc' = "key" /\ iter = <<>>
      /\ UNCHANGED <<request, pending, shown, visits, iter>>
  BY DEF NoElement
<1>2. /\ LastValue.kind = "children" /\ IsList(visits)
      /\ Len(visits) + Len(iter) = Len(LastValue.of)
  BY <1>1 DEF VInv, ItemsInv
<1>3. PICK k \in 1..(Len(request) - 1) : IsVec(k)
  BY <1>1 DEF VInv, ItemsInv
<1> DEFINE all == [i \in 1..Len(LastValue.of) |-> VisitOfElement(LastValue.of[i], request[k + 1])]
<1>4. Len(visits) \in Nat /\ Len(visits) = Len(LastValue.of)
  BY <1>1, <1>2, EmptyList, ListLength
<1>5. visits = all
  <2>1. visits = [i \in 1..Len(visits) |-> visits[i]]
    BY <1>2, LenProperties DEF IsList
  <2>2. \A i \in 1..Len(visits) : visits[i] = VisitOfElement(LastValue.of[i], request[k + 1])
    BY <1>3 DEF IsVec
  <2> QED
    BY <2>1, <2>2, <1>4
<1> HIDE DEF all
<1>6. LastValue' = LastValue
  BY <1>1 DEF LastValue
<1>7. k \in 1..Len(request) /\ k + 1 \in 1..Len(request) /\ Inside(k)' /\ request[k] = "seq"
  BY <1>1, <1>3, RequestIs DEF GInv, IsVec, Inside
<1>8. Visited'
  <2>1. k \in 1..Len(request') /\ k + 1 \in 1..Len(request') /\ request'[k] = "seq"
    BY <1>1, <1>7
  <2>2. LastValue'.kind = "children"
    BY <1>2, <1>6
  <2>3. visits' = [i \in 1..Len(LastValue'.of) |-> VisitOfElement(LastValue'.of[i], request'[k + 1])]
    BY <1>1, <1>5, <1>6 DEF all
  <2> QED
    BY <2>1, <2>2, <2>3, <1>7 DEF Visited
<1>9. Waiting'
  BY <1>1 DEF VInv, Waiting
<1> QED
  BY <1>1, <1>8, <1>9 DEF VInv, ValueInv, ItemsInv, KeyInv, Finished

\* No other step visits anything or asks for it.
LEMMA OtherVisits ==
  ASSUME VInv, UNCHANGED <<request, pending, asked, iter, shown, visits>>,
         \/ pc' = pc /\ UNCHANGED <<attrs, groups, text>>
         \/ pc = "group" /\ pc' \in {"group", "key"} /\ shown = <<>>
         \/ pc = "key" /\ pc' = "done" /\ attrs' = <<>> /\ groups' = <<>> /\ text' = <<>>
         \/ pc' = "refused" /\ shown # <<>>
  PROVE  VInv'
<1>1. LastValue' = LastValue /\ (\A k : Inside(k)' <=> Inside(k))
  BY DEF LastValue, Inside
<1>2. Waiting' /\ Finished'
  BY DEF VInv, Waiting, Finished
<1>3. ValueInv'
  BY <1>1 DEF VInv, ValueInv
<1>4. (\A k : IsVec(k)' <=> IsVec(k)) /\ (Visited' <=> Visited)
  BY <1>1 DEF IsVec, Visited
<1>5. ItemsInv'
  BY <1>1, <1>4 DEF VInv, ItemsInv
<1>6. KeyInv'
  BY <1>4 DEF VInv, KeyInv
<1> QED
  BY <1>2, <1>3, <1>5, <1>6 DEF VInv

LEMMA NextVisits == IInv /\ GInv /\ VInv /\ [Next]_vars => VInv'
<1> SUFFICES ASSUME IInv, GInv, VInv, [Next]_vars PROVE VInv'
  OBVIOUS
<1>1. CASE Group
  BY <1>1, OtherVisits DEF Group, IInv, Unopened
<1>2. CASE VisitMap
  BY <1>2, OtherVisits DEF VisitMap, IInv, Unopened
<1>3. CASE NextAttribute
  BY <1>3, HandOutVisits DEF NextAttribute
<1>4. CASE NextGroup
  BY <1>4, HandOutVisits DEF NextGroup
<1>5. CASE NextText
  BY <1>5, HandOutVisits DEF NextText
<1>6. CASE NoKey
  BY <1>6, OtherVisits DEF NoKey
<1>7. CASE VisitSome
  BY <1>7, VisitSomeVisits
<1>8. CASE VisitSeq
  BY <1>8, VisitSeqVisits
<1>9. CASE VisitOnce
  BY <1>9, VisitOnceVisits
<1>10. CASE NextElement
  BY <1>10, NextElementVisits
<1>11. CASE NoElement
  BY <1>11, NoElementVisits
<1>12. CASE Refuse
  BY <1>12, OtherVisits DEF Refuse
<1>13. CASE UNCHANGED vars
  BY <1>13, OtherVisits DEF vars
<1> QED
  BY <1>1, <1>2, <1>3, <1>4, <1>5, <1>6, <1>7, <1>8, <1>9, <1>10, <1>11, <1>12, <1>13
  DEF Next, NextKey, NextValue

-----------------------------------------------------------------------------
\* What the first type inside of all Options is, and what comes behind it.
LEMMA WantedIs ==
  ASSUME LeftOvers, NEW want \in Wanted
  PROVE  \E k \in 1..Len(request) :
           /\ Inside(k) /\ want[1] = request[k]
           /\ k + 1 \in 1..Len(request) => want[2] = request[k + 1]
<1>1. PICK k \in 1..Len(request) : Inside(k) /\ want = SubSeq(request, k, Len(request))
  BY DEF Wanted
<1>2. request \in Seq(Range(request)) /\ Len(request) \in Nat
  BY RequestIs
<1>3. \A i \in k..Len(request) : request[i] \in Range(request)
  BY <1>2, ElementOfSeq
<1>4. \A i \in 1..(Len(request) - k + 1) : want[i] = request[k + i - 1]
  BY <1>1, <1>2, <1>3, SubSeqProperties
<1>5. want[1] = request[k]
  <2>1. 1 \in 1..(Len(request) - k + 1) /\ k + 1 - 1 = k
    BY <1>2
  <2> QED
    BY <2>1, <1>4
<1>6. k + 1 \in 1..Len(request) => want[2] = request[k + 1]
  <2>1. k + 1 \in 1..Len(request) => 2 \in 1..(Len(request) - k + 1) /\ k + 2 - 1 = k + 1
    BY <1>2
  <2> QED
    BY <2>1, <1>4
<1> QED
  BY <1>1, <1>5, <1>6

\* The first child stands for all of them, but in a Vec.
LEMMA VisitOfChildren ==
  ASSUME NEW v, v.kind = "children", NEW want
  PROVE  VisitOfValue(v, want) = IF want = "scalar" THEN VisitOfElement(v.of[1], "scalar")
                                                    ELSE AnyOfElement(v.of[1])
<1>1. ~IsNull(v) /\ ~IsBlob(v)
  BY DEF IsNull, IsBlob
<1>2. OwnText(v) = {}
  BY DEF OwnText
<1>3. AnyOfValue(v) = AnyOfElement(v.of[1])
  BY DEF AnyOfValue
<1>4. ScalarOfValue(v) = VisitOfElement(v.of[1], "scalar")
  <2>1. ParsedOf(OwnText(v)) = {}
    BY <1>2 DEF ParsedOf
  <2> QED
    BY <2>1 DEF ScalarOfValue
<1> QED
  BY <1>1, <1>2, <1>3, <1>4 DEF VisitOfValue

LEMMA MapOfElement ==
  ASSUME NEW d
  PROVE  /\ AnyOfElement(d)[1] = "map" => AnyOfElement(d)[2] = d
         /\ VisitOfElement(d, "scalar")[1] = "map" => VisitOfElement(d, "scalar")[2] = d
<1>1. AnyOfElement(d)[1] = "map" => AnyOfElement(d)[2] = d
  BY DEF AnyOfElement
<1>2. VisitOfElement(d, "scalar") \in {<<"scalar", d.text[1]>>, AnyOfElement(d)}
  BY DEF VisitOfElement
<1> QED
  BY <1>1, <1>2

\* The visits of a complete value are those of the type inside of all Options.
LEMMA CompleteIs ==
  ASSUME IInv, GInv, VInv, NEW v \in Complete
  PROVE  /\ pc = "key" /\ Len(shown) \in 1..Len(shown)
         /\ v = LastValue /\ Visited
<1>1. pc = "key" /\ shown # <<>> /\ v = LastValue
  BY DEF Complete, LastValue
<1>2. Len(shown) \in 1..Len(shown)
  BY <1>1, ListLength DEF IInv, Lists
<1> QED
  BY <1>1, <1>2 DEF VInv, KeyInv

LEMMA VecIsComplete == IInv /\ GInv /\ VInv => VecTakesEvery
<1> SUFFICES ASSUME IInv, GInv, VInv, NEW v \in Complete, NEW want \in Wanted,
                    v.kind = "children"
             PROVE  /\ AllNamed(v.of, LastKey, Len(element.children))
                    /\ want[1] = "seq" =>
                         visits = [k \in 1..Len(v.of) |-> VisitOfElement(v.of[k], want[2])]
                    /\ want[1] # "seq" =>
                         Len(visits) = 1 /\ (visits[1][1] = "map" => visits[1][2] = v.of[1])
  BY DEF VecTakesEvery
<1>1. pc = "key" /\ Len(shown) \in 1..Len(shown) /\ v = LastValue /\ Visited
  BY CompleteIs
<1>2. AllNamed(v.of, LastKey, Len(element.children))
  BY <1>1, FieldValues DEF LastValue, LastKey
<1>3. PICK k \in 1..Len(request) :
             /\ Inside(k) /\ want[1] = request[k]
             /\ k + 1 \in 1..Len(request) => want[2] = request[k + 1]
  BY WantedIs DEF GInv
<1>4. PICK l \in 1..Len(request) :
             /\ Inside(l)
             /\ IF LastValue.kind = "children" /\ request[l] = "seq"
                THEN /\ l + 1 \in 1..Len(request)
                     /\ visits = [i \in 1..Len(LastValue.of) |->
                                    VisitOfElement(LastValue.of[i], request[l + 1])]
                ELSE visits = <<VisitOfValue(LastValue, request[l])>>
  BY <1>1 DEF Visited, IsNull
<1>5. k = l
  BY <1>3, <1>4, OneInside
<1>6. CASE request[k] = "seq"
  BY <1>1, <1>2, <1>3, <1>4, <1>5, <1>6
<1>7. CASE request[k] # "seq"
  <2> DEFINE x == VisitOfValue(LastValue, request[k])
  <2>1. visits = <<x>>
    BY <1>4, <1>5, <1>7
  <2>2. x[1] = "map" => x[2] = v.of[1]
    BY <1>1, VisitOfChildren, MapOfElement
  <2> HIDE DEF x
  <2>3. Len(visits) = 1 /\ visits[1] = x
    BY <2>1, Singleton
  <2> QED
    BY <2>2, <2>3, <1>2, <1>3, <1>7
<1> QED
  BY <1>6, <1>7

\* The text of an element without anything else.
LEMMA LeafTextIs ==
  ASSUME NEW d, ElementData(d), NEW s \in LeafText(d)
  PROVE  VisitOfElement(d, "scalar") = <<IF Parses(s) THEN "scalar" ELSE "str", s>>
<1>1. Leaf(d) /\ s \in Range(d.text)
  BY DEF LeafText
<1>2. PICK i \in DOMAIN d.text : s = d.text[i]
  BY <1>1 DEF Range
<1>3. IsList(d.text) /\ Len(d.text) <= 1
  BY DEF ElementData
<1>4. DOMAIN d.text = 1..Len(d.text) /\ Len(d.text) \in Nat
  BY <1>3, LenProperties DEF IsList
<1>5. i = 1 /\ Len(d.text) = 1 /\ d.text # <<>>
  <2>1. i \in 1..Len(d.text)
    BY <1>2, <1>4
  <2>2. d.text # <<>>
    BY <2>1, EmptyList
  <2>3. Len(d.text) = 1
    BY <2>2, <1>3, OneItem
  <2> QED
    BY <2>1, <2>2, <2>3
<1>6. s = d.text[1] /\ LeafText(d) = {s}
  BY <1>1, <1>2, <1>4, <1>5 DEF LeafText, Range
<1>7. ParsedOf(LeafText(d)) # {} <=> Parses(s)
  BY <1>6 DEF ParsedOf
<1>8. AnyOfElement(d) = <<"str", s>>
  BY <1>1, <1>5, <1>6 DEF AnyOfElement
<1> QED
  BY <1>6, <1>7, <1>8 DEF VisitOfElement

\* The text of an attribute or of the element.
LEMMA OwnTextIs ==
  ASSUME NEW v, NEW s \in OwnText(v)
  PROVE  /\ ~IsNull(v)
         /\ VisitOfValue(v, "scalar") = <<IF Parses(s) THEN "scalar" ELSE "str", s>>
<1>1. \/ v.kind = "text" /\ s = v.of
      \/ v.kind = "attr" /\ v.of.type = TYPE_STRING /\ s = v.of.value
  BY DEF OwnText
<1>2. OwnText(v) = {s}
  BY <1>1 DEF OwnText
<1>3. ~IsNull(v)
  BY <1>1 DEF IsNull, TYPE_STRING, TYPE_NULL
<1>4. AnyOfValue(v) = <<"str", s>>
  <2>1. v.kind = "attr" => AnyOfAttribute(v.of) = <<"str", s>>
    BY <1>1 DEF AnyOfAttribute, BlobTypes, TYPE_STRING, TYPE_NULL, TYPE_BYTES_HEX, TYPE_BYTES_BASE64
  <2> QED
    BY <2>1, <1>1 DEF AnyOfValue
<1>5. ParsedOf(OwnText(v)) # {} <=> Parses(s)
  BY <1>2 DEF ParsedOf
<1>6. (CHOOSE t \in OwnText(v) : TRUE) = s
  BY <1>2
<1>7. ScalarOfValue(v) = <<IF Parses(s) THEN "scalar" ELSE "str", s>>
  BY <1>1, <1>4, <1>5, <1>6 DEF ScalarOfValue
<1>8. VisitOfValue(v, "scalar") = ScalarOfValue(v)
  BY DEF VisitOfValue
<1> QED
  BY <1>3, <1>7, <1>8

LEMMA ScalarIsComplete == IInv /\ GInv /\ VInv => ScalarsAlike
<1> SUFFICES ASSUME IInv, GInv, VInv, NEW v \in Complete, <<"scalar">> \in Wanted,
                    NEW s \in OwnText(v) \cup (IF v.kind = "children" THEN LeafText(v.of[1]) ELSE {})
             PROVE  visits = << <<IF Parses(s) THEN "scalar" ELSE "str", s>> >>
  BY DEF ScalarsAlike
<1>1. pc = "key" /\ Len(shown) \in 1..Len(shown) /\ v = LastValue /\ Visited
  BY CompleteIs
<1>2. PICK k \in 1..Len(request) : Inside(k) /\ <<"scalar">>[1] = request[k]
  BY WantedIs DEF GInv
<1>3. request[k] = "scalar"
  BY <1>2
<1>4. ~IsNull(v) => visits = <<VisitOfValue(v, "scalar")>>
  <2> SUFFICES ASSUME ~IsNull(v) PROVE visits = <<VisitOfValue(v, "scalar")>>
    OBVIOUS
  <2>1. PICK l \in 1..Len(request) :
               /\ Inside(l)
               /\ IF LastValue.kind = "children" /\ request[l] = "seq"
                  THEN /\ l + 1 \in 1..Len(request)
                       /\ visits = [i \in 1..Len(LastValue.of) |->
                                      VisitOfElement(LastValue.of[i], request[l + 1])]
                  ELSE visits = <<VisitOfValue(LastValue, request[l])>>
    BY <1>1 DEF Visited
  <2>2. k = l
    BY <1>2, <2>1, OneInside
  <2> QED
    BY <2>1, <2>2, <1>1, <1>3
<1>5. CASE s \in OwnText(v)
  BY <1>4, <1>5, OwnTextIs
<1>6. CASE v.kind = "children" /\ s \in LeafText(v.of[1])
  <2>1. ElementData(v.of[1])
    <3>1. IsList(v.of) /\ v.of # <<>> /\ \A i \in 1..Len(v.of) : ElementData(v.of[i])
      BY <1>1, <1>6, FieldValues DEF FieldValue, LastValue
    <3>2. 1 \in 1..Len(v.of)
      BY <3>1, ListLength
    <3> QED
      BY <3>1, <3>2
  <2>2. ~IsNull(v)
    BY <1>6 DEF IsNull
  <2>3. VisitOfValue(v, "scalar") = VisitOfElement(v.of[1], "scalar")
    BY <1>6, VisitOfChildren
  <2>4. VisitOfElement(v.of[1], "scalar") = <<IF Parses(s) THEN "scalar" ELSE "str", s>>
    BY <2>1, <1>6, LeafTextIs
  <2> QED
    BY <2>2, <2>3, <2>4, <1>4
<1> QED
  BY <1>5, <1>6

\* The end of a list is its suffix.
LEMMA SuffixIs ==
  ASSUME NEW s, IsList(s), NEW t, IsList(t), Len(s) <= Len(t),
         \A i \in 1..Len(s) : s[i] = t[Len(t) - Len(s) + i]
  PROVE  IsSuffix(s, t)
<1> DEFINE S == Range(s) \cup Range(t)
           m == Len(s)
           n == Len(t)
           rs == Reverse(s)
           rt == Reverse(t)
<1>1. m \in Nat /\ n \in Nat /\ m <= n
  BY ListLength
<1>2. (\A i \in 1..m : s[i] \in S) /\ (\A i \in 1..n : t[i] \in S)
  BY ItemInRange
<1>3. rs = [i \in 1..m |-> s[(m - i) + 1]] /\ rt = [i \in 1..n |-> t[(n - i) + 1]]
  BY DEF Reverse
<1> HIDE DEF S, m, n, rs, rt
<1>4. rs \in [1..m -> S] /\ rt \in [1..n -> S]
  <2>1. \A i \in 1..m : (m - i) + 1 \in 1..m
    BY <1>1
  <2>2. \A i \in 1..n : (n - i) + 1 \in 1..n
    BY <1>1
  <2> QED
    BY <2>1, <2>2, <1>2, <1>3
<1>5. rs \in Seq(S) /\ rt \in Seq(S) /\ Len(rs) = m /\ Len(rt) = n
  <2>1. rs \in Seq(S) /\ rt \in Seq(S)
    BY <1>1, <1>4, IsASeq
  <2> QED
    BY <2>1, <1>1, <1>4, LenProperties
<1>6. /\ SubSeq(rs, 1, m) \in Seq(S) /\ Len(SubSeq(rs, 1, m)) = m
      /\ \A i \in 1..m : SubSeq(rs, 1, m)[i] = rs[i]
  <2>1. \A i \in 1..m : rs[i] \in S
    BY <1>4
  <2> QED
    BY <2>1, <1>1, SubSeqProperties
<1>7. /\ SubSeq(rt, 1, m) \in Seq(S) /\ Len(SubSeq(rt, 1, m)) = m
      /\ \A i \in 1..m : SubSeq(rt, 1, m)[i] = rt[i]
  <2>1. \A i \in 1..m : rt[i] \in S
    BY <1>1, <1>4
  <2> QED
    BY <2>1, <1>1, SubSeqProperties
<1>8. \A i \in 1..m : rs[i] = rt[i]
  <2> SUFFICES ASSUME NEW i \in 1..m PROVE rs[i] = rt[i]
    OBVIOUS
  <2>1. i \in 1..n /\ (m - i) + 1 \in 1..m /\ n - m + ((m - i) + 1) = (n - i) + 1
    BY <1>1
  <2>2. s[(m - i) + 1] = t[n - m + ((m - i) + 1)]
    BY <2>1 DEF m, n
  <2> QED
    BY <2>1, <2>2, <1>3
<1>9. SubSeq(rs, 1, m) = SubSeq(rt, 1, m)
  BY <1>1, <1>6, <1>7, <1>8, SeqEqual
<1> QED
  BY <1>1, <1>5, <1>9 DEF IsSuffix, IsPrefix, rs, rt

LEMMA TypesHold == IInv /\ GInv /\ VInv => TypeOK
<1> SUFFICES ASSUME IInv, GInv, VInv PROVE TypeOK
  OBVIOUS
<1> DEFINE n == Len(element.children)
<1>1. ElementData(element) /\ request \in Requests /\ element \in Elements
  BY ElementsAssumption DEF GInv, LeftOvers
<1>2. /\ Len(todo) \in Nat /\ Len(groups) \in Nat /\ n \in Nat
      /\ Grouped \in 0..n /\ Len(attrs) \in Nat
  BY Lengths DEF GInv
<1>3. IsSuffix(todo, element.children)
  BY SuffixIs DEF IInv, Lists, GInv, LeftOvers, Grouped
<1>4. IsSuffix(attrs, element.attributes)
  BY SuffixIs DEF IInv, Lists, GInv, LeftOvers
<1>5. text \in {<<>>, element.text}
  BY DEF IInv, Unopened, GInv, TextLeft, FieldText
<1>6. ASSUME NEW k \in 1..Len(groups) PROVE FieldValue(Children(groups[k][2]))
  <2> DEFINE items == groups[k][2]
  <2>1. PICK m \in 0..n : \E p \in [1..m -> 1..n] : FieldsShown(p)
    BY DEF GInv, FieldsInv
  <2>2. PICK p \in [1..m -> 1..n] : FieldsShown(p)
    BY <2>1
  <2>3. Len(p) = m /\ DOMAIN p = 1..m /\ m \in Nat
    BY <1>2, <2>1, LengthOfPlaces
  <2> DEFINE i == p[m - Len(groups) + k]
  <2>4. /\ InOrder(p, FirstPlaces(Grouped)) /\ Len(groups) <= m
        /\ IsGroup(groups[k][1], items, i, Grouped)
    BY <2>2, <2>3 DEF FieldsShown
  <2>5. m - Len(groups) + k \in 1..m
    BY <1>2, <2>3, <2>4
  <2>6. i \in 1..Grouped
    <3>1. i \in FirstPlaces(Grouped)
      BY <2>3, <2>4, <2>5 DEF InOrder
    <3> QED
      BY <3>1 DEF FirstPlaces
  <2>7. AllNamed(items, Name(i), Grouped)
    BY <2>4 DEF IsGroup
  <2> HIDE DEF items, i
  <2>8. items # <<>>
    BY <2>6, <2>7, <1>2, AllNamedSome
  <2>9. \A j \in 1..Len(items) : ElementData(items[j])
    BY <2>7, <1>1, <1>2, NamedAreElements
  <2> QED
    BY <2>8, <2>9 DEF FieldValue, Children, items
<1>7. pc \in {"group", "key", "value", "items", "done", "refused"}
  BY DEF VInv, Waiting
<1>8. pc # "refused" => Len(pending) = IF pc = "value" THEN 1 ELSE 0
  <2>1. CASE pc = "value"
    <3>1. pending = <<LastValue>>
      BY <2>1 DEF VInv, ValueInv
    <3> QED
      BY <3>1, <2>1, Singleton
  <2>2. CASE pc # "value"
    BY <2>2, <1>7, EmptyList DEF VInv, Waiting
  <2> QED
    BY <2>1, <2>2
<1>9. pc = "value" => Value = shown[Len(shown)][2]
  BY DEF VInv, ValueInv, Value, LastValue
<1>10. \A i \in 1..Len(iter) : ElementData(iter[i])
  BY DEF VInv, Waiting
<1>11. \A i \in 1..Len(shown) : FieldValue(shown[i][2])
  <2>1. CASE pc = "group"
    BY <2>1, EmptyList DEF IInv, Unopened
  <2>2. CASE pc # "group"
    BY <2>2, FieldValues
  <2> QED
    BY <2>1, <2>2
<1> QED
  BY <1>1, <1>3, <1>4, <1>5, <1>6, <1>7, <1>8, <1>9, <1>10, <1>11 DEF TypeOK

-----------------------------------------------------------------------------
\* The inductive invariant: the keys, the fields, and the visits.
LEMMA Invariant == Spec => [](IInv /\ GInv /\ VInv)
<1>1. Init => IInv /\ GInv /\ VInv
  BY InitKeys, InitFields, InitVisits
<1>2. IInv /\ GInv /\ VInv /\ [Next]_vars => (IInv /\ GInv /\ VInv)'
  BY NextKeys, NextFields, NextVisits
<1> QED
  BY <1>1, <1>2, PTL DEF Spec

\* Every variable keeps its type and `items[0]` is there (value.rs:25), for every element
\* and whatever the client asks.
THEOREM ElementTypeCorrect == Spec => []TypeOK
<1> QED
  BY Invariant, TypesHold, PTL

\* The client is shown the fields of the element in their order, each with all of its
\* children, and all of them before it is told that there are no more
\* (element.rs:61-78, 113-129, 141-158).
THEOREM ElementEveryPartShown == Spec => []EveryPartShown
<1> QED
  BY Invariant, FieldsAreShown, PTL

\* A Vec is filled from every child of the name, each as that child would be by itself; anything
\* else is visited once, as the first child (value.rs:64-84, 150-162).
THEOREM ElementVecTakesEvery == Spec => []VecTakesEvery
<1> QED
  BY Invariant, VecIsComplete, PTL

\* The same text fills a scalar alike wherever it stands (value.rs:9-34, element.rs:12-29).
THEOREM ElementScalarsAlike == Spec => []ScalarsAlike
<1> QED
  BY Invariant, ScalarIsComplete, PTL
=============================================================================
