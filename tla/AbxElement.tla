----------------------------- MODULE AbxElement -----------------------------
(***************************************************************************)
(* What a client's type is shown of an element it is deserialized from     *)
(* (src/de/element.rs, src/de/value.rs): a map of the element's            *)
(* attributes, of its children grouped by name, and of its text.           *)
(*                                                                         *)
(* The client is a serde visitor outside the library.  It asks for keys    *)
(* and, of each value, for the type it wants, `request`: a type inside     *)
(* Option or Vec is the rest of the sequence.  Only the map of one element *)
(* is opened; a value that is a map in its turn is shown as the element it *)
(* would be opened on.                                                     *)
(***************************************************************************)
EXTENDS AbxWire, FiniteSets, SequencesExt

CONSTANTS Elements,       \* the elements, with their children
          Requests,       \* what the client asks of a value
          Parses(_)       \* text.parse() succeeds for the client's scalar type

IsList(s) == s \in Seq(Range(s))

\* ElementData: lists of attributes and of <<name, child>>, and a text or none.
ElementData(d) == /\ DOMAIN d = {"attributes", "text", "children"}
                  /\ IsList(d.attributes) /\ IsList(d.children) /\ IsList(d.text)
                  /\ Len(d.text) <= 1

ASSUME ElementsAssumption ==
  \A e \in Elements : ElementData(e) /\ \A c \in Range(e.children) : ElementData(c[2])

\* There is a type inside Option and Vec.
ASSUME RequestsAssumption ==
  \A r \in Requests : /\ IsList(r) /\ r # <<>>
                      /\ r[Len(r)] \notin {"option", "seq"}

VARIABLES element, request,
          pc,             \* "group", "key", "value", "items", "done", or "refused"
          todo,           \* the children still to be grouped
          groups,         \* <<name, children>>, in first-seen order; then ElementMapAccess.children
          attrs, text,    \* ElementMapAccess
          pending,        \* ElementMapAccess.pending: none or one
          asked,          \* what is left of the request for it
          iter,           \* ChildSeqAccess
          shown,          \* the keys handed out, each with its value
          visits          \* what has been visited of the last one

vars == <<element, request, pc, todo, groups, attrs, text, pending, asked, iter, shown, visits>>

TEXT_FIELD == <<36, 116, 101, 120, 116>>   \* "$text"

NamesOf(as) == {as[i].name : i \in 1..Len(as)}

\* FieldValue.
Attr(a)         == [kind |-> "attr", of |-> a]
Text(t)         == [kind |-> "text", of |-> t]
Children(items) == [kind |-> "children", of |-> items]

Init == /\ element \in Elements
        /\ request \in Requests
        /\ pc = "group"
        /\ todo = element.children
        /\ groups = <<>>
        /\ attrs = element.attributes
        /\ text = <<>>
        /\ pending = <<>>
        /\ asked = <<>>
        /\ iter = <<>>
        /\ shown = <<>>
        /\ visits = <<>>

-----------------------------------------------------------------------------
(***************************************************************************)
(* deserialize_map                                                         *)
(***************************************************************************)
Child == Head(todo)
\* Mutants: the first child opens its group and is not put into it; a child keeps only
\* the company of the one before it; the first child of a name is the only one.
EmptyGroup(name, data) == <<name, <<>>>>
LastGroupOf(name) == {k \in 1..Len(groups) : k = Len(groups) /\ groups[k][1] = name}
FirstOnly(items, data) == items

GroupsOf(name) == {k \in 1..Len(groups) : groups[k][1] = name}

NewGroup(name, data)  == <<name, <<data>>>>
WithItem(items, data) == Append(items, data)

Shadowed(name) == name \in NamesOf(element.attributes)

\* One turn of group_children.
Group ==
  /\ pc = "group"
  /\ todo # <<>>
  /\ todo' = Tail(todo)
  /\ \/ Shadowed(Child[1]) /\ UNCHANGED groups
     \/ /\ ~Shadowed(Child[1]) /\ GroupsOf(Child[1]) = {}
        /\ groups' = Append(groups, NewGroup(Child[1], Child[2]))
     \/ \E k \in GroupsOf(Child[1]) :
          /\ ~Shadowed(Child[1])
          /\ groups' = [groups EXCEPT ![k] = <<Child[1], WithItem(groups[k][2], Child[2])>>]
  /\ UNCHANGED <<element, request, pc, attrs, text, pending, asked, iter, shown, visits>>

\* Mutant: a child named $text does not shadow the text.
ShadowedByAttribute == TEXT_FIELD \in NamesOf(element.attributes)

TextShadowed == \/ TEXT_FIELD \in NamesOf(element.attributes)
                \/ GroupsOf(TEXT_FIELD) # {}

VisitMap ==
  /\ pc = "group"
  /\ todo = <<>>
  /\ text' = IF TextShadowed THEN <<>> ELSE element.text
  /\ pc' = "key"
  /\ UNCHANGED <<element, request, todo, groups, attrs, pending, asked, iter, shown, visits>>

-----------------------------------------------------------------------------
(***************************************************************************)
(* next_key_seed: the attributes, the groups, the text                     *)
(***************************************************************************)
HandOut(key, value) ==
  /\ pending' = <<value>>
  /\ asked' = request
  /\ shown' = Append(shown, <<key, value>>)
  /\ visits' = <<>>
  /\ pc' = "value"
  /\ UNCHANGED <<element, request, todo, iter>>

NextAttribute ==
  /\ pc = "key"
  /\ attrs # <<>>
  /\ HandOut(Head(attrs).name, Attr(Head(attrs)))
  /\ attrs' = Tail(attrs)
  /\ UNCHANGED <<groups, text>>

NextGroup ==
  /\ pc = "key"
  /\ attrs = <<>> /\ groups # <<>>
  /\ HandOut(Head(groups)[1], Children(Head(groups)[2]))
  /\ groups' = Tail(groups)
  /\ UNCHANGED <<attrs, text>>

NextText ==
  /\ pc = "key"
  /\ attrs = <<>> /\ groups = <<>> /\ text # <<>>
  /\ HandOut(TEXT_FIELD, Text(text[1]))
  /\ text' = <<>>
  /\ UNCHANGED <<groups, attrs>>

NoKey ==
  /\ pc = "key"
  /\ attrs = <<>> /\ groups = <<>> /\ text = <<>>
  /\ pc' = "done"
  /\ UNCHANGED <<element, request, todo, groups, attrs, text, pending, asked, iter, shown, visits>>

-----------------------------------------------------------------------------
(***************************************************************************)
(* next_value_seed: what of the value is visited                           *)
(***************************************************************************)
Leaf(d) == d.attributes = <<>> /\ d.children = <<>>

ParsedOf(S) == {s \in S : Parses(s)}

\* The text a scalar is parsed from: an element's, if it has nothing else; a value's.
LeafText(d) == IF Leaf(d) THEN Range(d.text) ELSE {}
OwnText(v)  == CASE v.kind = "text" -> {v.of}
                 [] v.kind = "attr" -> {s \in {v.of.value} : v.of.type = TYPE_STRING}
                 [] OTHER           -> {}

AnyOfElement(d) == IF ~Leaf(d) THEN <<"map", d>>
                   ELSE IF d.text = <<>> THEN <<"unit">> ELSE <<"str", d.text[1]>>

VisitOfElement(d, want) ==
  CASE want \in {"map", "struct"}                        -> <<"map", d>>
    [] want = "scalar" /\ ParsedOf(LeafText(d)) # {}     -> <<"scalar", d.text[1]>>
    [] OTHER                                             -> AnyOfElement(d)

AnyOfAttribute(a) == CASE a.type = TYPE_NULL     -> <<"unit">>
                       [] a.type = TYPE_STRING   -> <<"str", a.value>>
                       [] a.type \in BlobTypes   -> <<"bytes", a.value>>
                       [] OTHER                  -> <<"typed", a.type, a.value>>

AnyOfValue(v) == CASE v.kind = "text"     -> <<"str", v.of>>
                   [] v.kind = "attr"     -> AnyOfAttribute(v.of)
                   [] v.kind = "children" -> AnyOfElement(v.of[1])

\* Mutant: a scalar is not looked for in a child.
ScalarNotOfChild(v) == AnyOfValue(v)

ScalarOfValue(v) == CASE v.kind = "children"       -> VisitOfElement(v.of[1], "scalar")
                      [] ParsedOf(OwnText(v)) # {} -> <<"scalar", CHOOSE s \in OwnText(v) : TRUE>>
                      [] OTHER                     -> AnyOfValue(v)

IsNull(v) == v.kind = "attr" /\ v.of.type = TYPE_NULL
IsBlob(v) == v.kind = "attr" /\ v.of.type \in BlobTypes

VisitOfValue(v, want) ==
  CASE want = "option" /\ IsNull(v)        -> <<"none">>
    [] want = "seq" /\ IsBlob(v)           -> <<"seq", v.of.value>>
    [] want = "enum" /\ OwnText(v) # {}    -> <<"enum", CHOOSE s \in OwnText(v) : TRUE>>
    [] want = "scalar"                     -> ScalarOfValue(v)
    [] OTHER                               -> AnyOfValue(v)

Value == pending[1]
Wants(type) == pc = "value" /\ Head(asked) = type

\* visit_some: the type inside the Option is asked of the same value.
VisitSome ==
  /\ Wants("option")
  /\ ~IsNull(Value)
  /\ asked' = Tail(asked)
  /\ UNCHANGED <<element, request, pc, todo, groups, attrs, text, pending, iter, shown, visits>>

VisitSeq ==
  /\ Wants("seq")
  /\ Value.kind = "children"
  /\ iter' = Value.of
  /\ pending' = <<>>
  /\ asked' = Tail(asked)
  /\ pc' = "items"
  /\ UNCHANGED <<element, request, todo, groups, attrs, text, shown, visits>>

\* Whatever else is asked, the value is visited once.
VisitOnce ==
  /\ pc = "value"
  /\ Wants("option") => IsNull(Value)
  /\ Wants("seq") => Value.kind # "children"
  /\ visits' = Append(visits, VisitOfValue(Value, Head(asked)))
  /\ pending' = <<>>
  /\ asked' = <<>>
  /\ pc' = "key"
  /\ UNCHANGED <<element, request, todo, groups, attrs, text, iter, shown>>

\* next_element_seed
NextElement ==
  /\ pc = "items"
  /\ iter # <<>>
  /\ visits' = Append(visits, VisitOfElement(Head(iter), Head(asked)))
  /\ iter' = Tail(iter)
  /\ UNCHANGED <<element, request, pc, todo, groups, attrs, text, pending, asked, shown>>

NoElement ==
  /\ pc = "items"
  /\ iter = <<>>
  /\ pc' = "key"
  /\ asked' = <<>>
  /\ UNCHANGED <<element, request, todo, groups, attrs, text, pending, iter, shown, visits>>

\* The client's type refuses what it is shown: its error goes up through every call.
Refuse ==
  /\ pc \in {"key", "value", "items"}
  /\ shown # <<>>
  /\ pc' = "refused"
  /\ UNCHANGED <<element, request, todo, groups, attrs, text, pending, asked, iter, shown, visits>>

NextKey   == NextAttribute \/ NextGroup \/ NextText \/ NoKey
NextValue == VisitSome \/ VisitSeq \/ VisitOnce \/ NextElement \/ NoElement

Next == Group \/ VisitMap \/ NextKey \/ NextValue \/ Refuse

Spec == Init /\ [][Next]_vars

-----------------------------------------------------------------------------
FieldValue(v) ==
  \/ v.kind = "attr" /\ v.of \in Range(element.attributes)
  \/ v.kind = "text" /\ element.text = <<v.of>>
  \/ v.kind = "children" /\ v.of # <<>> /\ \A i \in 1..Len(v.of) : ElementData(v.of[i])

\* Every variable keeps its type; no group of children is empty, so that `items[0]`
\* (value.rs:25) is there.
TypeOK ==
  /\ ElementData(element) /\ request \in Requests
  /\ pc \in {"group", "key", "value", "items", "done", "refused"}
  /\ IsSuffix(todo, element.children) /\ IsSuffix(attrs, element.attributes)
  /\ text \in {<<>>, element.text}
  /\ \A k \in 1..Len(groups) : FieldValue(Children(groups[k][2]))
  /\ pc # "refused" => Len(pending) = IF pc = "value" THEN 1 ELSE 0
  /\ pc = "value" => Value = shown[Len(shown)][2]
  /\ \A i \in 1..Len(iter) : ElementData(iter[i])
  /\ \A i \in 1..Len(shown) : FieldValue(shown[i][2])

\* No key is handed out twice, but for attributes the document itself repeats: a child
\* or a text of the same name would make a derived type fail with "duplicate
\* field", or a map keep the later one, where the attribute wins (lib.rs:66).
NoKeyTwice ==
  \A i, j \in 1..Len(shown) :
    i < j /\ shown[i][1] = shown[j][1] => j <= Len(element.attributes)

\* p is the numbers in S, from the smallest to the largest.
InOrder(p, S) == /\ \A i, j \in DOMAIN p : i < j => p[i] < p[j]
                 /\ S = {p[i] : i \in DOMAIN p}

\* Of the first n children: those with a name, and the first of each name that is not
\* an attribute's.
Name(i)           == element.children[i][1]
Places(name, n)   == {i \in 1..n : Name(i) = name}
FirstPlaces(n)    == {i \in 1..n : /\ ~Shadowed(Name(i))
                                  /\ \A j \in 1..(i - 1) : Name(j) # Name(i)}

\* items are the children with a name among the first n, all of them and in order.
AllNamed(items, name, n) ==
  \E q \in [1..Len(items) -> 1..n] : /\ InOrder(q, Places(name, n))
                                     /\ \A k \in 1..Len(items) : items[k] = element.children[q[k]][2]

\* A group with the name of the child at i, and all of that name among the first n in it.
IsGroup(name, items, i, n) == name = Name(i) /\ AllNamed(items, name, n)

\* The text, unless an attribute or a child is called $text.
FieldText == IF Shadowed(TEXT_FIELD) \/ Places(TEXT_FIELD, Len(element.children)) # {}
             THEN <<>> ELSE element.text

\* The i-th field of the element, from its parts alone: its attributes; the children of every
\* name that is not an attribute's, where the first of them stands, all together; its text.
IsField(f, i, p) ==
  LET a == Len(element.attributes)
  IN \/ i <= a /\ f = <<element.attributes[i].name, Attr(element.attributes[i])>>
     \/ /\ i - a \in DOMAIN p
        /\ f[2] = Children(f[2].of)
        /\ IsGroup(f[1], f[2].of, p[i - a], Len(element.children))
     \/ i = a + Len(p) + 1 /\ FieldText # <<>> /\ f = <<TEXT_FIELD, Text(FieldText[1])>>

\* At every moment the client has been shown the first of the element's fields, in
\* order, and all of them when it is told that there are no more.
EveryPartShown ==
  LET n == Len(element.children)
  IN \E m \in 0..n : \E p \in [1..m -> 1..n] :
       /\ InOrder(p, FirstPlaces(n))
       /\ \A i \in 1..Len(shown) : IsField(shown[i], i, p)
       /\ pc = "done" => Len(shown) = Len(element.attributes) + m + Len(FieldText)

\* The value the client has just been shown to the end: none or one.
Complete == IF pc = "key" /\ shown # <<>> THEN {shown[Len(shown)][2]} ELSE {}
LastKey  == shown[Len(shown)][1]

\* What the client asks for inside of any Option.
Inside(k) == request[k] # "option" /\ \A j \in 1..(k - 1) : request[j] = "option"
Wanted    == {SubSeq(request, k, Len(request)) : k \in {k \in 1..Len(request) : Inside(k)}}

\* "A Vec<T> field takes every matching child, any other field takes the first one"
\* (lib.rs:60): one visit for each child of that name, the one that child would get by
\* itself; otherwise a single visit, of the first child.
VecTakesEvery ==
  \A v \in Complete, want \in Wanted :
    v.kind = "children" =>
      /\ AllNamed(v.of, LastKey, Len(element.children))
      /\ IF want[1] = "seq"
         THEN visits = [k \in 1..Len(v.of) |-> VisitOfElement(v.of[k], want[2])]
         ELSE Len(visits) = 1 /\ (visits[1][1] = "map" => visits[1][2] = v.of[1])

\* The same text fills a scalar field alike, whether it is an attribute's, the element's or
\* that of a child with only text (lib.rs:61), inside Option as well; text that does not parse is
\* shown as it is.
ScalarsAlike ==
  \A v \in Complete :
    LET texts == OwnText(v) \cup (IF v.kind = "children" THEN LeafText(v.of[1]) ELSE {})
    IN <<"scalar">> \in Wanted =>
         \A s \in texts : visits = << <<IF Parses(s) THEN "scalar" ELSE "str", s>> >>

\* "Any other field takes the first one" (lib.rs:60): a field that is a struct is filled from
\* the first child, whatever that child has in it, just as the struct of a Vec is.
StructTakesFirst ==
  \A v \in Complete :
    <<"struct">> \in Wanted /\ v.kind = "children" => visits = << <<"map", v.of[1]>> >>
=============================================================================
