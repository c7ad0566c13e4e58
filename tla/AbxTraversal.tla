---------------------------- MODULE AbxTraversal ----------------------------
(***************************************************************************)
(* What serde's entry points make of a document (src/de/traversal.rs): an  *)
(* element is looked for, read with everything in it, and handed to the    *)
(* client's type, which may refuse it.                                     *)
(*                                                                         *)
(* Each step is one call of next_event.  `frames` is the recursion of      *)
(* read_element_body, the element looked for first, the innermost open one *)
(* last.  The client may call again whatever the last call answered.       *)
(***************************************************************************)
EXTENDS AbxSource, Integers, FiniteSets, Functions

CONSTANTS Wanted,         \* the calls the client makes: an operation and a tag name
          MaxCalls        \* bound on the answered calls

IsList(s) == s \in Seq(Range(s))

ASSUME StreamsAssumption ==
  \A s \in Streams : IsList(s.events) /\ \A k \in 1..Len(s.events) : IsList(s.events[k].text)

ASSUME WantedAssumption == \A w \in Wanted : w.op \in {"next", "all", "root"}

VARIABLES call,           \* the call in progress: none or one
          began,          \* the events delivered before it
          frames,
          items,          \* `out` of deserialize_all
          answers

vars == <<stream, taken, got, faults, call, began, frames, items, answers>>

Init == /\ SourceInit
        /\ call = <<>>
        /\ began = 0
        /\ frames = <<>>
        /\ items = <<>>
        /\ answers = <<>>

Operation == IF call = <<>> THEN "none" ELSE call[1].op
Searching == call # <<>> /\ frames = <<>>
Reading   == frames # <<>>

\* "next" is deserialize_next, and one step of deserialize_iter; "all" is
\* deserialize_all; "root" is from_slice, from_reader and from_file, which have
\* a parser to themselves.
Begin(w) ==
  /\ call = <<>>
  /\ Len(answers) < MaxCalls
  /\ w.op = "root" => answers = <<>>
  /\ \A i \in DOMAIN answers : answers[i].call.op # "root"
  /\ call' = <<w>>
  /\ began' = taken
  /\ items' = <<>>
  /\ UNCHANGED <<stream, taken, got, faults, frames, answers>>

\* The call is over.
Return(result) ==
  /\ answers' = Append(answers, [call |-> call[1], from |-> began, upto |-> taken', result |-> result])
  /\ call' = <<>>
  /\ frames' = <<>>
  /\ items' = <<>>
  /\ UNCHANGED began

\* There is no such element any more.
NotFound == CASE Operation = "next" -> <<"none">>
              [] Operation = "all"  -> <<"items", items>>
              [] Operation = "root" -> <<"error">>

\* An open element: its name, its attributes, its text (none or one), and its children.
Frame(e) == [name |-> e.text, attributes |-> e.attributes, text |-> <<>>, children |-> <<>>]
Data(f)  == [attributes |-> f.attributes, text |-> f.text, children |-> f.children]

\* The start tag the call looks for; the root is any.
Matches(e) == IsStart(e) /\ (Operation = "root" \/ e.text = call[1].element)

-----------------------------------------------------------------------------
Found ==
  /\ Searching
  /\ Deliver
  /\ Matches(Ahead)
  /\ frames' = <<Frame(Ahead)>>
  /\ UNCHANGED <<call, began, items, answers>>

Skip ==
  /\ Searching
  /\ Deliver
  /\ ~Matches(Ahead) /\ ~IsEndDocument(Ahead)
  /\ UNCHANGED <<call, began, frames, items, answers>>

NothingFound ==
  /\ Searching
  /\ (Deliver /\ IsEndDocument(Ahead)) \/ End
  /\ Return(NotFound)

-----------------------------------------------------------------------------
Top == frames[Len(frames)]

\* Mutant: only the last text is kept.
LastText(f, s) == <<s>>

\* has_text and text.
TextAfter(f, s) == IF f.text = <<>> THEN <<s>> ELSE <<f.text[1] \o s>>

\* read_element_body calls itself for a child.
Enter ==
  /\ Reading
  /\ Deliver
  /\ IsStart(Ahead)
  /\ frames' = Append(frames, Frame(Ahead))
  /\ UNCHANGED <<call, began, items, answers>>

CollectText ==
  /\ Reading
  /\ Deliver
  /\ IsText(Ahead)
  /\ frames' = [frames EXCEPT ![Len(frames)].text = TextAfter(Top, Ahead.text)]
  /\ UNCHANGED <<call, began, items, answers>>

\* What ends an element's body: any end tag, or the end of the document.
Closes(e) == IsEnd(e) \/ IsEndDocument(e)

Ignore ==
  /\ Reading
  /\ Deliver
  /\ ~IsStart(Ahead) /\ ~IsText(Ahead) /\ ~Closes(Ahead)
  /\ UNCHANGED <<call, began, frames, items, answers>>

\* Mutant: None is ignored like any other event.
OverByEvent == Deliver /\ Closes(Ahead)

\* The body of the innermost element is over, by an event or because there are
\* none left.
BodyOver == (Deliver /\ Closes(Ahead)) \/ End

\* Mutant: a later child takes the place of an earlier one.
OnlyChild(f, child) == <<child>>

WithChild(f, child) == Append(f.children, child)

Leave ==
  /\ Len(frames) > 1
  /\ BodyOver
  /\ LET parent == Len(frames) - 1 IN
       frames' = [SubSeq(frames, 1, parent) EXCEPT
                    ![parent].children = WithChild(frames[parent], <<Top.name, Data(Top)>>)]
  /\ UNCHANGED <<call, began, items, answers>>

\* Mutant: an element takes the place of those before it.
OnlyItem(d) == <<d>>

\* The elements deserialize_all has so far.
WithItem(d) == Append(items, d)

\* The client's type takes the element, and deserialize_all goes on.
Deserialize ==
  /\ Len(frames) = 1
  /\ BodyOver
  /\ IF Operation = "all"
     THEN /\ items' = WithItem(Data(Top))
          /\ frames' = <<>>
          /\ UNCHANGED <<call, began, answers>>
     ELSE Return(<<"some", Data(Top)>>)

\* The client's type refuses it: AbxError::Deserialization.
Refuse ==
  /\ Len(frames) = 1
  /\ BodyOver
  /\ Return(<<"error">>)

\* `next_event()?`: whatever was read of the element is dropped.
SourceFails ==
  /\ call # <<>>
  /\ Malformed \/ ReadFails
  /\ Return(<<"error">>)

Progress == \/ Found \/ Skip \/ NothingFound
            \/ Enter \/ CollectText \/ Ignore \/ Leave \/ Deserialize \/ Refuse
            \/ SourceFails

Next == Progress \/ \E w \in Wanted : Begin(w)

\* A call runs to its end on the caller's thread.
Spec == Init /\ [][Next]_vars /\ WF_vars(Progress)

-----------------------------------------------------------------------------
(***************************************************************************)
(* What a document's elements are, from where its tags stand, whether they *)
(* balance or not.                                                         *)
(***************************************************************************)
Events == stream.events

\* How deep behind event n, counted from the document's start: below 0 where tags are closed
\* that nothing has opened.
Depth(evs, n) == Cardinality({k \in 1..n : IsStart(evs[k])}) - Cardinality({k \in 1..n : Closes(evs[k])})

\* What belongs to the element that starts at p: all up to the event that closes it, or all
\* the rest if none does.
Span(evs, p) == {n \in (p + 1)..Len(evs) : \A k \in (p + 1)..(n - 1) : Depth(evs, k) >= Depth(evs, p)}
Kids(evs, p) == {k \in Span(evs, p) : IsStart(evs[k]) /\ Depth(evs, k) = Depth(evs, p) + 1}
Texts(evs, p) == {k \in Span(evs, p) : IsText(evs[k]) /\ Depth(evs, k) = Depth(evs, p)}

\* The members of S, the smallest first.
InOrder(S) == [i \in 1..Cardinality(S) |-> CHOOSE k \in S : Cardinality({j \in S : j <= k}) = i]

\* The texts at the places S, one after the other.
Said(evs, S) ==
  LET said[n \in 0..Len(evs)] == IF n = 0 THEN <<>>
                                 ELSE IF n \in S THEN said[n - 1] \o evs[n].text ELSE said[n - 1]
  IN said[Len(evs)]

\* The element that starts at p, given those behind it.
ElementAt(evs, element, p) ==
  [attributes |-> evs[p].attributes,
   text       |-> IF Texts(evs, p) = {} THEN <<>> ELSE <<Said(evs, Texts(evs, p))>>,
   children   |-> LET kids == InOrder(Kids(evs, p))
                  IN [i \in 1..Cardinality(Kids(evs, p)) |-> <<evs[kids[i]].text, element[kids[i]]>>]]

Elements(evs) == LET element[p \in 1..Len(evs)] == ElementAt(evs, element, p) IN element

\* The start tags a call with the answer a could be looking for, of those it has consumed.
Candidates(a) == {k \in (a.from + 1)..a.upto :
                    IsStart(Events[k]) /\ (a.call.op = "root" \/ Events[k].text = a.call.element)}

\* The search has come to the end of the document.
SearchedAll(a) == a.upto = Len(Events) \/ IsEndDocument(Events[a.upto])

\* The last call has been answered: the answer to judge.
Judged == IF call = <<>> /\ answers # <<>> THEN {answers[Len(answers)]} ELSE {}

\* "Deserializes the next <element>.  Events are consumed up to and including the
\* element's closing tag" (slice.rs:267): the answer is the first such element behind the events
\* consumed so far, whole and with everything in it at its place, and nothing behind it is
\* consumed; None only when there is no such element left in the document.  Also after calls that failed in
\* the middle of an element, or stopped in one.
NextIsTheElement ==
  \A a \in {b \in Judged : b.call.op # "all"} :
    /\ a.result[1] = "some" =>
         \E p \in Candidates(a) :
           /\ \A k \in Candidates(a) : p <= k
           /\ \A n \in (a.from + 1)..p : ~IsEndDocument(Events[n])
           /\ a.result[2] = Elements(Events)[p]
           /\ Span(Events, p) = (p + 1)..a.upto
    /\ a.result[1] = "none" =>
         /\ Candidates(a) = {} /\ SearchedAll(a)
         /\ \A n \in (a.from + 1)..(a.upto - 1) : ~IsEndDocument(Events[n])

\* deserialize_all answers all the elements of that name, in order, those inside another
\* of the same name left out, as they are part of that one; and it goes on to the end of the document,
\* which is no end if it closes such an element.
AllAreOutermost ==
  \A a \in {b \in Judged : b.result[1] = "items"} :
    LET outermost == {p \in Candidates(a) : \A k \in Candidates(a) : p \notin Span(Events, k)}
    IN /\ a.result[2] = [i \in 1..Cardinality(outermost) |-> Elements(Events)[InOrder(outermost)[i]]]
       /\ SearchedAll(a)
       /\ \A n \in (a.from + 1)..(a.upto - 1) :
            IsEndDocument(Events[n]) => \E p \in outermost : n \in Span(Events, p)

\* The names of an element's tree, from its data, each before its children's,
\* down to at most n of them.
Preorder(name, data, n) ==
  LET walk[k \in 0..n] ==
        IF k = 0 THEN [names |-> <<>>, todo |-> << <<name, data>> >>]
        ELSE LET s == walk[k - 1] IN
             IF s.todo = <<>> THEN s
             ELSE [names |-> Append(s.names, Head(s.todo)[1]),
                   todo  |-> Head(s.todo)[2].children \o Tail(s.todo)]
  IN walk[n].names

\* Whatever the document, balanced or not: the start tags between the one found and
\* the last event consumed are the elements of the answer, each once and in order.
StartTagsKept ==
  \A a \in {b \in Judged : b.result[1] = "some"} :
    \E first \in Candidates(a) :
      LET tags == {k \in first..a.upto : IsStart(Events[k])}
      IN /\ \A k \in Candidates(a) : first <= k
         /\ Preorder(Events[first].text, a.result[2], Len(Events) + 1)
              = [i \in 1..Cardinality(tags) |-> Events[InOrder(tags)[i]].text]

\* "Returns Ok(None) if the document ends first" (slice.rs:269), that is before
\* the element's closing tag: an element is answered only if it was closed.
NoneIfTheDocumentEnds ==
  \A a \in {b \in Judged : b.call.op = "next" /\ b.result[1] = "some"} :
    \E p \in Candidates(a) :
      \E q \in (p + 1)..a.upto : IsEnd(Events[q]) /\ Depth(Events, q) < Depth(Events, p)

\* Every call returns, on any document: the recursion of read_element_body unwinds at
\* the end of the events, level by level.
CallsReturn == (call # <<>>) ~> (call = <<>>)
=============================================================================
