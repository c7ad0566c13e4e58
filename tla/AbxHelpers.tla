----------------------------- MODULE AbxHelpers -----------------------------
(***************************************************************************)
(* The helpers that both parsers have (src/decode/slice.rs and stream.rs,  *)
(* the same code in both): loops over next_event that look for attributes, *)
(* collect them, or render what is left as XML.                            *)
(*                                                                         *)
(* Each step is one call of next_event and what the helper does with the   *)
(* event.  The client may mix the helpers and call again after an error.   *)
(* Rendering is abstract: a piece of XML is the event it was made from.    *)
(***************************************************************************)
EXTENDS AbxSource, FiniteSets, SequencesExt

CONSTANTS Calls,          \* the calls of the client: an operation, a tag and an attribute name
          AsStr(_),       \* AttributeValue::as_str
          MaxCalls(_)     \* bound on the calls answered before a call of each kind

IsList(s) == s \in Seq(Range(s))

ASSUME StreamsAssumption ==
  \A s \in Streams : /\ IsList(s.events)
                     /\ \A k \in 1..Len(s.events) : IsList(s.events[k].attributes)

FindOps == {"find_attribute", "attributes_of"}
RestOps == {"find_all_attributes", "all_attributes_of", "into_map"}
XmlOps  == {"to_xml", "write_xml"}

ASSUME CallsAssumption == \A c \in Calls : c.op \in FindOps \cup RestOps \cup XmlOps

VARIABLES call,           \* the call in progress: none or one
          began,          \* the events delivered before it
          found,          \* what it has collected, or written
          gone,           \* into_map has taken the parser
          answers

vars == <<stream, taken, got, faults, call, began, found, gone, answers>>

Init == /\ SourceInit
        /\ call = <<>>
        /\ began = 0
        /\ found = <<>>
        /\ gone = FALSE
        /\ answers = <<>>

Operation == call[1].op

\* The XML declaration, which comes first.
Declaration == [command |-> CMD_START_DOCUMENT, text |-> <<>>, attributes |-> <<>>]

Opening(c) == IF c.op \in XmlOps THEN <<Declaration>> ELSE <<>>

\* A call answers "ok" or "error", with what it hands over.
Answered(c, from, upto, outcome, value) ==
  answers' = Append(answers, [call |-> c, from |-> from, upto |-> upto,
                              outcome |-> outcome, value |-> value])

Return(outcome, value) ==
  /\ Answered(call[1], began, taken', outcome, value)
  /\ call' = <<>>
  /\ found' = <<>>
  /\ gone' = (Operation = "into_map")
  /\ UNCHANGED began

-----------------------------------------------------------------------------
\* The values of the attributes of that name, in order.
ValuesOf(as, name) ==
  LET upTo[n \in 0..Len(as)] ==
        IF n = 0 THEN <<>>
        ELSE IF as[n].name = name THEN Append(upTo[n - 1], as[n].value)
        ELSE upTo[n - 1]
  IN upTo[Len(as)]

IsTag(e, name) == IsStart(e) /\ e.text = name
Tagged(c, e) == IsTag(e, c.element)
HasIt(c, e)  == Tagged(c, e) /\ ValuesOf(e.attributes, c.attr) # <<>>

\* Mutant: of two attributes of the same name, the first is kept.
FirstOfName(as) ==
  [n \in {as[i].name : i \in DOMAIN as} |-> AsStr(Head(ValuesOf(as, n)))]

\* The HashMap of a tag's attributes, a later one in the place of an earlier one.
AttributeMap(as) ==
  [n \in {as[i].name : i \in DOMAIN as} |-> AsStr(Last(ValuesOf(as, n)))]

\* entry(name).or_default().push(attrs)
WithEntry(map, e) ==
  [n \in DOMAIN map \cup {e.text} |->
     (IF n \in DOMAIN map THEN map[n] ELSE <<>>)
       \o (IF n = e.text THEN <<AttributeMap(e.attributes)>> ELSE <<>>)]

\* render_event: some events leave nothing.
Render(e) == IF \/ e.command = CMD_START_DOCUMENT
                \/ e.command \in {CMD_TEXT, CMD_IGNORABLE_WHITESPACE} /\ e.text = <<>>
             THEN <<>> ELSE <<e>>

\* What a helper has after event e, of what it had before.
Collect(c, acc, e) ==
  CASE c.op = "find_attribute" -> IF HasIt(c, e) THEN <<Head(ValuesOf(e.attributes, c.attr))>> ELSE <<>>
    [] c.op = "attributes_of"  -> IF Tagged(c, e) THEN <<e.attributes>> ELSE <<>>
    [] c.op = "find_all_attributes" ->
         IF Tagged(c, e) THEN acc \o ValuesOf(e.attributes, c.attr) ELSE acc
    [] c.op = "all_attributes_of" -> IF Tagged(c, e) THEN Append(acc, e.attributes) ELSE acc
    [] c.op = "into_map" -> IF IsStart(e) THEN WithEntry(acc, e) ELSE acc
    [] c.op \in XmlOps   -> IF IsEndDocument(e) THEN acc ELSE acc \o Render(e)

\* Mutants: the first tag of that name ends the search; the end of the document does
\* not end the rendering.
StopsAtTag(c, e) ==
  \/ c.op \in {"find_attribute", "attributes_of"} /\ Tagged(c, e)
  \/ c.op \notin RestOps /\ IsEndDocument(e)
StopsOnFind(c, e) ==
  \/ c.op = "find_attribute" /\ HasIt(c, e)
  \/ c.op = "attributes_of" /\ Tagged(c, e)
  \/ c.op \in FindOps /\ IsEndDocument(e)

\* The event after which a helper returns.  find_all_attributes, all_attributes_of and into_map
\* return at the end of the events only.
Stops(c, e) ==
  \/ c.op = "find_attribute" /\ HasIt(c, e)
  \/ c.op = "attributes_of" /\ Tagged(c, e)
  \/ c.op \in XmlOps \cup FindOps /\ IsEndDocument(e)

-----------------------------------------------------------------------------
Begin(c) ==
  /\ call = <<>>
  /\ ~gone
  /\ Len(answers) < MaxCalls(c)
  /\ call' = <<c>>
  /\ began' = taken
  /\ found' = Opening(c)
  /\ UNCHANGED <<stream, taken, got, faults, gone, answers>>

\* write_xml writes the declaration before it reads, and the sink fails.
BeginFails(c) ==
  /\ call = <<>>
  /\ ~gone
  /\ Len(answers) < MaxCalls(c)
  /\ c.op = "write_xml"
  /\ Answered(c, taken, taken, "error", <<>>)
  /\ UNCHANGED <<stream, taken, got, faults, call, began, found, gone>>

Use ==
  /\ call # <<>>
  /\ Deliver
  /\ ~Stops(call[1], Ahead)
  /\ found' = Collect(call[1], found, Ahead)
  /\ UNCHANGED <<call, began, gone, answers>>

Stop ==
  /\ call # <<>>
  /\ Deliver
  /\ Stops(call[1], Ahead)
  /\ Return("ok", Collect(call[1], found, Ahead))

AtEnd ==
  /\ call # <<>>
  /\ End
  /\ Return("ok", found)

\* `?`: what was collected is dropped; what was written stays written.
Kept == IF Operation = "write_xml" THEN found ELSE <<>>

\* Mutant: an error is skipped and the loop goes on.
SkipsErrors ==
  /\ call # <<>>
  /\ Malformed \/ ReadFails
  /\ UNCHANGED <<call, began, found, gone, answers>>

SourceFails ==
  /\ call # <<>>
  /\ Malformed \/ ReadFails
  /\ Return("error", Kept)

\* The sink of write_xml fails on the piece made of the event just read; what it
\* has taken of that piece is left out.
SinkFails ==
  /\ call # <<>>
  /\ Operation = "write_xml"
  /\ Deliver
  /\ ~IsEndDocument(Ahead) /\ Render(Ahead) # <<>>
  /\ Return("error", Kept)

\* The loop of the helper called: it runs until it returns.
Progress == Use \/ Stop \/ AtEnd \/ SourceFails \/ SinkFails

Next == Progress \/ \E c \in Calls : Begin(c) \/ BeginFails(c)

\* A call runs to its end on the caller's thread.
Spec == Init /\ [][Next]_vars /\ WF_vars(Progress)

-----------------------------------------------------------------------------
Events == stream.events

\* A place is an event's number and a number within the event.  `list` has the items of all places
\* of DOMAIN item, in the order of the places.
UpTo(P, p) == {q \in P : q[1] < p[1] \/ (q[1] = p[1] /\ q[2] <= p[2])}
InOrder(list, item) ==
  /\ Len(list) = Cardinality(DOMAIN item)
  /\ \A p \in DOMAIN item : list[Cardinality(UpTo(DOMAIN item, p))] = item[p]

\* Of the events behind `from` up to `upto`: the tags of that name, and the attributes of that
\* name in them.
TagsOf(evs, name, from, upto) == {k \in (from + 1)..upto : IsTag(evs[k], name)}
Named(as, name)               == {i \in 1..Len(as) : as[i].name = name}
ValuePlaces(evs, name, attr, from, upto) ==
  UNION {{k} \X Named(evs[k].attributes, attr) : k \in TagsOf(evs, name, from, upto)}

\* The attributes of a tag by name, each with the last of its values.
LastOfEach(as) ==
  [n \in {as[i].name : i \in 1..Len(as)} |->
     AsStr(as[CHOOSE i \in Named(as, n) : \A j \in Named(as, n) : j <= i].value)]

EachTag(evs, name, from, upto) ==
  [p \in TagsOf(evs, name, from, upto) \X {0} |-> evs[p[1]].attributes]
EachValue(evs, name, attr, from, upto) ==
  [p \in ValuePlaces(evs, name, attr, from, upto) |-> evs[p[1]].attributes[p[2]].value]
EachMap(evs, name, from, upto) ==
  [p \in TagsOf(evs, name, from, upto) \X {0} |-> LastOfEach(evs[p[1]].attributes)]

\* The names of the tags.
TagNames(evs, from, upto) == {evs[k].text : k \in {j \in (from + 1)..upto : IsStart(evs[j])}}

\* The declaration, and the events that leave something in the XML, up to the end of the document.
XmlPlaces(evs, from, upto) ==
  {from} \cup {k \in (from + 1)..upto : /\ Render(evs[k]) # <<>>
                                       /\ \A j \in (from + 1)..k : ~IsEndDocument(evs[j])}
XmlOf(evs, from, upto) ==
  [p \in XmlPlaces(evs, from, upto) \X {0} |-> IF p[1] = from THEN Declaration ELSE evs[p[1]]]

\* What a search looks for, and answers: the first of the attributes of that name, or all of the tag's.
Hit(c, e) == IF c.op = "find_attribute" THEN HasIt(c, e) ELSE Tagged(c, e)
IsFrom(value, c, as) ==
  /\ c.op = "attributes_of" => value = <<as>>
  /\ c.op = "find_attribute" =>
       \E i \in Named(as, c.attr) : /\ value = <<as[i].value>>
                                    /\ \A j \in Named(as, c.attr) : i <= j

\* The answer comes from the last event consumed, and no event consumed before it would
\* have done, nor ended the document.
Found(evs, a) ==
  /\ \A k \in (a.from + 1)..(a.upto - 1) : ~Hit(a.call, evs[k]) /\ ~IsEndDocument(evs[k])
  /\ a.value = <<>> =>
       \/ a.upto > a.from /\ IsEndDocument(evs[a.upto])
       \/ a.upto = Len(evs) /\ (a.upto > a.from => ~Hit(a.call, evs[a.upto]))
  /\ a.value # <<>> => /\ a.upto > a.from
                       /\ Hit(a.call, evs[a.upto])
                       /\ IsFrom(a.value, a.call, evs[a.upto].attributes)

\* All there is among the events behind `from`, up to `upto`.
Gathered(evs, value, c, from, upto) ==
  /\ c.op = "all_attributes_of"   => InOrder(value, EachTag(evs, c.element, from, upto))
  /\ c.op = "find_all_attributes" => InOrder(value, EachValue(evs, c.element, c.attr, from, upto))
  /\ c.op = "into_map" =>
       /\ DOMAIN value = TagNames(evs, from, upto)
       /\ \A n \in DOMAIN value : InOrder(value[n], EachMap(evs, n, from, upto))

\* The last call has been answered: the answer to judge.
Judged(ops) ==
  IF call = <<>> /\ answers # <<>> /\ answers[Len(answers)].call.op \in ops
     /\ answers[Len(answers)].outcome = "ok"
  THEN {answers[Len(answers)]} ELSE {}

\* "Returns the value of attribute attr on the next <element> tag that has it.
\* Events are consumed up to and including the matching tag" (slice.rs:107), and the same
\* of attributes_of: no tag that would have done is passed over, and nothing is consumed behind
\* the one that answers, or behind the end of the document.
FindsTheNext == \A a \in Judged(FindOps) : Found(Events, a)

\* A client that calls find_attribute until it gets None, with the same names, sees one value of each tag
\* that has the attribute, in order, none twice and none left out, also when a read fails on the way
\* and the call is made again: a failed call has consumed no tag that it looked for.
RepeatedFindMissesNone ==
  LET c    == answers[1].call
      hits == {i \in 1..Len(answers) : answers[i].value # <<>>}
  IN /\ call = <<>> /\ answers # <<>>
     /\ c.op = "find_attribute"
     /\ \A i \in 1..Len(answers) : answers[i].call = c
     => /\ {answers[i].upto : i \in hits} = {k \in 1..taken : HasIt(c, Events[k])}
        /\ \A i, j \in hits : i < j => answers[i].upto < answers[j].upto
        /\ \A i \in hits : IsFrom(answers[i].value, c, Events[answers[i].upto].attributes)

\* find_all_attributes and all_attributes_of leave no tag of the rest of the document out, the
\* events after an EndDocument included; and into_map, on the same events, has a map for each tag, under
\* its name, in the same order, each attribute in it with the last of its values.
TakesTheRest ==
  \A a \in Judged(RestOps) : a.upto = Len(Events) /\ Gathered(Events, a.value, a.call, a.from, a.upto)

\* "Same output as to_xml" (slice.rs:245): both render the events up to the end of the document, and a
\* write_xml that fails has written a prefix of that, in order.
SameXml ==
  \A i \in 1..Len(answers) :
    LET a == answers[i] IN
      a.call.op \in XmlOps =>
        /\ a.outcome = "ok" => InOrder(a.value, XmlOf(Events, a.from, Len(Events)))
        /\ a.outcome = "error" => \/ a.value = <<>>
                                  \/ \E n \in a.from..a.upto : InOrder(a.value, XmlOf(Events, a.from, n))

\* Every call of a helper returns, on a malformed document and with a failing reader as
\* well: next_event answers its last answer for ever, so a loop has to end at the first
\* None and at the first error.
CallsReturn == (call # <<>>) ~> (call = <<>>)
=============================================================================
