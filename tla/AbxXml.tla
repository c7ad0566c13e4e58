------------------------------- MODULE AbxXml -------------------------------
(***************************************************************************)
(* XML text to ABX (xml_to_abx, src/encode/xml.rs): the events of a        *)
(* quick_xml reader, each translated and handed to an AbxWriter over a Vec *)
(* before the next one is read.                                            *)
(*                                                                         *)
(* The reader is outside the library: it gives any events, but an end tag  *)
(* only under the name of the innermost open one, and may find the text    *)
(* malformed anywhere, in the attributes of a tag as well.                 *)
(***************************************************************************)
EXTENDS AbxRoundTrip, AbxXmlEvents, FiniteSets, SequencesExt

CONSTANTS XmlEvents,      \* what the reader may find: a kind, a text and attributes
          MaxXml          \* bound on the events it finds

XmlEvent == [kind : XmlKinds, text : Bytes, attributes : Seq([name : Bytes, value : Bytes])]

\* Only tags have attributes; what an event becomes is among the events that a client of
\* the writer may write.
ASSUME XmlAssumption ==
  /\ XmlEvents \subseteq XmlEvent
  /\ \A x \in XmlEvents :
       /\ x.kind \notin {"Start", "Empty"} => x.attributes = <<>>
       /\ \A i \in 1..Len(Translation(x)) : Translation(x)[i] \in Events
  /\ Document(CMD_START_DOCUMENT) \in Events
  /\ Document(CMD_END_DOCUMENT) \in Events

VARIABLES status,         \* "reading", "ending", "ok", or "failed"
          xml,            \* the events read so far
          open,           \* the tags the reader has seen open
          malformed,      \* the reader has reported an error
          due             \* the translation of the last event, as far as it is not written

xmlVars == <<status, xml, open, malformed, due>>
allVars == <<xmlVars, vars>>

XmlInit == /\ Init
           /\ status = "reading"
           /\ xml = <<>>
           /\ open = <<>>
           /\ malformed = FALSE
           /\ due = <<Document(CMD_START_DOCUMENT)>>

-----------------------------------------------------------------------------
\* The loop reads once the last event is written.
CanRead == status = "reading" /\ pc = "idle" /\ due = <<>> /\ ~spoiled

\* quick_xml's own check of the names of end tags.
Accepts(x) == x.kind = "End" => open # <<>> /\ Last(open) = x.text

ReadEvent(x) ==
  /\ CanRead
  /\ Len(xml) < MaxXml
  /\ Accepts(x)
  /\ xml' = Append(xml, x)
  /\ open' = CASE x.kind = "Start" -> Append(open, x.text)
               [] x.kind = "End"   -> Front(open)
               [] OTHER            -> open
  /\ due' = Translation(x)
  /\ UNCHANGED <<status, malformed, vars>>

\* Eof, whatever is still open.
ReadEof ==
  /\ CanRead
  /\ status' = "ending"
  /\ due' = <<Document(CMD_END_DOCUMENT)>>
  /\ UNCHANGED <<xml, open, malformed, vars>>

ReadError ==
  /\ CanRead
  /\ status' = "failed"
  /\ malformed' = TRUE
  /\ UNCHANGED <<xml, open, due, vars>>

WriteDue ==
  /\ due # <<>>
  /\ ~spoiled
  /\ WriteEvent(Head(due))
  /\ due' = Tail(due)
  /\ UNCHANGED <<status, xml, open, malformed>>

\* The writer at work; a Vec takes every write.
Writing == /\ Opened \/ Written \/ DoRaw \/ DoAttribute \/ DoName \/ DoBlob \/ TooLong \/ DoCache
           /\ UNCHANGED xmlVars

WriteError ==
  /\ spoiled
  /\ status \in {"reading", "ending"}
  /\ status' = "failed"
  /\ UNCHANGED <<xml, open, malformed, due, vars>>

\* into_inner: the bytes are the caller's.
HandOver ==
  /\ status = "ending"
  /\ pc = "idle" /\ due = <<>> /\ ~spoiled
  /\ status' = "ok"
  /\ UNCHANGED <<xml, open, malformed, due, vars>>

XmlNext == \/ \E x \in XmlEvents : ReadEvent(x)
           \/ ReadEof \/ ReadError \/ WriteDue \/ Writing \/ WriteError \/ HandOver

XmlSpec == XmlInit /\ [][XmlNext]_allVars

-----------------------------------------------------------------------------
Over == status \in {"ok", "failed"}

\* What a tag or a text says: its name or text, and its attributes.
Says(e) == <<e.text, [i \in DOMAIN e.attributes |-> <<e.attributes[i].name, e.attributes[i].value>>]>>

\* How many of the numbers in P there are up to i.
Rank(P, i) == Cardinality({k \in P : k <= i})

\* Of the events from the second to the n-th, those that are not end tags; and the XML but its end
\* tags and its declaration.
Told(evs, n) == {i \in 2..n : evs[i].command # CMD_END_TAG}
Meant(xs)    == {k \in 1..Len(xs) : xs[k].kind \notin {"End", "Decl"}}

\* The events from the second to the n-th say what the XML says, in order, every attribute a string.
Conveys(evs, n, xs) ==
  /\ Cardinality(Told(evs, n)) = Cardinality(Meant(xs))
  /\ \A i \in Told(evs, n), k \in Meant(xs) :
       Rank(Told(evs, n), i) = Rank(Meant(xs), k) => Says(evs[i]) = Says(xs[k])
  /\ \A i \in 2..n :
       /\ evs[i].command \notin {CMD_START_DOCUMENT, CMD_END_DOCUMENT}
       /\ \A k \in 1..Len(evs[i].attributes) : evs[i].attributes[k].type = TYPE_STRING

\* The bytes, read back, say all that the XML says but its declaration, in order, between
\* StartDocument and EndDocument, with every attribute a string (xml.rs:34-41), whatever
\* names the writer's pool has taken on the way.
ContentKept ==
  status = "ok" =>
    LET evs == ReadBack.events
        n   == Len(evs)
    IN /\ n >= 2
       /\ evs[1] = Document(CMD_START_DOCUMENT)
       /\ evs[n] = Document(CMD_END_DOCUMENT)
       /\ Conveys(evs, n - 1, xml)

\* <<ok, tags>>: the tags open, innermost last, and whether every end tag so far has closed the
\* innermost one; after one event more.
TagsAfter(r, e) ==
  IF e.command = CMD_START_TAG THEN <<r[1], Append(r[2], e.text)>>
  ELSE IF e.command # CMD_END_TAG THEN r
  ELSE IF r[2] = <<>> THEN <<FALSE, r[2]>>
  ELSE <<r[1] /\ Last(r[2]) = e.text, Front(r[2])>>

\* After all the events of evs.
OpenTags(evs) ==
  LET after[n \in 0..Len(evs)] == IF n = 0 THEN <<TRUE, <<>> >> ELSE TagsAfter(after[n - 1], evs[n])
  IN after[Len(evs)]

\* "The element's tag name, matching the corresponding StartTag" (event.rs:226): every end tag
\* in the bytes closes the innermost open one, by its name; the tags left open are those
\* the XML leaves open, so a document that is balanced stays balanced.
TagsMatch ==
  status = "ok" => OpenTags(ReadBack.events) = <<TRUE, open>>

\* "Returns Xml if the XML is malformed, or ValueTooLong if a string is longer"
\* (xml.rs:45): for these reasons, always, and for no other, in whatever event the
\* string is and even if the output could have been written up to it.
FailsAsDocumented ==
  Over => (status = "failed" <=> malformed \/ \E i \in DOMAIN xml : TooLongIn(xml[i]))
=============================================================================
