---------------------------- MODULE AbxXmlEvents ----------------------------
(***************************************************************************)
(* What xml_to_abx (src/encode/xml.rs) makes of each event of a quick_xml  *)
(* reader, which has a kind, a text and attributes.                        *)
(***************************************************************************)
EXTENDS AbxWire

\* The events of the ABX side.
AnEvent(command, text, attributes) == [command |-> command, text |-> text, attributes |-> attributes]
Document(command)  == AnEvent(command, <<>>, <<>>)

\* Every attribute is a string.
Strings(as) == [i \in DOMAIN as |-> [name |-> as[i].name, type |-> TYPE_STRING, value |-> as[i].value]]

Started(x) == AnEvent(CMD_START_TAG, x.text, Strings(x.attributes))
Ended(x)   == AnEvent(CMD_END_TAG, x.text, <<>>)

TextCommand == [Text |-> CMD_TEXT, GeneralRef |-> CMD_ENTITY_REF, CData |-> CMD_CDSECT,
                Comment |-> CMD_COMMENT, PI |-> CMD_PROCESSING_INSTRUCTION, DocType |-> CMD_DOCDECL]

\* Mutants: an empty element is not closed; a declaration is kept.
NeverClosed(x)  == <<Started(x)>>
KeptDecl(x) == <<AnEvent(CMD_PROCESSING_INSTRUCTION, x.text, <<>>)>>

EmptyElement(x) == <<Started(x), Ended(x)>>
Declaration(x)  == <<>>

XmlKinds == {"Start", "Empty", "End", "Decl"} \cup DOMAIN TextCommand

Translation(x) ==
  CASE x.kind = "Start" -> <<Started(x)>>
    [] x.kind = "Empty" -> EmptyElement(x)
    [] x.kind = "End"   -> <<Ended(x)>>
    [] x.kind = "Decl"  -> Declaration(x)
    [] OTHER            -> <<AnEvent(TextCommand[x.kind], x.text, <<>>)>>

\* What the writer refuses: a text, a value or a name longer than a payload.
TooLongIn(x) ==
  \/ x.kind # "Decl" /\ Len(x.text) > MAX_UNSIGNED_SHORT
  \/ \E i \in DOMAIN x.attributes : \/ Len(x.attributes[i].name) > MAX_UNSIGNED_SHORT
                                   \/ Len(x.attributes[i].value) > MAX_UNSIGNED_SHORT
=============================================================================
