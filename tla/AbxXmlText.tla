----------------------------- MODULE AbxXmlText -----------------------------
(***************************************************************************)
(* The XML text of a document (render_event and as_str, src/event.rs; the  *)
(* loop of to_xml, src/decode/slice.rs), and what becomes of it when it is *)
(* encoded again by xml_to_abx.                                            *)
(*                                                                         *)
(* XML is a sequence of lexemes: a character, a reference to an entity, a  *)
(* tag, or another piece of markup.  A text is a sequence of characters,   *)
(* which are the bytes of its UTF-8, and a number is the natural number    *)
(* that its bits are.                                                      *)
(* What std, faster_hex and base64 make of floats and bytes is given.      *)
(*                                                                         *)
(* ABX has documents whose XML no reader accepts, or takes for another     *)
(* one: render_event writes names and the text of markup as they stand.    *)
(* The documents here are the others (WellFormed, Legal).  White space and *)
(* texts of any length are among them: a reader changes the white space of *)
(* attributes (Decoded), and the writer refuses what is too long (Refused).*)
(***************************************************************************)
EXTENDS AbxXmlEvents, Integers, SequencesExt

CONSTANTS DocEvents,      \* the events of the documents, which are well-formed
          HalfInt,        \* half the numbers of an int's width: 2^31
          HalfLong,       \* half of a long's: 2^63
          MaxDoc          \* bound on the events of a document

ASSUME HalvesAssumption == HalfInt \in Nat \ {0} /\ HalfLong \in Nat \ {0}

VARIABLES doc,            \* the events so far
          tags,           \* the names of the open tags
          over,           \* the end of the document has been read
          buf             \* the XML so far

textVars == <<doc, tags, over, buf>>

-----------------------------------------------------------------------------
Digit == <<"0", "1", "2", "3", "4", "5", "6", "7", "8", "9", "a", "b", "c", "d", "e", "f">>

\* A natural number in a base.
Digits(n, base) ==
  LET text[k \in Nat] == IF k < base THEN <<Digit[k + 1]>>
                         ELSE Append(text[k \div base], Digit[(k % base) + 1])
  IN text[n]

SignedText(n, base) == IF n < 0 THEN <<"-">> \o Digits(0 - n, base) ELSE Digits(n, base)

\* format_signed_hex
SignedHex(n) == SignedText(n, 16)

Numbers    == {TYPE_INT, TYPE_INT_HEX, TYPE_LONG, TYPE_LONG_HEX}
Half(type) == IF type \in {TYPE_INT, TYPE_INT_HEX} THEN HalfInt ELSE HalfLong

\* Mutant: a u32 is not cast to i32 before it is widened.
NotCast(type, n) == n

\* `as i32 as i64`, `as i64`: the sign of the number's own width.
Signed(type, n) == IF n < Half(type) THEN n ELSE n - 2 * Half(type)

\* AttributeValue::as_str
AsStr(v) ==
  CASE v.type = TYPE_NULL -> <<>>
    [] v.type \in {TYPE_INT, TYPE_LONG} -> SignedText(Signed(v.type, v.bits), 10)
    [] v.type \in {TYPE_INT_HEX, TYPE_LONG_HEX} -> SignedHex(Signed(v.type, v.bits))
    [] v.type = TYPE_BOOLEAN_TRUE  -> <<"t", "r", "u", "e">>
    [] v.type = TYPE_BOOLEAN_FALSE -> <<"f", "a", "l", "s", "e">>
    [] OTHER -> v.value

\* The characters that are escaped, and the entities they become.
EntityOf(c) == CASE c = "<" -> "lt" [] c = ">" -> "gt" [] c = "&" -> "amp"
                 [] c = "quote" -> "quot" [] c = "'" -> "apos"
Specials == {"<", ">", "&", "quote", "'"}

Char(c) == <<"char", c>>
Ref(n)  == <<"ref", n>>

Verbatim(s) == [i \in DOMAIN s |-> Char(s[i])]

xml_escape(s) == [i \in DOMAIN s |-> IF s[i] \in Specials THEN Ref(EntityOf(s[i])) ELSE Char(s[i])]

\* push_attr_value: a string is escaped, the others need not be.
PushAttrValue(v) == IF v.type = TYPE_STRING THEN xml_escape(v.value) ELSE Verbatim(AsStr(v))

\* Mutant: the text is not escaped.
TextVerbatim(e) == Verbatim(e.text)
TextPiece(e)    == xml_escape(e.text)

Tag(e) == <<"<", e.text, [i \in DOMAIN e.attributes |->
                            <<e.attributes[i].name, PushAttrValue(e.attributes[i])>>]>>

\* render_event
RenderEvent(e) ==
  CASE e.command = CMD_START_TAG  -> <<Tag(e)>>
    [] e.command = CMD_END_TAG    -> << <<"</", e.text>> >>
    [] e.command = CMD_TEXT       -> TextPiece(e)
    [] e.command = CMD_CDSECT     -> << <<"<![CDATA[", e.text>> >>
    [] e.command = CMD_COMMENT    -> << <<"<!--", e.text>> >>
    [] e.command = CMD_PROCESSING_INSTRUCTION -> << <<"<?", e.text>> >>
    [] e.command = CMD_ENTITY_REF -> << Ref(e.text[1]) >>
    [] e.command = CMD_IGNORABLE_WHITESPACE -> Verbatim(e.text)
    [] e.command = CMD_DOCDECL    -> << <<"<!DOCTYPE ", e.text>> >>
    [] OTHER                      -> <<>>

\* `<?xml version="1.0" encoding="UTF-8"?>`
XmlDecl == <<"<?xml">>

\* Lists of characters, with none that would be markup.
IsList(s)  == s \in Seq(Range(s))
IsPlain(s) == IsList(s) /\ Range(s) \cap Specials = {}

\* Numbers have the bits of their width; what std, faster_hex and base64 make of the others has
\* nothing to be escaped in it.
IsValue(v) == /\ v.type = TYPE_STRING => IsList(v.value)
              /\ v.type \in Numbers => v.bits \in 0..(2 * Half(v.type) - 1)
              /\ v.type \notin Numbers \cup {TYPE_STRING} => IsPlain(v.value)

LineEnds == {"CR", "LF"}
Blanks   == {" ", "tab"} \cup LineEnds

\* A name, which ends where other characters begin.
IsName(s) == s # <<>> /\ IsPlain(s) /\ Range(s) \cap (Blanks \cup {"/", "=", "!", "?"}) = {}

\* What a reader of XML asks of an event: names are names and stand once in a tag, a piece of
\* markup does not hold what ends it, and a processing instruction is no XML declaration.
WellFormed(e) ==
  LET t == e.text
      as == e.attributes
      Holds(s, ending) == ending \in SubSeqs(s)
  IN /\ e.command \in {CMD_START_TAG, CMD_END_TAG} => IsName(t)
     /\ \A k \in DOMAIN as : /\ IsName(as[k].name)
                            /\ \A l \in DOMAIN as : as[l].name = as[k].name => l = k
     /\ e.command = CMD_CDSECT  => ~Holds(t, <<"]", "]", ">">>)
     /\ e.command = CMD_COMMENT => ~Holds(<<"-", "-">> \o t, <<"-", "-", ">">>)
     /\ e.command = CMD_PROCESSING_INSTRUCTION =>
          t # <<>> /\ ~Holds(<<"?">> \o t, <<"?", ">">>) /\ ~IsPrefix(<<"x", "m", "l">>, t)
     /\ e.command = CMD_DOCDECL =>
          t # <<>> /\ t[1] \notin Blanks /\ Range(t) \cap {"<", ">", "[", "quote", "'"} = {}

\* A reference has a name, as one element; ignorable white space is not markup.
ASSUME DocEventsAssumption ==
  \A e \in DocEvents :
    /\ IsList(e.text) /\ IsList(e.attributes)
    /\ \A k \in DOMAIN e.attributes : IsValue(e.attributes[k])
    /\ e.command = CMD_ENTITY_REF => Len(e.text) = 1
    /\ e.command = CMD_IGNORABLE_WHITESPACE => IsPlain(e.text)
    /\ WellFormed(e)

\* The document is rendered as it is read: what has been read so far.
TextInit == /\ doc = <<>>
            /\ tags = <<>>
            /\ over = FALSE
            /\ buf = <<XmlDecl>>

\* A document whose tags match, as the reader of its XML will ask.
Legal(e) == e.command = CMD_END_TAG => tags # <<>> /\ Last(tags) = e.text

RenderNext(e) ==
  /\ ~over
  /\ Len(doc) < MaxDoc
  /\ Legal(e)
  /\ doc' = Append(doc, e)
  /\ tags' = CASE e.command = CMD_START_TAG -> Append(tags, e.text)
               [] e.command = CMD_END_TAG   -> Front(tags)
               [] OTHER                     -> tags
  /\ buf' = buf \o RenderEvent(e)
  /\ over' = (e.command = CMD_END_DOCUMENT)

TextNext == \E e \in DocEvents : RenderNext(e)

TextSpec == TextInit /\ [][TextNext]_textVars

-----------------------------------------------------------------------------
\* The value of an attribute, as a reader unescapes it.
Unescaped(lexemes) ==
  [i \in DOMAIN lexemes |->
     IF lexemes[i][1] = "ref" THEN CHOOSE c \in Specials : EntityOf(c) = lexemes[i][2]
                              ELSE lexemes[i][2]]

\* Attribute::normalized_value, for XML 1.0: a tab or the end of a line becomes a space.  CR LF
\* ends one line.
Spacing(s, i) ==
  IF s[i] = "LF" /\ i > 1 /\ s[i - 1] = "CR" THEN <<>>
  ELSE IF s[i] \in Blanks THEN <<" ">> ELSE <<s[i]>>
Normalized(s) == FlattenSeq([i \in DOMAIN s |-> Spacing(s, i)])

\* Mutant: the value is unescaped and not normalized.
NotNormalized(lexemes) == Unescaped(lexemes)

\* start_tag_attributes
Decoded(lexemes) == Normalized(Unescaped(lexemes))

\* What the quick_xml reader finds in XML: a run of characters is one text.
Markup(kind, text) == [kind |-> kind, text |-> text, attributes |-> <<>>]

ReadLexeme(found, x) ==
  CASE x[1] = "char" ->
         IF found # <<>> /\ Last(found).kind = "Text"
         THEN Append(Front(found), [Last(found) EXCEPT !.text = Append(@, x[2])])
         ELSE Append(found, Markup("Text", <<x[2]>>))
    [] x[1] = "ref" -> Append(found, Markup("GeneralRef", <<x[2]>>))
    [] x[1] = "<"   -> Append(found, [kind |-> "Start", text |-> x[2],
                                      attributes |-> [i \in DOMAIN x[3] |->
                                        [name |-> x[3][i][1], value |-> Decoded(x[3][i][2])]]])
    [] x[1] = "</"        -> Append(found, Markup("End", x[2]))
    [] x[1] = "<![CDATA[" -> Append(found, Markup("CData", x[2]))
    [] x[1] = "<!--"      -> Append(found, Markup("Comment", x[2]))
    [] x[1] = "<?"        -> Append(found, Markup("PI", x[2]))
    [] x[1] = "<!DOCTYPE "  -> Append(found, Markup("DocType", x[2]))
    [] x[1] = "<?xml"     -> Append(found, Markup("Decl", <<>>))

ReadXml(lexemes) ==
  LET found[n \in 0..Len(lexemes)] == IF n = 0 THEN <<>> ELSE ReadLexeme(found[n - 1], lexemes[n])
  IN found[Len(lexemes)]

\* xml_to_abx of an XML text: it fails if a string of it, which may be several texts of the
\* document run together or bytes in hex, is too long; else these are the events, as
\* AbxXml shows of the bytes.
Refused(lexemes) == \E i \in DOMAIN ReadXml(lexemes) : TooLongIn(ReadXml(lexemes)[i])
Translations(xs) == FlattenSeq([i \in DOMAIN xs |-> Translation(xs[i])])
Again(lexemes)   == Translations(ReadXml(lexemes))

\* to_xml of events.
Pieces(evs) == FlattenSeq([i \in DOMAIN evs |-> RenderEvent(evs[i])])
ToXml(evs)  == <<XmlDecl>> \o Pieces(evs)

-----------------------------------------------------------------------------
\* No character stands in XML where it would be markup.
Bare(lexemes, cs) == \E i \in DOMAIN lexemes : lexemes[i][1] = "char" /\ lexemes[i][2] \in cs
Readable(lexemes) ==
  /\ ~Bare(lexemes, {"<", "&"})
  /\ \A i \in DOMAIN lexemes : lexemes[i][1] = "<" =>
       \A k \in DOMAIN lexemes[i][3] : ~Bare(lexemes[i][3][k][2], {"<", "&", "quote"})

\* The same text, with the white space of its attributes as a reader sees it.
Respaced(x) ==
  IF x[1] = "<" THEN <<"<", x[2], [k \in DOMAIN x[3] |->
                         <<x[3][k][1], xml_escape(Normalized(Unescaped(x[3][k][2])))>>]>>
  ELSE x
Spaced(lexemes) == [i \in DOMAIN lexemes |-> Respaced(lexemes[i])]

\* The XML text of a well-formed document, at every event: unless xml_to_abx refuses it, which
\* it does for a string that is too long, what it becomes is rendered as the same text but
\* for the white space of attributes, in which a tab or a line's end is a space from then
\* on.  That text is not refused, and encoded and rendered again it is the same: an escaped
\* character comes back as an entity reference ("Entity references in text become
\* EntityReference", xml.rs:39) and texts run together, but nothing changes any more.
XmlStable ==
  /\ Readable(buf)
  /\ ~Refused(buf) => LET once == ToXml(Again(buf)) IN
                       /\ once = Spaced(buf)
                       /\ ~Refused(once)
                       /\ ToXml(Again(once)) = once

Predefined == {EntityOf(c) : c \in Specials}

\* The characters of a document's text, an entity reference being what it stands for.
CharactersOf(e) ==
  CASE e.command \in {CMD_TEXT, CMD_IGNORABLE_WHITESPACE} -> e.text
    [] e.command = CMD_ENTITY_REF -> IF e.text[1] \in Predefined
                                     THEN <<CHOOSE c \in Specials : EntityOf(c) = e.text[1]>>
                                     ELSE e.text
    [] OTHER -> <<>>
Characters(evs) == FlattenSeq([i \in DOMAIN evs |-> CharactersOf(evs[i])])

\* Its tags, with the text of each attribute.
TagOf(e) ==
  IF e.command = CMD_START_TAG
  THEN << <<e.text, [k \in DOMAIN e.attributes |->
                       <<e.attributes[k].name, AsStr(e.attributes[k])>>]>> >>
  ELSE <<>>
Tags(evs) == FlattenSeq([i \in DOMAIN evs |-> TagOf(evs[i])])

\* The tags as a reader of XML sees them.
TagsSpaced(ts) == [i \in DOMAIN ts |-> <<ts[i][1], [k \in DOMAIN ts[i][2] |->
                                          <<ts[i][2][k][1], Normalized(ts[i][2][k][2])>>]>>]

\* Of a well-formed document, ABX to XML and back, unless a string is too long for the second
\* step, keeps every character of the text, white space included, and for every attribute
\* the text that as_str gives, with a space for a tab or a line's end: "in attribute values
\* they are decoded" (xml.rs:40) undoes what push_attr_value escapes, and push_attr_value
\* says the same as as_str, which repeats it (event.rs:75, 267).
ContentSurvives ==
  ~Refused(buf) => /\ Characters(Again(buf)) = Characters(doc)
                   /\ Tags(Again(buf)) = TagsSpaced(Tags(doc))

\* The number that digits stand for, and the one that a text with a sign does.
Worth(c) == (CHOOSE i \in DOMAIN Digit : Digit[i] = c) - 1
Natural(digits, base) ==
  LET value[i \in 0..Len(digits)] == IF i = 0 THEN 0 ELSE value[i - 1] * base + Worth(digits[i])
  IN value[Len(digits)]
Number(text, base) == IF text[1] = "-" THEN 0 - Natural(Tail(text), base) ELSE Natural(text, base)

\* "IntHex and LongHex are signed, like Java's Integer.toString(v, 16)" (event.rs:63): the text
\* of a number, in hex or in decimal, reads back as the number of the type's width that has
\* its bits, the least one, whose negation does not fit, included; one text for each.
NumbersReadBack ==
  \A i \in DOMAIN doc : \A k \in DOMAIN doc[i].attributes :
    LET v == doc[i].attributes[k]
        h == Half(v.type)
        base == IF v.type \in {TYPE_INT_HEX, TYPE_LONG_HEX} THEN 16 ELSE 10
        n == Number(AsStr(v), base)
    IN v.type \in Numbers =>
         /\ n \in (0 - h)..(h - 1)
         /\ n % (2 * h) = v.bits
         /\ AsStr(v)[1] = "0" => AsStr(v) = <<"0">>
=============================================================================
