------------------------------ MODULE MCAbxXml ------------------------------
EXTENDS AbxXml

MCUtf8(s) == \A i \in DOMAIN s : s[i] < 128

a == <<97>>
b == <<98>>
c == <<97, 98>>
TooLongFor3 == <<97, 98, 99, 100>>

Tag(kind, name, as) == [kind |-> kind, text |-> name, attributes |-> as]
Other(kind, text)   == [kind |-> kind, text |-> text, attributes |-> <<>>]
With(name, value)   == <<[name |-> name, value |-> value]>>

\* With Radix = 2 the pool takes 3 names and a payload 3 bytes.
MCXmlEvents ==
  { Tag("Start", a, <<>>), Tag("Start", b, With(c, a) \o With(a, <<>>)),
    Tag("Empty", a, With(b, c)), Tag("Empty", c, <<>>), Tag("Start", c, With(a, TooLongFor3)),
    Other("End", a), Other("End", b), Other("Text", a), Other("CData", TooLongFor3),
    Other("Decl", TooLongFor3), Other("Decl", b), Other("GeneralRef", b), Other("Comment", <<>>), Other("PI", a),
    Other("DocType", a) }

\* What the XML becomes.
MCWritten == {Document(CMD_START_DOCUMENT), Document(CMD_END_DOCUMENT)}
               \cup UNION {ToSet(Translation(x)) : x \in MCXmlEvents}
=============================================================================
