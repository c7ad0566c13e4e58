---------------------------- MODULE MCAbxXmlText ----------------------------
EXTENDS AbxXmlText

a == <<"a">>
b == <<"b">>
c == <<"c">>

Tagged(name, as)  == AnEvent(CMD_START_TAG, name, as)
Attrib(name, type, value) == [name |-> name, type |-> type, value |-> value, bits |-> 0]
Bits(name, type, n)       == [Attrib(name, type, <<>>) EXCEPT !.bits = n]

\* Every int, and the longs at the ends of their range and about 16.
Ints  == 0..(2 * HalfInt - 1)
Longs == {0, 15, 16, HalfLong - 1, HalfLong, 2 * HalfLong - 1}
NumberAttribs == {Bits(a, t, n) : t \in {TYPE_INT, TYPE_INT_HEX}, n \in Ints}
                   \cup {Bits(a, t, n) : t \in {TYPE_LONG, TYPE_LONG_HEX}, n \in Longs}

\* Five bytes, whose digits are longer than a payload of 8.
LongHex == <<"0", "1", "2", "3", "4", "5", "6", "7", "8", "9">>

MCEvents ==
  {Tagged(a, <<n>>) : n \in NumberAttribs}
    \cup {Tagged(b, <<>>),
          Tagged(a, <<Attrib(b, TYPE_NULL, <<>>), Attrib(a, TYPE_STRING, <<"x", "quote", "<", "&">>),
                      Attrib(c, TYPE_BOOLEAN_FALSE, <<>>)>>),
          Tagged(b, <<Attrib(a, TYPE_BOOLEAN_TRUE, <<>>), Attrib(b, TYPE_FLOAT, <<"1", ".", "0">>),
                      Attrib(c, TYPE_STRING, <<"'", ">">>)>>),
          Tagged(b, <<Attrib(a, TYPE_STRING, <<"tab", "&", "CR", "LF">>),
                      Attrib(b, TYPE_STRING, <<"LF", " ", "CR">>)>>),
          Tagged(b, <<Attrib(a, TYPE_BYTES_HEX, LongHex)>>),
          AnEvent(CMD_END_TAG, a, <<>>), AnEvent(CMD_END_TAG, b, <<>>),
          AnEvent(CMD_TEXT, <<>>, <<>>), AnEvent(CMD_TEXT, <<"x", "<", "y">>, <<>>),
          AnEvent(CMD_TEXT, <<"&", "'">>, <<>>), AnEvent(CMD_TEXT, <<"a", "m", "p">>, <<>>),
          AnEvent(CMD_TEXT, <<"x", "CR", "LF", "y", "tab">>, <<>>),
          AnEvent(CMD_IGNORABLE_WHITESPACE, <<" ">>, <<>>),
          AnEvent(CMD_ENTITY_REF, <<"amp">>, <<>>), AnEvent(CMD_ENTITY_REF, <<"nbsp">>, <<>>),
          AnEvent(CMD_CDSECT, <<"<", "&", "]">>, <<>>), AnEvent(CMD_COMMENT, <<"&">>, <<>>),
          AnEvent(CMD_PROCESSING_INSTRUCTION, <<"x">>, <<>>), AnEvent(CMD_DOCDECL, <<"x">>, <<>>),
          AnEvent(CMD_START_DOCUMENT, <<>>, <<>>), AnEvent(CMD_END_DOCUMENT, <<>>, <<>>)}
=============================================================================
