---------------------------- MODULE MCDocuments ----------------------------
(***************************************************************************)
(* Inputs for the model checker: documents put together from the pieces    *)
(* the grammar reads, and cut or corrupted ones.                           *)
(***************************************************************************)
EXTENDS AbxWire, SequencesExt

\* ASCII stands for valid UTF-8; 255 appears in no UTF-8 string.
MCUtf8(s) == \A i \in DOMAIN s : s[i] < 128

\* A two-byte field, a string or blob with its length, a string new to the pool.
Field(n)   == U16Bytes(n)
Payload16(s) == U16Bytes(Len(s)) \o s
NewName(s) == Field(INTERNED_NEW) \o Payload16(s)

StartTag(name) == <<TYPE_STRING_INTERNED + CMD_START_TAG>> \o name
EndTag(name)   == <<TYPE_STRING_INTERNED + CMD_END_TAG>> \o name
Attr(type, name, value) == <<type + CMD_ATTRIBUTE>> \o name \o value
Text(cmd, s)   == <<TYPE_STRING + cmd>> \o Payload16(s)

\* Every command and every attribute type, as the writer would put them out.
Everything ==
  MAGIC \o <<TYPE_NULL + CMD_START_DOCUMENT>>
        \o StartTag(NewName(<<97>>))
        \o Attr(TYPE_NULL, NewName(<<>>), <<>>)
        \o Attr(TYPE_STRING, Field(0), Payload16(<<98, 99>>))
        \o Attr(TYPE_STRING_INTERNED, Field(1), NewName(<<98>>))
        \o Attr(TYPE_STRING_INTERNED, Field(1), Field(2))
        \o Attr(TYPE_BYTES_HEX, Field(0), Payload16(<<255>>))
        \o Attr(TYPE_BYTES_BASE64, Field(0), Payload16(<<>>))
        \o Attr(TYPE_INT, Field(0), <<0, 0, 0, 7>>)
        \o Attr(TYPE_INT_HEX, Field(0), <<255, 255, 255, 255>>)
        \o Attr(TYPE_LONG, Field(0), <<0, 0, 0, 0, 0, 0, 0, 9>>)
        \o Attr(TYPE_LONG_HEX, Field(0), <<0, 0, 0, 0, 0, 0, 0, 10>>)
        \o Attr(TYPE_FLOAT, Field(0), <<63, 128, 0, 0>>)
        \o Attr(TYPE_DOUBLE, Field(0), <<63, 240, 0, 0, 0, 0, 0, 0>>)
        \o Attr(TYPE_BOOLEAN_TRUE, Field(0), <<>>)
        \o Attr(TYPE_BOOLEAN_FALSE, Field(0), <<>>)
        \o Text(CMD_TEXT, <<99>>) \o Text(CMD_COMMENT, <<>>)
        \o <<TYPE_NULL + CMD_CDSECT>>
        \o EndTag(Field(0))
        \o <<TYPE_NULL + CMD_END_DOCUMENT>>

\* A document cut after every byte, the header included.
Cuts(d) == {SubSeq(d, 1, n) : n \in 0..Len(d)}

\* All sequences of at most n pieces, put one after the other.
Assembled(Pieces, n) ==
  {MAGIC \o FlattenSeq(ps) : ps \in UNION {[1..k -> Pieces] : k \in 0..n}}

\* The pieces a client's document is made of, sound and unsound ones: whole
\* tags, dangling attributes and indices, bad strings, lone bytes.
Pieces == { StartTag(NewName(<<97>>)),
            StartTag(Field(0)),
            Attr(TYPE_NULL, Field(1), <<>>),
            Attr(TYPE_STRING_INTERNED, Field(0), NewName(<<98>>)),
            EndTag(NewName(<<255>>)),
            EndTag(Field(0)),
            Text(CMD_TEXT, <<>>),
            <<TYPE_STRING + CMD_ATTRIBUTE>>,
            Field(1) }

WrongMagic == {<<65, 66, 88, 1>>, <<65, 66, 88, 1, 16>>}
=============================================================================
