--------------------------- MODULE MCAbxRoundTrip ---------------------------
EXTENDS AbxRoundTrip

MCUtf8(s) == \A i \in DOMAIN s : s[i] < 128

a == <<97>>
b == <<98>>
c == <<>>
d == <<97, 98>>
TooLongFor3 == <<97, 98, 99, 100>>

AnEvent(command, text, attributes) ==
  [command |-> command, text |-> text, attributes |-> attributes]
Attrib(name, type, value) == [name |-> name, type |-> type, value |-> value]

\* With Radix = 2 the pool takes 3 names and a payload 3 bytes.
MCEvents ==
  { AnEvent(CMD_START_TAG, a, <<Attrib(b, TYPE_NULL, <<>>)>>),
    AnEvent(CMD_START_TAG, c, <<Attrib(a, TYPE_INT, <<0, 1, 31, 63>>),
                                Attrib(d, TYPE_STRING, <<99, 99, 99>>)>>),
    AnEvent(CMD_START_TAG, b, <<Attrib(c, TYPE_BYTES_HEX, TooLongFor3)>>),
    AnEvent(CMD_START_TAG, d, <<>>),
    AnEvent(CMD_END_TAG, d, <<>>),
    AnEvent(CMD_END_TAG, TooLongFor3, <<>>),
    AnEvent(CMD_TEXT, b, <<>>),
    AnEvent(CMD_END_DOCUMENT, <<>>, <<>>) }

\* Every command and every type of value, one at a time.
Numbers == {<<0, 1, 127, 255>>}
Longs   == {<<255, 0, 15, 47, 63, 1, 2, 3>>}
MCValues == {Attrib(b, t, <<>>) : t \in NoBytesTypes}
              \cup {Attrib(b, t, v) : t \in BlobTypes \cup {TYPE_STRING}, v \in {<<>>, <<97, 31>>}}
              \cup {Attrib(b, t, v) : t \in FourByteTypes, v \in Numbers}
              \cup {Attrib(a, t, v) : t \in EightByteTypes, v \in Longs}
MCEveryEvent ==
  {AnEvent(command, s, <<>>) : command \in TextCommands, s \in {<<>>, <<47>>}}
    \cup {AnEvent(command, <<>>, <<>>) : command \in {CMD_START_DOCUMENT, CMD_END_DOCUMENT}}
    \cup {AnEvent(CMD_END_TAG, a, <<>>)}
    \cup {AnEvent(CMD_START_TAG, a, <<v>>) : v \in MCValues}
    \cup {AnEvent(CMD_START_TAG, c, <<v, w>>) : v, w \in MCValues}
=============================================================================
