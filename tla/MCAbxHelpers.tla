---------------------------- MODULE MCAbxHelpers ----------------------------
EXTENDS AbxHelpers

Other(cmd) == [command |-> cmd, text |-> <<>>, attributes |-> <<>>]
Tag(name, as) == [command |-> CMD_START_TAG, text |-> name, attributes |-> as]
Attrib(name, type, value) == [name |-> name, value |-> [type |-> type, bytes |-> value]]

a == <<97>>
b == <<98>>
x == <<120>>
y == <<121>>

\* An int 1 and a string "1" are different values with the same rendering.
MCAsStr(v) == IF v.type = TYPE_INT THEN <<48 + v.bytes[4]>> ELSE v.bytes

Alphabet == { Tag(a, <<Attrib(x, TYPE_INT, <<0, 0, 0, 1>>)>>),
              Tag(a, <<Attrib(y, TYPE_NULL, <<>>)>>),
              Tag(a, <<Attrib(y, TYPE_STRING, <<50>>), Attrib(x, TYPE_STRING, <<49>>), Attrib(x, TYPE_NULL, <<>>)>>),
              Tag(b, <<Attrib(x, TYPE_STRING, <<51>>)>>),
              [Other(CMD_TEXT) EXCEPT !.text = x],
              Other(CMD_START_DOCUMENT),
              Other(CMD_END_DOCUMENT) }

Sequences(n) == UNION {[1..k -> Alphabet] : k \in 0..n}
Stream(evs, ending) == [events |-> evs, ending |-> ending]
Broken == <<"error", [kind |-> "UnknownCommand", arg |-> 13]>>

MCStreams == {Stream(evs, <<"none">>) : evs \in Sequences(3)}
               \cup {Stream(evs, Broken) : evs \in Sequences(2)}

MCCalls == {[op |-> op, element |-> a, attr |-> x] :
              op \in {"find_attribute", "find_all_attributes", "attributes_of", "all_attributes_of",
                      "into_map", "to_xml", "write_xml"}}

\* Two calls of any kind, mixed; find_attribute goes on until it has nothing left to find.
MCMaxCalls(c) == IF c.op = "find_attribute" THEN 4 ELSE 2
=============================================================================
