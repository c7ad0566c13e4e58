--------------------------- MODULE MCAbxTraversal ---------------------------
EXTENDS AbxTraversal

Tag(name)   == [command |-> CMD_START_TAG, text |-> name, attributes |-> <<>>]
Marked(name, mark) == [command |-> CMD_START_TAG, text |-> name, attributes |-> <<mark>>]
Other(cmd)  == [command |-> cmd, text |-> <<>>, attributes |-> <<>>]
Says(s)     == [command |-> CMD_TEXT, text |-> s, attributes |-> <<>>]

a == <<97>>
b == <<98>>

Alphabet == {Marked(a, "m"), Tag(b), Other(CMD_END_TAG), Says(<<120>>), Other(CMD_END_DOCUMENT)}

\* Longer documents, balanced ones: elements of the same name inside one another, mixed
\* text, events the traversal ignores.
Mixed == <<Other(CMD_START_DOCUMENT), Tag(b), Says(<<121>>), Marked(a, "1"), Says(<<120>>), Marked(a, "2"),
           Other(CMD_END_TAG), Says(<<121>>), Tag(b), Says(<<122>>), Other(CMD_END_TAG), Other(CMD_COMMENT),
           Other(CMD_END_TAG), Marked(a, "3"), Other(CMD_END_TAG), Other(CMD_END_TAG), Other(CMD_END_DOCUMENT)>>
Siblings == <<Tag(b), Marked(a, "1"), Other(CMD_END_TAG), Other(CMD_ENTITY_REF), Marked(a, "2"),
              Says(<<>>), Other(CMD_END_TAG), Other(CMD_END_TAG)>>

Sequences(n) == UNION {[1..k -> Alphabet] : k \in 0..n}

Stream(evs, ending) == [events |-> evs, ending |-> ending]
Broken == <<"error", [kind |-> "UnknownCommand", arg |-> 13]>>

MCStreams == {Stream(evs, <<"none">>) : evs \in Sequences(4) \cup {Mixed, Siblings}}
               \cup {Stream(evs, Broken) : evs \in Sequences(2) \cup {Mixed}}
MCWanted == {[op |-> "next", element |-> a], [op |-> "all", element |-> a],
             [op |-> "root", element |-> <<>>]}
MCNext   == {[op |-> "next", element |-> a]}
=============================================================================
