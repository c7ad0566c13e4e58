---------------------------- MODULE MCAbxElement ----------------------------
EXTENDS AbxElement

x == <<120>>
y == <<121>>
MCNames == {x, y, TEXT_FIELD}

Number == <<55>>
Word   == <<119>>
MCParses(s) == s = Number

Attrib(name, type, value) == [name |-> name, type |-> type, value |-> value]
Element(as, t, cs) ==
  [attributes |-> as, text |-> t, children |-> cs]

\* The children: with nothing, with text that parses and that does not, with an attribute.
Leaves == {Element(<<>>, t, <<>>) : t \in {<<>>, <<Number>>, <<Word>>}}
            \cup {Element(<<Attrib(x, TYPE_STRING, Word)>>, <<Number>>, <<>>)}

UpTo(S, n) == UNION {[1..k -> S] : k \in 0..n}

\* Elements for the shape of the map: the same names as attributes, children and text.
AShape == {Element(<<>>, <<Number>>, <<>>)}
Shapes == {Element(as, t, cs) :
             as \in UpTo({Attrib(n, TYPE_INT, <<0, 0, 0, 7>>) : n \in MCNames}, 2),
             t \in {<<>>, <<Word>>},
             cs \in UpTo({<<n, d>> : n \in MCNames, d \in AShape}, 3)}

\* Elements for the values: every type of attribute, every child, alone and repeated.
Values == {Element(<<Attrib(x, type, Number)>>, <<Word>>, <<>>) : type \in ValueTypes}
            \cup {Element(<<Attrib(x, TYPE_STRING, Word)>>, <<Number>>, cs) :
                    cs \in UpTo({<<y, d>> : d \in Leaves}, 3)}

MCElements == Leaves \cup AShape \cup Shapes \cup Values
MCRequests == {<<"any">>, <<"scalar">>, <<"enum">>, <<"struct">>, <<"option", "scalar">>,
               <<"option", "seq", "struct">>, <<"seq", "scalar">>, <<"seq", "option", "scalar">>}
MCStruct   == {<<"struct">>}
=============================================================================
