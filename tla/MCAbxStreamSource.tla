------------------------- MODULE MCAbxStreamSource -------------------------
EXTENDS AbxStreamSource, MCDocuments

\* A name introduced and used in one event, which a failing read cuts anywhere.
Twice == MAGIC \o StartTag(NewName(<<97>>)) \o Attr(TYPE_NULL, Field(0), <<>>)
               \o EndTag(Field(0)) \o Text(CMD_TEXT, <<99>>)

\* A failing event that introduces a string before it fails on a dangling index.
Dangling == MAGIC \o StartTag(NewName(<<97>>)) \o Attr(TYPE_NULL, Field(1), <<>>)

\* Two tags and an attribute, every way to cut the document short.
Nested == MAGIC \o StartTag(NewName(<<97>>)) \o Attr(TYPE_INT, Field(0), <<0, 0, 0, 7>>)
                \o StartTag(Field(0))

\* Many small events: a document longer than any buffer it needs.
ManyEvents == MAGIC \o FlattenSeq([i \in 1..5 |-> Text(CMD_TEXT, <<97>>)])

\* Up to two pieces, and one or two behind a start tag: an unsound first piece is as far as
\* the parser gets.
MCDocs == Assembled(Pieces, 2) \cup {MAGIC \o StartTag(NewName(<<97>>)) \o p \o q : p, q \in Pieces}
            \cup Cuts(Nested) \cup {Twice, Dangling, ManyEvents} \cup WrongMagic
MCHeaderOnly == {MAGIC}
=============================================================================
