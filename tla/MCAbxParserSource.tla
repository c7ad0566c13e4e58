------------------------- MODULE MCAbxParserSource -------------------------
EXTENDS AbxParserSource, MCDocuments

MCDocs == Assembled(Pieces, 4) \cup Cuts(Everything) \cup WrongMagic
=============================================================================
