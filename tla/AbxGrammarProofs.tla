-------------------------- MODULE AbxGrammarProofs --------------------------
(***************************************************************************)
(* Lemmas about one step of the grammar: what it reads stays inside the    *)
(* window, what it pushes goes to the end of the pool, and every field     *)
(* keeps its type.                                                         *)
(***************************************************************************)
EXTENDS AbxGrammar, SequenceTheorems, WellFoundedInduction, FiniteSetTheorems, TLAPS

\* Two-byte fields are natural numbers, and INTERNED_NEW is one.
LEMMA FieldsAreNats ==
  /\ INTERNED_NEW \in Nat
  /\ \A hi, lo \in Byte : U16(hi, lo) \in Nat
<1>1. Radix \in Nat /\ Radix >= 2
  BY RadixAssumption
<1>2. Radix * Radix \in Nat /\ Radix * Radix >= 1
  BY <1>1
<1>3. ASSUME NEW hi \in Byte, NEW lo \in Byte
      PROVE  U16(hi, lo) \in Nat
  <2>1. hi % Radix \in Nat /\ lo % Radix \in Nat
    BY <1>1 DEF Byte
  <2>2. (hi % Radix) * Radix \in Nat
    BY <1>1, <2>1
  <2> QED
    BY <2>1, <2>2 DEF U16
<1> QED
  BY <1>2, <1>3 DEF INTERNED_NEW

\* The nibbles of a byte.
LEMMA Nibbles ==
  ASSUME NEW b \in Byte
  PROVE  Command(b) \in 0..15 /\ TypeNibble(b) \in Byte
BY DEF Command, TypeNibble, Byte

\* The states that differ from g in nothing but what has been decided so far:
\* the input position and the pool are those of g.
SameInput(g, h) == h.cur = g.cur /\ h.pool = g.pool

LEMMA StartType ==
  ASSUME NEW p \in Seq(Bytes)
  PROVE  Start(p) \in GrammarState
<1>1. NoError \in Error
  BY DEF NoError, Error
<1>2. <<>> \in Bytes /\ <<>> \in Seq(Attribute)
  BY DEF Bytes
<1>3. "text" \in Slots /\ "token" \in Reading \cup Final /\ 0 \in Byte
  BY DEF Slots, Reading, Byte
<1>4. Start(p) \in GrammarRecord
  BY <1>1, <1>2, <1>3 DEF Start, GrammarRecord
<1>5. Start(p).slot = "text"
  BY DEF Start
<1> QED
  BY <1>4, <1>5 DEF GrammarState

LEMMA FailType ==
  ASSUME NEW g \in GrammarState, NEW arg \in Nat,
         NEW kind \in {"UnexpectedEof: primitive", "UnexpectedEof: UTF string payload",
                       "UnexpectedEof: bytes payload", "BadInternedIndex",
                       "InvalidUtf8", "UnknownAttributeType", "UnknownCommand"}
  PROVE  Fail(g, kind, arg) \in GrammarState /\ SameInput(g, Fail(g, kind, arg))
<1> DEFINE e == [kind |-> kind, arg |-> arg]
<1>1. e \in Error
  BY DEF Error
<1>2. Fail(g, kind, arg) = [g EXCEPT !.at = "failed", !.error = e]
  BY DEF Fail
<1> HIDE DEF e
<1> QED
  BY <1>1, <1>2 DEF GrammarState, GrammarRecord, Final, SameInput

LEMMA ReadStringType ==
  ASSUME NEW g \in GrammarState, NEW s \in Slots,
         s = "value" => g.type \in ValueTypes \cup {TYPE_STRING_INTERNED}
  PROVE  /\ ReadIndex(g, s) \in GrammarState /\ SameInput(g, ReadIndex(g, s))
         /\ ReadLength(g, s) \in GrammarState /\ SameInput(g, ReadLength(g, s))
BY DEF ReadIndex, ReadLength, GrammarState, GrammarRecord, Reading, SameInput

LEMMA ReadScalarType ==
  ASSUME NEW g \in GrammarState, NEW n \in Nat, g.type \in ValueTypes
  PROVE  ReadScalar(g, n) \in GrammarState /\ SameInput(g, ReadScalar(g, n))
BY DEF ReadScalar, GrammarState, GrammarRecord, Reading, Slots, SameInput

LEMMA PushAttributeType ==
  ASSUME NEW g \in GrammarState, NEW type \in ValueTypes, NEW value \in Bytes
  PROVE  PushAttribute(g, type, value) \in GrammarState
         /\ SameInput(g, PushAttribute(g, type, value))
<1> DEFINE x == [name |-> g.name, type |-> type, value |-> value]
<1>1. x \in Attribute
  BY DEF Attribute, GrammarState, GrammarRecord
<1>2. Append(g.attributes, x) \in Seq(Attribute)
  BY <1>1, AppendProperties DEF GrammarState, GrammarRecord
<1> QED
  BY <1>2 DEF PushAttribute, GrammarState, GrammarRecord, Reading, SameInput

\* The groups of types do not overlap: the order of the cases does not matter.
StringType == BlobTypes \cup {TYPE_STRING}
LEMMA TypesAreDistinct ==
  ASSUME NEW t
  PROVE  /\ t \in NoBytesTypes => t \notin StringType \cup {TYPE_STRING_INTERNED}
                                            \cup FourByteTypes \cup EightByteTypes
         /\ t \in StringType   => t \notin {TYPE_STRING_INTERNED}
                                            \cup FourByteTypes \cup EightByteTypes
         /\ t = TYPE_STRING_INTERNED => t \notin FourByteTypes \cup EightByteTypes
         /\ t \in FourByteTypes      => t \notin EightByteTypes
BY DEF StringType, NoBytesTypes, BlobTypes, FourByteTypes, EightByteTypes, TYPE_NULL,
       TYPE_STRING, TYPE_STRING_INTERNED, TYPE_BYTES_HEX, TYPE_BYTES_BASE64, TYPE_INT,
       TYPE_INT_HEX, TYPE_LONG, TYPE_LONG_HEX, TYPE_FLOAT, TYPE_DOUBLE,
       TYPE_BOOLEAN_TRUE, TYPE_BOOLEAN_FALSE

LEMMA AttrValueType ==
  ASSUME NEW g \in GrammarState
  PROVE  AttrValue(g) \in GrammarState /\ SameInput(g, AttrValue(g))
<1>1. g.type \in Byte /\ "value" \in Slots
  BY DEF GrammarState, GrammarRecord, Slots
<1>2. g.type \in Nat
  BY <1>1 DEF Byte
<1>3. <<>> \in Bytes
  BY DEF Bytes
<1>4. CASE g.type \in NoBytesTypes
  <2>1. AttrValue(g) = PushAttribute(g, g.type, <<>>)
    BY <1>4, TypesAreDistinct DEF AttrValue, StringType
  <2>2. g.type \in ValueTypes
    BY <1>4 DEF ValueTypes
  <2> QED
    BY <1>3, <2>1, <2>2, PushAttributeType
<1>5. CASE g.type \in StringType
  <2>1. AttrValue(g) = ReadLength(g, "value")
    BY <1>5, TypesAreDistinct DEF AttrValue, StringType
  <2>2. g.type \in ValueTypes
    BY <1>5 DEF ValueTypes, StringType
  <2> QED
    BY <1>1, <2>1, <2>2, ReadStringType
<1>6. CASE g.type = TYPE_STRING_INTERNED
  <2>1. AttrValue(g) = ReadIndex(g, "value")
    BY <1>6, TypesAreDistinct DEF AttrValue, StringType
  <2> QED
    BY <1>1, <1>6, <2>1, ReadStringType
<1>7. CASE g.type \in FourByteTypes \cup EightByteTypes
  <2>1. AttrValue(g) = ReadScalar(g, ScalarSize(g.type))
    BY <1>7, TypesAreDistinct DEF AttrValue, StringType
  <2>2. ScalarSize(g.type) \in Nat /\ g.type \in ValueTypes
    BY <1>7 DEF ScalarSize, ValueTypes
  <2> QED
    BY <2>1, <2>2, ReadScalarType
<1>8. CASE g.type \notin NoBytesTypes \cup StringType \cup {TYPE_STRING_INTERNED}
                          \cup FourByteTypes \cup EightByteTypes
  <2>1. AttrValue(g) = Fail(g, "UnknownAttributeType", g.type)
    BY <1>8 DEF AttrValue, StringType
  <2> QED
    BY <1>2, <2>1, FailType
<1> QED
  BY <1>4, <1>5, <1>6, <1>7, <1>8

LEMMA DeliverType ==
  ASSUME NEW g \in GrammarState, NEW s \in Bytes
  PROVE  Deliver(g, s) \in GrammarState /\ SameInput(g, Deliver(g, s))
<1>1. CASE g.slot = "tag"
  <2>1. Deliver(g, s) = [g EXCEPT !.at = "attrs", !.text = s]
    BY <1>1 DEF Deliver
  <2> QED
    BY <2>1 DEF GrammarState, GrammarRecord, Reading, SameInput
<1>2. CASE g.slot = "name"
  <2> DEFINE h == [g EXCEPT !.name = s]
  <2>1. Deliver(g, s) = AttrValue(h)
    BY <1>2 DEF Deliver
  <2>2. h \in GrammarState /\ SameInput(g, h)
    BY DEF GrammarState, GrammarRecord, SameInput
  <2> QED
    BY <2>1, <2>2, AttrValueType DEF SameInput
<1>3. CASE g.slot = "value"
  <2>1. Deliver(g, s) = PushAttribute(g, ValueType(g.type), s)
    BY <1>3 DEF Deliver
  <2>2. ValueType(g.type) \in ValueTypes
    BY <1>3 DEF GrammarState, ValueType, ValueTypes
  <2> QED
    BY <2>1, <2>2, PushAttributeType
<1>4. CASE g.slot \notin {"tag", "name", "value"}
  <2>1. Deliver(g, s) = [g EXCEPT !.at = "done", !.text = s]
    BY <1>4 DEF Deliver
  <2> QED
    BY <2>1 DEF GrammarState, GrammarRecord, Final, SameInput
<1> QED
  BY <1>1, <1>2, <1>3, <1>4

LEMMA TokenType ==
  ASSUME NEW g \in GrammarState, NEW b \in Byte, g.at = "token"
  PROVE  Token(g, b) \in GrammarState /\ SameInput(g, Token(g, b))
<1> DEFINE h == [g EXCEPT !.command = Command(b), !.type = TypeNibble(b)]
           ended == [h EXCEPT !.at = "done"]
<1>1. h \in GrammarState /\ SameInput(g, h) /\ h.command \in 0..15
  BY Nibbles DEF GrammarState, GrammarRecord, SameInput
<1> HIDE DEF h
<1>2. ended \in GrammarState /\ SameInput(h, ended)
  BY <1>1 DEF GrammarState, GrammarRecord, Final, SameInput
<1>3. h.command \in Nat
  BY <1>1
<1>4. \/ Token(g, b) = ended
      \/ Token(g, b) = ReadIndex(h, "tag")
      \/ Token(g, b) = ReadIndex(h, "end")
      \/ Token(g, b) = ReadLength(h, "text")
      \/ Token(g, b) = Fail(h, "UnknownCommand", h.command)
  BY DEF Token, h, TextCommands, CMD_START_DOCUMENT, CMD_END_DOCUMENT, CMD_START_TAG,
         CMD_END_TAG, CMD_TEXT, CMD_DOCDECL
<1>5. {"tag", "end", "text"} \subseteq Slots \ {"value"}
  BY DEF Slots
<1>6. Token(g, b) \in GrammarState /\ SameInput(h, Token(g, b))
  BY <1>1, <1>2, <1>3, <1>4, <1>5, ReadStringType, FailType
<1> QED
  BY <1>1, <1>6 DEF SameInput

LEMMA IndexType ==
  ASSUME NEW g \in GrammarState, NEW idx \in Nat
  PROVE  Index(g, idx) \in GrammarState /\ SameInput(g, Index(g, idx))
<1>1. CASE idx = INTERNED_NEW
  <2>1. Index(g, idx) = [g EXCEPT !.at = "length", !.interning = TRUE]
    BY <1>1 DEF Index
  <2> QED
    BY <2>1 DEF GrammarState, GrammarRecord, Reading, SameInput
<1>2. CASE idx # INTERNED_NEW /\ idx < Len(g.pool)
  <2>1. g.pool \in Seq(Bytes) /\ idx + 1 \in 1..Len(g.pool)
    BY <1>2 DEF GrammarState, GrammarRecord
  <2>2. g.pool[idx + 1] \in Bytes
    BY <2>1, ElementOfSeq
  <2> QED
    BY <1>2, <2>2, DeliverType DEF Index
<1>3. CASE idx # INTERNED_NEW /\ ~(idx < Len(g.pool))
  BY <1>3, FailType DEF Index
<1> QED
  BY <1>1, <1>2, <1>3

\* A pool only grows at its end.
PoolExtends(p, q) == Len(p) <= Len(q) /\ SubSeq(q, 1, Len(p)) = p

LEMMA PoolExtendsFacts ==
  ASSUME NEW p \in Seq(Bytes), NEW s \in Bytes
  PROVE  PoolExtends(p, p) /\ PoolExtends(p, Append(p, s))
<1>1. SubSeq(p, 1, Len(p)) = p
  BY SubSeqFull
<1>2. SubSeq(Append(p, s), 1, Len(p)) = p
  BY AppendProperties, LenProperties, SubSeqProperties, SeqEqual
<1> QED
  BY <1>1, <1>2, AppendProperties, LenProperties DEF PoolExtends

LEMMA PayloadType ==
  ASSUME NEW g \in GrammarState, NEW s \in Bytes
  PROVE  /\ Payload(g, s) \in GrammarState
         /\ Payload(g, s).cur = g.cur
         /\ PoolExtends(g.pool, Payload(g, s).pool)
<1> DEFINE h == [g EXCEPT !.pool = IF g.interning THEN Append(@, s) ELSE @]
<1>1. g.pool \in Seq(Bytes)
  BY DEF GrammarState, GrammarRecord
<1>2. Append(g.pool, s) \in Seq(Bytes)
  BY <1>1, AppendProperties
<1>3. h \in GrammarState /\ h.cur = g.cur /\ h.pool \in {g.pool, Append(g.pool, s)}
  BY <1>2 DEF GrammarState, GrammarRecord
<1>4. PoolExtends(g.pool, g.pool) /\ PoolExtends(g.pool, h.pool)
  BY <1>1, <1>3, PoolExtendsFacts
<1>5. CASE IsBlob(g)
  BY <1>4, <1>5, DeliverType DEF Payload, SameInput
<1>6. CASE ~IsBlob(g) /\ ~Utf8(s)
  <2>1. Payload(g, s) = Fail(g, "InvalidUtf8", 0)
    BY <1>6 DEF Payload
  <2>2. Fail(g, "InvalidUtf8", 0) \in GrammarState /\ SameInput(g, Fail(g, "InvalidUtf8", 0))
    BY FailType
  <2> QED
    BY <2>1, <2>2, <1>4 DEF SameInput
<1>7. CASE ~IsBlob(g) /\ Utf8(s)
  <2>1. Payload(g, s) = Deliver(h, s)
    BY <1>7 DEF Payload
  <2> HIDE DEF h
  <2> QED
    BY <2>1, <1>3, <1>4, DeliverType DEF SameInput
<1> QED
  BY <1>5, <1>6, <1>7

LEMMA WantsType ==
  ASSUME NEW g \in GrammarState
  PROVE  Wants(g) \in Nat
BY DEF Wants, GrammarState, GrammarRecord

LEMMA ShortType ==
  ASSUME NEW g \in GrammarState, NEW avail \in Nat, NEW partial \in BOOLEAN,
         avail < Wants(g)
  PROVE  Short(g, avail, partial) \in GrammarState
         /\ SameInput(g, Short(g, avail, partial))
<1>1. CASE partial
  <2> DEFINE h == [g EXCEPT !.at = "incomplete", !.more = Wants(g) - avail]
  <2>1. Wants(g) - avail \in Nat
    BY WantsType
  <2>2. h \in GrammarState /\ SameInput(g, h)
    BY <2>1 DEF GrammarState, GrammarRecord, Final, SameInput
  <2> QED
    BY <1>1, <2>2 DEF Short
<1>2. CASE ~partial /\ g.at = "attrs"
  <2>1. Short(g, avail, partial) = [g EXCEPT !.at = "done"]
    BY <1>2 DEF Short
  <2> QED
    BY <2>1 DEF GrammarState, GrammarRecord, Final, SameInput
<1>3. CASE ~partial /\ g.at # "attrs"
  <2> DEFINE kind == IF g.at # "payload" THEN "UnexpectedEof: primitive"
                     ELSE IF IsBlob(g) THEN "UnexpectedEof: bytes payload"
                     ELSE "UnexpectedEof: UTF string payload"
  <2>1. Short(g, avail, partial) = Fail(g, kind, 0)
    BY <1>3 DEF Short
  <2>2. kind \in {"UnexpectedEof: primitive", "UnexpectedEof: UTF string payload",
                  "UnexpectedEof: bytes payload"}
    OBVIOUS
  <2> HIDE DEF kind
  <2> QED
    BY <2>1, <2>2, FailType
<1> QED
  BY <1>1, <1>2, <1>3

LEMMA AttrsType ==
  ASSUME NEW g \in GrammarState, NEW b \in Byte
  PROVE  /\ Attrs(g, b) \in GrammarState
         /\ Attrs(g, b).cur \in {g.cur, g.cur + 1}
         /\ Attrs(g, b).pool = g.pool
<1>1. CASE Command(b) = CMD_ATTRIBUTE
  <2> DEFINE h == ReadIndex(g, "name")
             r == [h EXCEPT !.cur = g.cur + 1, !.type = TypeNibble(b)]
  <2>1. Attrs(g, b) = r
    BY <1>1 DEF Attrs
  <2>2. h \in GrammarState /\ h.pool = g.pool
    BY ReadStringType DEF Slots, SameInput
  <2>3. h.slot = "name" /\ h.at = "index"
    BY DEF ReadIndex, GrammarState, GrammarRecord
  <2>4. g.cur \in Nat
    BY DEF GrammarState, GrammarRecord
  <2>5. g.cur + 1 \in Nat /\ TypeNibble(b) \in Byte
    BY <2>4, Nibbles
  <2> HIDE DEF h
  <2>6. r \in GrammarState /\ r.cur = g.cur + 1 /\ r.pool = h.pool
    BY <2>2, <2>3, <2>5 DEF GrammarState, GrammarRecord
  <2> QED
    BY <2>1, <2>2, <2>6
<1>2. CASE Command(b) # CMD_ATTRIBUTE
  <2>1. Attrs(g, b) = [g EXCEPT !.at = "done"]
    BY <1>2 DEF Attrs
  <2> QED
    BY <2>1 DEF GrammarState, GrammarRecord, Final
<1> QED
  BY <1>1, <1>2

\* What a step leaves behind it: h follows g on the window W.
StepsTo(g, h, W) ==
  /\ h \in GrammarState
  /\ g.cur <= h.cur /\ h.cur <= Len(W)
  /\ PoolExtends(g.pool, h.pool)

\* What a primitive takes has been read, but for the byte that ends a start tag.
Reads(g, h) == \/ h.cur = g.cur + Wants(g)
               \/ g.at = "attrs" /\ h = [g EXCEPT !.at = "done"]

LEMMA TakeType ==
  ASSUME NEW g \in GrammarState, NEW W \in Bytes, g.at \in Reading,
         g.cur + Wants(g) <= Len(W)
  PROVE  StepsTo(g, Take(g, W), W) /\ Reads(g, Take(g, W))
<1> DEFINE h  == [g EXCEPT !.cur = g.cur + Wants(g)]
           b1 == W[g.cur + 1]
           b2 == W[g.cur + 2]
           s  == SubSeq(W, g.cur + 1, g.cur + Wants(g))
<1>1. g.cur \in Nat /\ Len(W) \in Nat /\ Wants(g) \in Nat
  BY WantsType, LenProperties DEF GrammarState, GrammarRecord, Bytes
<1>2. h \in GrammarState /\ h.cur = g.cur + Wants(g) /\ h.pool = g.pool
  <2>1. g.cur + Wants(g) \in Nat
    BY <1>1
  <2> QED
    BY <2>1 DEF GrammarState, GrammarRecord
<1>3. \A i \in 1..Len(W) : W[i] \in Byte
  BY ElementOfSeq DEF Bytes
<1>4. g.pool \in Seq(Bytes) /\ PoolExtends(g.pool, g.pool)
  BY <1>2, PoolExtendsFacts DEF GrammarState, GrammarRecord
<1>5. s \in Bytes
  <2>1. \A i \in (g.cur + 1)..(g.cur + Wants(g)) : W[i] \in Byte
    BY <1>1, <1>3
  <2> QED
    BY <1>1, <2>1, SubSeqProperties DEF Bytes
<1>6. ASSUME NEW r \in GrammarState, r.cur = h.cur, PoolExtends(h.pool, r.pool)
      PROVE  StepsTo(g, r, W) /\ Reads(g, r)
  BY <1>1, <1>2, <1>6 DEF StepsTo, Reads
<1> HIDE DEF h, s
<1>7. CASE g.at = "token"
  <2>1. Take(g, W) = Token(h, b1)
    BY <1>7 DEF Take, h
  <2>2. b1 \in Byte /\ h.at = "token"
    BY <1>1, <1>3, <1>7 DEF Wants, h, GrammarState, GrammarRecord
  <2> QED
    BY <2>1, <2>2, <1>2, <1>4, <1>6, TokenType DEF SameInput
<1>8. CASE g.at = "index"
  <2>1. Take(g, W) = Index(h, U16(b1, b2))
    BY <1>8 DEF Take, h
  <2>2. U16(b1, b2) \in Nat
    <3>1. Wants(g) = 2
      BY <1>8 DEF Wants
    <3>2. b1 \in Byte /\ b2 \in Byte
      BY <3>1, <1>1, <1>3
    <3> QED
      BY <3>2, FieldsAreNats
  <2> QED
    BY <2>1, <2>2, <1>2, <1>4, <1>6, IndexType DEF SameInput
<1>9. CASE g.at = "length"
  <2> DEFINE r == [h EXCEPT !.at = "payload", !.size = U16(b1, b2)]
  <2>1. Take(g, W) = r
    BY <1>9 DEF Take, h
  <2>2. U16(b1, b2) \in Nat
    <3>1. Wants(g) = 2
      BY <1>9 DEF Wants
    <3>2. b1 \in Byte /\ b2 \in Byte
      BY <3>1, <1>1, <1>3
    <3> QED
      BY <3>2, FieldsAreNats
  <2>3. r \in GrammarState /\ r.cur = h.cur /\ r.pool = h.pool
    BY <1>2, <2>2 DEF GrammarState, GrammarRecord, Reading
  <2> QED
    BY <2>1, <2>3, <1>2, <1>4, <1>6
<1>10. CASE g.at = "payload"
  <2>1. Take(g, W) = Payload(h, s)
    BY <1>10 DEF Take, h, s
  <2> QED
    BY <2>1, <1>2, <1>5, <1>6, PayloadType
<1>11. CASE g.at = "scalar"
  <2>1. Take(g, W) = Deliver(h, s)
    BY <1>11 DEF Take, h, s
  <2> QED
    BY <2>1, <1>2, <1>4, <1>5, <1>6, DeliverType DEF SameInput
<1>12. CASE g.at = "attrs"
  <2>1. Take(g, W) = Attrs(g, b1)
    BY <1>12 DEF Take
  <2>2. Wants(g) = 1
    BY <1>12 DEF Wants
  <2>3. b1 \in Byte
    BY <1>1, <1>3, <2>2
  <2>4. /\ Take(g, W) \in GrammarState
        /\ Take(g, W).cur \in {g.cur, g.cur + 1}
        /\ Take(g, W).pool = g.pool
    BY <2>1, <2>3, AttrsType
  <2>5. Reads(g, Take(g, W))
    <3>1. CASE Command(b1) = CMD_ATTRIBUTE
      <4>1. Take(g, W) = [ReadIndex(g, "name") EXCEPT !.cur = g.cur + 1, !.type = TypeNibble(b1)]
        BY <2>1, <3>1 DEF Attrs
      <4>2. Take(g, W).cur = g.cur + 1
        BY <4>1 DEF ReadIndex, GrammarState, GrammarRecord
      <4> QED
        BY <2>2, <4>2 DEF Reads
    <3>2. CASE Command(b1) # CMD_ATTRIBUTE
      BY <1>12, <2>1, <3>2 DEF Attrs, Reads
    <3> QED
      BY <3>1, <3>2
  <2> QED
    BY <1>1, <1>4, <2>2, <2>4, <2>5 DEF StepsTo
<1> QED
  BY <1>7, <1>8, <1>9, <1>10, <1>11, <1>12 DEF Reading

\* A step of the grammar stays inside the window, only appends to the pool, and
\* keeps every field's type.
THEOREM StepType ==
  ASSUME NEW g \in GrammarState, NEW W \in Bytes, NEW partial \in BOOLEAN,
         g.cur <= Len(W)
  PROVE  StepsTo(g, Step(g, W, partial), W)
<1>1. g.cur \in Nat /\ Len(W) \in Nat /\ Wants(g) \in Nat
  BY WantsType, LenProperties DEF GrammarState, GrammarRecord, Bytes
<1>2. g.pool \in Seq(Bytes) /\ PoolExtends(g.pool, g.pool)
  BY PoolExtendsFacts DEF GrammarState, GrammarRecord
<1>3. CASE g.at \in Final
  BY <1>1, <1>2, <1>3 DEF Step, StepsTo
<1>4. CASE g.at \notin Final /\ Len(W) - g.cur < Wants(g)
  <2>1. Step(g, W, partial) = Short(g, Len(W) - g.cur, partial)
    BY <1>4 DEF Step
  <2>2. Len(W) - g.cur \in Nat
    BY <1>1
  <2>3. Step(g, W, partial) \in GrammarState /\ SameInput(g, Step(g, W, partial))
    BY <1>4, <2>1, <2>2, ShortType
  <2> QED
    BY <1>1, <1>2, <2>3 DEF StepsTo, SameInput
<1>5. CASE g.at \notin Final /\ ~(Len(W) - g.cur < Wants(g))
  <2>1. Step(g, W, partial) = Take(g, W)
    BY <1>5 DEF Step
  <2>2. g.at \in Reading /\ g.cur + Wants(g) <= Len(W)
    BY <1>1, <1>5 DEF GrammarState, GrammarRecord
  <2> QED
    BY <2>1, <2>2, TakeType
<1> QED
  BY <1>3, <1>4, <1>5

LEMMA ResultType ==
  ASSUME NEW g \in GrammarState
  PROVE  Result(g) \in Answer
BY DEF Result, Event, Answer, GrammarState, GrammarRecord

LEMMA MagicErrorType ==
  ASSUME NEW W
  PROVE  MagicError(W) \subseteq Error
<1>1. /\ [kind |-> "UnexpectedEof: magic header", arg |-> 0] \in Error
      /\ [kind |-> "InvalidMagic", arg |-> 0] \in Error
  BY DEF Error
<1> QED
  BY <1>1, Zenon DEF MagicError

LEMMA MagicIsLong ==
  ASSUME NEW W, Len(W) \in Nat, MagicError(W) = {}
  PROVE  Len(W) >= 4
<1> DEFINE e == [kind |-> "UnexpectedEof: magic header", arg |-> 0]
<1>1. Len(W) < 4 => MagicError(W) = {e}
  BY Zenon DEF MagicError
<1>2. e \in {e}
  OBVIOUS
<1> HIDE DEF e
<1>3. ~(Len(W) < 4)
  BY <1>1, <1>2
<1> QED
  BY <1>3

\* What is left of the bytes W once the first n are taken off, and some more of those.
LEMMA RestType ==
  ASSUME NEW W \in Bytes, NEW n \in 0..Len(W)
  PROVE  /\ SubSeq(W, n + 1, Len(W)) \in Bytes
         /\ Len(SubSeq(W, n + 1, Len(W))) = Len(W) - n
         /\ \A i \in 1..(Len(W) - n) : SubSeq(W, n + 1, Len(W))[i] = W[n + i]
<1> DEFINE R == SubSeq(W, n + 1, Len(W))
<1>1. Len(W) \in Nat /\ \A i \in (n + 1)..Len(W) : W[i] \in Byte
  BY LenProperties, ElementOfSeq DEF Bytes
<1>2. /\ R \in Bytes /\ Len(R) = Len(W) - n
      /\ \A i \in 1..(Len(W) - (n + 1) + 1) : R[i] = W[(n + 1) + i - 1]
  BY <1>1, SubSeqProperties DEF Bytes
<1> HIDE DEF R
<1>3. ASSUME NEW i \in 1..(Len(W) - n) PROVE R[i] = W[n + i]
  <2>1. i \in 1..(Len(W) - (n + 1) + 1) /\ (n + 1) + i - 1 = n + i
    BY <1>1
  <2> QED
    BY <1>2, <2>1
<1> QED
  BY <1>2, <1>3 DEF R

LEMMA RestOfRest ==
  ASSUME NEW W \in Bytes, NEW m \in 0..Len(W), NEW n \in 0..(Len(W) - m)
  PROVE  LET R == SubSeq(W, m + 1, Len(W))
         IN SubSeq(R, n + 1, Len(R)) = SubSeq(W, (m + n) + 1, Len(W))
<1> DEFINE R == SubSeq(W, m + 1, Len(W))
           S == SubSeq(R, n + 1, Len(R))
           T == SubSeq(W, (m + n) + 1, Len(W))
<1>1. Len(W) \in Nat
  BY LenProperties DEF Bytes
<1>2. R \in Bytes /\ Len(R) = Len(W) - m /\ \A i \in 1..(Len(W) - m) : R[i] = W[m + i]
  BY RestType
<1> HIDE DEF R
<1>3. /\ S \in Bytes /\ Len(S) = Len(R) - n
      /\ \A i \in 1..(Len(R) - n) : S[i] = R[n + i]
  BY <1>2, RestType
<1>4. m + n \in 0..Len(W)
  BY <1>1
<1>5. /\ T \in Bytes /\ Len(T) = Len(W) - (m + n)
      /\ \A i \in 1..(Len(W) - (m + n)) : T[i] = W[(m + n) + i]
  BY <1>4, RestType
<1> HIDE DEF S, T
<1>6. Len(S) = Len(T) /\ Len(S) = Len(W) - (m + n)
  BY <1>1, <1>2, <1>3, <1>5
<1>7. ASSUME NEW i \in 1..Len(S) PROVE S[i] = T[i]
  <2>1. /\ i \in 1..(Len(R) - n) /\ n + i \in 1..(Len(W) - m)
        /\ i \in 1..(Len(W) - (m + n)) /\ m + (n + i) = (m + n) + i
    BY <1>1, <1>2, <1>6
  <2>2. S[i] = R[n + i] /\ R[n + i] = W[m + (n + i)] /\ T[i] = W[(m + n) + i]
    BY <1>2, <1>3, <1>5, <2>1
  <2> QED
    BY <2>1, <2>2
<1>8. S = T
  BY <1>3, <1>5, <1>6, <1>7, SeqEqual DEF Bytes
<1> QED
  BY <1>8 DEF R, S, T

-----------------------------------------------------------------------------
(***************************************************************************)
(* Induction, in the form the provers can use: over the set of the numbers *)
(* that satisfy a formula; and the values of a function defined by         *)
(* recursion from 0 up, which exist because each is a function of the one  *)
(* before.                                                                 *)
(***************************************************************************)

\* A set of numbers with 0 and the successor of each of its elements has them all: a
\* number left out would have a least one of its kind.
LEMMA NatSetInduction ==
  ASSUME NEW T \in SUBSET Nat, 0 \in T, \A n \in T : n + 1 \in T
  PROVE  T = Nat
<1> DEFINE U == Nat \ T
<1> SUFFICES ASSUME U # {} PROVE FALSE
  OBVIOUS
<1>1. PICK x \in U : \A y \in U : ~(<<y, x>> \in OpToRel(<, Nat))
  BY WFMin, NatLessThanWellFounded
<1>2. x # 0 /\ x \in Nat
  OBVIOUS
<1>3. x - 1 \in Nat /\ x - 1 < x /\ (x - 1) + 1 = x
  BY <1>2
<1>4. <<x - 1, x>> \in OpToRel(<, Nat)
  BY <1>2, <1>3 DEF OpToRel
<1>5. x - 1 \notin U
  BY <1>1, <1>4
<1> QED
  BY <1>1, <1>3, <1>5

\* The recursive function f on 0..N: f[0] = a, and F gives each value of the one before.
IsIteration(f, a, F, N) == f = [k \in 0..N |-> IF k = 0 THEN a ELSE F[f[k - 1]]]

LEMMA Iterates ==
  ASSUME NEW S, NEW a \in S, NEW F \in [S -> S], NEW N \in Nat
  PROVE  \E f \in [0..N -> S] : IsIteration(f, a, F, N)
<1> DEFINE T == {n \in Nat : \E f \in [0..n -> S] : IsIteration(f, a, F, n)}
<1>1. 0 \in T
  <2> DEFINE f == [k \in 0..0 |-> a]
  <2>1. f \in [0..0 -> S] /\ IsIteration(f, a, F, 0)
    BY DEF IsIteration
  <2> QED
    BY <2>1
<1>2. ASSUME NEW n \in T PROVE n + 1 \in T
  <2>1. PICK f \in [0..n -> S] : IsIteration(f, a, F, n)
    OBVIOUS
  <2> DEFINE g == [k \in 0..(n + 1) |-> IF k <= n THEN f[k] ELSE F[f[n]]]
  <2>2. g \in [0..(n + 1) -> S]
    OBVIOUS
  <2>3. ASSUME NEW k \in 0..(n + 1)
        PROVE  g[k] = IF k = 0 THEN a ELSE F[g[k - 1]]
    <3>1. CASE k <= n
      <4>1. f[k] = IF k = 0 THEN a ELSE F[f[k - 1]]
        BY <2>1, <3>1 DEF IsIteration
      <4> QED
        BY <4>1, <3>1
    <3>2. CASE k = n + 1
      BY <3>2
    <3> QED
      BY <3>1, <3>2
  <2>4. IsIteration(g, a, F, n + 1)
    BY <2>3 DEF IsIteration
  <2> HIDE DEF g
  <2>5. \E h \in [0..(n + 1) -> S] : IsIteration(h, a, F, n + 1)
    BY <2>2, <2>4
  <2> QED
    BY <2>5
<1>3. T = Nat
  BY <1>1, <1>2, NatSetInduction
<1> QED
  BY <1>3

-----------------------------------------------------------------------------
\* The states of a call on the window W.
Inside(W) == {g \in GrammarState : g.cur <= Len(W)}

\* A call on the window W starts with Start(p) and goes step by step, and each of its states
\* is well typed, inside the window, and has the pool p with nothing but new strings after it.
LEMMA RunStepsType ==
  ASSUME NEW W \in Bytes, NEW p \in Seq(Bytes)
  PROVE  /\ Len(W) \in Nat
         /\ RunSteps(W, p)[0] = Start(p)
         /\ \A k \in 1..(Len(W) + 1) : RunSteps(W, p)[k] = Step(RunSteps(W, p)[k - 1], W, FALSE)
         /\ \A k \in 0..(Len(W) + 1) : RunSteps(W, p)[k] \in Inside(W)
<1> DEFINE N == Len(W) + 1
           S == Inside(W)
           F == [g \in S |-> Step(g, W, FALSE)]
           Rec(f) == f = [k \in 0..N |-> IF k = 0 THEN Start(p) ELSE Step(f[k - 1], W, FALSE)]
<1>1. Len(W) \in Nat /\ N \in Nat
  BY LenProperties DEF Bytes
<1>2. Start(p) \in S
  BY <1>1, StartType DEF Inside, Start
<1>3. F \in [S -> S]
  BY StepType DEF Inside, StepsTo
<1> HIDE DEF S, F
<1>4. PICK f \in [0..N -> S] : IsIteration(f, Start(p), F, N)
  BY <1>1, <1>2, <1>3, Iterates
<1>5. Rec(f)
  <2>1. ASSUME NEW k \in 1..N PROVE F[f[k - 1]] = Step(f[k - 1], W, FALSE)
    <3>1. k - 1 \in 0..N
      BY <1>1
    <3>2. f[k - 1] \in S
      BY <3>1, Zenon
    <3>3. \A g \in S : F[g] = Step(g, W, FALSE)
      BY Zenon DEF F
    <3> QED
      BY <3>2, <3>3, Zenon
  <2>2. ASSUME NEW k \in 0..N
        PROVE  f[k] = IF k = 0 THEN Start(p) ELSE Step(f[k - 1], W, FALSE)
    <3>1. f[k] = IF k = 0 THEN Start(p) ELSE F[f[k - 1]]
      BY <1>4, Zenon DEF IsIteration
    <3>2. k # 0 => k \in 1..N
      BY <1>1
    <3> QED
      BY <2>1, <3>1, <3>2
  <2> HIDE DEF N
  <2> QED
    BY <2>2
<1>6. RunSteps(W, p) = CHOOSE r : Rec(r)
  BY DEF RunSteps
<1>7. Rec(RunSteps(W, p))
  BY <1>5, <1>6
<1> DEFINE r == RunSteps(W, p)
<1> HIDE DEF r
<1>8. /\ r[0] = Start(p)
      /\ \A k \in 1..N : r[k] = Step(r[k - 1], W, FALSE)
  <2>1. ASSUME NEW k \in 0..N
        PROVE  r[k] = IF k = 0 THEN Start(p) ELSE Step(r[k - 1], W, FALSE)
    BY <1>7, Zenon DEF r
  <2>2. 0 \in 0..N /\ \A k \in 1..N : k \in 0..N /\ k # 0
    BY <1>1
  <2> HIDE DEF N, Rec
  <2> QED
    BY <2>1, <2>2
<1>9. \A k \in 0..N : r[k] \in S
  <2> DEFINE T == {k \in Nat : k <= N => r[k] \in S}
  <2>1. 0 \in T
    BY <1>2, <1>8
  <2>2. ASSUME NEW k \in T PROVE k + 1 \in T
    <3> SUFFICES ASSUME k + 1 <= N PROVE r[k + 1] \in S
      OBVIOUS
    <3>1. r[k] \in S
      BY <1>1
    <3>2. r[k + 1] = Step(r[k], W, FALSE)
      BY <1>1, <1>8
    <3> QED
      BY <3>1, <3>2, StepType DEF S, Inside, StepsTo
  <2>3. T = Nat
    BY <2>1, <2>2, NatSetInduction
  <2> QED
    BY <1>1, <2>3
<1> QED
  BY <1>1, <1>8, <1>9 DEF r, S

-----------------------------------------------------------------------------
(***************************************************************************)
(* What a call costs: every step but the last reads a byte, an empty       *)
(* payload excepted, which its length has paid for; and a string that goes *)
(* to the pool has taken at least four, its marker and its length.         *)
(***************************************************************************)
Sized(g) == g.at = "scalar" => g.size >= 1

\* As many bytes as there have been steps, while the call reads.
Pace(g) == IF g.at = "payload" THEN g.cur - 1 ELSE g.cur

\* What has been read of the string that will go to the pool.
Owed(g) == IF ~g.interning THEN 0
           ELSE IF g.at = "length" THEN 2
           ELSE IF g.at = "payload" THEN 4
           ELSE 0

\* A primitive has been read and put where it belongs, and no string is half read.
Settled(g) == /\ g.at \in {"attrs", "index", "length", "scalar"} \cup Final
              /\ g.at = "length" => ~g.interning
              /\ Sized(g)

LEMMA SettledOwesNothing ==
  ASSUME NEW g \in GrammarState, Settled(g)
  PROVE  Owed(g) = 0 /\ Pace(g) = g.cur /\ Sized(g) /\ g.at # "token"
BY DEF Settled, Owed, Pace, Final

LEMMA AttrValueSettles ==
  ASSUME NEW g \in GrammarState
  PROVE  Settled(AttrValue(g))
<1>1. \/ \E t, v : AttrValue(g) = PushAttribute(g, t, v)
      \/ AttrValue(g) = ReadLength(g, "value")
      \/ AttrValue(g) = ReadIndex(g, "value")
      \/ AttrValue(g) = ReadScalar(g, ScalarSize(g.type))
      \/ AttrValue(g) = Fail(g, "UnknownAttributeType", g.type)
  BY DEF AttrValue
<1>2. ScalarSize(g.type) >= 1
  BY DEF ScalarSize
<1> QED
  BY <1>1, <1>2 DEF PushAttribute, ReadLength, ReadIndex, ReadScalar, Fail, Settled, Sized, Final,
                    GrammarState, GrammarRecord

LEMMA DeliverSettles ==
  ASSUME NEW g \in GrammarState, NEW s \in Bytes
  PROVE  Settled(Deliver(g, s))
<1> DEFINE h == [g EXCEPT !.name = s]
<1>1. \/ Deliver(g, s) = [g EXCEPT !.at = "attrs", !.text = s]
      \/ Deliver(g, s) = AttrValue(h)
      \/ Deliver(g, s) = PushAttribute(g, ValueType(g.type), s)
      \/ Deliver(g, s) = [g EXCEPT !.at = "done", !.text = s]
  BY DEF Deliver
<1>2. Settled(AttrValue(h))
  <2>1. h \in GrammarState
    BY DEF GrammarState, GrammarRecord
  <2> QED
    BY <2>1, AttrValueSettles
<1> HIDE DEF h
<1> QED
  BY <1>1, <1>2 DEF PushAttribute, Settled, Sized, Final, GrammarState, GrammarRecord

LEMMA TokenSettles ==
  ASSUME NEW g \in GrammarState, NEW b \in Byte
  PROVE  Settled(Token(g, b))
<1> DEFINE h == [g EXCEPT !.command = Command(b), !.type = TypeNibble(b)]
<1>1. h \in GrammarRecord
  BY Nibbles DEF GrammarState, GrammarRecord
<1>2. \/ Token(g, b) = [h EXCEPT !.at = "done"]
      \/ Token(g, b) = ReadIndex(h, "tag")
      \/ Token(g, b) = ReadIndex(h, "end")
      \/ Token(g, b) = ReadLength(h, "text")
      \/ Token(g, b) = Fail(h, "UnknownCommand", h.command)
  BY DEF Token, h
<1> HIDE DEF h
<1> QED
  BY <1>1, <1>2 DEF ReadIndex, ReadLength, Fail, Settled, Sized, Final, GrammarRecord

\* The first byte has been read, or there was none.
Begun(g) == g.at \in {"token", "failed", "incomplete"} \/ g.cur >= 1

\* The step from g to h goes on: see above.
Advances(g, h) ==
  /\ Sized(h)
  /\ h.at # "token"
  /\ g.at \in Reading /\ h.at \in Reading => Pace(h) >= Pace(g) + 1
  /\ g.cur + 4 * Len(h.pool) + Owed(h) <= h.cur + 4 * Len(g.pool) + Owed(g)
  /\ Begun(h)

\* How a step goes on that has read n bytes and put them where they belong.
LEMMA SettledAdvances ==
  ASSUME NEW g \in GrammarState, NEW h \in GrammarState, NEW n \in Nat,
         Settled(h), h.cur = g.cur + n, h.pool = g.pool,
         g.at # "payload" /\ h.at \in Reading => n >= 1,
         Begun(h)
  PROVE  Advances(g, h)
<1>1. Owed(h) = 0 /\ Pace(h) = h.cur /\ Sized(h) /\ h.at # "token"
  BY SettledOwesNothing
<1>2. Owed(g) \in Nat
  BY DEF Owed
<1>3. g.cur \in Nat /\ Len(g.pool) \in Nat
  BY LenProperties DEF GrammarState, GrammarRecord
<1>4. IF g.at = "payload" THEN Pace(g) = g.cur - 1 ELSE Pace(g) = g.cur
  BY DEF Pace
<1> QED
  BY <1>1, <1>2, <1>3, <1>4 DEF Advances

\* A step that only reads, as the first half of one that reads and delivers.
LEMMA ReadOn ==
  ASSUME NEW g \in GrammarState
  PROVE  /\ [g EXCEPT !.cur = g.cur + Wants(g)] \in GrammarState
         /\ [g EXCEPT !.cur = g.cur + Wants(g)].cur = g.cur + Wants(g)
         /\ [g EXCEPT !.cur = g.cur + Wants(g)].pool = g.pool
         /\ [g EXCEPT !.cur = g.cur + Wants(g)].interning = g.interning
         /\ [g EXCEPT !.cur = g.cur + Wants(g)].at = g.at
         /\ g.cur \in Nat /\ Wants(g) \in Nat
<1>1. g.cur \in Nat /\ Wants(g) \in Nat
  BY WantsType DEF GrammarState, GrammarRecord
<1>2. g.cur + Wants(g) \in Nat
  BY <1>1
<1> QED
  BY <1>1, <1>2 DEF GrammarState, GrammarRecord

LEMMA IndexAdvances ==
  ASSUME NEW g \in GrammarState, NEW idx \in Nat, g.at = "index"
  PROVE  Advances(g, Index([g EXCEPT !.cur = g.cur + Wants(g)], idx))
<1> DEFINE h == [g EXCEPT !.cur = g.cur + Wants(g)]
<1>1. /\ h \in GrammarState /\ h.cur = g.cur + 2 /\ h.pool = g.pool /\ g.cur \in Nat
      /\ Len(g.pool) \in Nat
  BY ReadOn, LenProperties DEF Wants, GrammarState, GrammarRecord
<1> SUFFICES Advances(g, Index(h, idx))
  OBVIOUS
<1> HIDE DEF h
<1>2. Index(h, idx) \in GrammarState /\ SameInput(h, Index(h, idx))
  BY <1>1, IndexType
<1>3. CASE idx = INTERNED_NEW
  <2>1. Index(h, idx) = [h EXCEPT !.at = "length", !.interning = TRUE]
    BY <1>3 DEF Index
  <2>2. /\ Index(h, idx).at = "length" /\ Index(h, idx).interning
        /\ Index(h, idx).cur = g.cur + 2 /\ Index(h, idx).pool = g.pool
    BY <1>1, <2>1 DEF GrammarState, GrammarRecord
  <2>3. Owed(g) = 0 /\ Owed(Index(h, idx)) = 2 /\ Pace(g) = g.cur /\ Pace(Index(h, idx)) = g.cur + 2
    BY <1>1, <2>2 DEF Owed, Pace
  <2> QED
    BY <1>1, <2>2, <2>3 DEF Advances, Sized, Begun
<1>4. CASE idx # INTERNED_NEW
  <2>1. Settled(Index(h, idx))
    <3>1. CASE idx < Len(h.pool)
      <4>1. Index(h, idx) = Deliver(h, h.pool[idx + 1])
        BY <1>4, <3>1 DEF Index
      <4>2. h.pool \in Seq(Bytes) /\ idx + 1 \in 1..Len(h.pool)
        BY <1>1, <3>1 DEF GrammarState, GrammarRecord
      <4>3. h.pool[idx + 1] \in Bytes
        BY <4>2, ElementOfSeq
      <4> QED
        BY <1>1, <4>1, <4>3, DeliverSettles
    <3>2. CASE ~(idx < Len(h.pool))
      <4>1. Index(h, idx) = Fail(h, "BadInternedIndex", idx)
        BY <1>4, <3>2 DEF Index
      <4> QED
        BY <1>1, <4>1 DEF Fail, Settled, Sized, Final, GrammarState, GrammarRecord
    <3> QED
      BY <3>1, <3>2
  <2> QED
    BY <1>1, <1>2, <2>1, SettledAdvances DEF SameInput, Begun
<1> QED
  BY <1>3, <1>4

LEMMA PayloadAdvances ==
  ASSUME NEW g \in GrammarState, NEW s \in Bytes, g.at = "payload", g.cur >= 1
  PROVE  Advances(g, Payload([g EXCEPT !.cur = g.cur + Wants(g)], s))
<1> DEFINE h == [g EXCEPT !.cur = g.cur + Wants(g)]
           k == [h EXCEPT !.pool = IF h.interning THEN Append(@, s) ELSE @]
<1>1. /\ h \in GrammarState /\ h.cur = g.cur + Wants(g) /\ h.pool = g.pool
      /\ h.interning = g.interning /\ g.cur \in Nat /\ Wants(g) \in Nat
  BY ReadOn
<1>2. h.pool \in Seq(Bytes) /\ Len(h.pool) \in Nat /\ Append(h.pool, s) \in Seq(Bytes)
      /\ Len(Append(h.pool, s)) = Len(h.pool) + 1
  BY <1>1, LenProperties, AppendProperties DEF GrammarState, GrammarRecord
<1> SUFFICES Advances(g, Payload(h, s))
  OBVIOUS
<1> HIDE DEF h
<1>3. k \in GrammarState /\ k.cur = h.cur /\ k.pool \in Seq(Bytes)
      /\ k.pool = IF h.interning THEN Append(h.pool, s) ELSE h.pool
  BY <1>1, <1>2 DEF GrammarState, GrammarRecord
<1>4. Len(k.pool) = IF g.interning THEN Len(g.pool) + 1 ELSE Len(g.pool)
  BY <1>1, <1>2, <1>3
<1>5. Owed(g) = IF g.interning THEN 4 ELSE 0
  BY DEF Owed
<1>6. Pace(g) = g.cur - 1
  BY DEF Pace
<1> HIDE DEF k
<1>7. ASSUME NEW r \in GrammarState, Settled(r), r.cur = h.cur, r.pool \in {h.pool, k.pool}
      PROVE  Advances(g, r)
  <2>1. Owed(r) = 0 /\ Pace(r) = r.cur /\ Sized(r) /\ r.at # "token"
    BY <1>7, SettledOwesNothing
  <2>2. 4 * Len(r.pool) <= 4 * Len(g.pool) + Owed(g)
    <3>1. Len(g.pool) \in Nat
      BY <1>1, <1>2
    <3>2. CASE g.interning
      BY <3>1, <3>2, <1>1, <1>4, <1>5, <1>7
    <3>3. CASE ~g.interning
      BY <3>1, <3>3, <1>1, <1>4, <1>5, <1>7
    <3> QED
      BY <3>2, <3>3
  <2>3. Len(r.pool) \in Nat /\ Len(g.pool) \in Nat /\ Owed(g) \in Nat
    BY <1>1, <1>5, LenProperties DEF GrammarState, GrammarRecord
  <2>4. Begun(r) /\ r.cur >= g.cur /\ r.cur \in Nat
    BY <1>1, <1>7 DEF Begun
  <2>5. Pace(r) >= Pace(g) + 1
    BY <1>1, <1>6, <2>1, <2>4
  <2>6. g.cur + 4 * Len(r.pool) + Owed(r) <= r.cur + 4 * Len(g.pool) + Owed(g)
    <3>1. Owed(r) = 0 /\ g.cur \in Nat /\ r.cur \in Nat /\ g.cur <= r.cur
      BY <1>1, <2>1, <2>4
    <3> QED
      BY <2>2, <2>3, <3>1
  <2> QED
    BY <2>1, <2>4, <2>5, <2>6 DEF Advances
<1>8. CASE IsBlob(h)
  <2>1. Payload(h, s) = Deliver(h, s)
    BY <1>8 DEF Payload
  <2> QED
    BY <2>1, <1>1, <1>7, DeliverType, DeliverSettles DEF SameInput
<1>9. CASE ~IsBlob(h) /\ ~Utf8(s)
  <2>1. Payload(h, s) = Fail(h, "InvalidUtf8", 0)
    BY <1>9 DEF Payload
  <2>2. Settled(Fail(h, "InvalidUtf8", 0))
    BY <1>1 DEF Fail, Settled, Sized, Final, GrammarState, GrammarRecord
  <2>3. Fail(h, "InvalidUtf8", 0) \in GrammarState /\ SameInput(h, Fail(h, "InvalidUtf8", 0))
    BY <1>1, FailType
  <2>4. /\ Fail(h, "InvalidUtf8", 0).cur = h.cur
        /\ Fail(h, "InvalidUtf8", 0).pool \in {h.pool, k.pool}
    BY <2>3 DEF SameInput
  <2>5. Advances(g, Fail(h, "InvalidUtf8", 0))
    BY <1>7, <2>2, <2>3, <2>4, Zenon
  <2> QED
    BY <2>1, <2>5, Zenon
<1>10. CASE ~IsBlob(h) /\ Utf8(s)
  <2>1. Payload(h, s) = Deliver(k, s)
    BY <1>10 DEF Payload, k
  <2> QED
    BY <2>1, <1>3, <1>7, DeliverType, DeliverSettles DEF SameInput
<1> QED
  BY <1>8, <1>9, <1>10

LEMMA AttrsAdvances ==
  ASSUME NEW g \in GrammarState, NEW b \in Byte, g.at = "attrs", g.cur >= 1
  PROVE  Advances(g, Attrs(g, b))
<1>1. g.cur \in Nat /\ Attrs(g, b) \in GrammarState /\ Attrs(g, b).pool = g.pool
  BY AttrsType DEF GrammarState, GrammarRecord
<1>2. CASE Command(b) = CMD_ATTRIBUTE
  <2>1. Attrs(g, b) = [ReadIndex(g, "name") EXCEPT !.cur = g.cur + 1, !.type = TypeNibble(b)]
    BY <1>2 DEF Attrs
  <2>2. Settled(Attrs(g, b)) /\ Attrs(g, b).cur = g.cur + 1
    BY <2>1 DEF ReadIndex, Settled, Sized, GrammarState, GrammarRecord
  <2> QED
    BY <1>1, <2>2, SettledAdvances DEF Begun
<1>3. CASE Command(b) # CMD_ATTRIBUTE
  <2>1. Attrs(g, b) = [g EXCEPT !.at = "done"]
    BY <1>3 DEF Attrs
  <2>2. Settled(Attrs(g, b)) /\ Attrs(g, b).cur = g.cur + 0 /\ Attrs(g, b).at \notin Reading
    BY <1>1, <2>1 DEF Settled, Sized, Final, Reading, GrammarState, GrammarRecord
  <2> QED
    BY <1>1, <2>2, SettledAdvances DEF Begun
<1> QED
  BY <1>2, <1>3

LEMMA ShortAdvances ==
  ASSUME NEW g \in GrammarState, NEW avail \in Nat, NEW partial \in BOOLEAN,
         avail < Wants(g), Begun(g)
  PROVE  Advances(g, Short(g, avail, partial))
<1> DEFINE h == Short(g, avail, partial)
<1>1. h \in GrammarState /\ SameInput(g, h) /\ g.cur \in Nat
  BY ShortType DEF GrammarState, GrammarRecord
<1>2. h.at \in Final /\ (h.at = "done" => g.at = "attrs") /\ Settled(h)
  BY DEF Short, Fail, Settled, Sized, Final, GrammarState, GrammarRecord
<1> HIDE DEF h
<1>3. Begun(h) /\ h.at \notin Reading /\ h.cur = g.cur + 0
  BY <1>1, <1>2 DEF Begun, SameInput, Final, Reading
<1> QED
  BY <1>1, <1>2, <1>3, SettledAdvances DEF SameInput, h

\* A step of a call that has not ended goes on.
LEMMA StepAdvances ==
  ASSUME NEW g \in GrammarState, NEW W \in Bytes, NEW partial \in BOOLEAN,
         g.cur <= Len(W), g.at \in Reading, Sized(g), Begun(g)
  PROVE  Advances(g, Step(g, W, partial))
<1> DEFINE h  == [g EXCEPT !.cur = g.cur + Wants(g)]
           b1 == W[g.cur + 1]
           b2 == W[g.cur + 2]
           s  == SubSeq(W, g.cur + 1, g.cur + Wants(g))
<1>1. g.cur \in Nat /\ Len(W) \in Nat /\ Wants(g) \in Nat /\ g.at \notin Final
  BY WantsType, LenProperties DEF GrammarState, GrammarRecord, Bytes, Reading, Final
<1>2. CASE Len(W) - g.cur < Wants(g)
  <2>1. Step(g, W, partial) = Short(g, Len(W) - g.cur, partial) /\ Len(W) - g.cur \in Nat
    BY <1>1, <1>2 DEF Step
  <2> QED
    BY <1>2, <2>1, ShortAdvances
<1> SUFFICES ASSUME ~(Len(W) - g.cur < Wants(g)) PROVE Advances(g, Step(g, W, partial))
  BY <1>2
<1>3. Step(g, W, partial) = Take(g, W) /\ g.cur + Wants(g) <= Len(W)
  BY <1>1 DEF Step
<1>4. \A i \in 1..Len(W) : W[i] \in Byte
  BY ElementOfSeq DEF Bytes
<1>5. s \in Bytes
  <2>1. \A i \in (g.cur + 1)..(g.cur + Wants(g)) : W[i] \in Byte
    BY <1>1, <1>3, <1>4
  <2> QED
    BY <1>1, <2>1, SubSeqProperties DEF Bytes
<1>6. Wants(g) >= 1 => b1 \in Byte
  BY <1>1, <1>3, <1>4
<1>7. Wants(g) = 2 => U16(b1, b2) \in Nat
  <2> SUFFICES ASSUME Wants(g) = 2 PROVE U16(b1, b2) \in Nat
    OBVIOUS
  <2>1. b1 \in Byte /\ b2 \in Byte
    BY <1>1, <1>3, <1>4
  <2> QED
    BY <2>1, FieldsAreNats
<1>8. /\ h \in GrammarState /\ h.cur = g.cur + Wants(g) /\ h.pool = g.pool
      /\ h.interning = g.interning /\ h.at = g.at
  BY ReadOn
<1> HIDE DEF h, s
<1>9. CASE g.at = "token"
  <2>1. Take(g, W) = Token(h, b1)
    BY <1>9 DEF Take, h
  <2>2. Wants(g) = 1
    BY <1>9 DEF Wants
  <2>3. Token(h, b1) \in GrammarState /\ SameInput(h, Token(h, b1)) /\ Settled(Token(h, b1))
    BY <1>6, <1>8, <1>9, <2>2, TokenType, TokenSettles
  <2> QED
    BY <1>1, <1>3, <1>8, <2>1, <2>2, <2>3, SettledAdvances DEF SameInput, Begun
<1>10. CASE g.at = "index"
  <2>1. Take(g, W) = Index(h, U16(b1, b2)) /\ Wants(g) = 2
    BY <1>10 DEF Take, h, Wants
  <2> QED
    BY <1>3, <1>7, <1>10, <2>1, IndexAdvances DEF h
<1>11. CASE g.at = "length"
  <2> DEFINE r == [h EXCEPT !.at = "payload", !.size = U16(b1, b2)]
  <2>1. Take(g, W) = r /\ Wants(g) = 2
    BY <1>11 DEF Take, h, Wants
  <2>2. /\ r.cur = g.cur + 2 /\ r.pool = g.pool /\ r.at = "payload" /\ r.interning = g.interning
        /\ g.interning \in BOOLEAN
    BY <1>8, <2>1 DEF GrammarState, GrammarRecord
  <2> HIDE DEF r
  <2>3. Len(g.pool) \in Nat
    BY LenProperties DEF GrammarState, GrammarRecord
  <2>4. Pace(g) = g.cur /\ Pace(r) = g.cur + 1
    BY <1>1, <1>11, <2>2 DEF Pace
  <2>5. (Owed(g) = 2 /\ Owed(r) = 4) \/ (Owed(g) = 0 /\ Owed(r) = 0)
    BY <1>11, <2>2 DEF Owed
  <2>6. Sized(r) /\ Begun(r)
    BY <1>1, <2>2 DEF Sized, Begun
  <2> QED
    BY <1>1, <1>3, <2>1, <2>2, <2>3, <2>4, <2>5, <2>6 DEF Advances
<1>12. CASE g.at = "payload"
  <2>1. Take(g, W) = Payload(h, s)
    BY <1>12 DEF Take, h, s
  <2> QED
    BY <1>3, <1>5, <1>12, <2>1, PayloadAdvances DEF h, Begun
<1>13. CASE g.at = "scalar"
  <2>1. Take(g, W) = Deliver(h, s)
    BY <1>13 DEF Take, h, s
  <2>2. Wants(g) >= 1
    BY <1>13 DEF Wants, Sized
  <2>3. Deliver(h, s) \in GrammarState /\ SameInput(h, Deliver(h, s)) /\ Settled(Deliver(h, s))
    BY <1>5, <1>8, DeliverType, DeliverSettles
  <2>4. Deliver(h, s).cur >= 1
    BY <1>1, <1>8, <2>2, <2>3 DEF SameInput
  <2> QED
    BY <1>1, <1>3, <1>8, <2>1, <2>2, <2>3, <2>4, SettledAdvances DEF SameInput, Begun
<1>14. CASE g.at = "attrs"
  <2>1. Take(g, W) = Attrs(g, b1) /\ Wants(g) = 1
    BY <1>14 DEF Take, Wants
  <2> QED
    BY <1>3, <1>6, <1>14, <2>1, AttrsAdvances DEF Begun
<1> QED
  BY <1>9, <1>10, <1>11, <1>12, <1>13, <1>14 DEF Reading

-----------------------------------------------------------------------------
LEMMA PoolExtendsTwice ==
  ASSUME NEW p \in Seq(Bytes), NEW q \in Seq(Bytes), NEW r \in Seq(Bytes),
         PoolExtends(p, q), PoolExtends(q, r)
  PROVE  PoolExtends(p, r)
<1>1. Len(p) \in Nat /\ Len(q) \in Nat /\ Len(r) \in Nat
  BY LenProperties
<1>2. Len(p) <= Len(q) /\ Len(q) <= Len(r)
  BY DEF PoolExtends
<1>3. ASSUME NEW i \in 1..Len(p) PROVE r[i] = p[i]
  <2>1. \A j \in 1..Len(p) : q[j] \in Bytes
    BY <1>1, <1>2, ElementOfSeq
  <2>2. SubSeq(q, 1, Len(p))[i] = q[i]
    BY <1>1, <2>1, SubSeqProperties
  <2>3. \A j \in 1..Len(q) : r[j] \in Bytes
    BY <1>1, <1>2, ElementOfSeq
  <2>4. SubSeq(r, 1, Len(q))[i] = r[i]
    BY <1>1, <1>2, <2>3, SubSeqProperties
  <2> QED
    BY <2>2, <2>4 DEF PoolExtends
<1>4. \A j \in 1..Len(p) : r[j] \in Bytes
  BY <1>1, <1>2, ElementOfSeq
<1>5. /\ SubSeq(r, 1, Len(p)) \in Seq(Bytes) /\ Len(SubSeq(r, 1, Len(p))) = Len(p)
      /\ \A j \in 1..Len(p) : SubSeq(r, 1, Len(p))[j] = r[j]
  BY <1>1, <1>4, SubSeqProperties
<1>6. SubSeq(r, 1, Len(p)) = p
  BY <1>3, <1>5, SeqEqual
<1> QED
  BY <1>1, <1>2, <1>6 DEF PoolExtends

\* The k-th state of a call that started with the pool p.
Running(g, k, p) ==
  /\ Sized(g) /\ Begun(g)
  /\ PoolExtends(p, g.pool)
  /\ g.at \in Reading => k <= Pace(g)
  /\ 4 * Len(g.pool) + Owed(g) <= g.cur + 4 * Len(p)

LEMMA RunStepsRunning ==
  ASSUME NEW W \in Bytes, NEW p \in Seq(Bytes)
  PROVE  \A k \in 0..(Len(W) + 1) : Running(RunSteps(W, p)[k], k, p)
<1> DEFINE N == Len(W) + 1
           r == RunSteps(W, p)
           T == {k \in Nat : k <= N => Running(r[k], k, p)}
<1>1. /\ Len(W) \in Nat /\ N \in Nat /\ Len(p) \in Nat
      /\ r[0] = Start(p)
      /\ \A k \in 1..N : r[k] = Step(r[k - 1], W, FALSE)
      /\ \A k \in 0..N : r[k] \in Inside(W)
  <2>1. Len(p) \in Nat
    BY LenProperties
  <2>2. Len(W) \in Nat /\ N \in Nat
    BY LenProperties DEF Bytes
  <2> QED
    BY <2>1, <2>2, RunStepsType
<1> HIDE DEF N, r
<1>2. Running(r[0], 0, p)
  <2>1. r[0].at = "token" /\ r[0].cur = 0 /\ r[0].pool = p /\ r[0].interning = FALSE
    BY <1>1 DEF Start
  <2>2. Owed(r[0]) = 0 /\ Pace(r[0]) = 0 /\ Sized(r[0]) /\ Begun(r[0])
    BY <2>1 DEF Owed, Pace, Sized, Begun
  <2> QED
    BY <1>1, <2>1, <2>2, PoolExtendsFacts DEF Running
<1>3. ASSUME NEW k \in T PROVE k + 1 \in T
  <2> SUFFICES ASSUME k + 1 <= N PROVE Running(r[k + 1], k + 1, p)
    OBVIOUS
  <2> DEFINE g == r[k]
             h == r[k + 1]
  <2>1. k \in Nat /\ Running(g, k, p) /\ g \in Inside(W) /\ h \in Inside(W)
    BY <1>1
  <2>2. h = Step(g, W, FALSE)
    <3> DEFINE j == k + 1
    <3>1. j \in 1..N /\ j - 1 = k
      BY <1>1, <2>1
    <3> HIDE DEF j
    <3>2. r[j] = Step(r[k], W, FALSE)
      BY <1>1, <3>1
    <3> QED
      BY <3>2 DEF j
  <2> HIDE DEF g, h
  <2>3. /\ g \in GrammarState /\ g.cur <= Len(W) /\ g.cur \in Nat /\ h.cur \in Nat
        /\ g.pool \in Seq(Bytes) /\ h.pool \in Seq(Bytes)
        /\ Len(g.pool) \in Nat /\ Len(h.pool) \in Nat
    BY <2>1, LenProperties DEF Inside, GrammarState, GrammarRecord
  <2>4. CASE g.at \in Final
    <3>1. h = g /\ g.at \notin Reading
      BY <2>2, <2>4 DEF Step, Reading, Final
    <3> QED
      BY <2>1, <3>1 DEF Running, h
  <2>5. CASE g.at \in Reading
    <3>1. Advances(g, h) /\ PoolExtends(g.pool, h.pool)
      BY <2>1, <2>2, <2>3, <2>5, StepAdvances, StepType DEF Running, StepsTo
    <3>2. PoolExtends(p, h.pool)
      BY <2>1, <2>3, <3>1, PoolExtendsTwice DEF Running
    <3>3. Owed(g) \in Nat /\ Owed(h) \in Nat /\ Pace(g) \in Int /\ Pace(h) \in Int
      BY <2>3 DEF Owed, Pace
    <3>4. h.at \in Reading => k + 1 <= Pace(h)
      BY <2>1, <2>5, <3>1, <3>3 DEF Running, Advances
    <3>5. 4 * Len(h.pool) + Owed(h) <= h.cur + 4 * Len(p)
      <4>1. 4 * Len(g.pool) + Owed(g) <= g.cur + 4 * Len(p)
        BY <2>1 DEF Running
      <4>2. g.cur + 4 * Len(h.pool) + Owed(h) <= h.cur + 4 * Len(g.pool) + Owed(g)
        BY <3>1 DEF Advances
      <4>3. /\ Len(p) \in Nat /\ Len(g.pool) \in Nat /\ Len(h.pool) \in Nat
            /\ g.cur \in Nat /\ h.cur \in Nat /\ Owed(g) \in Nat /\ Owed(h) \in Nat
        BY <1>1, <2>3, <3>3
      <4>4. \A lp, lg, lh, cg, ch, og, oh \in Nat :
               4 * lg + og <= cg + 4 * lp /\ cg + 4 * lh + oh <= ch + 4 * lg + og
                 => 4 * lh + oh <= ch + 4 * lp
        OBVIOUS
      <4> QED
        BY <4>1, <4>2, <4>3, <4>4, Zenon
    <3> QED
      BY <3>1, <3>2, <3>4, <3>5 DEF Running, Advances, h
  <2> QED
    BY <2>3, <2>4, <2>5 DEF GrammarState, GrammarRecord
<1>4. T = Nat
  BY <1>2, <1>3, NatSetInduction
<1> QED
  BY <1>1, <1>4 DEF N, r

\* A call ends: in an event or an error, never in want of a step.  It has read at least a
\* byte of its window and no more than there are, and kept the pool, with at most one
\* string more for each four bytes.
THEOREM RunEnds ==
  ASSUME NEW W \in Bytes, NEW p \in Seq(Bytes)
  PROVE  LET g == Run(W, p) IN
           /\ g \in GrammarState
           /\ g.at \in Final
           /\ g.cur <= Len(W)
           /\ g.at = "done" => g.cur >= 1
           /\ PoolExtends(p, g.pool)
           /\ 4 * Len(g.pool) <= g.cur + 4 * Len(p)
<1> DEFINE g == Run(W, p)
<1>1. Len(W) \in Nat /\ Len(W) + 1 \in 0..(Len(W) + 1)
  BY LenProperties DEF Bytes
<1>2. g \in Inside(W) /\ Running(g, Len(W) + 1, p)
  BY <1>1, RunStepsType, RunStepsRunning DEF Run
<1> HIDE DEF g
<1>3. /\ g \in GrammarState /\ g.cur <= Len(W) /\ g.cur \in Nat
      /\ g.at \in Reading \cup Final
  BY <1>2 DEF Inside, GrammarState, GrammarRecord
<1>4. g.at \notin Reading
  <2>1. Pace(g) \in Int /\ Pace(g) <= g.cur
    BY <1>3 DEF Pace
  <2> QED
    BY <1>1, <1>2, <1>3, <2>1 DEF Running
<1>5. Owed(g) = 0
  BY <1>4 DEF Owed, Reading
<1>6. 4 * Len(g.pool) <= g.cur + 4 * Len(p)
  <2>1. Len(g.pool) \in Nat /\ Len(p) \in Nat
    BY <1>3, LenProperties DEF GrammarState, GrammarRecord
  <2> QED
    BY <1>2, <1>3, <1>5, <2>1 DEF Running
<1>7. g.at = "done" => g.cur >= 1
  BY <1>2 DEF Running, Begun
<1> QED
  BY <1>2, <1>3, <1>4, <1>6, <1>7 DEF g, Running

-----------------------------------------------------------------------------
(***************************************************************************)
(* A call that is made step by step, and on a window that shows only the   *)
(* first of the bytes.                                                     *)
(***************************************************************************)
OnRun(g, W, p) == \E k \in 0..(Len(W) + 1) : g = RunSteps(W, p)[k]

LEMMA StartOnRun ==
  ASSUME NEW W \in Bytes, NEW p \in Seq(Bytes)
  PROVE  OnRun(Start(p), W, p)
<1>1. Len(W) \in Nat /\ RunSteps(W, p)[0] = Start(p)
  BY RunStepsType
<1>2. 0 \in 0..(Len(W) + 1)
  BY <1>1
<1> QED
  BY <1>1, <1>2 DEF OnRun

LEMMA OnRunType ==
  ASSUME NEW W \in Bytes, NEW p \in Seq(Bytes), NEW g, OnRun(g, W, p)
  PROVE  g \in Inside(W) /\ PoolExtends(p, g.pool)
BY RunStepsType, RunStepsRunning DEF OnRun, Running

LEMMA StepOnRun ==
  ASSUME NEW W \in Bytes, NEW p \in Seq(Bytes), NEW g, OnRun(g, W, p), g.at \in Reading
  PROVE  OnRun(Step(g, W, FALSE), W, p)
<1> DEFINE N == Len(W) + 1
<1>1. Len(W) \in Nat /\ N \in Nat
  BY LenProperties DEF Bytes
<1>2. PICK k \in 0..N : g = RunSteps(W, p)[k]
  BY DEF OnRun
<1>3. k # N
  BY <1>2, RunEnds DEF Run, Reading, Final
<1>4. k + 1 \in 1..N /\ k + 1 \in 0..N /\ (k + 1) - 1 = k
  BY <1>1, <1>3
<1>5. RunSteps(W, p)[k + 1] = Step(g, W, FALSE)
  BY <1>2, <1>4, RunStepsType
<1> HIDE DEF N
<1> QED
  BY <1>4, <1>5 DEF OnRun, N

\* Once a call has ended, its result is that of Run.
LEMMA EndOfRun ==
  ASSUME NEW W \in Bytes, NEW p \in Seq(Bytes), NEW g, OnRun(g, W, p), g.at \in Final
  PROVE  g = Run(W, p)
<1> DEFINE N == Len(W) + 1
           r == RunSteps(W, p)
<1>1. Len(W) \in Nat /\ N \in Nat
  BY LenProperties DEF Bytes
<1>2. PICK k \in 0..N : g = r[k]
  BY DEF OnRun
<1>3. \A j \in 1..N : r[j] = Step(r[j - 1], W, FALSE)
  BY RunStepsType
<1> HIDE DEF N, r
<1> DEFINE T == {n \in Nat : k + n <= N => r[k + n] = g}
<1>4. 0 \in T
  BY <1>1, <1>2
<1>5. ASSUME NEW n \in T PROVE n + 1 \in T
  <2> SUFFICES ASSUME k + (n + 1) <= N PROVE r[k + (n + 1)] = g
    OBVIOUS
  <2> DEFINE j == k + (n + 1)
  <2>1. r[k + n] = g /\ j \in 1..N /\ j - 1 = k + n
    BY <1>1
  <2> HIDE DEF j
  <2>2. r[j] = Step(g, W, FALSE)
    BY <1>3, <2>1
  <2> QED
    BY <2>2 DEF Step, j
<1>6. T = Nat
  BY <1>4, <1>5, NatSetInduction
<1>7. N - k \in Nat /\ k + (N - k) = N /\ k + (N - k) <= N
  BY <1>1
<1>8. r[N] = g
  BY <1>6, <1>7
<1> QED
  BY <1>8 DEF r, N, Run

\* A step that finds its bytes in the window does the same on any longer one.
LEMMA StepOnPrefix ==
  ASSUME NEW g \in GrammarState, NEW W \in Bytes, NEW V \in Bytes,
         Len(W) <= Len(V), \A i \in 1..Len(W) : V[i] = W[i],
         g.at \in Reading, Wants(g) <= Len(W) - g.cur, NEW partial \in BOOLEAN
  PROVE  Step(g, W, partial) = Step(g, V, FALSE)
<1>1. /\ g.cur \in Nat /\ Len(W) \in Nat /\ Len(V) \in Nat /\ Wants(g) \in Nat
      /\ g.at \notin Final
  BY WantsType, LenProperties DEF GrammarState, GrammarRecord, Bytes, Reading, Final
<1>2. Step(g, W, partial) = Take(g, W) /\ Step(g, V, FALSE) = Take(g, V)
  <2>1. ~(Len(W) - g.cur < Wants(g)) /\ ~(Len(V) - g.cur < Wants(g))
    BY <1>1
  <2> QED
    BY <1>1, <2>1 DEF Step
<1> DEFINE h == [g EXCEPT !.cur = g.cur + Wants(g)]
           s(U) == SubSeq(U, g.cur + 1, g.cur + Wants(g))
<1>3. Wants(g) >= 1 => W[g.cur + 1] = V[g.cur + 1]
  BY <1>1
<1>4. Wants(g) >= 2 => W[g.cur + 2] = V[g.cur + 2]
  BY <1>1
<1>5. SubSeq(W, g.cur + 1, g.cur + Wants(g)) = SubSeq(V, g.cur + 1, g.cur + Wants(g))
  <2> DEFINE m == g.cur + 1
             n == g.cur + Wants(g)
  <2>1. m \in Int /\ n \in Int /\ m >= 1 /\ n <= Len(W)
    BY <1>1
  <2>2. \A i \in m..n : W[i] \in Byte /\ V[i] = W[i]
    BY <1>1, <2>1, ElementOfSeq DEF Bytes
  <2> HIDE DEF m, n
  <2>3. /\ SubSeq(W, m, n) \in Seq(Byte) /\ SubSeq(V, m, n) \in Seq(Byte)
        /\ Len(SubSeq(W, m, n)) = IF m <= n THEN n - m + 1 ELSE 0
        /\ Len(SubSeq(V, m, n)) = IF m <= n THEN n - m + 1 ELSE 0
        /\ \A i \in 1..(n - m + 1) : SubSeq(W, m, n)[i] = W[m + i - 1]
        /\ \A i \in 1..(n - m + 1) : SubSeq(V, m, n)[i] = V[m + i - 1]
    BY <2>1, <2>2, SubSeqProperties
  <2>4. ASSUME NEW i \in 1..Len(SubSeq(W, m, n)) PROVE SubSeq(W, m, n)[i] = SubSeq(V, m, n)[i]
    <3>1. i \in 1..(n - m + 1) /\ m + i - 1 \in m..n
      BY <2>1, <2>3
    <3> QED
      BY <2>2, <2>3, <3>1
  <2> QED
    BY <2>3, <2>4, SeqEqual DEF m, n
<1>6. CASE g.at = "token"
  <2>1. /\ Take(g, W) = Token(h, W[g.cur + 1])
        /\ Take(g, V) = Token(h, V[g.cur + 1])
    BY <1>6 DEF Take
  <2>2. Wants(g) = 1
    BY <1>6 DEF Wants
  <2>3. W[g.cur + 1] = V[g.cur + 1]
    BY <1>3, <2>2
  <2> QED
    BY <1>2, <2>1, <2>3, Zenon
<1>7. CASE g.at = "index"
  <2>1. /\ Take(g, W) = Index(h, U16(W[g.cur + 1], W[g.cur + 2]))
        /\ Take(g, V) = Index(h, U16(V[g.cur + 1], V[g.cur + 2]))
    BY <1>7 DEF Take
  <2>2. Wants(g) = 2
    BY <1>7 DEF Wants
  <2>3. W[g.cur + 1] = V[g.cur + 1] /\ W[g.cur + 2] = V[g.cur + 2]
    BY <1>3, <1>4, <2>2
  <2> QED
    BY <1>2, <2>1, <2>3, Zenon
<1>8. CASE g.at = "length"
  <2>1. /\ Take(g, W) = [h EXCEPT !.at = "payload", !.size = U16(W[g.cur + 1], W[g.cur + 2])]
        /\ Take(g, V) = [h EXCEPT !.at = "payload", !.size = U16(V[g.cur + 1], V[g.cur + 2])]
    BY <1>8 DEF Take
  <2>2. Wants(g) = 2
    BY <1>8 DEF Wants
  <2>3. W[g.cur + 1] = V[g.cur + 1] /\ W[g.cur + 2] = V[g.cur + 2]
    BY <1>3, <1>4, <2>2
  <2> QED
    BY <1>2, <2>1, <2>3, Zenon
<1>9. CASE g.at = "payload"
  <2>1. /\ Take(g, W) = Payload(h, s(W))
        /\ Take(g, V) = Payload(h, s(V))
    BY <1>9 DEF Take
  <2> HIDE DEF h
  <2> QED
    BY <1>1, <1>2, <1>5, <2>1
<1>10. CASE g.at = "scalar"
  <2>1. /\ Take(g, W) = Deliver(h, s(W))
        /\ Take(g, V) = Deliver(h, s(V))
    BY <1>10 DEF Take
  <2> HIDE DEF h
  <2> QED
    BY <1>1, <1>2, <1>5, <2>1
<1>11. CASE g.at = "attrs"
  <2>1. /\ Take(g, W) = Attrs(g, W[g.cur + 1])
        /\ Take(g, V) = Attrs(g, V[g.cur + 1])
    BY <1>11 DEF Take
  <2>2. Wants(g) = 1
    BY <1>11 DEF Wants
  <2>3. W[g.cur + 1] = V[g.cur + 1]
    BY <1>3, <2>2
  <2> QED
    BY <1>2, <2>1, <2>3, Zenon
<1> QED
  BY <1>6, <1>7, <1>8, <1>9, <1>10, <1>11 DEF Reading
-----------------------------------------------------------------------------
(***************************************************************************)
(* All the events of a document, collected call by call.                   *)
(***************************************************************************)
EventRecord == [command : 0..15, text : Bytes, attributes : Seq(Attribute)]

CollectState == [rest : Bytes, pool : Seq(Bytes), events : Seq(EventRecord), failed : BOOLEAN]

LEMMA CollectNoneType ==
  ASSUME NEW body \in Bytes
  PROVE  CollectNone(body) \in CollectState
<1>1. <<>> \in Seq(Bytes) /\ <<>> \in Seq(EventRecord)
  OBVIOUS
<1> QED
  BY <1>1 DEF CollectNone, CollectState

\* A call takes an event's bytes off the front and adds it at the end of the events, or is
\* the last one that does anything.
LEMMA CollectNextType ==
  ASSUME NEW s \in CollectState
  PROVE  LET t == CollectNext(s)
             g == Run(s.rest, s.pool)
         IN /\ t \in CollectState
            /\ s.rest = <<>> \/ s.failed => t = s
            /\ s.rest # <<>> /\ ~s.failed /\ g.at # "done" =>
                 t.failed /\ t.events = s.events /\ t.rest = s.rest /\ t.pool = s.pool
            /\ s.rest # <<>> /\ ~s.failed /\ g.at = "done" =>
                 /\ t.rest = SubSeq(s.rest, g.cur + 1, Len(s.rest)) /\ t.pool = g.pool
                 /\ t.events = Append(s.events, Event(g)) /\ ~t.failed
                 /\ Event(g) \in EventRecord /\ Len(t.rest) < Len(s.rest)
<1> DEFINE t == CollectNext(s)
           g == Run(s.rest, s.pool)
<1>1. s.rest \in Bytes /\ s.pool \in Seq(Bytes) /\ s.events \in Seq(EventRecord)
      /\ s.failed \in BOOLEAN /\ Len(s.rest) \in Nat
  BY LenProperties DEF CollectState, Bytes
<1>2. g \in GrammarState /\ g.cur <= Len(s.rest) /\ (g.at = "done" => g.cur >= 1)
  BY <1>1, RunEnds
<1>3. g.cur \in 0..Len(s.rest) /\ g.pool \in Seq(Bytes)
  BY <1>1, <1>2 DEF GrammarState, GrammarRecord
<1>4. /\ SubSeq(s.rest, g.cur + 1, Len(s.rest)) \in Bytes
      /\ Len(SubSeq(s.rest, g.cur + 1, Len(s.rest))) = Len(s.rest) - g.cur
  BY <1>1, <1>3, RestType
<1>5. Event(g) \in EventRecord
  BY <1>2 DEF Event, EventRecord, GrammarState, GrammarRecord
<1>6. Append(s.events, Event(g)) \in Seq(EventRecord)
  BY <1>1, <1>5, AppendProperties
<1> HIDE DEF g
<1>7. CASE s.rest = <<>> \/ s.failed
  <2>1. t = s
    BY <1>7 DEF CollectNext
  <2> QED
    BY <1>7, <2>1 DEF g
<1>8. CASE s.rest # <<>> /\ ~s.failed /\ g.at # "done"
  <2>1. t = [s EXCEPT !.failed = TRUE]
    BY <1>8 DEF CollectNext, g
  <2>2. /\ t \in CollectState /\ t.failed /\ t.events = s.events
        /\ t.rest = s.rest /\ t.pool = s.pool
    BY <2>1 DEF CollectState
  <2> HIDE DEF t
  <2> QED
    BY <1>8, <2>2 DEF g, t
<1>9. CASE s.rest # <<>> /\ ~s.failed /\ g.at = "done"
  <2> DEFINE u == [rest |-> SubSeq(s.rest, g.cur + 1, Len(s.rest)), pool |-> g.pool,
                   events |-> Append(s.events, Event(g)), failed |-> FALSE]
  <2>1. t = u
    BY <1>9 DEF CollectNext, g
  <2> HIDE DEF t
  <2>2. /\ t.rest = SubSeq(s.rest, g.cur + 1, Len(s.rest)) /\ t.pool = g.pool
        /\ t.events = Append(s.events, Event(g)) /\ ~t.failed
    BY <2>1
  <2>3. t \in CollectState
    BY <1>3, <1>4, <1>6, <2>1 DEF CollectState
  <2>4. Len(t.rest) < Len(s.rest)
    BY <1>1, <1>2, <1>3, <1>4, <1>9, <2>2
  <2> QED
    BY <1>5, <1>9, <2>2, <2>3, <2>4 DEF g, t
<1> QED
  BY <1>7, <1>8, <1>9 DEF g

LEMMA DecodeStepsType ==
  ASSUME NEW body \in Bytes
  PROVE  /\ Len(body) \in Nat
         /\ DecodeSteps(body)[0] = CollectNone(body)
         /\ \A k \in 1..Len(body) : DecodeSteps(body)[k] = CollectNext(DecodeSteps(body)[k - 1])
         /\ \A k \in 0..Len(body) : DecodeSteps(body)[k] \in CollectState
<1> DEFINE N == Len(body)
           a == CollectNone(body)
           F == [s \in CollectState |-> CollectNext(s)]
           Rec(f) == f = [k \in 0..N |-> IF k = 0 THEN a ELSE CollectNext(f[k - 1])]
<1>1. N \in Nat
  BY LenProperties DEF Bytes
<1>2. a \in CollectState
  BY CollectNoneType
<1>3. F \in [CollectState -> CollectState]
  BY CollectNextType
<1> HIDE DEF a, F
<1>4. PICK f \in [0..N -> CollectState] : IsIteration(f, a, F, N)
  BY <1>1, <1>2, <1>3, Iterates
<1>5. Rec(f)
  <2>1. ASSUME NEW k \in 1..N PROVE F[f[k - 1]] = CollectNext(f[k - 1])
    <3>1. k - 1 \in 0..N
      BY <1>1
    <3>2. f[k - 1] \in CollectState
      BY <3>1, Zenon
    <3>3. \A s \in CollectState : F[s] = CollectNext(s)
      BY Zenon DEF F
    <3> QED
      BY <3>2, <3>3, Zenon
  <2>2. ASSUME NEW k \in 0..N
        PROVE  f[k] = IF k = 0 THEN a ELSE CollectNext(f[k - 1])
    <3>1. f[k] = IF k = 0 THEN a ELSE F[f[k - 1]]
      BY <1>4, Zenon DEF IsIteration
    <3>2. k # 0 => k \in 1..N
      BY <1>1
    <3> QED
      BY <2>1, <3>1, <3>2
  <2> HIDE DEF N
  <2> QED
    BY <2>2
<1>6. DecodeSteps(body) = CHOOSE r : Rec(r)
  BY DEF DecodeSteps, a
<1>7. Rec(DecodeSteps(body))
  BY <1>5, <1>6
<1> DEFINE r == DecodeSteps(body)
<1> HIDE DEF r
<1>8. r[0] = a /\ \A k \in 1..N : r[k] = CollectNext(r[k - 1])
  <2>1. ASSUME NEW k \in 0..N
        PROVE  r[k] = IF k = 0 THEN a ELSE CollectNext(r[k - 1])
    BY <1>7, Zenon DEF r
  <2>2. 0 \in 0..N /\ \A k \in 1..N : k \in 0..N /\ k # 0
    BY <1>1
  <2> HIDE DEF N, Rec
  <2> QED
    BY <2>1, <2>2
<1>9. \A k \in 0..N : r[k] \in CollectState
  <2> DEFINE T == {k \in Nat : k <= N => r[k] \in CollectState}
  <2>1. 0 \in T
    BY <1>2, <1>8
  <2>2. ASSUME NEW k \in T PROVE k + 1 \in T
    <3> SUFFICES ASSUME k + 1 <= N PROVE r[k + 1] \in CollectState
      OBVIOUS
    <3>1. r[k] \in CollectState
      BY <1>1
    <3>2. r[k + 1] = CollectNext(r[k])
      BY <1>1, <1>8
    <3> QED
      BY <3>1, <3>2, CollectNextType
  <2>3. T = Nat
    BY <2>1, <2>2, NatSetInduction
  <2> QED
    BY <1>1, <2>3
<1> QED
  BY <1>1, <1>8, <1>9 DEF r, a

\* a with some more behind it.
Longer(a, b) == Len(a) <= Len(b) /\ \A i \in 1..Len(a) : b[i] = a[i]

LEMMA LongerFacts ==
  ASSUME NEW S, NEW a \in Seq(S), NEW b \in Seq(S), NEW c \in Seq(S)
  PROVE  /\ Longer(a, a) /\ \A e \in S : Longer(a, Append(a, e))
         /\ Longer(a, b) /\ Longer(b, c) => Longer(a, c)
<1>1. Len(a) \in Nat /\ Len(b) \in Nat /\ Len(c) \in Nat
  BY LenProperties
<1>2. \A e \in S : Longer(a, Append(a, e))
  BY <1>1, AppendProperties DEF Longer
<1> QED
  BY <1>1, <1>2 DEF Longer

\* The events only grow, each call that is not the last takes bytes, and the last calls
\* change nothing.
LEMMA DecodeGoesOn ==
  ASSUME NEW body \in Bytes, NEW k \in 0..Len(body)
  PROVE  LET r == DecodeSteps(body)
         IN /\ \A n \in k..Len(body) :
                 Longer(r[k].events, r[n].events)
            /\ r[k].rest = <<>> \/ r[k].failed \/ Len(r[k].rest) + k <= Len(body)
            /\ r[k].rest = <<>> \/ r[k].failed => r[k] = Decode(body)
<1> DEFINE N == Len(body)
           r == DecodeSteps(body)
<1>1. /\ N \in Nat
      /\ r[0] = CollectNone(body)
      /\ \A j \in 1..N : r[j] = CollectNext(r[j - 1])
      /\ \A j \in 0..N : r[j] \in CollectState
  BY DecodeStepsType
<1> HIDE DEF r
<1>2. ASSUME NEW j \in 0..N, j < N
      PROVE  r[j + 1] = CollectNext(r[j]) /\ j + 1 \in 0..N
  <2> DEFINE m == j + 1
  <2>1. m \in 1..N /\ m - 1 = j
    BY <1>1, <1>2
  <2> HIDE DEF m
  <2>2. r[m] = CollectNext(r[j]) /\ m \in 0..N
    BY <1>1, <2>1
  <2> QED
    BY <2>2 DEF m
<1>3. ASSUME NEW j \in 0..N
      PROVE  /\ r[j].rest \in Bytes /\ Len(r[j].rest) \in Nat
             /\ r[j].events \in Seq(EventRecord) /\ Len(r[j].events) \in Nat
  BY <1>1, LenProperties DEF CollectState, Bytes
<1>4. \A n \in k..N : Longer(r[k].events, r[n].events)
  <2> DEFINE Grown(n) == Longer(r[k].events, r[n].events)
             T == {n \in Nat : k + n <= N => Grown(k + n)}
  <2>1. 0 \in T
    <3>1. k + 0 = k
      BY <1>1
    <3>2. Longer(r[k].events, r[k].events)
      BY <1>3 DEF Longer
    <3> QED
      BY <3>1, <3>2
  <2>2. ASSUME NEW n \in T PROVE n + 1 \in T
    <3> SUFFICES ASSUME k + (n + 1) <= N PROVE Grown(k + (n + 1))
      OBVIOUS
    <3> DEFINE j == k + n
    <3>1. j \in 0..N /\ j < N /\ k + (n + 1) = j + 1 /\ k + n <= N
      BY <1>1
    <3>2. Grown(j)
      BY <3>1
    <3> HIDE DEF j
    <3>3. r[j + 1] = CollectNext(r[j]) /\ j + 1 \in 0..N /\ r[j] \in CollectState
      BY <1>1, <1>2, <3>1
    <3>4. \/ r[j + 1].events = r[j].events
          \/ \E e \in EventRecord : r[j + 1].events = Append(r[j].events, e)
      <4> DEFINE t == CollectNext(r[j])
      <4>1. t.events = r[j].events \/ \E e \in EventRecord : t.events = Append(r[j].events, e)
        BY <3>3, CollectNextType
      <4> QED
        BY <3>3, <4>1
    <3>5. /\ r[k].events \in Seq(EventRecord) /\ r[j].events \in Seq(EventRecord)
          /\ r[j + 1].events \in Seq(EventRecord)
      BY <1>3, <3>1, <3>3
    <3>6. Longer(r[j].events, r[j + 1].events)
      <4> DEFINE a == r[j].events
      <4>1. a \in Seq(EventRecord)
        BY <3>5
      <4> HIDE DEF a
      <4>2. Longer(a, a) /\ \A e \in EventRecord : Longer(a, Append(a, e))
        BY <4>1, LongerFacts
      <4> QED
        BY <3>4, <4>2, Zenon DEF a
    <3>7. Grown(j + 1)
      BY <3>2, <3>5, <3>6, LongerFacts
    <3> HIDE DEF Grown
    <3> QED
      BY <3>1, <3>7
  <2> HIDE DEF Grown
  <2>3. T = Nat
    BY <2>1, <2>2, NatSetInduction
  <2>4. ASSUME NEW n \in k..N PROVE Grown(n)
    <3>1. n - k \in Nat /\ k + (n - k) = n /\ n <= N
      BY <1>1
    <3>2. n - k \in T
      BY <2>3, <3>1
    <3> QED
      BY <3>1, <3>2
  <2> QED
    BY <2>4 DEF Grown
<1>5. r[k].rest = <<>> \/ r[k].failed \/ Len(r[k].rest) + k <= N
  <2> DEFINE Left(j) == r[j].rest = <<>> \/ r[j].failed \/ Len(r[j].rest) + j <= N
             T == {j \in Nat : j <= N => Left(j)}
  <2>1. 0 \in T
    BY <1>1 DEF CollectNone
  <2> HIDE DEF Left
  <2>2. ASSUME NEW j \in T PROVE j + 1 \in T
    <3> SUFFICES ASSUME j + 1 <= N PROVE Left(j + 1)
      OBVIOUS
    <3>1. j \in 0..N /\ j < N
      BY <1>1
    <3>2. Left(j)
      BY <3>1
    <3>3. r[j + 1] = CollectNext(r[j]) /\ j + 1 \in 0..N /\ r[j] \in CollectState
      BY <1>1, <1>2, <3>1
    <3> DEFINE t == CollectNext(r[j])
    <3>4. \/ (r[j].rest = <<>> \/ r[j].failed) /\ t = r[j]
          \/ t.failed
          \/ ~(r[j].rest = <<>> \/ r[j].failed) /\ Len(t.rest) < Len(r[j].rest)
      BY <3>3, CollectNextType
    <3> HIDE DEF t
    <3>5. t = r[j + 1]
      BY <3>3 DEF t
    <3>6. Len(r[j].rest) \in Nat /\ Len(r[j + 1].rest) \in Nat
      BY <1>3, <3>1, <3>3
    <3> QED
      BY <3>1, <3>2, <3>4, <3>5, <3>6 DEF Left
  <2>3. T = Nat
    BY <2>1, <2>2, NatSetInduction
  <2>4. k \in T /\ k <= N
    BY <1>1, <2>3
  <2> QED
    BY <2>4 DEF Left
<1>6. ASSUME r[k].rest = <<>> \/ r[k].failed PROVE r[k] = Decode(body)
  <2> DEFINE T == {n \in Nat : k + n <= N => r[k + n] = r[k]}
  <2>1. 0 \in T
    BY <1>1
  <2>2. ASSUME NEW n \in T PROVE n + 1 \in T
    <3> SUFFICES ASSUME k + (n + 1) <= N PROVE r[k + (n + 1)] = r[k]
      OBVIOUS
    <3> DEFINE j == k + n
    <3>1. j \in 0..N /\ j < N /\ k + (n + 1) = j + 1 /\ k + n <= N
      BY <1>1
    <3>2. r[j] = r[k]
      BY <3>1
    <3> HIDE DEF j
    <3>3. r[j + 1] = CollectNext(r[k]) /\ r[k] \in CollectState
      BY <1>1, <1>2, <3>1, <3>2
    <3>4. CollectNext(r[k]) = r[k]
      BY <1>6, <3>3, CollectNextType
    <3> QED
      BY <3>1, <3>3, <3>4
  <2>3. T = Nat
    BY <2>1, <2>2, NatSetInduction
  <2> DEFINE j == N - k
  <2>4. j \in Nat /\ k + j = N /\ N <= N
    BY <1>1
  <2> HIDE DEF j, N
  <2>5. r[N] = r[k]
    <3>1. k + j <= N => r[k + j] = r[k]
      BY <2>3, <2>4
    <3> QED
      BY <2>4, <3>1
  <2> QED
    BY <2>5 DEF Decode, r, N
<1> QED
  BY <1>4, <1>5, <1>6 DEF r

\* The parser has delivered the first n events of a document with this body, has the bytes W
\* left and the strings p in its pool.
Position(W, p, n, body) ==
  \E k \in 0..Len(body) : LET s == DecodeSteps(body)[k]
                          IN s.rest = W /\ s.pool = p /\ Len(s.events) = n /\ ~s.failed

LEMMA FirstPosition ==
  ASSUME NEW body \in Bytes
  PROVE  Position(body, <<>>, 0, body)
<1>1. Len(body) \in Nat /\ DecodeSteps(body)[0] = CollectNone(body) /\ 0 \in 0..Len(body)
  BY DecodeStepsType
<1>2. /\ CollectNone(body).rest = body /\ CollectNone(body).pool = <<>>
      /\ Len(CollectNone(body).events) = 0 /\ ~CollectNone(body).failed
  BY EmptySeq DEF CollectNone
<1> QED
  BY <1>1, <1>2 DEF Position

\* From a position, the next answer is what the document has there: its next event, or,
\* behind its last event, its end or the error that it ends in.
THEOREM AnswersAreForetold ==
  ASSUME NEW body \in Bytes, NEW W, NEW p, NEW n, Position(W, p, n, body)
  PROVE  LET s == Decode(body)
             g == Run(W, p)
         IN /\ W = <<>> => n = Len(s.events) /\ ~s.failed
            /\ W # <<>> /\ g.at # "done" =>
                 n = Len(s.events) /\ s.failed /\ s.rest = W /\ s.pool = p
            /\ W # <<>> /\ g.at = "done" =>
                 /\ n < Len(s.events) /\ s.events[n + 1] = Event(g)
                 /\ Position(SubSeq(W, g.cur + 1, Len(W)), g.pool, n + 1, body)
<1> DEFINE N == Len(body)
           r == DecodeSteps(body)
           g == Run(W, p)
<1>1. /\ N \in Nat /\ Decode(body) = r[N]
      /\ \A j \in 1..N : r[j] = CollectNext(r[j - 1])
      /\ \A j \in 0..N : r[j] \in CollectState
  BY DecodeStepsType DEF Decode
<1>2. PICK k \in 0..N : r[k].rest = W /\ r[k].pool = p /\ Len(r[k].events) = n /\ ~r[k].failed
  BY DEF Position
<1>3. W \in Bytes /\ r[k].events \in Seq(EventRecord) /\ n \in Nat /\ Len(W) \in Nat
  BY <1>1, <1>2, LenProperties DEF CollectState, Bytes
<1>4. /\ \A m \in k..N : Longer(r[k].events, r[m].events)
      /\ W = <<>> \/ Len(W) + k <= N
      /\ W = <<>> => r[k] = Decode(body)
  BY <1>2, DecodeGoesOn
<1> HIDE DEF g
<1>5. CASE W = <<>>
  BY <1>2, <1>4, <1>5
<1>6. CASE W # <<>>
  <2> DEFINE m == k + 1
  <2>1. m \in 1..N /\ m \in 0..N /\ m - 1 = k
    <3>1. Len(W) > 0
      BY <1>3, <1>6, EmptySeq DEF Bytes
    <3> QED
      BY <1>1, <1>3, <1>4, <1>6, <3>1
  <2> HIDE DEF m
  <2>2. r[m] = CollectNext(r[k]) /\ r[k] \in CollectState /\ r[m] \in CollectState
    BY <1>1, <2>1
  <2>3. CASE g.at # "done"
    <3>1. /\ r[m].failed /\ r[m].events = r[k].events
          /\ r[m].rest = W /\ r[m].pool = p
      <4> DEFINE t == CollectNext(r[k])
      <4>1. t.failed /\ t.events = r[k].events /\ t.rest = r[k].rest /\ t.pool = r[k].pool
        BY <1>2, <1>6, <2>2, <2>3, CollectNextType DEF g
      <4> HIDE DEF t
      <4>2. r[m] = t
        BY <2>2 DEF t
      <4> QED
        BY <1>2, <4>1, <4>2
    <3>2. r[m] = Decode(body)
      BY <2>1, <3>1, DecodeGoesOn
    <3> HIDE DEF r
    <3> QED
      BY <1>2, <1>6, <2>3, <3>1, <3>2 DEF g
  <2>4. CASE g.at = "done"
    <3>1. /\ r[m].rest = SubSeq(W, g.cur + 1, Len(W)) /\ r[m].pool = g.pool
          /\ r[m].events = Append(r[k].events, Event(g)) /\ ~r[m].failed
          /\ Event(g) \in EventRecord
      <4> DEFINE t == CollectNext(r[k])
      <4>1. /\ t.rest = SubSeq(W, g.cur + 1, Len(W)) /\ t.pool = g.pool
            /\ t.events = Append(r[k].events, Event(g)) /\ ~t.failed
            /\ Event(g) \in EventRecord
        BY <1>2, <1>6, <2>2, <2>4, CollectNextType DEF g
      <4> HIDE DEF t
      <4>2. r[m] = t
        BY <2>2 DEF t
      <4> QED
        BY <4>1, <4>2
    <3>2. Len(r[m].events) = n + 1 /\ r[m].events[n + 1] = Event(g)
      BY <1>2, <1>3, <3>1, AppendProperties
    <3>3. Position(SubSeq(W, g.cur + 1, Len(W)), g.pool, n + 1, body)
      BY <2>1, <3>1, <3>2 DEF Position
    <3>4. n < Len(r[N].events) /\ r[N].events[n + 1] = Event(g)
      <4>1. /\ Len(r[m].events) <= Len(r[N].events)
            /\ \A i \in 1..Len(r[m].events) : r[N].events[i] = r[m].events[i]
        <5>1. N \in m..N
          BY <1>1, <2>1
        <5> QED
          BY <2>1, <5>1, DecodeGoesOn DEF Longer
      <4>2. Len(r[N].events) \in Nat /\ n + 1 \in 1..(n + 1)
        <5>1. r[N] \in CollectState
          BY <1>1
        <5> QED
          BY <1>3, <5>1, LenProperties DEF CollectState
      <4> QED
        BY <1>3, <3>2, <4>1, <4>2
    <3> HIDE DEF r
    <3> QED
      BY <1>1, <1>6, <2>4, <3>3, <3>4 DEF g
  <2> QED
    BY <2>3, <2>4
<1> QED
  BY <1>5, <1>6

\* The calls that were answered with an event, of those whose answers s are.
EventsAmong(s) == {i \in 1..Len(s) : s[i][1] = "event"}

LEMMA CountEvents ==
  ASSUME NEW s \in Seq(Answer), NEW a \in Answer
  PROVE  /\ Cardinality(EventsAmong(s)) \in Nat
         /\ Cardinality(EventsAmong(Append(s, a)))
              = IF a[1] = "event" THEN Cardinality(EventsAmong(s)) + 1
                ELSE Cardinality(EventsAmong(s))
<1> DEFINE n == Len(s)
           t == Append(s, a)
<1>1. /\ n \in Nat /\ Len(t) = n + 1 /\ t[n + 1] = a
      /\ \A i \in 1..n : t[i] = s[i]
  BY LenProperties, AppendProperties
<1>2. IsFiniteSet(EventsAmong(s))
  <2>1. IsFiniteSet(1..n)
    BY <1>1, FS_Interval
  <2>2. EventsAmong(s) \subseteq 1..n
    BY DEF EventsAmong
  <2> QED
    BY <2>1, <2>2, FS_Subset
<1>3. n + 1 \notin EventsAmong(s)
  BY <1>1 DEF EventsAmong
<1> HIDE DEF t, n
<1>4. EventsAmong(t) = IF a[1] = "event" THEN EventsAmong(s) \cup {n + 1} ELSE EventsAmong(s)
  <2>1. 1..(n + 1) = (1..n) \cup {n + 1}
    BY <1>1
  <2>2. EventsAmong(t) = {i \in 1..(n + 1) : t[i][1] = "event"}
    BY <1>1 DEF EventsAmong
  <2>3. EventsAmong(s) = {i \in 1..n : t[i][1] = "event"}
    BY <1>1 DEF EventsAmong, n
  <2> QED
    BY <1>1, <2>1, <2>2, <2>3
<1>5. Cardinality(EventsAmong(s)) \in Nat
  BY <1>2, FS_CardinalityType
<1>6. Cardinality(EventsAmong(s) \cup {n + 1}) = Cardinality(EventsAmong(s)) + 1
  BY <1>2, <1>3, FS_AddElement
<1> QED
  BY <1>4, <1>5, <1>6 DEF t

LEMMA NoEvents == Cardinality(EventsAmong(<<>>)) = 0
<1>1. EventsAmong(<<>>) = {}
  BY EmptySeq DEF EventsAmong
<1> QED
  BY <1>1, FS_EmptySet
=============================================================================
