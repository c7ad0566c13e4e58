----------------------------- MODULE AbxGrammar -----------------------------
(***************************************************************************)
(* The event grammar shared by both parsers (src/decode/grammar.rs).       *)
(*                                                                         *)
(* One call of grammar::event is a run of Step from Start(pool): each step *)
(* reads one primitive of the input window W (a byte, a two-byte field, a  *)
(* payload) or fails on it, and the run ends in one of Final.  A window is *)
(* `partial` when more bytes may follow it (winnow's Partial input): a     *)
(* primitive that does not fit is then Incomplete, and says how many bytes *)
(* are missing; on a complete window it is UnexpectedEof.                  *)
(***************************************************************************)
EXTENDS AbxWire

CONSTANT Utf8(_)          \* std::str::from_utf8 accepts these bytes

\* The state of a call.  `at` names the primitive to be read next.
Reading == {"token", "index", "length", "payload", "scalar", "attrs"}
Final   == {"done", "incomplete", "failed"}

\* Where the string or value being read belongs.
Slots == {"tag", "end", "text", "name", "value"}

Attribute == [name : Bytes, type : ValueTypes, value : Bytes]
Error     == [kind : {"UnexpectedEof: primitive", "UnexpectedEof: UTF string payload",
                      "UnexpectedEof: bytes payload", "UnexpectedEof: magic header",
                      "InvalidMagic", "BadInternedIndex", "InvalidUtf8",
                      "UnknownAttributeType", "UnknownCommand"},
              arg  : Nat]

NoError == [kind |-> "UnexpectedEof: primitive", arg |-> 0]

GrammarRecord ==
  [at       : Reading \cup Final,
   cur      : Nat,                 \* bytes of the window read so far
   pool     : Seq(Bytes),          \* the parser's interned strings, borrowed
   command  : 0..15,
   type     : Byte,                \* type nibble of the token or attribute
   slot     : Slots,
   interning : BOOLEAN,            \* the string being read is new to the pool
   size     : Nat,                 \* length of the payload or scalar to take
   name     : Bytes,               \* the name of the attribute being read
   text     : Bytes,               \* the event's name or text
   attributes : Seq(Attribute),
   more     : Nat,                 \* Needed::Size of Incomplete
   error    : Error]

\* An attribute's value is only read once its type is known to be one.
GrammarState == {g \in GrammarRecord :
                   /\ g.slot = "value" => g.type \in ValueTypes \cup {TYPE_STRING_INTERNED}
                   /\ g.at = "token"   => g.slot # "value"}

Start(pool) ==
  [at |-> "token", cur |-> 0, pool |-> pool, command |-> 0, type |-> 0,
   slot |-> "text", interning |-> FALSE, size |-> 0, name |-> <<>>,
   text |-> <<>>, attributes |-> <<>>, more |-> 0, error |-> NoError]

Fail(g, kind, arg) ==
  [g EXCEPT !.at = "failed", !.error = [kind |-> kind, arg |-> arg]]

\* Ask for the two-byte pool index or length of the string that fills slot s.
ReadIndex(g, s)  == [g EXCEPT !.at = "index", !.slot = s, !.interning = FALSE]
ReadLength(g, s) == [g EXCEPT !.at = "length", !.slot = s, !.interning = FALSE]

\* Ask for a number of n bytes, kept as its bytes.
ReadScalar(g, n) == [g EXCEPT !.at = "scalar", !.slot = "value", !.size = n]

PushAttribute(g, type, value) ==
  [g EXCEPT !.at = "attrs",
            !.attributes = Append(@, [name |-> g.name, type |-> type, value |-> value])]

\* Mutant: every number is read as an int.
ScalarSizeOfInt(type) == 4

ScalarSize(type) == IF type \in FourByteTypes THEN 4 ELSE 8

(***************************************************************************)
(* attr_value: what to read after an attribute's name.                     *)
(***************************************************************************)
AttrValue(g) ==
  CASE g.type \in NoBytesTypes               -> PushAttribute(g, g.type, <<>>)
    [] g.type \in BlobTypes \cup {TYPE_STRING} -> ReadLength(g, "value")
    [] g.type = TYPE_STRING_INTERNED         -> ReadIndex(g, "value")
    [] g.type \in FourByteTypes \cup EightByteTypes -> ReadScalar(g, ScalarSize(g.type))
    [] OTHER                                 -> Fail(g, "UnknownAttributeType", g.type)

\* Mutant: an interned value keeps the type it has on the wire.
WireType(type) == type

\* An interned attribute value becomes a plain string.
ValueType(type) == IF type = TYPE_STRING_INTERNED THEN TYPE_STRING ELSE type

\* A string or value has been read: put it where it belongs.
Deliver(g, s) ==
  CASE g.slot = "tag"   -> [g EXCEPT !.at = "attrs", !.text = s]
    [] g.slot = "name"  -> AttrValue([g EXCEPT !.name = s])
    [] g.slot = "value" -> PushAttribute(g, ValueType(g.type), s)
    [] OTHER            -> [g EXCEPT !.at = "done", !.text = s]

\* The first byte of an event selects the command.
Token(g, b) ==
  LET h == [g EXCEPT !.command = Command(b), !.type = TypeNibble(b)] IN
  CASE h.command \in {CMD_START_DOCUMENT, CMD_END_DOCUMENT} -> [h EXCEPT !.at = "done"]
    [] h.command = CMD_START_TAG -> ReadIndex(h, "tag")
    [] h.command = CMD_END_TAG   -> ReadIndex(h, "end")
    [] h.command \in TextCommands ->
         IF h.type = TYPE_STRING THEN ReadLength(h, "text") ELSE [h EXCEPT !.at = "done"]
    [] OTHER -> Fail(h, "UnknownCommand", h.command)

\* interned: a new string follows, or an index into the pool.
Index(g, idx) ==
  IF idx = INTERNED_NEW THEN [g EXCEPT !.at = "length", !.interning = TRUE]
  ELSE IF idx < Len(g.pool) THEN Deliver(g, g.pool[idx + 1])
  ELSE Fail(g, "BadInternedIndex", idx)

IsBlob(g) == g.slot = "value" /\ g.type \in BlobTypes

\* utf and bytes_blob once their payload is in: only strings are validated, and
\* only a valid one reaches the pool.
Payload(g, s) ==
  IF IsBlob(g) THEN Deliver(g, s)
  ELSE IF ~Utf8(s) THEN Fail(g, "InvalidUtf8", 0)
  ELSE Deliver([g EXCEPT !.pool = IF g.interning THEN Append(@, s) ELSE @], s)

\* How many bytes the next primitive takes.
Wants(g) == CASE g.at \in {"token", "attrs"}    -> 1
              [] g.at \in {"index", "length"}   -> 2
              [] g.at \in {"payload", "scalar"} -> g.size
              [] OTHER                          -> 0

\* The primitive does not fit in the window.  A start tag with nothing after
\* it is over once the input is (grammar.rs:138).
Short(g, avail, partial) ==
  IF partial THEN [g EXCEPT !.at = "incomplete", !.more = Wants(g) - avail]
  ELSE IF g.at = "attrs" THEN [g EXCEPT !.at = "done"]
  ELSE Fail(g, IF g.at # "payload" THEN "UnexpectedEof: primitive"
               ELSE IF IsBlob(g) THEN "UnexpectedEof: bytes payload"
               ELSE "UnexpectedEof: UTF string payload", 0)

\* The byte after a start tag's name or attribute: another attribute, or the
\* next event, which it is left for.
Attrs(g, b) ==
  IF Command(b) = CMD_ATTRIBUTE
  THEN [ReadIndex(g, "name") EXCEPT !.cur = g.cur + 1, !.type = TypeNibble(b)]
  ELSE [g EXCEPT !.at = "done"]

\* The primitive fits: read it and go on.
Take(g, W) ==
  LET h  == [g EXCEPT !.cur = g.cur + Wants(g)]
      b1 == W[g.cur + 1]
      s  == SubSeq(W, g.cur + 1, g.cur + Wants(g))
  IN CASE g.at = "token"   -> Token(h, b1)
       [] g.at = "index"   -> Index(h, U16(b1, W[g.cur + 2]))
       [] g.at = "length"  -> [h EXCEPT !.at = "payload", !.size = U16(b1, W[g.cur + 2])]
       [] g.at = "payload" -> Payload(h, s)
       [] g.at = "scalar"  -> Deliver(h, s)
       [] g.at = "attrs"   -> Attrs(g, b1)
       [] OTHER            -> g

Step(g, W, partial) ==
  IF g.at \in Final THEN g
  ELSE IF Len(W) - g.cur < Wants(g) THEN Short(g, Len(W) - g.cur, partial)
  ELSE Take(g, W)

(***************************************************************************)
(* A whole call on a complete window.  Every step but the last reads at    *)
(* least one byte, an empty payload excepted, and that one follows a       *)
(* length of two: Len(W) + 1 steps are enough.                             *)
(***************************************************************************)
RunSteps(W, pool) ==
  LET run[k \in 0..(Len(W) + 1)] ==
        IF k = 0 THEN Start(pool) ELSE Step(run[k - 1], W, FALSE)
  IN run

Run(W, pool) == RunSteps(W, pool)[Len(W) + 1]

\* What a finished call returns.
Event(g)  == [command |-> g.command, text |-> g.text, attributes |-> g.attributes]
Result(g) == IF g.at = "done" THEN <<"event", Event(g)>> ELSE <<"error", g.error>>

\* What a call of next_event answers: an event, an error, or the end.
Answer == {<<"none">>}
            \cup ({"event"} \X [command : 0..15, text : Bytes, attributes : Seq(Attribute)])
            \cup ({"error"} \X Error)

(***************************************************************************)
(* All the events of the body of a document, up to its end or to the first *)
(* error, and the pool they leave (collect_events on a parser just opened).*)
(***************************************************************************)
CollectNone(body) == [rest |-> body, pool |-> <<>>, events |-> <<>>, failed |-> FALSE]

\* The events collected by one more call of next_event.
CollectNext(s) ==
  LET g == Run(s.rest, s.pool)
  IN IF s.rest = <<>> \/ s.failed THEN s
     ELSE IF g.at # "done" THEN [s EXCEPT !.failed = TRUE]
     ELSE [rest |-> SubSeq(s.rest, g.cur + 1, Len(s.rest)), pool |-> g.pool,
           events |-> Append(s.events, Event(g)), failed |-> FALSE]

\* Each call but the last takes a byte at least: Len(body) of them are enough.
DecodeSteps(body) ==
  LET read[k \in 0..Len(body)] ==
        IF k = 0 THEN CollectNone(body) ELSE CollectNext(read[k - 1])
  IN read

Decode(body) == DecodeSteps(body)[Len(body)]

\* check_magic, on the first bytes of the input.
MagicError(W) ==
  IF Len(W) < 4 THEN {[kind |-> "UnexpectedEof: magic header", arg |-> 0]}
  ELSE IF SubSeq(W, 1, 4) # MAGIC THEN {[kind |-> "InvalidMagic", arg |-> 0]}
  ELSE {}

\* The events of a document, and what comes after them.
StreamOf(d) ==
  LET read == Decode(SubSeq(d, 5, Len(d)))
  IN [events |-> read.events,
      ending |-> IF read.failed THEN Result(Run(read.rest, read.pool)) ELSE <<"none">>]
=============================================================================
