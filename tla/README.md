# android-abx in TLA+

`android-abx` reads and writes Android Binary XML (ABX): a byte stream that starts
with the header `ABX\0` and is a sequence of tokens, one per XML event. This
directory holds TLA+ modules that model the library, TLC configurations that check
them on small instances, and theorems about them that TLAPS checks.

Paths below are relative to the repository (`src/decode/slice.rs`, ...);
`PROJECT.json` prefixes them with the directory the repository is kept in.

## 1. The system

| component | state | operations | modelled in |
|---|---|---|---|
| wire format, `src/wire.rs` | none | token bytes, two-byte fields | `AbxWire` |
| event grammar, `src/decode/grammar.rs` | the position in the window, the parser's pool (borrowed) | `event`, `interned`, `utf`, `attr_value` | `AbxGrammar` |
| `AbxParser`, `src/decode/slice.rs` | `rest`, `pool` | `new`, `next_event`, `collect_events` | `AbxParser` |
| `AbxStreamParser`, `src/decode/stream.rs` | `buf`, `pos`, `len`, `eof`, `pool`, the reader | `new`, `ensure`, `next_event`, `parse_event` | `AbxStreamParser` |
| `AbxWriter`, `src/encode/writer.rs` | the sink, the pool of names and its index | `new`, `write_event`, `events_to_abx` | `AbxWriter` |
| writer and parser | both pools, never exchanged | | `AbxRoundTrip` |
| a parser as its clients see it, `EventSource` in `src/de/traversal.rs` | the events still to come | `next_event` | `AbxSource`, `AbxParserSource`, `AbxStreamSource` |
| helpers of both parsers | none of their own: they consume events | `find_attribute`, `find_all_attributes`, `attributes_of`, `all_attributes_of`, `into_map`, `to_xml`, `write_xml` | `AbxHelpers` |
| traversal for serde, `src/de/traversal.rs` | the recursion of `read_element_body` | `deserialize_next`, `deserialize_all`, `deserialize_iter`, `from_slice`, ... | `AbxTraversal` |
| elements and values for serde, `src/de/element.rs`, `value.rs` | the iterators of `ElementMapAccess` and `ChildSeqAccess` | `deserialize_map`, `next_key_seed`, `next_value_seed`, `next_element_seed`, `from_element` | `AbxElement` |
| rendering as XML, `src/event.rs` | none | `render_event`, `xml_escape`, `push_attr_value`, `as_str` | `AbxHelpers` (order and failure), `AbxXmlText` (the text) |
| XML to ABX, `src/encode/xml.rs` | none: quick_xml's events are handed to a writer | `xml_to_abx` | `AbxXmlEvents`, `AbxXml`, `AbxXmlText` |
| convenience functions, `src/lib.rs` | none | `abx_to_xml`, `abx_events`, `open_file` | `ToXml` and `Decode`; `open_file` is I/O |

How they interact: both parsers call the one grammar, lending it their pool of
interned strings. `AbxParser` gives it all that is left of the input as a complete
window. `AbxStreamParser` gives it what it has buffered, as a *partial* window as
long as the reader has not reported its end; when the grammar answers `Incomplete`
the parser cuts the pool back, reads more, and parses the event again from its
start. The writer keeps a pool of names of its own; nothing but the byte stream
passes between the two, so a position means the same string on both sides only as
long as both number the strings alike. The helpers and serde's traversal are loops
over `next_event`.

Nothing runs concurrently inside the library: every call runs to its end on the
caller's thread. What is hard is elsewhere: the reader decides how many bytes each
read delivers and may fail any read; the sink may fail in the middle of a write;
the client may go on calling after an error; a parse is abandoned and started over
any number of times; and two pools have to agree without ever being compared. The
hazards, each at its line, are listed in `PROJECT.json`.

What makes each component correct:

- *grammar*: an event that was written is read back; any other input is an error, at the
  event where it goes wrong, the same one every time.
- *memory parser*: an error leaves the parser where it was, pool included; positions in the
  pool never change meaning; each event consumes input, so a client's loop ends.
- *streaming parser*: the same answers as the memory parser, however the bytes arrive and
  whichever reads fail; a bounded buffer; every call returns.
- *writer*: what it has put out reads back as the events written; a position fits its two
  bytes and is never the marker `0xFFFF`; output cut short reads as a prefix.
- *helpers*: the next match, or all of the rest, and a call that failed has skipped no match;
  `write_xml` writes what `to_xml` returns, or the beginning of it.
- *traversal*: the next element, whole, and nothing behind it is consumed; every start tag
  consumed is in the answer, also when the tags do not balance; the recursion ends.
- *elements and values*: every part of an element is shown once, in a fixed order, unless a part of the
  same name goes first; a `Vec` gets every child, another field the first; the same text
  fills a field alike wherever it stands.
- *XML to ABX*: the bytes say what the XML says; tags match; it fails for the documented reasons only.
- *rendering*: escaped once and no more; a number's text is the number of its type's width.

## 2. Modules

`AbxWire` <- `AbxGrammar` <- `AbxParser`, `AbxStreamParser` (which instantiates `AbxParser`
as its abstract specification), `AbxWriter` <- `AbxRoundTrip` <- `AbxXml` (with `AbxXmlEvents`). `AbxWire` <- `AbxSource` <-
`AbxHelpers`, `AbxTraversal`. `AbxParserSource` and `AbxStreamSource` show that the two parsers implement
`AbxSource`. `AbxWire` <- `AbxElement`; `AbxXmlEvents` <- `AbxXmlText`. `MCDocuments` has pieces of documents for the
parsers' runs; the other `MC` modules are the models for TLC.

The proofs are in modules of their own, which follow the same order: `AbxGrammarProofs` <- `AbxParserProofs` (the memory parser,
and that it implements `AbxSource`), `AbxStreamParserProofs` (the streaming parser's safety, its two refinements, the bound on
its buffer); `AbxGrammarProofs` <- `AbxRoundTripProofs` (the writer, then writer and parser) <- `AbxXmlProofs` (XML to ABX, then `AbxXmlText`); `AbxElementProofs`,
`AbxHelpersProofs` and `AbxTraversalProofs` stand alone.

**AbxWire.** The constants of `wire.rs` and the split of a token byte in command and type.
The base of the two digits of a 16-bit field is the constant `Radix`: 256 is the code; a
smaller one gives a format of the same shape whose limits TLC can reach (with `Radix = 2`
the pool has 3 positions and a payload 3 bytes, where the code has 65,535).

**AbxGrammar.** One call of `grammar::event` is a run of `Step`: each step reads one primitive (a
byte, a two-byte field, a payload, a number) or fails on it. The record `g` is the call's
state: `at` is the primitive to be read next, `slot` where a string belongs, `pool` the
parser's pool, which grows while the call goes on. `partial` is winnow's `Partial`: a
primitive that does not fit is `Incomplete` (`more` is `Needed::Size`) on a partial window
and `UnexpectedEof` on a complete one. A start tag at the very end of a complete window is
over; on a partial one it waits for the byte that says whether an attribute follows.
`Run` is a whole call on a complete window, `Decode` a whole document. Numbers are kept
as the bytes they are on the wire; strings are sequences of bytes, and the constant
`Utf8` says which of them are valid.

**AbxParser.** `rest` and `pool` are the fields; `answers` records what the client was told.
A call is one action: it waits for nothing. `PoolOnError` is the truncation of line 87.

**AbxStreamParser.** `buf`, `pos`, `len`, `eof` are the fields, stale bytes included; `scan` is the call of
`grammar::event` in progress, and `scan.pool` is the field `pool`. `pc` follows the code: `ensure` is
entered from three places, so `then` says where it returns to. `Read(n)` is one turn of its loop,
growth of the buffer included, for any `n` the reader may deliver; `ReadNothing` is a read that returns 0,
because the input is over *or because the slice is empty*; `ReadError` is a failing read, after which
the client may call again. `called` and `mark` are the two `pool_len` of lines 122 and 138.

**AbxWriter.** A call of `write_event` is a list of operations carried out in order: `raw` is a `write_all`,
which the sink may cut short and fail; `attribute` is `write_attribute`, which becomes the operations for its token, its name and its value;
`name` is `InternedPool::write`; `blob` is `write_bytes_blob`, with its limit; `cache` is what the pool does once the name is out.
`index` is the `HashMap` that replaces the scan when the names get more than `LINEAR_SCAN_LIMIT`.

**AbxRoundTrip.** What `Decode` makes of the output so far, at every moment of writing. `WellTyped` says what the types
`Event` and `AttributeValue` say of an event: names and texts are UTF-8, a number has the bytes of its width, only a start tag
has attributes. `ValuesAssumption` is that the events written are such, which Rust's type checker sees to.

**AbxSource.** What a loop over `next_event` can rely on: `stream` is what the document has to give,
its events and its ending (None or an error), `taken` how many events have been delivered. `ReadFails` is a
read that fails and takes nothing. **AbxParserSource** and **AbxStreamSource** foretell `stream` from the document (`StreamOf`) and
refine `AbxSource` by counting the events among `answers`. Only the streaming parser has failing reads, and a call of it
is many steps, of which one is the step of `AbxSource`: the answer, or the read that fails.

**AbxHelpers.** `call` is the helper that runs, and every step is one turn of its loop: an event used (`Use`), the event
that makes it return (`Stop`), the end (`AtEnd`), an error (`SourceFails`, `SinkFails`). `Stops` and `Collect` are what
tells the helpers apart. A piece of XML is the event it is made of: here order and completeness are modelled, the text of a
piece is in `AbxXmlText`. The properties speak of the places of events and attributes in the document (`EachTag`, `EachValue`,
`XmlOf`), and `InOrder` says that an answer has one entry for each of them, in their order. Assumed: `StreamsAssumption`
(events and attributes are lists) and `CallsAssumption` (the calls are of the seven helpers).

**AbxTraversal.** `frames` is the recursion of `read_element_body`: one open element per level, with what it
has so far. `Enter` is the recursive call, `Leave` its return; `Deserialize` and `Refuse` are what the client's type makes of the
element. The client may call again after any answer, so that a search may start inside an element. What a document's elements are
is said of any sequence of events, balanced or not: `Span` is what belongs to the element that starts at a place, all up to the event that
closes it, or all the rest if none does; `Kids` and `Texts` are the places in it one level and no level deeper; `Elements` puts them together.
Assumed: `StreamsAssumption` (events and texts are lists) and `WantedAssumption` (the calls are of the three kinds).

**AbxElement.** `deserialize_map` on one element: `Group` is one turn of the loop of `group_children`, `NextAttribute`, `NextGroup` and
`NextText` are the three branches of `next_key_seed`, and `VisitOnce`, `VisitSome`, `VisitSeq` and `NextElement` are what a
value does when it is asked for a type. The client is a serde visitor outside the library: `request` is the type it asks of every
value, from the outside in (`<<"option", "seq", "struct">>`), and `Refuse` is an error of its own at any
point. `VisitOfValue` and `VisitOfElement` are the `Deserializer` implementations of `value.rs` and `element.rs`; `FromStr` is the
predicate `Parses`, and the fourteen scalar types are one. A value that is a map in its turn is shown as the element it would be opened on.
`FirstPlaces` are the places of the children that are the first of their name, unless an attribute has it, and `IsField` is what the i-th field is, given them in order:
that is what `EveryPartShown` compares with what was shown. Assumed: `ElementsAssumption` (attributes and children are lists, there is
at most one text) and `RequestsAssumption` (inside of `Option` and `Vec` there is another type).

**AbxXmlEvents** is the `match` of `xml_to_abx`: what each event of the quick_xml reader becomes. **AbxXml** is its loop, as a client
of `AbxWriter` over a `Vec`, which takes every write: an event is read when the last one is written, an error of either
side ends the call. The reader is external: it gives any events, an end tag only under the name of the innermost open one, `Eof`
whatever is still open, and an error anywhere (`malformed`), a repeated attribute among them. `Conveys` says that two sequences tell the
same, end tags and declarations aside: the k-th of one and the k-th of the other, counted by `Rank`, say the same. `TagsAfter` is what an event does to the
tags that are open. `XmlAssumption`: the reader finds events of its kinds, of which only tags have attributes; and `Events`,
what the writer's client may write, has all that they become (`MCWritten` is just that).

**AbxXmlText** is the text: `render_event` and what it calls, one lexeme (a character, a reference, a tag, a piece of markup) where
the code writes several characters. `RenderNext` is one turn of the loop of `to_xml`. `ReadXml` is what quick_xml finds in such text
(external), `Decoded` the value of an attribute in `start_tag_attributes` (a tab or the end of a line is a space, `Normalized`, once the references are
resolved), and `Again` the events `xml_to_abx` makes of the text unless it is `Refused`: one of its strings is longer than a payload may be, which is possible though
every string of the document fits, since adjacent texts run together and bytes double as hex digits. A number is the natural number its bits are; `HalfInt` and `HalfLong` are half of the numbers
of an int's and of a long's width, 2^31 and 2^63 in the code. Assumed: `HalvesAssumption` (there are such numbers) and `DocEventsAssumption` (texts and attributes are
lists; a number has the bits of its width; what `std`, `faster_hex` and `base64` make of other values has nothing in it to be escaped; a reference has one
name; ignorable white space is not markup; and `WellFormed`: names are names, a tag has an attribute once, a piece of markup does not hold the characters that end it).
ABX has events that are not, but `render_event` writes them as they stand and the result is no XML, or other XML. The specification is `TextSpec`.

## 3. What the runs check

| run | bounds | shows |
|---|---|---|
| `memory_parser` | all documents of up to 4 of 9 pieces (sound and unsound tags, attributes, dangling indices, bad strings), a document with every command and type cut after every byte, wrong headers; 7 calls | `ErrorsRepeat`, `EventsConsume`, `PoolKeepsIndices`, `PoolPaidFor`, and `ImplementsSource`: it is the parser the helpers and the traversal assume |
| `stream` | documents of up to 2 pieces, a tag with 2 more behind it, a nested one cut after every byte, one longer than the buffer; `INITIAL_BUF` 4, `READ_CHUNK` 3, every size of every read, 2 failing reads, 4 calls | `WindowFaithful`, `NoFalseEof`, `NoLeftovers`, `BufferBounded`; `ImplementsMemory`: the streaming parser implements the memory parser; `ImplementsSource`, with its failing reads; and the liveness property `CallsReturn` |
| `stream_growth` | the code's own constants and a 4-byte input | a disagreement with the documentation, see below |
| `round_trip_limits` | `Radix` 2, `LINEAR_SCAN_LIMIT` 1, 8 events that fill the pool, exceed the payload limit and reuse names, 4 calls, 1 failure of the sink | `FindsEveryName`, `PoolsAgree`, `RoundTrip`, `CutOutputIsPrefix` |
| `round_trip_types` | `Radix` 256, every command, every type of value alone and in pairs, 2 calls | `RoundTrip` |
| `helpers` | all sequences of up to 3 of 7 events (tags with and without the attribute, with two of the same name, two documents in one), up to 2 if an error ends them; 2 calls of any helpers, then more of `find_attribute` up to 4, 1 failing read, a sink that may fail anywhere | `FindsTheNext`, `TakesTheRest`, `SameXml`, `RepeatedFindMissesNone`, and the liveness property `CallsReturn` |
| `traversal` | all sequences of up to 4 of 5 events, balanced or not, and two longer balanced ones (the same name nested, mixed text); 2 calls, 1 failing read | `NextIsTheElement`, `AllAreOutermost`, `StartTagsKept`, and the liveness property `CallsReturn` |
| `traversal_ends` | the same documents, 1 call | a disagreement with the documentation, see below |
| `element` | up to 2 attributes, up to 3 children and a text that share 3 names, `$text` among them; every type of value; children with nothing, with text that parses or does not, with attributes; 8 requests | `NoKeyTwice`, `EveryPartShown`, `VecTakesEvery`, `ScalarsAlike` |
| `element_struct` | the same elements, a struct field | a disagreement with the documentation, see below |
| `xml` | up to 4 of 15 events of an XML reader, an error anywhere; `Radix` 2, `LINEAR_SCAN_LIMIT` 1 | `ContentKept`, `TagsMatch`, `FailsAsDocumented` |
| `xml_text` | up to 3 events of every kind, balanced; texts and values with every special character, tabs and line ends; `Radix` 3, so that a payload has at most 8 characters: bytes whose hex digits are more, texts that are more when they run together; `HalfInt` 8, every int; `HalfLong` 128, the longs at the ends of their range and about 16 | `XmlStable`, `ContentSurvives`, `NumbersReadBack` |

Why the bounds are enough. A piece of a document is at most one token; the grammar's state
after a token is its position and the pool, so four tokens reach an introduction of a
string, a use of it, a failing attempt that introduces one, and a call after that. The buffer
constants are smaller than the largest token and not multiples of one another, so a
window may end in every place of every primitive, compaction happens with and without
stale bytes behind the window, and the buffer grows both by a chunk and by what is missing.
With `Radix = 2` the pool's and the payload's limits are both crossed within 4 events, and
with `LINEAR_SCAN_LIMIT = 1` the index is built, kept up and used.
The streaming parser's documents are shorter than the memory parser's: what the window and the reads add happens within
an event or between two, and a document whose first piece is unsound is read no further than that piece.
A helper keeps nothing between events but what it has collected, so a call, an error or the end of a document in it, and
a second call behind that are all within 3 events. Four events reach every way tags can fail to balance around two
levels; the longer documents add what only balanced ones show. Shadowing needs one attribute, one child and a text of a name, grouping
three children with a second name between two of the first; both are there with room to spare. Four events of an XML reader take 3
names into the pool, which is full then, and write a fourth. A 4-bit number has every sign, digit and overflow a 32-bit one has, except
in the number of its digits.

Deadlock is not checked: a client stops calling when it likes, and does at `MaxCalls`.

**Fairness.** `AbxStreamParser!Spec` has weak fairness of `Internal`: a call that has begun goes on, since it
runs on the caller's thread, and a read returns, with bytes, with 0 or, at most `MaxFaults` times, with an
error. Nothing obliges the client to call or a read to fail. `CallsReturn` follows only because the refill
loop asks for more bytes than it has.

`AbxStreamSource!StreamSpec` has the same. `AbxTraversal!Spec` and `AbxHelpers!Spec` have weak fairness of `Progress`: the loop of
a call runs on the caller's thread until it returns, since a call of `next_event` does. That it ends is not the loop's doing
alone: behind the last event `next_event` gives the same answer for ever, and `CallsReturn` fails if a loop does not take the first error for its end.

**Findings.** `stream_growth`: the documentation of `AbxStreamParser` and `docs/DESIGN.md` say that the
buffer "only grows to fit a single value larger than" 4 KiB. `ensure` grows it whenever less than
`READ_CHUNK` bytes of it are free, and that is so as soon as one byte is in it: TLC's trace is
a document of 4 bytes delivered in two reads. Nothing is lost by it; the bound that does hold is `BufferBounded`, what the
largest event asks for and one chunk.

`traversal_ends`: the documentation of `deserialize_next` says that the element's closing tag is consumed and that the
answer is `None` "if the document ends first". `read_element_body` takes the end of the document, and the end of the events, for
the end of the element: the shortest trace is a document with one start tag and nothing behind it, answered with `Some`.
`StartTagsKept` is what does hold of such documents.

`element_struct`: `src/lib.rs` says that a `Vec<T>` field takes every matching child and "any other field takes the first one".
`ValueDeserializer` forwards `deserialize_struct` and `deserialize_map` to `deserialize_any`, which looks at the first child: one without
attributes and children is shown as a string or as unit, and a derived struct refuses both. TLC's trace is an element with one
child that has a text and nothing else, shown as a string; in a `Vec` the same child is shown as a map, because `ChildSeqAccess` hands out an `ElementDeserializer`, which
has a `deserialize_struct`. So a struct with optional fields only is filled from such a child, or from an empty one, in a `Vec` and fails outside it.

## 4. What is proved

Everything in this section holds for all values of the constants under the assumptions named, any number of calls, any order of
them, and failures wherever the model has them. `PROJECT.json` lists the theorems. The assumptions about documents and
limits are `RadixAssumption` (`Radix` is in 2..256), `DocsAssumption` (documents are bytes), `BufferAssumption` (`READ_CHUNK` is
not 0; `INITIAL_BUF` may be), `LimitAssumption` (`LINEAR_SCAN_LIMIT` is a number) and `EventsAssumption` (events are events,
with byte strings in them); `Utf8`, `Parses` and `AsStr` are any predicates and functions. Those of the other modules are in section 2.

One technique is used throughout. The runs of the grammar (`Run`), a document's reading (`Decode`), the tags that are open
(`OpenTags`) are recursive functions, which the provers do not unfold. What is needed of them is proved by induction over a *set of numbers*, those up to
which the claim holds, so that no theorem of the library has to be given an operator: that there is such a function and only one, that its
values have their types, and that n steps of the grammar taken one by one are the n-th value of `Run`.

**Grammar** (`AbxGrammarProofs`). `StepType`: a step, on any window, partial or not, keeps the state well typed and the position within the
window, and only ever extends the pool it was lent. `RunEnds`: on a complete window `Len(W) + 1` steps are always enough, an event has
consumed a byte at least, and each string the pool has got has cost four. `AnswersAreForetold`: the calls a client makes one by one give
the events of `Decode`, then its error.

**Memory parser** (`AbxParserProofs`). `ParserTypeCorrect`, `ParserErrorsRepeat`, `ParserPoolPaidFor`, and the action properties `ParserEventsConsume`
and `ParserPoolKeepsIndices`. `ErrorsRepeat` is not inductive: that two answers are alike does not say what the next one is. The
invariant adds `StandsAtTheEnd`: an error once answered is what `Run` gives where the parser stands. `ParserImplementsSource`: the parser implements `AbxSource`, the
mapping counting the events among its answers; it rests on `AnswersAreForetold`.

**Streaming parser** (`AbxStreamParserProofs`). Three layers of invariants, each using the one before.

- `IInv`, for `StreamTypeCorrect`, `StreamWindowFaithful`, `StreamNoFalseEof` and `StreamNoLeftovers`. `BufferInv` is about the bytes: the window is the
  input between the last consumed and the last read byte, stated by index; `CallInv` about the call in progress: while a parse goes on
  `mark = called`, the pool is at least that long and its front is what it was, so that truncating it is sound, and the grammar's position is
  within the window, so that consuming `scan.cur` bytes stays within it.
- `RunInv`, for `StreamImplementsMemory` and `StreamImplementsSource`. Its heart is `AttemptInv`: an attempt that is not given up is on the run that the memory parser
  would make over *all* that is left of the input (`OnRun`), since a step on a partial window is either the step on the longer one or `Incomplete`. So a call's
  many steps are one step of the memory parser, its last, and the others stutter: the abandoned attempts leave no trace.
- `BoundInv`, for `BufferStaysBounded`. The buffer is bounded by what the document demands of it at once, so the invariant has to say where demands come from:
  `ReadingInv` (`ensure` waits with `pos` 0, less in the window than is needed, and needs no more than a demand of the document), `GivenUpInv` (an attempt
  that was given up misses no more than its event demands) and `StandsInv` (the parser stands where the calls before it on the whole document would have
  brought it, so that the event it is at is one of the document's).

**Writer** (`AbxRoundTripProofs`, its first part). `WriterTypeCorrect`: the pool never gets longer than the positions a two-byte field has, the marker
left out, and every position in the index is one in the pool. `WriterFindsEveryName`: each name of the pool has one position and `find` gives it, by scan or by
lookup. The names differ (`NamesDiffer`) and the index, once built, has exactly them (`IndexCurrent`). That is not inductive alone: between the moment a name
is found to be new and the moment the pool takes it there are two or three operations, during which it must stay new. `CacheFresh` says that the name of a `cache`
operation is not in the pool, and that all operations in front of it are plain output, which touches no pool.

**Writer and parser** (`AbxRoundTripProofs`). `RoundTripHolds`, `PoolsAgreeHold`, `CutOutputHolds`. What a parser makes of the output is a function of the whole of it, and the output
grows; an invariant about `Decode(out)` could say nothing of the next byte. So it speaks of every document that begins with the output: a parser of any such document
comes to the output's end with the events written behind it, with a pool of which the writer's is the front, in the midst of the event being written, and there its grammar
expects just what the operations in `todo` put out (`Stands`, `Standing`, `ReadsBack`). `SoundInv` says so until a call fails, and `SpoiledInv` keeps what
`CutOutputIsPrefix` says from then on; `RInv` is both, with the writer's `IInv` and `NothingLeft`. Assumed in addition: `ValuesAssumption`.

**Elements and values** (`AbxElementProofs`). `ElementTypeCorrect`, `ElementNoKeyTwice`, `ElementEveryPartShown`, `ElementVecTakesEvery`, `ElementScalarsAlike`. `IInv` says, for
each of the three sources of keys, what keeps it from the ones in front of it: the attributes left are too few to reach behind the element's
(`AttributesLeft`), no group has the name of an attribute, of another group or of a key handed out (`GroupsFresh`), and while there is a text to come nothing else is called `$text`
(`TextFresh`). `GInv` says that the groups are the children grouped so far, in the order in which their names first stand, and what was handed out are the first fields
(`FieldsInv`). `VInv` follows the visits of the last value through the nest of `Option` and `Vec` the client asks for.

**Helpers** (`AbxHelpersProofs`). `HelpersFindTheNext`, `HelpersTakeTheRest`, `HelpersRenderTheSame`, `HelpersMissNone`. The invariant has, besides the types, `SpanInv`: the calls
divide what was consumed among them without a gap, each beginning where the one before it ended; `CallInv`: what the call in progress has found is what its answer must be made of, up to
where it is; and `GoodInv`: every answer given was good, and one that failed has skipped no match. `HelpersMissNone` follows from all three: a match is in the span of one
call, and that call answered it.

**Traversal** (`AbxTraversalProofs`). `TraversalNextIsTheElement`, `TraversalAllAreOutermost`, `TraversalStartTagsKept`, for every document, balanced or not. An element is a
tree, defined by recursion over the places of its children, and `read_element_body` builds it from the leaves; what relates the two is where the open elements start. The
invariant (`TraversalInvariant`) is: the frames start at places one inside the other, each a level deeper than the one around it, and none has been closed (`Places`); each
holds the texts of its element up to what has been consumed, and its children up to the one that is open (`FrameAt`, `Path`); and before the first of them the search has
passed whole elements of the name, has collected just those that are in no other, and has met an end of the document only inside of one (`Searched`). An event that closes
the innermost frame ends its `Span`, so that what it holds is `ElementAt` its place and its parent's next child. When the events run out, all open spans end at
once: the frames are closed one by one, each complete. That `Elements` is defined is an induction from the last place of the document down (`ElementsExist`), since children stand behind
their parent. `StartTagsKept` does not need the tree to be finite by depth: `Preorder` is a walk with a list of what is to be visited, and `WalkAt` says that after k turns it has
named the first k start tags and what is to be visited are the elements that start at the next ones. TLC checked the invariant on the documents of `traversal` first.

**XML to ABX** (`AbxXmlProofs`). `XmlContentKept`, `XmlTagsMatch`, `XmlFailsAsDocumented`. What has been read is on its way to the bytes in three places, `written`, `current` and
`due`; `Handed` is all of it in order, and it changes only when an event is read. `HandedInv` says of it what the properties say of the bytes, and once `status` is
`"ok"` the round trip's theorem makes it what a parser reads back. `LongInv` follows a string that is too long: it is in `due` or `todo` until it is refused, and never gets by; for that a name that is to
enter the pool has to stand behind its own bytes (`ShortOrBehind`), and the names in the pool are all short, since a name found there is not checked again. Assumed in addition: `XmlAssumption`.

**XML text** (`AbxXmlProofs`, its second part). `TextInvariant`, `TextIsStable`, `TextSurvives`, `NumbersSurvive`, for every well-formed document, any limit of a payload and any two widths. `XmlStable` and
`ContentSurvives` are about what a reader makes of the whole text, and the text grows, so `TextInv` speaks of the lexemes: each is one that `render_event` can write
(`IsRendered`), and what they say one by one, joined, is what the document says (`AllSpelled`, `AllTagged`). `EventsSay` is the case of each event. `ReadRendered` relates the reader
to the lexemes (`SaysSame`): a character either begins a text or lengthens the last one (`TextGrown`), and both come to the same when the text is encoded and rendered again, because
`xml_escape` works on each character by itself and its entities are decoded by just one (`EntityOf` has an inverse on `Specials`). The white space of attributes is what changes: the text that is rendered again is `Spaced`, and `Normalized` leaves alone what it has
made, so that it changes once. A reader finds in the second text just what it finds in the first (`ReadSpaced`), so that the second is refused only if the first is, and what it becomes is the same. The digits of a number are a function defined
by recursion on the number, and their value one on their count; that there are such functions, and only one of each, is again an induction over a set of numbers. `NumberText` is then
that the digits of n stand for n and begin with 0 only when n is 0, and `SignedIs` that the cast to the type's width keeps the bits, whatever the half of the width.
TLC checked `TextInv` on the documents of `xml_text` first.

Only model-checked:

- liveness (`CallsReturn`, of the streaming parser, the helpers and the traversal), and whatever needs `ENABLED`: not in the provers' reach. `RunEnds` is the
  part of it that is safety: no call of the grammar runs for ever.

## 5. The plan

1. Done: the grammar, both parsers, the writer and their composition.
2. Done: `AbxSource`, which both parsers implement, `AbxHelpers` and `AbxTraversal`, with liveness.
3. Done: `AbxElement`, against a declarative list of its fields.
4. Done: `AbxXml` and `AbxXmlText`, in both directions.
5. Done: theorems for every safety property of the parsers, the writer, the round trip, the helpers, the elements and `xml_to_abx`, and for the
   refinements: the streaming parser implements the memory parser, and both implement `AbxSource`.
6. Done: the traversal's three safety properties, for every document.
7. Done: the XML text's three properties, for every well-formed document, every limit of a payload and every width of a number. Each safety invariant, action property and
   refinement that a passing run checks is now the statement of a theorem.

## 6. Not modelled

- The text of floats, of hexadecimal bytes and of Base64, which `std`, `faster_hex` and `base64` produce: `AsStr` takes it as given. The values of numbers
  on the wire: they are the bytes they consist of.
- Documents whose XML is not well-formed, or is the XML of another document: text that ends a piece of markup early (`]]>` in CDATA, `-->` in a
  comment, `?>` in a processing instruction), `<` in ignorable white space, names that are no names, a tag that repeats an attribute. All of it is legal ABX, `render_event` writes
  it as it stands, and the library promises nothing of it. `WellFormed` and `DocEventsAssumption` keep these out of `AbxXmlText`, whose properties and theorems
  speak of the other documents only.
- The visitors of a client's own types. `Vec<Option<T>>`, newtypes and enums filled from child elements all reach `deserialize_any` of
  the child; the model shows what they are shown, not what they make of it.
- The files `open_file` and `from_file` open, and `into_inner`, which ends a parser or writer: a client that calls no more. `AbxParserOwned` keeps the bytes of
  a document, and its `parser()` is `new` again.
- That `xml_to_abx` does not reject a document whose tags are still open at its end is quick_xml's doing: `TagsMatch` says that they are the tags left open in the bytes.
- The depth of the thread's stack that `read_element_body` uses.
