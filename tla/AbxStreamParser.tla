-------------------------- MODULE AbxStreamParser --------------------------
(***************************************************************************)
(* The parser over any std::io::Read source (src/decode/stream.rs).        *)
(*                                                                         *)
(* The input comes in reads of whatever size the reader likes, into a      *)
(* buffer that is compacted and grown on the way; an event that runs past  *)
(* the bytes read so far is abandoned and parsed again from its start once *)
(* more are there.  The environment chooses the size of every read, may    *)
(* fail any of them, and may call next_event again whatever it returned.   *)
(*                                                                         *)
(* pc is where the call in progress stands; ensure is entered from three   *)
(* places, and `then` is where it returns to.                              *)
(***************************************************************************)
EXTENDS AbxGrammar

CONSTANTS Docs,           \* what the reader holds: the inputs considered
          INITIAL_BUF, READ_CHUNK,
          MaxCalls,       \* bound on the answered calls of the client
          MaxFaults       \* bound on the reads that fail

ASSUME DocsAssumption == Docs \subseteq Bytes
ASSUME BufferAssumption == /\ INITIAL_BUF \in Nat
                           /\ READ_CHUNK \in Nat \ {0}

VARIABLES doc,            \* the reader's input
          fed,            \* how much of it has been read
          buf, pos, len, eof,   \* fields of AbxStreamParser; buf is all of the
                          \* Vec, the stale bytes outside pos..len included
          scan,           \* the state of grammar::event; scan.pool is the field pool
          called,         \* pool_len in next_event (line 122)
          mark,           \* pool_len in parse_event (line 138)
          needed,         \* the argument of ensure
          pc, then,
          answers,        \* what the calls returned, I/O errors left out
          faults          \* the reads that failed

buffer == <<buf, pos, len, eof>>
vars == <<doc, fed, buf, pos, len, eof, scan, called, mark, needed, pc, then, answers, faults>>

MaxOf(m, n) == IF m < n THEN n ELSE m
MinOf(m, n) == IF m < n THEN m ELSE n

Zeros(n) == [i \in 1..n |-> 0]
Truncate(s, n) == SubSeq(s, 1, n)

Available == len - pos
Window    == SubSeq(buf, pos + 1, len)

Init == /\ doc \in Docs
        /\ fed = 0
        /\ buf = Zeros(INITIAL_BUF)
        /\ pos = 0
        /\ len = 0
        /\ eof = FALSE
        /\ scan = Start(<<>>)
        /\ called = 0
        /\ mark = 0
        /\ needed = 0
        /\ pc = "new"
        /\ then = "magic"
        /\ answers = <<>>
        /\ faults = 0

\* Mutant: the strings of the abandoned attempt stay in the pool.
RestartDirty(n) == Start(scan.pool)

\* The grammar is left, and its pool cut back to the n strings it had.
Restart(n) == Start(Truncate(scan.pool, n))

-----------------------------------------------------------------------------
(***************************************************************************)
(* ensure: the early return; else compact, and go read.                    *)
(***************************************************************************)

\* Mutant: the window's bytes stay where they are.
NotCompacted == buf

\* copy_within(pos..len, 0): the bytes past the window stay where they are.
Compacted ==
  [i \in 1..Len(buf) |-> IF i <= Available THEN buf[pos + i] ELSE buf[i]]

\* Mutants: pos is not reset; consumed bytes are never dropped.
CompactButPos == buf' = Compacted /\ len' = Available /\ UNCHANGED pos
NoCompaction  == UNCHANGED <<buf, pos, len>>

Compact == /\ buf' = IF pos > 0 THEN Compacted ELSE buf
           /\ len' = Available
           /\ pos' = 0

Ensure(n, return) ==
  /\ then' = return
  /\ needed' = n
  /\ IF Available >= n \/ eof
     THEN /\ pc' = return
          /\ UNCHANGED buffer
     ELSE /\ pc' = "read"
          /\ Compact
          /\ eof' = eof

\* Mutant: the buffer does not grow.
RoomAsIs == buf

\* The buffer handed to the next read has room for at least one byte.
Room ==
  IF Len(buf) - len < READ_CHUNK
  THEN buf \o Zeros((len + MaxOf(READ_CHUNK, needed - Available)) - Len(buf))
  ELSE buf

\* The reader copied the next n bytes of the input behind the window.
Filled(n) ==
  [i \in 1..Len(Room) |-> IF i \in (len + 1)..(len + n) THEN doc[fed + i - len] ELSE Room[i]]

\* A read of n > 0 bytes; ensure returns once there are enough.
Read(n) ==
  /\ pc = "read"
  /\ buf' = Filled(n)
  /\ len' = len + n
  /\ fed' = fed + n
  /\ pc' = IF Available + n >= needed THEN then ELSE "read"
  /\ UNCHANGED <<doc, pos, eof, scan, called, mark, needed, then, answers, faults>>

\* Read::read returns 0 at the end of the input, or for an empty buffer.
ReadNothing ==
  /\ pc = "read"
  /\ fed = Len(doc) \/ Len(Room) = len
  /\ buf' = Room
  /\ eof' = TRUE
  /\ pc' = then
  /\ UNCHANGED <<doc, fed, pos, len, scan, called, mark, needed, then, answers, faults>>

ReadSome == \E n \in 1..MinOf(Len(Room) - len, Len(doc) - fed) : Read(n)

\* The read fails and `?` hands the error up: new returns no parser, a call in
\* progress drops what the grammar pushed, if it had begun.
ReadError ==
  /\ pc = "read"
  /\ faults < MaxFaults
  /\ faults' = faults + 1
  /\ buf' = Room
  /\ pc' = IF then = "magic" THEN "closed" ELSE "idle"
  /\ scan' = IF then = "attempt" THEN Restart(called) ELSE scan
  /\ UNCHANGED <<doc, fed, pos, len, eof, called, mark, needed, then, answers>>

-----------------------------------------------------------------------------
\* AbxStreamParser::new
New ==
  /\ pc = "new"
  /\ Ensure(4, "magic")
  /\ UNCHANGED <<doc, fed, scan, called, mark, answers, faults>>

CheckMagic ==
  /\ pc = "magic"
  /\ IF MagicError(Window) = {}
     THEN /\ pc' = "idle"
          /\ pos' = pos + 4
          /\ answers' = answers
     ELSE /\ pc' = "closed"
          /\ pos' = pos
          /\ \E e \in MagicError(Window) : answers' = Append(answers, <<"error", e>>)
  /\ UNCHANGED <<doc, fed, buf, len, eof, scan, called, mark, needed, then, faults>>

\* The client calls next_event.
NextEvent ==
  /\ pc = "idle"
  /\ Len(answers) < MaxCalls
  /\ Ensure(1, "begin")
  /\ UNCHANGED <<doc, fed, scan, called, mark, answers, faults>>

AtEnd ==
  /\ pc = "begin"
  /\ Available = 0
  /\ pc' = "idle"
  /\ answers' = Append(answers, <<"none">>)
  /\ UNCHANGED <<doc, fed, buf, pos, len, eof, scan, called, mark, needed, then, faults>>

Begin ==
  /\ pc = "begin"
  /\ Available > 0
  /\ pc' = "attempt"
  /\ called' = Len(scan.pool)
  /\ UNCHANGED <<doc, fed, buf, pos, len, eof, scan, mark, needed, then, answers, faults>>

\* One turn of the loop in parse_event starts over at the event's first byte.
Attempt ==
  /\ pc = "attempt"
  /\ pc' = "parse"
  /\ mark' = Len(scan.pool)
  /\ scan' = Start(scan.pool)
  /\ UNCHANGED <<doc, fed, buf, pos, len, eof, called, needed, then, answers, faults>>

\* Mutant: the window is parsed as if nothing followed it.
NeverPartial == FALSE

\* More bytes may follow the window.
IsPartial == ~eof

Parse ==
  /\ pc = "parse"
  /\ scan.at \in Reading
  /\ scan' = Step(scan, Window, IsPartial)
  /\ UNCHANGED <<doc, fed, buf, pos, len, eof, called, mark, needed, pc, then, answers, faults>>

Done ==
  /\ pc = "parse"
  /\ scan.at = "done"
  /\ pc' = "idle"
  /\ pos' = pos + scan.cur
  /\ answers' = Append(answers, Result(scan))
  /\ scan' = Start(scan.pool)
  /\ UNCHANGED <<doc, fed, buf, len, eof, called, mark, needed, then, faults>>

\* Mutant: the missing bytes are asked for as if none were there.
MoreAlone == scan.more

\* The bytes there are and those the grammar misses.
WantedBytes == Available + scan.more

Refill ==
  /\ pc = "parse"
  /\ scan.at = "incomplete"
  /\ scan' = Restart(mark)
  /\ Ensure(WantedBytes, "attempt")
  /\ UNCHANGED <<doc, fed, called, mark, answers, faults>>

Failed ==
  /\ pc = "parse"
  /\ scan.at = "failed"
  /\ pc' = "idle"
  /\ answers' = Append(answers, Result(scan))
  /\ scan' = Restart(called)
  /\ UNCHANGED <<doc, fed, buf, pos, len, eof, called, mark, needed, then, faults>>

-----------------------------------------------------------------------------
\* What the library does by itself, once called and served by the reader.
Internal == \/ New \/ CheckMagic
            \/ ReadSome \/ ReadNothing
            \/ AtEnd \/ Begin \/ Attempt \/ Parse \/ Done \/ Refill \/ Failed

Next == Internal \/ NextEvent \/ ReadError

\* A call runs to its end on the caller's thread, and a read returns.  The
\* client need not call, and reads need not fail.
Spec == Init /\ [][Next]_vars /\ WF_vars(Internal)

-----------------------------------------------------------------------------
Pcs == {"new", "read", "magic", "idle", "begin", "attempt", "parse", "closed"}

\* Every variable keeps its type; pos..len is a range of the buffer, so the
\* slicings of lines 68, 86 and 133 do not panic; the pool never gets shorter
\* than the length to which it may be truncated.
TypeOK ==
  /\ doc \in Bytes
  /\ fed \in 0..Len(doc)
  /\ buf \in Bytes
  /\ len \in 0..Len(buf)
  /\ pos \in 0..len
  /\ eof \in BOOLEAN
  /\ scan \in GrammarState
  /\ called \in 0..Len(scan.pool)
  /\ mark \in 0..Len(scan.pool)
  /\ needed \in Nat
  /\ pc \in Pcs
  /\ then \in {"magic", "begin", "attempt"}
  /\ answers \in Seq(Answer)
  /\ faults \in Nat

\* The window is exactly the input between the last consumed byte and the last
\* read one, whatever reads, compactions, growths and failures went before.
WindowFaithful == /\ Available <= fed
                  /\ Window = SubSeq(doc, fed - Available + 1, fed)

\* A read into an empty slice returns 0 too: the end of the input is only
\* taken as reached when it is.
NoFalseEof == eof => fed = Len(doc)

\* When an attempt starts, and while it waits for more bytes, the pool is as long
\* as when next_event was called: nothing of an abandoned attempt is left.
NoLeftovers ==
  pc = "attempt" \/ (pc = "read" /\ then = "attempt") => Len(scan.pool) = called

\* What is still to be parsed, in the buffer and in the reader.
Pending == Window \o SubSeq(doc, fed + 1, Len(doc))

\* The pool as of the last delivered event.
Committed ==
  IF pc \in {"attempt", "parse"} \/ (pc = "read" /\ then = "attempt")
  THEN Truncate(scan.pool, called) ELSE scan.pool

Opening == pc \in {"new", "magic"} \/ (pc = "read" /\ then = "magic")
Phase == IF Opening THEN "new"
         ELSE IF pc # "closed" THEN "open"
         ELSE IF answers = <<>> THEN "new" ELSE "closed"

\* The parser over the same bytes held in memory.
Memory == INSTANCE AbxParser
            WITH phase <- Phase,
                 rest  <- IF Phase = "open" THEN Pending ELSE <<>>,
                 pool  <- Committed

\* "Both parsers return the same events and the same errors for the same bytes,
\* and after an error both are left at the start of the failing event"
\* (docs/DESIGN.md), however the bytes are cut into reads and whichever reads
\* fail on the way.
ImplementsMemory == Memory!Spec

\* The bytes an event asks for at most: it, and the byte behind it, which may be another
\* attribute.  One that fails may have asked for a payload that is not there.
Demand(g) == g.cur + (IF g.at = "done" THEN 1 ELSE MaxOf(g.size, 2))

\* What the buffer may have to hold at once of document d: the header, and each of its
\* events, the one that it fails in included.
Demands(d) ==
  LET body   == SubSeq(d, 5, Len(d))
      parsed == {s \in {DecodeSteps(body)[k] : k \in 0..Len(body)} : s.rest # <<>>}
  IN {4} \cup {Demand(Run(s.rest, s.pool)) : s \in parsed}

\* The buffer is bounded by what the largest event asks for and one chunk, not by the length
\* of the document: consumed bytes make room for new ones.
BufferBounded == \/ Len(buf) <= INITIAL_BUF
                 \/ \E n \in Demands(doc) : Len(buf) <= n + READ_CHUNK

\* "an internal buffer, which only grows to fit a single value larger than that"
\* (stream.rs:21): then it does not grow for an input that fits in it.
GrowsForLargeValues == Len(buf) > INITIAL_BUF => Len(doc) > INITIAL_BUF

\* Every call returns: the refill loop makes progress on any input.
Busy == pc \notin {"idle", "closed"}
CallsReturn == Busy ~> ~Busy
=============================================================================
