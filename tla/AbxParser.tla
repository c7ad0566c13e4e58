----------------------------- MODULE AbxParser -----------------------------
(***************************************************************************)
(* The parser over a document in memory (src/decode/slice.rs).             *)
(*                                                                         *)
(* A call runs to its end on the caller's thread and waits for nothing, so *)
(* it is one step.  `answers` records what the calls returned, oldest      *)
(* first.  This is also the abstract specification of the streaming        *)
(* parser: what a client sees must not depend on how the bytes arrive.     *)
(***************************************************************************)
EXTENDS AbxGrammar

CONSTANTS Docs,           \* the inputs considered
          MaxCalls        \* bound on the calls of the client

ASSUME DocsAssumption == Docs \subseteq Bytes

VARIABLES doc,            \* the input given to new
          phase,          \* "new", "open", or "closed": new returned an error
          rest,           \* AbxParser.rest
          pool,           \* AbxParser.pool
          answers

vars == <<doc, phase, rest, pool, answers>>

Init == /\ doc \in Docs
        /\ phase = "new"
        /\ rest = <<>>
        /\ pool = <<>>
        /\ answers = <<>>

New ==
  /\ phase = "new"
  /\ IF MagicError(doc) = {}
     THEN /\ phase' = "open"
          /\ rest' = SubSeq(doc, 5, Len(doc))
          /\ answers' = answers
     ELSE /\ phase' = "closed"
          /\ rest' = rest
          /\ \E e \in MagicError(doc) : answers' = Append(answers, <<"error", e>>)
  /\ UNCHANGED <<doc, pool>>

\* Vec::truncate, for an n that is at most the length.
Truncate(s, n) == SubSeq(s, 1, n)

\* The end of the input: there is no event.
NextEventAtEnd ==
  /\ rest = <<>>
  /\ answers' = Append(answers, <<"none">>)
  /\ UNCHANGED <<rest, pool>>

\* Mutants: the strings of the failed attempt stay in the pool; the pool is emptied;
\* what the attempt has read is skipped.
KeptPool(g)    == g.pool
ClearedPool(g) == <<>>
SkippedRest(g) == SubSeq(rest, g.cur + 1, Len(rest))

\* The pool and the rest of the input after a failed attempt g, and the rest
\* after a successful one.
PoolOnError(g) == Truncate(g.pool, Len(pool))
RestOnError(g) == rest
RestOnEvent(g) == SubSeq(rest, g.cur + 1, Len(rest))

NextEventParsed ==
  /\ rest # <<>>
  /\ LET g == Run(rest, pool) IN
       /\ answers' = Append(answers, Result(g))
       /\ rest' = IF g.at = "done" THEN RestOnEvent(g) ELSE RestOnError(g)
       /\ pool' = IF g.at = "done" THEN g.pool ELSE PoolOnError(g)

NextEvent ==
  /\ phase = "open"
  /\ Len(answers) < MaxCalls
  /\ NextEventAtEnd \/ NextEventParsed
  /\ UNCHANGED <<doc, phase>>

Next == New \/ NextEvent

Spec == Init /\ [][Next]_vars

-----------------------------------------------------------------------------
\* Every variable keeps its type; the runs of the grammar are long enough to
\* reach an answer.
TypeOK == /\ doc \in Bytes
          /\ phase \in {"new", "open", "closed"}
          /\ rest \in Bytes
          /\ pool \in Seq(Bytes)
          /\ answers \in Seq(Answer)

IsError(a) == a[1] = "error"

\* "On error, the parser is left at the start of the failing event"
\* (slice.rs:74): the event fails again, with the same error, however often
\* next_event is called.  A string pushed by the failed attempt and not rolled
\* back would make a dangling index valid on the next call.
ErrorsRepeat ==
  \A i, j \in 1..Len(answers) :
    i < j /\ (IsError(answers[i]) \/ answers[i] = <<"none">>) => answers[j] = answers[i]

\* An event takes at least one byte off the input, and nothing else takes any:
\* a client that loops until None is not kept in the loop by the document.
EventsConsume ==
  [][phase = "open" =>
       /\ rest' # rest <=> answers'[Len(answers')][1] = "event"
       /\ \E n \in 0..Len(rest) : rest' = SubSeq(rest, n + 1, Len(rest))]_vars

\* Strings keep their index in the pool for good: later references in the
\* document are by position.
PoolKeepsIndices ==
  [][Len(pool) <= Len(pool') /\ SubSeq(pool', 1, Len(pool)) = pool]_vars

\* The pool only holds strings the input introduced as new ones: there are
\* never more of them than introductions in the bytes consumed so far, and
\* each takes at least a marker and a length.
PoolPaidFor ==
  phase = "open" => 4 * Len(pool) <= Len(doc) - 4 - Len(rest)
=============================================================================
