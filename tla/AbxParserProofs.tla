--------------------------- MODULE AbxParserProofs ---------------------------
(***************************************************************************)
(* The parser over memory, for every document and any number of calls.     *)
(*                                                                         *)
(* What a call answers is a function of what is left of the input and of   *)
(* the pool, Current.  The inductive invariant says that an error, or the  *)
(* end, once answered is what the parser still stands at.                  *)
(***************************************************************************)
EXTENDS AbxParserSource, AbxGrammarProofs

\* What next_event answers now.
Current == IF rest = <<>> THEN <<"none">> ELSE Result(Run(rest, pool))

\* An answer after which there are no events.
Ended(a) == IsError(a) \/ a = <<"none">>

StandsAtTheEnd == phase = "open" => \A i \in 1..Len(answers) : Ended(answers[i]) => answers[i] = Current

IInv == /\ TypeOK
        /\ phase = "new" => answers = <<>> /\ pool = <<>>
        /\ phase = "open" => Len(doc) >= 4
        /\ ErrorsRepeat
        /\ StandsAtTheEnd
        /\ PoolPaidFor

LEMMA AnswerKinds ==
  ASSUME NEW g
  PROVE  /\ g.at = "done" => ~Ended(Result(g)) /\ Result(g)[1] = "event"
         /\ g.at # "done" => Ended(Result(g)) /\ Result(g)[1] = "error"
         /\ Ended(<<"none">>) /\ <<"none">>[1] = "none"
BY DEF Ended, IsError, Result

\* A failed attempt is rolled back to the pool it started with, and a successful one takes
\* bytes off the input and pays for each string that it adds.
LEMMA AttemptType ==
  ASSUME rest \in Bytes, pool \in Seq(Bytes)
  PROVE  LET g == Run(rest, pool) IN
           /\ Result(g) \in Answer
           /\ g.pool \in Seq(Bytes)
           /\ g.cur \in Nat /\ g.cur <= Len(rest) /\ (g.at = "done" => g.cur >= 1)
           /\ RestOnEvent(g) \in Bytes /\ Len(RestOnEvent(g)) = Len(rest) - g.cur
           /\ PoolOnError(g) = pool
           /\ Len(pool) <= Len(g.pool) /\ SubSeq(g.pool, 1, Len(pool)) = pool
           /\ 4 * Len(g.pool) <= g.cur + 4 * Len(pool)
<1> DEFINE g == Run(rest, pool)
<1>1. /\ g \in GrammarState /\ g.cur <= Len(rest) /\ (g.at = "done" => g.cur >= 1)
      /\ PoolExtends(pool, g.pool) /\ 4 * Len(g.pool) <= g.cur + 4 * Len(pool)
  BY RunEnds
<1> HIDE DEF g
<1>2. g.cur \in 0..Len(rest) /\ g.cur \in Nat /\ g.pool \in Seq(Bytes)
  BY <1>1, LenProperties DEF GrammarState, GrammarRecord, Bytes
<1>3. RestOnEvent(g) \in Bytes /\ Len(RestOnEvent(g)) = Len(rest) - g.cur
  BY <1>2, RestType DEF RestOnEvent
<1> QED
  BY <1>1, <1>2, <1>3, ResultType DEF g, PoolExtends, PoolOnError, Truncate

-----------------------------------------------------------------------------
LEMMA InitInv == Init => IInv
BY DocsAssumption DEF Init, IInv, TypeOK, ErrorsRepeat, StandsAtTheEnd, PoolPaidFor, Bytes

LEMMA NewKeeps == IInv /\ New => IInv'
<1> SUFFICES ASSUME IInv, New PROVE IInv'
  OBVIOUS
<1>1. /\ phase = "new" /\ doc \in Bytes /\ rest \in Bytes /\ pool = <<>> /\ answers = <<>>
      /\ doc' = doc /\ pool' = pool
  BY DEF IInv, TypeOK, New
<1>2. CASE MagicError(doc) = {}
  <2>1. phase' = "open" /\ rest' = SubSeq(doc, 5, Len(doc)) /\ answers' = answers
    BY <1>2 DEF New
  <2>2. Len(doc) \in Nat /\ Len(doc) >= 4
    BY <1>1, <1>2, MagicIsLong, LenProperties DEF Bytes
  <2>3. 4 \in 0..Len(doc) /\ 4 + 1 = 5
    BY <2>2
  <2>4. SubSeq(doc, 4 + 1, Len(doc)) \in Bytes /\ Len(SubSeq(doc, 4 + 1, Len(doc))) = Len(doc) - 4
    BY <1>1, <2>3, RestType, Zenon
  <2>5. rest' \in Bytes /\ Len(rest') = Len(doc) - 4
    BY <2>1, <2>3, <2>4, Zenon
  <2> QED
    BY <1>1, <2>1, <2>2, <2>5 DEF IInv, TypeOK, ErrorsRepeat, StandsAtTheEnd, PoolPaidFor
<1>3. CASE MagicError(doc) # {}
  <2>1. PICK e \in MagicError(doc) : answers' = Append(answers, <<"error", e>>)
    BY <1>3 DEF New
  <2>2. phase' = "closed" /\ rest' = rest
    BY <1>3 DEF New
  <2>3. answers' = << <<"error", e>> >> /\ <<"error", e>> \in Answer
    BY <1>1, <2>1, MagicErrorType DEF Answer
  <2>4. answers' \in Seq(Answer) /\ Len(answers') = 1
    BY <2>3
  <2>5. ErrorsRepeat'
    BY <2>4 DEF ErrorsRepeat
  <2> QED
    BY <1>1, <2>2, <2>4, <2>5 DEF IInv, TypeOK, StandsAtTheEnd, PoolPaidFor
<1> QED
  BY <1>2, <1>3

\* A call of next_event answers Current; only an event takes the parser any further.
LEMMA CallAnswers ==
  ASSUME IInv, NextEvent
  PROVE  /\ Current \in Answer
         /\ answers' = Append(answers, Current)
         /\ Ended(Current) => UNCHANGED <<rest, pool>>
         /\ ~Ended(Current) => /\ rest # <<>> /\ Current[1] = "event"
                               /\ rest' = RestOnEvent(Run(rest, pool))
                               /\ pool' = Run(rest, pool).pool
                               /\ Run(rest, pool).at = "done"
<1>1. rest \in Bytes /\ pool \in Seq(Bytes)
  BY DEF IInv, TypeOK
<1>2. CASE NextEventAtEnd
  BY <1>2, AnswerKinds DEF NextEventAtEnd, Current, Answer
<1>3. CASE NextEventParsed
  <2> DEFINE g == Run(rest, pool)
  <2>1. /\ rest # <<>> /\ answers' = Append(answers, Result(g))
        /\ rest' = IF g.at = "done" THEN RestOnEvent(g) ELSE RestOnError(g)
        /\ pool' = IF g.at = "done" THEN g.pool ELSE PoolOnError(g)
    BY <1>3 DEF NextEventParsed
  <2>2. Current = Result(g)
    BY <2>1 DEF Current
  <2>3. Result(g) \in Answer /\ PoolOnError(g) = pool /\ RestOnError(g) = rest
    BY <1>1, AttemptType DEF RestOnError
  <2> HIDE DEF g
  <2>4. (g.at = "done" <=> ~Ended(Current)) /\ (g.at = "done" => Current[1] = "event")
    BY <2>2, AnswerKinds
  <2> QED
    BY <2>1, <2>2, <2>3, <2>4 DEF g
<1> QED
  BY <1>2, <1>3 DEF NextEvent

LEMMA NextEventKeeps == IInv /\ NextEvent => IInv'
<1> SUFFICES ASSUME IInv, NextEvent PROVE IInv'
  OBVIOUS
<1> DEFINE g == Run(rest, pool)
           n == Len(answers)
<1>1. /\ doc \in Bytes /\ rest \in Bytes /\ pool \in Seq(Bytes) /\ answers \in Seq(Answer)
      /\ phase = "open" /\ phase' = "open" /\ doc' = doc /\ Len(doc) >= 4
      /\ ErrorsRepeat /\ PoolPaidFor
      /\ \A i \in 1..Len(answers) : Ended(answers[i]) => answers[i] = Current
  BY DEF IInv, TypeOK, NextEvent, StandsAtTheEnd
<1>2. /\ Current \in Answer
      /\ answers' = Append(answers, Current)
      /\ Ended(Current) => UNCHANGED <<rest, pool>>
      /\ ~Ended(Current) => rest' = RestOnEvent(g) /\ pool' = g.pool
  BY CallAnswers
<1>3. /\ answers' \in Seq(Answer) /\ n \in Nat /\ Len(answers') = n + 1
      /\ \A i \in 1..n : answers'[i] = answers[i]
      /\ answers'[n + 1] = Current
  BY <1>1, <1>2, AppendProperties, LenProperties
<1>4. /\ g.pool \in Seq(Bytes) /\ g.cur \in Nat
      /\ RestOnEvent(g) \in Bytes /\ Len(RestOnEvent(g)) = Len(rest) - g.cur
      /\ 4 * Len(g.pool) <= g.cur + 4 * Len(pool)
  BY <1>1, AttemptType
<1> HIDE DEF g, n
<1>5. TypeOK'
  BY <1>1, <1>2, <1>3, <1>4 DEF TypeOK
<1>6. PoolPaidFor'
  <2>1. CASE Ended(Current)
    BY <1>1, <1>2, <2>1 DEF PoolPaidFor
  <2>2. CASE ~Ended(Current)
    <3>1. /\ Len(doc) \in Nat /\ Len(rest) \in Nat /\ Len(pool) \in Nat /\ Len(g.pool) \in Nat
      BY <1>1, <1>4, LenProperties DEF Bytes
    <3>2. 4 * Len(pool) <= Len(doc) - 4 - Len(rest)
      BY <1>1 DEF PoolPaidFor
    <3>3. 4 * Len(g.pool) <= Len(doc) - 4 - (Len(rest) - g.cur)
      BY <1>4, <3>1, <3>2
    <3> QED
      BY <1>1, <1>2, <1>4, <2>2, <3>3 DEF PoolPaidFor
  <2> QED
    BY <2>1, <2>2
<1>7. ErrorsRepeat'
  <2> SUFFICES ASSUME NEW i \in 1..(n + 1), NEW j \in 1..(n + 1), i < j, Ended(answers'[i])
               PROVE  answers'[j] = answers'[i]
    BY <1>3 DEF ErrorsRepeat, Ended, IsError
  <2>1. i \in 1..n /\ answers'[i] = answers[i]
    BY <1>3
  <2>2. CASE j = n + 1
    BY <1>1, <1>3, <2>1, <2>2 DEF n
  <2>3. CASE j # n + 1
    <3>1. j \in 1..n /\ answers'[j] = answers[j]
      BY <1>3, <2>3
    <3> QED
      BY <1>1, <2>1, <3>1 DEF ErrorsRepeat, Ended, n
  <2> QED
    BY <2>2, <2>3
<1>8. StandsAtTheEnd'
  <2> SUFFICES ASSUME NEW i \in 1..(n + 1), Ended(answers'[i])
               PROVE  answers'[i] = Current'
    BY <1>3 DEF StandsAtTheEnd, Ended, IsError
  <2>1. answers'[i] = Current
    BY <1>1, <1>3 DEF n
  <2>2. Current' = Current
    BY <1>2, <2>1 DEF Current
  <2> QED
    BY <2>1, <2>2
<1> QED
  BY <1>1, <1>5, <1>6, <1>7, <1>8 DEF IInv

LEMMA NextInv == IInv /\ [Next]_vars => IInv'
<1>1. ASSUME IInv, UNCHANGED vars PROVE IInv'
  BY <1>1 DEF vars, IInv, TypeOK, ErrorsRepeat, StandsAtTheEnd, PoolPaidFor, Current
<1> QED
  BY <1>1, NewKeeps, NextEventKeeps DEF Next

LEMMA Invariance == Spec => []IInv
BY InitInv, NextInv, PTL DEF Spec

-----------------------------------------------------------------------------
\* Every variable keeps its type, whatever the document: a call of the grammar ends, inside
\* the window, in an event or in one of the errors (decode/grammar.rs).
THEOREM ParserTypeCorrect == Spec => []TypeOK
BY Invariance, PTL DEF IInv

\* Once an error or None has been answered it is answered for ever ("the parser is left at
\* the start of the failing event", slice.rs:74), whatever strings the failed event holds.
THEOREM ParserErrorsRepeat == Spec => []ErrorsRepeat
BY Invariance, PTL DEF IInv

\* However long the document, each string of the pool has cost it four bytes at least
\* (decode/grammar.rs, interned): the pool is bounded by the input.
THEOREM ParserPoolPaidFor == Spec => []PoolPaidFor
BY Invariance, PTL DEF IInv

\* Every event takes bytes off the input, and no other answer does: a loop over next_event
\* ends (slice.rs:79-90).
THEOREM ParserEventsConsume == Spec => EventsConsume
<1>1. ASSUME IInv, Next, phase = "open"
      PROVE  /\ rest' # rest <=> answers'[Len(answers')][1] = "event"
             /\ \E n \in 0..Len(rest) : rest' = SubSeq(rest, n + 1, Len(rest))
  <2> DEFINE g == Run(rest, pool)
  <2>1. NextEvent /\ rest \in Bytes /\ pool \in Seq(Bytes) /\ answers \in Seq(Answer)
    BY <1>1 DEF Next, New, IInv, TypeOK
  <2>2. /\ Current \in Answer /\ answers' = Append(answers, Current)
        /\ Ended(Current) => UNCHANGED rest
        /\ ~Ended(Current) => /\ Current[1] = "event" /\ rest' = RestOnEvent(g)
                              /\ g.at = "done"
    BY <1>1, <2>1, CallAnswers
  <2>3. /\ g.cur \in Nat /\ g.cur <= Len(rest) /\ (g.at = "done" => g.cur >= 1)
        /\ Len(RestOnEvent(g)) = Len(rest) - g.cur
    BY <2>1, AttemptType
  <2>4. answers'[Len(answers')] = Current
    BY <2>1, <2>2, AppendProperties
  <2>5. Len(rest) \in Nat
    BY <2>1, LenProperties DEF Bytes
  <2> HIDE DEF g
  <2>6. CASE Ended(Current)
    <3>1. Current[1] # "event"
      BY <2>6 DEF Ended, IsError
    <3>2. rest = SubSeq(rest, 0 + 1, Len(rest)) /\ 0 \in 0..Len(rest)
      BY <2>1, <2>5, SubSeqFull DEF Bytes
    <3> QED
      BY <2>2, <2>4, <2>6, <3>1, <3>2
  <2>7. CASE ~Ended(Current)
    <3>1. rest' # rest
      BY <2>2, <2>3, <2>5, <2>7
    <3>2. g.cur \in 0..Len(rest)
      BY <2>3, <2>5
    <3> QED
      BY <2>2, <2>4, <2>7, <3>1, <3>2 DEF RestOnEvent
  <2> QED
    BY <2>6, <2>7
<1> QED
  BY <1>1, Invariance, PTL DEF Spec, EventsConsume

\* A string keeps its index in the pool for good (pool.rs): nothing is taken out, nothing
\* moves, after errors as well.
THEOREM ParserPoolKeepsIndices == Spec => PoolKeepsIndices
<1>1. ASSUME IInv, Next
      PROVE  Len(pool) <= Len(pool') /\ SubSeq(pool', 1, Len(pool)) = pool
  <2>1. rest \in Bytes /\ pool \in Seq(Bytes) /\ Len(pool) \in Nat
    BY <1>1, LenProperties DEF IInv, TypeOK
  <2>2. SubSeq(pool, 1, Len(pool)) = pool
    BY <2>1, SubSeqFull
  <2>3. CASE New
    BY <2>1, <2>2, <2>3 DEF New
  <2>4. CASE NextEvent
    BY <1>1, <2>1, <2>2, <2>4, CallAnswers, AttemptType
  <2> QED
    BY <1>1, <2>3, <2>4 DEF Next
<1> QED
  BY <1>1, Invariance, PTL DEF Spec, PoolKeepsIndices

-----------------------------------------------------------------------------
(***************************************************************************)
(* What the clients of the parser rely on: AbxSource.  The parser stands   *)
(* where so many calls of next_event stand that collect the document.      *)
(***************************************************************************)
Body == SubSeq(doc, 5, Len(doc))

Foretold == /\ stream = StreamOf(doc)
            /\ phase = "open" => Position(rest, pool, Delivered, Body)

LEMMA DeliveredIsCounted == Delivered = Cardinality(EventsAmong(answers))
BY DEF Delivered, EventsAmong

LEMMA BodyType ==
  ASSUME doc \in Bytes, Len(doc) >= 4
  PROVE  Body \in Bytes
<1>1. 4 \in 0..Len(doc) /\ 4 + 1 = 5
  BY LenProperties DEF Bytes
<1>2. SubSeq(doc, 4 + 1, Len(doc)) \in Bytes
  BY <1>1, RestType
<1> QED
  BY <1>1, <1>2 DEF Body

LEMMA ForetoldStart == ForetoldInit => Foretold /\ Source!Fresh
<1> SUFFICES ASSUME ForetoldInit PROVE Foretold /\ Source!Fresh
  OBVIOUS
<1>1. phase = "new" /\ answers = <<>> /\ stream = StreamOf(doc)
  BY DEF ForetoldInit, Init
<1>2. Delivered = 0
  BY <1>1, DeliveredIsCounted, NoEvents
<1> QED
  BY <1>1, <1>2 DEF Foretold, Source!Fresh

LEMMA ForetoldNew ==
  ASSUME IInv, IInv', Foretold, New, UNCHANGED stream
  PROVE  Foretold' /\ UNCHANGED Source!sourceVars
<1>1. /\ phase = "new" /\ doc \in Bytes /\ pool = <<>> /\ answers = <<>>
      /\ doc' = doc /\ pool' = pool
  BY DEF IInv, TypeOK, New
<1>2. Delivered = 0
  BY <1>1, DeliveredIsCounted, NoEvents
<1>3. CASE MagicError(doc) = {}
  <2>1. phase' = "open" /\ rest' = Body /\ answers' = answers
    BY <1>3 DEF New, Body
  <2>2. Delivered' = 0
    BY <1>2, <2>1 DEF Delivered
  <2>3. Position(Body, <<>>, 0, Body)
    <3>1. Len(doc) >= 4
      BY <1>1, <2>1 DEF IInv
    <3> QED
      BY <1>1, <3>1, BodyType, FirstPosition
  <2>4. Position(rest', pool', Delivered', Body')
    BY <1>1, <2>1, <2>2, <2>3 DEF Body
  <2> QED
    BY <1>1, <1>2, <2>1, <2>2, <2>4 DEF Foretold, Source!sourceVars
<1>4. CASE MagicError(doc) # {}
  <2>1. PICK e \in MagicError(doc) : answers' = Append(answers, <<"error", e>>)
    BY <1>4 DEF New
  <2>2. phase' = "closed"
    BY <1>4 DEF New
  <2>3. Delivered' = 0
    <3>1. <<"error", e>> \in Answer /\ <<"error", e>>[1] # "event" /\ <<>> \in Seq(Answer)
      BY MagicErrorType DEF Answer
    <3>2. Cardinality(EventsAmong(Append(<<>>, <<"error", e>>))) = 0
      BY <3>1, CountEvents, NoEvents
    <3> QED
      BY <1>1, <2>1, <3>2 DEF Delivered, EventsAmong
  <2> QED
    BY <1>1, <1>2, <2>2, <2>3 DEF Foretold, Source!sourceVars
<1> QED
  BY <1>3, <1>4

LEMMA ForetoldNextEvent ==
  ASSUME IInv, Foretold, NextEvent, UNCHANGED stream
  PROVE  Foretold' /\ Source!SourceNext
<1> DEFINE g == Run(rest, pool)
           s == Decode(Body)
           n == Delivered
<1>1. /\ doc \in Bytes /\ Len(doc) >= 4 /\ answers \in Seq(Answer)
      /\ phase = "open" /\ phase' = "open" /\ doc' = doc
      /\ Position(rest, pool, n, Body) /\ stream = StreamOf(doc) /\ stream' = stream
  BY DEF IInv, TypeOK, NextEvent, Foretold
<1>2. /\ Current \in Answer
      /\ answers' = Append(answers, Current)
      /\ Ended(Current) => UNCHANGED <<rest, pool>>
      /\ ~Ended(Current) => /\ rest # <<>> /\ Current[1] = "event"
                            /\ rest' = RestOnEvent(g) /\ pool' = g.pool /\ g.at = "done"
  BY CallAnswers
<1>3. /\ answers' # <<>> /\ answers'[Len(answers')] = Current
      /\ Delivered' = IF Current[1] = "event" THEN n + 1 ELSE n
  <2>1. Delivered' = Cardinality(EventsAmong(Append(answers, Current)))
    BY <1>2 DEF Delivered, EventsAmong
  <2> QED
    BY <1>1, <1>2, <2>1, DeliveredIsCounted, CountEvents, AppendProperties
<1>4. stream.events = s.events
      /\ stream.ending = IF s.failed THEN Result(Run(s.rest, s.pool)) ELSE <<"none">>
  BY <1>1 DEF StreamOf, Body
<1>5. /\ rest = <<>> => n = Len(s.events) /\ ~s.failed
      /\ rest # <<>> /\ g.at # "done" =>
           n = Len(s.events) /\ s.failed /\ s.rest = rest /\ s.pool = pool
      /\ rest # <<>> /\ g.at = "done" =>
           /\ n < Len(s.events) /\ s.events[n + 1] = Event(g)
           /\ Position(RestOnEvent(g), g.pool, n + 1, Body)
  BY <1>1, BodyType, AnswersAreForetold DEF RestOnEvent
<1> HIDE DEF s, g
<1>6. CASE ~Ended(Current)
  <2>1. Current = <<"event", s.events[n + 1]>>
    BY <1>2, <1>5, <1>6 DEF Current, Result, g
  <2>2. Source!Deliver
    BY <1>1, <1>2, <1>3, <1>4, <1>5, <1>6, <2>1 DEF Source!Deliver, Source!Ahead
  <2>3. Position(rest', pool', Delivered', Body')
    BY <1>1, <1>2, <1>3, <1>5, <1>6 DEF Body
  <2> QED
    BY <1>1, <2>2, <2>3 DEF Foretold, Source!SourceNext
<1>7. CASE Ended(Current)
  <2>1. Current[1] # "event" /\ Delivered' = n
    BY <1>3, <1>7 DEF Ended, IsError
  <2>2. /\ n = Len(s.events) /\ Current = stream.ending
        /\ Current[1] = "none" \/ Current[1] = "error"
    <3>1. CASE rest = <<>>
      BY <1>4, <1>5, <3>1 DEF Current
    <3>2. CASE rest # <<>>
      <4>1. Current = Result(g)
        BY <3>2 DEF Current, g
      <4>2. g.at # "done"
        BY <1>7, <4>1, AnswerKinds
      <4> QED
        BY <1>4, <1>5, <3>2, <4>1, <4>2 DEF Result, g
    <3> QED
      BY <3>1, <3>2
  <2>3. Source!End \/ Source!Malformed
    BY <1>1, <1>3, <1>4, <2>1, <2>2 DEF Source!End, Source!Malformed, Source!Finish
  <2>4. Position(rest', pool', Delivered', Body')
    BY <1>1, <1>2, <1>7, <2>1 DEF Body
  <2> QED
    BY <1>1, <2>3, <2>4 DEF Foretold, Source!SourceNext
<1> QED
  BY <1>6, <1>7

\* next_event gives the events that collect_events would, each once and in order, and then
\* the same answer for ever, for every document: the helpers (slice.rs, stream.rs) and serde's
\* traversal (de/traversal.rs) may be read as clients of AbxSource.
THEOREM ParserImplementsSource == ForetoldSpec => ImplementsSource
<1>1. IInv /\ IInv' /\ Foretold /\ [ForetoldNext]_<<vars, stream>>
        => Foretold' /\ [Source!SourceNext]_(Source!sourceVars)
  <2> SUFFICES ASSUME IInv, IInv', Foretold, [ForetoldNext]_<<vars, stream>>
               PROVE  Foretold' /\ [Source!SourceNext]_(Source!sourceVars)
    OBVIOUS
  <2>1. ASSUME UNCHANGED <<vars, stream>>
        PROVE  Foretold' /\ UNCHANGED Source!sourceVars
    BY <2>1 DEF vars, Foretold, Delivered, Body, Source!sourceVars
  <2> QED
    BY <2>1, ForetoldNew, ForetoldNextEvent DEF ForetoldNext, Next
<1>2. IInv /\ [ForetoldNext]_<<vars, stream>> => IInv'
  BY NextInv DEF ForetoldNext, vars
<1>3. ForetoldInit => IInv
  BY InitInv DEF ForetoldInit
<1> QED
  BY <1>1, <1>2, <1>3, ForetoldStart, PTL DEF ForetoldSpec, ImplementsSource
=============================================================================
