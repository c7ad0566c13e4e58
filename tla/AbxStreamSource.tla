-------------------------- MODULE AbxStreamSource --------------------------
(***************************************************************************)
(* The streaming parser implements AbxSource, its failing reads included:  *)
(* the helpers and serde's traversal, which are checked against AbxSource, *)
(* may be used with either parser.                                         *)
(*                                                                         *)
(* What the document has to give is foretold in `stream`, a variable that  *)
(* never changes; `latest` is what the last call returned.                 *)
(***************************************************************************)
EXTENDS AbxStreamParser, FiniteSets

VARIABLES stream, latest,
          failed          \* the calls that a failing read ended

streamVars == <<vars, stream, latest, failed>>

\* How many events the calls have delivered.
Delivered == Cardinality({i \in 1..Len(answers) : answers[i][1] = "event"})

\* The parser as the helpers and serde's traversal see it.
Source == INSTANCE AbxSource
            WITH Streams <- {}, faults <- failed, taken <- Delivered, got <- latest

StreamInit == /\ Init
              /\ stream = StreamOf(doc)
              /\ latest = <<>>
              /\ failed = 0

\* A read fails in a call of next_event; one that fails in new leaves no parser.
CallFails == /\ ReadError
             /\ then # "magic"
             /\ latest' = <<"error", Source!IoError>>
             /\ failed' = failed + 1

Goes == /\ Internal \/ NextEvent \/ (ReadError /\ then = "magic")
        /\ latest' = IF answers' # answers /\ pc' = "idle" THEN answers'[Len(answers')] ELSE latest
        /\ UNCHANGED failed

StreamNext == /\ CallFails \/ Goes
              /\ UNCHANGED stream

\* The fairness of AbxStreamParser.
StreamSpec == StreamInit /\ [][StreamNext]_streamVars /\ WF_vars(Internal)

\* next_event gives the events of the document, each once and in order, and then the
\* same answer for ever, whatever the sizes of the reads; a read that fails is
\* answered with its error and costs no event, wherever in an event it fails.
ImplementsSource == Source!Fresh /\ [][Source!SourceNext]_(Source!sourceVars)
=============================================================================
