-------------------------- MODULE AbxParserSource --------------------------
(***************************************************************************)
(* The parser over memory implements AbxSource.  What the document has to  *)
(* give is foretold in `stream`, a variable that never changes.            *)
(***************************************************************************)
EXTENDS AbxParser, FiniteSets

VARIABLE stream

ForetoldInit == Init /\ stream = StreamOf(doc)
ForetoldNext == Next /\ UNCHANGED stream

ForetoldSpec == ForetoldInit /\ [][ForetoldNext]_<<vars, stream>>

\* How many events the calls have delivered.
Delivered == Cardinality({i \in 1..Len(answers) : answers[i][1] = "event"})

\* The parser as the helpers and serde's traversal see it.
Source == INSTANCE AbxSource
            WITH Streams <- {}, MaxFaults <- 0, faults <- 0,
                 taken <- Delivered,
                 got   <- IF phase = "open" /\ answers # <<>>
                          THEN answers[Len(answers)] ELSE <<>>

\* next_event gives the events of the document, each once and in order, and then the
\* same answer for ever: what every loop over it, from collect_events to the
\* traversal for serde, relies on.
ImplementsSource == Source!Fresh /\ [][Source!SourceNext]_(Source!sourceVars)
=============================================================================
