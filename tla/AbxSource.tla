----------------------------- MODULE AbxSource -----------------------------
(***************************************************************************)
(* A parser as the code built on it sees it: calls of next_event, one      *)
(* after the other (the trait EventSource of src/de/traversal.rs, and      *)
(* `self.next_event()?` in the helpers of both parsers).                   *)
(*                                                                         *)
(* The events come in order, each once; after them the answer is the same  *)
(* for ever, None or an error.  A reader may fail at any call, which takes *)
(* nothing.  AbxParser implements this specification, and AbxStreamParser  *)
(* implements AbxParser.                                                   *)
(***************************************************************************)
EXTENDS AbxWire

CONSTANTS Streams,        \* what a document has to give: its events and its ending
          MaxFaults       \* bound on the reads that fail

VARIABLES stream,
          taken,          \* how many events have been delivered
          got,            \* what the last call answered
          faults          \* the reads that failed

sourceVars == <<stream, taken, got, faults>>

IoError == [kind |-> "Io", arg |-> 0]

Fresh == /\ taken = 0
         /\ got = <<>>
         /\ faults = 0

SourceInit == stream \in Streams /\ Fresh

Ahead == stream.events[taken + 1]

\* next_event returns the event ahead.
Deliver == /\ taken < Len(stream.events)
           /\ taken' = taken + 1
           /\ got' = <<"event", Ahead>>
           /\ UNCHANGED <<stream, faults>>

\* There are no events left: the same answer, None or an error, every time.
Finish(kind) == /\ taken = Len(stream.events)
                /\ stream.ending[1] = kind
                /\ got' = stream.ending
                /\ UNCHANGED <<stream, taken, faults>>

End       == Finish("none")
Malformed == Finish("error")

\* Mutant: a failing read takes the event ahead with it.
ReadLoses == /\ faults < MaxFaults
             /\ taken < Len(stream.events)
             /\ taken' = taken + 1
             /\ faults' = faults + 1
             /\ got' = <<"error", IoError>>
             /\ UNCHANGED stream

\* A read fails: nothing is taken.
ReadFails == /\ faults < MaxFaults
             /\ faults' = faults + 1
             /\ got' = <<"error", IoError>>
             /\ UNCHANGED <<stream, taken>>

SourceNext == Deliver \/ End \/ Malformed \/ ReadFails

\* The events of a stream and what they are.
IsStart(e)       == e.command = CMD_START_TAG
IsEnd(e)         == e.command = CMD_END_TAG
IsEndDocument(e) == e.command = CMD_END_DOCUMENT
IsText(e)        == e.command = CMD_TEXT
=============================================================================
