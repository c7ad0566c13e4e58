---------------------------- MODULE AbxRoundTrip ----------------------------
(***************************************************************************)
(* What a parser makes of the writer's output, at every moment of writing. *)
(*                                                                         *)
(* The writer and the parser each keep a pool of strings and never         *)
(* exchange it: the format works only as long as the parser, reading the   *)
(* bytes, puts the same strings at the same positions.                     *)
(***************************************************************************)
EXTENDS AbxWriter

\* What the type AttributeValue says of a value: a String holds UTF-8, a number has the
\* bytes of its width.
ValueTyped(a) ==
  /\ a.type = TYPE_STRING => Utf8(a.value)
  /\ a.type \in NoBytesTypes => a.value = <<>>
  /\ a.type \in FourByteTypes => Len(a.value) = 4
  /\ a.type \in EightByteTypes => Len(a.value) = 8

\* What the enum Event says of an event: names and text are UTF-8, only a start tag has
\* attributes.
WellTyped(e) ==
  /\ Utf8(e.text)
  /\ e.command \in {CMD_START_DOCUMENT, CMD_END_DOCUMENT} => e.text = <<>>
  /\ e.command # CMD_START_TAG => e.attributes = <<>>
  /\ \A i \in 1..Len(e.attributes) : Utf8(e.attributes[i].name) /\ ValueTyped(e.attributes[i])

ASSUME ValuesAssumption == \A e \in Events : WellTyped(e)

\* What a parser reads from the output so far.
ReadBack == Decode(SubSeq(out, 5, Len(out)))

\* Between calls, as long as none has failed.
Sound == pc = "idle" /\ ~spoiled

\* "Events are written as given" (writer.rs:83): the output holds the events
\* written, all of them, in order, and nothing else.
RoundTrip ==
  Sound => /\ ReadBack.events = written
           /\ ReadBack.rest = <<>>
           /\ ~ReadBack.failed

\* Every position the writer may use is one the parser resolves to the same
\* name.  The parser's pool is longer only once the writer's is full.
PoolsAgree ==
  Sound => LET pool == ReadBack.pool IN
             /\ Len(names) <= Len(pool)
             /\ SubSeq(pool, 1, Len(names)) = names
             /\ Len(names) < INTERNED_NEW => Len(pool) = Len(names)

IsPrefixOf(s, t) == Len(s) <= Len(t) /\ SubSeq(t, 1, Len(s)) = s

\* Output cut short in the middle of a call, by a failing sink, by a value that
\* is too long, or because the writer is still at it, never reads as anything
\* that was not written: the events before the call are all there, and at most
\* one more, which is the current one or, for a start tag, the current one
\* without its last attributes.  "The output is incomplete and should be
\* discarded" (writer.rs:133): the parser cannot tell that it is.
CutOutputIsPrefix ==
  calls = Len(written) + Len(current) /\ pc # "new" =>
    LET events == ReadBack.events
        n      == Len(written)
    IN /\ IsPrefixOf(written, events)
       /\ Len(events) > n =>
            /\ Len(events) = n + 1
            /\ current # <<>>
            /\ events[n + 1].command = current[1].command
            /\ events[n + 1].text = current[1].text
            /\ IsPrefixOf(events[n + 1].attributes, current[1].attributes)
=============================================================================
