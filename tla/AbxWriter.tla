----------------------------- MODULE AbxWriter -----------------------------
(***************************************************************************)
(* The encoder (src/encode/writer.rs): AbxWriter over any std::io::Write   *)
(* sink, and the pool of names it shares, by construction only, with the   *)
(* pool a parser builds from its output.                                   *)
(*                                                                         *)
(* A call of write_event is a list of operations, `todo`, carried out in   *)
(* order: "raw" is a write_all, which the sink may cut short and fail;     *)
(* "attribute" is write_attribute, "name" is InternedPool::write, "blob"   *)
(* is write_bytes_blob, and "cache" is what the pool does once the name is *)
(* out.  A writer that has returned an error may be called again: nothing  *)
(* in the code prevents it.                                                *)
(***************************************************************************)
EXTENDS AbxGrammar

CONSTANTS Events,             \* the events the client writes
          LINEAR_SCAN_LIMIT,
          MaxCalls,           \* bound on the calls of write_event
          MaxFaults           \* bound on the failing writes of the sink

\* The enum Event.
AnyEvent == [command : CMD_START_DOCUMENT..CMD_DOCDECL, text : Bytes, attributes : Seq(Attribute)]

ASSUME LimitAssumption  == LINEAR_SCAN_LIMIT \in Nat
ASSUME EventsAssumption == Events \subseteq AnyEvent

VARIABLES out,                \* what the sink has taken
          names, index,       \* InternedPool
          pc,                 \* "new", "idle", "writing", or "closed"
          todo,
          current,            \* the event being written: none or one
          calls,              \* the calls of write_event so far
          written,            \* the events whose write_event returned Ok
          spoiled,            \* a call has returned an error
          faults

vars == <<out, names, index, pc, todo, current, calls, written, spoiled, faults>>

NoIndex == [s \in {} |-> 0]   \* the index is not built: None

Raw(bytes) == [op |-> "raw",  bytes |-> bytes]
Name(s)    == [op |-> "name", bytes |-> s]
Blob(s)    == [op |-> "blob", bytes |-> s]
Cache(s)   == [op |-> "cache", bytes |-> s]
AttributeOp(a) == [op |-> "attribute", attribute |-> a]

-----------------------------------------------------------------------------
\* write_attribute: the token, the name, and the value if its type has one.
AttributeOps(a) ==
  <<Raw(<<a.type + CMD_ATTRIBUTE>>), Name(a.name)>>
    \o (IF a.type \in NoBytesTypes THEN <<>>
        ELSE IF a.type \in BlobTypes \cup {TYPE_STRING} THEN <<Blob(a.value)>>
        ELSE <<Raw(a.value)>>)

\* Mutants: the text goes under a token that says there is none; an end tag
\* brings its name along instead of interning it.
NullTextOps(e) == <<Raw(<<TYPE_NULL + e.command>>), Blob(e.text)>>
OwnNameOps(e)  == <<Raw(<<TYPE_STRING_INTERNED + CMD_END_TAG>>),
                    Raw(U16Bytes(INTERNED_NEW)), Blob(e.text)>>

DocumentOps(e) == <<Raw(<<e.command + TYPE_NULL>>)>>
StartTagOps(e) == <<Raw(<<TYPE_STRING_INTERNED + CMD_START_TAG>>), Name(e.text)>>
                    \o [i \in DOMAIN e.attributes |-> AttributeOp(e.attributes[i])]
EndTagOps(e)   == <<Raw(<<TYPE_STRING_INTERNED + CMD_END_TAG>>), Name(e.text)>>
TextOps(e)     == <<Raw(<<TYPE_STRING + e.command>>), Blob(e.text)>>

EventOps(e) == CASE e.command = CMD_START_TAG    -> StartTagOps(e)
                 [] e.command = CMD_END_TAG      -> EndTagOps(e)
                 [] e.command \in TextCommands   -> TextOps(e)
                 [] OTHER                        -> DocumentOps(e)

-----------------------------------------------------------------------------
\* InternedPool::find: the positions of s, counted from 0; a HashMap lookup once
\* the index is built, a scan for the first one before.
Found(s) ==
  IF index # NoIndex THEN IF s \in DOMAIN index THEN {index[s]} ELSE {}
  ELSE {i - 1 : i \in {j \in 1..Len(names) :
                         names[j] = s /\ \A k \in 1..(j - 1) : names[k] # s}}

Init == /\ out = <<>>
        /\ names = <<>>
        /\ index = NoIndex
        /\ pc = "new"
        /\ todo = <<Raw(MAGIC)>>
        /\ current = <<>>
        /\ calls = 0
        /\ written = <<>>
        /\ spoiled = FALSE
        /\ faults = 0

\* AbxWriter::new has written the header.
Opened ==
  /\ pc = "new"
  /\ todo = <<>>
  /\ pc' = "idle"
  /\ UNCHANGED <<out, names, index, todo, current, calls, written, spoiled, faults>>

WriteEvent(e) ==
  /\ pc = "idle"
  /\ pc' = "writing"
  /\ todo' = EventOps(e)
  /\ current' = <<e>>
  /\ calls' = calls + 1
  /\ UNCHANGED <<out, names, index, written, spoiled, faults>>

\* write_event returns Ok.
Written ==
  /\ pc = "writing"
  /\ todo = <<>>
  /\ pc' = "idle"
  /\ written' = written \o current
  /\ current' = <<>>
  /\ UNCHANGED <<out, names, index, todo, calls, spoiled, faults>>

\* The next operation is op.
Doing(op) == todo # <<>> /\ Head(todo).op = op
Operand   == Head(todo).bytes

DoRaw ==
  /\ Doing("raw")
  /\ out' = out \o Operand
  /\ todo' = Tail(todo)
  /\ UNCHANGED <<names, index, pc, current, calls, written, spoiled, faults>>

\* Mutant: the error is dropped and the call goes on.
CarryOn == todo' = Tail(todo) /\ UNCHANGED <<spoiled, pc>>

\* `?` hands an error up: the call, or new, is over with what it has put out.
GiveUp ==
  /\ todo' = <<>>
  /\ spoiled' = TRUE
  /\ pc' = IF pc = "new" THEN "closed" ELSE "idle"

\* The sink takes n bytes of a write_all and fails.
SinkFails(n) ==
  /\ faults < MaxFaults
  /\ out' = out \o SubSeq(Operand, 1, n)
  /\ faults' = faults + 1
  /\ GiveUp
  /\ UNCHANGED <<names, index, current, calls, written>>

DoAttribute ==
  /\ Doing("attribute")
  /\ todo' = AttributeOps(Head(todo).attribute) \o Tail(todo)
  /\ UNCHANGED <<out, names, index, pc, current, calls, written, spoiled, faults>>

DoName ==
  /\ Doing("name")
  /\ IF Found(Operand) # {}
     THEN \E i \in Found(Operand) : todo' = <<Raw(U16Bytes(i))>> \o Tail(todo)
     ELSE todo' = <<Raw(U16Bytes(INTERNED_NEW)), Blob(Operand), Cache(Operand)>> \o Tail(todo)
  /\ UNCHANGED <<out, names, index, pc, current, calls, written, spoiled, faults>>

DoBlob ==
  /\ Doing("blob")
  /\ Len(Operand) <= MAX_UNSIGNED_SHORT
  /\ todo' = <<Raw(U16Bytes(Len(Operand))), Raw(Operand)>> \o Tail(todo)
  /\ UNCHANGED <<out, names, index, pc, current, calls, written, spoiled, faults>>

\* ValueTooLong, found out before the length is written but after the token.
TooLong ==
  /\ Doing("blob")
  /\ Len(Operand) > MAX_UNSIGNED_SHORT
  /\ GiveUp
  /\ UNCHANGED <<out, names, index, current, calls, written, faults>>

\* The HashMap of all names to their positions.
IndexOf(ns) == [s \in {ns[i] : i \in 1..Len(ns)} |->
                  (CHOOSE i \in 1..Len(ns) : ns[i] = s) - 1]

\* Mutants: the pool takes one name too many; the index is built and not kept up.
FullOneLater   == Len(names) > INTERNED_NEW
IndexStale(ns) == IF index = NoIndex /\ Len(ns) > LINEAR_SCAN_LIMIT THEN IndexOf(ns) ELSE index

\* Past 0xFFFE entries, names are no longer cached.
Full == Len(names) >= INTERNED_NEW

\* The index once the names are ns, the last one new: kept up if there is one,
\* built when the names get more than LINEAR_SCAN_LIMIT.
IndexAfter(ns) ==
  IF index # NoIndex
  THEN [s \in DOMAIN index \cup {ns[Len(ns)]} |->
          IF s = ns[Len(ns)] THEN Len(ns) - 1 ELSE index[s]]
  ELSE IF Len(ns) > LINEAR_SCAN_LIMIT THEN IndexOf(ns) ELSE index

\* The name is out, and the pool takes it unless it is full.
DoCache ==
  /\ Doing("cache")
  /\ IF Full THEN UNCHANGED <<names, index>>
     ELSE /\ names' = Append(names, Operand)
          /\ index' = IndexAfter(Append(names, Operand))
  /\ todo' = Tail(todo)
  /\ UNCHANGED <<out, pc, current, calls, written, spoiled, faults>>

SinkError == Doing("raw") /\ \E n \in 0..(Len(Operand) - 1) : SinkFails(n)

Call == /\ calls < MaxCalls
        /\ \E e \in Events : WriteEvent(e)

Next == \/ Opened \/ Call \/ Written
        \/ DoRaw \/ DoAttribute \/ DoName \/ DoBlob \/ TooLong \/ DoCache
        \/ SinkError

Spec == Init /\ [][Next]_vars

-----------------------------------------------------------------------------
Operation == [op : {"raw", "name", "blob", "cache"}, bytes : Bytes]
               \cup [op : {"attribute"}, attribute : Attribute]

\* Every variable keeps its type; a position in the pool fits in a two-byte
\* field and is never the marker of a new name.
TypeOK ==
  /\ out \in Bytes
  /\ names \in Seq(Bytes)
  /\ Len(names) <= INTERNED_NEW
  /\ \A s \in DOMAIN index : index[s] \in 0..(Len(names) - 1)
  /\ pc \in {"new", "idle", "writing", "closed"}
  /\ todo \in Seq(Operation)
  /\ current \in {<<>>} \cup {<<e>> : e \in Events}
  /\ calls \in Nat
  /\ written \in Seq(Events)
  /\ spoiled \in BOOLEAN
  /\ faults \in Nat

\* A name has one position, and find gives it, whether it scans or looks it up:
\* building the index midway, and keeping it up, changes no answer, after failed
\* writes as well.
FindsEveryName == \A i \in 1..Len(names) : Found(names[i]) = {i - 1}
=============================================================================
