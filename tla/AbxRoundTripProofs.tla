------------------------- MODULE AbxRoundTripProofs -------------------------
(***************************************************************************)
(* What the writer has put out reads back as what it was given, for any    *)
(* events, any radix, any limit of the linear scan and any failing writes. *)
(*                                                                         *)
(* The first part is about the writer by itself: its pool of names, and    *)
(* that find gives the position of each.                                   *)
(*                                                                         *)
(* The output grows while it is written, and what a parser makes of it is  *)
(* a function of the whole of it.  The invariant speaks of every document  *)
(* that begins with the output: a parser of it gets to the output's end,   *)
(* with the events written behind it, in the midst of the one being        *)
(* written, and there its grammar expects what the writer is about to put  *)
(* out.                                                                    *)
(***************************************************************************)
EXTENDS AbxRoundTrip, AbxGrammarProofs

-----------------------------------------------------------------------------
(***************************************************************************)
(* The writer.                                                             *)
(*                                                                         *)
(* That find is right needs more than the index being the names: a name    *)
(* that waits to enter the pool ("cache") must still be new to it when its *)
(* turn comes.  CacheFresh says so, and that nothing but plain output is   *)
(* in front of it.                                                         *)
(***************************************************************************)
Pooled == {names[i] : i \in 1..Len(names)}

NamesDiffer == \A i \in 1..Len(names), j \in 1..Len(names) : names[i] = names[j] => i = j

\* The index, once it is built, is up to date.
IndexCurrent == index # NoIndex =>
                  /\ DOMAIN index = Pooled
                  /\ \A i \in 1..Len(names) : index[names[i]] = i - 1

\* What changes no pool and asks nothing of it.
Plain(op) == op.op \in {"raw", "blob"}

\* The name an operation of ops would put in a pool is not in it, and the operations
\* before that one are plain.
FreshIn(ops, pool) ==
  \A k \in 1..Len(ops) : ops[k].op = "cache" =>
    /\ ops[k].bytes \notin pool
    /\ \A j \in 1..(k - 1) : Plain(ops[j])

CacheFresh == FreshIn(todo, Pooled)

VarsType == /\ out \in Bytes
            /\ names \in Seq(Bytes)
            /\ Len(names) <= INTERNED_NEW
            /\ pc \in {"new", "idle", "writing", "closed"}
            /\ current \in {<<>>} \cup {<<e>> : e \in Events}
            /\ calls \in Nat
            /\ written \in Seq(Events)
            /\ spoiled \in BOOLEAN
            /\ faults \in Nat

PoolInv == NamesDiffer /\ IndexCurrent
TodoInv == todo \in Seq(Operation) /\ CacheFresh
IInv    == VarsType /\ PoolInv /\ TodoInv

-----------------------------------------------------------------------------
\* What is written for a field is bytes.
LEMMA FieldBytes ==
  /\ INTERNED_NEW \in Nat
  /\ MAX_UNSIGNED_SHORT \in Nat
  /\ \A n \in Nat : U16Bytes(n) \in Bytes
<1>1. Radix \in Nat /\ Radix >= 2 /\ Radix <= 256
  BY RadixAssumption
<1>2. Radix * Radix \in Nat /\ Radix * Radix >= 1
  BY <1>1
<1>3. ASSUME NEW n \in Nat PROVE n % Radix \in Byte
  <2>1. n % Radix \in 0..(Radix - 1)
    BY <1>1
  <2> QED
    BY <1>1, <2>1 DEF Byte
<1>4. ASSUME NEW n \in Nat PROVE n \div Radix \in Nat
  BY <1>1
<1>5. ASSUME NEW n \in Nat PROVE U16Bytes(n) \in Bytes
  <2>1. n % Radix \in Byte /\ (n \div Radix) % Radix \in Byte
    BY <1>3, <1>4
  <2> QED
    BY <2>1 DEF U16Bytes, Bytes
<1> QED
  BY <1>2, <1>5 DEF INTERNED_NEW, MAX_UNSIGNED_SHORT

\* The operations are operations.
LEMMA OperationTypes ==
  ASSUME NEW s \in Bytes
  PROVE  /\ Raw(s) \in Operation /\ Raw(s).op = "raw"
         /\ Name(s) \in Operation /\ Name(s).op = "name"
         /\ Blob(s) \in Operation /\ Blob(s).op = "blob"
         /\ Cache(s) \in Operation /\ Cache(s).op = "cache" /\ Cache(s).bytes = s
BY DEF Raw, Name, Blob, Cache, Operation

LEMMA OperationFields ==
  ASSUME NEW x \in Operation
  PROVE  /\ x.op = "attribute" => x.attribute \in Attribute
         /\ x.op # "attribute" => x.bytes \in Bytes
BY DEF Operation

\* A token is a byte.
LEMMA TokenBytes ==
  /\ \A t \in ValueTypes : t + CMD_ATTRIBUTE \in Byte
  /\ \A c \in CMD_START_DOCUMENT..CMD_DOCDECL : TYPE_STRING + c \in Byte /\ c + TYPE_NULL \in Byte
  /\ TYPE_STRING_INTERNED + CMD_START_TAG \in Byte
  /\ TYPE_STRING_INTERNED + CMD_END_TAG \in Byte
BY DEF Byte, ValueTypes, NoBytesTypes, BlobTypes, FourByteTypes, EightByteTypes, TYPE_NULL,
       TYPE_STRING, TYPE_STRING_INTERNED, TYPE_BYTES_HEX, TYPE_BYTES_BASE64, TYPE_INT,
       TYPE_INT_HEX, TYPE_LONG, TYPE_LONG_HEX, TYPE_FLOAT, TYPE_DOUBLE, TYPE_BOOLEAN_TRUE,
       TYPE_BOOLEAN_FALSE, CMD_ATTRIBUTE, CMD_START_DOCUMENT, CMD_DOCDECL, CMD_START_TAG,
       CMD_END_TAG

NoCache(ops) == \A k \in 1..Len(ops) : ops[k].op # "cache"

LEMMA OneByte ==
  ASSUME NEW b \in Byte
  PROVE  <<b>> \in Bytes
BY DEF Bytes

\* One list after another.
LEMMA ConcatNoCache ==
  ASSUME NEW s \in Seq(Operation), NEW t \in Seq(Operation), NoCache(s), NoCache(t)
  PROVE  s \o t \in Seq(Operation) /\ NoCache(s \o t)
<1>1. Len(s) \in Nat /\ Len(t) \in Nat
  BY LenProperties
<1>2. /\ s \o t \in Seq(Operation)
      /\ Len(s \o t) = Len(s) + Len(t)
      /\ \A i \in 1..(Len(s) + Len(t)) : (s \o t)[i] = IF i <= Len(s) THEN s[i] ELSE t[i - Len(s)]
  BY ConcatProperties
<1>3. ASSUME NEW k \in 1..Len(s \o t) PROVE (s \o t)[k].op # "cache"
  <2>1. CASE k <= Len(s)
    BY <1>1, <1>2, <2>1 DEF NoCache
  <2>2. CASE ~(k <= Len(s))
    <3>1. k - Len(s) \in 1..Len(t) /\ (s \o t)[k] = t[k - Len(s)]
      BY <1>1, <1>2, <2>2
    <3> QED
      BY <3>1 DEF NoCache
  <2> QED
    BY <2>1, <2>2
<1> QED
  BY <1>2, <1>3 DEF NoCache

\* write_attribute asks for no name to be cached before that name is looked for.
LEMMA AttributeOpsType ==
  ASSUME NEW a \in Attribute
  PROVE  AttributeOps(a) \in Seq(Operation) /\ NoCache(AttributeOps(a))
<1> DEFINE s == <<Raw(<<a.type + CMD_ATTRIBUTE>>), Name(a.name)>>
<1>1. a.type \in ValueTypes /\ a.name \in Bytes /\ a.value \in Bytes
  BY DEF Attribute
<1>2. <<a.type + CMD_ATTRIBUTE>> \in Bytes
  BY <1>1, TokenBytes, OneByte
<1>3. /\ Raw(<<a.type + CMD_ATTRIBUTE>>) \in Operation /\ Name(a.name) \in Operation
      /\ Raw(<<a.type + CMD_ATTRIBUTE>>).op = "raw" /\ Name(a.name).op = "name"
  BY <1>1, <1>2, OperationTypes
<1>4. s \in Seq(Operation) /\ NoCache(s)
  BY <1>3 DEF NoCache
<1>5. /\ Raw(a.value) \in Operation /\ Raw(a.value).op = "raw"
      /\ Blob(a.value) \in Operation /\ Blob(a.value).op = "blob"
  BY <1>1, OperationTypes
<1>6. /\ <<>> \in Seq(Operation) /\ NoCache(<<>>)
      /\ <<Raw(a.value)>> \in Seq(Operation) /\ NoCache(<<Raw(a.value)>>)
      /\ <<Blob(a.value)>> \in Seq(Operation) /\ NoCache(<<Blob(a.value)>>)
  BY <1>5 DEF NoCache
<1> HIDE DEF s
<1>7. CASE a.type \in NoBytesTypes
  <2>1. AttributeOps(a) = s \o <<>>
    BY <1>7 DEF AttributeOps, s
  <2> QED
    BY <1>4, <1>6, <2>1, ConcatNoCache
<1>8. CASE a.type \notin NoBytesTypes /\ a.type \in BlobTypes \cup {TYPE_STRING}
  <2>1. AttributeOps(a) = s \o <<Blob(a.value)>>
    BY <1>8 DEF AttributeOps, s
  <2> QED
    BY <1>4, <1>6, <2>1, ConcatNoCache
<1>9. CASE a.type \notin NoBytesTypes /\ a.type \notin BlobTypes \cup {TYPE_STRING}
  <2>1. AttributeOps(a) = s \o <<Raw(a.value)>>
    BY <1>9 DEF AttributeOps, s
  <2> QED
    BY <1>4, <1>6, <2>1, ConcatNoCache
<1> QED
  BY <1>7, <1>8, <1>9

\* The same of every event.
LEMMA EventOpsType ==
  ASSUME NEW e \in AnyEvent
  PROVE  EventOps(e) \in Seq(Operation) /\ NoCache(EventOps(e))
<1>1. /\ e.command \in CMD_START_DOCUMENT..CMD_DOCDECL
      /\ e.text \in Bytes /\ e.attributes \in Seq(Attribute)
  BY DEF AnyEvent
<1>2. /\ <<TYPE_STRING + e.command>> \in Bytes
      /\ <<e.command + TYPE_NULL>> \in Bytes
      /\ <<TYPE_STRING_INTERNED + CMD_START_TAG>> \in Bytes
      /\ <<TYPE_STRING_INTERNED + CMD_END_TAG>> \in Bytes
  BY <1>1, TokenBytes, OneByte
<1>3. ASSUME NEW b \in Bytes, NEW x \in Operation, x.op # "cache"
      PROVE  /\ <<Raw(b), x>> \in Seq(Operation) /\ NoCache(<<Raw(b), x>>)
             /\ <<Raw(b)>> \in Seq(Operation) /\ NoCache(<<Raw(b)>>)
  <2>1. Raw(b) \in Operation /\ Raw(b).op = "raw"
    BY OperationTypes
  <2> QED
    BY <1>3, <2>1 DEF NoCache
<1>4. /\ Name(e.text) \in Operation /\ Name(e.text).op # "cache"
      /\ Blob(e.text) \in Operation /\ Blob(e.text).op # "cache"
  BY <1>1, OperationTypes
<1>5. DocumentOps(e) \in Seq(Operation) /\ NoCache(DocumentOps(e))
  BY <1>2, <1>3, <1>4 DEF DocumentOps
<1>6. EndTagOps(e) \in Seq(Operation) /\ NoCache(EndTagOps(e))
  BY <1>2, <1>3, <1>4 DEF EndTagOps
<1>7. TextOps(e) \in Seq(Operation) /\ NoCache(TextOps(e))
  BY <1>2, <1>3, <1>4 DEF TextOps
<1>8. StartTagOps(e) \in Seq(Operation) /\ NoCache(StartTagOps(e))
  <2> DEFINE as == [i \in DOMAIN e.attributes |-> AttributeOp(e.attributes[i])]
  <2>1. /\ Len(e.attributes) \in Nat /\ DOMAIN e.attributes = 1..Len(e.attributes)
        /\ \A i \in 1..Len(e.attributes) : e.attributes[i] \in Attribute
    BY <1>1, LenProperties, ElementOfSeq
  <2>2. \A a \in Attribute : AttributeOp(a) \in Operation /\ AttributeOp(a).op = "attribute"
    BY DEF AttributeOp, Operation
  <2>3. as \in [1..Len(e.attributes) -> Operation]
    BY <2>1, <2>2
  <2>4. as \in Seq(Operation)
    BY <2>1, <2>3, SeqDef
  <2>5. DOMAIN as = 1..Len(as)
    BY <2>4, LenProperties
  <2>6. ASSUME NEW k \in 1..Len(as) PROVE as[k].op = "attribute"
    BY <2>1, <2>2, <2>5
  <2> HIDE DEF as
  <2>7. NoCache(as)
    BY <2>6 DEF NoCache
  <2>8. StartTagOps(e) = <<Raw(<<TYPE_STRING_INTERNED + CMD_START_TAG>>), Name(e.text)>> \o as
    BY DEF StartTagOps, as
  <2> DEFINE head == <<Raw(<<TYPE_STRING_INTERNED + CMD_START_TAG>>), Name(e.text)>>
  <2>9. head \in Seq(Operation) /\ NoCache(head)
    BY <1>2, <1>3, <1>4
  <2> HIDE DEF head
  <2>10. head \o as \in Seq(Operation) /\ NoCache(head \o as)
    BY <2>4, <2>7, <2>9, ConcatNoCache, Zenon
  <2> QED
    BY <2>8, <2>10 DEF head
<1> QED
  BY <1>5, <1>6, <1>7, <1>8 DEF EventOps

-----------------------------------------------------------------------------
\* An operation replaced by others: by plain ones, or by some that may cache a fresh
\* name if it was not plain itself, so that nothing behind it waits to be cached.
LEMMA Expand ==
  ASSUME NEW t \in Seq(Operation), t # <<>>, NEW pool, FreshIn(t, pool),
         NEW s \in Seq(Operation), FreshIn(s, pool),
         (\A k \in 1..Len(s) : Plain(s[k])) \/ ~Plain(t[1])
  PROVE  s \o Tail(t) \in Seq(Operation) /\ FreshIn(s \o Tail(t), pool)
<1> DEFINE u == s \o Tail(t)
<1>1. /\ Tail(t) \in Seq(Operation) /\ Len(Tail(t)) = Len(t) - 1
      /\ \A i \in 1..Len(Tail(t)) : Tail(t)[i] = t[i + 1]
  BY HeadTailProperties
<1>2. Len(s) \in Nat /\ Len(t) \in Nat /\ Len(t) >= 1
  BY EmptySeq, LenProperties
<1>3. /\ u \in Seq(Operation)
      /\ Len(u) = Len(s) + Len(Tail(t))
      /\ \A i \in 1..(Len(s) + Len(Tail(t))) :
           u[i] = IF i <= Len(s) THEN s[i] ELSE Tail(t)[i - Len(s)]
  BY <1>1, ConcatProperties
<1>4. /\ \A i \in 1..Len(s) : u[i] = s[i]
      /\ \A i \in (Len(s) + 1)..Len(u) : (i - Len(s)) + 1 \in 2..Len(t) /\ u[i] = t[(i - Len(s)) + 1]
  <2>1. ASSUME NEW i \in 1..Len(s) PROVE u[i] = s[i]
    BY <1>1, <1>2, <1>3
  <2>2. ASSUME NEW i \in (Len(s) + 1)..Len(u)
        PROVE  (i - Len(s)) + 1 \in 2..Len(t) /\ u[i] = t[(i - Len(s)) + 1]
    <3>1. u[i] = Tail(t)[i - Len(s)] /\ i - Len(s) \in 1..Len(Tail(t))
      BY <1>1, <1>2, <1>3
    <3> QED
      BY <1>1, <1>2, <3>1
  <2> QED
    BY <2>1, <2>2
<1> HIDE DEF u
<1>5. ASSUME NEW k \in 1..Len(u), u[k].op = "cache"
      PROVE  u[k].bytes \notin pool /\ \A j \in 1..(k - 1) : Plain(u[j])
  <2>1. CASE k <= Len(s)
    <3>1. k \in 1..Len(s) /\ u[k] = s[k]
      BY <1>2, <1>4, <2>1
    <3>2. s[k].bytes \notin pool /\ \A j \in 1..(k - 1) : Plain(s[j])
      BY <1>5, <3>1 DEF FreshIn
    <3>3. \A j \in 1..(k - 1) : u[j] = s[j]
      BY <1>2, <1>4, <3>1
    <3> QED
      BY <3>1, <3>2, <3>3
  <2>2. CASE ~(k <= Len(s))
    <3> DEFINE m == (k - Len(s)) + 1
    <3>1. k \in (Len(s) + 1)..Len(u)
      BY <1>2, <2>2
    <3>2. m \in 2..Len(t) /\ u[k] = t[m]
      BY <1>4, <3>1
    <3>3. t[m].bytes \notin pool /\ \A j \in 1..(m - 1) : Plain(t[j])
      BY <1>2, <1>5, <3>2 DEF FreshIn
    <3>4. Plain(t[1])
      BY <1>2, <3>2, <3>3
    <3>5. \A j \in 1..Len(s) : Plain(s[j])
      BY <3>4
    <3>6. ASSUME NEW j \in 1..(k - 1) PROVE Plain(u[j])
      <4>1. CASE j <= Len(s)
        BY <1>2, <1>4, <3>5, <4>1
      <4>2. CASE ~(j <= Len(s))
        <5>1. j \in (Len(s) + 1)..Len(u) /\ (j - Len(s)) + 1 \in 1..(m - 1)
          BY <1>2, <3>1, <4>2
        <5> QED
          BY <1>4, <3>3, <5>1
      <4> QED
        BY <4>1, <4>2
    <3> QED
      BY <3>2, <3>3, <3>6
  <2> QED
    BY <2>1, <2>2
<1>6. FreshIn(u, pool)
  BY <1>5 DEF FreshIn
<1> QED
  BY <1>3, <1>6 DEF u

LEMMA NoCacheFresh ==
  ASSUME NEW s, NoCache(s), NEW pool
  PROVE  FreshIn(s, pool)
BY DEF NoCache, FreshIn

\* The next operation is carried out: what is behind it stays, and waits for nothing
\* unless it was plain.
LEMMA Advance ==
  ASSUME NEW t \in Seq(Operation), t # <<>>, NEW pool, FreshIn(t, pool)
  PROVE  /\ Tail(t) \in Seq(Operation)
         /\ FreshIn(Tail(t), pool)
         /\ ~Plain(t[1]) => NoCache(Tail(t))
<1>1. /\ Tail(t) \in Seq(Operation) /\ Len(Tail(t)) = Len(t) - 1 /\ Len(t) \in Nat
      /\ \A i \in 1..Len(Tail(t)) : Tail(t)[i] = t[i + 1]
  BY HeadTailProperties, LenProperties
<1>2. <<>> \in Seq(Operation) /\ <<>> \o Tail(t) = Tail(t)
  BY <1>1, ConcatEmptySeq
<1>3. FreshIn(<<>>, pool) /\ \A k \in 1..Len(<<>>) : Plain(<<>>[k])
  BY DEF FreshIn
<1>4. <<>> \o Tail(t) \in Seq(Operation) /\ FreshIn(<<>> \o Tail(t), pool)
  BY <1>2, <1>3, Expand
<1>5. ASSUME ~Plain(t[1]), NEW k \in 1..Len(Tail(t)) PROVE Tail(t)[k].op # "cache"
  <2>1. Tail(t)[k] = t[k + 1] /\ k + 1 \in 1..Len(t) /\ 1 \in 1..((k + 1) - 1)
    BY <1>1
  <2> QED
    BY <1>5, <2>1 DEF FreshIn
<1> QED
  BY <1>2, <1>4, <1>5 DEF NoCache

\* The operand of the next operation.
LEMMA OperandType ==
  ASSUME TodoInv, NEW op, Doing(op)
  PROVE  /\ todo \in Seq(Operation) /\ todo # <<>>
         /\ Head(todo) = todo[1] /\ todo[1].op = op /\ todo[1] \in Operation
         /\ op # "attribute" => Operand \in Bytes
<1>1. todo \in Seq(Operation) /\ todo # <<>> /\ Head(todo).op = op
  BY DEF TodoInv, Doing
<1>2. Head(todo) \in Operation /\ Head(todo) = todo[1]
  BY <1>1, HeadTailProperties
<1> QED
  BY <1>1, <1>2, OperationFields DEF Operand

\* A position that find answers is one of the pool's.
LEMMA FoundType ==
  ASSUME VarsType, PoolInv, NEW s
  PROVE  /\ Found(s) \subseteq Nat
         /\ Found(s) = {} => s \notin Pooled
<1>0. Len(names) \in Nat
  BY LenProperties DEF VarsType
<1>1. CASE index # NoIndex
  <2>1. DOMAIN index = Pooled /\ \A i \in 1..Len(names) : index[names[i]] = i - 1
    BY <1>1 DEF PoolInv, IndexCurrent
  <2>2. Found(s) = IF s \in DOMAIN index THEN {index[s]} ELSE {}
    BY <1>1 DEF Found
  <2>3. CASE s \in Pooled
    <3>1. PICK i \in 1..Len(names) : s = names[i]
      BY <2>3 DEF Pooled
    <3>2. Found(s) = {i - 1}
      BY <2>1, <2>2, <2>3, <3>1
    <3> QED
      BY <1>0, <3>2
  <2>4. CASE s \notin Pooled
    BY <2>1, <2>2, <2>4
  <2> QED
    BY <2>3, <2>4
<1>2. CASE index = NoIndex
  <2>1. Found(s) = {i - 1 : i \in {j \in 1..Len(names) :
                                   names[j] = s /\ \A k \in 1..(j - 1) : names[k] # s}}
    BY <1>2 DEF Found
  <2>2. Found(s) \subseteq Nat
    BY <1>0, <2>1
  <2>3. ASSUME s \in Pooled PROVE Found(s) # {}
    <3>1. PICK i \in 1..Len(names) : s = names[i]
      BY <2>3 DEF Pooled
    <3>2. \A k \in 1..(i - 1) : names[k] # s
      BY <1>0, <3>1 DEF PoolInv, NamesDiffer
    <3>3. i - 1 \in Found(s)
      BY <2>1, <3>1, <3>2
    <3> QED
      BY <3>3
  <2> QED
    BY <2>2, <2>3
<1> QED
  BY <1>1, <1>2

-----------------------------------------------------------------------------
LEMMA InitInv == Init => IInv
<1> SUFFICES ASSUME Init PROVE IInv
  OBVIOUS
<1>1. MAGIC \in Bytes
  BY DEF MAGIC, Bytes, Byte
<1>2. Raw(MAGIC) \in Operation /\ Raw(MAGIC).op = "raw"
  BY <1>1, OperationTypes
<1>3. todo \in Seq(Operation) /\ CacheFresh
  BY <1>2 DEF Init, CacheFresh, FreshIn
<1>4. PoolInv
  BY DEF Init, PoolInv, NamesDiffer, IndexCurrent
<1>5. <<>> \in Bytes /\ <<>> \in Seq(Bytes) /\ <<>> \in Seq(Events) /\ Len(<<>>) <= INTERNED_NEW
  <2>1. Len(<<>>) = 0
    OBVIOUS
  <2>2. <<>> \in Bytes /\ <<>> \in Seq(Bytes) /\ <<>> \in Seq(Events)
    BY DEF Bytes
  <2>3. 0 <= INTERNED_NEW
    BY FieldBytes
  <2> QED
    BY <2>1, <2>2, <2>3
<1>6. VarsType
  BY <1>5 DEF Init, VarsType
<1> QED
  BY <1>3, <1>4, <1>6 DEF IInv, TodoInv

\* What keeps the names and the index keeps PoolInv.
LEMMA PoolKept ==
  ASSUME PoolInv, UNCHANGED <<names, index>>
  PROVE  PoolInv' /\ Pooled' = Pooled
BY DEF PoolInv, NamesDiffer, IndexCurrent, Pooled

\* An action that replaces the next operation by others.
LEMMA ExpandKeeps ==
  ASSUME IInv, NEW op, Doing(op), NEW s \in Seq(Operation), FreshIn(s, Pooled),
         (\A k \in 1..Len(s) : Plain(s[k])) \/ ~Plain(todo[1]),
         todo' = s \o Tail(todo),
         UNCHANGED <<out, names, index, pc, current, calls, written, spoiled, faults>>
  PROVE  IInv'
<1>1. todo \in Seq(Operation) /\ todo # <<>> /\ FreshIn(todo, Pooled)
  BY OperandType DEF IInv, TodoInv, CacheFresh
<1>2. todo' \in Seq(Operation) /\ FreshIn(todo', Pooled)
  BY <1>1, Expand
<1>3. PoolInv' /\ Pooled' = Pooled
  BY PoolKept DEF IInv
<1>4. TodoInv'
  BY <1>2, <1>3 DEF TodoInv, CacheFresh
<1>5. VarsType'
  BY DEF IInv, VarsType
<1> QED
  BY <1>3, <1>4, <1>5 DEF IInv

\* A call that is given up leaves nothing to do.
LEMMA GiveUpKeeps ==
  ASSUME GiveUp
  PROVE  /\ todo' \in Seq(Operation) /\ \A pool : FreshIn(todo', pool)
         /\ spoiled' \in BOOLEAN /\ pc' \in {"new", "idle", "writing", "closed"}
BY DEF GiveUp, FreshIn

LEMMA OpenedKeeps == IInv /\ Opened => IInv'
<1> SUFFICES ASSUME IInv, Opened PROVE IInv'
  OBVIOUS
<1>1. PoolInv' /\ Pooled' = Pooled
  BY PoolKept DEF IInv, Opened
<1>2. TodoInv'
  BY <1>1 DEF Opened, IInv, TodoInv, CacheFresh
<1>3. VarsType'
  BY DEF Opened, IInv, VarsType
<1> QED
  BY <1>1, <1>2, <1>3 DEF IInv

LEMMA WriteKeeps ==
  ASSUME IInv, NEW e \in Events, WriteEvent(e)
  PROVE  IInv'
<1>1. EventOps(e) \in Seq(Operation) /\ NoCache(EventOps(e))
  BY EventsAssumption, EventOpsType
<1>2. PoolInv' /\ Pooled' = Pooled
  BY PoolKept DEF IInv, WriteEvent
<1>3. TodoInv'
  BY <1>1, NoCacheFresh DEF WriteEvent, TodoInv, CacheFresh
<1>4. VarsType'
  BY DEF WriteEvent, IInv, VarsType
<1> QED
  BY <1>2, <1>3, <1>4 DEF IInv

LEMMA CallKeeps == IInv /\ Call => IInv'
BY WriteKeeps DEF Call

LEMMA WrittenKeeps == IInv /\ Written => IInv'
<1> SUFFICES ASSUME IInv, Written PROVE IInv'
  OBVIOUS
<1>1. PoolInv' /\ Pooled' = Pooled
  BY PoolKept DEF IInv, Written
<1>2. TodoInv'
  BY <1>1 DEF Written, IInv, TodoInv, CacheFresh
<1>3. current \in Seq(Events) /\ written \in Seq(Events)
  <2>1. \A e \in Events : <<e>> \in Seq(Events)
    OBVIOUS
  <2>2. <<>> \in Seq(Events)
    OBVIOUS
  <2>3. current = <<>> \/ \E e \in Events : current = <<e>>
    BY DEF IInv, VarsType
  <2> QED
    BY <2>1, <2>2, <2>3 DEF IInv, VarsType
<1>4. written \o current \in Seq(Events)
  BY <1>3, ConcatProperties
<1>5. VarsType'
  BY <1>4 DEF Written, IInv, VarsType
<1> QED
  BY <1>1, <1>2, <1>5 DEF IInv

LEMMA RawKeeps == IInv /\ DoRaw => IInv'
<1> SUFFICES ASSUME IInv, DoRaw PROVE IInv'
  OBVIOUS
<1>1. Doing("raw") /\ Operand \in Bytes /\ todo \in Seq(Operation) /\ todo # <<>>
  BY OperandType DEF DoRaw, IInv
<1>2. PoolInv' /\ Pooled' = Pooled
  BY PoolKept DEF IInv, DoRaw
<1>3. todo' \in Seq(Operation) /\ FreshIn(todo', Pooled)
  BY <1>1, Advance DEF DoRaw, IInv, TodoInv, CacheFresh
<1>4. out \o Operand \in Bytes
  BY <1>1, ConcatProperties DEF Bytes, IInv, VarsType
<1>5. VarsType'
  BY <1>4 DEF DoRaw, IInv, VarsType
<1> QED
  BY <1>2, <1>3, <1>5 DEF IInv, TodoInv, CacheFresh

LEMMA SinkKeeps == IInv /\ SinkError => IInv'
<1> SUFFICES ASSUME IInv, Doing("raw"), NEW n \in 0..(Len(Operand) - 1), SinkFails(n)
             PROVE  IInv'
  BY DEF SinkError
<1>1. Operand \in Bytes
  BY OperandType DEF IInv
<1>2. Len(Operand) \in Nat /\ n \in Int /\ n <= Len(Operand)
      /\ \A i \in 1..n : Operand[i] \in Byte
  BY <1>1, LenProperties, ElementOfSeq DEF Bytes
<1>3. SubSeq(Operand, 1, n) \in Bytes
  BY <1>2, SubSeqProperties DEF Bytes
<1>4. out \o SubSeq(Operand, 1, n) \in Bytes
  BY <1>3, ConcatProperties DEF Bytes, IInv, VarsType
<1>5. GiveUp /\ PoolInv' /\ Pooled' = Pooled
  BY PoolKept DEF IInv, SinkFails
<1>6. TodoInv'
  BY <1>5, GiveUpKeeps DEF TodoInv, CacheFresh
<1>7. VarsType'
  BY <1>4, <1>5, GiveUpKeeps DEF SinkFails, IInv, VarsType
<1> QED
  BY <1>5, <1>6, <1>7 DEF IInv

LEMMA AttributeKeeps == IInv /\ DoAttribute => IInv'
<1> SUFFICES ASSUME IInv, DoAttribute PROVE IInv'
  OBVIOUS
<1>1. Doing("attribute")
  BY DEF DoAttribute
<1>2. todo[1].op = "attribute" /\ todo[1] \in Operation /\ Head(todo) = todo[1]
  BY <1>1, OperandType DEF IInv
<1>3. Head(todo).attribute \in Attribute
  BY <1>2, OperationFields
<1> DEFINE s == AttributeOps(Head(todo).attribute)
<1>4. s \in Seq(Operation) /\ FreshIn(s, Pooled)
  BY <1>3, AttributeOpsType, NoCacheFresh
<1>5. ~Plain(todo[1])
  BY <1>2 DEF Plain
<1>6. /\ todo' = s \o Tail(todo)
      /\ UNCHANGED <<out, names, index, pc, current, calls, written, spoiled, faults>>
  BY DEF DoAttribute
<1> HIDE DEF s
<1> QED
  BY <1>1, <1>4, <1>5, <1>6, ExpandKeeps

\* The name is written by its position, or in full and then cached if it is new.
LEMMA NameKeeps == IInv /\ DoName => IInv'
<1> SUFFICES ASSUME IInv, DoName PROVE IInv'
  OBVIOUS
<1>1. Doing("name") /\ UNCHANGED <<out, names, index, pc, current, calls, written, spoiled, faults>>
  BY DEF DoName
<1>2. Operand \in Bytes /\ ~Plain(todo[1])
  BY <1>1, OperandType DEF IInv, Plain
<1>3. Found(Operand) \subseteq Nat /\ (Found(Operand) = {} => Operand \notin Pooled)
  BY FoundType DEF IInv
<1>4. CASE Found(Operand) # {}
  <2>1. PICK i \in Found(Operand) : todo' = <<Raw(U16Bytes(i))>> \o Tail(todo)
    BY <1>4 DEF DoName
  <2>2. Raw(U16Bytes(i)) \in Operation /\ Raw(U16Bytes(i)).op = "raw"
    BY <1>3, <2>1, FieldBytes, OperationTypes
  <2> DEFINE s == <<Raw(U16Bytes(i))>>
  <2>3. s \in Seq(Operation) /\ FreshIn(s, Pooled)
    BY <2>2 DEF FreshIn
  <2>4. todo' = s \o Tail(todo)
    BY <2>1
  <2> HIDE DEF s
  <2> QED
    BY <1>1, <1>2, <2>3, <2>4, ExpandKeeps
<1>5. CASE Found(Operand) = {}
  <2> DEFINE s == <<Raw(U16Bytes(INTERNED_NEW)), Blob(Operand), Cache(Operand)>>
  <2>1. U16Bytes(INTERNED_NEW) \in Bytes
    BY FieldBytes
  <2>2. /\ Raw(U16Bytes(INTERNED_NEW)) \in Operation /\ Raw(U16Bytes(INTERNED_NEW)).op = "raw"
        /\ Blob(Operand) \in Operation /\ Blob(Operand).op = "blob"
        /\ Cache(Operand) \in Operation /\ Cache(Operand).bytes = Operand
    BY <1>2, <2>1, OperationTypes
  <2>3. s \in Seq(Operation)
    BY <2>2
  <2>4. FreshIn(s, Pooled)
    BY <1>3, <1>5, <2>2 DEF FreshIn, Plain
  <2>5. todo' = s \o Tail(todo)
    BY <1>5 DEF DoName
  <2> HIDE DEF s
  <2> QED
    BY <1>1, <1>2, <2>3, <2>4, <2>5, ExpandKeeps
<1> QED
  BY <1>4, <1>5

LEMMA BlobKeeps == IInv /\ DoBlob => IInv'
<1> SUFFICES ASSUME IInv, DoBlob PROVE IInv'
  OBVIOUS
<1>1. Doing("blob") /\ UNCHANGED <<out, names, index, pc, current, calls, written, spoiled, faults>>
  BY DEF DoBlob
<1>2. Operand \in Bytes
  BY <1>1, OperandType DEF IInv
<1>3. U16Bytes(Len(Operand)) \in Bytes
  BY <1>2, LenProperties, FieldBytes DEF Bytes
<1>4. /\ Raw(U16Bytes(Len(Operand))) \in Operation /\ Raw(U16Bytes(Len(Operand))).op = "raw"
      /\ Raw(Operand) \in Operation /\ Raw(Operand).op = "raw"
  BY <1>2, <1>3, OperationTypes
<1> DEFINE s == <<Raw(U16Bytes(Len(Operand))), Raw(Operand)>>
<1>5. s \in Seq(Operation)
  BY <1>4
<1>6. FreshIn(s, Pooled) /\ \A k \in 1..Len(s) : Plain(s[k])
  BY <1>4 DEF FreshIn, Plain
<1>7. todo' = s \o Tail(todo)
  BY DEF DoBlob
<1> HIDE DEF s
<1> QED
  BY <1>1, <1>5, <1>6, <1>7, ExpandKeeps

LEMMA TooLongKeeps == IInv /\ TooLong => IInv'
<1> SUFFICES ASSUME IInv, TooLong PROVE IInv'
  OBVIOUS
<1>1. GiveUp /\ PoolInv' /\ Pooled' = Pooled
  BY PoolKept DEF IInv, TooLong
<1>2. TodoInv'
  BY <1>1, GiveUpKeeps DEF TodoInv, CacheFresh
<1>3. VarsType'
  BY <1>1, GiveUpKeeps DEF TooLong, IInv, VarsType
<1> QED
  BY <1>1, <1>2, <1>3 DEF IInv

\* One name more: it is new, it gets the next position, and the index follows.
LEMMA CacheKeeps == IInv /\ DoCache => IInv'
<1> SUFFICES ASSUME IInv, DoCache PROVE IInv'
  OBVIOUS
<1>1. /\ Doing("cache") /\ todo' = Tail(todo)
      /\ UNCHANGED <<out, pc, current, calls, written, spoiled, faults>>
  BY DEF DoCache
<1>2. /\ Operand \in Bytes /\ Operand = todo[1].bytes /\ todo[1].op = "cache"
      /\ todo \in Seq(Operation) /\ todo # <<>>
  BY <1>1, OperandType DEF IInv, Operand
<1>3. Operand \notin Pooled
  <2>1. 1 \in 1..Len(todo)
    BY <1>2, EmptySeq, LenProperties
  <2> QED
    BY <1>2, <2>1 DEF IInv, TodoInv, CacheFresh, FreshIn
<1>4. todo' \in Seq(Operation) /\ NoCache(todo')
  <2>1. ~Plain(todo[1])
    BY <1>2 DEF Plain
  <2> QED
    BY <1>1, <1>2, <2>1, Advance DEF IInv, TodoInv, CacheFresh
<1>5. TodoInv'
  BY <1>4, NoCacheFresh DEF TodoInv, CacheFresh
<1>6. CASE Full
  <2>1. UNCHANGED <<names, index>>
    BY <1>6 DEF DoCache
  <2>2. PoolInv'
    BY <2>1, PoolKept DEF IInv
  <2>3. VarsType'
    BY <1>1, <2>1 DEF IInv, VarsType
  <2> QED
    BY <1>5, <2>2, <2>3 DEF IInv
<1>7. CASE ~Full
  <2> DEFINE n == Len(names)
             ns == Append(names, Operand)
  <2>1. names' = ns /\ index' = IndexAfter(ns)
    BY <1>7 DEF DoCache
  <2>2. /\ n \in Nat /\ n < INTERNED_NEW /\ INTERNED_NEW \in Nat
    BY <1>7, LenProperties, FieldBytes DEF Full, IInv, VarsType
  <2>3. /\ ns \in Seq(Bytes) /\ Len(ns) = n + 1 /\ ns[n + 1] = Operand
        /\ \A i \in 1..n : ns[i] = names[i]
    BY <1>2, AppendProperties DEF IInv, VarsType
  <2>4. Len(names) = n
    OBVIOUS
  <2> HIDE DEF n, ns
  <2>5. VarsType'
    BY <1>1, <2>1, <2>2, <2>3 DEF IInv, VarsType
  <2>6. \A i \in 1..n : names[i] # Operand
    BY <1>3, <2>4 DEF Pooled
  <2>7. \A i \in 1..(n + 1), j \in 1..(n + 1) : ns[i] = ns[j] => i = j
    <3>1. \A i \in 1..n, j \in 1..n : ns[i] = ns[j] => i = j
      BY <2>3, <2>4 DEF IInv, PoolInv, NamesDiffer
    <3>2. \A i \in 1..n : ns[i] # ns[n + 1]
      BY <2>2, <2>3, <2>6
    <3>3. \A i \in 1..(n + 1) : i \in 1..n \/ i = n + 1
      BY <2>2
    <3> QED
      BY <3>1, <3>2, <3>3
  <2>8. Pooled' = {ns[i] : i \in 1..(n + 1)}
    BY <2>1, <2>3 DEF Pooled
  <2>9. NamesDiffer'
    BY <2>1, <2>3, <2>7 DEF NamesDiffer
  <2>10. IndexAfter(ns) # NoIndex =>
            /\ DOMAIN IndexAfter(ns) = {ns[i] : i \in 1..(n + 1)}
            /\ \A i \in 1..(n + 1) : IndexAfter(ns)[ns[i]] = i - 1
    <3>1. CASE index # NoIndex
      <4>1. DOMAIN index = {names[i] : i \in 1..n} /\ \A i \in 1..n : index[names[i]] = i - 1
        BY <2>4, <3>1 DEF IInv, PoolInv, IndexCurrent, Pooled
      <4>2. IndexAfter(ns) = [s \in DOMAIN index \cup {Operand} |->
                                IF s = Operand THEN (n + 1) - 1 ELSE index[s]]
        BY <2>3, <3>1 DEF IndexAfter
      <4>3. DOMAIN index \cup {Operand} = {ns[i] : i \in 1..(n + 1)}
        <5>1. \A i \in 1..(n + 1) : i \in 1..n \/ i = n + 1
          BY <2>2
        <5>2. n + 1 \in 1..(n + 1) /\ 1..n \subseteq 1..(n + 1)
          BY <2>2
        <5> QED
          BY <2>3, <4>1, <5>1, <5>2
      <4>4. ASSUME NEW i \in 1..n PROVE IndexAfter(ns)[ns[i]] = i - 1
        BY <2>3, <2>6, <4>1, <4>2
      <4>5. IndexAfter(ns)[ns[n + 1]] = (n + 1) - 1
        BY <2>3, <4>2
      <4>6. \A i \in 1..(n + 1) : i \in 1..n \/ i = n + 1
        BY <2>2
      <4> QED
        BY <4>2, <4>3, <4>4, <4>5, <4>6
    <3>2. CASE index = NoIndex /\ Len(ns) > LINEAR_SCAN_LIMIT
      <4>1. IndexAfter(ns) = IndexOf(ns)
        BY <3>2 DEF IndexAfter
      <4>2. IndexOf(ns) = [s \in {ns[i] : i \in 1..(n + 1)} |->
                             (CHOOSE i \in 1..(n + 1) : ns[i] = s) - 1]
        BY <2>3 DEF IndexOf
      <4>3. ASSUME NEW i \in 1..(n + 1) PROVE (CHOOSE j \in 1..(n + 1) : ns[j] = ns[i]) = i
        BY <2>7
      <4>4. ASSUME NEW i \in 1..(n + 1) PROVE IndexOf(ns)[ns[i]] = i - 1
        <5>1. IndexOf(ns)[ns[i]] = (CHOOSE j \in 1..(n + 1) : ns[j] = ns[i]) - 1
          BY <4>2
        <5> QED
          BY <4>3, <5>1
      <4> QED
        BY <4>1, <4>2, <4>4
    <3>3. CASE index = NoIndex /\ ~(Len(ns) > LINEAR_SCAN_LIMIT)
      BY <3>3 DEF IndexAfter
    <3> QED
      BY <3>1, <3>2, <3>3
  <2>11. IndexCurrent'
    BY <2>1, <2>3, <2>8, <2>10 DEF IndexCurrent
  <2> QED
    BY <1>5, <2>5, <2>9, <2>11 DEF IInv, PoolInv
<1> QED
  BY <1>6, <1>7

LEMMA NextInv == IInv /\ [Next]_vars => IInv'
<1> SUFFICES ASSUME IInv, [Next]_vars PROVE IInv'
  OBVIOUS
<1>1. CASE UNCHANGED vars
  <2>1. UNCHANGED <<out, names, index, pc, todo, current, calls, written, spoiled, faults>>
    BY <1>1 DEF vars
  <2>2. VarsType'
    BY <2>1 DEF IInv, VarsType
  <2>3. PoolInv'
    BY <2>1 DEF IInv, PoolInv, NamesDiffer, IndexCurrent, Pooled
  <2>4. TodoInv'
    BY <2>1 DEF IInv, TodoInv, CacheFresh, FreshIn, Pooled
  <2> QED
    BY <2>2, <2>3, <2>4 DEF IInv
<1>2. CASE Next
  BY <1>2, OpenedKeeps, CallKeeps, WrittenKeeps, RawKeeps, SinkKeeps, AttributeKeeps, NameKeeps,
     BlobKeeps, TooLongKeeps, CacheKeeps DEF Next
<1> QED
  BY <1>1, <1>2

LEMMA Invariance == Spec => []IInv
<1> QED
  BY InitInv, NextInv, PTL DEF Spec

-----------------------------------------------------------------------------
\* Every variable of the writer keeps its type, and every position in the pool is below the
\* marker of a new name (writer.rs:50), for any radix, events, limit and failing writes.
THEOREM WriterTypeCorrect == Spec => []TypeOK
<1>1. ASSUME IInv PROVE TypeOK
  <2>1. Len(names) \in Nat
    BY <1>1, LenProperties DEF IInv, VarsType
  <2>2. ASSUME NEW s \in DOMAIN index PROVE index[s] \in 0..(Len(names) - 1)
    <3>1. index # NoIndex
      BY <2>2 DEF NoIndex
    <3>2. PICK i \in 1..Len(names) : s = names[i]
      BY <1>1, <2>2, <3>1 DEF IInv, PoolInv, IndexCurrent, Pooled
    <3>3. index[s] = i - 1
      BY <1>1, <3>1, <3>2 DEF IInv, PoolInv, IndexCurrent
    <3> QED
      BY <2>1, <3>2, <3>3
  <2> QED
    BY <1>1, <2>2 DEF IInv, VarsType, TodoInv, TypeOK
<1> QED
  BY <1>1, Invariance, PTL

\* InternedPool::find answers, for each name of the pool, its one position (writer.rs:35), by
\* scan and by index, wherever the limit between the two is.
THEOREM WriterFindsEveryName == Spec => []FindsEveryName
<1>1. ASSUME IInv PROVE FindsEveryName
  <2>1. Len(names) \in Nat
    BY <1>1, LenProperties DEF IInv, VarsType
  <2>2. ASSUME NEW i \in 1..Len(names) PROVE Found(names[i]) = {i - 1}
    <3>1. CASE index # NoIndex
      <4>1. names[i] \in DOMAIN index /\ index[names[i]] = i - 1
        BY <1>1, <3>1 DEF IInv, PoolInv, IndexCurrent, Pooled
      <4> QED
        BY <3>1, <4>1 DEF Found
    <3>2. CASE index = NoIndex
      <4> DEFINE At == {j \in 1..Len(names) :
                          names[j] = names[i] /\ \A k \in 1..(j - 1) : names[k] # names[i]}
      <4>1. \A j \in 1..Len(names) : names[j] = names[i] => j = i
        BY <1>1 DEF IInv, PoolInv, NamesDiffer
      <4>2. \A k \in 1..(i - 1) : k \in 1..Len(names) /\ k # i
        BY <2>1
      <4>3. At = {i}
        BY <4>1, <4>2
      <4>4. Found(names[i]) = {j - 1 : j \in At}
        BY <3>2 DEF Found
      <4> HIDE DEF At
      <4> QED
        BY <4>3, <4>4
    <3> QED
      BY <3>1, <3>2
  <2> QED
    BY <2>2 DEF FindsEveryName
<1> QED
  BY <1>1, Invariance, PTL

-----------------------------------------------------------------------------
(***************************************************************************)
(* Reading back.                                                           *)
(***************************************************************************)
From(V, o) == SubSeq(V, o + 1, Len(V))

\* A parser of the body V comes, behind the events fin and at V's byte o, with the strings p
\* in its pool, to the grammar's state g.
Stands(V, o, fin, p, g) ==
  /\ o \in 0..Len(V)
  /\ \E k \in 0..Len(V) : LET s == DecodeSteps(V)[k]
                          IN s.rest = From(V, o) /\ s.pool = p /\ s.events = fin /\ ~s.failed
  /\ OnRun(g, From(V, o), p)

\* So it does whatever follows W.
Standing(W, o, fin, p, g) == \A V \in Bytes : Longer(W, V) => Stands(V, o, fin, p, g)

LEMMA StandsType ==
  ASSUME NEW V \in Bytes, NEW o, NEW fin, NEW p, NEW g, Stands(V, o, fin, p, g)
  PROVE  /\ Len(V) \in Nat /\ o \in 0..Len(V)
         /\ fin \in Seq(EventRecord) /\ p \in Seq(Bytes)
         /\ From(V, o) \in Bytes /\ Len(From(V, o)) = Len(V) - o
         /\ \A i \in 1..(Len(V) - o) : From(V, o)[i] = V[o + i]
         /\ g \in GrammarState /\ g.cur \in Nat /\ g.cur <= Len(V) - o
<1>1. Len(V) \in Nat /\ o \in 0..Len(V)
  BY LenProperties DEF Bytes, Stands
<1>2. PICK k \in 0..Len(V) : LET s == DecodeSteps(V)[k]
                             IN s.rest = From(V, o) /\ s.pool = p /\ s.events = fin /\ ~s.failed
  BY DEF Stands
<1>3. DecodeSteps(V)[k] \in CollectState
  BY DecodeStepsType
<1>4. fin \in Seq(EventRecord) /\ p \in Seq(Bytes)
  BY <1>2, <1>3 DEF CollectState
<1>5. /\ From(V, o) \in Bytes /\ Len(From(V, o)) = Len(V) - o
      /\ \A i \in 1..(Len(V) - o) : From(V, o)[i] = V[o + i]
  BY <1>1, RestType DEF From
<1>6. g \in Inside(From(V, o))
  BY <1>4, <1>5, OnRunType DEF Stands
<1> QED
  BY <1>1, <1>4, <1>5, <1>6 DEF Inside, GrammarState, GrammarRecord

LEMMA StandingType ==
  ASSUME NEW W \in Bytes, NEW o, NEW fin, NEW p, NEW g, Standing(W, o, fin, p, g)
  PROVE  /\ Stands(W, o, fin, p, g)
         /\ Len(W) \in Nat /\ o \in 0..Len(W)
         /\ fin \in Seq(EventRecord) /\ p \in Seq(Bytes)
         /\ From(W, o) \in Bytes /\ Len(From(W, o)) = Len(W) - o
         /\ \A i \in 1..(Len(W) - o) : From(W, o)[i] = W[o + i]
         /\ g \in GrammarState /\ g.cur \in Nat /\ g.cur <= Len(W) - o
<1>1. Longer(W, W)
  BY LenProperties DEF Longer, Bytes
<1>2. Stands(W, o, fin, p, g)
  BY <1>1 DEF Standing
<1> QED
  BY <1>2, StandsType

\* More bytes: bytes W with b behind them.
LEMMA MoreBytes ==
  ASSUME NEW W \in Bytes, NEW b \in Bytes
  PROVE  /\ Len(W) \in Nat /\ Len(b) \in Nat
         /\ W \o b \in Bytes /\ Len(W \o b) = Len(W) + Len(b)
         /\ \A i \in 1..Len(b) : (W \o b)[Len(W) + i] = b[i]
         /\ Longer(W, W \o b)
<1>1. Len(W) \in Nat /\ Len(b) \in Nat
  BY LenProperties DEF Bytes
<1>2. /\ W \o b \in Bytes /\ Len(W \o b) = Len(W) + Len(b)
      /\ \A i \in 1..(Len(W) + Len(b)) : (W \o b)[i] = IF i <= Len(W) THEN W[i] ELSE b[i - Len(W)]
  BY ConcatProperties DEF Bytes
<1>3. ASSUME NEW i \in 1..Len(b) PROVE (W \o b)[Len(W) + i] = b[i]
  <2>1. Len(W) + i \in 1..(Len(W) + Len(b)) /\ ~(Len(W) + i <= Len(W)) /\ (Len(W) + i) - Len(W) = i
    BY <1>1
  <2> QED
    BY <1>2, <2>1
<1>4. Longer(W, W \o b)
  BY <1>1, <1>2 DEF Longer
<1> QED
  BY <1>1, <1>2, <1>3, <1>4

LEMMA LongerStill ==
  ASSUME NEW U \in Bytes, NEW V \in Bytes, NEW W \in Bytes, Longer(U, V), Longer(V, W)
  PROVE  Longer(U, W)
<1>1. Len(U) \in Nat /\ Len(V) \in Nat /\ Len(W) \in Nat
  BY LenProperties DEF Bytes
<1> QED
  BY <1>1 DEF Longer

LEMMA StandingLonger ==
  ASSUME NEW W \in Bytes, NEW W2 \in Bytes, Longer(W, W2),
         NEW o, NEW fin, NEW p, NEW g, Standing(W, o, fin, p, g)
  PROVE  Standing(W2, o, fin, p, g)
BY LongerStill DEF Standing

\* A primitive that is there is read alike in all documents that begin so.
LEMMA StandingStep ==
  ASSUME NEW W \in Bytes, NEW o, NEW fin, NEW p, NEW g, Standing(W, o, fin, p, g),
         g.at \in Reading, o + g.cur + Wants(g) <= Len(W)
  PROVE  Standing(W, o, fin, p, Step(g, From(W, o), FALSE))
<1> DEFINE R == From(W, o)
<1>1. /\ Len(W) \in Nat /\ o \in 0..Len(W) /\ g \in GrammarState /\ g.cur \in Nat
      /\ R \in Bytes /\ Len(R) = Len(W) - o /\ \A i \in 1..(Len(W) - o) : R[i] = W[o + i]
  BY StandingType
<1> HIDE DEF R
<1>2. Wants(g) \in Nat /\ Wants(g) <= Len(R) - g.cur
  BY <1>1, WantsType
<1> SUFFICES ASSUME NEW V \in Bytes, Longer(W, V) PROVE Stands(V, o, fin, p, Step(g, R, FALSE))
  BY DEF Standing, R
<1>3. Stands(V, o, fin, p, g)
  BY DEF Standing
<1> DEFINE S == From(V, o)
<1>4. /\ Len(V) \in Nat /\ p \in Seq(Bytes)
      /\ S \in Bytes /\ Len(S) = Len(V) - o /\ \A i \in 1..(Len(V) - o) : S[i] = V[o + i]
  BY <1>3, StandsType
<1> HIDE DEF S
<1>5. OnRun(Step(g, S, FALSE), S, p)
  BY <1>3, <1>4, StepOnRun DEF Stands, S
<1>6. Len(R) <= Len(S) /\ \A i \in 1..Len(R) : S[i] = R[i]
  <2>1. Len(W) <= Len(V) /\ \A i \in 1..Len(W) : V[i] = W[i]
    BY DEF Longer
  <2>2. ASSUME NEW i \in 1..Len(R) PROVE S[i] = R[i]
    <3>1. o + i \in 1..Len(W) /\ i \in 1..(Len(W) - o) /\ i \in 1..(Len(V) - o)
      BY <1>1, <1>4, <2>1
    <3> QED
      BY <1>1, <1>4, <2>1, <3>1
  <2> QED
    BY <1>1, <1>4, <2>1, <2>2
<1>7. Step(g, R, FALSE) = Step(g, S, FALSE)
  BY <1>1, <1>2, <1>4, <1>6, StepOnPrefix
<1> QED
  BY <1>3, <1>5, <1>7 DEF Stands, S

\* What the grammar makes of the bytes b it has asked for.
Given(g, b) ==
  LET h == [g EXCEPT !.cur = g.cur + Len(b)]
  IN CASE g.at = "token"   -> Token(h, b[1])
       [] g.at = "index"   -> Index(h, U16(b[1], b[2]))
       [] g.at = "length"  -> [h EXCEPT !.at = "payload", !.size = U16(b[1], b[2])]
       [] g.at = "payload" -> Payload(h, b)
       [] g.at = "scalar"  -> Deliver(h, b)
       [] g.at = "attrs"   -> Attrs(g, b[1])
       [] OTHER            -> g

LEMMA Shifted ==
  ASSUME NEW o \in Nat, NEW c \in Nat, NEW w \in Nat, NEW n \in Nat, o + c = w, NEW i \in 1..n
  PROVE  c + i \in 1..((w + n) - o) /\ o + (c + i) = w + i
OBVIOUS

LEMMA StepIsGiven ==
  ASSUME NEW R \in Bytes, NEW b \in Bytes, NEW g \in GrammarState, g.at \in Reading,
         Len(b) = Wants(g), Len(R) = g.cur + Len(b), \A i \in 1..Len(b) : R[g.cur + i] = b[i]
  PROVE  Step(g, R, FALSE) = Given(g, b)
<1>1. /\ g.cur \in Nat /\ Len(R) \in Nat /\ Len(b) \in Nat /\ g.at \notin Final
      /\ R \in Seq(Byte) /\ b \in Seq(Byte)
  BY LenProperties DEF GrammarState, GrammarRecord, Bytes, Reading, Final
<1>2. Step(g, R, FALSE) = Take(g, R)
  <2>1. ~(Len(R) - g.cur < Wants(g))
    BY <1>1
  <2> QED
    BY <1>1, <2>1 DEF Step
<1> DEFINE s == SubSeq(R, g.cur + 1, g.cur + Wants(g))
<1>3. s = b
  <2>1. \A i \in (g.cur + 1)..(g.cur + Wants(g)) : R[i] \in Byte
    BY <1>1, ElementOfSeq
  <2>2. /\ s \in Seq(Byte)
        /\ Len(s) = Len(b)
        /\ \A i \in 1..((g.cur + Wants(g)) - (g.cur + 1) + 1) : s[i] = R[(g.cur + 1) + i - 1]
    <3> DEFINE m == g.cur + 1
               n == g.cur + Wants(g)
    <3>1. m \in Int /\ n \in Int /\ \A i \in m..n : R[i] \in Byte
      BY <1>1, <2>1
    <3>2. (IF m <= n THEN n - m + 1 ELSE 0) = Len(b)
      BY <1>1
    <3> HIDE DEF m, n
    <3>3. /\ SubSeq(R, m, n) \in Seq(Byte)
          /\ Len(SubSeq(R, m, n)) = IF m <= n THEN n - m + 1 ELSE 0
          /\ \A i \in 1..(n - m + 1) : SubSeq(R, m, n)[i] = R[m + i - 1]
      BY <3>1, SubSeqProperties
    <3> QED
      BY <3>2, <3>3 DEF m, n
  <2> HIDE DEF s
  <2>3. ASSUME NEW i \in 1..Len(s) PROVE s[i] = b[i]
    <3>1. i \in 1..((g.cur + Wants(g)) - (g.cur + 1) + 1) /\ (g.cur + 1) + i - 1 = g.cur + i
      BY <1>1, <2>2
    <3>2. s[i] = R[g.cur + i]
      BY <2>2, <3>1
    <3> QED
      BY <2>2, <3>2
  <2> QED
    BY <1>1, <2>2, <2>3, SeqEqual
<1> HIDE DEF s
<1>4. Wants(g) >= 1 => R[g.cur + 1] = b[1]
  BY <1>1
<1>5. Wants(g) = 2 => R[g.cur + 2] = b[2]
  BY <1>1
<1> DEFINE h == [g EXCEPT !.cur = g.cur + Wants(g)]
<1>6. CASE g.at = "token"
  <2>1. Take(g, R) = Token(h, R[g.cur + 1])
    BY <1>6 DEF Take
  <2>2. Given(g, b) = Token(h, b[1])
    BY <1>6 DEF Given
  <2>3. R[g.cur + 1] = b[1]
    BY <1>4, <1>6 DEF Wants
  <2> QED
    BY <1>2, <2>1, <2>2, <2>3
<1>7. CASE g.at = "index"
  <2>1. Take(g, R) = Index(h, U16(R[g.cur + 1], R[g.cur + 2]))
    BY <1>7 DEF Take
  <2>2. Given(g, b) = Index(h, U16(b[1], b[2]))
    BY <1>7 DEF Given
  <2>3. R[g.cur + 1] = b[1] /\ R[g.cur + 2] = b[2]
    BY <1>4, <1>5, <1>7 DEF Wants
  <2> QED
    BY <1>2, <2>1, <2>2, <2>3
<1>8. CASE g.at = "length"
  <2>1. Take(g, R) = [h EXCEPT !.at = "payload", !.size = U16(R[g.cur + 1], R[g.cur + 2])]
    BY <1>8 DEF Take
  <2>2. Given(g, b) = [h EXCEPT !.at = "payload", !.size = U16(b[1], b[2])]
    BY <1>8 DEF Given
  <2>3. R[g.cur + 1] = b[1] /\ R[g.cur + 2] = b[2]
    BY <1>4, <1>5, <1>8 DEF Wants
  <2> QED
    BY <1>2, <2>1, <2>2, <2>3
<1>9. CASE g.at = "payload"
  <2>1. Take(g, R) = Payload(h, s)
    BY <1>9 DEF Take, s
  <2>2. Given(g, b) = Payload(h, b)
    BY <1>9 DEF Given
  <2> QED
    BY <1>2, <1>3, <2>1, <2>2
<1>10. CASE g.at = "scalar"
  <2>1. Take(g, R) = Deliver(h, s)
    BY <1>10 DEF Take, s
  <2>2. Given(g, b) = Deliver(h, b)
    BY <1>10 DEF Given
  <2> QED
    BY <1>2, <1>3, <2>1, <2>2
<1>11. CASE g.at = "attrs"
  <2>1. Take(g, R) = Attrs(g, R[g.cur + 1])
    BY <1>11 DEF Take
  <2>2. Given(g, b) = Attrs(g, b[1])
    BY <1>11 DEF Given
  <2>3. R[g.cur + 1] = b[1]
    BY <1>4, <1>11 DEF Wants
  <2> QED
    BY <1>2, <2>1, <2>2, <2>3
<1> QED
  BY <1>6, <1>7, <1>8, <1>9, <1>10, <1>11 DEF Reading

\* The bytes the grammar asks for come behind those it has read.
LEMMA ReadOnward ==
  ASSUME NEW W \in Bytes, NEW b \in Bytes, NEW o, NEW fin, NEW p, NEW g,
         Standing(W \o b, o, fin, p, g), o + g.cur = Len(W),
         g.at \in Reading, Len(b) = Wants(g)
  PROVE  Standing(W \o b, o, fin, p, Given(g, b))
<1> DEFINE V == W \o b
           R == From(V, o)
<1>1. /\ Len(W) \in Nat /\ Len(b) \in Nat /\ V \in Bytes /\ Len(V) = Len(W) + Len(b)
      /\ \A i \in 1..Len(b) : V[Len(W) + i] = b[i]
  BY MoreBytes
<1> HIDE DEF V
<1>2. /\ o \in 0..Len(V) /\ g \in GrammarState /\ g.cur \in Nat
      /\ R \in Bytes /\ Len(R) = Len(V) - o /\ \A i \in 1..(Len(V) - o) : R[i] = V[o + i]
  BY <1>1, StandingType DEF V
<1> HIDE DEF R
<1>3. Len(R) = g.cur + Len(b)
  BY <1>1, <1>2
<1>4. ASSUME NEW i \in 1..Len(b) PROVE R[g.cur + i] = b[i]
  <2> DEFINE j == g.cur + i
  <2>1. j \in 1..(Len(V) - o) /\ o + j = Len(W) + i
    <3>1. o \in Nat /\ g.cur \in Nat /\ i \in Nat /\ i >= 1 /\ i <= Len(b)
      BY <1>1, <1>2
    <3>2. Len(V) = Len(W) + Len(b) /\ o + g.cur = Len(W) /\ Len(W) \in Nat /\ Len(b) \in Nat
      BY <1>1
    <3>3. g.cur + i \in 1..((Len(W) + Len(b)) - o) /\ o + (g.cur + i) = Len(W) + i
      <4> DEFINE c == g.cur
                 w == Len(W)
                 n == Len(b)
      <4>1. o \in Nat /\ c \in Nat /\ w \in Nat /\ n \in Nat /\ o + c = w /\ i \in 1..n
        BY <3>1, <3>2
      <4> HIDE DEF c, w, n
      <4>2. c + i \in 1..((w + n) - o) /\ o + (c + i) = w + i
        BY <4>1, Shifted
      <4> QED
        BY <4>2 DEF c, w, n
    <3> QED
      BY <3>2, <3>3, Zenon
  <2> HIDE DEF j
  <2>2. R[j] = V[o + j]
    BY <1>2, <2>1
  <2> QED
    BY <1>1, <2>1, <2>2 DEF j
<1>5. Step(g, R, FALSE) = Given(g, b)
  BY <1>2, <1>3, <1>4, StepIsGiven
<1>6. o + g.cur + Wants(g) <= Len(V)
  BY <1>1, <1>2
<1> QED
  BY <1>1, <1>5, <1>6, StandingStep DEF V, R

\* One call of collect_events' loop further on.
LEMMA NextCall ==
  ASSUME NEW V \in Bytes, NEW k \in 0..Len(V),
         ~DecodeSteps(V)[k].failed, DecodeSteps(V)[k].rest # <<>>
  PROVE  /\ k + 1 \in 0..Len(V)
         /\ DecodeSteps(V)[k] \in CollectState
         /\ DecodeSteps(V)[k + 1] = CollectNext(DecodeSteps(V)[k])
<1> DEFINE r == DecodeSteps(V)
           m == k + 1
<1>1. /\ Len(V) \in Nat /\ \A j \in 1..Len(V) : r[j] = CollectNext(r[j - 1])
      /\ \A j \in 0..Len(V) : r[j] \in CollectState
  BY DecodeStepsType
<1> HIDE DEF r
<1>2. r[k].rest \in Bytes /\ Len(r[k].rest) \in Nat /\ Len(r[k].rest) > 0
  BY <1>1, EmptySeq, LenProperties DEF CollectState, Bytes, r
<1>3. Len(r[k].rest) + k <= Len(V)
  BY DecodeGoesOn DEF r
<1>4. m \in 1..Len(V) /\ m \in 0..Len(V) /\ m - 1 = k
  BY <1>1, <1>2, <1>3
<1> HIDE DEF m
<1>5. r[m] = CollectNext(r[k])
  BY <1>1, <1>4
<1> QED
  BY <1>1, <1>4, <1>5 DEF m, r

\* An event is over: the parser stands behind it, at the start of the next.
LEMMA Finished ==
  ASSUME NEW W \in Bytes, NEW o, NEW fin, NEW p, NEW g,
         Standing(W, o, fin, p, g), g.at = "done"
  PROVE  Standing(W, o + g.cur, Append(fin, Event(g)), g.pool, Start(g.pool))
<1>1. g.cur \in Nat /\ g \in GrammarState /\ g.pool \in Seq(Bytes)
  BY StandingType DEF GrammarState, GrammarRecord
<1> SUFFICES ASSUME NEW V \in Bytes, Longer(W, V)
             PROVE  Stands(V, o + g.cur, Append(fin, Event(g)), g.pool, Start(g.pool))
  BY DEF Standing
<1>2. Stands(V, o, fin, p, g)
  BY DEF Standing
<1> DEFINE S == From(V, o)
           r == DecodeSteps(V)
<1>3. /\ Len(V) \in Nat /\ o \in 0..Len(V) /\ p \in Seq(Bytes)
      /\ S \in Bytes /\ Len(S) = Len(V) - o /\ g.cur <= Len(V) - o
  BY <1>2, StandsType
<1>4. PICK k \in 0..Len(V) : r[k].rest = S /\ r[k].pool = p /\ r[k].events = fin /\ ~r[k].failed
  BY <1>2 DEF Stands
<1>5. OnRun(g, S, p)
  BY <1>2 DEF Stands
<1> HIDE DEF S, r
<1>6. g = Run(S, p)
  BY <1>3, <1>5, EndOfRun DEF Final
<1>7. g.cur >= 1
  BY <1>3, <1>6, RunEnds
<1>8. S # <<>>
  BY <1>1, <1>3, <1>7, EmptySeq
<1>9. k + 1 \in 0..Len(V) /\ r[k] \in CollectState /\ r[k + 1] = CollectNext(r[k])
  BY <1>4, <1>8, NextCall DEF r
<1> DEFINE t == CollectNext(r[k])
           o2 == o + g.cur
<1>10. /\ t.rest = SubSeq(S, g.cur + 1, Len(S)) /\ t.pool = g.pool
       /\ t.events = Append(fin, Event(g)) /\ ~t.failed
  BY <1>4, <1>6, <1>8, <1>9, CollectNextType
<1> HIDE DEF t
<1>11. o2 \in 0..Len(V)
  BY <1>1, <1>3
<1>12. SubSeq(S, g.cur + 1, Len(S)) = From(V, o2)
  <2>1. g.cur \in 0..(Len(V) - o)
    BY <1>1, <1>3
  <2> QED
    BY <1>3, <2>1, RestOfRest DEF From, S
<1> HIDE DEF o2
<1>13. OnRun(Start(g.pool), From(V, o2), g.pool)
  <2>1. From(V, o2) \in Bytes
    BY <1>11, RestType DEF From
  <2> QED
    BY <1>1, <2>1, StartOnRun
<1>14. \E j \in 0..Len(V) : LET s == r[j]
                             IN /\ s.rest = From(V, o2) /\ s.pool = g.pool
                                /\ s.events = Append(fin, Event(g)) /\ ~s.failed
  BY <1>9, <1>10, <1>12 DEF t
<1>15. Stands(V, o2, Append(fin, Event(g)), g.pool, Start(g.pool))
  BY <1>11, <1>13, <1>14 DEF Stands, r
<1> QED
  BY <1>15 DEF o2

\* What a parser makes of the bytes as they are, when they end before the primitive that
\* the grammar waits for: behind the last event nothing is missing, a start tag is over,
\* and any other event is an error.
LEMMA ReadAtEnd ==
  ASSUME NEW W \in Bytes, NEW o, NEW fin, NEW p, NEW g, Standing(W, o, fin, p, g),
         g.at \in Reading, Len(W) < o + g.cur + Wants(g)
  PROVE  LET s == Decode(W) IN
           /\ o = Len(W) => s.events = fin /\ s.rest = <<>> /\ s.pool = p /\ ~s.failed
           /\ g.at = "attrs" /\ g.cur >= 1 =>
                s.events = Append(fin, Event(g)) /\ s.rest = <<>> /\ s.pool = g.pool /\ ~s.failed
           /\ g.at # "attrs" => s.events = fin
<1> DEFINE S == From(W, o)
           r == DecodeSteps(W)
<1>1. /\ Stands(W, o, fin, p, g)
      /\ Len(W) \in Nat /\ o \in 0..Len(W) /\ p \in Seq(Bytes)
      /\ S \in Bytes /\ Len(S) = Len(W) - o
      /\ g \in GrammarState /\ g.cur \in Nat /\ g.cur <= Len(W) - o
  BY StandingType
<1>2. PICK k \in 0..Len(W) : r[k].rest = S /\ r[k].pool = p /\ r[k].events = fin /\ ~r[k].failed
  BY <1>1 DEF Stands
<1>3. OnRun(g, S, p)
  BY <1>1 DEF Stands
<1> HIDE DEF S, r
<1>4. CASE S = <<>>
  <2>1. r[k] = Decode(W)
    BY <1>2, <1>4, DecodeGoesOn DEF r
  <2>2. Len(S) = 0
    BY <1>4, EmptySeq
  <2>3. ~(g.cur >= 1)
    BY <1>1, <2>2
  <2> QED
    BY <1>2, <1>4, <2>1, <2>3
<1>5. CASE S # <<>>
  <2>1. Len(S) # 0
    BY <1>1, <1>5, EmptySeq DEF Bytes
  <2>2. o # Len(W)
    BY <1>1, <2>1
  <2>3. k + 1 \in 0..Len(W) /\ r[k] \in CollectState /\ r[k + 1] = CollectNext(r[k])
    BY <1>2, <1>5, NextCall DEF r
  <2> DEFINE h == Step(g, S, FALSE)
  <2>4. OnRun(h, S, p)
    BY <1>1, <1>3, StepOnRun
  <2>5. h = Short(g, Len(S) - g.cur, FALSE)
    <3>1. g.at \notin Final /\ Wants(g) \in Nat
      BY <1>1, WantsType DEF Reading, Final
    <3>2. Len(S) - g.cur < Wants(g)
      BY <1>1, <3>1
    <3> QED
      BY <3>1, <3>2 DEF Step
  <2> HIDE DEF h
  <2>6. CASE g.at = "attrs"
    <3>1. h = [g EXCEPT !.at = "done"]
      BY <2>5, <2>6 DEF Short
    <3>2. /\ h.at = "done" /\ h.cur = g.cur /\ h.pool = g.pool /\ Event(h) = Event(g)
      BY <1>1, <3>1 DEF GrammarState, GrammarRecord, Event
    <3>3. h = Run(S, p)
      BY <1>1, <2>4, <3>2, EndOfRun DEF Final
    <3> DEFINE t == CollectNext(r[k])
    <3>4. /\ t.rest = SubSeq(S, g.cur + 1, Len(S)) /\ t.pool = g.pool
          /\ t.events = Append(fin, Event(g)) /\ ~t.failed
      BY <1>2, <1>5, <2>3, <3>2, <3>3, CollectNextType
    <3> HIDE DEF t
    <3>5. t.rest = <<>>
      <4>1. Wants(g) = 1
        BY <2>6 DEF Wants
      <4>2. Len(S) < g.cur + 1 /\ g.cur + 1 \in Int /\ Len(S) \in Int
        BY <1>1, <4>1
      <4> QED
        BY <3>4, <4>2, SubSeqEmpty
    <3>6. r[k + 1] = Decode(W)
      BY <2>3, <3>5, DecodeGoesOn DEF r, t
    <3> QED
      BY <2>2, <2>3, <2>6, <3>4, <3>5, <3>6 DEF t
  <2>7. CASE g.at # "attrs"
    <3>1. \E kind : h = Fail(g, kind, 0)
      BY <2>5, <2>7 DEF Short
    <3>2. h.at = "failed"
      BY <1>1, <3>1 DEF Fail, GrammarState, GrammarRecord
    <3>3. h = Run(S, p)
      BY <1>1, <2>4, <3>2, EndOfRun DEF Final
    <3> DEFINE t == CollectNext(r[k])
    <3>4. t.failed /\ t.events = fin
      BY <1>2, <1>5, <2>3, <3>2, <3>3, CollectNextType
    <3> HIDE DEF t
    <3>5. r[k + 1] = Decode(W)
      BY <2>3, <3>4, DecodeGoesOn DEF r, t
    <3> QED
      BY <2>2, <2>3, <2>7, <3>4, <3>5 DEF t
  <2> QED
    BY <2>6, <2>7
<1> QED
  BY <1>4, <1>5

-----------------------------------------------------------------------------
(***************************************************************************)
(* Lists of operations.                                                    *)
(***************************************************************************)
Then(x, ops) == <<x>> \o ops

LEMMA ThenFacts ==
  ASSUME NEW x \in Operation, NEW t \in Seq(Operation)
  PROVE  /\ Then(x, t) \in Seq(Operation) /\ Then(x, t) # <<>>
         /\ Head(Then(x, t)) = x /\ Tail(Then(x, t)) = t
<1> DEFINE u == <<x>> \o t
<1>1. <<x>> \in Seq(Operation) /\ Len(<<x>>) = 1 /\ <<x>>[1] = x /\ Len(t) \in Nat
  BY LenProperties
<1>2. /\ u \in Seq(Operation) /\ Len(u) = 1 + Len(t)
      /\ \A i \in 1..(1 + Len(t)) : u[i] = IF i <= 1 THEN <<x>>[i] ELSE t[i - 1]
  BY <1>1, ConcatProperties
<1> HIDE DEF u
<1>3. u # <<>> /\ u[1] = x
  <2>1. Len(u) # 0 /\ 1 \in 1..(1 + Len(t))
    BY <1>1, <1>2
  <2> QED
    BY <1>1, <1>2, <2>1, EmptySeq
<1>4. /\ Tail(u) \in Seq(Operation) /\ Len(Tail(u)) = Len(u) - 1
      /\ \A i \in 1..Len(Tail(u)) : Tail(u)[i] = u[i + 1]
  BY <1>2, <1>3, HeadTailProperties
<1>5. Len(Tail(u)) = Len(t)
  BY <1>1, <1>2, <1>4
<1>6. ASSUME NEW i \in 1..Len(Tail(u)) PROVE Tail(u)[i] = t[i]
  <2> DEFINE j == i + 1
  <2>1. j \in 1..(1 + Len(t)) /\ ~(j <= 1) /\ j - 1 = i
    BY <1>1, <1>5
  <2> HIDE DEF j
  <2>2. u[j] = t[i]
    BY <1>2, <2>1
  <2>3. Tail(u)[i] = u[j]
    BY <1>4 DEF j
  <2> QED
    BY <2>2, <2>3
<1>7. Tail(u) = t
  BY <1>4, <1>5, <1>6, SeqEqual
<1>8. Head(u) = x
  BY <1>2, <1>3
<1> QED
  BY <1>2, <1>3, <1>7, <1>8 DEF Then, u

\* Two or three operations in front of others, and a list in front of a list.
LEMMA ThenJoins ==
  ASSUME NEW x \in Operation, NEW t \in Seq(Operation), NEW u \in Seq(Operation)
  PROVE  /\ <<x>> \o t = Then(x, t)
         /\ Then(x, t) \o u = Then(x, t \o u)
         /\ t \o u \in Seq(Operation)
         /\ <<>> \o t = t /\ t \o <<>> = t
<1>1. <<x>> \in Seq(Operation)
  OBVIOUS
<1>2. (<<x>> \o t) \o u = <<x>> \o (t \o u)
  BY <1>1, ConcatAssociative
<1> QED
  BY <1>2, ConcatProperties, ConcatEmptySeq DEF Then

LEMMA TwoThen ==
  ASSUME NEW x \in Operation, NEW y \in Operation, NEW t \in Seq(Operation)
  PROVE  <<x, y>> \o t = Then(x, Then(y, t))
<1>1. <<x>> \in Seq(Operation) /\ <<y>> \in Seq(Operation)
  OBVIOUS
<1>2. <<x, y>> = <<x>> \o <<y>>
  <2> DEFINE p == <<x>> \o <<y>>
  <2>1. /\ p \in Seq(Operation) /\ Len(p) = Len(<<x>>) + Len(<<y>>)
        /\ \A i \in 1..(Len(<<x>>) + Len(<<y>>)) :
             p[i] = IF i <= Len(<<x>>) THEN <<x>>[i] ELSE <<y>>[i - Len(<<x>>)]
    BY <1>1, ConcatProperties
  <2> HIDE DEF p
  <2>2. Len(p) = 2 /\ p[1] = x /\ p[2] = y
    BY <2>1
  <2>3. <<x, y>> \in Seq(Operation) /\ Len(<<x, y>>) = 2 /\ <<x, y>>[1] = x /\ <<x, y>>[2] = y
    OBVIOUS
  <2>4. \A i \in 1..2 : i = 1 \/ i = 2
    OBVIOUS
  <2>5. \A i \in 1..Len(<<x, y>>) : <<x, y>>[i] = p[i]
    BY <2>2, <2>3, <2>4
  <2>6. <<x, y>> = p
    BY <2>1, <2>2, <2>3, <2>5, SeqEqual
  <2> QED
    BY <2>6 DEF p
<1>3. (<<x>> \o <<y>>) \o t = <<x>> \o (<<y>> \o t)
  BY <1>1, ConcatAssociative
<1> QED
  BY <1>2, <1>3 DEF Then

LEMMA ThreeThen ==
  ASSUME NEW x \in Operation, NEW y \in Operation, NEW z \in Operation, NEW t \in Seq(Operation)
  PROVE  <<x, y, z>> \o t = Then(x, Then(y, Then(z, t)))
<1>1. <<x, y>> \in Seq(Operation) /\ <<z>> \in Seq(Operation)
  OBVIOUS
<1>2. <<x, y, z>> = <<x, y>> \o <<z>>
  <2> DEFINE p == <<x, y>> \o <<z>>
             w == <<x, y, z>>
  <2>1. /\ p \in Seq(Operation) /\ Len(p) = Len(<<x, y>>) + Len(<<z>>)
        /\ \A i \in 1..(Len(<<x, y>>) + Len(<<z>>)) :
             p[i] = IF i <= Len(<<x, y>>) THEN <<x, y>>[i] ELSE <<z>>[i - Len(<<x, y>>)]
    BY <1>1, ConcatProperties
  <2> HIDE DEF p
  <2>2. Len(p) = 3 /\ p[1] = x /\ p[2] = y /\ p[3] = z
    BY <2>1
  <2>3. w \in Seq(Operation) /\ Len(w) = 3 /\ w[1] = x /\ w[2] = y /\ w[3] = z
    OBVIOUS
  <2> HIDE DEF w
  <2>4. \A i \in 1..3 : i = 1 \/ i = 2 \/ i = 3
    OBVIOUS
  <2>5. \A i \in 1..Len(w) : w[i] = p[i]
    BY <2>2, <2>3, <2>4
  <2>6. w = p
    BY <2>1, <2>2, <2>3, <2>5, SeqEqual
  <2> QED
    BY <2>6 DEF p, w
<1>3. (<<x, y>> \o <<z>>) \o t = <<x, y>> \o (<<z>> \o t)
  BY <1>1, ConcatAssociative
<1>4. <<z>> \o t \in Seq(Operation)
  BY <1>1, ConcatProperties
<1>5. <<x, y>> \o (<<z>> \o t) = Then(x, Then(y, <<z>> \o t))
  BY <1>4, TwoThen
<1> QED
  BY <1>2, <1>3, <1>5 DEF Then

\* A field reads back as the number it was written for.
LEMMA FieldReadsBack ==
  ASSUME NEW n \in 0..INTERNED_NEW
  PROVE  /\ U16Bytes(n) \in Bytes /\ Len(U16Bytes(n)) = 2
         /\ U16(U16Bytes(n)[1], U16Bytes(n)[2]) = n
<1> DEFINE R == Radix
           q == n \div R
           m == n % R
<1>1. R \in Nat /\ R >= 2 /\ INTERNED_NEW \in Nat /\ n \in Nat
  BY RadixAssumption, FieldBytes
<1>2. n <= (R * R) - 1
  BY DEF INTERNED_NEW
<1>3. q \in Nat /\ m \in 0..(R - 1) /\ n = R * q + m
  BY <1>1
<1> HIDE DEF q, m
<1>4. q < R
  <2> SUFFICES ASSUME q >= R PROVE FALSE
    BY <1>1, <1>3
  <2>1. R * q >= R * R
    BY <1>1, <1>3
  <2>2. R * q \in Nat /\ R * R \in Nat
    BY <1>1, <1>3
  <2> QED
    BY <1>2, <1>3, <2>1, <2>2
<1>5. q % R = q /\ m % R = m
  BY <1>1, <1>3, <1>4
<1>6. U16Bytes(n) = <<q, m>>
  BY <1>5 DEF U16Bytes, q, m
<1>7. U16(q, m) = q * R + m
  BY <1>5 DEF U16
<1>8. q * R + m = n
  BY <1>1, <1>3
<1>9. U16Bytes(n) \in Bytes
  BY <1>1, FieldBytes
<1> QED
  BY <1>6, <1>7, <1>8, <1>9

-----------------------------------------------------------------------------
(***************************************************************************)
(* What is still to be written of an event: its attributes from the j+1st  *)
(* on, and the value of one.                                               *)
(***************************************************************************)
AttrsLeft(e, j) == [i \in 1..(Len(e.attributes) - j) |-> AttributeOp(e.attributes[j + i])]

ValueOps(a) == IF a.type \in NoBytesTypes THEN <<>>
               ELSE IF a.type \in BlobTypes \cup {TYPE_STRING} THEN <<Blob(a.value)>>
               ELSE <<Raw(a.value)>>

AttrToken(a) == Raw(<<a.type + CMD_ATTRIBUTE>>)

LEMMA EventFields ==
  ASSUME NEW e \in AnyEvent
  PROVE  /\ e.command \in CMD_START_DOCUMENT..CMD_DOCDECL /\ e.text \in Bytes
         /\ e.attributes \in Seq(Attribute) /\ Len(e.attributes) \in Nat
         /\ \A i \in 1..Len(e.attributes) :
              /\ e.attributes[i] \in Attribute /\ e.attributes[i].type \in ValueTypes
              /\ e.attributes[i].name \in Bytes /\ e.attributes[i].value \in Bytes
<1>1. e.attributes \in Seq(Attribute)
  BY DEF AnyEvent
<1>2. Len(e.attributes) \in Nat /\ \A i \in 1..Len(e.attributes) : e.attributes[i] \in Attribute
  BY <1>1, LenProperties, ElementOfSeq
<1> QED
  BY <1>1, <1>2 DEF AnyEvent, Attribute

LEMMA AttrsLeftFacts ==
  ASSUME NEW e \in AnyEvent, NEW j \in 0..Len(e.attributes)
  PROVE  /\ AttrsLeft(e, j) \in Seq(Operation)
         /\ j = Len(e.attributes) <=> AttrsLeft(e, j) = <<>>
         /\ j < Len(e.attributes) =>
              /\ AttributeOp(e.attributes[j + 1]) \in Operation
              /\ AttrsLeft(e, j) = Then(AttributeOp(e.attributes[j + 1]), AttrsLeft(e, j + 1))
<1> DEFINE n == Len(e.attributes)
<1>1. n \in Nat /\ \A i \in 1..n : e.attributes[i] \in Attribute
  BY EventFields
<1>2. \A a \in Attribute : AttributeOp(a) \in Operation
  BY DEF AttributeOp, Operation
<1> HIDE DEF n
<1>3. ASSUME NEW k \in 0..n
      PROVE  /\ AttrsLeft(e, k) \in Seq(Operation) /\ Len(AttrsLeft(e, k)) = n - k
             /\ \A i \in 1..(n - k) : AttrsLeft(e, k)[i] = AttributeOp(e.attributes[k + i])
  <2> DEFINE f == [i \in 1..(n - k) |-> AttributeOp(e.attributes[k + i])]
  <2>1. f = AttrsLeft(e, k)
    BY DEF AttrsLeft, n
  <2>2. n - k \in Nat /\ \A i \in 1..(n - k) : k + i \in 1..n
    BY <1>1
  <2>3. f \in [1..(n - k) -> Operation]
    BY <1>1, <1>2, <2>2
  <2>4. \A i \in 1..(n - k) : f[i] = AttributeOp(e.attributes[k + i])
    OBVIOUS
  <2> HIDE DEF f
  <2>5. f \in Seq(Operation) /\ Len(f) = n - k
    <3>1. f \in Seq(Operation)
      BY <2>2, <2>3, SeqDef
    <3>2. DOMAIN f = 1..(n - k) /\ DOMAIN f = 1..Len(f) /\ Len(f) \in Nat
      BY <2>3, <3>1, LenProperties
    <3> QED
      BY <2>2, <3>1, <3>2
  <2> QED
    BY <2>1, <2>4, <2>5
<1>4. j \in 0..n
  BY DEF n
<1>5. j = n <=> AttrsLeft(e, j) = <<>>
  <2>1. AttrsLeft(e, j) \in Seq(Operation) /\ Len(AttrsLeft(e, j)) = n - j
    BY <1>3, <1>4
  <2>2. Len(AttrsLeft(e, j)) = 0 <=> AttrsLeft(e, j) = <<>>
    BY <2>1, EmptySeq
  <2> QED
    BY <1>1, <1>4, <2>1, <2>2
<1>6. ASSUME j < n
      PROVE  /\ AttributeOp(e.attributes[j + 1]) \in Operation
             /\ AttrsLeft(e, j) = Then(AttributeOp(e.attributes[j + 1]), AttrsLeft(e, j + 1))
  <2> DEFINE x == AttributeOp(e.attributes[j + 1])
             t == AttrsLeft(e, j + 1)
             u == <<x>> \o t
  <2>1. j + 1 \in 0..n /\ j + 1 \in 1..n /\ n - (j + 1) \in Nat
    BY <1>1, <1>4, <1>6
  <2>2. x \in Operation
    BY <1>1, <1>2, <2>1
  <2>3. /\ t \in Seq(Operation) /\ Len(t) = n - (j + 1)
        /\ \A i \in 1..(n - (j + 1)) : t[i] = AttributeOp(e.attributes[(j + 1) + i])
    BY <1>3, <2>1
  <2> HIDE DEF x, t
  <2>4. /\ <<x>> \in Seq(Operation) /\ Len(<<x>>) = 1 /\ <<x>>[1] = x
    BY <2>2
  <2>5. /\ u \in Seq(Operation) /\ Len(u) = 1 + Len(t)
        /\ \A i \in 1..(1 + Len(t)) : u[i] = IF i <= 1 THEN <<x>>[i] ELSE t[i - 1]
    BY <2>3, <2>4, ConcatProperties
  <2> HIDE DEF u
  <2>6. Len(u) = n - j
    BY <1>1, <1>4, <2>3, <2>5
  <2>7. ASSUME NEW i \in 1..(n - j) PROVE u[i] = AttributeOp(e.attributes[j + i])
    <3>1. CASE i = 1
      BY <1>1, <1>4, <2>4, <2>5, <2>6, <3>1 DEF x
    <3>2. CASE i # 1
      <4> DEFINE k == i - 1
      <4>1. k \in 1..(n - (j + 1)) /\ (j + 1) + k = j + i /\ ~(i <= 1) /\ i \in 1..(1 + Len(t))
        BY <1>1, <1>4, <2>3, <3>2
      <4>2. u[i] = t[k]
        BY <2>5, <4>1
      <4> HIDE DEF k
      <4>3. t[k] = AttributeOp(e.attributes[(j + 1) + k])
        BY <2>3, <4>1
      <4> QED
        BY <4>1, <4>2, <4>3
    <3> QED
      BY <3>1, <3>2
  <2>8. u = AttrsLeft(e, j)
    BY <1>3, <1>4, <2>5, <2>6, <2>7, SeqEqual
  <2> QED
    BY <2>2, <2>8 DEF Then, u, x, t
<1> QED
  BY <1>3, <1>4, <1>5, <1>6 DEF n

\* write_attribute, put in front of other operations.
LEMMA AttributeSplit ==
  ASSUME NEW a \in Attribute, NEW t \in Seq(Operation)
  PROVE  /\ AttrToken(a) \in Operation /\ Name(a.name) \in Operation
         /\ ValueOps(a) \in Seq(Operation) /\ ValueOps(a) \o t \in Seq(Operation)
         /\ AttributeOps(a) \o t = Then(AttrToken(a), Then(Name(a.name), ValueOps(a) \o t))
         /\ a.type \in NoBytesTypes => ValueOps(a) \o t = t
         /\ a.type \in StringType =>
              Blob(a.value) \in Operation /\ ValueOps(a) \o t = Then(Blob(a.value), t)
         /\ a.type \in FourByteTypes \cup EightByteTypes =>
              Raw(a.value) \in Operation /\ ValueOps(a) \o t = Then(Raw(a.value), t)
<1>1. a.type \in ValueTypes /\ a.name \in Bytes /\ a.value \in Bytes
  BY DEF Attribute
<1>2. AttrToken(a) \in Operation /\ Name(a.name) \in Operation
  <2>1. <<a.type + CMD_ATTRIBUTE>> \in Bytes
    BY <1>1, TokenBytes, OneByte
  <2> QED
    BY <1>1, <2>1, OperationTypes DEF AttrToken
<1>3. Raw(a.value) \in Operation /\ Blob(a.value) \in Operation
  BY <1>1, OperationTypes
<1>4. ValueOps(a) \in Seq(Operation)
  BY <1>3 DEF ValueOps
<1>5. ValueOps(a) \o t \in Seq(Operation)
  BY <1>4, ConcatProperties
<1>6. AttributeOps(a) \o t = Then(AttrToken(a), Then(Name(a.name), ValueOps(a) \o t))
  <2> DEFINE s == <<AttrToken(a), Name(a.name)>>
  <2>1. AttributeOps(a) = s \o ValueOps(a)
    BY DEF AttributeOps, ValueOps, AttrToken
  <2>2. s \in Seq(Operation)
    BY <1>2
  <2>3. (s \o ValueOps(a)) \o t = s \o (ValueOps(a) \o t)
    BY <1>4, <2>2, ConcatAssociative
  <2> QED
    BY <1>2, <1>5, <2>1, <2>3, TwoThen
<1>7. a.type \in NoBytesTypes => ValueOps(a) \o t = t
  BY <1>1, ConcatEmptySeq DEF ValueOps
<1>8. a.type \in StringType => ValueOps(a) \o t = Then(Blob(a.value), t)
  BY TypesAreDistinct DEF ValueOps, Then, StringType
<1>9. a.type \in FourByteTypes \cup EightByteTypes => ValueOps(a) \o t = Then(Raw(a.value), t)
  BY TypesAreDistinct DEF ValueOps, Then, StringType
<1> QED
  BY <1>2, <1>3, <1>4, <1>5, <1>6, <1>7, <1>8, <1>9

\* The byte that an event starts with, and what is written behind it.
EventToken(e) == CASE e.command = CMD_START_TAG -> TYPE_STRING_INTERNED + CMD_START_TAG
                   [] e.command = CMD_END_TAG   -> TYPE_STRING_INTERNED + CMD_END_TAG
                   [] e.command \in TextCommands -> TYPE_STRING + e.command
                   [] OTHER                     -> e.command + TYPE_NULL

EventRest(e) == CASE e.command = CMD_START_TAG -> Then(Name(e.text), AttrsLeft(e, 0))
                  [] e.command = CMD_END_TAG   -> Then(Name(e.text), <<>>)
                  [] e.command \in TextCommands -> Then(Blob(e.text), <<>>)
                  [] OTHER                     -> <<>>

LEMMA CommandsDiffer ==
  ASSUME NEW c
  PROVE  /\ c = CMD_START_TAG => c # CMD_END_TAG /\ c \notin TextCommands
         /\ c = CMD_END_TAG => c # CMD_START_TAG /\ c \notin TextCommands
         /\ c \in TextCommands => c # CMD_START_TAG /\ c # CMD_END_TAG
         /\ c \in {CMD_START_DOCUMENT, CMD_END_DOCUMENT} =>
              c # CMD_START_TAG /\ c # CMD_END_TAG /\ c \notin TextCommands
BY DEF TextCommands, CMD_START_DOCUMENT, CMD_END_DOCUMENT, CMD_START_TAG, CMD_END_TAG, CMD_TEXT,
       CMD_DOCDECL

LEMMA EventSplit ==
  ASSUME NEW e \in AnyEvent
  PROVE  /\ EventToken(e) \in Byte
         /\ Raw(<<EventToken(e)>>) \in Operation /\ EventRest(e) \in Seq(Operation)
         /\ Name(e.text) \in Operation /\ Blob(e.text) \in Operation
         /\ EventOps(e) = Then(Raw(<<EventToken(e)>>), EventRest(e))
<1>1. /\ e.command \in CMD_START_DOCUMENT..CMD_DOCDECL /\ e.text \in Bytes
      /\ e.attributes \in Seq(Attribute) /\ Len(e.attributes) \in Nat
  BY EventFields
<1>2. EventToken(e) \in Byte
  BY <1>1, TokenBytes DEF EventToken
<1>3. /\ Raw(<<EventToken(e)>>) \in Operation /\ Name(e.text) \in Operation /\ Blob(e.text) \in Operation
  BY <1>1, <1>2, OneByte, OperationTypes
<1>4. <<>> \in Seq(Operation)
  OBVIOUS
<1>5. CASE e.command = CMD_START_TAG
  <2> DEFINE as == [i \in DOMAIN e.attributes |-> AttributeOp(e.attributes[i])]
  <2>1. AttrsLeft(e, 0) \in Seq(Operation)
    BY <1>1, AttrsLeftFacts
  <2>2. as = AttrsLeft(e, 0)
    <3>1. DOMAIN e.attributes = 1..(Len(e.attributes) - 0)
      BY <1>1, LenProperties
    <3>2. \A i \in 1..(Len(e.attributes) - 0) : e.attributes[0 + i] = e.attributes[i]
      BY <1>1
    <3> QED
      BY <3>1, <3>2 DEF AttrsLeft
  <2> HIDE DEF as
  <2>3. EventOps(e) = <<Raw(<<EventToken(e)>>), Name(e.text)>> \o as
    <3>1. EventOps(e) = StartTagOps(e) /\ EventToken(e) = TYPE_STRING_INTERNED + CMD_START_TAG
      BY <1>5, CommandsDiffer DEF EventOps, EventToken
    <3> QED
      BY <3>1 DEF StartTagOps, as
  <2>4. EventRest(e) = Then(Name(e.text), as)
    BY <1>5, <2>2, CommandsDiffer DEF EventRest
  <2>5. EventRest(e) \in Seq(Operation)
    BY <1>3, <2>1, <2>2, <2>4, ThenFacts
  <2>6. EventOps(e) = Then(Raw(<<EventToken(e)>>), EventRest(e))
    <3> DEFINE x == Raw(<<EventToken(e)>>)
               y == Name(e.text)
    <3>1. x \in Operation /\ y \in Operation
      BY <1>3
    <3> HIDE DEF x, y
    <3>2. <<x, y>> \o as = Then(x, Then(y, as))
      BY <3>1, <2>1, <2>2, TwoThen
    <3> QED
      BY <3>2, <2>4, <2>3 DEF x, y
  <2> QED
    BY <1>2, <1>3, <2>5, <2>6
<1>6. CASE e.command = CMD_END_TAG
  <2>1. EventOps(e) = <<Raw(<<EventToken(e)>>), Name(e.text)>>
    BY <1>6, CommandsDiffer DEF EventOps, EndTagOps, EventToken
  <2>2. EventRest(e) = Then(Name(e.text), <<>>)
    BY <1>6, CommandsDiffer DEF EventRest
  <2>3. <<Raw(<<EventToken(e)>>), Name(e.text)>> \in Seq(Operation)
    BY <1>3
  <2>4. EventOps(e) = <<Raw(<<EventToken(e)>>), Name(e.text)>> \o <<>>
    BY <2>1, <2>3, ConcatEmptySeq
  <2>5. EventRest(e) \in Seq(Operation)
    BY <1>3, <1>4, <2>2, ThenFacts
  <2>6. EventOps(e) = Then(Raw(<<EventToken(e)>>), EventRest(e))
    <3> DEFINE x == Raw(<<EventToken(e)>>)
               y == Name(e.text)
    <3>1. x \in Operation /\ y \in Operation
      BY <1>3
    <3> HIDE DEF x, y
    <3>2. <<x, y>> \o <<>> = Then(x, Then(y, <<>>))
      BY <3>1, <1>4, TwoThen
    <3> QED
      BY <3>2, <2>2, <2>4 DEF x, y
  <2> QED
    BY <1>2, <1>3, <2>5, <2>6
<1>7. CASE e.command \in TextCommands
  <2>0. e.command # CMD_START_TAG /\ e.command # CMD_END_TAG
    BY <1>7 DEF TextCommands, CMD_START_TAG, CMD_END_TAG, CMD_TEXT, CMD_DOCDECL
  <2>1. EventOps(e) = <<Raw(<<EventToken(e)>>), Blob(e.text)>>
    BY <1>7, <2>0 DEF EventOps, TextOps, EventToken
  <2>2. EventRest(e) = Then(Blob(e.text), <<>>)
    BY <1>7, <2>0 DEF EventRest
  <2>3. <<Raw(<<EventToken(e)>>), Blob(e.text)>> \in Seq(Operation)
    BY <1>3
  <2>4. EventOps(e) = <<Raw(<<EventToken(e)>>), Blob(e.text)>> \o <<>>
    BY <2>1, <2>3, ConcatEmptySeq
  <2>5. EventRest(e) \in Seq(Operation)
    BY <1>3, <1>4, <2>2, ThenFacts
  <2>6. EventOps(e) = Then(Raw(<<EventToken(e)>>), EventRest(e))
    <3> DEFINE x == Raw(<<EventToken(e)>>)
               y == Blob(e.text)
    <3>1. x \in Operation /\ y \in Operation
      BY <1>3
    <3> HIDE DEF x, y
    <3>2. <<x, y>> \o <<>> = Then(x, Then(y, <<>>))
      BY <3>1, <1>4, TwoThen
    <3> QED
      BY <3>2, <2>2, <2>4 DEF x, y
  <2> QED
    BY <1>2, <1>3, <2>5, <2>6
<1>8. CASE e.command \notin {CMD_START_TAG, CMD_END_TAG} \cup TextCommands
  <2>1. EventOps(e) = <<Raw(<<EventToken(e)>>)>>
    BY <1>8 DEF EventOps, DocumentOps, EventToken
  <2>2. EventRest(e) = <<>>
    BY <1>8 DEF EventRest
  <2>3. <<Raw(<<EventToken(e)>>)>> \in Seq(Operation)
    BY <1>3
  <2>4. EventOps(e) = <<Raw(<<EventToken(e)>>)>> \o <<>>
    BY <2>1, <2>3, ConcatEmptySeq
  <2> QED
    BY <1>2, <1>3, <1>4, <2>2, <2>4 DEF Then
<1> QED
  BY <1>5, <1>6, <1>7, <1>8

-----------------------------------------------------------------------------
(***************************************************************************)
(* Where the grammar is in an event e that is being written, and what the  *)
(* writer has left to do there, ops, with the names ns in the pools.       *)
(***************************************************************************)
\* The attribute the grammar reads.
NextOf(g, e) == e.attributes[Len(g.attributes) + 1]

\* The string or number it reads, and what is to be written behind that.
Str(g, e) == IF g.slot = "name" THEN NextOf(g, e).name
             ELSE IF g.slot = "value" THEN NextOf(g, e).value
             ELSE e.text

Behind(g, e) == IF g.slot = "name" THEN ValueOps(NextOf(g, e)) \o AttrsLeft(e, Len(g.attributes) + 1)
                ELSE IF g.slot = "value" THEN AttrsLeft(e, Len(g.attributes) + 1)
                ELSE IF g.slot = "tag" THEN AttrsLeft(e, 0)
                ELSE <<>>

\* It reads a string or a number of e, having read all in front of it.
InString(g, e) ==
  /\ g.command = e.command
  /\ g.slot = "tag"  => e.command = CMD_START_TAG /\ g.attributes = <<>>
  /\ g.slot = "end"  => e.command = CMD_END_TAG /\ g.attributes = <<>>
  /\ g.slot = "text" => e.command \in TextCommands /\ g.attributes = <<>>
  /\ g.slot \in {"name", "value"} =>
       /\ e.command = CMD_START_TAG /\ g.text = e.text /\ Longer(g.attributes, e.attributes)
       /\ Len(g.attributes) < Len(e.attributes) /\ g.type = NextOf(g, e).type
  /\ g.slot = "value" => g.name = NextOf(g, e).name /\ g.type \notin NoBytesTypes

\* It reads the attributes of e.
InTag(g, e) ==
  /\ g.command = e.command /\ e.command = CMD_START_TAG
  /\ g.text = e.text /\ Longer(g.attributes, e.attributes)

\* With a new name goes its entry in the pool.
Behind2(g, e) == IF g.interning THEN Then(Cache(Str(g, e)), Behind(g, e)) ELSE Behind(g, e)

StringSlot(g) == g.slot = "value" => g.type \in StringType /\ ~g.interning

IndexForm(g, e, ops, ns) ==
  /\ g.at = "index" /\ InString(g, e) /\ g.slot \in {"tag", "end", "name"}
  /\ \/ ops = Then(Name(Str(g, e)), Behind(g, e))
     \/ ops = Then(Raw(U16Bytes(INTERNED_NEW)),
                   Then(Blob(Str(g, e)), Then(Cache(Str(g, e)), Behind(g, e))))
     \/ \E i \in 1..Len(ns) : ns[i] = Str(g, e) /\ ops = Then(Raw(U16Bytes(i - 1)), Behind(g, e))

LengthForm(g, e, ops) ==
  /\ g.at = "length" /\ InString(g, e) /\ StringSlot(g)
  /\ \/ ops = Then(Blob(Str(g, e)), Behind2(g, e))
     \/ /\ Len(Str(g, e)) <= MAX_UNSIGNED_SHORT
        /\ ops = Then(Raw(U16Bytes(Len(Str(g, e)))), Then(Raw(Str(g, e)), Behind2(g, e)))

PayloadForm(g, e, ops) ==
  /\ g.at = "payload" /\ InString(g, e) /\ StringSlot(g) /\ g.size = Len(Str(g, e))
  /\ ops = Then(Raw(Str(g, e)), Behind2(g, e))

ScalarForm(g, e, ops) ==
  /\ g.at = "scalar" /\ InString(g, e) /\ g.slot = "value" /\ g.size = Len(Str(g, e))
  /\ g.type \in FourByteTypes \cup EightByteTypes
  /\ ops = Then(Raw(Str(g, e)), Behind(g, e))

AttrsForm(g, e, ops) ==
  /\ g.at = "attrs" /\ InTag(g, e)
  /\ \/ ops = AttrsLeft(e, Len(g.attributes))
     \/ /\ Len(g.attributes) < Len(e.attributes)
        /\ ops = AttributeOps(NextOf(g, e)) \o AttrsLeft(e, Len(g.attributes) + 1)

Form(g, e, ops, ns) == \/ IndexForm(g, e, ops, ns) \/ LengthForm(g, e, ops)
                       \/ PayloadForm(g, e, ops) \/ ScalarForm(g, e, ops) \/ AttrsForm(g, e, ops)

LEMMA GrammarFields ==
  ASSUME NEW g \in GrammarState
  PROVE  /\ g.cur \in Nat /\ g.pool \in Seq(Bytes) /\ Len(g.pool) \in Nat
         /\ g.attributes \in Seq(Attribute) /\ Len(g.attributes) \in Nat
         /\ g.slot \in Slots /\ g.interning \in BOOLEAN /\ g.type \in Byte
BY LenProperties DEF GrammarState, GrammarRecord

\* The string and what is behind it are such.
LEMMA StringTypes ==
  ASSUME NEW g \in GrammarState, NEW e \in AnyEvent, WellTyped(e), InString(g, e)
  PROVE  /\ Str(g, e) \in Bytes /\ Len(Str(g, e)) \in Nat
         /\ Behind(g, e) \in Seq(Operation) /\ Behind2(g, e) \in Seq(Operation)
         /\ Name(Str(g, e)) \in Operation /\ Raw(Str(g, e)) \in Operation
         /\ Blob(Str(g, e)) \in Operation /\ Cache(Str(g, e)) \in Operation
         /\ g.slot # "value" => Utf8(Str(g, e))
         /\ g.slot = "value" /\ g.type = TYPE_STRING => Utf8(Str(g, e))
<1> DEFINE k == Len(g.attributes)
           a == NextOf(g, e)
<1>1. /\ e.text \in Bytes /\ Len(e.attributes) \in Nat
      /\ \A i \in 1..Len(e.attributes) :
              /\ e.attributes[i] \in Attribute
              /\ e.attributes[i].name \in Bytes /\ e.attributes[i].value \in Bytes
  BY EventFields
<1>2. k \in Nat
  BY GrammarFields
<1>3. AttrsLeft(e, 0) \in Seq(Operation)
  BY <1>1, AttrsLeftFacts
<1>4. ASSUME g.slot \in {"name", "value"}
      PROVE  /\ k + 1 \in 1..Len(e.attributes) /\ k + 1 \in 0..Len(e.attributes)
             /\ a \in Attribute /\ a.name \in Bytes /\ a.value \in Bytes
             /\ AttrsLeft(e, k + 1) \in Seq(Operation)
  <2>1. k < Len(e.attributes)
    BY <1>4 DEF InString
  <2>2. k + 1 \in 1..Len(e.attributes) /\ k + 1 \in 0..Len(e.attributes)
    BY <1>1, <1>2, <2>1
  <2>3. AttrsLeft(e, k + 1) \in Seq(Operation)
    BY <2>2, AttrsLeftFacts
  <2> QED
    BY <1>1, <2>2, <2>3 DEF NextOf
<1>5. Str(g, e) \in Bytes
  BY <1>1, <1>4 DEF Str
<1>6. Len(Str(g, e)) \in Nat
  BY <1>5, LenProperties DEF Bytes
<1>7. Behind(g, e) \in Seq(Operation)
  <2>1. CASE g.slot = "name"
    <3>1. ValueOps(a) \o AttrsLeft(e, k + 1) \in Seq(Operation)
      BY <1>4, <2>1, AttributeSplit
    <3> QED
      BY <2>1, <3>1 DEF Behind
  <2>2. CASE g.slot = "value"
    BY <1>4, <2>2 DEF Behind
  <2>3. CASE g.slot \notin {"name", "value"}
    BY <1>3, <2>3 DEF Behind
  <2> QED
    BY <2>1, <2>2, <2>3
<1>8. /\ Name(Str(g, e)) \in Operation /\ Raw(Str(g, e)) \in Operation
      /\ Blob(Str(g, e)) \in Operation /\ Cache(Str(g, e)) \in Operation
  BY <1>5, OperationTypes
<1>9. Behind2(g, e) \in Seq(Operation)
  BY <1>7, <1>8, ThenFacts DEF Behind2
<1>10. Utf8(e.text) /\ \A i \in 1..Len(e.attributes) :
         /\ Utf8(e.attributes[i].name)
         /\ e.attributes[i].type = TYPE_STRING => Utf8(e.attributes[i].value)
  BY DEF WellTyped, ValueTyped
<1>11. g.slot # "value" => Utf8(Str(g, e))
  BY <1>4, <1>10 DEF Str, NextOf
<1>12. g.slot = "value" /\ g.type = TYPE_STRING => Utf8(Str(g, e))
  BY <1>4, <1>10 DEF Str, NextOf, InString
<1> QED
  BY <1>5, <1>6, <1>7, <1>8, <1>9, <1>11, <1>12

\* The attribute that the grammar reads joins those it has read.
LEMMA Pushed ==
  ASSUME NEW h \in GrammarState, NEW e \in AnyEvent, WellTyped(e),
         h.slot \in {"name", "value"}, InString(h, e), h.name = NextOf(h, e).name
  PROVE  LET n == PushAttribute(h, NextOf(h, e).type, NextOf(h, e).value)
         IN AttrsForm(n, e, AttrsLeft(e, Len(h.attributes) + 1))
<1> DEFINE k == Len(h.attributes)
           a == NextOf(h, e)
           n == PushAttribute(h, a.type, a.value)
<1>1. /\ Len(e.attributes) \in Nat /\ k \in Nat /\ h.attributes \in Seq(Attribute)
      /\ \A i \in 1..Len(e.attributes) : e.attributes[i] \in Attribute
  BY EventFields, GrammarFields
<1>2. /\ k < Len(e.attributes) /\ Longer(h.attributes, e.attributes)
      /\ h.command = e.command /\ e.command = CMD_START_TAG /\ h.text = e.text
  BY DEF InString
<1>3. k + 1 \in 1..Len(e.attributes) /\ a = e.attributes[k + 1]
  BY <1>1, <1>2 DEF NextOf
<1>4. a \in Attribute
  BY <1>1, <1>3
<1>5. [name |-> h.name, type |-> a.type, value |-> a.value] = a
  BY <1>4 DEF Attribute
<1>6. n = [h EXCEPT !.at = "attrs", !.attributes = Append(@, a)]
  BY <1>5 DEF PushAttribute
<1>7. /\ n.at = "attrs" /\ n.command = h.command /\ n.text = h.text
      /\ n.attributes = Append(h.attributes, a)
  BY <1>6 DEF GrammarState, GrammarRecord
<1> HIDE DEF n, a
<1>8. /\ Len(n.attributes) = k + 1 /\ n.attributes[k + 1] = a
      /\ \A i \in 1..k : n.attributes[i] = h.attributes[i]
  BY <1>1, <1>4, <1>7, AppendProperties
<1>9. Longer(n.attributes, e.attributes)
  <2>1. ASSUME NEW i \in 1..(k + 1) PROVE e.attributes[i] = n.attributes[i]
    <3>1. CASE i = k + 1
      BY <1>3, <1>8, <3>1
    <3>2. CASE i # k + 1
      <4>1. i \in 1..k
        BY <1>1, <3>2
      <4> QED
        BY <1>2, <1>8, <4>1 DEF Longer
    <3> QED
      BY <3>1, <3>2
  <2> QED
    BY <1>1, <1>2, <1>8, <2>1 DEF Longer
<1>10. AttrsForm(n, e, AttrsLeft(e, k + 1))
  BY <1>2, <1>7, <1>8, <1>9 DEF AttrsForm, InTag
<1> QED
  BY <1>10 DEF n, a

\* The string or number is read: the event is over, or the grammar goes on where the
\* writer does.
Onward(n, e, ops, ns) ==
  \/ n.at = "done" /\ Event(n) = e /\ ops = <<>>
  \/ n.at \in Reading \ {"token"} /\ Form(n, e, ops, ns)

LEMMA Delivered ==
  ASSUME NEW h \in GrammarState, NEW e \in AnyEvent, WellTyped(e), InString(h, e), NEW ns
  PROVE  LET n == Deliver(h, Str(h, e))
         IN /\ n \in GrammarState /\ n.cur = h.cur /\ n.pool = h.pool
            /\ Onward(n, e, Behind(h, e), ns)
<1> DEFINE s == Str(h, e)
           n == Deliver(h, s)
           k == Len(h.attributes)
           a == NextOf(h, e)
<1>1. s \in Bytes /\ Behind(h, e) \in Seq(Operation)
  BY StringTypes
<1>2. n \in GrammarState /\ n.cur = h.cur /\ n.pool = h.pool
  BY <1>1, DeliverType DEF SameInput
<1>3. h.slot \in Slots
  BY GrammarFields
<1>4. CASE h.slot = "tag"
  <2>1. n = [h EXCEPT !.at = "attrs", !.text = s]
    BY <1>4 DEF Deliver
  <2>2. n.at = "attrs" /\ n.text = s /\ n.attributes = h.attributes /\ n.command = h.command
    BY <2>1 DEF GrammarState, GrammarRecord
  <2>3. s = e.text /\ e.command = CMD_START_TAG /\ h.attributes = <<>> /\ h.command = e.command
    BY <1>4 DEF Str, InString
  <2> HIDE DEF n, s
  <2>4. Len(n.attributes) = 0
    BY <2>2, <2>3, EmptySeq
  <2>5. Longer(n.attributes, e.attributes)
    BY <2>4, EventFields DEF Longer
  <2>6. AttrsForm(n, e, AttrsLeft(e, 0))
    BY <2>2, <2>3, <2>4, <2>5 DEF AttrsForm, InTag
  <2>7. Behind(h, e) = AttrsLeft(e, 0)
    BY <1>4 DEF Behind
  <2>8. Onward(n, e, Behind(h, e), ns)
    BY <2>2, <2>6, <2>7 DEF Onward, Form, Reading
  <2> QED
    BY <1>2, <2>8 DEF n, s
<1>5. CASE h.slot \in {"end", "text"}
  <2>1. n = [h EXCEPT !.at = "done", !.text = s]
    BY <1>5 DEF Deliver
  <2>2. n.at = "done" /\ n.text = s /\ n.attributes = h.attributes /\ n.command = h.command
    BY <2>1 DEF GrammarState, GrammarRecord
  <2>3. s = e.text /\ h.attributes = <<>> /\ h.command = e.command /\ e.command # CMD_START_TAG
    BY <1>5, CommandsDiffer DEF Str, InString
  <2>4. e.attributes = <<>>
    BY <2>3 DEF WellTyped, ValueTyped
  <2> HIDE DEF n, s
  <2>5. Event(n) = [command |-> e.command, text |-> e.text, attributes |-> e.attributes]
    BY <2>2, <2>3, <2>4 DEF Event
  <2>6. Event(n) = e
    BY <2>5 DEF AnyEvent
  <2>7. Behind(h, e) = <<>>
    BY <1>5 DEF Behind
  <2>8. Onward(n, e, Behind(h, e), ns)
    BY <2>2, <2>6, <2>7 DEF Onward
  <2> QED
    BY <1>2, <2>8 DEF n, s
<1>6. ASSUME h.slot \in {"name", "value"}
      PROVE  /\ a \in Attribute /\ k + 1 \in 0..Len(e.attributes) /\ h.type = a.type
             /\ AttrsLeft(e, k + 1) \in Seq(Operation)
             /\ a.type \in ValueTypes /\ k < Len(e.attributes) /\ k \in Nat
             /\ a.type \in NoBytesTypes => a.value = <<>>
             /\ a.type \in FourByteTypes => Len(a.value) = 4
             /\ a.type \in EightByteTypes => Len(a.value) = 8
  <2>1. k < Len(e.attributes) /\ h.type = a.type
    BY <1>6 DEF InString
  <2>2. k + 1 \in 1..Len(e.attributes) /\ k + 1 \in 0..Len(e.attributes) /\ k \in Nat
    BY <2>1, EventFields, GrammarFields
  <2>3. a \in Attribute /\ a.type \in ValueTypes
    BY <2>2, EventFields DEF NextOf
  <2>4. AttrsLeft(e, k + 1) \in Seq(Operation)
    BY <2>2, AttrsLeftFacts
  <2>5. /\ a.type \in NoBytesTypes => a.value = <<>>
        /\ a.type \in FourByteTypes => Len(a.value) = 4
        /\ a.type \in EightByteTypes => Len(a.value) = 8
    BY <2>2 DEF WellTyped, ValueTyped, NextOf
  <2> QED
    BY <2>1, <2>2, <2>3, <2>4, <2>5
<1>7. CASE h.slot = "name"
  <2> DEFINE m == [h EXCEPT !.name = s]
  <2>1. n = AttrValue(m)
    BY <1>7 DEF Deliver
  <2>2. /\ m \in GrammarState /\ m.slot = h.slot /\ m.type = h.type /\ m.name = s
        /\ m.attributes = h.attributes /\ m.command = h.command /\ m.text = h.text
    BY <1>1 DEF GrammarState, GrammarRecord
  <2>3. s = a.name
    BY <1>7 DEF Str
  <2>4. Behind(h, e) = ValueOps(a) \o AttrsLeft(e, k + 1)
    BY <1>7 DEF Behind
  <2>5. NextOf(m, e) = a /\ InString(m, e)
    BY <1>7, <2>2 DEF NextOf, InString
  <2> HIDE DEF m, n, s, a
  <2>6. CASE a.type \in NoBytesTypes
    <3>1. n = PushAttribute(m, a.type, a.value)
      BY <1>6, <1>7, <2>1, <2>2, <2>6, TypesAreDistinct DEF AttrValue, StringType
    <3>2. AttrsForm(n, e, AttrsLeft(e, k + 1))
      BY <1>7, <2>2, <2>3, <2>5, <3>1, Pushed
    <3>3. Behind(h, e) = AttrsLeft(e, k + 1)
      BY <1>6, <1>7, <2>4, <2>6, AttributeSplit
    <3>4. Onward(n, e, Behind(h, e), ns)
      BY <3>2, <3>3 DEF Onward, Form, Reading, AttrsForm
    <3> QED
      BY <1>2, <3>4 DEF n, s
  <2>7. CASE a.type \in StringType
    <3>1. n = ReadLength(m, "value")
      BY <1>6, <1>7, <2>1, <2>2, <2>7, TypesAreDistinct DEF AttrValue, StringType
    <3>2. /\ n.at = "length" /\ n.slot = "value" /\ ~n.interning /\ n.type = a.type
          /\ n.name = a.name /\ n.attributes = h.attributes /\ n.command = h.command
          /\ n.text = h.text
      BY <1>6, <1>7, <2>2, <2>3, <3>1 DEF ReadLength, GrammarState, GrammarRecord
    <3>3. NextOf(n, e) = a /\ Len(n.attributes) = k
      BY <3>2 DEF NextOf, a
    <3>4. InString(n, e)
      BY <1>6, <1>7, <2>7, <3>2, <3>3, TypesAreDistinct DEF InString
    <3>5. Str(n, e) = a.value /\ Behind2(n, e) = AttrsLeft(e, k + 1)
      BY <3>2, <3>3 DEF Str, Behind, Behind2
    <3>6. Behind(h, e) = Then(Blob(a.value), AttrsLeft(e, k + 1))
      BY <1>6, <1>7, <2>4, <2>7, AttributeSplit
    <3>7. LengthForm(n, e, Behind(h, e))
      BY <2>7, <3>2, <3>4, <3>5, <3>6 DEF LengthForm, StringSlot
    <3>8. Onward(n, e, Behind(h, e), ns)
      BY <3>2, <3>7 DEF Onward, Form, Reading
    <3> QED
      BY <1>2, <3>8 DEF n, s
  <2>8. CASE a.type \in FourByteTypes \cup EightByteTypes
    <3>1. n = ReadScalar(m, ScalarSize(a.type))
      BY <1>6, <1>7, <2>1, <2>2, <2>8, TypesAreDistinct DEF AttrValue, StringType
    <3>2. /\ n.at = "scalar" /\ n.slot = "value" /\ n.type = a.type /\ n.size = ScalarSize(a.type)
          /\ n.name = a.name /\ n.attributes = h.attributes /\ n.command = h.command
          /\ n.text = h.text
      BY <1>6, <1>7, <2>2, <2>3, <3>1 DEF ReadScalar, GrammarState, GrammarRecord
    <3>3. NextOf(n, e) = a /\ Len(n.attributes) = k
      BY <3>2 DEF NextOf, a
    <3>4. InString(n, e)
      BY <1>6, <1>7, <2>8, <3>2, <3>3, TypesAreDistinct DEF InString
    <3>5. Str(n, e) = a.value /\ Behind(n, e) = AttrsLeft(e, k + 1)
      BY <3>2, <3>3 DEF Str, Behind
    <3>6. Behind(h, e) = Then(Raw(a.value), AttrsLeft(e, k + 1))
      BY <1>6, <1>7, <2>4, <2>8, AttributeSplit
    <3>7. ScalarSize(a.type) = Len(a.value)
      BY <1>6, <1>7, <2>8, TypesAreDistinct DEF ScalarSize
    <3>8. ScalarForm(n, e, Behind(h, e))
      BY <2>8, <3>2, <3>4, <3>5, <3>6, <3>7 DEF ScalarForm
    <3>9. Onward(n, e, Behind(h, e), ns)
      BY <3>2, <3>8 DEF Onward, Form, Reading
    <3> QED
      BY <1>2, <3>9 DEF n, s
  <2> QED
    BY <1>6, <1>7, <2>6, <2>7, <2>8 DEF ValueTypes, StringType
<1>8. CASE h.slot = "value"
  <2>1. h.type # TYPE_STRING_INTERNED
    BY <1>6, <1>8 DEF ValueTypes, NoBytesTypes, BlobTypes, FourByteTypes, EightByteTypes,
       TYPE_NULL, TYPE_STRING, TYPE_STRING_INTERNED, TYPE_BYTES_HEX, TYPE_BYTES_BASE64, TYPE_INT,
       TYPE_INT_HEX, TYPE_LONG, TYPE_LONG_HEX, TYPE_FLOAT, TYPE_DOUBLE, TYPE_BOOLEAN_TRUE,
       TYPE_BOOLEAN_FALSE
  <2>2. s = a.value /\ h.name = a.name
    BY <1>8 DEF Str, InString
  <2>3. n = PushAttribute(h, a.type, a.value)
    <3>1. n = PushAttribute(h, ValueType(h.type), s)
      BY <1>8 DEF Deliver
    <3>2. ValueType(h.type) = a.type
      BY <1>6, <1>8, <2>1 DEF ValueType
    <3> QED
      BY <2>2, <3>1, <3>2
  <2> HIDE DEF n, s, a
  <2>4. AttrsForm(n, e, AttrsLeft(e, k + 1))
    BY <1>8, <2>2, <2>3, Pushed DEF a
  <2>5. Behind(h, e) = AttrsLeft(e, k + 1)
    BY <1>8 DEF Behind
  <2>6. Onward(n, e, Behind(h, e), ns)
    BY <2>4, <2>5 DEF Onward, Form, Reading, AttrsForm
  <2> QED
    BY <1>2, <2>6 DEF n, s
<1> QED
  BY <1>3, <1>4, <1>5, <1>7, <1>8 DEF Slots

-----------------------------------------------------------------------------
(***************************************************************************)
(* The grammar reads what the writer puts out next.                        *)
(***************************************************************************)
\* Operations that are put in front of others are told apart.
LEMMA ThenEqual ==
  ASSUME NEW x \in Operation, NEW t \in Seq(Operation), NEW y \in Operation,
         NEW u \in Seq(Operation), Then(x, t) = Then(y, u)
  PROVE  x = y /\ t = u
<1>1. Head(Then(x, t)) = x /\ Tail(Then(x, t)) = t /\ Head(Then(y, u)) = y /\ Tail(Then(y, u)) = u
  BY ThenFacts
<1> QED
  BY <1>1, Zenon

LEMMA OperationsDiffer ==
  ASSUME NEW b, NEW c
  PROVE  /\ Raw(b).op = "raw" /\ Raw(b).bytes = b /\ (Raw(b) = Raw(c) => b = c)
         /\ Name(b).op = "name" /\ Name(b).bytes = b
         /\ Blob(b).op = "blob" /\ Blob(b).bytes = b
         /\ Cache(b).op = "cache" /\ Cache(b).bytes = b
         /\ AttributeOp(b).op = "attribute" /\ AttributeOp(b).attribute = b
<1>1. Raw(b) = Raw(c) => Raw(b).bytes = Raw(c).bytes
  OBVIOUS
<1>2. Raw(b).bytes = b /\ Raw(c).bytes = c
  BY DEF Raw
<1> QED
  BY <1>1, <1>2 DEF Raw, Name, Blob, Cache, AttributeOp

\* What is being read is the same in both.
SameString(g, h, e) ==
  /\ h.at = g.at /\ h.slot = g.slot /\ h.type = g.type /\ h.interning = g.interning
  /\ h.size = g.size /\ h.attributes = g.attributes
  /\ NextOf(h, e) = NextOf(g, e) /\ Str(h, e) = Str(g, e) /\ Behind(h, e) = Behind(g, e)
  /\ InString(g, e) => InString(h, e)

LEMMA SameFields ==
  ASSUME NEW g, NEW h, NEW e, h.at = g.at, h.slot = g.slot, h.type = g.type,
         h.interning = g.interning, h.size = g.size, h.attributes = g.attributes,
         h.command = g.command, h.text = g.text, h.name = g.name
  PROVE  SameString(g, h, e)
<1>1. NextOf(h, e) = NextOf(g, e)
  BY DEF NextOf
<1>2. Str(h, e) = Str(g, e) /\ Behind(h, e) = Behind(g, e)
  BY <1>1 DEF Str, Behind
<1>3. InString(g, e) => InString(h, e)
  BY <1>1 DEF InString
<1> QED
  BY <1>1, <1>2, <1>3 DEF SameString

\* Bytes are read, a string joins the pool: the grammar reads what it has read.
LEMMA Moved ==
  ASSUME NEW g \in GrammarState, NEW b \in Bytes, NEW e
  PROVE  LET h == [g EXCEPT !.cur = g.cur + Len(b)]
         IN h \in GrammarState /\ h.cur = g.cur + Len(b) /\ h.pool = g.pool /\ SameString(g, h, e)
<1> DEFINE c == g.cur + Len(b)
           h == [g EXCEPT !.cur = c]
<1>1. c \in Nat
  BY LenProperties, GrammarFields DEF Bytes
<1> HIDE DEF c
<1>2. /\ h \in GrammarState /\ h.cur = c /\ h.at = g.at /\ h.slot = g.slot /\ h.pool = g.pool
      /\ h.type = g.type /\ h.interning = g.interning /\ h.size = g.size
      /\ h.attributes = g.attributes /\ h.command = g.command /\ h.text = g.text /\ h.name = g.name
  BY <1>1 DEF GrammarState, GrammarRecord
<1> HIDE DEF h
<1>3. SameString(g, h, e)
  BY <1>2, SameFields
<1> QED
  BY <1>2, <1>3 DEF c, h

LEMMA Pooling ==
  ASSUME NEW g \in GrammarState, NEW q \in Seq(Bytes), NEW e
  PROVE  LET h == [g EXCEPT !.pool = q]
         IN h \in GrammarState /\ h.cur = g.cur /\ h.pool = q /\ SameString(g, h, e)
<1> DEFINE h == [g EXCEPT !.pool = q]
<1>2. /\ h \in GrammarState /\ h.cur = g.cur /\ h.at = g.at /\ h.slot = g.slot /\ h.pool = q
      /\ h.type = g.type /\ h.interning = g.interning /\ h.size = g.size
      /\ h.attributes = g.attributes /\ h.command = g.command /\ h.text = g.text /\ h.name = g.name
  BY DEF GrammarState, GrammarRecord
<1> HIDE DEF h
<1>3. SameString(g, h, e)
  BY <1>2, SameFields
<1> QED
  BY <1>2, <1>3 DEF h

\* The names the pools hold, the writer's and the parser's: the parser has them all, and no
\* others unless the writer's pool is full.
Agree(ns, pool) == Longer(ns, pool) /\ (Len(ns) < INTERNED_NEW => pool = ns)

\* What reading b comes to: the grammar goes on where the writer does, T, and where the
\* name just read is about to enter the writer's pool it has entered the parser's.
Taken(n, g, b, e, rest) ==
  /\ Len(b) = Wants(g) /\ n \in GrammarState /\ n.cur = g.cur + Len(b)
  /\ \E T \in Seq(Operation) :
       /\ \/ rest = T /\ n.pool = g.pool
          \/ \E s \in Bytes : rest = Then(Cache(s), T) /\ n.pool = Append(g.pool, s)
       /\ \A m : Onward(n, e, T, m)

LEMMA Lengths ==
  /\ MAX_UNSIGNED_SHORT = INTERNED_NEW /\ INTERNED_NEW \in Nat
BY FieldBytes DEF MAX_UNSIGNED_SHORT, INTERNED_NEW

LEMMA TakenIndex ==
  ASSUME NEW g \in GrammarState, NEW e \in AnyEvent, WellTyped(e), NEW b \in Bytes,
         NEW rest \in Seq(Operation), NEW ns \in Seq(Bytes), Agree(ns, g.pool),
         Len(ns) <= INTERNED_NEW, IndexForm(g, e, Then(Raw(b), rest), ns)
  PROVE  Taken(Given(g, b), g, b, e, rest)
<1> DEFINE s == Str(g, e)
           B == Behind(g, e)
           h == [g EXCEPT !.cur = g.cur + Len(b)]
           n == Given(g, b)
<1>1. /\ g.at = "index" /\ InString(g, e) /\ g.slot \in {"tag", "end", "name"}
      /\ Wants(g) = 2
  BY DEF IndexForm, Wants
<1>2. /\ s \in Bytes /\ B \in Seq(Operation) /\ Raw(b) \in Operation
      /\ Name(s) \in Operation /\ Blob(s) \in Operation /\ Cache(s) \in Operation
  BY <1>1, StringTypes, OperationTypes
<1>3. h \in GrammarState /\ h.cur = g.cur + Len(b) /\ h.pool = g.pool /\ SameString(g, h, e)
  BY Moved
<1>4. n = Index(h, U16(b[1], b[2]))
  BY <1>1 DEF Given
<1> HIDE DEF h, n, s, B
<1>5. h.slot = g.slot /\ InString(h, e) /\ Str(h, e) = s /\ Behind(h, e) = B
  BY <1>1, <1>3 DEF SameString, s, B
<1>6. Then(Raw(b), rest) # Then(Name(s), B)
  BY <1>2, ThenEqual, OperationsDiffer
<1>7. CASE Then(Raw(b), rest) = Then(Raw(U16Bytes(INTERNED_NEW)), Then(Blob(s), Then(Cache(s), B)))
  <2>1. /\ U16Bytes(INTERNED_NEW) \in Bytes /\ Len(U16Bytes(INTERNED_NEW)) = 2
        /\ U16(U16Bytes(INTERNED_NEW)[1], U16Bytes(INTERNED_NEW)[2]) = INTERNED_NEW
    BY FieldReadsBack, FieldBytes
  <2>2. Raw(U16Bytes(INTERNED_NEW)) \in Operation /\ Then(Blob(s), Then(Cache(s), B)) \in Seq(Operation)
    BY <1>2, <2>1, OperationTypes, ThenFacts
  <2>3. Raw(b) = Raw(U16Bytes(INTERNED_NEW)) /\ rest = Then(Blob(s), Then(Cache(s), B))
    BY <1>2, <1>7, <2>2, ThenEqual
  <2>4. b = U16Bytes(INTERNED_NEW)
    BY <2>3, OperationsDiffer
  <2>5. n = [h EXCEPT !.at = "length", !.interning = TRUE]
    BY <1>4, <2>1, <2>4 DEF Index
  <2>6. /\ n \in GrammarState /\ n.cur = h.cur /\ n.pool = h.pool /\ n.at = "length" /\ n.interning
        /\ n.slot = h.slot /\ n.type = h.type /\ n.attributes = h.attributes /\ n.text = h.text
        /\ n.command = h.command /\ n.name = h.name
    BY <1>3, <2>5 DEF GrammarState, GrammarRecord, Reading
  <2>7. NextOf(n, e) = NextOf(h, e)
    BY <2>6 DEF NextOf
  <2>8. InString(n, e) /\ Str(n, e) = s /\ Behind(n, e) = B
    BY <1>5, <2>6, <2>7 DEF InString, Str, Behind
  <2>9. Behind2(n, e) = Then(Cache(s), B) /\ StringSlot(n)
    BY <1>1, <1>5, <2>6, <2>8 DEF Behind2, StringSlot
  <2>10. LengthForm(n, e, rest)
    BY <2>3, <2>6, <2>8, <2>9 DEF LengthForm
  <2>11. \A m : Onward(n, e, rest, m)
    BY <2>6, <2>10 DEF Onward, Form, Reading
  <2> QED
    BY <1>1, <1>3, <2>1, <2>4, <2>6, <2>11 DEF Taken, n
<1>8. CASE \E i \in 1..Len(ns) : ns[i] = s /\ Then(Raw(b), rest) = Then(Raw(U16Bytes(i - 1)), B)
  <2>1. PICK i \in 1..Len(ns) : ns[i] = s /\ Then(Raw(b), rest) = Then(Raw(U16Bytes(i - 1)), B)
    BY <1>8
  <2>2. /\ i - 1 \in 0..INTERNED_NEW /\ i - 1 # INTERNED_NEW /\ Len(g.pool) \in Nat
        /\ Len(ns) \in Nat /\ i \in 1..Len(g.pool) /\ i - 1 < Len(g.pool)
        /\ g.pool[i] = ns[i] /\ (i - 1) + 1 = i
    BY LenProperties, GrammarFields, FieldBytes DEF Agree, Longer
  <2>3. /\ U16Bytes(i - 1) \in Bytes /\ Len(U16Bytes(i - 1)) = 2
        /\ U16(U16Bytes(i - 1)[1], U16Bytes(i - 1)[2]) = i - 1
    BY <2>2, FieldReadsBack
  <2>4. Raw(U16Bytes(i - 1)) \in Operation
    BY <2>3, OperationTypes
  <2>5. Raw(b) = Raw(U16Bytes(i - 1)) /\ rest = B
    BY <1>2, <2>1, <2>4, ThenEqual
  <2>6. b = U16Bytes(i - 1)
    BY <2>5, OperationsDiffer
  <2>7. n = Deliver(h, h.pool[i])
    BY <1>3, <1>4, <2>2, <2>3, <2>6 DEF Index
  <2>8. n = Deliver(h, Str(h, e))
    BY <1>3, <1>5, <2>1, <2>2, <2>7
  <2>9. n \in GrammarState /\ n.cur = h.cur /\ n.pool = h.pool /\ \A m : Onward(n, e, Behind(h, e), m)
    BY <1>3, <1>5, <2>8, Delivered
  <2>10. \A m : Onward(n, e, rest, m)
    BY <1>5, <2>5, <2>9
  <2> QED
    BY <1>1, <1>3, <2>3, <2>6, <2>9, <2>10 DEF Taken, n
<1> QED
  BY <1>6, <1>7, <1>8 DEF IndexForm, n, s, B

LEMMA TakenLength ==
  ASSUME NEW g \in GrammarState, NEW e \in AnyEvent, WellTyped(e), NEW b \in Bytes,
         NEW rest \in Seq(Operation), LengthForm(g, e, Then(Raw(b), rest))
  PROVE  Taken(Given(g, b), g, b, e, rest)
<1> DEFINE s == Str(g, e)
           B == Behind2(g, e)
           h == [g EXCEPT !.cur = g.cur + Len(b)]
           n == Given(g, b)
<1>1. g.at = "length" /\ InString(g, e) /\ StringSlot(g) /\ Wants(g) = 2
  BY DEF LengthForm, Wants
<1>2. /\ s \in Bytes /\ Len(s) \in Nat /\ B \in Seq(Operation) /\ Raw(b) \in Operation
      /\ Raw(s) \in Operation /\ Blob(s) \in Operation
  BY <1>1, StringTypes, OperationTypes
<1>3. h \in GrammarState /\ h.cur = g.cur + Len(b) /\ h.pool = g.pool /\ SameString(g, h, e)
  BY Moved
<1>4. n = [h EXCEPT !.at = "payload", !.size = U16(b[1], b[2])]
  BY <1>1 DEF Given
<1> HIDE DEF h, n, s, B
<1>5. Then(Raw(b), rest) # Then(Blob(s), B)
  BY <1>2, ThenEqual, OperationsDiffer
<1>6. /\ Len(s) <= MAX_UNSIGNED_SHORT
      /\ Then(Raw(b), rest) = Then(Raw(U16Bytes(Len(s))), Then(Raw(s), B))
  BY <1>5 DEF LengthForm, s, B
<1>7. /\ U16Bytes(Len(s)) \in Bytes /\ Len(U16Bytes(Len(s))) = 2
      /\ U16(U16Bytes(Len(s))[1], U16Bytes(Len(s))[2]) = Len(s)
  <2>1. Len(s) \in 0..INTERNED_NEW
    BY <1>2, <1>6, Lengths
  <2> QED
    BY <2>1, FieldReadsBack
<1>8. Raw(U16Bytes(Len(s))) \in Operation /\ Then(Raw(s), B) \in Seq(Operation)
  BY <1>2, <1>7, OperationTypes, ThenFacts
<1>9. Raw(b) = Raw(U16Bytes(Len(s))) /\ rest = Then(Raw(s), B)
  BY <1>2, <1>6, <1>8, ThenEqual
<1>10. b = U16Bytes(Len(s))
  BY <1>9, OperationsDiffer
<1>11. n = [h EXCEPT !.at = "payload", !.size = Len(s)]
  BY <1>4, <1>7, <1>10
<1>12. /\ n \in GrammarState /\ n.cur = h.cur /\ n.pool = h.pool /\ n.at = "payload"
       /\ n.interning = h.interning /\ n.size = Len(s)
       /\ n.slot = h.slot /\ n.type = h.type /\ n.attributes = h.attributes /\ n.text = h.text
       /\ n.command = h.command /\ n.name = h.name
  BY <1>2, <1>3, <1>11 DEF GrammarState, GrammarRecord, Reading
<1>13. NextOf(n, e) = NextOf(h, e)
  BY <1>12 DEF NextOf
<1>14. /\ h.slot = g.slot /\ h.type = g.type /\ h.interning = g.interning
       /\ InString(h, e) /\ Str(h, e) = s /\ Behind(h, e) = Behind(g, e)
  BY <1>1, <1>3 DEF SameString, s
<1>15. InString(n, e) /\ Str(n, e) = s /\ Behind(n, e) = Behind(g, e)
  BY <1>12, <1>13, <1>14 DEF InString, Str, Behind
<1>16. Behind2(n, e) = B /\ StringSlot(n)
  BY <1>1, <1>12, <1>14, <1>15 DEF Behind2, StringSlot, s, B
<1>17. PayloadForm(n, e, rest)
  BY <1>9, <1>12, <1>15, <1>16 DEF PayloadForm
<1>18. \A m : Onward(n, e, rest, m)
  BY <1>12, <1>17 DEF Onward, Form, Reading
<1> QED
  BY <1>1, <1>3, <1>7, <1>10, <1>12, <1>18 DEF Taken, n

LEMMA TakenPayload ==
  ASSUME NEW g \in GrammarState, NEW e \in AnyEvent, WellTyped(e), NEW b \in Bytes,
         NEW rest \in Seq(Operation), PayloadForm(g, e, Then(Raw(b), rest))
  PROVE  Taken(Given(g, b), g, b, e, rest)
<1> DEFINE s == Str(g, e)
           B == Behind2(g, e)
           h == [g EXCEPT !.cur = g.cur + Len(b)]
           n == Given(g, b)
<1>1. /\ g.at = "payload" /\ InString(g, e) /\ StringSlot(g) /\ g.size = Len(s)
      /\ Wants(g) = g.size /\ Then(Raw(b), rest) = Then(Raw(s), B)
  BY DEF PayloadForm, Wants
<1>2. /\ s \in Bytes /\ Len(s) \in Nat /\ B \in Seq(Operation) /\ Raw(b) \in Operation
      /\ Raw(s) \in Operation /\ Cache(s) \in Operation /\ Behind(g, e) \in Seq(Operation)
      /\ g.slot # "value" => Utf8(s)
      /\ g.slot = "value" /\ g.type = TYPE_STRING => Utf8(s)
  BY <1>1, StringTypes, OperationTypes
<1>3. h \in GrammarState /\ h.cur = g.cur + Len(b) /\ h.pool = g.pool /\ SameString(g, h, e)
  BY Moved
<1>4. n = Payload(h, b)
  BY <1>1 DEF Given
<1> HIDE DEF h, n, s, B
<1>5. Raw(b) = Raw(s) /\ rest = B
  BY <1>1, <1>2, ThenEqual
<1>6. b = s
  BY <1>5, OperationsDiffer
<1>7. /\ h.slot = g.slot /\ h.type = g.type /\ h.interning = g.interning
      /\ InString(h, e) /\ Str(h, e) = s /\ Behind(h, e) = Behind(g, e)
  BY <1>1, <1>3 DEF SameString, s
<1>8. CASE IsBlob(h)
  <2>1. n = Deliver(h, Str(h, e)) /\ ~g.interning
    BY <1>1, <1>4, <1>6, <1>7, <1>8 DEF Payload, IsBlob, StringSlot
  <2>2. n \in GrammarState /\ n.cur = h.cur /\ n.pool = h.pool /\ \A m : Onward(n, e, Behind(h, e), m)
    BY <1>3, <1>7, <2>1, Delivered
  <2>3. rest = Behind(h, e)
    BY <1>5, <1>7, <2>1 DEF Behind2, B
  <2>4. \A m : Onward(n, e, rest, m)
    BY <2>2, <2>3
  <2> QED
    BY <1>1, <1>3, <1>6, <2>2, <2>4 DEF Taken, n
<1>9. CASE ~IsBlob(h)
  <2>1. Utf8(b)
    BY <1>1, <1>2, <1>6, <1>7, <1>9 DEF IsBlob, StringSlot, StringType
  <2> DEFINE q == IF h.interning THEN Append(h.pool, b) ELSE h.pool
             k == [h EXCEPT !.pool = q]
  <2>2. n = Deliver(k, b)
    BY <1>4, <1>9, <2>1 DEF Payload
  <2>3. q \in Seq(Bytes)
    BY <1>3, GrammarFields, AppendProperties
  <2> HIDE DEF q
  <2>4. k \in GrammarState /\ k.cur = h.cur /\ k.pool = q /\ SameString(h, k, e)
    BY <1>3, <2>3, Pooling
  <2> HIDE DEF k
  <2>5. InString(k, e) /\ Str(k, e) = b /\ Behind(k, e) = Behind(g, e)
    BY <1>6, <1>7, <2>4 DEF SameString
  <2>6. n = Deliver(k, Str(k, e))
    BY <2>2, <2>5
  <2>7. n \in GrammarState /\ n.cur = k.cur /\ n.pool = k.pool /\ \A m : Onward(n, e, Behind(k, e), m)
    BY <2>4, <2>5, <2>6, Delivered
  <2>8. \A m : Onward(n, e, Behind(g, e), m)
    BY <2>5, <2>7
  <2>9. \/ rest = Behind(g, e) /\ n.pool = g.pool
        \/ rest = Then(Cache(s), Behind(g, e)) /\ n.pool = Append(g.pool, s)
    <3>1. CASE g.interning
      BY <1>3, <1>5, <1>6, <1>7, <2>4, <2>7, <3>1 DEF Behind2, B, q, s
    <3>2. CASE ~g.interning
      BY <1>3, <1>5, <1>7, <2>4, <2>7, <3>2 DEF Behind2, B, q
    <3> QED
      BY <3>1, <3>2
  <2>10. Len(b) = Wants(g) /\ n.cur = g.cur + Len(b)
    BY <1>1, <1>3, <1>6, <2>4, <2>7
  <2> QED
    BY <1>2, <2>7, <2>8, <2>9, <2>10 DEF Taken, n
<1> QED
  BY <1>8, <1>9

LEMMA TakenScalar ==
  ASSUME NEW g \in GrammarState, NEW e \in AnyEvent, WellTyped(e), NEW b \in Bytes,
         NEW rest \in Seq(Operation), ScalarForm(g, e, Then(Raw(b), rest))
  PROVE  Taken(Given(g, b), g, b, e, rest)
<1> DEFINE s == Str(g, e)
           B == Behind(g, e)
           h == [g EXCEPT !.cur = g.cur + Len(b)]
           n == Given(g, b)
<1>1. /\ g.at = "scalar" /\ InString(g, e) /\ g.size = Len(s)
      /\ Wants(g) = g.size /\ Then(Raw(b), rest) = Then(Raw(s), B)
  BY DEF ScalarForm, Wants
<1>2. /\ s \in Bytes /\ B \in Seq(Operation) /\ Raw(b) \in Operation /\ Raw(s) \in Operation
  BY <1>1, StringTypes, OperationTypes
<1>3. h \in GrammarState /\ h.cur = g.cur + Len(b) /\ h.pool = g.pool /\ SameString(g, h, e)
  BY Moved
<1>4. n = Deliver(h, b)
  BY <1>1 DEF Given
<1> HIDE DEF h, n, s, B
<1>5. Raw(b) = Raw(s) /\ rest = B
  BY <1>1, <1>2, ThenEqual
<1>6. b = s
  BY <1>5, OperationsDiffer
<1>7. InString(h, e) /\ Str(h, e) = b /\ Behind(h, e) = rest
  BY <1>1, <1>3, <1>5, <1>6 DEF SameString, s, B
<1>8. n = Deliver(h, Str(h, e))
  BY <1>4, <1>7
<1>9. n \in GrammarState /\ n.cur = h.cur /\ n.pool = h.pool /\ \A m : Onward(n, e, Behind(h, e), m)
  BY <1>3, <1>7, <1>8, Delivered
<1>10. \A m : Onward(n, e, rest, m)
  BY <1>7, <1>9
<1>11. Len(b) = Wants(g)
  BY <1>1, <1>6
<1> QED
  BY <1>3, <1>9, <1>10, <1>11 DEF Taken, n

\* The token of an attribute holds the type of its value.
LEMMA AttributeNibbles ==
  \A t \in ValueTypes : Command(t + CMD_ATTRIBUTE) = CMD_ATTRIBUTE
                          /\ TypeNibble(t + CMD_ATTRIBUTE) = t
BY DEF ValueTypes, NoBytesTypes, BlobTypes, FourByteTypes, EightByteTypes, TYPE_NULL,
       TYPE_STRING, TYPE_STRING_INTERNED, TYPE_BYTES_HEX, TYPE_BYTES_BASE64, TYPE_INT,
       TYPE_INT_HEX, TYPE_LONG, TYPE_LONG_HEX, TYPE_FLOAT, TYPE_DOUBLE, TYPE_BOOLEAN_TRUE,
       TYPE_BOOLEAN_FALSE, CMD_ATTRIBUTE, Command, TypeNibble

\* In a tag that is not over there is a next attribute.
LEMMA InTagFacts ==
  ASSUME NEW g \in GrammarState, NEW e \in AnyEvent, InTag(g, e)
  PROVE  /\ Len(g.attributes) \in 0..Len(e.attributes)
         /\ Len(g.attributes) < Len(e.attributes) =>
              /\ NextOf(g, e) \in Attribute /\ NextOf(g, e).type \in ValueTypes
              /\ AttrsLeft(e, Len(g.attributes) + 1) \in Seq(Operation)
<1> DEFINE k == Len(g.attributes)
<1>1. /\ Len(e.attributes) \in Nat /\ k \in Nat /\ k <= Len(e.attributes)
      /\ \A i \in 1..Len(e.attributes) :
           e.attributes[i] \in Attribute /\ e.attributes[i].type \in ValueTypes
  BY EventFields, GrammarFields DEF InTag, Longer
<1>2. ASSUME k < Len(e.attributes)
      PROVE  k + 1 \in 1..Len(e.attributes) /\ k + 1 \in 0..Len(e.attributes)
  BY <1>1, <1>2
<1>3. k < Len(e.attributes) => AttrsLeft(e, k + 1) \in Seq(Operation)
  BY <1>2, AttrsLeftFacts
<1> QED
  BY <1>1, <1>2, <1>3 DEF NextOf

LEMMA TakenAttrs ==
  ASSUME NEW g \in GrammarState, NEW e \in AnyEvent, WellTyped(e), NEW b \in Bytes,
         NEW rest \in Seq(Operation), AttrsForm(g, e, Then(Raw(b), rest))
  PROVE  Taken(Given(g, b), g, b, e, rest)
<1> DEFINE k == Len(g.attributes)
           a == NextOf(g, e)
           L == AttrsLeft(e, k + 1)
           n == Given(g, b)
           x == AttributeOp(e.attributes[k + 1])
           t == a.type + CMD_ATTRIBUTE
<1>1. g.at = "attrs" /\ InTag(g, e) /\ Wants(g) = 1
  BY DEF AttrsForm, Wants
<1>2. k \in 0..Len(e.attributes) /\ Len(e.attributes) \in Nat /\ k \in Nat
  BY <1>1, InTagFacts, EventFields, GrammarFields
<1>3. Raw(b) \in Operation
  BY OperationTypes
<1>4. Then(Raw(b), rest) # AttrsLeft(e, k)
  <2> SUFFICES ASSUME Then(Raw(b), rest) = AttrsLeft(e, k) PROVE FALSE
    OBVIOUS
  <2>1. AttrsLeft(e, k) # <<>>
    BY <1>3, ThenFacts
  <2>2. k < Len(e.attributes)
    BY <1>2, <2>1, AttrsLeftFacts
  <2>3. x \in Operation /\ L \in Seq(Operation) /\ AttrsLeft(e, k) = Then(x, L)
    BY <1>1, <1>2, <2>2, AttrsLeftFacts, InTagFacts
  <2>4. Raw(b) = x
    BY <1>3, <2>3, ThenEqual
  <2>5. Raw(b).op = "raw" /\ x.op = "attribute"
    BY DEF Raw, AttributeOp
  <2> QED
    BY <2>4, <2>5
<1>5. k < Len(e.attributes) /\ Then(Raw(b), rest) = AttributeOps(a) \o L
  BY <1>4 DEF AttrsForm
<1>6. a \in Attribute /\ a.type \in ValueTypes /\ L \in Seq(Operation)
  BY <1>1, <1>5, InTagFacts
<1>7. a.name \in Bytes /\ a.type # TYPE_STRING_INTERNED
  BY <1>6 DEF Attribute, ValueTypes, NoBytesTypes, BlobTypes, FourByteTypes, EightByteTypes,
       TYPE_NULL, TYPE_STRING, TYPE_STRING_INTERNED, TYPE_BYTES_HEX, TYPE_BYTES_BASE64, TYPE_INT,
       TYPE_INT_HEX, TYPE_LONG, TYPE_LONG_HEX, TYPE_FLOAT, TYPE_DOUBLE, TYPE_BOOLEAN_TRUE,
       TYPE_BOOLEAN_FALSE
<1>8. t \in Byte /\ Command(t) = CMD_ATTRIBUTE /\ TypeNibble(t) = a.type
  BY <1>6, TokenBytes, AttributeNibbles
<1> HIDE DEF n, a, L, t, k
<1>9. /\ AttrToken(a) \in Operation /\ Name(a.name) \in Operation
      /\ ValueOps(a) \o L \in Seq(Operation)
      /\ AttributeOps(a) \o L = Then(AttrToken(a), Then(Name(a.name), ValueOps(a) \o L))
  BY <1>6, AttributeSplit
<1>10. Then(Name(a.name), ValueOps(a) \o L) \in Seq(Operation)
  BY <1>9, ThenFacts
<1>11. Raw(b) = AttrToken(a) /\ rest = Then(Name(a.name), ValueOps(a) \o L)
  BY <1>3, <1>5, <1>9, <1>10, ThenEqual
<1>12. b = <<t>> /\ b[1] = t /\ Len(b) = 1
  <2>1. AttrToken(a) = Raw(<<t>>)
    BY DEF AttrToken, t
  <2>2. b = <<t>>
    BY <1>11, <2>1, OperationsDiffer
  <2> QED
    BY <2>2
<1>13. n = [ReadIndex(g, "name") EXCEPT !.cur = g.cur + 1, !.type = a.type]
  BY <1>1, <1>8, <1>12 DEF n, Given, Attrs
<1>14. n \in GrammarState
  BY <1>1, <1>8, <1>12, AttrsType DEF n, Given
<1>15. /\ n.cur = g.cur + 1 /\ n.pool = g.pool /\ n.at = "index" /\ n.slot = "name"
       /\ n.type = a.type /\ n.attributes = g.attributes /\ n.command = g.command
       /\ n.text = g.text
  BY <1>13 DEF ReadIndex, GrammarState, GrammarRecord
<1>16. NextOf(n, e) = a
  BY <1>15 DEF NextOf, a
<1>17. InString(n, e)
  BY <1>1, <1>5, <1>15, <1>16 DEF InString, InTag, k
<1>18. Str(n, e) = a.name /\ Behind(n, e) = ValueOps(a) \o L
  BY <1>15, <1>16 DEF Str, Behind, L, k
<1>19. \A m : IndexForm(n, e, rest, m)
  BY <1>11, <1>15, <1>17, <1>18 DEF IndexForm
<1>20. \A m : Onward(n, e, rest, m)
  BY <1>15, <1>19 DEF Onward, Form, Reading
<1> QED
  BY <1>1, <1>12, <1>14, <1>15, <1>20 DEF Taken, n

LEMMA TakenForm ==
  ASSUME NEW g \in GrammarState, NEW e \in AnyEvent, WellTyped(e), NEW b \in Bytes,
         NEW rest \in Seq(Operation), NEW ns \in Seq(Bytes), Agree(ns, g.pool),
         Len(ns) <= INTERNED_NEW, Form(g, e, Then(Raw(b), rest), ns)
  PROVE  Taken(Given(g, b), g, b, e, rest)
BY TakenIndex, TakenLength, TakenPayload, TakenScalar, TakenAttrs DEF Form

\* The command and the type of a token.
LEMMA TokenNibbles ==
  /\ \A c \in 0..15 : /\ Command(TYPE_STRING + c) = c /\ TypeNibble(TYPE_STRING + c) = TYPE_STRING
                      /\ Command(c + TYPE_NULL) = c
  /\ Command(TYPE_STRING_INTERNED + CMD_START_TAG) = CMD_START_TAG
  /\ Command(TYPE_STRING_INTERNED + CMD_END_TAG) = CMD_END_TAG
<1>1. ASSUME NEW c \in 0..15 PROVE (32 + c) % 16 = c /\ (c + 16) % 16 = c /\ 32 + c - c = 32
  OBVIOUS
<1> QED
  BY <1>1 DEF Command, TypeNibble, TYPE_STRING, TYPE_NULL, TYPE_STRING_INTERNED, CMD_START_TAG,
              CMD_END_TAG

LEMMA TokenCommand ==
  ASSUME NEW e \in AnyEvent
  PROVE  /\ Command(EventToken(e)) = e.command /\ e.command \in 0..15 /\ e.command # CMD_ATTRIBUTE
         /\ e.command \in TextCommands => TypeNibble(EventToken(e)) = TYPE_STRING
         /\ \/ e.command \in {CMD_START_DOCUMENT, CMD_END_DOCUMENT} \/ e.command = CMD_START_TAG
            \/ e.command = CMD_END_TAG \/ e.command \in TextCommands
<1>1. e.command \in 0..10
  BY EventFields DEF CMD_START_DOCUMENT, CMD_DOCDECL
<1>2. /\ e.command \in 0..15 /\ e.command # CMD_ATTRIBUTE
      /\ \/ e.command \in {CMD_START_DOCUMENT, CMD_END_DOCUMENT} \/ e.command = CMD_START_TAG
         \/ e.command = CMD_END_TAG \/ e.command \in TextCommands
  BY <1>1 DEF CMD_ATTRIBUTE, CMD_START_DOCUMENT, CMD_END_DOCUMENT, CMD_START_TAG, CMD_END_TAG,
              TextCommands, CMD_TEXT, CMD_DOCDECL
<1>3. CASE e.command = CMD_START_TAG
  BY <1>2, <1>3, TokenNibbles, CommandsDiffer DEF EventToken
<1>4. CASE e.command = CMD_END_TAG
  BY <1>2, <1>4, TokenNibbles, CommandsDiffer DEF EventToken
<1>5. CASE e.command \in TextCommands
  BY <1>2, <1>5, TokenNibbles, CommandsDiffer DEF EventToken
<1>6. CASE e.command \in {CMD_START_DOCUMENT, CMD_END_DOCUMENT}
  BY <1>2, <1>6, TokenNibbles, CommandsDiffer DEF EventToken
<1> QED
  BY <1>2, <1>3, <1>4, <1>5, <1>6

\* At the start of an event the grammar reads the token the writer puts out.
LEMMA TakenToken ==
  ASSUME NEW e \in AnyEvent, WellTyped(e), NEW p \in Seq(Bytes)
  PROVE  Taken(Given(Start(p), <<EventToken(e)>>), Start(p), <<EventToken(e)>>, e, EventRest(e))
<1> DEFINE g  == Start(p)
           t  == EventToken(e)
           b  == <<t>>
           n  == Given(g, b)
           h  == [g EXCEPT !.cur = g.cur + Len(b)]
           h2 == [h EXCEPT !.command = Command(t), !.type = TypeNibble(t)]
<1>1. t \in Byte /\ EventRest(e) \in Seq(Operation) /\ e.text \in Bytes
  BY EventSplit, EventFields
<1>2. b \in Bytes /\ Len(b) = 1 /\ b[1] = t
  BY <1>1, OneByte
<1>3. /\ g \in GrammarState /\ g.at = "token" /\ g.cur = 0 /\ g.pool = p /\ g.text = <<>>
      /\ g.attributes = <<>> /\ ~g.interning /\ Wants(g) = 1
  BY StartType DEF Start, Wants
<1> HIDE DEF t, b, g
<1>4. /\ h \in GrammarState /\ h.cur = 1 /\ h.pool = p /\ h.at = "token" /\ h.text = <<>>
      /\ h.attributes = <<>> /\ ~h.interning
  <2> DEFINE c == g.cur + Len(b)
             k == [g EXCEPT !.cur = c]
  <2>1. c = 1
    BY <1>2, <1>3
  <2>2. h = k
    OBVIOUS
  <2> HIDE DEF c, h
  <2>3. /\ k \in GrammarState /\ k.cur = c /\ k.pool = g.pool /\ k.at = g.at /\ k.text = g.text
        /\ k.attributes = g.attributes /\ k.interning = g.interning
    BY <1>3, <2>1 DEF GrammarState, GrammarRecord
  <2> HIDE DEF k
  <2> QED
    BY <1>3, <2>1, <2>2, <2>3
<1>5. n = Token(h, t)
  BY <1>2, <1>3 DEF Given
<1> HIDE DEF n, h
<1>6. n \in GrammarState /\ n.cur = 1 /\ n.pool = p
  BY <1>1, <1>4, <1>5, TokenType DEF SameInput
<1>7. /\ h2.command = e.command /\ h2.type = TypeNibble(t) /\ h2.cur = 1 /\ h2.pool = p
      /\ h2.text = <<>> /\ h2.attributes = <<>> /\ h2 \in GrammarState /\ h2.at = "token"
  <2>1. Command(t) \in 0..15 /\ TypeNibble(t) \in Byte /\ h.slot # "value"
    BY <1>1, <1>4, Nibbles DEF GrammarState
  <2> QED
    BY <1>4, <2>1, TokenCommand DEF GrammarState, GrammarRecord, t
<1>8. Token(h, t) =
        CASE h2.command \in {CMD_START_DOCUMENT, CMD_END_DOCUMENT} -> [h2 EXCEPT !.at = "done"]
          [] h2.command = CMD_START_TAG -> ReadIndex(h2, "tag")
          [] h2.command = CMD_END_TAG   -> ReadIndex(h2, "end")
          [] h2.command \in TextCommands ->
               IF h2.type = TYPE_STRING THEN ReadLength(h2, "text") ELSE [h2 EXCEPT !.at = "done"]
          [] OTHER -> Fail(h2, "UnknownCommand", h2.command)
  BY DEF Token
<1> HIDE DEF h2
<1>9. ASSUME \A m : Onward(n, e, EventRest(e), m)
      PROVE  Taken(n, g, b, e, EventRest(e))
  <2>1. Len(b) = Wants(g) /\ n.cur = g.cur + Len(b) /\ n.pool = g.pool
    BY <1>2, <1>3, <1>6
  <2> QED
    BY <1>1, <1>6, <1>9, <2>1 DEF Taken
<1>10. CASE e.command \in {CMD_START_DOCUMENT, CMD_END_DOCUMENT}
  <2>1. n = [h2 EXCEPT !.at = "done"]
    BY <1>5, <1>7, <1>8, <1>10, CommandsDiffer
  <2>2. n.at = "done" /\ n.command = e.command /\ n.text = <<>> /\ n.attributes = <<>>
    BY <1>7, <2>1 DEF GrammarState, GrammarRecord
  <2>3. e.text = <<>> /\ e.attributes = <<>> /\ EventRest(e) = <<>>
    BY <1>10, CommandsDiffer DEF WellTyped, EventRest
  <2>4. Event(n) = [command |-> e.command, text |-> e.text, attributes |-> e.attributes]
    BY <2>2, <2>3 DEF Event
  <2>5. Event(n) = e
    BY <2>4 DEF AnyEvent
  <2>6. \A m : Onward(n, e, EventRest(e), m)
    BY <2>2, <2>3, <2>5 DEF Onward
  <2> QED
    BY <1>9, <2>6 DEF g, b, t, n
<1>11. CASE e.command \in {CMD_START_TAG, CMD_END_TAG}
  <2> DEFINE slot == IF e.command = CMD_START_TAG THEN "tag" ELSE "end"
  <2>1. n = ReadIndex(h2, slot)
    BY <1>5, <1>7, <1>8, <1>11, CommandsDiffer
  <2>2. /\ n.at = "index" /\ n.slot = slot /\ n.command = e.command /\ n.attributes = <<>>
    BY <1>7, <2>1 DEF ReadIndex, GrammarState, GrammarRecord
  <2>3. Str(n, e) = e.text
    BY <2>2 DEF Str
  <2>4. InString(n, e)
    BY <1>11, <2>2 DEF InString
  <2>5. EventRest(e) = Then(Name(e.text), Behind(n, e))
    BY <1>11, <2>2, CommandsDiffer DEF EventRest, Behind
  <2>6. \A m : IndexForm(n, e, EventRest(e), m)
    BY <2>2, <2>3, <2>4, <2>5 DEF IndexForm
  <2>7. \A m : Onward(n, e, EventRest(e), m)
    BY <2>2, <2>6 DEF Onward, Form, Reading
  <2> QED
    BY <1>9, <2>7 DEF g, b, t, n
<1>12. CASE e.command \in TextCommands
  <2>1. n = ReadLength(h2, "text")
    BY <1>5, <1>7, <1>8, <1>12, CommandsDiffer, TokenCommand DEF t
  <2>2. /\ n.at = "length" /\ n.slot = "text" /\ n.command = e.command /\ n.attributes = <<>>
        /\ ~n.interning
    BY <1>7, <2>1 DEF ReadLength, GrammarState, GrammarRecord
  <2>3. Str(n, e) = e.text /\ Behind2(n, e) = <<>>
    BY <2>2 DEF Str, Behind, Behind2
  <2>4. InString(n, e) /\ StringSlot(n)
    BY <1>12, <2>2 DEF InString, StringSlot
  <2>5. EventRest(e) = Then(Blob(e.text), <<>>)
    BY <1>12, CommandsDiffer DEF EventRest
  <2>6. LengthForm(n, e, EventRest(e))
    BY <2>2, <2>3, <2>4, <2>5 DEF LengthForm
  <2>7. \A m : Onward(n, e, EventRest(e), m)
    BY <2>2, <2>6 DEF Onward, Form, Reading
  <2> QED
    BY <1>9, <2>7 DEF g, b, t, n
<1> QED
  BY <1>10, <1>11, <1>12, TokenCommand

-----------------------------------------------------------------------------
(***************************************************************************)
(* The operations in front of what is left to do: the forms are those that *)
(* the writer's steps lead through.                                        *)
(***************************************************************************)
\* What the steps that put nothing out make of the operations, x the first of them.
Unfolds(g, e, x, t, ns) ==
  /\ x.op \in {"raw", "name", "blob", "attribute"}
  /\ x.op = "attribute" => Form(g, e, AttributeOps(x.attribute) \o t, ns)
  /\ x.op = "name" =>
       /\ Form(g, e, Then(Raw(U16Bytes(INTERNED_NEW)),
                          Then(Blob(x.bytes), Then(Cache(x.bytes), t))), ns)
       /\ \A i \in 1..Len(ns) : ns[i] = x.bytes => Form(g, e, Then(Raw(U16Bytes(i - 1)), t), ns)
  /\ x.op = "blob" /\ Len(x.bytes) <= MAX_UNSIGNED_SHORT =>
       Form(g, e, Then(Raw(U16Bytes(Len(x.bytes))), Then(Raw(x.bytes), t)), ns)

LEMMA RawUnfolds ==
  ASSUME NEW g, NEW e, NEW x, NEW t, NEW ns, x.op = "raw"
  PROVE  Unfolds(g, e, x, t, ns)
BY DEF Unfolds

LEMMA FormUnfolds ==
  ASSUME NEW g \in GrammarState, NEW e \in AnyEvent, WellTyped(e), NEW ns \in Seq(Bytes),
         NEW x \in Operation, NEW t \in Seq(Operation), Form(g, e, Then(x, t), ns)
  PROVE  Unfolds(g, e, x, t, ns)
<1> DEFINE s == Str(g, e)
           B == Behind(g, e)
           B2 == Behind2(g, e)
<1>1. ASSUME InString(g, e)
      PROVE  /\ s \in Bytes /\ Len(s) \in Nat /\ B \in Seq(Operation) /\ B2 \in Seq(Operation)
             /\ Name(s) \in Operation /\ Raw(s) \in Operation
             /\ Blob(s) \in Operation /\ Cache(s) \in Operation
  BY <1>1, StringTypes
<1> HIDE DEF s, B, B2
<1>2. CASE IndexForm(g, e, Then(x, t), ns)
  <2>0. InString(g, e) /\ g.at = "index" /\ g.slot \in {"tag", "end", "name"}
    BY <1>2 DEF IndexForm
  <2>1. CASE Then(x, t) = Then(Name(s), B)
    <3>1. x = Name(s) /\ t = B
      BY <1>1, <2>0, <2>1, ThenEqual
    <3>2. x.op = "name" /\ x.bytes = s
      BY <3>1, OperationsDiffer
    <3>3. IndexForm(g, e, Then(Raw(U16Bytes(INTERNED_NEW)), Then(Blob(s), Then(Cache(s), t))), ns)
      BY <2>0, <3>1 DEF IndexForm, s, B
    <3>4. ASSUME NEW i \in 1..Len(ns), ns[i] = s
          PROVE  IndexForm(g, e, Then(Raw(U16Bytes(i - 1)), t), ns)
      BY <2>0, <3>1, <3>4 DEF IndexForm, s, B
    <3> QED
      BY <3>2, <3>3, <3>4 DEF Unfolds, Form
  <2>2. CASE Then(x, t) = Then(Raw(U16Bytes(INTERNED_NEW)), Then(Blob(s), Then(Cache(s), B)))
    <3>1. /\ Raw(U16Bytes(INTERNED_NEW)) \in Operation
          /\ Then(Blob(s), Then(Cache(s), B)) \in Seq(Operation)
      BY <1>1, <2>0, FieldBytes, OperationTypes, ThenFacts
    <3>2. x = Raw(U16Bytes(INTERNED_NEW))
      BY <2>2, <3>1, ThenEqual
    <3> QED
      BY <3>2, OperationsDiffer, RawUnfolds
  <2>3. CASE \E i \in 1..Len(ns) : ns[i] = s /\ Then(x, t) = Then(Raw(U16Bytes(i - 1)), B)
    <3>1. PICK i \in 1..Len(ns) : ns[i] = s /\ Then(x, t) = Then(Raw(U16Bytes(i - 1)), B)
      BY <2>3
    <3>2. i - 1 \in Nat
      BY LenProperties
    <3>3. Raw(U16Bytes(i - 1)) \in Operation
      BY <3>2, FieldBytes, OperationTypes
    <3>4. x = Raw(U16Bytes(i - 1))
      BY <1>1, <2>0, <3>1, <3>3, ThenEqual
    <3> QED
      BY <3>4, OperationsDiffer, RawUnfolds
  <2> QED
    BY <1>2, <2>1, <2>2, <2>3 DEF IndexForm, s, B
<1>3. CASE LengthForm(g, e, Then(x, t))
  <2>0. InString(g, e) /\ g.at = "length" /\ StringSlot(g)
    BY <1>3 DEF LengthForm
  <2>1. CASE Then(x, t) = Then(Blob(s), B2)
    <3>1. x = Blob(s) /\ t = B2
      BY <1>1, <2>0, <2>1, ThenEqual
    <3>2. x.op = "blob" /\ x.bytes = s
      BY <3>1, OperationsDiffer
    <3>3. ASSUME Len(s) <= MAX_UNSIGNED_SHORT
          PROVE  LengthForm(g, e, Then(Raw(U16Bytes(Len(s))), Then(Raw(s), t)))
      BY <2>0, <3>1, <3>3 DEF LengthForm, s, B2
    <3> QED
      BY <3>2, <3>3 DEF Unfolds, Form
  <2>2. CASE Then(x, t) = Then(Raw(U16Bytes(Len(s))), Then(Raw(s), B2))
    <3>1. Raw(U16Bytes(Len(s))) \in Operation /\ Then(Raw(s), B2) \in Seq(Operation)
      BY <1>1, <2>0, FieldBytes, OperationTypes, ThenFacts
    <3>2. x = Raw(U16Bytes(Len(s)))
      BY <2>2, <3>1, ThenEqual
    <3> QED
      BY <3>2, OperationsDiffer, RawUnfolds
  <2> QED
    BY <1>3, <2>1, <2>2 DEF LengthForm, s, B2
<1>4. CASE PayloadForm(g, e, Then(x, t))
  <2>1. InString(g, e) /\ Then(x, t) = Then(Raw(s), B2)
    BY <1>4 DEF PayloadForm, s, B2
  <2>2. x = Raw(s)
    BY <1>1, <2>1, ThenEqual
  <2> QED
    BY <2>2, OperationsDiffer, RawUnfolds
<1>5. CASE ScalarForm(g, e, Then(x, t))
  <2>1. InString(g, e) /\ Then(x, t) = Then(Raw(s), B)
    BY <1>5 DEF ScalarForm, s, B
  <2>2. x = Raw(s)
    BY <1>1, <2>1, ThenEqual
  <2> QED
    BY <2>2, OperationsDiffer, RawUnfolds
<1>6. CASE AttrsForm(g, e, Then(x, t))
  <2> DEFINE k == Len(g.attributes)
             a == NextOf(g, e)
             L == AttrsLeft(e, k + 1)
             y == AttributeOp(e.attributes[k + 1])
  <2>0. InTag(g, e) /\ g.at = "attrs"
    BY <1>6 DEF AttrsForm
  <2>1. k \in 0..Len(e.attributes) /\ Len(e.attributes) \in Nat
    BY <2>0, InTagFacts, EventFields
  <2>2. CASE Then(x, t) = AttrsLeft(e, k)
    <3>1. AttrsLeft(e, k) # <<>>
      BY <2>2, ThenFacts
    <3>2. k < Len(e.attributes)
      BY <2>1, <3>1, AttrsLeftFacts
    <3>3. y \in Operation /\ L \in Seq(Operation) /\ AttrsLeft(e, k) = Then(y, L)
      BY <2>0, <2>1, <3>2, AttrsLeftFacts, InTagFacts
    <3>4. x = y /\ t = L
      BY <2>2, <3>3, ThenEqual
    <3>5. x.op = "attribute" /\ x.attribute = a
      BY <3>4, OperationsDiffer DEF NextOf
    <3>6. AttrsForm(g, e, AttributeOps(a) \o t)
      BY <2>0, <3>2, <3>4 DEF AttrsForm
    <3>7. Form(g, e, AttributeOps(a) \o t, ns)
      BY <3>6 DEF Form
    <3> HIDE DEF a
    <3> QED
      BY <3>5, <3>7 DEF Unfolds
  <2>3. CASE k < Len(e.attributes) /\ Then(x, t) = AttributeOps(a) \o L
    <3>1. a \in Attribute /\ L \in Seq(Operation)
      BY <2>0, <2>3, InTagFacts
    <3> HIDE DEF a, L
    <3>2. /\ AttrToken(a) \in Operation /\ Name(a.name) \in Operation
          /\ ValueOps(a) \o L \in Seq(Operation)
          /\ AttributeOps(a) \o L = Then(AttrToken(a), Then(Name(a.name), ValueOps(a) \o L))
      BY <3>1, AttributeSplit
    <3>3. Then(Name(a.name), ValueOps(a) \o L) \in Seq(Operation)
      BY <3>2, ThenFacts
    <3>4. x = AttrToken(a)
      BY <2>3, <3>2, <3>3, ThenEqual
    <3> QED
      BY <3>4, OperationsDiffer, RawUnfolds DEF AttrToken
  <2> QED
    BY <1>6, <2>2, <2>3 DEF AttrsForm
<1> QED
  BY <1>2, <1>3, <1>4, <1>5, <1>6 DEF Form

\* Nothing is left to do: the grammar is behind the event's last attribute.
LEMMA FormIsOver ==
  ASSUME NEW g \in GrammarState, NEW e \in AnyEvent, WellTyped(e), NEW ns \in Seq(Bytes),
         Form(g, e, <<>>, ns)
  PROVE  g.at = "attrs" /\ Event(g) = e
<1> DEFINE s == Str(g, e)
           B == Behind(g, e)
           B2 == Behind2(g, e)
<1>1. ASSUME NEW x \in Operation, NEW t \in Seq(Operation) PROVE Then(x, t) # <<>>
  BY ThenFacts
<1>2. ASSUME InString(g, e)
      PROVE  /\ s \in Bytes /\ Len(s) \in Nat /\ B \in Seq(Operation) /\ B2 \in Seq(Operation)
             /\ Name(s) \in Operation /\ Raw(s) \in Operation
             /\ Blob(s) \in Operation /\ Cache(s) \in Operation
  BY <1>2, StringTypes
<1> HIDE DEF s, B, B2
<1>3. \A n \in Nat : Raw(U16Bytes(n)) \in Operation
  BY FieldBytes, OperationTypes
<1>4. ~IndexForm(g, e, <<>>, ns)
  <2> SUFFICES ASSUME IndexForm(g, e, <<>>, ns) PROVE FALSE
    OBVIOUS
  <2>1. InString(g, e)
    BY DEF IndexForm
  <2>2. /\ Then(Name(s), B) # <<>>
        /\ Then(Raw(U16Bytes(INTERNED_NEW)), Then(Blob(s), Then(Cache(s), B))) # <<>>
    <3>1. Then(Cache(s), B) \in Seq(Operation)
      BY <1>2, <2>1, ThenFacts
    <3>2. Then(Blob(s), Then(Cache(s), B)) \in Seq(Operation)
      BY <1>2, <2>1, <3>1, ThenFacts
    <3> QED
      BY <1>1, <1>2, <1>3, <2>1, <3>2, FieldBytes
  <2>3. ASSUME NEW i \in 1..Len(ns) PROVE Then(Raw(U16Bytes(i - 1)), B) # <<>>
    <3>1. i - 1 \in Nat
      BY LenProperties
    <3> QED
      BY <1>1, <1>2, <1>3, <2>1, <3>1
  <2> QED
    BY <2>2, <2>3 DEF IndexForm, s, B
<1>5. ~LengthForm(g, e, <<>>)
  <2> SUFFICES ASSUME LengthForm(g, e, <<>>) PROVE FALSE
    OBVIOUS
  <2>1. InString(g, e)
    BY DEF LengthForm
  <2>2. Then(Raw(s), B2) \in Seq(Operation)
    BY <1>2, <2>1, ThenFacts
  <2>3. Then(Blob(s), B2) # <<>> /\ Then(Raw(U16Bytes(Len(s))), Then(Raw(s), B2)) # <<>>
    BY <1>1, <1>2, <1>3, <2>1, <2>2
  <2> QED
    BY <2>3 DEF LengthForm, s, B2
<1>6. ~PayloadForm(g, e, <<>>) /\ ~ScalarForm(g, e, <<>>)
  BY <1>1, <1>2 DEF PayloadForm, ScalarForm, s, B, B2
<1>7. AttrsForm(g, e, <<>>)
  BY <1>4, <1>5, <1>6 DEF Form
<1> DEFINE k == Len(g.attributes)
           a == NextOf(g, e)
           L == AttrsLeft(e, k + 1)
<1>8. InTag(g, e) /\ g.at = "attrs"
  BY <1>7 DEF AttrsForm
<1>9. k < Len(e.attributes) => AttributeOps(a) \o L # <<>>
  <2> SUFFICES ASSUME k < Len(e.attributes) PROVE AttributeOps(a) \o L # <<>>
    OBVIOUS
  <2>1. a \in Attribute /\ L \in Seq(Operation)
    BY <1>8, InTagFacts
  <2> HIDE DEF a, L
  <2>2. /\ AttrToken(a) \in Operation /\ Name(a.name) \in Operation
        /\ ValueOps(a) \o L \in Seq(Operation)
        /\ AttributeOps(a) \o L = Then(AttrToken(a), Then(Name(a.name), ValueOps(a) \o L))
    BY <2>1, AttributeSplit
  <2>3. Then(Name(a.name), ValueOps(a) \o L) \in Seq(Operation)
    BY <2>2, ThenFacts
  <2> QED
    BY <1>1, <2>2, <2>3
<1>10. AttrsLeft(e, k) = <<>>
  BY <1>7, <1>9 DEF AttrsForm
<1>11. k = Len(e.attributes) /\ Longer(g.attributes, e.attributes)
  BY <1>8, <1>10, InTagFacts, AttrsLeftFacts DEF InTag
<1>12. g.attributes = e.attributes
  <2>1. \A i \in 1..Len(g.attributes) : g.attributes[i] = e.attributes[i]
    BY <1>11 DEF Longer
  <2> QED
    BY <1>11, <2>1, SeqEqual, EventFields, GrammarFields
<1>13. Event(g) = [command |-> e.command, text |-> e.text, attributes |-> e.attributes]
  BY <1>8, <1>12 DEF Event, InTag
<1> QED
  BY <1>8, <1>13 DEF AnyEvent

-----------------------------------------------------------------------------
(***************************************************************************)
(* A parser of the body W has read it all, and is in the grammar's state g *)
(* behind the events fin.                                                  *)
(***************************************************************************)
ReadsTo(W, fin, g) ==
  \E o, p : /\ Standing(W, o, fin, p, g) /\ o + g.cur = Len(W)
            /\ g.at \in Reading /\ (g.at = "token" => p = g.pool)

\* A step leads to the end of an event, or on in it.
Reached(W, fin, n) ==
  \/ n.at = "done" /\ ReadsTo(W, Append(fin, Event(n)), Start(n.pool))
  \/ n.at \in Reading \ {"token"} /\ ReadsTo(W, fin, n)

LEMMA ReadsToType ==
  ASSUME NEW W \in Bytes, NEW fin, NEW g, ReadsTo(W, fin, g)
  PROVE  fin \in Seq(EventRecord) /\ g \in GrammarState /\ g.at \in Reading
BY StandingType DEF ReadsTo

\* Nothing is read yet.
LEMMA ReadsNothing == <<>> \in Bytes /\ ReadsTo(<<>>, <<>>, Start(<<>>))
<1>1. <<>> \in Bytes /\ <<>> \in Seq(Bytes) /\ Len(<<>>) = 0
  BY DEF Bytes
<1>2. ASSUME NEW V \in Bytes PROVE Stands(V, 0, <<>>, <<>>, Start(<<>>))
  <2>1. Len(V) \in Nat /\ V \in Seq(Byte)
    BY LenProperties DEF Bytes
  <2>2. From(V, 0) = V
    <3> DEFINE R == SubSeq(V, 0 + 1, Len(V))
    <3>1. 0 \in 0..Len(V)
      BY <2>1
    <3>2. /\ R \in Bytes /\ Len(R) = Len(V) - 0
          /\ \A i \in 1..(Len(V) - 0) : R[i] = V[0 + i]
      BY <3>1, RestType
    <3> HIDE DEF R
    <3>3. \A i \in 1..Len(V) : R[i] = V[i]
      BY <2>1, <3>2
    <3>4. R = V
      BY <2>1, <3>2, <3>3, SeqEqual DEF Bytes
    <3> QED
      BY <3>4 DEF From, R
  <2>3. DecodeSteps(V)[0] = CollectNone(V)
    BY DecodeStepsType
  <2>4. /\ DecodeSteps(V)[0].rest = From(V, 0) /\ DecodeSteps(V)[0].pool = <<>>
        /\ DecodeSteps(V)[0].events = <<>> /\ ~DecodeSteps(V)[0].failed
    BY <2>2, <2>3 DEF CollectNone
  <2>5. OnRun(Start(<<>>), From(V, 0), <<>>)
    BY <1>1, <2>2, StartOnRun
  <2>6. 0 \in 0..Len(V)
    BY <2>1
  <2> QED
    BY <2>4, <2>5, <2>6 DEF Stands
<1>3. Standing(<<>>, 0, <<>>, <<>>, Start(<<>>))
  BY <1>2 DEF Standing
<1>4. /\ Start(<<>>).cur = 0 /\ Start(<<>>).at \in Reading /\ Start(<<>>).pool = <<>>
      /\ 0 + Start(<<>>).cur = Len(<<>>)
  BY <1>1 DEF Start, Reading
<1> QED
  BY <1>1, <1>3, <1>4, Zenon DEF ReadsTo

LEMMA StandingReached ==
  ASSUME NEW W \in Bytes, NEW o, NEW fin, NEW p, NEW n, Standing(W, o, fin, p, n),
         o + n.cur = Len(W), n.at \in (Reading \ {"token"}) \cup {"done"}
  PROVE  Reached(W, fin, n)
<1>1. CASE n.at = "done"
  <2> DEFINE g == Start(n.pool)
             u == o + n.cur
  <2>1. Standing(W, u, Append(fin, Event(n)), n.pool, g)
    BY <1>1, Finished
  <2>2. g.cur = 0 /\ g.at \in Reading /\ g.pool = n.pool
    BY DEF Start, Reading
  <2>3. Len(W) \in Nat /\ u = Len(W)
    BY LenProperties DEF Bytes
  <2> HIDE DEF g, u
  <2>4. u + g.cur = Len(W)
    BY <2>2, <2>3
  <2>5. ReadsTo(W, Append(fin, Event(n)), g)
    BY <2>1, <2>2, <2>4 DEF ReadsTo
  <2> QED
    BY <1>1, <2>5 DEF Reached, g
<1>2. CASE n.at \in Reading \ {"token"}
  BY <1>2 DEF Reached, ReadsTo
<1> QED
  BY <1>1, <1>2

\* More bytes come, those that the grammar waits for.
LEMMA ReadsOn ==
  ASSUME NEW W \in Bytes, NEW fin, NEW g, ReadsTo(W, fin, g), NEW b \in Bytes, NEW n,
         n = Given(g, b), Len(b) = Wants(g), n.cur = g.cur + Len(b),
         n.at \in (Reading \ {"token"}) \cup {"done"}
  PROVE  Reached(W \o b, fin, n)
<1>1. PICK o, p : Standing(W, o, fin, p, g) /\ o + g.cur = Len(W) /\ g.at \in Reading
  BY DEF ReadsTo
<1> DEFINE V == W \o b
<1>2. V \in Bytes /\ Len(V) = Len(W) + Len(b) /\ Longer(W, V) /\ Len(W) \in Nat /\ Len(b) \in Nat
  BY MoreBytes
<1>3. Standing(V, o, fin, p, g)
  BY <1>1, <1>2, StandingLonger
<1>4. Standing(V, o, fin, p, n)
  BY <1>1, <1>3, ReadOnward
<1>5. o + n.cur = Len(V)
  <2>1. o \in Nat /\ g.cur \in Nat
    BY <1>1, StandingType
  <2> HIDE DEF V
  <2> QED
    BY <1>1, <1>2, <2>1
<1> QED
  BY <1>2, <1>4, <1>5, StandingReached

\* A byte comes that is no attribute's: the tag is over, and an event begins.
LEMMA ReadsNext ==
  ASSUME NEW W \in Bytes, NEW fin, NEW g, ReadsTo(W, fin, g), g.at = "attrs",
         NEW t \in Byte, Command(t) # CMD_ATTRIBUTE, NEW n,
         n = Given(Start(g.pool), <<t>>), n.cur = 1, n.at \in (Reading \ {"token"}) \cup {"done"}
  PROVE  Reached(W \o <<t>>, Append(fin, Event(g)), n)
<1>1. PICK o, p : Standing(W, o, fin, p, g) /\ o + g.cur = Len(W)
  BY DEF ReadsTo
<1> DEFINE b == <<t>>
           V == W \o b
           d == [g EXCEPT !.at = "done"]
           u == o + d.cur
           q == Start(g.pool)
           fin2 == Append(fin, Event(g))
<1>0. b \in Bytes /\ Len(b) = 1 /\ b[1] = t
  BY OneByte
<1> HIDE DEF b
<1>2. V \in Bytes /\ Len(V) = Len(W) + 1 /\ Longer(W, V) /\ Len(W) \in Nat
  BY <1>0, MoreBytes
<1>3. Standing(V, o, fin, p, g)
  BY <1>1, <1>2, StandingLonger
<1>4. g \in GrammarState /\ o \in Nat /\ g.cur \in Nat /\ Wants(g) = 1 /\ Wants(q) = 1
  BY <1>1, StandingType DEF Wants, Start
<1>5. Given(g, b) = d
  BY <1>0 DEF Given, Attrs
<1>6. Standing(V, o, fin, p, d)
  <2>1. g.at \in Reading /\ Len(b) = Wants(g)
    BY <1>0, <1>4 DEF Reading
  <2>2. Standing(V, o, fin, p, Given(g, b))
    BY <1>0, <1>1, <1>3, <2>1, ReadOnward
  <2> HIDE DEF d
  <2> QED
    BY <1>5, <2>2
<1>7. d.at = "done" /\ d.cur = g.cur /\ d.pool = g.pool /\ Event(d) = Event(g)
  BY <1>4 DEF GrammarState, GrammarRecord, Event
<1> HIDE DEF V, d
<1>8. Standing(V, u, fin2, g.pool, q)
  BY <1>2, <1>6, <1>7, Finished
<1>9. u = Len(W) /\ q.cur = 0 /\ q.at = "token"
  BY <1>1, <1>4, <1>7 DEF Start
<1> HIDE DEF q, u, fin2
<1>10. Standing(V, u, fin2, g.pool, n)
  <2>1. u + q.cur = Len(W) /\ q.at \in Reading /\ Len(b) = Wants(q)
    BY <1>0, <1>2, <1>4, <1>9 DEF Reading
  <2>2. n = Given(q, b)
    BY DEF q, b
  <2>3. Standing(V, u, fin2, g.pool, Given(q, b))
    BY <1>0, <1>8, <2>1, ReadOnward DEF V
  <2> QED
    BY <2>2, <2>3
<1>11. u + n.cur = Len(V)
  BY <1>2, <1>9
<1>12. Reached(V, fin2, n)
  BY <1>2, <1>10, <1>11, StandingReached
<1> QED
  BY <1>12 DEF V, b, fin2

\* What a parser makes of bytes that it has read, and of some of the next it waits for.
LEMMA ReadsOut ==
  ASSUME NEW W \in Bytes, NEW fin, NEW g, ReadsTo(W, fin, g), NEW b \in Bytes,
         Len(b) < Wants(g)
  PROVE  LET s == Decode(W \o b)
         IN /\ g.at = "token" /\ g.cur = 0 /\ b = <<>> =>
                 s.events = fin /\ s.rest = <<>> /\ s.pool = g.pool /\ ~s.failed
            /\ g.at = "attrs" =>
                 s.events = Append(fin, Event(g)) /\ s.rest = <<>> /\ s.pool = g.pool /\ ~s.failed
            /\ g.at # "attrs" => s.events = fin
<1>1. PICK o, p : /\ Standing(W, o, fin, p, g) /\ o + g.cur = Len(W) /\ g.at \in Reading
                  /\ g.at = "token" => p = g.pool
  BY DEF ReadsTo
<1> DEFINE V == W \o b
           s == Decode(V)
<1>2. V \in Bytes /\ Len(V) = Len(W) + Len(b) /\ Longer(W, V) /\ Len(W) \in Nat /\ Len(b) \in Nat
  BY MoreBytes
<1> HIDE DEF V
<1>3. Standing(V, o, fin, p, g)
  BY <1>1, <1>2, StandingLonger
<1>4. o \in Nat /\ g.cur \in Nat /\ Wants(g) \in Nat
  BY <1>1, StandingType, WantsType
<1>5. Len(V) < o + g.cur + Wants(g)
  BY <1>1, <1>2, <1>4
<1>6. /\ o = Len(V) => s.events = fin /\ s.rest = <<>> /\ s.pool = p /\ ~s.failed
      /\ g.at = "attrs" /\ g.cur >= 1 =>
           s.events = Append(fin, Event(g)) /\ s.rest = <<>> /\ s.pool = g.pool /\ ~s.failed
      /\ g.at # "attrs" => s.events = fin
  BY <1>1, <1>2, <1>3, <1>5, ReadAtEnd
<1>7. g.at = "attrs" => g.cur >= 1
  <2>1. /\ Stands(V, o, fin, p, g) /\ From(V, o) \in Bytes /\ p \in Seq(Bytes)
    BY <1>2, <1>3, StandingType
  <2>2. OnRun(g, From(V, o), p)
    BY <2>1 DEF Stands
  <2>3. Begun(g)
    BY <2>1, <2>2, RunStepsRunning DEF OnRun, Running
  <2> QED
    BY <2>3 DEF Begun
<1>8. g.at = "token" /\ g.cur = 0 /\ b = <<>> => o = Len(V)
  BY <1>1, <1>2, <1>4
<1> HIDE DEF s
<1> QED
  BY <1>1, <1>6, <1>7, <1>8 DEF s, V

-----------------------------------------------------------------------------
(***************************************************************************)
(* The writer and a parser of what it has put out.                         *)
(***************************************************************************)
\* Behind the events evs: at the start of the next, or in a start tag that may be over.
Boundary(fin, g, evs) ==
  \/ g = Start(g.pool) /\ fin = evs
  \/ g.at = "attrs" /\ Append(fin, Event(g)) = evs

\* In the event e, all of T being left to write, with the names ns in the pools.
Within(e, T, fin, g, ns, evs) ==
  \/ T = EventOps(e) /\ Boundary(fin, g, evs)
  \/ Form(g, e, T, ns) /\ fin = evs
  \/ T = <<>> /\ g = Start(g.pool) /\ fin = Append(evs, e)

Fits(p, T, fin, g, ns, cur, evs) ==
  \/ p = "idle" /\ T = <<>> /\ Boundary(fin, g, evs)
  \/ p = "writing" /\ \E e \in Events : cur = <<e>> /\ Within(e, T, fin, g, ns, evs)

\* The writer's names once the name just put out is among them.
NamesAfter(ns, s) == IF Len(ns) >= INTERNED_NEW THEN ns ELSE Append(ns, s)
Lag(ops, ns, T, m) == \/ ops = T /\ m = ns
                      \/ \E s \in Bytes : ops = Then(Cache(s), T) /\ m = NamesAfter(ns, s)

\* A parser of the body W is where a writer in the state p is that has the operations ops
\* to do, the names ns in its pool, and has written the events evs.
Parses(W, ops, ns, p, cur, evs) ==
  \E fin, g : \E T \in Seq(Operation), m \in Seq(Bytes) :
    /\ ReadsTo(W, fin, g)
    /\ Lag(ops, ns, T, m) /\ Len(m) <= INTERNED_NEW /\ Agree(m, g.pool)
    /\ Fits(p, T, fin, g, m, cur, evs)

LEMMA EventsFacts ==
  ASSUME NEW e \in Events
  PROVE  e \in AnyEvent /\ WellTyped(e)
BY EventsAssumption, ValuesAssumption

\* What the operations say of the state when the first of them is x.
Midst(W, x, t, ns, cur, evs) ==
  \E fin, g : \E e \in Events :
    /\ ReadsTo(W, fin, g) /\ Agree(ns, g.pool) /\ cur = <<e>> /\ g \in GrammarState
    /\ \/ /\ x = Raw(<<EventToken(e)>>) /\ t = EventRest(e) /\ Boundary(fin, g, evs)
       \/ Form(g, e, Then(x, t), ns) /\ fin = evs

LEMMA ParsesHead ==
  ASSUME NEW W \in Bytes, NEW x \in Operation, NEW t \in Seq(Operation), NEW ns \in Seq(Bytes),
         NEW p, NEW cur, NEW evs, Parses(W, Then(x, t), ns, p, cur, evs), x.op # "cache"
  PROVE  p = "writing" /\ Len(ns) <= INTERNED_NEW /\ Midst(W, x, t, ns, cur, evs)
<1> DEFINE ops == Then(x, t)
<1>1. ops # <<>>
  BY ThenFacts
<1>2. ASSUME NEW s \in Bytes, NEW T \in Seq(Operation) PROVE ops # Then(Cache(s), T)
  <2>1. Cache(s) \in Operation /\ Cache(s).op = "cache"
    BY OperationTypes
  <2> QED
    BY <2>1, ThenEqual
<1> HIDE DEF ops
<1>0. PICK fin, g : \E T \in Seq(Operation), m \in Seq(Bytes) :
        /\ ReadsTo(W, fin, g)
        /\ Lag(ops, ns, T, m) /\ Len(m) <= INTERNED_NEW /\ Agree(m, g.pool)
        /\ Fits(p, T, fin, g, m, cur, evs)
  BY DEF Parses, ops
<1>3. PICK T \in Seq(Operation), m \in Seq(Bytes) :
        /\ ReadsTo(W, fin, g)
        /\ Lag(ops, ns, T, m) /\ Len(m) <= INTERNED_NEW /\ Agree(m, g.pool)
        /\ Fits(p, T, fin, g, m, cur, evs)
  BY <1>0
<1>4. T = ops /\ m = ns
  BY <1>2, <1>3 DEF Lag
<1>5. p = "writing" /\ \E e \in Events : cur = <<e>> /\ Within(e, ops, fin, g, ns, evs)
  BY <1>1, <1>3, <1>4 DEF Fits
<1>6. PICK e \in Events : cur = <<e>> /\ Within(e, ops, fin, g, ns, evs)
  BY <1>5
<1>7. ops = EventOps(e) => x = Raw(<<EventToken(e)>>) /\ t = EventRest(e)
  <2>1. /\ EventOps(e) = Then(Raw(<<EventToken(e)>>), EventRest(e))
        /\ Raw(<<EventToken(e)>>) \in Operation /\ EventRest(e) \in Seq(Operation)
    BY EventsFacts, EventSplit
  <2> QED
    BY <2>1, ThenEqual DEF ops
<1>8. \/ /\ x = Raw(<<EventToken(e)>>) /\ t = EventRest(e) /\ Boundary(fin, g, evs)
      \/ Form(g, e, ops, ns) /\ fin = evs
  BY <1>1, <1>6, <1>7 DEF Within
<1>9. g \in GrammarState
  BY <1>3, ReadsToType
<1> QED
  BY <1>3, <1>4, <1>5, <1>6, <1>8, <1>9 DEF ops, Midst

\* A step that puts nothing out and turns the operations ops, of the event e, into ops2.
LEMMA ParsesStill ==
  ASSUME NEW W, NEW fin, NEW g, NEW e \in Events, NEW T \in Seq(Operation), NEW ns \in Seq(Bytes),
         NEW cur, NEW evs, ReadsTo(W, fin, g), Len(ns) <= INTERNED_NEW, Agree(ns, g.pool),
         cur = <<e>>, Within(e, T, fin, g, ns, evs)
  PROVE  Parses(W, T, ns, "writing", cur, evs)
<1>1. Lag(T, ns, T, ns)
  BY DEF Lag
<1>2. Fits("writing", T, fin, g, ns, cur, evs)
  BY DEF Fits
<1> QED
  BY <1>1, <1>2 DEF Parses

LEMMA ParsesUnfolds ==
  ASSUME NEW W \in Bytes, NEW x \in Operation, NEW t \in Seq(Operation), NEW ns \in Seq(Bytes),
         NEW p, NEW cur, NEW evs, Parses(W, Then(x, t), ns, p, cur, evs)
  PROVE  /\ x.op = "attribute" =>
              Parses(W, AttributeOps(x.attribute) \o t, ns, "writing", cur, evs)
         /\ x.op = "name" =>
              /\ Parses(W, Then(Raw(U16Bytes(INTERNED_NEW)),
                                Then(Blob(x.bytes), Then(Cache(x.bytes), t))),
                        ns, "writing", cur, evs)
              /\ \A i \in 1..Len(ns) : ns[i] = x.bytes =>
                   Parses(W, Then(Raw(U16Bytes(i - 1)), t), ns, "writing", cur, evs)
         /\ x.op = "blob" /\ Len(x.bytes) <= MAX_UNSIGNED_SHORT =>
              Parses(W, Then(Raw(U16Bytes(Len(x.bytes))), Then(Raw(x.bytes), t)),
                     ns, "writing", cur, evs)
<1> SUFFICES ASSUME x.op \in {"attribute", "name", "blob"}
             PROVE  /\ x.op = "attribute" =>
                         Parses(W, AttributeOps(x.attribute) \o t, ns, "writing", cur, evs)
                    /\ x.op = "name" =>
                         /\ Parses(W, Then(Raw(U16Bytes(INTERNED_NEW)),
                                           Then(Blob(x.bytes), Then(Cache(x.bytes), t))),
                                   ns, "writing", cur, evs)
                         /\ \A i \in 1..Len(ns) : ns[i] = x.bytes =>
                              Parses(W, Then(Raw(U16Bytes(i - 1)), t), ns, "writing", cur, evs)
                    /\ x.op = "blob" /\ Len(x.bytes) <= MAX_UNSIGNED_SHORT =>
                         Parses(W, Then(Raw(U16Bytes(Len(x.bytes))), Then(Raw(x.bytes), t)),
                                ns, "writing", cur, evs)
  OBVIOUS
<1>1. p = "writing" /\ Len(ns) <= INTERNED_NEW /\ Midst(W, x, t, ns, cur, evs)
  <2>1. x.op # "cache"
    OBVIOUS
  <2> QED
    BY <2>1, ParsesHead
<1>0. PICK fin, g : \E e \in Events :
        /\ ReadsTo(W, fin, g) /\ Agree(ns, g.pool) /\ cur = <<e>> /\ g \in GrammarState
        /\ \/ /\ x = Raw(<<EventToken(e)>>) /\ t = EventRest(e) /\ Boundary(fin, g, evs)
           \/ Form(g, e, Then(x, t), ns) /\ fin = evs
  BY <1>1 DEF Midst
<1>2. PICK e \in Events :
        /\ ReadsTo(W, fin, g) /\ Agree(ns, g.pool) /\ cur = <<e>> /\ g \in GrammarState
        /\ Form(g, e, Then(x, t), ns) /\ fin = evs
  BY <1>0, OperationsDiffer
<1>3. Unfolds(g, e, x, t, ns)
  BY <1>2, EventsFacts, FormUnfolds
<1>4. ASSUME NEW T \in Seq(Operation), Form(g, e, T, ns)
      PROVE  Parses(W, T, ns, "writing", cur, evs)
  BY <1>1, <1>2, <1>4, ParsesStill DEF Within
<1>5. CASE x.op = "attribute"
  <2>1. x.attribute \in Attribute
    BY <1>5, OperationFields
  <2>2. AttributeOps(x.attribute) \o t \in Seq(Operation)
    BY <2>1, AttributeOpsType, ConcatProperties
  <2> QED
    BY <1>3, <1>4, <1>5, <2>2 DEF Unfolds
<1>6. CASE x.op \in {"name", "blob"}
  <2>1. x.bytes \in Bytes
    BY <1>6, OperationFields
  <2>2. /\ Len(x.bytes) \in Nat /\ Blob(x.bytes) \in Operation /\ Cache(x.bytes) \in Operation
        /\ Raw(x.bytes) \in Operation /\ \A n \in Nat : Raw(U16Bytes(n)) \in Operation
    BY <2>1, LenProperties, OperationTypes, FieldBytes DEF Bytes
  <2>3. Then(Blob(x.bytes), Then(Cache(x.bytes), t)) \in Seq(Operation)
    <3>1. Then(Cache(x.bytes), t) \in Seq(Operation)
      BY <2>2, ThenFacts
    <3> QED
      BY <2>2, <3>1, ThenFacts
  <2>4. /\ Then(Raw(U16Bytes(INTERNED_NEW)), Then(Blob(x.bytes), Then(Cache(x.bytes), t)))
             \in Seq(Operation)
    BY <2>2, <2>3, ThenFacts, FieldBytes
  <2>5. ASSUME NEW i \in 1..Len(ns) PROVE Then(Raw(U16Bytes(i - 1)), t) \in Seq(Operation)
    <3>1. i - 1 \in Nat
      BY LenProperties
    <3> QED
      BY <2>2, <3>1, ThenFacts
  <2>6. Then(Raw(U16Bytes(Len(x.bytes))), Then(Raw(x.bytes), t)) \in Seq(Operation)
    <3>1. Then(Raw(x.bytes), t) \in Seq(Operation)
      BY <2>2, ThenFacts
    <3> QED
      BY <2>2, <3>1, ThenFacts
  <2>7. CASE x.op = "name"
    BY <1>3, <1>4, <2>4, <2>5, <2>7 DEF Unfolds
  <2>8. CASE x.op = "blob"
    BY <1>3, <1>4, <2>6, <2>8 DEF Unfolds
  <2> QED
    BY <1>6, <2>7, <2>8
<1> QED
  BY <1>5, <1>6

\* A name enters both pools, or only the parser's once the writer's is full.
LEMMA AgreeAfter ==
  ASSUME NEW ns \in Seq(Bytes), NEW pool \in Seq(Bytes), NEW s \in Bytes,
         Agree(ns, pool), Len(ns) <= INTERNED_NEW
  PROVE  LET m == NamesAfter(ns, s)
         IN m \in Seq(Bytes) /\ Len(m) <= INTERNED_NEW /\ Agree(m, Append(pool, s))
<1>1. /\ Len(ns) \in Nat /\ Len(pool) \in Nat /\ INTERNED_NEW \in Nat
      /\ Longer(ns, pool) /\ (Len(ns) < INTERNED_NEW => pool = ns)
  BY LenProperties, FieldBytes DEF Agree
<1>2. Append(ns, s) \in Seq(Bytes) /\ Len(Append(ns, s)) = Len(ns) + 1
  BY AppendProperties
<1>3. Append(pool, s) \in Seq(Bytes) /\ Longer(pool, Append(pool, s))
  BY AppendProperties, LongerFacts
<1>4. Longer(ns, Append(pool, s))
  BY <1>1, <1>3, LongerFacts
<1>5. CASE Len(ns) >= INTERNED_NEW
  BY <1>1, <1>4, <1>5 DEF NamesAfter, Agree
<1>6. CASE Len(ns) < INTERNED_NEW
  <2>1. NamesAfter(ns, s) = Append(ns, s) /\ Append(pool, s) = Append(ns, s)
    BY <1>1, <1>6 DEF NamesAfter
  <2>2. Longer(Append(ns, s), Append(ns, s))
    BY <1>2, LongerFacts
  <2> QED
    BY <1>1, <1>2, <1>6, <2>1, <2>2 DEF Agree
<1> QED
  BY <1>1, <1>5, <1>6

LEMMA ParsesTaken ==
  ASSUME NEW V \in Bytes, NEW evs, NEW n, NEW g \in GrammarState, NEW b, NEW e \in Events,
         NEW t \in Seq(Operation), NEW ns \in Seq(Bytes), Agree(ns, g.pool), Len(ns) <= INTERNED_NEW,
         Taken(n, g, b, e, t), Reached(V, evs, n)
  PROVE  Parses(V, t, ns, "writing", <<e>>, evs)
<1>1. PICK T \in Seq(Operation) :
        /\ \/ t = T /\ n.pool = g.pool
           \/ \E s \in Bytes : t = Then(Cache(s), T) /\ n.pool = Append(g.pool, s)
        /\ \A m : Onward(n, e, T, m)
  BY DEF Taken
<1>2. \E m \in Seq(Bytes) : Lag(t, ns, T, m) /\ Len(m) <= INTERNED_NEW /\ Agree(m, n.pool)
  <2>1. CASE t = T /\ n.pool = g.pool
    BY <2>1 DEF Lag
  <2>2. CASE \E s \in Bytes : t = Then(Cache(s), T) /\ n.pool = Append(g.pool, s)
    <3>1. PICK s \in Bytes : t = Then(Cache(s), T) /\ n.pool = Append(g.pool, s)
      BY <2>2
    <3>2. g.pool \in Seq(Bytes)
      BY GrammarFields
    <3> DEFINE m == NamesAfter(ns, s)
    <3>3. m \in Seq(Bytes) /\ Len(m) <= INTERNED_NEW /\ Agree(m, Append(g.pool, s))
      BY <3>2, AgreeAfter
    <3>4. Lag(t, ns, T, m)
      BY <3>1 DEF Lag
    <3> QED
      BY <3>1, <3>3, <3>4
  <2> QED
    BY <1>1, <2>1, <2>2
<1>3. PICK m \in Seq(Bytes) : Lag(t, ns, T, m) /\ Len(m) <= INTERNED_NEW /\ Agree(m, n.pool)
  BY <1>2
<1>4. Onward(n, e, T, m)
  BY <1>1
<1>5. ASSUME NEW fin, NEW q, ReadsTo(V, fin, q), q.pool = n.pool, Within(e, T, fin, q, m, evs)
      PROVE  Parses(V, t, ns, "writing", <<e>>, evs)
  <2>1. Fits("writing", T, fin, q, m, <<e>>, evs)
    BY <1>5 DEF Fits
  <2>2. Agree(m, q.pool)
    BY <1>3, <1>5
  <2> QED
    BY <1>3, <1>5, <2>1, <2>2 DEF Parses
<1>6. CASE n.at = "done" /\ Event(n) = e /\ T = <<>>
  <2> DEFINE q == Start(n.pool)
  <2>1. ReadsTo(V, Append(evs, e), q)
    BY <1>6 DEF Reached, Reading
  <2>2. q.pool = n.pool
    BY DEF Start
  <2>3. Within(e, T, Append(evs, e), q, m, evs)
    BY <1>6, <2>2 DEF Within
  <2> HIDE DEF q
  <2> QED
    BY <1>5, <2>1, <2>2, <2>3
<1>7. CASE n.at \in Reading \ {"token"} /\ Form(n, e, T, m)
  <2>1. ReadsTo(V, evs, n)
    BY <1>7 DEF Reached, Reading
  <2>2. Within(e, T, evs, n, m, evs)
    BY <1>7 DEF Within
  <2> QED
    BY <1>5, <2>1, <2>2
<1> QED
  BY <1>4, <1>6, <1>7 DEF Onward

LEMMA TakenGoesOn ==
  ASSUME NEW n, NEW g, NEW b, NEW e, NEW t, Taken(n, g, b, e, t)
  PROVE  n.at \in (Reading \ {"token"}) \cup {"done"}
BY DEF Taken, Onward

\* Bytes are put out: the parser reads them.
LEMMA ParsesRaw ==
  ASSUME NEW W \in Bytes, NEW b \in Bytes, NEW t \in Seq(Operation), NEW ns \in Seq(Bytes),
         NEW p, NEW cur, NEW evs, Parses(W, Then(Raw(b), t), ns, p, cur, evs)
  PROVE  Parses(W \o b, t, ns, "writing", cur, evs)
<1> DEFINE V == W \o b
<1>0. V \in Bytes /\ Raw(b) \in Operation /\ Raw(b).op # "cache"
  BY MoreBytes, OperationTypes
<1> HIDE DEF V
<1>1. Len(ns) <= INTERNED_NEW /\ Midst(W, Raw(b), t, ns, cur, evs)
  BY <1>0, ParsesHead
<1>2. PICK fin, g : \E e \in Events :
        /\ ReadsTo(W, fin, g) /\ Agree(ns, g.pool) /\ cur = <<e>> /\ g \in GrammarState
        /\ \/ /\ Raw(b) = Raw(<<EventToken(e)>>) /\ t = EventRest(e) /\ Boundary(fin, g, evs)
           \/ Form(g, e, Then(Raw(b), t), ns) /\ fin = evs
  BY <1>1 DEF Midst
<1>3. PICK e \in Events :
        /\ ReadsTo(W, fin, g) /\ Agree(ns, g.pool) /\ cur = <<e>> /\ g \in GrammarState
        /\ \/ /\ Raw(b) = Raw(<<EventToken(e)>>) /\ t = EventRest(e) /\ Boundary(fin, g, evs)
           \/ Form(g, e, Then(Raw(b), t), ns) /\ fin = evs
  BY <1>2
<1>4. e \in AnyEvent /\ WellTyped(e) /\ g.pool \in Seq(Bytes)
  BY <1>3, EventsFacts, GrammarFields
<1>5. CASE Form(g, e, Then(Raw(b), t), ns) /\ fin = evs
  <2> DEFINE n == Given(g, b)
  <2>1. Taken(n, g, b, e, t)
    BY <1>1, <1>3, <1>4, <1>5, TakenForm
  <2> HIDE DEF n
  <2>2. n = Given(g, b)
    BY DEF n
  <2>3. Len(b) = Wants(g) /\ n.cur = g.cur + Len(b) /\ n.at \in (Reading \ {"token"}) \cup {"done"}
    BY <2>1, TakenGoesOn DEF Taken
  <2>4. Reached(V, evs, n)
    BY <1>3, <1>5, <2>2, <2>3, ReadsOn DEF V
  <2> QED
    BY <1>0, <1>1, <1>3, <2>1, <2>4, ParsesTaken DEF V
<1>6. CASE Raw(b) = Raw(<<EventToken(e)>>) /\ t = EventRest(e) /\ Boundary(fin, g, evs)
  <2> DEFINE q == Start(g.pool)
             k == EventToken(e)
             n == Given(q, b)
  <2>1. b = <<k>> /\ k \in Byte /\ Command(k) # CMD_ATTRIBUTE
    BY <1>4, <1>6, OperationsDiffer, EventSplit, TokenCommand
  <2>2. Taken(n, q, b, e, t)
    BY <1>4, <1>6, <2>1, TakenToken
  <2>3. q \in GrammarState /\ q.pool = g.pool /\ q.cur = 0
    BY <1>4, StartType DEF Start
  <2> HIDE DEF n, q, k
  <2>4. /\ Len(b) = Wants(q) /\ n.cur = q.cur + Len(b) /\ Len(b) = 1
        /\ n.at \in (Reading \ {"token"}) \cup {"done"}
    BY <2>1, <2>2, TakenGoesOn DEF Taken
  <2>5. Reached(V, evs, n)
    <3>1. CASE g = Start(g.pool) /\ fin = evs
      <4>1. g = q /\ n = Given(g, b) /\ n.cur = g.cur + Len(b) /\ Len(b) = Wants(g)
        BY <2>4, <3>1 DEF q, n
      <4> QED
        BY <1>3, <2>4, <3>1, <4>1, ReadsOn DEF V
    <3>2. CASE g.at = "attrs" /\ Append(fin, Event(g)) = evs
      <4>1. n = Given(Start(g.pool), <<k>>) /\ n.cur = 1
        BY <2>1, <2>3, <2>4 DEF n, q
      <4>2. Reached(W \o <<k>>, Append(fin, Event(g)), n)
        BY <1>3, <2>1, <2>4, <3>2, <4>1, ReadsNext
      <4> QED
        BY <2>1, <3>2, <4>2 DEF V
    <3> QED
      BY <1>6, <3>1, <3>2 DEF Boundary
  <2>6. Agree(ns, q.pool)
    BY <1>3, <2>3
  <2> QED
    BY <1>0, <1>1, <1>3, <2>2, <2>3, <2>5, <2>6, ParsesTaken DEF V
<1> QED
  BY <1>3, <1>5, <1>6

\* The name that is out joins the writer's pool.
LEMMA ParsesCache ==
  ASSUME NEW W \in Bytes, NEW s \in Bytes, NEW t \in Seq(Operation), NEW ns \in Seq(Bytes),
         NEW p, NEW cur, NEW evs, Parses(W, Then(Cache(s), t), ns, p, cur, evs)
  PROVE  Parses(W, t, NamesAfter(ns, s), p, cur, evs)
<1> DEFINE ops == Then(Cache(s), t)
<1>1. Cache(s) \in Operation /\ Cache(s).op = "cache"
  BY OperationTypes
<1>2. ops # <<>>
  BY <1>1, ThenFacts
<1> HIDE DEF ops
<1>0. PICK fin, g : \E T \in Seq(Operation), m \in Seq(Bytes) :
        /\ ReadsTo(W, fin, g)
        /\ Lag(ops, ns, T, m) /\ Len(m) <= INTERNED_NEW /\ Agree(m, g.pool)
        /\ Fits(p, T, fin, g, m, cur, evs)
  BY DEF Parses, ops
<1>3. PICK T \in Seq(Operation), m \in Seq(Bytes) :
        /\ ReadsTo(W, fin, g)
        /\ Lag(ops, ns, T, m) /\ Len(m) <= INTERNED_NEW /\ Agree(m, g.pool)
        /\ Fits(p, T, fin, g, m, cur, evs)
  BY <1>0
<1>4. T # ops
  <2> SUFFICES ASSUME T = ops PROVE FALSE
    OBVIOUS
  <2>1. PICK e \in Events : Within(e, ops, fin, g, m, evs)
    BY <1>2, <1>3 DEF Fits
  <2>2. e \in AnyEvent /\ WellTyped(e) /\ g \in GrammarState
    BY <1>3, EventsFacts, ReadsToType
  <2>3. ops # EventOps(e)
    <3>1. /\ EventOps(e) = Then(Raw(<<EventToken(e)>>), EventRest(e))
          /\ Raw(<<EventToken(e)>>) \in Operation /\ EventRest(e) \in Seq(Operation)
      BY <2>2, EventSplit
    <3>2. Cache(s) # Raw(<<EventToken(e)>>)
      BY <1>1 DEF Raw
    <3> QED
      BY <1>1, <3>1, <3>2, ThenEqual DEF ops
  <2>4. ~Form(g, e, ops, m)
    <3> SUFFICES ASSUME Form(g, e, ops, m) PROVE FALSE
      OBVIOUS
    <3>1. Unfolds(g, e, Cache(s), t, m)
      BY <1>1, <2>2, FormUnfolds DEF ops
    <3> QED
      BY <1>1, <3>1 DEF Unfolds
  <2> QED
    BY <1>2, <2>1, <2>3, <2>4 DEF Within
<1>5. PICK z \in Bytes : ops = Then(Cache(z), T) /\ m = NamesAfter(ns, z)
  BY <1>3, <1>4 DEF Lag
<1>6. z = s /\ T = t
  <2>1. Cache(z) \in Operation /\ Cache(z).bytes = z /\ Cache(s).bytes = s
    BY OperationTypes
  <2>2. Cache(z) = Cache(s) /\ T = t
    BY <1>1, <1>5, <2>1, ThenEqual DEF ops
  <2>3. Cache(z).bytes = Cache(s).bytes
    BY <2>2
  <2> QED
    BY <2>1, <2>2, <2>3
<1>7. Lag(t, m, t, m)
  BY DEF Lag
<1> QED
  BY <1>3, <1>5, <1>6, <1>7 DEF Parses

\* write_event begins, and ends.
LEMMA ParsesCall ==
  ASSUME NEW W \in Bytes, NEW ns \in Seq(Bytes), NEW cur, NEW evs, NEW e \in Events,
         Parses(W, <<>>, ns, "idle", cur, evs)
  PROVE  Parses(W, EventOps(e), ns, "writing", <<e>>, evs)
<1>0. PICK fin, g : \E T \in Seq(Operation), m \in Seq(Bytes) :
        /\ ReadsTo(W, fin, g)
        /\ Lag(<<>>, ns, T, m) /\ Len(m) <= INTERNED_NEW /\ Agree(m, g.pool)
        /\ Fits("idle", T, fin, g, m, cur, evs)
  BY DEF Parses
<1>1. PICK T \in Seq(Operation), m \in Seq(Bytes) :
        /\ ReadsTo(W, fin, g)
        /\ Lag(<<>>, ns, T, m) /\ Len(m) <= INTERNED_NEW /\ Agree(m, g.pool)
        /\ Fits("idle", T, fin, g, m, cur, evs)
  BY <1>0
<1>2. ASSUME NEW s \in Bytes PROVE Then(Cache(s), T) # <<>>
  BY OperationTypes, ThenFacts
<1>3. m = ns
  BY <1>1, <1>2 DEF Lag
<1>4. Within(e, EventOps(e), fin, g, ns, evs)
  BY <1>1 DEF Fits, Within
<1>5. EventOps(e) \in Seq(Operation)
  BY EventsFacts, EventOpsType
<1> QED
  BY <1>1, <1>3, <1>4, <1>5, ParsesStill

LEMMA EventsAreRecords ==
  /\ \A e \in Events : e \in EventRecord
  /\ \A s \in Seq(Events) : s \in Seq(EventRecord)
<1>1. \A e \in Events : e \in EventRecord
  BY EventsFacts DEF AnyEvent, EventRecord, CMD_START_DOCUMENT, CMD_DOCDECL
<1>2. ASSUME NEW s \in Seq(Events) PROVE s \in Seq(EventRecord)
  <2>1. s \in [1..Len(s) -> Events] /\ Len(s) \in Nat
    BY LenProperties
  <2>2. s \in [1..Len(s) -> EventRecord]
    BY <1>1, <2>1
  <2> QED
    BY <2>1, <2>2, SeqDef
<1> QED
  BY <1>1, <1>2

LEMMA ParsesWritten ==
  ASSUME NEW W \in Bytes, NEW ns \in Seq(Bytes), NEW cur, NEW evs \in Seq(Events),
         Parses(W, <<>>, ns, "writing", cur, evs)
  PROVE  Parses(W, <<>>, ns, "idle", <<>>, evs \o cur)
<1>0. PICK fin, g : \E T \in Seq(Operation), m \in Seq(Bytes) :
        /\ ReadsTo(W, fin, g)
        /\ Lag(<<>>, ns, T, m) /\ Len(m) <= INTERNED_NEW /\ Agree(m, g.pool)
        /\ Fits("writing", T, fin, g, m, cur, evs)
  BY DEF Parses
<1>1. PICK T \in Seq(Operation), m \in Seq(Bytes) :
        /\ ReadsTo(W, fin, g)
        /\ Lag(<<>>, ns, T, m) /\ Len(m) <= INTERNED_NEW /\ Agree(m, g.pool)
        /\ Fits("writing", T, fin, g, m, cur, evs)
  BY <1>0
<1>2. ASSUME NEW s \in Bytes PROVE Then(Cache(s), T) # <<>>
  BY OperationTypes, ThenFacts
<1>3. m = ns /\ T = <<>>
  BY <1>1, <1>2 DEF Lag
<1>4. PICK e \in Events : cur = <<e>> /\ Within(e, <<>>, fin, g, ns, evs)
  BY <1>1, <1>3 DEF Fits
<1>5. e \in AnyEvent /\ WellTyped(e) /\ g \in GrammarState
  BY <1>1, EventsFacts, ReadsToType
<1>6. EventOps(e) # <<>>
  <2>1. /\ EventOps(e) = Then(Raw(<<EventToken(e)>>), EventRest(e))
        /\ Raw(<<EventToken(e)>>) \in Operation /\ EventRest(e) \in Seq(Operation)
    BY <1>5, EventSplit
  <2> QED
    BY <2>1, ThenFacts
<1>7. evs \o cur = Append(evs, e)
  BY <1>4, AppendIsConcat
<1>8. Boundary(fin, g, evs \o cur)
  <2>1. CASE Form(g, e, <<>>, ns) /\ fin = evs
    BY <1>5, <1>7, <2>1, FormIsOver DEF Boundary
  <2>2. CASE g = Start(g.pool) /\ fin = Append(evs, e)
    BY <1>7, <2>2 DEF Boundary
  <2> QED
    BY <1>4, <1>6, <2>1, <2>2 DEF Within
<1>9. Fits("idle", <<>>, fin, g, ns, <<>>, evs \o cur)
  BY <1>8 DEF Fits
<1>10. Lag(<<>>, ns, <<>>, ns)
  BY DEF Lag
<1> QED
  BY <1>1, <1>3, <1>9, <1>10 DEF Parses

LEMMA NothingMore ==
  ASSUME NEW W \in Bytes
  PROVE  <<>> \in Bytes /\ Len(<<>>) = 0 /\ W \o <<>> = W
BY ConcatEmptySeq DEF Bytes

LEMMA ReadsNow ==
  ASSUME NEW W \in Bytes, NEW fin, NEW g, ReadsTo(W, fin, g), Wants(g) >= 1
  PROVE  LET s == Decode(W)
         IN /\ g.at = "token" /\ g.cur = 0 =>
                 s.events = fin /\ s.rest = <<>> /\ s.pool = g.pool /\ ~s.failed
            /\ g.at = "attrs" =>
                 s.events = Append(fin, Event(g)) /\ s.rest = <<>> /\ s.pool = g.pool /\ ~s.failed
            /\ g.at # "attrs" => s.events = fin
<1> DEFINE b == <<>>
           s == Decode(W \o b)
<1>1. b \in Bytes /\ Len(b) = 0 /\ W \o b = W /\ b = <<>>
  BY NothingMore
<1>2. s = Decode(W)
  BY <1>1
<1>6. b \in Bytes
  BY <1>1
<1> HIDE DEF b
<1>3. g \in GrammarState /\ Wants(g) \in Nat
  BY ReadsToType, WantsType
<1>4. Len(b) < Wants(g)
  BY <1>1, <1>3
<1>5. /\ g.at = "token" /\ g.cur = 0 =>
           s.events = fin /\ s.rest = <<>> /\ s.pool = g.pool /\ ~s.failed
      /\ g.at = "attrs" =>
           s.events = Append(fin, Event(g)) /\ s.rest = <<>> /\ s.pool = g.pool /\ ~s.failed
      /\ g.at # "attrs" => s.events = fin
  <2>1. /\ g.at = "token" /\ g.cur = 0 /\ b = <<>> =>
              s.events = fin /\ s.rest = <<>> /\ s.pool = g.pool /\ ~s.failed
        /\ g.at = "attrs" =>
              s.events = Append(fin, Event(g)) /\ s.rest = <<>> /\ s.pool = g.pool /\ ~s.failed
        /\ g.at # "attrs" => s.events = fin
    BY <1>6, <1>4, ReadsOut
  <2> HIDE DEF s
  <2> QED
    BY <1>1, <2>1
<1> HIDE DEF s
<1> QED
  BY <1>2, <1>5

\* Between the calls the bytes read as the events written, and nothing is missing.
LEMMA ParsesEvents ==
  ASSUME NEW W \in Bytes, NEW ns \in Seq(Bytes), NEW cur, NEW evs,
         Parses(W, <<>>, ns, "idle", cur, evs)
  PROVE  LET s == Decode(W)
         IN /\ s.events = evs /\ s.rest = <<>> /\ ~s.failed /\ Agree(ns, s.pool)
            /\ s.pool \in Seq(Bytes) /\ Len(ns) <= INTERNED_NEW
<1> DEFINE s == Decode(W)
<1>0. PICK fin, g : \E T \in Seq(Operation), m \in Seq(Bytes) :
        /\ ReadsTo(W, fin, g)
        /\ Lag(<<>>, ns, T, m) /\ Len(m) <= INTERNED_NEW /\ Agree(m, g.pool)
        /\ Fits("idle", T, fin, g, m, cur, evs)
  BY DEF Parses
<1>1. PICK T \in Seq(Operation), m \in Seq(Bytes) :
        /\ ReadsTo(W, fin, g)
        /\ Lag(<<>>, ns, T, m) /\ Len(m) <= INTERNED_NEW /\ Agree(m, g.pool)
        /\ Fits("idle", T, fin, g, m, cur, evs)
  BY <1>0
<1>2. ASSUME NEW z \in Bytes PROVE Then(Cache(z), T) # <<>>
  BY OperationTypes, ThenFacts
<1>3. m = ns
  BY <1>1, <1>2 DEF Lag
<1>4. Boundary(fin, g, evs) /\ g.pool \in Seq(Bytes)
  BY <1>1, ReadsToType, GrammarFields DEF Fits
<1>5. CASE g = Start(g.pool) /\ fin = evs
  <2>1. g.at = "token" /\ g.cur = 0 /\ Wants(g) = 1 /\ Wants(g) >= 1
    BY <1>5 DEF Start, Wants
  <2>2. s.events = fin /\ s.rest = <<>> /\ s.pool = g.pool /\ ~s.failed
    BY <1>1, <2>1, ReadsNow
  <2> HIDE DEF s
  <2> QED
    BY <1>1, <1>3, <1>4, <1>5, <2>2 DEF s
<1>6. CASE g.at = "attrs" /\ Append(fin, Event(g)) = evs
  <2>1. Wants(g) = 1 /\ Wants(g) >= 1
    BY <1>6 DEF Wants
  <2>2. s.events = Append(fin, Event(g)) /\ s.rest = <<>> /\ s.pool = g.pool /\ ~s.failed
    BY <1>1, <1>6, <2>1, ReadsNow
  <2> HIDE DEF s
  <2> QED
    BY <1>1, <1>3, <1>4, <1>6, <2>2 DEF s
<1> QED
  BY <1>4, <1>5, <1>6 DEF Boundary

-----------------------------------------------------------------------------
(***************************************************************************)
(* Output cut short.                                                       *)
(***************************************************************************)
Cut(events, cur, evs) ==
  /\ IsPrefixOf(evs, events)
  /\ Len(events) > Len(evs) =>
       /\ Len(events) = Len(evs) + 1
       /\ cur # <<>>
       /\ events[Len(evs) + 1].command = cur[1].command
       /\ events[Len(evs) + 1].text = cur[1].text
       /\ IsPrefixOf(events[Len(evs) + 1].attributes, cur[1].attributes)

LEMMA LongerIsPrefix ==
  ASSUME NEW S, NEW s \in Seq(S), NEW t \in Seq(S), Longer(s, t)
  PROVE  IsPrefixOf(s, t)
<1> DEFINE u == SubSeq(t, 1, Len(s))
<1>1. Len(s) \in Nat /\ Len(t) \in Nat /\ Len(s) <= Len(t) /\ \A i \in 1..Len(s) : t[i] = s[i]
  BY LenProperties DEF Longer
<1>2. \A i \in 1..Len(s) : t[i] \in S
  BY <1>1, ElementOfSeq
<1>3. u \in Seq(S) /\ Len(u) = Len(s) /\ \A i \in 1..Len(s) : u[i] = t[1 + i - 1]
  <2>1. /\ u \in Seq(S)
        /\ Len(u) = IF 1 <= Len(s) THEN Len(s) - 1 + 1 ELSE 0
        /\ \A i \in 1..(Len(s) - 1 + 1) : u[i] = t[1 + i - 1]
    BY <1>1, <1>2, SubSeqProperties
  <2> HIDE DEF u
  <2> QED
    BY <1>1, <2>1
<1> HIDE DEF u
<1>4. \A i \in 1..Len(s) : u[i] = s[i]
  BY <1>1, <1>3
<1>5. u = s
  BY <1>3, <1>4, SeqEqual
<1> QED
  BY <1>1, <1>5 DEF IsPrefixOf, u

LEMMA CutNothing ==
  ASSUME NEW evs \in Seq(EventRecord), NEW cur
  PROVE  Cut(evs, cur, evs)
<1>1. Longer(evs, evs) /\ Len(evs) \in Nat
  BY LenProperties DEF Longer
<1> QED
  BY <1>1, LongerIsPrefix DEF Cut

LEMMA CutOne ==
  ASSUME NEW evs \in Seq(EventRecord), NEW x \in EventRecord, NEW e \in EventRecord,
         x.command = e.command, x.text = e.text, Longer(x.attributes, e.attributes)
  PROVE  Cut(Append(evs, x), <<e>>, evs)
<1> DEFINE a == Append(evs, x)
           c == <<e>>
<1>1. a \in Seq(EventRecord) /\ Len(a) = Len(evs) + 1 /\ a[Len(evs) + 1] = x
  BY AppendProperties
<1>2. IsPrefixOf(evs, a)
  <2>1. Longer(evs, a)
    BY LongerFacts
  <2> QED
    BY <1>1, <2>1, LongerIsPrefix
<1>3. c # <<>> /\ c[1] = e
  OBVIOUS
<1>4. IsPrefixOf(x.attributes, e.attributes)
  BY LongerIsPrefix DEF EventRecord
<1> HIDE DEF a, c
<1> QED
  BY <1>1, <1>2, <1>3, <1>4 DEF Cut, a, c

\* The output ends where the parser waits for more of the event e, or behind it.
LEMMA CutWithin ==
  ASSUME NEW W \in Bytes, NEW fin, NEW g, ReadsTo(W, fin, g), NEW b \in Bytes, Len(b) < Wants(g),
         NEW e \in Events, NEW T, NEW ns, NEW evs \in Seq(EventRecord),
         Within(e, T, fin, g, ns, evs)
  PROVE  Cut(Decode(W \o b).events, <<e>>, evs)
<1> DEFINE es == Decode(W \o b).events
<1>1. (g.at = "attrs" => es = Append(fin, Event(g))) /\ (g.at # "attrs" => es = fin)
  <2> DEFINE s == Decode(W \o b)
  <2>1. /\ g.at = "token" /\ g.cur = 0 /\ b = <<>> =>
                 s.events = fin /\ s.rest = <<>> /\ s.pool = g.pool /\ ~s.failed
        /\ g.at = "attrs" =>
                 s.events = Append(fin, Event(g)) /\ s.rest = <<>> /\ s.pool = g.pool /\ ~s.failed
        /\ g.at # "attrs" => s.events = fin
    BY ReadsOut
  <2> HIDE DEF s
  <2> QED
    BY <2>1 DEF s
<1> HIDE DEF es
<1>2. g \in GrammarState /\ e \in EventRecord /\ e \in AnyEvent
  BY ReadsToType, EventsAreRecords, EventsFacts
<1>3. CASE es = evs
  BY <1>3, CutNothing DEF es
<1>4. CASE g = Start(g.pool) /\ fin = Append(evs, e)
  <2>1. es = Append(evs, e)
    BY <1>1, <1>4 DEF Start
  <2>2. Longer(e.attributes, e.attributes)
    BY <1>2, EventFields DEF Longer
  <2> QED
    BY <1>2, <2>1, <2>2, CutOne DEF es
<1>5. CASE Boundary(fin, g, evs)
  <2>1. es = evs
    BY <1>1, <1>5 DEF Boundary, Start
  <2> QED
    BY <1>3, <2>1
<1>6. CASE Form(g, e, T, ns) /\ fin = evs
  <2>1. CASE g.at # "attrs"
    BY <1>1, <1>3, <1>6, <2>1
  <2>2. CASE g.at = "attrs"
    <3>1. InTag(g, e)
      BY <1>6, <2>2 DEF Form, IndexForm, LengthForm, PayloadForm, ScalarForm, AttrsForm
    <3>2. es = Append(evs, Event(g))
      BY <1>1, <1>6, <2>2
    <3>3. /\ Event(g) \in EventRecord /\ Event(g).command = e.command /\ Event(g).text = e.text
          /\ Longer(Event(g).attributes, e.attributes)
      BY <1>2, <3>1 DEF Event, EventRecord, InTag, GrammarState, GrammarRecord
    <3> QED
      BY <1>2, <3>2, <3>3, CutOne DEF es
  <2> QED
    BY <2>1, <2>2
<1> QED
  BY <1>4, <1>5, <1>6 DEF Within

\* The sink has taken some of the bytes of a write_all.
LEMMA ParsesCut ==
  ASSUME NEW W \in Bytes, NEW b \in Bytes, NEW t \in Seq(Operation), NEW ns \in Seq(Bytes),
         NEW p, NEW cur, NEW evs \in Seq(EventRecord), Parses(W, Then(Raw(b), t), ns, p, cur, evs),
         NEW c \in Bytes, Len(c) < Len(b)
  PROVE  Cut(Decode(W \o c).events, cur, evs)
<1>0. Raw(b) \in Operation /\ Raw(b).op # "cache"
  BY OperationTypes
<1>1. Len(ns) <= INTERNED_NEW /\ Midst(W, Raw(b), t, ns, cur, evs)
  BY <1>0, ParsesHead
<1>2. PICK fin, g : \E e \in Events :
        /\ ReadsTo(W, fin, g) /\ Agree(ns, g.pool) /\ cur = <<e>> /\ g \in GrammarState
        /\ \/ /\ Raw(b) = Raw(<<EventToken(e)>>) /\ t = EventRest(e) /\ Boundary(fin, g, evs)
           \/ Form(g, e, Then(Raw(b), t), ns) /\ fin = evs
  BY <1>1 DEF Midst
<1>3. PICK e \in Events :
        /\ ReadsTo(W, fin, g) /\ Agree(ns, g.pool) /\ cur = <<e>> /\ g \in GrammarState
        /\ \/ /\ Raw(b) = Raw(<<EventToken(e)>>) /\ t = EventRest(e) /\ Boundary(fin, g, evs)
           \/ Form(g, e, Then(Raw(b), t), ns) /\ fin = evs
  BY <1>2
<1>4. e \in AnyEvent /\ WellTyped(e)
  BY EventsFacts
<1>5. CASE Form(g, e, Then(Raw(b), t), ns) /\ fin = evs
  <2>1. Len(b) = Wants(g)
    BY <1>1, <1>3, <1>4, <1>5, TakenForm DEF Taken
  <2>2. Within(e, Then(Raw(b), t), fin, g, ns, evs)
    BY <1>5 DEF Within
  <2>3. Len(c) < Wants(g)
    BY <2>1
  <2> QED
    BY <1>3, <2>2, <2>3, CutWithin
<1>6. CASE Raw(b) = Raw(<<EventToken(e)>>) /\ t = EventRest(e) /\ Boundary(fin, g, evs)
  <2>1. b = <<EventToken(e)>>
    BY <1>6, OperationsDiffer
  <2>2. Len(b) = 1
    BY <2>1
  <2>3. Wants(g) = 1
    BY <1>6 DEF Boundary, Wants, Start
  <2>4. Within(e, EventOps(e), fin, g, ns, evs)
    BY <1>6 DEF Within
  <2>5. Len(c) < Wants(g)
    BY <2>2, <2>3
  <2> QED
    BY <1>3, <2>4, <2>5, CutWithin
<1> QED
  BY <1>3, <1>5, <1>6

\* The step that follows a payload reads no payload.
LEMMA PayloadIsOne ==
  ASSUME NEW g \in GrammarState, NEW b \in Bytes, g.at = "payload"
  PROVE  Given(g, b).at # "payload"
<1> DEFINE h == [g EXCEPT !.cur = g.cur + Len(b)]
           k == [h EXCEPT !.pool = IF h.interning THEN Append(@, b) ELSE @]
           n == Given(g, b)
<1>1. n = Payload(h, b)
  BY DEF Given
<1>2. h \in GrammarState
  BY Moved
<1> HIDE DEF h, n
<1>3. k \in GrammarState
  <2>1. h.pool \in Seq(Bytes) /\ Append(h.pool, b) \in Seq(Bytes)
    BY <1>2, GrammarFields, AppendProperties
  <2> QED
    BY <1>2, <2>1 DEF GrammarState, GrammarRecord
<1>4. Payload(h, b) \in {Deliver(h, b), Fail(h, "InvalidUtf8", 0), Deliver(k, b)}
  BY DEF Payload
<1> HIDE DEF k
<1>5. Deliver(h, b).at # "payload" /\ Deliver(k, b).at # "payload"
  BY <1>2, <1>3, DeliverSettles DEF Settled, Final
<1>6. Fail(h, "InvalidUtf8", 0).at # "payload"
  BY <1>2 DEF Fail, GrammarState, GrammarRecord
<1> QED
  BY <1>1, <1>4, <1>5, <1>6 DEF n

LEMMA WaitsForMore ==
  ASSUME NEW W \in Bytes, NEW fin, NEW g, ReadsTo(W, fin, g), g.at # "payload"
  PROVE  Wants(g) >= 1
<1>1. PICK o, p : Standing(W, o, fin, p, g) /\ g.at \in Reading
  BY DEF ReadsTo
<1>2. /\ Stands(W, o, fin, p, g) /\ From(W, o) \in Bytes /\ p \in Seq(Bytes)
  BY <1>1, StandingType
<1>3. OnRun(g, From(W, o), p)
  BY <1>2 DEF Stands
<1>4. Sized(g)
  BY <1>2, <1>3, RunStepsRunning DEF OnRun, Running
<1> QED
  BY <1>1, <1>4 DEF Sized, Wants, Reading

\* The output as it is in the midst of an event.  A payload of no bytes is read already.
LEMMA CutMidst ==
  ASSUME NEW W \in Bytes, NEW fin, NEW g, ReadsTo(W, fin, g), NEW e \in Events,
         NEW T \in Seq(Operation), NEW ns \in Seq(Bytes), NEW evs \in Seq(EventRecord),
         Within(e, T, fin, g, ns, evs)
  PROVE  Cut(Decode(W).events, <<e>>, evs)
<1>1. ASSUME NEW fin2, NEW g2, ReadsTo(W, fin2, g2), Wants(g2) >= 1, NEW T2, NEW ns2,
             Within(e, T2, fin2, g2, ns2, evs)
      PROVE  Cut(Decode(W).events, <<e>>, evs)
  <2> DEFINE z == <<>>
  <2>1. z \in Bytes /\ Len(z) = 0
    BY NothingMore
  <2>2. W \o z = W
    BY NothingMore
  <2> HIDE DEF z
  <2>3. Len(z) < Wants(g2)
    <3>1. Wants(g2) \in Nat
      BY <1>1, ReadsToType, WantsType
    <3> QED
      BY <1>1, <2>1, <3>1
  <2>4. Cut(Decode(W \o z).events, <<e>>, evs)
    BY <1>1, <2>1, <2>3, CutWithin
  <2> QED
    BY <2>2, <2>4
<1>2. CASE Wants(g) >= 1
  BY <1>1, <1>2
<1>3. CASE ~(Wants(g) >= 1)
  <2>1. g.at = "payload" /\ g \in GrammarState /\ e \in AnyEvent /\ WellTyped(e)
    BY <1>3, WaitsForMore, ReadsToType, EventsFacts
  <2>2. PayloadForm(g, e, T) /\ fin = evs
    BY <2>1 DEF Within, Boundary, Start, Form, IndexForm, LengthForm, ScalarForm, AttrsForm
  <2> DEFINE b == Str(g, e)
             n == Given(g, b)
             V == W \o b
  <2>3. b \in Bytes /\ Len(b) \in Nat /\ Behind2(g, e) \in Seq(Operation) /\ InString(g, e)
    BY <2>1, <2>2, StringTypes DEF PayloadForm
  <2>4. Len(b) = 0
    <3>1. Wants(g) = g.size /\ g.size = Len(b)
      BY <2>1, <2>2 DEF PayloadForm, Wants
    <3> QED
      BY <1>3, <2>3, <3>1
  <2>5. V = W
    <3>1. b = <<>>
      BY <2>3, <2>4, EmptySeq DEF Bytes
    <3> QED
      BY <3>1, NothingMore
  <2>6. Taken(n, g, b, e, Behind2(g, e))
    BY <2>1, <2>2, <2>3, TakenPayload DEF PayloadForm
  <2>7. n.at # "payload"
    BY <2>1, <2>3, PayloadIsOne
  <2>8. n = Given(g, b)
    OBVIOUS
  <2> HIDE DEF n, b
  <2>9. Len(b) = Wants(g) /\ n.cur = g.cur + Len(b) /\ n.at \in (Reading \ {"token"}) \cup {"done"}
    BY <2>6, TakenGoesOn DEF Taken
  <2>10. Reached(V, fin, n)
    BY <2>3, <2>8, <2>9, ReadsOn
  <2> HIDE DEF V
  <2>11. PICK U \in Seq(Operation) : \A m : Onward(n, e, U, m)
    BY <2>6 DEF Taken
  <2>12. Onward(n, e, U, ns)
    BY <2>11
  <2>13. CASE n.at = "done" /\ Event(n) = e /\ U = <<>>
    <3> DEFINE q == Start(n.pool)
    <3>1. ReadsTo(W, Append(evs, e), q)
      BY <2>2, <2>5, <2>10, <2>13 DEF Reached, Reading
    <3>2. q.pool = n.pool /\ Wants(q) >= 1
      BY DEF Start, Wants
    <3>3. Within(e, U, Append(evs, e), q, ns, evs)
      BY <2>13, <3>2 DEF Within
    <3> HIDE DEF q
    <3> QED
      BY <1>1, <3>1, <3>2, <3>3
  <2>14. CASE n.at \in Reading \ {"token"} /\ Form(n, e, U, ns)
    <3>1. ReadsTo(W, evs, n)
      BY <2>2, <2>5, <2>10, <2>14 DEF Reached, Reading
    <3>2. Within(e, U, evs, n, ns, evs)
      BY <2>14 DEF Within
    <3>3. Wants(n) >= 1
      BY <2>7, <3>1, WaitsForMore
    <3> QED
      BY <1>1, <3>1, <3>2, <3>3
  <2> QED
    BY <2>12, <2>13, <2>14 DEF Onward
<1> QED
  BY <1>2, <1>3

LEMMA ParsesNow ==
  ASSUME NEW W \in Bytes, NEW ops, NEW ns \in Seq(Bytes), NEW p, NEW cur,
         NEW evs \in Seq(EventRecord), Parses(W, ops, ns, p, cur, evs)
  PROVE  Cut(Decode(W).events, cur, evs)
<1>0. PICK fin, g : \E T \in Seq(Operation), m \in Seq(Bytes) :
        /\ ReadsTo(W, fin, g)
        /\ Lag(ops, ns, T, m) /\ Len(m) <= INTERNED_NEW /\ Agree(m, g.pool)
        /\ Fits(p, T, fin, g, m, cur, evs)
  BY DEF Parses
<1>1. PICK T \in Seq(Operation), m \in Seq(Bytes) :
        /\ ReadsTo(W, fin, g)
        /\ Fits(p, T, fin, g, m, cur, evs)
  BY <1>0
<1>2. CASE \E e \in Events : cur = <<e>> /\ Within(e, T, fin, g, m, evs)
  BY <1>1, <1>2, CutMidst
<1>3. CASE Boundary(fin, g, evs)
  <2>1. Wants(g) >= 1
    BY <1>3 DEF Boundary, Wants, Start
  <2>2. Decode(W).events = evs
    <3>1. CASE g.at = "attrs"
      <4>1. Decode(W).events = Append(fin, Event(g))
        BY <1>1, <2>1, <3>1, ReadsNow
      <4> QED
        BY <1>3, <3>1, <4>1 DEF Boundary, Start
    <3>2. CASE g.at # "attrs"
      <4>1. Decode(W).events = fin
        BY <1>1, <2>1, <3>2, ReadsNow
      <4> QED
        BY <1>3, <3>2, <4>1 DEF Boundary
    <3> QED
      BY <3>1, <3>2
  <2> QED
    BY <2>2, CutNothing
<1> QED
  BY <1>1, <1>2, <1>3 DEF Fits

-----------------------------------------------------------------------------
(***************************************************************************)
(* The states of the writer.                                               *)
(***************************************************************************)
BodyOf(d) == SubSeq(d, 5, Len(d))

LEMMA BodyType ==
  ASSUME NEW d \in Bytes, Len(d) >= 4
  PROVE  /\ BodyOf(d) \in Bytes /\ Len(BodyOf(d)) = Len(d) - 4
         /\ \A i \in 1..(Len(d) - 4) : BodyOf(d)[i] = d[4 + i]
<1>1. Len(d) \in Nat /\ 4 \in 0..Len(d) /\ 4 + 1 = 5
  BY LenProperties DEF Bytes
<1>2. BodyOf(d) = SubSeq(d, 4 + 1, Len(d))
  BY <1>1 DEF BodyOf
<1> QED
  BY <1>1, <1>2, RestType

LEMMA BodyGrows ==
  ASSUME NEW d \in Bytes, Len(d) >= 4, NEW b \in Bytes
  PROVE  /\ d \o b \in Bytes /\ Len(d \o b) >= 4
         /\ BodyOf(d) \in Bytes /\ BodyOf(d \o b) = BodyOf(d) \o b
<1> DEFINE w == d \o b
           u == BodyOf(w)
<1>1. /\ Len(d) \in Nat /\ Len(b) \in Nat /\ w \in Bytes /\ Len(w) = Len(d) + Len(b)
      /\ d \in Seq(Byte) /\ b \in Seq(Byte)
      /\ \A i \in 1..(Len(d) + Len(b)) : w[i] = IF i <= Len(d) THEN d[i] ELSE b[i - Len(d)]
  BY MoreBytes, ConcatProperties DEF Bytes
<1> HIDE DEF w
<1>2. Len(w) >= 4
  BY <1>1
<1> DEFINE B == BodyOf(d)
<1>3. /\ B \in Seq(Byte) /\ Len(B) = Len(d) - 4
      /\ \A i \in 1..(Len(d) - 4) : B[i] = d[4 + i]
  BY BodyType DEF Bytes
<1> HIDE DEF B
<1> DEFINE v == B \o b
<1>4. /\ u \in Seq(Byte) /\ Len(u) = Len(w) - 4
      /\ \A i \in 1..(Len(w) - 4) : u[i] = w[4 + i]
  BY <1>1, <1>2, BodyType DEF Bytes
<1>5. /\ v \in Seq(Byte) /\ Len(v) = (Len(d) - 4) + Len(b)
      /\ \A i \in 1..((Len(d) - 4) + Len(b)) :
           v[i] = IF i <= Len(d) - 4 THEN B[i] ELSE b[i - (Len(d) - 4)]
  <2>1. B \in Seq(Byte) /\ b \in Seq(Byte) /\ Len(B) = Len(d) - 4
    BY <1>1, <1>3
  <2>2. /\ v \in Seq(Byte) /\ Len(v) = Len(B) + Len(b)
        /\ \A i \in 1..(Len(B) + Len(b)) : v[i] = IF i <= Len(B) THEN B[i] ELSE b[i - Len(B)]
    BY <2>1, ConcatProperties
  <2> HIDE DEF v
  <2> QED
    BY <2>1, <2>2
<1> HIDE DEF u, v
<1>6. Len(u) = Len(v)
  BY <1>1, <1>4, <1>5
<1>7. ASSUME NEW i \in 1..Len(u) PROVE u[i] = v[i]
  <2> DEFINE j == 4 + i
  <2>1. i \in 1..(Len(w) - 4) /\ i \in 1..((Len(d) - 4) + Len(b)) /\ j \in 1..(Len(d) + Len(b))
    BY <1>1, <1>4
  <2>2. /\ i <= Len(d) - 4 => j <= Len(d) /\ i \in 1..(Len(d) - 4)
        /\ ~(i <= Len(d) - 4) => ~(j <= Len(d)) /\ j - Len(d) = i - (Len(d) - 4)
    BY <1>1, <2>1
  <2>3. u[i] = w[j]
    BY <1>4, <2>1
  <2> HIDE DEF j
  <2>4. w[j] = IF j <= Len(d) THEN d[j] ELSE b[j - Len(d)]
    BY <1>1, <2>1
  <2>5. i <= Len(d) - 4 => B[i] = d[j]
    BY <1>3, <2>2 DEF j
  <2>6. v[i] = IF i <= Len(d) - 4 THEN B[i] ELSE b[i - (Len(d) - 4)]
    BY <1>5, <2>1
  <2> QED
    BY <2>2, <2>3, <2>4, <2>5, <2>6
<1>8. u = v
  BY <1>4, <1>5, <1>6, <1>7, SeqEqual
<1> QED
  BY <1>1, <1>2, <1>3, <1>8 DEF u, v, w, B, Bytes

LEMMA NoBody ==
  ASSUME NEW d \in Bytes, Len(d) <= 4
  PROVE  BodyOf(d) = <<>>
<1> DEFINE u == SubSeq(d, 5, Len(d))
<1>1. Len(d) \in Nat /\ d \in Seq(Byte)
  BY LenProperties DEF Bytes
<1>2. \A i \in 5..Len(d) : d[i] \in Byte
  BY <1>1
<1>3. u \in Seq(Byte) /\ Len(u) = IF 5 <= Len(d) THEN Len(d) - 5 + 1 ELSE 0
  BY <1>1, <1>2, SubSeqProperties
<1> HIDE DEF u
<1>4. Len(u) = 0
  BY <1>1, <1>3
<1>5. u = <<>>
  BY <1>3, <1>4, EmptySeq
<1> QED
  BY <1>5 DEF BodyOf, u

\* What a write that fails leaves out.
LEMMA TakenShort ==
  ASSUME NEW b \in Bytes, NEW n \in Nat, n < Len(b)
  PROVE  SubSeq(b, 1, n) \in Bytes /\ Len(SubSeq(b, 1, n)) < Len(b)
<1> DEFINE u == SubSeq(b, 1, n)
<1>1. Len(b) \in Nat /\ n \in Int /\ n >= 0 /\ b \in Seq(Byte)
  BY LenProperties DEF Bytes
<1>2. \A i \in 1..n : b[i] \in Byte
  BY <1>1, ElementOfSeq
<1>3. u \in Seq(Byte) /\ Len(u) = IF 1 <= n THEN n - 1 + 1 ELSE 0
  BY <1>1, <1>2, SubSeqProperties
<1> HIDE DEF u
<1>4. u \in Bytes /\ Len(u) < Len(b)
  BY <1>1, <1>3 DEF Bytes
<1> QED
  BY <1>4 DEF u

\* The next operation and those behind it.
LEMMA HeadThen ==
  ASSUME NEW ops \in Seq(Operation), ops # <<>>
  PROVE  /\ Head(ops) \in Operation /\ Tail(ops) \in Seq(Operation)
         /\ ops = Then(Head(ops), Tail(ops))
<1>1. Head(ops) \in Operation /\ Tail(ops) \in Seq(Operation)
  BY HeadTailProperties
<1> DEFINE x == Head(ops)
           t == Tail(ops)
<1>2. ops = <<x>> \o t
  <2>1. /\ Len(t) = Len(ops) - 1 /\ Len(ops) \in Nat /\ x = ops[1] /\ Len(t) \in Nat
        /\ \A i \in 1..Len(t) : t[i] = ops[i + 1]
    BY HeadTailProperties, LenProperties
  <2> HIDE DEF x, t
  <2>2. x \in Operation /\ t \in Seq(Operation)
    BY <1>1 DEF x, t
  <2>3. <<x>> \in Seq(Operation) /\ Len(<<x>>) = 1 /\ <<x>>[1] = x
    BY <2>2
  <2> DEFINE u == <<x>> \o t
  <2>4. /\ u \in Seq(Operation) /\ Len(u) = 1 + Len(t)
        /\ \A i \in 1..(1 + Len(t)) : u[i] = IF i <= 1 THEN <<x>>[i] ELSE t[i - 1]
    BY <2>2, <2>3, ConcatProperties
  <2> HIDE DEF u
  <2>5. Len(u) = Len(ops)
    BY <2>1, <2>4
  <2>6. ASSUME NEW i \in 1..Len(u) PROVE u[i] = ops[i]
    <3>1. CASE i = 1
      BY <2>1, <2>3, <2>4, <3>1
    <3>2. CASE i # 1
      <4> DEFINE j == i - 1
      <4>1. j \in 1..Len(t) /\ j + 1 = i /\ ~(i <= 1) /\ i \in 1..(1 + Len(t))
        BY <2>1, <2>4, <3>2
      <4>2. u[i] = t[j]
        BY <2>4, <4>1
      <4> HIDE DEF j
      <4> QED
        BY <2>1, <4>1, <4>2
    <3> QED
      BY <3>1, <3>2
  <2>7. u = ops
    BY <2>4, <2>5, <2>6, SeqEqual
  <2> QED
    BY <2>7 DEF u
<1> QED
  BY <1>1, <1>2 DEF Then

LEMMA OperationIs ==
  ASSUME NEW x \in Operation
  PROVE  /\ x.op = "raw" => x = Raw(x.bytes)
         /\ x.op = "cache" => x = Cache(x.bytes)
BY DEF Operation, Raw, Cache

\* The parser and the output, until a call fails.
ReadsBack == Parses(BodyOf(out), todo, names, pc, current, written)

SoundInv ==
  ~spoiled =>
    /\ pc # "closed"
    /\ calls = Len(written) + Len(current)
    /\ pc = "new" => /\ written = <<>> /\ current = <<>> /\ names = <<>>
                     /\ \/ out = <<>> /\ todo = <<Raw(MAGIC)>>
                        \/ out = MAGIC /\ todo = <<>>
    /\ pc = "idle" => current = <<>>
    /\ pc \in {"idle", "writing"} => Len(out) >= 4 /\ ReadsBack

\* Once one has: the output of the call that failed is a part of an event, as long as no
\* call has followed it.
SpoiledInv ==
  spoiled =>
    /\ pc # "new"
    /\ pc = "idle" => calls > Len(written)
    /\ pc = "writing" => calls > Len(written) + 1
    /\ calls = Len(written) + Len(current) => Cut(ReadBack.events, current, written)

NothingLeft == pc \in {"idle", "closed"} => todo = <<>>

RInv == IInv /\ NothingLeft /\ SoundInv /\ SpoiledInv

LEMMA StateTypes ==
  ASSUME IInv
  PROVE  /\ out \in Bytes /\ names \in Seq(Bytes) /\ todo \in Seq(Operation)
         /\ Len(out) \in Nat /\ Len(written) \in Nat /\ calls \in Nat /\ Len(<<>>) = 0
         /\ written \in Seq(Events) /\ written \in Seq(EventRecord)
         /\ Len(current) \in {0, 1} /\ (Len(current) = 0 => current = <<>>)
<1>1. /\ out \in Bytes /\ names \in Seq(Bytes) /\ todo \in Seq(Operation)
      /\ written \in Seq(Events) /\ calls \in Nat /\ current \in {<<>>} \cup {<<e>> : e \in Events}
  BY DEF IInv, VarsType, TodoInv
<1>2. Len(out) \in Nat /\ Len(written) \in Nat
  BY <1>1, LenProperties DEF Bytes
<1>3. Len(<<>>) = 0 /\ \A e \in Events : Len(<<e>>) = 1
  OBVIOUS
<1>4. Len(current) \in {0, 1} /\ (Len(current) = 0 => current = <<>>)
  BY <1>1, <1>3
<1> QED
  BY <1>1, <1>2, <1>3, <1>4, EventsAreRecords

\* The header goes out in one piece before anything else does.
LEMMA OnlyTheHeader ==
  ASSUME RInv, pc = "new", todo # <<>>
  PROVE  /\ ~spoiled /\ out = <<>> /\ Head(todo) = Raw(MAGIC) /\ Tail(todo) = <<>>
         /\ written = <<>> /\ current = <<>> /\ names = <<>> /\ calls = 0
<1>1. ~spoiled
  BY DEF RInv, SpoiledInv
<1>2. /\ written = <<>> /\ current = <<>> /\ names = <<>> /\ out = <<>> /\ todo = <<Raw(MAGIC)>>
      /\ calls = Len(written) + Len(current)
  BY <1>1 DEF RInv, SoundInv
<1>3. Head(<<Raw(MAGIC)>>) = Raw(MAGIC) /\ Tail(<<Raw(MAGIC)>>) = <<>>
  OBVIOUS
<1>4. calls = 0
  BY <1>2, StateTypes DEF RInv
<1> QED
  BY <1>1, <1>2, <1>3, <1>4

LEMMA HeaderOrEvent ==
  ASSUME RInv, todo # <<>>
  PROVE  /\ pc = "writing" \/ pc = "new"
         /\ Head(todo).op # "raw" => pc = "writing"
<1>1. pc = "writing" \/ pc = "new"
  BY DEF RInv, NothingLeft, IInv, VarsType
<1>2. pc = "new" => Head(todo).op = "raw"
  BY OnlyTheHeader, OperationsDiffer
<1> QED
  BY <1>1, <1>2

\* What is known while an event is written and no call has failed.
LEMMA WhileSound ==
  ASSUME RInv, ~spoiled, pc = "writing", todo # <<>>
  PROVE  /\ Len(out) >= 4 /\ BodyOf(out) \in Bytes
         /\ Head(todo) \in Operation /\ Tail(todo) \in Seq(Operation)
         /\ Parses(BodyOf(out), Then(Head(todo), Tail(todo)), names, pc, current, written)
<1>1. Len(out) >= 4 /\ Parses(BodyOf(out), todo, names, pc, current, written)
  BY DEF RInv, SoundInv, ReadsBack
<1>2. todo = Then(Head(todo), Tail(todo)) /\ Head(todo) \in Operation /\ Tail(todo) \in Seq(Operation)
  BY StateTypes, HeadThen DEF RInv
<1>3. BodyOf(out) \in Bytes
  BY <1>1, StateTypes, BodyType DEF RInv
<1> QED
  BY <1>1, <1>2, <1>3

LEMMA OneMore ==
  ASSUME NEW n \in Nat, NEW m \in {0, 1}, NEW k \in Nat, k > n + 1
  PROVE  k > n /\ k # n + m
OBVIOUS

LEMMA OneLess ==
  ASSUME NEW n \in Nat, NEW m \in {0, 1}, NEW k \in Nat, k > n + 1, NEW l, l = n + m, NEW o, o = 0
  PROVE  k > l /\ k # l + o
OBVIOUS

\* An operation of a call that goes on.
LEMMA StillWriting ==
  ASSUME RInv, pc = "writing", UNCHANGED <<pc, current, calls, written, spoiled>>,
         ~spoiled => Len(out') >= 4 /\ ReadsBack'
  PROVE  NothingLeft' /\ SoundInv' /\ SpoiledInv'
<1>1. pc' = "writing" /\ current' = current /\ calls' = calls /\ written' = written /\ spoiled' = spoiled
  OBVIOUS
<1>2. NothingLeft'
  BY <1>1 DEF NothingLeft
<1>3. SoundInv'
  BY <1>1 DEF RInv, SoundInv
<1>4. SpoiledInv'
  <2>1. spoiled => calls > Len(written) + 1
    BY DEF RInv, SpoiledInv
  <2>2. spoiled => calls # Len(written) + Len(current)
    <3>1. Len(current) \in {0, 1} /\ Len(written) \in Nat /\ calls \in Nat
      BY StateTypes DEF RInv
    <3> QED
      BY <2>1, <3>1, OneMore
  <2> QED
    BY <1>1, <2>1, <2>2 DEF SpoiledInv
<1> QED
  BY <1>2, <1>3, <1>4

LEMMA AttributeReads ==
  ASSUME RInv, DoAttribute
  PROVE  NothingLeft' /\ SoundInv' /\ SpoiledInv'
<1>1. /\ todo # <<>> /\ Head(todo).op = "attribute" /\ out' = out /\ names' = names
      /\ todo' = AttributeOps(Head(todo).attribute) \o Tail(todo)
      /\ UNCHANGED <<pc, current, calls, written, spoiled>>
  BY DEF DoAttribute, Doing
<1>2. pc = "writing"
  BY <1>1, HeaderOrEvent
<1>3. ASSUME ~spoiled PROVE Len(out') >= 4 /\ ReadsBack'
  <2>1. Parses(BodyOf(out), todo', names, "writing", current, written)
    BY <1>1, <1>2, <1>3, WhileSound, StateTypes, ParsesUnfolds DEF RInv
  <2> QED
    BY <1>1, <1>2, <1>3, <2>1, WhileSound DEF ReadsBack
<1> QED
  BY <1>1, <1>2, <1>3, StillWriting

\* The position find answers is one where the name is.
LEMMA FoundAt ==
  ASSUME IInv, NEW s, NEW i \in Found(s)
  PROVE  \E j \in 1..Len(names) : names[j] = s /\ i = j - 1
<1>1. CASE index # NoIndex
  <2>1. DOMAIN index = Pooled /\ \A j \in 1..Len(names) : index[names[j]] = j - 1
    BY <1>1 DEF IInv, PoolInv, IndexCurrent
  <2>2. s \in Pooled /\ i = index[s]
    BY <1>1, <2>1 DEF Found
  <2> QED
    BY <2>1, <2>2 DEF Pooled
<1>2. CASE index = NoIndex
  BY <1>2 DEF Found
<1> QED
  BY <1>1, <1>2

LEMMA NameReads ==
  ASSUME RInv, DoName
  PROVE  NothingLeft' /\ SoundInv' /\ SpoiledInv'
<1>1. /\ Doing("name") /\ todo # <<>> /\ Head(todo).op = "name" /\ out' = out /\ names' = names
      /\ UNCHANGED <<pc, current, calls, written, spoiled>>
  BY DEF DoName, Doing
<1>2. pc = "writing"
  BY <1>1, HeaderOrEvent
<1> DEFINE x == Head(todo)
           t == Tail(todo)
           W == BodyOf(out)
<1>3. ASSUME ~spoiled PROVE Len(out') >= 4 /\ ReadsBack'
  <2>1. /\ W \in Bytes /\ Len(out) >= 4 /\ x \in Operation /\ t \in Seq(Operation) /\ names \in Seq(Bytes)
        /\ Parses(W, Then(x, t), names, pc, current, written) /\ x.op = "name" /\ x.bytes = Operand
    BY <1>1, <1>2, <1>3, WhileSound, StateTypes DEF RInv, Operand
  <2>2. Operand \in Bytes
    BY <1>1, OperandType DEF RInv, IInv
  <2>3. CASE Found(Operand) # {}
    <3>1. PICK i \in Found(Operand) : todo' = <<Raw(U16Bytes(i))>> \o t
      BY <2>3 DEF DoName
    <3>2. PICK j \in 1..Len(names) : names[j] = Operand /\ i = j - 1
      BY FoundAt DEF RInv
    <3>3. todo' = Then(Raw(U16Bytes(j - 1)), t)
      BY <3>1, <3>2 DEF Then
    <3> HIDE DEF x, t, W
    <3>4. Parses(W, Then(Raw(U16Bytes(j - 1)), t), names, "writing", current, written)
      BY <2>1, <3>2, ParsesUnfolds
    <3> QED
      BY <1>1, <1>2, <2>1, <3>3, <3>4 DEF ReadsBack, W
  <2>4. CASE Found(Operand) = {}
    <3> DEFINE a == Raw(U16Bytes(INTERNED_NEW))
               b == Blob(Operand)
               c == Cache(Operand)
    <3>1. todo' = <<a, b, c>> \o t
      BY <2>4 DEF DoName
    <3>2. a \in Operation /\ b \in Operation /\ c \in Operation
      BY <2>2, FieldBytes, OperationTypes
    <3>3. Parses(W, Then(a, Then(b, Then(c, t))), names, "writing", current, written)
      <4> HIDE DEF x, t, W
      <4> QED
        BY <2>1, ParsesUnfolds
    <3> HIDE DEF a, b, c, x, t, W
    <3>4. todo' = Then(a, Then(b, Then(c, t)))
      BY <2>1, <3>1, <3>2, ThreeThen
    <3> QED
      BY <1>1, <1>2, <2>1, <3>3, <3>4 DEF ReadsBack, W
  <2> QED
    BY <2>3, <2>4
<1> QED
  BY <1>1, <1>2, <1>3, StillWriting

LEMMA BlobReads ==
  ASSUME RInv, DoBlob
  PROVE  NothingLeft' /\ SoundInv' /\ SpoiledInv'
<1>1. /\ Doing("blob") /\ todo # <<>> /\ Head(todo).op = "blob" /\ out' = out /\ names' = names
      /\ Len(Operand) <= MAX_UNSIGNED_SHORT
      /\ UNCHANGED <<pc, current, calls, written, spoiled>>
  BY DEF DoBlob, Doing
<1>2. pc = "writing"
  BY <1>1, HeaderOrEvent
<1> DEFINE x == Head(todo)
           t == Tail(todo)
           W == BodyOf(out)
           a == Raw(U16Bytes(Len(Operand)))
           b == Raw(Operand)
<1>3. ASSUME ~spoiled PROVE Len(out') >= 4 /\ ReadsBack'
  <2>1. /\ W \in Bytes /\ Len(out) >= 4 /\ x \in Operation /\ t \in Seq(Operation) /\ names \in Seq(Bytes)
        /\ Parses(W, Then(x, t), names, pc, current, written) /\ x.op = "blob" /\ x.bytes = Operand
    BY <1>1, <1>2, <1>3, WhileSound, StateTypes DEF RInv, Operand
  <2>2. Operand \in Bytes /\ Len(Operand) \in Nat
    BY <1>1, OperandType, LenProperties DEF RInv, IInv, Bytes
  <2>3. todo' = <<a, b>> \o t
    BY DEF DoBlob
  <2>4. a \in Operation /\ b \in Operation
    BY <2>2, FieldBytes, OperationTypes
  <2>5. Parses(W, Then(a, Then(b, t)), names, "writing", current, written)
    <3> HIDE DEF x, t, W
    <3> QED
      BY <1>1, <2>1, ParsesUnfolds
  <2> HIDE DEF a, b, x, t, W
  <2>6. todo' = Then(a, Then(b, t))
    BY <2>1, <2>3, <2>4, TwoThen
  <2> QED
    BY <1>1, <1>2, <2>1, <2>5, <2>6 DEF ReadsBack, W
<1> QED
  BY <1>1, <1>2, <1>3, StillWriting

LEMMA CacheReads ==
  ASSUME RInv, DoCache
  PROVE  NothingLeft' /\ SoundInv' /\ SpoiledInv'
<1>1. /\ Doing("cache") /\ todo # <<>> /\ Head(todo).op = "cache" /\ out' = out
      /\ todo' = Tail(todo)
      /\ UNCHANGED <<pc, current, calls, written, spoiled>>
  BY DEF DoCache, Doing
<1>2. pc = "writing"
  BY <1>1, HeaderOrEvent
<1>3. ASSUME ~spoiled PROVE Len(out') >= 4 /\ ReadsBack'
  <2>1. Operand \in Bytes /\ Head(todo) = Cache(Operand)
    BY <1>1, <1>2, <1>3, OperandType, WhileSound, OperationIs DEF RInv, IInv, Operand
  <2>2. names' = NamesAfter(names, Operand)
    BY DEF DoCache, Full, NamesAfter
  <2>3. Parses(BodyOf(out), Tail(todo), NamesAfter(names, Operand), pc, current, written)
    <3>1. /\ BodyOf(out) \in Bytes /\ Tail(todo) \in Seq(Operation) /\ names \in Seq(Bytes)
          /\ Parses(BodyOf(out), Then(Cache(Operand), Tail(todo)), names, pc, current, written)
      BY <1>1, <1>2, <1>3, <2>1, WhileSound, StateTypes DEF RInv
    <3> QED
      BY <2>1, <3>1, ParsesCache
  <2>4. Len(out) >= 4
    BY <1>1, <1>2, <1>3, WhileSound
  <2> QED
    BY <1>1, <2>2, <2>3, <2>4 DEF ReadsBack
<1> QED
  BY <1>1, <1>2, <1>3, StillWriting

\* What is written is one event.
LEMMA WritingOne ==
  ASSUME RInv, pc = "writing", ~spoiled
  PROVE  current # <<>>
<1>1. Parses(BodyOf(out), todo, names, "writing", current, written)
  BY DEF RInv, SoundInv, ReadsBack
<1>2. \E e \in Events : current = <<e>>
  BY <1>1 DEF Parses, Fits
<1> QED
  BY <1>2

\* The header, or the next bytes of an event, are out.
LEMMA RawReads ==
  ASSUME RInv, DoRaw
  PROVE  NothingLeft' /\ SoundInv' /\ SpoiledInv'
<1>1. /\ Doing("raw") /\ todo # <<>> /\ Head(todo).op = "raw" /\ out' = out \o Operand
      /\ todo' = Tail(todo)
      /\ UNCHANGED <<names, pc, current, calls, written, spoiled>>
  BY DEF DoRaw, Doing
<1>2. Operand \in Bytes
  BY <1>1, OperandType DEF RInv, IInv
<1>3. CASE pc = "writing"
  <2>1. ASSUME ~spoiled PROVE Len(out') >= 4 /\ ReadsBack'
    <3>1. /\ BodyOf(out) \in Bytes /\ Len(out) >= 4 /\ Tail(todo) \in Seq(Operation)
          /\ names \in Seq(Bytes) /\ out \in Bytes
          /\ Parses(BodyOf(out), Then(Head(todo), Tail(todo)), names, pc, current, written)
      BY <1>1, <1>3, <2>1, WhileSound, StateTypes DEF RInv
    <3>2. Head(todo) = Raw(Operand)
      BY <1>1, <1>3, <2>1, WhileSound, OperationIs DEF Operand
    <3>3. Parses(BodyOf(out) \o Operand, Tail(todo), names, "writing", current, written)
      BY <1>2, <3>1, <3>2, ParsesRaw
    <3>4. Len(out \o Operand) >= 4 /\ BodyOf(out \o Operand) = BodyOf(out) \o Operand
      BY <1>2, <3>1, BodyGrows
    <3> QED
      BY <1>1, <1>3, <3>3, <3>4 DEF ReadsBack
  <2> QED
    BY <1>1, <1>3, <2>1, StillWriting
<1>4. CASE pc = "new"
  <2>1. /\ ~spoiled /\ out = <<>> /\ Head(todo) = Raw(MAGIC) /\ Tail(todo) = <<>>
        /\ written = <<>> /\ current = <<>> /\ names = <<>> /\ calls = 0
    BY <1>1, <1>4, OnlyTheHeader
  <2>2. Operand = MAGIC
    BY <2>1, OperationsDiffer DEF Operand
  <2>3. out' = MAGIC
    <3>1. <<>> \o MAGIC = MAGIC
      BY DEF MAGIC
    <3> QED
      BY <1>1, <2>1, <2>2, <3>1
  <2>4. calls' = Len(written') + Len(current')
    BY <1>1, <2>1 DEF RInv, SoundInv
  <2>5. SoundInv'
    BY <1>1, <1>4, <2>1, <2>3, <2>4 DEF SoundInv
  <2>6. NothingLeft' /\ SpoiledInv'
    BY <1>1, <1>4, <2>1 DEF NothingLeft, SpoiledInv
  <2> QED
    BY <2>5, <2>6
<1> QED
  BY <1>1, <1>3, <1>4, HeaderOrEvent

\* A call that is given up in the midst of an event, with bytes c at the output's end that a
\* parser of it makes nothing of.
LEMMA GivenUp ==
  ASSUME RInv, pc = "writing", GiveUp, UNCHANGED <<names, current, calls, written>>,
         ~spoiled => Cut(ReadBack'.events, current, written)
  PROVE  NothingLeft' /\ SoundInv' /\ SpoiledInv'
<1>1. /\ todo' = <<>> /\ spoiled' = TRUE /\ pc' = "idle"
      /\ current' = current /\ calls' = calls /\ written' = written
  BY DEF GiveUp
<1>2. NothingLeft' /\ SoundInv'
  BY <1>1 DEF NothingLeft, SoundInv
<1>3. Len(current) \in {0, 1} /\ Len(written) \in Nat /\ calls \in Nat
  BY StateTypes DEF RInv
<1>4. CASE spoiled
  <2>1. calls > Len(written) + 1
    BY <1>4 DEF RInv, SpoiledInv
  <2>2. calls > Len(written) /\ calls # Len(written) + Len(current)
    BY <1>3, <2>1, OneMore
  <2> QED
    BY <1>1, <1>2, <2>2 DEF SpoiledInv
<1>5. CASE ~spoiled
  <2>1. calls = Len(written) + Len(current) /\ ReadsBack
    BY <1>5 DEF RInv, SoundInv
  <2>2. current # <<>>
    BY <1>5, WritingOne
  <2>3. calls > Len(written)
    BY <1>3, <2>1, <2>2, StateTypes DEF RInv
  <2> QED
    BY <1>1, <1>2, <1>5, <2>3 DEF SpoiledInv
<1> QED
  BY <1>4, <1>5

LEMMA SinkErrorReads ==
  ASSUME RInv, SinkError
  PROVE  NothingLeft' /\ SoundInv' /\ SpoiledInv'
<1>1. PICK n \in 0..(Len(Operand) - 1) : SinkFails(n)
  BY DEF SinkError
<1> DEFINE c == SubSeq(Operand, 1, n)
<1>2. /\ Doing("raw") /\ todo # <<>> /\ Head(todo).op = "raw" /\ out' = out \o c
      /\ GiveUp /\ UNCHANGED <<names, current, calls, written>>
  BY <1>1 DEF SinkError, SinkFails, Doing
<1>3. Operand \in Bytes
  BY <1>2, OperandType DEF RInv, IInv
<1>4. c \in Bytes /\ Len(c) < Len(Operand) /\ Len(c) \in Nat
  <2>1. n \in Nat /\ n < Len(Operand)
    BY <1>3, LenProperties DEF Bytes
  <2>2. c \in Bytes /\ Len(c) < Len(Operand)
    BY <1>3, <2>1, TakenShort
  <2> HIDE DEF c
  <2> QED
    BY <2>2, LenProperties DEF Bytes
<1> HIDE DEF c
<1>5. CASE pc = "writing"
  <2>1. ASSUME ~spoiled PROVE Cut(ReadBack'.events, current, written)
    <3>1. /\ BodyOf(out) \in Bytes /\ Len(out) >= 4 /\ Tail(todo) \in Seq(Operation)
          /\ names \in Seq(Bytes) /\ out \in Bytes /\ written \in Seq(EventRecord)
          /\ Parses(BodyOf(out), Then(Head(todo), Tail(todo)), names, pc, current, written)
      BY <1>2, <1>5, <2>1, WhileSound, StateTypes DEF RInv
    <3>2. Head(todo) = Raw(Operand)
      BY <1>2, <1>5, <2>1, WhileSound, OperationIs DEF Operand
    <3>3. Cut(Decode(BodyOf(out) \o c).events, current, written)
      BY <1>3, <1>4, <3>1, <3>2, ParsesCut
    <3>4. BodyOf(out \o c) = BodyOf(out) \o c
      BY <1>4, <3>1, BodyGrows
    <3>5. ReadBack' = Decode(BodyOf(out) \o c)
      BY <1>2, <3>4 DEF ReadBack, BodyOf
    <3> QED
      BY <3>3, <3>5
  <2> QED
    BY <1>2, <1>5, <2>1, GivenUp
<1>6. CASE pc = "new"
  <2>1. /\ out = <<>> /\ Head(todo) = Raw(MAGIC) /\ written = <<>> /\ current = <<>>
    BY <1>2, <1>6, OnlyTheHeader
  <2>2. Operand = MAGIC /\ Len(MAGIC) = 4
    BY <2>1, OperationsDiffer DEF Operand, MAGIC
  <2>3. out' = c
    BY <1>2, <1>4, <2>1, ConcatEmptySeq DEF Bytes
  <2>4. BodyOf(c) = <<>>
    <3>1. Len(c) <= 4
      BY <1>4, <2>2
    <3> QED
      BY <1>4, <3>1, NoBody
  <2>5. ReadBack' = Decode(<<>>)
    BY <2>3, <2>4 DEF ReadBack, BodyOf
  <2>6. Decode(<<>>).events = <<>>
    <3> DEFINE z == <<>>
               g == Start(z)
    <3>1. ReadsTo(z, z, g) /\ z \in Bytes /\ g.at = "token" /\ g.cur = 0
      BY ReadsNothing DEF Start
    <3> HIDE DEF g, z
    <3>2. Wants(g) >= 1
      BY <3>1, WaitsForMore
    <3>3. Decode(z).events = z
      BY <3>1, <3>2, ReadsNow
    <3> QED
      BY <3>3 DEF z
  <2>7. Cut(ReadBack'.events, current, written)
    <3>1. written \in Seq(EventRecord)
      BY StateTypes DEF RInv
    <3> QED
      BY <2>1, <2>5, <2>6, <3>1, CutNothing
  <2>8. /\ todo' = <<>> /\ spoiled' = TRUE /\ pc' = "closed"
        /\ current' = current /\ calls' = calls /\ written' = written
    BY <1>2, <1>6 DEF GiveUp
  <2> QED
    BY <2>7, <2>8 DEF NothingLeft, SoundInv, SpoiledInv
<1> QED
  BY <1>2, <1>5, <1>6, HeaderOrEvent

LEMMA TooLongReads ==
  ASSUME RInv, TooLong
  PROVE  NothingLeft' /\ SoundInv' /\ SpoiledInv'
<1>1. /\ todo # <<>> /\ Head(todo).op = "blob" /\ out' = out
      /\ GiveUp /\ UNCHANGED <<names, current, calls, written>>
  BY DEF TooLong, Doing
<1>2. pc = "writing"
  BY <1>1, HeaderOrEvent
<1>3. ASSUME ~spoiled PROVE Cut(ReadBack'.events, current, written)
  <2>1. /\ BodyOf(out) \in Bytes /\ names \in Seq(Bytes) /\ written \in Seq(EventRecord)
        /\ Parses(BodyOf(out), Then(Head(todo), Tail(todo)), names, pc, current, written)
    BY <1>1, <1>2, <1>3, WhileSound, StateTypes DEF RInv
  <2>2. Cut(Decode(BodyOf(out)).events, current, written)
    BY <2>1, ParsesNow
  <2>3. ReadBack' = Decode(BodyOf(out))
    BY <1>1 DEF ReadBack, BodyOf
  <2> QED
    BY <2>2, <2>3
<1> QED
  BY <1>1, <1>2, <1>3, GivenUp

LEMMA OpenedReads ==
  ASSUME RInv, Opened
  PROVE  NothingLeft' /\ SoundInv' /\ SpoiledInv'
<1>1. /\ pc = "new" /\ todo = <<>> /\ pc' = "idle"
      /\ UNCHANGED <<out, names, todo, current, calls, written, spoiled>>
  BY DEF Opened
<1>2. ~spoiled
  BY <1>1 DEF RInv, SpoiledInv
<1>3. <<Raw(MAGIC)>> # <<>>
  OBVIOUS
<1>4. /\ written = <<>> /\ current = <<>> /\ names = <<>> /\ out = MAGIC
      /\ calls = Len(written) + Len(current)
  BY <1>1, <1>2, <1>3 DEF RInv, SoundInv
<1>5. MAGIC \in Bytes /\ Len(MAGIC) = 4 /\ Len(MAGIC) <= 4
  BY DEF MAGIC, Bytes, Byte
<1>6. BodyOf(MAGIC) = <<>>
  BY <1>5, NoBody
<1>7. Parses(<<>>, <<>>, <<>>, "idle", <<>>, <<>>)
  <2> DEFINE z == <<>>
             g == Start(z)
  <2>1. ReadsTo(z, z, g) /\ z \in Bytes /\ z \in Seq(Bytes) /\ z \in Seq(Operation)
    BY ReadsNothing
  <2>2. g.pool = z
    BY DEF Start
  <2>3. Len(z) = 0 /\ Len(z) <= INTERNED_NEW
    BY FieldBytes
  <2>4. Agree(z, z)
    BY <2>3 DEF Agree, Longer
  <2>5. g = Start(g.pool)
    BY <2>2
  <2> HIDE DEF z, g
  <2>6. Lag(z, z, z, z)
    BY DEF Lag
  <2>7. Fits("idle", z, z, g, z, z, z)
    <3>1. Boundary(z, g, z)
      BY <2>5 DEF Boundary
    <3>2. z = <<>>
      BY DEF z
    <3> QED
      BY <3>1, <3>2 DEF Fits
  <2>8. Parses(z, z, z, "idle", z, z)
    BY <2>1, <2>2, <2>3, <2>4, <2>6, <2>7 DEF Parses
  <2> QED
    BY <2>8 DEF z
<1>8. SoundInv'
  <2>1. ReadsBack'
    BY <1>1, <1>4, <1>6, <1>7 DEF ReadsBack
  <2>2. Len(out') >= 4
    BY <1>1, <1>4, <1>5
  <2> QED
    BY <1>1, <1>2, <1>4, <2>1, <2>2 DEF SoundInv
<1>9. NothingLeft' /\ SpoiledInv'
  BY <1>1, <1>2 DEF NothingLeft, SpoiledInv
<1> QED
  BY <1>8, <1>9

LEMMA WriteReads ==
  ASSUME RInv, NEW e \in Events, WriteEvent(e)
  PROVE  NothingLeft' /\ SoundInv' /\ SpoiledInv'
<1> DEFINE c == <<e>>
<1>2. /\ pc = "idle" /\ pc' = "writing" /\ todo' = EventOps(e) /\ current' = c
      /\ calls' = calls + 1
      /\ UNCHANGED <<out, names, written, spoiled>>
  BY DEF WriteEvent
<1>3. Len(c) = 1
  OBVIOUS
<1>4. Len(written) \in Nat /\ calls \in Nat
  BY StateTypes DEF RInv
<1>5. NothingLeft'
  BY <1>2 DEF NothingLeft
<1>6. SoundInv'
  <2>1. CASE ~spoiled
    <3>1. /\ calls = Len(written) + Len(current) /\ current = <<>>
          /\ Len(out) >= 4 /\ Parses(BodyOf(out), todo, names, pc, current, written)
      BY <1>2, <2>1 DEF RInv, SoundInv, ReadsBack
    <3>2. todo = <<>>
      BY <1>2 DEF RInv, NothingLeft
    <3>3. BodyOf(out) \in Bytes /\ names \in Seq(Bytes)
      BY <3>1, StateTypes, BodyType DEF RInv
    <3>4. Parses(BodyOf(out), EventOps(e), names, "writing", c, written)
      <4>1. Parses(BodyOf(out), <<>>, names, "idle", current, written)
        BY <1>2, <3>1, <3>2
      <4> QED
        BY <3>3, <4>1, ParsesCall
    <3> HIDE DEF c
    <3>5. ReadsBack'
      BY <1>2, <3>4 DEF ReadsBack
    <3>6. calls = Len(written)
      BY <1>4, <3>1, StateTypes DEF RInv
    <3>7. calls' = Len(written') + Len(current')
      BY <1>2, <1>3, <3>6
    <3> QED
      BY <1>2, <2>1, <3>1, <3>5, <3>7 DEF SoundInv
  <2>2. CASE spoiled
    BY <1>2, <2>2 DEF SoundInv
  <2> QED
    BY <2>1, <2>2
<1>7. SpoiledInv'
  <2>1. CASE spoiled
    <3>1. calls > Len(written)
      BY <1>2, <2>1 DEF RInv, SpoiledInv
    <3>2. calls + 1 > Len(written) + 1 /\ calls + 1 # Len(written) + 1
      BY <1>4, <3>1
    <3> HIDE DEF c
    <3> QED
      BY <1>2, <1>3, <3>2 DEF SpoiledInv
  <2>2. CASE ~spoiled
    BY <1>2, <2>2 DEF SpoiledInv
  <2> QED
    BY <2>1, <2>2
<1> QED
  BY <1>5, <1>6, <1>7

LEMMA CallReads ==
  ASSUME RInv, Call
  PROVE  NothingLeft' /\ SoundInv' /\ SpoiledInv'
BY WriteReads DEF Call

LEMMA WrittenReads ==
  ASSUME RInv, Written
  PROVE  NothingLeft' /\ SoundInv' /\ SpoiledInv'
<1> DEFINE w == written \o current
           z == <<>>
<1>1. /\ pc = "writing" /\ pc' = "idle" /\ todo = z /\ written' = w /\ current' = z
      /\ UNCHANGED <<out, names, todo, calls, spoiled>>
  BY DEF Written
<1>2. Len(written) \in Nat /\ calls \in Nat /\ Len(current) \in {0, 1} /\ written \in Seq(Events)
  BY StateTypes DEF RInv
<1>3. Len(z) = 0
  OBVIOUS
<1>4. Len(w) = Len(written) + Len(current)
  <2>1. current \in {<<>>} \cup {<<e>> : e \in Events}
    BY DEF RInv, IInv, VarsType
  <2>2. current \in Seq(Events)
    <3>1. /\ <<>> \in Seq(Events)
          /\ \A e \in Events : <<e>> \in Seq(Events)
      OBVIOUS
    <3> QED
      BY <2>1, <3>1
  <2> QED
    BY <1>2, <2>2, ConcatProperties
<1>5. NothingLeft'
  BY <1>1 DEF NothingLeft
<1>6. SoundInv'
  <2>1. CASE ~spoiled
    <3>1. /\ calls = Len(written) + Len(current)
          /\ Len(out) >= 4 /\ Parses(BodyOf(out), todo, names, pc, current, written)
      BY <1>1, <2>1 DEF RInv, SoundInv, ReadsBack
    <3>2. BodyOf(out) \in Bytes /\ names \in Seq(Bytes)
      BY <3>1, StateTypes, BodyType DEF RInv
    <3>3. Parses(BodyOf(out), z, names, "idle", z, w)
      <4>1. Parses(BodyOf(out), <<>>, names, "writing", current, written)
        BY <1>1, <3>1
      <4> QED
        BY <1>2, <3>2, <4>1, ParsesWritten
    <3> HIDE DEF w, z
    <3>4. ReadsBack'
      BY <1>1, <3>3 DEF ReadsBack
    <3>5. calls' = Len(written') + Len(current')
      BY <1>1, <1>2, <1>3, <1>4, <3>1
    <3> QED
      BY <1>1, <2>1, <3>1, <3>4, <3>5 DEF SoundInv, z
  <2>2. CASE spoiled
    BY <1>1, <2>2 DEF SoundInv
  <2> QED
    BY <2>1, <2>2
<1>7. SpoiledInv'
  <2>1. CASE spoiled
    <3>1. calls > Len(written) + 1
      BY <1>1, <2>1 DEF RInv, SpoiledInv
    <3>2. calls > Len(w) /\ calls # Len(w) + Len(z)
      <4> HIDE DEF w, z
      <4>1. /\ Len(w) = Len(written) + Len(current) /\ Len(z) = 0
            /\ Len(written) \in Nat /\ calls \in Nat /\ Len(current) \in {0, 1}
        BY <1>2, <1>3, <1>4
      <4> QED
        BY <3>1, <4>1, OneLess
    <3> HIDE DEF w, z
    <3> QED
      BY <1>1, <3>2 DEF SpoiledInv
  <2>2. CASE ~spoiled
    BY <1>1, <2>2 DEF SpoiledInv
  <2> QED
    BY <2>1, <2>2
<1> QED
  BY <1>5, <1>6, <1>7

LEMMA InitReads == Init => RInv
<1> SUFFICES ASSUME Init PROVE RInv
  OBVIOUS
<1>1. IInv
  BY InitInv
<1>2. Len(<<>>) = 0
  OBVIOUS
<1>3. NothingLeft /\ SoundInv /\ SpoiledInv
  BY <1>2 DEF Init, NothingLeft, SoundInv, SpoiledInv
<1> QED
  BY <1>1, <1>3 DEF RInv

LEMMA NextReads == RInv /\ [Next]_vars => RInv'
<1> SUFFICES ASSUME RInv, [Next]_vars PROVE RInv'
  OBVIOUS
<1>1. IInv'
  BY NextInv DEF RInv
<1>2. CASE UNCHANGED vars
  <2>1. NothingLeft' /\ SoundInv' /\ SpoiledInv'
    BY <1>2 DEF vars, RInv, NothingLeft, SoundInv, SpoiledInv, ReadsBack, ReadBack
  <2> QED
    BY <1>1, <2>1 DEF RInv
<1>3. CASE Next
  <2>1. NothingLeft' /\ SoundInv' /\ SpoiledInv'
    BY <1>3, OpenedReads, CallReads, WrittenReads, RawReads, AttributeReads, NameReads, BlobReads,
       TooLongReads, CacheReads, SinkErrorReads DEF Next
  <2> QED
    BY <1>1, <2>1 DEF RInv
<1> QED
  BY <1>2, <1>3

LEMMA AlwaysReads == Spec => []RInv
<1> QED
  BY InitReads, NextReads, PTL DEF Spec

\* What a parser makes of the output between calls.
IdleReads == /\ ReadBack.events = written /\ ReadBack.rest = <<>> /\ ~ReadBack.failed
             /\ Agree(names, ReadBack.pool) /\ ReadBack.pool \in Seq(Bytes)

LEMMA IdleReadsBack ==
  ASSUME RInv, pc = "idle", ~spoiled
  PROVE  IdleReads
<1>1. /\ current = <<>> /\ Len(out) >= 4
      /\ Parses(BodyOf(out), todo, names, "idle", current, written)
  BY DEF RInv, SoundInv, ReadsBack
<1>2. todo = <<>>
  BY DEF RInv, NothingLeft
<1>3. BodyOf(out) \in Bytes /\ names \in Seq(Bytes)
  BY <1>1, StateTypes, BodyType DEF RInv
<1>4. Parses(BodyOf(out), <<>>, names, "idle", current, written)
  BY <1>1, <1>2
<1>5. LET s == Decode(BodyOf(out))
      IN /\ s.events = written /\ s.rest = <<>> /\ ~s.failed /\ Agree(names, s.pool)
         /\ s.pool \in Seq(Bytes)
  BY <1>3, <1>4, ParsesEvents
<1>6. ReadBack = Decode(BodyOf(out))
  BY DEF ReadBack, BodyOf
<1> QED
  BY <1>5, <1>6 DEF IdleReads

-----------------------------------------------------------------------------
\* Between calls, as long as none has failed, the output reads back as the events written, all
\* of them, in order and nothing else (writer.rs:83), whatever the events.
THEOREM RoundTripHolds == Spec => []RoundTrip
<1>1. ASSUME RInv PROVE RoundTrip
  <2>1. ASSUME Sound
        PROVE  ReadBack.events = written /\ ReadBack.rest = <<>> /\ ~ReadBack.failed
    <3>1. IdleReads
      BY <1>1, <2>1, IdleReadsBack DEF Sound
    <3> QED
      BY <3>1 DEF IdleReads
  <2> QED
    BY <2>1 DEF RoundTrip
<1> QED
  BY <1>1, AlwaysReads, PTL

\* The writer's names are those of the parser of its output, at the same positions, so that
\* every position the writer may use resolves to the name it stands for (writer.rs:50).
THEOREM PoolsAgreeHold == Spec => []PoolsAgree
<1>1. ASSUME RInv PROVE PoolsAgree
  <2>1. ASSUME Sound
        PROVE  /\ Len(names) <= Len(ReadBack.pool)
               /\ SubSeq(ReadBack.pool, 1, Len(names)) = names
               /\ Len(names) < INTERNED_NEW => Len(ReadBack.pool) = Len(names)
    <3>1. IdleReads
      BY <1>1, <2>1, IdleReadsBack DEF Sound
    <3>2. Longer(names, ReadBack.pool) /\ (Len(names) < INTERNED_NEW => ReadBack.pool = names)
      BY <3>1 DEF IdleReads, Agree
    <3>3. names \in Seq(Bytes) /\ ReadBack.pool \in Seq(Bytes)
      BY <1>1, <3>1, StateTypes DEF RInv, IdleReads
    <3>4. IsPrefixOf(names, ReadBack.pool)
      BY <3>2, <3>3, LongerIsPrefix
    <3> QED
      BY <3>2, <3>4 DEF IsPrefixOf
  <2> QED
    BY <2>1 DEF PoolsAgree
<1> QED
  BY <1>1, AlwaysReads, PTL

\* Output cut short in the midst of a call reads as the events before it and at most a part of
\* its own (writer.rs:133), at whatever byte the sink fails, and wherever a value is too long.
THEOREM CutOutputHolds == Spec => []CutOutputIsPrefix
<1>1. ASSUME RInv PROVE CutOutputIsPrefix
  <2>1. ASSUME calls = Len(written) + Len(current), pc # "new"
        PROVE  Cut(ReadBack.events, current, written)
    <3>1. CASE spoiled
      BY <1>1, <2>1, <3>1 DEF RInv, SpoiledInv
    <3>2. CASE ~spoiled
      <4>1. pc \in {"idle", "writing"}
        BY <1>1, <2>1, <3>2 DEF RInv, IInv, VarsType, SoundInv
      <4>2. Len(out) >= 4 /\ Parses(BodyOf(out), todo, names, pc, current, written)
        BY <1>1, <3>2, <4>1 DEF RInv, SoundInv, ReadsBack
      <4>3. BodyOf(out) \in Bytes /\ names \in Seq(Bytes) /\ written \in Seq(EventRecord)
        BY <1>1, <4>2, StateTypes, BodyType DEF RInv
      <4>4. Cut(Decode(BodyOf(out)).events, current, written)
        BY <4>2, <4>3, ParsesNow
      <4> QED
        BY <4>4 DEF ReadBack, BodyOf
    <3> QED
      BY <3>1, <3>2
  <2> QED
    BY <2>1 DEF CutOutputIsPrefix, Cut
<1> QED
  BY <1>1, AlwaysReads, PTL
=============================================================================
