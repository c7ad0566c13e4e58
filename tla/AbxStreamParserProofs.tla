----------------------- MODULE AbxStreamParserProofs -----------------------
(***************************************************************************)
(* The streaming parser, for every input, buffer size, chunk size, number  *)
(* of calls and number of failing reads: the safety of its buffer, that it *)
(* implements the parser over memory, and the bound on its buffer.         *)
(*                                                                         *)
(* The inductive invariant of the first part is IInv: the types, the       *)
(* contents of the window stated byte by byte, the end of the input, and   *)
(* what a call in progress knows about the pool.                           *)
(***************************************************************************)
EXTENDS AbxStreamSource, AbxGrammarProofs

BufferType == /\ doc \in Bytes
              /\ fed \in 0..Len(doc)
              /\ buf \in Bytes
              /\ len \in 0..Len(buf)
              /\ pos \in 0..len
              /\ eof \in BOOLEAN

PoolType == /\ scan \in GrammarState
            /\ called \in 0..Len(scan.pool)
            /\ mark \in 0..Len(scan.pool)

ControlType == /\ needed \in Nat
               /\ pc \in Pcs
               /\ then \in {"magic", "begin", "attempt"}
               /\ answers \in Seq(Answer)
               /\ faults \in Nat

\* The window, byte by byte.
WindowBytes == /\ Available <= fed
               /\ \A i \in 1..Available : buf[pos + i] = doc[fed - Available + i]

\* The grammar has read no further than the window, and both lengths the pool
\* may be cut back to are the one it had when next_event was called.
ParseInside == pc = "parse" => scan.cur <= Available /\ mark = called

BufferInv == BufferType /\ WindowBytes /\ NoFalseEof
CallInv   == PoolType /\ ControlType /\ ParseInside /\ NoLeftovers
IInv      == BufferInv /\ CallInv

-----------------------------------------------------------------------------
LEMMA FunctionIsSeq ==
  ASSUME NEW S, NEW n \in Nat, NEW f \in [1..n -> S]
  PROVE  f \in Seq(S) /\ Len(f) = n
<1>1. f \in Seq(S)
  BY SeqDef
<1>2. DOMAIN f = 1..Len(f) /\ DOMAIN f = 1..n /\ Len(f) \in Nat
  BY <1>1, LenProperties
<1> QED
  BY <1>1, <1>2

LEMMA ConcatFront ==
  ASSUME NEW S, NEW s \in Seq(S), NEW t \in Seq(S)
  PROVE  /\ s \o t \in Seq(S)
         /\ Len(s \o t) = Len(s) + Len(t)
         /\ \A i \in 1..Len(s) : (s \o t)[i] = s[i]
<1>1. Len(s) \in Nat /\ Len(t) \in Nat
  BY LenProperties
<1> QED
  BY <1>1, ConcatProperties

LEMMA TruncateType ==
  ASSUME NEW p \in Seq(Bytes), NEW n \in 0..Len(p)
  PROVE  Truncate(p, n) \in Seq(Bytes) /\ Len(Truncate(p, n)) = n
<1>1. Len(p) \in Nat /\ \A i \in 1..n : p[i] \in Bytes
  BY LenProperties, ElementOfSeq
<1> QED
  BY <1>1, SubSeqProperties DEF Truncate

LEMMA WindowType ==
  ASSUME BufferType
  PROVE  /\ Available \in Nat
         /\ Window \in Bytes
         /\ Len(Window) = Available
         /\ \A i \in 1..Available : Window[i] = buf[pos + i]
<1>1. Len(buf) \in Nat /\ \A i \in 1..Len(buf) : buf[i] \in Byte
  BY LenProperties, ElementOfSeq DEF BufferType, Bytes
<1>2. pos \in Nat /\ len \in Nat /\ Available \in Nat
  BY <1>1 DEF BufferType, Available
<1>3. \A i \in (pos + 1)..len : buf[i] \in Byte
  BY <1>1, <1>2 DEF BufferType
<1> QED
  BY <1>2, <1>3, SubSeqProperties DEF Window, Bytes, BufferType, Available

\* A read is handed room for at least a byte: 0 bytes then means the end.
LEMMA RoomType ==
  ASSUME BufferType, needed \in Nat
  PROVE  /\ Room \in Bytes
         /\ Len(Room) \in Nat
         /\ len < Len(Room)
         /\ \A i \in 1..len : Room[i] = buf[i]
         /\ \/ Len(Room) = Len(buf)
            \/ Len(Room) = len + MaxOf(READ_CHUNK, needed - Available)
<1> DEFINE size == len + MaxOf(READ_CHUNK, needed - Available)
<1>1. Len(buf) \in Nat /\ len \in Nat /\ Available \in Nat /\ READ_CHUNK \in Nat \ {0}
  BY LenProperties, BufferAssumption DEF BufferType, Bytes, Available
<1>2. CASE Len(buf) - len < READ_CHUNK
  <2>1. size \in Nat /\ size - Len(buf) \in Nat /\ size > len
    BY <1>1, <1>2 DEF MaxOf
  <2>2. Zeros(size - Len(buf)) \in [1..(size - Len(buf)) -> Byte]
    BY DEF Zeros, Byte
  <2>3. Zeros(size - Len(buf)) \in Bytes /\ Len(Zeros(size - Len(buf))) = size - Len(buf)
    BY <2>1, <2>2, FunctionIsSeq DEF Bytes
  <2>4. Room = buf \o Zeros(size - Len(buf))
    BY <1>2 DEF Room
  <2> HIDE DEF size
  <2>5. /\ Room \in Bytes
        /\ Len(Room) = Len(buf) + (size - Len(buf))
        /\ \A i \in 1..Len(buf) : Room[i] = buf[i]
    BY <2>3, <2>4, ConcatFront DEF BufferType, Bytes
  <2>6. Len(Room) = size /\ size \in Nat
    BY <1>1, <2>1, <2>5
  <2>7. len \in 0..Len(buf)
    BY DEF BufferType
  <2>8. \A i \in 1..len : i \in 1..Len(buf)
    BY <1>1, <2>7
  <2> QED
    BY <2>1, <2>5, <2>6, <2>8 DEF size
<1>3. CASE ~(Len(buf) - len < READ_CHUNK)
  <2>1. Room = buf
    BY <1>3 DEF Room
  <2>2. len < Len(buf)
    BY <1>1, <1>3
  <2> QED
    BY <1>1, <2>1, <2>2 DEF BufferType
<1> QED
  BY <1>2, <1>3

LEMMA CompactedType ==
  ASSUME BufferType
  PROVE  /\ Compacted \in Bytes
         /\ Len(Compacted) = Len(buf)
         /\ \A i \in 1..Available : Compacted[i] = buf[pos + i]
<1>1. Len(buf) \in Nat /\ \A i \in 1..Len(buf) : buf[i] \in Byte
  BY LenProperties, ElementOfSeq DEF BufferType, Bytes
<1>2. pos \in Nat /\ len \in Nat /\ Available \in Nat /\ Available <= Len(buf)
  BY <1>1 DEF BufferType, Available
<1>3. \A i \in 1..Available : pos + i \in 1..Len(buf) /\ i \in 1..Len(buf)
  BY <1>1, <1>2 DEF BufferType, Available
<1>4. Compacted \in [1..Len(buf) -> Byte]
  <2>1. ASSUME NEW i \in 1..Len(buf)
        PROVE  (IF i <= Available THEN buf[pos + i] ELSE buf[i]) \in Byte
    <3>1. CASE i <= Available
      <4>1. i \in 1..Available
        BY <1>1, <1>2, <3>1
      <4> QED
        BY <1>1, <1>3, <3>1, <4>1
    <3>2. CASE ~(i <= Available)
      BY <1>1, <3>2
    <3> QED
      BY <3>1, <3>2
  <2> QED
    BY <2>1 DEF Compacted
<1>5. \A i \in 1..Available : Compacted[i] = buf[pos + i]
  BY <1>2, <1>3 DEF Compacted
<1> QED
  BY <1>1, <1>4, <1>5, FunctionIsSeq DEF Bytes

\* ensure, up to its first read, changes where the window lies in the buffer and
\* nothing of what is in it.
LEMMA EnsureKeeps ==
  ASSUME BufferInv, NEW n \in Nat, NEW r \in {"magic", "begin", "attempt"},
         Ensure(n, r), UNCHANGED <<doc, fed>>
  PROVE  /\ BufferInv'
         /\ Available' = Available
         /\ needed' \in Nat
         /\ then' = r
         /\ pc' \in {r, "read"}
<1>1. needed' \in Nat /\ then' = r /\ pc' \in {r, "read"}
  BY DEF Ensure
<1>2. CASE Available >= n \/ eof
  <2>1. UNCHANGED <<doc, fed, buf, pos, len, eof>>
    BY <1>2 DEF Ensure, buffer
  <2>2. Available' = Available
    BY <2>1 DEF Available
  <2>3. BufferInv'
    BY <2>1, <2>2 DEF BufferInv, BufferType, WindowBytes, NoFalseEof
  <2> QED
    BY <1>1, <2>2, <2>3
<1>3. CASE ~(Available >= n \/ eof)
  <2> DEFINE b == IF pos > 0 THEN Compacted ELSE buf
  <2>1. buf' = b /\ len' = Available /\ pos' = 0 /\ eof' = eof
    BY <1>3 DEF Ensure, Compact
  <2>2. BufferType /\ Available \in Nat /\ Len(buf) \in Nat /\ pos \in Nat /\ len \in Nat
    BY WindowType, LenProperties DEF BufferInv, BufferType, Bytes
  <2>3. b \in Bytes /\ Len(b) = Len(buf) /\ \A i \in 1..Available : b[i] = buf[pos + i]
    <3>1. CASE pos > 0
      BY <2>2, <3>1, CompactedType
    <3>2. CASE ~(pos > 0)
      <4>1. pos = 0
        BY <2>2, <3>2
      <4>2. \A i \in 1..Available : pos + i = i
        BY <4>1
      <4> QED
        BY <2>2, <3>2, <4>2 DEF BufferType
    <3> QED
      BY <3>1, <3>2
  <2> HIDE DEF b
  <2>4. Available' = Available
    BY <2>1, <2>2 DEF Available
  <2>5. BufferType'
    <3>1. Available \in 0..Len(buf)
      BY <2>2 DEF BufferType, Available
    <3> QED
      BY <2>1, <2>2, <2>3, <3>1 DEF BufferType
  <2>6. WindowBytes'
    <3>1. ASSUME NEW i \in 1..Available
          PROVE  buf'[pos' + i] = doc[fed - Available + i]
      <4>1. pos' + i = i
        BY <2>1
      <4>2. buf[pos + i] = doc[fed - Available + i]
        BY DEF BufferInv, WindowBytes
      <4> QED
        BY <2>1, <2>3, <4>1, <4>2
    <3> QED
      BY <2>4, <3>1 DEF BufferInv, WindowBytes
  <2>7. NoFalseEof'
    BY <2>1 DEF BufferInv, NoFalseEof
  <2> QED
    BY <1>1, <2>4, <2>5, <2>6, <2>7 DEF BufferInv
<1> QED
  BY <1>2, <1>3

\* The bytes of a read join the window in the input's order.
LEMMA ReadKeeps ==
  ASSUME BufferInv, needed \in Nat,
         NEW n \in 1..MinOf(Len(Room) - len, Len(doc) - fed), Read(n)
  PROVE  BufferInv' /\ Available' = Available + n
<1>1. BufferType /\ WindowBytes
  BY DEF BufferInv
<1>2. /\ Room \in Bytes
      /\ Len(Room) \in Nat
      /\ len < Len(Room)
      /\ \A i \in 1..len : Room[i] = buf[i]
  BY <1>1, RoomType
<1>3. /\ Len(doc) \in Nat /\ fed \in Nat /\ pos \in Nat /\ len \in Nat
      /\ Available \in Nat /\ fed <= Len(doc) /\ pos <= len
  BY <1>1, WindowType, LenProperties DEF BufferType, Bytes
<1>4. n \in Nat /\ n <= Len(Room) - len /\ n <= Len(doc) - fed
  BY <1>2, <1>3 DEF MinOf
<1>5. UNCHANGED <<doc, pos, eof>> /\ buf' = Filled(n) /\ len' = len + n /\ fed' = fed + n
  BY DEF Read
<1>6. Available' = Available + n
  BY <1>3, <1>4, <1>5 DEF Available
<1>7. \A i \in 1..Len(doc) : doc[i] \in Byte
  BY <1>1, ElementOfSeq DEF BufferType, Bytes
<1>8. \A i \in 1..Len(Room) : Room[i] \in Byte
  BY <1>2, ElementOfSeq DEF Bytes
<1>9. Filled(n) \in [1..Len(Room) -> Byte]
  <2>1. ASSUME NEW i \in 1..Len(Room)
        PROVE  (IF i \in (len + 1)..(len + n) THEN doc[fed + i - len] ELSE Room[i]) \in Byte
    <3>1. i \in (len + 1)..(len + n) => fed + i - len \in 1..Len(doc)
      BY <1>3, <1>4
    <3> QED
      BY <3>1, <1>7, <1>8
  <2> QED
    BY <2>1 DEF Filled
<1>10. buf' \in Bytes /\ Len(buf') = Len(Room)
  BY <1>2, <1>5, <1>9, FunctionIsSeq DEF Bytes
<1>11. BufferType'
  <2>1. fed + n \in 0..Len(doc) /\ len + n \in 0..Len(Room) /\ pos \in 0..(len + n)
    BY <1>2, <1>3, <1>4
  <2> QED
    BY <1>1, <1>5, <1>10, <2>1 DEF BufferType
<1>12. WindowBytes'
  <2>1. ASSUME NEW i \in 1..(Available + n)
        PROVE  buf'[pos + i] = doc[(fed + n) - (Available + n) + i]
    <3>1. pos + i \in 1..Len(Room)
      BY <1>2, <1>3, <1>4 DEF Available
    <3>2. buf'[pos + i] = IF pos + i \in (len + 1)..(len + n)
                          THEN doc[fed + (pos + i) - len] ELSE Room[pos + i]
      BY <1>5, <3>1 DEF Filled
    <3>3. CASE i <= Available
      <4>1. pos + i \notin (len + 1)..(len + n) /\ pos + i \in 1..len /\ i \in 1..Available
        BY <1>3, <1>4, <3>3 DEF Available
      <4>2. buf'[pos + i] = buf[pos + i]
        BY <1>2, <3>2, <4>1
      <4>3. (fed + n) - (Available + n) + i = fed - Available + i
        BY <1>3, <1>4
      <4> QED
        BY <1>1, <4>1, <4>2, <4>3 DEF WindowBytes
    <3>4. CASE ~(i <= Available)
      <4>1. pos + i \in (len + 1)..(len + n)
        BY <1>3, <1>4, <3>4 DEF Available
      <4>2. fed + (pos + i) - len = (fed + n) - (Available + n) + i
        BY <1>3, <1>4 DEF Available
      <4> QED
        BY <3>2, <4>1, <4>2
    <3> QED
      BY <3>3, <3>4
  <2>2. Available + n <= fed + n
    BY <1>1, <1>3, <1>4 DEF WindowBytes
  <2> QED
    BY <1>5, <1>6, <2>1, <2>2 DEF WindowBytes
<1>13. NoFalseEof'
  <2>1. eof => n <= 0
    BY <1>3, <1>4 DEF BufferInv, NoFalseEof
  <2> QED
    BY <1>4, <1>5, <2>1 DEF NoFalseEof
<1> QED
  BY <1>6, <1>11, <1>12, <1>13 DEF BufferInv

\* A read that brings nothing changes nothing but the room behind the window.
LEMMA RoomKeeps ==
  ASSUME BufferInv, needed \in Nat, buf' = Room, UNCHANGED <<doc, fed, pos, len>>,
         eof' \in BOOLEAN, eof' => eof \/ fed = Len(doc)
  PROVE  BufferInv' /\ Available' = Available
<1>1. BufferType /\ WindowBytes /\ NoFalseEof
  BY DEF BufferInv
<1>2. /\ Room \in Bytes
      /\ Len(Room) \in Nat
      /\ len < Len(Room)
      /\ \A i \in 1..len : Room[i] = buf[i]
  BY <1>1, RoomType
<1>3. pos \in Nat /\ len \in Nat /\ Available \in Nat /\ pos <= len
  BY <1>1, WindowType, LenProperties DEF BufferType, Bytes
<1>4. Available' = Available
  BY DEF Available
<1>5. BufferType'
  <2>1. len \in 0..Len(Room)
    BY <1>2, <1>3
  <2> QED
    BY <1>1, <1>2, <2>1 DEF BufferType
<1>6. WindowBytes'
  <2>1. \A i \in 1..Available : pos + i \in 1..len
    BY <1>3 DEF Available
  <2> QED
    BY <1>1, <1>2, <1>4, <2>1 DEF WindowBytes
<1>7. NoFalseEof'
  BY <1>1 DEF NoFalseEof
<1> QED
  BY <1>4, <1>5, <1>6, <1>7 DEF BufferInv

\* Taking n bytes off the front of the window.
LEMMA ConsumeKeeps ==
  ASSUME BufferInv, NEW n \in 0..Available, pos' = pos + n,
         UNCHANGED <<doc, fed, buf, len, eof>>
  PROVE  BufferInv'
<1>1. BufferType /\ WindowBytes
  BY DEF BufferInv
<1>2. pos \in Nat /\ len \in Nat /\ fed \in Nat /\ Available \in Nat /\ pos <= len /\ n \in Nat
  BY <1>1, WindowType, LenProperties DEF BufferType, Bytes
<1>3. Available' = Available - n
  BY <1>2 DEF Available
<1>4. BufferType'
  <2>1. pos + n \in 0..len
    BY <1>2 DEF Available
  <2> QED
    BY <1>1, <2>1 DEF BufferType
<1>5. WindowBytes'
  <2>1. ASSUME NEW i \in 1..(Available - n)
        PROVE  buf[(pos + n) + i] = doc[fed - (Available - n) + i]
    <3>1. n + i \in 1..Available
      BY <1>2
    <3>2. buf[pos + (n + i)] = doc[fed - Available + (n + i)]
      BY <1>1, <3>1 DEF WindowBytes
    <3>3. pos + (n + i) = (pos + n) + i /\ fed - Available + (n + i) = fed - (Available - n) + i
      BY <1>2
    <3> QED
      BY <3>2, <3>3
  <2>2. Available - n <= fed
    BY <1>1, <1>2 DEF WindowBytes
  <2> QED
    BY <1>3, <2>1, <2>2 DEF WindowBytes
<1> QED
  BY <1>4, <1>5 DEF BufferInv, NoFalseEof

\* A grammar call started on pool p knows its pool's length for one to cut it
\* back to.
LEMMA StartPool ==
  ASSUME NEW p \in Seq(Bytes)
  PROVE  Start(p) \in GrammarState /\ Start(p).pool = p /\ Start(p).cur = 0
BY StartType DEF Start

LEMMA AppendAnswer ==
  ASSUME answers \in Seq(Answer), NEW x \in Answer
  PROVE  Append(answers, x) \in Seq(Answer)
BY AppendProperties

\* The window stated byte by byte is the window as a part of the input.
LEMMA WindowIsTheInput == BufferInv => WindowFaithful
<1> SUFFICES ASSUME BufferInv PROVE WindowFaithful
  OBVIOUS
<1>1. BufferType /\ WindowBytes
  BY DEF BufferInv
<1>2. /\ Available \in Nat /\ Window \in Bytes /\ Len(Window) = Available
      /\ \A i \in 1..Available : Window[i] = buf[pos + i]
  BY <1>1, WindowType
<1>3. fed \in Nat /\ fed <= Len(doc) /\ Len(doc) \in Nat /\ Available <= fed
  BY <1>1, LenProperties DEF BufferType, WindowBytes, Bytes
<1> DEFINE D == SubSeq(doc, fed - Available + 1, fed)
<1>4. \A i \in (fed - Available + 1)..fed : doc[i] \in Byte
  <2>1. \A i \in (fed - Available + 1)..fed : i \in 1..Len(doc)
    BY <1>2, <1>3
  <2> QED
    BY <1>1, <2>1, ElementOfSeq DEF BufferType, Bytes
<1>5. /\ D \in Bytes /\ Len(D) = Available
      /\ \A i \in 1..Available : D[i] = doc[fed - Available + i]
  <2>1. fed - Available + 1 \in Int /\ fed \in Int
    BY <1>2, <1>3
  <2>2. /\ D \in Seq(Byte)
        /\ Len(D) = IF fed - Available + 1 <= fed
                    THEN fed - (fed - Available + 1) + 1 ELSE 0
        /\ \A i \in 1..(fed - (fed - Available + 1) + 1) :
             D[i] = doc[(fed - Available + 1) + i - 1]
    BY <1>4, <2>1, SubSeqProperties
  <2> HIDE DEF D
  <2>3. Len(D) = Available
    BY <1>2, <1>3, <2>2
  <2>4. ASSUME NEW i \in 1..Available
        PROVE  D[i] = doc[fed - Available + i]
    <3>1. /\ i \in 1..(fed - (fed - Available + 1) + 1)
          /\ (fed - Available + 1) + i - 1 = fed - Available + i
      BY <1>2, <1>3
    <3> QED
      BY <2>2, <3>1
  <2> QED
    BY <2>2, <2>3, <2>4 DEF Bytes
<1> HIDE DEF D
<1>6. Window = D
  <2>1. \A i \in 1..Available : Window[i] = D[i]
    BY <1>1, <1>2, <1>5 DEF WindowBytes
  <2> QED
    BY <1>2, <1>5, <2>1, SeqEqual DEF Bytes
<1> QED
  BY <1>3, <1>6 DEF WindowFaithful, D

-----------------------------------------------------------------------------
LEMMA InitInv == Init => IInv
<1> SUFFICES ASSUME Init PROVE IInv
  OBVIOUS
<1>1. doc \in Bytes /\ Len(doc) \in Nat
  BY DocsAssumption, LenProperties DEF Init, Bytes
<1>2. buf \in Bytes /\ Len(buf) \in Nat
  <2>1. buf \in [1..INITIAL_BUF -> Byte]
    BY DEF Init, Zeros, Byte
  <2> QED
    BY <2>1, BufferAssumption, FunctionIsSeq DEF Bytes
<1>3. Available = 0
  BY DEF Init, Available
<1>4. BufferInv
  <2>1. BufferType
    <3>1. fed = 0 /\ len = 0 /\ pos = 0 /\ eof \in BOOLEAN
      BY DEF Init
    <3>2. fed \in 0..Len(doc) /\ len \in 0..Len(buf) /\ pos \in 0..len
      BY <1>1, <1>2, <3>1
    <3> QED
      BY <1>1, <1>2, <3>1, <3>2 DEF BufferType
  <2>2. WindowBytes
    BY <1>3 DEF Init, WindowBytes
  <2> QED
    BY <2>1, <2>2 DEF Init, BufferInv, NoFalseEof
<1>5. scan \in GrammarState /\ Len(scan.pool) = 0
  <2>1. <<>> \in Seq(Bytes) /\ Len(<<>>) = 0
    OBVIOUS
  <2> QED
    BY <2>1, StartPool DEF Init
<1>6. PoolType
  <2>1. called \in 0..Len(scan.pool) /\ mark \in 0..Len(scan.pool)
    BY <1>5 DEF Init
  <2> QED
    BY <1>5, <2>1 DEF PoolType
<1>7. ControlType
  <2>1. <<>> \in Seq(Answer)
    OBVIOUS
  <2> QED
    BY <2>1 DEF Init, ControlType, Pcs
<1> QED
  BY <1>4, <1>6, <1>7 DEF Init, IInv, CallInv, ParseInside, NoLeftovers

LEMMA NextInv == IInv /\ [Next]_vars => IInv'
<1> SUFFICES ASSUME IInv, [Next]_vars PROVE IInv'
  OBVIOUS
<1>0. /\ BufferInv /\ BufferType /\ PoolType /\ ControlType /\ ParseInside /\ NoLeftovers
      /\ needed \in Nat /\ answers \in Seq(Answer)
      /\ scan \in GrammarState /\ scan.pool \in Seq(Bytes) /\ scan.cur \in Nat
      /\ Available \in Nat /\ Len(scan.pool) \in Nat
  <2>1. /\ BufferInv /\ BufferType /\ PoolType /\ ControlType /\ ParseInside /\ NoLeftovers
    BY DEF IInv, BufferInv, CallInv
  <2>2. needed \in Nat /\ answers \in Seq(Answer) /\ scan \in GrammarState
    BY <2>1 DEF ControlType, PoolType
  <2>3. scan.pool \in Seq(Bytes) /\ scan.cur \in Nat
    BY <2>2 DEF GrammarState, GrammarRecord
  <2> QED
    BY <2>1, <2>2, <2>3, WindowType, LenProperties
<1>1. CASE New
  <2>1. BufferInv' /\ needed' \in Nat /\ then' = "magic" /\ pc' \in {"magic", "read"}
    BY <1>0, <1>1, EnsureKeeps DEF New
  <2>2. UNCHANGED <<scan, called, mark, answers, faults>>
    BY <1>1 DEF New
  <2>3. PoolType' /\ ControlType'
    BY <1>0, <2>1, <2>2 DEF PoolType, ControlType, Pcs
  <2>4. ParseInside' /\ NoLeftovers'
    BY <2>1 DEF ParseInside, NoLeftovers
  <2> QED
    BY <2>1, <2>3, <2>4 DEF IInv, CallInv
<1>2. CASE CheckMagic
  <2>1. UNCHANGED <<doc, fed, buf, len, eof, scan, called, mark, needed, then, faults>>
        /\ pc' \in {"idle", "closed"}
    BY <1>2 DEF CheckMagic
  <2>2. CASE MagicError(Window) = {}
    <3>1. Len(Window) = Available
      BY <1>0, WindowType
    <3>2. Available >= 4
      BY <1>0, <2>2, <3>1, MagicIsLong
    <3>3. pos' = pos + 4 /\ answers' = answers
      BY <1>2, <2>2 DEF CheckMagic
    <3>4. BufferInv'
      BY <1>0, <2>1, <3>2, <3>3, ConsumeKeeps
    <3>5. PoolType' /\ ParseInside' /\ NoLeftovers'
      BY <1>0, <2>1 DEF PoolType, ParseInside, NoLeftovers
    <3>6. ControlType'
      BY <1>0, <2>1, <3>3 DEF ControlType, Pcs
    <3> QED
      BY <3>4, <3>5, <3>6 DEF IInv, CallInv
  <2>3. CASE MagicError(Window) # {}
    <3>1. pos' = pos /\ \E e \in MagicError(Window) : answers' = Append(answers, <<"error", e>>)
      BY <1>2, <2>3 DEF CheckMagic
    <3>2. \A e \in MagicError(Window) : <<"error", e>> \in Answer
      BY MagicErrorType DEF Answer
    <3>3. answers' \in Seq(Answer)
      BY <1>0, <3>1, <3>2, AppendAnswer
    <3>4. BufferInv'
      BY <1>0, <2>1, <3>1 DEF BufferInv, BufferType, WindowBytes, NoFalseEof, Available
    <3> QED
      BY <1>0, <2>1, <3>3, <3>4
         DEF IInv, CallInv, PoolType, ControlType, Pcs, ParseInside, NoLeftovers
  <2> QED
    BY <2>2, <2>3
<1>3. CASE ReadSome
  <2>1. PICK n \in 1..MinOf(Len(Room) - len, Len(doc) - fed) : Read(n)
    BY <1>3 DEF ReadSome
  <2>2. BufferInv' /\ Available' = Available + n
    BY <1>0, <2>1, ReadKeeps
  <2>3. UNCHANGED <<scan, called, mark, needed, then, answers, faults>>
        /\ pc = "read" /\ pc' \in {then, "read"}
    BY <2>1 DEF Read
  <2>4. PoolType' /\ ControlType'
    BY <1>0, <2>3 DEF PoolType, ControlType, Pcs
  <2>5. ParseInside' /\ NoLeftovers'
    BY <1>0, <2>3 DEF ParseInside, NoLeftovers, ControlType
  <2> QED
    BY <2>2, <2>4, <2>5 DEF IInv, CallInv
<1>4. CASE ReadNothing
  <2>1. /\ UNCHANGED <<doc, fed, pos, len, scan, called, mark, needed, then, answers, faults>>
        /\ pc = "read" /\ pc' = then /\ buf' = Room /\ eof' = TRUE
        /\ fed = Len(doc) \/ Len(Room) = len
    BY <1>4 DEF ReadNothing
  <2>2. fed = Len(doc)
    BY <1>0, <2>1, RoomType DEF BufferType
  <2>3. BufferInv'
    BY <1>0, <2>1, <2>2, RoomKeeps
  <2>4. PoolType' /\ ControlType'
    BY <1>0, <2>1 DEF PoolType, ControlType, Pcs
  <2>5. ParseInside' /\ NoLeftovers'
    BY <1>0, <2>1 DEF ParseInside, NoLeftovers, ControlType
  <2> QED
    BY <2>3, <2>4, <2>5 DEF IInv, CallInv
<1>5. CASE ReadError
  <2>1. /\ UNCHANGED <<doc, fed, pos, len, eof, called, mark, needed, then, answers>>
        /\ pc = "read" /\ pc' \in {"idle", "closed"} /\ buf' = Room /\ faults' = faults + 1
    BY <1>5 DEF ReadError
  <2>2. BufferInv'
    BY <1>0, <2>1, RoomKeeps DEF BufferInv, BufferType, NoFalseEof
  <2>3. PoolType'
    <3>1. CASE then = "attempt"
      <4>1. Len(scan.pool) = called
        BY <1>0, <2>1, <3>1 DEF NoLeftovers
      <4>2. scan' = Start(Truncate(scan.pool, called)) /\ called \in 0..Len(scan.pool)
        BY <1>0, <1>5, <3>1 DEF ReadError, Restart, PoolType
      <4>3. scan' \in GrammarState /\ Len(scan'.pool) = called
        BY <1>0, <4>2, TruncateType, StartPool
      <4> QED
        BY <1>0, <2>1, <4>1, <4>3 DEF PoolType
    <3>2. CASE then # "attempt"
      BY <1>0, <1>5, <2>1, <3>2 DEF ReadError, PoolType
    <3> QED
      BY <3>1, <3>2
  <2>4. ControlType'
    BY <1>0, <2>1 DEF ControlType, Pcs
  <2>5. ParseInside' /\ NoLeftovers'
    BY <2>1 DEF ParseInside, NoLeftovers
  <2> QED
    BY <2>2, <2>3, <2>4, <2>5 DEF IInv, CallInv
<1>6. CASE NextEvent
  <2>1. BufferInv' /\ needed' \in Nat /\ then' = "begin" /\ pc' \in {"begin", "read"}
    BY <1>0, <1>6, EnsureKeeps DEF NextEvent
  <2>2. UNCHANGED <<scan, called, mark, answers, faults>>
    BY <1>6 DEF NextEvent
  <2>3. PoolType' /\ ControlType'
    BY <1>0, <2>1, <2>2 DEF PoolType, ControlType, Pcs
  <2>4. ParseInside' /\ NoLeftovers'
    BY <2>1 DEF ParseInside, NoLeftovers
  <2> QED
    BY <2>1, <2>3, <2>4 DEF IInv, CallInv
<1>7. CASE AtEnd
  <2>1. UNCHANGED <<doc, fed, buf, pos, len, eof, scan, called, mark, needed, then, faults>>
        /\ pc' = "idle" /\ answers' = Append(answers, <<"none">>)
    BY <1>7 DEF AtEnd
  <2>2. answers' \in Seq(Answer)
    BY <1>0, <2>1, AppendAnswer DEF Answer
  <2>3. BufferInv'
    BY <1>0, <2>1 DEF BufferInv, BufferType, WindowBytes, NoFalseEof, Available
  <2> QED
    BY <1>0, <2>1, <2>2, <2>3
       DEF IInv, CallInv, PoolType, ControlType, Pcs, ParseInside, NoLeftovers
<1>8. CASE Begin
  <2>1. UNCHANGED <<doc, fed, buf, pos, len, eof, scan, mark, needed, then, answers, faults>>
        /\ pc' = "attempt" /\ called' = Len(scan.pool)
    BY <1>8 DEF Begin
  <2>2. BufferInv'
    BY <1>0, <2>1 DEF BufferInv, BufferType, WindowBytes, NoFalseEof, Available
  <2>3. called' \in 0..Len(scan.pool)
    BY <1>0, <2>1
  <2> QED
    BY <1>0, <2>1, <2>2, <2>3
       DEF IInv, CallInv, PoolType, ControlType, Pcs, ParseInside, NoLeftovers
<1>9. CASE Attempt
  <2>1. UNCHANGED <<doc, fed, buf, pos, len, eof, called, needed, then, answers, faults>>
        /\ pc = "attempt" /\ pc' = "parse" /\ mark' = Len(scan.pool)
        /\ scan' = Start(scan.pool)
    BY <1>9 DEF Attempt
  <2>2. BufferInv' /\ Available' = Available
    BY <1>0, <2>1 DEF BufferInv, BufferType, WindowBytes, NoFalseEof, Available
  <2>3. scan' \in GrammarState /\ scan'.pool = scan.pool /\ scan'.cur = 0
    BY <1>0, <2>1, StartPool
  <2>4. mark' = called
    BY <1>0, <2>1 DEF NoLeftovers
  <2>5. PoolType' /\ ControlType'
    BY <1>0, <2>1, <2>3, <2>4 DEF PoolType, ControlType, Pcs
  <2>6. ParseInside' /\ NoLeftovers'
    BY <1>0, <2>1, <2>2, <2>3, <2>4 DEF ParseInside, NoLeftovers
  <2> QED
    BY <2>2, <2>5, <2>6 DEF IInv, CallInv
<1>10. CASE Parse
  <2>1. UNCHANGED <<doc, fed, buf, pos, len, eof, called, mark, needed, pc, then, answers, faults>>
        /\ pc = "parse" /\ scan' = Step(scan, Window, IsPartial)
    BY <1>10 DEF Parse
  <2>2. BufferInv' /\ Available' = Available
    BY <1>0, <2>1 DEF BufferInv, BufferType, WindowBytes, NoFalseEof, Available
  <2>3. Window \in Bytes /\ Len(Window) = Available
    BY <1>0, WindowType
  <2>4. StepsTo(scan, scan', Window)
    <3>1. IsPartial \in BOOLEAN
      BY DEF IsPartial
    <3> QED
      BY <1>0, <2>1, <2>3, <3>1, StepType DEF ParseInside
  <2>5. /\ scan' \in GrammarState /\ scan'.cur <= Available
        /\ Len(scan.pool) <= Len(scan'.pool) /\ Len(scan'.pool) \in Nat
    <3>1. scan' \in GrammarState /\ scan'.cur <= Available
          /\ Len(scan.pool) <= Len(scan'.pool)
      BY <2>3, <2>4 DEF StepsTo, PoolExtends
    <3>2. scan'.pool \in Seq(Bytes)
      BY <3>1 DEF GrammarState, GrammarRecord
    <3> QED
      BY <3>1, <3>2, LenProperties
  <2>6. PoolType'
    BY <1>0, <2>1, <2>5 DEF PoolType
  <2>7. ControlType' /\ ParseInside' /\ NoLeftovers'
    BY <1>0, <2>1, <2>2, <2>5 DEF ControlType, ParseInside, NoLeftovers
  <2> QED
    BY <2>2, <2>6, <2>7 DEF IInv, CallInv
<1>11. CASE Done
  <2>1. UNCHANGED <<doc, fed, buf, len, eof, called, mark, needed, then, faults>>
        /\ pc = "parse" /\ pc' = "idle" /\ pos' = pos + scan.cur
        /\ answers' = Append(answers, Result(scan)) /\ scan' = Start(scan.pool)
    BY <1>11 DEF Done
  <2>2. scan.cur \in 0..Available
    BY <1>0, <2>1 DEF ParseInside
  <2>3. BufferInv'
    BY <1>0, <2>1, <2>2, ConsumeKeeps
  <2>4. scan' \in GrammarState /\ scan'.pool = scan.pool
    BY <1>0, <2>1, StartPool
  <2>5. answers' \in Seq(Answer)
    BY <1>0, <2>1, ResultType, AppendAnswer
  <2> QED
    BY <1>0, <2>1, <2>3, <2>4, <2>5
       DEF IInv, CallInv, PoolType, ControlType, Pcs, ParseInside, NoLeftovers
<1>12. CASE Refill
  <2>1. UNCHANGED <<doc, fed, called, mark, answers, faults>>
        /\ pc = "parse" /\ scan' = Start(Truncate(scan.pool, mark))
        /\ Ensure(Available + scan.more, "attempt")
    BY <1>12 DEF Refill, Restart, WantedBytes
  <2>2. Available + scan.more \in Nat
    BY <1>0 DEF GrammarState, GrammarRecord
  <2>3. BufferInv' /\ needed' \in Nat /\ then' = "attempt" /\ pc' \in {"attempt", "read"}
    BY <1>0, <2>1, <2>2, EnsureKeeps
  <2>4. mark = called /\ mark \in 0..Len(scan.pool)
    BY <1>0, <2>1 DEF ParseInside, PoolType
  <2>5. scan' \in GrammarState /\ Len(scan'.pool) = called
    BY <1>0, <2>1, <2>4, TruncateType, StartPool
  <2>6. PoolType' /\ ControlType'
    BY <1>0, <2>1, <2>3, <2>4, <2>5 DEF PoolType, ControlType, Pcs
  <2>7. ParseInside' /\ NoLeftovers'
    BY <2>1, <2>3, <2>5 DEF ParseInside, NoLeftovers
  <2> QED
    BY <2>3, <2>6, <2>7 DEF IInv, CallInv
<1>13. CASE Failed
  <2>1. UNCHANGED <<doc, fed, buf, pos, len, eof, called, mark, needed, then, faults>>
        /\ pc = "parse" /\ pc' = "idle"
        /\ answers' = Append(answers, Result(scan))
        /\ scan' = Start(Truncate(scan.pool, called))
    BY <1>13 DEF Failed, Restart
  <2>2. BufferInv'
    BY <1>0, <2>1 DEF BufferInv, BufferType, WindowBytes, NoFalseEof, Available
  <2>3. mark = called /\ called \in 0..Len(scan.pool)
    BY <1>0, <2>1 DEF ParseInside, PoolType
  <2>4. scan' \in GrammarState /\ Len(scan'.pool) = called
    BY <1>0, <2>1, <2>3, TruncateType, StartPool
  <2>5. answers' \in Seq(Answer)
    BY <1>0, <2>1, ResultType, AppendAnswer
  <2> QED
    BY <1>0, <2>1, <2>2, <2>3, <2>4, <2>5
       DEF IInv, CallInv, PoolType, ControlType, Pcs, ParseInside, NoLeftovers
<1>14. CASE UNCHANGED vars
  BY <1>0, <1>14 DEF vars, IInv, CallInv, BufferInv, BufferType, WindowBytes, NoFalseEof,
                     Available, PoolType, ControlType, ParseInside, NoLeftovers
<1> QED
  BY <1>1, <1>2, <1>3, <1>4, <1>5, <1>6, <1>7, <1>8, <1>9, <1>10, <1>11, <1>12, <1>13, <1>14
     DEF Next, Internal

LEMMA Invariance == Spec => []IInv
<1> QED
  BY InitInv, NextInv, PTL DEF Spec

\* Every slicing of the buffer stays in range and every truncation of the pool
\* really shortens it, for all inputs, buffer and chunk sizes.
THEOREM StreamTypeCorrect == Spec => []TypeOK
<1>1. IInv => TypeOK
  BY DEF IInv, BufferInv, BufferType, CallInv, PoolType, ControlType, TypeOK
<1> QED
  BY <1>1, Invariance, PTL

\* However the input was cut into reads, and wherever the window has been moved
\* to, the window is the input between the last byte consumed and the last read.
THEOREM StreamWindowFaithful == Spec => []WindowFaithful
<1>1. IInv => WindowFaithful
  BY WindowIsTheInput DEF IInv
<1> QED
  BY <1>1, Invariance, PTL

\* The parser believes the input to be over only when it is: ensure never hands
\* the reader an empty slice.
THEOREM StreamNoFalseEof == Spec => []NoFalseEof
<1>1. IInv => NoFalseEof
  BY DEF IInv, BufferInv
<1> QED
  BY <1>1, Invariance, PTL

\* An abandoned attempt at an event leaves no string in the pool.
THEOREM StreamNoLeftovers == Spec => []NoLeftovers
<1>1. IInv => NoLeftovers
  BY DEF IInv, CallInv
<1> QED
  BY <1>1, Invariance, PTL

-----------------------------------------------------------------------------
(***************************************************************************)
(* The streaming parser implements the parser over memory, for every input *)
(* and every cutting of it into reads.                                     *)
(*                                                                         *)
(* Three things carry the proof.  The bytes still to be parsed, Pending,   *)
(* are the input without the bytes consumed, which no read, compaction or  *)
(* growth changes.  The attempt in progress is on the run of the grammar   *)
(* over all of Pending, though it only sees the window, until it meets the *)
(* window's end: so it ends as the call over memory does, or is abandoned. *)
(* And the pool that is cut back to, Committed, does not see the attempt.  *)
(***************************************************************************)

(***************************************************************************)
(* The grammar of the instance Memory is the grammar of this module.       *)
(***************************************************************************)
LEMMA MemoryTypes ==
  /\ Memory!NoBytesTypes = NoBytesTypes
  /\ Memory!BlobTypes = BlobTypes
  /\ Memory!FourByteTypes = FourByteTypes
  /\ Memory!EightByteTypes = EightByteTypes
  /\ Memory!TYPE_STRING = TYPE_STRING
  /\ Memory!TYPE_STRING_INTERNED = TYPE_STRING_INTERNED
BY DEF NoBytesTypes, BlobTypes, FourByteTypes, EightByteTypes,
       TYPE_NULL, TYPE_STRING, TYPE_STRING_INTERNED, TYPE_BYTES_HEX, TYPE_BYTES_BASE64,
       TYPE_INT, TYPE_INT_HEX, TYPE_LONG, TYPE_LONG_HEX, TYPE_FLOAT, TYPE_DOUBLE,
       TYPE_BOOLEAN_TRUE, TYPE_BOOLEAN_FALSE,
       Memory!NoBytesTypes, Memory!BlobTypes, Memory!FourByteTypes, Memory!EightByteTypes,
       Memory!TYPE_NULL, Memory!TYPE_STRING, Memory!TYPE_STRING_INTERNED,
       Memory!TYPE_BYTES_HEX, Memory!TYPE_BYTES_BASE64, Memory!TYPE_INT,
       Memory!TYPE_INT_HEX, Memory!TYPE_LONG, Memory!TYPE_LONG_HEX, Memory!TYPE_FLOAT,
       Memory!TYPE_DOUBLE, Memory!TYPE_BOOLEAN_TRUE, Memory!TYPE_BOOLEAN_FALSE

LEMMA MemoryFields ==
  /\ \A hi, lo : Memory!U16(hi, lo) = U16(hi, lo)
  /\ Memory!INTERNED_NEW = INTERNED_NEW
  /\ \A b : Memory!Command(b) = Command(b) /\ Memory!TypeNibble(b) = TypeNibble(b)
BY DEF U16, INTERNED_NEW, Command, TypeNibble,
       Memory!U16, Memory!INTERNED_NEW, Memory!Command, Memory!TypeNibble

LEMMA MemoryReads ==
  ASSUME NEW g, NEW s, NEW n, NEW kind
  PROVE  /\ Memory!Fail(g, kind, n) = Fail(g, kind, n)
         /\ Memory!ReadIndex(g, s) = ReadIndex(g, s)
         /\ Memory!ReadLength(g, s) = ReadLength(g, s)
         /\ Memory!ReadScalar(g, n) = ReadScalar(g, n)
         /\ Memory!PushAttribute(g, n, s) = PushAttribute(g, n, s)
BY DEF Fail, ReadIndex, ReadLength, ReadScalar, PushAttribute, Memory!Fail,
       Memory!ReadIndex, Memory!ReadLength, Memory!ReadScalar, Memory!PushAttribute

LEMMA MemoryAttrValue == \A g : Memory!AttrValue(g) = AttrValue(g)
BY MemoryTypes, MemoryReads
   DEF AttrValue, ScalarSize, Memory!AttrValue, Memory!ScalarSize

LEMMA MemoryDeliver == \A g, s : Memory!Deliver(g, s) = Deliver(g, s)
BY MemoryTypes, MemoryReads, MemoryAttrValue
   DEF Deliver, ValueType, Memory!Deliver, Memory!ValueType

LEMMA MemoryCommands ==
  /\ Memory!TextCommands = TextCommands
  /\ Memory!CMD_START_DOCUMENT = CMD_START_DOCUMENT
  /\ Memory!CMD_END_DOCUMENT = CMD_END_DOCUMENT
  /\ Memory!CMD_START_TAG = CMD_START_TAG
  /\ Memory!CMD_END_TAG = CMD_END_TAG
BY DEF TextCommands, CMD_START_DOCUMENT, CMD_END_DOCUMENT, CMD_START_TAG,
       CMD_END_TAG, CMD_TEXT, CMD_DOCDECL,
       Memory!TextCommands, Memory!CMD_START_DOCUMENT,
       Memory!CMD_END_DOCUMENT, Memory!CMD_START_TAG, Memory!CMD_END_TAG,
       Memory!CMD_TEXT, Memory!CMD_DOCDECL

LEMMA MemoryToken == \A g, b : Memory!Token(g, b) = Token(g, b)
<1> SUFFICES ASSUME NEW g, NEW b PROVE Memory!Token(g, b) = Token(g, b)
  OBVIOUS
<1> DEFINE h == [g EXCEPT !.command = Command(b), !.type = TypeNibble(b)]
<1>1. Memory!Command(b) = Command(b) /\ Memory!TypeNibble(b) = TypeNibble(b)
  BY MemoryFields, Zenon
<1>2. Memory!TYPE_STRING = TYPE_STRING
  BY MemoryTypes, Zenon
<1>3. /\ Memory!ReadIndex(h, "tag") = ReadIndex(h, "tag")
      /\ Memory!ReadIndex(h, "end") = ReadIndex(h, "end")
      /\ Memory!ReadLength(h, "text") = ReadLength(h, "text")
      /\ Memory!Fail(h, "UnknownCommand", h.command) = Fail(h, "UnknownCommand", h.command)
  BY MemoryReads, Zenon
<1> QED
  BY <1>1, <1>2, <1>3, MemoryCommands, Zenon DEF Token, Memory!Token

LEMMA MemoryIndex == \A g, i : Memory!Index(g, i) = Index(g, i)
BY MemoryFields, MemoryReads, MemoryDeliver DEF Index, Memory!Index

LEMMA MemoryPayload == \A g, s : Memory!Payload(g, s) = Payload(g, s)
BY MemoryTypes, MemoryReads, MemoryDeliver DEF Payload, IsBlob, Memory!Payload, Memory!IsBlob

LEMMA MemoryAttrs == \A g, b : Memory!Attrs(g, b) = Attrs(g, b)
BY MemoryFields, MemoryReads DEF Attrs, CMD_ATTRIBUTE, Memory!Attrs, Memory!CMD_ATTRIBUTE

LEMMA MemoryShort == \A g, n, partial : Memory!Short(g, n, partial) = Short(g, n, partial)
BY MemoryTypes, MemoryReads
   DEF Short, Wants, IsBlob, Memory!Short, Memory!Wants, Memory!IsBlob

LEMMA MemoryStep == \A g, W, partial : Memory!Step(g, W, partial) = Step(g, W, partial)
<1>1. \A g : Memory!Wants(g) = Wants(g)
  BY DEF Wants, Memory!Wants
<1>2. \A g, W : Memory!Take(g, W) = Take(g, W)
  BY <1>1, MemoryFields, MemoryDeliver, MemoryToken, MemoryIndex, MemoryPayload, MemoryAttrs
     DEF Take, Memory!Take
<1> QED
  BY <1>1, <1>2, MemoryShort DEF Step, Final, Memory!Step, Memory!Final

\* The runs are the same because they are the choices of the same function.
LEMMA MemoryRun == \A W, p : Memory!Run(W, p) = Run(W, p)
<1> SUFFICES ASSUME NEW W, NEW p PROVE Memory!RunSteps(W, p) = RunSteps(W, p)
  BY DEF Run, Memory!Run
<1> DEFINE Ours(f) ==
             f = [k \in 0..(Len(W) + 1) |->
                    IF k = 0 THEN Start(p) ELSE Step(f[k - 1], W, FALSE)]
           Theirs(f) ==
             f = [k \in 0..(Len(W) + 1) |->
                    IF k = 0 THEN Memory!Start(p) ELSE Memory!Step(f[k - 1], W, FALSE)]
<1>1. Memory!Start(p) = Start(p)
  BY DEF Start, NoError, Memory!Start, Memory!NoError
<1>2. \A f : Theirs(f) <=> Ours(f)
  BY <1>1, MemoryStep
<1>3. Memory!RunSteps(W, p) = CHOOSE f : Theirs(f)
  BY DEF Memory!RunSteps
<1>4. RunSteps(W, p) = CHOOSE f : Ours(f)
  BY DEF RunSteps
<1> HIDE DEF Ours, Theirs
<1>5. (CHOOSE f : Theirs(f)) = (CHOOSE f : Ours(f))
  BY <1>2, Zenon
<1> QED
  BY <1>3, <1>4, <1>5

LEMMA MemoryResult == \A g : Memory!Result(g) = Result(g)
BY DEF Result, Event, Memory!Result, Memory!Event

LEMMA MemoryMagicError == \A W : Memory!MagicError(W) = MagicError(W)
BY DEF MagicError, MAGIC, Memory!MagicError, Memory!MAGIC

-----------------------------------------------------------------------------
(***************************************************************************)
(* What is still to be parsed.                                             *)
(***************************************************************************)
Consumed == fed - Available

LEMMA BufferFacts ==
  ASSUME BufferInv
  PROVE  /\ doc \in Bytes /\ Len(doc) \in Nat /\ fed \in Nat /\ Available \in Nat
         /\ fed <= Len(doc) /\ Consumed \in Nat /\ Consumed + Available = fed
         /\ Window \in Bytes /\ Len(Window) = Available
<1>1. BufferType /\ Available <= fed
  BY DEF BufferInv, WindowBytes
<1>2. doc \in Bytes /\ Len(doc) \in Nat /\ fed \in 0..Len(doc)
  BY <1>1, LenProperties DEF BufferType, Bytes
<1> QED
  BY <1>1, <1>2, WindowType DEF Consumed

LEMMA PendingIsTheRest == BufferInv => Pending = SubSeq(doc, Consumed + 1, Len(doc))
<1> SUFFICES ASSUME BufferInv PROVE Pending = SubSeq(doc, Consumed + 1, Len(doc))
  OBVIOUS
<1>1. /\ doc \in Seq(Byte) /\ Consumed + 1 \in 1..(Len(doc) + 1)
      /\ fed \in ((Consumed + 1) - 1)..Len(doc) /\ Len(doc) \in fed..Len(doc)
  BY BufferFacts DEF Bytes
<1>2. Window = SubSeq(doc, Consumed + 1, fed)
  BY WindowIsTheInput DEF WindowFaithful, Consumed
<1> QED
  BY <1>1, <1>2, ConcatAdjacentSubSeq DEF Pending

LEMMA PendingType ==
  ASSUME BufferInv
  PROVE  /\ Pending \in Bytes
         /\ Len(Pending) = Len(doc) - Consumed
         /\ Available <= Len(Pending)
         /\ \A i \in 1..Available : Pending[i] = Window[i]
         /\ eof => Pending = Window
         /\ eof /\ Available = 0 => Pending = <<>>
<1>1. doc \in Bytes /\ Len(doc) \in Nat /\ fed \in 0..Len(doc) /\ Consumed \in 0..Len(doc)
      /\ Available \in Nat /\ Consumed + Available = fed
      /\ Window \in Bytes /\ Len(Window) = Available
  BY BufferFacts
<1>2. SubSeq(doc, fed + 1, Len(doc)) \in Bytes
  BY <1>1, RestType
<1>3. \A i \in 1..Available : Pending[i] = Window[i]
  BY <1>1, <1>2, ConcatFront DEF Pending, Bytes
<1>4. Pending \in Bytes /\ Len(Pending) = Len(doc) - Consumed
  BY <1>1, RestType, PendingIsTheRest
<1>5. ASSUME eof PROVE Pending = Window
  <2>1. SubSeq(doc, fed + 1, Len(doc)) = <<>>
    <3>1. fed = Len(doc)
      BY <1>5 DEF BufferInv, NoFalseEof
    <3> QED
      BY <1>1, <3>1, SubSeqEmpty
  <2> QED
    BY <1>1, <2>1, ConcatEmptySeq DEF Pending, Bytes
<1>6. Available <= Len(Pending)
  BY <1>1, <1>4
<1>7. ASSUME eof, Available = 0 PROVE Pending = <<>>
  BY <1>1, <1>5, <1>7, EmptySeq DEF Bytes
<1> QED
  BY <1>3, <1>4, <1>5, <1>6, <1>7

LEMMA PendingKept ==
  ASSUME BufferInv, BufferInv', doc' = doc, Consumed' = Consumed
  PROVE  Pending' = Pending
<1>1. Pending = SubSeq(doc, Consumed + 1, Len(doc))
  BY PendingIsTheRest
<1>2. Pending' = SubSeq(doc', Consumed' + 1, Len(doc'))
  <2>1. (BufferInv => Pending = SubSeq(doc, Consumed + 1, Len(doc)))'
    BY PendingIsTheRest, PTL
  <2> QED
    BY <2>1
<1> QED
  BY <1>1, <1>2

\* An event takes its bytes off what is to be parsed.
LEMMA PendingConsumed ==
  ASSUME BufferInv, BufferInv', NEW n \in 0..Available,
         doc' = doc, fed' = fed, Available' = Available - n
  PROVE  Pending' = SubSeq(Pending, n + 1, Len(Pending))
<1>1. /\ doc \in Bytes /\ Len(doc) \in Nat /\ Consumed \in 0..Len(doc) /\ n \in Nat
      /\ fed \in Nat /\ Available \in Nat /\ Consumed + Available = fed
      /\ n \in 0..(Len(doc) - Consumed)
  BY BufferFacts
<1>2. Consumed' = Consumed + n
  BY <1>1 DEF Consumed
<1>3. (BufferInv => Pending = SubSeq(doc, Consumed + 1, Len(doc)))'
  BY PendingIsTheRest, PTL
<1>4. Pending' = SubSeq(doc, (Consumed + n) + 1, Len(doc))
  BY <1>2, <1>3
<1>5. Pending = SubSeq(doc, Consumed + 1, Len(doc))
  BY PendingIsTheRest
<1> QED
  BY <1>1, <1>4, <1>5, RestOfRest

-----------------------------------------------------------------------------
(***************************************************************************)
(* What a call in progress knows.                                          *)
(***************************************************************************)
Waiting(for) == pc = "read" /\ then = for

Trying == pc \in {"attempt", "parse"} \/ Waiting("attempt")

\* new has consumed nothing and answered nothing.
OpeningInv == Opening => Consumed = 0 /\ answers = <<>> /\ scan.pool = <<>>

\* ensure returns when the bytes are there or the input is over.
ServedInv == /\ Waiting("magic") => needed = 4
             /\ Waiting("begin") => needed = 1
             /\ pc = "magic" => Available >= 4 \/ eof
             /\ pc = "begin" => Available >= 1 \/ eof
             /\ Trying => Available >= 1

CallsInv == pc = "begin" \/ Waiting("begin") \/ Trying => Len(answers) < MaxCalls

\* The attempt is on the run over all that is to be parsed, from the pool of the
\* last event, unless it is given up.
AttemptInv == pc = "parse" => scan.at = "incomplete" \/ OnRun(scan, Pending, Committed)

RunInv == OpeningInv /\ ServedInv /\ CallsInv /\ AttemptInv

\* A step of which the parser over memory shows nothing.
Unseen == UNCHANGED Memory!vars

LEMMA UnseenStep ==
  ASSUME UNCHANGED <<doc, Phase, Committed, answers>>,
         Phase = "open" => Pending' = Pending
  PROVE  Unseen
BY DEF Unseen, Memory!vars

\* ensure, up to its first read, is not seen.
LEMMA EnsureServes ==
  ASSUME BufferInv, NEW n \in Nat, NEW r \in {"magic", "begin", "attempt"},
         Ensure(n, r), UNCHANGED <<doc, fed>>
  PROVE  /\ BufferInv' /\ Available' = Available /\ Consumed' = Consumed
         /\ Pending' = Pending
         /\ then' = r /\ needed' = n
         /\ pc' = "read" \/ (pc' = r /\ (Available' >= n \/ eof'))
<1>1. BufferInv' /\ Available' = Available /\ then' = r
  BY EnsureKeeps
<1>2. Consumed' = Consumed
  BY <1>1 DEF Consumed
<1>3. Pending' = Pending
  BY <1>1, <1>2, PendingKept
<1>4. needed' = n /\ (pc' = "read" \/ (pc' = r /\ (Available >= n \/ eof) /\ eof' = eof))
  BY DEF Ensure, buffer
<1> QED
  BY <1>1, <1>2, <1>3, <1>4

\* The first n strings of a pool, and of a longer one.
LEMMA TruncateTwice ==
  ASSUME NEW p \in Seq(Bytes), NEW n \in 0..Len(p)
  PROVE  /\ Truncate(p, Len(p)) = p
         /\ Truncate(Truncate(p, n), n) = Truncate(p, n)
<1>1. Truncate(p, n) \in Seq(Bytes) /\ Len(Truncate(p, n)) = n
  BY TruncateType
<1> QED
  BY <1>1, SubSeqFull DEF Truncate

LEMMA TruncateExtended ==
  ASSUME NEW p \in Seq(Bytes), NEW q \in Seq(Bytes), PoolExtends(p, q), NEW n \in 0..Len(p)
  PROVE  Truncate(q, n) = Truncate(p, n)
<1>1. Len(p) \in Nat /\ Len(q) \in Nat /\ Len(p) <= Len(q) /\ SubSeq(q, 1, Len(p)) = p
  BY LenProperties DEF PoolExtends
<1>2. \A i \in 1..Len(p) : q[i] \in Bytes
  BY <1>1, ElementOfSeq
<1>3. \A i \in 1..Len(p) : p[i] = q[i]
  <2>1. \A i \in 1..(Len(p) - 1 + 1) : SubSeq(q, 1, Len(p))[i] = q[1 + i - 1]
    BY <1>1, <1>2, SubSeqProperties
  <2> QED
    BY <1>1, <2>1
<1>4. \A i \in 1..n : p[i] \in Bytes /\ q[i] \in Bytes /\ p[i] = q[i]
  BY <1>1, <1>2, <1>3
<1>5. /\ Truncate(p, n) \in Seq(Bytes) /\ Len(Truncate(p, n)) = n
      /\ \A i \in 1..n : Truncate(p, n)[i] = p[i]
  BY <1>1, <1>4, SubSeqProperties DEF Truncate
<1>6. /\ Truncate(q, n) \in Seq(Bytes) /\ Len(Truncate(q, n)) = n
      /\ \A i \in 1..n : Truncate(q, n)[i] = q[i]
  BY <1>1, <1>4, SubSeqProperties DEF Truncate
<1> QED
  BY <1>4, <1>5, <1>6, SeqEqual

\* The parts of the invariants that the steps use.
LEMMA Facts ==
  ASSUME IInv, RunInv
  PROVE  /\ BufferInv /\ PoolType /\ ControlType /\ ParseInside /\ NoLeftovers
         /\ scan \in GrammarState /\ scan.pool \in Seq(Bytes) /\ Len(scan.pool) \in Nat
         /\ scan.cur \in Nat /\ called \in 0..Len(scan.pool) /\ answers \in Seq(Answer)
         /\ Committed \in Seq(Bytes)
<1>1. BufferInv /\ PoolType /\ ControlType /\ ParseInside /\ NoLeftovers
  BY DEF IInv, CallInv
<1>2. /\ scan \in GrammarState /\ scan.pool \in Seq(Bytes) /\ scan.cur \in Nat
      /\ called \in 0..Len(scan.pool) /\ answers \in Seq(Answer)
  BY <1>1 DEF PoolType, ControlType, GrammarState, GrammarRecord
<1>3. Committed \in Seq(Bytes)
  BY <1>2, TruncateType DEF Committed
<1> QED
  BY <1>1, <1>2, <1>3, LenProperties

-----------------------------------------------------------------------------
LEMMA NewUnseen ==
  ASSUME IInv, RunInv, New
  PROVE  RunInv' /\ Unseen
<1>1. BufferInv /\ pc = "new" /\ UNCHANGED <<doc, fed, scan, called, mark, answers, faults>>
  BY Facts DEF New
<1>2. /\ Consumed' = Consumed /\ then' = "magic" /\ needed' = 4
      /\ pc' = "read" \/ (pc' = "magic" /\ (Available' >= 4 \/ eof'))
  BY <1>1, EnsureServes DEF New
<1>3. Opening /\ Opening'
  BY <1>1, <1>2 DEF Opening
<1>4. RunInv'
  BY <1>1, <1>2, <1>3
     DEF RunInv, OpeningInv, ServedInv, CallsInv, AttemptInv, Waiting, Trying
<1>5. Phase = "new" /\ Phase' = "new" /\ Committed' = Committed
  BY <1>1, <1>2, <1>3 DEF Phase, Committed
<1> QED
  BY <1>1, <1>4, <1>5, UnseenStep

LEMMA NextEventUnseen ==
  ASSUME IInv, RunInv, NextEvent
  PROVE  RunInv' /\ Unseen
<1>1. BufferInv /\ pc = "idle" /\ Len(answers) < MaxCalls
      /\ UNCHANGED <<doc, fed, scan, called, mark, answers, faults>>
  BY Facts DEF NextEvent
<1>2. /\ Pending' = Pending /\ then' = "begin" /\ needed' = 1
      /\ pc' = "read" \/ (pc' = "begin" /\ (Available' >= 1 \/ eof'))
  BY <1>1, EnsureServes DEF NextEvent
<1>3. ~Opening /\ ~Opening'
  BY <1>1, <1>2 DEF Opening
<1>4. RunInv'
  BY <1>1, <1>2, <1>3
     DEF RunInv, OpeningInv, ServedInv, CallsInv, AttemptInv, Waiting, Trying
<1>5. Phase = "open" /\ Phase' = "open" /\ Committed' = Committed
  BY <1>1, <1>2, <1>3 DEF Phase, Committed
<1> QED
  BY <1>1, <1>2, <1>4, <1>5, UnseenStep

LEMMA RefillUnseen ==
  ASSUME IInv, RunInv, Refill
  PROVE  RunInv' /\ Unseen
<1>1. BufferInv /\ pc = "parse" /\ UNCHANGED <<doc, fed, called, mark, answers, faults>>
      /\ scan' = Start(Truncate(scan.pool, mark)) /\ mark = called
      /\ scan.pool \in Seq(Bytes) /\ called \in 0..Len(scan.pool)
  BY Facts DEF Refill, Restart, ParseInside
<1>2. Available + scan.more \in Nat
  BY Facts, BufferFacts DEF GrammarState, GrammarRecord
<1>3. /\ Pending' = Pending /\ then' = "attempt" /\ Available' = Available
      /\ pc' \in {"read", "attempt"}
  BY <1>1, <1>2, EnsureServes DEF Refill, WantedBytes
<1>4. ~Opening /\ ~Opening' /\ Trying /\ Trying'
  BY <1>1, <1>3 DEF Opening, Trying, Waiting
<1>5. RunInv'
  BY <1>1, <1>3, <1>4
     DEF RunInv, OpeningInv, ServedInv, CallsInv, AttemptInv, Waiting
<1>6. Phase = "open" /\ Phase' = "open"
  BY <1>1, <1>3, <1>4 DEF Phase
<1>7. Committed' = Committed
  <2>1. scan'.pool = Truncate(scan.pool, called)
    BY <1>1 DEF Start
  <2>2. Committed = Truncate(scan.pool, called) /\ Committed' = Truncate(scan'.pool, called)
    BY <1>1, <1>3 DEF Committed
  <2> QED
    BY <1>1, <2>1, <2>2, TruncateTwice
<1> QED
  BY <1>1, <1>3, <1>5, <1>6, <1>7, UnseenStep

LEMMA ReadSomeUnseen ==
  ASSUME IInv, RunInv, ReadSome
  PROVE  RunInv' /\ Unseen
<1>1. PICK n \in 1..MinOf(Len(Room) - len, Len(doc) - fed) : Read(n)
  BY DEF ReadSome
<1>2. /\ UNCHANGED <<doc, eof, scan, called, mark, needed, then, answers, faults>>
      /\ pc = "read" /\ fed' = fed + n
      /\ pc' = IF Available + n >= needed THEN then ELSE "read"
      /\ BufferInv /\ needed \in Nat /\ then \in {"magic", "begin", "attempt"}
  BY <1>1, Facts DEF Read, ControlType
<1>3. BufferInv' /\ Available' = Available + n
  BY <1>1, <1>2, ReadKeeps
<1>4. n \in Nat /\ n >= 1 /\ Available \in Nat /\ fed \in Nat
  BY BufferFacts, <1>2
<1>5. Consumed' = Consumed
  BY <1>2, <1>3, <1>4 DEF Consumed
<1>6. Pending' = Pending
  BY <1>2, <1>3, <1>5, PendingKept
<1>7. /\ Opening' <=> Opening
      /\ Trying' <=> Trying
      /\ pc' # "parse" /\ pc' # "closed"
  BY <1>2 DEF Opening, Trying, Waiting
<1>8. OpeningInv' /\ CallsInv' /\ AttemptInv'
  BY <1>2, <1>5, <1>7 DEF RunInv, OpeningInv, CallsInv, AttemptInv, Waiting
<1>9. ServedInv'
  BY <1>2, <1>3, <1>4, <1>7 DEF RunInv, ServedInv, Waiting
<1>10. Phase' = Phase /\ Committed' = Committed
  BY <1>2, <1>7 DEF Phase, Committed, Trying, Waiting
<1> QED
  BY <1>2, <1>6, <1>8, <1>9, <1>10, UnseenStep DEF RunInv

LEMMA ReadNothingUnseen ==
  ASSUME IInv, IInv', RunInv, ReadNothing
  PROVE  RunInv' /\ Unseen
<1>1. /\ UNCHANGED <<doc, fed, pos, len, scan, called, mark, needed, then, answers, faults>>
      /\ pc = "read" /\ pc' = then /\ eof' = TRUE
      /\ BufferInv /\ then \in {"magic", "begin", "attempt"}
  BY Facts DEF ReadNothing, ControlType
<1>2. BufferInv'
  BY DEF IInv
<1>3. Available' = Available /\ Consumed' = Consumed
  BY <1>1 DEF Available, Consumed
<1>4. Pending' = Pending
  BY <1>1, <1>2, <1>3, PendingKept
<1>5. /\ Opening' <=> Opening
      /\ Trying' <=> Trying
      /\ pc' # "parse" /\ pc' # "closed"
  BY <1>1 DEF Opening, Trying, Waiting
<1>6. RunInv'
  BY <1>1, <1>3, <1>5 DEF RunInv, OpeningInv, ServedInv, CallsInv, AttemptInv, Waiting
<1>7. Phase' = Phase /\ Committed' = Committed
  BY <1>1, <1>5 DEF Phase, Committed, Trying, Waiting
<1> QED
  BY <1>1, <1>4, <1>6, <1>7, UnseenStep

LEMMA ReadErrorUnseen ==
  ASSUME IInv, IInv', RunInv, ReadError
  PROVE  RunInv' /\ Unseen
<1>1. /\ UNCHANGED <<doc, fed, pos, len, eof, called, mark, needed, then, answers>>
      /\ pc = "read" /\ pc' = (IF then = "magic" THEN "closed" ELSE "idle")
      /\ scan' = IF then = "attempt" THEN Start(Truncate(scan.pool, called)) ELSE scan
      /\ BufferInv /\ then \in {"magic", "begin", "attempt"}
  BY Facts DEF ReadError, ControlType, Restart
<1>2. BufferInv'
  BY DEF IInv
<1>3. Consumed' = Consumed
  BY <1>1 DEF Available, Consumed
<1>4. Pending' = Pending
  BY <1>1, <1>2, <1>3, PendingKept
<1>5. RunInv'
  BY <1>1 DEF RunInv, OpeningInv, ServedInv, CallsInv, AttemptInv, Waiting, Opening, Trying
<1>6. Committed' = Committed
  <2>1. CASE then = "attempt"
    BY <1>1, <2>1 DEF Committed, Start
  <2>2. CASE then # "attempt"
    BY <1>1, <2>2 DEF Committed
  <2> QED
    BY <2>1, <2>2
<1>7. Phase' = Phase
  BY <1>1 DEF Phase, Opening, RunInv, OpeningInv
<1> QED
  BY <1>1, <1>4, <1>5, <1>6, <1>7, UnseenStep

LEMMA BeginUnseen ==
  ASSUME IInv, RunInv, Begin
  PROVE  RunInv' /\ Unseen
<1>1. /\ UNCHANGED <<doc, fed, buf, pos, len, eof, scan, mark, needed, then, answers, faults>>
      /\ pc = "begin" /\ pc' = "attempt" /\ called' = Len(scan.pool) /\ Available > 0
      /\ scan.pool \in Seq(Bytes) /\ Available \in Nat
  BY Facts, BufferFacts DEF Begin
<1>2. Available' = Available /\ Pending' = Pending
  BY <1>1 DEF Available, Pending, Window
<1>3. RunInv'
  BY <1>1, <1>2 DEF RunInv, OpeningInv, ServedInv, CallsInv, AttemptInv, Waiting, Opening, Trying
<1>4. Committed' = Committed
  <2>1. Committed = scan.pool /\ Committed' = Truncate(scan.pool, Len(scan.pool))
    BY <1>1 DEF Committed
  <2>2. Len(scan.pool) \in 0..Len(scan.pool)
    BY Facts
  <2> QED
    BY <1>1, <2>1, <2>2, TruncateTwice
<1>5. Phase' = Phase
  BY <1>1 DEF Phase, Opening
<1> QED
  BY <1>1, <1>2, <1>3, <1>4, <1>5, UnseenStep

LEMMA AttemptUnseen ==
  ASSUME IInv, RunInv, Attempt
  PROVE  RunInv' /\ Unseen
<1>1. /\ UNCHANGED <<doc, fed, buf, pos, len, eof, called, needed, then, answers, faults>>
      /\ pc = "attempt" /\ pc' = "parse" /\ scan' = Start(scan.pool)
      /\ BufferInv /\ scan.pool \in Seq(Bytes) /\ Len(scan.pool) = called
  BY Facts DEF Attempt, NoLeftovers
<1>2. Available' = Available /\ Pending' = Pending
  BY <1>1 DEF Available, Pending, Window
<1>3. scan'.pool = scan.pool
  BY <1>1 DEF Start
<1>4. Committed = scan.pool /\ Committed' = scan.pool
  <2>1. Len(scan.pool) \in 0..Len(scan.pool)
    BY Facts
  <2>2. Truncate(scan.pool, called) = scan.pool
    BY <1>1, <2>1, TruncateTwice
  <2> QED
    BY <1>1, <1>3, <2>2 DEF Committed
<1>5. OnRun(scan', Pending', Committed')
  <2>1. OnRun(Start(scan.pool), Pending, scan.pool)
    BY <1>1, PendingType, StartOnRun
  <2> QED
    BY <1>1, <1>2, <1>4, <2>1
<1>6. RunInv'
  BY <1>1, <1>2, <1>5
     DEF RunInv, OpeningInv, ServedInv, CallsInv, AttemptInv, Waiting, Opening, Trying
<1>7. Phase' = Phase
  BY <1>1 DEF Phase, Opening
<1> QED
  BY <1>1, <1>2, <1>4, <1>6, <1>7, UnseenStep

\* A primitive that fits in the window is read as over memory; at the end of the input
\* the window is all there is; and before it, the attempt is given up.
LEMMA ParseUnseen ==
  ASSUME IInv, RunInv, Parse
  PROVE  RunInv' /\ Unseen
<1>1. /\ UNCHANGED <<doc, fed, buf, pos, len, eof, called, mark, needed, pc, then, answers, faults>>
      /\ pc = "parse" /\ scan.at \in Reading /\ scan' = Step(scan, Window, ~eof)
      /\ BufferInv /\ scan \in GrammarState /\ scan.pool \in Seq(Bytes)
      /\ called \in 0..Len(scan.pool) /\ scan.cur <= Available /\ eof \in BOOLEAN
      /\ Committed \in Seq(Bytes)
  BY Facts DEF Parse, IsPartial, ParseInside, BufferInv, BufferType
<1>2. Available' = Available /\ Pending' = Pending
  BY <1>1 DEF Available, Pending, Window
<1>3. /\ Window \in Bytes /\ Len(Window) = Available /\ Available \in Nat
      /\ Pending \in Bytes /\ Len(Window) <= Len(Pending)
      /\ \A i \in 1..Len(Window) : Pending[i] = Window[i]
      /\ eof => Pending = Window
  BY <1>1, BufferFacts, PendingType
<1>4. Committed' = Committed
  <2>1. StepsTo(scan, scan', Window)
    BY <1>1, <1>3, StepType
  <2>2. PoolExtends(scan.pool, scan'.pool) /\ scan'.pool \in Seq(Bytes)
    BY <2>1 DEF StepsTo, GrammarState, GrammarRecord
  <2>3. Truncate(scan'.pool, called) = Truncate(scan.pool, called)
    BY <1>1, <2>2, TruncateExtended
  <2> QED
    BY <1>1, <2>3 DEF Committed
<1>5. OnRun(scan, Pending, Committed)
  BY <1>1 DEF RunInv, AttemptInv, Reading
<1>6. scan'.at = "incomplete" \/ OnRun(scan', Pending, Committed)
  <2>1. OnRun(Step(scan, Pending, FALSE), Pending, Committed)
    BY <1>1, <1>3, <1>5, StepOnRun
  <2>2. CASE Wants(scan) <= Len(Window) - scan.cur
    <3>1. Step(scan, Window, ~eof) = Step(scan, Pending, FALSE)
      BY <1>1, <1>3, <2>2, StepOnPrefix
    <3> QED
      BY <1>1, <2>1, <3>1
  <2>3. CASE eof
    <3>1. Pending = Window /\ (~eof) = FALSE
      BY <1>3, <2>3
    <3>2. Step(scan, Window, ~eof) = Step(scan, Pending, FALSE)
      BY <3>1, Zenon
    <3> QED
      BY <1>1, <2>1, <3>2
  <2>4. CASE ~(Wants(scan) <= Len(Window) - scan.cur) /\ ~eof
    <3>1. scan.at \notin Final /\ Len(Window) - scan.cur < Wants(scan)
      <4>1. Wants(scan) \in Nat /\ scan.cur \in Nat
        BY <1>1, WantsType DEF GrammarState, GrammarRecord
      <4> QED
        BY <1>1, <1>3, <2>4, <4>1 DEF Final, Reading
    <3>2. scan' = [scan EXCEPT !.at = "incomplete",
                               !.more = Wants(scan) - (Len(Window) - scan.cur)]
      BY <1>1, <2>4, <3>1 DEF Step, Short
    <3> QED
      BY <1>1, <3>2 DEF GrammarState, GrammarRecord
  <2> QED
    BY <2>2, <2>3, <2>4
<1>7. RunInv'
  BY <1>1, <1>2, <1>4, <1>6
     DEF RunInv, OpeningInv, ServedInv, CallsInv, AttemptInv, Waiting, Opening, Trying
<1>8. Phase' = Phase
  BY <1>1 DEF Phase, Opening
<1> QED
  BY <1>1, <1>2, <1>4, <1>7, <1>8, UnseenStep

-----------------------------------------------------------------------------
(***************************************************************************)
(* The steps that the parser over memory takes too.                        *)
(***************************************************************************)

\* The header is checked when all of its bytes are there, or all that there are.
LEMMA MagicOfWindow ==
  ASSUME BufferInv, Consumed = 0, Available >= 4 \/ eof
  PROVE  MagicError(Window) = MagicError(doc)
<1>1. /\ doc \in Bytes /\ Len(doc) \in Nat /\ fed \in Nat /\ fed <= Len(doc)
      /\ Available \in Nat /\ Available = fed
      /\ Window \in Bytes /\ Len(Window) = Available
  BY BufferFacts
<1>2. Pending = doc
  <2>1. Pending = SubSeq(doc, 1, Len(doc))
    BY PendingIsTheRest
  <2> QED
    BY <1>1, <2>1, SubSeqFull DEF Bytes
<1>3. CASE eof
  BY <1>2, <1>3, PendingType
<1>4. CASE Available >= 4
  <2>1. \A i \in 1..Available : doc[i] = Window[i]
    BY <1>2, PendingType
  <2>2. \A i \in 1..4 : doc[i] = Window[i] /\ doc[i] \in Byte /\ Window[i] \in Byte
    BY <1>1, <1>4, <2>1, ElementOfSeq DEF Bytes
  <2>3. SubSeq(doc, 1, 4) = SubSeq(Window, 1, 4)
    <3>1. /\ SubSeq(doc, 1, 4) \in Seq(Byte) /\ Len(SubSeq(doc, 1, 4)) = 4
          /\ \A i \in 1..4 : SubSeq(doc, 1, 4)[i] = doc[i]
      BY <2>2, SubSeqProperties
    <3>2. /\ SubSeq(Window, 1, 4) \in Seq(Byte) /\ Len(SubSeq(Window, 1, 4)) = 4
          /\ \A i \in 1..4 : SubSeq(Window, 1, 4)[i] = Window[i]
      BY <2>2, SubSeqProperties
    <3> QED
      BY <2>2, <3>1, <3>2, SeqEqual
  <2>4. ~(Len(doc) < 4) /\ ~(Len(Window) < 4)
    BY <1>1, <1>4
  <2> QED
    BY <2>3, <2>4 DEF MagicError
<1> QED
  BY <1>3, <1>4

LEMMA CheckMagicIsNew ==
  ASSUME IInv, IInv', RunInv, CheckMagic
  PROVE  RunInv' /\ Memory!New
<1>1. /\ UNCHANGED <<doc, fed, buf, len, eof, scan, called, mark, needed, then, faults>>
      /\ pc = "magic" /\ BufferInv /\ answers \in Seq(Answer)
  BY Facts DEF CheckMagic
<1>2. Opening /\ Consumed = 0 /\ answers = <<>> /\ scan.pool = <<>>
      /\ (Available >= 4 \/ eof)
  BY <1>1 DEF Opening, RunInv, OpeningInv, ServedInv
<1>3. MagicError(Window) = MagicError(doc) /\ Memory!MagicError(doc) = MagicError(doc)
  BY <1>1, <1>2, MagicOfWindow, MemoryMagicError
<1>4. Phase = "new" /\ Committed = <<>>
  BY <1>1, <1>2 DEF Phase, Committed
<1>5. CASE MagicError(doc) = {}
  <2>1. pc' = "idle" /\ pos' = pos + 4 /\ answers' = answers
    BY <1>3, <1>5 DEF CheckMagic
  <2>2. RunInv'
    BY <1>1, <2>1 DEF RunInv, OpeningInv, ServedInv, CallsInv, AttemptInv, Waiting, Opening, Trying
  <2>3. Phase' = "open" /\ Committed' = Committed
    BY <1>1, <1>4, <2>1 DEF Phase, Opening, Committed
  <2>4. Pending' = SubSeq(doc, 5, Len(doc))
    <3>1. Len(Window) = Available /\ Available \in Nat
      BY <1>1, BufferFacts
    <3>2. Available >= 4
      BY <1>3, <1>5, <3>1, MagicIsLong
    <3>3. Available' = Available - 4 /\ 4 \in 0..Available
      <4>1. pos \in Nat /\ len \in Nat
        BY <1>1, LenProperties DEF BufferInv, BufferType, Bytes
      <4> QED
        BY <1>1, <2>1, <3>1, <3>2, <4>1 DEF Available
    <3>4. BufferInv'
      BY DEF IInv
    <3>5. Pending' = SubSeq(Pending, 4 + 1, Len(Pending))
      BY <1>1, <3>3, <3>4, PendingConsumed
    <3>6. Pending = doc
      <4>1. Pending = SubSeq(doc, 1, Len(doc))
        BY <1>1, <1>2, PendingIsTheRest
      <4> QED
        BY <1>1, <4>1, BufferFacts, SubSeqFull DEF Bytes
    <3> QED
      BY <3>5, <3>6
  <2> QED
    BY <1>1, <1>3, <1>4, <1>5, <2>1, <2>2, <2>3, <2>4 DEF Memory!New
<1>6. CASE MagicError(doc) # {}
  <2>1. /\ pc' = "closed" /\ pos' = pos
        /\ \E e \in MagicError(doc) : answers' = Append(answers, <<"error", e>>)
    BY <1>3, <1>6 DEF CheckMagic
  <2>2. RunInv'
    BY <1>1, <2>1 DEF RunInv, OpeningInv, ServedInv, CallsInv, AttemptInv, Waiting, Opening, Trying
  <2>3. answers' # <<>>
    <3>1. \A e \in MagicError(doc) : <<"error", e>> \in Answer
      BY MagicErrorType DEF Answer
    <3> QED
      BY <1>1, <2>1, <3>1, AppendProperties
  <2>4. Phase' = "closed" /\ Committed' = Committed
    BY <1>1, <1>4, <2>1, <2>3 DEF Phase, Opening, Committed
  <2> QED
    BY <1>1, <1>3, <1>4, <1>6, <2>1, <2>2, <2>4 DEF Memory!New
<1> QED
  BY <1>5, <1>6

LEMMA AtEndIsNextEvent ==
  ASSUME IInv, RunInv, AtEnd
  PROVE  RunInv' /\ Memory!NextEvent
<1>1. /\ UNCHANGED <<doc, fed, buf, pos, len, eof, scan, called, mark, needed, then, faults>>
      /\ pc = "begin" /\ Available = 0 /\ pc' = "idle"
      /\ answers' = Append(answers, <<"none">>) /\ BufferInv
  BY Facts DEF AtEnd
<1>2. Pending = <<>> /\ Pending' = Pending
  <2>1. eof
    BY <1>1 DEF RunInv, ServedInv
  <2> QED
    BY <1>1, <2>1, PendingType DEF Pending, Window
<1>3. Phase = "open" /\ Phase' = "open" /\ Committed' = Committed
  BY <1>1 DEF Phase, Opening, Committed
<1>4. RunInv'
  BY <1>1 DEF RunInv, OpeningInv, ServedInv, CallsInv, AttemptInv, Waiting, Opening, Trying
<1>5. Len(answers) < MaxCalls
  BY <1>1 DEF RunInv, CallsInv
<1> QED
  BY <1>1, <1>2, <1>3, <1>4, <1>5 DEF Memory!NextEvent, Memory!NextEventAtEnd

\* What a finished attempt is to the parser over memory.
LEMMA AttemptIsRun ==
  ASSUME IInv, RunInv, pc = "parse", scan.at \in {"done", "failed"}
  PROVE  /\ scan = Memory!Run(Pending, Committed)
         /\ Memory!Result(scan) = Result(scan)
         /\ Phase = "open" /\ Pending # <<>> /\ Len(answers) < MaxCalls
         /\ Committed = Truncate(scan.pool, called) /\ Len(Committed) = called
<1>1. BufferInv /\ Committed \in Seq(Bytes) /\ OnRun(scan, Pending, Committed) /\ Trying
  BY Facts DEF RunInv, AttemptInv, Trying
<1>2. Pending \in Bytes /\ Pending # <<>>
  <2>1. Available >= 1 /\ Available \in Nat
    BY <1>1, BufferFacts DEF RunInv, ServedInv
  <2>2. Pending \in Bytes /\ Available <= Len(Pending) /\ Len(Pending) \in Nat
    BY <1>1, PendingType, LenProperties DEF Bytes
  <2> QED
    BY <2>1, <2>2, EmptySeq DEF Bytes
<1>3. scan = Run(Pending, Committed)
  BY <1>1, <1>2, EndOfRun DEF Final
<1>4. Committed = Truncate(scan.pool, called) /\ Len(Committed) = called
  BY Facts, TruncateType DEF Committed
<1> QED
  BY <1>1, <1>2, <1>3, <1>4, MemoryRun, MemoryResult DEF Phase, Opening, RunInv, CallsInv

LEMMA DoneIsNextEvent ==
  ASSUME IInv, IInv', RunInv, Done
  PROVE  RunInv' /\ Memory!NextEvent
<1>1. /\ UNCHANGED <<doc, fed, buf, len, eof, called, mark, needed, then, faults>>
      /\ pc = "parse" /\ scan.at = "done" /\ pc' = "idle" /\ pos' = pos + scan.cur
      /\ answers' = Append(answers, Result(scan)) /\ scan' = Start(scan.pool)
      /\ BufferInv /\ BufferInv' /\ scan.cur \in Nat /\ scan.cur <= Available
  BY Facts DEF Done, IInv, ParseInside
<1>2. /\ scan = Memory!Run(Pending, Committed) /\ Memory!Result(scan) = Result(scan)
      /\ Phase = "open" /\ Pending # <<>> /\ Len(answers) < MaxCalls
  BY <1>1, AttemptIsRun
<1>3. Pending' = SubSeq(Pending, scan.cur + 1, Len(Pending))
  <2>1. pos \in Nat /\ len \in Nat /\ Available \in Nat
    BY <1>1, LenProperties, BufferFacts DEF BufferInv, BufferType, Bytes
  <2>2. Available' = Available - scan.cur /\ scan.cur \in 0..Available
    BY <1>1, <2>1 DEF Available
  <2> QED
    BY <1>1, <2>2, PendingConsumed
<1>4. Phase' = "open" /\ Committed' = scan.pool
  BY <1>1 DEF Phase, Opening, Committed, Start
<1>5. RunInv'
  BY <1>1 DEF RunInv, OpeningInv, ServedInv, CallsInv, AttemptInv, Waiting, Opening, Trying
<1>6. Memory!NextEventParsed
  BY <1>1, <1>2, <1>3, <1>4 DEF Memory!NextEventParsed, Memory!RestOnEvent
<1> QED
  BY <1>1, <1>2, <1>4, <1>5, <1>6 DEF Memory!NextEvent

LEMMA FailedIsNextEvent ==
  ASSUME IInv, RunInv, Failed
  PROVE  RunInv' /\ Memory!NextEvent
<1>1. /\ UNCHANGED <<doc, fed, buf, pos, len, eof, called, mark, needed, then, faults>>
      /\ pc = "parse" /\ scan.at = "failed" /\ pc' = "idle"
      /\ answers' = Append(answers, Result(scan))
      /\ scan' = Start(Truncate(scan.pool, called))
  BY DEF Failed, Restart
<1>2. /\ scan = Memory!Run(Pending, Committed) /\ Memory!Result(scan) = Result(scan)
      /\ Phase = "open" /\ Pending # <<>> /\ Len(answers) < MaxCalls
      /\ Committed = Truncate(scan.pool, called) /\ Len(Committed) = called
  BY <1>1, AttemptIsRun
<1>3. Pending' = Pending
  BY <1>1 DEF Pending, Window
<1>4. Phase' = "open" /\ Committed' = Truncate(scan.pool, Len(Committed))
  BY <1>1, <1>2 DEF Phase, Opening, Committed, Start
<1>5. RunInv'
  BY <1>1 DEF RunInv, OpeningInv, ServedInv, CallsInv, AttemptInv, Waiting, Opening, Trying
<1>6. Memory!NextEventParsed
  BY <1>1, <1>2, <1>3, <1>4
     DEF Memory!NextEventParsed, Memory!RestOnError, Memory!PoolOnError, Truncate, Memory!Truncate
<1> QED
  BY <1>1, <1>2, <1>4, <1>5, <1>6 DEF Memory!NextEvent

-----------------------------------------------------------------------------
LEMMA InitRefines == Init => RunInv /\ Memory!Init
<1> SUFFICES ASSUME Init PROVE RunInv /\ Memory!Init
  OBVIOUS
<1>1. Consumed = 0 /\ Opening /\ Phase = "new" /\ Committed = <<>> /\ scan.pool = <<>>
  BY DEF Init, Consumed, Available, Opening, Phase, Committed, Start
<1> QED
  BY <1>1 DEF Init, Memory!Init, RunInv, OpeningInv, ServedInv, CallsInv, AttemptInv, Waiting, Trying

LEMMA NextRefines == IInv /\ IInv' /\ RunInv /\ [Next]_vars => RunInv' /\ [Memory!Next]_(Memory!vars)
<1> SUFFICES ASSUME IInv, IInv', RunInv, [Next]_vars
             PROVE  RunInv' /\ (Memory!Next \/ Unseen)
  BY DEF Unseen
<1>1. ASSUME UNCHANGED vars PROVE RunInv' /\ Unseen
  <2>1. UNCHANGED <<Available, Consumed, Pending, Committed, Phase, Opening, Trying>>
    BY <1>1 DEF vars, Available, Consumed, Pending, Window, Committed, Phase, Opening, Trying, Waiting
  <2> QED
    BY <1>1, <2>1, UnseenStep
       DEF vars, RunInv, OpeningInv, ServedInv, CallsInv, AttemptInv, Waiting
<1>2. ASSUME ReadSome \/ ReadNothing \/ ReadError PROVE RunInv' /\ Unseen
  BY <1>2, ReadSomeUnseen, ReadNothingUnseen, ReadErrorUnseen
<1>3. ASSUME New \/ NextEvent \/ Refill PROVE RunInv' /\ Unseen
  BY <1>3, NewUnseen, NextEventUnseen, RefillUnseen
<1>4. ASSUME Begin \/ Attempt \/ Parse PROVE RunInv' /\ Unseen
  BY <1>4, BeginUnseen, AttemptUnseen, ParseUnseen
<1>5. ASSUME CheckMagic PROVE RunInv' /\ Memory!New
  BY <1>5, CheckMagicIsNew
<1>6. ASSUME AtEnd \/ Done \/ Failed PROVE RunInv' /\ Memory!NextEvent
  BY <1>6, AtEndIsNextEvent, DoneIsNextEvent, FailedIsNextEvent
<1> QED
  BY <1>1, <1>2, <1>3, <1>4, <1>5, <1>6 DEF Next, Internal, Memory!Next

LEMMA RunInvariance == Spec => []RunInv
BY Invariance, InitRefines, NextRefines, PTL DEF Spec

\* "Both parsers return the same events and the same errors for the same bytes, and after
\* an error both are left at the start of the failing event" (docs/DESIGN.md): for every
\* document, every buffer and chunk size, every cutting of the input into reads and every
\* failing read, what the streaming parser answers is what the parser over memory may answer.
THEOREM StreamImplementsMemory == Spec => ImplementsMemory
BY Invariance, InitRefines, NextRefines, RunInvariance, PTL DEF Spec, ImplementsMemory, Memory!Spec

-----------------------------------------------------------------------------
(***************************************************************************)
(* What the clients of the parser rely on: AbxSource.  The parser stands   *)
(* where so many calls of next_event stand that collect the document, and  *)
(* each failed read has ended one call.                                    *)
(***************************************************************************)
Body == SubSeq(doc, 5, Len(doc))

Foretold == /\ stream = StreamOf(doc)
            /\ Phase = "open" => /\ Len(doc) >= 4
                                 /\ Position(Pending, Committed, Delivered, Body)
            /\ pc # "closed" => failed = faults

LEMMA DeliveredIsCounted == Delivered = Cardinality(EventsAmong(answers))
BY DEF Delivered, EventsAmong

LEMMA BodyType ==
  ASSUME doc \in Bytes, Len(doc) >= 4
  PROVE  Body \in Bytes
<1>1. 4 \in 0..Len(doc) /\ 4 + 1 = 5
  BY LenProperties DEF Bytes
<1>2. SubSeq(doc, 4 + 1, Len(doc)) \in Bytes
  BY <1>1, RestType
<1> QED
  BY <1>1, <1>2 DEF Body

LEMMA ForetoldStart == StreamInit => Foretold /\ Source!Fresh
<1> SUFFICES ASSUME StreamInit PROVE Foretold /\ Source!Fresh
  OBVIOUS
<1>1. Phase = "new" /\ answers = <<>> /\ stream = StreamOf(doc) /\ latest = <<>>
      /\ failed = 0 /\ faults = 0
  BY DEF StreamInit, Init, Phase, Opening
<1>2. Delivered = 0
  BY <1>1, DeliveredIsCounted, NoEvents
<1> QED
  BY <1>1, <1>2 DEF Foretold, Source!Fresh

\* Where the parser stands does not change while nothing is answered.
LEMMA StandsStill ==
  ASSUME Foretold, Unseen, stream' = stream,
         pc' # "closed" => failed' = faults'
  PROVE  Foretold' /\ Delivered' = Delivered
<1>1. doc' = doc /\ answers' = answers /\ Phase' = Phase /\ Committed' = Committed
      /\ (Phase = "open" => Pending' = Pending)
  BY DEF Unseen, Memory!vars
<1>2. Delivered' = Delivered /\ Body' = Body
  BY <1>1 DEF Delivered, Body
<1> QED
  BY <1>1, <1>2 DEF Foretold

\* A read fails in a call of next_event.
LEMMA ReadFailureIsSeen ==
  ASSUME IInv, IInv', RunInv, Foretold, CallFails, stream' = stream
  PROVE  Foretold' /\ Source!ReadFails
<1>1. /\ pc = "read" /\ faults < MaxFaults /\ faults' = faults + 1
      /\ latest' = <<"error", Source!IoError>> /\ failed' = failed + 1
  BY DEF CallFails, ReadError
<1>2. failed = faults
  BY <1>1 DEF Foretold
<1>3. Foretold' /\ Delivered' = Delivered
  BY <1>1, <1>2, ReadErrorUnseen, StandsStill DEF CallFails
<1> QED
  BY <1>1, <1>2, <1>3 DEF Source!ReadFails

\* A step that answers nothing.
LEMMA SilenceIsUnseen ==
  ASSUME Foretold, Unseen, Goes, stream' = stream,
         pc' # "closed" => pc # "closed" /\ faults' = faults
  PROVE  Foretold' /\ UNCHANGED Source!sourceVars
<1>1. answers' = answers
  BY DEF Unseen, Memory!vars
<1>2. latest' = latest /\ failed' = failed
  BY <1>1 DEF Goes
<1>3. Foretold' /\ Delivered' = Delivered
  BY <1>2, StandsStill DEF Foretold
<1> QED
  BY <1>2, <1>3 DEF Source!sourceVars

\* new has read a header, good or bad.
LEMMA HeaderIsUnseen ==
  ASSUME IInv, IInv', RunInv, Foretold, Goes, CheckMagic, stream' = stream
  PROVE  Foretold' /\ UNCHANGED Source!sourceVars
<1>1. /\ pc = "magic" /\ doc' = doc /\ faults' = faults /\ failed' = failed
      /\ pc' = IF MagicError(Window) = {} THEN "idle" ELSE "closed"
      /\ Memory!New /\ doc \in Bytes
      /\ latest' = IF answers' # answers /\ pc' = "idle" THEN answers'[Len(answers')] ELSE latest
  BY CheckMagicIsNew, BufferFacts, Facts DEF Goes, CheckMagic
<1>2. answers = <<>> /\ Phase = "new" /\ Committed' = Committed /\ Committed = <<>>
      /\ Delivered = 0
  <2>1. Opening /\ answers = <<>> /\ scan.pool = <<>>
    BY <1>1 DEF Opening, RunInv, OpeningInv
  <2>2. Committed' = Committed
    BY <1>1 DEF Memory!New
  <2> QED
    BY <1>1, <2>1, <2>2, DeliveredIsCounted, NoEvents DEF Phase, Committed
<1>3. Memory!MagicError(doc) = MagicError(doc)
  BY MemoryMagicError
<1>4. CASE MagicError(doc) = {}
  <2>1. Phase' = "open" /\ answers' = answers /\ Pending' = Body
    BY <1>1, <1>3, <1>4 DEF Memory!New, Body
  <2>2. Len(doc) >= 4
    BY <1>1, <1>4, MagicIsLong, LenProperties DEF Bytes
  <2>3. Position(Body, <<>>, 0, Body)
    BY <1>1, <2>2, BodyType, FirstPosition
  <2>4. Delivered' = 0 /\ latest' = latest /\ Body' = Body
    BY <1>1, <1>2, <2>1 DEF Delivered, Body
  <2>5. Position(Pending', Committed', Delivered', Body')
    BY <1>2, <2>1, <2>3, <2>4
  <2> QED
    BY <1>1, <1>2, <2>1, <2>2, <2>4, <2>5 DEF Foretold, Source!sourceVars
<1>5. CASE MagicError(doc) # {}
  <2>1. PICK e \in MagicError(doc) : answers' = Append(answers, <<"error", e>>)
    BY <1>3, <1>5, <1>1 DEF Memory!New
  <2>2. Phase' = "closed"
    BY <1>1, <1>3, <1>5 DEF Memory!New
  <2>3. Delivered' = 0
    <3>1. <<"error", e>> \in Answer /\ <<"error", e>>[1] # "event" /\ <<>> \in Seq(Answer)
      BY MagicErrorType DEF Answer
    <3>2. Cardinality(EventsAmong(Append(<<>>, <<"error", e>>))) = 0
      BY <3>1, CountEvents, NoEvents
    <3> QED
      BY <1>2, <2>1, <3>2 DEF Delivered, EventsAmong
  <2>4. pc' = "closed"
    BY <2>2, <1>1 DEF Phase, Opening
  <2> QED
    BY <1>1, <1>2, <2>2, <2>3, <2>4 DEF Foretold, Source!sourceVars
<1> QED
  BY <1>4, <1>5

\* A call that is answered is answered with what the document has next.
LEMMA AnswerIsSeen ==
  ASSUME IInv, Foretold, Memory!NextEvent, stream' = stream, failed' = failed,
         pc # "closed", faults' = faults,
         answers' # answers => latest' = answers'[Len(answers')]
  PROVE  Foretold' /\ Source!SourceNext
<1> DEFINE g == Run(Pending, Committed)
           s == Decode(Body)
           n == Delivered
           a == IF Pending = <<>> THEN <<"none">> ELSE Result(g)
<1>1. /\ doc \in Bytes /\ answers \in Seq(Answer) /\ scan \in GrammarState
      /\ Phase = "open" /\ Phase' = "open" /\ doc' = doc /\ Len(doc) >= 4
      /\ Position(Pending, Committed, n, Body) /\ stream = StreamOf(doc) /\ failed' = faults'
  BY BufferFacts DEF Memory!NextEvent, Foretold, IInv, CallInv, PoolType, ControlType
<1>2. /\ Pending \in Bytes /\ Committed \in Seq(Bytes)
  <2>1. scan.pool \in Seq(Bytes) /\ called \in 0..Len(scan.pool)
    BY DEF IInv, CallInv, PoolType, GrammarState, GrammarRecord
  <2> QED
    BY <2>1, PendingType, TruncateType DEF IInv, Committed
<1>3. a \in Answer
  <2>1. g \in GrammarState
    BY <1>2, RunEnds
  <2> HIDE DEF g
  <2> QED
    BY <2>1, ResultType DEF Answer
<1>4. /\ answers' = Append(answers, a)
      /\ Pending # <<>> /\ g.at = "done" =>
           Pending' = SubSeq(Pending, g.cur + 1, Len(Pending)) /\ Committed' = g.pool
      /\ ~(Pending # <<>> /\ g.at = "done") => Pending' = Pending /\ Committed' = Committed
  <2>1. CASE Memory!NextEventAtEnd
    BY <1>1, <2>1 DEF Memory!NextEventAtEnd
  <2>2. CASE Memory!NextEventParsed
    <3>1. Memory!Run(Pending, Committed) = g /\ Memory!Result(g) = Result(g)
      BY MemoryRun, MemoryResult
    <3>2. SubSeq(g.pool, 1, Len(Committed)) = Committed
      BY <1>2, RunEnds DEF PoolExtends
    <3> HIDE DEF g
    <3> QED
      BY <1>1, <2>2, <3>1, <3>2
         DEF Memory!NextEventParsed, Memory!RestOnEvent, Memory!RestOnError, Memory!PoolOnError,
             Memory!Truncate
  <2> QED
    BY <2>1, <2>2 DEF Memory!NextEvent
<1> HIDE DEF a
<1>5. /\ latest' = a
      /\ Delivered' = IF a[1] = "event" THEN n + 1 ELSE n
  <2>1. Delivered' = Cardinality(EventsAmong(Append(answers, a)))
    BY <1>4 DEF Delivered, EventsAmong
  <2>2. Len(answers') = Len(answers) + 1 /\ answers'[Len(answers')] = a /\ Len(answers) \in Nat
    BY <1>1, <1>3, <1>4, AppendProperties, LenProperties
  <2>3. answers' # answers
    BY <2>2
  <2> QED
    BY <1>1, <1>3, <2>1, <2>2, <2>3, DeliveredIsCounted, CountEvents
<1>6. stream.events = s.events
      /\ stream.ending = IF s.failed THEN Result(Run(s.rest, s.pool)) ELSE <<"none">>
  BY <1>1 DEF StreamOf, Body
<1>7. /\ Pending = <<>> => n = Len(s.events) /\ ~s.failed
      /\ Pending # <<>> /\ g.at # "done" =>
           n = Len(s.events) /\ s.failed /\ s.rest = Pending /\ s.pool = Committed
      /\ Pending # <<>> /\ g.at = "done" =>
           /\ n < Len(s.events) /\ s.events[n + 1] = Event(g)
           /\ Position(SubSeq(Pending, g.cur + 1, Len(Pending)), g.pool, n + 1, Body)
  BY <1>1, BodyType, AnswersAreForetold
<1>8. Body' = Body
  BY <1>1 DEF Body
<1> HIDE DEF s, g
<1>9. CASE Pending # <<>> /\ g.at = "done"
  <2>1. a = <<"event", s.events[n + 1]>>
    BY <1>7, <1>9 DEF a, Result
  <2>2. a[1] = "event"
    BY <2>1
  <2>3. Source!Deliver
    BY <1>1, <1>5, <1>6, <1>7, <1>9, <2>1, <2>2 DEF Source!Deliver, Source!Ahead
  <2>4. Position(Pending', Committed', Delivered', Body')
    BY <1>4, <1>5, <1>7, <1>8, <1>9, <2>2
  <2> QED
    BY <1>1, <2>3, <2>4 DEF Foretold, Source!SourceNext
<1>10. CASE ~(Pending # <<>> /\ g.at = "done")
  <2>1. a[1] \in {"none", "error"} /\ n = Len(s.events) /\ a = stream.ending
    <3>1. CASE Pending = <<>>
      BY <1>6, <1>7, <3>1 DEF a
    <3>2. CASE Pending # <<>>
      <4>1. g.at # "done" /\ a = Result(g)
        BY <1>10, <3>2 DEF a
      <4>2. a = <<"error", g.error>>
        BY <4>1 DEF Result
      <4>3. a = stream.ending /\ n = Len(s.events)
        BY <1>6, <1>7, <3>2, <4>1 DEF g
      <4> QED
        BY <4>2, <4>3
    <3> QED
      BY <3>1, <3>2
  <2>2. Delivered' = n
    BY <1>5, <2>1
  <2>3. Source!End \/ Source!Malformed
    BY <1>1, <1>5, <1>6, <2>1, <2>2 DEF Source!End, Source!Malformed, Source!Finish
  <2>4. Position(Pending', Committed', Delivered', Body')
    BY <1>1, <1>4, <1>8, <1>10, <2>2
  <2> QED
    BY <1>1, <2>3, <2>4 DEF Foretold, Source!SourceNext
<1> QED
  BY <1>9, <1>10

LEMMA StreamNextRefines ==
  IInv /\ IInv' /\ RunInv /\ Foretold /\ [StreamNext]_streamVars
    => Foretold' /\ [Source!SourceNext]_(Source!sourceVars)
<1> SUFFICES ASSUME IInv, IInv', RunInv, Foretold, [StreamNext]_streamVars
             PROVE  Foretold' /\ (Source!SourceNext \/ UNCHANGED Source!sourceVars)
  OBVIOUS
<1>1. ASSUME UNCHANGED streamVars PROVE Foretold' /\ UNCHANGED Source!sourceVars
  <2>1. UNCHANGED <<Phase, Pending, Committed, Delivered, Body, doc, pc, faults, stream, failed, latest>>
    BY <1>1 DEF streamVars, vars, Phase, Opening, Pending, Window, Committed, Delivered, Body
  <2> QED
    BY <2>1 DEF Foretold, Source!sourceVars
<1>2. ASSUME CallFails, stream' = stream PROVE Foretold' /\ Source!SourceNext
  BY <1>2, ReadFailureIsSeen DEF Source!SourceNext
<1>3. ASSUME Goes, stream' = stream, ReadError, then = "magic"
      PROVE  Foretold' /\ UNCHANGED Source!sourceVars
  <2>1. pc' = "closed" /\ Unseen
    BY <1>3, ReadErrorUnseen DEF ReadError
  <2> QED
    BY <1>3, <2>1, SilenceIsUnseen
<1>4. ASSUME Goes, stream' = stream,
             \/ New \/ NextEvent \/ ReadSome \/ ReadNothing
             \/ Begin \/ Attempt \/ Parse \/ Refill
      PROVE  Foretold' /\ UNCHANGED Source!sourceVars
  <2>1. Unseen
    BY <1>4, NewUnseen, NextEventUnseen, ReadSomeUnseen, ReadNothingUnseen, BeginUnseen,
       AttemptUnseen, ParseUnseen, RefillUnseen
  <2>2. pc # "closed" /\ faults' = faults
    BY <1>4 DEF New, NextEvent, ReadSome, Read, ReadNothing, Begin, Attempt, Parse, Refill
  <2> QED
    BY <1>4, <2>1, <2>2, SilenceIsUnseen
<1>5. ASSUME Goes, stream' = stream, CheckMagic
      PROVE  Foretold' /\ UNCHANGED Source!sourceVars
  BY <1>5, HeaderIsUnseen
<1>6. ASSUME Goes, stream' = stream, AtEnd \/ Done \/ Failed
      PROVE  Foretold' /\ Source!SourceNext
  <2>1. Memory!NextEvent
    BY <1>6, AtEndIsNextEvent, DoneIsNextEvent, FailedIsNextEvent
  <2>2. pc # "closed" /\ pc' = "idle" /\ faults' = faults
    BY <1>6 DEF AtEnd, Done, Failed
  <2>3. failed' = failed /\ (answers' # answers => latest' = answers'[Len(answers')])
    BY <1>6, <2>2 DEF Goes
  <2> QED
    BY <1>6, <2>1, <2>2, <2>3, AnswerIsSeen
<1> QED
  BY <1>1, <1>2, <1>3, <1>4, <1>5, <1>6 DEF StreamNext, Goes, Internal

\* However its input is cut into reads, next_event gives the events of the document, each once
\* and in order, and then the same answer for ever; a read that fails is answered with its
\* error and costs no event, wherever in an event it fails (decode/stream.rs).
THEOREM StreamImplementsSource == StreamSpec => ImplementsSource
<1>1. [StreamNext]_streamVars => [Next]_vars
  BY DEF StreamNext, streamVars, CallFails, Goes, Next
<1>2. StreamInit => Init
  BY DEF StreamInit
<1> QED
  BY <1>1, <1>2, InitInv, NextInv, InitRefines, NextRefines, ForetoldStart, StreamNextRefines, PTL
     DEF StreamSpec, ImplementsSource

-----------------------------------------------------------------------------
(***************************************************************************)
(* How long the buffer gets.  An attempt that is given up misses no more   *)
(* than the event turns out to demand, and the buffer is grown only while  *)
(* it holds less than what is missed, or by a chunk.                       *)
(***************************************************************************)
LEMMA DemandType ==
  ASSUME NEW g \in GrammarState
  PROVE  /\ g.cur \in Nat /\ Wants(g) \in Nat /\ Demand(g) \in Nat
         /\ g.cur + 1 <= Demand(g) /\ g.cur + Wants(g) <= Demand(g)
<1>1. g.cur \in Nat /\ g.size \in Nat
  BY DEF GrammarState, GrammarRecord
<1>2. Wants(g) \in {0, 1, 2, g.size} /\ (g.at = "done" => Wants(g) = 0)
  BY DEF Wants
<1> QED
  BY <1>1, <1>2 DEF Demand, MaxOf

\* What a step asks for has been read after it, or is what the event demands that ends there.
Covers(h, n) == IF h.at \in Reading THEN n <= h.cur ELSE n <= Demand(h)

LEMMA CoversAtTheEnd == \A h, n : h.at \in Final /\ n <= Demand(h) => Covers(h, n)
BY DEF Covers, Reading, Final

LEMMA CoversBehind ==
  ASSUME NEW h \in GrammarState, NEW n \in Nat, n <= h.cur
  PROVE  Covers(h, n)
BY DemandType DEF Covers

LEMMA StepCovers ==
  ASSUME NEW g \in GrammarState, NEW W \in Bytes, g.cur <= Len(W), g.at \in Reading
  PROVE  Covers(Step(g, W, FALSE), g.cur + Wants(g))
<1> DEFINE h == Step(g, W, FALSE)
<1>1. /\ g.cur \in Nat /\ Len(W) \in Nat /\ Wants(g) \in Nat /\ g.at \notin Final
      /\ h \in GrammarState
  BY StepType, DemandType, LenProperties DEF Bytes, StepsTo, Reading, Final
<1> SUFFICES Covers(h, g.cur + Wants(g))
  OBVIOUS
<1> HIDE DEF h
<1>2. CASE Len(W) - g.cur < Wants(g)
  <2>1. \/ h = [g EXCEPT !.at = "done"] /\ g.at = "attrs"
        \/ \E kind : h = Fail(g, kind, 0)
    BY <1>1, <1>2, Zenon DEF h, Step, Short
  <2>2. /\ h.at \in Final /\ h.cur = g.cur /\ h.size = g.size
        /\ h.at = "done" => g.at = "attrs"
    BY <2>1 DEF Fail, Final, GrammarState, GrammarRecord
  <2>3. g.cur + Wants(g) <= Demand(h)
    <3>1. CASE h.at = "done"
      BY <1>1, <2>2, <3>1, DemandType DEF Wants
    <3>2. CASE h.at # "done"
      <4>1. Demand(h) = Demand(g)
        BY <1>1, <2>2, <3>2 DEF Demand, Final
      <4> QED
        BY <4>1, DemandType
    <3> QED
      BY <3>1, <3>2
  <2> QED
    BY <1>1, <2>2, <2>3, CoversAtTheEnd
<1>3. CASE ~(Len(W) - g.cur < Wants(g))
  <2>1. h = Take(g, W) /\ g.cur + Wants(g) <= Len(W)
    BY <1>1, <1>3 DEF h, Step
  <2>2. CASE h.cur = g.cur + Wants(g)
    BY <1>1, <2>2, DemandType, CoversBehind
  <2>3. CASE g.at = "attrs" /\ h = [g EXCEPT !.at = "done"]
    <3>1. h.at = "done" /\ h.cur = g.cur /\ Wants(g) = 1
      BY <2>3 DEF Wants, GrammarState, GrammarRecord
    <3>2. g.cur + 1 <= Demand(h)
      BY <1>1, <3>1, DemandType
    <3> QED
      BY <1>1, <3>1, <3>2, CoversAtTheEnd DEF Final
  <2> QED
    BY <1>1, <2>1, <2>2, <2>3, TakeType DEF Reads
<1> QED
  BY <1>2, <1>3

-----------------------------------------------------------------------------
\* An event demands as much as any primitive of it asks for, read or not.
LEMMA RunDemands ==
  ASSUME NEW W \in Bytes, NEW p \in Seq(Bytes), NEW g, OnRun(g, W, p), g.at \in Reading
  PROVE  g.cur + Wants(g) <= Demand(Run(W, p))
<1> DEFINE N == Len(W) + 1
           r == RunSteps(W, p)
           m == g.cur + Wants(g)
<1>1. Len(W) \in Nat /\ N \in Nat
  BY LenProperties DEF Bytes
<1>2. PICK k \in 0..N : g = r[k]
  BY DEF OnRun
<1>3. \A j \in 1..N : r[j] = Step(r[j - 1], W, FALSE)
  BY RunStepsType
<1>4. \A j \in 0..N : r[j] \in Inside(W)
  BY RunStepsType
<1>5. r[N].at \in Final
  BY RunEnds DEF Run
<1>6. k # N
  BY <1>2, <1>5 DEF Reading, Final
<1> HIDE DEF N, r
<1>7. m \in Nat /\ g \in GrammarState /\ g.cur <= Len(W)
  BY <1>2, <1>4, DemandType DEF Inside
<1> DEFINE first == k + 1
           T == {n \in Nat : first + n <= N => Covers(r[first + n], m)}
<1>8. first \in 1..N /\ first - 1 = k /\ first \in Nat
  BY <1>1, <1>6
<1>9. 0 \in T
  <2>1. r[first] = Step(g, W, FALSE)
    BY <1>2, <1>3, <1>8
  <2>2. Covers(r[first], m)
    BY <1>2, <1>7, <2>1, StepCovers
  <2>3. first + 0 = first
    BY <1>8
  <2> QED
    BY <2>2, <2>3
<1> HIDE DEF first, m
<1>10. ASSUME NEW n \in T PROVE n + 1 \in T
  <2> SUFFICES ASSUME first + (n + 1) <= N PROVE Covers(r[first + (n + 1)], m)
    OBVIOUS
  <2> DEFINE j == first + (n + 1)
             h == r[first + n]
  <2>1. j \in 1..N /\ j - 1 = first + n /\ first + n \in 0..N /\ Covers(h, m)
    BY <1>1, <1>8
  <2> HIDE DEF j
  <2>2. r[j] = Step(h, W, FALSE) /\ h \in Inside(W) /\ r[j] \in Inside(W)
    <3>1. j \in 0..N /\ r[j] = Step(r[j - 1], W, FALSE)
      <4>1. j \in 0..N
        BY <1>1, <2>1
      <4> QED
        BY <1>3, <2>1, <4>1, Zenon
    <3> QED
      BY <1>4, <2>1, <3>1
  <2> HIDE DEF h
  <2>3. CASE h.at \in Final
    BY <2>1, <2>2, <2>3 DEF Step, j
  <2>4. CASE h.at \in Reading
    <3>1. h.cur + Wants(h) >= h.cur /\ m <= h.cur /\ h.cur \in Nat /\ Wants(h) \in Nat
      BY <2>1, <2>2, <2>4, DemandType DEF Covers, Inside
    <3>2. Covers(r[j], h.cur + Wants(h))
      BY <2>2, <2>4, StepCovers DEF Inside
    <3>3. r[j].cur \in Nat /\ Demand(r[j]) \in Nat
      BY <2>2, DemandType DEF Inside
    <3> QED
      BY <1>7, <3>1, <3>2, <3>3 DEF Covers, j
  <2> QED
    BY <2>2, <2>3, <2>4 DEF Inside, GrammarState, GrammarRecord
<1>11. T = Nat
  BY <1>9, <1>10, NatSetInduction
<1>12. N - first \in Nat /\ first + (N - first) = N /\ N <= N
  BY <1>1, <1>8
<1>13. Covers(r[N], m)
  BY <1>11, <1>12
<1> QED
  BY <1>5, <1>13 DEF r, N, m, Run, Covers, Reading, Final
\* Only a step that finds too few bytes gives an attempt up.
GoesOn(g) == g.at # "incomplete"

LEMMA AttrValueGoesOn ==
  ASSUME NEW g \in GrammarRecord
  PROVE  GoesOn(AttrValue(g))
<1>1. \/ \E t, v : AttrValue(g) = PushAttribute(g, t, v)
      \/ AttrValue(g) = ReadLength(g, "value")
      \/ AttrValue(g) = ReadIndex(g, "value")
      \/ AttrValue(g) = ReadScalar(g, ScalarSize(g.type))
      \/ AttrValue(g) = Fail(g, "UnknownAttributeType", g.type)
  BY DEF AttrValue
<1> QED
  BY <1>1 DEF PushAttribute, ReadLength, ReadIndex, ReadScalar, Fail, GoesOn, GrammarRecord

LEMMA DeliverGoesOn ==
  ASSUME NEW g \in GrammarRecord, NEW s \in Bytes
  PROVE  GoesOn(Deliver(g, s))
<1> DEFINE h == [g EXCEPT !.name = s]
<1>1. \/ Deliver(g, s) = [g EXCEPT !.at = "attrs", !.text = s]
      \/ Deliver(g, s) = AttrValue(h)
      \/ Deliver(g, s) = PushAttribute(g, ValueType(g.type), s)
      \/ Deliver(g, s) = [g EXCEPT !.at = "done", !.text = s]
  BY DEF Deliver
<1>2. h \in GrammarRecord
  BY DEF GrammarRecord
<1> HIDE DEF h
<1>3. GoesOn(AttrValue(h))
  BY <1>2, AttrValueGoesOn
<1> QED
  BY <1>1, <1>3 DEF PushAttribute, GoesOn, GrammarRecord

LEMMA TakeGoesOn ==
  ASSUME NEW g \in GrammarState, NEW W \in Bytes, g.at \in Reading,
         g.cur + Wants(g) <= Len(W)
  PROVE  GoesOn(Take(g, W))
<1> DEFINE h  == [g EXCEPT !.cur = g.cur + Wants(g)]
           b1 == W[g.cur + 1]
           b2 == W[g.cur + 2]
           s  == SubSeq(W, g.cur + 1, g.cur + Wants(g))
<1>1. g.cur \in Nat /\ Len(W) \in Nat /\ Wants(g) \in Nat /\ h \in GrammarState
  BY ReadOn, LenProperties DEF Bytes
<1>2. h \in GrammarRecord /\ g \in GrammarRecord /\ g.at = h.at
  BY <1>1 DEF GrammarState, GrammarRecord
<1>3. s \in Bytes
  <2>1. \A i \in (g.cur + 1)..(g.cur + Wants(g)) : W[i] \in Byte
    BY <1>1, ElementOfSeq DEF Bytes
  <2> QED
    BY <1>1, <2>1, SubSeqProperties DEF Bytes
<1> HIDE DEF h, s
<1>4. CASE g.at = "token"
  <2> DEFINE t == [h EXCEPT !.command = Command(b1), !.type = TypeNibble(b1)]
  <2>1. Take(g, W) = Token(h, b1)
    BY <1>4 DEF Take, h
  <2>2. \/ Token(h, b1) = [t EXCEPT !.at = "done"]
        \/ Token(h, b1) = ReadIndex(t, "tag")
        \/ Token(h, b1) = ReadIndex(t, "end")
        \/ Token(h, b1) = ReadLength(t, "text")
        \/ Token(h, b1) = Fail(t, "UnknownCommand", t.command)
    BY DEF Token
  <2>3. DOMAIN t = DOMAIN h /\ "at" \in DOMAIN h
    BY <1>2 DEF GrammarRecord
  <2> HIDE DEF t
  <2>4. "at" \in DOMAIN t
    BY <2>3
  <2> QED
    BY <2>1, <2>2, <2>4 DEF ReadIndex, ReadLength, Fail, GoesOn
<1>5. CASE g.at = "index"
  <2> DEFINE idx == U16(b1, b2)
  <2>1. Take(g, W) = Index(h, idx)
    BY <1>5 DEF Take, h
  <2>2. idx \in Nat
    <3>1. Wants(g) = 2
      BY <1>5 DEF Wants
    <3>2. b1 \in Byte /\ b2 \in Byte
      BY <1>1, <3>1, ElementOfSeq DEF Bytes
    <3> QED
      BY <3>2, FieldsAreNats
  <2> HIDE DEF idx
  <2>3. CASE idx # INTERNED_NEW /\ idx < Len(h.pool)
    <3>1. h.pool[idx + 1] \in Bytes
      <4>1. h.pool \in Seq(Bytes) /\ idx + 1 \in 1..Len(h.pool)
        BY <1>2, <2>2, <2>3, LenProperties DEF GrammarRecord
      <4> QED
        BY <4>1, ElementOfSeq
    <3>2. Index(h, idx) = Deliver(h, h.pool[idx + 1])
      BY <2>3 DEF Index
    <3> QED
      BY <1>2, <2>1, <3>1, <3>2, DeliverGoesOn
  <2>4. CASE ~(idx # INTERNED_NEW /\ idx < Len(h.pool))
    <3>1. \/ Index(h, idx) = [h EXCEPT !.at = "length", !.interning = TRUE]
          \/ Index(h, idx) = Fail(h, "BadInternedIndex", idx)
      BY <2>4 DEF Index
    <3> QED
      BY <1>2, <2>1, <3>1 DEF Fail, GoesOn, GrammarRecord
  <2> QED
    BY <2>3, <2>4
<1>6. CASE g.at = "length"
  <2>1. Take(g, W) = [h EXCEPT !.at = "payload", !.size = U16(b1, b2)]
    BY <1>6 DEF Take, h
  <2> QED
    BY <1>2, <2>1 DEF GoesOn, GrammarRecord
<1>7. CASE g.at = "payload"
  <2> DEFINE k == [h EXCEPT !.pool = IF h.interning THEN Append(@, s) ELSE @]
  <2>1. Take(g, W) = Payload(h, s)
    BY <1>7 DEF Take, h, s
  <2>2. k \in GrammarRecord
    <3>1. h.pool \in Seq(Bytes) /\ Append(h.pool, s) \in Seq(Bytes)
      BY <1>2, <1>3, AppendProperties DEF GrammarRecord
    <3> QED
      BY <1>2, <3>1 DEF GrammarRecord
  <2>3. \/ Payload(h, s) = Deliver(h, s)
        \/ Payload(h, s) = Fail(h, "InvalidUtf8", 0)
        \/ Payload(h, s) = Deliver(k, s)
    BY DEF Payload
  <2> HIDE DEF k
  <2>4. GoesOn(Fail(h, "InvalidUtf8", 0))
    BY <1>2 DEF Fail, GoesOn, GrammarRecord
  <2> QED
    BY <1>2, <1>3, <2>1, <2>2, <2>3, <2>4, DeliverGoesOn
<1>8. CASE g.at = "scalar"
  <2>1. Take(g, W) = Deliver(h, s)
    BY <1>8 DEF Take, h, s
  <2> QED
    BY <1>2, <1>3, <2>1, DeliverGoesOn
<1>9. CASE g.at = "attrs"
  <2>1. Take(g, W) = Attrs(g, b1)
    BY <1>9 DEF Take
  <2>2. \/ Attrs(g, b1) = [ReadIndex(g, "name") EXCEPT !.cur = g.cur + 1, !.type = TypeNibble(b1)]
        \/ Attrs(g, b1) = [g EXCEPT !.at = "done"]
    BY DEF Attrs
  <2> QED
    BY <1>2, <2>1, <2>2 DEF ReadIndex, GoesOn, GrammarRecord
<1> QED
  BY <1>4, <1>5, <1>6, <1>7, <1>8, <1>9 DEF Reading

-----------------------------------------------------------------------------
\* ensure waits at the front of the buffer, while less is there than it needs, and it needs
\* no more than the document demands at once.
ReadingInv == pc = "read" => /\ pos = 0 /\ Available < needed
                             /\ \E n \in Demands(doc) : needed <= n

\* An attempt that is given up misses no more than the event demands.
GivenUpInv == pc = "parse" /\ scan.at = "incomplete" =>
                Available + scan.more <= Demand(Run(Pending, Committed))

\* The parser stands where calls on the whole document would have brought it.
StandsAt(W, p, d) == \E n : Position(W, p, n, SubSeq(d, 5, Len(d)))
StandsInv == Phase = "open" => Len(doc) >= 4 /\ StandsAt(Pending, Committed, doc)

BoundInv == ReadingInv /\ GivenUpInv /\ StandsInv /\ BufferBounded

LEMMA DemandsType ==
  ASSUME NEW d \in Bytes
  PROVE  4 \in Demands(d) /\ Demands(d) \subseteq Nat
<1> DEFINE body == SubSeq(d, 5, Len(d))
<1>1. body \in Bytes
  <2>1. CASE Len(d) >= 4
    <3>1. 4 \in 0..Len(d) /\ 4 + 1 = 5
      BY <2>1, LenProperties DEF Bytes
    <3> QED
      BY <3>1, RestType
  <2>2. CASE ~(Len(d) >= 4)
    <3>1. Len(d) \in Nat
      BY LenProperties DEF Bytes
    <3>2. body = <<>>
      BY <2>2, <3>1, SubSeqEmpty
    <3> QED
      BY <3>2 DEF Bytes
  <2> QED
    BY <2>1, <2>2
<1> HIDE DEF body
<1>2. ASSUME NEW k \in 0..Len(body) PROVE Demand(Run(DecodeSteps(body)[k].rest, DecodeSteps(body)[k].pool)) \in Nat
  <2> DEFINE s == DecodeSteps(body)[k]
  <2>1. s.rest \in Bytes /\ s.pool \in Seq(Bytes)
    BY <1>1, DecodeStepsType DEF CollectState
  <2> HIDE DEF s
  <2> QED
    BY <2>1, RunEnds, DemandType DEF s
<1> QED
  BY <1>2 DEF Demands, body

\* Where the parser stands there is an event, whose demand is counted.
LEMMA DemandCounts ==
  ASSUME NEW d, NEW W, NEW p, StandsAt(W, p, d), W # <<>>
  PROVE  Demand(Run(W, p)) \in Demands(d)
BY DEF StandsAt, Position, Demands

\* The buffer that a read is handed is longer by a chunk than what is there, at most, or as long
\* as what is needed.
LEMMA RoomBounded ==
  ASSUME IInv, ReadingInv, BufferBounded, pc = "read"
  PROVE  \/ Len(Room) <= INITIAL_BUF
         \/ \E n \in Demands(doc) : Len(Room) <= n + READ_CHUNK
<1>1. /\ BufferType /\ needed \in Nat /\ doc \in Bytes
      /\ pos = 0 /\ len \in Nat /\ Available < needed
  BY LenProperties DEF ReadingInv, IInv, BufferInv, CallInv, ControlType, BufferType, Bytes
<1>2. PICK n \in Demands(doc) : needed <= n
  BY DEF ReadingInv
<1>3. n \in Nat /\ READ_CHUNK \in Nat /\ Available = len
  BY <1>1, DemandsType, BufferAssumption DEF Available
<1>4. CASE Len(Room) = Len(buf)
  BY <1>4, Zenon DEF BufferBounded
<1>5. CASE Len(Room) = len + MaxOf(READ_CHUNK, needed - Available)
  <2>1. len + MaxOf(READ_CHUNK, needed - len) <= n + READ_CHUNK
    BY <1>1, <1>2, <1>3 DEF MaxOf
  <2> QED
    BY <1>3, <1>5, <2>1
<1> QED
  BY <1>1, <1>4, <1>5, RoomType

\* ensure, up to its first read.
LEMMA EnsureBounded ==
  ASSUME IInv, BufferBounded, NEW n \in Nat, NEW r \in {"magic", "begin", "attempt"},
         Ensure(n, r), UNCHANGED <<doc, fed>>,
         \E m \in Demands(doc) : n <= m
  PROVE  ReadingInv' /\ BufferBounded'
<1>1. BufferInv /\ BufferType
  BY DEF IInv, BufferInv
<1>2. Available' = Available /\ needed' = n /\ doc' = doc
  BY <1>1, EnsureServes
<1>3. CASE Available >= n \/ eof
  <2>1. pc' # "read" /\ buf' = buf
    BY <1>3 DEF Ensure, buffer
  <2> QED
    BY <1>2, <2>1 DEF ReadingInv, BufferBounded
<1>4. CASE ~(Available >= n \/ eof)
  <2>1. pos' = 0 /\ buf' = IF pos > 0 THEN Compacted ELSE buf
    BY <1>4 DEF Ensure, Compact
  <2>2. Len(buf') = Len(buf)
    BY <1>1, <2>1, CompactedType
  <2>3. Available < n
    BY <1>1, <1>4, WindowType
  <2> QED
    BY <1>2, <2>1, <2>2, <2>3 DEF ReadingInv, BufferBounded
<1> QED
  BY <1>3, <1>4

\* A step that is not seen leaves the parser where it stands.
LEMMA UnseenStands ==
  ASSUME StandsInv, Unseen
  PROVE  StandsInv'
<1>1. doc' = doc /\ Phase' = Phase /\ Committed' = Committed
      /\ (Phase = "open" => Pending' = Pending)
  BY DEF Unseen, Memory!vars
<1> QED
  BY <1>1 DEF StandsInv

LEMMA HeaderStands ==
  ASSUME IInv, IInv', RunInv, CheckMagic
  PROVE  StandsInv'
<1> SUFFICES ASSUME Phase' = "open" PROVE Len(doc') >= 4 /\ StandsAt(Pending', Committed', doc')
  BY DEF StandsInv
<1>1. /\ Memory!New /\ doc' = doc /\ doc \in Bytes /\ pc = "magic" /\ scan' = scan
      /\ Memory!MagicError(doc) = MagicError(doc)
  BY CheckMagicIsNew, BufferFacts, Facts, MemoryMagicError DEF CheckMagic
<1>2. MagicError(doc) = {} /\ Pending' = Body /\ Committed' = Committed
  BY <1>1 DEF Memory!New, Body
<1>3. Committed = <<>>
  BY <1>1 DEF Committed, RunInv, OpeningInv, Opening
<1>4. Len(doc) >= 4
  BY <1>1, <1>2, MagicIsLong, LenProperties DEF Bytes
<1>5. Position(Body, <<>>, 0, Body)
  BY <1>1, <1>4, BodyType, FirstPosition
<1> QED
  BY <1>1, <1>2, <1>3, <1>4, <1>5 DEF StandsAt, Body

LEMMA AnswerStands ==
  ASSUME IInv, StandsInv, Memory!NextEvent
  PROVE  StandsInv'
<1> DEFINE g == Run(Pending, Committed)
<1>1. /\ doc \in Bytes /\ doc' = doc /\ Len(doc) >= 4 /\ StandsAt(Pending, Committed, doc)
      /\ Committed \in Seq(Bytes) /\ Pending \in Bytes
  <2>1. scan.pool \in Seq(Bytes) /\ called \in 0..Len(scan.pool)
    BY DEF IInv, CallInv, PoolType, GrammarState, GrammarRecord
  <2> QED
    BY <2>1, BufferFacts, PendingType, TruncateType
       DEF Memory!NextEvent, StandsInv, IInv, Committed
<1>2. PICK n : Position(Pending, Committed, n, Body)
  BY <1>1 DEF StandsAt, Body
<1>3. /\ Pending # <<>> /\ g.at = "done" =>
           Pending' = SubSeq(Pending, g.cur + 1, Len(Pending)) /\ Committed' = g.pool
      /\ ~(Pending # <<>> /\ g.at = "done") => Pending' = Pending /\ Committed' = Committed
  <2>0. Phase = "open" /\ Phase' = "open"
    BY DEF Memory!NextEvent, Memory!NextEventAtEnd, Memory!NextEventParsed
  <2>1. CASE Memory!NextEventAtEnd
    BY <2>0, <2>1 DEF Memory!NextEventAtEnd
  <2>2. CASE Memory!NextEventParsed
    <3>1. Memory!Run(Pending, Committed) = g /\ Memory!Result(g) = Result(g)
      BY MemoryRun, MemoryResult
    <3>2. SubSeq(g.pool, 1, Len(Committed)) = Committed
      BY <1>1, RunEnds DEF PoolExtends
    <3> HIDE DEF g
    <3> QED
      BY <2>0, <2>2, <3>1, <3>2
         DEF Memory!NextEventParsed, Memory!RestOnEvent, Memory!RestOnError, Memory!PoolOnError,
             Memory!Truncate
  <2> QED
    BY <2>1, <2>2 DEF Memory!NextEvent
<1>4. Pending # <<>> /\ g.at = "done" =>
        Position(SubSeq(Pending, g.cur + 1, Len(Pending)), g.pool, n + 1, Body)
  BY <1>1, <1>2, BodyType, AnswersAreForetold
<1> HIDE DEF g
<1>5. \E m : Position(Pending', Committed', m, Body)
  <2>1. CASE Pending # <<>> /\ g.at = "done"
    BY <1>3, <1>4, <2>1
  <2>2. CASE ~(Pending # <<>> /\ g.at = "done")
    BY <1>2, <1>3, <2>2
  <2> QED
    BY <2>1, <2>2
<1> QED
  BY <1>1, <1>5 DEF StandsInv, StandsAt, Body

-----------------------------------------------------------------------------
\* The attempt asks for what a primitive of its event misses.
LEMMA ParseBounded ==
  ASSUME IInv, IInv', RunInv, BoundInv, Parse
  PROVE  BoundInv'
<1>1. /\ UNCHANGED <<doc, buf, pos, len, pc>> /\ pc = "parse" /\ Unseen
      /\ scan.at \in Reading /\ scan' = Step(scan, Window, ~eof)
      /\ BufferInv /\ scan \in GrammarState /\ Committed \in Seq(Bytes)
      /\ scan.cur <= Available
  BY ParseUnseen, Facts DEF Parse, IsPartial, ParseInside
<1>2. /\ Window \in Bytes /\ Len(Window) = Available /\ Available \in Nat /\ Pending \in Bytes
  BY <1>1, BufferFacts, PendingType
<1>3. Available' = Available /\ Pending' = Pending /\ Committed' = Committed
  BY <1>1 DEF Available, Unseen, Memory!vars, Pending, Window, Parse
<1>4. ReadingInv' /\ BufferBounded' /\ StandsInv'
  BY <1>1, UnseenStands DEF BoundInv, ReadingInv, BufferBounded
<1>5. GivenUpInv'
  <2> SUFFICES ASSUME scan'.at = "incomplete"
               PROVE  Available + scan'.more <= Demand(Run(Pending, Committed))
    BY <1>3 DEF GivenUpInv
  <2>1. OnRun(scan, Pending, Committed)
    BY <1>1 DEF RunInv, AttemptInv, Reading
  <2>2. scan.cur + Wants(scan) <= Demand(Run(Pending, Committed))
    BY <1>1, <1>2, <2>1, RunDemands
  <2>3. scan.cur \in Nat /\ Wants(scan) \in Nat
    BY <1>1, DemandType
  <2>4. scan'.more = Wants(scan) - (Available - scan.cur)
    <3>1. scan.at \notin Final
      BY <1>1 DEF Reading, Final
    <3>2. CASE Len(Window) - scan.cur < Wants(scan)
      <4>1. scan' = Short(scan, Available - scan.cur, ~eof)
        BY <1>1, <1>2, <3>1, <3>2 DEF Step
      <4>2. ~eof
        BY <4>1 DEF Short, Fail, GrammarState, GrammarRecord
      <4>3. scan' = [scan EXCEPT !.at = "incomplete", !.more = Wants(scan) - (Available - scan.cur)]
        BY <4>1, <4>2 DEF Short
      <4> QED
        BY <1>1, <4>3 DEF GrammarState, GrammarRecord
    <3>3. CASE ~(Len(Window) - scan.cur < Wants(scan))
      <4>1. Wants(scan) <= Len(Window) - scan.cur
        BY <1>2, <2>3, <3>3
      <4>2. scan' = Take(scan, Window)
        BY <1>1, <1>2, <3>1, <3>3 DEF Step
      <4>3. scan.cur + Wants(scan) <= Len(Window)
        BY <1>2, <2>3, <4>1
      <4> QED
        BY <1>1, <1>2, <4>2, <4>3, TakeGoesOn DEF GoesOn
    <3> QED
      BY <3>2, <3>3
  <2> QED
    BY <1>2, <2>2, <2>3, <2>4
<1> QED
  BY <1>4, <1>5 DEF BoundInv

LEMMA RefillBounded ==
  ASSUME IInv, IInv', RunInv, BoundInv, Refill
  PROVE  BoundInv'
<1>1. /\ pc = "parse" /\ scan.at = "incomplete" /\ Unseen
      /\ Ensure(Available + scan.more, "attempt") /\ UNCHANGED <<doc, fed>>
  BY RefillUnseen DEF Refill, WantedBytes
<1>2. Available + scan.more \in Nat
  BY Facts, BufferFacts DEF GrammarState, GrammarRecord
<1>3. Demand(Run(Pending, Committed)) \in Demands(doc)
  <2>1. Phase = "open"
    BY <1>1 DEF Phase, Opening
  <2>2. Pending # <<>>
    <3>1. Available >= 1 /\ Available \in Nat
      BY <1>1, Facts, BufferFacts DEF RunInv, ServedInv, Trying
    <3>2. Available <= Len(Pending) /\ Pending \in Bytes
      BY Facts, PendingType
    <3> QED
      BY <3>1, <3>2, EmptySeq, LenProperties DEF Bytes
  <2> QED
    BY <2>1, <2>2, DemandCounts DEF BoundInv, StandsInv
<1>4. Available + scan.more <= Demand(Run(Pending, Committed))
  BY <1>1 DEF BoundInv, GivenUpInv
<1>5. ReadingInv' /\ BufferBounded'
  BY <1>1, <1>2, <1>3, <1>4, EnsureBounded DEF BoundInv
<1>6. pc' # "parse"
  BY <1>1, <1>2, Facts, EnsureServes
<1> QED
  BY <1>1, <1>5, <1>6, UnseenStands DEF BoundInv, GivenUpInv

\* The calls of ensure with a fixed number of bytes.
LEMMA CallBounded ==
  ASSUME IInv, IInv', RunInv, BoundInv, New \/ NextEvent
  PROVE  BoundInv'
<1>1. /\ Unseen /\ UNCHANGED <<doc, fed>> /\ BufferInv
      /\ Ensure(4, "magic") \/ Ensure(1, "begin")
  BY NewUnseen, NextEventUnseen, Facts DEF New, NextEvent
<1>2. \E m \in Demands(doc) : 4 <= m /\ 1 <= m
  BY DEF Demands
<1>3. ReadingInv' /\ BufferBounded' /\ pc' # "parse"
  <2>1. CASE Ensure(4, "magic")
    BY <1>1, <1>2, <2>1, EnsureBounded, EnsureServes DEF BoundInv
  <2>2. CASE Ensure(1, "begin")
    BY <1>1, <1>2, <2>2, EnsureBounded, EnsureServes DEF BoundInv
  <2> QED
    BY <1>1, <2>1, <2>2
<1> QED
  BY <1>1, <1>3, UnseenStands DEF BoundInv, GivenUpInv

LEMMA ReadsBounded ==
  ASSUME IInv, IInv', RunInv, BoundInv, ReadSome \/ ReadNothing \/ ReadError
  PROVE  BoundInv'
<1>1. /\ Unseen /\ pc = "read" /\ UNCHANGED <<doc, pos, needed, then>> /\ BufferInv
      /\ then \in {"magic", "begin", "attempt"} /\ needed \in Nat
  BY ReadSomeUnseen, ReadNothingUnseen, ReadErrorUnseen, Facts
     DEF ReadSome, Read, ReadNothing, ReadError, ControlType
<1>2. \/ Len(Room) <= INITIAL_BUF
      \/ \E n \in Demands(doc) : Len(Room) <= n + READ_CHUNK
  BY <1>1, RoomBounded DEF BoundInv
<1>3. Len(buf') = Len(Room) /\ (pc' = "read" => Available' < needed) /\ pc' # "parse"
  <2>1. CASE ReadSome
    <3>1. PICK n \in 1..MinOf(Len(Room) - len, Len(doc) - fed) : Read(n)
      BY <2>1 DEF ReadSome
    <3>2. Available' = Available + n
      BY <1>1, <3>1, ReadKeeps
    <3>3. buf' = Filled(n) /\ pc' = IF Available + n >= needed THEN then ELSE "read"
      BY <3>1 DEF Read
    <3>4. Len(Filled(n)) = Len(Room)
      <4>1. Filled(n) = [i \in 1..Len(Room) |-> Filled(n)[i]] /\ Len(Room) \in Nat
        BY <1>1, RoomType DEF Filled, BufferInv
      <4> QED
        BY <4>1
    <3>5. Available \in Nat /\ n \in Nat
      BY <1>1, BufferFacts
    <3> QED
      BY <1>1, <3>2, <3>3, <3>4, <3>5
  <2>2. CASE ReadNothing \/ ReadError
    BY <1>1, <2>2 DEF ReadNothing, ReadError
  <2> QED
    BY <2>1, <2>2
<1>4. ReadingInv'
  BY <1>1, <1>3 DEF BoundInv, ReadingInv
<1>5. BufferBounded'
  BY <1>1, <1>2, <1>3 DEF BufferBounded
<1> QED
  BY <1>1, <1>3, <1>4, <1>5, UnseenStands DEF BoundInv, GivenUpInv

\* The steps that leave the buffer alone and begin or end an attempt.
LEMMA OthersBounded ==
  ASSUME IInv, IInv', RunInv, BoundInv,
         CheckMagic \/ AtEnd \/ Begin \/ Attempt \/ Done \/ Failed
  PROVE  BoundInv'
<1>1. UNCHANGED <<doc, buf>> /\ pc' # "read" /\ (pc' = "parse" => scan'.at # "incomplete")
  BY DEF CheckMagic, AtEnd, Begin, Attempt, Done, Failed, Start
<1>2. StandsInv'
  <2>1. CASE Begin \/ Attempt
    BY <2>1, BeginUnseen, AttemptUnseen, UnseenStands DEF BoundInv
  <2>2. CASE CheckMagic
    BY <2>2, HeaderStands
  <2>3. CASE AtEnd \/ Done \/ Failed
    BY <2>3, AtEndIsNextEvent, DoneIsNextEvent, FailedIsNextEvent, AnswerStands DEF BoundInv
  <2> QED
    BY <2>1, <2>2, <2>3
<1> QED
  BY <1>1, <1>2 DEF BoundInv, ReadingInv, GivenUpInv, BufferBounded

LEMMA InitBounded == Init => BoundInv
<1> SUFFICES ASSUME Init PROVE BoundInv
  OBVIOUS
<1>1. buf = Zeros(INITIAL_BUF) /\ pc = "new" /\ Phase = "new"
  BY DEF Init, Phase, Opening
<1>2. Len(buf) = INITIAL_BUF /\ INITIAL_BUF \in Nat
  BY <1>1, BufferAssumption DEF Zeros
<1> QED
  BY <1>1, <1>2 DEF BoundInv, ReadingInv, GivenUpInv, StandsInv, BufferBounded

LEMMA NextBounded == IInv /\ IInv' /\ RunInv /\ BoundInv /\ [Next]_vars => BoundInv'
<1> SUFFICES ASSUME IInv, IInv', RunInv, BoundInv, [Next]_vars PROVE BoundInv'
  OBVIOUS
<1>1. CASE UNCHANGED vars
  <2>1. UNCHANGED <<doc, buf, pos, needed, pc, scan, Available, Pending, Committed, Phase>>
    BY <1>1 DEF vars, Available, Pending, Window, Committed, Phase, Opening
  <2> QED
    BY <2>1 DEF BoundInv, ReadingInv, GivenUpInv, StandsInv, BufferBounded
<1>2. CASE Next
  BY <1>2, ParseBounded, RefillBounded, CallBounded, ReadsBounded, OthersBounded
     DEF Next, Internal
<1> QED
  BY <1>1, <1>2

\* The buffer stays within the largest event of the document and one chunk, or the size it began
\* with, however long the document is and however many calls are made (ensure,
\* decode/stream.rs).
THEOREM BufferStaysBounded == Spec => []BufferBounded
<1>1. BoundInv => BufferBounded
  BY DEF BoundInv
<1> QED
  BY <1>1, Invariance, RunInvariance, InitBounded, NextBounded, PTL DEF Spec
=============================================================================
