---------------------------- MODULE AbxXmlProofs ----------------------------
(***************************************************************************)
(* xml_to_abx, for any events that a reader of the XML may find, any       *)
(* radix and any limit of the linear scan.                                 *)
(*                                                                         *)
(* What has been read is on its way to the bytes in three places: written, *)
(* in the call under way, and due.  Handed is all of it in order, and it   *)
(* changes only when an event is read, so the invariant says of it what    *)
(* the properties say of the bytes in the end, where it is what a parser   *)
(* reads back (AbxRoundTripProofs).                                        *)
(*                                                                         *)
(* The second part is about the XML text (AbxXmlText) of well-formed       *)
(* documents of any length.                                                *)
(***************************************************************************)
EXTENDS AbxXml, AbxXmlText, AbxRoundTripProofs, FiniteSetTheorems

\* The events handed to the writer, and those to be handed to it.
Handed == written \o current \o due

\* What the writer will refuse: an operation, an event.
LongAttribute(a) == \/ Len(a.name) > MAX_UNSIGNED_SHORT
                    \/ a.type \in BlobTypes \cup {TYPE_STRING} /\ Len(a.value) > MAX_UNSIGNED_SHORT
LongOp(op) == \/ op.op \in {"name", "blob"} /\ Len(op.bytes) > MAX_UNSIGNED_SHORT
              \/ op.op = "attribute" /\ LongAttribute(op.attribute)
LongEvent(e) == \/ Len(e.text) > MAX_UNSIGNED_SHORT
                \/ \E i \in 1..Len(e.attributes) : LongAttribute(e.attributes[i])

HasLong(ops)     == \E k \in 1..Len(ops) : LongOp(ops[k])
HasLongEvent(es) == \E k \in 1..Len(es) : LongEvent(es[k])
TooLongAmong(xs) == \E i \in 1..Len(xs) : TooLongIn(xs[i])

\* A name goes into the pool behind its bytes, which are not written if they are too long.
ShortOrBehind(ops) ==
  \A k \in 1..Len(ops) : ops[k].op = "cache" /\ Len(ops[k].bytes) > MAX_UNSIGNED_SHORT =>
    \E j \in 1..(k - 1) : ops[j].op = "blob" /\ Len(ops[j].bytes) > MAX_UNSIGNED_SHORT
ShortNames(ns) == \A i \in 1..Len(ns) : Len(ns[i]) <= MAX_UNSIGNED_SHORT

\* h follows the tags open through the events evs, and ends with r.
FollowsTags(h, evs, r) ==
  /\ h \in [0..Len(evs) -> BOOLEAN \X Seq(Bytes)]
  /\ h[0] = <<TRUE, <<>> >>
  /\ \A n \in 1..Len(evs) : h[n] = TagsAfter(h[n - 1], evs[n])
  /\ h[Len(evs)] = r
Tagged(evs, r) == \E h : FollowsTags(h, evs, r)

\* The events evs, of which the XML xs has become the most part, when the reader is in state st.
Kept(evs, st, xs) ==
  /\ st = "reading" => /\ Len(evs) >= 1 /\ evs[1] = Document(CMD_START_DOCUMENT)
                       /\ Conveys(evs, Len(evs), xs)
  /\ st \in {"ending", "ok"} => /\ Len(evs) >= 2 /\ evs[1] = Document(CMD_START_DOCUMENT)
                                /\ evs[Len(evs)] = Document(CMD_END_DOCUMENT)
                                /\ Conveys(evs, Len(evs) - 1, xs)

XmlTypes == /\ status \in {"reading", "ending", "ok", "failed"}
            /\ xml \in Seq(XmlEvents)
            /\ open \in Seq(Bytes)
            /\ malformed \in BOOLEAN
            /\ due \in Seq(Events)

Control == /\ malformed => status = "failed"
           /\ status = "failed" => malformed \/ spoiled
           /\ status = "ok" => ~spoiled /\ pc = "idle" /\ due = <<>>

\* What is too long is in the XML, and is still to be written unless it has been refused.
LongInv == /\ spoiled => TooLongAmong(xml)
           /\ ~spoiled => (TooLongAmong(xml) <=> HasLong(todo) \/ HasLongEvent(due))
           /\ ShortNames(names)
           /\ ShortOrBehind(todo)

HandedInv == ~spoiled => Kept(Handed, status, xml) /\ Tagged(Handed, <<TRUE, open>>)

XInv == RInv /\ XmlTypes /\ Control /\ LongInv /\ HandedInv

-----------------------------------------------------------------------------
LEMMA RankType ==
  ASSUME NEW n \in Nat, NEW P, P \subseteq 1..n
  PROVE  /\ IsFiniteSet(P) /\ Cardinality(P) \in Nat
         /\ \A i : Rank(P, i) \in Nat /\ Rank(P, i) <= Cardinality(P)
<1>1. IsFiniteSet(1..n)
  BY FS_Interval
<1>2. IsFiniteSet(P)
  BY <1>1, FS_Subset
<1>3. ASSUME NEW i PROVE Rank(P, i) \in Nat /\ Rank(P, i) <= Cardinality(P)
  <2> DEFINE Q == {k \in P : k <= i}
  <2>1. Q \subseteq P
    OBVIOUS
  <2> HIDE DEF Q
  <2>2. IsFiniteSet(Q) /\ Cardinality(Q) <= Cardinality(P)
    BY <1>2, <2>1, FS_Subset
  <2>3. Cardinality(Q) \in Nat
    BY <2>2, FS_CardinalityType
  <2> QED
    BY <2>2, <2>3 DEF Rank, Q
<1>4. Cardinality(P) \in Nat
  BY <1>2, FS_CardinalityType
<1> QED
  BY <1>2, <1>3, <1>4

\* A number m above all of P.
Tops(P, n, m) == /\ Cardinality(P \cup {m}) = Cardinality(P) + 1
                 /\ Rank(P \cup {m}, m) = Cardinality(P) + 1
                 /\ \A i \in 1..n : Rank(P \cup {m}, i) = Rank(P, i)

LEMMA RankNext ==
  ASSUME NEW n \in Nat, NEW P, P \subseteq 1..n, NEW m, m = n + 1
  PROVE  Tops(P, n, m)
<1> DEFINE Q == P \cup {m}
<1>1. IsFiniteSet(P)
  BY RankType
<1>2. m \notin P
  OBVIOUS
<1>3. Cardinality(Q) = Cardinality(P) + 1
  BY <1>1, <1>2, FS_AddElement
<1>4. {k \in Q : k <= m} = Q
  <2>1. ASSUME NEW k \in Q PROVE k <= m
    <3>1. k \in 1..n \/ k = n + 1
      OBVIOUS
    <3> QED
      BY <3>1
  <2> HIDE DEF Q
  <2> QED
    BY <2>1
<1>5. ASSUME NEW i \in 1..n PROVE {k \in Q : k <= i} = {k \in P : k <= i}
  OBVIOUS
<1> HIDE DEF Q
<1>6. Rank(Q, m) = Cardinality(Q)
  BY <1>4 DEF Rank
<1>7. \A i \in 1..n : Rank(Q, i) = Rank(P, i)
  BY <1>5 DEF Rank
<1>8. Rank(Q, m) = Cardinality(P) + 1
  BY <1>3, <1>6
<1> QED
  BY <1>3, <1>7, <1>8 DEF Q, Tops

\* Two sets get an element each, m and h, at their ends: the pairs of elements of the same rank
\* are those there were, and the new ones.
Paired(P, m, M, h) ==
  /\ Cardinality(P \cup {m}) = Cardinality(M \cup {h})
  /\ \A i \in P \cup {m}, k \in M \cup {h} :
       Rank(P \cup {m}, i) = Rank(M \cup {h}, k) =>
         \/ i \in P /\ k \in M /\ Rank(P, i) = Rank(M, k)
         \/ i = m /\ k = h

LEMMA RanksPair ==
  ASSUME NEW n \in Nat, NEW P, P \subseteq 1..n, NEW m, m = n + 1,
         NEW l \in Nat, NEW M, M \subseteq 1..l, NEW h, h = l + 1,
         Cardinality(P) = Cardinality(M)
  PROVE  Paired(P, m, M, h)
<1> DEFINE c == Cardinality(P)
<1>1. /\ c \in Nat /\ Cardinality(M) = c
      /\ \A i : Rank(P, i) \in Nat /\ Rank(P, i) <= c
      /\ \A k : Rank(M, k) \in Nat /\ Rank(M, k) <= c
  BY RankType
<1>2. /\ Cardinality(P \cup {m}) = c + 1 /\ Rank(P \cup {m}, m) = c + 1
      /\ \A i \in 1..n : Rank(P \cup {m}, i) = Rank(P, i)
  <2>1. Tops(P, n, m)
    BY RankNext
  <2> QED
    BY <2>1 DEF Tops
<1>3. /\ Cardinality(M \cup {h}) = c + 1 /\ Rank(M \cup {h}, h) = c + 1
      /\ \A k \in 1..l : Rank(M \cup {h}, k) = Rank(M, k)
  <2>1. Tops(M, l, h)
    BY RankNext
  <2> QED
    BY <1>1, <2>1 DEF Tops
<1> HIDE DEF c
<1>4. ASSUME NEW i \in P \cup {m}, NEW k \in M \cup {h},
             Rank(P \cup {m}, i) = Rank(M \cup {h}, k)
      PROVE  \/ i \in P /\ k \in M /\ Rank(P, i) = Rank(M, k)
             \/ i = m /\ k = h
  <2>1. CASE i \in P /\ k \in M
    <3>1. Rank(P \cup {m}, i) = Rank(P, i) /\ Rank(M \cup {h}, k) = Rank(M, k)
      BY <1>2, <1>3, <2>1
    <3> QED
      BY <1>4, <2>1, <3>1
  <2>2. CASE i \in P /\ k = h
    <3>1. Rank(P \cup {m}, i) = Rank(P, i) /\ Rank(M \cup {h}, k) = c + 1
      BY <1>2, <1>3, <2>2
    <3>2. Rank(P, i) \in Nat /\ Rank(P, i) <= c /\ Rank(P, i) = c + 1
      BY <1>1, <1>4, <3>1
    <3> QED
      BY <1>1, <3>2
  <2>3. CASE i = m /\ k \in M
    <3>1. Rank(P \cup {m}, i) = c + 1 /\ Rank(M \cup {h}, k) = Rank(M, k)
      BY <1>2, <1>3, <2>3
    <3>2. Rank(M, k) \in Nat /\ Rank(M, k) <= c /\ Rank(M, k) = c + 1
      BY <1>1, <1>4, <3>1
    <3> QED
      BY <1>1, <3>2
  <2> QED
    BY <2>1, <2>2, <2>3
<1>5. Cardinality(P \cup {m}) = Cardinality(M \cup {h})
  BY <1>2, <1>3
<1> QED
  BY <1>4, <1>5 DEF Paired

-----------------------------------------------------------------------------
\* One event more, one event of the XML more.
LEMMA OneEventMore ==
  ASSUME NEW S, NEW s \in Seq(S), NEW e \in S, NEW n, n = Len(s), NEW m, m = n + 1
  PROVE  /\ n \in Nat /\ Append(s, e) \in Seq(S) /\ Len(Append(s, e)) = m
         /\ Append(s, e)[m] = e /\ \A i \in 1..n : Append(s, e)[i] = s[i]
BY LenProperties, AppendProperties

LEMMA ToldMore ==
  ASSUME NEW evs \in Seq(Events), NEW n, n = Len(evs), n >= 1, NEW m, m = n + 1, NEW e \in Events
  PROVE  /\ Told(evs, n) \subseteq 1..n
         /\ Told(Append(evs, e), n) = Told(evs, n)
         /\ Told(Append(evs, e), m) = IF e.command = CMD_END_TAG THEN Told(evs, n)
                                      ELSE Told(evs, n) \cup {m}
<1> DEFINE F == Append(evs, e)
<1>1. n \in Nat /\ F[m] = e /\ \A i \in 1..n : F[i] = evs[i]
  BY OneEventMore
<1> HIDE DEF F
<1>2. Told(evs, n) \subseteq 1..n
  BY <1>1 DEF Told
<1>3. Told(F, n) = Told(evs, n)
  <2>1. \A i \in 2..n : F[i] = evs[i]
    BY <1>1
  <2> QED
    BY <2>1 DEF Told
<1>4. 2..m = 2..n \cup {m}
  BY <1>1
<1>5. Told(F, m) = Told(F, n) \cup {i \in {m} : F[i].command # CMD_END_TAG}
  BY <1>4 DEF Told
<1>6. {i \in {m} : F[i].command # CMD_END_TAG} = IF e.command = CMD_END_TAG THEN {} ELSE {m}
  BY <1>1
<1>7. Told(F, m) = IF e.command = CMD_END_TAG THEN Told(evs, n) ELSE Told(evs, n) \cup {m}
  BY <1>3, <1>5, <1>6
<1> QED
  BY <1>2, <1>3, <1>7 DEF F

LEMMA MeantMore ==
  ASSUME NEW xs \in Seq(XmlEvents), NEW x \in XmlEvents, NEW l, l = Len(xs), NEW h, h = l + 1
  PROVE  /\ Meant(xs) \subseteq 1..l
         /\ Meant(Append(xs, x)) = IF x.kind \in {"End", "Decl"} THEN Meant(xs)
                                   ELSE Meant(xs) \cup {h}
<1> DEFINE F == Append(xs, x)
<1>1. l \in Nat /\ Len(F) = h /\ F[h] = x /\ \A i \in 1..l : F[i] = xs[i]
  BY OneEventMore
<1> HIDE DEF F
<1>2. Meant(xs) \subseteq 1..l
  BY DEF Meant
<1>3. 1..h = 1..l \cup {h}
  BY <1>1
<1>4. Meant(F) = {k \in 1..l : F[k].kind \notin {"End", "Decl"}}
                   \cup {k \in {h} : F[k].kind \notin {"End", "Decl"}}
  BY <1>1, <1>3 DEF Meant
<1>5. {k \in 1..l : F[k].kind \notin {"End", "Decl"}} = Meant(xs)
  BY <1>1 DEF Meant
<1>6. {k \in {h} : F[k].kind \notin {"End", "Decl"}} = IF x.kind \in {"End", "Decl"} THEN {} ELSE {h}
  BY <1>1
<1>7. Meant(F) = IF x.kind \in {"End", "Decl"} THEN Meant(xs) ELSE Meant(xs) \cup {h}
  BY <1>4, <1>5, <1>6
<1> QED
  BY <1>2, <1>7 DEF F

\* What an event must be for the events to convey anything.
Fitting(e) == /\ e.command \notin {CMD_START_DOCUMENT, CMD_END_DOCUMENT}
              /\ \A k \in 1..Len(e.attributes) : e.attributes[k].type = TYPE_STRING

LEMMA FittingMore ==
  ASSUME NEW evs \in Seq(Events), NEW n, n = Len(evs), n >= 1, NEW m, m = n + 1, NEW e \in Events,
         \A i \in 2..n : Fitting(evs[i]), Fitting(e)
  PROVE  \A i \in 2..m : Fitting(Append(evs, e)[i])
<1> DEFINE F == Append(evs, e)
<1>1. n \in Nat /\ F[m] = e /\ \A i \in 1..n : F[i] = evs[i]
  BY OneEventMore
<1> HIDE DEF F
<1>2. ASSUME NEW i \in 2..m PROVE Fitting(F[i])
  <2>1. i = m \/ (i \in 2..n /\ i \in 1..n)
    BY <1>1
  <2> QED
    BY <1>1, <2>1
<1> QED
  BY <1>2 DEF F

\* The same, of what is conveyed.
SameSaid(evs, P, xs, M) ==
  /\ Cardinality(P) = Cardinality(M)
  /\ \A i \in P, k \in M : Rank(P, i) = Rank(M, k) => Says(evs[i]) = Says(xs[k])

LEMMA ConveysIs ==
  ASSUME NEW evs, NEW n, NEW xs
  PROVE  Conveys(evs, n, xs) <=> /\ SameSaid(evs, Told(evs, n), xs, Meant(xs))
                                 /\ \A i \in 2..n : Fitting(evs[i])
BY DEF Conveys, SameSaid, Fitting

\* What is behind the n-th event is not asked for.
LEMMA ConveysThen ==
  ASSUME NEW evs \in Seq(Events), NEW n, n = Len(evs), n >= 1, NEW e \in Events,
         NEW xs, Conveys(evs, n, xs)
  PROVE  Conveys(Append(evs, e), n, xs)
<1> DEFINE F == Append(evs, e)
           m == n + 1
<1>1. m = n + 1
  OBVIOUS
<1> HIDE DEF m
<1>2. n \in Nat /\ \A i \in 1..n : F[i] = evs[i]
  BY <1>1, OneEventMore
<1>3. Told(F, n) = Told(evs, n) /\ Told(evs, n) \subseteq 1..n
  BY <1>1, ToldMore
<1>4. /\ SameSaid(evs, Told(evs, n), xs, Meant(xs))
      /\ \A i \in 2..n : Fitting(evs[i])
  BY ConveysIs
<1> HIDE DEF F
<1>5. SameSaid(F, Told(F, n), xs, Meant(xs))
  <2>1. \A i \in Told(evs, n) : F[i] = evs[i]
    BY <1>2, <1>3
  <2> QED
    BY <1>3, <1>4, <2>1 DEF SameSaid
<1>6. \A i \in 2..n : Fitting(F[i])
  <2>1. \A i \in 2..n : F[i] = evs[i]
    BY <1>2
  <2> QED
    BY <1>4, <2>1
<1>7. Conveys(F, n, xs)
  BY <1>5, <1>6, ConveysIs
<1> QED
  BY <1>7 DEF F

\* An end tag tells nothing.
LEMMA EndTagTold ==
  ASSUME NEW evs \in Seq(Events), NEW n, n = Len(evs), n >= 1, NEW m, m = n + 1, NEW e \in Events,
         e.command = CMD_END_TAG, e.attributes = <<>>, NEW xs, Conveys(evs, n, xs)
  PROVE  Conveys(Append(evs, e), m, xs)
<1> DEFINE F == Append(evs, e)
<1>1. Conveys(F, n, xs)
  BY ConveysThen
<1>2. SameSaid(F, Told(F, n), xs, Meant(xs))
  BY <1>1, ConveysIs
<1>3. Told(F, m) = Told(F, n)
  BY ToldMore
<1>4. \A i \in 2..n : Fitting(evs[i])
  BY ConveysIs
<1>5. Fitting(e)
  <2>1. Len(e.attributes) = 0
    OBVIOUS
  <2>2. \A k \in 1..Len(e.attributes) : e.attributes[k].type = TYPE_STRING
    BY <2>1
  <2> QED
    BY <2>2 DEF Fitting, CMD_END_TAG, CMD_START_DOCUMENT, CMD_END_DOCUMENT
<1>6. \A i \in 2..m : Fitting(F[i])
  BY <1>4, <1>5, FittingMore
<1> HIDE DEF F
<1>7. Conveys(F, m, xs)
  BY <1>2, <1>3, <1>6, ConveysIs
<1> QED
  BY <1>7 DEF F

\* End tags and declarations of the XML mean nothing.
LEMMA UnmeantRead ==
  ASSUME NEW evs, NEW n, NEW xs \in Seq(XmlEvents), Conveys(evs, n, xs),
         NEW x \in XmlEvents, x.kind \in {"End", "Decl"}
  PROVE  Conveys(evs, n, Append(xs, x))
<1> DEFINE F == Append(xs, x)
           l == Len(xs)
           h == l + 1
<1>1. l = Len(xs) /\ h = l + 1
  OBVIOUS
<1> HIDE DEF l, h
<1>2. \A i \in 1..l : F[i] = xs[i]
  BY <1>1, OneEventMore
<1>3. Meant(F) = Meant(xs) /\ Meant(xs) \subseteq 1..l
  BY <1>1, MeantMore
<1>4. /\ SameSaid(evs, Told(evs, n), xs, Meant(xs))
      /\ \A i \in 2..n : Fitting(evs[i])
  BY ConveysIs
<1> HIDE DEF F
<1>5. \A k \in Meant(xs) : F[k] = xs[k]
  BY <1>2, <1>3
<1>6. SameSaid(evs, Told(evs, n), F, Meant(F))
  BY <1>3, <1>4, <1>5 DEF SameSaid
<1>7. Conveys(evs, n, F)
  BY <1>4, <1>6, ConveysIs
<1> QED
  BY <1>7 DEF F

\* What the XML means is told.
LEMMA SaidRead ==
  ASSUME NEW evs \in Seq(Events), NEW n, n = Len(evs), n >= 1, NEW m, m = n + 1,
         NEW xs \in Seq(XmlEvents), Conveys(evs, n, xs),
         NEW x \in XmlEvents, x.kind \notin {"End", "Decl"},
         NEW e \in Events, e.command # CMD_END_TAG, Fitting(e), Says(e) = Says(x)
  PROVE  Conveys(Append(evs, e), m, Append(xs, x))
<1> DEFINE F == Append(evs, e)
           G == Append(xs, x)
           l == Len(xs)
           h == l + 1
           P == Told(evs, n)
           M == Meant(xs)
<1>1. l = Len(xs) /\ h = l + 1
  OBVIOUS
<1> HIDE DEF h, l
<1>2. n \in Nat /\ F[m] = e /\ \A i \in 1..n : F[i] = evs[i]
  BY OneEventMore
<1>3. l \in Nat /\ G[h] = x /\ \A i \in 1..l : G[i] = xs[i]
  BY <1>1, OneEventMore
<1>4. P \subseteq 1..n /\ Told(F, m) = P \cup {m}
  BY ToldMore
<1>5. M \subseteq 1..l /\ Meant(G) = M \cup {h}
  BY <1>1, MeantMore
<1>6. SameSaid(evs, P, xs, M) /\ \A i \in 2..n : Fitting(evs[i])
  BY ConveysIs
<1>7. \A i \in 2..m : Fitting(F[i])
  BY <1>6, FittingMore
<1> HIDE DEF F, G, P, M
<1>8. Cardinality(P) = Cardinality(M)
  BY <1>6 DEF SameSaid
<1>9. Paired(P, m, M, h)
  BY <1>1, <1>2, <1>3, <1>4, <1>5, <1>8, RanksPair
<1>10. ASSUME NEW i \in P \cup {m}, NEW k \in M \cup {h}, Rank(P \cup {m}, i) = Rank(M \cup {h}, k)
       PROVE  Says(F[i]) = Says(G[k])
  <2>1. CASE i = m /\ k = h
    BY <1>2, <1>3, <2>1
  <2>2. CASE i \in P /\ k \in M /\ Rank(P, i) = Rank(M, k)
    <3>1. F[i] = evs[i] /\ G[k] = xs[k]
      BY <1>2, <1>3, <1>4, <1>5, <2>2
    <3>2. Says(evs[i]) = Says(xs[k])
      BY <1>6, <2>2 DEF SameSaid
    <3> QED
      BY <3>1, <3>2
  <2> QED
    BY <1>9, <1>10, <2>1, <2>2 DEF Paired
<1>11. SameSaid(F, P \cup {m}, G, M \cup {h})
  BY <1>9, <1>10 DEF SameSaid, Paired
<1>12. Conveys(F, m, G)
  BY <1>4, <1>5, <1>7, <1>11, ConveysIs
<1> QED
  BY <1>12 DEF F, G

-----------------------------------------------------------------------------
\* The tags open.
Tagging == BOOLEAN \X Seq(Bytes)

LEMMA FrontType ==
  ASSUME NEW s \in Seq(Bytes), s # <<>>
  PROVE  Front(s) \in Seq(Bytes) /\ Len(Front(s)) = Len(s) - 1
         /\ \A i \in 1..(Len(s) - 1) : Front(s)[i] = s[i]
<1>1. Len(s) \in Nat /\ Len(s) >= 1 /\ \A i \in 1..(Len(s) - 1) : s[i] \in Bytes
  BY LenProperties, EmptySeq
<1> DEFINE u == SubSeq(s, 1, Len(s) - 1)
<1>2. Len(s) - 1 \in Nat /\ Len(s) - 1 \in Int /\ 1 \in Int
  BY <1>1
<1>3. /\ u \in Seq(Bytes)
      /\ Len(u) = IF 1 <= Len(s) - 1 THEN (Len(s) - 1) - 1 + 1 ELSE 0
      /\ \A i \in 1..((Len(s) - 1) - 1 + 1) : u[i] = s[1 + i - 1]
  BY <1>1, <1>2, SubSeqProperties
<1> HIDE DEF u
<1>4. Len(u) = Len(s) - 1
  <2>1. \A k \in Nat : k >= 1 => (IF 1 <= k - 1 THEN (k - 1) - 1 + 1 ELSE 0) = k - 1
    OBVIOUS
  <2> QED
    BY <1>1, <1>3, <2>1
<1>5. ASSUME NEW i \in 1..(Len(s) - 1) PROVE u[i] = s[i]
  <2>1. i \in 1..((Len(s) - 1) - 1 + 1) /\ 1 + i - 1 = i
    BY <1>1
  <2> QED
    BY <1>3, <2>1
<1> QED
  BY <1>3, <1>4, <1>5 DEF Front, u

\* The last element of a sequence, and what is left without it.
LEMMA LastAppended ==
  ASSUME NEW s \in Seq(Bytes), NEW t \in Bytes
  PROVE  /\ Append(s, t) \in Seq(Bytes) /\ Append(s, t) # <<>>
         /\ Last(Append(s, t)) = t /\ Front(Append(s, t)) = s
<1> DEFINE u == Append(s, t)
           n == Len(s)
           m == n + 1
<1>1. n \in Nat /\ u \in Seq(Bytes) /\ Len(u) = m /\ u[m] = t /\ \A i \in 1..n : u[i] = s[i]
  BY OneEventMore
<1> HIDE DEF u
<1>2. m - 1 = n /\ m # 0
  BY <1>1
<1>3. u # <<>>
  <2>1. Len(<<>>) = 0
    OBVIOUS
  <2> QED
    BY <1>1, <1>2, <2>1
<1>4. Last(u) = t
  BY <1>1 DEF Last
<1> HIDE DEF m
<1>5. Front(u) \in Seq(Bytes) /\ Len(Front(u)) = n /\ \A i \in 1..n : Front(u)[i] = u[i]
  BY <1>1, <1>2, <1>3, FrontType
<1>6. Front(u) = s
  BY <1>1, <1>5, SeqEqual DEF n
<1> QED
  BY <1>1, <1>3, <1>4, <1>6 DEF u

LEMMA TagsAfterType ==
  ASSUME NEW r \in Tagging, NEW e \in Events
  PROVE  TagsAfter(r, e) \in Tagging
<1>1. e.text \in Bytes
  BY EventsAssumption DEF AnyEvent
<1>2. r[1] \in BOOLEAN /\ r[2] \in Seq(Bytes)
  BY DEF Tagging
<1>3. Append(r[2], e.text) \in Seq(Bytes)
  BY <1>1, <1>2, LastAppended
<1>4. r[2] # <<>> => Front(r[2]) \in Seq(Bytes)
  BY <1>2, FrontType
<1>5. (r[1] /\ Last(r[2]) = e.text) \in BOOLEAN
  OBVIOUS
<1>6. CASE e.command = CMD_START_TAG
  BY <1>2, <1>3, <1>6 DEF TagsAfter, Tagging
<1>7. CASE e.command # CMD_START_TAG /\ e.command # CMD_END_TAG
  BY <1>7 DEF TagsAfter
<1>8. CASE e.command = CMD_END_TAG /\ e.command # CMD_START_TAG /\ r[2] = <<>>
  BY <1>2, <1>8 DEF TagsAfter, Tagging
<1>9. CASE e.command = CMD_END_TAG /\ e.command # CMD_START_TAG /\ r[2] # <<>>
  <2> DEFINE b == r[1] /\ Last(r[2]) = e.text
             f == Front(r[2])
  <2>1. TagsAfter(r, e) = <<b, f>>
    BY <1>9 DEF TagsAfter
  <2>2. b \in BOOLEAN /\ f \in Seq(Bytes)
    BY <1>4, <1>5, <1>9
  <2> HIDE DEF b, f
  <2>3. <<b, f>> \in Tagging
    BY <2>2 DEF Tagging
  <2> QED
    BY <2>1, <2>3
<1> QED
  BY <1>6, <1>7, <1>8, <1>9

\* One event more.
LEMMA TaggedMore ==
  ASSUME NEW evs \in Seq(Events), NEW e \in Events, NEW r, Tagged(evs, r)
  PROVE  Tagged(Append(evs, e), TagsAfter(r, e))
<1> DEFINE n == Len(evs)
           m == n + 1
           F == Append(evs, e)
           x == TagsAfter(r, e)
<1>1. n \in Nat /\ Len(F) = m /\ F[m] = e /\ \A i \in 1..n : F[i] = evs[i]
  BY OneEventMore
<1>2. PICK h : FollowsTags(h, evs, r)
  BY DEF Tagged
<1>3. /\ h \in [0..n -> Tagging] /\ h[0] = <<TRUE, <<>> >> /\ h[n] = r
      /\ \A i \in 1..n : h[i] = TagsAfter(h[i - 1], evs[i])
  BY <1>2 DEF FollowsTags, Tagging
<1>4. m = n + 1 /\ m \in Nat /\ m - 1 = n /\ n \in 0..n /\ m \notin 0..n /\ 0 \in 0..n
      /\ (\A i \in 0..m : i \in 0..n \/ i = m) /\ (\A i \in 1..m : i \in 1..n \/ i = m)
      /\ \A i \in 1..n : i - 1 \in 0..n /\ i \in 0..n /\ i \in 0..m
  BY <1>1
<1> HIDE DEF n, m, F
<1>5. r \in Tagging
  BY <1>3, <1>4
<1>6. x \in Tagging
  BY <1>5, TagsAfterType
<1> HIDE DEF x
<1> DEFINE k == [i \in 0..m |-> IF i = m THEN x ELSE h[i]]
<1>7. k \in [0..m -> Tagging] /\ k[m] = x /\ \A i \in 0..n : k[i] = h[i]
  <2>1. \A i \in 0..n : i \in 0..m /\ i # m
    BY <1>1, <1>4
  <2>2. m \in 0..m
    BY <1>4
  <2> QED
    BY <1>3, <1>4, <1>6, <2>1, <2>2
<1> HIDE DEF k
<1>8. ASSUME NEW i \in 1..m PROVE k[i] = TagsAfter(k[i - 1], F[i])
  <2>1. CASE i = m
    <3>1. k[i] = x /\ k[i - 1] = r /\ F[i] = e
      BY <1>1, <1>3, <1>4, <1>7, <2>1
    <3> QED
      BY <3>1 DEF x
  <2>2. CASE i \in 1..n
    <3>1. k[i] = h[i] /\ k[i - 1] = h[i - 1] /\ F[i] = evs[i]
      BY <1>1, <1>4, <1>7, <2>2
    <3> QED
      BY <1>3, <2>2, <3>1
  <2> QED
    BY <1>4, <2>1, <2>2
<1>9. k[0] = <<TRUE, <<>> >>
  BY <1>3, <1>4, <1>7
<1>10. FollowsTags(k, F, x)
  BY <1>1, <1>7, <1>8, <1>9, Zenon DEF FollowsTags, Tagging
<1>11. Tagged(F, x)
  BY <1>10 DEF Tagged
<1> QED
  BY <1>11 DEF F, x

\* The recursive function of OpenTags, and what follows the tags is that.
IsAfter(f, evs) ==
  f = [n \in 0..Len(evs) |-> IF n = 0 THEN <<TRUE, <<>> >> ELSE TagsAfter(f[n - 1], evs[n])]

LEMMA TaggedOpen ==
  ASSUME NEW evs \in Seq(Events), NEW r, Tagged(evs, r)
  PROVE  OpenTags(evs) = r
<1> DEFINE N == Len(evs)
           after == CHOOSE f : f = [n \in 0..Len(evs) |->
                       IF n = 0 THEN <<TRUE, <<>> >> ELSE TagsAfter(f[n - 1], evs[n])]
<1>1. N \in Nat
  BY LenProperties
<1>2. PICK h : FollowsTags(h, evs, r)
  BY DEF Tagged
<1>3. h \in [0..N -> Tagging] /\ h[0] = <<TRUE, <<>> >>
      /\ (\A n \in 1..N : h[n] = TagsAfter(h[n - 1], evs[n])) /\ h[N] = r
  BY <1>2 DEF FollowsTags, Tagging
<1>4. IsAfter(h, evs)
  <2> DEFINE g == [n \in 0..N |-> IF n = 0 THEN <<TRUE, <<>> >> ELSE TagsAfter(h[n - 1], evs[n])]
  <2>1. ASSUME NEW n \in 0..N PROVE h[n] = g[n]
    <3>1. CASE n = 0
      BY <1>3, <3>1
    <3>2. CASE n # 0
      <4>1. n \in 1..N
        BY <1>1, <3>2
      <4> QED
        BY <1>3, <3>2, <4>1
    <3> QED
      BY <3>1, <3>2
  <2>2. h = g
    BY <1>3, <2>1
  <2> QED
    BY <2>2, Zenon DEF IsAfter
<1>5. IsAfter(after, evs)
  BY <1>4 DEF IsAfter
<1>6. OpenTags(evs) = after[N]
  BY DEF OpenTags
<1> HIDE DEF after
<1>7. \A n \in 0..N : after[n] = IF n = 0 THEN <<TRUE, <<>> >> ELSE TagsAfter(after[n - 1], evs[n])
  BY <1>5 DEF IsAfter
<1> DEFINE T == {n \in Nat : n <= N => after[n] = h[n]}
<1> HIDE DEF N
<1>8. 0 \in T
  <2>1. 0 \in 0..N
    BY <1>1
  <2>2. after[0] = <<TRUE, <<>> >>
    BY <1>7, <2>1
  <2> QED
    BY <1>3, <2>2
<1>9. ASSUME NEW n \in T PROVE n + 1 \in T
  <2>1. n \in Nat /\ n + 1 \in Nat
    OBVIOUS
  <2>2. ASSUME n + 1 <= N PROVE after[n + 1] = h[n + 1]
    <3>1. n <= N /\ n + 1 \in 0..N /\ n + 1 \in 1..N /\ n + 1 # 0 /\ (n + 1) - 1 = n
      BY <1>1, <2>1, <2>2
    <3>2. after[n + 1] = TagsAfter(after[n], evs[n + 1])
      BY <1>7, <3>1
    <3>3. h[n + 1] = TagsAfter(h[n], evs[n + 1])
      BY <1>3, <3>1
    <3> QED
      BY <3>1, <3>2, <3>3
  <2> QED
    BY <2>1, <2>2
<1>10. T = Nat
  <2>1. T \in SUBSET Nat
    OBVIOUS
  <2> HIDE DEF T
  <2> QED
    BY <1>8, <1>9, <2>1, NatSetInduction
<1>11. N \in T
  BY <1>1, <1>10
<1>12. after[N] = r
  BY <1>1, <1>3, <1>11
<1> QED
  BY <1>6, <1>12

-----------------------------------------------------------------------------
\* What becomes of an event of the XML.
LEMMA XmlEventType ==
  ASSUME NEW x \in XmlEvents
  PROVE  /\ x.kind \in XmlKinds /\ x.text \in Bytes /\ x.attributes \in Seq([name : Bytes, value : Bytes])
         /\ x.kind \notin {"Start", "Empty"} => x.attributes = <<>>
         /\ \A i \in 1..Len(Translation(x)) : Translation(x)[i] \in Events
         /\ Document(CMD_START_DOCUMENT) \in Events /\ Document(CMD_END_DOCUMENT) \in Events
BY XmlAssumption DEF XmlEvent

LEMMA AnEventFields ==
  ASSUME NEW c, NEW t, NEW as
  PROVE  AnEvent(c, t, as).command = c /\ AnEvent(c, t, as).text = t /\ AnEvent(c, t, as).attributes = as
BY DEF AnEvent

\* The event that carries a text.
Texted(x) == AnEvent(TextCommand[x.kind], x.text, <<>>)

LEMMA TranslationIs ==
  ASSUME NEW x
  PROVE  /\ x.kind = "Start" => Translation(x) = <<Started(x)>>
         /\ x.kind = "Empty" => Translation(x) = <<Started(x), Ended(x)>>
         /\ x.kind = "End"   => Translation(x) = <<Ended(x)>>
         /\ x.kind = "Decl"  => Translation(x) = <<>>
         /\ x.kind \notin {"Start", "Empty", "End", "Decl"} => Translation(x) = <<Texted(x)>>
<1>1. /\ x.kind = "Start" => Translation(x) = <<Started(x)>>
      /\ x.kind = "Empty" => Translation(x) = <<Started(x), Ended(x)>>
  BY DEF Translation, EmptyElement
<1>2. /\ x.kind = "End"   => Translation(x) = <<Ended(x)>>
      /\ x.kind = "Decl"  => Translation(x) = <<>>
  BY DEF Translation, Declaration
<1>3. x.kind \notin {"Start", "Empty", "End", "Decl"} => Translation(x) = <<Texted(x)>>
  BY DEF Translation, Texted
<1> QED
  BY <1>1, <1>2, <1>3

LEMMA TextCommandIs ==
  ASSUME NEW k \in XmlKinds, k \notin {"Start", "Empty", "End", "Decl"}
  PROVE  TextCommand[k] \in CMD_TEXT..CMD_DOCDECL
<1>1. k \in DOMAIN TextCommand
  BY DEF XmlKinds
<1>2. DOMAIN TextCommand = {"Text", "GeneralRef", "CData", "Comment", "PI", "DocType"}
  BY DEF TextCommand
<1>3. /\ TextCommand["Text"] = CMD_TEXT /\ TextCommand["GeneralRef"] = CMD_ENTITY_REF
      /\ TextCommand["CData"] = CMD_CDSECT /\ TextCommand["Comment"] = CMD_COMMENT
      /\ TextCommand["PI"] = CMD_PROCESSING_INSTRUCTION /\ TextCommand["DocType"] = CMD_DOCDECL
  BY DEF TextCommand
<1>4. {CMD_TEXT, CMD_ENTITY_REF, CMD_CDSECT, CMD_COMMENT, CMD_PROCESSING_INSTRUCTION, CMD_DOCDECL}
        \subseteq CMD_TEXT..CMD_DOCDECL
  BY DEF CMD_TEXT, CMD_ENTITY_REF, CMD_CDSECT, CMD_COMMENT, CMD_PROCESSING_INSTRUCTION, CMD_DOCDECL
<1> QED
  BY <1>1, <1>2, <1>3, <1>4

LEMMA FunctionIsSeq ==
  ASSUME NEW S, NEW n \in Nat, NEW f \in [1..n -> S]
  PROVE  f \in Seq(S) /\ Len(f) = n
<1>1. f \in Seq(S)
  BY SeqDef
<1>2. Len(f) \in Nat /\ DOMAIN f = 1..Len(f) /\ DOMAIN f = 1..n
  BY <1>1, LenProperties
<1>3. \A a, b \in Nat : 1..a = 1..b => a = b
  <2>1. ASSUME NEW a \in Nat, NEW b \in Nat, 1..a = 1..b PROVE a <= b
    <3>1. a = 0 \/ a \in 1..a
      OBVIOUS
    <3> QED
      BY <2>1, <3>1
  <2> QED
    BY <2>1
<1>4. Len(f) = n
  BY <1>2, <1>3
<1> QED
  BY <1>1, <1>4

\* The attributes of a tag.
LEMMA StringsAre ==
  ASSUME NEW as \in Seq([name : Bytes, value : Bytes])
  PROVE  /\ Len(as) \in Nat /\ Strings(as) \in Seq([name : Bytes, type : {TYPE_STRING}, value : Bytes])
         /\ DOMAIN as = 1..Len(as) /\ DOMAIN Strings(as) = 1..Len(as) /\ Len(Strings(as)) = Len(as)
         /\ \A i \in 1..Len(as) : /\ as[i].name \in Bytes /\ as[i].value \in Bytes
                                  /\ Strings(as)[i].name = as[i].name
                                  /\ Strings(as)[i].type = TYPE_STRING
                                  /\ Strings(as)[i].value = as[i].value
<1> DEFINE n == Len(as)
           R == [name : Bytes, type : {TYPE_STRING}, value : Bytes]
<1>1. n \in Nat /\ DOMAIN as = 1..n
  BY LenProperties
<1>2. ASSUME NEW i \in 1..n PROVE as[i].name \in Bytes /\ as[i].value \in Bytes
  <2>1. as[i] \in [name : Bytes, value : Bytes]
    BY ElementOfSeq
  <2> QED
    BY <2>1
<1>3. Strings(as) = [i \in 1..n |-> [name |-> as[i].name, type |-> TYPE_STRING, value |-> as[i].value]]
  BY <1>1 DEF Strings
<1> HIDE DEF n
<1>4. \A i \in 1..n : [name |-> as[i].name, type |-> TYPE_STRING, value |-> as[i].value] \in R
  BY <1>2
<1>5. Strings(as) \in [1..n -> R]
  BY <1>3, <1>4
<1>6. Strings(as) \in Seq(R) /\ Len(Strings(as)) = n
  <2> DEFINE f == Strings(as)
  <2>1. f \in [1..n -> R]
    BY <1>5
  <2> HIDE DEF R, f
  <2>2. f \in Seq(R) /\ Len(f) = n
    BY <1>1, <2>1, FunctionIsSeq
  <2> QED
    BY <2>2 DEF f
<1>7. DOMAIN Strings(as) = 1..n
  BY <1>3
<1>9. ASSUME NEW i \in 1..n
      PROVE  /\ Strings(as)[i].name = as[i].name
             /\ Strings(as)[i].type = TYPE_STRING
             /\ Strings(as)[i].value = as[i].value
  <2>1. Strings(as)[i] = [name |-> as[i].name, type |-> TYPE_STRING, value |-> as[i].value]
    BY <1>3
  <2> QED
    BY <2>1
<1> HIDE DEF R
<1>10. Strings(as) \in Seq([name : Bytes, type : {TYPE_STRING}, value : Bytes])
  BY <1>6 DEF R
<1> QED
  BY <1>1, <1>2, <1>6, <1>7, <1>9, <1>10 DEF n

LEMMA SaysPlain ==
  ASSUME NEW e, NEW x, e.text = x.text, e.attributes = <<>>, x.attributes = <<>>
  PROVE  Says(e) = Says(x) /\ \A k \in 1..Len(e.attributes) : e.attributes[k].type = TYPE_STRING
<1>1. Says(e) = Says(x)
  BY DEF Says
<1>2. Len(e.attributes) = 0
  OBVIOUS
<1> QED
  BY <1>1, <1>2

LEMMA StartedSays ==
  ASSUME NEW x \in XmlEvents
  PROVE  /\ Started(x).command = CMD_START_TAG /\ Started(x).text = x.text
         /\ Started(x).attributes = Strings(x.attributes)
         /\ Says(Started(x)) = Says(x) /\ Fitting(Started(x))
<1> DEFINE e == Started(x)
           as == x.attributes
<1>1. e.command = CMD_START_TAG /\ e.text = x.text /\ e.attributes = Strings(as)
  BY AnEventFields DEF Started
<1>2. /\ DOMAIN as = 1..Len(as) /\ DOMAIN Strings(as) = 1..Len(as) /\ Len(Strings(as)) = Len(as)
      /\ \A i \in 1..Len(as) : /\ Strings(as)[i].name = as[i].name
                               /\ Strings(as)[i].type = TYPE_STRING
                               /\ Strings(as)[i].value = as[i].value
  BY XmlEventType, StringsAre
<1> HIDE DEF e, as
<1>3. [i \in DOMAIN e.attributes |-> <<e.attributes[i].name, e.attributes[i].value>>]
        = [i \in DOMAIN as |-> <<as[i].name, as[i].value>>]
  BY <1>1, <1>2
<1>4. Says(e) = Says(x)
  BY <1>1, <1>3 DEF Says, as
<1>5. CMD_START_TAG \notin {CMD_START_DOCUMENT, CMD_END_DOCUMENT}
  BY DEF CMD_START_TAG, CMD_START_DOCUMENT, CMD_END_DOCUMENT
<1>6. Fitting(e)
  BY <1>1, <1>2, <1>5 DEF Fitting
<1> QED
  BY <1>1, <1>4, <1>6 DEF e, as

LEMMA TextedSays ==
  ASSUME NEW x \in XmlEvents, x.kind \notin {"Start", "Empty", "End", "Decl"}
  PROVE  /\ Texted(x).command \in CMD_TEXT..CMD_DOCDECL /\ Texted(x).text = x.text
         /\ Texted(x).attributes = <<>> /\ x.attributes = <<>>
         /\ Says(Texted(x)) = Says(x) /\ Fitting(Texted(x))
<1> DEFINE e == Texted(x)
<1>1. e.command = TextCommand[x.kind] /\ e.text = x.text /\ e.attributes = <<>>
  BY AnEventFields DEF Texted
<1>2. e.command \in CMD_TEXT..CMD_DOCDECL
  BY <1>1, XmlEventType, TextCommandIs
<1>3. x.attributes = <<>>
  BY XmlEventType
<1> HIDE DEF e
<1>4. Says(e) = Says(x) /\ \A k \in 1..Len(e.attributes) : e.attributes[k].type = TYPE_STRING
  BY <1>1, <1>3, SaysPlain
<1>5. e.command \notin {CMD_START_DOCUMENT, CMD_END_DOCUMENT}
  BY <1>2 DEF CMD_TEXT, CMD_DOCDECL, CMD_START_DOCUMENT, CMD_END_DOCUMENT
<1> QED
  BY <1>1, <1>2, <1>3, <1>4, <1>5 DEF e, Fitting

LEMMA EndedIs ==
  ASSUME NEW x
  PROVE  Ended(x).command = CMD_END_TAG /\ Ended(x).text = x.text /\ Ended(x).attributes = <<>>
BY AnEventFields DEF Ended

LEMMA TagCommands == CMD_START_TAG # CMD_END_TAG /\ CMD_START_TAG \notin CMD_TEXT..CMD_DOCDECL
                     /\ CMD_END_TAG \notin CMD_TEXT..CMD_DOCDECL
                     /\ CMD_START_DOCUMENT \notin {CMD_START_TAG, CMD_END_TAG}
                     /\ CMD_END_DOCUMENT \notin {CMD_START_TAG, CMD_END_TAG}
BY DEF CMD_START_TAG, CMD_END_TAG, CMD_TEXT, CMD_DOCDECL, CMD_START_DOCUMENT, CMD_END_DOCUMENT

-----------------------------------------------------------------------------
\* What the events evs amount to once the XML xs has been read and the tags o are open.
ComesTo(evs, xs, o) ==
  /\ Len(evs) >= 1 /\ evs[1] = Document(CMD_START_DOCUMENT)
  /\ Conveys(evs, Len(evs), xs)
  /\ Tagged(evs, <<TRUE, o>>)

\* The tags open behind one event more.
TagsThen(o, e) == IF e.command = CMD_START_TAG THEN Append(o, e.text)
                  ELSE IF e.command = CMD_END_TAG THEN Front(o)
                  ELSE o

LEMMA TagsThenIs ==
  ASSUME NEW evs \in Seq(Events), NEW e \in Events, NEW o, Tagged(evs, <<TRUE, o>>),
         e.command = CMD_END_TAG => o # <<>> /\ Last(o) = e.text
  PROVE  Tagged(Append(evs, e), <<TRUE, TagsThen(o, e)>>)
<1> DEFINE r == <<TRUE, o>>
<1>1. r[1] = TRUE /\ r[2] = o
  OBVIOUS
<1>2. Tagged(Append(evs, e), TagsAfter(r, e))
  BY TaggedMore
<1> HIDE DEF r
<1>3. CASE e.command = CMD_START_TAG
  <2>1. TagsAfter(r, e) = <<TRUE, TagsThen(o, e)>>
    BY <1>1, <1>3 DEF TagsAfter, TagsThen
  <2> QED
    BY <1>2, <2>1
<1>4. CASE e.command # CMD_START_TAG /\ e.command # CMD_END_TAG
  <2>1. TagsAfter(r, e) = <<TRUE, TagsThen(o, e)>>
    BY <1>4 DEF TagsAfter, TagsThen, r
  <2> QED
    BY <1>2, <2>1
<1>5. CASE e.command = CMD_END_TAG /\ e.command # CMD_START_TAG
  <2> DEFINE b == r[1] /\ Last(r[2]) = e.text
  <2>1. b = TRUE
    BY <1>1, <1>5
  <2>2. TagsAfter(r, e) = <<b, TagsThen(o, e)>>
    BY <1>1, <1>5 DEF TagsAfter, TagsThen
  <2> HIDE DEF b
  <2> QED
    BY <1>2, <2>1, <2>2
<1> QED
  BY <1>3, <1>4, <1>5

LEMMA FirstStays ==
  ASSUME NEW evs \in Seq(Events), NEW e \in Events, Len(evs) >= 1
  PROVE  /\ Append(evs, e) \in Seq(Events) /\ Len(Append(evs, e)) >= 1 /\ Append(evs, e)[1] = evs[1]
         /\ Len(Append(evs, e)) = Len(evs) + 1
<1> DEFINE n == Len(evs)
           m == n + 1
<1>1. /\ n \in Nat /\ Append(evs, e) \in Seq(Events) /\ Len(Append(evs, e)) = m
      /\ \A i \in 1..n : Append(evs, e)[i] = evs[i]
  BY OneEventMore
<1>2. 1 \in 1..n /\ m >= 1
  BY <1>1
<1> QED
  BY <1>1, <1>2

\* An event that says what one of the XML means.
LEMMA SaidComes ==
  ASSUME NEW evs \in Seq(Events), NEW xs \in Seq(XmlEvents), NEW o, ComesTo(evs, xs, o),
         NEW x \in XmlEvents, x.kind \notin {"End", "Decl"},
         NEW e \in Events, e.command # CMD_END_TAG, Fitting(e), Says(e) = Says(x)
  PROVE  ComesTo(Append(evs, e), Append(xs, x), TagsThen(o, e))
<1> DEFINE F == Append(evs, e)
           n == Len(evs)
           m == n + 1
<1>1. /\ n = Len(evs) /\ m = n + 1 /\ n >= 1
      /\ evs[1] = Document(CMD_START_DOCUMENT) /\ Conveys(evs, n, xs) /\ Tagged(evs, <<TRUE, o>>)
  BY DEF ComesTo
<1>2. Len(F) >= 1 /\ F[1] = evs[1] /\ Len(F) = m
  BY <1>1, FirstStays
<1> HIDE DEF n, m
<1>3. Conveys(F, m, Append(xs, x))
  BY <1>1, SaidRead
<1>4. Tagged(F, <<TRUE, TagsThen(o, e)>>)
  BY <1>1, TagsThenIs
<1> QED
  BY <1>1, <1>2, <1>3, <1>4 DEF ComesTo

\* An end tag.
LEMMA EndComes ==
  ASSUME NEW evs \in Seq(Events), NEW xs, NEW o, ComesTo(evs, xs, o),
         NEW e \in Events, e.command = CMD_END_TAG, e.attributes = <<>>, o # <<>>, Last(o) = e.text
  PROVE  ComesTo(Append(evs, e), xs, Front(o))
<1> DEFINE F == Append(evs, e)
           n == Len(evs)
           m == n + 1
<1>1. /\ n = Len(evs) /\ m = n + 1 /\ n >= 1
      /\ evs[1] = Document(CMD_START_DOCUMENT) /\ Conveys(evs, n, xs) /\ Tagged(evs, <<TRUE, o>>)
  BY DEF ComesTo
<1>2. Len(F) >= 1 /\ F[1] = evs[1] /\ Len(F) = m
  BY <1>1, FirstStays
<1> HIDE DEF n, m
<1>3. Conveys(F, m, xs)
  BY <1>1, EndTagTold
<1>4. Tagged(F, <<TRUE, TagsThen(o, e)>>)
  BY <1>1, TagsThenIs
<1>5. TagsThen(o, e) = Front(o)
  BY TagCommands DEF TagsThen
<1> QED
  BY <1>1, <1>2, <1>3, <1>4, <1>5 DEF ComesTo

\* An event of the XML that means nothing.
LEMMA NothingComes ==
  ASSUME NEW evs, NEW xs \in Seq(XmlEvents), NEW o, ComesTo(evs, xs, o),
         NEW x \in XmlEvents, x.kind \in {"End", "Decl"}
  PROVE  ComesTo(evs, Append(xs, x), o)
BY UnmeantRead DEF ComesTo

LEMMA ConcatFew ==
  ASSUME NEW S, NEW s \in Seq(S), NEW e \in S, NEW f \in S
  PROVE  s \o <<>> = s /\ s \o <<e>> = Append(s, e) /\ s \o <<e, f>> = Append(Append(s, e), f)
<1>1. s \o <<>> = s
  BY ConcatEmptySeq
<1>2. <<e>> \in Seq(S) /\ <<e, f>> \in Seq(S) /\ Len(<<e>>) = 1 /\ Len(<<e, f>>) = 2
      /\ <<e>>[1] = e /\ <<e, f>>[1] = e /\ <<e, f>>[2] = f
  OBVIOUS
<1> DEFINE n == Len(s)
           m == n + 1
           p == m + 1
           a == Append(s, e)
           b == Append(a, f)
           c == <<e>>
           d == <<e, f>>
           u == s \o c
           v == s \o d
<1>3. n = Len(s) /\ m = n + 1 /\ p = m + 1 /\ n \in Nat
  BY LenProperties
<1>4. a \in Seq(S) /\ Len(a) = m /\ a[m] = e /\ \A i \in 1..n : a[i] = s[i]
  BY OneEventMore
<1>5. b \in Seq(S) /\ Len(b) = p /\ b[p] = f /\ \A i \in 1..m : b[i] = a[i]
  <2> HIDE DEF a, n, m, p
  <2> QED
    BY <1>3, <1>4, OneEventMore
<1>6. u \in Seq(S) /\ Len(u) = n + 1 /\ \A i \in 1..(n + 1) : u[i] = IF i <= n THEN s[i] ELSE c[i - n]
  <2> HIDE DEF n, m, p, a, b, u
  <2> QED
    BY <1>2, <1>3, ConcatProperties DEF u
<1>7. v \in Seq(S) /\ Len(v) = n + 2 /\ \A i \in 1..(n + 2) : v[i] = IF i <= n THEN s[i] ELSE d[i - n]
  <2> HIDE DEF n, m, p, a, b, v
  <2> QED
    BY <1>2, <1>3, ConcatProperties DEF v
<1>8. c[1] = e /\ d[1] = e /\ d[2] = f
  BY <1>2
<1> HIDE DEF n, m, p, a, b, c, d, u, v
<1>9. u = a
  <2>1. ASSUME NEW i \in 1..m PROVE u[i] = a[i]
    <3>1. (i \in 1..n /\ i <= n) \/ (i = m /\ ~(i <= n) /\ i - n = 1)
      BY <1>3
    <3>2. i \in 1..(n + 1)
      BY <1>3
    <3> QED
      BY <1>4, <1>6, <1>8, <3>1, <3>2
  <2> QED
    BY <1>3, <1>4, <1>6, <2>1, SeqEqual
<1>10. v = b
  <2>1. ASSUME NEW i \in 1..p PROVE v[i] = b[i]
    <3>1. \/ i \in 1..n /\ i <= n /\ i \in 1..m
          \/ i = m /\ ~(i <= n) /\ i - n = 1 /\ i \in 1..m
          \/ i = p /\ ~(i <= n) /\ i - n = 2
      BY <1>3
    <3>2. i \in 1..(n + 2)
      BY <1>3
    <3> QED
      BY <1>4, <1>5, <1>7, <1>8, <3>1, <3>2
  <2>2. p = n + 2
    BY <1>3
  <2> QED
    BY <1>5, <1>7, <2>1, <2>2, SeqEqual
<1> QED
  BY <1>1, <1>9, <1>10 DEF u, v, a, b, c, d

\* The reader's tags behind one event of the XML more.
OpenThen(o, x) == CASE x.kind = "Start" -> Append(o, x.text)
                    [] x.kind = "End"   -> Front(o)
                    [] OTHER            -> o

\* An event of the XML is read, and its translation goes behind the events.
LEMMA ReadComes ==
  ASSUME NEW evs \in Seq(Events), NEW xs \in Seq(XmlEvents), NEW o \in Seq(Bytes), ComesTo(evs, xs, o),
         NEW x \in XmlEvents, x.kind = "End" => o # <<>> /\ Last(o) = x.text
  PROVE  ComesTo(evs \o Translation(x), Append(xs, x), OpenThen(o, x))
<1>1. Len(evs) >= 1
  BY DEF ComesTo
<1>2. \A i \in 1..Len(Translation(x)) : Translation(x)[i] \in Events
  BY XmlEventType
<1>3. CASE x.kind \in {"Start", "Empty"}
  <2> DEFINE e == Started(x)
             F == Append(evs, e)
  <2>1. /\ e.command = CMD_START_TAG /\ e.command # CMD_END_TAG /\ e.text = x.text
        /\ Says(e) = Says(x) /\ Fitting(e)
    BY StartedSays, TagCommands
  <2>2. /\ Translation(x) = <<e>> \/ Translation(x) = <<e, Ended(x)>>
        /\ x.kind = "Empty" => Translation(x) = <<e, Ended(x)>>
        /\ x.kind = "Start" => Translation(x) = <<e>>
    BY <1>3, TranslationIs
  <2>3. e \in Events
    <3> HIDE DEF e
    <3>1. 1 \in 1..Len(Translation(x)) /\ Translation(x)[1] = e
      BY <2>2
    <3> QED
      BY <1>2, <3>1
  <2> HIDE DEF e
  <2>4. TagsThen(o, e) = Append(o, x.text)
    BY <2>1 DEF TagsThen
  <2>5. ComesTo(F, Append(xs, x), Append(o, x.text))
    <3>1. ComesTo(F, Append(xs, x), TagsThen(o, e))
      BY <1>3, <2>1, <2>3, SaidComes
    <3> QED
      BY <2>4, <3>1
  <2>6. CASE x.kind = "Start"
    <3>1. OpenThen(o, x) = Append(o, x.text)
      BY <2>6 DEF OpenThen
    <3>2. evs \o Translation(x) = F
      <4>1. evs \o <<e>> = F
        BY <2>3, ConcatFew
      <4> QED
        BY <2>2, <2>6, <4>1
    <3> QED
      BY <2>5, <3>1, <3>2
  <2>7. CASE x.kind = "Empty"
    <3> DEFINE f == Ended(x)
               G == Append(F, f)
    <3>1. f.command = CMD_END_TAG /\ f.text = x.text /\ f.attributes = <<>>
      BY EndedIs
    <3>2. Translation(x) = <<e, f>>
      BY <2>2, <2>7
    <3>3. f \in Events
      <4> HIDE DEF f
      <4>1. 2 \in 1..Len(Translation(x)) /\ Translation(x)[2] = f
        BY <3>2
      <4> QED
        BY <1>2, <4>1
    <3> HIDE DEF f
    <3>4. F \in Seq(Events)
      BY <1>1, <2>3, FirstStays
    <3>5. /\ Append(o, x.text) # <<>> /\ Last(Append(o, x.text)) = x.text
          /\ Front(Append(o, x.text)) = o
      BY XmlEventType, LastAppended
    <3> HIDE DEF F
    <3>6. ComesTo(G, Append(xs, x), Front(Append(o, x.text)))
      BY <2>5, <3>1, <3>3, <3>4, <3>5, EndComes
    <3>7. ComesTo(G, Append(xs, x), o)
      BY <3>5, <3>6
    <3>8. OpenThen(o, x) = o
      BY <2>7 DEF OpenThen
    <3>9. evs \o Translation(x) = G
      BY <2>3, <3>2, <3>3, ConcatFew DEF F
    <3> QED
      BY <3>7, <3>8, <3>9
  <2> QED
    BY <1>3, <2>6, <2>7
<1>4. CASE x.kind = "End"
  <2> DEFINE f == Ended(x)
             F == Append(evs, f)
  <2>1. f.command = CMD_END_TAG /\ f.text = x.text /\ f.attributes = <<>> /\ Translation(x) = <<f>>
    BY <1>4, EndedIs, TranslationIs
  <2> HIDE DEF f
  <2>2. f \in Events
    <3>1. 1 \in 1..Len(Translation(x)) /\ Translation(x)[1] = f
      BY <2>1
    <3> QED
      BY <1>2, <3>1
  <2>3. ComesTo(F, xs, Front(o))
    BY <1>4, <2>1, <2>2, EndComes
  <2> HIDE DEF F
  <2>4. ComesTo(F, Append(xs, x), Front(o))
    BY <1>4, <2>3, NothingComes
  <2>5. OpenThen(o, x) = Front(o)
    BY <1>4 DEF OpenThen
  <2>6. evs \o Translation(x) = F
    BY <2>1, <2>2, ConcatFew DEF F
  <2> QED
    BY <2>4, <2>5, <2>6
<1>5. CASE x.kind = "Decl"
  <2>1. Translation(x) = <<>> /\ evs \o <<>> = evs
    BY <1>5, TranslationIs, ConcatEmptySeq
  <2>2. OpenThen(o, x) = o
    BY <1>5 DEF OpenThen
  <2>3. ComesTo(evs, Append(xs, x), o)
    BY <1>5, NothingComes
  <2> QED
    BY <2>1, <2>2, <2>3
<1>6. CASE x.kind \notin {"Start", "Empty", "End", "Decl"}
  <2> DEFINE e == Texted(x)
             F == Append(evs, e)
  <2>1. /\ e.command \in CMD_TEXT..CMD_DOCDECL /\ Says(e) = Says(x) /\ Fitting(e)
        /\ Translation(x) = <<e>>
    BY <1>6, TextedSays, TranslationIs
  <2> HIDE DEF e
  <2>2. e \in Events
    <3>1. 1 \in 1..Len(Translation(x)) /\ Translation(x)[1] = e
      BY <2>1
    <3> QED
      BY <1>2, <3>1
  <2>3. e.command # CMD_START_TAG /\ e.command # CMD_END_TAG
    BY <2>1, TagCommands
  <2>4. TagsThen(o, e) = o /\ OpenThen(o, x) = o
    BY <1>6, <2>3 DEF TagsThen, OpenThen
  <2>5. ComesTo(F, Append(xs, x), TagsThen(o, e))
    BY <1>6, <2>1, <2>2, <2>3, SaidComes
  <2>6. evs \o Translation(x) = F
    BY <2>1, <2>2, ConcatFew
  <2> QED
    BY <2>4, <2>5, <2>6
<1> QED
  BY <1>3, <1>4, <1>5, <1>6

\* The end of the document.
LEMMA EndDocumentComes ==
  ASSUME NEW evs \in Seq(Events), NEW xs, NEW o, ComesTo(evs, xs, o)
  PROVE  LET F == Append(evs, Document(CMD_END_DOCUMENT))
         IN Kept(F, "ending", xs) /\ Tagged(F, <<TRUE, o>>)
<1> DEFINE e == Document(CMD_END_DOCUMENT)
           F == Append(evs, e)
           n == Len(evs)
           m == n + 1
<1>1. /\ n = Len(evs) /\ m = n + 1 /\ n >= 1
      /\ evs[1] = Document(CMD_START_DOCUMENT) /\ Conveys(evs, n, xs) /\ Tagged(evs, <<TRUE, o>>)
  BY DEF ComesTo
<1>2. e \in Events /\ e.command = CMD_END_DOCUMENT
  BY XmlAssumption, AnEventFields DEF Document
<1> HIDE DEF e
<1>3. Len(F) = m /\ F[m] = e /\ F[1] = evs[1] /\ n \in Nat
  BY <1>1, <1>2, FirstStays, OneEventMore
<1>4. Conveys(F, n, xs)
  BY <1>1, <1>2, ConveysThen
<1>5. e.command # CMD_START_TAG /\ e.command # CMD_END_TAG
  BY <1>2, TagCommands
<1>6. Tagged(F, <<TRUE, o>>)
  <2>1. Tagged(F, <<TRUE, TagsThen(o, e)>>)
    BY <1>1, <1>2, <1>5, TagsThenIs
  <2>2. TagsThen(o, e) = o
    BY <1>5 DEF TagsThen
  <2> QED
    BY <2>1, <2>2
<1> HIDE DEF F, n, m
<1>7. m - 1 = n /\ m >= 2
  BY <1>1, <1>3
<1>8. Kept(F, "ending", xs)
  BY <1>1, <1>3, <1>4, <1>7 DEF Kept, e
<1> QED
  BY <1>6, <1>8 DEF F, e

\* The start of the document.
LEMMA StartDocumentComes ==
  ComesTo(<<Document(CMD_START_DOCUMENT)>>, <<>>, <<>>)
<1> DEFINE e == Document(CMD_START_DOCUMENT)
           s == <<e>>
           z == <<>>
<1>1. e \in Events /\ e.command = CMD_START_DOCUMENT
  BY XmlAssumption, AnEventFields DEF Document
<1> HIDE DEF e
<1>2. Len(s) = 1 /\ s[1] = e /\ s \in Seq(Events) /\ Len(z) = 0
  BY <1>1
<1> HIDE DEF s
<1>3. Told(s, 1) = {} /\ Meant(z) = {}
  <2>1. 2..1 = {} /\ 1..0 = {}
    OBVIOUS
  <2> HIDE DEF z
  <2> QED
    BY <1>2, <2>1 DEF Told, Meant
<1>4. SameSaid(s, Told(s, 1), z, Meant(z))
  <2> HIDE DEF z
  <2> QED
    BY <1>3 DEF SameSaid
<1>5. \A i \in 2..1 : Fitting(s[i])
  OBVIOUS
<1>6. Conveys(s, 1, z)
  BY <1>4, <1>5, ConveysIs
<1>7. Tagged(s, <<TRUE, <<>> >>)
  <2> DEFINE r == <<TRUE, <<>> >>
             h == [i \in 0..1 |-> r]
  <2>1. r \in Tagging /\ r[1] = TRUE /\ r[2] = <<>>
    <3>1. <<>> \in Seq(Bytes)
      OBVIOUS
    <3> QED
      BY <3>1 DEF Tagging
  <2>2. TagsAfter(r, e) = r
    BY <1>1, TagCommands DEF TagsAfter
  <2> HIDE DEF r
  <2>3. h \in [0..1 -> Tagging] /\ h[0] = r /\ h[1] = r
    BY <2>1
  <2> HIDE DEF h
  <2>4. \A i \in 1..1 : h[i] = TagsAfter(h[i - 1], s[i])
    <3>1. \A i \in 1..1 : i = 1 /\ i - 1 = 0
      OBVIOUS
    <3> QED
      BY <1>2, <2>2, <2>3, <3>1
  <2>5. FollowsTags(h, s, r)
    BY <1>2, <2>3, <2>4 DEF FollowsTags, Tagging, r
  <2> QED
    BY <2>5 DEF Tagged, r
<1>8. ComesTo(s, z, <<>>)
  BY <1>2, <1>6, <1>7 DEF ComesTo, e
<1> QED
  BY <1>8 DEF s, e

-----------------------------------------------------------------------------
\* What is too long.
LEMMA ConcatFacts ==
  ASSUME NEW S, NEW s \in Seq(S), NEW t \in Seq(S)
  PROVE  /\ s \o t \in Seq(S) /\ Len(s) \in Nat /\ Len(t) \in Nat
         /\ Len(s \o t) = Len(s) + Len(t)
         /\ \A i \in 1..Len(s) : i \in 1..Len(s \o t) /\ (s \o t)[i] = s[i]
         /\ \A i \in 1..Len(t) : Len(s) + i \in 1..Len(s \o t) /\ (s \o t)[Len(s) + i] = t[i]
         /\ \A k \in 1..Len(s \o t) : k \in 1..Len(s) \/ \E i \in 1..Len(t) : k = Len(s) + i
<1> DEFINE m == Len(s)
           n == Len(t)
           u == s \o t
<1>1. m \in Nat /\ n \in Nat
  BY LenProperties
<1>2. /\ u \in Seq(S) /\ Len(u) = m + n
      /\ \A i \in 1..(m + n) : u[i] = IF i <= m THEN s[i] ELSE t[i - m]
  BY ConcatProperties
<1> HIDE DEF m, n, u
<1>3. ASSUME NEW i \in 1..m PROVE i \in 1..Len(u) /\ u[i] = s[i]
  BY <1>1, <1>2
<1>4. ASSUME NEW i \in 1..n PROVE m + i \in 1..Len(u) /\ u[m + i] = t[i]
  <2>1. m + i \in 1..(m + n) /\ ~(m + i <= m) /\ (m + i) - m = i
    BY <1>1
  <2> QED
    BY <1>2, <2>1
<1>5. ASSUME NEW k \in 1..Len(u) PROVE k \in 1..m \/ \E i \in 1..n : k = m + i
  <2>1. k \in 1..m \/ (k - m \in 1..n /\ k = m + (k - m))
    BY <1>1, <1>2
  <2> QED
    BY <2>1
<1> QED
  BY <1>1, <1>2, <1>3, <1>4, <1>5 DEF m, n, u

LEMMA TailFacts ==
  ASSUME NEW S, NEW t \in Seq(S), t # <<>>
  PROVE  /\ Tail(t) \in Seq(S) /\ Head(t) = t[1] /\ 1 \in 1..Len(t)
         /\ \A i \in 1..Len(Tail(t)) : i + 1 \in 1..Len(t) /\ Tail(t)[i] = t[i + 1]
         /\ \A k \in 1..Len(t) : k = 1 \/ (k - 1 \in 1..Len(Tail(t)) /\ Tail(t)[k - 1] = t[k])
<1> DEFINE u == Tail(t)
           n == Len(t)
<1>1. /\ u \in Seq(S) /\ Head(t) = t[1] /\ Len(u) = n - 1 /\ n \in Nat /\ n >= 1
      /\ \A i \in 1..Len(u) : u[i] = t[i + 1]
  BY HeadTailProperties, LenProperties, EmptySeq
<1> HIDE DEF u, n
<1>2. ASSUME NEW i \in 1..Len(u) PROVE i + 1 \in 1..n /\ u[i] = t[i + 1]
  BY <1>1
<1>3. ASSUME NEW k \in 1..n PROVE k = 1 \/ (k - 1 \in 1..Len(u) /\ u[k - 1] = t[k])
  <2>1. k = 1 \/ (k - 1 \in 1..Len(u) /\ (k - 1) + 1 = k)
    BY <1>1
  <2> QED
    BY <1>1, <2>1
<1>4. 1 \in 1..n
  BY <1>1
<1> QED
  BY <1>1, <1>2, <1>3, <1>4 DEF u, n

LEMMA LongConcat ==
  ASSUME NEW s \in Seq(Operation), NEW t \in Seq(Operation)
  PROVE  HasLong(s \o t) <=> HasLong(s) \/ HasLong(t)
<1>1. HasLong(s \o t) => HasLong(s) \/ HasLong(t)
  BY ConcatFacts DEF HasLong
<1>2. HasLong(s) \/ HasLong(t) => HasLong(s \o t)
  BY ConcatFacts DEF HasLong
<1> QED
  BY <1>1, <1>2

LEMMA LongTail ==
  ASSUME NEW t \in Seq(Operation), t # <<>>
  PROVE  HasLong(t) <=> LongOp(Head(t)) \/ HasLong(Tail(t))
<1>1. HasLong(t) => LongOp(Head(t)) \/ HasLong(Tail(t))
  BY TailFacts DEF HasLong
<1>2. LongOp(Head(t)) \/ HasLong(Tail(t)) => HasLong(t)
  BY TailFacts DEF HasLong
<1> QED
  BY <1>1, <1>2

LEMMA LongEventTail ==
  ASSUME NEW es \in Seq(Events), es # <<>>
  PROVE  HasLongEvent(es) <=> LongEvent(Head(es)) \/ HasLongEvent(Tail(es))
<1>1. HasLongEvent(es) => LongEvent(Head(es)) \/ HasLongEvent(Tail(es))
  BY TailFacts DEF HasLongEvent
<1>2. LongEvent(Head(es)) \/ HasLongEvent(Tail(es)) => HasLongEvent(es)
  BY TailFacts DEF HasLongEvent
<1> QED
  BY <1>1, <1>2

LEMMA TooLongMore ==
  ASSUME NEW xs \in Seq(XmlEvents), NEW x \in XmlEvents
  PROVE  TooLongAmong(Append(xs, x)) <=> TooLongAmong(xs) \/ TooLongIn(x)
<1> DEFINE n == Len(xs)
           m == n + 1
           F == Append(xs, x)
<1>1. n \in Nat /\ Len(F) = m /\ F[m] = x /\ \A i \in 1..n : F[i] = xs[i]
  BY OneEventMore
<1> HIDE DEF F
<1>2. m \in 1..m /\ (\A i \in 1..n : i \in 1..m) /\ \A i \in 1..m : i = m \/ i \in 1..n
  BY <1>1
<1> HIDE DEF n, m
<1>3. (\E i \in 1..m : TooLongIn(F[i])) <=> (\E i \in 1..n : TooLongIn(xs[i])) \/ TooLongIn(x)
  BY <1>1, <1>2
<1> QED
  BY <1>1, <1>3 DEF TooLongAmong, F, n

LEMMA NoneLong == ~HasLong(<<>>) /\ ~HasLongEvent(<<>>) /\ ShortOrBehind(<<>>)
<1>1. Len(<<>>) = 0
  OBVIOUS
<1> QED
  BY <1>1 DEF HasLong, HasLongEvent, ShortOrBehind

\* A name waits behind its bytes.
LEMMA BehindConcat ==
  ASSUME NEW s \in Seq(Operation), NEW t \in Seq(Operation), ShortOrBehind(s), ShortOrBehind(t)
  PROVE  ShortOrBehind(s \o t)
<1> DEFINE u == s \o t
           m == Len(s)
           M == MAX_UNSIGNED_SHORT
<1>1. /\ m \in Nat /\ (\A i \in 1..m : u[i] = s[i]) /\ (\A i \in 1..Len(t) : u[m + i] = t[i])
      /\ \A k \in 1..Len(u) : k \in 1..m \/ \E i \in 1..Len(t) : k = m + i
  BY ConcatFacts
<1> HIDE DEF u, M
<1>2. ASSUME NEW k \in 1..Len(u), u[k].op = "cache", Len(u[k].bytes) > M
      PROVE  \E j \in 1..(k - 1) : u[j].op = "blob" /\ Len(u[j].bytes) > M
  <2>1. CASE k \in 1..m
    <3>1. u[k] = s[k]
      BY <1>1, <2>1
    <3>2. PICK j \in 1..(k - 1) : s[j].op = "blob" /\ Len(s[j].bytes) > M
      BY <1>2, <2>1, <3>1 DEF ShortOrBehind, M
    <3>3. j \in 1..m
      BY <1>1, <2>1
    <3> QED
      BY <1>1, <3>2, <3>3
  <2>2. ASSUME NEW i \in 1..Len(t), k = m + i
        PROVE  \E j \in 1..(k - 1) : u[j].op = "blob" /\ Len(u[j].bytes) > M
    <3>1. u[k] = t[i]
      BY <1>1, <2>2
    <3>2. PICK j \in 1..(i - 1) : t[j].op = "blob" /\ Len(t[j].bytes) > M
      BY <1>2, <3>1 DEF ShortOrBehind, M
    <3>3. j \in 1..Len(t) /\ m + j \in 1..(k - 1)
      <4>1. Len(t) \in Nat
        BY LenProperties
      <4> HIDE DEF m
      <4> QED
        BY <1>1, <2>2, <4>1
    <3> QED
      BY <1>1, <3>2, <3>3
  <2> QED
    BY <1>1, <2>1, <2>2
<1> QED
  BY <1>2 DEF ShortOrBehind, u, M

LEMMA BehindTail ==
  ASSUME NEW t \in Seq(Operation), t # <<>>, ShortOrBehind(t),
         ~(t[1].op = "blob" /\ Len(t[1].bytes) > MAX_UNSIGNED_SHORT)
  PROVE  ShortOrBehind(Tail(t))
<1> DEFINE u == Tail(t)
           M == MAX_UNSIGNED_SHORT
<1>1. /\ \A i \in 1..Len(u) : i + 1 \in 1..Len(t) /\ u[i] = t[i + 1]
      /\ \A k \in 1..Len(t) : k = 1 \/ (k - 1 \in 1..Len(u) /\ u[k - 1] = t[k])
  BY TailFacts
<1> HIDE DEF u
<1>2. ASSUME NEW k \in 1..Len(u), u[k].op = "cache", Len(u[k].bytes) > M
      PROVE  \E j \in 1..(k - 1) : u[j].op = "blob" /\ Len(u[j].bytes) > M
  <2> HIDE DEF M
  <2>1. k + 1 \in 1..Len(t) /\ u[k] = t[k + 1]
    BY <1>1
  <2>2. PICK j \in 1..((k + 1) - 1) : t[j].op = "blob" /\ Len(t[j].bytes) > M
    BY <1>2, <2>1 DEF ShortOrBehind, M
  <2>3. j # 1
    BY <2>2 DEF M
  <2>4. j \in 1..Len(t) /\ j - 1 \in 1..(k - 1)
    BY <2>1, <2>3
  <2>5. u[j - 1] = t[j]
    BY <1>1, <2>3, <2>4
  <2> QED
    BY <2>2, <2>4, <2>5
<1> QED
  BY <1>2 DEF ShortOrBehind, u

LEMMA NoCacheBehind ==
  ASSUME NEW s, NoCache(s)
  PROVE  ShortOrBehind(s)
BY DEF NoCache, ShortOrBehind

\* Which operations can be too long.
LEMMA LongOps ==
  ASSUME NEW s
  PROVE  /\ ~LongOp(Raw(s)) /\ ~LongOp(Cache(s))
         /\ LongOp(Name(s)) <=> Len(s) > MAX_UNSIGNED_SHORT
         /\ LongOp(Blob(s)) <=> Len(s) > MAX_UNSIGNED_SHORT
BY DEF LongOp, Raw, Cache, Name, Blob

LEMMA LongAttributeOp ==
  ASSUME NEW a
  PROVE  LongOp(AttributeOp(a)) <=> LongAttribute(a)
BY DEF LongOp, AttributeOp

LEMMA LongOfTwo ==
  ASSUME NEW x, NEW y
  PROVE  HasLong(<<x, y>>) <=> LongOp(x) \/ LongOp(y)
<1> DEFINE s == <<x, y>>
<1>1. Len(s) = 2 /\ s[1] = x /\ s[2] = y
  OBVIOUS
<1> HIDE DEF s
<1>2. 1..Len(s) = {1, 2}
  BY <1>1
<1> QED
  BY <1>1, <1>2 DEF HasLong, s

LEMMA LongOfOne ==
  ASSUME NEW x
  PROVE  HasLong(<<x>>) <=> LongOp(x)
<1> DEFINE s == <<x>>
<1>1. Len(s) = 1 /\ s[1] = x
  OBVIOUS
<1> HIDE DEF s
<1>2. 1..Len(s) = {1}
  BY <1>1
<1> QED
  BY <1>1, <1>2 DEF HasLong, s

\* write_attribute writes what is too long of the attribute, if anything is.
LEMMA AttributeOpsLong ==
  ASSUME NEW a \in Attribute
  PROVE  HasLong(AttributeOps(a)) <=> LongAttribute(a)
<1> DEFINE x == Raw(<<a.type + CMD_ATTRIBUTE>>)
           s == <<x, Name(a.name)>>
<1>1. a.type \in ValueTypes /\ a.name \in Bytes /\ a.value \in Bytes
  BY DEF Attribute
<1>2. <<a.type + CMD_ATTRIBUTE>> \in Bytes
  BY <1>1, TokenBytes, OneByte
<1>3. /\ x \in Operation /\ Name(a.name) \in Operation
      /\ Raw(a.value) \in Operation /\ Blob(a.value) \in Operation
  BY <1>1, <1>2, OperationTypes
<1>4. ~LongOp(x)
  BY LongOps
<1> HIDE DEF x
<1>5. s \in Seq(Operation)
  BY <1>3
<1>6. HasLong(s) <=> Len(a.name) > MAX_UNSIGNED_SHORT
  BY <1>4, LongOfTwo, LongOps
<1>7. AttributeOps(a) = s \o (IF a.type \in NoBytesTypes THEN <<>>
                             ELSE IF a.type \in BlobTypes \cup {TYPE_STRING} THEN <<Blob(a.value)>>
                             ELSE <<Raw(a.value)>>)
  BY DEF AttributeOps, x
<1> HIDE DEF s
<1>8. CASE a.type \in NoBytesTypes
  <2>1. AttributeOps(a) = s
    BY <1>5, <1>7, <1>8, ConcatEmptySeq
  <2>2. a.type \notin BlobTypes \cup {TYPE_STRING}
    BY <1>8 DEF NoBytesTypes, BlobTypes, TYPE_STRING, TYPE_NULL, TYPE_BOOLEAN_TRUE,
                TYPE_BOOLEAN_FALSE, TYPE_BYTES_HEX, TYPE_BYTES_BASE64
  <2> QED
    BY <1>6, <2>1, <2>2 DEF LongAttribute
<1>9. CASE a.type \notin NoBytesTypes /\ a.type \in BlobTypes \cup {TYPE_STRING}
  <2> DEFINE u == <<Blob(a.value)>>
  <2>1. AttributeOps(a) = s \o u
    BY <1>7, <1>9
  <2>2. u \in Seq(Operation)
    BY <1>3
  <2>4. HasLong(u) <=> Len(a.value) > MAX_UNSIGNED_SHORT
    BY LongOfOne, LongOps
  <2> HIDE DEF u
  <2>3. HasLong(AttributeOps(a)) <=> HasLong(s) \/ HasLong(u)
    BY <1>5, <2>1, <2>2, LongConcat
  <2> QED
    BY <1>6, <1>9, <2>3, <2>4 DEF LongAttribute
<1>10. CASE a.type \notin NoBytesTypes /\ a.type \notin BlobTypes \cup {TYPE_STRING}
  <2> DEFINE u == <<Raw(a.value)>>
  <2>1. AttributeOps(a) = s \o u
    BY <1>7, <1>10
  <2>2. u \in Seq(Operation)
    BY <1>3
  <2>4. ~HasLong(u)
    BY LongOfOne, LongOps
  <2> HIDE DEF u
  <2>3. HasLong(AttributeOps(a)) <=> HasLong(s) \/ HasLong(u)
    BY <1>5, <2>1, <2>2, LongConcat
  <2> QED
    BY <1>6, <1>10, <2>3, <2>4 DEF LongAttribute
<1> QED
  BY <1>8, <1>9, <1>10

\* The empty text, and no attributes.
LEMMA NoAttributes ==
  ASSUME NEW e, e.attributes = <<>>
  PROVE  LongEvent(e) <=> Len(e.text) > MAX_UNSIGNED_SHORT
<1>1. Len(e.attributes) = 0
  OBVIOUS
<1> QED
  BY <1>1 DEF LongEvent

\* A call of write_event writes what is too long of the event, if anything is.
LEMMA EventOpsLong ==
  ASSUME NEW e \in Events
  PROVE  /\ EventOps(e) \in Seq(Operation) /\ ShortOrBehind(EventOps(e))
         /\ HasLong(EventOps(e)) <=> LongEvent(e)
<1>1. /\ e \in AnyEvent /\ WellTyped(e)
      /\ e.command \in CMD_START_DOCUMENT..CMD_DOCDECL
      /\ e.text \in Bytes /\ e.attributes \in Seq(Attribute)
  BY EventsFacts DEF AnyEvent
<1>2. EventOps(e) \in Seq(Operation) /\ ShortOrBehind(EventOps(e))
  BY <1>1, EventOpsType, NoCacheBehind
<1>3. CASE e.command = CMD_START_TAG
  <2> DEFINE n == Len(e.attributes)
             x == Raw(<<TYPE_STRING_INTERNED + CMD_START_TAG>>)
             h == <<x, Name(e.text)>>
             as == [i \in 1..n |-> AttributeOp(e.attributes[i])]
  <2>1. n \in Nat /\ DOMAIN e.attributes = 1..n
    BY <1>1, LenProperties
  <2>2. EventOps(e) = h \o as
    BY <1>3, <2>1, CommandsDiffer DEF EventOps, StartTagOps
  <2>3. x \in Operation /\ Name(e.text) \in Operation /\ ~LongOp(x)
    <3>1. <<TYPE_STRING_INTERNED + CMD_START_TAG>> \in Bytes
      BY TokenBytes, OneByte
    <3> QED
      BY <1>1, <3>1, OperationTypes, LongOps
  <2> HIDE DEF x
  <2>4. h \in Seq(Operation) /\ (HasLong(h) <=> Len(e.text) > MAX_UNSIGNED_SHORT)
    BY <2>3, LongOfTwo, LongOps
  <2>5. \A i \in 1..n : e.attributes[i] \in Attribute
    BY <1>1, ElementOfSeq
  <2>6. as \in Seq(Operation) /\ Len(as) = n /\ \A i \in 1..n : as[i] = AttributeOp(e.attributes[i])
    <3>1. \A a \in Attribute : AttributeOp(a) \in Operation
      BY DEF AttributeOp, Operation
    <3> HIDE DEF n
    <3>2. as \in [1..n -> Operation]
      BY <2>5, <3>1
    <3>3. DOMAIN as = 1..n /\ \A i \in 1..n : as[i] = AttributeOp(e.attributes[i])
      OBVIOUS
    <3> HIDE DEF as
    <3>4. as \in Seq(Operation) /\ Len(as) = n
      BY <2>1, <3>2, FunctionIsSeq
    <3> QED
      BY <3>3, <3>4
  <2> HIDE DEF h, as, n
  <2>7. HasLong(as) <=> \E i \in 1..n : LongAttribute(e.attributes[i])
    BY <2>6, LongAttributeOp DEF HasLong
  <2>8. HasLong(EventOps(e)) <=> HasLong(h) \/ HasLong(as)
    BY <2>2, <2>4, <2>6, LongConcat
  <2>9. LongEvent(e) <=> Len(e.text) > MAX_UNSIGNED_SHORT \/ \E i \in 1..n : LongAttribute(e.attributes[i])
    BY DEF LongEvent, n
  <2> QED
    BY <1>2, <2>4, <2>7, <2>8, <2>9
<1>4. CASE e.command # CMD_START_TAG
  <2>1. e.attributes = <<>>
    BY <1>1, <1>4 DEF WellTyped
  <2>2. LongEvent(e) <=> Len(e.text) > MAX_UNSIGNED_SHORT
    BY <2>1, NoAttributes
  <2>3. CASE e.command = CMD_END_TAG
    <3>1. EventOps(e) = <<Raw(<<TYPE_STRING_INTERNED + CMD_END_TAG>>), Name(e.text)>>
      BY <1>4, <2>3, CommandsDiffer DEF EventOps, EndTagOps
    <3>2. HasLong(EventOps(e)) <=> Len(e.text) > MAX_UNSIGNED_SHORT
      BY <3>1, LongOfTwo, LongOps
    <3> QED
      BY <1>2, <2>2, <3>2
  <2>4. CASE e.command \in TextCommands
    <3>1. e.command # CMD_END_TAG
      BY <2>4 DEF TextCommands, CMD_TEXT, CMD_DOCDECL, CMD_END_TAG
    <3>2. EventOps(e) = <<Raw(<<TYPE_STRING + e.command>>), Blob(e.text)>>
      BY <1>4, <2>4, <3>1 DEF EventOps, TextOps
    <3>3. HasLong(EventOps(e)) <=> Len(e.text) > MAX_UNSIGNED_SHORT
      BY <3>2, LongOfTwo, LongOps
    <3> QED
      BY <1>2, <2>2, <3>3
  <2>5. CASE e.command # CMD_END_TAG /\ e.command \notin TextCommands
    <3>1. EventOps(e) = <<Raw(<<e.command + TYPE_NULL>>)>>
      BY <1>4, <2>5 DEF EventOps, DocumentOps
    <3>2. ~HasLong(EventOps(e))
      BY <3>1, LongOfOne, LongOps
    <3>3. e.command \in {CMD_START_DOCUMENT, CMD_END_DOCUMENT}
      BY <1>1, <1>4, <2>5 DEF TextCommands, CMD_START_DOCUMENT, CMD_END_DOCUMENT, CMD_START_TAG,
                              CMD_END_TAG, CMD_TEXT, CMD_DOCDECL
    <3>4. e.text = <<>> /\ Len(<<>>) = 0
      BY <1>1, <3>3 DEF WellTyped
    <3>5. ~(Len(e.text) > MAX_UNSIGNED_SHORT)
      <4>1. MAX_UNSIGNED_SHORT \in Nat
        BY FieldBytes
      <4> QED
        BY <3>4, <4>1
    <3> QED
      BY <1>2, <2>2, <3>2, <3>5
  <2> QED
    BY <2>3, <2>4, <2>5
<1> QED
  BY <1>3, <1>4

\* What becomes of an event of the XML is too long where the event is.
LEMMA TranslationLong ==
  ASSUME NEW x \in XmlEvents
  PROVE  /\ Translation(x) \in Seq(Events)
         /\ HasLongEvent(Translation(x)) <=> TooLongIn(x)
<1> DEFINE M == MAX_UNSIGNED_SHORT
           t == Translation(x)
           as == x.attributes
<1>1. /\ x.kind \in XmlKinds /\ as \in Seq([name : Bytes, value : Bytes])
      /\ x.kind \notin {"Start", "Empty"} => as = <<>>
      /\ \A i \in 1..Len(t) : t[i] \in Events
  BY XmlEventType
<1> HIDE DEF M
<1>2. as = <<>> => (TooLongIn(x) <=> x.kind # "Decl" /\ Len(x.text) > M)
  BY DEF TooLongIn, M
<1>3. ASSUME NEW e, t = <<e>>
      PROVE  t \in Seq(Events) /\ (HasLongEvent(t) <=> LongEvent(e))
  <2>1. Len(t) = 1 /\ t[1] = e
    BY <1>3
  <2>2. e \in Events
    BY <1>1, <2>1
  <2>3. 1..Len(t) = {1}
    BY <2>1
  <2> HIDE DEF t
  <2>4. t \in Seq(Events)
    BY <1>3, <2>2
  <2> QED
    BY <2>1, <2>3, <2>4 DEF HasLongEvent
<1>4. ASSUME NEW e, NEW f, t = <<e, f>>
      PROVE  t \in Seq(Events) /\ (HasLongEvent(t) <=> LongEvent(e) \/ LongEvent(f))
  <2>1. Len(t) = 2 /\ t[1] = e /\ t[2] = f
    BY <1>4
  <2>2. e \in Events /\ f \in Events
    BY <1>1, <2>1
  <2>3. 1..Len(t) = {1, 2}
    BY <2>1
  <2> HIDE DEF t
  <2>4. t \in Seq(Events)
    BY <1>4, <2>2
  <2> QED
    BY <2>1, <2>3, <2>4 DEF HasLongEvent
<1> HIDE DEF t
<1>5. LongEvent(Ended(x)) <=> Len(x.text) > M
  BY EndedIs, NoAttributes DEF M
<1>6. CASE x.kind \in {"Start", "Empty"}
  <2>1. Started(x).text = x.text /\ Started(x).attributes = Strings(as)
    BY StartedSays
  <2>2. /\ Len(as) \in Nat /\ DOMAIN as = 1..Len(as) /\ Len(Strings(as)) = Len(as)
        /\ \A i \in 1..Len(as) : /\ Strings(as)[i].name = as[i].name
                                 /\ Strings(as)[i].type = TYPE_STRING
                                 /\ Strings(as)[i].value = as[i].value
    BY <1>1, StringsAre
  <2> HIDE DEF as
  <2>3. \A i \in 1..Len(as) :
          LongAttribute(Strings(as)[i]) <=> Len(as[i].name) > M \/ Len(as[i].value) > M
    BY <2>2 DEF LongAttribute, M
  <2>4. LongEvent(Started(x)) <=>
          \/ Len(x.text) > M
          \/ \E i \in 1..Len(as) : Len(as[i].name) > M \/ Len(as[i].value) > M
    BY <2>1, <2>2, <2>3 DEF LongEvent, M
  <2>5. TooLongIn(x) <=>
          \/ Len(x.text) > M
          \/ \E i \in 1..Len(as) : Len(as[i].name) > M \/ Len(as[i].value) > M
    BY <1>6, <2>2 DEF TooLongIn, as, M
  <2>6. CASE x.kind = "Start"
    <3>1. t = <<Started(x)>>
      BY <2>6, TranslationIs DEF t
    <3>2. t \in Seq(Events) /\ (HasLongEvent(t) <=> LongEvent(Started(x)))
      BY <1>3, <3>1
    <3> QED
      BY <2>4, <2>5, <3>2 DEF t
  <2>7. CASE x.kind = "Empty"
    <3>1. t = <<Started(x), Ended(x)>>
      BY <2>7, TranslationIs DEF t
    <3>2. t \in Seq(Events) /\ (HasLongEvent(t) <=> LongEvent(Started(x)) \/ LongEvent(Ended(x)))
      BY <1>4, <3>1
    <3> QED
      BY <1>5, <2>4, <2>5, <3>2 DEF t
  <2> QED
    BY <1>6, <2>6, <2>7
<1>7. CASE x.kind = "End"
  <2>1. t = <<Ended(x)>>
    BY <1>7, TranslationIs DEF t
  <2>2. t \in Seq(Events) /\ (HasLongEvent(t) <=> LongEvent(Ended(x)))
    BY <1>3, <2>1
  <2> QED
    BY <1>1, <1>2, <1>5, <1>7, <2>2 DEF t
<1>8. CASE x.kind = "Decl"
  <2>1. t = <<>>
    BY <1>8, TranslationIs DEF t
  <2>2. t \in Seq(Events) /\ ~HasLongEvent(t)
    BY <2>1, NoneLong
  <2> QED
    BY <1>1, <1>2, <1>8, <2>2 DEF t
<1>9. CASE x.kind \notin {"Start", "Empty", "End", "Decl"}
  <2>1. t = <<Texted(x)>>
    BY <1>9, TranslationIs DEF t
  <2>2. t \in Seq(Events) /\ (HasLongEvent(t) <=> LongEvent(Texted(x)))
    BY <1>3, <2>1
  <2>3. LongEvent(Texted(x)) <=> Len(x.text) > M
    BY <1>9, TextedSays, NoAttributes DEF M
  <2> QED
    BY <1>1, <1>2, <1>9, <2>2, <2>3 DEF t
<1> QED
  BY <1>6, <1>7, <1>8, <1>9

\* Neither end of a document is too long.
LEMMA DocumentsShort ==
  ~LongEvent(Document(CMD_START_DOCUMENT)) /\ ~LongEvent(Document(CMD_END_DOCUMENT))
<1>1. ASSUME NEW c PROVE ~LongEvent(Document(c))
  <2>1. Document(c).text = <<>> /\ Document(c).attributes = <<>> /\ Len(<<>>) = 0
    BY AnEventFields DEF Document
  <2>2. MAX_UNSIGNED_SHORT \in Nat
    BY FieldBytes
  <2>3. LongEvent(Document(c)) <=> Len(Document(c).text) > MAX_UNSIGNED_SHORT
    BY <2>1, NoAttributes
  <2> QED
    BY <2>1, <2>2, <2>3
<1> QED
  BY <1>1

LEMMA OneLongEvent ==
  ASSUME NEW e
  PROVE  HasLongEvent(<<e>>) <=> LongEvent(e)
<1> DEFINE s == <<e>>
<1>1. Len(s) = 1 /\ s[1] = e
  OBVIOUS
<1> HIDE DEF s
<1>2. 1..Len(s) = {1}
  BY <1>1
<1> QED
  BY <1>1, <1>2 DEF HasLongEvent, s

-----------------------------------------------------------------------------
\* The writer carries out an operation, or replaces it by others, as long as it is.
LEMMA LongExpand ==
  ASSUME IInv, LongInv, todo # <<>>, NEW s \in Seq(Operation), ShortOrBehind(s),
         HasLong(s) <=> LongOp(Head(todo)),
         ~(todo[1].op = "blob" /\ Len(todo[1].bytes) > MAX_UNSIGNED_SHORT),
         todo' = s \o Tail(todo), ShortNames(names'),
         UNCHANGED <<spoiled, xml, due>>
  PROVE  LongInv'
<1>1. todo \in Seq(Operation) /\ ShortOrBehind(todo)
  BY DEF IInv, TodoInv, LongInv
<1>2. Tail(todo) \in Seq(Operation)
  BY <1>1, TailFacts
<1>3. ShortOrBehind(Tail(todo))
  BY <1>1, BehindTail
<1>4. ShortOrBehind(s \o Tail(todo))
  BY <1>2, <1>3, BehindConcat
<1>5. HasLong(s \o Tail(todo)) <=> HasLong(s) \/ HasLong(Tail(todo))
  BY <1>2, LongConcat
<1>6. HasLong(todo) <=> LongOp(Head(todo)) \/ HasLong(Tail(todo))
  BY <1>1, LongTail
<1>7. HasLong(todo') <=> HasLong(todo)
  BY <1>5, <1>6
<1>8. ShortOrBehind(todo')
  BY <1>4
<1>9. spoiled' = spoiled /\ xml' = xml /\ due' = due
  OBVIOUS
<1> QED
  BY <1>7, <1>8, <1>9 DEF LongInv

\* The next operation is done.
LEMMA LongDone ==
  ASSUME IInv, LongInv, todo # <<>>, Head(todo).op \in {"raw", "cache"},
         todo' = Tail(todo), ShortNames(names'), UNCHANGED <<spoiled, xml, due>>
  PROVE  LongInv'
<1> DEFINE s == <<>>
<1>1. todo \in Seq(Operation) /\ Head(todo) = todo[1] /\ Tail(todo) \in Seq(Operation)
  BY TailFacts DEF IInv, TodoInv
<1>2. ~LongOp(Head(todo)) /\ todo[1].op # "blob"
  BY <1>1 DEF LongOp
<1>3. s \in Seq(Operation) /\ ShortOrBehind(s) /\ ~HasLong(s)
  BY NoneLong
<1>4. todo' = s \o Tail(todo)
  BY <1>1, ConcatEmptySeq
<1> HIDE DEF s
<1> QED
  BY <1>2, <1>3, <1>4, LongExpand

LEMMA RawLong ==
  ASSUME IInv, LongInv, DoRaw, UNCHANGED xmlVars
  PROVE  LongInv'
<1>1. /\ todo # <<>> /\ Head(todo).op = "raw" /\ todo' = Tail(todo) /\ names' = names
      /\ UNCHANGED <<spoiled, xml, due>>
  BY DEF DoRaw, Doing, xmlVars
<1>2. ShortNames(names')
  BY <1>1 DEF LongInv
<1> QED
  BY <1>1, <1>2, LongDone

LEMMA AttributeLong ==
  ASSUME IInv, LongInv, DoAttribute, UNCHANGED xmlVars
  PROVE  LongInv'
<1> DEFINE a == Head(todo).attribute
           s == AttributeOps(a)
<1>1. /\ Doing("attribute") /\ todo # <<>> /\ todo' = s \o Tail(todo) /\ names' = names
      /\ UNCHANGED <<spoiled, xml, due>>
  BY DEF DoAttribute, Doing, xmlVars
<1>2. todo[1].op = "attribute" /\ todo[1] \in Operation /\ Head(todo) = todo[1]
  BY <1>1, OperandType DEF IInv
<1>3. a \in Attribute
  BY <1>2, OperationFields
<1>4. s \in Seq(Operation) /\ ShortOrBehind(s)
  BY <1>3, AttributeOpsType, NoCacheBehind
<1>5. HasLong(s) <=> LongAttribute(a)
  BY <1>3, AttributeOpsLong
<1>6. LongOp(Head(todo)) <=> LongAttribute(a)
  BY <1>2 DEF LongOp
<1>7. ShortNames(names')
  BY <1>1 DEF LongInv
<1> HIDE DEF s, a
<1> QED
  BY <1>1, <1>2, <1>4, <1>5, <1>6, <1>7, LongExpand

\* A name that is too long is in no pool, and goes out in full.
LEMMA NameLong ==
  ASSUME IInv, LongInv, DoName, UNCHANGED xmlVars
  PROVE  LongInv'
<1>1. /\ Doing("name") /\ todo # <<>> /\ names' = names /\ UNCHANGED <<spoiled, xml, due>>
  BY DEF DoName, Doing, xmlVars
<1>2. todo[1].op = "name" /\ Head(todo) = todo[1] /\ Operand \in Bytes
  BY <1>1, OperandType DEF IInv
<1>3. LongOp(Head(todo)) <=> Len(Operand) > MAX_UNSIGNED_SHORT
  BY <1>2 DEF LongOp, Operand
<1>4. ShortNames(names')
  BY <1>1 DEF LongInv
<1>5. CASE Found(Operand) # {}
  <2>1. PICK i \in Found(Operand) : todo' = <<Raw(U16Bytes(i))>> \o Tail(todo)
    BY <1>5 DEF DoName
  <2>2. PICK j \in 1..Len(names) : names[j] = Operand
    BY FoundAt
  <2>3. ~(Len(Operand) > MAX_UNSIGNED_SHORT)
    <3>1. Len(Operand) <= MAX_UNSIGNED_SHORT
      BY <2>2 DEF LongInv, ShortNames
    <3>2. Len(Operand) \in Nat /\ MAX_UNSIGNED_SHORT \in Nat
      BY <1>2, LenProperties, FieldBytes DEF Bytes
    <3> QED
      BY <3>1, <3>2
  <2>4. Raw(U16Bytes(i)) \in Operation /\ Raw(U16Bytes(i)).op = "raw" /\ ~LongOp(Raw(U16Bytes(i)))
    <3>1. Found(Operand) \subseteq Nat
      BY FoundType DEF IInv
    <3> QED
      BY <3>1, FieldBytes, OperationTypes, LongOps
  <2> DEFINE x == Raw(U16Bytes(i))
             s == <<x>>
  <2> HIDE DEF x
  <2>5. s \in Seq(Operation) /\ NoCache(s)
    BY <2>4 DEF NoCache, x
  <2>6. ~HasLong(s)
    BY <2>4, LongOfOne DEF x
  <2>7. todo' = s \o Tail(todo)
    BY <2>1 DEF x
  <2>8. ShortOrBehind(s)
    BY <2>5, NoCacheBehind
  <2> HIDE DEF s
  <2> QED
    BY <1>1, <1>2, <1>3, <1>4, <2>3, <2>5, <2>6, <2>7, <2>8, LongExpand
<1>6. CASE Found(Operand) = {}
  <2> DEFINE x == Raw(U16Bytes(INTERNED_NEW))
             y == Blob(Operand)
             z == Cache(Operand)
             s == <<x, y, z>>
  <2>1. todo' = s \o Tail(todo)
    BY <1>6 DEF DoName
  <2>2. /\ x \in Operation /\ y \in Operation /\ z \in Operation
        /\ x.op = "raw" /\ y.op = "blob" /\ z.op = "cache"
    BY <1>2, FieldBytes, OperationTypes
  <2>3. y.bytes = Operand /\ z.bytes = Operand
    BY DEF Blob, Cache
  <2>4. ~LongOp(x) /\ ~LongOp(z) /\ (LongOp(y) <=> Len(Operand) > MAX_UNSIGNED_SHORT)
    BY LongOps
  <2> HIDE DEF x, y, z
  <2>5. s \in Seq(Operation) /\ Len(s) = 3 /\ s[1] = x /\ s[2] = y /\ s[3] = z
    BY <2>2
  <2>6. 1..3 = {1, 2, 3} /\ 2 \in 1..(3 - 1)
    OBVIOUS
  <2> HIDE DEF s
  <2>7. HasLong(s) <=> LongOp(y)
    BY <2>4, <2>5, <2>6 DEF HasLong
  <2>8. ShortOrBehind(s)
    BY <2>2, <2>3, <2>5, <2>6 DEF ShortOrBehind
  <2> QED
    BY <1>1, <1>2, <1>3, <1>4, <2>1, <2>4, <2>5, <2>7, <2>8, LongExpand
<1> QED
  BY <1>5, <1>6

LEMMA BlobLong ==
  ASSUME IInv, LongInv, DoBlob, UNCHANGED xmlVars
  PROVE  LongInv'
<1>1. /\ Doing("blob") /\ todo # <<>> /\ names' = names /\ UNCHANGED <<spoiled, xml, due>>
      /\ Len(Operand) <= MAX_UNSIGNED_SHORT
  BY DEF DoBlob, Doing, xmlVars
<1>2. todo[1].op = "blob" /\ Head(todo) = todo[1] /\ Operand \in Bytes
  BY <1>1, OperandType DEF IInv
<1>3. Len(Operand) \in Nat /\ MAX_UNSIGNED_SHORT \in Nat /\ U16Bytes(Len(Operand)) \in Bytes
  BY <1>2, LenProperties, FieldBytes DEF Bytes
<1>4. ~(Len(Operand) > MAX_UNSIGNED_SHORT)
  BY <1>1, <1>3
<1>5. ~LongOp(Head(todo)) /\ ~(todo[1].op = "blob" /\ Len(todo[1].bytes) > MAX_UNSIGNED_SHORT)
  BY <1>2, <1>4 DEF LongOp, Operand
<1> DEFINE x == Raw(U16Bytes(Len(Operand)))
           y == Raw(Operand)
           s == <<x, y>>
<1>6. x \in Operation /\ y \in Operation /\ x.op = "raw" /\ y.op = "raw" /\ ~LongOp(x) /\ ~LongOp(y)
  BY <1>2, <1>3, OperationTypes, LongOps
<1>7. todo' = s \o Tail(todo)
  BY DEF DoBlob
<1> HIDE DEF x, y
<1>8. s \in Seq(Operation) /\ NoCache(s)
  BY <1>6 DEF NoCache
<1>9. ~HasLong(s)
  BY <1>6, LongOfTwo
<1>10. ShortOrBehind(s)
  BY <1>8, NoCacheBehind
<1>11. ShortNames(names')
  BY <1>1 DEF LongInv
<1> HIDE DEF s
<1> QED
  BY <1>1, <1>5, <1>7, <1>8, <1>9, <1>10, <1>11, LongExpand

\* A name comes to the pool once its bytes are out, so that it is not too long.
LEMMA CacheLong ==
  ASSUME IInv, LongInv, DoCache, UNCHANGED xmlVars
  PROVE  LongInv'
<1>1. /\ Doing("cache") /\ todo # <<>> /\ Head(todo).op = "cache" /\ todo' = Tail(todo)
      /\ UNCHANGED <<spoiled, xml, due>>
      /\ names' = names \/ names' = Append(names, Operand)
  BY DEF DoCache, Doing, xmlVars
<1>2. todo[1].op = "cache" /\ Head(todo) = todo[1] /\ Operand \in Bytes /\ todo \in Seq(Operation)
  BY <1>1, OperandType DEF IInv
<1>3. Len(Operand) \in Nat /\ MAX_UNSIGNED_SHORT \in Nat
  BY <1>2, LenProperties, FieldBytes DEF Bytes
<1>4. Len(Operand) <= MAX_UNSIGNED_SHORT
  <2>1. 1 \in 1..Len(todo) /\ 1..(1 - 1) = {}
    BY <1>1, <1>2, TailFacts
  <2>2. ~(Len(todo[1].bytes) > MAX_UNSIGNED_SHORT)
    BY <1>2, <2>1 DEF LongInv, ShortOrBehind
  <2> QED
    BY <1>2, <1>3, <2>2 DEF Operand
<1>5. names \in Seq(Bytes) /\ ShortNames(names)
  BY DEF IInv, VarsType, LongInv
<1>6. ShortNames(names')
  <2>1. CASE names' = names
    BY <1>5, <2>1
  <2>2. CASE names' = Append(names, Operand)
    <3> DEFINE n == Len(names)
               m == n + 1
    <3>1. n \in Nat /\ Len(names') = m /\ names'[m] = Operand /\ \A i \in 1..n : names'[i] = names[i]
      BY <1>2, <1>5, <2>2, OneEventMore
    <3>2. \A i \in 1..m : i = m \/ i \in 1..n
      BY <3>1
    <3> HIDE DEF m
    <3> QED
      BY <1>4, <1>5, <3>1, <3>2 DEF ShortNames
  <2> QED
    BY <1>1, <2>1, <2>2
<1> QED
  BY <1>1, <1>6, LongDone

\* The call is given up: what it was about is too long.
LEMMA TooLongLong ==
  ASSUME IInv, LongInv, TooLong, UNCHANGED xmlVars
  PROVE  LongInv'
<1>1. /\ Doing("blob") /\ todo # <<>> /\ names' = names /\ UNCHANGED <<xml, due>>
      /\ Len(Operand) > MAX_UNSIGNED_SHORT /\ todo' = <<>> /\ spoiled' = TRUE
  BY DEF TooLong, Doing, GiveUp, xmlVars
<1>2. todo[1].op = "blob" /\ Head(todo) = todo[1] /\ todo \in Seq(Operation)
  BY <1>1, OperandType DEF IInv
<1>3. LongOp(Head(todo))
  BY <1>1, <1>2 DEF LongOp, Operand
<1>4. HasLong(todo)
  BY <1>1, <1>2, <1>3, LongTail
<1>5. TooLongAmong(xml)
  BY <1>4 DEF LongInv
<1>6. ShortOrBehind(todo') /\ ShortNames(names')
  BY <1>1, NoneLong DEF LongInv
<1> QED
  BY <1>1, <1>5, <1>6 DEF LongInv

-----------------------------------------------------------------------------
\* What has been handed over does not change while the writer goes on.
LEMMA HandedIs ==
  ASSUME IInv, XmlTypes, pc = "idle", current = <<>>
  PROVE  /\ written \in Seq(Events)
         /\ Handed = written \o due
         /\ due = <<>> => Handed = written
<1>1. written \in Seq(Events) /\ due \in Seq(Events)
  BY DEF IInv, VarsType, XmlTypes
<1>2. written \o <<>> = written
  BY <1>1, ConcatEmptySeq
<1> QED
  BY <1>1, <1>2 DEF Handed

\* The writer is between calls and none has failed.
LEMMA Between ==
  ASSUME XInv, pc = "idle", ~spoiled
  PROVE  current = <<>> /\ todo = <<>> /\ ~HasLong(todo)
BY NoneLong DEF XInv, RInv, SoundInv, NothingLeft

LEMMA ReadingComesTo ==
  ASSUME NEW evs, NEW xs, NEW o
  PROVE  Kept(evs, "reading", xs) /\ Tagged(evs, <<TRUE, o>>) <=> ComesTo(evs, xs, o)
BY DEF Kept, ComesTo

LEMMA XmlInitInv == XmlInit => XInv
<1> SUFFICES ASSUME XmlInit PROVE XInv
  OBVIOUS
<1> DEFINE e == Document(CMD_START_DOCUMENT)
           z == <<>>
<1>1. Init /\ status = "reading" /\ xml = z /\ open = z /\ malformed = FALSE /\ due = <<e>>
  BY DEF XmlInit
<1>2. written = z /\ current = z /\ spoiled = FALSE /\ todo = <<Raw(MAGIC)>> /\ names = z /\ pc = "new"
  BY <1>1 DEF Init
<1>3. RInv
  BY <1>1, InitReads
<1>4. e \in Events /\ z \in Seq(XmlEvents) /\ z \in Seq(Bytes) /\ z \in Seq(Events) /\ Len(z) = 0
  BY XmlAssumption
<1>5. ~TooLongAmong(z) /\ ShortNames(z)
  BY <1>4 DEF TooLongAmong, ShortNames
<1> HIDE DEF e
<1>6. <<e>> \in Seq(Events)
  BY <1>4
<1>7. XmlTypes
  BY <1>1, <1>4, <1>6 DEF XmlTypes
<1>8. Control
  BY <1>1 DEF Control
<1>9. ~HasLong(todo) /\ ShortOrBehind(todo)
  <2>1. ~HasLong(<<Raw(MAGIC)>>)
    BY LongOfOne, LongOps
  <2>2. NoCache(<<Raw(MAGIC)>>)
    BY DEF NoCache, Raw
  <2> QED
    BY <1>2, <2>1, <2>2, NoCacheBehind
<1>10. ~HasLongEvent(due)
  BY <1>1, OneLongEvent, DocumentsShort DEF e
<1>11. LongInv
  BY <1>1, <1>2, <1>5, <1>9, <1>10 DEF LongInv
<1>12. HandedInv
  <2>1. z \o <<e>> = <<e>> /\ z \o z = z
    BY <1>4, <1>6, ConcatEmptySeq
  <2>2. Handed = <<e>>
    BY <1>1, <1>2, <2>1 DEF Handed
  <2>3. ComesTo(<<e>>, z, z)
    BY StartDocumentComes DEF e
  <2> HIDE DEF z
  <2>4. Kept(Handed, status, xml) /\ Tagged(Handed, <<TRUE, open>>)
    BY <1>1, <2>2, <2>3, ReadingComesTo
  <2> QED
    BY <2>4 DEF HandedInv
<1> QED
  BY <1>3, <1>7, <1>8, <1>11, <1>12 DEF XInv

LEMMA ReadEventKeeps ==
  ASSUME XInv, NEW x \in XmlEvents, ReadEvent(x)
  PROVE  XInv'
<1> DEFINE t == Translation(x)
<1>1. /\ status = "reading" /\ pc = "idle" /\ due = <<>> /\ ~spoiled
      /\ x.kind = "End" => open # <<>> /\ Last(open) = x.text
      /\ xml' = Append(xml, x) /\ due' = t /\ UNCHANGED <<status, malformed, vars>>
      /\ open' = OpenThen(open, x)
  BY DEF ReadEvent, CanRead, Accepts, OpenThen
<1>2. UNCHANGED <<out, names, index, pc, todo, current, calls, written, spoiled, faults>>
  BY <1>1 DEF vars
<1>3. RInv'
  BY <1>1, NextReads DEF XInv
<1>4. current = <<>> /\ todo = <<>> /\ ~HasLong(todo)
  BY <1>1, Between
<1>5. /\ xml \in Seq(XmlEvents) /\ open \in Seq(Bytes) /\ malformed \in BOOLEAN
      /\ IInv /\ XmlTypes /\ x.text \in Bytes
  BY XmlEventType DEF XInv, XmlTypes, RInv
<1>6. t \in Seq(Events) /\ (HasLongEvent(t) <=> TooLongIn(x))
  BY TranslationLong
<1>7. written \in Seq(Events) /\ Handed = written
  BY <1>1, <1>4, <1>5, HandedIs
<1>8. Handed' = written \o t
  <2>1. written' \o current' = written
    BY <1>2, <1>4, <1>7, ConcatEmptySeq
  <2> QED
    BY <1>1, <2>1 DEF Handed
<1> HIDE DEF t
<1>9. XmlTypes'
  <2>1. Append(xml, x) \in Seq(XmlEvents)
    BY <1>5, OneEventMore
  <2>2. OpenThen(open, x) \in Seq(Bytes)
    <3>1. CASE x.kind = "Start"
      BY <1>5, <3>1, OneEventMore DEF OpenThen
    <3>2. CASE x.kind = "End"
      BY <1>1, <1>5, <3>2, FrontType DEF OpenThen
    <3>3. CASE x.kind \notin {"Start", "End"}
      BY <1>5, <3>3 DEF OpenThen
    <3> QED
      BY <3>1, <3>2, <3>3
  <2> QED
    BY <1>1, <1>5, <1>6, <2>1, <2>2 DEF XmlTypes
<1>10. Control'
  BY <1>1, <1>2 DEF XInv, Control
<1>11. LongInv'
  <2>1. TooLongAmong(xml') <=> TooLongAmong(xml) \/ TooLongIn(x)
    BY <1>1, <1>5, TooLongMore
  <2>2. ~TooLongAmong(xml)
    BY <1>1, <1>4, NoneLong DEF XInv, LongInv
  <2>3. ShortNames(names) /\ ShortOrBehind(todo)
    BY DEF XInv, LongInv
  <2> QED
    BY <1>1, <1>2, <1>4, <1>6, <2>1, <2>2, <2>3 DEF LongInv
<1>12. HandedInv'
  <2>1. Kept(written, "reading", xml) /\ Tagged(written, <<TRUE, open>>)
    BY <1>1, <1>7 DEF XInv, HandedInv
  <2>2. ComesTo(written, xml, open)
    BY <2>1, ReadingComesTo
  <2>3. ComesTo(written \o t, Append(xml, x), OpenThen(open, x))
    BY <1>1, <1>5, <1>7, <2>2, ReadComes DEF t
  <2>4. Kept(Handed', "reading", xml') /\ Tagged(Handed', <<TRUE, open'>>)
    BY <1>1, <1>8, <2>3, ReadingComesTo
  <2> QED
    BY <1>1, <2>4 DEF HandedInv
<1> QED
  BY <1>3, <1>9, <1>10, <1>11, <1>12 DEF XInv

LEMMA ReadEofKeeps ==
  ASSUME XInv, ReadEof
  PROVE  XInv'
<1> DEFINE e == Document(CMD_END_DOCUMENT)
<1>1. /\ status = "reading" /\ pc = "idle" /\ due = <<>> /\ ~spoiled
      /\ status' = "ending" /\ due' = <<e>> /\ UNCHANGED <<xml, open, malformed, vars>>
  BY DEF ReadEof, CanRead
<1>2. UNCHANGED <<out, names, index, pc, todo, current, calls, written, spoiled, faults>>
  BY <1>1 DEF vars
<1>3. RInv'
  BY <1>1, NextReads DEF XInv
<1>4. current = <<>> /\ todo = <<>> /\ ~HasLong(todo)
  BY <1>1, Between
<1>5. e \in Events /\ ~LongEvent(e)
  BY XmlAssumption, DocumentsShort
<1>6. written \in Seq(Events) /\ Handed = written
  <2>1. IInv /\ XmlTypes
    BY DEF XInv, RInv
  <2> QED
    BY <1>1, <1>4, <2>1, HandedIs
<1> HIDE DEF e
<1>7. Handed' = Append(written, e)
  <2>1. written' \o current' = written
    BY <1>2, <1>4, <1>6, ConcatEmptySeq
  <2>2. written \o <<e>> = Append(written, e)
    BY <1>5, <1>6, ConcatFew
  <2> QED
    BY <1>1, <2>1, <2>2 DEF Handed
<1>8. XmlTypes'
  <2>1. <<e>> \in Seq(Events)
    BY <1>5
  <2> QED
    BY <1>1, <2>1 DEF XInv, XmlTypes
<1>9. Control'
  BY <1>1, <1>2 DEF XInv, Control
<1>10. LongInv'
  <2>1. ~TooLongAmong(xml)
    BY <1>1, <1>4, NoneLong DEF XInv, LongInv
  <2>2. ~HasLongEvent(<<e>>)
    BY <1>5, OneLongEvent
  <2>3. ShortNames(names) /\ ShortOrBehind(todo)
    BY DEF XInv, LongInv
  <2> QED
    BY <1>1, <1>2, <1>4, <2>1, <2>2, <2>3 DEF LongInv
<1>11. HandedInv'
  <2>1. Kept(written, "reading", xml) /\ Tagged(written, <<TRUE, open>>)
    BY <1>1, <1>6 DEF XInv, HandedInv
  <2>2. ComesTo(written, xml, open)
    BY <2>1, ReadingComesTo
  <2>3. Kept(Append(written, e), "ending", xml) /\ Tagged(Append(written, e), <<TRUE, open>>)
    BY <1>6, <2>2, EndDocumentComes DEF e
  <2>4. Kept(Handed', status', xml') /\ Tagged(Handed', <<TRUE, open'>>)
    BY <1>1, <1>7, <2>3
  <2> QED
    BY <2>4 DEF HandedInv
<1> QED
  BY <1>3, <1>8, <1>9, <1>10, <1>11 DEF XInv

\* A step of the reader's side that hands nothing over and reads nothing.
LEMMA StatusKeeps ==
  ASSUME XInv, UNCHANGED <<xml, open, due, vars>>, status' \in {"reading", "ending", "ok", "failed"},
         malformed' \in BOOLEAN, Control',
         ~spoiled /\ Kept(Handed, status, xml) => Kept(Handed, status', xml)
  PROVE  XInv'
<1>1. UNCHANGED <<out, names, index, pc, todo, current, calls, written, spoiled, faults, xml, open, due>>
  BY DEF vars
<1>2. RInv'
  BY NextReads DEF XInv
<1>3. Handed' = Handed
  BY <1>1 DEF Handed
<1>4. XmlTypes'
  BY <1>1 DEF XInv, XmlTypes
<1>5. LongInv'
  BY <1>1 DEF XInv, LongInv
<1>6. HandedInv'
  <2>1. ASSUME ~spoiled PROVE Kept(Handed, status', xml) /\ Tagged(Handed, <<TRUE, open>>)
    BY <2>1 DEF XInv, HandedInv
  <2> QED
    BY <1>1, <1>3, <2>1 DEF HandedInv
<1> QED
  BY <1>2, <1>4, <1>5, <1>6 DEF XInv

LEMMA ReadErrorKeeps ==
  ASSUME XInv, ReadError
  PROVE  XInv'
<1>1. /\ ~spoiled /\ status' = "failed" /\ malformed' = TRUE /\ UNCHANGED <<xml, open, due, vars>>
  BY DEF ReadError, CanRead
<1>2. Control'
  BY <1>1 DEF Control
<1>3. Kept(Handed, status', xml)
  BY <1>1 DEF Kept
<1> QED
  BY <1>1, <1>2, <1>3, StatusKeeps

LEMMA WriteErrorKeeps ==
  ASSUME XInv, WriteError
  PROVE  XInv'
<1>1. /\ spoiled /\ status' = "failed" /\ UNCHANGED <<xml, open, malformed, due, vars>>
      /\ malformed \in BOOLEAN
  BY DEF WriteError, XInv, XmlTypes
<1>2. Control'
  BY <1>1 DEF Control, vars
<1> QED
  BY <1>1, <1>2, StatusKeeps

LEMMA HandOverKeeps ==
  ASSUME XInv, HandOver
  PROVE  XInv'
<1>1. /\ status = "ending" /\ pc = "idle" /\ due = <<>> /\ ~spoiled
      /\ status' = "ok" /\ UNCHANGED <<xml, open, malformed, due, vars>> /\ malformed \in BOOLEAN
  BY DEF HandOver, XInv, XmlTypes
<1>2. Control'
  BY <1>1 DEF Control, XInv, vars
<1>3. Kept(Handed, status, xml) => Kept(Handed, status', xml)
  BY <1>1 DEF Kept
<1> QED
  BY <1>1, <1>2, <1>3, StatusKeeps

LEMMA ThreeInARow ==
  ASSUME NEW S, NEW r \in Seq(S), NEW s \in Seq(S), NEW t \in Seq(S)
  PROVE  (r \o s) \o t = r \o (s \o t)
  BY ConcatAssociative

LEMMA HeadFirst ==
  ASSUME NEW S, NEW t \in Seq(S), t # <<>>
  PROVE  Head(t) \in S /\ Tail(t) \in Seq(S) /\ <<Head(t)>> \o Tail(t) = t
<1> DEFINE h == Head(t)
           u == Tail(t)
           c == <<h>>
           v == c \o u
<1>1. /\ h \in S /\ u \in Seq(S) /\ Len(u) = Len(t) - 1 /\ Len(t) \in Nat /\ h = t[1]
      /\ \A i \in 1..Len(u) : u[i] = t[i + 1]
  BY HeadTailProperties, LenProperties
<1> HIDE DEF h, u
<1>2. c \in Seq(S) /\ Len(c) = 1 /\ c[1] = h
  BY <1>1
<1> HIDE DEF c
<1> HIDE DEF v
<1>3. /\ v \in Seq(S) /\ Len(v) = 1 + Len(u)
      /\ \A i \in 1..(1 + Len(u)) : v[i] = IF i <= 1 THEN c[i] ELSE u[i - 1]
  <2>1. u \in Seq(S) /\ c \in Seq(S)
    BY <1>1, <1>2
  <2>2. /\ v \in Seq(S) /\ Len(v) = Len(c) + Len(u)
        /\ \A i \in 1..(Len(c) + Len(u)) : v[i] = IF i <= Len(c) THEN c[i] ELSE u[i - Len(c)]
    BY <2>1, ConcatProperties, Zenon DEF v
  <2> QED
    BY <1>2, <2>2
<1>4. Len(v) = Len(t)
  BY <1>1, <1>3
<1>5. ASSUME NEW i \in 1..Len(v) PROVE v[i] = t[i]
  <2>1. CASE i = 1
    <3>1. 1 <= 1 /\ i \in 1..(1 + Len(u))
      BY <1>3
    <3> QED
      BY <1>1, <1>2, <1>3, <2>1, <3>1
  <2>2. CASE i # 1
    <3>1. ~(i <= 1) /\ i \in 1..(1 + Len(u)) /\ i - 1 \in 1..Len(u) /\ (i - 1) + 1 = i
      BY <1>1, <1>3, <2>2
    <3>2. v[i] = u[i - 1]
      BY <1>3, <3>1
    <3> QED
      BY <1>1, <3>1, <3>2
  <2> QED
    BY <2>1, <2>2
<1>6. v = t
  BY <1>3, <1>4, <1>5, SeqEqual
<1> QED
  BY <1>1, <1>6 DEF v, c, h, u

\* The next event due is handed to the writer.
LEMMA WriteDueKeeps ==
  ASSUME XInv, WriteDue
  PROVE  XInv'
<1> DEFINE e == Head(due)
           t == Tail(due)
           c == <<e>>
<1>1. /\ due # <<>> /\ ~spoiled /\ WriteEvent(e) /\ due' = t
      /\ UNCHANGED <<status, xml, open, malformed>>
  BY DEF WriteDue
<1>2. /\ pc = "idle" /\ todo' = EventOps(e) /\ current' = c
      /\ UNCHANGED <<out, names, index, written, spoiled, faults>>
  BY <1>1 DEF WriteEvent
<1>3. due \in Seq(Events) /\ IInv /\ XmlTypes
  BY DEF XInv, XmlTypes, RInv
<1>4. e \in Events /\ t \in Seq(Events) /\ c \o t = due
  BY <1>1, <1>3, HeadFirst
<1>5. RInv'
  <2>1. IInv' /\ NothingLeft' /\ SoundInv' /\ SpoiledInv'
    BY <1>1, <1>3, <1>4, WriteKeeps, WriteReads DEF XInv
  <2> QED
    BY <2>1 DEF RInv
<1>6. current = <<>> /\ todo = <<>> /\ ~HasLong(todo)
  BY <1>1, <1>2, Between
<1>7. written \in Seq(Events) /\ Handed = written \o due
  BY <1>2, <1>3, <1>6, HandedIs
<1>8. c \in Seq(Events)
  BY <1>4
<1>9. HasLongEvent(due) <=> LongEvent(e) \/ HasLongEvent(t)
  BY <1>1, <1>3, LongEventTail
<1>10. ShortOrBehind(EventOps(e)) /\ (HasLong(EventOps(e)) <=> LongEvent(e))
  BY <1>4, EventOpsLong
<1> HIDE DEF e, t, c
<1>11. Handed' = Handed
  <2>1. Handed' = (written \o c) \o t
    BY <1>1, <1>2 DEF Handed
  <2>2. (written \o c) \o t = written \o (c \o t)
    <3>1. written \in Seq(Events) /\ c \in Seq(Events) /\ t \in Seq(Events)
      BY <1>4, <1>7, <1>8
    <3> QED
      BY <3>1, ThreeInARow
  <2> QED
    BY <1>4, <1>7, <2>1, <2>2
<1>12. XmlTypes'
  BY <1>1, <1>3, <1>4 DEF XmlTypes
<1>13. Control'
  BY <1>1, <1>2 DEF XInv, Control
<1>14. LongInv'
  <2>1. TooLongAmong(xml) <=> HasLongEvent(due)
    BY <1>1, <1>6 DEF XInv, LongInv
  <2>2. ShortNames(names)
    BY DEF XInv, LongInv
  <2> QED
    BY <1>1, <1>2, <1>9, <1>10, <2>1, <2>2 DEF LongInv
<1>15. HandedInv'
  BY <1>1, <1>2, <1>11 DEF XInv, HandedInv
<1> QED
  BY <1>5, <1>12, <1>13, <1>14, <1>15 DEF XInv

\* The writer at work: all but the end of a call leaves the events where they are.
LEMMA WorkKeeps ==
  ASSUME XInv, RInv', LongInv', UNCHANGED xmlVars, spoiled' \in {spoiled, TRUE},
         UNCHANGED <<written, current>>, status = "ok" => spoiled' = spoiled /\ pc' = pc
  PROVE  XInv'
<1>1. UNCHANGED <<status, xml, open, malformed, due>>
  BY DEF xmlVars
<1>2. Handed' = Handed
  BY <1>1 DEF Handed
<1>3. XmlTypes'
  BY <1>1 DEF XInv, XmlTypes
<1>4. Control'
  BY <1>1 DEF XInv, Control
<1>5. HandedInv'
  BY <1>1, <1>2 DEF XInv, HandedInv
<1> QED
  BY <1>3, <1>4, <1>5 DEF XInv

LEMMA WrittenGoesOver ==
  ASSUME XInv, RInv', Written, UNCHANGED xmlVars
  PROVE  XInv'
<1>1. UNCHANGED <<status, xml, open, malformed, due>>
  BY DEF xmlVars
<1>2. /\ pc = "writing" /\ written' = written \o current /\ current' = <<>>
      /\ UNCHANGED <<names, todo, spoiled>>
  BY DEF Written
<1>3. IInv /\ due \in Seq(Events)
  BY DEF XInv, RInv, XmlTypes
<1>4. written \o current \in Seq(Events)
  <2>1. current \in {<<>>} \cup {<<e>> : e \in Events} /\ written \in Seq(Events)
    BY <1>3 DEF IInv, VarsType
  <2>2. <<>> \in Seq(Events) /\ \A e \in Events : <<e>> \in Seq(Events)
    OBVIOUS
  <2>3. current \in Seq(Events)
    BY <2>1, <2>2
  <2> QED
    BY <2>1, <2>3, ConcatProperties
<1>5. Handed' = Handed
  <2>1. (written \o current) \o <<>> = written \o current
    BY <1>4, ConcatEmptySeq
  <2> QED
    BY <1>1, <1>2, <2>1 DEF Handed
<1>6. XmlTypes'
  BY <1>1 DEF XInv, XmlTypes
<1>7. Control'
  BY <1>1, <1>2 DEF XInv, Control
<1>8. LongInv'
  BY <1>1, <1>2 DEF XInv, LongInv
<1>9. HandedInv'
  BY <1>1, <1>2, <1>5 DEF XInv, HandedInv
<1> QED
  BY <1>6, <1>7, <1>8, <1>9 DEF XInv

LEMMA WritingKeeps ==
  ASSUME XInv, Writing
  PROVE  XInv'
<1>1. UNCHANGED xmlVars /\ Next
  BY DEF Writing, Next
<1>2. RInv'
  BY <1>1, NextReads DEF XInv
<1>3. IInv /\ LongInv /\ spoiled \in BOOLEAN
  BY DEF XInv, RInv, IInv, VarsType
\* Once the bytes are handed over, the writer has nothing to do.
<1>4. status = "ok" => pc = "idle" /\ todo = <<>>
  BY DEF XInv, Control, RInv, NothingLeft
<1>5. CASE Opened
  <2>1. LongInv' /\ pc = "new" /\ spoiled' = spoiled /\ UNCHANGED <<written, current>>
    BY <1>1, <1>3, <1>5 DEF Opened, LongInv, xmlVars
  <2> QED
    BY <1>1, <1>2, <1>4, <2>1, WorkKeeps
<1>6. CASE Written
  BY <1>1, <1>2, <1>6, WrittenGoesOver
<1>7. CASE DoRaw
  <2>1. LongInv' /\ pc' = pc /\ spoiled' = spoiled /\ UNCHANGED <<written, current>>
    BY <1>1, <1>3, <1>7, RawLong DEF DoRaw
  <2> QED
    BY <1>1, <1>2, <2>1, WorkKeeps
<1>8. CASE DoAttribute
  <2>1. LongInv' /\ pc' = pc /\ spoiled' = spoiled /\ UNCHANGED <<written, current>>
    BY <1>1, <1>3, <1>8, AttributeLong DEF DoAttribute
  <2> QED
    BY <1>1, <1>2, <2>1, WorkKeeps
<1>9. CASE DoName
  <2>1. LongInv' /\ pc' = pc /\ spoiled' = spoiled /\ UNCHANGED <<written, current>>
    BY <1>1, <1>3, <1>9, NameLong DEF DoName
  <2> QED
    BY <1>1, <1>2, <2>1, WorkKeeps
<1>10. CASE DoBlob
  <2>1. LongInv' /\ pc' = pc /\ spoiled' = spoiled /\ UNCHANGED <<written, current>>
    BY <1>1, <1>3, <1>10, BlobLong DEF DoBlob
  <2> QED
    BY <1>1, <1>2, <2>1, WorkKeeps
<1>11. CASE TooLong
  <2>1. LongInv' /\ spoiled' = TRUE /\ UNCHANGED <<written, current>> /\ todo # <<>>
    BY <1>1, <1>3, <1>11, TooLongLong DEF TooLong, GiveUp, Doing
  <2> QED
    BY <1>1, <1>2, <1>4, <2>1, WorkKeeps
<1>12. CASE DoCache
  <2>1. LongInv' /\ pc' = pc /\ spoiled' = spoiled /\ UNCHANGED <<written, current>>
    BY <1>1, <1>3, <1>12, CacheLong DEF DoCache
  <2> QED
    BY <1>1, <1>2, <2>1, WorkKeeps
<1> QED
  BY <1>5, <1>6, <1>7, <1>8, <1>9, <1>10, <1>11, <1>12 DEF Writing

LEMMA XmlNextInv == XInv /\ [XmlNext]_allVars => XInv'
<1> SUFFICES ASSUME XInv, [XmlNext]_allVars PROVE XInv'
  OBVIOUS
<1>1. CASE UNCHANGED allVars
  <2>1. UNCHANGED <<xml, open, due, vars>> /\ status' = status /\ malformed' = malformed
    BY <1>1 DEF allVars, xmlVars
  <2>2. status' \in {"reading", "ending", "ok", "failed"} /\ malformed' \in BOOLEAN
    BY <2>1 DEF XInv, XmlTypes
  <2>3. Control'
    BY <2>1 DEF XInv, Control, vars
  <2> QED
    BY <2>1, <2>2, <2>3, StatusKeeps
<1>2. CASE XmlNext
  BY <1>2, ReadEventKeeps, ReadEofKeeps, ReadErrorKeeps, WriteDueKeeps, WritingKeeps,
     WriteErrorKeeps, HandOverKeeps DEF XmlNext
<1> QED
  BY <1>1, <1>2

LEMMA XmlInvariance == XmlSpec => []XInv
<1> QED
  BY XmlInitInv, XmlNextInv, PTL DEF XmlSpec

-----------------------------------------------------------------------------
\* What the caller gets, once it gets the bytes.
LEMMA InTheEnd ==
  ASSUME XInv, status = "ok"
  PROVE  /\ ReadBack.events = Handed /\ Handed \in Seq(Events)
         /\ Kept(Handed, "ok", xml) /\ Tagged(Handed, <<TRUE, open>>)
<1>1. ~spoiled /\ pc = "idle" /\ due = <<>> /\ RInv /\ IInv /\ XmlTypes
  BY DEF XInv, Control, RInv
<1>2. current = <<>>
  BY <1>1, Between
<1>3. written \in Seq(Events) /\ Handed = written
  BY <1>1, <1>2, HandedIs
<1>4. ReadBack.events = written
  BY <1>1, IdleReadsBack DEF IdleReads
<1>5. Kept(Handed, "ok", xml) /\ Tagged(Handed, <<TRUE, open>>)
  BY <1>1 DEF XInv, HandedInv
<1> QED
  BY <1>3, <1>4, <1>5

\* The bytes of xml_to_abx, read back, say what the XML says, in order and with every attribute a
\* string, between the two ends of a document (xml.rs:34), whatever the XML.
THEOREM XmlContentKept == XmlSpec => []ContentKept
<1>1. ASSUME XInv PROVE ContentKept
  <2>1. ASSUME status = "ok"
        PROVE  /\ Len(ReadBack.events) >= 2
               /\ ReadBack.events[1] = Document(CMD_START_DOCUMENT)
               /\ ReadBack.events[Len(ReadBack.events)] = Document(CMD_END_DOCUMENT)
               /\ Conveys(ReadBack.events, Len(ReadBack.events) - 1, xml)
    <3>1. Kept(ReadBack.events, "ok", xml)
      BY <1>1, <2>1, InTheEnd
    <3> QED
      BY <3>1 DEF Kept
  <2> QED
    BY <2>1 DEF ContentKept
<1> QED
  BY <1>1, XmlInvariance, PTL

\* Every end tag in the bytes of xml_to_abx closes the innermost open one, by its name
\* (event.rs:226), and the tags left open are those that the XML leaves open.
THEOREM XmlTagsMatch == XmlSpec => []TagsMatch
<1>1. ASSUME XInv PROVE TagsMatch
  <2>1. ASSUME status = "ok" PROVE OpenTags(ReadBack.events) = <<TRUE, open>>
    <3>1. OpenTags(Handed) = <<TRUE, open>>
      BY <1>1, <2>1, InTheEnd, TaggedOpen
    <3> QED
      BY <1>1, <2>1, <3>1, InTheEnd
  <2> QED
    BY <2>1 DEF TagsMatch
<1> QED
  BY <1>1, XmlInvariance, PTL

\* xml_to_abx fails for XML that is malformed or a string that is too long (xml.rs:45), and then
\* always, wherever the string is.
THEOREM XmlFailsAsDocumented == XmlSpec => []FailsAsDocumented
<1>1. ASSUME XInv PROVE FailsAsDocumented
  <2>1. Len(xml) \in Nat /\ DOMAIN xml = 1..Len(xml)
    BY <1>1, LenProperties DEF XInv, XmlTypes
  <2>2. TooLongAmong(xml) <=> \E i \in DOMAIN xml : TooLongIn(xml[i])
    BY <2>1 DEF TooLongAmong
  <2>3. ASSUME status = "failed" PROVE malformed \/ TooLongAmong(xml)
    BY <1>1, <2>3 DEF XInv, Control, LongInv
  <2>4. ASSUME status = "ok" PROVE ~malformed /\ ~TooLongAmong(xml)
    <3>1. ~malformed /\ ~spoiled /\ pc = "idle" /\ due = <<>>
      BY <1>1, <2>4 DEF XInv, Control
    <3>2. ~HasLong(todo) /\ ~HasLongEvent(due)
      BY <1>1, <3>1, Between, NoneLong
    <3> QED
      BY <1>1, <3>1, <3>2 DEF XInv, LongInv
  <2>5. Over => (status = "failed" <=> malformed \/ TooLongAmong(xml))
    BY <2>3, <2>4 DEF Over
  <2> QED
    BY <2>2, <2>5 DEF FailsAsDocumented
<1> QED
  BY <1>1, XmlInvariance, PTL

-----------------------------------------------------------------------------
(***************************************************************************)
(* The XML text of a document, and what comes of encoding it again         *)
(* (AbxXmlText), for any well-formed document and any width of numbers.    *)
(*                                                                         *)
(* Lists first: a list of any values, one after another, and the lists of  *)
(* a list joined.                                                          *)
(***************************************************************************)
LEMMA ListOf ==
  ASSUME NEW S, NEW s \in Seq(S)
  PROVE  IsList(s)
<1>1. s \in [1..Len(s) -> S] /\ DOMAIN s = 1..Len(s) /\ Len(s) \in Nat
  BY LenProperties
<1>2. s \in [1..Len(s) -> Range(s)]
  BY <1>1 DEF Range
<1> QED
  BY <1>1, <1>2, SeqDef DEF IsList

LEMMA EmptyList == IsList(<<>>) /\ Len(<<>>) = 0
  BY EmptySeq DEF IsList

LEMMA Singleton ==
  ASSUME NEW x
  PROVE  IsList(<<x>>) /\ Len(<<x>>) = 1 /\ <<x>>[1] = x
<1>1. <<x>> \in Seq({x})
  OBVIOUS
<1> QED
  BY <1>1, ListOf

LEMMA ListLength ==
  ASSUME NEW s, IsList(s)
  PROVE  Len(s) \in Nat /\ (s # <<>> <=> Len(s) > 0) /\ DOMAIN s = 1..Len(s)
  BY LenProperties, EmptySeq DEF IsList

LEMMA SameList ==
  ASSUME NEW s, IsList(s), NEW t, IsList(t), Len(s) = Len(t),
         \A i \in 1..Len(s) : s[i] = t[i]
  PROVE  s = t
<1>1. s \in Seq(Range(s) \cup Range(t)) /\ t \in Seq(Range(s) \cup Range(t))
  BY SeqMonotonic DEF IsList
<1> QED
  BY <1>1, SeqEqual

LEMMA AppendList ==
  ASSUME NEW s, IsList(s), NEW x
  PROVE  /\ IsList(Append(s, x))
         /\ Len(Append(s, x)) = Len(s) + 1
         /\ \A i \in 1..Len(s) : Append(s, x)[i] = s[i]
         /\ Append(s, x)[Len(s) + 1] = x
<1> DEFINE S == Range(s) \cup {x}
<1>1. s \in Seq(S)
  BY SeqMonotonic DEF IsList
<1>2. x \in S
  OBVIOUS
<1> HIDE DEF S
<1>3. /\ Append(s, x) \in Seq(S)
      /\ Len(Append(s, x)) = Len(s) + 1
      /\ \A i \in 1..Len(s) : Append(s, x)[i] = s[i]
      /\ Append(s, x)[Len(s) + 1] = x
  BY <1>1, <1>2, AppendProperties
<1>4. IsList(Append(s, x))
  BY <1>3, ListOf
<1> QED
  BY <1>3, <1>4

IsConcat(u, s, t) ==
  /\ IsList(u) /\ Len(u) = Len(s) + Len(t)
  /\ \A i \in 1..Len(s) : u[i] = s[i]
  /\ \A i \in 1..Len(t) : u[Len(s) + i] = t[i]

LEMMA ConcatIs ==
  ASSUME NEW s, IsList(s), NEW t, IsList(t)
  PROVE  IsConcat(s \o t, s, t)
<1> DEFINE S == Range(s) \cup Range(t)
<1>1. s \in Seq(S) /\ t \in Seq(S)
  BY SeqMonotonic DEF IsList
<1> HIDE DEF S
<1>2. Len(s) \in Nat /\ Len(t) \in Nat
  BY ListLength
<1>3. /\ s \o t \in Seq(S)
      /\ Len(s \o t) = Len(s) + Len(t)
      /\ \A i \in 1..Len(s) : (s \o t)[i] = s[i]
      /\ \A i \in (Len(s) + 1)..(Len(s) + Len(t)) : (s \o t)[i] = t[i - Len(s)]
  BY <1>1, <1>2, ConcatProperties
<1>4. ASSUME NEW i \in 1..Len(t) PROVE (s \o t)[Len(s) + i] = t[i]
  <2>1. /\ Len(s) + i \in (Len(s) + 1)..(Len(s) + Len(t))
        /\ (Len(s) + i) - Len(s) = i
    BY <1>2
  <2> QED
    BY <1>3, <2>1
<1>5. IsList(s \o t)
  BY <1>3, ListOf
<1> QED
  BY <1>3, <1>4, <1>5 DEF IsConcat

LEMMA ConcatList ==
  ASSUME NEW s, IsList(s), NEW t, IsList(t)
  PROVE  /\ IsList(s \o t)
         /\ Len(s \o t) = Len(s) + Len(t)
         /\ \A i \in 1..Len(s) : (s \o t)[i] = s[i]
         /\ \A i \in 1..Len(t) : (s \o t)[Len(s) + i] = t[i]
BY ConcatIs DEF IsConcat

LEMMA ConcatEmpty ==
  ASSUME NEW s, IsList(s)
  PROVE  s \o <<>> = s /\ <<>> \o s = s
BY ConcatEmptySeq DEF IsList

-----------------------------------------------------------------------------
(***************************************************************************)
(* Lists of lists, one after the other.                                    *)
(***************************************************************************)
Lists(ss) == IsList(ss) /\ \A i \in 1..Len(ss) : IsList(ss[i])

Flattening(f, ss, N) == f = [i \in 1..N |-> IF i = 1 THEN ss[i] ELSE f[i - 1] \o ss[i]]
CanFlatten(ss, N) == \E f : Flattening(f, ss, N)

LEMMA FlatteningExists ==
  ASSUME NEW ss, NEW N \in Nat
  PROVE  CanFlatten(ss, N)
<1> DEFINE T == {n \in Nat : CanFlatten(ss, n)}
<1>1. 0 \in T
  <2> DEFINE f == [i \in 1..0 |-> <<>>]
             h == [i \in 1..0 |-> IF i = 1 THEN ss[i] ELSE f[i - 1] \o ss[i]]
  <2>1. f = h
    OBVIOUS
  <2>2. Flattening(f, ss, 0)
    BY <2>1, Zenon DEF Flattening
  <2> HIDE DEF f
  <2> QED
    BY <2>2 DEF CanFlatten
<1>2. ASSUME NEW n \in T PROVE n + 1 \in T
  <2>1. PICK f : Flattening(f, ss, n)
    BY DEF CanFlatten
  <2>2. n \in Nat
    OBVIOUS
  <2> DEFINE x == IF n + 1 = 1 THEN ss[n + 1] ELSE f[n] \o ss[n + 1]
             g == [k \in 1..(n + 1) |-> IF k = n + 1 THEN x ELSE f[k]]
             h == [k \in 1..(n + 1) |-> IF k = 1 THEN ss[k] ELSE g[k - 1] \o ss[k]]
  <2>3. ASSUME NEW k \in 1..(n + 1) PROVE g[k] = h[k]
    <3>1. CASE k = n + 1
      <4>1. k - 1 = n /\ (k # 1 => n \in 1..(n + 1) /\ n # n + 1)
        BY <2>2, <3>1
      <4>2. k # 1 => g[k - 1] = f[n]
        BY <4>1
      <4> QED
        BY <3>1, <4>1, <4>2
    <3>2. CASE k # n + 1
      <4>1. k \in 1..n /\ (k # 1 => k - 1 \in 1..(n + 1) /\ k - 1 # n + 1)
        BY <2>2, <3>2
      <4>2. f[k] = IF k = 1 THEN ss[k] ELSE f[k - 1] \o ss[k]
        BY <2>1, <4>1 DEF Flattening
      <4>3. g[k] = f[k] /\ (k # 1 => g[k - 1] = f[k - 1])
        BY <3>2, <4>1
      <4> QED
        BY <4>2, <4>3
    <3> QED
      BY <3>1, <3>2
  <2>4. g = h
    BY <2>3
  <2>5. Flattening(g, ss, n + 1)
    BY <2>4, Zenon DEF Flattening
  <2>6. CanFlatten(ss, n + 1)
    BY <2>5, Zenon DEF CanFlatten
  <2>7. n + 1 \in Nat
    BY <2>2
  <2> HIDE DEF x, g, h
  <2> QED
    BY <2>6, <2>7
<1> HIDE DEF T
<1>3. T \in SUBSET Nat
  BY DEF T
<1>4. T = Nat
  BY <1>1, <1>2, <1>3, NatSetInduction
<1> QED
  BY <1>4 DEF T

LEMMA FlattenEmpty == FlattenSeq(<<>>) = <<>>
  BY EmptyList DEF FlattenSeq

LEMMA FlattenIs ==
  ASSUME NEW ss, IsList(ss), ss # <<>>
  PROVE  \E f : Flattening(f, ss, Len(ss)) /\ FlattenSeq(ss) = f[Len(ss)]
<1> DEFINE flatten == CHOOSE f : f = [i \in 1..Len(ss) |->
                        IF i = 1 THEN ss[i] ELSE f[i - 1] \o ss[i]]
<1>1. \E f : Flattening(f, ss, Len(ss))
  BY FlatteningExists, ListLength DEF CanFlatten
<1>2. Flattening(flatten, ss, Len(ss))
  BY <1>1 DEF Flattening
<1>3. FlattenSeq(ss) = flatten[Len(ss)]
  <2>1. Len(ss) # 0
    BY ListLength
  <2> QED
    BY <2>1 DEF FlattenSeq
<1> HIDE DEF flatten
<1> QED
  BY <1>2, <1>3

Joined(f, ss, n) == f[n + 1] = f[n] \o ss[n + 1]
Joins(f, ss, N)  == f[1] = ss[1] /\ \A n \in Nat : n + 1 <= N /\ n > 0 => Joined(f, ss, n)

LEMMA FlatteningStep ==
  ASSUME NEW f, NEW ss, NEW N \in Nat, Flattening(f, ss, N), N > 0
  PROVE  Joins(f, ss, N)
<1>1. ASSUME NEW k \in 1..N
      PROVE  f[k] = IF k = 1 THEN ss[k] ELSE f[k - 1] \o ss[k]
  BY DEF Flattening
<1>2. f[1] = ss[1]
  <2>1. 1 \in 1..N
    OBVIOUS
  <2> QED
    BY <2>1, <1>1
<1>3. ASSUME NEW n \in Nat, n + 1 <= N, n > 0
      PROVE  Joined(f, ss, n)
  <2>1. n + 1 \in 1..N /\ (n + 1) - 1 = n /\ n + 1 # 1
    BY <1>3
  <2> QED
    BY <1>1, <2>1 DEF Joined
<1> QED
  BY <1>2, <1>3 DEF Joins

\* The value for a list's first n members, whatever follows them.
LEMMA SameFlattening ==
  ASSUME NEW f, NEW g, NEW ss, NEW tt, NEW N \in Nat, NEW M \in Nat, N <= M, N > 0,
         Flattening(f, ss, N), Flattening(g, tt, M), \A i \in 1..N : ss[i] = tt[i]
  PROVE  f[N] = g[N]
<1> DEFINE T == {n \in Nat : n <= N /\ n > 0 => f[n] = g[n]}
<1>1. Joins(f, ss, N) /\ Joins(g, tt, M)
  <2>1. M > 0
    OBVIOUS
  <2> QED
    BY <2>1, FlatteningStep
<1>2. 0 \in T
  OBVIOUS
<1>3. ASSUME NEW n \in T PROVE n + 1 \in T
  <2>1. n \in Nat /\ n + 1 \in Nat
    OBVIOUS
  <2>2. ASSUME n + 1 <= N PROVE f[n + 1] = g[n + 1]
    <3>1. CASE n = 0
      <4>1. 1 \in 1..N /\ n + 1 = 1
        BY <3>1
      <4>2. f[1] = g[1]
        BY <1>1, <4>1 DEF Joins
      <4> QED
        BY <4>1, <4>2
    <3>2. CASE n # 0
      <4>1. n > 0 /\ n <= N /\ n + 1 \in 1..N /\ n + 1 <= M
        BY <2>1, <2>2, <3>2
      <4>2. f[n] = g[n] /\ ss[n + 1] = tt[n + 1]
        BY <4>1
      <4>3. Joined(f, ss, n) /\ Joined(g, tt, n)
        BY <1>1, <2>1, <2>2, <4>1 DEF Joins
      <4> QED
        BY <4>2, <4>3 DEF Joined
    <3> QED
      BY <3>1, <3>2
  <2> QED
    BY <2>1, <2>2
<1> HIDE DEF T
<1>4. T \in SUBSET Nat
  BY DEF T
<1>5. T = Nat
  BY <1>2, <1>3, <1>4, NatSetInduction
<1>6. N \in T
  BY <1>5
<1> QED
  BY <1>6 DEF T

LEMMA FlattenOne ==
  ASSUME NEW s
  PROVE  FlattenSeq(<<s>>) = s
<1>1. IsList(<<s>>) /\ Len(<<s>>) = 1 /\ <<s>>[1] = s
  BY Singleton
<1>2. <<s>> # <<>>
  BY <1>1, EmptyList
<1>3. PICK f : Flattening(f, <<s>>, 1) /\ FlattenSeq(<<s>>) = f[1]
  BY <1>1, <1>2, FlattenIs
<1>4. Joins(f, <<s>>, 1)
  BY <1>3, FlatteningStep
<1> QED
  BY <1>1, <1>3, <1>4 DEF Joins

LEMMA FlattenAppend ==
  ASSUME NEW ss, Lists(ss), NEW s, IsList(s)
  PROVE  FlattenSeq(Append(ss, s)) = FlattenSeq(ss) \o s
<1> DEFINE tt == Append(ss, s)
           N == Len(ss)
<1>1. /\ IsList(tt) /\ Len(tt) = N + 1 /\ N \in Nat
      /\ \A i \in 1..N : tt[i] = ss[i]
      /\ tt[N + 1] = s
  BY AppendList, ListLength DEF Lists
<1> HIDE DEF tt
<1>2. tt # <<>>
  BY <1>1, EmptyList
<1>3. PICK g : Flattening(g, tt, N + 1) /\ FlattenSeq(tt) = g[N + 1]
  BY <1>1, <1>2, FlattenIs
<1>4. Joins(g, tt, N + 1)
  BY <1>1, <1>3, FlatteningStep
<1>5. CASE N = 0
  <2>1. ss = <<>>
    BY <1>5, ListLength DEF Lists
  <2>2. FlattenSeq(tt) = s
    BY <1>1, <1>3, <1>4, <1>5 DEF Joins
  <2>3. <<>> \o s = s
    BY ConcatEmpty
  <2> QED
    BY <2>1, <2>2, <2>3, FlattenEmpty DEF tt
<1>6. CASE N # 0
  <2>1. ss # <<>> /\ N > 0 /\ N <= N + 1
    BY <1>1, <1>6, ListLength DEF Lists
  <2>2. PICK f : Flattening(f, ss, N) /\ FlattenSeq(ss) = f[N]
    BY <2>1, FlattenIs DEF Lists
  <2>3. f[N] = g[N]
    BY <1>1, <1>3, <2>1, <2>2, SameFlattening
  <2>4. Joined(g, tt, N)
    BY <1>1, <1>4, <2>1 DEF Joins
  <2> QED
    BY <1>1, <1>3, <2>2, <2>3, <2>4 DEF tt, Joined
<1> QED
  BY <1>5, <1>6

\* The first members of a list.
Begins(s, n) == [i \in 1..n |-> s[i]]

LEMMA BeginsIs ==
  ASSUME NEW s, IsList(s), NEW n \in 0..Len(s)
  PROVE  /\ IsList(Begins(s, n)) /\ Len(Begins(s, n)) = n
         /\ \A i \in 1..n : Begins(s, n)[i] = s[i]
<1>1. Len(s) \in Nat /\ n \in Nat
  BY ListLength
<1>2. \A i \in 1..n : i \in 1..Len(s)
  BY <1>1
<1>3. s \in [1..Len(s) -> Range(s)]
  BY LenProperties DEF IsList
<1>4. Begins(s, n) \in [1..n -> Range(s)]
  BY <1>2, <1>3 DEF Begins
<1>5. Begins(s, n) \in Seq(Range(s))
  BY <1>1, <1>4, SeqDef
<1>6. Len(Begins(s, n)) = n
  BY <1>1, <1>4, <1>5, LenProperties
<1> QED
  BY <1>5, <1>6, ListOf DEF Begins

LEMMA BeginsAll ==
  ASSUME NEW s, IsList(s)
  PROVE  Begins(s, Len(s)) = s /\ Begins(s, 0) = <<>>
<1>1. Len(s) \in Nat /\ Len(s) \in 0..Len(s) /\ 0 \in 0..Len(s)
  BY ListLength
<1>2. Begins(s, Len(s)) = s
  BY <1>1, BeginsIs, SameList
<1>3. Len(Begins(s, 0)) = 0 /\ IsList(Begins(s, 0))
  BY <1>1, BeginsIs
<1>4. Begins(s, 0) = <<>>
  BY <1>3, ListLength
<1> QED
  BY <1>2, <1>4

LEMMA BeginsNext ==
  ASSUME NEW s, IsList(s), NEW n \in Nat, n < Len(s)
  PROVE  Begins(s, n + 1) = Append(Begins(s, n), s[n + 1])
<1>1. Len(s) \in Nat /\ n \in 0..Len(s) /\ n + 1 \in 0..Len(s)
  BY ListLength
<1> DEFINE t == Append(Begins(s, n), s[n + 1])
<1>2. /\ IsList(Begins(s, n)) /\ Len(Begins(s, n)) = n
      /\ \A i \in 1..n : Begins(s, n)[i] = s[i]
  BY <1>1, BeginsIs
<1>3. /\ IsList(t) /\ Len(t) = n + 1
      /\ \A i \in 1..n : t[i] = s[i]
      /\ t[n + 1] = s[n + 1]
  BY <1>2, AppendList
<1> HIDE DEF t
<1>4. /\ IsList(Begins(s, n + 1)) /\ Len(Begins(s, n + 1)) = n + 1
      /\ \A i \in 1..(n + 1) : Begins(s, n + 1)[i] = s[i]
  BY <1>1, BeginsIs
<1>5. \A i \in 1..(n + 1) : i \in 1..n \/ i = n + 1
  OBVIOUS
<1>6. \A i \in 1..Len(t) : t[i] = Begins(s, n + 1)[i]
  BY <1>3, <1>4, <1>5
<1>7. t = Begins(s, n + 1)
  BY <1>3, <1>4, <1>6, SameList
<1> QED
  BY <1>7 DEF t

LEMMA BeginsLists ==
  ASSUME NEW ss, Lists(ss), NEW n \in 0..Len(ss)
  PROVE  Lists(Begins(ss, n))
<1>1. IsList(ss) /\ Len(ss) \in Nat
  BY ListLength DEF Lists
<1>2. \A i \in 1..n : i \in 1..Len(ss)
  BY <1>1
<1> QED
  BY <1>1, <1>2, BeginsIs DEF Lists

LEMMA FlattenType ==
  ASSUME NEW ss, Lists(ss)
  PROVE  IsList(FlattenSeq(ss))
<1> DEFINE N == Len(ss)
           T == {n \in Nat : n <= N => IsList(FlattenSeq(Begins(ss, n)))}
<1>1. IsList(ss) /\ N \in Nat
  BY ListLength DEF Lists
<1>2. 0 \in T
  BY <1>1, BeginsAll, FlattenEmpty, EmptyList
<1>3. ASSUME NEW n \in T PROVE n + 1 \in T
  <2>1. n \in Nat /\ n + 1 \in Nat
    OBVIOUS
  <2>2. ASSUME n + 1 <= N PROVE IsList(FlattenSeq(Begins(ss, n + 1)))
    <3>1. n <= N /\ n < N /\ n \in 0..N /\ n + 1 \in 1..N
      BY <1>1, <2>1, <2>2
    <3>2. Lists(Begins(ss, n)) /\ IsList(ss[n + 1]) /\ IsList(FlattenSeq(Begins(ss, n)))
      BY <3>1, BeginsLists DEF Lists
    <3>3. Begins(ss, n + 1) = Append(Begins(ss, n), ss[n + 1])
      BY <1>1, <2>1, <3>1, BeginsNext
    <3>4. FlattenSeq(Append(Begins(ss, n), ss[n + 1])) = FlattenSeq(Begins(ss, n)) \o ss[n + 1]
      BY <3>2, FlattenAppend
    <3>5. IsList(FlattenSeq(Begins(ss, n)) \o ss[n + 1])
      BY <3>2, ConcatList
    <3> QED
      BY <3>3, <3>4, <3>5, Zenon
  <2> QED
    BY <2>1, <2>2
<1> HIDE DEF T
<1>4. T \in SUBSET Nat
  BY DEF T
<1>5. T = Nat
  BY <1>2, <1>3, <1>4, NatSetInduction
<1>6. N \in T /\ N <= N
  BY <1>1, <1>5
<1>7. IsList(FlattenSeq(Begins(ss, N)))
  BY <1>6 DEF T
<1> QED
  BY <1>1, <1>7, BeginsAll

Associates(s, t, u) == (s \o t) \o u = s \o (t \o u)

LEMMA ConcatThree ==
  ASSUME NEW s, IsList(s), NEW t, IsList(t), NEW u, IsList(u)
  PROVE  Associates(s, t, u)
<1> DEFINE S == Range(s) \cup Range(t) \cup Range(u)
<1>1. s \in Seq(S) /\ t \in Seq(S) /\ u \in Seq(S)
  BY SeqMonotonic DEF IsList
<1> HIDE DEF S
<1> QED
  BY <1>1, ConcatAssociative DEF Associates

\* A list of lists that begins like one and goes on like another.
IsJoin(uu, ss, tt) ==
  /\ Lists(uu) /\ Len(uu) = Len(ss) + Len(tt)
  /\ \A i \in 1..Len(ss) : uu[i] = ss[i]
  /\ \A i \in 1..Len(tt) : uu[Len(ss) + i] = tt[i]

JoinsTo(uu, ss, tt, n) ==
  FlattenSeq(Begins(uu, Len(ss) + n)) = FlattenSeq(ss) \o FlattenSeq(Begins(tt, n))

LEMMA FlattenJoin ==
  ASSUME NEW ss, Lists(ss), NEW tt, Lists(tt), NEW uu, IsJoin(uu, ss, tt)
  PROVE  FlattenSeq(uu) = FlattenSeq(ss) \o FlattenSeq(tt)
<1> DEFINE M == Len(ss)
           N == Len(tt)
           T == {n \in Nat : n <= N => JoinsTo(uu, ss, tt, n)}
<1>1. /\ IsList(ss) /\ IsList(tt) /\ IsList(uu) /\ M \in Nat /\ N \in Nat /\ Len(uu) = M + N
      /\ IsList(FlattenSeq(ss))
  BY ListLength, FlattenType DEF Lists, IsJoin
<1>2. 0 \in T
  <2>1. M + 0 = M /\ M \in 0..Len(uu)
    BY <1>1
  <2>2. Begins(uu, M) = ss
    <3>1. /\ IsList(Begins(uu, M)) /\ Len(Begins(uu, M)) = M
          /\ \A i \in 1..M : Begins(uu, M)[i] = uu[i]
      BY <1>1, <2>1, BeginsIs
    <3>2. \A i \in 1..Len(Begins(uu, M)) : Begins(uu, M)[i] = ss[i]
      BY <3>1 DEF IsJoin
    <3> QED
      BY <1>1, <3>1, <3>2, SameList
  <2>3. FlattenSeq(Begins(tt, 0)) = <<>>
    BY <1>1, BeginsAll, FlattenEmpty
  <2>4. FlattenSeq(ss) \o <<>> = FlattenSeq(ss)
    BY <1>1, ConcatEmpty
  <2>5. JoinsTo(uu, ss, tt, 0)
    BY <2>1, <2>2, <2>3, <2>4, Zenon DEF JoinsTo
  <2> QED
    BY <2>5
<1>3. ASSUME NEW n \in T PROVE n + 1 \in T
  <2>1. n \in Nat /\ n + 1 \in Nat
    OBVIOUS
  <2>2. ASSUME n + 1 <= N PROVE JoinsTo(uu, ss, tt, n + 1)
    <3>1. /\ n < N /\ n \in 0..N /\ n + 1 \in 1..N
          /\ M + n \in Nat /\ M + n < Len(uu) /\ M + n \in 0..Len(uu)
          /\ (M + n) + 1 = M + (n + 1) /\ M + (n + 1) \in 1..Len(uu)
      BY <1>1, <2>1, <2>2
    <3> DEFINE x == tt[n + 1]
               a == FlattenSeq(Begins(tt, n))
               b == FlattenSeq(Begins(uu, M + n))
    <3>2. IsList(x) /\ uu[M + (n + 1)] = x
      BY <3>1 DEF Lists, IsJoin
    <3>3. Lists(Begins(tt, n)) /\ Lists(Begins(uu, M + n))
      BY <3>1, BeginsLists DEF IsJoin
    <3>4. b = FlattenSeq(ss) \o a
      BY <2>1, <3>1 DEF JoinsTo
    <3>5. Begins(tt, n + 1) = Append(Begins(tt, n), x)
      BY <1>1, <2>1, <3>1, BeginsNext
    <3>6. Begins(uu, M + (n + 1)) = Append(Begins(uu, M + n), x)
      BY <1>1, <3>1, <3>2, BeginsNext
    <3>7. FlattenSeq(Append(Begins(tt, n), x)) = a \o x
      BY <3>2, <3>3, FlattenAppend
    <3>8. FlattenSeq(Append(Begins(uu, M + n), x)) = b \o x
      BY <3>2, <3>3, FlattenAppend
    <3>9. IsList(a)
      BY <3>3, FlattenType
    <3> HIDE DEF a, b, x
    <3>10. Associates(FlattenSeq(ss), a, x)
      BY <1>1, <3>2, <3>9, ConcatThree
    <3> QED
      BY <3>4, <3>5, <3>6, <3>7, <3>8, <3>10, Zenon DEF JoinsTo, Associates
  <2> QED
    BY <2>1, <2>2
<1> HIDE DEF T
<1>4. T \in SUBSET Nat
  BY DEF T
<1>5. T = Nat
  BY <1>2, <1>3, <1>4, NatSetInduction
<1>6. N \in T /\ N <= N
  BY <1>1, <1>5
<1>7. JoinsTo(uu, ss, tt, N)
  BY <1>6 DEF T
<1>8. Begins(uu, M + N) = uu /\ Begins(tt, N) = tt
  BY <1>1, BeginsAll
<1> QED
  BY <1>7, <1>8, Zenon DEF JoinsTo

-----------------------------------------------------------------------------
(***************************************************************************)
(* One event more: what is rendered, its characters, its tags.             *)
(***************************************************************************)
\* The three measures of a document, event by event.
RenderedEach(evs) == [i \in DOMAIN evs |-> RenderEvent(evs[i])]
SpelledEach(evs)  == [i \in DOMAIN evs |-> CharactersOf(evs[i])]
TaggedEach(evs)   == [i \in DOMAIN evs |-> TagOf(evs[i])]

\* Measured one by one, they are lists.
IsMeasured(e) == IsList(RenderEvent(e)) /\ IsList(CharactersOf(e)) /\ IsList(TagOf(e))
AreMeasured(evs) == IsList(evs) /\ \A i \in 1..Len(evs) : IsMeasured(evs[i])

Adds(m, more, s) == m = more \o s

LEMMA FunctionList ==
  ASSUME NEW n \in Nat, NEW f, f = [i \in 1..n |-> f[i]]
  PROVE  IsList(f) /\ Len(f) = n
<1>1. f \in [1..n -> Range(f)]
  <2>1. DOMAIN f = 1..n
    OBVIOUS
  <2>2. \A i \in 1..n : f[i] \in Range(f)
    BY <2>1 DEF Range
  <2> QED
    BY <2>2
<1>2. f \in Seq(Range(f))
  BY <1>1, SeqDef
<1>3. Len(f) = n
  BY <1>1, <1>2, LenProperties
<1> QED
  BY <1>2, <1>3, ListOf

LEMMA MeasuresAre ==
  ASSUME NEW evs, AreMeasured(evs)
  PROVE  /\ Lists(RenderedEach(evs)) /\ Len(RenderedEach(evs)) = Len(evs)
         /\ Lists(SpelledEach(evs)) /\ Len(SpelledEach(evs)) = Len(evs)
         /\ Lists(TaggedEach(evs)) /\ Len(TaggedEach(evs)) = Len(evs)
<1>1. DOMAIN evs = 1..Len(evs) /\ Len(evs) \in Nat
  BY ListLength DEF AreMeasured
<1>2. Lists(RenderedEach(evs)) /\ Len(RenderedEach(evs)) = Len(evs)
  <2> DEFINE f == RenderedEach(evs)
  <2>1. f = [i \in 1..Len(evs) |-> f[i]]
    BY <1>1 DEF RenderedEach
  <2>2. \A i \in 1..Len(evs) : IsList(f[i])
    BY <1>1 DEF RenderedEach, AreMeasured, IsMeasured
  <2> HIDE DEF f
  <2>3. IsList(f) /\ Len(f) = Len(evs)
    BY <1>1, <2>1, FunctionList
  <2>4. Lists(f)
    BY <2>2, <2>3 DEF Lists
  <2> QED
    BY <2>3, <2>4 DEF f
<1>3. Lists(SpelledEach(evs)) /\ Len(SpelledEach(evs)) = Len(evs)
  <2> DEFINE f == SpelledEach(evs)
  <2>1. f = [i \in 1..Len(evs) |-> f[i]]
    BY <1>1 DEF SpelledEach
  <2>2. \A i \in 1..Len(evs) : IsList(f[i])
    BY <1>1 DEF SpelledEach, AreMeasured, IsMeasured
  <2> HIDE DEF f
  <2>3. IsList(f) /\ Len(f) = Len(evs)
    BY <1>1, <2>1, FunctionList
  <2>4. Lists(f)
    BY <2>2, <2>3 DEF Lists
  <2> QED
    BY <2>3, <2>4 DEF f
<1>4. Lists(TaggedEach(evs)) /\ Len(TaggedEach(evs)) = Len(evs)
  <2> DEFINE f == TaggedEach(evs)
  <2>1. f = [i \in 1..Len(evs) |-> f[i]]
    BY <1>1 DEF TaggedEach
  <2>2. \A i \in 1..Len(evs) : IsList(f[i])
    BY <1>1 DEF TaggedEach, AreMeasured, IsMeasured
  <2> HIDE DEF f
  <2>3. IsList(f) /\ Len(f) = Len(evs)
    BY <1>1, <2>1, FunctionList
  <2>4. Lists(f)
    BY <2>2, <2>3 DEF Lists
  <2> QED
    BY <2>3, <2>4 DEF f
<1> QED
  BY <1>2, <1>3, <1>4

\* What is true of the members of a list and of one more is true of both together.
LEMMA MeasuredMore ==
  ASSUME NEW evs, AreMeasured(evs), NEW e, IsMeasured(e)
  PROVE  AreMeasured(Append(evs, e))
<1>1. IsList(evs) /\ Len(evs) \in Nat
  BY ListLength DEF AreMeasured
<1> DEFINE t == Append(evs, e)
<1>2. /\ IsList(t) /\ Len(t) = Len(evs) + 1
      /\ \A i \in 1..Len(evs) : t[i] = evs[i]
      /\ t[Len(evs) + 1] = e
  BY <1>1, AppendList
<1> HIDE DEF t
<1>3. \A i \in 1..Len(t) : i \in 1..Len(evs) \/ i = Len(evs) + 1
  BY <1>1, <1>2
<1>4. AreMeasured(t)
  BY <1>2, <1>3 DEF AreMeasured
<1> QED
  BY <1>4 DEF t

LEMMA ListMore ==
  ASSUME NEW f, IsList(f), NEW g, IsList(g), Len(g) = Len(f) + 1, NEW x,
         \A i \in 1..Len(f) : g[i] = f[i], g[Len(f) + 1] = x
  PROVE  g = Append(f, x)
<1> DEFINE n == Len(f)
           h == Append(f, x)
<1>1. n \in Nat
  BY ListLength
<1>2. /\ IsList(h) /\ Len(h) = n + 1
      /\ \A i \in 1..n : h[i] = f[i]
      /\ h[n + 1] = x
  BY AppendList
<1> HIDE DEF h
<1>3. \A i \in 1..(n + 1) : i \in 1..n \/ i = n + 1
  BY <1>1
<1>4. \A i \in 1..Len(g) : g[i] = h[i]
  BY <1>2, <1>3
<1>5. g = h
  BY <1>2, <1>4, SameList
<1> QED
  BY <1>5 DEF h

LEMMA MeasuredEachMore ==
  ASSUME NEW evs, AreMeasured(evs), NEW e, IsMeasured(e)
  PROVE  /\ RenderedEach(Append(evs, e)) = Append(RenderedEach(evs), RenderEvent(e))
         /\ SpelledEach(Append(evs, e)) = Append(SpelledEach(evs), CharactersOf(e))
         /\ TaggedEach(Append(evs, e)) = Append(TaggedEach(evs), TagOf(e))
<1> DEFINE t == Append(evs, e)
           n == Len(evs)
<1>1. AreMeasured(t)
  BY MeasuredMore
<1>2. IsList(evs) /\ n \in Nat /\ DOMAIN evs = 1..n
  BY ListLength DEF AreMeasured
<1>3. /\ IsList(t) /\ Len(t) = n + 1
      /\ \A i \in 1..n : t[i] = evs[i]
      /\ t[n + 1] = e
  BY <1>2, AppendList
<1> HIDE DEF t
<1>4. DOMAIN t = 1..(n + 1)
  BY <1>3, ListLength
<1>5. \A i \in 1..n : i \in 1..(n + 1)
  BY <1>2
<1>6. n + 1 \in 1..(n + 1)
  BY <1>2
<1>7. RenderedEach(t) = Append(RenderedEach(evs), RenderEvent(e))
  <2> DEFINE f == RenderedEach(evs)
             g == RenderedEach(t)
  <2>1. \A i \in 1..n : g[i] = f[i]
    BY <1>2, <1>3, <1>4, <1>5 DEF RenderedEach
  <2>2. g[n + 1] = RenderEvent(e)
    BY <1>3, <1>4, <1>6 DEF RenderedEach
  <2>3. IsList(f) /\ IsList(g) /\ Len(f) = n /\ Len(g) = n + 1
    BY <1>1, <1>3, MeasuresAre DEF Lists
  <2> HIDE DEF f, g
  <2>4. g = Append(f, RenderEvent(e))
    BY <2>1, <2>2, <2>3, ListMore
  <2> QED
    BY <2>4 DEF f, g
<1>8. SpelledEach(t) = Append(SpelledEach(evs), CharactersOf(e))
  <2> DEFINE f == SpelledEach(evs)
             g == SpelledEach(t)
  <2>1. \A i \in 1..n : g[i] = f[i]
    BY <1>2, <1>3, <1>4, <1>5 DEF SpelledEach
  <2>2. g[n + 1] = CharactersOf(e)
    BY <1>3, <1>4, <1>6 DEF SpelledEach
  <2>3. IsList(f) /\ IsList(g) /\ Len(f) = n /\ Len(g) = n + 1
    BY <1>1, <1>3, MeasuresAre DEF Lists
  <2> HIDE DEF f, g
  <2>4. g = Append(f, CharactersOf(e))
    BY <2>1, <2>2, <2>3, ListMore
  <2> QED
    BY <2>4 DEF f, g
<1>9. TaggedEach(t) = Append(TaggedEach(evs), TagOf(e))
  <2> DEFINE f == TaggedEach(evs)
             g == TaggedEach(t)
  <2>1. \A i \in 1..n : g[i] = f[i]
    BY <1>2, <1>3, <1>4, <1>5 DEF TaggedEach
  <2>2. g[n + 1] = TagOf(e)
    BY <1>3, <1>4, <1>6 DEF TaggedEach
  <2>3. IsList(f) /\ IsList(g) /\ Len(f) = n /\ Len(g) = n + 1
    BY <1>1, <1>3, MeasuresAre DEF Lists
  <2> HIDE DEF f, g
  <2>4. g = Append(f, TagOf(e))
    BY <2>1, <2>2, <2>3, ListMore
  <2> QED
    BY <2>4 DEF f, g
<1> QED
  BY <1>7, <1>8, <1>9 DEF t

LEMMA MeasuresMore ==
  ASSUME NEW evs, AreMeasured(evs), NEW e, IsMeasured(e)
  PROVE  /\ Adds(Pieces(Append(evs, e)), Pieces(evs), RenderEvent(e))
         /\ Adds(Characters(Append(evs, e)), Characters(evs), CharactersOf(e))
         /\ Adds(Tags(Append(evs, e)), Tags(evs), TagOf(e))
<1>1. Lists(RenderedEach(evs)) /\ Lists(SpelledEach(evs)) /\ Lists(TaggedEach(evs))
  BY MeasuresAre
<1>2. IsList(RenderEvent(e)) /\ IsList(CharactersOf(e)) /\ IsList(TagOf(e))
  BY DEF IsMeasured
<1>3. Adds(Pieces(Append(evs, e)), Pieces(evs), RenderEvent(e))
  <2>1. FlattenSeq(Append(RenderedEach(evs), RenderEvent(e))) = FlattenSeq(RenderedEach(evs)) \o RenderEvent(e)
    BY <1>1, <1>2, FlattenAppend
  <2>2. FlattenSeq(RenderedEach(Append(evs, e))) = FlattenSeq(RenderedEach(evs)) \o RenderEvent(e)
    BY <2>1, MeasuredEachMore, Zenon
  <2> QED
    BY <2>2, Zenon DEF Pieces, RenderedEach, Adds
<1>4. Adds(Characters(Append(evs, e)), Characters(evs), CharactersOf(e))
  <2>1. FlattenSeq(Append(SpelledEach(evs), CharactersOf(e))) = FlattenSeq(SpelledEach(evs)) \o CharactersOf(e)
    BY <1>1, <1>2, FlattenAppend
  <2>2. FlattenSeq(SpelledEach(Append(evs, e))) = FlattenSeq(SpelledEach(evs)) \o CharactersOf(e)
    BY <2>1, MeasuredEachMore, Zenon
  <2> QED
    BY <2>2, Zenon DEF Characters, SpelledEach, Adds
<1>5. Adds(Tags(Append(evs, e)), Tags(evs), TagOf(e))
  <2>1. FlattenSeq(Append(TaggedEach(evs), TagOf(e))) = FlattenSeq(TaggedEach(evs)) \o TagOf(e)
    BY <1>1, <1>2, FlattenAppend
  <2>2. FlattenSeq(TaggedEach(Append(evs, e))) = FlattenSeq(TaggedEach(evs)) \o TagOf(e)
    BY <2>1, MeasuredEachMore, Zenon
  <2> QED
    BY <2>2, Zenon DEF Tags, TaggedEach, Adds
<1> QED
  BY <1>3, <1>4, <1>5

LEMMA MeasureTypes ==
  ASSUME NEW evs, AreMeasured(evs)
  PROVE  IsList(Pieces(evs)) /\ IsList(Characters(evs)) /\ IsList(Tags(evs))
<1>1. Lists(RenderedEach(evs)) /\ Lists(SpelledEach(evs)) /\ Lists(TaggedEach(evs))
  BY MeasuresAre
<1>2. IsList(FlattenSeq(RenderedEach(evs))) /\ IsList(FlattenSeq(SpelledEach(evs))) /\ IsList(FlattenSeq(TaggedEach(evs)))
  BY <1>1, FlattenType
<1> QED
  BY <1>2, Zenon DEF Pieces, RenderedEach, Characters, SpelledEach, Tags, TaggedEach

-----------------------------------------------------------------------------
(***************************************************************************)
(* What is found in XML, translated.                                       *)
(***************************************************************************)
TranslatedEach(xs) == [i \in DOMAIN xs |-> Translation(xs[i])]

LEMMA PairList ==
  ASSUME NEW x, NEW y
  PROVE  IsList(<<x, y>>)
<1>1. <<x, y>> \in Seq({x, y})
  OBVIOUS
<1> QED
  BY <1>1, ListOf

LEMMA TranslationList ==
  ASSUME NEW x
  PROVE  IsList(Translation(x))
<1>1. CASE x.kind = "Start"
  BY <1>1, Singleton DEF Translation
<1>2. CASE x.kind = "Empty"
  BY <1>2, PairList DEF Translation, EmptyElement
<1>3. CASE x.kind = "End"
  BY <1>3, Singleton DEF Translation
<1>4. CASE x.kind = "Decl"
  BY <1>4, EmptyList DEF Translation, Declaration
<1>5. CASE x.kind \notin {"Start", "Empty", "End", "Decl"}
  BY <1>5, Singleton DEF Translation
<1> QED
  BY <1>1, <1>2, <1>3, <1>4, <1>5

LEMMA TranslatedLists ==
  ASSUME NEW xs, IsList(xs)
  PROVE  Lists(TranslatedEach(xs)) /\ Len(TranslatedEach(xs)) = Len(xs)
<1> DEFINE f == TranslatedEach(xs)
<1>1. DOMAIN xs = 1..Len(xs) /\ Len(xs) \in Nat
  BY ListLength
<1>2. f = [i \in 1..Len(xs) |-> f[i]]
  BY <1>1 DEF TranslatedEach
<1>3. \A i \in 1..Len(xs) : IsList(f[i])
  BY <1>1, TranslationList DEF TranslatedEach
<1> HIDE DEF f
<1>4. IsList(f) /\ Len(f) = Len(xs)
  BY <1>1, <1>2, FunctionList
<1>5. Lists(f)
  BY <1>3, <1>4 DEF Lists
<1> QED
  BY <1>4, <1>5 DEF f

LEMMA TranslationsMore ==
  ASSUME NEW xs, IsList(xs), NEW x
  PROVE  Adds(Translations(Append(xs, x)), Translations(xs), Translation(x))
<1> DEFINE t == Append(xs, x)
           n == Len(xs)
           f == TranslatedEach(xs)
           g == TranslatedEach(t)
<1>1. n \in Nat /\ DOMAIN xs = 1..n
  BY ListLength
<1>2. /\ IsList(t) /\ Len(t) = n + 1
      /\ \A i \in 1..n : t[i] = xs[i]
      /\ t[n + 1] = x
  BY <1>1, AppendList
<1> HIDE DEF t
<1>3. DOMAIN t = 1..(n + 1) /\ n + 1 \in 1..(n + 1) /\ \A i \in 1..n : i \in 1..(n + 1)
  BY <1>1, <1>2, ListLength
<1>4. \A i \in 1..n : g[i] = f[i]
  BY <1>1, <1>2, <1>3 DEF TranslatedEach
<1>5. g[n + 1] = Translation(x)
  BY <1>2, <1>3 DEF TranslatedEach
<1>6. Lists(f) /\ Lists(g) /\ IsList(f) /\ IsList(g) /\ Len(f) = n /\ Len(g) = n + 1
  BY <1>2, TranslatedLists DEF Lists
<1> HIDE DEF f, g
<1>7. g = Append(f, Translation(x))
  BY <1>4, <1>5, <1>6, ListMore
<1>8. FlattenSeq(Append(f, Translation(x))) = FlattenSeq(f) \o Translation(x)
  BY <1>6, TranslationList, FlattenAppend
<1>9. FlattenSeq(g) = FlattenSeq(f) \o Translation(x)
  BY <1>7, <1>8, Zenon
<1> QED
  BY <1>9, Zenon DEF f, g, t, Translations, TranslatedEach, Adds

LEMMA TranslationsList ==
  ASSUME NEW xs, IsList(xs)
  PROVE  IsList(Translations(xs))
<1>1. IsList(FlattenSeq(TranslatedEach(xs)))
  BY TranslatedLists, FlattenType
<1> QED
  BY <1>1, Zenon DEF Translations, TranslatedEach

LEMMA LastAppend ==
  ASSUME NEW s, IsList(s), s # <<>>
  PROVE  IsList(Front(s)) /\ s = Append(Front(s), Last(s))
<1> DEFINE n == Len(s) - 1
<1>1. n \in Nat /\ n + 1 = Len(s) /\ n < Len(s) /\ n \in 0..Len(s) /\ Len(s) \in Nat
  BY ListLength
<1>2. Front(s) = Begins(s, n)
  BY <1>1 DEF Front, Begins
<1>3. IsList(Begins(s, n))
  BY <1>1, BeginsIs
<1>4. Begins(s, n + 1) = Append(Begins(s, n), s[n + 1])
  BY <1>1, BeginsNext
<1>5. Begins(s, n + 1) = s
  BY <1>1, BeginsAll
<1>6. Last(s) = s[n + 1]
  BY <1>1 DEF Last
<1> QED
  BY <1>2, <1>3, <1>4, <1>5, <1>6, Zenon

LEMMA AppendOne ==
  ASSUME NEW s, IsList(s), NEW x
  PROVE  s \o <<x>> = Append(s, x)
<1> DEFINE S == Range(s) \cup {x}
<1>1. s \in Seq(S) /\ x \in S
  BY SeqMonotonic DEF IsList
<1> HIDE DEF S
<1> QED
  BY <1>1, AppendIsConcat

LEMMA MeasuredLess ==
  ASSUME NEW evs, IsList(evs), NEW e, AreMeasured(Append(evs, e))
  PROVE  AreMeasured(evs) /\ IsMeasured(e)
<1> DEFINE t == Append(evs, e)
<1>1. Len(evs) \in Nat
  BY ListLength
<1>2. /\ Len(t) = Len(evs) + 1
      /\ \A i \in 1..Len(evs) : t[i] = evs[i]
      /\ t[Len(evs) + 1] = e
  BY AppendList
<1>3. AreMeasured(t)
  OBVIOUS
<1> HIDE DEF t
<1>4. Len(evs) + 1 \in 1..Len(t) /\ \A i \in 1..Len(evs) : i \in 1..Len(t)
  BY <1>1, <1>2
<1> QED
  BY <1>2, <1>3, <1>4 DEF AreMeasured

LEMMA FlattenSingles ==
  ASSUME NEW s, IsList(s), NEW ss, IsList(ss), Len(ss) = Len(s),
         \A i \in 1..Len(s) : ss[i] = <<s[i]>>
  PROVE  FlattenSeq(ss) = s
<1> DEFINE N == Len(s)
           T == {n \in Nat : n <= N => FlattenSeq(Begins(ss, n)) = Begins(s, n)}
<1>1. N \in Nat /\ Lists(ss)
  <2>1. \A i \in 1..N : IsList(<<s[i]>>)
    BY Singleton
  <2>2. \A i \in 1..N : IsList(ss[i])
    BY <2>1
  <2> QED
    BY <2>2, ListLength DEF Lists
<1>2. 0 \in T
  <2>1. Begins(ss, 0) = <<>> /\ Begins(s, 0) = <<>>
    BY BeginsAll
  <2>2. FlattenSeq(Begins(ss, 0)) = Begins(s, 0)
    BY <2>1, FlattenEmpty, Zenon
  <2> QED
    BY <2>2
<1>3. ASSUME NEW n \in T PROVE n + 1 \in T
  <2>1. n \in Nat /\ n + 1 \in Nat
    OBVIOUS
  <2>2. ASSUME n + 1 <= N PROVE FlattenSeq(Begins(ss, n + 1)) = Begins(s, n + 1)
    <3>1. n <= N /\ n < N /\ n \in 0..N /\ n \in 0..Len(ss) /\ n < Len(ss) /\ n + 1 \in 1..N
      BY <1>1, <2>1, <2>2
    <3>2. Lists(Begins(ss, n)) /\ IsList(Begins(s, n)) /\ FlattenSeq(Begins(ss, n)) = Begins(s, n)
      BY <1>1, <3>1, BeginsLists, BeginsIs
    <3>3. Begins(s, n + 1) = Append(Begins(s, n), s[n + 1])
      BY <2>1, <3>1, BeginsNext
    <3>4. Begins(ss, n + 1) = Append(Begins(ss, n), ss[n + 1])
      BY <2>1, <3>1, BeginsNext
    <3> DEFINE x == ss[n + 1]
    <3>5. IsList(x) /\ x = <<s[n + 1]>>
      BY <1>1, <3>1 DEF Lists
    <3> HIDE DEF x
    <3>6. FlattenSeq(Append(Begins(ss, n), x)) = FlattenSeq(Begins(ss, n)) \o x
      BY <3>2, <3>5, FlattenAppend
    <3>7. Begins(s, n) \o <<s[n + 1]>> = Append(Begins(s, n), s[n + 1])
      BY <3>2, AppendOne
    <3> QED
      BY <3>2, <3>3, <3>4, <3>5, <3>6, <3>7, Zenon DEF x
  <2> QED
    BY <2>1, <2>2
<1> HIDE DEF T
<1>4. T \in SUBSET Nat
  BY DEF T
<1>5. T = Nat
  BY <1>2, <1>3, <1>4, NatSetInduction
<1>6. N \in T /\ N <= N
  BY <1>1, <1>5
<1>7. FlattenSeq(Begins(ss, N)) = Begins(s, N)
  BY <1>6 DEF T
<1>8. Begins(ss, N) = ss /\ Begins(s, N) = s
  BY BeginsAll
<1> QED
  BY <1>7, <1>8, Zenon

LEMMA FlattenNothing ==
  ASSUME NEW ss, IsList(ss), \A i \in 1..Len(ss) : ss[i] = <<>>
  PROVE  FlattenSeq(ss) = <<>>
<1> DEFINE N == Len(ss)
           T == {n \in Nat : n <= N => FlattenSeq(Begins(ss, n)) = <<>>}
<1>1. N \in Nat /\ Lists(ss)
  BY ListLength, EmptyList DEF Lists
<1>2. 0 \in T
  <2>1. Begins(ss, 0) = <<>>
    BY BeginsAll
  <2> QED
    BY <2>1, FlattenEmpty
<1>3. ASSUME NEW n \in T PROVE n + 1 \in T
  <2>1. n \in Nat /\ n + 1 \in Nat
    OBVIOUS
  <2>2. ASSUME n + 1 <= N PROVE FlattenSeq(Begins(ss, n + 1)) = <<>>
    <3>1. n <= N /\ n < N /\ n \in 0..N /\ n + 1 \in 1..N
      BY <1>1, <2>1, <2>2
    <3>2. Lists(Begins(ss, n)) /\ FlattenSeq(Begins(ss, n)) = <<>>
      BY <1>1, <3>1, BeginsLists
    <3>3. Begins(ss, n + 1) = Append(Begins(ss, n), <<>>)
      <4>1. ss[n + 1] = <<>>
        BY <3>1
      <4>2. Begins(ss, n + 1) = Append(Begins(ss, n), ss[n + 1])
        BY <2>1, <3>1, BeginsNext
      <4> QED
        BY <4>1, <4>2, Zenon
    <3>4. FlattenSeq(Append(Begins(ss, n), <<>>)) = FlattenSeq(Begins(ss, n)) \o <<>>
      BY <3>2, EmptyList, FlattenAppend
    <3>5. <<>> \o <<>> = <<>>
      BY EmptyList, ConcatEmpty
    <3> QED
      BY <3>2, <3>3, <3>4, <3>5, Zenon
  <2> QED
    BY <2>1, <2>2
<1> HIDE DEF T
<1>4. T \in SUBSET Nat
  BY DEF T
<1>5. T = Nat
  BY <1>2, <1>3, <1>4, NatSetInduction
<1>6. N \in T /\ N <= N
  BY <1>1, <1>5
<1>7. FlattenSeq(Begins(ss, N)) = <<>>
  BY <1>6 DEF T
<1> QED
  BY <1>7, BeginsAll, Zenon


\* A list without some values.
Lacks(s, C) == \A i \in 1..Len(s) : s[i] \notin C

LEMMA ConcatLacks ==
  ASSUME NEW C, NEW s, IsList(s), Lacks(s, C), NEW t, IsList(t), Lacks(t, C)
  PROVE  Lacks(s \o t, C)
<1> DEFINE u == s \o t
           m == Len(s)
           n == Len(t)
<1>1. /\ IsList(u) /\ Len(u) = m + n /\ m \in Nat /\ n \in Nat
      /\ \A i \in 1..m : u[i] = s[i]
      /\ \A i \in 1..n : u[m + i] = t[i]
  BY ConcatList, ListLength
<1> HIDE DEF u
<1>2. ASSUME NEW i \in 1..Len(u) PROVE u[i] \notin C
  <2>1. CASE i \in 1..m
    BY <1>1, <2>1 DEF Lacks
  <2>2. CASE i \notin 1..m
    <3>1. i - m \in 1..n /\ m + (i - m) = i
      BY <1>1, <2>2
    <3>2. u[i] = t[i - m]
      BY <1>1, <3>1
    <3> QED
      BY <3>1, <3>2 DEF Lacks
  <2> QED
    BY <2>1, <2>2
<1> QED
  BY <1>2 DEF Lacks, u

LEMMA FlattenLacks ==
  ASSUME NEW C, NEW ss, Lists(ss), \A i \in 1..Len(ss) : Lacks(ss[i], C)
  PROVE  Lacks(FlattenSeq(ss), C)
<1> DEFINE N == Len(ss)
           T == {n \in Nat : n <= N => Lacks(FlattenSeq(Begins(ss, n)), C)}
<1>1. IsList(ss) /\ N \in Nat
  BY ListLength DEF Lists
<1>2. 0 \in T
  <2>1. Begins(ss, 0) = <<>>
    BY <1>1, BeginsAll
  <2>2. Lacks(<<>>, C)
    BY EmptyList DEF Lacks
  <2>3. Lacks(FlattenSeq(Begins(ss, 0)), C)
    BY <2>1, <2>2, FlattenEmpty, Zenon
  <2> QED
    BY <2>3
<1>3. ASSUME NEW n \in T PROVE n + 1 \in T
  <2>1. n \in Nat /\ n + 1 \in Nat
    OBVIOUS
  <2>2. ASSUME n + 1 <= N PROVE Lacks(FlattenSeq(Begins(ss, n + 1)), C)
    <3>1. n <= N /\ n < N /\ n \in 0..N /\ n + 1 \in 1..N
      BY <1>1, <2>1, <2>2
    <3> DEFINE s == FlattenSeq(Begins(ss, n))
               t == ss[n + 1]
    <3>2. Lists(Begins(ss, n)) /\ IsList(t) /\ Lacks(t, C) /\ Lacks(s, C)
      BY <3>1, BeginsLists DEF Lists
    <3>3. IsList(s)
      BY <3>2, FlattenType
    <3>4. Begins(ss, n + 1) = Append(Begins(ss, n), t)
      BY <1>1, <2>1, <3>1, BeginsNext
    <3>5. FlattenSeq(Append(Begins(ss, n), t)) = s \o t
      BY <3>2, FlattenAppend
    <3> HIDE DEF s, t
    <3>6. Lacks(s \o t, C)
      BY <3>2, <3>3, ConcatLacks
    <3> QED
      BY <3>4, <3>5, <3>6, Zenon
  <2> QED
    BY <2>1, <2>2
<1> HIDE DEF T
<1>4. T \in SUBSET Nat
  BY DEF T
<1>5. T = Nat
  BY <1>2, <1>3, <1>4, NatSetInduction
<1>6. N \in T /\ N <= N
  BY <1>1, <1>5
<1>7. Lacks(FlattenSeq(Begins(ss, N)), C)
  BY <1>6 DEF T
<1> QED
  BY <1>1, <1>7, BeginsAll, Zenon

LEMMA JoinIs ==
  ASSUME NEW u, NEW s, IsList(s), NEW t, IsList(t), IsConcat(u, s, t)
  PROVE  u = s \o t
<1> DEFINE v == s \o t
           m == Len(s)
           n == Len(t)
<1>1. IsConcat(v, s, t) /\ m \in Nat /\ n \in Nat
  BY ConcatIs, ListLength
<1> HIDE DEF v
<1>2. /\ IsList(u) /\ IsList(v) /\ Len(u) = m + n /\ Len(v) = m + n
      /\ \A i \in 1..m : u[i] = v[i]
      /\ \A i \in 1..n : u[m + i] = v[m + i]
  BY <1>1 DEF IsConcat
<1>3. ASSUME NEW i \in 1..Len(u) PROVE u[i] = v[i]
  <2>1. CASE i \in 1..m
    BY <1>2, <2>1
  <2>2. CASE i \notin 1..m
    <3>1. i - m \in 1..n /\ m + (i - m) = i
      BY <1>1, <1>2, <2>2
    <3>2. u[m + (i - m)] = v[m + (i - m)]
      BY <1>2, <3>1
    <3> QED
      BY <3>1, <3>2
  <2> QED
    BY <2>1, <2>2
<1>4. u = v
  BY <1>2, <1>3, SameList
<1> QED
  BY <1>4 DEF v

-----------------------------------------------------------------------------
(***************************************************************************)
(* What a lexeme adds to what is found.                                    *)
(***************************************************************************)
\* Characters that need no escaping, and references to those that do.
IsEscaped(vs) ==
  /\ IsList(vs)
  /\ \A i \in 1..Len(vs) : \/ \E c : c \notin Specials /\ vs[i] = Char(c)
                           \/ \E c \in Specials : vs[i] = Ref(EntityOf(c))

\* What render_event writes.
IsRendered(x) ==
  \/ x = XmlDecl
  \/ x = Char(x[2]) /\ x[2] \notin Specials
  \/ x = Ref(x[2])
  \/ x = <<x[1], x[2]>> /\ x[1] \in {"</", "<![CDATA[", "<!--", "<?", "<!DOCTYPE "}
  \/ /\ x = <<"<", x[2], x[3]>> /\ IsList(x[3])
     /\ \A k \in 1..Len(x[3]) : x[3][k] = <<x[3][k][1], x[3][k][2]>> /\ IsEscaped(x[3][k][2])

\* What a lexeme says, in the three measures.
PieceOf(x)   == IF x[1] = "<?xml" THEN <<>> ELSE <<Respaced(x)>>
SpelledBy(x) == CASE x[1] = "char" -> <<x[2]>>
                  [] x[1] = "ref" -> IF x[2] \in Predefined THEN <<CHOOSE c \in Specials : EntityOf(c) = x[2]>>
                                     ELSE <<x[2]>>
                  [] OTHER -> <<>>
TaggedBy(x)  == IF x[1] = "<"
                THEN << <<x[2], [k \in DOMAIN x[3] |-> <<x[3][k][1], Decoded(x[3][k][2])>>]>> >>
                ELSE <<>>

\* What normalizing an attribute's value replaces.
Replaced == {"tab"} \cup LineEnds

\* Only texts grow.
IsFound(xs) == IsList(xs) /\ \A i \in 1..Len(xs) : xs[i].kind = "Text" =>
                               \E t : IsList(t) /\ xs[i] = Markup("Text", t)

Comes(xs, ys, piece, spelled, tagged) ==
  /\ IsFound(ys) /\ AreMeasured(Translations(ys))
  /\ Adds(Pieces(Translations(ys)), Pieces(Translations(xs)), piece)
  /\ Adds(Characters(Translations(ys)), Characters(Translations(xs)), spelled)
  /\ Adds(Tags(Translations(ys)), Tags(Translations(xs)), tagged)

LEMMA FoundMore ==
  ASSUME NEW xs, IsFound(xs), NEW y, y.kind = "Text" => \E t : IsList(t) /\ y = Markup("Text", t)
  PROVE  IsFound(Append(xs, y))
<1> DEFINE s == Append(xs, y)
           n == Len(xs)
<1>1. IsList(xs) /\ n \in Nat
  BY ListLength DEF IsFound
<1>2. /\ IsList(s) /\ Len(s) = n + 1
      /\ \A i \in 1..n : s[i] = xs[i]
      /\ s[n + 1] = y
  BY <1>1, AppendList
<1> HIDE DEF s
<1>3. \A i \in 1..(n + 1) : i \in 1..n \/ i = n + 1
  BY <1>1
<1>4. ASSUME NEW i \in 1..(n + 1), s[i].kind = "Text" PROVE \E t : IsList(t) /\ s[i] = Markup("Text", t)
  <2>1. CASE i \in 1..n
    BY <1>2, <1>4, <2>1 DEF IsFound
  <2>2. CASE i = n + 1
    BY <1>2, <1>4, <2>2
  <2> QED
    BY <1>3, <2>1, <2>2
<1>5. IsFound(s)
  BY <1>2, <1>4 DEF IsFound
<1> QED
  BY <1>5 DEF s

LEMMA OneFound ==
  ASSUME NEW xs, IsFound(xs), AreMeasured(Translations(xs)),
         NEW y, y.kind = "Text" => \E t : IsList(t) /\ y = Markup("Text", t),
         NEW e, Translation(y) = <<e>>, IsMeasured(e)
  PROVE  Comes(xs, Append(xs, y), RenderEvent(e), CharactersOf(e), TagOf(e))
<1> DEFINE evs == Translations(xs)
           more == Translations(Append(xs, y))
<1>1. IsList(xs) /\ IsList(evs)
  BY TranslationsList DEF IsFound
<1>2. more = evs \o <<e>>
  BY <1>1, TranslationsMore, Zenon DEF Adds
<1>3. more = Append(evs, e)
  BY <1>1, <1>2, AppendOne, Zenon
<1>4. IsFound(Append(xs, y))
  BY FoundMore
<1>5. AreMeasured(evs)
  OBVIOUS
<1> HIDE DEF evs
<1>6. AreMeasured(Append(evs, e))
  BY <1>5, MeasuredMore
<1>7. /\ Adds(Pieces(Append(evs, e)), Pieces(evs), RenderEvent(e))
      /\ Adds(Characters(Append(evs, e)), Characters(evs), CharactersOf(e))
      /\ Adds(Tags(Append(evs, e)), Tags(evs), TagOf(e))
  BY <1>5, MeasuresMore
<1> QED
  BY <1>3, <1>4, <1>6, <1>7, Zenon DEF evs, Comes

LEMMA NoneFound ==
  ASSUME NEW xs, IsFound(xs), AreMeasured(Translations(xs)),
         NEW y, y.kind # "Text", Translation(y) = <<>>
  PROVE  Comes(xs, Append(xs, y), <<>>, <<>>, <<>>)
<1> DEFINE evs == Translations(xs)
           more == Translations(Append(xs, y))
<1>1. IsList(xs) /\ IsList(evs)
  BY TranslationsList DEF IsFound
<1>2. more = evs \o <<>>
  BY <1>1, TranslationsMore, Zenon DEF Adds
<1>3. more = evs
  BY <1>1, <1>2, ConcatEmpty, Zenon
<1>4. IsFound(Append(xs, y))
  BY FoundMore
<1>5. IsList(Pieces(evs)) /\ IsList(Characters(evs)) /\ IsList(Tags(evs))
  BY MeasureTypes
<1>6. /\ Pieces(evs) \o <<>> = Pieces(evs)
      /\ Characters(evs) \o <<>> = Characters(evs)
      /\ Tags(evs) \o <<>> = Tags(evs)
  BY <1>5, ConcatEmpty
<1> HIDE DEF evs
<1> QED
  BY <1>3, <1>4, <1>6, Zenon DEF evs, Comes, Adds

-----------------------------------------------------------------------------
(***************************************************************************)
(* Escaping, and what it undoes.                                           *)
(***************************************************************************)
LEMMA Entities ==
  /\ \A c \in Specials, d \in Specials : EntityOf(c) = EntityOf(d) => c = d
  /\ \A c \in Specials : EntityOf(c) \in Predefined
BY DEF EntityOf, Specials, Predefined

LEMMA EntityNames ==
  ASSUME NEW c \in Specials
  PROVE  (CHOOSE d \in Specials : EntityOf(d) = EntityOf(c)) = c
BY Entities

LEMMA Lexemes ==
  ASSUME NEW c, NEW n
  PROVE  /\ Char(c)[1] = "char" /\ Char(c)[2] = c /\ Ref(n)[1] = "ref" /\ Ref(n)[2] = n
         /\ \A d : Char(c) = Char(d) <=> c = d
BY DEF Char, Ref

UnescapedOne(x) == IF x[1] = "ref" THEN CHOOSE c \in Specials : EntityOf(c) = x[2] ELSE x[2]
EscapedOne(c) == IF c \in Specials THEN Ref(EntityOf(c)) ELSE Char(c)

LEMMA UnescapedOf ==
  ASSUME NEW vs, IsList(vs)
  PROVE  /\ IsList(Unescaped(vs)) /\ Len(Unescaped(vs)) = Len(vs)
         /\ \A i \in 1..Len(vs) : Unescaped(vs)[i] = UnescapedOne(vs[i])
<1> DEFINE f == Unescaped(vs)
<1>1. DOMAIN vs = 1..Len(vs) /\ Len(vs) \in Nat
  BY ListLength
<1>2. f = [i \in 1..Len(vs) |-> f[i]]
  BY <1>1 DEF Unescaped
<1>3. \A i \in 1..Len(vs) : f[i] = UnescapedOne(vs[i])
  BY <1>1 DEF Unescaped, UnescapedOne
<1> HIDE DEF f
<1>4. IsList(f) /\ Len(f) = Len(vs)
  BY <1>1, <1>2, FunctionList
<1> QED
  BY <1>3, <1>4 DEF f

LEMMA EscapedOf ==
  ASSUME NEW s, IsList(s)
  PROVE  /\ IsList(xml_escape(s)) /\ Len(xml_escape(s)) = Len(s)
         /\ \A i \in 1..Len(s) : xml_escape(s)[i] = EscapedOne(s[i])
<1> DEFINE f == xml_escape(s)
<1>1. DOMAIN s = 1..Len(s) /\ Len(s) \in Nat
  BY ListLength
<1>2. f = [i \in 1..Len(s) |-> f[i]]
  BY <1>1 DEF xml_escape
<1>3. \A i \in 1..Len(s) : f[i] = EscapedOne(s[i])
  BY <1>1 DEF xml_escape, EscapedOne
<1> HIDE DEF f
<1>4. IsList(f) /\ Len(f) = Len(s)
  BY <1>1, <1>2, FunctionList
<1> QED
  BY <1>3, <1>4 DEF f

LEMMA VerbatimOf ==
  ASSUME NEW s, IsList(s)
  PROVE  /\ IsList(Verbatim(s)) /\ Len(Verbatim(s)) = Len(s)
         /\ \A i \in 1..Len(s) : Verbatim(s)[i] = Char(s[i])
<1> DEFINE f == Verbatim(s)
<1>1. DOMAIN s = 1..Len(s) /\ Len(s) \in Nat
  BY ListLength
<1>2. f = [i \in 1..Len(s) |-> f[i]]
  BY <1>1 DEF Verbatim
<1>3. \A i \in 1..Len(s) : f[i] = Char(s[i])
  BY <1>1 DEF Verbatim
<1> HIDE DEF f
<1>4. IsList(f) /\ Len(f) = Len(s)
  BY <1>1, <1>2, FunctionList
<1> QED
  BY <1>3, <1>4 DEF f

\* One character escaped, read back and escaped again.
LEMMA OneBack ==
  ASSUME NEW c
  PROVE  UnescapedOne(EscapedOne(c)) = c /\ UnescapedOne(Char(c)) = c
<1>1. UnescapedOne(Char(c)) = c
  BY Lexemes DEF UnescapedOne
<1>2. CASE c \in Specials
  <2>1. EscapedOne(c)[1] = "ref" /\ EscapedOne(c)[2] = EntityOf(c)
    BY <1>2, Lexemes DEF EscapedOne
  <2> QED
    BY <1>1, <1>2, <2>1, EntityNames DEF UnescapedOne
<1>3. CASE c \notin Specials
  BY <1>1, <1>3 DEF EscapedOne
<1> QED
  BY <1>1, <1>2, <1>3

LEMMA EscapedBack ==
  ASSUME NEW s, IsList(s)
  PROVE  IsEscaped(xml_escape(s)) /\ Unescaped(xml_escape(s)) = s
<1> DEFINE vs == xml_escape(s)
<1>1. /\ IsList(vs) /\ Len(vs) = Len(s)
      /\ \A i \in 1..Len(s) : vs[i] = EscapedOne(s[i])
  BY EscapedOf
<1> HIDE DEF vs
<1>2. IsEscaped(vs)
  BY <1>1 DEF IsEscaped, EscapedOne
<1>3. /\ IsList(Unescaped(vs)) /\ Len(Unescaped(vs)) = Len(s)
      /\ \A i \in 1..Len(s) : Unescaped(vs)[i] = UnescapedOne(vs[i])
  BY <1>1, UnescapedOf
<1>4. \A i \in 1..Len(s) : Unescaped(vs)[i] = s[i]
  BY <1>1, <1>3, OneBack
<1>5. Unescaped(vs) = s
  BY <1>3, <1>4, SameList
<1> QED
  BY <1>2, <1>5 DEF vs

LEMMA PlainIs ==
  ASSUME NEW s, IsPlain(s)
  PROVE  IsList(s) /\ \A i \in 1..Len(s) : s[i] \notin Specials
<1>1. IsList(s) /\ DOMAIN s = 1..Len(s)
  BY ListLength DEF IsPlain
<1>2. \A i \in 1..Len(s) : s[i] \in Range(s)
  BY <1>1 DEF Range
<1> QED
  BY <1>1, <1>2 DEF IsPlain

LEMMA VerbatimBack ==
  ASSUME NEW s, IsPlain(s)
  PROVE  IsEscaped(Verbatim(s)) /\ Unescaped(Verbatim(s)) = s
<1> DEFINE vs == Verbatim(s)
<1>1. IsList(s) /\ \A i \in 1..Len(s) : s[i] \notin Specials
  BY PlainIs
<1>2. /\ IsList(vs) /\ Len(vs) = Len(s)
      /\ \A i \in 1..Len(s) : vs[i] = Char(s[i])
  BY <1>1, VerbatimOf
<1> HIDE DEF vs
<1>3. IsEscaped(vs)
  BY <1>1, <1>2 DEF IsEscaped
<1>4. /\ IsList(Unescaped(vs)) /\ Len(Unescaped(vs)) = Len(s)
      /\ \A i \in 1..Len(s) : Unescaped(vs)[i] = UnescapedOne(vs[i])
  BY <1>2, UnescapedOf
<1>5. \A i \in 1..Len(s) : Unescaped(vs)[i] = s[i]
  BY <1>2, <1>4, OneBack
<1>6. Unescaped(vs) = s
  BY <1>1, <1>4, <1>5, SameList
<1> QED
  BY <1>3, <1>6 DEF vs

\* White space.
LEMMA SpacingIs ==
  ASSUME NEW s, NEW i \in Nat
  PROVE  /\ IsList(Spacing(s, i)) /\ Lacks(Spacing(s, i), Replaced)
         /\ s[i] \notin Replaced => Spacing(s, i) = <<s[i]>>
<1>1. \/ Spacing(s, i) = <<>> /\ s[i] \in Replaced
      \/ Spacing(s, i) = <<" ">> /\ s[i] \in Replaced \cup {" "}
      \/ Spacing(s, i) = <<s[i]>> /\ s[i] \notin Replaced
  BY DEF Spacing, Blanks, LineEnds, Replaced
<1>2. IsList(<<>>) /\ Lacks(<<>>, Replaced)
  BY EmptyList DEF Lacks
<1>3. ASSUME NEW c, c \notin Replaced PROVE IsList(<<c>>) /\ Lacks(<<c>>, Replaced)
  BY <1>3, Singleton DEF Lacks
<1>4. " " \notin Replaced
  BY DEF Replaced, LineEnds
<1> QED
  BY <1>1, <1>2, <1>3, <1>4

LEMMA NormalizedIs ==
  ASSUME NEW s, IsList(s)
  PROVE  /\ IsList(Normalized(s)) /\ Lacks(Normalized(s), Replaced)
         /\ Lacks(s, Replaced) => Normalized(s) = s
<1> DEFINE f == [i \in DOMAIN s |-> Spacing(s, i)]
<1>1. DOMAIN s = 1..Len(s) /\ Len(s) \in Nat
  BY ListLength
<1>2. f = [i \in 1..Len(s) |-> f[i]] /\ \A i \in 1..Len(s) : f[i] = Spacing(s, i)
  BY <1>1
<1>3. Normalized(s) = FlattenSeq(f)
  BY DEF Normalized
<1> HIDE DEF f
<1>4. IsList(f) /\ Len(f) = Len(s)
  BY <1>1, <1>2, FunctionList
<1>5. \A i \in 1..Len(s) : IsList(f[i]) /\ Lacks(f[i], Replaced)
  BY <1>2, SpacingIs
<1>6. Lists(f)
  BY <1>4, <1>5 DEF Lists
<1>7. IsList(FlattenSeq(f)) /\ Lacks(FlattenSeq(f), Replaced)
  BY <1>4, <1>5, <1>6, FlattenType, FlattenLacks
<1>8. ASSUME Lacks(s, Replaced) PROVE FlattenSeq(f) = s
  <2>1. \A i \in 1..Len(s) : f[i] = <<s[i]>>
    BY <1>2, <1>8, SpacingIs DEF Lacks
  <2> QED
    BY <1>4, <2>1, FlattenSingles
<1> QED
  BY <1>3, <1>7, <1>8

\* A value that has been read has nothing in it that is escaped or normalized another time.
LEMMA DecodedIs ==
  ASSUME NEW vs, IsList(vs)
  PROVE  IsList(Decoded(vs)) /\ Decoded(xml_escape(Decoded(vs))) = Decoded(vs)
<1> DEFINE u == Unescaped(vs)
           s == Normalized(u)
<1>1. IsList(u)
  BY UnescapedOf
<1>2. IsList(s) /\ Lacks(s, Replaced)
  BY <1>1, NormalizedIs
<1>3. Decoded(vs) = s
  BY DEF Decoded
<1> HIDE DEF u, s
<1>4. Unescaped(xml_escape(s)) = s
  BY <1>2, EscapedBack
<1>5. Decoded(xml_escape(s)) = Normalized(s)
  BY <1>4, Zenon DEF Decoded
<1>6. Normalized(s) = s
  BY <1>2, NormalizedIs
<1> QED
  BY <1>2, <1>3, <1>5, <1>6, Zenon

LEMMA EscapeMore ==
  ASSUME NEW s, IsList(s), NEW c, c \notin Specials
  PROVE  xml_escape(Append(s, c)) = Append(xml_escape(s), Char(c))
<1> DEFINE t == Append(s, c)
           n == Len(s)
           f == xml_escape(s)
           g == xml_escape(t)
<1>1. /\ IsList(t) /\ Len(t) = n + 1 /\ n \in Nat
      /\ \A i \in 1..n : t[i] = s[i]
      /\ t[n + 1] = c
  BY AppendList, ListLength
<1> HIDE DEF t
<1>2. /\ IsList(f) /\ Len(f) = n
      /\ \A i \in 1..n : f[i] = EscapedOne(s[i])
  BY EscapedOf
<1>3. /\ IsList(g) /\ Len(g) = n + 1
      /\ \A i \in 1..(n + 1) : g[i] = EscapedOne(t[i])
  BY <1>1, EscapedOf
<1> HIDE DEF f, g
<1>4. n + 1 \in 1..(n + 1) /\ \A i \in 1..n : i \in 1..(n + 1)
  BY <1>1
<1>5. \A i \in 1..n : g[i] = f[i]
  BY <1>1, <1>2, <1>3, <1>4
<1>6. g[n + 1] = Char(c)
  BY <1>1, <1>3, <1>4 DEF EscapedOne
<1>7. g = Append(f, Char(c))
  BY <1>2, <1>3, <1>5, <1>6, ListMore
<1> QED
  BY <1>7, Zenon DEF f, g, t

-----------------------------------------------------------------------------
(***************************************************************************)
(* The lexemes, one kind after the other.                                  *)
(***************************************************************************)
Measures(e, piece, spelled, tagged) ==
  /\ IsMeasured(e)
  /\ RenderEvent(e) = piece /\ CharactersOf(e) = spelled /\ TagOf(e) = tagged

LEMMA CommandNumbers ==
  /\ CMD_START_TAG = 2 /\ CMD_END_TAG = 3 /\ CMD_TEXT = 4 /\ CMD_CDSECT = 5 /\ CMD_ENTITY_REF = 6
  /\ CMD_IGNORABLE_WHITESPACE = 7 /\ CMD_PROCESSING_INSTRUCTION = 8 /\ CMD_COMMENT = 9 /\ CMD_DOCDECL = 10
BY DEF CMD_START_TAG, CMD_END_TAG, CMD_TEXT, CMD_CDSECT, CMD_COMMENT,
       CMD_PROCESSING_INSTRUCTION, CMD_ENTITY_REF, CMD_IGNORABLE_WHITESPACE, CMD_DOCDECL

\* The cases of render_event.
EndPiece(e)     == << <<"</", e.text>> >>
CDataPiece(e)   == << <<"<![CDATA[", e.text>> >>
CommentPiece(e) == << <<"<!--", e.text>> >>
PIPiece(e)      == << <<"<?", e.text>> >>
RefPiece(e)     == << Ref(e.text[1]) >>
DocDeclPiece(e) == << <<"<!DOCTYPE ", e.text>> >>
TagPiece(e)     == <<Tag(e)>>
NoPiece         == <<>>

LEMMA RenderCases ==
  ASSUME NEW e
  PROVE  RenderEvent(e) =
           CASE e.command = CMD_START_TAG  -> TagPiece(e)
             [] e.command = CMD_END_TAG    -> EndPiece(e)
             [] e.command = CMD_TEXT       -> TextPiece(e)
             [] e.command = CMD_CDSECT     -> CDataPiece(e)
             [] e.command = CMD_COMMENT    -> CommentPiece(e)
             [] e.command = CMD_PROCESSING_INSTRUCTION -> PIPiece(e)
             [] e.command = CMD_ENTITY_REF -> RefPiece(e)
             [] e.command = CMD_IGNORABLE_WHITESPACE -> Verbatim(e.text)
             [] e.command = CMD_DOCDECL    -> DocDeclPiece(e)
             [] OTHER                      -> NoPiece
BY Zenon DEF RenderEvent, EndPiece, CDataPiece, CommentPiece, PIPiece, RefPiece, DocDeclPiece, TagPiece, NoPiece

LEMMA RenderedAs ==
  ASSUME NEW e
  PROVE  /\ e.command = CMD_START_TAG  => RenderEvent(e) = TagPiece(e)
         /\ e.command = CMD_END_TAG    => RenderEvent(e) = EndPiece(e)
         /\ e.command = CMD_TEXT       => RenderEvent(e) = TextPiece(e)
         /\ e.command = CMD_CDSECT     => RenderEvent(e) = CDataPiece(e)
         /\ e.command = CMD_COMMENT    => RenderEvent(e) = CommentPiece(e)
         /\ e.command = CMD_PROCESSING_INSTRUCTION => RenderEvent(e) = PIPiece(e)
         /\ e.command = CMD_ENTITY_REF => RenderEvent(e) = RefPiece(e)
         /\ e.command = CMD_IGNORABLE_WHITESPACE => RenderEvent(e) = Verbatim(e.text)
         /\ e.command = CMD_DOCDECL    => RenderEvent(e) = DocDeclPiece(e)
         /\ e.command \notin CMD_START_TAG..CMD_DOCDECL => RenderEvent(e) = NoPiece
BY RenderCases, CommandNumbers, SMT

LEMMA SpelledAs ==
  ASSUME NEW e
  PROVE  /\ e.command \in {CMD_TEXT, CMD_IGNORABLE_WHITESPACE} => CharactersOf(e) = e.text
         /\ e.command \notin {CMD_TEXT, CMD_IGNORABLE_WHITESPACE, CMD_ENTITY_REF} => CharactersOf(e) = <<>>
BY CommandNumbers DEF CharactersOf

LEMMA EventHas ==
  ASSUME NEW c, NEW t, NEW as
  PROVE  AnEvent(c, t, as).command = c /\ AnEvent(c, t, as).text = t /\ AnEvent(c, t, as).attributes = as
BY DEF AnEvent

LEMMA MarkupFields ==
  ASSUME NEW k, NEW t
  PROVE  Markup(k, t).kind = k /\ Markup(k, t).text = t
BY DEF Markup

LEMMA NoTag ==
  ASSUME NEW e, e.command # CMD_START_TAG
  PROVE  TagOf(e) = <<>>
BY DEF TagOf

LEMMA TextMeasures ==
  ASSUME NEW t, IsList(t)
  PROVE  Measures(AnEvent(CMD_TEXT, t, <<>>), xml_escape(t), t, <<>>)
<1> DEFINE e == AnEvent(CMD_TEXT, t, <<>>)
<1>1. e.command = CMD_TEXT /\ e.text = t
  BY EventHas
<1> HIDE DEF e
<1>2. RenderEvent(e) = xml_escape(t)
  BY <1>1, RenderedAs DEF TextPiece
<1>3. CharactersOf(e) = t
  BY <1>1, SpelledAs
<1>4. TagOf(e) = <<>>
  BY <1>1, CommandNumbers, NoTag
<1>5. IsList(xml_escape(t)) /\ IsList(<<>>)
  BY EscapedOf, EmptyList
<1>6. Measures(e, xml_escape(t), t, <<>>)
  BY <1>2, <1>3, <1>4, <1>5, Zenon DEF Measures, IsMeasured
<1> QED
  BY <1>6 DEF e

LEMMA WhiteSpaceMeasures ==
  ASSUME NEW t, IsPlain(t), NEW e, e.command = CMD_IGNORABLE_WHITESPACE, e.text = t
  PROVE  Measures(e, Verbatim(t), t, <<>>)
<1>1. RenderEvent(e) = Verbatim(t)
  BY RenderedAs
<1>2. CharactersOf(e) = t
  BY SpelledAs
<1>3. TagOf(e) = <<>>
  BY CommandNumbers, NoTag
<1>4. IsList(t) /\ IsList(Verbatim(t)) /\ IsList(<<>>)
  BY VerbatimOf, EmptyList DEF IsPlain
<1> QED
  BY <1>1, <1>2, <1>3, <1>4, Zenon DEF Measures, IsMeasured

RefSpelled(n) == IF n \in Predefined THEN <<CHOOSE c \in Specials : EntityOf(c) = n>> ELSE <<n>>

LEMMA RefMeasures ==
  ASSUME NEW n, NEW e, e.command = CMD_ENTITY_REF, e.text = <<n>>
  PROVE  Measures(e, <<Ref(n)>>, RefSpelled(n), <<>>)
<1>1. e.text[1] = n
  BY Singleton
<1>2. RenderEvent(e) = <<Ref(n)>>
  BY <1>1, RenderedAs, Zenon DEF RefPiece
<1>3. CharactersOf(e) = RefSpelled(n)
  <2>1. CharactersOf(e) = IF e.text[1] \in Predefined
                          THEN <<CHOOSE c \in Specials : EntityOf(c) = e.text[1]>> ELSE e.text
    BY CommandNumbers DEF CharactersOf
  <2> QED
    BY <1>1, <2>1, Zenon DEF RefSpelled
<1>4. TagOf(e) = <<>>
  BY CommandNumbers, NoTag
<1>5. IsList(<<Ref(n)>>) /\ IsList(RefSpelled(n)) /\ IsList(<<>>)
  BY Singleton, EmptyList DEF RefSpelled
<1> QED
  BY <1>2, <1>3, <1>4, <1>5, Zenon DEF Measures, IsMeasured

\* The pieces of markup have neither characters nor tags.
MarkCommands == {CMD_END_TAG, CMD_CDSECT, CMD_COMMENT, CMD_PROCESSING_INSTRUCTION, CMD_DOCDECL}

LEMMA MarksSayNothing ==
  ASSUME NEW e, e.command \in MarkCommands
  PROVE  CharactersOf(e) = <<>> /\ TagOf(e) = <<>>
BY CommandNumbers, SpelledAs, NoTag DEF MarkCommands

LEMMA MarkMeasures ==
  ASSUME NEW e, NEW m,
         \/ e.command = CMD_END_TAG /\ m = "</"
         \/ e.command = CMD_CDSECT  /\ m = "<![CDATA["
         \/ e.command = CMD_COMMENT /\ m = "<!--"
         \/ e.command = CMD_PROCESSING_INSTRUCTION /\ m = "<?"
         \/ e.command = CMD_DOCDECL /\ m = "<!DOCTYPE "
  PROVE  Measures(e, << <<m, e.text>> >>, <<>>, <<>>)
<1>1. e.command \in MarkCommands
  BY Zenon DEF MarkCommands
<1>2. CharactersOf(e) = <<>> /\ TagOf(e) = <<>>
  BY <1>1, MarksSayNothing
<1>3. RenderEvent(e) = << <<m, e.text>> >>
  BY RenderedAs, Zenon DEF EndPiece, CDataPiece, CommentPiece, PIPiece, DocDeclPiece
<1>4. IsList(<< <<m, e.text>> >>) /\ IsList(<<>>)
  BY Singleton, EmptyList
<1> QED
  BY <1>1, <1>2, <1>3, <1>4, Zenon DEF Measures, IsMeasured

LEMMA OtherMeasures ==
  ASSUME NEW e, e.command \notin CMD_START_TAG..CMD_DOCDECL
  PROVE  Measures(e, <<>>, <<>>, <<>>)
<1>1. CharactersOf(e) = <<>>
  BY CommandNumbers, SpelledAs
<1>2. TagOf(e) = <<>>
  BY CommandNumbers, NoTag
<1>3. RenderEvent(e) = <<>>
  BY RenderedAs, Zenon DEF NoPiece
<1> QED
  BY <1>1, <1>2, <1>3, EmptyList, Zenon DEF Measures, IsMeasured

TagText(e) == <<e.text, [k \in DOMAIN e.attributes |-> <<e.attributes[k].name, AsStr(e.attributes[k])>>]>>

LEMMA TagMeasures ==
  ASSUME NEW e, e.command = CMD_START_TAG
  PROVE  Measures(e, <<Tag(e)>>, <<>>, <<TagText(e)>>)
<1>1. RenderEvent(e) = <<Tag(e)>>
  BY RenderedAs, Zenon DEF TagPiece
<1>2. CharactersOf(e) = <<>>
  BY CommandNumbers, SpelledAs
<1>3. TagOf(e) = <<TagText(e)>>
  BY Zenon DEF TagOf, TagText
<1>4. IsList(<<Tag(e)>>) /\ IsList(<<TagText(e)>>) /\ IsList(<<>>)
  BY Singleton, EmptyList
<1> QED
  BY <1>1, <1>2, <1>3, <1>4, Zenon DEF Measures, IsMeasured

\* The cases of xml_to_abx, and of the reader.
OneStarted(x) == <<Started(x)>>
OneEnded(x)   == <<Ended(x)>>
OneText(x)    == <<AnEvent(TextCommand[x.kind], x.text, <<>>)>>

LEMMA TranslatedCases ==
  ASSUME NEW x
  PROVE  Translation(x) = CASE x.kind = "Start" -> OneStarted(x)
                            [] x.kind = "Empty" -> EmptyElement(x)
                            [] x.kind = "End"   -> OneEnded(x)
                            [] x.kind = "Decl"  -> Declaration(x)
                            [] OTHER            -> OneText(x)
BY Zenon DEF Translation, OneStarted, OneEnded, OneText

LEMMA TranslatedAs ==
  ASSUME NEW x
  PROVE  /\ x.kind = "Start" => Translation(x) = OneStarted(x)
         /\ x.kind = "End"   => Translation(x) = OneEnded(x)
         /\ x.kind = "Decl"  => Translation(x) = Declaration(x)
         /\ x.kind \notin {"Start", "Empty", "End", "Decl"} => Translation(x) = OneText(x)
BY TranslatedCases, SMT

CharRead(found, x) == IF found # <<>> /\ Last(found).kind = "Text"
                      THEN Append(Front(found), [Last(found) EXCEPT !.text = Append(@, x[2])])
                      ELSE Append(found, Markup("Text", <<x[2]>>))
RefRead(found, x)  == Append(found, Markup("GeneralRef", <<x[2]>>))
TagFound(x)        == [kind |-> "Start", text |-> x[2],
                       attributes |-> [i \in DOMAIN x[3] |->
                                         [name |-> x[3][i][1], value |-> Decoded(x[3][i][2])]]]
TagRead(found, x)  == Append(found, TagFound(x))
DeclRead(found, x) == Append(found, Markup("Decl", <<>>))
MarkRead(found, k, x) == Append(found, Markup(k, x[2]))

LEMMA ReadCases ==
  ASSUME NEW found, NEW x
  PROVE  ReadLexeme(found, x) =
           CASE x[1] = "char" -> CharRead(found, x)
             [] x[1] = "ref"  -> RefRead(found, x)
             [] x[1] = "<"    -> TagRead(found, x)
             [] x[1] = "</"        -> MarkRead(found, "End", x)
             [] x[1] = "<![CDATA[" -> MarkRead(found, "CData", x)
             [] x[1] = "<!--"      -> MarkRead(found, "Comment", x)
             [] x[1] = "<?"        -> MarkRead(found, "PI", x)
             [] x[1] = "<!DOCTYPE "  -> MarkRead(found, "DocType", x)
             [] x[1] = "<?xml"     -> DeclRead(found, x)
BY Zenon DEF ReadLexeme, CharRead, RefRead, TagRead, TagFound, DeclRead, MarkRead

LEMMA ReadAs ==
  ASSUME NEW found, NEW x
  PROVE  /\ x[1] = "char" => ReadLexeme(found, x) = CharRead(found, x)
         /\ x[1] = "ref"  => ReadLexeme(found, x) = RefRead(found, x)
         /\ x[1] = "<"    => ReadLexeme(found, x) = TagRead(found, x)
         /\ x[1] = "</"        => ReadLexeme(found, x) = MarkRead(found, "End", x)
         /\ x[1] = "<![CDATA[" => ReadLexeme(found, x) = MarkRead(found, "CData", x)
         /\ x[1] = "<!--"      => ReadLexeme(found, x) = MarkRead(found, "Comment", x)
         /\ x[1] = "<?"        => ReadLexeme(found, x) = MarkRead(found, "PI", x)
         /\ x[1] = "<!DOCTYPE "  => ReadLexeme(found, x) = MarkRead(found, "DocType", x)
         /\ x[1] = "<?xml"     => ReadLexeme(found, x) = DeclRead(found, x)
<1>1. x[1] = "char" => ReadLexeme(found, x) = CharRead(found, x)
  BY ReadCases, Zenon
<1>2. x[1] = "ref" => ReadLexeme(found, x) = RefRead(found, x)
  BY ReadCases, Zenon
<1>3. x[1] = "<" => ReadLexeme(found, x) = TagRead(found, x)
  BY ReadCases, Zenon
<1>4. x[1] = "</" => ReadLexeme(found, x) = MarkRead(found, "End", x)
  BY ReadCases, Zenon
<1>5. x[1] = "<![CDATA[" => ReadLexeme(found, x) = MarkRead(found, "CData", x)
  BY ReadCases, Zenon
<1>6. x[1] = "<!--" => ReadLexeme(found, x) = MarkRead(found, "Comment", x)
  BY ReadCases, Zenon
<1>7. x[1] = "<?" => ReadLexeme(found, x) = MarkRead(found, "PI", x)
  BY ReadCases, Zenon
<1>8. x[1] = "<!DOCTYPE " => ReadLexeme(found, x) = MarkRead(found, "DocType", x)
  BY ReadCases, Zenon
<1>9. x[1] = "<?xml" => ReadLexeme(found, x) = DeclRead(found, x)
  BY ReadCases, Zenon
<1> QED
  BY <1>1, <1>2, <1>3, <1>4, <1>5, <1>6, <1>7, <1>8, <1>9

LEMMA ReadDecl ==
  ASSUME NEW xs, IsFound(xs), AreMeasured(Translations(xs))
  PROVE  Comes(xs, ReadLexeme(xs, XmlDecl), <<>>, <<>>, <<>>)
<1> DEFINE y == Markup("Decl", <<>>)
<1>1. XmlDecl[1] = "<?xml"
  BY Singleton DEF XmlDecl
<1>2. ReadLexeme(xs, XmlDecl) = Append(xs, y)
  BY <1>1, ReadAs DEF DeclRead
<1>3. y.kind = "Decl"
  BY MarkupFields
<1> HIDE DEF y
<1>4. Translation(y) = <<>>
  BY <1>3, TranslatedAs DEF Declaration
<1>5. y.kind # "Text"
  BY <1>3
<1>6. Comes(xs, Append(xs, y), <<>>, <<>>, <<>>)
  BY <1>4, <1>5, NoneFound
<1> QED
  BY <1>2, <1>6

\* What is found is one event.
LEMMA EventFound ==
  ASSUME NEW xs, IsFound(xs), AreMeasured(Translations(xs)),
         NEW y, y.kind = "Text" => \E t : IsList(t) /\ y = Markup("Text", t),
         NEW e, Translation(y) = <<e>>, NEW piece, NEW spelled, NEW tagged,
         Measures(e, piece, spelled, tagged)
  PROVE  Comes(xs, Append(xs, y), piece, spelled, tagged)
<1>1. Comes(xs, Append(xs, y), RenderEvent(e), CharactersOf(e), TagOf(e))
  BY OneFound DEF Measures
<1> QED
  BY <1>1, Zenon DEF Measures

LEMMA ReadRef ==
  ASSUME NEW xs, IsFound(xs), AreMeasured(Translations(xs)), NEW n
  PROVE  Comes(xs, ReadLexeme(xs, Ref(n)), <<Ref(n)>>, RefSpelled(n), <<>>)
<1> DEFINE y == Markup("GeneralRef", <<n>>)
           e == AnEvent(CMD_ENTITY_REF, <<n>>, <<>>)
<1>1. Ref(n)[1] = "ref" /\ Ref(n)[2] = n
  BY Lexemes
<1>2. ReadLexeme(xs, Ref(n)) = Append(xs, y)
  BY <1>1, ReadAs, Zenon DEF RefRead
<1>3. y.kind = "GeneralRef" /\ y.text = <<n>>
  BY MarkupFields, Zenon
<1>4. e.command = CMD_ENTITY_REF /\ e.text = <<n>>
  BY Zenon DEF AnEvent
<1>5. TextCommand["GeneralRef"] = CMD_ENTITY_REF
  BY DEF TextCommand
<1>6. Translation(y) = <<e>>
  <2>1. y.kind \notin {"Start", "Empty", "End", "Decl"}
    BY <1>3
  <2>2. Translation(y) = OneText(y)
    BY <2>1, TranslatedAs
  <2> QED
    BY <1>3, <1>5, <2>2, Zenon DEF OneText
<1>7. y.kind # "Text"
  BY <1>3
<1> HIDE DEF y, e
<1>8. Measures(e, <<Ref(n)>>, RefSpelled(n), <<>>)
  BY <1>4, RefMeasures
<1>9. Comes(xs, Append(xs, y), <<Ref(n)>>, RefSpelled(n), <<>>)
  BY <1>6, <1>7, <1>8, EventFound, Zenon
<1> QED
  BY <1>2, <1>9, Zenon

\* The kind and the event of a piece of markup.
MarkKind(m) == CASE m = "</" -> "End" [] m = "<![CDATA[" -> "CData" [] m = "<!--" -> "Comment"
                 [] m = "<?" -> "PI" [] m = "<!DOCTYPE " -> "DocType"
Marks == {"</", "<![CDATA[", "<!--", "<?", "<!DOCTYPE "}

LEMMA ReadMark ==
  ASSUME NEW xs, IsFound(xs), AreMeasured(Translations(xs)), NEW m \in Marks, NEW t
  PROVE  Comes(xs, ReadLexeme(xs, <<m, t>>), << <<m, t>> >>, <<>>, <<>>)
<1> DEFINE x == <<m, t>>
           k == MarkKind(m)
           y == Markup(k, t)
           e == IF m = "</" THEN AnEvent(CMD_END_TAG, t, <<>>) ELSE AnEvent(TextCommand[k], t, <<>>)
<1>1. x[1] = m /\ x[2] = t
  OBVIOUS
<1>2. ReadLexeme(xs, x) = Append(xs, y)
  <2>1. ReadLexeme(xs, x) = MarkRead(xs, k, x)
    BY <1>1, ReadAs DEF MarkKind, Marks
  <2> QED
    BY <1>1, <2>1, Zenon DEF MarkRead
<1>3. y.kind = k /\ y.text = t
  BY MarkupFields, Zenon
<1>4. /\ m = "</" => k = "End"
      /\ m # "</" => k \notin {"Start", "Empty", "End", "Decl", "Text"}
      /\ k # "Text"
  BY DEF Marks, MarkKind
<1>5. Translation(y) = <<e>>
  <2>1. CASE m = "</"
    <3>1. Translation(y) = OneEnded(y)
      BY <1>3, <1>4, <2>1, TranslatedAs
    <3> QED
      BY <1>3, <2>1, <3>1, Zenon DEF OneEnded, Ended
  <2>2. CASE m # "</"
    <3>1. Translation(y) = OneText(y)
      BY <1>3, <1>4, <2>2, TranslatedAs
    <3> QED
      BY <1>3, <2>2, <3>1, Zenon DEF OneText
  <2> QED
    BY <2>1, <2>2
<1>6. e.text = t
  BY EventHas
<1>7. \/ e.command = CMD_END_TAG /\ m = "</"
      \/ e.command = CMD_CDSECT  /\ m = "<![CDATA["
      \/ e.command = CMD_COMMENT /\ m = "<!--"
      \/ e.command = CMD_PROCESSING_INSTRUCTION /\ m = "<?"
      \/ e.command = CMD_DOCDECL /\ m = "<!DOCTYPE "
  <2>1. /\ m = "<![CDATA[" => TextCommand[k] = CMD_CDSECT
        /\ m = "<!--" => TextCommand[k] = CMD_COMMENT
        /\ m = "<?" => TextCommand[k] = CMD_PROCESSING_INSTRUCTION
        /\ m = "<!DOCTYPE " => TextCommand[k] = CMD_DOCDECL
    BY DEF TextCommand, MarkKind
  <2>2. /\ m = "</" => e.command = CMD_END_TAG
        /\ m # "</" => e.command = TextCommand[k]
    BY EventHas
  <2> HIDE DEF e, k
  <2> QED
    BY <2>1, <2>2 DEF Marks
<1> HIDE DEF e, k, y, x
<1>8. Measures(e, << <<m, e.text>> >>, <<>>, <<>>)
  BY <1>7, MarkMeasures, Zenon
<1>9. Comes(xs, Append(xs, y), << <<m, e.text>> >>, <<>>, <<>>)
  BY <1>3, <1>4, <1>5, <1>8, EventFound, Zenon
<1> QED
  BY <1>2, <1>6, <1>9, Zenon DEF x

-----------------------------------------------------------------------------
(***************************************************************************)
(* A tag.                                                                  *)
(***************************************************************************)
\* The attributes of a tag as they are written, and as they are read.
ReadAttribs(as)   == [i \in DOMAIN as |-> [name |-> as[i][1], value |-> Decoded(as[i][2])]]
AttribPieces(as)  == [i \in DOMAIN as |-> <<as[i].name, PushAttrValue(as[i])>>]
AttribTexts(as)   == [k \in DOMAIN as |-> <<as[k].name, AsStr(as[k])>>]
AttribsSpaced(as) == [k \in DOMAIN as |-> <<as[k][1], xml_escape(Decoded(as[k][2]))>>]
AttribsRead(as)   == [k \in DOMAIN as |-> <<as[k][1], Decoded(as[k][2])>>]
AreAttribs(as)    == IsList(as) /\ \A k \in 1..Len(as) : as[k] = <<as[k][1], as[k][2]>> /\ IsEscaped(as[k][2])

IsStringOf(v, name, value) == v.name = name /\ v.type = TYPE_STRING /\ v.value = value

LEMMA StringsRead ==
  ASSUME NEW as
  PROVE  /\ DOMAIN Strings(ReadAttribs(as)) = DOMAIN as
         /\ \A i \in DOMAIN as : IsStringOf(Strings(ReadAttribs(as))[i], as[i][1], Decoded(as[i][2]))
<1> DEFINE f == ReadAttribs(as)
<1>1. /\ DOMAIN f = DOMAIN as
      /\ \A i \in DOMAIN as : f[i].name = as[i][1] /\ f[i].value = Decoded(as[i][2])
  BY DEF ReadAttribs
<1> HIDE DEF f
<1>2. /\ DOMAIN Strings(f) = DOMAIN f
      /\ \A i \in DOMAIN f : IsStringOf(Strings(f)[i], f[i].name, f[i].value)
  BY DEF Strings, IsStringOf
<1> QED
  BY <1>1, <1>2, Zenon DEF f

LEMMA StringTexts ==
  ASSUME NEW v, NEW name, NEW value, IsStringOf(v, name, value)
  PROVE  PushAttrValue(v) = xml_escape(value) /\ AsStr(v) = value
<1>1. PushAttrValue(v) = xml_escape(value)
  BY Zenon DEF PushAttrValue, IsStringOf
<1>2. AsStr(v) = v.value
  BY DEF AsStr, IsStringOf, TYPE_NULL, TYPE_STRING, TYPE_INT, TYPE_LONG, TYPE_INT_HEX, TYPE_LONG_HEX,
         TYPE_BOOLEAN_TRUE, TYPE_BOOLEAN_FALSE
<1> QED
  BY <1>1, <1>2 DEF IsStringOf

LEMMA AttribsBack ==
  ASSUME NEW as
  PROVE  /\ AttribPieces(Strings(ReadAttribs(as))) = AttribsSpaced(as)
         /\ AttribTexts(Strings(ReadAttribs(as))) = AttribsRead(as)
<1> DEFINE f == Strings(ReadAttribs(as))
<1>1. /\ DOMAIN f = DOMAIN as
      /\ \A i \in DOMAIN as : IsStringOf(f[i], as[i][1], Decoded(as[i][2]))
  BY StringsRead
<1> HIDE DEF f
<1>2. ASSUME NEW i \in DOMAIN as
      PROVE  /\ PushAttrValue(f[i]) = xml_escape(Decoded(as[i][2])) /\ AsStr(f[i]) = Decoded(as[i][2])
             /\ f[i].name = as[i][1]
  <2>1. IsStringOf(f[i], as[i][1], Decoded(as[i][2]))
    BY <1>1, <1>2
  <2>2. PushAttrValue(f[i]) = xml_escape(Decoded(as[i][2])) /\ AsStr(f[i]) = Decoded(as[i][2])
    BY <2>1, StringTexts
  <2> QED
    BY <2>1, <2>2 DEF IsStringOf
<1>3. AttribPieces(f) = AttribsSpaced(as)
  BY <1>1, <1>2, Zenon DEF AttribPieces, AttribsSpaced
<1>4. AttribTexts(f) = AttribsRead(as)
  BY <1>1, <1>2, Zenon DEF AttribTexts, AttribsRead
<1> QED
  BY <1>3, <1>4, Zenon DEF f

\* A tag as it is written again.
RespacedTag(n, as) == <<"<", n, AttribsSpaced(as)>>

LEMMA RespacedIs ==
  ASSUME NEW x
  PROVE  /\ x[1] = "<" => Respaced(x) = RespacedTag(x[2], x[3])
         /\ x[1] # "<" => Respaced(x) = x
<1>1. x[1] = "<" => Respaced(x) = RespacedTag(x[2], x[3])
  BY Zenon DEF Respaced, RespacedTag, AttribsSpaced, Decoded
<1>2. x[1] # "<" => Respaced(x) = x
  BY Zenon DEF Respaced
<1> QED
  BY <1>1, <1>2

LEMMA TripleFields ==
  ASSUME NEW a, NEW b, NEW c
  PROVE  <<a, b, c>>[1] = a /\ <<a, b, c>>[2] = b /\ <<a, b, c>>[3] = c
OBVIOUS

LEMMA ReadTag ==
  ASSUME NEW xs, IsFound(xs), AreMeasured(Translations(xs)), NEW n, NEW as
  PROVE  Comes(xs, ReadLexeme(xs, <<"<", n, as>>), <<RespacedTag(n, as)>>, <<>>, << <<n, AttribsRead(as)>> >>)
<1> DEFINE x == <<"<", n, as>>
           y == TagFound(x)
           e == Started(y)
<1>1. x[1] = "<" /\ x[2] = n /\ x[3] = as
  BY TripleFields, Zenon
<1>2. ReadLexeme(xs, x) = Append(xs, y)
  BY <1>1, ReadAs, Zenon DEF TagRead
<1> HIDE DEF x
<1>3. y.kind = "Start" /\ y.text = n /\ y.attributes = ReadAttribs(as)
  <2>1. y.kind = "Start" /\ y.text = x[2]
    BY DEF TagFound
  <2>2. y.attributes = ReadAttribs(x[3])
    BY DEF TagFound, ReadAttribs
  <2> QED
    BY <1>1, <2>1, <2>2, Zenon
<1> HIDE DEF y
<1>4. Translation(y) = <<e>>
  BY <1>3, TranslatedAs, Zenon DEF OneStarted
<1>5. e.command = CMD_START_TAG /\ e.text = n /\ e.attributes = Strings(ReadAttribs(as))
  <2>1. e.command = CMD_START_TAG /\ e.text = y.text /\ e.attributes = Strings(y.attributes)
    BY Zenon DEF Started, AnEvent
  <2> QED
    BY <1>3, <2>1, Zenon
<1> HIDE DEF e
<1>6. Tag(e) = RespacedTag(n, as)
  <2>1. Tag(e) = <<"<", e.text, AttribPieces(e.attributes)>>
    BY Zenon DEF Tag, AttribPieces
  <2>2. AttribPieces(e.attributes) = AttribsSpaced(as)
    BY <1>5, AttribsBack
  <2> QED
    BY <1>5, <2>1, <2>2, Zenon DEF RespacedTag
<1>7. TagText(e) = <<n, AttribsRead(as)>>
  <2>1. TagText(e) = <<e.text, AttribTexts(e.attributes)>>
    BY Zenon DEF TagText, AttribTexts
  <2>2. AttribTexts(e.attributes) = AttribsRead(as)
    BY <1>5, AttribsBack
  <2> QED
    BY <1>5, <2>1, <2>2, Zenon
<1>8. Measures(e, <<Tag(e)>>, <<>>, <<TagText(e)>>)
  BY <1>5, TagMeasures
<1>9. y.kind # "Text"
  BY <1>3
<1>10. Comes(xs, Append(xs, y), <<Tag(e)>>, <<>>, <<TagText(e)>>)
  BY <1>4, <1>8, <1>9, EventFound, Zenon
<1> QED
  BY <1>2, <1>6, <1>7, <1>10, Zenon DEF x

-----------------------------------------------------------------------------
(***************************************************************************)
(* A character: a text of its own, or one more of the text before it.      *)
(***************************************************************************)
LEMMA AddsOneMore ==
  ASSUME NEW m, IsList(m), NEW s, IsList(s), NEW x, NEW m1, NEW m2,
         Adds(m1, m, s), Adds(m2, m, Append(s, x))
  PROVE  Adds(m2, m1, <<x>>)
<1>1. IsList(<<x>>) /\ Append(s, x) = s \o <<x>>
  BY Singleton, AppendOne
<1> DEFINE t == <<x>>
<1>2. IsList(t) /\ Append(s, x) = s \o t
  BY <1>1
<1> HIDE DEF t
<1>3. Associates(m, s, t)
  BY <1>2, ConcatThree
<1>4. m1 = m \o s /\ m2 = m \o Append(s, x)
  BY Zenon DEF Adds
<1>5. Adds(m2, m1, t)
  BY <1>2, <1>3, <1>4, Zenon DEF Adds, Associates
<1> QED
  BY <1>5 DEF t

LEMMA EscapeOne ==
  ASSUME NEW c, c \notin Specials
  PROVE  xml_escape(<<c>>) = <<Char(c)>>
<1> DEFINE s == <<c>>
           t == <<Char(c)>>
           f == xml_escape(s)
<1>1. /\ IsList(s) /\ Len(s) = 1 /\ s[1] = c
      /\ IsList(t) /\ Len(t) = 1 /\ t[1] = Char(c)
  BY Singleton
<1> HIDE DEF s, t
<1>2. IsList(f) /\ Len(f) = 1 /\ \A i \in 1..1 : f[i] = EscapedOne(s[i])
  BY <1>1, EscapedOf
<1> HIDE DEF f
<1>3. 1 \in 1..1
  OBVIOUS
<1>4. f[1] = Char(c)
  BY <1>1, <1>2, <1>3 DEF EscapedOne
<1>5. \A i \in 1..1 : i = 1
  OBVIOUS
<1>6. f = t
  BY <1>1, <1>2, <1>4, <1>5, SameList
<1> QED
  BY <1>6, Zenon DEF f, s, t

TextEvent(t) == AnEvent(CMD_TEXT, t, <<>>)

LEMMA TextTranslated ==
  ASSUME NEW t
  PROVE  Translation(Markup("Text", t)) = <<TextEvent(t)>>
<1> DEFINE y == Markup("Text", t)
<1>1. y.kind = "Text" /\ y.text = t
  BY MarkupFields
<1> HIDE DEF y
<1>2. Translation(y) = OneText(y)
  BY <1>1, TranslatedAs
<1>3. TextCommand["Text"] = CMD_TEXT
  BY DEF TextCommand
<1>4. Translation(y) = <<AnEvent(CMD_TEXT, t, <<>>)>>
  BY <1>1, <1>2, <1>3, Zenon DEF OneText
<1> QED
  BY <1>4, Zenon DEF y, TextEvent

LEMMA NewText ==
  ASSUME NEW xs, IsFound(xs), AreMeasured(Translations(xs)), NEW c, c \notin Specials
  PROVE  Comes(xs, Append(xs, Markup("Text", <<c>>)), <<Char(c)>>, <<c>>, <<>>)
<1> DEFINE t == <<c>>
           y == Markup("Text", t)
<1>1. IsList(t) /\ xml_escape(t) = <<Char(c)>>
  BY Singleton, EscapeOne
<1> HIDE DEF t
<1>2. Translation(y) = <<TextEvent(t)>>
  BY TextTranslated
<1>3. Measures(TextEvent(t), xml_escape(t), t, <<>>)
  BY <1>1, TextMeasures, Zenon DEF TextEvent
<1>4. \E s : IsList(s) /\ y = Markup("Text", s)
  BY <1>1
<1> HIDE DEF y
<1>5. Comes(xs, Append(xs, y), xml_escape(t), t, <<>>)
  BY <1>2, <1>3, <1>4, EventFound
<1> QED
  BY <1>1, <1>5, Zenon DEF t, y

LEMMA FoundBefore ==
  ASSUME NEW xs, IsFound(xs), xs # <<>>
  PROVE  /\ IsFound(Front(xs)) /\ xs = Append(Front(xs), Last(xs))
         /\ Last(xs).kind = "Text" => \E t : IsList(t) /\ Last(xs) = Markup("Text", t)
<1> DEFINE p == Front(xs)
           z == Last(xs)
<1>1. IsList(p) /\ xs = Append(p, z)
  BY LastAppend DEF IsFound
<1> HIDE DEF p, z
<1>2. /\ Len(p) \in Nat /\ Len(xs) = Len(p) + 1
      /\ \A i \in 1..Len(p) : xs[i] = p[i]
      /\ xs[Len(p) + 1] = z
  BY <1>1, AppendList, ListLength
<1>3. Len(p) + 1 \in 1..Len(xs) /\ \A i \in 1..Len(p) : i \in 1..Len(xs)
  BY <1>2
<1>4. IsFound(p)
  BY <1>1, <1>2, <1>3 DEF IsFound
<1>5. z.kind = "Text" => \E t : IsList(t) /\ z = Markup("Text", t)
  BY <1>2, <1>3 DEF IsFound
<1> QED
  BY <1>1, <1>4, <1>5, Zenon DEF p, z

LEMMA TranslationsOne ==
  ASSUME NEW xs, IsList(xs), NEW y, NEW e, Translation(y) = <<e>>
  PROVE  Translations(Append(xs, y)) = Append(Translations(xs), e)
<1>1. IsList(Translations(xs))
  BY TranslationsList
<1>2. Translations(Append(xs, y)) = Translations(xs) \o <<e>>
  BY TranslationsMore, Zenon DEF Adds
<1> QED
  BY <1>1, <1>2, AppendOne, Zenon

\* A text whose last character came later.
LEMMA TextGrown ==
  ASSUME NEW p, IsFound(p), NEW t, IsList(t), NEW c, c \notin Specials,
         AreMeasured(Translations(Append(p, Markup("Text", t))))
  PROVE  Comes(Append(p, Markup("Text", t)), Append(p, Markup("Text", Append(t, c))),
               <<Char(c)>>, <<c>>, <<>>)
<1> DEFINE u == Append(t, c)
           evs == Translations(p)
           y == Markup("Text", t)
           z == Markup("Text", u)
           d == TextEvent(t)
           e == TextEvent(u)
<1>1. IsList(p) /\ IsList(evs) /\ IsList(u) /\ xml_escape(u) = Append(xml_escape(t), Char(c))
  BY TranslationsList, AppendList, EscapeMore DEF IsFound
<1>2. IsList(xml_escape(t))
  BY EscapedOf
<1>3. Translation(y) = <<d>> /\ Translation(z) = <<e>>
  BY TextTranslated
<1>4. Measures(d, xml_escape(t), t, <<>>) /\ Measures(e, xml_escape(u), u, <<>>)
  BY <1>1, TextMeasures, Zenon DEF TextEvent
<1>5. \E s : IsList(s) /\ z = Markup("Text", s)
  BY <1>1, Zenon
<1> HIDE DEF d, e
<1>6. Translations(Append(p, y)) = Append(evs, d) /\ Translations(Append(p, z)) = Append(evs, e)
  BY <1>1, <1>3, TranslationsOne, Zenon
<1>7. IsFound(Append(p, z))
  BY <1>5, FoundMore
<1>8. AreMeasured(Append(evs, d))
  BY <1>6, Zenon
<1> HIDE DEF evs, y, z
<1>9. AreMeasured(evs) /\ IsMeasured(d)
  BY <1>1, <1>8, MeasuredLess
<1>10. IsMeasured(e)
  BY <1>4 DEF Measures
<1>11. AreMeasured(Append(evs, e))
  BY <1>9, <1>10, MeasuredMore
<1>12. IsList(Pieces(evs)) /\ IsList(Characters(evs)) /\ IsList(Tags(evs))
  BY <1>9, MeasureTypes
<1>13. /\ Adds(Pieces(Append(evs, d)), Pieces(evs), xml_escape(t))
       /\ Adds(Characters(Append(evs, d)), Characters(evs), t)
       /\ Adds(Tags(Append(evs, d)), Tags(evs), <<>>)
  BY <1>4, <1>9, MeasuresMore, Zenon DEF Measures
<1>14. /\ Adds(Pieces(Append(evs, e)), Pieces(evs), xml_escape(u))
       /\ Adds(Characters(Append(evs, e)), Characters(evs), u)
       /\ Adds(Tags(Append(evs, e)), Tags(evs), <<>>)
  BY <1>4, <1>9, <1>10, MeasuresMore, Zenon DEF Measures
<1>15. Adds(Pieces(Append(evs, e)), Pieces(Append(evs, d)), <<Char(c)>>)
  <2>1. Adds(Pieces(Append(evs, e)), Pieces(evs), Append(xml_escape(t), Char(c)))
    BY <1>1, <1>14, Zenon
  <2> QED
    BY <1>2, <1>12, <1>13, <2>1, AddsOneMore, Zenon
<1>16. Adds(Characters(Append(evs, e)), Characters(Append(evs, d)), <<c>>)
  BY <1>12, <1>13, <1>14, AddsOneMore, Zenon
<1>17. Adds(Tags(Append(evs, e)), Tags(Append(evs, d)), <<>>)
  <2>1. Tags(evs) \o <<>> = Tags(evs)
    BY <1>12, ConcatEmpty
  <2> QED
    BY <1>13, <1>14, <2>1, Zenon DEF Adds
<1>18. Comes(Append(p, y), Append(p, z), <<Char(c)>>, <<c>>, <<>>)
  BY <1>6, <1>7, <1>11, <1>15, <1>16, <1>17, Zenon DEF Comes
<1> QED
  BY <1>18, Zenon DEF y, z

LEMMA ReadChar ==
  ASSUME NEW xs, IsFound(xs), AreMeasured(Translations(xs)), NEW c, c \notin Specials
  PROVE  Comes(xs, ReadLexeme(xs, Char(c)), <<Char(c)>>, <<c>>, <<>>)
<1>1. Char(c)[1] = "char" /\ Char(c)[2] = c
  BY Lexemes
<1>2. ReadLexeme(xs, Char(c)) = CharRead(xs, Char(c))
  BY <1>1, ReadAs, Zenon
<1>3. CASE xs # <<>> /\ Last(xs).kind = "Text"
  <2>1. PICK t : IsList(t) /\ Last(xs) = Markup("Text", t)
    BY <1>3, FoundBefore
  <2>2. IsFound(Front(xs)) /\ xs = Append(Front(xs), Markup("Text", t))
    BY <1>3, <2>1, FoundBefore, Zenon
  <2>3. [Last(xs) EXCEPT !.text = Append(@, c)] = Markup("Text", Append(t, c))
    <3> DEFINE u == Append(t, c)
    <3>1. Markup("Text", t).text = t
      BY MarkupFields
    <3> HIDE DEF u
    <3>2. [Markup("Text", t) EXCEPT !.text = u] = Markup("Text", u)
      BY DEF Markup
    <3>3. [Last(xs) EXCEPT !.text = Append(@, c)] = [Markup("Text", t) EXCEPT !.text = u]
      BY <2>1, <3>1 DEF u
    <3> QED
      BY <3>2, <3>3, Zenon DEF u
  <2>4. CharRead(xs, Char(c)) = Append(Front(xs), Markup("Text", Append(t, c)))
    <3>1. CharRead(xs, Char(c)) = Append(Front(xs), [Last(xs) EXCEPT !.text = Append(@, c)])
      BY <1>1, <1>3, Zenon DEF CharRead
    <3> QED
      BY <2>3, <3>1, Zenon
  <2>5. AreMeasured(Translations(Append(Front(xs), Markup("Text", t))))
    BY <2>2, Zenon
  <2> DEFINE p == Front(xs)
  <2>6. IsFound(p) /\ AreMeasured(Translations(Append(p, Markup("Text", t))))
    BY <2>2, <2>5
  <2> HIDE DEF p
  <2>7. Comes(Append(p, Markup("Text", t)), Append(p, Markup("Text", Append(t, c))),
              <<Char(c)>>, <<c>>, <<>>)
    BY <2>1, <2>6, TextGrown
  <2> QED
    BY <1>2, <2>2, <2>4, <2>7, Zenon DEF p
<1>4. CASE ~(xs # <<>> /\ Last(xs).kind = "Text")
  <2>1. CharRead(xs, Char(c)) = Append(xs, Markup("Text", <<c>>))
    BY <1>1, <1>4, Zenon DEF CharRead
  <2>2. Comes(xs, Append(xs, Markup("Text", <<c>>)), <<Char(c)>>, <<c>>, <<>>)
    BY NewText
  <2> QED
    BY <1>2, <2>1, <2>2, Zenon
<1> QED
  BY <1>3, <1>4

-----------------------------------------------------------------------------
(***************************************************************************)
(* Any lexeme that is rendered, and a whole XML text.                      *)
(***************************************************************************)
LEMMA SpelledCases ==
  ASSUME NEW x
  PROVE  /\ x[1] = "char" => SpelledBy(x) = <<x[2]>>
         /\ x[1] = "ref" => SpelledBy(x) = RefSpelled(x[2])
         /\ x[1] \notin {"char", "ref"} => SpelledBy(x) = <<>>
<1>1. x[1] = "char" => SpelledBy(x) = <<x[2]>>
  BY DEF SpelledBy
<1>2. x[1] = "ref" => SpelledBy(x) = RefSpelled(x[2])
  BY DEF SpelledBy, RefSpelled
<1>3. x[1] \notin {"char", "ref"} => SpelledBy(x) = <<>>
  BY DEF SpelledBy
<1> QED
  BY <1>1, <1>2, <1>3

LEMMA LexemeMeasures ==
  ASSUME NEW x, x[1] # "<?xml"
  PROVE  /\ PieceOf(x) = <<Respaced(x)>>
         /\ x[1] # "<" => PieceOf(x) = <<x>> /\ TaggedBy(x) = <<>>
         /\ x[1] = "<" => /\ PieceOf(x) = <<RespacedTag(x[2], x[3])>>
                          /\ TaggedBy(x) = << <<x[2], AttribsRead(x[3])>> >>
<1>1. PieceOf(x) = <<Respaced(x)>>
  BY Zenon DEF PieceOf
<1>2. x[1] # "<" => PieceOf(x) = <<x>> /\ TaggedBy(x) = <<>>
  BY <1>1, RespacedIs, Zenon DEF TaggedBy
<1>3. x[1] = "<" => TaggedBy(x) = << <<x[2], AttribsRead(x[3])>> >>
  BY Zenon DEF TaggedBy, AttribsRead
<1>4. x[1] = "<" => PieceOf(x) = <<RespacedTag(x[2], x[3])>>
  BY <1>1, RespacedIs, Zenon
<1> QED
  BY <1>1, <1>2, <1>3, <1>4, Zenon

LEMMA ReadStep ==
  ASSUME NEW xs, IsFound(xs), AreMeasured(Translations(xs)), NEW x, IsRendered(x)
  PROVE  Comes(xs, ReadLexeme(xs, x), PieceOf(x), SpelledBy(x), TaggedBy(x))
<1>1. CASE x = XmlDecl
  <2>1. x[1] = "<?xml"
    BY <1>1, Singleton DEF XmlDecl
  <2>2. x[1] \notin {"char", "ref"} /\ x[1] # "<"
    BY <2>1
  <2>3. PieceOf(x) = <<>> /\ TaggedBy(x) = <<>>
    BY <2>1, <2>2, Zenon DEF PieceOf, TaggedBy
  <2>4. SpelledBy(x) = <<>>
    BY <2>2, SpelledCases
  <2>5. Comes(xs, ReadLexeme(xs, XmlDecl), <<>>, <<>>, <<>>)
    BY ReadDecl
  <2> QED
    BY <1>1, <2>3, <2>4, <2>5, Zenon
<1>2. CASE x = Char(x[2]) /\ x[2] \notin Specials
  <2> DEFINE c == x[2]
  <2>1. x = Char(c) /\ c \notin Specials
    BY <1>2
  <2>2. x[1] = "char"
    BY <1>2, Lexemes
  <2>3. x[1] # "<?xml" /\ x[1] # "<"
    BY <2>2
  <2>4. PieceOf(x) = <<x>> /\ TaggedBy(x) = <<>>
    BY <2>3, LexemeMeasures
  <2>5. SpelledBy(x) = <<c>>
    BY <2>2, SpelledCases
  <2> HIDE DEF c
  <2>6. Comes(xs, ReadLexeme(xs, Char(c)), <<Char(c)>>, <<c>>, <<>>)
    BY <2>1, ReadChar
  <2> QED
    BY <2>1, <2>4, <2>5, <2>6, Zenon
<1>3. CASE x = Ref(x[2])
  <2> DEFINE n == x[2]
  <2>1. x = Ref(n)
    BY <1>3
  <2>2. x[1] = "ref"
    BY <1>3, Lexemes
  <2>3. x[1] # "<?xml" /\ x[1] # "<"
    BY <2>2
  <2>4. PieceOf(x) = <<x>> /\ TaggedBy(x) = <<>>
    BY <2>3, LexemeMeasures
  <2>5. SpelledBy(x) = RefSpelled(n)
    BY <2>2, SpelledCases
  <2> HIDE DEF n
  <2>6. Comes(xs, ReadLexeme(xs, Ref(n)), <<Ref(n)>>, RefSpelled(n), <<>>)
    BY ReadRef
  <2> QED
    BY <2>1, <2>4, <2>5, <2>6, Zenon
<1>4. CASE x = <<x[1], x[2]>> /\ x[1] \in Marks
  <2> DEFINE m == x[1]
             t == x[2]
  <2>1. x = <<m, t>> /\ m \in Marks
    BY <1>4
  <2>2. x[1] # "<?xml" /\ x[1] # "<" /\ x[1] \notin {"char", "ref"}
    BY <1>4 DEF Marks
  <2>4. PieceOf(x) = <<x>> /\ TaggedBy(x) = <<>>
    BY <2>2, LexemeMeasures
  <2>5. SpelledBy(x) = <<>>
    BY <2>2, SpelledCases
  <2> HIDE DEF m, t
  <2>6. Comes(xs, ReadLexeme(xs, <<m, t>>), << <<m, t>> >>, <<>>, <<>>)
    BY <2>1, ReadMark
  <2> QED
    BY <2>1, <2>4, <2>5, <2>6, Zenon
<1>5. CASE x = <<"<", x[2], x[3]>> /\ AreAttribs(x[3])
  <2> DEFINE n == x[2]
             as == x[3]
  <2>1. x = <<"<", n, as>> /\ AreAttribs(as)
    BY <1>5
  <2>2. x[1] = "<"
    BY <1>5, TripleFields
  <2>3. x[1] # "<?xml" /\ x[1] \notin {"char", "ref"}
    BY <2>2
  <2>4. PieceOf(x) = <<RespacedTag(n, as)>> /\ TaggedBy(x) = << <<n, AttribsRead(as)>> >>
    BY <2>2, <2>3, LexemeMeasures, Zenon
  <2>5. SpelledBy(x) = <<>>
    BY <2>3, SpelledCases
  <2> HIDE DEF n, as
  <2>6. Comes(xs, ReadLexeme(xs, <<"<", n, as>>), <<RespacedTag(n, as)>>, <<>>, << <<n, AttribsRead(as)>> >>)
    BY <2>1, ReadTag
  <2> QED
    BY <2>1, <2>4, <2>5, <2>6, Zenon
<1> QED
  BY <1>1, <1>2, <1>3, <1>4, <1>5, Zenon DEF IsRendered, AreAttribs, Marks

\* The three measures of lexemes.
PieceEach(lx)   == [i \in DOMAIN lx |-> PieceOf(lx[i])]
SaidEach(lx)    == [i \in DOMAIN lx |-> SpelledBy(lx[i])]
NamedEach(lx)   == [i \in DOMAIN lx |-> TaggedBy(lx[i])]
AllPieces(lx)   == FlattenSeq(PieceEach(lx))
AllSpelled(lx)  == FlattenSeq(SaidEach(lx))
AllTagged(lx)   == FlattenSeq(NamedEach(lx))

LEMMA LexemeLists ==
  ASSUME NEW x
  PROVE  IsList(PieceOf(x)) /\ IsList(SpelledBy(x)) /\ IsList(TaggedBy(x))
<1>1. IsList(PieceOf(x))
  BY Singleton, EmptyList DEF PieceOf
<1>2. IsList(RefSpelled(x[2]))
  BY Singleton DEF RefSpelled
<1>3. IsList(SpelledBy(x))
  BY <1>2, Singleton, EmptyList, SpelledCases
<1>4. IsList(TaggedBy(x))
  <2>1. TaggedBy(x) = << <<x[2], AttribsRead(x[3])>> >> \/ TaggedBy(x) = <<>>
    BY Zenon DEF TaggedBy, AttribsRead
  <2> DEFINE p == <<x[2], AttribsRead(x[3])>>
  <2>2. TaggedBy(x) = <<p>> \/ TaggedBy(x) = <<>>
    BY <2>1
  <2> HIDE DEF p
  <2> QED
    BY <2>2, Singleton, EmptyList
<1> QED
  BY <1>1, <1>3, <1>4

LEMMA LexemesLists ==
  ASSUME NEW lx, IsList(lx)
  PROVE  /\ Lists(PieceEach(lx)) /\ Len(PieceEach(lx)) = Len(lx)
         /\ Lists(SaidEach(lx)) /\ Len(SaidEach(lx)) = Len(lx)
         /\ Lists(NamedEach(lx)) /\ Len(NamedEach(lx)) = Len(lx)
         /\ \A i \in 1..Len(lx) : /\ PieceEach(lx)[i] = PieceOf(lx[i])
                                  /\ SaidEach(lx)[i] = SpelledBy(lx[i])
                                  /\ NamedEach(lx)[i] = TaggedBy(lx[i])
<1>1. DOMAIN lx = 1..Len(lx) /\ Len(lx) \in Nat
  BY ListLength
<1>2. /\ Lists(PieceEach(lx)) /\ Len(PieceEach(lx)) = Len(lx)
      /\ \A i \in 1..Len(lx) : PieceEach(lx)[i] = PieceOf(lx[i])
  <2> DEFINE f == PieceEach(lx)
  <2>1. f = [i \in 1..Len(lx) |-> f[i]] /\ \A i \in 1..Len(lx) : f[i] = PieceOf(lx[i])
    BY <1>1 DEF PieceEach
  <2> HIDE DEF f
  <2>2. IsList(f) /\ Len(f) = Len(lx)
    BY <1>1, <2>1, FunctionList
  <2>3. Lists(f)
    BY <2>1, <2>2, LexemeLists DEF Lists
  <2> QED
    BY <2>1, <2>2, <2>3 DEF f
<1>3. /\ Lists(SaidEach(lx)) /\ Len(SaidEach(lx)) = Len(lx)
      /\ \A i \in 1..Len(lx) : SaidEach(lx)[i] = SpelledBy(lx[i])
  <2> DEFINE f == SaidEach(lx)
  <2>1. f = [i \in 1..Len(lx) |-> f[i]] /\ \A i \in 1..Len(lx) : f[i] = SpelledBy(lx[i])
    BY <1>1 DEF SaidEach
  <2> HIDE DEF f
  <2>2. IsList(f) /\ Len(f) = Len(lx)
    BY <1>1, <2>1, FunctionList
  <2>3. Lists(f)
    BY <2>1, <2>2, LexemeLists DEF Lists
  <2> QED
    BY <2>1, <2>2, <2>3 DEF f
<1>4. /\ Lists(NamedEach(lx)) /\ Len(NamedEach(lx)) = Len(lx)
      /\ \A i \in 1..Len(lx) : NamedEach(lx)[i] = TaggedBy(lx[i])
  <2> DEFINE f == NamedEach(lx)
  <2>1. f = [i \in 1..Len(lx) |-> f[i]] /\ \A i \in 1..Len(lx) : f[i] = TaggedBy(lx[i])
    BY <1>1 DEF NamedEach
  <2> HIDE DEF f
  <2>2. IsList(f) /\ Len(f) = Len(lx)
    BY <1>1, <2>1, FunctionList
  <2>3. Lists(f)
    BY <2>1, <2>2, LexemeLists DEF Lists
  <2> QED
    BY <2>1, <2>2, <2>3 DEF f
<1> QED
  BY <1>2, <1>3, <1>4

Joining(m, s, t) == m = s \o t

LEMMA LexemesJoin ==
  ASSUME NEW lx, IsList(lx), NEW ly, IsList(ly)
  PROVE  /\ Joining(AllPieces(lx \o ly), AllPieces(lx), AllPieces(ly))
         /\ Joining(AllSpelled(lx \o ly), AllSpelled(lx), AllSpelled(ly))
         /\ Joining(AllTagged(lx \o ly), AllTagged(lx), AllTagged(ly))
<1> DEFINE lz == lx \o ly
           m == Len(lx)
           n == Len(ly)
<1>1. /\ IsList(lz) /\ Len(lz) = m + n /\ m \in Nat /\ n \in Nat
      /\ \A i \in 1..m : lz[i] = lx[i]
      /\ \A i \in 1..n : lz[m + i] = ly[i]
  BY ConcatList, ListLength
<1> HIDE DEF lz
<1>2. (\A i \in 1..m : i \in 1..Len(lz)) /\ (\A i \in 1..n : m + i \in 1..Len(lz))
  BY <1>1
<1>3. IsJoin(PieceEach(lz), PieceEach(lx), PieceEach(ly))
  <2> DEFINE f == PieceEach(lx)
             g == PieceEach(ly)
             h == PieceEach(lz)
  <2>1. Lists(f) /\ Len(f) = m /\ \A i \in 1..m : f[i] = PieceOf(lx[i])
    BY LexemesLists
  <2>2. Lists(g) /\ Len(g) = n /\ \A i \in 1..n : g[i] = PieceOf(ly[i])
    BY LexemesLists
  <2>3. Lists(h) /\ Len(h) = Len(lz) /\ \A i \in 1..Len(lz) : h[i] = PieceOf(lz[i])
    BY <1>1, LexemesLists
  <2> HIDE DEF f, g, h, m, n
  <2>4. \A i \in 1..m : h[i] = f[i]
    BY <1>1, <1>2, <2>1, <2>3
  <2>5. \A i \in 1..n : h[m + i] = g[i]
    BY <1>1, <1>2, <2>2, <2>3
  <2>6. IsJoin(h, f, g)
    BY <1>1, <2>1, <2>2, <2>3, <2>4, <2>5 DEF IsJoin
  <2> QED
    BY <2>6 DEF f, g, h
<1>4. IsJoin(SaidEach(lz), SaidEach(lx), SaidEach(ly))
  <2> DEFINE f == SaidEach(lx)
             g == SaidEach(ly)
             h == SaidEach(lz)
  <2>1. Lists(f) /\ Len(f) = m /\ \A i \in 1..m : f[i] = SpelledBy(lx[i])
    BY LexemesLists
  <2>2. Lists(g) /\ Len(g) = n /\ \A i \in 1..n : g[i] = SpelledBy(ly[i])
    BY LexemesLists
  <2>3. Lists(h) /\ Len(h) = Len(lz) /\ \A i \in 1..Len(lz) : h[i] = SpelledBy(lz[i])
    BY <1>1, LexemesLists
  <2> HIDE DEF f, g, h, m, n
  <2>4. \A i \in 1..m : h[i] = f[i]
    BY <1>1, <1>2, <2>1, <2>3
  <2>5. \A i \in 1..n : h[m + i] = g[i]
    BY <1>1, <1>2, <2>2, <2>3
  <2>6. IsJoin(h, f, g)
    BY <1>1, <2>1, <2>2, <2>3, <2>4, <2>5 DEF IsJoin
  <2> QED
    BY <2>6 DEF f, g, h
<1>5. IsJoin(NamedEach(lz), NamedEach(lx), NamedEach(ly))
  <2> DEFINE f == NamedEach(lx)
             g == NamedEach(ly)
             h == NamedEach(lz)
  <2>1. Lists(f) /\ Len(f) = m /\ \A i \in 1..m : f[i] = TaggedBy(lx[i])
    BY LexemesLists
  <2>2. Lists(g) /\ Len(g) = n /\ \A i \in 1..n : g[i] = TaggedBy(ly[i])
    BY LexemesLists
  <2>3. Lists(h) /\ Len(h) = Len(lz) /\ \A i \in 1..Len(lz) : h[i] = TaggedBy(lz[i])
    BY <1>1, LexemesLists
  <2> HIDE DEF f, g, h, m, n
  <2>4. \A i \in 1..m : h[i] = f[i]
    BY <1>1, <1>2, <2>1, <2>3
  <2>5. \A i \in 1..n : h[m + i] = g[i]
    BY <1>1, <1>2, <2>2, <2>3
  <2>6. IsJoin(h, f, g)
    BY <1>1, <2>1, <2>2, <2>3, <2>4, <2>5 DEF IsJoin
  <2> QED
    BY <2>6 DEF f, g, h
<1>6. /\ Lists(PieceEach(lx)) /\ Lists(SaidEach(lx)) /\ Lists(NamedEach(lx))
      /\ Lists(PieceEach(ly)) /\ Lists(SaidEach(ly)) /\ Lists(NamedEach(ly))
  BY LexemesLists
<1>7. Joining(AllPieces(lz), AllPieces(lx), AllPieces(ly))
  BY <1>3, <1>6, FlattenJoin, Zenon DEF AllPieces, Joining
<1>8. Joining(AllSpelled(lz), AllSpelled(lx), AllSpelled(ly))
  BY <1>4, <1>6, FlattenJoin, Zenon DEF AllSpelled, Joining
<1>9. Joining(AllTagged(lz), AllTagged(lx), AllTagged(ly))
  BY <1>5, <1>6, FlattenJoin, Zenon DEF AllTagged, Joining
<1> QED
  BY <1>7, <1>8, <1>9 DEF lz

LEMMA OneLexeme ==
  ASSUME NEW x
  PROVE  /\ AllPieces(<<x>>) = PieceOf(x)
         /\ AllSpelled(<<x>>) = SpelledBy(x)
         /\ AllTagged(<<x>>) = TaggedBy(x)
<1> DEFINE lx == <<x>>
<1>1. IsList(lx) /\ Len(lx) = 1 /\ lx[1] = x /\ 1 \in 1..1
  BY Singleton
<1> HIDE DEF lx
<1>2. PieceEach(lx) = <<PieceOf(x)>>
  <2> DEFINE f == PieceEach(lx)
             g == <<PieceOf(x)>>
  <2>1. IsList(f) /\ Len(f) = 1 /\ f[1] = PieceOf(x)
    BY <1>1, LexemesLists DEF Lists
  <2>2. IsList(g) /\ Len(g) = 1 /\ g[1] = PieceOf(x)
    BY Singleton
  <2> HIDE DEF f, g
  <2>3. \A i \in 1..1 : f[i] = g[i]
    <3>1. \A i \in 1..1 : i = 1
      OBVIOUS
    <3> QED
      BY <2>1, <2>2, <3>1
  <2>4. f = g
    BY <2>1, <2>2, <2>3, SameList
  <2> QED
    BY <2>4 DEF f, g
<1>3. SaidEach(lx) = <<SpelledBy(x)>>
  <2> DEFINE f == SaidEach(lx)
             g == <<SpelledBy(x)>>
  <2>1. IsList(f) /\ Len(f) = 1 /\ f[1] = SpelledBy(x)
    BY <1>1, LexemesLists DEF Lists
  <2>2. IsList(g) /\ Len(g) = 1 /\ g[1] = SpelledBy(x)
    BY Singleton
  <2> HIDE DEF f, g
  <2>3. \A i \in 1..1 : f[i] = g[i]
    <3>1. \A i \in 1..1 : i = 1
      OBVIOUS
    <3> QED
      BY <2>1, <2>2, <3>1
  <2>4. f = g
    BY <2>1, <2>2, <2>3, SameList
  <2> QED
    BY <2>4 DEF f, g
<1>4. NamedEach(lx) = <<TaggedBy(x)>>
  <2> DEFINE f == NamedEach(lx)
             g == <<TaggedBy(x)>>
  <2>1. IsList(f) /\ Len(f) = 1 /\ f[1] = TaggedBy(x)
    BY <1>1, LexemesLists DEF Lists
  <2>2. IsList(g) /\ Len(g) = 1 /\ g[1] = TaggedBy(x)
    BY Singleton
  <2> HIDE DEF f, g
  <2>3. \A i \in 1..1 : f[i] = g[i]
    <3>1. \A i \in 1..1 : i = 1
      OBVIOUS
    <3> QED
      BY <2>1, <2>2, <3>1
  <2>4. f = g
    BY <2>1, <2>2, <2>3, SameList
  <2> QED
    BY <2>4 DEF f, g
<1>5. /\ FlattenSeq(<<PieceOf(x)>>) = PieceOf(x)
      /\ FlattenSeq(<<SpelledBy(x)>>) = SpelledBy(x)
      /\ FlattenSeq(<<TaggedBy(x)>>) = TaggedBy(x)
  BY FlattenOne
<1> QED
  BY <1>2, <1>3, <1>4, <1>5, Zenon DEF lx, AllPieces, AllSpelled, AllTagged

LEMMA NothingMeasured ==
  /\ Translations(<<>>) = <<>> /\ Pieces(<<>>) = <<>> /\ Characters(<<>>) = <<>> /\ Tags(<<>>) = <<>>
  /\ AllPieces(<<>>) = <<>> /\ AllSpelled(<<>>) = <<>> /\ AllTagged(<<>>) = <<>>
  /\ IsFound(<<>>) /\ AreMeasured(<<>>)
<1>1. IsList(<<>>) /\ Len(<<>>) = 0 /\ IsFound(<<>>) /\ AreMeasured(<<>>)
  BY EmptyList DEF IsFound, AreMeasured
<1>2. ASSUME NEW f, Lists(f), Len(f) = 0 PROVE FlattenSeq(f) = <<>>
  <2>1. f = <<>>
    BY <1>2, ListLength DEF Lists
  <2> QED
    BY <2>1, FlattenEmpty
<1>3. Lists(TranslatedEach(<<>>)) /\ Len(TranslatedEach(<<>>)) = 0
  BY <1>1, TranslatedLists
<1>4. /\ Lists(RenderedEach(<<>>)) /\ Len(RenderedEach(<<>>)) = 0
      /\ Lists(SpelledEach(<<>>)) /\ Len(SpelledEach(<<>>)) = 0
      /\ Lists(TaggedEach(<<>>)) /\ Len(TaggedEach(<<>>)) = 0
  BY <1>1, MeasuresAre
<1>5. /\ Lists(PieceEach(<<>>)) /\ Len(PieceEach(<<>>)) = 0
      /\ Lists(SaidEach(<<>>)) /\ Len(SaidEach(<<>>)) = 0
      /\ Lists(NamedEach(<<>>)) /\ Len(NamedEach(<<>>)) = 0
  BY <1>1, LexemesLists
<1>6. Translations(<<>>) = <<>>
  BY <1>2, <1>3, Zenon DEF Translations, TranslatedEach
<1>7. Pieces(<<>>) = <<>> /\ Characters(<<>>) = <<>> /\ Tags(<<>>) = <<>>
  BY <1>2, <1>4, Zenon DEF Pieces, RenderedEach, Characters, SpelledEach, Tags, TaggedEach
<1>8. AllPieces(<<>>) = <<>> /\ AllSpelled(<<>>) = <<>> /\ AllTagged(<<>>) = <<>>
  BY <1>2, <1>5, Zenon DEF AllPieces, AllSpelled, AllTagged
<1> QED
  BY <1>1, <1>6, <1>7, <1>8

\* The lexemes as they are written again.
LEMMA SpacedIs ==
  ASSUME NEW lx, IsList(lx)
  PROVE  /\ IsList(Spaced(lx)) /\ Len(Spaced(lx)) = Len(lx)
         /\ \A i \in 1..Len(lx) : Spaced(lx)[i] = Respaced(lx[i])
<1> DEFINE f == Spaced(lx)
<1>1. DOMAIN lx = 1..Len(lx) /\ Len(lx) \in Nat
  BY ListLength
<1>2. f = [i \in 1..Len(lx) |-> f[i]] /\ \A i \in 1..Len(lx) : f[i] = Respaced(lx[i])
  BY <1>1 DEF Spaced
<1> HIDE DEF f
<1>3. IsList(f) /\ Len(f) = Len(lx)
  BY <1>1, <1>2, FunctionList
<1> QED
  BY <1>2, <1>3 DEF f

LEMMA SpacedJoin ==
  ASSUME NEW lx, IsList(lx), NEW ly, IsList(ly)
  PROVE  Joining(Spaced(lx \o ly), Spaced(lx), Spaced(ly))
<1> DEFINE lz == lx \o ly
           f == Spaced(lx)
           g == Spaced(ly)
           h == Spaced(lz)
           m == Len(lx)
           n == Len(ly)
<1>1. /\ IsList(lz) /\ Len(lz) = m + n /\ m \in Nat /\ n \in Nat
      /\ \A i \in 1..m : lz[i] = lx[i]
      /\ \A i \in 1..n : lz[m + i] = ly[i]
  BY ConcatList, ListLength
<1> HIDE DEF lz
<1>2. /\ IsList(f) /\ Len(f) = m /\ \A i \in 1..m : f[i] = Respaced(lx[i])
      /\ IsList(g) /\ Len(g) = n /\ \A i \in 1..n : g[i] = Respaced(ly[i])
      /\ IsList(h) /\ Len(h) = m + n /\ \A i \in 1..(m + n) : h[i] = Respaced(lz[i])
  BY <1>1, SpacedIs
<1> HIDE DEF f, g, h, m, n
<1>3. (\A i \in 1..m : i \in 1..(m + n)) /\ (\A i \in 1..n : m + i \in 1..(m + n))
  BY <1>1
<1>4. IsConcat(h, f, g)
  BY <1>1, <1>2, <1>3 DEF IsConcat
<1>5. h = f \o g
  BY <1>2, <1>4, JoinIs
<1> QED
  BY <1>5, Zenon DEF Joining, f, g, h, lz

LEMMA PiecesSpaced ==
  ASSUME NEW lx, IsList(lx), \A i \in 1..Len(lx) : lx[i][1] # "<?xml"
  PROVE  AllPieces(lx) = Spaced(lx)
<1> DEFINE f == PieceEach(lx)
           g == Spaced(lx)
<1>1. Lists(f) /\ Len(f) = Len(lx) /\ \A i \in 1..Len(lx) : f[i] = PieceOf(lx[i])
  BY LexemesLists
<1>2. IsList(g) /\ Len(g) = Len(lx) /\ \A i \in 1..Len(lx) : g[i] = Respaced(lx[i])
  BY SpacedIs
<1> HIDE DEF f, g
<1>3. \A i \in 1..Len(g) : f[i] = <<g[i]>>
  BY <1>1, <1>2, LexemeMeasures
<1>4. FlattenSeq(f) = g
  BY <1>1, <1>2, <1>3, FlattenSingles DEF Lists
<1> QED
  BY <1>4, Zenon DEF AllPieces, f, g

\* What is found says what the lexemes do.
SaysSame(xs, lx) ==
  /\ IsFound(xs) /\ AreMeasured(Translations(xs))
  /\ Pieces(Translations(xs)) = AllPieces(lx)
  /\ Characters(Translations(xs)) = AllSpelled(lx)
  /\ Tags(Translations(xs)) = AllTagged(lx)

LEMMA SaysMore ==
  ASSUME NEW xs, NEW lx, IsList(lx), SaysSame(xs, lx), NEW x, IsRendered(x)
  PROVE  SaysSame(ReadLexeme(xs, x), Append(lx, x))
<1> DEFINE ys == ReadLexeme(xs, x)
           ly == <<x>>
<1>1. Comes(xs, ys, PieceOf(x), SpelledBy(x), TaggedBy(x))
  BY ReadStep DEF SaysSame
<1>2. IsList(ly) /\ Append(lx, x) = lx \o ly
  BY Singleton, AppendOne
<1>3. AllPieces(ly) = PieceOf(x) /\ AllSpelled(ly) = SpelledBy(x) /\ AllTagged(ly) = TaggedBy(x)
  BY OneLexeme
<1> HIDE DEF ly, ys
<1>4. /\ Joining(AllPieces(lx \o ly), AllPieces(lx), AllPieces(ly))
      /\ Joining(AllSpelled(lx \o ly), AllSpelled(lx), AllSpelled(ly))
      /\ Joining(AllTagged(lx \o ly), AllTagged(lx), AllTagged(ly))
  BY <1>2, LexemesJoin
<1>5. SaysSame(ys, Append(lx, x))
  BY <1>1, <1>2, <1>3, <1>4, Zenon DEF SaysSame, Comes, Adds, Joining
<1> QED
  BY <1>5 DEF ys

ReadingOf(f, lx, N) == f = [n \in 0..N |-> IF n = 0 THEN <<>> ELSE ReadLexeme(f[n - 1], lx[n])]
CanReadTo(lx, N)    == \E f : ReadingOf(f, lx, N)

LEMMA ReadingExists ==
  ASSUME NEW lx, NEW N \in Nat
  PROVE  CanReadTo(lx, N)
<1> DEFINE T == {n \in Nat : CanReadTo(lx, n)}
<1>1. 0 \in T
  <2> DEFINE f == [n \in 0..0 |-> <<>>]
             h == [n \in 0..0 |-> IF n = 0 THEN <<>> ELSE ReadLexeme(f[n - 1], lx[n])]
  <2>1. f = h
    <3>1. \A n \in 0..0 : n = 0
      OBVIOUS
    <3> QED
      BY <3>1
  <2>2. ReadingOf(f, lx, 0)
    BY <2>1, Zenon DEF ReadingOf
  <2> HIDE DEF f
  <2> QED
    BY <2>2 DEF CanReadTo
<1>2. ASSUME NEW n \in T PROVE n + 1 \in T
  <2>1. PICK f : ReadingOf(f, lx, n)
    BY DEF CanReadTo
  <2>2. n \in Nat
    OBVIOUS
  <2> DEFINE x == ReadLexeme(f[n], lx[n + 1])
             g == [k \in 0..(n + 1) |-> IF k = n + 1 THEN x ELSE f[k]]
             h == [k \in 0..(n + 1) |-> IF k = 0 THEN <<>> ELSE ReadLexeme(g[k - 1], lx[k])]
  <2>3. ASSUME NEW k \in 0..(n + 1) PROVE g[k] = h[k]
    <3>1. CASE k = n + 1
      <4>1. k - 1 = n /\ k # 0 /\ n \in 0..(n + 1) /\ n # n + 1
        BY <2>2, <3>1
      <4>2. g[k - 1] = f[n]
        BY <4>1
      <4>3. g[k] = x
        BY <3>1
      <4>4. h[k] = ReadLexeme(g[k - 1], lx[k])
        BY <4>1
      <4> QED
        BY <3>1, <4>2, <4>3, <4>4, Zenon
    <3>2. CASE k # n + 1
      <4>1. k \in 0..n /\ (k # 0 => k - 1 \in 0..(n + 1) /\ k - 1 # n + 1)
        BY <2>2, <3>2
      <4>2. f[k] = IF k = 0 THEN <<>> ELSE ReadLexeme(f[k - 1], lx[k])
        BY <2>1, <4>1, Zenon DEF ReadingOf
      <4>3. g[k] = f[k] /\ (k # 0 => g[k - 1] = f[k - 1])
        BY <3>2, <4>1
      <4>4. h[k] = IF k = 0 THEN <<>> ELSE ReadLexeme(g[k - 1], lx[k])
        BY Zenon
      <4> HIDE DEF g, h
      <4> QED
        BY <4>2, <4>3, <4>4, Zenon
    <3> QED
      BY <3>1, <3>2
  <2>4. g = h
    BY <2>3
  <2>5. ReadingOf(g, lx, n + 1)
    BY <2>4, Zenon DEF ReadingOf
  <2>6. CanReadTo(lx, n + 1)
    BY <2>5, Zenon DEF CanReadTo
  <2>7. n + 1 \in Nat
    BY <2>2
  <2> HIDE DEF x, g, h
  <2> QED
    BY <2>6, <2>7
<1> HIDE DEF T
<1>3. T \in SUBSET Nat
  BY DEF T
<1>4. T = Nat
  BY <1>1, <1>2, <1>3, NatSetInduction
<1> QED
  BY <1>4 DEF T

LEMMA ReadXmlIs ==
  ASSUME NEW lx, IsList(lx)
  PROVE  \E f : ReadingOf(f, lx, Len(lx)) /\ ReadXml(lx) = f[Len(lx)]
<1> DEFINE found == CHOOSE f : f = [n \in 0..Len(lx) |-> IF n = 0 THEN <<>> ELSE ReadLexeme(f[n - 1], lx[n])]
<1>1. \E f : ReadingOf(f, lx, Len(lx))
  BY ReadingExists, ListLength DEF CanReadTo
<1>2. ReadingOf(found, lx, Len(lx))
  BY <1>1, Zenon DEF ReadingOf
<1>3. ReadXml(lx) = found[Len(lx)]
  BY Zenon DEF ReadXml
<1> HIDE DEF found
<1> QED
  BY <1>2, <1>3

\* XML that was rendered says the same when it is read.
LEMMA ReadRendered ==
  ASSUME NEW lx, IsList(lx), \A i \in 1..Len(lx) : IsRendered(lx[i])
  PROVE  SaysSame(ReadXml(lx), lx)
<1> DEFINE N == Len(lx)
<1>1. PICK f : ReadingOf(f, lx, N) /\ ReadXml(lx) = f[N]
  BY ReadXmlIs
<1>2. N \in Nat
  BY ListLength
<1> DEFINE T == {n \in Nat : n <= N => SaysSame(f[n], Begins(lx, n))}
<1>3. 0 \in T
  <2>1. f[0] = <<>>
    <3>1. 0 \in 0..N
      BY <1>2
    <3> QED
      BY <1>1, <3>1, Zenon DEF ReadingOf
  <2>2. Begins(lx, 0) = <<>>
    BY BeginsAll
  <2>3. SaysSame(<<>>, <<>>)
    BY NothingMeasured, Zenon DEF SaysSame
  <2> QED
    BY <2>1, <2>2, <2>3
<1>4. ASSUME NEW n \in T PROVE n + 1 \in T
  <2>1. n \in Nat /\ n + 1 \in Nat
    OBVIOUS
  <2>2. ASSUME n + 1 <= N PROVE SaysSame(f[n + 1], Begins(lx, n + 1))
    <3>1. n < N /\ n <= N /\ n \in 0..N /\ n + 1 \in 0..N /\ n + 1 # 0 /\ (n + 1) - 1 = n /\ n + 1 \in 1..N
      BY <1>2, <2>1, <2>2
    <3>2. f[n + 1] = ReadLexeme(f[n], lx[n + 1])
      <4>1. f[n + 1] = ReadLexeme(f[(n + 1) - 1], lx[n + 1])
        BY <1>1, <3>1, Zenon DEF ReadingOf
      <4> QED
        BY <3>1, <4>1
    <3>3. Begins(lx, n + 1) = Append(Begins(lx, n), lx[n + 1])
      BY <2>1, <3>1, BeginsNext
    <3>4. IsList(Begins(lx, n))
      BY <3>1, BeginsIs
    <3>5. SaysSame(f[n], Begins(lx, n)) /\ IsRendered(lx[n + 1])
      BY <3>1
    <3>6. SaysSame(ReadLexeme(f[n], lx[n + 1]), Append(Begins(lx, n), lx[n + 1]))
      BY <3>4, <3>5, SaysMore
    <3> QED
      BY <3>2, <3>3, <3>6, Zenon
  <2> QED
    BY <2>1, <2>2
<1> HIDE DEF T
<1>5. T \in SUBSET Nat
  BY DEF T
<1>6. T = Nat
  BY <1>3, <1>4, <1>5, NatSetInduction
<1>7. N \in T /\ N <= N
  BY <1>2, <1>6
<1>8. SaysSame(f[N], Begins(lx, N))
  BY <1>7 DEF T
<1> QED
  BY <1>1, <1>8, BeginsAll, Zenon

-----------------------------------------------------------------------------
(***************************************************************************)
(* The digits of a number.                                                 *)
(***************************************************************************)
LEMMA DigitIs ==
  /\ DOMAIN Digit = 1..16
  /\ Digit[1] = "0" /\ Digit[2] = "1" /\ Digit[3] = "2" /\ Digit[4] = "3"
  /\ Digit[5] = "4" /\ Digit[6] = "5" /\ Digit[7] = "6" /\ Digit[8] = "7"
  /\ Digit[9] = "8" /\ Digit[10] = "9" /\ Digit[11] = "a" /\ Digit[12] = "b"
  /\ Digit[13] = "c" /\ Digit[14] = "d" /\ Digit[15] = "e" /\ Digit[16] = "f"
BY DEF Digit

OneOfSixteen(i) == \/ i = 1 \/ i = 2 \/ i = 3 \/ i = 4 \/ i = 5 \/ i = 6 \/ i = 7 \/ i = 8
                   \/ i = 9 \/ i = 10 \/ i = 11 \/ i = 12 \/ i = 13 \/ i = 14 \/ i = 15 \/ i = 16

LEMMA Sixteen ==
  ASSUME NEW i \in 1..16
  PROVE  OneOfSixteen(i)
BY DEF OneOfSixteen

LEMMA DigitsPlain ==
  ASSUME NEW i \in 1..16
  PROVE  Digit[i] \notin Specials /\ Digit[i] # "-" /\ (Digit[i] = "0" => i = 1)
<1>1. OneOfSixteen(i)
  BY Sixteen
<1>2. Digit[i] \notin Specials
  BY <1>1, DigitIs DEF OneOfSixteen, Specials
<1>3. Digit[i] # "-"
  BY <1>1, DigitIs DEF OneOfSixteen
<1>4. Digit[i] = "0" => i = 1
  BY <1>1, DigitIs DEF OneOfSixteen
<1> QED
  BY <1>2, <1>3, <1>4

LEMMA DigitsDiffer ==
  ASSUME NEW i \in 1..16, NEW j \in 1..16, Digit[i] = Digit[j]
  PROVE  i = j
<1>1. OneOfSixteen(i) /\ OneOfSixteen(j)
  BY Sixteen
<1> QED
  BY <1>1, DigitIs DEF OneOfSixteen

LEMMA WorthIs ==
  ASSUME NEW i \in 1..16
  PROVE  Worth(Digit[i]) = i - 1
<1>1. (CHOOSE j \in DOMAIN Digit : Digit[j] = Digit[i]) = i
  <2>1. i \in DOMAIN Digit /\ \A j \in DOMAIN Digit : Digit[j] = Digit[i] => j = i
    BY DigitIs, DigitsDiffer
  <2> QED
    BY <2>1, Zenon
<1> QED
  BY <1>1, Zenon DEF Worth

Bases == {10, 16}

LEMMA Divided ==
  ASSUME NEW base \in Bases, NEW k \in Nat
  PROVE  /\ k \div base \in Nat /\ k % base \in 0..(base - 1)
         /\ k = (k \div base) * base + (k % base)
         /\ k >= base => k \div base < k /\ k \div base > 0
<1>1. CASE base = 10
  BY <1>1
<1>2. CASE base = 16
  BY <1>2
<1> QED
  BY <1>1, <1>2 DEF Bases

NextDigits(f, k, base) == IF k < base THEN <<Digit[k + 1]>>
                          ELSE Append(f[k \div base], Digit[(k % base) + 1])
Spelling(f, N, base) == f = [k \in 0..N |-> NextDigits(f, k, base)]
CanSpell(N, base)    == \E f : Spelling(f, N, base)

LEMMA SpellingExists ==
  ASSUME NEW base \in Bases, NEW N \in Nat
  PROVE  CanSpell(N, base)
<1> DEFINE T == {n \in Nat : CanSpell(n, base)}
<1>1. 0 \in T
  <2> DEFINE e == [k \in 0..0 |-> <<>>]
             f == [k \in 0..0 |-> NextDigits(e, k, base)]
             h == [k \in 0..0 |-> NextDigits(f, k, base)]
  <2>1. \A k \in 0..0 : k < base
    BY DEF Bases
  <2>2. \A k \in 0..0 : NextDigits(e, k, base) = NextDigits(f, k, base)
    BY <2>1, Zenon DEF NextDigits
  <2>3. f = h
    BY <2>2, Zenon
  <2>4. Spelling(f, 0, base)
    BY <2>3, Zenon DEF Spelling
  <2> HIDE DEF f
  <2>5. CanSpell(0, base)
    BY <2>4 DEF CanSpell
  <2> QED
    BY <2>5
<1>2. ASSUME NEW n \in T PROVE n + 1 \in T
  <2>1. PICK f : Spelling(f, n, base)
    BY DEF CanSpell
  <2>2. n \in Nat
    OBVIOUS
  <2> DEFINE x == NextDigits(f, n + 1, base)
             g == [k \in 0..(n + 1) |-> IF k = n + 1 THEN x ELSE f[k]]
             h == [k \in 0..(n + 1) |-> NextDigits(g, k, base)]
  <2>3. ASSUME NEW k \in 0..(n + 1) PROVE g[k] = h[k]
    <3>1. ~(k < base) => k \div base \in 0..(n + 1) /\ k \div base # n + 1
      <4>1. ~(k < base) => k \div base < k /\ k \div base \in Nat
        BY <2>2, Divided DEF Bases
      <4> QED
        BY <2>2, <4>1
    <3>2. ~(k < base) => g[k \div base] = f[k \div base]
      BY <3>1
    <3>3. NextDigits(g, k, base) = NextDigits(f, k, base)
      <4> HIDE DEF g
      <4> QED
        BY <3>2, Zenon DEF NextDigits
    <3>4. CASE k = n + 1
      BY <3>3, <3>4
    <3>5. CASE k # n + 1
      <4>1. k \in 0..n
        BY <2>2, <3>5
      <4>2. f[k] = NextDigits(f, k, base)
        BY <2>1, <4>1, Zenon DEF Spelling
      <4>3. g[k] = f[k]
        BY <3>5
      <4>4. h[k] = NextDigits(g, k, base)
        BY Zenon
      <4> QED
        BY <3>3, <4>2, <4>3, <4>4, Zenon
    <3> QED
      BY <3>4, <3>5
  <2>4. g = h
    BY <2>3
  <2>5. Spelling(g, n + 1, base)
    BY <2>4, Zenon DEF Spelling
  <2>6. CanSpell(n + 1, base)
    BY <2>5, Zenon DEF CanSpell
  <2>7. n + 1 \in Nat
    BY <2>2
  <2> HIDE DEF x, g, h
  <2> QED
    BY <2>6, <2>7
<1> HIDE DEF T
<1>3. T \in SUBSET Nat
  BY DEF T
<1>4. T = Nat
  BY <1>1, <1>2, <1>3, NatSetInduction
<1> QED
  BY <1>4 DEF T

LEMMA SameSpelling ==
  ASSUME NEW base \in Bases, NEW N \in Nat, NEW M \in Nat, N <= M, NEW f, NEW g,
         Spelling(f, N, base), Spelling(g, M, base)
  PROVE  f[N] = g[N]
<1> DEFINE T == {n \in Nat : \A k \in 0..n : k <= N => f[k] = g[k]}
<1>1. ASSUME NEW k \in 0..N, \A j \in 0..N : j < k => f[j] = g[j]
      PROVE  f[k] = g[k]
  <2>1. k \in Nat /\ k \in 0..M
    OBVIOUS
  <2>2. ~(k < base) => k \div base \in 0..N /\ k \div base < k
    <3>1. ~(k < base) => k \div base < k /\ k \div base \in Nat
      BY <2>1, Divided DEF Bases
    <3> QED
      BY <2>1, <3>1
  <2>3. ~(k < base) => f[k \div base] = g[k \div base]
    BY <1>1, <2>2
  <2>4. f[k] = NextDigits(f, k, base) /\ g[k] = NextDigits(g, k, base)
    BY <2>1, Zenon DEF Spelling
  <2>5. NextDigits(f, k, base) = NextDigits(g, k, base)
    BY <2>3, Zenon DEF NextDigits
  <2> QED
    BY <2>4, <2>5
<1>2. 0 \in T
  <2>1. f[0] = g[0]
    <3>1. 0 \in 0..N /\ ~\E j \in 0..N : j < 0
      OBVIOUS
    <3> QED
      BY <1>1, <3>1
  <2> QED
    BY <2>1
<1>3. ASSUME NEW n \in T PROVE n + 1 \in T
  <2>1. n \in Nat /\ n + 1 \in Nat /\ \A k \in 0..n : k <= N => f[k] = g[k]
    OBVIOUS
  <2>2. ASSUME n + 1 <= N PROVE f[n + 1] = g[n + 1]
    <3>1. n + 1 \in 0..N /\ \A j \in 0..N : j < n + 1 => j \in 0..n /\ j <= N
      BY <2>1, <2>2
    <3> QED
      BY <1>1, <2>1, <3>1
  <2>3. \A k \in 0..(n + 1) : k \in 0..n \/ k = n + 1
    BY <2>1
  <2> QED
    BY <2>1, <2>2, <2>3
<1> HIDE DEF T
<1>4. T \in SUBSET Nat
  BY DEF T
<1>5. T = Nat
  BY <1>2, <1>3, <1>4, NatSetInduction
<1>6. N \in T /\ N \in 0..N /\ N <= N
  BY <1>5
<1> QED
  BY <1>6 DEF T

LEMMA DigitsStep ==
  ASSUME NEW base \in Bases, NEW n \in Nat
  PROVE  Digits(n, base) = IF n < base THEN <<Digit[n + 1]>>
                           ELSE Append(Digits(n \div base, base), Digit[(n % base) + 1])
<1> DEFINE F(k) == CHOOSE f : Spelling(f, k, base)
           h == [k \in Nat |-> F(k)[k]]
           text == CHOOSE f : f = [k \in Nat |-> IF k < base THEN <<Digit[k + 1]>>
                                                 ELSE Append(f[k \div base], Digit[(k % base) + 1])]
<1>1. ASSUME NEW k \in Nat PROVE Spelling(F(k), k, base)
  <2>1. CanSpell(k, base)
    BY SpellingExists
  <2> QED
    BY <2>1, Zenon DEF CanSpell
<1> HIDE DEF F
<1>2. ASSUME NEW k \in Nat PROVE h[k] = NextDigits(h, k, base)
  <2>1. k \in 0..k
    OBVIOUS
  <2>2. F(k)[k] = NextDigits(F(k), k, base)
    <3>1. Spelling(F(k), k, base)
      BY <1>1
    <3> QED
      BY <2>1, <3>1, Zenon DEF Spelling
  <2>3. ~(k < base) => k \div base \in Nat /\ k \div base <= k
    BY Divided DEF Bases
  <2>4. ASSUME ~(k < base) PROVE F(k)[k \div base] = h[k \div base]
    <3> DEFINE j == k \div base
    <3>1. j \in Nat /\ j <= k
      BY <2>3, <2>4
    <3> HIDE DEF j
    <3>2. Spelling(F(j), j, base) /\ Spelling(F(k), k, base)
      BY <1>1, <3>1
    <3>3. F(j)[j] = F(k)[j]
      BY <3>1, <3>2, SameSpelling
    <3>4. h[j] = F(j)[j]
      BY <3>1
    <3> QED
      BY <3>3, <3>4 DEF j
  <2>5. h[k] = F(k)[k]
    OBVIOUS
  <2> HIDE DEF h
  <2>6. NextDigits(F(k), k, base) = NextDigits(h, k, base)
    BY <2>4, Zenon DEF NextDigits
  <2> QED
    BY <2>2, <2>5, <2>6, Zenon
<1>3. h = [k \in Nat |-> NextDigits(h, k, base)]
  <2> DEFINE g == [k \in Nat |-> NextDigits(h, k, base)]
  <2>1. \A k \in Nat : h[k] = g[k]
    BY <1>2
  <2> QED
    BY <2>1
<1> HIDE DEF h
<1>4. text = [k \in Nat |-> NextDigits(text, k, base)]
  <2>1. h = [k \in Nat |-> IF k < base THEN <<Digit[k + 1]>>
                           ELSE Append(h[k \div base], Digit[(k % base) + 1])]
    BY <1>3, Zenon DEF NextDigits
  <2>2. text = [k \in Nat |-> IF k < base THEN <<Digit[k + 1]>>
                              ELSE Append(text[k \div base], Digit[(k % base) + 1])]
    BY <2>1, Zenon
  <2> HIDE DEF text
  <2> QED
    BY <2>2, Zenon DEF NextDigits
<1>5. \A m \in Nat : Digits(m, base) = text[m]
  BY Zenon DEF Digits
<1> HIDE DEF text
<1>6. text[n] = NextDigits(text, n, base)
  BY <1>4, Zenon
<1>7. n \div base \in Nat
  BY Divided
<1> QED
  BY <1>5, <1>6, <1>7, Zenon DEF NextDigits

\* The value of digits, most significant first.
Valuing(f, ds, base, N) == f = [i \in 0..N |-> IF i = 0 THEN 0 ELSE f[i - 1] * base + Worth(ds[i])]
CanValue(ds, base, N)   == \E f : Valuing(f, ds, base, N)

LEMMA ValuingExists ==
  ASSUME NEW ds, NEW base, NEW N \in Nat
  PROVE  CanValue(ds, base, N)
<1> DEFINE T == {n \in Nat : CanValue(ds, base, n)}
<1>1. 0 \in T
  <2> DEFINE f == [i \in 0..0 |-> 0]
             h == [i \in 0..0 |-> IF i = 0 THEN 0 ELSE f[i - 1] * base + Worth(ds[i])]
  <2>1. f = h
    <3>1. \A n \in 0..0 : n = 0
      OBVIOUS
    <3> QED
      BY <3>1
  <2>2. Valuing(f, ds, base, 0)
    BY <2>1, Zenon DEF Valuing
  <2> HIDE DEF f
  <2> QED
    BY <2>2 DEF CanValue
<1>2. ASSUME NEW n \in T PROVE n + 1 \in T
  <2>1. PICK f : Valuing(f, ds, base, n)
    BY DEF CanValue
  <2>2. n \in Nat
    OBVIOUS
  <2> DEFINE x == f[n] * base + Worth(ds[n + 1])
             g == [k \in 0..(n + 1) |-> IF k = n + 1 THEN x ELSE f[k]]
             h == [k \in 0..(n + 1) |-> IF k = 0 THEN 0 ELSE g[k - 1] * base + Worth(ds[k])]
  <2>3. ASSUME NEW k \in 0..(n + 1) PROVE g[k] = h[k]
    <3>1. CASE k = n + 1
      <4>1. k - 1 = n /\ k # 0 /\ n \in 0..(n + 1) /\ n # n + 1
        BY <2>2, <3>1
      <4>2. g[k - 1] = f[n]
        BY <4>1
      <4>3. g[k] = x
        BY <3>1
      <4>4. h[k] = g[k - 1] * base + Worth(ds[k])
        BY <4>1
      <4> QED
        BY <3>1, <4>2, <4>3, <4>4, Zenon
    <3>2. CASE k # n + 1
      <4>1. k \in 0..n /\ (k # 0 => k - 1 \in 0..(n + 1) /\ k - 1 # n + 1)
        BY <2>2, <3>2
      <4>2. f[k] = IF k = 0 THEN 0 ELSE f[k - 1] * base + Worth(ds[k])
        BY <2>1, <4>1, Zenon DEF Valuing
      <4>3. g[k] = f[k] /\ (k # 0 => g[k - 1] = f[k - 1])
        BY <3>2, <4>1
      <4>4. h[k] = IF k = 0 THEN 0 ELSE g[k - 1] * base + Worth(ds[k])
        BY Zenon
      <4> HIDE DEF g, h
      <4> QED
        BY <4>2, <4>3, <4>4, Zenon
    <3> QED
      BY <3>1, <3>2
  <2>4. g = h
    BY <2>3
  <2>5. Valuing(g, ds, base, n + 1)
    BY <2>4, Zenon DEF Valuing
  <2>6. CanValue(ds, base, n + 1)
    BY <2>5, Zenon DEF CanValue
  <2>7. n + 1 \in Nat
    BY <2>2
  <2> HIDE DEF x, g, h
  <2> QED
    BY <2>6, <2>7
<1> HIDE DEF T
<1>3. T \in SUBSET Nat
  BY DEF T
<1>4. T = Nat
  BY <1>1, <1>2, <1>3, NatSetInduction
<1> QED
  BY <1>4 DEF T

LEMMA NaturalIs ==
  ASSUME NEW ds, IsList(ds), NEW base
  PROVE  \E f : Valuing(f, ds, base, Len(ds)) /\ Natural(ds, base) = f[Len(ds)]
<1> DEFINE value == CHOOSE f : f = [i \in 0..Len(ds) |-> IF i = 0 THEN 0 ELSE f[i - 1] * base + Worth(ds[i])]
<1>1. \E f : Valuing(f, ds, base, Len(ds))
  BY ValuingExists, ListLength DEF CanValue
<1>2. Valuing(value, ds, base, Len(ds))
  BY <1>1, Zenon DEF Valuing
<1>3. Natural(ds, base) = value[Len(ds)]
  BY Zenon DEF Natural
<1> HIDE DEF value
<1> QED
  BY <1>2, <1>3

LEMMA SameValue ==
  ASSUME NEW f, NEW g, NEW ds, NEW es, NEW base, NEW N \in Nat, NEW M \in Nat, N <= M,
         Valuing(f, ds, base, N), Valuing(g, es, base, M), \A i \in 1..N : ds[i] = es[i]
  PROVE  f[N] = g[N]
<1> DEFINE T == {n \in Nat : n <= N => f[n] = g[n]}
<1>1. 0 \in T
  <2>1. 0 \in 0..N /\ 0 \in 0..M
    OBVIOUS
  <2>2. f[0] = 0 /\ g[0] = 0
    BY <2>1, Zenon DEF Valuing
  <2> QED
    BY <2>2
<1>2. ASSUME NEW n \in T PROVE n + 1 \in T
  <2>1. n \in Nat /\ n + 1 \in Nat
    OBVIOUS
  <2>2. ASSUME n + 1 <= N PROVE f[n + 1] = g[n + 1]
    <3>1. /\ n <= N /\ n + 1 \in 0..N /\ n + 1 \in 0..M /\ n + 1 \in 1..N
          /\ n + 1 # 0 /\ (n + 1) - 1 = n
      BY <2>1, <2>2
    <3>2. f[n + 1] = f[(n + 1) - 1] * base + Worth(ds[n + 1])
      BY <3>1, Zenon DEF Valuing
    <3>3. g[n + 1] = g[(n + 1) - 1] * base + Worth(es[n + 1])
      BY <3>1, Zenon DEF Valuing
    <3>4. f[n] = g[n] /\ ds[n + 1] = es[n + 1]
      BY <3>1
    <3>5. f[(n + 1) - 1] = g[(n + 1) - 1]
      BY <3>1, <3>4, Zenon
    <3> QED
      BY <3>2, <3>3, <3>4, <3>5, Zenon
  <2> QED
    BY <2>1, <2>2
<1> HIDE DEF T
<1>3. T \in SUBSET Nat
  BY DEF T
<1>4. T = Nat
  BY <1>1, <1>2, <1>3, NatSetInduction
<1>5. N \in T /\ N <= N
  BY <1>4
<1> QED
  BY <1>5 DEF T

LEMMA NaturalMore ==
  ASSUME NEW ds, IsList(ds), NEW d, NEW base
  PROVE  Natural(Append(ds, d), base) = Natural(ds, base) * base + Worth(d)
<1> DEFINE es == Append(ds, d)
           N == Len(ds)
<1>1. /\ IsList(es) /\ Len(es) = N + 1 /\ N \in Nat
      /\ \A i \in 1..N : ds[i] = es[i]
      /\ es[N + 1] = d
  BY AppendList, ListLength
<1> HIDE DEF es
<1>2. PICK f : Valuing(f, ds, base, N) /\ Natural(ds, base) = f[N]
  BY NaturalIs
<1>3. PICK g : Valuing(g, es, base, N + 1) /\ Natural(es, base) = g[N + 1]
  BY <1>1, NaturalIs
<1>4. N + 1 \in Nat /\ N <= N + 1 /\ N + 1 \in 0..(N + 1) /\ N + 1 # 0 /\ (N + 1) - 1 = N
  BY <1>1
<1>5. f[N] = g[N]
  BY <1>1, <1>2, <1>3, <1>4, SameValue
<1>6. g[N + 1] = g[(N + 1) - 1] * base + Worth(es[N + 1])
  BY <1>3, <1>4, Zenon DEF Valuing
<1> HIDE DEF N
<1> QED
  BY <1>1, <1>2, <1>3, <1>4, <1>5, <1>6, Zenon DEF es

LEMMA NaturalOne ==
  ASSUME NEW d, NEW base \in Bases, Worth(d) \in Nat
  PROVE  Natural(<<d>>, base) = Worth(d)
<1> DEFINE ds == <<d>>
<1>1. IsList(ds) /\ Len(ds) = 1 /\ ds[1] = d
  BY Singleton
<1> HIDE DEF ds
<1>2. PICK f : Valuing(f, ds, base, 1) /\ Natural(ds, base) = f[1]
  BY <1>1, NaturalIs
<1>3. 0 \in 0..1 /\ 1 \in 0..1 /\ 1 # 0 /\ 1 - 1 = 0
  OBVIOUS
<1>4. f[0] = 0
  BY <1>2, <1>3, Zenon DEF Valuing
<1>5. f[1] = f[1 - 1] * base + Worth(ds[1])
  BY <1>2, <1>3, Zenon DEF Valuing
<1>6. f[1] = 0 * base + Worth(d)
  BY <1>1, <1>3, <1>4, <1>5, Zenon
<1>7. 0 * base + Worth(d) = Worth(d)
  BY DEF Bases
<1> QED
  BY <1>2, <1>6, <1>7 DEF ds

IsDigit(c) == \E j \in 1..16 : c = Digit[j]

WellSpelled(n, base) ==
  LET ds == Digits(n, base) IN
  /\ IsList(ds) /\ Len(ds) > 0 /\ \A i \in 1..Len(ds) : IsDigit(ds[i])
  /\ Natural(ds, base) = n
  /\ ds[1] = "0" => n = 0

LEMMA SpelledWell ==
  ASSUME NEW base \in Bases, NEW n \in Nat
  PROVE  WellSpelled(n, base)
<1> DEFINE T == {m \in Nat : \A k \in 0..m : WellSpelled(k, base)}
<1>1. ASSUME NEW k \in Nat, \A j \in Nat : j < k => WellSpelled(j, base)
      PROVE  WellSpelled(k, base)
  <2>1. CASE k < base
    <3> DEFINE d == Digit[k + 1]
    <3>1. k + 1 \in 1..16 /\ (k + 1) - 1 = k
      BY <2>1 DEF Bases
    <3>2. Digits(k, base) = <<d>>
      BY <2>1, DigitsStep, Zenon
    <3>3. Worth(d) = k /\ IsDigit(d) /\ (d = "0" => k + 1 = 1)
      BY <3>1, WorthIs, DigitsPlain DEF IsDigit
    <3> HIDE DEF d
    <3> DEFINE ds == <<d>>
    <3>4. IsList(ds) /\ Len(ds) = 1 /\ ds[1] = d
      BY Singleton
    <3>5. Natural(ds, base) = k
      BY <3>3, NaturalOne
    <3> HIDE DEF ds
    <3>6. Digits(k, base) = ds
      BY <3>2 DEF ds
    <3>7. \A i \in 1..Len(ds) : IsDigit(ds[i])
      <4>1. \A i \in 1..Len(ds) : i = 1
        BY <3>4
      <4> QED
        BY <3>3, <3>4, <4>1
    <3>8. ds[1] = "0" => k = 0
      BY <3>3, <3>4
    <3>9. Len(ds) > 0
      BY <3>4
    <3> QED
      BY <3>4, <3>5, <3>6, <3>7, <3>8, <3>9, Zenon DEF WellSpelled
  <2>2. CASE ~(k < base)
    <3> DEFINE q == k \div base
               r == k % base
               d == Digit[r + 1]
               es == Digits(q, base)
               ds == Append(es, d)
    <3>1. q \in Nat /\ q < k /\ q > 0 /\ r + 1 \in 1..16 /\ (r + 1) - 1 = r /\ k = q * base + r
      <4>1. k >= base
        BY <2>2 DEF Bases
      <4> HIDE DEF q, r
      <4>2. /\ q \in Nat /\ r \in 0..(base - 1) /\ k = q * base + r
            /\ q < k /\ q > 0
        BY <4>1, Divided DEF q, r
      <4>3. r + 1 \in 1..16 /\ (r + 1) - 1 = r
        BY <4>2 DEF Bases
      <4> QED
        BY <4>2, <4>3
    <3>2. Digits(k, base) = ds
      BY <2>2, DigitsStep, Zenon
    <3> HIDE DEF q, r
    <3>3. Worth(d) = r /\ IsDigit(d)
      BY <3>1, WorthIs DEF IsDigit
    <3>4. WellSpelled(q, base)
      BY <1>1, <3>1
    <3>5. /\ IsList(es) /\ Len(es) > 0 /\ \A i \in 1..Len(es) : IsDigit(es[i])
          /\ Natural(es, base) = q
          /\ es[1] = "0" => q = 0
      BY <3>4, Zenon DEF WellSpelled
    <3> HIDE DEF d, es
    <3>6. /\ IsList(ds) /\ Len(ds) = Len(es) + 1 /\ Len(es) \in Nat
          /\ \A i \in 1..Len(es) : ds[i] = es[i]
          /\ ds[Len(es) + 1] = d
      BY <3>5, AppendList, ListLength
    <3>7. Natural(ds, base) = Natural(es, base) * base + Worth(d)
      BY <3>5, NaturalMore
    <3> HIDE DEF ds
    <3>8. Natural(ds, base) = k
      BY <3>1, <3>3, <3>5, <3>7, Zenon
    <3>9. \A i \in 1..Len(ds) : IsDigit(ds[i])
      <4>1. \A i \in 1..Len(ds) : i \in 1..Len(es) \/ i = Len(es) + 1
        BY <3>6
      <4> QED
        BY <3>3, <3>5, <3>6, <4>1
    <3>10. ds[1] # "0"
      <4>1. 1 \in 1..Len(es) /\ q # 0
        BY <3>1, <3>5, <3>6
      <4> QED
        BY <3>5, <3>6, <4>1
    <3>11. Len(ds) > 0
      BY <3>6
    <3> QED
      BY <3>2, <3>6, <3>8, <3>9, <3>10, <3>11, Zenon DEF WellSpelled
  <2> QED
    BY <2>1, <2>2
<1>2. 0 \in T
  <2>1. \A k \in 0..0 : k \in Nat /\ ~\E j \in Nat : j < k
    OBVIOUS
  <2> QED
    BY <1>1, <2>1
<1>3. ASSUME NEW m \in T PROVE m + 1 \in T
  <2>1. m \in Nat /\ m + 1 \in Nat /\ \A k \in 0..m : WellSpelled(k, base)
    OBVIOUS
  <2>2. \A j \in Nat : j < m + 1 => j \in 0..m
    BY <2>1
  <2>3. WellSpelled(m + 1, base)
    BY <1>1, <2>1, <2>2
  <2>4. \A k \in 0..(m + 1) : k \in 0..m \/ k = m + 1
    BY <2>1
  <2> QED
    BY <2>1, <2>3, <2>4
<1> HIDE DEF T
<1>4. T \in SUBSET Nat
  BY DEF T
<1>5. T = Nat
  BY <1>2, <1>3, <1>4, NatSetInduction
<1>6. n \in T /\ n \in 0..n
  BY <1>5
<1> QED
  BY <1>6 DEF T

\* A list of characters, none of which is markup.
LEMMA PlainList ==
  ASSUME NEW s, IsList(s), \A i \in 1..Len(s) : s[i] \notin Specials
  PROVE  IsPlain(s)
<1>1. DOMAIN s = 1..Len(s)
  BY ListLength
<1>2. \A c \in Range(s) : c \notin Specials
  BY <1>1 DEF Range
<1> QED
  BY <1>2 DEF IsPlain

IsNumberText(s, n, base) ==
  IsPlain(s) /\ Number(s, base) = n /\ (s[1] = "0" => s = <<"0">>)

LEMMA DigitsText ==
  ASSUME NEW base \in Bases, NEW n \in Nat
  PROVE  /\ IsNumberText(Digits(n, base), n, base)
         /\ Digits(n, base)[1] # "-"
<1> DEFINE ds == Digits(n, base)
<1>1. /\ IsList(ds) /\ Len(ds) > 0 /\ \A i \in 1..Len(ds) : IsDigit(ds[i])
      /\ Natural(ds, base) = n
      /\ ds[1] = "0" => n = 0
  BY SpelledWell, Zenon DEF WellSpelled
<1>2. ds[1] = "0" => ds = <<"0">>
  <2>1. ASSUME n = 0 PROVE ds = <<"0">>
    <3>1. n < base /\ n + 1 = 1
      BY <2>1 DEF Bases
    <3>2. ds = <<Digit[n + 1]>>
      BY <3>1, DigitsStep, Zenon
    <3>3. Digit[1] = "0"
      BY DigitIs
    <3> QED
      BY <3>1, <3>2, <3>3, Zenon
  <2> QED
    BY <1>1, <2>1
<1> HIDE DEF ds
<1>3. \A i \in 1..Len(ds) : ds[i] \notin Specials /\ ds[i] # "-"
  BY <1>1, DigitsPlain DEF IsDigit
<1>4. IsPlain(ds)
  BY <1>1, <1>3, PlainList
<1>5. ds[1] # "-"
  <2>1. 1 \in 1..Len(ds)
    BY <1>1, ListLength
  <2> QED
    BY <1>3, <2>1
<1>6. Number(ds, base) = n
  BY <1>1, <1>5, Zenon DEF Number
<1> QED
  BY <1>2, <1>4, <1>5, <1>6, Zenon DEF ds, IsNumberText

LEMMA TailOfSign ==
  ASSUME NEW s, IsList(s), NEW c
  PROVE  /\ IsList(<<c>> \o s) /\ (<<c>> \o s)[1] = c /\ Tail(<<c>> \o s) = s
         /\ \A i \in 1..Len(<<c>> \o s) : (<<c>> \o s)[i] = c \/ \E k \in 1..Len(s) : (<<c>> \o s)[i] = s[k]
<1> DEFINE o == <<c>>
           t == o \o s
<1>1. IsList(o) /\ Len(o) = 1 /\ o[1] = c
  BY Singleton
<1> HIDE DEF o
<1>2. /\ IsList(t) /\ Len(t) = Len(o) + Len(s)
      /\ \A i \in 1..Len(o) : t[i] = o[i]
      /\ \A i \in 1..Len(s) : t[Len(o) + i] = s[i]
  <2>1. IsConcat(o \o s, o, s)
    BY <1>1, ConcatIs
  <2> HIDE DEF t
  <2>2. IsConcat(t, o, s)
    BY <2>1 DEF t
  <2> QED
    BY <2>2 DEF IsConcat
<1> HIDE DEF t
<1>3. Len(s) \in Nat
  BY ListLength
<1>4. /\ Len(t) = 1 + Len(s) /\ t[1] = c /\ \A i \in 1..Len(s) : t[1 + i] = s[i]
  BY <1>1, <1>2, <1>3
<1>5. /\ Tail(t) = s
  <2>1. t \in Seq(Range(t)) /\ t # <<>>
    BY <1>2, <1>3, <1>4, ListLength DEF IsList
  <2>2. /\ Tail(t) \in Seq(Range(t)) /\ Len(Tail(t)) = Len(t) - 1
        /\ \A i \in 1..Len(Tail(t)) : Tail(t)[i] = t[i + 1]
    BY <2>1, HeadTailProperties
  <2> DEFINE u == Tail(t)
  <2>3. IsList(u)
    BY <2>2, ListOf
  <2>4. Len(u) = Len(s)
    BY <1>3, <1>4, <2>2
  <2>5. \A i \in 1..Len(u) : u[i] = s[i]
    <3>1. \A i \in 1..Len(s) : i + 1 = 1 + i
      BY <1>3
    <3> QED
      BY <1>4, <2>2, <2>4, <3>1
  <2> HIDE DEF u
  <2>6. u = s
    BY <2>3, <2>4, <2>5, SameList
  <2> QED
    BY <2>6 DEF u
<1>6. ASSUME NEW i \in 1..Len(t) PROVE t[i] = c \/ \E k \in 1..Len(s) : t[i] = s[k]
  <2>1. CASE i = 1
    BY <1>4, <2>1
  <2>2. CASE i # 1
    <3>1. i - 1 \in 1..Len(s) /\ 1 + (i - 1) = i
      BY <1>3, <1>4, <2>2
    <3> QED
      BY <1>4, <3>1
  <2> QED
    BY <2>1, <2>2
<1> QED
  BY <1>2, <1>4, <1>5, <1>6, Zenon DEF t, o

\* A number with a sign reads back.
LEMMA SignedBack ==
  ASSUME NEW base \in Bases, NEW n \in Int
  PROVE  IsNumberText(SignedText(n, base), n, base)
<1>1. CASE n < 0
  <2> DEFINE m == 0 - n
             ds == Digits(m, base)
             s == <<"-">> \o ds
  <2>1. m \in Nat /\ 0 - m = n
    BY <1>1
  <2> HIDE DEF m
  <2>2. IsPlain(ds) /\ Number(ds, base) = m /\ ds[1] # "-"
    BY <2>1, DigitsText, Zenon DEF IsNumberText
  <2>3. Natural(ds, base) = m
    BY <2>2, Zenon DEF Number
  <2> HIDE DEF ds
  <2>4. IsList(ds) /\ \A i \in 1..Len(ds) : ds[i] \notin Specials
    BY <2>2, PlainIs
  <2>5. /\ IsList(s) /\ s[1] = "-" /\ Tail(s) = ds
        /\ \A i \in 1..Len(s) : s[i] = "-" \/ \E k \in 1..Len(ds) : s[i] = ds[k]
    BY <2>4, TailOfSign
  <2> HIDE DEF s
  <2>6. "-" \notin Specials
    BY DEF Specials
  <2>7. IsPlain(s)
    BY <2>4, <2>5, <2>6, PlainList
  <2>8. Number(s, base) = n
    <3>1. Number(s, base) = 0 - Natural(Tail(s), base)
      BY <2>5, Zenon DEF Number
    <3> QED
      BY <2>1, <2>3, <2>5, <3>1, Zenon
  <2>9. s[1] # "0"
    BY <2>5
  <2>10. SignedText(n, base) = s
    BY <1>1, Zenon DEF SignedText, s, ds, m
  <2> QED
    BY <2>7, <2>8, <2>9, <2>10, Zenon DEF IsNumberText
<1>2. CASE ~(n < 0)
  <2>1. n \in Nat
    BY <1>2
  <2>2. SignedText(n, base) = Digits(n, base)
    BY <1>2, Zenon DEF SignedText
  <2> QED
    BY <2>1, <2>2, DigitsText, Zenon
<1> QED
  BY <1>1, <1>2

-----------------------------------------------------------------------------
(***************************************************************************)
(* The text of a value.                                                    *)
(***************************************************************************)
LEMMA TypesDiffer ==
  /\ TYPE_NULL = 16 /\ TYPE_STRING = 32 /\ TYPE_INT = 96 /\ TYPE_INT_HEX = 112 /\ TYPE_LONG = 128
  /\ TYPE_LONG_HEX = 144 /\ TYPE_BOOLEAN_TRUE = 192 /\ TYPE_BOOLEAN_FALSE = 208
BY DEF TYPE_NULL, TYPE_STRING, TYPE_INT, TYPE_LONG, TYPE_INT_HEX, TYPE_LONG_HEX,
       TYPE_BOOLEAN_TRUE, TYPE_BOOLEAN_FALSE

TrueText  == <<"t", "r", "u", "e">>
FalseText == <<"f", "a", "l", "s", "e">>
Decimal(v) == SignedText(Signed(v.type, v.bits), 10)
Hex(v)     == SignedHex(Signed(v.type, v.bits))
NoText     == <<>>

LEMMA AsStrCases ==
  ASSUME NEW v
  PROVE  AsStr(v) = CASE v.type = TYPE_NULL -> NoText
                      [] v.type \in {TYPE_INT, TYPE_LONG} -> Decimal(v)
                      [] v.type \in {TYPE_INT_HEX, TYPE_LONG_HEX} -> Hex(v)
                      [] v.type = TYPE_BOOLEAN_TRUE  -> TrueText
                      [] v.type = TYPE_BOOLEAN_FALSE -> FalseText
                      [] OTHER -> v.value
BY Zenon DEF AsStr, NoText, Decimal, Hex, TrueText, FalseText

LEMMA AsStrIs ==
  ASSUME NEW v
  PROVE  /\ v.type \in {TYPE_INT, TYPE_LONG} => AsStr(v) = Decimal(v)
         /\ v.type \in {TYPE_INT_HEX, TYPE_LONG_HEX} => AsStr(v) = Hex(v)
         /\ v.type = TYPE_STRING => AsStr(v) = v.value
         /\ v.type \notin Numbers => AsStr(v) = v.value \/ AsStr(v) = NoText \/ AsStr(v) = TrueText \/ AsStr(v) = FalseText
BY AsStrCases, TypesDiffer, SMT DEF Numbers

LEMMA FixedTexts == IsPlain(NoText) /\ IsPlain(TrueText) /\ IsPlain(FalseText)
<1>1. IsPlain(NoText)
  BY EmptyList, PlainList DEF NoText
<1>2. IsPlain(TrueText)
  <2>1. TrueText \in Seq({"t", "r", "u", "e"})
    BY DEF TrueText
  <2>2. IsList(TrueText)
    BY <2>1, ListOf
  <2>3. \A i \in 1..Len(TrueText) : TrueText[i] \in {"t", "r", "u", "e"}
    BY <2>1, ElementOfSeq
  <2>4. \A i \in 1..Len(TrueText) : TrueText[i] \notin Specials
    BY <2>3 DEF Specials
  <2> QED
    BY <2>2, <2>4, PlainList
<1>3. IsPlain(FalseText)
  <2>1. FalseText \in Seq({"f", "a", "l", "s", "e"})
    BY DEF FalseText
  <2>2. IsList(FalseText)
    BY <2>1, ListOf
  <2>3. \A i \in 1..Len(FalseText) : FalseText[i] \in {"f", "a", "l", "s", "e"}
    BY <2>1, ElementOfSeq
  <2>4. \A i \in 1..Len(FalseText) : FalseText[i] \notin Specials
    BY <2>3 DEF Specials
  <2> QED
    BY <2>2, <2>4, PlainList
<1> QED
  BY <1>1, <1>2, <1>3

BaseOf(type) == IF type \in {TYPE_INT_HEX, TYPE_LONG_HEX} THEN 16 ELSE 10

LEMMA HalfType ==
  ASSUME NEW type
  PROVE  Half(type) \in Nat \ {0}
BY HalvesAssumption DEF Half

\* The number of a width that has the bits b.
LEMMA SignedIs ==
  ASSUME NEW type, NEW b \in 0..(2 * Half(type) - 1)
  PROVE  /\ Signed(type, b) \in (0 - Half(type))..(Half(type) - 1)
         /\ Signed(type, b) % (2 * Half(type)) = b
<1> DEFINE h == Half(type)
           n == Signed(type, b)
<1>1. h \in Nat \ {0} /\ b \in 0..(2 * h - 1)
  BY HalfType
<1>2. n = IF b < h THEN b ELSE b - 2 * h
  BY DEF Signed
<1> HIDE DEF h, n
<1>3. n \in (0 - h)..(h - 1) /\ n \in Int
  BY <1>1, <1>2
<1>4. n % (2 * h) = b
  <2> DEFINE m == 2 * h
  <2>1. m \in Nat \ {0} /\ b \in 0..(m - 1) /\ (n = b \/ n = b - m)
    BY <1>1, <1>2
  <2> HIDE DEF m
  <2>2. b % m = b
    BY <2>1
  <2>3. (b - m) % m = b
    BY <2>1
  <2>4. n % m = b
    BY <2>1, <2>2, <2>3
  <2> QED
    BY <2>4 DEF m
<1> QED
  BY <1>3, <1>4 DEF h, n

LEMMA NumberText ==
  ASSUME NEW v, v.type \in Numbers, IsValue(v)
  PROVE  /\ IsNumberText(AsStr(v), Signed(v.type, v.bits), BaseOf(v.type))
         /\ IsPlain(AsStr(v))
<1>1. v.bits \in 0..(2 * Half(v.type) - 1)
  BY DEF IsValue
<1> DEFINE n == Signed(v.type, v.bits)
<1>2. n \in Int
  <2>1. n \in (0 - Half(v.type))..(Half(v.type) - 1)
    BY <1>1, SignedIs
  <2>2. Half(v.type) \in Nat
    BY HalfType
  <2> HIDE DEF n
  <2> QED
    BY <2>1, <2>2
<1> HIDE DEF n
<1>3. IsNumberText(SignedText(n, 10), n, 10) /\ IsNumberText(SignedText(n, 16), n, 16)
  BY <1>2, SignedBack DEF Bases
<1>4. CASE v.type \in {TYPE_INT, TYPE_LONG}
  <2>1. AsStr(v) = SignedText(n, 10)
    BY <1>4, AsStrIs DEF Decimal, n
  <2>2. BaseOf(v.type) = 10
    BY <1>4, TypesDiffer DEF BaseOf
  <2> QED
    BY <1>3, <2>1, <2>2, Zenon DEF n, IsNumberText
<1>5. CASE v.type \in {TYPE_INT_HEX, TYPE_LONG_HEX}
  <2>1. AsStr(v) = SignedText(n, 16)
    BY <1>5, AsStrIs DEF Hex, SignedHex, n
  <2>2. BaseOf(v.type) = 16
    BY <1>5 DEF BaseOf
  <2> QED
    BY <1>3, <2>1, <2>2, Zenon DEF n, IsNumberText
<1> QED
  BY <1>4, <1>5 DEF Numbers

LEMMA ValueText ==
  ASSUME NEW v, IsValue(v)
  PROVE  IsEscaped(PushAttrValue(v)) /\ Unescaped(PushAttrValue(v)) = AsStr(v)
<1>1. CASE v.type = TYPE_STRING
  <2>1. PushAttrValue(v) = xml_escape(v.value) /\ AsStr(v) = v.value
    BY <1>1, AsStrIs DEF PushAttrValue
  <2>2. IsList(v.value)
    BY <1>1 DEF IsValue
  <2> QED
    BY <2>1, <2>2, EscapedBack, Zenon
<1>2. CASE v.type # TYPE_STRING
  <2>1. PushAttrValue(v) = Verbatim(AsStr(v))
    BY <1>2 DEF PushAttrValue
  <2>2. IsPlain(AsStr(v))
    <3>1. CASE v.type \in Numbers
      BY <3>1, NumberText
    <3>2. CASE v.type \notin Numbers
      <4>1. IsPlain(v.value)
        BY <1>2, <3>2 DEF IsValue
      <4>2. AsStr(v) = v.value \/ AsStr(v) = NoText \/ AsStr(v) = TrueText \/ AsStr(v) = FalseText
        BY <3>2, AsStrIs
      <4> QED
        BY <4>1, <4>2, FixedTexts, Zenon
    <3> QED
      BY <3>1, <3>2
  <2> QED
    BY <2>1, <2>2, VerbatimBack, Zenon
<1> QED
  BY <1>1, <1>2

-----------------------------------------------------------------------------
(***************************************************************************)
(* What render_event writes of an event says what the event does.          *)
(***************************************************************************)
\* The tags as they are read, one by one.
SpacedTag(t) == <<t[1], [k \in DOMAIN t[2] |-> <<t[2][k][1], Normalized(t[2][k][2])>>]>>

LEMMA TagsSpacedIs ==
  ASSUME NEW ts, IsList(ts)
  PROVE  /\ IsList(TagsSpaced(ts)) /\ Len(TagsSpaced(ts)) = Len(ts)
         /\ \A i \in 1..Len(ts) : TagsSpaced(ts)[i] = SpacedTag(ts[i])
<1> DEFINE f == TagsSpaced(ts)
<1>1. DOMAIN ts = 1..Len(ts) /\ Len(ts) \in Nat
  BY ListLength
<1>2. f = [i \in 1..Len(ts) |-> f[i]] /\ \A i \in 1..Len(ts) : f[i] = SpacedTag(ts[i])
  BY <1>1 DEF TagsSpaced, SpacedTag
<1> HIDE DEF f
<1>3. IsList(f) /\ Len(f) = Len(ts)
  BY <1>1, <1>2, FunctionList
<1> QED
  BY <1>2, <1>3 DEF f

LEMMA TagsSpacedJoin ==
  ASSUME NEW ts, IsList(ts), NEW us, IsList(us)
  PROVE  Joining(TagsSpaced(ts \o us), TagsSpaced(ts), TagsSpaced(us))
<1> DEFINE vs == ts \o us
           f == TagsSpaced(ts)
           g == TagsSpaced(us)
           h == TagsSpaced(vs)
           m == Len(ts)
           n == Len(us)
<1>1. /\ IsList(vs) /\ Len(vs) = m + n /\ m \in Nat /\ n \in Nat
      /\ \A i \in 1..m : vs[i] = ts[i]
      /\ \A i \in 1..n : vs[m + i] = us[i]
  BY ConcatList, ListLength
<1> HIDE DEF vs
<1>2. /\ IsList(f) /\ Len(f) = m /\ \A i \in 1..m : f[i] = SpacedTag(ts[i])
      /\ IsList(g) /\ Len(g) = n /\ \A i \in 1..n : g[i] = SpacedTag(us[i])
      /\ IsList(h) /\ Len(h) = m + n /\ \A i \in 1..(m + n) : h[i] = SpacedTag(vs[i])
  BY <1>1, TagsSpacedIs
<1> HIDE DEF f, g, h, m, n
<1>3. (\A i \in 1..m : i \in 1..(m + n)) /\ (\A i \in 1..n : m + i \in 1..(m + n))
  BY <1>1
<1>4. IsConcat(h, f, g)
  BY <1>1, <1>2, <1>3 DEF IsConcat
<1>5. h = f \o g
  BY <1>2, <1>4, JoinIs
<1> QED
  BY <1>5, Zenon DEF Joining, f, g, h, vs

LEMMA NoTagSpaced == TagsSpaced(<<>>) = <<>>
<1>1. IsList(TagsSpaced(<<>>)) /\ Len(TagsSpaced(<<>>)) = 0
  BY EmptyList, TagsSpacedIs
<1> QED
  BY <1>1, ListLength

LEMMA OneTagSpaced ==
  ASSUME NEW t
  PROVE  TagsSpaced(<<t>>) = <<SpacedTag(t)>>
<1> DEFINE ts == <<t>>
           f == TagsSpaced(ts)
           g == <<SpacedTag(t)>>
<1>1. IsList(ts) /\ Len(ts) = 1 /\ ts[1] = t /\ IsList(g) /\ Len(g) = 1 /\ g[1] = SpacedTag(t)
  BY Singleton
<1> HIDE DEF ts, g
<1>2. IsList(f) /\ Len(f) = 1 /\ \A i \in 1..1 : f[i] = SpacedTag(ts[i])
  BY <1>1, TagsSpacedIs
<1> HIDE DEF f
<1>3. \A i \in 1..1 : i = 1
  OBVIOUS
<1>4. \A i \in 1..1 : f[i] = g[i]
  BY <1>1, <1>2, <1>3
<1>5. f = g
  BY <1>1, <1>2, <1>4, SameList
<1> QED
  BY <1>5, Zenon DEF f, g, ts

\* Lexemes that are read as they are written, but for white space.
Utters(r, spelled, tagged) ==
  /\ IsList(r) /\ \A i \in 1..Len(r) : IsRendered(r[i])
  /\ AllPieces(r) = Spaced(r) /\ AllSpelled(r) = spelled /\ AllTagged(r) = tagged

\* A lexeme that stands for one character.
IsCharacter(x, c) == IsRendered(x) /\ x[1] \in {"char", "ref"} /\ SpelledBy(x) = <<c>>

LEMMA CharactersUtter ==
  ASSUME NEW r, IsList(r), NEW s, IsList(s), Len(r) = Len(s),
         \A i \in 1..Len(s) : IsCharacter(r[i], s[i])
  PROVE  Utters(r, s, <<>>)
<1> DEFINE q == SaidEach(r)
           t == NamedEach(r)
<1>1. /\ Lists(q) /\ Len(q) = Len(r) /\ Lists(t) /\ Len(t) = Len(r)
      /\ \A i \in 1..Len(r) : q[i] = SpelledBy(r[i]) /\ t[i] = TaggedBy(r[i])
  BY LexemesLists
<1> HIDE DEF q, t
<1>2. ASSUME NEW i \in 1..Len(r)
      PROVE  q[i] = <<s[i]>> /\ t[i] = <<>> /\ IsRendered(r[i]) /\ r[i][1] # "<?xml"
  <2>1. IsCharacter(r[i], s[i])
    BY <1>2
  <2>2. r[i][1] # "<?xml" /\ r[i][1] # "<"
    BY <2>1 DEF IsCharacter
  <2>3. TaggedBy(r[i]) = <<>>
    BY <2>2, LexemeMeasures
  <2>4. SpelledBy(r[i]) = <<s[i]>> /\ IsRendered(r[i])
    BY <2>1 DEF IsCharacter
  <2>5. q[i] = SpelledBy(r[i]) /\ t[i] = TaggedBy(r[i])
    BY <1>1, <1>2
  <2> QED
    BY <2>2, <2>3, <2>4, <2>5, Zenon
<1>3. IsList(q) /\ IsList(t)
  BY <1>1 DEF Lists
<1>4. AllPieces(r) = Spaced(r)
  BY <1>2, PiecesSpaced
<1>5. FlattenSeq(q) = s
  <2>1. \A i \in 1..Len(s) : q[i] = <<s[i]>>
    BY <1>2
  <2>2. Len(q) = Len(s)
    BY <1>1
  <2> QED
    BY <1>3, <2>1, <2>2, FlattenSingles
<1>6. FlattenSeq(t) = <<>>
  BY <1>1, <1>2, <1>3, FlattenNothing
<1> QED
  BY <1>2, <1>4, <1>5, <1>6, Zenon DEF Utters, AllSpelled, AllTagged, q, t

LEMMA CharIs ==
  ASSUME NEW c, c \notin Specials
  PROVE  IsCharacter(Char(c), c)
<1> DEFINE x == Char(c)
<1>1. x[1] = "char" /\ x[2] = c
  BY Lexemes
<1>2. SpelledBy(x) = <<x[2]>>
  BY <1>1, SpelledCases
<1>3. IsRendered(x)
  BY <1>1, Zenon DEF IsRendered
<1> HIDE DEF x
<1>4. SpelledBy(x) = <<c>> /\ x[1] \in {"char", "ref"}
  BY <1>1, <1>2, Zenon
<1>5. IsCharacter(x, c)
  BY <1>3, <1>4 DEF IsCharacter
<1> QED
  BY <1>5 DEF x

LEMMA EntityIs ==
  ASSUME NEW c \in Specials
  PROVE  IsCharacter(Ref(EntityOf(c)), c)
<1> DEFINE n == EntityOf(c)
           x == Ref(n)
<1>1. x[1] = "ref" /\ x[2] = n
  BY Lexemes
<1>2. SpelledBy(x) = RefSpelled(n)
  BY <1>1, SpelledCases, Zenon
<1>3. IsRendered(x)
  BY <1>1, Zenon DEF IsRendered
<1>4. RefSpelled(n) = <<c>>
  BY EntityNames, Entities, Zenon DEF RefSpelled
<1> HIDE DEF n, x
<1>5. SpelledBy(x) = <<c>> /\ x[1] \in {"char", "ref"}
  BY <1>1, <1>2, <1>4, Zenon
<1>6. IsCharacter(x, c)
  BY <1>3, <1>5 DEF IsCharacter
<1> QED
  BY <1>6 DEF x, n

LEMMA EscapedUtters ==
  ASSUME NEW s, IsList(s)
  PROVE  Utters(xml_escape(s), s, <<>>)
<1> DEFINE r == xml_escape(s)
<1>1. IsList(r) /\ Len(r) = Len(s) /\ \A i \in 1..Len(s) : r[i] = EscapedOne(s[i])
  BY EscapedOf
<1> HIDE DEF r
<1>2. \A i \in 1..Len(s) : IsCharacter(r[i], s[i])
  BY <1>1, CharIs, EntityIs DEF EscapedOne
<1>3. Utters(r, s, <<>>)
  BY <1>1, <1>2, CharactersUtter
<1> QED
  BY <1>3 DEF r

LEMMA VerbatimUtters ==
  ASSUME NEW s, IsPlain(s)
  PROVE  Utters(Verbatim(s), s, <<>>)
<1> DEFINE r == Verbatim(s)
<1>1. IsList(s) /\ \A i \in 1..Len(s) : s[i] \notin Specials
  BY PlainIs
<1>2. IsList(r) /\ Len(r) = Len(s) /\ \A i \in 1..Len(s) : r[i] = Char(s[i])
  BY <1>1, VerbatimOf
<1> HIDE DEF r
<1>3. \A i \in 1..Len(s) : IsCharacter(r[i], s[i])
  BY <1>1, <1>2, CharIs
<1>4. Utters(r, s, <<>>)
  BY <1>1, <1>2, <1>3, CharactersUtter
<1> QED
  BY <1>4 DEF r

LEMMA OneUtters ==
  ASSUME NEW x, IsRendered(x), x[1] # "<?xml"
  PROVE  Utters(<<x>>, SpelledBy(x), TaggedBy(x))
<1> DEFINE r == <<x>>
<1>1. IsList(r) /\ Len(r) = 1 /\ r[1] = x
  BY Singleton
<1>2. AllSpelled(r) = SpelledBy(x) /\ AllTagged(r) = TaggedBy(x)
  BY OneLexeme
<1> HIDE DEF r
<1>3. \A i \in 1..Len(r) : IsRendered(r[i]) /\ r[i][1] # "<?xml"
  <2>1. \A i \in 1..Len(r) : i = 1
    BY <1>1
  <2> QED
    BY <1>1, <2>1
<1>4. AllPieces(r) = Spaced(r)
  BY <1>1, <1>3, PiecesSpaced
<1>5. Utters(r, SpelledBy(x), TaggedBy(x))
  BY <1>1, <1>2, <1>3, <1>4, Zenon DEF Utters
<1> QED
  BY <1>5 DEF r

EventSays(e) == IsMeasured(e) /\ Utters(RenderEvent(e), CharactersOf(e), TagsSpaced(TagOf(e)))

LEMMA FromMeasures ==
  ASSUME NEW e, NEW piece, NEW spelled, NEW tagged,
         Measures(e, piece, spelled, tagged), Utters(piece, spelled, TagsSpaced(tagged))
  PROVE  EventSays(e)
BY Zenon DEF Measures, EventSays

AreValues(as) == IsList(as) /\ \A k \in 1..Len(as) : IsValue(as[k])

LEMMA PairFields ==
  ASSUME NEW a, NEW b
  PROVE  <<a, b>>[1] = a /\ <<a, b>>[2] = b
OBVIOUS

AttribsNormal(as) == [k \in DOMAIN as |-> <<as[k][1], Normalized(as[k][2])>>]

LEMMA AttribsWritten ==
  ASSUME NEW as, AreValues(as)
  PROVE  AreAttribs(AttribPieces(as)) /\ AttribsRead(AttribPieces(as)) = AttribsNormal(AttribTexts(as))
<1> DEFINE f == AttribPieces(as)
<1>1. DOMAIN as = 1..Len(as) /\ Len(as) \in Nat /\ \A k \in 1..Len(as) : IsValue(as[k])
  BY ListLength DEF AreValues
<1>2. /\ DOMAIN f = 1..Len(as) /\ f = [i \in 1..Len(as) |-> f[i]]
      /\ \A i \in 1..Len(as) : f[i] = <<as[i].name, PushAttrValue(as[i])>>
  BY <1>1 DEF AttribPieces
<1> HIDE DEF f
<1>3. IsList(f) /\ Len(f) = Len(as)
  BY <1>1, <1>2, FunctionList
<1>4. ASSUME NEW i \in 1..Len(as)
      PROVE  /\ f[i] = <<f[i][1], f[i][2]>> /\ IsEscaped(f[i][2])
             /\ f[i][1] = as[i].name /\ Decoded(f[i][2]) = Normalized(AsStr(as[i]))
  <2> DEFINE n == as[i].name
             p == PushAttrValue(as[i])
  <2>1. f[i] = <<n, p>>
    BY <1>2
  <2>2. IsEscaped(p) /\ Decoded(p) = Normalized(AsStr(as[i]))
    <3>1. IsEscaped(p) /\ Unescaped(p) = AsStr(as[i])
      BY <1>1, ValueText
    <3> HIDE DEF p
    <3> QED
      BY <3>1, Zenon DEF Decoded
  <2> HIDE DEF n, p
  <2>3. f[i][1] = n /\ f[i][2] = p
    BY <2>1
  <2> QED
    BY <2>1, <2>2, <2>3, Zenon DEF n
<1>5. AreAttribs(f)
  BY <1>3, <1>4 DEF AreAttribs
<1>6. AttribsRead(f) = AttribsNormal(AttribTexts(as))
  <2> DEFINE g == AttribTexts(as)
  <2>1. /\ DOMAIN g = 1..Len(as)
        /\ \A i \in 1..Len(as) : g[i] = <<as[i].name, AsStr(as[i])>>
    BY <1>1 DEF AttribTexts
  <2> HIDE DEF g
  <2>2. ASSUME NEW i \in 1..Len(as)
        PROVE  <<f[i][1], Decoded(f[i][2])>> = <<g[i][1], Normalized(g[i][2])>>
    <3> DEFINE n == as[i].name
               t == AsStr(as[i])
    <3>1. g[i] = <<n, t>>
      BY <2>1
    <3>2. f[i][1] = n /\ Decoded(f[i][2]) = Normalized(t)
      BY <1>4
    <3> HIDE DEF n, t
    <3>3. g[i][1] = n /\ g[i][2] = t
      BY <3>1
    <3> QED
      BY <3>2, <3>3, Zenon
  <2>3. DOMAIN f = DOMAIN g /\ DOMAIN g = 1..Len(as)
    BY <1>2, <2>1
  <2>4. AttribsRead(f) = AttribsNormal(g)
    BY <2>2, <2>3, Zenon DEF AttribsRead, AttribsNormal
  <2> QED
    BY <2>4 DEF g
<1> QED
  BY <1>5, <1>6 DEF f

LEMMA TagUtters ==
  ASSUME NEW e, AreValues(e.attributes)
  PROVE  Utters(<<Tag(e)>>, <<>>, TagsSpaced(<<TagText(e)>>))
<1> DEFINE n == e.text
           as == AttribPieces(e.attributes)
           x == <<"<", n, as>>
<1>1. Tag(e) = x
  BY Zenon DEF Tag, AttribPieces
<1>2. AreAttribs(as) /\ AttribsRead(as) = AttribsNormal(AttribTexts(e.attributes))
  BY AttribsWritten
<1>3. TagsSpaced(<<TagText(e)>>) = << <<n, AttribsRead(as)>> >>
  <2> DEFINE t == TagText(e)
  <2>1. t[1] = n /\ t[2] = AttribTexts(e.attributes)
    BY Zenon, PairFields DEF TagText, AttribTexts
  <2> HIDE DEF t, n, as
  <2>2. SpacedTag(t) = <<n, AttribsRead(as)>>
    BY <1>2, <2>1, Zenon DEF SpacedTag, AttribsNormal
  <2>3. TagsSpaced(<<t>>) = <<SpacedTag(t)>>
    BY OneTagSpaced
  <2> QED
    BY <2>2, <2>3, Zenon DEF t
<1> HIDE DEF n, as
<1>4. x[1] = "<" /\ x[2] = n /\ x[3] = as
  BY TripleFields, Zenon
<1>5. IsRendered(x)
  <2>1. x = <<"<", x[2], x[3]>>
    BY <1>4, Zenon
  <2>2. AreAttribs(x[3])
    BY <1>2, <1>4, Zenon
  <2> HIDE DEF x
  <2> QED
    BY <2>1, <2>2, Zenon DEF IsRendered, AreAttribs
<1> HIDE DEF x
<1>6. x[1] # "<?xml" /\ x[1] \notin {"char", "ref"}
  BY <1>4
<1>7. SpelledBy(x) = <<>>
  BY <1>6, SpelledCases
<1>8. TaggedBy(x) = TagsSpaced(<<TagText(e)>>)
  <2>1. TaggedBy(x) = << <<x[2], AttribsRead(x[3])>> >>
    BY <1>4, <1>6, LexemeMeasures
  <2> QED
    BY <1>3, <1>4, <2>1, Zenon
<1>9. Utters(<<x>>, SpelledBy(x), TaggedBy(x))
  BY <1>5, <1>6, OneUtters
<1> QED
  BY <1>1, <1>7, <1>8, <1>9, Zenon

LEMMA MarkUtters ==
  ASSUME NEW m \in Marks, NEW t
  PROVE  Utters(<< <<m, t>> >>, <<>>, <<>>)
<1> DEFINE x == <<m, t>>
<1>1. x[1] = m /\ x[2] = t
  BY PairFields, Zenon
<1>2. x = <<x[1], x[2]>>
  BY <1>1, Zenon
<1> HIDE DEF x
<1>3. IsRendered(x)
  BY <1>1, <1>2, Zenon DEF IsRendered, Marks
<1>4. x[1] # "<?xml" /\ x[1] # "<" /\ x[1] \notin {"char", "ref"}
  BY <1>1 DEF Marks
<1>5. SpelledBy(x) = <<>> /\ TaggedBy(x) = <<>>
  BY <1>4, SpelledCases, LexemeMeasures
<1>6. Utters(<<x>>, SpelledBy(x), TaggedBy(x))
  BY <1>3, <1>4, OneUtters
<1> QED
  BY <1>5, <1>6, Zenon DEF x

LEMMA RefUtters ==
  ASSUME NEW n
  PROVE  Utters(<<Ref(n)>>, RefSpelled(n), <<>>)
<1> DEFINE x == Ref(n)
<1>1. x[1] = "ref" /\ x[2] = n
  BY Lexemes
<1>2. IsRendered(x)
  BY <1>1, Zenon DEF IsRendered
<1>3. SpelledBy(x) = RefSpelled(n)
  BY <1>1, SpelledCases, Zenon
<1> HIDE DEF x
<1>4. x[1] # "<?xml" /\ x[1] # "<"
  BY <1>1
<1>5. TaggedBy(x) = <<>>
  BY <1>4, LexemeMeasures
<1>6. Utters(<<x>>, SpelledBy(x), TaggedBy(x))
  BY <1>2, <1>4, OneUtters
<1> QED
  BY <1>3, <1>5, <1>6, Zenon DEF x

LEMMA NothingUttered == Utters(<<>>, <<>>, <<>>)
<1>1. IsList(<<>>) /\ Len(<<>>) = 0
  BY EmptyList
<1>2. \A i \in 1..Len(<<>>) : IsRendered(<<>>[i])
  BY <1>1
<1>3. AllPieces(<<>>) = Spaced(<<>>)
  BY <1>1, PiecesSpaced
<1> QED
  BY <1>1, <1>2, <1>3, NothingMeasured, Zenon DEF Utters

\* The events of a document are what the assumption says.
LEMMA DocEventIs ==
  ASSUME NEW e \in DocEvents
  PROVE  /\ IsList(e.text) /\ AreValues(e.attributes)
         /\ e.command = CMD_ENTITY_REF => e.text = <<e.text[1]>>
         /\ e.command = CMD_IGNORABLE_WHITESPACE => IsPlain(e.text)
<1>1. /\ IsList(e.text) /\ IsList(e.attributes)
      /\ \A k \in DOMAIN e.attributes : IsValue(e.attributes[k])
      /\ e.command = CMD_ENTITY_REF => Len(e.text) = 1
      /\ e.command = CMD_IGNORABLE_WHITESPACE => IsPlain(e.text)
  BY DocEventsAssumption
<1>2. AreValues(e.attributes)
  BY <1>1, ListLength DEF AreValues
<1>3. ASSUME e.command = CMD_ENTITY_REF PROVE e.text = <<e.text[1]>>
  <2> DEFINE t == e.text
             u == <<t[1]>>
  <2>1. IsList(t) /\ Len(t) = 1
    BY <1>1, <1>3
  <2>2. IsList(u) /\ Len(u) = 1 /\ u[1] = t[1]
    BY Singleton
  <2> HIDE DEF t, u
  <2>3. \A i \in 1..Len(t) : i = 1
    BY <2>1
  <2>4. \A i \in 1..Len(t) : t[i] = u[i]
    BY <2>2, <2>3
  <2>5. t = u
    BY <2>1, <2>2, <2>4, SameList
  <2> QED
    BY <2>5, Zenon DEF t, u
<1> QED
  BY <1>1, <1>2, <1>3

LEMMA EventsSay ==
  ASSUME NEW e \in DocEvents
  PROVE  EventSays(e)
<1>1. CASE e.command = CMD_START_TAG
  BY <1>1, DocEventIs, TagMeasures, TagUtters, FromMeasures
<1>2. CASE e.command \in MarkCommands
  <2>1. \E m \in Marks :
          \/ e.command = CMD_END_TAG /\ m = "</"
          \/ e.command = CMD_CDSECT  /\ m = "<![CDATA["
          \/ e.command = CMD_COMMENT /\ m = "<!--"
          \/ e.command = CMD_PROCESSING_INSTRUCTION /\ m = "<?"
          \/ e.command = CMD_DOCDECL /\ m = "<!DOCTYPE "
    BY <1>2, Zenon DEF MarkCommands, Marks
  <2>2. PICK m \in Marks : Measures(e, << <<m, e.text>> >>, <<>>, <<>>)
    BY <2>1, MarkMeasures
  <2>3. Utters(<< <<m, e.text>> >>, <<>>, <<>>)
    BY MarkUtters
  <2> QED
    BY <2>2, <2>3, NoTagSpaced, FromMeasures
<1>3. CASE e.command = CMD_TEXT
  <2>1. IsList(e.text)
    BY DocEventIs
  <2>2. RenderEvent(e) = xml_escape(e.text)
    BY <1>3, RenderedAs DEF TextPiece
  <2>3. CharactersOf(e) = e.text
    BY <1>3, SpelledAs
  <2>4. TagOf(e) = <<>>
    BY <1>3, CommandNumbers, NoTag
  <2>5. Utters(xml_escape(e.text), e.text, <<>>)
    BY <2>1, EscapedUtters
  <2>6. IsList(xml_escape(e.text)) /\ IsList(<<>>)
    BY <2>1, EscapedOf, EmptyList
  <2> QED
    BY <2>1, <2>2, <2>3, <2>4, <2>5, <2>6, NoTagSpaced, Zenon DEF EventSays, IsMeasured
<1>4. CASE e.command = CMD_ENTITY_REF
  <2> DEFINE n == e.text[1]
  <2>1. e.text = <<n>>
    BY <1>4, DocEventIs
  <2> HIDE DEF n
  <2> QED
    BY <1>4, <2>1, RefMeasures, RefUtters, NoTagSpaced, FromMeasures
<1>5. CASE e.command = CMD_IGNORABLE_WHITESPACE
  <2> DEFINE t == e.text
  <2>1. IsPlain(t) /\ e.text = t
    BY <1>5, DocEventIs
  <2> HIDE DEF t
  <2> QED
    BY <1>5, <2>1, WhiteSpaceMeasures, VerbatimUtters, NoTagSpaced, FromMeasures
<1>6. CASE e.command \notin CMD_START_TAG..CMD_DOCDECL
  BY <1>6, OtherMeasures, NothingUttered, NoTagSpaced, FromMeasures
<1>7. \/ e.command = CMD_START_TAG \/ e.command \in MarkCommands \/ e.command = CMD_TEXT
      \/ e.command = CMD_ENTITY_REF \/ e.command = CMD_IGNORABLE_WHITESPACE
      \/ e.command \notin CMD_START_TAG..CMD_DOCDECL
  BY CommandNumbers DEF MarkCommands
<1> QED
  BY <1>1, <1>2, <1>3, <1>4, <1>5, <1>6, <1>7

-----------------------------------------------------------------------------
(***************************************************************************)
(* The XML so far says what the document does.                             *)
(***************************************************************************)
TextInv ==
  /\ IsList(doc) /\ \A i \in 1..Len(doc) : doc[i] \in DocEvents
  /\ IsList(buf) /\ \A i \in 1..Len(buf) : IsRendered(buf[i])
  /\ Spaced(buf) = <<XmlDecl>> \o AllPieces(buf)
  /\ AllSpelled(buf) = Characters(doc)
  /\ AllTagged(buf) = TagsSpaced(Tags(doc))

LEMMA DeclSays ==
  /\ IsRendered(XmlDecl)
  /\ Spaced(<<XmlDecl>>) = <<XmlDecl>>
  /\ AllPieces(<<XmlDecl>>) = <<>> /\ AllSpelled(<<XmlDecl>>) = <<>> /\ AllTagged(<<XmlDecl>>) = <<>>
<1> DEFINE x == XmlDecl
<1>1. x[1] = "<?xml"
  BY Singleton DEF XmlDecl
<1>2. IsRendered(x)
  BY Zenon DEF IsRendered
<1> HIDE DEF x
<1>3. x[1] \notin {"char", "ref"} /\ x[1] # "<"
  BY <1>1
<1>4. PieceOf(x) = <<>> /\ TaggedBy(x) = <<>>
  BY <1>1, <1>3, Zenon DEF PieceOf, TaggedBy
<1>5. SpelledBy(x) = <<>>
  BY <1>3, SpelledCases
<1>6. AllPieces(<<x>>) = PieceOf(x) /\ AllSpelled(<<x>>) = SpelledBy(x) /\ AllTagged(<<x>>) = TaggedBy(x)
  BY OneLexeme
<1>7. Spaced(<<x>>) = <<x>>
  <2> DEFINE f == Spaced(<<x>>)
             g == <<x>>
  <2>1. IsList(g) /\ Len(g) = 1 /\ g[1] = x /\ Respaced(x) = x
    BY <1>3, Singleton, RespacedIs
  <2> HIDE DEF g
  <2>2. \A i \in 1..1 : i = 1
    OBVIOUS
  <2>3. IsList(f) /\ Len(f) = 1 /\ \A i \in 1..1 : f[i] = g[i]
    BY <2>1, <2>2, SpacedIs DEF g
  <2> HIDE DEF f
  <2>4. f = g
    BY <2>1, <2>3, SameList
  <2> QED
    BY <2>4 DEF f, g
<1> QED
  BY <1>2, <1>4, <1>5, <1>6, <1>7, Zenon DEF x

LEMMA TextInvInit ==
  ASSUME TextInit
  PROVE  TextInv
<1>1. doc = <<>> /\ buf = <<XmlDecl>>
  BY DEF TextInit
<1>2. IsList(<<XmlDecl>>) /\ Len(<<XmlDecl>>) = 1 /\ <<XmlDecl>>[1] = XmlDecl
  BY Singleton
<1>3. IsList(doc) /\ Len(doc) = 0
  BY <1>1, EmptyList
<1>4. \A i \in 1..Len(doc) : doc[i] \in DocEvents
  BY <1>3
<1>5. IsList(buf) /\ Len(buf) = 1 /\ buf[1] = XmlDecl
  BY <1>1, <1>2
<1>6. \A i \in 1..Len(buf) : IsRendered(buf[i])
  <2>1. \A i \in 1..Len(buf) : i = 1
    BY <1>5
  <2> QED
    BY <1>5, <2>1, DeclSays
<1>7. <<XmlDecl>> \o <<>> = <<XmlDecl>>
  BY <1>2, ConcatEmpty
<1>8. Spaced(buf) = <<XmlDecl>> \o AllPieces(buf)
  BY <1>1, <1>7, DeclSays, Zenon
<1>9. AllSpelled(buf) = Characters(doc) /\ AllTagged(buf) = TagsSpaced(Tags(doc))
  BY <1>1, DeclSays, NothingMeasured, NoTagSpaced, Zenon
<1> QED
  BY <1>3, <1>4, <1>5, <1>6, <1>8, <1>9, Zenon DEF TextInv

LEMMA MeasuredEvents ==
  ASSUME NEW evs, IsList(evs), \A i \in 1..Len(evs) : evs[i] \in DocEvents
  PROVE  AreMeasured(evs)
BY EventsSay DEF AreMeasured, EventSays

LEMMA TextInvRender ==
  ASSUME TextInv, NEW e \in DocEvents, RenderNext(e)
  PROVE  TextInv'
<1> DEFINE r == RenderEvent(e)
<1>1. doc' = Append(doc, e) /\ buf' = buf \o r
  BY DEF RenderNext
<1>2. /\ IsList(doc) /\ \A i \in 1..Len(doc) : doc[i] \in DocEvents
      /\ IsList(buf) /\ \A i \in 1..Len(buf) : IsRendered(buf[i])
      /\ Spaced(buf) = <<XmlDecl>> \o AllPieces(buf)
      /\ AllSpelled(buf) = Characters(doc)
      /\ AllTagged(buf) = TagsSpaced(Tags(doc))
  BY DEF TextInv
<1>3. /\ IsMeasured(e) /\ IsList(r) /\ \A i \in 1..Len(r) : IsRendered(r[i])
      /\ AllPieces(r) = Spaced(r) /\ AllSpelled(r) = CharactersOf(e)
      /\ AllTagged(r) = TagsSpaced(TagOf(e))
  BY EventsSay, Zenon DEF EventSays, Utters
<1>4. AreMeasured(doc)
  BY <1>2, MeasuredEvents
<1> HIDE DEF r
<1>5. IsList(doc') /\ \A i \in 1..Len(doc') : doc'[i] \in DocEvents
  <2> DEFINE d == Append(doc, e)
  <2>1. /\ IsList(d) /\ Len(d) = Len(doc) + 1 /\ Len(doc) \in Nat
        /\ \A i \in 1..Len(doc) : d[i] = doc[i]
        /\ d[Len(doc) + 1] = e
    BY <1>2, AppendList, ListLength
  <2> HIDE DEF d
  <2>2. \A i \in 1..Len(d) : i \in 1..Len(doc) \/ i = Len(doc) + 1
    BY <2>1
  <2>3. \A i \in 1..Len(d) : d[i] \in DocEvents
    BY <1>2, <2>1, <2>2
  <2> QED
    BY <1>1, <2>1, <2>3 DEF d
<1>6. IsList(buf') /\ \A i \in 1..Len(buf') : IsRendered(buf'[i])
  <2> DEFINE b == buf \o r
             n == Len(buf)
  <2>1. IsConcat(b, buf, r)
    BY <1>2, <1>3, ConcatIs
  <2> HIDE DEF b
  <2>2. /\ IsList(b) /\ Len(b) = n + Len(r) /\ n \in Nat /\ Len(r) \in Nat
        /\ \A i \in 1..n : b[i] = buf[i]
        /\ \A i \in 1..Len(r) : b[n + i] = r[i]
    BY <1>2, <1>3, <2>1, ListLength DEF IsConcat
  <2>3. ASSUME NEW i \in 1..Len(b) PROVE IsRendered(b[i])
    <3>1. CASE i \in 1..n
      BY <1>2, <2>2, <3>1
    <3>2. CASE i \notin 1..n
      <4>1. i - n \in 1..Len(r) /\ n + (i - n) = i
        BY <2>2, <3>2
      <4>2. b[i] = r[i - n]
        BY <2>2, <4>1
      <4> QED
        BY <1>3, <4>1, <4>2
    <3> QED
      BY <3>1, <3>2
  <2> QED
    BY <1>1, <2>2, <2>3 DEF b
<1>7. /\ Joining(AllPieces(buf'), AllPieces(buf), AllPieces(r))
      /\ Joining(AllSpelled(buf'), AllSpelled(buf), AllSpelled(r))
      /\ Joining(AllTagged(buf'), AllTagged(buf), AllTagged(r))
  BY <1>1, <1>2, <1>3, LexemesJoin, Zenon
<1>8. /\ Adds(Characters(doc'), Characters(doc), CharactersOf(e))
      /\ Adds(Tags(doc'), Tags(doc), TagOf(e))
  BY <1>1, <1>3, <1>4, MeasuresMore, Zenon
<1>9. Spaced(buf') = <<XmlDecl>> \o AllPieces(buf')
  <2> DEFINE p == AllPieces(buf)
             q == AllPieces(r)
  <2>1. IsList(p) /\ IsList(q)
    <3>1. Lists(PieceEach(buf)) /\ Lists(PieceEach(r))
      BY <1>2, <1>3, LexemesLists
    <3> QED
      BY <3>1, FlattenType DEF AllPieces
  <2>2. IsList(<<XmlDecl>>)
    BY Singleton
  <2> HIDE DEF p, q
  <2>3. Associates(<<XmlDecl>>, p, q)
    BY <2>1, <2>2, ConcatThree
  <2>4. AllPieces(buf') = p \o q
    BY <1>7, Zenon DEF Joining, p, q
  <2>5. Spaced(buf') = Spaced(buf) \o Spaced(r)
    BY <1>1, <1>2, <1>3, SpacedJoin, Zenon DEF Joining
  <2>6. Spaced(buf) = <<XmlDecl>> \o p /\ Spaced(r) = q
    BY <1>2, <1>3, Zenon DEF p, q
  <2> QED
    BY <2>3, <2>4, <2>5, <2>6, Zenon DEF Associates
<1>10. AllSpelled(buf') = Characters(doc')
  BY <1>2, <1>3, <1>7, <1>8, Zenon DEF Joining, Adds
<1>11. AllTagged(buf') = TagsSpaced(Tags(doc'))
  <2>1. IsList(Tags(doc)) /\ IsList(TagOf(e))
    BY <1>3, <1>4, MeasureTypes DEF IsMeasured
  <2>2. Joining(TagsSpaced(Tags(doc) \o TagOf(e)), TagsSpaced(Tags(doc)), TagsSpaced(TagOf(e)))
    BY <2>1, TagsSpacedJoin
  <2> QED
    BY <1>2, <1>3, <1>7, <1>8, <2>2, Zenon DEF Joining, Adds
<1> QED
  BY <1>5, <1>6, <1>9, <1>10, <1>11, Zenon DEF TextInv

LEMMA TextInvStutter ==
  ASSUME TextInv, UNCHANGED textVars
  PROVE  TextInv'
<1>1. doc' = doc /\ buf' = buf
  BY DEF textVars
<1> QED
  BY <1>1, Zenon DEF TextInv

\* The XML text of what has been read of a well-formed document consists of lexemes that
\* render_event writes, after the declaration, and read one by one they say what the
\* document does: the same characters, and the same tags with the white space of their
\* attributes normalized.
THEOREM TextInvariant == TextSpec => []TextInv
<1>1. TextInit => TextInv
  BY TextInvInit
<1>2. TextInv /\ [TextNext]_textVars => TextInv'
  BY TextInvRender, TextInvStutter DEF TextNext
<1> QED
  BY <1>1, <1>2, PTL DEF TextSpec

LEMMA RenderedReadable ==
  ASSUME NEW x, IsRendered(x)
  PROVE  /\ x[1] = "char" => x[2] \notin Specials
         /\ x[1] = "<" => AreAttribs(x[3])
<1>1. CASE x = XmlDecl
  <2>1. x[1] = "<?xml"
    BY <1>1, Singleton DEF XmlDecl
  <2> QED
    BY <2>1
<1>2. CASE x = Char(x[2]) /\ x[2] \notin Specials
  <2>1. x[1] = "char"
    BY <1>2, Lexemes
  <2> QED
    BY <1>2, <2>1
<1>3. CASE x = Ref(x[2])
  <2>1. x[1] = "ref"
    BY <1>3, Lexemes
  <2> QED
    BY <2>1
<1>4. CASE x = <<x[1], x[2]>> /\ x[1] \in Marks
  BY <1>4 DEF Marks
<1>5. CASE x = <<"<", x[2], x[3]>> /\ AreAttribs(x[3])
  <2>1. x[1] = "<"
    BY <1>5, TripleFields
  <2> QED
    BY <1>5, <2>1
<1> QED
  BY <1>1, <1>2, <1>3, <1>4, <1>5, Zenon DEF IsRendered, AreAttribs, Marks

\* A tag that is written again is read as before.
LEMMA ReadRespaced ==
  ASSUME NEW found, NEW x, IsRendered(x)
  PROVE  ReadLexeme(found, Respaced(x)) = ReadLexeme(found, x)
<1>1. CASE x[1] # "<"
  BY <1>1, RespacedIs, Zenon
<1>2. CASE x[1] = "<"
  <2> DEFINE n == x[2]
             as == x[3]
             y == RespacedTag(n, as)
             bs == AttribsSpaced(as)
  <2>1. AreAttribs(as)
    BY <1>2, RenderedReadable
  <2>2. Respaced(x) = y
    BY <1>2, RespacedIs
  <2> HIDE DEF n, as
  <2>3. y[1] = "<" /\ y[2] = n /\ y[3] = bs
    BY TripleFields, Zenon DEF RespacedTag
  <2> HIDE DEF y
  <2>4. DOMAIN bs = DOMAIN as /\ \A k \in DOMAIN as : bs[k] = <<as[k][1], xml_escape(Decoded(as[k][2]))>>
    BY DEF AttribsSpaced
  <2> HIDE DEF bs
  <2>5. ASSUME NEW k \in DOMAIN as
        PROVE  bs[k][1] = as[k][1] /\ Decoded(bs[k][2]) = Decoded(as[k][2])
    <3>1. IsList(as[k][2])
      BY <2>1, ListLength DEF AreAttribs, IsEscaped
    <3> DEFINE v == xml_escape(Decoded(as[k][2]))
    <3>2. Decoded(v) = Decoded(as[k][2])
      BY <3>1, DecodedIs
    <3>3. bs[k] = <<as[k][1], v>>
      BY <2>4
    <3> HIDE DEF v
    <3>4. bs[k][1] = as[k][1] /\ bs[k][2] = v
      BY <3>3
    <3> QED
      BY <3>2, <3>4, Zenon
  <2>6. ReadAttribs(bs) = ReadAttribs(as)
    BY <2>4, <2>5, Zenon DEF ReadAttribs
  <2>7. TagFound(y) = TagFound(x)
    <3>1. TagFound(y) = [kind |-> "Start", text |-> y[2], attributes |-> ReadAttribs(y[3])]
      BY Zenon DEF TagFound, ReadAttribs
    <3>2. TagFound(x) = [kind |-> "Start", text |-> x[2], attributes |-> ReadAttribs(x[3])]
      BY Zenon DEF TagFound, ReadAttribs
    <3> QED
      BY <2>3, <2>6, <3>1, <3>2, Zenon DEF n, as
  <2>8. ReadLexeme(found, y) = Append(found, TagFound(y))
    BY <2>3, ReadAs, Zenon DEF TagRead
  <2>9. ReadLexeme(found, x) = Append(found, TagFound(x))
    BY <1>2, ReadAs, Zenon DEF TagRead
  <2> QED
    BY <2>2, <2>7, <2>8, <2>9, Zenon
<1> QED
  BY <1>1, <1>2

GoesOn(f, lx, n) == f[n + 1] = ReadLexeme(f[n], lx[n + 1])
ReadsThrough(f, lx, N)   == f[0] = <<>> /\ \A n \in Nat : n + 1 <= N => GoesOn(f, lx, n)

LEMMA ReadingStep ==
  ASSUME NEW f, NEW lx, NEW N \in Nat, ReadingOf(f, lx, N)
  PROVE  ReadsThrough(f, lx, N)
<1>1. \A k \in 0..N : f[k] = IF k = 0 THEN <<>> ELSE ReadLexeme(f[k - 1], lx[k])
  BY Zenon DEF ReadingOf
<1>2. f[0] = <<>>
  BY <1>1
<1>3. ASSUME NEW n \in Nat, n + 1 <= N PROVE GoesOn(f, lx, n)
  <2>1. n + 1 \in 0..N /\ (n + 1) - 1 = n /\ n + 1 # 0
    BY <1>3
  <2> QED
    BY <1>1, <2>1 DEF GoesOn
<1> QED
  BY <1>2, <1>3 DEF ReadsThrough

LEMMA ReadSpaced ==
  ASSUME NEW lx, IsList(lx), \A i \in 1..Len(lx) : IsRendered(lx[i])
  PROVE  ReadXml(Spaced(lx)) = ReadXml(lx)
<1> DEFINE ly == Spaced(lx)
           N == Len(lx)
<1>1. N \in Nat /\ IsList(ly) /\ Len(ly) = N /\ \A i \in 1..N : ly[i] = Respaced(lx[i])
  BY ListLength, SpacedIs
<1> HIDE DEF ly
<1>2. PICK f : ReadingOf(f, lx, N) /\ ReadXml(lx) = f[N]
  BY ReadXmlIs
<1>3. PICK g : ReadingOf(g, ly, N) /\ ReadXml(ly) = g[N]
  BY <1>1, ReadXmlIs
<1>4. ReadsThrough(f, lx, N) /\ ReadsThrough(g, ly, N)
  BY <1>1, <1>2, <1>3, ReadingStep
<1> DEFINE T == {n \in Nat : n <= N => g[n] = f[n]}
<1>5. 0 \in T
  BY <1>4 DEF ReadsThrough
<1>6. ASSUME NEW n \in T PROVE n + 1 \in T
  <2>1. n \in Nat /\ n + 1 \in Nat
    OBVIOUS
  <2>2. ASSUME n + 1 <= N PROVE g[n + 1] = f[n + 1]
    <3>1. n <= N /\ n + 1 \in 1..N
      BY <1>1, <2>1, <2>2
    <3>2. GoesOn(f, lx, n) /\ GoesOn(g, ly, n)
      BY <1>4, <2>1, <2>2 DEF ReadsThrough
    <3>3. g[n] = f[n]
      BY <3>1
    <3>4. ly[n + 1] = Respaced(lx[n + 1]) /\ IsRendered(lx[n + 1])
      BY <1>1, <3>1
    <3>5. ReadLexeme(f[n], Respaced(lx[n + 1])) = ReadLexeme(f[n], lx[n + 1])
      BY <3>4, ReadRespaced
    <3> QED
      BY <3>2, <3>3, <3>4, <3>5, Zenon DEF GoesOn
  <2> QED
    BY <2>1, <2>2
<1> HIDE DEF T
<1>7. T \in SUBSET Nat
  BY DEF T
<1>8. T = Nat
  BY <1>5, <1>6, <1>7, NatSetInduction
<1>9. N \in T /\ N <= N
  BY <1>1, <1>8
<1>10. g[N] = f[N]
  BY <1>9 DEF T
<1> QED
  BY <1>2, <1>3, <1>10, Zenon DEF ly

LEMMA EscapedNotBare ==
  ASSUME NEW vs, IsEscaped(vs)
  PROVE  ~Bare(vs, {"<", "&", "quote"})
<1>1. DOMAIN vs = 1..Len(vs)
  BY ListLength DEF IsEscaped
<1>2. ASSUME NEW i \in DOMAIN vs, vs[i][1] = "char" PROVE vs[i][2] \notin Specials
  <2>1. \/ \E c : c \notin Specials /\ vs[i] = Char(c)
        \/ \E c \in Specials : vs[i] = Ref(EntityOf(c))
    BY <1>1, <1>2 DEF IsEscaped
  <2>2. ~\E c \in Specials : vs[i] = Ref(EntityOf(c))
    BY <1>2, Lexemes
  <2> QED
    BY <2>1, <2>2, Lexemes
<1>3. {"<", "&", "quote"} \subseteq Specials
  BY DEF Specials
<1> QED
  BY <1>2, <1>3 DEF Bare

LEMMA RenderedIsReadable ==
  ASSUME NEW lx, IsList(lx), \A i \in 1..Len(lx) : IsRendered(lx[i])
  PROVE  Readable(lx)
<1>1. DOMAIN lx = 1..Len(lx)
  BY ListLength
<1>2. ~Bare(lx, {"<", "&"})
  <2>1. {"<", "&"} \subseteq Specials
    BY DEF Specials
  <2>2. \A i \in DOMAIN lx : lx[i][1] = "char" => lx[i][2] \notin Specials
    BY <1>1, RenderedReadable
  <2> QED
    BY <2>1, <2>2 DEF Bare
<1>3. ASSUME NEW i \in DOMAIN lx, lx[i][1] = "<", NEW k \in DOMAIN lx[i][3]
      PROVE  ~Bare(lx[i][3][k][2], {"<", "&", "quote"})
  <2> DEFINE as == lx[i][3]
  <2>1. AreAttribs(as)
    BY <1>1, <1>3, RenderedReadable
  <2>2. k \in DOMAIN as
    OBVIOUS
  <2> HIDE DEF as
  <2>3. k \in 1..Len(as)
    BY <2>1, <2>2, ListLength DEF AreAttribs
  <2>4. IsEscaped(as[k][2])
    BY <2>1, <2>3 DEF AreAttribs
  <2> QED
    BY <2>4, EscapedNotBare DEF as
<1> QED
  BY <1>2, <1>3, Zenon DEF Readable

\* The XML text of a well-formed document is, at every event, read as it was written.  Unless
\* xml_to_abx refuses it, it is rendered again as the same text but for the white space of
\* attributes, and that text is not refused and is rendered again as it is.
THEOREM TextIsStable == TextSpec => []XmlStable
<1>1. TextInv => XmlStable
  <2> SUFFICES ASSUME TextInv PROVE XmlStable
    OBVIOUS
  <2>1. /\ IsList(buf) /\ \A i \in 1..Len(buf) : IsRendered(buf[i])
        /\ Spaced(buf) = <<XmlDecl>> \o AllPieces(buf)
    BY DEF TextInv
  <2>2. Readable(buf)
    BY <2>1, RenderedIsReadable
  <2>3. SaysSame(ReadXml(buf), buf)
    BY <2>1, ReadRendered
  <2>4. Pieces(Again(buf)) = AllPieces(buf)
    BY <2>3, Zenon DEF SaysSame, Again
  <2>5. ToXml(Again(buf)) = Spaced(buf)
    BY <2>1, <2>4, Zenon DEF ToXml
  <2> DEFINE once == Spaced(buf)
  <2>6. ReadXml(once) = ReadXml(buf)
    BY <2>1, ReadSpaced
  <2> HIDE DEF once
  <2>7. Again(once) = Again(buf) /\ (Refused(once) <=> Refused(buf))
    BY <2>6, Zenon DEF Again, Refused
  <2> QED
    BY <2>2, <2>5, <2>7, Zenon DEF XmlStable, once
<1> QED
  BY <1>1, TextInvariant, PTL

\* What xml_to_abx makes of the XML text of a well-formed document, if it does not refuse it,
\* has the document's characters and its tags, with the text of every attribute, whose white
\* space has become spaces.
THEOREM TextSurvives == TextSpec => []ContentSurvives
<1>1. TextInv => ContentSurvives
  <2> SUFFICES ASSUME TextInv PROVE ContentSurvives
    OBVIOUS
  <2>1. /\ IsList(buf) /\ \A i \in 1..Len(buf) : IsRendered(buf[i])
        /\ AllSpelled(buf) = Characters(doc) /\ AllTagged(buf) = TagsSpaced(Tags(doc))
    BY DEF TextInv
  <2>2. SaysSame(ReadXml(buf), buf)
    BY <2>1, ReadRendered
  <2> QED
    BY <2>1, <2>2, Zenon DEF SaysSame, Again, ContentSurvives
<1> QED
  BY <1>1, TextInvariant, PTL

\* The text of a number, in decimal or in hex, reads back as the number of its width that has
\* the bits it was read from, whatever the width, and begins with 0 only when it is 0.
THEOREM NumbersSurvive == TextSpec => []NumbersReadBack
<1>1. TextInv => NumbersReadBack
  <2> SUFFICES ASSUME TextInv PROVE NumbersReadBack
    OBVIOUS
  <2>1. IsList(doc) /\ \A i \in 1..Len(doc) : doc[i] \in DocEvents
    BY DEF TextInv
  <2>2. ASSUME NEW v, IsValue(v), v.type \in Numbers
        PROVE  LET h == Half(v.type)
                   base == IF v.type \in {TYPE_INT_HEX, TYPE_LONG_HEX} THEN 16 ELSE 10
                   n == Number(AsStr(v), base)
               IN /\ n \in (0 - h)..(h - 1)
                  /\ n % (2 * h) = v.bits
                  /\ AsStr(v)[1] = "0" => AsStr(v) = <<"0">>
    <3>1. /\ Number(AsStr(v), BaseOf(v.type)) = Signed(v.type, v.bits)
          /\ AsStr(v)[1] = "0" => AsStr(v) = <<"0">>
      BY <2>2, NumberText DEF IsNumberText
    <3>2. v.bits \in 0..(2 * Half(v.type) - 1)
      BY <2>2 DEF IsValue
    <3>3. /\ Signed(v.type, v.bits) \in (0 - Half(v.type))..(Half(v.type) - 1)
          /\ Signed(v.type, v.bits) % (2 * Half(v.type)) = v.bits
      BY <3>2, SignedIs
    <3> QED
      BY <3>1, <3>3, Zenon DEF BaseOf
  <2>3. ASSUME NEW i \in DOMAIN doc, NEW k \in DOMAIN doc[i].attributes
        PROVE  IsValue(doc[i].attributes[k])
    <3> DEFINE as == doc[i].attributes
    <3>1. doc[i] \in DocEvents
      BY <2>1, ListLength
    <3>2. AreValues(as)
      BY <3>1, DocEventIs
    <3>3. k \in DOMAIN as
      OBVIOUS
    <3> HIDE DEF as
    <3>4. k \in 1..Len(as)
      BY <3>2, <3>3, ListLength DEF AreValues
    <3>5. IsValue(as[k])
      BY <3>2, <3>4 DEF AreValues
    <3> QED
      BY <3>5 DEF as
  <2> QED
    BY <2>2, <2>3, Zenon DEF NumbersReadBack
<1> QED
  BY <1>1, TextInvariant, PTL
=============================================================================
