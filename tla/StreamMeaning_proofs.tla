------------------------ MODULE StreamMeaning_proofs ------------------------
(***************************************************************************)
(* Proofs about StreamParser: what the parsers make of a message, wherever *)
(* its stream is cut and whatever the limits are.                          *)
(*                                                                         *)
(* The argument follows what is left of the stream: the bytes in the       *)
(* buffer, those of the write and those on the wire.  A call takes what it *)
(* hands over off its beginning, no matter where the writes end, and what  *)
(* it hands over goes up to the first delimiter of what is left.  So there *)
(* is a place in the message for every state of a parser, and what has     *)
(* been decoded is what is before that place.                              *)
(***************************************************************************)
EXTENDS StreamParser_proofs

-----------------------------------------------------------------------------
(* What is left *)

Left == (Bytes(sub.buf) \o pending) \o wire

\* What an outcome of a call would leave.
Rest(r) == (Bytes(r.sub.buf) \o After(pending, r.taken)) \o wire

\* What is left is a sequence of symbols.
LEMMA LeftType ==
    ASSUME StreamOK, CurOK
    PROVE  Left \in Seq(Symbols) /\ Bytes(sub.buf) \in Seq(Symbols)
<1>1. sub.buf \in Seq(Chunk(Symbols))
  BY DEF CurOK, SubParserOK, SubParsers
<1>2. Bytes(sub.buf) \in Seq(Symbols) /\ pending \in Seq(Symbols) /\ wire \in Seq(Symbols)
  BY <1>1, BytesType DEF StreamOK
<1>3. Bytes(sub.buf) \o pending \in Seq(Symbols)
  BY <1>2, ConcatProperties
<1> QED
  BY <1>2, <1>3, ConcatProperties DEF Left

\* A call that does not fail divides what is left: what it hands over and what it leaves.
LEMMA LeftDivided ==
    ASSUME StreamOK, CurOK, NEW r \in Outcomes(cur), r.ok = TRUE
    PROVE  /\ Handed(r) \in Seq(Symbols) /\ Rest(r) \in Seq(Symbols)
           /\ Left = Handed(r) \o Rest(r)
<1> DEFINE f == IF r.parses THEN r.sub.found ELSE << >>
<1>1. Promised(sub, pending, r, Symbols)
  BY OutcomeKept DEF Kept
<1>2. /\ r.taken \in 0..Len(pending) /\ r.piece \in Seq(Symbols) /\ SubParserOK(r.sub, Symbols)
      /\ (Handed(r) \o Bytes(r.sub.buf)) \o After(pending, r.taken) = Bytes(sub.buf) \o pending
  BY <1>1 DEF Promised
<1>3. PICK k \in Seq(Symbols) : k = Bytes(r.sub.buf)
  <2>1. r.sub.buf \in Seq(Chunk(Symbols))
    BY <1>2 DEF SubParserOK, SubParsers
  <2> QED
    BY <2>1, BytesType
<1>4. PICK h \in Seq(Symbols) : h = Handed(r)
  <2>1. f \in Seq(Symbols)
    <3>1. r.sub.found \in Seq(Symbols) /\ << >> \in Seq(Symbols)
      BY <1>2 DEF SubParserOK, SubParsers
    <3> QED
      BY <3>1
  <2>2. Handed(r) = r.piece \o f
    BY DEF Handed
  <2> HIDE DEF f
  <2> QED
    BY <1>2, <2>1, <2>2, ConcatProperties
<1>5. PICK q \in Seq(Symbols) : q = After(pending, r.taken)
  <2>1. pending \in Seq(Symbols)
    BY DEF StreamOK
  <2>2. PICK n \in 0..Len(pending) : n = r.taken
    BY <1>2
  <2> QED
    BY <2>1, <2>2, AfterType
<1>6. wire \in Seq(Symbols)
  BY DEF StreamOK
<1>7. k \o q \in Seq(Symbols) /\ h \o k \in Seq(Symbols)
  BY ConcatProperties
<1>8. Left = ((h \o k) \o q) \o wire
  BY <1>2, <1>3, <1>4, <1>5 DEF Left
<1>9. Rest(r) = (k \o q) \o wire
  BY <1>3, <1>5 DEF Rest
<1>10. (k \o q) \o wire \in Seq(Symbols)
  BY <1>6, <1>7, ConcatProperties
<1>11. ((h \o k) \o q) \o wire = h \o ((k \o q) \o wire)
  <2>1. Assoc(Symbols, h, k, q) /\ Assoc(Symbols, h, k \o q, wire)
    BY AlwaysAssoc
  <2>2. (h \o k) \o q = h \o (k \o q)
    BY <2>1, Zenon DEF Assoc
  <2>3. (h \o (k \o q)) \o wire = h \o ((k \o q) \o wire)
    BY <1>6, <1>7, <2>1, Zenon DEF Assoc
  <2> QED
    BY <2>2, <2>3, Zenon
<1> QED
  BY <1>4, <1>8, <1>9, <1>10, <1>11

\* A call that returns leaves that.
LEMMA LeftGoes ==
    ASSUME NEW r, Log(r), Goes(r), sub'.buf = r.sub.buf
    PROVE  Left' = Rest(r)
<1>1. pending' = After(pending, r.taken) /\ wire' = wire
  BY DEF Log, Goes
<1>2. Left' = (Bytes(sub'.buf) \o pending') \o wire'
  BY DEF Left
<1> QED
  BY <1>1, <1>2 DEF Rest

\* A read changes nothing of it.
LEMMA LeftReads ==
    ASSUME StreamOK, CurOK, Read
    PROVE  Left' = Left
<1>1. PICK n \in 1..Len(wire) : pending' = SubSeq(wire, 1, n) /\ wire' = After(wire, n)
  BY DEF Read
<1>2. pending = << >> /\ sub' = sub
  BY DEF Read
<1>3. wire \in Seq(Symbols) /\ Len(wire) \in Nat
  BY LenProperties DEF StreamOK
<1>4. pending' \in Seq(Symbols) /\ wire' \in Seq(Symbols) /\ pending' \o wire' = wire
  <2>1. n \in 0..Len(wire)
    BY <1>3
  <2> QED
    BY <1>1, <1>3, <2>1, AfterType
<1>5. PICK b \in Seq(Symbols) : b = Bytes(sub.buf)
  BY LeftType
<1>6. b \o << >> = b
  BY ConcatEmptySeq
<1>7. (b \o pending') \o wire' = b \o (pending' \o wire')
  <2>1. Assoc(Symbols, b, pending', wire')
    BY AlwaysAssoc
  <2> QED
    BY <1>4, <2>1, Zenon DEF Assoc
<1>8. Left' = (b \o pending') \o wire' /\ Left = (b \o << >>) \o wire
  BY <1>2, <1>5 DEF Left
<1> QED
  BY <1>4, <1>6, <1>7, <1>8

\* A subparser with one delimiter hands over what is before the first one in what is left.
LEMMA CutHere ==
    ASSUME StreamOK, CurOK, NEW p, NEW r \in Parsed(p), pending # << >>,
           sub.mode = "delimiter", sub.ended = FALSE,
           NEW d \in Seq(Symbols), d # << >>, sub.delims = <<d>>,
           NEW x \in Seq(Symbols), NEW y \in Seq(Symbols), Left = (x \o d) \o y, Ends(x, d)
    PROVE  /\ r.piece = x /\ Rest(r) = y
           /\ r.sub.delims = <<d>> /\ r.sub.ended = FALSE /\ r.sub.buf = Empty
<1>1. /\ r \in Outcomes(cur) /\ r.ok = TRUE /\ r.piece \in Seq(Symbols) /\ r.sub.buf = Empty
      /\ r.parses
  BY ParsedKept DEF Parsed
<1>2. Cuts(sub, pending, r)
  <2>1. r \in writeIntoParser(sub, pending)
    BY <1>1 DEF Outcomes
  <2>2. SubParserOK(sub, Symbols) /\ pending \in Seq(Symbols)
    BY DEF CurOK, StreamOK
  <2> QED
    BY <2>1, <2>2, WriteCuts
<1>3. r.sub.delims = <<d>> /\ r.sub.ended = FALSE
  BY <1>2 DEF Cuts
<1>4. r.parses = TRUE
  <2>1. Kept(sub, pending, r, Symbols)
    BY <1>1, OutcomeKept
  <2> QED
    BY <1>1, <2>1 DEF Kept, Promised
<1>5. r.sub.found = d /\ Ends(r.piece, d)
  <2>1. PICK k \in 1..Len(sub.delims) : r.sub.found = sub.delims[k] /\ Ends(r.piece, sub.delims[k])
    BY <1>1, <1>2, <1>3, <1>4 DEF Cuts, CutByDelimiter
  <2>2. sub.delims[k] = d
    BY <2>1
  <2> QED
    BY <2>1, <2>2
<1>6. Rest(r) \in Seq(Symbols) /\ Left = (r.piece \o d) \o Rest(r)
  BY <1>1, <1>4, <1>5, LeftDivided DEF Handed
<1>7. FirstCut(Symbols, r.piece, Rest(r), x, y, d)
  BY OneFirstCut
<1>8. r.piece = x /\ Rest(r) = y
  BY <1>1, <1>5, <1>6, <1>7, Zenon DEF FirstCut
<1> QED
  BY <1>1, <1>3, <1>8

-----------------------------------------------------------------------------
(* Sequences of pieces *)

\* A sequence that is not empty has a first element.
LEMMA HeadTail ==
    ASSUME NEW S, NEW s \in Seq(S), s # << >>
    PROVE  \E a \in S, t \in Seq(S) : s = <<a>> \o t
<1>1. Len(s) \in Nat /\ Len(s) # 0
  BY LenProperties, EmptySeq
<1>2. 1 \in 0..Len(s) /\ 1 \in 1..Len(s)
  BY <1>1
<1>3. /\ After(s, 1) \in Seq(S)
      /\ SubSeq(s, 1, 1) \o After(s, 1) = s
      /\ SubSeq(s, 1, 1) \in Seq(S) /\ Len(SubSeq(s, 1, 1)) = 1
  BY <1>2, AfterType
<1>4. s[1] \in S
  BY <1>2, ElementOfSeq
<1>5. SubSeq(s, 1, 1) = <<s[1]>>
  <2>1. PICK u \in Seq(S) : u = SubSeq(s, 1, 1) /\ Len(u) = 1
    BY <1>3
  <2>2. u[1] = s[1]
    BY <1>1, <1>2, <2>1
  <2>3. PICK v \in Seq(S) : v = <<s[1]>> /\ Len(v) = 1 /\ v[1] = s[1]
    <3>1. ASSUME NEW a \in S PROVE <<a>> \in Seq(S) /\ Len(<<a>>) = 1 /\ <<a>>[1] = a
      OBVIOUS
    <3> QED
      BY <1>4, <3>1
  <2>4. \A i \in 1..Len(u) : u[i] = v[i]
    BY <2>1, <2>2, <2>3
  <2> QED
    BY <2>1, <2>3, <2>4, SeqEqual
<1>6. PICK t \in Seq(S) : t = After(s, 1)
  BY <1>3
<1>7. s = <<s[1]>> \o t
  BY <1>3, <1>5, <1>6
<1> QED
  BY <1>4, <1>7

\* One element, and others after it.
LEMMA ConsAt ==
    ASSUME NEW S, NEW a \in S, NEW t \in Seq(S)
    PROVE  /\ <<a>> \in Seq(S) /\ <<a>> \o t \in Seq(S) /\ Len(<<a>> \o t) = Len(t) + 1
           /\ Len(t) \in Nat
           /\ (<<a>> \o t)[1] = a
           /\ \A i \in 1..Len(t) : (<<a>> \o t)[i + 1] = t[i]
<1>1. <<a>> \in Seq(S) /\ Len(<<a>>) = 1 /\ <<a>>[1] = a
  OBVIOUS
<1>2. PICK u \in Seq(S) : u = <<a>> /\ Len(u) = 1 /\ u[1] = a
  BY <1>1
<1>3. /\ u \o t \in Seq(S) /\ Len(u \o t) = Len(u) + Len(t) /\ Len(t) \in Nat
      /\ \A i \in 1..(Len(u) + Len(t)) : (u \o t)[i] = IF i <= Len(u) THEN u[i] ELSE t[i - Len(u)]
  BY ConcatProperties, LenProperties
<1>4. (u \o t)[1] = a /\ \A i \in 1..Len(t) : (u \o t)[i + 1] = t[i]
  BY <1>2, <1>3
<1> QED
  BY <1>1, <1>2, <1>3, <1>4

\* Flattening one sequence.
LEMMA FlattenOne ==
    ASSUME NEW S, NEW s \in Seq(S)
    PROVE  FlattenSeq(<<s>>) = s
<1>1. << >> \in Seq(Seq(S)) /\ Append(<< >>, s) = <<s>>
  OBVIOUS
<1>2. FlattenSeq(Append(<< >>, s)) = FlattenSeq(<< >>) \o s
  BY <1>1, FlattenAppend
<1>3. << >> \o s = s
  BY ConcatEmptySeq
<1> QED
  BY <1>1, <1>2, <1>3, FlattenEmpty

\* The first of the sequences, then the others.
LEMMA FlattenFirst ==
    ASSUME NEW S, NEW ss \in Seq(Seq(S)), NEW tt \in Seq(Seq(S)),
           Len(ss) = Len(tt) + 1, \A i \in 1..Len(tt) : ss[i + 1] = tt[i]
    PROVE  /\ ss[1] \in Seq(S) /\ FlattenSeq(tt) \in Seq(S)
           /\ FlattenSeq(ss) = ss[1] \o FlattenSeq(tt)
<1>1. Len(tt) \in Nat
  BY LenProperties
<1>2. PICK a \in Seq(S) : a = ss[1]
  <2>1. 1 \in 1..Len(ss)
    BY <1>1
  <2> QED
    BY <2>1, ElementOfSeq
<1>3. PICK u \in Seq(Seq(S)) : u = <<a>> \o tt
  BY ConsAt
<1>4. Len(u) = Len(tt) + 1 /\ u[1] = a /\ \A i \in 1..Len(tt) : u[i + 1] = tt[i]
  BY <1>3, ConsAt
<1>5. \A i \in 1..Len(u) : u[i] = ss[i]
  <2> TAKE i \in 1..Len(u)
  <2>1. CASE i = 1
    BY <1>2, <1>4, <2>1
  <2>2. CASE i # 1
    <3>1. PICK j \in 1..Len(tt) : i = j + 1
      <4>1. i - 1 \in 1..Len(tt) /\ i = (i - 1) + 1
        BY <1>1, <1>4, <2>2
      <4> QED
        BY <4>1
    <3> QED
      BY <1>4, <3>1
  <2> QED
    BY <2>1, <2>2
<1>6. u = ss
  BY <1>4, <1>5, SeqEqual
<1>7. FlattenSeq(u) = FlattenSeq(<<a>>) \o FlattenSeq(tt)
  <2>1. <<a>> \in Seq(Seq(S))
    OBVIOUS
  <2> QED
    BY <1>3, <2>1, FlattenConcat
<1> QED
  BY <1>2, <1>6, <1>7, FlattenOne, FlattenType

\* The last of the sequences, after the others.
LEMMA FlattenLast ==
    ASSUME NEW S, NEW ss \in Seq(Seq(S)), NEW tt \in Seq(Seq(S)),
           Len(ss) = Len(tt) + 1, \A i \in 1..Len(tt) : ss[i] = tt[i]
    PROVE  /\ ss[Len(ss)] \in Seq(S) /\ FlattenSeq(tt) \in Seq(S)
           /\ FlattenSeq(ss) = FlattenSeq(tt) \o ss[Len(ss)]
<1>1. Len(tt) \in Nat
  BY LenProperties
<1>2. PICK a \in Seq(S) : a = ss[Len(ss)]
  <2>1. Len(ss) \in 1..Len(ss)
    BY <1>1
  <2> QED
    BY <2>1, ElementOfSeq
<1>3. PICK u \in Seq(Seq(S)) : u = Append(tt, a)
  BY AppendProperties
<1>4. Len(u) = Len(tt) + 1 /\ u[Len(tt) + 1] = a /\ \A i \in 1..Len(tt) : u[i] = tt[i]
  BY <1>1, <1>3, AppendProperties
<1>5. \A i \in 1..Len(u) : u[i] = ss[i]
  <2> TAKE i \in 1..Len(u)
  <2>1. i \in 1..Len(tt) \/ i = Len(tt) + 1
    BY <1>1, <1>4
  <2> QED
    BY <1>2, <1>4, <2>1
<1>6. u = ss
  BY <1>4, <1>5, SeqEqual
<1>7. FlattenSeq(u) = FlattenSeq(tt) \o a
  BY <1>3, FlattenAppend
<1> QED
  BY <1>2, <1>6, <1>7, FlattenType

\* A beginning of a sequence that is known to be one.
LEMMA StartIs ==
    ASSUME NEW S, NEW a \in Seq(S), NEW b \in Seq(S)
    PROVE  a = SubSeq(a \o b, 1, Len(a)) /\ IsPrefix(a, a \o b)
<1> DEFINE c == a \o b
<1>1. /\ c \in Seq(S) /\ Len(c) = Len(a) + Len(b) /\ Len(a) \in Nat /\ Len(b) \in Nat
      /\ \A i \in 1..Len(a) : c[i] = a[i]
  BY ConcatProperties, LenProperties
<1> HIDE DEF c
<1>2. Len(a) <= Len(c)
  BY <1>1
<1>3. SubSeq(c, 1, Len(a)) = [i \in 1..Len(a) |-> c[i]] /\ SubSeq(a, 1, Len(a)) = [i \in 1..Len(a) |-> a[i]]
  BY <1>1, <1>2
<1>4. SubSeq(c, 1, Len(a)) = SubSeq(a, 1, Len(a))
  BY <1>1, <1>3
<1>5. SubSeq(a, 1, Len(a)) = a
  BY SubSeqFull
<1>6. IsPrefix(a, c)
  BY <1>2, <1>4 DEF IsPrefix
<1> QED
  BY <1>4, <1>5, <1>6 DEF c

-----------------------------------------------------------------------------
(* Lines *)

\* The delimiter of the lines.
LEMMA CRLFType ==
    /\ CRLF \in Seq(Symbols) /\ CRLF # << >> /\ Len(CRLF) = 2
    /\ CRLF[1] = CR /\ CRLF[2] = LF /\ CR # LF
    /\ CR \in Symbols /\ LF \in Symbols
<1>1. CR \in Symbols /\ LF \in Symbols
  BY SymbolsAssumption
<1>2. CR # LF
  BY DEF CR, LF
<1> QED
  BY <1>1, <1>2 DEF CRLF

\* Nothing is before a delimiter at the beginning.
LEMMA EndsNone ==
    ASSUME NEW d
    PROVE  Ends(<< >>, d)
BY DEF Ends

\* A symbol, whichever it is, is ended by the first CRLF.
LEMMA EndsOne ==
    ASSUME NEW w \in Symbols
    PROVE  Ends(<<w>>, CRLF)
<1> SUFFICES ASSUME NEW i \in Nat, OccursAt(<<w>> \o CRLF, CRLF, i) PROVE i >= Len(<<w>>)
  BY DEF Ends
<1>1. PICK x \in Seq(Symbols) : x = <<w>> \o CRLF /\ Len(x) = 3 /\ x[2] = CR
  <2>1. CRLF \in Seq(Symbols) /\ Len(CRLF) = 2 /\ CRLF[1] = CR
    BY CRLFType
  <2>2. PICK c \in Seq(Symbols) : c = CRLF
    BY <2>1
  <2>3. PICK x \in Seq(Symbols) : x = <<w>> \o c
    BY ConsAt
  <2>4. Len(x) = Len(c) + 1 /\ \A k \in 1..Len(c) : x[k + 1] = c[k]
    BY <2>3, ConsAt
  <2>5. PICK k \in 1..Len(c) : k = 1
    BY <2>1, <2>2
  <2>6. x[k + 1] = c[k] /\ k + 1 = 2
    BY <2>4, <2>5
  <2>7. x[2] = CR
    BY <2>1, <2>2, <2>5, <2>6
  <2>8. Len(x) = 3
    BY <2>1, <2>2, <2>4
  <2> QED
    BY <2>2, <2>3, <2>7, <2>8
<1>2. SubSeq(x, i + 1, i + 2) = CRLF
  BY <1>1, CRLFType DEF OccursAt
<1>3. i # 0
  <2> SUFFICES ASSUME i = 0 PROVE FALSE
    OBVIOUS
  <2>1. SubSeq(x, 1, 2) = CRLF
    BY <1>2
  <2>2. SubSeq(x, 1, 2)[2] = x[2]
    BY <1>1
  <2> QED
    BY <1>1, <2>1, <2>2, CRLFType
<1> QED
  BY <1>3

\* No lines are nothing.
LEMMA LinesEmpty == Lines(<< >>) = << >>
<1>1. [i \in DOMAIN << >> |-> <<(<< >>)[i]>> \o CRLF] = << >>
  OBVIOUS
<1> QED
  BY <1>1, FlattenEmpty DEF Lines

LinePieces(s) == [i \in DOMAIN s |-> <<s[i]>> \o CRLF]

\* A line is a symbol and a CRLF.
LEMMA LinePiecesType ==
    ASSUME NEW s \in Seq(Symbols)
    PROVE  /\ LinePieces(s) \in Seq(Seq(Symbols)) /\ Len(LinePieces(s)) = Len(s)
           /\ \A i \in 1..Len(s) : LinePieces(s)[i] = <<s[i]>> \o CRLF
<1>1. Len(s) \in Nat /\ DOMAIN s = 1..Len(s)
  BY LenProperties
<1>2. \A i \in 1..Len(s) : <<s[i]>> \o CRLF \in Seq(Symbols)
  <2> TAKE i \in 1..Len(s)
  <2>1. s[i] \in Symbols
    BY ElementOfSeq
  <2> QED
    BY <2>1, ConsAt, CRLFType
<1>3. LinePieces(s) \in [1..Len(s) -> Seq(Symbols)]
  BY <1>1, <1>2 DEF LinePieces
<1> QED
  BY <1>1, <1>3, SeqDef DEF LinePieces

\* Lines are symbols.
LEMMA LinesType ==
    ASSUME NEW s \in Seq(Symbols)
    PROVE  Lines(s) \in Seq(Symbols)
BY LinePiecesType, FlattenType DEF Lines, LinePieces

\* The first line, then the others.
LEMMA LinesFirst ==
    ASSUME NEW a \in Symbols, NEW t \in Seq(Symbols)
    PROVE  Lines(<<a>> \o t) = (<<a>> \o CRLF) \o Lines(t)
<1>1. PICK s \in Seq(Symbols) : s = <<a>> \o t
  BY ConsAt
<1>2. Len(s) = Len(t) + 1 /\ Len(t) \in Nat /\ s[1] = a /\ \A i \in 1..Len(t) : s[i + 1] = t[i]
  BY <1>1, ConsAt
<1>3. PICK ss \in Seq(Seq(Symbols)) : ss = LinePieces(s) /\ Len(ss) = Len(s) /\ \A i \in 1..Len(s) : ss[i] = <<s[i]>> \o CRLF
  BY LinePiecesType
<1>4. PICK tt \in Seq(Seq(Symbols)) : tt = LinePieces(t) /\ Len(tt) = Len(t) /\ \A i \in 1..Len(t) : tt[i] = <<t[i]>> \o CRLF
  BY LinePiecesType
<1>5. \A i \in 1..Len(tt) : ss[i + 1] = tt[i]
  <2> TAKE i \in 1..Len(tt)
  <2>1. i + 1 \in 1..Len(s) /\ i \in 1..Len(t)
    BY <1>2, <1>4
  <2> QED
    BY <1>2, <1>3, <1>4, <2>1
<1>6. ss[1] = <<a>> \o CRLF
  <2>1. 1 \in 1..Len(s)
    BY <1>2
  <2> QED
    BY <1>2, <1>3, <2>1
<1>7. FlattenSeq(ss) = ss[1] \o FlattenSeq(tt)
  BY <1>2, <1>3, <1>4, <1>5, FlattenFirst
<1> QED
  BY <1>1, <1>3, <1>4, <1>6, <1>7 DEF Lines, LinePieces

-----------------------------------------------------------------------------
(* Header options *)

\* g[i] is what the first i of n header lines make.
Keeps(g, lines, n) ==
    g = [i \in 0..n |-> IF i = 0 THEN << >> ELSE parseOptionValue(g[i - 1], <<lines[i]>>)]

\* ... its value, line by line.
LEMMA KeepsAt ==
    ASSUME NEW g, NEW lines, NEW n, Keeps(g, lines, n), NEW i \in 0..n
    PROVE  g[i] = IF i = 0 THEN << >> ELSE parseOptionValue(g[i - 1], <<lines[i]>>)
<1> DEFINE h == [j \in 0..n |-> IF j = 0 THEN << >> ELSE parseOptionValue(g[j - 1], <<lines[j]>>)]
<1>1. g = h
  BY DEF Keeps
<1>2. h[i] = IF i = 0 THEN << >> ELSE parseOptionValue(g[i - 1], <<lines[i]>>)
  OBVIOUS
<1> QED
  BY <1>1, <1>2

\* There is such a function ...
LEMMA KeepsExists ==
    ASSUME NEW lines, NEW n \in Nat
    PROVE  \E g : Keeps(g, lines, n)
<1> DEFINE T == {k \in Nat : ~\E g : Keeps(g, lines, k)}
<1> SUFFICES ASSUME T # {} PROVE FALSE
  OBVIOUS
<1>1. PICK k \in T : \A y \in T : k <= y
  BY LeastNat
<1>2. k # 0
  <2> DEFINE g == [i \in 0..0 |-> << >>]
  <2>1. Keeps(g, lines, 0)
    BY DEF Keeps
  <2> QED
    BY <2>1
<1>3. k - 1 \in Nat /\ k - 1 \notin T
  BY <1>1, <1>2
<1>4. PICK g : Keeps(g, lines, k - 1)
  BY <1>3
<1> DEFINE h == [i \in 0..k |-> IF i = 0 THEN << >> ELSE parseOptionValue(g[i - 1], <<lines[i]>>)]
<1>5. ASSUME NEW i \in 0..k, i # 0 PROVE h[i - 1] = g[i - 1]
  <2>1. i - 1 \in 0..(k - 1) /\ i - 1 \in 0..k
    BY <1>3, <1>5
  <2>2. g[i - 1] = IF i - 1 = 0 THEN << >> ELSE parseOptionValue(g[(i - 1) - 1], <<lines[i - 1]>>)
    BY <1>4, <2>1, KeepsAt
  <2> QED
    BY <2>1, <2>2
<1>6. h = [i \in 0..k |-> IF i = 0 THEN << >> ELSE parseOptionValue(h[i - 1], <<lines[i]>>)]
  BY <1>5
<1>7. Keeps(h, lines, k)
  BY <1>6 DEF Keeps
<1> QED
  BY <1>7

\* ... and it depends on those lines only.
LEMMA KeepsUnique ==
    ASSUME NEW lines, NEW others, NEW g, NEW h, NEW m \in Nat, NEW n \in Nat,
           Keeps(g, lines, m), Keeps(h, others, n),
           NEW k \in 0..m, k <= n, \A i \in 1..k : lines[i] = others[i]
    PROVE  g[k] = h[k]
<1> DEFINE T == {i \in 0..k : g[i] # h[i]}
<1> SUFFICES ASSUME T # {} PROVE FALSE
  OBVIOUS
<1>0. T \subseteq Nat
  OBVIOUS
<1>1. PICK i \in T : \A y \in T : i <= y
  BY <1>0, LeastNat
<1>2. /\ g[i] = IF i = 0 THEN << >> ELSE parseOptionValue(g[i - 1], <<lines[i]>>)
      /\ h[i] = IF i = 0 THEN << >> ELSE parseOptionValue(h[i - 1], <<others[i]>>)
  <2>1. i \in 0..m /\ i \in 0..n
    BY <1>1
  <2> QED
    BY <2>1, KeepsAt
<1>3. CASE i = 0
  BY <1>1, <1>2, <1>3
<1>4. CASE i # 0
  <2>1. i - 1 \in 0..k /\ i - 1 \notin T /\ i \in 1..k
    BY <1>1, <1>4
  <2> QED
    BY <1>1, <1>2, <1>4, <2>1
<1> QED
  BY <1>3, <1>4

\* KeptOptions is the last value of that function.
LEMMA KeptIs ==
    ASSUME NEW lines \in Seq(Symbols), NEW g, Keeps(g, lines, Len(lines))
    PROVE  KeptOptions(lines) = g[Len(lines)]
<1> DEFINE f == CHOOSE f : Keeps(f, lines, Len(lines))
<1>1. Len(lines) \in Nat /\ Len(lines) \in 0..Len(lines)
  BY LenProperties
<1>2. KeptOptions(lines) = f[Len(lines)]
  BY DEF KeptOptions, Keeps
<1>3. Keeps(f, lines, Len(lines))
  OBVIOUS
<1> HIDE DEF f
<1> QED
  BY <1>1, <1>2, <1>3, KeepsUnique

\* No lines make no options.
LEMMA KeptEmpty == KeptOptions(<< >>) = << >>
<1>1. << >> \in Seq(Symbols) /\ Len(<< >>) = 0
  OBVIOUS
<1>2. PICK g : Keeps(g, << >>, 0)
  BY KeepsExists
<1>3. g[0] = << >>
  <2>1. 0 \in 0..0
    OBVIOUS
  <2> QED
    BY <1>2, <2>1, KeepsAt
<1> QED
  BY <1>1, <1>2, <1>3, KeptIs

\* One line more.
LEMMA KeptLast ==
    ASSUME NEW s \in Seq(Symbols), NEW a \in Symbols
    PROVE  KeptOptions(Append(s, a)) = parseOptionValue(KeptOptions(s), <<a>>)
<1>1. PICK u \in Seq(Symbols) : u = Append(s, a)
  BY AppendProperties
<1>2. PICK n \in Nat : n = Len(s)
  BY LenProperties
<1>3. Len(u) = n + 1 /\ u[n + 1] = a /\ \A i \in 1..n : u[i] = s[i]
  BY <1>1, <1>2, AppendProperties
<1>4. PICK g : Keeps(g, u, n + 1)
  <2>1. n + 1 \in Nat
    OBVIOUS
  <2> QED
    BY <2>1, KeepsExists
<1>5. PICK h : Keeps(h, s, n)
  BY KeepsExists
<1>6. n \in 0..(n + 1) /\ n + 1 \in 0..(n + 1) /\ n + 1 \in Nat /\ n <= n /\ n + 1 # 0 /\ (n + 1) - 1 = n
  OBVIOUS
<1>7. g[n] = h[n]
  BY <1>3, <1>4, <1>5, <1>6, KeepsUnique
<1>8. g[n + 1] = parseOptionValue(g[(n + 1) - 1], <<u[n + 1]>>)
  BY <1>4, <1>6, KeepsAt
<1>9. KeptOptions(u) = g[n + 1] /\ KeptOptions(s) = h[n]
  BY <1>2, <1>3, <1>4, <1>5, KeptIs
<1> QED
  BY <1>1, <1>3, <1>6, <1>7, <1>8, <1>9

\* The options kept are symbols, and no more than m_maxOptions.
LEMMA KeptType ==
    ASSUME NEW s \in Seq(Symbols)
    PROVE  KeptOptions(s) \in Seq(Symbols) /\ Len(KeptOptions(s)) <= MaxOptions
<1> DEFINE P(x) == KeptOptions(x) \in Seq(Symbols) /\ Len(KeptOptions(x)) <= MaxOptions
           Good == {x \in Seq(Symbols) : P(x)}
<1>1. << >> \in Good
  <2>1. << >> \in Seq(Symbols) /\ Len(<< >>) = 0 /\ 0 <= MaxOptions
    BY StreamParserAssumption
  <2> QED
    BY <2>1, KeptEmpty
<1>2. ASSUME NEW x \in Seq(Symbols), NEW a \in Symbols, x \in Good PROVE Append(x, a) \in Good
  <2>1. Append(x, a) \in Seq(Symbols) /\ <<a>> \in Seq(Symbols)
    BY AppendProperties
  <2>2. PICK k \in Seq(Symbols) : k = KeptOptions(x) /\ Len(k) <= MaxOptions
    BY <1>2
  <2>3. parseOptionValue(k, <<a>>) \in Seq(Symbols) /\ Len(parseOptionValue(k, <<a>>)) <= MaxOptions
    BY <2>1, <2>2, ParseOptionType
  <2>4. KeptOptions(Append(x, a)) = parseOptionValue(k, <<a>>)
    BY <2>2, KeptLast
  <2>5. P(Append(x, a))
    BY <2>3, <2>4
  <2> QED
    BY <2>1, <2>5
<1> HIDE DEF Good
<1>3. Seq(Symbols) \subseteq Good
  BY <1>1, <1>2, AllSequences
<1>4. s \in Good
  BY <1>3
<1> QED
  BY <1>4 DEF Good

Lengthy(s) == \E i \in 1..Len(s) : s[i] \in Lengths

\* getOptionAsUINT64 gives the first length, and 0 without one.
LEMMA ContentLengthIs ==
    ASSUME NEW s \in Seq(Symbols)
    PROVE  /\ ~Lengthy(s) => ContentLength(s) = 0
           /\ \A k \in 1..Len(s) :
                (s[k] \in Lengths /\ \A j \in 1..(k - 1) : s[j] \notin Lengths)
                    => ContentLength(s) = LengthOf[s[k]]
<1> DEFINE I == {i \in 1..Len(s) : s[i] \in Lengths}
           m == IF I # {} THEN Min(I) ELSE 0
<1>1. SelectInSeq(s, LAMBDA x : x \in Lengths) = m
  BY DEF SelectInSeq
<1>2. ContentLength(s) = IF m = 0 THEN 0 ELSE LengthOf[s[m]]
  BY <1>1 DEF ContentLength
<1>3. I \subseteq Nat /\ Len(s) \in Nat
  BY LenProperties
<1>4. I # {} => m \in I /\ \A j \in I : m <= j
  <2> HIDE DEF I
  <2> QED
    BY <1>3, MinOfNats
<1>5. ~Lengthy(s) => m = 0
  BY DEF Lengthy
<1>6. ASSUME NEW k \in 1..Len(s), s[k] \in Lengths, \A j \in 1..(k - 1) : s[j] \notin Lengths
      PROVE  m = k
  <2>1. k \in I /\ m \in I /\ m <= k
    BY <1>4, <1>6
  <2>2. m \in 1..Len(s) /\ s[m] \in Lengths
    <3> HIDE DEF m
    <3> QED
      BY <2>1
  <2> HIDE DEF m
  <2>3. ~(m < k)
    BY <1>3, <1>6, <2>2
  <2> QED
    BY <1>3, <2>1, <2>2, <2>3
<1> HIDE DEF m, I
<1> QED
  BY <1>2, <1>3, <1>5, <1>6

\* One option more.
LEMMA LengthLast ==
    ASSUME NEW s \in Seq(Symbols), NEW a \in Symbols
    PROVE  /\ Lengthy(Append(s, a)) <=> (Lengthy(s) \/ a \in Lengths)
           /\ ContentLength(Append(s, a)) =
                IF Lengthy(s) THEN ContentLength(s) ELSE IF a \in Lengths THEN LengthOf[a] ELSE 0
           /\ HasHost(Append(s, a)) <=> (HasHost(s) \/ a = "Host")
<1>1. PICK u \in Seq(Symbols) : u = Append(s, a)
  BY AppendProperties
<1>2. Len(u) = Len(s) + 1 /\ Len(s) \in Nat /\ u[Len(s) + 1] = a /\ \A i \in 1..Len(s) : u[i] = s[i]
  BY <1>1, AppendProperties, LenProperties
<1>3. \A i \in 1..Len(u) : i \in 1..Len(s) \/ i = Len(s) + 1
  BY <1>2
<1>4. 1..Len(s) \subseteq 1..Len(u) /\ Len(s) + 1 \in 1..Len(u)
  BY <1>2
<1>5. Lengthy(u) <=> (Lengthy(s) \/ a \in Lengths)
  BY <1>2, <1>3, <1>4 DEF Lengthy
<1>6. HasHost(u) <=> (HasHost(s) \/ a = "Host")
  <2>1. DOMAIN u = 1..Len(u) /\ DOMAIN s = 1..Len(s)
    BY LenProperties
  <2> QED
    BY <1>2, <1>3, <1>4, <2>1 DEF HasHost, ToSet
<1>7. CASE Lengthy(s)
  <2> DEFINE I == {i \in 1..Len(s) : s[i] \in Lengths}
  <2>1. I \subseteq Nat /\ I # {}
    BY <1>2, <1>7 DEF Lengthy
  <2>2. PICK k \in I : \A j \in I : k <= j
    <3> HIDE DEF I
    <3> QED
      BY <2>1, LeastNat
  <2>3. k \in 1..Len(s) /\ s[k] \in Lengths /\ \A j \in 1..(k - 1) : s[j] \notin Lengths
    <3>1. \A j \in 1..(k - 1) : j \in 1..Len(s) /\ ~(k <= j)
      BY <1>2, <2>2
    <3> QED
      BY <2>2, <3>1
  <2>4. ContentLength(s) = LengthOf[s[k]]
    BY <2>3, ContentLengthIs
  <2>5. k \in 1..Len(u) /\ u[k] = s[k] /\ \A j \in 1..(k - 1) : u[j] \notin Lengths
    <3>1. \A j \in 1..(k - 1) : j \in 1..Len(s)
      BY <1>2, <2>3
    <3> QED
      BY <1>2, <1>4, <2>3, <3>1
  <2>6. ContentLength(u) = LengthOf[u[k]]
    BY <2>3, <2>5, ContentLengthIs
  <2> QED
    BY <1>1, <1>5, <1>6, <1>7, <2>4, <2>5, <2>6
<1>8. CASE ~Lengthy(s) /\ a \in Lengths
  <2>1. PICK k \in 1..Len(u) : k = Len(s) + 1
    BY <1>4
  <2>2. u[k] = a /\ \A j \in 1..(k - 1) : u[j] \notin Lengths
    <3>1. \A j \in 1..(k - 1) : j \in 1..Len(s)
      BY <1>2, <2>1
    <3> QED
      BY <1>2, <1>8, <2>1, <3>1 DEF Lengthy
  <2>3. ContentLength(u) = LengthOf[u[k]]
    BY <1>8, <2>2, ContentLengthIs
  <2> QED
    BY <1>1, <1>5, <1>6, <1>8, <2>2, <2>3
<1>9. CASE ~Lengthy(s) /\ a \notin Lengths
  BY <1>1, <1>5, <1>6, <1>9, ContentLengthIs
<1> QED
  BY <1>7, <1>8, <1>9

\* Without options there is no length and no host.
LEMMA NoOptions == ~Lengthy(<< >>) /\ ~HasHost(<< >>) /\ ContentLength(<< >>) = 0
<1>1. << >> \in Seq(Symbols) /\ Len(<< >>) = 0 /\ DOMAIN << >> = {}
  OBVIOUS
<1>2. ~Lengthy(<< >>)
  BY <1>1 DEF Lengthy
<1>3. ~HasHost(<< >>)
  BY <1>1 DEF HasHost, ToSet
<1> QED
  BY <1>1, <1>2, <1>3, ContentLengthIs

-----------------------------------------------------------------------------
(* The steps that decode nothing *)

\* A call that does not parse hands nothing over.
LEMMA BufferedNothing ==
    ASSUME StreamOK, CurOK, NEW r \in Outcomes(cur), ~r.parses, sub.mode # "directDelimiter"
    PROVE  r.piece = << >> /\ r.parses = FALSE
<1> DEFINE x == [sub EXCEPT !.ended = @ \/ pending = << >>]
<1>1. sub.mode \in Modes /\ sub \in SubParsers(Symbols)
  BY DEF CurOK, SubParserOK, SubParsers
<1>2. x.mode = sub.mode
  BY <1>1 DEF SubParsers
<1>3. r \in writeIntoParser(sub, pending)
  BY DEF Outcomes
<1>4. writeIntoParser(sub, pending) =
        IF NoRoom(x, pending) THEN {Failed(x)}
        ELSE CASE x.mode = "delimiter" -> {parseByDelimiter(x, pending)}
               [] x.mode = "size" -> {parseBySize(x, pending)}
               [] x.mode = "direct" -> {parseDirect(x, pending)}
               [] x.mode = "directDelimiter" -> parseDirectDelimiter(x, pending)
  BY DEF writeIntoParser
<1> HIDE DEF x
<1>5. CASE r = Failed(x)
  BY <1>5 DEF Failed
<1>6. CASE r = parseByDelimiter(x, pending)
  <2>1. PICK t, piece, full, sp : r = Parses(t, piece, full, sp) \/ r = Buffered(t, sp)
    BY <1>6 DEF parseByDelimiter
  <2> QED
    BY <2>1 DEF Parses, Buffered, Failed
<1>7. CASE r = parseBySize(x, pending)
  <2>1. PICK t, piece, full, sp : r = Parses(t, piece, full, sp) \/ r = Buffered(t, sp)
    BY <1>7 DEF parseBySize
  <2> QED
    BY <2>1 DEF Parses, Buffered, Failed
<1>8. CASE r = parseDirect(x, pending)
  <2>1. PICK t, piece, full, sp : r = Parses(t, piece, full, sp)
    BY <1>8 DEF parseDirect
  <2> QED
    BY <2>1 DEF Parses, Buffered, Failed
<1> QED
  BY <1>1, <1>2, <1>3, <1>4, <1>5, <1>6, <1>7, <1>8 DEF Modes

\* Outside a form every call has bytes.
LEMMA CallHasBytes ==
    ASSUME msg.proto \notin Forms, NEW p, NEW r \in Outcomes(p)
    PROVE  pending # << >> /\ ~AtEOF /\ r \in writeIntoParser(sub, pending) /\ result = "reading" /\ cur = p
<1>1. ~AtEOF
  BY DEF AtEOF
<1> QED
  BY <1>1 DEF Outcomes

\* What such a call keeps of its subparser.
LEMMA CallCuts ==
    ASSUME StreamOK, CurOK, msg.proto \notin Forms, NEW p, NEW r \in Outcomes(p)
    PROVE  Cuts(sub, pending, r) /\ r.sub.delims = sub.delims /\ r.sub.ended = sub.ended
<1>1. pending # << >> /\ r \in writeIntoParser(sub, pending)
  BY CallHasBytes
<1>2. SubParserOK(sub, Symbols) /\ pending \in Seq(Symbols) /\ sub.ended \in BOOLEAN
  BY DEF CurOK, StreamOK, SubParserOK, SubParsers
<1>3. Cuts(sub, pending, r)
  BY <1>1, <1>2, WriteCuts
<1>4. r.sub.ended = (sub.ended \/ pending = << >>) /\ r.sub.delims = sub.delims
  BY <1>3 DEF Cuts
<1> QED
  BY <1>1, <1>2, <1>3, <1>4

\* A call that returns goes on reading; one that fails ends it.
LEMMA ReadingOrNot ==
    ASSUME msg.proto \notin Forms, NEW p, NEW r \in Outcomes(p)
    PROVE  /\ Goes(r) => result' = "reading"
           /\ \A why : Fails(why) => result' = "failed"
<1>1. ~AtEOF /\ result = "reading"
  BY CallHasBytes
<1> QED
  BY <1>1 DEF Goes, Fails

Waiting == \/ Read \/ Finish \/ Disconnect \/ Buffer \/ NoRoomLeft \/ TTLReached \/ AfterEnd
           \/ UNCHANGED vars

\* Reading, buffering, failing and ending leave what has been decoded; while reading goes
\* on they leave the place in the stream as well.
LEMMA WaitingLeaves ==
    ASSUME IInv, msg.proto \notin Forms, Waiting
    PROVE  /\ msg' = msg /\ got' = got /\ answered' = answered /\ cur' = cur /\ proc' = proc
           /\ (result' = "reading" /\ cur' # "none" /\ sub.mode # "directDelimiter") =>
                /\ result = "reading" /\ Left' = Left
                /\ sub'.delims = sub.delims /\ sub'.ended = sub.ended /\ sub'.max = sub.max
<1>0. StreamOK /\ CurOK
  BY DEF IInv
<1>1. CASE Read
  <2>1. Left' = Left
    BY <1>0, <1>1, LeftReads
  <2> QED
    BY <1>1, <2>1 DEF Read
<1>2. CASE Finish \/ Disconnect
  BY <1>2 DEF Finish, Disconnect
<1>3. CASE TTLReached \/ AfterEnd
  <2>1. /\ UNCHANGED <<msg, cur, proc, got, answered>> /\ \E why : Fails(why)
    BY <1>3 DEF TTLReached, AfterEnd
  <2>2. result' = "failed"
    BY <2>1 DEF Fails
  <2> QED
    BY <2>1, <2>2
<1>4. CASE NoRoomLeft
  <2>1. PICK r \in Outcomes(cur) : Log(r) /\ Fails("noRoom") /\ UNCHANGED <<cur, proc, got, answered>>
    BY <1>4 DEF NoRoomLeft
  <2>2. result' = "failed" /\ msg' = msg
    BY <2>1 DEF Fails, Log
  <2> QED
    BY <2>1, <2>2
<1>5. CASE Buffer
  <2>1. PICK r \in Outcomes(cur) :
          /\ r.ok /\ ~r.parses /\ sub' = r.sub /\ Log(r) /\ Goes(r) /\ UNCHANGED <<cur, proc, got, answered>>
    BY <1>5 DEF Buffer
  <2>2. msg' = msg /\ result = "reading"
    BY <2>1, CallHasBytes DEF Log
  <2> SUFFICES ASSUME sub.mode # "directDelimiter"
               PROVE  /\ Left' = Left
                      /\ sub'.delims = sub.delims /\ sub'.ended = sub.ended /\ sub'.max = sub.max
    BY <2>1, <2>2
  <2>3. Cuts(sub, pending, r) /\ r.sub.delims = sub.delims /\ r.sub.ended = sub.ended
    BY <1>0, <2>1, CallCuts
  <2>4. Kept(sub, pending, r, Symbols) /\ cur # "none"
    BY <1>0, OutcomeKept
  <2>5. r.ok = TRUE
    BY <2>1, <2>4 DEF Kept
  <2>6. sub.mode \in {"delimiter", "size", "direct"}
    BY <1>0 DEF CurOK, SubParserOK, SubParsers, Modes
  <2>7. r.piece = << >> /\ r.parses = FALSE
    BY <1>0, <2>1, <2>6, BufferedNothing
  <2>8. r.sub.max = sub.max
    BY <2>3, <2>5, <2>6, <2>7 DEF Cuts, CutByDelimiter, CutBySize, CutDirect
  <2>9. Left' = Rest(r)
    BY <2>1, LeftGoes
  <2>10. Handed(r) = << >> /\ Rest(r) \in Seq(Symbols) /\ Left = Handed(r) \o Rest(r)
    <3>1. << >> \o << >> = << >>
      OBVIOUS
    <3> QED
      BY <1>0, <2>5, <2>7, <3>1, LeftDivided DEF Handed
  <2>11. Left = Rest(r)
    BY <2>10, ConcatEmptySeq
  <2> QED
    BY <2>1, <2>3, <2>8, <2>9, <2>11
<1>6. CASE UNCHANGED vars
  <2>1. UNCHANGED <<msg, wire, pending, cur, sub, proc, got, answered, result>>
    BY <1>6 DEF vars
  <2> QED
    BY <2>1 DEF Left
<1> QED
  BY <1>1, <1>2, <1>3, <1>4, <1>5, <1>6 DEF Waiting

-----------------------------------------------------------------------------
(* Reading a line, and the headers *)

\* Both ends of a sequence and what is between them.
Split3(S, a, b, c) ==
    (a \in Seq(S) /\ b \in Seq(S) /\ c \in Seq(S))
    => /\ a \o b \in Seq(S) /\ b \o c \in Seq(S) /\ a \o (b \o c) \in Seq(S)
       /\ (a \o b) \o c = a \o (b \o c)

\* It is so for all of them.
LEMMA AlwaysSplit3 == \A S, a, b, c : Split3(S, a, b, c)
<1> TAKE S, a, b, c
<1> SUFFICES ASSUME a \in Seq(S), b \in Seq(S), c \in Seq(S)
             PROVE  /\ a \o b \in Seq(S) /\ b \o c \in Seq(S) /\ a \o (b \o c) \in Seq(S)
                    /\ (a \o b) \o c = a \o (b \o c)
  BY Zenon DEF Split3
<1>1. a \o b \in Seq(S) /\ b \o c \in Seq(S)
  BY ConcatProperties
<1>2. a \o (b \o c) \in Seq(S)
  BY <1>1, ConcatProperties
<1>3. Assoc(S, a, b, c)
  BY AlwaysAssoc
<1>4. (a \o b) \o c = a \o (b \o c)
  BY <1>3, Zenon DEF Assoc
<1> QED
  BY <1>1, <1>2, <1>4

\* The subparser of a line is at its beginning or in it.
AtLine == sub.delims = <<CRLF>> /\ sub.ended = FALSE

\* A new one is.
LEMMA LineParserIs == LineParser.delims = <<CRLF>> /\ LineParser.ended = FALSE
BY DEF LineParser, NewSubParser

\* The line that is read is the first of what is left.
LEMMA ReadsLine ==
    ASSUME StreamOK, CurOK, NEW p \in ByDelimiter \cup {"content"}, NEW r \in Parsed(p),
           msg.proto \notin Forms, sub.mode = "delimiter", AtLine,
           NEW w \in Symbols, NEW y \in Seq(Symbols),
           Left = (<<w>> \o CRLF) \o y \/ Left = CRLF \o y
    PROVE  /\ Left = (<<w>> \o CRLF) \o y => r.piece = <<w>>
           /\ Left # (<<w>> \o CRLF) \o y => r.piece = << >>
           /\ Rest(r) = y /\ r.sub.delims = <<CRLF>> /\ r.sub.ended = FALSE /\ r.sub.buf = Empty
<1>1. r \in Outcomes(p)
  BY DEF Parsed
<1>2. pending # << >>
  BY <1>1, CallHasBytes
<1>3. CRLF \in Seq(Symbols) /\ CRLF # << >>
  BY CRLFType
<1>4. CASE Left = (<<w>> \o CRLF) \o y
  <2>1. Ends(<<w>>, CRLF) /\ <<w>> \in Seq(Symbols)
    BY EndsOne
  <2>2. PICK x \in Seq(Symbols), d \in Seq(Symbols) : x = <<w>> /\ d = CRLF
    BY <1>3, <2>1
  <2>3. Left = (x \o d) \o y /\ Ends(x, d) /\ d # << >> /\ sub.delims = <<d>> /\ sub.ended = FALSE
    BY <1>3, <1>4, <2>1, <2>2 DEF AtLine
  <2>4. /\ r.piece = x /\ Rest(r) = y
        /\ r.sub.delims = <<d>> /\ r.sub.ended = FALSE /\ r.sub.buf = Empty
    BY <1>2, <2>3, CutHere
  <2> QED
    BY <1>4, <2>2, <2>4
<1>5. CASE Left # (<<w>> \o CRLF) \o y
  <2>1. << >> \o CRLF = CRLF /\ Ends(<< >>, CRLF) /\ << >> \in Seq(Symbols)
    BY <1>3, ConcatEmptySeq, EndsNone
  <2>2. PICK x \in Seq(Symbols), d \in Seq(Symbols) : x = << >> /\ d = CRLF
    BY <1>3, <2>1
  <2>3. Left = (x \o d) \o y /\ Ends(x, d) /\ d # << >> /\ sub.delims = <<d>> /\ sub.ended = FALSE
    BY <1>3, <1>5, <2>1, <2>2 DEF AtLine
  <2>4. /\ r.piece = x /\ Rest(r) = y
        /\ r.sub.delims = <<d>> /\ r.sub.ended = FALSE /\ r.sub.buf = Empty
    BY <1>2, <2>3, CutHere
  <2> QED
    BY <1>5, <2>2, <2>4
<1> QED
  BY <1>4, <1>5

\* In the headers: some of the options have been read, the others are left, and the empty
\* line and the content after them.
HeadersAt(options, content, known, left) ==
    \E h, o \in Seq(Symbols) :
        options = h \o o /\ known = KeptOptions(h) /\ left = Lines(o) \o (CRLF \o content)

\* They begin with all of them left.
LEMMA HeadersBegin ==
    ASSUME NEW o \in Seq(Symbols), NEW c
    PROVE  HeadersAt(o, c, << >>, Lines(o) \o (CRLF \o c))
<1>1. << >> \in Seq(Symbols) /\ << >> \o o = o
  BY ConcatEmptySeq
<1> QED
  BY <1>1, KeptEmpty DEF HeadersAt

\* A line of the headers is the next option, or when there are no more the empty one.
LEMMA HeadersStep ==
    ASSUME StreamOK, CurOK, NEW r \in Parsed("headers"), msg.proto \notin Forms, AtLine,
           NEW options \in Seq(Symbols), NEW content \in Seq(Symbols),
           HeadersAt(options, content, got.options, Left)
    PROVE  /\ r.sub.delims = <<CRLF>> /\ r.sub.ended = FALSE /\ r.sub.buf = Empty
           /\ \/ r.piece = << >> /\ Rest(r) = content /\ got.options = KeptOptions(options)
              \/ \E a \in Symbols :
                    /\ r.piece = <<a>>
                    /\ HeadersAt(options, content, parseOptionValue(got.options, <<a>>), Rest(r))
<1>0. sub.mode = "delimiter" /\ "headers" \in ByDelimiter
  BY ByDelimiterParsed DEF ByDelimiter
<1>1. PICK h, o \in Seq(Symbols) :
        options = h \o o /\ got.options = KeptOptions(h) /\ Left = Lines(o) \o (CRLF \o content)
  BY DEF HeadersAt
<1>2. CRLF \in Seq(Symbols) /\ CRLF # << >> /\ Len(CRLF) = 2 /\ CR \in Symbols
  BY CRLFType
<1>3. PICK e \in Seq(Symbols) : e = CRLF \o content
  BY <1>2, ConcatProperties
<1>4. CASE o = << >>
  <2>1. Left = CRLF \o content
    <3>1. << >> \o e = e
      BY ConcatEmptySeq
    <3> QED
      BY <1>1, <1>3, <1>4, <3>1, LinesEmpty
  <2>2. Left # (<<CR>> \o CRLF) \o content
    <3>1. PICK z \in Seq(Symbols) : z = <<CR>> \o CRLF /\ Len(z) = 3
      <4>1. PICK d \in Seq(Symbols) : d = CRLF /\ Len(d) = 2
        BY <1>2
      <4>2. <<CR>> \o d \in Seq(Symbols) /\ Len(<<CR>> \o d) = Len(d) + 1
        BY <1>2, ConsAt
      <4>3. PICK z \in Seq(Symbols) : z = <<CR>> \o d /\ Len(z) = Len(d) + 1
        BY <4>2
      <4>4. Len(z) = 3
        BY <4>1, <4>3
      <4> QED
        BY <4>1, <4>3, <4>4, Zenon
    <3>2. Len(CRLF \o content) = 2 + Len(content) /\ Len(z \o content) = 3 + Len(content) /\ Len(content) \in Nat
      BY <1>2, <3>1, ConcatProperties, LenProperties
    <3>3. Len(CRLF \o content) # Len(z \o content)
      BY <3>2
    <3> QED
      BY <2>1, <3>1, <3>3
  <2>3. r.piece = << >> /\ Rest(r) = content /\ r.sub.delims = <<CRLF>> /\ r.sub.ended = FALSE /\ r.sub.buf = Empty
    BY <1>0, <1>2, <2>1, <2>2, ReadsLine
  <2>4. h \o << >> = h
    BY ConcatEmptySeq
  <2> QED
    BY <1>1, <1>4, <2>3, <2>4
<1>5. CASE o # << >>
  <2>1. PICK a \in Symbols, t \in Seq(Symbols) : o = <<a>> \o t
    <3>1. \E a \in Symbols, t \in Seq(Symbols) : o = <<a>> \o t
      BY <1>5, HeadTail
    <3> QED
      BY <3>1
  <2>2. PICK l \in Seq(Symbols) : l = Lines(t)
    BY LinesType
  <2>3. PICK q \in Seq(Symbols) : q = <<a>> \o CRLF
    BY <1>2, ConsAt
  <2>4. Split3(Symbols, q, l, e)
    BY AlwaysSplit3
  <2>5. l \o e \in Seq(Symbols) /\ (q \o l) \o e = q \o (l \o e)
    BY <2>4, Zenon DEF Split3
  <2>6. Lines(o) = q \o l
    BY <2>1, <2>2, <2>3, LinesFirst
  <2>7. PICK y \in Seq(Symbols) : y = l \o e
    BY <2>5
  <2>8. Left = (<<a>> \o CRLF) \o y
    BY <1>1, <1>3, <2>3, <2>5, <2>6, <2>7
  <2>9. r.piece = <<a>> /\ Rest(r) = y /\ r.sub.delims = <<CRLF>> /\ r.sub.ended = FALSE /\ r.sub.buf = Empty
    BY <1>0, <2>8, ReadsLine
  <2>10. PICK g \in Seq(Symbols) : g = Append(h, a) /\ g = h \o <<a>>
    BY AppendProperties, AppendIsConcat
  <2>11. g \o t = h \o o
    <3>1. Split3(Symbols, h, <<a>>, t) /\ <<a>> \in Seq(Symbols)
      BY AlwaysSplit3
    <3>2. (h \o <<a>>) \o t = h \o (<<a>> \o t)
      BY <3>1, Zenon DEF Split3
    <3> QED
      BY <2>1, <2>10, <3>2
  <2>12. KeptOptions(g) = parseOptionValue(got.options, <<a>>)
    BY <1>1, <2>10, KeptLast
  <2>13. HeadersAt(options, content, KeptOptions(g), y)
    BY <1>1, <1>3, <2>2, <2>7, <2>11 DEF HeadersAt
  <2> QED
    BY <2>9, <2>12, <2>13
<1> QED
  BY <1>4, <1>5

-----------------------------------------------------------------------------
(* HTTPv1_Server understands the request *)

\* A request is its line, its options, an empty line and its content.
LEMMA RequestEncoded ==
    ASSUME NEW m \in Messages, m.proto = "request"
    PROVE  /\ m.line \in Symbols /\ m.options \in Seq(Symbols) /\ m.content \in Seq(Symbols)
           /\ Lines(m.options) \o (CRLF \o m.content) \in Seq(Symbols)
           /\ Encode(m) = (<<m.line>> \o CRLF) \o (Lines(m.options) \o (CRLF \o m.content))
<1>1. m.line \in Symbols /\ m.options \in Seq(Symbols) /\ m.content \in Seq(Symbols)
  BY MessagesAssumption DEF Requests
<1>2. PICK c \in Seq(Symbols) : c = m.content
  BY <1>1
<1>3. PICK l \in Seq(Symbols) : l = Lines(m.options)
  BY <1>1, LinesType
<1>4. PICK d \in Seq(Symbols) : d = CRLF
  BY CRLFType
<1>5. PICK a \in Seq(Symbols) : a = <<m.line>> \o d
  BY <1>1, ConsAt
<1>6. Encode(m) = ((a \o l) \o d) \o c
  BY <1>2, <1>3, <1>4, <1>5 DEF Encode, EncodeRequest
<1>7. Split3(Symbols, a, l, d \o c) /\ Split3(Symbols, a \o l, d, c) /\ Split3(Symbols, a, l, d)
      /\ Split3(Symbols, l, d, c)
  BY AlwaysSplit3
<1>8. a \o l \in Seq(Symbols) /\ d \o c \in Seq(Symbols) /\ l \o (d \o c) \in Seq(Symbols)
  BY <1>7, Zenon DEF Split3
<1>9. ((a \o l) \o d) \o c = (a \o l) \o (d \o c) /\ (a \o l) \o (d \o c) = a \o (l \o (d \o c))
  BY <1>7, <1>8, Zenon DEF Split3
<1> QED
  BY <1>1, <1>2, <1>3, <1>4, <1>5, <1>6, <1>8, <1>9

\* What a request deserves.
LEMMA DeservedIs ==
    ASSUME NEW m, NEW options, options = KeptOptions(m.options)
    PROVE  /\ m.line = "q20" => Deserved(m) = "505"
           /\ (m.line = "q11" /\ ~HasHost(options)) => Deserved(m) = "400"
           /\ (m.line \in {"q10", "q11"} /\ ~(m.line = "q11" /\ ~HasHost(options))) =>
                Deserved(m) = IF ContentLength(options) > MaxPost THEN "413" ELSE "app"
BY DEF Deserved

\* Where the parser is in a request, and what it has decoded there.
RequestAt ==
    /\ answered = "none"
    /\ \/ /\ cur = "requestLine" /\ AtLine
          /\ got.options = << >> /\ got.content = << >> /\ Left = Encode(msg)
       \/ /\ cur = "headers" /\ AtLine
          /\ got.line = <<msg.line>> /\ msg.line \in {"q10", "q11"} /\ got.content = << >>
          /\ HeadersAt(msg.options, msg.content, got.options, Left)
       \/ /\ cur = "content" /\ proc = "length"
          /\ got.options = KeptOptions(msg.options) /\ Deserved(msg) = "app"
          /\ got.content \o Left = msg.content
          /\ sub.max + Len(got.content) = ContentLength(KeptOptions(msg.options))

RequestOnly == (answered # "none" \/ cur = "requestLine") => msg.proto = "request"

RequestRead ==
    msg.proto = "request" =>
        /\ RequestUnderstood
        /\ (result = "reading" /\ cur # "none") => RequestAt

\* The request line.
LEMMA RequestLineRead ==
    ASSUME IInv, RequestRead, ParseRequestLine
    PROVE  RequestRead'
<1> SUFFICES ASSUME msg'.proto = "request"
             PROVE  RequestUnderstood' /\ ((result' = "reading" /\ cur' # "none") => RequestAt')
  BY DEF RequestRead
<1>1. StreamOK /\ CurOK /\ GotOK
  BY DEF IInv
<1>2. PICK r \in Parsed("requestLine") :
        /\ sub' = LineParser /\ Log(r) /\ got' = [got EXCEPT !.line = r.piece] /\ proc' = proc
        /\ \/ Fails("badData") /\ cur' = cur /\ answered' = answered
           \/ r.piece = <<"q20">> /\ answered' = "505" /\ cur' = "none"
           \/ /\ r.piece \in {<<"q10">>, <<"q11">>}
              /\ cur' \in {"headers", "none"} /\ Goes(r) /\ answered' = answered
  BY DEF ParseRequestLine, Answer
<1>3. msg' = msg /\ msg.proto = "request" /\ msg.proto \notin Forms /\ msg \in Messages
  BY <1>1, <1>2 DEF Log, Forms, StreamOK
<1>4. r \in Outcomes(cur) /\ cur = "requestLine" /\ result = "reading" /\ sub.mode = "delimiter"
  BY <1>1, <1>3, ByDelimiterParsed, CallHasBytes DEF ByDelimiter
<1>5. answered = "none" /\ AtLine /\ got.options = << >> /\ got.content = << >> /\ Left = Encode(msg)
  <2>1. RequestAt
    BY <1>3, <1>4 DEF RequestRead
  <2> QED
    BY <1>4, <2>1 DEF RequestAt
<1>6. PICK w \in Symbols, y \in Seq(Symbols) :
        /\ w = msg.line /\ y = Lines(msg.options) \o (CRLF \o msg.content)
        /\ Left = (<<w>> \o CRLF) \o y
  BY <1>3, <1>5, RequestEncoded
<1>7. r.piece = <<w>> /\ Rest(r) = y /\ r.sub.buf = Empty
  BY <1>1, <1>3, <1>4, <1>5, <1>6, ReadsLine DEF ByDelimiter
<1>8. got'.options = << >> /\ got'.content = << >> /\ got'.line = <<w>>
  BY <1>1, <1>2, <1>5, <1>7 DEF GotOK, GotType
<1>9. CASE Fails("badData") /\ answered' = answered
  <2>1. result' = "failed"
    BY <1>3, <1>4, <1>9, ReadingOrNot
  <2> QED
    BY <1>5, <1>9, <2>1 DEF RequestUnderstood
<1>10. CASE r.piece = <<"q20">> /\ answered' = "505" /\ cur' = "none"
  <2>1. msg.line = "q20"
    BY <1>6, <1>7, <1>10
  <2>2. Deserved(msg) = "505"
    BY <2>1, DeservedIs
  <2> QED
    BY <1>3, <1>10, <2>2 DEF RequestUnderstood
<1>11. CASE /\ r.piece \in {<<"q10">>, <<"q11">>}
            /\ cur' \in {"headers", "none"} /\ Goes(r) /\ answered' = answered
  <2>1. msg.line \in {"q10", "q11"}
    BY <1>6, <1>7, <1>11
  <2>2. Left' = y /\ AtLine'
    <3>1. sub'.buf = r.sub.buf
      BY <1>2, <1>7, ParsersOK
    <3>2. Left' = y
      BY <1>2, <1>7, <1>11, <3>1, LeftGoes
    <3> QED
      BY <1>2, <3>2, LineParserIs DEF AtLine
  <2>3. HeadersAt(msg.options, msg.content, << >>, y)
    BY <1>3, <1>6, RequestEncoded, HeadersBegin
  <2>4. cur' = "headers" => RequestAt'
    BY <1>3, <1>5, <1>6, <1>8, <1>11, <2>1, <2>2, <2>3 DEF RequestAt
  <2> QED
    BY <1>5, <1>11, <2>4 DEF RequestUnderstood
<1> QED
  BY <1>2, <1>9, <1>10, <1>11

\* An option is added: the place in the headers moves on.
LEMMA OptionAdded ==
    ASSUME IInv, msg.proto \notin Forms, NEW r \in Parsed("headers"), Log(r), AddOption(r), AtLine,
           NEW options \in Seq(Symbols), NEW content \in Seq(Symbols),
           HeadersAt(options, content, got.options, Left)
    PROVE  /\ HeadersAt(options, content, got'.options, Left') /\ AtLine'
           /\ got'.content = got.content /\ got'.line = got.line
<1>1. StreamOK /\ CurOK /\ GotOK
  BY DEF IInv
<1>2. /\ r.piece # << >> /\ sub' = r.sub /\ Goes(r)
      /\ got' = [got EXCEPT !.options = parseOptionValue(got.options, r.piece)]
  BY DEF AddOption
<1>3. /\ r.sub.delims = <<CRLF>> /\ r.sub.ended = FALSE
      /\ \/ r.piece = << >>
         \/ \E a \in Symbols :
              /\ r.piece = <<a>>
              /\ HeadersAt(options, content, parseOptionValue(got.options, <<a>>), Rest(r))
  BY <1>1, HeadersStep
<1>4. HeadersAt(options, content, parseOptionValue(got.options, r.piece), Rest(r))
  BY <1>2, <1>3
<1>5. got \in GotType
  BY <1>1 DEF GotOK
<1>6. /\ got'.options = parseOptionValue(got.options, r.piece)
      /\ got'.content = got.content /\ got'.line = got.line
  BY <1>2, <1>5 DEF GotType
<1>7. Left' = Rest(r)
  BY <1>2, LeftGoes
<1> QED
  BY <1>2, <1>3, <1>4, <1>6, <1>7 DEF AtLine

\* The headers.
LEMMA ClientHeadersRead ==
    ASSUME IInv, RequestRead, ParseClientHeaders
    PROVE  RequestRead'
<1> SUFFICES RequestUnderstood' /\ ((result' = "reading" /\ cur' # "none") => RequestAt')
  BY DEF RequestRead
<1> DEFINE length == ContentLength(got.options)
           bad == got.line = <<"q11">> /\ ~HasHost(got.options)
<1>1. StreamOK /\ CurOK /\ GotOK
  BY DEF IInv
<1>2. PICK r \in Parsed("headers") :
        /\ Log(r)
        /\ \/ AddOption(r)
           \/ /\ r.piece = << >> /\ got' = got
              /\ \/ bad /\ answered' = "400" /\ cur' = "none"
                 \/ ~bad /\ length > MaxPost /\ answered' = "413" /\ cur' = "none"
                 \/ ~bad /\ length <= MaxPost /\ cur' = "none" /\ answered' = answered
                 \/ ~bad /\ length = 0 /\ answered' = "app" /\ cur' = "none"
                 \/ /\ ~bad /\ length \in 1 .. MaxPost
                    /\ cur' = "content" /\ proc' = "length" /\ sub' = ContentParser("length", length)
                    /\ Goes(r) /\ answered' = answered
  BY DEF ParseClientHeaders, Answer
<1>3. /\ msg' = msg /\ msg.proto = "request" /\ msg.proto \notin Forms
      /\ msg \in Messages
  BY <1>1, <1>2 DEF Log, Forms, StreamOK, ParseClientHeaders
<1>4. r \in Outcomes(cur) /\ cur = "headers" /\ result = "reading"
  BY <1>1, <1>3, ByDelimiterParsed, CallHasBytes DEF ByDelimiter
<1>5. /\ answered = "none" /\ AtLine
      /\ got.line = <<msg.line>> /\ msg.line \in {"q10", "q11"} /\ got.content = << >>
      /\ HeadersAt(msg.options, msg.content, got.options, Left)
  <2>1. RequestAt
    BY <1>3, <1>4 DEF RequestRead
  <2> QED
    BY <1>4, <2>1 DEF RequestAt
<1>6. PICK options \in Seq(Symbols), content \in Seq(Symbols) : options = msg.options /\ content = msg.content
  BY <1>3, RequestEncoded
<1>7. CASE AddOption(r)
  <2>1. /\ HeadersAt(options, content, got'.options, Left') /\ AtLine'
        /\ got'.content = got.content /\ got'.line = got.line
    BY <1>2, <1>3, <1>5, <1>6, <1>7, OptionAdded
  <2>2. cur' = cur /\ answered' = answered
    BY <1>7 DEF AddOption
  <2>3. RequestAt'
    BY <1>3, <1>4, <1>5, <1>6, <2>1, <2>2 DEF RequestAt
  <2> QED
    BY <1>5, <2>2, <2>3 DEF RequestUnderstood
<1>8. CASE r.piece = << >> /\ got' = got
  <2>1. Rest(r) = content /\ got.options = KeptOptions(options) /\ r.sub.buf = Empty
    <3>1. /\ r.sub.buf = Empty
          /\ \/ r.piece = << >> /\ Rest(r) = content /\ got.options = KeptOptions(options)
             \/ \E a \in Symbols : r.piece = <<a>>
      BY <1>1, <1>3, <1>5, <1>6, HeadersStep
    <3>2. ASSUME NEW a PROVE <<a>> # << >>
      OBVIOUS
    <3> QED
      BY <1>8, <3>1, <3>2
  <2>2. length = ContentLength(KeptOptions(msg.options)) /\ got.options = KeptOptions(msg.options)
    BY <1>6, <2>1
  <2>3. bad <=> (msg.line = "q11" /\ ~HasHost(got.options))
    BY <1>5
  <2>4. got.content = SubSeq(msg.content, 1, 0)
    <3>1. SubSeq(content, 1, 0) = << >>
      OBVIOUS
    <3> QED
      BY <1>5, <1>6, <3>1
  <2> HIDE DEF length, bad
  <2>5. /\ bad => Deserved(msg) = "400"
        /\ (~bad /\ length > MaxPost) => Deserved(msg) = "413"
        /\ (~bad /\ ~(length > MaxPost)) => Deserved(msg) = "app"
    BY <1>5, <2>2, <2>3, DeservedIs
  <2>6. MaxPost \in Nat
    BY StreamParserAssumption
  <2>7. CASE bad /\ answered' = "400" /\ cur' = "none"
    BY <1>3, <2>5, <2>7 DEF RequestUnderstood
  <2>8. CASE ~bad /\ length > MaxPost /\ answered' = "413" /\ cur' = "none"
    BY <1>3, <2>5, <2>8 DEF RequestUnderstood
  <2>9. CASE cur' = "none" /\ answered' = answered
    BY <1>5, <2>9 DEF RequestUnderstood
  <2>10. CASE ~bad /\ length = 0 /\ answered' = "app" /\ cur' = "none"
    <3>1. ~(length > MaxPost)
      BY <2>6, <2>10
    <3>2. Deserved(msg) = "app" /\ ContentLength(KeptOptions(msg.options)) = 0
      BY <2>2, <2>5, <2>10, <3>1
    <3> QED
      BY <1>3, <1>6, <1>8, <2>1, <2>4, <2>10, <3>2 DEF RequestUnderstood
  <2>11. CASE /\ ~bad /\ length \in 1 .. MaxPost
              /\ cur' = "content" /\ proc' = "length" /\ sub' = ContentParser("length", length)
              /\ Goes(r) /\ answered' = answered
    <3>1. length \in Nat /\ ~(length > MaxPost)
      BY <2>6, <2>11
    <3>2. sub'.buf = Empty /\ sub'.max = length
      BY <2>11 DEF ContentParser, NewSubParser
    <3>3. Left' = content
      BY <1>2, <2>1, <2>11, <3>2, LeftGoes
    <3>4. got'.content \o Left' = msg.content
      BY <1>5, <1>6, <1>8, <3>3, ConcatEmptySeq
    <3>5. sub'.max + Len(got'.content) = ContentLength(KeptOptions(msg.options))
      <4>1. Len(got'.content) = 0
        BY <1>5, <1>8
      <4> QED
        BY <2>2, <3>1, <3>2, <4>1
    <3>6. Deserved(msg) = "app" /\ got'.options = KeptOptions(msg.options)
      BY <1>6, <1>8, <2>1, <2>5, <2>11, <3>1
    <3>7. RequestAt'
      BY <1>3, <1>5, <2>11, <3>4, <3>5, <3>6 DEF RequestAt
    <3> QED
      BY <1>5, <2>11, <3>7 DEF RequestUnderstood
  <2> QED
    BY <1>2, <1>7, <1>8, <2>7, <2>8, <2>9, <2>10, <2>11
<1> QED
  BY <1>2, <1>7, <1>8

\* A direct subparser hands over a beginning of what is left, and its room shrinks by it.
LEMMA ReadsDirect ==
    ASSUME StreamOK, CurOK, NEW r \in Parsed("content"), msg.proto \notin Forms, sub.mode = "direct",
           NEW c \in Seq(Symbols)
    PROVE  /\ r.piece \in Seq(Symbols) /\ c \o r.piece \in Seq(Symbols) /\ Rest(r) \in Seq(Symbols)
           /\ (c \o r.piece) \o Rest(r) = c \o Left
           /\ Len(c \o r.piece) = Len(c) + Len(r.piece) /\ Len(c) \in Nat /\ Len(r.piece) \in Nat
           /\ r.left = sub.max - Len(r.piece) /\ r.sub.max = r.left /\ r.left \in Nat
           /\ sub.max \in Nat
<1>1. r \in Outcomes(cur) /\ r.ok = TRUE /\ SubParserOK(r.sub, Symbols) /\ r.sub.mode = "direct"
      /\ r.piece \in Seq(Symbols)
  BY ParsedKept
<1>2. Cuts(sub, pending, r)
  BY <1>1, CallCuts
<1>3. r.left = sub.max - Len(r.piece) /\ r.sub.max = r.left /\ r.left \in Nat
  BY <1>1, <1>2 DEF Cuts, CutDirect
<1>4. r.sub.found = << >> /\ sub.max \in Nat
  BY <1>1 DEF SubParserOK, SubParsers, CurOK
<1>5. Handed(r) = r.piece
  <2>1. r.piece \o << >> = r.piece
    BY <1>1, ConcatEmptySeq
  <2> QED
    BY <1>4, <2>1 DEF Handed
<1>6. Rest(r) \in Seq(Symbols) /\ Left = r.piece \o Rest(r)
  BY <1>1, <1>5, LeftDivided
<1>7. (c \o r.piece) \o Rest(r) = c \o (r.piece \o Rest(r))
  <2>1. Split3(Symbols, c, r.piece, Rest(r))
    BY AlwaysSplit3
  <2> QED
    BY <1>1, <1>6, <2>1, Zenon DEF Split3
<1>8. c \o r.piece \in Seq(Symbols) /\ Len(c \o r.piece) = Len(c) + Len(r.piece)
      /\ Len(c) \in Nat /\ Len(r.piece) \in Nat
  BY <1>1, ConcatProperties, LenProperties
<1> QED
  BY <1>1, <1>3, <1>4, <1>6, <1>7, <1>8

\* The content.
LEMMA RequestContentRead ==
    ASSUME IInv, RequestRead, ParseContentLength
    PROVE  RequestRead'
<1> SUFFICES ASSUME msg'.proto = "request"
             PROVE  RequestUnderstood' /\ ((result' = "reading" /\ cur' # "none") => RequestAt')
  BY DEF RequestRead
<1>1. StreamOK /\ CurOK /\ GotOK
  BY DEF IInv
<1>2. PICK r \in Parsed("content") :
        /\ Log(r) /\ got' = [got EXCEPT !.content = @ \o r.piece]
        /\ \/ r.left > 0 /\ proc' = proc /\ sub' = r.sub /\ Goes(r) /\ cur' = cur /\ answered' = answered
           \/ r.left = 0 /\ msg.proto = "request" /\ answered' = "app" /\ cur' = "none"
           \/ r.left = 0 /\ msg.proto = "response"
  BY DEF ParseContentLength, ContentGoesOn, AppendContent, RequestEnds, ResponseEnds, Answer
<1>3. msg' = msg /\ msg.proto = "request" /\ msg.proto \notin Forms /\ msg \in Messages
  BY <1>1, <1>2 DEF Log, Forms, StreamOK
<1>4. r \in Outcomes(cur) /\ cur = "content" /\ result = "reading" /\ proc = "length" /\ sub.mode = "direct"
  BY <1>1, <1>3, ParsedKept, CallHasBytes DEF CurOK, ParseContentLength
<1>5. /\ answered = "none" /\ got.options = KeptOptions(msg.options) /\ Deserved(msg) = "app"
      /\ got.content \o Left = msg.content
      /\ sub.max + Len(got.content) = ContentLength(KeptOptions(msg.options))
  <2>1. RequestAt
    BY <1>3, <1>4 DEF RequestRead
  <2> QED
    BY <1>4, <2>1 DEF RequestAt
<1>6. PICK c \in Seq(Symbols) : c = got.content
  BY <1>1 DEF GotOK, GotType
<1>7. PICK e \in Seq(Symbols) : e = c \o r.piece /\ e \o Rest(r) = c \o Left /\ Len(e) = Len(c) + Len(r.piece)
  <2>1. /\ c \o r.piece \in Seq(Symbols) /\ (c \o r.piece) \o Rest(r) = c \o Left
        /\ Len(c \o r.piece) = Len(c) + Len(r.piece)
    BY <1>1, <1>3, <1>4, ReadsDirect
  <2> QED
    BY <2>1, Zenon
<1>8. /\ Rest(r) \in Seq(Symbols) /\ Len(c) \in Nat /\ Len(r.piece) \in Nat
      /\ r.left = sub.max - Len(r.piece) /\ r.sub.max = r.left /\ r.left \in Nat /\ sub.max \in Nat
  BY <1>1, <1>3, <1>4, <1>6, ReadsDirect
<1>9. got'.content = e /\ got'.options = KeptOptions(msg.options)
  BY <1>1, <1>2, <1>5, <1>6, <1>7 DEF GotOK, GotType
<1>10. r.left + Len(e) = ContentLength(KeptOptions(msg.options))
  <2>1. sub.max + Len(c) = ContentLength(KeptOptions(msg.options))
    BY <1>5, <1>6
  <2>2. ASSUME NEW a \in Nat, NEW b \in Nat, NEW n \in Nat PROVE (n - b) + (a + b) = n + a
    OBVIOUS
  <2>3. r.left + Len(e) = (sub.max - Len(r.piece)) + (Len(c) + Len(r.piece))
    BY <1>7, <1>8
  <2>4. r.left + Len(e) = sub.max + Len(c)
    BY <1>8, <2>2, <2>3
  <2> QED
    BY <2>1, <2>4
<1>11. CASE r.left > 0 /\ proc' = proc /\ sub' = r.sub /\ Goes(r) /\ cur' = cur /\ answered' = answered
  <2>1. Left' = Rest(r)
    BY <1>2, <1>11, LeftGoes
  <2>2. got'.content \o Left' = msg.content
    BY <1>5, <1>6, <1>7, <1>9, <2>1
  <2>3. sub'.max + Len(got'.content) = ContentLength(KeptOptions(msg.options))
    BY <1>8, <1>9, <1>10, <1>11
  <2>4. RequestAt'
    BY <1>3, <1>4, <1>5, <1>9, <1>11, <2>2, <2>3 DEF RequestAt
  <2> QED
    BY <1>5, <1>11, <2>4 DEF RequestUnderstood
<1>12. CASE r.left = 0 /\ answered' = "app" /\ cur' = "none"
  <2>1. Len(e) = ContentLength(KeptOptions(msg.options))
    <3>1. Len(e) \in Nat
      BY LenProperties
    <3> QED
      BY <1>10, <1>12, <3>1
  <2>2. e = SubSeq(e \o Rest(r), 1, Len(e))
    BY <1>8, StartIs
  <2>3. e \o Rest(r) = msg.content
    BY <1>5, <1>6, <1>7
  <2>4. got'.content = SubSeq(msg.content, 1, ContentLength(KeptOptions(msg.options)))
    BY <1>9, <2>1, <2>2, <2>3
  <2> QED
    BY <1>3, <1>5, <1>9, <1>12, <2>4 DEF RequestUnderstood
<1> QED
  BY <1>2, <1>3, <1>11, <1>12

\* Only a server answers, and only it reads a request line.
LEMMA OnlyServers ==
    ASSUME IInv, RequestOnly, [Next]_vars
    PROVE  RequestOnly'
<1>1. msg' = msg
  <2>1. ASSUME NEW r, Log(r) PROVE msg' = msg
    BY <2>1 DEF Log
  <2> QED
    BY <2>1 DEF Next, vars, Read, Finish, Disconnect, Buffer, NoRoomLeft, TTLReached, AfterEnd,
        ParseRequestLine, ParseClientHeaders, ParseStatus, ParseServerHeaders, ParseChunkSize,
        ParseChunkData, ParseChunkCRLF, ParseContentLength, ParseConnectionClose, ParseURLVar, ParseLine,
        ParseFirstBoundary, ParsePartHeaders, ParsePartContent, ParseEndPoint
<1>2. CASE UNCHANGED <<cur, answered>>
  BY <1>1, <1>2 DEF RequestOnly
<1>3. CASE ParseRequestLine
  <2>1. cur = "requestLine"
    BY <1>3 DEF ParseRequestLine, Parsed, Outcomes
  <2> QED
    BY <1>1, <2>1 DEF RequestOnly
<1>4. CASE ParseClientHeaders
  BY <1>1, <1>4 DEF ParseClientHeaders, RequestOnly
<1>5. CASE cur' # "requestLine" /\ answered' = answered
  BY <1>1, <1>5 DEF RequestOnly
<1>6. CASE Read \/ Finish \/ Disconnect \/ Buffer \/ NoRoomLeft \/ TTLReached \/ AfterEnd \/ UNCHANGED vars
  <2>1. UNCHANGED <<cur, answered>>
    BY <1>6 DEF Read, Finish, Disconnect, Buffer, NoRoomLeft, TTLReached, AfterEnd, vars
  <2> QED
    BY <1>2, <2>1
<1>7. CASE ParseStatus
  <2>1. cur = "status"
    BY <1>7 DEF ParseStatus, Parsed, Outcomes
  <2>2. cur' # "requestLine" /\ answered' = answered
    BY <1>7, <2>1 DEF ParseStatus
  <2> QED
    BY <1>5, <2>2
<1>8. CASE ParseServerHeaders
  <2>1. cur = "headers"
    BY <1>8 DEF ParseServerHeaders, Parsed, Outcomes
  <2>2. cur' # "requestLine" /\ answered' = answered
    BY <1>8, <2>1 DEF ParseServerHeaders, AddOption
  <2> QED
    BY <1>5, <2>2
<1>9. CASE ParseChunkSize \/ ParseChunkData \/ ParseChunkCRLF \/ ParseConnectionClose
  <2>1. cur = "content"
    BY <1>9 DEF ParseChunkSize, ParseChunkData, ParseChunkCRLF, ParseConnectionClose, Parsed, Outcomes
  <2>2. cur' # "requestLine" /\ answered' = answered
    BY <1>9, <2>1 DEF ParseChunkSize, ParseChunkData, ParseChunkCRLF, ParseConnectionClose,
        ContentGoesOn, ResponseEnds
  <2> QED
    BY <1>5, <2>2
<1>10. CASE ParseContentLength
  <2>1. cur = "content"
    BY <1>10 DEF ParseContentLength, Parsed, Outcomes
  <2>2. cur' # "requestLine" /\ (answered' = answered \/ msg.proto = "request")
    BY <1>10, <2>1 DEF ParseContentLength, ContentGoesOn, ResponseEnds, RequestEnds, Answer
  <2> QED
    BY <1>1, <2>2 DEF RequestOnly
<1>11. CASE ParseURLVar
  BY <1>2, <1>11 DEF ParseURLVar
<1>12. CASE ParseLine
  <2>1. cur = "line"
    BY <1>12 DEF ParseLine, Parsed, Outcomes
  <2>2. cur' # "requestLine" /\ answered' = answered
    BY <1>12, <2>1 DEF ParseLine
  <2> QED
    BY <1>5, <2>2
<1>13. CASE ParseFirstBoundary \/ ParsePartHeaders \/ ParsePartContent \/ ParseEndPoint
  <2>1. cur # "requestLine"
    BY <1>13 DEF ParseFirstBoundary, ParsePartHeaders, ParsePartContent, ParseEndPoint, Parsed, Outcomes
  <2>2. cur' # "requestLine" /\ answered' = answered
    BY <1>13, <2>1 DEF ParseFirstBoundary, ParsePartHeaders, ParsePartContent, ParseEndPoint, MoveTo
  <2> QED
    BY <1>5, <2>2
<1> QED
  BY <1>3, <1>4, <1>6, <1>7, <1>8, <1>9, <1>10, <1>11, <1>12, <1>13 DEF Next

OtherThanRequests ==
    \/ ParseStatus \/ ParseServerHeaders \/ ParseChunkSize \/ ParseChunkData \/ ParseChunkCRLF
    \/ ParseConnectionClose \/ ParseURLVar \/ ParseLine
    \/ ParseFirstBoundary \/ ParsePartHeaders \/ ParsePartContent \/ ParseEndPoint

\* A request is read by nothing else.
LEMMA NoOtherParser ==
    ASSUME RequestRead, msg.proto = "request"
    PROVE  ~OtherThanRequests
<1> SUFFICES ASSUME OtherThanRequests PROVE FALSE
  OBVIOUS
<1>1. result = "reading" /\ cur # "none"
  BY DEF OtherThanRequests, ParseStatus, ParseServerHeaders, ParseChunkSize, ParseChunkData, ParseChunkCRLF,
    ParseConnectionClose, ParseURLVar, ParseLine, ParseFirstBoundary, ParsePartHeaders,
    ParsePartContent, ParseEndPoint, Parsed, Outcomes
<1>2. RequestAt
  BY <1>1 DEF RequestRead
<1>3. cur \in {"requestLine", "headers", "content"} /\ (cur = "content" => proc = "length")
  BY <1>2 DEF RequestAt
<1> QED
  BY <1>3 DEF OtherThanRequests, ParseStatus, ParseServerHeaders, ParseChunkSize, ParseChunkData, ParseChunkCRLF,
    ParseConnectionClose, ParseURLVar, ParseLine, ParseFirstBoundary, ParsePartHeaders,
    ParsePartContent, ParseEndPoint, Parsed, Outcomes

\* Every step keeps the place in a request.
LEMMA RequestStep ==
    ASSUME IInv, RequestOnly, RequestRead, [Next]_vars
    PROVE  RequestRead'
<1> SUFFICES ASSUME msg'.proto = "request"
             PROVE  RequestRead'
  BY DEF RequestRead
<1>1. StreamOK /\ CurOK
  BY DEF IInv
<1>2. CASE Waiting
  <2>1. msg.proto = "request"
    BY <1>2 DEF Waiting, Read, Finish, Disconnect, Buffer, NoRoomLeft, TTLReached, AfterEnd, vars, Log
  <2>2. msg.proto \notin Forms
    BY <2>1 DEF Forms
  <2>3. /\ msg' = msg /\ got' = got /\ answered' = answered /\ cur' = cur /\ proc' = proc
        /\ (result' = "reading" /\ cur' # "none" /\ sub.mode # "directDelimiter") =>
             /\ result = "reading" /\ Left' = Left
             /\ sub'.delims = sub.delims /\ sub'.ended = sub.ended /\ sub'.max = sub.max
    BY <1>2, <2>2, WaitingLeaves
  <2>4. RequestUnderstood'
    BY <2>3 DEF RequestRead, RequestUnderstood
  <2>5. ASSUME result' = "reading", cur' # "none" PROVE RequestAt'
    <3>1. result = "reading" \/ sub.mode = "directDelimiter"
      BY <2>3, <2>5
    <3>2. result = "reading"
      BY <1>2, <2>5, <2>2 DEF Waiting, Read, Finish, Disconnect, Buffer, NoRoomLeft, TTLReached, AfterEnd, vars, Outcomes
    <3>3. RequestAt
      BY <2>1, <2>3, <2>5, <3>2 DEF RequestRead
    <3>4. sub.mode # "directDelimiter"
      BY <1>1, <3>3 DEF RequestAt, CurOK, ByDelimiter
    <3> QED
      BY <2>3, <2>5, <3>3, <3>4 DEF RequestAt, AtLine
  <2> QED
    BY <2>4, <2>5 DEF RequestRead
<1>3. CASE ParseRequestLine
  BY <1>3, RequestLineRead
<1>4. CASE ParseClientHeaders
  BY <1>4, ClientHeadersRead
<1>5. CASE ParseContentLength
  BY <1>5, RequestContentRead
<1>6. CASE OtherThanRequests
  <2>1. msg.proto = "request"
    <3>1. ASSUME NEW r, Log(r) PROVE msg' = msg
      BY <3>1 DEF Log
    <3>2. msg' = msg
      BY <1>6, <3>1 DEF OtherThanRequests, ParseStatus, ParseServerHeaders, ParseChunkSize, ParseChunkData,
        ParseChunkCRLF, ParseConnectionClose, ParseURLVar, ParseLine, ParseFirstBoundary, ParsePartHeaders,
        ParsePartContent, ParseEndPoint
    <3> QED
      BY <3>2
  <2> QED
    BY <1>6, <2>1, NoOtherParser
<1> QED
  BY <1>2, <1>3, <1>4, <1>5, <1>6 DEF Next, Waiting, OtherThanRequests

\* A request begins where it is encoded.
LEMMA RequestBegins == Init => RequestOnly /\ RequestRead
<1> SUFFICES ASSUME Init PROVE RequestOnly /\ RequestRead
  OBVIOUS
<1>1. /\ msg \in Messages /\ wire = Encode(msg) /\ pending = << >>
      /\ cur = FirstParser(msg)[1] /\ sub = FirstParser(msg)[2]
      /\ got = [line |-> << >>, options |-> << >>, content |-> << >>, name |-> << >>, items |-> << >>]
      /\ answered = "none"
  BY DEF Init
<1>2. msg.proto \in {"request", "response", "url", "mime", "line"}
  BY <1>1, MessagesAssumption
<1>3. RequestOnly
  BY <1>1, <1>2 DEF RequestOnly, FirstParser
<1>4. ASSUME msg.proto = "request" PROVE RequestAt
  <2>1. cur = "requestLine" /\ sub = LineParser
    BY <1>1, <1>4 DEF FirstParser
  <2>2. AtLine /\ Bytes(sub.buf) = << >>
    BY <2>1, LineParserIs, ParsersOK, BytesEmpty DEF AtLine
  <2>3. Left = Encode(msg)
    <3>1. PICK e \in Seq(Symbols) : e = Encode(msg)
      BY <1>1, EncodeType
    <3>2. << >> \o << >> = << >> /\ << >> \o e = e
      BY ConcatEmptySeq
    <3> QED
      BY <1>1, <2>2, <3>1, <3>2 DEF Left
  <2> QED
    BY <1>1, <2>1, <2>2, <2>3 DEF RequestAt
<1> QED
  BY <1>1, <1>3, <1>4 DEF RequestRead, RequestUnderstood

\* HTTPv1_Server gives the application the request that was sent, wherever its stream is
\* cut into reads and whatever the limits are: it answers what the request deserves, and to
\* the application's answer belong the options that its header lines make and exactly the declared content.
THEOREM RequestsUnderstood == Spec => []RequestUnderstood
<1>1. Init => RequestOnly /\ RequestRead
  BY RequestBegins
<1>2. IInv /\ (RequestOnly /\ RequestRead) /\ [Next]_vars => (RequestOnly /\ RequestRead)'
  BY OnlyServers, RequestStep
<1>3. RequestOnly /\ RequestRead => RequestUnderstood
  BY DEF RequestOnly, RequestRead, RequestUnderstood
<1> QED
  BY <1>1, <1>2, <1>3, Invariance, PTL DEF Spec

-----------------------------------------------------------------------------
(* Chunks *)

SmallChunks == {x \in Seq(Symbols) : Len(x) \in 1 .. 3}

ChunkSymbol(x) == Symbol(Len(x), Sizes, SizeOf)

\* A chunk as it is read: its size, its bytes and a CRLF after them.
Frame(x) == (<<ChunkSymbol(x)>> \o CRLF) \o (x \o CRLF)
Frames(c) == [i \in DOMAIN c |-> Frame(c[i])]
LastChunk == (<<"0">> \o CRLF) \o CRLF
Chunked(c) == FlattenSeq(Frames(c)) \o LastChunk

\* A size has a symbol.
LEMMA SizeSymbol ==
    ASSUME NEW n \in 0 .. 3
    PROVE  Symbol(n, Sizes, SizeOf) \in Sizes /\ SizeOf(Symbol(n, Sizes, SizeOf)) = n
<1>1. SizeOf("0") = 0 /\ SizeOf("1") = 1 /\ SizeOf("2") = 2 /\ SizeOf("3") = 3
  BY DEF SizeOf
<1>2. \E s \in Sizes : SizeOf(s) = n
  <2>1. n \in {0, 1, 2, 3}
    OBVIOUS
  <2> QED
    BY <1>1, <2>1 DEF Sizes
<1>3. Symbol(n, Sizes, SizeOf) = CHOOSE s \in Sizes : SizeOf(s) = n
  BY DEF Symbol
<1> HIDE DEF Sizes, SizeOf
<1> QED
  BY <1>2, <1>3

\* So has a length.
LEMMA LengthSymbol ==
    ASSUME NEW n \in 0 .. 4
    PROVE  /\ Symbol(n, Lengths, LAMBDA s : LengthOf[s]) \in Lengths
           /\ LengthOf[Symbol(n, Lengths, LAMBDA s : LengthOf[s])] = n
<1>1. /\ Lengths = {"L0", "L1", "L2", "L3", "L4"}
      /\ LengthOf["L0"] = 0 /\ LengthOf["L1"] = 1 /\ LengthOf["L2"] = 2 /\ LengthOf["L3"] = 3 /\ LengthOf["L4"] = 4
  BY DEF Lengths, LengthOf
<1>2. \E s \in Lengths : LengthOf[s] = n
  <2>1. n \in {0, 1, 2, 3, 4}
    OBVIOUS
  <2> QED
    BY <1>1, <2>1
<1>3. Symbol(n, Lengths, LAMBDA s : LengthOf[s]) = CHOOSE s \in Lengths : LengthOf[s] = n
  BY DEF Symbol
<1> HIDE DEF Lengths, LengthOf
<1> QED
  BY <1>2, <1>3

\* The symbol of a chunk that is not empty.
LEMMA ChunkSymbolIs ==
    ASSUME NEW x \in SmallChunks
    PROVE  /\ x \in Seq(Symbols) /\ ChunkSymbol(x) \in Sizes /\ ChunkSymbol(x) \in Symbols
           /\ SizeOf(ChunkSymbol(x)) = Len(x) /\ Len(x) \in 1 .. 3 /\ ChunkSymbol(x) # "0"
<1>1. x \in Seq(Symbols) /\ Len(x) \in 1 .. 3 /\ Len(x) \in 0 .. 3
  BY DEF SmallChunks
<1>2. ChunkSymbol(x) \in Sizes /\ SizeOf(ChunkSymbol(x)) = Len(x)
  BY <1>1, SizeSymbol DEF ChunkSymbol
<1>3. SizeOf("0") = 0
  BY DEF SizeOf
<1>4. ChunkSymbol(x) # "0"
  BY <1>1, <1>2, <1>3
<1>5. Sizes \subseteq Symbols
  BY SymbolsAssumption
<1> QED
  BY <1>1, <1>2, <1>4, <1>5

\* A frame is symbols.
LEMMA FrameType ==
    ASSUME NEW x \in SmallChunks
    PROVE  Frame(x) \in Seq(Symbols) /\ x \o CRLF \in Seq(Symbols) /\ <<ChunkSymbol(x)>> \o CRLF \in Seq(Symbols)
<1>1. x \in Seq(Symbols) /\ ChunkSymbol(x) \in Symbols
  BY ChunkSymbolIs
<1>2. <<ChunkSymbol(x)>> \o CRLF \in Seq(Symbols)
  BY <1>1, CRLFType, ConsAt
<1>3. x \o CRLF \in Seq(Symbols)
  BY <1>1, CRLFType, ConcatProperties
<1> QED
  BY <1>2, <1>3, ConcatProperties DEF Frame

\* So are frames.
LEMMA FramesType ==
    ASSUME NEW c \in Seq(SmallChunks)
    PROVE  /\ Frames(c) \in Seq(Seq(Symbols)) /\ Len(Frames(c)) = Len(c)
           /\ \A i \in 1..Len(c) : Frames(c)[i] = Frame(c[i])
           /\ FlattenSeq(Frames(c)) \in Seq(Symbols)
<1>1. Len(c) \in Nat /\ DOMAIN c = 1..Len(c)
  BY LenProperties
<1>2. \A i \in 1..Len(c) : Frame(c[i]) \in Seq(Symbols)
  <2> TAKE i \in 1..Len(c)
  <2>1. c[i] \in SmallChunks
    BY ElementOfSeq
  <2> QED
    BY <2>1, FrameType
<1>3. Frames(c) \in [1..Len(c) -> Seq(Symbols)]
  BY <1>1, <1>2 DEF Frames
<1>4. Frames(c) \in Seq(Seq(Symbols)) /\ Len(Frames(c)) = Len(c) /\ \A i \in 1..Len(c) : Frames(c)[i] = Frame(c[i])
  BY <1>1, <1>3, SeqDef DEF Frames
<1> QED
  BY <1>4, FlattenType

\* The end of the chunks is symbols.
LEMMA LastChunkType == LastChunk \in Seq(Symbols) /\ "0" \in Symbols
<1>1. "0" \in Symbols
  BY SymbolsAssumption DEF Sizes
<1>2. <<"0">> \o CRLF \in Seq(Symbols)
  BY <1>1, CRLFType, ConsAt
<1> QED
  BY <1>1, <1>2, CRLFType, ConcatProperties DEF LastChunk

\* So are the chunks.
LEMMA ChunkedType ==
    ASSUME NEW c \in Seq(SmallChunks)
    PROVE  Chunked(c) \in Seq(Symbols)
BY FramesType, LastChunkType, ConcatProperties DEF Chunked

\* Without chunks there is the last one.
LEMMA ChunkedNone == Chunked(<< >>) = LastChunk /\ << >> \in Seq(SmallChunks)
<1>1. Frames(<< >>) = << >>
  BY DEF Frames
<1>2. << >> \o LastChunk = LastChunk
  BY LastChunkType, ConcatEmptySeq
<1>3. FlattenSeq(Frames(<< >>)) = << >>
  BY <1>1, FlattenEmpty
<1>4. << >> \in Seq(SmallChunks)
  OBVIOUS
<1> QED
  BY <1>2, <1>3, <1>4 DEF Chunked

\* The first chunk, then the others.
LEMMA ChunkedFirst ==
    ASSUME NEW a \in SmallChunks, NEW t \in Seq(SmallChunks)
    PROVE  Chunked(<<a>> \o t) = (<<ChunkSymbol(a)>> \o CRLF) \o (a \o (CRLF \o Chunked(t)))
<1>1. PICK s \in Seq(SmallChunks) : s = <<a>> \o t
  BY ConsAt
<1>2. Len(s) = Len(t) + 1 /\ Len(t) \in Nat /\ s[1] = a /\ \A i \in 1..Len(t) : s[i + 1] = t[i]
  BY <1>1, ConsAt
<1>3. PICK ss \in Seq(Seq(Symbols)) : ss = Frames(s) /\ Len(ss) = Len(s) /\ \A i \in 1..Len(s) : ss[i] = Frame(s[i])
  BY FramesType
<1>4. PICK tt \in Seq(Seq(Symbols)) : tt = Frames(t) /\ Len(tt) = Len(t) /\ \A i \in 1..Len(t) : tt[i] = Frame(t[i])
  BY FramesType
<1>5. \A i \in 1..Len(tt) : ss[i + 1] = tt[i]
  <2> TAKE i \in 1..Len(tt)
  <2>1. i + 1 \in 1..Len(s) /\ i \in 1..Len(t)
    BY <1>2, <1>4
  <2> QED
    BY <1>2, <1>3, <1>4, <2>1
<1>6. ss[1] = Frame(a)
  <2>1. 1 \in 1..Len(s)
    BY <1>2
  <2> QED
    BY <1>2, <1>3, <2>1
<1>7. FlattenSeq(ss) = ss[1] \o FlattenSeq(tt)
  <2>1. Len(ss) = Len(tt) + 1
    BY <1>2, <1>3, <1>4
  <2> QED
    BY <1>5, <2>1, FlattenFirst
<1>8. PICK f \in Seq(Symbols) : f = FlattenSeq(tt)
  BY FlattenType
<1>9. PICK q \in Seq(Symbols), x \in Seq(Symbols), d \in Seq(Symbols), l \in Seq(Symbols) :
        q = <<ChunkSymbol(a)>> \o CRLF /\ x = a /\ d = CRLF /\ l = LastChunk
  BY FrameType, ChunkSymbolIs, CRLFType, LastChunkType
<1>10. Chunked(s) = ((q \o (x \o d)) \o f) \o l /\ Chunked(t) = f \o l
  BY <1>3, <1>4, <1>6, <1>7, <1>8, <1>9 DEF Chunked, Frame
<1>11. /\ Split3(Symbols, q, x \o d, f) /\ Split3(Symbols, q, (x \o d) \o f, l)
       /\ Split3(Symbols, x, d, f) /\ Split3(Symbols, x, d \o f, l) /\ Split3(Symbols, d, f, l)
  BY AlwaysSplit3
<1>12. x \o d \in Seq(Symbols) /\ d \o f \in Seq(Symbols) /\ (x \o d) \o f = x \o (d \o f)
  BY <1>11, Zenon DEF Split3
<1>13. (x \o d) \o f \in Seq(Symbols)
  BY <1>12, ConcatProperties
<1>14. /\ (q \o (x \o d)) \o f = q \o ((x \o d) \o f)
       /\ (q \o ((x \o d) \o f)) \o l = q \o (((x \o d) \o f) \o l)
       /\ (x \o (d \o f)) \o l = x \o ((d \o f) \o l)
       /\ (d \o f) \o l = d \o (f \o l)
  BY <1>11, <1>12, <1>13, Zenon DEF Split3
<1>15. Chunked(s) = q \o (x \o (d \o (f \o l)))
  BY <1>10, <1>12, <1>14, Zenon
<1> QED
  BY <1>1, <1>9, <1>10, <1>15

\* The same chunks as they are written: each but the first after the CRLF of the one before.
Written(c) ==
    [i \in DOMAIN c |->
        (IF i = 1 THEN << >> ELSE CRLF) \o <<Symbol(Len(c[i]), Sizes, SizeOf)>> \o CRLF \o c[i]]
Separator(c) == IF c = << >> THEN << >> ELSE CRLF

\* A written chunk is symbols.
LEMMA WrittenType ==
    ASSUME NEW c \in Seq(SmallChunks)
    PROVE  /\ Written(c) \in Seq(Seq(Symbols)) /\ Len(Written(c)) = Len(c)
           /\ \A i \in 1..Len(c) :
                Written(c)[i] = (IF i = 1 THEN << >> ELSE CRLF) \o ((<<ChunkSymbol(c[i])>> \o CRLF) \o c[i])
           /\ FlattenSeq(Written(c)) \in Seq(Symbols)
           /\ Separator(c) \in Seq(Symbols)
<1>1. Len(c) \in Nat /\ DOMAIN c = 1..Len(c)
  BY LenProperties
<1>2. << >> \in Seq(Symbols) /\ CRLF \in Seq(Symbols)
  BY CRLFType
<1>3. \A i \in 1..Len(c) :
        LET p == IF i = 1 THEN << >> ELSE CRLF
        IN  /\ p \o ((<<ChunkSymbol(c[i])>> \o CRLF) \o c[i]) \in Seq(Symbols)
            /\ ((p \o <<ChunkSymbol(c[i])>>) \o CRLF) \o c[i] = p \o ((<<ChunkSymbol(c[i])>> \o CRLF) \o c[i])
  <2> TAKE i \in 1..Len(c)
  <2>1. PICK p \in Seq(Symbols) : p = IF i = 1 THEN << >> ELSE CRLF
    BY <1>2
  <2>2. c[i] \in SmallChunks
    BY ElementOfSeq
  <2>3. PICK x \in Seq(Symbols), s \in Seq(Symbols), d \in Seq(Symbols) : x = c[i] /\ s = <<ChunkSymbol(c[i])>> /\ d = CRLF
    <3>1. c[i] \in Seq(Symbols) /\ ChunkSymbol(c[i]) \in Symbols
      BY <2>2, ChunkSymbolIs
    <3>2. <<ChunkSymbol(c[i])>> \in Seq(Symbols)
      BY <3>1, ConsAt
    <3> QED
      BY <1>2, <3>1, <3>2
  <2>4. Split3(Symbols, p, s, d) /\ Split3(Symbols, p, s \o d, x) /\ Split3(Symbols, s, d, x)
    BY AlwaysSplit3
  <2>5. s \o d \in Seq(Symbols) /\ (p \o s) \o d = p \o (s \o d)
    BY <2>4, Zenon DEF Split3
  <2>6. p \o ((s \o d) \o x) \in Seq(Symbols) /\ (p \o (s \o d)) \o x = p \o ((s \o d) \o x)
    BY <2>4, <2>5, Zenon DEF Split3
  <2>7. p \o ((s \o d) \o x) \in Seq(Symbols) /\ ((p \o s) \o d) \o x = p \o ((s \o d) \o x)
    BY <2>5, <2>6
  <2> QED
    BY <2>1, <2>3, <2>7
<1>4. Written(c) = [i \in 1..Len(c) |->
        (IF i = 1 THEN << >> ELSE CRLF) \o ((<<ChunkSymbol(c[i])>> \o CRLF) \o c[i])]
  BY <1>1, <1>3 DEF Written, ChunkSymbol
<1>5. Written(c) \in [1..Len(c) -> Seq(Symbols)]
  BY <1>3, <1>4
<1>6. Written(c) \in Seq(Seq(Symbols)) /\ Len(Written(c)) = Len(c)
  BY <1>1, <1>5, SeqDef
<1>7. Separator(c) \in Seq(Symbols)
  BY <1>2 DEF Separator
<1> QED
  BY <1>4, <1>6, <1>7, FlattenType

\* One chunk more is written.
LEMMA WrittenLast ==
    ASSUME NEW c \in Seq(SmallChunks), NEW a \in SmallChunks
    PROVE  FlattenSeq(Written(Append(c, a))) =
                FlattenSeq(Written(c)) \o (Separator(c) \o ((<<ChunkSymbol(a)>> \o CRLF) \o a))
<1>1. PICK u \in Seq(SmallChunks) : u = Append(c, a)
  BY AppendProperties
<1>2. Len(u) = Len(c) + 1 /\ Len(c) \in Nat /\ u[Len(c) + 1] = a /\ \A i \in 1..Len(c) : u[i] = c[i]
  BY <1>1, AppendProperties, LenProperties
<1> DEFINE P(i, x) == (IF i = 1 THEN << >> ELSE CRLF) \o ((<<ChunkSymbol(x)>> \o CRLF) \o x)
<1>3. PICK ss \in Seq(Seq(Symbols)) : ss = Written(u) /\ Len(ss) = Len(u) /\ \A i \in 1..Len(u) : ss[i] = P(i, u[i])
  BY WrittenType
<1>4. PICK tt \in Seq(Seq(Symbols)) : tt = Written(c) /\ Len(tt) = Len(c) /\ \A i \in 1..Len(c) : tt[i] = P(i, c[i])
  BY WrittenType
<1> HIDE DEF P
<1>5. \A i \in 1..Len(tt) : ss[i] = tt[i]
  <2> TAKE i \in 1..Len(tt)
  <2>1. i \in 1..Len(u) /\ i \in 1..Len(c)
    BY <1>2, <1>4
  <2> QED
    BY <1>2, <1>3, <1>4, <2>1
<1>6. ss[Len(ss)] = P(Len(c) + 1, a)
  <2>1. Len(ss) \in 1..Len(u) /\ Len(ss) = Len(c) + 1
    BY <1>2, <1>3
  <2> QED
    BY <1>2, <1>3, <2>1
<1>7. FlattenSeq(ss) = FlattenSeq(tt) \o ss[Len(ss)]
  <2>1. Len(ss) = Len(tt) + 1
    BY <1>2, <1>3, <1>4
  <2> QED
    BY <1>5, <2>1, FlattenLast
<1>8. (Len(c) + 1 = 1) <=> c = << >>
  <2>1. Len(c) = 0 <=> c = << >>
    BY EmptySeq
  <2> QED
    BY <1>2, <2>1
<1>9. P(Len(c) + 1, a) = Separator(c) \o ((<<ChunkSymbol(a)>> \o CRLF) \o a)
  BY <1>8 DEF P, Separator
<1> QED
  BY <1>1, <1>3, <1>4, <1>6, <1>7, <1>9

\* One frame more.
LEMMA FramesLast ==
    ASSUME NEW c \in Seq(SmallChunks), NEW a \in SmallChunks
    PROVE  FlattenSeq(Frames(Append(c, a))) = FlattenSeq(Frames(c)) \o Frame(a)
<1>1. PICK u \in Seq(SmallChunks) : u = Append(c, a)
  BY AppendProperties
<1>2. Len(u) = Len(c) + 1 /\ Len(c) \in Nat /\ u[Len(c) + 1] = a /\ \A i \in 1..Len(c) : u[i] = c[i]
  BY <1>1, AppendProperties, LenProperties
<1>3. PICK ss \in Seq(Seq(Symbols)) : ss = Frames(u) /\ Len(ss) = Len(u) /\ \A i \in 1..Len(u) : ss[i] = Frame(u[i])
  BY FramesType
<1>4. PICK tt \in Seq(Seq(Symbols)) : tt = Frames(c) /\ Len(tt) = Len(c) /\ \A i \in 1..Len(c) : tt[i] = Frame(c[i])
  BY FramesType
<1>5. \A i \in 1..Len(tt) : ss[i] = tt[i]
  <2> TAKE i \in 1..Len(tt)
  <2>1. i \in 1..Len(u) /\ i \in 1..Len(c)
    BY <1>2, <1>4
  <2> QED
    BY <1>2, <1>3, <1>4, <2>1
<1>6. ss[Len(ss)] = Frame(a)
  <2>1. Len(ss) \in 1..Len(u) /\ Len(ss) = Len(c) + 1
    BY <1>2, <1>3
  <2> QED
    BY <1>2, <1>3, <2>1
<1>7. FlattenSeq(ss) = FlattenSeq(tt) \o ss[Len(ss)]
  <2>1. Len(ss) = Len(tt) + 1
    BY <1>2, <1>3, <1>4
  <2> QED
    BY <1>5, <2>1, FlattenLast
<1> QED
  BY <1>1, <1>3, <1>4, <1>6, <1>7

\* What is written is what is read.
LEMMA WrittenIsFramed ==
    ASSUME NEW c \in Seq(SmallChunks)
    PROVE  FlattenSeq(Written(c)) \o Separator(c) = FlattenSeq(Frames(c))
<1> DEFINE Good == {x \in Seq(SmallChunks) : FlattenSeq(Written(x)) \o Separator(x) = FlattenSeq(Frames(x))}
<1>1. << >> \in Good
  <2>1. Written(<< >>) = << >> /\ Frames(<< >>) = << >> /\ Separator(<< >>) = << >>
    BY DEF Written, Frames, Separator
  <2>2. << >> \o << >> = << >> /\ << >> \in Seq(SmallChunks)
    OBVIOUS
  <2>3. FlattenSeq(Written(<< >>)) = << >> /\ FlattenSeq(Frames(<< >>)) = << >>
    BY <2>1, FlattenEmpty
  <2> QED
    BY <2>1, <2>2, <2>3
<1>2. ASSUME NEW x \in Seq(SmallChunks), NEW a \in SmallChunks, x \in Good PROVE Append(x, a) \in Good
  <2>1. FlattenSeq(Written(x)) \o Separator(x) = FlattenSeq(Frames(x))
    BY <1>2
  <2>2. PICK w \in Seq(Symbols), s \in Seq(Symbols) : w = FlattenSeq(Written(x)) /\ s = Separator(x)
    BY WrittenType
  <2>3. PICK q \in Seq(Symbols), b \in Seq(Symbols), d \in Seq(Symbols) :
          q = <<ChunkSymbol(a)>> \o CRLF /\ b = a /\ d = CRLF
    BY FrameType, ChunkSymbolIs, CRLFType
  <2>4. PICK u \in Seq(SmallChunks) : u = Append(x, a) /\ u # << >>
    BY AppendProperties
  <2>5. FlattenSeq(Written(u)) = w \o (s \o (q \o b)) /\ Separator(u) = d
    BY <2>2, <2>3, <2>4, WrittenLast DEF Separator
  <2>6. FlattenSeq(Frames(u)) = (w \o s) \o (q \o (b \o d))
    BY <2>1, <2>2, <2>3, <2>4, FramesLast DEF Frame
  <2>7. /\ Split3(Symbols, w, s, q \o b) /\ Split3(Symbols, q, b, d)
        /\ Split3(Symbols, w \o s, q \o b, d)
    BY AlwaysSplit3
  <2>8. q \o b \in Seq(Symbols) /\ w \o s \in Seq(Symbols) /\ (q \o b) \o d = q \o (b \o d)
    BY <2>7, Zenon DEF Split3
  <2>9. w \o (s \o (q \o b)) = (w \o s) \o (q \o b) /\ ((w \o s) \o (q \o b)) \o d = (w \o s) \o ((q \o b) \o d)
    BY <2>7, <2>8, Zenon DEF Split3
  <2>10. FlattenSeq(Written(u)) \o Separator(u) = FlattenSeq(Frames(u))
    BY <2>5, <2>6, <2>8, <2>9, Zenon
  <2> QED
    BY <2>4, <2>10
<1> HIDE DEF Good
<1>3. Seq(SmallChunks) \subseteq Good
  BY <1>1, <1>2, AllSequences
<1>4. c \in Good
  BY <1>3
<1> QED
  BY <1>4 DEF Good

\* ContentChunkedTransformer writes the chunks as Content reads them.
LEMMA ChunksEncoded ==
    ASSUME NEW c \in Seq(SmallChunks)
    PROVE  EncodeChunks(c) = Chunked(c)
<1>1. PICK w \in Seq(Symbols), s \in Seq(Symbols) : w = FlattenSeq(Written(c)) /\ s = Separator(c)
  BY WrittenType
<1>2. PICK z \in Seq(Symbols), d \in Seq(Symbols) : z = <<"0">> /\ d = CRLF
  <2>1. <<"0">> \in Seq(Symbols)
    BY LastChunkType, ConsAt
  <2> QED
    BY <2>1, CRLFType
<1>3. EncodeChunks(c) = (((w \o s) \o z) \o d) \o d
  BY <1>1, <1>2 DEF EncodeChunks, Written, Separator
<1>4. Chunked(c) = (w \o s) \o ((z \o d) \o d)
  BY <1>1, <1>2, WrittenIsFramed DEF Chunked, LastChunk
<1>5. w \o s \in Seq(Symbols) /\ z \o d \in Seq(Symbols)
  BY ConcatProperties
<1>6. Split3(Symbols, w \o s, z, d) /\ Split3(Symbols, w \o s, z \o d, d)
  BY AlwaysSplit3
<1>7. ((w \o s) \o z) \o d = (w \o s) \o (z \o d) /\ ((w \o s) \o (z \o d)) \o d = (w \o s) \o ((z \o d) \o d)
  BY <1>5, <1>6, Zenon DEF Split3
<1> QED
  BY <1>3, <1>4, <1>7, Zenon

-----------------------------------------------------------------------------
(* HTTPv1_Client understands the response *)

ContentOf(m) == FlattenSeq(m.chunks)

HeaderOf(m) ==
    IF m.sends = "length" THEN Symbol(Len(ContentOf(m)), Lengths, LAMBDA s : LengthOf[s])
    ELSE IF m.sends = "chunks" THEN "Chunked" ELSE "h"

BodyOf(m) == IF m.sends = "chunks" THEN Chunked(m.chunks) ELSE ContentOf(m)

\* What a response is made of.
LEMMA ResponseParts ==
    ASSUME NEW m \in Messages, m.proto = "response"
    PROVE  /\ m.status \in Symbols /\ m.sends \in {"length", "chunks", "close"}
           /\ m.chunks \in Seq(SmallChunks) /\ m.chunks \in Seq(Seq(Symbols))
           /\ ContentOf(m) \in Seq(Symbols) /\ BodyOf(m) \in Seq(Symbols)
           /\ HeaderOf(m) \in Symbols /\ HeaderOf(m) \in Options
           /\ m.sends = "length" =>
                HeaderOf(m) \in Lengths /\ LengthOf[HeaderOf(m)] = Len(ContentOf(m))
           /\ m.sends # "length" => HeaderOf(m) \notin Lengths
           /\ m.sends = "chunks" <=> HeaderOf(m) = "Chunked"
<1>1. /\ m.status \in Symbols /\ m.sends \in {"length", "chunks", "close"} /\ m.chunks \in Seq(Seq(Symbols))
      /\ m.sends = "length" => Len(FlattenSeq(m.chunks)) \in 0 .. 4
      /\ \A i \in DOMAIN m.chunks : Len(m.chunks[i]) \in 1 .. 3
  BY MessagesAssumption DEF Responses
<1>2. m.chunks \in Seq(SmallChunks)
  <2>1. PICK c \in Seq(Seq(Symbols)) : c = m.chunks
    BY <1>1
  <2>2. Len(c) \in Nat /\ DOMAIN c = 1..Len(c) /\ c = [i \in 1..Len(c) |-> c[i]]
    BY LenProperties
  <2>3. \A i \in 1..Len(c) : c[i] \in SmallChunks
    <3> TAKE i \in 1..Len(c)
    <3>1. c[i] \in Seq(Symbols)
      BY ElementOfSeq
    <3> QED
      BY <1>1, <2>1, <2>2, <3>1 DEF SmallChunks
  <2>4. c \in [1..Len(c) -> SmallChunks]
    BY <2>2, <2>3
  <2>5. PICK n \in Nat : c \in [1..n -> SmallChunks]
    BY <2>2, <2>4
  <2>6. c \in Seq(SmallChunks)
    BY <2>5
  <2> QED
    BY <2>1, <2>6
<1>3. ContentOf(m) \in Seq(Symbols)
  BY <1>1, FlattenType DEF ContentOf
<1>4. BodyOf(m) \in Seq(Symbols)
  BY <1>2, <1>3, ChunkedType DEF BodyOf
<1>5. "Chunked" \in Options /\ "h" \in Options /\ Lengths \subseteq Options /\ Options \subseteq Symbols
  BY SymbolsAssumption DEF Options
<1>6. "Chunked" \notin Lengths /\ "h" \notin Lengths
  BY DEF Lengths, LengthOf
<1>7. CASE m.sends = "length"
  <2>1. PICK n \in 0 .. 4 : n = Len(ContentOf(m))
    BY <1>1, <1>7 DEF ContentOf
  <2>2. HeaderOf(m) = Symbol(n, Lengths, LAMBDA s : LengthOf[s])
    BY <1>7, <2>1 DEF HeaderOf
  <2>3. HeaderOf(m) \in Lengths /\ LengthOf[HeaderOf(m)] = Len(ContentOf(m))
    BY <2>1, <2>2, LengthSymbol
  <2> QED
    BY <1>1, <1>2, <1>3, <1>4, <1>5, <1>6, <1>7, <2>3
<1>8. CASE m.sends = "chunks"
  BY <1>1, <1>2, <1>3, <1>4, <1>5, <1>6, <1>8 DEF HeaderOf
<1>9. CASE m.sends = "close"
  BY <1>1, <1>2, <1>3, <1>4, <1>5, <1>6, <1>9 DEF HeaderOf
<1> QED
  BY <1>1, <1>7, <1>8, <1>9

\* A response is its status, one option, an empty line and its body.
LEMMA ResponseEncoded ==
    ASSUME NEW m \in Messages, m.proto = "response"
    PROVE  /\ Lines(<<HeaderOf(m)>>) \o (CRLF \o BodyOf(m)) \in Seq(Symbols)
           /\ Encode(m) = (<<m.status>> \o CRLF) \o (Lines(<<HeaderOf(m)>>) \o (CRLF \o BodyOf(m)))
<1>1. /\ m.status \in Symbols /\ m.sends \in {"length", "chunks", "close"} /\ m.chunks \in Seq(SmallChunks)
      /\ BodyOf(m) \in Seq(Symbols) /\ HeaderOf(m) \in Symbols
  BY ResponseParts
<1>2. PICK c \in Seq(Symbols) : c = BodyOf(m)
  BY <1>1
<1>3. PICK l \in Seq(Symbols) : l = Lines(<<HeaderOf(m)>>)
  <2>1. <<HeaderOf(m)>> \in Seq(Symbols)
    BY <1>1
  <2> QED
    BY <2>1, LinesType
<1>4. PICK d \in Seq(Symbols) : d = CRLF
  BY CRLFType
<1>5. PICK a \in Seq(Symbols) : a = <<m.status>> \o d
  BY <1>1, ConsAt
<1>6. Encode(m) = ((a \o l) \o d) \o c
  <2>1. Encode(m) = EncodeResponse(m)
    BY DEF Encode
  <2>2. (CASE m.sends = "length" ->
                <<Symbol(Len(FlattenSeq(m.chunks)), Lengths, LAMBDA s : LengthOf[s])>>
           [] m.sends = "chunks" -> <<"Chunked">>
           [] m.sends = "close" -> <<"h">>) = <<HeaderOf(m)>>
    BY <1>1 DEF HeaderOf, ContentOf
  <2>3. (IF m.sends = "chunks" THEN EncodeChunks(m.chunks) ELSE FlattenSeq(m.chunks)) = c
    BY <1>1, <1>2, ChunksEncoded DEF BodyOf, ContentOf
  <2> QED
    BY <1>3, <1>4, <1>5, <2>1, <2>2, <2>3, Zenon DEF EncodeResponse
<1>7. Split3(Symbols, a, l, d \o c) /\ Split3(Symbols, a \o l, d, c) /\ Split3(Symbols, a, l, d)
      /\ Split3(Symbols, l, d, c)
  BY AlwaysSplit3
<1>8. a \o l \in Seq(Symbols) /\ d \o c \in Seq(Symbols) /\ l \o (d \o c) \in Seq(Symbols)
  BY <1>7, Zenon DEF Split3
<1>9. ((a \o l) \o d) \o c = (a \o l) \o (d \o c) /\ (a \o l) \o (d \o c) = a \o (l \o (d \o c))
  BY <1>7, <1>8, Zenon DEF Split3
<1> QED
  BY <1>2, <1>3, <1>4, <1>5, <1>6, <1>8, <1>9

\* Where the client is in the content, and what it has decoded there.
Chunkwise(chunks, content, mode, max, left) ==
    \E done, todo \in Seq(SmallChunks) :
        /\ content = FlattenSeq(done)
        /\ \/ mode = "chunkSize" /\ chunks = done \o todo /\ left = Chunked(todo)
           \/ /\ mode = "chunkData"
              /\ \E a \in SmallChunks :
                    /\ chunks = done \o (<<a>> \o todo)
                    /\ max = Len(a) /\ left = a \o (CRLF \o Chunked(todo))
           \/ mode = "chunkCRLF" /\ chunks = done \o todo /\ max = 2 /\ left = CRLF \o Chunked(todo)

ContentAt ==
    \/ /\ msg.sends = "length" /\ proc = "length"
       /\ got.content \o Left = ContentOf(msg)
       /\ sub.max + Len(got.content) = Len(ContentOf(msg))
    \/ /\ msg.sends = "close" /\ proc = "close"
       /\ got.content \o Left = ContentOf(msg)
    \/ /\ msg.sends = "chunks"
       /\ Chunkwise(msg.chunks, got.content, proc, sub.max, Left)
       /\ proc = "chunkSize" => AtLine

\* Where it is in the response.
ResponseAt ==
    \/ /\ cur = "status" /\ AtLine
       /\ got.options = << >> /\ got.content = << >> /\ Left = Encode(msg)
    \/ /\ cur = "headers" /\ AtLine /\ got.content = << >>
       /\ HeadersAt(<<HeaderOf(msg)>>, BodyOf(msg), got.options, Left)
    \/ cur = "content" /\ ContentAt

ResponseRead ==
    msg.proto = "response" =>
        IF result = "reading" /\ cur # "none" THEN ResponseAt ELSE ResponseUnderstood

\* The parts of a sequence are a beginning and the whole.
LEMMA BeginsAndIs ==
    ASSUME NEW S, NEW a \in Seq(S), NEW b \in Seq(S)
    PROVE  IsPrefix(a, a \o b) /\ IsPrefix(a, a) /\ IsPrefix(<< >>, a)
<1>1. a \o << >> = a /\ << >> \o a = a /\ << >> \in Seq(S)
  BY ConcatEmptySeq
<1>2. IsPrefix(a, a \o b) /\ IsPrefix(a, a \o << >>) /\ IsPrefix(<< >>, << >> \o a)
  BY <1>1, StartIs
<1> QED
  BY <1>1, <1>2

\* At each of these places it has decoded a beginning of the content.
LEMMA ResponseAtMeans ==
    ASSUME StreamOK, CurOK, GotOK, msg.proto = "response", ResponseAt
    PROVE  IsPrefix(got.content, ContentOf(msg))
<1>1. /\ msg.chunks \in Seq(SmallChunks) /\ msg.chunks \in Seq(Seq(Symbols)) /\ ContentOf(msg) \in Seq(Symbols)
  BY ResponseParts DEF StreamOK
<1>2. got.content \in Seq(Symbols) /\ Left \in Seq(Symbols)
  BY LeftType DEF GotOK, GotType
<1>3. CASE got.content = << >>
  BY <1>1, <1>3, BeginsAndIs
<1>4. CASE got.content \o Left = ContentOf(msg)
  <2>1. IsPrefix(got.content, got.content \o Left)
    BY <1>2, BeginsAndIs
  <2> QED
    BY <1>4, <2>1
<1>5. CASE Chunkwise(msg.chunks, got.content, proc, sub.max, Left)
  <2>1. PICK done, todo \in Seq(SmallChunks) : got.content = FlattenSeq(done) /\ msg.chunks = done \o todo
    <3>1. ASSUME NEW a \in SmallChunks, NEW t \in Seq(SmallChunks) PROVE <<a>> \o t \in Seq(SmallChunks)
      BY ConsAt
    <3> QED
      BY <1>5, <3>1 DEF Chunkwise
  <2>2. SmallChunks \subseteq Seq(Symbols)
    BY DEF SmallChunks
  <2>3. done \in Seq(Seq(Symbols)) /\ todo \in Seq(Seq(Symbols))
    BY <2>2
  <2>4. ContentOf(msg) = FlattenSeq(done) \o FlattenSeq(todo)
    BY <2>1, <2>3, FlattenConcat DEF ContentOf
  <2>5. FlattenSeq(done) \in Seq(Symbols) /\ FlattenSeq(todo) \in Seq(Symbols)
    BY <2>3, FlattenType
  <2>6. IsPrefix(FlattenSeq(done), FlattenSeq(done) \o FlattenSeq(todo))
    BY <2>5, BeginsAndIs
  <2> QED
    BY <2>1, <2>4, <2>6
<1> QED
  BY <1>3, <1>4, <1>5 DEF ResponseAt, ContentAt

\* A subparser by size hands over that many bytes.
LEMMA ReadsSize ==
    ASSUME StreamOK, CurOK, NEW r \in Parsed("content"), msg.proto \notin Forms, sub.mode = "size",
           NEW x \in Seq(Symbols), NEW y \in Seq(Symbols), Left = x \o y, sub.max = Len(x)
    PROVE  r.piece = x /\ Rest(r) = y /\ r.sub.buf = Empty
<1>1. /\ r \in Outcomes(cur) /\ r.ok = TRUE /\ SubParserOK(r.sub, Symbols) /\ r.sub.mode = "size"
      /\ r.piece \in Seq(Symbols) /\ r.sub.buf = Empty /\ r.parses
  BY ParsedKept DEF Parsed
<1>2. Cuts(sub, pending, r)
  BY <1>1, CallCuts
<1>3. r.parses = TRUE
  <2>1. Kept(sub, pending, r, Symbols)
    BY <1>1, OutcomeKept
  <2> QED
    BY <1>1, <2>1 DEF Kept, Promised
<1>4. Len(r.piece) = Len(x)
  BY <1>1, <1>2, <1>3 DEF Cuts, CutBySize
<1>5. r.sub.found = << >>
  BY <1>1 DEF SubParserOK
<1>6. Handed(r) = r.piece
  <2>1. r.piece \o << >> = r.piece
    BY <1>1, ConcatEmptySeq
  <2> QED
    BY <1>5, <2>1 DEF Handed
<1>7. Rest(r) \in Seq(Symbols) /\ Left = r.piece \o Rest(r)
  <2>1. Rest(r) \in Seq(Symbols) /\ Left = Handed(r) \o Rest(r)
    BY <1>1, LeftDivided
  <2> QED
    BY <1>6, <2>1
<1>8. SameCut(Symbols, r.piece, Rest(r), x, y)
  BY AlwaysSameCut
<1>9. r.piece = x /\ Rest(r) = y
  BY <1>1, <1>4, <1>7, <1>8, Zenon DEF SameCut
<1> QED
  BY <1>1, <1>9

\* When a call of a client has failed, a beginning of the content has been decoded.
LEMMA ResponseFailed ==
    ASSUME StreamOK, CurOK, GotOK, msg.proto = "response", ResponseAt, cur # "none",
           msg' = msg, got' = got, cur' = cur, result' # "reading"
    PROVE  ResponseRead'
<1>1. IsPrefix(got.content, ContentOf(msg))
  BY ResponseAtMeans
<1>2. ResponseUnderstood'
  BY <1>1 DEF ResponseUnderstood, ContentOf
<1> QED
  BY <1>2 DEF ResponseRead

\* The status line.
LEMMA StatusRead ==
    ASSUME IInv, ResponseRead, ParseStatus
    PROVE  ResponseRead'
<1> SUFFICES ASSUME msg'.proto = "response" PROVE ResponseRead'
  BY DEF ResponseRead
<1>1. StreamOK /\ CurOK /\ GotOK
  BY DEF IInv
<1>2. PICK r \in Parsed("status") :
        /\ sub' = LineParser /\ Log(r) /\ got' = got
        /\ \/ cur' = "headers" /\ Goes(r)
           \/ Fails("badData") /\ cur' = cur
  BY DEF ParseStatus
<1>3. msg' = msg /\ msg.proto = "response" /\ msg.proto \notin Forms /\ msg \in Messages
  BY <1>1, <1>2 DEF Log, Forms, StreamOK
<1>4. r \in Outcomes(cur) /\ cur = "status" /\ result = "reading" /\ sub.mode = "delimiter"
  BY <1>1, <1>3, ByDelimiterParsed, CallHasBytes DEF ByDelimiter
<1>5. ResponseAt
  BY <1>3, <1>4 DEF ResponseRead
<1>6. AtLine /\ got.options = << >> /\ got.content = << >> /\ Left = Encode(msg)
  BY <1>4, <1>5 DEF ResponseAt
<1>7. CASE Fails("badData") /\ cur' = cur
  <2>1. result' = "failed"
    BY <1>3, <1>4, <1>7, ReadingOrNot
  <2> QED
    BY <1>1, <1>2, <1>3, <1>4, <1>5, <1>7, <2>1, ResponseFailed
<1>8. CASE cur' = "headers" /\ Goes(r)
  <2>1. PICK w \in Symbols, y \in Seq(Symbols) :
          /\ y = Lines(<<HeaderOf(msg)>>) \o (CRLF \o BodyOf(msg))
          /\ Left = (<<w>> \o CRLF) \o y
    BY <1>3, <1>6, ResponseParts, ResponseEncoded
  <2>2. Rest(r) = y /\ r.sub.buf = Empty
    BY <1>1, <1>3, <1>4, <1>6, <2>1, ReadsLine DEF ByDelimiter
  <2>3. sub'.buf = r.sub.buf
    BY <1>2, <2>2, ParsersOK
  <2>4. Left' = y /\ AtLine'
    BY <1>2, <1>8, <2>2, <2>3, LeftGoes, LineParserIs DEF AtLine
  <2>5. HeadersAt(<<HeaderOf(msg)>>, BodyOf(msg), << >>, y)
    <3>1. <<HeaderOf(msg)>> \in Seq(Symbols)
      BY <1>3, ResponseParts
    <3> QED
      BY <2>1, <3>1, HeadersBegin
  <2>6. ResponseAt'
    BY <1>2, <1>3, <1>6, <1>8, <2>4, <2>5 DEF ResponseAt
  <2>7. result' = "reading" /\ cur' # "none"
    BY <1>3, <1>4, <1>8, ReadingOrNot
  <2> QED
    BY <2>6, <2>7 DEF ResponseRead
<1> QED
  BY <1>2, <1>7, <1>8

\* The one option that has been read, and what it makes of the content.
LEMMA HeaderMeans ==
    ASSUME NEW a \in Symbols, a \in Options, MaxOptions > 0
    PROVE  /\ KeptOptions(<<a>>) = <<a>> /\ ToSet(<<a>>) = {a}
           /\ a \in Lengths => ContentLength(<<a>>) = LengthOf[a]
<1>1. << >> \in Seq(Symbols) /\ Append(<< >>, a) = <<a>> /\ << >> \o <<a>> = <<a>>
  OBVIOUS
<1>2. KeptOptions(<<a>>) = parseOptionValue(<< >>, <<a>>)
  BY <1>1, KeptLast, KeptEmpty
<1>3. KeptOptions(<<a>>) = <<a>>
  <2>1. Len(<<a>>) = 1 /\ <<a>>[1] = a /\ Len(<< >>) = 0
    OBVIOUS
  <2> QED
    BY <1>1, <1>2, <2>1 DEF parseOptionValue
<1>4. ToSet(<<a>>) = {a}
  BY DEF ToSet
<1>5. a \in Lengths => ContentLength(<<a>>) = LengthOf[a]
  BY <1>1, LengthLast, NoOptions
<1> QED
  BY <1>3, <1>4, <1>5

\* The headers.
LEMMA ServerHeadersRead ==
    ASSUME IInv, MaxOptions > 0, ResponseRead, ParseServerHeaders
    PROVE  ResponseRead'
<1>1. StreamOK /\ CurOK /\ GotOK /\ msg.proto = "response"
  BY DEF IInv, ParseServerHeaders
<1> DEFINE options == ToSet(got.options)
           length == ContentLength(got.options)
           mode == IF options \cap Lengths # {} THEN "length"
                   ELSE IF "Chunked" \in options THEN "chunkSize" ELSE "close"
<1>2. PICK r \in Parsed("headers") :
        /\ Log(r)
        /\ \/ AddOption(r)
           \/ /\ r.piece = << >> /\ proc' = mode
              /\ sub' = ContentParser(mode, IF mode = "length" THEN length ELSE MaxPost)
              /\ cur' = IF mode = "length" /\ length \notin 1 .. MaxPost THEN "none" ELSE "content"
              /\ Goes(r) /\ got' = got
  BY DEF ParseServerHeaders
<1>3. msg' = msg /\ msg.proto \notin Forms /\ msg \in Messages
  BY <1>1, <1>2 DEF Log, Forms, StreamOK
<1>4. r \in Outcomes(cur) /\ cur = "headers" /\ result = "reading"
  BY <1>1, <1>3, ByDelimiterParsed, CallHasBytes DEF ByDelimiter
<1>5. AtLine /\ got.content = << >> /\ HeadersAt(<<HeaderOf(msg)>>, BodyOf(msg), got.options, Left)
  <2>1. ResponseAt
    BY <1>1, <1>4 DEF ResponseRead
  <2> QED
    BY <1>4, <2>1 DEF ResponseAt
<1>6. PICK a \in Symbols, body \in Seq(Symbols), content \in Seq(Symbols) :
        a = HeaderOf(msg) /\ body = BodyOf(msg) /\ content = ContentOf(msg) /\ a \in Options
  BY <1>1, <1>3, ResponseParts
<1>7. <<a>> \in Seq(Symbols) /\ Len(<<a>>) = 1
  OBVIOUS
<1>9. CASE AddOption(r)
  <2>1. HeadersAt(<<a>>, body, got'.options, Left') /\ AtLine' /\ got'.content = got.content
    BY <1>2, <1>3, <1>5, <1>6, <1>7, <1>9, OptionAdded
  <2>2. cur' = cur /\ Goes(r)
    BY <1>9 DEF AddOption
  <2>3. ResponseAt'
    BY <1>3, <1>4, <1>5, <1>6, <2>1, <2>2 DEF ResponseAt
  <2>4. result' = "reading"
    BY <1>3, <1>4, <2>2, ReadingOrNot
  <2> QED
    BY <1>4, <2>2, <2>3, <2>4 DEF ResponseRead
<1>10. CASE /\ r.piece = << >> /\ proc' = mode
            /\ sub' = ContentParser(mode, IF mode = "length" THEN length ELSE MaxPost)
            /\ cur' = IF mode = "length" /\ length \notin 1 .. MaxPost THEN "none" ELSE "content"
            /\ Goes(r) /\ got' = got
  <2>1. Rest(r) = body /\ got.options = KeptOptions(<<a>>) /\ r.sub.buf = Empty
    <3>1. /\ r.sub.buf = Empty
          /\ \/ r.piece = << >> /\ Rest(r) = body /\ got.options = KeptOptions(<<a>>)
             \/ \E x \in Symbols : r.piece = <<x>>
      BY <1>1, <1>3, <1>5, <1>6, <1>7, HeadersStep
    <3>2. ASSUME NEW x PROVE <<x>> # << >>
      OBVIOUS
    <3> QED
      BY <1>10, <3>1, <3>2
  <2>2. options = {a} /\ (a \in Lengths => length = LengthOf[a])
    BY <1>6, <2>1, HeaderMeans
  <2>3. result' = "reading"
    BY <1>3, <1>4, <1>10, ReadingOrNot
  <2>4. MaxPost \in Nat /\ Len(content) \in Nat
    BY StreamParserAssumption, LenProperties
  <2>5. << >> \o body = body
    BY ConcatEmptySeq
  <2> HIDE DEF options, length
  <2>6. CASE msg.sends = "length"
    <3>1. a \in Lengths /\ LengthOf[a] = Len(content) /\ body = content
      BY <1>1, <1>3, <1>6, <2>6, ResponseParts DEF BodyOf
    <3>2. mode = "length" /\ length = Len(content)
      BY <2>2, <3>1
    <3> HIDE DEF mode
    <3>3. CASE cur' = "none"
      <4>1. length \notin 1 .. MaxPost
        BY <1>10, <3>2, <3>3
      <4>2. Len(content) <= MaxPost => Len(content) = 0
        BY <2>4, <3>2, <4>1
      <4>3. Len(content) <= MaxPost => content = << >>
        BY <4>2, EmptySeq
      <4>4. IsPrefix(<< >>, content)
        BY BeginsAndIs
      <4>5. ResponseUnderstood'
        BY <1>3, <1>5, <1>6, <1>10, <4>3, <4>4 DEF ResponseUnderstood, ContentOf
      <4> QED
        BY <3>3, <4>5 DEF ResponseRead
    <3>4. CASE cur' # "none"
      <4>1. sub' = ContentParser("length", length) /\ cur' = "content" /\ proc' = "length"
        BY <1>10, <3>2, <3>4
      <4>2. sub'.buf = Empty /\ sub'.max = Len(content)
        BY <3>2, <4>1 DEF ContentParser, NewSubParser
      <4>3. Left' = body
        BY <1>2, <1>10, <2>1, <4>2, LeftGoes
      <4>4. got'.content \o Left' = content
        BY <1>5, <1>10, <2>5, <3>1, <4>3
      <4>5. sub'.max + Len(got'.content) = Len(content)
        <5>1. Len(got'.content) = 0
          BY <1>5, <1>10
        <5> QED
          BY <2>4, <4>2, <5>1
      <4>6. ResponseAt'
        BY <1>3, <1>6, <2>6, <4>1, <4>4, <4>5 DEF ResponseAt, ContentAt
      <4> QED
        BY <2>3, <3>4, <4>6 DEF ResponseRead
    <3> QED
      BY <3>3, <3>4
  <2>7. CASE msg.sends = "chunks"
    <3>1. a \notin Lengths /\ a = "Chunked" /\ body = Chunked(msg.chunks) /\ msg.chunks \in Seq(SmallChunks)
      BY <1>1, <1>3, <1>6, <2>7, ResponseParts DEF BodyOf
    <3>2. mode = "chunkSize"
      BY <2>2, <3>1
    <3> HIDE DEF mode
    <3>3. cur' = "content" /\ proc' = "chunkSize" /\ sub' = LineParser
      BY <1>10, <2>4, <3>2, ContentParserOK
    <3>4. Left' = body /\ AtLine'
      BY <1>2, <1>10, <2>1, <3>3, LeftGoes, ParsersOK, LineParserIs DEF AtLine
    <3>5. Chunkwise(msg.chunks, << >>, "chunkSize", sub'.max, body)
      <4>1. << >> \in Seq(SmallChunks) /\ << >> \o msg.chunks = msg.chunks
        BY <3>1, ConcatEmptySeq
      <4> QED
        BY <3>1, <4>1, FlattenEmpty DEF Chunkwise
    <3>6. ResponseAt'
      BY <1>3, <1>5, <1>10, <2>7, <3>3, <3>4, <3>5 DEF ResponseAt, ContentAt
    <3> QED
      BY <2>3, <3>3, <3>6 DEF ResponseRead
  <2>8. CASE msg.sends = "close"
    <3>1. a \notin Lengths /\ a # "Chunked" /\ body = content
      BY <1>1, <1>3, <1>6, <2>8, ResponseParts DEF BodyOf
    <3>2. mode = "close"
      BY <2>2, <3>1
    <3> HIDE DEF mode
    <3>3. cur' = "content" /\ proc' = "close" /\ sub'.buf = Empty
      BY <1>10, <2>4, <3>2, ContentParserOK
    <3>4. Left' = body
      BY <1>2, <1>10, <2>1, <3>3, LeftGoes
    <3>5. got'.content \o Left' = content
      BY <1>5, <1>10, <2>5, <3>1, <3>4
    <3>6. ResponseAt'
      BY <1>3, <1>6, <2>8, <3>3, <3>5 DEF ResponseAt, ContentAt
    <3> QED
      BY <2>3, <3>3, <3>6 DEF ResponseRead
  <2> QED
    BY <1>1, <1>3, <2>6, <2>7, <2>8, ResponseParts
<1> QED
  BY <1>2, <1>9, <1>10

\* Content of a length, and content up to the end of the connection.
LEMMA PlainContentRead ==
    ASSUME IInv, ResponseRead, ParseContentLength \/ ParseConnectionClose
    PROVE  ResponseRead'
<1> SUFFICES ASSUME msg'.proto = "response" PROVE ResponseRead'
  BY DEF ResponseRead
<1>1. StreamOK /\ CurOK /\ GotOK /\ proc \in {"length", "close"}
  BY DEF IInv, ParseContentLength, ParseConnectionClose
<1>2. PICK r \in Parsed("content") :
        /\ Log(r) /\ got' = [got EXCEPT !.content = @ \o r.piece]
        /\ Goes(r) \/ msg.proto = "request"
        /\ msg' = msg
        /\ \/ (proc = "length" => r.left > 0) /\ proc' = proc /\ sub' = r.sub /\ cur' = cur
           \/ proc = "length" /\ r.left = 0 /\ cur' = "none"
  BY DEF ParseContentLength, ParseConnectionClose, ContentGoesOn, AppendContent, RequestEnds, ResponseEnds, Answer, Log
<1>3. msg.proto = "response" /\ msg.proto \notin Forms /\ msg \in Messages
      /\ Log(r) /\ got' = [got EXCEPT !.content = @ \o r.piece] /\ Goes(r)
  BY <1>1, <1>2 DEF Forms, StreamOK
<1>4. r \in Outcomes(cur) /\ cur = "content" /\ result = "reading" /\ sub.mode = "direct"
  BY <1>1, <1>3, ParsedKept, CallHasBytes DEF CurOK
<1>5. result' = "reading"
  BY <1>3, <1>4, ReadingOrNot
<1>6. /\ got.content \o Left = ContentOf(msg)
      /\ proc = "length" => msg.sends = "length" /\ sub.max + Len(got.content) = Len(ContentOf(msg))
      /\ proc = "close" => msg.sends = "close"
  <2>1. ContentAt
    BY <1>3, <1>4 DEF ResponseRead, ResponseAt
  <2> QED
    BY <1>1, <2>1 DEF ContentAt, Chunkwise
<1>7. PICK c \in Seq(Symbols), content \in Seq(Symbols) : c = got.content /\ content = ContentOf(msg)
  BY <1>1, <1>3, ResponseParts DEF GotOK, GotType
<1>8. PICK e \in Seq(Symbols) : e = c \o r.piece /\ e \o Rest(r) = c \o Left /\ Len(e) = Len(c) + Len(r.piece)
  <2>1. /\ c \o r.piece \in Seq(Symbols) /\ (c \o r.piece) \o Rest(r) = c \o Left
        /\ Len(c \o r.piece) = Len(c) + Len(r.piece)
    BY <1>1, <1>3, <1>4, ReadsDirect
  <2> QED
    BY <2>1, Zenon
<1>9. /\ Rest(r) \in Seq(Symbols) /\ Len(c) \in Nat /\ Len(r.piece) \in Nat
      /\ r.left = sub.max - Len(r.piece) /\ r.sub.max = r.left /\ r.left \in Nat /\ sub.max \in Nat
  BY <1>1, <1>3, <1>4, <1>7, ReadsDirect
<1>10. got'.content = e /\ e \o Rest(r) = content
  BY <1>1, <1>3, <1>6, <1>7, <1>8 DEF GotOK, GotType
<1>11. proc = "length" => r.left + Len(e) = Len(content)
  <2>1. proc = "length" => sub.max + Len(c) = Len(content)
    BY <1>6, <1>7
  <2>2. ASSUME NEW a \in Nat, NEW b \in Nat, NEW n \in Nat PROVE (n - b) + (a + b) = n + a
    OBVIOUS
  <2>3. r.left + Len(e) = (sub.max - Len(r.piece)) + (Len(c) + Len(r.piece))
    BY <1>8, <1>9
  <2>4. r.left + Len(e) = sub.max + Len(c)
    BY <1>9, <2>2, <2>3
  <2> QED
    BY <2>1, <2>4
<1>12. CASE proc' = proc /\ sub' = r.sub /\ cur' = cur
  <2>1. Left' = Rest(r)
    BY <1>3, <1>12, LeftGoes
  <2>2. got'.content \o Left' = ContentOf(msg')
    BY <1>2, <1>7, <1>10, <2>1
  <2>3. proc = "length" => sub'.max + Len(got'.content) = Len(ContentOf(msg'))
    BY <1>2, <1>7, <1>9, <1>10, <1>11, <1>12
  <2>4. ContentAt'
    BY <1>1, <1>2, <1>6, <1>12, <2>2, <2>3 DEF ContentAt
  <2> QED
    BY <1>4, <1>5, <1>12, <2>4 DEF ResponseRead, ResponseAt
<1>13. CASE proc = "length" /\ r.left = 0 /\ cur' = "none"
  <2>1. Len(e) = Len(content) /\ Len(e) \in Nat
    <3>1. Len(e) \in Nat
      BY LenProperties
    <3> QED
      BY <1>11, <1>13, <3>1
  <2>2. content \o << >> = content /\ << >> \in Seq(Symbols)
    BY ConcatEmptySeq
  <2>3. SameCut(Symbols, e, Rest(r), content, << >>)
    BY AlwaysSameCut
  <2>4. e = content
    <3>1. e \o Rest(r) = content \o << >>
      BY <1>10, <2>2
    <3> QED
      BY <1>9, <2>1, <2>2, <2>3, <3>1, Zenon DEF SameCut
  <2>5. IsPrefix(content, content)
    BY BeginsAndIs
  <2>6. ResponseUnderstood'
    BY <1>2, <1>7, <1>10, <2>4, <2>5 DEF ResponseUnderstood, ContentOf
  <2> QED
    BY <1>13, <2>6 DEF ResponseRead
<1> QED
  BY <1>2, <1>12, <1>13

\* A size, and the chunk is next, or the end.
LEMMA ChunkSizeRead ==
    ASSUME IInv, ResponseRead, ParseChunkSize
    PROVE  ResponseRead'
<1> SUFFICES ASSUME msg'.proto = "response" PROVE ResponseRead'
  BY DEF ResponseRead
<1>1. StreamOK /\ CurOK /\ GotOK /\ proc = "chunkSize"
  BY DEF IInv, ParseChunkSize
<1>2. PICK r \in Parsed("content") :
        /\ Log(r) /\ got' = got
        /\ \/ Fails("badData") /\ cur' = cur
           \/ r.piece = <<"0">> /\ cur' = "none" /\ Goes(r)
           \/ \E d \in Sizes :
                /\ r.piece = <<d>> /\ SizeOf(d) > 0 /\ proc' = "chunkData" /\ sub' = ContentParser("chunkData", SizeOf(d))
                /\ Goes(r) /\ cur' = cur
  <2>1. ASSUME NEW n, n \in 1 .. MaxChunk PROVE n > 0
    BY <2>1, StreamParserAssumption
  <2> QED
    BY <2>1 DEF ParseChunkSize, ContentGoesOn, ResponseEnds
<1>3. msg' = msg /\ msg.proto = "response" /\ msg.proto \notin Forms /\ msg \in Messages
  BY <1>1, <1>2 DEF Log, Forms, StreamOK
<1>4. r \in Outcomes(cur) /\ cur = "content" /\ result = "reading" /\ sub.mode = "delimiter" /\ "content" \in ByDelimiter \cup {"content"}
  BY <1>1, <1>3, ParsedKept, CallHasBytes DEF CurOK
<1>5. ResponseAt
  BY <1>3, <1>4 DEF ResponseRead
<1>6. msg.sends = "chunks" /\ AtLine /\ Chunkwise(msg.chunks, got.content, "chunkSize", sub.max, Left)
  BY <1>1, <1>4, <1>5 DEF ResponseAt, ContentAt
<1>7. PICK done, todo \in Seq(SmallChunks) :
        got.content = FlattenSeq(done) /\ msg.chunks = done \o todo /\ Left = Chunked(todo)
  BY <1>6 DEF Chunkwise
<1>8. CASE Fails("badData") /\ cur' = cur
  <2>1. result' = "failed"
    BY <1>3, <1>4, <1>8, ReadingOrNot
  <2> QED
    BY <1>1, <1>2, <1>3, <1>4, <1>5, <1>8, <2>1, ResponseFailed
<1>9. CASE todo = << >>
  <2>1. Left = (<<"0">> \o CRLF) \o CRLF /\ "0" \in Symbols /\ CRLF \in Seq(Symbols)
    BY <1>7, <1>9, ChunkedNone, LastChunkType, CRLFType DEF LastChunk
  <2>2. r.piece = <<"0">>
    BY <1>1, <1>3, <1>4, <1>6, <2>1, ReadsLine
  <2>3. CASE cur' = "none"
    <3>1. done \o << >> = done
      BY ConcatEmptySeq
    <3>2. got.content = ContentOf(msg)
      BY <1>7, <1>9, <3>1 DEF ContentOf
    <3>3. ContentOf(msg) \in Seq(Symbols)
      BY <1>3, ResponseParts
    <3>4. IsPrefix(ContentOf(msg), ContentOf(msg))
      BY <3>3, BeginsAndIs
    <3>5. ResponseUnderstood'
      BY <1>2, <1>3, <3>2, <3>4 DEF ResponseUnderstood, ContentOf
    <3> QED
      BY <2>3, <3>5 DEF ResponseRead
  <2>5. CASE \E d \in Sizes :
                /\ r.piece = <<d>> /\ SizeOf(d) > 0 /\ proc' = "chunkData" /\ sub' = ContentParser("chunkData", SizeOf(d))
                /\ Goes(r) /\ cur' = cur
    <3>1. SizeOf("0") > 0
      BY <2>2, <2>5
    <3> QED
      BY <3>1 DEF SizeOf
  <2> QED
    BY <1>2, <1>8, <2>3, <2>5
<1>10. CASE todo # << >>
  <2>1. PICK a \in SmallChunks, t \in Seq(SmallChunks) : todo = <<a>> \o t
    BY <1>10, HeadTail
  <2>2. PICK y \in Seq(Symbols) : y = a \o (CRLF \o Chunked(t))
    <3>1. PICK x \in Seq(Symbols), d \in Seq(Symbols), k \in Seq(Symbols) : x = a /\ d = CRLF /\ k = Chunked(t)
      BY ChunkSymbolIs, CRLFType, ChunkedType
    <3>2. Split3(Symbols, x, d, k)
      BY AlwaysSplit3
    <3>3. x \o (d \o k) \in Seq(Symbols)
      BY <3>2, Zenon DEF Split3
    <3> QED
      BY <3>1, <3>3
  <2>3. PICK w \in Symbols : w = ChunkSymbol(a) /\ w \in Sizes /\ w # "0" /\ SizeOf(w) = Len(a) /\ Len(a) \in 1 .. 3
    BY ChunkSymbolIs
  <2>4. Left = (<<w>> \o CRLF) \o y
    BY <1>7, <2>1, <2>2, <2>3, ChunkedFirst
  <2>5. r.piece = <<w>> /\ Rest(r) = y /\ r.sub.buf = Empty
    BY <1>1, <1>3, <1>4, <1>6, <2>4, ReadsLine
  <2>6. r.piece # <<"0">>
    BY <2>3, <2>5
  <2>7. CASE \E d \in Sizes :
                /\ r.piece = <<d>> /\ SizeOf(d) > 0 /\ proc' = "chunkData" /\ sub' = ContentParser("chunkData", SizeOf(d))
                /\ Goes(r) /\ cur' = cur
    <3>1. proc' = "chunkData" /\ sub' = ContentParser("chunkData", Len(a)) /\ Goes(r) /\ cur' = cur
      BY <2>3, <2>5, <2>7
    <3>2. sub'.buf = Empty /\ sub'.max = Len(a)
      BY <3>1 DEF ContentParser, NewSubParser
    <3>3. Left' = y
      BY <1>2, <2>5, <3>1, <3>2, LeftGoes
    <3>4. Chunkwise(msg.chunks, got.content, "chunkData", Len(a), y)
      BY <1>7, <2>1, <2>2 DEF Chunkwise
    <3>5. ContentAt'
      BY <1>2, <1>3, <1>6, <3>1, <3>2, <3>3, <3>4 DEF ContentAt
    <3>6. result' = "reading"
      BY <1>3, <1>4, <3>1, ReadingOrNot
    <3> QED
      BY <1>4, <3>1, <3>5, <3>6 DEF ResponseRead, ResponseAt
  <2> QED
    BY <1>2, <1>8, <2>6, <2>7
<1> QED
  BY <1>9, <1>10

\* A chunk's bytes, and the CRLF after them.
LEMMA ChunkDataRead ==
    ASSUME IInv, ResponseRead, ParseChunkData \/ ParseChunkCRLF
    PROVE  ResponseRead'
<1> SUFFICES ASSUME msg'.proto = "response" PROVE ResponseRead'
  BY DEF ResponseRead
<1>1. StreamOK /\ CurOK /\ GotOK
  BY DEF IInv
<1>2. PICK r \in Parsed("content") :
        /\ Log(r) /\ Goes(r) /\ cur' = cur
        /\ \/ /\ proc = "chunkData" /\ got' = [got EXCEPT !.content = @ \o r.piece]
              /\ proc' = "chunkCRLF" /\ sub' = ContentParser("chunkCRLF", 2)
           \/ /\ proc = "chunkCRLF" /\ got' = got
              /\ proc' = "chunkSize" /\ sub' = ContentParser("chunkSize", MaxLine)
  BY DEF ParseChunkData, ParseChunkCRLF, ContentGoesOn, AppendContent
<1>3. msg' = msg /\ msg.proto = "response" /\ msg.proto \notin Forms /\ msg \in Messages
  BY <1>1, <1>2 DEF Log, Forms, StreamOK
<1>4. r \in Outcomes(cur) /\ cur = "content" /\ result = "reading" /\ sub.mode = "size"
  BY <1>1, <1>2, <1>3, ParsedKept, CallHasBytes DEF CurOK
<1>5. result' = "reading"
  BY <1>2, <1>3, <1>4, ReadingOrNot
<1>6. msg.sends = "chunks" /\ Chunkwise(msg.chunks, got.content, proc, sub.max, Left)
  <2>1. ContentAt
    BY <1>3, <1>4 DEF ResponseRead, ResponseAt
  <2> QED
    BY <1>2, <2>1 DEF ContentAt
<1>7. CRLF \in Seq(Symbols) /\ Len(CRLF) = 2
  BY CRLFType
<1>8. CASE proc = "chunkData"
  <2>1. /\ got' = [got EXCEPT !.content = @ \o r.piece]
        /\ proc' = "chunkCRLF" /\ sub' = ContentParser("chunkCRLF", 2)
    BY <1>2, <1>8
  <2>2. PICK done, todo \in Seq(SmallChunks), a \in SmallChunks :
          /\ got.content = FlattenSeq(done) /\ msg.chunks = done \o (<<a>> \o todo)
          /\ sub.max = Len(a) /\ Left = a \o (CRLF \o Chunked(todo))
    BY <1>6, <1>8 DEF Chunkwise
  <2>3. PICK x \in Seq(Symbols), y \in Seq(Symbols) : x = a /\ y = CRLF \o Chunked(todo)
    BY <1>7, ChunkSymbolIs, ChunkedType, ConcatProperties
  <2>4. r.piece = x /\ Rest(r) = y /\ r.sub.buf = Empty
    BY <1>1, <1>3, <1>4, <2>2, <2>3, ReadsSize
  <2>5. sub'.buf = Empty /\ sub'.max = 2
    BY <2>1 DEF ContentParser, NewSubParser
  <2>6. Left' = y
    BY <1>2, <2>4, <2>5, LeftGoes
  <2>7. PICK more \in Seq(SmallChunks) : more = Append(done, a) /\ more = done \o <<a>>
    BY AppendProperties, AppendIsConcat
  <2>8. more \o todo = msg.chunks
    <3>1. Split3(SmallChunks, done, <<a>>, todo) /\ <<a>> \in Seq(SmallChunks)
      BY AlwaysSplit3
    <3>2. (done \o <<a>>) \o todo = done \o (<<a>> \o todo)
      BY <3>1, Zenon DEF Split3
    <3> QED
      BY <2>2, <2>7, <3>2
  <2>9. FlattenSeq(more) = FlattenSeq(done) \o a
    <3>1. SmallChunks \subseteq Seq(Symbols)
      BY DEF SmallChunks
    <3>2. done \in Seq(Seq(Symbols)) /\ a \in Seq(Symbols)
      BY <3>1
    <3> QED
      BY <2>7, <3>2, FlattenAppend
  <2>10. got'.content = FlattenSeq(more)
    BY <1>1, <2>1, <2>2, <2>3, <2>4, <2>9 DEF GotOK, GotType
  <2>11. Chunkwise(msg.chunks, FlattenSeq(more), "chunkCRLF", 2, y)
    BY <2>3, <2>8 DEF Chunkwise
  <2>12. ContentAt'
    BY <1>3, <1>6, <2>1, <2>5, <2>6, <2>10, <2>11 DEF ContentAt
  <2> QED
    BY <1>2, <1>4, <1>5, <2>12 DEF ResponseRead, ResponseAt
<1>9. CASE proc = "chunkCRLF"
  <2>1. got' = got /\ proc' = "chunkSize" /\ sub' = ContentParser("chunkSize", MaxLine)
    BY <1>2, <1>9
  <2>2. PICK done, todo \in Seq(SmallChunks) :
          /\ got.content = FlattenSeq(done) /\ msg.chunks = done \o todo
          /\ sub.max = 2 /\ Left = CRLF \o Chunked(todo)
    BY <1>6, <1>9 DEF Chunkwise
  <2>3. PICK x \in Seq(Symbols), y \in Seq(Symbols) : x = CRLF /\ y = Chunked(todo)
    BY <1>7, ChunkedType
  <2>4. r.piece = x /\ Rest(r) = y /\ r.sub.buf = Empty
    BY <1>1, <1>3, <1>4, <1>7, <2>2, <2>3, ReadsSize
  <2>5. sub' = LineParser
    BY <2>1, ContentParserOK, StreamParserAssumption
  <2>6. Left' = y /\ AtLine'
    BY <1>2, <2>4, <2>5, LeftGoes, ParsersOK, LineParserIs DEF AtLine
  <2>7. Chunkwise(msg.chunks, got.content, "chunkSize", sub'.max, y)
    BY <2>2, <2>3 DEF Chunkwise
  <2>8. ContentAt'
    BY <1>3, <1>6, <2>1, <2>6, <2>7 DEF ContentAt
  <2> QED
    BY <1>2, <1>4, <1>5, <2>8 DEF ResponseRead, ResponseAt
<1> QED
  BY <1>2, <1>8, <1>9

OtherThanResponses ==
    \/ ParseRequestLine \/ ParseClientHeaders \/ ParseURLVar \/ ParseLine
    \/ ParseFirstBoundary \/ ParsePartHeaders \/ ParsePartContent \/ ParseEndPoint

\* A response is read by nothing else.
LEMMA NoOtherClient ==
    ASSUME ResponseRead, msg.proto = "response"
    PROVE  ~OtherThanResponses
<1> SUFFICES ASSUME OtherThanResponses PROVE FALSE
  OBVIOUS
<1>1. result = "reading" /\ cur # "none"
  BY DEF OtherThanResponses, ParseRequestLine, ParseClientHeaders, ParseURLVar, ParseLine,
    ParseFirstBoundary, ParsePartHeaders, ParsePartContent, ParseEndPoint, Parsed, Outcomes
<1>2. ResponseAt
  BY <1>1 DEF ResponseRead
<1>3. cur \in {"status", "headers", "content"}
  BY <1>2 DEF ResponseAt
<1> QED
  BY <1>3 DEF OtherThanResponses, ParseRequestLine, ParseClientHeaders, ParseURLVar, ParseLine,
    ParseFirstBoundary, ParsePartHeaders, ParsePartContent, ParseEndPoint, Parsed, Outcomes

\* Every step keeps the place in a response.
LEMMA ResponseStep ==
    ASSUME IInv, MaxOptions > 0, ResponseRead, [Next]_vars
    PROVE  ResponseRead'
<1> SUFFICES ASSUME msg'.proto = "response" PROVE ResponseRead'
  BY DEF ResponseRead
<1>1. StreamOK /\ CurOK /\ GotOK
  BY DEF IInv
<1>2. CASE Waiting
  <2>1. msg.proto = "response"
    BY <1>2 DEF Waiting, Read, Finish, Disconnect, Buffer, NoRoomLeft, TTLReached, AfterEnd, vars, Log
  <2>2. msg.proto \notin Forms
    BY <2>1 DEF Forms
  <2>3. /\ msg' = msg /\ got' = got /\ answered' = answered /\ cur' = cur /\ proc' = proc
        /\ (result' = "reading" /\ cur' # "none" /\ sub.mode # "directDelimiter") =>
             /\ result = "reading" /\ Left' = Left
             /\ sub'.delims = sub.delims /\ sub'.ended = sub.ended /\ sub'.max = sub.max
    BY <1>2, <2>2, WaitingLeaves
  <2>4. result' = "reading" => result = "reading"
    BY <1>2, <2>2 DEF Waiting, Read, Finish, Disconnect, Buffer, NoRoomLeft, TTLReached, AfterEnd, vars, Outcomes
  <2>5. CASE result = "reading" /\ cur # "none"
    <3>1. ResponseAt
      BY <2>1, <2>5 DEF ResponseRead
    <3>2. CASE result' # "reading"
      BY <1>1, <2>1, <2>3, <2>5, <3>1, <3>2, ResponseFailed
    <3>3. CASE result' = "reading"
      <4>1. sub.mode # "directDelimiter"
        BY <1>1, <3>1 DEF ResponseAt, ContentAt, Chunkwise, CurOK, ByDelimiter
      <4>2. /\ Left' = Left /\ sub'.delims = sub.delims /\ sub'.ended = sub.ended /\ sub'.max = sub.max
        BY <2>3, <2>5, <3>3, <4>1
      <4>3. AtLine => AtLine'
        BY <4>2 DEF AtLine
      <4>4. ContentAt => ContentAt'
        BY <2>3, <4>2, <4>3 DEF ContentAt
      <4>5. ResponseAt'
        BY <2>3, <3>1, <4>2, <4>3, <4>4 DEF ResponseAt
      <4> QED
        BY <2>3, <2>5, <3>3, <4>5 DEF ResponseRead
    <3> QED
      BY <3>2, <3>3
  <2>6. CASE ~(result = "reading" /\ cur # "none")
    <3>1. ResponseUnderstood
      BY <2>1, <2>6 DEF ResponseRead
    <3>2. ResponseUnderstood'
      BY <2>3, <3>1 DEF ResponseUnderstood
    <3> QED
      BY <2>3, <2>4, <2>6, <3>2 DEF ResponseRead
  <2> QED
    BY <2>5, <2>6
<1>3. CASE ParseStatus
  BY <1>3, StatusRead
<1>4. CASE ParseServerHeaders
  BY <1>4, ServerHeadersRead
<1>5. CASE ParseChunkSize
  BY <1>5, ChunkSizeRead
<1>6. CASE ParseChunkData \/ ParseChunkCRLF
  BY <1>6, ChunkDataRead
<1>7. CASE ParseContentLength \/ ParseConnectionClose
  BY <1>7, PlainContentRead
<1>8. CASE OtherThanResponses
  <2>1. ASSUME NEW r, Log(r) PROVE msg' = msg
    BY <2>1 DEF Log
  <2>2. msg' = msg
    BY <1>8, <2>1 DEF OtherThanResponses, ParseRequestLine, ParseClientHeaders, ParseURLVar, ParseLine,
      ParseFirstBoundary, ParsePartHeaders, ParsePartContent, ParseEndPoint
  <2> QED
    BY <1>8, <2>2, NoOtherClient
<1> QED
  BY <1>2, <1>3, <1>4, <1>5, <1>6, <1>7, <1>8 DEF Next, Waiting, OtherThanResponses

\* A response begins where it is encoded.
LEMMA ResponseBegins == Init => ResponseRead
<1> SUFFICES ASSUME Init, msg.proto = "response" PROVE ResponseRead
  BY DEF ResponseRead
<1>1. /\ msg \in Messages /\ wire = Encode(msg) /\ pending = << >>
      /\ cur = FirstParser(msg)[1] /\ sub = FirstParser(msg)[2]
      /\ got = [line |-> << >>, options |-> << >>, content |-> << >>, name |-> << >>, items |-> << >>]
      /\ result = "reading"
  BY DEF Init
<1>2. cur = "status" /\ sub = LineParser
  BY <1>1 DEF FirstParser
<1>3. AtLine /\ Bytes(sub.buf) = << >>
  BY <1>2, LineParserIs, ParsersOK, BytesEmpty DEF AtLine
<1>4. Left = Encode(msg)
  <2>1. PICK e \in Seq(Symbols) : e = Encode(msg)
    BY <1>1, EncodeType
  <2>2. << >> \o << >> = << >> /\ << >> \o e = e
    BY ConcatEmptySeq
  <2> QED
    BY <1>1, <1>3, <2>1, <2>2 DEF Left
<1>5. ResponseAt
  BY <1>1, <1>2, <1>3, <1>4 DEF ResponseAt
<1> QED
  BY <1>1, <1>2, <1>5 DEF ResponseRead

\* HTTPv1_Client never shows content that was not sent, wherever the stream is cut into
\* reads, whatever the limits are and however the server sends the content (its length, in
\* chunks, or up to the end of the connection), and when it ends by itself without a failure
\* it has all of it.  A client must keep at least one header option for that: without
\* Transfer-Encoding it would show the framing of the chunks (m_maxOptions is 32).
THEOREM ResponsesUnderstood ==
    ASSUME MaxOptions > 0
    PROVE  Spec => []ResponseUnderstood
<1>1. Init => ResponseRead
  BY ResponseBegins
<1>2. IInv /\ ResponseRead /\ [Next]_vars => ResponseRead'
  BY ResponseStep
<1>3. IInv /\ ResponseRead => ResponseUnderstood
  <2> SUFFICES ASSUME IInv, ResponseRead, msg.proto = "response" PROVE ResponseUnderstood
    BY DEF ResponseUnderstood
  <2>1. StreamOK /\ CurOK /\ GotOK
    BY DEF IInv
  <2>2. CASE result = "reading" /\ cur # "none"
    <3>1. IsPrefix(got.content, ContentOf(msg))
      BY <2>1, <2>2, ResponseAtMeans DEF ResponseRead
    <3> QED
      BY <2>2, <3>1 DEF ResponseUnderstood, ContentOf
  <2> QED
    BY <2>2 DEF ResponseRead
<1> QED
  BY <1>1, <1>2, <1>3, Invariance, PTL DEF Spec

-----------------------------------------------------------------------------
(* Delimiters of one symbol *)

\* The symbol of a delimiter is among the others.
LEMMA Among ==
    ASSUME NEW S, NEW e \in S, NEW x \in Seq(S), NEW y \in Seq(S)
    PROVE  /\ <<e>> \in Seq(S) /\ (x \o <<e>>) \o y \in Seq(S)
           /\ Len(x) \in Nat /\ Len(y) \in Nat
           /\ Len((x \o <<e>>) \o y) = Len(x) + 1 + Len(y)
           /\ ((x \o <<e>>) \o y)[Len(x) + 1] = e
           /\ \A i \in 1..Len(x) : ((x \o <<e>>) \o y)[i] = x[i]
<1>0. <<e>> \in Seq(S) /\ Len(<<e>>) = 1 /\ <<e>>[1] = e
  OBVIOUS
<1>1. PICK d \in Seq(S) : d = <<e>> /\ Len(d) = 1 /\ d[1] = e
  BY <1>0
<1>2. Len(x) \in Nat /\ Len(y) \in Nat
  BY LenProperties
<1>3. PICK u \in Seq(S) : u = x \o d
  BY ConcatProperties
<1>4. Len(u) = Len(x) + 1 /\ u[Len(x) + 1] = e /\ \A i \in 1..Len(x) : u[i] = x[i]
  <2>1. Len(u) = Len(x) + Len(d) /\ \A i \in 1..(Len(x) + Len(d)) : u[i] = IF i <= Len(x) THEN x[i] ELSE d[i - Len(x)]
    BY <1>3, ConcatProperties
  <2> QED
    BY <1>1, <1>2, <2>1
<1>5. /\ u \o y \in Seq(S) /\ Len(u \o y) = Len(u) + Len(y)
      /\ \A i \in 1..(Len(u) + Len(y)) : (u \o y)[i] = IF i <= Len(u) THEN u[i] ELSE y[i - Len(u)]
  BY ConcatProperties
<1>6. PICK w \in Seq(S) : w = u \o y
  BY <1>5
<1>7. /\ Len(w) = Len(x) + 1 + Len(y) /\ w[Len(x) + 1] = e /\ \A i \in 1..Len(x) : w[i] = x[i]
  BY <1>2, <1>4, <1>5, <1>6
<1>8. w = (x \o <<e>>) \o y
  BY <1>1, <1>3, <1>6
<1> QED
  BY <1>1, <1>2, <1>7, <1>8

\* Where a symbol does not occur it is not a delimiter.
LEMMA NotThere ==
    ASSUME NEW S, NEW e \in S, NEW x \in Seq(S), NEW y \in Seq(S)
    PROVE  (x \o <<e>>) \o y \notin Seq(S \ {e})
<1> SUFFICES ASSUME (x \o <<e>>) \o y \in Seq(S \ {e}) PROVE FALSE
  OBVIOUS
<1>1. PICK w \in Seq(S \ {e}) : w = (x \o <<e>>) \o y
  OBVIOUS
<1>2. Len(x) \in Nat /\ Len(y) \in Nat /\ Len(w) = Len(x) + 1 + Len(y) /\ w[Len(x) + 1] = e
  BY <1>1, Among
<1>3. Len(x) + 1 \in 1..Len(w)
  BY <1>2
<1>4. w[Len(x) + 1] \in S \ {e}
  BY <1>3, ElementOfSeq
<1> QED
  BY <1>2, <1>4

\* Such a delimiter occurs where its symbol is.
LEMMA OccursOne ==
    ASSUME NEW S, NEW e \in S, NEW x \in Seq(S), NEW i \in Nat
    PROVE  OccursAt(x, <<e>>, i) <=> (i + 1 \in 1..Len(x) /\ x[i + 1] = e)
<1>0. <<e>> \in Seq(S) /\ Len(<<e>>) = 1 /\ <<e>>[1] = e
  OBVIOUS
<1>1. PICK d \in Seq(S) : d = <<e>> /\ Len(d) = 1 /\ d[1] = e
  BY <1>0
<1>2. Len(x) \in Nat
  BY LenProperties
<1>3. OccursAt(x, <<e>>, i) <=> (i \in 0..(Len(x) - 1) /\ SubSeq(x, i + 1, i + 1) = d)
  BY <1>1 DEF OccursAt
<1>4. i \in 0..(Len(x) - 1) <=> i + 1 \in 1..Len(x)
  BY <1>2
<1>5. ASSUME i + 1 \in 1..Len(x) PROVE SubSeq(x, i + 1, i + 1) = d <=> x[i + 1] = e
  <2>1. PICK u \in Seq(S) : u = SubSeq(x, i + 1, i + 1) /\ Len(u) = 1 /\ u[1] = x[i + 1]
    <3>1. PICK j \in 1..Len(x) : j = i + 1
      BY <1>5
    <3>2. SubSeq(x, j, j) \in Seq(S) /\ Len(SubSeq(x, j, j)) = 1 /\ SubSeq(x, j, j)[1] = x[j]
      <4>1. j \in Nat /\ j >= 1 /\ j <= Len(x)
        BY <1>2
      <4> QED
        BY <1>2, <4>1
    <3> QED
      BY <3>1, <3>2
  <2>2. u = d <=> u[1] = d[1]
    <3>1. \A k \in 1..Len(u) : k = 1
      BY <2>1
    <3>2. u[1] = d[1] => \A k \in 1..Len(u) : u[k] = d[k]
      BY <3>1, Zenon
    <3> QED
      BY <1>1, <2>1, <3>2, SeqEqual
  <2> QED
    BY <1>1, <2>1, <2>2
<1> QED
  BY <1>3, <1>4, <1>5

\* Bytes without the symbol are ended by the first one.
LEMMA EndsWithout ==
    ASSUME NEW S, NEW e \in S, NEW x \in Seq(S \ {e})
    PROVE  Ends(x, <<e>>) /\ x \in Seq(S)
<1>1. x \in Seq(S)
  OBVIOUS
<1> SUFFICES ASSUME NEW i \in Nat, OccursAt(x \o <<e>>, <<e>>, i) PROVE i >= Len(x)
  BY <1>1 DEF Ends
<1>3. PICK w \in Seq(S) : w = x \o <<e>>
  <2>1. <<e>> \in Seq(S)
    OBVIOUS
  <2> QED
    BY <1>1, <2>1, ConcatProperties
<1>4. \A j \in 1..Len(x) : w[j] = x[j]
  <2>1. <<e>> \in Seq(S)
    OBVIOUS
  <2>2. PICK d \in Seq(S) : d = <<e>>
    BY <2>1
  <2>3. Len(x) \in Nat /\ Len(d) \in Nat
    BY <1>1, LenProperties
  <2>4. \A j \in 1..(Len(x) + Len(d)) : (x \o d)[j] = IF j <= Len(x) THEN x[j] ELSE d[j - Len(x)]
    BY <1>1, ConcatProperties
  <2> QED
    BY <1>3, <2>2, <2>3, <2>4
<1>5. i + 1 \in 1..Len(w) /\ w[i + 1] = e
  BY <1>3, OccursOne
<1>6. Len(x) \in Nat
  BY <1>1, LenProperties
<1> SUFFICES ASSUME i < Len(x) PROVE FALSE
  BY <1>6
<1>7. i + 1 \in 1..Len(x)
  BY <1>6
<1>8. x[i + 1] \in S \ {e}
  BY <1>7, ElementOfSeq
<1> QED
  BY <1>4, <1>5, <1>7, <1>8

\* Bytes in which it does not occur are without it.
LEMMA WithoutIt ==
    ASSUME NEW S, NEW e \in S, NEW x \in Seq(S), \A i \in Nat : ~OccursAt(x, <<e>>, i)
    PROVE  x \in Seq(S \ {e})
<1>1. Len(x) \in Nat
  BY LenProperties
<1>2. \A j \in 1..Len(x) : x[j] \in S \ {e}
  <2> TAKE j \in 1..Len(x)
  <2>1. PICK i \in Nat : j = i + 1
    <3>1. j - 1 \in Nat /\ j = (j - 1) + 1
      BY <1>1
    <3> QED
      BY <3>1
  <2>2. x[j] \in S
    BY ElementOfSeq
  <2> QED
    BY <2>1, <2>2, OccursOne
<1>3. x \in [1..Len(x) -> S \ {e}]
  <2>1. x \in [1..Len(x) -> S]
    BY LenProperties
  <2> QED
    BY <1>2, <2>1
<1> QED
  BY <1>1, <1>3, SeqDef

\* What is between occurs there.
LEMMA OccursBetween ==
    ASSUME NEW S, NEW p \in Seq(S), NEW d \in Seq(S), NEW q \in Seq(S)
    PROVE  Len(p) \in Nat /\ OccursAt((p \o d) \o q, d, Len(p))
<1>1. Len(p) \in Nat /\ Len(d) \in Nat /\ Len(q) \in Nat
  BY LenProperties
<1>2. PICK u \in Seq(S) : u = p \o d
  BY ConcatProperties
<1>3. Len(u) = Len(p) + Len(d) /\ \A i \in 1..(Len(p) + Len(d)) : u[i] = IF i <= Len(p) THEN p[i] ELSE d[i - Len(p)]
  BY <1>2, ConcatProperties
<1>4. PICK w \in Seq(S) : w = u \o q
  BY ConcatProperties
<1>5. Len(w) = Len(u) + Len(q) /\ \A i \in 1..(Len(u) + Len(q)) : w[i] = IF i <= Len(u) THEN u[i] ELSE q[i - Len(u)]
  BY <1>4, ConcatProperties
<1>6. Len(p) \in 0..(Len(w) - Len(d))
  BY <1>1, <1>3, <1>5
<1>7. SubSeq(w, Len(p) + 1, Len(p) + Len(d)) = d
  <2>1. PICK v : v = SubSeq(w, Len(p) + 1, Len(p) + Len(d))
    OBVIOUS
  <2>2. PICK a \in Nat, b \in Nat : a = Len(p) + 1 /\ b = Len(p) + Len(d) /\ b <= Len(w) /\ a >= 1
    <3>1. Len(p) + 1 \in Nat /\ Len(p) + Len(d) \in Nat /\ Len(p) + Len(d) <= Len(w) /\ Len(p) + 1 >= 1
      BY <1>1, <1>3, <1>5
    <3> QED
      BY <3>1, Zenon
  <2>3. v \in Seq(S) /\ Len(v) = Len(d) /\ \A i \in 1..Len(d) : v[i] = w[i + Len(p)]
    <3>1. \A i \in a..b : i \in 1..Len(w)
      BY <1>1, <1>3, <1>5, <2>2
    <3>2. v = SubSeq(w, a, b) /\ b + 1 - a = Len(d)
      BY <1>1, <2>1, <2>2
    <3>3. v \in Seq(S)
      BY <1>1, <1>3, <1>5, <2>2, <3>1, <3>2
    <3>4. Len(v) = Len(d) /\ \A i \in 1..Len(d) : v[i] = w[a + i - 1]
      BY <1>1, <2>2, <3>2
    <3>5. \A i \in 1..Len(d) : a + i - 1 = i + Len(p)
      BY <1>1, <2>2
    <3> QED
      BY <3>3, <3>4, <3>5
  <2>4. \A i \in 1..Len(d) : w[i + Len(p)] = d[i]
    <3> TAKE i \in 1..Len(d)
    <3>1. PICK j \in 1..(Len(p) + Len(d)) : j = i + Len(p) /\ ~(j <= Len(p)) /\ j - Len(p) = i
      <4>1. i + Len(p) \in 1..(Len(p) + Len(d)) /\ ~(i + Len(p) <= Len(p)) /\ (i + Len(p)) - Len(p) = i
        BY <1>1
      <4> QED
        BY <4>1, Zenon
    <3>2. w[j] = u[j]
      BY <1>1, <1>3, <1>5, <3>1
    <3>3. u[j] = d[i]
      BY <1>1, <1>3, <3>1
    <3> QED
      BY <3>1, <3>2, <3>3
  <2>5. \A i \in 1..Len(v) : v[i] = d[i]
    BY <2>3, <2>4
  <2> QED
    BY <2>1, <2>3, <2>5, SeqEqual
<1>8. w = (p \o d) \o q
  BY <1>2, <1>4
<1> QED
  BY <1>1, <1>6, <1>7, <1>8 DEF OccursAt

\* The delimiter that ends a piece.
FoundAt(r, k) ==
    /\ r.sub.found = sub.delims[k] /\ Left = (r.piece \o sub.delims[k]) \o Rest(r)
    /\ Ends(r.piece, sub.delims[k]) /\ Len(r.piece) + Len(sub.delims[k]) <= sub.max
    /\ \A j \in 1..(k - 1), i \in Nat : ~OccursAt(r.piece \o sub.delims[k], sub.delims[j], i)

\* With bytes to write a call by delimiter that parses has found one of the delimiters; at
\* the end of the stream there is none in what it hands over, which is all that is left.
LEMMA CallFinds ==
    ASSUME StreamOK, CurOK, NEW p \in ByDelimiter, NEW r \in Parsed(p), sub.ended = FALSE
    PROVE  /\ r.piece \in Seq(Symbols) /\ Rest(r) \in Seq(Symbols) /\ r.sub.buf = Empty
           /\ r.sub.delims = sub.delims /\ r.sub.ended = (pending = << >>)
           /\ pending # << >> => \E k \in 1..Len(sub.delims) : FoundAt(r, k)
           /\ (pending = << >> /\ wire = << >>) =>
                /\ r.piece = Left /\ r.sub.found = << >>
                /\ \A k \in 1..Len(sub.delims), i \in Nat : ~OccursAt(Left, sub.delims[k], i)
<1>1. /\ r \in Outcomes(cur) /\ r.ok = TRUE /\ r.piece \in Seq(Symbols) /\ r.sub.buf = Empty
      /\ sub.mode = "delimiter"
  BY ByDelimiterParsed
<1>2. SubParserOK(sub, Symbols) /\ pending \in Seq(Symbols) /\ sub.delims \in Seq(Seq(Symbols))
  BY DEF CurOK, StreamOK, SubParserOK, SubParsers
<1>3. Cuts(sub, pending, r)
  BY <1>1, <1>2, WriteCuts DEF Outcomes
<1>4. r.sub.delims = sub.delims /\ r.sub.ended = (pending = << >>) /\ CutByDelimiter(sub, r)
  BY <1>1, <1>3 DEF Cuts
<1>5. r.parses = TRUE
  <2>1. Kept(sub, pending, r, Symbols) /\ r.parses
    BY <1>1, OutcomeKept DEF Parsed
  <2>2. r \in writeIntoParser(sub, pending)
    BY <1>1 DEF Outcomes
  <2> QED
    BY <1>1, <2>1 DEF Kept
<1>6. Rest(r) \in Seq(Symbols) /\ Left = (r.piece \o r.sub.found) \o Rest(r)
  BY <1>1, <1>5, LeftDivided DEF Handed
<1>7. \/ r.sub.found = << >> /\ r.sub.ended
      \/ \E k \in 1..Len(sub.delims) : FoundAt(r, k)
  BY <1>4, <1>5, <1>6 DEF CutByDelimiter, FoundAt
<1>8. ASSUME pending = << >>, wire = << >>
      PROVE  /\ r.piece = Left /\ r.sub.found = << >>
             /\ \A k \in 1..Len(sub.delims), i \in Nat : ~OccursAt(Left, sub.delims[k], i)
  <2>1. PICK b \in Seq(Symbols) : b = Bytes(sub.buf)
    BY LeftType
  <2>2. Left = b
    BY <1>8, <2>1, ConcatEmptySeq DEF Left
  <2>3. \A k \in 1..Len(sub.delims), i \in Nat : ~OccursAt(Left, sub.delims[k], i)
    <3> TAKE k \in 1..Len(sub.delims), i \in Nat
    <3>1. find(sub.buf, sub.delims[k]) = NotFound /\ sub.delims[k] \in Seq(Symbols) /\ sub.buf \in Seq(Chunk(Symbols))
      BY <1>1, <1>2, ElementOfSeq DEF SubParserOK, NoneBuffered, SubParsers
    <3> QED
      BY <2>1, <2>2, <3>1, FindIs
  <2>4. r.sub.found = << >>
    <3> SUFFICES ASSUME NEW k \in 1..Len(sub.delims), FoundAt(r, k) PROVE FALSE
      BY <1>7
    <3>1. PICK d \in Seq(Symbols) : d = sub.delims[k]
      BY <1>2, ElementOfSeq
    <3>2. OccursAt((r.piece \o d) \o Rest(r), d, Len(r.piece)) /\ Len(r.piece) \in Nat
      BY <1>1, <1>6, OccursBetween
    <3> QED
      BY <2>3, <3>1, <3>2 DEF FoundAt
  <2>5. Rest(r) = << >>
    <3>1. Bytes(r.sub.buf) = << >>
      BY <1>1, BytesEmpty
    <3>2. After(pending, r.taken) = << >>
      <4>1. r.taken \in 0..Len(pending)
        BY <1>1, OutcomeKept DEF Kept, Promised
      <4>2. Len(pending) = 0
        BY <1>8
      <4>3. r.taken = Len(pending) /\ Len(pending) \in Nat
        BY <4>1, <4>2
      <4> QED
        BY <1>2, <4>3, AfterAll
    <3> QED
      BY <1>8, <3>1, <3>2 DEF Rest
  <2> QED
    BY <1>1, <1>6, <2>3, <2>4, <2>5, ConcatEmptySeq
<1> QED
  BY <1>1, <1>4, <1>6, <1>7, <1>8

-----------------------------------------------------------------------------
(* Lines *)

Line == [value : Seq(Symbols \ {CR, LF})]

TextPieces(ls) == [i \in DOMAIN ls |-> ls[i].value \o <<LF>>]

\* The symbols between the lines.
LEMMA LineEnds == CR \in Symbols /\ LF \in Symbols /\ CR # LF
BY SymbolsAssumption DEF CR, LF

\* A line and its end have no CR in them.
LEMMA TextType ==
    ASSUME NEW v \in Line
    PROVE  /\ v.value \in Seq(Symbols) /\ v.value \in Seq(Symbols \ {LF})
           /\ v.value \o <<LF>> \in Seq(Symbols \ {CR}) /\ v = [value |-> v.value]
<1>1. v.value \in Seq(Symbols \ {CR, LF}) /\ v = [value |-> v.value]
  BY DEF Line
<1>2. v.value \in Seq(Symbols) /\ v.value \in Seq(Symbols \ {LF}) /\ v.value \in Seq(Symbols \ {CR})
  BY <1>1
<1>3. <<LF>> \in Seq(Symbols \ {CR})
  BY LineEnds
<1> QED
  BY <1>1, <1>2, <1>3, ConcatProperties

\* So have all of them.
LEMMA TextPiecesType ==
    ASSUME NEW ls \in Seq(Line)
    PROVE  /\ TextPieces(ls) \in Seq(Seq(Symbols \ {CR})) /\ Len(TextPieces(ls)) = Len(ls)
           /\ \A i \in 1..Len(ls) : TextPieces(ls)[i] = ls[i].value \o <<LF>>
<1>1. Len(ls) \in Nat /\ DOMAIN ls = 1..Len(ls)
  BY LenProperties
<1>2. \A i \in 1..Len(ls) : ls[i].value \o <<LF>> \in Seq(Symbols \ {CR})
  BY ElementOfSeq, TextType
<1>3. TextPieces(ls) \in [1..Len(ls) -> Seq(Symbols \ {CR})]
  BY <1>1, <1>2 DEF TextPieces
<1> QED
  BY <1>1, <1>3, SeqDef DEF TextPieces

\* And their text.
LEMMA TextHasNoCR ==
    ASSUME NEW ls \in Seq(Line)
    PROVE  EncodeLines(ls) \in Seq(Symbols \ {CR}) /\ EncodeLines(ls) \in Seq(Symbols)
<1>1. EncodeLines(ls) \in Seq(Symbols \ {CR})
  BY TextPiecesType, FlattenType DEF EncodeLines, TextPieces
<1> QED
  BY <1>1

\* The first line, then the others.
LEMMA TextFirst ==
    ASSUME NEW a \in Line, NEW t \in Seq(Line)
    PROVE  EncodeLines(<<a>> \o t) = (a.value \o <<LF>>) \o EncodeLines(t)
<1> DEFINE NoCR == Symbols \ {CR}
<1>1. PICK s \in Seq(Line) : s = <<a>> \o t
  BY ConsAt
<1>2. Len(s) = Len(t) + 1 /\ Len(t) \in Nat /\ s[1] = a /\ \A i \in 1..Len(t) : s[i + 1] = t[i]
  BY <1>1, ConsAt
<1>3. PICK ss \in Seq(Seq(NoCR)) : ss = TextPieces(s) /\ Len(ss) = Len(s) /\ \A i \in 1..Len(s) : ss[i] = s[i].value \o <<LF>>
  BY TextPiecesType
<1>4. PICK tt \in Seq(Seq(NoCR)) : tt = TextPieces(t) /\ Len(tt) = Len(t) /\ \A i \in 1..Len(t) : tt[i] = t[i].value \o <<LF>>
  BY TextPiecesType
<1> HIDE DEF NoCR
<1>5. \A i \in 1..Len(tt) : ss[i + 1] = tt[i]
  <2> TAKE i \in 1..Len(tt)
  <2>1. i + 1 \in 1..Len(s) /\ i \in 1..Len(t)
    BY <1>2, <1>4
  <2> QED
    BY <1>2, <1>3, <1>4, <2>1
<1>6. ss[1] = a.value \o <<LF>>
  <2>1. 1 \in 1..Len(s)
    BY <1>2
  <2> QED
    BY <1>2, <1>3, <2>1
<1>7. FlattenSeq(ss) = ss[1] \o FlattenSeq(tt)
  <2>1. Len(ss) = Len(tt) + 1
    BY <1>2, <1>3, <1>4
  <2> QED
    BY <1>5, <2>1, FlattenFirst
<1> QED
  BY <1>1, <1>3, <1>4, <1>6, <1>7 DEF EncodeLines, TextPieces

\* No lines are nothing.
LEMMA NoText == EncodeLines(<< >>) = << >>
<1>1. [i \in DOMAIN << >> |-> (<< >>)[i].value \o <<LF>>] = << >>
  OBVIOUS
<1> QED
  BY <1>1, FlattenEmpty DEF EncodeLines

\* Some of the items have been decoded, the others are left.
LinesAt(items, decoded, left) ==
    \E done, todo \in Seq(Line) : items = done \o todo /\ decoded = done /\ left = EncodeLines(todo)

LinesRead ==
    msg.proto = "line" =>
        IF result = "reading" /\ cur # "none"
        THEN /\ cur = "line" /\ sub.delims = LinesParser.delims /\ sub.ended = FALSE
             /\ LinesAt(msg.items, got.items, Left)
        ELSE IsPrefix(got.items, msg.items)

\* Then they are the first.
LEMMA LinesBefore ==
    ASSUME NEW items, NEW decoded, NEW left, LinesAt(items, decoded, left)
    PROVE  IsPrefix(decoded, items)
<1>1. PICK done, todo \in Seq(Line) : items = done \o todo /\ decoded = done
  BY DEF LinesAt
<1>2. IsPrefix(done, done \o todo)
  BY BeginsAndIs
<1> QED
  BY <1>1, <1>2

\* One more of them.
LEMMA OneMore ==
    ASSUME NEW S, NEW done \in Seq(S), NEW a \in S, NEW t \in Seq(S)
    PROVE  /\ Append(done, a) \in Seq(S) /\ done \o (<<a>> \o t) = Append(done, a) \o t
<1>1. <<a>> \in Seq(S)
  BY ConsAt
<1>2. PICK x \in Seq(S) : x = <<a>>
  BY <1>1
<1>3. Split3(S, done, x, t)
  BY AlwaysSplit3
<1>4. (done \o x) \o t = done \o (x \o t)
  BY <1>3, Zenon DEF Split3
<1>5. Append(done, a) = done \o x /\ Append(done, a) \in Seq(S)
  BY <1>2, AppendIsConcat, AppendProperties
<1> QED
  BY <1>2, <1>4, <1>5

\* LineRecv hands the next line over.
LEMMA LineRead ==
    ASSUME IInv, LinesRead, ParseLine
    PROVE  LinesRead'
<1> SUFFICES ASSUME msg'.proto = "line" PROVE LinesRead'
  BY DEF LinesRead
<1>1. StreamOK /\ CurOK /\ GotOK
  BY DEF IInv
<1>2. PICK r \in Parsed("line") :
        /\ Log(r) /\ got' = [got EXCEPT !.items = Append(got.items, [value |-> r.piece])] /\ sub' = r.sub
        /\ \/ Goes(r) /\ cur' = cur
           \/ cur' = "none" /\ Fails("refused")
  BY DEF ParseLine
<1>3. msg' = msg /\ msg.proto = "line" /\ msg.proto \notin Forms
  BY <1>2 DEF Log, Forms
<1>4. r \in Outcomes("line")
  BY DEF Parsed
<1>5. pending # << >> /\ result = "reading" /\ cur = "line" /\ cur # "none"
  BY <1>3, <1>4, CallHasBytes
<1>6. sub.delims = << <<LF>>, <<CR>> >> /\ sub.ended = FALSE /\ LinesAt(msg.items, got.items, Left)
  BY <1>3, <1>5 DEF LinesRead, LinesParser, NewSubParser
<1>7. PICK done, todo \in Seq(Line) : msg.items = done \o todo /\ got.items = done /\ Left = EncodeLines(todo)
  BY <1>6 DEF LinesAt
<1>8. /\ r.piece \in Seq(Symbols) /\ Rest(r) \in Seq(Symbols) /\ r.sub.buf = Empty
      /\ r.sub.delims = sub.delims /\ r.sub.ended = FALSE
  BY <1>1, <1>5, <1>6, CallFinds DEF ByDelimiter
<1>9. PICK k \in 1..Len(sub.delims) : FoundAt(r, k)
  BY <1>1, <1>5, <1>6, CallFinds DEF ByDelimiter
<1>10. k = 1 /\ sub.delims[1] = <<LF>>
  <2>1. k \in 1..2 /\ sub.delims[1] = <<LF>> /\ sub.delims[2] = <<CR>>
    BY <1>6
  <2>2. k # 2
    <3> SUFFICES ASSUME k = 2 PROVE FALSE
      OBVIOUS
    <3>1. Left = (r.piece \o <<CR>>) \o Rest(r)
      BY <1>9, <2>1 DEF FoundAt
    <3>2. Left \in Seq(Symbols \ {CR})
      BY <1>7, TextHasNoCR
    <3> QED
      BY <1>8, <3>1, <3>2, LineEnds, NotThere
  <2> QED
    BY <2>1, <2>2
<1>11. Left = (r.piece \o <<LF>>) \o Rest(r) /\ Ends(r.piece, <<LF>>)
  BY <1>9, <1>10 DEF FoundAt
<1>12. todo # << >>
  <2> SUFFICES ASSUME todo = << >> PROVE FALSE
    OBVIOUS
  <2>1. Left = << >>
    BY <1>7, NoText
  <2>2. Left \in Seq(Symbols \ {LF})
    BY <2>1
  <2> QED
    BY <1>8, <1>11, <2>2, LineEnds, NotThere
<1>13. PICK a \in Line, t \in Seq(Line) : todo = <<a>> \o t
  BY <1>12, HeadTail
<1>14. r.piece = a.value /\ Rest(r) = EncodeLines(t)
  <2>1. Left = (a.value \o <<LF>>) \o EncodeLines(t)
    BY <1>7, <1>13, TextFirst
  <2>2. a.value \in Seq(Symbols) /\ EncodeLines(t) \in Seq(Symbols) /\ <<LF>> \in Seq(Symbols)
    BY TextType, TextHasNoCR, LineEnds
  <2>3. Ends(a.value, <<LF>>)
    BY TextType, LineEnds, EndsWithout
  <2>4. FirstCut(Symbols, r.piece, Rest(r), a.value, EncodeLines(t), <<LF>>)
    BY OneFirstCut
  <2> QED
    BY <1>8, <1>11, <2>1, <2>2, <2>3, <2>4, Zenon DEF FirstCut
<1>15. /\ Append(done, a) \in Seq(Line) /\ msg.items = Append(done, a) \o t
       /\ got'.items = Append(done, a)
  <2>1. a = [value |-> r.piece]
    BY <1>14, TextType
  <2>2. got'.items = Append(done, a)
    BY <1>1, <1>2, <1>7, <2>1 DEF GotOK, GotType
  <2>3. Append(done, a) \in Seq(Line) /\ done \o (<<a>> \o t) = Append(done, a) \o t
    BY OneMore
  <2>4. msg.items = done \o (<<a>> \o t)
    BY <1>7, <1>13
  <2> QED
    BY <2>2, <2>3, <2>4, Zenon
<1>16. LinesAt(msg.items, got'.items, EncodeLines(t))
  BY <1>15 DEF LinesAt
<1>17. CASE Goes(r) /\ cur' = cur
  <2>1. result' = "reading"
    BY <1>3, <1>4, <1>17, ReadingOrNot
  <2>2. Left' = EncodeLines(t)
    BY <1>2, <1>14, <1>17, LeftGoes
  <2> QED
    BY <1>2, <1>3, <1>5, <1>6, <1>8, <1>16, <1>17, <2>1, <2>2 DEF LinesRead, LinesParser, NewSubParser
<1>18. CASE cur' = "none"
  BY <1>3, <1>16, <1>18, LinesBefore DEF LinesRead
<1> QED
  BY <1>2, <1>17, <1>18

OtherThanLines ==
    \/ ParseRequestLine \/ ParseClientHeaders \/ ParseStatus \/ ParseServerHeaders
    \/ ParseChunkSize \/ ParseChunkData \/ ParseChunkCRLF \/ ParseContentLength \/ ParseConnectionClose
    \/ ParseURLVar \/ ParseFirstBoundary \/ ParsePartHeaders \/ ParsePartContent \/ ParseEndPoint

\* Lines are read by nothing else.
LEMMA NoOtherLineReader ==
    ASSUME LinesRead, msg.proto = "line"
    PROVE  ~OtherThanLines
<1> SUFFICES ASSUME OtherThanLines PROVE FALSE
  OBVIOUS
<1>1. PICK p \in {"requestLine", "headers", "status", "content", "urlVar", "firstBoundary",
                  "partHeaders", "partContent", "endpoint"} : Outcomes(p) # {}
  BY DEF OtherThanLines, ParseRequestLine, ParseClientHeaders, ParseStatus, ParseServerHeaders,
    ParseChunkSize, ParseChunkData, ParseChunkCRLF, ParseContentLength, ParseConnectionClose,
    ParseURLVar, ParseFirstBoundary, ParsePartHeaders, ParsePartContent, ParseEndPoint, Parsed
<1>2. result = "reading" /\ cur = p /\ cur # "none"
  BY <1>1 DEF Outcomes
<1>3. cur = "line"
  BY <1>2 DEF LinesRead
<1> QED
  BY <1>2, <1>3

\* Every step keeps the place among the lines.
LEMMA LinesStep ==
    ASSUME IInv, LinesRead, [Next]_vars
    PROVE  LinesRead'
<1> SUFFICES ASSUME msg'.proto = "line" PROVE LinesRead'
  BY DEF LinesRead
<1>1. StreamOK /\ CurOK
  BY DEF IInv
<1>2. CASE Waiting
  <2>1. msg.proto = "line"
    BY <1>2 DEF Waiting, Read, Finish, Disconnect, Buffer, NoRoomLeft, TTLReached, AfterEnd, vars, Log
  <2>2. msg.proto \notin Forms
    BY <2>1 DEF Forms
  <2>3. /\ msg' = msg /\ got' = got /\ cur' = cur
        /\ (result' = "reading" /\ cur' # "none" /\ sub.mode # "directDelimiter") =>
             /\ result = "reading" /\ Left' = Left
             /\ sub'.delims = sub.delims /\ sub'.ended = sub.ended
    BY <1>2, <2>2, WaitingLeaves
  <2>4. cur = "line" => sub.mode = "delimiter"
    BY <1>1 DEF CurOK, ByDelimiter
  <2>5. CASE result' = "reading" /\ cur' # "none"
    <3>1. result = "reading"
      BY <1>2, <2>2, <2>5 DEF Waiting, Read, Finish, Disconnect, Buffer, NoRoomLeft, TTLReached, AfterEnd, vars, Outcomes
    <3>2. cur = "line" /\ sub.delims = LinesParser.delims /\ sub.ended = FALSE /\ LinesAt(msg.items, got.items, Left)
      BY <2>1, <2>3, <2>5, <3>1 DEF LinesRead
    <3> QED
      BY <2>3, <2>4, <2>5, <3>2 DEF LinesRead
  <2>6. CASE ~(result' = "reading" /\ cur' # "none")
    <3>1. IsPrefix(got.items, msg.items)
      BY <2>1, LinesBefore DEF LinesRead
    <3> QED
      BY <2>3, <2>6, <3>1 DEF LinesRead
  <2> QED
    BY <2>5, <2>6
<1>3. CASE ParseLine
  BY <1>3, LineRead
<1>4. CASE OtherThanLines
  <2>1. ASSUME NEW r, Log(r) PROVE msg' = msg
    BY <2>1 DEF Log
  <2>2. msg' = msg
    BY <1>4, <2>1 DEF OtherThanLines, ParseRequestLine, ParseClientHeaders, ParseStatus, ParseServerHeaders,
      ParseChunkSize, ParseChunkData, ParseChunkCRLF, ParseContentLength, ParseConnectionClose,
      ParseURLVar, ParseFirstBoundary, ParsePartHeaders, ParsePartContent, ParseEndPoint
  <2> QED
    BY <1>4, <2>2, NoOtherLineReader
<1> QED
  BY <1>2, <1>3, <1>4 DEF Next, Waiting, OtherThanLines

\* They begin where they are encoded.
LEMMA LinesBegin == Init => LinesRead
<1> SUFFICES ASSUME Init, msg.proto = "line" PROVE LinesRead
  BY DEF LinesRead
<1>1. /\ msg \in Messages /\ wire = Encode(msg) /\ pending = << >>
      /\ cur = FirstParser(msg)[1] /\ sub = FirstParser(msg)[2]
      /\ got = [line |-> << >>, options |-> << >>, content |-> << >>, name |-> << >>, items |-> << >>]
      /\ result = "reading"
  BY DEF Init
<1>2. cur = "line" /\ sub = LinesParser
  BY <1>1 DEF FirstParser
<1>3. sub.ended = FALSE /\ Bytes(sub.buf) = << >>
  BY <1>2, BytesEmpty DEF LinesParser, NewSubParser
<1>4. msg.items \in Seq(Line) /\ Encode(msg) = EncodeLines(msg.items)
  <2>1. msg \in LineLists
    BY <1>1, MessagesAssumption
  <2> QED
    BY <2>1 DEF LineLists, Line, Encode
<1>5. Left = EncodeLines(msg.items)
  <2>1. PICK e \in Seq(Symbols) : e = Encode(msg)
    BY <1>1, EncodeType
  <2>2. << >> \o << >> = << >> /\ << >> \o e = e
    BY ConcatEmptySeq
  <2> QED
    BY <1>1, <1>3, <1>4, <2>1, <2>2 DEF Left
<1>6. LinesAt(msg.items, got.items, Left)
  <2>1. << >> \o msg.items = msg.items /\ << >> \in Seq(Line)
    BY <1>4, ConcatEmptySeq
  <2> QED
    BY <1>1, <1>4, <1>5, <2>1 DEF LinesAt
<1> QED
  BY <1>1, <1>2, <1>3, <1>6 DEF LinesRead

-----------------------------------------------------------------------------
(* The text of variables *)

Plain == Symbols \ {"%26", "%3D"}
Coded == Symbols \ {"=", "&"}
Var == [name : Seq(Plain) \ {<< >>}, value : Seq(Plain)]

\* The separators are symbols.
LEMMA Separating == "=" \in Symbols /\ "&" \in Symbols /\ "%26" \in Coded /\ "%3D" \in Coded
BY SymbolsAssumption DEF Coded

\* Encoders::URL leaves no separator, and Decoders::URL gives back what was encoded.
LEMMA DecodesEncoded ==
    ASSUME NEW s \in Seq(Plain)
    PROVE  /\ s \in Seq(Symbols) /\ URLEncode(s) \in Seq(Coded) /\ URLEncode(s) \in Seq(Symbols)
           /\ URLDecode(URLEncode(s)) = s
           /\ URLEncode(s) = << >> => s = << >>
<1>1. Len(s) \in Nat /\ DOMAIN s = 1..Len(s) /\ s \in Seq(Symbols)
  BY LenProperties DEF Plain
<1>2. \A i \in 1..Len(s) : s[i] \in Symbols /\ s[i] # "%26" /\ s[i] # "%3D"
  BY ElementOfSeq DEF Plain
<1>3. \A i \in 1..Len(s) : URLEncode(s)[i] \in Coded
  BY <1>1, <1>2, Separating DEF URLEncode, Escape, Coded
<1>4. URLEncode(s) \in [1..Len(s) -> Coded]
  BY <1>1, <1>3 DEF URLEncode
<1>5. PICK e \in Seq(Coded) : e = URLEncode(s) /\ Len(e) = Len(s) /\ DOMAIN e = 1..Len(s)
  BY <1>1, <1>4, SeqDef
<1>6. \A i \in 1..Len(s) : e[i] = IF s[i] = "&" THEN "%26" ELSE IF s[i] = "=" THEN "%3D" ELSE s[i]
  BY <1>1, <1>5 DEF URLEncode, Escape
<1>7. \A i \in 1..Len(s) : URLDecode(e)[i] = s[i]
  BY <1>2, <1>5, <1>6 DEF URLDecode
<1>8. e \in Seq(Symbols)
  BY DEF Coded
<1>9. PICK d \in Seq(Symbols) : d = URLDecode(e)
  BY <1>8, URLDecodeType
<1>10. DOMAIN d = 1..Len(s)
  BY <1>5, <1>9 DEF URLDecode
<1>11. Len(d) = Len(s)
  BY <1>1, <1>10
<1>12. d = s
  <2>1. \A i \in 1..Len(d) : d[i] = s[i]
    BY <1>7, <1>9, <1>11
  <2> QED
    BY <1>1, <1>11, <2>1, SeqEqual
<1>13. e = << >> => s = << >>
  BY <1>1, <1>5, EmptySeq
<1> QED
  BY <1>1, <1>5, <1>8, <1>9, <1>12, <1>13

VarText(v) == URLEncode(v.name) \o (IF v.value = << >> THEN << >> ELSE <<"=">> \o URLEncode(v.value))

\* The text of a variable: no "&" in it, and "=" before a value.
LEMMA VarTextIs ==
    ASSUME NEW v \in Var
    PROVE  /\ URLEncode(v.name) \in Seq(Coded) /\ URLEncode(v.value) \in Seq(Coded)
           /\ URLEncode(v.name) \in Seq(Symbols) /\ URLEncode(v.value) \in Seq(Symbols)
           /\ URLDecode(URLEncode(v.name)) = v.name /\ URLDecode(URLEncode(v.value)) = v.value
           /\ v.name # << >> /\ URLEncode(v.name) # << >>
           /\ v.value # << >> => URLEncode(v.value) # << >>
           /\ v = [name |-> v.name, value |-> v.value]
           /\ VarText(v) \in Seq(Symbols)
           /\ v.value = << >> => VarText(v) = URLEncode(v.name)
           /\ v.value # << >> => VarText(v) = URLEncode(v.name) \o (<<"=">> \o URLEncode(v.value))
<1>1. /\ v.name \in Seq(Plain) /\ v.value \in Seq(Plain) /\ v.name # << >>
      /\ v = [name |-> v.name, value |-> v.value]
  BY DEF Var
<1>2. PICK n \in Seq(Symbols), x \in Seq(Symbols) : n = URLEncode(v.name) /\ x = URLEncode(v.value)
  BY <1>1, DecodesEncoded
<1>3. n \o << >> = n /\ <<"=">> \o x \in Seq(Symbols)
  BY Separating, ConcatEmptySeq, ConsAt
<1>4. n \o (<<"=">> \o x) \in Seq(Symbols)
  BY <1>3, ConcatProperties
<1>5. /\ v.value = << >> => VarText(v) = n
      /\ v.value # << >> => VarText(v) = n \o (<<"=">> \o x)
  BY <1>2, <1>3 DEF VarText
<1> QED
  BY <1>1, <1>2, <1>4, <1>5, DecodesEncoded

MorePieces(vs) == [i \in DOMAIN vs |-> <<"&">> \o VarText(vs[i])]

\* The variables after the first, each with its separator.
More(vs) == FlattenSeq(MorePieces(vs))

\* Their pieces.
LEMMA MorePiecesType ==
    ASSUME NEW vs \in Seq(Var)
    PROVE  /\ MorePieces(vs) \in Seq(Seq(Symbols)) /\ Len(MorePieces(vs)) = Len(vs)
           /\ \A i \in 1..Len(vs) : MorePieces(vs)[i] = <<"&">> \o VarText(vs[i])
<1>1. Len(vs) \in Nat /\ DOMAIN vs = 1..Len(vs)
  BY LenProperties
<1>2. \A i \in 1..Len(vs) : <<"&">> \o VarText(vs[i]) \in Seq(Symbols)
  BY ElementOfSeq, VarTextIs, Separating, ConsAt
<1>3. MorePieces(vs) \in [1..Len(vs) -> Seq(Symbols)]
  BY <1>1, <1>2 DEF MorePieces
<1> QED
  BY <1>1, <1>3, SeqDef DEF MorePieces

\* None of them are nothing.
LEMMA MoreNone == More(<< >>) = << >> /\ EncodeURL(<< >>) = << >>
<1>1. MorePieces(<< >>) = << >>
  BY DEF MorePieces
<1>2. [i \in DOMAIN << >> |->
        (IF i = 1 THEN << >> ELSE <<"&">>) \o URLEncode((<< >>)[i].name)
            \o (IF (<< >>)[i].value = << >> THEN << >> ELSE <<"=">> \o URLEncode((<< >>)[i].value))] = << >>
  OBVIOUS
<1> QED
  BY <1>1, <1>2, FlattenEmpty DEF More, EncodeURL

URLPieces(vs) ==
    [i \in DOMAIN vs |->
        (IF i = 1 THEN << >> ELSE <<"&">>) \o URLEncode(vs[i].name)
            \o (IF vs[i].value = << >> THEN << >> ELSE <<"=">> \o URLEncode(vs[i].value))]

\* The pieces that streamTo writes.
LEMMA URLPiecesAre ==
    ASSUME NEW vs \in Seq(Var)
    PROVE  /\ URLPieces(vs) \in Seq(Seq(Symbols)) /\ Len(URLPieces(vs)) = Len(vs)
           /\ \A i \in 1..Len(vs) :
                URLPieces(vs)[i] = IF i = 1 THEN VarText(vs[i]) ELSE <<"&">> \o VarText(vs[i])
<1>1. Len(vs) \in Nat /\ DOMAIN vs = 1..Len(vs)
  BY LenProperties
<1>2. ASSUME NEW i \in 1..Len(vs)
      PROVE  /\ URLPieces(vs)[i] = IF i = 1 THEN VarText(vs[i]) ELSE <<"&">> \o VarText(vs[i])
             /\ URLPieces(vs)[i] \in Seq(Symbols)
  <2> DEFINE x == IF vs[i].value = << >> THEN << >> ELSE <<"=">> \o URLEncode(vs[i].value)
  <2>1. PICK v \in Var : v = vs[i]
    BY ElementOfSeq
  <2>2. PICK n \in Seq(Symbols) : n = URLEncode(v.name)
    BY VarTextIs
  <2>3. PICK y \in Seq(Symbols) : y = x
    <3>1. << >> \in Seq(Symbols) /\ <<"=">> \o URLEncode(v.value) \in Seq(Symbols)
      BY VarTextIs, Separating, ConsAt
    <3> QED
      BY <2>1, <3>1
  <2>4. VarText(v) = n \o y /\ VarText(v) \in Seq(Symbols)
    BY <2>1, <2>2, <2>3, VarTextIs DEF VarText
  <2>5. URLPieces(vs)[i] = ((IF i = 1 THEN << >> ELSE <<"&">>) \o n) \o y
    BY <1>1, <2>1, <2>2, <2>3 DEF URLPieces
  <2> HIDE DEF x
  <2>6. << >> \o n = n
    BY ConcatEmptySeq
  <2>7. PICK a \in Seq(Symbols) : a = <<"&">>
    <3>1. <<"&">> \in Seq(Symbols)
      BY Separating
    <3> QED
      BY <3>1
  <2>8. (a \o n) \o y = a \o (n \o y) /\ a \o (n \o y) \in Seq(Symbols)
    <3>1. Split3(Symbols, a, n, y)
      BY AlwaysSplit3
    <3> QED
      BY <3>1, Zenon DEF Split3
  <2> QED
    BY <2>1, <2>4, <2>5, <2>6, <2>7, <2>8
<1>3. URLPieces(vs) \in [1..Len(vs) -> Seq(Symbols)]
  <2>1. URLPieces(vs) = [i \in 1..Len(vs) |-> URLPieces(vs)[i]]
    BY <1>1 DEF URLPieces
  <2> QED
    BY <1>2, <2>1
<1> QED
  BY <1>1, <1>2, <1>3, SeqDef

\* The first of them, then the others.
LEMMA URLFirst ==
    ASSUME NEW a \in Var, NEW t \in Seq(Var)
    PROVE  /\ EncodeURL(<<a>> \o t) = VarText(a) \o More(t)
           /\ More(<<a>> \o t) = <<"&">> \o EncodeURL(<<a>> \o t)
           /\ More(t) \in Seq(Symbols)
<1>1. PICK s \in Seq(Var) : s = <<a>> \o t
  BY ConsAt
<1>2. Len(s) = Len(t) + 1 /\ Len(t) \in Nat /\ s[1] = a /\ \A i \in 1..Len(t) : s[i + 1] = t[i]
  BY <1>1, ConsAt
<1>3. PICK ss \in Seq(Seq(Symbols)) : ss = URLPieces(s) /\ Len(ss) = Len(s)
  BY URLPiecesAre
<1>4. PICK tt \in Seq(Seq(Symbols)) : tt = MorePieces(t) /\ Len(tt) = Len(t)
  BY MorePiecesType
<1>5. PICK mm \in Seq(Seq(Symbols)) : mm = MorePieces(s) /\ Len(mm) = Len(s)
  BY MorePiecesType
<1>6. Len(ss) = Len(tt) + 1 /\ Len(mm) = Len(tt) + 1 /\ 1 \in 1..Len(s)
  BY <1>2, <1>3, <1>4, <1>5
<1>7. \A i \in 1..Len(tt) : ss[i + 1] = tt[i] /\ mm[i + 1] = tt[i]
  <2> TAKE i \in 1..Len(tt)
  <2>1. i + 1 \in 1..Len(s) /\ i \in 1..Len(t) /\ i + 1 # 1
    BY <1>2, <1>4
  <2>2. ss[i + 1] = <<"&">> \o VarText(s[i + 1]) /\ mm[i + 1] = <<"&">> \o VarText(s[i + 1])
    BY <1>3, <1>5, <2>1, URLPiecesAre, MorePiecesType
  <2>3. tt[i] = <<"&">> \o VarText(t[i])
    BY <1>4, <2>1, MorePiecesType
  <2> QED
    BY <1>2, <2>1, <2>2, <2>3
<1>8. ss[1] = VarText(a) /\ mm[1] = <<"&">> \o VarText(a)
  BY <1>2, <1>3, <1>5, <1>6, URLPiecesAre, MorePiecesType
<1>9. FlattenSeq(ss) = ss[1] \o FlattenSeq(tt) /\ FlattenSeq(tt) \in Seq(Symbols)
  BY <1>6, <1>7, FlattenFirst
<1>10. FlattenSeq(mm) = mm[1] \o FlattenSeq(tt)
  BY <1>6, <1>7, FlattenFirst
<1>11. EncodeURL(s) = FlattenSeq(ss) /\ More(t) = FlattenSeq(tt) /\ More(s) = FlattenSeq(mm)
  BY <1>3, <1>4, <1>5 DEF EncodeURL, URLPieces, More
<1>12. PICK x \in Seq(Symbols), y \in Seq(Symbols), z \in Seq(Symbols) :
         x = <<"&">> /\ y = VarText(a) /\ z = FlattenSeq(tt)
  <2>1. <<"&">> \in Seq(Symbols)
    BY Separating
  <2> QED
    BY <1>9, <2>1, VarTextIs
<1>13. (x \o y) \o z = x \o (y \o z)
  <2>1. Split3(Symbols, x, y, z)
    BY AlwaysSplit3
  <2> QED
    BY <2>1, Zenon DEF Split3
<1> QED
  BY <1>1, <1>8, <1>9, <1>10, <1>11, <1>12, <1>13

\* The text begins with the name, and "=" or what follows.
LEMMA NameFirst ==
    ASSUME NEW a \in Var, NEW t \in Seq(Var)
    PROVE  /\ a.value = << >> => EncodeURL(<<a>> \o t) = URLEncode(a.name) \o More(t)
           /\ a.value # << >> =>
                EncodeURL(<<a>> \o t) = (URLEncode(a.name) \o <<"=">>) \o (URLEncode(a.value) \o More(t))
           /\ URLEncode(a.value) \o More(t) \in Seq(Symbols)
<1>1. PICK n \in Seq(Symbols), x \in Seq(Symbols), m \in Seq(Symbols), e \in Seq(Symbols) :
        n = URLEncode(a.name) /\ x = URLEncode(a.value) /\ m = More(t) /\ e = <<"=">>
  <2>1. <<"=">> \in Seq(Symbols)
    BY Separating
  <2> QED
    BY <2>1, VarTextIs, URLFirst
<1>2. EncodeURL(<<a>> \o t) = VarText(a) \o m
  BY <1>1, URLFirst
<1>3. /\ a.value = << >> => VarText(a) = n
      /\ a.value # << >> => VarText(a) = n \o (e \o x)
  BY <1>1, VarTextIs
<1>4. (n \o (e \o x)) \o m = (n \o e) \o (x \o m) /\ x \o m \in Seq(Symbols)
  <2>1. Split3(Symbols, n, e, x) /\ Split3(Symbols, n \o e, x, m)
    BY AlwaysSplit3
  <2>2. n \o (e \o x) = (n \o e) \o x /\ n \o e \in Seq(Symbols)
    BY <2>1, Zenon DEF Split3
  <2>3. ((n \o e) \o x) \o m = (n \o e) \o (x \o m) /\ x \o m \in Seq(Symbols)
    BY <2>1, <2>2, Zenon DEF Split3
  <2> QED
    BY <2>2, <2>3
<1> QED
  BY <1>1, <1>2, <1>3, <1>4

\* What follows is nothing, or "&" and the text of the others.
LEMMA ThenMore ==
    ASSUME NEW t \in Seq(Var), NEW x \in Seq(Symbols)
    PROVE  /\ t = << >> => x \o More(t) = x
           /\ t # << >> => x \o More(t) = (x \o <<"&">>) \o EncodeURL(t)
           /\ EncodeURL(t) \in Seq(Symbols)
<1>1. CASE t = << >>
  <2>1. << >> \in Seq(Symbols) /\ x \o << >> = x
    BY ConcatEmptySeq
  <2> QED
    BY <1>1, <2>1, MoreNone
<1>2. CASE t # << >>
  <2>1. PICK a \in Var, s \in Seq(Var) : t = <<a>> \o s
    BY <1>2, HeadTail
  <2>2. EncodeURL(t) = VarText(a) \o More(s) /\ More(t) = <<"&">> \o EncodeURL(t)
    BY <2>1, URLFirst
  <2>3. EncodeURL(t) \in Seq(Symbols)
    <3>1. PICK f \in Seq(Symbols), m \in Seq(Symbols) : f = VarText(a) /\ m = More(s)
      BY URLFirst, VarTextIs
    <3> QED
      BY <2>2, <3>1, ConcatProperties
  <2>4. PICK d \in Seq(Symbols) : d = <<"&">>
    <3>1. <<"&">> \in Seq(Symbols)
      BY Separating
    <3> QED
      BY <3>1
  <2>5. PICK y \in Seq(Symbols) : y = EncodeURL(t)
    BY <2>3
  <2>6. (x \o d) \o y = x \o (d \o y)
    <3>1. Split3(Symbols, x, d, y)
      BY AlwaysSplit3
    <3> QED
      BY <3>1, Zenon DEF Split3
  <2> QED
    BY <1>2, <2>2, <2>4, <2>5, <2>6
<1> QED
  BY <1>1, <1>2

Valueless(t) == \A i \in 1..Len(t) : t[i].value = << >>

\* Variables without a value have no "=" in their text.
LEMMA NoEquals ==
    ASSUME NEW t \in Seq(Var), Valueless(t)
    PROVE  More(t) \in Seq(Symbols \ {"="})
<1> DEFINE NoEq == Symbols \ {"="}
<1>1. Len(t) \in Nat /\ DOMAIN t = 1..Len(t)
  BY LenProperties
<1>2. \A i \in 1..Len(t) : MorePieces(t)[i] \in Seq(NoEq)
  <2> TAKE i \in 1..Len(t)
  <2>1. PICK v \in Var : v = t[i] /\ v.value = << >>
    BY ElementOfSeq DEF Valueless
  <2>2. URLEncode(v.name) \in Seq(NoEq)
    <3>1. URLEncode(v.name) \in Seq(Coded) /\ Coded \subseteq NoEq
      BY VarTextIs DEF Coded
    <3> QED
      BY <3>1
  <2>3. MorePieces(t)[i] = <<"&">> \o URLEncode(v.name) /\ "&" \in NoEq
    BY <2>1, MorePiecesType, VarTextIs, Separating
  <2> HIDE DEF NoEq
  <2> QED
    BY <2>2, <2>3, ConsAt
<1>3. MorePieces(t) \in [1..Len(t) -> Seq(NoEq)]
  <2>1. MorePieces(t) = [i \in 1..Len(t) |-> MorePieces(t)[i]]
    BY <1>1 DEF MorePieces
  <2> HIDE DEF NoEq
  <2> QED
    BY <1>2, <2>1
<1> HIDE DEF NoEq
<1>4. MorePieces(t) \in Seq(Seq(NoEq))
  BY <1>1, <1>3, SeqDef
<1>5. More(t) \in Seq(NoEq)
  BY <1>4, FlattenType DEF More
<1> QED
  BY <1>5 DEF NoEq

\* "&" is not before the "=" of the first variable.
LEMMA EqualsFirst ==
    ASSUME NEW n \in Seq(Coded), NEW y \in Seq(Symbols), NEW p \in Seq(Symbols), NEW q \in Seq(Symbols),
           (n \o <<"=">>) \o y = (p \o <<"&">>) \o q, p \o <<"&">> \in Seq(Symbols \ {"="})
    PROVE  FALSE
<1>1. n \in Seq(Symbols)
  BY DEF Coded
<1>2. PICK w : w = (n \o <<"=">>) \o y
  OBVIOUS
<1>3. /\ w[Len(n) + 1] = "=" /\ Len(n) \in Nat /\ \A i \in 1..Len(n) : w[i] = n[i]
  BY <1>1, <1>2, Separating, Among
<1>4. w[Len(p) + 1] = "&" /\ Len(p) \in Nat /\ \A i \in 1..Len(p) : w[i] = p[i]
  BY <1>2, Separating, Among
<1>5. CASE Len(p) < Len(n)
  <2>1. Len(p) + 1 \in 1..Len(n)
    BY <1>3, <1>4, <1>5
  <2>2. n[Len(p) + 1] \in Coded
    BY <2>1, ElementOfSeq
  <2> QED
    BY <1>3, <1>4, <2>1, <2>2 DEF Coded
<1>6. CASE Len(p) = Len(n)
  BY <1>3, <1>4, <1>6
<1>7. CASE Len(p) > Len(n)
  <2>1. Len(n) + 1 \in 1..Len(p)
    BY <1>3, <1>4, <1>7
  <2>2. p[Len(n) + 1] = "="
    BY <1>3, <1>4, <2>1
  <2>3. PICK d \in Seq(Symbols) : d = <<"&">>
    <3>1. <<"&">> \in Seq(Symbols)
      BY Separating
    <3> QED
      BY <3>1
  <2>4. PICK u \in Seq(Symbols \ {"="}) : u = p \o d
    BY <2>3
  <2>5. Len(u) = Len(p) + Len(d) /\ Len(d) \in Nat /\ \A i \in 1..(Len(p) + Len(d)) : u[i] = IF i <= Len(p) THEN p[i] ELSE d[i - Len(p)]
    BY <2>4, ConcatProperties, LenProperties
  <2>6. u[Len(n) + 1] = "=" /\ Len(n) + 1 \in 1..Len(u)
    BY <1>3, <1>4, <2>1, <2>2, <2>5
  <2>7. u[Len(n) + 1] \in Symbols \ {"="}
    BY <2>6, ElementOfSeq
  <2> QED
    BY <2>6, <2>7
<1> QED
  BY <1>3, <1>4, <1>5, <1>6, <1>7

\* Variables that are not ambiguous: those after one without a value have none.
LEMMA ThenValueless ==
    ASSUME NEW done \in Seq(Var), NEW a \in Var, NEW t \in Seq(Var),
           ~Ambiguous(done \o (<<a>> \o t)), a.value = << >>
    PROVE  Valueless(t)
<1>0. PICK u \in Seq(Var) : u = <<a>> \o t
  BY ConsAt
<1>1. Len(u) = Len(t) + 1 /\ u[1] = a /\ \A i \in 1..Len(t) : u[i + 1] = t[i]
  BY <1>0, ConsAt
<1>2. Len(t) \in Nat /\ Len(done) \in Nat
  BY LenProperties
<1>3. PICK w \in Seq(Var) : w = done \o u
  BY ConcatProperties
<1>4. Len(w) = Len(done) + Len(u) /\ \A i \in 1..(Len(done) + Len(u)) : w[i] = IF i <= Len(done) THEN done[i] ELSE u[i - Len(done)]
  BY <1>3, ConcatProperties
<1>5. w[Len(done) + 1] = a /\ Len(done) + 1 \in 1..Len(w)
  <2>1. PICK j \in 1..(Len(done) + Len(u)) : j = Len(done) + 1 /\ ~(j <= Len(done)) /\ j - Len(done) = 1
    <3>1. /\ Len(done) + 1 \in 1..(Len(done) + Len(u)) /\ ~(Len(done) + 1 <= Len(done))
          /\ (Len(done) + 1) - Len(done) = 1
      BY <1>1, <1>2
    <3> QED
      BY <3>1, Zenon
  <2> QED
    BY <1>1, <1>4, <2>1
<1>6. DOMAIN w = 1..Len(w)
  BY LenProperties
<1> SUFFICES ASSUME NEW i \in 1..Len(t), t[i].value # << >> PROVE FALSE
  BY DEF Valueless
<1>7. Len(done) + (i + 1) \in 1..Len(w) /\ w[Len(done) + (i + 1)] = u[i + 1]
  <2>1. PICK j \in 1..(Len(done) + Len(u)) : j = Len(done) + (i + 1) /\ ~(j <= Len(done)) /\ j - Len(done) = i + 1
    <3>1. /\ Len(done) + (i + 1) \in 1..(Len(done) + Len(u)) /\ ~(Len(done) + (i + 1) <= Len(done))
          /\ (Len(done) + (i + 1)) - Len(done) = i + 1
      BY <1>1, <1>2
    <3> QED
      BY <3>1, Zenon
  <2> QED
    BY <1>4, <2>1
<1>8. Len(done) + 1 < Len(done) + (i + 1)
  BY <1>2
<1>9. Ambiguous(w)
  <2>1. PICK j \in DOMAIN w, k \in DOMAIN w : j < k /\ w[j] = a /\ w[k] = t[i]
    BY <1>1, <1>5, <1>6, <1>7, <1>8
  <2> QED
    BY <2>1 DEF Ambiguous
<1> QED
  BY <1>0, <1>3, <1>9

-----------------------------------------------------------------------------
(* Reading variables *)

\* Nothing, and the delimiters.
LEMMA NoneAndOne ==
    /\ \A S : << >> \in Seq(S)
    /\ << >> \o << >> = << >> /\ <<"=">> # <<"&">>
    /\ \A k \in 1..2 : << <<"=">>, <<"&">> >>[k] = <<"=">> \/ << <<"=">>, <<"&">> >>[k] = <<"&">>
    /\ Len(<< <<"=">>, <<"&">> >>) = 2
OBVIOUS

\* A piece that ends with a delimiter in what is left, up to which there is none.
LEMMA FoundHere ==
    ASSUME NEW r, NEW k, FoundAt(r, k), r.piece \in Seq(Symbols), Rest(r) \in Seq(Symbols),
           NEW e \in Symbols, sub.delims[k] = <<e>>,
           NEW x \in Seq(Symbols \ {e}), NEW y \in Seq(Symbols), Left = (x \o <<e>>) \o y
    PROVE  r.piece = x /\ Rest(r) = y
<1>1. Left = (r.piece \o <<e>>) \o Rest(r) /\ Ends(r.piece, <<e>>)
  BY DEF FoundAt
<1>2. Ends(x, <<e>>) /\ x \in Seq(Symbols) /\ <<e>> \in Seq(Symbols)
  <2>1. <<e>> \in Seq(Symbols)
    OBVIOUS
  <2> QED
    BY <2>1, EndsWithout
<1>3. FirstCut(Symbols, r.piece, Rest(r), x, y, <<e>>)
  BY OneFirstCut
<1> QED
  BY <1>1, <1>2, <1>3, Zenon DEF FirstCut

\* A delimiter that is nowhere in what is left is not found.
LEMMA NotFoundHere ==
    ASSUME NEW r, NEW k, r.piece \in Seq(Symbols), Rest(r) \in Seq(Symbols),
           NEW e \in Symbols, sub.delims[k] = <<e>>, Left \in Seq(Symbols \ {e})
    PROVE  ~FoundAt(r, k)
<1> SUFFICES ASSUME FoundAt(r, k) PROVE FALSE
  OBVIOUS
<1>1. Left = (r.piece \o <<e>>) \o Rest(r)
  BY DEF FoundAt
<1> QED
  BY <1>1, NotThere

\* What has no separator has neither.
LEMMA CodedHasNone ==
    ASSUME NEW x \in Seq(Coded)
    PROVE  x \in Seq(Symbols) /\ x \in Seq(Symbols \ {"="}) /\ x \in Seq(Symbols \ {"&"})
<1>1. Coded \subseteq Symbols /\ Coded \subseteq Symbols \ {"="} /\ Coded \subseteq Symbols \ {"&"}
  BY DEF Coded
<1> QED
  BY <1>1

\* URLVarContent, at a name: it hands over the name, with "=" if there is a value, with "&"
\* if there is none and another variable follows, at the end of the form if none does.
LEMMA NameCut ==
    ASSUME StreamOK, CurOK, NEW r \in Parsed("urlVar"), sub.ended = FALSE,
           sub.delims = << <<"=">>, <<"&">> >>, pending # << >> \/ wire = << >>,
           NEW done \in Seq(Var), NEW a \in Var, NEW t \in Seq(Var),
           ~Ambiguous(done \o (<<a>> \o t)), Left = EncodeURL(<<a>> \o t)
    PROVE  /\ r.piece = URLEncode(a.name)
           /\ \/ /\ a.value # << >> /\ pending # << >> /\ r.sub.found = <<"=">>
                 /\ Rest(r) = URLEncode(a.value) \o More(t)
              \/ /\ a.value = << >> /\ pending # << >> /\ r.sub.found = <<"&">>
                 /\ t # << >> /\ Rest(r) = EncodeURL(t)
              \/ a.value = << >> /\ pending = << >> /\ t = << >>
<1>1. PICK n \in Seq(Coded) : n = URLEncode(a.name)
  BY VarTextIs
<1>2. n \in Seq(Symbols) /\ n \in Seq(Symbols \ {"="}) /\ n \in Seq(Symbols \ {"&"})
  BY CodedHasNone
<1>3. PICK y \in Seq(Symbols) : y = URLEncode(a.value) \o More(t)
  BY NameFirst
<1>4. /\ a.value = << >> => Left = n \o More(t)
      /\ a.value # << >> => Left = (n \o <<"=">>) \o y
  BY <1>1, <1>3, NameFirst
<1>5. PICK z \in Seq(Symbols) : z = EncodeURL(t)
  BY <1>2, ThenMore
<1>6. /\ t = << >> => n \o More(t) = n
      /\ t # << >> => n \o More(t) = (n \o <<"&">>) \o z
  BY <1>2, <1>5, ThenMore
<1>7. r.piece \in Seq(Symbols) /\ Rest(r) \in Seq(Symbols)
  BY CallFinds DEF ByDelimiter
<1>8. Len(sub.delims) = 2 /\ sub.delims[1] = <<"=">> /\ sub.delims[2] = <<"&">>
  OBVIOUS
<1>9. CASE pending # << >>
  <2>1. PICK k \in 1..Len(sub.delims) : FoundAt(r, k)
    BY <1>9, CallFinds DEF ByDelimiter
  <2>2. k = 1 \/ k = 2
    BY <1>8, <2>1
  <2>3. CASE a.value # << >>
    <3>1. k # 2
      <4> SUFFICES ASSUME k = 2 PROVE FALSE
        OBVIOUS
      <4>1. /\ Left = (r.piece \o <<"&">>) \o Rest(r)
            /\ \A i \in Nat : ~OccursAt(r.piece \o <<"&">>, <<"=">>, i)
        <5>1. 1 \in 1..(k - 1) /\ sub.delims[k] = <<"&">>
          BY <1>8
        <5> QED
          BY <1>8, <2>1, <5>1 DEF FoundAt
      <4>2. r.piece \o <<"&">> \in Seq(Symbols)
        <5>1. <<"&">> \in Seq(Symbols)
          BY Separating
        <5> QED
          BY <1>7, <5>1, ConcatProperties
      <4>3. r.piece \o <<"&">> \in Seq(Symbols \ {"="})
        BY <4>1, <4>2, Separating, WithoutIt
      <4>4. (n \o <<"=">>) \o y = (r.piece \o <<"&">>) \o Rest(r)
        BY <1>4, <2>3, <4>1
      <4> QED
        BY <1>7, <4>3, <4>4, EqualsFirst
    <3>2. k = 1 /\ sub.delims[k] = <<"=">>
      BY <1>8, <2>2, <3>1
    <3>3. r.piece = n /\ Rest(r) = y
      BY <1>2, <1>4, <1>7, <2>1, <2>3, <3>2, Separating, FoundHere
    <3> QED
      BY <1>1, <1>3, <1>9, <2>1, <2>3, <3>2, <3>3 DEF FoundAt
  <2>4. CASE a.value = << >>
    <3>1. Left \in Seq(Symbols \ {"="})
      <4>1. More(t) \in Seq(Symbols \ {"="})
        BY <2>4, ThenValueless, NoEquals
      <4> QED
        BY <1>2, <1>4, <2>4, <4>1, ConcatProperties
    <3>2. k # 1
      BY <1>7, <1>8, <2>1, <3>1, Separating, NotFoundHere
    <3>3. k = 2 /\ sub.delims[k] = <<"&">>
      BY <1>8, <2>2, <3>2
    <3>4. t # << >>
      BY <1>2, <1>4, <1>6, <1>7, <2>1, <2>4, <3>3, Separating, NotFoundHere
    <3>5. Left = (n \o <<"&">>) \o z
      BY <1>4, <1>6, <2>4, <3>4
    <3>6. r.piece = n /\ Rest(r) = z
      BY <1>2, <1>7, <2>1, <3>3, <3>5, Separating, FoundHere
    <3> QED
      BY <1>1, <1>5, <1>9, <2>1, <2>4, <3>3, <3>4, <3>6 DEF FoundAt
  <2> QED
    BY <2>3, <2>4
<1>10. CASE pending = << >>
  <2>1. wire = << >>
    BY <1>10
  <2>2. r.piece = Left /\ \A k \in 1..Len(sub.delims), i \in Nat : ~OccursAt(Left, sub.delims[k], i)
    BY <1>10, <2>1, CallFinds DEF ByDelimiter
  <2>3. \A i \in Nat : ~OccursAt(Left, <<"=">>, i) /\ ~OccursAt(Left, <<"&">>, i)
    <3>1. 1 \in 1..Len(sub.delims) /\ 2 \in 1..Len(sub.delims)
      BY <1>8
    <3> QED
      BY <1>8, <2>2, <3>1
  <2>4. <<"=">> \in Seq(Symbols) /\ <<"&">> \in Seq(Symbols)
    BY Separating
  <2>5. a.value = << >>
    <3> SUFFICES ASSUME a.value # << >> PROVE FALSE
      OBVIOUS
    <3>1. OccursAt((n \o <<"=">>) \o y, <<"=">>, Len(n)) /\ Len(n) \in Nat
      BY <1>2, <2>4, OccursBetween
    <3> QED
      BY <1>4, <2>3, <3>1
  <2>6. t = << >>
    <3> SUFFICES ASSUME t # << >> PROVE FALSE
      OBVIOUS
    <3>1. OccursAt((n \o <<"&">>) \o z, <<"&">>, Len(n)) /\ Len(n) \in Nat
      BY <1>2, <2>4, OccursBetween
    <3> QED
      BY <1>4, <1>6, <2>3, <2>5, <3>1
  <2> QED
    BY <1>1, <1>4, <1>6, <1>10, <2>2, <2>5, <2>6
<1> QED
  BY <1>9, <1>10

\* At a value: it hands over the value, with "&" if another variable follows.
LEMMA ValueCut ==
    ASSUME StreamOK, CurOK, NEW r \in Parsed("urlVar"), sub.ended = FALSE,
           sub.delims = << <<"&">> >>, pending # << >> \/ wire = << >>,
           NEW x \in Seq(Coded), NEW t \in Seq(Var), Left = x \o More(t)
    PROVE  /\ r.piece = x
           /\ \/ pending # << >> /\ t # << >> /\ Rest(r) = EncodeURL(t)
              \/ pending = << >> /\ t = << >>
<1>1. x \in Seq(Symbols) /\ x \in Seq(Symbols \ {"&"})
  BY CodedHasNone
<1>2. PICK z \in Seq(Symbols) : z = EncodeURL(t)
  BY <1>1, ThenMore
<1>3. /\ t = << >> => Left = x
      /\ t # << >> => Left = (x \o <<"&">>) \o z
  BY <1>1, <1>2, ThenMore
<1>4. r.piece \in Seq(Symbols) /\ Rest(r) \in Seq(Symbols)
  BY CallFinds DEF ByDelimiter
<1>5. Len(sub.delims) = 1 /\ sub.delims[1] = <<"&">>
  OBVIOUS
<1>6. CASE pending # << >>
  <2>1. PICK k \in 1..Len(sub.delims) : FoundAt(r, k)
    BY <1>6, CallFinds DEF ByDelimiter
  <2>2. sub.delims[k] = <<"&">>
    BY <1>5, <2>1
  <2>3. t # << >>
    BY <1>1, <1>3, <1>4, <2>1, <2>2, Separating, NotFoundHere
  <2>4. r.piece = x /\ Rest(r) = z
    BY <1>1, <1>3, <1>4, <2>1, <2>2, <2>3, Separating, FoundHere
  <2> QED
    BY <1>2, <1>6, <2>3, <2>4
<1>7. CASE pending = << >>
  <2>1. wire = << >>
    BY <1>7
  <2>2. r.piece = Left /\ \A k \in 1..Len(sub.delims), i \in Nat : ~OccursAt(Left, sub.delims[k], i)
    BY <1>7, <2>1, CallFinds DEF ByDelimiter
  <2>3. \A i \in Nat : ~OccursAt(Left, <<"&">>, i)
    BY <1>5, <2>2
  <2>4. t = << >>
    <3> SUFFICES ASSUME t # << >> PROVE FALSE
      OBVIOUS
    <3>1. <<"&">> \in Seq(Symbols)
      BY Separating
    <3>2. OccursAt((x \o <<"&">>) \o z, <<"&">>, Len(x)) /\ Len(x) \in Nat
      BY <1>1, <3>1, OccursBetween
    <3> QED
      BY <1>3, <2>3, <3>2
  <2> QED
    BY <1>3, <1>7, <2>2, <2>4
<1> QED
  BY <1>6, <1>7

\* The end of a form makes a subparser by delimiter parse what it has.
LEMMA EndParses ==
    ASSUME StreamOK, CurOK, sub.mode = "delimiter", NEW r \in writeIntoParser(sub, << >>)
    PROVE  r.parses
<1> DEFINE x == [sub EXCEPT !.ended = @ \/ << >> = << >>]
<1>1. sub \in SubParsers(Symbols)
  BY DEF CurOK, SubParserOK
<1>2. x.mode = sub.mode /\ x.ended
  BY <1>1 DEF SubParsers
<1>3. writeIntoParser(sub, << >>) =
        IF NoRoom(x, << >>) THEN {Failed(x)}
        ELSE CASE x.mode = "delimiter" -> {parseByDelimiter(x, << >>)}
               [] x.mode = "size" -> {parseBySize(x, << >>)}
               [] x.mode = "direct" -> {parseDirect(x, << >>)}
               [] x.mode = "directDelimiter" -> parseDirectDelimiter(x, << >>)
  BY DEF writeIntoParser
<1> HIDE DEF x
<1>4. ~NoRoom(x, << >>)
  BY DEF NoRoom
<1>5. r = parseByDelimiter(x, << >>)
  BY <1>2, <1>3, <1>4
<1>6. PICK t, piece, full, sp : r = Parses(t, piece, full, sp)
  BY <1>2, <1>5 DEF parseByDelimiter
<1> QED
  BY <1>6 DEF Parses, Buffered, Failed

\* Reading and buffering leave the place in a form while no write fails.
LEMMA FormWaits ==
    ASSUME IInv, msg.proto \in Forms, cur # "none", sub.mode = "delimiter", Waiting, failed' = ""
    PROVE  /\ msg' = msg /\ got' = got /\ cur' = cur /\ proc' = proc /\ failed = "" /\ result' = result
           /\ result = "reading" =>
                /\ Left' = Left
                /\ sub'.delims = sub.delims /\ sub'.ended = sub.ended /\ sub'.max = sub.max
<1>0. StreamOK /\ CurOK
  BY DEF IInv
<1>1. CASE Read
  <2>1. Left' = Left
    BY <1>0, <1>1, LeftReads
  <2> QED
    BY <1>1, <2>1 DEF Read
<1>2. CASE Finish \/ Disconnect \/ AfterEnd
  BY <1>2 DEF Finish, Disconnect, AfterEnd, Fails
<1>3. CASE TTLReached \/ NoRoomLeft
  BY <1>3 DEF TTLReached, NoRoomLeft, Fails
<1>4. CASE UNCHANGED vars
  <2>1. UNCHANGED <<msg, wire, pending, cur, sub, proc, got, result, failed>>
    BY <1>4 DEF vars
  <2> QED
    BY <2>1 DEF Left
<1>5. CASE Buffer
  <2>1. PICK r \in Outcomes(cur) :
          /\ r.ok /\ ~r.parses /\ sub' = r.sub /\ Log(r) /\ Goes(r) /\ UNCHANGED <<cur, proc, got, answered>>
    BY <1>5 DEF Buffer
  <2>2. r \in writeIntoParser(sub, pending) /\ result = "reading"
    BY <2>1 DEF Outcomes
  <2>3. pending # << >> /\ ~AtEOF
    BY <1>0, <2>1, <2>2, EndParses DEF AtEOF
  <2>4. msg' = msg /\ failed' = failed /\ result' = result
    BY <2>1, <2>3 DEF Log, Goes
  <2>5. SubParserOK(sub, Symbols) /\ pending \in Seq(Symbols) /\ sub.ended \in BOOLEAN
    BY <1>0 DEF CurOK, StreamOK, SubParserOK, SubParsers
  <2>6. Cuts(sub, pending, r)
    BY <2>2, <2>5, WriteCuts
  <2>7. r.ok = TRUE
    <3>1. Kept(sub, pending, r, Symbols)
      BY <1>0, <2>1, OutcomeKept
    <3> QED
      BY <2>1, <3>1 DEF Kept
  <2>8. r.sub.ended = sub.ended /\ r.sub.delims = sub.delims /\ r.sub.max = sub.max
    BY <2>3, <2>5, <2>6, <2>7 DEF Cuts, CutByDelimiter
  <2>9. r.piece = << >> /\ r.parses = FALSE
    BY <1>0, <2>1, BufferedNothing
  <2>10. Left' = Rest(r)
    BY <2>1, LeftGoes
  <2>11. Handed(r) = << >> /\ Rest(r) \in Seq(Symbols) /\ Left = Handed(r) \o Rest(r)
    <3>1. << >> \o << >> = << >>
      BY NoneAndOne
    <3> QED
      BY <1>0, <2>1, <2>7, <2>9, <3>1, LeftDivided DEF Handed
  <2>12. Left = Rest(r)
    BY <2>11, ConcatEmptySeq
  <2> QED
    BY <2>1, <2>4, <2>8, <2>10, <2>12
<1> QED
  BY <1>1, <1>2, <1>3, <1>4, <1>5 DEF Waiting

\* A function at every element of a sequence.
Mapped(F, s) == [i \in DOMAIN s |-> F[s[i]]]

\* It is a sequence of what the function gives,
LEMMA MappedType ==
    ASSUME NEW S, NEW T, NEW F, \A x \in S : F[x] \in T, NEW s \in Seq(S)
    PROVE  /\ Mapped(F, s) \in Seq(T) /\ Len(Mapped(F, s)) = Len(s) /\ Len(s) \in Nat
           /\ \A i \in 1..Len(s) : s[i] \in S /\ Mapped(F, s)[i] = F[s[i]]
<1>1. Len(s) \in Nat /\ DOMAIN s = 1..Len(s) /\ \A i \in 1..Len(s) : s[i] \in S
  BY LenProperties, ElementOfSeq
<1>2. Mapped(F, s) \in [1..Len(s) -> T]
  BY <1>1 DEF Mapped
<1>3. Mapped(F, s) \in Seq(T) /\ Len(Mapped(F, s)) = Len(s)
  BY <1>1, <1>2, SeqDef, LenProperties
<1> QED
  BY <1>1, <1>3 DEF Mapped

\* Sequences over the same positions are equally long.
LEMMA SameLength ==
    ASSUME NEW S, NEW T, NEW s \in Seq(S), NEW t \in Seq(T), DOMAIN t = DOMAIN s
    PROVE  Len(t) = Len(s)
<1>1. PICK m \in Nat, n \in Nat : m = Len(t) /\ n = Len(s) /\ 1..m = 1..n
  BY LenProperties
<1> QED
  BY <1>1

\* of two sequences one after the other,
LEMMA MappedJoined ==
    ASSUME NEW S, NEW F, NEW s \in Seq(S), NEW t \in Seq(S)
    PROVE  Mapped(F, s \o t) = Mapped(F, s) \o Mapped(F, t)
<1>0. PICK T : \A x \in S : F[x] \in T
  <2>1. \A x \in S : F[x] \in {F[y] : y \in S}
    OBVIOUS
  <2> QED
    BY <2>1
<1>9. ASSUME NEW w \in Seq(S) PROVE Mapped(F, w) \in Seq(T) /\ Len(Mapped(F, w)) = Len(w)
  <2>1. Mapped(F, w) \in Seq(T)
    BY <1>0, MappedType
  <2>2. DOMAIN Mapped(F, w) = DOMAIN w
    BY DEF Mapped
  <2>3. Len(Mapped(F, w)) = Len(w)
    BY <2>1, <2>2, SameLength
  <2> QED
    BY <2>1, <2>3
<1>1. PICK u \in Seq(S) : u = s \o t
  BY ConcatProperties
<1>2. PICK m \in Nat, n \in Nat : m = Len(s) /\ n = Len(t) /\ Len(u) = m + n
  BY <1>1, ConcatProperties, LenProperties
<1>3. PICK x \in Seq(T), y \in Seq(T) : x = Mapped(F, s) /\ y = Mapped(F, t)
  BY <1>9
<1>4. Len(x) = m /\ Len(y) = n
  BY <1>9, <1>2, <1>3
<1>5. Mapped(F, u) \in Seq(T) /\ Len(Mapped(F, u)) = m + n
  BY <1>9, <1>2
<1>6. x \o y \in Seq(T) /\ Len(x \o y) = m + n
  BY <1>4, ConcatProperties
<1>7. ASSUME NEW i \in 1..(m + n) PROVE Mapped(F, u)[i] = (x \o y)[i]
  <2>0. i \in 1..Len(u)
    BY <1>2
  <2>1. Mapped(F, u)[i] = F[u[i]]
    <3>1. i \in DOMAIN u
      BY <2>0, LenProperties
    <3> QED
      BY <3>1 DEF Mapped
  <2>2. CASE i <= m
    <3>1. i \in 1..m
      BY <2>2
    <3>2. u[i] = s[i] /\ (x \o y)[i] = x[i]
      BY <1>1, <1>2, <1>4, <3>1, ConcatProperties
    <3>3. x[i] = F[s[i]]
      <4>1. i \in DOMAIN s
        BY <1>2, <3>1, LenProperties
      <4> QED
        BY <1>3, <4>1 DEF Mapped
    <3> QED
      BY <2>1, <3>2, <3>3
  <2>3. CASE ~(i <= m)
    <3>1. PICK j \in 1..n : j = i - m
      BY <2>3
    <3>2. u[i] = t[j] /\ (x \o y)[i] = y[j]
      BY <1>1, <1>2, <1>4, <2>3, <3>1, ConcatProperties
    <3>3. y[j] = F[t[j]]
      <4>1. j \in DOMAIN t
        BY <1>2, <3>1, LenProperties
      <4> QED
        BY <1>3, <4>1 DEF Mapped
    <3> QED
      BY <2>1, <3>2, <3>3
  <2> QED
    BY <2>2, <2>3
<1>8. Mapped(F, u) = x \o y
  BY <1>5, <1>6, <1>7, SeqEqual
<1> QED
  BY <1>1, <1>3, <1>8

\* and of one more element at the end.
LEMMA MappedLast ==
    ASSUME NEW S, NEW F, NEW s \in Seq(S), NEW a \in S
    PROVE  Mapped(F, Append(s, a)) = Append(Mapped(F, s), F[a])
<1>0. PICK T : \A x \in S : F[x] \in T
  <2>1. \A x \in S : F[x] \in {F[y] : y \in S}
    OBVIOUS
  <2> QED
    BY <2>1
<1>1. PICK n \in Nat : n = Len(s)
  BY LenProperties
<1>2. PICK u \in Seq(S) : u = Append(s, a)
  BY AppendProperties
<1>3. Len(u) = n + 1 /\ u[n + 1] = a /\ \A i \in 1..n : u[i] = s[i]
  BY <1>1, <1>2, AppendProperties
<1>4. PICK x \in Seq(T) : x = Mapped(F, s)
  BY <1>0, MappedType
<1>5. Len(x) = n /\ (\A i \in 1..n : x[i] = F[s[i]]) /\ F[a] \in T
  BY <1>1, <1>4, <1>0, MappedType
<1>6. /\ Append(x, F[a]) \in Seq(T) /\ Len(Append(x, F[a])) = n + 1
      /\ Append(x, F[a])[n + 1] = F[a] /\ \A i \in 1..n : Append(x, F[a])[i] = x[i]
  BY <1>5, AppendProperties
<1>7. Mapped(F, u) \in Seq(T) /\ Len(Mapped(F, u)) = n + 1 /\ \A i \in 1..(n + 1) : Mapped(F, u)[i] = F[u[i]]
  <2>1. Mapped(F, u) \in Seq(T) /\ Len(Mapped(F, u)) = Len(u)
    BY <1>0, MappedType
  <2>2. DOMAIN u = 1..(n + 1)
    BY <1>3, LenProperties
  <2> QED
    BY <1>3, <2>1, <2>2 DEF Mapped
<1>8. ASSUME NEW i \in 1..(n + 1) PROVE Mapped(F, u)[i] = Append(x, F[a])[i]
  <2>1. i = n + 1 \/ i \in 1..n
    OBVIOUS
  <2> QED
    BY <1>3, <1>5, <1>6, <1>7, <2>1
<1>9. Mapped(F, u) = Append(x, F[a])
  BY <1>6, <1>7, <1>8, SeqEqual
<1> QED
  BY <1>2, <1>4, <1>9

\* The variables as URLVars stores them.
StoredVar == [a \in Var |-> [a EXCEPT !.name = Upper(@)]]

\* They have names, and are stored one by one.
LEMMA StoredIs ==
    /\ StoredVar \in [Var -> Items]
    /\ \A s \in Seq(Var) : Stored(s) = Mapped(StoredVar, s)
    /\ \A a \in Var : a.name # << >> => StoredVar[a] = [name |-> Upper(a.name), value |-> a.value]
<1>1. \A a \in Var : [a EXCEPT !.name = Upper(@)] = [name |-> Upper(a.name), value |-> a.value]
  BY DEF Var
<1>2. ASSUME NEW a \in Var PROVE [a EXCEPT !.name = Upper(@)] \in Items
  <2>1. a.name \in Seq(Plain) /\ a.value \in Seq(Plain) /\ Plain \subseteq Symbols
    BY DEF Var, Plain
  <2>2. a.name \in Seq(Symbols) /\ a.value \in Seq(Symbols)
    BY <2>1, SeqMonotonic
  <2>3. PICK n \in Seq(Symbols), v \in Seq(Symbols) : n = Upper(a.name) /\ v = a.value
    BY <2>2, UpperType
  <2>4. [name |-> n, value |-> v] \in Items
    BY DEF Items
  <2>5. [a EXCEPT !.name = Upper(@)] = [name |-> n, value |-> v]
    BY <1>1, <2>3
  <2> QED
    BY <2>4, <2>5
<1>3. StoredVar \in [Var -> Items]
  BY <1>2 DEF StoredVar
<1>4. ASSUME NEW s \in Seq(Var) PROVE Stored(s) = Mapped(StoredVar, s)
  <2>1. \A i \in DOMAIN s : s[i] \in Var
    BY LenProperties, ElementOfSeq
  <2> QED
    <3>1. \A i \in DOMAIN s : StoredVar[s[i]] = [s[i] EXCEPT !.name = Upper(@)]
      BY <2>1 DEF StoredVar
    <3> QED
      BY <3>1 DEF Stored, Mapped
<1> QED
  BY <1>1, <1>3, <1>4 DEF StoredVar

\* What has been stored grows with each variable.
LEMMA StoredGrows ==
    ASSUME NEW done \in Seq(Var), NEW a \in Var
    PROVE  Stored(Append(done, a)) = Append(Stored(done), StoredVar[a])
<1>1. Append(done, a) \in Seq(Var)
  BY AppendProperties
<1>2. Mapped(StoredVar, Append(done, a)) = Append(Mapped(StoredVar, done), StoredVar[a])
  BY MappedLast
<1>3. Stored(Append(done, a)) = Mapped(StoredVar, Append(done, a)) /\ Stored(done) = Mapped(StoredVar, done)
  BY <1>1, StoredIs, Zenon
<1> QED
  BY <1>2, <1>3, Zenon

\* It is a beginning of what will be.
LEMMA StoredBefore ==
    ASSUME NEW done \in Seq(Var), NEW todo \in Seq(Var)
    PROVE  IsPrefix(Stored(done), Stored(done \o todo))
<1>1. done \o todo \in Seq(Var)
  BY ConcatProperties
<1>2. Mapped(StoredVar, done \o todo) = Mapped(StoredVar, done) \o Mapped(StoredVar, todo)
  BY MappedJoined
<1>3. Mapped(StoredVar, done) \in Seq(Items) /\ Mapped(StoredVar, todo) \in Seq(Items)
  <2>1. \A a \in Var : StoredVar[a] \in Items
    BY StoredIs
  <2> QED
    BY <2>1, MappedType
<1>4. IsPrefix(Mapped(StoredVar, done), Mapped(StoredVar, done) \o Mapped(StoredVar, todo))
  BY <1>3, BeginsAndIs
<1>5. Stored(done \o todo) = Mapped(StoredVar, done \o todo) /\ Stored(done) = Mapped(StoredVar, done)
  BY <1>1, StoredIs, Zenon
<1> QED
  BY <1>2, <1>4, <1>5, Zenon

\* At a name, and at a value: some of the variables have been decoded, the others are left.
NameAt(items, decoded, left) ==
    \E done, todo \in Seq(Var) : items = done \o todo /\ decoded = Stored(done) /\ left = EncodeURL(todo)

ValueAt(items, decoded, name, left) ==
    \E done, t \in Seq(Var), a \in Var :
        /\ items = done \o (<<a>> \o t) /\ decoded = Stored(done) /\ name = a.name /\ a.value # << >>
        /\ left = URLEncode(a.value) \o More(t)

URLAt ==
    /\ cur = "urlVar" /\ sub.ended = FALSE
    /\ \/ proc = "name" /\ sub.delims = << <<"=">>, <<"&">> >> /\ NameAt(msg.items, got.items, Left)
       \/ proc = "value" /\ sub.delims = << <<"&">> >> /\ ValueAt(msg.items, got.items, got.name, Left)

URLRead ==
    (msg.proto = "url" /\ ~Ambiguous(msg.items) /\ failed = "") =>
        IF result = "reading" THEN URLAt ELSE got.items = Stored(msg.items)

\* The names of the new subparsers' delimiters.
LEMMA VarParsers ==
    /\ NameParser.delims = << <<"=">>, <<"&">> >> /\ NameParser.ended = FALSE /\ NameParser.buf = Empty
    /\ ValueParser.delims = << <<"&">> >> /\ ValueParser.ended = FALSE /\ ValueParser.buf = Empty
BY DEF NameParser, ValueParser, NewSubParser

\* A variable that has been decoded is the next of the form's; the form may end with it.
LEMMA OneVariable ==
    ASSUME URLAt, GotOK, NEW done \in Seq(Var), NEW a \in Var, NEW t \in Seq(Var),
           msg.items = done \o (<<a>> \o t), got.items = Stored(done),
           msg' = msg, cur' = cur, failed' = failed,
           got' = [got EXCEPT !.items = addVar(a.name, a.value)],
           proc' = "name",
           \/ /\ result' = "succeed" /\ t = << >>
           \/ /\ result' = "reading" /\ Left' = EncodeURL(t) /\ sub'.ended = FALSE
              /\ sub'.delims = << <<"=">>, <<"&">> >>
    PROVE  URLRead'
<1>1. a.name # << >> /\ a = [name |-> a.name, value |-> a.value]
  BY VarTextIs
<1>2. addVar(a.name, a.value) = Stored(Append(done, a))
  <2>1. addVar(a.name, a.value) = Append(Stored(done), [name |-> Upper(a.name), value |-> a.value])
    BY <1>1 DEF addVar
  <2> QED
    BY <1>1, <2>1, StoredIs, StoredGrows
<1>3. Append(done, a) \in Seq(Var) /\ msg.items = Append(done, a) \o t
  BY OneMore
<1>4. got'.items = Stored(Append(done, a))
  BY <1>2 DEF GotOK, GotType
<1>5. CASE result' = "succeed" /\ t = << >>
  <2>1. Append(done, a) \o << >> = Append(done, a)
    BY <1>3, ConcatEmptySeq
  <2> QED
    BY <1>3, <1>4, <1>5, <2>1 DEF URLRead
<1>6. CASE result' = "reading" /\ Left' = EncodeURL(t) /\ sub'.ended = FALSE /\ sub'.delims = << <<"=">>, <<"&">> >>
  <2>1. NameAt(msg'.items, got'.items, Left')
    BY <1>3, <1>4, <1>6 DEF NameAt
  <2>2. cur = "urlVar"
    BY DEF URLAt
  <2>3. URLAt'
    BY <1>6, <2>1, <2>2 DEF URLAt
  <2> QED
    BY <1>6, <2>3 DEF URLRead
<1> QED
  BY <1>5, <1>6

\* URLVars::changeToNextParser goes from one place to the next.
LEMMA URLVarRead ==
    ASSUME IInv, URLRead, ParseURLVar
    PROVE  URLRead'
<1>1. StreamOK /\ CurOK /\ GotOK
  BY DEF IInv
<1>2. PICK r \in Parsed("urlVar") :
        /\ Log(r) /\ Goes(r) /\ cur' = cur
        /\ \/ r.piece = << >> /\ sub' = r.sub /\ proc' = proc /\ got' = got
           \/ /\ r.piece # << >> /\ proc = "name"
              /\ r.sub.found = <<"&">> \/ r.sub.ended
              /\ got' = [got EXCEPT !.items = addVar(URLDecode(r.piece), << >>)]
              /\ sub' = r.sub /\ proc' = proc
           \/ /\ r.piece # << >> /\ proc = "name"
              /\ r.sub.found # <<"&">> /\ ~r.sub.ended
              /\ got' = [got EXCEPT !.name = URLDecode(r.piece)]
              /\ proc' = "value" /\ sub' = ValueParser
           \/ /\ r.piece # << >> /\ proc = "value"
              /\ got' = [got EXCEPT !.items = addVar(got.name, URLDecode(r.piece))]
              /\ proc' = "name" /\ sub' = NameParser
  BY DEF ParseURLVar
<1>3. msg' = msg /\ failed' = failed
  BY <1>2 DEF Log, Goes
<1> SUFFICES ASSUME msg.proto = "url", ~Ambiguous(msg.items), failed = "" PROVE URLRead'
  BY <1>3 DEF URLRead
<1>4. r \in Outcomes("urlVar")
  BY DEF Parsed
<1>5. result = "reading" /\ (pending # << >> \/ AtEOF)
  BY <1>4 DEF Outcomes
<1>6. /\ AtEOF <=> pending = << >> /\ wire = << >>
      /\ pending = << >> => wire = << >>
      /\ result' = IF pending = << >> THEN "succeed" ELSE "reading"
  BY <1>2, <1>5 DEF AtEOF, Forms, Goes
<1>7. URLAt
  BY <1>5 DEF URLRead
<1>8. cur = "urlVar" /\ sub.ended = FALSE
  BY <1>7 DEF URLAt
<1>9. /\ r.piece \in Seq(Symbols) /\ Rest(r) \in Seq(Symbols) /\ r.sub.buf = Empty
      /\ r.sub.delims = sub.delims /\ r.sub.ended = (pending = << >>)
  BY <1>1, <1>8, CallFinds DEF ByDelimiter
<1>10. sub'.buf = r.sub.buf
  BY <1>2, <1>9, VarParsers
<1>11. Left' = Rest(r)
  BY <1>2, <1>10, LeftGoes
<1>12. CASE proc = "name" /\ sub.delims = << <<"=">>, <<"&">> >> /\ NameAt(msg.items, got.items, Left)
  <2>1. PICK done, todo \in Seq(Var) : msg.items = done \o todo /\ got.items = Stored(done) /\ Left = EncodeURL(todo)
    BY <1>12 DEF NameAt
  <2>2. CASE todo = << >>
    <3>1. Left = << >>
      BY <2>1, <2>2, MoreNone
    <3>2. pending = << >>
      <4> SUFFICES ASSUME pending # << >> PROVE FALSE
        OBVIOUS
      <4>1. PICK k \in 1..Len(sub.delims) : FoundAt(r, k)
        BY <1>1, <1>8, CallFinds DEF ByDelimiter
      <4>2. sub.delims[k] = <<"=">> \/ sub.delims[k] = <<"&">>
        BY <1>12, <4>1, NoneAndOne
      <4>3. Left \in Seq(Symbols \ {"="}) /\ Left \in Seq(Symbols \ {"&"})
        BY <3>1, NoneAndOne
      <4> QED
        BY <1>9, <4>1, <4>2, <4>3, Separating, NotFoundHere
    <3>3. r.piece = << >>
      BY <1>1, <1>6, <1>8, <3>1, <3>2, CallFinds DEF ByDelimiter
    <3>4. got' = got /\ result' = "succeed"
      BY <1>2, <1>6, <3>2, <3>3
    <3>5. got.items = Stored(msg.items)
      BY <2>1, <2>2, ConcatEmptySeq
    <3> QED
      BY <1>3, <3>4, <3>5 DEF URLRead
  <2>3. CASE todo # << >>
    <3>1. PICK a \in Var, t \in Seq(Var) : todo = <<a>> \o t
      BY <2>3, HeadTail
    <3>2. msg.items = done \o (<<a>> \o t) /\ Left = EncodeURL(<<a>> \o t)
      BY <2>1, <3>1
    <3>3. /\ r.piece = URLEncode(a.name)
          /\ \/ /\ a.value # << >> /\ pending # << >> /\ r.sub.found = <<"=">>
                /\ Rest(r) = URLEncode(a.value) \o More(t)
             \/ /\ a.value = << >> /\ pending # << >> /\ r.sub.found = <<"&">>
                /\ t # << >> /\ Rest(r) = EncodeURL(t)
             \/ a.value = << >> /\ pending = << >> /\ t = << >>
      <4>1. ~Ambiguous(done \o (<<a>> \o t)) /\ (pending # << >> \/ wire = << >>)
        BY <1>6, <3>2
      <4> QED
        BY <1>1, <1>8, <1>12, <3>2, <4>1, NameCut
    <3>4. r.piece # << >> /\ URLDecode(r.piece) = a.name
      BY <3>3, VarTextIs
    <3>5. CASE a.value # << >> /\ pending # << >> /\ r.sub.found = <<"=">> /\ Rest(r) = URLEncode(a.value) \o More(t)
      <4>1. r.sub.found # <<"&">> /\ ~r.sub.ended
        BY <1>9, <3>5, NoneAndOne
      <4>2. got' = [got EXCEPT !.name = a.name] /\ proc' = "value" /\ sub' = ValueParser /\ result' = "reading"
        BY <1>2, <1>6, <1>12, <3>4, <3>5, <4>1
      <4>3. got'.items = Stored(done) /\ got'.name = a.name
        BY <1>1, <2>1, <4>2 DEF GotOK, GotType
      <4>4. ValueAt(msg'.items, got'.items, got'.name, Left')
        BY <1>3, <1>11, <3>2, <3>5, <4>3 DEF ValueAt
      <4>5. URLAt'
        BY <1>2, <1>8, <4>2, <4>4, VarParsers DEF URLAt
      <4> QED
        BY <4>2, <4>5 DEF URLRead
    <3>6. CASE a.value = << >> /\ pending # << >> /\ r.sub.found = <<"&">> /\ t # << >> /\ Rest(r) = EncodeURL(t)
      <4>1. /\ got' = [got EXCEPT !.items = addVar(a.name, a.value)] /\ proc' = "name"
            /\ sub' = r.sub /\ result' = "reading"
        BY <1>2, <1>6, <1>12, <3>4, <3>6
      <4>2. Left' = EncodeURL(t) /\ sub'.ended = FALSE /\ sub'.delims = << <<"=">>, <<"&">> >>
        BY <1>9, <1>11, <1>12, <3>6, <4>1
      <4> QED
        BY <1>1, <1>2, <1>3, <1>7, <2>1, <3>2, <4>1, <4>2, OneVariable
    <3>7. CASE a.value = << >> /\ pending = << >> /\ t = << >>
      <4>1. /\ got' = [got EXCEPT !.items = addVar(a.name, a.value)] /\ proc' = "name"
            /\ result' = "succeed"
        BY <1>2, <1>6, <1>9, <1>12, <3>4, <3>7
      <4> QED
        BY <1>1, <1>2, <1>3, <1>7, <2>1, <3>2, <3>7, <4>1, OneVariable
    <3> QED
      BY <3>3, <3>5, <3>6, <3>7
  <2> QED
    BY <2>2, <2>3
<1>13. CASE proc = "value" /\ sub.delims = << <<"&">> >> /\ ValueAt(msg.items, got.items, got.name, Left)
  <2>1. PICK done, t \in Seq(Var), a \in Var :
          /\ msg.items = done \o (<<a>> \o t) /\ got.items = Stored(done) /\ got.name = a.name /\ a.value # << >>
          /\ Left = URLEncode(a.value) \o More(t)
    BY <1>13 DEF ValueAt
  <2>2. PICK x \in Seq(Coded) : x = URLEncode(a.value) /\ x # << >> /\ URLDecode(x) = a.value
    BY <2>1, VarTextIs
  <2>3. /\ r.piece = x
        /\ \/ pending # << >> /\ t # << >> /\ Rest(r) = EncodeURL(t)
           \/ pending = << >> /\ t = << >>
    <3>1. Left = x \o More(t) /\ (pending # << >> \/ wire = << >>)
      BY <1>6, <2>1, <2>2
    <3> QED
      BY <1>1, <1>8, <1>13, <3>1, ValueCut
  <2>4. /\ got' = [got EXCEPT !.items = addVar(a.name, a.value)] /\ proc' = "name" /\ sub' = NameParser
    BY <1>2, <1>13, <2>1, <2>2, <2>3
  <2>5. \/ result' = "succeed" /\ t = << >>
        \/ /\ result' = "reading" /\ Left' = EncodeURL(t) /\ sub'.ended = FALSE
           /\ sub'.delims = << <<"=">>, <<"&">> >>
    BY <1>6, <1>11, <2>3, <2>4, VarParsers
  <2> QED
    BY <1>1, <1>2, <1>3, <1>7, <2>1, <2>4, <2>5, OneVariable
<1> QED
  BY <1>7, <1>12, <1>13 DEF URLAt

OtherThanVariables ==
    \/ ParseRequestLine \/ ParseClientHeaders \/ ParseStatus \/ ParseServerHeaders
    \/ ParseChunkSize \/ ParseChunkData \/ ParseChunkCRLF \/ ParseContentLength \/ ParseConnectionClose
    \/ ParseLine \/ ParseFirstBoundary \/ ParsePartHeaders \/ ParsePartContent \/ ParseEndPoint

\* What another parser's step could be.
LEMMA OtherParser ==
    ASSUME OtherThanVariables
    PROVE  msg' = msg /\ result = "reading" /\ cur # "urlVar" /\ (failed' = "" => failed = "")
<1>1. \E p \in {"requestLine", "headers", "status", "content", "line", "firstBoundary",
                "partHeaders", "partContent", "endpoint"} : \E r : r \in Outcomes(p) /\ Log(r)
  BY DEF OtherThanVariables, ParseRequestLine, ParseClientHeaders, ParseStatus, ParseServerHeaders,
    ParseChunkSize, ParseChunkData, ParseChunkCRLF, ParseContentLength, ParseConnectionClose,
    ParseLine, ParseFirstBoundary, ParsePartHeaders, ParsePartContent, ParseEndPoint, Parsed
<1>2. msg' = msg /\ result = "reading" /\ cur # "urlVar"
  BY <1>1 DEF Log, Outcomes
<1>3. (\E r : Goes(r)) \/ (\E why \in Whys : Fails(why))
  BY DEF OtherThanVariables, ParseRequestLine, ParseClientHeaders, ParseStatus, ParseServerHeaders,
    ParseChunkSize, ParseChunkData, ParseChunkCRLF, ParseContentLength, ParseConnectionClose,
    ParseLine, ParseFirstBoundary, ParsePartHeaders, ParsePartContent, ParseEndPoint,
    Answer, AddOption, ResponseEnds, RequestEnds, ContentGoesOn, Whys
<1> QED
  BY <1>2, <1>3 DEF Goes, Fails, Whys

\* Every step keeps the place among the variables.
LEMMA URLStep ==
    ASSUME IInv, URLRead, [Next]_vars
    PROVE  URLRead'
<1>1. StreamOK /\ CurOK
  BY DEF IInv
<1>2. CASE ParseURLVar
  BY <1>2, URLVarRead
<1>3. CASE OtherThanVariables
  <2> SUFFICES ASSUME msg.proto = "url", ~Ambiguous(msg.items), failed' = "" PROVE FALSE
    BY <1>3, OtherParser DEF URLRead
  <2>1. URLAt
    BY <1>3, OtherParser DEF URLRead
  <2> QED
    BY <1>3, <2>1, OtherParser DEF URLAt
<1>4. CASE Waiting
  <2>1. msg' = msg
    BY <1>4 DEF Waiting, Read, Finish, Disconnect, Buffer, NoRoomLeft, TTLReached, AfterEnd, vars, Log
  <2> SUFFICES ASSUME msg.proto = "url", ~Ambiguous(msg.items), failed' = "" PROVE URLRead'
    BY <2>1 DEF URLRead
  <2>2. failed = ""
    BY <1>4 DEF Waiting, Read, Finish, Disconnect, Buffer, NoRoomLeft, TTLReached, AfterEnd, vars, Goes, Fails
  <2>3. CASE result = "reading"
    <3>1. URLAt
      BY <2>2, <2>3 DEF URLRead
    <3>2. cur = "urlVar" /\ sub.mode = "delimiter" /\ msg.proto \in Forms
      BY <1>1, <3>1 DEF URLAt, CurOK, ByDelimiter, Forms
    <3>3. /\ got' = got /\ cur' = cur /\ proc' = proc /\ result' = result
          /\ Left' = Left /\ sub'.delims = sub.delims /\ sub'.ended = sub.ended
      BY <1>4, <2>3, <3>2, FormWaits
    <3>4. URLAt'
      BY <2>1, <3>1, <3>3 DEF URLAt
    <3> QED
      BY <2>3, <3>3, <3>4 DEF URLRead
  <2>4. CASE result # "reading"
    <3>1. got.items = Stored(msg.items)
      BY <2>2, <2>4 DEF URLRead
    <3>2. UNCHANGED <<got, result>>
      BY <1>4, <2>4 DEF Waiting, Read, Finish, Disconnect, Buffer, NoRoomLeft, TTLReached, AfterEnd, vars, Outcomes
    <3> QED
      BY <2>1, <2>4, <3>1, <3>2 DEF URLRead
  <2> QED
    BY <2>3, <2>4
<1> QED
  BY <1>2, <1>3, <1>4 DEF Next, Waiting, OtherThanVariables

\* They begin where they are encoded.
LEMMA URLBegins == Init => URLRead
<1> SUFFICES ASSUME Init, msg.proto = "url" PROVE URLRead
  BY DEF URLRead
<1>1. /\ msg \in Messages /\ wire = Encode(msg) /\ pending = << >>
      /\ cur = FirstParser(msg)[1] /\ sub = FirstParser(msg)[2] /\ proc = "name"
      /\ got = [line |-> << >>, options |-> << >>, content |-> << >>, name |-> << >>, items |-> << >>]
      /\ result = "reading"
  BY DEF Init
<1>2. cur = "urlVar" /\ sub = NameParser
  BY <1>1 DEF FirstParser
<1>3. Bytes(sub.buf) = << >>
  BY <1>2, VarParsers, BytesEmpty
<1>4. msg.items \in Seq(Var) /\ Encode(msg) = EncodeURL(msg.items)
  <2>1. msg \in Variables
    BY <1>1, MessagesAssumption
  <2> QED
    BY <2>1 DEF Variables, Var, Plain, Encode
<1>5. Left = EncodeURL(msg.items)
  <2>1. PICK e \in Seq(Symbols) : e = Encode(msg)
    BY <1>1, EncodeType
  <2>2. << >> \o << >> = << >> /\ << >> \o e = e
    BY ConcatEmptySeq
  <2> QED
    BY <1>1, <1>3, <1>4, <2>1, <2>2 DEF Left
<1>6. NameAt(msg.items, got.items, Left)
  <2>1. << >> \o msg.items = msg.items /\ << >> \in Seq(Var) /\ Stored(<< >>) = << >>
    BY <1>4, ConcatEmptySeq DEF Stored
  <2> QED
    BY <1>1, <1>4, <1>5, <2>1 DEF NameAt
<1>7. URLAt
  BY <1>1, <1>2, <1>6, VarParsers DEF URLAt
<1> QED
  BY <1>1, <1>7 DEF URLRead

\* What has been decoded is a beginning of the variables.
LEMMA VariablesBefore ==
    ASSUME URLAt
    PROVE  IsPrefix(got.items, Stored(msg.items))
<1>1. PICK done, todo \in Seq(Var) : msg.items = done \o todo /\ got.items = Stored(done)
  <2>1. ASSUME NEW a \in Var, NEW t \in Seq(Var) PROVE <<a>> \o t \in Seq(Var)
    BY ConsAt
  <2> QED
    BY <2>1 DEF URLAt, NameAt, ValueAt
<1>2. IsPrefix(Stored(done), Stored(done \o todo))
  BY StoredBefore
<1> QED
  BY <1>1, <1>2

\* LineRecv gives the lines that were sent, in order, and URLVars the variables that are
\* not ambiguous with their names in upper case, all of them when the form has ended and no write has failed, wherever the
\* stream is cut into writes and whatever the limits are.
THEOREM LinesAndVariablesUnderstood == Spec => []ItemsUnderstood
<1>1. Init => LinesRead /\ URLRead
  BY LinesBegin, URLBegins
<1>2. IInv /\ LinesRead /\ URLRead /\ [Next]_vars => LinesRead' /\ URLRead'
  BY LinesStep, URLStep
<1>3. IInv /\ LinesRead /\ URLRead => ItemsUnderstood
  <2> SUFFICES ASSUME IInv, LinesRead, URLRead PROVE ItemsUnderstood
    OBVIOUS
  <2>1. msg.proto = "line" => IsPrefix(got.items, msg.items)
    BY LinesBefore DEF LinesRead
  <2>2. ASSUME msg.proto = "url", ~Ambiguous(msg.items), failed = ""
        PROVE  IsPrefix(got.items, Stored(msg.items)) /\ (result = "succeed" => got.items = Stored(msg.items))
    <3>1. CASE result = "reading"
      BY <2>2, <3>1, VariablesBefore DEF URLRead
    <3>2. CASE result # "reading"
      <4>1. got.items = Stored(msg.items) /\ got.items \in Seq(Items)
        BY <2>2, <3>2 DEF URLRead, IInv, GotOK, GotType
      <4>2. IsPrefix(got.items, got.items)
        BY <4>1, BeginsAndIs
      <4> QED
        BY <4>1, <4>2
    <3> QED
      BY <3>1, <3>2
  <2> QED
    BY <2>1, <2>2 DEF ItemsUnderstood
<1> QED
  BY <1>1, <1>2, <1>3, Invariance, PTL DEF Spec

-----------------------------------------------------------------------------
(* Multipart forms *)

Part == [name : Seq(Symbols), value : Seq(Symbols)]

\* What follows the boundary after a part: another part, the end, or nothing.
AfterBoundary(t, ends) == IF t # << >> THEN CRLF ELSE IF ends THEN EndDelimiter ELSE << >>

PartPieces(items, ends) ==
    [i \in DOMAIN items |->
        Lines(items[i].name) \o CRLF \o items[i].value \o PartDelimiter
            \o (IF i < Len(items) THEN CRLF ELSE IF ends THEN EndDelimiter ELSE << >>)]

PartsText(items, ends) == FlattenSeq(PartPieces(items, ends))

\* What is left after a boundary, in the content of a part, and in its headers.
Following(t, ends) == AfterBoundary(t, ends) \o PartsText(t, ends)

ContentText(w, t, ends) == (w \o PartDelimiter) \o Following(t, ends)

HeadersText(o, w, t, ends) == Lines(o) \o (CRLF \o ContentText(w, t, ends))

\* Two sequences, one after the other.
LEMMA Joined ==
    ASSUME NEW S, NEW x \in Seq(S), NEW y \in Seq(S)
    PROVE  /\ x \o y \in Seq(S) /\ Len(x) \in Nat /\ Len(y) \in Nat /\ Len(x \o y) = Len(x) + Len(y)
           /\ \A i \in 1..Len(x) : (x \o y)[i] = x[i]
           /\ \A i \in 1..Len(y) : (x \o y)[Len(x) + i] = y[i]
BY ConcatProperties, LenProperties

\* A small fact about lengths.
LEMMA Counting ==
    ASSUME NEW i \in Nat
    PROVE  0 # 2 + i
OBVIOUS

\* A number from one on is not zero.
LEMMA OneUpTo ==
    ASSUME NEW k \in Nat, NEW n \in 1..k
    PROVE  n \in 0..k /\ n # 0
OBVIOUS

\* The delimiters of a form are made of symbols.
LEMMA Delimiters ==
    /\ PartDelimiter \in Seq(Symbols) /\ PartDelimiter # << >> /\ Len(PartDelimiter) = 5
    /\ FirstDelimiter \in Seq(Symbols) /\ FirstDelimiter # << >>
    /\ EndDelimiter \in Seq(Symbols) /\ Len(EndDelimiter) = 4 /\ EndDelimiter # << >> /\ EndDelimiter # CRLF
    /\ EndDelimiter[1] = "-" /\ EndDelimiter[2] = "-" /\ EndDelimiter[3] = CR /\ EndDelimiter[4] = LF
    /\ "-" # CR /\ "-" # LF
<1>1. CR \in Symbols /\ LF \in Symbols /\ "-" \in Symbols /\ "b" \in Symbols
  BY SymbolsAssumption
<1>2. "-" # CR /\ "-" # LF
  BY DEF CR, LF
<1>3. PICK h \in Seq(Symbols), b \in Seq(Symbols), c \in Seq(Symbols) :
        /\ h = <<"-", "-">> /\ Len(h) = 2 /\ h[1] = "-" /\ h[2] = "-"
        /\ b = Boundary /\ Len(b) = 1 /\ c = CRLF /\ Len(c) = 2 /\ c[1] = CR /\ c[2] = LF
  <2>1. Boundary \in Seq(Symbols) /\ Len(Boundary) = 1
    BY <1>1 DEF Boundary
  <2>2. /\ <<"-", "-">> \in Seq(Symbols) /\ Len(<<"-", "-">>) = 2
        /\ <<"-", "-">>[1] = "-" /\ <<"-", "-">>[2] = "-"
    BY <1>1
  <2> QED
    BY <2>1, <2>2, CRLFType
<1>4. PICK e \in Seq(Symbols) : e = h \o c /\ Len(e) = Len(h) + Len(c)
  BY Joined
<1>5. e[1] = "-" /\ e[2] = "-" /\ e[3] = CR /\ e[4] = LF /\ Len(e) = 4
  <2>1. (\A i \in 1..Len(h) : e[i] = h[i]) /\ (\A i \in 1..Len(c) : e[Len(h) + i] = c[i])
    BY <1>4, Joined
  <2>2. 1 \in 1..Len(h) /\ 2 \in 1..Len(h) /\ 1 \in 1..Len(c) /\ 2 \in 1..Len(c)
    BY <1>3
  <2>3. e[1] = h[1] /\ e[2] = h[2] /\ e[Len(h) + 1] = c[1] /\ e[Len(h) + 2] = c[2]
    BY <2>1, <2>2
  <2> QED
    BY <1>3, <1>4, <2>3
<1>6. PICK u \in Seq(Symbols), x \in Seq(Symbols) : u = c \o h /\ x = h \o b /\ Len(u) = 4 /\ Len(x) = 3
  <2>1. c \o h \in Seq(Symbols) /\ h \o b \in Seq(Symbols) /\ Len(c \o h) = Len(c) + Len(h) /\ Len(h \o b) = Len(h) + Len(b)
    BY Joined
  <2>2. Len(c \o h) = 4 /\ Len(h \o b) = 3
    BY <1>3, <2>1
  <2> QED
    BY <2>1, <2>2
<1>7. /\ u \o b \in Seq(Symbols) /\ Len(u \o b) = 5
      /\ x \o c \in Seq(Symbols) /\ Len(x \o c) = 5
  <2>1. /\ u \o b \in Seq(Symbols) /\ Len(u \o b) = Len(u) + Len(b)
        /\ x \o c \in Seq(Symbols) /\ Len(x \o c) = Len(x) + Len(c)
    BY Joined
  <2> QED
    BY <1>3, <1>6, <2>1
<1>8. PartDelimiter = u \o b /\ FirstDelimiter = x \o c /\ EndDelimiter = e
  BY <1>3, <1>4, <1>6 DEF PartDelimiter, FirstDelimiter, EndDelimiter
<1>9. Len(<< >>) = 0
  OBVIOUS
<1>10. e # << >> /\ e # c
  <2>1. 4 # 0
    OBVIOUS
  <2> QED
    BY <1>2, <1>3, <1>5, <1>9, <2>1, Zenon
<1> QED
  BY <1>2, <1>3, <1>5, <1>7, <1>8, <1>9, <1>10

\* A part is its headers, an empty line, its content and a boundary, and what follows.
LEMMA PartPiecesType ==
    ASSUME NEW items \in Seq(Part), NEW ends \in BOOLEAN
    PROVE  /\ PartPieces(items, ends) \in Seq(Seq(Symbols)) /\ Len(PartPieces(items, ends)) = Len(items)
           /\ \A i \in 1..Len(items) :
                PartPieces(items, ends)[i] =
                    Lines(items[i].name) \o CRLF \o items[i].value \o PartDelimiter
                        \o (IF i < Len(items) THEN CRLF ELSE IF ends THEN EndDelimiter ELSE << >>)
<1>1. Len(items) \in Nat /\ DOMAIN items = 1..Len(items)
  BY LenProperties
<1>2. ASSUME NEW i \in 1..Len(items)
      PROVE  Lines(items[i].name) \o CRLF \o items[i].value \o PartDelimiter
                \o (IF i < Len(items) THEN CRLF ELSE IF ends THEN EndDelimiter ELSE << >>) \in Seq(Symbols)
  <2>1. PICK a \in Part : a = items[i]
    BY ElementOfSeq
  <2>2. PICK l \in Seq(Symbols), v \in Seq(Symbols) : l = Lines(a.name) /\ v = a.value
    BY LinesType DEF Part
  <2>3. PICK f \in Seq(Symbols) : f = IF i < Len(items) THEN CRLF ELSE IF ends THEN EndDelimiter ELSE << >>
    BY CRLFType, Delimiters, NoneAndOne
  <2>4. l \o CRLF \in Seq(Symbols)
    BY CRLFType, ConcatProperties
  <2>5. (l \o CRLF) \o v \in Seq(Symbols)
    BY <2>4, ConcatProperties
  <2>6. ((l \o CRLF) \o v) \o PartDelimiter \in Seq(Symbols)
    BY <2>5, Delimiters, ConcatProperties
  <2>7. (((l \o CRLF) \o v) \o PartDelimiter) \o f \in Seq(Symbols)
    BY <2>6, ConcatProperties
  <2> QED
    BY <2>1, <2>2, <2>3, <2>7
<1>3. PartPieces(items, ends) \in [1..Len(items) -> Seq(Symbols)]
  BY <1>1, <1>2 DEF PartPieces
<1>4. PartPieces(items, ends) \in Seq(Seq(Symbols)) /\ Len(PartPieces(items, ends)) = Len(items)
  BY <1>1, <1>3, SeqDef
<1>5. \A i \in 1..Len(items) :
        PartPieces(items, ends)[i] =
            Lines(items[i].name) \o CRLF \o items[i].value \o PartDelimiter
                \o (IF i < Len(items) THEN CRLF ELSE IF ends THEN EndDelimiter ELSE << >>)
  BY <1>1, Zenon DEF PartPieces
<1> QED
  BY <1>4, <1>5, Zenon

\* No parts are nothing.
LEMMA NoParts ==
    ASSUME NEW ends
    PROVE  PartsText(<< >>, ends) = << >>
<1>1. PartPieces(<< >>, ends) = << >>
  BY DEF PartPieces
<1> QED
  BY <1>1, FlattenEmpty DEF PartsText

\* The texts are made of symbols.
LEMMA PartTextTypes ==
    ASSUME NEW t \in Seq(Part), NEW ends \in BOOLEAN, NEW w \in Seq(Symbols), NEW o \in Seq(Symbols)
    PROVE  /\ PartsText(t, ends) \in Seq(Symbols) /\ AfterBoundary(t, ends) \in Seq(Symbols)
           /\ Following(t, ends) \in Seq(Symbols)
           /\ ContentText(w, t, ends) \in Seq(Symbols)
           /\ CRLF \o ContentText(w, t, ends) \in Seq(Symbols)
           /\ Lines(o) \in Seq(Symbols)
           /\ HeadersText(o, w, t, ends) \in Seq(Symbols)
<1>1. PartsText(t, ends) \in Seq(Symbols)
  BY PartPiecesType, FlattenType DEF PartsText
<1>2. AfterBoundary(t, ends) \in Seq(Symbols)
  BY CRLFType, Delimiters DEF AfterBoundary
<1>3. Following(t, ends) \in Seq(Symbols)
  BY <1>1, <1>2, ConcatProperties DEF Following
<1>4. ContentText(w, t, ends) \in Seq(Symbols)
  <2>1. w \o PartDelimiter \in Seq(Symbols)
    BY Delimiters, ConcatProperties
  <2> QED
    BY <1>3, <2>1, ConcatProperties DEF ContentText
<1>5. CRLF \o ContentText(w, t, ends) \in Seq(Symbols)
  BY <1>4, CRLFType, ConcatProperties
<1>6. Lines(o) \in Seq(Symbols)
  BY LinesType
<1>7. HeadersText(o, w, t, ends) \in Seq(Symbols)
  BY <1>5, <1>6, ConcatProperties DEF HeadersText
<1> QED
  BY <1>1, <1>2, <1>3, <1>4, <1>5, <1>6, <1>7

\* Six sequences one after the other, in two groupings.
SixParts(S, l, c, v, p, f, g) ==
    (l \in Seq(S) /\ c \in Seq(S) /\ v \in Seq(S) /\ p \in Seq(S) /\ f \in Seq(S) /\ g \in Seq(S))
    => ((((l \o c) \o v) \o p) \o f) \o g = l \o (c \o ((v \o p) \o (f \o g)))

\* They are the same.
LEMMA AlwaysSixParts == \A S, l, c, v, p, f, g : SixParts(S, l, c, v, p, f, g)
<1> TAKE S, l, c, v, p, f, g
<1> SUFFICES ASSUME l \in Seq(S), c \in Seq(S), v \in Seq(S), p \in Seq(S), f \in Seq(S), g \in Seq(S)
             PROVE  ((((l \o c) \o v) \o p) \o f) \o g = l \o (c \o ((v \o p) \o (f \o g)))
  BY Zenon DEF SixParts
<1>1. PICK lc \in Seq(S) : lc = l \o c
  BY ConcatProperties
<1>2. PICK vp \in Seq(S) : vp = v \o p
  BY ConcatProperties
<1>3. PICK fg \in Seq(S) : fg = f \o g
  BY ConcatProperties
<1>4. PICK x \in Seq(S) : x = lc \o vp
  BY ConcatProperties
<1>5. PICK y \in Seq(S) : y = vp \o fg
  BY ConcatProperties
<1>6. (lc \o v) \o p = x
  <2>1. Assoc(S, lc, v, p)
    BY AlwaysAssoc
  <2> QED
    BY <1>2, <1>4, <2>1, Zenon DEF Assoc
<1>7. (x \o f) \o g = x \o fg
  <2>1. Assoc(S, x, f, g)
    BY AlwaysAssoc
  <2> QED
    BY <1>3, <2>1, Zenon DEF Assoc
<1>8. x \o fg = lc \o y
  <2>1. Assoc(S, lc, vp, fg)
    BY AlwaysAssoc
  <2> QED
    BY <1>4, <1>5, <2>1, Zenon DEF Assoc
<1>9. lc \o y = l \o (c \o y)
  <2>1. Assoc(S, l, c, y)
    BY AlwaysAssoc
  <2> QED
    BY <1>1, <2>1, Zenon DEF Assoc
<1> QED
  BY <1>1, <1>2, <1>3, <1>5, <1>6, <1>7, <1>8, <1>9, Zenon

\* The first part, then what follows its boundary.
LEMMA PartsFirst ==
    ASSUME NEW a \in Part, NEW t \in Seq(Part), NEW ends \in BOOLEAN
    PROVE  PartsText(<<a>> \o t, ends) = HeadersText(a.name, a.value, t, ends)
<1>1. PICK s \in Seq(Part) : s = <<a>> \o t
  BY ConsAt
<1>2. Len(s) = Len(t) + 1 /\ Len(t) \in Nat /\ s[1] = a /\ \A i \in 1..Len(t) : s[i + 1] = t[i]
  BY <1>1, ConsAt
<1>3. /\ PartPieces(s, ends) \in Seq(Seq(Symbols)) /\ Len(PartPieces(s, ends)) = Len(s)
      /\ \A i \in 1..Len(s) :
            PartPieces(s, ends)[i] =
                Lines(s[i].name) \o CRLF \o s[i].value \o PartDelimiter
                    \o (IF i < Len(s) THEN CRLF ELSE IF ends THEN EndDelimiter ELSE << >>)
  BY PartPiecesType
<1>4. /\ PartPieces(t, ends) \in Seq(Seq(Symbols)) /\ Len(PartPieces(t, ends)) = Len(t)
      /\ \A i \in 1..Len(t) :
            PartPieces(t, ends)[i] =
                Lines(t[i].name) \o CRLF \o t[i].value \o PartDelimiter
                    \o (IF i < Len(t) THEN CRLF ELSE IF ends THEN EndDelimiter ELSE << >>)
  BY PartPiecesType
<1>5. PICK ss \in Seq(Seq(Symbols)), tt \in Seq(Seq(Symbols)) : ss = PartPieces(s, ends) /\ tt = PartPieces(t, ends)
  BY <1>3, <1>4
<1>6. Len(ss) = Len(tt) + 1 /\ \A i \in 1..Len(tt) : ss[i + 1] = tt[i]
  <2>1. Len(ss) = Len(tt) + 1 /\ Len(tt) = Len(t)
    BY <1>2, <1>3, <1>4, <1>5
  <2>2. ASSUME NEW i \in 1..Len(tt) PROVE ss[i + 1] = tt[i]
    <3>1. i \in 1..Len(t)
      BY <2>1
    <3>2. PICK j \in 1..Len(s) : j = i + 1 /\ (j < Len(s) <=> i < Len(t))
      <4>1. i + 1 \in 1..Len(s) /\ (i + 1 < Len(s) <=> i < Len(t))
        BY <1>2, <3>1
      <4> QED
        BY <4>1, Zenon
    <3>3. s[j] = t[i]
      BY <1>2, <3>1, <3>2
    <3>4. ss[j] = Lines(s[j].name) \o CRLF \o s[j].value \o PartDelimiter
                    \o (IF j < Len(s) THEN CRLF ELSE IF ends THEN EndDelimiter ELSE << >>)
      BY <1>3, <1>5, Zenon
    <3>5. tt[i] = Lines(t[i].name) \o CRLF \o t[i].value \o PartDelimiter
                    \o (IF i < Len(t) THEN CRLF ELSE IF ends THEN EndDelimiter ELSE << >>)
      BY <1>4, <1>5, <3>1, Zenon
    <3>6. (IF j < Len(s) THEN CRLF ELSE IF ends THEN EndDelimiter ELSE << >>)
            = (IF i < Len(t) THEN CRLF ELSE IF ends THEN EndDelimiter ELSE << >>)
      BY <3>2
    <3> QED
      BY <3>2, <3>3, <3>4, <3>5, <3>6, Zenon
  <2> QED
    BY <2>1, <2>2
<1>7. ss[1] = (((Lines(a.name) \o CRLF) \o a.value) \o PartDelimiter) \o AfterBoundary(t, ends)
  <2>1. 1 \in 1..Len(s) /\ (1 < Len(s) <=> t # << >>)
    <3>1. t # << >> <=> Len(t) # 0
      BY EmptySeq
    <3> QED
      BY <1>2, <3>1
  <2>2. ss[1] = Lines(s[1].name) \o CRLF \o s[1].value \o PartDelimiter
                    \o (IF 1 < Len(s) THEN CRLF ELSE IF ends THEN EndDelimiter ELSE << >>)
    BY <1>3, <1>5, <2>1, Zenon
  <2>3. (IF 1 < Len(s) THEN CRLF ELSE IF ends THEN EndDelimiter ELSE << >>) = AfterBoundary(t, ends)
    BY <2>1 DEF AfterBoundary
  <2> QED
    BY <1>2, <2>2, <2>3, Zenon
<1>8. FlattenSeq(ss) = ss[1] \o FlattenSeq(tt)
  BY <1>6, FlattenFirst
<1>9. PICK l \in Seq(Symbols), v \in Seq(Symbols) : l = Lines(a.name) /\ v = a.value
  BY LinesType DEF Part
<1>10. PICK f \in Seq(Symbols), g \in Seq(Symbols) : f = AfterBoundary(t, ends) /\ g = PartsText(t, ends)
  BY <1>9, PartTextTypes
<1>11. ((((l \o CRLF) \o v) \o PartDelimiter) \o f) \o g = l \o (CRLF \o ((v \o PartDelimiter) \o (f \o g)))
  <2>1. SixParts(Symbols, l, CRLF, v, PartDelimiter, f, g)
    BY AlwaysSixParts
  <2> QED
    BY <2>1, CRLFType, Delimiters, Zenon DEF SixParts
<1>12. PartsText(<<a>> \o t, ends) = ss[1] \o g
  BY <1>1, <1>5, <1>8, <1>10 DEF PartsText
<1>13. HeadersText(a.name, a.value, t, ends) = l \o (CRLF \o ((v \o PartDelimiter) \o (f \o g)))
  BY <1>9, <1>10 DEF HeadersText, ContentText, Following
<1> QED
  BY <1>7, <1>9, <1>10, <1>11, <1>12, <1>13, Zenon

\* A subparser with one delimiter, in a form where it is still to come: the end of the form
\* is not there yet, and what is before the first one is handed over.
LEMMA FormCut ==
    ASSUME StreamOK, CurOK, NEW p \in ByDelimiter, NEW r \in Parsed(p), sub.ended = FALSE,
           pending # << >> \/ wire = << >>,
           NEW d \in Seq(Symbols), d # << >>, sub.delims = <<d>>,
           NEW x \in Seq(Symbols), NEW y \in Seq(Symbols), Left = (x \o d) \o y, Ends(x, d)
    PROVE  /\ pending # << >> /\ r.piece = x /\ Rest(r) = y
           /\ r.sub.delims = <<d>> /\ r.sub.ended = FALSE /\ r.sub.buf = Empty
<1>1. pending # << >>
  <2> SUFFICES ASSUME pending = << >> PROVE FALSE
    OBVIOUS
  <2>1. \A k \in 1..Len(sub.delims), i \in Nat : ~OccursAt(Left, sub.delims[k], i)
    BY CallFinds
  <2>2. 1 \in 1..Len(sub.delims) /\ sub.delims[1] = d
    OBVIOUS
  <2>3. OccursAt((x \o d) \o y, d, Len(x)) /\ Len(x) \in Nat
    BY OccursBetween
  <2> QED
    BY <2>1, <2>2, <2>3
<1>2. sub.mode = "delimiter"
  BY ByDelimiterParsed
<1> QED
  BY <1>1, <1>2, CutHere

\* Two cuts of one sequence, the first not after the second.
Within(S, a, b, c, d) ==
    (/\ a \in Seq(S) /\ b \in Seq(S) /\ c \in Seq(S) /\ d \in Seq(S)
     /\ a \o b = c \o d /\ Len(a) <= Len(c))
    => \E e \in Seq(S) : c = a \o e /\ b = e \o d

\* There is something between them.
LEMMA AlwaysWithin == \A S, a, b, c, d : Within(S, a, b, c, d)
<1> TAKE S, a, b, c, d
<1> SUFFICES ASSUME a \in Seq(S), b \in Seq(S), c \in Seq(S), d \in Seq(S),
                    a \o b = c \o d, Len(a) <= Len(c)
             PROVE  \E e \in Seq(S) : c = a \o e /\ b = e \o d
  BY Zenon DEF Within
<1>1. Len(a) \in 0..Len(c)
  BY LenProperties
<1>2. PICK n \in 0..Len(c) : n = Len(a)
  BY <1>1
<1>3. PICK f \in Seq(S), e \in Seq(S) : f \o e = c /\ Len(f) = n
  <2>1. SubSeq(c, 1, n) \in Seq(S) /\ After(c, n) \in Seq(S) /\ SubSeq(c, 1, n) \o After(c, n) = c /\ Len(SubSeq(c, 1, n)) = n
    BY AfterType
  <2> QED
    BY <2>1, Zenon
<1>4. PICK g \in Seq(S) : g = e \o d
  BY ConcatProperties
<1>5. c \o d = f \o g
  <2>1. Assoc(S, f, e, d)
    BY AlwaysAssoc
  <2> QED
    BY <1>3, <1>4, <2>1, Zenon DEF Assoc
<1>6. a = f /\ b = g
  <2>1. SameCut(S, a, b, f, g)
    BY AlwaysSameCut
  <2>2. a \o b = f \o g /\ Len(a) = Len(f)
    BY <1>2, <1>3, <1>5
  <2> QED
    BY <2>1, <2>2, Zenon DEF SameCut
<1> QED
  BY <1>3, <1>4, <1>6, Zenon

\* MIME_Sub_Header hands over the next header, or the empty line after the last.
LEMMA HeaderHere ==
    ASSUME StreamOK, CurOK, NEW r \in Parsed("partHeaders"), AtLine, pending # << >> \/ wire = << >>,
           NEW o \in Seq(Symbols), NEW y \in Seq(Symbols), Left = Lines(o) \o (CRLF \o y)
    PROVE  /\ pending # << >> /\ r.sub.delims = <<CRLF>> /\ r.sub.ended = FALSE /\ r.sub.buf = Empty
           /\ \/ o = << >> /\ r.piece = << >> /\ Rest(r) = y
              \/ \E b \in Symbols, q \in Seq(Symbols) :
                    o = <<b>> \o q /\ r.piece = <<b>> /\ Rest(r) = Lines(q) \o (CRLF \o y)
<1>1. "partHeaders" \in ByDelimiter /\ sub.delims = <<CRLF>> /\ sub.ended = FALSE
  BY DEF ByDelimiter, AtLine
<1>2. PICK d \in Seq(Symbols) : d = CRLF /\ d # << >>
  BY CRLFType
<1>3. PICK z \in Seq(Symbols) : z = d \o y
  BY ConcatProperties
<1>4. CASE o = << >>
  <2>1. PICK x \in Seq(Symbols) : x = << >>
    BY NoneAndOne
  <2>2. Left = (x \o d) \o y
    <3>1. x \o d = d /\ << >> \o z = z
      BY <2>1, ConcatEmptySeq
    <3> QED
      BY <1>2, <1>3, <1>4, <3>1, LinesEmpty
  <2>3. Ends(x, d)
    BY <2>1, EndsNone
  <2>4. /\ pending # << >> /\ r.piece = x /\ Rest(r) = y
        /\ r.sub.delims = <<d>> /\ r.sub.ended = FALSE /\ r.sub.buf = Empty
    BY <1>1, <1>2, <2>2, <2>3, FormCut
  <2> QED
    BY <1>2, <1>4, <2>1, <2>4
<1>5. CASE o # << >>
  <2>1. PICK b \in Symbols, q \in Seq(Symbols) : o = <<b>> \o q
    BY <1>5, HeadTail
  <2>2. PICK x \in Seq(Symbols) : x = <<b>>
    BY ConsAt
  <2>3. Ends(x, d)
    BY <1>2, <2>2, EndsOne
  <2>4. PICK l \in Seq(Symbols) : l = Lines(q)
    BY LinesType
  <2>5. PICK v \in Seq(Symbols) : v = l \o z
    BY ConcatProperties
  <2>6. PICK u \in Seq(Symbols) : u = x \o d
    BY ConcatProperties
  <2>7. Left = (x \o d) \o v
    <3>1. Lines(o) = u \o l
      BY <1>2, <2>1, <2>2, <2>4, <2>6, LinesFirst
    <3>2. Assoc(Symbols, u, l, z)
      BY AlwaysAssoc
    <3>3. (u \o l) \o z = u \o v
      BY <2>5, <3>2, Zenon DEF Assoc
    <3> QED
      BY <1>2, <1>3, <2>6, <3>1, <3>3
  <2>8. /\ pending # << >> /\ r.piece = x /\ Rest(r) = v
        /\ r.sub.delims = <<d>> /\ r.sub.ended = FALSE /\ r.sub.buf = Empty
    BY <1>1, <1>2, <2>3, <2>7, FormCut
  <2>9. Rest(r) = Lines(q) \o (CRLF \o y)
    BY <1>2, <1>3, <2>4, <2>5, <2>8
  <2> QED
    BY <1>2, <2>1, <2>2, <2>8, <2>9
<1> QED
  BY <1>4, <1>5

\* The content that has been handed over and what has to come are the part's; the boundary
\* is nowhere before its end.
LastCut(S, c, p, q, w, y, d) ==
    (/\ c \in Seq(S) /\ p \in Seq(S) /\ q \in Seq(S) /\ w \in Seq(S) /\ y \in Seq(S) /\ d \in Seq(S)
     /\ (p \o d) \o q = (w \o d) \o y /\ Ends(p, d) /\ Ends(c \o w, d))
    => p = w /\ q = y

\* A piece that ends with the boundary is then the rest of the content.
LEMMA OneLastCut == \A S, c, p, q, w, y, d : LastCut(S, c, p, q, w, y, d)
<1> TAKE S, c, p, q, w, y, d
<1> SUFFICES ASSUME c \in Seq(S), p \in Seq(S), q \in Seq(S), w \in Seq(S), y \in Seq(S), d \in Seq(S),
                    (p \o d) \o q = (w \o d) \o y, Ends(p, d), Ends(c \o w, d)
             PROVE  p = w /\ q = y
  BY Zenon DEF LastCut
<1>1. Len(w) >= Len(p)
  <2>1. NotBefore(S, w, y, p, q, d)
    BY NeverBefore
  <2> QED
    BY <2>1, Zenon DEF NotBefore
<1>2. PICK cp \in Seq(S), cw \in Seq(S), pd \in Seq(S), wd \in Seq(S) :
        cp = c \o p /\ cw = c \o w /\ pd = p \o d /\ wd = w \o d
  BY ConcatProperties
<1>3. ASSUME NEW u \in Seq(S), NEW z \in Seq(S)
      PROVE  ((c \o u) \o d) \o z = c \o ((u \o d) \o z)
  <2>1. PICK ud \in Seq(S) : ud = u \o d
    BY ConcatProperties
  <2>2. Assoc(S, c, u, d) /\ Assoc(S, c, ud, z)
    BY AlwaysAssoc
  <2>3. (c \o u) \o d = c \o ud
    BY <2>1, <2>2, Zenon DEF Assoc
  <2>4. (c \o ud) \o z = c \o (ud \o z)
    BY <2>2, Zenon DEF Assoc
  <2> QED
    BY <2>1, <2>3, <2>4, Zenon
<1>4. (cp \o d) \o q = (cw \o d) \o y
  <2>1. ((c \o p) \o d) \o q = c \o ((p \o d) \o q) /\ ((c \o w) \o d) \o y = c \o ((w \o d) \o y)
    BY <1>3
  <2>2. ((c \o p) \o d) \o q = ((c \o w) \o d) \o y
    BY <2>1, Zenon
  <2> QED
    BY <1>2, <2>2, Zenon
<1>5. Len(cp) >= Len(cw)
  <2>1. NotBefore(S, cp, q, cw, y, d)
    BY NeverBefore
  <2> QED
    BY <1>2, <1>4, <2>1, Zenon DEF NotBefore
<1>6. /\ Len(cp) = Len(c) + Len(p) /\ Len(cw) = Len(c) + Len(w)
      /\ Len(pd) = Len(p) + Len(d) /\ Len(wd) = Len(w) + Len(d)
      /\ Len(c) \in Nat /\ Len(p) \in Nat /\ Len(w) \in Nat /\ Len(d) \in Nat
  BY <1>2, Joined
<1>7. Len(p) = Len(w) /\ Len(pd) = Len(wd)
  <2>1. ASSUME NEW i \in Nat, NEW j \in Nat, NEW k \in Nat, k >= j, i + j >= i + k PROVE j = k
    BY <2>1
  <2>2. Len(p) = Len(w)
    BY <1>1, <1>5, <1>6, <2>1, Zenon
  <2> QED
    BY <1>6, <2>2, Zenon
<1>8. pd = wd /\ q = y
  <2>1. SameCut(S, pd, q, wd, y)
    BY AlwaysSameCut
  <2> QED
    BY <1>2, <1>7, <2>1, Zenon DEF SameCut
<1>9. p = w
  <2>1. SameCut(S, p, d, w, d)
    BY AlwaysSameCut
  <2> QED
    BY <1>2, <1>7, <1>8, <2>1, Zenon DEF SameCut
<1> QED
  BY <1>8, <1>9

\* MIME_Sub_Content hands over the rest of the content with the boundary, or some more of it.
LEMMA ContentHere ==
    ASSUME StreamOK, CurOK, NEW r \in Parsed("partContent"), sub.ended = FALSE, InOrder(sub.buf),
           sub.delims = <<PartDelimiter>>, pending # << >> \/ wire = << >>,
           NEW c \in Seq(Symbols), NEW w \in Seq(Symbols), NEW y \in Seq(Symbols),
           Ends(c \o w, PartDelimiter), Left = (w \o PartDelimiter) \o y
    PROVE  /\ pending # << >> /\ r.sub.delims = sub.delims /\ r.sub.ended = FALSE
           /\ \/ /\ r.sub.found = PartDelimiter /\ r.piece = w /\ Rest(r) = y /\ r.sub.buf = Empty
              \/ /\ r.sub.found = << >>
                 /\ \E e \in Seq(Symbols) : w = r.piece \o e /\ Rest(r) = (e \o PartDelimiter) \o y
<1>1. /\ r \in Outcomes(cur) /\ cur = "partContent" /\ r.ok = TRUE /\ r.piece \in Seq(Symbols)
      /\ r.sub.found # << >> => r.sub.buf = Empty
  BY ParsedKept
<1>2. PICK d \in Seq(Symbols) : d = PartDelimiter /\ d # << >>
  BY Delimiters
<1>3. SubParserOK(sub, Symbols) /\ pending \in Seq(Symbols) /\ wire \in Seq(Symbols) /\ sub.mode = "directDelimiter"
  BY <1>1 DEF CurOK, StreamOK
<1>4. r \in writeIntoParser(sub, pending)
  BY <1>1 DEF Outcomes
<1>5. sub.delims[1] = d /\ Len(sub.delims) = 1
  BY <1>2
<1>6. pending # << >>
  <2> SUFFICES ASSUME pending = << >> PROVE FALSE
    OBVIOUS
  <2>1. PICK b \in Seq(Symbols) : b = Bytes(sub.buf)
    BY LeftType
  <2>2. Left = b
    BY <2>1, ConcatEmptySeq DEF Left
  <2>3. sub.buf \in Seq(Chunk(Symbols)) /\ find(sub.buf, d) = NotFound
    BY <1>3, <1>5 DEF SubParserOK, SubParsers, NoneBuffered
  <2>4. OccursAt((w \o d) \o y, d, Len(w)) /\ Len(w) \in Nat
    BY OccursBetween
  <2> QED
    BY <1>2, <2>1, <2>2, <2>3, <2>4, FindIs
<1>7. r.sub.delims = sub.delims /\ r.sub.ended = FALSE
  <2>1. Cuts(sub, pending, r)
    BY <1>3, <1>4, WriteCuts
  <2> QED
    BY <1>6, <2>1 DEF Cuts
<1>8. CutDirectDelimiter(Symbols, sub, pending, r)
  BY <1>1, <1>3, <1>4, ContentCuts
<1>9. /\ r.parses = TRUE
      /\ Handed(r) \in Seq(Symbols) /\ Rest(r) \in Seq(Symbols) /\ Left = Handed(r) \o Rest(r)
  BY <1>1, <1>8, LeftDivided DEF CutDirectDelimiter
<1>10. CASE r.sub.found = d /\ Ends(r.piece, d)
  <2>1. Left = (r.piece \o d) \o Rest(r)
    BY <1>9, <1>10 DEF Handed
  <2>2. PICK p \in Seq(Symbols), q \in Seq(Symbols) : p = r.piece /\ q = Rest(r)
    BY <1>1, <1>9
  <2>3. (p \o d) \o q = (w \o d) \o y /\ Ends(p, d) /\ Ends(c \o w, d)
    BY <1>2, <1>10, <2>1, <2>2
  <2>4. LastCut(Symbols, c, p, q, w, y, d)
    BY OneLastCut
  <2>5. p = w /\ q = y
    BY <2>3, <2>4, Zenon DEF LastCut
  <2> QED
    BY <1>1, <1>2, <1>6, <1>7, <1>10, <2>2, <2>5
<1>11. CASE /\ r.sub.found = << >>
            /\ \A z, x, v \in Seq(Symbols) : (Bytes(sub.buf) \o pending) \o z = (x \o d) \o v => Len(r.piece) <= Len(x)
  <2>1. (Bytes(sub.buf) \o pending) \o wire = (w \o d) \o y
    BY <1>2 DEF Left
  <2>2. Len(r.piece) <= Len(w)
    BY <1>3, <1>11, <2>1
  <2>3. PICK p \in Seq(Symbols), q \in Seq(Symbols), dy \in Seq(Symbols) : p = r.piece /\ q = Rest(r) /\ dy = d \o y
    BY <1>1, <1>9, ConcatProperties
  <2>4. Left = p \o q
    <3>1. p \o << >> = p
      BY ConcatEmptySeq
    <3> QED
      BY <1>9, <1>11, <2>3, <3>1 DEF Handed
  <2>5. p \o q = w \o dy
    <3>1. Assoc(Symbols, w, d, y)
      BY AlwaysAssoc
    <3> QED
      BY <1>2, <2>3, <2>4, <3>1, Zenon DEF Assoc
  <2>6. PICK e \in Seq(Symbols) : w = p \o e /\ q = e \o dy
    <3>1. Within(Symbols, p, q, w, dy)
      BY AlwaysWithin
    <3> QED
      BY <2>2, <2>3, <2>5, <3>1, Zenon DEF Within
  <2>7. e \o dy = (e \o d) \o y
    <3>1. Assoc(Symbols, e, d, y)
      BY AlwaysAssoc
    <3> QED
      BY <2>3, <3>1, Zenon DEF Assoc
  <2> QED
    BY <1>2, <1>6, <1>7, <1>11, <2>3, <2>6, <2>7
<1> QED
  BY <1>5, <1>8, <1>10, <1>11 DEF CutDirectDelimiter

\* Parts have a first one.
LEMMA FirstPart ==
    ASSUME NEW t \in Seq(Part), t # << >>
    PROVE  \E a \in Part, u \in Seq(Part) : t = <<a>> \o u
BY HeadTail

\* What MIME_Sub_EndPBoundary could take for the end.
LEMMA EndFound ==
    ASSUME NEW t \in Seq(Part), NEW ends \in BOOLEAN,
           NEW p \in Seq(Symbols), NEW q \in Seq(Symbols), Len(p) + 4 <= EndpSize,
           CRLF \o PartsText(t, ends) = (p \o EndDelimiter) \o q
    PROVE  SeemsTheEnd(t, ends)
<1>1. PartsText(t, ends) = EncodeParts(t, ends)
  BY DEF PartsText, PartPieces, EncodeParts
<1>2. PICK e \in Seq(Symbols) : e = EndDelimiter /\ Len(e) = 4
  BY Delimiters
<1>3. Len(p) \in Nat /\ OccursAt((p \o e) \o q, e, Len(p))
  BY OccursBetween
<1>4. Len(p) + Len(e) <= EndpSize
  BY <1>2
<1>5. OccursAt(CRLF \o EncodeParts(t, ends), e, Len(p))
  BY <1>1, <1>2, <1>3
<1> QED
  BY <1>2, <1>4, <1>5, Zenon DEF OccursAt, SeemsTheEnd

\* The line's end in the end of a form comes with all of it.
LEMMA EndIsWhole ==
    ASSUME NEW p \in Seq(Symbols), NEW q \in Seq(Symbols), EndDelimiter = (p \o CRLF) \o q
    PROVE  OccursAt(p \o CRLF, EndDelimiter, 0)
<1>1. PICK d \in Seq(Symbols), e \in Seq(Symbols) :
        /\ d = CRLF /\ Len(d) = 2 /\ d[1] = CR
        /\ e = EndDelimiter /\ Len(e) = 4 /\ e[1] = "-" /\ e[2] = "-" /\ e[4] = LF
  BY CRLFType, Delimiters
<1>2. PICK pd \in Seq(Symbols) : pd = p \o d
  BY Joined
<1>3. Len(p) \in Nat /\ Len(pd) = Len(p) + 2 /\ pd[Len(p) + 1] = CR
  <2>1. Len(p) \in Nat /\ Len(pd) = Len(p) + Len(d) /\ \A i \in 1..Len(d) : pd[Len(p) + i] = d[i]
    BY <1>2, Joined
  <2>2. 1 \in 1..Len(d)
    BY <1>1
  <2> QED
    BY <1>1, <2>1, <2>2
<1>4. e = pd \o q
  BY <1>1, <1>2
<1>5. Len(q) \in Nat /\ Len(e) = Len(pd) + Len(q) /\ e[Len(p) + 1] = CR
  <2>1. Len(q) \in Nat /\ Len(e) = Len(pd) + Len(q) /\ \A i \in 1..Len(pd) : e[i] = pd[i]
    BY <1>4, Joined
  <2>2. Len(p) + 1 \in 1..Len(pd)
    BY <1>3
  <2> QED
    BY <1>3, <2>1, <2>2
<1>6. Len(p) \in {0, 1, 2}
  <2>1. ASSUME NEW n \in Nat, NEW m \in Nat, 4 = (n + 2) + m PROVE n \in {0, 1, 2}
    BY <2>1
  <2>2. 4 = (Len(p) + 2) + Len(q)
    BY <1>1, <1>3, <1>5, Zenon
  <2> QED
    BY <1>3, <1>5, <2>1, <2>2, Zenon
<1>7. "-" # CR
  BY Delimiters
<1>8. Len(p) = 2
  BY <1>1, <1>5, <1>6, <1>7
<1>9. q = << >>
  <2>1. Len(q) = 0
    BY <1>1, <1>3, <1>5, <1>8
  <2> QED
    BY <2>1, EmptySeq
<1>10. e = pd
  BY <1>4, <1>9, ConcatEmptySeq
<1>11. OccursAt((<< >> \o e) \o << >>, e, Len(<< >>))
  <2>1. PICK n \in Seq(Symbols) : n = << >>
    BY NoneAndOne
  <2> QED
    BY <2>1, OccursBetween
<1>12. (<< >> \o e) \o << >> = e /\ Len(<< >>) = 0
  BY ConcatEmptySeq
<1> QED
  BY <1>1, <1>2, <1>10, <1>11, <1>12

\* MIME_Sub_EndPBoundary finds the end of the form after the last part only, the next part
\* otherwise.
LEMMA EndpointHere ==
    ASSUME StreamOK, CurOK, NEW r \in Parsed("endpoint"), sub.ended = FALSE,
           sub.delims = <<EndDelimiter, CRLF>>, sub.max = EndpSize, pending # << >> \/ wire = << >>,
           NEW t \in Seq(Part), NEW ends \in BOOLEAN, Left = Following(t, ends),
           t # << >> => ~SeemsTheEnd(t, ends)
    PROVE  \/ pending = << >> /\ r.sub.found = << >>
           \/ pending # << >> /\ r.sub.found = EndDelimiter /\ t = << >>
           \/ /\ pending # << >> /\ r.sub.found = CRLF /\ t # << >> /\ Rest(r) = PartsText(t, ends)
<1>1. /\ r.piece \in Seq(Symbols) /\ Rest(r) \in Seq(Symbols)
      /\ pending # << >> => \E k \in 1..Len(sub.delims) : FoundAt(r, k)
      /\ pending = << >> => r.sub.found = << >>
  BY CallFinds DEF ByDelimiter
<1> SUFFICES ASSUME pending # << >>
             PROVE  \/ r.sub.found = EndDelimiter /\ t = << >>
                    \/ r.sub.found = CRLF /\ t # << >> /\ Rest(r) = PartsText(t, ends)
  BY <1>1
<1>2. PICK k \in 1..Len(sub.delims) : FoundAt(r, k)
  BY <1>1
<1>3. PICK d \in Seq(Symbols), e \in Seq(Symbols) : d = CRLF /\ Len(d) = 2 /\ e = EndDelimiter /\ Len(e) = 4
  BY CRLFType, Delimiters
<1>4. Len(sub.delims) = 2 /\ sub.delims[1] = e /\ sub.delims[2] = d
  BY <1>3
<1>5. k = 1 \/ k = 2
  BY <1>2, <1>4
<1>6. PICK p \in Seq(Symbols), q \in Seq(Symbols) : p = r.piece /\ q = Rest(r)
  BY <1>1
<1>7. PICK g \in Seq(Symbols) : g = PartsText(t, ends)
  BY PartPiecesType, FlattenType DEF PartsText
<1>8. Len(p) \in Nat /\ Len(q) \in Nat
  BY LenProperties
<1>9. CASE t # << >>
  <2>1. Left = d \o g
    BY <1>3, <1>7, <1>9 DEF Following, AfterBoundary
  <2>2. k # 1
    <3> SUFFICES ASSUME k = 1 PROVE FALSE
      OBVIOUS
    <3>1. Left = (p \o e) \o q /\ Len(p) + 4 <= EndpSize
      BY <1>2, <1>3, <1>4, <1>6 DEF FoundAt
    <3> QED
      BY <1>3, <1>7, <1>9, <2>1, <3>1, EndFound
  <2>3. Left = (p \o d) \o q /\ Ends(p, d) /\ r.sub.found = CRLF
    BY <1>2, <1>3, <1>4, <1>5, <1>6, <2>2 DEF FoundAt
  <2>4. q = g
    <3>1. PICK x \in Seq(Symbols) : x = << >>
      BY NoneAndOne
    <3>2. x \o d = d /\ Ends(x, d)
      BY <3>1, ConcatEmptySeq, EndsNone
    <3>3. (p \o d) \o q = (x \o d) \o g
      BY <2>1, <2>3, <3>2
    <3>4. FirstCut(Symbols, p, q, x, g, d)
      BY OneFirstCut
    <3> QED
      BY <2>3, <3>2, <3>3, <3>4, Zenon DEF FirstCut
  <2> QED
    BY <1>6, <1>7, <1>9, <2>3, <2>4
<1>10. CASE t = << >>
  <2>1. Left = IF ends THEN e ELSE << >>
    <3>1. g = << >>
      BY <1>7, <1>10, NoParts
    <3>2. e \o << >> = e /\ << >> \o << >> = << >>
      BY ConcatEmptySeq
    <3> QED
      BY <1>3, <1>7, <1>10, <3>1, <3>2 DEF Following, AfterBoundary
  <2>2. k = 1
    <3> SUFFICES ASSUME k = 2 PROVE FALSE
      BY <1>5
    <3>1. Left = (p \o d) \o q /\ \A i \in Nat : ~OccursAt(p \o d, e, i)
      <4>1. 1 \in 1..(k - 1)
        OBVIOUS
      <4> QED
        BY <1>2, <1>4, <1>6, <4>1 DEF FoundAt
    <3>2. CASE ends
      BY <1>3, <2>1, <3>1, <3>2, EndIsWhole
    <3>3. CASE ~ends
      <4>1. PICK pd \in Seq(Symbols) : pd = p \o d /\ Len(pd) = Len(p) + Len(d)
        BY Joined
      <4>2. Len(pd \o q) = Len(pd) + Len(q)
        BY Joined
      <4>3. Len(pd \o q) = 0
        <5>1. pd \o q = << >>
          BY <2>1, <3>1, <3>3, <4>1, Zenon
        <5>2. Len(<< >>) = 0
          OBVIOUS
        <5> QED
          BY <5>1, <5>2, Zenon
      <4> QED
        BY <1>3, <1>8, <4>1, <4>2, <4>3
    <3> QED
      BY <3>2, <3>3
  <2>3. r.sub.found = EndDelimiter
    BY <1>2, <1>3, <1>4, <2>2 DEF FoundAt
  <2> QED
    BY <1>10, <2>3
<1> QED
  BY <1>9, <1>10

-----------------------------------------------------------------------------
(* Reading a multipart form *)

FormPlain == PlainForm(msg)

\* The parts with the options that their header lines make.
KeptPart == [a \in Part |-> [a EXCEPT !.name = KeptOptions(@)]]

\* Parts are kept one by one.
LEMMA PartsOfIs ==
    /\ \A a \in Part : KeptPart[a] \in Items
    /\ \A s \in Seq(Part) : PartsOf(s) = Mapped(KeptPart, s)
    /\ \A a \in Part : KeptPart[a] = [name |-> KeptOptions(a.name), value |-> a.value]
<1>1. \A a \in Part : [a EXCEPT !.name = KeptOptions(@)] = [name |-> KeptOptions(a.name), value |-> a.value]
  BY DEF Part
<1>2. ASSUME NEW a \in Part PROVE [a EXCEPT !.name = KeptOptions(@)] \in Items
  <2>1. a.name \in Seq(Symbols) /\ a.value \in Seq(Symbols)
    BY DEF Part
  <2>2. PICK n \in Seq(Symbols), v \in Seq(Symbols) : n = KeptOptions(a.name) /\ v = a.value
    BY <2>1, KeptType
  <2>3. [name |-> n, value |-> v] \in Items
    BY DEF Items
  <2>4. [a EXCEPT !.name = KeptOptions(@)] = [name |-> n, value |-> v]
    BY <1>1, <2>2
  <2> QED
    BY <2>3, <2>4
<1>3. \A a \in Part : KeptPart[a] \in Items
  BY <1>2 DEF KeptPart
<1>4. ASSUME NEW s \in Seq(Part) PROVE PartsOf(s) = Mapped(KeptPart, s)
  <2>1. \A i \in DOMAIN s : s[i] \in Part
    BY LenProperties, ElementOfSeq
  <2>2. \A i \in DOMAIN s : KeptPart[s[i]] = [s[i] EXCEPT !.name = KeptOptions(@)]
    BY <2>1 DEF KeptPart
  <2> QED
    BY <2>2 DEF PartsOf, Mapped
<1> QED
  BY <1>1, <1>3, <1>4 DEF KeptPart

\* What has been kept grows with each part.
LEMMA PartsOfGrows ==
    ASSUME NEW done \in Seq(Part), NEW a \in Part
    PROVE  PartsOf(Append(done, a)) = Append(PartsOf(done), KeptPart[a])
<1>1. Append(done, a) \in Seq(Part)
  BY AppendProperties
<1>2. Mapped(KeptPart, Append(done, a)) = Append(Mapped(KeptPart, done), KeptPart[a])
  BY MappedLast
<1>3. PartsOf(Append(done, a)) = Mapped(KeptPart, Append(done, a)) /\ PartsOf(done) = Mapped(KeptPart, done)
  BY <1>1, PartsOfIs, Zenon
<1> QED
  BY <1>2, <1>3, Zenon

\* It is a beginning of what will be.
LEMMA PartsOfBefore ==
    ASSUME NEW done \in Seq(Part), NEW todo \in Seq(Part)
    PROVE  IsPrefix(PartsOf(done), PartsOf(done \o todo))
<1>1. done \o todo \in Seq(Part)
  BY ConcatProperties
<1>2. Mapped(KeptPart, done \o todo) = Mapped(KeptPart, done) \o Mapped(KeptPart, todo)
  BY MappedJoined
<1>3. Mapped(KeptPart, done) \in Seq(Items) /\ Mapped(KeptPart, todo) \in Seq(Items)
  <2>1. \A a \in Part : KeptPart[a] \in Items
    BY PartsOfIs
  <2> QED
    BY <2>1, MappedType
<1>4. IsPrefix(Mapped(KeptPart, done), Mapped(KeptPart, done) \o Mapped(KeptPart, todo))
  BY <1>3, BeginsAndIs
<1>5. PartsOf(done \o todo) = Mapped(KeptPart, done \o todo) /\ PartsOf(done) = Mapped(KeptPart, done)
  BY <1>1, PartsOfIs, Zenon
<1> QED
  BY <1>2, <1>4, <1>5, Zenon

\* Nothing has been kept of no parts.
LEMMA PartsOfNone == PartsOf(<< >>) = << >>
BY DEF PartsOf

\* In the headers of a part, in its content, and after its boundary: some of the parts have
\* been decoded, the others are left.
PartHeadersAt(items, decoded, name, ends, left) ==
    \E done, t \in Seq(Part), a \in Part, n, o \in Seq(Symbols) :
        /\ items = done \o (<<a>> \o t) /\ decoded = PartsOf(done)
        /\ a.name = n \o o /\ name = KeptOptions(n)
        /\ left = HeadersText(o, a.value, t, ends)

PartContentAt(items, decoded, name, content, ends, left) ==
    \E done, t \in Seq(Part), a \in Part, w \in Seq(Symbols) :
        /\ items = done \o (<<a>> \o t) /\ decoded = PartsOf(done)
        /\ name = KeptOptions(a.name) /\ a.value = content \o w
        /\ left = ContentText(w, t, ends)

EndpointAt(items, decoded, ends, left) ==
    \E done, t \in Seq(Part) :
        /\ items = done \o t /\ decoded = PartsOf(done) /\ done # << >>
        /\ left = Following(t, ends)

\* No subparser is left: what was decoded is all, or bytes are still to come.
PartsDone(items, decoded, all) ==
    \E done, t \in Seq(Part) : items = done \o t /\ decoded = PartsOf(done) /\ (all => t = << >>)

PartsAt ==
    \/ /\ cur = "firstBoundary" /\ sub.delims = <<FirstDelimiter>> /\ sub.ended = FALSE
       /\ got.name = << >> /\ got.content = << >> /\ got.items = << >>
       /\ Left = FirstDelimiter \o PartsText(msg.items, msg.ends)
    \/ /\ cur = "partHeaders" /\ AtLine /\ got.content = << >>
       /\ PartHeadersAt(msg.items, got.items, got.name, msg.ends, Left)
    \/ /\ cur = "partContent" /\ sub.delims = <<PartDelimiter>> /\ sub.ended = FALSE /\ InOrder(sub.buf)
       /\ PartContentAt(msg.items, got.items, got.name, got.content, msg.ends, Left)
    \/ /\ cur = "endpoint" /\ sub.delims = <<EndDelimiter, CRLF>> /\ sub.ended = FALSE /\ sub.max = EndpSize
       /\ got.name = << >> /\ got.content = << >>
       /\ EndpointAt(msg.items, got.items, msg.ends, Left)
    \/ /\ cur = "none"
       /\ PartsDone(msg.items, got.items, pending = << >> /\ wire = << >>)

PartsRead ==
    (msg.proto = "mime" /\ failed = "" /\ torn = FALSE /\ FormPlain) =>
        IF result = "reading" THEN PartsAt ELSE got.items = PartsOf(msg.items)

\* The new subparsers.
LEMMA PartParsers ==
    /\ FirstBoundary.delims = <<FirstDelimiter>> /\ FirstBoundary.ended = FALSE /\ FirstBoundary.buf = Empty
    /\ PartContent.delims = <<PartDelimiter>> /\ PartContent.ended = FALSE /\ PartContent.buf = Empty
    /\ EndPBoundary.delims = <<EndDelimiter, CRLF>> /\ EndPBoundary.ended = FALSE
    /\ EndPBoundary.max = EndpSize /\ EndPBoundary.buf = Empty
    /\ LineParser.buf = Empty
    /\ InOrder(Empty)
<1>1. InOrder(Empty)
  BY DEF InOrder, Empty
<1> QED
  BY <1>1 DEF FirstBoundary, PartContent, EndPBoundary, LineParser, NewSubParser

\* What a multipart message is.
LEMMA MultipartIs ==
    ASSUME msg \in Messages, msg.proto = "mime"
    PROVE  /\ msg.items \in Seq(Part) /\ msg.items # << >> /\ msg.ends \in BOOLEAN
           /\ FormPlain => Encode(msg) = FirstDelimiter \o PartsText(msg.items, msg.ends)
           /\ \A i \in 1..Len(msg.items) : Ends(msg.items[i].value, PartDelimiter)
<1>1. msg \in Multiparts
  BY MessagesAssumption
<1>2. /\ msg.items \in Seq(Part) /\ msg.items # << >> /\ msg.ends \in BOOLEAN
      /\ \A i \in DOMAIN msg.items : \A k \in 1 .. Len(msg.items[i].value) :
            SubSeq(msg.items[i].value \o PartDelimiter, k, k + Len(PartDelimiter) - 1) # PartDelimiter
  BY <1>1 DEF Multiparts, Part
<1>3. FormPlain => Encode(msg) = FirstDelimiter \o PartsText(msg.items, msg.ends)
  BY DEF FormPlain, PlainForm, Encode, EncodeMIME, EncodeParts, PartsText, PartPieces
<1>4. ASSUME NEW i \in 1..Len(msg.items) PROVE Ends(msg.items[i].value, PartDelimiter)
  <2>1. PICK v \in Seq(Symbols) : v = msg.items[i].value /\ Len(v) \in Nat
    <3>1. msg.items[i] \in Part
      BY <1>2, ElementOfSeq
    <3> QED
      BY <3>1, LenProperties DEF Part
  <2>2. \A k \in 1..Len(v) : SubSeq(v \o PartDelimiter, k, k + Len(PartDelimiter) - 1) # PartDelimiter
    <3>1. i \in DOMAIN msg.items
      BY <1>2, LenProperties
    <3> QED
      BY <1>2, <2>1, <3>1, Zenon
  <2> SUFFICES ASSUME NEW j \in Nat, OccursAt(v \o PartDelimiter, PartDelimiter, j), ~(j >= Len(v)) PROVE FALSE
    BY <2>1 DEF Ends
  <2>3. SubSeq(v \o PartDelimiter, j + 1, j + Len(PartDelimiter)) = PartDelimiter
    BY DEF OccursAt
  <2>4. PICK n \in Nat : n = Len(PartDelimiter)
    BY Delimiters, LenProperties
  <2>5. PICK k \in 1..Len(v) : k = j + 1 /\ k + n - 1 = j + n
    <3>1. j + 1 \in 1..Len(v) /\ (j + 1) + n - 1 = j + n
      BY <2>1
    <3> QED
      BY <3>1
  <2> QED
    BY <2>2, <2>3, <2>4, <2>5
<1> QED
  BY <1>2, <1>3, <1>4

\* The form stays as it is.
LEMMA SamePlain ==
    ASSUME msg' = msg
    PROVE  FormPlain' <=> FormPlain
BY DEF FormPlain

\* A part of the message has no boundary in its content.
LEMMA PartIs ==
    ASSUME msg \in Messages, msg.proto = "mime", FormPlain,
           NEW done \in Seq(Part), NEW t \in Seq(Part), NEW a \in Part, msg.items = done \o (<<a>> \o t)
    PROVE  /\ Ends(a.value, PartDelimiter)
           /\ Append(done, a) \in Seq(Part) /\ msg.items = Append(done, a) \o t
<1>1. Append(done, a) \in Seq(Part) /\ done \o (<<a>> \o t) = Append(done, a) \o t
  BY OneMore
<1>2. PICK u \in Seq(Part) : u = Append(done, a)
  BY <1>1
<1>3. Len(done) \in Nat /\ Len(u) = Len(done) + 1 /\ u[Len(done) + 1] = a
  BY <1>2, AppendProperties, LenProperties
<1>4. PICK s \in Seq(Part) : s = msg.items /\ s = u \o t
  <2>1. msg.items = u \o t
    BY <1>1, <1>2
  <2> QED
    BY <2>1, MultipartIs
<1>5. Len(s) = Len(u) + Len(t) /\ Len(t) \in Nat /\ \A i \in 1..Len(u) : s[i] = u[i]
  <2>1. Len(u \o t) = Len(u) + Len(t) /\ Len(t) \in Nat /\ \A i \in 1..Len(u) : (u \o t)[i] = u[i]
    BY Joined
  <2> QED
    BY <1>4, <2>1, Zenon
<1>6. PICK i \in 1..Len(s) : i \in 1..Len(u) /\ i = Len(done) + 1
  <2>1. Len(done) + 1 \in 1..Len(s) /\ Len(done) + 1 \in 1..Len(u)
    BY <1>3, <1>5
  <2> QED
    BY <2>1
<1>7. s[i] = a
  BY <1>3, <1>5, <1>6
<1>8. Ends(a.value, PartDelimiter)
  BY <1>4, <1>7, MultipartIs
<1> QED
  BY <1>1, <1>8

\* A sequence is not empty with one more element.
LEMMA NotEmptied ==
    ASSUME NEW S, NEW s \in Seq(S), NEW a \in S
    PROVE  Append(s, a) # << >>
BY AppendProperties

\* What follows a part does not seem to be the end.
LEMMA NotTheEnd ==
    ASSUME msg \in Messages, msg.proto = "mime", FormPlain,
           NEW done \in Seq(Part), NEW t \in Seq(Part), msg.items = done \o t, done # << >>, t # << >>
    PROVE  ~SeemsTheEnd(t, msg.ends)
<1>1. PICK n \in Nat : n = Len(done) /\ n # 0
  BY EmptySeq, LenProperties
<1>2. PICK k \in Nat : k = Len(t) /\ k # 0
  BY EmptySeq, LenProperties
<1>3. Len(done \o t) = n + k
  BY <1>1, <1>2, Joined
<1>4. After(done \o t, n) = t
  <2>1. 0 \in 0..Len(t) /\ Len(done) + 0 = n
    BY <1>1, <1>2
  <2>2. After(done \o t, Len(done) + 0) = After(t, 0)
    BY <2>1, AfterConcat
  <2> QED
    BY <2>1, <2>2, AfterNone
<1>5. ~SeemsTheEnd(After(msg.items, n), msg.ends)
  <2>1. n \in 1..(Len(msg.items) - 1)
    BY <1>1, <1>2, <1>3
  <2> QED
    BY <2>1 DEF FormPlain, PlainForm
<1> QED
  BY <1>4, <1>5

\* A call in a form happens while it is read, with bytes to write or after the last of them.
LEMMA PartCall ==
    ASSUME StreamOK, msg.proto = "mime", NEW p, NEW r \in Outcomes(p)
    PROVE  /\ result = "reading" /\ cur = p /\ (pending # << >> \/ wire = << >>)
           /\ AtEOF <=> (pending = << >> /\ wire = << >>)
BY DEF Outcomes, AtEOF, Forms

\* A call that returns before the end goes on reading; the offsets have been right if they
\* are afterwards.
LEMMA PartGoes ==
    ASSUME StreamOK, msg.proto = "mime", pending # << >>, NEW p, NEW r \in Outcomes(p), Log(r)
    PROVE  /\ msg' = msg /\ (FormPlain' <=> FormPlain)
           /\ (torn' = FALSE => torn = FALSE /\ InOrder(r.sub.buf))
           /\ Goes(r) => failed' = failed /\ result' = "reading"
<1>1. msg' = msg /\ torn' = (torn \/ ~OffsetsRight(r.sub.buf))
  BY DEF Log
<1>2. torn' = FALSE => torn = FALSE /\ OffsetsRight(r.sub.buf)
  BY <1>1 DEF StreamOK
<1>3. OffsetsRight(r.sub.buf) <=> InOrder(r.sub.buf)
  BY DEF OffsetsRight, InOrder
<1>4. Goes(r) => failed' = failed /\ result' = "reading"
  BY PartCall DEF Goes
<1> QED
  BY <1>1, <1>2, <1>3, <1>4, SamePlain

\* At the beginning of a part's headers.
LEMMA AtHeaders ==
    ASSUME NEW items, NEW decoded, NEW ends \in BOOLEAN, NEW done \in Seq(Part), NEW t \in Seq(Part),
           t # << >>, items = done \o t, decoded = PartsOf(done)
    PROVE  PartHeadersAt(items, decoded, << >>, ends, PartsText(t, ends))
<1>1. PICK a \in Part, u \in Seq(Part) : t = <<a>> \o u
  BY FirstPart
<1>2. PartsText(t, ends) = HeadersText(a.name, a.value, u, ends)
  BY <1>1, PartsFirst
<1>3. a.name \in Seq(Symbols) /\ a.name = << >> \o a.name /\ << >> \in Seq(Symbols)
  BY ConcatEmptySeq, NoneAndOne DEF Part
<1> QED
  BY <1>1, <1>2, <1>3, KeptEmpty DEF PartHeadersAt

\* FirstBoundary, then the headers of the first part.
LEMMA FirstBoundaryRead ==
    ASSUME IInv, PartsRead, ParseFirstBoundary
    PROVE  PartsRead'
<1>1. StreamOK /\ CurOK /\ GotOK
  BY DEF IInv
<1>2. PICK r \in Parsed("firstBoundary") :
        Log(r) /\ Goes(r) /\ got' = got /\ cur' = "partHeaders" /\ sub' = LineParser
  BY DEF ParseFirstBoundary, MoveTo
<1>3. msg' = msg /\ failed' = failed
  BY <1>2 DEF Log, Goes
<1> SUFFICES ASSUME msg.proto = "mime", failed = "", torn' = FALSE, FormPlain' PROVE PartsRead'
  BY <1>3 DEF PartsRead
<1>4. r \in Outcomes("firstBoundary")
  BY DEF Parsed
<1>5. result = "reading" /\ cur = "firstBoundary" /\ (pending # << >> \/ wire = << >>)
  BY <1>1, <1>4, PartCall
<1>6. torn = FALSE /\ FormPlain
  BY <1>1, <1>2, <1>3, SamePlain DEF Log, StreamOK
<1>7. /\ sub.delims = <<FirstDelimiter>> /\ sub.ended = FALSE
      /\ got.name = << >> /\ got.content = << >> /\ got.items = << >>
      /\ Left = FirstDelimiter \o PartsText(msg.items, msg.ends)
  BY <1>5, <1>6 DEF PartsRead, PartsAt
<1>8. msg.items \in Seq(Part) /\ msg.items # << >> /\ msg.ends \in BOOLEAN
  BY <1>1, MultipartIs DEF StreamOK
<1>9. PICK d \in Seq(Symbols), x \in Seq(Symbols), y \in Seq(Symbols) :
        d = FirstDelimiter /\ d # << >> /\ x = << >> /\ y = PartsText(msg.items, msg.ends)
  <2>1. PartsText(msg.items, msg.ends) \in Seq(Symbols) /\ << >> \in Seq(Symbols)
    BY <1>8, PartPiecesType, FlattenType, NoneAndOne DEF PartsText
  <2> QED
    BY <2>1, Delimiters
<1>10. Left = (x \o d) \o y /\ Ends(x, d) /\ sub.delims = <<d>>
  <2>1. x \o d = d
    BY <1>9, ConcatEmptySeq
  <2> QED
    BY <1>7, <1>9, <2>1, EndsNone
<1>11. pending # << >> /\ Rest(r) = y /\ r.sub.buf = Empty
  <2>1. "firstBoundary" \in ByDelimiter
    BY DEF ByDelimiter
  <2> QED
    BY <1>1, <1>5, <1>7, <1>9, <1>10, <2>1, FormCut
<1>12. result' = "reading"
  BY <1>1, <1>2, <1>4, <1>11, PartGoes
<1>13. Left' = y
  BY <1>2, <1>11, LeftGoes, PartParsers
<1>14. PartHeadersAt(msg.items, << >>, << >>, msg.ends, PartsText(msg.items, msg.ends))
  <2>1. << >> \o msg.items = msg.items /\ << >> \in Seq(Part)
    BY <1>8, ConcatEmptySeq, NoneAndOne
  <2> QED
    BY <1>8, <2>1, AtHeaders, PartsOfNone
<1>15. PartHeadersAt(msg'.items, got'.items, got'.name, msg'.ends, Left')
  BY <1>2, <1>3, <1>7, <1>9, <1>13, <1>14
<1>16. AtLine'
  BY <1>2, LineParserIs DEF AtLine
<1>17. PartsAt'
  BY <1>2, <1>7, <1>15, <1>16 DEF PartsAt
<1> QED
  BY <1>12, <1>17 DEF PartsRead

\* MIME_Sub_Header: one more header, or the content.
LEMMA PartHeadersRead ==
    ASSUME IInv, PartsRead, ParsePartHeaders
    PROVE  PartsRead'
<1>1. StreamOK /\ CurOK /\ GotOK
  BY DEF IInv
<1>2. PICK r \in Parsed("partHeaders") :
        /\ Log(r) /\ Goes(r)
        /\ \/ /\ r.piece # << >>
              /\ got' = [got EXCEPT !.name = parseOptionValue(got.name, r.piece)]
              /\ cur' = cur /\ sub' = r.sub
           \/ r.piece = << >> /\ cur' = "partContent" /\ sub' = PartContent /\ got' = got
  BY DEF ParsePartHeaders, MoveTo
<1>3. msg' = msg /\ failed' = failed
  BY <1>2 DEF Log, Goes
<1> SUFFICES ASSUME msg.proto = "mime", failed = "", torn' = FALSE, FormPlain' PROVE PartsRead'
  BY <1>3 DEF PartsRead
<1>4. r \in Outcomes("partHeaders")
  BY DEF Parsed
<1>5. result = "reading" /\ cur = "partHeaders" /\ (pending # << >> \/ wire = << >>)
  BY <1>1, <1>4, PartCall
<1>6. torn = FALSE /\ FormPlain
  BY <1>1, <1>2, <1>3, SamePlain DEF Log, StreamOK
<1>7. AtLine /\ got.content = << >> /\ PartHeadersAt(msg.items, got.items, got.name, msg.ends, Left)
  BY <1>5, <1>6 DEF PartsRead, PartsAt
<1>8. msg.ends \in BOOLEAN /\ msg \in Messages
  BY <1>1, MultipartIs DEF StreamOK
<1>9. PICK done, t \in Seq(Part), a \in Part, n, o \in Seq(Symbols) :
        /\ msg.items = done \o (<<a>> \o t) /\ got.items = PartsOf(done)
        /\ a.name = n \o o /\ got.name = KeptOptions(n)
        /\ Left = HeadersText(o, a.value, t, msg.ends)
  BY <1>7 DEF PartHeadersAt
<1>10. a.name \in Seq(Symbols) /\ a.value \in Seq(Symbols) /\ got.name \in Seq(Symbols)
  BY <1>1 DEF Part, GotOK, GotType
<1>11. PICK y \in Seq(Symbols) : y = ContentText(a.value, t, msg.ends)
  BY <1>8, <1>10, PartTextTypes
<1>12. Left = Lines(o) \o (CRLF \o y)
  BY <1>9, <1>11 DEF HeadersText
<1>13. /\ pending # << >> /\ r.sub.delims = <<CRLF>> /\ r.sub.ended = FALSE /\ r.sub.buf = Empty
       /\ \/ o = << >> /\ r.piece = << >> /\ Rest(r) = y
          \/ \E b \in Symbols, q \in Seq(Symbols) :
                o = <<b>> \o q /\ r.piece = <<b>> /\ Rest(r) = Lines(q) \o (CRLF \o y)
  BY <1>1, <1>5, <1>7, <1>12, HeaderHere
<1>14. result' = "reading"
  BY <1>1, <1>2, <1>4, <1>13, PartGoes
<1>15. Left' = Rest(r)
  BY <1>2, <1>13, LeftGoes, PartParsers
<1>16. CASE o = << >> /\ r.piece = << >> /\ Rest(r) = y
  <2>1. cur' = "partContent" /\ sub' = PartContent /\ got' = got
    BY <1>2, <1>16
  <2>2. got.name = KeptOptions(a.name) /\ a.value = << >> \o a.value
    BY <1>9, <1>10, <1>16, ConcatEmptySeq
  <2>3. PartContentAt(msg'.items, got'.items, got'.name, got'.content, msg'.ends, Left')
    BY <1>3, <1>7, <1>9, <1>10, <1>11, <1>15, <1>16, <2>1, <2>2 DEF PartContentAt
  <2>4. PartsAt'
    BY <2>1, <2>3, PartParsers DEF PartsAt
  <2> QED
    BY <1>14, <2>4 DEF PartsRead
<1>17. CASE \E b \in Symbols, q \in Seq(Symbols) :
                o = <<b>> \o q /\ r.piece = <<b>> /\ Rest(r) = Lines(q) \o (CRLF \o y)
  <2>1. PICK b \in Symbols, q \in Seq(Symbols) :
                o = <<b>> \o q /\ r.piece = <<b>> /\ Rest(r) = Lines(q) \o (CRLF \o y)
    BY <1>17
  <2>2. PICK x \in Seq(Symbols) : x = <<b>> /\ Len(x) = 1 /\ x # << >>
    BY <1>10, ConsAt
  <2>3. PICK nx \in Seq(Symbols) : nx = n \o x
    BY Joined
  <2>4. a.name = nx \o q
    <3>1. Assoc(Symbols, n, x, q)
      BY AlwaysAssoc
    <3>2. a.name = n \o (x \o q)
      BY <1>9, <2>1, <2>2
    <3> QED
      BY <2>3, <3>1, <3>2, Zenon DEF Assoc
  <2>5. KeptOptions(nx) = parseOptionValue(got.name, r.piece)
    <3>1. nx = Append(n, b)
      BY <2>2, <2>3, AppendIsConcat
    <3> QED
      BY <1>9, <2>1, <3>1, KeptLast
  <2>6. got' = [got EXCEPT !.name = KeptOptions(nx)] /\ cur' = cur /\ sub' = r.sub
    <3>1. r.piece # << >>
      BY <2>1, <2>2
    <3> QED
      BY <1>2, <2>5, <3>1
  <2>7. got'.name = KeptOptions(nx) /\ got'.items = PartsOf(done) /\ got'.content = << >>
    BY <1>1, <1>7, <1>9, <2>6 DEF GotOK, GotType
  <2>8. Left' = HeadersText(q, a.value, t, msg.ends)
    BY <1>11, <1>15, <2>1 DEF HeadersText
  <2>9. PartHeadersAt(msg'.items, got'.items, got'.name, msg'.ends, Left')
    BY <1>3, <1>9, <2>4, <2>7, <2>8 DEF PartHeadersAt
  <2>10. AtLine'
    BY <1>13, <2>6 DEF AtLine
  <2>11. PartsAt'
    BY <1>5, <2>6, <2>7, <2>9, <2>10 DEF PartsAt
  <2> QED
    BY <1>14, <2>11 DEF PartsRead
<1> QED
  BY <1>13, <1>16, <1>17

\* MIME_Sub_Content: more of the content, or the end of the part, after which there is
\* another or the form ends.
LEMMA PartContentRead ==
    ASSUME IInv, PartsRead, ParsePartContent
    PROVE  PartsRead'
<1>1. StreamOK /\ CurOK /\ GotOK
  BY DEF IInv
<1>2. PICK r \in Parsed("partContent") :
        /\ Log(r) /\ Goes(r)
        /\ \/ /\ r.sub.found = << >>
              /\ got' = [got EXCEPT !.content = got.content \o r.piece]
              /\ cur' = cur /\ sub' = r.sub
           \/ /\ r.sub.found # << >>
              /\ got' = [got EXCEPT !.items = Append(@, [name |-> got.name, value |-> got.content \o r.piece]),
                                    !.name = << >>, !.content = << >>]
              /\ \/ cur' = "none" /\ sub' = r.sub
                 \/ cur' = "endpoint" /\ sub' = EndPBoundary
  BY DEF ParsePartContent, MoveTo
<1>3. msg' = msg /\ failed' = failed
  BY <1>2 DEF Log, Goes
<1> SUFFICES ASSUME msg.proto = "mime", failed = "", torn' = FALSE, FormPlain' PROVE PartsRead'
  BY <1>3 DEF PartsRead
<1>4. r \in Outcomes("partContent")
  BY DEF Parsed
<1>5. result = "reading" /\ cur = "partContent" /\ (pending # << >> \/ wire = << >>)
  BY <1>1, <1>4, PartCall
<1>6. torn = FALSE /\ FormPlain
  BY <1>1, <1>2, <1>3, SamePlain DEF Log, StreamOK
<1>7. /\ sub.delims = <<PartDelimiter>> /\ sub.ended = FALSE /\ InOrder(sub.buf)
      /\ PartContentAt(msg.items, got.items, got.name, got.content, msg.ends, Left)
  BY <1>5, <1>6 DEF PartsRead, PartsAt
<1>8. msg.ends \in BOOLEAN /\ msg \in Messages
  BY <1>1, MultipartIs DEF StreamOK
<1>9. PICK done, t \in Seq(Part), a \in Part, w \in Seq(Symbols) :
        /\ msg.items = done \o (<<a>> \o t) /\ got.items = PartsOf(done) /\ got.name = KeptOptions(a.name)
        /\ a.value = got.content \o w
        /\ Left = ContentText(w, t, msg.ends)
  BY <1>7 DEF PartContentAt
<1>10. PICK c \in Seq(Symbols) : c = got.content
  BY <1>1 DEF GotOK, GotType
<1>11. Ends(c \o w, PartDelimiter)
  <2>1. Ends(a.value, PartDelimiter)
    BY <1>6, <1>8, <1>9, PartIs
  <2> QED
    BY <1>9, <1>10, <2>1
<1>12. PICK y \in Seq(Symbols) : y = Following(t, msg.ends)
  BY <1>8, PartTextTypes
<1>13. Left = (w \o PartDelimiter) \o y
  BY <1>9, <1>12 DEF ContentText
<1>14. /\ pending # << >> /\ r.sub.delims = sub.delims /\ r.sub.ended = FALSE
       /\ \/ /\ r.sub.found = PartDelimiter /\ r.piece = w /\ Rest(r) = y /\ r.sub.buf = Empty
          \/ /\ r.sub.found = << >>
             /\ \E e \in Seq(Symbols) : w = r.piece \o e /\ Rest(r) = (e \o PartDelimiter) \o y
  BY <1>1, <1>5, <1>7, <1>11, <1>13, ContentHere
<1>15. result' = "reading" /\ InOrder(r.sub.buf)
  BY <1>1, <1>2, <1>4, <1>14, PartGoes
<1>16. CASE /\ r.sub.found = << >>
            /\ \E e \in Seq(Symbols) : w = r.piece \o e /\ Rest(r) = (e \o PartDelimiter) \o y
  <2>1. PICK e \in Seq(Symbols) : w = r.piece \o e /\ Rest(r) = (e \o PartDelimiter) \o y
    BY <1>16
  <2>2. got' = [got EXCEPT !.content = c \o r.piece] /\ cur' = cur /\ sub' = r.sub
    BY <1>2, <1>10, <1>16
  <2>3. Left' = ContentText(e, t, msg.ends)
    <3>1. Left' = Rest(r)
      BY <1>2, <2>2, LeftGoes
    <3> QED
      BY <1>12, <2>1, <3>1 DEF ContentText
  <2>4. PICK p \in Seq(Symbols) : p = r.piece
    BY <1>1, ParsedKept
  <2>5. a.value = (c \o p) \o e
    <3>1. Assoc(Symbols, c, p, e)
      BY AlwaysAssoc
    <3>2. a.value = c \o (p \o e)
      BY <1>9, <1>10, <2>1, <2>4
    <3> QED
      BY <3>1, <3>2, Zenon DEF Assoc
  <2>6. got'.content = c \o p /\ got'.name = got.name /\ got'.items = PartsOf(done)
    BY <1>1, <1>9, <2>2, <2>4 DEF GotOK, GotType
  <2>7. PartContentAt(msg'.items, got'.items, got'.name, got'.content, msg'.ends, Left')
    BY <1>3, <1>9, <2>3, <2>5, <2>6 DEF PartContentAt
  <2>8. PartsAt'
    BY <1>5, <1>7, <1>14, <1>15, <2>2, <2>7 DEF PartsAt
  <2> QED
    BY <1>15, <2>8 DEF PartsRead
<1>17. CASE r.sub.found = PartDelimiter /\ r.piece = w /\ Rest(r) = y /\ r.sub.buf = Empty
  <2>1. r.sub.found # << >>
    BY <1>17, Delimiters
  <2>2. /\ got' = [got EXCEPT !.items = Append(@, [name |-> got.name, value |-> got.content \o r.piece]),
                              !.name = << >>, !.content = << >>]
        /\ \/ cur' = "none" /\ sub' = r.sub
           \/ cur' = "endpoint" /\ sub' = EndPBoundary
    BY <1>2, <2>1
  <2>3. KeptPart[a] = [name |-> got.name, value |-> got.content \o r.piece]
    <3>1. KeptPart[a] = [name |-> KeptOptions(a.name), value |-> a.value]
      BY <1>9, PartsOfIs
    <3> QED
      BY <1>9, <1>17, <3>1
  <2>4. got'.items = PartsOf(Append(done, a)) /\ got'.name = << >> /\ got'.content = << >>
    <3>1. got'.items = Append(PartsOf(done), KeptPart[a]) /\ got'.name = << >> /\ got'.content = << >>
      BY <1>1, <1>9, <2>2, <2>3 DEF GotOK, GotType
    <3> QED
      BY <1>9, <3>1, PartsOfGrows
  <2>5. Append(done, a) \in Seq(Part) /\ msg.items = Append(done, a) \o t
    BY <1>6, <1>8, <1>9, PartIs
  <2>6. Left' = Following(t, msg.ends)
    <3>1. sub'.buf = r.sub.buf
      BY <1>17, <2>2, PartParsers
    <3> QED
      BY <1>2, <1>12, <1>17, <3>1, LeftGoes
  <2>7. CASE cur' = "none" /\ sub' = r.sub
    <3>1. ASSUME pending' = << >>, wire' = << >> PROVE t = << >>
      <4>1. Bytes(sub'.buf) = << >>
        BY <1>17, <2>7, BytesEmpty
      <4>2. Left' = (<< >> \o << >>) \o << >>
        BY <3>1, <4>1 DEF Left
      <4>3. Following(t, msg.ends) = << >>
        BY <2>6, <4>2, NoneAndOne
      <4> SUFFICES ASSUME t # << >> PROVE FALSE
        OBVIOUS
      <4>4. PICK g \in Seq(Symbols) : g = PartsText(t, msg.ends)
        BY <1>8, <1>9, PartTextTypes
      <4>5. CRLF \o g = << >>
        BY <4>3, <4>4 DEF Following, AfterBoundary
      <4>6. Len(CRLF \o g) = Len(CRLF) + Len(g) /\ Len(g) \in Nat
        BY CRLFType, Joined
      <4>7. Len(CRLF) = 2 /\ Len(<< >>) = 0
        BY CRLFType
      <4>8. 0 = 2 + Len(g)
        BY <4>5, <4>6, <4>7, Zenon
      <4> QED
        BY <4>6, <4>8, Counting, Zenon
    <3>2. PartsDone(msg'.items, got'.items, pending' = << >> /\ wire' = << >>)
      BY <1>3, <1>9, <2>4, <2>5, <3>1 DEF PartsDone
    <3>3. PartsAt'
      BY <2>7, <3>2 DEF PartsAt
    <3> QED
      BY <1>15, <3>3 DEF PartsRead
  <2>8. CASE cur' = "endpoint" /\ sub' = EndPBoundary
    <3>1. EndpointAt(msg'.items, got'.items, msg'.ends, Left')
      <4>1. Append(done, a) # << >>
        BY <1>9, NotEmptied
      <4> QED
        BY <1>3, <1>9, <2>4, <2>5, <2>6, <4>1 DEF EndpointAt
    <3>2. PartsAt'
      BY <2>4, <2>8, <3>1, PartParsers DEF PartsAt
    <3> QED
      BY <1>15, <3>2 DEF PartsRead
  <2> QED
    BY <2>2, <2>7, <2>8
<1> QED
  BY <1>14, <1>16, <1>17

\* MIME_Sub_EndPBoundary: the next part, or the end of the form.
LEMMA EndPointRead ==
    ASSUME IInv, PartsRead, ParseEndPoint
    PROVE  PartsRead'
<1>1. StreamOK /\ CurOK /\ GotOK
  BY DEF IInv
<1>2. PICK r \in Parsed("endpoint") :
        /\ Log(r) /\ got' = got
        /\ \/ r.sub.found = EndDelimiter /\ cur' = "none" /\ sub' = r.sub /\ Goes(r)
           \/ r.sub.found = CRLF /\ cur' = "partHeaders" /\ sub' = LineParser /\ Goes(r)
           \/ r.sub.found = << >> /\ Fails("badData")
  BY DEF ParseEndPoint, MoveTo
<1>3. msg' = msg /\ (failed' = "" => failed = "" /\ Goes(r))
  BY <1>2 DEF Log, Goes, Fails
<1> SUFFICES ASSUME msg.proto = "mime", failed' = "", torn' = FALSE, FormPlain' PROVE PartsRead'
  BY <1>3 DEF PartsRead
<1>4. r \in Outcomes("endpoint")
  BY DEF Parsed
<1>5. result = "reading" /\ cur = "endpoint" /\ (pending # << >> \/ wire = << >>)
  BY <1>1, <1>4, PartCall
<1>6. torn = FALSE /\ FormPlain /\ failed = "" /\ Goes(r)
  BY <1>1, <1>2, <1>3, SamePlain DEF Log, StreamOK
<1>7. /\ sub.delims = <<EndDelimiter, CRLF>> /\ sub.ended = FALSE /\ sub.max = EndpSize
      /\ got.name = << >> /\ got.content = << >>
      /\ EndpointAt(msg.items, got.items, msg.ends, Left)
  BY <1>5, <1>6 DEF PartsRead, PartsAt
<1>8. msg.ends \in BOOLEAN
  BY <1>1, MultipartIs DEF StreamOK
<1>9. PICK done, t \in Seq(Part) :
        msg.items = done \o t /\ got.items = PartsOf(done) /\ done # << >> /\ Left = Following(t, msg.ends)
  BY <1>7 DEF EndpointAt
<1>30. t # << >> => ~SeemsTheEnd(t, msg.ends)
  BY <1>1, <1>6, <1>9, NotTheEnd DEF StreamOK
<1>10. \/ pending = << >> /\ r.sub.found = << >>
       \/ pending # << >> /\ r.sub.found = EndDelimiter /\ t = << >>
       \/ pending # << >> /\ r.sub.found = CRLF /\ t # << >> /\ Rest(r) = PartsText(t, msg.ends)
  BY <1>1, <1>5, <1>7, <1>8, <1>9, <1>30, EndpointHere
<1>11. EndDelimiter # << >> /\ CRLF # << >> /\ EndDelimiter # CRLF
  BY CRLFType, Delimiters, Zenon
<1>12. r.sub.found # << >>
  BY <1>2, <1>11 DEF Fails
<1>13. pending # << >> /\ result' = "reading"
  BY <1>1, <1>2, <1>4, <1>6, <1>10, <1>12, PartGoes
<1>14. CASE r.sub.found = EndDelimiter /\ t = << >>
  <2>1. cur' = "none"
    BY <1>2, <1>11, <1>14
  <2>2. PartsDone(msg'.items, got'.items, pending' = << >> /\ wire' = << >>)
    BY <1>2, <1>3, <1>9, <1>14 DEF PartsDone
  <2>3. PartsAt'
    BY <2>1, <2>2 DEF PartsAt
  <2> QED
    BY <1>13, <2>3 DEF PartsRead
<1>15. CASE r.sub.found = CRLF /\ t # << >> /\ Rest(r) = PartsText(t, msg.ends)
  <2>1. cur' = "partHeaders" /\ sub' = LineParser
    BY <1>2, <1>11, <1>15
  <2>2. r.sub.buf = Empty
    BY <1>1, ByDelimiterParsed DEF ByDelimiter
  <2>3. Left' = PartsText(t, msg.ends)
    BY <1>2, <1>6, <1>15, <2>1, <2>2, LeftGoes, PartParsers
  <2>4. PartHeadersAt(msg.items, got.items, << >>, msg.ends, PartsText(t, msg.ends))
    BY <1>8, <1>9, <1>15, AtHeaders
  <2>5. PartHeadersAt(msg'.items, got'.items, got'.name, msg'.ends, Left')
    BY <1>2, <1>3, <1>7, <2>3, <2>4
  <2>6. AtLine'
    BY <2>1, LineParserIs DEF AtLine
  <2>7. PartsAt'
    BY <1>2, <1>7, <2>1, <2>5, <2>6 DEF PartsAt
  <2> QED
    BY <1>13, <2>7 DEF PartsRead
<1> QED
  BY <1>10, <1>12, <1>14, <1>15

\* Reading and failing leave the place in a part's content, whose subparser never buffers
\* without parsing.
LEMMA ContentWaits ==
    ASSUME IInv, msg.proto \in Forms, cur = "partContent", InOrder(sub.buf), Waiting, failed' = ""
    PROVE  /\ msg' = msg /\ got' = got /\ cur' = cur /\ failed = "" /\ result' = result /\ sub' = sub
           /\ result = "reading" => Left' = Left
<1>0. StreamOK /\ CurOK
  BY DEF IInv
<1>1. CASE Read
  <2>1. Left' = Left
    BY <1>0, <1>1, LeftReads
  <2> QED
    BY <1>1, <2>1 DEF Read
<1>2. CASE Finish \/ Disconnect \/ AfterEnd
  BY <1>2 DEF Finish, Disconnect, AfterEnd, Fails
<1>3. CASE TTLReached \/ NoRoomLeft
  BY <1>3 DEF TTLReached, NoRoomLeft, Fails
<1>4. CASE UNCHANGED vars
  <2>1. UNCHANGED <<msg, wire, pending, cur, sub, proc, got, result, failed>>
    BY <1>4 DEF vars
  <2> QED
    BY <2>1 DEF Left
<1>5. CASE Buffer
  <2>1. PICK r \in Outcomes(cur) : r.ok /\ ~r.parses
    BY <1>5 DEF Buffer
  <2>2. r \in writeIntoParser(sub, pending)
    BY <2>1 DEF Outcomes
  <2>3. SubParserOK(sub, Symbols) /\ pending \in Seq(Symbols) /\ sub.mode = "directDelimiter"
    BY <1>0 DEF CurOK, StreamOK
  <2>4. r.ok = TRUE
    <3>1. Kept(sub, pending, r, Symbols)
      BY <1>0, <2>1, OutcomeKept
    <3> QED
      BY <2>1, <3>1 DEF Kept
  <2>5. r.parses = TRUE
    BY <2>2, <2>3, <2>4, ContentCuts DEF CutDirectDelimiter
  <2> QED
    BY <2>1, <2>5
<1> QED
  BY <1>1, <1>2, <1>3, <1>4, <1>5 DEF Waiting

\* With no subparser left, what has been read is not what is to come.
LEMMA DoneWaits ==
    ASSUME IInv, msg.proto = "mime", cur = "none", result = "reading", Waiting, failed' = "",
           PartsDone(msg.items, got.items, pending = << >> /\ wire = << >>)
    PROVE  /\ msg' = msg /\ got' = got /\ cur' = cur /\ failed = ""
           /\ \/ result' = "reading" /\ PartsDone(msg.items, got.items, pending' = << >> /\ wire' = << >>)
              \/ result' # "reading" /\ got.items = PartsOf(msg.items)
<1>1. CASE Read
  <2>1. PICK n \in 1..Len(wire) : pending' = SubSeq(wire, 1, n)
    BY <1>1 DEF Read
  <2>2. wire \in Seq(Symbols) /\ Len(wire) \in Nat
    BY LenProperties DEF IInv, StreamOK
  <2>3. pending' # << >>
    <3>1. n \in 0..Len(wire) /\ n # 0
      BY <2>2, OneUpTo, Zenon
    <3>2. Len(SubSeq(wire, 1, n)) = n
      BY <2>2, <3>1, AfterType
    <3>3. Len(<< >>) = 0
      OBVIOUS
    <3> QED
      BY <2>1, <3>1, <3>2, <3>3, Zenon
  <2> QED
    BY <1>1, <2>3 DEF Read, PartsDone
<1>2. CASE Finish
  <2>1. pending = << >> /\ wire = << >>
    BY <1>2 DEF Finish, AtEOF, Forms
  <2>2. PICK done, t \in Seq(Part) : msg.items = done \o t /\ got.items = PartsOf(done) /\ t = << >>
    BY <2>1 DEF PartsDone
  <2>3. done \o << >> = done
    BY <2>2, ConcatEmptySeq
  <2> QED
    BY <1>2, <2>2, <2>3 DEF Finish
<1>3. CASE UNCHANGED vars
  BY <1>3 DEF vars
<1>4. CASE Disconnect \/ Buffer \/ NoRoomLeft \/ TTLReached \/ AfterEnd
  BY <1>4 DEF Disconnect, Buffer, NoRoomLeft, TTLReached, AfterEnd, Outcomes, Fails
<1> QED
  BY <1>1, <1>2, <1>3, <1>4 DEF Waiting

\* Waiting keeps the place among the parts.
LEMMA PartsWait ==
    ASSUME IInv, PartsRead, Waiting
    PROVE  PartsRead'
<1>1. StreamOK /\ CurOK
  BY DEF IInv
<1>2. msg' = msg
  BY DEF Waiting, Read, Finish, Disconnect, Buffer, NoRoomLeft, TTLReached, AfterEnd, vars, Log
<1>3. torn' = FALSE => torn = FALSE
  <2>1. torn' = torn \/ \E r : Log(r)
    BY DEF Waiting, Read, Finish, Disconnect, Buffer, NoRoomLeft, TTLReached, AfterEnd, vars
  <2> QED
    BY <1>1, <2>1 DEF Log, StreamOK
<1> SUFFICES ASSUME msg.proto = "mime", failed' = "", torn' = FALSE, FormPlain' PROVE PartsRead'
  BY <1>2 DEF PartsRead
<1>4. failed = ""
  BY DEF Waiting, Read, Finish, Disconnect, Buffer, NoRoomLeft, TTLReached, AfterEnd, vars, Goes, Fails
<1>5. torn = FALSE /\ FormPlain /\ msg.proto \in Forms
  BY <1>2, <1>3, SamePlain DEF Forms
<1>6. CASE result # "reading"
  <2>1. got.items = PartsOf(msg.items)
    BY <1>4, <1>5, <1>6 DEF PartsRead
  <2>2. UNCHANGED <<got, result>>
    BY <1>6 DEF Waiting, Read, Finish, Disconnect, Buffer, NoRoomLeft, TTLReached, AfterEnd, vars, Outcomes
  <2> QED
    BY <1>2, <1>6, <2>1, <2>2 DEF PartsRead
<1>7. CASE result = "reading"
  <2>1. PartsAt
    BY <1>4, <1>5, <1>7 DEF PartsRead
  <2>2. CASE cur \in {"firstBoundary", "partHeaders", "endpoint"}
    <3>1. sub.mode = "delimiter" /\ cur # "none"
      BY <1>1, <2>2 DEF CurOK, ByDelimiter
    <3>2. /\ got' = got /\ cur' = cur /\ result' = result
          /\ Left' = Left /\ sub'.delims = sub.delims /\ sub'.ended = sub.ended /\ sub'.max = sub.max
      BY <1>5, <1>7, <3>1, FormWaits
    <3>3. PartsAt'
      BY <1>2, <2>1, <2>2, <3>2 DEF PartsAt, AtLine
    <3> QED
      BY <1>7, <3>2, <3>3 DEF PartsRead
  <2>3. CASE cur = "partContent"
    <3>1. InOrder(sub.buf)
      BY <2>1, <2>3 DEF PartsAt
    <3>2. got' = got /\ cur' = cur /\ result' = result /\ sub' = sub /\ Left' = Left
      BY <1>5, <1>7, <2>3, <3>1, ContentWaits
    <3>3. PartsAt'
      BY <1>2, <2>1, <2>3, <3>2 DEF PartsAt
    <3> QED
      BY <1>7, <3>2, <3>3 DEF PartsRead
  <2>4. CASE cur = "none"
    <3>1. PartsDone(msg.items, got.items, pending = << >> /\ wire = << >>)
      BY <2>1, <2>4 DEF PartsAt
    <3>2. /\ got' = got /\ cur' = cur
          /\ \/ result' = "reading" /\ PartsDone(msg.items, got.items, pending' = << >> /\ wire' = << >>)
             \/ result' # "reading" /\ got.items = PartsOf(msg.items)
      BY <1>7, <2>4, <3>1, DoneWaits
    <3>3. CASE result' = "reading" /\ PartsDone(msg.items, got.items, pending' = << >> /\ wire' = << >>)
      <4>1. PartsAt'
        BY <1>2, <2>4, <3>2, <3>3 DEF PartsAt
      <4> QED
        BY <3>3, <4>1 DEF PartsRead
    <3>4. CASE result' # "reading" /\ got.items = PartsOf(msg.items)
      BY <1>2, <3>2, <3>4 DEF PartsRead
    <3> QED
      BY <3>2, <3>3, <3>4
  <2> QED
    BY <2>1, <2>2, <2>3, <2>4 DEF PartsAt
<1> QED
  BY <1>6, <1>7

OtherThanParts ==
    \/ ParseRequestLine \/ ParseClientHeaders \/ ParseStatus \/ ParseServerHeaders
    \/ ParseChunkSize \/ ParseChunkData \/ ParseChunkCRLF \/ ParseContentLength \/ ParseConnectionClose
    \/ ParseURLVar \/ ParseLine

\* What another parser's step could be.
LEMMA NotOfParts ==
    ASSUME StreamOK, OtherThanParts
    PROVE  /\ msg' = msg /\ result = "reading"
           /\ cur \notin {"firstBoundary", "partHeaders", "partContent", "endpoint", "none"}
           /\ (failed' = "" => failed = "") /\ (torn' = FALSE => torn = FALSE)
<1>1. \E p \in {"requestLine", "headers", "status", "content", "urlVar", "line"} : \E r : r \in Outcomes(p) /\ Log(r)
  BY DEF OtherThanParts, ParseRequestLine, ParseClientHeaders, ParseStatus, ParseServerHeaders,
    ParseChunkSize, ParseChunkData, ParseChunkCRLF, ParseContentLength, ParseConnectionClose,
    ParseURLVar, ParseLine, Parsed
<1>2. /\ msg' = msg /\ result = "reading" /\ (torn' = FALSE => torn = FALSE)
      /\ cur \notin {"firstBoundary", "partHeaders", "partContent", "endpoint", "none"}
  BY <1>1 DEF Log, Outcomes, StreamOK
<1>3. (\E r : Goes(r)) \/ (\E why \in Whys : Fails(why))
  BY DEF OtherThanParts, ParseRequestLine, ParseClientHeaders, ParseStatus, ParseServerHeaders,
    ParseChunkSize, ParseChunkData, ParseChunkCRLF, ParseContentLength, ParseConnectionClose,
    ParseURLVar, ParseLine,
    Answer, AddOption, ResponseEnds, RequestEnds, ContentGoesOn, Whys
<1> QED
  BY <1>2, <1>3 DEF Goes, Fails, Whys

\* Every step keeps the place among the parts.
LEMMA PartsStep ==
    ASSUME IInv, PartsRead, [Next]_vars
    PROVE  PartsRead'
<1>1. CASE ParseFirstBoundary
  BY <1>1, FirstBoundaryRead
<1>2. CASE ParsePartHeaders
  BY <1>2, PartHeadersRead
<1>3. CASE ParsePartContent
  BY <1>3, PartContentRead
<1>4. CASE ParseEndPoint
  BY <1>4, EndPointRead
<1>5. CASE Waiting
  BY <1>5, PartsWait
<1>6. CASE OtherThanParts
  <2>1. StreamOK
    BY DEF IInv
  <2>2. /\ msg' = msg /\ result = "reading"
        /\ cur \notin {"firstBoundary", "partHeaders", "partContent", "endpoint", "none"}
        /\ (failed' = "" => failed = "") /\ (torn' = FALSE => torn = FALSE)
    BY <1>6, <2>1, NotOfParts
  <2> QED
    BY <2>2, SamePlain DEF PartsRead, PartsAt
<1> QED
  BY <1>1, <1>2, <1>3, <1>4, <1>5, <1>6 DEF Next, Waiting, OtherThanParts

\* A form begins with its first boundary.
LEMMA PartsBegin == Init => PartsRead
<1> SUFFICES ASSUME Init, msg.proto = "mime", FormPlain PROVE PartsRead
  BY DEF PartsRead
<1>1. /\ msg \in Messages /\ wire = Encode(msg) /\ pending = << >>
      /\ cur = FirstParser(msg)[1] /\ sub = FirstParser(msg)[2]
      /\ got = [line |-> << >>, options |-> << >>, content |-> << >>, name |-> << >>, items |-> << >>]
      /\ result = "reading"
  BY DEF Init
<1>2. cur = "firstBoundary" /\ sub = FirstBoundary
  BY <1>1 DEF FirstParser
<1>3. Bytes(sub.buf) = << >>
  BY <1>2, PartParsers, BytesEmpty
<1>4. Encode(msg) = FirstDelimiter \o PartsText(msg.items, msg.ends)
  BY <1>1, MultipartIs
<1>5. Left = FirstDelimiter \o PartsText(msg.items, msg.ends)
  <2>1. PICK e \in Seq(Symbols) : e = Encode(msg)
    BY <1>1, EncodeType
  <2>2. << >> \o << >> = << >> /\ << >> \o e = e
    BY ConcatEmptySeq
  <2> QED
    BY <1>1, <1>3, <1>4, <2>1, <2>2 DEF Left
<1>6. PartsAt
  BY <1>1, <1>2, <1>5, PartParsers DEF PartsAt
<1> QED
  BY <1>1, <1>6 DEF PartsRead

\* What has been decoded is a beginning of the parts.
LEMMA PartsBefore ==
    ASSUME msg.items \in Seq(Part), PartsAt
    PROVE  IsPrefix(got.items, PartsOf(msg.items))
<1>1. \E done, todo \in Seq(Part) : msg.items = done \o todo /\ got.items = PartsOf(done)
  <2>1. ASSUME NEW a \in Part, NEW t \in Seq(Part) PROVE <<a>> \o t \in Seq(Part)
    BY ConsAt
  <2>2. << >> \in Seq(Part) /\ << >> \o msg.items = msg.items
    BY NoneAndOne, ConcatEmptySeq
  <2> QED
    BY <2>1, <2>2, PartsOfNone DEF PartsAt, PartHeadersAt, PartContentAt, EndpointAt, PartsDone
<1>2. PICK done, todo \in Seq(Part) : msg.items = done \o todo /\ got.items = PartsOf(done)
  BY <1>1
<1>3. IsPrefix(PartsOf(done), PartsOf(done \o todo))
  BY PartsOfBefore
<1> QED
  BY <1>2, <1>3

\* MIME_Message gives the parts that a browser has sent, in order, each with the options that
\* MIME_Sub_Header makes of its header lines (a line without ": " dropped, a folded one
\* joined to the option before it), and all of them when the form has ended, wherever it is
\* cut into writes and whatever the limits are, as long as no write has failed and the
\* offsets of the chunks have been right.
THEOREM MultipartsUnderstood == Spec => []PartsUnderstood
<1>1. Init => PartsRead
  BY PartsBegin
<1>2. IInv /\ PartsRead /\ [Next]_vars => PartsRead'
  BY PartsStep
<1>3. IInv /\ PartsRead => PartsUnderstood
  <2> SUFFICES ASSUME IInv, PartsRead, msg.proto = "mime", failed = "", ~torn, FormPlain
               PROVE  IsPrefix(got.items, PartsOf(msg.items)) /\ (result = "succeed" => got.items = PartsOf(msg.items))
    BY DEF PartsUnderstood, FormPlain
  <2>1. torn = FALSE /\ msg.items \in Seq(Part)
    BY MultipartIs DEF IInv, StreamOK
  <2>2. CASE result = "reading"
    BY <2>1, <2>2, PartsBefore DEF PartsRead
  <2>3. CASE result # "reading"
    <3>1. got.items = PartsOf(msg.items) /\ got.items \in Seq(Items)
      BY <2>1, <2>3 DEF PartsRead, IInv, GotOK, GotType
    <3>2. IsPrefix(got.items, got.items)
      BY <3>1, BeginsAndIs
    <3> QED
      BY <3>1, <3>2
  <2> QED
    BY <2>2, <2>3
<1> QED
  BY <1>1, <1>2, <1>3, Invariance, PTL DEF Spec
=============================================================================
