------------------------ MODULE StreamParser_proofs ------------------------
(***************************************************************************)
(* Proofs about StreamParser, for every set of messages, every cut of them *)
(* into writes and every limit.                                            *)
(*                                                                         *)
(* That no byte is lost or repeated depends on what the subparser holds    *)
(* between two calls: no delimiter (SubParserOK), or the count of the      *)
(* bytes taken would be wrong; and on which mode the current subparser is  *)
(* in, since its buffer must be empty when another one takes its place.    *)
(***************************************************************************)
EXTENDS StreamParser, SubParser_proofs

-----------------------------------------------------------------------------
(* The inductive invariant *)

ByDelimiter ==
    {"requestLine", "status", "headers", "urlVar", "firstBoundary", "partHeaders", "endpoint", "line"}

StreamOK ==
    /\ msg \in Messages
    /\ wire \in Seq(Symbols) /\ pending \in Seq(Symbols) /\ log \in Seq(Symbols)
    /\ \E u \in Seq(Symbols) : Encode(msg) = u \o (pending \o wire)
    /\ ttl \in 0 .. MaxTTL + 1
    /\ result \in {"reading", "succeed", "failed", "readError"}
    /\ failed \in {"", "noRoom", "badData", "upstream", "refused", "ttl", "afterEnd"}
    /\ torn \in BOOLEAN

\* The subparser is in order, and in the mode of the current parser.
CurOK ==
    /\ SubParserOK(sub, Symbols)
    /\ cur \in ByDelimiter \cup {"partContent", "content", "none"}
    /\ proc \in {"", "chunkSize", "chunkData", "chunkCRLF", "length", "close", "name", "value"}
    /\ answered \in {"none", "app", "505", "400", "413"}
    /\ cur \in ByDelimiter => sub.mode = "delimiter"
    /\ cur = "partContent" => sub.mode = "directDelimiter"
    /\ cur = "content" =>
        /\ proc = "chunkSize" => sub.mode = "delimiter"
        /\ proc \in {"chunkData", "chunkCRLF"} => sub.mode = "size"
        /\ proc \in {"length", "close"} => sub.mode = "direct"

Items == [name : Seq(Symbols), value : Seq(Symbols)] \cup [value : Seq(Symbols)]

GotType ==
    [line : Seq(Symbols), options : Seq(Symbols), content : Seq(Symbols),
     name : Seq(Symbols), items : Seq(Items)]

\* What has been decoded, within its limits.
GotOK ==
    /\ got \in GotType
    /\ Len(got.options) <= MaxOptions
    /\ cur = "urlVar" => msg.proto = "url"
    /\ cur = "line" => msg.proto = "line"
    /\ (msg.proto = "mime" /\ MaxParts > 0) =>
        /\ Len(got.items) <= MaxParts
        /\ cur # "none" => Len(got.items) < MaxParts

IInv == StreamOK /\ CurOK /\ GotOK /\ Conservation

-----------------------------------------------------------------------------
(* The subparsers *)

\* The subparsers that are set when another begins are in order.
LEMMA ParsersOK ==
    /\ SubParserOK(LineParser, Symbols) /\ LineParser.mode = "delimiter"
    /\ SubParserOK(NameParser, Symbols) /\ NameParser.mode = "delimiter"
    /\ SubParserOK(ValueParser, Symbols) /\ ValueParser.mode = "delimiter"
    /\ SubParserOK(LinesParser, Symbols) /\ LinesParser.mode = "delimiter"
    /\ SubParserOK(FirstBoundary, Symbols) /\ FirstBoundary.mode = "delimiter"
    /\ SubParserOK(EndPBoundary, Symbols) /\ EndPBoundary.mode = "delimiter"
    /\ SubParserOK(PartContent, Symbols) /\ PartContent.mode = "directDelimiter"
    /\ LineParser.buf = Empty /\ NameParser.buf = Empty /\ ValueParser.buf = Empty
    /\ LinesParser.buf = Empty /\ FirstBoundary.buf = Empty /\ EndPBoundary.buf = Empty
    /\ PartContent.buf = Empty
<1>1. ASSUME NEW d \in Seq(Symbols), d # << >>, NEW max \in Nat
      PROVE  /\ SubParserOK(NewSubParser("delimiter", <<d>>, max), Symbols)
             /\ NewSubParser("delimiter", <<d>>, max).mode = "delimiter"
             /\ SubParserOK(NewSubParser("directDelimiter", <<d>>, max), Symbols)
             /\ NewSubParser("directDelimiter", <<d>>, max).mode = "directDelimiter"
  <2>1. <<d>> \in Seq(Seq(Symbols)) /\ Len(<<d>>) = 1 /\ \A k \in 1..Len(<<d>>) : <<d>>[k] # << >>
    BY <1>1
  <2> QED
    BY <2>1, NewSubParserOK DEF Modes
<1>2. ASSUME NEW d \in Seq(Symbols), d # << >>, NEW e \in Seq(Symbols), e # << >>, NEW max \in Nat
      PROVE  /\ SubParserOK(NewSubParser("delimiter", <<d, e>>, max), Symbols)
             /\ NewSubParser("delimiter", <<d, e>>, max).mode = "delimiter"
  <2>1. <<d, e>> \in Seq(Seq(Symbols)) /\ \A k \in 1..Len(<<d, e>>) : <<d, e>>[k] # << >>
    BY <1>2
  <2> QED
    BY <2>1, NewSubParserOK DEF Modes
<1>3. CR \in Symbols /\ LF \in Symbols /\ "-" \in Symbols /\ "b" \in Symbols /\ "=" \in Symbols /\ "&" \in Symbols
  BY SymbolsAssumption
<1>4. CRLF \in Seq(Symbols) /\ CRLF # << >> /\ Len(CRLF) = 2
  BY <1>3 DEF CRLF
<1>5. /\ <<"=">> \in Seq(Symbols) /\ <<"&">> \in Seq(Symbols) /\ <<LF>> \in Seq(Symbols) /\ <<CR>> \in Seq(Symbols)
      /\ <<"=">> # << >> /\ <<"&">> # << >> /\ <<LF>> # << >> /\ <<CR>> # << >>
  BY <1>3
<1>6. /\ Boundary \in Seq(Symbols) /\ Len(Boundary) = 1
      /\ <<"-", "-">> \in Seq(Symbols) /\ Len(<<"-", "-">>) = 2
  BY <1>3 DEF Boundary
<1>7. /\ FirstDelimiter \in Seq(Symbols) /\ FirstDelimiter # << >>
      /\ PartDelimiter \in Seq(Symbols) /\ PartDelimiter # << >>
      /\ EndDelimiter \in Seq(Symbols) /\ EndDelimiter # << >>
  <2>1. ASSUME NEW x \in Seq(Symbols), NEW y \in Seq(Symbols), Len(y) = 2
        PROVE  x \o y \in Seq(Symbols) /\ x \o y # << >>
    <3>1. x \o y \in Seq(Symbols) /\ Len(x \o y) = Len(x) + Len(y) /\ Len(x) \in Nat
      BY ConcatProperties, LenProperties
    <3>2. Len(x \o y) # 0
      BY <2>1, <3>1
    <3> QED
      BY <3>1, <3>2, EmptySeq
  <2>2. <<"-", "-">> \o Boundary \in Seq(Symbols) /\ CRLF \o <<"-", "-">> \in Seq(Symbols)
    BY <1>4, <1>6, ConcatProperties
  <2>3. FirstDelimiter \in Seq(Symbols) /\ FirstDelimiter # << >>
    BY <1>4, <2>1, <2>2 DEF FirstDelimiter
  <2>4. EndDelimiter \in Seq(Symbols) /\ EndDelimiter # << >>
    BY <1>4, <1>6, <2>1 DEF EndDelimiter
  <2>5. PartDelimiter \in Seq(Symbols) /\ PartDelimiter # << >>
    <3>1. PICK x \in Seq(Symbols) : x = CRLF \o <<"-", "-">>
      BY <2>2
    <3>2. x \o Boundary \in Seq(Symbols) /\ Len(x \o Boundary) = Len(x) + 1 /\ Len(x) \in Nat
      BY <1>6, ConcatProperties, LenProperties
    <3>3. x \o Boundary # << >>
      BY <3>2, EmptySeq
    <3> QED
      BY <3>1, <3>2, <3>3 DEF PartDelimiter
  <2> QED
    BY <2>3, <2>4, <2>5
<1>8. {MaxLine, MaxVar, Len(Boundary) + MaxLine, MaxPost + Len(Boundary) + 4, EndpSize} \subseteq Nat
  BY <1>6, StreamParserAssumption
<1>9. ASSUME NEW m, NEW ds, NEW max PROVE NewSubParser(m, ds, max).buf = Empty
  BY DEF NewSubParser
<1>10. /\ SubParserOK(LineParser, Symbols) /\ LineParser.mode = "delimiter" /\ LineParser.buf = Empty
  BY <1>1, <1>4, <1>8, <1>9 DEF LineParser
<1>11. /\ SubParserOK(NameParser, Symbols) /\ NameParser.mode = "delimiter" /\ NameParser.buf = Empty
  BY <1>2, <1>5, <1>8, <1>9 DEF NameParser
<1>12. /\ SubParserOK(ValueParser, Symbols) /\ ValueParser.mode = "delimiter" /\ ValueParser.buf = Empty
  <2>1. <<"&">> \in Seq(Symbols) /\ <<"&">> # << >> /\ MaxVar \in Nat
    BY <1>5, <1>8
  <2>2. PICK d \in Seq(Symbols), max \in Nat : d = <<"&">> /\ max = MaxVar /\ d # << >>
    BY <2>1
  <2>3. /\ SubParserOK(NewSubParser("delimiter", <<d>>, max), Symbols)
        /\ NewSubParser("delimiter", <<d>>, max).mode = "delimiter"
        /\ NewSubParser("delimiter", <<d>>, max).buf = Empty
    BY <1>1, <1>9, <2>2
  <2> QED
    BY <2>2, <2>3, Zenon DEF ValueParser
<1>13. /\ SubParserOK(LinesParser, Symbols) /\ LinesParser.mode = "delimiter" /\ LinesParser.buf = Empty
  BY <1>2, <1>5, <1>8, <1>9 DEF LinesParser
<1>14. /\ SubParserOK(FirstBoundary, Symbols) /\ FirstBoundary.mode = "delimiter" /\ FirstBoundary.buf = Empty
  BY <1>1, <1>7, <1>8, <1>9 DEF FirstBoundary
<1>15. /\ SubParserOK(EndPBoundary, Symbols) /\ EndPBoundary.mode = "delimiter" /\ EndPBoundary.buf = Empty
  BY <1>2, <1>4, <1>7, <1>8, <1>9 DEF EndPBoundary
<1>16. /\ SubParserOK(PartContent, Symbols) /\ PartContent.mode = "directDelimiter" /\ PartContent.buf = Empty
  BY <1>1, <1>7, <1>8, <1>9 DEF PartContent
<1> QED
  BY <1>10, <1>11, <1>12, <1>13, <1>14, <1>15, <1>16

\* The subparsers of the content are in order.
LEMMA ContentParserOK ==
    ASSUME NEW max \in Nat
    PROVE  /\ ContentParser("chunkSize", max) = LineParser
           /\ \A mode \in {"chunkData", "chunkCRLF", "length", "close"} :
                /\ SubParserOK(ContentParser(mode, max), Symbols)
                /\ ContentParser(mode, max).buf = Empty
                /\ ContentParser(mode, max).mode =
                        IF mode \in {"chunkData", "chunkCRLF"} THEN "size" ELSE "direct"
<1>1. ContentParser("chunkSize", max) = LineParser
  BY DEF ContentParser, LineParser
<1>2. ASSUME NEW m \in {"size", "direct"}
      PROVE  /\ SubParserOK(NewSubParser(m, << >>, max), Symbols)
             /\ NewSubParser(m, << >>, max).mode = m /\ NewSubParser(m, << >>, max).buf = Empty
  <2>1. << >> \in Seq(Seq(Symbols)) /\ Len(<< >>) = 0
    OBVIOUS
  <2>2. \A k \in 1..Len(<< >>) : << >>[k] # << >>
    BY <2>1
  <2>3. m \in Modes /\ m # "directDelimiter"
    BY DEF Modes
  <2>4. SubParserOK(NewSubParser(m, << >>, max), Symbols) /\ NewSubParser(m, << >>, max).mode = m
    BY <2>1, <2>2, <2>3, NewSubParserOK
  <2> QED
    BY <2>4 DEF NewSubParser
<1>3. /\ ContentParser("chunkData", max) = NewSubParser("size", << >>, max)
      /\ ContentParser("chunkCRLF", max) = NewSubParser("size", << >>, max)
      /\ ContentParser("length", max) = NewSubParser("direct", << >>, max)
      /\ ContentParser("close", max) = NewSubParser("direct", << >>, max)
  BY DEF ContentParser
<1> QED
  BY <1>1, <1>2, <1>3

\* So is the subparser that initProtocol sets.
LEMMA FirstParserOK ==
    ASSUME NEW m \in Messages
    PROVE  /\ SubParserOK(FirstParser(m)[2], Symbols) /\ FirstParser(m)[2].mode = "delimiter"
           /\ FirstParser(m)[2].buf = Empty
           /\ FirstParser(m)[1] \in ByDelimiter
           /\ FirstParser(m)[1] = "urlVar" => m.proto = "url"
           /\ FirstParser(m)[1] = "line" => m.proto = "line"
<1>1. m.proto \in {"request", "response", "url", "mime", "line"}
  BY MessagesAssumption
<1> QED
  BY <1>1, ParsersOK DEF FirstParser, ByDelimiter

\* A message is a sequence of symbols.
LEMMA EncodeType ==
    ASSUME NEW m \in Messages
    PROVE  Encode(m) \in Seq(Symbols)
BY MessagesAssumption
-----------------------------------------------------------------------------
(* A call of parseData *)

\* What a call comes to is what writeIntoParser promises.
LEMMA OutcomeKept ==
    ASSUME StreamOK, CurOK, NEW p, NEW r \in Outcomes(p)
    PROVE  /\ result = "reading" /\ cur = p /\ cur # "none" /\ ttl <= MaxTTL
           /\ Kept(sub, pending, r, Symbols)
<1>1. r \in writeIntoParser(sub, pending) /\ result = "reading" /\ cur = p /\ cur # "none" /\ ttl <= MaxTTL
  BY DEF Outcomes
<1>2. SubParserOK(sub, Symbols) /\ pending \in Seq(Symbols)
  BY DEF CurOK, StreamOK
<1> QED
  BY <1>1, <1>2, WriteConserves

\* The same when parse() is called.
LEMMA ParsedKept ==
    ASSUME StreamOK, CurOK, NEW p, NEW r \in Parsed(p)
    PROVE  /\ r \in Outcomes(cur) /\ cur = p /\ cur # "none"
           /\ r.ok = TRUE /\ Promised(sub, pending, r, Symbols)
           /\ SubParserOK(r.sub, Symbols) /\ r.sub.mode = sub.mode
           /\ r.piece \in Seq(Symbols)
           /\ (sub.mode = "directDelimiter" => r.sub.found # << >>) => r.sub.buf = Empty
<1>1. r \in Outcomes(p) /\ r.parses
  BY DEF Parsed
<1>2. cur = p /\ cur # "none" /\ Kept(sub, pending, r, Symbols)
  BY <1>1, OutcomeKept
<1>3. r.ok = TRUE /\ Promised(sub, pending, r, Symbols)
  BY <1>1, <1>2 DEF Kept
<1> QED
  BY <1>1, <1>2, <1>3 DEF Promised

\* The same bytes in other hands.
Regrouped(S, l, h, k, q, b, p) ==
    (/\ l \in Seq(S) /\ h \in Seq(S) /\ k \in Seq(S) /\ q \in Seq(S) /\ b \in Seq(S) /\ p \in Seq(S)
     /\ (h \o k) \o q = b \o p)
    => ((l \o h) \o k) \o q = (l \o b) \o p

\* It is so for all of them.
LEMMA Regroup == \A S, l, h, k, q, b, p : Regrouped(S, l, h, k, q, b, p)
<1> TAKE S, l, h, k, q, b, p
<1> SUFFICES ASSUME l \in Seq(S), h \in Seq(S), k \in Seq(S), q \in Seq(S), b \in Seq(S), p \in Seq(S),
                    (h \o k) \o q = b \o p
             PROVE  ((l \o h) \o k) \o q = (l \o b) \o p
  BY Zenon DEF Regrouped
<1>1. Assoc(S, l, h, k) /\ Assoc(S, l, h \o k, q) /\ Assoc(S, l, b, p)
  BY AlwaysAssoc
<1>2. h \o k \in Seq(S)
  BY ConcatProperties
<1>3. (l \o h) \o k = l \o (h \o k) /\ (l \o b) \o p = l \o (b \o p)
  BY <1>1, Zenon DEF Assoc
<1>4. (l \o (h \o k)) \o q = l \o ((h \o k) \o q)
  BY <1>1, <1>2, Zenon DEF Assoc
<1> QED
  BY <1>3, <1>4, Zenon

Whys == {"noRoom", "badData", "upstream", "refused", "ttl", "afterEnd"}

\* What a call records.
LEMMA LogType ==
    ASSUME StreamOK, CurOK, NEW r \in Outcomes(cur), Log(r)
    PROVE  /\ msg' = msg /\ wire' = wire /\ torn' \in BOOLEAN
           /\ Handed(r) \in Seq(Symbols) /\ log' = log \o Handed(r) /\ log' \in Seq(Symbols)
<1> DEFINE f == IF r.parses THEN r.sub.found ELSE << >>
<1>1. Kept(sub, pending, r, Symbols) /\ log \in Seq(Symbols) /\ torn \in BOOLEAN
  BY OutcomeKept DEF StreamOK
<1>2. SubParserOK(r.sub, Symbols) /\ r.piece \in Seq(Symbols)
  <2>1. << >> \in Seq(Symbols)
    OBVIOUS
  <2> QED
    BY <1>1, <2>1, Zenon DEF Kept, Promised
<1>3. r.sub.found \in Seq(Symbols) /\ << >> \in Seq(Symbols)
  BY <1>2 DEF SubParserOK, SubParsers
<1>4. f \in Seq(Symbols)
  BY <1>3
<1>5. log' = (log \o r.piece) \o f /\ Handed(r) = r.piece \o f
  BY DEF Log, Handed
<1> HIDE DEF f
<1>6. (log \o r.piece) \o f = log \o (r.piece \o f)
  <2>1. Assoc(Symbols, log, r.piece, f)
    BY AlwaysAssoc
  <2> QED
    BY <1>1, <1>2, <1>4, <2>1, Zenon DEF Assoc
<1>7. r.piece \o f \in Seq(Symbols)
  BY <1>2, <1>4, ConcatProperties
<1>8. log \o Handed(r) \in Seq(Symbols)
  BY <1>1, <1>5, <1>7, ConcatProperties
<1>9. msg' = msg /\ wire' = wire /\ torn' = (torn \/ ~ OffsetsRight(r.sub.buf))
  BY DEF Log
<1>10. torn' \in BOOLEAN
  BY <1>1, <1>9, Zenon
<1> QED
  BY <1>5, <1>6, <1>7, <1>8, <1>9, <1>10

\* What is left of the message is an end of it, also when a beginning of it is gone.
Remains(S, u, a, b, w, e) ==
    (u \in Seq(S) /\ a \in Seq(S) /\ b \in Seq(S) /\ w \in Seq(S) /\ e = u \o ((a \o b) \o w))
    => \E x \in Seq(S) : e = x \o (b \o w)

\* It is so for all of them.
LEMMA SuffixStays == \A S, u, a, b, w, e : Remains(S, u, a, b, w, e)
<1> TAKE S, u, a, b, w, e
<1> SUFFICES ASSUME u \in Seq(S), a \in Seq(S), b \in Seq(S), w \in Seq(S), e = u \o ((a \o b) \o w)
             PROVE  \E x \in Seq(S) : e = x \o (b \o w)
  BY Zenon DEF Remains
<1>1. Assoc(S, a, b, w) /\ Assoc(S, u, a, b \o w)
  BY AlwaysAssoc
<1>2. b \o w \in Seq(S) /\ u \o a \in Seq(S)
  BY ConcatProperties
<1>3. (a \o b) \o w = a \o (b \o w)
  BY <1>1, Zenon DEF Assoc
<1>4. (u \o a) \o (b \o w) = u \o (a \o (b \o w))
  BY <1>1, <1>2, Zenon DEF Assoc
<1>5. e = (u \o a) \o (b \o w)
  BY <1>3, <1>4, Zenon
<1> QED
  BY <1>2, <1>5

\* A call that returns: no byte is lost or repeated, and at least one is taken.
LEMMA CallGoes ==
    ASSUME StreamOK, CurOK, NEW r \in Outcomes(cur), r.ok = TRUE, Log(r), Goes(r)
    PROVE  /\ StreamOK' /\ failed' = failed /\ msg' = msg
           /\ ttl' > ttl => Len(pending') < Len(pending)
           /\ ((log' \o Bytes(r.sub.buf)) \o pending') \o wire' = ((log \o Bytes(sub.buf)) \o pending) \o wire
<1>1. /\ msg' = msg /\ wire' = wire /\ torn' \in BOOLEAN
      /\ Handed(r) \in Seq(Symbols) /\ log' = log \o Handed(r) /\ log' \in Seq(Symbols)
  BY LogType
<1>2. ttl <= MaxTTL /\ Kept(sub, pending, r, Symbols)
  BY OutcomeKept
<1>3. Promised(sub, pending, r, Symbols)
  BY <1>2 DEF Kept
<1>4. /\ pending' = After(pending, r.taken)
      /\ ttl' = IF pending' = << >> THEN 0 ELSE ttl + 1
      /\ result' = IF AtEOF THEN "succeed" ELSE result
      /\ failed' = failed
  BY DEF Goes
<1>5. /\ msg \in Messages /\ wire \in Seq(Symbols) /\ pending \in Seq(Symbols) /\ log \in Seq(Symbols)
      /\ ttl \in 0 .. MaxTTL + 1 /\ MaxTTL \in Nat
  BY StreamParserAssumption DEF StreamOK
<1>6. /\ r.taken \in 0..Len(pending) /\ (pending # << >> => r.taken >= 1)
      /\ (Handed(r) \o Bytes(r.sub.buf)) \o pending' = Bytes(sub.buf) \o pending
      /\ SubParserOK(r.sub, Symbols) /\ SubParserOK(sub, Symbols)
  BY <1>3, <1>4 DEF Promised, CurOK
<1>7. /\ pending' \in Seq(Symbols) /\ Len(pending') = Len(pending) - r.taken
      /\ SubSeq(pending, 1, r.taken) \in Seq(Symbols) /\ SubSeq(pending, 1, r.taken) \o pending' = pending
  <2>1. PICK n \in 0..Len(pending) : n = r.taken
    BY <1>6
  <2>2. /\ After(pending, n) \in Seq(Symbols) /\ Len(After(pending, n)) = Len(pending) - n
        /\ SubSeq(pending, 1, n) \in Seq(Symbols) /\ SubSeq(pending, 1, n) \o After(pending, n) = pending
    BY <1>5, AfterType
  <2> QED
    BY <1>4, <2>1, <2>2
<1>8. Bytes(r.sub.buf) \in Seq(Symbols) /\ Bytes(sub.buf) \in Seq(Symbols)
  <2>1. r.sub.buf \in Seq(Chunk(Symbols)) /\ sub.buf \in Seq(Chunk(Symbols))
    BY <1>6 DEF SubParserOK, SubParsers
  <2> QED
    BY <2>1, BytesType
<1>9. ((log \o Handed(r)) \o Bytes(r.sub.buf)) \o pending' = (log \o Bytes(sub.buf)) \o pending
  <2>1. Regrouped(Symbols, log, Handed(r), Bytes(r.sub.buf), pending', Bytes(sub.buf), pending)
    BY Regroup
  <2> QED
    BY <1>1, <1>5, <1>6, <1>7, <1>8, <2>1, Zenon DEF Regrouped
<1>10. \E x \in Seq(Symbols) : Encode(msg') = x \o (pending' \o wire')
  <2>1. PICK u \in Seq(Symbols) : Encode(msg) = u \o (pending \o wire)
    BY DEF StreamOK
  <2>2. PICK e : e = Encode(msg)
    OBVIOUS
  <2>3. e = u \o ((SubSeq(pending, 1, r.taken) \o pending') \o wire)
    BY <1>7, <2>1, <2>2
  <2>4. \E x \in Seq(Symbols) : e = x \o (pending' \o wire)
    <3>1. Remains(Symbols, u, SubSeq(pending, 1, r.taken), pending', wire, e)
      BY SuffixStays
    <3> QED
      BY <1>5, <1>7, <2>3, <3>1, Zenon DEF Remains
  <2> QED
    BY <1>1, <2>2, <2>4
<1>11. Len(pending) \in Nat /\ Len(pending') \in Nat
  BY <1>5, <1>7, LenProperties
<1>12. ttl' \in 0 .. MaxTTL + 1 /\ (ttl' > ttl => pending' # << >>)
  BY <1>2, <1>4, <1>5
<1>13. pending' # << >> => Len(pending') < Len(pending)
  <2>1. ASSUME pending' # << >> PROVE pending # << >>
    <3>1. Len(pending') # 0
      BY <1>7, <2>1, EmptySeq
    <3>2. Len(pending) # 0
      BY <1>6, <1>7, <1>11, <3>1
    <3> QED
      BY <3>2
  <2> QED
    BY <1>6, <1>7, <1>11, <2>1
<1>14. StreamOK'
  BY <1>1, <1>4, <1>5, <1>7, <1>10, <1>12 DEF StreamOK
<1> QED
  BY <1>1, <1>4, <1>9, <1>12, <1>13, <1>14

\* A call that fails: the rest of the write is dropped.
LEMMA CallFails ==
    ASSUME StreamOK, NEW why \in Whys, Fails(why), msg' = msg, wire' = wire,
           log' \in Seq(Symbols), torn' \in BOOLEAN
    PROVE  StreamOK' /\ failed' # "" /\ ~(ttl' > ttl)
<1>1. /\ failed' = why /\ pending' = << >> /\ ttl' = 0
      /\ result' \in {"failed", "succeed", result}
  BY DEF Fails
<1>2. /\ msg \in Messages /\ wire \in Seq(Symbols) /\ pending \in Seq(Symbols)
      /\ ttl \in 0 .. MaxTTL + 1 /\ MaxTTL \in Nat
  BY StreamParserAssumption DEF StreamOK
<1>3. \E x \in Seq(Symbols) : Encode(msg') = x \o (pending' \o wire')
  <2>1. PICK u \in Seq(Symbols) : Encode(msg) = u \o (pending \o wire)
    BY DEF StreamOK
  <2>2. PICK e : e = Encode(msg)
    OBVIOUS
  <2>3. pending \o << >> = pending /\ << >> \in Seq(Symbols)
    BY <1>2, ConcatEmptySeq
  <2>4. e = u \o ((pending \o << >>) \o wire)
    BY <2>1, <2>2, <2>3
  <2>5. \E x \in Seq(Symbols) : e = x \o (<< >> \o wire)
    <3>1. Remains(Symbols, u, pending, << >>, wire, e)
      BY SuffixStays
    <3> QED
      BY <1>2, <2>3, <2>4, <3>1, Zenon DEF Remains
  <2> QED
    BY <1>1, <2>2, <2>5
<1>4. pending' \in Seq(Symbols) /\ ttl' \in 0 .. MaxTTL + 1 /\ ~(ttl' > ttl)
  BY <1>1, <1>2
<1>5. StreamOK'
  BY <1>1, <1>2, <1>3, <1>4 DEF StreamOK, Whys
<1> QED
  BY <1>1, <1>4, <1>5 DEF Whys

\* A call that leaves its subparser's buffer to the next one, or ends, or fails, keeps the
\* invariant.
LEMMA CallKeeps ==
    ASSUME IInv, NEW r \in Outcomes(cur), Log(r), CurOK', GotOK',
           (r.ok = TRUE /\ Goes(r)) \/ (\E why \in Whys : Fails(why)),
           cur' = "none" \/ failed' # "" \/ sub'.buf = r.sub.buf
    PROVE  IInv' /\ (ttl' > ttl => Len(pending') < Len(pending))
<1>1. StreamOK /\ CurOK /\ Conservation /\ cur # "none"
  BY OutcomeKept DEF IInv
<1>2. msg' = msg /\ wire' = wire /\ torn' \in BOOLEAN /\ log' \in Seq(Symbols)
  BY <1>1, LogType
<1>3. CASE r.ok = TRUE /\ Goes(r)
  <2>1. /\ StreamOK' /\ failed' = failed /\ msg' = msg
        /\ ttl' > ttl => Len(pending') < Len(pending)
        /\ ((log' \o Bytes(r.sub.buf)) \o pending') \o wire' = ((log \o Bytes(sub.buf)) \o pending) \o wire
    BY <1>1, <1>3, CallGoes
  <2>2. Conservation'
    <3> SUFFICES ASSUME cur' # "none", failed' = ""
                 PROVE  ((log' \o Bytes(sub'.buf)) \o pending') \o wire' = Encode(msg')
      BY DEF Conservation
    <3>1. ((log \o Bytes(sub.buf)) \o pending) \o wire = Encode(msg)
      BY <1>1, <2>1 DEF Conservation
    <3>2. sub'.buf = r.sub.buf
      OBVIOUS
    <3>3. ((log' \o Bytes(sub'.buf)) \o pending') \o wire' = ((log' \o Bytes(r.sub.buf)) \o pending') \o wire'
      BY <3>2
    <3> QED
      BY <2>1, <3>1, <3>3, Zenon
  <2> QED
    BY <2>1, <2>2 DEF IInv
<1>4. CASE \E why \in Whys : Fails(why)
  <2>1. StreamOK' /\ failed' # "" /\ ~(ttl' > ttl)
    BY <1>1, <1>2, <1>4, CallFails
  <2>2. Conservation'
    BY <2>1 DEF Conservation
  <2> QED
    BY <2>1, <2>2 DEF IInv
<1> QED
  BY <1>3, <1>4

\* Nothing new has been decoded.
LEMMA SameGot ==
    ASSUME GotOK, got' = got, msg' = msg, cur # "none", cur' = cur \/ cur' \notin {"urlVar", "line"}
    PROVE  GotOK'
BY DEF GotOK

\* Nothing but the items and the options has a limit.
LEMMA NewGot ==
    ASSUME GotOK, got' \in GotType, Len(got'.options) <= MaxOptions, got'.items = got.items,
           msg' = msg, cur # "none", cur' = cur \/ cur' \notin {"urlVar", "line"}
    PROVE  GotOK'
BY DEF GotOK

\* The current subparser goes on.
LEMMA SameCur ==
    ASSUME CurOK, SubParserOK(sub', Symbols), sub'.mode = sub.mode, cur' = cur, proc' = proc,
           answered' = answered
    PROVE  CurOK'
BY DEF CurOK

\* There is no subparser left.
LEMMA NoCur ==
    ASSUME CurOK, SubParserOK(sub', Symbols), cur' = "none", proc' = proc,
           answered' \in {"none", "app", "505", "400", "413"}
    PROVE  CurOK'
BY DEF CurOK, ByDelimiter

\* A subparser by delimiter is next.
LEMMA NextByDelimiter ==
    ASSUME CurOK, SubParserOK(sub', Symbols), sub'.mode = "delimiter", cur' \in ByDelimiter,
           proc' \in {proc, "name", "value"}, answered' = answered
    PROVE  CurOK'
BY DEF CurOK, ByDelimiter
-----------------------------------------------------------------------------
(* The steps *)

\* Buffer and NoRoomLeft keep the invariant.
LEMMA BufferKeeps ==
    ASSUME IInv, Buffer \/ NoRoomLeft
    PROVE  IInv' /\ (ttl' > ttl => Len(pending') < Len(pending))
<1>1. StreamOK /\ CurOK /\ GotOK
  BY DEF IInv
<1>2. PICK r \in Outcomes(cur) :
        /\ sub' = r.sub /\ Log(r) /\ cur' = cur /\ proc' = proc /\ got' = got /\ answered' = answered
        /\ \/ r.ok /\ Goes(r)
           \/ Fails("noRoom")
  BY DEF Buffer, NoRoomLeft
<1>3. Kept(sub, pending, r, Symbols) /\ cur # "none"
  BY <1>1, OutcomeKept
<1>4. SubParserOK(r.sub, Symbols) /\ r.sub.mode = sub.mode /\ r.ok \in BOOLEAN
  BY <1>3 DEF Kept, Promised
<1>5. CurOK'
  BY <1>1, <1>2, <1>4, SameCur
<1>6. msg' = msg
  BY <1>2 DEF Log
<1>7. GotOK'
  BY <1>1, <1>2, <1>3, <1>6, SameGot
<1>8. (r.ok = TRUE /\ Goes(r)) \/ (\E why \in Whys : Fails(why))
  BY <1>2, <1>4, Zenon DEF Whys
<1> QED
  BY <1>2, <1>5, <1>7, <1>8, CallKeeps

\* TTLReached and AfterEnd keep the invariant.
LEMMA GivingUpKeeps ==
    ASSUME IInv, TTLReached \/ AfterEnd
    PROVE  IInv' /\ (ttl' > ttl => Len(pending') < Len(pending))
<1>1. StreamOK /\ CurOK /\ GotOK
  BY DEF IInv
<1>2. /\ UNCHANGED <<msg, wire, cur, sub, proc, got, answered, log, torn>>
      /\ \E why \in Whys : Fails(why)
  BY DEF TTLReached, AfterEnd, Whys
<1>3. log' \in Seq(Symbols) /\ torn' \in BOOLEAN
  BY <1>1, <1>2 DEF StreamOK
<1>4. StreamOK' /\ failed' # "" /\ ~(ttl' > ttl)
  BY <1>1, <1>2, <1>3, CallFails
<1>5. CurOK' /\ GotOK'
  BY <1>1, <1>2 DEF CurOK, GotOK
<1>6. Conservation'
  BY <1>4 DEF Conservation
<1> QED
  BY <1>4, <1>5, <1>6 DEF IInv

\* A read moves bytes from the wire to the parser.
LEMMA ReadKeeps ==
    ASSUME IInv, Read
    PROVE  IInv' /\ (ttl' > ttl => Len(pending') < Len(pending))
<1>1. StreamOK /\ CurOK /\ GotOK /\ Conservation
  BY DEF IInv
<1>2. PICK n \in 1..Len(wire) : pending' = SubSeq(wire, 1, n) /\ wire' = After(wire, n)
  BY DEF Read
<1>3. /\ pending = << >> /\ ttl' = 0
      /\ UNCHANGED <<msg, cur, sub, proc, got, answered, result, failed, log, torn>>
  BY DEF Read
<1>4. /\ wire \in Seq(Symbols) /\ log \in Seq(Symbols) /\ ttl \in 0..MaxTTL + 1 /\ MaxTTL \in Nat
      /\ Len(wire) \in Nat
  BY <1>1, StreamParserAssumption, LenProperties DEF StreamOK
<1>5. pending' \in Seq(Symbols) /\ wire' \in Seq(Symbols) /\ pending' \o wire' = wire
  <2>1. n \in 0..Len(wire)
    BY <1>4
  <2> QED
    BY <1>2, <1>4, <2>1, AfterType
<1>6. << >> \o wire = wire
  BY <1>4, ConcatEmptySeq
<1>7. \E u \in Seq(Symbols) : Encode(msg') = u \o (pending' \o wire')
  <2>1. PICK u \in Seq(Symbols) : Encode(msg) = u \o (<< >> \o wire)
    BY <1>1, <1>3 DEF StreamOK
  <2> QED
    BY <1>3, <1>5, <1>6, <2>1
<1>8. ttl' \in 0..MaxTTL + 1 /\ ~(ttl' > ttl)
  BY <1>3, <1>4
<1>9. StreamOK'
  BY <1>1, <1>3, <1>5, <1>7, <1>8 DEF StreamOK
<1>10. Conservation'
  <2> SUFFICES ASSUME cur' # "none", failed' = ""
               PROVE  ((log' \o Bytes(sub'.buf)) \o pending') \o wire' = Encode(msg')
    BY DEF Conservation
  <2> DEFINE x == log \o Bytes(sub.buf)
  <2>1. x \in Seq(Symbols)
    <3>1. sub.buf \in Seq(Chunk(Symbols))
      BY <1>1 DEF CurOK, SubParserOK, SubParsers
    <3>2. Bytes(sub.buf) \in Seq(Symbols)
      BY <3>1, BytesType
    <3> QED
      BY <1>4, <3>2, ConcatProperties
  <2>2. (x \o << >>) \o wire = Encode(msg)
    BY <1>1, <1>3 DEF Conservation
  <2>3. (log' \o Bytes(sub'.buf)) = x
    BY <1>3
  <2> HIDE DEF x
  <2>4. x \o << >> = x
    BY <2>1, ConcatEmptySeq
  <2>5. (x \o pending') \o wire' = x \o (pending' \o wire')
    <3>1. Assoc(Symbols, x, pending', wire')
      BY AlwaysAssoc
    <3> QED
      BY <1>5, <2>1, <3>1, Zenon DEF Assoc
  <2> QED
    BY <1>3, <1>5, <2>2, <2>3, <2>4, <2>5
<1>11. CurOK' /\ GotOK'
  BY <1>1, <1>3 DEF CurOK, GotOK
<1> QED
  BY <1>8, <1>9, <1>10, <1>11 DEF IInv

\* The end of reading changes nothing else.
LEMMA EndKeeps ==
    ASSUME IInv, Finish \/ Disconnect
    PROVE  IInv' /\ (ttl' > ttl => Len(pending') < Len(pending))
<1>1. /\ UNCHANGED <<msg, wire, pending, ttl, cur, sub, proc, got, answered, failed, log, torn>>
      /\ result' \in {"succeed", "readError"}
  BY DEF Finish, Disconnect
<1>2. ttl \in 0..MaxTTL + 1 /\ MaxTTL \in Nat
  BY StreamParserAssumption DEF IInv, StreamOK
<1>3. ~(ttl' > ttl)
  BY <1>1, <1>2
<1>4. StreamOK'
  BY <1>1 DEF IInv, StreamOK
<1>5. CurOK'
  BY <1>1 DEF IInv, CurOK
<1>6. GotOK'
  BY <1>1 DEF IInv, GotOK
<1>7. Conservation'
  BY <1>1 DEF IInv, Conservation
<1> QED
  BY <1>3, <1>4, <1>5, <1>6, <1>7 DEF IInv

\* A call by delimiter that parses has an empty buffer.
LEMMA ByDelimiterParsed ==
    ASSUME StreamOK, CurOK, NEW p \in ByDelimiter, NEW r \in Parsed(p)
    PROVE  /\ r \in Outcomes(cur) /\ cur = p /\ cur # "none" /\ r.ok = TRUE
           /\ SubParserOK(r.sub, Symbols) /\ r.sub.mode = "delimiter" /\ sub.mode = "delimiter"
           /\ r.piece \in Seq(Symbols) /\ r.sub.buf = Empty
BY ParsedKept DEF CurOK

\* RequestLine::parse keeps the invariant.
LEMMA RequestLineKeeps ==
    ASSUME IInv, ParseRequestLine
    PROVE  IInv' /\ (ttl' > ttl => Len(pending') < Len(pending))
<1>1. StreamOK /\ CurOK /\ GotOK
  BY DEF IInv
<1>2. PICK r \in Parsed("requestLine") :
        /\ sub' = LineParser /\ Log(r) /\ got' = [got EXCEPT !.line = r.piece] /\ proc' = proc
        /\ \/ Fails("badData") /\ cur' = cur /\ answered' = answered
           \/ answered' = "505" /\ cur' = "none" /\ (Goes(r) \/ Fails("upstream"))
           \/ cur' \in {"headers", "none"} /\ Goes(r) /\ answered' = answered
  BY DEF ParseRequestLine, Answer
<1>3. /\ r \in Outcomes(cur) /\ cur = "requestLine" /\ cur # "none" /\ r.ok = TRUE
      /\ sub.mode = "delimiter" /\ r.piece \in Seq(Symbols) /\ r.sub.buf = Empty
  BY <1>1, ByDelimiterParsed DEF ByDelimiter
<1>4. SubParserOK(sub', Symbols) /\ sub'.mode = "delimiter" /\ sub'.buf = Empty
  BY <1>2, ParsersOK
<1>5. cur' \in {"requestLine", "headers", "none"} /\ answered' \in {"none", "app", "505", "400", "413"}
  BY <1>1, <1>2, <1>3 DEF CurOK
<1>6. CurOK'
  BY <1>1, <1>2, <1>4, <1>5 DEF CurOK, ByDelimiter
<1>7. GotOK'
  <2>1. msg' = msg
    BY <1>2 DEF Log
  <2>2. got \in GotType /\ Len(got.options) <= MaxOptions
    BY <1>1 DEF GotOK
  <2>3. got' \in GotType /\ got'.options = got.options /\ got'.items = got.items
    BY <1>2, <1>3, <2>2 DEF GotType
  <2> QED
    BY <1>1, <1>3, <1>5, <2>1, <2>2, <2>3, NewGot
<1>8. (r.ok = TRUE /\ Goes(r)) \/ (\E why \in Whys : Fails(why))
  BY <1>2, <1>3 DEF Whys
<1> QED
  BY <1>2, <1>3, <1>4, <1>6, <1>7, <1>8, CallKeeps

\* MIME_Sub_Header::add keeps to m_maxOptions.
LEMMA ParseOptionType ==
    ASSUME NEW o \in Seq(Symbols), NEW line \in Seq(Symbols)
    PROVE  /\ parseOptionValue(o, line) \in Seq(Symbols)
           /\ Len(o) <= MaxOptions => Len(parseOptionValue(o, line)) <= MaxOptions
<1>1. Len(o) \in Nat /\ MaxOptions \in Nat
  BY StreamParserAssumption, LenProperties
<1>2. CASE Len(line) = 1 /\ line[1] \in Folds /\ o # << >>
  <2>1. Len(o) \in 1..Len(o) /\ o[Len(o)] \in Symbols
    BY <1>1, <1>2, EmptySeq, ElementOfSeq
  <2>2. Folded(o[Len(o)], line[1]) \in Symbols
    BY <2>1, SymbolsAssumption DEF Folded, Options, Lengths, LengthOf
  <2>3. PICK e \in Symbols : e = Folded(o[Len(o)], line[1])
    BY <2>2
  <2>4. parseOptionValue(o, line) = [o EXCEPT ![Len(o)] = e]
    BY <1>2, <2>3 DEF parseOptionValue
  <2>5. [o EXCEPT ![Len(o)] = e] \in Seq(Symbols) /\ Len([o EXCEPT ![Len(o)] = e]) = Len(o)
    <3>1. PICK k \in 1..Len(o) : k = Len(o)
      BY <2>1
    <3>2. [o EXCEPT ![k] = e] \in Seq(Symbols) /\ Len([o EXCEPT ![k] = e]) = Len(o)
      BY ExceptSeq
    <3> QED
      BY <3>1, <3>2
  <2>6. PICK p \in Seq(Symbols) : p = parseOptionValue(o, line) /\ Len(p) = Len(o)
    BY <2>4, <2>5, Zenon
  <2> QED
    BY <2>6, Zenon
<1>3. CASE /\ ~ (Len(line) = 1 /\ line[1] \in Folds /\ o # << >>)
           /\ Len(line) = 1 /\ line[1] \in Options /\ Len(o) < MaxOptions
  <2>1. line[1] \in Symbols
    BY <1>3, SymbolsAssumption
  <2>2. Append(o, line[1]) \in Seq(Symbols) /\ Len(Append(o, line[1])) = Len(o) + 1
    BY <2>1, AppendProperties
  <2> QED
    BY <1>1, <1>3, <2>2 DEF parseOptionValue
<1>4. CASE /\ ~ (Len(line) = 1 /\ line[1] \in Folds /\ o # << >>)
           /\ ~ (Len(line) = 1 /\ line[1] \in Options /\ Len(o) < MaxOptions)
  BY <1>4 DEF parseOptionValue
<1> QED
  BY <1>2, <1>3, <1>4

\* MIME_Sub_Header::parse of an option keeps the invariant.
LEMMA AddOptionKeeps ==
    ASSUME IInv, NEW r \in Parsed("headers"), Log(r), AddOption(r)
    PROVE  IInv' /\ (ttl' > ttl => Len(pending') < Len(pending))
<1>1. StreamOK /\ CurOK /\ GotOK
  BY DEF IInv
<1>2. /\ sub' = r.sub /\ Goes(r) /\ cur' = cur /\ proc' = proc /\ answered' = answered
      /\ got' = [got EXCEPT !.options = parseOptionValue(got.options, r.piece)]
  BY DEF AddOption
<1>3. /\ r \in Outcomes(cur) /\ cur = "headers" /\ cur # "none" /\ r.ok = TRUE
      /\ SubParserOK(r.sub, Symbols) /\ r.sub.mode = sub.mode /\ r.piece \in Seq(Symbols)
  BY <1>1, ByDelimiterParsed DEF ByDelimiter
<1>4. msg' = msg
  BY DEF Log
<1>5. CurOK'
  BY <1>1, <1>2, <1>3, SameCur
<1>6. GotOK'
  <2>1. got.options \in Seq(Symbols) /\ Len(got.options) <= MaxOptions /\ got \in GotType
    BY <1>1 DEF GotOK, GotType
  <2>2. PICK o \in Seq(Symbols) : o = parseOptionValue(got.options, r.piece) /\ Len(o) <= MaxOptions
    BY <1>3, <2>1, ParseOptionType
  <2>3. got' = [got EXCEPT !.options = o]
    BY <1>2, <2>2
  <2>4. got' \in GotType /\ got'.options = o /\ got'.items = got.items
    BY <2>1, <2>3 DEF GotType
  <2> QED
    BY <1>1, <1>2, <1>3, <1>4, <2>2, <2>4, NewGot
<1> QED
  BY <1>2, <1>3, <1>5, <1>6, CallKeeps

\* Content-Length is a natural number.
LEMMA LengthType ==
    ASSUME NEW o \in Seq(Symbols)
    PROVE  ContentLength(o) \in Nat
<1> DEFINE I == {i \in 1..Len(o) : o[i] \in Lengths}
           k == IF I # {} THEN Min(I) ELSE 0
<1>1. SelectInSeq(o, LAMBDA x : x \in Lengths) = k
  BY DEF SelectInSeq
<1>2. ContentLength(o) = IF k = 0 THEN 0 ELSE LengthOf[o[k]]
  BY <1>1 DEF ContentLength
<1>3. I \subseteq Nat
  BY LenProperties
<1>4. \A x \in Lengths : LengthOf[x] \in Nat
  BY DEF Lengths, LengthOf
<1>5. k # 0 => k \in I
  <2> HIDE DEF I
  <2> QED
    BY <1>3, MinOfNats
<1>6. k # 0 => o[k] \in Lengths
  <2> HIDE DEF k
  <2> QED
    BY <1>5
<1> HIDE DEF k, I
<1> QED
  BY <1>2, <1>4, <1>6

\* changeToNextParserFromClientHeaders keeps the invariant.
LEMMA ClientHeadersKeep ==
    ASSUME IInv, ParseClientHeaders
    PROVE  IInv' /\ (ttl' > ttl => Len(pending') < Len(pending))
<1>1. StreamOK /\ CurOK /\ GotOK
  BY DEF IInv
<1>2. PICK r \in Parsed("headers") :
        /\ Log(r)
        /\ \/ AddOption(r)
           \/ /\ got' = got /\ cur' = "none" /\ sub' = sub /\ proc' = proc
              /\ answered' \in {answered, "400", "413", "app"}
              /\ Goes(r) \/ Fails("upstream")
           \/ /\ got' = got /\ cur' = "content" /\ proc' = "length" /\ answered' = answered /\ Goes(r)
              /\ ContentLength(got.options) \in 1..MaxPost
              /\ sub' = ContentParser("length", ContentLength(got.options))
  BY DEF ParseClientHeaders, Answer
<1>3. /\ r \in Outcomes(cur) /\ cur = "headers" /\ cur # "none" /\ r.ok = TRUE /\ r.sub.buf = Empty
  BY <1>1, ByDelimiterParsed DEF ByDelimiter
<1>4. msg' = msg
  BY <1>2 DEF Log
<1>5. CASE AddOption(r)
  BY <1>2, <1>5, AddOptionKeeps
<1>6. CASE /\ got' = got /\ cur' = "none" /\ sub' = sub /\ proc' = proc
           /\ answered' \in {answered, "400", "413", "app"}
           /\ Goes(r) \/ Fails("upstream")
  <2>1. SubParserOK(sub', Symbols) /\ answered' \in {"none", "app", "505", "400", "413"}
    BY <1>1, <1>6 DEF CurOK
  <2>2. CurOK'
    BY <1>1, <1>6, <2>1, NoCur
  <2>3. GotOK'
    BY <1>1, <1>3, <1>4, <1>6, SameGot
  <2>4. (r.ok = TRUE /\ Goes(r)) \/ (\E why \in Whys : Fails(why))
    BY <1>3, <1>6 DEF Whys
  <2> QED
    BY <1>2, <1>3, <1>6, <2>2, <2>3, <2>4, CallKeeps
<1>7. CASE /\ got' = got /\ cur' = "content" /\ proc' = "length" /\ answered' = answered /\ Goes(r)
           /\ ContentLength(got.options) \in 1..MaxPost
           /\ sub' = ContentParser("length", ContentLength(got.options))
  <2>1. ContentLength(got.options) \in Nat
    <3>1. MaxPost \in Nat
      BY StreamParserAssumption
    <3> QED
      BY <1>7, <3>1
  <2>2. SubParserOK(sub', Symbols) /\ sub'.buf = Empty /\ sub'.mode = "direct"
    BY <1>7, <2>1, ContentParserOK
  <2>3. CurOK'
    BY <1>1, <1>7, <2>2 DEF CurOK, ByDelimiter
  <2>4. GotOK'
    BY <1>1, <1>3, <1>4, <1>7, SameGot
  <2> QED
    BY <1>2, <1>3, <1>7, <2>2, <2>3, <2>4, CallKeeps
<1> QED
  BY <1>2, <1>5, <1>6, <1>7

\* Status::parse keeps the invariant.
LEMMA StatusKeeps ==
    ASSUME IInv, ParseStatus
    PROVE  IInv' /\ (ttl' > ttl => Len(pending') < Len(pending))
<1>1. StreamOK /\ CurOK /\ GotOK
  BY DEF IInv
<1>2. PICK r \in Parsed("status") :
        /\ sub' = LineParser /\ Log(r) /\ proc' = proc /\ got' = got /\ answered' = answered
        /\ \/ cur' = "headers" /\ Goes(r)
           \/ cur' = cur /\ Fails("badData")
  BY DEF ParseStatus
<1>3. /\ r \in Outcomes(cur) /\ cur = "status" /\ cur # "none" /\ r.ok = TRUE /\ r.sub.buf = Empty
  BY <1>1, ByDelimiterParsed DEF ByDelimiter
<1>4. msg' = msg
  BY <1>2 DEF Log
<1>5. SubParserOK(sub', Symbols) /\ sub'.mode = "delimiter" /\ sub'.buf = Empty
  BY <1>2, ParsersOK
<1>6. cur' \in {"status", "headers"}
  BY <1>2, <1>3
<1>7. CurOK'
  BY <1>1, <1>2, <1>5, <1>6, NextByDelimiter DEF ByDelimiter
<1>8. GotOK'
  BY <1>1, <1>2, <1>3, <1>4, <1>6, SameGot
<1>9. (r.ok = TRUE /\ Goes(r)) \/ (\E why \in Whys : Fails(why))
  BY <1>2, <1>3 DEF Whys
<1> QED
  BY <1>2, <1>3, <1>5, <1>7, <1>8, <1>9, CallKeeps

\* parseHeaders2TransmitionMode keeps the invariant.
LEMMA ServerHeadersKeep ==
    ASSUME IInv, ParseServerHeaders
    PROVE  IInv' /\ (ttl' > ttl => Len(pending') < Len(pending))
<1>1. StreamOK /\ CurOK /\ GotOK
  BY DEF IInv
<1>2. PICK r \in Parsed("headers") :
        /\ Log(r)
        /\ \/ AddOption(r)
           \/ \E mode \in {"length", "chunkSize", "close"} :
                /\ proc' = mode /\ cur' \in {"none", "content"} /\ got' = got /\ answered' = answered
                /\ sub' = ContentParser(mode, IF mode = "length" THEN ContentLength(got.options) ELSE MaxPost)
                /\ Goes(r)
  BY DEF ParseServerHeaders
<1>3. /\ r \in Outcomes(cur) /\ cur = "headers" /\ cur # "none" /\ r.ok = TRUE /\ r.sub.buf = Empty
  BY <1>1, ByDelimiterParsed DEF ByDelimiter
<1>4. msg' = msg
  BY <1>2 DEF Log
<1>5. CASE AddOption(r)
  BY <1>2, <1>5, AddOptionKeeps
<1>6. ASSUME NEW mode \in {"length", "chunkSize", "close"},
             proc' = mode, cur' \in {"none", "content"}, got' = got, answered' = answered,
             sub' = ContentParser(mode, IF mode = "length" THEN ContentLength(got.options) ELSE MaxPost),
             Goes(r)
      PROVE  IInv' /\ (ttl' > ttl => Len(pending') < Len(pending))
  <2>1. PICK max \in Nat : sub' = ContentParser(mode, max)
    <3>1. got.options \in Seq(Symbols)
      BY <1>1 DEF GotOK, GotType
    <3>2. ContentLength(got.options) \in Nat /\ MaxPost \in Nat
      BY <3>1, LengthType, StreamParserAssumption
    <3> QED
      BY <1>6, <3>2
  <2>2. /\ SubParserOK(sub', Symbols) /\ sub'.buf = Empty
        /\ sub'.mode = IF mode = "chunkSize" THEN "delimiter" ELSE "direct"
    <3>1. CASE mode = "chunkSize"
      BY <2>1, <3>1, ContentParserOK, ParsersOK
    <3>2. CASE mode # "chunkSize"
      BY <2>1, <3>2, ContentParserOK
    <3> QED
      BY <3>1, <3>2
  <2>3. CurOK'
    BY <1>1, <1>6, <2>2 DEF CurOK, ByDelimiter
  <2>4. GotOK'
    BY <1>1, <1>3, <1>4, <1>6, SameGot
  <2> QED
    BY <1>2, <1>3, <1>6, <2>2, <2>3, <2>4, CallKeeps
<1> QED
  BY <1>2, <1>5, <1>6

\* A call of Content's subparser that parses has an empty buffer.
LEMMA ContentParsed ==
    ASSUME StreamOK, CurOK, NEW r \in Parsed("content"), 
           proc \in {"chunkSize", "chunkData", "chunkCRLF", "length", "close"}
    PROVE  /\ r \in Outcomes(cur) /\ cur = "content" /\ cur # "none" /\ r.ok = TRUE
           /\ SubParserOK(r.sub, Symbols) /\ r.sub.mode = sub.mode
           /\ r.piece \in Seq(Symbols) /\ r.sub.buf = Empty
<1>1. /\ r \in Outcomes(cur) /\ cur = "content" /\ cur # "none" /\ r.ok = TRUE
      /\ SubParserOK(r.sub, Symbols) /\ r.sub.mode = sub.mode /\ r.piece \in Seq(Symbols)
      /\ (sub.mode = "directDelimiter" => r.sub.found # << >>) => r.sub.buf = Empty
  BY ParsedKept
<1>2. sub.mode # "directDelimiter"
  BY <1>1 DEF CurOK
<1> QED
  BY <1>1, <1>2

\* What has been decoded of the content.
LEMMA AppendContentKeeps ==
    ASSUME GotOK, NEW r, r.piece \in Seq(Symbols), AppendContent(r), msg' = msg, cur # "none",
           cur' = cur \/ cur' \notin {"urlVar", "line"}
    PROVE  GotOK'
<1>1. got \in GotType /\ Len(got.options) <= MaxOptions
  BY DEF GotOK
<1>2. PICK c \in Seq(Symbols) : c = got.content \o r.piece
  <2>1. got.content \in Seq(Symbols)
    BY <1>1 DEF GotType
  <2> QED
    BY <2>1, ConcatProperties
<1>3. got' = [got EXCEPT !.content = c]
  BY <1>2 DEF AppendContent
<1>4. got' \in GotType /\ got'.options = got.options /\ got'.items = got.items
  BY <1>1, <1>3 DEF GotType
<1> QED
  BY <1>1, <1>4, NewGot

\* Content::parse of a chunk's size keeps the invariant.
LEMMA ChunkSizeKeeps ==
    ASSUME IInv, ParseChunkSize
    PROVE  IInv' /\ (ttl' > ttl => Len(pending') < Len(pending))
<1>1. StreamOK /\ CurOK /\ GotOK
  BY DEF IInv
<1>2. PICK r \in Parsed("content") :
        /\ Log(r) /\ got' = got /\ answered' = answered
        /\ \/ sub' = r.sub /\ Fails("badData") /\ cur' = cur /\ proc' = proc
           \/ sub' = r.sub /\ Goes(r) /\ cur' = "none" /\ proc' = proc
           \/ /\ Goes(r) /\ cur' = cur /\ proc' = "chunkData"
              /\ \E n \in 1..MaxChunk : sub' = ContentParser("chunkData", n)
  BY DEF ParseChunkSize, ResponseEnds, ContentGoesOn
<1>3. /\ r \in Outcomes(cur) /\ cur = "content" /\ cur # "none" /\ r.ok = TRUE
      /\ SubParserOK(r.sub, Symbols) /\ r.sub.mode = sub.mode /\ r.sub.buf = Empty
  BY <1>1, ContentParsed DEF ParseChunkSize
<1>4. msg' = msg
  BY <1>2 DEF Log
<1>5. GotOK'
  BY <1>1, <1>2, <1>3, <1>4, SameGot
<1>6. (r.ok = TRUE /\ Goes(r)) \/ (\E why \in Whys : Fails(why))
  BY <1>2, <1>3 DEF Whys
<1>7. CurOK' /\ (cur' = "none" \/ sub'.buf = r.sub.buf)
  <2>1. CASE sub' = r.sub /\ cur' = cur /\ proc' = proc
    BY <1>1, <1>2, <1>3, <2>1, SameCur
  <2>2. CASE sub' = r.sub /\ cur' = "none" /\ proc' = proc
    <3>1. answered' \in {"none", "app", "505", "400", "413"}
      BY <1>1, <1>2 DEF CurOK
    <3> QED
      BY <1>1, <1>3, <2>2, <3>1, NoCur
  <2>3. CASE cur' = cur /\ proc' = "chunkData" /\ \E n \in 1..MaxChunk : sub' = ContentParser("chunkData", n)
    <3>1. PICK n \in Nat : sub' = ContentParser("chunkData", n)
      BY <2>3, StreamParserAssumption
    <3>2. SubParserOK(sub', Symbols) /\ sub'.buf = Empty /\ sub'.mode = "size"
      BY <3>1, ContentParserOK
    <3> QED
      BY <1>1, <1>2, <1>3, <2>3, <3>2 DEF CurOK, ByDelimiter
  <2> QED
    BY <1>2, <2>1, <2>2, <2>3
<1> QED
  BY <1>2, <1>3, <1>5, <1>6, <1>7, CallKeeps

\* Content::parse of a chunk's data and of what follows it keeps the invariant.
LEMMA ChunkDataKeeps ==
    ASSUME IInv, ParseChunkData \/ ParseChunkCRLF
    PROVE  IInv' /\ (ttl' > ttl => Len(pending') < Len(pending))
<1>1. StreamOK /\ CurOK /\ GotOK
  BY DEF IInv
<1>2. PICK r \in Parsed("content") :
        /\ Log(r) /\ Goes(r) /\ cur' = cur /\ answered' = answered
        /\ \/ AppendContent(r) /\ proc' = "chunkCRLF" /\ sub' = ContentParser("chunkCRLF", 2)
           \/ got' = got /\ proc' = "chunkSize" /\ sub' = ContentParser("chunkSize", MaxLine)
  BY DEF ParseChunkData, ParseChunkCRLF, ContentGoesOn
<1>3. /\ r \in Outcomes(cur) /\ cur = "content" /\ cur # "none" /\ r.ok = TRUE
      /\ r.piece \in Seq(Symbols) /\ r.sub.buf = Empty
  BY <1>1, ContentParsed DEF ParseChunkData, ParseChunkCRLF
<1>4. msg' = msg
  BY <1>2 DEF Log
<1>5. GotOK'
  BY <1>1, <1>2, <1>3, <1>4, SameGot, AppendContentKeeps
<1>6. CurOK' /\ sub'.buf = r.sub.buf
  <2>1. CASE proc' = "chunkCRLF" /\ sub' = ContentParser("chunkCRLF", 2)
    <3>1. SubParserOK(sub', Symbols) /\ sub'.buf = Empty /\ sub'.mode = "size"
      BY <2>1, ContentParserOK
    <3> QED
      BY <1>1, <1>2, <1>3, <2>1, <3>1 DEF CurOK, ByDelimiter
  <2>2. CASE proc' = "chunkSize" /\ sub' = ContentParser("chunkSize", MaxLine)
    <3>1. SubParserOK(sub', Symbols) /\ sub'.buf = Empty /\ sub'.mode = "delimiter"
      BY <2>2, ContentParserOK, ParsersOK, StreamParserAssumption
    <3> QED
      BY <1>1, <1>2, <1>3, <2>2, <3>1 DEF CurOK, ByDelimiter
  <2> QED
    BY <1>2, <2>1, <2>2
<1> QED
  BY <1>2, <1>3, <1>5, <1>6, CallKeeps

\* Content::parse of a content of known length, or of one that the connection's end
\* ends, keeps the invariant.
LEMMA PlainContentKeeps ==
    ASSUME IInv, ParseContentLength \/ ParseConnectionClose
    PROVE  IInv' /\ (ttl' > ttl => Len(pending') < Len(pending))
<1>1. StreamOK /\ CurOK /\ GotOK
  BY DEF IInv
<1>2. PICK r \in Parsed("content") :
        /\ Log(r) /\ AppendContent(r) /\ proc' = proc /\ sub' = r.sub
        /\ \/ Goes(r) /\ cur' = cur /\ answered' = answered
           \/ (Goes(r) \/ Fails("upstream")) /\ cur' = "none" /\ answered' \in {answered, "app"}
  BY DEF ParseContentLength, ParseConnectionClose, ContentGoesOn, RequestEnds, ResponseEnds, Answer
<1>3. /\ r \in Outcomes(cur) /\ cur = "content" /\ cur # "none" /\ r.ok = TRUE
      /\ SubParserOK(r.sub, Symbols) /\ r.sub.mode = sub.mode /\ r.piece \in Seq(Symbols)
  BY <1>1, ContentParsed DEF ParseContentLength, ParseConnectionClose
<1>4. msg' = msg
  BY <1>2 DEF Log
<1>5. GotOK'
  BY <1>1, <1>2, <1>3, <1>4, AppendContentKeeps
<1>6. CurOK'
  <2>1. CASE cur' = cur /\ answered' = answered
    BY <1>1, <1>2, <1>3, <2>1, SameCur
  <2>2. CASE cur' = "none" /\ answered' \in {answered, "app"}
    <3>1. answered' \in {"none", "app", "505", "400", "413"}
      BY <1>1, <2>2 DEF CurOK
    <3> QED
      BY <1>1, <1>2, <1>3, <2>2, <3>1, NoCur
  <2> QED
    BY <1>2, <2>1, <2>2
<1>7. (r.ok = TRUE /\ Goes(r)) \/ (\E why \in Whys : Fails(why))
  BY <1>2, <1>3 DEF Whys
<1> QED
  BY <1>2, <1>3, <1>5, <1>6, <1>7, CallKeeps

\* What Decoders::URL gives is a sequence of symbols.
LEMMA URLDecodeType ==
    ASSUME NEW s \in Seq(Symbols)
    PROVE  URLDecode(s) \in Seq(Symbols)
<1>1. "&" \in Symbols /\ "=" \in Symbols
  BY SymbolsAssumption
<1>2. Len(s) \in Nat /\ DOMAIN s = 1..Len(s)
  BY LenProperties
<1>3. \A i \in 1..Len(s) : s[i] \in Symbols
  BY ElementOfSeq
<1>4. URLDecode(s) \in [1..Len(s) -> Symbols]
  BY <1>1, <1>2, <1>3 DEF URLDecode
<1> QED
  BY <1>2, <1>4, SeqDef

\* So is the name that addVar stores.
LEMMA UpperType ==
    ASSUME NEW s \in Seq(Symbols)
    PROVE  Upper(s) \in Seq(Symbols)
<1>1. \A x \in DOMAIN to_upper : to_upper[x] \in Symbols
  BY SymbolsAssumption
<1>2. Len(s) \in Nat /\ DOMAIN s = 1..Len(s)
  BY LenProperties
<1>3. \A i \in 1..Len(s) : s[i] \in Symbols
  BY ElementOfSeq
<1>4. Upper(s) \in [1..Len(s) -> Symbols]
  BY <1>1, <1>2, <1>3 DEF Upper
<1> QED
  BY <1>2, <1>4, SeqDef

\* Only the parts of a form are limited in number.
LEMMA OtherItems ==
    ASSUME GotOK, got' \in GotType, got'.options = got.options, msg.proto # "mime",
           msg' = msg, cur' = cur \/ cur' = "none"
    PROVE  GotOK'
BY DEF GotOK

\* URLVars::addVar
LEMMA AddVarType ==
    ASSUME GotOK, NEW n \in Seq(Symbols), NEW v \in Seq(Symbols)
    PROVE  addVar(n, v) \in Seq(Items)
<1>1. got.items \in Seq(Items)
  BY DEF GotOK, GotType
<1>2. [name |-> Upper(n), value |-> v] \in Items
  BY UpperType DEF Items
<1> HIDE DEF Items
<1>3. Append(got.items, [name |-> Upper(n), value |-> v]) \in Seq(Items)
  BY <1>1, <1>2, AppendProperties
<1> QED
  BY <1>1, <1>3 DEF addVar

\* URLVars::changeToNextParser keeps the invariant.
LEMMA URLVarKeeps ==
    ASSUME IInv, ParseURLVar
    PROVE  IInv' /\ (ttl' > ttl => Len(pending') < Len(pending))
<1>1. StreamOK /\ CurOK /\ GotOK
  BY DEF IInv
<1>2. PICK r \in Parsed("urlVar") :
        /\ Log(r) /\ Goes(r) /\ cur' = cur /\ answered' = answered
        /\ \/ sub' = r.sub /\ proc' = proc /\ got' = got
           \/ /\ got' = [got EXCEPT !.items = addVar(URLDecode(r.piece), << >>)]
              /\ sub' = r.sub /\ proc' = proc
           \/ /\ got' = [got EXCEPT !.name = URLDecode(r.piece)]
              /\ proc' = "value" /\ sub' = ValueParser
           \/ /\ got' = [got EXCEPT !.items = addVar(got.name, URLDecode(r.piece))]
              /\ proc' = "name" /\ sub' = NameParser
  BY DEF ParseURLVar
<1>3. /\ r \in Outcomes(cur) /\ cur = "urlVar" /\ cur # "none" /\ r.ok = TRUE
      /\ SubParserOK(r.sub, Symbols) /\ r.sub.mode = "delimiter"
      /\ r.piece \in Seq(Symbols) /\ r.sub.buf = Empty
  BY <1>1, ByDelimiterParsed DEF ByDelimiter
<1>4. msg' = msg /\ msg.proto # "mime"
  BY <1>1, <1>2, <1>3 DEF Log, GotOK
<1>5. SubParserOK(sub', Symbols) /\ sub'.mode = "delimiter" /\ sub'.buf = Empty
  BY <1>2, <1>3, ParsersOK
<1>6. CurOK'
  <2>1. proc' \in {proc, "name", "value"} /\ cur' \in ByDelimiter
    BY <1>2, <1>3 DEF ByDelimiter
  <2> QED
    BY <1>1, <1>2, <1>5, <2>1, NextByDelimiter
<1>7. got' \in GotType /\ got'.options = got.options
  <2>1. got \in GotType /\ got.name \in Seq(Symbols) /\ << >> \in Seq(Symbols)
    BY <1>1 DEF GotOK, GotType
  <2>2. PICK d \in Seq(Symbols) : d = URLDecode(r.piece)
    BY <1>3, URLDecodeType
  <2>3. addVar(d, << >>) \in Seq(Items) /\ addVar(got.name, d) \in Seq(Items)
    BY <1>1, <2>1, AddVarType
  <2>4. PICK i \in Seq(Items), j \in Seq(Items) : i = addVar(d, << >>) /\ j = addVar(got.name, d)
    BY <2>3
  <2>5. \/ got' = got
        \/ got' = [got EXCEPT !.items = i]
        \/ got' = [got EXCEPT !.name = d]
        \/ got' = [got EXCEPT !.items = j]
    BY <1>2, <2>2, <2>4
  <2> QED
    BY <2>1, <2>5 DEF GotType
<1>8. GotOK'
  BY <1>1, <1>2, <1>4, <1>7, OtherItems
<1> QED
  BY <1>2, <1>3, <1>5, <1>6, <1>8, CallKeeps

\* LineRecv::changeToNextParser keeps the invariant.
LEMMA LineKeeps ==
    ASSUME IInv, ParseLine
    PROVE  IInv' /\ (ttl' > ttl => Len(pending') < Len(pending))
<1>1. StreamOK /\ CurOK /\ GotOK
  BY DEF IInv
<1>2. PICK r \in Parsed("line") :
        /\ Log(r) /\ got' = [got EXCEPT !.items = Append(got.items, [value |-> r.piece])]
        /\ sub' = r.sub /\ proc' = proc /\ answered' = answered
        /\ \/ Goes(r) /\ cur' = cur
           \/ cur' = "none" /\ Fails("refused")
  BY DEF ParseLine
<1>3. /\ r \in Outcomes(cur) /\ cur = "line" /\ cur # "none" /\ r.ok = TRUE
      /\ SubParserOK(r.sub, Symbols) /\ r.sub.mode = sub.mode /\ r.piece \in Seq(Symbols)
  BY <1>1, ByDelimiterParsed DEF ByDelimiter
<1>4. msg' = msg /\ msg.proto # "mime"
  BY <1>1, <1>2, <1>3 DEF Log, GotOK
<1>5. CurOK'
  <2>1. answered' \in {"none", "app", "505", "400", "413"}
    BY <1>1, <1>2 DEF CurOK
  <2> QED
    BY <1>1, <1>2, <1>3, <2>1, SameCur, NoCur
<1>6. got' \in GotType /\ got'.options = got.options
  <2>1. got \in GotType /\ got.items \in Seq(Items)
    BY <1>1 DEF GotOK, GotType
  <2>2. [value |-> r.piece] \in Items
    BY <1>3 DEF Items
  <2>3. PICK i \in Seq(Items) : i = Append(got.items, [value |-> r.piece])
    <3> HIDE DEF Items
    <3> QED
      BY <2>1, <2>2, AppendProperties
  <2>4. got' = [got EXCEPT !.items = i]
    BY <1>2, <2>3
  <2> QED
    BY <2>1, <2>4 DEF GotType
<1>7. GotOK'
  BY <1>1, <1>2, <1>4, <1>6, OtherItems
<1>8. (r.ok = TRUE /\ Goes(r)) \/ (\E why \in Whys : Fails(why))
  BY <1>2, <1>3 DEF Whys
<1> QED
  BY <1>2, <1>3, <1>5, <1>7, <1>8, CallKeeps

\* MIME_Message::changeToNextParser after the first boundary and after a part's headers
\* keeps the invariant.
LEMMA PartHeadersKeep ==
    ASSUME IInv, ParseFirstBoundary \/ ParsePartHeaders
    PROVE  IInv' /\ (ttl' > ttl => Len(pending') < Len(pending))
<1>1. StreamOK /\ CurOK /\ GotOK
  BY DEF IInv
<1>2. PICK r \in Parsed("firstBoundary") \cup Parsed("partHeaders") :
        /\ Log(r) /\ Goes(r) /\ proc' = proc /\ answered' = answered
        /\ \/ got' = got
           \/ got' = [got EXCEPT !.name = parseOptionValue(got.name, r.piece)]
        /\ \/ cur' = "partHeaders" /\ sub' = LineParser
           \/ cur' = cur /\ sub' = r.sub
           \/ cur' = "partContent" /\ sub' = PartContent
  BY DEF ParseFirstBoundary, ParsePartHeaders, MoveTo
<1>3. /\ r \in Outcomes(cur) /\ cur \in {"firstBoundary", "partHeaders"} /\ cur # "none" /\ r.ok = TRUE
      /\ SubParserOK(r.sub, Symbols) /\ r.sub.mode = "delimiter" /\ sub.mode = "delimiter"
      /\ r.piece \in Seq(Symbols) /\ r.sub.buf = Empty
  BY <1>1, ByDelimiterParsed DEF ByDelimiter
<1>4. msg' = msg
  BY <1>2 DEF Log
<1>5. SubParserOK(sub', Symbols) /\ sub'.buf = Empty
  BY <1>2, <1>3, ParsersOK
<1>6. CurOK'
  <2>1. CASE cur' = "partContent" /\ sub' = PartContent
    BY <1>1, <1>2, <1>5, <2>1, ParsersOK DEF CurOK, ByDelimiter
  <2>2. CASE cur' \in {"firstBoundary", "partHeaders"} /\ sub'.mode = "delimiter"
    BY <1>1, <1>2, <1>5, <2>2, NextByDelimiter DEF ByDelimiter
  <2> QED
    BY <1>2, <1>3, <2>1, <2>2, ParsersOK
<1>7. cur' = cur \/ cur' \notin {"urlVar", "line"}
  BY <1>2
<1>8. GotOK'
  <2>1. CASE got' = got
    BY <1>1, <1>3, <1>4, <1>7, <2>1, SameGot
  <2>2. CASE got' = [got EXCEPT !.name = parseOptionValue(got.name, r.piece)]
    <3>1. got \in GotType /\ got.name \in Seq(Symbols) /\ Len(got.options) <= MaxOptions
      BY <1>1 DEF GotOK, GotType
    <3>2. PICK n \in Seq(Symbols) : n = parseOptionValue(got.name, r.piece)
      BY <1>3, <3>1, ParseOptionType
    <3>3. got' = [got EXCEPT !.name = n]
      BY <2>2, <3>2
    <3>4. got' \in GotType /\ got'.options = got.options /\ got'.items = got.items
      BY <3>1, <3>3 DEF GotType
    <3> QED
      BY <1>1, <1>3, <1>4, <1>7, <3>1, <3>4, NewGot
  <2> QED
    BY <1>2, <2>1, <2>2
<1> QED
  BY <1>2, <1>3, <1>5, <1>6, <1>8, CallKeeps

\* MIME_Sub_Content::parse keeps the invariant.
LEMMA PartContentKeeps ==
    ASSUME IInv, ParsePartContent
    PROVE  IInv' /\ (ttl' > ttl => Len(pending') < Len(pending))
<1>1. StreamOK /\ CurOK /\ GotOK
  BY DEF IInv
<1>2. PICK r \in Parsed("partContent") :
        /\ Log(r) /\ Goes(r) /\ proc' = proc /\ answered' = answered
        /\ \/ /\ got' = [got EXCEPT !.content = got.content \o r.piece]
              /\ cur' = cur /\ sub' = r.sub
           \/ /\ r.sub.found # << >>
              /\ got' = [got EXCEPT !.items = Append(got.items, [name |-> got.name, value |-> got.content \o r.piece]),
                                    !.name = << >>, !.content = << >>]
              /\ \/ cur' = "none" /\ sub' = r.sub
                 \/ Len(got'.items) # MaxParts /\ cur' = "endpoint" /\ sub' = EndPBoundary
  BY DEF ParsePartContent, MoveTo
<1>3. /\ r \in Outcomes(cur) /\ cur = "partContent" /\ cur # "none" /\ r.ok = TRUE
      /\ SubParserOK(r.sub, Symbols) /\ r.sub.mode = sub.mode /\ sub.mode = "directDelimiter"
      /\ r.piece \in Seq(Symbols)
      /\ r.sub.found # << >> => r.sub.buf = Empty
  BY <1>1, ParsedKept DEF CurOK
<1>4. msg' = msg
  BY <1>2 DEF Log
<1>5. /\ got \in GotType /\ got.content \in Seq(Symbols) /\ got.name \in Seq(Symbols)
      /\ got.items \in Seq(Items) /\ Len(got.options) <= MaxOptions /\ << >> \in Seq(Symbols)
  BY <1>1 DEF GotOK, GotType
<1>6. PICK c \in Seq(Symbols) : c = got.content \o r.piece
  BY <1>3, <1>5, ConcatProperties
<1>7. CASE got' = [got EXCEPT !.content = c] /\ cur' = cur /\ sub' = r.sub
  <2>1. got' \in GotType /\ got'.options = got.options /\ got'.items = got.items
    BY <1>5, <1>7 DEF GotType
  <2>2. GotOK'
    BY <1>1, <1>3, <1>4, <1>5, <1>7, <2>1, NewGot
  <2>3. CurOK'
    BY <1>1, <1>2, <1>3, <1>7, SameCur
  <2> QED
    BY <1>2, <1>3, <1>7, <2>2, <2>3, CallKeeps
<1>8. CASE /\ r.sub.found # << >>
           /\ got' = [got EXCEPT !.items = Append(got.items, [name |-> got.name, value |-> c]),
                                 !.name = << >>, !.content = << >>]
           /\ \/ cur' = "none" /\ sub' = r.sub
              \/ Len(got'.items) # MaxParts /\ cur' = "endpoint" /\ sub' = EndPBoundary
  <2>1. PICK i \in Seq(Items) :
          i = Append(got.items, [name |-> got.name, value |-> c]) /\ Len(i) = Len(got.items) + 1
    <3>1. PICK x \in Items : x = [name |-> got.name, value |-> c]
      BY <1>5 DEF Items
    <3>2. Append(got.items, x) \in Seq(Items) /\ Len(Append(got.items, x)) = Len(got.items) + 1
      <4> HIDE DEF Items
      <4> QED
        BY <1>5, AppendProperties
    <3> QED
      BY <3>1, <3>2
  <2>2. got' = [got EXCEPT !.items = i, !.name = << >>, !.content = << >>]
    BY <1>8, <2>1
  <2>3. got' \in GotType /\ got'.options = got.options /\ got'.items = i
    BY <1>5, <2>2 DEF GotType
  <2>4. GotOK'
    <3>1. Len(got.items) \in Nat /\ MaxParts \in Nat
      BY <1>5, StreamParserAssumption, LenProperties
    <3>2. ASSUME msg.proto = "mime", MaxParts > 0
          PROVE  Len(i) <= MaxParts /\ (cur' # "none" => Len(i) < MaxParts)
      <4>1. Len(got.items) < MaxParts
        BY <1>1, <1>3, <3>2 DEF GotOK
      <4>2. cur' # "none" => Len(i) # MaxParts
        BY <1>8, <2>3
      <4> QED
        BY <2>1, <3>1, <4>1, <4>2
    <3>3. cur' \notin {"urlVar", "line"}
      BY <1>8
    <3> QED
      BY <1>4, <1>5, <2>3, <3>2, <3>3 DEF GotOK
  <2>5. SubParserOK(sub', Symbols) /\ (cur' = "none" \/ (sub'.mode = "delimiter" /\ sub'.buf = Empty))
    BY <1>3, <1>8, ParsersOK
  <2>6. CurOK'
    <3>1. answered' \in {"none", "app", "505", "400", "413"}
      BY <1>1, <1>2 DEF CurOK
    <3>2. CASE cur' = "none"
      BY <1>1, <1>2, <2>5, <3>1, <3>2, NoCur
    <3>3. CASE cur' = "endpoint"
      BY <1>1, <1>2, <2>5, <3>3, NextByDelimiter DEF ByDelimiter
    <3> QED
      BY <1>8, <3>2, <3>3
  <2> QED
    BY <1>2, <1>3, <1>8, <2>4, <2>5, <2>6, CallKeeps
<1> QED
  BY <1>2, <1>6, <1>7, <1>8

\* MIME_Sub_EndPBoundary::parse keeps the invariant.
LEMMA EndPointKeeps ==
    ASSUME IInv, ParseEndPoint
    PROVE  IInv' /\ (ttl' > ttl => Len(pending') < Len(pending))
<1>1. StreamOK /\ CurOK /\ GotOK
  BY DEF IInv
<1>2. PICK r \in Parsed("endpoint") :
        /\ Log(r) /\ proc' = proc /\ answered' = answered /\ got' = got
        /\ \/ cur' = "none" /\ sub' = r.sub /\ Goes(r)
           \/ cur' = "partHeaders" /\ sub' = LineParser /\ Goes(r)
           \/ cur' = cur /\ sub' = r.sub /\ Fails("badData")
  BY DEF ParseEndPoint, MoveTo
<1>3. /\ r \in Outcomes(cur) /\ cur = "endpoint" /\ cur # "none" /\ r.ok = TRUE
      /\ SubParserOK(r.sub, Symbols) /\ r.sub.mode = "delimiter" /\ r.sub.buf = Empty
  BY <1>1, ByDelimiterParsed DEF ByDelimiter
<1>4. msg' = msg
  BY <1>2 DEF Log
<1>5. SubParserOK(sub', Symbols) /\ sub'.mode = "delimiter" /\ sub'.buf = Empty
  BY <1>2, <1>3, ParsersOK
<1>6. CurOK'
  <2>1. answered' \in {"none", "app", "505", "400", "413"}
    BY <1>1, <1>2 DEF CurOK
  <2>2. CASE cur' = "none"
    BY <1>1, <1>2, <1>5, <2>1, <2>2, NoCur
  <2>3. CASE cur' \in {"partHeaders", "endpoint"}
    BY <1>1, <1>2, <1>5, <2>3, NextByDelimiter DEF ByDelimiter
  <2> QED
    BY <1>2, <1>3, <2>2, <2>3
<1>7. GotOK'
  BY <1>1, <1>2, <1>3, <1>4, SameGot
<1>8. (r.ok = TRUE /\ Goes(r)) \/ (\E why \in Whys : Fails(why))
  BY <1>2, <1>3 DEF Whys
<1> QED
  BY <1>2, <1>3, <1>5, <1>6, <1>7, <1>8, CallKeeps
-----------------------------------------------------------------------------
(* The theorems *)

\* initProtocol establishes the invariant.
LEMMA InitKeeps == Init => IInv
<1> SUFFICES ASSUME Init PROVE IInv
  OBVIOUS
<1>1. /\ msg \in Messages /\ wire = Encode(msg) /\ pending = << >> /\ ttl = 0
      /\ cur = FirstParser(msg)[1] /\ sub = FirstParser(msg)[2]
      /\ proc = IF msg.proto = "url" THEN "name" ELSE ""
      /\ got = [line |-> << >>, options |-> << >>, content |-> << >>, name |-> << >>, items |-> << >>]
      /\ answered = "none" /\ result = "reading" /\ failed = "" /\ log = << >> /\ torn = FALSE
  BY DEF Init
<1>2. /\ SubParserOK(sub, Symbols) /\ sub.mode = "delimiter" /\ sub.buf = Empty
      /\ cur \in ByDelimiter
      /\ cur = "urlVar" => msg.proto = "url"
      /\ cur = "line" => msg.proto = "line"
  BY <1>1, FirstParserOK
<1>3. wire \in Seq(Symbols) /\ << >> \in Seq(Symbols)
  <2>1. msg \in Messages /\ wire = Encode(msg)
    BY <1>1
  <2>2. Encode(msg) \in Seq(Symbols)
    BY <2>1, EncodeType
  <2> QED
    BY <2>1, <2>2
<1>4. << >> \o wire = wire /\ << >> \o (<< >> \o wire) = wire
  BY <1>3, ConcatEmptySeq
<1>5. StreamOK
  <2>1. \E u \in Seq(Symbols) : Encode(msg) = u \o (pending \o wire)
    BY <1>1, <1>3, <1>4
  <2>2. ttl \in 0 .. MaxTTL + 1
    <3>1. ttl = 0 /\ MaxTTL \in Nat
      BY <1>1, StreamParserAssumption
    <3> QED
      BY <3>1
  <2> QED
    BY <1>1, <1>3, <2>1, <2>2 DEF StreamOK
<1>6. CurOK
  BY <1>1, <1>2 DEF CurOK, ByDelimiter
<1>7. GotOK
  <2>1. << >> \in Seq(Items) /\ Len(<< >>) = 0
    OBVIOUS
  <2>2. got \in GotType /\ got.options = << >> /\ got.items = << >>
    BY <1>1, <1>3, <2>1 DEF GotType
  <2>3. MaxOptions \in Nat /\ MaxParts \in Nat
    BY StreamParserAssumption
  <2> QED
    BY <1>2, <2>1, <2>2, <2>3 DEF GotOK
<1>8. Conservation
  <2>1. Bytes(sub.buf) = << >>
    BY <1>2, BytesEmpty
  <2>2. << >> \o << >> = << >>
    BY <1>3, ConcatEmptySeq
  <2> QED
    BY <1>1, <1>4, <2>1, <2>2 DEF Conservation
<1> QED
  BY <1>5, <1>6, <1>7, <1>8 DEF IInv

\* Every step keeps the invariant, and one that is not the last of its write takes a byte.
LEMMA StepKeeps ==
    ASSUME IInv, [Next]_vars
    PROVE  IInv' /\ (ttl' > ttl => Len(pending') < Len(pending))
<1>1. CASE Read
  BY <1>1, ReadKeeps
<1>2. CASE Finish \/ Disconnect
  BY <1>2, EndKeeps
<1>3. CASE Buffer \/ NoRoomLeft
  BY <1>3, BufferKeeps
<1>4. CASE TTLReached \/ AfterEnd
  BY <1>4, GivingUpKeeps
<1>5. CASE ParseRequestLine
  BY <1>5, RequestLineKeeps
<1>6. CASE ParseClientHeaders
  BY <1>6, ClientHeadersKeep
<1>7. CASE ParseStatus
  BY <1>7, StatusKeeps
<1>8. CASE ParseServerHeaders
  BY <1>8, ServerHeadersKeep
<1>9. CASE ParseChunkSize
  BY <1>9, ChunkSizeKeeps
<1>10. CASE ParseChunkData \/ ParseChunkCRLF
  BY <1>10, ChunkDataKeeps
<1>11. CASE ParseContentLength \/ ParseConnectionClose
  BY <1>11, PlainContentKeeps
<1>12. CASE ParseURLVar
  BY <1>12, URLVarKeeps
<1>13. CASE ParseLine
  BY <1>13, LineKeeps
<1>14. CASE ParseFirstBoundary \/ ParsePartHeaders
  BY <1>14, PartHeadersKeep
<1>15. CASE ParsePartContent
  BY <1>15, PartContentKeeps
<1>16. CASE ParseEndPoint
  BY <1>16, EndPointKeeps
<1>17. CASE UNCHANGED vars
  <2>1. StreamOK'
    BY <1>17 DEF IInv, StreamOK, vars
  <2>2. CurOK'
    BY <1>17 DEF IInv, CurOK, vars
  <2>3. GotOK'
    BY <1>17 DEF IInv, GotOK, vars
  <2>4. Conservation'
    BY <1>17 DEF IInv, Conservation, vars
  <2>5. ttl' = ttl /\ ttl \in 0 .. MaxTTL + 1 /\ MaxTTL \in Nat
    BY <1>17, StreamParserAssumption DEF IInv, StreamOK, vars
  <2> QED
    BY <2>1, <2>2, <2>3, <2>4, <2>5 DEF IInv
<1> QED
  BY <1>1, <1>2, <1>3, <1>4, <1>5, <1>6, <1>7, <1>8, <1>9, <1>10, <1>11, <1>12, <1>13, <1>14,
     <1>15, <1>16, <1>17 DEF Next

\* The invariant holds at every moment of every run of a parser.
THEOREM Invariance == Spec => []IInv
<1>1. Init => IInv
  BY InitKeeps
<1>2. IInv /\ [Next]_vars => IInv'
  BY StepKeeps
<1> QED
  BY <1>1, <1>2, PTL DEF Spec

\* Parser::parseData and the subparsers lose and repeat no byte, whatever the message,
\* wherever its stream is cut, and whatever the limits are: until a write fails or the
\* parser is done, what was handed over, what is buffered, what is left of the write and
\* what has not been read are the message.
THEOREM BytesConserved == Spec => []Conservation
<1>1. IInv => Conservation
  BY DEF IInv
<1> QED
  BY <1>1, Invariance, PTL

\* A call of parseData that leaves bytes of the write to the next call has taken at least
\* one: the recursion of parseData ends, and there is no more than one call per byte.
THEOREM NoCallIsIdle == Spec => NoIdleCall
<1>1. IInv /\ [Next]_vars => [ttl' > ttl => Len(pending') < Len(pending)]_vars
  BY StepKeeps
<1> QED
  BY <1>1, Invariance, PTL DEF Spec, NoIdleCall

\* An end of a sequence is a suffix of it.
LEMMA SuffixIs ==
    ASSUME NEW S, NEW u \in Seq(S), NEW s \in Seq(S)
    PROVE  IsSuffix(s, u \o s)
<1> DEFINE t == u \o s
<1>1. /\ t \in Seq(S) /\ Len(t) = Len(u) + Len(s) /\ Len(u) \in Nat /\ Len(s) \in Nat
      /\ \A k \in 1..Len(s) : t[Len(u) + k] = s[k]
  BY ConcatProperties, LenProperties
<1> HIDE DEF t
<1>2. /\ Reverse(s) = [i \in 1..Len(s) |-> s[(Len(s) - i) + 1]]
      /\ Reverse(t) = [i \in 1..Len(t) |-> t[(Len(t) - i) + 1]]
  BY DEF Reverse
<1>3. ASSUME NEW i \in 1..Len(s) PROVE Reverse(t)[i] = Reverse(s)[i]
  <2>1. (Len(s) - i) + 1 \in 1..Len(s) /\ i \in 1..Len(t)
    BY <1>1
  <2>2. (Len(t) - i) + 1 = Len(u) + ((Len(s) - i) + 1)
    BY <1>1
  <2>3. t[Len(u) + ((Len(s) - i) + 1)] = s[(Len(s) - i) + 1]
    <3>1. PICK k \in 1..Len(s) : k = (Len(s) - i) + 1
      BY <2>1
    <3>2. t[Len(u) + k] = s[k]
      BY <1>1
    <3> QED
      BY <3>1, <3>2
  <2> QED
    BY <1>2, <2>1, <2>2, <2>3
<1>4. Reverse(s) \in Seq(S) /\ Len(Reverse(s)) = Len(s) /\ Reverse(t) \in Seq(S) /\ Len(Reverse(t)) = Len(t)
  <2>1. ASSUME NEW x \in Seq(S) PROVE Reverse(x) \in Seq(S) /\ Len(Reverse(x)) = Len(x)
    <3>1. Len(x) \in Nat
      BY LenProperties
    <3>2. \A i \in 1..Len(x) : x[(Len(x) - i) + 1] \in S
      BY <3>1, ElementOfSeq
    <3> QED
      BY <3>1, <3>2 DEF Reverse
  <2> QED
    BY <1>1, <2>1
<1> DEFINE rs == Reverse(s)
           rt == Reverse(t)
<1>5. /\ rs \in Seq(S) /\ rt \in Seq(S) /\ Len(rs) = Len(s) /\ Len(rt) = Len(t)
      /\ \A i \in 1..Len(s) : rt[i] = rs[i]
  BY <1>3, <1>4
<1> HIDE DEF rs, rt
<1>6. Len(rs) <= Len(rt)
  BY <1>1, <1>5
<1>7. SubSeq(rs, 1, Len(rs)) = SubSeq(rt, 1, Len(rs))
  <2>1. /\ SubSeq(rs, 1, Len(rs)) = [i \in 1..Len(rs) |-> rs[i]]
        /\ SubSeq(rt, 1, Len(rs)) = [i \in 1..Len(rs) |-> rt[i]]
    BY <1>1, <1>5
  <2> QED
    BY <1>5, <2>1
<1>8. IsPrefix(rs, rt)
  BY <1>6, <1>7 DEF IsPrefix
<1> QED
  BY <1>8 DEF IsSuffix, rs, rt, t

\* The types, and the limits of a subparser's buffer (m_maxObjectSize), of the header
\* options and of the parts of a form, hold at every moment of every run of a parser.
THEOREM TypeCorrect == Spec => []TypeOK
<1>1. ASSUME IInv PROVE TypeOK
  <2>1. StreamOK /\ CurOK /\ GotOK
    BY <1>1 DEF IInv
  <2>2. IsSuffix(pending \o wire, Encode(msg))
    <3>1. PICK u \in Seq(Symbols) : Encode(msg) = u \o (pending \o wire)
      BY <2>1 DEF StreamOK
    <3>2. pending \o wire \in Seq(Symbols)
      BY <2>1, ConcatProperties DEF StreamOK
    <3> QED
      BY <3>1, <3>2, SuffixIs
  <2>3. size(sub.buf) <= sub.max
    BY <2>1 DEF CurOK, SubParserOK
  <2>4. cur \in {"requestLine", "status", "headers", "content", "urlVar", "firstBoundary",
                 "partHeaders", "partContent", "endpoint", "line", "none"}
    BY <2>1 DEF CurOK, ByDelimiter
  <2>5. /\ proc \in {"", "chunkSize", "chunkData", "chunkCRLF", "length", "close", "name", "value"}
        /\ answered \in {"none", "app", "505", "400", "413"}
    BY <2>1 DEF CurOK
  <2>6. /\ Len(got.options) <= MaxOptions
        /\ (msg.proto = "mime" /\ MaxParts > 0) => Len(got.items) <= MaxParts
    BY <2>1 DEF GotOK
  <2> QED
    BY <2>1, <2>2, <2>3, <2>4, <2>5, <2>6 DEF TypeOK, StreamOK
<1> QED
  BY <1>1, Invariance, PTL
=============================================================================
