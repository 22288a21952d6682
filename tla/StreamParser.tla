---------------------------- MODULE StreamParser ----------------------------
(***************************************************************************)
(* Memory::Streams::Parser and the protocols built on it: HTTPv1_Server    *)
(* reading a request, HTTPv1_Client reading a response, URLVars and        *)
(* MIME_Message decoding a posted form, LineRecv.                          *)
(*                                                                         *)
(* One peer encodes a message; its bytes reach the parser in writes that   *)
(* are cut anywhere (Socket_Stream::streamTo, or the Content that feeds a  *)
(* form), and the connection may break at any time.  A step of the parser  *)
(* is one call of parseData: one writeIntoParser of the current subparser, *)
(* its parse() and, if that asks for it, changeToNextParser().             *)
(*                                                                         *)
(* Bytes are symbols.  A request line, a status line, a header option and  *)
(* a chunk size are one symbol each, so that the sizes below are counted   *)
(* in symbols.  What the application's callbacks answer is chosen freely.  *)
(***************************************************************************)
EXTENDS SubParser

CONSTANTS
    Symbols,        \* what the streams are made of
    Messages,       \* the messages that may be sent
    MaxTTL,         \* m_maxTTL
    MaxLine,        \* the size of a request line, a status line, a header option
    MaxOptions,     \* MIME_Sub_Header::m_maxOptions
    MaxPost,        \* Content::m_securityMaxPostDataSize
    MaxChunk,       \* Content::m_securityMaxHttpChunkSize
    MaxVar,         \* the size of a URL variable's name or value, of a line
    MaxParts,       \* MIME_Message::m_maxNumberOfParts
    EndpSize        \* what MIME_Sub_EndPBoundary buffers

ASSUME StreamParserAssumption ==
    {MaxTTL, MaxLine, MaxOptions, MaxPost, MaxChunk, MaxVar, MaxParts, EndpSize} \subseteq Nat

VARIABLES
    msg,        \* the message on its way
    wire,       \* its bytes that have not been read
    pending,    \* the bytes of the current write that the parser has not taken
    ttl,        \* calls of parseData in the current write
    cur,        \* m_currentParser
    sub,        \* the state of that subparser
    proc,       \* Content::m_currentMode, URLVars::m_currentStat
    got,        \* what has been decoded
    answered,   \* the status the server has answered with
    result,     \* how parseObject, or the feeding of a form, ends
    failed,     \* why a write has failed, "" when none has
    log,        \* every byte that was given to parse() or dropped as a delimiter
    torn        \* the offsets of a buffer's chunks have been wrong

vars == <<msg, wire, pending, ttl, cur, sub, proc, got, answered, result, failed, log, torn>>

CR == "CR"
LF == "LF"
CRLF == <<CR, LF>>
Boundary == <<"b">>
FirstDelimiter == <<"-", "-">> \o Boundary \o CRLF
PartDelimiter == CRLF \o <<"-", "-">> \o Boundary
EndDelimiter == <<"-", "-">> \o CRLF

\* What the symbols mean: the Content-Length and chunk sizes that they spell.
LengthOf == [L0 |-> 0, L1 |-> 1, L2 |-> 2, L3 |-> 3, L4 |-> 4]
Lengths == DOMAIN LengthOf
SizeOf(d) == CASE d = "0" -> 0 [] d = "1" -> 1 [] d = "2" -> 2 [] d = "3" -> 3
Sizes == {"0", "1", "2", "3"}
Symbol(n, S, f(_)) == CHOOSE s \in S : f(s) = n
RequestLines == {"q10", "q11", "q20"}     \* at least two words, and a version
Options == Lengths \cup {"Host", "Chunked", "h"}    \* a name, ": " and a value
Folds == {"f0", "f1"}       \* header lines that begin with a blank: " 1", and one with no number
Forms == {"url", "mime"}
to_upper == [a |-> "A"]
Upper(s) == [i \in DOMAIN s |-> IF s[i] \in DOMAIN to_upper THEN to_upper[s[i]] ELSE s[i]]

ASSUME SymbolsAssumption ==
    {CR, LF, "-", "b", "=", "&", "%26", "%3D"}
        \cup Sizes \cup Options \cup Folds \cup {to_upper[x] : x \in DOMAIN to_upper} \subseteq Symbols

-----------------------------------------------------------------------------
(* What the peers stream *)

Lines(s) == FlattenSeq([i \in DOMAIN s |-> <<s[i]>> \o CRLF])

\* HTTPv1_Client::initProtocol
EncodeRequest(m) == <<m.line>> \o CRLF \o Lines(m.options) \o CRLF \o m.content

\* ContentChunkedTransformer::write, once per chunk and once for the end.
EncodeChunks(chunks) ==
    FlattenSeq([i \in DOMAIN chunks |->
        (IF i = 1 THEN << >> ELSE CRLF)
            \o <<Symbol(Len(chunks[i]), Sizes, SizeOf)>> \o CRLF \o chunks[i]])
    \o (IF chunks = << >> THEN << >> ELSE CRLF) \o <<"0">> \o CRLF \o CRLF

\* HTTPv1_Server::streamServerHeaders and Content::streamToUpstream
EncodeResponse(m) ==
    LET content == FlattenSeq(m.chunks)
        option == CASE m.sends = "length" ->
                         <<Symbol(Len(content), Lengths, LAMBDA s : LengthOf[s])>>
                    [] m.sends = "chunks" -> <<"Chunked">>
                    [] m.sends = "close" -> <<"h">>
    IN  <<m.status>> \o CRLF \o Lines(option) \o CRLF
        \o (IF m.sends = "chunks" THEN EncodeChunks(m.chunks) ELSE content)

\* Encoders::URL and Decoders::URL: a delimiter inside a name or a value.
Escape == [x \in {"&", "="} |-> IF x = "&" THEN "%26" ELSE "%3D"]
URLEncode(s) == [i \in DOMAIN s |-> IF s[i] \in DOMAIN Escape THEN Escape[s[i]] ELSE s[i]]
URLDecode(s) ==
    [i \in DOMAIN s |-> CASE s[i] = "%26" -> "&" [] s[i] = "%3D" -> "=" [] OTHER -> s[i]]

\* URLVars::streamTo
EncodeURL(vs) ==
    FlattenSeq([i \in DOMAIN vs |->
        (IF i = 1 THEN << >> ELSE <<"&">>) \o URLEncode(vs[i].name)
            \o (IF vs[i].value = << >> THEN << >> ELSE <<"=">> \o URLEncode(vs[i].value))])

\* A multipart form as browsers post it, or one that lacks its end.
EncodeParts(items, ends) ==
    FlattenSeq([i \in DOMAIN items |->
        Lines(items[i].name) \o CRLF \o items[i].value \o PartDelimiter
            \o (IF i < Len(items) THEN CRLF ELSE IF ends THEN EndDelimiter ELSE << >>)])

\* MIME_Message::streamTo: MIME_Sub_Content::streamToUpstream has ended a part with the
\* boundary when streamTo writes it again.
StreamParts(items) ==
    FlattenSeq([i \in DOMAIN items |->
        CRLF \o Lines(items[i].name) \o CRLF \o items[i].value \o PartDelimiter
            \o <<"-", "-">> \o Boundary])

EncodeMIME(m) ==
    IF m.by = "browser" THEN FirstDelimiter \o EncodeParts(m.items, m.ends)
    ELSE <<"-", "-">> \o Boundary \o StreamParts(m.items) \o EndDelimiter

EncodeLines(ls) == FlattenSeq([i \in DOMAIN ls |-> ls[i].value \o <<LF>>])

Encode(m) ==
    CASE m.proto = "request" -> EncodeRequest(m)
      [] m.proto = "response" -> EncodeResponse(m)
      [] m.proto = "url" -> EncodeURL(m.items)
      [] m.proto = "mime" -> EncodeMIME(m)
      [] m.proto = "line" -> EncodeLines(m.items)

\* The messages that can be written so: a response's lengths have a symbol, a variable has a
\* name (addVar) and no escape in it that is not one, a form has parts and none of them the
\* boundary in it, a line has no separator in it.
Requests == [proto : {"request"}, line : Symbols, options : Seq(Symbols), content : Seq(Symbols)]

Responses ==
    {m \in [proto : {"response"}, status : Symbols, sends : {"length", "chunks", "close"},
            chunks : Seq(Seq(Symbols))] :
        /\ m.sends = "length" => Len(FlattenSeq(m.chunks)) \in 0 .. 4
        /\ \A i \in DOMAIN m.chunks : Len(m.chunks[i]) \in 1 .. 3}

Variables ==
    LET Plain == Symbols \ {"%26", "%3D"}
    IN  [proto : {"url"}, items : Seq([name : Seq(Plain) \ {<< >>}, value : Seq(Plain)])]

Multiparts ==
    {m \in [proto : {"mime"}, by : {"browser", "library"}, ends : BOOLEAN,
            items : Seq([name : Seq(Symbols), value : Seq(Symbols)])] :
        /\ m.items # << >>
        /\ \A i \in DOMAIN m.items :
             LET v == m.items[i].value
             IN  \A k \in 1 .. Len(v) :
                    SubSeq(v \o PartDelimiter, k, k + Len(PartDelimiter) - 1) # PartDelimiter}

LineLists == [proto : {"line"}, items : Seq([value : Seq(Symbols \ {CR, LF})])]

ASSUME MessagesAssumption ==
    \A m \in Messages :
        /\ m.proto \in {"request", "response", "url", "mime", "line"}
        /\ Encode(m) \in Seq(Symbols)
        /\ m.proto = "request" => m \in Requests
        /\ m.proto = "response" => m \in Responses
        /\ m.proto = "url" => m \in Variables
        /\ m.proto = "mime" => m \in Multiparts
        /\ m.proto = "line" => m \in LineLists

-----------------------------------------------------------------------------
(* The subparsers *)

LineParser == NewSubParser("delimiter", <<CRLF>>, MaxLine)
NameParser == NewSubParser("delimiter", << <<"=">>, <<"&">> >>, MaxVar)
ValueParser == NewSubParser("delimiter", << <<"&">> >>, MaxVar)
LinesParser == NewSubParser("delimiter", << <<LF>>, <<CR>> >>, MaxVar)
FirstBoundary == NewSubParser("delimiter", <<FirstDelimiter>>, Len(Boundary) + MaxLine)
PartContent == NewSubParser("directDelimiter", <<PartDelimiter>>, MaxPost + Len(Boundary) + 4)
EndPBoundary == NewSubParser("delimiter", <<EndDelimiter, CRLF>>, EndpSize)

\* Content::setTransmitionMode, setContentLenSize, and the modes of Content::parse
ContentParser(mode, max) ==
    CASE mode = "chunkSize" -> NewSubParser("delimiter", <<CRLF>>, MaxLine)
      [] mode \in {"chunkData", "chunkCRLF"} -> NewSubParser("size", << >>, max)
      [] mode \in {"length", "close"} -> NewSubParser("direct", << >>, max)

FirstParser(m) ==
    CASE m.proto = "request" -> <<"requestLine", LineParser>>
      [] m.proto = "response" -> <<"status", LineParser>>
      [] m.proto = "url" -> <<"urlVar", NameParser>>
      [] m.proto = "mime" -> <<"firstBoundary", FirstBoundary>>
      [] m.proto = "line" -> <<"line", LinesParser>>

TypeOK ==
    /\ msg \in Messages
    /\ IsSuffix(pending \o wire, Encode(msg))
    /\ ttl \in 0 .. MaxTTL + 1
    /\ cur \in {"requestLine", "status", "headers", "content", "urlVar", "firstBoundary",
                "partHeaders", "partContent", "endpoint", "line", "none"}
    /\ proc \in {"", "chunkSize", "chunkData", "chunkCRLF", "length", "close", "name", "value"}
    /\ answered \in {"none", "app", "505", "400", "413"}
    /\ result \in {"reading", "succeed", "failed", "readError"}
    /\ failed \in {"", "noRoom", "badData", "upstream", "refused", "ttl", "afterEnd"}
    /\ torn \in BOOLEAN
    /\ Len(got.options) <= MaxOptions
    /\ (msg.proto = "mime" /\ MaxParts > 0) => Len(got.items) <= MaxParts
    /\ size(sub.buf) <= sub.max

Init ==
    /\ msg \in Messages
    /\ wire = Encode(msg)
    /\ pending = << >>
    /\ ttl = 0
    /\ cur = FirstParser(msg)[1]
    /\ sub = FirstParser(msg)[2]
    /\ proc = IF msg.proto = "url" THEN "name" ELSE ""
    /\ got = [line |-> << >>, options |-> << >>, content |-> << >>, name |-> << >>, items |-> << >>]
    /\ answered = "none"
    /\ result = "reading"
    /\ failed = ""
    /\ log = << >>
    /\ torn = FALSE

-----------------------------------------------------------------------------
(* Parser::parseData *)

OffsetsRight(c) == \A i \in DOMAIN c : c[i].offset = size(SubSeq(c, 1, i - 1))

\* The end of a form is written into its parser once, after its last byte.
AtEOF == msg.proto \in Forms /\ wire = << >> /\ pending = << >>

\* What a call of parseData may come to.
Outcomes(parser) ==
    IF /\ result = "reading" /\ cur = parser /\ cur # "none"
       /\ ttl <= MaxTTL /\ (pending # << >> \/ AtEOF)
    THEN writeIntoParser(sub, pending) ELSE {}

Parsed(parser) == {r \in Outcomes(parser) : r.parses}

Log(r) ==
    /\ log' = log \o r.piece \o (IF r.parses THEN r.sub.found ELSE << >>)
    /\ torn' = (torn \/ ~ OffsetsRight(r.sub.buf))
    /\ UNCHANGED <<msg, wire>>

\* The call returns what it has taken; the rest is for the next one.
Goes(r) ==
    /\ pending' = After(pending, r.taken)
    /\ ttl' = IF pending' = << >> THEN 0 ELSE ttl + 1
    /\ result' = IF AtEOF THEN "succeed" ELSE result
    /\ UNCHANGED failed

\* The call returns nullopt and the rest of the write is lost.  Socket_Stream::streamTo
\* ends with it; Content::parse ignores it and goes on feeding the form.
Fails(why) ==
    /\ failed' = why
    /\ pending' = << >>
    /\ ttl' = 0
    /\ result' = IF msg.proto \notin Forms THEN "failed" ELSE IF AtEOF THEN "succeed" ELSE result

\* The subparser has no piece yet.
Buffer ==
    \E r \in Outcomes(cur) :
        /\ r.ok /\ ~ r.parses
        /\ sub' = r.sub
        /\ Log(r)
        /\ Goes(r)
        /\ UNCHANGED <<cur, proc, got, answered>>

\* appendToUnparsedBuffer fails.
NoRoomLeft ==
    \E r \in Outcomes(cur) :
        /\ ~ r.ok
        /\ sub' = r.sub
        /\ Log(r)
        /\ Fails("noRoom")
        /\ UNCHANGED <<cur, proc, got, answered>>

\* Too many calls for one write.
TTLReached ==
    /\ result = "reading" /\ cur # "none" /\ ttl > MaxTTL
    /\ Fails("ttl")
    /\ UNCHANGED <<msg, wire, cur, sub, proc, got, answered, log, torn>>

\* With no subparser left, parseData calls itself until it runs out of TTL.
AfterEnd ==
    /\ result = "reading" /\ cur = "none" /\ pending # << >>
    /\ Fails("afterEnd")
    /\ UNCHANGED <<msg, wire, cur, sub, proc, got, answered, log, torn>>

-----------------------------------------------------------------------------
(* HTTPv1_Server *)

\* HTTPv1_Server::answer: the callback's answer, or the error's; the client may be
\* gone when it is streamed.
Answer(r, status) ==
    /\ answered' = status
    /\ cur' = "none"
    /\ Goes(r) \/ Fails("upstream")

\* RequestLine::parse, changeToNextParserFromClientRequestLine
ParseRequestLine ==
    \E r \in Parsed("requestLine") :
        /\ sub' = LineParser
        /\ Log(r)
        /\ \/ /\ r.piece \notin {<<q>> : q \in RequestLines}
              /\ Fails("badData")
              /\ UNCHANGED <<cur, answered>>
           \/ /\ r.piece = <<"q20">>
              /\ Answer(r, "505")
           \/ /\ r.piece \in {<<"q10">>, <<"q11">>}
              /\ cur' \in {"headers", "none"}        \* procHTTPClientURI
              /\ Goes(r)
              /\ UNCHANGED answered
        /\ got' = [got EXCEPT !.line = r.piece]
        /\ UNCHANGED proc

\* parseSubValues, on the option before the line: its value is that line.
Folded(option, fold) ==
    CASE option \in Lengths -> IF fold = "f1" THEN "L1" ELSE "L0"
      [] option = "Chunked" -> "h"
      [] OTHER -> option

\* MIME_Sub_Header::parseOptionValue and add.  The last option is m_lastOpt; a line without
\* ": ", or beyond m_maxOptions, is dropped, and what continues it goes to that option.
parseOptionValue(options, line) ==
    IF Len(line) = 1 /\ line[1] \in Folds /\ options # << >>
    THEN [options EXCEPT ![Len(options)] = Folded(@, line[1])]
    ELSE IF Len(line) = 1 /\ line[1] \in Options /\ Len(options) < MaxOptions
         THEN Append(options, line[1]) ELSE options

\* MIME_Sub_Header::parse, for the HTTP parsers.
AddOption(r) ==
    /\ r.piece # << >>
    /\ got' = [got EXCEPT !.options = parseOptionValue(@, r.piece)]
    /\ sub' = r.sub
    /\ Goes(r)
    /\ UNCHANGED <<cur, proc, answered>>

HasHost(options) == "Host" \in ToSet(options)

\* getOptionAsUINT64 of Content-Length: 0 when there is none.
ContentLength(options) ==
    LET k == SelectInSeq(options, LAMBDA o : o \in Lengths)
    IN  IF k = 0 THEN 0 ELSE LengthOf[options[k]]

\* changeToNextParserFromClientHeaders
ParseClientHeaders ==
    /\ msg.proto = "request"
    /\ \E r \in Parsed("headers") :
        /\ Log(r)
        /\ LET length == ContentLength(got.options)
               bad == got.line = <<"q11">> /\ ~ HasHost(got.options)
           IN  \/ AddOption(r)
               \/ /\ r.piece = << >>
                  /\ \/ /\ bad
                        /\ Answer(r, "400")
                        /\ UNCHANGED <<sub, proc>>
                     \/ /\ ~ bad /\ length > MaxPost
                        /\ Answer(r, "413")
                        /\ UNCHANGED <<sub, proc>>
                     \/ /\ ~ bad /\ length <= MaxPost         \* procHTTPClientHeaders: no
                        /\ cur' = "none"
                        /\ Goes(r)
                        /\ UNCHANGED <<sub, proc, answered>>
                     \/ /\ ~ bad /\ length = 0
                        /\ Answer(r, "app")
                        /\ UNCHANGED <<sub, proc>>
                     \/ /\ ~ bad /\ length \in 1 .. MaxPost
                        /\ cur' = "content"
                        /\ proc' = "length"
                        /\ sub' = ContentParser("length", length)
                        /\ Goes(r)
                        /\ UNCHANGED answered
                  /\ UNCHANGED got

-----------------------------------------------------------------------------
(* HTTPv1_Client *)

\* Status::parse
ParseStatus ==
    \E r \in Parsed("status") :
        /\ sub' = LineParser
        /\ Log(r)
        /\ \/ r.piece = <<"status">> /\ cur' = "headers" /\ Goes(r)
           \/ r.piece # <<"status">> /\ Fails("badData") /\ UNCHANGED cur
        /\ UNCHANGED <<proc, got, answered>>

\* changeToNextParser and parseHeaders2TransmitionMode
ParseServerHeaders ==
    /\ msg.proto = "response"
    /\ \E r \in Parsed("headers") :
        /\ Log(r)
        /\ LET options == ToSet(got.options)
               length == ContentLength(got.options)
               mode == IF options \cap Lengths # {} THEN "length"
                       ELSE IF "Chunked" \in options THEN "chunkSize" ELSE "close"
           IN  \/ AddOption(r)
               \/ /\ r.piece = << >>
                  /\ proc' = mode
                  /\ sub' = ContentParser(mode, IF mode = "length" THEN length ELSE MaxPost)
                  /\ cur' = IF mode = "length" /\ length \notin 1 .. MaxPost
                            THEN "none" ELSE "content"
                  /\ Goes(r)
                  /\ UNCHANGED <<got, answered>>

-----------------------------------------------------------------------------
(* Content::parse, for both *)

\* After the content the client is done.
ResponseEnds(r) ==
    /\ msg.proto = "response"
    /\ cur' = "none"
    /\ sub' = r.sub
    /\ Goes(r)
    /\ UNCHANGED <<proc, answered>>

\* changeToNextParserFromClientContentData
RequestEnds(r) ==
    /\ msg.proto = "request"
    /\ Answer(r, "app")
    /\ sub' = r.sub
    /\ UNCHANGED proc

ContentGoesOn(r, mode, parser) ==
    /\ proc' = mode
    /\ sub' = parser
    /\ Goes(r)
    /\ UNCHANGED <<cur, answered>>

AppendContent(r) == got' = [got EXCEPT !.content = @ \o r.piece]

ParseChunkSize_OffByOne ==
    /\ proc = "chunkSize"
    /\ \E r \in Parsed("content") :
        /\ Log(r)
        /\ \/ /\ r.piece \notin {<<d>> : d \in {x \in Sizes : SizeOf(x) <= MaxChunk}}
              /\ sub' = r.sub
              /\ Fails("badData")
              /\ UNCHANGED <<cur, proc, answered>>
           \/ r.piece \in {<<"0">>, <<"1">>} /\ ResponseEnds(r)
           \/ \E d \in Sizes :
                /\ r.piece = <<d>> /\ SizeOf(d) \in 2 .. MaxChunk
                /\ ContentGoesOn(r, "chunkData", ContentParser("chunkData", SizeOf(d)))
        /\ UNCHANGED got

ParseChunkSize ==
    /\ proc = "chunkSize"
    /\ \E r \in Parsed("content") :
        /\ Log(r)
        /\ \/ /\ r.piece \notin {<<d>> : d \in {x \in Sizes : SizeOf(x) <= MaxChunk}}
              /\ sub' = r.sub
              /\ Fails("badData")
              /\ UNCHANGED <<cur, proc, answered>>
           \/ r.piece = <<"0">> /\ ResponseEnds(r)
           \/ \E d \in Sizes :
                /\ r.piece = <<d>> /\ SizeOf(d) \in 1 .. MaxChunk
                /\ ContentGoesOn(r, "chunkData", ContentParser("chunkData", SizeOf(d)))
        /\ UNCHANGED got

ParseChunkData ==
    /\ proc = "chunkData"
    /\ \E r \in Parsed("content") :
        /\ Log(r)
        /\ AppendContent(r)
        /\ ContentGoesOn(r, "chunkCRLF", ContentParser("chunkCRLF", 2))

\* Any two bytes will do.
ParseChunkCRLF ==
    /\ proc = "chunkCRLF"
    /\ \E r \in Parsed("content") :
        /\ Log(r)
        /\ ContentGoesOn(r, "chunkSize", ContentParser("chunkSize", MaxLine))
        /\ UNCHANGED got

ParseContentLength ==
    /\ proc = "length"
    /\ \E r \in Parsed("content") :
        /\ Log(r)
        /\ AppendContent(r)
        /\ \/ r.left > 0 /\ ContentGoesOn(r, proc, r.sub)
           \/ r.left = 0 /\ (RequestEnds(r) \/ ResponseEnds(r))

\* The end of the connection is not written into the parser.
ParseConnectionClose ==
    /\ proc = "close"
    /\ \E r \in Parsed("content") :
        /\ Log(r)
        /\ AppendContent(r)
        /\ ContentGoesOn(r, proc, r.sub)

-----------------------------------------------------------------------------
(* URLVars *)

\* URLVars::addVar.  The variables stand in the order of their insertion; what m_vars shows
\* of them, by name and those of a name in that order, follows from it.
addVar(name, value) ==
    IF name = << >> THEN got.items ELSE Append(got.items, [name |-> Upper(name), value |-> value])

\* URLVarContent::parse and URLVars::changeToNextParser: an empty piece is skipped, its
\* delimiter with it.
ParseURLVar ==
    \E r \in Parsed("urlVar") :
        /\ Log(r)
        /\ Goes(r)
        /\ \/ /\ r.piece = << >>
              /\ sub' = r.sub
              /\ UNCHANGED <<proc, got>>
           \/ /\ r.piece # << >> /\ proc = "name"
              /\ r.sub.found = <<"&">> \/ r.sub.ended
              /\ got' = [got EXCEPT !.items = addVar(URLDecode(r.piece), << >>)]
              /\ sub' = r.sub
              /\ UNCHANGED proc
           \/ /\ r.piece # << >> /\ proc = "name"
              /\ r.sub.found # <<"&">> /\ ~ r.sub.ended
              /\ got' = [got EXCEPT !.name = URLDecode(r.piece)]
              /\ proc' = "value"
              /\ sub' = ValueParser
           \/ /\ r.piece # << >> /\ proc = "value"
              /\ got' = [got EXCEPT !.items = addVar(got.name, URLDecode(r.piece))]
              /\ proc' = "name"
              /\ sub' = NameParser
        /\ UNCHANGED <<cur, answered>>

-----------------------------------------------------------------------------
(* MIME_Message::changeToNextParser and its subparsers *)

MoveTo(parser, subparser) ==
    /\ cur' = parser
    /\ sub' = subparser
    /\ UNCHANGED <<proc, answered>>

ParseFirstBoundary ==
    \E r \in Parsed("firstBoundary") :
        /\ MoveTo("partHeaders", LineParser)
        /\ Log(r)
        /\ Goes(r)
        /\ UNCHANGED got

\* MIME_Sub_Header::parse again; got.name and got.content are m_currentPart.
ParsePartHeaders ==
    \E r \in Parsed("partHeaders") :
        /\ Log(r)
        /\ Goes(r)
        /\ \/ /\ r.piece # << >>
              /\ got' = [got EXCEPT !.name = parseOptionValue(@, r.piece)]
              /\ MoveTo(cur, r.sub)
           \/ /\ r.piece = << >>
              /\ MoveTo("partContent", PartContent)
              /\ UNCHANGED got

\* MIME_Sub_Content::parse; addMultiPartMessage and renewCurrentPart at its end.
ParsePartContent ==
    \E r \in Parsed("partContent") :
        LET content == got.content \o r.piece
        IN  /\ Log(r)
            /\ Goes(r)
            /\ \/ /\ r.sub.found = << >>
                  /\ got' = [got EXCEPT !.content = content]
                  /\ MoveTo(cur, r.sub)
               \/ /\ r.sub.found # << >>
                  /\ got' = [got EXCEPT !.items = Append(@, [name |-> got.name, value |-> content]),
                                        !.name = << >>, !.content = << >>]
                  /\ IF Len(got'.items) = MaxParts THEN MoveTo("none", r.sub)
                     ELSE MoveTo("endpoint", EndPBoundary)

\* MIME_Sub_EndPBoundary::parse
ParseEndPoint ==
    \E r \in Parsed("endpoint") :
        /\ Log(r)
        /\ \/ r.sub.found = EndDelimiter /\ MoveTo("none", r.sub) /\ Goes(r)
           \/ r.sub.found = CRLF /\ MoveTo("partHeaders", LineParser) /\ Goes(r)
           \/ r.sub.found = << >> /\ MoveTo(cur, r.sub) /\ Fails("badData")
        /\ UNCHANGED got

-----------------------------------------------------------------------------
(* LineRecv::changeToNextParser *)

ParseLine ==
    \E r \in Parsed("line") :
        /\ Log(r)
        /\ got' = [got EXCEPT !.items = Append(@, [value |-> r.piece])]
        /\ sub' = r.sub
        /\ \/ Goes(r) /\ UNCHANGED cur
           \/ cur' = "none" /\ Fails("refused")         \* processParsedLine: no
        /\ UNCHANGED <<proc, answered>>

-----------------------------------------------------------------------------
(* Socket_Stream::streamTo, and the end of a form *)

\* partialRead, or the next piece of the content, of any size.
Read ==
    /\ result = "reading" /\ pending = << >>
    /\ cur # "none" \/ msg.proto \in Forms
    /\ \E n \in 1 .. Len(wire) :
        /\ pending' = SubSeq(wire, 1, n)
        /\ wire' = After(wire, n)
    /\ ttl' = 0
    /\ UNCHANGED <<msg, cur, sub, proc, got, answered, result, failed, log, torn>>

\* writeStatus.finish, seen between two reads; a form whose parser is done gets its
\* end all the same.
Finish ==
    /\ result = "reading" /\ cur = "none" /\ pending = << >>
    /\ msg.proto \notin Forms \/ AtEOF
    /\ result' = "succeed"
    /\ UNCHANGED <<msg, wire, pending, ttl, cur, sub, proc, got, answered, failed, log, torn>>

\* The connection ends, at the end of the message or before, or breaks.
Disconnect ==
    /\ result = "reading" /\ pending = << >> /\ cur # "none" /\ msg.proto \notin Forms
    /\ result' \in {"succeed", "readError"}
    /\ UNCHANGED <<msg, wire, pending, ttl, cur, sub, proc, got, answered, failed, log, torn>>

Next ==
    \/ Read \/ Finish \/ Disconnect
    \/ Buffer \/ NoRoomLeft \/ TTLReached \/ AfterEnd
    \/ ParseRequestLine \/ ParseClientHeaders \/ ParseStatus \/ ParseServerHeaders
    \/ ParseChunkSize \/ ParseChunkData \/ ParseChunkCRLF
    \/ ParseContentLength \/ ParseConnectionClose
    \/ ParseURLVar \/ ParseLine
    \/ ParseFirstBoundary \/ ParsePartHeaders \/ ParsePartContent \/ ParseEndPoint

Spec == Init /\ [][Next]_vars

-----------------------------------------------------------------------------
(* Properties *)

\* The counting of what a subparser takes (bytesToDisplace, prevSize) loses and
\* repeats nothing: whatever the cuts of the stream, the bytes parsed, the bytes
\* buffered, the bytes of this write and the bytes not read yet are the message.
Conservation ==
    (cur # "none" /\ failed = "") => log \o Bytes(sub.buf) \o pending \o wire = Encode(msg)

\* parseData's question "what if writtenBytes == 0?": a call that leaves bytes for the
\* next one has taken at least one, so that its recursion ends before the TTL does.
NoIdleCall == [][(ttl' > ttl) => (Len(pending') < Len(pending))]_vars

\* The options that header lines make, read whole and one after the other.
KeptOptions(lines) ==
    LET K[n \in 0 .. Len(lines)] ==
            IF n = 0 THEN << >> ELSE parseOptionValue(K[n - 1], <<lines[n]>>)
    IN  K[Len(lines)]

Deserved(m) ==
    LET options == KeptOptions(m.options)
    IN  CASE m.line = "q20" -> "505"
          [] m.line = "q11" /\ ~ HasHost(options) -> "400"
          [] m.line # "q20" /\ (m.line = "q11" => HasHost(options)) ->
                IF ContentLength(options) > MaxPost THEN "413" ELSE "app"

\* HTTPv1_Server gives the application the request that was sent, however it was cut
\* into reads: it answers what the request deserves, and to the application's answer
\* belong all the options and exactly the declared bytes of the content.
RequestUnderstood ==
    answered # "none" =>
        /\ answered = Deserved(msg)
        /\ answered = "app" =>
            /\ got.options = KeptOptions(msg.options)
            /\ got.content = SubSeq(msg.content, 1, ContentLength(KeptOptions(msg.options)))

\* HTTPv1_Client never shows content that was not sent, and when it ends by itself
\* without a failure it has all of it, unless that is more than it accepts.
ResponseUnderstood ==
    msg.proto = "response" =>
        LET content == FlattenSeq(msg.chunks)
        IN  /\ IsPrefix(got.content, content)
            /\ (cur = "none" /\ Len(content) <= MaxPost) => got.content = content

\* URLVars looks for "=" before "&": a variable without a value swallows the name of
\* one with a value that arrives in the same write.
Ambiguous(items) ==
    \E i, j \in DOMAIN items : i < j /\ items[i].value = << >> /\ items[j].value # << >>

\* The variables with their names in upper case.
Stored(items) == [i \in DOMAIN items |-> [items[i] EXCEPT !.name = Upper(@)]]

\* LineRecv gives the lines that were sent, in order.  So does URLVars give the variables,
\* without the ambiguous ones, and all of them when the form has ended, as long as no write
\* of it has failed.
ItemsUnderstood ==
    /\ msg.proto = "line" => IsPrefix(got.items, msg.items)
    /\ (msg.proto = "url" /\ ~ Ambiguous(msg.items) /\ failed = "") =>
        /\ IsPrefix(got.items, Stored(msg.items))
        /\ result = "succeed" => got.items = Stored(msg.items)

\* MIME_Sub_EndPBoundary looks for the end of the form first, in all that it buffers after
\* a boundary: parts that have it there are not read.
SeemsTheEnd(items, ends) ==
    LET text == CRLF \o EncodeParts(items, ends)
    IN  \E n \in 0 .. (Len(text) - Len(EndDelimiter)) :
            /\ n + Len(EndDelimiter) <= EndpSize
            /\ SubSeq(text, n + 1, n + Len(EndDelimiter)) = EndDelimiter

PlainForm(m) ==
    /\ m.by = "browser"
    /\ \A i \in 1 .. (Len(m.items) - 1) : ~ SeemsTheEnd(After(m.items, i), m.ends)

\* The parts with the options that their header lines make.
PartsOf(items) == [i \in DOMAIN items |-> [items[i] EXCEPT !.name = KeptOptions(@)]]

\* MIME_Message gives the parts that a browser has sent, in order, each with the options that
\* its header lines make, and all of them when the form has ended, as long as no write of it
\* has failed and no buffer had wrong offsets.
PartsUnderstood ==
    (msg.proto = "mime" /\ failed = "" /\ ~ torn /\ PlainForm(msg)) =>
        /\ IsPrefix(got.items, PartsOf(msg.items))
        /\ result = "succeed" => got.items = PartsOf(msg.items)

\* The same of the parts, with no exception for the offsets: what may be the beginning
\* of the boundary is kept in the buffer, so that it never ends up in a part.
PartsWhole == (msg.proto = "mime" /\ failed = "") => IsPrefix(got.items, PartsOf(msg.items))

Separators(m) == Len(SelectSeq(Encode(m), LAMBDA x : x \in {CR, LF, "&", "="}))

WithinLimits(m) ==
    /\ Separators(m) <= MaxTTL
    /\ m.proto = "request" => m.line \in RequestLines
    /\ m.proto = "response" =>
        /\ m.status = "status"
        /\ Len(FlattenSeq(m.chunks)) <= MaxPost
        /\ \A i \in DOMAIN m.chunks : Len(m.chunks[i]) <= MaxChunk
    /\ m.proto \in {"url", "line"} => \A i \in DOMAIN m.items : Len(m.items[i].value) < MaxVar
    /\ m.proto = "url" => ~ Ambiguous(m.items) /\ \A i \in DOMAIN m.items : Len(m.items[i].name) < MaxVar
    /\ m.proto = "mime" => m.by = "browser" /\ m.ends /\ Len(m.items) < MaxParts

\* A message within the limits is not refused because of how it was cut: its parsing
\* fails only when the peer is gone, the application or an error answer stopped it
\* early, or bytes follow the end of the message (the last CRLF of a chunked response
\* are such).
NoFalseFailure ==
    (WithinLimits(msg) /\ ~ torn) =>
        /\ failed \in {"", "upstream", "refused", "afterEnd"}
        /\ failed = "afterEnd" =>
            \/ msg.proto = "response" /\ msg.sends = "chunks"
            \/ msg.proto = "request"
                /\ answered = "app" => Len(msg.content) > ContentLength(KeptOptions(msg.options))
=============================================================================
