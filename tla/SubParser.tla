----------------------------- MODULE SubParser -----------------------------
(***************************************************************************)
(* Memory::Streams::SubParser: how writeIntoParser cuts pieces for parse() *)
(* out of the data written into a subparser.                               *)
(*                                                                         *)
(* A subparser is a record: its mode, its delimiters (one, or the list of  *)
(* a multi-delimiter), the size that m_unparsedBuffer may have, the buffer *)
(* itself, the last delimiter found and m_streamEnded.  Writing data into  *)
(* it gives a set of outcomes, one but for the reads of uninitialised      *)
(* memory.  An outcome says how many bytes were taken, whether parse() is  *)
(* called and for which bytes, the room left in the buffer at that time,   *)
(* and what the subparser is afterwards, before what parse() does to it.   *)
(* Nobody writes the end of a stream into a parser by size.                *)
(***************************************************************************)
EXTENDS B_Chunks

Min2(a, b) == IF a < b THEN a ELSE b

NewSubParser(mode, delims, max) ==
    [mode |-> mode, delims |-> delims, max |-> max, buf |-> Empty, found |-> << >>, ended |-> FALSE]

getSizeLeft_OneLess(sp) == IF size(sp.buf) >= sp.max THEN 0 ELSE sp.max - size(sp.buf) - 1

getSizeLeft(sp) == IF size(sp.buf) > sp.max THEN 0 ELSE sp.max - size(sp.buf)

NoRoom_Never(sp, data) == FALSE

Fits_All(sp, data) == Len(data)

\* appendToUnparsedBuffer: fails when there is no room for a byte, and takes no
\* more than there is room for.
NoRoom(sp, data) == getSizeLeft(sp) = 0 /\ data # << >>

Fits(sp, data) == Min2(Len(data), getSizeLeft(sp))

appendToUnparsedBuffer(sp, data) ==
    IF Fits(sp, data) = 0 THEN sp
    ELSE [sp EXCEPT !.buf = append2(@, SubSeq(data, 1, Fits(sp, data)))]

\* Outcomes
Failed(sp) ==
    [ok |-> FALSE, taken |-> 0, parses |-> FALSE, piece |-> << >>, left |-> 0, sub |-> sp]

Buffered(taken, sp) == [Failed(sp) EXCEPT !.ok = TRUE, !.taken = taken]

Parses(taken, piece, full, sp) ==
    [Buffered(taken, sp) EXCEPT !.parses = TRUE, !.piece = piece, !.left = getSizeLeft(full)]

Cleared(sp) == [sp EXCEPT !.buf = Empty]

Taken_WholeBuffer(pos, needle, prevSize) == pos + Len(needle)

\* The bytes of this write that a delimiter at pos uses up: the part that had been
\* buffered before was taken by earlier writes.
Taken(pos, needle, prevSize) == pos + Len(needle) - prevSize

\* parseByDelimiter and parseByMultiDelimiter.
parseByDelimiter(sp, data) ==
    LET full == appendToUnparsedBuffer(sp, data)
        f == findAny(full.buf, sp.delims)
        found == [full EXCEPT !.found = f.needle]
    IN  IF f.pos # NotFound
        THEN Parses(Taken(f.pos, f.needle, size(sp.buf)), SubSeq(Bytes(full.buf), 1, f.pos),
                    found, Cleared(found))
        ELSE IF sp.ended
        THEN Parses(Fits(sp, data), Bytes(full.buf), found, Cleared(found))
        ELSE Buffered(Fits(sp, data), found)

\* parseBySize
parseBySize(sp, data) ==
    LET full == appendToUnparsedBuffer(sp, data)
    IN  IF getSizeLeft(full) = 0
        THEN Parses(Fits(sp, data), Bytes(full.buf), full, Cleared(full))
        ELSE Buffered(Fits(sp, data), full)

parseDirect_NoShrink(sp, data) ==
    LET full == appendToUnparsedBuffer(sp, data)
    IN  Parses(Fits(sp, data), Bytes(full.buf), full, Cleared(full))

\* parseDirect: everything is parsed, and the room shrinks by it.
parseDirect(sp, data) ==
    LET full == appendToUnparsedBuffer(sp, data)
    IN  Parses(Fits(sp, data), Bytes(full.buf), full,
               [Cleared(full) EXCEPT !.max = @ - size(full.buf)])

\* What memcmp may say of the first Len(copied) of v bytes copied out of the
\* buffer, the others never written.
MayMatch(copied, v, delim) == copied = SubSeq(delim, 1, Len(copied)) /\ Len(copied) <= v

getLastBytesInCommon_OneShort(c, delim) ==
    LET max == Min2(size(c), Len(delim) - 2)
        Copied(v) == copyToBuffer2(c, v, size(c) - v)
    IN  {v \in 0 .. max :
            /\ v = 0 \/ MayMatch(Copied(v), v, delim)
            /\ \A w \in v + 1 .. max : ~ (Len(Copied(w)) = w /\ MayMatch(Copied(w), w, delim))}

\* getLastBytesInCommon: the longest end of the buffer that begins the delimiter,
\* as read through the offsets of the chunks.  Where the copy comes out short, the
\* comparison may go either way.
getLastBytesInCommon(c, delim) ==
    LET max == Min2(size(c), Len(delim) - 1)
        Copied(v) == copyToBuffer2(c, v, size(c) - v)
    IN  {v \in 0 .. max :
            /\ v = 0 \/ MayMatch(Copied(v), v, delim)
            /\ \A w \in v + 1 .. max : ~ (Len(Copied(w)) = w /\ MayMatch(Copied(w), w, delim))}

\* parseDirectDelimiter: what cannot be part of the delimiter is parsed at once.
parseDirectDelimiter(sp, data) ==
    LET full == [appendToUnparsedBuffer(sp, data) EXCEPT !.found = << >>]
        delim == sp.delims[1]
        pos == find(full.buf, delim)
        found == [full EXCEPT !.found = delim]
        Keeping(v) ==
            [full EXCEPT !.buf = IF v = 0 THEN Empty ELSE displace2(@, size(full.buf) - v)]
    IN  IF pos # NotFound
        THEN {Parses(Taken(pos, delim, size(sp.buf)), SubSeq(Bytes(full.buf), 1, pos),
                     found, Cleared(found))}
        ELSE {Parses(Fits(sp, data), SubSeq(Bytes(full.buf), 1, size(full.buf) - v), full, Keeping(v)) :
                v \in getLastBytesInCommon(full.buf, delim)}

\* writeIntoParser: no data means that the stream has ended.
writeIntoParser(sp0, data) ==
    LET sp == [sp0 EXCEPT !.ended = @ \/ data = << >>]
    IN  IF NoRoom(sp, data) THEN {Failed(sp)}
        ELSE CASE sp.mode = "delimiter" -> {parseByDelimiter(sp, data)}
               [] sp.mode = "size" -> {parseBySize(sp, data)}
               [] sp.mode = "direct" -> {parseDirect(sp, data)}
               [] sp.mode = "directDelimiter" -> parseDirectDelimiter(sp, data)
=============================================================================
