------------------------------ MODULE B_Chunks ------------------------------
(***************************************************************************)
(* Memory::Containers::B_Chunks as the parsers use it: a container is the  *)
(* sequence of its chunks, each with its data and the offset it believes   *)
(* to be at.  Searching walks over the chunks' sizes, reading at a         *)
(* position goes by their offsets.  What is kept on disk, prepend and      *)
(* truncate are not used by the parsers; an append is shorter than         *)
(* m_maxChunkSize and there are fewer chunks than m_maxChunks.             *)
(***************************************************************************)
EXTENDS Integers, Sequences, SequencesExt

Empty == << >>

After(s, n) == SubSeq(s, n + 1, Len(s))

\* The bytes of a container.
Bytes(c) == FlattenSeq([i \in DOMAIN c |-> c[i].data])

size(c) == Len(Bytes(c))

nextOffset(chunk) == chunk.offset + Len(chunk.data)

\* A new chunk for every append of at least a byte.
append2(c, data) ==
    Append(c, [data |-> data, offset |-> IF c = Empty THEN 0 ELSE nextOffset(Last(c))])

\* The loop counts the chunks but its pointer stays at the first one.
recalcChunkOffsets(c) ==
    IF c = Empty THEN c ELSE [c EXCEPT ![1].offset = (Len(c) - 1) * Len(c[1].data)]

\* displace2: drop whole chunks, cut the one where the last byte to drop is.
displace2(c, n) ==
    LET Before(i) == Len(Bytes(SubSeq(c, 1, i)))
        kept == SelectInSeq([i \in DOMAIN c |-> Before(i)], LAMBDA b : b > n)
    IN  IF kept = 0 THEN Empty
        ELSE recalcChunkOffsets(
               [SubSeq(c, kept, Len(c)) EXCEPT ![1].data = After(@, n - Before(kept - 1))])

\* I_Chunk_GetPosForOffset: the binary search for the chunk that holds an offset, from a
\* position between the lowest and the highest one; 0 when there is none.  Positions are
\* counted from 1.
Middle(lo, hi) == IF lo = hi THEN lo ELSE (lo + ((hi + 1 - lo) \div 2)) - ((hi - lo) % 2)

Ranges(n) == {r \in (1 .. n) \X (1 .. n) \X (1 .. n) : r[1] <= r[2] /\ r[2] <= r[3]}

GetPosForOffset(c, offset) ==
    LET Search[r \in Ranges(Len(c))] ==
            LET lo == r[1] pos == r[2] hi == r[3] IN
            IF c[pos].offset <= offset /\ offset < nextOffset(c[pos]) THEN pos
            ELSE IF offset < c[pos].offset
            THEN IF pos = lo THEN 0 ELSE Search[<<lo, Middle(lo, pos - 1), pos - 1>>]
            ELSE IF pos = hi THEN 0 ELSE Search[<<pos + 1, Middle(pos + 1, hi), hi>>]
    IN  IF c = Empty THEN 0
        ELSE Search[<<1, IF Len(c) = 1 THEN 1 ELSE Len(c) \div 2, Len(c)>>]

\* copyToBuffer2: as many of the n bytes at an offset as are really copied.
copyToBuffer2(c, n, offset) ==
    LET pos == GetPosForOffset(c, offset)
        from == After(Bytes(SubSeq(c, pos, Len(c))), offset - c[pos].offset)
    IN  IF pos = 0 THEN << >> ELSE SubSeq(from, 1, IF n < Len(from) THEN n ELSE Len(from))

\* find of one needle: the bytes before its first occurrence, or NotFound.
NotFound == -1

find(c, needle) ==
    LET s == Bytes(c)
        at == {i \in 0 .. (Len(s) - Len(needle)) : SubSeq(s, i + 1, i + Len(needle)) = needle}
    IN  IF at = {} THEN NotFound ELSE CHOOSE i \in at : \A j \in at : i <= j

\* find of a list of needles: the first of the LIST that occurs anywhere.
findAny(c, needles) ==
    LET k == SelectInSeq(needles, LAMBDA d : find(c, d) # NotFound)
    IN  IF k = 0 THEN [pos |-> NotFound, needle |-> << >>]
        ELSE [pos |-> find(c, needles[k]), needle |-> needles[k]]
=============================================================================
