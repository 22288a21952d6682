-------------------------- MODULE SubParser_proofs --------------------------
(***************************************************************************)
(* Proofs about B_Chunks and SubParser, for every container, every size of *)
(* the buffer, every list of delimiters and every write.  Of a container   *)
(* its bytes matter, whatever the offsets of its chunks are: append2 adds  *)
(* at their end, displace2 drops from their beginning, and find, which     *)
(* walks over the sizes of the chunks, sees just them.  From it follows    *)
(* what writeIntoParser takes, parses and keeps: it is what had been kept  *)
(* and what was written, in the same order; and what a piece is: all that  *)
(* precedes the first delimiter, or as many bytes as its size.             *)
(***************************************************************************)
EXTENDS SubParser, SequenceTheorems, WellFoundedInduction, TLAPS

\* Every set of naturals that is not empty has a least element.
LEMMA LeastNat ==
    ASSUME NEW T, T \subseteq Nat, T # {}
    PROVE  \E x \in T : \A y \in T : x <= y
<1>1. IsWellFoundedOn(OpToRel(<, Nat), Nat)
  BY NatLessThanWellFounded
<1>2. PICK x \in T : \A y \in T : ~(<<y, x>> \in OpToRel(<, Nat))
  BY <1>1, WFMin
<1>3. \A y \in T : ~(y < x)
  BY <1>2 DEF OpToRel
<1> QED
  BY <1>3

\* The least element that SelectInSeq and find choose is one of the set.
LEMMA MinOfNats ==
    ASSUME NEW T, T \subseteq Nat, T # {}
    PROVE  Min(T) \in T /\ \A y \in T : Min(T) <= y
BY LeastNat DEF Min

-----------------------------------------------------------------------------
(* Flattening *)

\* g flattens the first n of the sequences ss.
Flattens(g, ss, n) == g = [i \in 1..n |-> IF i = 1 THEN ss[i] ELSE g[i - 1] \o ss[i]]

\* ... its value, element by element.
LEMMA FlattensAt ==
    ASSUME NEW g, NEW ss, NEW n, Flattens(g, ss, n), NEW i \in 1..n
    PROVE  g[i] = IF i = 1 THEN ss[i] ELSE g[i - 1] \o ss[i]
<1> DEFINE h == [j \in 1..n |-> IF j = 1 THEN ss[j] ELSE g[j - 1] \o ss[j]]
<1>1. g = h
  BY DEF Flattens
<1>2. h[i] = IF i = 1 THEN ss[i] ELSE g[i - 1] \o ss[i]
  OBVIOUS
<1> QED
  BY <1>1, <1>2

\* There is such a function ...
LEMMA FlattenExists ==
    ASSUME NEW ss, NEW n \in Nat
    PROVE  \E g : Flattens(g, ss, n)
<1> DEFINE T == {k \in Nat : ~\E g : Flattens(g, ss, k)}
<1> SUFFICES ASSUME T # {} PROVE FALSE
  OBVIOUS
<1>1. PICK k \in T : \A y \in T : k <= y
  BY LeastNat
<1>2. k # 0
  <2> DEFINE g == [i \in 1..0 |-> ss]
  <2>1. Flattens(g, ss, 0)
    BY DEF Flattens
  <2> QED
    BY <2>1
<1>3. k - 1 \in Nat /\ k - 1 \notin T
  BY <1>1, <1>2
<1>4. PICK g : Flattens(g, ss, k - 1)
  BY <1>3
<1> DEFINE h == [i \in 1..k |-> IF i = 1 THEN ss[i] ELSE g[i - 1] \o ss[i]]
<1>5. ASSUME NEW i \in 1..k, i # 1 PROVE h[i - 1] = g[i - 1]
  <2>1. i - 1 \in 1..(k - 1)
    BY <1>3, <1>5
  <2>2. g[i - 1] = IF i - 1 = 1 THEN ss[i - 1] ELSE g[(i - 1) - 1] \o ss[i - 1]
    BY <1>4, <2>1, FlattensAt
  <2> QED
    BY <1>3, <2>1, <2>2
<1>6. h = [i \in 1..k |-> IF i = 1 THEN ss[i] ELSE h[i - 1] \o ss[i]]
  BY <1>5
<1>7. Flattens(h, ss, k)
  BY <1>6 DEF Flattens
<1> QED
  BY <1>7

\* ... and it depends on those sequences only.
LEMMA FlattenUnique ==
    ASSUME NEW ss, NEW tt, NEW g, NEW h, NEW m \in Nat, NEW n \in Nat,
           Flattens(g, ss, m), Flattens(h, tt, n),
           NEW k \in 1..m, k <= n, \A i \in 1..k : ss[i] = tt[i]
    PROVE  g[k] = h[k]
<1> DEFINE T == {i \in 1..k : g[i] # h[i]}
<1> SUFFICES ASSUME T # {} PROVE FALSE
  OBVIOUS
<1>0. T \subseteq Nat
  OBVIOUS
<1>1. PICK i \in T : \A y \in T : i <= y
  BY <1>0, LeastNat
<1>2. /\ g[i] = IF i = 1 THEN ss[i] ELSE g[i - 1] \o ss[i]
      /\ h[i] = IF i = 1 THEN tt[i] ELSE h[i - 1] \o tt[i]
  <2>1. i \in 1..m /\ i \in 1..n
    BY <1>1
  <2> QED
    BY <2>1, FlattensAt
<1>3. CASE i = 1
  BY <1>1, <1>2, <1>3
<1>4. CASE i # 1
  <2>1. i - 1 \in 1..k /\ i - 1 \notin T
    BY <1>1, <1>4
  <2> QED
    BY <1>1, <1>2, <1>4, <2>1
<1> QED
  BY <1>3, <1>4

\* FlattenSeq is the last value of the function that flattens.
LEMMA FlattenIs ==
    ASSUME NEW S, NEW ss \in Seq(S), ss # << >>, NEW g, Flattens(g, ss, Len(ss))
    PROVE  FlattenSeq(ss) = g[Len(ss)]
<1> DEFINE f == CHOOSE f : Flattens(f, ss, Len(ss))
<1>1. Len(ss) \in Nat /\ Len(ss) # 0
  BY EmptySeq
<1>2. FlattenSeq(ss) = f[Len(ss)]
  BY <1>1 DEF FlattenSeq, Flattens
<1>3. Flattens(f, ss, Len(ss))
  OBVIOUS
<1> HIDE DEF f
<1> QED
  BY <1>1, <1>2, <1>3, FlattenUnique

\* Nothing flattens to nothing.
LEMMA FlattenEmpty == FlattenSeq(<< >>) = << >>
BY DEF FlattenSeq

\* One sequence more comes after the others.
LEMMA FlattenAppend ==
    ASSUME NEW S, NEW ss \in Seq(Seq(S)), NEW s \in Seq(S)
    PROVE  FlattenSeq(Append(ss, s)) = FlattenSeq(ss) \o s
<1> DEFINE tt == Append(ss, s)
           n == Len(ss)
<1>1. /\ n \in Nat /\ tt \in Seq(Seq(S)) /\ tt # << >> /\ Len(tt) = n + 1 /\ tt[n + 1] = s
      /\ \A i \in 1..n : tt[i] = ss[i]
  BY AppendProperties, LenProperties
<1>a. FlattenSeq(Append(ss, s)) = FlattenSeq(tt) /\ Len(ss) = n /\ n + 1 \in Nat
  BY <1>1
<1> HIDE DEF tt, n
<1>2. PICK h : Flattens(h, tt, n + 1)
  BY <1>a, FlattenExists
<1>3. FlattenSeq(tt) = h[n + 1]
  BY <1>1, <1>2, FlattenIs
<1>4. h[n + 1] = IF n + 1 = 1 THEN s ELSE h[n] \o s
  <2>1. n + 1 \in 1..(n + 1) /\ (n + 1) - 1 = n
    BY <1>1
  <2>2. h[n + 1] = IF n + 1 = 1 THEN tt[n + 1] ELSE h[(n + 1) - 1] \o tt[n + 1]
    BY <1>2, <2>1, FlattensAt
  <2> QED
    BY <1>1, <2>1, <2>2
<1>5. CASE n = 0
  <2>1. ss = << >>
    BY <1>a, <1>5, EmptySeq
  <2>2. << >> \o s = s
    BY ConcatEmptySeq
  <2> QED
    BY <1>a, <1>3, <1>4, <1>5, <2>1, <2>2, FlattenEmpty
<1>6. CASE n # 0
  <2>1. PICK g : Flattens(g, ss, n)
    BY <1>1, FlattenExists
  <2>2. FlattenSeq(ss) = g[n]
    BY <1>a, <1>6, <2>1, FlattenIs, EmptySeq
  <2>3. g[n] = h[n]
    <3>1. n \in 1..n /\ n <= n + 1 /\ \A i \in 1..n : ss[i] = tt[i]
      BY <1>1, <1>6
    <3> QED
      BY <1>1, <1>a, <1>2, <2>1, <3>1, FlattenUnique
  <2> QED
    BY <1>a, <1>1, <1>3, <1>4, <1>6, <2>2, <2>3
<1> QED
  BY <1>5, <1>6
\* A set of sequences with the empty one, and with every extension of its members
\* by one element, has all of them.
LEMMA AllSequences ==
    ASSUME NEW S, NEW Good, << >> \in Good,
           \A s \in Seq(S), e \in S : s \in Good => Append(s, e) \in Good
    PROVE  Seq(S) \subseteq Good
<1> DEFINE T == {n \in Nat : \E s \in Seq(S) : Len(s) = n /\ s \notin Good}
<1> SUFFICES ASSUME NEW s \in Seq(S), s \notin Good PROVE FALSE
  OBVIOUS
<1>1. Len(s) \in T
  BY LenProperties
<1>2. PICK n \in T : \A y \in T : n <= y
  BY <1>1, LeastNat
<1>3. PICK t \in Seq(S) : Len(t) = n /\ t \notin Good
  BY <1>2
<1>4. PICK u \in Seq(S), e \in S : t = Append(u, e)
  BY <1>3, SequenceEmptyOrAppend
<1>5. Len(u) \in Nat /\ n = Len(u) + 1
  BY <1>3, <1>4, AppendProperties, LenProperties
<1>6. Len(u) \notin T
  BY <1>2, <1>5
<1> QED
  BY <1>3, <1>4, <1>5, <1>6

\* Sequences over a set flatten to a sequence over that set.
LEMMA FlattenType ==
    ASSUME NEW S, NEW ss \in Seq(Seq(S))
    PROVE  FlattenSeq(ss) \in Seq(S)
<1> DEFINE Good == {tt \in Seq(Seq(S)) : FlattenSeq(tt) \in Seq(S)}
<1>1. << >> \in Good
  BY FlattenEmpty, EmptySeq
<1>2. ASSUME NEW tt \in Seq(Seq(S)), NEW s \in Seq(S), tt \in Good PROVE Append(tt, s) \in Good
  BY <1>2, FlattenAppend, AppendProperties, ConcatProperties
<1>3. Seq(Seq(S)) \subseteq Good
  <2> HIDE DEF Good
  <2> QED
    BY <1>1, <1>2, AllSequences
<1> QED
  BY <1>3

\* Flattening distributes over concatenation.
LEMMA FlattenConcat ==
    ASSUME NEW S, NEW ss \in Seq(Seq(S)), NEW uu \in Seq(Seq(S))
    PROVE  FlattenSeq(ss \o uu) = FlattenSeq(ss) \o FlattenSeq(uu)
<1> DEFINE Good == {tt \in Seq(Seq(S)) : FlattenSeq(ss \o tt) = FlattenSeq(ss) \o FlattenSeq(tt)}
<1>1. << >> \in Good
  <2>1. ss \o << >> = ss /\ FlattenSeq(ss) \o << >> = FlattenSeq(ss)
    BY FlattenType, ConcatEmptySeq
  <2> QED
    BY <2>1, FlattenEmpty, EmptySeq
<1>2. ASSUME NEW tt \in Seq(Seq(S)), NEW s \in Seq(S), tt \in Good PROVE Append(tt, s) \in Good
  <2>1. /\ ss \o tt \in Seq(Seq(S)) /\ Append(tt, s) \in Seq(Seq(S))
        /\ <<s>> \in Seq(Seq(S))
    BY ConcatProperties, AppendProperties
  <2>2. ss \o Append(tt, s) = Append(ss \o tt, s)
    BY <2>1, AppendIsConcat, ConcatAssociative
  <2>3. FlattenSeq(ss \o Append(tt, s)) = (FlattenSeq(ss) \o FlattenSeq(tt)) \o s
    BY <1>2, <2>1, <2>2, FlattenAppend
  <2>4. (FlattenSeq(ss) \o FlattenSeq(tt)) \o s = FlattenSeq(ss) \o FlattenSeq(Append(tt, s))
    <3>1. FlattenSeq(ss) \in Seq(S) /\ FlattenSeq(tt) \in Seq(S)
      BY FlattenType
    <3>2. FlattenSeq(Append(tt, s)) = FlattenSeq(tt) \o s
      BY FlattenAppend
    <3>3. PICK x \in Seq(S), y \in Seq(S) : x = FlattenSeq(ss) /\ y = FlattenSeq(tt)
      BY <3>1
    <3>4. (x \o y) \o s = x \o (y \o s)
      BY ConcatAssociative
    <3> QED
      BY <3>2, <3>3, <3>4, Zenon
  <2> QED
    BY <2>1, <2>3, <2>4
<1>3. Seq(Seq(S)) \subseteq Good
  <2> HIDE DEF Good
  <2> QED
    BY <1>1, <1>2, AllSequences
<1> QED
  BY <1>3

-----------------------------------------------------------------------------
(* The bytes of a container *)

Chunk(S) == [data : Seq(S), offset : Nat]

Data(c) == [i \in DOMAIN c |-> c[i].data]

\* The data of the chunks is a sequence of sequences.
LEMMA DataType ==
    ASSUME NEW S, NEW c \in Seq(Chunk(S))
    PROVE  /\ Data(c) \in Seq(Seq(S)) /\ Len(Data(c)) = Len(c) /\ DOMAIN c = 1..Len(c)
           /\ \A i \in 1..Len(c) : Data(c)[i] = c[i].data /\ c[i].data \in Seq(S)
<1>1. Len(c) \in Nat /\ DOMAIN c = 1..Len(c) /\ \A i \in 1..Len(c) : c[i] \in Chunk(S)
  BY LenProperties, ElementOfSeq
<1>2. \A i \in 1..Len(c) : c[i].data \in Seq(S)
  BY <1>1 DEF Chunk
<1>3. Data(c) \in [1..Len(c) -> Seq(S)]
  BY <1>1, <1>2 DEF Data
<1>4. Data(c) \in Seq(Seq(S))
  BY <1>1, <1>3, SeqDef
<1>5. Len(Data(c)) = Len(c)
  BY <1>1, <1>3, <1>4, LenProperties
<1> QED
  BY <1>1, <1>2, <1>4, <1>5 DEF Data

\* The bytes are a sequence, and an empty container has none.
LEMMA BytesType ==
    ASSUME NEW S, NEW c \in Seq(Chunk(S))
    PROVE  Bytes(c) \in Seq(S) /\ size(c) \in Nat /\ size(c) = Len(Bytes(c))
<1>1. Bytes(c) = FlattenSeq(Data(c))
  BY DEF Bytes, Data
<1>2. Bytes(c) \in Seq(S)
  BY <1>1, DataType, FlattenType
<1> QED
  BY <1>2, LenProperties DEF size

\* An empty container has no bytes.
LEMMA BytesEmpty == Bytes(Empty) = << >> /\ size(Empty) = 0
<1>1. [i \in DOMAIN << >> |-> << >>[i].data] = << >>
  OBVIOUS
<1> QED
  BY <1>1, FlattenEmpty, EmptySeq DEF Bytes, Empty, size

\* Containers with the same data have the same bytes, whatever their offsets.
LEMMA BytesSame ==
    ASSUME NEW S, NEW c \in Seq(Chunk(S)), NEW d \in Seq(Chunk(S)), Len(c) = Len(d),
           \A i \in 1..Len(c) : c[i].data = d[i].data
    PROVE  Bytes(c) = Bytes(d)
<1>1. Data(c) = Data(d)
  BY DataType, SeqEqual
<1> QED
  BY <1>1 DEF Bytes, Data

\* The bytes of two containers, one after the other.
LEMMA BytesConcat ==
    ASSUME NEW S, NEW c \in Seq(Chunk(S)), NEW d \in Seq(Chunk(S))
    PROVE  Bytes(c \o d) = Bytes(c) \o Bytes(d)
<1>1. /\ c \o d \in Seq(Chunk(S)) /\ Len(c \o d) = Len(c) + Len(d)
      /\ \A i \in 1..(Len(c) + Len(d)) : (c \o d)[i] = IF i <= Len(c) THEN c[i] ELSE d[i - Len(c)]
      /\ Len(c) \in Nat /\ Len(d) \in Nat
  BY ConcatProperties, LenProperties
<1>2. /\ Data(c) \o Data(d) \in Seq(Seq(S)) /\ Len(Data(c) \o Data(d)) = Len(c) + Len(d)
      /\ \A i \in 1..(Len(c) + Len(d)) :
            (Data(c) \o Data(d))[i] = IF i <= Len(c) THEN Data(c)[i] ELSE Data(d)[i - Len(c)]
  <2>1. /\ Data(c) \in Seq(Seq(S)) /\ Len(Data(c)) = Len(c)
        /\ Data(d) \in Seq(Seq(S)) /\ Len(Data(d)) = Len(d)
    BY DataType
  <2>2. \A a, b \in Seq(Seq(S)) :
          /\ a \o b \in Seq(Seq(S)) /\ Len(a \o b) = Len(a) + Len(b)
          /\ \A i \in 1..(Len(a) + Len(b)) : (a \o b)[i] = IF i <= Len(a) THEN a[i] ELSE b[i - Len(a)]
    BY ConcatProperties
  <2>3. PICK a \in Seq(Seq(S)), b \in Seq(Seq(S)) : a = Data(c) /\ b = Data(d)
    BY <2>1
  <2>4. /\ a \o b \in Seq(Seq(S)) /\ Len(a \o b) = Len(a) + Len(b)
        /\ \A i \in 1..(Len(a) + Len(b)) : (a \o b)[i] = IF i <= Len(a) THEN a[i] ELSE b[i - Len(a)]
    BY <2>2
  <2>5. Len(a) = Len(c) /\ Len(b) = Len(d)
    BY <2>1, <2>3
  <2> QED
    BY <2>3, <2>4, <2>5, Zenon
<1>3. \A i \in 1..(Len(c) + Len(d)) : Data(c \o d)[i] = (Data(c) \o Data(d))[i]
  <2> SUFFICES ASSUME NEW i \in 1..(Len(c) + Len(d))
               PROVE  Data(c \o d)[i] = (Data(c) \o Data(d))[i]
    OBVIOUS
  <2>1. Data(c \o d)[i] = (c \o d)[i].data
    BY <1>1, DataType
  <2>2. CASE i <= Len(c)
    <3>1. i \in 1..Len(c)
      BY <1>1, <2>2
    <3> QED
      BY <1>1, <1>2, <2>1, <2>2, <3>1, DataType
  <2>3. CASE ~(i <= Len(c))
    <3>1. i - Len(c) \in 1..Len(d)
      BY <1>1, <2>3
    <3> QED
      BY <1>1, <1>2, <2>1, <2>3, <3>1, DataType
  <2> QED
    BY <2>2, <2>3
<1>4. Data(c \o d) = Data(c) \o Data(d)
  <2>1. Data(c \o d) \in Seq(Seq(S)) /\ Len(Data(c \o d)) = Len(c) + Len(d)
    BY <1>1, DataType
  <2> QED
    BY <1>2, <1>3, <2>1, SeqEqual
<1>5. FlattenSeq(Data(c \o d)) = FlattenSeq(Data(c)) \o FlattenSeq(Data(d))
  BY <1>4, DataType, FlattenConcat
<1> QED
  BY <1>5 DEF Bytes, Data

\* A container of one chunk has its data.
LEMMA BytesOne ==
    ASSUME NEW S, NEW k \in Chunk(S)
    PROVE  <<k>> \in Seq(Chunk(S)) /\ Bytes(<<k>>) = k.data
<1>1. k.data \in Seq(S)
  BY DEF Chunk
<1>2. <<k>> \in Seq(Chunk(S)) /\ Len(<<k>>) = 1 /\ <<k>>[1] = k
  OBVIOUS
<1>3. Data(<<k>>) \in Seq(Seq(S)) /\ Len(Data(<<k>>)) = 1 /\ Data(<<k>>)[1] = k.data
  <2>1. 1 \in 1..Len(<<k>>)
    BY <1>2
  <2>2. Data(<<k>>)[1] = <<k>>[1].data
    BY <1>2, <2>1, DataType
  <2> QED
    BY <1>2, <2>2, DataType
<1>4. << >> \in Seq(Seq(S)) /\ Append(<< >>, k.data) = <<k.data>>
  BY EmptySeq
<1>5. Data(<<k>>) = <<k.data>>
  BY <1>1, <1>3
<1>6. FlattenSeq(<<k.data>>) = << >> \o k.data
  BY <1>1, <1>4, FlattenAppend, FlattenEmpty
<1>7. Bytes(<<k>>) = << >> \o k.data
  BY <1>5, <1>6 DEF Bytes, Data
<1> QED
  BY <1>1, <1>2, <1>7, ConcatEmptySeq
-----------------------------------------------------------------------------
(* What follows a prefix *)

\* The first n elements and those after them.
LEMMA AfterType ==
    ASSUME NEW S, NEW s \in Seq(S), NEW n \in 0..Len(s)
    PROVE  /\ After(s, n) \in Seq(S) /\ Len(After(s, n)) = Len(s) - n
           /\ SubSeq(s, 1, n) \in Seq(S) /\ Len(SubSeq(s, 1, n)) = n
           /\ \A i \in 1..(Len(s) - n) : After(s, n)[i] = s[n + i]
           /\ SubSeq(s, 1, n) \o After(s, n) = s
<1>1. Len(s) \in Nat /\ n \in Nat /\ n <= Len(s)
  BY LenProperties
<1>2. \A i \in 1..Len(s) : s[i] \in S
  BY ElementOfSeq
<1>3. /\ \A i \in (n + 1)..Len(s) : s[i] \in S
      /\ \A i \in 1..n : s[i] \in S
  BY <1>1, <1>2
<1>4. /\ After(s, n) \in Seq(S)
      /\ Len(After(s, n)) = IF n + 1 <= Len(s) THEN Len(s) - (n + 1) + 1 ELSE 0
      /\ \A i \in 1..(Len(s) - (n + 1) + 1) : After(s, n)[i] = s[(n + 1) + i - 1]
  BY <1>1, <1>3, SubSeqProperties DEF After
<1>5. /\ SubSeq(s, 1, n) \in Seq(S)
      /\ Len(SubSeq(s, 1, n)) = IF 1 <= n THEN n - 1 + 1 ELSE 0
  BY <1>1, <1>3, SubSeqProperties
<1>6. SubSeq(s, 1, n) \o SubSeq(s, n + 1, Len(s)) = SubSeq(s, 1, Len(s))
  <2>1. 1 \in 1..(Len(s) + 1) /\ n \in (1 - 1)..Len(s) /\ Len(s) \in n..Len(s)
    BY <1>1
  <2> QED
    BY <2>1, ConcatAdjacentSubSeq
<1>7. SubSeq(s, 1, n) \o After(s, n) = s
  BY <1>6, SubSeqFull DEF After
<1>8. Len(After(s, n)) = Len(s) - n /\ Len(SubSeq(s, 1, n)) = n
  BY <1>1, <1>4, <1>5
<1>9. \A i \in 1..(Len(s) - n) : After(s, n)[i] = s[n + i]
  BY <1>1, <1>4
<1> QED
  BY <1>4, <1>5, <1>7, <1>8, <1>9

\* Nothing follows the whole.
LEMMA AfterAll ==
    ASSUME NEW S, NEW s \in Seq(S), NEW n \in Nat, Len(s) <= n
    PROVE  After(s, n) = << >>
<1>1. Len(s) \in Nat /\ Len(s) < n + 1
  BY LenProperties
<1> QED
  BY <1>1, SubSeqEmpty DEF After

\* Everything follows nothing.
LEMMA AfterNone ==
    ASSUME NEW S, NEW s \in Seq(S)
    PROVE  After(s, 0) = s
<1>1. SubSeq(s, 1, Len(s)) = s
  BY SubSeqFull
<1> QED
  BY <1>1 DEF After

\* What follows the first sequence of two and a beginning of the second.
LEMMA AfterConcat ==
    ASSUME NEW S, NEW a \in Seq(S), NEW b \in Seq(S), NEW m \in 0..Len(b)
    PROVE  After(a \o b, Len(a) + m) = After(b, m)
<1>1. /\ Len(a) \in Nat /\ Len(b) \in Nat /\ m \in Nat /\ m <= Len(b)
      /\ a \o b \in Seq(S) /\ Len(a \o b) = Len(a) + Len(b)
      /\ \A i \in 1..(Len(a) + Len(b)) : (a \o b)[i] = IF i <= Len(a) THEN a[i] ELSE b[i - Len(a)]
  BY LenProperties, ConcatProperties
<1>2. Len(a) + m \in 0..Len(a \o b)
  BY <1>1
<1>3. /\ After(a \o b, Len(a) + m) \in Seq(S)
      /\ Len(After(a \o b, Len(a) + m)) = Len(a \o b) - (Len(a) + m)
      /\ \A i \in 1..(Len(a \o b) - (Len(a) + m)) :
            After(a \o b, Len(a) + m)[i] = (a \o b)[Len(a) + m + i]
  <2>1. PICK s \in Seq(S) : s = a \o b
    BY <1>1
  <2>2. PICK n \in 0..Len(s) : n = Len(a) + m
    BY <1>2, <2>1
  <2>3. /\ After(s, n) \in Seq(S) /\ Len(After(s, n)) = Len(s) - n
        /\ \A i \in 1..(Len(s) - n) : After(s, n)[i] = s[n + i]
    BY AfterType
  <2> QED
    BY <2>1, <2>2, <2>3, Zenon
<1>4. /\ After(b, m) \in Seq(S) /\ Len(After(b, m)) = Len(b) - m
      /\ \A i \in 1..(Len(b) - m) : After(b, m)[i] = b[m + i]
  BY AfterType
<1>5. Len(a \o b) - (Len(a) + m) = Len(b) - m
  BY <1>1
<1>6. ASSUME NEW i \in 1..(Len(b) - m) PROVE (a \o b)[Len(a) + m + i] = b[m + i]
  <2>1. /\ Len(a) + m + i \in 1..(Len(a) + Len(b)) /\ ~(Len(a) + m + i <= Len(a))
        /\ (Len(a) + m + i) - Len(a) = m + i
    BY <1>1
  <2> QED
    BY <1>1, <2>1
<1>7. /\ Len(After(a \o b, Len(a) + m)) = Len(b) - m
      /\ \A i \in 1..(Len(b) - m) : After(a \o b, Len(a) + m)[i] = After(b, m)[i]
  BY <1>3, <1>4, <1>5, <1>6
<1> HIDE DEF After
<1> QED
  BY <1>3, <1>4, <1>7, SeqEqual

\* The same when the second sequence goes on.
LEMMA AfterWithin ==
    ASSUME NEW S, NEW a \in Seq(S), NEW b \in Seq(S), NEW m \in 0..Len(a)
    PROVE  After(a \o b, m) = After(a, m) \o b
<1>1. /\ After(a, m) \in Seq(S) /\ SubSeq(a, 1, m) \in Seq(S) /\ Len(SubSeq(a, 1, m)) = m
      /\ SubSeq(a, 1, m) \o After(a, m) = a
  BY AfterType
<1> DEFINE p == SubSeq(a, 1, m)
           q == After(a, m)
<1> HIDE DEF p, q
<1>2. p \in Seq(S) /\ q \in Seq(S) /\ Len(p) = m /\ m \in Nat /\ p \o q = a
  BY <1>1 DEF p, q
<1>3. q \o b \in Seq(S) /\ 0 \in 0..Len(q \o b)
  BY <1>2, ConcatProperties, LenProperties
<1>4. a \o b = p \o (q \o b)
  <2>1. (p \o q) \o b = p \o (q \o b)
    <3>1. p \in Seq(S) /\ q \in Seq(S)
      BY <1>2
    <3> QED
      BY <3>1, ConcatAssociative
  <2> QED
    BY <1>2, <2>1
<1>5. After(p \o (q \o b), Len(p) + 0) = After(q \o b, 0)
  BY <1>2, <1>3, AfterConcat
<1>6. After(q \o b, 0) = q \o b
  BY <1>3, AfterNone
<1> QED
  BY <1>2, <1>4, <1>5, <1>6 DEF q
-----------------------------------------------------------------------------
(* The operations of a container *)

\* append2 adds its bytes at the end.
LEMMA AppendBytes ==
    ASSUME NEW S, NEW c \in Seq(Chunk(S)), NEW data \in Seq(S)
    PROVE  append2(c, data) \in Seq(Chunk(S)) /\ Bytes(append2(c, data)) = Bytes(c) \o data
<1> DEFINE k == [data |-> data, offset |-> IF c = Empty THEN 0 ELSE nextOffset(Last(c))]
<1>1. k \in Chunk(S) /\ k.data = data
  <2>1. c # Empty => nextOffset(Last(c)) \in Nat
    <3> SUFFICES ASSUME c # << >> PROVE nextOffset(Last(c)) \in Nat
      BY DEF Empty
    <3>1. Len(c) \in 1..Len(c)
      BY EmptySeq
    <3>2. Last(c) \in Chunk(S)
      BY <3>1, ElementOfSeq DEF Last
    <3>3. Last(c).offset \in Nat /\ Len(Last(c).data) \in Nat
      BY <3>2, LenProperties DEF Chunk
    <3> QED
      BY <3>3 DEF nextOffset
  <2> QED
    BY <2>1 DEF Chunk
<1>2. append2(c, data) = Append(c, k)
  BY DEF append2
<1> HIDE DEF k
<1>3. append2(c, data) = c \o <<k>> /\ append2(c, data) \in Seq(Chunk(S))
  BY <1>1, <1>2, AppendIsConcat, AppendProperties
<1>4. <<k>> \in Seq(Chunk(S)) /\ Bytes(<<k>>) = data
  BY <1>1, BytesOne
<1>5. Bytes(c \o <<k>>) = Bytes(c) \o Bytes(<<k>>)
  BY <1>4, BytesConcat
<1> QED
  BY <1>3, <1>4, <1>5

\* The bytes before a chunk, its own, and those after it.
LEMMA BytesSplit ==
    ASSUME NEW S, NEW c \in Seq(Chunk(S)), NEW k \in 1..Len(c)
    PROVE  /\ SubSeq(c, 1, k - 1) \in Seq(Chunk(S)) /\ SubSeq(c, 1, k) \in Seq(Chunk(S))
           /\ SubSeq(c, k + 1, Len(c)) \in Seq(Chunk(S))
           /\ c[k] \in Chunk(S)
           /\ Bytes(SubSeq(c, 1, k)) = Bytes(SubSeq(c, 1, k - 1)) \o c[k].data
           /\ Bytes(c) = Bytes(SubSeq(c, 1, k)) \o Bytes(SubSeq(c, k + 1, Len(c)))
<1>1. Len(c) \in Nat /\ k \in Nat /\ k <= Len(c) /\ k - 1 \in 0..Len(c) /\ k \in 0..Len(c)
  BY LenProperties
<1>2. c[k] \in Chunk(S) /\ <<c[k]>> \in Seq(Chunk(S)) /\ Bytes(<<c[k]>>) = c[k].data
  BY ElementOfSeq, BytesOne
<1>3. SubSeq(c, 1, k - 1) \in Seq(Chunk(S))
  BY <1>1, AfterType
<1>4. /\ SubSeq(c, 1, k) \in Seq(Chunk(S)) /\ SubSeq(c, k + 1, Len(c)) \in Seq(Chunk(S))
      /\ c = SubSeq(c, 1, k) \o SubSeq(c, k + 1, Len(c))
  BY <1>1, AfterType DEF After
<1>5. SubSeq(c, 1, k) = SubSeq(c, 1, k - 1) \o <<c[k]>>
  <2>1. 1 \in 1..Len(c) /\ k \in 1..Len(c)
    BY <1>1
  <2> QED
    BY <2>1, SubSeqRecursiveSecond
<1>6. Bytes(SubSeq(c, 1, k)) = Bytes(SubSeq(c, 1, k - 1)) \o c[k].data
  BY <1>2, <1>3, <1>5, BytesConcat
<1>7. Bytes(c) = Bytes(SubSeq(c, 1, k)) \o Bytes(SubSeq(c, k + 1, Len(c)))
  BY <1>4, BytesConcat
<1> QED
  BY <1>2, <1>3, <1>4, <1>6, <1>7

\* recalcChunkOffsets touches no byte.
LEMMA RecalcBytes ==
    ASSUME NEW S, NEW c \in Seq(Chunk(S))
    PROVE  recalcChunkOffsets(c) \in Seq(Chunk(S)) /\ Bytes(recalcChunkOffsets(c)) = Bytes(c)
<1>1. CASE c = Empty
  BY <1>1 DEF recalcChunkOffsets
<1>2. CASE c # Empty
  <2> DEFINE o == (Len(c) - 1) * Len(c[1].data)
             k == [c[1] EXCEPT !.offset = o]
             d == [c EXCEPT ![1] = k]
  <2>1. Len(c) \in Nat \ {0} /\ 1 \in 1..Len(c) /\ c[1] \in Chunk(S)
    BY <1>2, EmptySeq, ElementOfSeq DEF Empty
  <2>2. Len(c) - 1 \in Nat /\ Len(c[1].data) \in Nat
    BY <2>1, LenProperties DEF Chunk
  <2>3. o \in Nat
    <3>1. \A x, y \in Nat : x * y \in Nat
      OBVIOUS
    <3> QED
      BY <2>2, <3>1
  <2> HIDE DEF o
  <2>4. k \in Chunk(S) /\ k.data = c[1].data
    BY <2>1, <2>3 DEF Chunk
  <2>5. recalcChunkOffsets(c) = d
    BY <1>2 DEF recalcChunkOffsets, o
  <2> HIDE DEF k
  <2>6. /\ d \in Seq(Chunk(S)) /\ Len(d) = Len(c)
        /\ \A j \in 1..Len(c) : d[j] = IF j = 1 THEN k ELSE c[j]
    BY <2>1, <2>4, ExceptSeq
  <2>7. \A j \in 1..Len(c) : d[j].data = c[j].data
    BY <2>4, <2>6
  <2> HIDE DEF d
  <2>8. Bytes(d) = Bytes(c)
    BY <2>6, <2>7, BytesSame
  <2> QED
    BY <2>5, <2>6, <2>8
<1> QED
  BY <1>1, <1>2

\* The bytes of the chunks before a chunk, and of the others.
LEMMA BytesCut ==
    ASSUME NEW S, NEW c \in Seq(Chunk(S)), NEW k \in 1..Len(c)
    PROVE  /\ SubSeq(c, k, Len(c)) \in Seq(Chunk(S))
           /\ Len(SubSeq(c, k, Len(c))) = Len(c) - k + 1
           /\ SubSeq(c, k, Len(c))[1] = c[k]
           /\ Bytes(c) = Bytes(SubSeq(c, 1, k - 1)) \o Bytes(SubSeq(c, k, Len(c)))
<1>1. Len(c) \in Nat /\ k \in Nat /\ k <= Len(c) /\ k >= 1
  BY LenProperties
<1>2. k - 1 \in 0..Len(c) /\ (k - 1) + 1 = k /\ 1 \in 1..(Len(c) - (k - 1))
      /\ Len(c) - (k - 1) = Len(c) - k + 1
  BY <1>1
<1>3. After(c, k - 1) = SubSeq(c, k, Len(c))
  BY <1>2 DEF After
<1>4. /\ After(c, k - 1) \in Seq(Chunk(S)) /\ Len(After(c, k - 1)) = Len(c) - (k - 1)
      /\ SubSeq(c, 1, k - 1) \in Seq(Chunk(S))
      /\ After(c, k - 1)[1] = c[k - 1 + 1]
      /\ SubSeq(c, 1, k - 1) \o After(c, k - 1) = c
  BY <1>2, AfterType
<1>5. Bytes(SubSeq(c, 1, k - 1) \o After(c, k - 1)) = Bytes(SubSeq(c, 1, k - 1)) \o Bytes(After(c, k - 1))
  BY <1>4, BytesConcat
<1> QED
  BY <1>2, <1>3, <1>4, <1>5

\* The bytes of the first chunk, and of the others.
LEMMA BytesHead ==
    ASSUME NEW S, NEW c \in Seq(Chunk(S)), c # << >>
    PROVE  /\ c[1] \in Chunk(S) /\ c[1].data \in Seq(S)
           /\ SubSeq(c, 2, Len(c)) \in Seq(Chunk(S))
           /\ Bytes(c) = c[1].data \o Bytes(SubSeq(c, 2, Len(c)))
<1>1. Len(c) \in Nat /\ 1 \in 1..Len(c) /\ 1 + 1 = 2 /\ 1 - 1 = 0
  BY EmptySeq
<1>2. /\ SubSeq(c, 2, Len(c)) \in Seq(Chunk(S)) /\ c[1] \in Chunk(S)
      /\ Bytes(SubSeq(c, 1, 1)) = Bytes(SubSeq(c, 1, 0)) \o c[1].data
      /\ Bytes(c) = Bytes(SubSeq(c, 1, 1)) \o Bytes(SubSeq(c, 2, Len(c)))
  BY <1>1, BytesSplit
<1>3. c[1].data \in Seq(S)
  BY <1>2 DEF Chunk
<1>4. Bytes(SubSeq(c, 1, 0)) = << >>
  <2>1. SubSeq(c, 1, 0) = << >>
    BY SubSeqEmpty
  <2> QED
    BY <2>1, BytesEmpty DEF Empty
<1>5. << >> \o c[1].data = c[1].data
  BY <1>3, ConcatEmptySeq
<1> QED
  BY <1>2, <1>3, <1>4, <1>5

\* Cutting the first chunk drops as many of the bytes.
LEMMA CutFirst ==
    ASSUME NEW S, NEW c \in Seq(Chunk(S)), c # << >>, NEW m \in 0..Len(c[1].data)
    PROVE  /\ [c EXCEPT ![1].data = After(@, m)] \in Seq(Chunk(S))
           /\ Bytes([c EXCEPT ![1].data = After(@, m)]) = After(Bytes(c), m)
<1> DEFINE h == [c[1] EXCEPT !.data = After(c[1].data, m)]
           e == [c EXCEPT ![1] = h]
           r == SubSeq(c, 2, Len(c))
<1>1. /\ c[1] \in Chunk(S) /\ c[1].data \in Seq(S) /\ r \in Seq(Chunk(S))
      /\ Bytes(c) = c[1].data \o Bytes(r)
  BY BytesHead
<1>2. [c EXCEPT ![1].data = After(@, m)] = e
  OBVIOUS
<1>3. After(c[1].data, m) \in Seq(S)
  BY <1>1, AfterType
<1>4. h \in Chunk(S) /\ h.data = After(c[1].data, m)
  BY <1>1, <1>3 DEF Chunk
<1>5. Len(c) \in Nat \ {0} /\ 1 \in 1..Len(c)
  BY EmptySeq
<1> HIDE DEF h
<1>6. /\ e \in Seq(Chunk(S)) /\ Len(e) = Len(c)
      /\ \A j \in 1..Len(c) : e[j] = IF j = 1 THEN h ELSE c[j]
  BY <1>4, <1>5, ExceptSeq
<1> HIDE DEF e
<1>7. e[1] = h /\ e # << >>
  <2>1. e[1] = h
    BY <1>5, <1>6
  <2>2. Len(e) # 0
    BY <1>5, <1>6
  <2> QED
    BY <2>1, <2>2, EmptySeq
<1>8. /\ SubSeq(e, 2, Len(e)) \in Seq(Chunk(S))
      /\ Bytes(e) = e[1].data \o Bytes(SubSeq(e, 2, Len(e)))
  BY <1>6, <1>7, BytesHead
<1>9. SubSeq(e, 2, Len(e)) = r
  <2>1. After(e, 1) = SubSeq(e, 2, Len(e)) /\ After(c, 1) = r
    BY DEF After
  <2>2. 1 \in 0..Len(c) /\ 1 \in 0..Len(e)
    BY <1>5, <1>6
  <2>3. /\ After(c, 1) \in Seq(Chunk(S)) /\ Len(After(c, 1)) = Len(c) - 1
        /\ \A i \in 1..(Len(c) - 1) : After(c, 1)[i] = c[1 + i]
    BY <2>2, AfterType
  <2>4. /\ After(e, 1) \in Seq(Chunk(S)) /\ Len(After(e, 1)) = Len(c) - 1
        /\ \A i \in 1..(Len(c) - 1) : After(e, 1)[i] = e[1 + i]
    BY <1>6, <2>2, AfterType
  <2>5. \A i \in 1..(Len(c) - 1) : e[1 + i] = c[1 + i]
    BY <1>5, <1>6
  <2>6. \A i \in 1..(Len(c) - 1) : After(e, 1)[i] = After(c, 1)[i]
    BY <2>3, <2>4, <2>5
  <2>7. After(e, 1) = After(c, 1)
    BY <2>3, <2>4, <2>6, SeqEqual
  <2> QED
    BY <2>1, <2>7
<1>10. Bytes(r) \in Seq(S)
  BY <1>1, BytesType
<1>11. After(c[1].data \o Bytes(r), m) = After(c[1].data, m) \o Bytes(r)
  BY <1>1, <1>10, AfterWithin
<1> QED
  BY <1>1, <1>2, <1>4, <1>6, <1>7, <1>8, <1>9, <1>11

\* The chunk that displace2 keeps first: the bytes up to its end are more than n.
LEMMA KeptChunk ==
    ASSUME NEW S, NEW c \in Seq(Chunk(S)), NEW n \in Nat, NEW k \in 1..Len(c),
           Len(Bytes(SubSeq(c, 1, k))) > n,
           \A j \in 1..Len(c) : Len(Bytes(SubSeq(c, 1, j))) > n => k <= j
    PROVE  /\ Len(Bytes(SubSeq(c, 1, k - 1))) \in Nat
           /\ n - Len(Bytes(SubSeq(c, 1, k - 1))) \in 0..Len(c[k].data)
<1> DEFINE A == Bytes(SubSeq(c, 1, k - 1))
           B == c[k].data
<1>1. Len(c) \in Nat /\ k \in Nat /\ k >= 1 /\ k <= Len(c)
  BY LenProperties
<1>2. /\ A \in Seq(S) /\ B \in Seq(S) /\ Bytes(SubSeq(c, 1, k)) = A \o B
  <2>1. /\ SubSeq(c, 1, k - 1) \in Seq(Chunk(S)) /\ c[k] \in Chunk(S)
        /\ Bytes(SubSeq(c, 1, k)) = A \o B
    BY BytesSplit
  <2> QED
    BY <2>1, BytesType DEF Chunk
<1>3. Len(Bytes(SubSeq(c, 1, k))) = Len(A) + Len(B) /\ Len(A) \in Nat /\ Len(B) \in Nat
  <2> HIDE DEF A, B
  <2> QED
    BY <1>2, ConcatProperties, LenProperties
<1>4. CASE k = 1
  <2>1. SubSeq(c, 1, 0) = << >> /\ k - 1 = 0
    BY <1>4, SubSeqEmpty
  <2>2. A = << >>
    BY <2>1, BytesEmpty DEF Empty
  <2>3. Len(A) = 0
    BY <2>2
  <2> HIDE DEF A, B
  <2>4. n - Len(A) \in 0..Len(B)
    BY <1>3, <2>3
  <2> QED
    BY <1>3, <2>4 DEF A, B
<1>5. CASE k # 1
  <2>1. k - 1 \in 1..Len(c) /\ ~(k <= k - 1)
    BY <1>1, <1>5
  <2>2. ~(Len(A) > n)
    BY <2>1
  <2> HIDE DEF A, B
  <2>3. n - Len(A) \in 0..Len(B)
    BY <1>3, <2>2
  <2> QED
    BY <1>3, <2>3 DEF A, B
<1> QED
  BY <1>4, <1>5

\* displace2 drops the first n bytes, or all there are.
LEMMA DisplaceBytes ==
    ASSUME NEW S, NEW c \in Seq(Chunk(S)), NEW n \in Nat
    PROVE  displace2(c, n) \in Seq(Chunk(S)) /\ Bytes(displace2(c, n)) = After(Bytes(c), n)
<1> DEFINE Before(i) == Len(Bytes(SubSeq(c, 1, i)))
           bs == [i \in DOMAIN c |-> Before(i)]
           I == {i \in 1..Len(c) : Before(i) > n}
           kept == IF I # {} THEN Min(I) ELSE 0
<1>1. Len(c) \in Nat /\ DOMAIN c = 1..Len(c)
  BY LenProperties
<1>2. SelectInSeq(bs, LAMBDA b : b > n) = kept
  <2>1. DOMAIN bs = 1..Len(c) /\ Len(bs) = Len(c)
    BY <1>1
  <2>2. \A i \in 1..Len(c) : bs[i] = Before(i)
    BY <1>1
  <2>3. {i \in 1..Len(bs) : bs[i] > n} = I
    BY <2>1, <2>2
  <2> QED
    BY <2>3 DEF SelectInSeq
<1>3. displace2(c, n) = IF kept = 0 THEN Empty
        ELSE recalcChunkOffsets(
               [SubSeq(c, kept, Len(c)) EXCEPT ![1].data = After(@, n - Before(kept - 1))])
  BY <1>2 DEF displace2
<1>4. CASE I = {}
  <2>1. displace2(c, n) = Empty
    BY <1>3, <1>4
  <2>2. size(c) <= n
    <3>1. CASE Len(c) = 0
      BY <3>1, BytesEmpty, EmptySeq DEF Empty
    <3>2. CASE Len(c) # 0
      <4>1. Len(c) \in 1..Len(c) /\ SubSeq(c, 1, Len(c)) = c
        BY <1>1, <3>2, SubSeqFull
      <4>2. ~(Before(Len(c)) > n)
        BY <1>4, <4>1
      <4>3. Before(Len(c)) = size(c) /\ size(c) \in Nat
        BY <4>1, BytesType DEF size
      <4> QED
        BY <4>2, <4>3
    <3> QED
      BY <3>1, <3>2
  <2>3. After(Bytes(c), n) = << >>
    <3>1. Bytes(c) \in Seq(S) /\ Len(Bytes(c)) <= n
      BY <2>2, BytesType
    <3> QED
      BY <3>1, AfterAll
  <2> QED
    BY <2>1, <2>3, BytesEmpty, EmptySeq DEF Empty
<1>5. CASE I # {}
  <2>1. I \subseteq Nat
    BY <1>1
  <2>2. PICK k : k = kept /\ k \in 1..Len(c) /\ Before(k) > n
                 /\ \A j \in 1..Len(c) : Before(j) > n => k <= j
    <3>1. Min(I) \in I /\ \A j \in I : Min(I) <= j
      <4> HIDE DEF I
      <4> QED
        BY <1>5, <2>1, MinOfNats
    <3>2. kept = Min(I)
      BY <1>5
    <3>3. PICK k : k = Min(I)
      OBVIOUS
    <3>4. k \in I /\ \A j \in I : k <= j
      BY <3>1, <3>3
    <3>5. k = kept
      BY <3>2, <3>3
    <3>6. k \in 1..Len(c) /\ Before(k) > n /\ \A j \in 1..Len(c) : Before(j) > n => k <= j
      BY <3>4
    <3> QED
      BY <3>5, <3>6
  <2> HIDE DEF kept, I
  <2>3. k # 0 /\ k \in 1..Len(c)
    BY <1>1, <2>2
  <2> DEFINE A == Bytes(SubSeq(c, 1, k - 1))
             d == SubSeq(c, k, Len(c))
             m == n - Len(A)
             e == [d EXCEPT ![1].data = After(@, m)]
  <2>4. displace2(c, n) = recalcChunkOffsets(e)
    BY <1>3, <2>2, <2>3
  <2>5. Len(A) \in Nat /\ m \in 0..Len(c[k].data)
    BY <2>2, KeptChunk
  <2>6. /\ d \in Seq(Chunk(S)) /\ Len(d) = Len(c) - k + 1 /\ d[1] = c[k]
        /\ Bytes(c) = A \o Bytes(d)
    BY <2>3, BytesCut
  <2>7. A \in Seq(S) /\ Bytes(d) \in Seq(S)
    <3>1. SubSeq(c, 1, k - 1) \in Seq(Chunk(S))
      BY <2>3, BytesSplit
    <3> QED
      BY <2>6, <3>1, BytesType
  <2>8. Len(A) + m = n
    <3> HIDE DEF A
    <3> QED
      BY <2>5
  <2> HIDE DEF A, d, m
  <2>9. d # << >> /\ m \in 0..Len(d[1].data)
    <3>1. Len(d) # 0
      BY <1>1, <2>3, <2>6
    <3> QED
      BY <2>5, <2>6, <3>1, EmptySeq
  <2>10. e \in Seq(Chunk(S)) /\ Bytes(e) = After(Bytes(d), m)
    BY <2>6, <2>9, CutFirst
  <2> HIDE DEF e
  <2>11. m \in 0..Len(Bytes(d))
    <3>1. /\ d[1].data \in Seq(S) /\ SubSeq(d, 2, Len(d)) \in Seq(Chunk(S))
          /\ Bytes(d) = d[1].data \o Bytes(SubSeq(d, 2, Len(d)))
      BY <2>6, <2>9, BytesHead
    <3>2. Bytes(SubSeq(d, 2, Len(d))) \in Seq(S)
      BY <3>1, BytesType
    <3>3. PICK a \in Seq(S), b \in Seq(S) : a = d[1].data /\ b = Bytes(SubSeq(d, 2, Len(d)))
      BY <3>1, <3>2
    <3>4. Len(a \o b) = Len(a) + Len(b) /\ Len(a) \in Nat /\ Len(b) \in Nat
      BY ConcatProperties, LenProperties
    <3>5. Len(Bytes(d)) = Len(a) + Len(b) /\ m \in 0..Len(a)
      BY <2>9, <3>1, <3>3, <3>4
    <3> QED
      BY <3>4, <3>5
  <2>12. After(A \o Bytes(d), Len(A) + m) = After(Bytes(d), m)
    BY <2>7, <2>11, AfterConcat
  <2>13. After(Bytes(c), n) = After(Bytes(d), m)
    BY <2>6, <2>8, <2>12
  <2> QED
    BY <2>4, <2>10, <2>13, RecalcBytes
<1> QED
  BY <1>4, <1>5
-----------------------------------------------------------------------------
(* Searching *)

\* The needle is in s after its first i elements.
OccursAt(s, needle, i) ==
    i \in 0 .. (Len(s) - Len(needle)) /\ SubSeq(s, i + 1, i + Len(needle)) = needle

\* find gives the first occurrence, and NotFound only when there is none.
LEMMA FindIs ==
    ASSUME NEW S, NEW c \in Seq(Chunk(S)), NEW needle \in Seq(S)
    PROVE  /\ find(c, needle) # NotFound => OccursAt(Bytes(c), needle, find(c, needle))
           /\ \A i \in Nat : OccursAt(Bytes(c), needle, i) =>
                find(c, needle) # NotFound /\ find(c, needle) <= i
<1> DEFINE at == {i \in 0 .. (Len(Bytes(c)) - Len(needle)) :
                    SubSeq(Bytes(c), i + 1, i + Len(needle)) = needle}
<1>1. \A i : i \in at <=> OccursAt(Bytes(c), needle, i)
  BY DEF OccursAt
<1>2. Len(Bytes(c)) \in Nat /\ Len(needle) \in Nat
  BY BytesType, LenProperties
<1>3. at \subseteq Nat
  BY <1>2
<1>4. find(c, needle) = IF at = {} THEN NotFound ELSE CHOOSE i \in at : \A j \in at : i <= j
  BY DEF find
<1> HIDE DEF at
<1>5. at # {} => find(c, needle) \in at /\ \A j \in at : find(c, needle) <= j
  BY <1>3, <1>4, LeastNat
<1>6. at # {} => find(c, needle) # NotFound
  BY <1>3, <1>5 DEF NotFound
<1>7. at = {} => find(c, needle) = NotFound
  BY <1>4
<1> QED
  BY <1>1, <1>5, <1>6, <1>7

\* findAny gives the first occurrence of one of the needles, before which no needle of the
\* list occurs anywhere, and NotFound only when none does.
LEMMA FindAnyIs ==
    ASSUME NEW S, NEW c \in Seq(Chunk(S)), NEW needles \in Seq(Seq(S))
    PROVE  \/ /\ findAny(c, needles).pos = NotFound /\ findAny(c, needles).needle = << >>
              /\ \A k \in 1..Len(needles) : find(c, needles[k]) = NotFound
           \/ /\ findAny(c, needles).pos # NotFound
              /\ \E k \in 1..Len(needles) :
                    /\ findAny(c, needles).needle = needles[k]
                    /\ findAny(c, needles).pos = find(c, needles[k])
                    /\ \A j \in 1..(k - 1) : find(c, needles[j]) = NotFound
<1> DEFINE I == {i \in 1..Len(needles) : find(c, needles[i]) # NotFound}
           k == IF I # {} THEN Min(I) ELSE 0
           f == findAny(c, needles)
<1>1. Len(needles) \in Nat /\ I \subseteq Nat
  BY LenProperties
<1>2. SelectInSeq(needles, LAMBDA d : find(c, d) # NotFound) = k
  BY DEF SelectInSeq
<1>3. f = IF k = 0 THEN [pos |-> NotFound, needle |-> << >>]
          ELSE [pos |-> find(c, needles[k]), needle |-> needles[k]]
  BY <1>2 DEF findAny
<1>4. CASE I = {}
  <2>1. \A j \in 1..Len(needles) : find(c, needles[j]) = NotFound
    BY <1>4
  <2>2. f = [pos |-> NotFound, needle |-> << >>]
    BY <1>3, <1>4
  <2> HIDE DEF f
  <2>3. f.pos = NotFound /\ f.needle = << >>
    BY <2>2
  <2> QED
    BY <2>1, <2>3 DEF f
<1>5. CASE I # {}
  <2>1. Min(I) \in I /\ \A j \in I : Min(I) <= j
    <3> HIDE DEF I
    <3> QED
      BY <1>1, <1>5, MinOfNats
  <2>2. PICK m \in I : m = k /\ \A j \in I : m <= j
    BY <1>5, <2>1
  <2>3. m \in 1..Len(needles) /\ m # 0 /\ find(c, needles[m]) # NotFound
    BY <1>1, <2>2
  <2>7. ASSUME NEW j \in 1..(m - 1) PROVE find(c, needles[j]) = NotFound
    <3>1. j \in 1..Len(needles) /\ ~(m <= j)
      BY <1>1, <2>3
    <3> QED
      BY <2>2, <3>1
  <2> HIDE DEF k, I
  <2>4. f = [pos |-> find(c, needles[m]), needle |-> needles[m]]
    BY <1>3, <2>2, <2>3
  <2> HIDE DEF f
  <2>5. f.pos = find(c, needles[m]) /\ f.needle = needles[m]
    BY <2>4
  <2>6. /\ f.pos # NotFound
        /\ \E i \in 1..Len(needles) :
              /\ f.needle = needles[i] /\ f.pos = find(c, needles[i])
              /\ \A j \in 1..(i - 1) : find(c, needles[j]) = NotFound
    BY <2>3, <2>5, <2>7
  <2> QED
    BY <2>6 DEF f
<1> QED
  BY <1>4, <1>5

-----------------------------------------------------------------------------
(* Sequences *)

\* Concatenation is associative, under a name of its own for the places where many
\* sequences are around.
Assoc(S, x, y, z) ==
    (x \in Seq(S) /\ y \in Seq(S) /\ z \in Seq(S)) => (x \o y) \o z = x \o (y \o z)

\* It holds of all sequences.
LEMMA AlwaysAssoc == \A S, x, y, z : Assoc(S, x, y, z)
BY ConcatAssociative DEF Assoc

\* What was kept and the first F of the new bytes, then the others.
LEMMA TakeSome ==
    ASSUME NEW S, NEW b \in Seq(S), NEW d \in Seq(S), NEW F \in 0..Len(d)
    PROVE  (b \o SubSeq(d, 1, F)) \o After(d, F) = b \o d
<1>1. SubSeq(d, 1, F) \in Seq(S) /\ After(d, F) \in Seq(S) /\ SubSeq(d, 1, F) \o After(d, F) = d
  BY AfterType
<1>2. PICK x \in Seq(S), y \in Seq(S) : x = SubSeq(d, 1, F) /\ y = After(d, F)
  BY <1>1
<1>3. (b \o x) \o y = b \o (x \o y)
  <2>1. Assoc(S, b, x, y)
    BY AlwaysAssoc
  <2> QED
    BY <2>1, Zenon DEF Assoc
<1> QED
  BY <1>1, <1>2, <1>3, Zenon

\* A needle that occurs, and does not in what was kept, ends in the new bytes.
LEMMA DelimiterIsNew ==
    ASSUME NEW S, NEW b \in Seq(S), NEW a \in Seq(S), NEW needle \in Seq(S), needle # << >>,
           NEW p \in Nat, OccursAt(b \o a, needle, p), \A i \in Nat : ~OccursAt(b, needle, i)
    PROVE  p + Len(needle) - Len(b) \in 1..Len(a)
<1>1. /\ Len(b) \in Nat /\ Len(a) \in Nat /\ Len(needle) \in Nat /\ Len(needle) >= 1
      /\ Len(b \o a) = Len(b) + Len(a)
  BY EmptySeq, LenProperties, ConcatProperties
<1>2. /\ p + Len(needle) <= Len(b) + Len(a)
      /\ SubSeq(b \o a, p + 1, p + Len(needle)) = needle
  BY <1>1 DEF OccursAt
<1>3. ASSUME p + Len(needle) <= Len(b) PROVE FALSE
  <2>1. p + 1 \in 1..Len(b) /\ p + Len(needle) \in 1..Len(b) /\ p \in 0..(Len(b) - Len(needle))
    BY <1>1, <1>3
  <2>2. SubSeq(b \o a, p + 1, p + Len(needle)) = SubSeq(b, p + 1, p + Len(needle))
    BY <2>1, SubSeqOfConcat1
  <2>3. OccursAt(b, needle, p)
    BY <1>2, <2>1, <2>2 DEF OccursAt
  <2> QED
    BY <2>3
<1> QED
  BY <1>1, <1>2, <1>3

\* What is before a needle, and the needle.
LEMMA UpToNeedle ==
    ASSUME NEW S, NEW x \in Seq(S), NEW needle \in Seq(S), NEW p \in Nat, OccursAt(x, needle, p)
    PROVE  /\ p + Len(needle) \in 0..Len(x)
           /\ SubSeq(x, 1, p) \in Seq(S)
           /\ SubSeq(x, 1, p) \o needle = SubSeq(x, 1, p + Len(needle))
<1> DEFINE q == p + Len(needle)
<1>1. Len(x) \in Nat /\ Len(needle) \in Nat /\ p \in 0..(Len(x) - Len(needle)) /\ SubSeq(x, p + 1, q) = needle
  BY LenProperties DEF OccursAt
<1>2. /\ q \in 0..Len(x) /\ p \in 0..Len(x) /\ p \in (1 - 1)..Len(x) /\ 1 \in 1..(Len(x) + 1)
      /\ q \in p..Len(x)
  BY <1>1
<1> HIDE DEF q
<1>3. SubSeq(x, 1, p) \o SubSeq(x, p + 1, q) = SubSeq(x, 1, q)
  BY <1>2, ConcatAdjacentSubSeq
<1>4. SubSeq(x, 1, p) \in Seq(S)
  BY <1>2, AfterType
<1>5. SubSeq(x, 1, p) \o needle = SubSeq(x, 1, q)
  BY <1>1, <1>3
<1> QED
  BY <1>2, <1>4, <1>5 DEF q

-----------------------------------------------------------------------------
(* Subparsers *)

Modes == {"delimiter", "size", "direct", "directDelimiter"}

SubParsers(S) ==
    [mode : Modes, delims : Seq(Seq(S)), max : Nat, buf : Seq(Chunk(S)), found : Seq(S), ended : BOOLEAN]

\* The delimiters are not empty and none is in the buffer between two writes.
NoneBuffered(sp) ==
    \A k \in 1..Len(sp.delims) : sp.delims[k] # << >> /\ find(sp.buf, sp.delims[k]) = NotFound

\* What a subparser is between two writes.
SubParserOK(sp, S) ==
    /\ sp \in SubParsers(S)
    /\ size(sp.buf) <= sp.max
    /\ sp.mode \in {"delimiter", "directDelimiter"} => NoneBuffered(sp)
    /\ sp.mode = "directDelimiter" => Len(sp.delims) = 1
    /\ sp.mode \in {"size", "direct"} => sp.found = << >>

\* The bytes that an outcome hands over: to parse(), and as the delimiter.
Handed(r) == r.piece \o (IF r.parses THEN r.sub.found ELSE << >>)

\* What writing data into sp promises of an outcome that is not a failure.
Promised(sp, data, r, S) ==
    /\ r.taken \in 0..Len(data) /\ (data # << >> => r.taken >= 1)
    /\ r.piece \in Seq(S)
    /\ SubParserOK(r.sub, S) /\ r.sub.mode = sp.mode
    /\ (Handed(r) \o Bytes(r.sub.buf)) \o After(data, r.taken) = Bytes(sp.buf) \o data
    /\ (r.parses /\ (sp.mode = "directDelimiter" => r.sub.found # << >>)) => r.sub.buf = Empty

\* Nothing is found in a buffer that is shorter than it.
LEMMA ShortHasNone ==
    ASSUME NEW S, NEW c \in Seq(Chunk(S)), NEW needle \in Seq(S), size(c) < Len(needle)
    PROVE  find(c, needle) = NotFound
<1>1. Len(needle) \in Nat /\ Len(Bytes(c)) \in Nat /\ Len(Bytes(c)) < Len(needle)
  BY BytesType, LenProperties DEF size
<1>2. 0 .. (Len(Bytes(c)) - Len(needle)) = {}
  BY <1>1
<1> QED
  BY <1>2 DEF find

\* Nothing is found in an empty buffer.
LEMMA EmptyHasNone ==
    ASSUME NEW S, NEW needle \in Seq(S), needle # << >>
    PROVE  find(Empty, needle) = NotFound
<1>1. Empty \in Seq(Chunk(S)) /\ size(Empty) = 0
  BY BytesEmpty DEF Empty
<1>2. Len(needle) \in Nat /\ Len(needle) # 0
  BY EmptySeq
<1>3. size(Empty) < Len(needle)
  BY <1>1, <1>2
<1> QED
  BY <1>1, <1>3, ShortHasNone

\* A new subparser is in order when its delimiters are not empty.
LEMMA NewSubParserOK ==
    ASSUME NEW S, NEW mode \in Modes, NEW delims \in Seq(Seq(S)), NEW max \in Nat,
           \A k \in 1..Len(delims) : delims[k] # << >>,
           mode = "directDelimiter" => Len(delims) = 1
    PROVE  SubParserOK(NewSubParser(mode, delims, max), S) /\ NewSubParser(mode, delims, max).mode = mode
<1>1. ASSUME NEW k \in 1..Len(delims) PROVE find(Empty, delims[k]) = NotFound
  <2>1. delims[k] \in Seq(S) /\ delims[k] # << >>
    BY ElementOfSeq
  <2> QED
    BY <2>1, EmptyHasNone
<1>2. Empty \in Seq(Chunk(S)) /\ << >> \in Seq(S) /\ size(Empty) = 0
  BY BytesEmpty DEF Empty
<1> DEFINE sp == NewSubParser(mode, delims, max)
<1>3. sp \in SubParsers(S)
  BY <1>2 DEF SubParsers, NewSubParser
<1>4. sp.mode = mode /\ sp.delims = delims /\ sp.max = max /\ sp.buf = Empty /\ sp.found = << >>
  BY DEF NewSubParser
<1> HIDE DEF sp
<1>5. NoneBuffered(sp)
  BY <1>1, <1>4 DEF NoneBuffered
<1>6. size(sp.buf) <= sp.max
  BY <1>2, <1>4
<1>7. SubParserOK(sp, S) /\ sp.mode = mode
  BY <1>3, <1>4, <1>5, <1>6 DEF SubParserOK
<1> QED
  BY <1>7 DEF sp

\* appendToUnparsedBuffer keeps as many of the bytes as fit, at least one if any.
LEMMA AppendFits ==
    ASSUME NEW S, NEW sp, SubParserOK(sp, S), NEW data \in Seq(S), ~NoRoom(sp, data)
    PROVE  /\ Fits(sp, data) \in 0..Len(data) /\ (data # << >> => Fits(sp, data) >= 1)
           /\ \E c \in Seq(Chunk(S)) :
                /\ appendToUnparsedBuffer(sp, data) = [sp EXCEPT !.buf = c]
                /\ Bytes(c) = Bytes(sp.buf) \o SubSeq(data, 1, Fits(sp, data))
                /\ size(c) = size(sp.buf) + Fits(sp, data) /\ size(c) <= sp.max
<1> DEFINE F == Fits(sp, data)
           a == SubSeq(data, 1, F)
<1>1. sp \in SubParsers(S) /\ sp.max \in Nat /\ sp.buf \in Seq(Chunk(S)) /\ size(sp.buf) <= sp.max
  BY DEF SubParserOK, SubParsers
<1>2. Bytes(sp.buf) \in Seq(S) /\ size(sp.buf) \in Nat /\ size(sp.buf) = Len(Bytes(sp.buf))
  BY <1>1, BytesType DEF size
<1>3. getSizeLeft(sp) = sp.max - size(sp.buf) /\ getSizeLeft(sp) \in Nat
  BY <1>1, <1>2 DEF getSizeLeft
<1>4. Len(data) \in Nat /\ (data # << >> => Len(data) # 0)
  BY EmptySeq, LenProperties
<1>5. F \in 0..Len(data) /\ F <= getSizeLeft(sp) /\ (data # << >> => F >= 1)
  BY <1>3, <1>4 DEF Fits, Min2, NoRoom
<1>6. a \in Seq(S) /\ Len(a) = F
  BY <1>5, AfterType
<1> HIDE DEF F
<1>7. CASE F = 0
  <2>1. a = << >>
    BY <1>6, <1>7, EmptySeq
  <2>2. Bytes(sp.buf) \o a = Bytes(sp.buf)
    BY <1>2, <2>1, ConcatEmptySeq
  <2>3. appendToUnparsedBuffer(sp, data) = [sp EXCEPT !.buf = sp.buf]
    BY <1>1, <1>7 DEF appendToUnparsedBuffer, F, SubParsers
  <2>4. size(sp.buf) = size(sp.buf) + F
    BY <1>2, <1>7
  <2> QED
    BY <1>1, <1>5, <2>2, <2>3, <2>4 DEF F
<1>8. CASE F # 0
  <2> DEFINE c == append2(sp.buf, a)
  <2>1. appendToUnparsedBuffer(sp, data) = [sp EXCEPT !.buf = c]
    BY <1>8 DEF appendToUnparsedBuffer, F
  <2>2. c \in Seq(Chunk(S)) /\ Bytes(c) = Bytes(sp.buf) \o a
    BY <1>1, <1>6, AppendBytes
  <2> HIDE DEF c
  <2>3. size(c) = size(sp.buf) + F
    <3>1. \A x, y \in Seq(S) : Len(x \o y) = Len(x) + Len(y)
      BY ConcatProperties
    <3>2. Len(Bytes(c)) = Len(Bytes(sp.buf)) + Len(a)
      BY <1>2, <1>6, <2>2, <3>1
    <3> QED
      BY <1>2, <1>6, <3>2 DEF size
  <2>4. size(c) <= sp.max
    BY <1>1, <1>2, <1>3, <1>5, <2>3
  <2> QED
    BY <1>5, <2>1, <2>2, <2>3, <2>4 DEF F
<1> QED
  BY <1>7, <1>8

\* The parts of an outcome.
LEMMA OutcomeParts ==
    ASSUME NEW t, NEW piece, NEW full, NEW sp
    PROVE  /\ LET r == Parses(t, piece, full, sp)
              IN  r.ok = TRUE /\ r.taken = t /\ r.parses = TRUE /\ r.piece = piece /\ r.sub = sp
           /\ LET r == Buffered(t, sp)
              IN  r.ok = TRUE /\ r.taken = t /\ r.parses = FALSE /\ r.piece = << >> /\ r.sub = sp
           /\ LET r == Failed(sp)
              IN  r.ok = FALSE /\ r.taken = 0 /\ r.parses = FALSE /\ r.piece = << >> /\ r.sub = sp
BY DEF Parses, Buffered, Failed

\* A subparser that has parsed all it had is in order.
LEMMA ClearedOK ==
    ASSUME NEW S, NEW sp, SubParserOK(sp, S), NEW x \in SubParsers(S),
           x.mode = sp.mode, x.delims = sp.delims, x.buf = Empty,
           x.mode \in {"size", "direct"} => x.found = << >>
    PROVE  SubParserOK(x, S)
<1>1. size(x.buf) <= x.max
  BY BytesEmpty DEF SubParsers
<1>2. ASSUME sp.mode \in {"delimiter", "directDelimiter"} PROVE NoneBuffered(x)
  <2>1. x.delims \in Seq(Seq(S)) /\ NoneBuffered(sp)
    BY <1>2 DEF SubParsers, SubParserOK
  <2>2. ASSUME NEW k \in 1..Len(x.delims) PROVE x.delims[k] # << >> /\ find(x.buf, x.delims[k]) = NotFound
    <3>1. x.delims[k] \in Seq(S) /\ x.delims[k] # << >>
      BY <2>1, ElementOfSeq DEF NoneBuffered
    <3> QED
      BY <3>1, EmptyHasNone
  <2> QED
    BY <2>2 DEF NoneBuffered
<1> QED
  BY <1>1, <1>2 DEF SubParserOK

\* A call that hands over all that was kept and has been added, and empties the buffer,
\* keeps the promise.  (The fact has a name: where many sequences are around, the
\* provers find its instances by it.)
HandsOver(S, sp, data, x, full, piece, t) ==
    (/\ SubParserOK(sp, S) /\ data \in Seq(S) /\ SubParserOK(x, S) /\ x.mode = sp.mode /\ x.buf = Empty
     /\ piece \in Seq(S) /\ t \in 0..Len(data) /\ (data # << >> => t >= 1)
     /\ (piece \o x.found) \o After(data, t) = Bytes(sp.buf) \o data)
    => /\ Parses(t, piece, full, x).ok = TRUE
       /\ Promised(sp, data, Parses(t, piece, full, x), S)

\* It holds of all of them.
LEMMA HandsOverAll ==
    \A S, sp, data, x, full, piece, t : HandsOver(S, sp, data, x, full, piece, t)
<1> TAKE S, sp, data, x, full, piece, t
<1> SUFFICES
      ASSUME SubParserOK(sp, S), data \in Seq(S), SubParserOK(x, S), x.mode = sp.mode, x.buf = Empty,
             piece \in Seq(S), t \in 0..Len(data), data # << >> => t >= 1,
             (piece \o x.found) \o After(data, t) = Bytes(sp.buf) \o data
      PROVE  /\ Parses(t, piece, full, x).ok = TRUE
             /\ Promised(sp, data, Parses(t, piece, full, x), S)
  BY Zenon DEF HandsOver
<1>1. PICK r : r = Parses(t, piece, full, x)
  OBVIOUS
<1>2. r.ok = TRUE /\ r.taken = t /\ r.parses = TRUE /\ r.piece = piece /\ r.sub = x
  BY <1>1 DEF Parses, Buffered, Failed
<1>3. x.found \in Seq(S)
  BY DEF SubParserOK, SubParsers
<1>4. Handed(r) = piece \o x.found /\ Handed(r) \in Seq(S)
  BY <1>2, <1>3, ConcatProperties DEF Handed
<1>5. Handed(r) \o Bytes(r.sub.buf) = Handed(r)
  <2>1. Bytes(r.sub.buf) = << >>
    BY <1>2, BytesEmpty
  <2> QED
    BY <1>4, <2>1, ConcatEmptySeq
<1>6. Promised(sp, data, r, S)
  BY <1>2, <1>4, <1>5 DEF Promised
<1> QED
  BY <1>1, <1>2, <1>6

\* A delimiter that is found: how many bytes of the write it uses up, and what is before it.
Found(S, sp, data, F, c, needle) ==
    (/\ SubParserOK(sp, S) /\ data \in Seq(S) /\ F \in 0..Len(data) /\ c \in Seq(Chunk(S))
     /\ Bytes(c) = Bytes(sp.buf) \o SubSeq(data, 1, F) /\ needle \in Seq(S) /\ needle # << >>
     /\ find(sp.buf, needle) = NotFound /\ find(c, needle) # NotFound)
    => /\ Taken(find(c, needle), needle, size(sp.buf)) \in 1..Len(data)
       /\ SubSeq(Bytes(c), 1, find(c, needle)) \in Seq(S)
       /\ (SubSeq(Bytes(c), 1, find(c, needle)) \o needle)
            \o After(data, Taken(find(c, needle), needle, size(sp.buf))) = Bytes(sp.buf) \o data

\* It is so for all of them.
LEMMA DelimiterFound == \A S, sp, data, F, c, needle : Found(S, sp, data, F, c, needle)
<1> TAKE S, sp, data, F, c, needle
<1> SUFFICES
      ASSUME SubParserOK(sp, S), data \in Seq(S), F \in 0..Len(data), c \in Seq(Chunk(S)),
             Bytes(c) = Bytes(sp.buf) \o SubSeq(data, 1, F), needle \in Seq(S), needle # << >>,
             find(sp.buf, needle) = NotFound, find(c, needle) # NotFound
      PROVE  /\ Taken(find(c, needle), needle, size(sp.buf)) \in 1..Len(data)
             /\ SubSeq(Bytes(c), 1, find(c, needle)) \in Seq(S)
             /\ (SubSeq(Bytes(c), 1, find(c, needle)) \o needle)
                  \o After(data, Taken(find(c, needle), needle, size(sp.buf))) = Bytes(sp.buf) \o data
  BY Zenon DEF Found
<1> DEFINE b == Bytes(sp.buf)
           a == SubSeq(data, 1, F)
           pos == find(c, needle)
           t == pos + Len(needle) - Len(b)
<1>1. sp.buf \in Seq(Chunk(S))
  BY DEF SubParserOK, SubParsers
<1>2. b \in Seq(S) /\ a \in Seq(S) /\ Len(a) = F
  BY <1>1, BytesType, AfterType
<1>3. OccursAt(b \o a, needle, pos) /\ pos \in Nat
  <2>1. OccursAt(Bytes(c), needle, find(c, needle))
    BY FindIs
  <2>2. find(c, needle) \in Nat
    BY <2>1 DEF OccursAt
  <2> QED
    BY <2>1, <2>2
<1>4. \A i \in Nat : ~OccursAt(b, needle, i)
  BY <1>1, FindIs
<1>5. Taken(pos, needle, size(sp.buf)) = t
  BY DEF Taken, size
<1> HIDE DEF b, a, pos, t
<1>6. t \in 1..F
  <2>1. pos + Len(needle) - Len(b) \in 1..Len(a)
    BY <1>2, <1>3, <1>4, DelimiterIsNew
  <2> QED
    BY <1>2, <2>1 DEF t
<1>7. t \in 0..F /\ t \in 1..Len(data) /\ Len(data) \in Nat
  BY <1>6, LenProperties
<1>8. PICK z \in Seq(S) : a \o z = data
  <2>1. After(data, F) \in Seq(S) /\ SubSeq(data, 1, F) \o After(data, F) = data
    BY AfterType
  <2> QED
    BY <2>1 DEF a
<1> DEFINE X == b \o a
           q == pos + Len(needle)
<1>9. X \in Seq(S)
  BY <1>2, ConcatProperties
<1> HIDE DEF X
<1>10. q \in 0..Len(X) /\ SubSeq(X, 1, pos) \in Seq(S) /\ SubSeq(X, 1, pos) \o needle = SubSeq(X, 1, q)
  <2>1. X \in Seq(S) /\ pos \in Nat /\ OccursAt(X, needle, pos)
    BY <1>3, <1>9 DEF X
  <2> QED
    BY <2>1, UpToNeedle
<1>11. q = Len(b) + t
  <2>1. Len(b) \in Nat /\ Len(needle) \in Nat
    BY <1>2, LenProperties
  <2> QED
    BY <1>3, <2>1 DEF t
<1> HIDE DEF q
<1>12. t \in 0..Len(a)
  BY <1>2, <1>7
<1>13. After(X, q) = After(a, t)
  BY <1>2, <1>11, <1>12, AfterConcat DEF X
<1>14. After(a \o z, t) = After(a, t) \o z
  BY <1>2, <1>12, AfterWithin
<1>15. SubSeq(X, 1, q) \in Seq(S) /\ After(X, q) \in Seq(S) /\ SubSeq(X, 1, q) \o After(X, q) = X
  BY <1>9, <1>10, AfterType
<1>16. SubSeq(X, 1, q) \o (After(X, q) \o z) = X \o z
  <2>1. Assoc(S, SubSeq(X, 1, q), After(X, q), z)
    BY AlwaysAssoc
  <2> QED
    BY <1>15, <2>1, Zenon DEF Assoc
<1>17. X \o z = b \o (a \o z)
  <2>1. Assoc(S, b, a, z)
    BY AlwaysAssoc
  <2> QED
    BY <1>2, <2>1, Zenon DEF Assoc, X
<1>18. (SubSeq(X, 1, pos) \o needle) \o After(data, t) = b \o data
  BY <1>8, <1>10, <1>13, <1>14, <1>16, <1>17
<1>19. Bytes(c) = X
  BY DEF X, b, a
<1> QED
  BY <1>5, <1>7, <1>10, <1>18, <1>19 DEF b, pos

\* All that was kept and has been added is handed over as one piece.
LEMMA HandsOverBuffer ==
    ASSUME NEW S, NEW sp, SubParserOK(sp, S), NEW data \in Seq(S),
           NEW F \in 0..Len(data), data # << >> => F >= 1,
           NEW c \in Seq(Chunk(S)), Bytes(c) = Bytes(sp.buf) \o SubSeq(data, 1, F),
           NEW x, SubParserOK(x, S), x.mode = sp.mode, x.buf = Empty, x.found = << >>, NEW full
    PROVE  /\ Parses(F, Bytes(c), full, x).ok = TRUE
           /\ Promised(sp, data, Parses(F, Bytes(c), full, x), S)
<1>1. sp.buf \in Seq(Chunk(S))
  BY DEF SubParserOK, SubParsers
<1>2. Bytes(c) \in Seq(S) /\ Bytes(sp.buf) \in Seq(S)
  BY <1>1, BytesType
<1>3. Bytes(c) \o x.found = Bytes(c)
  BY <1>2, ConcatEmptySeq
<1>4. (Bytes(sp.buf) \o SubSeq(data, 1, F)) \o After(data, F) = Bytes(sp.buf) \o data
  BY <1>2, TakeSome
<1>5. (Bytes(c) \o x.found) \o After(data, F) = Bytes(sp.buf) \o data
  BY <1>3, <1>4
<1>6. HandsOver(S, sp, data, x, full, Bytes(c), F)
  BY HandsOverAll
<1> QED
  BY <1>2, <1>5, <1>6, Zenon DEF HandsOver

\* All that was kept and has been added stays in the buffer.
LEMMA BuffersAll ==
    ASSUME NEW S, NEW sp, SubParserOK(sp, S), NEW data \in Seq(S),
           NEW F \in 0..Len(data), data # << >> => F >= 1,
           NEW x, SubParserOK(x, S), x.mode = sp.mode,
           Bytes(x.buf) = Bytes(sp.buf) \o SubSeq(data, 1, F)
    PROVE  Buffered(F, x).ok = TRUE /\ Promised(sp, data, Buffered(F, x), S)
<1>1. PICK r : r = Buffered(F, x)
  OBVIOUS
<1>2. r.ok = TRUE /\ r.taken = F /\ r.parses = FALSE /\ r.piece = << >> /\ r.sub = x
  BY <1>1 DEF Buffered, Failed
<1>3. sp.buf \in Seq(Chunk(S)) /\ x.buf \in Seq(Chunk(S))
  BY DEF SubParserOK, SubParsers
<1>4. Bytes(sp.buf) \in Seq(S) /\ Bytes(x.buf) \in Seq(S)
  BY <1>3, BytesType
<1>5. Handed(r) = << >>
  <2>1. Handed(r) = << >> \o << >>
    BY <1>2 DEF Handed
  <2> QED
    BY <2>1
<1>6. Handed(r) \o Bytes(r.sub.buf) = Bytes(x.buf)
  BY <1>2, <1>4, <1>5, ConcatEmptySeq
<1>7. (Bytes(sp.buf) \o SubSeq(data, 1, F)) \o After(data, F) = Bytes(sp.buf) \o data
  BY <1>4, TakeSome
<1>8. (Handed(r) \o Bytes(r.sub.buf)) \o After(data, r.taken) = Bytes(sp.buf) \o data
  BY <1>2, <1>6, <1>7
<1>9. r.piece \in Seq(S)
  BY <1>2
<1>10. Promised(sp, data, r, S)
  BY <1>2, <1>8, <1>9 DEF Promised
<1> QED
  BY <1>1, <1>2, <1>10

\* parseByDelimiter and parseByMultiDelimiter lose nothing and repeat nothing.
LEMMA ByDelimiterKeeps ==
    ASSUME NEW S, NEW sp, SubParserOK(sp, S), sp.mode = "delimiter",
           NEW data \in Seq(S), ~NoRoom(sp, data)
    PROVE  /\ parseByDelimiter(sp, data).ok = TRUE
           /\ Promised(sp, data, parseByDelimiter(sp, data), S)
<1> DEFINE F == Fits(sp, data)
           full == appendToUnparsedBuffer(sp, data)
           f == findAny(full.buf, sp.delims)
           found == [full EXCEPT !.found = f.needle]
<1>1. /\ sp \in SubParsers(S) /\ sp.buf \in Seq(Chunk(S)) /\ sp.delims \in Seq(Seq(S))
      /\ NoneBuffered(sp)
  BY DEF SubParserOK, SubParsers
<1>2. F \in 0..Len(data) /\ (data # << >> => F >= 1)
  BY AppendFits
<1>3. PICK c \in Seq(Chunk(S)) :
        /\ full = [sp EXCEPT !.buf = c]
        /\ Bytes(c) = Bytes(sp.buf) \o SubSeq(data, 1, F)
        /\ size(c) <= sp.max
  BY AppendFits
<1>4. full.buf = c
  BY <1>1, <1>3 DEF SubParsers
<1>5. \/ /\ f.pos = NotFound /\ f.needle = << >>
         /\ \A k \in 1..Len(sp.delims) : find(c, sp.delims[k]) = NotFound
      \/ /\ f.pos # NotFound
         /\ \E k \in 1..Len(sp.delims) : f.needle = sp.delims[k] /\ f.pos = find(c, sp.delims[k])
  <2>1. f = findAny(c, sp.delims)
    BY <1>4
  <2> HIDE DEF f, full
  <2>2. PICK ds \in Seq(Seq(S)) : ds = sp.delims
    BY <1>1
  <2>3. \/ /\ findAny(c, ds).pos = NotFound /\ findAny(c, ds).needle = << >>
           /\ \A k \in 1..Len(ds) : find(c, ds[k]) = NotFound
        \/ /\ findAny(c, ds).pos # NotFound
           /\ \E k \in 1..Len(ds) :
                 findAny(c, ds).needle = ds[k] /\ findAny(c, ds).pos = find(c, ds[k])
    BY FindAnyIs
  <2> QED
    BY <2>1, <2>2, <2>3, Zenon
<1>6. parseByDelimiter(sp, data) =
        IF f.pos # NotFound
        THEN Parses(Taken(f.pos, f.needle, size(sp.buf)), SubSeq(Bytes(c), 1, f.pos),
                    found, Cleared(found))
        ELSE IF sp.ended THEN Parses(F, Bytes(c), found, Cleared(found))
        ELSE Buffered(F, found)
  BY <1>4 DEF parseByDelimiter
<1> HIDE DEF F, f, full
<1>7. ASSUME f.needle \in Seq(S)
      PROVE  /\ found \in SubParsers(S) /\ found.mode = sp.mode /\ found.delims = sp.delims
             /\ found.max = sp.max /\ found.buf = c /\ found.found = f.needle
             /\ Cleared(found).buf = Empty /\ Cleared(found).mode = sp.mode
             /\ Cleared(found).found = f.needle
             /\ SubParserOK(Cleared(found), S)
  <2>1. /\ found \in SubParsers(S) /\ found.mode = sp.mode /\ found.delims = sp.delims
        /\ found.max = sp.max /\ found.buf = c /\ found.found = f.needle
    BY <1>1, <1>3, <1>7 DEF SubParsers
  <2> HIDE DEF found
  <2>2. Empty \in Seq(Chunk(S))
    BY DEF Empty
  <2>3. /\ Cleared(found) \in SubParsers(S) /\ Cleared(found).mode = sp.mode
        /\ Cleared(found).delims = sp.delims /\ Cleared(found).buf = Empty
        /\ Cleared(found).found = f.needle
    BY <2>1, <2>2 DEF Cleared, SubParsers
  <2>4. SubParserOK(Cleared(found), S)
    BY <2>3, ClearedOK
  <2> QED
    BY <2>1, <2>3, <2>4
<1>8. CASE f.pos # NotFound
  <2>1. PICK k \in 1..Len(sp.delims) : f.needle = sp.delims[k] /\ f.pos = find(c, sp.delims[k])
    BY <1>5, <1>8
  <2>2. f.needle \in Seq(S) /\ f.needle # << >> /\ find(sp.buf, f.needle) = NotFound
    BY <1>1, <2>1, ElementOfSeq DEF NoneBuffered
  <2> DEFINE t == Taken(find(c, f.needle), f.needle, size(sp.buf))
             piece == SubSeq(Bytes(c), 1, find(c, f.needle))
             x == Cleared(found)
  <2>3. /\ t \in 1..Len(data) /\ piece \in Seq(S)
        /\ (piece \o f.needle) \o After(data, t) = Bytes(sp.buf) \o data
    <3>1. find(c, f.needle) # NotFound
      BY <1>8, <2>1
    <3>2. Found(S, sp, data, F, c, f.needle)
      BY DelimiterFound
    <3> QED
      BY <1>2, <1>3, <2>2, <3>1, <3>2, Zenon DEF Found
  <2>4. parseByDelimiter(sp, data) = Parses(t, piece, found, x)
    BY <1>6, <1>8, <2>1
  <2>5. SubParserOK(x, S) /\ x.mode = sp.mode /\ x.buf = Empty /\ x.found = f.needle
    BY <1>7, <2>2
  <2> HIDE DEF t, piece, x, found
  <2>6. t \in 0..Len(data) /\ t >= 1
    <3>1. Len(data) \in Nat
      BY LenProperties
    <3> QED
      BY <2>3, <3>1
  <2>7. (piece \o x.found) \o After(data, t) = Bytes(sp.buf) \o data
    BY <2>3, <2>5
  <2> QED
    <3>1. HandsOver(S, sp, data, x, found, piece, t)
      BY HandsOverAll
    <3> QED
      BY <2>3, <2>4, <2>5, <2>6, <2>7, <3>1, Zenon DEF HandsOver
<1>9. CASE f.pos = NotFound
  <2>1. f.needle = << >> /\ \A k \in 1..Len(sp.delims) : find(c, sp.delims[k]) = NotFound
    BY <1>5, <1>9, Zenon
  <2> f.needle \in Seq(S)
    BY <2>1
  <2>2. CASE sp.ended
    <3> DEFINE x == Cleared(found)
    <3>1. SubParserOK(x, S) /\ x.mode = sp.mode /\ x.buf = Empty /\ x.found = << >>
      BY <1>7, <2>1
    <3>2. parseByDelimiter(sp, data) = Parses(F, Bytes(c), found, x)
      BY <1>6, <1>9, <2>2
    <3> HIDE DEF x, found
    <3> QED
      BY <1>2, <1>3, <3>1, <3>2, HandsOverBuffer
  <2>3. CASE ~sp.ended
    <3>1. parseByDelimiter(sp, data) = Buffered(F, found)
      BY <1>6, <1>9, <2>3
    <3>2. /\ found \in SubParsers(S) /\ found.mode = sp.mode /\ found.delims = sp.delims
          /\ found.max = sp.max /\ found.buf = c
      BY <1>7, <2>1
    <3> HIDE DEF found
    <3>3. NoneBuffered(found)
      BY <1>1, <2>1, <3>2 DEF NoneBuffered
    <3>4. SubParserOK(found, S)
      BY <1>3, <3>2, <3>3 DEF SubParserOK
    <3> QED
      BY <1>2, <1>3, <3>1, <3>2, <3>4, BuffersAll
  <2> QED
    BY <2>2, <2>3
<1> QED
  BY <1>8, <1>9

\* parseBySize loses nothing and repeats nothing.
LEMMA BySizeKeeps ==
    ASSUME NEW S, NEW sp, SubParserOK(sp, S), sp.mode = "size",
           NEW data \in Seq(S), ~NoRoom(sp, data)
    PROVE  /\ parseBySize(sp, data).ok = TRUE
           /\ Promised(sp, data, parseBySize(sp, data), S)
<1> DEFINE F == Fits(sp, data)
           full == appendToUnparsedBuffer(sp, data)
<1>1. sp \in SubParsers(S) /\ sp.found = << >>
  BY DEF SubParserOK
<1>2. F \in 0..Len(data) /\ (data # << >> => F >= 1)
  BY AppendFits
<1>3. PICK c \in Seq(Chunk(S)) :
        /\ full = [sp EXCEPT !.buf = c]
        /\ Bytes(c) = Bytes(sp.buf) \o SubSeq(data, 1, F)
        /\ size(c) <= sp.max
  BY AppendFits
<1> HIDE DEF F, full
<1>4. /\ full \in SubParsers(S) /\ full.mode = sp.mode /\ full.delims = sp.delims
      /\ full.max = sp.max /\ full.buf = c /\ full.found = << >>
  BY <1>1, <1>3 DEF SubParsers
<1>5. SubParserOK(full, S)
  BY <1>3, <1>4 DEF SubParserOK
<1> DEFINE x == Cleared(full)
<1>6. x \in SubParsers(S) /\ x.mode = sp.mode /\ x.delims = sp.delims /\ x.buf = Empty /\ x.found = << >>
  <2>1. Empty \in Seq(Chunk(S))
    BY DEF Empty
  <2> QED
    BY <1>4, <2>1 DEF Cleared, SubParsers
<1>7. parseBySize(sp, data) =
        IF getSizeLeft(full) = 0 THEN Parses(F, Bytes(c), full, x) ELSE Buffered(F, full)
  BY <1>4 DEF parseBySize, F, full
<1> HIDE DEF x
<1>8. SubParserOK(x, S)
  BY <1>6, ClearedOK
<1>9. Parses(F, Bytes(c), full, x).ok = TRUE /\ Promised(sp, data, Parses(F, Bytes(c), full, x), S)
  BY <1>2, <1>3, <1>6, <1>8, HandsOverBuffer
<1>10. Buffered(F, full).ok = TRUE /\ Promised(sp, data, Buffered(F, full), S)
  BY <1>2, <1>3, <1>4, <1>5, BuffersAll
<1> QED
  BY <1>7, <1>9, <1>10

\* parseDirect loses nothing and repeats nothing.
LEMMA DirectKeeps ==
    ASSUME NEW S, NEW sp, SubParserOK(sp, S), sp.mode = "direct",
           NEW data \in Seq(S), ~NoRoom(sp, data)
    PROVE  /\ parseDirect(sp, data).ok = TRUE
           /\ Promised(sp, data, parseDirect(sp, data), S)
<1> DEFINE F == Fits(sp, data)
           full == appendToUnparsedBuffer(sp, data)
<1>1. sp \in SubParsers(S) /\ sp.found = << >>
  BY DEF SubParserOK
<1>2. F \in 0..Len(data) /\ (data # << >> => F >= 1)
  BY AppendFits
<1>3. PICK c \in Seq(Chunk(S)) :
        /\ full = [sp EXCEPT !.buf = c]
        /\ Bytes(c) = Bytes(sp.buf) \o SubSeq(data, 1, F)
        /\ size(c) <= sp.max
  BY AppendFits
<1> HIDE DEF F, full
<1>4. /\ full \in SubParsers(S) /\ full.mode = sp.mode /\ full.delims = sp.delims
      /\ full.max = sp.max /\ full.buf = c /\ full.found = << >>
  BY <1>1, <1>3 DEF SubParsers
<1>5. sp.max - size(c) \in Nat
  <2>1. size(c) \in Nat /\ sp.max \in Nat
    BY <1>1, BytesType DEF SubParsers
  <2> QED
    BY <1>3, <2>1
<1> DEFINE x == [Cleared(full) EXCEPT !.max = @ - size(full.buf)]
<1>6. x \in SubParsers(S) /\ x.mode = sp.mode /\ x.delims = sp.delims /\ x.buf = Empty /\ x.found = << >>
  <2>1. Empty \in Seq(Chunk(S))
    BY DEF Empty
  <2> QED
    BY <1>4, <1>5, <2>1 DEF Cleared, SubParsers
<1>7. parseDirect(sp, data) = Parses(F, Bytes(c), full, x)
  BY <1>4 DEF parseDirect, F, full
<1> HIDE DEF x
<1>8. SubParserOK(x, S)
  BY <1>6, ClearedOK
<1>9. Parses(F, Bytes(c), full, x).ok = TRUE /\ Promised(sp, data, Parses(F, Bytes(c), full, x), S)
  BY <1>2, <1>3, <1>6, <1>8, HandsOverBuffer
<1> QED
  BY <1>7, <1>9

\* What displace2 leaves of a buffer when its last v bytes are kept, and what is before.
LEMMA KeepsLast ==
    ASSUME NEW S, NEW c \in Seq(Chunk(S)), NEW v \in 0..size(c)
    PROVE  LET k == IF v = 0 THEN Empty ELSE displace2(c, size(c) - v)
           IN  /\ k \in Seq(Chunk(S)) /\ size(k) = v
               /\ SubSeq(Bytes(c), 1, size(c) - v) \in Seq(S)
               /\ SubSeq(Bytes(c), 1, size(c) - v) \o Bytes(k) = Bytes(c)
<1> DEFINE k == IF v = 0 THEN Empty ELSE displace2(c, size(c) - v)
           n == size(c) - v
<1>1. Bytes(c) \in Seq(S) /\ size(c) = Len(Bytes(c)) /\ size(c) \in Nat /\ n \in 0..Len(Bytes(c)) /\ n \in Nat
  BY BytesType DEF size
<1>2. /\ After(Bytes(c), n) \in Seq(S) /\ Len(After(Bytes(c), n)) = Len(Bytes(c)) - n
      /\ SubSeq(Bytes(c), 1, n) \in Seq(S) /\ SubSeq(Bytes(c), 1, n) \o After(Bytes(c), n) = Bytes(c)
  <2> HIDE DEF n
  <2> QED
    BY <1>1, AfterType
<1>3. k \in Seq(Chunk(S)) /\ Bytes(k) = After(Bytes(c), n)
  <2>1. CASE v = 0
    <3>1. n = Len(Bytes(c)) /\ n \in Nat
      BY <1>1, <2>1
    <3>2. After(Bytes(c), n) = << >>
      <4> HIDE DEF n
      <4> QED
        BY <1>1, <3>1, AfterAll
    <3>3. Empty \in Seq(Chunk(S))
      BY DEF Empty
    <3> QED
      BY <2>1, <3>2, <3>3, BytesEmpty
  <2>2. CASE v # 0
    <3>1. displace2(c, n) \in Seq(Chunk(S)) /\ Bytes(displace2(c, n)) = After(Bytes(c), n)
      BY <1>1, DisplaceBytes
    <3> QED
      BY <2>2, <3>1
  <2> QED
    BY <2>1, <2>2
<1>4. size(k) = v
  <2>1. Len(Bytes(k)) = Len(Bytes(c)) - n
    BY <1>2, <1>3
  <2>2. Len(Bytes(c)) - n = v
    BY <1>1
  <2> QED
    BY <2>1, <2>2 DEF size
<1> QED
  BY <1>2, <1>3, <1>4

\* parseDirectDelimiter loses nothing and repeats nothing, whatever the comparison of
\* bytes that were never copied says.
LEMMA DirectDelimiterKeeps ==
    ASSUME NEW S, NEW sp, SubParserOK(sp, S), sp.mode = "directDelimiter",
           NEW data \in Seq(S), ~NoRoom(sp, data), NEW r \in parseDirectDelimiter(sp, data)
    PROVE  r.ok = TRUE /\ Promised(sp, data, r, S)
<1> DEFINE F == Fits(sp, data)
           full == [appendToUnparsedBuffer(sp, data) EXCEPT !.found = << >>]
           delim == sp.delims[1]
           pos == find(full.buf, delim)
           found == [full EXCEPT !.found = delim]
           Keeping(v) ==
               [full EXCEPT !.buf = IF v = 0 THEN Empty ELSE displace2(@, size(full.buf) - v)]
<1>1. /\ sp \in SubParsers(S) /\ sp.buf \in Seq(Chunk(S)) /\ sp.delims \in Seq(Seq(S))
      /\ NoneBuffered(sp) /\ Len(sp.delims) = 1
  BY DEF SubParserOK, SubParsers
<1>2. delim \in Seq(S) /\ delim # << >> /\ find(sp.buf, delim) = NotFound /\ Len(delim) \in Nat
  <2>1. 1 \in 1..Len(sp.delims)
    BY <1>1
  <2>2. delim \in Seq(S)
    BY <1>1, <2>1, ElementOfSeq
  <2> QED
    BY <1>1, <2>1, <2>2, LenProperties DEF NoneBuffered
<1>3. F \in 0..Len(data) /\ (data # << >> => F >= 1)
  BY AppendFits
<1>4. PICK c \in Seq(Chunk(S)) :
        /\ appendToUnparsedBuffer(sp, data) = [sp EXCEPT !.buf = c]
        /\ Bytes(c) = Bytes(sp.buf) \o SubSeq(data, 1, F)
        /\ size(c) <= sp.max
  BY AppendFits
<1>5. /\ full \in SubParsers(S) /\ full.mode = sp.mode /\ full.delims = sp.delims
      /\ full.max = sp.max /\ full.buf = c /\ full.found = << >>
  <2>1. full = [[sp EXCEPT !.buf = c] EXCEPT !.found = << >>]
    BY <1>4
  <2> HIDE DEF full
  <2>2. << >> \in Seq(S)
    OBVIOUS
  <2> QED
    BY <1>1, <2>1, <2>2 DEF SubParsers
<1>6. parseDirectDelimiter(sp, data) =
        IF pos # NotFound
        THEN {Parses(Taken(pos, delim, size(sp.buf)), SubSeq(Bytes(full.buf), 1, pos),
                     found, Cleared(found))}
        ELSE {Parses(F, SubSeq(Bytes(full.buf), 1, size(full.buf) - v), full, Keeping(v)) :
                v \in getLastBytesInCommon(full.buf, delim)}
  BY DEF parseDirectDelimiter
<1> HIDE DEF F, full
<1>7. CASE pos # NotFound
  <2> DEFINE t == Taken(find(c, delim), delim, size(sp.buf))
             piece == SubSeq(Bytes(c), 1, find(c, delim))
             x == Cleared(found)
  <2>1. r = Parses(t, piece, found, x)
    BY <1>5, <1>6, <1>7
  <2>2. /\ x \in SubParsers(S) /\ x.mode = sp.mode /\ x.delims = sp.delims
        /\ x.buf = Empty /\ x.found = delim
    <3>1. Empty \in Seq(Chunk(S))
      BY DEF Empty
    <3> HIDE DEF delim
    <3> QED
      BY <1>2, <1>5, <3>1 DEF Cleared, SubParsers
  <2>3. find(c, delim) # NotFound
    BY <1>5, <1>7
  <2> HIDE DEF delim
  <2>4. /\ t \in 1..Len(data) /\ piece \in Seq(S)
        /\ (piece \o delim) \o After(data, t) = Bytes(sp.buf) \o data
    <3>1. Found(S, sp, data, F, c, delim)
      BY DelimiterFound
    <3> QED
      BY <1>2, <1>3, <1>4, <2>3, <3>1, Zenon DEF Found
  <2> HIDE DEF t, piece, x, found
  <2>5. SubParserOK(x, S)
    BY <2>2, ClearedOK
  <2>6. t \in 0..Len(data) /\ t >= 1
    <3>1. Len(data) \in Nat
      BY LenProperties
    <3> QED
      BY <2>4, <3>1
  <2>7. HandsOver(S, sp, data, x, found, piece, t)
    BY HandsOverAll
  <2>8. (piece \o x.found) \o After(data, t) = Bytes(sp.buf) \o data
    BY <2>2, <2>4
  <2> QED
    BY <2>1, <2>2, <2>4, <2>5, <2>6, <2>7, <2>8, Zenon DEF HandsOver
<1>8. CASE pos = NotFound
  <2>1. PICK v \in getLastBytesInCommon(c, delim) :
          r = Parses(F, SubSeq(Bytes(c), 1, size(c) - v), full, Keeping(v))
    BY <1>5, <1>6, <1>8
  <2>2. v \in 0..size(c) /\ v < Len(delim)
    <3>1. v \in 0..Min2(size(c), Len(delim) - 1)
      BY DEF getLastBytesInCommon
    <3>2. size(c) \in Nat
      BY BytesType
    <3> HIDE DEF delim
    <3> QED
      BY <1>2, <3>1, <3>2 DEF Min2
  <2> DEFINE k == IF v = 0 THEN Empty ELSE displace2(c, size(c) - v)
             piece == SubSeq(Bytes(c), 1, size(c) - v)
             x == [full EXCEPT !.buf = k]
  <2>3. /\ k \in Seq(Chunk(S)) /\ size(k) = v /\ piece \in Seq(S) /\ piece \o Bytes(k) = Bytes(c)
    BY <2>2, KeepsLast
  <2>4. Keeping(v) = x
    BY <1>5
  <2> HIDE DEF k, piece
  <2>5. /\ x \in SubParsers(S) /\ x.mode = sp.mode /\ x.delims = sp.delims /\ x.max = sp.max
        /\ x.buf = k /\ x.found = << >>
    BY <1>5, <2>3 DEF SubParsers
  <2>6. r = Parses(F, piece, full, x)
    BY <2>1, <2>4 DEF piece
  <2> HIDE DEF x, Keeping
  <2>7. find(k, delim) = NotFound
    <3>1. size(k) < Len(delim)
      BY <2>2, <2>3
    <3> HIDE DEF delim
    <3> QED
      BY <1>2, <2>3, <3>1, ShortHasNone
  <2>8. SubParserOK(x, S)
    <3>1. size(k) <= sp.max
      <4>1. size(c) \in Nat /\ sp.max \in Nat
        BY <1>1, BytesType DEF SubParsers
      <4> QED
        BY <1>4, <2>2, <2>3, <4>1
    <3>2. NoneBuffered(x)
      <4>1. \A i \in 1..Len(sp.delims) : i = 1
        BY <1>1
      <4> QED
        BY <1>2, <2>5, <2>7, <4>1 DEF NoneBuffered
    <3> QED
      BY <1>1, <2>5, <3>1, <3>2 DEF SubParserOK
  <2>9. r.ok = TRUE /\ r.taken = F /\ r.parses = TRUE /\ r.piece = piece /\ r.sub = x
    BY <2>6 DEF Parses, Buffered, Failed
  <2>10. Handed(r) = piece
    <3>1. Handed(r) = piece \o << >>
      BY <2>5, <2>9 DEF Handed
    <3> QED
      BY <2>3, <3>1, ConcatEmptySeq
  <2>11. Bytes(c) \o After(data, F) = Bytes(sp.buf) \o data
    <3>1. Bytes(sp.buf) \in Seq(S)
      BY <1>1, BytesType
    <3>2. (Bytes(sp.buf) \o SubSeq(data, 1, F)) \o After(data, F) = Bytes(sp.buf) \o data
      BY <1>3, <3>1, TakeSome
    <3> QED
      BY <1>4, <3>2
  <2>12. (Handed(r) \o Bytes(r.sub.buf)) \o After(data, r.taken) = Bytes(sp.buf) \o data
    BY <2>3, <2>5, <2>9, <2>10, <2>11
  <2> QED
    BY <1>3, <2>3, <2>5, <2>8, <2>9, <2>12 DEF Promised
<1> QED
  BY <1>7, <1>8
-----------------------------------------------------------------------------
(* writeIntoParser *)

\* What an outcome of writing data into sp may be: a failure that leaves the buffer as
\* it was, or one that keeps the promise.
Kept(sp, data, r, S) ==
    \/ r.ok = TRUE /\ Promised(sp, data, r, S)
    \/ /\ r.ok = FALSE /\ r.parses = FALSE /\ r.piece = << >>
       /\ SubParserOK(r.sub, S) /\ r.sub.mode = sp.mode /\ r.sub.buf = sp.buf

\* writeIntoParser, in each of its modes and for every write, takes a part of the write
\* that is not empty; what it hands to parse() and drops as a delimiter, what it keeps
\* and what it leaves of the write are what it had kept and the write.
THEOREM WriteConserves ==
    ASSUME NEW S, NEW sp, SubParserOK(sp, S), NEW data \in Seq(S), NEW r \in writeIntoParser(sp, data)
    PROVE  Kept(sp, data, r, S)
<1> DEFINE x == [sp EXCEPT !.ended = @ \/ data = << >>]
<1>1. sp \in SubParsers(S) /\ sp.ended \in BOOLEAN /\ sp.mode \in Modes
  BY DEF SubParserOK, SubParsers
<1>2. /\ x \in SubParsers(S) /\ x.mode = sp.mode /\ x.delims = sp.delims /\ x.max = sp.max
      /\ x.buf = sp.buf /\ x.found = sp.found
  <2>1. PICK e \in BOOLEAN : e = (sp.ended \/ data = << >>)
    OBVIOUS
  <2>2. x = [sp EXCEPT !.ended = e]
    BY <2>1
  <2> HIDE DEF x
  <2> QED
    BY <1>1, <2>2 DEF SubParsers
<1>3. writeIntoParser(sp, data) =
        IF NoRoom(x, data) THEN {Failed(x)}
        ELSE CASE x.mode = "delimiter" -> {parseByDelimiter(x, data)}
               [] x.mode = "size" -> {parseBySize(x, data)}
               [] x.mode = "direct" -> {parseDirect(x, data)}
               [] x.mode = "directDelimiter" -> parseDirectDelimiter(x, data)
  BY DEF writeIntoParser
<1> HIDE DEF x
<1>4. SubParserOK(x, S)
  <2>1. sp.mode \in {"delimiter", "directDelimiter"} => NoneBuffered(x)
    BY <1>2 DEF SubParserOK, NoneBuffered
  <2> QED
    BY <1>2, <2>1 DEF SubParserOK
<1>5. CASE NoRoom(x, data)
  <2>1. r = Failed(x)
    BY <1>3, <1>5
  <2>2. r.ok = FALSE /\ r.parses = FALSE /\ r.piece = << >> /\ r.sub = x
    BY <2>1 DEF Failed
  <2> QED
    BY <1>2, <1>4, <2>2 DEF Kept
<1>6. CASE ~NoRoom(x, data)
  <2>1. r.ok = TRUE /\ Promised(x, data, r, S)
    <3>1. CASE x.mode = "delimiter"
      <4>1. r = parseByDelimiter(x, data)
        BY <1>3, <1>6, <3>1
      <4> QED
        BY <1>4, <1>6, <3>1, <4>1, ByDelimiterKeeps
    <3>2. CASE x.mode = "size"
      <4>1. r = parseBySize(x, data)
        BY <1>3, <1>6, <3>2
      <4> QED
        BY <1>4, <1>6, <3>2, <4>1, BySizeKeeps
    <3>3. CASE x.mode = "direct"
      <4>1. r = parseDirect(x, data)
        BY <1>3, <1>6, <3>3
      <4> QED
        BY <1>4, <1>6, <3>3, <4>1, DirectKeeps
    <3>4. CASE x.mode = "directDelimiter"
      <4>1. r \in parseDirectDelimiter(x, data)
        BY <1>3, <1>6, <3>4
      <4> QED
        BY <1>4, <1>6, <3>4, <4>1, DirectDelimiterKeeps
    <3> QED
      BY <1>1, <1>2, <3>1, <3>2, <3>3, <3>4 DEF Modes
  <2>2. Promised(sp, data, r, S)
    BY <1>2, <2>1 DEF Promised
  <2> QED
    BY <2>1, <2>2 DEF Kept
<1> QED
  BY <1>5, <1>6

-----------------------------------------------------------------------------
(* What a piece is *)

\* In x and the delimiter after it, the delimiter is nowhere before.
Ends(x, d) == \A i \in Nat : OccursAt(x \o d, d, i) => i >= Len(x)

\* What occurs in a beginning occurs in the whole.
LEMMA OccursInPrefix ==
    ASSUME NEW S, NEW x \in Seq(S), NEW n \in 0..Len(x), NEW d \in Seq(S), NEW i \in Nat,
           OccursAt(SubSeq(x, 1, n), d, i)
    PROVE  OccursAt(x, d, i)
<1>1. Len(x) \in Nat /\ Len(d) \in Nat
  BY LenProperties
<1>2. PICK y \in Seq(S) : y = SubSeq(x, 1, n) /\ Len(y) = n
  BY AfterType
<1>3. i + Len(d) <= n /\ SubSeq(y, i + 1, i + Len(d)) = d
  BY <1>1, <1>2 DEF OccursAt
<1>4. \A j \in 1..n : y[j] = x[j]
  BY <1>1, <1>2
<1>5. SubSeq(x, i + 1, i + Len(d)) = SubSeq(y, i + 1, i + Len(d))
  <2>1. i + Len(d) <= Len(x) /\ i + Len(d) <= Len(y)
    BY <1>1, <1>2, <1>3
  <2>2. ASSUME NEW z \in Seq(S), i + Len(d) <= Len(z)
        PROVE  SubSeq(z, i + 1, i + Len(d)) = [j \in 1..Len(d) |-> z[i + j]]
    <3>1. (i + Len(d)) - (i + 1) + 1 = Len(d)
      BY <1>1
    <3>2. SubSeq(z, i + 1, i + Len(d)) = [j \in 1..((i + Len(d)) - (i + 1) + 1) |-> z[(i + 1) + j - 1]]
      BY <1>1, <2>2
    <3>3. \A j \in 1..Len(d) : (i + 1) + j - 1 = i + j
      BY <1>1
    <3> QED
      BY <3>1, <3>2, <3>3
  <2>3. \A j \in 1..Len(d) : x[i + j] = y[i + j]
    <3> TAKE j \in 1..Len(d)
    <3>1. i + j \in 1..n
      BY <1>1, <1>3
    <3> QED
      BY <1>4, <3>1
  <2> QED
    BY <2>1, <2>2, <2>3
<1> QED
  BY <1>1, <1>3, <1>5 DEF OccursAt

\* The first delimiter of its kind ends the piece before it, and what does not occur in
\* the buffer does not occur in them.
LEMMA FirstEnds ==
    ASSUME NEW S, NEW c \in Seq(Chunk(S)), NEW d \in Seq(S), find(c, d) # NotFound
    PROVE  /\ find(c, d) \in Nat
           /\ SubSeq(Bytes(c), 1, find(c, d)) \in Seq(S)
           /\ Ends(SubSeq(Bytes(c), 1, find(c, d)), d)
           /\ \A e \in Seq(S), i \in Nat :
                find(c, e) = NotFound => ~OccursAt(SubSeq(Bytes(c), 1, find(c, d)) \o d, e, i)
<1>1. PICK x \in Seq(S) : x = Bytes(c)
  BY BytesType
<1>2. PICK p : p = find(c, d)
  OBVIOUS
<1>3. OccursAt(x, d, p) /\ \A i \in Nat : OccursAt(x, d, i) => p <= i
  BY <1>1, <1>2, FindIs
<1>4. Len(x) \in Nat /\ Len(d) \in Nat
  BY LenProperties
<1>5. p \in Nat /\ p \in 0..Len(x)
  BY <1>3, <1>4 DEF OccursAt
<1>6. PICK q \in Seq(S) : q = SubSeq(x, 1, p) /\ Len(q) = p
  BY <1>5, AfterType
<1>7. PICK n \in 0..Len(x) : q \o d = SubSeq(x, 1, n)
  <2>1. p + Len(d) \in 0..Len(x) /\ SubSeq(x, 1, p) \o d = SubSeq(x, 1, p + Len(d))
    BY <1>3, <1>5, UpToNeedle
  <2> QED
    BY <1>6, <2>1
<1>8. ASSUME NEW e \in Seq(S), NEW i \in Nat, OccursAt(q \o d, e, i) PROVE OccursAt(x, e, i)
  BY <1>7, <1>8, OccursInPrefix
<1>9. Ends(q, d)
  <2> SUFFICES ASSUME NEW i \in Nat, OccursAt(q \o d, d, i) PROVE i >= Len(q)
    BY DEF Ends
  <2>1. p <= i
    BY <1>3, <1>8
  <2> QED
    BY <1>5, <1>6, <2>1
<1>10. ASSUME NEW e \in Seq(S), NEW i \in Nat, find(c, e) = NotFound PROVE ~OccursAt(q \o d, e, i)
  <2>1. OccursAt(x, e, i) => find(c, e) # NotFound
    BY <1>1, FindIs
  <2> QED
    BY <1>8, <1>10, <2>1
<1> QED
  BY <1>1, <1>2, <1>5, <1>6, <1>9, <1>10

\* What a subparser by delimiter hands over: the bytes before the first occurrence of one
\* of the delimiters, within what it may buffer and with none of the delimiters that come
\* before it in the list, or at the end of the stream all it has.
CutByDelimiter(sp, r) ==
    /\ r.sub.delims = sp.delims /\ r.sub.max = sp.max
    /\ r.parses = TRUE =>
        \/ r.sub.found = << >> /\ r.sub.ended
        \/ \E k \in 1..Len(sp.delims) :
              /\ r.sub.found = sp.delims[k] /\ Ends(r.piece, sp.delims[k])
              /\ Len(r.piece) + Len(sp.delims[k]) <= sp.max
              /\ \A j \in 1..(k - 1), i \in Nat : ~OccursAt(r.piece \o sp.delims[k], sp.delims[j], i)

\* By size: that many bytes.
CutBySize(sp, r) ==
    /\ r.sub.delims = sp.delims /\ r.sub.max = sp.max
    /\ r.parses = TRUE => Len(r.piece) = sp.max

\* Direct: all there is room for, the room shrinking by it.
CutDirect(sp, r) ==
    /\ r.sub.delims = sp.delims
    /\ r.parses = TRUE /\ Len(r.piece) \in Nat
    /\ r.left = sp.max - Len(r.piece) /\ r.sub.max = r.left /\ r.left \in Nat

\* The same of an outcome that is not a failure.
Cuts(sp, data, r) ==
    /\ r.sub.delims = sp.delims
    /\ r.sub.ended = (sp.ended \/ data = << >>)
    /\ r.ok = TRUE =>
        /\ sp.mode = "delimiter" => CutByDelimiter(sp, r)
        /\ sp.mode = "size" => CutBySize(sp, r)
        /\ sp.mode = "direct" => CutDirect(sp, r)
        /\ sp.mode = "directDelimiter" => r.sub.max = sp.max

\* It is so by delimiter.
LEMMA DelimiterCuts ==
    ASSUME NEW S, NEW sp, SubParserOK(sp, S), sp.mode = "delimiter",
           NEW data \in Seq(S), ~NoRoom(sp, data)
    PROVE  /\ CutByDelimiter(sp, parseByDelimiter(sp, data))
           /\ parseByDelimiter(sp, data).sub.ended = sp.ended
<1> DEFINE r == parseByDelimiter(sp, data)
           full == appendToUnparsedBuffer(sp, data)
           f == findAny(full.buf, sp.delims)
           found == [full EXCEPT !.found = f.needle]
<1>1. sp \in SubParsers(S)
  BY DEF SubParserOK
<1>2. PICK c \in Seq(Chunk(S)) : full = [sp EXCEPT !.buf = c] /\ size(c) <= sp.max
  BY AppendFits
<1>3. full.buf = c
  BY <1>1, <1>2 DEF SubParsers
<1>4. PICK ds \in Seq(Seq(S)) : ds = sp.delims
  BY <1>1 DEF SubParsers
<1>5. \/ /\ f.pos = NotFound /\ f.needle = << >>
         /\ \A k \in 1..Len(ds) : find(c, ds[k]) = NotFound
      \/ /\ f.pos # NotFound
         /\ \E k \in 1..Len(ds) :
               /\ f.needle = ds[k] /\ f.pos = find(c, ds[k])
               /\ \A j \in 1..(k - 1) : find(c, ds[j]) = NotFound
  <2>1. f = findAny(c, ds)
    BY <1>3, <1>4
  <2> HIDE DEF f, full
  <2>2. \/ /\ findAny(c, ds).pos = NotFound /\ findAny(c, ds).needle = << >>
           /\ \A k \in 1..Len(ds) : find(c, ds[k]) = NotFound
        \/ /\ findAny(c, ds).pos # NotFound
           /\ \E k \in 1..Len(ds) :
                 /\ findAny(c, ds).needle = ds[k] /\ findAny(c, ds).pos = find(c, ds[k])
                 /\ \A j \in 1..(k - 1) : find(c, ds[j]) = NotFound
    BY FindAnyIs
  <2> QED
    BY <2>1, <2>2, Zenon
<1>6. r = IF f.pos # NotFound
          THEN Parses(Taken(f.pos, f.needle, size(sp.buf)), SubSeq(Bytes(c), 1, f.pos),
                      found, Cleared(found))
          ELSE IF sp.ended THEN Parses(Fits(sp, data), Bytes(c), found, Cleared(found))
          ELSE Buffered(Fits(sp, data), found)
  BY <1>3 DEF parseByDelimiter
<1>7. /\ found.delims = sp.delims /\ found.ended = sp.ended /\ found.max = sp.max
      /\ Cleared(found).delims = sp.delims /\ Cleared(found).ended = sp.ended
      /\ Cleared(found).max = sp.max
      /\ Cleared(found).found = f.needle
  <2> HIDE DEF f
  <2> QED
    BY <1>1, <1>2 DEF SubParsers, Cleared
<1> HIDE DEF r, f, full, found
<1>8. CASE f.pos # NotFound
  <2>1. PICK k \in 1..Len(ds) :
              /\ f.needle = ds[k] /\ f.pos = find(c, ds[k])
              /\ \A j \in 1..(k - 1) : find(c, ds[j]) = NotFound
    BY <1>5, <1>8, Zenon
  <2>2. r.sub = Cleared(found) /\ r.piece = SubSeq(Bytes(c), 1, f.pos)
    <3>1. r = Parses(Taken(f.pos, f.needle, size(sp.buf)), SubSeq(Bytes(c), 1, f.pos),
                     found, Cleared(found))
      BY <1>6, <1>8
    <3> QED
      BY <3>1 DEF Parses, Buffered, Failed
  <2>3. PICK d \in Seq(S) : d = ds[k]
    BY ElementOfSeq
  <2>4. /\ Ends(r.piece, d)
        /\ \A e \in Seq(S), i \in Nat : find(c, e) = NotFound => ~OccursAt(r.piece \o d, e, i)
    BY <1>8, <2>1, <2>2, <2>3, FirstEnds
  <2>5. ASSUME NEW j \in 1..(k - 1), NEW i \in Nat PROVE ~OccursAt(r.piece \o d, ds[j], i)
    <3>1. ds[j] \in Seq(S)
      <4>1. j \in 1..Len(ds)
        BY LenProperties
      <4> QED
        BY <4>1, ElementOfSeq
    <3> QED
      BY <2>1, <2>4, <3>1
  <2>6. r.sub.found = ds[k] /\ r.sub.delims = sp.delims /\ r.sub.ended = sp.ended /\ r.sub.max = sp.max
    BY <1>7, <2>1, <2>2
  <2>7. Len(r.piece) + Len(d) <= sp.max
    <3>1. PICK b \in Seq(S) : b = Bytes(c) /\ Len(b) <= sp.max
      BY <1>2, BytesType DEF size
    <3>2. Len(b) \in Nat /\ Len(d) \in Nat /\ sp.max \in Nat
      BY <1>1, LenProperties DEF SubParsers
    <3>3. PICK n : n = f.pos /\ n = find(c, d)
      BY <2>1, <2>3
    <3>4. OccursAt(b, d, n)
      BY <1>8, <3>1, <3>3, FindIs
    <3>5. n \in 0..Len(b) /\ n + Len(d) <= Len(b)
      BY <3>2, <3>4 DEF OccursAt
    <3>6. Len(SubSeq(b, 1, n)) = n
      BY <3>5, AfterType
    <3> QED
      BY <2>2, <3>1, <3>2, <3>3, <3>5, <3>6
  <2> QED
    BY <1>4, <2>3, <2>4, <2>5, <2>6, <2>7 DEF r, CutByDelimiter
<1>9. CASE f.pos = NotFound
  <2>1. f.needle = << >>
    BY <1>5, <1>9
  <2>2. CASE sp.ended
    <3>1. r.sub = Cleared(found)
      <4>1. r = Parses(Fits(sp, data), Bytes(c), found, Cleared(found))
        BY <1>6, <1>9, <2>2
      <4> QED
        BY <4>1 DEF Parses, Buffered, Failed
    <3> QED
      BY <1>7, <2>1, <2>2, <3>1 DEF r, CutByDelimiter
  <2>3. CASE ~sp.ended
    <3>1. r.sub = found /\ r.parses = FALSE
      <4>1. r = Buffered(Fits(sp, data), found)
        BY <1>6, <1>9, <2>3
      <4> QED
        BY <4>1 DEF Parses, Buffered, Failed
    <3> QED
      BY <1>7, <3>1 DEF r, CutByDelimiter
  <2> QED
    BY <2>2, <2>3
<1> QED
  BY <1>8, <1>9

\* It is so by size and direct.
LEMMA SizeCuts ==
    ASSUME NEW S, NEW sp, SubParserOK(sp, S), NEW data \in Seq(S), ~NoRoom(sp, data)
    PROVE  /\ CutBySize(sp, parseBySize(sp, data)) /\ parseBySize(sp, data).sub.ended = sp.ended
           /\ CutDirect(sp, parseDirect(sp, data)) /\ parseDirect(sp, data).sub.ended = sp.ended
<1> DEFINE F == Fits(sp, data)
           full == appendToUnparsedBuffer(sp, data)
           r == parseBySize(sp, data)
           q == parseDirect(sp, data)
           x == [Cleared(full) EXCEPT !.max = @ - size(full.buf)]
<1>1. sp \in SubParsers(S) /\ sp.max \in Nat
  BY DEF SubParserOK, SubParsers
<1>2. PICK c \in Seq(Chunk(S)) : full = [sp EXCEPT !.buf = c] /\ size(c) <= sp.max
  BY AppendFits
<1>3. size(c) \in Nat /\ size(c) = Len(Bytes(c))
  BY BytesType
<1>4. /\ r = IF getSizeLeft(full) = 0 THEN Parses(F, Bytes(full.buf), full, Cleared(full)) ELSE Buffered(F, full)
      /\ q = Parses(F, Bytes(full.buf), full, x)
  BY DEF parseBySize, parseDirect
<1> HIDE DEF full, F, r, q
<1>5. /\ full.delims = sp.delims /\ full.ended = sp.ended /\ full.max = sp.max /\ full.buf = c
      /\ Cleared(full).delims = sp.delims /\ Cleared(full).ended = sp.ended /\ Cleared(full).max = sp.max
      /\ x.delims = sp.delims /\ x.ended = sp.ended /\ x.max = sp.max - size(c)
  BY <1>1, <1>2 DEF SubParsers, Cleared
<1> HIDE DEF x
<1>6. getSizeLeft(full) = sp.max - size(c) /\ sp.max - size(c) \in Nat
  BY <1>1, <1>2, <1>3, <1>5 DEF getSizeLeft
<1>7. /\ r.sub.delims = sp.delims /\ r.sub.ended = sp.ended /\ r.sub.max = sp.max
      /\ r.parses = TRUE => Len(r.piece) = sp.max
  <2>1. CASE getSizeLeft(full) = 0
    <3>1. r.sub = Cleared(full) /\ r.piece = Bytes(full.buf)
      <4>1. r = Parses(F, Bytes(full.buf), full, Cleared(full))
        BY <1>4, <2>1
      <4> QED
        BY <4>1 DEF Parses, Buffered, Failed
    <3>2. Len(Bytes(c)) = sp.max
      BY <1>1, <1>3, <1>6, <2>1
    <3> QED
      BY <1>5, <3>1, <3>2
  <2>2. CASE getSizeLeft(full) # 0
    <3>1. r.sub = full /\ r.parses = FALSE
      <4>1. r = Buffered(F, full)
        BY <1>4, <2>2
      <4> QED
        BY <4>1 DEF Parses, Buffered, Failed
    <3> QED
      BY <1>5, <3>1
  <2> QED
    BY <2>1, <2>2
<1>8. /\ q.sub.delims = sp.delims /\ q.sub.ended = sp.ended
      /\ q.parses = TRUE /\ Len(q.piece) \in Nat
      /\ q.left = sp.max - Len(q.piece) /\ q.sub.max = q.left /\ q.left \in Nat
  <2>1. q.parses = TRUE /\ q.sub = x /\ q.piece = Bytes(c)
    BY <1>4, <1>5 DEF Parses, Buffered, Failed
  <2>2. q.left = getSizeLeft(full)
    BY <1>4 DEF Parses, Buffered, Failed
  <2> QED
    BY <1>3, <1>5, <1>6, <2>1, <2>2
<1> QED
  BY <1>7, <1>8 DEF r, q, CutBySize, CutDirect

\* parseDirectDelimiter keeps its delimiter and its room.
LEMMA DirectDelimiterStays ==
    ASSUME NEW S, NEW sp, SubParserOK(sp, S), NEW data \in Seq(S), ~NoRoom(sp, data),
           NEW r \in parseDirectDelimiter(sp, data)
    PROVE  r.sub.delims = sp.delims /\ r.sub.ended = sp.ended /\ r.sub.max = sp.max
<1> DEFINE full == [appendToUnparsedBuffer(sp, data) EXCEPT !.found = << >>]
           found == [full EXCEPT !.found = sp.delims[1]]
<1>1. PICK c \in Seq(Chunk(S)) : appendToUnparsedBuffer(sp, data) = [sp EXCEPT !.buf = c]
  BY AppendFits
<1>2. sp \in SubParsers(S)
  BY DEF SubParserOK
<1>3. \/ r.sub = Cleared(found)
      \/ \E b : r.sub = [full EXCEPT !.buf = b]
  <2> DEFINE pos == find(full.buf, sp.delims[1])
             Keeping(v) ==
                 [full EXCEPT !.buf = IF v = 0 THEN Empty ELSE displace2(@, size(full.buf) - v)]
  <2>1. CASE pos # NotFound
    <3>1. r = Parses(Taken(pos, sp.delims[1], size(sp.buf)), SubSeq(Bytes(full.buf), 1, pos),
                     found, Cleared(found))
      BY <2>1 DEF parseDirectDelimiter
    <3> HIDE DEF full, found, pos
    <3> QED
      BY <3>1 DEF Parses, Buffered, Failed
  <2>2. CASE ~(pos # NotFound)
    <3>1. PICK v : r = Parses(Fits(sp, data), SubSeq(Bytes(full.buf), 1, size(full.buf) - v), full, Keeping(v))
      BY <2>2 DEF parseDirectDelimiter
    <3>2. r.sub = Keeping(v)
      <4> HIDE DEF full, Keeping
      <4> QED
        BY <3>1 DEF Parses, Buffered, Failed
    <3>3. \E b : Keeping(v) = [full EXCEPT !.buf = b]
      <4> HIDE DEF full
      <4> QED
        OBVIOUS
    <3> QED
      BY <3>2, <3>3
  <2> QED
    BY <2>1, <2>2
<1>4. full.delims = sp.delims /\ full.ended = sp.ended /\ full.max = sp.max
  BY <1>1, <1>2 DEF SubParsers
<1>5. full \in SubParsers(S)
  <2>1. << >> \in Seq(S)
    OBVIOUS
  <2> QED
    BY <1>1, <1>2, <2>1 DEF SubParsers
<1> HIDE DEF full
<1>6. ASSUME NEW x, x = Cleared(found) \/ \E b : x = [full EXCEPT !.buf = b]
      PROVE  x.delims = full.delims /\ x.ended = full.ended /\ x.max = full.max
  BY <1>5, <1>6 DEF Cleared, SubParsers
<1> QED
  BY <1>3, <1>4, <1>6

\* Whatever is written into a subparser, the piece that it hands over is the one that its
\* mode, its delimiters and its size say.
THEOREM WriteCuts ==
    ASSUME NEW S, NEW sp, SubParserOK(sp, S), NEW data \in Seq(S), NEW r \in writeIntoParser(sp, data)
    PROVE  Cuts(sp, data, r)
<1> DEFINE x == [sp EXCEPT !.ended = @ \/ data = << >>]
<1>1. sp \in SubParsers(S) /\ sp.ended \in BOOLEAN /\ sp.mode \in Modes
  BY DEF SubParserOK, SubParsers
<1>2. /\ x \in SubParsers(S) /\ x.mode = sp.mode /\ x.delims = sp.delims /\ x.max = sp.max
      /\ x.buf = sp.buf /\ x.found = sp.found /\ x.ended = (sp.ended \/ data = << >>)
  <2>1. PICK e \in BOOLEAN : e = (sp.ended \/ data = << >>)
    OBVIOUS
  <2>2. x = [sp EXCEPT !.ended = e]
    BY <2>1
  <2> HIDE DEF x
  <2> QED
    BY <1>1, <2>1, <2>2 DEF SubParsers
<1>3. writeIntoParser(sp, data) =
        IF NoRoom(x, data) THEN {Failed(x)}
        ELSE CASE x.mode = "delimiter" -> {parseByDelimiter(x, data)}
               [] x.mode = "size" -> {parseBySize(x, data)}
               [] x.mode = "direct" -> {parseDirect(x, data)}
               [] x.mode = "directDelimiter" -> parseDirectDelimiter(x, data)
  BY DEF writeIntoParser
<1> HIDE DEF x
<1>4. SubParserOK(x, S)
  <2>1. sp.mode \in {"delimiter", "directDelimiter"} => NoneBuffered(x)
    BY <1>2 DEF SubParserOK, NoneBuffered
  <2> QED
    BY <1>2, <2>1 DEF SubParserOK
<1>5. CASE NoRoom(x, data)
  <2>1. r = Failed(x)
    BY <1>3, <1>5
  <2>2. r.ok = FALSE /\ r.sub = x
    BY <2>1 DEF Failed
  <2> QED
    BY <1>2, <2>2 DEF Cuts
<1>6. CASE ~NoRoom(x, data) /\ x.mode = "delimiter"
  <2>1. r = parseByDelimiter(x, data)
    BY <1>3, <1>6
  <2>2. CutByDelimiter(x, r) /\ r.sub.ended = x.ended
    BY <1>4, <1>6, <2>1, DelimiterCuts
  <2>3. CutByDelimiter(sp, r)
    BY <1>2, <2>2 DEF CutByDelimiter
  <2> QED
    BY <1>2, <1>6, <2>2, <2>3 DEF Cuts, CutByDelimiter
<1>7. CASE ~NoRoom(x, data) /\ x.mode = "size"
  <2>1. r = parseBySize(x, data)
    BY <1>3, <1>7
  <2>2. CutBySize(x, r) /\ r.sub.ended = x.ended
    BY <1>4, <1>7, <2>1, SizeCuts
  <2> QED
    BY <1>2, <1>7, <2>2 DEF Cuts, CutBySize
<1>8. CASE ~NoRoom(x, data) /\ x.mode = "direct"
  <2>1. r = parseDirect(x, data)
    BY <1>3, <1>8
  <2>2. CutDirect(x, r) /\ r.sub.ended = x.ended
    BY <1>4, <1>8, <2>1, SizeCuts
  <2> QED
    BY <1>2, <1>8, <2>2 DEF Cuts, CutDirect
<1>9. CASE ~NoRoom(x, data) /\ x.mode = "directDelimiter"
  <2>1. r \in parseDirectDelimiter(x, data)
    BY <1>3, <1>9
  <2>2. r.sub.delims = x.delims /\ r.sub.ended = x.ended /\ r.sub.max = x.max
    BY <1>4, <1>9, <2>1, DirectDelimiterStays
  <2> QED
    BY <1>2, <1>9, <2>2 DEF Cuts
<1> QED
  BY <1>1, <1>2, <1>5, <1>6, <1>7, <1>8, <1>9 DEF Modes

-----------------------------------------------------------------------------
(* Where a stream is cut *)

\* Two cuts of one sequence at the same place.
SameCut(S, a, b, c, d) ==
    (/\ a \in Seq(S) /\ b \in Seq(S) /\ c \in Seq(S) /\ d \in Seq(S)
     /\ a \o b = c \o d /\ Len(a) = Len(c))
    => a = c /\ b = d

\* They give the same parts.
LEMMA AlwaysSameCut == \A S, a, b, c, d : SameCut(S, a, b, c, d)
<1> TAKE S, a, b, c, d
<1> SUFFICES ASSUME a \in Seq(S), b \in Seq(S), c \in Seq(S), d \in Seq(S),
                    a \o b = c \o d, Len(a) = Len(c)
             PROVE  a = c /\ b = d
  BY Zenon DEF SameCut
<1> DEFINE x == a \o b
           y == c \o d
<1>1. /\ Len(a) \in Nat /\ Len(b) \in Nat /\ Len(c) \in Nat /\ Len(d) \in Nat
      /\ Len(x) = Len(a) + Len(b) /\ Len(y) = Len(c) + Len(d)
      /\ \A i \in 1..Len(a) : x[i] = a[i]
      /\ \A i \in 1..Len(b) : x[Len(a) + i] = b[i]
      /\ \A i \in 1..Len(c) : y[i] = c[i]
      /\ \A i \in 1..Len(d) : y[Len(c) + i] = d[i]
  <2>1. ASSUME NEW s \in Seq(S), NEW t \in Seq(S)
        PROVE  /\ Len(s) \in Nat /\ Len(t) \in Nat /\ Len(s \o t) = Len(s) + Len(t)
               /\ \A i \in 1..Len(s) : (s \o t)[i] = s[i]
               /\ \A i \in 1..Len(t) : (s \o t)[Len(s) + i] = t[i]
    BY ConcatProperties, LenProperties
  <2> QED
    BY <2>1
<1>2. x = y
  OBVIOUS
<1> HIDE DEF x, y
<1>3. Len(b) = Len(d)
  BY <1>1, <1>2
<1>4. \A i \in 1..Len(a) : a[i] = c[i]
  BY <1>1, <1>2
<1>5. \A i \in 1..Len(b) : b[i] = d[i]
  BY <1>1, <1>2, <1>3
<1> QED
  BY <1>3, <1>4, <1>5, SeqEqual

\* When the same bytes are cut before a delimiter in two ways, and it is nowhere before
\* the second of the cuts, then the first is not before that.
NotBefore(S, p, q, x, y, d) ==
    (/\ p \in Seq(S) /\ q \in Seq(S) /\ x \in Seq(S) /\ y \in Seq(S) /\ d \in Seq(S)
     /\ (p \o d) \o q = (x \o d) \o y /\ Ends(x, d))
    => Len(p) >= Len(x)

\* It is so for all of them.
LEMMA NeverBefore == \A S, p, q, x, y, d : NotBefore(S, p, q, x, y, d)
<1> TAKE S, p, q, x, y, d
<1> SUFFICES ASSUME p \in Seq(S), q \in Seq(S), x \in Seq(S), y \in Seq(S), d \in Seq(S),
                    (p \o d) \o q = (x \o d) \o y, Ends(x, d), ~(Len(p) >= Len(x))
             PROVE  FALSE
  BY Zenon DEF NotBefore
<1> DEFINE pd == p \o d
           xd == x \o d
           u == pd \o q
           v == xd \o y
<1>1. /\ Len(p) \in Nat /\ Len(x) \in Nat /\ Len(d) \in Nat /\ Len(q) \in Nat /\ Len(y) \in Nat
      /\ pd \in Seq(S) /\ xd \in Seq(S)
      /\ Len(pd) = Len(p) + Len(d) /\ Len(xd) = Len(x) + Len(d)
      /\ \A i \in 1..Len(d) : pd[Len(p) + i] = d[i]
  BY ConcatProperties, LenProperties
<1>2. u = v
  OBVIOUS
<1> HIDE DEF pd, xd
<1>3. /\ \A i \in 1..Len(pd) : u[i] = pd[i]
      /\ \A i \in 1..Len(xd) : v[i] = xd[i]
  BY <1>1, ConcatProperties
<1> HIDE DEF u, v
<1>4. \A i \in 1..Len(d) : xd[Len(p) + i] = d[i]
  <2> TAKE i \in 1..Len(d)
  <2>1. Len(p) + i \in 1..Len(pd) /\ Len(p) + i \in 1..Len(xd)
    BY <1>1
  <2> QED
    BY <1>1, <1>2, <1>3, <2>1
<1>5. SubSeq(xd, Len(p) + 1, Len(p) + Len(d)) = d
  <2>1. Len(p) + Len(d) <= Len(xd)
    BY <1>1
  <2>2. SubSeq(xd, Len(p) + 1, Len(p) + Len(d)) \in Seq(S)
    <3>1. \A i \in (Len(p) + 1)..(Len(p) + Len(d)) : xd[i] \in S
      BY <1>1, <2>1, ElementOfSeq
    <3> QED
      BY <1>1, <2>1, <3>1, SubSeqProperties
  <2>3. /\ Len(SubSeq(xd, Len(p) + 1, Len(p) + Len(d))) = Len(d)
        /\ \A i \in 1..Len(d) : SubSeq(xd, Len(p) + 1, Len(p) + Len(d))[i] = xd[Len(p) + i]
    BY <1>1, <2>1
  <2> QED
    BY <1>4, <2>2, <2>3, SeqEqual
<1>6. OccursAt(xd, d, Len(p))
  BY <1>1, <1>5 DEF OccursAt
<1> QED
  BY <1>1, <1>6 DEF Ends, xd

\* There is one way to cut before the first delimiter.
FirstCut(S, p, q, x, y, d) ==
    (/\ p \in Seq(S) /\ q \in Seq(S) /\ x \in Seq(S) /\ y \in Seq(S) /\ d \in Seq(S)
     /\ (p \o d) \o q = (x \o d) \o y /\ Ends(p, d) /\ Ends(x, d))
    => p = x /\ q = y

\* It is so for all of them.
LEMMA OneFirstCut == \A S, p, q, x, y, d : FirstCut(S, p, q, x, y, d)
<1> TAKE S, p, q, x, y, d
<1> SUFFICES ASSUME p \in Seq(S), q \in Seq(S), x \in Seq(S), y \in Seq(S), d \in Seq(S),
                    (p \o d) \o q = (x \o d) \o y, Ends(p, d), Ends(x, d)
             PROVE  p = x /\ q = y
  BY Zenon DEF FirstCut
<1>1. Len(p) >= Len(x) /\ Len(x) >= Len(p)
  <2>1. NotBefore(S, p, q, x, y, d) /\ NotBefore(S, x, y, p, q, d)
    BY NeverBefore
  <2> QED
    BY <2>1, Zenon DEF NotBefore
<1>2. Len(p) \in Nat /\ Len(x) \in Nat /\ Len(d) \in Nat
  BY LenProperties
<1>3. Len(p) = Len(x)
  BY <1>1, <1>2
<1>4. /\ p \o d \in Seq(S) /\ x \o d \in Seq(S)
      /\ Len(p \o d) = Len(p) + Len(d) /\ Len(x \o d) = Len(x) + Len(d)
  BY ConcatProperties
<1>5. Len(p \o d) = Len(x \o d)
  BY <1>3, <1>4
<1>6. p \o d = x \o d /\ q = y
  <2>1. SameCut(S, p \o d, q, x \o d, y)
    BY AlwaysSameCut
  <2> QED
    BY <1>4, <1>5, <2>1, Zenon DEF SameCut
<1>7. p = x
  <2>1. SameCut(S, p, d, x, d)
    BY AlwaysSameCut
  <2> QED
    BY <1>3, <1>6, <2>1, Zenon DEF SameCut
<1> QED
  BY <1>6, <1>7

-----------------------------------------------------------------------------
(* Reading at an offset *)

\* One call of I_Chunk_GetPosForOffset, f giving what the next one returns.
SearchAt(c, offset, f, r) ==
    LET lo == r[1] pos == r[2] hi == r[3] IN
    IF c[pos].offset <= offset /\ offset < nextOffset(c[pos]) THEN pos
    ELSE IF offset < c[pos].offset
    THEN IF pos = lo THEN 0 ELSE f[<<lo, Middle(lo, pos - 1), pos - 1>>]
    ELSE IF pos = hi THEN 0 ELSE f[<<pos + 1, Middle(pos + 1, hi), hi>>]

\* The ranges of less than k further positions.
Narrow(n, k) == {r \in Ranges(n) : r[3] - r[1] < k}

Searches(c, offset, k, f) == f = [r \in Narrow(Len(c), k) |-> SearchAt(c, offset, f, r)]

\* The middle of a range is in it.
LEMMA MiddleWithin ==
    ASSUME NEW lo \in Nat, NEW hi \in Nat, lo <= hi
    PROVE  Middle(lo, hi) \in lo..hi
<1>1. PICK d \in Nat : hi = lo + d
  <2>1. hi - lo \in Nat /\ hi = lo + (hi - lo)
    OBVIOUS
  <2> QED
    BY <2>1
<1>2. d # 0 => ((d + 1) \div 2) - (d % 2) \in 0..d
  OBVIOUS
<1>3. Middle(lo, hi) = IF d = 0 THEN lo ELSE lo + (((d + 1) \div 2) - (d % 2))
  BY <1>1 DEF Middle
<1> QED
  BY <1>1, <1>2, <1>3

\* A range is within the positions.
LEMMA RangeWithin ==
    ASSUME NEW n, n \in Nat, NEW r \in Ranges(n)
    PROVE  r[1] \in 1..n /\ r[2] \in 1..n /\ r[3] \in 1..n /\ r[1] <= r[2] /\ r[2] <= r[3]
BY DEF Ranges

\* Both halves of a range are ranges, and narrower.
LEMMA Halves ==
    ASSUME NEW n \in Nat, NEW r \in Ranges(n)
    PROVE  /\ r[2] # r[1] =>
                LET q == <<r[1], Middle(r[1], r[2] - 1), r[2] - 1>>
                IN  q \in Ranges(n) /\ q[3] - q[1] < r[3] - r[1]
           /\ r[2] # r[3] =>
                LET q == <<r[2] + 1, Middle(r[2] + 1, r[3]), r[3]>>
                IN  q \in Ranges(n) /\ q[3] - q[1] < r[3] - r[1]
<1>1. r[1] \in 1..n /\ r[2] \in 1..n /\ r[3] \in 1..n /\ r[1] <= r[2] /\ r[2] <= r[3]
  BY RangeWithin
<1>2. PICK lo, pos, hi \in 1..n : lo = r[1] /\ pos = r[2] /\ hi = r[3] /\ lo <= pos /\ pos <= hi
  BY <1>1
<1>3. ASSUME NEW a \in 1..n, NEW b \in 1..n, a <= b PROVE <<a, Middle(a, b), b>> \in Ranges(n)
  <2>1. PICK m : m = Middle(a, b)
    OBVIOUS
  <2>2. m \in a..b
    BY <1>3, <2>1, MiddleWithin
  <2>3. m \in 1..n /\ a <= m /\ m <= b
    BY <2>2
  <2>4. <<a, m, b>> \in Ranges(n)
    BY <1>3, <2>3 DEF Ranges
  <2> QED
    BY <2>1, <2>4
<1>4. ASSUME pos # lo PROVE <<lo, Middle(lo, pos - 1), pos - 1>> \in Ranges(n)
  <2>1. pos - 1 \in 1..n /\ lo <= pos - 1
    BY <1>2, <1>4
  <2> QED
    BY <1>3, <2>1
<1>5. ASSUME pos # hi PROVE <<pos + 1, Middle(pos + 1, hi), hi>> \in Ranges(n)
  <2>1. pos + 1 \in 1..n /\ pos + 1 <= hi
    BY <1>2, <1>5
  <2> QED
    BY <1>3, <2>1
<1>6. (pos # lo => (pos - 1) - lo < hi - lo) /\ (pos # hi => hi - (pos + 1) < hi - lo)
  BY <1>2
<1> QED
  BY <1>1, <1>2, <1>4, <1>5, <1>6

\* What a call returns depends on narrower ranges only.
LEMMA SearchUses ==
    ASSUME NEW c, NEW offset, NEW n \in Nat, NEW r \in Ranges(n), NEW f, NEW g,
           \A q \in Ranges(n) : q[3] - q[1] < r[3] - r[1] => f[q] = g[q]
    PROVE  SearchAt(c, offset, f, r) = SearchAt(c, offset, g, r)
<1> DEFINE a == <<r[1], Middle(r[1], r[2] - 1), r[2] - 1>>
           b == <<r[2] + 1, Middle(r[2] + 1, r[3]), r[3]>>
<1>1. r[2] # r[1] => f[a] = g[a]
  BY Halves
<1>2. r[2] # r[3] => f[b] = g[b]
  BY Halves
<1> QED
  BY <1>1, <1>2 DEF SearchAt

\* The search of every chunk list is a function ...
LEMMA SearchExists ==
    ASSUME NEW c, Len(c) \in Nat, NEW offset, NEW k \in Nat
    PROVE  \E f : Searches(c, offset, k, f)
<1> DEFINE n == Len(c)
           T == {i \in Nat : ~\E f : Searches(c, offset, i, f)}
<1> SUFFICES ASSUME T # {} PROVE FALSE
  OBVIOUS
<1>1. PICK i \in T : \A y \in T : i <= y
  BY LeastNat
<1>2. i # 0
  <2>1. Narrow(n, 0) = {}
    <3> SUFFICES ASSUME NEW r \in Narrow(n, 0) PROVE FALSE
      OBVIOUS
    <3>1. r \in Ranges(n) /\ r[3] - r[1] < 0
      BY DEF Narrow
    <3> QED
      BY <3>1, RangeWithin
  <2> DEFINE f == [r \in {} |-> 0]
  <2>2. Searches(c, offset, 0, f)
    BY <2>1 DEF Searches
  <2> QED
    BY <2>2
<1>3. PICK j \in Nat : j + 1 = i /\ j \notin T
  <2>1. i - 1 \in Nat /\ (i - 1) + 1 = i /\ i - 1 \notin T
    BY <1>1, <1>2
  <2> QED
    BY <2>1
<1>4. PICK f : Searches(c, offset, j, f)
  BY <1>3
<1> DEFINE g == [r \in Narrow(n, i) |-> SearchAt(c, offset, f, r)]
<1>5. ASSUME NEW r \in Narrow(n, i) PROVE SearchAt(c, offset, f, r) = SearchAt(c, offset, g, r)
  <2>1. r \in Ranges(n) /\ r[3] - r[1] < i /\ r[3] \in Int /\ r[1] \in Int
    BY RangeWithin DEF Narrow
  <2>2. ASSUME NEW q \in Ranges(n), q[3] - q[1] < r[3] - r[1] PROVE f[q] = g[q]
    <3>1. q[3] \in Int /\ q[1] \in Int
      BY RangeWithin
    <3>2. q[3] - q[1] < j /\ q[3] - q[1] < i
      BY <1>3, <2>1, <2>2, <3>1
    <3>3. q \in Narrow(n, j) /\ q \in Narrow(n, i)
      BY <3>2 DEF Narrow
    <3>4. f[q] = SearchAt(c, offset, f, q)
      <4> DEFINE h == [x \in Narrow(n, j) |-> SearchAt(c, offset, f, x)]
      <4>1. f = h
        BY <1>4 DEF Searches
      <4>2. h[q] = SearchAt(c, offset, f, q)
        BY <3>3
      <4> QED
        BY <4>1, <4>2
    <3>5. g[q] = SearchAt(c, offset, f, q)
      BY <3>3
    <3> QED
      BY <3>4, <3>5
  <2> HIDE DEF g
  <2> QED
    BY <2>1, <2>2, SearchUses
<1>6. g = [r \in Narrow(n, i) |-> SearchAt(c, offset, g, r)]
  BY <1>5
<1>7. Searches(c, offset, i, g)
  BY <1>6 DEF Searches
<1> QED
  BY <1>7

\* ... so that a search is a call for all positions, from the middle one.
LEMMA SearchIs ==
    ASSUME NEW c, Len(c) \in Nat \ {0}, c # Empty, NEW offset
    PROVE  \E f : /\ \A r \in Ranges(Len(c)) : f[r] = SearchAt(c, offset, f, r)
                  /\ GetPosForOffset(c, offset) = f[<<1, IF Len(c) = 1 THEN 1 ELSE Len(c) \div 2, Len(c)>>]
<1> DEFINE n == Len(c)
           Search[r \in Ranges(n)] == SearchAt(c, offset, Search, r)
<1>1. GetPosForOffset(c, offset) = Search[<<1, IF n = 1 THEN 1 ELSE n \div 2, n>>]
  BY DEF GetPosForOffset, SearchAt
<1>2. Narrow(n, n) = Ranges(n)
  <2>1. ASSUME NEW r \in Ranges(n) PROVE r[3] - r[1] < n
    BY RangeWithin
  <2> QED
    BY <2>1 DEF Narrow
<1>3. PICK f : f = [r \in Ranges(n) |-> SearchAt(c, offset, f, r)]
  <2>1. \E f : Searches(c, offset, n, f)
    BY SearchExists
  <2> QED
    BY <1>2, <2>1 DEF Searches
<1>4. Search = [r \in Ranges(n) |-> SearchAt(c, offset, Search, r)]
  <2> DEFINE g == CHOOSE g : g = [r \in Ranges(n) |-> SearchAt(c, offset, g, r)]
  <2>1. g = [r \in Ranges(n) |-> SearchAt(c, offset, g, r)]
    BY <1>3
  <2> QED
    BY <2>1
<1> HIDE DEF Search
<1>5. ASSUME NEW r \in Ranges(n) PROVE Search[r] = SearchAt(c, offset, Search, r)
  <2> DEFINE h == [x \in Ranges(n) |-> SearchAt(c, offset, Search, x)]
  <2>1. h[r] = SearchAt(c, offset, Search, r)
    OBVIOUS
  <2> QED
    BY <1>4, <2>1
<1> QED
  BY <1>1, <1>5

\* The offsets that the chunks should have.
InOrder(c) == \A i \in DOMAIN c : c[i].offset = size(SubSeq(c, 1, i - 1))

\* A beginning of a beginning.
LEMMA BeginningOf ==
    ASSUME NEW S, NEW s \in Seq(S), NEW j \in 0..Len(s), NEW i \in 0..j
    PROVE  /\ SubSeq(s, 1, i) \in Seq(S) /\ SubSeq(s, 1, j) \in Seq(S)
           /\ Len(SubSeq(s, 1, i)) = i /\ Len(SubSeq(s, 1, j)) = j
           /\ SubSeq(SubSeq(s, 1, j), 1, i) = SubSeq(s, 1, i)
<1>0. Len(s) \in Nat /\ i \in 0..Len(s)
  BY LenProperties
<1>1. PICK t : t = SubSeq(s, 1, j)
  OBVIOUS
<1>2. t \in Seq(S) /\ Len(t) = j /\ \A k \in 1..j : t[k] = s[k]
  BY <1>0, <1>1, SubSeqProperties
<1>3. /\ SubSeq(s, 1, i) \in Seq(S) /\ Len(SubSeq(s, 1, i)) = i
      /\ \A k \in 1..i : SubSeq(s, 1, i)[k] = s[k]
  BY <1>0, SubSeqProperties
<1>4. /\ SubSeq(t, 1, i) \in Seq(S) /\ Len(SubSeq(t, 1, i)) = i
      /\ \A k \in 1..i : SubSeq(t, 1, i)[k] = t[k]
  BY <1>2, SubSeqProperties
<1>5. SubSeq(t, 1, i) = SubSeq(s, 1, i)
  BY <1>2, <1>3, <1>4, SeqEqual
<1> QED
  BY <1>1, <1>2, <1>3, <1>5

\* The bytes before a chunk are not more than those before a later one, and the bytes up to
\* it are its own and those before it.
LEMMA SizesGrow ==
    ASSUME NEW S, NEW c \in Seq(Chunk(S))
    PROVE  /\ size(SubSeq(c, 1, 0)) = 0 /\ size(SubSeq(c, 1, Len(c))) = size(c)
           /\ \A i \in 0..Len(c) : size(SubSeq(c, 1, i)) \in Nat
           /\ \A i \in 1..Len(c) : size(SubSeq(c, 1, i)) = size(SubSeq(c, 1, i - 1)) + Len(c[i].data)
           /\ \A j \in 0..Len(c), i \in 0..Len(c) : i <= j => size(SubSeq(c, 1, i)) <= size(SubSeq(c, 1, j))
<1>0. Len(c) \in Nat
  BY LenProperties
<1>1. size(SubSeq(c, 1, 0)) = 0
  <2>1. SubSeq(c, 1, 0) = << >>
    BY SubSeqEmpty
  <2> QED
    BY <2>1, BytesEmpty DEF Empty
<1>2. size(SubSeq(c, 1, Len(c))) = size(c)
  <2>1. SubSeq(c, 1, Len(c)) = c
    BY SubSeqFull
  <2> QED
    BY <2>1
<1>3. ASSUME NEW i \in 0..Len(c) PROVE size(SubSeq(c, 1, i)) \in Nat
  BY AfterType, BytesType
<1>4. ASSUME NEW i \in 1..Len(c) PROVE size(SubSeq(c, 1, i)) = size(SubSeq(c, 1, i - 1)) + Len(c[i].data)
  <2>1. /\ SubSeq(c, 1, i - 1) \in Seq(Chunk(S)) /\ c[i] \in Chunk(S)
        /\ Bytes(SubSeq(c, 1, i)) = Bytes(SubSeq(c, 1, i - 1)) \o c[i].data
    BY BytesSplit
  <2>2. Bytes(SubSeq(c, 1, i - 1)) \in Seq(S) /\ c[i].data \in Seq(S)
    BY <2>1, BytesType DEF Chunk
  <2> QED
    BY <2>1, <2>2, ConcatProperties DEF size
<1>5. ASSUME NEW j \in 0..Len(c), NEW i \in 0..Len(c), i <= j
      PROVE  size(SubSeq(c, 1, i)) <= size(SubSeq(c, 1, j))
  <2>1. CASE i = j
    BY <1>3, <2>1
  <2>2. CASE i < j
    <3>1. PICK d \in Seq(Chunk(S)) : d = SubSeq(c, 1, j) /\ Len(d) = j /\ SubSeq(d, 1, i) = SubSeq(c, 1, i)
      <4>1. i \in 0..j
        BY <1>5
      <4> QED
        BY <4>1, BeginningOf
    <3>2. PICK k \in 1..Len(d) : k - 1 = i
      <4>1. i + 1 \in 1..Len(d) /\ (i + 1) - 1 = i
        BY <2>2, <3>1
      <4> QED
        BY <4>1
    <3>3. PICK e \in Seq(Chunk(S)) : Bytes(d) = Bytes(SubSeq(d, 1, i)) \o Bytes(e)
      BY <3>2, BytesCut
    <3>4. PICK a \in Seq(S) : a = Bytes(SubSeq(d, 1, i))
      <4>1. SubSeq(d, 1, i) \in Seq(Chunk(S))
        BY <3>1, AfterType
      <4> QED
        BY <4>1, BytesType
    <3>5. Bytes(e) \in Seq(S)
      BY BytesType
    <3>6. Len(a \o Bytes(e)) = Len(a) + Len(Bytes(e)) /\ Len(a) \in Nat /\ Len(Bytes(e)) \in Nat
      BY <3>4, <3>5, ConcatProperties, LenProperties
    <3>7. size(SubSeq(c, 1, j)) = Len(a \o Bytes(e)) /\ size(SubSeq(c, 1, i)) = Len(a)
      BY <3>1, <3>3, <3>4 DEF size
    <3> QED
      BY <3>6, <3>7
  <2> QED
    BY <1>5, <2>1, <2>2
<1> QED
  BY <1>1, <1>2, <1>3, <1>4, <1>5

\* The chunk that an offset is in.
Holds(c, k, offset) ==
    k \in 1..Len(c) /\ size(SubSeq(c, 1, k - 1)) <= offset /\ offset < size(SubSeq(c, 1, k))

\* Every offset within the size is in one.
LEMMA SomeHolds ==
    ASSUME NEW S, NEW c \in Seq(Chunk(S)), NEW offset \in Nat, offset < size(c)
    PROVE  \E k : Holds(c, k, offset)
<1> DEFINE T == {i \in 0..Len(c) : offset < size(SubSeq(c, 1, i))}
<1>0. Len(c) \in Nat
  BY LenProperties
<1>1. Len(c) \in T
  BY <1>0, SizesGrow
<1>2. T \subseteq Nat
  BY <1>0
<1>3. PICK k \in T : \A y \in T : k <= y
  BY <1>1, <1>2, LeastNat
<1>4. k # 0
  BY <1>3, SizesGrow
<1>5. k \in 1..Len(c) /\ k - 1 \in 0..Len(c) /\ k - 1 \notin T
  BY <1>0, <1>3, <1>4
<1>6. size(SubSeq(c, 1, k - 1)) \in Nat
  BY <1>5, SizesGrow
<1>7. size(SubSeq(c, 1, k - 1)) <= offset
  BY <1>5, <1>6
<1>8. Holds(c, k, offset)
  BY <1>3, <1>5, <1>7 DEF Holds
<1> QED
  BY <1>8

\* I_Chunk_GetPosForOffset finds it when the chunks have the right offsets.
LEMMA SearchFinds ==
    ASSUME NEW S, NEW c \in Seq(Chunk(S)), InOrder(c), NEW offset \in Nat, NEW k, Holds(c, k, offset)
    PROVE  GetPosForOffset(c, offset) = k
<1>1. PICK n \in Nat : n = Len(c) /\ k \in 1..n /\ n # 0
  <2>1. Len(c) \in Nat /\ k \in 1..Len(c)
    BY LenProperties DEF Holds
  <2> QED
    BY <2>1
<1>2. c # Empty
  BY <1>1 DEF Empty
<1>3. PICK f : /\ \A r \in Ranges(n) : f[r] = SearchAt(c, offset, f, r)
               /\ GetPosForOffset(c, offset) = f[<<1, IF n = 1 THEN 1 ELSE n \div 2, n>>]
  BY <1>1, <1>2, SearchIs
<1>4. ASSUME NEW p \in 1..n
      PROVE  /\ c[p].offset \in Nat /\ nextOffset(c[p]) \in Nat
             /\ (c[p].offset <= offset /\ offset < nextOffset(c[p])) => p = k
             /\ offset < c[p].offset => k < p
             /\ (~(offset < c[p].offset) /\ ~(offset < nextOffset(c[p]))) => p < k
  <2>1. PICK a, b \in Nat : a = size(SubSeq(c, 1, p - 1)) /\ b = size(SubSeq(c, 1, p))
    <3>1. p - 1 \in 0..Len(c) /\ p \in 0..Len(c)
      BY <1>1
    <3> QED
      BY <3>1, SizesGrow
  <2>2. c[p].offset = a /\ nextOffset(c[p]) = b /\ a <= b
    <3>1. c[p].offset = a
      BY <1>1, <2>1 DEF InOrder
    <3>2. b = a + Len(c[p].data)
      BY <1>1, <2>1, SizesGrow
    <3>3. p - 1 \in 0..Len(c) /\ p \in 0..Len(c) /\ p - 1 <= p
      BY <1>1
    <3>4. a <= b
      BY <2>1, <3>3, SizesGrow
    <3> QED
      BY <3>1, <3>2, <3>4 DEF nextOffset
  <2>3. PICK x, y \in Nat : x = size(SubSeq(c, 1, k - 1)) /\ y = size(SubSeq(c, 1, k)) /\ x <= offset /\ offset < y
    <3>1. k - 1 \in 0..Len(c) /\ k \in 0..Len(c)
      BY <1>1
    <3>2. size(SubSeq(c, 1, k - 1)) \in Nat /\ size(SubSeq(c, 1, k)) \in Nat
      BY <3>1, SizesGrow
    <3> QED
      BY <3>2 DEF Holds
  <2>4. (p < k => b <= x) /\ (k < p => y <= a)
    <3>1. p \in 0..Len(c) /\ k \in 0..Len(c) /\ p - 1 \in 0..Len(c) /\ k - 1 \in 0..Len(c)
      BY <1>1
    <3>2. (p <= k - 1 => size(SubSeq(c, 1, p)) <= size(SubSeq(c, 1, k - 1)))
      BY <3>1, SizesGrow
    <3>3. (k <= p - 1 => size(SubSeq(c, 1, k)) <= size(SubSeq(c, 1, p - 1)))
      BY <3>1, SizesGrow
    <3>4. (p < k => p <= k - 1) /\ (k < p => k <= p - 1)
      BY <1>1
    <3> QED
      BY <2>1, <2>3, <3>2, <3>3, <3>4
  <2>5. p = k => a = x /\ b = y
    BY <2>1, <2>3
  <2> QED
    <3>1. p = k \/ p < k \/ k < p
      BY <1>1
    <3>2. CASE p = k
      BY <2>2, <2>3, <2>5, <3>2
    <3>3. CASE p < k
      <4>1. ~(k < p)
        BY <1>1, <3>3
      <4> QED
        BY <2>2, <2>3, <2>4, <3>3, <4>1
    <3>4. CASE k < p
      <4>1. ~(p < k)
        BY <1>1, <3>4
      <4> QED
        BY <2>2, <2>3, <2>4, <3>4, <4>1
    <3> QED
      BY <3>1, <3>2, <3>3, <3>4
<1> DEFINE T == {m \in Nat : \E r \in Ranges(n) : r[1] <= k /\ k <= r[3] /\ r[3] - r[1] = m /\ f[r] # k}
<1>5. T = {}
  <2> SUFFICES ASSUME T # {} PROVE FALSE
    OBVIOUS
  <2>1. PICK m \in T : \A y \in T : m <= y
    BY LeastNat
  <2>2. PICK r \in Ranges(n) : r[1] <= k /\ k <= r[3] /\ r[3] - r[1] = m /\ f[r] # k
    BY <2>1
  <2>3. PICK lo, pos, hi \in 1..n : lo = r[1] /\ pos = r[2] /\ hi = r[3] /\ lo <= pos /\ pos <= hi
    BY RangeWithin
  <2>4. ASSUME NEW q \in Ranges(n), q[3] - q[1] < r[3] - r[1], q[1] <= k, k <= q[3] PROVE f[q] = k
    <3>1. q[3] \in Nat /\ q[1] \in Nat /\ q[1] <= q[3]
      BY RangeWithin
    <3>2. PICK j \in Nat : j = q[3] - q[1]
      BY <3>1
    <3>3. j < m
      BY <2>2, <2>4, <3>2
    <3>4. j \notin T
      BY <2>1, <3>3
    <3> QED
      BY <2>4, <3>2, <3>4
  <2>5. pos # lo => LET q == <<lo, Middle(lo, pos - 1), pos - 1>>
                    IN  q \in Ranges(n) /\ q[3] - q[1] < r[3] - r[1]
    BY <2>3, Halves
  <2>6. pos # hi => LET q == <<pos + 1, Middle(pos + 1, hi), hi>>
                    IN  q \in Ranges(n) /\ q[3] - q[1] < r[3] - r[1]
    BY <2>3, Halves
  <2>7. f[r] = IF c[pos].offset <= offset /\ offset < nextOffset(c[pos]) THEN pos
               ELSE IF offset < c[pos].offset
               THEN IF pos = lo THEN 0 ELSE f[<<lo, Middle(lo, pos - 1), pos - 1>>]
               ELSE IF pos = hi THEN 0 ELSE f[<<pos + 1, Middle(pos + 1, hi), hi>>]
    BY <1>3, <2>3 DEF SearchAt
  <2>8. /\ c[pos].offset \in Nat /\ nextOffset(c[pos]) \in Nat
        /\ (c[pos].offset <= offset /\ offset < nextOffset(c[pos])) => pos = k
        /\ offset < c[pos].offset => k < pos
        /\ (~(offset < c[pos].offset) /\ ~(offset < nextOffset(c[pos]))) => pos < k
    BY <1>4
  <2>9. CASE k < pos
    <3> DEFINE q == <<lo, Middle(lo, pos - 1), pos - 1>>
    <3>1. pos # lo
      BY <1>1, <2>2, <2>3, <2>9
    <3>2. q \in Ranges(n) /\ q[3] - q[1] < r[3] - r[1] /\ q[1] = lo /\ q[3] = pos - 1
      BY <2>5, <3>1
    <3>3. lo <= k /\ k <= pos - 1
      BY <1>1, <2>2, <2>3, <2>9
    <3>4. f[q] = k
      BY <2>4, <3>2, <3>3
    <3>5. f[r] = f[q]
      BY <1>1, <2>7, <2>8, <2>9, <3>1
    <3> QED
      BY <2>2, <3>4, <3>5
  <2>10. CASE pos < k
    <3> DEFINE q == <<pos + 1, Middle(pos + 1, hi), hi>>
    <3>1. pos # hi
      BY <1>1, <2>2, <2>3, <2>10
    <3>2. q \in Ranges(n) /\ q[3] - q[1] < r[3] - r[1] /\ q[1] = pos + 1 /\ q[3] = hi
      BY <2>6, <3>1
    <3>3. pos + 1 <= k /\ k <= hi
      BY <1>1, <2>2, <2>3, <2>10
    <3>4. f[q] = k
      BY <2>4, <3>2, <3>3
    <3>5. f[r] = f[q]
      BY <1>1, <2>7, <2>8, <2>10, <3>1
    <3> QED
      BY <2>2, <3>4, <3>5
  <2>11. CASE pos = k
    BY <2>2, <2>7, <2>8, <2>11
  <2> QED
    BY <1>1, <2>9, <2>10, <2>11
<1> DEFINE r == <<1, IF n = 1 THEN 1 ELSE n \div 2, n>>
<1>6. r \in Ranges(n) /\ r[1] = 1 /\ r[3] = n
  <2>1. PICK m \in 1..n : m = IF n = 1 THEN 1 ELSE n \div 2
    <3>1. n # 1 => n \div 2 \in 1..n
      BY <1>1
    <3> QED
      BY <1>1, <3>1
  <2>2. <<1, m, n>> \in Ranges(n)
    BY <1>1, <2>1 DEF Ranges
  <2> QED
    BY <2>1, <2>2
<1>7. n - 1 \in Nat /\ n - 1 \notin T
  <2> HIDE DEF T
  <2> QED
    BY <1>1, <1>5
<1>8. f[r] = k
  BY <1>1, <1>6, <1>7
<1> QED
  BY <1>3, <1>8

\* So the last bytes are read as they are.
LEMMA CopiesLast ==
    ASSUME NEW S, NEW c \in Seq(Chunk(S)), InOrder(c), NEW v \in 1..size(c)
    PROVE  copyToBuffer2(c, v, size(c) - v) = After(Bytes(c), size(c) - v)
<1>1. PICK b \in Seq(S) : b = Bytes(c) /\ size(c) = Len(b) /\ size(c) \in Nat
  BY BytesType
<1>2. PICK o \in Nat : o = size(c) - v /\ o < size(c)
  <2>1. size(c) - v \in Nat /\ size(c) - v < size(c)
    BY <1>1
  <2> QED
    BY <2>1
<1>3. PICK k : Holds(c, k, o)
  BY <1>2, SomeHolds
<1>4. GetPosForOffset(c, o) = k
  BY <1>3, SearchFinds
<1>5. k \in 1..Len(c) /\ k # 0
  BY <1>3 DEF Holds
<1>6. PICK x, y \in Seq(S) : x = Bytes(SubSeq(c, 1, k - 1)) /\ y = Bytes(SubSeq(c, k, Len(c))) /\ b = x \o y
  <2>1. SubSeq(c, k, Len(c)) \in Seq(Chunk(S)) /\ Bytes(c) = Bytes(SubSeq(c, 1, k - 1)) \o Bytes(SubSeq(c, k, Len(c)))
    BY <1>5, BytesCut
  <2>2. SubSeq(c, 1, k - 1) \in Seq(Chunk(S))
    BY <1>5, BytesSplit
  <2> QED
    BY <1>1, <2>1, <2>2, BytesType
<1>7. c[k].offset = Len(x) /\ Len(x) <= o
  BY <1>3, <1>5, <1>6 DEF InOrder, Holds, size
<1>8. Len(x) \in Nat /\ Len(y) \in Nat /\ Len(b) = Len(x) + Len(y)
  BY <1>6, ConcatProperties, LenProperties
<1>9. PICK m \in 0..Len(y) : m = o - c[k].offset /\ o = Len(x) + m
  <2>1. o - Len(x) \in 0..Len(y) /\ o = Len(x) + (o - Len(x))
    BY <1>1, <1>2, <1>7, <1>8
  <2> QED
    BY <1>7, <2>1
<1>10. After(b, o) = After(y, m)
  BY <1>6, <1>9, AfterConcat
<1>11. PICK t \in Seq(S) : t = After(y, m) /\ Len(t) = v
  <2>1. After(b, o) \in Seq(S) /\ Len(After(b, o)) = Len(b) - o
    BY <1>1, <1>2, AfterType
  <2> QED
    BY <1>1, <1>2, <1>10, <2>1
<1>12. SubSeq(t, 1, Len(t)) = t
  BY <1>11, SubSeqFull
<1>13. copyToBuffer2(c, v, o) = SubSeq(t, 1, IF v < Len(t) THEN v ELSE Len(t))
  BY <1>4, <1>5, <1>6, <1>9, <1>11 DEF copyToBuffer2
<1> QED
  BY <1>1, <1>2, <1>10, <1>11, <1>12, <1>13

\* append2 gives the new chunk its offset.
LEMMA AppendInOrder ==
    ASSUME NEW S, NEW c \in Seq(Chunk(S)), InOrder(c), NEW data \in Seq(S)
    PROVE  InOrder(append2(c, data))
<1> DEFINE n == Len(c)
           a == [data |-> data, offset |-> IF c = Empty THEN 0 ELSE nextOffset(Last(c))]
           e == Append(c, a)
<1>1. n \in Nat /\ append2(c, data) = e
  BY LenProperties DEF append2
<1>2. e \in Seq(Chunk(S)) /\ Len(e) = n + 1 /\ e[n + 1] = a /\ \A i \in 1..n : e[i] = c[i]
  <2>1. e \in Seq(Chunk(S))
    BY <1>1, AppendBytes
  <2> HIDE DEF a
  <2> QED
    BY <1>1, <2>1, AppendProperties
<1>3. a.offset = size(c)
  <2>1. CASE c = Empty
    BY <2>1, BytesEmpty
  <2>2. CASE c # Empty
    <3>1. n \in 1..n /\ Last(c) = c[n]
      BY <1>1, <2>2, EmptySeq DEF Last, Empty
    <3>2. c[n].offset = size(SubSeq(c, 1, n - 1))
      BY <3>1 DEF InOrder
    <3>3. size(SubSeq(c, 1, n)) = size(SubSeq(c, 1, n - 1)) + Len(c[n].data) /\ size(SubSeq(c, 1, n)) = size(c)
      BY <3>1, SizesGrow
    <3> QED
      BY <2>2, <3>1, <3>2, <3>3 DEF nextOffset
  <2> QED
    BY <2>1, <2>2
<1> HIDE DEF a, e
<1>4. ASSUME NEW i \in 0..n PROVE SubSeq(e, 1, i) = SubSeq(c, 1, i)
  <2>1. /\ SubSeq(c, 1, i) \in Seq(Chunk(S)) /\ Len(SubSeq(c, 1, i)) = i
        /\ \A k \in 1..i : SubSeq(c, 1, i)[k] = c[k]
    BY <1>1, SubSeqProperties
  <2>2. /\ SubSeq(e, 1, i) \in Seq(Chunk(S)) /\ Len(SubSeq(e, 1, i)) = i
        /\ \A k \in 1..i : SubSeq(e, 1, i)[k] = e[k]
    BY <1>1, <1>2, SubSeqProperties
  <2> QED
    BY <1>1, <1>2, <2>1, <2>2, SeqEqual
<1>5. ASSUME NEW i \in 1..(n + 1) PROVE e[i].offset = size(SubSeq(e, 1, i - 1))
  <2>1. i - 1 \in 0..n /\ SubSeq(e, 1, i - 1) = SubSeq(c, 1, i - 1)
    BY <1>1, <1>4
  <2>2. CASE i = n + 1
    <3>1. size(SubSeq(c, 1, n)) = size(c)
      BY SizesGrow
    <3>2. i - 1 = n
      BY <1>1, <2>2
    <3> QED
      BY <1>2, <1>3, <2>1, <2>2, <3>1, <3>2
  <2>3. CASE i # n + 1
    <3>1. i \in DOMAIN c /\ e[i] = c[i]
      BY <1>1, <1>2, <2>3
    <3> QED
      BY <2>1, <3>1 DEF InOrder
  <2> QED
    BY <2>2, <2>3
<1> QED
  BY <1>1, <1>2, <1>5 DEF InOrder

\* So does appendToUnparsedBuffer.
LEMMA FitsInOrder ==
    ASSUME NEW S, NEW sp, SubParserOK(sp, S), InOrder(sp.buf), NEW data \in Seq(S), ~NoRoom(sp, data)
    PROVE  InOrder(appendToUnparsedBuffer(sp, data).buf)
<1>1. sp \in SubParsers(S) /\ sp.buf \in Seq(Chunk(S))
  BY DEF SubParserOK, SubParsers
<1>2. Fits(sp, data) \in 0..Len(data)
  BY AppendFits
<1>3. SubSeq(data, 1, Fits(sp, data)) \in Seq(S)
  BY <1>2, AfterType
<1>4. InOrder(append2(sp.buf, SubSeq(data, 1, Fits(sp, data))))
  BY <1>1, <1>3, AppendInOrder
<1> QED
  BY <1>1, <1>4 DEF appendToUnparsedBuffer, SubParsers

\* A piece p of b, when d is not in b and no longer end of b begins it than what is kept, ends
\* before any d in what b begins.
StopsBefore(S, b, p, z, x, y, d) ==
    (/\ b \in Seq(S) /\ z \in Seq(S) /\ x \in Seq(S) /\ y \in Seq(S) /\ d \in Seq(S) /\ p \in 0..Len(b)
     /\ \A i \in Nat : ~OccursAt(b, d, i)
     /\ \A u \in 1..(Len(d) - 1) :
            (u <= Len(b) /\ After(b, Len(b) - u) = SubSeq(d, 1, u)) => p + u <= Len(b)
     /\ b \o z = (x \o d) \o y)
    => p <= Len(x)

\* It is so for all of them.
LEMMA AlwaysStopsBefore == \A S, b, p, z, x, y, d : StopsBefore(S, b, p, z, x, y, d)
<1> TAKE S, b, p, z, x, y, d
<1> SUFFICES
      ASSUME b \in Seq(S), z \in Seq(S), x \in Seq(S), y \in Seq(S), d \in Seq(S), p \in 0..Len(b),
             \A i \in Nat : ~OccursAt(b, d, i),
             \A u \in 1..(Len(d) - 1) :
                (u <= Len(b) /\ After(b, Len(b) - u) = SubSeq(d, 1, u)) => p + u <= Len(b),
             b \o z = (x \o d) \o y, ~(p <= Len(x))
      PROVE  FALSE
  BY Zenon DEF StopsBefore
<1> DEFINE e == b \o z
           xd == x \o d
<1>1. /\ Len(b) \in Nat /\ Len(x) \in Nat /\ Len(d) \in Nat /\ Len(z) \in Nat /\ Len(y) \in Nat
      /\ \A i \in 1..Len(b) : e[i] = b[i]
  BY LenProperties, ConcatProperties
<1>2. xd \in Seq(S) /\ Len(xd) = Len(x) + Len(d) /\ \A j \in 1..Len(d) : xd[Len(x) + j] = d[j]
  <2>1. /\ xd \in Seq(S) /\ Len(xd) = Len(x) + Len(d)
        /\ \A i \in 1..Len(xd) : xd[i] = IF i <= Len(x) THEN x[i] ELSE d[i - Len(x)]
    BY ConcatProperties
  <2> HIDE DEF xd
  <2>2. ASSUME NEW j \in 1..Len(d) PROVE xd[Len(x) + j] = d[j]
    <3>1. Len(x) + j \in 1..Len(xd) /\ ~(Len(x) + j <= Len(x)) /\ (Len(x) + j) - Len(x) = j
      BY <1>1, <2>1
    <3> QED
      BY <2>1, <3>1
  <2> QED
    BY <2>1, <2>2
<1>3. \A i \in 1..Len(xd) : e[i] = xd[i]
  <2> HIDE DEF xd
  <2>1. \A i \in 1..Len(xd) : (xd \o y)[i] = xd[i]
    BY <1>1, <1>2, ConcatProperties
  <2> QED
    BY <2>1 DEF xd
<1> HIDE DEF e, xd
<1>4. PICK u \in Nat : u = Len(b) - Len(x) /\ u >= 1
  <2>1. Len(b) - Len(x) \in Nat /\ Len(b) - Len(x) >= 1
    BY <1>1
  <2> QED
    BY <2>1
<1>5. ASSUME NEW j \in Nat, 1 <= j, j <= u, j <= Len(d) PROVE b[Len(x) + j] = d[j]
  <2>1. Len(x) + j \in 1..Len(b) /\ Len(x) + j \in 1..Len(xd) /\ j \in 1..Len(d)
    BY <1>1, <1>2, <1>4, <1>5
  <2> QED
    BY <1>1, <1>2, <1>3, <2>1
<1>6. CASE Len(d) <= u
  <2>1. Len(x) + Len(d) <= Len(b)
    BY <1>1, <1>4, <1>6
  <2>2. SubSeq(b, Len(x) + 1, Len(x) + Len(d)) = d
    <3> DEFINE s == SubSeq(b, Len(x) + 1, Len(x) + Len(d))
    <3>1. /\ s \in Seq(S) /\ Len(s) = Len(d) /\ \A j \in 1..Len(d) : s[j] = b[Len(x) + j]
      <4>1. CASE Len(d) = 0
        <5>1. s = << >>
          BY <1>1, <4>1, SubSeqEmpty
        <5> QED
          BY <4>1, <5>1
      <4>2. CASE Len(d) # 0
        <5>1. PICK m, n \in 1..Len(b) : m = Len(x) + 1 /\ n = Len(x) + Len(d) /\ m <= n /\ n - m + 1 = Len(d)
          <6>1. Len(x) + 1 \in 1..Len(b) /\ Len(x) + Len(d) \in 1..Len(b) /\ Len(x) + 1 <= Len(x) + Len(d)
            BY <1>1, <2>1, <4>2
          <6>2. (Len(x) + Len(d)) - (Len(x) + 1) + 1 = Len(d)
            BY <1>1
          <6> QED
            BY <6>1, <6>2
        <5>2. /\ SubSeq(b, m, n) \in Seq(S) /\ Len(SubSeq(b, m, n)) = n - m + 1
              /\ \A i \in 1..(n - m + 1) : SubSeq(b, m, n)[i] = b[m + i - 1]
          BY <5>1, SubSeqProperties
        <5>3. \A i \in 1..Len(d) : m + i - 1 = Len(x) + i
          BY <1>1, <5>1
        <5> QED
          BY <5>1, <5>2, <5>3
      <4> QED
        BY <4>1, <4>2
    <3>2. \A j \in 1..Len(d) : s[j] = d[j]
      BY <1>1, <1>5, <1>6, <3>1
    <3> HIDE DEF s
    <3>3. s = d
      BY <3>1, <3>2, SeqEqual
    <3> QED
      BY <3>3 DEF s
  <2>3. OccursAt(b, d, Len(x))
    BY <1>1, <2>1, <2>2 DEF OccursAt
  <2> QED
    BY <1>1, <2>3
<1>7. CASE u < Len(d)
  <2>1. u \in 1..(Len(d) - 1) /\ u <= Len(b) /\ Len(b) - u = Len(x) /\ Len(x) \in 0..Len(b)
    BY <1>1, <1>4, <1>7
  <2>2. PICK s \in Seq(S) : s = After(b, Len(x)) /\ Len(s) = u /\ \A j \in 1..u : s[j] = b[Len(x) + j]
    <3>1. /\ After(b, Len(x)) \in Seq(S) /\ Len(After(b, Len(x))) = Len(b) - Len(x)
          /\ \A i \in 1..(Len(b) - Len(x)) : After(b, Len(x))[i] = b[Len(x) + i]
      BY <2>1, AfterType
    <3> QED
      BY <1>4, <3>1
  <2>3. PICK t \in Seq(S) : t = SubSeq(d, 1, u) /\ Len(t) = u /\ \A j \in 1..u : t[j] = d[j]
    <3>1. u \in 0..Len(d)
      BY <1>1, <1>7
    <3>2. /\ SubSeq(d, 1, u) \in Seq(S) /\ Len(SubSeq(d, 1, u)) = u
          /\ \A j \in 1..u : SubSeq(d, 1, u)[j] = d[j]
      BY <3>1, SubSeqProperties
    <3> QED
      BY <3>2
  <2>4. s = t
    <3>1. ASSUME NEW j \in 1..u PROVE s[j] = t[j]
      <4>1. j \in Nat /\ 1 <= j /\ j <= u /\ j <= Len(d)
        BY <1>1, <1>7
      <4> QED
        BY <1>5, <2>2, <2>3, <4>1
    <3> QED
      BY <2>2, <2>3, <3>1, SeqEqual
  <2>5. p + u <= Len(b)
    BY <2>1, <2>2, <2>3, <2>4
  <2> QED
    BY <1>1, <1>4, <2>5
<1> QED
  BY <1>1, <1>4, <1>6, <1>7

\* What a part's content hands over, when the offsets are right: the bytes before the first
\* delimiter, or bytes that no delimiter of the stream has begun in.
CutDirectDelimiter(S, sp, data, r) ==
    /\ r.parses = TRUE
    /\ \/ r.sub.found = sp.delims[1] /\ Ends(r.piece, sp.delims[1])
       \/ /\ r.sub.found = << >>
          /\ \A z, x, y \in Seq(S) :
                (Bytes(sp.buf) \o data) \o z = (x \o sp.delims[1]) \o y => Len(r.piece) <= Len(x)

\* parseDirectDelimiter cuts there.
LEMMA DirectDelimiterCuts ==
    ASSUME NEW S, NEW sp, SubParserOK(sp, S), sp.mode = "directDelimiter", InOrder(sp.buf),
           NEW data \in Seq(S), ~NoRoom(sp, data), NEW r \in parseDirectDelimiter(sp, data)
    PROVE  CutDirectDelimiter(S, sp, data, r)
<1> DEFINE F == Fits(sp, data)
           full == [appendToUnparsedBuffer(sp, data) EXCEPT !.found = << >>]
           delim == sp.delims[1]
           pos == find(full.buf, delim)
           found == [full EXCEPT !.found = delim]
           Keeping(v) ==
               [full EXCEPT !.buf = IF v = 0 THEN Empty ELSE displace2(@, size(full.buf) - v)]
<1>1. /\ sp \in SubParsers(S) /\ sp.buf \in Seq(Chunk(S)) /\ sp.delims \in Seq(Seq(S))
      /\ Len(sp.delims) = 1
  BY DEF SubParserOK, SubParsers
<1>2. PICK d \in Seq(S) : d = delim /\ Len(d) \in Nat
  <2>1. 1 \in 1..Len(sp.delims)
    BY <1>1
  <2> QED
    BY <1>1, <2>1, ElementOfSeq, LenProperties
<1>3. F \in 0..Len(data)
  BY AppendFits
<1>4. PICK c \in Seq(Chunk(S)) :
        /\ appendToUnparsedBuffer(sp, data) = [sp EXCEPT !.buf = c]
        /\ Bytes(c) = Bytes(sp.buf) \o SubSeq(data, 1, F)
        /\ size(c) <= sp.max
  BY AppendFits
<1>5. /\ full \in SubParsers(S) /\ full.buf = c /\ full.found = << >>
  <2>1. full = [[sp EXCEPT !.buf = c] EXCEPT !.found = << >>]
    BY <1>4
  <2> HIDE DEF full
  <2>2. << >> \in Seq(S)
    OBVIOUS
  <2> QED
    BY <1>1, <2>1, <2>2 DEF SubParsers
<1>6. InOrder(c)
  <2>1. appendToUnparsedBuffer(sp, data).buf = c
    BY <1>1, <1>4 DEF SubParsers
  <2> QED
    BY <2>1, FitsInOrder
<1>7. parseDirectDelimiter(sp, data) =
        IF pos # NotFound
        THEN {Parses(Taken(pos, delim, size(sp.buf)), SubSeq(Bytes(full.buf), 1, pos),
                     found, Cleared(found))}
        ELSE {Parses(F, SubSeq(Bytes(full.buf), 1, size(full.buf) - v), full, Keeping(v)) :
                v \in getLastBytesInCommon(full.buf, delim)}
  BY DEF parseDirectDelimiter
<1> HIDE DEF F, full
<1>8. CASE pos # NotFound
  <2> DEFINE t == Taken(find(c, d), d, size(sp.buf))
             piece == SubSeq(Bytes(c), 1, find(c, d))
             w == [full EXCEPT !.found = d]
  <2>1. r = Parses(t, piece, w, Cleared(w))
    BY <1>2, <1>5, <1>7, <1>8
  <2>2. find(c, d) # NotFound
    BY <1>2, <1>5, <1>8
  <2>3. Ends(piece, d)
    BY <2>2, FirstEnds
  <2>4. Cleared(w).found = d
    BY <1>5 DEF Cleared, SubParsers
  <2> HIDE DEF t, piece, w
  <2>5. r.parses = TRUE /\ r.piece = piece /\ r.sub = Cleared(w)
    BY <2>1 DEF Parses, Buffered, Failed
  <2> QED
    BY <1>2, <2>3, <2>4, <2>5 DEF CutDirectDelimiter
<1>9. CASE pos = NotFound
  <2>1. PICK v \in getLastBytesInCommon(c, d) :
          r = Parses(F, SubSeq(Bytes(c), 1, size(c) - v), full, Keeping(v))
    BY <1>2, <1>5, <1>7, <1>9
  <2>2. PICK b \in Seq(S) : b = Bytes(c) /\ size(c) = Len(b) /\ Len(b) \in Nat
    BY BytesType
  <2>3. v \in 0..Len(b)
    <3>1. v \in 0..Min2(size(c), Len(d) - 1)
      BY DEF getLastBytesInCommon
    <3> QED
      BY <1>2, <2>2, <3>1 DEF Min2
  <2>4. PICK p \in 0..Len(b) : p = size(c) - v /\ p + v = Len(b)
    <3>1. size(c) - v \in 0..Len(b) /\ (size(c) - v) + v = Len(b)
      BY <2>2, <2>3
    <3> QED
      BY <3>1
  <2>5. ASSUME NEW i \in Nat PROVE ~OccursAt(b, d, i)
    BY <1>2, <1>5, <1>9, <2>2, FindIs
  <2>6. ASSUME NEW u \in 1..(Len(d) - 1), u <= Len(b), After(b, Len(b) - u) = SubSeq(d, 1, u)
        PROVE  p + u <= Len(b)
    <3> SUFFICES ASSUME v < u PROVE FALSE
      BY <1>2, <2>2, <2>3, <2>4
    <3>1. copyToBuffer2(c, u, size(c) - u) = SubSeq(d, 1, u)
      <4>1. u \in 1..size(c)
        BY <1>2, <2>2, <2>6
      <4>2. copyToBuffer2(c, u, size(c) - u) = After(Bytes(c), size(c) - u)
        BY <1>6, <4>1, CopiesLast
      <4> QED
        BY <2>2, <2>6, <4>2
    <3>2. u \in (v + 1)..Min2(size(c), Len(d) - 1)
      BY <1>2, <2>2, <2>3, <2>6 DEF Min2
    <3>3. ~(Len(copyToBuffer2(c, u, size(c) - u)) = u /\ MayMatch(copyToBuffer2(c, u, size(c) - u), u, d))
      BY <3>2 DEF getLastBytesInCommon
    <3>4. Len(SubSeq(d, 1, u)) = u
      <4>1. u \in 0..Len(d)
        BY <1>2, <2>6
      <4> QED
        BY <4>1, AfterType
    <3>5. ~(Len(SubSeq(d, 1, u)) = u /\ MayMatch(SubSeq(d, 1, u), u, d))
      BY <3>1, <3>3
    <3>6. u <= u
      BY <1>2
    <3> QED
      BY <3>4, <3>5, <3>6 DEF MayMatch
  <2>7. r.parses = TRUE /\ r.piece = SubSeq(b, 1, p) /\ r.sub = Keeping(v)
    <3> DEFINE k == Keeping(v)
    <3> HIDE DEF k
    <3>1. r = Parses(F, SubSeq(b, 1, p), full, k)
      BY <2>1, <2>2, <2>4 DEF k
    <3>2. r.parses = TRUE /\ r.piece = SubSeq(b, 1, p) /\ r.sub = k
      BY <3>1 DEF Parses, Buffered, Failed
    <3> QED
      BY <3>2 DEF k
  <2>8. r.sub.found = << >>
    <3>1. Keeping(v).found = << >>
      BY <1>5 DEF SubParsers
    <3> QED
      BY <2>7, <3>1
  <2>9. Len(r.piece) = p
    BY <2>7, AfterType
  <2>10. ASSUME NEW z \in Seq(S), NEW x \in Seq(S), NEW y \in Seq(S),
                (Bytes(sp.buf) \o data) \o z = (x \o d) \o y
         PROVE  p <= Len(x)
    <3>1. PICK a \in Seq(S) : a = Bytes(sp.buf)
      BY <1>1, BytesType
    <3>2. PICK g, h \in Seq(S) : g = SubSeq(data, 1, F) /\ h = After(data, F) /\ g \o h = data
      <4>1. /\ SubSeq(data, 1, F) \in Seq(S) /\ After(data, F) \in Seq(S)
            /\ SubSeq(data, 1, F) \o After(data, F) = data
        BY <1>3, AfterType
      <4> QED
        BY <4>1
    <3>3. b = a \o g /\ a \o data = b \o h
      <4>1. (a \o g) \o h = a \o (g \o h)
        <5>1. Assoc(S, a, g, h)
          BY AlwaysAssoc
        <5> QED
          BY <5>1 DEF Assoc
      <4> QED
        BY <1>4, <2>2, <3>1, <3>2, <4>1
    <3>4. (b \o h) \o z = b \o (h \o z) /\ h \o z \in Seq(S)
      <4>1. Assoc(S, b, h, z)
        BY AlwaysAssoc
      <4> QED
        BY <4>1, ConcatProperties DEF Assoc
    <3>5. PICK q \in Seq(S) : q = h \o z
      BY <3>4
    <3>6. b \o q = (x \o d) \o y
      BY <2>10, <3>1, <3>3, <3>4, <3>5
    <3>7. StopsBefore(S, b, p, q, x, y, d)
      BY AlwaysStopsBefore
    <3> QED
      BY <1>2, <2>4, <2>5, <2>6, <3>5, <3>6, <3>7, Zenon DEF StopsBefore
  <2> QED
    BY <1>2, <2>7, <2>8, <2>9, <2>10 DEF CutDirectDelimiter
<1> QED
  BY <1>8, <1>9

\* A write in PARSE_MODE_DIRECT_DELIMITER (the content of a MIME part) that does not fail,
\* while the offsets of the chunks are right: it hands over what comes before the first
\* delimiter, or bytes in which no delimiter begins, whatever the later writes bring.
THEOREM ContentCuts ==
    ASSUME NEW S, NEW sp, SubParserOK(sp, S), sp.mode = "directDelimiter", InOrder(sp.buf),
           NEW data \in Seq(S), NEW r \in writeIntoParser(sp, data), r.ok = TRUE
    PROVE  CutDirectDelimiter(S, sp, data, r)
<1> DEFINE x == [sp EXCEPT !.ended = @ \/ data = << >>]
<1>1. sp \in SubParsers(S) /\ sp.ended \in BOOLEAN /\ sp.mode \in Modes
  BY DEF SubParserOK, SubParsers
<1>2. /\ x \in SubParsers(S) /\ x.mode = sp.mode /\ x.delims = sp.delims /\ x.max = sp.max
      /\ x.buf = sp.buf /\ x.found = sp.found
  <2>1. PICK e \in BOOLEAN : e = (sp.ended \/ data = << >>)
    OBVIOUS
  <2>2. x = [sp EXCEPT !.ended = e]
    BY <2>1
  <2> HIDE DEF x
  <2> QED
    BY <1>1, <2>2 DEF SubParsers
<1>3. writeIntoParser(sp, data) =
        IF NoRoom(x, data) THEN {Failed(x)}
        ELSE CASE x.mode = "delimiter" -> {parseByDelimiter(x, data)}
               [] x.mode = "size" -> {parseBySize(x, data)}
               [] x.mode = "direct" -> {parseDirect(x, data)}
               [] x.mode = "directDelimiter" -> parseDirectDelimiter(x, data)
  BY DEF writeIntoParser
<1> HIDE DEF x
<1>4. SubParserOK(x, S)
  <2>1. sp.mode \in {"delimiter", "directDelimiter"} => NoneBuffered(x)
    BY <1>2 DEF SubParserOK, NoneBuffered
  <2> QED
    BY <1>2, <2>1 DEF SubParserOK
<1>5. ~NoRoom(x, data)
  <2> SUFFICES ASSUME NoRoom(x, data) PROVE FALSE
    OBVIOUS
  <2>1. r = Failed(x)
    BY <1>3
  <2>2. r.ok = FALSE
    BY <2>1 DEF Failed
  <2> QED
    BY <2>2
<1>6. r \in parseDirectDelimiter(x, data)
  BY <1>2, <1>3, <1>5
<1>7. CutDirectDelimiter(S, x, data, r)
  BY <1>2, <1>4, <1>5, <1>6, DirectDelimiterCuts
<1> QED
  BY <1>2, <1>7 DEF CutDirectDelimiter
=============================================================================
