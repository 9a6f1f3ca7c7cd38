--------------------------- MODULE Session_proofs ---------------------------
(***************************************************************************)
(* What holds of a session for any input, however chunks cut it, whatever  *)
(* is held for detection, evicted or parsed anew, and for any values of    *)
(* the bounds. The first parts are about the parser: cutting bytes into    *)
(* lines, reading a line, holding lines for detection and replaying them,  *)
(* and parsing retained lines anew.                                        *)
(***************************************************************************)
EXTENDS Session, FiniteSetTheorems, TLAPS

Cuts    == INSTANCE LeftFolds WITH Op <- Cut
Lengths == INSTANCE LeftFolds WITH Op <- AddLength
Emits   == INSTANCE LeftFolds WITH Op <- Emit
Reads   == INSTANCE LeftFolds WITH Op <- Consume
Refeeds == INSTANCE LeftFolds WITH Op <- FeedLine

-----------------------------------------------------------------------------
(* The model's folds are instances of the one the laws are about.          *)

LEMMA BytesFold ==
    ASSUME NEW lines
    PROVE  Bytes(lines) = Lengths!Fold(0, lines)
BY DEF Bytes, Lengths!Fold, FoldLeft, Lengths!FoldLeft, MapThenFoldSet,
       Lengths!MapThenFoldSet, Max, Lengths!Max

LEMMA SplitFold ==
    ASSUME NEW bytes
    PROVE  Split(bytes) = Cuts!Fold([lines |-> <<>>, rest |-> <<>>], bytes)
BY DEF Split, Cuts!Fold, FoldLeft, Cuts!FoldLeft, MapThenFoldSet,
       Cuts!MapThenFoldSet, Max, Cuts!Max

LEMMA EmitFold ==
    ASSUME NEW p, NEW lines
    PROVE  FoldLeft(Emit, p, lines) = Emits!Fold(p, lines)
BY DEF Emits!Fold, FoldLeft, Emits!FoldLeft, MapThenFoldSet,
       Emits!MapThenFoldSet, Max, Emits!Max

LEMMA ConsumeFold ==
    ASSUME NEW p, NEW lines
    PROVE  FoldLeft(Consume, p, lines) = Reads!Fold(p, lines)
BY DEF Reads!Fold, FoldLeft, Reads!FoldLeft, MapThenFoldSet,
       Reads!MapThenFoldSet, Max, Reads!Max

LEMMA FeedLineFold ==
    ASSUME NEW p, NEW lines
    PROVE  FoldLeft(FeedLine, p, lines) = Refeeds!Fold(p, lines)
BY DEF Refeeds!Fold, FoldLeft, Refeeds!FoldLeft, MapThenFoldSet,
       Refeeds!MapThenFoldSet, Max, Refeeds!Max

-----------------------------------------------------------------------------
(* The bytes of lines.                                                     *)

LEMMA BytesOfNone == Bytes(<<>>) = 0
BY BytesFold, Lengths!FoldOfNone

LEMMA BytesNatural ==
    ASSUME NEW lines \in Seq(Seq(Byte))
    PROVE  Bytes(lines) \in Nat
<1> DEFINE stage == [k \in 0..Len(lines) |-> Nat]
<1>1. DOMAIN lines = 1..Len(lines) /\ Len(lines) \in Nat
    OBVIOUS
<1>2. 0 \in stage[0]
    BY <1>1
<1>3. \A k \in 1..Len(lines) : \A a \in stage[k - 1] : AddLength(a, lines[k]) \in stage[k]
    <2>1. SUFFICES ASSUME NEW k \in 1..Len(lines), NEW a \in stage[k - 1]
                   PROVE  AddLength(a, lines[k]) \in stage[k]
        OBVIOUS
    <2>2. k - 1 \in 0..Len(lines) /\ k \in 0..Len(lines)
        OBVIOUS
    <2>3. Len(lines[k]) \in Nat
        OBVIOUS
    <2>4. QED
        BY <2>1, <2>2, <2>3 DEF AddLength
<1>4. stage[Len(lines)] = Nat
    BY <1>1
<1> HIDE DEF stage
<1>5. Lengths!Fold(0, lines) \in stage[Len(lines)]
    BY <1>1, <1>2, <1>3, Lengths!FoldReaches
<1>6. QED
    BY <1>4, <1>5, BytesFold

LEMMA BytesOfOneMore ==
    ASSUME NEW lines \in Seq(Seq(Byte)), NEW more \in Seq(Seq(Byte)),
           Len(more) = Len(lines) + 1,
           \A k \in 1..Len(lines) : more[k] = lines[k]
    PROVE  Bytes(more) = Bytes(lines) + Len(more[Len(more)])
<1> DEFINE n == Len(lines)
<1>1. /\ n \in Nat
      /\ DOMAIN lines = 1..n
      /\ DOMAIN more = 1..(n + 1)
      /\ Len(more) = n + 1
      /\ \A k \in 1..n : more[k] = lines[k]
    OBVIOUS
<1> HIDE DEF n
<1>2. Lengths!Fold(0, more) = AddLength(Lengths!Fold(0, lines), more[n + 1])
    BY <1>1, Lengths!FoldOfOneMore, SMTT(30)
<1>3. QED
    BY <1>1, <1>2, BytesFold DEF AddLength

(* Cutting lines in two leaves their bytes.                                *)
LEMMA BytesOfParts ==
    ASSUME NEW lines \in Seq(Seq(Byte)), NEW n \in 0..Len(lines)
    PROVE  /\ SubSeq(lines, 1, n) \in Seq(Seq(Byte))
           /\ SubSeq(lines, n + 1, Len(lines)) \in Seq(Seq(Byte))
           /\ Bytes(lines) = Bytes(SubSeq(lines, 1, n))
                                 + Bytes(SubSeq(lines, n + 1, Len(lines)))
<1> DEFINE front == SubSeq(lines, 1, n)
           part(k) == SubSeq(lines, n + 1, n + k)
           upto(k) == SubSeq(lines, 1, n + k)
           T == {k \in Nat : n + k <= Len(lines) =>
                                Bytes(upto(k)) = Bytes(front) + Bytes(part(k))}
<1>1. Len(lines) \in Nat /\ n \in Nat
    OBVIOUS
<1>2. ASSUME NEW k \in Nat, n + k <= Len(lines)
      PROVE  /\ upto(k) \in Seq(Seq(Byte)) /\ Len(upto(k)) = n + k
             /\ part(k) \in Seq(Seq(Byte)) /\ Len(part(k)) = k
             /\ \A i \in 1..(n + k) : upto(k)[i] = lines[i]
             /\ \A i \in 1..k : part(k)[i] = lines[n + i]
    BY <1>1, <1>2
<1>3. 0 \in T
    <2>1. part(0) = <<>>
        BY <1>1
    <2>2. upto(0) = front
        BY <1>1
    <2>3. Bytes(front) \in Nat
        <3>1. front \in Seq(Seq(Byte))
            BY <1>1
        <3>2. QED
            BY <3>1, BytesNatural
    <2> HIDE DEF front, upto, part
    <2>4. Bytes(upto(0)) = Bytes(front) + Bytes(part(0))
        BY <2>1, <2>2, <2>3, BytesOfNone
    <2>5. QED
        BY <2>4
<1>4. ASSUME NEW k \in Nat, k \in T PROVE k + 1 \in T
    <2>1. SUFFICES ASSUME n + (k + 1) <= Len(lines)
                   PROVE  Bytes(upto(k + 1)) = Bytes(front) + Bytes(part(k + 1))
        OBVIOUS
    <2>2. Bytes(upto(k)) = Bytes(front) + Bytes(part(k))
        BY <1>1, <1>4, <2>1
    <2>3. /\ upto(k) \in Seq(Seq(Byte)) /\ Len(upto(k)) = n + k
          /\ part(k) \in Seq(Seq(Byte)) /\ Len(part(k)) = k
          /\ \A i \in 1..(n + k) : upto(k)[i] = lines[i]
          /\ \A i \in 1..k : part(k)[i] = lines[n + i]
        BY <1>1, <1>2, <2>1
    <2>4. /\ upto(k + 1) \in Seq(Seq(Byte)) /\ Len(upto(k + 1)) = n + k + 1
          /\ part(k + 1) \in Seq(Seq(Byte)) /\ Len(part(k + 1)) = k + 1
          /\ \A i \in 1..(n + k + 1) : upto(k + 1)[i] = lines[i]
          /\ \A i \in 1..(k + 1) : part(k + 1)[i] = lines[n + i]
        <3>1. k + 1 \in Nat
            OBVIOUS
        <3>2. QED
            BY <1>1, <1>2, <2>1, <3>1
    <2>7. Bytes(front) \in Nat /\ Bytes(part(k)) \in Nat
        <3>1. front \in Seq(Seq(Byte))
            BY <1>1
        <3> HIDE DEF front, part, upto
        <3>2. QED
            BY <2>3, <3>1, BytesNatural
    <2> HIDE DEF front, upto, part
    <2>5. Bytes(upto(k + 1)) = Bytes(upto(k)) + Len(lines[n + k + 1])
        <3>1. Len(upto(k + 1)) = Len(upto(k)) + 1
            BY <2>3, <2>4
        <3>2. ASSUME NEW i \in 1..Len(upto(k)) PROVE upto(k + 1)[i] = upto(k)[i]
            <4>1. i \in 1..(n + k) /\ i \in 1..(n + k + 1)
                BY <1>1, <2>3
            <4>2. upto(k)[i] = lines[i]
                BY <2>3, <4>1
            <4>3. upto(k + 1)[i] = lines[i]
                BY <2>4, <4>1
            <4>4. QED
                BY <4>2, <4>3
        <3>3. Bytes(upto(k + 1)) = Bytes(upto(k)) + Len(upto(k + 1)[Len(upto(k + 1))])
            BY <2>3, <2>4, <3>1, <3>2, BytesOfOneMore
        <3>4. upto(k + 1)[n + k + 1] = lines[n + k + 1]
            BY <1>1, <2>4
        <3>5. QED
            BY <2>4, <3>3, <3>4
    <2>6. Bytes(part(k + 1)) = Bytes(part(k)) + Len(lines[n + k + 1])
        <3>1. Len(part(k + 1)) = Len(part(k)) + 1
            BY <2>3, <2>4
        <3>2. ASSUME NEW i \in 1..Len(part(k)) PROVE part(k + 1)[i] = part(k)[i]
            <4>1. i \in 1..(k) /\ i \in 1..(k + 1)
                BY <1>1, <2>3
            <4>2. part(k)[i] = lines[n + i]
                BY <2>3, <4>1
            <4>3. part(k + 1)[i] = lines[n + i]
                BY <2>4, <4>1
            <4>4. QED
                BY <4>2, <4>3
        <3>3. Bytes(part(k + 1)) = Bytes(part(k)) + Len(part(k + 1)[Len(part(k + 1))])
            BY <2>3, <2>4, <3>1, <3>2, BytesOfOneMore
        <3>4. part(k + 1)[k + 1] = lines[n + (k + 1)]
            BY <1>1, <2>4
        <3>5. n + (k + 1) = n + k + 1
            BY <1>1
        <3>6. QED
            BY <2>4, <3>3, <3>4, <3>5
    <2>8. Len(lines[n + k + 1]) \in Nat
        BY <1>1, <2>1
    <2>9. QED
        BY <2>2, <2>5, <2>6, <2>7, <2>8
<1>5. Len(lines) - n \in T
    <2>1. Len(lines) - n \in Nat
        BY <1>1
    <2> HIDE DEF T
    <2>2. QED
        BY <1>3, <1>4, <2>1, Lengths!Induct
<1>6. QED
    <2>1. Len(lines) - n \in Nat /\ n + (Len(lines) - n) = Len(lines)
        BY <1>1
    <2>2. upto(Len(lines) - n) = lines
        BY <1>1, <2>1
    <2>3. n + (Len(lines) - n) <= Len(lines)
        BY <1>1
    <2>4. Bytes(upto(Len(lines) - n)) = Bytes(front) + Bytes(part(Len(lines) - n))
        BY <1>5, <2>3
    <2>5. part(Len(lines) - n) = SubSeq(lines, n + 1, Len(lines))
        BY <2>1
    <2>6. /\ front \in Seq(Seq(Byte))
          /\ SubSeq(lines, n + 1, Len(lines)) \in Seq(Seq(Byte))
        BY <1>1
    <2> HIDE DEF part, upto
    <2>7. QED
        BY <2>2, <2>4, <2>5, <2>6

-----------------------------------------------------------------------------
(* Cutting bytes into lines.                                               *)

Pieces == [lines : Seq(Seq(Byte)), rest : Seq(Byte)]

LEMMA CutNewline ==
    ASSUME NEW s \in Pieces
    PROVE  /\ Cut(s, Newline) \in Pieces
           /\ Cut(s, Newline).lines = Append(s.lines, s.rest)
           /\ Cut(s, Newline).rest = <<>>
<1>1. <<>> \in Seq(Byte)
    OBVIOUS
<1>2. Append(s.lines, s.rest) \in Seq(Seq(Byte))
    BY DEF Pieces
<1>3. QED
    BY <1>1, <1>2 DEF Cut, Pieces

LEMMA CutByte ==
    ASSUME NEW s \in Pieces, NEW b \in Byte
    PROVE  /\ Cut(s, b) \in Pieces
           /\ Cut(s, b).lines = s.lines
           /\ Cut(s, b).rest = Append(s.rest, b)
<1>1. b # Newline
    BY ByteAssumption
<1>2. Append(s.rest, b) \in Seq(Byte)
    BY DEF Pieces
<1> HIDE DEF Byte
<1>3. QED
    BY <1>1, <1>2 DEF Cut, Pieces

(* A text without a newline is no line yet.                                *)
LEMMA SplitText ==
    ASSUME NEW text \in Seq(Byte)
    PROVE  Split(text) = [lines |-> <<>>, rest |-> text]
<1> DEFINE n == Len(text)
           none == [lines |-> <<>>, rest |-> <<>>]
           piece(k) == [lines |-> <<>>, rest |-> SubSeq(text, 1, k)]
           stage == [k \in 0..n |-> {piece(k)}]
<1>1. n \in Nat /\ DOMAIN text = 1..n
    OBVIOUS
<1>2. none \in stage[0]
    <2>1. SubSeq(text, 1, 0) = <<>>
        OBVIOUS
    <2>2. 0 \in 0..n
        BY <1>1
    <2>3. QED
        BY <2>1, <2>2
<1>3. \A k \in 1..n : \A a \in stage[k - 1] : Cut(a, text[k]) \in stage[k]
    <2>1. SUFFICES ASSUME NEW k \in 1..n, NEW a \in stage[k - 1]
                   PROVE  Cut(a, text[k]) \in stage[k]
        OBVIOUS
    <2>2. k - 1 \in 0..n /\ k \in 0..n
        BY <1>1
    <2>3. a = piece(k - 1)
        BY <2>2
    <2>4. text[k] \in Byte
        BY <1>1
    <2>5. text[k] # Newline
        BY <2>4, ByteAssumption
    <2>6. Append(SubSeq(text, 1, k - 1), text[k]) = SubSeq(text, 1, k)
        BY <1>1, <2>2
    <2>7. Cut(a, text[k]) = piece(k)
        BY <2>3, <2>5, <2>6 DEF Cut
    <2> HIDE DEF piece
    <2>8. QED
        BY <2>2, <2>7
<1>4. stage[n] = {[lines |-> <<>>, rest |-> text]}
    <2>1. SubSeq(text, 1, n) = text /\ n \in 0..n
        BY <1>1
    <2>2. QED
        BY <2>1
<1> HIDE DEF n, none, stage
<1>5. Cuts!Fold(none, text) \in stage[n]
    BY <1>1, <1>2, <1>3, Cuts!FoldReaches
<1>6. Split(text) = Cuts!Fold(none, text)
    BY SplitFold DEF none
<1>7. QED
    BY <1>4, <1>5, <1>6

(* A line and its newline are that line.                                   *)
LEMMA SplitLine ==
    ASSUME NEW text \in Seq(Byte)
    PROVE  Split(Append(text, Newline)) = [lines |-> <<text>>, rest |-> <<>>]
<1> DEFINE n == Len(text)
           bytes == Append(text, Newline)
           none == [lines |-> <<>>, rest |-> <<>>]
<1>1. /\ n \in Nat
      /\ DOMAIN text = 1..n
      /\ DOMAIN bytes = 1..(n + 1)
      /\ \A k \in 1..n : bytes[k] = text[k]
      /\ bytes[n + 1] = Newline
    OBVIOUS
<1> HIDE DEF n, bytes, none
<1>2. Cuts!Fold(none, bytes) = Cut(Cuts!Fold(none, text), Newline)
    BY <1>1, Cuts!FoldOfOneMore
<1>3. Cuts!Fold(none, text) = [lines |-> <<>>, rest |-> text]
    BY SplitText, SplitFold DEF none
<1>4. Cut([lines |-> <<>>, rest |-> text], Newline)
          = [lines |-> <<text>>, rest |-> <<>>]
    BY DEF Cut
<1>5. QED
    BY <1>2, <1>3, <1>4, SplitFold DEF none, bytes

(* How many of the newlines at `ends` are among the first k bytes.         *)
EndsBy(ends, k) == Cardinality({j \in ends : j <= k})

LEMMA EndsCounted ==
    ASSUME NEW n \in Nat, NEW ends \in SUBSET (1..n)
    PROVE  /\ Cardinality(ends) \in Nat
           /\ EndsBy(ends, 0) = 0
           /\ EndsBy(ends, n) = Cardinality(ends)
           /\ \A i \in 1..n :
                  /\ EndsBy(ends, i) \in Nat
                  /\ EndsBy(ends, i - 1) \in Nat
                  /\ EndsBy(ends, i) <= Cardinality(ends)
                  /\ EndsBy(ends, i - 1) = Cardinality({j \in ends : j < i})
                  /\ i \in ends => EndsBy(ends, i) = EndsBy(ends, i - 1) + 1
                  /\ i \notin ends => EndsBy(ends, i) = EndsBy(ends, i - 1)
<1>1. IsFiniteSet(ends)
    <2>1. IsFiniteSet(1..n)
        BY FS_Interval
    <2>2. QED
        BY <2>1, FS_Subset
<1>2. Cardinality(ends) \in Nat
    BY <1>1, FS_CardinalityType
<1>n. \A j \in ends : j \in Nat /\ 1 <= j /\ j <= n
    OBVIOUS
<1>3. EndsBy(ends, 0) = 0
    <2>1. \A j \in ends : ~(j <= 0)
        BY <1>n
    <2>3. {j \in ends : j <= 0} = {}
        BY <2>1
    <2>2. QED
        BY <2>3, FS_EmptySet DEF EndsBy
<1>4. EndsBy(ends, n) = Cardinality(ends)
    <2>1. {j \in ends : j <= n} = ends
        BY <1>n
    <2>2. QED
        BY <2>1 DEF EndsBy
<1>5. ASSUME NEW i \in 1..n
      PROVE  /\ EndsBy(ends, i) \in Nat
             /\ EndsBy(ends, i - 1) \in Nat
             /\ EndsBy(ends, i) <= Cardinality(ends)
             /\ EndsBy(ends, i - 1) = Cardinality({j \in ends : j < i})
             /\ i \in ends => EndsBy(ends, i) = EndsBy(ends, i - 1) + 1
             /\ i \notin ends => EndsBy(ends, i) = EndsBy(ends, i - 1)
    <2> DEFINE now == {j \in ends : j <= i}
               before == {j \in ends : j <= i - 1}
    <2>1. now \subseteq ends /\ before \subseteq ends
        OBVIOUS
    <2>2. IsFiniteSet(now) /\ IsFiniteSet(before)
        BY <1>1, <2>1, FS_Subset
    <2>3. Cardinality(now) \in Nat /\ Cardinality(before) \in Nat
        BY <2>2, FS_CardinalityType
    <2>4. Cardinality(now) <= Cardinality(ends)
        BY <1>1, <2>1, FS_Subset
    <2>n. \A j \in ends : (j <= i - 1 <=> j < i) /\ (j <= i <=> (j < i \/ j = i))
        BY <1>n
    <2>5. before = {j \in ends : j < i}
        BY <2>n
    <2>6. ASSUME i \in ends PROVE Cardinality(now) = Cardinality(before) + 1
        <3>1. i \in now /\ i \notin before
            BY <2>6
        <3>3. \A j \in ends : j \in now <=> j \in before \/ j = i
            BY <2>n
        <3>4. now = before \union {i}
            BY <2>1, <2>6, <3>3
        <3> HIDE DEF now, before
        <3>2. QED
            BY <2>2, <3>1, <3>4, FS_AddElement
    <2>7. ASSUME i \notin ends PROVE now = before
        BY <2>7, <2>n
    <2>8. EndsBy(ends, i) = Cardinality(now) /\ EndsBy(ends, i - 1) = Cardinality(before)
        BY DEF EndsBy
    <2> HIDE DEF now, before
    <2>9. QED
        BY <2>3, <2>4, <2>5, <2>6, <2>7, <2>8
<1>6. QED
    BY <1>2, <1>3, <1>4, <1>5

(* A byte of a chunk is a newline or belongs to the line that the newlines *)
(* before it led to.                                                       *)
LEMMA ChunkBytes ==
    ASSUME NEW n \in Nat, NEW ends \in SUBSET (1..n), IsInput(n, ends),
           line \in 1..(InputLines + 1), InputLines \in Nat,
           log \in [1..InputLines -> Kinds],
           NEW i \in 1..n
    PROVE  LET at == line + EndsBy(ends, i - 1)
           IN  IF i \in ends THEN Chunk(n, ends)[i] = Newline
               ELSE /\ Chunk(n, ends)[i] = [line |-> at, kind |-> log[at]]
                    /\ Chunk(n, ends)[i] \in Byte
<1> DEFINE at == line + EndsBy(ends, i - 1)
<1>1. CASE i \in ends
    BY <1>1 DEF Chunk
<1>2. CASE i \notin ends
    <2>1. /\ Cardinality(ends) \in Nat
          /\ EndsBy(ends, i - 1) \in Nat
          /\ EndsBy(ends, i) \in Nat
          /\ EndsBy(ends, i - 1) = Cardinality({j \in ends : j < i})
          /\ EndsBy(ends, i - 1) <= Cardinality(ends)
        BY <1>2, EndsCounted
    <2>2. Chunk(n, ends)[i] = [line |-> at, kind |-> log[at]]
        BY <1>2, <2>1 DEF Chunk
    <2>3. at \in 1..InputLines
        <3>1. /\ line + Cardinality(ends) <= InputLines + 1
              /\ line + Cardinality(ends) = InputLines + 1 => n \in ends
            BY DEF IsInput
        <3>2. CASE n \in ends
            <4>1. i # n /\ n \in 1..n
                BY <1>2, <3>2
            <4>2. EndsBy(ends, i - 1) < Cardinality(ends)
                <5> DEFINE before == {j \in ends : j < i}
                <5>1. before \subseteq ends /\ n \in ends /\ n \notin before
                    BY <3>2
                <5>2. IsFiniteSet(1..n)
                    BY FS_Interval
                <5>3. IsFiniteSet(ends)
                    BY <5>2, FS_Subset
                <5> HIDE DEF before
                <5>4. Cardinality(before) <= Cardinality(ends) /\ Cardinality(before) # Cardinality(ends)
                    BY <5>1, <5>3, FS_Subset
                <5>5. Cardinality(before) \in Nat
                    BY <5>1, <5>3, FS_Subset, FS_CardinalityType
                <5>6. QED
                    BY <2>1, <5>4, <5>5 DEF before
            <4>3. QED
                BY <2>1, <3>1, <4>2
        <3>3. CASE n \notin ends
            BY <2>1, <3>1, <3>3, SMTT(30)
        <3>4. QED
            BY <3>2, <3>3
    <2>4. [line |-> at, kind |-> log[at]] \in Byte
        BY <2>3 DEF Byte
    <2>5. QED
        BY <1>2, <2>2, <2>4
<1>3. QED
    BY <1>1, <1>2


LEMMA OfNextByte ==
    ASSUME NEW text \in Seq(Byte), NEW b \in Byte, NEW n,
           IsOf(text, n), b = [line |-> n, kind |-> log[n]]
    PROVE  IsOf(Append(text, b), n)
<1>1. SUFFICES ASSUME NEW i \in DOMAIN Append(text, b)
               PROVE  Append(text, b)[i] = b
    BY DEF IsOf
<1>2. CASE i \in DOMAIN text
    BY <1>2 DEF IsOf
<1>3. CASE i = Len(text) + 1
    BY <1>3
<1>4. QED
    BY <1>1, <1>2, <1>3

(* What a chunk and the unfinished line before it are cut into: lines that *)
(* follow the last one, each with its own bytes, and the next one's        *)
(* beginning.                                                              *)
LEMMA SplitChunk ==
    ASSUME NEW n \in Nat, NEW ends \in SUBSET (1..n), IsInput(n, ends),
           line \in 1..(InputLines + 1), InputLines \in Nat,
           log \in [1..InputLines -> Kinds],
           pending \in Seq(Byte), IsOf(pending, line)
    PROVE  LET s == Split(pending \o Chunk(n, ends))
           IN  /\ s.lines \in Seq(Seq(Byte)) /\ s.rest \in Seq(Byte)
               /\ s = [lines |-> s.lines, rest |-> s.rest]
               /\ Len(s.lines) = Cardinality(ends)
               /\ \A i \in 1..Len(s.lines) : IsOf(s.lines[i], line + i - 1)
               /\ IsOf(s.rest, line + Cardinality(ends))
<1> DEFINE m == Len(pending)
           chunk == Chunk(n, ends)
           bytes == pending \o chunk
           none == [lines |-> <<>>, rest |-> <<>>]
           c(k) == IF k <= m THEN 0 ELSE EndsBy(ends, k - m)
           stage == [k \in 0..(m + n) |->
                        {s \in Pieces :
                            /\ Len(s.lines) = c(k)
                            /\ \A i \in 1..Len(s.lines) : IsOf(s.lines[i], line + i - 1)
                            /\ IsOf(s.rest, line + c(k))}]
<1>1. /\ m \in Nat
      /\ DOMAIN chunk = 1..n
      /\ DOMAIN bytes = 1..(m + n)
      /\ \A k \in 1..m : bytes[k] = pending[k]
      /\ \A k \in (m + 1)..(m + n) : bytes[k] = chunk[k - m]
    <2>1. chunk \in Seq(Byte \union {Newline}) /\ Len(chunk) = n
        <3>1. \A i \in 1..n : chunk[i] \in Byte \union {Newline}
            BY ChunkBytes
        <3>2. DOMAIN chunk = 1..n
            BY DEF Chunk
        <3>3. chunk = [i \in 1..n |-> chunk[i]]
            BY DEF Chunk
        <3> HIDE DEF chunk
        <3>4. chunk \in [1..n -> Byte \union {Newline}]
            BY <3>1, <3>3
        <3>5. QED
            BY <3>4
    <2> HIDE DEF chunk
    <2>2. pending \in Seq(Byte \union {Newline})
        OBVIOUS
    <2>3. QED
        BY <2>1, <2>2, SMTT(30)
<1>2. ASSUME NEW k \in 1..(m + n)
      PROVE  /\ c(k) \in Nat /\ c(k - 1) \in Nat
             /\ \/ bytes[k] = Newline /\ c(k) = c(k - 1) + 1
                \/ /\ bytes[k] \in Byte
                   /\ bytes[k] = [line |-> line + c(k - 1), kind |-> log[line + c(k - 1)]]
                   /\ c(k) = c(k - 1)
    <2>1. CASE k <= m
        <3>1. k \in 1..m
            BY <1>1, <2>1
        <3>2. bytes[k] = pending[k] /\ pending[k] \in Byte
            BY <1>1, <3>1
        <3>3. pending[k] = [line |-> line, kind |-> log[line]]
            BY <3>1 DEF IsOf
        <3>4. c(k) = 0 /\ c(k - 1) = 0
            BY <1>1, <2>1
        <3>5. line + 0 = line
            OBVIOUS
        <3> HIDE DEF c, bytes, m
        <3>6. QED
            BY <3>2, <3>3, <3>4, <3>5
    <2>2. CASE ~(k <= m)
        <3> DEFINE i == k - m
        <3>1. i \in 1..n /\ k \in (m + 1)..(m + n)
            BY <1>1, <2>2
        <3>2. bytes[k] = chunk[i]
            BY <1>1, <3>1
        <3>3. /\ EndsBy(ends, 0) = 0
              /\ EndsBy(ends, i) \in Nat
              /\ EndsBy(ends, i - 1) \in Nat
              /\ i \in ends => EndsBy(ends, i) = EndsBy(ends, i - 1) + 1
              /\ i \notin ends => EndsBy(ends, i) = EndsBy(ends, i - 1)
            BY <3>1, EndsCounted
        <3>4. c(k) = EndsBy(ends, i)
            BY <2>2
        <3>5. c(k - 1) = EndsBy(ends, i - 1)
            <4>1. CASE k - 1 <= m
                <5>1. i - 1 = 0
                    BY <1>1, <2>2, <4>1
                <5>2. QED
                    BY <3>3, <4>1, <5>1
            <4>2. CASE ~(k - 1 <= m)
                <5>1. (k - 1) - m = i - 1
                    BY <1>1
                <5>2. QED
                    BY <4>2, <5>1
            <4>3. QED
                BY <4>1, <4>2
        <3>6. IF i \in ends THEN chunk[i] = Newline
              ELSE /\ chunk[i] = [line |-> line + EndsBy(ends, i - 1),
                                  kind |-> log[line + EndsBy(ends, i - 1)]]
                   /\ chunk[i] \in Byte
            BY <3>1, ChunkBytes
        <3> HIDE DEF c, bytes, chunk, i
        <3>7. QED
            BY <3>2, <3>3, <3>4, <3>5, <3>6
    <2>3. QED
        BY <2>1, <2>2
<1>3. c(0) = 0 /\ c(m + n) = Cardinality(ends)
    <2>1. EndsBy(ends, n) = Cardinality(ends)
        BY EndsCounted
    <2>2. CASE n = 0
        <3>1. ends = {}
            BY <2>2
        <3>2. Cardinality(ends) = 0
            BY <3>1, FS_EmptySet
        <3>3. QED
            BY <1>1, <2>2, <3>2
    <2>3. CASE n # 0
        <3>1. ~(m + n <= m) /\ (m + n) - m = n
            BY <1>1, <2>3
        <3>2. QED
            BY <1>1, <2>1, <3>1
    <2>4. QED
        BY <2>2, <2>3
<1> HIDE DEF c, bytes, m, chunk
<1>4. none \in stage[0]
    <2>1. none \in Pieces
        BY DEF Pieces
    <2>2. Len(none.lines) = c(0) /\ 0 \in 0..(m + n)
        BY <1>1, <1>3
    <2>3. \A i \in 1..Len(none.lines) : IsOf(none.lines[i], line + i - 1)
        OBVIOUS
    <2>4. IsOf(none.rest, line + c(0))
        BY DEF IsOf
    <2> HIDE DEF none
    <2>5. QED
        BY <2>1, <2>2, <2>3, <2>4
<1>5. \A k \in 1..(m + n) : \A a \in stage[k - 1] : Cut(a, bytes[k]) \in stage[k]
    <2>1. SUFFICES ASSUME NEW k \in 1..(m + n), NEW a \in stage[k - 1]
                   PROVE  Cut(a, bytes[k]) \in stage[k]
        OBVIOUS
    <2>2. k - 1 \in 0..(m + n) /\ k \in 0..(m + n)
        BY <1>1
    <2>3. /\ a \in Pieces
          /\ Len(a.lines) = c(k - 1)
          /\ \A i \in 1..Len(a.lines) : IsOf(a.lines[i], line + i - 1)
          /\ IsOf(a.rest, line + c(k - 1))
        BY <2>2
    <2>4. a.lines \in Seq(Seq(Byte)) /\ a.rest \in Seq(Byte)
        BY <2>3 DEF Pieces
    <2> DEFINE b == Cut(a, bytes[k])
    <2>5. /\ b \in Pieces
          /\ Len(b.lines) = c(k)
          /\ \A i \in 1..Len(b.lines) : IsOf(b.lines[i], line + i - 1)
          /\ IsOf(b.rest, line + c(k))
        <3>1. CASE bytes[k] = Newline /\ c(k) = c(k - 1) + 1
            <4>1. /\ b \in Pieces
                  /\ b.lines = Append(a.lines, a.rest)
                  /\ b.rest = <<>>
                BY <2>3, <3>1, CutNewline
            <4>2. Len(b.lines) = c(k)
                BY <2>3, <2>4, <3>1, <4>1
            <4>3. ASSUME NEW i \in 1..Len(b.lines) PROVE IsOf(b.lines[i], line + i - 1)
                <5>1. CASE i \in 1..Len(a.lines)
                    <6>1. b.lines[i] = a.lines[i]
                        BY <2>4, <4>1, <5>1
                    <6>2. QED
                        BY <2>3, <5>1, <6>1
                <5>2. CASE i \notin 1..Len(a.lines)
                    <6>1. i = Len(a.lines) + 1
                        BY <2>4, <4>1, <5>2
                    <6>2. b.lines[i] = a.rest
                        BY <2>4, <4>1, <6>1
                    <6>3. line + i - 1 = line + c(k - 1)
                        BY <1>2, <2>3, <6>1
                    <6>4. QED
                        BY <2>3, <6>2, <6>3
                <5>3. QED
                    BY <5>1, <5>2
            <4>4. IsOf(b.rest, line + c(k))
                BY <4>1 DEF IsOf
            <4>5. QED
                BY <4>1, <4>2, <4>3, <4>4
        <3>2. CASE /\ bytes[k] \in Byte
                   /\ bytes[k] = [line |-> line + c(k - 1), kind |-> log[line + c(k - 1)]]
                   /\ c(k) = c(k - 1)
            <4>1. /\ b \in Pieces
                  /\ b.lines = a.lines
                  /\ b.rest = Append(a.rest, bytes[k])
                BY <2>3, <3>2, CutByte
            <4>2. IsOf(b.rest, line + c(k))
                BY <2>3, <2>4, <3>2, <4>1, OfNextByte
            <4>3. QED
                BY <2>3, <3>2, <4>1, <4>2
        <3>3. QED
            BY <1>2, <3>1, <3>2
    <2> HIDE DEF b
    <2>6. b \in stage[k]
        BY <2>2, <2>5
    <2>7. QED
        BY <2>6 DEF b
<1>6. Cuts!Fold(none, bytes) \in stage[m + n]
    <2>1. m + n \in Nat
        BY <1>1
    <2>2. none \in stage[0]
        BY <1>4
    <2> HIDE DEF none, stage
    <2>3. QED
        BY <1>1, <1>5, <2>1, <2>2, Cuts!FoldReaches
<1>7. m + n \in 0..(m + n)
    BY <1>1
<1>8. Split(bytes) = Cuts!Fold(none, bytes)
    BY SplitFold
<1> DEFINE s == Cuts!Fold(none, bytes)
<1> HIDE DEF none, s
<1>9. /\ s \in Pieces
      /\ Len(s.lines) = c(m + n)
      /\ \A i \in 1..Len(s.lines) : IsOf(s.lines[i], line + i - 1)
      /\ IsOf(s.rest, line + c(m + n))
    BY <1>6, <1>7 DEF s
<1>10. /\ s.lines \in Seq(Seq(Byte)) /\ s.rest \in Seq(Byte)
       /\ s = [lines |-> s.lines, rest |-> s.rest]
    BY <1>9 DEF Pieces
<1>11. QED
    BY <1>3, <1>8, <1>9, <1>10 DEF s, bytes, chunk

-----------------------------------------------------------------------------
(* The parser, one operation at a time.                                    *)

Line == [line : Nat, text : Seq(Byte)]

ParserState ==
    [format : Format \union {None}, sample : Seq(Line), pending : Seq(Byte),
     line_no : Nat, blank_lines : Nat, entries_emitted : Nat,
     diagnostics : [Reason -> Nat], chain : Chain \union {None},
     out : Seq(Entry)]

(* Lines read beyond those that are entries, blank, malformed or held.     *)
Balance(p) ==
    p.line_no - (p.entries_emitted + p.blank_lines + p.diagnostics["malformed"]
                     + Len(p.sample))

Written(l, root) == [line |-> l.line, text |-> l.text, root |-> root]

(* What emitting a line leaves alone.                                      *)
SameReading(p, q) ==
    /\ q \in ParserState
    /\ q.format = p.format
    /\ q.sample = p.sample
    /\ q.pending = p.pending
    /\ q.line_no = p.line_no
    /\ Balance(q) = Balance(p) - 1

Malformed(p, l) == p.format = "json" /\ KindOf(l.text) \notin LooksJson

Joins(p, l) ==
    /\ p.format = "plain"
    /\ Continues(p.chain, l)
    /\ p.chain.members < MaxChainLines

LEMMA NoneFacts == None \notin Nat /\ None \notin Format /\ None \notin Chain
BY NoneAssumption

LEMMA WrittenType ==
    ASSUME NEW l \in Line, NEW root \in Nat \union {None}
    PROVE  Written(l, root) \in Entry
BY DEF Written, Line, Entry

LEMMA FinishEntryType ==
    ASSUME NEW p \in ParserState, NEW l \in Line, NEW root \in Nat \union {None}
    PROVE  LET q == FinishEntry(p, l, root)
           IN  /\ SameReading(p, q)
               /\ q.out = Append(p.out, Written(l, root))
               /\ q.chain = p.chain
<1> DEFINE q == FinishEntry(p, l, root)
           out == Append(p.out, Written(l, root))
<1>1. out \in Seq(Entry)
    BY WrittenType DEF ParserState
<1>2. p.entries_emitted + 1 \in Nat
    BY DEF ParserState
<1>3. q = [p EXCEPT !.entries_emitted = p.entries_emitted + 1, !.out = out]
    BY DEF FinishEntry, Written
<1> HIDE DEF q, out
<1>4. /\ q \in ParserState
      /\ q.format = p.format /\ q.sample = p.sample /\ q.pending = p.pending
      /\ q.line_no = p.line_no /\ q.chain = p.chain /\ q.out = out
      /\ q.blank_lines = p.blank_lines /\ q.diagnostics = p.diagnostics
      /\ q.entries_emitted = p.entries_emitted + 1
    BY <1>1, <1>2, <1>3 DEF ParserState
<1>5. /\ p.line_no \in Nat /\ p.entries_emitted \in Nat /\ p.blank_lines \in Nat
      /\ p.diagnostics["malformed"] \in Nat /\ Len(p.sample) \in Nat
    BY DEF ParserState, Reason
<1>6. Balance(q) = Balance(p) - 1
    <2> DEFINE a == p.line_no
               b == p.entries_emitted
               c == p.blank_lines
               d == p.diagnostics["malformed"]
               e == Len(p.sample)
    <2>1. Balance(q) = a - ((b + 1) + c + d + e)
        BY <1>4 DEF Balance
    <2>2. Balance(p) = a - (b + c + d + e)
        BY DEF Balance
    <2>3. a \in Nat /\ b \in Nat /\ c \in Nat /\ d \in Nat /\ e \in Nat
        BY <1>5
    <2> HIDE DEF a, b, c, d, e
    <2>4. QED
        BY <2>1, <2>2, <2>3
<1>7. QED
    BY <1>4, <1>6 DEF SameReading, q, out

LEMMA NotedType ==
    ASSUME NEW p \in ParserState, NEW reason \in Reason
    PROVE  LET q == Noted(p, reason)
           IN  /\ q \in ParserState
               /\ q.format = p.format /\ q.sample = p.sample
               /\ q.pending = p.pending /\ q.line_no = p.line_no
               /\ q.chain = p.chain /\ q.out = p.out
               /\ Balance(q) = IF reason = "malformed" THEN Balance(p) - 1
                                                       ELSE Balance(p)
<1> DEFINE q == Noted(p, reason)
           noted == [p.diagnostics EXCEPT ![reason] = p.diagnostics[reason] + 1]
<1>1. p.diagnostics \in [Reason -> Nat]
    BY DEF ParserState
<1>2. noted \in [Reason -> Nat]
    BY <1>1
<1>3. q = [p EXCEPT !.diagnostics = noted]
    BY DEF Noted
<1>4. noted["malformed"] = IF reason = "malformed" THEN p.diagnostics["malformed"] + 1
                                                   ELSE p.diagnostics["malformed"]
    BY <1>1 DEF Reason
<1> HIDE DEF q, noted
<1>5. /\ q \in ParserState
      /\ q.format = p.format /\ q.sample = p.sample /\ q.pending = p.pending
      /\ q.line_no = p.line_no /\ q.chain = p.chain /\ q.out = p.out
      /\ q.blank_lines = p.blank_lines /\ q.diagnostics = noted
      /\ q.entries_emitted = p.entries_emitted
    BY <1>2, <1>3 DEF ParserState
<1>6. /\ p.line_no \in Nat /\ p.entries_emitted \in Nat /\ p.blank_lines \in Nat
      /\ p.diagnostics["malformed"] \in Nat /\ Len(p.sample) \in Nat
    BY DEF ParserState, Reason
<1>7. Balance(q) = IF reason = "malformed" THEN Balance(p) - 1 ELSE Balance(p)
    BY <1>4, <1>5, <1>6, SMTT(30) DEF Balance
<1>8. QED
    BY <1>5, <1>7 DEF q

LEMMA OpenedType ==
    ASSUME NEW l \in Line
    PROVE  Opened(l) \in Chain \union {None}
BY DEF Opened, Chain, Line

LEMMA WithChainType ==
    ASSUME NEW p \in ParserState, NEW chain \in Chain \union {None}
    PROVE  LET q == [p EXCEPT !.chain = chain]
           IN  /\ q \in ParserState
               /\ q.format = p.format /\ q.sample = p.sample
               /\ q.pending = p.pending /\ q.line_no = p.line_no
               /\ q.chain = chain /\ q.out = p.out
               /\ Balance(q) = Balance(p)
BY DEF ParserState, Balance

(* A line is malformed, or joins the event of the chain, or starts afresh. *)
LEMMA EmitEffect ==
    ASSUME NEW p \in ParserState, NEW l \in Line, p.format # None,
           p.format # "plain" => p.chain = None
    PROVE  LET q == Emit(p, l)
           IN  /\ SameReading(p, q)
               /\ Malformed(p, l) => q.out = p.out /\ q.chain = None
               /\ Joins(p, l) =>
                      /\ q.out = Append(p.out, Written(l, p.chain.root))
                      /\ q.chain = [p.chain EXCEPT !.members = @ + 1,
                                                   !.last_line = l.line]
                      /\ q.chain \in Chain
               /\ ~Malformed(p, l) /\ ~Joins(p, l) =>
                      /\ q.out = Append(p.out, Written(l, None))
                      /\ q.chain = IF p.format = "plain" THEN Opened(l) ELSE None
<1> DEFINE q == Emit(p, l)
<1>n. None \in Nat \union {None}
    OBVIOUS
<1>1. CASE Malformed(p, l)
    <2>1. q = Noted(p, "malformed") /\ p.chain = None
        BY <1>1 DEF Malformed, Emit
    <2>2. "malformed" \in Reason
        BY DEF Reason
    <2>3. ~Joins(p, l)
        BY <1>1 DEF Malformed, Joins
    <2>4. QED
        BY <1>1, <2>1, <2>2, <2>3, NotedType DEF SameReading
<1>2. CASE p.format = "plain"
    <2>1. q = EmitPlain(p, l) /\ ~Malformed(p, l)
        BY <1>2 DEF Malformed, Emit
    <2>2. CASE Joins(p, l)
        <3> DEFINE chain == [p.chain EXCEPT !.members = @ + 1, !.last_line = l.line]
                   r == [p EXCEPT !.chain = chain]
        <3>1. p.chain \in Chain
            BY <2>2 DEF Joins, Continues, ParserState
        <3>2. chain \in Chain /\ p.chain.root \in Nat \union {None}
            <4>1. l.line \in Nat /\ p.chain.members + 1 \in Nat /\ p.chain.root \in Nat
                BY <3>1 DEF Chain, Line
            <4>2. chain = [p.chain EXCEPT !.members = p.chain.members + 1,
                                          !.last_line = l.line]
                OBVIOUS
            <4> HIDE DEF chain
            <4>3. chain \in Chain
                BY <3>1, <4>1, <4>2 DEF Chain
            <4>4. QED
                BY <4>1, <4>3
        <3>3. q = FinishEntry(r, l, p.chain.root)
            <4>1. ~(p.chain.members >= MaxChainLines)
                BY <2>2, <3>1, ParserAssumption DEF Joins, Chain
            <4>2. [p EXCEPT !.chain.members = @ + 1, !.chain.last_line = l.line] = r
                BY <3>1 DEF Chain, ParserState
            <4>3. QED
                BY <2>1, <2>2, <4>1, <4>2 DEF EmitPlain, Joins
        <3>4. /\ r \in ParserState
              /\ r.format = p.format /\ r.sample = p.sample
              /\ r.pending = p.pending /\ r.line_no = p.line_no
              /\ r.chain = chain /\ r.out = p.out
              /\ Balance(r) = Balance(p)
            BY <3>2, WithChainType
        <3> HIDE DEF r, chain
        <3>5. /\ SameReading(r, q)
              /\ q.out = Append(r.out, Written(l, p.chain.root))
              /\ q.chain = r.chain
            BY <3>2, <3>3, <3>4, FinishEntryType
        <3>6. SameReading(p, q)
            BY <3>4, <3>5 DEF SameReading
        <3>7. QED
            BY <2>1, <2>2, <3>2, <3>4, <3>5, <3>6 DEF chain
    <2>3. CASE ~Joins(p, l)
        <3>1. PICK r \in ParserState :
                  /\ q = FinishEntry(r, l, None)
                  /\ r.format = p.format /\ r.sample = p.sample
                  /\ r.pending = p.pending /\ r.line_no = p.line_no
                  /\ r.chain = Opened(l) /\ r.out = p.out
                  /\ Balance(r) = Balance(p)
            <4> DEFINE o == [p EXCEPT !.chain = Opened(l)]
            <4>1. /\ o \in ParserState
                  /\ o.format = p.format /\ o.sample = p.sample
                  /\ o.pending = p.pending /\ o.line_no = p.line_no
                  /\ o.chain = Opened(l) /\ o.out = p.out
                  /\ Balance(o) = Balance(p)
                BY OpenedType, WithChainType
            <4>2. q = FinishEntry(o, l, None) \/ q = FinishEntry(Noted(o, "truncated"), l, None)
                <5>1. CASE ~Continues(p.chain, l)
                    BY <2>1, <5>1 DEF EmitPlain
                <5>2. CASE Continues(p.chain, l)
                    <6>1. p.chain \in Chain
                        BY <5>2 DEF Continues, ParserState
                    <6>2. p.chain.members >= MaxChainLines
                        BY <1>2, <2>3, <5>2, <6>1, ParserAssumption DEF Joins, Chain
                    <6>3. QED
                        BY <2>1, <5>2, <6>2 DEF EmitPlain
                <5>3. QED
                    BY <5>1, <5>2
            <4> HIDE DEF o
            <4> DEFINE t == Noted(o, "truncated")
            <4>3. "truncated" \in Reason /\ "truncated" # "malformed"
                BY DEF Reason
            <4>4. /\ t \in ParserState
                  /\ t.format = o.format /\ t.sample = o.sample
                  /\ t.pending = o.pending /\ t.line_no = o.line_no
                  /\ t.chain = o.chain /\ t.out = o.out
                  /\ Balance(t) = Balance(o)
                BY <4>1, <4>3, NotedType
            <4> HIDE DEF t
            <4>5. CASE q = FinishEntry(o, l, None)
                BY <4>1, <4>5
            <4>6. CASE q = FinishEntry(t, l, None)
                BY <4>1, <4>4, <4>6
            <4>7. QED
                BY <4>2, <4>5, <4>6 DEF t
        <3>2. /\ SameReading(r, q)
              /\ q.out = Append(r.out, Written(l, None))
              /\ q.chain = r.chain
            BY <1>n, <3>1, FinishEntryType
        <3>3. SameReading(p, q)
            BY <3>1, <3>2 DEF SameReading
        <3>4. QED
            BY <1>2, <2>1, <2>3, <3>1, <3>2, <3>3
    <2>4. QED
        BY <2>2, <2>3
<1>3. CASE ~Malformed(p, l) /\ p.format # "plain"
    <2>1. q = FinishEntry(p, l, None) /\ ~Joins(p, l)
        BY <1>3 DEF Malformed, Emit, Joins
    <2> HIDE DEF q
    <2>2. /\ SameReading(p, q)
          /\ q.out = Append(p.out, Written(l, None))
          /\ q.chain = p.chain
        BY <1>n, <2>1, FinishEntryType
    <2>3. QED
        BY <1>3, <2>1, <2>2 DEF q
<1>4. QED
    BY <1>1, <1>2, <1>3 DEF Malformed

-----------------------------------------------------------------------------
(* What entries are of: the lines up to line m, of which `lines` holds     *)
(* those from line `first` on.                                             *)

(* A line or an entry has the number and the text of a line of the input   *)
(* that is not blank.                                                      *)
Genuine(l, lines, first) ==
    /\ l.line >= 1
    /\ KindOf(l.text) # "blank"
    /\ IsOf(l.text, l.line)
    /\ l.line >= first => l.text = lines[l.line - first + 1]

AllGenuine(all, lines, first, m) ==
    \A i \in DOMAIN all : Genuine(all[i], lines, first) /\ all[i].line <= m

Ascending(all) ==
    \A i, j \in DOMAIN all : i < j => all[i].line < all[j].line

Visible(format, kind) == kind # "blank" /\ (format = "json" => kind \in LooksJson)

(* Every line that an entry can be made of has one, and no other.          *)
Complete(all, format, lines, first, m) ==
    \A n \in first..m :
        (\E i \in DOMAIN all : all[i].line = n)
            <=> Visible(format, KindOf(lines[n - first + 1]))

(* Entry e belongs to the event of entry o, which is on the line before.   *)
Together(format, o, e) ==
    /\ format = "plain"
    /\ Event(o) # None
    /\ e.line - Event(o) <= MaxChainLines
    /\ \/ KindOf(e.text) = "frame"
       \/ KindOf(e.text) = "logcat" /\ log[Event(o)] = "logcat"

(* The i-th entry continues the one on the line before if it belongs to    *)
(* its event, and may continue one that is not there only when lines       *)
(* before it have left.                                                    *)
Rooted(all, i, format, first) ==
    /\ all[i].root # None => all[i].root < all[i].line
    /\ IF i > 1 /\ all[i - 1].line = all[i].line - 1
       THEN all[i].root = IF Together(format, all[i - 1], all[i])
                          THEN Event(all[i - 1]) ELSE None
       ELSE all[i].root = None \/ (i = 1 /\ all[i].line <= first)

AllRooted(all, format, first) ==
    \A i \in DOMAIN all : Rooted(all, i, format, first)

(* An open chain is the event of the last entry, and there is one when     *)
(* that entry is on line m and belongs to an event.                        *)
ChainIsLast(all, format, chain, first, m) ==
    IF chain # None
    THEN /\ format = "plain"
         /\ chain.root <= chain.last_line
         /\ chain.last_line <= m
         /\ chain.members = chain.last_line - chain.root
         /\ chain.logcat = (log[chain.root] = "logcat")
         /\ IF all = <<>> THEN chain.last_line < first
            ELSE /\ all[Len(all)].line = chain.last_line
                 /\ Event(all[Len(all)]) = chain.root
    ELSE format = "plain" /\ all # <<>> /\ all[Len(all)].line = m
             => Event(all[Len(all)]) = None

Done(all, format, chain, lines, first, m) ==
    /\ all \in Seq(Entry)
    /\ chain \in Chain \union {None}
    /\ AllGenuine(all, lines, first, m)
    /\ Ascending(all)
    /\ Complete(all, format, lines, first, m)
    /\ AllRooted(all, format, first)
    /\ ChainIsLast(all, format, chain, first, m)

(* The lines from line m + 1 to line n are blank, those that are there.    *)
BlankUpTo(lines, first, m, n) ==
    \A k \in first..n : k > m => KindOf(lines[k - first + 1]) = "blank"

LEMMA EntryFields ==
    ASSUME NEW all \in Seq(Entry)
    PROVE  \A i \in DOMAIN all :
               /\ all[i] \in Entry
               /\ all[i].line \in Nat
               /\ all[i].text \in Seq(Byte)
               /\ all[i].root \in Nat \union {None}
<1>1. SUFFICES ASSUME NEW i \in DOMAIN all
               PROVE  /\ all[i] \in Entry
                      /\ all[i].line \in Nat
                      /\ all[i].text \in Seq(Byte)
                      /\ all[i].root \in Nat \union {None}
    OBVIOUS
<1>2. all[i] \in Entry
    OBVIOUS
<1>3. QED
    BY <1>2 DEF Entry

LEMMA LineFields ==
    /\ \A e \in Entry : e.line \in Nat
    /\ \A l \in Line : l.line \in Nat /\ l.text \in Seq(Byte)
BY DEF Entry, Line

LEMMA KindIsLogged ==
    ASSUME NEW text \in Seq(Byte), NEW n, IsOf(text, n), KindOf(text) # "blank"
    PROVE  text # <<>> /\ KindOf(text) = log[n]
<1>1. text # <<>>
    BY DEF KindOf
<1>2. 1 \in DOMAIN text
    BY <1>1
<1>3. text[1] = [line |-> n, kind |-> log[n]]
    BY <1>2 DEF IsOf
<1>4. Head(text) = text[1]
    BY <1>1
<1>5. QED
    BY <1>1, <1>3, <1>4 DEF KindOf

(* Lines that are blank need no entry.                                     *)
LEMMA BlankKeepsLines ==
    ASSUME NEW all, \A i \in DOMAIN all : all[i].line \in Nat,
           NEW format, NEW lines, NEW first \in Nat,
           NEW m \in Nat, NEW n \in Nat, m <= n,
           AllGenuine(all, lines, first, m),
           Complete(all, format, lines, first, m),
           BlankUpTo(lines, first, m, n)
    PROVE  /\ AllGenuine(all, lines, first, n)
           /\ Complete(all, format, lines, first, n)
<1>2. AllGenuine(all, lines, first, n)
    BY DEF AllGenuine
<1>3. Complete(all, format, lines, first, n)
    <2>1. SUFFICES ASSUME NEW k \in first..n
                   PROVE  (\E i \in DOMAIN all : all[i].line = k)
                              <=> Visible(format, KindOf(lines[k - first + 1]))
        BY DEF Complete
    <2>2. CASE k <= m
        <3>1. k \in first..m
            BY <2>2
        <3>2. QED
            BY <3>1 DEF Complete
    <2>3. CASE k > m
        <3>1. KindOf(lines[k - first + 1]) = "blank"
            BY <2>3 DEF BlankUpTo
        <3>2. \A i \in DOMAIN all : all[i].line <= m
            BY DEF AllGenuine
        <3>3. \A i \in DOMAIN all : all[i].line # k
            BY <2>3, <3>2
        <3>4. QED
            BY <3>1, <3>3 DEF Visible
    <2>4. QED
        BY <2>2, <2>3
<1>4. QED
    BY <1>2, <1>3

(* Nothing continues across lines that are blank.                          *)
LEMMA BlankKeeps ==
    ASSUME NEW all, NEW format, NEW chain, NEW lines, NEW first \in Nat,
           NEW m \in Nat, NEW n \in Nat, m <= n,
           Done(all, format, chain, lines, first, m),
           BlankUpTo(lines, first, m, n),
           NEW left, left = chain \/ (left = None /\ m < n)
    PROVE  Done(all, format, left, lines, first, n)
<1>1. /\ all \in Seq(Entry)
      /\ \A i \in DOMAIN all : all[i].line \in Nat
    BY EntryFields DEF Done
<1>2. AllGenuine(all, lines, first, m) /\ Complete(all, format, lines, first, m)
    BY DEF Done
<1>3. /\ AllGenuine(all, lines, first, n)
      /\ Complete(all, format, lines, first, n)
    BY <1>1, <1>2, BlankKeepsLines
<1>4. ChainIsLast(all, format, left, first, n)
    <2>1. CASE left # None
        <3>1. left = chain /\ chain \in Chain
            BY <2>1 DEF Done
        <3>2. chain.last_line \in Nat
            BY <3>1 DEF Chain
        <3>3. ChainIsLast(all, format, chain, first, m)
            BY DEF Done
        <3>4. QED
            BY <2>1, <3>1, <3>2, <3>3 DEF ChainIsLast
    <2>2. CASE left = None /\ m < n
        <3>1. all # <<>> => Len(all) \in DOMAIN all
            BY <1>1
        <3>2. all # <<>> => all[Len(all)].line <= m
            BY <3>1 DEF Done, AllGenuine
        <3>3. all # <<>> => all[Len(all)].line # n
            BY <1>1, <2>2, <3>1, <3>2
        <3>4. QED
            BY <2>2, <3>3 DEF ChainIsLast
    <2>3. CASE left = None /\ left = chain /\ m = n
        BY <2>3 DEF Done, ChainIsLast
    <2>4. QED
        BY <2>1, <2>2, <2>3
<1>5. left \in Chain \union {None}
    BY DEF Done
<1>6. QED
    BY <1>1, <1>3, <1>4, <1>5 DEF Done

(* An entry that is appended is the last, on a line after the others.      *)
LEMMA AppendedEntry ==
    ASSUME NEW S, NEW all \in Seq(S), NEW e \in S
    PROVE  LET more == Append(all, e)
               n    == Len(all) + 1
           IN  /\ more \in Seq(S)
               /\ more # <<>>
               /\ Len(more) = n
               /\ n \in DOMAIN more
               /\ more[n] = e
               /\ \A i \in DOMAIN all : i \in DOMAIN more /\ more[i] = all[i] /\ i < n
               /\ \A i \in DOMAIN more : i \in DOMAIN all \/ i = n
               /\ DOMAIN more \subseteq Nat /\ n \in Nat
OBVIOUS

LEMMA AppendKeepsLines ==
    ASSUME NEW S, \A x \in S : x.line \in Nat,
           NEW all \in Seq(S), NEW e \in S, NEW format, NEW lines,
           NEW first \in Nat, NEW m \in Nat, m < e.line,
           AllGenuine(all, lines, first, m), Ascending(all),
           Complete(all, format, lines, first, m),
           Genuine(e, lines, first),
           BlankUpTo(lines, first, m, e.line - 1),
           Visible(format, KindOf(e.text))
    PROVE  /\ AllGenuine(Append(all, e), lines, first, e.line)
           /\ Ascending(Append(all, e))
           /\ Complete(Append(all, e), format, lines, first, e.line)
<1> DEFINE more == Append(all, e)
           n == Len(all) + 1
<1>1. /\ n \in DOMAIN more
      /\ more[n] = e
      /\ \A i \in DOMAIN all : i \in DOMAIN more /\ more[i] = all[i] /\ i < n
      /\ \A i \in DOMAIN more : i \in DOMAIN all \/ i = n
      /\ DOMAIN more \subseteq Nat /\ n \in Nat
    BY AppendedEntry
<1> HIDE DEF more, n
<1>2. /\ e.line \in Nat
      /\ \A i \in DOMAIN all : all[i].line \in Nat /\ all[i].line <= m
    <2>1. e.line \in Nat /\ \A i \in DOMAIN all : all[i] \in S
        OBVIOUS
    <2>2. QED
        BY <2>1 DEF AllGenuine
<1>3. AllGenuine(more, lines, first, e.line)
    BY <1>1, <1>2 DEF AllGenuine
<1>4. Ascending(more)
    <2>1. SUFFICES ASSUME NEW i \in DOMAIN more, NEW j \in DOMAIN more, i < j
                   PROVE  more[i].line < more[j].line
        BY DEF Ascending
    <2>2. i \in DOMAIN all
        BY <1>1, <2>1
    <2>3. CASE j \in DOMAIN all
        BY <1>1, <2>1, <2>2, <2>3 DEF Ascending
    <2>4. CASE j = n
        BY <1>1, <1>2, <2>2, <2>4
    <2>5. QED
        BY <1>1, <2>3, <2>4
<1>5. Complete(more, format, lines, first, e.line)
    <2>1. SUFFICES ASSUME NEW k \in first..e.line
                   PROVE  (\E i \in DOMAIN more : more[i].line = k)
                              <=> Visible(format, KindOf(lines[k - first + 1]))
        BY DEF Complete
    <2>2. CASE k <= m
        <3>1. k \in first..m /\ k # e.line
            BY <1>2, <2>2
        <3>2. (\E i \in DOMAIN more : more[i].line = k)
                  <=> (\E i \in DOMAIN all : all[i].line = k)
            BY <1>1, <3>1
        <3>3. QED
            BY <3>1, <3>2 DEF Complete
    <2>3. CASE k > m /\ k # e.line
        <3>1. k \in first..(e.line - 1)
            BY <1>2, <2>3
        <3>2. KindOf(lines[k - first + 1]) = "blank"
            BY <2>3, <3>1 DEF BlankUpTo
        <3>3. \A i \in DOMAIN more : more[i].line # k
            BY <1>1, <1>2, <2>3
        <3>4. QED
            BY <3>2, <3>3 DEF Visible
    <2>4. CASE k = e.line
        <3>1. k >= first
            BY <1>2
        <3>2. lines[k - first + 1] = e.text
            BY <2>4, <3>1 DEF Genuine
        <3>3. QED
            BY <1>1, <2>4, <3>2
    <2>5. QED
        BY <1>2, <2>2, <2>3, <2>4
<1>6. QED
    BY <1>3, <1>4, <1>5 DEF more

LEMMA AppendKeepsRoots ==
    ASSUME NEW all \in Seq(Entry), NEW e \in Entry, NEW format, NEW first,
           AllRooted(all, format, first),
           Rooted(Append(all, e), Len(all) + 1, format, first)
    PROVE  AllRooted(Append(all, e), format, first)
<1> DEFINE more == Append(all, e)
           n == Len(all) + 1
<1>1. \A i \in DOMAIN more : i \in DOMAIN all \/ i = n
    BY AppendedEntry
<1>2. ASSUME NEW i \in DOMAIN all PROVE Rooted(more, i, format, first)
    <2>1. more[i] = all[i] /\ (i > 1 => more[i - 1] = all[i - 1])
        OBVIOUS
    <2>2. Rooted(all, i, format, first)
        BY DEF AllRooted
    <2> HIDE DEF more
    <2>3. CASE i > 1
        BY <2>1, <2>2, <2>3 DEF Rooted
    <2>4. CASE ~(i > 1)
        BY <2>1, <2>2, <2>4 DEF Rooted
    <2>5. QED
        BY <2>3, <2>4
<1> HIDE DEF more
<1>3. QED
    BY <1>1, <1>2 DEF AllRooted, more, n

(* What the last entry, if any, and an open chain mean for line l.         *)
LEMMA LastEntry ==
    ASSUME NEW all \in Seq(Entry), NEW e \in Entry
    PROVE  LET more == Append(all, e)
           IN  /\ Len(all) \in Nat
               /\ more[Len(all) + 1] = e
               /\ all # <<>> <=> Len(all) + 1 > 1
               /\ all # <<>> => /\ more[(Len(all) + 1) - 1] = all[Len(all)]
                                /\ Len(all) \in DOMAIN all
                                /\ all[Len(all)] \in Entry
                                /\ all[Len(all)].line \in Nat
<1>1. /\ Len(all) \in Nat
      /\ all # <<>> <=> Len(all) + 1 > 1
      /\ all # <<>> => Len(all) \in DOMAIN all /\ (Len(all) + 1) - 1 = Len(all)
    OBVIOUS
<1>2. QED
    BY <1>1, EntryFields, AppendedEntry

(* A line that joins the chain belongs to the event of the entry before.   *)
LEMMA JoinKeeps ==
    ASSUME NEW all \in Seq(Entry), NEW chain \in Chain, NEW l \in Line,
           NEW first \in Nat, NEW m \in Nat, m < l.line,
           AllRooted(all, "plain", first),
           ChainIsLast(all, "plain", chain, first, m),
           Continues(chain, l), chain.members < MaxChainLines
    PROVE  LET e     == Written(l, chain.root)
               after == [chain EXCEPT !.members = @ + 1, !.last_line = l.line]
           IN  /\ AllRooted(Append(all, e), "plain", first)
               /\ ChainIsLast(Append(all, e), "plain", after, first, l.line)
<1> DEFINE e == Written(l, chain.root)
           after == [chain EXCEPT !.members = @ + 1, !.last_line = l.line]
           more == Append(all, e)
           n == Len(all) + 1
           last == all[Len(all)]
<1>1. /\ l.line \in Nat
      /\ chain.root \in Nat /\ chain.members \in Nat /\ chain.last_line \in Nat
      /\ chain.logcat \in BOOLEAN
    BY DEF Line, Chain
<1>2. e \in Entry /\ e.line = l.line /\ e.text = l.text /\ e.root = chain.root
    BY <1>1, WrittenType DEF Written
<1>3. chain # None
    BY DEF Continues
<1>4. /\ chain.root <= chain.last_line
      /\ chain.members = chain.last_line - chain.root
      /\ chain.logcat = (log[chain.root] = "logcat")
      /\ all = <<>> => chain.last_line < first
      /\ all # <<>> => last.line = chain.last_line /\ Event(last) = chain.root
    BY <1>3 DEF ChainIsLast
<1>5. /\ l.line = chain.last_line + 1
      /\ \/ KindOf(l.text) = "frame"
         \/ KindOf(l.text) = "logcat" /\ chain.logcat
    BY DEF Continues
<1>6. /\ n \in Nat
      /\ more[n] = e
      /\ all # <<>> <=> n > 1
      /\ all # <<>> => more[n - 1] = last
    BY <1>2, LastEntry
<1>7. chain.root # None /\ e.root # None
    BY <1>1, <1>2, NoneFacts
<1> HIDE DEF e, more, n, last
<1>8. Rooted(more, n, "plain", first)
    <2>1. e.root < e.line
        BY <1>1, <1>2, <1>4, <1>5
    <2>2. CASE all = <<>>
        <3>1. ~(n > 1) /\ e.line <= first
            BY <1>1, <1>2, <1>4, <1>5, <1>6, <2>2
        <3>2. n = 1
            BY <2>2 DEF n
        <3>3. QED
            BY <1>6, <2>1, <3>1, <3>2 DEF Rooted
    <2>3. CASE all # <<>>
        <3>1. n > 1 /\ more[n - 1] = last /\ last.line = e.line - 1
            BY <1>1, <1>2, <1>4, <1>5, <1>6, <2>3
        <3>2. Together("plain", last, e)
            <4>1. e.line - Event(last) <= MaxChainLines
                BY <1>1, <1>2, <1>4, <1>5, <2>3, ParserAssumption, SMTT(30)
            <4>2. QED
                BY <1>2, <1>4, <1>5, <1>7, <2>3, <4>1 DEF Together
        <3>3. QED
            BY <1>2, <1>4, <1>6, <2>1, <2>3, <3>1, <3>2 DEF Rooted
    <2>4. QED
        BY <2>2, <2>3
<1>9. AllRooted(more, "plain", first)
    BY <1>2, <1>8, AppendKeepsRoots DEF more, n
<1>10. ChainIsLast(more, "plain", after, first, l.line)
    <2>1. /\ after \in Chain
          /\ after.root = chain.root /\ after.logcat = chain.logcat
          /\ after.members = chain.members + 1 /\ after.last_line = l.line
        <3>1. after = [chain EXCEPT !.members = chain.members + 1,
                                    !.last_line = l.line]
            OBVIOUS
        <3>2. chain.members + 1 \in Nat
            BY <1>1
        <3> HIDE DEF after
        <3>3. QED
            BY <1>1, <3>1, <3>2 DEF Chain
    <2>2. after # None
        BY <2>1, NoneFacts
    <2>3. more # <<>> /\ Len(more) = n
        BY <1>2, AppendedEntry DEF more, n
    <2>4. Event(e) = chain.root
        BY <1>2, <1>7 DEF Event
    <2> HIDE DEF after
    <2>5. QED
        BY <1>1, <1>2, <1>4, <1>5, <1>6, <2>1, <2>2, <2>3, <2>4, SMTT(30) DEF ChainIsLast
<1>11. QED
    BY <1>9, <1>10 DEF e, more

(* A line that joins no chain belongs to no event but its own.             *)
LEMMA StartKeeps ==
    ASSUME NEW all \in Seq(Entry), NEW format, NEW chain \in Chain \union {None},
           NEW l \in Line, NEW first \in Nat, NEW m \in Nat, m < l.line,
           KindOf(l.text) # "blank", IsOf(l.text, l.line),
           \A i \in DOMAIN all : all[i].line <= m,
           AllRooted(all, format, first),
           ChainIsLast(all, format, chain, first, m),
           ~(/\ format = "plain" /\ Continues(chain, l)
             /\ chain.members < MaxChainLines)
    PROVE  LET e     == Written(l, None)
               after == IF format = "plain" THEN Opened(l) ELSE None
           IN  /\ AllRooted(Append(all, e), format, first)
               /\ ChainIsLast(Append(all, e), format, after, first, l.line)
<1> DEFINE e == Written(l, None)
           after == IF format = "plain" THEN Opened(l) ELSE None
           more == Append(all, e)
           n == Len(all) + 1
           last == all[Len(all)]
<1>1. l.line \in Nat /\ l.text \in Seq(Byte)
    BY DEF Line
<1>2. e \in Entry /\ e.line = l.line /\ e.text = l.text /\ e.root = None
    BY <1>1, WrittenType DEF Written
<1>3. /\ n \in Nat
      /\ more[n] = e
      /\ all # <<>> <=> n > 1
      /\ all # <<>> => more[n - 1] = last /\ last.line \in Nat /\ last.line <= m
    BY <1>2, LastEntry
<1> HIDE DEF e, more, n, last
<1>4. ASSUME all # <<>>, last.line = l.line - 1
      PROVE  ~Together(format, last, e)
    <2>1. m = last.line
        BY <1>1, <1>3, <1>4
    <2>2. SUFFICES ASSUME Together(format, last, e) PROVE FALSE
        OBVIOUS
    <2>3. /\ format = "plain" /\ Event(last) # None
          /\ l.line - Event(last) <= MaxChainLines
          /\ \/ KindOf(l.text) = "frame"
             \/ KindOf(l.text) = "logcat" /\ log[Event(last)] = "logcat"
        BY <1>2, <2>2 DEF Together
    <2>4. chain # None
        BY <1>4, <2>1, <2>3 DEF ChainIsLast, last
    <2>5. chain \in Chain
        BY <2>4
    <2>6. chain.root \in Nat /\ chain.members \in Nat /\ chain.last_line \in Nat
        BY <2>5 DEF Chain
    <2>7. /\ chain.members = chain.last_line - chain.root
          /\ chain.logcat = (log[chain.root] = "logcat")
          /\ last.line = chain.last_line /\ Event(last) = chain.root
        BY <1>4, <2>4 DEF ChainIsLast, last
    <2>8. Continues(chain, l)
        <3>1. l.line = chain.last_line + 1
            BY <1>1, <1>4, <2>6, <2>7
        <3>2. \/ KindOf(l.text) = "frame"
              \/ KindOf(l.text) = "logcat" /\ chain.logcat
            BY <2>3, <2>7
        <3>3. QED
            BY <2>4, <3>1, <3>2 DEF Continues
    <2>9. chain.members < MaxChainLines
        BY <1>1, <1>4, <2>3, <2>6, <2>7, ParserAssumption
    <2>10. QED
        BY <2>3, <2>8, <2>9
<1>5. Rooted(more, n, format, first)
    <2>1. CASE n > 1 /\ more[n - 1].line = e.line - 1
        <3>1. all # <<>> /\ more[n - 1] = last
            BY <1>3, <2>1
        <3>2. ~Together(format, last, e)
            BY <1>2, <1>4, <2>1, <3>1
        <3>3. QED
            BY <1>2, <1>3, <2>1, <3>1, <3>2 DEF Rooted
    <2>2. CASE ~(n > 1 /\ more[n - 1].line = e.line - 1)
        BY <1>2, <1>3, <2>2 DEF Rooted
    <2>3. QED
        BY <2>1, <2>2
<1>6. AllRooted(more, format, first)
    BY <1>2, <1>5, AppendKeepsRoots DEF more, n
<1>7. ChainIsLast(more, format, after, first, l.line)
    <2>1. more # <<>> /\ Len(more) = n
        BY <1>2, AppendedEntry DEF more, n
    <2>2. CASE format = "plain" /\ KindOf(l.text) \in Prefixed
        <3>1. after = [root |-> l.line, logcat |-> KindOf(l.text) = "logcat",
                       members |-> 0, last_line |-> l.line]
            BY <2>2 DEF Opened
        <3>2. Event(e) = l.line
            BY <1>2, <2>2 DEF Event
        <3>3. KindOf(l.text) = log[l.line]
            BY <1>1, KindIsLogged
        <3>4. /\ after.root = l.line /\ after.members = 0 /\ after.last_line = l.line
              /\ after.logcat = (log[l.line] = "logcat")
            BY <3>1, <3>3
        <3> HIDE DEF after
        <3>5. after.members = after.last_line - after.root
            BY <1>1, <3>4
        <3>6. after # None
            <4>1. [root |-> l.line, logcat |-> KindOf(l.text) = "logcat",
                   members |-> 0, last_line |-> l.line] \in Chain
                BY <1>1 DEF Chain
            <4>2. QED
                BY <3>1, <4>1, NoneFacts
        <3>7. /\ after.logcat = (log[after.root] = "logcat")
              /\ after.root <= after.last_line /\ after.last_line <= l.line
            BY <1>1, <3>4
        <3>8. /\ more[Len(more)].line = after.last_line
              /\ Event(more[Len(more)]) = after.root
            BY <1>2, <1>3, <2>1, <3>2, <3>4
        <3>9. QED
            BY <2>1, <2>2, <3>5, <3>6, <3>7, <3>8 DEF ChainIsLast
    <2>3. CASE format = "plain" /\ KindOf(l.text) \notin Prefixed
        <3>1. after = None
            BY <2>3 DEF Opened
        <3>2. Event(e) = None
            BY <1>2, <2>3 DEF Event
        <3> HIDE DEF after
        <3>3. QED
            BY <1>3, <2>1, <3>1, <3>2 DEF ChainIsLast
    <2>4. CASE format # "plain"
        BY <2>4 DEF ChainIsLast
    <2>5. QED
        BY <2>2, <2>3, <2>4
<1>8. QED
    BY <1>6, <1>7 DEF e, more

LEMMA ConcatAppend ==
    ASSUME NEW es \in Seq(Entry), NEW out \in Seq(Entry), NEW e \in Entry
    PROVE  es \o Append(out, e) = Append(es \o out, e) /\ es \o out \in Seq(Entry)
OBVIOUS

(* Emitting the next line that is not blank.                               *)
LEMMA EmitKeeps ==
    ASSUME NEW p \in ParserState, p.format # None, NEW es \in Seq(Entry),
           NEW lines, NEW first \in Nat, NEW m \in Nat,
           NEW l \in Line, m < l.line, Genuine(l, lines, first),
           BlankUpTo(lines, first, m, l.line - 1),
           Done(es \o p.out, p.format, p.chain, lines, first, m)
    PROVE  LET q == Emit(p, l)
           IN  /\ SameReading(p, q)
               /\ Done(es \o q.out, q.format, q.chain, lines, first, l.line)
<1> DEFINE q == Emit(p, l)
           all == es \o p.out
<1>1. /\ l.line \in Nat /\ l.text \in Seq(Byte)
      /\ KindOf(l.text) # "blank" /\ IsOf(l.text, l.line)
      /\ p.out \in Seq(Entry)
    BY DEF Line, Genuine, ParserState
<1>2. /\ all \in Seq(Entry)
      /\ p.chain \in Chain \union {None}
      /\ AllGenuine(all, lines, first, m)
      /\ Ascending(all)
      /\ Complete(all, p.format, lines, first, m)
      /\ AllRooted(all, p.format, first)
      /\ ChainIsLast(all, p.format, p.chain, first, m)
    BY DEF Done
<1>3. p.format # "plain" => p.chain = None
    BY <1>2, SMTT(30) DEF ChainIsLast
<1> HIDE DEF q
<1>4. /\ SameReading(p, q)
      /\ Malformed(p, l) => q.out = p.out /\ q.chain = None
      /\ Joins(p, l) =>
             /\ q.out = Append(p.out, Written(l, p.chain.root))
             /\ q.chain = [p.chain EXCEPT !.members = @ + 1,
                                          !.last_line = l.line]
             /\ q.chain \in Chain
      /\ ~Malformed(p, l) /\ ~Joins(p, l) =>
             /\ q.out = Append(p.out, Written(l, None))
             /\ q.chain = IF p.format = "plain" THEN Opened(l) ELSE None
    BY <1>3, EmitEffect DEF q
<1>5. q.format = p.format
    BY <1>4 DEF SameReading
<1>6. \A i \in DOMAIN all : all[i].line <= m
    BY <1>2 DEF AllGenuine
<1>7. CASE Malformed(p, l)
    <2>1. q.out = p.out /\ q.chain = None /\ p.format = "json"
        BY <1>4, <1>7 DEF Malformed
    <2>2. AllGenuine(all, lines, first, l.line)
        <3>1. \A i \in DOMAIN all : all[i].line \in Nat
            BY <1>2, EntryFields
        <3> HIDE DEF all
        <3>2. QED
            BY <1>1, <1>2, <3>1 DEF AllGenuine
    <2>3. Complete(all, p.format, lines, first, l.line)
        <3>1. SUFFICES ASSUME NEW k \in first..l.line
                       PROVE  (\E i \in DOMAIN all : all[i].line = k)
                                  <=> Visible(p.format, KindOf(lines[k - first + 1]))
            BY DEF Complete
        <3>2. CASE k <= m
            <4>1. k \in first..m
                BY <3>2
            <4> HIDE DEF all
            <4>2. QED
                BY <1>2, <4>1 DEF Complete
        <3>3. CASE k > m
            <4>1. \A i \in DOMAIN all : all[i].line \in Nat
                BY <1>2, EntryFields
            <4> HIDE DEF all
            <4>2. \A i \in DOMAIN all : all[i].line # k
                BY <1>6, <3>3, <4>1
            <4>3. CASE k = l.line
                <5>1. k >= first
                    BY <1>1
                <5>2. lines[k - first + 1] = l.text
                    BY <4>3, <5>1 DEF Genuine
                <5>3. QED
                    BY <1>7, <4>2, <5>2 DEF Malformed, Visible
            <4>4. CASE k # l.line
                <5>1. k \in first..(l.line - 1)
                    BY <1>1, <4>4
                <5>2. KindOf(lines[k - first + 1]) = "blank"
                    BY <3>3, <5>1 DEF BlankUpTo
                <5>3. QED
                    BY <4>2, <5>2 DEF Visible
            <4>5. QED
                BY <4>3, <4>4
        <3>4. QED
            BY <3>2, <3>3
    <2>4. ChainIsLast(all, p.format, None, first, l.line)
        BY <2>1 DEF ChainIsLast
    <2> HIDE DEF all
    <2>5. Done(all, p.format, None, lines, first, l.line)
        BY <1>2, <2>2, <2>3, <2>4 DEF Done
    <2>6. QED
        BY <1>4, <1>5, <2>1, <2>5 DEF q, all
<1>8. CASE Joins(p, l)
    <2> DEFINE e == Written(l, p.chain.root)
    <2>1. p.format = "plain" /\ p.chain \in Chain /\ Continues(p.chain, l)
              /\ p.chain.members < MaxChainLines
        BY <1>2, <1>8 DEF Joins, Continues
    <2>2. p.chain.root \in Nat
        BY <2>1 DEF Chain
    <2>3. e \in Entry /\ e.line = l.line /\ e.text = l.text
        BY <2>2, WrittenType DEF Written
    <2>4. q.out = Append(p.out, e) /\ q.chain \in Chain
        BY <1>4, <1>8
    <2>5. es \o q.out = Append(all, e)
        BY <1>1, <2>3, <2>4, ConcatAppend
    <2> HIDE DEF all
    <2>6. /\ AllRooted(Append(all, e), "plain", first)
          /\ ChainIsLast(Append(all, e), "plain", q.chain, first, l.line)
        <3>1. /\ AllRooted(all, "plain", first)
              /\ ChainIsLast(all, "plain", p.chain, first, m)
            BY <1>2, <2>1
        <3>2. q.chain = [p.chain EXCEPT !.members = @ + 1, !.last_line = l.line]
            BY <1>4, <1>8
        <3>3. p.chain \in Chain /\ Continues(p.chain, l)
              /\ p.chain.members < MaxChainLines
            BY <2>1
        <3>4. /\ AllRooted(Append(all, Written(l, p.chain.root)), "plain", first)
              /\ ChainIsLast(Append(all, Written(l, p.chain.root)), "plain",
                             [p.chain EXCEPT !.members = @ + 1, !.last_line = l.line],
                             first, l.line)
            <4> DEFINE chain == p.chain
            <4>1. /\ chain \in Chain
                  /\ Continues(chain, l) /\ chain.members < MaxChainLines
                  /\ AllRooted(all, "plain", first)
                  /\ ChainIsLast(all, "plain", chain, first, m)
                BY <3>1, <3>3
            <4>2. all \in Seq(Entry)
                BY <1>2
            <4> HIDE DEF chain
            <4>3. /\ AllRooted(Append(all, Written(l, chain.root)), "plain", first)
                  /\ ChainIsLast(Append(all, Written(l, chain.root)), "plain",
                                 [chain EXCEPT !.members = @ + 1, !.last_line = l.line],
                                 first, l.line)
                BY <4>1, <4>2, JoinKeeps
            <4>4. QED
                BY <4>3 DEF chain
        <3>5. QED
            BY <3>2, <3>4
    <2> HIDE DEF e
    <2>7. Genuine(e, lines, first) /\ Visible(p.format, KindOf(e.text))
        BY <1>1, <2>1, <2>3 DEF Genuine, Visible
    <2>8. /\ AllGenuine(Append(all, e), lines, first, l.line)
          /\ Ascending(Append(all, e))
          /\ Complete(Append(all, e), p.format, lines, first, l.line)
        <3>1. m < e.line /\ BlankUpTo(lines, first, m, e.line - 1)
            BY <2>3
        <3>2. QED
            BY <1>2, <2>3, <2>7, <3>1, LineFields, AppendKeepsLines
    <2>9. Append(all, e) \in Seq(Entry)
        BY <1>2, <2>3
    <2>10. Done(Append(all, e), p.format, q.chain, lines, first, l.line)
        BY <2>1, <2>4, <2>6, <2>8, <2>9 DEF Done
    <2>11. QED
        BY <1>4, <1>5, <2>5, <2>10 DEF q
<1>9. CASE ~Malformed(p, l) /\ ~Joins(p, l)
    <2> DEFINE e == Written(l, None)
    <2>1. e \in Entry /\ e.line = l.line /\ e.text = l.text
        BY WrittenType DEF Written
    <2>2. /\ q.out = Append(p.out, e)
          /\ q.chain = IF p.format = "plain" THEN Opened(l) ELSE None
        BY <1>4, <1>9
    <2>3. es \o q.out = Append(all, e)
        BY <1>1, <2>1, <2>2, ConcatAppend
    <2>4. ~(/\ p.format = "plain" /\ Continues(p.chain, l)
            /\ p.chain.members < MaxChainLines)
        BY <1>9 DEF Joins
    <2> HIDE DEF all
    <2>5. /\ AllRooted(Append(all, e), p.format, first)
          /\ ChainIsLast(Append(all, e), p.format,
                         IF p.format = "plain" THEN Opened(l) ELSE None,
                         first, l.line)
        BY <1>1, <1>2, <1>6, <2>4, StartKeeps
    <2>6. q.chain \in Chain \union {None}
        BY <2>2, OpenedType
    <2> HIDE DEF e
    <2>7. Genuine(e, lines, first) /\ Visible(p.format, KindOf(e.text))
        BY <1>1, <1>9, <2>1 DEF Genuine, Visible, Malformed
    <2>8. /\ AllGenuine(Append(all, e), lines, first, l.line)
          /\ Ascending(Append(all, e))
          /\ Complete(Append(all, e), p.format, lines, first, l.line)
        <3>1. m < e.line /\ BlankUpTo(lines, first, m, e.line - 1)
            BY <2>1
        <3>2. QED
            BY <1>2, <2>1, <2>7, <3>1, LineFields, AppendKeepsLines
    <2>9. Append(all, e) \in Seq(Entry)
        BY <1>2, <2>1
    <2>10. Done(Append(all, e), p.format, q.chain, lines, first, l.line)
        BY <2>2, <2>5, <2>6, <2>8, <2>9 DEF Done
    <2>11. QED
        BY <1>4, <1>5, <2>3, <2>10 DEF q
<1>10. QED
    BY <1>7, <1>8, <1>9

-----------------------------------------------------------------------------
(* The opening lines held for detection, and their replay.                 *)

Held(p, es, lines, first, m) ==
    /\ es = <<>>
    /\ p.out = <<>>
    /\ p.chain = None
    /\ AllGenuine(p.sample, lines, first, m)
    /\ Ascending(p.sample)
    /\ Complete(p.sample, None, lines, first, m)

(* The parser has read the lines up to line m; `es` are the entries it     *)
(* returned before.                                                        *)
Reading(p, es, lines, first, m) ==
    /\ p \in ParserState
    /\ p.line_no = m
    /\ IF p.format = None THEN Held(p, es, lines, first, m)
       ELSE /\ p.sample = <<>>
            /\ Done(es \o p.out, p.format, p.chain, lines, first, m)

LEMMA DetectsFormat == \A sample : Detect(sample) \in Format
BY DEF Detect, Format

(* The state the replay begins in.                                         *)
LEMMA ReplayBegins ==
    ASSUME NEW p \in ParserState, NEW format \in Format
    PROVE  LET q == [p EXCEPT !.format = format, !.sample = <<>>]
           IN  /\ q \in ParserState
               /\ q.format = format /\ q.sample = <<>>
               /\ q.pending = p.pending /\ q.line_no = p.line_no
               /\ q.chain = p.chain /\ q.out = p.out
               /\ Balance(q) = Balance(p) + Len(p.sample)
<1> DEFINE q == [p EXCEPT !.format = format, !.sample = <<>>]
<1>1. <<>> \in Seq(Line) /\ format \in Format \union {None} /\ Len(<<>>) = 0
    OBVIOUS
<1>2. /\ q \in ParserState
      /\ q.format = format /\ q.sample = <<>>
      /\ q.pending = p.pending /\ q.line_no = p.line_no
      /\ q.chain = p.chain /\ q.out = p.out
      /\ q.blank_lines = p.blank_lines /\ q.diagnostics = p.diagnostics
      /\ q.entries_emitted = p.entries_emitted
    BY <1>1 DEF ParserState
<1> HIDE DEF q
<1>3. Balance(q) = Balance(p) + Len(p.sample)
    <2> DEFINE a == p.line_no
               b == p.entries_emitted
               c == p.blank_lines
               d == p.diagnostics["malformed"]
               e == Len(p.sample)
    <2>1. Balance(q) = a - (b + c + d + 0)
        BY <1>1, <1>2 DEF Balance
    <2>2. Balance(p) = a - (b + c + d + e)
        BY DEF Balance
    <2>3. a \in Nat /\ b \in Nat /\ c \in Nat /\ d \in Nat /\ e \in Nat
        BY DEF ParserState, Reason
    <2> HIDE DEF a, b, c, d
    <2>4. QED
        BY <2>1, <2>2, <2>3
<1>4. QED
    BY <1>2, <1>3 DEF q

(* The number of the k-th held line, 0 before the first.                   *)
LineAt(sample, k) == IF k = 0 THEN 0 ELSE sample[k].line

(* Lines between two held ones are blank.                                  *)
LEMMA BlankBetween ==
    ASSUME NEW sample \in Seq(Line), NEW lines, NEW first \in Nat, NEW m \in Nat,
           Ascending(sample), Complete(sample, None, lines, first, m),
           NEW k \in 0..Len(sample),
           NEW n \in Nat, n <= m,
           k < Len(sample) => n < sample[k + 1].line
    PROVE  BlankUpTo(lines, first, LineAt(sample, k), n)
<1> DEFINE after == LineAt(sample, k)
<1>1. SUFFICES ASSUME NEW j \in first..n, j > after
               PROVE  KindOf(lines[j - first + 1]) = "blank"
    BY DEF BlankUpTo
<1>2. \A i \in DOMAIN sample : sample[i].line \in Nat
    BY LineFields
<1>3. ASSUME NEW i \in DOMAIN sample PROVE sample[i].line # j
    <2>1. CASE i <= k
        <3>1. k \in DOMAIN sample /\ k # 0
            BY <2>1
        <3>2. i = k \/ sample[i].line < sample[k].line
            BY <2>1, <3>1 DEF Ascending
        <3>3. QED
            BY <1>1, <1>2, <3>1, <3>2 DEF LineAt
    <2>2. CASE i > k
        <3>1. k + 1 \in DOMAIN sample /\ k < Len(sample)
            BY <2>2
        <3>2. i = k + 1 \/ sample[k + 1].line < sample[i].line
            BY <2>2, <3>1 DEF Ascending
        <3>3. QED
            BY <1>1, <1>2, <3>1, <3>2
    <2>3. QED
        BY <2>1, <2>2
<1>4. j \in first..m
    OBVIOUS
<1>5. ~Visible(None, KindOf(lines[j - first + 1]))
    BY <1>3, <1>4 DEF Complete
<1>6. None # "json"
    BY NoneFacts DEF Format
<1>7. QED
    BY <1>5, <1>6 DEF Visible

(* What a replay makes of a sample.                                        *)
LEMMA Replayed ==
    ASSUME NEW p \in ParserState, NEW lines, NEW first \in Nat, first >= 1,
           NEW m \in Nat, Held(p, <<>>, lines, first, m)
    PROVE  LET q == FinalizeDetection(p)
           IN  /\ q \in ParserState
               /\ q.format \in Format
               /\ q.sample = <<>>
               /\ q.pending = p.pending
               /\ q.line_no = p.line_no
               /\ Balance(q) = Balance(p)
               /\ Done(<<>> \o q.out, q.format, q.chain, lines, first, m)
<1> DEFINE n == Len(p.sample)
           format == Detect(p.sample)
           base == [p EXCEPT !.format = format, !.sample = <<>>]
           at(k) == LineAt(p.sample, k)
           stage == [k \in 0..n |->
               {q \in ParserState :
                   /\ q.format = format
                   /\ q.sample = <<>>
                   /\ q.pending = p.pending
                   /\ q.line_no = p.line_no
                   /\ Balance(q) = Balance(p) + n - k
                   /\ Done(<<>> \o q.out, format, q.chain, lines, first, at(k))}]
<1>1. /\ p.sample \in Seq(Line) /\ p.out = <<>> /\ p.chain = None
      /\ AllGenuine(p.sample, lines, first, m)
      /\ Ascending(p.sample)
      /\ Complete(p.sample, None, lines, first, m)
    BY DEF Held, ParserState
<1>2. format \in Format /\ format # None
    BY DetectsFormat, NoneFacts
<1>3. /\ n \in Nat /\ DOMAIN p.sample = 1..n
      /\ \A k \in 1..n : /\ p.sample[k] \in Line
                         /\ p.sample[k].line \in Nat
                         /\ p.sample[k].line <= m
                         /\ Genuine(p.sample[k], lines, first)
    BY <1>1, LineFields DEF AllGenuine
<1>4. Balance(p) \in Int
    BY DEF Balance, ParserState, Reason
<1>5. \A k \in 0..n : at(k) \in Nat /\ at(k) <= m
    BY <1>3 DEF LineAt
<1>6. base \in stage[0]
    <2>1. /\ base \in ParserState
          /\ base.format = format /\ base.sample = <<>>
          /\ base.pending = p.pending /\ base.line_no = p.line_no
          /\ base.chain = p.chain /\ base.out = p.out
          /\ Balance(base) = Balance(p) + n
        BY <1>2, ReplayBegins
    <2>2. Done(<<>> \o base.out, format, base.chain, lines, first, 0)
        <3>1. <<>> \o base.out = <<>> /\ base.chain = None
            BY <1>1, <2>1
        <3>2. <<>> \in Seq(Entry) /\ DOMAIN <<>> = {}
            OBVIOUS
        <3>3. AllGenuine(<<>>, lines, first, 0) /\ Ascending(<<>>)
                  /\ AllRooted(<<>>, format, first)
            BY <3>2 DEF AllGenuine, Ascending, AllRooted
        <3>4. Complete(<<>>, format, lines, first, 0)
            <4>1. first..0 = {}
                OBVIOUS
            <4>2. QED
                BY <4>1 DEF Complete
        <3>5. ChainIsLast(<<>>, format, None, first, 0)
            BY DEF ChainIsLast
        <3>6. QED
            BY <3>1, <3>2, <3>3, <3>4, <3>5 DEF Done
    <2>3. Balance(p) + n - 0 = Balance(p) + n /\ 0 \in 0..n /\ at(0) = 0
        BY <1>3, <1>4 DEF LineAt
    <2> HIDE DEF base, format, n, at
    <2>4. QED
        BY <2>1, <2>2, <2>3
<1>7. \A k \in 1..n : \A a \in stage[k - 1] : Emit(a, p.sample[k]) \in stage[k]
    <2>1. SUFFICES ASSUME NEW k \in 1..n, NEW a \in stage[k - 1]
                   PROVE  Emit(a, p.sample[k]) \in stage[k]
        OBVIOUS
    <2> DEFINE l == p.sample[k]
               q == Emit(a, l)
    <2>2. k - 1 \in 0..n /\ k \in 0..n /\ k - 1 \in 0..Len(p.sample)
        BY <1>3
    <2>3. /\ a \in ParserState
          /\ a.format = format
          /\ a.sample = <<>>
          /\ a.pending = p.pending
          /\ a.line_no = p.line_no
          /\ Balance(a) = Balance(p) + n - (k - 1)
          /\ Done(<<>> \o a.out, a.format, a.chain, lines, first, at(k - 1))
        BY <2>2
    <2>4. l \in Line /\ l.line \in Nat /\ l.line <= m /\ Genuine(l, lines, first)
        BY <1>3
    <2>5. at(k - 1) < l.line /\ at(k) = l.line
        <3>1. CASE k = 1
            BY <2>4, <3>1 DEF Genuine, LineAt
        <3>2. CASE k # 1
            <4>1. k - 1 \in DOMAIN p.sample /\ k \in DOMAIN p.sample /\ k - 1 < k
                BY <1>3, <3>2
            <4>2. p.sample[k - 1].line < p.sample[k].line
                BY <1>1, <4>1 DEF Ascending
            <4>3. QED
                BY <3>2, <4>2 DEF LineAt
        <3>3. QED
            BY <3>1, <3>2
    <2>6. BlankUpTo(lines, first, at(k - 1), l.line - 1)
        <3>1. l.line - 1 \in Nat /\ l.line - 1 <= m
            BY <2>4 DEF Genuine
        <3>2. (k - 1) + 1 = k /\ l.line - 1 < l.line
            BY <2>4
        <3>3. QED
            BY <1>1, <2>2, <3>1, <3>2, BlankBetween
    <2>7. at(k - 1) \in Nat
        BY <1>5, <2>2
    <2>8. <<>> \in Seq(Entry) /\ a.format # None
        BY <1>2, <2>3
    <2> HIDE DEF at, l, q, format
    <2>9. /\ SameReading(a, q)
          /\ Done(<<>> \o q.out, q.format, q.chain, lines, first, l.line)
        BY <2>3, <2>4, <2>5, <2>6, <2>7, <2>8, EmitKeeps DEF q
    <2>10. /\ q \in ParserState
           /\ q.format = format /\ q.sample = <<>> /\ q.pending = p.pending
           /\ q.line_no = p.line_no
           /\ Balance(q) = Balance(a) - 1
        BY <2>3, <2>9 DEF SameReading
    <2>11. Balance(q) = Balance(p) + n - k
        BY <1>3, <1>4, <2>3, <2>10
    <2>12. q \in stage[k]
        BY <2>2, <2>5, <2>9, <2>10, <2>11
    <2>13. QED
        BY <2>12 DEF q, l
<1>8. FinalizeDetection(p) = Emits!Fold(base, p.sample)
    BY EmitFold DEF FinalizeDetection
<1> DEFINE q == FinalizeDetection(p)
<1> HIDE DEF stage, base, q
<1>9. q \in stage[n]
    BY <1>3, <1>6, <1>7, <1>8, Emits!FoldReaches DEF q
<1>10. /\ q \in ParserState
       /\ q.format = format
       /\ q.sample = <<>>
       /\ q.pending = p.pending
       /\ q.line_no = p.line_no
       /\ Balance(q) = Balance(p) + n - n
       /\ Done(<<>> \o q.out, format, q.chain, lines, first, at(n))
    <2>1. n \in 0..n
        BY <1>3
    <2> HIDE DEF at, format, n
    <2>2. QED
        BY <1>9, <2>1 DEF stage
<1>11. Done(<<>> \o q.out, format, q.chain, lines, first, m)
    <2>1. at(n) \in Nat /\ at(n) <= m
        BY <1>3, <1>5
    <2>2. BlankUpTo(lines, first, at(n), m)
        <3> DEFINE sample == p.sample
        <3>1. /\ sample \in Seq(Line) /\ Ascending(sample)
              /\ Complete(sample, None, lines, first, m)
              /\ n = Len(sample) /\ n \in 0..Len(sample) /\ ~(n < Len(sample))
            BY <1>1, <1>3
        <3> HIDE DEF sample, n
        <3>2. BlankUpTo(lines, first, LineAt(sample, n), m)
            BY <3>1, BlankBetween
        <3>3. QED
            BY <3>2 DEF sample
    <2> HIDE DEF at, format
    <2>3. QED
        BY <1>10, <2>1, <2>2, BlankKeeps
<1>12. Balance(q) = Balance(p)
    BY <1>3, <1>4, <1>10
<1>13. QED
    BY <1>2, <1>10, <1>11, <1>12 DEF q

-----------------------------------------------------------------------------
(* A line that is read.                                                    *)

Read(p, text) ==
    [p EXCEPT !.line_no = @ + 1,
              !.diagnostics["encoding"] =
                  @ + IF KindOf(text) = "latin" THEN 1 ELSE 0]

LEMMA ReadType ==
    ASSUME NEW p \in ParserState, NEW text
    PROVE  LET r == Read(p, text)
           IN  /\ r \in ParserState
               /\ r.format = p.format /\ r.sample = p.sample
               /\ r.pending = p.pending /\ r.chain = p.chain /\ r.out = p.out
               /\ r.line_no = p.line_no + 1
               /\ Balance(r) = Balance(p) + 1
<1> DEFINE r == Read(p, text)
           x == IF KindOf(text) = "latin" THEN 1 ELSE 0
           noted == [p.diagnostics EXCEPT !["encoding"] = p.diagnostics["encoding"] + x]
<1>1. /\ p.diagnostics \in [Reason -> Nat] /\ p.line_no + 1 \in Nat
      /\ "encoding" \in Reason /\ "malformed" \in Reason /\ x \in Nat
    BY DEF ParserState, Reason
<1>2. /\ noted \in [Reason -> Nat]
      /\ noted["malformed"] = p.diagnostics["malformed"]
    <2> HIDE DEF x
    <2>1. p.diagnostics["encoding"] + x \in Nat
        BY <1>1
    <2>2. QED
        BY <1>1, <2>1
<1>3. r = [p EXCEPT !.line_no = p.line_no + 1, !.diagnostics = noted]
    BY DEF Read
<1> HIDE DEF r, noted
<1>4. /\ r \in ParserState
      /\ r.format = p.format /\ r.sample = p.sample
      /\ r.pending = p.pending /\ r.chain = p.chain /\ r.out = p.out
      /\ r.line_no = p.line_no + 1
      /\ r.entries_emitted = p.entries_emitted /\ r.blank_lines = p.blank_lines
      /\ r.diagnostics = noted
    BY <1>1, <1>2, <1>3 DEF ParserState
<1>5. Balance(r) = Balance(p) + 1
    <2> DEFINE a == p.line_no
               b == p.entries_emitted
               c == p.blank_lines
               d == p.diagnostics["malformed"]
               e == Len(p.sample)
    <2>1. Balance(r) = (a + 1) - (b + c + d + e)
        BY <1>2, <1>4 DEF Balance
    <2>2. Balance(p) = a - (b + c + d + e)
        BY DEF Balance
    <2>3. a \in Nat /\ b \in Nat /\ c \in Nat /\ d \in Nat /\ e \in Nat
        BY DEF ParserState, Reason
    <2> HIDE DEF a, b, c, d, e
    <2>4. QED
        BY <2>1, <2>2, <2>3
<1>6. QED
    BY <1>4, <1>5 DEF r

LEMMA BlankType ==
    ASSUME NEW p \in ParserState
    PROVE  LET q == [p EXCEPT !.blank_lines = @ + 1, !.chain = None]
           IN  /\ q \in ParserState
               /\ q.format = p.format /\ q.sample = p.sample
               /\ q.pending = p.pending /\ q.out = p.out
               /\ q.line_no = p.line_no
               /\ q.chain = None
               /\ Balance(q) = Balance(p) - 1
<1> DEFINE q == [p EXCEPT !.blank_lines = @ + 1, !.chain = None]
<1>1. p.blank_lines + 1 \in Nat /\ None \in Chain \union {None}
    BY DEF ParserState
<1>2. q = [p EXCEPT !.blank_lines = p.blank_lines + 1, !.chain = None]
    OBVIOUS
<1> HIDE DEF q
<1>3. /\ q \in ParserState
      /\ q.format = p.format /\ q.sample = p.sample
      /\ q.pending = p.pending /\ q.out = p.out
      /\ q.line_no = p.line_no
      /\ q.chain = None
      /\ q.entries_emitted = p.entries_emitted
      /\ q.blank_lines = p.blank_lines + 1
      /\ q.diagnostics = p.diagnostics
    BY <1>1, <1>2 DEF ParserState
<1>4. Balance(q) = Balance(p) - 1
    <2> DEFINE a == p.line_no
               b == p.entries_emitted
               c == p.blank_lines
               d == p.diagnostics["malformed"]
               e == Len(p.sample)
    <2>1. Balance(q) = a - (b + (c + 1) + d + e)
        BY <1>3 DEF Balance
    <2>2. Balance(p) = a - (b + c + d + e)
        BY DEF Balance
    <2>3. a \in Nat /\ b \in Nat /\ c \in Nat /\ d \in Nat /\ e \in Nat
        BY DEF ParserState, Reason
    <2> HIDE DEF a, b, c, d, e
    <2>4. QED
        BY <2>1, <2>2, <2>3
<1>5. QED
    BY <1>3, <1>4 DEF q

LEMMA HoldType ==
    ASSUME NEW p \in ParserState, NEW l \in Line
    PROVE  LET q == [p EXCEPT !.sample = Append(@, l)]
           IN  /\ q \in ParserState
               /\ q.format = p.format
               /\ q.sample = Append(p.sample, l)
               /\ q.pending = p.pending /\ q.out = p.out
               /\ q.line_no = p.line_no /\ q.chain = p.chain
               /\ Balance(q) = Balance(p) - 1
<1> DEFINE q == [p EXCEPT !.sample = Append(@, l)]
           more == Append(p.sample, l)
<1>1. /\ more \in Seq(Line)
      /\ Len(more) = Len(p.sample) + 1
    BY DEF ParserState
<1>2. q = [p EXCEPT !.sample = more]
    OBVIOUS
<1> HIDE DEF q, more
<1>3. /\ q \in ParserState
      /\ q.format = p.format
      /\ q.sample = more
      /\ q.pending = p.pending /\ q.out = p.out
      /\ q.line_no = p.line_no /\ q.chain = p.chain
      /\ q.entries_emitted = p.entries_emitted
      /\ q.blank_lines = p.blank_lines
      /\ q.diagnostics = p.diagnostics
    BY <1>1, <1>2 DEF ParserState
<1>4. Balance(q) = Balance(p) - 1
    <2> DEFINE a == p.line_no
               b == p.entries_emitted
               c == p.blank_lines
               d == p.diagnostics["malformed"]
               e == Len(p.sample)
    <2>1. Balance(q) = a - (b + c + d + (e + 1))
        BY <1>1, <1>3 DEF Balance
    <2>2. Balance(p) = a - (b + c + d + e)
        BY DEF Balance
    <2>3. a \in Nat /\ b \in Nat /\ c \in Nat /\ d \in Nat /\ e \in Nat
        BY DEF ParserState, Reason
    <2> HIDE DEF a, b, c, d, e
    <2>4. QED
        BY <2>1, <2>2, <2>3
<1>5. QED
    BY <1>3, <1>4 DEF q, more

LEMMA ReplayedReading ==
    ASSUME NEW p \in ParserState, NEW lines, NEW first \in Nat, first >= 1,
           NEW m \in Nat, Held(p, <<>>, lines, first, m), p.line_no = m
    PROVE  LET q == FinalizeDetection(p)
           IN  /\ Reading(q, <<>>, lines, first, m)
               /\ q.format # None
               /\ q.pending = p.pending
               /\ Balance(q) = Balance(p)
<1> DEFINE q == FinalizeDetection(p)
<1>1. /\ q \in ParserState
      /\ q.format \in Format
      /\ q.sample = <<>>
      /\ q.pending = p.pending
      /\ q.line_no = p.line_no
      /\ Balance(q) = Balance(p)
      /\ Done(<<>> \o q.out, q.format, q.chain, lines, first, m)
    BY Replayed
<1>2. q.format # None
    BY <1>1, NoneFacts
<1> HIDE DEF q
<1>3. QED
    BY <1>1, <1>2 DEF Reading, q

(* Parser::consume_line on the line after line m.                          *)
LEMMA ConsumeKeeps ==
    ASSUME NEW p, NEW es \in Seq(Entry), NEW lines, NEW first \in Nat, first >= 1,
           NEW m \in Nat, first <= m + 1, Reading(p, es, lines, first, m),
           NEW text \in Seq(Byte), IsOf(text, m + 1),
           text = lines[(m + 1) - first + 1]
    PROVE  LET q == Consume(p, text)
           IN  /\ Reading(q, es, lines, first, m + 1)
               /\ q.pending = p.pending
               /\ Balance(q) = Balance(p)
               /\ p.format # None => q.format # None
<1> DEFINE q == Consume(p, text)
           r == Read(p, text)
           l == [line |-> p.line_no + 1, text |-> text]
           held == [r EXCEPT !.sample = Append(@, l)]
<1>1. p \in ParserState /\ p.line_no = m
    BY DEF Reading
<1>2. Balance(p) \in Int
    BY <1>1, SMTT(30) DEF Balance, ParserState, Reason
<1>3. /\ r \in ParserState
      /\ r.format = p.format /\ r.sample = p.sample
      /\ r.pending = p.pending /\ r.chain = p.chain /\ r.out = p.out
      /\ r.line_no = m + 1
      /\ Balance(r) = Balance(p) + 1
    BY <1>1, ReadType
<1>4. q = IF KindOf(text) = "blank"
          THEN [r EXCEPT !.blank_lines = @ + 1, !.chain = None]
          ELSE IF p.format # None THEN Emit(r, l)
          ELSE IF Len(held.sample) >= SampleSize THEN FinalizeDetection(held)
          ELSE held
    BY DEF Consume, Read
<1>5. l \in Line /\ l.line = m + 1 /\ l.text = text
    BY <1>1 DEF Line
<1>6. m + 1 \in Nat /\ m < m + 1 /\ m <= m + 1 /\ (m + 1) - 1 = m
    OBVIOUS
<1> HIDE DEF r, l, q
<1>7. CASE KindOf(text) = "blank"
    <2>1. q = [r EXCEPT !.blank_lines = @ + 1, !.chain = None]
        BY <1>4, <1>7
    <2>2. /\ q \in ParserState
          /\ q.format = r.format /\ q.sample = r.sample
          /\ q.pending = r.pending /\ q.out = r.out
          /\ q.line_no = r.line_no
          /\ q.chain = None
          /\ Balance(q) = Balance(r) - 1
        BY <1>3, <2>1, BlankType
    <2>3. BlankUpTo(lines, first, m, m + 1)
        BY <1>7 DEF BlankUpTo
    <2>4. CASE p.format = None
        <3>1. Held(p, es, lines, first, m)
            BY <2>4 DEF Reading
        <3>2. \A i \in DOMAIN p.sample : p.sample[i].line \in Nat
            BY <1>1, LineFields DEF ParserState
        <3>3. /\ AllGenuine(p.sample, lines, first, m + 1)
              /\ Complete(p.sample, None, lines, first, m + 1)
            <4>1. /\ AllGenuine(p.sample, lines, first, m)
                  /\ Complete(p.sample, None, lines, first, m)
                BY <3>1 DEF Held
            <4>2. QED
                BY <1>6, <2>3, <3>2, <4>1, BlankKeepsLines
        <3>4. Held(q, es, lines, first, m + 1)
            BY <1>3, <2>2, <3>1, <3>3 DEF Held
        <3>5. Reading(q, es, lines, first, m + 1)
            BY <1>3, <2>2, <2>4, <3>4 DEF Reading
        <3>6. QED
            BY <1>2, <1>3, <2>2, <2>4, <3>5 DEF q
    <2>5. CASE p.format # None
        <3>1. p.sample = <<>> /\ Done(es \o p.out, p.format, p.chain, lines, first, m)
            BY <2>5 DEF Reading
        <3>2. Done(es \o p.out, p.format, None, lines, first, m + 1)
            BY <1>6, <2>3, <3>1, BlankKeeps
        <3>3. Reading(q, es, lines, first, m + 1)
            BY <1>3, <2>2, <2>5, <3>1, <3>2 DEF Reading
        <3>4. QED
            BY <1>2, <1>3, <2>2, <2>5, <3>3 DEF q
    <2>6. QED
        BY <2>4, <2>5
<1>8. CASE KindOf(text) # "blank"
    <2>1. Genuine(l, lines, first)
        BY <1>5, <1>8 DEF Genuine
    <2>2. BlankUpTo(lines, first, m, m)
        BY DEF BlankUpTo
    <2>3. CASE p.format # None
        <3>1. p.sample = <<>> /\ Done(es \o p.out, p.format, p.chain, lines, first, m)
            BY <2>3 DEF Reading
        <3>2. q = Emit(r, l)
            BY <1>4, <1>8, <2>3
        <3>3. /\ SameReading(r, q)
              /\ Done(es \o q.out, q.format, q.chain, lines, first, m + 1)
            BY <1>3, <1>5, <1>6, <2>1, <2>2, <2>3, <3>1, <3>2, EmitKeeps
        <3>4. /\ q \in ParserState
              /\ q.format = r.format
              /\ q.sample = r.sample
              /\ q.pending = r.pending
              /\ q.line_no = r.line_no
              /\ Balance(q) = Balance(r) - 1
            BY <3>3 DEF SameReading
        <3>5. Reading(q, es, lines, first, m + 1)
            BY <1>3, <2>3, <3>1, <3>3, <3>4 DEF Reading
        <3>6. QED
            BY <1>2, <1>3, <2>3, <3>4, <3>5 DEF q
    <2>4. CASE p.format = None
        <3>1. Held(p, es, lines, first, m)
            BY <2>4 DEF Reading
        <3>2. /\ held \in ParserState
              /\ held.format = r.format
              /\ held.sample = Append(r.sample, l)
              /\ held.pending = r.pending /\ held.out = r.out
              /\ held.line_no = r.line_no /\ held.chain = r.chain
              /\ Balance(held) = Balance(r) - 1
            BY <1>3, <1>5, HoldType
        <3> HIDE DEF held
        <3>3. /\ AllGenuine(Append(p.sample, l), lines, first, m + 1)
              /\ Ascending(Append(p.sample, l))
              /\ Complete(Append(p.sample, l), None, lines, first, m + 1)
            <4>1. /\ AllGenuine(p.sample, lines, first, m) /\ Ascending(p.sample)
                  /\ Complete(p.sample, None, lines, first, m)
                  /\ p.sample \in Seq(Line)
                BY <1>1, <3>1 DEF Held, ParserState
            <4>2. Visible(None, KindOf(l.text))
                BY <1>5, <1>8, NoneFacts DEF Visible, Format
            <4>3. m < l.line /\ BlankUpTo(lines, first, m, l.line - 1)
                BY <1>5, <1>6, <2>2
            <4>4. \A x \in Line : x.line \in Nat
                BY LineFields
            <4>5. /\ AllGenuine(Append(p.sample, l), lines, first, l.line)
                  /\ Ascending(Append(p.sample, l))
                  /\ Complete(Append(p.sample, l), None, lines, first, l.line)
                <5> DEFINE sample == p.sample
                <5>1. /\ AllGenuine(sample, lines, first, m) /\ Ascending(sample)
                      /\ Complete(sample, None, lines, first, m)
                      /\ sample \in Seq(Line)
                    BY <4>1
                <5> HIDE DEF sample
                <5>2. /\ AllGenuine(Append(sample, l), lines, first, l.line)
                      /\ Ascending(Append(sample, l))
                      /\ Complete(Append(sample, l), None, lines, first, l.line)
                    BY <1>5, <2>1, <4>2, <4>3, <4>4, <5>1, AppendKeepsLines
                <5>3. QED
                    BY <5>2 DEF sample
            <4>6. QED
                BY <1>5, <4>5
        <3>4. es = <<>> /\ Held(held, <<>>, lines, first, m + 1)
            BY <1>3, <3>1, <3>2, <3>3 DEF Held
        <3>5. CASE Len(held.sample) >= SampleSize
            <4>1. q = FinalizeDetection(held)
                BY <1>4, <1>8, <2>4, <3>5
            <4>2. /\ Reading(q, <<>>, lines, first, m + 1)
                  /\ q.pending = held.pending
                  /\ Balance(q) = Balance(held)
                BY <1>3, <1>6, <3>2, <3>4, <4>1, ReplayedReading
            <4>3. QED
                BY <1>2, <1>3, <2>4, <3>2, <3>4, <4>2 DEF q
        <3>6. CASE ~(Len(held.sample) >= SampleSize)
            <4>1. q = held
                BY <1>4, <1>8, <2>4, <3>6
            <4>2. Reading(q, es, lines, first, m + 1)
                BY <1>3, <2>4, <3>2, <3>4, <4>1 DEF Reading
            <4>3. QED
                BY <1>2, <1>3, <2>4, <3>2, <4>1, <4>2 DEF q
        <3>7. QED
            BY <3>5, <3>6
    <2>5. QED
        BY <2>3, <2>4
<1>9. QED
    BY <1>7, <1>8
-----------------------------------------------------------------------------
(* The operations of a parser.                                             *)

(* Only the lines up to line m matter.                                     *)
LEMMA LinesAgree ==
    ASSUME NEW p, NEW es, NEW lines, NEW more, NEW first \in Nat, NEW m \in Nat,
           \A n \in first..m : lines[n - first + 1] = more[n - first + 1],
           es \in Seq(Entry),
           Reading(p, es, lines, first, m)
    PROVE  Reading(p, es, more, first, m)
<1>1. ASSUME NEW all, NEW format, \A i \in DOMAIN all : all[i].line \in Nat
      PROVE  /\ AllGenuine(all, lines, first, m) => AllGenuine(all, more, first, m)
             /\ Complete(all, format, lines, first, m)
                    => Complete(all, format, more, first, m)
    <2>1. ASSUME AllGenuine(all, lines, first, m)
          PROVE  AllGenuine(all, more, first, m)
        <3>1. SUFFICES ASSUME NEW i \in DOMAIN all
                       PROVE  Genuine(all[i], more, first) /\ all[i].line <= m
            BY DEF AllGenuine
        <3>2. Genuine(all[i], lines, first) /\ all[i].line <= m
            BY <2>1 DEF AllGenuine
        <3>3. CASE all[i].line >= first
            <4>1. all[i].line \in first..m
                BY <1>1, <3>2, <3>3
            <4>2. lines[all[i].line - first + 1] = more[all[i].line - first + 1]
                BY <4>1
            <4>3. QED
                BY <3>2, <4>2 DEF Genuine
        <3>4. CASE ~(all[i].line >= first)
            BY <3>2, <3>4 DEF Genuine
        <3>5. QED
            BY <3>3, <3>4
    <2>2. ASSUME Complete(all, format, lines, first, m)
          PROVE  Complete(all, format, more, first, m)
        BY <2>2 DEF Complete
    <2>3. QED
        BY <2>1, <2>2
<1>2. p \in ParserState /\ p.line_no = m
    BY DEF Reading
<1>3. CASE p.format = None
    <2>1. Held(p, es, lines, first, m)
        BY <1>3 DEF Reading
    <2>2. \A i \in DOMAIN p.sample : p.sample[i].line \in Nat
        BY <1>2, LineFields DEF ParserState
    <2>3. Held(p, es, more, first, m)
        BY <1>1, <2>1, <2>2 DEF Held
    <2>4. QED
        BY <1>2, <1>3, <2>3 DEF Reading
<1>4. CASE p.format # None
    <2> DEFINE all == es \o p.out
    <2>1. p.sample = <<>> /\ Done(all, p.format, p.chain, lines, first, m)
        BY <1>4 DEF Reading
    <2>2. \A i \in DOMAIN all : all[i].line \in Nat
        <3>1. all \in Seq(Entry)
            BY <2>1 DEF Done
        <3> HIDE DEF all
        <3>2. QED
            BY <3>1, EntryFields
    <2> HIDE DEF all
    <2>3. Done(all, p.format, p.chain, more, first, m)
        BY <1>1, <2>1, <2>2 DEF Done
    <2>4. QED
        BY <1>2, <1>4, <2>1, <2>3 DEF Reading, all
<1>5. QED
    BY <1>3, <1>4

WithPending(p, text) == [p EXCEPT !.pending = text]

LEMMA PendingType ==
    ASSUME NEW p, NEW es, NEW lines, NEW first, NEW m, NEW text \in Seq(Byte),
           Reading(p, es, lines, first, m)
    PROVE  LET q == WithPending(p, text)
           IN  /\ Reading(q, es, lines, first, m)
               /\ q.pending = text
               /\ q.format = p.format
               /\ Balance(q) = Balance(p)
<1> DEFINE q == WithPending(p, text)
<1>1. p \in ParserState
    BY DEF Reading
<1>2. /\ q \in ParserState
      /\ q.pending = text
      /\ q.format = p.format /\ q.sample = p.sample
      /\ q.line_no = p.line_no /\ q.chain = p.chain /\ q.out = p.out
      /\ q.entries_emitted = p.entries_emitted
      /\ q.blank_lines = p.blank_lines
      /\ q.diagnostics = p.diagnostics
    BY <1>1 DEF ParserState, WithPending
<1> HIDE DEF q
<1>3. Balance(q) = Balance(p)
    BY <1>2 DEF Balance
<1>4. Reading(q, es, lines, first, m)
    BY <1>2 DEF Reading, Held
<1>5. QED
    BY <1>2, <1>3, <1>4 DEF q

(* The texts are those of the lines after line m.                          *)
Follow(texts, lines, first, m) ==
    \A i \in 1..Len(texts) : /\ IsOf(texts[i], m + i)
                             /\ texts[i] = lines[(m + i) - first + 1]

(* The lines of a chunk, one after the other.                              *)
LEMMA ReadLines ==
    ASSUME NEW p, NEW es \in Seq(Entry), NEW lines, NEW first \in Nat, first >= 1,
           NEW m \in Nat, first <= m + 1, Reading(p, es, lines, first, m),
           NEW texts \in Seq(Seq(Byte)),
           Follow(texts, lines, first, m)
    PROVE  LET q == Reads!Fold(p, texts)
           IN  /\ Reading(q, es, lines, first, m + Len(texts))
               /\ q.pending = p.pending
               /\ Balance(q) = Balance(p)
<1> DEFINE n == Len(texts)
           stage == [k \in 0..n |->
               {q \in ParserState : /\ Reading(q, es, lines, first, m + k)
                                    /\ q.pending = p.pending
                                    /\ Balance(q) = Balance(p)}]
<1>1. /\ n \in Nat /\ DOMAIN texts = 1..n
      /\ \A k \in 1..n : /\ texts[k] \in Seq(Byte)
                         /\ IsOf(texts[k], m + k)
                         /\ texts[k] = lines[(m + k) - first + 1]
    BY SMTT(30) DEF Follow
<1> HIDE DEF n
<1>2. p \in stage[0]
    <2>1. p \in ParserState /\ 0 \in 0..n /\ m + 0 = m
        BY <1>1 DEF Reading
    <2>2. QED
        BY <2>1
<1>3. \A k \in 1..n : \A a \in stage[k - 1] : Consume(a, texts[k]) \in stage[k]
    <2>1. SUFFICES ASSUME NEW k \in 1..n, NEW a \in stage[k - 1]
                   PROVE  Consume(a, texts[k]) \in stage[k]
        OBVIOUS
    <2>2. k - 1 \in 0..n /\ k \in 0..n
        BY <1>1
    <2>3. /\ Reading(a, es, lines, first, m + (k - 1))
          /\ a.pending = p.pending
          /\ Balance(a) = Balance(p)
        BY <2>2
    <2> DEFINE j == m + (k - 1)
               q == Consume(a, texts[k])
    <2>4. /\ j \in Nat /\ j + 1 = m + k /\ first <= j + 1
          /\ texts[k] \in Seq(Byte)
          /\ IsOf(texts[k], j + 1)
          /\ texts[k] = lines[(j + 1) - first + 1]
        <3>1. j \in Nat /\ j + 1 = m + k /\ first <= j + 1
            BY <1>1
        <3> HIDE DEF j
        <3>2. QED
            BY <1>1, <3>1
    <2>5. Reading(a, es, lines, first, j)
        BY <2>3
    <2> HIDE DEF j, q
    <2>6. /\ Reading(q, es, lines, first, j + 1)
          /\ q.pending = a.pending
          /\ Balance(q) = Balance(a)
        BY <2>4, <2>5, ConsumeKeeps DEF q
    <2>7. q \in ParserState
        BY <2>6 DEF Reading
    <2>8. q \in stage[k]
        BY <2>2, <2>3, <2>4, <2>6, <2>7
    <2>9. QED
        BY <2>8 DEF q
<1> DEFINE q == Reads!Fold(p, texts)
<1> HIDE DEF stage, q
<1>4. q \in stage[n]
    BY <1>1, <1>2, <1>3, Reads!FoldReaches DEF q
<1>5. /\ Reading(q, es, lines, first, m + n)
      /\ q.pending = p.pending
      /\ Balance(q) = Balance(p)
    <2>1. n \in 0..n
        BY <1>1
    <2>2. QED
        BY <1>4, <2>1 DEF stage
<1>6. QED
    BY <1>5 DEF n, q

(* With the chunk, the parser has the lines `texts` and then `rest`, which *)
(* are the input's.                                                        *)
CutInto(p, chunk, texts, rest) ==
    Split(p.pending \o chunk) = [lines |-> texts, rest |-> rest]

Arrives(p, chunk, texts, rest, lines, first, m) ==
    /\ texts \in Seq(Seq(Byte))
    /\ rest \in Seq(Byte)
    /\ CutInto(p, chunk, texts, rest)
    /\ Follow(texts, lines, first, m)

Ready(p, es, lines, first, m) ==
    /\ es \in Seq(Entry)
    /\ first \in Nat /\ first >= 1
    /\ m \in Nat /\ first <= m + 1
    /\ Reading(p, es, lines, first, m)

(* Parser::feed: the lines that end in the chunk are read.                 *)
LEMMA FeedKeeps ==
    ASSUME NEW p, NEW es, NEW lines, NEW first, NEW m,
           Ready(p, es, lines, first, m),
           NEW chunk, NEW texts, NEW rest,
           Arrives(p, chunk, texts, rest, lines, first, m)
    PROVE  /\ Reading(Feed(p, chunk), es, lines, first, m + Len(texts))
           /\ Feed(p, chunk).pending = rest
           /\ Balance(Feed(p, chunk)) = Balance(p)
<1> DEFINE r == WithPending(p, rest)
           q == Reads!Fold(r, texts)
<1>1. /\ es \in Seq(Entry)
      /\ first \in Nat /\ first >= 1
      /\ m \in Nat /\ first <= m + 1
      /\ Reading(p, es, lines, first, m)
    BY DEF Ready
<1>2. /\ texts \in Seq(Seq(Byte))
      /\ rest \in Seq(Byte)
      /\ CutInto(p, chunk, texts, rest)
      /\ Follow(texts, lines, first, m)
    BY DEF Arrives
<1>3. Feed(p, chunk) = q
    BY <1>2, ConsumeFold DEF Feed, WithPending, CutInto
<1>4. /\ Reading(r, es, lines, first, m)
      /\ r.pending = rest
      /\ Balance(r) = Balance(p)
    BY <1>1, <1>2, PendingType
<1> HIDE DEF r
<1>5. /\ Reading(q, es, lines, first, m + Len(texts))
      /\ q.pending = r.pending
      /\ Balance(q) = Balance(r)
    BY <1>1, <1>2, <1>4, ReadLines
<1>6. QED
    BY <1>3, <1>4, <1>5

(* Parser::force_detection *)
LEMMA ForceKeeps ==
    ASSUME NEW p, NEW es, NEW lines, NEW first \in Nat, first >= 1,
           NEW m \in Nat, Reading(p, es, lines, first, m)
    PROVE  LET q == ForceDetected(p)
           IN  /\ Reading(q, es, lines, first, m)
               /\ q.pending = p.pending
               /\ Balance(q) = Balance(p)
<1>1. CASE p.format = None /\ p.sample # <<>>
    <2>1. ForceDetected(p) = FinalizeDetection(p)
        BY <1>1 DEF ForceDetected
    <2>2. /\ p \in ParserState /\ p.line_no = m
          /\ Held(p, es, lines, first, m)
        BY <1>1 DEF Reading
    <2>3. es = <<>> /\ Held(p, <<>>, lines, first, m)
        BY <2>2 DEF Held
    <2>4. QED
        BY <2>1, <2>2, <2>3, ReplayedReading
<1>2. CASE ~(p.format = None /\ p.sample # <<>>)
    BY <1>2 DEF ForceDetected
<1>3. QED
    BY <1>1, <1>2

(* Parser::finish: the line that has not ended is read, and nothing stays  *)
(* held. `n` is the number of the last line then.                          *)
LEMMA FlushKeeps ==
    ASSUME NEW p, NEW es \in Seq(Entry), NEW lines, NEW first \in Nat, first >= 1,
           NEW m \in Nat, first <= m + 1, Reading(p, es, lines, first, m),
           p.pending # <<>> => /\ IsOf(p.pending, m + 1)
                               /\ p.pending = lines[(m + 1) - first + 1],
           NEW n \in Nat, n = IF p.pending = <<>> THEN m ELSE m + 1
    PROVE  LET q == Flush(p)
           IN  /\ Reading(q, es, lines, first, n)
               /\ q.pending = <<>>
               /\ Balance(q) = Balance(p)
<1> DEFINE none == <<>>
           r == WithPending(p, none)
           flushed == IF p.pending = <<>> THEN p ELSE Consume(r, p.pending)
<1>1. /\ Reading(flushed, es, lines, first, n)
      /\ flushed.pending = <<>>
      /\ Balance(flushed) = Balance(p)
    <2>1. CASE p.pending = <<>>
        BY <2>1
    <2>2. CASE p.pending # <<>>
        <3>1. none \in Seq(Byte) /\ p.pending \in Seq(Byte)
            BY DEF Reading, ParserState
        <3> HIDE DEF none
        <3>2. /\ Reading(r, es, lines, first, m)
              /\ r.pending = none
              /\ Balance(r) = Balance(p)
            BY <3>1, PendingType
        <3> HIDE DEF r
        <3> DEFINE text == p.pending
        <3>3. text \in Seq(Byte) /\ IsOf(text, m + 1)
                  /\ text = lines[(m + 1) - first + 1]
            BY <2>2, <3>1
        <3> HIDE DEF text
        <3>4. /\ Reading(Consume(r, text), es, lines, first, m + 1)
              /\ Consume(r, text).pending = r.pending
              /\ Balance(Consume(r, text)) = Balance(r)
            BY <3>2, <3>3, ConsumeKeeps
        <3>5. QED
            BY <2>2, <3>2, <3>4 DEF text, none
    <2>3. QED
        BY <2>1, <2>2
<1>2. Flush(p) = IF flushed.format = None THEN FinalizeDetection(flushed) ELSE flushed
    BY DEF Flush, WithPending
<1> HIDE DEF flushed
<1>3. CASE flushed.format = None
    <2>1. /\ flushed \in ParserState /\ flushed.line_no = n
          /\ Held(flushed, es, lines, first, n)
        BY <1>1, <1>3 DEF Reading
    <2>2. es = <<>> /\ Held(flushed, <<>>, lines, first, n)
        BY <2>1 DEF Held
    <2>3. QED
        BY <1>1, <1>2, <1>3, <2>1, <2>2, ReplayedReading
<1>4. CASE flushed.format # None
    BY <1>1, <1>2, <1>4
<1>5. QED
    BY <1>3, <1>4
-----------------------------------------------------------------------------
(* A re-parse.                                                             *)

(* The lines from line `first` on before line `from` are blank.            *)
BlankBefore(lines, first, from) ==
    \A k \in first..(from - 1) : KindOf(lines[k - first + 1]) = "blank"

LEMMA NewParserReads ==
    ASSUME NEW format \in Format \union {None}, NEW lines,
           NEW first \in Nat, first >= 1, NEW from \in Nat, first <= from,
           BlankBefore(lines, first, from)
    PROVE  LET p == NewParser(format, from)
           IN  /\ Reading(p, <<>>, lines, first, from - 1)
               /\ p.pending = <<>>
<1> DEFINE p == NewParser(format, from)
           m == from - 1
<1>1. m \in Nat
    OBVIOUS
<1>2. <<>> \in Seq(Byte) /\ <<>> \in Seq(Entry) /\ <<>> \in Seq(Line) /\ DOMAIN <<>> = {}
          /\ <<>> \o <<>> = <<>>
    OBVIOUS
<1>3. [r \in Reason |-> 0] \in [Reason -> Nat]
    OBVIOUS
<1>4. /\ p \in ParserState
      /\ p.format = format /\ p.sample = <<>> /\ p.pending = <<>>
      /\ p.line_no = m /\ p.chain = None /\ p.out = <<>>
    BY <1>1, <1>2, <1>3 DEF NewParser, ParserState
<1>5. /\ AllGenuine(<<>>, lines, first, m) /\ Ascending(<<>>)
      /\ AllRooted(<<>>, format, first)
    BY <1>2 DEF AllGenuine, Ascending, AllRooted
<1>6. \A f : Complete(<<>>, f, lines, first, m)
    BY <1>2 DEF Complete, BlankBefore, Visible
<1>7. ChainIsLast(<<>>, format, None, first, m)
    BY DEF ChainIsLast
<1> HIDE DEF p, m
<1>8. CASE format = None
    BY <1>4, <1>5, <1>6, <1>8 DEF Reading, Held, p, m
<1>9. CASE format # None
    <2>1. Done(<<>>, format, None, lines, first, m)
        BY <1>2, <1>5, <1>6, <1>7 DEF Done
    <2>2. <<>> \o p.out = <<>>
        BY <1>2, <1>4
    <2>3. Reading(p, <<>>, lines, first, m)
        BY <1>4, <1>9, <2>1, <2>2 DEF Reading
    <2>4. QED
        BY <1>4, <2>3 DEF p, m
<1>10. QED
    BY <1>8, <1>9

(* One retained line.                                                      *)
LEMMA FeedLineKeeps ==
    ASSUME NEW p, NEW es, NEW lines, NEW first, NEW m,
           Ready(p, es, lines, first, m),
           p.pending = <<>>,
           NEW text \in Seq(Byte), IsOf(text, m + 1),
           text = lines[(m + 1) - first + 1]
    PROVE  /\ Reading(FeedLine(p, text), es, lines, first, m + 1)
           /\ FeedLine(p, text).pending = <<>>
<1> DEFINE chunk == Append(text, Newline)
           texts == <<text>>
           rest == <<>>
<1>1. <<>> \o chunk = chunk
    <2>1. chunk \in Seq(Byte \union {Newline})
        OBVIOUS
    <2> HIDE DEF chunk
    <2>2. QED
        BY <2>1
<1>2. CutInto(p, chunk, texts, rest)
    <2>1. p.pending \o chunk = chunk
        BY <1>1
    <2>2. Split(chunk) = [lines |-> texts, rest |-> rest]
        BY SplitLine
    <2> HIDE DEF chunk, texts, rest
    <2>3. QED
        BY <2>1, <2>2 DEF CutInto
<1>3. texts \in Seq(Seq(Byte)) /\ rest \in Seq(Byte) /\ Len(texts) = 1 /\ texts[1] = text
    OBVIOUS
<1>4. Follow(texts, lines, first, m)
    <2> HIDE DEF texts
    <2>1. \A i \in 1..Len(texts) : i = 1
        BY <1>3
    <2>2. QED
        BY <1>3, <2>1 DEF Follow
<1>5. Arrives(p, chunk, texts, rest, lines, first, m)
    BY <1>2, <1>3, <1>4 DEF Arrives
<1>6. FeedLine(p, text) = Feed(p, chunk)
    BY DEF FeedLine
<1> HIDE DEF chunk, texts, rest
<1>7. /\ Reading(Feed(p, chunk), es, lines, first, m + Len(texts))
      /\ Feed(p, chunk).pending = rest
    BY <1>5, FeedKeeps
<1>8. QED
    BY <1>3, <1>6, <1>7 DEF rest

(* The retained lines and the one that is still arriving, among lines that *)
(* are blank before them.                                                  *)
LEMMA ReparsedKeeps ==
    ASSUME NEW format \in Format \union {None},
           raw \in Seq(Seq(Byte)), pending \in Seq(Byte),
           first_line \in Nat, first_line >= 1,
           NEW lines, NEW first \in Nat, first >= 1, first <= first_line,
           BlankBefore(lines, first, first_line),
           Follow(raw, lines, first, first_line - 1),
           NEW last \in Nat, last = first_line + Len(raw) - 1
    PROVE  LET q == Reparsed(format)
           IN  /\ Reading(q, <<>>, lines, first, last)
               /\ q.pending = pending
<1> DEFINE n == Len(raw)
           texts == raw
           m == first_line - 1
           es == <<>>
           base == NewParser(format, first_line)
           stage == [k \in 0..n |->
               {q \in ParserState : /\ Reading(q, es, lines, first, m + k)
                                    /\ q.pending = <<>>}]
<1>1. /\ n \in Nat /\ DOMAIN texts = 1..n
      /\ first \in Nat /\ first >= 1 /\ m \in Nat /\ first <= m + 1
      /\ es \in Seq(Entry)
      /\ last = m + n
    OBVIOUS
<1>2. \A k \in 1..n : /\ texts[k] \in Seq(Byte)
                      /\ IsOf(texts[k], m + k)
                      /\ texts[k] = lines[(m + k) - first + 1]
    BY DEF Follow
<1>3. base \in stage[0]
    <2>1. Reading(base, es, lines, first, m) /\ base.pending = <<>>
        <3> DEFINE from == first_line
        <3>1. from \in Nat /\ first <= from /\ BlankBefore(lines, first, from)
            OBVIOUS
        <3> HIDE DEF from
        <3>2. /\ Reading(NewParser(format, from), <<>>, lines, first, from - 1)
              /\ NewParser(format, from).pending = <<>>
            BY <3>1, NewParserReads
        <3>3. QED
            BY <3>2 DEF from
    <2>2. base \in ParserState /\ 0 \in 0..n /\ m + 0 = m
        BY <1>1, <2>1 DEF Reading
    <2> HIDE DEF n, texts, m, es, base
    <2>3. QED
        BY <2>1, <2>2
<1> HIDE DEF n, texts, m, es, base
<1>4. \A k \in 1..n : \A a \in stage[k - 1] : FeedLine(a, texts[k]) \in stage[k]
    <2>1. SUFFICES ASSUME NEW k \in 1..n, NEW a \in stage[k - 1]
                   PROVE  FeedLine(a, texts[k]) \in stage[k]
        OBVIOUS
    <2> DEFINE j == m + (k - 1)
               q == FeedLine(a, texts[k])
               text == texts[k]
    <2>2. k - 1 \in 0..n /\ k \in 0..n
        BY <1>1
    <2>3. Reading(a, es, lines, first, j) /\ a.pending = <<>>
        BY <2>2
    <2>4. j \in Nat /\ j + 1 = m + k /\ first <= j + 1
        BY <1>1, <2>1
    <2> HIDE DEF j
    <2>5. text \in Seq(Byte) /\ IsOf(text, j + 1) /\ text = lines[(j + 1) - first + 1]
        BY <1>2, <2>1, <2>4
    <2> HIDE DEF text
    <2>r. Ready(a, es, lines, first, j)
        BY <1>1, <2>3, <2>4 DEF Ready
    <2>6. Reading(FeedLine(a, text), es, lines, first, j + 1)
              /\ FeedLine(a, text).pending = <<>>
        BY <2>r, <2>3, <2>5, FeedLineKeeps
    <2>7. Reading(q, es, lines, first, m + k) /\ q.pending = <<>>
        BY <2>4, <2>6 DEF text
    <2> HIDE DEF q
    <2>8. q \in ParserState
        BY <2>7 DEF Reading
    <2>9. q \in stage[k]
        BY <2>2, <2>7, <2>8
    <2>10. QED
        BY <2>9 DEF q
<1> DEFINE r == Refeeds!Fold(base, texts)
<1> HIDE DEF stage, r
<1>5. r \in stage[n]
    BY <1>1, <1>3, <1>4, Refeeds!FoldReaches DEF r
<1>6. Reading(r, es, lines, first, last) /\ r.pending = <<>>
    <2>1. n \in 0..n
        BY <1>1
    <2>2. QED
        BY <1>1, <1>5, <2>1 DEF stage
<1>7. Reparsed(format) = Feed(r, pending)
    BY FeedLineFold DEF Reparsed, r, base, texts
<1> DEFINE text == pending
           none == <<>>
<1>8. CutInto(r, text, none, text)
    <2>1. r.pending \o text = text
        BY <1>6
    <2>2. Split(text) = [lines |-> none, rest |-> text]
        BY SplitText
    <2> HIDE DEF text, none
    <2>3. QED
        BY <2>1, <2>2 DEF CutInto
<1>9. /\ none \in Seq(Seq(Byte)) /\ text \in Seq(Byte) /\ Len(none) = 0
      /\ last + Len(none) = last
    OBVIOUS
<1>10. /\ Arrives(r, text, none, text, lines, first, last)
       /\ Ready(r, es, lines, first, last)
    <2>1. Follow(none, lines, first, last) /\ first <= last + 1
        BY <1>1 DEF Follow
    <2>2. QED
        BY <1>1, <1>6, <1>8, <1>9, <2>1 DEF Ready, Arrives
<1> DEFINE q == Feed(r, text)
<1> HIDE DEF none
<1>11. /\ Reading(q, es, lines, first, last + Len(none))
       /\ q.pending = text
    <2> HIDE DEF text
    <2>1. QED
        BY <1>10, FeedKeeps
<1>12. QED
    BY <1>7, <1>9, <1>11 DEF es

-----------------------------------------------------------------------------
(* Lines that leave, with their entries.                                   *)

(* The entries of lines before line f are the first ones.                  *)
LEMMA OldOnesFirst ==
    ASSUME NEW all \in Seq(Entry), Ascending(all), NEW f \in Nat
    PROVE  LET c == Cardinality({i \in DOMAIN all : all[i].line < f})
           IN  /\ c \in 0..Len(all)
               /\ \A i \in DOMAIN all : all[i].line < f <=> i <= c
<1> DEFINE old == {i \in DOMAIN all : all[i].line < f}
           n == Len(all)
           c == Cardinality(old)
<1>1. n \in Nat /\ DOMAIN all = 1..n
    OBVIOUS
<1>2. \A i \in 1..n : all[i].line \in Nat
    BY <1>1, EntryFields
<1> HIDE DEF n
<1>3. old \in SUBSET (1..n) /\ \A i \in 1..n : i \in old <=> all[i].line < f
    BY <1>1
<1> HIDE DEF old
<1>4. c \in 0..n /\ \A i \in 1..n : i \in old <=> i <= c
    <2>1. CASE old = {}
        <3>1. c = 0
            BY <2>1, FS_EmptySet
        <3> HIDE DEF c
        <3>2. QED
            BY <1>1, <2>1, <3>1
    <2>2. CASE old # {}
        <3> DEFINE k == Lengths!Max(old)
        <3>1. k \in old /\ \A i \in old : i <= k
            BY <1>1, <1>3, <2>2, Lengths!Largest
        <3> HIDE DEF k
        <3>2. k \in 1..n /\ k \in Nat
            <4>1. k \in 1..n
                BY <1>3, <3>1
            <4>2. QED
                BY <1>1, <4>1
        <3>3. all[k].line < f
            BY <1>3, <3>1, <3>2
        <3>4. ASSUME NEW i \in 1..n PROVE i \in old <=> i <= k
            <4>1. CASE i < k
                <5>1. all[i].line < all[k].line
                    BY <1>1, <3>2, <4>1 DEF Ascending
                <5>2. all[i].line < f
                    BY <1>2, <3>2, <3>3, <5>1
                <5>3. i \in old
                    BY <1>3, <5>2
                <5>4. i <= k
                    BY <3>2, <4>1
                <5>5. QED
                    BY <5>3, <5>4
            <4>2. CASE i = k
                BY <3>1, <4>2
            <4>3. CASE i > k
                <5>1. ~(i <= k)
                    BY <3>2, <4>3
                <5>2. QED
                    BY <3>1, <5>1
            <4>4. QED
                BY <3>2, <4>1, <4>2, <4>3
        <3>5. old = 1..k
            <4>1. \A i : i \in old => i \in 1..n
                BY <1>3
            <4>2. \A i : i \in 1..k <=> i \in 1..n /\ i <= k
                BY <1>1, <3>2
            <4>3. QED
                BY <3>4, <4>1, <4>2
        <3>6. Cardinality(1..k) = k
            BY <3>2, FS_Interval
        <3>7. c = k
            BY <3>5, <3>6
        <3> HIDE DEF c
        <3>8. QED
            BY <1>1, <3>2, <3>4, <3>7
    <2>3. QED
        BY <2>1, <2>2
<1> HIDE DEF c
<1>5. c \in 0..n /\ \A i \in DOMAIN all : all[i].line < f <=> i <= c
    BY <1>1, <1>3, <1>4
<1>6. QED
    BY <1>5 DEF c, old, n

(* No line before line f has an entry.                                     *)
NoneBefore(all, f) == \A i \in DOMAIN all : all[i].line >= f

(* What is left when n of the lines leave.                                 *)
LEMMA EvictionKeeps ==
    ASSUME NEW p, NEW es \in Seq(Entry), NEW lines \in Seq(Seq(Byte)),
           NEW first \in Nat, first >= 1, NEW m \in Nat,
           m = first + Len(lines) - 1,
           Reading(p, es, lines, first, m),
           NEW n \in 0..Len(lines)
    PROVE  LET left == SubSeq(lines, n + 1, Len(lines))
               f    == first + n
               kept == Retained(es \o p.out, f)
               q    == [p EXCEPT !.out = <<>>]
           IN  /\ kept \in Seq(Entry)
               /\ Reading(q, kept, left, f, m)
               /\ NoneBefore(kept, f)
               /\ q.out = <<>> /\ q.pending = p.pending
               /\ Balance(q) = Balance(p)
<1> DEFINE left == SubSeq(lines, n + 1, Len(lines))
           f == first + n
           all == es \o p.out
           kept == Retained(all, f)
           q == [p EXCEPT !.out = <<>>]
           c == Cardinality({i \in DOMAIN all : all[i].line < f})
           count == Len(all)
<1>1. p \in ParserState /\ p.line_no = m /\ all \in Seq(Entry)
    BY DEF Reading, ParserState
<1>2. /\ q \in ParserState
      /\ q.format = p.format /\ q.sample = p.sample /\ q.pending = p.pending
      /\ q.line_no = p.line_no /\ q.chain = p.chain /\ q.out = <<>>
      /\ Balance(q) = Balance(p)
    <2>1. <<>> \in Seq(Entry)
        OBVIOUS
    <2>2. QED
        BY <1>1, <2>1 DEF ParserState, Balance
<1>3. f \in Nat /\ f >= first /\ f >= 1
    OBVIOUS
<1>4. \A k \in f..m : left[k - f + 1] = lines[k - first + 1]
    <2>1. SUFFICES ASSUME NEW k \in f..m PROVE left[k - f + 1] = lines[k - first + 1]
        OBVIOUS
    <2>2. k - f + 1 \in 1..(Len(lines) - n)
        OBVIOUS
    <2>3. n + 1 \in Nat /\ Len(left) = Len(lines) - n
        OBVIOUS
    <2>4. left[k - f + 1] = lines[(n + 1) + (k - f + 1) - 1]
        BY <2>2, <2>3
    <2>5. (n + 1) + (k - f + 1) - 1 = k - first + 1
        OBVIOUS
    <2>6. QED
        BY <2>4, <2>5
<1>5. ASSUME NEW seq, \A i \in DOMAIN seq : seq[i].line \in Nat,
             AllGenuine(seq, lines, first, m)
      PROVE  AllGenuine(seq, left, f, m)
    <2>1. SUFFICES ASSUME NEW i \in DOMAIN seq
                   PROVE  Genuine(seq[i], left, f) /\ seq[i].line <= m
        BY DEF AllGenuine
    <2>2. Genuine(seq[i], lines, first) /\ seq[i].line <= m
        BY <1>5 DEF AllGenuine
    <2>3. CASE seq[i].line >= f
        <3>1. seq[i].line \in f..m /\ seq[i].line >= first
            BY <1>3, <1>5, <2>2, <2>3
        <3>2. left[seq[i].line - f + 1] = lines[seq[i].line - first + 1]
            BY <1>4, <3>1
        <3> HIDE DEF left, f
        <3>3. QED
            BY <2>2, <3>1, <3>2 DEF Genuine
    <2>4. CASE ~(seq[i].line >= f)
        BY <2>2, <2>4 DEF Genuine
    <2>5. QED
        BY <2>3, <2>4
<1>6. CASE p.format = None
    <2>1. Held(p, es, lines, first, m)
        BY <1>6 DEF Reading
    <2>2. es = <<>> /\ p.out = <<>>
        BY <2>1 DEF Held
    <2>3. kept = <<>>
        <3>1. all = <<>> /\ Len(<<>>) = 0 /\ DOMAIN <<>> = {}
            BY <2>2
        <3>2. {i \in DOMAIN all : all[i].line < f} = {}
            BY <3>1
        <3>3. Cardinality({i \in DOMAIN all : all[i].line < f}) = 0
            BY <3>2, FS_EmptySet
        <3>4. SubSeq(<<>>, 0 + 1, 0) = <<>>
            OBVIOUS
        <3>5. kept = SubSeq(all, Cardinality({i \in DOMAIN all : all[i].line < f}) + 1,
                            Len(all))
            BY DEF Retained
        <3>6. QED
            BY <3>1, <3>3, <3>4, <3>5
    <2>4. \A i \in DOMAIN p.sample : p.sample[i].line \in Nat
        BY <1>1, LineFields DEF ParserState
    <2>5. AllGenuine(p.sample, left, f, m)
        BY <1>5, <2>1, <2>4 DEF Held
    <2>6. Complete(p.sample, None, left, f, m)
        <3>1. SUFFICES ASSUME NEW k \in f..m
                       PROVE  (\E i \in DOMAIN p.sample : p.sample[i].line = k)
                                  <=> Visible(None, KindOf(left[k - f + 1]))
            BY DEF Complete
        <3>2. k \in first..m /\ left[k - f + 1] = lines[k - first + 1]
            BY <1>3, <1>4
        <3> HIDE DEF left, f
        <3>3. QED
            BY <2>1, <3>2 DEF Held, Complete
    <2> HIDE DEF left, f, q, kept
    <2>7. Held(q, kept, left, f, m)
        BY <1>2, <2>1, <2>3, <2>5, <2>6 DEF Held
    <2>8. Reading(q, kept, left, f, m)
        BY <1>1, <1>2, <1>6, <2>7 DEF Reading
    <2>9. kept \in Seq(Entry) /\ NoneBefore(kept, f)
        <3>1. DOMAIN <<>> = {}
            OBVIOUS
        <3>2. QED
            BY <2>3, <3>1 DEF NoneBefore
    <2>10. QED
        BY <1>2, <2>8, <2>9 DEF left, f, q, kept
<1>7. CASE p.format # None
    <2> DEFINE format == p.format
               chain == p.chain
    <2>1. p.sample = <<>> /\ Done(all, format, chain, lines, first, m)
        BY <1>7 DEF Reading
    <2> HIDE DEF all, format, chain
    <2>2. /\ AllGenuine(all, lines, first, m)
          /\ Ascending(all)
          /\ Complete(all, format, lines, first, m)
          /\ AllRooted(all, format, first)
          /\ ChainIsLast(all, format, chain, first, m)
          /\ chain \in Chain \union {None}
        BY <2>1 DEF Done
    <2>3. /\ c \in 0..count
          /\ \A i \in DOMAIN all : all[i].line < f <=> i <= c
        <3> HIDE DEF f
        <3>1. QED
            BY <1>1, <1>3, <2>2, OldOnesFirst
    <2>4. count \in Nat /\ DOMAIN all = 1..count
        BY <1>1
    <2>5. kept = SubSeq(all, c + 1, count)
        BY DEF Retained
    <2> HIDE DEF c
    <2>6. /\ kept \in Seq(Entry)
          /\ Len(kept) = count - c
          /\ DOMAIN kept = 1..(count - c)
          /\ \A i \in 1..(count - c) : kept[i] = all[c + i]
        <3>1. c \in 0..Len(all)
            BY <2>3
        <3> DEFINE tail == SubSeq(all, c + 1, Len(all))
        <3>2. all \in Seq(Entry)
            BY <1>1
        <3>3. /\ tail \in Seq(Entry)
              /\ Len(tail) = Len(all) - c
              /\ DOMAIN tail = 1..(Len(all) - c)
              /\ \A i \in 1..(Len(all) - c) : tail[i] = all[c + i]
            BY <3>1, <3>2
        <3>4. kept = tail
            BY <2>5
        <3> HIDE DEF kept, tail
        <3>5. QED
            BY <3>3, <3>4
    <2>7. \A i \in 1..count : all[i].line \in Nat
        BY <1>1, <2>4, EntryFields
    <2> HIDE DEF count, kept
    <2>8. \A i \in DOMAIN kept : c + i \in DOMAIN all /\ kept[i] = all[c + i]
        BY <2>3, <2>4, <2>6, SMTT(30)
    <2>9. AllGenuine(kept, left, f, m)
        <3>1. AllGenuine(kept, lines, first, m)
            BY <2>2, <2>8 DEF AllGenuine
        <3>2. \A i \in DOMAIN kept : kept[i].line \in Nat
            BY <2>4, <2>7, <2>8
        <3>3. QED
            BY <1>5, <3>1, <3>2
    <2>10. Ascending(kept)
        <3>1. \A i, j \in DOMAIN kept : i < j => c + i < c + j
            BY <2>3, <2>4, <2>6
        <3>2. QED
            BY <2>2, <2>8, <3>1 DEF Ascending
    <2>11. Complete(kept, format, left, f, m)
        <3>1. SUFFICES ASSUME NEW k \in f..m
                       PROVE  (\E i \in DOMAIN kept : kept[i].line = k)
                                  <=> Visible(format, KindOf(left[k - f + 1]))
            BY DEF Complete
        <3>2. k \in first..m /\ left[k - f + 1] = lines[k - first + 1]
            BY <1>3, <1>4
        <3>3. (\E i \in DOMAIN all : all[i].line = k)
                  <=> Visible(format, KindOf(lines[k - first + 1]))
            BY <2>2, <3>2 DEF Complete
        <3>4. ASSUME NEW j \in DOMAIN all, all[j].line = k
              PROVE  \E i \in DOMAIN kept : kept[i].line = k
            <4>1. ~(all[j].line < f)
                BY <1>3, <3>4
            <4>2. j > c
                BY <2>3, <2>4, <4>1
            <4>3. j - c \in DOMAIN kept /\ c + (j - c) = j
                BY <2>3, <2>4, <2>6, <4>2, SMTT(30)
            <4>4. kept[j - c].line = k
                BY <2>8, <3>4, <4>3
            <4>5. QED
                BY <4>3, <4>4
        <3> HIDE DEF left, f
        <3>5. QED
            BY <2>8, <3>2, <3>3, <3>4
    <2>12. AllRooted(kept, format, f)
        <3>1. SUFFICES ASSUME NEW i \in DOMAIN kept PROVE Rooted(kept, i, format, f)
            BY DEF AllRooted
        <3>2. c + i \in DOMAIN all /\ kept[i] = all[c + i] /\ i \in Nat /\ i >= 1
            BY <2>6, <2>8
        <3>3. Rooted(all, c + i, format, first)
            BY <2>2, <3>2 DEF AllRooted
        <3>4. CASE i > 1
            <4>1. i - 1 \in DOMAIN kept /\ c + (i - 1) = (c + i) - 1 /\ c + i > 1
                      /\ c + i # 1
                BY <2>3, <2>4, <2>6, <3>1, <3>4, SMTT(30)
            <4>2. kept[i - 1] = all[(c + i) - 1]
                BY <2>8, <4>1
            <4> DEFINE e == all[c + i]
                       o == all[(c + i) - 1]
            <4>3. kept[i] = e /\ kept[i - 1] = o
                BY <3>2, <4>2
            <4>4. /\ e.root # None => e.root < e.line
                  /\ IF o.line = e.line - 1
                     THEN e.root = IF Together(format, o, e) THEN Event(o) ELSE None
                     ELSE e.root = None
                BY <3>3, <4>1 DEF Rooted
            <4> HIDE DEF e, o
            <4>5. QED
                BY <3>4, <4>3, <4>4 DEF Rooted
        <3>5. CASE i = 1
            <4> DEFINE e == all[c + i]
            <4>1. kept[i] = e /\ e.line \in Nat
                BY <2>4, <2>7, <3>2
            <4>2. e.root # None => e.root < e.line
                BY <3>3 DEF Rooted
            <4>3. e.root = None \/ e.line <= f
                <5>1. CASE c + i > 1 /\ all[(c + i) - 1].line = e.line - 1
                    <6>1. (c + i) - 1 = c /\ c \in DOMAIN all
                        BY <2>3, <2>4, <3>5, <5>1, SMTT(30)
                    <6>2. all[c].line < f
                        BY <2>3, <2>4, <6>1, SMTT(30)
                    <6>3. all[c].line = e.line - 1
                        BY <5>1, <6>1
                    <6>4. QED
                        BY <1>3, <4>1, <6>2, <6>3, SMTT(30)
                <5>2. CASE ~(c + i > 1 /\ all[(c + i) - 1].line = e.line - 1)
                    <6>1. e.root = None \/ e.line <= first
                        BY <3>3, <5>2 DEF Rooted
                    <6>2. QED
                        BY <1>3, <4>1, <6>1
                <5>3. QED
                    BY <5>1, <5>2
            <4> HIDE DEF e, f
            <4>4. QED
                BY <3>5, <4>1, <4>2, <4>3 DEF Rooted
        <3>6. QED
            BY <3>2, <3>4, <3>5
    <2>13. ChainIsLast(kept, format, chain, f, m)
        <3>1. kept # <<>> => /\ all # <<>> /\ kept[Len(kept)] = all[Len(all)]
            <4>1. SUFFICES ASSUME kept # <<>>
                           PROVE  all # <<>> /\ kept[Len(kept)] = all[Len(all)]
                OBVIOUS
            <4>2. Len(kept) \in DOMAIN kept
                BY <2>6, <4>1
            <4>3. c + Len(kept) = count /\ count \in DOMAIN all
                BY <2>3, <2>4, <2>6, <2>8, <4>2
            <4>4. QED
                BY <2>8, <4>2, <4>3 DEF count
        <3>2. kept = <<>> => all = <<>> \/ all[Len(all)].line < f
            <4>1. SUFFICES ASSUME kept = <<>>, all # <<>> PROVE all[Len(all)].line < f
                OBVIOUS
            <4>2. count \in DOMAIN all /\ count <= c
                <5>1. Len(kept) = 0
                    BY <4>1
                <5>2. count # 0
                    BY <1>1, <4>1 DEF count
                <5>3. c \in 0..count /\ count \in Nat /\ Len(kept) = count - c
                    BY <2>3, <2>4, <2>6
                <5>4. count <= c /\ count \in 1..count
                    BY <5>1, <5>2, <5>3
                <5>5. QED
                    BY <2>4, <5>4
            <4>3. all[count].line < f
                BY <2>3, <4>2
            <4>4. QED
                BY <4>3 DEF count
        <3>3. CASE chain # None
            <4>1. chain.last_line \in Nat
                BY <2>2, <3>3 DEF Chain
            <4>2. ChainIsLast(all, format, chain, first, m)
                BY <2>2
            <4>3. IF all = <<>> THEN chain.last_line < first
                  ELSE /\ all[Len(all)].line = chain.last_line
                       /\ Event(all[Len(all)]) = chain.root
                BY <3>3, <4>2 DEF ChainIsLast
            <4>4. IF kept = <<>> THEN chain.last_line < f
                  ELSE /\ kept[Len(kept)].line = chain.last_line
                       /\ Event(kept[Len(kept)]) = chain.root
                <5>1. CASE kept = <<>>
                    BY <1>3, <3>2, <4>1, <4>3, <5>1
                <5>2. CASE kept # <<>>
                    BY <3>1, <4>3, <5>2
                <5>3. QED
                    BY <5>1, <5>2
            <4> HIDE DEF f
            <4>5. QED
                BY <3>3, <4>2, <4>4 DEF ChainIsLast
        <3>4. CASE chain = None
            BY <2>2, <3>1, <3>4 DEF ChainIsLast
        <3>5. QED
            BY <3>3, <3>4
    <2>18. NoneBefore(kept, f)
        <3>1. SUFFICES ASSUME NEW i \in DOMAIN kept PROVE kept[i].line >= f
            BY DEF NoneBefore
        <3>2. c + i \in DOMAIN all /\ kept[i] = all[c + i] /\ ~(c + i <= c)
            BY <2>3, <2>6, <2>8
        <3>3. ~(all[c + i].line < f) /\ all[c + i].line \in Nat
            BY <2>3, <2>4, <2>7, <3>2
        <3>4. QED
            BY <1>3, <3>2, <3>3
    <2> HIDE DEF left, f, q
    <2>14. Done(kept, format, chain, left, f, m)
        BY <2>2, <2>6, <2>9, <2>10, <2>11, <2>12, <2>13 DEF Done
    <2>15. kept \o q.out = kept
        BY <1>2, <2>6
    <2>16. Reading(q, kept, left, f, m)
        BY <1>1, <1>2, <1>7, <2>1, <2>14, <2>15 DEF Reading, format, chain
    <2>17. QED
        BY <1>2, <2>6, <2>16, <2>18 DEF left, f, q, kept, all
<1>8. QED
    BY <1>6, <1>7

(* What is left of the entries es is the first of what is left, and what   *)
(* joined is of later lines.                                               *)
LeavesAndJoins(es, kept, n) ==
    /\ n \in 0..Len(es)
    /\ Len(es) - n <= Len(kept)
    /\ \A i \in 1..(Len(es) - n) : kept[i] = es[n + i]
    /\ \A i \in DOMAIN es, j \in DOMAIN kept :
           j > Len(es) - n => es[i].line < kept[j].line

LEMMA RetainedGrows ==
    ASSUME NEW es \in Seq(Entry), NEW out \in Seq(Entry),
           Ascending(es \o out), NEW f \in Nat
    PROVE  \E n \in 0..Len(es) : LeavesAndJoins(es, Retained(es \o out, f), n)
<1> DEFINE all == es \o out
           c == Cardinality({i \in DOMAIN all : all[i].line < f})
           kept == Retained(all, f)
           n == IF c <= Len(es) THEN c ELSE Len(es)
<1>1. /\ all \in Seq(Entry) /\ Len(all) = Len(es) + Len(out)
      /\ Len(es) \in Nat /\ Len(out) \in Nat
      /\ \A i \in 1..Len(es) : all[i] = es[i]
    OBVIOUS
<1>2. c \in 0..Len(all)
    <2> HIDE DEF all
    <2>1. Ascending(all)
        BY DEF all
    <2>2. QED
        BY <1>1, <2>1, OldOnesFirst
<1>3. kept = SubSeq(all, c + 1, Len(all))
    BY DEF Retained
<1> HIDE DEF c, all, kept
<1>4. /\ Len(kept) = Len(all) - c
      /\ DOMAIN kept = 1..(Len(all) - c)
      /\ \A i \in 1..(Len(all) - c) : kept[i] = all[c + i]
    <2> DEFINE tail == SubSeq(all, c + 1, Len(all))
    <2>1. /\ Len(tail) = Len(all) - c
          /\ DOMAIN tail = 1..(Len(all) - c)
          /\ \A i \in 1..(Len(all) - c) : tail[i] = all[c + i]
        BY <1>1, <1>2, SMTT(30)
    <2> HIDE DEF tail
    <2>2. QED
        BY <1>3, <2>1 DEF tail
<1>5. n \in 0..Len(es) /\ Len(es) - n <= Len(kept)
    <2>1. CASE c <= Len(es)
        <3>1. n = c
            BY <2>1
        <3> HIDE DEF n
        <3>2. QED
            BY <1>1, <1>2, <1>4, <2>1, <3>1
    <2>2. CASE ~(c <= Len(es))
        <3>1. n = Len(es)
            BY <2>2
        <3> HIDE DEF n
        <3>2. QED
            BY <1>1, <1>2, <1>4, <3>1
    <2>3. QED
        BY <2>1, <2>2
<1>6. ASSUME NEW i \in 1..(Len(es) - n) PROVE kept[i] = es[n + i]
    <2>1. n = c /\ c + i \in 1..Len(es) /\ i \in 1..(Len(all) - c)
        BY <1>1, <1>2, <1>6
    <2>2. QED
        BY <1>1, <1>4, <2>1
<1>7. ASSUME NEW i \in DOMAIN es, NEW j \in DOMAIN kept, j > Len(es) - n
      PROVE  es[i].line < kept[j].line
    <2>1. i \in 1..Len(es) /\ j \in 1..(Len(all) - c)
        BY <1>4, <1>7
    <2>2. i < c + j /\ c + j \in 1..Len(all) /\ i \in 1..Len(all)
        BY <1>1, <1>2, <1>7, <2>1
    <2>3. DOMAIN all = 1..Len(all)
        BY <1>1
    <2>4. all[i].line < all[c + j].line
        BY <2>2, <2>3 DEF Ascending, all
    <2>5. QED
        BY <1>1, <1>4, <2>1, <2>4
<1> HIDE DEF n
<1>8. LeavesAndJoins(es, kept, n)
    BY <1>5, <1>6, <1>7 DEF LeavesAndJoins
<1>9. QED
    BY <1>5, <1>8 DEF kept, all
-----------------------------------------------------------------------------
(* The session.                                                            *)

(* The input does not change.                                              *)
LEMMA OfStays ==
    ASSUME log' = log, NEW text, NEW n
    PROVE  IsOf(text, n)' <=> IsOf(text, n)
BY DEF IsOf

LEMMA GenuineStays ==
    ASSUME log' = log, NEW all, NEW lines, NEW first, NEW m
    PROVE  AllGenuine(all, lines, first, m)' <=> AllGenuine(all, lines, first, m)
BY OfStays DEF AllGenuine, Genuine

LEMMA RootedStays ==
    ASSUME log' = log, NEW all, NEW format, NEW first
    PROVE  AllRooted(all, format, first)' <=> AllRooted(all, format, first)
<1>1. \A o, e : Together(format, o, e)' <=> Together(format, o, e)
    BY DEF Together
<1>2. QED
    BY <1>1 DEF AllRooted, Rooted

LEMMA ChainStays ==
    ASSUME log' = log, NEW all, NEW format, NEW chain, NEW first, NEW m
    PROVE  ChainIsLast(all, format, chain, first, m)'
               <=> ChainIsLast(all, format, chain, first, m)
BY DEF ChainIsLast

LEMMA ReadingStays ==
    ASSUME log' = log, NEW p, NEW es, NEW lines, NEW first, NEW m,
           Reading(p, es, lines, first, m)
    PROVE  Reading(p, es, lines, first, m)'
<1>1. Held(p, es, lines, first, m) => Held(p, es, lines, first, m)'
    BY GenuineStays DEF Held
<1>2. Done(es \o p.out, p.format, p.chain, lines, first, m)
          => Done(es \o p.out, p.format, p.chain, lines, first, m)'
    <2> DEFINE all == es \o p.out
               format == p.format
               chain == p.chain
    <2> HIDE DEF all, format, chain
    <2>1. Done(all, format, chain, lines, first, m)
              => Done(all, format, chain, lines, first, m)'
        BY GenuineStays, RootedStays, ChainStays DEF Done
    <2>2. QED
        BY <2>1 DEF all, format, chain
<1>3. QED
    BY <1>1, <1>2 DEF Reading

(* What the parser returned joins the entries.                             *)
LEMMA OutJoins ==
    ASSUME NEW p, NEW es \in Seq(Entry), NEW lines, NEW first, NEW m,
           Reading(p, es, lines, first, m)
    PROVE  LET q == [p EXCEPT !.out = <<>>]
           IN  /\ es \o p.out \in Seq(Entry)
               /\ Reading(q, es \o p.out, lines, first, m)
               /\ q.out = <<>> /\ q.pending = p.pending
<1> DEFINE q == [p EXCEPT !.out = <<>>]
           all == es \o p.out
<1>1. p \in ParserState /\ all \in Seq(Entry)
    BY DEF Reading, ParserState
<1>2. /\ q \in ParserState
      /\ q.format = p.format /\ q.sample = p.sample /\ q.pending = p.pending
      /\ q.line_no = p.line_no /\ q.chain = p.chain /\ q.out = <<>>
    <2>1. <<>> \in Seq(Entry)
        OBVIOUS
    <2>2. QED
        BY <1>1, <2>1 DEF ParserState
<1>3. p.format = None => all = <<>>
    <2>1. <<>> \o <<>> = <<>>
        OBVIOUS
    <2>2. QED
        BY <2>1 DEF Reading, Held
<1>4. all \o q.out = all
    BY <1>1, <1>2
<1> HIDE DEF q, all
<1>5. Reading(q, all, lines, first, m)
    <2>1. CASE p.format = None
        BY <1>1, <1>2, <1>3, <2>1 DEF Reading, Held
    <2>2. CASE p.format # None
        BY <1>1, <1>2, <1>4, <2>2 DEF Reading, all
    <2>3. QED
        BY <2>1, <2>2
<1>6. QED
    BY <1>1, <1>2, <1>5 DEF q, all

(* The state of the session but for its parser and entries.                *)
Typed ==
    /\ raw \in Seq(Seq(Byte))
    /\ raw_bytes \in Nat
    /\ first_line \in Nat /\ first_line >= 1
    /\ evicted_lines \in Nat
    /\ pending \in Seq(Byte)
    /\ entries \in Seq(Entry)
    /\ finished \in BOOLEAN
    /\ epoch \in Nat
    /\ revision \in Nat
    /\ log \in [1..InputLines -> Kinds]
    /\ line \in 1..(InputLines + 1)

(* The retained lines are those of the input, and so is what follows.      *)
Retains ==
    /\ Follow(raw, raw, first_line, first_line - 1)
    /\ IsOf(pending, LastLine + 1)
    /\ IF finished THEN pending = <<>> ELSE line = LastLine + 1

Parsed ==
    /\ parser.pending = pending
    /\ parser.out = <<>>
    /\ Reading(parser, entries, raw, first_line, LastLine)
    /\ NoneBefore(entries, first_line)
    /\ epoch = 0 => Balance(parser) = 0

(* What is true in every state a session can be in, and of every operation *)
(* when it holds before.                                                   *)
IInv == Typed /\ BytesCounted /\ Retains /\ Parsed

LEMMA SurplusType ==
    ASSUME NEW lines \in Seq(Seq(Byte))
    PROVE  Surplus(lines) \in 0..Len(lines)
<1>1. Len(lines) \in Nat
    OBVIOUS
<1>2. CASE MaxLines = None
    BY <1>1, <1>2 DEF Surplus
<1>3. CASE MaxLines # None
    <2>1. MaxLines \in Nat
        BY <1>3, SessionAssumption
    <2>2. QED
        BY <1>1, <1>3, <2>1 DEF Surplus
<1>4. QED
    BY <1>2, <1>3

(* A step in which entries join at the end and leave at the front, and the *)
(* revision gives it away.                                                 *)
Grows ==
    \/ entries' = entries /\ revision' = revision
    \/ /\ revision' = revision + 1
       /\ \E n \in 0..Len(entries) : LeavesAndJoins(entries, entries', n)

(* Session::absorb and evict, when the lines `lines` retained and ended    *)
(* have been read and p has the entries of the latter.                     *)
LEMMA AbsorbKeeps ==
    ASSUME Typed, BytesCounted, log' = log,
           NEW p, NEW lines \in Seq(Seq(Byte)), NEW m \in Nat,
           m = first_line + Len(lines) - 1,
           Len(raw) <= Len(lines),
           SubSeq(lines, 1, Len(raw)) = raw,
           Follow(lines, lines, first_line, first_line - 1),
           Reading(p, entries, lines, first_line, m),
           Absorb(p, lines)
    PROVE  /\ (raw \in Seq(Seq(Byte)))'
           /\ (raw_bytes \in Nat)'
           /\ (first_line \in Nat /\ first_line >= 1)'
           /\ (evicted_lines \in Nat)'
           /\ (entries \in Seq(Entry))'
           /\ (revision \in Nat)'
           /\ BytesCounted'
           /\ Follow(raw, raw, first_line, first_line - 1)'
           /\ LastLine' = m
           /\ Reading(parser, entries, raw, first_line, LastLine)'
           /\ NoneBefore(entries, first_line)'
           /\ parser'.out = <<>>
           /\ parser'.pending = p.pending
           /\ Balance(parser') = Balance(p)
           /\ Grows
<1> DEFINE n == Surplus(lines)
           left == SubSeq(lines, n + 1, Len(lines))
           f == first_line + n
           kept == Retained(entries \o p.out, f)
           q == [p EXCEPT !.out = <<>>]
<1>1. n \in 0..Len(lines) /\ Len(lines) \in Nat
    BY SurplusType
<1>2. /\ raw' = left
      /\ raw_bytes' = RawBytes(lines, n)
      /\ first_line' = f
      /\ evicted_lines' = evicted_lines + n
      /\ entries' = kept
      /\ parser' = q
      /\ revision' = Revised(p, kept # entries \o p.out)
    BY DEF Absorb
<1> HIDE DEF n
<1>3. /\ first_line \in Nat /\ first_line >= 1
      /\ entries \in Seq(Entry)
      /\ raw \in Seq(Seq(Byte)) /\ raw_bytes \in Nat
      /\ evicted_lines \in Nat /\ revision \in Nat
    BY DEF Typed
<1>4. /\ kept \in Seq(Entry)
      /\ Reading(q, kept, left, f, m)
      /\ NoneBefore(kept, f)
      /\ q.out = <<>> /\ q.pending = p.pending
      /\ Balance(q) = Balance(p)
    <2> DEFINE es == entries
               first == first_line
    <2>1. es \in Seq(Entry) /\ first \in Nat /\ first >= 1
              /\ m = first + Len(lines) - 1 /\ Reading(p, es, lines, first, m)
        BY <1>3
    <2> HIDE DEF es, first
    <2> DEFINE k == Retained(es \o p.out, first + n)
               l == SubSeq(lines, n + 1, Len(lines))
    <2>2. /\ k \in Seq(Entry)
          /\ Reading(q, k, l, first + n, m)
          /\ NoneBefore(k, first + n)
          /\ q.out = <<>> /\ q.pending = p.pending
          /\ Balance(q) = Balance(p)
        BY <1>1, <2>1, EvictionKeeps
    <2>3. QED
        BY <2>2 DEF es, first
<1>5. /\ left \in Seq(Seq(Byte)) /\ Len(left) = Len(lines) - n
      /\ \A i \in 1..(Len(lines) - n) : left[i] = lines[n + i]
    BY <1>1
<1>6. /\ raw_bytes' = Bytes(left)
      /\ Bytes(left) \in Nat
    <2>1. /\ SubSeq(lines, 1, n) \in Seq(Seq(Byte))
          /\ left \in Seq(Seq(Byte))
          /\ Bytes(lines) = Bytes(SubSeq(lines, 1, n)) + Bytes(left)
        BY <1>1, BytesOfParts
    <2> DEFINE more == SubSeq(lines, Len(raw) + 1, Len(lines))
    <2>2. Len(raw) \in 0..Len(lines)
        BY <1>1, <1>3
    <2>3. /\ more \in Seq(Seq(Byte))
          /\ Bytes(lines) = Bytes(SubSeq(lines, 1, Len(raw))) + Bytes(more)
        BY <2>2, BytesOfParts
    <2>4. Bytes(lines) = raw_bytes + Bytes(more)
        BY <2>3 DEF BytesCounted
    <2>5. raw_bytes' = raw_bytes + Bytes(more) - Bytes(SubSeq(lines, 1, n))
        BY <1>2 DEF RawBytes
    <2> DEFINE front == SubSeq(lines, 1, n)
    <2> HIDE DEF more, left, front
    <2>6. Bytes(more) \in Nat /\ Bytes(left) \in Nat /\ Bytes(front) \in Nat
        BY <2>1, <2>3, BytesNatural DEF front
    <2>7. /\ raw_bytes' = raw_bytes + Bytes(more) - Bytes(front)
          /\ raw_bytes + Bytes(more) = Bytes(front) + Bytes(left)
        BY <2>1, <2>4, <2>5 DEF front
    <2>8. QED
        BY <1>3, <2>6, <2>7, SMTT(30)
<1>7. /\ f \in Nat /\ f >= 1 /\ evicted_lines + n \in Nat
      /\ f + Len(left) - 1 = m
    <2>1. f = first_line + n /\ Len(left) = Len(lines) - n
        BY <1>5
    <2> HIDE DEF left, f
    <2>2. n \in Nat
        BY <1>1
    <2>3. QED
        BY <1>1, <1>3, <2>1, <2>2
<1>8. BytesCounted'
    <2>1. evicted_lines = first_line - 1
        BY DEF BytesCounted
    <2>2. evicted_lines' = first_line' - 1
        BY <1>1, <1>2, <1>3, <2>1
    <2> HIDE DEF left
    <2>3. raw_bytes' = Bytes(raw')
        BY <1>2, <1>6
    <2>4. QED
        BY <2>2, <2>3 DEF BytesCounted
<1>9. Follow(left, left, f, f - 1)
    <2>1. SUFFICES ASSUME NEW i \in 1..Len(left)
                   PROVE  /\ IsOf(left[i], (f - 1) + i)
                          /\ left[i] = left[((f - 1) + i) - f + 1]
        BY DEF Follow
    <2>2. n + i \in 1..Len(lines) /\ left[i] = lines[n + i]
        <3> HIDE DEF left
        <3>1. i \in 1..(Len(lines) - n)
            BY <1>5
        <3>2. QED
            BY <1>1, <1>5, <3>1, SMTT(30)
    <2>3. IsOf(lines[n + i], (first_line - 1) + (n + i))
        BY <2>2 DEF Follow
    <2>4. (first_line - 1) + (n + i) = (f - 1) + i /\ ((f - 1) + i) - f + 1 = i
        BY <1>1, <1>3, <1>5
    <2> HIDE DEF left, f
    <2>5. QED
        BY <2>2, <2>3, <2>4
<1> HIDE DEF left, f, kept, q
<1>10. Follow(raw, raw, first_line, first_line - 1)'
    <2>1. \A text, k : IsOf(text, k)' <=> IsOf(text, k)
        BY OfStays
    <2>2. PICK a, b : a = raw' /\ b = first_line'
        OBVIOUS
    <2>3. Follow(a, a, b, b - 1)
        BY <1>2, <1>9, <2>2
    <2>4. Follow(a, a, b, b - 1)'
        BY <2>1, <2>3 DEF Follow
    <2>5. QED
        BY <2>2, <2>4
<1>11. LastLine' = m
    BY <1>2, <1>7 DEF LastLine
<1>12. Reading(parser, entries, raw, first_line, LastLine)'
    <2>1. PICK a, b, c, d, e : a = parser' /\ b = entries' /\ c = raw'
                                   /\ d = first_line' /\ e = LastLine'
        OBVIOUS
    <2>2. Reading(a, b, c, d, e)
        BY <1>2, <1>4, <1>11, <2>1
    <2>3. Reading(a, b, c, d, e)'
        BY <2>2, ReadingStays
    <2>4. QED
        BY <2>1, <2>3
<1>13. revision' \in Nat
    BY <1>2, <1>3 DEF Revised
<1>14. NoneBefore(entries, first_line)'
    BY <1>2, <1>4 DEF NoneBefore
<1>15. Grows
    <2> DEFINE es == entries
               out == p.out
    <2>1. es \in Seq(Entry) /\ out \in Seq(Entry)
        BY <1>3 DEF Reading, ParserState
    <2>2. Ascending(es \o out)
        <3>1. <<>> \o <<>> = <<>> /\ DOMAIN <<>> = {}
            OBVIOUS
        <3>2. Ascending(<<>>)
            BY <3>1 DEF Ascending
        <3>3. QED
            BY <3>1, <3>2 DEF Reading, Held, Done
    <2>3. es \o <<>> = es
        BY <2>1
    <2> HIDE DEF es, out
    <2> DEFINE k == Retained(es \o out, f)
    <2>4. \E i \in 0..Len(es) : LeavesAndJoins(es, k, i)
        BY <1>7, <2>1, <2>2, RetainedGrows
    <2>5. entries' = k /\ revision' = Revised(p, k # es \o out)
        BY <1>2 DEF kept, es, out
    <2> HIDE DEF k
    <2>6. CASE out = <<>> /\ k = es \o out
        <3>1. revision' = revision
            BY <2>5, <2>6 DEF Revised, out
        <3>2. entries' = es
            BY <2>3, <2>5, <2>6
        <3>3. QED
            BY <3>1, <3>2 DEF Grows, es
    <2>7. CASE ~(out = <<>> /\ k = es \o out)
        <3>1. revision' = revision + 1
            BY <2>5, <2>7 DEF Revised, out
        <3>2. QED
            BY <2>4, <2>5, <3>1 DEF Grows, es
    <2>8. QED
        BY <2>6, <2>7
<1>16. QED
    BY <1>15, <1>2, <1>4, <1>5, <1>6, <1>7, <1>8, <1>10, <1>11, <1>12, <1>13, <1>14
-----------------------------------------------------------------------------
(* One operation of the session after the other.                           *)

LEMMA Joined ==
    ASSUME NEW front \in Seq(Seq(Byte)), NEW back \in Seq(Seq(Byte))
    PROVE  /\ front \o back \in Seq(Seq(Byte))
           /\ Len(front \o back) = Len(front) + Len(back)
           /\ SubSeq(front \o back, 1, Len(front)) = front
           /\ \A i \in 1..Len(front) : (front \o back)[i] = front[i]
           /\ \A i \in 1..Len(back) : (front \o back)[Len(front) + i] = back[i]
OBVIOUS

(* Line m is the last of the lines from line `first` on.                   *)
EndAt(lines, first, m) == m = first + Len(lines) - 1

(* The texts are of the lines after line m.                                *)
Succeed(texts, m) == \A i \in 1..Len(texts) : IsOf(texts[i], m + i)

(* Lines that follow the retained ones.                                    *)
LEMMA FollowJoined ==
    ASSUME NEW front \in Seq(Seq(Byte)), NEW back \in Seq(Seq(Byte)),
           NEW first \in Nat, first >= 1,
           NEW m \in Nat, EndAt(front, first, m),
           Follow(front, front, first, first - 1),
           Succeed(back, m)
    PROVE  /\ Follow(back, front \o back, first, m)
           /\ Follow(front \o back, front \o back, first, first - 1)
           /\ \A n \in first..m : front[n - first + 1] = (front \o back)[n - first + 1]
           /\ EndAt(front \o back, first, m + Len(back))
<1> DEFINE lines == front \o back
           a == Len(front)
           b == Len(back)
<1>1. /\ a \in Nat /\ b \in Nat
      /\ Len(lines) = a + b
      /\ \A i \in 1..a : lines[i] = front[i]
      /\ \A i \in 1..b : lines[a + i] = back[i]
    OBVIOUS
<1>2. m = first + a - 1
    BY DEF EndAt
<1>3. \A i \in 1..a : IsOf(front[i], (first - 1) + i)
    BY DEF Follow
<1>4. \A i \in 1..b : IsOf(back[i], m + i)
    BY DEF Succeed
<1> HIDE DEF lines, a, b
<1>n. a \in Nat /\ b \in Nat
    BY <1>1
<1>5. ASSUME NEW i \in 1..b
      PROVE  IsOf(back[i], m + i) /\ back[i] = lines[(m + i) - first + 1]
    <2>1. (m + i) - first + 1 = a + i
        BY <1>n, <1>2
    <2>2. QED
        BY <1>1, <1>4, <2>1
<1>6. ASSUME NEW i \in 1..(a + b)
      PROVE  /\ IsOf(lines[i], (first - 1) + i)
             /\ lines[i] = lines[((first - 1) + i) - first + 1]
    <2>1. ((first - 1) + i) - first + 1 = i
        BY <1>n
    <2>2. CASE i <= a
        <3>1. i \in 1..a
            BY <1>n, <2>2
        <3>2. QED
            BY <1>1, <1>3, <2>1, <3>1
    <2>3. CASE i > a
        <3> DEFINE j == i - a
        <3>1. j \in 1..b /\ a + j = i /\ m + j = (first - 1) + i
            BY <1>n, <1>2, <2>3
        <3> HIDE DEF j
        <3>2. lines[i] = back[j]
            BY <1>1, <3>1
        <3>3. IsOf(back[j], (first - 1) + i)
            BY <1>4, <3>1
        <3>4. QED
            BY <2>1, <3>2, <3>3
    <2>4. QED
        BY <1>1, <2>2, <2>3
<1>7. ASSUME NEW n \in first..m PROVE front[n - first + 1] = lines[n - first + 1]
    <2>1. n - first + 1 \in 1..a
        BY <1>1, <1>2
    <2>2. QED
        BY <1>1, <2>1
<1>8. m + b = first + Len(lines) - 1
    <2>1. Len(lines) = a + b
        BY <1>1
    <2>2. QED
        BY <1>n, <1>2, <2>1
<1>9. Follow(back, lines, first, m)
    BY <1>5 DEF Follow, b
<1>10. Follow(lines, lines, first, first - 1)
    BY <1>1, <1>6 DEF Follow
<1>11. QED
    BY <1>7, <1>8, <1>9, <1>10 DEF lines, b, EndAt

(* What the proofs of the operations start from.                           *)
LEMMA Known ==
    ASSUME IInv
    PROVE  /\ raw \in Seq(Seq(Byte)) /\ Len(raw) \in Nat
           /\ first_line \in Nat /\ first_line >= 1
           /\ pending \in Seq(Byte) /\ entries \in Seq(Entry)
           /\ LastLine \in Nat /\ LastLine = first_line + Len(raw) - 1
           /\ first_line <= LastLine + 1
           /\ Follow(raw, raw, first_line, first_line - 1)
           /\ IsOf(pending, LastLine + 1)
           /\ ~finished => line = LastLine + 1
           /\ parser.pending = pending
           /\ Reading(parser, entries, raw, first_line, LastLine)
           /\ NoneBefore(entries, first_line)
           /\ parser \in ParserState
<1>1. /\ raw \in Seq(Seq(Byte)) /\ Len(raw) \in Nat
      /\ first_line \in Nat /\ first_line >= 1
      /\ pending \in Seq(Byte) /\ entries \in Seq(Entry)
    BY DEF IInv, Typed
<1>2. LastLine = first_line + Len(raw) - 1
    BY DEF LastLine
<1>3. LastLine \in Nat /\ first_line <= LastLine + 1
    BY <1>1, <1>2
<1>4. Reading(parser, entries, raw, first_line, LastLine)
    BY DEF IInv, Parsed
<1>5. parser \in ParserState
    BY <1>4 DEF Reading
<1>6. QED
    BY <1>1, <1>2, <1>3, <1>4, <1>5 DEF IInv, Retains, Parsed

LEMMA InitKeeps == Init => IInv
<1> SUFFICES ASSUME Init PROVE IInv
    OBVIOUS
<1>1. /\ raw = <<>> /\ raw_bytes = 0 /\ first_line = 1 /\ evicted_lines = 0
      /\ pending = <<>> /\ entries = <<>> /\ finished = FALSE
      /\ epoch = 0 /\ revision = 0 /\ line = 1
      /\ log \in [1..InputLines -> Kinds]
      /\ parser = NewParser(None, 1)
    BY DEF Init
<1>2. <<>> \in Seq(Seq(Byte)) /\ <<>> \in Seq(Byte) /\ <<>> \in Seq(Entry)
          /\ Len(<<>>) = 0 /\ DOMAIN <<>> = {}
    OBVIOUS
<1>3. InputLines \in Nat
    BY SessionAssumption
<1>4. Typed
    <2>1. 0 \in Nat /\ 1 \in Nat /\ 1 >= 1 /\ 1 \in 1..(InputLines + 1)
        BY <1>3
    <2>2. QED
        BY <1>1, <1>2, <2>1 DEF Typed
<1>5. BytesCounted
    BY <1>1, BytesOfNone DEF BytesCounted
<1>6. LastLine = 0 /\ 1 - 1 = 0
    BY <1>1, <1>2 DEF LastLine
<1>7. Follow(<<>>, <<>>, 1, 0)
    BY <1>2 DEF Follow
<1>8. IsOf(<<>>, 1)
    BY <1>2 DEF IsOf
<1>9. Retains
    BY <1>1, <1>6, <1>7, <1>8 DEF Retains
<1>10. Reading(parser, <<>>, <<>>, 1, 1 - 1) /\ parser.pending = <<>>
    <2> DEFINE first == 1
    <2>1. first \in Nat /\ first >= 1
        OBVIOUS
    <2> HIDE DEF first
    <2>2. BlankBefore(<<>>, first, first)
        BY <2>1 DEF BlankBefore
    <2>4. /\ Reading(NewParser(None, first), <<>>, <<>>, first, first - 1)
          /\ NewParser(None, first).pending = <<>>
        BY <2>1, <2>2, NewParserReads
    <2>3. QED
        BY <1>1, <2>4 DEF first
<1>11. parser.out = <<>> /\ Balance(parser) = 0
    BY <1>1 DEF NewParser, Balance, Reason
<1>12. Parsed
    BY <1>1, <1>2, <1>6, <1>10, <1>11 DEF Parsed, NoneBefore
<1>13. QED
    BY <1>4, <1>5, <1>9, <1>12 DEF IInv

LEMMA IngestKeeps ==
    ASSUME IInv, NEW n \in 1..MaxChunk, NEW ends \in SUBSET (1..n), Ingest(n, ends)
    PROVE  IInv' /\ Grows /\ epoch' = epoch
<1> DEFINE chunk == Chunk(n, ends)
           s == Split(pending \o chunk)
           texts == s.lines
           rest == s.rest
           lines == raw \o texts
           p == Feed(parser, chunk)
           m == LastLine + Len(texts)
<1>1. /\ ~finished /\ IsInput(n, ends)
      /\ pending' = rest
      /\ Absorb(p, lines)
      /\ line' = line + Cardinality(ends)
      /\ finished' = finished /\ epoch' = epoch /\ log' = log
    BY DEF Ingest
<1>2. /\ Typed /\ BytesCounted
      /\ log \in [1..InputLines -> Kinds]
      /\ line \in 1..(InputLines + 1)
      /\ finished \in BOOLEAN /\ epoch \in Nat
      /\ epoch = 0 => Balance(parser) = 0
    BY DEF IInv, Typed, Parsed
<1>3. n \in Nat /\ InputLines \in Nat
    BY SessionAssumption
<1>4. /\ raw \in Seq(Seq(Byte)) /\ Len(raw) \in Nat
      /\ first_line \in Nat /\ first_line >= 1
      /\ pending \in Seq(Byte) /\ entries \in Seq(Entry)
      /\ LastLine \in Nat /\ LastLine = first_line + Len(raw) - 1
      /\ first_line <= LastLine + 1
      /\ Follow(raw, raw, first_line, first_line - 1)
      /\ IsOf(pending, LastLine + 1)
      /\ line = LastLine + 1
      /\ parser.pending = pending
      /\ Reading(parser, entries, raw, first_line, LastLine)
    BY <1>1, Known
<1>5. /\ texts \in Seq(Seq(Byte)) /\ rest \in Seq(Byte)
      /\ Len(texts) = Cardinality(ends)
      /\ \A i \in 1..Len(texts) : IsOf(texts[i], line + i - 1)
      /\ IsOf(rest, line + Cardinality(ends))
      /\ s = [lines |-> texts, rest |-> rest]
    <2>1. IsOf(pending, line)
        BY <1>4
    <2>2. QED
        BY <1>1, <1>2, <1>3, <1>4, <2>1, SplitChunk
<1>6. CutInto(parser, chunk, texts, rest)
    BY <1>4, <1>5 DEF CutInto
<1> HIDE DEF texts, rest, p, lines, s, chunk
<1>7. \A i \in 1..Len(texts) : IsOf(texts[i], LastLine + i)
    <2>1. SUFFICES ASSUME NEW i \in 1..Len(texts) PROVE IsOf(texts[i], LastLine + i)
        OBVIOUS
    <2>2. line + i - 1 = LastLine + i
        BY <1>4
    <2>3. QED
        BY <1>5, <2>2
<1>8. /\ Follow(texts, lines, first_line, LastLine)
      /\ Follow(lines, lines, first_line, first_line - 1)
      /\ \A k \in first_line..LastLine :
             raw[k - first_line + 1] = lines[k - first_line + 1]
      /\ m = first_line + Len(lines) - 1
    <2> DEFINE front == raw
               first == first_line
               k == LastLine
    <2>1. /\ front \in Seq(Seq(Byte)) /\ first \in Nat /\ first >= 1
          /\ k \in Nat /\ EndAt(front, first, k)
          /\ Follow(front, front, first, first - 1)
          /\ texts \in Seq(Seq(Byte))
          /\ Succeed(texts, k)
        BY <1>4, <1>5, <1>7 DEF Succeed, EndAt
    <2> HIDE DEF front, first, k
    <2>2. /\ Follow(texts, front \o texts, first, k)
          /\ Follow(front \o texts, front \o texts, first, first - 1)
          /\ \A i \in first..k :
                 front[i - first + 1] = (front \o texts)[i - first + 1]
          /\ EndAt(front \o texts, first, k + Len(texts))
        BY <2>1, FollowJoined
    <2>3. QED
        BY <2>2 DEF front, first, k, lines, EndAt
<1>9. /\ lines \in Seq(Seq(Byte))
      /\ Len(lines) = Len(raw) + Len(texts)
      /\ SubSeq(lines, 1, Len(raw)) = raw
    BY <1>4, <1>5, Joined DEF lines
<1>10. Len(raw) <= Len(lines) /\ m \in Nat /\ Len(texts) \in Nat
    BY <1>4, <1>5, <1>9, SMTT(30)
<1>11. Reading(parser, entries, lines, first_line, LastLine)
    BY <1>4, <1>8, LinesAgree
<1>12. /\ Ready(parser, entries, lines, first_line, LastLine)
       /\ Arrives(parser, chunk, texts, rest, lines, first_line, LastLine)
    BY <1>4, <1>5, <1>6, <1>8, <1>11 DEF Ready, Arrives
<1>13. /\ Reading(p, entries, lines, first_line, m)
       /\ p.pending = rest
       /\ Balance(p) = Balance(parser)
    BY <1>12, FeedKeeps DEF p
<1> HIDE DEF m
<1>14. /\ (raw \in Seq(Seq(Byte)))'
       /\ (raw_bytes \in Nat)'
       /\ (first_line \in Nat /\ first_line >= 1)'
       /\ (evicted_lines \in Nat)'
       /\ (entries \in Seq(Entry))'
       /\ (revision \in Nat)'
       /\ BytesCounted'
       /\ Follow(raw, raw, first_line, first_line - 1)'
       /\ LastLine' = m
       /\ Reading(parser, entries, raw, first_line, LastLine)'
       /\ NoneBefore(entries, first_line)'
       /\ parser'.out = <<>>
       /\ parser'.pending = p.pending
       /\ Balance(parser') = Balance(p)
       /\ Grows
    BY <1>1, <1>2, <1>8, <1>9, <1>10, <1>13, AbsorbKeeps
<1>15. line' = m + 1 /\ line' \in 1..(InputLines + 1)
    <2>1. line + Cardinality(ends) <= InputLines + 1
        BY <1>1 DEF IsInput
    <2>2. m = LastLine + Len(texts)
        BY DEF m
    <2>3. /\ line' = line + Len(texts) /\ line = LastLine + 1
          /\ LastLine \in Nat /\ Len(texts) \in Nat
          /\ line + Len(texts) <= InputLines + 1
        BY <1>1, <1>4, <1>5, <1>10, <2>1
    <2>4. QED
        BY <1>3, <2>2, <2>3
<1>16. Typed'
    BY <1>1, <1>2, <1>5, <1>14, <1>15 DEF Typed
<1>17. Retains'
    <2>1. IsOf(rest, m + 1)
        <3>1. line + Cardinality(ends) = m + 1
            BY <1>1, <1>15
        <3>2. QED
            BY <1>5, <3>1
    <2>2. PICK a, b : a = pending' /\ b = LastLine' + 1
        OBVIOUS
    <2>3. IsOf(a, b)'
        BY <1>1, <1>14, <2>1, <2>2, OfStays
    <2>4. IsOf(pending, LastLine + 1)'
        BY <2>2, <2>3
    <2>5. ~finished' /\ (line = LastLine + 1)'
        BY <1>1, <1>14, <1>15
    <2>6. QED
        BY <1>14, <2>4, <2>5 DEF Retains
<1>18. Parsed'
    BY <1>1, <1>2, <1>13, <1>14 DEF Parsed
<1>19. QED
    BY <1>1, <1>14, <1>16, <1>17, <1>18 DEF IInv

LEMMA FinishKeeps ==
    ASSUME IInv, Finish
    PROVE  IInv' /\ Grows /\ epoch' = epoch
<1> DEFINE extra == IF pending = <<>> THEN <<>> ELSE <<pending>>
           lines == raw \o extra
           p == Flush(parser)
           m == IF parser.pending = <<>> THEN LastLine ELSE LastLine + 1
<1>1. /\ ~finished /\ finished' = TRUE /\ pending' = <<>>
      /\ Absorb(p, IF pending = <<>> THEN raw ELSE Append(raw, pending))
      /\ line' = line /\ epoch' = epoch /\ log' = log
    BY DEF Finish
<1>2. /\ Typed /\ BytesCounted
      /\ log \in [1..InputLines -> Kinds]
      /\ line \in 1..(InputLines + 1)
      /\ epoch \in Nat
      /\ epoch = 0 => Balance(parser) = 0
    BY DEF IInv, Typed, Parsed
<1>3. /\ raw \in Seq(Seq(Byte)) /\ Len(raw) \in Nat
      /\ first_line \in Nat /\ first_line >= 1
      /\ pending \in Seq(Byte) /\ entries \in Seq(Entry)
      /\ LastLine \in Nat /\ LastLine = first_line + Len(raw) - 1
      /\ first_line <= LastLine + 1
      /\ Follow(raw, raw, first_line, first_line - 1)
      /\ IsOf(pending, LastLine + 1)
      /\ parser.pending = pending
      /\ Reading(parser, entries, raw, first_line, LastLine)
    BY Known
<1>4. /\ extra \in Seq(Seq(Byte))
      /\ Succeed(extra, LastLine)
      /\ LastLine + Len(extra) = m
      /\ pending # <<>> => Len(extra) = 1 /\ extra[1] = pending
    <2>1. CASE pending = <<>>
        <3>1. extra = <<>> /\ <<>> \in Seq(Seq(Byte)) /\ Len(<<>>) = 0
            BY <2>1
        <3>2. m = LastLine /\ LastLine + 0 = LastLine
            BY <1>3, <2>1
        <3> HIDE DEF extra, m
        <3>3. QED
            BY <2>1, <3>1, <3>2 DEF Succeed
    <2>2. CASE pending # <<>>
        <3>1. extra = <<pending>> /\ <<pending>> \in Seq(Seq(Byte)) /\ Len(<<pending>>) = 1
                  /\ <<pending>>[1] = pending
            BY <1>3, <2>2
        <3>2. m = LastLine + 1
            BY <1>3, <2>2
        <3> HIDE DEF extra, m
        <3>3. \A i \in 1..Len(extra) : i = 1
            BY <3>1
        <3>4. QED
            BY <1>3, <3>1, <3>2, <3>3 DEF Succeed
    <2>3. QED
        BY <2>1, <2>2
<1>5. Absorb(p, lines)
    <2>1. raw = raw \o <<>> /\ Append(raw, pending) = raw \o <<pending>>
        BY <1>3
    <2> HIDE DEF p
    <2>2. QED
        BY <1>1, <2>1
<1>6. m \in Nat
    BY <1>3
<1> HIDE DEF extra, p, lines
<1>7. /\ Follow(extra, lines, first_line, LastLine)
      /\ Follow(lines, lines, first_line, first_line - 1)
      /\ \A k \in first_line..LastLine :
             raw[k - first_line + 1] = lines[k - first_line + 1]
      /\ LastLine + Len(extra) = first_line + Len(lines) - 1
    <2> DEFINE front == raw
               first == first_line
               k == LastLine
    <2>1. /\ front \in Seq(Seq(Byte)) /\ first \in Nat /\ first >= 1
          /\ k \in Nat /\ EndAt(front, first, k)
          /\ Follow(front, front, first, first - 1)
          /\ extra \in Seq(Seq(Byte))
          /\ Succeed(extra, k)
        BY <1>3, <1>4 DEF EndAt
    <2> HIDE DEF front, first, k
    <2>2. /\ Follow(extra, front \o extra, first, k)
          /\ Follow(front \o extra, front \o extra, first, first - 1)
          /\ \A i \in first..k :
                 front[i - first + 1] = (front \o extra)[i - first + 1]
          /\ EndAt(front \o extra, first, k + Len(extra))
        BY <2>1, FollowJoined
    <2>3. QED
        BY <2>2 DEF front, first, k, lines, EndAt
<1>8. /\ lines \in Seq(Seq(Byte))
      /\ Len(lines) = Len(raw) + Len(extra)
      /\ SubSeq(lines, 1, Len(raw)) = raw
    BY <1>3, <1>4, Joined DEF lines
<1>9. Len(raw) <= Len(lines) /\ m = first_line + Len(lines) - 1
    <2>1. Len(extra) \in Nat
        BY <1>4
    <2>2. QED
        BY <1>3, <1>4, <1>7, <1>8, <2>1
<1>10. Reading(parser, entries, lines, first_line, LastLine)
    BY <1>3, <1>7, LinesAgree
<1>11. parser.pending # <<>> =>
           /\ IsOf(parser.pending, LastLine + 1)
           /\ parser.pending = lines[(LastLine + 1) - first_line + 1]
    <2>1. SUFFICES ASSUME pending # <<>>
                   PROVE  pending = lines[(LastLine + 1) - first_line + 1]
        BY <1>3
    <2>2. Len(extra) = 1 /\ extra[1] = pending
        BY <1>4, <2>1
    <2>3. 1 \in 1..Len(extra)
        BY <2>2
    <2>4. extra[1] = lines[(LastLine + 1) - first_line + 1]
        BY <1>7, <2>3 DEF Follow
    <2>5. QED
        BY <2>2, <2>4
<1>12. /\ Reading(p, entries, lines, first_line, m)
       /\ p.pending = <<>>
       /\ Balance(p) = Balance(parser)
    <2> DEFINE r == parser
               es == entries
               first == first_line
               k == LastLine
    <2>1. /\ es \in Seq(Entry) /\ first \in Nat /\ first >= 1
          /\ k \in Nat /\ first <= k + 1
          /\ Reading(r, es, lines, first, k)
          /\ r.pending # <<>> => /\ IsOf(r.pending, k + 1)
                                 /\ r.pending = lines[(k + 1) - first + 1]
          /\ m \in Nat
          /\ m = IF r.pending = <<>> THEN k ELSE k + 1
        BY <1>3, <1>6, <1>10, <1>11
    <2> HIDE DEF r, es, first, k, m
    <2>2. /\ Reading(Flush(r), es, lines, first, m)
          /\ Flush(r).pending = <<>>
          /\ Balance(Flush(r)) = Balance(r)
        BY <2>1, FlushKeeps
    <2>3. QED
        BY <2>2 DEF r, es, first, k, p
<1> HIDE DEF m
<1>13. /\ (raw \in Seq(Seq(Byte)))'
       /\ (raw_bytes \in Nat)'
       /\ (first_line \in Nat /\ first_line >= 1)'
       /\ (evicted_lines \in Nat)'
       /\ (entries \in Seq(Entry))'
       /\ (revision \in Nat)'
       /\ BytesCounted'
       /\ Follow(raw, raw, first_line, first_line - 1)'
       /\ LastLine' = m
       /\ Reading(parser, entries, raw, first_line, LastLine)'
       /\ NoneBefore(entries, first_line)'
       /\ parser'.out = <<>>
       /\ parser'.pending = p.pending
       /\ Balance(parser') = Balance(p)
       /\ Grows
    BY <1>1, <1>2, <1>5, <1>6, <1>7, <1>8, <1>9, <1>12, AbsorbKeeps
<1>14. Typed'
    <2>1. <<>> \in Seq(Byte)
        OBVIOUS
    <2>2. QED
        BY <1>1, <1>2, <1>13, <2>1 DEF Typed
<1>15. Retains'
    <2>1. IsOf(pending, LastLine + 1)'
        <3>1. pending' = <<>> /\ DOMAIN <<>> = {}
            BY <1>1
        <3>2. QED
            BY <3>1 DEF IsOf
    <2>2. QED
        BY <1>1, <1>13, <2>1 DEF Retains
<1>16. Parsed'
    BY <1>1, <1>2, <1>12, <1>13 DEF Parsed
<1>17. QED
    BY <1>1, <1>13, <1>14, <1>15, <1>16 DEF IInv

LEMMA ForceDetectionKeeps ==
    ASSUME IInv, ForceDetection
    PROVE  IInv' /\ Grows /\ epoch' = epoch
<1> DEFINE p == ForceDetected(parser)
           m == LastLine
<1>1. /\ Absorb(p, raw)
      /\ pending' = pending /\ finished' = finished
      /\ line' = line /\ epoch' = epoch /\ log' = log
    BY DEF ForceDetection
<1>2. /\ Typed /\ BytesCounted /\ Retains
      /\ log \in [1..InputLines -> Kinds]
      /\ line \in 1..(InputLines + 1)
      /\ finished \in BOOLEAN /\ epoch \in Nat
      /\ epoch = 0 => Balance(parser) = 0
    BY DEF IInv, Typed, Parsed
<1>3. /\ raw \in Seq(Seq(Byte)) /\ Len(raw) \in Nat
      /\ first_line \in Nat /\ first_line >= 1
      /\ pending \in Seq(Byte) /\ entries \in Seq(Entry)
      /\ LastLine \in Nat /\ LastLine = first_line + Len(raw) - 1
      /\ Follow(raw, raw, first_line, first_line - 1)
      /\ IsOf(pending, LastLine + 1)
      /\ parser.pending = pending
      /\ Reading(parser, entries, raw, first_line, LastLine)
    BY Known
<1>4. /\ Reading(p, entries, raw, first_line, m)
      /\ p.pending = pending
      /\ Balance(p) = Balance(parser)
    BY <1>3, ForceKeeps
<1>5. Len(raw) <= Len(raw) /\ SubSeq(raw, 1, Len(raw)) = raw
    BY <1>3
<1> HIDE DEF p, m
<1>6. m \in Nat /\ m = first_line + Len(raw) - 1
    BY <1>3 DEF m
<1>7. /\ (raw \in Seq(Seq(Byte)))'
      /\ (raw_bytes \in Nat)'
      /\ (first_line \in Nat /\ first_line >= 1)'
      /\ (evicted_lines \in Nat)'
      /\ (entries \in Seq(Entry))'
      /\ (revision \in Nat)'
      /\ BytesCounted'
      /\ Follow(raw, raw, first_line, first_line - 1)'
      /\ LastLine' = m
      /\ Reading(parser, entries, raw, first_line, LastLine)'
      /\ NoneBefore(entries, first_line)'
      /\ parser'.out = <<>>
      /\ parser'.pending = p.pending
      /\ Balance(parser') = Balance(p)
      /\ Grows
    BY <1>1, <1>2, <1>3, <1>4, <1>5, <1>6, AbsorbKeeps
<1>8. Typed'
    BY <1>1, <1>2, <1>3, <1>7 DEF Typed
<1>9. Retains'
    <2>1. PICK a, b : a = pending' /\ b = LastLine' + 1
        OBVIOUS
    <2>2. IsOf(a, b)'
        BY <1>1, <1>3, <1>7, <2>1, OfStays DEF m
    <2>3. IsOf(pending, LastLine + 1)'
        BY <2>1, <2>2
    <2>4. IF finished THEN pending = <<>> ELSE line = LastLine + 1
        BY <1>2 DEF Retains
    <2>5. (IF finished THEN pending = <<>> ELSE line = LastLine + 1)'
        BY <1>1, <1>7, <2>4 DEF m
    <2>6. QED
        BY <1>7, <2>3, <2>5 DEF Retains
<1>10. Parsed'
    BY <1>1, <1>2, <1>4, <1>7 DEF Parsed
<1>11. QED
    BY <1>1, <1>7, <1>8, <1>9, <1>10 DEF IInv

LEMMA SetFormatKeeps ==
    ASSUME IInv, NEW format \in Format \union {None}, SetFormat(format)
    PROVE  IInv'
<1> DEFINE fed == Reparsed(format)
           p == IF finished THEN Flush(fed)
                ELSE IF detection_forced THEN ForceDetected(fed)
                ELSE fed
           q == [p EXCEPT !.out = <<>>]
           m == LastLine
           es == <<>>
<1>1. /\ parser' = q /\ entries' = p.out
      /\ epoch' = epoch + 1 /\ revision' = revision + 1
      /\ raw' = raw /\ raw_bytes' = raw_bytes /\ first_line' = first_line
      /\ evicted_lines' = evicted_lines /\ pending' = pending
      /\ finished' = finished /\ log' = log /\ line' = line
    BY DEF SetFormat, Replace
<1>2. Typed /\ BytesCounted /\ Retains
    BY DEF IInv
<1>3. /\ raw \in Seq(Seq(Byte)) /\ Len(raw) \in Nat
      /\ first_line \in Nat /\ first_line >= 1
      /\ pending \in Seq(Byte)
      /\ m \in Nat /\ m = first_line + Len(raw) - 1
      /\ first_line <= m + 1
      /\ Follow(raw, raw, first_line, first_line - 1)
    BY Known
<1>4. es \in Seq(Entry)
    OBVIOUS
<1>5. /\ Reading(fed, es, raw, first_line, m)
      /\ fed.pending = pending
    <2> DEFINE lines == raw
               first == first_line
    <2>1. first \in Nat /\ first >= 1 /\ first <= first_line
        BY <1>3
    <2>2. BlankBefore(lines, first, first_line) /\ Follow(raw, lines, first, first_line - 1)
        BY <1>3 DEF BlankBefore
    <2> HIDE DEF lines, first, m
    <2>3. /\ Reading(fed, <<>>, lines, first, m)
          /\ fed.pending = pending
        BY <1>3, <2>1, <2>2, ReparsedKeeps DEF m
    <2>4. QED
        BY <2>3 DEF lines, first
(* No line that has left is parsed anew: among those lines and blank ones  *)
(* before them, the blank ones have no entries.                            *)
<1> DEFINE padded == [k \in Nat |-> IF k < first_line THEN <<>>
                                    ELSE raw[k - first_line + 1]]
<1>p. Reading(fed, es, padded, 1, m)
    <2>1. 1 \in Nat /\ 1 >= 1 /\ 1 <= first_line
        BY <1>3
    <2>2. BlankBefore(padded, 1, first_line)
        BY <1>3 DEF BlankBefore, KindOf
    <2>3. Follow(raw, padded, 1, first_line - 1)
        <3>1. SUFFICES ASSUME NEW i \in 1..Len(raw)
                       PROVE  /\ IsOf(raw[i], (first_line - 1) + i)
                              /\ raw[i] = padded[((first_line - 1) + i) - 1 + 1]
            BY DEF Follow
        <3>2. IsOf(raw[i], (first_line - 1) + i)
            BY <1>3 DEF Follow
        <3> DEFINE k == ((first_line - 1) + i) - 1 + 1
        <3>3. k \in Nat /\ ~(k < first_line) /\ k - first_line + 1 = i
            BY <1>3
        <3> HIDE DEF k
        <3>4. padded[k] = raw[i]
            BY <3>3
        <3>5. QED
            BY <3>2, <3>4 DEF k
    <2> HIDE DEF padded, m
    <2>4. Reading(fed, <<>>, padded, 1, m)
        BY <1>3, <2>1, <2>2, <2>3, ReparsedKeeps DEF m
    <2>5. QED
        BY <2>4
<1>b. \A k \in 1..(first_line - 1) : KindOf(padded[k - 1 + 1]) = "blank"
    BY <1>3 DEF KindOf
<1> HIDE DEF m, fed, es, padded
<1>r. ASSUME NEW lines, NEW first \in Nat, first >= 1, first <= m + 1,
             Reading(fed, es, lines, first, m)
      PROVE  /\ Reading(p, es, lines, first, m)
             /\ p.pending = pending
    <2>1. CASE finished
        <3>1. fed.pending = <<>>
            BY <1>2, <1>5, <2>1 DEF Retains
        <3>2. /\ first \in Nat /\ first >= 1 /\ first <= m + 1
              /\ Reading(fed, es, lines, first, m)
              /\ fed.pending # <<>> => /\ IsOf(fed.pending, m + 1)
                                       /\ fed.pending = lines[(m + 1) - first + 1]
              /\ m = IF fed.pending = <<>> THEN m ELSE m + 1
            BY <1>3, <1>r, <3>1
        <3>3. /\ Reading(Flush(fed), es, lines, first, m)
              /\ Flush(fed).pending = <<>>
            BY <1>3, <1>4, <3>2, FlushKeeps
        <3>4. pending = <<>>
            BY <1>5, <3>1
        <3>5. QED
            BY <2>1, <3>3, <3>4
    <2>2. CASE ~finished /\ detection_forced
        <3>1. /\ Reading(ForceDetected(fed), es, lines, first, m)
              /\ ForceDetected(fed).pending = fed.pending
            BY <1>3, <1>r, ForceKeeps
        <3>2. QED
            BY <1>5, <2>2, <3>1
    <2>3. CASE ~finished /\ ~detection_forced
        BY <1>5, <1>r, <2>3
    <2>4. QED
        BY <2>1, <2>2, <2>3
<1> HIDE DEF p
<1>6. /\ Reading(p, es, raw, first_line, m)
      /\ p.pending = pending
    <2> DEFINE lines == raw
               first == first_line
    <2>1. /\ first \in Nat /\ first >= 1 /\ first <= m + 1
          /\ Reading(fed, es, lines, first, m)
        BY <1>3, <1>5
    <2> HIDE DEF lines, first
    <2>2. Reading(p, es, lines, first, m) /\ p.pending = pending
        BY <2>1, <1>r
    <2>3. QED
        BY <2>2 DEF lines, first
<1>a. Reading(p, es, padded, 1, m)
    <2> DEFINE one == 1
    <2>1. one \in Nat /\ one >= 1 /\ one <= m + 1 /\ Reading(fed, es, padded, one, m)
        BY <1>3, <1>p
    <2> HIDE DEF one
    <2>2. Reading(p, es, padded, one, m)
        BY <2>1, <1>r
    <2>3. QED
        BY <2>2 DEF one
<1>n. NoneBefore(p.out, first_line)
    <2> DEFINE out == p.out
    <2>1. es \o out = out /\ out \in Seq(Entry)
        <3>1. out \in Seq(Entry)
            BY <1>6 DEF Reading, ParserState
        <3>2. QED
            BY <3>1 DEF es
    <2>2. CASE p.format = None
        <3>1. out = <<>> /\ DOMAIN <<>> = {}
            BY <1>6, <2>2 DEF Reading, Held
        <3>2. QED
            BY <3>1 DEF NoneBefore
    <2>3. CASE p.format # None
        <3> DEFINE fmt == p.format
        <3>1. Done(out, fmt, p.chain, padded, 1, m)
            BY <1>a, <2>1, <2>3 DEF Reading
        <3> HIDE DEF out, fmt
        <3>2. SUFFICES ASSUME NEW i \in DOMAIN out, ~(out[i].line >= first_line)
                       PROVE  FALSE
            BY DEF NoneBefore, out
        <3>3. out[i].line \in Nat /\ out[i].line >= 1 /\ out[i].line <= m
            BY <2>1, <3>1, EntryFields DEF Done, AllGenuine, Genuine
        <3> DEFINE k == out[i].line
        <3>4. k \in 1..m /\ k \in 1..(first_line - 1)
            BY <1>3, <3>2, <3>3
        <3>5. Visible(fmt, KindOf(padded[k - 1 + 1]))
            <4>1. \E j \in DOMAIN out : out[j].line = k
                OBVIOUS
            <4> HIDE DEF k
            <4>2. QED
                BY <3>1, <3>4, <4>1 DEF Done, Complete
        <3> HIDE DEF k
        <3>6. QED
            BY <1>b, <3>4, <3>5 DEF Visible
    <2>4. QED
        BY <2>2, <2>3
<1>7. /\ p.out \in Seq(Entry)
      /\ Reading(q, p.out, raw, first_line, m)
      /\ q.out = <<>> /\ q.pending = p.pending
    <2>1. /\ es \o p.out \in Seq(Entry)
          /\ Reading(q, es \o p.out, raw, first_line, m)
          /\ q.out = <<>> /\ q.pending = p.pending
        BY <1>4, <1>6, OutJoins
    <2>2. p.out \in Seq(Entry)
        BY <1>6 DEF Reading, ParserState
    <2>3. es \o p.out = p.out
        BY <2>2 DEF es
    <2>4. QED
        BY <2>1, <2>2, <2>3
<1> HIDE DEF q
<1>8. LastLine' = m
    BY <1>1 DEF LastLine, m
<1>9. Typed'
    <2>1. epoch + 1 \in Nat /\ revision + 1 \in Nat
        BY <1>2 DEF Typed
    <2>2. QED
        BY <1>1, <1>2, <1>7, <2>1 DEF Typed
<1>10. BytesCounted'
    BY <1>1, <1>2 DEF BytesCounted
<1>11. Retains'
    <2>1. PICK a, b : a = raw /\ b = first_line
        OBVIOUS
    <2>2. Follow(a, a, b, b - 1)'
        BY <1>1, <1>3, <2>1, OfStays DEF Follow
    <2>3. Follow(raw, raw, first_line, first_line - 1)'
        BY <1>1, <2>1, <2>2
    <2>4. PICK c, d : c = pending /\ d = m + 1
        OBVIOUS
    <2>5. IsOf(c, d)'
        BY <1>1, <1>2, <2>4, OfStays DEF Retains, m
    <2>6. IsOf(pending, LastLine + 1)'
        BY <1>1, <1>8, <2>4, <2>5
    <2>7. IF finished THEN pending = <<>> ELSE line = m + 1
        BY <1>2 DEF Retains, m
    <2>8. QED
        BY <1>1, <1>8, <2>3, <2>6, <2>7 DEF Retains
<1>12. Parsed'
    <2>1. Reading(parser, entries, raw, first_line, LastLine)'
        <3>1. PICK a, b, c, d, e : a = parser' /\ b = entries' /\ c = raw'
                                       /\ d = first_line' /\ e = LastLine'
            OBVIOUS
        <3>2. Reading(a, b, c, d, e)
            BY <1>1, <1>7, <1>8, <3>1
        <3>3. Reading(a, b, c, d, e)'
            BY <1>1, <3>2, ReadingStays
        <3>4. QED
            BY <3>1, <3>3
    <2>2. epoch' # 0
        BY <1>1, <1>2 DEF Typed
    <2>3. NoneBefore(entries, first_line)'
        BY <1>1, <1>n DEF NoneBefore
    <2>4. QED
        BY <1>1, <1>6, <1>7, <2>1, <2>2, <2>3 DEF Parsed
<1>13. QED
    BY <1>9, <1>10, <1>11, <1>12 DEF IInv

LEMMA StutterKeeps ==
    ASSUME IInv, UNCHANGED vars
    PROVE  IInv'
<1>1. /\ raw' = raw /\ raw_bytes' = raw_bytes /\ first_line' = first_line
      /\ evicted_lines' = evicted_lines /\ pending' = pending
      /\ parser' = parser /\ entries' = entries
      /\ finished' = finished /\ epoch' = epoch /\ revision' = revision
      /\ log' = log /\ line' = line
    BY DEF vars
<1>2. LastLine' = LastLine
    BY <1>1 DEF LastLine
<1>3. Typed'
    BY <1>1 DEF IInv, Typed
<1>4. BytesCounted'
    BY <1>1 DEF IInv, BytesCounted
<1>5. Retains'
    <2>1. PICK a, b : a = raw /\ b = first_line
        OBVIOUS
    <2>2. Follow(a, a, b, b - 1)'
        BY <1>1, <2>1, OfStays DEF Follow, IInv, Retains
    <2>3. Follow(raw, raw, first_line, first_line - 1)'
        BY <1>1, <2>1, <2>2
    <2>4. PICK c, d : c = pending /\ d = LastLine + 1
        OBVIOUS
    <2>5. IsOf(c, d)'
        BY <1>1, <2>4, OfStays DEF IInv, Retains
    <2>6. IsOf(pending, LastLine + 1)'
        BY <1>1, <1>2, <2>4, <2>5
    <2>7. IF finished THEN pending = <<>> ELSE line = LastLine + 1
        BY DEF IInv, Retains
    <2>8. QED
        BY <1>1, <1>2, <2>3, <2>6, <2>7 DEF Retains
<1>6. Parsed'
    <2>1. Reading(parser, entries, raw, first_line, LastLine)'
        <3>1. PICK a, b, c, d, e : a = parser /\ b = entries /\ c = raw
                                       /\ d = first_line /\ e = LastLine
            OBVIOUS
        <3>2. Reading(a, b, c, d, e)
            BY <3>1 DEF IInv, Parsed
        <3>3. Reading(a, b, c, d, e)'
            BY <1>1, <3>2, ReadingStays
        <3>4. QED
            BY <1>1, <1>2, <3>1, <3>3
    <2>2. NoneBefore(entries, first_line)'
        BY <1>1 DEF IInv, Parsed, NoneBefore
    <2>3. QED
        BY <1>1, <2>1, <2>2 DEF IInv, Parsed
<1>7. QED
    BY <1>3, <1>4, <1>5, <1>6 DEF IInv

(* The invariant of a session: what it holds is what the input held, and   *)
(* its parser and entries account for all of it.                           *)
THEOREM SessionInvariant == Spec => []IInv
<1>1. Init => IInv
    BY InitKeeps
<1>2. IInv /\ [Next]_vars => IInv'
    <2>1. SUFFICES ASSUME IInv, [Next]_vars PROVE IInv'
        OBVIOUS
    <2>2. CASE \E n \in 1..MaxChunk : \E ends \in SUBSET (1..n) : Ingest(n, ends)
        BY <2>1, <2>2, IngestKeeps
    <2>3. CASE Finish
        BY <2>1, <2>3, FinishKeeps
    <2>4. CASE ForceDetection
        BY <2>1, <2>4, ForceDetectionKeeps
    <2>5. CASE \E format \in Format \union {None} : SetFormat(format)
        BY <2>1, <2>5, SetFormatKeeps
    <2>6. CASE UNCHANGED vars
        BY <2>1, <2>6, StutterKeeps
    <2>7. QED
        BY <2>1, <2>2, <2>3, <2>4, <2>5, <2>6 DEF Next
<1>3. QED
    BY <1>1, <1>2, PTL DEF Spec

-----------------------------------------------------------------------------
(* What follows from the invariant.                                        *)

(* Under a format the entries are those of the lines read; before, there   *)
(* are none.                                                               *)
LEMMA EntriesSoFar ==
    ASSUME IInv
    PROVE  /\ parser \in ParserState /\ parser.line_no = LastLine
           /\ entries \in Seq(Entry)
           /\ NoneBefore(entries, first_line)
           /\ parser.format = None =>
                  /\ entries = <<>>
                  /\ Complete(parser.sample, None, raw, first_line, LastLine)
           /\ parser.format # None =>
                  /\ parser.sample = <<>>
                  /\ Done(entries, parser.format, parser.chain, raw, first_line,
                          LastLine)
<1>1. /\ parser \in ParserState
      /\ Reading(parser, entries, raw, first_line, LastLine)
      /\ entries \in Seq(Entry)
      /\ NoneBefore(entries, first_line)
    BY Known
<1>2. entries \o parser.out = entries
    BY <1>1 DEF IInv, Parsed
<1>3. QED
    BY <1>1, <1>2 DEF Reading, Held

(* Entries are in input order, and each is of a retained line.             *)
LEMMA EntriesRetained ==
    ASSUME IInv
    PROVE  /\ Ascending(entries)
           /\ \A i \in DOMAIN entries :
                  /\ entries[i].line \in first_line..LastLine
                  /\ entries[i].text = raw[entries[i].line - first_line + 1]
<1>1. /\ first_line \in Nat /\ LastLine \in Nat
      /\ entries \in Seq(Entry) /\ NoneBefore(entries, first_line)
    BY Known
<1>2. CASE parser.format = None
    <2>1. entries = <<>> /\ DOMAIN <<>> = {}
        BY <1>2, EntriesSoFar
    <2>2. QED
        BY <2>1 DEF Ascending
<1>3. CASE parser.format # None
    <2>1. Ascending(entries) /\ AllGenuine(entries, raw, first_line, LastLine)
        BY <1>3, EntriesSoFar DEF Done
    <2>2. ASSUME NEW i \in DOMAIN entries
          PROVE  /\ entries[i].line \in first_line..LastLine
                 /\ entries[i].text = raw[entries[i].line - first_line + 1]
        <3>1. entries[i].line \in Nat
            BY <1>1, EntryFields
        <3>2. entries[i].line >= first_line
            BY <1>1 DEF NoneBefore
        <3>3. Genuine(entries[i], raw, first_line) /\ entries[i].line <= LastLine
            BY <2>1 DEF AllGenuine
        <3>4. QED
            BY <1>1, <3>1, <3>2, <3>3 DEF Genuine
    <2>3. QED
        BY <2>1, <2>2
<1>4. QED
    BY <1>2, <1>3

LEMMA LinesAreOwn == IInv => OwnLine
<1> SUFFICES ASSUME IInv PROVE OwnLine
    OBVIOUS
<1>1. /\ raw \in Seq(Seq(Byte)) /\ first_line \in Nat
      /\ Follow(raw, raw, first_line, first_line - 1)
      /\ IsOf(pending, LastLine + 1)
      /\ parser.pending = pending
    BY Known
<1>2. ASSUME NEW i \in DOMAIN raw PROVE IsOf(raw[i], first_line + i - 1)
    <2>1. i \in 1..Len(raw) /\ i \in Nat
        BY <1>1
    <2>4. (first_line - 1) + i = first_line + i - 1
        BY <1>1, <2>1
    <2>2. IsOf(raw[i], (first_line - 1) + i)
        BY <1>1, <2>1 DEF Follow
    <2>3. QED
        BY <2>2, <2>4
<1>3. parser.line_no = LastLine
    BY EntriesSoFar
<1>4. QED
    BY <1>1, <1>2, <1>3, EntriesRetained DEF OwnLine

LEMMA NoLineIsLost == IInv => NoLineLost
<1> SUFFICES ASSUME IInv PROVE NoLineLost
    OBVIOUS
<1> DEFINE shown == {entries[i].line : i \in DOMAIN entries}
           held == {parser.sample[i].line : i \in DOMAIN parser.sample}
           kind(n) == KindOf(raw[n - first_line + 1])
<1>1. \A i, j \in DOMAIN entries : i < j => entries[i].line < entries[j].line
    BY EntriesRetained DEF Ascending
<1>2. CASE parser.format = None
    <2>1. entries = <<>> /\ DOMAIN <<>> = {}
        BY <1>2, EntriesSoFar
    <2>2. shown = {}
        BY <2>1
    <2>3. ASSUME NEW n \in Shown PROVE n \in held
        <3>1. n \in first_line..LastLine /\ kind(n) # "blank"
            BY DEF Shown
        <3>2. Visible(None, kind(n))
            <4>1. None # "json"
                BY NoneFacts DEF Format
            <4>2. QED
                BY <3>1, <4>1 DEF Visible
        <3>3. Complete(parser.sample, None, raw, first_line, LastLine)
            BY <1>2, EntriesSoFar
        <3>4. \E i \in DOMAIN parser.sample : parser.sample[i].line = n
            BY <3>1, <3>2, <3>3 DEF Complete
        <3>5. QED
            BY <3>4
    <2>4. shown = {} /\ Shown \subseteq held
        BY <2>2, <2>3
    <2>5. QED
        BY <1>1, <1>2, <2>4 DEF NoLineLost
<1>3. CASE parser.format # None
    <2>1. /\ parser.sample = <<>>
          /\ Complete(entries, parser.format, raw, first_line, LastLine)
        BY <1>3, EntriesSoFar DEF Done
    <2>2. held = {}
        <3>1. DOMAIN <<>> = {}
            OBVIOUS
        <3>2. QED
            BY <2>1, <3>1
    <2>3. ASSUME NEW n PROVE n \in shown <=> n \in Shown
        <3>1. n \in shown => n \in first_line..LastLine
            BY EntriesRetained
        <3>2. n \in Shown <=> n \in first_line..LastLine /\ Visible(parser.format, kind(n))
            BY DEF Shown, Visible
        <3>3. n \in shown <=> \E i \in DOMAIN entries : entries[i].line = n
            OBVIOUS
        <3>4. n \in first_line..LastLine =>
                  ((\E i \in DOMAIN entries : entries[i].line = n)
                       <=> Visible(parser.format, kind(n)))
            BY <2>1 DEF Complete
        <3> HIDE DEF shown, kind
        <3>5. QED
            BY <3>1, <3>2, <3>3, <3>4
    <2>4. shown = Shown /\ held = {}
        BY <2>2, <2>3
    <2>5. QED
        BY <1>1, <1>3, <2>4 DEF NoLineLost
<1>4. QED
    BY <1>2, <1>3

LEMMA EventIsOne == IInv => OneEvent
<1> SUFFICES ASSUME IInv PROVE OneEvent
    OBVIOUS
<1> DEFINE before(e) == {entries[j] : j \in {k \in DOMAIN entries :
                                               entries[k].line = e.line - 1}}
           own(e) == {o \in before(e) :
                        /\ parser.format = "plain"
                        /\ Event(o) # None
                        /\ e.line - Event(o) <= MaxChainLines
                        /\ \/ KindOf(e.text) = "frame"
                           \/ /\ KindOf(e.text) = "logcat"
                              /\ log[Event(o)] = "logcat"}
<1>1. ASSUME NEW i \in DOMAIN entries, entries[i].line > first_line
      PROVE  entries[i].root = IF own(entries[i]) = {} THEN None
                               ELSE Event(CHOOSE o \in own(entries[i]) : TRUE)
    <2> DEFINE e == entries[i]
    <2>1. parser.format # None
        <3>1. DOMAIN <<>> = {}
            OBVIOUS
        <3>2. QED
            BY <3>1, EntriesSoFar
    <2>2. entries \in Seq(Entry) /\ first_line \in Nat
        BY Known
    <2>3. /\ Ascending(entries)
          /\ Rooted(entries, i, parser.format, first_line)
        BY <2>1, EntriesSoFar DEF Done, AllRooted
    <2>4. \A k \in DOMAIN entries : k \in Nat /\ k >= 1 /\ entries[k].line \in Nat
        BY <2>2, EntryFields
    <2>5. own(e) = {o \in before(e) : Together(parser.format, o, e)}
        BY DEF Together
    <2>6. CASE i > 1 /\ entries[i - 1].line = entries[i].line - 1
        <3> DEFINE o == entries[i - 1]
        <3>1. i - 1 \in DOMAIN entries
            BY <2>2, <2>6
        <3>2. \A k \in DOMAIN entries : entries[k].line = e.line - 1 => k = i - 1
            <4>1. SUFFICES ASSUME NEW k \in DOMAIN entries,
                                  entries[k].line = entries[i - 1].line
                           PROVE  k = i - 1
                BY <2>6
            <4>2. ~(k < i - 1) /\ ~(i - 1 < k)
                BY <2>3, <2>4, <3>1, <4>1 DEF Ascending
            <4>3. QED
                BY <2>4, <3>1, <4>2
        <3>3. before(e) = {o}
            BY <2>6, <3>1, <3>2
        <3>4. e.root = IF Together(parser.format, o, e) THEN Event(o) ELSE None
            BY <2>3, <2>6 DEF Rooted
        <3> HIDE DEF before, own, e, o
        <3>5. own(e) = IF Together(parser.format, o, e) THEN {o} ELSE {}
            BY <2>5, <3>3
        <3>6. CASE Together(parser.format, o, e)
            <4>1. own(e) = {o} /\ (CHOOSE x \in {o} : TRUE) = o
                BY <3>5, <3>6
            <4>2. QED
                BY <3>4, <3>6, <4>1 DEF e
        <3>7. CASE ~Together(parser.format, o, e)
            BY <3>4, <3>5, <3>7 DEF e
        <3>8. QED
            BY <3>6, <3>7
    <2>7. CASE ~(i > 1 /\ entries[i - 1].line = entries[i].line - 1)
        <3>1. \A k \in DOMAIN entries : entries[k].line # e.line - 1
            <4>1. SUFFICES ASSUME NEW k \in DOMAIN entries,
                                  entries[k].line = entries[i].line - 1
                           PROVE  FALSE
                OBVIOUS
            <4>2. ~(i < k) /\ i # k
                BY <2>3, <2>4, <4>1 DEF Ascending
            <4>3. k < i /\ i > 1 /\ k # i - 1
                BY <2>4, <2>7, <4>1, <4>2
            <4>4. i - 1 \in DOMAIN entries /\ k < i - 1 /\ i - 1 < i
                BY <2>2, <2>4, <4>3
            <4>5. /\ entries[k].line < entries[i - 1].line
                  /\ entries[i - 1].line < entries[i].line
                BY <2>3, <4>4 DEF Ascending
            <4>6. QED
                BY <2>4, <4>1, <4>4, <4>5
        <3>2. own(e) = {}
            BY <3>1
        <3>3. e.root = None
            BY <1>1, <2>2, <2>3, <2>4, <2>7 DEF Rooted
        <3> HIDE DEF own, e
        <3>4. QED
            BY <3>2, <3>3 DEF e
    <2>8. QED
        BY <2>6, <2>7
<1>2. QED
    BY <1>1 DEF OneEvent

LEMMA LinesAddUp == IInv => LinesAccounted
<1> SUFFICES ASSUME IInv, epoch = 0
             PROVE  parser.line_no = parser.entries_emitted + parser.blank_lines
                        + parser.diagnostics["malformed"] + Len(parser.sample)
    BY DEF LinesAccounted
<1> DEFINE a == parser.line_no
           b == parser.entries_emitted
           c == parser.blank_lines
           d == parser.diagnostics["malformed"]
           e == Len(parser.sample)
<1>1. a - (b + c + d + e) = 0
    BY DEF IInv, Parsed, Balance
<1>2. a \in Nat /\ b \in Nat /\ c \in Nat /\ d \in Nat /\ e \in Nat
    BY Known, SMTT(30) DEF ParserState, Reason
<1> HIDE DEF a, b, c, d, e
<1>3. a = b + c + d + e
    BY <1>1, <1>2
<1>4. QED
    BY <1>3 DEF a, b, c, d, e

(* Every retained line and every entry keeps the number it had in the      *)
(* input, and an entry has the text of its own line, wherever chunks cut,  *)
(* whatever was evicted, held for detection or parsed anew.                *)
THEOREM OwnLineAlways == Spec => []OwnLine
BY SessionInvariant, LinesAreOwn, PTL

(* What the memory budget is told of a session is what its lines take.     *)
THEOREM BytesAreCounted == Spec => []BytesCounted
<1>1. IInv => BytesCounted
    BY DEF IInv
<1>2. QED
    BY <1>1, SessionInvariant, PTL

(* A line that has been read has its one entry, in input order, or there   *)
(* is a reason why it has none.                                            *)
THEOREM NoLineIsEverLost == Spec => []NoLineLost
BY SessionInvariant, NoLineIsLost, PTL

(* Which lines are one event depends on the lines alone, for any cap.      *)
THEOREM EventsAreWhole == Spec => []OneEvent
BY SessionInvariant, EventIsOne, PTL

(* The parser's counts account for each line it has read.                  *)
THEOREM EachLineAccounted == Spec => []LinesAccounted
BY SessionInvariant, LinesAddUp, PTL

-----------------------------------------------------------------------------
(* What the views over a session see of its entries.                       *)

LEMMA ViewedType ==
    ASSUME NEW all \in Seq(Entry)
    PROVE  LET v == Viewed(all)
           IN  /\ v \in Seq([ordinal : Nat, root : Nat \union {None}, data : Seq(Byte)])
               /\ Len(v) = Len(all)
               /\ DOMAIN v = 1..Len(all)
               /\ \A i \in 1..Len(all) :
                      /\ v[i] = [ordinal |-> all[i].line, root |-> all[i].root,
                                 data |-> all[i].text]
                      /\ v[i].ordinal = all[i].line
                      /\ v[i].root = all[i].root
<1> DEFINE Record == [ordinal : Nat, root : Nat \union {None}, data : Seq(Byte)]
           v == Viewed(all)
<1>1. DOMAIN all = 1..Len(all) /\ Len(all) \in Nat
    OBVIOUS
<1>2. \A i \in 1..Len(all) :
          [ordinal |-> all[i].line, root |-> all[i].root, data |-> all[i].text]
              \in Record
    BY <1>1, EntryFields
<1>3. /\ DOMAIN v = 1..Len(all)
      /\ \A i \in 1..Len(all) :
             v[i] = [ordinal |-> all[i].line, root |-> all[i].root,
                     data |-> all[i].text]
    BY <1>1 DEF Viewed
<1>4. v \in [1..Len(all) -> Record]
    <2>1. v = [i \in DOMAIN all |-> [ordinal |-> all[i].line, root |-> all[i].root,
                                      data |-> all[i].text]]
        BY DEF Viewed
    <2> HIDE DEF Record, v
    <2>2. QED
        BY <1>1, <1>2, <2>1
<1> HIDE DEF Record, v
<1>5. v \in Seq(Record) /\ Len(v) = Len(all)
    BY <1>1, <1>4
<1>6. QED
    BY <1>3, <1>5 DEF v, Record

LEMMA EntriesInOrder == IInv => Promise!InputOrder(Viewed(entries))
<1> SUFFICES ASSUME IInv PROVE Promise!InputOrder(Viewed(entries))
    OBVIOUS
<1> DEFINE v == Viewed(entries)
           n == Len(entries)
<1>1. entries \in Seq(Entry) /\ n \in Nat /\ DOMAIN entries = 1..n
    BY Known
<1>2. /\ Len(v) = n /\ DOMAIN v = 1..n
      /\ \A i \in 1..n : v[i].ordinal = entries[i].line /\ v[i].root = entries[i].root
    BY <1>1, ViewedType
<1>3. Ascending(entries)
    BY EntriesRetained
<1> HIDE DEF v, n
<1>4. \A i \in 2..n : v[i - 1].ordinal < v[i].ordinal
    <2>1. \A i \in 2..n : i - 1 \in 1..n /\ i \in 1..n /\ i - 1 < i
        BY <1>1
    <2>2. QED
        BY <1>1, <1>2, <1>3, <2>1 DEF Ascending
<1>5. ASSUME NEW i \in 1..n, v[i].root # None
      PROVE  /\ v[i].root < v[i].ordinal
             /\ i > 1 =>
                    /\ v[i - 1].ordinal = v[i].ordinal - 1
                    /\ \/ v[i - 1].root = v[i].root
                       \/ /\ v[i - 1].ordinal = v[i].root
                          /\ v[i - 1].root = None
    <2>1. parser.format # None
        <3>1. DOMAIN <<>> = {}
            OBVIOUS
        <3>2. QED
            BY <1>1, <3>1, EntriesSoFar
    <2>2. Rooted(entries, i, parser.format, first_line)
        BY <1>1, <2>1, EntriesSoFar DEF Done, AllRooted
    <2>3. v[i].root = entries[i].root /\ v[i].ordinal = entries[i].line
        BY <1>2
    <2>4. v[i].root < v[i].ordinal
        BY <1>5, <2>2, <2>3 DEF Rooted
    <2>5. CASE i > 1
        <3> DEFINE o == entries[i - 1]
                   e == entries[i]
        <3>1. i - 1 \in 1..n /\ i # 1
            BY <1>1, <2>5
        <3>2. v[i - 1].root = o.root /\ v[i - 1].ordinal = o.line
            BY <1>2, <3>1
        <3>3. /\ o.line = e.line - 1
              /\ e.root = Event(o)
            BY <1>5, <2>2, <2>3, <2>5, <3>1 DEF Rooted
        <3>4. Event(o) = o.root \/ (Event(o) = o.line /\ o.root = None)
            BY <1>5, <2>3, <3>3 DEF Event
        <3> HIDE DEF o, e
        <3>5. e.root = v[i].root /\ e.line = v[i].ordinal
            BY <2>3 DEF e
        <3>6. QED
            BY <2>4, <3>2, <3>3, <3>4, <3>5
    <2>6. QED
        BY <2>4, <2>5
<1>6. Promise!InputOrder(v)
    BY <1>2, <1>4, <1>5 DEF Promise!InputOrder
<1>7. QED
    BY <1>6 DEF v

(* Entries that join and leave are a step of the feed.                     *)
LEMMA GrowthIsAStep ==
    ASSUME IInv, IInv', Grows, epoch' = epoch
    PROVE  Promise!Advance \/ UNCHANGED Promise!vars
<1>1. CASE entries' = entries /\ revision' = revision
    BY <1>1 DEF Promise!vars
<1>2. CASE /\ revision' = revision + 1
           /\ \E n \in 0..Len(entries) : LeavesAndJoins(entries, entries', n)
    <2>1. PICK es, fs : es = entries /\ fs = entries'
        OBVIOUS
    <2> DEFINE v == Viewed(es)
               w == Viewed(fs)
    <2>2. es \in Seq(Entry) /\ fs \in Seq(Entry)
        BY <2>1 DEF IInv, Typed
    <2>3. PICK n \in 0..Len(es) : LeavesAndJoins(es, fs, n)
        BY <1>2, <2>1
    <2>4. /\ v \in Seq([ordinal : Nat, root : Nat \union {None}, data : Seq(Byte)])
          /\ Len(v) = Len(es) /\ DOMAIN v = 1..Len(es)
          /\ \A i \in 1..Len(es) :
                 /\ v[i] = [ordinal |-> es[i].line, root |-> es[i].root,
                            data |-> es[i].text]
                 /\ v[i].ordinal = es[i].line
        BY <2>2, ViewedType
    <2>5. /\ w \in Seq([ordinal : Nat, root : Nat \union {None}, data : Seq(Byte)])
          /\ Len(w) = Len(fs) /\ DOMAIN w = 1..Len(fs)
          /\ \A i \in 1..Len(fs) :
                 /\ w[i] = [ordinal |-> fs[i].line, root |-> fs[i].root,
                            data |-> fs[i].text]
                 /\ w[i].ordinal = fs[i].line
        BY <2>2, ViewedType
    <2>6. /\ Len(es) \in Nat /\ DOMAIN es = 1..Len(es)
          /\ Len(fs) \in Nat /\ DOMAIN fs = 1..Len(fs)
        BY <2>2
    <2> HIDE DEF v, w
    <2> DEFINE Record == [ordinal : Nat, root : Nat \union {None}, data : Seq(Byte)]
               kept == SubSeq(v, n + 1, Len(v))
    <2>7. /\ Len(kept) = Len(es) - n
          /\ \A i \in 1..(Len(es) - n) : kept[i] = v[n + i]
          /\ kept \in Seq(Record)
        <3>1. v \in Seq(Record)
            BY <2>4
        <3> HIDE DEF Record
        <3>2. n \in Nat /\ n <= Len(v) /\ Len(v) \in Nat
            BY <2>3, <2>4, <2>6
        <3>3. \A i \in (n + 1)..Len(v) : v[i] \in Record
            BY <3>1, <3>2
        <3>4. kept \in Seq(Record)
            BY <3>1, <3>2, <3>3
        <3>5. /\ Len(kept) = Len(v) - n
              /\ \A i \in 1..(Len(v) - n) : kept[i] = v[n + i]
            BY <3>1, <3>2
        <3> HIDE DEF kept
        <3>6. QED
            BY <2>4, <3>4, <3>5
    <2> HIDE DEF kept
    <2>8. \A i \in 1..(Len(es) - n) : kept[i] = w[i]
        <3>1. SUFFICES ASSUME NEW i \in 1..(Len(es) - n) PROVE kept[i] = w[i]
            OBVIOUS
        <3>2. n + i \in 1..Len(es) /\ i \in 1..Len(fs)
            BY <2>3, <2>6 DEF LeavesAndJoins
        <3>3. fs[i] = es[n + i]
            BY <2>3 DEF LeavesAndJoins
        <3>4. QED
            BY <2>4, <2>5, <2>7, <3>2, <3>3
    <2>9. Promise!IsPrefix(kept, w)
        <3> DEFINE k == Len(es) - n
        <3>1. k \in Nat /\ k <= Len(w)
            BY <2>3, <2>5, <2>6 DEF LeavesAndJoins
        <3>2. SubSeq(kept, 1, k) = SubSeq(w, 1, k)
            <4>1. Len(kept) = k /\ \A i \in 1..k : kept[i] = w[i]
                BY <2>7, <2>8
            <4>2. kept \in Seq(Record) /\ w \in Seq(Record) /\ k <= Len(kept)
                BY <2>5, <2>7, <3>1, <4>1
            <4> HIDE DEF k, Record
            <4> DEFINE a == SubSeq(kept, 1, k)
                       b == SubSeq(w, 1, k)
            <4>3. /\ a \in Seq(Record) /\ b \in Seq(Record)
                  /\ Len(a) = k /\ Len(b) = k
                  /\ \A i \in 1..k : a[i] = kept[i] /\ b[i] = w[i]
                BY <3>1, <4>2
            <4> HIDE DEF a, b
            <4>4. a = b
                BY <3>1, <4>1, <4>3
            <4>5. QED
                BY <4>4 DEF a, b
        <3>3. QED
            BY <2>7, <3>1, <3>2 DEF Promise!IsPrefix
    <2>10. \A i \in DOMAIN v, j \in DOMAIN w :
               j > Len(kept) => v[i].ordinal < w[j].ordinal
        BY <2>3, <2>4, <2>5, <2>6, <2>7 DEF LeavesAndJoins
    <2>11. Promise!InputOrder(w)
        <3>1. Promise!InputOrder(Viewed(entries))'
            BY EntriesInOrder, PTL
        <3>2. Promise!InputOrder(Viewed(entries'))
            BY <3>1
        <3>3. QED
            BY <2>1, <3>2 DEF w
    <2>12. n \in 0..Len(v)
        BY <2>3, <2>4
    <2>13. v = Viewed(entries) /\ w = Viewed(entries')
        BY <2>1 DEF v, w
    <2>14. Promise!Advance
        <3>1. LET front == SubSeq(v, n + 1, Len(v))
              IN  /\ Promise!IsPrefix(front, w)
                  /\ \A i \in DOMAIN v, j \in DOMAIN w :
                         j > Len(front) => v[i].ordinal < w[j].ordinal
            BY <2>9, <2>10 DEF kept
        <3>2. QED
            BY <1>2, <2>11, <2>12, <2>13, <3>1 DEF Promise!Advance
    <2>15. QED
        BY <2>14
<1>3. QED
    BY <1>1, <1>2 DEF Grows

(* A session is the feed that the views over it rely on, wherever chunks,  *)
(* the detection hold, eviction and re-parses fall.                        *)
THEOREM SessionFeedsViews == Spec => FeedsViews
<1>1. Init => Promise!Init
    <2>1. DOMAIN <<>> = {}
        OBVIOUS
    <2>2. QED
        BY <2>1 DEF Init, Promise!Init, Viewed
<1>2. IInv /\ IInv' /\ [Next]_vars => [Promise!Next]_(Promise!vars)
    <2>1. SUFFICES ASSUME IInv, IInv', [Next]_vars
                   PROVE  Promise!Next \/ UNCHANGED Promise!vars
        OBVIOUS
    <2>2. CASE \E n \in 1..MaxChunk : \E ends \in SUBSET (1..n) : Ingest(n, ends)
        BY <2>1, <2>2, IngestKeeps, GrowthIsAStep DEF Promise!Next
    <2>3. CASE Finish
        BY <2>1, <2>3, FinishKeeps, GrowthIsAStep DEF Promise!Next
    <2>4. CASE ForceDetection
        BY <2>1, <2>4, ForceDetectionKeeps, GrowthIsAStep DEF Promise!Next
    <2>5. CASE \E format \in Format \union {None} : SetFormat(format)
        <3>1. revision' = revision + 1 /\ epoch' = epoch + 1
            BY <2>5 DEF SetFormat, Replace
        <3>2. Promise!InputOrder(Viewed(entries))'
            BY <2>1, EntriesInOrder, PTL
        <3>3. Promise!Restart
            BY <3>1, <3>2 DEF Promise!Restart
        <3>4. QED
            BY <3>3 DEF Promise!Next
    <2>6. CASE UNCHANGED vars
        BY <2>6 DEF vars, Promise!vars
    <2>7. QED
        BY <2>1, <2>2, <2>3, <2>4, <2>5, <2>6 DEF Next
<1>3. QED
    BY <1>1, <1>2, SessionInvariant, PTL DEF Spec, FeedsViews, Promise!Spec

=============================================================================
