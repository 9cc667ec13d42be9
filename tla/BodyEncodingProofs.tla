------------------------- MODULE BodyEncodingProofs -------------------------
(***************************************************************************)
(* Proofs that the lines of quoted-printable fit and that a part declared  *)
(* 7bit stays so, for any text and width.                                  *)
(***************************************************************************)
EXTENDS BodyEncoding, SequenceTheorems, TLAPS

\* line_len is the length of the line being written.
ColumnKnown ==
  /\ line_len \in 0..MAX_LINE /\ line_len <= Len(out)
  /\ line_len < Len(out) => out[Len(out) - line_len] = LF

Inv ==
  /\ input \in Input /\ content \in Seq(Byte) /\ i \in Nat \ {0}
  /\ out \in Seq(Byte)
  /\ ColumnKnown /\ LinesFit

LEMMA InitInv == Init => Inv
<1> SUFFICES ASSUME Init PROVE Inv
  OBVIOUS
<1>1. content \in Seq(Byte)
  BY InputAssumption DEF Init
<1> QED
  BY <1>1, WidthAssumption DEF Init, Inv, ColumnKnown, LinesFit

\* A line break or the message's line ending ends in LF and is short.
LEMMA EndingType ==
  ASSUME input \in Input
  PROVE  /\ line_ending \in Seq(Byte) /\ Len(line_ending) \in {1, 2}
         /\ Len(line_ending) >= 1
         /\ line_ending[Len(line_ending)] = LF
<1>1. line_ending \in {<<LF>>, <<CR, LF>>}
  BY InputAssumption DEF line_ending
<1>2. CASE line_ending = <<LF>>
  BY <1>2 DEF LF, Byte
<1>3. CASE line_ending = <<CR, LF>>
  BY <1>3 DEF LF, CR, Byte
<1> QED
  BY <1>1, <1>2, <1>3

\* Adding to a line within the columns keeps the lines fit.
LEMMA AddPiece ==
  ASSUME Inv, NEW piece \in Seq(Byte), line_len + Len(piece) <= MAX_LINE,
         out' = out \o piece, line_len' = line_len + Len(piece), input' = input
  PROVE  (out \in Seq(Byte) /\ ColumnKnown /\ LinesFit)'
<1> DEFINE n == Len(out)
           m == Len(out')
<1>1. n \in Nat /\ Len(piece) \in Nat /\ m = n + Len(piece) /\ out' \in Seq(Byte)
  BY DEF Inv
<1>2. /\ line_ending' = line_ending /\ Len(line_ending) \in {1, 2}
      /\ MAX_LINE \in Nat /\ Window \in Nat /\ Window' = Window
      /\ Window = MAX_LINE + Len(line_ending)
  BY EndingType, WidthAssumption DEF Inv, line_ending, Window
<1>3. \A k \in 1..n : out'[k] = out[k]
  BY <1>1 DEF Inv
<1>4. ColumnKnown'
  BY <1>1, <1>2, <1>3 DEF Inv, ColumnKnown
<1>5. ASSUME NEW a \in 1..m, a + Window <= m PROVE \E k \in a..a + Window : out'[k] = LF
  <2>1. CASE a + Window <= n
    <3>1. a \in 1..Len(out) /\ a + Window <= Len(out)
      BY <2>1, <1>1, <1>2, <1>5
    <3>2. PICK k \in a..a + Window : out[k] = LF
      BY <3>1 DEF Inv, LinesFit
    <3>3. k \in 1..n
      BY <3>1, <3>2, <1>1, <1>2
    <3> QED
      BY <3>2, <3>3, <1>3
  <2>2. CASE a + Window > n
    <3> DEFINE last == n - line_len
    <3>1. last \in a..a + Window /\ last \in 1..n /\ line_len < n
      BY <2>2, <1>1, <1>2, <1>5 DEF Inv, ColumnKnown
    <3>2. out[last] = LF
      BY <3>1 DEF Inv, ColumnKnown
    <3> QED
      BY <3>1, <3>2, <1>3
  <2> QED
    BY <2>1, <2>2, <1>1, <1>2, <1>5
<1> QED
  BY <1>1, <1>2, <1>4, <1>5 DEF LinesFit

\* Where the parts of a concatenation are found in it.
LEMMA Pieces ==
  ASSUME NEW S, NEW s \in Seq(S), NEW t \in Seq(S), NEW r, r = s \o t
  PROVE  /\ r \in Seq(S) /\ Len(r) = Len(s) + Len(t)
         /\ \A k \in 1..Len(s) : r[k] = s[k]
         /\ Len(t) >= 1 => r[Len(r)] = t[Len(t)]
<1>1. Len(s) \in Nat /\ Len(t) \in Nat
  OBVIOUS
<1>2. r \in Seq(S) /\ Len(r) = Len(s) + Len(t)
  OBVIOUS
<1>3. \A k \in 1..Len(s) : r[k] = s[k]
  OBVIOUS
<1>4. ASSUME Len(t) >= 1 PROVE r[Len(r)] = t[Len(t)]
  BY <1>1, <1>2, <1>4
<1> QED
  BY <1>2, <1>3, <1>4

LEMMA Joined ==
  ASSUME NEW S, NEW s \in Seq(S), NEW t \in Seq(S), NEW u \in Seq(S), NEW p \in Seq(S),
         Len(u) >= 1, NEW r, r = ((s \o t) \o u) \o p
  PROVE  /\ r \in Seq(S) /\ Len(r) = Len(s) + Len(t) + Len(u) + Len(p)
         /\ \A k \in 1..Len(s) : r[k] = s[k]
         /\ r[Len(s) + Len(t) + Len(u)] = u[Len(u)]
<1>1. PICK st : st = s \o t
  OBVIOUS
<1>2. PICK stu : stu = st \o u
  OBVIOUS
<1>3. r = stu \o p
  BY <1>1, <1>2
<1>4. /\ st \in Seq(S) /\ Len(st) = Len(s) + Len(t)
      /\ \A k \in 1..Len(s) : st[k] = s[k]
  BY <1>1, Pieces
<1>5. /\ stu \in Seq(S) /\ Len(stu) = Len(st) + Len(u)
      /\ \A k \in 1..Len(st) : stu[k] = st[k]
      /\ stu[Len(stu)] = u[Len(u)]
  <2>1. st \in Seq(S)
    BY <1>4
  <2> QED
    BY <1>2, <2>1, Pieces
<1>6. /\ r \in Seq(S) /\ Len(r) = Len(stu) + Len(p)
      /\ \A k \in 1..Len(stu) : r[k] = stu[k]
  <2>1. stu \in Seq(S)
    BY <1>5
  <2> QED
    BY <1>3, <2>1, Pieces
<1>7. /\ Len(s) \in Nat /\ Len(t) \in Nat /\ Len(u) \in Nat /\ Len(p) \in Nat
  OBVIOUS
<1>8. /\ 1..Len(s) \subseteq 1..Len(st) /\ 1..Len(s) \subseteq 1..Len(stu)
      /\ Len(stu) \in 1..Len(stu)
  BY <1>4, <1>5, <1>7
<1>9. Len(s) + Len(t) + Len(u) = Len(stu)
  BY <1>4, <1>5
<1> QED
  BY <1>4, <1>5, <1>6, <1>7, <1>8, <1>9

\* So does a line break, after the "=" of a soft one or without, and a piece
\* on the new line.
LEMMA AddBreak ==
  ASSUME Inv, NEW mark \in Seq(Byte), Len(mark) <= 1,
         NEW piece \in Seq(Byte), Len(piece) <= MAX_LINE,
         out' = ((out \o mark) \o line_ending) \o piece, line_len' = Len(piece), input' = input
  PROVE  (out \in Seq(Byte) /\ ColumnKnown /\ LinesFit)'
<1> DEFINE n == Len(out)
           m == Len(out')
           q == n + Len(mark) + Len(line_ending)
<1>1. /\ line_ending' = line_ending /\ Len(line_ending) \in {1, 2}
      /\ Len(line_ending) >= 1
      /\ line_ending \in Seq(Byte) /\ line_ending[Len(line_ending)] = LF
      /\ MAX_LINE \in Nat /\ Window \in Nat /\ Window' = Window
      /\ Window = MAX_LINE + Len(line_ending)
  BY EndingType, WidthAssumption DEF Inv, line_ending, Window
<1>2. /\ n \in Nat /\ Len(mark) \in Nat /\ Len(piece) \in Nat /\ out' \in Seq(Byte)
      /\ m = q + Len(piece) /\ out'[q] = LF
      /\ \A k \in 1..n : out'[k] = out[k]
  <2>1. out \in Seq(Byte)
    BY DEF Inv
  <2>2. Len(line_ending) >= 1 /\ line_ending \in Seq(Byte)
    BY <1>1
  <2>3. /\ out' \in Seq(Byte) /\ m = n + Len(mark) + Len(line_ending) + Len(piece)
        /\ \A k \in 1..n : out'[k] = out[k]
        /\ out'[n + Len(mark) + Len(line_ending)] = line_ending[Len(line_ending)]
    BY <2>1, <2>2, Joined
  <2> QED
    BY <2>1, <2>3, <1>1
<1> m \in Nat /\ q \in Nat
  BY <1>1, <1>2
<1>3. ColumnKnown'
  BY <1>1, <1>2 DEF ColumnKnown
<1>4. ASSUME NEW a \in 1..m, a + Window <= m PROVE \E k \in a..a + Window : out'[k] = LF
  <2>1. CASE a + Window <= n
    <3>1. a \in 1..Len(out) /\ a + Window <= Len(out)
      BY <2>1, <1>1, <1>2, <1>4
    <3>2. PICK k \in a..a + Window : out[k] = LF
      BY <3>1 DEF Inv, LinesFit
    <3>3. k \in 1..n
      BY <3>1, <3>2, <1>1, <1>2
    <3> QED
      BY <3>2, <3>3, <1>2
  <2>2. CASE a + Window >= q
    <3>1. q \in a..a + Window
      BY <2>2, <1>1, <1>2, <1>4
    <3> QED
      BY <3>1, <1>2
  <2>3. CASE n < a + Window /\ a + Window < q
    <3> DEFINE last == n - line_len
    <3>1. last \in a..a + Window /\ last \in 1..n /\ line_len < n
      <4>1. line_len \in 0..MAX_LINE /\ n \in Nat
        BY <1>2 DEF Inv, ColumnKnown
      <4>2. line_len \in Nat /\ line_len <= MAX_LINE
        BY <1>1, <4>1
      <4>3. a \in Nat /\ a >= 1
        BY <1>4
      <4>4. q <= n + 1 + Len(line_ending) /\ Len(line_ending) \in Nat
        BY <1>1, <1>2
      <4>5. a + MAX_LINE <= n
        BY <2>3, <1>1, <4>1, <4>3, <4>4
      <4>6. n < a + Window /\ Window \in Nat /\ MAX_LINE \in Nat
        BY <2>3, <1>1
      <4> QED
        BY <4>1, <4>2, <4>3, <4>5, <4>6
    <3>2. out[last] = LF
      BY <3>1 DEF Inv, ColumnKnown
    <3> QED
      BY <3>1, <3>2, <1>2
  <2>4. a + Window <= n \/ a + Window >= q \/ (n < a + Window /\ a + Window < q)
    <3>1. m \in Nat /\ q \in Nat
      BY <1>1, <1>2
    <3>2. a \in Nat
      BY <1>4, <3>1
    <3>3. a + Window \in Nat
      BY <3>2, <1>1
    <3> QED
      BY <3>1, <3>3, <1>2
  <2> QED
    BY <2>1, <2>2, <2>3, <2>4
<1> QED
  BY <1>1, <1>2, <1>3, <1>4 DEF LinesFit

-----------------------------------------------------------------------------

LEMMA ContentBytes ==
  ASSUME Inv, Iteration
  PROVE  At(i) \in Byte
<1>1. content \in Seq(Byte) /\ i \in Nat \ {0} /\ i <= Len(content)
  BY DEF Inv, Iteration
<1>2. i \in 1..Len(content)
  BY <1>1
<1>3. content[i] \in Byte
  BY <1>1, <1>2
<1> QED
  BY <1>1, <1>3 DEF At

\* A piece of up to three bytes, on this line or the next.
LEMMA EmitStep ==
  ASSUME Inv, NEW piece \in Seq(Byte), Len(piece) <= 3, Emit(piece), input' = input
  PROVE  (out \in Seq(Byte) /\ ColumnKnown /\ LinesFit)'
<1>1. CASE line_len + Len(piece) <= MAX_LINE
  <2>1. ~(line_len + Len(piece) > MAX_LINE)
    BY <1>1, WidthAssumption DEF Inv, ColumnKnown
  <2>2. out' = out \o piece /\ line_len' = line_len + Len(piece)
    BY <2>1 DEF Emit
  <2> QED
    BY <1>1, <2>2, AddPiece
<1>2. CASE line_len + Len(piece) > MAX_LINE
  <2> DEFINE mark == <<Equals>>
  <2>1. out' = ((out \o mark) \o line_ending) \o piece /\ line_len' = Len(piece)
    BY <1>2 DEF Emit
  <2>2. mark \in Seq(Byte) /\ Len(mark) <= 1
    BY DEF Equals, Byte
  <2>3. Len(piece) <= MAX_LINE
    BY WidthAssumption
  <2> HIDE DEF mark
  <2> QED
    BY <2>1, <2>2, <2>3, AddBreak
<1> QED
  BY <1>1, <1>2, WidthAssumption DEF Inv, ColumnKnown

LEMMA NextInv == Inv /\ [Next]_vars => Inv'
<1> SUFFICES ASSUME Inv, [Next]_vars PROVE Inv'
  OBVIOUS
<1>1. CASE HardBreak
  <2>1. (out \in Seq(Byte) /\ ColumnKnown /\ LinesFit)'
    <3> DEFINE none == <<>>
    <3>1. out \in Seq(Byte) /\ line_ending \in Seq(Byte)
      BY EndingType DEF Inv
    <3>2. out' = ((out \o none) \o line_ending) \o none
      BY <3>1, <1>1 DEF HardBreak
    <3>3. line_len' = Len(none) /\ input' = input /\ none \in Seq(Byte)
      BY <1>1 DEF HardBreak, Iteration
    <3>4. Len(none) <= 1 /\ Len(none) <= MAX_LINE
      BY WidthAssumption
    <3> HIDE DEF none
    <3> QED
      BY <3>2, <3>3, <3>4, AddBreak
  <2> QED
    BY <1>1, <2>1 DEF HardBreak, Iteration, Inv
<1>3. CASE Escape
  <2> DEFINE piece == Escaped(At(i))
  <2>1. At(i) \in Byte
    BY <1>3, ContentBytes DEF Escape
  <2>2. piece \in Seq(Byte) /\ Len(piece) <= 3
    BY <2>1 DEF Escaped, HexDigit, Byte, Equals
  <2>3. Emit(piece) /\ input' = input
    BY <1>3 DEF Escape, Iteration
  <2> HIDE DEF piece
  <2>4. (out \in Seq(Byte) /\ ColumnKnown /\ LinesFit)'
    BY <2>2, <2>3, EmitStep
  <2> QED
    BY <1>3, <2>4 DEF Escape, Iteration, Inv
<1>4. CASE Literal
  <2> DEFINE piece == <<At(i)>>
  <2>1. At(i) \in Byte
    BY <1>4, ContentBytes DEF Literal
  <2>2. piece \in Seq(Byte) /\ Len(piece) <= 3
    BY <2>1
  <2>3. Emit(piece) /\ input' = input
    BY <1>4 DEF Literal, Iteration
  <2> HIDE DEF piece
  <2>4. (out \in Seq(Byte) /\ ColumnKnown /\ LinesFit)'
    BY <2>2, <2>3, EmitStep
  <2> QED
    BY <1>4, <2>4 DEF Literal, Iteration, Inv
<1>5. CASE Finish \/ UNCHANGED vars
  BY <1>5 DEF Finish, vars, Inv, ColumnKnown, LinesFit, Window, line_ending
<1> QED
  BY <1>1, <1>3, <1>4, <1>5 DEF Next

\* Whatever the text, its charset and the width, no line of the encoder's
\* quoted-printable output is too long (encoding.rs:41-108).
THEOREM LinesAlwaysFit == Spec => []LinesFit
<1>1. Inv => LinesFit
  BY DEF Inv
<1> QED
  BY <1>1, InitInv, NextInv, PTL DEF Spec

-----------------------------------------------------------------------------
(* Seven-bit bytes.                                                        *)

Low == 0..127

LEMMA LowIs == \A b \in Nat : b \in Low <=> b < 128
  BY DEF Low

LEMMA LowIsNat == \A b \in Low : b \in Nat
  BY DEF Low

Joining == INSTANCE SequenceFacts WITH Op <- LAMBDA bytes, piece : bytes \o piece

\* Concatenating is a fold.
LEMMA ConcatenatedIsFolded == \A pieces : Concatenated(pieces) = Joining!Folded(<<>>, pieces)
  BY DEF Concatenated, FoldLeft, MapThenFoldSet, Max, Joining!Folded, Joining!Largest

\* What is concatenated has the elements of the pieces.
LEMMA ConcatenatedType ==
  ASSUME NEW S, NEW pieces \in Seq(Seq(S))
  PROVE  Concatenated(pieces) \in Seq(S)
<1> DEFINE P == {ps \in Seq(Seq(S)) : Concatenated(ps) \in Seq(S)}
<1>1. <<>> \in P
  <2>1. Concatenated(<<>>) = <<>>
    BY ConcatenatedIsFolded, Joining!FoldEmpty
  <2>2. <<>> \in Seq(Seq(S)) /\ <<>> \in Seq(S)
    OBVIOUS
  <2> QED
    BY <2>1, <2>2, Zenon
<1>2. ASSUME NEW ps \in Seq(Seq(S)), NEW x \in Seq(S), ps \in P PROVE Append(ps, x) \in P
  <2>1. Concatenated(Append(ps, x)) = Concatenated(ps) \o x
    BY ConcatenatedIsFolded, Joining!FoldAppend
  <2>2. Concatenated(ps) \in Seq(S)
    BY <1>2
  <2>3. Concatenated(ps) \o x \in Seq(S) /\ Append(ps, x) \in Seq(Seq(S))
    BY <2>2
  <2> QED
    BY <2>1, <2>3
<1> HIDE DEF P
<1>3. pieces \in P
  BY <1>1, <1>2, Joining!SeqInduction
<1> QED
  BY <1>3 DEF P

\* A sequence given place by place.
LEMMA GivenType ==
  ASSUME NEW S, NEW n \in Nat, NEW f \in [1..n -> S]
  PROVE  f \in Seq(S)
  BY SeqDef, Zenon

\* Bytes are low unless one of them is high.
LEMMA LowUnlessHigh ==
  ASSUME NEW s \in Seq(Nat), ~HasHigh(s)
  PROVE  s \in Seq(Low)
<1>1. Len(s) \in Nat /\ DOMAIN s = 1..Len(s)
  OBVIOUS
<1>2. \A n \in 1..Len(s) : s[n] \in Nat /\ s[n] < 128
  BY <1>1 DEF HasHigh
<1>3. \A n \in 1..Len(s) : s[n] \in Low
  BY <1>2, LowIs
<1>4. s \in [1..Len(s) -> Low]
  BY <1>1, <1>3
<1> QED
  BY <1>1, <1>4, GivenType

LEMMA LowIsNotHigh ==
  ASSUME NEW s \in Seq(Low)
  PROVE  ~HasHigh(s)
<1>1. \A n \in DOMAIN s : s[n] \in Low
  OBVIOUS
<1>2. \A b \in Low : ~(b >= 128)
  BY DEF Low
<1> QED
  BY <1>1, <1>2 DEF HasHigh

Charsets == {"utf-8", "iso-8859-1", "windows-1252", "windows-1256", "unknown", "bytes"}

\* Every charset writes ASCII as itself, so ASCII text stays low and never
\* lacks an encoder.
LEMMA AsciiIsItself ==
  ASSUME NEW c \in Low, NEW charset \in Charsets \ {"unknown"}
  PROVE  EncodeChar(c, charset) = <<c>>
  BY DEF EncodeChar, Utf8, FromTable, Low, Charsets

LEMMA AsciiStaysLow ==
  ASSUME NEW text \in Seq(Low), NEW charset \in Charsets
  PROVE  ReencodeCharset(text, charset) # <<>> /\ ReencodeCharset(text, charset)[1] \in Seq(Low)
<1>1. Len(text) \in Nat /\ DOMAIN text = 1..Len(text) /\ \A n \in 1..Len(text) : text[n] \in Low
  OBVIOUS
<1>2. CASE charset = "unknown"
  <2>1. \A n \in DOMAIN text : text[n] < 128
    BY <1>1, LowIs, LowIsNat
  <2> QED
    BY <1>2, <2>1 DEF ReencodeCharset
<1>3. CASE charset # "unknown"
  <2> DEFINE pieces == [n \in DOMAIN text |-> EncodeChar(text[n], charset)]
  <2>1. \A n \in 1..Len(text) : EncodeChar(text[n], charset) \in Seq(Low)
    <3>1. charset \in Charsets \ {"unknown"}
      BY <1>3
    <3>2. \A c \in Low : EncodeChar(c, charset) = <<c>> /\ <<c>> \in Seq(Low)
      BY <3>1, AsciiIsItself
    <3> QED
      BY <1>1, <3>2
  <2>2. pieces \in [1..Len(text) -> Seq(Low)]
    BY <1>1, <2>1
  <2>3. pieces \in Seq(Seq(Low))
    BY <1>1, <2>2, GivenType
  <2>4. ReencodeCharset(text, charset) = <<Concatenated(pieces)>>
    BY <1>3 DEF ReencodeCharset
  <2> HIDE DEF pieces
  <2>5. Concatenated(pieces) \in Seq(Low)
    BY <2>3, ConcatenatedType
  <2> QED
    BY <2>4, <2>5
<1> QED
  BY <1>2, <1>3

\* Chunks of a sequence have its elements.
LEMMA ChunksType ==
  ASSUME NEW S, NEW s \in Seq(S), NEW n \in Nat \ {0}
  PROVE  Chunks(s, n) \in Seq(Seq(S))
<1> DEFINE q == (Len(s) + n - 1) \div n
<1>1. q \in Nat /\ Len(s) \in Nat
  OBVIOUS
<1>2. ASSUME NEW k \in 1..q
      PROVE  SubSeq(s, (k - 1) * n + 1, IF k * n <= Len(s) THEN k * n ELSE Len(s)) \in Seq(S)
  <2> DEFINE a == (k - 1) * n + 1
             b == IF k * n <= Len(s) THEN k * n ELSE Len(s)
  <2>1. k \in Nat \ {0} /\ k - 1 \in Nat
    BY <1>1
  <2>2. a \in Nat \ {0} /\ k * n \in Nat
    BY <2>1
  <2>3. b \in Nat /\ b <= Len(s)
    BY <1>1, <2>2
  <2> HIDE DEF a, b
  <2>4. SubSeq(s, a, b) \in Seq(S)
    BY <2>2, <2>3, Joining!CutIs
  <2> QED
    BY <2>4 DEF a, b
<1>3. Chunks(s, n) \in [1..q -> Seq(S)]
  BY <1>2 DEF Chunks
<1> HIDE DEF q
<1> QED
  BY <1>1, <1>3, GivenType

\* base64 writes low bytes only.
LEMMA GroupIsLow ==
  ASSUME NEW g \in Seq(Byte)
  PROVE  Group(g) \in Seq(Low)
<1> DEFINE b == [k \in 1..3 |-> IF k <= Len(g) THEN g[k] ELSE 0]
           n == <<b[1] \div 4, (b[1] % 4) * 16 + b[2] \div 16,
                  (b[2] % 16) * 4 + b[3] \div 64, b[3] % 64>>
<1>0. \A k \in 1..3 : k <= Len(g) => g[k] \in Nat
  <2>1. Len(g) \in Nat /\ \A k \in 1..Len(g) : g[k] \in Byte
    OBVIOUS
  <2>2. \A x \in Byte : x \in Nat
    BY DEF Byte
  <2> QED
    BY <2>1, <2>2
<1>1. b[1] \in Nat /\ b[2] \in Nat /\ b[3] \in Nat
  BY <1>0
<1>2. \A k \in 1..4 : n[k] \in Nat
  <2> HIDE DEF b
  <2>1. \A x \in Nat : x \div 4 \in Nat
    OBVIOUS
  <2>2. \A x \in Nat : x \div 16 \in Nat /\ x \div 64 \in Nat
    OBVIOUS
  <2>3. \A x \in Nat : x % 4 \in Nat /\ x % 16 \in Nat /\ x % 64 \in Nat
    OBVIOUS
  <2>4. \A x, y \in Nat : x * 16 + y \in Nat /\ x * 4 + y \in Nat
    OBVIOUS
  <2>5. n[1] \in Nat
    BY <1>1, <2>1
  <2>6. n[2] \in Nat
    <3> HIDE DEF n
    <3>1. b[1] % 4 \in Nat /\ b[2] \div 16 \in Nat
      BY <1>1, <2>2, <2>3
    <3>2. (b[1] % 4) * 16 + b[2] \div 16 \in Nat
      BY <2>4, <3>1
    <3> QED
      BY <3>2 DEF n
  <2>7. n[3] \in Nat
    <3> HIDE DEF n
    <3>1. b[2] % 16 \in Nat /\ b[3] \div 64 \in Nat
      BY <1>1, <2>2, <2>3
    <3>2. (b[2] % 16) * 4 + b[3] \div 64 \in Nat
      BY <2>4, <3>1
    <3> QED
      BY <3>2 DEF n
  <2>8. n[4] \in Nat
    BY <1>1, <2>3
  <2> HIDE DEF n
  <2>9. \A k \in 1..4 : k = 1 \/ k = 2 \/ k = 3 \/ k = 4
    OBVIOUS
  <2> QED
    BY <2>5, <2>6, <2>7, <2>8, <2>9
<1> HIDE DEF b, n
<1>3. \A m \in Nat : Letter(m) \in Low
  BY DEF Letter, Low
<1>4. Group(g) = [k \in 1..4 |-> IF k <= Len(g) + 1 THEN Letter(n[k]) ELSE Equals]
  BY DEF Group, b, n
<1>5. Equals \in Low
  BY DEF Equals, Low
<1>6. Group(g) \in [1..4 -> Low]
  BY <1>2, <1>3, <1>4, <1>5
<1> QED
  BY <1>6, GivenType

LEMMA EndingIsLow ==
  ASSUME input \in Input
  PROVE  line_ending \in Seq(Low) /\ input.original.trailing \in Seq(Low)
<1>1. <<LF>> \in Seq(Low) /\ <<CR, LF>> \in Seq(Low) /\ CR \in Low /\ LF \in Low
  BY DEF CR, LF, Low
<1>2. line_ending \in Seq(Low)
  BY <1>1, InputAssumption DEF line_ending
<1>3. input.original.trailing \in Seq({CR, LF})
  BY InputAssumption
<1>4. \A s \in Seq({CR, LF}) : s \in Seq(Low)
  BY <1>1
<1> QED
  BY <1>2, <1>3, <1>4

LEMMA Base64IsLow ==
  ASSUME NEW bytes \in Seq(Byte), NEW ending \in Seq(Low)
  PROVE  EncodeBase64(bytes, ending) \in Seq(Low)
<1> DEFINE chunks == Chunks(bytes, 3)
           groups == [k \in DOMAIN chunks |-> Group(chunks[k])]
           lines  == Chunks(Standard(bytes), MAX_BASE64)
           broken == [k \in DOMAIN lines |-> IF k = 1 THEN lines[k] ELSE ending \o lines[k]]
<1>1. chunks \in Seq(Seq(Byte))
  BY ChunksType
<1>2. groups \in Seq(Seq(Low))
  <2> HIDE DEF chunks
  <2>1. Len(chunks) \in Nat /\ DOMAIN chunks = 1..Len(chunks)
        /\ \A k \in 1..Len(chunks) : chunks[k] \in Seq(Byte)
    BY <1>1
  <2>2. groups \in [1..Len(chunks) -> Seq(Low)]
    BY <2>1, GroupIsLow
  <2> HIDE DEF groups
  <2> QED
    BY <2>1, <2>2, GivenType
<1>3. Standard(bytes) \in Seq(Low)
  <2>1. Standard(bytes) = Concatenated(groups)
    BY DEF Standard
  <2> HIDE DEF groups
  <2> QED
    BY <1>2, <2>1, ConcatenatedType
<1>4. lines \in Seq(Seq(Low))
  BY <1>3, ChunksType, WidthAssumption
<1>5. broken \in Seq(Seq(Low))
  <2> HIDE DEF lines
  <2>1. Len(lines) \in Nat /\ DOMAIN lines = 1..Len(lines)
        /\ \A k \in 1..Len(lines) : lines[k] \in Seq(Low)
    BY <1>4
  <2>2. \A l \in Seq(Low) : ending \o l \in Seq(Low)
    OBVIOUS
  <2>3. broken \in [1..Len(lines) -> Seq(Low)]
    BY <2>1, <2>2
  <2> HIDE DEF broken
  <2> QED
    BY <2>1, <2>3, GivenType
<1>6. EncodeBase64(bytes, ending) = Concatenated(broken)
  BY DEF EncodeBase64
<1> HIDE DEF broken
<1> QED
  BY <1>5, <1>6, ConcatenatedType

\* So does quoted-printable.
LEMMA EscapedIsLow ==
  ASSUME NEW b \in Byte
  PROVE  Escaped(b) \in Seq(Low)
<1>1. b \div 16 \in 0..15 /\ b % 16 \in 0..15
  BY DEF Byte
<1>2. \A n \in 0..15 : HexDigit(n) \in Low
  BY DEF HexDigit, Low
<1>3. Equals \in Low
  BY DEF Equals, Low
<1> QED
  BY <1>1, <1>2, <1>3 DEF Escaped

\* Stripping line breaks keeps a part.
LEMMA StrippedType ==
  ASSUME NEW S, NEW s \in Seq(S)
  PROVE  Stripped(s) \in Seq(S)
<1> DEFINE kept == {n \in DOMAIN s : s[n] \notin {CR, LF}}
<1>1. Len(s) \in Nat /\ kept \in SUBSET (1..Len(s))
  OBVIOUS
<1>2. LastKept(s) = IF kept = {} THEN 0 ELSE CHOOSE n \in kept : \A k \in kept : k <= n
  BY DEF LastKept
<1> HIDE DEF kept
<1>3. LastKept(s) \in 0..Len(s)
  <2>1. kept # {} => \E m \in kept : \A k \in kept : k <= m
    BY <1>1, Joining!LargestExists
  <2>2. CASE kept = {}
    BY <1>1, <1>2, <2>2
  <2>3. CASE kept # {}
    <3>1. LastKept(s) \in kept
      BY <1>2, <2>1, <2>3
    <3>2. LastKept(s) \in 1..Len(s)
      BY <1>1, <3>1
    <3> QED
      BY <1>1, <3>2
  <2> QED
    BY <2>2, <2>3
<1> QED
  BY <1>1, <1>3, Joining!CutIs DEF Stripped

-----------------------------------------------------------------------------
(* A part declared 7bit stays so.                                          *)

\* The text is not ASCII.
HighText == \E n \in DOMAIN input.text : input.text[n] >= 128

\* Quoted-printable output is low at every step; the bytes of the charset are
\* low unless the text is not ASCII, and only then is an encoder missing.
SevenBitInv ==
  /\ out \in Seq(Low)
  /\ content \in Seq(Low) \/ HighText
  /\ pc = "encode" \/ pc = "done"
  /\ SevenBitStays

LEMMA InitSevenBit == Init => SevenBitInv
<1> SUFFICES ASSUME Init PROVE SevenBitInv
  OBVIOUS
<1>1. input \in Input /\ input.text \in Seq(Nat) /\ input.charset \in Charsets
  BY InputAssumption DEF Init, Charsets
<1>2. \/ HighText
      \/ /\ ReencodeCharset(input.text, input.charset) # <<>>
         /\ ReencodeCharset(input.text, input.charset)[1] \in Seq(Low)
  <2>1. CASE ~HasHigh(input.text)
    <3>1. input.text \in Seq(Low)
      BY <1>1, <2>1, LowUnlessHigh
    <3> QED
      BY <1>1, <3>1, AsciiStaysLow
  <2>2. CASE HasHigh(input.text)
    BY <2>2 DEF HasHigh, HighText
  <2> QED
    BY <2>1, <2>2
<1>3. out \in Seq(Low)
  BY DEF Init
<1>4. content \in Seq(Low) \/ HighText
  BY <1>2 DEF Init
<1>5. /\ pc \in {"encode", "done"} /\ body = <<>>
      /\ pc = "done" => HighText \/ ~input.original.in_range
  BY <1>2 DEF Init
<1> QED
  BY <1>3, <1>4, <1>5 DEF SevenBitInv, SevenBitStays, HighText

\* A step that writes a low piece.
LEMMA EmitLow ==
  ASSUME out \in Seq(Low), input \in Input, NEW piece \in Seq(Low), Emit(piece)
  PROVE  out' \in Seq(Low)
<1>1. line_ending \in Seq(Low)
  BY EndingIsLow
<1>2. <<Equals>> \in Seq(Low)
  BY DEF Equals, Low
<1>3. out \o piece \in Seq(Low)
  OBVIOUS
<1>4. out \o <<Equals>> \o line_ending \o piece \in Seq(Low)
  BY <1>1, <1>2, ConcatProperties, Zenon
<1> QED
  BY <1>3, <1>4 DEF Emit

\* The bytes encode_body returns are low, or the part declares no encoding.
LEMMA EncodedIsLow ==
  ASSUME Inv, out \in Seq(Low), content \in Seq(Low) \/ input.encoding # "None"
  PROVE  Encoded \in Seq(Low)
<1>1. input \in Input /\ content \in Seq(Byte)
  BY DEF Inv
<1>2. CASE input.encoding = "None"
  BY <1>2 DEF Encoded
<1>3. CASE input.encoding = "Base64"
  <2>1. EncodeBase64(content, line_ending) \in Seq(Low)
    BY <1>1, EndingIsLow, Base64IsLow
  <2> QED
    BY <1>3, <2>1 DEF Encoded
<1>4. CASE input.encoding = "QuotedPrintable"
  BY <1>4 DEF Encoded
<1> QED
  BY <1>1, <1>2, <1>3, <1>4, InputAssumption

LEMMA FinishSevenBit ==
  ASSUME Inv, SevenBitInv, Finish
  PROVE  SevenBitStays'
<1>1. input' = input /\ content' = content /\ out' = out /\ input \in Input
  BY DEF Finish, Inv
<1> DEFINE left == input.encoding = "None" /\ HasHigh(Encoded) /\ ~input.original.has_high
           bytes == Stripped(Encoded) \o input.original.trailing
<1>2. body' = IF left THEN <<>> ELSE <<bytes>>
  BY DEF Finish
<1>3. ASSUME left PROVE HighText
  <2>1. ~(Encoded \in Seq(Low))
    BY <1>3, LowIsNotHigh
  <2>2. ~(content \in Seq(Low))
    BY <2>1, EncodedIsLow DEF SevenBitInv
  <2> QED
    BY <2>2 DEF SevenBitInv
<1>4. ASSUME ~left, HasHigh(bytes) PROVE input.encoding = "None" /\ input.original.has_high
  <2>1. ASSUME Encoded \in Seq(Low) PROVE FALSE
    <3>1. bytes \in Seq(Low)
      BY <1>1, <2>1, StrippedType, EndingIsLow
    <3> HIDE DEF bytes
    <3> QED
      BY <1>4, <3>1, LowIsNotHigh
  <2>2. input.encoding = "None"
    BY <2>1, EncodedIsLow DEF SevenBitInv
  <2>3. Encoded = content /\ content \in Seq(Byte)
    BY <2>2 DEF Encoded, Inv
  <2>4. HasHigh(Encoded)
    <3>0. \A b \in Byte : b \in Nat
      BY DEF Byte
    <3>1. content \in Seq(Nat)
      BY <2>3, <3>0
    <3> QED
      BY <2>1, <2>3, <3>1, LowUnlessHigh
  <2> QED
    BY <1>4, <2>2, <2>4
<1> HIDE DEF left, bytes
<1>5. CASE left
  BY <1>1, <1>2, <1>3, <1>5 DEF SevenBitStays, HighText
<1>6. CASE ~left
  <2>1. body' # <<>> /\ body'[1] = bytes
    BY <1>2, <1>6
  <2> QED
    BY <1>1, <1>4, <1>6, <2>1 DEF SevenBitStays, HasHigh
<1> QED
  BY <1>5, <1>6

LEMMA NextSevenBit == Inv /\ SevenBitInv /\ [Next]_vars => SevenBitInv'
<1> SUFFICES ASSUME Inv, SevenBitInv, [Next]_vars PROVE SevenBitInv'
  OBVIOUS
<1>0. input \in Input /\ out \in Seq(Low)
  BY DEF Inv, SevenBitInv
<1>1. ASSUME Iteration, out' \in Seq(Low) PROVE SevenBitInv'
  BY <1>1 DEF Iteration, SevenBitInv, SevenBitStays, HighText
<1>2. CASE HardBreak
  <2>1. out' \in Seq(Low)
    BY <1>0, <1>2, EndingIsLow DEF HardBreak
  <2> QED
    BY <1>1, <1>2, <2>1 DEF HardBreak
<1>3. CASE Escape
  <2>1. Escaped(At(i)) \in Seq(Low)
    BY <1>3, ContentBytes, EscapedIsLow DEF Escape
  <2>2. Emit(Escaped(At(i))) /\ Iteration
    BY <1>3 DEF Escape
  <2> QED
    BY <1>0, <1>1, <2>1, <2>2, EmitLow
<1>4. CASE Literal
  <2>1. At(i) \in Low
    BY <1>4 DEF Literal, NeedsEncoding, Low, Space, Tab
  <2>2. <<At(i)>> \in Seq(Low) /\ Emit(<<At(i)>>) /\ Iteration
    BY <1>4, <2>1 DEF Literal
  <2> QED
    BY <1>0, <1>1, <2>2, EmitLow
<1>5. CASE Finish
  <2>1. SevenBitStays'
    BY <1>5, FinishSevenBit
  <2>2. (out \in Seq(Low) /\ (content \in Seq(Low) \/ HighText) /\ (pc = "encode" \/ pc = "done"))'
    BY <1>5 DEF Finish, SevenBitInv, HighText
  <2> QED
    BY <2>1, <2>2 DEF SevenBitInv
<1>6. CASE UNCHANGED vars
  BY <1>6 DEF vars, SevenBitInv, SevenBitStays, HighText
<1> QED
  BY <1>2, <1>3, <1>4, <1>5, <1>6 DEF Next

\* Whatever the text, its charset and its encoding: a part without high bytes
\* gets none when it is rewritten, and is left alone only when its text is not
\* ASCII (mime.rs:455-490).
THEOREM SevenBitHolds == Spec => []SevenBitStays
<1>1. Init => Inv /\ SevenBitInv
  BY InitInv, InitSevenBit
<1>2. Inv /\ SevenBitInv /\ [Next]_vars => (Inv /\ SevenBitInv)'
  BY NextInv, NextSevenBit
<1>3. Inv /\ SevenBitInv => SevenBitStays
  BY DEF SevenBitInv
<1> QED
  BY <1>1, <1>2, <1>3, PTL DEF Spec

=============================================================================
