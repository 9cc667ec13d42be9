--------------------------- MODULE MCBodyEncoding ---------------------------
(***************************************************************************)
(* Texts of every mix of line breaks, white space, "=" and letters, and    *)
(* characters of several charsets, read back as a mail reader does.        *)
(***************************************************************************)
EXTENDS BodyEncoding

Lf == <<LF>>
CrLf == <<CR, LF>>
Plain == [in_range |-> TRUE, has_high |-> FALSE, trailing |-> CrLf]
Lost == [Plain EXCEPT !.in_range = FALSE]

Letters == {97, 233, 8364, 1605}

MCInput ==
  [text : BoundedSeq({CR, LF, Space, Equals, 97}, 5), charset : {"utf-8"},
   encoding : {"QuotedPrintable"}, line_ending : {Lf, CrLf}, original : {Plain}]
  \cup
  [text : BoundedSeq(Letters \cup {LF}, 3),
   charset : {"utf-8", "iso-8859-1", "windows-1252", "windows-1256", "unknown"},
   encoding : {"None", "Base64", "QuotedPrintable"}, line_ending : {CrLf},
   original : [in_range : {TRUE}, has_high : BOOLEAN, trailing : {<<>>, CrLf}] \cup {Lost}]
  \cup
  [text : BoundedSeq({97, 233, LF}, 3), charset : {"bytes"},
   encoding : {"None", "Base64", "QuotedPrintable"}, line_ending : {CrLf},
   original : [in_range : {TRUE}, has_high : BOOLEAN, trailing : {CrLf}]]

-----------------------------------------------------------------------------
(* The reader.                                                             *)

\* Length of the line break at n, if there is one.
BreakAt(s, n) ==
  IF n < Len(s) /\ s[n] = CR /\ s[n + 1] = LF THEN 2
  ELSE IF n <= Len(s) /\ s[n] = LF THEN 1 ELSE 0

WsToEol(s, n) ==
  \E k \in n + 1..Len(s) + 1 :
    /\ \A h \in n..k - 1 : s[h] \in {Space, Tab}
    /\ k > Len(s) \/ BreakAt(s, k) > 0

HexValue(d) == IF d < 58 THEN d - 48 ELSE d - 55

FromQuotedPrintable(s) ==
  LET f[n \in 1..Len(s) + 1] ==
    IF n > Len(s) THEN <<>>
    ELSE IF WsToEol(s, n) THEN f[n + 1]
    ELSE IF s[n] # Equals THEN <<s[n]>> \o f[n + 1]
    ELSE IF BreakAt(s, n + 1) > 0 THEN f[n + 1 + BreakAt(s, n + 1)]
    ELSE <<HexValue(s[n + 1]) * 16 + HexValue(s[n + 2])>> \o f[n + 3]
  IN f[1]

Sextet(l) == IF l = Equals THEN 0 ELSE CHOOSE v \in 0..63 : Letter(v) = l

Ungroup(g) ==
  LET v == [k \in 1..4 |-> Sextet(g[k])]
      b == <<v[1] * 4 + v[2] \div 16, (v[2] % 16) * 16 + v[3] \div 4, (v[3] % 4) * 64 + v[4]>>
  IN SubSeq(b, 1, Len(SelectSeq(g, LAMBDA l : l # Equals)) - 1)

FromBase64(s) ==
  LET letters == SelectSeq(s, LAMBDA l : l \notin {CR, LF})
  IN FoldLeft(LAMBDA o, g : o \o Ungroup(g), <<>>, Chunks(letters, 4))

FromTransfer(s, encoding) ==
  CASE encoding = "None" -> s
    [] encoding = "Base64" -> FromBase64(s)
    [] encoding = "QuotedPrintable" -> FromQuotedPrintable(s)

\* What may stand for a character in the bytes of a charset.
Charset(charset) == IF charset = "unknown" THEN "utf-8" ELSE charset

Known == {CR, LF, Space, Equals, Question} \cup Letters

ReadText(s, charset) ==
  LET Here(n) == {c \in Known : IsPrefix(EncodeChar(c, charset), SubSeq(s, n, Len(s)))
                                  /\ (c \in 233..8364 => EncodeChar(c, charset) # <<Question>>)}
      f[n \in 1..Len(s) + 1] ==
        IF n > Len(s) THEN <<>>
        ELSE IF Here(n) = {} THEN <<65533>> \o f[n + 1]
        ELSE LET c == CHOOSE c \in Here(n) : TRUE
             IN <<c>> \o f[n + Len(EncodeChar(c, charset))]
  IN f[1]

\* Quoted-printable writes both kinds of line break as the message's.
Breaks(s) ==
  LET f[n \in 1..Len(s) + 1] ==
    IF n > Len(s) THEN <<>>
    ELSE IF BreakAt(s, n) > 0 THEN line_ending \o f[n + BreakAt(s, n)]
    ELSE <<s[n]>> \o f[n + 1]
  IN IF input.encoding = "QuotedPrintable" THEN f[1] ELSE s

\* ISO 8859-1 has nothing for a character above 255, and says so.
Sayable(text, charset) ==
  [n \in DOMAIN text |-> IF charset = "iso-8859-1" /\ text[n] > 255 THEN Question ELSE text[n]]

\* A mail reader that undoes the declared transfer encoding and charset of a
\* replaced part sees the cleaned text, up to the kind of its line breaks and
\* those at its end (encoding.rs:13-151, mime.rs:436-485).
ReadsBack ==
  pc = "done" /\ body # <<>> =>
    Stripped(ReadText(FromTransfer(body[1], input.encoding), Charset(input.charset)))
      = Stripped(Breaks(Sayable(input.text, input.charset)))

=============================================================================
