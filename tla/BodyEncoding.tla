---------------------------- MODULE BodyEncoding ----------------------------
(***************************************************************************)
(* The bytes that replace a cleaned part: build_replacement_with of        *)
(* src/mime.rs, with the charset and the transfer encoding of              *)
(* src/encoding.rs.  Characters are code points, bytes are numbers; the    *)
(* loop of encode_quoted_printable takes one step per iteration.           *)
(***************************************************************************)
EXTENDS Naturals, Sequences, SequencesExt

CONSTANTS
  Input,        \* [text, charset, encoding, line_ending, original]; charset "bytes":
                \* the new content is not UTF-8, and text is its bytes
  MAX_LINE,     \* columns before a soft line break (75 in the code)
  MAX_BASE64    \* columns of a line of base64 (76 in the code)

CR == 13
LF == 10
Space == 32
Tab == 9
Equals == 61
Question == 63

ASSUME WidthAssumption == MAX_LINE \in Nat /\ MAX_LINE >= 3 /\ MAX_BASE64 \in Nat \ {0}

\* Pieces one after the other.
Concatenated(pieces) == FoldLeft(LAMBDA bytes, piece : bytes \o piece, <<>>, pieces)

-----------------------------------------------------------------------------
(* reencode_charset.  Some and None are sequences of one and no element.   *)

Utf8(c) ==
  IF c < 128 THEN <<c>>
  ELSE IF c < 2048 THEN <<192 + c \div 64, 128 + (c % 64)>>
  ELSE <<224 + c \div 4096, 128 + ((c \div 64) % 64), 128 + (c % 64)>>

Decimal[n \in Nat] == IF n < 10 THEN <<48 + n>> ELSE Append(Decimal[n \div 10], 48 + (n % 10))

\* What the encoder writes for a character its table does not have.
Reference(c) == <<38, 35>> \o Decimal[c] \o <<59>>

\* Tables of the encoder, as far as they are not the identity.
Windows1252 == [c \in {8364} |-> 128]
Windows1256 == [c \in {1605} |-> 227]

FromTable(c, table, same) ==
  IF c < 128 \/ c \in same THEN <<c>>
  ELSE IF c \in DOMAIN table THEN <<table[c]>>
  ELSE Reference(c)

EncodeChar(c, charset) ==
  CASE charset = "utf-8"        -> Utf8(c)
    [] charset = "bytes"        -> <<c>>
    [] charset = "iso-8859-1"   -> IF c <= 255 THEN <<c>> ELSE <<Question>>
    [] charset = "windows-1252" -> FromTable(c, Windows1252, 160..255)
    [] charset = "windows-1256" -> FromTable(c, Windows1256, {})

\* A charset without an encoder of its own (unknown, UTF-16) takes ASCII only.
ReencodeCharset(text, charset) ==
  IF charset # "unknown"
  THEN <<Concatenated([n \in DOMAIN text |-> EncodeChar(text[n], charset)])>>
  ELSE IF \A n \in DOMAIN text : text[n] < 128 THEN <<text>> ELSE <<>>

Byte == 0..255

ASSUME InputAssumption ==
  \A x \in Input :
    /\ x.text \in Seq(Nat)
    /\ x.charset \in {"utf-8", "iso-8859-1", "windows-1252", "windows-1256", "unknown", "bytes"}
    /\ x.encoding \in {"None", "Base64", "QuotedPrintable"}
    /\ x.line_ending \in {<<LF>>, <<CR, LF>>}
    /\ x.original.trailing \in Seq({CR, LF}) /\ x.original.in_range \in BOOLEAN
    /\ ReencodeCharset(x.text, x.charset) \in Seq(Seq(Byte))

-----------------------------------------------------------------------------
(* encode_base64.                                                          *)

Letter(n) ==
  IF n < 26 THEN 65 + n ELSE IF n < 52 THEN 71 + n ELSE IF n < 62 THEN n - 4
  ELSE IF n = 62 THEN 43 ELSE 47

\* Four letters for the up to three bytes of g.
Group(g) ==
  LET b == [k \in 1..3 |-> IF k <= Len(g) THEN g[k] ELSE 0]
      n == <<b[1] \div 4, (b[1] % 4) * 16 + b[2] \div 16,
             (b[2] % 16) * 4 + b[3] \div 64, b[3] % 64>>
  IN [k \in 1..4 |-> IF k <= Len(g) + 1 THEN Letter(n[k]) ELSE Equals]

\* s in pieces of n, the last one possibly shorter.
Chunks(s, n) ==
  [k \in 1..(Len(s) + n - 1) \div n |->
     SubSeq(s, (k - 1) * n + 1, IF k * n <= Len(s) THEN k * n ELSE Len(s))]

Standard(bytes) ==
  LET chunks == Chunks(bytes, 3)
  IN Concatenated([k \in DOMAIN chunks |-> Group(chunks[k])])

EncodeBase64(bytes, ending) ==
  LET lines == Chunks(Standard(bytes), MAX_BASE64)
  IN Concatenated([k \in DOMAIN lines |-> IF k = 1 THEN lines[k] ELSE ending \o lines[k]])

-----------------------------------------------------------------------------

VARIABLES
  input,        \* what build_replacement_with is called with
  pc,           \* "encode" or "done"
  content,      \* the bytes to encode
  i,            \* index into content
  out,          \* bytes written
  line_len,     \* columns used of the current line
  body          \* bytes of the Replacement, if there is one

vars == <<input, pc, content, i, out, line_len, body>>

line_ending == input.line_ending

\* The place of the part and the charset come first; without one of them there
\* is no replacement.  Content that is not UTF-8 is taken as it is.
Init ==
  /\ input \in Input
  /\ LET bytes == IF input.original.in_range
                  THEN ReencodeCharset(input.text, input.charset) ELSE <<>> IN
     /\ pc = IF bytes = <<>> THEN "done" ELSE "encode"
     /\ content = IF bytes = <<>> THEN <<>> ELSE bytes[1]
  /\ i = 1 /\ out = <<>> /\ line_len = 0 /\ body = <<>>

At(n) == IF n <= Len(content) THEN content[n] ELSE 0

\* An iteration of encode_quoted_printable.
Iteration ==
  /\ pc = "encode" /\ input.encoding = "QuotedPrintable"
  /\ i <= Len(content)
  /\ UNCHANGED <<input, pc, content, body>>

StartsCrLf == At(i) = CR /\ At(i + 1) = LF

\* A line break of either kind becomes one of the message's.
HardBreak ==
  /\ Iteration
  /\ StartsCrLf \/ At(i) = LF
  /\ out' = out \o line_ending /\ line_len' = 0
  /\ i' = i + IF StartsCrLf THEN 2 ELSE 1

WhitespaceAtEol ==
  /\ At(i) \in {Space, Tab}
  /\ i + 1 > Len(content) \/ At(i + 1) \in {CR, LF}

\* Variant of NeedsEncoding that leaves white space before a line break.
NeedsEncodingNoWs == At(i) = Equals \/ At(i) \notin 33..126 \cup {Space, Tab}

NeedsEncoding ==
  \/ At(i) = Equals
  \/ At(i) \notin 33..126 \cup {Space, Tab}
  \/ WhitespaceAtEol

HexDigit(n) == IF n < 10 THEN 48 + n ELSE 55 + n

Escaped(b) == <<Equals, HexDigit(b \div 16), HexDigit(b % 16)>>

\* Variant of Emit that looks at the line only when it is full.
EmitLate(piece) ==
  IF line_len >= MAX_LINE
  THEN out' = out \o <<Equals>> \o line_ending \o piece /\ line_len' = Len(piece)
  ELSE out' = out \o piece /\ line_len' = line_len + Len(piece)

\* A piece is never split: the soft line break comes before it.
Emit(piece) ==
  IF line_len + Len(piece) > MAX_LINE
  THEN out' = out \o <<Equals>> \o line_ending \o piece /\ line_len' = Len(piece)
  ELSE out' = out \o piece /\ line_len' = line_len + Len(piece)

Escape ==
  /\ Iteration
  /\ ~(StartsCrLf \/ At(i) = LF) /\ NeedsEncoding
  /\ Emit(Escaped(At(i)))
  /\ i' = i + 1

Literal ==
  /\ Iteration
  /\ ~(StartsCrLf \/ At(i) = LF) /\ ~NeedsEncoding
  /\ Emit(<<At(i)>>)
  /\ i' = i + 1

\* encode_body.
Encoded ==
  CASE input.encoding = "None" -> content
    [] input.encoding = "Base64" -> EncodeBase64(content, line_ending)
    [] input.encoding = "QuotedPrintable" -> out

HasHigh(bytes) == \E n \in DOMAIN bytes : bytes[n] >= 128

\* Where the run of CR and LF at the end starts.
LastKept(bytes) ==
  LET kept == {n \in DOMAIN bytes : bytes[n] \notin {CR, LF}}
  IN IF kept = {} THEN 0 ELSE CHOOSE n \in kept : \A k \in kept : k <= n

Stripped(bytes) == SubSeq(bytes, 1, LastKept(bytes))

\* Variant of Finish that writes high bytes into any part.
FinishUnchecked ==
  /\ pc = "encode"
  /\ input.encoding = "QuotedPrintable" => i > Len(content)
  /\ pc' = "done"
  /\ body' = <<Stripped(Encoded) \o input.original.trailing>>
  /\ UNCHANGED <<input, content, i, out, line_len>>

\* No high bytes into a part that had none and declares no encoding; the line
\* breaks at the end are those the part had.
Finish ==
  /\ pc = "encode"
  /\ input.encoding = "QuotedPrintable" => i > Len(content)
  /\ pc' = "done"
  /\ body' = IF input.encoding = "None" /\ HasHigh(Encoded) /\ ~input.original.has_high
             THEN <<>>
             ELSE <<Stripped(Encoded) \o input.original.trailing>>
  /\ UNCHANGED <<input, content, i, out, line_len>>

Next == HardBreak \/ Escape \/ Literal \/ Finish

Spec == Init /\ [][Next]_vars

-----------------------------------------------------------------------------

\* Octets of a full line of quoted-printable but its first: the columns, the
\* "=" of a soft break, and the line ending.
Window == MAX_LINE + Len(line_ending)

\* No line of quoted-printable is longer than that: among so many octets there
\* is a line break (encoding.rs:41-108; 76 columns by RFC 2045).
LinesFit ==
  \A n \in 1..Len(out) :
    n + Window <= Len(out) => \E k \in n..n + Window : out[k] = LF

\* What was declared 7bit stays so, however the text was cleaned, and a part
\* is only left alone for that reason, for want of an encoder or of its place
\* in the message.
SevenBitStays ==
  pc = "done" =>
    IF body = <<>>
    THEN \/ \E n \in DOMAIN input.text : input.text[n] >= 128
         \/ ~input.original.in_range
    ELSE HasHigh(body[1]) => input.encoding = "None" /\ input.original.has_high

=============================================================================
