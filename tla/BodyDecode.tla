------------------------------ MODULE BodyDecode ------------------------------
(***************************************************************************)
(* mime-tree/src/decode.rs: decode_body_value, which decodes the body of a *)
(* part, all of it or at most max bytes.                                   *)
(*                                                                         *)
(* A body is a sequence of units, and ranges count units:                  *)
(*   base64            characters, of kind "char", "pad", "break" (CR or   *)
(*                     LF) or "junk"                                       *)
(*   quoted-printable  tokens, of kind "literal" (1 character), "escape"   *)
(*                     (3), "soft" (a soft line break, 3) or "refused"     *)
(*                     (1), which the library does not decode              *)
(*   uuencode          the lines of UuDecode                               *)
(*   anything else     bytes                                               *)
(* `bytes' of a unit are the bytes that are complete with it; `spills' of  *)
(* a base64 character says that it also holds bits of the next one.        *)
(***************************************************************************)
EXTENDS UuDecode

CONSTANTS
  ByteOrderMark,   \* U+FEFF
  Replacement      \* U+FFFD

\* A byte is the at-th of the `of' bytes of a character.
Encoded(char, width) ==
  [k \in 1 .. width |-> [char |-> char, at |-> k, of |-> width]]

\* Of bytes, of units or of text; all of it when it is no longer.
Prefix(s, n) == SubSeq(s, 1, Min({n, Len(s)}))

BytesIn(units) == FlattenSeq([i \in DOMAIN units |-> units[i].bytes])

Transferred(bytes, limited, problem) ==
  [bytes |-> bytes, limited |-> limited, problem |-> problem]

\* What the units of a body decode to are bytes.
AreUnits(units) ==
  \A i \in DOMAIN units : units[i].bytes \in Seq(Range(units[i].bytes))

-----------------------------------------------------------------------------
(* base64.                                                                 *)

\* Of 4 characters the first completes no byte and the last leaves no bits.
GroupedBy4(units) ==
  \A i \in DOMAIN units :
    (\A j \in 1 .. i : units[j].kind = "char") =>
      /\ Len(units[i].bytes) = IF i % 4 = 1 THEN 0 ELSE 1
      /\ i % 4 = 1 => units[i].spills
      /\ i % 4 = 0 => ~units[i].spills

CeilDiv(a, b) == (a + b - 1) \div b

\* Faulty variant: the last group may be cut.
MaxCharsUnrounded(max) == CeilDiv(4 * max, 3)

\* Whole groups of 4 characters.
MaxChars(max) == 4 * CeilDiv(CeilDiv(4 * max, 3), 4)

\* The forgiving engine: padding may be missing, but what there is ends the
\* last group, and the bits after the last byte are zero.
Base64Decodes(units) ==
  \E chars \in 0 .. Len(units) :
    /\ \A i \in 1 .. chars : units[i].kind = "char"
    /\ \A i \in chars + 1 .. Len(units) : units[i].kind = "pad"
    /\ chars > 0 => ~units[chars].spills
    /\ chars < Len(units) => (chars % 4) \in {2, 3} /\ (chars % 4) + Len(units) - chars <= 4

Stripped(body) ==
  FlattenSeq([i \in DOMAIN body |->
                IF body[i].kind = "break" THEN <<>> ELSE <<body[i]>>])

Base64(body, max) ==
  LET stripped == Stripped(body)
      kept     == Prefix(stripped, MaxChars(max))
      limited  == Len(stripped) > MaxChars(max)
  IN  IF Base64Decodes(kept) THEN Transferred(BytesIn(kept), limited, FALSE)
      ELSE Transferred(<<>>, limited, TRUE)

-----------------------------------------------------------------------------
(* quoted-printable.                                                       *)

\* Their length in characters.
QpLength(units) ==
  Len(units) + 2 * Cardinality({i \in DOMAIN units : units[i].kind \in {"escape", "soft"}})

\* The library drops a token that is cut.
QpCut(body, length) ==
  Prefix(body,
    Max({n \in 0 .. Len(body) : QpLength(Prefix(body, n)) <= length}))

QpDecode(units, limited) ==
  IF \E i \in DOMAIN units : units[i].kind = "refused" THEN Transferred(<<>>, FALSE, TRUE)
  ELSE Transferred(BytesIn(units), limited, FALSE)

\* Faulty variant: a preview of just max bytes is not decoded again.
QpInconclusiveBelow(preview, max) ==
  preview.limited /\ Len(preview.bytes) < max

\* Soft line breaks decode to nothing, so a short preview tells nothing.
QpInconclusive(preview, max) == preview.limited /\ Len(preview.bytes) <= max

QpWithLimit(body, max) ==
  LET preview == QpDecode(QpCut(body, 4 * max), QpLength(body) > 4 * max)
  IN  IF QpInconclusive(preview, max) THEN QpDecode(body, FALSE) ELSE preview

-----------------------------------------------------------------------------
(* uuencode and the rest.                                                  *)

OfBlock(block) ==
  Transferred(block.data, block.limited,
    block.error # "none" \/ (block.truncated /\ ~block.limited))

DecodeUuencode(body, max) == OfBlock(DecodeLimited(body, max))

Identity(body, max) ==
  Transferred(Prefix(body, max), Len(body) > max, FALSE)

TransferDecode(body, encoding, max) ==
  CASE encoding = "base64"           -> Base64(body, max)
    [] encoding = "quoted-printable" -> QpWithLimit(body, max)
    [] encoding = "x-uuencode"       -> DecodeUuencode(body, max)
    [] OTHER                         -> Identity(body, max)

-----------------------------------------------------------------------------
(* Charset conversion: an incomplete character is replaced.                *)

\* No character has more than 4 bytes, and the mark has 3.
AreOfCharacters(bytes) ==
  \A i \in DOMAIN bytes :
    /\ bytes[i] = [char |-> bytes[i].char, at |-> bytes[i].at, of |-> bytes[i].of]
    /\ bytes[i].of \in 1 .. 4
    /\ bytes[i].at \in 1 .. bytes[i].of
    /\ bytes[i].char = ByteOrderMark => bytes[i].of = 3

Complete(bytes, i) ==
  /\ i + bytes[i].of - 1 <= Len(bytes)
  /\ \A k \in 1 .. bytes[i].of : bytes[i + k - 1] = [bytes[i] EXCEPT !.at = k]

Continues(bytes, i) == i > 1 /\ bytes[i - 1] = [bytes[i] EXCEPT !.at = @ - 1]

CharactersAt(bytes, i) ==
  IF bytes[i].at > 1 /\ Continues(bytes, i) THEN <<>>
  ELSE IF bytes[i].at > 1 \/ ~Complete(bytes, i) THEN <<Replacement>>
  ELSE IF i = 1 /\ bytes[1].char = ByteOrderMark THEN <<>>
  ELSE <<bytes[i].char>>

StartsWithMark(bytes) == Prefix(bytes, 3) = Encoded(ByteOrderMark, 3)

\* In windows-1252, which us-ascii is a label of, every byte is a character.
\* A charset that is absent or unknown is taken for UTF-8, and so is a text
\* that begins with a mark.
Text(bytes, charset) ==
  IF charset \in {"us-ascii", "windows-1252"} /\ ~StartsWithMark(bytes) THEN bytes
  ELSE FlattenSeq([i \in DOMAIN bytes |-> CharactersAt(bytes, i)])

HadErrors(text) == \E i \in DOMAIN text : text[i] = Replacement

-----------------------------------------------------------------------------
InRange(raw, part) == part.offset + part.length <= Len(raw)

InvalidRange ==
  [error |-> "InvalidRange", value |-> <<>>, truncated |-> FALSE,
   problem |-> FALSE]

BodyOf(raw, part) ==
  SubSeq(raw, part.offset + 1, part.offset + part.length)

BodyValue(text, truncated, problem) ==
  [error |-> "none", value |-> text, truncated |-> truncated,
   problem |-> problem \/ HadErrors(text)]

CutAndConverted(decoded, charset, max) ==
  BodyValue(Text(Prefix(decoded.bytes, max), charset),
            Len(decoded.bytes) > max \/ decoded.limited,
            decoded.problem)

DecodeBodyValue(raw, part, max) ==
  IF ~InRange(raw, part) THEN InvalidRange
  ELSE CutAndConverted(TransferDecode(BodyOf(raw, part), part.encoding, max),
                       part.charset, max)

=============================================================================
