------------------------------- MODULE UuDecode -------------------------------
(***************************************************************************)
(* uuencoding/src/decode.rs: what decode_limited() makes of its input, a   *)
(* sequence of lines.                                                      *)
(*                                                                         *)
(* A line is a record.  `kind' is what the decoders can tell about it:     *)
(*   "begin"      begin <mode> <name>, mode readable, in any case          *)
(*   "beginBad"   a begin line whose mode is not UTF-8                     *)
(*   "beginDash"  begin-something, but not begin-base64                    *)
(*   "begin64"    begin-base64                                             *)
(*   "BEGIN", "BEGINBAD", "BEGINDASH", "BEGIN64"                           *)
(*                the same, written so that it also reads as a data line,  *)
(*                as BEGIN 644 NAME does                                   *)
(*   "blank"      no character at all                                      *)
(*   "zero"       ` or a space first: zero bytes follow                    *)
(*   "data"       a data line                                              *)
(*   "rule"       four equals signs, which also read as a data line        *)
(*   "end"        end, and "END" the same, which reads as a data line      *)
(*   "broken"     anything else: a group of it does not decode             *)
(* `bytes' are the bytes decode_line appends to its output; for a line     *)
(* that does not decode those of the groups before the bad one, as there   *)
(* are in BEGIN 644 name.  UuCodec has the bytes.                          *)
(***************************************************************************)
EXTENDS Integers, Sequences, SequencesExt, FiniteSetsExt

CONSTANT Unlimited   \* usize::MAX, the limit of decode() and of a scan

ASSUME UnlimitedAssumption == Unlimited \in Nat

\* begin and end are matched without regard to case.
StandardBegins == {"begin", "BEGIN"}
MalformedBegins == {"beginBad", "BEGINBAD"}
Base64Begins == {"begin64", "BEGIN64"}
BeginKinds ==
  StandardBegins \cup MalformedBegins \cup Base64Begins \cup {"beginDash", "BEGINDASH"}
EndKinds == {"end", "END"}

\* decode_line is not asked whether a line is one of these, and takes them for data.
CapitalKinds == {"BEGIN", "BEGINBAD", "BEGINDASH", "BEGIN64", "END"}

\* What decode_line returns: Ok(n > 0), Ok(0) or an error.
DecodesToBytes(line) == line.kind \in {"data", "rule"} \cup CapitalKinds
DecodesToZero(line) == line.kind \in {"blank", "zero"}
Undecodable(line) == ~DecodesToBytes(line) /\ ~DecodesToZero(line)

BytesOf(input, first, last) ==
  FlattenSeq([i \in 1 .. last - first + 1 |-> input[first + i - 1].bytes])

\* An input of the decoders.  Blank lines and zero-length ones have no bytes, and
\* no input decodes to more of them than fit in memory.
IsText(text) ==
  /\ text \in Seq(Range(text))
  /\ \A i \in DOMAIN text :
       /\ text[i].bytes \in Seq(0 .. 255)
       /\ DecodesToZero(text[i]) => text[i].bytes = <<>>
  /\ Len(BytesOf(text, 1, Len(text))) <= Unlimited

UuError(error) ==
  [error |-> error, data |-> <<>>, truncated |-> FALSE, limited |-> FALSE]

\* Faulty variant: the loop stops when exactly max bytes have been produced.
StopsEarly(input, first, max) ==
  {i \in first .. Len(input) :
     \/ Len(BytesOf(input, first, i - 1)) >= max
     \/ ~DecodesToBytes(input[i])}

\* The lines at which the loop over the data lines stops: the limit has been
\* passed, or the line does not decode to bytes.
Stops(input, first, max) ==
  {i \in first .. Len(input) :
     \/ Len(BytesOf(input, first, i - 1)) > max
     \/ ~DecodesToBytes(input[i])}

\* The look-ahead after the terminator: blank lines, then end.
EndsAfter(input, stop) ==
  \E e \in stop + 1 .. Len(input) :
    /\ input[e].kind \in EndKinds
    /\ \A i \in stop + 1 .. e - 1 : input[i].kind = "blank"

DecodeFrom(input, begin, max) ==
  LET first  == begin + 1
      stops  == Stops(input, first, max)
      stop   == IF stops = {} THEN Len(input) + 1 ELSE Min(stops)
      before == BytesOf(input, first, stop - 1)
      passed == Len(before) > max
      out    == IF stops # {} /\ ~passed /\ Undecodable(input[stop])
                THEN before \o input[stop].bytes ELSE before
      over   == Len(out) > max
      ended  == /\ stops # {} /\ ~passed
                /\ DecodesToZero(input[stop])
                /\ EndsAfter(input, stop)
  IN  [error     |-> "none",
       data      |-> IF over THEN SubSeq(out, 1, max) ELSE out,
       truncated |-> ~ended \/ over,
       limited   |-> over]

DecodeLimited(input, max) ==
  LET begins == {i \in DOMAIN input : input[i].kind \in BeginKinds}
  IN  IF begins = {} THEN UuError("InvalidBeginLine")
      ELSE IF input[Min(begins)].kind \in Base64Begins THEN UuError("BeginBase64")
      ELSE DecodeFrom(input, Min(begins), max)

=============================================================================
