------------------------------ MODULE YencCodec ------------------------------
(***************************************************************************)
(* The byte level of yEnc: encode_body (yencoding/src/encode.rs), what a   *)
(* transport may do to its lines, and decode_line (yencoding/src/decode.rs)*)
(* fed line by line with the pending escape carried across line ends.      *)
(*                                                                         *)
(* A byte is a number in 0 .. 255 and arithmetic wraps, as in the source.  *)
(* A line keeps its CR LF: decode_line receives it and discards it.        *)
(***************************************************************************)
EXTENDS Integers, Sequences, SequencesExt

CONSTANTS
  Data,          \* the byte sequences to encode
  LineLengths,   \* the line_length arguments, 0 .. 255
  SliceWidths    \* widths at which a re-wrapping encoder slices its output

NUL == 0
TAB == 9
LF == 10
CR == 13
DOT == 46
EQUALS == 61

LineEnd == <<CR, LF>>

Framing == {CR, LF, NUL}

VARIABLES
  phase,        \* "encode", "transport", "decode", "done"
  data,         \* the bytes to encode
  lineLength,   \* encode_body's line_length
  next,         \* encode: index of the next byte; decode: of the next line
  lines,        \* the finished lines
  current,      \* encode: the line being written, `col' is its length
  decoded,      \* decode: out
  pending,      \* decode: pending_escape
  carrier       \* what the transport did: "as is", "stuffed", "sliced"

vars == <<phase, data, lineLength, next, lines, current, decoded, pending,
          carrier>>

-----------------------------------------------------------------------------
(* encode_body                                                             *)

Encoded(byte) == (byte + 42) % 256

MustEscape(encoded, col) ==
  \/ encoded \in {NUL, LF, CR, EQUALS}
  \/ col = 0 /\ encoded \in {DOT, TAB}

EscapePair(encoded) == <<EQUALS, (encoded + 64) % 256>>

\* Faulty variant: a pair needs room for one byte only.
FlushBeforeLate(encoded) ==
  MustEscape(encoded, Len(current)) /\ Len(current) + 1 > lineLength

\* A pair that no longer fits goes to a new line.
FlushBefore(encoded) ==
  MustEscape(encoded, Len(current)) /\ Len(current) + 2 > lineLength

Emit(symbol, line, done) ==
  LET longer == line \o symbol IN
    IF Len(longer) >= lineLength
    THEN lines' = Append(done, longer \o LineEnd) /\ current' = <<>>
    ELSE lines' = done /\ current' = longer

EncodeByte ==
  /\ phase = "encode"
  /\ next <= Len(data)
  /\ LET e      == Encoded(data[next])
         symbol == IF MustEscape(e, Len(current)) THEN EscapePair(e) ELSE <<e>>
     IN  IF FlushBefore(e)
         THEN Emit(symbol, <<>>, Append(lines, current \o LineEnd))
         ELSE Emit(symbol, current, lines)
  /\ next' = next + 1
  /\ UNCHANGED <<phase, data, lineLength, decoded, pending, carrier>>

EncodeEnd ==
  /\ phase = "encode"
  /\ next > Len(data)
  /\ lines' = IF current = <<>> THEN lines ELSE Append(lines, current \o LineEnd)
  /\ current' = <<>>
  /\ phase' = "transport"
  /\ UNCHANGED <<data, lineLength, next, decoded, pending, carrier>>

-----------------------------------------------------------------------------
(* The transport.                                                          *)

Payload(line) == SubSeq(line, 1, Len(line) - 2)

\* NNTP doubles a dot at the start of a line.
Stuff(line) == IF line[1] = DOT THEN <<DOT>> \o line ELSE line

\* An encoder that slices the encoded stream every `width' bytes.
Slices(width) ==
  LET stream == FlattenSeq([i \in DOMAIN lines |-> Payload(lines[i])])
      count  == (Len(stream) + width - 1) \div width
  IN  [i \in 1 .. count |->
         SubSeq(stream, (i - 1) * width + 1,
                IF i * width <= Len(stream) THEN i * width ELSE Len(stream))
         \o LineEnd]

Carry(how, carried) ==
  /\ phase = "transport"
  /\ carrier' = how
  /\ lines' = carried
  /\ phase' = "decode"
  /\ next' = 1
  /\ UNCHANGED <<data, lineLength, current, decoded, pending>>

Transport ==
  \/ Carry("as is", lines)
  \/ Carry("stuffed", [i \in DOMAIN lines |-> Stuff(lines[i])])
  \/ \E width \in SliceWidths :
       LET sliced == Slices(width) IN
         Carry("sliced", [i \in DOMAIN sliced |-> Stuff(sliced[i])])

-----------------------------------------------------------------------------
(* decode_line                                                             *)

StripDot(line) ==
  IF Len(line) >= 2 /\ line[1] = DOT /\ line[2] = DOT THEN Tail(line) ELSE line

\* The bytes after the leading framing bytes.
SkipFraming(line) ==
  LET first == SelectInSeq(line, LAMBDA b : b \notin Framing)
  IN  IF first = 0 THEN <<>> ELSE SubSeq(line, first, Len(line))

\* The loop over the bytes of a line.  `skip' tells that the byte at hand is
\* the second of an escape pair.
DecodeBytes(line, out) ==
  LET loop[i \in 0 .. Len(line)] ==
        LET st == loop[i - 1] IN
          IF i = 0 THEN [out |-> out, pending |-> FALSE, skip |-> FALSE]
          ELSE IF st.skip THEN [st EXCEPT !.skip = FALSE]
          ELSE IF line[i] \in Framing THEN st
          ELSE IF line[i] # EQUALS
            THEN [st EXCEPT !.out = Append(@, (line[i] - 42) % 256)]
          ELSE IF i < Len(line) /\ line[i + 1] \notin Framing
            THEN [st EXCEPT !.out = Append(@, (line[i + 1] - 106) % 256),
                            !.skip = TRUE]
          ELSE [st EXCEPT !.pending = TRUE]
  IN  loop[Len(line)]

\* Faulty variant: an escape left open by the previous line is forgotten.
DecodeLineForgets(line, out, escape) == DecodeBytes(StripDot(line), out)

DecodeLine(line, out, escape) ==
  LET stripped == StripDot(line)
      rest     == SkipFraming(stripped)
  IN  IF ~escape THEN DecodeBytes(stripped, out)
      ELSE IF rest = <<>> THEN DecodeBytes(rest, out)
      ELSE DecodeBytes(Tail(rest), Append(out, (rest[1] - 106) % 256))

DecodeNextLine ==
  /\ phase = "decode"
  /\ next <= Len(lines)
  /\ LET result == DecodeLine(lines[next], decoded, pending) IN
       /\ decoded' = result.out
       /\ pending' = result.pending
  /\ next' = next + 1
  /\ UNCHANGED <<phase, data, lineLength, lines, current, carrier>>

DecodeEnd ==
  /\ phase = "decode"
  /\ next > Len(lines)
  /\ phase' = "done"
  /\ UNCHANGED <<data, lineLength, next, lines, current, decoded, pending, carrier>>

\* encode() and encode_part() raise line lengths below 2 to 2.
Clamped(length) == IF length < 2 THEN 2 ELSE length

Init ==
  /\ phase = "encode"
  /\ data \in Data
  /\ \E length \in LineLengths : lineLength = Clamped(length)
  /\ next = 1
  /\ lines = <<>>
  /\ current = <<>>
  /\ decoded = <<>>
  /\ pending = FALSE
  /\ carrier = "none"

Next == EncodeByte \/ EncodeEnd \/ Transport \/ DecodeNextLine \/ DecodeEnd

Spec == Init /\ [][Next]_vars

-----------------------------------------------------------------------------
(* Properties.                                                             *)

\* Decoding gives back the bytes that were encoded, also when a transport
\* doubles leading dots or the stream was sliced through its escape pairs
\* (decode.rs:216-233), and no escape is left waiting for its second byte.
RoundTrip == phase = "done" => decoded = data /\ ~pending

\* encode_body's lines are safe on the wire: none exceeds the line length
\* although an escape pair is never split, none contains a raw NUL, CR or LF,
\* and none starts with a dot or a tab or ends inside an escape pair
\* (encode.rs:128-160).
WireSafe ==
  phase = "transport" =>
    \A i \in DOMAIN lines :
      LET payload == Payload(lines[i]) IN
        /\ Len(payload) \in 1 .. lineLength
        /\ \A j \in DOMAIN payload : payload[j] \notin Framing
        /\ payload[1] \notin {DOT, TAB}
        /\ payload[Len(payload)] # EQUALS

=============================================================================
