------------------------------- MODULE UuCodec -------------------------------
(***************************************************************************)
(* The byte level of uuencoding: encode (uuencoding/src/encode.rs), what   *)
(* mail transports do to its lines, and decode_line (decode.rs) fed line   *)
(* by line until the terminator.  A byte is a number in 0 .. 255; lines    *)
(* are without their line feed.  The begin line is left out.               *)
(***************************************************************************)
EXTENDS Integers, Sequences, SequencesExt, FiniteSetsExt

CONSTANTS
  Data,      \* the byte sequences to encode
  MaxLine    \* bytes per line, 45 in the source

ASSUME MaxLineAssumption == MaxLine \in 1 .. 63

ASSUME DataAssumption == \A d \in Data : d \in Seq(0 .. 255)

SPACE == 32
BACKTICK == 96
CR == 13
GARBAGE == 126   \* a character that is no UU character

End == <<101, 110, 100>>

VARIABLES
  phase,     \* "encode", "transport", "decode", "done"
  data,      \* the bytes to encode
  next,      \* encode: index of the next byte; decode: of the next line
  lines,     \* the encoded lines
  decoded,   \* the decoder's data
  complete,  \* ~is_truncated
  carrier    \* what the transport did

uuVars == <<phase, data, next, lines, decoded, complete, carrier>>

-----------------------------------------------------------------------------
(* encode.                                                                 *)

\* Faulty variant: zero is written as a space.
EncodeCharSpace(v) == v + 32

EncodeChar(v) == IF v = 0 THEN BACKTICK ELSE v + 32

ByteOr0(chunk, i) == IF i <= Len(chunk) THEN chunk[i] ELSE 0

EncodeTriple(b0, b1, b2) ==
  <<EncodeChar(b0 \div 4),
    EncodeChar((b0 % 4) * 16 + b1 \div 16),
    EncodeChar((b1 % 16) * 4 + b2 \div 64),
    EncodeChar(b2 % 64)>>

EncodeChunk(chunk) ==
  <<Len(chunk) + 32>> \o
    FlattenSeq([g \in 1 .. (Len(chunk) + 2) \div 3 |->
                  EncodeTriple(chunk[3 * g - 2], ByteOr0(chunk, 3 * g - 1),
                               ByteOr0(chunk, 3 * g))])

ChunkEnd == IF next + MaxLine - 1 < Len(data) THEN next + MaxLine - 1 ELSE Len(data)

EncodeLine ==
  /\ phase = "encode"
  /\ next <= Len(data)
  /\ lines' = Append(lines, EncodeChunk(SubSeq(data, next, ChunkEnd)))
  /\ next' = ChunkEnd + 1
  /\ UNCHANGED <<phase, data, decoded, complete, carrier>>

EncodeEnd ==
  /\ phase = "encode"
  /\ next > Len(data)
  /\ lines' = lines \o <<<<BACKTICK>>, End>>
  /\ phase' = "transport"
  /\ UNCHANGED <<data, next, decoded, complete, carrier>>

-----------------------------------------------------------------------------
(* The transport, and the habits of other encoders.                        *)

Spaced(line) == [i \in DOMAIN line |-> IF line[i] = BACKTICK THEN SPACE ELSE line[i]]

Trimmed(line) ==
  SubSeq(line, 1, SelectLastInSeq(line, LAMBDA c : c # SPACE))

Carry(how, Change(_)) ==
  /\ phase = "transport"
  /\ carrier' = how
  /\ lines' = [i \in DOMAIN lines |->
                 IF lines[i] = End THEN End ELSE Change(lines[i])]
  /\ next' = 1
  /\ phase' = "decode"
  /\ UNCHANGED <<data, decoded, complete>>

Transport ==
  \/ Carry("as is", LAMBDA line : line)
  \/ Carry("spaces", Spaced)
  \/ Carry("trimmed", LAMBDA line : Trimmed(Spaced(line)))
  \/ Carry("garbage", LAMBDA line : Append(line, GARBAGE))
  \/ Carry("crlf", LAMBDA line : Append(line, CR))

-----------------------------------------------------------------------------
(* decode_line.                                                            *)

\* A short line is padded with spaces; characters after the last group are
\* not looked at.
CharOrSpace(payload, needed, i) ==
  IF i <= Len(payload) /\ i <= needed THEN payload[i] ELSE SPACE

IsUuChar(c) == c \in 32 .. 96
Value(c) == IF c = BACKTICK THEN 0 ELSE c - 32

DecodeGroup(a, b, c, d) ==
  <<(a * 4 + b \div 16) % 256, (b * 16 + c \div 4) % 256, (c * 64 + d) % 256>>

\* Ok(n) with n = count, or an error; bytes are what was pushed before.
DecodePayload(payload, n) ==
  LET groups   == (n + 2) \div 3
      needed   == groups * 4
      Char(g, k) == CharOrSpace(payload, needed, 4 * (g - 1) + k)
      bad      == {g \in 1 .. groups : \E k \in 1 .. 4 : ~IsUuChar(Char(g, k))}
      sound    == IF bad = {} THEN groups ELSE Min(bad) - 1
      bytes    == FlattenSeq([g \in 1 .. sound |->
                    DecodeGroup(Value(Char(g, 1)), Value(Char(g, 2)),
                                Value(Char(g, 3)), Value(Char(g, 4)))])
  IN  [ok |-> bad = {}, count |-> n,
       bytes |-> SubSeq(bytes, 1, IF n < Len(bytes) THEN n ELSE Len(bytes))]

StripCr(line) ==
  IF line # <<>> /\ line[Len(line)] = CR THEN SubSeq(line, 1, Len(line) - 1) ELSE line

DecodeLine(raw) ==
  LET line == StripCr(raw) IN
    IF line = <<>> THEN [ok |-> TRUE, count |-> 0, bytes |-> <<>>]
    ELSE IF line[1] \in {SPACE, BACKTICK}
      THEN [ok |-> TRUE, count |-> 0, bytes |-> <<>>]
    ELSE IF line[1] \notin 33 .. 95
      THEN [ok |-> FALSE, count |-> 0, bytes |-> <<>>]
    ELSE DecodePayload(Tail(line), line[1] - 32)

DecodeNextLine ==
  /\ phase = "decode"
  /\ next <= Len(lines)
  /\ \E result \in {DecodeLine(lines[next])} :
       /\ decoded' = decoded \o result.bytes
       /\ IF result.ok /\ result.count > 0
          THEN next' = next + 1 /\ UNCHANGED <<phase, complete>>
          ELSE /\ phase' = "done"
               /\ complete' = /\ result.ok
                              /\ next < Len(lines)
                              /\ StripCr(lines[next + 1]) = End
               /\ UNCHANGED next
  /\ UNCHANGED <<data, lines, carrier>>

UuInit ==
  /\ phase = "encode"
  /\ data \in Data
  /\ next = 1
  /\ lines = <<>>
  /\ decoded = <<>>
  /\ complete = FALSE
  /\ carrier = "none"

UuNext == EncodeLine \/ EncodeEnd \/ Transport \/ DecodeNextLine

UuSpec == UuInit /\ [][UuNext]_uuVars

-----------------------------------------------------------------------------
(* Properties.                                                             *)

\* Whatever the mail system does to backticks, trailing spaces, line ends or
\* the end of a line, the block decodes completely to the bytes encoded
\* (encode.rs:26-67, decode.rs:206-301).
RoundTrip == phase = "done" => decoded = data /\ complete

\* No encoded line ends in a character a mail relay strips, and every data
\* line has a length byte that is no terminator (encode.rs:1-12, 36-38).
NothingToStrip ==
  phase = "transport" =>
    \A i \in DOMAIN lines :
      /\ \A j \in DOMAIN lines[i] : lines[i][j] # SPACE
      /\ i < Len(lines) - 1 => DecodeLine(lines[i]).count > 0

=============================================================================
