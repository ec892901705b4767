---------------------------- MODULE MCYencPosting ----------------------------
(***************************************************************************)
(* YencPosting for TLC: a file of 4 different bytes in 2 parts.  The CRC   *)
(* is the number the bytes spell after a leading 1, so that it detects     *)
(* every change: the runs ask what the protocol does with a CRC that works.*)
(***************************************************************************)
EXTENDS YencPosting

FourBytes == <<1, 2, 3, 4>>
TwoHalves == <<2, 4>>

PlainName == <<Yenc!Field("name", "f")>>

\* "f part=x": a word of the name looks like a field that does not parse.
FieldInName ==
  PlainName \o <<[Yenc!Field("part", "x") EXCEPT !.parses = FALSE]>>

\* With whole-file CRCs anything may be lost; with part CRCs alone, offsets
\* are kept.
TwoSetups ==
  {[name |-> PlainName, wholeCrc |-> TRUE, partCrc |-> TRUE,
    losesOffsets |-> TRUE],
   [name |-> FieldInName, wholeCrc |-> FALSE, partCrc |-> TRUE,
    losesOffsets |-> FALSE]}

Digits(buf) ==
  LET digits[n \in 0 .. Cardinality(DOMAIN buf)] ==
        IF n = 0 THEN 1 ELSE 5 * digits[n - 1] + buf[n - 1]
  IN  digits[Cardinality(DOMAIN buf)]

\* The buffer is evaluated once.
Spelled(buf) == CHOOSE n \in {Digits(b) : b \in {buf}} : TRUE

\* Every value Spelled takes on at most 4 bytes.
Spellings == 0 .. 5^5 - 1

\* The hypothesis of the theorems about what the client gets.
ASSUME HypothesisHolds == CrcTells

\* Begin and Deliver call the assembler with arguments of their own.
NoSizes == {}
NoParts == {}
=============================================================================
