------------------------------ MODULE YencDecode ------------------------------
(***************************************************************************)
(* yencoding/src/decode.rs: what decode() makes of an article, seen as a   *)
(* sequence of lines.                                                      *)
(*                                                                         *)
(* A line is a record.  `kind' is the keyword that strip_keyword finds at  *)
(* its start: "=ybegin ", "=ypart ", "=yend " (each with its space), the   *)
(* bare "=yend" that decode() does not accept as a keyword, or "data" for  *)
(* every other line, prose included.  `fields' is what YencHeader reads    *)
(* from the payload behind the keyword.  `bytes' is what decode_line turns *)
(* the line into, which for a header line inside the data region is        *)
(* rubbish, but some rubbish.  The bytes themselves, escapes and           *)
(* dot-stuffing are in YencCodec.                                          *)
(***************************************************************************)
EXTENDS YencHeader

CONSTANT
  Crc32(_)    \* the CRC-32 of a byte sequence

Errors == {"NoHeader", "InvalidHeader", "UnexpectedEof", "CrcMismatch", "SizeMismatch"}

ASSUME NoneAssumption == None \notin Errors

Failed(error) ==
  [error |-> error, data |-> <<>>, name |-> None, size |-> None, total |-> None,
   part |-> None, begin |-> None, end |-> None, verified |-> FALSE,
   wholeCrc |-> None]

\* Positions at or after `from' of the lines of a kind.
LinesOf(article, kind, from) ==
  {i \in from .. Len(article) : article[i].kind = kind}

Line(kind, fields, bytes) ==
  [kind |-> kind, fields |-> fields, bytes |-> bytes]

Ybegin(payload, bytes) == Line("ybegin", ParseYbegin(payload), bytes)
Ypart(payload, bytes) == Line("ypart", ParseYpart(payload), bytes)
Yend(payload, bytes) == Line("yend", ParseYend(payload), bytes)
DataLine(bytes) == Line("data", None, bytes)

-----------------------------------------------------------------------------
(* finish_decode: the checks on the payload, in order.                     *)

\* Faulty variant: the CRC of a multi-part article is not checked.
CrcToCheckSingle(ybegin, yend) ==
  IF ybegin.part # None THEN None ELSE yend.crc32

\* A multi-part article is checked against pcrc32=, any other against crc32=.
CrcToCheck(ybegin, yend) ==
  IF ybegin.part # None THEN yend.pcrc32 ELSE yend.crc32

DecodedPart(data, ybegin, ypart, yend) ==
  [error |-> None, data |-> data, name |-> ybegin.name, size |-> ybegin.size,
   total |-> ybegin.total, part |-> ybegin.part, begin |-> ypart.begin,
   end |-> ypart.end, verified |-> CrcToCheck(ybegin, yend) # None,
   wholeCrc |-> yend.crc32]

\* Faulty variant: the =ybegin size is compared on multi-part articles too.
FinishDecodeTotalSize(data, ybegin, ypart, yend) ==
  IF Len(data) # ybegin.size THEN Failed("SizeMismatch")
  ELSE DecodedPart(data, ybegin, ypart, yend)

FinishDecode(data, ybegin, ypart, yend) ==
  LET crc == CrcToCheck(ybegin, yend) IN
  IF ~yend.parses THEN Failed("InvalidHeader")
  ELSE IF crc # None /\ Crc32(data) # crc THEN Failed("CrcMismatch")
  ELSE IF yend.size # None /\ Len(data) # yend.size THEN Failed("SizeMismatch")
  ELSE IF ybegin.part = None /\ Len(data) # ybegin.size
       THEN Failed("SizeMismatch")
  ELSE DecodedPart(data, ybegin, ypart, yend)

-----------------------------------------------------------------------------
(* decode: the three steps, each a search for the first line of a kind.    *)

NoYpart == ParseYpart(<<>>)

\* The data region starts after the =ybegin line, or after a =ypart line that
\* directly follows it.
DataStart(article, b) == IF article[b + 1].kind = "ypart" THEN b + 2 ELSE b + 1

DataBetween(article, first, end) ==
  FlattenSeq([i \in 1 .. end - first |-> article[first + i - 1].bytes])

DecodeAt(article, b) ==
  LET ybegin == article[b].fields
      first  == DataStart(article, b)
      ypart  == IF first = b + 2 THEN article[b + 1].fields ELSE NoYpart
      yends  == LinesOf(article, "yend", first)
  IN
  IF ~ybegin.parses \/ ybegin.name = None \/ ybegin.size = None
    THEN Failed("InvalidHeader")
  ELSE IF b = Len(article) THEN Failed("UnexpectedEof")
  ELSE IF ~ypart.parses THEN Failed("InvalidHeader")
  ELSE IF yends = {} THEN Failed("UnexpectedEof")
  ELSE FinishDecode(DataBetween(article, first, Min(yends)), ybegin, ypart,
                    article[Min(yends)].fields)

Decode(article) ==
  LET begins == LinesOf(article, "ybegin", 1)
  IN  IF begins = {} THEN Failed("NoHeader") ELSE DecodeAt(article, Min(begins))

-----------------------------------------------------------------------------
(* encode and encode_part: the articles this crate writes.  The body is    *)
(* the given lines of bytes; YencCodec shows how encode_body makes them.   *)

\* The name is written as it is, words that look like fields included.
Encode(data, body, name, rubbish) ==
  <<Ybegin(<<Field("line", 128), Field("size", Len(data))>> \o name, rubbish)>>
  \o body
  \o <<Yend(<<Field("size", Len(data)), Field("crc32", Crc32(data))>>, rubbish)>>

EncodePart(data, body, name, size, total, part, begin, end, wholeCrc, rubbish) ==
  <<Ybegin(<<Field("part", part), Field("total", total), Field("line", 128),
             Field("size", size)>> \o name, rubbish),
    Ypart(<<Field("begin", begin), Field("end", end)>>, rubbish)>>
  \o body
  \o <<Yend(<<Field("size", Len(data)), Field("part", part),
              Field("pcrc32", Crc32(data)), Field("crc32", wholeCrc)>>, rubbish)>>

=============================================================================
