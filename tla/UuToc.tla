-------------------------------- MODULE UuToc --------------------------------
(***************************************************************************)
(* uuencoding-multi/src/toc.rs: parse_toc, which reads the table of        *)
(* contents of a series, part 0.                                           *)
(*                                                                         *)
(* A line is a sequence of tokens.  `is' tells them apart:                 *)
(*   "name"   a word; `form' says what is in it                            *)
(*   "range"  01-08                                                        *)
(*   "size"   a number with its unit, in parentheses or not                *)
(*   "parts"  parts 1-8                                                    *)
(*   "hash"   the sign of a comment                                        *)
(***************************************************************************)
EXTENDS Integers, Sequences, SequencesExt, FiniteSetsExt

CONSTANTS
  None,
  MaxSize      \* the largest size, u64::MAX in the source

ASSUME MaxSizeAssumption == MaxSize \in Nat

Name(text, form) == [is |-> "name", text |-> text, form |-> form]
PartRange(lo, hi) == [is |-> "range", lo |-> lo, hi |-> hi]
Size(count, unit, inParens) ==
  [is |-> "size", count |-> count, unit |-> unit, inParens |-> inParens]
PartsToken(lo, hi) == [is |-> "parts", lo |-> lo, hi |-> hi]
Hash == [is |-> "hash"]

\* A path with more than separators, or an extension with a letter.
LooksLikeFilename(token) ==
  token.is = "name" /\ token.form \in {"path", "extension"}

Factor(unit) ==
  CASE unit = "b" -> 1 [] unit = "kb" -> 1024 [] unit = "mb" -> 1024 * 1024

\* Faulty variant: the product wraps around.
ParseSizeWrapping(count, unit) == (count * Factor(unit)) % (MaxSize + 1)

\* A size that does not fit is no size; the line may still count.
ParseSize(count, unit) ==
  IF count * Factor(unit) > MaxSize THEN None ELSE count * Factor(unit)

FirstOf(tokens, kind) ==
  tokens[SelectInSeq(tokens, LAMBDA token : token.is = kind)]

Has(tokens, kind) == \E i \in DOMAIN tokens : tokens[i].is = kind

ExtractSize(tokens) ==
  IF ~Has(tokens, "size") THEN None
  ELSE ParseSize(FirstOf(tokens, "size").count, FirstOf(tokens, "size").unit)

RangeOrNone(token) ==
  IF token.lo <= token.hi THEN <<token.lo, token.hi>> ELSE None

ExtractParts(tokens) ==
  IF Has(tokens, "parts") THEN RangeOrNone(FirstOf(tokens, "parts")) ELSE None

TocEntry(token, size, parts) ==
  [filename |-> token.text, size |-> size, parts |-> parts]

After(line, n) == SubSeq(line, n + 1, Len(line))

\* 01-08 name size; a bad range or name is not tried again as another format.
Format3(line) ==
  IF LooksLikeFilename(line[2]) /\ RangeOrNone(line[1]) # None
  THEN TocEntry(line[2], ExtractSize(After(line, 2)), RangeOrNone(line[1]))
  ELSE None

\* name (size); a number too long to read makes it no entry at all.
Format2(line) ==
  IF LooksLikeFilename(line[1]) /\ line[2].count <= MaxSize
  THEN TocEntry(line[1], ParseSize(line[2].count, line[2].unit), None)
  ELSE None

\* name, and a size or a range of parts in any order.
Format1(line) ==
  LET size  == ExtractSize(After(line, 1))
      parts == ExtractParts(After(line, 1))
  IN  IF LooksLikeFilename(line[1]) /\ ~(size = None /\ parts = None)
      THEN TocEntry(line[1], size, parts)
      ELSE None

ParseLine(line) ==
  IF line = <<>> \/ Len(line) = 1 \/ line[1].is = "hash" THEN None
  ELSE IF line[1].is = "range" THEN Format3(line)
  ELSE IF Len(line) = 2 /\ line[2].is = "size" /\ line[2].inParens
  THEN Format2(line)
  ELSE Format1(line)

\* Lines that are no entry are left out.
ParseToc(body) ==
  LET entries == FlattenSeq([i \in DOMAIN body |->
                               IF ParseLine(body[i]) = None THEN <<>>
                               ELSE <<ParseLine(body[i])>>])
  IN  IF entries = <<>> THEN None ELSE entries

=============================================================================
