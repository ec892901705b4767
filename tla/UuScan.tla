-------------------------------- MODULE UuScan --------------------------------
(***************************************************************************)
(* uuencoding/src/scan.rs: scan_impl walks its input once, line by line,   *)
(* and collects the UU blocks in it.  One action is one line in one of the *)
(* three loops: between blocks, in a begin-base64 region, in a block.      *)
(* Offsets count lines: every offset of the source is a line start.        *)
(***************************************************************************)
EXTENDS UuDecode

CONSTANT Inputs   \* the inputs to scan, sequences of lines

ASSUME InputsAssumption == \A text \in Inputs : IsText(text)

VARIABLES
  input,          \* the lines scanned
  phase,          \* "outer", "base64", "block", "done"
  pos,            \* how many lines have been passed (pos, scan_pos)
  begin,          \* begin_offset of the block at hand
  data,           \* its bytes so far
  sawTerminator,  \* its zero-length line has been seen
  results         \* the vector of results

vars == <<input, phase, pos, begin, data, sawTerminator, results>>

Line == input[pos + 1]
HasLine == pos < Len(input)

BlockFields == <<begin, data, sawTerminator>>

ErrAt(error, offset) ==
  [kind |-> error, begin |-> offset, end |-> offset, data |-> <<>>,
   truncated |-> FALSE]

OkBlock(end, bytes, truncated) ==
  [kind |-> "block", begin |-> begin, end |-> end, data |-> bytes,
   truncated |-> truncated]

-----------------------------------------------------------------------------
(* scan_impl: between blocks.                                              *)

Outer == phase = "outer" /\ HasLine

\* What try_parse_begin_line calls NotBegin includes "beginDash".
SkipLine ==
  /\ Outer
  /\ Line.kind \notin StandardBegins \cup MalformedBegins \cup Base64Begins
  /\ pos' = pos + 1
  /\ UNCHANGED <<input, phase, BlockFields, results>>

MalformedBegin ==
  /\ Outer
  /\ Line.kind \in MalformedBegins
  /\ results' = Append(results, ErrAt("InvalidBeginLine", pos))
  /\ pos' = pos + 1
  /\ UNCHANGED <<input, phase, BlockFields>>

EnterBase64 ==
  /\ Outer
  /\ Line.kind \in Base64Begins
  /\ results' = Append(results, ErrAt("BeginBase64", pos))
  /\ pos' = pos + 1
  /\ phase' = "base64"
  /\ UNCHANGED <<input, BlockFields>>

EnterBlock ==
  /\ Outer
  /\ Line.kind \in StandardBegins
  /\ begin' = pos
  /\ data' = <<>>
  /\ sawTerminator' = FALSE
  /\ pos' = pos + 1
  /\ phase' = "block"
  /\ UNCHANGED <<input, results>>

ScanDone ==
  /\ phase = "outer"
  /\ ~HasLine
  /\ phase' = "done"
  /\ UNCHANGED <<input, pos, BlockFields, results>>

-----------------------------------------------------------------------------
(* handle_base64_block: everything up to a line of four equals signs or    *)
(* the end is passed over.                                                 *)

\* Faulty variant: the end of the input does not end the region.
SkipBase64ForEver ==
  /\ phase = "base64"
  /\ HasLine
  /\ pos' = pos + 1
  /\ phase' = IF Line.kind = "rule" THEN "outer" ELSE "base64"
  /\ UNCHANGED <<input, BlockFields, results>>

SkipBase64 ==
  /\ phase = "base64"
  /\ IF HasLine
     THEN /\ pos' = pos + 1
          /\ phase' = IF Line.kind = "rule" THEN "outer" ELSE "base64"
     ELSE /\ phase' = "outer"
          /\ UNCHANGED pos
  /\ UNCHANGED <<input, BlockFields, results>>

-----------------------------------------------------------------------------
(* handle_standard_block: one turn of its loop.                            *)

InBlock == phase = "block" /\ HasLine

LeaveBlock(end, bytes, truncated) ==
  /\ results' = Append(results, OkBlock(end, bytes, truncated))
  /\ pos' = end
  /\ phase' = "outer"
  /\ UNCHANGED <<input, BlockFields>>

EndsBlock == sawTerminator /\ Line.kind \in EndKinds

EndLine ==
  /\ InBlock
  /\ EndsBlock
  /\ LeaveBlock(pos + 1, data, FALSE)

Terminator ==
  /\ InBlock
  /\ ~sawTerminator
  /\ DecodesToZero(Line)
  /\ sawTerminator' = TRUE
  /\ pos' = pos + 1
  /\ UNCHANGED <<input, phase, begin, data, results>>

BlankAfterTerminator ==
  /\ InBlock
  /\ sawTerminator
  /\ Line.kind = "blank"
  /\ pos' = pos + 1
  /\ UNCHANGED <<input, phase, BlockFields, results>>

SecondTerminator ==
  /\ InBlock
  /\ sawTerminator
  /\ Line.kind = "zero"
  /\ LeaveBlock(pos, data, TRUE)

DataLine ==
  /\ InBlock
  /\ ~sawTerminator
  /\ DecodesToBytes(Line)
  /\ data' = data \o Line.bytes
  /\ pos' = pos + 1
  /\ UNCHANGED <<input, phase, begin, sawTerminator, results>>

\* Faulty variant: the bytes after the terminator are kept.
DataAfterTerminatorKept ==
  /\ InBlock
  /\ sawTerminator
  /\ ~EndsBlock
  /\ DecodesToBytes(Line)
  /\ LeaveBlock(pos, data \o Line.bytes, TRUE)

\* The bytes just decoded are discarded.
DataAfterTerminator ==
  /\ InBlock
  /\ sawTerminator
  /\ ~EndsBlock
  /\ DecodesToBytes(Line)
  /\ LeaveBlock(pos, data, TRUE)

\* Faulty variant: a bad line drops the rest of the input.
BadLineToEnd ==
  /\ InBlock
  /\ Undecodable(Line)
  /\ ~EndsBlock
  /\ LeaveBlock(Len(input), data \o Line.bytes, TRUE)

\* The block ends after the bad line, and keeps what that line decoded to.
BadLine ==
  /\ InBlock
  /\ Undecodable(Line)
  /\ ~EndsBlock
  /\ LeaveBlock(pos + 1, data \o Line.bytes, TRUE)

EndOfInput ==
  /\ phase = "block"
  /\ ~HasLine
  /\ LeaveBlock(Len(input), data, TRUE)

BlockNext ==
  \/ EndLine
  \/ Terminator
  \/ BlankAfterTerminator
  \/ SecondTerminator
  \/ DataLine
  \/ DataAfterTerminator
  \/ BadLine
  \/ EndOfInput

ScanNext ==
  \/ SkipLine
  \/ MalformedBegin
  \/ EnterBase64
  \/ SkipBase64
  \/ EnterBlock
  \/ BlockNext
  \/ ScanDone

ScanInit ==
  /\ phase = "outer"
  /\ pos = 0
  /\ begin = 0
  /\ data = <<>>
  /\ sawTerminator = FALSE
  /\ results = <<>>

Init == input \in Inputs /\ ScanInit

Spec == Init /\ [][ScanNext]_vars

-----------------------------------------------------------------------------
(* Properties.                                                             *)

Blocks == {r \in DOMAIN results : results[r].kind = "block"}

\* decode() from the begin line of a result on.
Decoded(r) ==
  DecodeLimited(SubSeq(input, r.begin + 1, Len(input)), Unlimited)

\* scan and decode() agree on whether a block is complete and on its bytes;
\* only the first bytes of the line at which scan stopped, which does not decode,
\* may come on top (scan.rs:255-305).
AgreesWithDecode ==
  \A r \in Blocks :
    \A d \in {Decoded(results[r])} :
      /\ d.error = "none"
      /\ d.truncated = results[r].truncated
      /\ \/ d.data = results[r].data
         \/ /\ Undecodable(input[results[r].end])
            /\ results[r].data = d.data \o input[results[r].end].bytes

\* Line i (0-based) begins a complete block.
CompleteAt(i) ==
  /\ input[i + 1].kind \in StandardBegins
  /\ ~DecodeFrom(input, i + 1, Unlimited).truncated

\* Lines a begin-base64 region takes up.
InBase64(i) ==
  \E r \in DOMAIN results :
    /\ results[r].kind = "BeginBase64"
    /\ results[r].begin < i
    /\ \A j \in results[r].begin .. i - 1 : input[j + 1].kind # "rule"

\* A block reads line i as data, with all lines of it up to there.
ReadAsData(i) ==
  \E r \in Blocks :
    /\ results[r].begin < i /\ i < results[r].end
    /\ \A j \in results[r].begin + 1 .. i : DecodesToBytes(input[j + 1])

\* What a block can cost the ones behind it: a complete block that is not
\* returned stands in a begin-base64 region, or its begin line is the very line
\* at which the block before it broke off, or a line in capitals that the block
\* before it, which has no end yet, reads as data (scan.rs:255-305).
LossIsLocal ==
  phase = "done" =>
    \A i \in {j \in 0 .. Len(input) - 1 : CompleteAt(j)} :
      \/ \E r \in Blocks : results[r].begin = i /\ ~results[r].truncated
      \/ InBase64(i)
      \/ ReadAsData(i)
      \/ \E r \in Blocks : results[r].truncated /\ results[r].end = i + 1

-----------------------------------------------------------------------------
(* What a document says of the scan and the code does not do.              *)

\* lib.rs:268-271: after an error the scanner continues so that subsequent
\* valid blocks are still returned.  Begin lines that a block reads as data are
\* left out: no error comes before them.
ValidBlocksReturned ==
  phase = "done" =>
    \A i \in {j \in 0 .. Len(input) - 1 : CompleteAt(j)} :
      \/ \E r \in Blocks : results[r].begin = i
      \/ InBase64(i)
      \/ ReadAsData(i)

=============================================================================
