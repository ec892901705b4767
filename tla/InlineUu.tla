------------------------------- MODULE InlineUu -------------------------------
(***************************************************************************)
(* mime-tree/src/uuencode.rs: scan_inline_uuencode scans the body of a     *)
(* MIME part with uuencoding::scan and turns its results, relative to the  *)
(* body, into blocks relative to the message.  Offsets count lines; their  *)
(* saturation above 2^32 bytes is left out (part.rs:82-84 asks callers to  *)
(* refuse such messages).                                                  *)
(***************************************************************************)
EXTENDS UuScan

CONSTANTS
  Parts,      \* the messages and the body_range of a part: [raw, range]
  None        \* Option::None

ASSUME MessagesAssumption ==
  \A part \in Parts : IsText(part.raw) /\ part.range \in Nat \X Nat

VARIABLES
  raw,        \* the message
  range,      \* part.body_range: offset and length
  call,       \* "slice", "scan", "returned"
  inline      \* the blocks returned

inlineVars == <<vars, raw, range, call, inline>>

\* Faulty variant: offsets stay relative to the body.
InlineBlockRelative(r) ==
  [begin |-> r.begin, length |-> r.end - r.begin, data |-> r.data,
   problem |-> r.truncated]

InlineBlock(r) ==
  IF r.kind = "block"
  THEN [begin   |-> range[1] + r.begin,
        length  |-> r.end - r.begin,
        data    |-> r.data,
        problem |-> r.truncated]
  ELSE [begin   |-> range[1] + r.begin,
        length  |-> None,
        data    |-> <<>>,
        problem |-> TRUE]

\* Before the call the scanner has nothing to scan.
InlineInit ==
  /\ \E part \in Parts : raw = part.raw /\ range = part.range
  /\ call = "slice"
  /\ inline = <<>>
  /\ input = <<>>
  /\ ScanInit

\* A body range outside the message gives no blocks.
SliceBody ==
  /\ call = "slice"
  /\ IF range[1] + range[2] <= Len(raw)
     THEN /\ input' = SubSeq(raw, range[1] + 1, range[1] + range[2])
          /\ call' = "scan"
     ELSE /\ call' = "returned"
          /\ UNCHANGED input
  /\ UNCHANGED <<phase, pos, BlockFields, results, raw, range, inline>>

ScanBody ==
  /\ call = "scan"
  /\ ScanNext
  /\ UNCHANGED <<raw, range, call, inline>>

CollectBlocks ==
  /\ call = "scan"
  /\ phase = "done"
  /\ inline' = [i \in DOMAIN results |-> InlineBlock(results[i])]
  /\ call' = "returned"
  /\ UNCHANGED <<vars, raw, range>>

InlineNext == SliceBody \/ ScanBody \/ CollectBlocks

\* scan_inline_uuencode is one call: it runs until it returns.
InlineSpec ==
  InlineInit /\ [][InlineNext]_inlineVars /\ WF_inlineVars(InlineNext)

-----------------------------------------------------------------------------
(* Properties.                                                             *)

\* The lines of the message a block with a length claims to be.
Extent(b) == SubSeq(raw, b.begin + 1, b.begin + b.length)

\* Sliced out of the message, a sound block is a complete UU block that
\* decodes by itself to the data returned (uuencode.rs:51-55).
SoundSliceIsBlock ==
  \A i \in DOMAIN inline :
    ~inline[i].problem =>
      \A d \in {DecodeLimited(Extent(inline[i]), Unlimited)} :
        /\ raw[inline[i].begin + 1].kind \in StandardBegins
        /\ d.error = "none" /\ ~d.truncated
        /\ d.data = inline[i].data

\* The call returns on every input: every line the scanner looks at brings it
\* forward (scan.rs:14-49, 194-207, 233-310).
CallReturns == <>(call = "returned")
=============================================================================
