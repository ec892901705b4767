---------------------------- MODULE YencAssembler ----------------------------
(***************************************************************************)
(* yencoding-multi/src/assembler.rs: the Assembler that collects decoded   *)
(* yEnc parts by byte range and hands over the whole file.                 *)
(*                                                                         *)
(* One assembler lives at a time: `new' opens it, `finish' consumes it     *)
(* (the Rust method takes self), whatever its result.  Every public method *)
(* that changes state is an action; the queries is_complete and            *)
(* missing_ranges are operators.  The parts a caller may hand to add_part  *)
(* are the members of DecodedParts: decode() does not compare a part's     *)
(* range with its data, and the fields of DecodedPart are public, so no    *)
(* relation between range and data may be assumed of them.                 *)
(*                                                                         *)
(* CRC-32 is an arbitrary function of the bytes: nothing proved here       *)
(* depends on its detecting anything.  Definitions marked "Faulty variant" *)
(* are not part of the model: each is a plausible bug that one of the      *)
(* properties must catch.                                                  *)
(***************************************************************************)
EXTENDS Integers, Sequences, FiniteSetsExt

CONSTANTS
  Byte,           \* the values of one byte
  ZeroByte,       \* what vec![0u8; n] fills a new buffer with
  CrcValue,       \* the values of a CRC-32
  Crc32(_),       \* the CRC-32 of a buffer
  MaxTotalSize,   \* MAX_TOTAL_SIZE, 512 MiB in the source
  RequestedSizes, \* the total_size values callers pass to new
  DecodedParts,   \* the parts callers pass to add_part
  None            \* Option::None

Part == [begin : Nat \cup {None}, end : Nat \cup {None},
         data : Seq(Byte), crc : CrcValue \cup {None}]

ASSUME ConstantsAssumption ==
  /\ None \notin Nat \cup CrcValue
  /\ ZeroByte \in Byte
  /\ MaxTotalSize \in Nat
  /\ RequestedSizes \subseteq Nat
  /\ DecodedParts \subseteq Part

VARIABLES
  totalSize,    \* total_size of the live assembler, None when there is none
  buffer,       \* the pre-allocated file buffer
  covered,      \* BTreeMap: start of a covered interval -> its end (exclusive)
  expectedCrc,  \* expected_crc32
  reply,        \* the variant returned by the last call
  output,       \* the bytes returned by the last finish, None unless it was Ok
  carried       \* history: the CRC the caller set last, if any, and the
                \* whole-file CRCs of the parts this assembler accepted since

vars == <<totalSize, buffer, covered, expectedCrc, reply, output, carried>>

Empty == [x \in {} |-> None]

Replies == {"none", "Opened", "TotalSizeTooLarge", "CrcSet",
            "MalformedPartRange", "OutOfRange", "DataLengthMismatch",
            "OverlappingPart", "InconsistentCrc", "Added",
            "Incomplete", "CrcMismatch", "Finished"}

-----------------------------------------------------------------------------
(* The covered intervals and the two cursor loops over them.               *)

\* Offsets of the file that some covered interval contains.
CoveredBytes ==
  {o \in 0 .. totalSize - 1 : \E a \in DOMAIN covered : a <= o /\ o < covered[a]}

\* The loops of is_complete and missing_ranges visit the intervals in key
\* order with cursor = the end of the interval visited last: the value of
\* the cursor when the loop reaches offset s.
CursorAt(s) ==
  LET before == {a \in DOMAIN covered : a < s}
  IN  IF before = {} THEN 0 ELSE covered[Max(before)]

FinalCursor == CursorAt(totalSize + 1)

\* Faulty variant: the gap after the last interval is forgotten.
MissingRangesNoTail ==
  {<<CursorAt(s), s>> : s \in {a \in DOMAIN covered : a > CursorAt(a)}}

MissingRanges ==
  {<<CursorAt(s), s>> : s \in {a \in DOMAIN covered : a > CursorAt(a)}}
    \cup (IF FinalCursor < totalSize THEN {<<FinalCursor, totalSize>>} ELSE {})

IsComplete ==
  \/ totalSize = 0
  \/ /\ \A s \in DOMAIN covered : s <= CursorAt(s)
     /\ FinalCursor >= totalSize

-----------------------------------------------------------------------------
(* The checks of add_part, in the order of its early returns.              *)

Ranged(p) == p.begin # None /\ p.end # None

\* 1-based inclusive begin/end become a 0-based half-open range; a part
\* without a range is placed at offset 0.
Lo(p) == IF Ranged(p) THEN p.begin - 1 ELSE 0
Hi(p) == IF Ranged(p) THEN p.end ELSE Len(p.data)

Malformed(p) ==
  \/ (p.begin = None) # (p.end = None)
  \/ Ranged(p) /\ p.begin = 0

\* Faulty variant: the end of the range is not compared with the file size.
OutOfRangeNoEnd(p) ==
  IF Ranged(p) THEN Lo(p) >= Hi(p) ELSE Lo(p) > Hi(p)

OutOfRange(p) ==
  \/ Hi(p) > totalSize
  \/ IF Ranged(p) THEN Lo(p) >= Hi(p) ELSE Lo(p) > Hi(p)

\* Faulty variant: an interval that ends where the part begins "overlaps" it.
OverlapsPredecessorTouching(p) ==
  LET below == {a \in DOMAIN covered : a <= Lo(p)}
  IN  below # {} /\ covered[Max(below)] >= Lo(p)

\* covered.range(..=begin_0).next_back()
OverlapsPredecessor(p) ==
  LET below == {a \in DOMAIN covered : a <= Lo(p)}
  IN  below # {} /\ covered[Max(below)] > Lo(p)

\* Faulty variant: only an interval with the same start is a successor.
OverlapsSuccessorSameStart(p) == Lo(p) \in DOMAIN covered

\* covered.range(begin_0..).next()
OverlapsSuccessor(p) ==
  LET above == {a \in DOMAIN covered : a >= Lo(p)}
  IN  above # {} /\ Min(above) < Hi(p)

\* Faulty variant: the CRCs of later parts are not compared.
CrcConflictNever(p) == FALSE

CrcConflict(p) ==
  /\ p.crc # None
  /\ expectedCrc # None
  /\ p.crc # expectedCrc

Verdict(p) ==
  IF Malformed(p) THEN "MalformedPartRange"
  ELSE IF OutOfRange(p) THEN "OutOfRange"
  ELSE IF Len(p.data) # Hi(p) - Lo(p) THEN "DataLengthMismatch"
  ELSE IF OverlapsPredecessor(p) \/ OverlapsSuccessor(p) THEN "OverlappingPart"
  ELSE IF CrcConflict(p) THEN "InconsistentCrc"
  ELSE "Added"

-----------------------------------------------------------------------------
(* The state changes.                                                      *)

Init ==
  /\ totalSize = None
  /\ buffer = Empty
  /\ covered = Empty
  /\ expectedCrc = None
  /\ reply = "none"
  /\ output = None
  /\ carried = {}

New(n) ==
  /\ totalSize = None
  /\ IF n > MaxTotalSize
     THEN /\ reply' = "TotalSizeTooLarge"
          /\ UNCHANGED <<totalSize, buffer, output>>
     ELSE /\ reply' = "Opened"
          /\ totalSize' = n
          /\ buffer' = [o \in 0 .. n - 1 |-> ZeroByte]
          /\ output' = None
  /\ UNCHANGED <<covered, expectedCrc, carried>>

\* Faulty variant: the CRC of a part that came before wins.
SetExpectedCrc32IfNone(c) ==
  /\ totalSize # None
  /\ expectedCrc' = IF expectedCrc = None THEN c ELSE expectedCrc
  /\ carried' = {c}
  /\ reply' = "CrcSet"
  /\ UNCHANGED <<totalSize, buffer, covered, output>>

\* Nothing is compared: what parts carried before is forgotten.
SetExpectedCrc32(c) ==
  /\ totalSize # None
  /\ expectedCrc' = c
  /\ carried' = {c}
  /\ reply' = "CrcSet"
  /\ UNCHANGED <<totalSize, buffer, covered, output>>

Store(p) ==
  /\ buffer' = [o \in 0 .. totalSize - 1 |->
                  IF Lo(p) <= o /\ o < Hi(p) THEN p.data[o - Lo(p) + 1]
                                             ELSE buffer[o]]
  /\ covered' = [a \in DOMAIN covered \cup {Lo(p)} |->
                   IF a = Lo(p) THEN Hi(p) ELSE covered[a]]

RecordCrc(p) ==
  /\ expectedCrc' = IF expectedCrc = None THEN p.crc ELSE expectedCrc
  /\ carried' = carried \cup ({p.crc} \ {None})

\* Faulty variant: the CRC is recorded before the overlap checks.
AddPartCrcFirst(p) ==
  /\ totalSize # None
  /\ reply' = Verdict(p)
  /\ IF Verdict(p) = "Added"
     THEN Store(p) /\ carried' = carried \cup ({p.crc} \ {None})
     ELSE UNCHANGED <<buffer, covered, carried>>
  /\ expectedCrc' = IF expectedCrc = None THEN p.crc ELSE expectedCrc
  /\ UNCHANGED <<totalSize, output>>

AddPart(p) ==
  /\ totalSize # None
  /\ reply' = Verdict(p)
  /\ IF Verdict(p) = "Added"
     THEN Store(p) /\ RecordCrc(p)
     ELSE UNCHANGED <<buffer, covered, expectedCrc, carried>>
  /\ UNCHANGED <<totalSize, output>>

\* Faulty variant: finish trusts the caller to have called is_complete.
FinishVerdictUnchecked ==
  IF expectedCrc # None /\ Crc32(buffer) # expectedCrc THEN "CrcMismatch"
  ELSE "Finished"

\* Faulty variant: finish does not compare the CRC.
FinishVerdictNoCrc ==
  IF MissingRanges # {} THEN "Incomplete" ELSE "Finished"

FinishVerdict ==
  IF MissingRanges # {} THEN "Incomplete"
  ELSE IF expectedCrc # None /\ Crc32(buffer) # expectedCrc THEN "CrcMismatch"
  ELSE "Finished"

Finish ==
  /\ totalSize # None
  /\ reply' = FinishVerdict
  /\ output' = IF FinishVerdict = "Finished" THEN buffer ELSE None
  /\ totalSize' = None
  /\ buffer' = Empty
  /\ covered' = Empty
  /\ expectedCrc' = None
  /\ carried' = {}

Next ==
  \/ \E n \in RequestedSizes : New(n)
  \/ \E c \in CrcValue : SetExpectedCrc32(c)
  \/ \E p \in DecodedParts : AddPart(p)
  \/ Finish

Spec == Init /\ [][Next]_vars

-----------------------------------------------------------------------------
(* Properties.                                                             *)

Live == totalSize # None

\* The variables range over what the fields of the struct can hold.
TypeOK ==
  /\ totalSize \in (0 .. MaxTotalSize) \cup {None}
  /\ Live => /\ buffer \in [0 .. totalSize - 1 -> Byte]
             /\ DOMAIN covered \subseteq 0 .. totalSize
             /\ \A a \in DOMAIN covered : covered[a] \in a .. totalSize
  /\ ~Live => buffer = Empty /\ covered = Empty
  /\ expectedCrc \in CrcValue \cup {None}
  /\ reply \in Replies
  /\ output = None \/ \E n \in 0 .. MaxTotalSize : output \in [0 .. n - 1 -> Byte]
  /\ carried \subseteq CrcValue

\* The covered intervals never overlap, although add_part looks only at the
\* two neighbours of the new range (assembler.rs:214-236).
IntervalsDisjoint ==
  \A a, b \in DOMAIN covered : a < b => covered[a] <= b

\* missing_ranges reports exactly the uncovered bytes, and is_complete
\* agrees with it.  Both loops overwrite the cursor with the end of the last
\* interval instead of taking a maximum, which is right only while the
\* intervals are disjoint (assembler.rs:268-303).
GapsExact ==
  Live => /\ UNION {r[1] .. r[2] - 1 : r \in MissingRanges}
               = (0 .. totalSize - 1) \ CoveredBytes
          /\ IsComplete <=> MissingRanges = {}

\* The expected CRC is the one the caller set last or, if the caller set none,
\* a part carried, and every part accepted since that carried a CRC carried it:
\* a refused part leaves no trace in it, no two accepted parts disagree, and
\* after set_expected_crc32 parts are held to the CRC of the caller, whatever
\* those before it carried (assembler.rs:108-110, 238-250).
CrcProvenance == carried = {expectedCrc} \ {None}

\* Offset 0 is taken by an accepted part without bytes, in a file that has
\* some: the state in which add_part answers OverlappingPart to parts that
\* overlap nothing.
BlockedByEmptyPart == 0 \in DOMAIN covered /\ covered[0] = 0

\* A well-formed part whose bytes are all still missing is accepted, unless
\* its CRC disagrees or an empty part blocks offset 0 (assembler.rs:214-250).
NeededPartAccepted ==
  Live => \A p \in DecodedParts :
    LET range == Lo(p) .. Hi(p) - 1 IN
      /\ ~Malformed(p) /\ ~OutOfRange(p) /\ ~CrcConflict(p)
      /\ Len(p.data) = Hi(p) - Lo(p)
      /\ range # {} /\ range \cap CoveredBytes = {}
      => \/ Verdict(p) = "Added"
         \/ BlockedByEmptyPart /\ Lo(p) = 0

\* finish hands over a file only when it hashes to the CRC the caller set last
\* and to every whole-file CRC that a part accepted since carried
\* (assembler.rs:328-342).
FinishedFileVerified ==
  [][output' # None /\ output' # output
       => \A c \in carried : Crc32(output') = c]_vars

\* The assembler keeps the promise of FileAssembly: bytes are written once,
\* and only a complete file is delivered.
KnownBytes == IF Live THEN [o \in CoveredBytes |-> buffer[o]] ELSE Empty

Promise == INSTANCE FileAssembly
             WITH size <- totalSize, known <- KnownBytes, delivered <- output

ImplementsFileAssembly == Promise!Spec

=============================================================================
