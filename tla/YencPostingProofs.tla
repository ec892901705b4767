-------------------------- MODULE YencPostingProofs --------------------------
(***************************************************************************)
(* Proofs about YencAssembler, for every byte and CRC type, every file     *)
(* size and every set of parts; and about YencPosting, the client that     *)
(* feeds it: for every file, every division into parts and any number of   *)
(* damaged copies.                                                         *)
(*                                                                         *)
(* The network makes no lines of its own.  So whatever decode() accepts    *)
(* has been checked against the trailer of one posted article, in          *)
(* whatever order the lines arrive: what add_part is given has the size    *)
(* and the CRC of one of the parts.                                        *)
(***************************************************************************)
EXTENDS YencPosting, DataFacts, TLAPS

-----------------------------------------------------------------------------
(* The range of an accepted part.                                          *)

LEMMA PartRange ==
  ASSUME TypeOK, Live, NEW p \in Part, ~Malformed(p), ~OutOfRange(p)
  PROVE  /\ p \in Part
         /\ totalSize \in Nat
         /\ Lo(p) \in 0 .. totalSize
         /\ Hi(p) \in Lo(p) .. totalSize
<1>1. p \in Part /\ Len(p.data) \in Nat
  BY ConstantsAssumption DEF Part
<1>2. totalSize \in Nat
  BY ConstantsAssumption DEF TypeOK, Live
<1>3. CASE Ranged(p)
  <2>1. p.begin \in Nat /\ p.end \in Nat
    BY <1>1, <1>3 DEF Part, Ranged
  <2>. QED
    BY <1>1, <1>2, <1>3, <2>1 DEF Malformed, OutOfRange, Lo, Hi
<1>4. CASE ~Ranged(p)
  BY <1>1, <1>2, <1>4 DEF OutOfRange, Lo, Hi
<1>. QED
  BY <1>3, <1>4

(***************************************************************************)
(* The two neighbour checks of add_part suffice: when neither reports an   *)
(* overlap, the new range lies between all the intervals on its left and   *)
(* all those on its right.                                                 *)
(***************************************************************************)
LEMMA NeighboursSuffice ==
  ASSUME TypeOK, IntervalsDisjoint, Live, NEW p \in Part,
         Verdict(p) = "Added"
  PROVE  /\ p \in Part
         /\ totalSize \in Nat
         /\ Lo(p) \in 0 .. totalSize
         /\ Hi(p) \in Lo(p) .. totalSize
         /\ Len(p.data) = Hi(p) - Lo(p)
         /\ \A a \in DOMAIN covered : a <= Lo(p) => covered[a] <= Lo(p)
         /\ \A a \in DOMAIN covered : a >= Lo(p) => Hi(p) <= a
<1>1. /\ ~Malformed(p) /\ ~OutOfRange(p) /\ Len(p.data) = Hi(p) - Lo(p)
      /\ ~OverlapsPredecessor(p) /\ ~OverlapsSuccessor(p)
  BY DEF Verdict
<1>2. /\ p \in Part /\ totalSize \in Nat
      /\ Lo(p) \in 0 .. totalSize /\ Hi(p) \in Lo(p) .. totalSize
  BY <1>1, PartRange
<1>3. /\ DOMAIN covered \subseteq 0 .. totalSize
      /\ \A a \in DOMAIN covered : covered[a] \in a .. totalSize
  BY DEF TypeOK, Live
<1>4. ASSUME NEW a \in DOMAIN covered, a <= Lo(p)
      PROVE  covered[a] <= Lo(p)
  <2>. DEFINE below == {k \in DOMAIN covered : k <= Lo(p)}
              m == Max(below)
  <2>1. below \in SUBSET (0 .. totalSize) /\ below # {}
    BY <1>3, <1>4
  <2>2. m \in below /\ \A k \in below : k <= m
    BY <2>1, <1>2, MaxOfNat
  <2>3. ~(covered[m] > Lo(p))
    BY <1>1, <2>1 DEF OverlapsPredecessor
  <2>4. a <= m
    BY <2>2, <1>4
  <2>5. a \in Nat /\ m \in Nat /\ m <= Lo(p) /\ m \in DOMAIN covered
    BY <1>2, <1>3, <2>1, <2>2
  <2>6. covered[a] \in Nat /\ covered[m] \in Nat
    BY <1>2, <1>3, <2>5
  <2>7. CASE a = m
    BY <1>2, <2>3, <2>6, <2>7
  <2>8. CASE a < m
    BY <1>2, <2>5, <2>6, <2>8 DEF IntervalsDisjoint
  <2>. QED
    BY <2>4, <2>5, <2>7, <2>8
<1>5. ASSUME NEW a \in DOMAIN covered, a >= Lo(p)
      PROVE  Hi(p) <= a
  <2>. DEFINE above == {k \in DOMAIN covered : k >= Lo(p)}
              m == Min(above)
  <2>1. above \in SUBSET Nat /\ above # {}
    BY <1>2, <1>3, <1>5
  <2>2. m \in above /\ \A k \in above : m <= k
    BY <2>1, MinOfNat
  <2>3. ~(m < Hi(p))
    BY <1>1, <2>1 DEF OverlapsSuccessor
  <2>4. m <= a /\ a \in Nat /\ m \in Nat
    BY <1>5, <2>1, <2>2
  <2>. QED
    BY <1>2, <2>3, <2>4
<1>. QED
  BY <1>1, <1>2, <1>4, <1>5

-----------------------------------------------------------------------------
(* Invariance.                                                             *)

\* Only a part without a range, placed at offset 0, can be empty.
EmptyOnlyAtZero == \A a \in DOMAIN covered : covered[a] = a => a = 0

\* The inductive invariant.
Inv == TypeOK /\ IntervalsDisjoint /\ CrcProvenance /\ EmptyOnlyAtZero

LEMMA InitInv == Init => Inv
<1>. SUFFICES ASSUME Init  PROVE Inv
  OBVIOUS
<1>. USE DEF Init
<1>1. TypeOK
  BY ConstantsAssumption DEF TypeOK, Live, Replies, Empty
<1>2. IntervalsDisjoint
  BY DEF IntervalsDisjoint, Empty
<1>3. CrcProvenance
  BY DEF CrcProvenance
<1>4. EmptyOnlyAtZero
  BY DEF EmptyOnlyAtZero, Empty
<1>. QED
  BY <1>1, <1>2, <1>3, <1>4 DEF Inv

LEMMA NewInv ==
  ASSUME Inv, NEW n \in Nat, New(n)
  PROVE  Inv'
<1>. USE DEF Inv, New
<1>1. n \in Nat /\ MaxTotalSize \in Nat
  BY ConstantsAssumption
<1>2. TypeOK'
  <2>1. CASE n > MaxTotalSize
    BY <2>1, <1>1 DEF TypeOK, Live, Replies
  <2>2. CASE ~(n > MaxTotalSize)
    BY <2>2, <1>1, ConstantsAssumption DEF TypeOK, Live, Replies, Empty
  <2>. QED
    BY <2>1, <2>2
<1>3. IntervalsDisjoint'
  BY DEF IntervalsDisjoint
<1>4. CrcProvenance'
  BY DEF CrcProvenance
<1>5. EmptyOnlyAtZero'
  BY DEF EmptyOnlyAtZero
<1>. QED
  BY <1>2, <1>3, <1>4, <1>5

LEMMA SetExpectedCrc32Inv ==
  ASSUME Inv, NEW c \in CrcValue, SetExpectedCrc32(c)
  PROVE  Inv'
<1>. USE DEF Inv, SetExpectedCrc32
<1>1. TypeOK'
  BY DEF TypeOK, Live, Replies
<1>2. IntervalsDisjoint'
  BY DEF IntervalsDisjoint
<1>3. CrcProvenance'
  BY ConstantsAssumption DEF CrcProvenance
<1>4. EmptyOnlyAtZero'
  BY DEF EmptyOnlyAtZero
<1>. QED
  BY <1>1, <1>2, <1>3, <1>4

LEMMA FinishInv ==
  ASSUME Inv, Finish
  PROVE  Inv'
<1>. USE DEF Inv, Finish
<1>1. TypeOK'
  BY ConstantsAssumption DEF TypeOK, Live, Replies, Empty, FinishVerdict
<1>2. IntervalsDisjoint'
  BY DEF IntervalsDisjoint, Empty
<1>3. CrcProvenance'
  BY DEF CrcProvenance
<1>4. EmptyOnlyAtZero'
  BY DEF EmptyOnlyAtZero, Empty
<1>. QED
  BY <1>1, <1>2, <1>3, <1>4

LEMMA StutterInv == Inv /\ UNCHANGED vars => Inv'
  BY DEF Inv, vars, TypeOK, Live, Replies, IntervalsDisjoint, CrcProvenance,
         EmptyOnlyAtZero

(***************************************************************************)
(* The step that matters: an accepted part keeps the intervals inside the  *)
(* file and disjoint, and a CRC it carries is the expected one.            *)
(***************************************************************************)
LEMMA AddPartInv ==
  ASSUME Inv, NEW p \in Part, AddPart(p)
  PROVE  Inv'
<1>. USE DEF Inv, AddPart
<1>1. Live /\ Live'
  BY DEF Live
<1>2. reply' \in Replies
  BY DEF Verdict, Replies
<1>3. CASE Verdict(p) # "Added"
  <2>1. TypeOK'
    BY <1>1, <1>2, <1>3 DEF TypeOK, Live, Replies
  <2>2. IntervalsDisjoint' /\ CrcProvenance' /\ EmptyOnlyAtZero'
    BY <1>3 DEF IntervalsDisjoint, CrcProvenance, EmptyOnlyAtZero
  <2>. QED
    BY <2>1, <2>2
<1>4. CASE Verdict(p) = "Added"
  <2>. DEFINE lo == Lo(p)
              hi == Hi(p)
  <2>1. /\ p \in Part /\ totalSize \in Nat
        /\ lo \in 0 .. totalSize /\ hi \in lo .. totalSize
        /\ Len(p.data) = hi - lo
        /\ \A a \in DOMAIN covered : a <= lo => covered[a] <= lo
        /\ \A a \in DOMAIN covered : a >= lo => hi <= a
    BY <1>1, <1>4, NeighboursSuffice
  <2>2. Store(p) /\ RecordCrc(p) /\ UNCHANGED <<totalSize, output>>
    BY <1>4
  <2>3. /\ DOMAIN covered \subseteq 0 .. totalSize
        /\ \A a \in DOMAIN covered : covered[a] \in a .. totalSize
        /\ buffer \in [0 .. totalSize - 1 -> Byte]
    BY <1>1 DEF TypeOK
  <2>4. /\ DOMAIN covered' = DOMAIN covered \cup {lo}
        /\ covered'[lo] = hi
        /\ \A a \in DOMAIN covered : a # lo => covered'[a] = covered[a]
    BY <2>2 DEF Store
  <2>5. buffer' \in [0 .. totalSize - 1 -> Byte]
    <3>1. ASSUME NEW o \in 0 .. totalSize - 1, lo <= o, o < hi
          PROVE  p.data[o - lo + 1] \in Byte
      <4>1. p.data \in Seq(Byte) /\ o - lo + 1 \in 1 .. Len(p.data)
        BY <2>1, <3>1 DEF Part
      <4>. QED
        BY <4>1
    <3>. QED
      BY <2>2, <2>3, <3>1 DEF Store
  <2>6. expectedCrc' \in CrcValue \cup {None} /\ carried' \subseteq CrcValue
    BY <2>1, <2>2 DEF TypeOK, RecordCrc, Part
  <2>7. TypeOK'
    <3>1. /\ DOMAIN covered' \subseteq 0 .. totalSize'
          /\ \A a \in DOMAIN covered' : covered'[a] \in a .. totalSize'
      BY <2>1, <2>2, <2>3, <2>4
    <3>. QED
      BY <1>1, <1>2, <2>2, <2>5, <2>6, <3>1 DEF TypeOK, Live, Replies
  <2>8. IntervalsDisjoint'
    <3>. SUFFICES ASSUME NEW a \in DOMAIN covered', NEW b \in DOMAIN covered',
                         a < b
                  PROVE  covered'[a] <= b
      BY DEF IntervalsDisjoint
    <3>1. CASE a = lo
      BY <2>1, <2>3, <2>4, <3>1
    <3>2. CASE b = lo
      BY <2>1, <2>3, <2>4, <3>2
    <3>3. CASE a # lo /\ b # lo
      BY <2>4, <3>3 DEF IntervalsDisjoint
    <3>. QED
      BY <3>1, <3>2, <3>3
  <2>9. CrcProvenance'
    <3>1. p.crc = None \/ expectedCrc = None \/ p.crc = expectedCrc
      BY <1>4 DEF Verdict, CrcConflict
    <3>. QED
      BY <2>2, <3>1 DEF RecordCrc, CrcProvenance
  <2>10. EmptyOnlyAtZero'
    <3>1. lo = hi => lo = 0
      BY <1>4, <2>1 DEF Verdict, OutOfRange, Lo
    <3>. QED
      BY <2>4, <3>1 DEF EmptyOnlyAtZero
  <2>. QED
    BY <2>7, <2>8, <2>9, <2>10
<1>. QED
  BY <1>3, <1>4

LEMMA NextInv == Inv /\ [Next]_vars => Inv'
<1>. SUFFICES ASSUME Inv, [Next]_vars  PROVE Inv'
  OBVIOUS
<1>1. ASSUME NEW n \in RequestedSizes, New(n)  PROVE Inv'
  BY <1>1, NewInv, ConstantsAssumption
<1>2. ASSUME NEW c \in CrcValue, SetExpectedCrc32(c)  PROVE Inv'
  BY <1>2, SetExpectedCrc32Inv
<1>3. ASSUME NEW p \in DecodedParts, AddPart(p)  PROVE Inv'
  BY <1>3, AddPartInv, ConstantsAssumption
<1>4. CASE Finish
  BY <1>4, FinishInv
<1>5. CASE UNCHANGED vars
  BY <1>5, StutterInv
<1>. QED
  BY <1>1, <1>2, <1>3, <1>4, <1>5 DEF Next

\* After every call of a method: types, disjoint intervals, the provenance of the
\* CRC, and that an empty interval starts at offset 0 (assembler.rs:159-259).
THEOREM Invariance == Spec => []Inv
  BY InitInv, NextInv, PTL DEF Spec

\* The fields of the assembler stay within their types and the intervals
\* within the file, for every part a caller can construct.
THEOREM TypeCorrect == Spec => []TypeOK
<1>1. Inv => TypeOK
  BY DEF Inv
<1>. QED
  BY <1>1, Invariance, PTL

\* No sequence of calls makes two covered intervals overlap: looking at the
\* two neighbours of the new range is enough.
THEOREM CoverageDisjoint == Spec => []IntervalsDisjoint
<1>1. Inv => IntervalsDisjoint
  BY DEF Inv
<1>. QED
  BY <1>1, Invariance, PTL

\* The expected whole-file CRC is the one the caller set last, and the one the
\* parts accepted since carried.
THEOREM CrcComesFromParts == Spec => []CrcProvenance
<1>1. Inv => CrcProvenance
  BY DEF Inv
<1>. QED
  BY <1>1, Invariance, PTL

-----------------------------------------------------------------------------
(* The gap report.                                                         *)

\* When the cursor reaches offset s it is past every interval that starts
\* before s, and it is 0 or the end of one of them.
LEMMA CursorPassesIntervals ==
  ASSUME TypeOK, IntervalsDisjoint, Live, NEW s \in Nat
  PROVE  /\ totalSize \in Nat
         /\ CursorAt(s) \in 0 .. totalSize
         /\ \A a \in DOMAIN covered : a < s => covered[a] <= CursorAt(s)
         /\ \/ CursorAt(s) = 0
            \/ \E m \in DOMAIN covered : m < s /\ CursorAt(s) = covered[m]
<1>. DEFINE before == {a \in DOMAIN covered : a < s}
            m == Max(before)
<1>1. totalSize \in Nat
  BY ConstantsAssumption DEF TypeOK, Live
<1>2. /\ DOMAIN covered \subseteq 0 .. totalSize
      /\ \A a \in DOMAIN covered : covered[a] \in a .. totalSize
  BY DEF TypeOK, Live
<1>3. CASE before = {}
  BY <1>1, <1>3 DEF CursorAt
<1>4. CASE before # {}
  <2>1. before \in SUBSET (0 .. totalSize)
    BY <1>2
  <2>2. m \in before /\ \A a \in before : a <= m
    BY <1>1, <1>4, <2>1, MaxOfNat
  <2>3. CursorAt(s) = covered[m]
    BY <1>4 DEF CursorAt
  <2>4. m \in DOMAIN covered /\ m < s /\ m \in 0 .. totalSize
    BY <1>2, <2>2
  <2>5. covered[m] \in m .. totalSize
    BY <1>2, <2>4
  <2>6. ASSUME NEW a \in DOMAIN covered, a < s  PROVE covered[a] <= covered[m]
    <3>1. a <= m /\ a \in 0 .. totalSize
      BY <1>2, <2>2, <2>6
    <3>2. CASE a = m
      BY <1>1, <2>5, <3>2
    <3>3. CASE a < m
      <4>1. covered[a] <= m /\ covered[a] \in a .. totalSize
        BY <1>2, <2>4, <3>3 DEF IntervalsDisjoint
      <4>. QED
        BY <1>1, <2>4, <2>5, <3>1, <4>1
    <3>. QED
      BY <1>1, <2>4, <3>1, <3>2, <3>3
  <2>. QED
    BY <1>1, <2>3, <2>4, <2>5, <2>6
<1>. QED
  BY <1>3, <1>4

LEMMA GapsExactOfInv == TypeOK /\ IntervalsDisjoint => GapsExact
<1>. SUFFICES ASSUME TypeOK, IntervalsDisjoint, Live
              PROVE  /\ UNION {r[1] .. r[2] - 1 : r \in MissingRanges}
                          = (0 .. totalSize - 1) \ CoveredBytes
                     /\ IsComplete <=> MissingRanges = {}
  BY DEF GapsExact
<1>1. totalSize \in Nat
  BY ConstantsAssumption DEF TypeOK, Live
<1>2. /\ DOMAIN covered \subseteq 0 .. totalSize
      /\ \A a \in DOMAIN covered : covered[a] \in a .. totalSize
  BY DEF TypeOK, Live
<1>3. \A s \in Nat :
        /\ CursorAt(s) \in 0 .. totalSize
        /\ \A a \in DOMAIN covered : a < s => covered[a] <= CursorAt(s)
        /\ \/ CursorAt(s) = 0
           \/ \E m \in DOMAIN covered : m < s /\ CursorAt(s) = covered[m]
  BY CursorPassesIntervals
<1>4. FinalCursor \in 0 .. totalSize
  BY <1>1, <1>3 DEF FinalCursor
<1>5. ASSUME NEW r \in MissingRanges, NEW o \in r[1] .. r[2] - 1
      PROVE  o \in (0 .. totalSize - 1) \ CoveredBytes
  <2>. SUFFICES /\ o \in 0 .. totalSize - 1
                /\ \A a \in DOMAIN covered : ~(a <= o /\ o < covered[a])
    BY DEF CoveredBytes
  <2>1. CASE \E s \in DOMAIN covered : r = <<CursorAt(s), s>>
    <3>1. PICK s \in DOMAIN covered : r = <<CursorAt(s), s>>
      BY <2>1
    <3>2. s \in 0 .. totalSize /\ CursorAt(s) \in 0 .. totalSize
      BY <1>1, <1>2, <1>3, <3>1
    <3>3. o \in CursorAt(s) .. s - 1
      BY <3>1
    <3>4. ASSUME NEW a \in DOMAIN covered, a <= o, o < covered[a]  PROVE FALSE
      <4>1. a \in 0 .. totalSize /\ covered[a] \in 0 .. totalSize
        BY <1>1, <1>2, <3>4
      <4>2. a < s
        BY <1>1, <3>2, <3>3, <3>4, <4>1
      <4>3. covered[a] <= CursorAt(s)
        BY <1>3, <3>2, <3>4, <4>2
      <4>. QED
        BY <1>1, <3>2, <3>3, <3>4, <4>1, <4>3
    <3>. QED
      BY <1>1, <3>2, <3>3, <3>4
  <2>2. CASE r = <<FinalCursor, totalSize>>
    <3>1. o \in FinalCursor .. totalSize - 1
      BY <2>2
    <3>2. ASSUME NEW a \in DOMAIN covered, a <= o, o < covered[a]  PROVE FALSE
      <4>1. a \in 0 .. totalSize /\ covered[a] \in 0 .. totalSize
        BY <1>1, <1>2, <3>2
      <4>2. covered[a] <= FinalCursor
        BY <1>1, <1>3, <4>1 DEF FinalCursor
      <4>. QED
        BY <1>1, <1>4, <3>1, <3>2, <4>1, <4>2
    <3>. QED
      BY <1>1, <1>4, <3>1, <3>2
  <2>. QED
    BY <2>1, <2>2 DEF MissingRanges
<1>6. ASSUME NEW o \in (0 .. totalSize - 1) \ CoveredBytes
      PROVE  \E r \in MissingRanges : o \in r[1] .. r[2] - 1
  <2>1. o \in 0 .. totalSize - 1
    OBVIOUS
  <2>2. \A a \in DOMAIN covered : a <= o => covered[a] <= o
    <3>. SUFFICES ASSUME NEW a \in DOMAIN covered, a <= o
                  PROVE  covered[a] <= o
      OBVIOUS
    <3>1. ~(o < covered[a])
      BY <2>1 DEF CoveredBytes
    <3>2. covered[a] \in Nat
      BY <1>1, <1>2
    <3>. QED
      BY <2>1, <3>1, <3>2
  <2>. DEFINE after == {a \in DOMAIN covered : a > o}
  <2>3. CASE after = {}
    <3>1. \A a \in DOMAIN covered : a <= o
      BY <1>1, <1>2, <2>1, <2>3
    <3>2. FinalCursor <= o
      BY <1>1, <1>3, <2>1, <2>2, <3>1 DEF FinalCursor
    <3>3. <<FinalCursor, totalSize>> \in MissingRanges
      BY <1>1, <1>4, <2>1, <3>2 DEF MissingRanges
    <3>. QED
      BY <1>1, <1>4, <2>1, <3>2, <3>3
  <2>4. CASE after # {}
    <3>. DEFINE s == Min(after)
    <3>1. after \in SUBSET Nat
      BY <1>1, <1>2
    <3>2. s \in after /\ \A a \in after : s <= a
      BY <2>4, <3>1, MinOfNat
    <3>. HIDE DEF s
    <3>3. s \in DOMAIN covered /\ s > o /\ s \in Nat
      BY <3>1, <3>2
    <3>4. \A a \in DOMAIN covered : a < s => a <= o
      <4>. SUFFICES ASSUME NEW a \in DOMAIN covered, a < s, a > o  PROVE FALSE
        BY <1>1, <1>2, <2>1
      <4>1. s <= a /\ a \in Nat
        BY <3>1, <3>2
      <4>. QED
        BY <3>3, <4>1
    <3>5. CursorAt(s) <= o /\ CursorAt(s) \in Nat
      BY <1>1, <1>3, <2>1, <2>2, <3>3, <3>4
    <3>6. <<CursorAt(s), s>> \in MissingRanges
      BY <2>1, <3>3, <3>5 DEF MissingRanges
    <3>7. o \in CursorAt(s) .. s - 1
      BY <2>1, <3>3, <3>5
    <3>. QED
      BY <3>6, <3>7
  <2>. QED
    BY <2>3, <2>4
<1>7. UNION {r[1] .. r[2] - 1 : r \in MissingRanges}
        = (0 .. totalSize - 1) \ CoveredBytes
  BY <1>5, <1>6
<1>8. IsComplete <=> MissingRanges = {}
  <2>1. \A s \in DOMAIN covered : s \in Nat /\ CursorAt(s) \in Nat
    BY <1>1, <1>2, <1>3
  <2>2. totalSize = 0 => MissingRanges = {}
    <3>. SUFFICES ASSUME totalSize = 0, NEW s \in DOMAIN covered,
                         s > CursorAt(s)
                  PROVE  FALSE
      BY <1>4 DEF MissingRanges
    <3>. QED
      BY <1>2, <2>1
  <2>3. (\A s \in DOMAIN covered : s <= CursorAt(s)) /\ FinalCursor >= totalSize
          <=> MissingRanges = {}
    <3>. DEFINE late == {a \in DOMAIN covered : a > CursorAt(a)}
    <3>1. late = {} <=> \A s \in DOMAIN covered : s <= CursorAt(s)
      BY <2>1
    <3>2. FinalCursor < totalSize <=> ~(FinalCursor >= totalSize)
      BY <1>1, <1>4
    <3>3. MissingRanges = {} <=> late = {} /\ ~(FinalCursor < totalSize)
      BY DEF MissingRanges
    <3>. QED
      BY <3>1, <3>2, <3>3
  <2>. QED
    BY <2>2, <2>3 DEF IsComplete
<1>. QED
  BY <1>7, <1>8

\* missing_ranges lists exactly the bytes no part has covered, and
\* is_complete is true exactly when it lists none.
THEOREM GapReportExact == Spec => []GapsExact
<1>1. Inv => GapsExact
  BY GapsExactOfInv DEF Inv
<1>. QED
  BY <1>1, Invariance, PTL

-----------------------------------------------------------------------------
(* What add_part accepts and finish hands over.                            *)

LEMMA NeededPartAcceptedOfInv == Inv => NeededPartAccepted
<1>. SUFFICES ASSUME Inv, Live, NEW p \in DecodedParts,
                     ~Malformed(p), ~OutOfRange(p), ~CrcConflict(p),
                     Len(p.data) = Hi(p) - Lo(p),
                     Lo(p) .. Hi(p) - 1 # {},
                     (Lo(p) .. Hi(p) - 1) \cap CoveredBytes = {},
                     ~(BlockedByEmptyPart /\ Lo(p) = 0)
              PROVE  Verdict(p) = "Added"
  BY DEF NeededPartAccepted
<1>. DEFINE lo == Lo(p)
            hi == Hi(p)
<1>1. /\ totalSize \in Nat
      /\ lo \in 0 .. totalSize /\ hi \in lo .. totalSize
  BY PartRange, ConstantsAssumption DEF Inv
<1>2. lo < hi
  BY <1>1
<1>3. /\ DOMAIN covered \subseteq 0 .. totalSize
      /\ \A a \in DOMAIN covered : covered[a] \in a .. totalSize
  BY DEF Inv, TypeOK, Live
<1>4. ASSUME OverlapsPredecessor(p)  PROVE FALSE
  <2>. DEFINE below == {k \in DOMAIN covered : k <= lo}
              m == Max(below)
  <2>1. below \in SUBSET (0 .. totalSize) /\ below # {} /\ covered[m] > lo
    BY <1>3, <1>4 DEF OverlapsPredecessor
  <2>2. m \in DOMAIN covered /\ m <= lo
    BY <1>1, <2>1, MaxOfNat
  <2>3. lo \in CoveredBytes
    BY <1>1, <1>2, <1>3, <2>1, <2>2 DEF CoveredBytes
  <2>. QED
    BY <1>1, <1>2, <2>3
<1>5. ASSUME OverlapsSuccessor(p)  PROVE FALSE
  <2>. DEFINE above == {k \in DOMAIN covered : k >= lo}
              m == Min(above)
  <2>1. above \in SUBSET Nat /\ above # {} /\ m < hi
    BY <1>1, <1>3, <1>5 DEF OverlapsSuccessor
  <2>2. m \in above
    BY <2>1, MinOfNat
  <2>. HIDE DEF m
  <2>3. m \in DOMAIN covered /\ m >= lo /\ m \in Nat
    BY <2>1, <2>2
  <2>4. covered[m] \in m .. totalSize
    BY <1>3, <2>3
  <2>5. CASE covered[m] = m
    BY <1>1, <2>3, <2>5 DEF Inv, EmptyOnlyAtZero, BlockedByEmptyPart
  <2>6. CASE covered[m] # m
    <3>1. m \in CoveredBytes /\ m \in lo .. hi - 1
      BY <1>1, <2>1, <2>3, <2>4, <2>6 DEF CoveredBytes
    <3>. QED
      BY <3>1
  <2>. QED
    BY <2>5, <2>6
<1>. QED
  BY <1>4, <1>5 DEF Verdict

\* add_part never refuses a well-formed part the file still needs, except
\* behind an empty part stored at offset 0.
THEOREM NeededPartsAccepted == Spec => []NeededPartAccepted
  BY NeededPartAcceptedOfInv, Invariance, PTL

LEMMA FinishVerified ==
  Inv /\ [Next]_vars
    => [output' # None /\ output' # output
          => \A c \in carried : Crc32(output') = c]_vars
<1>. SUFFICES ASSUME Inv, [Next]_vars, output' # None, output' # output,
                     NEW c \in carried
              PROVE  Crc32(output') = c
  BY DEF vars
<1>1. Finish
  <2>1. ASSUME NEW n \in RequestedSizes, New(n)  PROVE FALSE
    BY <2>1 DEF New
  <2>2. ASSUME NEW d \in CrcValue, SetExpectedCrc32(d)  PROVE FALSE
    BY <2>2 DEF SetExpectedCrc32
  <2>3. ASSUME NEW p \in DecodedParts, AddPart(p)  PROVE FALSE
    BY <2>3 DEF AddPart
  <2>4. CASE UNCHANGED vars
    BY <2>4 DEF vars
  <2>. QED
    BY <2>1, <2>2, <2>3, <2>4 DEF Next
<1>2. FinishVerdict = "Finished" /\ output' = buffer
  BY <1>1 DEF Finish
<1>3. c = expectedCrc /\ expectedCrc # None
  BY DEF Inv, CrcProvenance
<1>. QED
  BY <1>2, <1>3 DEF FinishVerdict

\* Every file handed over has the whole-file CRC that the caller set last, and the
\* one that the parts accepted since announced.
THEOREM HandedOverFileVerified == Spec => FinishedFileVerified
  BY Invariance, FinishVerified, PTL DEF Spec, FinishedFileVerified

-----------------------------------------------------------------------------
(* The assembler implements FileAssembly.                                  *)

LEMMA InitRefines == Init => Promise!Init
  BY DEF Init, Promise!Init, KnownBytes, Live, Empty, Promise!NoBytes

LEMMA NewRefines ==
  ASSUME Inv, NEW n \in Nat, New(n)
  PROVE  Promise!Next \/ UNCHANGED Promise!fileVars
<1>1. n \in Nat /\ MaxTotalSize \in Nat /\ None \notin Nat
  BY ConstantsAssumption
<1>2. CASE n > MaxTotalSize
  <2>1. UNCHANGED <<totalSize, buffer, covered, output>>
    BY <1>2 DEF New
  <2>. QED
    BY <2>1 DEF Promise!fileVars, KnownBytes, Live, CoveredBytes
<1>3. CASE ~(n > MaxTotalSize)
  <2>1. totalSize = None /\ totalSize' = n /\ output' = None /\ covered' = covered
    BY <1>3 DEF New
  <2>2. covered' = Empty
    BY <2>1 DEF Inv, TypeOK, Live
  <2>3. CoveredBytes' = {}
    BY <2>2 DEF CoveredBytes, Empty
  <2>4. KnownBytes' = Promise!NoBytes
    BY <1>1, <2>1, <2>3 DEF KnownBytes, Live, Promise!NoBytes, Empty
  <2>. QED
    BY <1>1, <2>1, <2>4 DEF Promise!Next, Promise!Start
<1>. QED
  BY <1>2, <1>3

LEMMA AddPartRefines ==
  ASSUME Inv, NEW p \in Part, AddPart(p)
  PROVE  Promise!Next \/ UNCHANGED Promise!fileVars
<1>1. Live /\ Live' /\ UNCHANGED <<totalSize, output>>
  BY DEF AddPart, Live
<1>2. CASE Verdict(p) # "Added"
  <2>1. UNCHANGED <<totalSize, buffer, covered, output>>
    BY <1>2 DEF AddPart
  <2>. QED
    BY <2>1 DEF Promise!fileVars, KnownBytes, Live, CoveredBytes
<1>3. CASE Verdict(p) = "Added"
  <2>. DEFINE lo == Lo(p)
              hi == Hi(p)
  <2>1. /\ p \in Part /\ totalSize \in Nat
        /\ lo \in 0 .. totalSize /\ hi \in lo .. totalSize
        /\ Len(p.data) = hi - lo
        /\ \A a \in DOMAIN covered : a <= lo => covered[a] <= lo
        /\ \A a \in DOMAIN covered : a >= lo => hi <= a
    BY <1>1, <1>3, NeighboursSuffice DEF Inv
  <2>2. Store(p)
    BY <1>3 DEF AddPart
  <2>3. /\ DOMAIN covered \subseteq 0 .. totalSize
        /\ \A a \in DOMAIN covered : covered[a] \in a .. totalSize
    BY <1>1 DEF Inv, TypeOK
  <2>4. /\ DOMAIN covered' = DOMAIN covered \cup {lo}
        /\ covered'[lo] = hi
        /\ \A a \in DOMAIN covered : a # lo => covered'[a] = covered[a]
    BY <2>2 DEF Store
  <2>5. lo \in DOMAIN covered => covered[lo] = lo /\ hi = lo
    BY <2>1, <2>3
  <2>6. \A o \in lo .. hi - 1 : o \notin CoveredBytes
    <3>. SUFFICES ASSUME NEW o \in lo .. hi - 1, NEW a \in DOMAIN covered,
                         a <= o, o < covered[a]
                  PROVE  FALSE
      BY DEF CoveredBytes
    <3>1. a \in 0 .. totalSize /\ covered[a] \in 0 .. totalSize
      BY <2>1, <2>3
    <3>. QED
      BY <2>1, <3>1
  <2>7. CoveredBytes' = CoveredBytes \cup (lo .. hi - 1)
    <3>1. ASSUME NEW o \in CoveredBytes'
          PROVE  o \in CoveredBytes \cup (lo .. hi - 1)
      <4>1. PICK a \in DOMAIN covered' : a <= o /\ o < covered'[a]
        BY DEF CoveredBytes
      <4>2. o \in 0 .. totalSize - 1
        BY <1>1 DEF CoveredBytes
      <4>3. CASE a = lo
        BY <2>1, <2>4, <4>1, <4>2, <4>3
      <4>4. CASE a # lo
        BY <2>4, <4>1, <4>2, <4>4 DEF CoveredBytes
      <4>. QED
        BY <4>3, <4>4
    <3>2. ASSUME NEW o \in CoveredBytes  PROVE o \in CoveredBytes'
      <4>1. PICK a \in DOMAIN covered : a <= o /\ o < covered[a]
        BY DEF CoveredBytes
      <4>2. o \in 0 .. totalSize - 1
        BY DEF CoveredBytes
      <4>3. a # lo
        BY <2>1, <2>5, <4>1, <4>2
      <4>. QED
        BY <1>1, <2>4, <4>1, <4>2, <4>3 DEF CoveredBytes
    <3>3. ASSUME NEW o \in lo .. hi - 1  PROVE o \in CoveredBytes'
      BY <1>1, <2>1, <2>4 DEF CoveredBytes
    <3>. QED
      BY <3>1, <3>2, <3>3
  <2>8. KnownBytes = [o \in CoveredBytes |-> buffer[o]]
    BY <1>1 DEF KnownBytes
  <2>9. KnownBytes' = [o \in CoveredBytes' |-> buffer'[o]]
    BY <1>1 DEF KnownBytes
  <2>10. DOMAIN KnownBytes' = DOMAIN KnownBytes \cup (lo .. hi - 1)
    BY <2>7, <2>8, <2>9
  <2>11. ASSUME NEW o \in lo .. hi - 1  PROVE KnownBytes'[o] \in Byte
    <3>1. o \in 0 .. totalSize - 1 /\ o \in CoveredBytes'
      BY <2>1, <2>7
    <3>2. buffer' \in [0 .. totalSize - 1 -> Byte]
      BY <1>1, AddPartInv DEF Inv, TypeOK
    <3>. QED
      BY <2>9, <3>1, <3>2
  <2>12. ASSUME NEW o \in DOMAIN KnownBytes  PROVE KnownBytes'[o] = KnownBytes[o]
    <3>1. o \in CoveredBytes /\ o \in CoveredBytes'
      BY <2>7, <2>8
    <3>2. o \in 0 .. totalSize - 1 /\ ~(lo <= o /\ o < hi)
      BY <2>1, <2>6, <3>1 DEF CoveredBytes
    <3>3. buffer'[o] = buffer[o]
      BY <2>2, <3>2 DEF Store
    <3>. QED
      BY <2>8, <2>9, <3>1, <3>3
  <2>13. \A o \in lo .. hi - 1 : o \notin DOMAIN KnownBytes
    BY <2>6, <2>8
  <2>14. lo \in 0 .. totalSize /\ hi \in 0 .. totalSize /\ lo <= hi
    BY <2>1
  <2>15. totalSize # None
    BY <1>1 DEF Live
  <2>16. Promise!Learn
    BY <1>1, <2>10, <2>11, <2>12, <2>13, <2>14, <2>15 DEF Promise!Learn
  <2>. QED
    BY <2>16 DEF Promise!Next
<1>. QED
  BY <1>2, <1>3

LEMMA FinishRefines ==
  ASSUME Inv, Finish
  PROVE  Promise!Next
<1>1. /\ Live /\ totalSize # None /\ totalSize' = None
      /\ KnownBytes = [o \in CoveredBytes |-> buffer[o]]
      /\ KnownBytes' = Promise!NoBytes
  BY DEF Finish, Live, KnownBytes, Empty, Promise!NoBytes
<1>2. CASE FinishVerdict # "Finished"
  BY <1>1, <1>2 DEF Finish, Promise!Next, Promise!Abandon
<1>3. CASE FinishVerdict = "Finished"
  <2>1. MissingRanges = {} /\ output' = buffer
    BY <1>3 DEF FinishVerdict, Finish
  <2>2. CoveredBytes = 0 .. totalSize - 1
    <3>1. (0 .. totalSize - 1) \ CoveredBytes = {}
      BY <1>1, <2>1, GapsExactOfInv DEF Inv, GapsExact
    <3>. QED
      BY <3>1 DEF CoveredBytes
  <2>3. buffer \in [0 .. totalSize - 1 -> Byte]
    BY <1>1 DEF Inv, TypeOK
  <2>4. output' = KnownBytes
    BY <1>1, <2>1, <2>2, <2>3
  <2>. QED
    BY <1>1, <2>2, <2>4 DEF Promise!Next, Promise!Deliver
<1>. QED
  BY <1>2, <1>3

LEMMA NextRefines == Inv /\ [Next]_vars => [Promise!Next]_Promise!fileVars
<1>. SUFFICES ASSUME Inv, [Next]_vars
              PROVE  Promise!Next \/ UNCHANGED Promise!fileVars
  OBVIOUS
<1>1. ASSUME NEW n \in RequestedSizes, New(n)
      PROVE  Promise!Next \/ UNCHANGED Promise!fileVars
  BY <1>1, NewRefines, ConstantsAssumption
<1>2. ASSUME NEW c \in CrcValue, SetExpectedCrc32(c)
      PROVE  UNCHANGED Promise!fileVars
  BY <1>2 DEF SetExpectedCrc32, Promise!fileVars, KnownBytes, Live, CoveredBytes
<1>3. ASSUME NEW p \in DecodedParts, AddPart(p)
      PROVE  Promise!Next \/ UNCHANGED Promise!fileVars
  BY <1>3, AddPartRefines, ConstantsAssumption
<1>4. CASE Finish
  BY <1>4, FinishRefines
<1>5. CASE UNCHANGED vars
  BY <1>5 DEF vars, Promise!fileVars, KnownBytes, Live, CoveredBytes
<1>. QED
  BY <1>1, <1>2, <1>3, <1>4, <1>5 DEF Next

\* Every behaviour of the assembler is one of FileAssembly: a byte, once
\* covered, never changes, and finish delivers only a complete file.
THEOREM Refinement == Spec => ImplementsFileAssembly
  BY InitRefines, NextRefines, Invariance, PTL
     DEF Spec, ImplementsFileAssembly, Promise!Spec

-----------------------------------------------------------------------------
(* What is read from the lines of a posted article.                        *)

\* A field that stands once in front of any name= is read.
LEMMA FieldIsRead ==
  ASSUME NEW tokens, NEW i \in 1 .. Len(tokens), Len(tokens) \in Nat,
         DOMAIN tokens = 1 .. Len(tokens),
         tokens[i].key # None,
         \A j \in 1 .. i : tokens[j].key # "name",
         \A j \in 1 .. Len(tokens) : tokens[j].key = tokens[i].key => j = i
  PROVE  Yenc!ValueOf(tokens, tokens[i].key) = tokens[i].value
<1>. DEFINE at == {j \in Yenc!KvIter(tokens) : tokens[j].key = tokens[i].key}
<1>1. i \in at
  BY DEF Yenc!KvIter
<1>2. \A j \in at : j = i
  BY DEF Yenc!KvIter
<1>3. at = {i}
  <2>. HIDE DEF at
  <2>. QED
    BY <1>1, <1>2, Zenon
<1>4. Yenc!Max({i}) = i
  <2>1. i >= i
    OBVIOUS
  <2>. QED
    BY <2>1 DEF Yenc!Max
<1>. QED
  BY <1>3, <1>4 DEF Yenc!ValueOf

LEMMA RangeIsRead ==
  ASSUME NEW begin, NEW end
  PROVE  LET fields == Yenc!ParseYpart(<<Yenc!Field("begin", begin), Yenc!Field("end", end)>>)
         IN  fields.begin = begin /\ fields.end = end
<1>. DEFINE tokens == <<Yenc!Field("begin", begin), Yenc!Field("end", end)>>
<1>1. /\ Len(tokens) = 2 /\ DOMAIN tokens = 1 .. Len(tokens)
      /\ tokens[1].key = "begin" /\ tokens[1].value = begin
      /\ tokens[2].key = "end" /\ tokens[2].value = end
  BY DEF Yenc!Field
<1>. HIDE DEF tokens
<1>2. Yenc!ValueOf(tokens, "begin") = begin
  <2>1. Yenc!ValueOf(tokens, tokens[1].key) = tokens[1].value
    <3>1. 1 \in 1 .. Len(tokens) /\ tokens[1].key # None /\ Len(tokens) \in Nat
      BY <1>1, NoneIsAbsent
    <3>2. 1 .. 1 = {1} /\ 1 .. Len(tokens) = {1, 2}
      BY <1>1
    <3>3. \A j \in 1 .. 1 : tokens[j].key # "name"
      BY <1>1, <3>2
    <3>4. \A j \in 1 .. Len(tokens) : tokens[j].key = tokens[1].key => j = 1
      BY <1>1, <3>2
    <3>. QED
      BY <1>1, <3>1, <3>3, <3>4, FieldIsRead, Zenon
  <2>. QED
    BY <1>1, <2>1
<1>3. Yenc!ValueOf(tokens, "end") = end
  <2>1. Yenc!ValueOf(tokens, tokens[2].key) = tokens[2].value
    <3>1. 2 \in 1 .. Len(tokens) /\ tokens[2].key # None /\ Len(tokens) \in Nat
      BY <1>1, NoneIsAbsent
    <3>2. 1 .. 2 = {1, 2} /\ 1 .. Len(tokens) = {1, 2}
      BY <1>1
    <3>3. \A j \in 1 .. 2 : tokens[j].key # "name"
      BY <1>1, <3>2
    <3>4. \A j \in 1 .. Len(tokens) : tokens[j].key = tokens[2].key => j = 2
      BY <1>1, <3>2
    <3>. QED
      BY <1>1, <3>1, <3>3, <3>4, FieldIsRead, Zenon
  <2>. QED
    BY <1>1, <2>1
<1>. QED
  BY <1>2, <1>3 DEF Yenc!ParseYpart, tokens

LEMMA TrailerIsRead ==
  ASSUME NEW size, NEW part, NEW pcrc32, NEW crc32
  PROVE  LET fields == Yenc!ParseYend(<<Yenc!Field("size", size), Yenc!Field("part", part),
                                        Yenc!Field("pcrc32", pcrc32), Yenc!Field("crc32", crc32)>>)
         IN  fields = [parses |-> fields.parses, size |-> size, pcrc32 |-> pcrc32, crc32 |-> crc32]
<1>. DEFINE tokens == <<Yenc!Field("size", size), Yenc!Field("part", part),
                        Yenc!Field("pcrc32", pcrc32), Yenc!Field("crc32", crc32)>>
<1>1. /\ Len(tokens) = 4 /\ DOMAIN tokens = 1 .. Len(tokens)
      /\ tokens[1].key = "size" /\ tokens[1].value = size
      /\ tokens[2].key = "part"
      /\ tokens[3].key = "pcrc32" /\ tokens[3].value = pcrc32
      /\ tokens[4].key = "crc32" /\ tokens[4].value = crc32
  BY DEF Yenc!Field
<1>. HIDE DEF tokens
<1>2. Yenc!ValueOf(tokens, "size") = size
  <2>1. Yenc!ValueOf(tokens, tokens[1].key) = tokens[1].value
    <3>1. 1 \in 1 .. Len(tokens) /\ tokens[1].key # None /\ Len(tokens) \in Nat
      BY <1>1, NoneIsAbsent
    <3>2. 1 .. 1 = {1} /\ 1 .. Len(tokens) = {1, 2, 3, 4}
      BY <1>1
    <3>3. \A j \in 1 .. 1 : tokens[j].key # "name"
      BY <1>1, <3>2
    <3>4. \A j \in 1 .. Len(tokens) : tokens[j].key = tokens[1].key => j = 1
      BY <1>1, <3>2
    <3>. QED
      BY <1>1, <3>1, <3>3, <3>4, FieldIsRead, Zenon
  <2>. QED
    BY <1>1, <2>1
<1>3. Yenc!ValueOf(tokens, "pcrc32") = pcrc32
  <2>1. Yenc!ValueOf(tokens, tokens[3].key) = tokens[3].value
    <3>1. 3 \in 1 .. Len(tokens) /\ tokens[3].key # None /\ Len(tokens) \in Nat
      BY <1>1, NoneIsAbsent
    <3>2. 1 .. 3 = {1, 2, 3} /\ 1 .. Len(tokens) = {1, 2, 3, 4}
      BY <1>1
    <3>3. \A j \in 1 .. 3 : tokens[j].key # "name"
      BY <1>1, <3>2
    <3>4. \A j \in 1 .. Len(tokens) : tokens[j].key = tokens[3].key => j = 3
      BY <1>1, <3>2
    <3>. QED
      BY <1>1, <3>1, <3>3, <3>4, FieldIsRead, Zenon
  <2>. QED
    BY <1>1, <2>1
<1>4. Yenc!ValueOf(tokens, "crc32") = crc32
  <2>1. Yenc!ValueOf(tokens, tokens[4].key) = tokens[4].value
    <3>1. 4 \in 1 .. Len(tokens) /\ tokens[4].key # None /\ Len(tokens) \in Nat
      BY <1>1, NoneIsAbsent
    <3>2. 1 .. 4 = {1, 2, 3, 4} /\ 1 .. Len(tokens) = {1, 2, 3, 4}
      BY <1>1
    <3>3. \A j \in 1 .. 4 : tokens[j].key # "name"
      BY <1>1, <3>2
    <3>4. \A j \in 1 .. Len(tokens) : tokens[j].key = tokens[4].key => j = 4
      BY <1>1, <3>2
    <3>. QED
      BY <1>1, <3>1, <3>3, <3>4, FieldIsRead, Zenon
  <2>. QED
    BY <1>1, <2>1
<1>. QED
  BY <1>2, <1>3, <1>4 DEF Yenc!ParseYend, tokens

\* The part number, in front of whatever name.
LEMMA PartIsRead ==
  ASSUME NEW how \in Setups, NEW k \in Nat, NEW total, NEW line, NEW size
  PROVE  Yenc!ParseYbegin(<<Yenc!Field("part", k), Yenc!Field("total", total),
                            Yenc!Field("line", line), Yenc!Field("size", size)>> \o how.name).part = k
<1>. DEFINE front == <<Yenc!Field("part", k), Yenc!Field("total", total),
                       Yenc!Field("line", line), Yenc!Field("size", size)>>
            payload == front \o how.name
            S == Range(front) \cup Range(how.name)
<1>1. /\ Len(front) = 4 /\ DOMAIN front = 1 .. 4
      /\ front[1].key = "part" /\ front[2].key = "total" /\ front[3].key = "line"
      /\ front[4].key = "size" /\ front[1].value = k
  BY DEF Yenc!Field
<1>2. front \in Seq(S)
  <2>1. \A i \in 1 .. 4 : front[i] \in S
    <3>. HIDE DEF front
    <3>. QED
      BY <1>1 DEF Range
  <2>. QED
    BY <2>1
<1>3. how.name \in Seq(S) /\ how.name # <<>> /\ how.name[1].key = "name"
      /\ how.name[1].sep = "space"
  BY NamesAssumption
<1>. HIDE DEF front, S
<1>4. Len(how.name) \in Nat /\ Len(how.name) >= 1
  BY <1>3
<1>5. /\ payload \in Seq(S) /\ Len(payload) = 4 + Len(how.name)
      /\ \A i \in 1 .. 4 + Len(how.name) :
           payload[i] = IF i <= 4 THEN front[i] ELSE how.name[i - 4]
  <2>1. /\ payload \in Seq(S) /\ Len(payload) = Len(front) + Len(how.name)
        /\ \A i \in 1 .. Len(front) + Len(how.name) :
             payload[i] = IF i <= Len(front) THEN front[i] ELSE how.name[i - Len(front)]
    BY <1>2, <1>3, ConcatProperties, Zenon
  <2>2. Len(front) = 4
    BY <1>1
  <2>. HIDE DEF payload
  <2>. QED
    BY <2>1, <2>2
<1>. HIDE DEF payload
<1>6. DOMAIN payload = 1 .. 4 + Len(how.name)
  BY <1>5
<1>7. \A i \in 1 .. 4 : payload[i] = front[i]
  BY <1>4, <1>5
<1>8. payload[5] = how.name[1] /\ 5 \in DOMAIN payload /\ 1 \in DOMAIN payload
  <2>1. 5 \in 1 .. 4 + Len(how.name) /\ ~(5 <= 4) /\ 5 - 4 = 1
    BY <1>4
  <2>. QED
    BY <1>5, <1>6, <2>1
<1>9. \A i \in 1 .. 4 : payload[i].key # "name"
  BY <1>1, <1>7
<1>10. Yenc!FindNameParam(payload) = 5
  <2>. DEFINE behind == Yenc!NamesBehind(payload, "space")
  <2>1. 5 \in behind
    BY <1>3, <1>8 DEF Yenc!NamesBehind
  <2>2. behind \in SUBSET Nat /\ \A i \in behind : 5 <= i
    <3>. SUFFICES ASSUME NEW i \in behind  PROVE i \in Nat /\ 5 <= i
      OBVIOUS
    <3>1. i \in 1 .. 4 + Len(how.name) /\ payload[i].key = "name"
      BY <1>6 DEF Yenc!NamesBehind
    <3>. QED
      BY <1>4, <1>9, <3>1
  <2>3. Yenc!Min(behind) = 5
    <3>. HIDE DEF behind
    <3>1. Min(behind) = 5
      BY <2>1, <2>2, MinUnique
    <3>2. Yenc!Min(behind) = Min(behind)
      BY Zenon DEF Yenc!Min, Min
    <3>. QED
      BY <3>1, <3>2
  <2>4. payload[1].key # "name"
    BY <1>9
  <2>. QED
    BY <2>1, <2>3, <2>4 DEF Yenc!FindNameParam
<1>. DEFINE tokens == SubSeq(payload, 1, 4)
<1>11. Yenc!BeforeName(payload) = tokens
  BY <1>10 DEF Yenc!BeforeName
<1>12. /\ Len(tokens) = 4 /\ DOMAIN tokens = 1 .. Len(tokens)
       /\ \A i \in 1 .. 4 : tokens[i] = payload[i]
  <2>1. 1 \in 1 .. Len(payload) + 1 /\ 4 \in 0 .. Len(payload)
    BY <1>4, <1>5
  <2>. QED
    BY <1>5, <2>1, SubSeqProperties
<1>. HIDE DEF tokens
<1>13. Yenc!ValueOf(tokens, tokens[1].key) = tokens[1].value
  <2>1. /\ tokens[1].key = "part" /\ tokens[2].key = "total" /\ tokens[3].key = "line"
        /\ tokens[4].key = "size"
    BY <1>1, <1>7, <1>12
  <2>. QED
    BY <1>12, <2>1, NoneIsAbsent, FieldIsRead
<1>14. tokens[1].key = "part" /\ tokens[1].value = k
  BY <1>1, <1>7, <1>12
<1>15. Yenc!ValueOf(Yenc!BeforeName(payload), "part") = k
  BY <1>11, <1>13, <1>14
<1>. QED
  BY <1>15 DEF Yenc!ParseYbegin, payload, front

-----------------------------------------------------------------------------
\* The lines of a posted article.
LEMMA PartOfFile ==
  ASSUME NEW k \in Parts
  PROVE  /\ FirstOffset(k) \in Nat /\ PartEnds[k] \in Nat
         /\ FirstOffset(k) <= PartEnds[k] /\ PartEnds[k] <= Len(File)
         /\ PartBytes(k) \in Seq(Byte) /\ Len(PartBytes(k)) = PartEnds[k] - FirstOffset(k)
         /\ \A i \in 1 .. Len(PartBytes(k)) : PartBytes(k)[i] = File[FirstOffset(k) + i]
<1>1. /\ Len(PartEnds) \in Nat /\ k \in 1 .. Len(PartEnds) /\ Len(File) \in Nat
      /\ \A j \in 1 .. Len(PartEnds) : PartEnds[j] \in 0 .. Len(File)
  BY FileAssumption DEF Parts
<1>2. /\ FirstOffset(k) \in Nat /\ PartEnds[k] \in Nat
      /\ FirstOffset(k) <= PartEnds[k] /\ PartEnds[k] <= Len(File)
  <2>1. CASE k = 1
    BY <1>1, <2>1 DEF FirstOffset
  <2>2. CASE k # 1
    <3>1. k \in 2 .. Len(PartEnds) /\ k - 1 \in 1 .. Len(PartEnds)
      BY <1>1, <2>2
    <3>. QED
      BY <1>1, <2>2, <3>1, FileAssumption DEF FirstOffset
  <2>. QED
    BY <2>1, <2>2
<1>. DEFINE m == FirstOffset(k) + 1
            n == PartEnds[k]
<1>3. m \in 1 .. Len(File) + 1 /\ n \in m - 1 .. Len(File) /\ m \in Nat /\ n \in Nat
  BY <1>1, <1>2
<1>. HIDE DEF m, n
<1>4. \A i \in m .. n : File[i] \in Byte
  <2>1. \A i \in m .. n : i \in 1 .. Len(File)
    BY <1>1, <1>3
  <2>. QED
    BY <1>1, <2>1, FileAssumption
<1>5. /\ SubSeq(File, m, n) \in Seq(Byte)
      /\ Len(SubSeq(File, m, n)) = IF m <= n THEN n - m + 1 ELSE 0
      /\ \A i \in 1 .. n - m + 1 : SubSeq(File, m, n)[i] = File[m + i - 1]
  BY <1>3, <1>4, SubSeqProperties
<1>6. PartBytes(k) = SubSeq(File, m, n)
  BY DEF PartBytes, m, n
<1>7. Len(PartBytes(k)) = n - m + 1
  BY <1>3, <1>5, <1>6
<1>8. n - m + 1 = PartEnds[k] - FirstOffset(k)
  BY <1>2 DEF m, n
<1>9. \A i \in 1 .. n - m + 1 : m + i - 1 = FirstOffset(k) + i
  BY <1>2, <1>8 DEF m
<1>. QED
  BY <1>2, <1>5, <1>6, <1>7, <1>8, <1>9

\* What the lines of part k hold.
PostedLine(line, k, how) ==
  /\ line.bytes \in Seq(Byte)
  /\ \/ line.kind = "ybegin" /\ line.fields.part = k
     \/ /\ line.kind = "ypart"
        /\ line.fields.begin = FirstOffset(k) + 1 /\ line.fields.end = PartEnds[k]
     \/ line.kind = "data"
     \/ /\ line.kind = "yend"
        /\ line.fields.size = Len(PartBytes(k))
        /\ line.fields.pcrc32 = IF how.partCrc THEN SeqCrc32(PartBytes(k)) ELSE None
        /\ line.fields.crc32 = IF how.wholeCrc THEN SeqCrc32(File) ELSE None

LEMMA PostedLines ==
  ASSUME NEW how \in Setups, NEW k \in Parts
  PROVE  LET a == Posted(k, how)
         IN  /\ \E S : a \in Seq(S)
             /\ Len(a) = Len(PartBytes(k)) + 3
             /\ \A i \in 1 .. Len(a) : PostedLine(a[i], k, how)
             /\ a[1].kind = "ybegin" /\ a[2].kind = "ypart" /\ a[Len(a)].kind = "yend"
             /\ \A i \in 3 .. Len(a) - 1 : a[i].kind = "data" /\ a[i].bytes = <<PartBytes(k)[i - 2]>>
<1>. DEFINE data == PartBytes(k)
            body == [i \in 1 .. Len(data) |-> Yenc!DataLine(<<data[i]>>)]
            rubbish == <<ZeroByte, ZeroByte>>
            begin == Yenc!Ybegin(<<Yenc!Field("part", k), Yenc!Field("total", Len(PartEnds)),
                                   Yenc!Field("line", 128), Yenc!Field("size", Len(File))>>
                                 \o how.name, rubbish)
            range == Yenc!Ypart(<<Yenc!Field("begin", FirstOffset(k) + 1),
                                  Yenc!Field("end", PartEnds[k])>>, rubbish)
            end == Yenc!Yend(<<Yenc!Field("size", Len(data)), Yenc!Field("part", k),
                               Yenc!Field("pcrc32", SeqCrc32(data)),
                               Yenc!Field("crc32", SeqCrc32(File))>>, rubbish)
            full == <<begin, range>> \o body \o <<end>>
            S == {begin, range, end} \cup Range(body)
<1>1. data \in Seq(Byte) /\ Len(data) \in Nat /\ k \in Nat
  BY PartOfFile, FileAssumption DEF Parts
<1>2. rubbish \in Seq(Byte)
  BY ConstantsAssumption
<1>3. begin.kind = "ybegin" /\ begin.fields.part = k /\ begin.bytes = rubbish
  BY <1>1, PartIsRead DEF Yenc!Ybegin, Yenc!Line
<1>4. /\ range.kind = "ypart" /\ range.fields.begin = FirstOffset(k) + 1
      /\ range.fields.end = PartEnds[k] /\ range.bytes = rubbish
  BY RangeIsRead DEF Yenc!Ypart, Yenc!Line
<1>5. \E p : end = [kind |-> "yend", bytes |-> rubbish,
                    fields |-> [parses |-> p, size |-> Len(data), pcrc32 |-> SeqCrc32(data),
                                crc32 |-> SeqCrc32(File)]]
  <2>. DEFINE fields == Yenc!ParseYend(<<Yenc!Field("size", Len(data)), Yenc!Field("part", k),
                                         Yenc!Field("pcrc32", SeqCrc32(data)),
                                         Yenc!Field("crc32", SeqCrc32(File))>>)
  <2>1. fields = [parses |-> fields.parses, size |-> Len(data), pcrc32 |-> SeqCrc32(data),
                  crc32 |-> SeqCrc32(File)]
    BY TrailerIsRead
  <2>2. end = [kind |-> "yend", fields |-> fields, bytes |-> rubbish]
    BY DEF Yenc!Yend, Yenc!Line
  <2>. HIDE DEF fields, end, rubbish, data
  <2>. QED
    BY <2>1, <2>2
<1>6. \A i \in 1 .. Len(data) : /\ body[i].kind = "data" /\ body[i].bytes = <<data[i]>>
                                /\ <<data[i]>> \in Seq(Byte)
  BY <1>1 DEF Yenc!DataLine, Yenc!Line
<1>. HIDE DEF begin, range, end, rubbish
<1>7. body \in Seq(S) /\ Len(body) = Len(data) /\ <<begin, range>> \in Seq(S) /\ <<end>> \in Seq(S)
  <2>1. DOMAIN body = 1 .. Len(data) /\ \A i \in 1 .. Len(data) : body[i] \in S
    BY DEF Range
  <2>. HIDE DEF body, S
  <2>2. body \in Seq(S) /\ Len(body) = Len(data)
    BY <1>1, <2>1 DEF body
  <2>. QED
    BY <2>2 DEF S
<1>. HIDE DEF body, S
<1>8. Len(<<begin, range>>) = 2 /\ <<begin, range>>[1] = begin /\ <<begin, range>>[2] = range
      /\ Len(<<end>>) = 1 /\ <<end>>[1] = end
  OBVIOUS
<1>9. /\ full \in Seq(S) /\ Len(full) = 2 + Len(data) + 1
      /\ \A i \in 1 .. 2 : full[i] = <<begin, range>>[i]
      /\ \A i \in 1 .. Len(data) : full[2 + i] = body[i]
      /\ \A i \in 1 .. 1 : full[2 + Len(data) + i] = <<end>>[i]
  <2>. DEFINE a == <<begin, range>>
              c == <<end>>
  <2>1. a \in Seq(S) /\ c \in Seq(S) /\ Len(a) = 2 /\ Len(c) = 1
    BY <1>7, <1>8
  <2>2. body \in Seq(S) /\ Len(body) = Len(data)
    BY <1>7
  <2>. HIDE DEF a, c
  <2>3. /\ a \o body \o c \in Seq(S)
        /\ Len(a \o body \o c) = Len(a) + Len(body) + Len(c)
        /\ \A i \in 1 .. Len(a) : (a \o body \o c)[i] = a[i]
        /\ \A i \in 1 .. Len(body) : (a \o body \o c)[Len(a) + i] = body[i]
        /\ \A i \in 1 .. Len(c) : (a \o body \o c)[Len(a) + Len(body) + i] = c[i]
    <3>1. a \in Seq(S)
      BY <2>1
    <3>2. c \in Seq(S)
      BY <2>1
    <3>3. body \in Seq(S)
      BY <2>2
    <3>. QED
      BY <3>1, <3>2, <3>3, ThreeInARow, SMT
  <2>. QED
    BY <2>1, <2>2, <2>3 DEF a, c, full
<1>. HIDE DEF full
<1>10. /\ DOMAIN full = 1 .. Len(data) + 3 /\ Len(full) = Len(data) + 3
       /\ full[1] = begin /\ full[2] = range /\ full[Len(data) + 3] = end
  <2>1. Len(full) = Len(data) + 3 /\ DOMAIN full = 1 .. Len(full)
    BY <1>1, <1>9
  <2>2. 2 + Len(data) + 1 = Len(data) + 3 /\ 1 \in 1 .. 1 /\ 1 \in 1 .. 2 /\ 2 \in 1 .. 2
    BY <1>1
  <2>. QED
    BY <1>8, <1>9, <2>1, <2>2
<1>. DEFINE n == Len(data) + 3
            a == Posted(k, how)
            kept == [end.fields EXCEPT !.crc32 = IF how.wholeCrc THEN @ ELSE None,
                                       !.pcrc32 = IF how.partCrc THEN @ ELSE None]
<1>11. a = [full EXCEPT ![n] = [end EXCEPT !.fields = kept]]
  <2>1. Last(full) = end
    BY <1>10 DEF Last
  <2>2. a = [full EXCEPT ![Len(full)] =
               [Last(full) EXCEPT !.fields =
                  [Last(full).fields EXCEPT !.crc32 = IF how.wholeCrc THEN @ ELSE None,
                                            !.pcrc32 = IF how.partCrc THEN @ ELSE None]]]
    BY DEF Posted, full, begin, range, end, body, rubbish, Yenc!EncodePart
  <2>. QED
    BY <1>10, <2>1, <2>2
<1>12. n \in Nat /\ 1 \in 1 .. n /\ 2 \in 1 .. n /\ n \in 1 .. n /\ n # 1 /\ n # 2
  BY <1>1
<1>13. DOMAIN a = 1 .. n /\ \A i \in 1 .. n : i # n => a[i] = full[i]
  BY <1>10, <1>11
<1>14. /\ a[n].kind = "yend" /\ a[n].bytes = rubbish /\ a[n].fields.size = Len(data)
       /\ a[n].fields.pcrc32 = IF how.partCrc THEN SeqCrc32(data) ELSE None
       /\ a[n].fields.crc32 = IF how.wholeCrc THEN SeqCrc32(File) ELSE None
  <2>1. PICK p : end = [kind |-> "yend", bytes |-> rubbish,
                        fields |-> [parses |-> p, size |-> Len(data), pcrc32 |-> SeqCrc32(data),
                                    crc32 |-> SeqCrc32(File)]]
    BY <1>5
  <2>2. /\ kept.size = Len(data)
        /\ kept.pcrc32 = IF how.partCrc THEN SeqCrc32(data) ELSE None
        /\ kept.crc32 = IF how.wholeCrc THEN SeqCrc32(File) ELSE None
    <3>1. end.fields = [parses |-> p, size |-> Len(data), pcrc32 |-> SeqCrc32(data),
                        crc32 |-> SeqCrc32(File)]
      BY <2>1
    <3>. DEFINE own == SeqCrc32(data)
                whole == SeqCrc32(File)
                size == Len(data)
    <3>2. end.fields = [parses |-> p, size |-> size, pcrc32 |-> own, crc32 |-> whole]
      BY <3>1
    <3>. HIDE DEF own, whole, size, a, n, data
    <3>3. /\ kept.size = size
          /\ kept.pcrc32 = IF how.partCrc THEN own ELSE None
          /\ kept.crc32 = IF how.wholeCrc THEN whole ELSE None
      BY <3>2
    <3>. QED
      BY <3>3, Zenon DEF own, whole, size
  <2>. HIDE DEF a, n, data, kept
  <2>3. a[n] = [end EXCEPT !.fields = kept]
    BY <1>10, <1>11, <1>12 DEF n
  <2>4. a[n].kind = "yend" /\ a[n].bytes = rubbish /\ a[n].fields = kept
    BY <2>1, <2>3
  <2>. QED
    BY <2>2, <2>4
<1>. HIDE DEF a, data, kept
<1>15. a \in Seq({a[i] : i \in 1 .. n}) /\ Len(a) = n
  <2>1. a = [i \in 1 .. n |-> a[i]]
    BY <1>10, <1>11, <1>13 DEF a
  <2>. QED
    BY <1>12, <1>13, <2>1
<1>16. \A i \in 3 .. n - 1 : a[i] = body[i - 2] /\ i - 2 \in 1 .. Len(data) /\ i \in 1 .. n /\ i # n
  <2>. SUFFICES ASSUME NEW i \in 3 .. n - 1
                PROVE  a[i] = body[i - 2] /\ i - 2 \in 1 .. Len(data) /\ i \in 1 .. n /\ i # n
    OBVIOUS
  <2>1. i - 2 \in 1 .. Len(data) /\ 2 + (i - 2) = i /\ i \in 1 .. n /\ i # n
    BY <1>1
  <2>. QED
    BY <1>9, <1>13, <2>1
<1>17. ASSUME NEW i \in 1 .. n  PROVE PostedLine(a[i], k, how)
  <2>1. CASE i = 1
    BY <1>2, <1>3, <1>10, <1>12, <1>13, <2>1 DEF PostedLine
  <2>2. CASE i = 2
    BY <1>2, <1>4, <1>10, <1>12, <1>13, <2>2 DEF PostedLine
  <2>3. CASE i \in 3 .. n - 1
    BY <1>6, <1>16, <2>3 DEF PostedLine
  <2>4. CASE i = n
    BY <1>2, <1>14, <2>4 DEF PostedLine, data
  <2>5. i = 1 \/ i = 2 \/ i \in 3 .. n - 1 \/ i = n
    BY <1>12
  <2>. QED
    BY <2>1, <2>2, <2>3, <2>4, <2>5
<1>18. a[1].kind = "ybegin" /\ a[2].kind = "ypart" /\ a[n].kind = "yend"
  BY <1>3, <1>4, <1>10, <1>12, <1>13, <1>14
<1>19. \A i \in 3 .. n - 1 : a[i].kind = "data" /\ a[i].bytes = <<data[i - 2]>>
  BY <1>6, <1>16
<1>. QED
  BY <1>15, <1>17, <1>18, <1>19 DEF a, data

-----------------------------------------------------------------------------
\* Every line that can be delivered was posted.
Lines == UNION {Range(series[k]) : k \in Parts}

SpoolOk ==
  /\ setup \in Setups
  /\ series = [k \in Parts |-> Posted(k, setup)]
  /\ spool \subseteq Seq(Lines)

LEMMA LinesArePosted ==
  ASSUME setup \in Setups, series = [k \in Parts |-> Posted(k, setup)]
  PROVE  /\ \A line \in Lines : \E k \in Parts : PostedLine(line, k, setup)
         /\ \A k \in Parts : series[k] \in Seq(Lines)
<1>1. ASSUME NEW k \in Parts
      PROVE  /\ \E S : series[k] \in Seq(S)
             /\ \A i \in 1 .. Len(series[k]) : PostedLine(series[k][i], k, setup)
  BY <1>1, PostedLines
<1>2. ASSUME NEW k \in Parts  PROVE series[k] \in Seq(Lines)
  <2>1. PICK S : series[k] \in Seq(S)
    BY <1>1, <1>2
  <2>2. \A i \in 1 .. Len(series[k]) : series[k][i] \in Lines
    BY <1>2, <2>1 DEF Lines, Range
  <2>. HIDE DEF Lines
  <2>. QED
    BY <2>1, <2>2
<1>3. ASSUME NEW line \in Lines  PROVE \E k \in Parts : PostedLine(line, k, setup)
  <2>1. PICK k \in Parts : line \in Range(series[k])
    BY <1>3 DEF Lines
  <2>2. PICK S : series[k] \in Seq(S)
    BY <1>1, <2>1
  <2>3. PICK i \in 1 .. Len(series[k]) : line = series[k][i]
    BY <2>1, <2>2 DEF Range
  <2>. QED
    BY <1>1, <2>1, <2>3
<1>. QED
  BY <1>2, <1>3


\* What decode() has checked when it accepts an article.
LEMMA AcceptedIs ==
  ASSUME NEW S, NEW article \in Seq(S), NEW part, part = Yenc!Decode(article),
         part.error = None
  PROVE  LET b     == Min(Yenc!LinesOf(article, "ybegin", 1))
             first == Yenc!DataStart(article, b)
             y     == Min(Yenc!LinesOf(article, "yend", first))
             ypart == IF first = b + 2 THEN article[b + 1].fields ELSE Yenc!NoYpart
             data  == Yenc!DataBetween(article, first, y)
             crc   == Yenc!CrcToCheck(article[b].fields, article[y].fields)
         IN  /\ b \in 1 .. Len(article) /\ b + 1 \in 1 .. Len(article)
             /\ article[b].kind = "ybegin"
             /\ first \in {b + 1, b + 2} /\ first \in Nat /\ first >= 1
             /\ first = b + 2 => article[b + 1].kind = "ypart"
             /\ y \in first .. Len(article) /\ y \in 1 .. Len(article)
             /\ article[y].kind = "yend" /\ Trailer(article) = article[y]
             /\ crc # None => SeqCrc32(data) = crc
             /\ article[y].fields.size # None => Len(data) = article[y].fields.size
             /\ part = Yenc!DecodedPart(data, article[b].fields, ypart, article[y].fields)
<1>. DEFINE begins == Yenc!LinesOf(article, "ybegin", 1)
            b == Min(begins)
            first == Yenc!DataStart(article, b)
            yends == Yenc!LinesOf(article, "yend", first)
            y == Min(yends)
            data == Yenc!DataBetween(article, first, y)
            ybegin == article[b].fields
            ypart == IF first = b + 2 THEN article[b + 1].fields ELSE Yenc!NoYpart
            yend == article[y].fields
<1>1. Len(article) \in Nat
  OBVIOUS
<1>3. \A T : Yenc!Min(T) = Min(T)
  BY Zenon DEF Yenc!Min, Min
<1>4. \A e \in Yenc!Errors : Yenc!Failed(e).error # None
  BY NoneIsAbsent DEF Yenc!Failed
<1>5. Yenc!Errors = {"NoHeader", "InvalidHeader", "UnexpectedEof", "CrcMismatch", "SizeMismatch"}
  BY DEF Yenc!Errors
<1>6. begins # {} /\ part = Yenc!DecodeAt(article, b)
  <2>1. Yenc!Decode(article) =
          IF begins = {} THEN Yenc!Failed("NoHeader") ELSE Yenc!DecodeAt(article, Yenc!Min(begins))
    BY DEF Yenc!Decode
  <2>2. Yenc!Min(begins) = b
    BY <1>3, Zenon
  <2>. HIDE DEF begins, b
  <2>. QED
    BY <1>4, <1>5, <2>1, <2>2
<1>7. /\ b # Len(article) /\ ypart.parses /\ yends # {}
      /\ part = Yenc!FinishDecode(data, ybegin, ypart, yend)
  <2>. HIDE DEF begins, b
  <2>1. Yenc!DecodeAt(article, b) =
          IF ~ybegin.parses \/ ybegin.name = None \/ ybegin.size = None
            THEN Yenc!Failed("InvalidHeader")
          ELSE IF b = Len(article) THEN Yenc!Failed("UnexpectedEof")
          ELSE IF ~ypart.parses THEN Yenc!Failed("InvalidHeader")
          ELSE IF yends = {} THEN Yenc!Failed("UnexpectedEof")
          ELSE Yenc!FinishDecode(data, ybegin, ypart, yend)
    <3>1. Yenc!Min(yends) = y
      BY <1>3, Zenon
    <3>. HIDE DEF first, yends, y
    <3>. QED
      BY <3>1, Zenon DEF Yenc!DecodeAt, first, yends
  <2>. HIDE DEF first, yends, y, data, ybegin, ypart, yend
  <2>. QED
    BY <1>4, <1>5, <1>6, <2>1
<1>. HIDE DEF data
<1>8. b \in begins /\ b \in 1 .. Len(article) /\ article[b].kind = "ybegin" /\ b + 1 \in 1 .. Len(article)
  <2>1. begins \in SUBSET Nat /\ \A i \in begins : i \in 1 .. Len(article) /\ article[i].kind = "ybegin"
    BY <1>1 DEF Yenc!LinesOf
  <2>. HIDE DEF begins
  <2>2. b \in begins
    BY <1>6, <2>1, MinOfNat
  <2>. HIDE DEF b
  <2>. QED
    BY <1>1, <1>7, <2>1, <2>2
<1>. HIDE DEF b
<1>9. first \in {b + 1, b + 2} /\ first \in Nat /\ first >= 1
      /\ (first = b + 2 => article[b + 1].kind = "ypart")
  BY <1>1, <1>8 DEF Yenc!DataStart
<1>10. yends = Yenc!LinesOf(article, "yend", b + 1)
  <2>. HIDE DEF first
  <2>1. \A i \in b + 1 .. Len(article) : article[i].kind = "yend" => i \in first .. Len(article)
    BY <1>1, <1>8, <1>9
  <2>2. \A i \in first .. Len(article) : i \in b + 1 .. Len(article)
    BY <1>1, <1>8, <1>9
  <2>. QED
    BY <2>1, <2>2 DEF Yenc!LinesOf
<1>11. y \in first .. Len(article) /\ article[y].kind = "yend" /\ y \in 1 .. Len(article)
  <2>1. yends \in SUBSET Nat /\ \A i \in yends : i \in first .. Len(article) /\ article[i].kind = "yend"
    <3>. HIDE DEF first
    <3>. QED
      BY <1>1, <1>9 DEF Yenc!LinesOf
  <2>. HIDE DEF yends
  <2>2. y \in yends
    BY <1>7, <2>1, MinOfNat
  <2>. HIDE DEF y, first
  <2>. QED
    BY <1>1, <1>9, <2>1, <2>2
<1>12. Trailer(article) = article[y]
  <2>1. Min(Yenc!LinesOf(article, "yend", b + 1)) = y
    BY <1>10
  <2>2. Trailer(article) = article[Min(Yenc!LinesOf(article, "yend", b + 1))]
    BY DEF Trailer, b
  <2>. QED
    BY <2>1, <2>2, Zenon
<1>. HIDE DEF begins, first, yends, y, ypart, ybegin, yend
<1>17. /\ Yenc!CrcToCheck(ybegin, yend) # None => SeqCrc32(data) = Yenc!CrcToCheck(ybegin, yend)
       /\ yend.size # None => Len(data) = yend.size
       /\ part = Yenc!DecodedPart(data, ybegin, ypart, yend)
  BY <1>4, <1>5, <1>7, Zenon DEF Yenc!FinishDecode
<1>. QED
  BY <1>8, <1>9, <1>11, <1>12, <1>17, Zenon DEF begins, b, first, yends, y, ypart, ybegin, yend, data

\* What decode() reads from an article of posted lines, in whatever order: the
\* data has the size and the CRC of the trailer.
LEMMA DecodedPartIs ==
  ASSUME SpoolOk, NEW article \in spool, NEW part, part = Yenc!Decode(article),
         part.error = None
  PROVE  \E k \in Parts :
           /\ PostedLine(Trailer(article), k, setup)
           /\ Trailer(article).kind = "yend"
           /\ part.wholeCrc = Trailer(article).fields.crc32
           /\ part.data \in Seq(Byte)
           /\ Len(part.data) = Len(PartBytes(k))
           /\ setup.partCrc => SeqCrc32(part.data) = SeqCrc32(PartBytes(k))
           /\ part.begin \in Nat \cup {None} /\ part.end \in Nat \cup {None}
<1>. DEFINE b == Min(Yenc!LinesOf(article, "ybegin", 1))
            first == Yenc!DataStart(article, b)
            y == Min(Yenc!LinesOf(article, "yend", first))
            ypart == IF first = b + 2 THEN article[b + 1].fields ELSE Yenc!NoYpart
            data == Yenc!DataBetween(article, first, y)
            ybegin == article[b].fields
            yend == article[y].fields
<1>1. article \in Seq(Lines) /\ Len(article) \in Nat
      /\ \A i \in 1 .. Len(article) : article[i] \in Lines
  BY DEF SpoolOk
<1>2. \A line \in Lines : \E k \in Parts : PostedLine(line, k, setup)
  BY LinesArePosted DEF SpoolOk
<1>3. /\ b \in 1 .. Len(article) /\ b + 1 \in 1 .. Len(article) /\ article[b].kind = "ybegin"
      /\ first \in {b + 1, b + 2} /\ first \in Nat /\ first >= 1
      /\ first = b + 2 => article[b + 1].kind = "ypart"
      /\ y \in first .. Len(article) /\ y \in 1 .. Len(article)
      /\ article[y].kind = "yend" /\ Trailer(article) = article[y]
      /\ Yenc!CrcToCheck(ybegin, yend) # None => SeqCrc32(data) = Yenc!CrcToCheck(ybegin, yend)
      /\ yend.size # None => Len(data) = yend.size
      /\ part = Yenc!DecodedPart(data, ybegin, ypart, yend)
  BY <1>1, AcceptedIs
<1>. HIDE DEF data, b, first, y, ypart
<1>13. PICK k \in Parts : PostedLine(article[y], k, setup)
  BY <1>1, <1>2, <1>3
<1>14. /\ yend.size = Len(PartBytes(k))
       /\ yend.pcrc32 = IF setup.partCrc THEN SeqCrc32(PartBytes(k)) ELSE None
       /\ yend.crc32 = IF setup.wholeCrc THEN SeqCrc32(File) ELSE None
  BY <1>3, <1>13 DEF PostedLine
<1>15. ybegin.part # None
  <2>1. PICK j \in Parts : PostedLine(article[b], j, setup)
    BY <1>1, <1>2, <1>3
  <2>2. ybegin.part = j /\ j \in Nat
    BY <1>3, <2>1, FileAssumption DEF PostedLine, Parts
  <2>. QED
    BY <2>2, ConstantsAssumption
<1>16. Yenc!CrcToCheck(ybegin, yend) = yend.pcrc32
  BY <1>15 DEF Yenc!CrcToCheck
<1>. HIDE DEF ybegin, yend
<1>18. /\ part.data = data /\ part.wholeCrc = yend.crc32
       /\ part.begin = ypart.begin /\ part.end = ypart.end
  BY <1>3 DEF Yenc!DecodedPart
<1>19. Len(PartBytes(k)) \in Nat /\ SeqCrc32(PartBytes(k)) \in CrcValue
  BY PartOfFile, FileAssumption
<1>20. Len(data) = Len(PartBytes(k)) /\ (setup.partCrc => SeqCrc32(data) = SeqCrc32(PartBytes(k)))
  <2>1. Len(PartBytes(k)) # None /\ SeqCrc32(PartBytes(k)) # None
    BY <1>19, ConstantsAssumption
  <2>. QED
    BY <1>3, <1>14, <1>16, <2>1
<1>21. data \in Seq(Byte)
  <2>. DEFINE pieces == [i \in 1 .. y - first |-> article[first + i - 1].bytes]
  <2>1. y - first \in Nat
    BY <1>1, <1>3
  <2>2. ASSUME NEW i \in 1 .. y - first  PROVE article[first + i - 1].bytes \in Seq(Byte)
    <3>1. first + i - 1 \in 1 .. Len(article)
      BY <1>1, <1>3
    <3>2. PICK j \in Parts : PostedLine(article[first + i - 1], j, setup)
      BY <1>1, <1>2, <3>1
    <3>. QED
      BY <3>2 DEF PostedLine
  <2>3. pieces \in Seq(Seq(Byte))
    BY <2>1, <2>2
  <2>4. data = FlattenSeq(pieces)
    BY DEF data, Yenc!DataBetween, Yenc!FlattenSeq, FlattenSeq
  <2>. HIDE DEF pieces
  <2>. QED
    BY <2>3, <2>4, FlattenTyped
<1>22. ypart.begin \in Nat \cup {None} /\ ypart.end \in Nat \cup {None}
  <2>1. CASE first = b + 2
    <3>1. PICK j \in Parts : PostedLine(article[b + 1], j, setup)
      BY <1>1, <1>2, <1>3
    <3>2. ypart.begin = FirstOffset(j) + 1 /\ ypart.end = PartEnds[j]
      BY <1>3, <2>1, <3>1 DEF PostedLine, ypart
    <3>. QED
      BY <3>2, PartOfFile
  <2>2. CASE first # b + 2
    <3>1. Yenc!KvIter(<<>>) = {}
      BY DEF Yenc!KvIter
    <3>2. ypart.begin = None /\ ypart.end = None
      BY <2>2, <3>1 DEF ypart, Yenc!NoYpart, Yenc!ParseYpart, Yenc!ValueOf
    <3>. QED
      BY <3>2
  <2>. QED
    BY <2>1, <2>2
<1>. QED
  BY <1>3, <1>13, <1>14, <1>18, <1>20, <1>21, <1>22 DEF yend

\* An article that was posted keeps its offsets, if decode() accepts it.
LEMMA PostedKeepsOffsets ==
  ASSUME setup \in Setups, series = [k \in Parts |-> Posted(k, setup)], NEW k \in Parts
  PROVE  KeepsOffsets(series[k])
<1>. DEFINE article == series[k]
            part == Yenc!Decode(article)
            n == Len(article)
            b == Min(Yenc!LinesOf(article, "ybegin", 1))
            first == Yenc!DataStart(article, b)
            y == Min(Yenc!LinesOf(article, "yend", first))
            ypart == IF first = b + 2 THEN article[b + 1].fields ELSE Yenc!NoYpart
            data == Yenc!DataBetween(article, first, y)
<1>. SUFFICES ASSUME part.error = None
              PROVE  /\ part.begin = FirstOffset(k) + 1 /\ part.end = PartEnds[k]
                     /\ Trailer(article) = Last(article)
  BY DEF KeepsOffsets
<1>1. /\ article = Posted(k, setup) /\ \E S : article \in Seq(S)
      /\ n = Len(PartBytes(k)) + 3 /\ n \in Nat
      /\ PostedLine(article[2], k, setup)
      /\ article[1].kind = "ybegin" /\ article[2].kind = "ypart" /\ article[n].kind = "yend"
      /\ \A i \in 3 .. n - 1 : article[i].kind = "data"
  <2>1. Len(PartBytes(k)) \in Nat
    BY PartOfFile
  <2>2. article = Posted(k, setup)
    OBVIOUS
  <2>. HIDE DEF article
  <2>. QED
    BY <2>1, <2>2, PostedLines
<1>. HIDE DEF article, n
<1>2. n >= 3
  BY <1>1, PartOfFile
<1>3. b = 1
  <2>. DEFINE begins == Yenc!LinesOf(article, "ybegin", 1)
  <2>1. begins \in SUBSET Nat /\ 1 \in begins /\ \A i \in begins : 1 <= i
    BY <1>1, <1>2 DEF Yenc!LinesOf, n
  <2>. HIDE DEF begins
  <2>2. Min(begins) = 1
    BY <2>1, MinUnique
  <2>. QED
    BY <2>2 DEF begins
<1>4. first = 3
  BY <1>1, <1>3 DEF Yenc!DataStart
<1>5. y = n
  <2>. DEFINE yends == Yenc!LinesOf(article, "yend", 3)
  <2>1. yends \in SUBSET Nat /\ n \in yends
    BY <1>1, <1>2 DEF Yenc!LinesOf, n
  <2>2. ASSUME NEW i \in yends  PROVE n <= i
    <3>1. i \in 3 .. n /\ article[i].kind = "yend"
      BY <2>2 DEF Yenc!LinesOf, n
    <3>. QED
      BY <1>1, <3>1
  <2>. HIDE DEF yends
  <2>3. Min(yends) = n
    BY <2>1, <2>2, MinUnique
  <2>. QED
    BY <1>4, <2>3 DEF yends
<1>6. PICK S : article \in Seq(S)
  BY <1>1
<1>7. /\ Trailer(article) = article[y]
      /\ part = Yenc!DecodedPart(data, article[b].fields, ypart, article[y].fields)
  BY <1>6, AcceptedIs
<1>8. ypart = article[2].fields
  BY <1>3, <1>4
<1>. HIDE DEF b, first, y, ypart, data, part
<1>9. part.begin = article[2].fields.begin /\ part.end = article[2].fields.end
  BY <1>7, <1>8 DEF Yenc!DecodedPart
<1>. QED
  BY <1>1, <1>5, <1>7, <1>9 DEF PostedLine, Last, n

\* The network makes no lines of its own.
LEMMA DamagedTyped ==
  ASSUME NEW S, NEW article \in Seq(S), PostedArticles \subseteq Seq(S),
         NEW copy \in Damaged(article)
  PROVE  copy \in Seq(S)
<1>1. Len(article) \in Nat /\ \A i \in 1 .. Len(article) : article[i] \in S
  OBVIOUS
<1>2. \A m \in 1 .. Len(article) + 1, n \in 0 .. Len(article) : SubSeq(article, m, n) \in Seq(S)
  <2>. SUFFICES ASSUME NEW m \in 1 .. Len(article) + 1, NEW n \in 0 .. Len(article)
                PROVE  SubSeq(article, m, n) \in Seq(S)
    OBVIOUS
  <2>. QED
    BY <1>1
<1>3. CASE \E i \in 1 .. Len(article) : copy = RemoveAt(article, i)
  <2>1. PICK i \in 1 .. Len(article) : copy = RemoveAt(article, i)
    BY <1>3
  <2>2. SubSeq(article, 1, i - 1) \in Seq(S) /\ SubSeq(article, i + 1, Len(article)) \in Seq(S)
    BY <1>1, <1>2
  <2>. QED
    BY <2>1, <2>2, ConcatProperties DEF RemoveAt
<1>4. CASE \E i \in 1 .. Len(article) : copy = InsertAt(article, i, article[i])
  <2>1. PICK i \in 1 .. Len(article) : copy = InsertAt(article, i, article[i])
    BY <1>4
  <2>2. /\ SubSeq(article, 1, i - 1) \in Seq(S) /\ SubSeq(article, i, Len(article)) \in Seq(S)
        /\ <<article[i]>> \in Seq(S)
    BY <1>1, <1>2
  <2>. QED
    BY <2>1, <2>2, ThreeInARow DEF InsertAt
<1>5. CASE \E i \in 1 .. Len(article) - 1 : copy = Exchange(article, i)
  <2>1. PICK i \in 1 .. Len(article) - 1 : copy = Exchange(article, i)
    BY <1>5
  <2>2. i \in 1 .. Len(article) /\ i + 1 \in 1 .. Len(article)
    BY <1>1
  <2>. QED
    BY <1>1, <2>1, <2>2 DEF Exchange
<1>6. CASE \E n \in 1 .. Len(article) - 1 : copy = SubSeq(article, 1, n)
  BY <1>1, <1>2, <1>6
<1>7. CASE \E other \in PostedArticles : copy = article \o other
  BY <1>7, ConcatProperties
<1>. QED
  BY <1>3, <1>4, <1>5, <1>6, <1>7 DEF Damaged
\* What is handed to add_part when an article is delivered.
LEMMA DeliverIs ==
  ASSUME SpoolOk, NEW article \in spool, Deliver(article)
  PROVE  /\ UNCHANGED <<setup, series, spool, damage>>
         /\ \E p \in Part :
              /\ AddPart(p)
              /\ p.crc = IF setup.wholeCrc THEN SeqCrc32(File) ELSE None
              /\ KeepsOffsets(article) =>
                   \E k \in Parts :
                     /\ p.begin = FirstOffset(k) + 1 /\ p.end = PartEnds[k]
                     /\ Len(p.data) = Len(PartBytes(k))
                     /\ setup.partCrc => SeqCrc32(p.data) = SeqCrc32(PartBytes(k))
<1>. DEFINE part == Yenc!Decode(article)
            p == [begin |-> part.begin, end |-> part.end, data |-> part.data, crc |-> part.wholeCrc]
<1>1. part.error = None /\ AddPart(p) /\ UNCHANGED <<setup, series, spool, damage>>
  BY DEF Deliver
<1>. HIDE DEF part
<1>2. PICK j \in Parts :
        /\ PostedLine(Trailer(article), j, setup)
        /\ Trailer(article).kind = "yend"
        /\ part.wholeCrc = Trailer(article).fields.crc32
        /\ part.data \in Seq(Byte)
        /\ Len(part.data) = Len(PartBytes(j))
        /\ setup.partCrc => SeqCrc32(part.data) = SeqCrc32(PartBytes(j))
        /\ part.begin \in Nat \cup {None} /\ part.end \in Nat \cup {None}
  BY <1>1, DecodedPartIs DEF part
<1>3. /\ Trailer(article).fields.size = Len(PartBytes(j))
      /\ Trailer(article).fields.pcrc32 = IF setup.partCrc THEN SeqCrc32(PartBytes(j)) ELSE None
      /\ Trailer(article).fields.crc32 = IF setup.wholeCrc THEN SeqCrc32(File) ELSE None
  BY <1>2 DEF PostedLine
<1>4. p \in Part /\ p.crc = IF setup.wholeCrc THEN SeqCrc32(File) ELSE None
  BY <1>2, <1>3, FileAssumption DEF Part
<1>5. ASSUME KeepsOffsets(article)
      PROVE  \E k \in Parts :
               /\ p.begin = FirstOffset(k) + 1 /\ p.end = PartEnds[k]
               /\ Len(p.data) = Len(PartBytes(k))
               /\ setup.partCrc => SeqCrc32(p.data) = SeqCrc32(PartBytes(k))
  <2>1. PICK k \in Parts : /\ part.begin = FirstOffset(k) + 1 /\ part.end = PartEnds[k]
                           /\ Trailer(article) = Last(series[k])
    BY <1>1, <1>5 DEF KeepsOffsets, part
  <2>2. /\ PostedLine(Last(series[k]), k, setup)
    <3>1. /\ series[k] = Posted(k, setup) /\ setup \in Setups /\ Len(PartBytes(k)) \in Nat
      BY PartOfFile DEF SpoolOk
    <3>2. Len(series[k]) \in 1 .. Len(series[k])
      BY <3>1, PostedLines
    <3>. QED
      BY <3>1, <3>2, PostedLines DEF Last
  <2>3. /\ Trailer(article).fields.size = Len(PartBytes(k))
        /\ Trailer(article).fields.pcrc32 = IF setup.partCrc THEN SeqCrc32(PartBytes(k)) ELSE None
    BY <1>2, <2>1, <2>2 DEF PostedLine
  <2>4. Len(part.data) = Len(PartBytes(k))
    BY <1>2, <1>3, <2>3
  <2>5. setup.partCrc => SeqCrc32(part.data) = SeqCrc32(PartBytes(k))
    BY <1>2, <1>3, <2>3
  <2>. QED
    BY <2>1, <2>4, <2>5
<1>. HIDE DEF p
<1>. QED
  BY <1>1, <1>4, <1>5

-----------------------------------------------------------------------------
\* A damaged copy that may not lose its offsets has not.
OffsetsKept == ~setup.losesOffsets => \A article \in spool : KeepsOffsets(article)

\* The assembler is one for a file of that size.
SizeKept == Live => totalSize = Len(File)

\* Once something is stored, the CRC of the file is expected.
CrcKept ==
  setup.wholeCrc => /\ expectedCrc \in {None, SeqCrc32(File)}
                    /\ DOMAIN covered # {} => expectedCrc = SeqCrc32(File)

PostingInv == Inv /\ SpoolOk /\ OffsetsKept /\ SizeKept /\ CrcKept

LEMMA PostingInitInv == PostingInit => PostingInv
<1>. SUFFICES ASSUME PostingInit  PROVE PostingInv
  OBVIOUS
<1>1. Inv
  BY InitInv DEF PostingInit
<1>2. setup \in Setups /\ series = [k \in Parts |-> Posted(k, setup)] /\ spool = PostedArticles
  BY DEF PostingInit
<1>3. SpoolOk
  BY <1>2, LinesArePosted DEF SpoolOk, PostedArticles
<1>4. OffsetsKept
  BY <1>2, PostedKeepsOffsets DEF OffsetsKept, PostedArticles
<1>5. SizeKept /\ CrcKept
  BY DEF PostingInit, Init, SizeKept, Live, CrcKept, Empty
<1>. QED
  BY <1>1, <1>3, <1>4, <1>5 DEF PostingInv

LEMMA DamageInv ==
  ASSUME PostingInv, Damage
  PROVE  PostingInv'
<1>1. /\ UNCHANGED <<vars, setup, series>>
      /\ \E article \in spool : \E copy \in Damaged(article) :
           /\ setup.losesOffsets \/ KeepsOffsets(copy)
           /\ spool' = spool \cup {copy}
  BY DEF Damage
<1>2. PICK article \in spool :
        \E copy \in Damaged(article) : /\ setup.losesOffsets \/ KeepsOffsets(copy)
                                       /\ spool' = spool \cup {copy}
  BY <1>1
<1>3. PICK copy \in Damaged(article) : /\ setup.losesOffsets \/ KeepsOffsets(copy)
                                       /\ spool' = spool \cup {copy}
  BY <1>2
<1>4. Inv'
  BY <1>1, StutterInv DEF PostingInv
<1>5. Lines' = Lines
  BY <1>1 DEF Lines
<1>6. copy \in Seq(Lines)
  <2>1. article \in Seq(Lines) /\ PostedArticles \subseteq Seq(Lines)
    BY LinesArePosted DEF PostingInv, SpoolOk, PostedArticles
  <2>. QED
    BY <2>1, DamagedTyped
<1>7. SpoolOk'
  BY <1>1, <1>3, <1>5, <1>6 DEF PostingInv, SpoolOk
<1>8. \A a : KeepsOffsets(a)' <=> KeepsOffsets(a)
  BY <1>1 DEF KeepsOffsets
<1>9. OffsetsKept'
  BY <1>1, <1>3, <1>8 DEF PostingInv, OffsetsKept
<1>10. SizeKept' /\ CrcKept'
  BY <1>1 DEF PostingInv, SizeKept, CrcKept, Live, vars
<1>. QED
  BY <1>4, <1>7, <1>9, <1>10 DEF PostingInv

\* Nothing happens to the articles.
LEMMA SpoolUnchanged ==
  ASSUME SpoolOk, OffsetsKept, UNCHANGED <<setup, series, spool>>
  PROVE  SpoolOk' /\ OffsetsKept'
<1>1. Lines' = Lines
  BY DEF Lines
<1>2. \A a : KeepsOffsets(a)' <=> KeepsOffsets(a)
  BY DEF KeepsOffsets
<1>. QED
  BY <1>1, <1>2 DEF SpoolOk, OffsetsKept

LEMMA BeginInv ==
  ASSUME PostingInv, Begin
  PROVE  PostingInv'
<1>1. New(Len(File)) /\ UNCHANGED <<setup, series, spool>> /\ Len(File) \in Nat
  BY FileAssumption DEF Begin
<1>2. Inv'
  BY <1>1, NewInv DEF PostingInv
<1>3. SizeKept'
  BY <1>1 DEF New, SizeKept, Live
<1>4. CrcKept'
  BY <1>1 DEF New, CrcKept, PostingInv
<1>. QED
  BY <1>1, <1>2, <1>3, <1>4, SpoolUnchanged DEF PostingInv

LEMMA DeliverInv ==
  ASSUME PostingInv, NEW article \in spool, Deliver(article)
  PROVE  PostingInv'
<1>1. UNCHANGED <<setup, series, spool>>
  BY DeliverIs DEF PostingInv
<1>2. PICK p \in Part : /\ AddPart(p)
                        /\ p.crc = IF setup.wholeCrc THEN SeqCrc32(File) ELSE None
  BY DeliverIs DEF PostingInv
<1>3. Inv'
  BY <1>2, AddPartInv DEF PostingInv
<1>4. SizeKept'
  BY <1>2 DEF PostingInv, AddPart, SizeKept, Live
<1>5. CrcKept'
  <2>. SUFFICES ASSUME setup.wholeCrc
                PROVE  /\ expectedCrc' \in {None, SeqCrc32(File)}
                       /\ DOMAIN covered' # {} => expectedCrc' = SeqCrc32(File)
    BY <1>1 DEF CrcKept
  <2>1. /\ expectedCrc \in {None, SeqCrc32(File)}
        /\ DOMAIN covered # {} => expectedCrc = SeqCrc32(File)
    BY DEF PostingInv, CrcKept
  <2>2. CASE Verdict(p) # "Added"
    BY <1>2, <2>1, <2>2 DEF AddPart
  <2>3. CASE Verdict(p) = "Added"
    BY <1>2, <2>1, <2>3 DEF AddPart, RecordCrc
  <2>. QED
    BY <2>2, <2>3
<1>. QED
  BY <1>1, <1>3, <1>4, <1>5, SpoolUnchanged DEF PostingInv

LEMMA FinishWhenCompleteInv ==
  ASSUME PostingInv, FinishWhenComplete
  PROVE  PostingInv'
<1>1. Finish /\ UNCHANGED <<setup, series, spool>>
  BY DEF FinishWhenComplete
<1>2. Inv'
  BY <1>1, FinishInv DEF PostingInv
<1>3. SizeKept' /\ CrcKept'
  BY <1>1 DEF Finish, SizeKept, Live, CrcKept, Empty
<1>. QED
  BY <1>1, <1>2, <1>3, SpoolUnchanged DEF PostingInv

LEMMA PostingStutterInv == PostingInv /\ UNCHANGED postingVars => PostingInv'
<1>. SUFFICES ASSUME PostingInv, UNCHANGED postingVars  PROVE PostingInv'
  OBVIOUS
<1>1. UNCHANGED vars /\ UNCHANGED <<setup, series, spool>>
  BY DEF postingVars
<1>2. Inv'
  BY <1>1, StutterInv DEF PostingInv
<1>3. SizeKept' /\ CrcKept'
  BY <1>1 DEF PostingInv, SizeKept, CrcKept, Live, vars
<1>. QED
  BY <1>1, <1>2, <1>3, SpoolUnchanged DEF PostingInv

LEMMA PostingNextInv == PostingInv /\ [PostingNext]_postingVars => PostingInv'
<1>. SUFFICES ASSUME PostingInv, [PostingNext]_postingVars  PROVE PostingInv'
  OBVIOUS
<1>1. CASE Damage
  BY <1>1, DamageInv
<1>2. CASE Begin
  BY <1>2, BeginInv
<1>3. CASE \E article \in spool : Deliver(article)
  BY <1>3, DeliverInv
<1>4. CASE FinishWhenComplete
  BY <1>4, FinishWhenCompleteInv
<1>5. CASE UNCHANGED postingVars
  BY <1>5, PostingStutterInv
<1>. QED
  BY <1>1, <1>2, <1>3, <1>4, <1>5 DEF PostingNext

\* Whatever the network does, decode() makes of it parts that fit the trailer of
\* one posted article, and the assembler that is fed with them keeps its
\* invariant (decode.rs:135-196, assembler.rs:159-259).
THEOREM PostingInvariance == PostingSpec => []PostingInv
  BY PostingInitInv, PostingNextInv, PTL DEF PostingSpec

-----------------------------------------------------------------------------
(* What the client gets.                                                   *)

\* Bytes of the length of the data and with its CRC are the data.
LEMMA ToldApart ==
  ASSUME NEW data \in Seq(Byte), Tells(data), NEW other \in Seq(Byte),
         Len(other) = Len(data), SeqCrc32(other) = SeqCrc32(data)
  PROVE  other = data
<1>1. other \in [1 .. Len(data) -> Byte]
  BY DEF Seq
<1>. QED
  BY <1>1 DEF Tells

LEMMA OutputIsFileInit == PostingInit => OutputIsFile
  BY DEF PostingInit, Init, OutputIsFile

LEMMA OutputIsFileNext ==
  CrcTells /\ PostingInv /\ OutputIsFile /\ [PostingNext]_postingVars => OutputIsFile'
<1>. SUFFICES ASSUME CrcTells, PostingInv, OutputIsFile, [PostingNext]_postingVars
              PROVE  OutputIsFile'
  OBVIOUS
<1>1. CASE UNCHANGED output /\ UNCHANGED setup
  BY <1>1 DEF OutputIsFile
<1>2. CASE FinishWhenComplete
  <2>. SUFFICES ASSUME setup.wholeCrc, output' # None  PROVE output' = BufferOf(File)
    BY <1>2 DEF FinishWhenComplete, OutputIsFile
  <2>1. Live /\ FinishVerdict = "Finished" /\ output' = buffer
    BY <1>2 DEF FinishWhenComplete, Finish
  <2>2. totalSize = Len(File) /\ Len(File) \in Nat /\ buffer \in [0 .. Len(File) - 1 -> Byte]
    BY <2>1, FileAssumption DEF PostingInv, Inv, TypeOK, SizeKept
  <2>3. MissingRanges = {} /\ (expectedCrc # None => Crc32(buffer) = expectedCrc)
    BY <2>1 DEF FinishVerdict
  <2>4. CASE Len(File) = 0
    <3>1. 0 .. Len(File) - 1 = {}
      BY <2>4
    <3>. QED
      BY <2>1, <2>2, <3>1 DEF BufferOf
  <2>5. CASE Len(File) # 0
    <3>1. DOMAIN covered # {}
      <4>. SUFFICES ASSUME DOMAIN covered = {}  PROVE FALSE
        OBVIOUS
      <4>1. FinalCursor = 0
        BY DEF FinalCursor, CursorAt
      <4>2. <<0, totalSize>> \in MissingRanges
        BY <2>2, <2>5, <4>1 DEF MissingRanges
      <4>. QED
        BY <2>3, <4>2
    <3>2. expectedCrc = SeqCrc32(File) /\ SeqCrc32(File) # None
      BY <3>1, FileAssumption, ConstantsAssumption DEF PostingInv, CrcKept
    <3>. DEFINE other == [i \in 1 .. Len(File) |-> buffer[i - 1]]
    <3>3. other \in Seq(Byte) /\ Len(other) = Len(File)
      <4>1. \A i \in 1 .. Len(File) : buffer[i - 1] \in Byte
        <5>1. \A i \in 1 .. Len(File) : i - 1 \in 0 .. Len(File) - 1
          BY <2>2
        <5>. QED
          BY <2>2, <5>1
      <4>. QED
        BY <2>2, <4>1
    <3>4. BufferOf(other) = buffer
      <4>1. \A o \in 0 .. Len(File) - 1 : other[o + 1] = buffer[o]
        <5>1. \A o \in 0 .. Len(File) - 1 : o + 1 \in 1 .. Len(File) /\ (o + 1) - 1 = o
          BY <2>2
        <5>. QED
          BY <5>1
      <4>. HIDE DEF other
      <4>. QED
        BY <2>2, <3>3, <4>1 DEF BufferOf
    <3>. HIDE DEF other
    <3>5. SeqCrc32(other) = SeqCrc32(File)
      BY <2>3, <3>2, <3>4 DEF SeqCrc32
    <3>6. other = File
      BY <3>3, <3>5, ToldApart, FileAssumption DEF CrcTells
    <3>. QED
      BY <2>1, <3>4, <3>6
  <2>. QED
    BY <2>4, <2>5
<1>3. CASE Begin
  BY <1>3 DEF Begin, New, OutputIsFile
<1>4. ASSUME Damage \/ UNCHANGED postingVars  PROVE UNCHANGED output /\ UNCHANGED setup
  BY <1>4 DEF Damage, vars, postingVars
<1>5. ASSUME NEW article \in spool, Deliver(article)  PROVE UNCHANGED output /\ UNCHANGED setup
  BY <1>5 DEF Deliver, AddPart
<1>. QED
  BY <1>1, <1>2, <1>3, <1>4, <1>5 DEF PostingNext

\* With whole-file CRCs that tell the file from other bytes, whatever is lost,
\* repeated, reordered or damaged, finish hands over the file that was posted
\* or nothing (decode.rs:135-196, assembler.rs:159-342).
THEOREM FileComesOut ==
  ASSUME CrcTells
  PROVE  PostingSpec => []OutputIsFile
<1>1. PostingInit => OutputIsFile
  BY OutputIsFileInit
<1>2. PostingInv /\ OutputIsFile /\ [PostingNext]_postingVars => OutputIsFile'
  BY OutputIsFileNext
<1>. QED
  BY <1>1, <1>2, PostingInvariance, PTL DEF PostingSpec

-----------------------------------------------------------------------------
(* Every stored byte is in its place.                                      *)

\* An accepted part adds to the covered bytes those of its range.
LEMMA CoverageGrows ==
  ASSUME NEW p, Store(p), totalSize' = totalSize
  PROVE  CoveredBytes' \subseteq CoveredBytes \cup {o \in 0 .. totalSize - 1 : Lo(p) <= o /\ o < Hi(p)}
<1>. SUFFICES ASSUME NEW o \in CoveredBytes', ~(Lo(p) <= o /\ o < Hi(p))
              PROVE  o \in CoveredBytes
  BY DEF CoveredBytes
<1>1. PICK a \in DOMAIN covered' : o \in 0 .. totalSize - 1 /\ a <= o /\ o < covered'[a]
  BY DEF CoveredBytes
<1>2. /\ DOMAIN covered' = DOMAIN covered \cup {Lo(p)} /\ covered'[Lo(p)] = Hi(p)
      /\ \A b \in DOMAIN covered : b # Lo(p) => covered'[b] = covered[b]
  BY DEF Store
<1>3. a # Lo(p)
  BY <1>1, <1>2
<1>. QED
  BY <1>1, <1>2, <1>3 DEF CoveredBytes

LEMMA BytesInPlaceDeliver ==
  ASSUME CrcTells, PostingInv, BytesInPlace, NEW article \in spool, Deliver(article)
  PROVE  BytesInPlace'
<1>1. UNCHANGED setup
  BY DeliverIs DEF PostingInv
<1>. SUFFICES ASSUME setup.partCrc, ~setup.losesOffsets, Live, NEW o \in CoveredBytes'
              PROVE  buffer'[o] = File[o + 1]
  <2>1. Live' => Live
    BY DEF Deliver, AddPart, Live
  <2>. QED
    BY <1>1, <2>1 DEF BytesInPlace
<1>2. PICK p \in Part :
        /\ AddPart(p)
        /\ KeepsOffsets(article) =>
             \E k \in Parts :
               /\ p.begin = FirstOffset(k) + 1 /\ p.end = PartEnds[k]
               /\ Len(p.data) = Len(PartBytes(k))
               /\ setup.partCrc => SeqCrc32(p.data) = SeqCrc32(PartBytes(k))
  BY DeliverIs DEF PostingInv
<1>3. PICK k \in Parts :
        /\ p.begin = FirstOffset(k) + 1 /\ p.end = PartEnds[k]
        /\ Len(p.data) = Len(PartBytes(k))
        /\ SeqCrc32(p.data) = SeqCrc32(PartBytes(k))
  BY <1>2 DEF PostingInv, OffsetsKept
<1>4. \A b \in CoveredBytes : buffer[b] = File[b + 1]
  BY DEF BytesInPlace
<1>5. totalSize' = totalSize /\ totalSize = Len(File) /\ Len(File) \in Nat
  BY <1>2, FileAssumption DEF AddPart, PostingInv, SizeKept
<1>6. CASE Verdict(p) # "Added"
  BY <1>2, <1>4, <1>6 DEF AddPart, CoveredBytes
<1>7. CASE Verdict(p) = "Added"
  <2>1. Store(p)
    BY <1>2, <1>7 DEF AddPart
  <2>2. p.data = PartBytes(k)
    <3>1. PartBytes(k) \in Seq(Byte) /\ p.data \in Seq(Byte)
      BY PartOfFile DEF Part
    <3>. QED
      BY <1>3, <3>1, ToldApart DEF CrcTells
  <2>3. Lo(p) = FirstOffset(k) /\ Hi(p) = PartEnds[k] /\ Lo(p) \in Nat /\ Hi(p) \in Nat
    <3>1. p.begin # None /\ p.end # None /\ FirstOffset(k) \in Nat /\ PartEnds[k] \in Nat
      BY <1>3, PartOfFile, ConstantsAssumption
    <3>. QED
      BY <1>3, <3>1 DEF Lo, Hi, Ranged
  <2>4. o \in 0 .. totalSize - 1
    BY <1>5 DEF CoveredBytes
  <2>5. buffer'[o] = IF Lo(p) <= o /\ o < Hi(p) THEN p.data[o - Lo(p) + 1] ELSE buffer[o]
    BY <2>1, <2>4 DEF Store
  <2>6. CASE Lo(p) <= o /\ o < Hi(p)
    <3>1. o - Lo(p) + 1 \in 1 .. Len(PartBytes(k)) /\ FirstOffset(k) + (o - Lo(p) + 1) = o + 1
      BY <1>5, <2>3, <2>4, <2>6, PartOfFile
    <3>. QED
      BY <2>2, <2>5, <2>6, <3>1, PartOfFile
  <2>7. CASE ~(Lo(p) <= o /\ o < Hi(p))
    <3>1. o \in CoveredBytes
      BY <1>5, <2>1, <2>7, CoverageGrows
    <3>. QED
      BY <1>4, <2>5, <2>7, <3>1
  <2>. QED
    BY <2>6, <2>7
<1>. QED
  BY <1>6, <1>7

LEMMA BytesInPlaceNext ==
  CrcTells /\ PostingInv /\ BytesInPlace /\ [PostingNext]_postingVars => BytesInPlace'
<1>. SUFFICES ASSUME CrcTells, PostingInv, BytesInPlace, [PostingNext]_postingVars
              PROVE  BytesInPlace'
  OBVIOUS
<1>1. ASSUME Damage \/ UNCHANGED postingVars  PROVE BytesInPlace'
  BY <1>1 DEF Damage, postingVars, vars, BytesInPlace, Live, CoveredBytes
<1>2. CASE Begin
  <2>1. Live' => CoveredBytes' = {}
    BY <1>2 DEF Begin, New, PostingInv, Inv, TypeOK, Live, CoveredBytes, Empty
  <2>. QED
    BY <2>1 DEF BytesInPlace
<1>3. ASSUME NEW article \in spool, Deliver(article)  PROVE BytesInPlace'
  BY <1>3, BytesInPlaceDeliver
<1>4. CASE FinishWhenComplete
  BY <1>4 DEF FinishWhenComplete, Finish, BytesInPlace, Live
<1>. QED
  BY <1>1, <1>2, <1>3, <1>4 DEF PostingNext

\* With CRCs that tell the parts from other bytes, and as long as no part loses
\* its offsets, every byte the assembler holds is the byte posted at that place
\* (decode.rs:135-196, assembler.rs:159-259).
THEOREM BytesStayInPlace ==
  ASSUME CrcTells
  PROVE  PostingSpec => []BytesInPlace
<1>1. PostingInit => BytesInPlace
  BY DEF PostingInit, Init, BytesInPlace, Live
<1>2. PostingInv /\ BytesInPlace /\ [PostingNext]_postingVars => BytesInPlace'
  BY BytesInPlaceNext
<1>. QED
  BY <1>1, <1>2, PostingInvariance, PTL DEF PostingSpec

-----------------------------------------------------------------------------
(* The client keeps the promise of FileAssembly.                           *)

LEMMA PostingNextRefines ==
  PostingInv /\ [PostingNext]_postingVars => [Promise!Next]_Promise!fileVars
<1>. SUFFICES ASSUME PostingInv, [PostingNext]_postingVars
              PROVE  Promise!Next \/ UNCHANGED Promise!fileVars
  OBVIOUS
<1>1. CASE UNCHANGED vars
  BY <1>1 DEF vars, Promise!fileVars, KnownBytes, Live, CoveredBytes
<1>2. CASE Begin
  BY <1>2, NewRefines, FileAssumption DEF Begin, PostingInv
<1>3. ASSUME NEW article \in spool, Deliver(article)
      PROVE  Promise!Next \/ UNCHANGED Promise!fileVars
  BY <1>3, DeliverIs, AddPartRefines DEF PostingInv
<1>4. CASE FinishWhenComplete
  BY <1>4, FinishRefines DEF FinishWhenComplete, PostingInv
<1>5. Damage \/ UNCHANGED postingVars => UNCHANGED vars
  BY DEF Damage, postingVars
<1>. QED
  BY <1>1, <1>2, <1>3, <1>4, <1>5 DEF PostingNext

\* Fed with what decode() makes of the articles in the spool, the assembler is
\* one of FileAssembly: no delivery changes a byte that is already covered, and
\* only a complete file is handed over (lib.rs:54-74, assembler.rs:159-342).
THEOREM PostingRefinement == PostingSpec => ImplementsFileAssembly
<1>1. PostingInit => Promise!Init
  BY InitRefines DEF PostingInit
<1>. QED
  BY <1>1, PostingNextRefines, PostingInvariance, PTL
     DEF PostingSpec, ImplementsFileAssembly, Promise!Spec
=============================================================================
