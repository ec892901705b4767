---------------------------- MODULE UuCollection ----------------------------
(***************************************************************************)
(* uuencoding-multi/src/collection.rs and reassemble.rs: the parts of one  *)
(* series by their number, and the file made of them.  Part 0 is the table *)
(* of contents.  What a body is does not matter here.                      *)
(***************************************************************************)
EXTENDS Integers, Sequences, SequencesExt, FiniteSetsExt

CONSTANT Decode(_)   \* uuencoding::decode on a body, see UuDecode

\* total is 0 for None; the code never stores Some(0).
NoTotal == 0

NewCollection == [parts |-> <<>>, total |-> NoTotal]

WithTotal(total) == [parts |-> <<>>, total |-> total]

Larger(a, b) == IF a < b THEN b ELSE a

\* A map with a value put under a key.
Put(map, key, value) ==
  [k \in DOMAIN map \cup {key} |-> IF k = key THEN value ELSE map[k]]

\* Faulty variant: the later copy of a part replaces the earlier one.
AddReplacing(collection, number, body) ==
  [parts |-> Put(collection.parts, number, body),
   total |-> Larger(collection.total, number)]

\* A second part of the same number is refused; a number above the total
\* raises it, and part 0 does not.
Add(collection, number, body) ==
  IF number \in DOMAIN collection.parts THEN collection
  ELSE [parts |-> Put(collection.parts, number, body),
        total |-> Larger(collection.total, number)]

\* The parts that hold data, in ascending order.
PresentParts(collection) ==
  LET present == {n \in DOMAIN collection.parts : n >= 1}
  IN  [i \in 1 .. Cardinality(present) |->
         CHOOSE n \in present : Cardinality({m \in present : m < n}) = i - 1]

MissingParts(collection) ==
  (1 .. collection.total) \ DOMAIN collection.parts

IsComplete(collection) ==
  collection.total # NoTotal /\ MissingParts(collection) = {}

NotReassembled(error) ==
  [error |-> error, data |-> <<>>, from |-> 0, truncated |-> FALSE,
   missing |-> {}]

\* Faulty variant: a gap between the parts does not make the file truncated.
IsTruncatedIgnoringGaps(collection, blocks) ==
  \E i \in DOMAIN blocks : blocks[i].truncated

IsTruncated(collection, blocks) ==
  \/ \E i \in DOMAIN blocks : blocks[i].truncated
  \/ MissingParts(collection) # {}

\* Every part is decoded by itself; the first that fails ends it.  `from' is
\* the part whose begin line gives the name and the mode.
Reassemble(collection) ==
  LET present == PresentParts(collection)
      blocks  == [i \in DOMAIN present |->
                    Decode(collection.parts[present[i]])]
      failed  == {i \in DOMAIN blocks : blocks[i].error # "none"}
  IN  IF present = <<>> THEN NotReassembled("EmptyCollection")
      ELSE IF failed # {} THEN NotReassembled(blocks[Min(failed)].error)
      ELSE [error     |-> "none",
            data      |-> FlattenSeq([i \in DOMAIN blocks |-> blocks[i].data]),
            from      |-> present[1],
            truncated |-> IsTruncated(collection, blocks),
            missing   |-> MissingParts(collection)]

=============================================================================
