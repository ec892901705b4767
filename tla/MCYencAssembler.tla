--------------------------- MODULE MCYencAssembler ---------------------------
(***************************************************************************)
(* Instances of YencAssembler for TLC: files of at most 3 one-bit bytes, a *)
(* size above the cap, and every part whose range fields are absent or at  *)
(* most one past the end, with up to MaxData bytes.                        *)
(***************************************************************************)
EXTENDS YencAssembler, SequencesExt

CONSTANTS MaxSize, MaxData

Sizes == 0 .. MaxSize + 1

Offsets == (0 .. MaxSize + 1) \cup {None}

AllParts ==
  [begin : Offsets, end : Offsets, data : BoundedSeq(Byte, MaxData),
   crc : CrcValue \cup {None}]

\* A hash with collisions: the parity of the bytes set.
Parity(buf) == Cardinality({o \in DOMAIN buf : buf[o] = 1}) % 2
=============================================================================
