----------------------------- MODULE MCLineCodecs -----------------------------
(***************************************************************************)
(* LineCodecs for TLC.  For uuencoding up to MaxUuData bytes with all-zero *)
(* and all-one bit patterns in each of the 2, 4 and 6 bit pieces, 4 bytes  *)
(* to a line.  For yEnc up to MaxYencData bytes among those whose encoded  *)
(* form is NUL, LF, CR, '=', '.', TAB, 'y' or the ordinary '*', and a byte *)
(* that wraps around 256.                                                  *)
(***************************************************************************)
EXTENDS LineCodecs

CONSTANTS MaxUuData, MaxYencData

Patterns == {0, 3, 15, 63, 192, 255}

PatternData == BoundedSeq(Patterns, MaxUuData)

Critical ==
  {(e - 42) % 256 : e \in {0, 10, 13, 61, 46, 9, 121, 42}}

CriticalData == BoundedSeq(Critical, MaxYencData)

Lengths == {0, 2, 3, 4}
Widths == {1, 2, 3}
=============================================================================
