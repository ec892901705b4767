--------------------------- MODULE SeriesAssembly ---------------------------
(***************************************************************************)
(* What a reader of a posted series is promised: a part that has come stays*)
(* what it is, and the file is handed over only when every part has come.  *)
(***************************************************************************)
CONSTANTS
  Numbers,   \* of the parts
  Whole,     \* the file
  Nothing    \* handed over while there is no file

VARIABLES
  known,     \* the parts that have come, by number
  handed     \* the file handed over, or Nothing

Init == known = <<>> /\ handed = Nothing

Learn(n) ==
  /\ n \in Numbers \ DOMAIN known
  /\ DOMAIN known' = DOMAIN known \cup {n}
  /\ \A m \in DOMAIN known : known'[m] = known[m]
  /\ UNCHANGED handed

HandOver ==
  /\ DOMAIN known = Numbers
  /\ handed' = Whole
  /\ UNCHANGED known

Next == HandOver \/ \E n \in Numbers : Learn(n)

Spec == Init /\ [][Next]_<<known, handed>>

=============================================================================
