--------------------------- MODULE MCBodyStructure ---------------------------
(***************************************************************************)
(* BodyStructure for TLC: every message of at most MaxParts parts of every *)
(* kind, and every message of at most MaxFew parts of few kinds.           *)
(***************************************************************************)
EXTENDS BodyStructure, FiniteSetsExt

CONSTANTS MaxParts, MaxFew, Dangling

LeafPart(type, attached, named) ==
  [type |-> type, multipart |-> FALSE, attached |-> attached, named |-> named,
   children |-> <<>>]

\* Text of both kinds, media shown and attached, and text with a filename.
SomeLeaves ==
  {LeafPart(type, FALSE, FALSE) : type \in {"plain", "html", "media"}}
    \cup {LeafPart("plain", FALSE, TRUE), LeafPart("media", TRUE, FALSE)}

Multipart(type) ==
  [type |-> type, multipart |-> TRUE, attached |-> FALSE, named |-> FALSE,
   children |-> <<>>]

SomeMultiparts == {Multipart(type) : type \in {"mixed", "alternative", "related"}}

Parts == SomeLeaves \cup SomeMultiparts

FewParts ==
  {LeafPart(type, FALSE, FALSE) : type \in {"plain", "html", "media"}}
    \cup {Multipart(type) : type \in {"mixed", "alternative"}}

(***************************************************************************)
(* A message is written down as its parts with their depths: a part stands *)
(* at most one level below the part before it, and there only if that one  *)
(* is a multipart.                                                         *)
(***************************************************************************)
Follows(s, depth) ==
  LET last == s[Len(s)] IN
    \/ depth <= last.depth
    \/ depth = last.depth + 1 /\ last.part.multipart

\* The messages of n parts, all in kinds.
Written(kinds, n) ==
  LET W[k \in 1 .. n] ==
        IF k = 1 THEN {<<[depth |-> 0, part |-> part]>> : part \in kinds}
        ELSE {Append(c[1], [depth |-> c[2], part |-> c[3]]) :
                c \in {c \in W[k - 1] \X (1 .. k - 1) \X kinds : Follows(c[1], c[2])}}
  IN  W[n]

\* The children of a part stand one level below it, before the next part of
\* its own level or above.  The first multipart also names a child that is not
\* there, before the others.
Flat(s) ==
  [k \in DOMAIN s |->
     LET inside == {j \in k + 1 .. Len(s) : \A i \in k + 1 .. j : s[i].depth > s[k].depth}
         here   == {j \in inside : s[j].depth = s[k].depth + 1}
     IN  [s[k].part EXCEPT !.children =
            (IF Dangling /\ k = 1 /\ s[k].part.multipart THEN <<Len(s) + 1>> ELSE <<>>)
            \o SetToSortSeq(here, <)]]

AllMessages ==
  {Flat(s) : s \in UNION ({Written(Parts, n) : n \in 1 .. MaxParts}
                          \cup {Written(FewParts, n) : n \in 1 .. MaxFew})}
=============================================================================
