----------------------------- MODULE MCUuPosting -----------------------------
(***************************************************************************)
(* UuPosting for TLC: a file of 4 bytes in 3 parts, every way to write a   *)
(* part marker, and a table of contents with a line of every format.       *)
(* MaxSize is small, so that one size of the table does not fit.           *)
(***************************************************************************)
EXTENDS UuPosting

FourBytes == <<1, 2, 3, 4>>
ThreeParts == <<1, 3, 4>>

a == Subject!Word("a")
b == Subject!Word("b")

\* A title may contain a marker of a form that counts less than the one used,
\* or end in a dash, which the fifth form takes away.
Title(pattern) ==
  IF pattern < 4 THEN <<a, Subject!Mark(4, 2, 2)>> ELSE <<a, Subject!Dash>>

Setup(pattern, replied, toc, style, damaged) ==
  [title   |-> Title(pattern),
   key     |-> IF pattern = 5 THEN <<a>> ELSE Title(pattern),
   pattern |-> pattern,
   replied |-> replied,
   toc     |-> toc,
   style   |-> style,
   damaged |-> damaged]

\* Every form of marker, and every way to post with one of them.
AllSetups ==
  {Setup(pattern, {2}, "total", "each", FALSE) : pattern \in Subject!Patterns}
    \cup {Setup(1, {}, toc, style, damaged) :
            toc \in {"none", "total", "noTotal"}, style \in {"each", "split"},
            damaged \in BOOLEAN}

SplitSetups == {how \in AllSetups : how.style = "split"}

Stranger(subject) ==
  [number |-> None, subject |-> subject, body |-> PartBody(1, "each")]

\* Another series of one part, a yEnc article, and articles without a number
\* or without a name.
SomeStrangers ==
  {Stranger(<<b, Subject!Mark(1, 1, 1)>>),
   Stranger(<<a, Subject!YEnc, Subject!Mark(1, 1, 2)>>),
   Stranger(<<a>>),
   Stranger(<<Subject!Mark(5, 1, 2), a>>),
   Stranger(<<Subject!Reply, Subject!Mark(1, 1, 3)>>),
   Stranger(<<Subject!Reply>>),
   Stranger(<<>>)}

Prose(line) == [line |-> line, entry |-> None]

Says(line, name, size, parts) ==
  [line |-> line, entry |-> [filename |-> name, size |-> size, parts |-> parts]]

SomeTable ==
  <<Prose(<<>>),
    Prose(<<Hash, Name("f", "extension"), Size(1, "kb", FALSE)>>),
    Prose(<<Name("see", "plain"), Name("f", "extension"), Size(1, "kb", FALSE)>>),
    Says(<<Name("a", "extension"), Size(1, "kb", FALSE), PartsToken(1, 2)>>,
         "a", 1024, <<1, 2>>),
    Says(<<Name("b", "path"), PartsToken(2, 3), Size(3, "b", TRUE)>>,
         "b", 3, <<2, 3>>),
    Says(<<Name("c", "extension"), Size(7, "b", TRUE)>>, "c", 7, None),
    Says(<<PartRange(1, 3), Name("d", "extension"), Size(2, "kb", FALSE)>>,
         "d", None, <<1, 3>>),
    Prose(<<PartRange(1, 3), Name("the", "plain"), Size(2, "b", FALSE)>>),
    Prose(<<Name("f", "extension"), PartsToken(3, 1)>>),
    Prose(<<Name("f", "extension")>>),
    Says(<<Name("g", "extension"), PartsToken(3, 1), Size(1, "b", FALSE)>>,
         "g", 1, None),
    Prose(<<Name("1.2", "numeric"), Size(9, "b", FALSE)>>)>>
=============================================================================
