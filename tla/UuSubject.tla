------------------------------ MODULE UuSubject ------------------------------
(***************************************************************************)
(* uuencoding-multi/src/subject.rs: parse_subject, which reads the number  *)
(* of a part, the number of all parts and the name of the series from a    *)
(* subject line.                                                           *)
(*                                                                         *)
(* A subject is a sequence of tokens.  `is' tells them apart:              *)
(*   "word"   any word, with its text                                      *)
(*   "reply"  Re: or Fwd:                                                  *)
(*   "yenc"   the word yEnc                                                *)
(*   "dash"   a dash of its own                                            *)
(*   "mark"   a part marker, written in one of the five ways               *)
(*              1 (N/M)   2 [N/M]   3 Part N/M   4 Part N of M   5 - N/M   *)
(***************************************************************************)
EXTENDS Integers, Sequences, SequencesExt

CONSTANT None

Patterns == 1 .. 5

Word(text) == [is |-> "word", text |-> text]
Reply == [is |-> "reply"]
YEnc == [is |-> "yenc"]
Dash == [is |-> "dash"]
Mark(pattern, index, total) ==
  [is |-> "mark", pattern |-> pattern, index |-> index, total |-> total]

From(tokens, first) == SubSeq(tokens, first, Len(tokens))

\* Every reply prefix in front is stripped, not only the first.
StripPrefixes(subject) ==
  IF \A i \in DOMAIN subject : subject[i].is = "reply" THEN <<>>
  ELSE From(subject, SelectInSeq(subject, LAMBDA token : token.is # "reply"))

\* Where a pattern matches; the dash of the fifth needs white space before it,
\* which a trimmed subject does not begin with.
Marks(subject) ==
  {i \in DOMAIN subject :
     subject[i].is = "mark" /\ (subject[i].pattern = 5 => i > 1)}

\* Removing `- N/M' can leave the dash of another separator behind.
TrimDashes(tokens) ==
  SubSeq(tokens, 1, SelectLastInSeq(tokens, LAMBDA token : token.is # "dash"))

\* The series a subject with this marker belongs to: what is left without it.
BaseSubject(subject, at) ==
  LET rest == RemoveAt(subject, at)
  IN  IF subject[at].pattern = 5 THEN TrimDashes(rest) ELSE rest

\* Faulty variant: the leftmost marker counts, whatever its pattern.
PrecedesAnyPattern(subject, i, j) == i <= j

\* The patterns are tried in order, and each finds its leftmost match.
Precedes(subject, i, j) ==
  \/ subject[i].pattern < subject[j].pattern
  \/ subject[i].pattern = subject[j].pattern /\ i <= j

BestMarks(subject) ==
  {i \in Marks(subject) : \A j \in Marks(subject) : Precedes(subject, i, j)}

\* A subject that is nothing but a marker names no series.
Marked(subject) ==
  {parts \in {[base  |-> BaseSubject(subject, i),
              index |-> subject[i].index,
              total |-> subject[i].total] : i \in BestMarks(subject)} :
     parts.base # <<>>}

Unmarked(subject) == [base |-> subject, index |-> None, total |-> None]

ParseStripped(subject) ==
  IF subject = <<>> \/ \E i \in DOMAIN subject : subject[i].is = "yenc" THEN {}
  ELSE IF Marks(subject) = {} THEN {Unmarked(subject)}
  ELSE Marked(subject)

\* The result is an Option: a set of at most one element.
ParseSubject(subject) ==
  UNION {ParseStripped(stripped) : stripped \in {StripPrefixes(subject)}}

=============================================================================
