------------------------------ MODULE MCInlineUu ------------------------------
(***************************************************************************)
(* InlineUu for TLC: every body of at most MaxLines lines of all kinds, or *)
(* MaxPlain lines of the plain ones, between a header line and a line of   *)
(* the next part, and a body range that leaves the message.                *)
(***************************************************************************)
EXTENDS InlineUu

CONSTANTS MaxLines, MaxPlain

OfKind(kind, bytes) == [kind |-> kind, bytes |-> bytes]

\* Data lines of 1 and 2 bytes, a line broken in its second group, `rule' standing
\* for the 29 bytes it decodes to, and keywords in small letters.
PlainLines ==
  {OfKind(k, <<>>) : k \in {"begin", "beginBad", "beginDash", "begin64", "blank", "zero", "end"}}
    \cup {OfKind("data", <<1>>), OfKind("data", <<1, 2>>),
          OfKind("rule", <<9>>), OfKind("broken", <<7>>)}

\* And a line of every other kind, and a begin line with small letters in its
\* third group.
AllLines ==
  PlainLines \cup {OfKind(k, <<8>>) : k \in CapitalKinds} \cup {OfKind("begin", <<6>>)}

AllBodies == BoundedSeq(PlainLines, MaxPlain) \cup BoundedSeq(AllLines, MaxLines)

Prose == OfKind("broken", <<>>)

PartOf(body) ==
  [raw   |-> <<Prose>> \o body \o <<OfKind("end", <<>>)>>,
   range |-> <<1, Len(body)>>]

AllParts ==
  {PartOf(body) : body \in AllBodies} \cup {[raw |-> <<Prose>>, range |-> <<1, 1>>]}
=============================================================================
