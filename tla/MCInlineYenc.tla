----------------------------- MODULE MCInlineYenc -----------------------------
(***************************************************************************)
(* InlineYenc for TLC: bodies of up to MaxFragments fragments, each an     *)
(* article, a damaged one, prose or a stray line.  The CRC of a sequence   *)
(* of bytes is the number its bytes spell.                                 *)
(***************************************************************************)
EXTENDS InlineYenc, TLC

CONSTANT MaxFragments

Spelled(seq) == FoldLeft(LAMBDA n, b : 5 * n + b, 1, seq)

Rubbish == <<0>>
Lines(data) == [i \in DOMAIN data |-> DataLine(<<data[i]>>)]

Plain == <<Field("name", "f")>>

\* "f name=g size=9": words of the name that look like fields.
Tricky == Plain \o <<Field("name", "g"), Field("size", 9)>>

Single == Encode(<<1>>, Lines(<<1>>), Plain, Rubbish)
Pair == Encode(<<2, 3>>, Lines(<<2, 3>>), Tricky, Rubbish)
Multi ==
  EncodePart(<<4>>, Lines(<<4>>), Tricky, 2, 2, 1, 1, 1, Spelled(<<4, 4>>), Rubbish)

\* A multi-part article of an encoder that writes neither CRC nor size.
Unchecked == [Multi EXCEPT ![Len(Multi)] = Yend(<<>>, Rubbish)]

Tabbed == <<[Plain[1] EXCEPT !.sep = "tab"]>>

\* Other fields and words between the usual ones, one of them twice, in another
\* order, and tabs between them.
Dialect ==
  [Pair EXCEPT
     ![1] = Ybegin(<<Field("size", 7), Field("x", "y"), Field("size", 2),
                     Field(None, "w")>> \o Tabbed, Rubbish),
     ![4] = Yend(<<Field("crc32", Spelled(<<2, 3>>)), Field("x", "y")>>, Rubbish)]

\* A part of this file name, of a file of this size.
Carries(data, name, size) ==
  [Failed(None) EXCEPT !.data = data, !.name = name, !.size = size,
                       !.verified = TRUE]

KnownArticles ==
  Single :> Carries(<<1>>, Plain, 1)
    @@ Pair :> Carries(<<2, 3>>, Tricky, 2)
    @@ Multi :> [Carries(<<4>>, Tricky, 2) EXCEPT !.part = 1, !.total = 2,
                                                   !.begin = 1, !.end = 1]
    @@ Dialect :> Carries(<<2, 3>>, Tabbed, 2)

Prose == <<DataLine(<<0>>)>>
BareYend == <<Line("yendbare", None, <<0>>)>>

\* An article with a bare =yend among its data.
Split ==
  Encode(<<1, 0, 1>>, Lines(<<1>>) \o BareYend \o Lines(<<1>>), Plain,
         Rubbish)

Fragments ==
  {Single, Pair, Multi, Dialect, Unchecked, Prose, BareYend, Split,
   SubSeq(Pair, 1, 2),                       \* cut off
   SubSeq(Unchecked, 1, 3),                  \* cut off, nothing to check
   <<Single[1]>> \o <<Single[3]>>,           \* its data lost
   Tail(Single)}                             \* its =ybegin lost

Bodies == {FlattenSeq(f) : f \in BoundedSeq(Fragments, MaxFragments)}

\* A header line, the body, and a line of the next part.
AllMessages == {Prose \o b \o Prose : b \in Bodies}

\* Body ranges that fit many of the messages, and one that fits none.
AllRanges == {<<1, n>> : n \in 0 .. 12} \cup {<<2, 99>>}

\* These messages are such as IntactArticlesFound asks for.  Its other hypothesis,
\* WrittenDecodes, is what IntactFound says of a body with a single article.
ASSUME HypothesisHolds == CrcTells
=============================================================================
