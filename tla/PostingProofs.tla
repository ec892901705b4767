---------------------------- MODULE PostingProofs ----------------------------
(***************************************************************************)
(* Proofs about UuPosting, for every file, every way to cut it into parts, *)
(* every setup and any number of damaged copies: missing_parts and         *)
(* is_complete say what has come, the client implements SeriesAssembly,    *)
(* and a table of contents is read as it was meant.  Then about            *)
(* LineCodecs, the encoders and decoders of the articles, for every data   *)
(* and every line length: nothing on the wire is framing, nothing would be *)
(* stripped, and what was encoded comes back.                              *)
(***************************************************************************)
EXTENDS UuPosting, LineCodecs, DataFacts, FiniteSetTheorems, SequenceTheorems, TLAPS

Key == setup.key
Coll == CollectionOf(Key)

\* The parts that make the collection know its total: part 0 of a table of
\* contents without one does not.
Counted == delivered \ (IF setup.toc = "total" THEN {} ELSE {0})

PartBytes(n) == SubSeq(File, FirstOffset(n) + 1, PartEnds[n])

\* A body that decode reads to its end.
ReadsWhole(body) ==
  DecodeBody(body).error = "none" /\ ~DecodeBody(body).truncated

\* The bodies that come under a number.
Sent(n) == IF n = 0 THEN {Contents} ELSE Copies(n, setup.style)

SpoolOk ==
  \A article \in spool :
    \/ article \in Strangers
    \/ \E n \in PostedNumbers(setup) :
         /\ article.number = n
         /\ article.subject = Posted(n, setup).subject
         /\ article.body \in Sent(n)

CollectionOk ==
  /\ Coll = [parts |-> Coll.parts, total |-> Coll.total]
  /\ Coll.parts = [n \in DOMAIN Coll.parts |-> Coll.parts[n]]
  /\ Coll.total = IF Counted = {} THEN Parts!NoTotal ELSE Total
  /\ Counted \subseteq DOMAIN Coll.parts
  /\ DOMAIN Coll.parts \subseteq delivered
  /\ Counted = {} => delivered \subseteq DOMAIN Coll.parts
  /\ \A n \in DOMAIN Coll.parts : Coll.parts[n] \in Sent(n)

\* Every part is there and was posted and delivered whole.
AllWhole == \A n \in Numbers : n \in DOMAIN Coll.parts /\ ReadsWhole(Coll.parts[n])

PostingInv ==
  /\ setup \in Setups
  /\ delivered \subseteq PostedNumbers(setup)
  /\ SpoolOk
  /\ CollectionOk
  /\ Handed # None => AllWhole

-----------------------------------------------------------------------------
(* The posted bodies and what decode makes of them.                        *)

LEMMA PartsFacts ==
  /\ Total \in Nat /\ Total >= 1 /\ Numbers = 1 .. Total
  /\ Len(File) \in Nat /\ None \notin 0 .. Total
  /\ PartEnds[Total] = Len(File)
  /\ \A n \in Numbers :
       /\ FirstOffset(n) \in 0 .. Len(File)
       /\ PartEnds[n] \in 0 .. Len(File)
       /\ FirstOffset(n) <= PartEnds[n]
       /\ PartEnds[n] - FirstOffset(n) \in Nat
<1>1. Total \in Nat /\ Total >= 1 /\ Numbers = 1 .. Total
  BY PartsAssumption DEF Total, Numbers
<1>2. Len(File) \in Nat
  BY PartsAssumption
<1>3. ASSUME NEW n \in Numbers  PROVE PartEnds[n] \in 0 .. Len(File)
  BY PartsAssumption DEF Numbers
<1>4. ASSUME NEW n \in Numbers
      PROVE  FirstOffset(n) \in 0 .. Len(File) /\ FirstOffset(n) <= PartEnds[n]
  <2>1. CASE n = 1
    BY <1>2, <1>3, <2>1 DEF FirstOffset
  <2>2. CASE n # 1
    <3>1. n - 1 \in Numbers /\ n \in 2 .. Total
      BY <1>1, <2>2
    <3>. QED
      BY <1>3, <2>2, <3>1, PartsAssumption DEF FirstOffset, Total
  <2>. QED
    BY <2>1, <2>2
<1>5. ASSUME NEW n \in Numbers  PROVE PartEnds[n] - FirstOffset(n) \in Nat
  BY <1>2, <1>3, <1>4
<1>. QED
  BY <1>1, <1>2, <1>3, <1>4, <1>5, PartsAssumption DEF Total

\* Lines of one byte each decode to their bytes.
LEMMA DataLinesBytes ==
  ASSUME NEW input, NEW off \in Nat, NEW k \in Nat, off + k <= Len(File),
         \A i \in 1 .. k : input[2 + i].bytes = <<File[off + i]>>
  PROVE  BytesOf(input, 3, 2 + k) = SubSeq(File, off + 1, off + k)
<1>. DEFINE seqs == [i \in 1 .. k |-> <<File[off + i]>>]
            w == [i \in 1 .. k |-> SubSeq(File, off + 1, off + i)]
<1>1. Len(File) \in Nat /\ File \in Seq(Range(File))
  BY PartsAssumption
<1>2. BytesOf(input, 3, 2 + k) = FlattenSeq(seqs)
  <2>1. (2 + k) - 3 + 1 = k
    OBVIOUS
  <2>2. [i \in 1 .. k |-> input[3 + i - 1].bytes] = seqs
    <3>1. \A i \in 1 .. k : 3 + i - 1 = 2 + i
      OBVIOUS
    <3>. QED
      BY <3>1
  <2>. HIDE DEF seqs
  <2>. QED
    BY <2>1, <2>2, Zenon DEF BytesOf
<1>3. Len(seqs) = k
  OBVIOUS
<1>4. CASE k = 0
  <2>1. seqs = <<>>
    BY <1>4
  <2>2. SubSeq(File, off + 1, off + k) = <<>>
    BY <1>1, <1>4
  <2>3. FlattenSeq(seqs) = seqs
    BY <1>3, <1>4, Zenon DEF FlattenSeq
  <2>. QED
    BY <1>2, <2>1, <2>2, <2>3
<1>5. CASE k # 0
  <2>1. \A i \in 1 .. k : off + i \in 1 .. Len(File)
    BY <1>1
  <2>2. w[1] = seqs[1]
    <3>1. 1 \in 1 .. k /\ off + 1 \in 1 .. Len(File)
      BY <1>5, <2>1
    <3>2. SubSeq(File, off + 1, off + 1) = <<File[off + 1]>>
      BY <1>1, <3>1, SubSeqOfOne
    <3>. QED
      BY <3>1, <3>2
  <2>3. ASSUME NEW i \in 2 .. k  PROVE w[i] = w[i - 1] \o seqs[i]
    <3>1. SubSeq(File, off + 1, off + i) = SubSeq(File, off + 1, off + (i - 1)) \o <<File[off + i]>>
      BY <1>1, <2>1
    <3>2. i - 1 \in 1 .. k /\ i \in 1 .. k
      OBVIOUS
    <3>. QED
      BY <3>1, <3>2
  <2>4. FlattenSeq(seqs) = w[k]
    <3>. HIDE DEF seqs, w
    <3>. QED
      BY <1>3, <1>5, <2>2, <2>3, FlattenSteps
  <2>. QED
    BY <1>2, <1>5, <2>4
<1>. QED
  BY <1>4, <1>5

\* The lines of a part: text and the begin line above the block, the data,
\* the zero line and the end line.
LEMMA LinesOfPart ==
  ASSUME NEW n \in Numbers, NEW style
  PROVE  LET o == IF style = "each" \/ n = 1 THEN 2 ELSE 0
             c == IF style = "each" \/ n = Total THEN 2 ELSE 0
             k == PartEnds[n] - FirstOffset(n)
             P == PartBody(n, style)
         IN  /\ Len(P) = o + k + c
             /\ P \in Seq(Range(P))
             /\ \A i \in 1 .. k : P[o + i] = Line("data", <<File[FirstOffset(n) + i]>>)
             /\ o = 2 => P[1] = Line("broken", <<>>) /\ P[2] = Line("begin", <<>>)
             /\ c = 2 => P[o + k + 1] = Line("zero", <<>>) /\ P[o + k + 2] = Line("end", <<>>)
<1>. DEFINE k == PartEnds[n] - FirstOffset(n)
            above == IF style = "each" \/ n = 1 THEN Opening ELSE <<>>
            below == IF style = "each" \/ n = Total THEN Closing ELSE <<>>
            P == PartBody(n, style)
            Lines == {Line(kind, bytes) : kind \in {"broken", "begin", "data", "zero", "end"},
                                          bytes \in {<<>>} \cup {<<x>> : x \in {File[i] : i \in Nat}}}
<1>1. k \in Nat /\ FirstOffset(n) \in Nat
  BY PartsFacts
<1>2. P = above \o DataLines(n) \o below
  BY Zenon DEF PartBody
<1>3. Opening \in Seq(Lines) /\ Closing \in Seq(Lines)
  <2>1. Line("broken", <<>>) \in Lines /\ Line("begin", <<>>) \in Lines
        /\ Line("zero", <<>>) \in Lines /\ Line("end", <<>>) \in Lines
    OBVIOUS
  <2>. HIDE DEF Lines
  <2>. QED
    BY <2>1 DEF Opening, Closing
<1>4. DataLines(n) \in Seq(Lines) /\ Len(DataLines(n)) = k
  <2>1. ASSUME NEW i \in 1 .. k
        PROVE  Line("data", <<File[FirstOffset(n) + i]>>) \in Lines
    <3>1. FirstOffset(n) + i \in Nat
      BY <1>1
    <3>. QED
      BY <3>1
  <2>2. PartEnds[n] - FirstOffset(n) = k
    OBVIOUS
  <2>. HIDE DEF Lines, k
  <2>3. DataLines(n) = [i \in 1 .. k |-> Line("data", <<File[FirstOffset(n) + i]>>)]
    BY <2>2, Zenon DEF DataLines
  <2>. QED
    BY <1>1, <2>1, <2>3
<1>5. \A i \in 1 .. k : DataLines(n)[i] = Line("data", <<File[FirstOffset(n) + i]>>)
  BY DEF DataLines
<1>6. Len(Opening) = 2 /\ Opening[1] = Line("broken", <<>>) /\ Opening[2] = Line("begin", <<>>)
  BY DEF Opening
<1>7. Len(Closing) = 2 /\ Closing[1] = Line("zero", <<>>) /\ Closing[2] = Line("end", <<>>)
  BY DEF Closing
<1>. DEFINE o == IF style = "each" \/ n = 1 THEN 2 ELSE 0
            c == IF style = "each" \/ n = Total THEN 2 ELSE 0
<1>8. above \in Seq(Lines) /\ Len(above) = o /\ (o = 2 => above = Opening)
  <2>. HIDE DEF Lines
  <2>1. CASE style = "each" \/ n = 1
    BY <1>3, <1>6, <2>1
  <2>2. CASE ~(style = "each" \/ n = 1)
    BY <2>2, EmptySeq
  <2>. QED
    BY <2>1, <2>2
<1>9. below \in Seq(Lines) /\ Len(below) = c /\ (c = 2 => below = Closing)
  <2>. HIDE DEF Lines
  <2>1. CASE style = "each" \/ n = Total
    BY <1>3, <1>7, <2>1
  <2>2. CASE ~(style = "each" \/ n = Total)
    BY <2>2, EmptySeq
  <2>. QED
    BY <2>1, <2>2
<1>10. o \in Nat /\ c \in Nat
  OBVIOUS
<1>. HIDE DEF above, below, Lines, k, o, c, P
<1>11. /\ Len(P) = o + k + c
       /\ \A i \in 1 .. o : P[i] = above[i]
       /\ \A i \in 1 .. k : P[o + i] = DataLines(n)[i]
       /\ \A i \in 1 .. c : P[o + k + i] = below[i]
       /\ P \in Seq(Lines)
  <2>. DEFINE d == DataLines(n)
  <2>1a. above \in Seq(Lines)
    BY <1>8
  <2>1b. d \in Seq(Lines)
    BY <1>4
  <2>1c. below \in Seq(Lines)
    BY <1>9
  <2>. HIDE DEF d
  <2>2. /\ above \o d \o below \in Seq(Lines)
        /\ Len(above \o d \o below) = Len(above) + Len(d) + Len(below)
        /\ \A i \in 1 .. Len(above) : (above \o d \o below)[i] = above[i]
        /\ \A i \in 1 .. Len(d) : (above \o d \o below)[Len(above) + i] = d[i]
        /\ \A i \in 1 .. Len(below) :
             (above \o d \o below)[Len(above) + Len(d) + i] = below[i]
    BY <2>1a, <2>1b, <2>1c, ThreeInARow, SMT
  <2>3. P = above \o d \o below /\ Len(above) = o /\ Len(d) = k /\ Len(below) = c
    BY <1>2, <1>4, <1>8, <1>9 DEF P, d
  <2>4. DataLines(n) = d
    BY DEF d
  <2>. QED
    BY <2>2, <2>3, <2>4
<1>12. P \in Seq(Range(P))
  BY <1>11 DEF Range
<1>. QED
  BY <1>5, <1>6, <1>7, <1>8, <1>9, <1>10, <1>11, <1>12 DEF o, c, k, P

LEMMA CopiesAreBodies ==
  \A n \in Numbers : \A style \in {"each", "split"} : Copies(n, style) \subseteq Bodies
  BY DEF Bodies

LEMMA LineFields ==
  \A kind, bytes : Line(kind, bytes).kind = kind /\ Line(kind, bytes).bytes = bytes
  BY DEF Line

\* A copy of a part that decode reads to its end gives the bytes of the part.
LEMMA WholeCopyBytes ==
  ASSUME NEW n \in Numbers, NEW style \in {"each", "split"},
         NEW body \in Copies(n, style), ReadsWhole(body)
  PROVE  DecodeBody(body).data = PartBytes(n)
<1>. DEFINE P == PartBody(n, style)
            k == PartEnds[n] - FirstOffset(n)
            o == IF style = "each" \/ n = 1 THEN 2 ELSE 0
            c == IF style = "each" \/ n = Total THEN 2 ELSE 0
            begins == {i \in DOMAIN body : body[i].kind \in BeginKinds}
            stops == Stops(body, 2 + 1, Unlimited)
<1>1. PICK length \in 0 .. Len(P) : body = SubSeq(P, 1, length)
  BY DEF Copies
<1>2. DecodeBody(body) = DecodeLimited(body, Unlimited)
  <2>1. body \in Bodies
    BY CopiesAreBodies, Zenon
  <2>. QED
    BY <2>1 DEF DecodeBody, Decoded
<1>3. /\ Len(P) = o + k + c /\ P \in Seq(Range(P))
      /\ \A i \in 1 .. k : P[o + i] = Line("data", <<File[FirstOffset(n) + i]>>)
      /\ o = 2 => P[1] = Line("broken", <<>>) /\ P[2] = Line("begin", <<>>)
      /\ c = 2 => P[o + k + 1] = Line("zero", <<>>) /\ P[o + k + 2] = Line("end", <<>>)
  BY LinesOfPart
<1>4. /\ k \in Nat /\ o \in {0, 2} /\ c \in {0, 2} /\ FirstOffset(n) \in Nat
      /\ FirstOffset(n) + k <= Len(File) /\ FirstOffset(n) + k = PartEnds[n]
      /\ Len(File) \in Nat
  <2>1. o \in {0, 2} /\ c \in {0, 2}
    OBVIOUS
  <2>2. k \in Nat
    BY PartsFacts
  <2>3. /\ FirstOffset(n) \in 0 .. Len(File) /\ PartEnds[n] \in 0 .. Len(File)
        /\ Len(File) \in Nat
    BY PartsFacts
  <2>. QED
    BY <2>1, <2>2, <2>3
<1>. HIDE DEF P, k, o, c
<1>5. /\ length \in Nat /\ length <= o + k + c
      /\ DOMAIN body = 1 .. length /\ Len(body) = length
      /\ \A i \in 1 .. length : body[i] = P[i]
  BY <1>1, <1>3, <1>4
<1>6. ASSUME NEW i \in 1 .. k, o + i <= length
      PROVE  body[o + i] = Line("data", <<File[FirstOffset(n) + i]>>)
  <2>1. o + i \in 1 .. length
    BY <1>4, <1>5, <1>6
  <2>. QED
    BY <1>3, <1>5, <2>1
<1>7. o = 2 => \A i \in 1 .. length : i <= 2 => body[i] = IF i = 1 THEN Line("broken", <<>>) ELSE Line("begin", <<>>)
  BY <1>3, <1>5
<1>8. c = 2 => \A i \in 1 .. length : i > o + k =>
                 body[i] = IF i = o + k + 1 THEN Line("zero", <<>>) ELSE Line("end", <<>>)
  BY <1>3, <1>4, <1>5
<1>6a. \A i \in 1 .. length : i > o /\ i <= o + k => body[i].kind = "data"
  <2>. SUFFICES ASSUME NEW i \in 1 .. length, i > o, i <= o + k
                PROVE  body[i].kind = "data"
    OBVIOUS
  <2>1. PICK j \in 1 .. k : i = o + j
    <3>1. i - o \in 1 .. k /\ i = o + (i - o)
      BY <1>4
    <3>. QED
      BY <3>1
  <2>2. body[o + j] = Line("data", <<File[FirstOffset(n) + j]>>)
    BY <1>6, <2>1
  <2>. QED
    BY <2>1, <2>2 DEF Line
<1>9. \A i \in 1 .. length : body[i].kind \in BeginKinds => o = 2 /\ i = 2
  <2>. SUFFICES ASSUME NEW i \in 1 .. length, body[i].kind \in BeginKinds, ~(o = 2 /\ i = 2)
                PROVE  FALSE
    OBVIOUS
  <2>1. CASE i <= o
    BY <1>4, <1>7, <2>1 DEF Line, BeginKinds, StandardBegins, MalformedBegins, Base64Begins
  <2>2. CASE i > o /\ i <= o + k
    BY <1>6a, <2>2 DEF BeginKinds, StandardBegins, MalformedBegins, Base64Begins
  <2>3. CASE i > o + k
    <3>1. c = 2
      BY <1>4, <1>5, <2>3
    <3>. QED
      BY <1>8, <2>3, <3>1 DEF Line, BeginKinds, StandardBegins, MalformedBegins, Base64Begins
  <2>. QED
    BY <1>4, <2>1, <2>2, <2>3
<1>10. begins # {}
  BY <1>2 DEF ReadsWhole, DecodeLimited, UuError
<1>11. o = 2 /\ begins = {2} /\ Min(begins) = 2 /\ 2 \in 1 .. length
  <2>1. o = 2 /\ begins = {2} /\ 2 \in 1 .. length
    BY <1>5, <1>9, <1>10
  <2>. QED
    BY <2>1, MinUnique
<1>12. body[2].kind = "begin"
  BY <1>7, <1>11 DEF Line
<1>13. DecodeBody(body) = DecodeFrom(body, 2, Unlimited)
  BY <1>2, <1>10, <1>11, <1>12 DEF DecodeLimited, Base64Begins
<1>. DEFINE first == 2 + 1
            stop == IF stops = {} THEN Len(body) + 1 ELSE Min(stops)
            before == BytesOf(body, first, stop - 1)
            passed == Len(before) > Unlimited
            out == IF stops # {} /\ ~passed /\ Undecodable(body[stop])
                   THEN before \o body[stop].bytes ELSE before
            over == Len(out) > Unlimited
            kept == IF over THEN SubSeq(out, 1, Unlimited) ELSE out
            ended == /\ stops # {} /\ ~passed
                     /\ DecodesToZero(body[stop])
                     /\ EndsAfter(body, stop)
<1>14. DecodeFrom(body, 2, Unlimited) =
         [error     |-> "none",
          data      |-> kept,
          truncated |-> ~ended \/ over,
          limited   |-> over]
  BY Zenon DEF DecodeFrom
<1>. HIDE DEF over, out, ended, kept
<1>15. ended /\ ~over /\ DecodeBody(body).data = out
  <2>1. DecodeBody(body).truncated = (~ended \/ over)
    BY <1>13, <1>14
  <2>2. DecodeBody(body).data = kept
    BY <1>13, <1>14
  <2>3. ~DecodeBody(body).truncated
    BY DEF ReadsWhole
  <2>. QED
    BY <2>1, <2>2, <2>3, Zenon DEF kept
<1>16. stops # {} /\ DecodesToZero(body[stop]) /\ out = before
  <2>. HIDE DEF stop, stops, before, passed
  <2>. QED
    BY <1>15, Zenon DEF ended, out, Undecodable
<1>17. first = 3
  OBVIOUS
<1>18. stop \in stops /\ stop \in 3 .. length
  <2>1. stops \in SUBSET Nat /\ stops \in SUBSET (3 .. length)
    BY <1>5, <1>17 DEF Stops
  <2>. HIDE DEF stops
  <2>2. Min(stops) \in stops
    BY <1>16, <2>1, MinOfNat
  <2>. QED
    BY <1>16, <2>1, <2>2
<1>. HIDE DEF first, stop, stops, before
<1>19. c = 2 /\ stop = 3 + k
  <2>1. CASE stop <= o + k
    <3>1. stop \in 1 .. length /\ stop > o
      BY <1>5, <1>11, <1>18
    <3>2. body[stop].kind = "data"
      BY <1>6a, <2>1, <3>1
    <3>. QED
      BY <1>16, <3>2 DEF DecodesToZero
  <2>2. CASE stop > o + k
    <3>1. c = 2 /\ stop \in 1 .. length
      BY <1>4, <1>5, <1>18, <2>2
    <3>2. CASE stop = o + k + 1
      BY <1>4, <1>11, <3>1, <3>2
    <3>3. CASE stop # o + k + 1
      <4>1. body[stop].kind = "end"
        BY <1>8, <2>2, <3>1, <3>3 DEF Line
      <4>. QED
        BY <1>16, <4>1 DEF DecodesToZero
    <3>. QED
      BY <3>2, <3>3
  <2>. QED
    BY <1>4, <1>18, <2>1, <2>2
<1>20. before = SubSeq(File, FirstOffset(n) + 1, FirstOffset(n) + k)
  <2>1. ASSUME NEW i \in 1 .. k
        PROVE  body[2 + i].bytes = <<File[FirstOffset(n) + i]>>
    <3>1. 2 + i = o + i /\ o + i <= length
      BY <1>4, <1>11, <1>18, <1>19
    <3>2. body[2 + i] = Line("data", <<File[FirstOffset(n) + i]>>)
      BY <1>6, <3>1
    <3>. QED
      BY <3>2 DEF Line
  <2>2. BytesOf(body, 3, 2 + k) = SubSeq(File, FirstOffset(n) + 1, FirstOffset(n) + k)
    BY <1>4, <2>1, DataLinesBytes
  <2>3. 2 + k = stop - 1
    BY <1>4, <1>19
  <2>. QED
    BY <1>17, <2>2, <2>3 DEF before
<1>. QED
  BY <1>4, <1>15, <1>16, <1>20 DEF PartBytes
-----------------------------------------------------------------------------
(* reassemble.                                                             *)

\* The parts in a row are the file.
LEMMA PartsMakeFile ==
  FlattenSeq([n \in 1 .. Total |-> PartBytes(n)]) = File
<1>. DEFINE seqs == [n \in 1 .. Total |-> PartBytes(n)]
            w == [n \in 1 .. Total |-> SubSeq(File, 1, PartEnds[n])]
<1>1. /\ Total \in Nat \ {0} /\ Numbers = 1 .. Total /\ PartEnds[Total] = Len(File)
      /\ File \in Seq(Range(File)) /\ Len(File) \in Nat
  BY PartsFacts, PartsAssumption
<1>2. Len(seqs) = Total
  BY <1>1
<1>3. w[1] = seqs[1]
  <2>1. 1 \in 1 .. Total
    BY <1>1
  <2>2. PartBytes(1) = SubSeq(File, 1, PartEnds[1])
    BY DEF PartBytes, FirstOffset
  <2>. QED
    BY <2>1, <2>2
<1>4. ASSUME NEW n \in 2 .. Total  PROVE w[n] = w[n - 1] \o seqs[n]
  <2>1. n - 1 \in 1 .. Total /\ n \in 1 .. Total /\ n # 1
    BY <1>1
  <2>2. FirstOffset(n) = PartEnds[n - 1]
    BY <2>1 DEF FirstOffset
  <2>3. /\ PartEnds[n - 1] \in 0 .. Len(File)
        /\ PartEnds[n] \in PartEnds[n - 1] .. Len(File)
    BY <1>1, <2>1, <2>2, PartsFacts
  <2>4. SubSeq(File, 1, PartEnds[n - 1]) \o SubSeq(File, PartEnds[n - 1] + 1, PartEnds[n])
          = SubSeq(File, 1, PartEnds[n])
    <3>. DEFINE k == PartEnds[n - 1]
                l == PartEnds[n]
    <3>1. 1 \in 1 .. Len(File) + 1 /\ k \in 1 - 1 .. Len(File) /\ l \in k .. Len(File)
      BY <1>1, <2>3
    <3>. HIDE DEF k, l
    <3>2. SubSeq(File, 1, k) \o SubSeq(File, k + 1, l) = SubSeq(File, 1, l)
      BY <1>1, <3>1, ConcatAdjacentSubSeq
    <3>. QED
      BY <3>2 DEF k, l
  <2>5. seqs[n] = SubSeq(File, PartEnds[n - 1] + 1, PartEnds[n])
    BY <2>1, <2>2 DEF PartBytes
  <2>. QED
    BY <2>1, <2>4, <2>5
<1>5. FlattenSeq(seqs) = w[Total]
  <2>. HIDE DEF seqs, w
  <2>. QED
    BY <1>1, <1>2, <1>3, <1>4, FlattenSteps
<1>6. w[Total] = File
  BY <1>1, SubSeqFull
<1>. QED
  BY <1>5, <1>6

\* The instance has the operators of the libraries under its own name.
LEMMA SameOperators ==
  /\ \A S : Parts!Cardinality(S) = Cardinality(S)
  /\ \A S : Parts!Min(S) = Min(S)
  /\ \A s : Parts!FlattenSeq(s) = FlattenSeq(s)
<1>1. \A S : Parts!Cardinality(S) = Cardinality(S)
  BY Zenon DEF Parts!Cardinality, Cardinality
<1>2. \A S : Parts!Min(S) = Min(S)
  BY Zenon DEF Parts!Min, Min
<1>3. \A s : Parts!FlattenSeq(s) = FlattenSeq(s)
  BY Zenon DEF Parts!FlattenSeq, FlattenSeq
<1>. QED
  BY <1>1, <1>2, <1>3

\* When every part is there, they are taken in the order of their numbers.
LEMMA PresentInOrder ==
  ASSUME NEW coll, NEW t \in Nat, {n \in DOMAIN coll.parts : n >= 1} = 1 .. t
  PROVE  Parts!PresentParts(coll) = [i \in 1 .. t |-> i]
<1>1. ASSUME NEW n \in 1 .. t  PROVE Parts!Cardinality({m \in 1 .. t : m < n}) = n - 1
  <2>1. {m \in 1 .. t : m < n} = 1 .. n - 1
    OBVIOUS
  <2>2. Cardinality(1 .. n - 1) = n - 1
    <3>. DEFINE a == n - 1
    <3>1. a \in Nat /\ 1 \in Int /\ a \in Int
      OBVIOUS
    <3>. HIDE DEF a
    <3>2. Cardinality(1 .. a) = IF 1 > a THEN 0 ELSE a - 1 + 1
      BY <3>1, FS_Interval
    <3>3. Cardinality(1 .. a) = a
      BY <3>1, <3>2
    <3>. QED
      BY <3>3 DEF a
  <2>. QED
    BY <2>1, <2>2, SameOperators
<1>2. Parts!Cardinality(1 .. t) = t
  <2>1. Cardinality(1 .. t) = IF 1 > t THEN 0 ELSE t - 1 + 1
    BY FS_Interval
  <2>. QED
    BY <2>1, SameOperators
<1>3. ASSUME NEW i \in 1 .. t
      PROVE  (CHOOSE n \in 1 .. t : Parts!Cardinality({m \in 1 .. t : m < n}) = i - 1) = i
  <2>. DEFINE Below(n) == Parts!Cardinality({m \in 1 .. t : m < n})
              c == CHOOSE n \in 1 .. t : Below(n) = i - 1
  <2>1. \A n \in 1 .. t : Below(n) = n - 1
    BY <1>1
  <2>. HIDE DEF Below
  <2>2. c \in 1 .. t /\ Below(c) = i - 1
    BY <2>1
  <2>3. c - 1 = i - 1
    BY <2>1, <2>2
  <2>. HIDE DEF c
  <2>4. c = i
    BY <2>2, <2>3
  <2>. QED
    BY <2>4 DEF c, Below
<1>4. Parts!PresentParts(coll) =
        [i \in 1 .. Parts!Cardinality(1 .. t) |->
           CHOOSE n \in 1 .. t : Parts!Cardinality({m \in 1 .. t : m < n}) = i - 1]
  <2>. DEFINE present == {n \in DOMAIN coll.parts : n >= 1}
              Row(S) == [i \in 1 .. Parts!Cardinality(S) |->
                           CHOOSE n \in S : Parts!Cardinality({m \in S : m < n}) = i - 1]
  <2>1. Parts!PresentParts(coll) = Row(present)
    BY Zenon DEF Parts!PresentParts
  <2>2. present = 1 .. t
    OBVIOUS
  <2>3. Row(present) = Row(1 .. t)
    <3>. HIDE DEF Row, present
    <3>. QED
      BY <2>2
  <2>. QED
    BY <2>1, <2>3, Zenon
<1>. QED
  BY <1>2, <1>3, <1>4

\* What is handed over.
Succeeded(result) == result.error = "none" /\ ~result.truncated

LEMMA ReassembleWhole ==
  ASSUME setup \in Setups, delivered \subseteq PostedNumbers(setup), CollectionOk
  PROVE  /\ Succeeded(Parts!Reassemble(Coll)) =>
              AllWhole /\ Parts!Reassemble(Coll).data = File
         /\ AllWhole => Succeeded(Parts!Reassemble(Coll))
<1>. DEFINE R == Parts!Reassemble(Coll)
            S == {n \in DOMAIN Coll.parts : n >= 1}
            present == Parts!PresentParts(Coll)
            blocks == [i \in DOMAIN present |-> DecodeBody(Coll.parts[present[i]])]
            failed == {i \in DOMAIN blocks : blocks[i].error # "none"}
            missing == Parts!MissingParts(Coll)
            truncated == Parts!IsTruncated(Coll, blocks)
<1>1. R = IF present = <<>> THEN Parts!NotReassembled("EmptyCollection")
          ELSE IF failed # {} THEN Parts!NotReassembled(blocks[Parts!Min(failed)].error)
          ELSE [error     |-> "none",
                data      |-> Parts!FlattenSeq([i \in DOMAIN blocks |-> blocks[i].data]),
                from      |-> present[1],
                truncated |-> truncated,
                missing   |-> missing]
  BY Zenon DEF Parts!Reassemble
<1>2. \A error : Parts!NotReassembled(error).error = error
  BY DEF Parts!NotReassembled
<1>3. /\ Total \in Nat /\ Total >= 1 /\ Numbers = 1 .. Total
  BY PartsFacts
<1>4. S \subseteq 1 .. Total /\ DOMAIN Coll.parts \subseteq 0 .. Total
  <2>1. PostedNumbers(setup) \subseteq 0 .. Total
    BY <1>3 DEF PostedNumbers
  <2>. QED
    BY <1>3, <2>1 DEF CollectionOk
<1>5. /\ DOMAIN blocks = DOMAIN present /\ DOMAIN present = 1 .. Cardinality(S)
      /\ Cardinality(S) \in Nat
  <2>1. DOMAIN present = 1 .. Parts!Cardinality(S)
    <3>. HIDE DEF blocks, failed
    <3>. QED
      BY DEF Parts!PresentParts
  <2>2. IsFiniteSet(1 .. Total)
    BY <1>3, FS_Interval
  <2>. HIDE DEF S, present
  <2>3. IsFiniteSet(S)
    BY <1>4, <2>2, FS_Subset
  <2>4. Cardinality(S) \in Nat
    BY <2>3, FS_CardinalityType
  <2>. QED
    BY <2>1, <2>4, SameOperators
<1>6. ASSUME failed # {}, present # <<>>  PROVE R.error # "none"
  <2>1. failed \in SUBSET Nat
    BY <1>5
  <2>. HIDE DEF blocks, R, present
  <2>2. Parts!Min(failed) \in failed
    <3>. HIDE DEF failed
    <3>. QED
      BY <1>6, <2>1, MinOfNat, SameOperators
  <2>3. blocks[Parts!Min(failed)].error # "none"
    BY <2>2
  <2>. HIDE DEF failed
  <2>. QED
    BY <1>1, <1>2, <1>6, <2>3
<1>7. CASE Counted = {}
  <2>1. S = 1 .. 0
    BY <1>4, <1>7 DEF CollectionOk, Counted
  <2>2. present = [i \in 1 .. 0 |-> i]
    <3>. HIDE DEF present
    <3>. QED
      BY <2>1, PresentInOrder DEF present
  <2>3. present = <<>>
    <3>. HIDE DEF present
    <3>. QED
      BY <2>2
  <2>4. R.error = "EmptyCollection"
    <3>. HIDE DEF present, R, failed, blocks, truncated, missing
    <3>. QED
      BY <1>1, <1>2, <2>3
  <2>5. ~AllWhole
    BY <1>3, <1>4, <2>1 DEF AllWhole
  <2>. QED
    BY <2>4, <2>5 DEF Succeeded
<1>8. CASE Counted # {} /\ missing # {}
  <2>1. ~AllWhole
    BY <1>3, <1>8 DEF AllWhole, CollectionOk, Parts!MissingParts
  <2>2. truncated = TRUE
    <3>. HIDE DEF blocks
    <3>. QED
      BY <1>8 DEF Parts!IsTruncated
  <2>3. ~Succeeded(R)
    <3>. HIDE DEF present, R, failed, blocks, truncated, missing
    <3>. QED
      BY <1>1, <1>2, <1>6, <2>2 DEF Succeeded
  <2>. QED
    BY <2>1, <2>3
<1>9. CASE Counted # {} /\ missing = {}
  <2>1. Numbers \subseteq DOMAIN Coll.parts
    BY <1>3, <1>9 DEF CollectionOk, Parts!MissingParts
  <2>2. S = 1 .. Total
    BY <1>3, <1>4, <2>1
  <2>3. present = [i \in 1 .. Total |-> i]
    <3>. HIDE DEF present
    <3>. QED
      BY <1>3, <2>2, PresentInOrder DEF present
  <2>4. blocks = [i \in 1 .. Total |-> DecodeBody(Coll.parts[i])]
    <3>. HIDE DEF present
    <3>. QED
      BY <2>3
  <2>5. present # <<>>
    <3>. HIDE DEF present
    <3>. QED
      BY <1>3, <2>3
  <2>6. AllWhole <=> \A i \in 1 .. Total : blocks[i].error = "none" /\ ~blocks[i].truncated
    <3>. HIDE DEF blocks, present
    <3>. QED
      BY <1>3, <2>1, <2>4 DEF AllWhole, ReadsWhole
  <2>7. truncated <=> \E i \in 1 .. Total : blocks[i].truncated
    <3>1. DOMAIN blocks = 1 .. Total
      <4>. HIDE DEF blocks, present
      <4>. QED
        BY <2>4
    <3>. HIDE DEF blocks, present
    <3>. QED
      BY <1>9, <3>1 DEF Parts!IsTruncated
  <2>8. AllWhole => failed = {}
    <3>1. DOMAIN blocks = 1 .. Total
      <4>. HIDE DEF blocks, present
      <4>. QED
        BY <2>4
    <3>. HIDE DEF blocks, present
    <3>. QED
      BY <2>6, <3>1
  <2>9. failed = {} => \A i \in 1 .. Total : blocks[i].error = "none"
    <3>1. DOMAIN blocks = 1 .. Total
      <4>. HIDE DEF blocks, present
      <4>. QED
        BY <2>4
    <3>. HIDE DEF blocks, present
    <3>. QED
      BY <3>1
  <2>. DEFINE seqs == [i \in DOMAIN blocks |-> blocks[i].data]
  <2>10. AllWhole => seqs = [n \in 1 .. Total |-> PartBytes(n)]
    <3>. SUFFICES ASSUME AllWhole  PROVE seqs = [n \in 1 .. Total |-> PartBytes(n)]
      OBVIOUS
    <3>1. ASSUME NEW n \in 1 .. Total  PROVE blocks[n].data = PartBytes(n)
      <4>1. /\ n \in Numbers /\ n \in DOMAIN Coll.parts \ {0} /\ ReadsWhole(Coll.parts[n])
            /\ setup.style \in {"each", "split"}
        BY <1>3, <2>1, SetupsAssumption DEF AllWhole
      <4>2. Coll.parts[n] \in Copies(n, setup.style)
        BY <4>1 DEF CollectionOk, Sent
      <4>3. DecodeBody(Coll.parts[n]).data = PartBytes(n)
        BY <4>1, <4>2, WholeCopyBytes
      <4>. HIDE DEF blocks
      <4>. QED
        BY <2>4, <4>3
    <3>2. DOMAIN blocks = 1 .. Total
      <4>. HIDE DEF blocks, present
      <4>. QED
        BY <2>4
    <3>. HIDE DEF blocks
    <3>. QED
      BY <3>1, <3>2
  <2>11. AllWhole => Parts!FlattenSeq(seqs) = File
    <3>. HIDE DEF seqs
    <3>. QED
      BY <2>10, PartsMakeFile, SameOperators
  <2>12. failed = {} => /\ R.error = "none" /\ R.data = Parts!FlattenSeq(seqs)
                        /\ R.truncated = truncated
    <3>. HIDE DEF present, R, failed, blocks, truncated, missing
    <3>. QED
      BY <1>1, <2>5
  <2>13. Succeeded(R) <=> failed = {} /\ ~truncated
    <3>. HIDE DEF present, R, failed, blocks, truncated, missing, seqs
    <3>. QED
      BY <1>6, <2>5, <2>12 DEF Succeeded
  <2>. HIDE DEF present, R, failed, blocks, truncated, missing, seqs
  <2>14. Succeeded(R) <=> AllWhole
    BY <2>6, <2>7, <2>8, <2>9, <2>13
  <2>15. AllWhole => R.data = File
    BY <2>8, <2>11, <2>12
  <2>. QED
    BY <2>14, <2>15 DEF R
<1>. QED
  BY <1>7, <1>8, <1>9

-----------------------------------------------------------------------------
(* parse_subject on the subjects of the series.                            *)

LEMMA SubjectOperators ==
  /\ \A S : Subject!Min(S) = Min(S)
  /\ \A s, i : Subject!RemoveAt(s, i) = SubSeq(s, 1, i - 1) \o SubSeq(s, i + 1, Len(s))
<1>1. \A S : Subject!Min(S) = Min(S)
  BY Zenon DEF Subject!Min, Min
<1>2. \A s, i : Subject!RemoveAt(s, i) = SubSeq(s, 1, i - 1) \o SubSeq(s, i + 1, Len(s))
  BY Zenon DEF Subject!RemoveAt
<1>. QED
  BY <1>1, <1>2

\* All reply prefixes are stripped.
LEMMA PrefixesStripped ==
  ASSUME NEW S, NEW pre \in Seq(S), NEW rest \in Seq(S), rest # <<>>,
         \A i \in 1 .. Len(pre) : pre[i].is = "reply", rest[1].is # "reply"
  PROVE  Subject!StripPrefixes(pre \o rest) = rest
<1>. DEFINE s == pre \o rest
            k == Len(pre) + 1
            firsts == {i \in 1 .. Len(s) : s[i].is # "reply"}
<1>1. Len(pre) \in Nat /\ Len(rest) \in Nat /\ Len(rest) >= 1
  BY EmptySeq
<1>2. /\ s \in Seq(S) /\ Len(s) = Len(pre) + Len(rest)
      /\ \A i \in 1 .. Len(pre) + Len(rest) :
           s[i] = IF i <= Len(pre) THEN pre[i] ELSE rest[i - Len(pre)]
  BY ConcatProperties
<1>3. SubSeq(s, k, Len(s)) = rest
  BY <1>1, <1>2
<1>. HIDE DEF s
<1>4. s[k] = rest[1] /\ k \in 1 .. Len(s) /\ k \in Nat
  <2>1. /\ k \in 1 .. Len(pre) + Len(rest) /\ ~(k <= Len(pre)) /\ k - Len(pre) = 1
        /\ k \in Nat
    BY <1>1
  <2>. HIDE DEF k
  <2>. QED
    BY <1>2, <2>1
<1>5. \A i \in 1 .. Len(s) : i < k => s[i].is = "reply"
  BY <1>1, <1>2
<1>6. firsts \in SUBSET Nat /\ k \in firsts /\ \A i \in firsts : k <= i
  <2>1. firsts \in SUBSET Nat
    OBVIOUS
  <2>2. k \in firsts
    BY <1>4
  <2>3. ASSUME NEW i \in firsts  PROVE k <= i
    <3>1. i \in 1 .. Len(s) /\ s[i].is # "reply"
      OBVIOUS
    <3>2. ~(i < k) /\ i \in Nat
      BY <1>2, <1>5, <3>1
    <3>. HIDE DEF k
    <3>. QED
      BY <1>4, <3>2
  <2>. QED
    BY <2>1, <2>2, <2>3
<1>. HIDE DEF k
<1>7. Subject!Min(firsts) = k
  <2>. HIDE DEF firsts
  <2>. QED
    BY <1>6, MinUnique, SubjectOperators
<1>8. Subject!SelectInSeq(s, LAMBDA token : token.is # "reply")
        = IF firsts # {} THEN Subject!Min(firsts) ELSE 0
  BY Zenon DEF Subject!SelectInSeq
<1>9. ~(\A i \in DOMAIN s : s[i].is = "reply")
  BY <1>2, <1>4
<1>10. Subject!StripPrefixes(s)
        = SubSeq(s, Subject!SelectInSeq(s, LAMBDA token : token.is # "reply"), Len(s))
  BY <1>9, Zenon DEF Subject!StripPrefixes, Subject!From
<1>11. Subject!StripPrefixes(s) = SubSeq(s, k, Len(s))
  BY <1>6, <1>7, <1>8, <1>10, Zenon
<1>. QED
  BY <1>3, <1>11 DEF s

\* The total that the subject of a part names.
Named(how, n) == IF n = 0 /\ how.toc = "noTotal" THEN 0 ELSE Total

\* The marker of a part counts, whatever the title, and the title is left.
LEMMA MarkerFound ==
  ASSUME NEW how \in Setups, NEW n, NEW total
  PROVE  Subject!ParseStripped(how.title \o <<Subject!Mark(how.pattern, n, total)>>)
           = {[base |-> how.key, index |-> n, total |-> total]}
<1>. DEFINE t == how.title
            M == Subject!Mark(how.pattern, n, total)
            S == Range(t) \cup {M}
            s == t \o <<M>>
            l == Len(t) + 1
<1>1. /\ Titled(how) /\ how.pattern \in 1 .. 5
  BY SetupsAssumption DEF Subject!Patterns
<1>2. /\ M.is = "mark" /\ M.pattern = how.pattern /\ M.index = n /\ M.total = total
  BY DEF Subject!Mark
<1>. HIDE DEF M
<1>3. /\ t \in Seq(S) /\ <<M>> \in Seq(S) /\ Len(t) \in Nat /\ Len(t) >= 1 /\ l \in Nat
  <2>1. t \in Seq(Range(t)) /\ t # <<>>
    BY <1>1 DEF Titled
  <2>. HIDE DEF t
  <2>2. t \in Seq(S) /\ <<M>> \in Seq(S)
    BY <2>1, SeqMonotonic
  <2>. QED
    BY <2>1, <2>2, EmptySeq
<1>4. /\ s \in Seq(S) /\ Len(s) = l /\ DOMAIN s = 1 .. l
      /\ \A i \in 1 .. Len(t) : s[i] = t[i]
      /\ s[l] = M
  <2>1. /\ s \in Seq(S) /\ Len(s) = Len(t) + Len(<<M>>)
        /\ \A i \in 1 .. Len(t) + Len(<<M>>) :
             s[i] = IF i <= Len(t) THEN t[i] ELSE <<M>>[i - Len(t)]
    BY <1>3, ConcatProperties, SMT
  <2>2. Len(<<M>>) = 1 /\ <<M>>[1] = M
    OBVIOUS
  <2>. HIDE DEF s, t
  <2>. QED
    BY <1>3, <2>1, <2>2
<1>5. Subject!RemoveAt(s, l) = t
  <2>1. Subject!RemoveAt(s, l) = SubSeq(s, 1, l - 1) \o SubSeq(s, l + 1, Len(s))
    BY SubjectOperators, Zenon
  <2>2. SubSeq(s, 1, l - 1) = t
    <3>1. SubSeq(s, 1, Len(t)) = t
      BY <1>3, <1>4
    <3>2. l - 1 = Len(t)
      BY <1>3
    <3>. QED
      BY <3>1, <3>2
  <2>3. SubSeq(s, l + 1, Len(s)) = <<>>
    BY <1>3, <1>4, SubSeqEmpty
  <2>4. t \o <<>> = t
    BY <1>3, ConcatEmptySeq
  <2>. HIDE DEF s, t, l
  <2>. QED
    BY <2>1, <2>2, <2>3, <2>4
<1>. HIDE DEF s, S, l
<1>6. Subject!BaseSubject(s, l) = how.key
  <2>1. Subject!BaseSubject(s, l) = IF how.pattern = 5 THEN Subject!TrimDashes(t) ELSE t
    <3>1. s[l].pattern = how.pattern
      BY <1>2, <1>4
    <3>. HIDE DEF t
    <3>. QED
      BY <1>5, <3>1, Zenon DEF Subject!BaseSubject
  <2>. QED
    BY <1>1, <2>1, Zenon DEF Titled
<1>7. l \in Subject!Marks(s)
  <2>1. l > 1 /\ l \in DOMAIN s /\ s[l].is = "mark"
    BY <1>2, <1>3, <1>4 DEF l
  <2>. QED
    BY <2>1 DEF Subject!Marks
<1>8. \A i \in Subject!Marks(s) : i # l => how.pattern < s[i].pattern /\ s[i].pattern \in Nat
  <2>. SUFFICES ASSUME NEW i \in Subject!Marks(s), i # l
                PROVE  how.pattern < s[i].pattern /\ s[i].pattern \in Nat
    OBVIOUS
  <2>1. i \in DOMAIN s /\ s[i].is = "mark" /\ (s[i].pattern = 5 => i > 1)
    BY DEF Subject!Marks
  <2>2. i \in 1 .. Len(t) /\ s[i] = t[i] /\ DOMAIN t = 1 .. Len(t)
    BY <1>3, <1>4, <2>1 DEF l
  <2>3. i \in Subject!Marks(t)
    BY <2>1, <2>2 DEF Subject!Marks
  <2>. QED
    BY <1>1, <2>2, <2>3 DEF Titled, Subject!Patterns
<1>9. Subject!BestMarks(s) = {l}
  <2>1. s[l].pattern = how.pattern /\ l \in Nat
    BY <1>2, <1>3, <1>4 DEF l
  <2>2. ASSUME NEW i \in Subject!Marks(s)  PROVE Subject!Precedes(s, l, i)
    BY <1>8, <2>1 DEF Subject!Precedes
  <2>3. ASSUME NEW i \in Subject!Marks(s), i # l  PROVE ~Subject!Precedes(s, i, l)
    <3>1. how.pattern < s[i].pattern /\ s[l].pattern = how.pattern /\ how.pattern \in Nat
      BY <1>1, <1>8, <2>1, <2>3
    <3>2. s[i].pattern \in Nat
      BY <1>8, <2>3
    <3>. QED
      BY <3>1, <3>2 DEF Subject!Precedes
  <2>. QED
    BY <1>7, <2>2, <2>3 DEF Subject!BestMarks
<1>10. Subject!Marked(s) = {[base |-> how.key, index |-> n, total |-> total]}
  <2>1. s[l].index = n /\ s[l].total = total /\ how.key # <<>>
    BY <1>1, <1>2, <1>4 DEF Titled
  <2>. QED
    BY <1>6, <1>9, <2>1 DEF Subject!Marked
<1>11. s # <<>> /\ \A i \in DOMAIN s : s[i].is # "yenc"
  <2>1. s # <<>>
    BY <1>3, <1>4 DEF l
  <2>2. ASSUME NEW i \in 1 .. l  PROVE s[i].is # "yenc"
    <3>1. CASE i = l
      BY <1>2, <1>4, <3>1
    <3>2. CASE i # l
      <4>1. i \in 1 .. Len(t) /\ DOMAIN t = 1 .. Len(t)
        BY <1>3, <3>2 DEF l
      <4>. QED
        BY <1>1, <1>4, <4>1 DEF Titled
    <3>. QED
      BY <3>1, <3>2
  <2>. QED
    BY <1>4, <2>1, <2>2
<1>12. Subject!ParseStripped(s) = Subject!Marked(s)
  BY <1>7, <1>11, Zenon DEF Subject!ParseStripped
<1>. QED
  BY <1>10, <1>12 DEF s, M

\* Every part of the series is counted to the series, by its number.
LEMMA SubjectIsRead ==
  ASSUME NEW how \in Setups, NEW n
  PROVE  Subject!ParseSubject(Posted(n, how).subject)
           = {[base |-> how.key, index |-> n, total |-> Named(how, n)]}
<1>. DEFINE t == how.title
            M == Subject!Mark(how.pattern, n, Named(how, n))
            pre == ReplyPrefixes(n, how)
            S == Range(t) \cup {M, Subject!Reply}
<1>1. Posted(n, how).subject = pre \o t \o <<M>>
  BY DEF Posted, Named
<1>2. t \in Seq(Range(t)) /\ t # <<>> /\ t[1].is # "reply"
  BY SetupsAssumption DEF Titled
<1>. HIDE DEF M, pre
<1>3. t \in Seq(S) /\ <<M>> \in Seq(S) /\ pre \in Seq(S)
  <2>1. pre \in Seq(S)
    <3>1. Subject!Reply \in S
      OBVIOUS
    <3>. HIDE DEF S
    <3>2. <<Subject!Reply, Subject!Reply>> \in Seq(S) /\ <<>> \in Seq(S)
      BY <3>1
    <3>. QED
      BY <3>2, Zenon DEF pre, ReplyPrefixes
  <2>. HIDE DEF t
  <2>. QED
    BY <1>2, <2>1, SeqMonotonic
<1>. HIDE DEF t, S
<1>4. /\ t \o <<M>> \in Seq(S) /\ t \o <<M>> # <<>> /\ (t \o <<M>>)[1].is # "reply"
      /\ pre \o t \o <<M>> = pre \o (t \o <<M>>)
  <2>1. t \o <<M>> \in Seq(S) /\ t \o <<M>> # <<>> /\ (t \o <<M>>)[1] = t[1]
    BY <1>2, <1>3
  <2>2. pre \o t \o <<M>> = pre \o (t \o <<M>>)
    BY <1>3, ConcatAssociative
  <2>. QED
    BY <1>2, <2>1, <2>2
<1>5. \A i \in 1 .. Len(pre) : pre[i].is = "reply"
  BY DEF pre, ReplyPrefixes, Subject!Reply
<1>6. Subject!StripPrefixes(Posted(n, how).subject) = t \o <<M>>
  <2>1. Subject!StripPrefixes(pre \o (t \o <<M>>)) = t \o <<M>>
    <3>. DEFINE rest == t \o <<M>>
    <3>1. rest \in Seq(S) /\ rest # <<>> /\ rest[1].is # "reply"
      BY <1>4
    <3>. HIDE DEF rest
    <3>2. Subject!StripPrefixes(pre \o rest) = rest
      BY <1>3, <1>5, <3>1, PrefixesStripped
    <3>. QED
      BY <3>2 DEF rest
  <2>. QED
    BY <1>1, <1>4, <2>1
<1>7. Subject!ParseSubject(Posted(n, how).subject) = Subject!ParseStripped(t \o <<M>>)
  <2>1. \A s : Subject!ParseSubject(s) = Subject!ParseStripped(Subject!StripPrefixes(s))
    BY DEF Subject!ParseSubject
  <2>. QED
    BY <1>6, <2>1, Zenon
<1>. QED
  BY <1>7, MarkerFound, Zenon DEF t, M

-----------------------------------------------------------------------------
(* The invariant.                                                          *)

LEMMA PostedFacts ==
  ASSUME NEW how \in Setups
  PROVE  /\ PostedNumbers(how) \subseteq 0 .. Total /\ Numbers \subseteq PostedNumbers(how)
         /\ 0 \in PostedNumbers(how) <=> how.toc # "none"
         /\ None \notin PostedNumbers(how) /\ Numbers = PostedNumbers(how) \ {0}
         /\ \A n \in Numbers :
              /\ PartBody(n, how.style) \in Copies(n, how.style)
              /\ Posted(n, how).body = PartBody(n, how.style)
         /\ \A n : Posted(n, how).number = n
         /\ Posted(0, how).body = Contents
<1>1. Numbers = 1 .. Total /\ Total \in Nat /\ None \notin 0 .. Total
  BY PartsFacts
<1>2. ASSUME NEW n \in Numbers
      PROVE  PartBody(n, how.style) \in Copies(n, how.style)
  <2>. DEFINE P == PartBody(n, how.style)
  <2>1. P \in Seq(Range(P))
    BY LinesOfPart
  <2>. HIDE DEF P
  <2>2. SubSeq(P, 1, Len(P)) = P /\ Len(P) \in 0 .. Len(P)
    BY <2>1, SubSeqFull
  <2>. QED
    BY <2>2 DEF Copies, P
<1>3. ASSUME NEW n \in Numbers  PROVE Posted(n, how).body = PartBody(n, how.style)
  BY <1>1 DEF Posted
<1>4. \A n : Posted(n, how).number = n
  BY DEF Posted
<1>5. Posted(0, how).body = Contents
  BY DEF Posted
<1>. QED
  BY <1>1, <1>2, <1>3, <1>4, <1>5, SetupsAssumption DEF PostedNumbers

LEMMA PostingInit == Init => PostingInv
<1>. SUFFICES ASSUME Init  PROVE PostingInv
  OBVIOUS
<1>1. setup \in Setups /\ delivered = {} /\ collections = <<>> /\ results = <<>>
  BY DEF Init
<1>2. SpoolOk
  <2>. SUFFICES ASSUME NEW article \in spool, article \notin Strangers
                PROVE  \E n \in PostedNumbers(setup) :
                         /\ article.number = n
                         /\ article.subject = Posted(n, setup).subject
                         /\ article.body \in Sent(n)
    BY DEF SpoolOk
  <2>1. PICK n \in PostedNumbers(setup) : article = Posted(n, setup)
    BY DEF Init, PostedArticles
  <2>2. article.body \in Sent(n)
    BY <1>1, <2>1, PostedFacts DEF Sent
  <2>. QED
    BY <1>1, <2>1, <2>2, PostedFacts
<1>3. Coll = Parts!NewCollection
  BY <1>1 DEF Coll, CollectionOf
<1>4. Coll.parts = <<>> /\ Coll.total = Parts!NoTotal /\ Coll = [parts |-> <<>>, total |-> Parts!NoTotal]
  BY <1>3 DEF Parts!NewCollection
<1>5. CollectionOk
  <2>1. DOMAIN Coll.parts = {}
    BY <1>4
  <2>2. Coll.parts = [n \in DOMAIN Coll.parts |-> Coll.parts[n]]
    BY <1>4, <2>1
  <2>. QED
    BY <1>1, <1>4, <2>1, <2>2 DEF CollectionOk, Counted
<1>6. Handed = None
  BY <1>1 DEF Handed
<1>. QED
  BY <1>1, <1>2, <1>5, <1>6 DEF PostingInv

\* A turn of the loop counts a part of the series, or leaves it alone.
LEMMA ReceiveTurn ==
  ASSUME PostingInv, NEW article \in spool, Receive(article)
  PROVE  /\ UNCHANGED <<setup, spool, Handed>>
         /\ \/ UNCHANGED <<Coll, delivered>>
            \/ \E n \in PostedNumbers(setup) : \E body :
                 /\ body \in Sent(n)
                 /\ delivered' = delivered \cup {n}
                 /\ Coll' = Parts!Add(Sized(Coll, Named(setup, n)), n, body)
<1>1. UNCHANGED <<setup, spool, results>>
  BY DEF Receive
<1>2. UNCHANGED Handed
  BY <1>1 DEF Handed
<1>3. PICK parts \in Subject!ParseSubject(article.subject) :
        /\ parts.index # None
        /\ collections' =
             Parts!Put(collections, parts.base,
               Parts!Add(Sized(CollectionOf(parts.base), parts.total),
                         parts.index, article.body))
  BY DEF Receive
<1>4. delivered' = delivered \cup ({article.number} \ {None})
  BY DEF Receive
<1>. DEFINE new == Parts!Add(Sized(CollectionOf(parts.base), parts.total),
                             parts.index, article.body)
<1>5. /\ parts.base \in DOMAIN collections'
      /\ collections'[parts.base] = new
      /\ DOMAIN collections' = DOMAIN collections \cup {parts.base}
      /\ \A key \in DOMAIN collections : key # parts.base =>
           collections'[key] = collections[key]
  <2>. HIDE DEF new
  <2>1. collections' = Parts!Put(collections, parts.base, new)
    BY <1>3 DEF new
  <2>. QED
    BY <2>1 DEF Parts!Put
<1>6. setup \in Setups /\ SpoolOk
  BY DEF PostingInv
<1>7. CASE article \in Strangers
  <2>1. article.number = None /\ parts.base # Key
    BY <1>3, <1>6, <1>7, StrangersAssumption DEF Key
  <2>2. Coll' = Coll
    <3>1. Key' = Key
      BY <1>1 DEF Key
    <3>. QED
      BY <1>5, <2>1, <3>1 DEF Coll, CollectionOf
  <2>. QED
    BY <1>1, <1>2, <1>4, <2>1, <2>2
<1>8. CASE article \notin Strangers
  <2>1. PICK n \in PostedNumbers(setup) :
          /\ article.number = n
          /\ article.subject = Posted(n, setup).subject
          /\ article.body \in Sent(n)
    BY <1>6, <1>8 DEF SpoolOk
  <2>2. parts = [base |-> setup.key, index |-> n, total |-> Named(setup, n)]
    BY <1>3, <1>6, <2>1, SubjectIsRead
  <2>3. parts.base = Key /\ parts.index = n /\ parts.total = Named(setup, n)
    BY <2>2 DEF Key
  <2>4. Coll' = Parts!Add(Sized(Coll, Named(setup, n)), n, article.body)
    <3>1. Key' = Key
      BY <1>1 DEF Key
    <3>2. Coll' = new
      BY <1>5, <2>3, <3>1 DEF Coll, CollectionOf
    <3>. QED
      BY <2>3, <3>2 DEF Coll
  <2>5. n # None
    BY <1>6, PostedFacts
  <2>6. delivered' = delivered \cup {n}
    BY <1>4, <2>1, <2>5
  <2>. QED
    BY <1>1, <1>2, <2>1, <2>4, <2>6
<1>. QED
  BY <1>7, <1>8

\* What a collection is after a part has been counted to it: it may be made
\* anew only while it has no part but 0.
LEMMA PartCounted ==
  ASSUME PostingInv, NEW n \in PostedNumbers(setup), NEW body
  PROVE  LET new == Parts!Add(Sized(Coll, Named(setup, n)), n, body)
             counted == (delivered \cup {n}) \ (IF setup.toc = "total" THEN {} ELSE {0})
         IN  /\ new = [parts |-> new.parts, total |-> new.total]
             /\ new.parts = [m \in DOMAIN new.parts |-> new.parts[m]]
             /\ new.total = IF counted = {} THEN Parts!NoTotal ELSE Total
             /\ counted \subseteq DOMAIN new.parts
             /\ DOMAIN new.parts \subseteq delivered \cup {n}
             /\ counted = {} => delivered \cup {n} \subseteq DOMAIN new.parts
             /\ DOMAIN new.parts \ {0} = (DOMAIN Coll.parts \cup {n}) \ {0}
             /\ \A m \in DOMAIN Coll.parts \ {0} : new.parts[m] = Coll.parts[m]
             /\ \A m \in DOMAIN new.parts :
                  \/ m \in DOMAIN Coll.parts /\ new.parts[m] = Coll.parts[m]
                  \/ m = n /\ new.parts[m] = body
<1>. DEFINE sized == Sized(Coll, Named(setup, n))
            new == Parts!Add(sized, n, body)
            base == IF setup.toc = "total" THEN {} ELSE {0}
            counted == (delivered \cup {n}) \ base
<1>1. /\ setup \in Setups /\ CollectionOk /\ delivered \subseteq PostedNumbers(setup)
  BY DEF PostingInv
<1>2. /\ Total \in Nat /\ Total >= 1 /\ n \in 0 .. Total /\ n \in Nat
      /\ delivered \subseteq 0 .. Total
  BY <1>1, PostedFacts, PartsFacts
<1>3. n = 0 => setup.toc \in {"total", "noTotal"}
  BY <1>1, PostedFacts, SetupsAssumption
<1>4. 0 \in delivered => setup.toc # "none"
  BY <1>1, PostedFacts
<1>5. Counted = delivered \ base
  BY DEF Counted
<1>6. Parts!NoTotal = 0
  BY DEF Parts!NoTotal
<1>7. CASE n \in DOMAIN Coll.parts /\ Counted # {}
  <2>1. Coll.total = Total
    BY <1>1, <1>7 DEF CollectionOk
  <2>2. sized = Coll
    BY <1>2, <1>6, <2>1 DEF Sized
  <2>3. new = Coll
    <3>. HIDE DEF sized
    <3>. QED
      BY <1>7, <2>2 DEF Parts!Add
  <2>4. n \in delivered /\ delivered \cup {n} = delivered
    BY <1>1, <1>7 DEF CollectionOk
  <2>5. counted = Counted
    BY <1>5, <2>4
  <2>. HIDE DEF new, counted
  <2>6. counted # {}
    BY <1>7, <2>5
  <2>7. /\ Coll = [parts |-> Coll.parts, total |-> Coll.total]
        /\ Coll.parts = [m \in DOMAIN Coll.parts |-> Coll.parts[m]]
        /\ Counted \subseteq DOMAIN Coll.parts /\ DOMAIN Coll.parts \subseteq delivered
    BY <1>1 DEF CollectionOk
  <2>8. DOMAIN Coll.parts \ {0} = (DOMAIN Coll.parts \cup {n}) \ {0}
    BY <1>7
  <2>. QED
    BY <1>7, <2>1, <2>3, <2>4, <2>5, <2>6, <2>7, <2>8 DEF new, counted
<1>8. ASSUME NEW c, sized = c, n \notin DOMAIN c.parts
      PROVE  /\ new = [parts |-> new.parts, total |-> new.total]
             /\ new.parts = [m \in DOMAIN new.parts |-> new.parts[m]]
             /\ new.total = Parts!Larger(c.total, n)
             /\ DOMAIN new.parts = DOMAIN c.parts \cup {n}
             /\ \A m \in DOMAIN c.parts : new.parts[m] = c.parts[m]
             /\ new.parts[n] = body
  <2>. HIDE DEF sized
  <2>1. new = [parts |-> Parts!Put(c.parts, n, body), total |-> Parts!Larger(c.total, n)]
    BY <1>8 DEF Parts!Add
  <2>2. new.parts = Parts!Put(c.parts, n, body) /\ new.total = Parts!Larger(c.total, n)
        /\ new = [parts |-> new.parts, total |-> new.total]
    <3>. HIDE DEF new
    <3>. QED
      BY <2>1
  <2>. HIDE DEF new
  <2>. QED
    BY <1>8, <2>2 DEF Parts!Put
<1>9. CASE n \notin DOMAIN Coll.parts /\ Counted # {}
  <2>1. Coll.total = Total
    BY <1>1, <1>9 DEF CollectionOk
  <2>2. sized = Coll
    BY <1>2, <1>6, <2>1 DEF Sized
  <2>3. /\ new = [parts |-> new.parts, total |-> new.total]
        /\ new.parts = [m \in DOMAIN new.parts |-> new.parts[m]]
        /\ new.total = Parts!Larger(Coll.total, n)
        /\ DOMAIN new.parts = DOMAIN Coll.parts \cup {n}
        /\ \A m \in DOMAIN Coll.parts : new.parts[m] = Coll.parts[m]
        /\ new.parts[n] = body
    <3>. HIDE DEF sized, new
    <3>. QED
      BY <1>8, <1>9, <2>2
  <2>. HIDE DEF new
  <2>4. new.total = Total
    BY <1>2, <2>1, <2>3 DEF Parts!Larger
  <2>5. Counted \subseteq DOMAIN Coll.parts /\ DOMAIN Coll.parts \subseteq delivered
    BY <1>1 DEF CollectionOk
  <2>6. counted # {} /\ counted \subseteq Counted \cup {n}
    BY <1>5, <1>9
  <2>. HIDE DEF counted
  <2>. QED
    BY <2>3, <2>4, <2>5, <2>6 DEF new, counted
<1>10. CASE Counted = {}
  <2>. DEFINE c == [parts |-> <<>>, total |-> Named(setup, n)]
  <2>1. Coll.total = 0 /\ DOMAIN Coll.parts \subseteq delivered /\ delivered \subseteq {0}
    BY <1>1, <1>5, <1>6, <1>10 DEF CollectionOk
  <2>2. sized = c
    BY <1>6, <2>1 DEF Sized, Parts!WithTotal
  <2>3. DOMAIN c.parts = {} /\ n \notin DOMAIN c.parts /\ c.total = Named(setup, n)
    OBVIOUS
  <2>4. /\ new = [parts |-> new.parts, total |-> new.total]
        /\ new.parts = [m \in DOMAIN new.parts |-> new.parts[m]]
        /\ new.total = Parts!Larger(c.total, n)
        /\ DOMAIN new.parts = DOMAIN c.parts \cup {n}
        /\ new.parts[n] = body
    <3>. HIDE DEF sized, new, c
    <3>. QED
      BY <1>8, <2>2, <2>3
  <2>. HIDE DEF new, c
  <2>5. DOMAIN new.parts = {n}
    BY <2>3, <2>4
  <2>6. counted = IF n = 0 /\ setup.toc = "noTotal" THEN {} ELSE {n}
    BY <1>2, <1>3, <1>5, <1>10
  <2>7. new.total = IF counted = {} THEN 0 ELSE Total
    BY <1>2, <2>3, <2>4, <2>6 DEF Parts!Larger, Named
  <2>8. counted \subseteq {n} /\ (counted = {} => delivered \cup {n} \subseteq {n})
    BY <2>1, <2>6
  <2>9. {n} \ {0} = (DOMAIN Coll.parts \cup {n}) \ {0}
    BY <2>1
  <2>10. \A m \in DOMAIN Coll.parts \ {0} : new.parts[m] = Coll.parts[m]
    BY <2>1
  <2>11. \A m \in DOMAIN new.parts : m = n /\ new.parts[m] = body
    BY <2>4, <2>5
  <2>. HIDE DEF counted
  <2>. QED
    BY <1>6, <2>4, <2>5, <2>7, <2>8, <2>9, <2>10, <2>11 DEF new, counted
<1>. QED
  BY <1>7, <1>9, <1>10

\* The parts that hold data.
Known0 == DOMAIN Coll.parts \ {0}

\* A part counted keeps what holds of the collection.
LEMMA CountedKeepsInv ==
  ASSUME PostingInv, NEW n \in PostedNumbers(setup), NEW body \in Sent(n),
         UNCHANGED <<setup, spool, Handed>>,
         delivered' = delivered \cup {n},
         Coll' = Parts!Add(Sized(Coll, Named(setup, n)), n, body)
  PROVE  /\ PostingInv'
         /\ Known0' = (DOMAIN Coll.parts \cup {n}) \ {0}
         /\ \A m \in Known0 : Coll'.parts[m] = Coll.parts[m]
<1>. DEFINE new == Parts!Add(Sized(Coll, Named(setup, n)), n, body)
            counted == (delivered \cup {n}) \ (IF setup.toc = "total" THEN {} ELSE {0})
<1>1. /\ new = [parts |-> new.parts, total |-> new.total]
      /\ new.parts = [m \in DOMAIN new.parts |-> new.parts[m]]
      /\ new.total = IF counted = {} THEN Parts!NoTotal ELSE Total
      /\ counted \subseteq DOMAIN new.parts
      /\ DOMAIN new.parts \subseteq delivered \cup {n}
      /\ counted = {} => delivered \cup {n} \subseteq DOMAIN new.parts
      /\ DOMAIN new.parts \ {0} = (DOMAIN Coll.parts \cup {n}) \ {0}
      /\ \A m \in DOMAIN Coll.parts \ {0} : new.parts[m] = Coll.parts[m]
      /\ \A m \in DOMAIN new.parts :
           \/ m \in DOMAIN Coll.parts /\ new.parts[m] = Coll.parts[m]
           \/ m = n /\ new.parts[m] = body
  BY PartCounted
<1>2. Coll' = new /\ setup' = setup /\ delivered' = delivered \cup {n} /\ Counted' = counted
  BY DEF Counted
<1>. HIDE DEF new, counted
<1>3. setup \in Setups /\ delivered \subseteq PostedNumbers(setup) /\ SpoolOk /\ CollectionOk
  BY DEF PostingInv
<1>4. SpoolOk'
  BY <1>3 DEF SpoolOk, Sent
<1>5. \A m \in DOMAIN new.parts : new.parts[m] \in Sent(m)
  <2>. SUFFICES ASSUME NEW m \in DOMAIN new.parts
                PROVE  new.parts[m] \in Sent(m)
    OBVIOUS
  <2>1. CASE m \in DOMAIN Coll.parts /\ new.parts[m] = Coll.parts[m]
    BY <1>3, <2>1 DEF CollectionOk
  <2>2. CASE m = n /\ new.parts[m] = body
    BY <2>2
  <2>. QED
    BY <1>1, <2>1, <2>2
<1>6. CollectionOk'
  BY <1>1, <1>2, <1>5 DEF CollectionOk, Sent
<1>7. Handed' # None => AllWhole'
  <2>. SUFFICES ASSUME Handed # None, NEW m \in Numbers
                PROVE  m \in DOMAIN new.parts /\ ReadsWhole(new.parts[m])
    BY <1>2 DEF AllWhole
  <2>1. m \in DOMAIN Coll.parts /\ ReadsWhole(Coll.parts[m])
    BY DEF PostingInv, AllWhole
  <2>2. m # 0
    BY PartsFacts
  <2>. QED
    BY <1>1, <2>1, <2>2
<1>8. (setup \in Setups /\ delivered \subseteq PostedNumbers(setup))'
  BY <1>2, <1>3
<1>9. /\ Known0' = (DOMAIN Coll.parts \cup {n}) \ {0}
      /\ \A m \in Known0 : Coll'.parts[m] = Coll.parts[m]
  BY <1>1, <1>2 DEF Known0
<1>. QED
  BY <1>4, <1>6, <1>7, <1>8, <1>9 DEF PostingInv

\* The series is put together, or another one.
LEMMA ReassembleTurn ==
  ASSUME PostingInv, NEW key \in DOMAIN collections, ReassembleSeries(key)
  PROVE  /\ UNCHANGED <<setup, spool, delivered, Coll>>
         /\ \/ UNCHANGED Handed
            \/ Handed' = IF Succeeded(Parts!Reassemble(Coll))
                         THEN Parts!Reassemble(Coll).data ELSE None
<1>1. /\ UNCHANGED <<setup, spool, delivered, collections>>
      /\ results' = Parts!Put(results, key, Parts!Reassemble(collections[key]))
  BY DEF ReassembleSeries
<1>2. UNCHANGED Coll
  BY <1>1 DEF Coll, CollectionOf, Key
<1>3. /\ key \in DOMAIN results' /\ results'[key] = Parts!Reassemble(collections[key])
      /\ DOMAIN results' = DOMAIN results \cup {key}
      /\ \A k \in DOMAIN results : k # key => results'[k] = results[k]
  BY <1>1 DEF Parts!Put
<1>4. CASE key = Key
  <2>1. collections[key] = Coll
    BY <1>4 DEF Coll, CollectionOf
  <2>2. setup.key \in DOMAIN results' /\ results'[setup.key] = Parts!Reassemble(Coll) /\ setup' = setup
    BY <1>1, <1>3, <1>4, <2>1 DEF Key
  <2>. QED
    BY <1>1, <1>2, <2>2 DEF Handed, Succeeded
<1>5. CASE key # Key
  <2>1. /\ setup.key \in DOMAIN results' <=> setup.key \in DOMAIN results
        /\ setup.key \in DOMAIN results => results'[setup.key] = results[setup.key]
        /\ setup' = setup
    BY <1>1, <1>3, <1>5 DEF Key
  <2>2. UNCHANGED Handed
    BY <2>1 DEF Handed
  <2>. QED
    BY <1>1, <1>2, <2>2
<1>. QED
  BY <1>4, <1>5

\* What the abstract client knows.
LEMMA KnownIs ==
  /\ DOMAIN Known = Known0
  /\ \A m \in Known0 : Known[m] = Coll.parts[m]
  /\ Known = [m \in Known0 |-> Coll.parts[m]]
  BY DEF Known, Known0, Coll, Key, Restrict

LEMMA KnownIsNext ==
  /\ DOMAIN Known' = Known0'
  /\ \A m \in Known0' : Known'[m] = Coll'.parts[m]
  /\ Known' = [m \in Known0' |-> Coll'.parts[m]]
  BY DEF Known, Known0, Coll, Key, Restrict

LEMMA PostingStep ==
  ASSUME PostingInv, [Next]_vars
  PROVE  PostingInv' /\ [Series!Next]_<<Known, Handed>>
<1>1. /\ setup \in Setups /\ delivered \subseteq PostedNumbers(setup) /\ SpoolOk
      /\ CollectionOk /\ (Handed # None => AllWhole)
  BY DEF PostingInv
<1>2. ASSUME UNCHANGED <<setup, delivered, Coll, Handed>>, SpoolOk'
      PROVE  PostingInv' /\ UNCHANGED <<Known, Handed>>
  <2>1. Counted' = Counted
    BY <1>2 DEF Counted
  <2>2. CollectionOk'
    BY <1>1, <1>2, <2>1 DEF CollectionOk, Sent
  <2>3. Handed' # None => AllWhole'
    BY <1>1, <1>2 DEF AllWhole
  <2>4. Known' = Known
    BY <1>2, KnownIs, KnownIsNext DEF Known0
  <2>. QED
    BY <1>1, <1>2, <2>2, <2>3, <2>4 DEF PostingInv
<1>3. CASE Damage
  <2>1. UNCHANGED <<setup, delivered, collections, results>>
    BY <1>3 DEF Damage, clientVars
  <2>2. UNCHANGED <<Coll, Handed>>
    BY <2>1 DEF Coll, CollectionOf, Key, Handed
  <2>3. SpoolOk'
    <3>0. PICK n \in Numbers : \E length \in 0 .. Len(PartBody(n, setup.style)) - 1 :
            spool' = spool \cup {[Posted(n, setup) EXCEPT !.body = SubSeq(@, 1, length)]}
      BY <1>3 DEF Damage
    <3>1. PICK length \in 0 .. Len(PartBody(n, setup.style)) - 1 :
            spool' = spool \cup {[Posted(n, setup) EXCEPT !.body = SubSeq(@, 1, length)]}
      BY <3>0
    <3>. DEFINE copy == [Posted(n, setup) EXCEPT !.body = SubSeq(@, 1, length)]
    <3>2. /\ copy.number = n /\ copy.subject = Posted(n, setup).subject
          /\ copy.body = SubSeq(PartBody(n, setup.style), 1, length)
      <4>1. Posted(n, setup).body = PartBody(n, setup.style) /\ Posted(n, setup).number = n
        BY <1>1, PostedFacts
      <4>. QED
        BY <4>1 DEF Posted
    <3>3. copy.body \in Copies(n, setup.style)
      <4>1. Len(PartBody(n, setup.style)) \in Nat
        BY LinesOfPart
      <4>. HIDE DEF copy
      <4>. QED
        BY <3>2, <4>1 DEF Copies
    <3>4. n \in PostedNumbers(setup) /\ copy.body \in Sent(n)
      BY <1>1, <3>3, PostedFacts, PartsFacts DEF Sent
    <3>. HIDE DEF copy
    <3>5. \A article \in spool' : article \in spool \/ article = copy
      BY <3>1 DEF copy
    <3>. QED
      BY <1>1, <2>1, <3>2, <3>4, <3>5 DEF SpoolOk, Sent
  <2>. QED
    BY <1>2, <2>1, <2>2, <2>3
<1>4. CASE \E article \in spool : Receive(article)
  <2>1. PICK article \in spool : Receive(article)
    BY <1>4
  <2>2. UNCHANGED <<setup, spool, Handed>>
    BY <2>1, ReceiveTurn
  <2>3. CASE UNCHANGED <<Coll, delivered>>
    <3>1. SpoolOk'
      BY <1>1, <2>2 DEF SpoolOk, Sent
    <3>. QED
      BY <1>2, <2>2, <2>3, <3>1
  <2>4. ASSUME NEW n \in PostedNumbers(setup), NEW body \in Sent(n),
               delivered' = delivered \cup {n},
               Coll' = Parts!Add(Sized(Coll, Named(setup, n)), n, body)
        PROVE  PostingInv' /\ [Series!Next]_<<Known, Handed>>
    <3>1. PostingInv'
      BY <2>2, <2>4, CountedKeepsInv
    <3>2. /\ Known0' = (DOMAIN Coll.parts \cup {n}) \ {0}
          /\ \A m \in Known0 : Coll'.parts[m] = Coll.parts[m]
      BY <2>2, <2>4, CountedKeepsInv
    <3>3. /\ DOMAIN Known' = Known0' /\ (\A m \in Known0' : Known'[m] = Coll'.parts[m])
          /\ Known' = [m \in Known0' |-> Coll'.parts[m]]
      BY KnownIsNext
    <3>4. CASE n \in Known0 \/ n = 0
      <4>1. Known0' = Known0
        BY <3>2, <3>4 DEF Known0
      <4>2. Known' = Known
        BY <3>2, <3>3, <4>1, KnownIs
      <4>. QED
        BY <2>2, <3>1, <4>2
    <3>5. CASE n \notin Known0 /\ n # 0
      <4>1. n \in Numbers \ DOMAIN Known
        BY <1>1, <3>5, PostedFacts, KnownIs
      <4>2. DOMAIN Known' = DOMAIN Known \cup {n}
        BY <3>2, <3>3, <3>5, KnownIs DEF Known0
      <4>3. \A m \in DOMAIN Known : Known'[m] = Known[m]
        BY <3>2, <3>3, <3>5, KnownIs DEF Known0
      <4>4. Series!Learn(n)
        BY <2>2, <4>1, <4>2, <4>3 DEF Series!Learn
      <4>. QED
        BY <3>1, <4>1, <4>4 DEF Series!Next
    <3>. QED
      BY <3>4, <3>5
  <2>. QED
    BY <2>1, <2>3, <2>4, ReceiveTurn
<1>5. CASE \E key \in DOMAIN collections : ReassembleSeries(key)
  <2>1. PICK key \in DOMAIN collections : ReassembleSeries(key)
    BY <1>5
  <2>2. UNCHANGED <<setup, spool, delivered, Coll>>
    BY <2>1, ReassembleTurn
  <2>3. SpoolOk'
    BY <1>1, <2>2 DEF SpoolOk, Sent
  <2>4. CASE UNCHANGED Handed
    BY <1>2, <2>2, <2>3, <2>4
  <2>5. CASE Handed' = IF Succeeded(Parts!Reassemble(Coll))
                       THEN Parts!Reassemble(Coll).data ELSE None
    <3>1. CASE AllWhole
      <4>1. Handed' = File
        BY <1>1, <2>5, <3>1, ReassembleWhole
      <4>2. DOMAIN Known = Numbers
        BY <1>1, <3>1, KnownIs, PostedFacts DEF AllWhole, CollectionOk, Known0
      <4>3. UNCHANGED Known /\ AllWhole'
        BY <2>2, <3>1, KnownIs, KnownIsNext DEF Known0, AllWhole
      <4>4. Series!HandOver
        BY <4>1, <4>2, <4>3 DEF Series!HandOver
      <4>5. CollectionOk'
        <5>1. Counted' = Counted
          BY <2>2 DEF Counted
        <5>. QED
          BY <1>1, <2>2, <5>1 DEF CollectionOk, Sent
      <4>. QED
        BY <1>1, <2>2, <2>3, <4>3, <4>4, <4>5 DEF PostingInv, Series!Next
    <3>2. CASE ~AllWhole
      <4>1. Handed = None /\ Handed' = None
        BY <1>1, <2>5, <3>2, ReassembleWhole
      <4>. QED
        BY <1>2, <2>2, <2>3, <4>1
    <3>. QED
      BY <3>1, <3>2
  <2>. QED
    BY <2>1, <2>4, <2>5, ReassembleTurn
<1>6. CASE ReadContents \/ UNCHANGED vars
  <2>1. UNCHANGED <<setup, spool, delivered, collections, results>>
    BY <1>6 DEF ReadContents, vars, clientVars
  <2>2. UNCHANGED <<Coll, Handed>>
    BY <2>1 DEF Coll, CollectionOf, Key, Handed
  <2>3. SpoolOk'
    BY <1>1, <2>1 DEF SpoolOk, Sent
  <2>. QED
    BY <1>2, <2>1, <2>2, <2>3
<1>. QED
  BY <1>3, <1>4, <1>5, <1>6 DEF Next

(***************************************************************************)
(* The invariant holds throughout: what is in the spool, what is in the    *)
(* collection of the series, and that a file handed over stays complete.   *)
(***************************************************************************)
THEOREM PostingInvariant == Spec => []PostingInv
<1>1. PostingInv /\ [Next]_vars => PostingInv'
  BY PostingStep
<1>. QED
  BY <1>1, PostingInit, PTL DEF Spec

(***************************************************************************)
(* missing_parts and is_complete tell exactly what has not come once a     *)
(* total is known, and nothing but a (0/0) table of contents that came     *)
(* before the total may be gone (lib.rs:85-90, collection.rs:171-283,      *)
(* subject.rs:194-276), for every title, marker form, number of parts and  *)
(* kind of table of contents.                                              *)
(***************************************************************************)
THEOREM GapsReported == Spec => []GapsAreUndelivered
<1>1. PostingInv => GapsAreUndelivered
  <2>. SUFFICES ASSUME PostingInv
                PROVE  \/ /\ Counted = {}
                          /\ DOMAIN Coll.parts = delivered
                          /\ Coll.total = Parts!NoTotal /\ ~Parts!IsComplete(Coll)
                       \/ /\ Counted # {}
                          /\ Parts!MissingParts(Coll) = Numbers \ delivered
                          /\ Parts!IsComplete(Coll) <=> Numbers \subseteq delivered
                          /\ Counted \subseteq DOMAIN Coll.parts
                          /\ DOMAIN Coll.parts \subseteq delivered
    BY DEF GapsAreUndelivered, Counted, Coll, Key
  <2>1. CollectionOk
    BY DEF PostingInv
  <2>2. Numbers = 1 .. Total /\ Total # 0
    BY PartsFacts
  <2>3. CASE Counted = {}
    BY <2>1, <2>3 DEF CollectionOk, Parts!IsComplete
  <2>4. CASE Counted # {}
    <3>1. Coll.total = Total
      BY <2>1, <2>4 DEF CollectionOk
    <3>2. Parts!MissingParts(Coll) = Numbers \ delivered
      BY <2>1, <2>2, <3>1 DEF Parts!MissingParts, CollectionOk, Counted
    <3>3. Parts!IsComplete(Coll) <=> Numbers \subseteq delivered
      BY <2>2, <3>1, <3>2 DEF Parts!IsComplete, Parts!NoTotal
    <3>. QED
      BY <2>1, <2>4, <3>2, <3>3 DEF CollectionOk
  <2>. QED
    BY <2>3, <2>4
<1>. QED
  BY <1>1, PostingInvariant, PTL

-----------------------------------------------------------------------------
(* The table of contents.                                                  *)

\* The first match of a kind is the one that counts.
LEMMA FirstIs ==
  ASSUME NEW words, words \in Seq(Range(words)), NEW i \in DOMAIN words, NEW kind,
         IsFirst(words, i, kind)
  PROVE  Has(words, kind) /\ FirstOf(words, kind) = words[i]
<1>. DEFINE I == {j \in 1 .. Len(words) : words[j].is = kind}
<1>1. Len(words) \in Nat /\ DOMAIN words = 1 .. Len(words)
  BY LenProperties
<1>2. /\ i \in I /\ I \in SUBSET Nat
      /\ \A j \in I : i <= j
  BY <1>1 DEF IsFirst
<1>3. SelectInSeq(words, LAMBDA token : token.is = kind) = IF I # {} THEN Min(I) ELSE 0
  BY DEF SelectInSeq
<1>. HIDE DEF I
<1>4. Min(I) = i
  BY <1>2, MinUnique
<1>5. SelectInSeq(words, LAMBDA token : token.is = kind) = i
  BY <1>2, <1>3, <1>4
<1>6. Has(words, kind)
  BY DEF Has, IsFirst
<1>. QED
  BY <1>5, <1>6 DEF FirstOf

\* What is told behind a name is read.
LEMMA SizeIsRead ==
  ASSUME NEW words, words \in Seq(Range(words)), NEW size, TellSize(words, size)
  PROVE  ExtractSize(words) = size
<1>1. CASE size = None /\ \A i \in DOMAIN words : words[i].is # "size"
  BY <1>1 DEF ExtractSize, Has
<1>2. ASSUME NEW i \in DOMAIN words, IsFirst(words, i, "size"),
             words[i].count \in Nat, words[i].unit \in DOMAIN Units,
             size = IF words[i].count * Units[words[i].unit] <= MaxSize
                    THEN words[i].count * Units[words[i].unit] ELSE None
      PROVE  ExtractSize(words) = size
  <2>. DEFINE count == words[i].count
              unit == words[i].unit
  <2>1. Has(words, "size") /\ FirstOf(words, "size") = words[i]
    BY <1>2, FirstIs
  <2>2. ExtractSize(words) = ParseSize(count, unit)
    BY <2>1, Zenon DEF ExtractSize
  <2>. HIDE DEF count, unit
  <2>3. Factor(unit) = Units[unit] /\ Units[unit] \in Nat
    <3>1. unit \in {"b", "kb", "mb"}
      BY <1>2 DEF Units, unit
    <3>2. Units["b"] = 1 /\ Units["kb"] = 1024 /\ Units["mb"] = 1024 * 1024
      BY DEF Units
    <3>3. Factor("b") = 1 /\ Factor("kb") = 1024 /\ Factor("mb") = 1024 * 1024
      BY DEF Factor
    <3>. QED
      BY <3>1, <3>2, <3>3
  <2>4. PICK p : p = count * Units[unit]
    OBVIOUS
  <2>5. p \in Nat
    BY <1>2, <2>3, <2>4 DEF count
  <2>6. ParseSize(count, unit) = IF p > MaxSize THEN None ELSE p
    BY <2>3, <2>4, Zenon DEF ParseSize
  <2>7. size = IF p <= MaxSize THEN p ELSE None
    BY <1>2, <2>4, Zenon DEF count, unit
  <2>. QED
    BY <2>2, <2>5, <2>6, <2>7, MaxSizeAssumption
<1>. QED
  BY <1>1, <1>2, Zenon DEF TellSize

LEMMA PartsAreRead ==
  ASSUME NEW words, words \in Seq(Range(words)), NEW parts, TellParts(words, parts)
  PROVE  ExtractParts(words) = parts
<1>1. CASE parts = None /\ \A i \in DOMAIN words : words[i].is # "parts"
  BY <1>1 DEF ExtractParts, Has
<1>2. ASSUME NEW i \in DOMAIN words, IsFirst(words, i, "parts"),
             parts = IF words[i].lo <= words[i].hi
                     THEN <<words[i].lo, words[i].hi>> ELSE None
      PROVE  ExtractParts(words) = parts
  <2>1. Has(words, "parts") /\ FirstOf(words, "parts") = words[i]
    BY <1>2, FirstIs
  <2>. QED
    BY <1>2, <2>1, Zenon DEF ExtractParts, RangeOrNone
<1>. QED
  BY <1>1, <1>2, Zenon DEF TellParts

\* The words behind some of a line.
LEMMA WordsBehind ==
  ASSUME NEW line, line \in Seq(Range(line)), NEW n \in 1 .. 2, Len(line) >= 2
  PROVE  /\ Len(line) \in Nat
         /\ After(line, n) = SubSeq(line, n + 1, Len(line))
         /\ SubSeq(line, n + 1, Len(line)) \in Seq(Range(SubSeq(line, n + 1, Len(line))))
         /\ Len(SubSeq(line, n + 1, Len(line))) = Len(line) - n
         /\ \A i \in 1 .. Len(line) - n : SubSeq(line, n + 1, Len(line))[i] = line[n + i]
<1>. DEFINE rest == SubSeq(line, n + 1, Len(line))
<1>1. Len(line) \in Nat
  BY LenProperties
<1>2. /\ rest \in Seq(Range(line)) /\ Len(rest) = Len(line) - n
      /\ \A i \in 1 .. Len(line) - n : rest[i] = line[n + i]
  BY <1>1
<1>. HIDE DEF rest
<1>3. rest \in Seq(Range(rest))
  BY <1>2 DEF Range
<1>. QED
  BY <1>1, <1>2, <1>3, Zenon DEF After, rest

\* An entry is read as it was meant, in whatever format its line is written.
LEMMA EntryIsRead ==
  ASSUME NEW line, line \in Seq(Range(line)), NEW entry, IsWrittenFor(line, entry)
  PROVE  ParseLine(line) = entry
<1>1. /\ entry = [filename |-> entry.filename, size |-> entry.size, parts |-> entry.parts]
      /\ Len(line) >= 2 /\ Len(line) \in Nat
  <2>1. entry = TocEntry([text |-> entry.filename], entry.size, entry.parts) /\ Len(line) >= 2
    BY DEF IsWrittenFor
  <2>. QED
    BY <2>1, LenProperties DEF TocEntry
<1>2. line # <<>> /\ Len(line) # 1
  <2>1. Len(<<>>) = 0
    OBVIOUS
  <2>2. PICK n : n = Len(line)
    OBVIOUS
  <2>3. n \in Nat /\ n >= 2
    BY <1>1, <2>2, Zenon
  <2>4. n # 0 /\ n # 1
    BY <2>3
  <2>. QED
    BY <2>1, <2>2, <2>4, Zenon
<1>3. ASSUME NEW token, token.text = entry.filename
      PROVE  TocEntry(token, entry.size, entry.parts) = entry
  BY <1>1, <1>3, Zenon DEF TocEntry
<1>4. /\ SubSeq(line, 2, Len(line)) = After(line, 1)
      /\ SubSeq(line, 3, Len(line)) = After(line, 2)
      /\ After(line, 1) \in Seq(Range(After(line, 1)))
      /\ After(line, 2) \in Seq(Range(After(line, 2)))
      /\ Len(After(line, 1)) = Len(line) - 1
      /\ \A i \in 1 .. Len(line) - 1 : After(line, 1)[i] = line[i + 1]
  <2>1. 1 \in 1 .. 2 /\ 2 \in 1 .. 2 /\ 1 + 1 = 2 /\ 2 + 1 = 3
    OBVIOUS
  <2>2. /\ After(line, 1) = SubSeq(line, 2, Len(line))
        /\ After(line, 1) \in Seq(Range(After(line, 1)))
        /\ Len(After(line, 1)) = Len(line) - 1
        /\ \A i \in 1 .. Len(line) - 1 : After(line, 1)[i] = line[1 + i]
    BY <1>1, <2>1, WordsBehind
  <2>3. /\ After(line, 2) = SubSeq(line, 3, Len(line))
        /\ After(line, 2) \in Seq(Range(After(line, 2)))
    BY <1>1, <2>1, WordsBehind
  <2>4. \A i \in 1 .. Len(line) - 1 : 1 + i = i + 1
    BY <1>1
  <2>. QED
    BY <2>2, <2>3, <2>4
<1>5. CASE /\ IsFileName(line[2]) /\ line[2].text = entry.filename
           /\ line[1].is = "range" /\ line[1].lo <= line[1].hi
           /\ entry.parts = <<line[1].lo, line[1].hi>> /\ entry.parts # None
           /\ TellSize(SubSeq(line, 3, Len(line)), entry.size)
  <2>1. ExtractSize(After(line, 2)) = entry.size
    BY <1>4, <1>5, SizeIsRead
  <2>2. RangeOrNone(line[1]) = entry.parts
    BY <1>5 DEF RangeOrNone
  <2>3. LooksLikeFilename(line[2])
    BY <1>5 DEF LooksLikeFilename, IsFileName
  <2>4. Format3(line) = TocEntry(line[2], entry.size, entry.parts)
    BY <1>5, <2>1, <2>2, <2>3, Zenon DEF Format3
  <2>5. "range" # "hash"
    OBVIOUS
  <2>6. ParseLine(line) = Format3(line)
    BY <1>2, <1>5, <2>5, Zenon DEF ParseLine
  <2>. QED
    BY <1>3, <1>5, <2>4, <2>6
<1>6. CASE /\ IsFileName(line[1]) /\ line[1].text = entry.filename
           /\ TellSize(SubSeq(line, 2, Len(line)), entry.size)
           /\ TellParts(SubSeq(line, 2, Len(line)), entry.parts)
           /\ entry.size # None \/ entry.parts # None
  <2>1. ExtractSize(After(line, 1)) = entry.size /\ ExtractParts(After(line, 1)) = entry.parts
    BY <1>4, <1>6, SizeIsRead, PartsAreRead
  <2>2. LooksLikeFilename(line[1]) /\ line[1].is # "range" /\ line[1].is # "hash"
    BY <1>6 DEF LooksLikeFilename, IsFileName
  <2>3. Format1(line) = TocEntry(line[1], entry.size, entry.parts)
    BY <1>6, <2>1, <2>2, Zenon DEF Format1
  <2>4. CASE ~(Len(line) = 2 /\ line[2].is = "size" /\ line[2].inParens)
    <3>1. ParseLine(line) = Format1(line)
      BY <1>2, <2>2, <2>4, Zenon DEF ParseLine
    <3>. QED
      BY <1>3, <1>6, <2>3, <3>1
  <2>5. CASE Len(line) = 2 /\ line[2].is = "size" /\ line[2].inParens
    <3>. DEFINE words == After(line, 1)
    <3>1. words[1] = line[2] /\ DOMAIN words = {1}
      BY <1>4, <2>5
    <3>. HIDE DEF words
    <3>2. entry.parts = None
      <4>1. \A i \in DOMAIN words : words[i].is # "parts"
        BY <2>5, <3>1
      <4>2. ~Has(words, "parts")
        BY <4>1 DEF Has
      <4>. QED
        BY <2>1, <4>2 DEF ExtractParts, words
    <3>3. entry.size # None /\ TellSize(words, entry.size)
      BY <1>4, <1>6, <3>2 DEF words
    <3>4. /\ line[2].count \in Nat /\ line[2].unit \in DOMAIN Units
          /\ line[2].count * Units[line[2].unit] <= MaxSize
      BY <2>5, <3>1, <3>3 DEF TellSize
    <3>5. line[2].count <= MaxSize
      <4>1. PICK c, u : c = line[2].count /\ u = line[2].unit
        OBVIOUS
      <4>2. c \in Nat /\ u \in {"b", "kb", "mb"} /\ c * Units[u] <= MaxSize
        BY <3>4, <4>1 DEF Units
      <4>3. Units["b"] = 1 /\ Units["kb"] = 1024 /\ Units["mb"] = 1024 * 1024
        BY DEF Units
      <4>4. c <= MaxSize
        BY <4>2, <4>3, MaxSizeAssumption
      <4>. QED
        BY <4>1, <4>4
    <3>6. FirstOf(words, "size") = line[2] /\ Has(words, "size")
      <4>1. 1 \in DOMAIN words /\ IsFirst(words, 1, "size")
        BY <2>5, <3>1 DEF IsFirst
      <4>2. words \in Seq(Range(words))
        BY <1>4 DEF words
      <4>. QED
        BY <3>1, <4>1, <4>2, FirstIs
    <3>7. ParseSize(line[2].count, line[2].unit) = entry.size
      BY <2>1, <3>6, Zenon DEF ExtractSize, words
    <3>8. Format2(line) = TocEntry(line[1], entry.size, entry.parts)
      BY <2>2, <3>2, <3>5, <3>7, Zenon DEF Format2
    <3>9. ParseLine(line) = Format2(line)
      BY <1>2, <2>2, <2>5, Zenon DEF ParseLine
    <3>. QED
      BY <1>3, <1>6, <3>8, <3>9
  <2>. QED
    BY <2>4, <2>5
<1>. QED
  BY <1>5, <1>6, Zenon DEF IsWrittenFor

\* Prose is no entry.
LEMMA ProseIsSkipped ==
  ASSUME NEW line, line \in Seq(Range(line)), IsProse(line)
  PROVE  ParseLine(line) = None
<1>1. Len(line) \in Nat
  BY LenProperties
<1>2. CASE Len(line) <= 1
  <2>1. Len(line) = 0 => line = <<>>
    BY EmptySeq
  <2>2. Len(line) = 0 \/ Len(line) = 1
    <3>1. PICK n : n = Len(line)
      OBVIOUS
    <3>2. n \in Nat /\ n <= 1
      BY <1>1, <1>2, <3>1, Zenon
    <3>3. n = 0 \/ n = 1
      BY <3>2
    <3>. QED
      BY <3>1, <3>3, Zenon
  <2>3. line = <<>> \/ Len(line) = 1
    BY <2>1, <2>2, Zenon
  <2>. QED
    BY <2>3, Zenon DEF ParseLine
<1>3. CASE line[1].is = "hash"
  BY <1>3, Zenon DEF ParseLine
<1>4. CASE line[1].is = "range" /\ ~IsFileName(line[2]) /\ Len(line) > 1
  <2>1. ~LooksLikeFilename(line[2])
    BY <1>4 DEF LooksLikeFilename, IsFileName
  <2>2. Format3(line) = None
    BY <2>1, Zenon DEF Format3
  <2>. QED
    BY <1>4, <2>2, Zenon DEF ParseLine
<1>5. CASE line[1].is # "range" /\ ~IsFileName(line[1])
  <2>1. ~LooksLikeFilename(line[1])
    BY <1>5 DEF LooksLikeFilename, IsFileName
  <2>2. Format1(line) = None /\ Format2(line) = None
    BY <2>1, Zenon DEF Format1, Format2
  <2>. QED
    BY <1>5, <2>2, Zenon DEF ParseLine
<1>6. CASE /\ IsFileName(line[1]) /\ TellParts(SubSeq(line, 2, Len(line)), None)
           /\ \A i \in 2 .. Len(line) : line[i].is # "size"
           /\ Len(line) > 1
  <2>. DEFINE words == After(line, 1)
  <2>1. /\ words = SubSeq(line, 2, Len(line)) /\ words \in Seq(Range(words))
        /\ Len(words) = Len(line) - 1
        /\ \A i \in 1 .. Len(line) - 1 : words[i] = line[i + 1]
    <3>1. 1 \in 1 .. 2 /\ 1 + 1 = 2 /\ Len(line) >= 2
      BY <1>1, <1>6
    <3>2. /\ After(line, 1) = SubSeq(line, 2, Len(line))
          /\ After(line, 1) \in Seq(Range(After(line, 1)))
          /\ Len(After(line, 1)) = Len(line) - 1
          /\ \A i \in 1 .. Len(line) - 1 : After(line, 1)[i] = line[1 + i]
      BY <1>1, <3>1, WordsBehind
    <3>3. \A i \in 1 .. Len(line) - 1 : 1 + i = i + 1
      BY <1>1
    <3>. QED
      BY <3>2, <3>3
  <2>. HIDE DEF words
  <2>2. ~Has(words, "size")
    BY <1>1, <1>6, <2>1 DEF Has
  <2>3. ExtractSize(words) = None
    BY <2>2, Zenon DEF ExtractSize
  <2>4. ExtractParts(words) = None
    BY <1>6, <2>1, PartsAreRead
  <2>5. Format1(line) = None
    BY <2>3, <2>4, Zenon DEF Format1, words
  <2>6. line[1].is # "range" /\ line[1].is # "hash"
    BY <1>6 DEF IsFileName
  <2>7. ~(Len(line) = 2 /\ line[2].is = "size" /\ line[2].inParens)
    BY <1>6
  <2>. QED
    BY <2>5, <2>6, <2>7, Zenon DEF ParseLine
<1>. QED
  BY <1>1, <1>2, <1>3, <1>4, <1>5, <1>6 DEF IsProse

\* The whole table is read as it was meant.
LEMMA TableIsRead == ParseToc(Contents) = Listed
<1>1. ASSUME NEW i \in DOMAIN Table  PROVE ParseLine(Contents[i]) = Table[i].entry
  <2>1. Contents[i] = Table[i].line
    BY DEF Contents
  <2>2. Table[i].line \in Seq(Range(Table[i].line))
    BY TableAssumption, Zenon
  <2>3. CASE Table[i].entry = None
    <3>1. IsProse(Table[i].line)
      BY <2>3, TableAssumption, Zenon
    <3>. QED
      BY <2>1, <2>2, <2>3, <3>1, ProseIsSkipped
  <2>4. CASE Table[i].entry # None
    <3>1. IsWrittenFor(Table[i].line, Table[i].entry)
      BY <2>4, TableAssumption, Zenon
    <3>. QED
      BY <2>1, <2>2, <3>1, EntryIsRead
  <2>. QED
    BY <2>3, <2>4
<1>. DEFINE meant == [i \in DOMAIN Table |->
                        IF Table[i].entry = None THEN <<>> ELSE <<Table[i].entry>>]
            read == [i \in DOMAIN Contents |->
                       IF ParseLine(Contents[i]) = None THEN <<>>
                       ELSE <<ParseLine(Contents[i])>>]
<1>2. DOMAIN Contents = DOMAIN Table
  BY DEF Contents
<1>3. read = meant
  BY <1>1, <1>2
<1>4. Listed = FlattenSeq(meant)
  BY Zenon DEF Listed
<1>5. Listed # <<>>
  BY TableAssumption, Zenon
<1>. HIDE DEF meant, read
<1>6. ParseToc(Contents) = IF FlattenSeq(read) = <<>> THEN None ELSE FlattenSeq(read)
  BY Zenon DEF ParseToc, read
<1>. QED
  BY <1>3, <1>4, <1>5, <1>6, Zenon

\* What was read of the series is what its table says.
TableRead == Key \in DOMAIN contents => contents[Key] = ParseToc(Contents)

LEMMA TableStep ==
  ASSUME PostingInv, TableRead, [Next]_vars
  PROVE  TableRead'
<1>1. CASE ReadContents
  <2>1. PICK key \in DOMAIN collections :
          /\ 0 \in DOMAIN collections[key].parts
          /\ contents' = Parts!Put(contents, key, ParseToc(collections[key].parts[0]))
    BY <1>1 DEF ReadContents
  <2>2. Key' = Key
    BY <1>1 DEF ReadContents, Key
  <2>3. CASE key = Key
    <3>1. Coll = collections[key]
      BY <2>3 DEF Coll, CollectionOf
    <3>2. Coll.parts[0] = Contents
      BY <2>1, <3>1 DEF PostingInv, CollectionOk, Sent
    <3>3. contents'[key] = ParseToc(collections[key].parts[0])
      BY <2>1 DEF Parts!Put
    <3>. QED
      BY <2>2, <2>3, <3>1, <3>2, <3>3 DEF TableRead
  <2>4. CASE key # Key
    BY <2>1, <2>2, <2>4 DEF TableRead, Parts!Put
  <2>. QED
    BY <2>3, <2>4
<1>2. CASE UNCHANGED <<setup, contents>>
  BY <1>2 DEF TableRead, Key
<1>3. CASE Damage
  BY <1>2, <1>3 DEF Damage, clientVars
<1>4. ASSUME NEW article \in spool, Receive(article)  PROVE TableRead'
  BY <1>2, <1>4 DEF Receive
<1>5. ASSUME NEW key \in DOMAIN collections, ReassembleSeries(key)  PROVE TableRead'
  BY <1>2, <1>5 DEF ReassembleSeries
<1>6. CASE UNCHANGED vars
  BY <1>2, <1>6 DEF vars, clientVars
<1>. QED
  BY <1>1, <1>3, <1>4, <1>5, <1>6 DEF Next

(***************************************************************************)
(* Every entry of a table of contents is read as it was meant, whatever    *)
(* format its line has and whatever prose stands between (toc.rs:126-226). *)
(***************************************************************************)
THEOREM TableUnderstood == Spec => []ContentsUnderstood
<1>1. Init => TableRead
  BY DEF Init, TableRead
<1>2. PostingInv /\ TableRead /\ [Next]_vars => TableRead'
  BY TableStep
<1>3. TableRead => ContentsUnderstood
  BY TableIsRead DEF TableRead, ContentsUnderstood, Key
<1>. QED
  BY <1>1, <1>2, <1>3, PostingInvariant, PTL DEF Spec

(***************************************************************************)
(* The client implements the assembly of a series: no part is lost or      *)
(* replaced, and only the posted file is handed over, once all its parts   *)
(* have come (lib.rs:77-102, reassemble.rs:130-175).  Every step of the    *)
(* client and of the network is one of SeriesAssembly or none.             *)
(***************************************************************************)
THEOREM SeriesAssembled == Spec => ImplementsSeriesAssembly
<1>1. Init => Series!Init
  <2>. SUFFICES ASSUME Init  PROVE Series!Init
    OBVIOUS
  <2>1. collections = <<>> /\ results = <<>>
    BY DEF Init
  <2>2. Coll.parts = <<>>
    BY <2>1 DEF Coll, CollectionOf, Parts!NewCollection
  <2>3. Known = <<>>
    BY <2>2, KnownIs DEF Known0
  <2>4. Handed = None
    BY <2>1 DEF Handed
  <2>. QED
    BY <2>3, <2>4 DEF Series!Init
<1>2. PostingInv /\ [Next]_vars => [Series!Next]_<<Known, Handed>>
  BY PostingStep
<1>. QED
  BY <1>1, <1>2, PostingInvariant, PTL DEF Spec, ImplementsSeriesAssembly, Series!Spec

-----------------------------------------------------------------------------
(***************************************************************************)
(* LineCodecs: the encoders, line by line.                                 *)
(***************************************************************************)
Byte == 0 .. 255

(* uuencoding: the characters of a line.                                   *)

\* What a line of the encoder consists of: no space, no control character.
UuChar == 33 .. 96

LEMMA TripleChars ==
  ASSUME NEW b0 \in Byte, NEW b1 \in Byte, NEW b2 \in Byte
  PROVE  EncodeTriple(b0, b1, b2) \in Seq(UuChar)
<1>1. \A v \in 0 .. 63 : EncodeChar(v) \in UuChar
  BY DEF EncodeChar, UuChar, BACKTICK
<1>2. /\ b0 \div 4 \in 0 .. 63
      /\ (b0 % 4) * 16 + (b1 \div 16) \in 0 .. 63
      /\ (b1 % 16) * 4 + (b2 \div 64) \in 0 .. 63
      /\ b2 % 64 \in 0 .. 63
  BY DEF Byte
<1>. QED
  BY <1>1, <1>2 DEF EncodeTriple

\* A line that decode_line takes for data, and that loses nothing at its end.
UuDataLine(line) ==
  /\ line \in Seq(UuChar)
  /\ line # <<>>
  /\ line[1] \in 33 .. 95

LEMMA ChunkLine ==
  ASSUME NEW chunk \in Seq(Byte), Len(chunk) \in 1 .. 63
  PROVE  UuDataLine(EncodeChunk(chunk))
<1>. DEFINE n == Len(chunk)
            groups == (n + 2) \div 3
            Triple(g) == EncodeTriple(chunk[3 * g - 2], ByteOr0(chunk, 3 * g - 1),
                                      ByteOr0(chunk, 3 * g))
            triples == [g \in 1 .. groups |-> Triple(g)]
<1>1. n \in 1 .. 63 /\ n \in Nat /\ groups \in Nat
  OBVIOUS
<1>2. \A g \in 1 .. groups : Triple(g) \in Seq(UuChar)
  <2>. SUFFICES ASSUME NEW g \in 1 .. groups  PROVE Triple(g) \in Seq(UuChar)
    OBVIOUS
  <2>1. 3 * g - 2 \in 1 .. n /\ 3 * g - 1 \in 1 .. n + 2 /\ 3 * g \in 1 .. n + 2
    BY <1>1
  <2>2. chunk[3 * g - 2] \in Byte
    BY <2>1
  <2>3. ASSUME NEW i \in 1 .. n + 2  PROVE ByteOr0(chunk, i) \in Byte
    <3>1. i <= n => chunk[i] \in Byte
      BY <1>1
    <3>2. 0 \in Byte
      BY DEF Byte
    <3>. QED
      BY <3>1, <3>2 DEF ByteOr0
  <2>4. ByteOr0(chunk, 3 * g - 1) \in Byte /\ ByteOr0(chunk, 3 * g) \in Byte
    BY <2>1, <2>3
  <2>. QED
    BY <2>2, <2>4, TripleChars
<1>. HIDE DEF Triple
<1>3. triples \in Seq(Seq(UuChar))
  BY <1>1, <1>2
<1>. HIDE DEF triples
<1>4. FlattenSeq(triples) \in Seq(UuChar)
  BY <1>3, FlattenTyped
<1>5. <<n + 32>> \in Seq(UuChar) /\ n + 32 \in 33 .. 95
  <2>. HIDE DEF n
  <2>1. n + 32 \in 33 .. 95
    BY <1>1
  <2>2. n + 32 \in UuChar
    BY <2>1 DEF UuChar
  <2>. QED
    BY <2>1, <2>2
<1>6. EncodeChunk(chunk) = <<n + 32>> \o FlattenSeq(triples)
  BY DEF EncodeChunk, triples, Triple
<1>7. /\ <<n + 32>> \o FlattenSeq(triples) \in Seq(UuChar)
      /\ (<<n + 32>> \o FlattenSeq(triples))[1] = n + 32
      /\ Len(<<n + 32>> \o FlattenSeq(triples)) = 1 + Len(FlattenSeq(triples))
      /\ Len(FlattenSeq(triples)) \in Nat
  BY <1>4, <1>5
<1>8. EncodeChunk(chunk) # <<>>
  BY <1>6, <1>7
<1>. QED
  BY <1>5, <1>6, <1>7, <1>8 DEF UuDataLine

LEMMA DataLineDecodes ==
  ASSUME NEW line, UuDataLine(line)
  PROVE  DecodeLine(line).count > 0
<1>1. StripCr(line) = line
  <2>1. Len(line) \in 1 .. Len(line)
    BY DEF UuDataLine
  <2>2. line[Len(line)] \in UuChar
    BY <2>1 DEF UuDataLine
  <2>3. CR \notin UuChar
    BY DEF UuChar, CR
  <2>4. line[Len(line)] # CR
    BY <2>2, <2>3
  <2>. QED
    BY <2>4 DEF StripCr
<1>2. /\ line # <<>> /\ line[1] \notin {SPACE, BACKTICK} /\ line[1] \in 33 .. 95
      /\ line[1] - 32 > 0
  <2>1. line # <<>> /\ line[1] \in 33 .. 95
    BY DEF UuDataLine
  <2>. DEFINE c == line[1]
  <2>. HIDE DEF c
  <2>2. ASSUME c \in 33 .. 95  PROVE c \notin {SPACE, BACKTICK} /\ c - 32 > 0
    BY <2>2 DEF SPACE, BACKTICK
  <2>. QED
    BY <2>1, <2>2 DEF c
<1>3. DecodeLine(line) = DecodePayload(Tail(line), line[1] - 32)
  BY <1>1, <1>2 DEF DecodeLine
<1>4. DecodePayload(Tail(line), line[1] - 32).count = line[1] - 32
  BY DEF DecodePayload
<1>. QED
  BY <1>2, <1>3, <1>4

-----------------------------------------------------------------------------
(* uuencoding: the invariant of the encoder.                               *)

UuInv ==
  /\ data \in Seq(Byte)
  /\ next \in Nat \ {0}
  /\ phase = "encode" => lines \in Seq(Seq(UuChar)) /\ \A i \in DOMAIN lines : UuDataLine(lines[i])
  /\ NothingToStrip

LEMMA UuInitInv ==
  UuInit => UuInv
<1>. SUFFICES ASSUME UuInit  PROVE UuInv
  OBVIOUS
<1>1. data \in Seq(Byte) /\ next = 1 /\ lines = <<>> /\ phase = "encode"
  BY DataAssumption DEF UuInit, Byte
<1>2. lines \in Seq(Seq(UuChar)) /\ DOMAIN lines = {}
  BY <1>1
<1>. QED
  BY <1>1, <1>2 DEF UuInv, NothingToStrip

LEMMA EncodeLineKeepsInv ==
  UuInv /\ EncodeLine => UuInv'
<1>. SUFFICES ASSUME UuInv, EncodeLine  PROVE UuInv'
  OBVIOUS
<1>. DEFINE chunk == SubSeq(data, next, ChunkEnd)
            line == EncodeChunk(chunk)
<1>1. /\ phase = "encode" /\ phase' = "encode" /\ data' = data
      /\ next <= Len(data) /\ next' = ChunkEnd + 1 /\ lines' = Append(lines, line)
      /\ data \in Seq(Byte) /\ next \in Nat \ {0}
      /\ lines \in Seq(Seq(UuChar)) /\ \A i \in DOMAIN lines : UuDataLine(lines[i])
  BY DEF EncodeLine, UuInv
<1>2. ChunkEnd \in next .. Len(data) /\ ChunkEnd - next + 1 \in 1 .. 63
  <2>. DEFINE n == Len(data)
  <2>1. n \in Nat /\ next \in Nat /\ next <= n /\ next >= 1
    BY <1>1
  <2>2. ChunkEnd = IF next + MaxLine - 1 < n THEN next + MaxLine - 1 ELSE n
    BY DEF ChunkEnd
  <2>. HIDE DEF n
  <2>3. MaxLine \in 1 .. 63
    BY MaxLineAssumption
  <2>4. CASE next + MaxLine - 1 < n
    BY <2>1, <2>2, <2>3, <2>4 DEF n
  <2>5. CASE ~(next + MaxLine - 1 < n)
    <3>1. n <= next + MaxLine - 1 /\ n - next + 1 \in 1 .. 63 /\ n \in next .. n
      BY <2>1, <2>3, <2>5
    <3>2. ChunkEnd = n
      BY <2>2, <2>5
    <3>. QED
      BY <3>1, <3>2 DEF n
  <2>. QED
    BY <2>4, <2>5
<1>3. chunk \in Seq(Byte) /\ Len(chunk) = ChunkEnd - next + 1
  BY <1>1, <1>2
<1>. HIDE DEF chunk
<1>4. UuDataLine(line)
  BY <1>2, <1>3, ChunkLine
<1>. HIDE DEF line
<1>5. lines' \in Seq(Seq(UuChar)) /\ \A i \in DOMAIN lines' : UuDataLine(lines'[i])
  <2>1. line \in Seq(UuChar)
    BY <1>4 DEF UuDataLine
  <2>. QED
    BY <1>1, <1>4, <2>1
<1>6. next' \in Nat \ {0}
  BY <1>1, <1>2
<1>. QED
  BY <1>1, <1>5, <1>6 DEF UuInv, NothingToStrip

LEMMA EncodeEndKeepsInv ==
  UuInv /\ EncodeEnd => UuInv'
<1>. SUFFICES ASSUME UuInv, EncodeEnd  PROVE UuInv'
  OBVIOUS
<1>. DEFINE last == <<<<BACKTICK>>, End>>
<1>1. /\ phase = "encode" /\ phase' = "transport" /\ data' = data /\ next' = next
      /\ lines' = lines \o last
      /\ data \in Seq(Byte) /\ next \in Nat \ {0}
      /\ lines \in Seq(Seq(UuChar)) /\ \A i \in DOMAIN lines : UuDataLine(lines[i])
  BY DEF EncodeEnd, UuInv
<1>2. last \in Seq(Seq(Nat)) /\ Len(last) = 2 /\ lines \in Seq(Seq(Nat))
  <2>1. <<BACKTICK>> \in Seq(Nat) /\ End \in Seq(Nat)
    BY DEF BACKTICK, End
  <2>2. Seq(UuChar) \subseteq Seq(Nat)
    <3>. SUFFICES ASSUME NEW s \in Seq(UuChar)  PROVE s \in Seq(Nat)
      OBVIOUS
    <3>1. \A c \in UuChar : c \in Nat
      BY DEF UuChar
    <3>2. Len(s) \in Nat /\ s = [i \in 1 .. Len(s) |-> s[i]] /\ \A i \in 1 .. Len(s) : s[i] \in UuChar
      OBVIOUS
    <3>. QED
      BY <3>1, <3>2
  <2>. QED
    BY <1>1, <2>1, <2>2
<1>3. /\ \A j \in DOMAIN last[1] : last[1][j] # SPACE
      /\ \A j \in DOMAIN last[2] : last[2][j] # SPACE
  BY DEF BACKTICK, End, SPACE
<1>. HIDE DEF last
<1>4. /\ Len(lines') = Len(lines) + 2 /\ DOMAIN lines' = 1 .. Len(lines) + 2
      /\ Len(lines) \in Nat /\ DOMAIN lines = 1 .. Len(lines)
      /\ \A i \in 1 .. Len(lines) : lines'[i] = lines[i]
      /\ lines'[Len(lines) + 1] = last[1]
      /\ lines'[Len(lines) + 2] = last[2]
  <2>1. lines \o last \in Seq(Seq(Nat)) /\ Len(lines \o last) = Len(lines) + 2 /\ Len(lines) \in Nat
    <3>. DEFINE S == Seq(Nat)
    <3>1. lines \in Seq(S) /\ last \in Seq(S)
      BY <1>2
    <3>. HIDE DEF S
    <3>2. lines \o last \in Seq(S) /\ Len(lines \o last) = Len(lines) + Len(last) /\ Len(lines) \in Nat
      BY <3>1
    <3>. QED
      BY <1>2, <3>2 DEF S
  <2>2. \A i \in 1 .. Len(lines) + 2 :
          (lines \o last)[i] = IF i <= Len(lines) THEN lines[i] ELSE last[i - Len(lines)]
    BY <1>2, <2>1, ConcatProperties
  <2>. QED
    BY <1>1, <1>2, <2>1, <2>2
<1>5. ASSUME NEW i \in DOMAIN lines'
      PROVE  /\ \A j \in DOMAIN lines'[i] : lines'[i][j] # SPACE
             /\ i < Len(lines') - 1 => DecodeLine(lines'[i]).count > 0
  <2>1. CASE i \in 1 .. Len(lines)
    <3>1. UuDataLine(lines[i]) /\ lines'[i] = lines[i]
      BY <1>1, <1>4, <2>1
    <3>2. \A j \in DOMAIN lines[i] : lines[i][j] \in UuChar
      BY <3>1 DEF UuDataLine
    <3>3. SPACE \notin UuChar
      BY DEF UuChar, SPACE
    <3>4. \A j \in DOMAIN lines[i] : lines[i][j] # SPACE
      BY <3>2, <3>3
    <3>. QED
      BY <3>1, <3>4, DataLineDecodes
  <2>2. CASE i = Len(lines) + 1
    BY <1>3, <1>4, <2>2
  <2>3. CASE i = Len(lines) + 2
    BY <1>3, <1>4, <2>3
  <2>. QED
    BY <1>4, <2>1, <2>2, <2>3
<1>6. NothingToStrip'
  BY <1>5 DEF NothingToStrip
<1>. QED
  BY <1>1, <1>6 DEF UuInv

LEMMA UuStepKeepsInv ==
  UuInv /\ [UuNext]_uuVars => UuInv'
<1>. SUFFICES ASSUME UuInv, [UuNext]_uuVars  PROVE UuInv'
  OBVIOUS
<1>1. CASE EncodeLine
  BY <1>1, EncodeLineKeepsInv
<1>2. CASE EncodeEnd
  BY <1>2, EncodeEndKeepsInv
<1>3. CASE Transport
  <2>1. phase' = "decode" /\ next' = 1 /\ data' = data
    BY <1>3 DEF Transport, Carry
  <2>. QED
    BY <2>1 DEF UuInv, NothingToStrip
<1>4. CASE DecodeNextLine
  <2>1. phase = "decode" /\ data' = data /\ phase' \in {"decode", "done"}
        /\ (next' = next \/ next' = next + 1)
    BY <1>4 DEF DecodeNextLine
  <2>. QED
    BY <2>1 DEF UuInv, NothingToStrip
<1>5. CASE UNCHANGED uuVars
  <2>1. UNCHANGED <<phase, data, next, lines>>
    BY <1>5 DEF uuVars
  <2>. QED
    BY <2>1 DEF UuInv, NothingToStrip
<1>. QED
  BY <1>1, <1>2, <1>3, <1>4, <1>5 DEF UuNext

-----------------------------------------------------------------------------
(* yEnc: a line, and what encode_body may write to it.                     *)

\* No line break or NUL, and no escape without its second byte.
Closed(line) ==
  /\ line \in Seq(Byte)
  /\ \A j \in DOMAIN line : line[j] \notin Yenc!Framing
  /\ line # <<>> =>
       /\ line[1] \notin {Yenc!DOT, Yenc!TAB}
       /\ line[Len(line)] # Yenc!EQUALS

\* A line as it is written, with its CR LF.
Written(line, longest) ==
  \E payload : /\ Closed(payload)
               /\ Len(payload) \in 1 .. longest
               /\ line = payload \o Yenc!LineEnd

\* What is written for one byte, at the given column.
Symbol(encoded, col) ==
  IF Yenc!MustEscape(encoded, col) THEN Yenc!EscapePair(encoded) ELSE <<encoded>>

LEMMA PayloadOfWritten ==
  ASSUME NEW payload \in Seq(Byte), payload # <<>>
  PROVE  Yenc!Payload(payload \o Yenc!LineEnd) = payload
<1>1. Yenc!LineEnd \in Seq(Byte) /\ Len(Yenc!LineEnd) = 2
  BY DEF Yenc!LineEnd, Yenc!CR, Yenc!LF, Byte
<1>2. ASSUME NEW tail \in Seq(Byte), Len(tail) = 2
      PROVE  SubSeq(payload \o tail, 1, Len(payload \o tail) - 2) = payload
  <2>1. Len(payload) \in Nat /\ Len(payload) # 0
    OBVIOUS
  <2>2. Len(payload \o tail) - 2 = Len(payload)
    <3>1. Len(payload \o tail) = Len(payload) + Len(tail)
      BY ConcatProperties, Zenon
    <3>. QED
      BY <1>2, <2>1, <3>1
  <2>3. 1 \in 1 .. Len(payload) /\ Len(payload) \in 1 .. Len(payload)
    BY <2>1
  <2>4. SubSeq(payload \o tail, 1, Len(payload)) = SubSeq(payload, 1, Len(payload))
    BY <2>3, SubSeqOfConcat1
  <2>. QED
    BY <2>2, <2>4, SubSeqFull
<1>. QED
  BY <1>1, <1>2 DEF Yenc!Payload

\* One or two bytes that may be written at the given column.
Addable(s, escaped, col) ==
  /\ s \in Seq(Byte)
  /\ Len(s) = IF escaped THEN 2 ELSE 1
  /\ \A j \in DOMAIN s : s[j] \notin Yenc!Framing
  /\ escaped \/ col = 0 => s[1] \notin {Yenc!DOT, Yenc!TAB}
  /\ s[Len(s)] # Yenc!EQUALS

LEMMA SymbolIsAddable ==
  ASSUME NEW byte \in Byte, NEW col \in Nat
  PROVE  LET e == Yenc!Encoded(byte)
         IN  Addable(Symbol(e, col), Yenc!MustEscape(e, col), col)
<1>. DEFINE e == Yenc!Encoded(byte)
            s == Symbol(e, col)
<1>1. e \in Byte
  BY DEF Yenc!Encoded, Byte
<1>. HIDE DEF e
<1>2. ASSUME Yenc!MustEscape(e, col)  PROVE Addable(s, Yenc!MustEscape(e, col), col)
  <2>. DEFINE f == (e + 64) % 256
  <2>1. s = <<61, f>>
    BY <1>2 DEF Symbol, Yenc!EscapePair, Yenc!EQUALS
  <2>2. e \in {0, 9, 10, 13, 46, 61}
    BY <1>2 DEF Yenc!MustEscape, Yenc!NUL, Yenc!LF, Yenc!CR, Yenc!EQUALS, Yenc!DOT, Yenc!TAB
  <2>3. f \in {64, 73, 74, 77, 110, 125}
    BY <2>2
  <2>. HIDE DEF f, s
  <2>4. /\ f \in Byte /\ 61 \in Byte
        /\ f \notin {Yenc!CR, Yenc!LF, Yenc!NUL} /\ 61 \notin {Yenc!CR, Yenc!LF, Yenc!NUL}
        /\ f # Yenc!EQUALS
        /\ 61 \notin {Yenc!DOT, Yenc!TAB}
    BY <2>3 DEF Byte, Yenc!NUL, Yenc!LF, Yenc!CR, Yenc!EQUALS, Yenc!DOT, Yenc!TAB
  <2>5. s \in Seq(Byte) /\ Len(s) = 2 /\ DOMAIN s = {1, 2} /\ s[1] = 61 /\ s[2] = f
    BY <2>1, <2>4
  <2>. QED
    BY <1>2, <2>4, <2>5 DEF Addable, Yenc!Framing
<1>3. ASSUME ~Yenc!MustEscape(e, col)  PROVE Addable(s, Yenc!MustEscape(e, col), col)
  <2>1. s = <<e>>
    BY <1>3 DEF Symbol
  <2>2. /\ e \notin {Yenc!CR, Yenc!LF, Yenc!NUL} /\ e # Yenc!EQUALS
        /\ col = 0 => e \notin {Yenc!DOT, Yenc!TAB}
    BY <1>3 DEF Yenc!MustEscape
  <2>. HIDE DEF s
  <2>3. s \in Seq(Byte) /\ Len(s) = 1 /\ DOMAIN s = {1} /\ s[1] = e
    BY <1>1, <2>1
  <2>. QED
    BY <1>3, <2>2, <2>3 DEF Addable, Yenc!Framing
<1>. QED
  BY <1>2, <1>3 DEF e, s

\* A line that a symbol is added to stays closed.
LEMMA LongerIsClosed ==
  ASSUME NEW line, Closed(line), NEW s, NEW escaped \in BOOLEAN, NEW col,
         Addable(s, escaped, col), line = <<>> => escaped \/ col = 0
  PROVE  Closed(line \o s) /\ Len(line \o s) = Len(line) + Len(s) /\ Len(line) \in Nat
<1>. DEFINE longer == line \o s
            n == Len(line)
<1>1. /\ line \in Seq(Byte) /\ n \in Nat /\ s \in Seq(Byte)
      /\ Len(s) \in 1 .. 2 /\ DOMAIN s = 1 .. Len(s)
      /\ \A j \in DOMAIN s : s[j] \notin Yenc!Framing
      /\ line = <<>> => s[1] \notin {Yenc!DOT, Yenc!TAB}
      /\ s[Len(s)] # Yenc!EQUALS
  <2>1. line \in Seq(Byte) /\ s \in Seq(Byte)
    BY DEF Closed, Addable
  <2>2. n \in Nat /\ DOMAIN s = 1 .. Len(s)
    BY <2>1
  <2>3. Len(s) \in 1 .. 2
    BY DEF Addable
  <2>. QED
    BY <2>1, <2>2, <2>3 DEF Addable
<1>2. /\ longer \in Seq(Byte) /\ Len(longer) = n + Len(s) /\ DOMAIN longer = 1 .. n + Len(s)
      /\ \A i \in 1 .. n : longer[i] = line[i]
      /\ \A i \in 1 .. Len(s) : longer[n + i] = s[i]
  BY <1>1
<1>3. ASSUME NEW j \in DOMAIN longer  PROVE longer[j] \notin Yenc!Framing
  <2>1. CASE j \in 1 .. n
    BY <1>1, <1>2, <2>1 DEF Closed
  <2>2. CASE j \notin 1 .. n
    <3>1. j - n \in 1 .. Len(s) /\ n + (j - n) = j
      BY <1>1, <1>2, <2>2
    <3>. QED
      BY <1>1, <1>2, <3>1
  <2>. QED
    BY <2>1, <2>2
<1>4. longer[Len(longer)] # Yenc!EQUALS
  <2>1. Len(s) \in 1 .. Len(s)
    BY <1>1
  <2>2. longer[n + Len(s)] = s[Len(s)]
    BY <1>2, <2>1
  <2>. QED
    BY <1>1, <1>2, <2>2
<1>5. longer[1] \notin {Yenc!DOT, Yenc!TAB}
  <2>1. CASE line = <<>>
    <3>1. n = 0
      BY <2>1
    <3>2. longer[1] = s[1]
      BY <1>1, <1>2, <3>1
    <3>. QED
      BY <1>1, <2>1, <3>2
  <2>2. CASE line # <<>>
    <3>1. 1 \in 1 .. n
      BY <1>1, <2>2
    <3>. QED
      BY <1>2, <2>2, <3>1 DEF Closed
  <2>. QED
    BY <2>1, <2>2
<1>. QED
  BY <1>1, <1>2, <1>3, <1>4, <1>5 DEF Closed

-----------------------------------------------------------------------------
(* yEnc: the invariant of the encoder.                                     *)

LEMMA EmptyIsClosed ==
  Closed(<<>>) /\ Len(<<>>) = 0
BY DEF Closed

LEMMA WrittenTyped ==
  ASSUME NEW longest, NEW line, Written(line, longest)
  PROVE  line \in Seq(Byte)
<1>1. PICK payload : Closed(payload) /\ line = payload \o Yenc!LineEnd
  BY DEF Written
<1>2. payload \in Seq(Byte)
  BY <1>1 DEF Closed
<1>3. Yenc!LineEnd \in Seq(Byte)
  BY DEF Yenc!LineEnd, Yenc!CR, Yenc!LF, Byte
<1>. QED
  BY <1>1, <1>2, <1>3

\* The lines written, when the next one is.
AllWritten(done, longest) ==
  done \in Seq(Seq(Byte)) /\ \A i \in DOMAIN done : Written(done[i], longest)

LEMMA OneMoreWritten ==
  ASSUME NEW longest, NEW done, AllWritten(done, longest), NEW payload, Closed(payload),
         Len(payload) \in 1 .. longest
  PROVE  AllWritten(Append(done, payload \o Yenc!LineEnd), longest)
<1>. DEFINE line == payload \o Yenc!LineEnd
            after == Append(done, line)
            S == Seq(Byte)
<1>1. Written(line, longest)
  BY DEF Written
<1>2. line \in S
  BY <1>1, WrittenTyped
<1>3. done \in Seq(S) /\ \A i \in DOMAIN done : Written(done[i], longest)
  BY DEF AllWritten
<1>. HIDE DEF S, line
<1>4. /\ after \in Seq(S) /\ Len(done) \in Nat
      /\ DOMAIN done = 1 .. Len(done) /\ DOMAIN after = 1 .. Len(done) + 1
      /\ \A i \in 1 .. Len(done) : after[i] = done[i]
      /\ after[Len(done) + 1] = line
  BY <1>2, <1>3
<1>. HIDE DEF after
<1>5. \A i \in DOMAIN after : i \in 1 .. Len(done) \/ i = Len(done) + 1
  BY <1>4
<1>6. \A i \in DOMAIN after : Written(after[i], longest)
  BY <1>1, <1>3, <1>4, <1>5
<1>. QED
  BY <1>4, <1>6 DEF AllWritten, S, after, line

YencInv ==
  /\ data \in Seq(Byte)
  /\ lineLength \in Nat /\ lineLength >= 2
  /\ next \in Nat \ {0}
  /\ phase = "encode" =>
       /\ AllWritten(lines, lineLength)
       /\ Closed(current)
       /\ Len(current) < lineLength
  /\ Yenc!WireSafe

LEMMA YencInitInv ==
  Yenc!Init => YencInv
<1>. SUFFICES ASSUME Yenc!Init  PROVE YencInv
  OBVIOUS
<1>1. /\ data \in Seq(Byte) /\ next = 1 /\ lines = <<>> /\ current = <<>>
      /\ phase = "encode" /\ lineLength \in Nat /\ lineLength >= 2
  BY YencAssumption DEF Yenc!Init, Yenc!Clamped, Byte
<1>2. AllWritten(lines, lineLength)
  BY <1>1 DEF AllWritten
<1>3. Closed(current) /\ Len(current) < lineLength
  BY <1>1, EmptyIsClosed
<1>. QED
  BY <1>1, <1>2, <1>3 DEF YencInv, Yenc!WireSafe

\* What is written to a line leaves it closed, and the line is ended in time.
LEMMA EmitKeepsInv ==
  ASSUME YencInv, NEW s, NEW escaped \in BOOLEAN, NEW col, Addable(s, escaped, col),
         NEW line, Closed(line), line = <<>> => escaped \/ col = 0,
         Len(line) + Len(s) <= lineLength,
         NEW done, AllWritten(done, lineLength),
         Yenc!Emit(s, line, done)
  PROVE  AllWritten(lines', lineLength) /\ Closed(current') /\ Len(current') < lineLength
<1>. DEFINE longer == line \o s
<1>1. Closed(longer) /\ Len(longer) = Len(line) + Len(s) /\ Len(line) \in Nat
  BY LongerIsClosed
<1>. HIDE DEF longer
<1>2. Len(longer) \in 1 .. lineLength /\ lineLength \in Nat
  <2>1. Len(s) \in 1 .. 2
    BY DEF Addable
  <2>. QED
    BY <1>1, <2>1 DEF YencInv
<1>3. CASE Len(longer) >= lineLength
  <2>1. lines' = Append(done, longer \o Yenc!LineEnd) /\ current' = <<>>
    BY <1>3 DEF Yenc!Emit, longer
  <2>2. AllWritten(lines', lineLength)
    BY <1>1, <1>2, <2>1, OneMoreWritten
  <2>. QED
    BY <2>1, <2>2, EmptyIsClosed DEF YencInv
<1>4. CASE ~(Len(longer) >= lineLength)
  <2>1. lines' = done /\ current' = longer
    BY <1>4 DEF Yenc!Emit, longer
  <2>. QED
    BY <1>1, <1>2, <1>4, <2>1
<1>. QED
  BY <1>3, <1>4

LEMMA EncodeByteKeepsInv ==
  YencInv /\ Yenc!EncodeByte => YencInv'
<1>. SUFFICES ASSUME YencInv, Yenc!EncodeByte  PROVE YencInv'
  OBVIOUS
<1>. DEFINE e == Yenc!Encoded(data[next])
            col == Len(current)
            s == Symbol(e, col)
<1>1. /\ phase = "encode" /\ phase' = "encode" /\ data' = data /\ lineLength' = lineLength
      /\ next' = next + 1 /\ next <= Len(data)
      /\ IF Yenc!FlushBefore(e)
         THEN Yenc!Emit(s, <<>>, Append(lines, current \o Yenc!LineEnd))
         ELSE Yenc!Emit(s, current, lines)
  BY DEF Yenc!EncodeByte, Symbol
<1>2. /\ data \in Seq(Byte) /\ lineLength \in Nat /\ lineLength >= 2 /\ next \in Nat \ {0}
      /\ AllWritten(lines, lineLength) /\ Closed(current) /\ Len(current) < lineLength
  BY <1>1 DEF YencInv
<1>3. current \in Seq(Byte) /\ col \in Nat
  BY <1>2 DEF Closed
<1>4. data[next] \in Byte
  BY <1>1, <1>2
<1>5. Addable(s, Yenc!MustEscape(e, col), col)
  BY <1>3, <1>4, SymbolIsAddable
<1>. HIDE DEF e, s
<1>6. Len(s) = (IF Yenc!MustEscape(e, col) THEN 2 ELSE 1) /\ Yenc!MustEscape(e, col) \in BOOLEAN
  BY <1>5 DEF Addable, Yenc!MustEscape
<1>7. ASSUME Yenc!FlushBefore(e)
      PROVE  AllWritten(lines', lineLength) /\ Closed(current') /\ Len(current') < lineLength
  <2>1. Yenc!MustEscape(e, col) /\ col + 2 > lineLength
    BY <1>7 DEF Yenc!FlushBefore
  <2>2. Len(current) \in 1 .. lineLength
    BY <1>2, <1>3, <2>1
  <2>3. AllWritten(Append(lines, current \o Yenc!LineEnd), lineLength)
    BY <1>2, <2>2, OneMoreWritten
  <2>4. Len(s) = 2 /\ Len(<<>>) + Len(s) <= lineLength
    BY <1>2, <1>6, <2>1, EmptyIsClosed
  <2>5. Yenc!Emit(s, <<>>, Append(lines, current \o Yenc!LineEnd))
    BY <1>1, <1>7
  <2>. QED
    BY <1>5, <1>6, <2>1, <2>3, <2>4, <2>5, EmptyIsClosed, EmitKeepsInv
<1>8. ASSUME ~Yenc!FlushBefore(e)
      PROVE  AllWritten(lines', lineLength) /\ Closed(current') /\ Len(current') < lineLength
  <2>1. ~Yenc!MustEscape(e, col) \/ col + 2 <= lineLength
    BY <1>2, <1>3, <1>8 DEF Yenc!FlushBefore
  <2>2. Len(current) + Len(s) <= lineLength
    BY <1>2, <1>3, <1>6, <2>1
  <2>3. current = <<>> => col = 0
    BY EmptyIsClosed
  <2>4. Yenc!Emit(s, current, lines)
    BY <1>1, <1>8
  <2>. QED
    BY <1>2, <1>5, <1>6, <2>2, <2>3, <2>4, EmitKeepsInv
<1>9. AllWritten(lines', lineLength) /\ Closed(current') /\ Len(current') < lineLength
  BY <1>7, <1>8
<1>. QED
  BY <1>1, <1>2, <1>9 DEF YencInv, Yenc!WireSafe

LEMMA YencEndKeepsInv ==
  YencInv /\ Yenc!EncodeEnd => YencInv'
<1>. SUFFICES ASSUME YencInv, Yenc!EncodeEnd  PROVE YencInv'
  OBVIOUS
<1>1. /\ phase' = "transport" /\ data' = data /\ lineLength' = lineLength /\ next' = next
      /\ lines' = IF current = <<>> THEN lines ELSE Append(lines, current \o Yenc!LineEnd)
      /\ lineLength \in Nat
      /\ AllWritten(lines, lineLength) /\ Closed(current) /\ Len(current) < lineLength
  BY DEF Yenc!EncodeEnd, YencInv
<1>2. AllWritten(lines', lineLength)
  <2>1. CASE current = <<>>
    BY <1>1, <2>1
  <2>2. CASE current # <<>>
    <3>1. current \in Seq(Byte)
      BY <1>1 DEF Closed
    <3>2. Len(current) \in 1 .. lineLength
      BY <1>1, <2>2, <3>1
    <3>. QED
      BY <1>1, <2>2, <3>2, OneMoreWritten
  <2>. QED
    BY <2>1, <2>2
<1>3. ASSUME NEW i \in DOMAIN lines'
      PROVE  LET payload == Yenc!Payload(lines'[i])
             IN  /\ Len(payload) \in 1 .. lineLength
                 /\ \A j \in DOMAIN payload : payload[j] \notin Yenc!Framing
                 /\ payload[1] \notin {Yenc!DOT, Yenc!TAB}
                 /\ payload[Len(payload)] # Yenc!EQUALS
  <2>1. PICK payload : /\ Closed(payload) /\ Len(payload) \in 1 .. lineLength
                       /\ lines'[i] = payload \o Yenc!LineEnd
    BY <1>2 DEF AllWritten, Written
  <2>2. payload \in Seq(Byte) /\ payload # <<>>
    BY <1>1, <2>1 DEF Closed
  <2>3. Yenc!Payload(lines'[i]) = payload
    BY <2>1, <2>2, PayloadOfWritten
  <2>. QED
    BY <2>1, <2>2, <2>3 DEF Closed
<1>4. Yenc!WireSafe'
  BY <1>1, <1>3 DEF Yenc!WireSafe
<1>. QED
  BY <1>1, <1>4 DEF YencInv

LEMMA YencStepKeepsInv ==
  YencInv /\ [Yenc!Next]_Yenc!vars => YencInv'
<1>. SUFFICES ASSUME YencInv, [Yenc!Next]_Yenc!vars  PROVE YencInv'
  OBVIOUS
<1>1. CASE Yenc!EncodeByte
  BY <1>1, EncodeByteKeepsInv
<1>2. CASE Yenc!EncodeEnd
  BY <1>2, YencEndKeepsInv
<1>3. CASE Yenc!Transport
  <2>1. phase' = "decode" /\ next' = 1 /\ data' = data /\ lineLength' = lineLength
    BY <1>3 DEF Yenc!Transport, Yenc!Carry
  <2>. QED
    BY <2>1 DEF YencInv, Yenc!WireSafe
<1>4. CASE Yenc!DecodeNextLine
  <2>1. phase = "decode" /\ phase' = "decode" /\ data' = data /\ lineLength' = lineLength
        /\ next' = next + 1
    BY <1>4 DEF Yenc!DecodeNextLine
  <2>. QED
    BY <2>1 DEF YencInv, Yenc!WireSafe
<1>5. CASE Yenc!DecodeEnd
  <2>1. phase' = "done" /\ data' = data /\ lineLength' = lineLength /\ next' = next
    BY <1>5 DEF Yenc!DecodeEnd
  <2>. QED
    BY <2>1 DEF YencInv, Yenc!WireSafe
<1>6. CASE UNCHANGED Yenc!vars
  <2>1. UNCHANGED <<phase, data, lineLength, next, lines, current>>
    BY <1>6 DEF Yenc!vars
  <2>. QED
    BY <2>1 DEF YencInv, Yenc!WireSafe
<1>. QED
  BY <1>1, <1>2, <1>3, <1>4, <1>5, <1>6 DEF Yenc!Next

-----------------------------------------------------------------------------
(* yEnc: a stream of bytes, what it reads as, and how it is cut into lines. *)

\* Of the first j bytes of the stream, cnt[j] bytes of d are complete; esc[j]
\* tells that the last of them opens an escape.
ReadsAs(stream, d, cnt, esc) ==
  /\ stream \in Seq(Byte) /\ d \in Seq(Byte)
  /\ \A j \in 1 .. Len(stream) : stream[j] \notin Yenc!Framing
  /\ cnt \in [0 .. Len(stream) -> 0 .. Len(d)]
  /\ esc \in [0 .. Len(stream) -> BOOLEAN]
  /\ cnt[0] = 0 /\ ~esc[0]
  /\ cnt[Len(stream)] = Len(d) /\ ~esc[Len(stream)]
  /\ \A j \in 1 .. Len(stream) :
       \/ /\ esc[j - 1] /\ ~esc[j] /\ cnt[j] = cnt[j - 1] + 1
          /\ d[cnt[j]] = (stream[j] - 106) % 256
       \/ ~esc[j - 1] /\ esc[j] /\ cnt[j] = cnt[j - 1] /\ stream[j] = Yenc!EQUALS
       \/ /\ ~esc[j - 1] /\ ~esc[j] /\ cnt[j] = cnt[j - 1] + 1
          /\ stream[j] # Yenc!EQUALS /\ d[cnt[j]] = (stream[j] - 42) % 256

Reads(stream, d) == \E cnt, esc : ReadsAs(stream, d, cnt, esc)

\* The lines are pieces of the stream, none of them empty.
CutAs(ls, stream, pos) ==
  /\ ls \in Seq(Seq(Byte)) /\ stream \in Seq(Byte)
  /\ pos \in [0 .. Len(ls) -> 0 .. Len(stream)]
  /\ pos[0] = 0
  /\ \A i \in 1 .. Len(ls) :
       /\ pos[i - 1] < pos[i]
       /\ ls[i] = SubSeq(stream, pos[i - 1] + 1, pos[i]) \o Yenc!LineEnd

Cut(ls, stream, rest) ==
  \E pos : CutAs(ls, stream, pos) /\ rest = SubSeq(stream, pos[Len(ls)] + 1, Len(stream))

LEMMA LineEndFacts ==
  /\ Yenc!LineEnd \in Seq(Byte) /\ Len(Yenc!LineEnd) = 2
  /\ Yenc!LineEnd[1] \in Yenc!Framing /\ Yenc!LineEnd[2] \in Yenc!Framing
BY DEF Yenc!LineEnd, Yenc!CR, Yenc!LF, Yenc!Framing, Byte

\* One byte more of a sequence.
LEMMA PrefixMore ==
  ASSUME NEW S, NEW d \in Seq(S), NEW c \in Nat, c + 1 <= Len(d)
  PROVE  SubSeq(d, 1, c + 1) = Append(SubSeq(d, 1, c), d[c + 1])
<1>1. 1 \in 1 .. Len(d) /\ c + 1 \in 1 .. Len(d) /\ (c + 1) - 1 = c /\ Len(d) \in Nat
  BY LenProperties
<1>2. SubSeq(d, 1, c + 1) = SubSeq(d, 1, c) \o <<d[c + 1]>>
  BY <1>1, SubSeqRecursiveSecond
<1>3. SubSeq(d, 1, c) \in Seq(S) /\ d[c + 1] \in S
  BY <1>1
<1>. QED
  BY <1>2, <1>3, AppendIsConcat

\* A symbol that encode_body writes reads as the byte it stands for
\* (encode.rs:128-160, decode.rs:236-299).
LEMMA SymbolReadsBack ==
  ASSUME NEW stream, NEW d, Reads(stream, d), NEW byte \in Byte, NEW col \in Nat
  PROVE  LET s == Symbol(Yenc!Encoded(byte), col)
         IN  Reads(stream \o s, Append(d, byte))
<1>. DEFINE e == Yenc!Encoded(byte)
            s == Symbol(e, col)
            f == (e + 64) % 256
            n == Len(stream)
            c == Len(d)
            longer == stream \o s
            more == Append(d, byte)
<1>1. PICK cnt, esc : ReadsAs(stream, d, cnt, esc)
  BY DEF Reads
<1>2. stream \in Seq(Byte) /\ d \in Seq(Byte) /\ n \in Nat /\ c \in Nat
  BY <1>1 DEF ReadsAs
<1>3. Addable(s, Yenc!MustEscape(e, col), col)
  BY SymbolIsAddable
<1>4. /\ s \in Seq(Byte) /\ Len(s) = IF Yenc!MustEscape(e, col) THEN 2 ELSE 1
      /\ \A j \in 1 .. Len(s) : s[j] \notin Yenc!Framing
  <2>1. s \in Seq(Byte) /\ \A j \in DOMAIN s : s[j] \notin Yenc!Framing
    BY <1>3 DEF Addable
  <2>2. Len(s) = IF Yenc!MustEscape(e, col) THEN 2 ELSE 1
    BY <1>3 DEF Addable
  <2>3. DOMAIN s = 1 .. Len(s)
    BY <2>1, LenProperties
  <2>. QED
    BY <2>1, <2>2, <2>3
<1>5. e \in Byte /\ (e - 42) % 256 = byte /\ (f - 106) % 256 = byte
  BY DEF Yenc!Encoded, Byte
<1>6. IF Yenc!MustEscape(e, col) THEN s = <<Yenc!EQUALS, f>> ELSE s = <<e>> /\ e # Yenc!EQUALS
  BY DEF Symbol, Yenc!EscapePair, Yenc!MustEscape
<1>. HIDE DEF e, s, f
<1>7. /\ more \in Seq(Byte) /\ Len(more) = c + 1 /\ more[c + 1] = byte
      /\ \A i \in 1 .. c : more[i] = d[i]
  BY <1>2
<1>8. /\ longer \in Seq(Byte) /\ Len(longer) = n + Len(s) /\ Len(s) \in 1 .. 2
      /\ \A i \in 1 .. n : longer[i] = stream[i]
      /\ \A i \in 1 .. Len(s) : longer[n + i] = s[i]
  <2>1. longer \in Seq(Byte) /\ Len(longer) = n + Len(s)
    BY <1>2, <1>4, ConcatProperties, Zenon
  <2>2. \A i \in 1 .. n + Len(s) : longer[i] = IF i <= n THEN stream[i] ELSE s[i - n]
    BY <1>2, <1>4, ConcatProperties, Zenon
  <2>3. Len(s) \in 1 .. 2
    BY <1>4
  <2>4. ASSUME NEW i \in 1 .. n  PROVE longer[i] = stream[i]
    <3>1. i \in 1 .. n + Len(s) /\ i <= n
      BY <1>2, <2>3
    <3>. QED
      BY <2>2, <3>1
  <2>5. ASSUME NEW i \in 1 .. Len(s)  PROVE longer[n + i] = s[i]
    <3>1. n + i \in 1 .. n + Len(s) /\ ~(n + i <= n) /\ (n + i) - n = i
      BY <1>2, <2>3
    <3>. QED
      BY <2>2, <3>1
  <2>. QED
    BY <2>1, <2>3, <2>4, <2>5
<1>. HIDE DEF more, longer
<1>9. PICK cntL : cntL = [j \in 0 .. Len(longer) |-> IF j <= n THEN cnt[j] ELSE IF j = Len(longer) THEN c + 1 ELSE c]
  OBVIOUS
<1>10. PICK escL : escL = [j \in 0 .. Len(longer) |-> IF j <= n THEN esc[j] ELSE j # Len(longer)]
  OBVIOUS
<1>11. /\ \A j \in 0 .. n : cntL[j] = cnt[j] /\ escL[j] = esc[j]
       /\ cntL[Len(longer)] = c + 1 /\ ~escL[Len(longer)]
       /\ Len(s) = 2 => cntL[n + 1] = c /\ escL[n + 1]
  <2>. DEFINE k == Len(longer)
  <2>1. k \in Nat /\ n < k /\ k \in 0 .. k /\ ~(k <= n)
    <3>1. n < n + Len(s) /\ n + Len(s) \in Nat
      BY <1>2, <1>8
    <3>2. k = n + Len(s)
      BY <1>8
    <3>. HIDE DEF k
    <3>. QED
      BY <1>2, <3>1, <3>2
  <2>2. ASSUME NEW j \in 0 .. n  PROVE cntL[j] = cnt[j] /\ escL[j] = esc[j]
    <3>1. j \in 0 .. k /\ j <= n
      BY <1>2, <2>1
    <3>. QED
      BY <1>9, <1>10, <3>1, Zenon
  <2>3. cntL[k] = c + 1 /\ escL[k] = (k # k)
    BY <1>9, <1>10, <2>1, Zenon
  <2>4. ASSUME Len(s) = 2  PROVE cntL[n + 1] = c /\ escL[n + 1]
    <3>1. n + 1 \in 0 .. k /\ ~(n + 1 <= n) /\ n + 1 # k
      BY <1>2, <1>8, <2>4
    <3>. QED
      BY <1>9, <1>10, <3>1, Zenon
  <2>. QED
    BY <2>2, <2>3, <2>4
<1>12. /\ cnt \in [0 .. n -> 0 .. c] /\ esc \in [0 .. n -> BOOLEAN]
       /\ cnt[0] = 0 /\ ~esc[0] /\ cnt[n] = c /\ ~esc[n]
  BY <1>1 DEF ReadsAs
<1>13. cntL \in [0 .. Len(longer) -> 0 .. Len(more)] /\ escL \in [0 .. Len(longer) -> BOOLEAN]
  <2>1. ASSUME NEW j \in 0 .. Len(longer)  PROVE cntL[j] \in 0 .. c + 1 /\ escL[j] \in BOOLEAN
    <3>1. CASE j <= n
      <4>1. j \in 0 .. n /\ cnt[j] \in 0 .. c /\ esc[j] \in BOOLEAN
        BY <1>2, <1>12, <3>1
      <4>. QED
        BY <1>2, <1>11, <4>1
    <3>2. CASE ~(j <= n)
      BY <1>2, <1>9, <1>10, <3>2
    <3>. QED
      BY <3>1, <3>2
  <2>. QED
    BY <1>7, <1>9, <1>10, <2>1
<1>14. \A j \in 1 .. Len(longer) : longer[j] \notin Yenc!Framing
  <2>. SUFFICES ASSUME NEW j \in 1 .. Len(longer)  PROVE longer[j] \notin Yenc!Framing
    OBVIOUS
  <2>1. CASE j <= n
    <3>1. j \in 1 .. n
      BY <1>2, <2>1
    <3>. QED
      BY <1>1, <1>8, <3>1 DEF ReadsAs
  <2>2. CASE ~(j <= n)
    <3>1. j - n \in 1 .. Len(s) /\ n + (j - n) = j
      BY <1>2, <1>8, <2>2
    <3>. QED
      BY <1>4, <1>8, <3>1
  <2>. QED
    BY <2>1, <2>2
<1>15. ASSUME NEW j \in 1 .. Len(longer)
       PROVE  \/ /\ escL[j - 1] /\ ~escL[j] /\ cntL[j] = cntL[j - 1] + 1
                 /\ more[cntL[j]] = (longer[j] - 106) % 256
              \/ ~escL[j - 1] /\ escL[j] /\ cntL[j] = cntL[j - 1] /\ longer[j] = Yenc!EQUALS
              \/ /\ ~escL[j - 1] /\ ~escL[j] /\ cntL[j] = cntL[j - 1] + 1
                 /\ longer[j] # Yenc!EQUALS /\ more[cntL[j]] = (longer[j] - 42) % 256
  <2>1. CASE j <= n
    <3>1. j \in 1 .. n /\ j \in 0 .. n /\ j - 1 \in 0 .. n
      BY <1>2, <2>1
    <3>2. /\ cntL[j] = cnt[j] /\ escL[j] = esc[j] /\ cntL[j - 1] = cnt[j - 1] /\ escL[j - 1] = esc[j - 1]
          /\ longer[j] = stream[j] /\ cnt[j] \in 0 .. c /\ cnt[j - 1] \in 0 .. c
      BY <1>8, <1>11, <1>12, <3>1
    <3>3. cnt[j] = cnt[j - 1] + 1 => more[cnt[j]] = d[cnt[j]]
      <4>1. cnt[j] = cnt[j - 1] + 1 => cnt[j] \in 1 .. c
        BY <3>2
      <4>. QED
        BY <1>7, <4>1
    <3>. QED
      BY <1>1, <3>1, <3>2, <3>3 DEF ReadsAs
  <2>2. CASE ~(j <= n) /\ Len(s) = 1
    <3>1. j = n + 1 /\ j - 1 = n /\ j = Len(longer) /\ n \in 0 .. n
      BY <1>2, <1>8, <2>2
    <3>2. ~Yenc!MustEscape(e, col)
      BY <1>4, <2>2
    <3>3. s[1] = e /\ e # Yenc!EQUALS
      BY <1>6, <3>2
    <3>4. longer[j] = e
      <4>1. 1 \in 1 .. Len(s)
        BY <2>2
      <4>. QED
        BY <1>8, <3>1, <3>3, <4>1
    <3>5. cntL[j - 1] = c /\ ~escL[j - 1] /\ cntL[j] = c + 1 /\ ~escL[j]
      BY <1>11, <1>12, <3>1
    <3>. QED
      BY <1>5, <1>7, <3>3, <3>4, <3>5
  <2>3. CASE ~(j <= n) /\ Len(s) = 2
    <3>1. Yenc!MustEscape(e, col)
      BY <1>4, <2>3
    <3>2. s[1] = Yenc!EQUALS /\ s[2] = f
      BY <1>6, <3>1
    <3>3. 1 \in 1 .. Len(s) /\ 2 \in 1 .. Len(s) /\ n \in 0 .. n
      BY <1>2, <2>3
    <3>4. longer[n + 1] = Yenc!EQUALS /\ longer[n + 2] = f
      BY <1>8, <3>2, <3>3
    <3>5. cntL[n] = c /\ ~escL[n] /\ cntL[n + 1] = c /\ escL[n + 1] /\ cntL[n + 2] = c + 1 /\ ~escL[n + 2]
      BY <1>8, <1>11, <1>12, <2>3, <3>3
    <3>6. CASE j = n + 1
      <4>1. j - 1 = n
        BY <1>2, <3>6
      <4>. QED
        BY <3>4, <3>5, <3>6, <4>1
    <3>7. CASE j = n + 2
      <4>1. j - 1 = n + 1
        BY <1>2, <3>7
      <4>. QED
        BY <1>5, <1>7, <3>4, <3>5, <3>7, <4>1
    <3>8. j = n + 1 \/ j = n + 2
      BY <1>2, <1>8, <2>3
    <3>. QED
      BY <3>6, <3>7, <3>8
  <2>. QED
    BY <1>8, <2>1, <2>2, <2>3
<1>16. cntL[0] = 0 /\ ~escL[0]
  <2>1. 0 \in 0 .. n
    BY <1>2
  <2>. QED
    BY <1>11, <1>12, <2>1
<1>17. ReadsAs(longer, more, cntL, escL)
  BY <1>7, <1>8, <1>11, <1>13, <1>14, <1>15, <1>16 DEF ReadsAs
<1>. QED
  BY <1>17 DEF Reads, longer, more, s, e

\* What is not yet in a line grows with the stream.
LEMMA CutLonger ==
  ASSUME NEW ls, NEW stream, NEW rest, Cut(ls, stream, rest), NEW s \in Seq(Byte)
  PROVE  Cut(ls, stream \o s, rest \o s)
<1>. DEFINE longer == stream \o s
            m == Len(ls)
            n == Len(stream)
<1>1. PICK pos : CutAs(ls, stream, pos) /\ rest = SubSeq(stream, pos[m] + 1, n)
  BY DEF Cut
<1>2. /\ ls \in Seq(Seq(Byte)) /\ stream \in Seq(Byte) /\ m \in Nat /\ n \in Nat /\ Len(s) \in Nat
      /\ pos \in [0 .. m -> 0 .. n] /\ pos[0] = 0
  BY <1>1, LenProperties DEF CutAs
<1>3. longer \in Seq(Byte) /\ Len(longer) = n + Len(s)
  BY <1>2, ConcatProperties, Zenon
<1>4. ASSUME NEW i \in 1 .. m
      PROVE  /\ pos[i - 1] < pos[i]
             /\ ls[i] = SubSeq(longer, pos[i - 1] + 1, pos[i]) \o Yenc!LineEnd
  <2>1. /\ pos[i - 1] < pos[i]
        /\ ls[i] = SubSeq(stream, pos[i - 1] + 1, pos[i]) \o Yenc!LineEnd
    BY <1>1 DEF CutAs
  <2>2. pos[i - 1] + 1 \in 1 .. n /\ pos[i] \in 1 .. n
    <3>1. i - 1 \in 0 .. m /\ i \in 0 .. m
      BY <1>2
    <3>2. pos[i - 1] \in 0 .. n /\ pos[i] \in 0 .. n
      BY <1>2, <3>1
    <3>. QED
      BY <1>2, <2>1, <3>2
  <2>3. SubSeq(longer, pos[i - 1] + 1, pos[i]) = SubSeq(stream, pos[i - 1] + 1, pos[i])
    BY <1>2, <2>2, SubSeqOfConcat1
  <2>. QED
    BY <2>1, <2>3
<1>5. pos \in [0 .. m -> 0 .. Len(longer)]
  <2>1. \A j \in 0 .. n : j \in 0 .. Len(longer)
    BY <1>2, <1>3
  <2>. QED
    BY <1>2, <2>1
<1>6. CutAs(ls, longer, pos)
  BY <1>2, <1>3, <1>4, <1>5 DEF CutAs
<1>7. SubSeq(longer, pos[m] + 1, Len(longer)) = rest \o s
  <2>. DEFINE p == pos[m]
  <2>0. m \in 0 .. m
    BY <1>2
  <2>1. p \in 0 .. n
    BY <1>2, <2>0, Zenon
  <2>2. n \in p .. Len(longer) /\ Len(longer) \in n .. Len(longer) /\ p \in 0 .. Len(longer)
    BY <1>2, <1>3, <2>1
  <2>3. SubSeq(longer, p + 1, n) \o SubSeq(longer, n + 1, Len(longer)) = SubSeq(longer, p + 1, Len(longer))
    BY <1>3, <2>2, SubSeqJoin
  <2>4. SubSeq(longer, p + 1, n) = rest
    <3>1. CASE p = n
      <4>1. n < p + 1 /\ p + 1 \in Int /\ n \in Int
        BY <1>2, <2>1, <3>1
      <4>2. rest = SubSeq(stream, p + 1, n)
        BY <1>1
      <4>. HIDE DEF p
      <4>. QED
        BY <4>1, <4>2, SubSeqEmpty
    <3>2. CASE p # n
      <4>1. p + 1 \in 1 .. n /\ n \in 1 .. n
        BY <1>2, <2>1, <3>2
      <4>2. rest = SubSeq(stream, p + 1, n)
        BY <1>1
      <4>. HIDE DEF p
      <4>. QED
        BY <1>2, <4>1, <4>2, SubSeqOfConcat1
    <3>. QED
      BY <3>1, <3>2
  <2>5. SubSeq(longer, n + 1, Len(longer)) = s
    <3>1. CASE Len(s) = 0
      <4>1. s = <<>> /\ Len(longer) < n + 1 /\ n + 1 \in Int /\ Len(longer) \in Int
        BY <1>2, <1>3, <3>1, EmptySeq
      <4>. QED
        BY <4>1, SubSeqEmpty
    <3>2. CASE Len(s) # 0
      <4>1. /\ n + 1 \in n + 1 .. n + Len(s) /\ n + Len(s) \in n + 1 .. n + Len(s)
            /\ n + 1 - n = 1 /\ n + Len(s) - n = Len(s)
        BY <1>2, <3>2
      <4>2. SubSeq(longer, n + 1, n + Len(s)) = SubSeq(s, n + 1 - n, n + Len(s) - n)
        BY <1>2, <4>1, SubSeqOfConcat2
      <4>. QED
        BY <1>3, <4>1, <4>2, SubSeqFull
    <3>. QED
      BY <3>1, <3>2
  <2>. QED
    BY <2>3, <2>4, <2>5
<1>. QED
  BY <1>6, <1>7 DEF Cut

\* What is not yet in a line becomes the next one.
LEMMA CutMore ==
  ASSUME NEW ls, NEW stream, NEW rest, Cut(ls, stream, rest), rest # <<>>
  PROVE  Cut(Append(ls, rest \o Yenc!LineEnd), stream, <<>>)
<1>. DEFINE line == rest \o Yenc!LineEnd
            after == Append(ls, line)
            m == Len(ls)
            n == Len(stream)
            S == Seq(Byte)
<1>1. PICK pos : CutAs(ls, stream, pos) /\ rest = SubSeq(stream, pos[m] + 1, n)
  BY DEF Cut
<1>2. /\ ls \in Seq(S) /\ stream \in Seq(Byte) /\ m \in Nat /\ n \in Nat
      /\ pos \in [0 .. m -> 0 .. n] /\ pos[0] = 0
  BY <1>1, LenProperties DEF CutAs
<1>3. rest \in S
  BY <1>1, <1>2
<1>4. line \in S
  BY <1>3, LineEndFacts, ConcatProperties
<1>. HIDE DEF S, line
<1>5. /\ after \in Seq(S) /\ Len(after) = m + 1
      /\ \A i \in 1 .. m : after[i] = ls[i]
      /\ after[m + 1] = line
  BY <1>2, <1>4, AppendProperties
<1>. HIDE DEF after
<1>6. pos[m] \in 0 .. n /\ pos[m] < n
  <2>1. pos[m] \in 0 .. n
    BY <1>2
  <2>. DEFINE p == pos[m]
  <2>2. p + 1 \in Int /\ n \in Int
    BY <1>2, <2>1
  <2>. HIDE DEF p
  <2>3. ~(n < p + 1)
    <3>. SUFFICES ASSUME n < p + 1  PROVE FALSE
      OBVIOUS
    <3>1. SubSeq(stream, p + 1, n) = <<>>
      BY <2>2, SubSeqEmpty
    <3>. QED
      BY <1>1, <3>1 DEF p
  <2>. QED
    BY <1>2, <2>1, <2>3 DEF p
<1>7. PICK posL : posL = [i \in 0 .. m + 1 |-> IF i = m + 1 THEN n ELSE pos[i]]
  OBVIOUS
<1>8. posL[m + 1] = n /\ \A i \in 0 .. m : posL[i] = pos[i]
  BY <1>2, <1>7
<1>9. posL \in [0 .. Len(after) -> 0 .. n]
  <2>1. ASSUME NEW i \in 0 .. m + 1  PROVE posL[i] \in 0 .. n
    <3>1. i = m + 1 \/ i \in 0 .. m
      BY <1>2
    <3>. QED
      BY <1>2, <1>8, <3>1
  <2>. QED
    BY <1>5, <1>7, <2>1
<1>10. ASSUME NEW i \in 1 .. Len(after)
       PROVE  /\ posL[i - 1] < posL[i]
              /\ after[i] = SubSeq(stream, posL[i - 1] + 1, posL[i]) \o Yenc!LineEnd
  <2>1. CASE i = m + 1
    <3>1. i - 1 = m /\ m \in 0 .. m
      BY <1>2, <2>1
    <3>2. posL[i - 1] = pos[m] /\ posL[i] = n
      BY <1>8, <2>1, <3>1
    <3>. QED
      BY <1>1, <1>5, <1>6, <2>1, <3>2 DEF line
  <2>2. CASE i # m + 1
    <3>1. i \in 1 .. m /\ i \in 0 .. m /\ i - 1 \in 0 .. m
      BY <1>2, <1>5, <2>2
    <3>2. posL[i - 1] = pos[i - 1] /\ posL[i] = pos[i] /\ after[i] = ls[i]
      BY <1>5, <1>8, <3>1
    <3>. QED
      BY <1>1, <3>1, <3>2 DEF CutAs
  <2>. QED
    BY <2>1, <2>2
<1>11. posL[0] = 0
  BY <1>2, <1>8
<1>12. CutAs(after, stream, posL)
  BY <1>2, <1>5, <1>9, <1>10, <1>11 DEF CutAs, S
<1>13. SubSeq(stream, posL[Len(after)] + 1, n) = <<>>
  BY <1>2, <1>5, <1>8, SubSeqEmpty
<1>. QED
  BY <1>12, <1>13 DEF Cut, after, line

-----------------------------------------------------------------------------
(* yEnc: decode_line on a piece of the stream.                             *)

\* The state of the loop over the bytes of a line, and one turn of it
\* (decode.rs:236-299).
Yes == TRUE

No == FALSE

Running(out, open, skip) == [out |-> out, pending |-> open, skip |-> skip]

Turn(line, st, i) ==
  IF st.skip THEN [st EXCEPT !.skip = FALSE]
  ELSE IF line[i] \in Yenc!Framing THEN st
  ELSE IF line[i] # Yenc!EQUALS
    THEN [st EXCEPT !.out = Append(@, (line[i] - 42) % 256)]
  ELSE IF i < Len(line) /\ line[i + 1] \notin Yenc!Framing
    THEN [st EXCEPT !.out = Append(@, (line[i + 1] - 106) % 256),
                    !.skip = TRUE]
  ELSE [st EXCEPT !.pending = TRUE]

LEMMA RunningFields ==
  ASSUME NEW o, NEW p, NEW k
  PROVE  Running(o, p, k).out = o /\ Running(o, p, k).pending = p /\ Running(o, p, k).skip = k
BY DEF Running

\* What the assignments of a turn make of the state.
LEMMA RunningOut ==
  ASSUME NEW o, NEW p, NEW k, NEW v
  PROVE  [Running(o, p, k) EXCEPT !.out = Append(@, v)] = Running(Append(o, v), p, k)
<1>1. [[out |-> o, pending |-> p, skip |-> k] EXCEPT !.out = Append(@, v)]
        = [out |-> Append(o, v), pending |-> p, skip |-> k]
  OBVIOUS
<1>. QED
  BY <1>1 DEF Running

LEMMA RunningOpen ==
  ASSUME NEW o, NEW p, NEW k, NEW t
  PROVE  [Running(o, p, k) EXCEPT !.pending = t] = Running(o, t, k)
<1>1. [[out |-> o, pending |-> p, skip |-> k] EXCEPT !.pending = t]
        = [out |-> o, pending |-> t, skip |-> k]
  OBVIOUS
<1>. QED
  BY <1>1, Zenon DEF Running

\* What a turn does: the second byte of a pair, a byte of the framing, a plain
\* byte, an escape with its second byte and one without.
LEMMA TurnSkips ==
  ASSUME NEW line, NEW out, NEW open, NEW i
  PROVE  Turn(line, Running(out, open, Yes), i) = Running(out, open, No)
BY DEF Turn, Running, Yes, No

LEMMA TurnDrops ==
  ASSUME NEW line, NEW out, NEW open, NEW i, line[i] \in Yenc!Framing
  PROVE  Turn(line, Running(out, open, No), i) = Running(out, open, No)
BY DEF Turn, Running, No

LEMMA TurnReads ==
  ASSUME NEW line, NEW out, NEW open, NEW i,
         line[i] \notin Yenc!Framing, line[i] # Yenc!EQUALS
  PROVE  Turn(line, Running(out, open, No), i)
           = Running(Append(out, (line[i] - 42) % 256), open, No)
<1>. DEFINE v == (line[i] - 42) % 256
            st == Running(out, open, No)
<1>1. st.skip = FALSE
  BY DEF Running, No
<1>. HIDE DEF st
<1>2. Turn(line, st, i) = [st EXCEPT !.out = Append(@, v)]
  BY <1>1, Zenon DEF Turn
<1>. HIDE DEF v
<1>3. [st EXCEPT !.out = Append(@, v)] = Running(Append(out, v), open, No)
  BY RunningOut DEF st
<1>. QED
  BY <1>2, <1>3 DEF v, st

LEMMA TurnReadsPair ==
  ASSUME NEW line, NEW out, NEW open, NEW i,
         line[i] \notin Yenc!Framing, line[i] = Yenc!EQUALS,
         i < Len(line), line[i + 1] \notin Yenc!Framing
  PROVE  Turn(line, Running(out, open, No), i)
           = Running(Append(out, (line[i + 1] - 106) % 256), open, Yes)
<1>. DEFINE v == (line[i + 1] - 106) % 256
            st == Running(out, open, No)
<1>1. st.skip = FALSE
  BY DEF Running, No
<1>. HIDE DEF st
<1>2. Turn(line, st, i) = [st EXCEPT !.out = Append(@, v), !.skip = Yes]
  BY <1>1, Zenon DEF Turn, Yes
<1>. HIDE DEF v
<1>3. [st EXCEPT !.out = Append(@, v), !.skip = Yes] = Running(Append(out, v), open, Yes)
  <2>. DEFINE longer == [st EXCEPT !.out = Append(@, v)]
  <2>1. [st EXCEPT !.out = Append(@, v), !.skip = Yes] = [longer EXCEPT !.skip = Yes]
    BY DEF st, Running
  <2>2. longer = Running(Append(out, v), open, No)
    BY RunningOut DEF st
  <2>. HIDE DEF longer
  <2>3. [longer EXCEPT !.skip = Yes] = Running(Append(out, v), open, Yes)
    <3>. DEFINE o == Append(out, v)
    <3>. HIDE DEF o
    <3>1. [Running(o, open, No) EXCEPT !.skip = Yes] = Running(o, open, Yes)
      BY DEF Running
    <3>. QED
      BY <2>2, <3>1, Zenon DEF o
  <2>. QED
    BY <2>1, <2>3 DEF longer
<1>. QED
  BY <1>2, <1>3 DEF v, st

LEMMA TurnOpens ==
  ASSUME NEW line, NEW out, NEW open, NEW i,
         line[i] \notin Yenc!Framing, line[i] = Yenc!EQUALS, line[i + 1] \in Yenc!Framing
  PROVE  Turn(line, Running(out, open, No), i) = Running(out, Yes, No)
<1>. DEFINE st == Running(out, open, No)
<1>1. st.skip = FALSE
  BY DEF Running, No
<1>. HIDE DEF st
<1>2. Turn(line, st, i) = [st EXCEPT !.pending = Yes]
  BY <1>1, Zenon DEF Turn, Yes
<1>3. [st EXCEPT !.pending = Yes] = Running(out, Yes, No)
  BY RunningOpen DEF st
<1>. QED
  BY <1>2, <1>3 DEF st

\* A line that holds the stream from p to q.
Holding(stream, p, q) == SubSeq(stream, p + 1, q) \o Yenc!LineEnd

\* The loop over the bytes of a line goes from a place in the stream that is
\* not inside an escape to the end of the line.
LEMMA BytesReadBack ==
  ASSUME NEW stream, NEW d, NEW cnt, NEW esc, ReadsAs(stream, d, cnt, esc),
         NEW p \in 0 .. Len(stream), NEW q \in p .. Len(stream), ~esc[p],
         NEW line, line = Holding(stream, p, q)
  PROVE  LET result == Yenc!DecodeBytes(line, SubSeq(d, 1, cnt[p]))
         IN  result.out = SubSeq(d, 1, cnt[q]) /\ result.pending = esc[q]
<1>. DEFINE n == q - p
            N == Len(line)
            out0 == SubSeq(d, 1, cnt[p])
            State(i) ==
              IF i < n
              THEN IF esc[p + i] THEN Running(SubSeq(d, 1, cnt[p + i] + 1), No, Yes)
                                 ELSE Running(SubSeq(d, 1, cnt[p + i]), No, No)
              ELSE Running(SubSeq(d, 1, cnt[q]), esc[q], No)
            Loop(f) == [i \in 0 .. N |->
                          IF i = 0 THEN Running(out0, No, No)
                          ELSE Turn(line, f[i - 1], i)]
            w == [i \in 0 .. N |-> State(i)]
            g == CHOOSE f : f = Loop(f)
<1>1. /\ stream \in Seq(Byte) /\ d \in Seq(Byte)
      /\ Len(stream) \in Nat /\ Len(d) \in Nat /\ p \in Nat /\ q \in Nat /\ n \in Nat
      /\ p <= q /\ q <= Len(stream)
      /\ cnt \in [0 .. Len(stream) -> 0 .. Len(d)]
      /\ esc \in [0 .. Len(stream) -> BOOLEAN]
  BY LenProperties DEF ReadsAs
<1>2. /\ N = n + 2
      /\ \A i \in 1 .. n : line[i] = stream[p + i]
      /\ line[n + 1] \in Yenc!Framing /\ line[n + 2] \in Yenc!Framing
  <2>. DEFINE piece == SubSeq(stream, p + 1, q)
              last == Yenc!LineEnd
  <2>1. piece \in Seq(Byte) /\ Len(piece) = n /\ \A i \in 1 .. n : piece[i] = stream[p + i]
    BY <1>1
  <2>2. last \in Seq(Byte) /\ Len(last) = 2 /\ last[1] \in Yenc!Framing /\ last[2] \in Yenc!Framing
    BY LineEndFacts
  <2>. HIDE DEF piece, last
  <2>3. line = piece \o last
    BY DEF piece, last, Holding
  <2>. HIDE DEF n
  <2>4. /\ Len(line) = n + 2
        /\ \A i \in 1 .. n + 2 : line[i] = IF i <= n THEN piece[i] ELSE last[i - n]
    <3>1. /\ Len(piece \o last) = Len(piece) + Len(last)
          /\ \A i \in 1 .. Len(piece) + Len(last) :
               (piece \o last)[i] = IF i <= Len(piece) THEN piece[i] ELSE last[i - Len(piece)]
      BY <2>1, <2>2, ConcatProperties, Zenon
    <3>. QED
      BY <2>1, <2>2, <2>3, <3>1
  <2>5. line[n + 1] = last[1] /\ line[n + 2] = last[2]
    <3>1. /\ n + 1 \in 1 .. n + 2 /\ ~(n + 1 <= n) /\ (n + 1) - n = 1
          /\ n + 2 \in 1 .. n + 2 /\ ~(n + 2 <= n) /\ (n + 2) - n = 2
      BY <1>1
    <3>. QED
      BY <2>4, <3>1
  <2>6. \A i \in 1 .. n : line[i] = piece[i]
    <3>1. \A i \in 1 .. n : i \in 1 .. n + 2 /\ i <= n
      BY <1>1
    <3>. QED
      BY <2>4, <3>1
  <2>. QED
    BY <2>1, <2>2, <2>4, <2>5, <2>6
<1>3. Yenc!DecodeBytes(line, out0) = g[N]
  BY Zenon DEF Yenc!DecodeBytes, Running, Turn, No
<1>. HIDE DEF N
<1>5. ASSUME NEW i \in 1 .. N  PROVE State(i) = Turn(line, State(i - 1), i)
  <2>1. CASE i <= n
    <3>. DEFINE j == p + i
                c == cnt[j - 1]
    <3>1. /\ i \in 1 .. n /\ j \in 1 .. Len(stream) /\ j \in 0 .. Len(stream) /\ j - 1 \in 0 .. Len(stream)
          /\ p + (i - 1) = j - 1 /\ i - 1 < n /\ line[i] = stream[j] /\ (i < n \/ i = n) /\ p + n = q
      <4>1. i \in Nat /\ 1 <= i /\ i <= n /\ n = q - p
        BY <1>1, <1>2, <2>1
      <4>2. i \in 1 .. n /\ i - 1 < n /\ (i < n \/ i = n)
        BY <1>1, <4>1
      <4>3. j \in 1 .. Len(stream) /\ j \in 0 .. Len(stream) /\ j - 1 \in 0 .. Len(stream)
        BY <1>1, <4>1
      <4>4. p + (i - 1) = j - 1 /\ p + n = q
        BY <1>1, <4>1
      <4>5. line[i] = stream[j]
        BY <1>2, <4>2
      <4>. QED
        BY <4>2, <4>3, <4>4, <4>5
    <3>2. /\ line[i] \notin Yenc!Framing /\ c \in Nat /\ esc[j] \in BOOLEAN /\ esc[j - 1] \in BOOLEAN
          /\ cnt[j] \in Nat /\ cnt[j] <= Len(d)
      <4>1. cnt[j] \in 0 .. Len(d) /\ cnt[j - 1] \in 0 .. Len(d)
        BY <1>1, <3>1
      <4>2. esc[j] \in BOOLEAN /\ esc[j - 1] \in BOOLEAN
        BY <1>1, <3>1
      <4>3. stream[j] \notin Yenc!Framing
        BY <3>1 DEF ReadsAs
      <4>. QED
        BY <1>1, <3>1, <4>1, <4>2, <4>3
    <3>3. State(i - 1) = IF esc[j - 1] THEN Running(SubSeq(d, 1, c + 1), No, Yes)
                         ELSE Running(SubSeq(d, 1, c), No, No)
      BY <3>1
    <3>4. ASSUME ~esc[j]  PROVE State(i) = Running(SubSeq(d, 1, cnt[j]), No, No)
      <4>1. CASE i < n
        BY <3>4, <4>1
      <4>2. CASE i = n
        <5>1. j = q /\ ~(i < n)
          BY <1>1, <3>1, <4>2
        <5>2. esc[q] = No
          BY <3>2, <3>4, <5>1 DEF No
        <5>. QED
          BY <5>1, <5>2
      <4>. QED
        BY <3>1, <4>1, <4>2
    <3>. HIDE DEF State
    <3>5. CASE esc[j - 1] /\ ~esc[j] /\ cnt[j] = c + 1
      <4>1. State(i - 1) = Running(SubSeq(d, 1, c + 1), No, Yes)
        BY <3>3, <3>5
      <4>2. State(i) = Running(SubSeq(d, 1, c + 1), No, No)
        BY <3>4, <3>5
      <4>3. Turn(line, Running(SubSeq(d, 1, c + 1), No, Yes), i) = Running(SubSeq(d, 1, c + 1), No, No)
        BY TurnSkips, Zenon
      <4>. QED
        BY <4>1, <4>2, <4>3, Zenon
    <3>6. CASE ~esc[j - 1] /\ esc[j] /\ cnt[j] = c /\ stream[j] = Yenc!EQUALS
      <4>1. State(i - 1) = Running(SubSeq(d, 1, c), No, No)
        BY <3>3, <3>6
      <4>2. CASE i < n
        <5>1. /\ i + 1 \in 1 .. n /\ p + (i + 1) = j + 1 /\ j + 1 \in 1 .. Len(stream)
              /\ (j + 1) - 1 = j /\ i < N
          BY <1>1, <1>2, <3>1, <4>2
        <5>2. line[i + 1] = stream[j + 1] /\ stream[j + 1] \notin Yenc!Framing
          BY <1>2, <5>1 DEF ReadsAs
        <5>3. cnt[j + 1] = c + 1 /\ d[c + 1] = (stream[j + 1] - 106) % 256
          <6>1. \/ /\ esc[j] /\ cnt[j + 1] = cnt[j] + 1
                   /\ d[cnt[j + 1]] = (stream[j + 1] - 106) % 256
                \/ ~esc[j]
            BY <5>1 DEF ReadsAs
          <6>. QED
            BY <3>6, <6>1
        <5>4. c + 1 <= Len(d)
          <6>1. j + 1 \in 0 .. Len(stream)
            BY <1>1, <5>1
          <6>2. cnt[j + 1] \in 0 .. Len(d)
            BY <1>1, <6>1, Zenon
          <6>. QED
            BY <1>1, <3>2, <5>3, <6>2
        <5>5. SubSeq(d, 1, c + 1) = Append(SubSeq(d, 1, c), d[c + 1])
          <6>. HIDE DEF c
          <6>. QED
            BY <1>1, <3>2, <5>4, PrefixMore
        <5>6. State(i) = Running(SubSeq(d, 1, c + 1), No, Yes)
          BY <3>6, <4>2 DEF State
        <5>7. Turn(line, Running(SubSeq(d, 1, c), No, No), i) =
                Running(Append(SubSeq(d, 1, c), (line[i + 1] - 106) % 256), No, Yes)
          <6>1. line[i] = Yenc!EQUALS /\ i < Len(line) /\ line[i + 1] \notin Yenc!Framing
            BY <3>1, <3>6, <5>1, <5>2 DEF N
          <6>2. line[i] \notin Yenc!Framing
            BY <3>2
          <6>. DEFINE o == SubSeq(d, 1, c)
          <6>. HIDE DEF c, o
          <6>3. Turn(line, Running(o, No, No), i) = Running(Append(o, (line[i + 1] - 106) % 256), No, Yes)
            BY <6>1, <6>2, TurnReadsPair
          <6>. QED
            BY <6>3, Zenon DEF o
        <5>. QED
          BY <4>1, <5>2, <5>3, <5>5, <5>6, <5>7, Zenon
      <4>3. CASE ~(i < n)
        <5>1. i = n /\ j = q /\ line[i + 1] \in Yenc!Framing
          <6>1. i = n
            BY <3>1, <4>3
          <6>. QED
            BY <1>2, <3>1, <6>1
        <5>2. esc[q] = Yes
          BY <3>2, <3>6, <5>1 DEF Yes
        <5>3. State(i) = Running(SubSeq(d, 1, c), Yes, No)
          BY <3>6, <4>3, <5>1, <5>2 DEF State
        <5>4. Turn(line, Running(SubSeq(d, 1, c), No, No), i) = Running(SubSeq(d, 1, c), Yes, No)
          <6>1. line[i] \notin Yenc!Framing /\ line[i] = Yenc!EQUALS
            BY <3>1, <3>2, <3>6
          <6>. QED
            BY <5>1, <6>1, TurnOpens, Zenon
        <5>. QED
          BY <4>1, <5>3, <5>4, Zenon
      <4>. QED
        BY <4>2, <4>3
    <3>7. CASE /\ ~esc[j - 1] /\ ~esc[j] /\ cnt[j] = c + 1
               /\ stream[j] # Yenc!EQUALS /\ d[cnt[j]] = (stream[j] - 42) % 256
      <4>1. State(i - 1) = Running(SubSeq(d, 1, c), No, No)
        BY <3>3, <3>7
      <4>2. State(i) = Running(SubSeq(d, 1, c + 1), No, No)
        BY <3>4, <3>7
      <4>3. SubSeq(d, 1, c + 1) = Append(SubSeq(d, 1, c), d[c + 1])
        <5>1. c + 1 <= Len(d)
          BY <3>2, <3>7
        <5>. HIDE DEF c
        <5>. QED
          BY <1>1, <3>2, <5>1, PrefixMore
      <4>4. Turn(line, Running(SubSeq(d, 1, c), No, No), i) =
              Running(Append(SubSeq(d, 1, c), (line[i] - 42) % 256), No, No)
        <5>1. line[i] # Yenc!EQUALS /\ line[i] \notin Yenc!Framing
          BY <3>1, <3>2, <3>7
        <5>. DEFINE o == SubSeq(d, 1, c)
        <5>. HIDE DEF c, o
        <5>2. Turn(line, Running(o, No, No), i) = Running(Append(o, (line[i] - 42) % 256), No, No)
          BY <5>1, TurnReads
        <5>. QED
          BY <5>2, Zenon DEF o
      <4>5. d[c + 1] = (line[i] - 42) % 256
        BY <3>1, <3>7
      <4>. QED
        BY <4>1, <4>2, <4>3, <4>4, <4>5, Zenon
    <3>8. \/ esc[j - 1] /\ ~esc[j] /\ cnt[j] = c + 1
          \/ ~esc[j - 1] /\ esc[j] /\ cnt[j] = c /\ stream[j] = Yenc!EQUALS
          \/ /\ ~esc[j - 1] /\ ~esc[j] /\ cnt[j] = c + 1
             /\ stream[j] # Yenc!EQUALS /\ d[cnt[j]] = (stream[j] - 42) % 256
      BY <3>1 DEF ReadsAs
    <3>. QED
      BY <3>5, <3>6, <3>7, <3>8
  <2>2. CASE ~(i <= n)
    <3>1. (i = n + 1 \/ i = n + 2) /\ ~(i - 1 < n) /\ ~(i < n)
      <4>1. i \in 1 .. n + 2 /\ ~(i <= n)
        BY <1>2, <2>2
      <4>. HIDE DEF n
      <4>. QED
        BY <1>1, <4>1
    <3>2. line[i] \in Yenc!Framing
      BY <1>2, <3>1
    <3>3. /\ State(i) = Running(SubSeq(d, 1, cnt[q]), esc[q], No)
          /\ State(i - 1) = Running(SubSeq(d, 1, cnt[q]), esc[q], No)
      BY <3>1
    <3>. HIDE DEF State
    <3>4. Turn(line, Running(SubSeq(d, 1, cnt[q]), esc[q], No), i) = Running(SubSeq(d, 1, cnt[q]), esc[q], No)
      BY <3>2, TurnDrops, Zenon
    <3>. QED
      BY <3>3, <3>4, Zenon
  <2>. QED
    BY <2>1, <2>2
<1>6. State(0) = Running(out0, No, No)
  <2>1. CASE 0 < n
    <3>1. p + 0 = p
      BY <1>1
    <3>. QED
      BY <2>1, <3>1
  <2>2. CASE ~(0 < n)
    <3>1. p = q /\ q \in 0 .. Len(stream)
      BY <1>1, <2>2
    <3>2. esc[q] \in BOOLEAN
      BY <1>1, <3>1, Zenon
    <3>3. esc[q] = No
      BY <3>1, <3>2 DEF No
    <3>. QED
      BY <2>2, <3>1, <3>3
  <2>. QED
    BY <2>1, <2>2
<1>7. State(N) = Running(SubSeq(d, 1, cnt[q]), esc[q], No)
  <2>1. ~(N < n)
    BY <1>1, <1>2
  <2>. QED
    BY <2>1
<1>8. N \in Nat
  BY <1>1, <1>2
<1>. HIDE DEF State
<1>9. w = Loop(w)
  <2>1. ASSUME NEW i \in 0 .. N
        PROVE  w[i] = IF i = 0 THEN Running(out0, No, No)
                      ELSE Turn(line, w[i - 1], i)
    <3>1. CASE i = 0
      <4>1. w[i] = State(i)
        BY Zenon
      <4>. QED
        BY <1>6, <3>1, <4>1, Zenon
    <3>2. CASE i # 0
      <4>1. i \in 1 .. N /\ i - 1 \in 0 .. N
        BY <1>8, <3>2
      <4>2. w[i] = State(i) /\ w[i - 1] = State(i - 1)
        BY <4>1, Zenon
      <4>. HIDE DEF w
      <4>. QED
        BY <1>5, <3>2, <4>1, <4>2
    <3>. QED
      BY <3>1, <3>2
  <2>2. w = [i \in 0 .. N |-> w[i]]
    BY Zenon
  <2>. HIDE DEF w, out0
  <2>. QED
    BY <2>1, <2>2
<1>10. g = Loop(g)
  <2>. HIDE DEF w, Loop
  <2>. QED
    BY <1>9, Zenon
<1>11. /\ g[0] = Running(out0, No, No)
       /\ \A i \in 1 .. N : g[i] = Turn(line, g[i - 1], i)
  <2>. HIDE DEF g
  <2>1. \A i \in 0 .. N : g[i] = IF i = 0 THEN Running(out0, No, No)
                                 ELSE Turn(line, g[i - 1], i)
    <3>. HIDE DEF out0
    <3>. QED
      BY <1>10, Zenon
  <2>2. 0 \in 0 .. N /\ \A i \in 1 .. N : i \in 0 .. N /\ i # 0
    BY <1>8
  <2>. QED
    BY <2>1, <2>2, Zenon
<1>. HIDE DEF g, Loop, w
<1>12. g[N] = State(N)
  <2>. DEFINE Good == {i \in 0 .. N : g[i] = State(i)}
  <2>1. 0 \in Good
    <3>1. g[0] = State(0)
      BY <1>6, <1>11, Zenon
    <3>2. 0 \in 0 .. N
      BY <1>8
    <3>. QED
      BY <3>1, <3>2, Zenon
  <2>2. ASSUME NEW i \in 1 .. N, i - 1 \in Good  PROVE i \in Good
    <3>1. g[i - 1] = State(i - 1) /\ i \in 0 .. N
      BY <1>8, <2>2
    <3>2. g[i] = State(i)
      BY <1>5, <1>11, <3>1, Zenon
    <3>. QED
      BY <3>1, <3>2
  <2>3. \A i \in 0 .. N : i \in Good
    <3>. HIDE DEF Good
    <3>. QED
      BY <1>8, <2>1, <2>2, UpTo
  <2>4. N \in 0 .. N
    BY <1>8
  <2>. QED
    BY <2>3, <2>4, Zenon
<1>13. g[N].out = SubSeq(d, 1, cnt[q]) /\ g[N].pending = esc[q]
  <2>1. g[N] = Running(SubSeq(d, 1, cnt[q]), esc[q], No)
    BY <1>7, <1>12, Zenon
  <2>. DEFINE r == g[N]
              o == SubSeq(d, 1, cnt[q])
              e == esc[q]
  <2>2. r = Running(o, e, No)
    BY <2>1, Zenon
  <2>. HIDE DEF r, o, e
  <2>3. r.out = o /\ r.pending = e
    BY <2>2, RunningFields
  <2>. QED
    BY <2>3, Zenon DEF r, o, e
<1>. QED
  BY <1>3, <1>13, Zenon

\* A whole line, whether or not the line before it ended inside an escape
\* (decode.rs:216-299).
LEMMA LineReadsBack ==
  ASSUME NEW stream, NEW d, NEW cnt, NEW esc, ReadsAs(stream, d, cnt, esc),
         NEW p \in 0 .. Len(stream), NEW q \in p + 1 .. Len(stream),
         NEW raw, Yenc!StripDot(raw) = Holding(stream, p, q)
  PROVE  LET result == Yenc!DecodeLine(raw, SubSeq(d, 1, cnt[p]), esc[p])
         IN  result.out = SubSeq(d, 1, cnt[q]) /\ result.pending = esc[q]
<1>. DEFINE line == Yenc!StripDot(raw)
            rest == Yenc!SkipFraming(line)
            out == SubSeq(d, 1, cnt[p])
<1>1. /\ stream \in Seq(Byte) /\ d \in Seq(Byte)
      /\ Len(stream) \in Nat /\ Len(d) \in Nat /\ p \in Nat /\ q \in Nat /\ p < q /\ q <= Len(stream)
      /\ cnt \in [0 .. Len(stream) -> 0 .. Len(d)]
      /\ esc \in [0 .. Len(stream) -> BOOLEAN]
  BY LenProperties DEF ReadsAs
<1>2. line = Holding(stream, p, q)
  OBVIOUS
<1>. HIDE DEF line
<1>3. CASE ~esc[p]
  <2>1. q \in p .. Len(stream)
    BY <1>1
  <2>2. Yenc!DecodeLine(raw, out, esc[p]) = Yenc!DecodeBytes(line, out)
    BY <1>3 DEF Yenc!DecodeLine, line
  <2>3. LET result == Yenc!DecodeBytes(line, out)
        IN  result.out = SubSeq(d, 1, cnt[q]) /\ result.pending = esc[q]
    BY <1>2, <1>3, <2>1, BytesReadBack
  <2>. QED
    BY <2>2, <2>3, Zenon
<1>4. CASE esc[p]
  <2>1. /\ p + 1 \in 1 .. Len(stream) /\ p + 1 \in 0 .. Len(stream) /\ (p + 1) - 1 = p
        /\ q \in p + 1 .. Len(stream) /\ p + 1 \in p + 1 .. Len(stream)
    BY <1>1
  <2>2. /\ ~esc[p + 1] /\ cnt[p + 1] = cnt[p] + 1
        /\ d[cnt[p + 1]] = (stream[p + 1] - 106) % 256
    <3>1. \/ /\ esc[p] /\ ~esc[p + 1] /\ cnt[p + 1] = cnt[p] + 1
             /\ d[cnt[p + 1]] = (stream[p + 1] - 106) % 256
          \/ ~esc[p]
      BY <2>1 DEF ReadsAs
    <3>. QED
      BY <1>4, <3>1
  <2>. DEFINE tail == SubSeq(stream, p + 2, q) \o Yenc!LineEnd
  <2>3. SubSeq(stream, p + 1, q) = <<stream[p + 1]>> \o SubSeq(stream, p + 1 + 1, q)
    BY <1>1, <2>1, SubSeqRecursiveFirst
  <2>4. SubSeq(stream, p + 2, q) \in Seq(Byte) /\ <<stream[p + 1]>> \in Seq(Byte) /\ p + 1 + 1 = p + 2
        /\ stream[p + 1] \in Byte /\ stream[p + 1] \notin Yenc!Framing
    <3>1. stream[p + 1] \in Byte /\ stream[p + 1] \notin Yenc!Framing
      BY <2>1, ElementOfSeq DEF ReadsAs
    <3>2. \A i \in p + 2 .. q : stream[i] \in Byte
      BY <1>1, ElementOfSeq
    <3>3. p + 2 \in Int /\ q \in Int
      BY <1>1
    <3>4. SubSeq(stream, p + 2, q) \in Seq(Byte)
      <4>. DEFINE a == p + 2
      <4>1. a \in Int /\ \A i \in a .. q : stream[i] \in Byte
        BY <3>2, <3>3
      <4>. HIDE DEF a
      <4>2. SubSeq(stream, a, q) \in Seq(Byte)
        BY <3>3, <4>1, SubSeqProperties
      <4>. QED
        BY <4>2 DEF a
    <3>5. p + 1 + 1 = p + 2
      BY <1>1
    <3>. QED
      BY <3>1, <3>4, <3>5
  <2>5. tail \in Seq(Byte)
    BY <2>4, LineEndFacts, ConcatProperties
  <2>6. line = <<stream[p + 1]>> \o tail
    <3>1. SubSeq(stream, p + 1, q) = <<stream[p + 1]>> \o SubSeq(stream, p + 2, q)
      BY <2>3, <2>4
    <3>2. (<<stream[p + 1]>> \o SubSeq(stream, p + 2, q)) \o Yenc!LineEnd
            = <<stream[p + 1]>> \o (SubSeq(stream, p + 2, q) \o Yenc!LineEnd)
      <4>. DEFINE x == <<stream[p + 1]>>
                  y == SubSeq(stream, p + 2, q)
                  z == Yenc!LineEnd
      <4>1. x \in Seq(Byte) /\ y \in Seq(Byte) /\ z \in Seq(Byte)
        BY <2>4, LineEndFacts, Zenon
      <4>. HIDE DEF x, y, z
      <4>2. (x \o y) \o z = x \o (y \o z)
        BY <4>1, ConcatAssociative
      <4>. QED
        BY <4>2 DEF x, y, z
    <3>. QED
      BY <1>2, <3>1, <3>2, Zenon DEF Holding
  <2>. HIDE DEF tail
  <2>7. line \in Seq(Byte) /\ line[1] = stream[p + 1] /\ line # <<>> /\ Tail(line) = tail
        /\ Len(line) \in Nat /\ Len(line) # 0
    BY <2>4, <2>5, <2>6
  <2>8. rest = line
    <3>. DEFINE I == {i \in 1 .. Len(line) : line[i] \notin Yenc!Framing}
    <3>1. 1 \in I /\ I \in SUBSET Nat /\ \A y \in I : 1 <= y
      BY <2>4, <2>7
    <3>. HIDE DEF I
    <3>2. Min(I) = 1 /\ I # {}
      BY <3>1, MinUnique
    <3>4. rest = SubSeq(line, 1, Len(line))
      <4>1. Yenc!SelectInSeq(line, LAMBDA b : b \notin Yenc!Framing) = 1
        BY <3>2, Zenon DEF Yenc!SelectInSeq, I, Yenc!Min, Min
      <4>2. 1 # 0
        OBVIOUS
      <4>. QED
        BY <4>1, <4>2, Zenon DEF Yenc!SkipFraming
    <3>. QED
      BY <2>7, <3>4, SubSeqFull
  <2>9. Yenc!DecodeLine(raw, out, esc[p]) = Yenc!DecodeBytes(tail, Append(out, (stream[p + 1] - 106) % 256))
    <3>1. Yenc!DecodeLine(raw, out, esc[p]) = Yenc!DecodeBytes(Tail(rest), Append(out, (rest[1] - 106) % 256))
      <4>. HIDE DEF out
      <4>. QED
        BY <1>4, <2>7, <2>8 DEF Yenc!DecodeLine, line
    <3>. QED
      BY <2>7, <2>8, <3>1
  <2>10. SubSeq(d, 1, cnt[p + 1]) = Append(out, (stream[p + 1] - 106) % 256)
    <3>1. cnt[p] \in Nat /\ cnt[p] + 1 <= Len(d)
      <4>1. cnt[p] \in 0 .. Len(d) /\ cnt[p + 1] \in 0 .. Len(d)
        BY <1>1, <2>1
      <4>. QED
        BY <1>1, <2>2, <4>1
    <3>2. SubSeq(d, 1, cnt[p] + 1) = Append(SubSeq(d, 1, cnt[p]), d[cnt[p] + 1])
      BY <1>1, <3>1, PrefixMore
    <3>. QED
      BY <2>2, <3>2
  <2>11. tail = Holding(stream, p + 1, q)
    BY <2>4 DEF tail, Holding
  <2>. HIDE DEF out
  <2>12. LET result == Yenc!DecodeBytes(tail, SubSeq(d, 1, cnt[p + 1]))
         IN  result.out = SubSeq(d, 1, cnt[q]) /\ result.pending = esc[q]
    BY <2>1, <2>2, <2>11, BytesReadBack
  <2>. QED
    BY <2>9, <2>10, <2>12 DEF out
<1>. QED
  BY <1>1, <1>3, <1>4

-----------------------------------------------------------------------------
(* yEnc: what the transport makes of the lines.                            *)

\* decode_line's dot-stripping undoes the stuffing (decode.rs:216-226).
LEMMA StuffingUndone ==
  ASSUME NEW line \in Seq(Byte), Len(line) >= 2
  PROVE  Yenc!StripDot(Yenc!Stuff(line)) = line /\ Yenc!Stuff(line) \in Seq(Byte)
<1>1. Len(line) \in Nat /\ <<Yenc!DOT>> \in Seq(Byte)
  BY DEF Yenc!DOT, Byte
<1>2. CASE line[1] = Yenc!DOT
  <2>. DEFINE longer == <<Yenc!DOT>> \o line
  <2>1. /\ longer \in Seq(Byte) /\ Len(longer) = 1 + Len(line)
        /\ longer[1] = Yenc!DOT /\ longer[2] = line[1] /\ Tail(longer) = line
    BY <1>1
  <2>2. Yenc!Stuff(line) = longer
    BY <1>2 DEF Yenc!Stuff
  <2>. HIDE DEF longer
  <2>3. Len(longer) >= 2
    BY <1>1, <2>1
  <2>. QED
    BY <1>2, <2>1, <2>2, <2>3 DEF Yenc!StripDot
<1>3. CASE line[1] # Yenc!DOT
  BY <1>3 DEF Yenc!Stuff, Yenc!StripDot
<1>. QED
  BY <1>2, <1>3

\* The lines as decode_line sees them.
Received == [i \in DOMAIN lines |-> Yenc!StripDot(lines[i])]

\* Where a line comes from.
LEMMA CutPlace ==
  ASSUME NEW ls, NEW stream, NEW pos, CutAs(ls, stream, pos), NEW i \in 1 .. Len(ls)
  PROVE  /\ pos[i - 1] \in 0 .. pos[i] /\ pos[i] \in 0 .. Len(stream) /\ pos[i - 1] < pos[i]
         /\ ls[i] = Holding(stream, pos[i - 1], pos[i])
<1>1. /\ stream \in Seq(Byte) /\ Len(stream) \in Nat /\ Len(ls) \in Nat
      /\ pos \in [0 .. Len(ls) -> 0 .. Len(stream)]
      /\ pos[i - 1] < pos[i]
  BY LenProperties DEF CutAs
<1>2. ls[i] = Holding(stream, pos[i - 1], pos[i])
  BY DEF CutAs, Holding
<1>3. i - 1 \in 0 .. Len(ls) /\ i \in 0 .. Len(ls)
  BY <1>1
<1>4. pos[i - 1] \in 0 .. Len(stream) /\ pos[i] \in 0 .. Len(stream)
  BY <1>1, <1>3
<1>. QED
  BY <1>1, <1>2, <1>4

\* The stream from a to b in a line of its own.
LEMMA HoldingFacts ==
  ASSUME NEW stream \in Seq(Byte), NEW a \in 0 .. Len(stream), NEW b \in 0 .. Len(stream), a < b
  PROVE  LET piece == SubSeq(stream, a + 1, b)
             line == Holding(stream, a, b)
         IN  /\ piece \in Seq(Byte) /\ piece # <<>> /\ Len(piece) = b - a
             /\ line = piece \o Yenc!LineEnd
             /\ line \in Seq(Byte) /\ Len(line) >= 2
             /\ line[1] = piece[1] /\ Yenc!Payload(line) = piece
<1>. DEFINE piece == SubSeq(stream, a + 1, b)
            last == Yenc!LineEnd
            line == Holding(stream, a, b)
<1>1. line = piece \o last
  BY DEF Holding
<1>2. piece \in Seq(Byte) /\ Len(piece) = b - a
  BY LenProperties
<1>3. last \in Seq(Byte) /\ Len(last) = 2
  BY LineEndFacts
<1>4. Len(piece) \in Nat /\ Len(piece) # 0 /\ b - a \in Nat
  BY <1>2, LenProperties
<1>. HIDE DEF piece, last, line
<1>5. piece # <<>> /\ 1 \in 1 .. Len(piece) + Len(last) /\ 1 <= Len(piece) /\ Len(piece) + Len(last) >= 2
  <2>1. piece # <<>>
    BY <1>2, <1>4, EmptySeq
  <2>. QED
    BY <1>3, <1>4, <2>1
<1>6. /\ piece \o last \in Seq(Byte) /\ Len(piece \o last) = Len(piece) + Len(last)
      /\ \A k \in 1 .. Len(piece) + Len(last) :
           (piece \o last)[k] = IF k <= Len(piece) THEN piece[k] ELSE last[k - Len(piece)]
  BY <1>2, <1>3, ConcatProperties, Zenon
<1>7. (piece \o last)[1] = piece[1]
  BY <1>5, <1>6, Zenon
<1>8. Yenc!Payload(piece \o last) = piece
  BY <1>2, <1>5, PayloadOfWritten DEF last
<1>9. Len(line) >= 2 /\ line \in Seq(Byte) /\ line[1] = piece[1] /\ Yenc!Payload(line) = piece
  BY <1>1, <1>5, <1>6, <1>7, <1>8, Zenon
<1>. QED
  BY <1>1, <1>2, <1>5, <1>9 DEF piece, last, line

LEMMA CutFacts ==
  ASSUME NEW ls, NEW stream, NEW pos, CutAs(ls, stream, pos), NEW i \in 1 .. Len(ls)
  PROVE  LET piece == SubSeq(stream, pos[i - 1] + 1, pos[i])
         IN  /\ pos[i - 1] \in 0 .. pos[i] /\ pos[i] \in 0 .. Len(stream) /\ pos[i - 1] < pos[i]
             /\ piece \in Seq(Byte) /\ piece # <<>> /\ Len(piece) = pos[i] - pos[i - 1]
             /\ ls[i] = piece \o Yenc!LineEnd
             /\ ls[i] \in Seq(Byte) /\ Len(ls[i]) >= 2
             /\ ls[i][1] = piece[1] /\ Yenc!Payload(ls[i]) = piece
<1>. DEFINE a == pos[i - 1]
            b == pos[i]
<1>1. a \in 0 .. b /\ b \in 0 .. Len(stream) /\ a < b /\ ls[i] = Holding(stream, a, b)
  BY CutPlace
<1>2. stream \in Seq(Byte) /\ a \in 0 .. Len(stream)
  <2>1. stream \in Seq(Byte) /\ Len(stream) \in Nat
    BY LenProperties DEF CutAs
  <2>. QED
    BY <1>1, <2>1
<1>. HIDE DEF a, b
<1>3. LET piece == SubSeq(stream, a + 1, b)
          line == Holding(stream, a, b)
      IN  /\ piece \in Seq(Byte) /\ piece # <<>> /\ Len(piece) = b - a
          /\ line = piece \o Yenc!LineEnd
          /\ line \in Seq(Byte) /\ Len(line) >= 2
          /\ line[1] = piece[1] /\ Yenc!Payload(line) = piece
  BY <1>1, <1>2, HoldingFacts
<1>. QED
  BY <1>1, <1>3, Zenon DEF a, b

\* Where the whole stream is cut, the last line ends it.
LEMMA CutWhole ==
  ASSUME NEW ls, NEW stream, Cut(ls, stream, <<>>)
  PROVE  \E pos : CutAs(ls, stream, pos) /\ pos[Len(ls)] = Len(stream)
<1>1. PICK pos : CutAs(ls, stream, pos) /\ <<>> = SubSeq(stream, pos[Len(ls)] + 1, Len(stream))
  BY DEF Cut
<1>. DEFINE p == pos[Len(ls)]
            n == Len(stream)
<1>2. stream \in Seq(Byte) /\ n \in Nat /\ p \in 0 .. n
  BY <1>1, LenProperties DEF CutAs
<1>3. <<>> = SubSeq(stream, p + 1, n)
  BY <1>1
<1>. HIDE DEF p
<1>4. Len(SubSeq(stream, p + 1, n)) = n - p
  BY <1>2
<1>5. p = n
  <2>1. n - p = 0
    BY <1>3, <1>4
  <2>. QED
    BY <1>2, <2>1
<1>. QED
  BY <1>1, <1>5 DEF p

\* Whatever arrives holds the stream, if decode_line sees pieces of it.
LEMMA Arrives ==
  ASSUME NEW ls, NEW stream, NEW pos, CutAs(ls, stream, pos),
         NEW carried, carried = [i \in 1 .. Len(ls) |-> carried[i]],
         \A i \in 1 .. Len(ls) : Yenc!StripDot(carried[i]) = ls[i]
  PROVE  CutAs([i \in DOMAIN carried |-> Yenc!StripDot(carried[i])], stream, pos)
         /\ DOMAIN carried = 1 .. Len(ls) /\ Len(carried) = Len(ls)
<1>. DEFINE S == Seq(Byte)
            seen == [i \in DOMAIN carried |-> Yenc!StripDot(carried[i])]
<1>1. ls \in Seq(S) /\ Len(ls) \in Nat
  BY LenProperties DEF CutAs
<1>2. DOMAIN carried = 1 .. Len(ls)
  BY Zenon
<1>3. Len(carried) = Len(ls)
  <2>1. Len([i \in 1 .. Len(ls) |-> carried[i]]) = Len(ls)
    BY <1>1
  <2>. QED
    BY <2>1, Zenon
<1>4. seen = ls
  <2>. HIDE DEF S
  <2>1. ls = [i \in 1 .. Len(ls) |-> ls[i]]
    BY <1>1
  <2>2. seen = [i \in 1 .. Len(ls) |-> Yenc!StripDot(carried[i])]
    BY <1>2
  <2>. QED
    BY <2>1, <2>2
<1>. QED
  BY <1>2, <1>3, <1>4

\* Slices of the given width reach exactly the end of the stream.
LEMMA SliceBounds ==
  ASSUME NEW length \in Nat, NEW width \in Nat \ {0}
  PROVE  LET count == (length + width - 1) \div width
         IN  /\ count \in Nat
             /\ count * width >= length
             /\ \A i \in 1 .. count : (i - 1) * width < length
<1>. DEFINE a == length + width - 1
            count == a \div width
<1>1. a \in Nat /\ width \in Nat /\ width > 0
  OBVIOUS
<1>. HIDE DEF a
<1>2. count \in Nat /\ count * width <= a /\ a < count * width + width
  BY <1>1
<1>. HIDE DEF count
<1>3. count * width \in Nat
  BY <1>1, <1>2
<1>4. count * width >= length
  BY <1>1, <1>2, <1>3 DEF a
<1>5. ASSUME NEW i \in 1 .. count  PROVE (i - 1) * width < length
  <2>1. count - i \in Nat /\ i \in Nat /\ count \in Nat
    BY <1>2
  <2>2. (count - i) * width \in Nat /\ i * width \in Nat
    BY <1>1, <2>1
  <2>3. (count - i) * width = count * width - i * width /\ (i - 1) * width = i * width - width
    BY <1>1, <1>2, <2>1
  <2>4. i * width <= count * width
    BY <1>3, <2>2, <2>3
  <2>5. i * width <= length + width - 1
    BY <1>1, <1>2, <1>3, <2>2, <2>4 DEF a
  <2>. QED
    BY <1>1, <2>2, <2>3, <2>5
<1>. QED
  BY <1>2, <1>4, <1>5 DEF count, a

LEMMA SlicesAreCut ==
  ASSUME NEW stream, Cut(lines, stream, <<>>), NEW width \in Nat \ {0}
  PROVE  LET sliced == Yenc!Slices(width)
         IN  /\ sliced \in Seq(Seq(Byte))
             /\ \E pos : CutAs(sliced, stream, pos) /\ pos[Len(sliced)] = Len(stream)
<1>. DEFINE payloads == [i \in DOMAIN lines |-> Yenc!Payload(lines[i])]
            L == Len(stream)
            count == (L + width - 1) \div width
            To(i) == IF i * width <= L THEN i * width ELSE L
            sliced == [i \in 1 .. count |-> SubSeq(stream, (i - 1) * width + 1, To(i)) \o Yenc!LineEnd]
            S == Seq(Byte)
<1>1. PICK at : CutAs(lines, stream, at) /\ at[Len(lines)] = L
  BY CutWhole
<1>2. lines \in Seq(S) /\ stream \in Seq(Byte) /\ L \in Nat /\ Len(lines) \in Nat /\ at[0] = 0
      /\ DOMAIN lines = 1 .. Len(lines)
  BY <1>1, LenProperties DEF CutAs
<1>3. FlattenSeq(payloads) = stream
  <2>1. ASSUME NEW i \in 1 .. Len(lines)
        PROVE  /\ at[i - 1] \in 0 .. at[i] /\ at[i] \in 0 .. L
               /\ payloads[i] = SubSeq(stream, at[i - 1] + 1, at[i])
               /\ payloads[i] \in S
    <3>1. payloads[i] = Yenc!Payload(lines[i])
      BY <1>2
    <3>. DEFINE a == at[i - 1]
                b == at[i]
    <3>2. a \in 0 .. b /\ b \in 0 .. L /\ a < b /\ lines[i] = Holding(stream, a, b)
      BY <1>1, CutPlace
    <3>3. a \in 0 .. Len(stream)
      BY <1>2, <3>2
    <3>. HIDE DEF payloads, a, b
    <3>4. SubSeq(stream, a + 1, b) \in S /\ Yenc!Payload(Holding(stream, a, b)) = SubSeq(stream, a + 1, b)
      BY <1>2, <3>2, <3>3, HoldingFacts
    <3>. QED
      BY <3>1, <3>2, <3>4, Zenon DEF a, b
  <2>2. payloads \in Seq(S) /\ Len(payloads) = Len(lines)
    <3>1. payloads = [i \in 1 .. Len(lines) |-> payloads[i]]
      BY <1>2
    <3>. HIDE DEF payloads, S
    <3>. QED
      BY <1>2, <2>1, <3>1
  <2>. HIDE DEF payloads
  <2>. QED
    BY <1>1, <1>2, <2>1, <2>2, FlattenOfCut
<1>4. Yenc!Slices(width) = sliced
  <2>1. Yenc!FlattenSeq(payloads) = FlattenSeq(payloads)
    BY Zenon DEF Yenc!FlattenSeq, FlattenSeq
  <2>2. Yenc!FlattenSeq(payloads) = stream
    BY <1>3, <2>1, Zenon
  <2>. QED
    BY <2>2, Zenon DEF Yenc!Slices
<1>5. /\ count \in Nat /\ count * width >= L
      /\ \A i \in 1 .. count : (i - 1) * width < L
  BY <1>2, SliceBounds
<1>. HIDE DEF count
<1>6. ASSUME NEW i \in 0 .. count
      PROVE  /\ i * width \in Nat /\ To(i) \in 0 .. L
             /\ (i # 0 => i - 1 \in 0 .. count /\ To(i - 1) = (i - 1) * width /\ To(i - 1) < To(i))
  <2>1. i \in Nat /\ width \in Nat /\ width > 0
    BY <1>5
  <2>2. i * width \in Nat
    BY <2>1
  <2>3. To(i) \in 0 .. L
    BY <1>2, <2>2
  <2>4. ASSUME i # 0  PROVE i - 1 \in 0 .. count /\ To(i - 1) = (i - 1) * width /\ To(i - 1) < To(i)
    <3>1. i \in 1 .. count /\ i - 1 \in 0 .. count
      BY <1>5, <2>4
    <3>2. (i - 1) * width < L /\ (i - 1) * width = i * width - width
      BY <1>5, <2>1, <3>1
    <3>. QED
      BY <1>2, <2>1, <2>2, <3>1, <3>2
  <2>. QED
    BY <2>2, <2>3, <2>4
<1>7. To(0) = 0 /\ To(count) = L
  <2>1. 0 * width = 0 /\ count * width \in Nat
    BY <1>2, <1>5
  <2>. QED
    BY <1>2, <1>5, <2>1
<1>8. PICK pos : pos = [i \in 0 .. count |-> To(i)]
  OBVIOUS
<1>. HIDE DEF To
<1>9. ASSUME NEW i \in 1 .. count
      PROVE  /\ pos[i - 1] < pos[i]
             /\ sliced[i] = SubSeq(stream, pos[i - 1] + 1, pos[i]) \o Yenc!LineEnd
             /\ sliced[i] \in S
  <2>1. i \in 0 .. count /\ i # 0
    BY <1>5
  <2>2. i - 1 \in 0 .. count /\ To(i - 1) = (i - 1) * width /\ To(i - 1) < To(i) /\ To(i) \in 0 .. L /\ To(i - 1) \in 0 .. L
    BY <1>6, <2>1
  <2>3. pos[i] = To(i) /\ pos[i - 1] = To(i - 1)
    BY <1>8, <2>1, <2>2
  <2>4. sliced[i] = SubSeq(stream, (i - 1) * width + 1, To(i)) \o Yenc!LineEnd
    OBVIOUS
  <2>. HIDE DEF sliced
  <2>5. sliced[i] = SubSeq(stream, To(i - 1) + 1, To(i)) \o Yenc!LineEnd
    BY <2>2, <2>4
  <2>6. ASSUME NEW x \in 0 .. L, NEW y \in 0 .. L  PROVE SubSeq(stream, x + 1, y) \in Seq(Byte)
    <3>1. \A j \in x + 1 .. y : stream[j] \in Byte
      BY <1>2, ElementOfSeq
    <3>2. x + 1 \in Int /\ y \in Int
      BY <1>2
    <3>. QED
      BY <3>1, <3>2, SubSeqProperties
  <2>7. SubSeq(stream, To(i - 1) + 1, To(i)) \in Seq(Byte)
    BY <2>2, <2>6
  <2>8. sliced[i] \in S
    BY <2>5, <2>7, LineEndFacts, ConcatProperties
  <2>. QED
    BY <2>2, <2>3, <2>5, <2>8
<1>10. sliced \in Seq(S) /\ Len(sliced) = count
  <2>1. sliced = [i \in 1 .. count |-> sliced[i]]
    OBVIOUS
  <2>. HIDE DEF sliced, S
  <2>. QED
    BY <1>5, <1>9, <2>1
<1>. HIDE DEF sliced
<1>11. pos \in [0 .. count -> 0 .. L] /\ pos[0] = 0 /\ pos[count] = L
  BY <1>5, <1>6, <1>7, <1>8
<1>12. CutAs(sliced, stream, pos)
  BY <1>2, <1>9, <1>10, <1>11 DEF CutAs, S
<1>. QED
  BY <1>4, <1>10, <1>11, <1>12 DEF S

-----------------------------------------------------------------------------
(* yEnc: the invariant of the way from the encoder to the decoder.         *)

YencRead ==
  /\ phase \in {"encode", "transport", "decode", "done"}
  /\ phase \in {"encode", "transport"} => decoded = <<>> /\ pending = FALSE
  /\ phase = "encode" =>
       /\ next <= Len(data) + 1
       /\ \E stream : Reads(stream, SubSeq(data, 1, next - 1)) /\ Cut(lines, stream, current)
  /\ phase = "transport" => \E stream : Reads(stream, data) /\ Cut(lines, stream, <<>>)
  /\ phase = "decode" =>
       /\ DOMAIN lines = 1 .. Len(lines) /\ Len(lines) \in Nat
       /\ next \in 1 .. Len(lines) + 1
       /\ \E stream, cnt, esc, pos :
            /\ ReadsAs(stream, data, cnt, esc)
            /\ CutAs(Received, stream, pos)
            /\ pos[Len(lines)] = Len(stream)
            /\ decoded = SubSeq(data, 1, cnt[pos[next - 1]])
            /\ pending = esc[pos[next - 1]]
  /\ phase = "done" => decoded = data /\ ~pending

LEMMA YencInitRead ==
  Yenc!Init => YencRead
<1>. SUFFICES ASSUME Yenc!Init  PROVE YencRead
  OBVIOUS
<1>1. /\ phase = "encode" /\ data \in Seq(Byte) /\ next = 1 /\ lines = <<>> /\ current = <<>>
      /\ decoded = <<>> /\ pending = FALSE
  BY YencAssumption DEF Yenc!Init, Byte
<1>2. next <= Len(data) + 1 /\ SubSeq(data, 1, next - 1) = <<>>
  <2>1. Len(data) \in Nat
    BY <1>1
  <2>. QED
    BY <1>1, <2>1, SubSeqEmpty
<1>3. PICK cnt, esc : cnt = [j \in 0 .. 0 |-> 0] /\ esc = [j \in 0 .. 0 |-> FALSE]
  OBVIOUS
<1>4. Len(<<>>) = 0 /\ <<>> \in Seq(Byte) /\ 0 .. 0 = {0} /\ 1 .. 0 = {}
  OBVIOUS
<1>5. ReadsAs(<<>>, <<>>, cnt, esc)
  BY <1>3, <1>4 DEF ReadsAs
<1>6. Cut(<<>>, <<>>, <<>>)
  <2>1. <<>> \in Seq(Seq(Byte))
    OBVIOUS
  <2>2. PICK pos : pos = [j \in 0 .. 0 |-> 0]
    OBVIOUS
  <2>3. CutAs(<<>>, <<>>, pos)
    BY <1>4, <2>1, <2>2 DEF CutAs
  <2>4. <<>> = SubSeq(<<>>, pos[Len(<<>>)] + 1, Len(<<>>))
    <3>1. pos[Len(<<>>)] + 1 = 1
      BY <1>4, <2>2
    <3>. QED
      BY <1>4, <3>1, SubSeqEmpty
  <2>. QED
    BY <2>3, <2>4 DEF Cut
<1>. QED
  BY <1>1, <1>2, <1>5, <1>6 DEF YencRead, Reads

LEMMA EncodeByteKeepsRead ==
  YencInv /\ YencRead /\ Yenc!EncodeByte => YencRead'
<1>. SUFFICES ASSUME YencInv, YencRead, Yenc!EncodeByte  PROVE YencRead'
  OBVIOUS
<1>. DEFINE e == Yenc!Encoded(data[next])
            col == Len(current)
            s == Symbol(e, col)
            d == SubSeq(data, 1, next - 1)
<1>1. /\ phase = "encode" /\ phase' = "encode" /\ data' = data
      /\ next' = next + 1 /\ next <= Len(data)
      /\ decoded' = decoded /\ pending' = pending
      /\ IF Yenc!FlushBefore(e)
         THEN Yenc!Emit(s, <<>>, Append(lines, current \o Yenc!LineEnd))
         ELSE Yenc!Emit(s, current, lines)
  BY DEF Yenc!EncodeByte, Symbol
<1>2. data \in Seq(Byte) /\ next \in Nat \ {0} /\ current \in Seq(Byte) /\ col \in Nat /\ Len(data) \in Nat
      /\ lineLength \in Nat /\ lineLength >= 2
  BY <1>1 DEF YencInv, Closed
<1>3. data[next] \in Byte
  BY <1>1, <1>2
<1>4. PICK stream : Reads(stream, d) /\ Cut(lines, stream, current)
  BY <1>1 DEF YencRead
<1>5. Reads(stream \o s, Append(d, data[next]))
  BY <1>2, <1>3, <1>4, SymbolReadsBack
<1>6. Append(d, data[next]) = SubSeq(data, 1, next' - 1)
  <2>1. next - 1 \in Nat /\ (next - 1) + 1 = next /\ (next - 1) + 1 <= Len(data) /\ next' - 1 = next
    BY <1>1, <1>2
  <2>2. SubSeq(data, 1, (next - 1) + 1) = Append(SubSeq(data, 1, next - 1), data[(next - 1) + 1])
    BY <1>2, <2>1, PrefixMore
  <2>. QED
    BY <2>1, <2>2
<1>7. s \in Seq(Byte) /\ Len(s) \in 1 .. 2
  <2>1. Addable(s, Yenc!MustEscape(e, col), col)
    BY <1>2, <1>3, SymbolIsAddable
  <2>. QED
    BY <2>1 DEF Addable
<1>. HIDE DEF e, s, d, col
<1>8. ASSUME NEW line \in Seq(Byte), NEW done, Cut(done, stream, line), Yenc!Emit(s, line, done)
      PROVE  Cut(lines', stream \o s, current')
  <2>. DEFINE longer == line \o s
  <2>1. Cut(done, stream \o s, longer)
    BY <1>7, <1>8, CutLonger
  <2>2. longer \in Seq(Byte) /\ Len(longer) = Len(line) + Len(s) /\ Len(line) \in Nat
    BY <1>7
  <2>. HIDE DEF longer
  <2>3. longer # <<>>
    BY <1>7, <2>2
  <2>4. CASE Len(longer) >= lineLength
    <3>1. lines' = Append(done, longer \o Yenc!LineEnd) /\ current' = <<>>
      BY <1>8, <2>4 DEF Yenc!Emit, longer
    <3>. QED
      BY <2>1, <2>3, <3>1, CutMore
  <2>5. CASE ~(Len(longer) >= lineLength)
    <3>1. lines' = done /\ current' = longer
      BY <1>8, <2>5 DEF Yenc!Emit, longer
    <3>. QED
      BY <2>1, <3>1
  <2>. QED
    BY <2>4, <2>5
<1>9. Cut(lines', stream \o s, current')
  <2>1. CASE Yenc!FlushBefore(e)
    <3>1. current # <<>>
      <4>1. col + 2 > lineLength
        BY <2>1 DEF Yenc!FlushBefore, col
      <4>. QED
        BY <1>2, <4>1 DEF col
    <3>2. Cut(Append(lines, current \o Yenc!LineEnd), stream, <<>>)
      BY <1>4, <3>1, CutMore
    <3>3. <<>> \in Seq(Byte)
      OBVIOUS
    <3>. QED
      BY <1>1, <1>8, <2>1, <3>2, <3>3
  <2>2. CASE ~Yenc!FlushBefore(e)
    BY <1>1, <1>2, <1>4, <1>8, <2>2
  <2>. QED
    BY <2>1, <2>2
<1>10. next' <= Len(data') + 1
  BY <1>1, <1>2
<1>11. decoded = <<>> /\ pending = FALSE
  BY <1>1 DEF YencRead
<1>12. Reads(stream \o s, SubSeq(data', 1, next' - 1))
  BY <1>1, <1>5, <1>6
<1>. QED
  BY <1>1, <1>9, <1>10, <1>11, <1>12 DEF YencRead

LEMMA YencEndKeepsRead ==
  YencInv /\ YencRead /\ Yenc!EncodeEnd => YencRead'
<1>. SUFFICES ASSUME YencInv, YencRead, Yenc!EncodeEnd  PROVE YencRead'
  OBVIOUS
<1>1. /\ phase = "encode" /\ phase' = "transport" /\ data' = data /\ next > Len(data)
      /\ lines' = IF current = <<>> THEN lines ELSE Append(lines, current \o Yenc!LineEnd)
      /\ decoded' = decoded /\ pending' = pending
  BY DEF Yenc!EncodeEnd
<1>2. PICK stream : Reads(stream, SubSeq(data, 1, next - 1)) /\ Cut(lines, stream, current)
  BY <1>1 DEF YencRead
<1>3. SubSeq(data, 1, next - 1) = data
  <2>1. data \in Seq(Byte) /\ next \in Nat \ {0} /\ next <= Len(data) + 1 /\ Len(data) \in Nat
    BY <1>1 DEF YencInv, YencRead
  <2>2. next - 1 = Len(data)
    BY <1>1, <2>1
  <2>. QED
    BY <2>1, <2>2, SubSeqFull
<1>4. Cut(lines', stream, <<>>)
  <2>1. CASE current = <<>>
    BY <1>1, <1>2, <2>1
  <2>2. CASE current # <<>>
    BY <1>1, <1>2, <2>2, CutMore
  <2>. QED
    BY <2>1, <2>2
<1>5. decoded = <<>> /\ pending = FALSE
  BY <1>1 DEF YencRead
<1>6. Reads(stream, data')
  BY <1>1, <1>2, <1>3
<1>. QED
  BY <1>1, <1>4, <1>5, <1>6 DEF YencRead

LEMMA YencTransportKeepsRead ==
  YencInv /\ YencRead /\ Yenc!Transport => YencRead'
<1>. SUFFICES ASSUME YencInv, YencRead, Yenc!Transport  PROVE YencRead'
  OBVIOUS
<1>1. /\ phase = "transport" /\ phase' = "decode" /\ next' = 1 /\ data' = data
      /\ decoded' = decoded /\ pending' = pending
  BY DEF Yenc!Transport, Yenc!Carry
<1>2. decoded' = <<>> /\ pending' = FALSE
  BY <1>1 DEF YencRead
<1>3. PICK stream : Reads(stream, data) /\ Cut(lines, stream, <<>>)
  BY <1>1 DEF YencRead
<1>4. PICK cnt, esc : ReadsAs(stream, data, cnt, esc)
  BY <1>3 DEF Reads
<1>5. PICK whole : CutAs(lines, stream, whole) /\ whole[Len(lines)] = Len(stream)
  BY <1>3, CutWhole
<1>6. lines \in Seq(Seq(Byte)) /\ DOMAIN lines = 1 .. Len(lines) /\ Len(lines) \in Nat
  <2>. DEFINE S == Seq(Byte)
  <2>1. lines \in Seq(S)
    BY <1>5 DEF CutAs
  <2>. HIDE DEF S
  <2>2. DOMAIN lines = 1 .. Len(lines) /\ Len(lines) \in Nat
    BY <2>1, LenProperties
  <2>. QED
    BY <2>1, <2>2 DEF S
<1>7. ASSUME NEW ls, NEW pos, CutAs(ls, stream, pos), pos[Len(ls)] = Len(stream),
             lines' = [i \in 1 .. Len(ls) |-> lines'[i]],
             \A i \in 1 .. Len(ls) : Yenc!StripDot(lines'[i]) = ls[i]
      PROVE  YencRead'
  <2>1. /\ CutAs([i \in DOMAIN lines' |-> Yenc!StripDot(lines'[i])], stream, pos)
        /\ DOMAIN lines' = 1 .. Len(ls) /\ Len(lines') = Len(ls)
    BY <1>7, Arrives
  <2>2. CutAs(Received', stream, pos)
    BY <2>1 DEF Received
  <2>3. Len(ls) \in Nat
    BY <1>7, LenProperties DEF CutAs
  <2>4. pos[0] = 0 /\ cnt[0] = 0 /\ ~esc[0] /\ data \in Seq(Byte) /\ esc \in [0 .. Len(stream) -> BOOLEAN]
        /\ stream \in Seq(Byte)
    BY <1>4, <1>7 DEF CutAs, ReadsAs
  <2>5. next' - 1 = 0 /\ next' \in 1 .. Len(ls) + 1
    BY <1>1, <2>3
  <2>6. decoded' = SubSeq(data, 1, cnt[pos[next' - 1]])
    BY <1>2, <2>4, <2>5, SubSeqEmpty
  <2>7. pending' = esc[pos[next' - 1]]
    <3>1. 0 \in 0 .. Len(stream)
      BY <2>4
    <3>2. esc[0] = FALSE
      BY <2>4, <3>1
    <3>. QED
      BY <1>2, <2>4, <2>5, <3>2
  <2>8. ReadsAs(stream, data', cnt, esc) /\ decoded' = SubSeq(data', 1, cnt[pos[next' - 1]])
    BY <1>1, <1>4, <2>6
  <2>9. pos[Len(lines')] = Len(stream)
    BY <1>7, <2>1
  <2>10. /\ DOMAIN lines' = 1 .. Len(lines') /\ Len(lines') \in Nat
         /\ next' \in 1 .. Len(lines') + 1
    BY <2>1, <2>3, <2>5
  <2>. QED
    BY <1>1, <2>2, <2>7, <2>8, <2>9, <2>10 DEF YencRead
<1>8. CASE Yenc!Carry("as is", lines)
  <2>1. lines' = lines
    BY <1>8 DEF Yenc!Carry
  <2>2. ASSUME NEW i \in 1 .. Len(lines)  PROVE Yenc!StripDot(lines'[i]) = lines[i]
    <3>1. /\ lines[i][1] = SubSeq(stream, whole[i - 1] + 1, whole[i])[1]
          /\ Yenc!Payload(lines[i]) = SubSeq(stream, whole[i - 1] + 1, whole[i])
      BY <1>5, CutFacts
    <3>2. Yenc!Payload(lines[i])[1] \notin {Yenc!DOT, Yenc!TAB}
      BY <1>1, <1>6 DEF YencInv, Yenc!WireSafe
    <3>3. lines[i][1] # Yenc!DOT
      BY <3>1, <3>2
    <3>. QED
      BY <2>1, <3>3 DEF Yenc!StripDot
  <2>3. lines' = [i \in 1 .. Len(lines) |-> lines'[i]]
    BY <1>6, <2>1
  <2>. QED
    BY <1>5, <1>7, <2>2, <2>3
<1>9. ASSUME NEW ls, NEW pos, CutAs(ls, stream, pos), pos[Len(ls)] = Len(stream),
             lines' = [i \in 1 .. Len(ls) |-> Yenc!Stuff(ls[i])]
      PROVE  YencRead'
  <2>1. ASSUME NEW i \in 1 .. Len(ls)  PROVE Yenc!StripDot(lines'[i]) = ls[i]
    <3>1. lines'[i] = Yenc!Stuff(ls[i])
      BY <1>9
    <3>2. ls[i] \in Seq(Byte) /\ Len(ls[i]) >= 2
      BY <1>9, CutFacts
    <3>. QED
      BY <3>1, <3>2, StuffingUndone
  <2>2. lines' = [i \in 1 .. Len(ls) |-> lines'[i]]
    BY <1>9
  <2>. QED
    BY <1>7, <1>9, <2>1, <2>2
<1>10. CASE Yenc!Carry("stuffed", [i \in DOMAIN lines |-> Yenc!Stuff(lines[i])])
  <2>1. lines' = [i \in 1 .. Len(lines) |-> Yenc!Stuff(lines[i])]
    BY <1>6, <1>10 DEF Yenc!Carry
  <2>. QED
    BY <1>5, <1>9, <2>1
<1>11. CASE \E width \in SliceWidths :
              LET sliced == Yenc!Slices(width) IN
                Yenc!Carry("sliced", [i \in DOMAIN sliced |-> Yenc!Stuff(sliced[i])])
  <2>1. PICK width \in SliceWidths :
              LET sliced == Yenc!Slices(width) IN
                Yenc!Carry("sliced", [i \in DOMAIN sliced |-> Yenc!Stuff(sliced[i])])
    BY <1>11
  <2>. DEFINE sliced == Yenc!Slices(width)
              S == Seq(Byte)
  <2>2. width \in Nat \ {0}
    BY YencAssumption
  <2>3. sliced \in Seq(S) /\ \E pos : CutAs(sliced, stream, pos) /\ pos[Len(sliced)] = Len(stream)
    BY <1>3, <2>2, SlicesAreCut
  <2>4. lines' = [i \in DOMAIN sliced |-> Yenc!Stuff(sliced[i])]
    BY <2>1 DEF Yenc!Carry
  <2>. HIDE DEF sliced, S
  <2>5. DOMAIN sliced = 1 .. Len(sliced)
    BY <2>3, LenProperties
  <2>6. lines' = [i \in 1 .. Len(sliced) |-> Yenc!Stuff(sliced[i])]
    BY <2>4, <2>5
  <2>. QED
    BY <1>9, <2>3, <2>6
<1>. QED
  BY <1>8, <1>10, <1>11 DEF Yenc!Transport

LEMMA DecodeKeepsRead ==
  YencRead /\ Yenc!DecodeNextLine => YencRead'
<1>. SUFFICES ASSUME YencRead, Yenc!DecodeNextLine  PROVE YencRead'
  OBVIOUS
<1>. DEFINE result == Yenc!DecodeLine(lines[next], decoded, pending)
<1>1. /\ phase = "decode" /\ phase' = "decode" /\ data' = data /\ lines' = lines
      /\ next <= Len(lines) /\ next' = next + 1
      /\ decoded' = result.out /\ pending' = result.pending
  BY DEF Yenc!DecodeNextLine
<1>2. DOMAIN lines = 1 .. Len(lines) /\ Len(lines) \in Nat /\ next \in 1 .. Len(lines) + 1
  BY <1>1 DEF YencRead
<1>3. PICK stream, cnt, esc, pos :
        /\ ReadsAs(stream, data, cnt, esc)
        /\ CutAs(Received, stream, pos)
        /\ pos[Len(lines)] = Len(stream)
        /\ decoded = SubSeq(data, 1, cnt[pos[next - 1]])
        /\ pending = esc[pos[next - 1]]
  BY <1>1 DEF YencRead
<1>4. Len(Received) = Len(lines) /\ next \in 1 .. Len(lines)
  BY <1>1, <1>2 DEF Received
<1>. DEFINE p == pos[next - 1]
            q == pos[next]
<1>5. /\ p \in 0 .. q /\ q \in 0 .. Len(stream) /\ p < q
      /\ Received[next] = Holding(stream, p, q)
  <2>1. next \in 1 .. Len(Received) /\ CutAs(Received, stream, pos)
    BY <1>3, <1>4
  <2>. QED
    BY <2>1, CutPlace
<1>6. Yenc!StripDot(lines[next]) = Holding(stream, p, q)
  <2>1. Received[next] = Yenc!StripDot(lines[next])
    BY <1>2, <1>4 DEF Received
  <2>. QED
    BY <1>5, <2>1
<1>7. result.out = SubSeq(data, 1, cnt[q]) /\ result.pending = esc[q]
  <2>1. Len(stream) \in Nat
    BY <1>3, LenProperties DEF ReadsAs
  <2>2. p \in 0 .. Len(stream) /\ q \in p + 1 .. Len(stream)
    BY <1>5, <2>1
  <2>3. result = Yenc!DecodeLine(lines[next], SubSeq(data, 1, cnt[p]), esc[p])
    BY <1>3
  <2>. HIDE DEF p, q, result
  <2>. QED
    BY <1>3, <1>6, <2>2, <2>3, LineReadsBack
<1>8. next' - 1 = next /\ next' \in 1 .. Len(lines') + 1
  BY <1>1, <1>2
<1>9. Received' = Received
  BY <1>1 DEF Received
<1>10. /\ decoded' = SubSeq(data', 1, cnt[pos[next' - 1]])
       /\ pending' = esc[pos[next' - 1]]
  BY <1>1, <1>7, <1>8
<1>11. /\ ReadsAs(stream, data', cnt, esc) /\ CutAs(Received', stream, pos)
       /\ pos[Len(lines')] = Len(stream)
       /\ DOMAIN lines' = 1 .. Len(lines') /\ Len(lines') \in Nat
  BY <1>1, <1>2, <1>3, <1>9
<1>. HIDE DEF result, p, q
<1>. QED
  BY <1>1, <1>8, <1>10, <1>11 DEF YencRead

LEMMA DecodeEndKeepsRead ==
  YencRead /\ Yenc!DecodeEnd => YencRead'
<1>. SUFFICES ASSUME YencRead, Yenc!DecodeEnd  PROVE YencRead'
  OBVIOUS
<1>1. /\ phase = "decode" /\ phase' = "done" /\ next > Len(lines)
      /\ data' = data /\ decoded' = decoded /\ pending' = pending
  BY DEF Yenc!DecodeEnd
<1>2. Len(lines) \in Nat /\ next \in 1 .. Len(lines) + 1
  BY <1>1 DEF YencRead
<1>3. next - 1 = Len(lines)
  BY <1>1, <1>2
<1>4. PICK stream, cnt, esc, pos :
        /\ ReadsAs(stream, data, cnt, esc)
        /\ pos[Len(lines)] = Len(stream)
        /\ decoded = SubSeq(data, 1, cnt[pos[next - 1]])
        /\ pending = esc[pos[next - 1]]
  BY <1>1 DEF YencRead
<1>5. cnt[Len(stream)] = Len(data) /\ ~esc[Len(stream)] /\ data \in Seq(Byte)
  BY <1>4 DEF ReadsAs
<1>6. decoded = data /\ ~pending
  BY <1>3, <1>4, <1>5, SubSeqFull
<1>. QED
  BY <1>1, <1>6 DEF YencRead

LEMMA YencStepKeepsRead ==
  YencInv /\ YencRead /\ [Yenc!Next]_Yenc!vars => YencRead'
<1>. SUFFICES ASSUME YencInv, YencRead, [Yenc!Next]_Yenc!vars  PROVE YencRead'
  OBVIOUS
<1>1. CASE UNCHANGED Yenc!vars
  <2>1. UNCHANGED <<phase, data, next, lines, current, decoded, pending>>
    BY <1>1 DEF Yenc!vars
  <2>2. Received' = Received
    BY <2>1 DEF Received
  <2>. QED
    BY <2>1, <2>2 DEF YencRead
<1>. QED
  BY <1>1, EncodeByteKeepsRead, YencEndKeepsRead, YencTransportKeepsRead, DecodeKeepsRead,
     DecodeEndKeepsRead DEF Yenc!Next

-----------------------------------------------------------------------------
(* uuencoding: a line and what decode_line makes of it.                    *)

\* The four pieces of six bits of a group.
SixBits(chunk, g) ==
  LET b0 == chunk[3 * g - 2]
      b1 == ByteOr0(chunk, 3 * g - 1)
      b2 == ByteOr0(chunk, 3 * g)
  IN  <<b0 \div 4, (b0 % 4) * 16 + (b1 \div 16), (b1 % 16) * 4 + (b2 \div 64), b2 % 64>>

GroupsOf(n) == (n + 2) \div 3

LEMMA GroupBytes ==
  ASSUME NEW chunk \in Seq(Byte), NEW g \in 1 .. GroupsOf(Len(chunk))
  PROVE  /\ chunk[3 * g - 2] \in Byte /\ 3 * g - 2 <= Len(chunk)
         /\ ByteOr0(chunk, 3 * g - 1) \in Byte /\ ByteOr0(chunk, 3 * g) \in Byte
         /\ \A k \in 1 .. 4 : SixBits(chunk, g)[k] \in 0 .. 63
<1>. DEFINE n == Len(chunk)
            b0 == chunk[3 * g - 2]
            b1 == ByteOr0(chunk, 3 * g - 1)
            b2 == ByteOr0(chunk, 3 * g)
<1>1. n \in Nat /\ g \in Nat /\ 3 * g - 2 \in 1 .. n
  BY DEF GroupsOf
<1>2. b0 \in Byte
  BY <1>1
<1>3. ASSUME NEW i \in Nat \ {0}  PROVE ByteOr0(chunk, i) \in Byte
  <2>1. i <= n => chunk[i] \in Byte
    BY <1>1
  <2>2. 0 \in Byte
    BY DEF Byte
  <2>. QED
    BY <2>1, <2>2 DEF ByteOr0
<1>4. b1 \in Byte /\ b2 \in Byte
  BY <1>1, <1>3
<1>5. SixBits(chunk, g) = <<b0 \div 4, (b0 % 4) * 16 + (b1 \div 16), (b1 % 16) * 4 + (b2 \div 64), b2 % 64>>
  BY DEF SixBits
<1>. HIDE DEF b0, b1, b2
<1>6. /\ b0 \div 4 \in 0 .. 63 /\ (b0 % 4) * 16 + (b1 \div 16) \in 0 .. 63
      /\ (b1 % 16) * 4 + (b2 \div 64) \in 0 .. 63 /\ b2 % 64 \in 0 .. 63
  BY <1>2, <1>4 DEF Byte
<1>7. ASSUME NEW k \in 1 .. 4  PROVE SixBits(chunk, g)[k] \in 0 .. 63
  <2>. DEFINE s0 == b0 \div 4
              s1 == (b0 % 4) * 16 + (b1 \div 16)
              s2 == (b1 % 16) * 4 + (b2 \div 64)
              s3 == b2 % 64
  <2>1. s0 \in 0 .. 63 /\ s1 \in 0 .. 63 /\ s2 \in 0 .. 63 /\ s3 \in 0 .. 63
    BY <1>6
  <2>2. SixBits(chunk, g) = <<s0, s1, s2, s3>>
    BY <1>5
  <2>. HIDE DEF s0, s1, s2, s3
  <2>3. k = 1 \/ k = 2 \/ k = 3 \/ k = 4
    OBVIOUS
  <2>. DEFINE s == <<s0, s1, s2, s3>>
  <2>4. s[1] = s0 /\ s[2] = s1 /\ s[3] = s2 /\ s[4] = s3
    OBVIOUS
  <2>. HIDE DEF s
  <2>5. s[k] \in 0 .. 63
    BY <2>1, <2>3, <2>4, Zenon
  <2>. QED
    BY <2>2, <2>5, Zenon DEF s
<1>. QED
  BY <1>1, <1>2, <1>4, <1>7 DEF b0, b1, b2

\* What is where in an encoded line.
LEMMA ChunkChars ==
  ASSUME NEW chunk \in Seq(Byte), Len(chunk) \in 1 .. 63
  PROVE  LET line == EncodeChunk(chunk)
         IN  /\ Len(line) = 1 + 4 * GroupsOf(Len(chunk))
             /\ line[1] = Len(chunk) + 32
             /\ \A g \in 1 .. GroupsOf(Len(chunk)) : \A k \in 1 .. 4 :
                  line[1 + 4 * (g - 1) + k] = EncodeChar(SixBits(chunk, g)[k])
<1>. DEFINE n == Len(chunk)
            groups == GroupsOf(n)
            Triple(g) == EncodeTriple(chunk[3 * g - 2], ByteOr0(chunk, 3 * g - 1),
                                      ByteOr0(chunk, 3 * g))
            triples == [g \in 1 .. groups |-> Triple(g)]
            body == FlattenSeq(triples)
            line == EncodeChunk(chunk)
<1>1. n \in 1 .. 63 /\ groups \in Nat
  BY DEF GroupsOf
<1>2. line = <<n + 32>> \o body
  BY DEF EncodeChunk, GroupsOf
<1>3. ASSUME NEW g \in 1 .. groups
      PROVE  /\ Triple(g) \in Seq(UuChar) /\ Len(Triple(g)) = 4
             /\ \A k \in 1 .. 4 : Triple(g)[k] = EncodeChar(SixBits(chunk, g)[k])
  <2>1. Triple(g) \in Seq(UuChar)
    BY GroupBytes, TripleChars
  <2>2. Triple(g) = <<EncodeChar(SixBits(chunk, g)[1]), EncodeChar(SixBits(chunk, g)[2]),
                      EncodeChar(SixBits(chunk, g)[3]), EncodeChar(SixBits(chunk, g)[4])>>
    BY DEF EncodeTriple, SixBits
  <2>. HIDE DEF Triple
  <2>3. Len(Triple(g)) = 4
    BY <2>2
  <2>4. ASSUME NEW k \in 1 .. 4  PROVE Triple(g)[k] = EncodeChar(SixBits(chunk, g)[k])
    <3>1. k = 1 \/ k = 2 \/ k = 3 \/ k = 4
      OBVIOUS
    <3>. QED
      BY <2>2, <3>1
  <2>. QED
    BY <2>1, <2>3, <2>4
<1>. HIDE DEF Triple
<1>4. triples \in Seq(Seq(UuChar)) /\ Len(triples) = groups /\ \A g \in 1 .. groups : triples[g] = Triple(g)
  BY <1>1, <1>3
<1>. HIDE DEF triples
<1>5. /\ Len(body) = 4 * groups
      /\ \A g \in 1 .. groups : \A k \in 1 .. 4 : body[4 * (g - 1) + k] = Triple(g)[k]
  <2>1. \A g \in 1 .. Len(triples) : Len(triples[g]) = 4
    BY <1>3, <1>4
  <2>2. 4 \in Nat
    OBVIOUS
  <2>3. /\ Len(body) = 4 * Len(triples)
        /\ \A g \in 1 .. Len(triples) : \A k \in 1 .. 4 : body[4 * (g - 1) + k] = triples[g][k]
    BY <1>4, <2>1, <2>2, FlattenOfBlocks
  <2>. QED
    BY <1>4, <2>3
<1>6. body \in Seq(UuChar)
  BY <1>4, FlattenTyped
<1>. HIDE DEF body, line
<1>7. <<n + 32>> \in Seq(Nat) /\ Len(<<n + 32>>) = 1 /\ body \in Seq(Nat)
  <2>1. \A c \in UuChar : c \in Nat
    BY DEF UuChar
  <2>2. body \in Seq(Nat)
    BY <1>6, <2>1, SeqMonotonic
  <2>. QED
    BY <1>1, <2>2
<1>8. /\ Len(line) = 1 + 4 * groups /\ line[1] = n + 32
      /\ \A i \in 1 .. 4 * groups : line[1 + i] = body[i]
  BY <1>1, <1>2, <1>5, <1>7
<1>9. ASSUME NEW g \in 1 .. groups, NEW k \in 1 .. 4
      PROVE  line[1 + 4 * (g - 1) + k] = EncodeChar(SixBits(chunk, g)[k])
  <2>. DEFINE i == 4 * (g - 1) + k
  <2>1. i \in 1 .. 4 * groups /\ 1 + 4 * (g - 1) + k = 1 + i
    BY <1>1
  <2>2. body[i] = Triple(g)[k] /\ Triple(g)[k] = EncodeChar(SixBits(chunk, g)[k])
    BY <1>3, <1>5
  <2>. HIDE DEF i
  <2>3. line[1 + i] = body[i]
    BY <1>8, <2>1
  <2>. QED
    BY <2>1, <2>2, <2>3
<1>. QED
  BY <1>8, <1>9 DEF line

\* A received line that holds the encoded one: backticks may have become
\* spaces, spaces may have been cut off its end, and more may follow.
Kept(r, line) ==
  /\ r \in Seq(Nat) /\ r # <<>>
  /\ r[1] = line[1]
  /\ \A i \in 2 .. Len(line) :
       LET c == IF i <= Len(r) THEN r[i] ELSE SPACE
       IN  c = line[i] \/ (line[i] = BACKTICK /\ c = SPACE)

\* The bytes of a group, from its four pieces of six bits.
LEMMA GroupDecodes ==
  ASSUME NEW chunk \in Seq(Byte), NEW g \in 1 .. GroupsOf(Len(chunk))
  PROVE  LET s == SixBits(chunk, g)
         IN  DecodeGroup(s[1], s[2], s[3], s[4]) =
               <<chunk[3 * g - 2], ByteOr0(chunk, 3 * g - 1), ByteOr0(chunk, 3 * g)>>
<1>. DEFINE b0 == chunk[3 * g - 2]
            b1 == ByteOr0(chunk, 3 * g - 1)
            b2 == ByteOr0(chunk, 3 * g)
<1>1. b0 \in Byte /\ b1 \in Byte /\ b2 \in Byte
  BY GroupBytes
<1>2. SixBits(chunk, g) = <<b0 \div 4, (b0 % 4) * 16 + (b1 \div 16), (b1 % 16) * 4 + (b2 \div 64), b2 % 64>>
  BY DEF SixBits
<1>. HIDE DEF b0, b1, b2
<1>3. /\ b0 = 4 * (b0 \div 4) + (b0 % 4) /\ b0 \div 4 \in 0 .. 63 /\ b0 % 4 \in 0 .. 3
      /\ b1 = 16 * (b1 \div 16) + (b1 % 16) /\ b1 \div 16 \in 0 .. 15 /\ b1 % 16 \in 0 .. 15
      /\ b2 = 64 * (b2 \div 64) + (b2 % 64) /\ b2 \div 64 \in 0 .. 3 /\ b2 % 64 \in 0 .. 63
  BY <1>1 DEF Byte
<1>. DEFINE q0 == b0 \div 4
            r0 == b0 % 4
            q1 == b1 \div 16
            r1 == b1 % 16
            q2 == b2 \div 64
            r2 == b2 % 64
<1>4. SixBits(chunk, g) = <<q0, r0 * 16 + q1, r1 * 4 + q2, r2>>
  BY <1>2
<1>5. /\ b0 = 4 * q0 + r0 /\ q0 \in 0 .. 63 /\ r0 \in 0 .. 3
      /\ b1 = 16 * q1 + r1 /\ q1 \in 0 .. 15 /\ r1 \in 0 .. 15
      /\ b2 = 64 * q2 + r2 /\ q2 \in 0 .. 3 /\ r2 \in 0 .. 63
  BY <1>3
<1>. HIDE DEF q0, r0, q1, r1, q2, r2
<1>6. (r0 * 16 + q1) \div 16 = r0 /\ (r1 * 4 + q2) \div 4 = r1
  BY <1>5
<1>7. (q0 * 4 + ((r0 * 16 + q1) \div 16)) % 256 = b0
  <2>0. b0 \in 0 .. 255
    BY <1>1 DEF Byte
  <2>1. q0 * 4 + r0 = b0 /\ b0 % 256 = b0
    BY <2>0, <1>5
  <2>. QED
    BY <1>6, <2>1
<1>8. ((r0 * 16 + q1) * 16 + ((r1 * 4 + q2) \div 4)) % 256 = b1
  <2>1. (r0 * 16 + q1) * 16 + r1 = 256 * r0 + b1 /\ b1 \in 0 .. 255
    BY <1>1, <1>5 DEF Byte
  <2>2. (256 * r0 + b1) % 256 = b1
    BY <1>5, <2>1
  <2>. QED
    BY <1>6, <2>1, <2>2
<1>9. ((r1 * 4 + q2) * 64 + r2) % 256 = b2
  <2>1. (r1 * 4 + q2) * 64 + r2 = 256 * r1 + b2 /\ b2 \in 0 .. 255
    BY <1>1, <1>5 DEF Byte
  <2>2. (256 * r1 + b2) % 256 = b2
    BY <1>5, <2>1
  <2>. QED
    BY <2>1, <2>2
<1>. DEFINE s1 == r0 * 16 + q1
            s2 == r1 * 4 + q2
<1>10. DecodeGroup(q0, s1, s2, r2) = <<b0, b1, b2>>
  BY <1>7, <1>8, <1>9 DEF DecodeGroup
<1>11. SixBits(chunk, g) = <<q0, s1, s2, r2>>
  BY <1>4
<1>. HIDE DEF s1, s2
<1>. QED
  BY <1>10, <1>11 DEF b0, b1, b2

LEMMA KeptDecodes ==
  ASSUME NEW chunk \in Seq(Byte), Len(chunk) \in 1 .. 63, NEW raw,
         Kept(StripCr(raw), EncodeChunk(chunk))
  PROVE  DecodeLine(raw) = [ok |-> TRUE, count |-> Len(chunk), bytes |-> chunk]
<1>. DEFINE n == Len(chunk)
            groups == GroupsOf(n)
            needed == groups * 4
            line == EncodeChunk(chunk)
            r == StripCr(raw)
            payload == Tail(r)
            Char(g, k) == CharOrSpace(payload, needed, 4 * (g - 1) + k)
            bad == {g \in 1 .. groups : \E k \in 1 .. 4 : ~IsUuChar(Char(g, k))}
            Group(g) == DecodeGroup(Value(Char(g, 1)), Value(Char(g, 2)), Value(Char(g, 3)), Value(Char(g, 4)))
            decodedGroups == [g \in 1 .. groups |-> Group(g)]
            bytes == FlattenSeq(decodedGroups)
<1>1. n \in 1 .. 63 /\ groups \in Nat /\ needed = 4 * groups /\ 3 * groups \in n .. n + 2
  BY DEF GroupsOf
<1>2. /\ Len(line) = 1 + 4 * groups /\ line[1] = n + 32
      /\ \A g \in 1 .. groups : \A k \in 1 .. 4 :
           line[1 + 4 * (g - 1) + k] = EncodeChar(SixBits(chunk, g)[k])
  BY ChunkChars
<1>3. /\ r \in Seq(Nat) /\ r # <<>> /\ r[1] = line[1]
      /\ \A i \in 2 .. Len(line) :
           LET c == IF i <= Len(r) THEN r[i] ELSE SPACE
           IN  c = line[i] \/ (line[i] = BACKTICK /\ c = SPACE)
  BY DEF Kept
<1>. HIDE DEF line, r, groups
<1>4. payload \in Seq(Nat) /\ Len(payload) = Len(r) - 1 /\ Len(r) \in Nat
      /\ \A i \in 1 .. Len(r) - 1 : payload[i] = r[i + 1]
  BY <1>3
<1>. HIDE DEF payload
<1>5. ASSUME NEW g \in 1 .. groups, NEW k \in 1 .. 4
      PROVE  IsUuChar(Char(g, k)) /\ Value(Char(g, k)) = SixBits(chunk, g)[k]
  <2>. DEFINE i == 4 * (g - 1) + k
              v == SixBits(chunk, g)[k]
              c == IF i + 1 <= Len(r) THEN r[i + 1] ELSE SPACE
  <2>1. i \in 1 .. needed /\ i + 1 \in 2 .. Len(line) /\ i + 1 = 1 + 4 * (g - 1) + k
    BY <1>1, <1>2
  <2>2. Char(g, k) = c
    <3>1. Char(g, k) = IF i <= Len(payload) /\ i <= needed THEN payload[i] ELSE SPACE
      BY DEF CharOrSpace
    <3>. HIDE DEF i, needed
    <3>2. i <= needed /\ i \in Nat /\ i >= 1
      BY <1>1, <2>1 DEF needed
    <3>3. CASE i <= Len(payload)
      <4>1. i \in 1 .. Len(r) - 1 /\ i + 1 <= Len(r)
        BY <1>4, <3>2, <3>3
      <4>2. payload[i] = r[i + 1]
        BY <1>4, <4>1
      <4>. QED
        BY <3>1, <3>2, <3>3, <4>1, <4>2
    <3>4. CASE ~(i <= Len(payload))
      <4>1. ~(i + 1 <= Len(r))
        BY <1>4, <3>2, <3>4
      <4>. QED
        BY <3>1, <3>4, <4>1
    <3>. QED
      BY <3>3, <3>4
  <2>3. v \in 0 .. 63 /\ line[i + 1] = EncodeChar(v)
    <3>1. v \in 0 .. 63
      BY GroupBytes DEF groups
    <3>. QED
      BY <1>2, <2>1, <3>1
  <2>4. c = line[i + 1] \/ (line[i + 1] = BACKTICK /\ c = SPACE)
    BY <1>3, <2>1
  <2>. HIDE DEF c, v, i
  <2>5. IsUuChar(c) /\ Value(c) = v
    <3>1. CASE v = 0
      <4>1. line[i + 1] = 96
        BY <2>3, <3>1 DEF EncodeChar, BACKTICK
      <4>2. c = 96 \/ c = 32
        BY <2>4, <4>1 DEF SPACE
      <4>3. 96 \in 32 .. 96 /\ 32 \in 32 .. 96 /\ 32 # 96 /\ 32 - 32 = 0
        OBVIOUS
      <4>. QED
        BY <3>1, <4>2, <4>3, Zenon DEF IsUuChar, Value, BACKTICK
    <3>2. CASE v # 0
      <4>1. line[i + 1] = v + 32 /\ v + 32 # 96 /\ v + 32 \in 33 .. 95
        BY <2>3, <3>2 DEF EncodeChar
      <4>2. c = v + 32
        BY <2>4, <4>1 DEF BACKTICK
      <4>3. v + 32 \in 32 .. 96 /\ (v + 32) - 32 = v
        BY <2>3, <4>1
      <4>. QED
        BY <4>1, <4>2, <4>3, Zenon DEF IsUuChar, Value, BACKTICK
    <3>. QED
      BY <3>1, <3>2
  <2>6. IsUuChar(Char(g, k)) /\ Value(Char(g, k)) = v
    <3>. HIDE DEF Char
    <3>. QED
      BY <2>2, <2>5
  <2>. QED
    BY <2>6 DEF v
<1>. HIDE DEF Char
<1>6. bad = {}
  BY <1>5
<1>7. ASSUME NEW g \in 1 .. groups
      PROVE  Group(g) = <<chunk[3 * g - 2], ByteOr0(chunk, 3 * g - 1), ByteOr0(chunk, 3 * g)>>
  <2>1. g \in 1 .. GroupsOf(Len(chunk))
    BY DEF groups
  <2>2. 1 \in 1 .. 4 /\ 2 \in 1 .. 4 /\ 3 \in 1 .. 4 /\ 4 \in 1 .. 4
    OBVIOUS
  <2>3. /\ Value(Char(g, 1)) = SixBits(chunk, g)[1] /\ Value(Char(g, 2)) = SixBits(chunk, g)[2]
        /\ Value(Char(g, 3)) = SixBits(chunk, g)[3] /\ Value(Char(g, 4)) = SixBits(chunk, g)[4]
    BY <1>5, <2>2
  <2>. QED
    BY <2>1, <2>3, GroupDecodes
<1>. HIDE DEF Group
<1>8. decodedGroups \in Seq(Seq(Byte)) /\ Len(decodedGroups) = groups
      /\ \A g \in 1 .. groups : Len(decodedGroups[g]) = 3 /\ decodedGroups[g] = Group(g)
  <2>1. ASSUME NEW g \in 1 .. groups  PROVE Group(g) \in Seq(Byte) /\ Len(Group(g)) = 3
    <3>1. /\ chunk[3 * g - 2] \in Byte /\ ByteOr0(chunk, 3 * g - 1) \in Byte
          /\ ByteOr0(chunk, 3 * g) \in Byte
      BY GroupBytes DEF groups
    <3>. DEFINE x == chunk[3 * g - 2]
                y == ByteOr0(chunk, 3 * g - 1)
                z == ByteOr0(chunk, 3 * g)
    <3>2. Group(g) = <<x, y, z>>
      BY <1>7
    <3>. HIDE DEF x, y, z
    <3>3. x \in Byte /\ y \in Byte /\ z \in Byte
      BY <3>1 DEF x, y, z
    <3>. QED
      BY <3>2, <3>3
  <2>. QED
    BY <1>1, <2>1
<1>. HIDE DEF decodedGroups
<1>9. /\ Len(bytes) = 3 * groups
      /\ \A g \in 1 .. groups : \A k \in 1 .. 3 : bytes[3 * (g - 1) + k] = Group(g)[k]
  <2>1. 3 \in Nat
    OBVIOUS
  <2>2. /\ Len(bytes) = 3 * Len(decodedGroups)
        /\ \A g \in 1 .. Len(decodedGroups) : \A k \in 1 .. 3 :
             bytes[3 * (g - 1) + k] = decodedGroups[g][k]
    BY <1>8, <2>1, FlattenOfBlocks
  <2>. QED
    BY <1>8, <2>2
<1>10. bytes \in Seq(Byte)
  BY <1>8, FlattenTyped
<1>. HIDE DEF bytes
<1>11. ASSUME NEW i \in 1 .. n  PROVE bytes[i] = chunk[i]
  <2>. DEFINE g == (i + 2) \div 3
              k == i - 3 * (g - 1)
  <2>1. g \in 1 .. groups /\ k \in 1 .. 3 /\ 3 * (g - 1) + k = i
    BY <1>1 DEF groups, GroupsOf
  <2>. HIDE DEF g, k
  <2>2. bytes[i] = Group(g)[k]
    BY <1>9, <2>1
  <2>3. CASE k = 1
    <3>1. 3 * g - 2 = i
      BY <2>1, <2>3
    <3>. QED
      BY <1>7, <2>1, <2>2, <2>3, <3>1
  <2>4. CASE k = 2
    <3>1. 3 * g - 1 = i
      BY <2>1, <2>4
    <3>2. Group(g)[2] = ByteOr0(chunk, i)
      <4>. DEFINE x == chunk[3 * g - 2]
                  y == ByteOr0(chunk, 3 * g - 1)
                  z == ByteOr0(chunk, 3 * g)
      <4>1. Group(g) = <<x, y, z>>
        BY <1>7, <2>1
      <4>. HIDE DEF x, y, z
      <4>2. Group(g)[2] = y
        BY <4>1
      <4>. QED
        BY <3>1, <4>2 DEF y
    <3>. QED
      BY <2>2, <2>4, <3>2 DEF ByteOr0
  <2>5. CASE k = 3
    <3>1. 3 * g = i
      BY <2>1, <2>5
    <3>2. Group(g)[3] = ByteOr0(chunk, i)
      <4>. DEFINE x == chunk[3 * g - 2]
                  y == ByteOr0(chunk, 3 * g - 1)
                  z == ByteOr0(chunk, 3 * g)
      <4>1. Group(g) = <<x, y, z>>
        BY <1>7, <2>1
      <4>. HIDE DEF x, y, z
      <4>2. Group(g)[3] = z
        BY <4>1
      <4>. QED
        BY <3>1, <4>2 DEF z
    <3>. QED
      BY <2>2, <2>5, <3>2 DEF ByteOr0
  <2>. QED
    BY <2>1, <2>3, <2>4, <2>5
<1>12. SubSeq(bytes, 1, IF n < Len(bytes) THEN n ELSE Len(bytes)) = chunk
  <2>1. (IF n < Len(bytes) THEN n ELSE Len(bytes)) = n /\ n <= Len(bytes)
    BY <1>1, <1>9
  <2>2. SubSeq(bytes, 1, n) \in Seq(Byte) /\ Len(SubSeq(bytes, 1, n)) = n
        /\ \A i \in 1 .. n : SubSeq(bytes, 1, n)[i] = bytes[i]
    BY <1>1, <1>10, <2>1
  <2>3. SubSeq(bytes, 1, n) = chunk
    BY <1>11, <2>2, SeqEqual
  <2>. QED
    BY <2>1, <2>3
<1>13. DecodePayload(payload, n) = [ok |-> TRUE, count |-> n, bytes |-> chunk]
  <2>1. DecodePayload(payload, n) =
          [ok |-> bad = {}, count |-> n,
           bytes |-> LET sound == IF bad = {} THEN groups ELSE Min(bad) - 1
                         all == FlattenSeq([g \in 1 .. sound |-> Group(g)])
                     IN  SubSeq(all, 1, IF n < Len(all) THEN n ELSE Len(all))]
    BY DEF DecodePayload, Group, Char, groups, GroupsOf
  <2>2. FlattenSeq([g \in 1 .. groups |-> Group(g)]) = bytes
    BY DEF bytes, decodedGroups
  <2>. HIDE DEF bad
  <2>. QED
    BY <1>6, <1>12, <2>1, <2>2
<1>14. DecodeLine(raw) = DecodePayload(payload, n)
  <2>1. r[1] = n + 32 /\ r[1] - 32 = n /\ r[1] \notin {SPACE, BACKTICK} /\ r[1] \in 33 .. 95
    <3>1. r[1] = n + 32
      BY <1>2, <1>3
    <3>. HIDE DEF n
    <3>. QED
      BY <1>1, <3>1 DEF SPACE, BACKTICK
  <2>. HIDE DEF n
  <2>. QED
    BY <1>3, <2>1 DEF DecodeLine, r, payload
<1>. QED
  BY <1>13, <1>14

-----------------------------------------------------------------------------
(* uuencoding: what the transport leaves of a data line.                   *)

LEMMA LineTyped ==
  ASSUME NEW line, UuDataLine(line)
  PROVE  /\ line \in Seq(Nat) /\ Len(line) \in Nat \ {0} /\ line # <<>>
         /\ line[1] \notin {SPACE, BACKTICK}
         /\ \A i \in 1 .. Len(line) : line[i] \notin {CR, SPACE} /\ line[i] \in Nat
<1>1. line \in Seq(UuChar) /\ line # <<>> /\ line[1] \in 33 .. 95
  BY DEF UuDataLine
<1>2. \A c \in UuChar : c \in Nat /\ c \notin {CR, SPACE}
  BY DEF UuChar, CR, SPACE
<1>3. line \in Seq(Nat)
  BY <1>1, <1>2, SeqMonotonic
<1>4. line[1] \notin {SPACE, BACKTICK}
  <2>. DEFINE c == line[1]
  <2>1. c \in 33 .. 95
    BY <1>1
  <2>. HIDE DEF c
  <2>2. c \notin {SPACE, BACKTICK}
    BY <2>1 DEF SPACE, BACKTICK
  <2>. QED
    BY <2>2 DEF c
<1>5. Len(line) \in Nat \ {0}
  BY <1>1, EmptySeq
<1>6. \A i \in 1 .. Len(line) : line[i] \in UuChar
  BY <1>1, ElementOfSeq
<1>. QED
  BY <1>1, <1>2, <1>3, <1>4, <1>5, <1>6

\* A line that ends in no carriage return is taken as it is.
LEMMA NoCr ==
  ASSUME NEW r \in Seq(Nat), r # <<>>, r[Len(r)] # CR
  PROVE  StripCr(r) = r
BY DEF StripCr

LEMMA SpacedKept ==
  ASSUME NEW line, UuDataLine(line)
  PROVE  /\ Spaced(line) \in Seq(Nat) /\ Len(Spaced(line)) = Len(line)
         /\ Spaced(line)[1] = line[1] /\ Spaced(line)[1] # SPACE
         /\ \A i \in 1 .. Len(line) :
              /\ Spaced(line)[i] # CR
              /\ Spaced(line)[i] = line[i] \/ (line[i] = BACKTICK /\ Spaced(line)[i] = SPACE)
<1>. DEFINE s == Spaced(line)
            n == Len(line)
<1>1. /\ line \in Seq(Nat) /\ n \in Nat \ {0} /\ line[1] \notin {SPACE, BACKTICK}
      /\ \A i \in 1 .. n : line[i] \notin {CR, SPACE} /\ line[i] \in Nat
  BY LineTyped
<1>2. DOMAIN line = 1 .. n
  BY <1>1
<1>3. s = [i \in 1 .. n |-> IF line[i] = BACKTICK THEN SPACE ELSE line[i]]
  BY <1>2 DEF Spaced
<1>. HIDE DEF s
<1>4. SPACE \in Nat /\ SPACE # CR
  BY DEF SPACE, CR
<1>5. \A i \in 1 .. n : s[i] \in Nat /\ s[i] = IF line[i] = BACKTICK THEN SPACE ELSE line[i]
  BY <1>1, <1>3, <1>4
<1>6. s \in Seq(Nat) /\ Len(s) = n
  BY <1>1, <1>3, <1>5
<1>7. 1 \in 1 .. n
  BY <1>1
<1>8. s[1] = line[1] /\ s[1] # SPACE
  BY <1>1, <1>5, <1>7
<1>9. \A i \in 1 .. n : s[i] # CR /\ (s[i] = line[i] \/ (line[i] = BACKTICK /\ s[i] = SPACE))
  BY <1>1, <1>4, <1>5
<1>. QED
  BY <1>6, <1>8, <1>9 DEF s

LEMMA TrimmedKept ==
  ASSUME NEW s \in Seq(Nat), s # <<>>, s[1] # SPACE
  PROVE  \E last \in 1 .. Len(s) :
           /\ Trimmed(s) = SubSeq(s, 1, last)
           /\ s[last] # SPACE
           /\ \A i \in last + 1 .. Len(s) : s[i] = SPACE
<1>. DEFINE n == Len(s)
            I == {i \in 1 .. n : s[i] # SPACE}
<1>1. n \in Nat \ {0} /\ 1 \in I
  BY EmptySeq
<1>2. I \in SUBSET (0 .. n) /\ I # {} /\ n \in Nat
  BY <1>1
<1>3. SelectLastInSeq(s, LAMBDA c : c # SPACE) = Max(I)
  BY <1>2 DEF SelectLastInSeq
<1>4. Trimmed(s) = SubSeq(s, 1, Max(I))
  BY <1>3 DEF Trimmed
<1>5. \A i \in 1 .. n : i \in I <=> s[i] # SPACE
  OBVIOUS
<1>6. \A i \in I : i \in 1 .. n
  OBVIOUS
<1>. HIDE DEF I
<1>7. Max(I) \in I /\ \A y \in I : y <= Max(I)
  BY <1>2, MaxOfNat
<1>8. ASSUME NEW i \in Max(I) + 1 .. n  PROVE s[i] = SPACE
  <2>1. i \in 1 .. n /\ ~(i <= Max(I))
    BY <1>1, <1>6, <1>7
  <2>. QED
    BY <1>5, <1>7, <2>1
<1>. QED
  BY <1>4, <1>5, <1>6, <1>7, <1>8

\* None of the five ways of the transport takes anything from a data line
\* (decode.rs:206-301).
LEMMA CarriedDecodes ==
  ASSUME NEW chunk \in Seq(Byte), Len(chunk) \in 1 .. 63, NEW raw,
         LET line == EncodeChunk(chunk)
         IN  \/ raw = line
             \/ raw = Spaced(line)
             \/ raw = Trimmed(Spaced(line))
             \/ raw = Append(line, GARBAGE)
             \/ raw = Append(line, CR)
  PROVE  DecodeLine(raw) = [ok |-> TRUE, count |-> Len(chunk), bytes |-> chunk]
<1>. DEFINE line == EncodeChunk(chunk)
            n == Len(line)
            s == Spaced(line)
<1>1. UuDataLine(line)
  BY ChunkLine
<1>. HIDE DEF line
<1>2. /\ line \in Seq(Nat) /\ n \in Nat \ {0} /\ line # <<>>
      /\ \A i \in 1 .. n : line[i] \notin {CR, SPACE} /\ line[i] \in Nat
      /\ n \in 1 .. n
  BY <1>1, LineTyped
<1>3. /\ s \in Seq(Nat) /\ Len(s) = n /\ s[1] = line[1] /\ s[1] # SPACE
      /\ \A i \in 1 .. n : s[i] # CR /\ (s[i] = line[i] \/ (line[i] = BACKTICK /\ s[i] = SPACE))
  BY <1>1, SpacedKept
<1>. HIDE DEF s
<1>. SUFFICES Kept(StripCr(raw), line)
  BY KeptDecodes DEF line
<1>4. CASE raw = line
  <2>1. StripCr(raw) = line
    BY <1>2, <1>4, NoCr
  <2>2. \A i \in 2 .. n : i <= n
    BY <1>2
  <2>3. Kept(line, line)
    BY <1>2, <2>2 DEF Kept
  <2>. QED
    BY <2>1, <2>3
<1>5. CASE raw = s
  <2>1. s # <<>> /\ s[Len(s)] # CR
    BY <1>2, <1>3
  <2>2. StripCr(raw) = s
    BY <1>3, <1>5, <2>1, NoCr
  <2>3. \A i \in 2 .. n : i <= Len(s) /\ i \in 1 .. n
    BY <1>2, <1>3
  <2>4. Kept(s, line)
    BY <1>3, <2>1, <2>3 DEF Kept
  <2>. QED
    BY <2>2, <2>4
<1>6. CASE raw = Trimmed(s)
  <2>1. s # <<>>
    BY <1>2, <1>3
  <2>2. PICK last \in 1 .. Len(s) :
           /\ Trimmed(s) = SubSeq(s, 1, last)
           /\ s[last] # SPACE
           /\ \A i \in last + 1 .. Len(s) : s[i] = SPACE
    BY <1>3, <2>1, TrimmedKept
  <2>. DEFINE r == SubSeq(s, 1, last)
  <2>3. r \in Seq(Nat) /\ Len(r) = last /\ last \in 1 .. n /\ \A i \in 1 .. last : r[i] = s[i]
    BY <1>2, <1>3, <2>2
  <2>4. raw = r
    BY <1>6, <2>2
  <2>. HIDE DEF r
  <2>5. r # <<>> /\ 1 \in 1 .. last /\ last \in 1 .. last /\ r[Len(r)] # CR
    BY <1>3, <2>3
  <2>6. StripCr(raw) = r
    BY <2>3, <2>4, <2>5, NoCr
  <2>7. ASSUME NEW i \in 2 .. n
        PROVE  LET c == IF i <= Len(r) THEN r[i] ELSE SPACE
               IN  c = line[i] \/ (line[i] = BACKTICK /\ c = SPACE)
    <3>1. i \in 1 .. n /\ (s[i] = line[i] \/ (line[i] = BACKTICK /\ s[i] = SPACE)) /\ line[i] # SPACE
      BY <1>2, <1>3
    <3>2. CASE i <= last
      <4>1. i \in 1 .. last
        BY <3>1, <3>2, <2>3
      <4>. QED
        BY <2>3, <3>1, <3>2, <4>1
    <3>3. CASE ~(i <= last)
      <4>1. i \in last + 1 .. Len(s)
        BY <1>3, <2>3, <3>1, <3>3
      <4>2. s[i] = SPACE
        BY <2>2, <4>1
      <4>. QED
        BY <2>3, <3>1, <3>3, <4>2
    <3>. QED
      BY <3>2, <3>3
  <2>8. Kept(r, line)
    BY <1>3, <2>3, <2>5, <2>7 DEF Kept
  <2>. QED
    BY <2>6, <2>8
<1>7. ASSUME NEW c \in Nat
      PROVE  /\ Append(line, c) \in Seq(Nat) /\ Append(line, c) # <<>>
             /\ Len(Append(line, c)) = n + 1 /\ Append(line, c)[n + 1] = c
             /\ SubSeq(Append(line, c), 1, n) = line
             /\ Kept(Append(line, c), line)
  <2>. DEFINE r == Append(line, c)
  <2>1. /\ r \in Seq(Nat) /\ Len(r) = n + 1 /\ r[n + 1] = c
        /\ \A i \in 1 .. n : r[i] = line[i]
    BY <1>2
  <2>. HIDE DEF r
  <2>2. r # <<>> /\ 1 \in 1 .. n /\ \A i \in 2 .. n : i <= Len(r) /\ i \in 1 .. n
    BY <1>2, <2>1
  <2>3. SubSeq(r, 1, n) = line
    <3>1. SubSeq(r, 1, n) \in Seq(Nat) /\ Len(SubSeq(r, 1, n)) = n
          /\ \A i \in 1 .. n : SubSeq(r, 1, n)[i] = r[i]
      BY <1>2, <2>1
    <3>. QED
      BY <1>2, <2>1, <3>1, SeqEqual
  <2>4. Kept(r, line)
    BY <2>1, <2>2 DEF Kept
  <2>. QED
    BY <2>1, <2>2, <2>3, <2>4 DEF r
<1>8. CASE raw = Append(line, GARBAGE)
  <2>1. GARBAGE \in Nat /\ GARBAGE # CR
    BY DEF GARBAGE, CR
  <2>2. StripCr(raw) = raw
    BY <1>7, <1>8, <2>1, NoCr
  <2>. QED
    BY <1>7, <1>8, <2>1, <2>2
<1>9. CASE raw = Append(line, CR)
  <2>1. CR \in Nat
    BY DEF CR
  <2>2. /\ raw # <<>> /\ Len(raw) = n + 1 /\ raw[n + 1] = CR /\ SubSeq(raw, 1, n) = line
        /\ (n + 1) - 1 = n
    BY <1>2, <1>7, <1>9, <2>1
  <2>3. StripCr(raw) = line
    BY <2>2 DEF StripCr
  <2>4. \A i \in 2 .. n : i <= n
    BY <1>2
  <2>5. Kept(line, line)
    BY <1>2, <2>4 DEF Kept
  <2>. QED
    BY <2>3, <2>5
<1>. QED
  BY <1>4, <1>5, <1>6, <1>8, <1>9 DEF line, s

\* One character more than one.
LEMMA OneMore ==
  ASSUME NEW line \in Seq(Nat), NEW c \in Nat
  PROVE  LET raw == Append(line, c)
         IN  Len(line) = 1 =>
               raw \in Seq(Nat) /\ raw # <<>> /\ Len(raw) = 2 /\ raw[2] = c /\ raw[1] = line[1]
<1>. DEFINE raw == Append(line, c)
<1>1. /\ raw \in Seq(Nat) /\ raw # <<>> /\ Len(raw) = Len(line) + 1
      /\ raw[Len(line) + 1] = c /\ \A i \in 1 .. Len(line) : raw[i] = line[i]
  BY AppendProperties
<1>. HIDE DEF raw
<1>2. Len(line) = 1 => Len(raw) = 2 /\ raw[2] = c /\ raw[1] = line[1]
  <2>1. 1 \in 1 .. 1 /\ 1 + 1 = 2
    OBVIOUS
  <2>. QED
    BY <1>1, <2>1, Zenon
<1>. QED
  BY <1>1, <1>2 DEF raw

\* Nor from the line that ends the data, or from the end line.
LEMMA TerminatorDecodes ==
  ASSUME NEW raw,
         LET line == <<BACKTICK>>
         IN  \/ raw = line
             \/ raw = Spaced(line)
             \/ raw = Trimmed(Spaced(line))
             \/ raw = Append(line, GARBAGE)
             \/ raw = Append(line, CR)
  PROVE  DecodeLine(raw) = [ok |-> TRUE, count |-> 0, bytes |-> <<>>]
<1>. DEFINE line == <<BACKTICK>>
<1>1. /\ BACKTICK \in Nat /\ CR \in Nat /\ GARBAGE \in Nat /\ SPACE \in Nat
      /\ BACKTICK # CR /\ GARBAGE # CR /\ SPACE # CR
  BY DEF BACKTICK, CR, GARBAGE, SPACE
<1>2. ASSUME NEW r \in Seq(Nat), r # <<>>, r[1] \in {SPACE, BACKTICK}, StripCr(raw) = r
      PROVE  DecodeLine(raw) = [ok |-> TRUE, count |-> 0, bytes |-> <<>>]
  BY <1>2 DEF DecodeLine
<1>3. Spaced(line) = <<SPACE>>
  <2>1. DOMAIN line = 1 .. 1 /\ line[1] = BACKTICK
    OBVIOUS
  <2>2. Spaced(line) = [i \in 1 .. 1 |-> SPACE]
    BY <2>1 DEF Spaced
  <2>3. [i \in 1 .. 1 |-> SPACE] = <<SPACE>>
    <3>. DEFINE x == [i \in 1 .. 1 |-> SPACE]
                y == <<SPACE>>
    <3>1. x \in Seq({SPACE}) /\ Len(x) = 1 /\ x[1] = SPACE
      OBVIOUS
    <3>2. y \in Seq({SPACE}) /\ Len(y) = 1 /\ y[1] = SPACE
      OBVIOUS
    <3>. HIDE DEF x, y
    <3>3. \A i \in 1 .. 1 : x[i] = y[i]
      BY <3>1, <3>2
    <3>4. x = y
      BY <3>1, <3>2, <3>3, SeqEqual
    <3>. QED
      BY <3>4 DEF x, y
  <2>. QED
    BY <2>2, <2>3
<1>4. Trimmed(<<SPACE>>) = <<>>
  <2>1. Len(<<SPACE>>) = 1 /\ <<SPACE>>[1] = SPACE
    OBVIOUS
  <2>. DEFINE I == {i \in 1 .. Len(<<SPACE>>) : <<SPACE>>[i] # SPACE}
  <2>4. I = {}
    <3>. DEFINE r == <<SPACE>>
    <3>1. Len(r) = 1 /\ r[1] = SPACE
      OBVIOUS
    <3>. HIDE DEF r
    <3>2. {i \in 1 .. Len(r) : r[i] # SPACE} = {}
      BY <3>1
    <3>. QED
      BY <3>2 DEF r
  <2>2. SelectLastInSeq(<<SPACE>>, LAMBDA c : c # SPACE) = 0
    BY <2>4, Zenon DEF SelectLastInSeq
  <2>3. SubSeq(<<SPACE>>, 1, 0) = <<>>
    BY SubSeqEmpty
  <2>. QED
    BY <2>2, <2>3, Zenon DEF Trimmed
<1>5. CASE raw = line
  <2>1. line \in Seq(Nat) /\ line # <<>> /\ Len(line) = 1 /\ line[1] = BACKTICK
    BY <1>1
  <2>3. line[Len(line)] # CR
    BY <1>1, <2>1, Zenon
  <2>. HIDE DEF line
  <2>2. StripCr(raw) = line
    BY <1>5, <2>1, <2>3, NoCr
  <2>. QED
    BY <1>2, <2>1, <2>2
<1>6. CASE raw = <<SPACE>>
  <2>. DEFINE r == <<SPACE>>
  <2>1. r \in Seq(Nat) /\ r # <<>> /\ Len(r) = 1 /\ r[1] = SPACE
    BY <1>1
  <2>. HIDE DEF r
  <2>2. r[Len(r)] # CR
    BY <1>1, <2>1, Zenon
  <2>3. StripCr(raw) = r
    BY <1>6, <2>1, <2>2, NoCr DEF r
  <2>. QED
    BY <1>2, <2>1, <2>3
<1>7. CASE raw = <<>>
  BY <1>7 DEF DecodeLine, StripCr
<1>8. CASE raw = Append(line, GARBAGE)
  <2>1. line \in Seq(Nat) /\ Len(line) = 1 /\ line[1] = BACKTICK
    BY <1>1
  <2>. HIDE DEF line
  <2>3. raw \in Seq(Nat) /\ raw # <<>> /\ Len(raw) = 2 /\ raw[2] = GARBAGE /\ raw[1] = BACKTICK
    BY <1>1, <1>8, <2>1, OneMore
  <2>2. raw \in Seq(Nat) /\ raw # <<>> /\ raw[Len(raw)] # CR /\ raw[1] = BACKTICK
    BY <1>1, <2>3, Zenon
  <2>. QED
    BY <1>2, <2>2, NoCr
<1>9. CASE raw = Append(line, CR)
  <2>0. line \in Seq(Nat) /\ Len(line) = 1 /\ line[1] = BACKTICK
    BY <1>1
  <2>. HIDE DEF line
  <2>1. raw \in Seq(Nat) /\ raw # <<>> /\ Len(raw) = 2 /\ raw[2] = CR /\ raw[1] = BACKTICK
    BY <1>1, <1>9, <2>0, OneMore
  <2>6. raw # <<>> /\ Len(raw) = 2 /\ raw[2] = CR /\ 2 - 1 = 1
    BY <1>1, <2>1
  <2>2. raw # <<>> /\ Len(raw) = 2 /\ raw[Len(raw)] = CR /\ Len(raw) - 1 = 1
    BY <2>6, Zenon
  <2>3. StripCr(raw) = SubSeq(raw, 1, 1)
    BY <2>2, Zenon DEF StripCr
  <2>4. SubSeq(raw, 1, 1) = <<BACKTICK>>
    <3>1. raw \in Seq(Nat) /\ 1 \in 1 .. Len(raw) /\ raw[1] = BACKTICK
      BY <1>1, <2>1
    <3>. QED
      BY <3>1, SubSeqOfOne
  <2>5. <<BACKTICK>> \in Seq(Nat) /\ <<BACKTICK>> # <<>> /\ <<BACKTICK>>[1] = BACKTICK
    BY <1>1
  <2>. QED
    BY <1>2, <2>3, <2>4, <2>5
<1>. QED
  BY <1>3, <1>4, <1>5, <1>6, <1>7, <1>8, <1>9

-----------------------------------------------------------------------------
(* uuencoding: the invariant of the way from the encoder to the decoder.   *)

\* The first m lines stand for consecutive pieces of the data.
ChunksAs(pos, m) ==
  /\ pos \in [0 .. m -> 0 .. Len(data)]
  /\ pos[0] = 0
  /\ \A i \in 1 .. m : pos[i - 1] < pos[i] /\ pos[i] - pos[i - 1] <= 63

Chunk(pos, i) == SubSeq(data, pos[i - 1] + 1, pos[i])

UuRead ==
  /\ phase \in {"encode", "transport", "decode", "done"}
  /\ phase \in {"encode", "transport"} => decoded = <<>>
  /\ phase = "encode" =>
       /\ next <= Len(data) + 1
       /\ \E pos : /\ ChunksAs(pos, Len(lines)) /\ pos[Len(lines)] = next - 1
                   /\ \A i \in 1 .. Len(lines) : lines[i] = EncodeChunk(Chunk(pos, i))
  /\ phase = "transport" =>
       \E pos : \E m \in Nat :
         /\ ChunksAs(pos, m) /\ pos[m] = Len(data)
         /\ DOMAIN lines = 1 .. m + 2 /\ Len(lines) = m + 2
         /\ \A i \in 1 .. m : lines[i] = EncodeChunk(Chunk(pos, i))
         /\ lines[m + 1] = <<BACKTICK>> /\ lines[m + 2] = End
  /\ phase = "decode" =>
       \E pos : \E m \in Nat :
         /\ ChunksAs(pos, m) /\ pos[m] = Len(data)
         /\ Len(lines) = m + 2
         /\ \A i \in 1 .. m : DecodeLine(lines[i]) =
              [ok |-> TRUE, count |-> pos[i] - pos[i - 1], bytes |-> Chunk(pos, i)]
         /\ DecodeLine(lines[m + 1]) = [ok |-> TRUE, count |-> 0, bytes |-> <<>>]
         /\ StripCr(lines[m + 2]) = End
         /\ next \in 1 .. m + 1
         /\ decoded = SubSeq(data, 1, pos[next - 1])
  /\ phase = "done" => decoded = data /\ complete

LEMMA ChunkFacts ==
  ASSUME data \in Seq(Byte), NEW m \in Nat, NEW pos, ChunksAs(pos, m), NEW i \in 1 .. m
  PROVE  /\ pos[i - 1] \in 0 .. Len(data) /\ pos[i] \in 0 .. Len(data) /\ pos[i - 1] < pos[i]
         /\ Chunk(pos, i) \in Seq(Byte) /\ Len(Chunk(pos, i)) = pos[i] - pos[i - 1]
         /\ Len(Chunk(pos, i)) \in 1 .. 63
         /\ SubSeq(data, 1, pos[i - 1]) \o Chunk(pos, i) = SubSeq(data, 1, pos[i])
<1>. DEFINE a == pos[i - 1]
            b == pos[i]
<1>1. Len(data) \in Nat /\ i - 1 \in 0 .. m /\ i \in 0 .. m
  BY LenProperties
<1>2. a \in 0 .. Len(data) /\ b \in 0 .. Len(data) /\ a < b /\ b - a <= 63
  BY <1>1 DEF ChunksAs
<1>3. Chunk(pos, i) = SubSeq(data, a + 1, b)
  BY DEF Chunk
<1>. HIDE DEF a, b
<1>4. SubSeq(data, a + 1, b) \in Seq(Byte) /\ Len(SubSeq(data, a + 1, b)) = b - a
  BY <1>1, <1>2
<1>5. SubSeq(data, 1, a) \o SubSeq(data, a + 1, b) = SubSeq(data, 1, b)
  <2>1. 0 \in 0 .. Len(data) /\ a \in 0 .. Len(data) /\ b \in a .. Len(data) /\ 0 + 1 = 1
    BY <1>1, <1>2
  <2>2. SubSeq(data, 0 + 1, a) \o SubSeq(data, a + 1, b) = SubSeq(data, 0 + 1, b)
    BY <2>1, SubSeqJoin
  <2>. QED
    BY <2>1, <2>2
<1>6. b - a \in 1 .. 63
  BY <1>1, <1>2
<1>. QED
  BY <1>2, <1>3, <1>4, <1>5, <1>6, Zenon DEF a, b

LEMMA UuInitRead ==
  UuInit => UuRead
<1>. SUFFICES ASSUME UuInit  PROVE UuRead
  OBVIOUS
<1>1. data \in Seq(Byte) /\ next = 1 /\ lines = <<>> /\ phase = "encode" /\ decoded = <<>>
  BY DataAssumption DEF UuInit, Byte
<1>2. Len(data) \in Nat /\ Len(lines) = 0 /\ 1 .. 0 = {} /\ 0 .. 0 = {0}
  BY <1>1
<1>3. PICK pos : pos = [i \in 0 .. 0 |-> 0]
  OBVIOUS
<1>4. ChunksAs(pos, Len(lines)) /\ pos[Len(lines)] = next - 1
  BY <1>1, <1>2, <1>3 DEF ChunksAs
<1>5. next <= Len(data) + 1 /\ \A i \in 1 .. Len(lines) : lines[i] = EncodeChunk(Chunk(pos, i))
  BY <1>1, <1>2
<1>. QED
  BY <1>1, <1>4, <1>5 DEF UuRead

LEMMA EncodeLineKeepsRead ==
  UuInv /\ UuRead /\ EncodeLine => UuRead'
<1>. SUFFICES ASSUME UuInv, UuRead, EncodeLine  PROVE UuRead'
  OBVIOUS
<1>. DEFINE line == EncodeChunk(SubSeq(data, next, ChunkEnd))
            m == Len(lines)
            S == Seq(UuChar)
<1>1. /\ phase = "encode" /\ phase' = "encode" /\ data' = data /\ decoded' = decoded
      /\ next <= Len(data) /\ next' = ChunkEnd + 1 /\ lines' = Append(lines, line)
  BY DEF EncodeLine
<1>2. data \in Seq(Byte) /\ next \in Nat \ {0} /\ Len(data) \in Nat /\ lines \in Seq(S) /\ m \in Nat
  BY <1>1 DEF UuInv
<1>3. PICK pos : /\ ChunksAs(pos, m) /\ pos[m] = next - 1
                 /\ \A i \in 1 .. m : lines[i] = EncodeChunk(Chunk(pos, i))
  BY <1>1 DEF UuRead
<1>4. ChunkEnd \in next .. Len(data) /\ ChunkEnd - (next - 1) <= 63
  <2>. DEFINE k == Len(data)
  <2>1. k \in Nat /\ next \in Nat /\ next <= k /\ next >= 1 /\ MaxLine \in 1 .. 63
    BY <1>1, <1>2, MaxLineAssumption
  <2>2. ChunkEnd = IF next + MaxLine - 1 < k THEN next + MaxLine - 1 ELSE k
    BY DEF ChunkEnd
  <2>. HIDE DEF k
  <2>3. CASE next + MaxLine - 1 < k
    BY <2>1, <2>2, <2>3 DEF k
  <2>4. CASE ~(next + MaxLine - 1 < k)
    <3>1. k <= next + MaxLine - 1
      BY <2>1, <2>4
    <3>2. k - (next - 1) <= 63 /\ k \in next .. k
      BY <2>1, <3>1
    <3>. QED
      BY <2>2, <2>4, <3>2 DEF k
  <2>. QED
    BY <2>3, <2>4
<1>5. /\ DOMAIN lines' = 1 .. m + 1 /\ Len(lines') = m + 1
      /\ \A i \in 1 .. m : lines'[i] = lines[i]
      /\ lines'[m + 1] = line
  <2>. DEFINE T == S \cup {line}
  <2>1. lines \in Seq(T) /\ line \in T
    BY <1>2, SeqMonotonic
  <2>. HIDE DEF T, line, S
  <2>. QED
    BY <1>1, <1>2, <2>1, AppendProperties
<1>6. PICK posL : posL = [i \in 0 .. m + 1 |-> IF i = m + 1 THEN ChunkEnd ELSE pos[i]]
  OBVIOUS
<1>7. posL[m + 1] = ChunkEnd /\ \A i \in 0 .. m : posL[i] = pos[i]
  BY <1>2, <1>6
<1>8. pos \in [0 .. m -> 0 .. Len(data)] /\ pos[0] = 0
  BY <1>3 DEF ChunksAs
<1>9. posL \in [0 .. m + 1 -> 0 .. Len(data)] /\ posL[0] = 0
  <2>1. ChunkEnd \in 0 .. Len(data)
    BY <1>2, <1>4
  <2>2. ASSUME NEW i \in 0 .. m + 1  PROVE posL[i] \in 0 .. Len(data)
    <3>1. i = m + 1 \/ i \in 0 .. m
      BY <1>2
    <3>. QED
      BY <1>7, <1>8, <2>1, <3>1
  <2>3. 0 \in 0 .. m
    BY <1>2
  <2>. QED
    BY <1>6, <1>7, <1>8, <2>2, <2>3
<1>10. ASSUME NEW i \in 1 .. m + 1
       PROVE  /\ posL[i - 1] < posL[i] /\ posL[i] - posL[i - 1] <= 63
              /\ lines'[i] = EncodeChunk(Chunk(posL, i))
  <2>1. CASE i = m + 1
    <3>1. i - 1 = m /\ m \in 0 .. m
      BY <1>2, <2>1
    <3>2. posL[i - 1] = next - 1 /\ posL[i] = ChunkEnd
      BY <1>3, <1>7, <2>1, <3>1
    <3>3. (next - 1) + 1 = next
      BY <1>2
    <3>4. Chunk(posL, i) = SubSeq(data, next, ChunkEnd)
      BY <3>2, <3>3 DEF Chunk
    <3>5. next - 1 < ChunkEnd /\ ChunkEnd - (next - 1) <= 63
      BY <1>2, <1>4
    <3>6. lines'[i] = EncodeChunk(SubSeq(data, next, ChunkEnd))
      BY <1>5, <2>1, Zenon
    <3>. QED
      BY <3>2, <3>4, <3>5, <3>6, Zenon
  <2>2. CASE i # m + 1
    <3>1. i \in 1 .. m /\ i \in 0 .. m /\ i - 1 \in 0 .. m
      BY <1>2, <2>2
    <3>2. posL[i - 1] = pos[i - 1] /\ posL[i] = pos[i]
      BY <1>7, <3>1
    <3>3. Chunk(posL, i) = Chunk(pos, i)
      BY <3>2 DEF Chunk
    <3>. QED
      BY <1>3, <1>5, <3>1, <3>2, <3>3 DEF ChunksAs
  <2>. QED
    BY <2>1, <2>2
<1>11. \A i \in 1 .. m + 1 : SubSeq(data', posL[i - 1] + 1, posL[i]) = Chunk(posL, i)
  BY <1>1 DEF Chunk
<1>12. ChunksAs(posL, Len(lines))'
  <2>. HIDE DEF m
  <2>1. Len(lines') = m + 1 /\ data' = data
    BY <1>1, <1>5
  <2>2. \A i \in 1 .. m + 1 : posL[i - 1] < posL[i] /\ posL[i] - posL[i - 1] <= 63
    BY <1>10
  <2>. QED
    BY <1>9, <2>1, <2>2, Zenon DEF ChunksAs
<1>13. \A i \in 1 .. m + 1 : lines'[i] = EncodeChunk(SubSeq(data', posL[i - 1] + 1, posL[i]))
  BY <1>10, <1>11
<1>14. next' <= Len(data') + 1 /\ posL[m + 1] = next' - 1
  BY <1>1, <1>2, <1>4, <1>7
<1>15. decoded' = <<>>
  BY <1>1 DEF UuRead
<1>16. \E p : /\ ChunksAs(p, Len(lines))' /\ p[Len(lines')] = next' - 1
              /\ \A i \in 1 .. Len(lines') : lines'[i] = EncodeChunk(SubSeq(data', p[i - 1] + 1, p[i]))
  <2>. HIDE DEF m
  <2>. QED
    BY <1>5, <1>12, <1>13, <1>14
<1>. QED
  BY <1>1, <1>14, <1>15, <1>16 DEF UuRead, ChunksAs, Chunk

LEMMA EncodeEndKeepsRead ==
  UuInv /\ UuRead /\ EncodeEnd => UuRead'
<1>. SUFFICES ASSUME UuInv, UuRead, EncodeEnd  PROVE UuRead'
  OBVIOUS
<1>. DEFINE last == <<<<BACKTICK>>, End>>
            m == Len(lines)
            S == Seq(UuChar)
<1>1. /\ phase = "encode" /\ phase' = "transport" /\ data' = data /\ decoded' = decoded
      /\ next > Len(data) /\ lines' = lines \o last
  BY DEF EncodeEnd
<1>2. data \in Seq(Byte) /\ next \in Nat \ {0} /\ Len(data) \in Nat /\ lines \in Seq(S) /\ m \in Nat
      /\ next <= Len(data) + 1
  BY <1>1 DEF UuInv, UuRead
<1>3. PICK pos : /\ ChunksAs(pos, m) /\ pos[m] = next - 1
                 /\ \A i \in 1 .. m : lines[i] = EncodeChunk(Chunk(pos, i))
  BY <1>1 DEF UuRead
<1>4. /\ DOMAIN lines' = 1 .. m + 2 /\ Len(lines') = m + 2
      /\ \A i \in 1 .. m : lines'[i] = lines[i]
      /\ lines'[m + 1] = <<BACKTICK>> /\ lines'[m + 2] = End
  <2>. DEFINE T == S \cup {<<BACKTICK>>, End}
  <2>1. lines \in Seq(T)
    BY <1>2, SeqMonotonic
  <2>2. <<BACKTICK>> \in T /\ End \in T
    OBVIOUS
  <2>. HIDE DEF T, S
  <2>3. last \in Seq(T) /\ Len(last) = 2 /\ last[1] = <<BACKTICK>> /\ last[2] = End
    BY <2>2
  <2>. HIDE DEF last
  <2>4. /\ Len(lines \o last) = m + 2 /\ lines \o last \in Seq(T)
        /\ \A i \in 1 .. m + 2 : (lines \o last)[i] = IF i <= m THEN lines[i] ELSE last[i - m]
    <3>1. /\ lines \o last \in Seq(T) /\ Len(lines \o last) = Len(lines) + Len(last)
          /\ \A i \in 1 .. Len(lines) + Len(last) :
               (lines \o last)[i] = IF i <= Len(lines) THEN lines[i] ELSE last[i - Len(lines)]
      BY <2>1, <2>3, ConcatProperties, Zenon
    <3>. QED
      BY <2>3, <3>1
  <2>5. DOMAIN lines' = 1 .. m + 2
    BY <1>1, <2>4, LenProperties
  <2>6. \A i \in 1 .. m : lines'[i] = lines[i]
    BY <1>1, <1>2, <2>4
  <2>7. lines'[m + 1] = last[1] /\ lines'[m + 2] = last[2]
    BY <1>1, <1>2, <2>4
  <2>. QED
    BY <1>1, <2>3, <2>4, <2>5, <2>6, <2>7
<1>5. pos[m] = Len(data')
  BY <1>1, <1>2, <1>3
<1>6. \A i \in 1 .. m : lines'[i] = EncodeChunk(SubSeq(data', pos[i - 1] + 1, pos[i]))
  BY <1>1, <1>3, <1>4 DEF Chunk
<1>7. decoded' = <<>>
  BY <1>1 DEF UuRead
<1>8. /\ pos \in [0 .. m -> 0 .. Len(data')] /\ pos[0] = 0
      /\ \A i \in 1 .. m : pos[i - 1] < pos[i] /\ pos[i] - pos[i - 1] <= 63
  BY <1>1, <1>3 DEF ChunksAs
<1>. HIDE DEF m, last
<1>. QED
  BY <1>1, <1>2, <1>4, <1>5, <1>6, <1>7, <1>8 DEF UuRead, ChunksAs, Chunk

LEMMA UuTransportKeepsRead ==
  UuInv /\ UuRead /\ Transport => UuRead'
<1>. SUFFICES ASSUME UuInv, UuRead, Transport  PROVE UuRead'
  OBVIOUS
<1>1. /\ phase = "transport" /\ phase' = "decode" /\ next' = 1 /\ data' = data /\ decoded' = decoded
      /\ DOMAIN lines' = DOMAIN lines
  BY DEF Transport, Carry
<1>2. ASSUME NEW i \in DOMAIN lines
      PROVE  IF lines[i] = End THEN lines'[i] = End
             ELSE \/ lines'[i] = lines[i]
                  \/ lines'[i] = Spaced(lines[i])
                  \/ lines'[i] = Trimmed(Spaced(lines[i]))
                  \/ lines'[i] = Append(lines[i], GARBAGE)
                  \/ lines'[i] = Append(lines[i], CR)
  BY DEF Transport, Carry
<1>3. data \in Seq(Byte)
  BY DEF UuInv
<1>4. PICK pos : \E m \in Nat :
         /\ ChunksAs(pos, m) /\ pos[m] = Len(data)
         /\ DOMAIN lines = 1 .. m + 2 /\ Len(lines) = m + 2
         /\ \A i \in 1 .. m : lines[i] = EncodeChunk(Chunk(pos, i))
         /\ lines[m + 1] = <<BACKTICK>> /\ lines[m + 2] = End
  BY <1>1 DEF UuRead
<1>5. PICK m \in Nat :
         /\ ChunksAs(pos, m) /\ pos[m] = Len(data)
         /\ DOMAIN lines = 1 .. m + 2 /\ Len(lines) = m + 2
         /\ \A i \in 1 .. m : lines[i] = EncodeChunk(Chunk(pos, i))
         /\ lines[m + 1] = <<BACKTICK>> /\ lines[m + 2] = End
  BY <1>4
<1>6. ASSUME NEW i \in 1 .. m
      PROVE  DecodeLine(lines'[i]) =
               [ok |-> TRUE, count |-> pos[i] - pos[i - 1], bytes |-> Chunk(pos, i)]
  <2>. DEFINE chunk == Chunk(pos, i)
  <2>1. chunk \in Seq(Byte) /\ Len(chunk) = pos[i] - pos[i - 1] /\ Len(chunk) \in 1 .. 63
    BY <1>3, <1>5, ChunkFacts
  <2>2. lines[i] = EncodeChunk(chunk) /\ i \in DOMAIN lines
    BY <1>5
  <2>. HIDE DEF chunk
  <2>3. lines[i] # End
    <3>1. lines[i][1] \in 33 .. 95
      BY <2>1, <2>2, ChunkLine DEF UuDataLine
    <3>2. End[1] = 101
      BY DEF End
    <3>. QED
      BY <3>1, <3>2
  <2>4. DecodeLine(lines'[i]) = [ok |-> TRUE, count |-> Len(chunk), bytes |-> chunk]
    <3>1. \/ lines'[i] = EncodeChunk(chunk)
          \/ lines'[i] = Spaced(EncodeChunk(chunk))
          \/ lines'[i] = Trimmed(Spaced(EncodeChunk(chunk)))
          \/ lines'[i] = Append(EncodeChunk(chunk), GARBAGE)
          \/ lines'[i] = Append(EncodeChunk(chunk), CR)
      BY <1>2, <2>2, <2>3
    <3>. QED
      BY <2>1, <3>1, CarriedDecodes
  <2>. QED
    BY <2>1, <2>4 DEF chunk
<1>7. DecodeLine(lines'[m + 1]) = [ok |-> TRUE, count |-> 0, bytes |-> <<>>]
  <2>1. m + 1 \in DOMAIN lines /\ lines[m + 1] = <<BACKTICK>>
    BY <1>5
  <2>2. <<BACKTICK>> # End
    <3>1. Len(<<BACKTICK>>) = 1 /\ Len(End) = 3
      BY DEF End
    <3>. QED
      BY <3>1
  <2>3. \/ lines'[m + 1] = <<BACKTICK>>
        \/ lines'[m + 1] = Spaced(<<BACKTICK>>)
        \/ lines'[m + 1] = Trimmed(Spaced(<<BACKTICK>>))
        \/ lines'[m + 1] = Append(<<BACKTICK>>, GARBAGE)
        \/ lines'[m + 1] = Append(<<BACKTICK>>, CR)
    BY <1>2, <2>1, <2>2
  <2>. QED
    BY <2>3, TerminatorDecodes
<1>8. StripCr(lines'[m + 2]) = End
  <2>1. m + 2 \in DOMAIN lines /\ lines[m + 2] = End
    BY <1>5
  <2>2. lines'[m + 2] = End
    BY <1>2, <2>1
  <2>3. End \in Seq(Nat) /\ End # <<>> /\ End[Len(End)] # CR
    BY DEF End, CR
  <2>. QED
    BY <2>2, <2>3, NoCr
<1>9. Len(lines') = m + 2
  <2>1. lines' = [i \in 1 .. m + 2 |-> lines'[i]]
    BY <1>5 DEF Transport, Carry
  <2>2. Len([i \in 1 .. m + 2 |-> lines'[i]]) = m + 2
    OBVIOUS
  <2>. QED
    BY <2>1, <2>2, Zenon
<1>10. pos \in [0 .. m -> 0 .. Len(data)] /\ pos[0] = 0
  BY <1>5 DEF ChunksAs
<1>11. next' \in 1 .. m + 1 /\ next' - 1 = 0
  BY <1>1
<1>12. decoded' = SubSeq(data', 1, pos[next' - 1])
  <2>1. decoded' = <<>>
    BY <1>1 DEF UuRead
  <2>. QED
    BY <1>10, <1>11, <2>1, SubSeqEmpty
<1>13. ChunksAs(pos, m)' /\ pos[m] = Len(data')
  BY <1>1, <1>5 DEF ChunksAs
<1>14. \A i \in 1 .. m : Chunk(pos, i)' = Chunk(pos, i)
  BY <1>1 DEF Chunk
<1>15. \A i \in 1 .. m : DecodeLine(lines'[i]) =
               [ok |-> TRUE, count |-> pos[i] - pos[i - 1], bytes |-> Chunk(pos, i)']
  BY <1>6, <1>14
<1>. QED
  BY <1>1, <1>7, <1>8, <1>9, <1>11, <1>12, <1>13, <1>15, Zenon DEF UuRead

LEMMA UuDecodeKeepsRead ==
  UuInv /\ UuRead /\ DecodeNextLine => UuRead'
<1>. SUFFICES ASSUME UuInv, UuRead, DecodeNextLine  PROVE UuRead'
  OBVIOUS
<1>. DEFINE result == DecodeLine(lines[next])
<1>1. /\ phase = "decode" /\ data' = data /\ lines' = lines
      /\ decoded' = decoded \o result.bytes
      /\ IF result.ok /\ result.count > 0
         THEN next' = next + 1 /\ phase' = phase
         ELSE /\ phase' = "done"
              /\ complete' = (result.ok /\ next < Len(lines) /\ StripCr(lines[next + 1]) = End)
  BY DEF DecodeNextLine
<1>. HIDE DEF result
<1>2. data \in Seq(Byte) /\ Len(data) \in Nat
  BY DEF UuInv
<1>3. PICK pos : \E m \in Nat :
         /\ ChunksAs(pos, m) /\ pos[m] = Len(data)
         /\ Len(lines) = m + 2
         /\ \A i \in 1 .. m : DecodeLine(lines[i]) =
              [ok |-> TRUE, count |-> pos[i] - pos[i - 1], bytes |-> Chunk(pos, i)]
         /\ DecodeLine(lines[m + 1]) = [ok |-> TRUE, count |-> 0, bytes |-> <<>>]
         /\ StripCr(lines[m + 2]) = End
         /\ next \in 1 .. m + 1
         /\ decoded = SubSeq(data, 1, pos[next - 1])
  BY <1>1 DEF UuRead
<1>4. PICK m \in Nat :
         /\ ChunksAs(pos, m) /\ pos[m] = Len(data)
         /\ Len(lines) = m + 2
         /\ \A i \in 1 .. m : DecodeLine(lines[i]) =
              [ok |-> TRUE, count |-> pos[i] - pos[i - 1], bytes |-> Chunk(pos, i)]
         /\ DecodeLine(lines[m + 1]) = [ok |-> TRUE, count |-> 0, bytes |-> <<>>]
         /\ StripCr(lines[m + 2]) = End
         /\ next \in 1 .. m + 1
         /\ decoded = SubSeq(data, 1, pos[next - 1])
  BY <1>3
<1>5. CASE next <= m
  <2>2. next \in 1 .. m
    BY <1>4, <1>5
  <2>3. result = [ok |-> TRUE, count |-> pos[next] - pos[next - 1], bytes |-> Chunk(pos, next)]
    BY <1>4, <2>2 DEF result
  <2>4. /\ pos[next - 1] \in 0 .. Len(data) /\ pos[next] \in 0 .. Len(data) /\ pos[next - 1] < pos[next]
        /\ SubSeq(data, 1, pos[next - 1]) \o Chunk(pos, next) = SubSeq(data, 1, pos[next])
    BY <1>2, <1>4, <2>2, ChunkFacts
  <2>5. result.ok /\ result.count > 0 /\ result.bytes = Chunk(pos, next)
    BY <1>2, <2>3, <2>4
  <2>6. next' = next + 1 /\ phase' = "decode"
    BY <1>1, <2>5
  <2>7. next' \in 1 .. m + 1 /\ next' - 1 = next
    BY <2>2, <2>6
  <2>8. decoded' = SubSeq(data', 1, pos[next' - 1])
    BY <1>1, <1>4, <2>4, <2>5, <2>7
  <2>9. ChunksAs(pos, m)' /\ pos[m] = Len(data') /\ Len(lines') = m + 2
    BY <1>1, <1>4 DEF ChunksAs
  <2>10. \A i \in 1 .. m : Chunk(pos, i)' = Chunk(pos, i)
    BY <1>1 DEF Chunk
  <2>11. /\ \A i \in 1 .. m : DecodeLine(lines'[i]) =
              [ok |-> TRUE, count |-> pos[i] - pos[i - 1], bytes |-> Chunk(pos, i)']
         /\ DecodeLine(lines'[m + 1]) = [ok |-> TRUE, count |-> 0, bytes |-> <<>>]
         /\ StripCr(lines'[m + 2]) = End
    BY <1>1, <1>4, <2>10
  <2>. QED
    BY <2>6, <2>7, <2>8, <2>9, <2>11, Zenon DEF UuRead
<1>6. CASE ~(next <= m)
  <2>1. next = m + 1 /\ next - 1 = m /\ next + 1 = m + 2 /\ next < Len(lines)
    BY <1>4, <1>6
  <2>2. result = [ok |-> TRUE, count |-> 0, bytes |-> <<>>]
    BY <1>4, <2>1 DEF result
  <2>3. result.ok /\ result.count = 0 /\ result.bytes = <<>>
    BY <2>2
  <2>4. phase' = "done" /\ complete'
    <3>1. ~(result.ok /\ result.count > 0)
      BY <2>3
    <3>2. phase' = "done" /\ complete' = (result.ok /\ next < Len(lines) /\ StripCr(lines[next + 1]) = End)
      BY <1>1, <3>1, Zenon
    <3>3. StripCr(lines[next + 1]) = End
      BY <1>4, <2>1, Zenon
    <3>. QED
      BY <2>1, <2>3, <3>2, <3>3
  <2>5. decoded = data
    BY <1>2, <1>4, <2>1, SubSeqFull
  <2>6. decoded' = data'
    BY <1>1, <1>2, <2>3, <2>5, ConcatEmptySeq
  <2>. QED
    BY <2>4, <2>6 DEF UuRead
<1>. QED
  BY <1>5, <1>6

LEMMA UuStepKeepsRead ==
  UuInv /\ UuRead /\ [UuNext]_uuVars => UuRead'
<1>. SUFFICES ASSUME UuInv, UuRead, [UuNext]_uuVars  PROVE UuRead'
  OBVIOUS
<1>1. CASE UNCHANGED uuVars
  <2>1. UNCHANGED <<phase, data, next, lines, decoded, complete>>
    BY <1>1 DEF uuVars
  <2>. QED
    BY <2>1 DEF UuRead, ChunksAs, Chunk
<1>. QED
  BY <1>1, EncodeLineKeepsRead, EncodeEndKeepsRead, UuTransportKeepsRead, UuDecodeKeepsRead DEF UuNext

-----------------------------------------------------------------------------
(* The codecs.                                                             *)

CodecInv ==
  /\ codec = "uu" => UuInv
  /\ codec = "yenc" => YencInv

LEMMA CodecStepKeepsInv ==
  CodecInv /\ [CodecNext]_<<uuVars, codec, yencOnly>> => CodecInv'
<1>. SUFFICES ASSUME CodecInv, [CodecNext]_<<uuVars, codec, yencOnly>>  PROVE CodecInv'
  OBVIOUS
<1>1. CASE UuStep
  <2>1. codec = "uu" /\ codec' = "uu" /\ UuNext
    BY <1>1 DEF UuStep
  <2>. QED
    BY <2>1, UuStepKeepsInv DEF CodecInv
<1>2. CASE YencStep
  <2>1. codec = "yenc" /\ codec' = "yenc" /\ Yenc!Next
    BY <1>2 DEF YencStep
  <2>. QED
    BY <2>1, YencStepKeepsInv DEF CodecInv
<1>3. CASE UNCHANGED <<uuVars, codec, yencOnly>>
  <2>1. UNCHANGED uuVars /\ UNCHANGED Yenc!vars /\ codec' = codec
    BY <1>3 DEF uuVars, Yenc!vars, yencOnly
  <2>. QED
    BY <2>1, UuStepKeepsInv, YencStepKeepsInv DEF CodecInv
<1>. QED
  BY <1>1, <1>2, <1>3 DEF CodecNext

\* What the encoders have written is safe, before and after every step.
THEOREM EncodersInvariance ==
  CodecSpec => []CodecInv
<1>1. CodecInit => CodecInv
  BY UuInitInv, YencInitInv DEF CodecInit, CodecInv
<1>. QED
  BY <1>1, CodecStepKeepsInv, PTL DEF CodecSpec

\* Where the data is on its way: in the encoder's lines, in what the transport
\* made of them, and in what is decoded already.
CodecRead ==
  /\ codec = "uu" => UuRead
  /\ codec = "yenc" => YencRead

LEMMA CodecStepKeepsRead ==
  CodecInv /\ CodecRead /\ [CodecNext]_<<uuVars, codec, yencOnly>> => CodecRead'
<1>. SUFFICES ASSUME CodecInv, CodecRead, [CodecNext]_<<uuVars, codec, yencOnly>>
              PROVE  CodecRead'
  OBVIOUS
<1>1. CASE UuStep
  <2>1. codec = "uu" /\ codec' = "uu" /\ UuNext
    BY <1>1 DEF UuStep
  <2>. QED
    BY <2>1, UuStepKeepsRead DEF CodecInv, CodecRead
<1>2. CASE YencStep
  <2>1. codec = "yenc" /\ codec' = "yenc" /\ Yenc!Next
    BY <1>2 DEF YencStep
  <2>. QED
    BY <2>1, YencStepKeepsRead DEF CodecInv, CodecRead
<1>3. CASE UNCHANGED <<uuVars, codec, yencOnly>>
  <2>1. UNCHANGED uuVars /\ UNCHANGED Yenc!vars /\ codec' = codec
    BY <1>3 DEF uuVars, Yenc!vars, yencOnly
  <2>. QED
    BY <2>1, UuStepKeepsRead, YencStepKeepsRead DEF CodecInv, CodecRead
<1>. QED
  BY <1>1, <1>2, <1>3 DEF CodecNext

THEOREM CodecsReading ==
  CodecSpec => []CodecRead
<1>1. CodecInit => CodecRead
  BY UuInitRead, YencInitRead DEF CodecInit, CodecRead
<1>. QED
  BY <1>1, CodecStepKeepsRead, EncodersInvariance, PTL DEF CodecSpec

\* No line of either encoder holds what a transport changes or takes for
\* framing, for every data, and for yEnc every line length
\* (uuencoding/src/encode.rs:26-57, yencoding/src/encode.rs:121-169).
THEOREM LinesAreWireSafe ==
  CodecSpec => []CodecsWireSafe
<1>1. CodecInv => CodecsWireSafe
  BY DEF CodecInv, UuInv, YencInv, CodecsWireSafe
<1>. QED
  BY <1>1, EncodersInvariance, PTL

\* What is encoded comes back, for every data, every line length and every
\* width of slices, whatever the transport did to the lines
\* (uuencoding/src/decode.rs:206-301, yencoding/src/decode.rs:216-299).
THEOREM EncodedComesBack ==
  CodecSpec => []CodecsRoundTrip
<1>1. CodecRead => CodecsRoundTrip
  BY DEF CodecRead, UuRead, YencRead, CodecsRoundTrip, RoundTrip, Yenc!RoundTrip
<1>. QED
  BY <1>1, CodecsReading, PTL
=============================================================================
