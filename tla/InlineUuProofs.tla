--------------------------- MODULE InlineUuProofs ---------------------------
(***************************************************************************)
(* Proofs about UuScan and InlineUu, for every message, every body range   *)
(* and every limit: the scanner agrees with decode(), what a damaged block *)
(* can cost, and what a sound block of the message is.                     *)
(*                                                                         *)
(* decode() looks for the line at which it stops, the scanner walks to it. *)
(* The proofs meet at that line: first what decode() returns is said in    *)
(* terms of it, then the invariant says which lines the scanner has passed.*)
(***************************************************************************)
EXTENDS InlineUu, DataFacts

Byte == 0 .. 255

-----------------------------------------------------------------------------
(* The bytes of some of the lines of a text.                               *)

LEMMA TextTypes ==
  ASSUME NEW t, IsText(t)
  PROVE  /\ Len(t) \in Nat /\ DOMAIN t = 1 .. Len(t) /\ t \in Seq(Range(t))
         /\ \A i \in 1 .. Len(t) : t[i].bytes \in Seq(Byte)
         /\ Unlimited \in Nat
<1>1. t \in Seq(Range(t))
  BY DEF IsText
<1>2. Len(t) \in Nat /\ DOMAIN t = 1 .. Len(t)
  BY <1>1, LenProperties
<1>. QED
  BY <1>1, <1>2, UnlimitedAssumption DEF IsText, Byte

LEMMA BytesEmpty ==
  ASSUME NEW t, NEW first \in Int
  PROVE  BytesOf(t, first, first - 1) = <<>>
<1>. DEFINE seqs == [i \in 1 .. (first - 1) - first + 1 |-> t[first + i - 1].bytes]
<1>1. (first - 1) - first + 1 = 0
  OBVIOUS
<1>2. seqs = <<>>
  BY <1>1
<1>3. BytesOf(t, first, first - 1) = FlattenSeq(seqs)
  BY DEF BytesOf
<1>. HIDE DEF seqs
<1>4. Len(seqs) = 0
  BY <1>2
<1>5. FlattenSeq(seqs) = seqs
  BY <1>4, Zenon DEF FlattenSeq
<1>. QED
  BY <1>2, <1>3, <1>5

\* The sequences of bytes that are put together.
LEMMA LinesBytes ==
  ASSUME NEW t, IsText(t), NEW first \in 1 .. Len(t) + 1, NEW last \in first - 1 .. Len(t)
  PROVE  [i \in 1 .. last - first + 1 |-> t[first + i - 1].bytes] \in Seq(Seq(Byte))
<1>1. Len(t) \in Nat /\ \A i \in 1 .. Len(t) : t[i].bytes \in Seq(Byte)
  BY TextTypes
<1>2. last - first + 1 \in Nat
  BY <1>1
<1>3. \A i \in 1 .. last - first + 1 : t[first + i - 1].bytes \in Seq(Byte)
  BY <1>1
<1>. QED
  BY <1>2, <1>3

LEMMA BytesTyped ==
  ASSUME NEW t, IsText(t), NEW first \in 1 .. Len(t) + 1, NEW last \in first - 1 .. Len(t)
  PROVE  BytesOf(t, first, last) \in Seq(Byte)
<1>. DEFINE seqs == [i \in 1 .. last - first + 1 |-> t[first + i - 1].bytes]
<1>1. seqs \in Seq(Seq(Byte))
  BY LinesBytes, Zenon
<1>2. BytesOf(t, first, last) = FlattenSeq(seqs)
  BY DEF BytesOf
<1>. HIDE DEF seqs
<1>. QED
  BY <1>1, <1>2, FlattenTyped

LEMMA BytesAppend ==
  ASSUME NEW t, IsText(t), NEW first \in 1 .. Len(t), NEW last \in first .. Len(t)
  PROVE  BytesOf(t, first, last) = BytesOf(t, first, last - 1) \o t[last].bytes
<1>. DEFINE k == last - first
            before == [i \in 1 .. (last - 1) - first + 1 |-> t[first + i - 1].bytes]
            all == [i \in 1 .. last - first + 1 |-> t[first + i - 1].bytes]
<1>1. Len(t) \in Nat /\ \A i \in 1 .. Len(t) : t[i].bytes \in Seq(Byte)
  BY TextTypes
<1>2. /\ first \in 1 .. Len(t) + 1 /\ last - 1 \in first - 1 .. Len(t)
      /\ last \in first - 1 .. Len(t) /\ last \in 1 .. Len(t)
  BY <1>1
<1>3. before \in Seq(Seq(Byte)) /\ all \in Seq(Seq(Byte)) /\ t[last].bytes \in Seq(Byte)
  <2>1. before \in Seq(Seq(Byte))
    BY <1>2, LinesBytes, Zenon
  <2>2. all \in Seq(Seq(Byte))
    BY <1>2, LinesBytes, Zenon
  <2>. QED
    BY <1>1, <1>2, <2>1, <2>2
<1>4. k \in Nat /\ (last - 1) - first + 1 = k /\ last - first + 1 = k + 1
      /\ first + (k + 1) - 1 = last
  BY <1>1
<1>5. Len(before) = k /\ Len(all) = k + 1 /\ all[k + 1] = t[last].bytes
      /\ \A i \in 1 .. k : all[i] = before[i]
  BY <1>4
<1>6. BytesOf(t, first, last - 1) = FlattenSeq(before) /\ BytesOf(t, first, last) = FlattenSeq(all)
  BY DEF BytesOf
<1>. HIDE DEF before, all, k
<1>7. all = Append(before, t[last].bytes)
  <2>1. /\ Append(before, t[last].bytes) \in Seq(Seq(Byte))
        /\ Len(Append(before, t[last].bytes)) = k + 1
        /\ \A i \in 1 .. k : Append(before, t[last].bytes)[i] = before[i]
        /\ Append(before, t[last].bytes)[k + 1] = t[last].bytes
    BY <1>3, <1>5, AppendProperties
  <2>2. \A i \in 1 .. k + 1 : i \in 1 .. k \/ i = k + 1
    BY <1>4
  <2>3. \A i \in 1 .. Len(all) : all[i] = Append(before, t[last].bytes)[i]
    BY <1>5, <2>1, <2>2
  <2>. QED
    BY <1>3, <1>5, <2>1, <2>3, SeqEqual
<1>. QED
  BY <1>3, <1>6, <1>7, FlattenAppend

\* The bytes of the lines up to b and of those behind it.
LEMMA BytesSplit ==
  ASSUME NEW t, IsText(t), NEW a \in 1 .. Len(t) + 1, NEW b \in a - 1 .. Len(t),
         NEW c \in b .. Len(t)
  PROVE  BytesOf(t, a, c) = BytesOf(t, a, b) \o BytesOf(t, b + 1, c)
<1>. DEFINE Bad == {e \in b .. Len(t) :
                      BytesOf(t, a, e) # BytesOf(t, a, b) \o BytesOf(t, b + 1, e)}
            m == Min(Bad)
<1>1. Len(t) \in Nat /\ a \in Nat /\ b \in Nat /\ \A i \in 1 .. Len(t) : t[i].bytes \in Seq(Byte)
  BY TextTypes
<1>2. SUFFICES ASSUME Bad # {}  PROVE FALSE
  OBVIOUS
<1>3. Bad \in SUBSET Nat
  BY <1>1
<1>4. m \in Bad /\ \A y \in Bad : m <= y
  <2>. HIDE DEF Bad
  <2>. QED
    BY <1>2, <1>3, MinOfNat
<1>. HIDE DEF m
<1>5. m \in b .. Len(t) /\ BytesOf(t, a, m) # BytesOf(t, a, b) \o BytesOf(t, b + 1, m)
  BY <1>4
<1>6. BytesOf(t, a, b) \in Seq(Byte)
  BY <1>1, BytesTyped
<1>7. CASE m = b
  <2>1. BytesOf(t, b + 1, b) = <<>>
    <3>1. b + 1 \in Int /\ (b + 1) - 1 = b
      BY <1>1
    <3>. QED
      BY <3>1, BytesEmpty
  <2>. QED
    BY <1>5, <1>6, <1>7, <2>1, ConcatEmptySeq
<1>8. CASE m # b
  <2>1. /\ m - 1 \in b .. Len(t) /\ ~(m <= m - 1) /\ m \in a .. Len(t) /\ a \in 1 .. Len(t)
        /\ b + 1 \in 1 .. Len(t) /\ m \in b + 1 .. Len(t) /\ m \in 1 .. Len(t)
        /\ b + 1 \in 1 .. Len(t) + 1 /\ m - 1 \in (b + 1) - 1 .. Len(t)
    BY <1>1, <1>5, <1>8
  <2>2. BytesOf(t, a, m - 1) = BytesOf(t, a, b) \o BytesOf(t, b + 1, m - 1)
    BY <1>4, <2>1
  <2>3. BytesOf(t, a, m) = BytesOf(t, a, m - 1) \o t[m].bytes
    BY <2>1, BytesAppend
  <2>4. BytesOf(t, b + 1, m) = BytesOf(t, b + 1, m - 1) \o t[m].bytes
    BY <2>1, BytesAppend
  <2>5. BytesOf(t, b + 1, m - 1) \in Seq(Byte) /\ t[m].bytes \in Seq(Byte)
    BY <1>1, <2>1, BytesTyped
  <2>6. (BytesOf(t, a, b) \o BytesOf(t, b + 1, m - 1)) \o t[m].bytes
          = BytesOf(t, a, b) \o (BytesOf(t, b + 1, m - 1) \o t[m].bytes)
    <3>1. \A u, v, w \in Seq(Byte) : (u \o v) \o w = u \o (v \o w)
      BY ConcatAssociative
    <3>. QED
      BY <1>6, <2>5, <3>1
  <2>. QED
    BY <1>5, <2>2, <2>3, <2>4, <2>6
<1>. QED
  BY <1>7, <1>8

\* No run of lines decodes to more bytes than the limit.
LEMMA BytesBounded ==
  ASSUME NEW t, IsText(t), NEW a \in 1 .. Len(t) + 1, NEW c \in a - 1 .. Len(t)
  PROVE  Len(BytesOf(t, a, c)) \in Nat /\ Len(BytesOf(t, a, c)) <= Unlimited
<1>1. Len(t) \in Nat /\ Unlimited \in Nat
  BY TextTypes
<1>2. /\ 1 \in 1 .. Len(t) + 1 /\ a - 1 \in 1 - 1 .. Len(t) /\ Len(t) \in a - 1 .. Len(t)
      /\ (a - 1) + 1 = a /\ Len(t) \in c .. Len(t)
      /\ c + 1 \in 1 .. Len(t) + 1 /\ Len(t) \in (c + 1) - 1 .. Len(t)
      /\ Len(t) \in 1 - 1 .. Len(t)
  BY <1>1
<1>3. BytesOf(t, 1, Len(t)) = BytesOf(t, 1, a - 1) \o BytesOf(t, a, Len(t))
  BY <1>2, BytesSplit
<1>4. BytesOf(t, a, Len(t)) = BytesOf(t, a, c) \o BytesOf(t, c + 1, Len(t))
  BY <1>2, BytesSplit
<1>5. /\ BytesOf(t, 1, a - 1) \in Seq(Byte) /\ BytesOf(t, a, c) \in Seq(Byte)
      /\ BytesOf(t, c + 1, Len(t)) \in Seq(Byte) /\ BytesOf(t, a, Len(t)) \in Seq(Byte)
  BY <1>2, BytesTyped
<1>6. Len(BytesOf(t, 1, Len(t))) <= Unlimited
  BY DEF IsText
<1>7. /\ Len(BytesOf(t, 1, Len(t))) = Len(BytesOf(t, 1, a - 1)) + Len(BytesOf(t, a, Len(t)))
      /\ Len(BytesOf(t, a, Len(t))) = Len(BytesOf(t, a, c)) + Len(BytesOf(t, c + 1, Len(t)))
  BY <1>3, <1>4, <1>5, ConcatProperties
<1>8. /\ Len(BytesOf(t, 1, a - 1)) \in Nat /\ Len(BytesOf(t, a, c)) \in Nat
      /\ Len(BytesOf(t, c + 1, Len(t))) \in Nat
  BY <1>5, LenProperties
<1>. QED
  BY <1>1, <1>6, <1>7, <1>8

\* A slice of a text is one, and its lines are lines of the text.
LEMMA SliceOfText ==
  ASSUME NEW t, IsText(t), NEW b \in 0 .. Len(t), NEW e \in b .. Len(t)
  PROVE  /\ IsText(SubSeq(t, b + 1, e))
         /\ Len(SubSeq(t, b + 1, e)) = e - b
         /\ \A i \in 1 .. e - b : SubSeq(t, b + 1, e)[i] = t[b + i]
         /\ \A i \in 1 .. e - b + 1 : \A j \in i - 1 .. e - b :
              BytesOf(SubSeq(t, b + 1, e), i, j) = BytesOf(t, b + i, b + j)
<1>. DEFINE s == SubSeq(t, b + 1, e)
            n == e - b
<1>1. /\ Len(t) \in Nat /\ t \in Seq(Range(t)) /\ b \in Nat /\ e \in Nat /\ n \in Nat
      /\ b + 1 \in Int /\ e \in Int /\ DOMAIN t = 1 .. Len(t)
  BY TextTypes
<1>2. /\ s \in Seq(Range(t)) /\ Len(s) = n
      /\ \A i \in 1 .. n : s[i] = t[b + i]
  <2>1. \A i \in b + 1 .. e : t[i] \in Range(t)
    BY <1>1 DEF Range
  <2>2. /\ SubSeq(t, b + 1, e) \in Seq(Range(t))
        /\ Len(SubSeq(t, b + 1, e)) = IF b + 1 <= e THEN e - (b + 1) + 1 ELSE 0
        /\ \A i \in 1 .. e - (b + 1) + 1 : SubSeq(t, b + 1, e)[i] = t[(b + 1) + i - 1]
    BY <1>1, <2>1, SubSeqProperties
  <2>3. e - (b + 1) + 1 = n /\ (IF b + 1 <= e THEN e - (b + 1) + 1 ELSE 0) = n
        /\ \A i \in 1 .. n : (b + 1) + i - 1 = b + i
    BY <1>1
  <2>. QED
    BY <2>2, <2>3
<1>3. DOMAIN s = 1 .. n /\ s \in Seq(Range(s))
  BY <1>2, LenProperties, SeqOfRange
<1>4. \A i \in 1 .. n : b + i \in DOMAIN t
  BY <1>1
<1>. HIDE DEF s, n
<1>5. ASSUME NEW i \in 1 .. n + 1, NEW j \in i - 1 .. n
      PROVE  BytesOf(s, i, j) = BytesOf(t, b + i, b + j)
  <2>1. (b + j) - (b + i) + 1 = j - i + 1 /\ i \in Nat /\ j \in Nat
    BY <1>1
  <2>2. \A x \in 1 .. j - i + 1 : s[i + x - 1].bytes = t[(b + i) + x - 1].bytes
    <3>. SUFFICES ASSUME NEW x \in 1 .. j - i + 1
                  PROVE  s[i + x - 1].bytes = t[(b + i) + x - 1].bytes
      OBVIOUS
    <3>1. i + x - 1 \in 1 .. n /\ b + (i + x - 1) = (b + i) + x - 1
      BY <1>1, <2>1
    <3>2. s[i + x - 1] = t[b + (i + x - 1)]
      BY <1>2, <3>1
    <3>. QED
      BY <3>1, <3>2
  <2>3. [x \in 1 .. j - i + 1 |-> s[i + x - 1].bytes]
          = [x \in 1 .. j - i + 1 |-> t[(b + i) + x - 1].bytes]
    BY <2>2
  <2>4. [x \in 1 .. j - i + 1 |-> s[i + x - 1].bytes]
          = [x \in 1 .. (b + j) - (b + i) + 1 |-> t[(b + i) + x - 1].bytes]
    BY <2>1, <2>3
  <2>. QED
    BY <2>4, Zenon DEF BytesOf
<1>6. IsText(s)
  <2>1. \A i \in DOMAIN s :
          /\ s[i].bytes \in Seq(0 .. 255)
          /\ DecodesToZero(s[i]) => s[i].bytes = <<>>
    BY <1>2, <1>3, <1>4 DEF IsText
  <2>2. BytesOf(s, 1, n) = BytesOf(t, b + 1, b + n)
    BY <1>1, <1>5
  <2>3. b + 1 \in 1 .. Len(t) + 1 /\ b + n \in (b + 1) - 1 .. Len(t)
    BY <1>1 DEF n
  <2>4. Len(BytesOf(t, b + 1, b + n)) <= Unlimited
    BY <2>3, BytesBounded
  <2>. QED
    BY <1>2, <1>3, <2>1, <2>2, <2>4 DEF IsText
<1>. QED
  BY <1>2, <1>5, <1>6 DEF s, n

-----------------------------------------------------------------------------
(* What decode() returns, in terms of the line at which it stops.          *)

\* From the begin line on, no line before p stops decode().
DataTo(text, first, p) == \A i \in first + 1 .. p - 1 : DecodesToBytes(text[i])

\* decode() stops at a line that does not decode to bytes.
LEMMA DecodeStopped ==
  ASSUME NEW t, IsText(t), NEW first \in 1 .. Len(t), NEW p \in first + 1 .. Len(t),
         DataTo(t, first, p), ~DecodesToBytes(t[p])
  PROVE  LET d == DecodeFrom(t, first, Unlimited)
             before == BytesOf(t, first + 1, p - 1)
         IN  /\ d.error = "none"
             /\ d.data = IF Undecodable(t[p]) THEN before \o t[p].bytes ELSE before
             /\ d.truncated = ~(DecodesToZero(t[p]) /\ EndsAfter(t, p))
<1>. DEFINE from == first + 1
            stops == Stops(t, from, Unlimited)
            stop == IF stops = {} THEN Len(t) + 1 ELSE Min(stops)
            before == BytesOf(t, from, stop - 1)
            passed == Len(before) > Unlimited
            out == IF stops # {} /\ ~passed /\ Undecodable(t[stop])
                   THEN before \o t[stop].bytes ELSE before
            over == Len(out) > Unlimited
            data_ == IF over THEN SubSeq(out, 1, Unlimited) ELSE out
            ended == /\ stops # {} /\ ~passed
                     /\ DecodesToZero(t[stop])
                     /\ EndsAfter(t, stop)
            d == DecodeFrom(t, first, Unlimited)
<1>1. /\ Len(t) \in Nat /\ Unlimited \in Nat /\ first \in Nat /\ p \in Nat
      /\ from \in 1 .. Len(t) + 1 /\ from \in 1 .. Len(t)
      /\ p \in from .. Len(t) /\ p - 1 \in from - 1 .. Len(t)
      /\ from \in Nat
  BY TextTypes
<1>2. d = [error |-> "none", data |-> data_, truncated |-> ~ended \/ over, limited |-> over]
  BY Zenon DEF DecodeFrom
<1>. HIDE DEF d, data_, ended, over, out, passed, before, stop
<1>3. stops \in SUBSET Nat /\ p \in stops
  BY <1>1 DEF Stops
<1>4. \A y \in stops : p <= y
  <2>. SUFFICES ASSUME NEW y \in stops, y < p  PROVE FALSE
    BY <1>1, <1>3
  <2>1. y \in from .. Len(t) /\ y \in Nat
    BY <1>1 DEF Stops
  <2>2. DecodesToBytes(t[y])
    BY <1>1, <2>1 DEF DataTo
  <2>3. Len(BytesOf(t, from, y - 1)) > Unlimited
    BY <2>2 DEF Stops
  <2>4. y - 1 \in from - 1 .. Len(t)
    BY <1>1, <2>1
  <2>5. Len(BytesOf(t, from, y - 1)) \in Nat /\ Len(BytesOf(t, from, y - 1)) <= Unlimited
    BY <1>1, <2>4, BytesBounded
  <2>. QED
    BY <1>1, <2>3, <2>5
<1>. HIDE DEF stops, from
<1>5. stops # {} /\ stop = p
  BY <1>3, <1>4, MinUnique DEF stop
<1>6. before = BytesOf(t, from, p - 1) /\ Len(before) \in Nat /\ Len(before) <= Unlimited
  BY <1>1, <1>5, BytesBounded DEF before
<1>7. ~passed
  BY <1>1, <1>6 DEF passed
<1>8. out = IF Undecodable(t[p]) THEN before \o t[p].bytes ELSE before
  BY <1>5, <1>7 DEF out
<1>9. ~over
  <2>1. BytesOf(t, from, p) = before \o t[p].bytes
    BY <1>1, <1>6, BytesAppend
  <2>2. Len(BytesOf(t, from, p)) \in Nat /\ Len(BytesOf(t, from, p)) <= Unlimited
    <3>1. p \in from - 1 .. Len(t)
      BY <1>1
    <3>. QED
      BY <1>1, <3>1, BytesBounded
  <2>3. Len(out) \in Nat /\ Len(out) <= Unlimited
    BY <1>6, <1>8, <2>1, <2>2
  <2>. QED
    BY <1>1, <2>3 DEF over
<1>10. data_ = out
  BY <1>9 DEF data_
<1>11. ended = (DecodesToZero(t[p]) /\ EndsAfter(t, p))
  BY <1>5, <1>7, Zenon DEF ended
<1>12. d.truncated = ~(DecodesToZero(t[p]) /\ EndsAfter(t, p))
  <2>1. d.truncated = (~ended \/ over)
    BY <1>2
  <2>. QED
    BY <1>9, <1>11, <2>1, Zenon
<1>13. d.error = "none" /\ d.data = out
  BY <1>2, <1>10
<1>. QED
  BY <1>6, <1>8, <1>12, <1>13 DEF d, from

\* decode() runs out of lines.
LEMMA DecodeRanOut ==
  ASSUME NEW t, IsText(t), NEW first \in 1 .. Len(t), DataTo(t, first, Len(t) + 1)
  PROVE  LET d == DecodeFrom(t, first, Unlimited)
         IN  /\ d.error = "none"
             /\ d.data = BytesOf(t, first + 1, Len(t))
             /\ d.truncated = TRUE
<1>. DEFINE from == first + 1
            stops == Stops(t, from, Unlimited)
            stop == IF stops = {} THEN Len(t) + 1 ELSE Min(stops)
            before == BytesOf(t, from, stop - 1)
            passed == Len(before) > Unlimited
            out == IF stops # {} /\ ~passed /\ Undecodable(t[stop])
                   THEN before \o t[stop].bytes ELSE before
            over == Len(out) > Unlimited
            data_ == IF over THEN SubSeq(out, 1, Unlimited) ELSE out
            ended == /\ stops # {} /\ ~passed
                     /\ DecodesToZero(t[stop])
                     /\ EndsAfter(t, stop)
            d == DecodeFrom(t, first, Unlimited)
<1>1. /\ Len(t) \in Nat /\ Unlimited \in Nat /\ first \in Nat
      /\ from \in 1 .. Len(t) + 1 /\ from \in Nat
      /\ Len(t) \in from - 1 .. Len(t) /\ (Len(t) + 1) - 1 = Len(t)
  BY TextTypes
<1>2. d = [error |-> "none", data |-> data_, truncated |-> ~ended \/ over, limited |-> over]
  BY Zenon DEF DecodeFrom
<1>. HIDE DEF d, data_, ended, over, out, passed, before, stop
<1>3. stops = {}
  <2>. SUFFICES ASSUME NEW y \in stops  PROVE FALSE
    OBVIOUS
  <2>1. y \in from .. Len(t) /\ y \in Nat
    BY <1>1 DEF Stops
  <2>2. DecodesToBytes(t[y])
    BY <1>1, <2>1 DEF DataTo
  <2>3. Len(BytesOf(t, from, y - 1)) > Unlimited
    BY <2>2 DEF Stops
  <2>4. y - 1 \in from - 1 .. Len(t)
    BY <1>1, <2>1
  <2>5. Len(BytesOf(t, from, y - 1)) \in Nat /\ Len(BytesOf(t, from, y - 1)) <= Unlimited
    BY <1>1, <2>4, BytesBounded
  <2>. QED
    BY <1>1, <2>3, <2>5
<1>. HIDE DEF stops, from
<1>4. out = before /\ before = BytesOf(t, from, Len(t))
  BY <1>1, <1>3 DEF out, before, stop
<1>5. ~over
  <2>1. Len(BytesOf(t, from, Len(t))) \in Nat /\ Len(BytesOf(t, from, Len(t))) <= Unlimited
    BY <1>1, BytesBounded
  <2>. QED
    BY <1>1, <1>4, <2>1 DEF over
<1>6. data_ = out
  BY <1>5 DEF data_
<1>7. ~ended
  BY <1>3 DEF ended
<1>8. d.error = "none" /\ d.data = out /\ d.truncated = (~ended \/ over)
  BY <1>2, <1>6
<1>9. d.truncated = TRUE
  BY <1>7, <1>8, Zenon
<1>. QED
  BY <1>4, <1>8, <1>9 DEF d, from

\* decode() of a text that begins with a begin line.
LEMMA DecodeFromHere ==
  ASSUME NEW t, IsText(t), Len(t) >= 1, t[1].kind \in StandardBegins
  PROVE  DecodeLimited(t, Unlimited) = DecodeFrom(t, 1, Unlimited)
<1>. DEFINE begins == {i \in DOMAIN t : t[i].kind \in BeginKinds}
<1>1. Len(t) \in Nat /\ DOMAIN t = 1 .. Len(t)
  BY TextTypes
<1>2. 1 \in begins /\ begins \in SUBSET Nat /\ \A y \in begins : 1 <= y
  BY <1>1 DEF BeginKinds, StandardBegins
<1>. HIDE DEF begins
<1>3. Min(begins) = 1 /\ begins # {}
  BY <1>2, MinUnique
<1>4. DecodeLimited(t, Unlimited) =
        IF begins = {} THEN UuError("InvalidBeginLine")
        ELSE IF t[Min(begins)].kind \in Base64Begins THEN UuError("BeginBase64")
        ELSE DecodeFrom(t, Min(begins), Unlimited)
  BY DEF DecodeLimited, begins
<1>5. t[Min(begins)].kind \notin Base64Begins
  BY <1>3 DEF StandardBegins, Base64Begins
<1>. QED
  BY <1>3, <1>4, <1>5, Zenon

\* There is a line at which decode() stops, or it runs out of lines.
LEMMA StopOrNone ==
  ASSUME NEW t, IsText(t), NEW first \in 1 .. Len(t)
  PROVE  \/ DataTo(t, first, Len(t) + 1)
         \/ \E p \in first + 1 .. Len(t) : DataTo(t, first, p) /\ ~DecodesToBytes(t[p])
<1>. DEFINE at == {i \in first + 1 .. Len(t) : ~DecodesToBytes(t[i])}
<1>1. Len(t) \in Nat /\ first \in Nat
  BY TextTypes
<1>2. CASE at = {}
  <2>1. \A i \in first + 1 .. (Len(t) + 1) - 1 : DecodesToBytes(t[i])
    BY <1>1, <1>2
  <2>. QED
    BY <2>1 DEF DataTo
<1>3. CASE at # {}
  <2>1. at \in SUBSET Nat
    BY <1>1
  <2>2. PICK p : p \in at /\ \A y \in at : p <= y
    <3>. HIDE DEF at
    <3>. QED
      BY <1>3, <2>1, MinOfNat
  <2>3. p \in first + 1 .. Len(t) /\ ~DecodesToBytes(t[p])
    BY <2>2
  <2>4. ASSUME NEW i \in first + 1 .. p - 1  PROVE DecodesToBytes(t[i])
    <3>1. i \in first + 1 .. Len(t) /\ ~(p <= i)
      BY <1>1, <2>3
    <3>2. i \notin at
      BY <2>2, <3>1
    <3>. QED
      BY <3>1, <3>2
  <2>. QED
    BY <2>3, <2>4 DEF DataTo
<1>. QED
  BY <1>2, <1>3

\* An end line is found behind blank lines only.
LEMMA EndFound ==
  ASSUME NEW t, IsText(t), NEW p \in 1 .. Len(t), NEW q \in p + 1 .. Len(t),
         \A i \in p + 1 .. q - 1 : t[i].kind = "blank", t[q].kind \in EndKinds
  PROVE  EndsAfter(t, p)
BY DEF EndsAfter

LEMMA EndNotFound ==
  ASSUME NEW t, IsText(t), NEW p \in 1 .. Len(t), NEW q \in p .. Len(t),
         \A i \in p + 1 .. q : t[i].kind = "blank",
         q < Len(t) => t[q + 1].kind \notin {"blank"} \cup EndKinds
  PROVE  ~EndsAfter(t, p)
<1>. SUFFICES ASSUME EndsAfter(t, p)  PROVE FALSE
  OBVIOUS
<1>1. Len(t) \in Nat /\ p \in Nat /\ q \in Nat
  BY TextTypes
<1>2. PICK e \in p + 1 .. Len(t) :
        t[e].kind \in EndKinds /\ \A i \in p + 1 .. e - 1 : t[i].kind = "blank"
  BY DEF EndsAfter
<1>3. e > q
  <2>1. e \notin p + 1 .. q
    BY <1>2 DEF EndKinds
  <2>. QED
    BY <1>1, <1>2, <2>1
<1>4. q < Len(t) /\ e # q + 1
  BY <1>1, <1>2, <1>3
<1>5. q + 1 \in p + 1 .. e - 1
  BY <1>1, <1>2, <1>3, <1>4
<1>. QED
  BY <1>2, <1>4, <1>5

\* decode() makes the same of a block in place and of the input from its begin
\* line on.
LEMMA DecodeInPlace ==
  ASSUME NEW t, IsText(t), NEW b \in 0 .. Len(t) - 1, t[b + 1].kind \in StandardBegins
  PROVE  LET d == DecodeLimited(SubSeq(t, b + 1, Len(t)), Unlimited)
             e == DecodeFrom(t, b + 1, Unlimited)
         IN  d.error = e.error /\ d.data = e.data /\ d.truncated = e.truncated
<1>. DEFINE s == SubSeq(t, b + 1, Len(t))
            n == Len(t) - b
            d == DecodeFrom(s, 1, Unlimited)
            e == DecodeFrom(t, b + 1, Unlimited)
<1>1. /\ Len(t) \in Nat /\ b \in Nat /\ n \in Nat /\ n >= 1
      /\ b \in 0 .. Len(t) /\ Len(t) \in b .. Len(t) /\ b + 1 \in 1 .. Len(t)
      /\ b + n = Len(t)
  BY TextTypes
<1>2. /\ IsText(s) /\ Len(s) = n
      /\ \A i \in 1 .. n : s[i] = t[b + i]
      /\ \A i \in 1 .. n + 1 : \A j \in i - 1 .. n : BytesOf(s, i, j) = BytesOf(t, b + i, b + j)
  BY <1>1, SliceOfText
<1>. HIDE DEF s, n
<1>3. s[1] = t[b + 1] /\ 1 \in 1 .. Len(s)
  BY <1>1, <1>2
<1>4. DecodeLimited(s, Unlimited) = d
  BY <1>1, <1>2, <1>3, DecodeFromHere
<1>. HIDE DEF d, e
<1>5. CASE DataTo(t, b + 1, Len(t) + 1)
  <2>1. DataTo(s, 1, Len(s) + 1)
    <3>. SUFFICES ASSUME NEW i \in 1 + 1 .. (Len(s) + 1) - 1  PROVE DecodesToBytes(s[i])
      BY DEF DataTo
    <3>1. i \in 1 .. n /\ b + i \in (b + 1) + 1 .. (Len(t) + 1) - 1
      BY <1>1, <1>2
    <3>. QED
      BY <1>2, <1>5, <3>1 DEF DataTo
  <2>2. d.error = "none" /\ d.data = BytesOf(s, 1 + 1, n) /\ d.truncated = TRUE
    BY <1>2, <1>3, <2>1, DecodeRanOut DEF d
  <2>3. e.error = "none" /\ e.data = BytesOf(t, (b + 1) + 1, Len(t)) /\ e.truncated = TRUE
    BY <1>1, <1>5, DecodeRanOut DEF e
  <2>4. BytesOf(s, 1 + 1, n) = BytesOf(t, (b + 1) + 1, Len(t))
    <3>1. 2 \in 1 .. n + 1 /\ n \in 2 - 1 .. n /\ b + 2 = (b + 1) + 1 /\ 1 + 1 = 2
      BY <1>1
    <3>. QED
      BY <1>1, <1>2, <3>1
  <2>. QED
    BY <1>4, <2>2, <2>3, <2>4 DEF s, e
<1>6. ASSUME NEW p \in (b + 1) + 1 .. Len(t), DataTo(t, b + 1, p), ~DecodesToBytes(t[p])
      PROVE  d.error = e.error /\ d.data = e.data /\ d.truncated = e.truncated
  <2>. DEFINE k == p - b
  <2>1. /\ k \in 1 + 1 .. n /\ k \in 1 .. n /\ b + k = p /\ k \in Nat /\ p \in Nat
        /\ b + (k - 1) = p - 1 /\ k - 1 \in 2 - 1 .. n /\ 2 \in 1 .. n + 1
        /\ b + 2 = (b + 1) + 1 /\ p \in 1 .. Len(t)
    BY <1>1
  <2>. HIDE DEF k
  <2>2. s[k] = t[p]
    BY <1>2, <2>1
  <2>3. DataTo(s, 1, k)
    <3>. SUFFICES ASSUME NEW i \in 1 + 1 .. k - 1  PROVE DecodesToBytes(s[i])
      BY DEF DataTo
    <3>1. i \in 1 .. n /\ b + i \in (b + 1) + 1 .. p - 1
      BY <1>1, <2>1
    <3>. QED
      BY <1>2, <1>6, <3>1 DEF DataTo
  <2>4. BytesOf(s, 1 + 1, k - 1) = BytesOf(t, (b + 1) + 1, p - 1)
    <3>1. BytesOf(s, 2, k - 1) = BytesOf(t, b + 2, b + (k - 1))
      BY <1>2, <2>1
    <3>2. 1 + 1 = 2
      OBVIOUS
    <3>. QED
      BY <2>1, <3>1, <3>2
  <2>5. EndsAfter(s, k) <=> EndsAfter(t, p)
    <3>1. ASSUME EndsAfter(s, k)  PROVE EndsAfter(t, p)
      <4>1. PICK x \in k + 1 .. n :
              s[x].kind \in EndKinds /\ \A i \in k + 1 .. x - 1 : s[i].kind = "blank"
        BY <1>2, <3>1 DEF EndsAfter
      <4>2. x \in 1 .. n /\ b + x \in p + 1 .. Len(t)
        BY <1>1, <2>1
      <4>3. t[b + x].kind \in EndKinds
        BY <1>2, <4>1, <4>2
      <4>4. ASSUME NEW i \in p + 1 .. (b + x) - 1  PROVE t[i].kind = "blank"
        <5>1. i - b \in k + 1 .. x - 1 /\ i - b \in 1 .. n /\ b + (i - b) = i
          BY <1>1, <2>1, <4>2
        <5>2. s[i - b].kind = "blank"
          BY <4>1, <5>1
        <5>. QED
          BY <1>2, <5>1, <5>2
      <4>. QED
        BY <2>1, <4>2, <4>3, <4>4, EndFound
    <3>2. ASSUME EndsAfter(t, p)  PROVE EndsAfter(s, k)
      <4>1. PICK x \in p + 1 .. Len(t) :
              t[x].kind \in EndKinds /\ \A i \in p + 1 .. x - 1 : t[i].kind = "blank"
        BY <3>2 DEF EndsAfter
      <4>2. x - b \in k + 1 .. Len(s) /\ x - b \in 1 .. n /\ b + (x - b) = x /\ k \in 1 .. Len(s)
        BY <1>1, <1>2, <2>1
      <4>3. s[x - b].kind \in EndKinds
        BY <1>2, <4>1, <4>2
      <4>4. ASSUME NEW i \in k + 1 .. (x - b) - 1  PROVE s[i].kind = "blank"
        <5>1. b + i \in p + 1 .. x - 1 /\ i \in 1 .. n
          BY <1>1, <2>1, <4>2
        <5>. QED
          BY <1>2, <4>1, <5>1
      <4>. QED
        BY <1>2, <4>2, <4>3, <4>4, EndFound
    <3>. QED
      BY <3>1, <3>2
  <2>6. /\ d.error = "none"
        /\ d.data = IF Undecodable(s[k]) THEN BytesOf(s, 1 + 1, k - 1) \o s[k].bytes
                    ELSE BytesOf(s, 1 + 1, k - 1)
        /\ d.truncated = ~(DecodesToZero(s[k]) /\ EndsAfter(s, k))
    BY <1>2, <1>3, <1>6, <2>1, <2>2, <2>3, DecodeStopped DEF d
  <2>7. /\ e.error = "none"
        /\ e.data = IF Undecodable(t[p]) THEN BytesOf(t, (b + 1) + 1, p - 1) \o t[p].bytes
                    ELSE BytesOf(t, (b + 1) + 1, p - 1)
        /\ e.truncated = ~(DecodesToZero(t[p]) /\ EndsAfter(t, p))
    BY <1>1, <1>6, DecodeStopped DEF e
  <2>8. d.data = e.data
    BY <2>2, <2>4, <2>6, <2>7
  <2>9. d.truncated = e.truncated
    <3>1. DecodesToZero(s[k]) = DecodesToZero(t[p])
      BY <2>2
    <3>2. EndsAfter(s, k) = EndsAfter(t, p)
      BY <2>5, Zenon DEF EndsAfter
    <3>. QED
      BY <2>6, <2>7, <3>1, <3>2, Zenon
  <2>. QED
    BY <2>6, <2>7, <2>8, <2>9
<1>7. \/ DataTo(t, b + 1, Len(t) + 1)
      \/ \E p \in (b + 1) + 1 .. Len(t) : DataTo(t, b + 1, p) /\ ~DecodesToBytes(t[p])
  BY <1>1, StopOrNone
<1>. QED
  BY <1>4, <1>5, <1>6, <1>7 DEF s, e

-----------------------------------------------------------------------------
(* The invariant of the scan.                                              *)

\* Line p is the terminator of the block, and blank lines follow it up to q.
Terminated(text, first, p, q) ==
  /\ DataTo(text, first, p)
  /\ DecodesToZero(text[p])
  /\ \A i \in p + 1 .. q : text[i].kind = "blank"

\* The lines of a block that is not truncated.
CompleteBlock(text, r) ==
  \E p \in r.begin + 2 .. r.end - 1 :
    /\ Terminated(text, r.begin + 1, p, r.end - 1)
    /\ text[r.end].kind \in EndKinds
    /\ r.data = BytesOf(text, r.begin + 2, p - 1)

\* What decode() says of a block, read in place.
Agrees(text, r) ==
  LET d == DecodeFrom(text, r.begin + 1, Unlimited)
  IN  /\ d.error = "none"
      /\ d.truncated = r.truncated
      /\ \/ d.data = r.data
         \/ /\ Undecodable(text[r.end])
            /\ r.data = d.data \o text[r.end].bytes

ResultOk(text, r) ==
  /\ r.begin \in 0 .. Len(text) - 1
  /\ r.kind = "block" =>
       /\ r.end \in r.begin + 1 .. Len(text)
       /\ text[r.begin + 1].kind \in StandardBegins
       /\ Agrees(text, r)
       /\ ~r.truncated => CompleteBlock(text, r)

\* What the block at hand has read.
BlockRead ==
  /\ begin \in 0 .. pos - 1
  /\ input[begin + 1].kind \in StandardBegins
  /\ IF sawTerminator
     THEN \E p \in begin + 2 .. pos :
            /\ Terminated(input, begin + 1, p, pos)
            /\ data = BytesOf(input, begin + 2, p - 1)
     ELSE /\ DataTo(input, begin + 1, pos + 1)
          /\ data = BytesOf(input, begin + 2, pos)

ScanOk ==
  /\ IsText(input)
  /\ pos \in 0 .. Len(input)
  /\ results \in Seq(Range(results))
  /\ \A r \in DOMAIN results : ResultOk(input, results[r])
  /\ phase = "block" => BlockRead
  /\ phase = "base64" => InBase64(pos)
  /\ phase = "done" => pos = Len(input)

\* The block at hand begins at line i, or has read all lines up to it as data.
AtHand(i) ==
  /\ phase = "block"
  /\ begin <= i
  /\ \A j \in begin + 1 .. i : DecodesToBytes(input[j + 1])

\* What has become of a complete block: LossIsLocal, or it is at hand.
Accounted(i) ==
  \/ \E r \in Blocks : results[r].begin = i /\ ~results[r].truncated
  \/ InBase64(i)
  \/ ReadAsData(i)
  \/ \E r \in Blocks : results[r].truncated /\ results[r].end = i + 1
  \/ AtHand(i)

PassedSoFar == \A i \in 0 .. pos - 1 : CompleteAt(i) => Accounted(i)

ScanInv == ScanOk /\ PassedSoFar

-----------------------------------------------------------------------------
(* A result more.                                                          *)

LEMMA ResultsGrow ==
  ASSUME NEW before, before \in Seq(Range(before)), NEW r
  PROVE  LET after == Append(before, r)
         IN  /\ after \in Seq(Range(after))
             /\ Len(before) \in Nat /\ DOMAIN before = 1 .. Len(before)
             /\ DOMAIN after = 1 .. Len(before) + 1
             /\ \A i \in DOMAIN before : i \in DOMAIN after /\ after[i] = before[i]
             /\ after[Len(before) + 1] = r
<1>. DEFINE after == Append(before, r)
            S == Range(before) \cup {r}
<1>1. before \in Seq(S) /\ r \in S
  BY SeqMonotonic
<1>. HIDE DEF S
<1>2. /\ after \in Seq(S) /\ Len(after) = Len(before) + 1
      /\ \A i \in 1 .. Len(before) : after[i] = before[i]
      /\ after[Len(before) + 1] = r
  BY <1>1, AppendProperties
<1>. HIDE DEF after
<1>3. /\ Len(before) \in Nat /\ DOMAIN before = 1 .. Len(before)
      /\ DOMAIN after = 1 .. Len(after) /\ after \in Seq(Range(after))
  BY <1>1, <1>2, LenProperties, SeqOfRange
<1>4. \A i \in DOMAIN before : i \in DOMAIN after
  BY <1>2, <1>3
<1>. QED
  BY <1>2, <1>3, <1>4 DEF after

\* What is accounted for stays so.
LEMMA AccountedStays ==
  ASSUME input' = input,
         \A r \in DOMAIN results : r \in DOMAIN results' /\ results'[r] = results[r],
         NEW i, Accounted(i),
         AtHand(i) => phase' = "block" /\ begin' = begin
  PROVE  Accounted(i)'
<1>1. CASE \E r \in Blocks : results[r].begin = i /\ ~results[r].truncated
  BY <1>1 DEF Blocks, Accounted
<1>2. CASE InBase64(i)
  <2>1. InBase64(i)'
    BY <1>2 DEF InBase64
  <2>. QED
    BY <2>1 DEF Accounted
<1>3. CASE \E r \in Blocks : results[r].truncated /\ results[r].end = i + 1
  BY <1>3 DEF Blocks, Accounted
<1>4. CASE AtHand(i)
  <2>1. AtHand(i)'
    BY <1>4 DEF AtHand
  <2>. QED
    BY <2>1 DEF Accounted
<1>5. CASE ReadAsData(i)
  <2>1. ReadAsData(i)'
    BY <1>5 DEF ReadAsData, Blocks
  <2>. QED
    BY <2>1 DEF Accounted
<1>. QED
  BY <1>1, <1>2, <1>3, <1>4, <1>5 DEF Accounted

\* A line that begins no block is passed.
LEMMA PassedOneMore ==
  ASSUME ScanOk, PassedSoFar, input' = input, pos < Len(input), pos' = pos + 1,
         \A r \in DOMAIN results : r \in DOMAIN results' /\ results'[r] = results[r],
         phase = "block" => phase' = "block" /\ begin' = begin,
         \A i : i = pos /\ CompleteAt(i) => Accounted(i)'
  PROVE  PassedSoFar'
<1>. SUFFICES ASSUME NEW i \in (0 .. pos - 1)', CompleteAt(i)'  PROVE Accounted(i)'
  BY DEF PassedSoFar
<1>1. CompleteAt(i)
  BY DEF CompleteAt
<1>2. i \in 0 .. pos - 1 \/ i = pos
  BY DEF ScanOk
<1>3. CASE i \in 0 .. pos - 1
  <2>1. Accounted(i)
    BY <1>1, <1>3 DEF PassedSoFar
  <2>. QED
    BY <2>1, AccountedStays DEF AtHand
<1>4. CASE i = pos
  BY <1>1, <1>4
<1>. QED
  BY <1>2, <1>3, <1>4

\* A block is left: the new result must be right, and a complete block among
\* the lines passed must be the one at which this block broke off.
LEMMA LeaveBlockKeepsInv ==
  ASSUME ScanInv, phase = "block",
         NEW end, end \in pos .. Len(input), NEW bytes, NEW truncated \in BOOLEAN,
         LeaveBlock(end, bytes, truncated),
         Agrees(input, OkBlock(end, bytes, truncated)),
         ~truncated => CompleteBlock(input, OkBlock(end, bytes, truncated)),
         \A i \in pos .. end - 1 : CompleteAt(i) => truncated /\ end = i + 1
  PROVE  ScanInv'
<1>. DEFINE new == OkBlock(end, bytes, truncated)
            n == Len(results) + 1
<1>1. /\ IsText(input) /\ Len(input) \in Nat /\ pos \in 0 .. Len(input)
      /\ BlockRead /\ results \in Seq(Range(results))
      /\ \A r \in DOMAIN results : ResultOk(input, results[r])
  BY TextTypes DEF ScanInv, ScanOk
<1>2. /\ results' = Append(results, new) /\ pos' = end /\ phase' = "outer"
      /\ input' = input /\ begin' = begin
  BY DEF LeaveBlock, BlockFields
<1>3. /\ new.kind = "block" /\ new.begin = begin /\ new.end = end
      /\ new.data = bytes /\ new.truncated = truncated
  BY DEF OkBlock
<1>. HIDE DEF new
<1>4. /\ results' \in Seq(Range(results'))
      /\ Len(results) \in Nat /\ DOMAIN results = 1 .. Len(results)
      /\ DOMAIN results' = 1 .. n
      /\ \A r \in DOMAIN results : r \in DOMAIN results' /\ results'[r] = results[r]
      /\ results'[n] = new
  BY <1>1, <1>2, ResultsGrow
<1>5. ResultOk(input, new)
  <2>1. begin \in 0 .. pos - 1 /\ input[begin + 1].kind \in StandardBegins
    BY <1>1 DEF BlockRead
  <2>2. begin \in 0 .. Len(input) - 1 /\ end \in begin + 1 .. Len(input)
    BY <1>1, <2>1
  <2>. QED
    BY <1>3, <2>1, <2>2 DEF ResultOk, new
<1>6. n \in DOMAIN results' /\ \A r \in DOMAIN results' : r \in DOMAIN results \/ r = n
  BY <1>4
<1>7. \A r \in DOMAIN results' : ResultOk(input', results'[r])
  BY <1>1, <1>2, <1>4, <1>5, <1>6
<1>8. ScanOk'
  <2>1. pos' \in 0 .. Len(input)'
    BY <1>1, <1>2
  <2>2. IsText(input)'
    BY <1>1, <1>2
  <2>. QED
    BY <1>2, <1>4, <1>7, <2>1, <2>2 DEF ScanOk
<1>9. PassedSoFar'
  <2>. SUFFICES ASSUME NEW i \in (0 .. pos - 1)', CompleteAt(i)'  PROVE Accounted(i)'
    BY DEF PassedSoFar
  <2>1. CompleteAt(i)
    BY <1>2 DEF CompleteAt
  <2>2. n \in Blocks'
    BY <1>3, <1>4, <1>6 DEF Blocks
  <2>3. i \in 0 .. pos - 1 \/ i \in pos .. end - 1
    BY <1>1, <1>2
  <2>4. CASE i \in pos .. end - 1
    <3>1. truncated /\ end = i + 1
      BY <2>1, <2>4
    <3>. QED
      BY <1>3, <1>4, <2>2, <3>1 DEF Accounted
  <2>5. CASE i \in 0 .. pos - 1 /\ ~AtHand(i)
    <3>1. Accounted(i)
      BY <2>1, <2>5 DEF ScanInv, PassedSoFar
    <3>. QED
      BY <1>2, <1>4, <2>5, <3>1, AccountedStays
  <2>6. CASE i = begin
    <3>1. DecodeFrom(input, begin + 1, Unlimited).truncated = truncated
      BY <1>3 DEF Agrees, new
    <3>2. ~truncated
      BY <2>1, <2>6, <3>1 DEF CompleteAt
    <3>. QED
      BY <1>3, <1>4, <2>2, <2>6, <3>2 DEF Accounted
  <2>7. CASE i \in 0 .. pos - 1 /\ i # begin /\ AtHand(i)
    <3>1. begin \in 0 .. pos - 1
      BY <1>1 DEF BlockRead
    <3>2. new.begin < i /\ i < new.end
      BY <1>1, <1>3, <2>7, <3>1 DEF AtHand
    <3>3. \A j \in new.begin + 1 .. i : DecodesToBytes(input'[j + 1])
      BY <1>2, <1>3, <2>7 DEF AtHand
    <3>4. ReadAsData(i)'
      BY <1>4, <2>2, <3>2, <3>3 DEF ReadAsData
    <3>. QED
      BY <3>4 DEF Accounted
  <2>. QED
    BY <2>3, <2>4, <2>5, <2>6, <2>7
<1>. QED
  BY <1>8, <1>9 DEF ScanInv

\* Between blocks, and in a begin-base64 region.
LEMMA OutsideKeepsInv ==
  ScanInv /\ (SkipLine \/ MalformedBegin \/ EnterBase64 \/ SkipBase64 \/ ScanDone) => ScanInv'
<1>. SUFFICES ASSUME ScanInv,
                     SkipLine \/ MalformedBegin \/ EnterBase64 \/ SkipBase64 \/ ScanDone
              PROVE  ScanInv'
  OBVIOUS
<1>1. /\ IsText(input) /\ Len(input) \in Nat /\ pos \in 0 .. Len(input)
      /\ results \in Seq(Range(results))
      /\ \A r \in DOMAIN results : ResultOk(input, results[r])
      /\ ScanOk /\ PassedSoFar
  BY TextTypes DEF ScanInv, ScanOk
<1>2. CASE SkipLine
  <2>1. /\ pos < Len(input) /\ pos' = pos + 1 /\ phase = "outer" /\ phase' = "outer"
        /\ input' = input /\ results' = results /\ input[pos + 1].kind \notin StandardBegins
    BY <1>2 DEF SkipLine, Outer, HasLine, Line
  <2>2. ScanOk'
    BY <1>1, <2>1 DEF ScanOk
  <2>3. ~CompleteAt(pos)
    BY <2>1 DEF CompleteAt
  <2>4. PassedSoFar'
    BY <1>1, <2>1, <2>3, PassedOneMore
  <2>. QED
    BY <2>2, <2>4 DEF ScanInv
<1>3. CASE MalformedBegin
  <2>. DEFINE new == ErrAt("InvalidBeginLine", pos)
  <2>1. /\ pos < Len(input) /\ pos' = pos + 1 /\ phase = "outer" /\ phase' = "outer"
        /\ input' = input /\ results' = Append(results, new)
        /\ input[pos + 1].kind \in MalformedBegins
    BY <1>3 DEF MalformedBegin, Outer, HasLine, Line
  <2>2. new.kind = "InvalidBeginLine" /\ new.begin = pos
    BY DEF ErrAt
  <2>. HIDE DEF new
  <2>3. /\ results' \in Seq(Range(results'))
        /\ Len(results) \in Nat /\ DOMAIN results = 1 .. Len(results)
        /\ DOMAIN results' = 1 .. Len(results) + 1
        /\ \A r \in DOMAIN results : r \in DOMAIN results' /\ results'[r] = results[r]
        /\ results'[Len(results) + 1] = new
    BY <1>1, <2>1, ResultsGrow
  <2>4. \A r \in DOMAIN results' : r \in DOMAIN results \/ r = Len(results) + 1
    BY <2>3
  <2>5. ResultOk(input, new)
    <3>1. pos \in 0 .. Len(input) - 1
      BY <1>1, <2>1
    <3>. QED
      BY <2>2, <3>1 DEF ResultOk
  <2>6. \A r \in DOMAIN results' : ResultOk(input', results'[r])
    BY <1>1, <2>1, <2>3, <2>4, <2>5
  <2>7. ScanOk'
    BY <1>1, <2>1, <2>3, <2>6 DEF ScanOk
  <2>8. ~CompleteAt(pos)
    BY <2>1 DEF CompleteAt, StandardBegins, MalformedBegins
  <2>9. PassedSoFar'
    BY <1>1, <2>1, <2>3, <2>8, PassedOneMore
  <2>. QED
    BY <2>7, <2>9 DEF ScanInv
<1>4. CASE EnterBase64
  <2>. DEFINE new == ErrAt("BeginBase64", pos)
              n == Len(results) + 1
  <2>1. /\ pos < Len(input) /\ pos' = pos + 1 /\ phase = "outer" /\ phase' = "base64"
        /\ input' = input /\ results' = Append(results, new)
        /\ input[pos + 1].kind \in Base64Begins
    BY <1>4 DEF EnterBase64, Outer, HasLine, Line
  <2>2. new.kind = "BeginBase64" /\ new.begin = pos
    BY DEF ErrAt
  <2>. HIDE DEF new
  <2>3. /\ results' \in Seq(Range(results'))
        /\ Len(results) \in Nat /\ DOMAIN results = 1 .. Len(results)
        /\ DOMAIN results' = 1 .. n
        /\ \A r \in DOMAIN results : r \in DOMAIN results' /\ results'[r] = results[r]
        /\ results'[n] = new
    BY <1>1, <2>1, ResultsGrow
  <2>4. n \in DOMAIN results' /\ \A r \in DOMAIN results' : r \in DOMAIN results \/ r = n
    BY <2>3
  <2>5. ResultOk(input, new)
    <3>1. pos \in 0 .. Len(input) - 1
      BY <1>1, <2>1
    <3>. QED
      BY <2>2, <3>1 DEF ResultOk
  <2>6. \A r \in DOMAIN results' : ResultOk(input', results'[r])
    BY <1>1, <2>1, <2>3, <2>4, <2>5
  <2>7. InBase64(pos)'
    <3>1. \A j \in pos .. (pos + 1) - 1 : input[j + 1].kind # "rule"
      BY <1>1, <2>1 DEF Base64Begins
    <3>2. pos < pos + 1
      BY <1>1
    <3>. QED
      BY <2>1, <2>2, <2>3, <2>4, <3>1, <3>2 DEF InBase64
  <2>8. ScanOk'
    BY <1>1, <2>1, <2>3, <2>6, <2>7 DEF ScanOk
  <2>9. ~CompleteAt(pos)
    BY <2>1 DEF CompleteAt, StandardBegins, Base64Begins
  <2>10. PassedSoFar'
    BY <1>1, <2>1, <2>3, <2>9, PassedOneMore
  <2>. QED
    BY <2>8, <2>10 DEF ScanInv
<1>5. CASE SkipBase64 /\ HasLine
  <2>1. /\ pos < Len(input) /\ pos' = pos + 1 /\ phase = "base64"
        /\ phase' = IF input[pos + 1].kind = "rule" THEN "outer" ELSE "base64"
        /\ input' = input /\ results' = results
    BY <1>5 DEF SkipBase64, HasLine, Line
  <2>2. InBase64(pos)
    BY <1>1, <2>1 DEF ScanOk
  <2>3. phase' = "base64" => InBase64(pos)'
    <3>. SUFFICES ASSUME input[pos + 1].kind # "rule"  PROVE InBase64(pos)'
      BY <2>1
    <3>1. PICK r \in DOMAIN results :
            /\ results[r].kind = "BeginBase64" /\ results[r].begin < pos
            /\ \A j \in results[r].begin .. pos - 1 : input[j + 1].kind # "rule"
      BY <2>2 DEF InBase64
    <3>2. results[r].begin \in Int
      BY <1>1 DEF ResultOk
    <3>3. results[r].begin < pos + 1
      BY <1>1, <3>1, <3>2
    <3>4. ASSUME NEW j \in results[r].begin .. (pos + 1) - 1
          PROVE  input[j + 1].kind # "rule"
      <4>1. j \in results[r].begin .. pos - 1 \/ j = pos
        BY <1>1, <3>2
      <4>. QED
        BY <3>1, <4>1
    <3>. QED
      BY <2>1, <3>1, <3>3, <3>4 DEF InBase64
  <2>4. ScanOk'
    BY <1>1, <2>1, <2>3 DEF ScanOk
  <2>5. \A i : i = pos => Accounted(i)'
    BY <2>1, <2>2 DEF Accounted, InBase64
  <2>6. PassedSoFar'
    BY <1>1, <2>1, <2>5, PassedOneMore
  <2>. QED
    BY <2>4, <2>6 DEF ScanInv
<1>6. CASE (SkipBase64 /\ ~HasLine) \/ ScanDone
  <2>1. /\ pos' = pos /\ phase # "block" /\ phase' \in {"outer", "done"}
        /\ input' = input /\ results' = results /\ ~(pos < Len(input))
    BY <1>6 DEF SkipBase64, ScanDone, HasLine
  <2>2. ScanOk'
    BY <1>1, <2>1 DEF ScanOk
  <2>3. PassedSoFar'
    <3>. SUFFICES ASSUME NEW i \in 0 .. pos - 1, CompleteAt(i)'  PROVE Accounted(i)'
      BY <2>1 DEF PassedSoFar
    <3>1. Accounted(i)
      BY <1>1, <2>1 DEF PassedSoFar, CompleteAt
    <3>. QED
      BY <2>1, <3>1, AccountedStays DEF AtHand
  <2>. QED
    BY <2>2, <2>3 DEF ScanInv
<1>. QED
  BY <1>2, <1>3, <1>4, <1>5, <1>6

-----------------------------------------------------------------------------
(* Inside a block.                                                         *)

LEMMA InBlockTypes ==
  ASSUME ScanOk, phase = "block"
  PROVE  /\ IsText(input) /\ Len(input) \in Nat /\ pos \in 0 .. Len(input) /\ pos \in Nat
         /\ begin \in 0 .. pos - 1 /\ begin \in Nat /\ begin + 1 \in 1 .. Len(input)
         /\ input[begin + 1].kind \in StandardBegins
         /\ results \in Seq(Range(results))
         /\ \A r \in DOMAIN results : ResultOk(input, results[r])
<1>1. IsText(input) /\ pos \in 0 .. Len(input) /\ BlockRead
      /\ results \in Seq(Range(results))
      /\ \A r \in DOMAIN results : ResultOk(input, results[r])
  BY DEF ScanOk
<1>2. Len(input) \in Nat
  BY <1>1, TextTypes
<1>3. begin \in 0 .. pos - 1 /\ input[begin + 1].kind \in StandardBegins
  BY <1>1 DEF BlockRead
<1>. QED
  BY <1>1, <1>2, <1>3

LEMMA EnterBlockKeepsInv ==
  ScanInv /\ EnterBlock => ScanInv'
<1>. SUFFICES ASSUME ScanInv, EnterBlock  PROVE ScanInv'
  OBVIOUS
<1>1. /\ IsText(input) /\ Len(input) \in Nat /\ pos \in 0 .. Len(input)
      /\ ScanOk /\ PassedSoFar
  BY TextTypes DEF ScanInv, ScanOk
<1>2. /\ pos < Len(input) /\ pos' = pos + 1 /\ phase = "outer" /\ phase' = "block"
      /\ input' = input /\ results' = results /\ input[pos + 1].kind \in StandardBegins
      /\ begin' = pos /\ data' = <<>> /\ sawTerminator' = FALSE
  BY DEF EnterBlock, Outer, HasLine, Line
<1>3. DataTo(input, pos + 1, (pos + 1) + 1)
  BY <1>1 DEF DataTo
<1>4. BytesOf(input, pos + 2, pos + 1) = <<>>
  <2>1. pos + 2 \in Int /\ (pos + 2) - 1 = pos + 1
    BY <1>1
  <2>. QED
    BY <2>1, BytesEmpty
<1>5. BlockRead'
  <2>1. pos \in 0 .. (pos + 1) - 1
    BY <1>1
  <2>. QED
    BY <1>2, <1>3, <1>4, <2>1 DEF BlockRead
<1>6. ScanOk'
  BY <1>1, <1>2, <1>5 DEF ScanOk
<1>7. \A i : i = pos => Accounted(i)'
  <2>1. begin' <= pos /\ begin' + 1 .. pos = {}
    BY <1>1, <1>2
  <2>. QED
    BY <1>2, <2>1 DEF Accounted, AtHand
<1>8. PassedSoFar'
  BY <1>1, <1>2, <1>7, PassedOneMore
<1>. QED
  BY <1>6, <1>8 DEF ScanInv

\* The lines that leave the scanner in the block.
LEMMA ReadOnKeepsInv ==
  ScanInv /\ (Terminator \/ BlankAfterTerminator \/ DataLine) => ScanInv'
<1>. SUFFICES ASSUME ScanInv, Terminator \/ BlankAfterTerminator \/ DataLine  PROVE ScanInv'
  OBVIOUS
<1>1. ScanOk /\ PassedSoFar /\ phase = "block" /\ pos < Len(input) /\ BlockRead
  BY DEF ScanInv, ScanOk, Terminator, BlankAfterTerminator, DataLine, InBlock, HasLine
<1>2. /\ IsText(input) /\ Len(input) \in Nat /\ pos \in 0 .. Len(input) /\ pos \in Nat
      /\ begin \in 0 .. pos - 1 /\ begin \in Nat /\ begin + 1 \in 1 .. Len(input)
  BY <1>1, InBlockTypes
<1>3. /\ pos' = pos + 1 /\ phase' = "block" /\ input' = input /\ results' = results
      /\ begin' = begin
  BY <1>1 DEF Terminator, BlankAfterTerminator, DataLine, BlockFields
<1>4. ASSUME NEW i, i = pos, CompleteAt(i)  PROVE AtHand(i)'
  <2>1. CASE Terminator \/ BlankAfterTerminator
    BY <1>4, <2>1 DEF Terminator, BlankAfterTerminator, DecodesToZero, StandardBegins, Line,
                     CompleteAt
  <2>2. CASE DataLine
    <3>1. ~sawTerminator /\ DecodesToBytes(input[pos + 1])
      BY <2>2 DEF DataLine, Line
    <3>2. DataTo(input, begin + 1, pos + 1)
      BY <1>1, <3>1 DEF BlockRead
    <3>3. ASSUME NEW j \in begin + 1 .. pos  PROVE DecodesToBytes(input[j + 1])
      <4>1. j + 1 = pos + 1 \/ j + 1 \in (begin + 1) + 1 .. (pos + 1) - 1
        BY <1>2
      <4>. QED
        BY <3>1, <3>2, <4>1 DEF DataTo
    <3>4. begin <= pos
      BY <1>2
    <3>. QED
      BY <1>3, <1>4, <3>3, <3>4 DEF AtHand
  <2>. QED
    BY <2>1, <2>2
<1>5. PassedSoFar'
  <2>1. \A i : i = pos /\ CompleteAt(i) => Accounted(i)'
    BY <1>4 DEF Accounted
  <2>. QED
    BY <1>1, <1>3, <2>1, PassedOneMore
<1>6. pos + 1 \in 0 .. Len(input) /\ begin \in 0 .. (pos + 1) - 1
      /\ input[begin + 1].kind \in StandardBegins
  BY <1>1, <1>2 DEF BlockRead
<1>7. ASSUME BlockRead'  PROVE ScanInv'
  <2>1. ScanOk'
    BY <1>1, <1>2, <1>3, <1>6, <1>7 DEF ScanOk
  <2>. QED
    BY <1>5, <2>1 DEF ScanInv
<1>8. CASE Terminator
  <2>1. /\ ~sawTerminator /\ sawTerminator' = TRUE /\ data' = data
        /\ DecodesToZero(input[pos + 1])
    BY <1>8 DEF Terminator, Line
  <2>2. DataTo(input, begin + 1, pos + 1) /\ data = BytesOf(input, begin + 2, pos)
    BY <1>1, <2>1 DEF BlockRead
  <2>3. /\ pos + 1 \in begin + 2 .. pos + 1 /\ (pos + 1) - 1 = pos
        /\ (pos + 1) + 1 .. pos + 1 = {}
    BY <1>2
  <2>4. Terminated(input, begin + 1, pos + 1, pos + 1)
    BY <2>1, <2>2, <2>3 DEF Terminated
  <2>5. BlockRead'
    BY <1>3, <1>6, <2>1, <2>2, <2>3, <2>4 DEF BlockRead
  <2>. QED
    BY <1>7, <2>5
<1>9. CASE BlankAfterTerminator
  <2>1. /\ sawTerminator /\ sawTerminator' = sawTerminator /\ data' = data
        /\ input[pos + 1].kind = "blank"
    BY <1>9 DEF BlankAfterTerminator, Line, BlockFields
  <2>2. PICK p \in begin + 2 .. pos :
          Terminated(input, begin + 1, p, pos) /\ data = BytesOf(input, begin + 2, p - 1)
    BY <1>1, <2>1 DEF BlockRead
  <2>3. p \in begin + 2 .. pos + 1 /\ \A i \in p + 1 .. pos + 1 : i \in p + 1 .. pos \/ i = pos + 1
    BY <1>2, <2>2
  <2>4. Terminated(input, begin + 1, p, pos + 1)
    BY <2>1, <2>2, <2>3 DEF Terminated
  <2>5. BlockRead'
    BY <1>3, <1>6, <2>1, <2>2, <2>3, <2>4 DEF BlockRead
  <2>. QED
    BY <1>7, <2>5
<1>10. CASE DataLine
  <2>1. /\ ~sawTerminator /\ sawTerminator' = sawTerminator
        /\ data' = data \o input[pos + 1].bytes /\ DecodesToBytes(input[pos + 1])
    BY <1>10 DEF DataLine, Line
  <2>2. DataTo(input, begin + 1, pos + 1) /\ data = BytesOf(input, begin + 2, pos)
    BY <1>1, <2>1 DEF BlockRead
  <2>3. \A i \in (begin + 1) + 1 .. ((pos + 1) + 1) - 1 :
          i \in (begin + 1) + 1 .. (pos + 1) - 1 \/ i = pos + 1
    BY <1>2
  <2>4. DataTo(input, begin + 1, (pos + 1) + 1)
    BY <2>1, <2>2, <2>3 DEF DataTo
  <2>5. BytesOf(input, begin + 2, pos + 1) = data \o input[pos + 1].bytes
    <3>1. begin + 2 \in 1 .. Len(input) /\ pos + 1 \in begin + 2 .. Len(input)
          /\ (pos + 1) - 1 = pos
      BY <1>1, <1>2
    <3>. QED
      BY <1>2, <2>2, <3>1, BytesAppend
  <2>6. BlockRead'
    BY <1>3, <1>6, <2>1, <2>4, <2>5 DEF BlockRead
  <2>. QED
    BY <1>7, <2>6
<1>. QED
  BY <1>8, <1>9, <1>10

\* After the terminator decode() has the bytes of the block.
LEMMA TerminatorSeen ==
  ASSUME ScanOk, phase = "block", sawTerminator
  PROVE  LET d == DecodeFrom(input, begin + 1, Unlimited)
         IN  \E p \in begin + 2 .. pos :
               /\ Terminated(input, begin + 1, p, pos)
               /\ data = BytesOf(input, begin + 2, p - 1)
               /\ data \in Seq(Byte)
               /\ d.error = "none" /\ d.data = data
               /\ d.truncated = ~EndsAfter(input, p)
<1>. DEFINE d == DecodeFrom(input, begin + 1, Unlimited)
<1>1. PICK p \in begin + 2 .. pos :
        Terminated(input, begin + 1, p, pos) /\ data = BytesOf(input, begin + 2, p - 1)
  BY DEF ScanOk, BlockRead
<1>2. /\ IsText(input) /\ Len(input) \in Nat /\ pos \in 0 .. Len(input)
      /\ begin \in Nat /\ begin + 1 \in 1 .. Len(input)
  BY InBlockTypes
<1>3. /\ p \in (begin + 1) + 1 .. Len(input) /\ (begin + 1) + 1 = begin + 2
      /\ begin + 2 \in 1 .. Len(input) + 1 /\ p - 1 \in (begin + 2) - 1 .. Len(input)
  BY <1>1, <1>2
<1>4. DataTo(input, begin + 1, p) /\ DecodesToZero(input[p])
  BY <1>1 DEF Terminated
<1>5. ~DecodesToBytes(input[p]) /\ ~Undecodable(input[p])
  BY <1>4 DEF DecodesToZero, DecodesToBytes, CapitalKinds, Undecodable
<1>6. /\ d.error = "none"
      /\ d.data = IF Undecodable(input[p]) THEN BytesOf(input, (begin + 1) + 1, p - 1) \o input[p].bytes
                  ELSE BytesOf(input, (begin + 1) + 1, p - 1)
      /\ d.truncated = ~(DecodesToZero(input[p]) /\ EndsAfter(input, p))
  BY <1>2, <1>3, <1>4, <1>5, DecodeStopped
<1>. HIDE DEF d
<1>7. d.data = data
  BY <1>1, <1>3, <1>5, <1>6
<1>8. d.truncated = ~EndsAfter(input, p)
  BY <1>4, <1>6, Zenon
<1>9. data \in Seq(Byte)
  BY <1>1, <1>2, <1>3, BytesTyped
<1>. QED
  BY <1>1, <1>6, <1>7, <1>8, <1>9 DEF d

\* The lines at which the scanner leaves the block.
LEMMA EndLineKeepsInv ==
  ScanInv /\ EndLine => ScanInv'
<1>. SUFFICES ASSUME ScanInv, EndLine  PROVE ScanInv'
  OBVIOUS
<1>. DEFINE new == OkBlock(pos + 1, data, FALSE)
            d == DecodeFrom(input, begin + 1, Unlimited)
<1>1. /\ ScanOk /\ phase = "block" /\ pos < Len(input) /\ sawTerminator
      /\ input[pos + 1].kind \in EndKinds /\ LeaveBlock(pos + 1, data, FALSE)
  BY DEF ScanInv, EndLine, EndsBlock, InBlock, HasLine, Line
<1>2. /\ IsText(input) /\ Len(input) \in Nat /\ pos \in 0 .. Len(input) /\ begin \in Nat
  BY <1>1, InBlockTypes
<1>3. PICK p \in begin + 2 .. pos :
        /\ Terminated(input, begin + 1, p, pos)
        /\ data = BytesOf(input, begin + 2, p - 1)
        /\ d.error = "none" /\ d.data = data
        /\ d.truncated = ~EndsAfter(input, p)
  BY <1>1, TerminatorSeen
<1>. HIDE DEF d
<1>4. /\ new.begin = begin /\ new.end = pos + 1 /\ new.data = data /\ new.truncated = FALSE
  BY DEF OkBlock
<1>. HIDE DEF new
<1>5. EndsAfter(input, p)
  <2>1. p \in 1 .. Len(input) /\ pos + 1 \in p + 1 .. Len(input) /\ (pos + 1) - 1 = pos
    BY <1>1, <1>2, <1>3
  <2>2. \A i \in p + 1 .. pos : input[i].kind = "blank"
    BY <1>3 DEF Terminated
  <2>. QED
    BY <1>1, <1>2, <2>1, <2>2, EndFound
<1>6. d.truncated = FALSE
  BY <1>3, <1>5, Zenon
<1>7. Agrees(input, new)
  BY <1>3, <1>4, <1>6 DEF Agrees, d
<1>8. CompleteBlock(input, new)
  <2>1. (pos + 1) - 1 = pos
    BY <1>2
  <2>. QED
    BY <1>1, <1>3, <1>4, <2>1 DEF CompleteBlock
<1>9. \A i \in pos .. (pos + 1) - 1 : ~CompleteAt(i)
  <2>1. \A i \in pos .. (pos + 1) - 1 : i = pos
    BY <1>2
  <2>. QED
    BY <1>1, <2>1 DEF CompleteAt, EndKinds, StandardBegins
<1>10. pos + 1 \in pos .. Len(input)
  BY <1>1, <1>2
<1>. QED
  BY <1>1, <1>7, <1>8, <1>9, <1>10, LeaveBlockKeepsInv DEF new

\* A line after the terminator that is neither blank nor the end.
LEMMA NotEndedKeepsInv ==
  ScanInv /\ (SecondTerminator \/ DataAfterTerminator) => ScanInv'
<1>. SUFFICES ASSUME ScanInv, SecondTerminator \/ DataAfterTerminator  PROVE ScanInv'
  OBVIOUS
<1>. DEFINE new == OkBlock(pos, data, TRUE)
            d == DecodeFrom(input, begin + 1, Unlimited)
<1>1. /\ ScanOk /\ phase = "block" /\ pos < Len(input) /\ sawTerminator
      /\ input[pos + 1].kind \notin {"blank"} \cup EndKinds /\ LeaveBlock(pos, data, TRUE)
  BY DEF ScanInv, SecondTerminator, DataAfterTerminator, InBlock, HasLine, Line, DecodesToBytes,
         EndsBlock, EndKinds, CapitalKinds
<1>2. /\ IsText(input) /\ Len(input) \in Nat /\ pos \in 0 .. Len(input) /\ begin \in Nat
  BY <1>1, InBlockTypes
<1>3. PICK p \in begin + 2 .. pos :
        /\ Terminated(input, begin + 1, p, pos)
        /\ d.error = "none" /\ d.data = data
        /\ d.truncated = ~EndsAfter(input, p)
  BY <1>1, TerminatorSeen
<1>. HIDE DEF d
<1>4. /\ new.begin = begin /\ new.end = pos /\ new.data = data /\ new.truncated = TRUE
  BY DEF OkBlock
<1>. HIDE DEF new
<1>5. ~EndsAfter(input, p)
  <2>1. p \in 1 .. Len(input) /\ pos \in p .. Len(input)
    BY <1>1, <1>2, <1>3
  <2>2. \A i \in p + 1 .. pos : input[i].kind = "blank"
    BY <1>3 DEF Terminated
  <2>. QED
    BY <1>1, <1>2, <2>1, <2>2, EndNotFound
<1>6. d.truncated = TRUE
  BY <1>3, <1>5, Zenon
<1>7. Agrees(input, new)
  BY <1>3, <1>4, <1>6 DEF Agrees, d
<1>8. pos .. pos - 1 = {} /\ pos \in pos .. Len(input)
  BY <1>2
<1>. QED
  BY <1>1, <1>7, <1>8, LeaveBlockKeepsInv DEF new

LEMMA BadLineKeepsInv ==
  ScanInv /\ BadLine => ScanInv'
<1>. SUFFICES ASSUME ScanInv, BadLine  PROVE ScanInv'
  OBVIOUS
<1>. DEFINE line == input[pos + 1]
            new == OkBlock(pos + 1, data \o line.bytes, TRUE)
            d == DecodeFrom(input, begin + 1, Unlimited)
<1>1. /\ ScanOk /\ phase = "block" /\ pos < Len(input) /\ Undecodable(line)
      /\ ~(sawTerminator /\ line.kind \in EndKinds) /\ LeaveBlock(pos + 1, data \o line.bytes, TRUE)
  BY DEF ScanInv, BadLine, EndsBlock, InBlock, HasLine, Line
<1>2. /\ IsText(input) /\ Len(input) \in Nat /\ pos \in 0 .. Len(input) /\ begin \in Nat
      /\ begin \in 0 .. pos - 1 /\ begin + 1 \in 1 .. Len(input)
      /\ DOMAIN input = 1 .. Len(input)
  BY <1>1, InBlockTypes, TextTypes
<1>3. /\ new.begin = begin /\ new.end = pos + 1 /\ new.data = data \o line.bytes
      /\ new.truncated = TRUE
  BY DEF OkBlock
<1>. HIDE DEF new, d
<1>4. ASSUME sawTerminator  PROVE Agrees(input, new)
  <2>1. PICK p \in begin + 2 .. pos :
          /\ Terminated(input, begin + 1, p, pos)
          /\ data \in Seq(Byte)
          /\ d.error = "none" /\ d.data = data
          /\ d.truncated = ~EndsAfter(input, p)
    BY <1>1, <1>4, TerminatorSeen DEF d
  <2>2. line.kind \notin {"blank"} \cup EndKinds
    BY <1>1, <1>4 DEF Undecodable, DecodesToZero
  <2>3. ~EndsAfter(input, p)
    <3>1. p \in 1 .. Len(input) /\ pos \in p .. Len(input)
      BY <1>1, <1>2, <2>1
    <3>2. \A i \in p + 1 .. pos : input[i].kind = "blank"
      BY <2>1 DEF Terminated
    <3>. QED
      BY <1>1, <1>2, <2>2, <3>1, <3>2, EndNotFound
  <2>4. d.truncated = TRUE
    BY <2>1, <2>3, Zenon
  <2>. QED
    BY <1>1, <1>3, <2>1, <2>4 DEF Agrees, d
<1>5. ASSUME ~sawTerminator  PROVE Agrees(input, new)
  <2>1. DataTo(input, begin + 1, pos + 1) /\ data = BytesOf(input, begin + 2, pos)
    BY <1>1, <1>5 DEF ScanOk, BlockRead
  <2>2. ~DecodesToBytes(line) /\ ~DecodesToZero(line)
    BY <1>1 DEF Undecodable
  <2>3. /\ pos + 1 \in (begin + 1) + 1 .. Len(input) /\ (pos + 1) - 1 = pos
        /\ (begin + 1) + 1 = begin + 2
    BY <1>1, <1>2
  <2>4. /\ d.error = "none"
        /\ d.data = IF Undecodable(line)
                    THEN BytesOf(input, (begin + 1) + 1, (pos + 1) - 1) \o line.bytes
                    ELSE BytesOf(input, (begin + 1) + 1, (pos + 1) - 1)
        /\ d.truncated = ~(DecodesToZero(line) /\ EndsAfter(input, pos + 1))
    BY <1>2, <2>1, <2>2, <2>3, DecodeStopped DEF d
  <2>5. d.truncated = TRUE
    BY <2>2, <2>4, Zenon
  <2>6. d.data = data \o line.bytes
    BY <1>1, <2>1, <2>3, <2>4
  <2>. QED
    BY <1>3, <2>4, <2>5, <2>6 DEF Agrees, d
<1>6. Agrees(input, new)
  BY <1>4, <1>5
<1>7. /\ pos + 1 \in pos .. Len(input)
      /\ \A i \in pos .. (pos + 1) - 1 : pos + 1 = i + 1
  BY <1>1, <1>2
<1>. QED
  BY <1>1, <1>6, <1>7, LeaveBlockKeepsInv DEF new

LEMMA EndOfInputKeepsInv ==
  ScanInv /\ EndOfInput => ScanInv'
<1>. SUFFICES ASSUME ScanInv, EndOfInput  PROVE ScanInv'
  OBVIOUS
<1>. DEFINE new == OkBlock(Len(input), data, TRUE)
            d == DecodeFrom(input, begin + 1, Unlimited)
<1>1. /\ ScanOk /\ phase = "block" /\ ~(pos < Len(input))
      /\ LeaveBlock(Len(input), data, TRUE)
  BY DEF ScanInv, EndOfInput, HasLine
<1>2. /\ IsText(input) /\ Len(input) \in Nat /\ pos = Len(input) /\ begin \in Nat
      /\ begin \in 0 .. pos - 1 /\ begin + 1 \in 1 .. Len(input)
  BY <1>1, InBlockTypes
<1>3. /\ new.begin = begin /\ new.end = pos /\ new.data = data /\ new.truncated = TRUE
  BY <1>2 DEF OkBlock
<1>. HIDE DEF new, d
<1>4. ASSUME sawTerminator  PROVE Agrees(input, new)
  <2>1. PICK p \in begin + 2 .. pos :
          /\ Terminated(input, begin + 1, p, pos)
          /\ d.error = "none" /\ d.data = data
          /\ d.truncated = ~EndsAfter(input, p)
    BY <1>1, <1>4, TerminatorSeen DEF d
  <2>2. ~EndsAfter(input, p)
    <3>1. p \in 1 .. Len(input) /\ pos \in p .. Len(input) /\ ~(pos < Len(input))
      BY <1>1, <1>2, <2>1
    <3>2. \A i \in p + 1 .. pos : input[i].kind = "blank"
      BY <2>1 DEF Terminated
    <3>. QED
      BY <1>2, <3>1, <3>2, EndNotFound
  <2>3. d.truncated = TRUE
    BY <2>1, <2>2, Zenon
  <2>. QED
    BY <1>3, <2>1, <2>3 DEF Agrees, d
<1>5. ASSUME ~sawTerminator  PROVE Agrees(input, new)
  <2>1. DataTo(input, begin + 1, pos + 1) /\ data = BytesOf(input, begin + 2, pos)
    BY <1>1, <1>5 DEF ScanOk, BlockRead
  <2>2. /\ d.error = "none" /\ d.data = BytesOf(input, (begin + 1) + 1, Len(input))
        /\ d.truncated = TRUE
    BY <1>2, <2>1, DecodeRanOut DEF d
  <2>3. (begin + 1) + 1 = begin + 2
    BY <1>2
  <2>4. d.data = data
    BY <1>2, <2>1, <2>2, <2>3
  <2>. QED
    BY <1>3, <2>2, <2>4 DEF Agrees, d
<1>6. Agrees(input, new)
  BY <1>4, <1>5
<1>7. Len(input) \in pos .. Len(input) /\ pos .. Len(input) - 1 = {}
  BY <1>2
<1>. QED
  BY <1>1, <1>6, <1>7, LeaveBlockKeepsInv DEF new

\* The invariant of the scan is inductive.
LEMMA ScanInvStep ==
  ScanInv /\ [ScanNext]_vars => ScanInv'
<1>. SUFFICES ASSUME ScanInv, [ScanNext]_vars  PROVE ScanInv'
  OBVIOUS
<1>1. CASE SkipLine \/ MalformedBegin \/ EnterBase64 \/ SkipBase64 \/ ScanDone
  BY <1>1, OutsideKeepsInv
<1>2. CASE EnterBlock
  BY <1>2, EnterBlockKeepsInv
<1>3. CASE Terminator \/ BlankAfterTerminator \/ DataLine
  BY <1>3, ReadOnKeepsInv
<1>4. CASE EndLine
  BY <1>4, EndLineKeepsInv
<1>5. CASE SecondTerminator \/ DataAfterTerminator
  BY <1>5, NotEndedKeepsInv
<1>6. CASE BadLine
  BY <1>6, BadLineKeepsInv
<1>7. CASE EndOfInput
  BY <1>7, EndOfInputKeepsInv
<1>8. CASE UNCHANGED vars
  BY <1>8 DEF vars, BlockFields, ScanInv, ScanOk, PassedSoFar, BlockRead, Accounted, AtHand,
              CompleteAt, InBase64, ReadAsData, Blocks
<1>. QED
  BY <1>1, <1>2, <1>3, <1>4, <1>5, <1>6, <1>7, <1>8 DEF ScanNext, BlockNext

LEMMA ScanInitInv ==
  ScanInit /\ IsText(input) => ScanInv
<1>. SUFFICES ASSUME ScanInit, IsText(input)  PROVE ScanInv
  OBVIOUS
<1>1. pos = 0 /\ phase = "outer" /\ results = <<>> /\ DOMAIN results = {}
  BY DEF ScanInit
<1>2. Len(input) \in Nat /\ pos \in 0 .. Len(input) /\ 0 .. pos - 1 = {}
  BY <1>1, TextTypes
<1>3. results \in Seq(Range(results))
  BY <1>1, EmptySeq
<1>. QED
  BY <1>1, <1>2, <1>3 DEF ScanInv, ScanOk, PassedSoFar

\* What the invariant says of the results.
LEMMA ScanInvAgrees ==
  ScanInv => AgreesWithDecode /\ LossIsLocal
<1>. SUFFICES ASSUME ScanInv  PROVE AgreesWithDecode /\ LossIsLocal
  OBVIOUS
<1>1. /\ IsText(input) /\ PassedSoFar /\ Len(input) \in Nat
      /\ \A r \in DOMAIN results : ResultOk(input, results[r])
      /\ phase = "done" => pos = Len(input)
  BY TextTypes DEF ScanInv, ScanOk
<1>2. AgreesWithDecode
  <2>. SUFFICES ASSUME NEW r \in Blocks, NEW d, d = Decoded(results[r])
                PROVE  /\ d.error = "none"
                       /\ d.truncated = results[r].truncated
                       /\ \/ d.data = results[r].data
                          \/ /\ Undecodable(input[results[r].end])
                             /\ results[r].data = d.data \o input[results[r].end].bytes
    BY DEF AgreesWithDecode
  <2>1. ResultOk(input, results[r]) /\ results[r].kind = "block"
    BY <1>1 DEF Blocks
  <2>2. /\ results[r].begin \in 0 .. Len(input) - 1
        /\ input[results[r].begin + 1].kind \in StandardBegins
        /\ Agrees(input, results[r])
    BY <2>1 DEF ResultOk
  <2>3. LET e == DecodeFrom(input, results[r].begin + 1, Unlimited)
        IN  d.error = e.error /\ d.data = e.data /\ d.truncated = e.truncated
    BY <1>1, <2>2, DecodeInPlace DEF Decoded
  <2>. QED
    BY <2>2, <2>3 DEF Agrees
<1>3. LossIsLocal
  <2>. SUFFICES ASSUME phase = "done", NEW i \in 0 .. Len(input) - 1, CompleteAt(i)
                PROVE  \/ \E r \in Blocks : results[r].begin = i /\ ~results[r].truncated
                       \/ InBase64(i)
                       \/ ReadAsData(i)
                       \/ \E r \in Blocks : results[r].truncated /\ results[r].end = i + 1
    BY DEF LossIsLocal
  <2>1. Accounted(i)
    BY <1>1 DEF PassedSoFar
  <2>. QED
    BY <2>1 DEF Accounted, AtHand
<1>. QED
  BY <1>2, <1>3

(***************************************************************************)
(* scan() alone: its invariant, and what a caller may rely on, for every   *)
(* input (scan.rs).                                                        *)
(***************************************************************************)
THEOREM ScanInvariance ==
  Spec => []ScanInv
<1>1. Init => ScanInv
  BY ScanInitInv, InputsAssumption DEF Init
<1>. QED
  BY <1>1, ScanInvStep, PTL DEF Spec

\* The scanner and decode() agree on every block, and a damaged block costs a
\* neighbour at most, for every input (scan.rs:233-310).
THEOREM ScanAgreesWithDecode ==
  Spec => [](AgreesWithDecode /\ LossIsLocal)
BY ScanInvariance, ScanInvAgrees, PTL

-----------------------------------------------------------------------------
(* The blocks of a message.                                                *)

\* The lines of a complete block decode by themselves to its bytes.
LEMMA CompleteDecodes ==
  ASSUME NEW t, IsText(t), NEW r, ResultOk(t, r), r.kind = "block", ~r.truncated
  PROVE  LET d == DecodeLimited(SubSeq(t, r.begin + 1, r.end), Unlimited)
         IN  d.error = "none" /\ ~d.truncated /\ d.data = r.data
<1>. DEFINE b == r.begin
            e == r.end
            s == SubSeq(t, b + 1, e)
            n == e - b
            d == DecodeFrom(s, 1, Unlimited)
<1>1. /\ b \in 0 .. Len(t) - 1 /\ e \in b + 1 .. Len(t) /\ t[b + 1].kind \in StandardBegins
      /\ CompleteBlock(t, r)
  BY DEF ResultOk
<1>2. PICK p \in b + 2 .. e - 1 :
        /\ Terminated(t, b + 1, p, e - 1)
        /\ t[e].kind \in EndKinds
        /\ r.data = BytesOf(t, b + 2, p - 1)
  BY <1>1 DEF CompleteBlock
<1>. HIDE DEF b, e
<1>3. /\ Len(t) \in Nat /\ b \in Nat /\ e \in Nat /\ n \in Nat /\ p \in Nat
      /\ b \in 0 .. Len(t) /\ e \in b .. Len(t) /\ n >= 1 /\ b + n = e
  BY <1>1, <1>2, TextTypes
<1>4. /\ IsText(s) /\ Len(s) = n
      /\ \A i \in 1 .. n : s[i] = t[b + i]
      /\ \A i \in 1 .. n + 1 : \A j \in i - 1 .. n : BytesOf(s, i, j) = BytesOf(t, b + i, b + j)
  BY <1>3, SliceOfText
<1>. HIDE DEF s, n, d
<1>5. PICK k : k = p - b
  OBVIOUS
<1>6. /\ k \in 1 + 1 .. Len(s) /\ k \in 1 .. n /\ k \in 1 .. Len(s) /\ b + k = p /\ k \in Nat
      /\ n \in k + 1 .. Len(s) /\ n \in 1 .. n /\ 1 \in 1 .. n /\ 1 \in 1 .. Len(s)
      /\ 2 \in 1 .. n + 1 /\ k - 1 \in 2 - 1 .. n /\ b + (k - 1) = p - 1
  BY <1>2, <1>3, <1>4, <1>5 DEF n
<1>7. s[1].kind \in StandardBegins /\ s[k] = t[p] /\ s[n].kind \in EndKinds
  BY <1>1, <1>2, <1>3, <1>4, <1>6
<1>8. DataTo(s, 1, k)
  <2>. SUFFICES ASSUME NEW i \in 1 + 1 .. k - 1  PROVE DecodesToBytes(s[i])
    BY DEF DataTo
  <2>1. i \in 1 .. n /\ b + i \in (b + 1) + 1 .. p - 1
    BY <1>3, <1>6
  <2>. QED
    BY <1>2, <1>4, <2>1 DEF Terminated, DataTo
<1>9. ASSUME NEW i \in k + 1 .. n - 1  PROVE s[i].kind = "blank"
  <2>1. i \in 1 .. n /\ b + i \in p + 1 .. e - 1
    BY <1>3, <1>6
  <2>. QED
    BY <1>2, <1>4, <2>1 DEF Terminated
<1>10. EndsAfter(s, k)
  BY <1>4, <1>6, <1>7, <1>9, EndFound
<1>11. DecodesToZero(s[k]) /\ ~DecodesToBytes(s[k]) /\ ~Undecodable(s[k])
  BY <1>2, <1>7 DEF Terminated, DecodesToZero, DecodesToBytes, CapitalKinds, Undecodable
<1>12. /\ d.error = "none"
       /\ d.data = IF Undecodable(s[k]) THEN BytesOf(s, 1 + 1, k - 1) \o s[k].bytes
                   ELSE BytesOf(s, 1 + 1, k - 1)
       /\ d.truncated = ~(DecodesToZero(s[k]) /\ EndsAfter(s, k))
  BY <1>4, <1>6, <1>8, <1>11, DecodeStopped DEF d
<1>13. d.truncated = FALSE
  BY <1>10, <1>11, <1>12, Zenon
<1>14. d.data = r.data
  <2>1. BytesOf(s, 2, k - 1) = BytesOf(t, b + 2, b + (k - 1))
    BY <1>4, <1>6
  <2>2. 1 + 1 = 2
    OBVIOUS
  <2>. QED
    BY <1>2, <1>6, <1>11, <1>12, <2>1, <2>2
<1>15. DecodeLimited(s, Unlimited) = d
  BY <1>3, <1>4, <1>7, DecodeFromHere DEF d
<1>. QED
  BY <1>12, <1>13, <1>14, <1>15 DEF s, b, e

\* k lines of a text, behind the first o.
LinesAt(text, o, k) == SubSeq(text, o + 1, o + k)

\* Lines of a body are lines of the message.
LEMMA SliceOfBody ==
  ASSUME NEW t, IsText(t), NEW o \in Nat, NEW n \in Nat, o + n <= Len(t),
         NEW u, u = SubSeq(t, o + 1, o + n),
         NEW b \in 0 .. Len(u) - 1, NEW e \in b + 1 .. Len(u)
  PROVE  /\ t[o + b + 1] = u[b + 1]
         /\ SubSeq(t, o + b + 1, o + b + (e - b)) = SubSeq(u, b + 1, e)
<1>1. Len(t) \in Nat /\ t \in Seq(Range(t))
  BY TextTypes
<1>2. Len(u) = n /\ \A j \in 1 .. n : u[j] = t[o + j]
  <2>1. o \in 0 .. Len(t) /\ o + n \in o .. Len(t) /\ (o + n) - o = n
    BY <1>1
  <2>. QED
    BY <2>1, SliceOfText
<1>. DEFINE x == b + 1
<1>3. /\ b \in Nat /\ e \in Nat /\ x \in 1 .. n /\ e \in 1 .. n
      /\ o + b + 1 = o + x /\ o + b + (e - b) = o + e
  BY <1>1, <1>2
<1>. HIDE DEF x
<1>4. /\ o + 1 \in 1 .. Len(t) /\ o + n \in 1 .. Len(t)
      /\ (o + n) - (o + 1) + 1 = n
      /\ (o + 1) + x - 1 = o + x /\ (o + 1) + e - 1 = o + e
  BY <1>1, <1>3
<1>5. SubSeq(SubSeq(t, o + 1, o + n), x, e) = SubSeq(t, (o + 1) + x - 1, (o + 1) + e - 1)
  <2>1. x \in 1 .. (o + n) - (o + 1) + 1 /\ e \in 1 .. (o + n) - (o + 1) + 1
    BY <1>3, <1>4
  <2>. QED
    BY <1>1, <1>4, <2>1, SubSeqOfSubSeq
<1>. QED
  BY <1>2, <1>3, <1>4, <1>5 DEF x

\* A complete block of the body, sliced out of the message.
LEMMA SliceDecodes ==
  ASSUME NEW t, IsText(t), NEW o \in Nat, NEW n \in Nat, o + n <= Len(t),
         NEW u, u = LinesAt(t, o, n), IsText(u),
         NEW r, ResultOk(u, r), r.kind = "block", ~r.truncated,
         NEW d, d = DecodeLimited(LinesAt(t, o + r.begin, r.end - r.begin), Unlimited)
  PROVE  /\ t[o + r.begin + 1].kind \in StandardBegins
         /\ d.error = "none" /\ ~d.truncated /\ d.data = r.data
<1>1. /\ r.begin \in 0 .. Len(u) - 1 /\ r.end \in r.begin + 1 .. Len(u)
      /\ u[r.begin + 1].kind \in StandardBegins
  BY DEF ResultOk
<1>2. PICK b, e : b = r.begin /\ e = r.end
  OBVIOUS
<1>3. b \in 0 .. Len(u) - 1 /\ e \in b + 1 .. Len(u)
  BY <1>1, <1>2
<1>4. u = SubSeq(t, o + 1, o + n)
  BY DEF LinesAt
<1>5. /\ t[o + b + 1] = u[b + 1]
      /\ SubSeq(t, o + b + 1, o + b + (e - b)) = SubSeq(u, b + 1, e)
  <2>. HIDE DEF ResultOk
  <2>. QED
    BY <1>3, <1>4, SliceOfBody
<1>6. LET c == DecodeLimited(SubSeq(u, b + 1, e), Unlimited)
      IN  c.error = "none" /\ ~c.truncated /\ c.data = r.data
  BY <1>2, CompleteDecodes
<1>7. LinesAt(t, o + b, e - b) = SubSeq(u, b + 1, e)
  BY <1>5 DEF LinesAt
<1>. QED
  BY <1>1, <1>2, <1>5, <1>6, <1>7

\* The scanner walks over the lines of the body.
InlineInv ==
  /\ IsText(raw)
  /\ range \in Nat \X Nat
  /\ call = "slice" => input = <<>> /\ ScanInit
  /\ call = "scan" =>
       /\ range[1] + range[2] <= Len(raw)
       /\ input = SubSeq(raw, range[1] + 1, range[1] + range[2])
  /\ ScanInv
  /\ SoundSliceIsBlock

LEMMA ScanInitInvNext ==
  ScanInit' /\ IsText(input)' => ScanInv'
BY ScanInitInv, PTL

LEMMA InlineInitInv ==
  InlineInit => InlineInv
<1>. SUFFICES ASSUME InlineInit  PROVE InlineInv
  OBVIOUS
<1>1. IsText(raw) /\ range \in Nat \X Nat
  BY MessagesAssumption DEF InlineInit
<1>2. input = <<>> /\ inline = <<>> /\ ScanInit /\ call = "slice"
  BY DEF InlineInit
<1>3. IsText(input)
  <2>1. input \in Seq(Range(input)) /\ Len(input) = 0 /\ DOMAIN input = {}
    BY <1>2, EmptySeq
  <2>2. BytesOf(input, 1, 0) = <<>>
    <3>1. 1 - 1 = 0 /\ 1 \in Int
      OBVIOUS
    <3>. QED
      BY <3>1, BytesEmpty
  <2>3. Len(BytesOf(input, 1, 0)) <= Unlimited
    BY <2>2, UnlimitedAssumption
  <2>. QED
    BY <2>1, <2>3 DEF IsText
<1>4. ScanInv
  BY <1>2, <1>3, ScanInitInv
<1>5. SoundSliceIsBlock
  BY <1>2 DEF SoundSliceIsBlock
<1>. QED
  BY <1>1, <1>2, <1>4, <1>5 DEF InlineInv

LEMMA InlineInvStep ==
  InlineInv /\ [InlineNext]_inlineVars => InlineInv'
<1>. SUFFICES ASSUME InlineInv, [InlineNext]_inlineVars  PROVE InlineInv'
  OBVIOUS
<1>1. /\ IsText(raw) /\ Len(raw) \in Nat /\ raw \in Seq(Range(raw))
      /\ range \in Nat \X Nat /\ range[1] \in Nat /\ range[2] \in Nat
      /\ ScanInv /\ SoundSliceIsBlock
  BY TextTypes DEF InlineInv
<1>2. ASSUME raw' = raw, inline' = inline  PROVE SoundSliceIsBlock'
  BY <1>1, <1>2 DEF SoundSliceIsBlock, Extent
<1>3. CASE SliceBody
  <2>1. /\ call = "slice" /\ raw' = raw /\ range' = range /\ inline' = inline
        /\ ScanInit
    BY <1>3 DEF SliceBody, InlineInv
  <2>2. ScanInit'
    BY <1>3, <2>1 DEF SliceBody, BlockFields, ScanInit
  <2>3. SoundSliceIsBlock'
    BY <1>2, <2>1
  <2>4. CASE range[1] + range[2] <= Len(raw)
    <3>1. call' = "scan" /\ input' = SubSeq(raw, range[1] + 1, range[1] + range[2])
      BY <1>3, <2>4 DEF SliceBody
    <3>2. IsText(input')
      <4>1. range[1] \in 0 .. Len(raw) /\ range[1] + range[2] \in range[1] .. Len(raw)
        BY <1>1, <2>4
      <4>. QED
        BY <1>1, <3>1, <4>1, SliceOfText
    <3>3. ScanInv'
      BY <2>2, <3>2, ScanInitInvNext
    <3>. QED
      BY <1>1, <2>1, <2>3, <2>4, <3>1, <3>3 DEF InlineInv
  <2>5. CASE ~(range[1] + range[2] <= Len(raw))
    <3>1. call' = "returned" /\ input' = input
      BY <1>3, <2>5 DEF SliceBody
    <3>2. IsText(input')
      BY <1>1, <3>1 DEF ScanInv, ScanOk
    <3>3. ScanInv'
      BY <2>2, <3>2, ScanInitInvNext
    <3>. QED
      BY <1>1, <2>1, <2>3, <3>1, <3>3 DEF InlineInv
  <2>. QED
    BY <2>4, <2>5
<1>4. CASE ScanBody
  <2>1. /\ call = "scan" /\ call' = call /\ raw' = raw /\ range' = range /\ inline' = inline
        /\ ScanNext
    BY <1>4 DEF ScanBody
  <2>2. ScanInv'
    BY <1>1, <2>1, ScanInvStep
  <2>3. input' = input
    BY <2>1 DEF ScanNext, SkipLine, MalformedBegin, EnterBase64, SkipBase64, EnterBlock, ScanDone,
                BlockNext, EndLine, Terminator, BlankAfterTerminator, SecondTerminator, DataLine,
                DataAfterTerminator, BadLine, EndOfInput, LeaveBlock, BlockFields
  <2>4. SoundSliceIsBlock'
    BY <1>2, <2>1
  <2>. QED
    BY <1>1, <2>1, <2>2, <2>3, <2>4 DEF InlineInv
<1>5. CASE CollectBlocks
  <2>1. /\ call = "scan" /\ call' = "returned" /\ raw' = raw /\ range' = range
        /\ inline' = [i \in DOMAIN results |-> InlineBlock(results[i])]
        /\ UNCHANGED vars
    BY <1>5 DEF CollectBlocks
  <2>2. ScanInv'
    BY <1>1, <2>1, ScanInvStep
  <2>3. /\ range[1] + range[2] <= Len(raw)
        /\ input = SubSeq(raw, range[1] + 1, range[1] + range[2])
    BY <2>1 DEF InlineInv
  <2>4. SoundSliceIsBlock'
    <3>. DEFINE one == inline'
    <3>. SUFFICES ASSUME NEW i \in DOMAIN one, ~one[i].problem,
                         NEW d, d = DecodeLimited(Extent(one[i]), Unlimited)
                  PROVE  /\ raw[one[i].begin + 1].kind \in StandardBegins
                         /\ d.error = "none" /\ ~d.truncated
                         /\ d.data = one[i].data
      BY <2>1 DEF SoundSliceIsBlock, Extent
    <3>. DEFINE r == results[i]
    <3>1. i \in DOMAIN results /\ one[i] = InlineBlock(r)
      BY <2>1
    <3>. HIDE DEF one
    <3>2. r.kind = "block" /\ ~r.truncated
      BY <3>1 DEF InlineBlock
    <3>3. /\ one[i].begin = range[1] + r.begin /\ one[i].length = r.end - r.begin
          /\ one[i].data = r.data
      BY <3>1, <3>2 DEF InlineBlock
    <3>4. IsText(input) /\ ResultOk(input, r)
      BY <1>1, <3>1 DEF ScanInv, ScanOk
    <3>. HIDE DEF r
    <3>5. PICK o \in Nat, n \in Nat : o = range[1] /\ n = range[2]
      BY <1>1
    <3>6. o + n <= Len(raw) /\ input = LinesAt(raw, o, n) /\ IsText(raw)
      BY <1>1, <2>3, <3>5 DEF LinesAt
    <3>7. d = DecodeLimited(LinesAt(raw, o + r.begin, r.end - r.begin), Unlimited)
      BY <3>3, <3>5 DEF Extent, LinesAt
    <3>8. raw[o + r.begin + 1].kind \in StandardBegins /\ d.error = "none" /\ ~d.truncated /\ d.data = r.data
      BY <3>2, <3>4, <3>6, <3>7, SliceDecodes
    <3>. QED
      BY <3>3, <3>5, <3>8
  <2>. QED
    BY <1>1, <2>1, <2>2, <2>4 DEF InlineInv
<1>6. CASE UNCHANGED inlineVars
  <2>1. UNCHANGED <<vars, raw, range, call, inline>> /\ raw' = raw /\ inline' = inline
    BY <1>6 DEF inlineVars
  <2>2. ScanInv'
    BY <1>1, <2>1, ScanInvStep
  <2>3. SoundSliceIsBlock'
    BY <1>2, <2>1
  <2>. QED
    BY <2>1, <2>2, <2>3 DEF InlineInv, vars, BlockFields, ScanInit
<1>. QED
  BY <1>3, <1>4, <1>5, <1>6 DEF InlineNext

\* The invariant of scan_inline_uuencode.
THEOREM InlineInvariance ==
  InlineSpec => []InlineInv
BY InlineInitInv, InlineInvStep, PTL DEF InlineSpec

\* In every body of a message the scanner agrees with decode() on whether a
\* block is complete and on its bytes (scan.rs:255-305).
THEOREM BlocksAgreeWithDecode ==
  InlineSpec => []AgreesWithDecode
<1>1. InlineInv => AgreesWithDecode
  BY ScanInvAgrees DEF InlineInv
<1>. QED
  BY <1>1, InlineInvariance, PTL

\* A complete block that is not returned stands in a begin-base64 region, or
\* the block before it broke off at its begin line, or reads that line, which
\* is in capitals, as data (scan.rs:242-305).
THEOREM DamageStaysLocal ==
  InlineSpec => []LossIsLocal
<1>1. InlineInv => LossIsLocal
  BY ScanInvAgrees DEF InlineInv
<1>. QED
  BY <1>1, InlineInvariance, PTL

\* Sliced out of the message, a sound block is a complete UU block that
\* decodes by itself to the data returned (uuencode.rs:51-55).
THEOREM SoundBlocksDecode ==
  InlineSpec => []SoundSliceIsBlock
<1>1. InlineInv => SoundSliceIsBlock
  BY DEF InlineInv
<1>. QED
  BY <1>1, InlineInvariance, PTL

=============================================================================
