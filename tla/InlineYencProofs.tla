--------------------------- MODULE InlineYencProofs ---------------------------
(***************************************************************************)
(* Theorems about InlineYenc, for every message, every body range and      *)
(* every CRC function.                                                     *)
(***************************************************************************)
EXTENDS InlineYenc, SequenceTheorems, DataFacts, TLAPS

-----------------------------------------------------------------------------
(***************************************************************************)
(* What decode() makes of a slice depends only on the lines up to its      *)
(* first =yend line.                                                       *)
(***************************************************************************)
LEMMA DecodeOfPrefix ==
  ASSUME NEW T, NEW slice \in Seq(T), NEW e \in 1 .. Len(slice),
         slice[1].kind = "ybegin", slice[e].kind = "yend",
         \A i \in 1 .. e - 1 : slice[i].kind # "yend"
  PROVE  Decode(SubSeq(slice, 1, e)) = Decode(slice)
<1>. DEFINE article == SubSeq(slice, 1, e)
<1>1. Len(slice) \in Nat /\ e \in Nat /\ e >= 2 /\ e <= Len(slice)
  OBVIOUS
<1>2. article \in Seq(T) /\ Len(article) = e /\ \A i \in 1 .. e : article[i] = slice[i]
  BY <1>1
<1>. HIDE DEF article
<1>3. article[1] = slice[1] /\ article[2] = slice[2] /\ article[e] = slice[e]
  BY <1>1, <1>2
<1>. DEFINE first == DataStart(slice, 1)
<1>4. first = DataStart(article, 1)
  BY <1>3 DEF DataStart
<1>5. first \in {2, 3} /\ first <= e /\ first \in Nat
  BY <1>1 DEF DataStart
<1>6. ASSUME NEW s \in Seq(T), Len(s) >= e, \A i \in 1 .. e : s[i] = slice[i]
      PROVE  /\ LinesOf(s, "ybegin", 1) # {} /\ Min(LinesOf(s, "ybegin", 1)) = 1
             /\ LinesOf(s, "yend", first) # {} /\ Min(LinesOf(s, "yend", first)) = e
  <2>1. Len(s) \in Nat /\ s[1] = slice[1] /\ s[e] = slice[e]
    BY <1>1, <1>6
  <2>2. LinesOf(s, "ybegin", 1) \in SUBSET Nat /\ 1 \in LinesOf(s, "ybegin", 1)
        /\ \A y \in LinesOf(s, "ybegin", 1) : 1 <= y
    BY <1>1, <1>6, <2>1 DEF LinesOf
  <2>3. LinesOf(s, "yend", first) \in SUBSET Nat /\ e \in LinesOf(s, "yend", first)
    BY <1>1, <1>5, <1>6, <2>1 DEF LinesOf
  <2>4. \A y \in LinesOf(s, "yend", first) : e <= y
    BY <1>1, <1>5, <1>6, <2>1 DEF LinesOf
  <2>. QED
    BY <2>2, <2>3, <2>4, MinUnique
<1>7. /\ LinesOf(slice, "ybegin", 1) # {} /\ Min(LinesOf(slice, "ybegin", 1)) = 1
      /\ LinesOf(slice, "yend", first) # {} /\ Min(LinesOf(slice, "yend", first)) = e
  BY <1>1, <1>6
<1>8. /\ LinesOf(article, "ybegin", 1) # {} /\ Min(LinesOf(article, "ybegin", 1)) = 1
      /\ LinesOf(article, "yend", first) # {} /\ Min(LinesOf(article, "yend", first)) = e
  BY <1>1, <1>2, <1>6
<1>9. DataBetween(article, first, e) = DataBetween(slice, first, e)
  <2>1. \A i \in 1 .. e - first : article[first + i - 1] = slice[first + i - 1]
    BY <1>1, <1>2, <1>5
  <2>2. [i \in 1 .. e - first |-> article[first + i - 1].bytes]
          = [i \in 1 .. e - first |-> slice[first + i - 1].bytes]
    BY <2>1
  <2>. QED
    BY <2>2, Zenon DEF DataBetween
<1>10. 1 # Len(slice) /\ 1 # Len(article)
  BY <1>1, <1>2
<1>11. DecodeAt(article, 1) = DecodeAt(slice, 1)
  <2>. HIDE DEF first
  <2>1. article[1 + 1] = slice[1 + 1]
    BY <1>3
  <2>2. DataStart(slice, 1) = first /\ DataStart(article, 1) = first
    BY <1>4 DEF first
  <2>. QED
    BY <1>3, <1>7, <1>8, <1>9, <1>10, <2>1, <2>2, Zenon DEF DecodeAt
<1>. QED
  BY <1>7, <1>8, <1>11 DEF Decode, article

\* A slice that decodes holds a =yend line behind its =ybegin line.
LEMMA DecodedHasYend ==
  ASSUME NEW T, NEW slice \in Seq(T), slice # <<>>, slice[1].kind = "ybegin",
         Decode(slice).error = None
  PROVE  \E y \in 2 .. Len(slice) : slice[y].kind = "yend"
<1>1. Len(slice) \in Nat /\ Len(slice) >= 1
  OBVIOUS
<1>2. LinesOf(slice, "ybegin", 1) # {} /\ Min(LinesOf(slice, "ybegin", 1)) = 1
  BY <1>1, MinUnique DEF LinesOf
<1>3. DecodeAt(slice, 1).error = None
  BY <1>2 DEF Decode
<1>. DEFINE first == DataStart(slice, 1)
            yends == LinesOf(slice, "yend", first)
<1>4. \A error \in Errors : Failed(error).error # None
  BY NoneAssumption DEF Failed
<1>5. first \in {2, 3}
  BY DEF DataStart
<1>6. yends # {}
  <2>. SUFFICES ASSUME yends = {}  PROVE FALSE
    OBVIOUS
  <2>1. DecodeAt(slice, 1) \in {Failed("InvalidHeader"), Failed("UnexpectedEof")}
    BY DEF DecodeAt
  <2>. QED
    BY <1>3, <1>4, <2>1 DEF Errors
<1>. QED
  BY <1>1, <1>5, <1>6 DEF LinesOf

-----------------------------------------------------------------------------
(***************************************************************************)
(* One turn of the loop.                                                   *)
(***************************************************************************)
BodyOk == body \in Seq(Range(body)) /\ pos \in 0 .. Len(body)

\* The next =ybegin line, and the slice that decode_one_block is given.
LEMMA NextSlice ==
  ASSUME BodyOk, FindYbegin(pos) # {},
         NEW begin, begin = Min(FindYbegin(pos)) - 1
  PROVE  /\ begin \in pos .. Len(body) - 1
         /\ From(begin) \in Seq(Range(body))
         /\ Len(From(begin)) = Len(body) - begin
         /\ \A k \in 1 .. Len(body) - begin : From(begin)[k] = body[begin + k]
         /\ From(begin)[1].kind = "ybegin"
         /\ \A k \in pos + 1 .. begin : body[k].kind # "ybegin"
<1>1. Len(body) \in Nat /\ pos \in Nat /\ pos <= Len(body)
  BY DEF BodyOk
<1>2. FindYbegin(pos) \in SUBSET Nat
  BY <1>1 DEF FindYbegin, LinesOf
<1>3. /\ Min(FindYbegin(pos)) \in FindYbegin(pos)
      /\ \A y \in FindYbegin(pos) : Min(FindYbegin(pos)) <= y
  BY <1>2, MinOfNat
<1>4. begin \in pos .. Len(body) - 1 /\ body[begin + 1].kind = "ybegin"
  BY <1>1, <1>3 DEF FindYbegin, LinesOf
<1>5. \A k \in pos + 1 .. begin : body[k].kind # "ybegin"
  <2>. SUFFICES ASSUME NEW k \in pos + 1 .. begin, body[k].kind = "ybegin"  PROVE FALSE
    OBVIOUS
  <2>1. k \in FindYbegin(pos)
    BY <1>1, <1>4 DEF FindYbegin, LinesOf
  <2>2. Min(FindYbegin(pos)) = begin + 1
    BY <1>2, <1>3
  <2>3. begin + 1 <= k
    BY <1>3, <2>1, <2>2
  <2>. QED
    BY <1>1, <1>4, <2>3
<1>6. /\ From(begin) \in Seq(Range(body))
      /\ Len(From(begin)) = Len(body) - begin
      /\ \A k \in 1 .. Len(body) - begin : From(begin)[k] = body[begin + k]
  <2>1. begin + 1 \in Int /\ Len(body) \in Int /\ begin + 1 <= Len(body)
    BY <1>1, <1>4
  <2>2. \A k \in begin + 1 .. Len(body) : body[k] \in Range(body)
    BY <1>1, <1>4 DEF BodyOk, Range
  <2>3. /\ SubSeq(body, begin + 1, Len(body)) \in Seq(Range(body))
        /\ Len(SubSeq(body, begin + 1, Len(body))) = Len(body) - (begin + 1) + 1
        /\ \A k \in 1 .. Len(body) - (begin + 1) + 1 :
             SubSeq(body, begin + 1, Len(body))[k] = body[(begin + 1) + k - 1]
    BY <2>1, <2>2, SubSeqProperties
  <2>. QED
    BY <1>1, <1>4, <2>3 DEF From
<1>7. From(begin)[1].kind = "ybegin"
  BY <1>1, <1>4, <1>6
<1>. QED
  BY <1>4, <1>5, <1>6, <1>7

\* Without a problem exactly the lines up to the first =yend are consumed.
LEMMA Consumed ==
  ASSUME NEW T, NEW slice \in Seq(T), slice # <<>>, slice[1].kind = "ybegin",
         NEW one, one = DecodeOneBlock(slice)
  PROVE  /\ one.part = Decode(slice)
         /\ one.consumed \in 1 .. Len(slice)
         /\ one.problem => one.consumed = 1
         /\ one.problem \in BOOLEAN
         /\ Decode(slice).error = None
              /\ (\E k \in 1 .. Len(slice) : slice[k].kind \in {"yend", "yendbare"})
              => ~one.problem
         /\ ~one.problem =>
              /\ Decode(slice).error = None
              /\ slice[one.consumed].kind \in {"yend", "yendbare"}
              /\ \A k \in 1 .. one.consumed - 1 : slice[k].kind \notin {"yend", "yendbare"}
<1>. DEFINE ends == FindYendEnd(slice)
<1>1. Len(slice) \in Nat /\ Len(slice) >= 1
  OBVIOUS
<1>2. ends \in SUBSET Nat /\ ends \subseteq 1 .. Len(slice)
  BY DEF FindYendEnd
<1>3. ends # {} => Min(ends) \in ends /\ \A y \in ends : Min(ends) <= y
  BY <1>2, MinOfNat
<1>4. CASE Decode(slice).error = None /\ ends # {}
  <2>1. one = [part |-> Decode(slice), consumed |-> Min(ends), problem |-> FALSE]
    BY <1>4 DEF DecodeOneBlock
  <2>2. slice[Min(ends)].kind \in {"yend", "yendbare"} /\ Min(ends) \in 1 .. Len(slice)
    BY <1>2, <1>3, <1>4 DEF FindYendEnd
  <2>3. \A k \in 1 .. Min(ends) - 1 : slice[k].kind \notin {"yend", "yendbare"}
    <3>. SUFFICES ASSUME NEW k \in 1 .. Min(ends) - 1,
                         slice[k].kind \in {"yend", "yendbare"}
                  PROVE  FALSE
      OBVIOUS
    <3>1. k \in ends
      BY <2>2 DEF FindYendEnd
    <3>. QED
      BY <1>3, <2>2, <3>1
  <2>. QED
    BY <1>4, <2>1, <2>2, <2>3
<1>5. CASE ~(Decode(slice).error = None /\ ends # {})
  <2>1. one = [part |-> Decode(slice), consumed |-> 1, problem |-> TRUE]
    BY <1>5 DEF DecodeOneBlock
  <2>2. ends = {} => \A k \in 1 .. Len(slice) : slice[k].kind \notin {"yend", "yendbare"}
    BY DEF FindYendEnd
  <2>. QED
    BY <1>1, <1>5, <2>1, <2>2
<1>. QED
  BY <1>4, <1>5

-----------------------------------------------------------------------------
(***************************************************************************)
(* The inductive invariant.                                                *)
(***************************************************************************)
\* The body is the range of the message once it has been sliced.
ScanOk ==
  /\ raw \in Messages /\ range \in Ranges
  /\ BodyOk
  /\ phase = "slice" => pos = 0 /\ blocks = <<>> /\ body = <<>>
  /\ body # <<>> => InBounds /\ body = SubSeq(raw, Offset + 1, Offset + range[2])
  /\ phase = "done" => pos >= Len(body) \/ FindYbegin(pos) = {}
  /\ blocks \in Seq(Range(blocks))

\* The blocks found so far lie in front of the position.
Placed ==
  \A b \in DOMAIN blocks :
    /\ blocks[b].begin \in Nat /\ blocks[b].length \in Nat
    /\ blocks[b].begin + blocks[b].length <= Offset + pos

Ordered ==
  \A b \in DOMAIN blocks : \A later \in b + 1 .. Len(blocks) :
    blocks[b].begin + blocks[b].length <= blocks[later].begin

Complete == \A b \in DOMAIN blocks : ~blocks[b].problem => IsArticle(blocks[b])

ScanInv == ScanOk /\ Placed /\ Ordered /\ Complete

\* What IntactFound says of the articles behind the position.
FoundSoFar ==
  \A i \in LinesOf(body, "ybegin", 1) : \A j \in LinesOf(body, "yend", i) :
    i <= pos /\ Intact(i, j) => Found(i, j)

-----------------------------------------------------------------------------
LEMMA MessageTypes ==
  ASSUME ScanOk
  PROVE  /\ raw \in Seq(Range(raw)) /\ Len(raw) \in Nat
         /\ Offset \in Nat /\ range[2] \in Nat
         /\ Len(body) \in Nat /\ pos \in Nat /\ pos <= Len(body)
  BY MessagesAssumption, RangesAssumption DEF ScanOk, BodyOk, Offset

LEMMA SubSeqTwice ==
  ASSUME NEW T, NEW s \in Seq(T), NEW lo \in Nat, NEW n \in Nat, lo + n <= Len(s),
         NEW x \in 1 .. n, NEW y \in 1 .. n
  PROVE  SubSeq(SubSeq(s, lo + 1, lo + n), x, y) = SubSeq(s, lo + x, lo + y)
<1>1. Len(s) \in Nat
  OBVIOUS
<1>2. /\ lo + 1 \in 1 .. Len(s) /\ lo + n \in 1 .. Len(s)
      /\ x \in 1 .. (lo + n) - (lo + 1) + 1 /\ y \in 1 .. (lo + n) - (lo + 1) + 1
      /\ (lo + 1) + x - 1 = lo + x /\ (lo + 1) + y - 1 = lo + y
  BY <1>1
<1>3. SubSeq(SubSeq(s, lo + 1, lo + n), x, y) = SubSeq(s, (lo + 1) + x - 1, (lo + 1) + y - 1)
  BY <1>2, SubSeqOfSubSeq
<1>. QED
  BY <1>2, <1>3

\* A slice of the body as a slice of what follows a line of it, and as one of
\* the message.
LEMMA SliceOfBody ==
  ASSUME ScanOk, NEW begin \in 0 .. Len(body) - 1, NEW c \in 1 .. Len(body) - begin
  PROVE  /\ SubSeq(body, begin + 1, begin + c) = SubSeq(From(begin), 1, c)
         /\ SubSeq(raw, Offset + begin + 1, Offset + begin + c)
              = SubSeq(body, begin + 1, begin + c)
         /\ From(begin) = SubSeq(raw, Offset + begin + 1, Offset + Len(body))
         /\ Offset + Len(body) <= Len(raw) /\ Len(body) = range[2]
<1>1. body \in Seq(Range(body)) /\ Len(body) \in Nat /\ Len(body) >= 1
  BY MessageTypes DEF ScanOk, BodyOk
<1>2. raw \in Seq(Range(raw)) /\ Len(raw) \in Nat /\ Offset \in Nat /\ range[2] \in Nat
  BY MessageTypes
<1>3. Offset + range[2] <= Len(raw) /\ body = SubSeq(raw, Offset + 1, Offset + range[2])
  BY <1>1 DEF ScanOk, InBounds, Offset
<1>4. Len(body) = range[2]
  <2>1. \A k \in Offset + 1 .. Offset + range[2] : raw[k] \in Range(raw)
    <3>1. \A k \in 1 .. Len(raw) : raw[k] \in Range(raw)
      BY <1>2 DEF Range
    <3>2. \A k \in Offset + 1 .. Offset + range[2] : k \in 1 .. Len(raw)
      BY <1>2, <1>3
    <3>. QED
      BY <3>1, <3>2
  <2>2. Len(body) = IF Offset + 1 <= Offset + range[2]
                    THEN (Offset + range[2]) - (Offset + 1) + 1 ELSE 0
    BY <1>2, <1>3, <2>1, SubSeqProperties
  <2>. QED
    BY <1>2, <2>2
<1>5. SubSeq(From(begin), 1, c) = SubSeq(body, begin + 1, begin + c)
  <2>1. begin \in Nat /\ Len(body) - begin \in Nat /\ begin + (Len(body) - begin) = Len(body)
        /\ 1 \in 1 .. Len(body) - begin
    BY <1>1
  <2>2. SubSeq(SubSeq(body, begin + 1, begin + (Len(body) - begin)), 1, c)
          = SubSeq(body, begin + 1, begin + c)
    BY <1>1, <2>1, SubSeqTwice
  <2>. QED
    BY <2>1, <2>2 DEF From
<1>6. \A x, y \in 1 .. Len(body) : SubSeq(body, x, y) = SubSeq(raw, Offset + x, Offset + y)
  <2>1. \A x, y \in 1 .. range[2] :
          SubSeq(SubSeq(raw, Offset + 1, Offset + range[2]), x, y)
            = SubSeq(raw, Offset + x, Offset + y)
    <3>1. Offset + range[2] <= Len(raw)
      BY <1>3
    <3>. QED
      BY <1>2, <3>1, SubSeqTwice
  <2>. QED
    BY <1>3, <1>4, <2>1
<1>7. /\ begin + 1 \in 1 .. Len(body) /\ begin + c \in 1 .. Len(body)
      /\ Len(body) \in 1 .. Len(body)
      /\ Offset + (begin + 1) = Offset + begin + 1 /\ Offset + (begin + c) = Offset + begin + c
  BY <1>1, <1>2
<1>8. /\ SubSeq(body, begin + 1, begin + c) = SubSeq(raw, Offset + begin + 1, Offset + begin + c)
      /\ SubSeq(body, begin + 1, Len(body)) = SubSeq(raw, Offset + begin + 1, Offset + Len(body))
  BY <1>6, <1>7
<1>. QED
  BY <1>3, <1>4, <1>5, <1>8 DEF From

LEMMA ScanInvInit == Init => ScanInv /\ FoundSoFar
<1>. SUFFICES ASSUME Init  PROVE ScanInv /\ FoundSoFar
  OBVIOUS
<1>1. ScanOk
  BY DEF Init, ScanOk, BodyOk
<1>2. Placed /\ Ordered /\ Complete
  BY DEF Init, Placed, Ordered, Complete
<1>3. FoundSoFar
  BY DEF Init, FoundSoFar, LinesOf
<1>. QED
  BY <1>1, <1>2, <1>3 DEF ScanInv

LEMMA SliceBodyKeepsInv ==
  ASSUME ScanInv, SliceBody
  PROVE  ScanInv' /\ FoundSoFar'
<1>1. /\ pos = 0 /\ blocks = <<>> /\ body = <<>> /\ raw \in Messages /\ range \in Ranges
      /\ UNCHANGED <<raw, range, pos, blocks>>
  BY DEF ScanInv, ScanOk, SliceBody
<1>2. raw \in Seq(Range(raw)) /\ Len(raw) \in Nat /\ Offset \in Nat /\ range[2] \in Nat
  BY MessageTypes DEF ScanInv
<1>3. CASE InBounds
  <2>1. body' = SubSeq(raw, Offset + 1, Offset + range[2]) /\ phase' = "scan"
    BY <1>3 DEF SliceBody
  <2>2. \A k \in Offset + 1 .. Offset + range[2] : raw[k] \in Range(raw)
    BY <1>2, <1>3 DEF InBounds, Offset, Range
  <2>3. body' \in Seq(Range(raw)) /\ Len(body') \in Nat
    BY <1>2, <2>1, <2>2, SubSeqProperties
  <2>4. body' \in Seq(Range(body'))
    BY <2>3, SeqOfRange
  <2>5. ScanOk'
    BY <1>1, <1>3, <2>1, <2>3, <2>4 DEF ScanOk, BodyOk, InBounds, Offset
  <2>6. FoundSoFar'
    BY <1>1, <2>3 DEF FoundSoFar, LinesOf
  <2>. QED
    BY <1>1, <2>5, <2>6 DEF ScanInv, Placed, Ordered, Complete
<1>4. CASE ~InBounds
  <2>1. UNCHANGED body /\ phase' = "done"
    BY <1>4 DEF SliceBody
  <2>2. ScanOk'
    BY <1>1, <2>1 DEF ScanOk, BodyOk
  <2>3. FoundSoFar'
    BY <1>1, <2>1 DEF FoundSoFar, LinesOf
  <2>. QED
    BY <1>1, <2>2, <2>3 DEF ScanInv, Placed, Ordered, Complete
<1>. QED
  BY <1>3, <1>4

(***************************************************************************)
(* The turn that finds a block.                                            *)
(***************************************************************************)
\* What is known of the block a turn adds: where it begins, and what
\* decode_one_block makes of the slice from there on.
TurnOf(begin, one) ==
  /\ begin \in pos .. Len(body) - 1
  /\ From(begin) \in Seq(Range(body)) /\ Len(From(begin)) = Len(body) - begin
  /\ From(begin) # <<>> /\ From(begin)[1].kind = "ybegin"
  /\ \A k \in 1 .. Len(body) - begin : From(begin)[k] = body[begin + k]
  /\ \A k \in pos + 1 .. begin : body[k].kind # "ybegin"
  /\ one = DecodeOneBlock(From(begin))
  /\ one.part = Decode(From(begin)) /\ one.consumed \in 1 .. Len(body) - begin
  /\ blocks' = Append(blocks, Block(Offset + begin, one.consumed, one.part, one.problem))
  /\ pos' = begin + one.consumed

LEMMA ScanBlockTurn ==
  ASSUME ScanOk, ScanBlock
  PROVE  /\ UNCHANGED <<raw, range, body, phase>> /\ phase = "scan" /\ body # <<>>
         /\ \E begin, one : TurnOf(begin, one)
<1>1. BodyOk /\ Len(body) \in Nat /\ pos \in Nat
  BY MessageTypes DEF ScanOk
<1>2. FindYbegin(pos) # {} /\ pos < Len(body)
  BY DEF ScanBlock
<1>. DEFINE begin == Min(FindYbegin(pos)) - 1
            one == DecodeOneBlock(From(begin))
<1>3. /\ blocks' = Append(blocks, Block(Offset + begin, one.consumed, one.part, one.problem))
      /\ pos' = begin + one.consumed
  BY DEF ScanBlock, Advance
<1>4. /\ begin \in pos .. Len(body) - 1
      /\ From(begin) \in Seq(Range(body))
      /\ Len(From(begin)) = Len(body) - begin
      /\ \A k \in 1 .. Len(body) - begin : From(begin)[k] = body[begin + k]
      /\ From(begin)[1].kind = "ybegin"
      /\ \A k \in pos + 1 .. begin : body[k].kind # "ybegin"
  BY <1>1, <1>2, NextSlice
<1>5. From(begin) # <<>>
  BY <1>1, <1>4
<1>6. one.part = Decode(From(begin)) /\ one.consumed \in 1 .. Len(From(begin))
  BY <1>4, <1>5, Consumed
<1>7. TurnOf(begin, one)
  BY <1>3, <1>4, <1>5, <1>6 DEF TurnOf
<1>8. UNCHANGED <<raw, range, body, phase>> /\ phase = "scan" /\ body # <<>>
  BY <1>1, <1>2 DEF ScanBlock
<1>. QED
  BY <1>7, <1>8

\* The blocks after a turn: those before it and the new one.
LEMMA BlocksAfterTurn ==
  ASSUME ScanOk, NEW begin, NEW one, TurnOf(begin, one)
  PROVE  /\ Len(blocks) \in Nat
         /\ DOMAIN blocks = 1 .. Len(blocks) /\ DOMAIN blocks' = 1 .. Len(blocks) + 1
         /\ Len(blocks') = Len(blocks) + 1
         /\ blocks' \in Seq(Range(blocks'))
         /\ \A b \in DOMAIN blocks : blocks'[b] = blocks[b]
         /\ blocks'[Len(blocks) + 1] = Block(Offset + begin, one.consumed, one.part, one.problem)
<1>. DEFINE new == Block(Offset + begin, one.consumed, one.part, one.problem)
<1>1. blocks \in Seq(Range(blocks) \cup {new}) /\ blocks' = Append(blocks, new)
  BY DEF ScanOk, TurnOf
<1>. HIDE DEF new
<1>2. blocks' \in Seq(Range(blocks) \cup {new})
  BY <1>1
<1>3. blocks' \in Seq(Range(blocks'))
  BY <1>2, SeqOfRange
<1>. QED
  BY <1>1, <1>3 DEF new

LEMMA ScanBlockKeepsInv ==
  ASSUME ScanInv, ScanBlock
  PROVE  ScanInv'
<1>1. ScanOk /\ Placed /\ Ordered /\ Complete
  BY DEF ScanInv
<1>2. UNCHANGED <<raw, range, body, phase>> /\ phase = "scan" /\ body # <<>>
  BY <1>1, ScanBlockTurn
<1>3. PICK begin, one : TurnOf(begin, one)
  BY <1>1, ScanBlockTurn
<1>. DEFINE n == Len(blocks)
            new == Block(Offset + begin, one.consumed, one.part, one.problem)
            slice == From(begin)
<1>4. /\ n \in Nat
      /\ DOMAIN blocks = 1 .. n /\ DOMAIN blocks' = 1 .. n + 1 /\ Len(blocks') = n + 1
      /\ blocks' \in Seq(Range(blocks'))
      /\ \A b \in DOMAIN blocks : blocks'[b] = blocks[b]
      /\ blocks'[n + 1] = new
  BY <1>1, <1>3, BlocksAfterTurn
<1>5. /\ Offset \in Nat /\ Len(body) \in Nat /\ pos \in Nat /\ Offset' = Offset
      /\ begin \in Nat /\ one.consumed \in Nat /\ one.consumed >= 1
      /\ pos <= begin /\ pos' = begin + one.consumed /\ pos' <= Len(body)
  BY <1>1, <1>2, <1>3, MessageTypes DEF TurnOf, Offset
<1>6. new.begin = Offset + begin /\ new.length = one.consumed
      /\ new.problem = one.problem /\ new.data = one.part.data
  BY DEF Block
<1>. HIDE DEF n, new
<1>7. ScanOk'
  BY <1>1, <1>2, <1>4, <1>5 DEF ScanOk, BodyOk, InBounds, Offset
<1>8. Placed'
  <2>1. \A b \in DOMAIN blocks : /\ blocks[b].begin \in Nat /\ blocks[b].length \in Nat
                                 /\ blocks[b].begin + blocks[b].length <= Offset + pos'
    BY <1>1, <1>5 DEF Placed
  <2>2. new.begin \in Nat /\ new.length \in Nat /\ new.begin + new.length <= Offset + pos'
    BY <1>5, <1>6
  <2>. QED
    BY <1>4, <1>5, <2>1, <2>2 DEF Placed
<1>9. Ordered'
  <2>. SUFFICES ASSUME NEW b \in DOMAIN blocks', NEW later \in b + 1 .. n + 1
                PROVE  blocks'[b].begin + blocks'[b].length <= blocks'[later].begin
    BY <1>4 DEF Ordered
  <2>1. b \in DOMAIN blocks /\ later \in Nat /\ b \in Nat
    BY <1>4
  <2>2. CASE later = n + 1
    <3>1. blocks[b].begin + blocks[b].length <= Offset + pos
          /\ blocks[b].begin \in Nat /\ blocks[b].length \in Nat
      BY <1>1, <2>1 DEF Placed
    <3>2. blocks[b].begin + blocks[b].length <= new.begin
      BY <1>5, <1>6, <3>1
    <3>. QED
      BY <1>4, <2>1, <2>2, <3>2
  <2>3. CASE later # n + 1
    <3>1. later \in b + 1 .. n /\ later \in DOMAIN blocks
      BY <1>4, <2>1, <2>3
    <3>2. blocks[b].begin + blocks[b].length <= blocks[later].begin
      BY <1>1, <2>1, <3>1 DEF Ordered, n
    <3>. QED
      BY <1>4, <2>1, <3>1, <3>2
  <2>. QED
    BY <2>2, <2>3
<1>10. \A block : IsArticle(block)' = IsArticle(block)
  BY <1>2 DEF IsArticle, Article, Offset
<1>11. ~new.problem => IsArticle(new)
  <2>. SUFFICES ASSUME ~one.problem  PROVE IsArticle(new)
    BY <1>6
  <2>. DEFINE c == one.consumed
              ends == {k \in 1 .. Len(slice) : slice[k].kind = "yend"}
              e == Min(ends)
              article == SubSeq(slice, 1, e)
  <2>1. slice \in Seq(Range(body)) /\ Len(slice) = Len(body) - begin
        /\ slice # <<>> /\ slice[1].kind = "ybegin"
        /\ begin \in 0 .. Len(body) - 1 /\ c \in 1 .. Len(slice)
        /\ one = DecodeOneBlock(slice) /\ one.part = Decode(slice)
    BY <1>3, <1>5 DEF TurnOf
  <2>2. /\ Decode(slice).error = None
        /\ slice[c].kind \in {"yend", "yendbare"}
        /\ \A k \in 1 .. c - 1 : slice[k].kind \notin {"yend", "yendbare"}
    BY <2>1, Consumed
  <2>3. e \in 1 .. Len(slice) /\ slice[e].kind = "yend"
        /\ \A k \in 1 .. e - 1 : slice[k].kind # "yend"
    <3>. HIDE DEF slice
    <3>1. \E y \in 2 .. Len(slice) : slice[y].kind = "yend"
      BY <2>1, <2>2, DecodedHasYend
    <3>2. ends # {} /\ ends \in SUBSET Nat
      BY <2>1, <3>1
    <3>3. e \in ends /\ \A y \in ends : e <= y
      BY <3>2, MinOfNat
    <3>4. ASSUME NEW k \in 1 .. e - 1, slice[k].kind = "yend"  PROVE FALSE
      <4>1. k \in ends
        BY <2>1, <3>3, <3>4
      <4>. QED
        BY <3>3, <4>1
    <3>. QED
      BY <3>3, <3>4
  <2>. HIDE DEF ends, e
  <2>4. Article(new, Offset + begin + e) = article
        /\ Offset + Len(body) = Offset + range[2]
    BY <1>1, <1>6, <2>1, <2>3, SliceOfBody DEF Article
  <2>. HIDE DEF slice
  <2>5. Decode(article) = Decode(slice)
    BY <2>1, <2>3, DecodeOfPrefix
  <2>6. Len(article) = e /\ e \in Nat /\ \A k \in 1 .. e : article[k] = slice[k]
    BY <2>1, <2>3
  <2>. HIDE DEF article
  <2>7. LinesOf(article, "yend", 1) = {e}
    BY <2>3, <2>6 DEF LinesOf
  <2>8. c = Min(LinesOf(article, "yendbare", 1) \cup {e})
    <3>. DEFINE stops == LinesOf(article, "yendbare", 1) \cup {e}
    <3>1. stops \in SUBSET Nat
      BY <2>6 DEF LinesOf
    <3>2. c <= e /\ c \in Nat
      BY <2>1, <2>2, <2>3
    <3>3. c \in stops
      <4>1. CASE slice[c].kind = "yend"
        <5>1. ~(c < e)
          BY <2>1, <2>3, <3>2, <4>1
        <5>. QED
          BY <2>6, <3>2, <5>1
      <4>2. CASE slice[c].kind = "yendbare"
        <5>1. c \in 1 .. Len(article) /\ article[c] = slice[c]
          BY <2>1, <2>6, <3>2
        <5>. QED
          BY <4>2, <5>1 DEF LinesOf
      <4>. QED
        BY <2>2, <4>1, <4>2
    <3>4. ASSUME NEW y \in stops  PROVE c <= y
      <4>1. y \in 1 .. e /\ slice[y].kind \in {"yend", "yendbare"}
        BY <2>3, <2>6 DEF LinesOf
      <4>. QED
        BY <2>2, <3>2, <4>1
    <3>. HIDE DEF stops
    <3>5. Min(stops) = c
      BY <3>1, <3>3, <3>4, MinUnique
    <3>. QED
      BY <3>5 DEF stops
  <2>9. Offset + begin + e \in new.begin + new.length .. Offset + range[2]
        /\ (Offset + begin + e) - new.begin = e
    <3>1. c <= e
      BY <2>1, <2>2, <2>3
    <3>. QED
      BY <1>5, <1>6, <2>1, <2>3, <2>4, <3>1
  <2>. QED
    BY <1>6, <2>1, <2>2, <2>4, <2>5, <2>7, <2>8, <2>9 DEF IsArticle
<1>12. Complete'
  <2>1. \A b \in DOMAIN blocks' : ~blocks'[b].problem => IsArticle(blocks'[b])
    BY <1>1, <1>4, <1>11 DEF Complete
  <2>. QED
    BY <1>10, <2>1 DEF Complete
<1>. QED
  BY <1>7, <1>8, <1>9, <1>12 DEF ScanInv

LEMMA ScanInvStep == ScanInv /\ [Next]_vars => ScanInv'
<1>. SUFFICES ASSUME ScanInv, [Next]_vars  PROVE ScanInv'
  OBVIOUS
<1>1. CASE SliceBody
  BY <1>1, SliceBodyKeepsInv
<1>2. CASE ScanBlock
  BY <1>2, ScanBlockKeepsInv
<1>3. CASE NoMoreBlocks \/ UNCHANGED vars
  <2>1. /\ UNCHANGED <<raw, range, body, pos, blocks>>
        /\ \/ phase' = "done" /\ (pos >= Len(body) \/ FindYbegin(pos) = {})
           \/ UNCHANGED phase
    BY <1>3 DEF NoMoreBlocks, vars
  <2>2. ScanOk'
    BY <2>1 DEF ScanInv, ScanOk, BodyOk, InBounds, Offset, FindYbegin, LinesOf
  <2>3. Placed' /\ Ordered'
    BY <2>1 DEF ScanInv, Placed, Ordered, Offset
  <2>4. Complete'
    BY <2>1 DEF ScanInv, Complete, IsArticle, Article, Offset
  <2>. QED
    BY <2>2, <2>3, <2>4 DEF ScanInv
<1>. QED
  BY <1>1, <1>2, <1>3 DEF Next

\* After every turn of the scan the blocks found lie one behind the other in
\* front of the position, each is the article it claims to be, and the position
\* has passed no =ybegin line by (yenc.rs:178-217).
THEOREM ScanInvariant == Spec => []ScanInv
<1>1. Init => ScanInv
  BY ScanInvInit
<1>. QED
  BY <1>1, ScanInvStep, PTL DEF Spec

(***************************************************************************)
(* Blocks come in order of appearance and never overlap, and a decoded one *)
(* is an article of the body, up to its first =yend or bare =yend line,    *)
(* for every message and every body range (yenc.rs:59-71, 144, 216,        *)
(* 329-353).                                                               *)
(***************************************************************************)
THEOREM BlocksComplete == Spec => []BlocksAreArticles
<1>1. ScanInv => BlocksAreArticles
  BY DEF ScanInv, Ordered, Complete, BlocksAreArticles
<1>. QED
  BY <1>1, ScanInvariant, PTL

-----------------------------------------------------------------------------
(***************************************************************************)
(* Nothing intact is lost.                                                 *)
(***************************************************************************)
LEMMA PartIsDecoded ==
  ASSUME WrittenDecodes, NEW article
  PROVE  /\ PartOf(article).error = Decode(article).error
         /\ \A begin, length, problem :
              Block(begin, length, PartOf(article), problem)
                = Block(begin, length, Decode(article), problem)
<1>1. CASE article \notin DOMAIN Written
  BY <1>1 DEF PartOf
<1>2. CASE article \in DOMAIN Written
  <2>1. PartOf(article) = Written[article]
    BY <1>2 DEF PartOf
  <2>2. /\ Decode(article).error = Written[article].error
        /\ Block(0, 0, Decode(article), FALSE) = Block(0, 0, Written[article], FALSE)
    BY <1>2 DEF WrittenDecodes
  <2>. DEFINE part == Decode(article)
              written == Written[article]
  <2>. HIDE DEF part, written
  <2>3. Block(0, 0, part, FALSE) = Block(0, 0, written, FALSE)
    BY <2>2 DEF part, written
  <2>4. /\ part.name = written.name /\ part.size = written.size /\ part.part = written.part
        /\ part.total = written.total /\ part.begin = written.begin /\ part.end = written.end
        /\ part.data = written.data /\ part.verified = written.verified
    BY <2>3 DEF Block
  <2>5. \A begin, length, problem :
          Block(begin, length, written, problem) = Block(begin, length, part, problem)
    BY <2>4 DEF Block
  <2>. QED
    BY <2>1, <2>2, <2>5 DEF part, written
<1>. QED
  BY <1>1, <1>2

\* What is found stays found.
LEMMA FoundStays ==
  ASSUME UNCHANGED <<range, body>>, blocks \in Seq(Range(blocks)),
         DOMAIN blocks \subseteq DOMAIN blocks',
         \A b \in DOMAIN blocks : blocks'[b] = blocks[b],
         NEW i, NEW j, Found(i, j)
  PROVE  Found(i, j)'
<1>1. PICK b \in DOMAIN blocks :
        \/ blocks[b] = Block(Offset + i - 1, Len(SubSeq(body, i, j)),
                             PartOf(SubSeq(body, i, j)), FALSE)
        \/ /\ ~blocks[b].problem /\ ~blocks[b].verified
           /\ blocks[b].begin < Offset + i - 1
           /\ Offset + i \in LinesOfBlock(blocks[b])
  BY DEF Found
<1>2. b \in DOMAIN blocks' /\ blocks'[b] = blocks[b] /\ Offset' = Offset
  BY DEF Offset
<1>3. Found(i, j)' = \E k \in DOMAIN blocks' :
        \/ blocks'[k] = Block(Offset + i - 1, Len(SubSeq(body, i, j)),
                              PartOf(SubSeq(body, i, j)), FALSE)
        \/ /\ ~blocks'[k].problem /\ ~blocks'[k].verified
           /\ blocks'[k].begin < Offset + i - 1
           /\ Offset + i \in LinesOfBlock(blocks'[k])
  BY <1>2 DEF Found, LinesOfBlock
<1>. QED
  BY <1>1, <1>2, <1>3

\* The turn at the =ybegin line of an intact article returns it.
LEMMA IntactIsReturned ==
  ASSUME WrittenDecodes, ScanOk, body # <<>>,
         NEW begin, NEW one, TurnOf(begin, one),
         NEW j \in LinesOf(body, "yend", begin + 1), Intact(begin + 1, j)
  PROVE  Block(Offset + begin, one.consumed, one.part, one.problem)
           = Block(Offset + (begin + 1) - 1, Len(SubSeq(body, begin + 1, j)),
                   PartOf(SubSeq(body, begin + 1, j)), FALSE)
<1>. DEFINE slice == From(begin)
            e == j - begin
            article == SubSeq(body, begin + 1, j)
<1>1. /\ Len(body) \in Nat /\ Offset \in Nat /\ begin \in Nat /\ begin \in 0 .. Len(body) - 1
      /\ slice \in Seq(Range(body)) /\ Len(slice) = Len(body) - begin
      /\ slice # <<>> /\ slice[1].kind = "ybegin"
      /\ \A k \in 1 .. Len(body) - begin : slice[k] = body[begin + k]
      /\ one = DecodeOneBlock(slice) /\ one.part = Decode(slice)
      /\ one.consumed \in 1 .. Len(body) - begin
  BY MessageTypes DEF TurnOf
<1>2. j \in begin + 1 .. Len(body) /\ body[j].kind = "yend"
  BY DEF LinesOf
<1>3. e \in 1 .. Len(body) - begin /\ begin + e = j /\ e \in Nat
  BY <1>1, <1>2
<1>4. article = SubSeq(slice, 1, e)
  BY <1>1, <1>3, SliceOfBody
<1>5. /\ LinesOf(article, "yend", 1) = {Len(article)}
      /\ LinesOf(article, "yendbare", 1) = {}
      /\ PartOf(article).error = None
  BY DEF Intact
<1>6. slice[e].kind = "yend"
  BY <1>1, <1>2, <1>3
<1>. HIDE DEF slice, article, e
<1>7. Len(article) = e /\ \A k \in 1 .. e : article[k] = slice[k]
  BY <1>1, <1>3, <1>4
<1>8. \A k \in 1 .. e - 1 : slice[k].kind \notin {"yend", "yendbare"}
  BY <1>3, <1>5, <1>7 DEF LinesOf
<1>9. Decode(article) = Decode(slice)
  BY <1>1, <1>3, <1>4, <1>6, <1>8, DecodeOfPrefix
<1>10. Decode(slice).error = None
  BY <1>5, <1>9, PartIsDecoded
<1>11. ~one.problem /\ one.problem \in BOOLEAN
  BY <1>1, <1>3, <1>6, <1>10, Consumed
<1>12. one.consumed = e
  <2>1. /\ slice[one.consumed].kind \in {"yend", "yendbare"}
        /\ \A k \in 1 .. one.consumed - 1 : slice[k].kind \notin {"yend", "yendbare"}
    BY <1>1, <1>11, Consumed
  <2>2. one.consumed \notin 1 .. e - 1
    BY <1>8, <2>1
  <2>3. e \notin 1 .. one.consumed - 1
    BY <1>6, <2>1
  <2>. QED
    BY <1>1, <1>3, <2>2, <2>3
<1>13. one.problem = FALSE /\ Offset + begin = Offset + (begin + 1) - 1
  BY <1>1, <1>11
<1>14. Block(Offset + begin, e, Decode(article), FALSE)
         = Block(Offset + begin, e, PartOf(article), FALSE)
  BY PartIsDecoded
<1>. QED
  BY <1>1, <1>7, <1>9, <1>12, <1>13, <1>14 DEF article

\* A =ybegin line behind the first of a block is swallowed by one that carries
\* no checked CRC.
LEMMA SwallowedUnchecked ==
  ASSUME CrcTells, ScanOk, body # <<>>,
         NEW begin, NEW one, TurnOf(begin, one),
         NEW i \in begin + 2 .. begin + one.consumed, body[i].kind = "ybegin"
  PROVE  ~one.problem /\ ~one.part.verified
<1>. DEFINE slice == From(begin)
            k == i - begin
<1>1. /\ Len(body) \in Nat /\ Offset \in Nat /\ begin \in Nat /\ begin \in 0 .. Len(body) - 1
      /\ slice \in Seq(Range(body)) /\ Len(slice) = Len(body) - begin
      /\ slice # <<>> /\ slice[1].kind = "ybegin"
      /\ \A n \in 1 .. Len(body) - begin : slice[n] = body[begin + n]
      /\ one = DecodeOneBlock(slice) /\ one.part = Decode(slice)
      /\ one.consumed \in 1 .. Len(body) - begin
  BY MessageTypes DEF TurnOf
<1>2. k \in 2 .. one.consumed /\ slice[k].kind = "ybegin" /\ k \in 2 .. Len(slice)
  BY <1>1
<1>3. slice = SubSeq(raw, Offset + begin + 1, Offset + Len(body))
      /\ Offset + begin + 1 \in DOMAIN raw /\ Offset + Len(body) \in DOMAIN raw
  <2>1. 1 \in 1 .. Len(body) - begin
    BY <1>1
  <2>2. /\ slice = SubSeq(raw, Offset + begin + 1, Offset + Len(body))
        /\ Offset + Len(body) <= Len(raw)
    BY <1>1, <2>1, SliceOfBody
  <2>3. raw \in Seq(Range(raw)) /\ Len(raw) \in Nat
    BY MessageTypes
  <2>4. Offset + begin + 1 \in 1 .. Len(raw) /\ Offset + Len(body) \in 1 .. Len(raw)
    BY <1>1, <2>2, <2>3
  <2>. QED
    BY <2>2, <2>3, <2>4
<1>. HIDE DEF slice, k
<1>4. ~one.problem
  BY <1>1, <1>2, Consumed
<1>5. /\ Decode(slice).error = None
      /\ \A y \in 1 .. one.consumed - 1 : slice[y].kind \notin {"yend", "yendbare"}
  BY <1>1, <1>4, Consumed
<1>6. \A y \in 2 .. k - 1 : slice[y].kind \notin {"yend", "yendbare"}
  BY <1>1, <1>2, <1>5
<1>7. raw \in Messages
  BY DEF ScanOk
<1>8. \/ ~Decode(slice).verified
      \/ \A n \in 2 .. Len(slice) : slice[n].kind = "ybegin" =>
           \E y \in 2 .. n - 1 : slice[y].kind \in {"yend", "yendbare"}
  BY <1>1, <1>3, <1>5, <1>7, Zenon DEF CrcTells
<1>9. ~Decode(slice).verified
  BY <1>2, <1>6, <1>8
<1>. QED
  BY <1>1, <1>4, <1>9

LEMMA FoundSoFarStep ==
  WrittenDecodes /\ CrcTells /\ ScanInv /\ FoundSoFar /\ [Next]_vars => FoundSoFar'
<1>. SUFFICES ASSUME WrittenDecodes, CrcTells, ScanInv, FoundSoFar, [Next]_vars
              PROVE  FoundSoFar'
  OBVIOUS
<1>1. CASE SliceBody
  BY <1>1, SliceBodyKeepsInv
<1>2. CASE ScanBlock
  <2>. SUFFICES ASSUME NEW i \in LinesOf(body, "ybegin", 1)', NEW j \in LinesOf(body, "yend", i)',
                       i <= pos', Intact(i, j)'
                PROVE  Found(i, j)'
    BY DEF FoundSoFar
  <2>1. ScanOk
    BY DEF ScanInv
  <2>2. UNCHANGED <<raw, range, body, phase>> /\ body # <<>>
    BY <1>2, <2>1, ScanBlockTurn
  <2>3. PICK begin, one : TurnOf(begin, one)
    BY <1>2, <2>1, ScanBlockTurn
  <2>4. /\ i \in LinesOf(body, "ybegin", 1) /\ j \in LinesOf(body, "yend", i) /\ Intact(i, j)
    BY <2>2 DEF LinesOf, Intact
  <2>. DEFINE n == Len(blocks)
              new == Block(Offset + begin, one.consumed, one.part, one.problem)
  <2>5. /\ n \in Nat /\ n + 1 \in DOMAIN blocks'
        /\ DOMAIN blocks \subseteq DOMAIN blocks'
        /\ \A b \in DOMAIN blocks : blocks'[b] = blocks[b]
        /\ blocks'[n + 1] = new
    BY <2>1, <2>3, BlocksAfterTurn
  <2>6. /\ Len(body) \in Nat /\ Offset \in Nat /\ pos \in Nat /\ Offset' = Offset
        /\ begin \in pos .. Len(body) - 1 /\ begin \in Nat
        /\ one.consumed \in 1 .. Len(body) - begin /\ one.consumed \in Nat
        /\ pos' = begin + one.consumed
        /\ \A k \in pos + 1 .. begin : body[k].kind # "ybegin"
    BY <2>1, <2>2, <2>3, MessageTypes DEF TurnOf, Offset
  <2>7. i \in Nat /\ body[i].kind = "ybegin" /\ i >= 1
    BY <2>4, <2>6 DEF LinesOf
  <2>. HIDE DEF n, new
  <2>8. CASE i <= pos
    <3>1. Found(i, j)
      BY <2>4, <2>8 DEF FoundSoFar
    <3>2. blocks \in Seq(Range(blocks))
      BY <2>1 DEF ScanOk
    <3>. QED
      BY <2>2, <2>5, <3>1, <3>2, FoundStays
  <2>9. CASE i = begin + 1
    <3>1. new = Block(Offset + i - 1, Len(SubSeq(body, i, j)), PartOf(SubSeq(body, i, j)), FALSE)
      BY <2>1, <2>2, <2>3, <2>4, <2>9, IntactIsReturned DEF new
    <3>. QED
      BY <2>2, <2>5, <2>6, <3>1 DEF Found
  <2>10. CASE i > begin + 1
    <3>1. i \in begin + 2 .. begin + one.consumed
      BY <2>6, <2>7, <2>10
    <3>2. ~one.problem /\ ~one.part.verified
      BY <2>1, <2>2, <2>3, <2>7, <3>1, SwallowedUnchecked
    <3>3. /\ new.begin = Offset + begin /\ new.length = one.consumed
          /\ new.problem = one.problem /\ new.verified = one.part.verified
      BY DEF Block, new
    <3>4. new.begin < Offset + i - 1 /\ Offset + i \in LinesOfBlock(new)
      <4>1. Offset \in Nat /\ begin \in Nat /\ one.consumed \in Nat /\ i \in Nat
        BY <2>6, <2>7
      <4>2. begin + 2 <= i /\ i <= begin + one.consumed
        BY <3>1, <4>1
      <4>3. /\ Offset + begin < Offset + i - 1
            /\ Offset + i \in Offset + begin + 1 .. Offset + begin + one.consumed
        BY <4>1, <4>2
      <4>4. LinesOfBlock(new) = Offset + begin + 1 .. Offset + begin + one.consumed
        BY <3>3 DEF LinesOfBlock
      <4>. QED
        BY <3>3, <4>3, <4>4
    <3>5. /\ ~blocks'[n + 1].problem /\ ~blocks'[n + 1].verified
          /\ blocks'[n + 1].begin < Offset' + i - 1
          /\ Offset' + i \in LinesOfBlock(blocks'[n + 1])
      BY <2>5, <2>6, <3>2, <3>3, <3>4
    <3>. QED
      BY <2>5, <3>5 DEF Found, LinesOfBlock
  <2>11. i <= pos \/ i = begin + 1 \/ i > begin + 1
    <3>1. i \notin pos + 1 .. begin
      BY <2>6, <2>7
    <3>. QED
      BY <2>6, <2>7, <3>1
  <2>. QED
    BY <2>8, <2>9, <2>10, <2>11
<1>3. CASE NoMoreBlocks \/ UNCHANGED vars
  <2>1. UNCHANGED <<raw, range, body, pos, blocks>>
    BY <1>3 DEF NoMoreBlocks, vars
  <2>2. \A i \in LinesOf(body, "ybegin", 1)' : \A j \in LinesOf(body, "yend", i)' :
          /\ i \in LinesOf(body, "ybegin", 1) /\ j \in LinesOf(body, "yend", i)
          /\ Intact(i, j)' => Intact(i, j)
    BY <2>1 DEF LinesOf, Intact
  <2>3. \A i, j : Found(i, j) => Found(i, j)'
    BY <2>1 DEF Found, Offset
  <2>. QED
    BY <2>1, <2>2, <2>3 DEF FoundSoFar
<1>. QED
  BY <1>1, <1>2, <1>3 DEF Next

(***************************************************************************)
(* Every intact article in the body is returned with what its encoder      *)
(* wrote, or swallowed by a block that carries no checked CRC: for every   *)
(* message in which a checked CRC tells a =ybegin line among the data      *)
(* (yenc.rs:163-220 and 300-307).                                          *)
(***************************************************************************)
THEOREM IntactArticlesFound ==
  ASSUME WrittenDecodes, CrcTells
  PROVE  Spec => []IntactFound
<1>1. Init => ScanInv /\ FoundSoFar
  BY ScanInvInit
<1>2. ScanInv /\ FoundSoFar /\ [Next]_vars => (ScanInv /\ FoundSoFar)'
  BY ScanInvStep, FoundSoFarStep
<1>3. ScanInv /\ FoundSoFar => IntactFound
  <2>. SUFFICES ASSUME ScanInv, FoundSoFar, phase = "done",
                       NEW i \in LinesOf(body, "ybegin", 1), NEW j \in LinesOf(body, "yend", i),
                       Intact(i, j)
                PROVE  Found(i, j)
    BY DEF IntactFound
  <2>1. Len(body) \in Nat /\ pos \in Nat /\ pos <= Len(body)
    BY MessageTypes DEF ScanInv
  <2>2. i \in 1 .. Len(body) /\ body[i].kind = "ybegin"
    BY DEF LinesOf
  <2>3. pos >= Len(body) \/ FindYbegin(pos) = {}
    BY DEF ScanInv, ScanOk
  <2>4. i <= pos
    BY <2>1, <2>2, <2>3 DEF FindYbegin, LinesOf
  <2>. QED
    BY <2>4 DEF FoundSoFar
<1>. QED
  BY <1>1, <1>2, <1>3, PTL DEF Spec
=============================================================================
