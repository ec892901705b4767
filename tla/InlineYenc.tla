------------------------------ MODULE InlineYenc ------------------------------
(***************************************************************************)
(* mime-tree/src/yenc.rs: scan_inline_yencode finds the yEnc articles in   *)
(* the body of a MIME part.  One action is one turn of its loop.           *)
(*                                                                         *)
(* The message is a sequence of the line records of YencDecode, offsets    *)
(* and lengths count lines: find_ybegin, find_yend_end and find_line_end   *)
(* all move from line start to line start.  The saturation of offsets      *)
(* above 2^32 bytes is left out (part.rs:82-84 asks callers to refuse such *)
(* messages).                                                              *)
(***************************************************************************)
EXTENDS YencDecode

CONSTANTS
  Messages,   \* the raw messages, sequences of lines
  Ranges,     \* the body_range values: <<offset, length>>
  Written     \* articles of sound encoders, and what they put into each

\* Lines are lines, offsets and lengths unsigned.
ASSUME MessagesAssumption == \A message \in Messages : message \in Seq(Range(message))

ASSUME RangesAssumption == Ranges \subseteq Nat \X Nat

VARIABLES
  raw,        \* the message
  range,      \* part.body_range
  body,       \* its lines within the range
  phase,      \* "slice", "scan" or "done"
  pos,        \* lines of the body already consumed
  blocks      \* results

vars == <<raw, range, body, phase, pos, blocks>>

Offset == range[1]
InBounds == range[1] + range[2] <= Len(raw)

\* The lines of the body from `start' (0-based) on.
From(start) == SubSeq(body, start + 1, Len(body))

FindYbegin(start) == LinesOf(body, "ybegin", start + 1)

\* Faulty variant: only what decode() takes for the end ends a block.
FindYendEndSpaced(slice) == LinesOf(slice, "yend", 1)

\* Faulty variant: the first =yend line of the body, not of the slice.
FindYendEndInBody(slice) ==
  {i \in DOMAIN body : body[i].kind \in {"yend", "yendbare"}}

\* "=yend" ends a block when a delimiter follows it; decode() wants a space.
FindYendEnd(slice) ==
  {i \in DOMAIN slice : slice[i].kind \in {"yend", "yendbare"}}

\* Faulty variant: after an error everything up to =yend is skipped.
DecodeOneBlockSkips(slice) ==
  LET part == Decode(slice)
      ends == FindYendEnd(slice)
  IN  [part     |-> part,
       consumed |-> IF ends = {} THEN Len(slice) ELSE Min(ends),
       problem  |-> part.error # None]

\* After an error only the =ybegin line is consumed.
DecodeOneBlock(slice) ==
  LET part == Decode(slice)
      ends == FindYendEnd(slice)
  IN  IF part.error = None /\ ends # {}
      THEN [part |-> part, consumed |-> Min(ends), problem |-> FALSE]
      ELSE [part |-> part, consumed |-> 1, problem |-> TRUE]

\* Faulty variant: the position is the end of the block within the slice.
AdvanceRelative(begin, consumed) == consumed

Advance(begin, consumed) == begin + consumed

\* The offsets of a block, and what is taken over from a decoded part.
Block(begin, length, part, problem) ==
  [begin     |-> begin,
   length    |-> length,
   filename  |-> part.name,
   fileSize  |-> part.size,
   part      |-> part.part,
   total     |-> part.total,
   partBegin |-> part.begin,
   partEnd   |-> part.end,
   data      |-> part.data,
   verified  |-> part.verified,
   problem   |-> problem]

-----------------------------------------------------------------------------
Init ==
  /\ raw \in Messages
  /\ range \in Ranges
  /\ body = <<>>
  /\ phase = "slice"
  /\ pos = 0
  /\ blocks = <<>>

\* A body range outside the message gives no blocks.
SliceBody ==
  /\ phase = "slice"
  /\ IF InBounds
     THEN /\ body' = SubSeq(raw, Offset + 1, Offset + range[2])
          /\ phase' = "scan"
     ELSE /\ phase' = "done"
          /\ UNCHANGED body
  /\ UNCHANGED <<raw, range, pos, blocks>>

ScanBlock ==
  /\ phase = "scan"
  /\ pos < Len(body)
  /\ FindYbegin(pos) # {}
  /\ \E begin \in {Min(FindYbegin(pos)) - 1} :
     \E one \in {DecodeOneBlock(From(begin))} :
       /\ blocks' = Append(blocks,
            Block(Offset + begin, one.consumed, one.part, one.problem))
       /\ pos' = Advance(begin, one.consumed)
  /\ UNCHANGED <<raw, range, body, phase>>

\* Faulty variant: the loop goes on when there is no =ybegin left.
NoMoreBlocksAtEndOnly ==
  /\ phase = "scan"
  /\ pos >= Len(body)
  /\ phase' = "done"
  /\ UNCHANGED <<raw, range, body, pos, blocks>>

NoMoreBlocks ==
  /\ phase = "scan"
  /\ pos >= Len(body) \/ FindYbegin(pos) = {}
  /\ phase' = "done"
  /\ UNCHANGED <<raw, range, body, pos, blocks>>

Next == SliceBody \/ ScanBlock \/ NoMoreBlocks

\* The scan is one call: it runs until it returns.
Spec == Init /\ [][Next]_vars /\ WF_vars(Next)

-----------------------------------------------------------------------------
(* Properties.                                                             *)

LinesOfBlock(block) == block.begin + 1 .. block.begin + block.length

\* What IntactFound rests on.  decode() reads from an article what its encoder
\* put into it.
WrittenDecodes ==
  \A article \in DOMAIN Written :
    LET part == Decode(article) written == Written[article]
    IN  part.error = written.error
          /\ Block(0, 0, part, FALSE) = Block(0, 0, written, FALSE)

\* A checked CRC tells a =ybegin line among the data: before the end of an
\* article that passes it there is none.
CrcTells ==
  \A message \in Messages : \A i, j \in DOMAIN message :
    LET slice == SubSeq(message, i, j)
    IN  slice # <<>> /\ slice[1].kind = "ybegin" /\ Decode(slice).error = None
          => ~Decode(slice).verified
             \/ \A k \in 2 .. Len(slice) : slice[k].kind = "ybegin" =>
                  \E y \in 2 .. k - 1 : slice[y].kind \in {"yend", "yendbare"}

\* What an article carries: what its encoder put into it, if that is known.
PartOf(article) == IF article \in DOMAIN Written THEN Written[article] ELSE Decode(article)

\* The lines from i to j of the body are an article that decodes on its own,
\* up to its first =yend.
Intact(i, j) ==
  LET article == SubSeq(body, i, j)
  IN  /\ LinesOf(article, "yend", 1) = {Len(article)}
      /\ LinesOf(article, "yendbare", 1) = {}
      /\ PartOf(article).error = None

\* They are returned, or a block that carries no checked CRC swallows them.
Found(i, j) ==
  LET article == SubSeq(body, i, j)
  IN  \E b \in DOMAIN blocks :
        \/ blocks[b] = Block(Offset + i - 1, Len(article), PartOf(article), FALSE)
        \/ /\ ~blocks[b].problem /\ ~blocks[b].verified
           /\ blocks[b].begin < Offset + i - 1
           /\ Offset + i \in LinesOfBlock(blocks[b])

\* Every intact article in the body is returned with its data, name and
\* numbers, those its encoder wrote, in whatever form and order, and whatever
\* damaged or truncated articles stand before it; only a block that carries no
\* checked CRC can swallow it
\* (yenc.rs:163-220 and 300-307, yencoding/src/header.rs:52-189).
IntactFound ==
  phase = "done" =>
    \A i \in LinesOf(body, "ybegin", 1) : \A j \in LinesOf(body, "yend", i) :
      Intact(i, j) => Found(i, j)

\* The lines from the =ybegin of a block to line e of the message.
Article(block, e) == SubSeq(raw, block.begin + 1, e)

\* What a block carries is what its lines, up to the first =yend line, decode to
\* by themselves, and it ends there, or before that at a bare =yend line.
IsArticle(block) ==
  \E e \in block.begin + block.length .. Offset + range[2] :
    /\ LinesOf(Article(block, e), "yend", 1) = {e - block.begin}
    /\ Decode(Article(block, e)).error = None
    /\ Decode(Article(block, e)).data = block.data
    /\ block.length = Min(LinesOf(Article(block, e), "yendbare", 1) \cup {e - block.begin})

\* Blocks come in order of appearance and never overlap (yenc.rs:144, 216),
\* and a decoded one is an article of the body, of which it claims the lines up
\* to where find_yend_end, not decode(), sees its end (yenc.rs:59-71, 329-353).
BlocksAreArticles ==
  \A b \in DOMAIN blocks :
    /\ \A later \in b + 1 .. Len(blocks) :
         blocks[b].begin + blocks[b].length <= blocks[later].begin
    /\ ~blocks[b].problem => IsArticle(blocks[b])

\* The scan comes to an end on every body (yenc.rs:213-216).
ScanEnds == <>(phase = "done")

=============================================================================
