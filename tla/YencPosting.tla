----------------------------- MODULE YencPosting -----------------------------
(***************************************************************************)
(* A file posted as a series of yEnc articles and put together again: the  *)
(* client loop of yencoding-multi/src/lib.rs:54-74, with decode() and the  *)
(* Assembler as they are.                                                  *)
(*                                                                         *)
(* The articles written by encode_part lie in a spool.  The network may    *)
(* deliver them in any order, any number of times or never, and may add    *)
(* damaged copies: a line lost, doubled or exchanged with its neighbour,   *)
(* the end cut off, or another article run into it.  MaxDamage bounds how  *)
(* many such copies appear.  The client skips what decode() refuses and    *)
(* what add_part refuses, and calls finish when is_complete says so.       *)
(***************************************************************************)
EXTENDS YencAssembler, SequencesExt

CONSTANTS
  File,         \* the bytes of the file, a sequence
  PartEnds,     \* the offset at which each part ends; the last is Len(File)
  Setups,       \* the circumstances of a posting, see below
  MaxDamage     \* bound on the number of damaged copies

(***************************************************************************)
(* A setup says how the file was posted and what the network spares:       *)
(*   name          the name= of the file                                   *)
(*   wholeCrc      every part carries crc32=, that of the whole file       *)
(*   partCrc       every part carries pcrc32=                              *)
(*   losesOffsets  a damaged copy may come without its =ypart line, or     *)
(*                 with the one of another part                            *)
(***************************************************************************)

VARIABLES
  setup,
  series,       \* the articles as they were posted
  spool,        \* the articles that can still be delivered
  damage        \* how many damaged copies the network has made

postingVars == <<vars, setup, series, spool, damage>>

BufferOf(seq) == [o \in 0 .. Len(seq) - 1 |-> seq[o + 1]]

SeqCrc32(seq) == Crc32(BufferOf(seq))

Yenc == INSTANCE YencDecode WITH Crc32 <- SeqCrc32

-----------------------------------------------------------------------------
(* The posted series.                                                      *)

Parts == DOMAIN PartEnds

FirstOffset(k) == IF k = 1 THEN 0 ELSE PartEnds[k - 1]

PartBytes(k) == SubSeq(File, FirstOffset(k) + 1, PartEnds[k])

ASSUME FileAssumption ==
  /\ File \in Seq(Byte)
  /\ PartEnds \in Seq(0 .. Len(File)) /\ PartEnds # <<>>
  /\ PartEnds[Len(PartEnds)] = Len(File)
  /\ \A k \in 2 .. Len(PartEnds) : PartEnds[k - 1] <= PartEnds[k]
  /\ \A data \in {File} \cup {PartBytes(k) : k \in Parts} : SeqCrc32(data) \in CrcValue

\* The tokens of a name begin with name=, behind a space (encode.rs:84-93).
ASSUME NamesAssumption ==
  \A how \in Setups : /\ how.name \in Seq(Range(how.name)) /\ how.name # <<>>
                      /\ how.name[1].key = "name" /\ how.name[1].sep = "space"

\* None is neither an error nor a keyword.
ASSUME NoneIsAbsent ==
  None \notin Yenc!Errors \cup {"size", "line", "part", "total", "begin", "end", "pcrc32", "crc32"}

\* An article of an encoder that may leave out either CRC.
Posted(k, how) ==
  LET data == PartBytes(k)
      body == [i \in 1 .. Len(data) |-> Yenc!DataLine(<<data[i]>>)]
      full == Yenc!EncodePart(data, body, how.name, Len(File), Len(PartEnds), k,
                              FirstOffset(k) + 1, PartEnds[k], SeqCrc32(File),
                              <<ZeroByte, ZeroByte>>)
      yend == Last(full)
      kept == [yend.fields EXCEPT !.crc32 = IF how.wholeCrc THEN @ ELSE None,
                                  !.pcrc32 = IF how.partCrc THEN @ ELSE None]
  IN  [full EXCEPT ![Len(full)] = [yend EXCEPT !.fields = kept]]

PostedArticles == {series[k] : k \in Parts}

-----------------------------------------------------------------------------
(* What the network does to an article.                                    *)

Exchange(article, i) ==
  [article EXCEPT ![i] = article[i + 1], ![i + 1] = article[i]]

Damaged(article) ==
  {RemoveAt(article, i) : i \in 1 .. Len(article)}
    \cup {InsertAt(article, i, article[i]) : i \in 1 .. Len(article)}
    \cup {Exchange(article, i) : i \in 1 .. Len(article) - 1}
    \cup {SubSeq(article, 1, n) : n \in 1 .. Len(article) - 1}
    \cup {article \o other : other \in PostedArticles}

\* The =yend line that decode() reads.
Trailer(article) ==
  LET begin == Min(Yenc!LinesOf(article, "ybegin", 1))
  IN  article[Min(Yenc!LinesOf(article, "yend", begin + 1))]

\* What decode() accepts has offsets, those of the part whose trailer it has.
KeepsOffsets(article) ==
  LET part == Yenc!Decode(article) IN
  part.error = None =>
    \E k \in Parts : /\ part.begin = FirstOffset(k) + 1 /\ part.end = PartEnds[k]
                     /\ Trailer(article) = Last(series[k])

Damage ==
  /\ damage < MaxDamage
  /\ damage' = damage + 1
  /\ \E article \in spool : \E copy \in Damaged(article) :
       /\ setup.losesOffsets \/ KeepsOffsets(copy)
       /\ spool' = spool \cup {copy}
  /\ UNCHANGED <<vars, setup, series>>

-----------------------------------------------------------------------------
(* The client.                                                             *)

Begin ==
  /\ output = None
  /\ New(Len(File))
  /\ UNCHANGED <<setup, series, spool, damage>>

\* One turn of the loop: decode an article, hand the part to the assembler.
Deliver(article) ==
  /\ \E part \in {Yenc!Decode(article)} :
       /\ part.error = None
       /\ \E p \in {[begin |-> part.begin, end |-> part.end,
                     data |-> part.data, crc |-> part.wholeCrc]} : AddPart(p)
  /\ UNCHANGED <<setup, series, spool, damage>>

FinishWhenComplete ==
  /\ Live
  /\ IsComplete
  /\ Finish
  /\ UNCHANGED <<setup, series, spool, damage>>

PostingInit ==
  /\ Init
  /\ setup \in Setups
  /\ series = [k \in Parts |-> Posted(k, setup)]
  /\ spool = PostedArticles
  /\ damage = 0

PostingNext ==
  \/ Damage
  \/ Begin
  \/ \E article \in spool : Deliver(article)
  \/ FinishWhenComplete

PostingSpec == PostingInit /\ [][PostingNext]_postingVars

\* The client starts, hands over every article of the series at least once
\* (`for raw in &raw_articles') and asks for the file when it is complete.
ClientFairness ==
  /\ WF_postingVars(Begin)
  /\ \A k \in Parts : 
       WF_postingVars(\E article \in {series[k]} : Deliver(article))
  /\ WF_postingVars(FinishWhenComplete)

FairPostingSpec == PostingSpec /\ ClientFairness

-----------------------------------------------------------------------------
(* Properties.                                                             *)

\* What the two invariants rest on: no other bytes of that number have the CRC
\* of the file, or of one of its parts.
Tells(data) ==
  \A other \in [1 .. Len(data) -> Byte] : SeqCrc32(other) = SeqCrc32(data) => other = data

CrcTells == Tells(File) /\ \A k \in Parts : Tells(PartBytes(k))

\* Whatever is lost, repeated, reordered or damaged, with whole-file CRCs
\* the client never gets anything but the file that was posted
\* (decode.rs:135-196, assembler.rs:159-342).
OutputIsFile ==
  setup.wholeCrc /\ output # None => output = BufferOf(File)

\* With per-part CRCs alone, and as long as no part loses its offsets, every
\* byte the assembler holds is the byte posted at that place.
BytesInPlace ==
  setup.partCrc /\ ~setup.losesOffsets /\ Live =>
    \A o \in CoveredBytes : buffer[o] = File[o + 1]

\* Then the file is always recovered in the end: no damaged copy that keeps
\* its offsets can take the place of an intact article for good.
FileRecovered ==
  setup.partCrc /\ ~setup.losesOffsets => <>(output = BufferOf(File))

\* assembler.rs:125-126 says a part whose begin/end offsets are missing is
\* OutOfRange: so a part of a series is not stored when it has none.
OffsetlessPartRefused ==
  [][\A article \in spool :
       /\ Deliver(article)
       /\ Yenc!Decode(article).part # None
       /\ Yenc!Decode(article).begin = None
       => reply' # "Added"]_postingVars

=============================================================================
