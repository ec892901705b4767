------------------------------ MODULE UuPosting ------------------------------
(***************************************************************************)
(* A file posted as a series of uuencoded articles and put together again: *)
(* the client loop of uuencoding-multi/src/lib.rs:63-102, with             *)
(* parse_subject, PartCollection, reassemble and parse_toc as they are.    *)
(*                                                                         *)
(* The articles lie in a spool, among articles of others.  They may be     *)
(* delivered in any order, any number of times or never, and the network   *)
(* may add copies that break off; MaxDamage bounds how many.               *)
(***************************************************************************)
EXTENDS UuDecode, UuToc, Functions

CONSTANTS
  File,        \* the bytes of the file
  PartEnds,    \* the offset at which each part ends; the last is Len(File)
  Table,       \* the table of contents: lines, see UuToc, each with the entry
               \* it was written for, or None
  Strangers,   \* articles of others, with number = None
  Setups,      \* the circumstances of a posting, see below
  MaxDamage    \* bound on the number of damaged copies

(***************************************************************************)
(* A setup says how the file was posted and what the network does:         *)
(*   title     the words of the subject before the part marker             *)
(*   key       what is left of them as the name of the series              *)
(*   pattern   how the part markers are written                            *)
(*   replied   the parts whose subject begins with reply prefixes          *)
(*   toc       "none", "total": part 0 with the number of parts, or        *)
(*             "noTotal": part 0 as (0/0)                                  *)
(*   style     "each": every part is encoded for itself, or                *)
(*             "split": the file is encoded once and the lines are split   *)
(*   damaged   the network may add copies that break off                   *)
(***************************************************************************)

VARIABLES
  setup,
  spool,         \* the articles that can still be delivered
  damage,        \* how many damaged copies the network has made
  delivered,     \* the numbers of the parts that have come, part 0 included
  collections,   \* the client's collections, by the name of the series
  results,       \* what reassemble returned last, by the name of the series
  contents       \* what parse_toc returned last, by the name of the series

clientVars == <<collections, results, contents>>
vars == <<setup, spool, damage, delivered, clientVars>>

Subject == INSTANCE UuSubject

\* A file cut into parts, of at least one.
ASSUME PartsAssumption ==
  /\ File \in Seq(Range(File))
  /\ PartEnds \in Seq(0 .. Len(File)) /\ PartEnds # <<>>
  /\ \A n \in 2 .. Len(PartEnds) : PartEnds[n - 1] <= PartEnds[n]
  /\ PartEnds[Len(PartEnds)] = Len(File)
  /\ None \notin 0 .. Len(PartEnds)

\* A title has no reply prefix in front, no yEnc in it, and no marker that
\* counts more than the one of the part.
Titled(how) ==
  /\ how.title \in Seq(Range(how.title)) /\ how.title # <<>>
  /\ how.title[1].is # "reply"
  /\ \A i \in DOMAIN how.title : how.title[i].is # "yenc"
  /\ \A i \in Subject!Marks(how.title) :
       how.title[i].pattern \in Subject!Patterns /\ how.pattern < how.title[i].pattern
  /\ how.key = IF how.pattern = 5 THEN Subject!TrimDashes(how.title) ELSE how.title
  /\ how.key # <<>>

ASSUME SetupsAssumption ==
  \A how \in Setups :
    /\ how.pattern \in Subject!Patterns
    /\ how.toc \in {"none", "total", "noTotal"}
    /\ how.style \in {"each", "split"}
    /\ Titled(how)

\* The parts of others have other names.
ASSUME StrangersAssumption ==
  \A article \in Strangers :
    /\ article.number = None
    /\ \A how \in Setups, parts \in Subject!ParseSubject(article.subject) :
         parts.index # None => parts.base # how.key

-----------------------------------------------------------------------------
(* How a table of contents is written.                                     *)

IsFileName(token) == token.is = "name" /\ token.form \in {"path", "extension"}

IsFirst(words, i, kind) ==
  words[i].is = kind /\ \A j \in 1 .. i - 1 : words[j].is # kind

Units == [b |-> 1, kb |-> 1024, mb |-> 1024 * 1024]

\* The words behind a name tell the size, unless it is too large.
TellSize(words, size) ==
  \/ size = None /\ \A i \in DOMAIN words : words[i].is # "size"
  \/ \E i \in DOMAIN words :
       /\ IsFirst(words, i, "size")
       /\ words[i].count \in Nat /\ words[i].unit \in DOMAIN Units
       /\ LET bytes == words[i].count * Units[words[i].unit]
          IN  size = IF bytes <= MaxSize THEN bytes ELSE None

TellParts(words, parts) ==
  \/ parts = None /\ \A i \in DOMAIN words : words[i].is # "parts"
  \/ \E i \in DOMAIN words :
       /\ IsFirst(words, i, "parts")
       /\ parts = IF words[i].lo <= words[i].hi
                  THEN <<words[i].lo, words[i].hi>> ELSE None

\* An entry is a range of parts, a name and perhaps a size; or a name, and
\* behind it a size, a range of parts, or both in any order.
IsWrittenFor(line, entry) ==
  /\ entry = TocEntry([text |-> entry.filename], entry.size, entry.parts)
  /\ \/ /\ Len(line) >= 2 /\ IsFileName(line[2]) /\ line[2].text = entry.filename
        /\ line[1].is = "range" /\ line[1].lo <= line[1].hi
        /\ entry.parts = <<line[1].lo, line[1].hi>> /\ entry.parts # None
        /\ TellSize(SubSeq(line, 3, Len(line)), entry.size)
     \/ /\ Len(line) >= 2 /\ IsFileName(line[1]) /\ line[1].text = entry.filename
        /\ TellSize(SubSeq(line, 2, Len(line)), entry.size)
        /\ TellParts(SubSeq(line, 2, Len(line)), entry.parts)
        /\ entry.size # None \/ entry.parts # None

\* Nothing, a word, a comment, words that are no file name, or a file name of
\* which nothing is told.  What an inverted range in front of a file name means
\* is left open: TocEntry and the notes of parse_toc promise an entry without
\* parts (toc.rs:42-44, 284-285), and Format3 drops the line (toc.rs:173-174).
IsProse(line) ==
  \/ Len(line) <= 1
  \/ line[1].is = "hash"
  \/ line[1].is = "range" /\ ~IsFileName(line[2])
  \/ line[1].is # "range" /\ ~IsFileName(line[1])
  \/ /\ IsFileName(line[1]) /\ TellParts(SubSeq(line, 2, Len(line)), None)
     /\ \A i \in 2 .. Len(line) : line[i].is # "size"

Contents == [i \in DOMAIN Table |-> Table[i].line]

\* What the poster meant.
Listed ==
  FlattenSeq([i \in DOMAIN Table |->
                IF Table[i].entry = None THEN <<>> ELSE <<Table[i].entry>>])

ASSUME TableAssumption ==
  /\ Table \in Seq(Range(Table))
  /\ \A i \in DOMAIN Table :
       LET line == Table[i].line
       IN  /\ line \in Seq(Range(line))
           /\ IF Table[i].entry = None THEN IsProse(line)
              ELSE IsWrittenFor(line, Table[i].entry)
  /\ Listed # <<>>

-----------------------------------------------------------------------------
(* The posted series.                                                      *)

Numbers == DOMAIN PartEnds
Total == Len(PartEnds)

FirstOffset(n) == IF n = 1 THEN 0 ELSE PartEnds[n - 1]

Line(kind, bytes) == [kind |-> kind, bytes |-> bytes]

\* A line of text stands above the block; every byte has a line of its own.
DataLines(n) ==
  [i \in 1 .. PartEnds[n] - FirstOffset(n) |->
     Line("data", <<File[FirstOffset(n) + i]>>)]

Opening == <<Line("broken", <<>>), Line("begin", <<>>)>>
Closing == <<Line("zero", <<>>), Line("end", <<>>)>>

PartBody(n, style) ==
  (IF style = "each" \/ n = 1 THEN Opening ELSE <<>>)
    \o DataLines(n)
    \o (IF style = "each" \/ n = Total THEN Closing ELSE <<>>)

ReplyPrefixes(n, how) ==
  IF n \in how.replied THEN <<Subject!Reply, Subject!Reply>> ELSE <<>>

Posted(n, how) ==
  [number  |-> n,
   subject |-> ReplyPrefixes(n, how) \o how.title
                 \o <<Subject!Mark(how.pattern, n,
                        IF n = 0 /\ how.toc = "noTotal" THEN 0 ELSE Total)>>,
   body    |-> IF n = 0 THEN Contents ELSE PartBody(n, how.style)]

PostedNumbers(how) == Numbers \cup (IF how.toc = "none" THEN {} ELSE {0})

PostedArticles == {Posted(n, setup) : n \in PostedNumbers(setup)}

\* The whole body of a part, and what is left of one that broke off.
Copies(n, style) ==
  {SubSeq(PartBody(n, style), 1, length) :
     length \in 0 .. Len(PartBody(n, style))}

\* Every body that can be delivered, and what decode makes of it.
Bodies == UNION {Copies(n, style) : n \in Numbers, style \in {"each", "split"}}

Decoded == [body \in Bodies |-> DecodeLimited(body, Unlimited)]

\* Text that is no part, such as the table of contents, has no block in it.
DecodeBody(body) ==
  IF body \in Bodies THEN Decoded[body] ELSE DecodeLimited(<<>>, Unlimited)

Parts == INSTANCE UuCollection WITH Decode <- DecodeBody

-----------------------------------------------------------------------------
(* The network.                                                            *)

Damage ==
  /\ setup.damaged
  /\ damage < MaxDamage
  /\ damage' = damage + 1
  /\ \E n \in Numbers : \E length \in 0 .. Len(PartBody(n, setup.style)) - 1 :
       spool' = spool \cup
         {[Posted(n, setup) EXCEPT !.body = SubSeq(@, 1, length)]}
  /\ UNCHANGED <<setup, delivered, clientVars>>

-----------------------------------------------------------------------------
(* The client.                                                             *)

CollectionOf(key) ==
  IF key \in DOMAIN collections THEN collections[key] ELSE Parts!NewCollection

\* Faulty variant: a collection is made anew for every total read.
SizedByEvery(collection, total) == Parts!WithTotal(total)

\* A total read from a subject counts while the collection has none; the
\* collection is then made anew.
Sized(collection, total) ==
  IF collection.total = Parts!NoTotal THEN Parts!WithTotal(total) ELSE collection

\* One turn of the loop.  Articles without a part number are skipped, and
\* duplicates are ignored.
Receive(article) ==
  /\ \E parts \in Subject!ParseSubject(article.subject) :
       /\ parts.index # None
       /\ collections' =
            Parts!Put(collections, parts.base,
              Parts!Add(Sized(CollectionOf(parts.base), parts.total),
                        parts.index, article.body))
  /\ delivered' = delivered \cup ({article.number} \ {None})
  /\ UNCHANGED <<setup, spool, damage, results, contents>>

\* reassemble, which a client may also call for an incomplete collection.
ReassembleSeries(key) ==
  /\ key \in DOMAIN collections
  /\ results' = Parts!Put(results, key, Parts!Reassemble(collections[key]))
  /\ UNCHANGED <<setup, spool, damage, delivered, collections, contents>>

ReassembleComplete ==
  \E key \in DOMAIN collections :
    Parts!IsComplete(collections[key]) /\ ReassembleSeries(key)

\* parse_toc on the body of toc_part.
ReadContents ==
  /\ \E key \in DOMAIN collections :
       /\ 0 \in DOMAIN collections[key].parts
       /\ contents' = Parts!Put(contents, key, ParseToc(collections[key].parts[0]))
  /\ UNCHANGED <<setup, spool, damage, delivered, collections, results>>

Init ==
  /\ setup \in Setups
  /\ spool = PostedArticles \cup Strangers
  /\ damage = 0
  /\ delivered = {}
  /\ collections = <<>>
  /\ results = <<>>
  /\ contents = <<>>

Next ==
  \/ Damage
  \/ \E article \in spool : Receive(article)
  \/ \E key \in DOMAIN collections : ReassembleSeries(key)
  \/ ReadContents

Spec == Init /\ [][Next]_vars

\* The client goes through all articles and reassembles what is complete
\* (`for (subject, body_bytes) in raw_messages', `for (key, coll) in ...').
ClientFairness ==
  /\ \A n \in Numbers :
       WF_vars(\E article \in {Posted(n, setup)} : Receive(article))
  /\ WF_vars(ReassembleComplete)

FairSpec == Spec /\ ClientFairness

-----------------------------------------------------------------------------
(* Properties.                                                             *)

\* The parts the client has of the series, without the table of contents.
Known ==
  Restrict(CollectionOf(setup.key).parts,
           DOMAIN CollectionOf(setup.key).parts \ {0})

\* A file counts as handed over when the result is not marked as truncated
\* (reassemble.rs:30-33).
Handed ==
  IF /\ setup.key \in DOMAIN results
     /\ results[setup.key].error = "none"
     /\ ~results[setup.key].truncated
  THEN results[setup.key].data ELSE None

Series == INSTANCE SeriesAssembly
            WITH Whole <- File, Nothing <- None, known <- Known, handed <- Handed

\* In whatever order articles come, however often, among articles of others
\* and with copies that break off: a part once collected is neither lost nor
\* replaced, and only the posted file is ever returned as not truncated, once
\* all its parts have come (lib.rs:77-102, reassemble.rs:130-175).
ImplementsSeriesAssembly == Series!Spec

\* Once a total is known, what missing_parts reports are the parts that have
\* not come, in whatever form the markers are written, and all that has come is
\* kept.  A table of contents marked (0/0) names no total: until another part
\* comes, the collection is that one entry and is not complete; the first total
\* then makes the collection anew, and that entry alone may be gone
\* (lib.rs:85-90, collection.rs:171-283, subject.rs:194-276).
GapsAreUndelivered ==
  LET collection == CollectionOf(setup.key)
      counted    == delivered \ (IF setup.toc = "total" THEN {} ELSE {0})
  IN  \/ /\ counted = {}
         /\ DOMAIN collection.parts = delivered
         /\ collection.total = Parts!NoTotal /\ ~Parts!IsComplete(collection)
      \/ /\ counted # {}
         /\ Parts!MissingParts(collection) = Numbers \ delivered
         /\ Parts!IsComplete(collection) <=> Numbers \subseteq delivered
         /\ counted \subseteq DOMAIN collection.parts
         /\ DOMAIN collection.parts \subseteq delivered

\* Whatever format the lines of the table of contents are written in, and
\* whatever stands between them, its entries are read as they were meant, in
\* their order (toc.rs:126-226, 320-330).
ContentsUnderstood ==
  setup.key \in DOMAIN contents => contents[setup.key] = Listed

\* A client that goes through all articles gets the file in the end, when
\* the parts were encoded one by one and no copy breaks off.
SeriesRecovered ==
  setup.style = "each" /\ ~setup.damaged => <>(Handed = File)

\* lib.rs:5-10 and 23-24 say that a file is encoded and the result split, and
\* that reassemble concatenates the bodies before decoding; lib.rs:99 expects
\* it to succeed on a complete collection.
CompleteSeriesDecodes ==
  [][Parts!IsComplete(CollectionOf(setup.key)) /\ ReassembleSeries(setup.key)
       => results'[setup.key].error = "none"]_vars

=============================================================================
