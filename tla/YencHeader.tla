------------------------------ MODULE YencHeader ------------------------------
(***************************************************************************)
(* yencoding/src/header.rs: what is read from =ybegin, =ypart and =yend    *)
(* lines.  A payload is what follows the keyword, a sequence of tokens:    *)
(*   sep     the space or tab in front of it                               *)
(*   key     what stands before its first `=', None if there is none       *)
(*   value   what stands behind it                                         *)
(*   parses  the value is a number of the width its key asks for           *)
(***************************************************************************)
EXTENDS Integers, Sequences, SequencesExt, FiniteSetsExt

CONSTANT
  None        \* Option::None

Field(key, value) == [sep |-> "space", key |-> key, value |-> value, parses |-> TRUE]

\* Positions of name= behind a space or a tab.
NamesBehind(payload, sep) ==
  {i \in DOMAIN payload : payload[i].key = "name" /\ payload[i].sep = sep}

\* At the start, else the first behind a space, else the first behind a tab;
\* 0 if there is none.
FindNameParam(payload) ==
  IF payload # <<>> /\ payload[1].key = "name" THEN 1
  ELSE IF NamesBehind(payload, "space") # {} THEN Min(NamesBehind(payload, "space"))
  ELSE IF NamesBehind(payload, "tab") # {} THEN Min(NamesBehind(payload, "tab"))
  ELSE 0

\* The positions of the pairs in front of the first name=; a word without `='
\* is none.
KvIter(tokens) ==
  {i \in DOMAIN tokens : /\ tokens[i].key # None
                         /\ \A j \in 1 .. i : tokens[j].key # "name"}

\* Of several the last one counts.
ValueOf(tokens, key) ==
  LET at == {i \in KvIter(tokens) : tokens[i].key = key}
  IN  IF at = {} THEN None ELSE tokens[Max(at)].value

\* But all of them have to be numbers; unknown keys are skipped.
AllParse(tokens, keys) ==
  \A i \in KvIter(tokens) : tokens[i].key \in keys => tokens[i].parses

\* Faulty variant: pairs are taken from the name as well.
BeforeNameAndIn(payload) ==
  [i \in DOMAIN payload |->
     IF payload[i].key = "name" THEN [payload[i] EXCEPT !.key = None] ELSE payload[i]]

BeforeName(payload) ==
  LET name == FindNameParam(payload)
  IN  IF name = 0 THEN payload ELSE SubSeq(payload, 1, name - 1)

\* The name is the rest of the line, whatever it looks like.
ParseYbegin(payload) ==
  LET name   == FindNameParam(payload)
      before == BeforeName(payload)
  IN  [parses |-> AllParse(before, {"size", "line", "part", "total"}),
       size   |-> ValueOf(before, "size"),
       part   |-> ValueOf(before, "part"),
       total  |-> ValueOf(before, "total"),
       name   |-> IF name = 0 THEN None
                  ELSE SubSeq(payload, name, Len(payload))]

ParseYpart(payload) ==
  LET begin == ValueOf(payload, "begin")
      end   == ValueOf(payload, "end")
  IN  [parses |-> /\ AllParse(payload, {"begin", "end"})
                  /\ begin # None /\ end # None => begin <= end,
       begin  |-> begin,
       end    |-> end]

ParseYend(payload) ==
  [parses |-> AllParse(payload, {"size", "pcrc32", "crc32"}),
   size   |-> ValueOf(payload, "size"),
   pcrc32 |-> ValueOf(payload, "pcrc32"),
   crc32  |-> ValueOf(payload, "crc32")]

=============================================================================
