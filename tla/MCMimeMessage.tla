---------------------------- MODULE MCMimeMessage ----------------------------
(***************************************************************************)
(* MimeMessage for TLC: the trees of MCBodyStructure.  Every body is the   *)
(* preview of a message that is one plain text, every call is made on a    *)
(* message that is one HTML text; the other trees get one body.            *)
(***************************************************************************)
EXTENDS MimeMessage, MCBodyStructure

Narrow == Encoded("a", 1)
Wide == Encoded("w", 4)
Mark == Encoded(ByteOrderMark, 3)

\* Texts of up to 3 characters of 1 and 4 bytes, a long one, one that stops
\* in a character, one that begins in one, and one with a byte order mark.
Texts ==
  {FlattenSeq(s) : s \in UNION {[1 .. n -> {Narrow, Wide}] : n \in 0 .. 3}}
    \cup {FlattenSeq([i \in 1 .. 12 |-> Narrow]),
          Narrow \o Prefix(Wide, 3),
          Tail(Wide) \o Narrow,
          Mark \o Wide \o Wide}

Unit(kind, bytes) == [kind |-> kind, bytes |-> bytes]

Base64Unit(kind, bytes, spills) ==
  [kind |-> kind, bytes |-> bytes, spills |-> spills]

Pad == Base64Unit("pad", <<>>, FALSE)
Junk == Base64Unit("junk", <<>>, FALSE)
Break == Base64Unit("break", <<>>, FALSE)

\* The base64 characters of a text, without padding.
Base64Of(text) ==
  FlattenSeq([i \in DOMAIN text |->
    (IF i % 3 = 1 THEN <<Base64Unit("char", <<>>, TRUE)>> ELSE <<>>)
      \o <<Base64Unit("char", <<text[i]>>, i % 3 # 0 /\ i < Len(text))>>])

Padding(text) ==
  CASE Len(text) % 3 = 0 -> <<>>
    [] Len(text) % 3 = 1 -> <<Pad, Pad>>
    [] Len(text) % 3 = 2 -> <<Pad>>

\* With and without padding, and wrapped.
Base64Bodies(text) ==
  {Base64Of(text), Base64Of(text) \o Padding(text),
   Prefix(Base64Of(text), 4) \o <<Break, Break>>
     \o FlattenSeq([i \in 1 .. Len(Base64Of(text)) - 4 |->
                      <<Base64Of(text)[i + 4], Break>>])}

\* Literals, escapes, and either with many soft breaks after the first.
QpBodies(text) ==
  {[i \in DOMAIN text |-> Unit(kind, <<text[i]>>)] : kind \in {"literal", "escape"}}
    \cup {FlattenSeq([i \in DOMAIN text |->
            <<Unit(kind, <<text[i]>>)>>
              \o (IF i = 1 THEN [k \in 1 .. 12 |-> Unit("soft", <<>>)] ELSE <<>>)]) :
          kind \in {"literal", "escape"}}

\* Every byte on a line of its own, or all on one line.
UuBodies(text) ==
  {<<Unit("begin", <<>>)>> \o lines \o <<Unit("zero", <<>>), Unit("end", <<>>)>> :
     lines \in {[i \in DOMAIN text |-> Unit("data", <<text[i]>>)],
                IF text = <<>> THEN <<>> ELSE <<Unit("data", text)>>}}

\* Pairs of a body and a declared transfer encoding.
EncodedBodies(text) ==
  (Base64Bodies(text) \X {"base64"})
    \cup (QpBodies(text) \X {"quoted-printable"})
    \cup (UuBodies(text) \X {"x-uuencode", "x-uue", "uuencode"})
    \cup ({text} \X {"8bit", "x-unknown", Nothing})

\* Bodies no encoder makes: bits left over, padding before the end, a character
\* that is not base64, an escape that does not decode, lines that are missing.
MalformedBodies ==
  {<<Prefix(Base64Of(Wide), n), "base64">> : n \in 1 .. 5}
    \cup {<<Base64Of(Narrow) \o <<Pad, Pad>> \o Base64Of(Narrow), "base64">>,
          <<Base64Of(Wide) \o <<Junk>>, "base64">>,
          <<Base64Of(Prefix(Wide, 3)) \o <<Pad>>, "base64">>,
          <<[i \in 1 .. 40 |-> Unit(IF i = 40 THEN "refused" ELSE "literal", Narrow)],
            "quoted-printable">>,
          <<<<Unit("data", Wide), Unit("end", <<>>)>>, "x-uuencode">>,
          <<<<Unit("begin", <<>>), Unit("data", Wide)>>, "x-uuencode">>}

\* The header of a message has 2 units.
Header(body) == <<Unit("header", <<>>), Unit("header", <<>>)>> \o body

Message(encoded, declared, text) ==
  [raw    |-> Header(encoded[1]),
   header |-> [offset |-> 2, end |-> 2 + Len(encoded[1]), cte |-> encoded[2],
               contentType |-> declared[1], charset |-> declared[2]],
   sent   |-> text]

\* A Content-Type with and without a charset, and none at all.
Declared ==
  {<<TRUE, "utf-8">>, <<TRUE, "windows-1252">>, <<TRUE, Nothing>>, <<FALSE, Nothing>>}

OneBody == Message(<<Narrow, "8bit">>, <<TRUE, "utf-8">>, Narrow)

\* The client brings another message than the one that was parsed; a body that
\* ends before it begins is empty.
OddRanges ==
  {[OneBody EXCEPT !.header.end = @ + 1, !.sent = Nothing],
   [OneBody EXCEPT !.header.end = 1, !.sent = <<>>]}

AllBodies ==
  UNION {{Message(encoded, declared, text) :
            encoded \in EncodedBodies(text), declared \in Declared} : text \in Texts}
    \cup {Message(encoded, declared, Nothing) :
            encoded \in MalformedBodies, declared \in Declared}
    \cup OddRanges

IsSingle(parts, type) ==
  DOMAIN parts = {<<1>>} /\ parts[<<1>>] = LeafPart(type, FALSE, FALSE)

SomeBodiesIn(parts) == IF IsSingle(parts, "plain") THEN AllBodies ELSE {OneBody}

-----------------------------------------------------------------------------
\* Values with an address list, groups, or an empty list; or a date.
Values == {<<"list">>, <<" ", "list">>, <<"group">>, <<"none">>, <<"date">>, <<"zero">>}

Addr(name) == [name |-> name, address |-> "x"]

Terminated(table) == [value \in {v \o CRLF : v \in DOMAIN table} |->
                        table[SubSeq(value, 1, Len(value) - 2)]]

ListOf(names) ==
  [is |-> "list", list |-> [i \in DOMAIN names |-> Addr(names[i])]]

SomeAddresses == Terminated(
  [v \in {<<"list">>, <<" ", "list">>, <<"group">>, <<"none">>} |->
     CASE v = <<"list">> \/ v = <<" ", "list">> ->
            ListOf(<<<<" ", "n", " ">>, Nothing, <<" ">>>>)
       [] v = <<"none">> -> ListOf(<<>>)
       [] v = <<"group">> ->
            [is |-> "group",
             groups |-> <<[name |-> <<"g", " ">>, addresses |-> <<Addr(<<"n">>)>>],
                          [name |-> <<" ">>, addresses |-> <<>>],
                          [name |-> Nothing,
                           addresses |-> <<Addr(Nothing), Addr(<<" ", "m">>)>>]>>]])

SomeDates == Terminated(
  [v \in {<<"date">>, <<"zero">>} |->
     [month |-> IF v = <<"zero">> THEN 0 ELSE 5, day |-> 1,
      beforeGmt |-> TRUE, instant |-> "t"]])

SomeTexts == Terminated([v \in Values |-> Trim(v)])

\* Brackets in every order, with folds and bytes that are not UTF-8 between.
BracketValues ==
  UNION {[1 .. n -> {"<", ">", "a", " "}] : n \in 0 .. 5}
    \cup [1 .. 4 -> {"<", ">", "lf", "bad"}]

HeaderCalls ==
  {[op |-> "header", form |-> form, raw |-> raw] :
     form \in {"Raw", "MessageIds", "URLs"}, raw \in BracketValues}
    \cup {[op |-> "header", form |-> form, raw |-> raw \o end] :
            form \in Forms, raw \in Values, end \in {<<>>, <<"lf">>, CRLF}}

BodyCalls ==
  {[op |-> "body", body |-> body, max |-> max] :
     body \in AllBodies, max \in (0 .. 9) \cup {Unlimited}}

SomeCallsIn(parts) ==
  IF IsSingle(parts, "html") THEN HeaderCalls \cup BodyCalls ELSE {}
=============================================================================
