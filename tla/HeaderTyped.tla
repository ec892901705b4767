----------------------------- MODULE HeaderTyped -----------------------------
(***************************************************************************)
(* mime-tree/src/header_typed.rs: parse_header_typed, which reads the      *)
(* value of a header in one of the forms of RFC 8621, 4.1.2.               *)
(*                                                                         *)
(* A value is a sequence of characters.  "<", ">", " ", "cr" and "lf" are  *)
(* what they say, "bad" is a byte that is not UTF-8, any other is a letter.*)
(* What mail-parser makes of a value that ends in CRLF is a table for      *)
(* addresses, dates and text; for message ids the code relies on how it    *)
(* treats brackets (header_typed.rs:755-769), so that is spelled out.      *)
(***************************************************************************)
EXTENDS Integers, Sequences, SequencesExt, FiniteSetsExt

CONSTANTS
  Nothing,        \* Option::None
  Mojibake,       \* U+FFFD in place of a byte that is not UTF-8
  ParsedAddress,  \* values to [is |-> "list", list] or [is |-> "group", groups]
  ParsedDate,     \* values to [month, day, beforeGmt, instant]
  ParsedText      \* values to their unfolded and decoded text

Forms == {"Raw", "Text", "Addresses", "GroupedAddresses", "MessageIds",
          "Date", "URLs"}

White == {" ", "cr", "lf"}

Blank(s) == ToSet(s) \subseteq White

Trim(s) ==
  IF Blank(s) THEN <<>>
  ELSE SubSeq(s, SelectInSeq(s, LAMBDA c : c \notin White),
                 SelectLastInSeq(s, LAMBDA c : c \notin White))

TrimOrNone(s) == IF s = Nothing \/ Blank(s) THEN Nothing ELSE Trim(s)

\* A name is text.
ASSUME HeadersAssumption ==
  \A value \in DOMAIN ParsedAddress : ParsedAddress[value].is # "list" =>
    \A g \in DOMAIN ParsedAddress[value].groups :
      LET name == ParsedAddress[value].groups[g].name
      IN  name = Nothing \/ name \in Seq(Range(name))

CRLF == <<"cr", "lf">>

\* Faulty variant: a bare LF is kept.
CrlfAppended(raw) == IF IsSuffix(CRLF, raw) THEN raw ELSE raw \o CRLF

CrlfTerminated(raw) ==
  IF IsSuffix(CRLF, raw) THEN raw
  ELSE IF IsSuffix(<<"lf">>, raw) THEN Front(raw) \o CRLF
  ELSE raw \o CRLF

\* What mail-parser makes of the value; no entry means it gives up.
Entry(table, raw) ==
  {table[value] : value \in DOMAIN table \cap {CrlfTerminated(raw)}}

-----------------------------------------------------------------------------
(* Addresses.                                                              *)

ConvertAddr(addr) == [name |-> TrimOrNone(addr.name), address |-> addr.address]

Converted(addrs) == [i \in DOMAIN addrs |-> ConvertAddr(addrs[i])]

FlattenAddresses(parsed) ==
  IF parsed.is = "list" THEN Converted(parsed.list)
  ELSE FlattenSeq([g \in DOMAIN parsed.groups |->
                     Converted(parsed.groups[g].addresses)])

Group(name, addrs) == [name |-> name, addresses |-> Converted(addrs)]

\* A list without groups is one group without a name.
GroupAddresses(parsed) ==
  IF parsed.is = "list"
  THEN IF parsed.list = <<>> THEN <<>> ELSE <<Group(Nothing, parsed.list)>>
  ELSE [g \in DOMAIN parsed.groups |->
          Group(TrimOrNone(parsed.groups[g].name), parsed.groups[g].addresses)]

-----------------------------------------------------------------------------
(* URLs: the loop over the characters, outside or inside of brackets.      *)

Outside(urls) == [open |-> FALSE, url |-> <<>>, urls |-> urls]

Inside(state, url) == [state EXCEPT !.open = TRUE, !.url = url]

\* An empty URL and one that is not UTF-8 are dropped.
Closed(state) ==
  Outside(IF state.url = <<>> \/ "bad" \in ToSet(state.url) THEN state.urls
          ELSE Append(state.urls, state.url))

UrlStep(state, c) ==
  IF ~state.open THEN (IF c = "<" THEN Inside(state, <<>>) ELSE state)
  ELSE IF c = ">" THEN Closed(state)
  ELSE IF c \in White THEN state
  ELSE Inside(state, Append(state.url, c))

ExtractBracketedUrls(raw) ==
  LET state[i \in 0 .. Len(raw)] ==
        IF i = 0 THEN Outside(<<>>) ELSE UrlStep(state[i - 1], raw[i])
  IN  state[Len(raw)].urls

-----------------------------------------------------------------------------
(* Message ids.                                                            *)

HasBracket(raw) == \E i \in DOMAIN raw : raw[i] = "<"

\* mail-parser returns one id as text and several as a list; when it finds
\* none, it returns the value as it is, as text.
ParseId(value) ==
  LET ids == ExtractBracketedUrls(value)
  IN  IF Len(ids) > 1 THEN [is |-> "textList", list |-> ids]
      ELSE [is |-> "text", list |-> IF ids = <<>> THEN <<value>> ELSE ids]

\* Faulty variant: any text is an id.
ExtractAnyMsgIds(parsed, hadAngleBrackets) == parsed.list

ExtractMsgIds(parsed, hadAngleBrackets) ==
  IF parsed.is = "text" /\ ~hadAngleBrackets THEN <<>> ELSE parsed.list

-----------------------------------------------------------------------------
Lossy(raw) == [i \in DOMAIN raw |-> IF raw[i] = "bad" THEN Mojibake ELSE raw[i]]

\* A date without month or day is none.
HeaderDate(parsed) ==
  IF parsed.month = 0 \/ parsed.day = 0 THEN Nothing
  ELSE [month   |-> parsed.month,
        day     |-> parsed.day,
        tzSign  |-> IF parsed.beforeGmt THEN "West" ELSE "East",
        instant |-> parsed.instant]

\* What a form makes of an entry, or Default.
Or(results, Default) ==
  IF results = {} THEN Default ELSE CHOOSE result \in results : TRUE

ParseHeaderTyped(form, raw) ==
  CASE form = "Raw"  -> Trim(Lossy(raw))
    [] form = "Text" -> Or(Entry(ParsedText, raw), <<>>)
    [] form = "URLs" -> ExtractBracketedUrls(raw)
    [] form = "Addresses" ->
         Or({FlattenAddresses(p) : p \in Entry(ParsedAddress, raw)}, <<>>)
    [] form = "GroupedAddresses" ->
         Or({GroupAddresses(p) : p \in Entry(ParsedAddress, raw)}, <<>>)
    [] form = "MessageIds" ->
         ExtractMsgIds(ParseId(CrlfTerminated(raw)), HasBracket(raw))
    [] form = "Date" ->
         Or({HeaderDate(p) : p \in Entry(ParsedDate, raw)}, Nothing)

=============================================================================
