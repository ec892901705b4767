----------------------------- MODULE MimeMessage -----------------------------
(***************************************************************************)
(* mime-tree as a client uses it: parse() of parse.rs builds the tree,     *)
(* sorts it into the body lists (BodyStructure) and takes a preview of the *)
(* first text part; then the client decodes bodies (BodyDecode) and reads  *)
(* header values (HeaderTyped).                                            *)
(*                                                                         *)
(* The tree of BodyStructure says nothing of the bytes of a part, so they  *)
(* are chosen when they are first read.  A body is                         *)
(*   raw      the units of the whole message, see BodyDecode               *)
(*   header   where mail-parser says the body begins and ends, and what    *)
(*            the header declares: a Content-Type, its charset attribute   *)
(*            and the Content-Transfer-Encoding (Nothing if absent)        *)
(*   sent     the bytes that were encoded, Nothing if no encoder made it   *)
(***************************************************************************)
EXTENDS BodyStructure, BodyDecode, HeaderTyped

CONSTANTS
  PreviewBytes,   \* 1024 in the source
  PreviewChars,   \* 256 in the source
  BodiesIn(_),    \* the bodies the first text part of a tree may have
  CallsIn(_)      \* the calls a client makes once a tree is parsed

\* The bytes decoded for a preview are enough for its characters.
ASSUME PreviewAssumption ==
  PreviewChars \in Nat \ {0} /\ PreviewBytes \in Nat /\ PreviewBytes >= 4 * PreviewChars

VARIABLES
  preview,   \* of parse: the body it was taken from, and the text or Nothing
  answer     \* the last call of the client and its result

messageVars == <<vars, preview, answer>>

\* The preview is not taken yet, no call is made yet.
NoPreview == Nothing
NoAnswer == Nothing

-----------------------------------------------------------------------------
(* parse.  build_part fills in the fields of a part.                       *)

\* The others are decoded alike, the names this crate does not know included.
MapEncoding(cte) ==
  IF cte \in {"base64", "quoted-printable"} THEN cte
  ELSE IF cte \in {"x-uuencode", "x-uue", "uuencode"} THEN "x-uuencode"
  ELSE "identity"

CharsetOf(header) ==
  IF header.contentType THEN header.charset ELSE "us-ascii"

\* Faulty variant: the end of the body is taken for its length.
PartOfEnd(header) ==
  [offset   |-> header.offset,
   length   |-> header.end,
   encoding |-> MapEncoding(header.cte),
   charset  |-> CharsetOf(header)]

PartOf(header) ==
  [offset   |-> header.offset,
   length   |-> Max({header.end - header.offset, 0}),
   encoding |-> MapEncoding(header.cte),
   charset  |-> CharsetOf(header)]

Decoded(body, max) == DecodeBodyValue(body.raw, PartOf(body.header), max)

\* The first characters; an error and a text that is empty give none.
BeginningOf(decoded) ==
  IF decoded.error # "none" \/ decoded.value = <<>> THEN Nothing
  ELSE Prefix(decoded.value, PreviewChars)

\* Faulty variant: the bytes decoded are as many as the characters wanted.
PreviewOfTooFewBytes(body) == BeginningOf(Decoded(body, PreviewChars))

PreviewOf(body) == BeginningOf(Decoded(body, PreviewBytes))

MessageInit == Init /\ preview = NoPreview /\ answer = NoAnswer

Walk == Next /\ UNCHANGED <<preview, answer>>

TakePreview ==
  /\ ~Running
  /\ preview = NoPreview
  /\ textBody # <<>>
  /\ \E body \in BodiesIn(tree) :
       preview' = [of |-> body, text |-> PreviewOf(body)]
  /\ UNCHANGED <<vars, answer>>

NoTextToPreview ==
  /\ ~Running
  /\ preview = NoPreview
  /\ textBody = <<>>
  /\ preview' = [of |-> Nothing, text |-> Nothing]
  /\ UNCHANGED <<vars, answer>>

-----------------------------------------------------------------------------
(* The client.                                                             *)

Answered(call, result) == [call |-> call, result |-> result]

DecodeBody(call) ==
  /\ call.op = "body"
  /\ answer' = Answered(call, Decoded(call.body, call.max))

ReadHeader(call) ==
  /\ call.op = "header"
  /\ answer' = Answered(call, ParseHeaderTyped(call.form, call.raw))

\* The calls keep no state; one of them shows what each can return.
CallOnce ==
  /\ preview # NoPreview
  /\ answer = NoAnswer
  /\ \E call \in CallsIn(tree) : DecodeBody(call) \/ ReadHeader(call)
  /\ UNCHANGED <<vars, preview>>

MessageNext == Walk \/ TakePreview \/ NoTextToPreview \/ CallOnce

MessageSpec == MessageInit /\ [][MessageNext]_messageVars

-----------------------------------------------------------------------------
(* Properties.                                                             *)

\* What the header of a part says of its body, whatever build_part makes of it.
Carried(body) ==
  SubSeq(body.raw, body.header.offset + 1, body.header.end)

IsWithin(body) ==
  body.header.offset <= Len(body.raw) /\ body.header.end <= Len(body.raw)

Whole(body) ==
  TransferDecode(Carried(body), MapEncoding(body.header.cte), Unlimited)

Sound(body) ==
  \/ body.sent # Nothing
  \/ IsWithin(body) /\ ~Whole(body).problem

\* A body fits in memory.  What was sent is what its encoder was given, so the
\* body decodes to it when all of it is decoded.
IsBody(body) ==
  LET encoding == MapEncoding(body.header.cte)
  IN  /\ body.raw \in Seq(Range(body.raw)) /\ Len(body.raw) <= Unlimited
      /\ body.header.offset \in Nat /\ body.header.end \in Nat
      /\ IsWithin(body) =>
           /\ encoding # "identity" =>
                AreUnits(Carried(body)) /\ Len(BytesIn(Carried(body))) <= Unlimited
           /\ encoding = "base64" => GroupedBy4(Stripped(Carried(body)))
           /\ ~Whole(body).problem => AreOfCharacters(Whole(body).bytes)
      /\ body.sent # Nothing =>
           /\ IsWithin(body)
           /\ ~Whole(body).problem
           /\ Whole(body).bytes = body.sent

ASSUME BodiesAssumption ==
  \A message \in Messages :
    /\ \A body \in BodiesIn(TreeOf(message)) : IsBody(body)
    /\ \A call \in CallsIn(TreeOf(message)) :
         \/ call.op = "body" /\ IsBody(call.body) /\ call.max \in Nat
         \/ /\ call.op = "header"
            /\ call.form \in Forms /\ call.raw \in Seq(Range(call.raw))

\* What was encoded; of a body no encoder made, what decodes without a limit.
Original(body) == IF body.sent # Nothing THEN body.sent ELSE Whole(body).bytes

\* A limit cuts what was sent and does nothing else: under every name of a
\* transfer encoding and for every limit the value is the text of the first
\* bytes that were encoded, the result is marked as truncated just when there
\* are more, and a problem is reported just when a character is malformed or
\* cut (decode.rs:62-155, parse.rs:286-311).
LimitedIsPrefix ==
  answer # NoAnswer /\ answer.call.op = "body" /\ Sound(answer.call.body) =>
    LET bytes == Original(answer.call.body)
        text  == Text(Prefix(bytes, answer.call.max), CharsetOf(answer.call.body.header))
    IN  answer.result = [error     |-> "none",
                         value     |-> text,
                         truncated |-> Len(bytes) > answer.call.max,
                         problem   |-> HadErrors(text)]

\* The preview is what the text of the whole body begins with, up to the
\* number of characters, although only some bytes of the body are decoded
\* (parse.rs:43-56).  That is so unless a byte order mark takes up some of the
\* bytes.
PreviewIsBeginning ==
  preview # NoPreview /\ preview.of # Nothing /\ Sound(preview.of)
    /\ ~StartsWithMark(Original(preview.of)) =>
    LET text == Text(Original(preview.of), CharsetOf(preview.of.header))
    IN  preview.text = IF text = <<>> THEN Nothing ELSE Prefix(text, PreviewChars)

HeaderCall == answer # NoAnswer /\ answer.call.op = "header"

\* The opening brackets up to a position that are not closed up to there.  What
\* the next closing bracket closes begins at the first of them.
Openings(raw, last) ==
  {i \in 1 .. last : raw[i] = "<" /\ \A j \in i .. last : raw[j] # ">"}

NotWhite(s) ==
  FlattenSeq([i \in DOMAIN s |-> IF s[i] \in White THEN <<>> ELSE <<s[i]>>])

Opened(raw, last) == NotWhite(SubSeq(raw, Min(Openings(raw, last)) + 1, last))

\* The value a character closes, none if it closes none, or a bad one.
ClosedBy(raw, i) ==
  IF /\ raw[i] = ">"
     /\ Openings(raw, i - 1) # {}
     /\ Opened(raw, i - 1) # <<>>
     /\ "bad" \notin ToSet(Opened(raw, i - 1))
  THEN <<Opened(raw, i - 1)>> ELSE <<>>

Bracketed(raw) == FlattenSeq([i \in DOMAIN raw |-> ClosedBy(raw, i)])

\* What stands outside of angle brackets is never part of a URL, nor of a
\* message id when no bracket is left open or empty, however comments, folds
\* and stray brackets are mixed (header_typed.rs:1053-1081 and 1030-1036).
OnlyBracketsCount ==
  HeaderCall =>
    LET raw == answer.call.raw
    IN  /\ answer.call.form = "URLs" => answer.result = Bracketed(raw)
        /\ answer.call.form = "MessageIds" /\ (HasBracket(raw) => Bracketed(raw) # <<>>)
             => answer.result = Bracketed(raw)

\* Every form reads the same, with CRLF, with LF and without a line end after
\* the value, and the groups of a value hold the addresses of it, in order, no
\* name being empty or padded (header_typed.rs:702-799, 929-1017).
FormsAgree ==
  HeaderCall =>
    LET form   == answer.call.form
        raw    == answer.call.raw
        groups == ParseHeaderTyped("GroupedAddresses", raw)
    IN  /\ ~IsSuffix(<<"lf">>, raw) /\ ~IsSuffix(<<"cr">>, raw) =>
             \A end \in {<<"lf">>, CRLF} : ParseHeaderTyped(form, raw \o end) = answer.result
        /\ form = "Addresses" =>
             answer.result = FlattenSeq([g \in DOMAIN groups |-> groups[g].addresses])
        /\ \A g \in DOMAIN groups : groups[g].name = TrimOrNone(groups[g].name)

=============================================================================
