---------------------------- MODULE BodyStructure ----------------------------
(***************************************************************************)
(* mime-tree/src/parse.rs builds the part tree of a message, and           *)
(* compute_body_structure of walk.rs sorts the leaves of the tree into     *)
(* textBody, htmlBody and attachments (RFC 8621, 4.1.4).                   *)
(*                                                                         *)
(* The recursion of parse_structure is a stack of frames, one per call.    *)
(* The two body lists are shared by all calls; whether a call may append   *)
(* to one (AppendTarget, Some or None) belongs to its frame.  One action   *)
(* is one turn of the loop over the parts of the call on top, or its end.  *)
(***************************************************************************)
EXTENDS Integers, Sequences, SequencesExt, FiniteSets

CONSTANT Messages   \* what mail-parser makes of the messages

(***************************************************************************)
(* A message is the sequence of its parts, a multipart before what is in   *)
(* it, the whole message first.  A part is a record:                       *)
(*   type       "plain", "html", "media" (image, audio, video), "other",   *)
(*              or for a multipart its subtype                             *)
(*   multipart  whether the type starts with multipart/                    *)
(*   attached   whether its disposition is "attachment"                    *)
(*   named      whether it has a filename                                  *)
(*   children   the positions of its children in the message, which may    *)
(*              lie outside                                                *)
(***************************************************************************)

Part == [type : STRING, multipart : BOOLEAN, attached : BOOLEAN,
         named : BOOLEAN, children : Seq(Nat)]

ASSUME MessagesAssumption ==
  \A message \in Messages :
    /\ message \in Seq(Part) /\ message # <<>>
    /\ \A p \in DOMAIN message : \A n \in DOMAIN message[p].children :
         message[p].multipart /\ message[p].children[n] > p
    \* every part but the first is a child once
    /\ \A k \in 2 .. Len(message) : \E p \in DOMAIN message :
         \E n \in DOMAIN message[p].children :
           \A q \in DOMAIN message : \A m \in DOMAIN message[q].children :
             message[q].children[m] = k <=> q = p /\ m = n

VARIABLES
  tree,         \* the part tree: part ids to parts, children being ids
  stack,        \* the calls of parse_structure, the innermost last
  textBody,
  htmlBody,
  attachments

vars == <<tree, stack, textBody, htmlBody, attachments>>

\* A call: its arguments, the index of the next part (1-based) and the
\* lengths at entry.  The length of a list that is off counts as 0.
Call(parts, type, inAlternative, textOn, htmlOn) ==
  [parts |-> parts, next |-> 1, type |-> type, inAlternative |-> inAlternative,
   textOn |-> textOn, htmlOn |-> htmlOn,
   textAtEntry |-> IF textOn THEN Len(textBody) ELSE 0,
   htmlAtEntry |-> IF htmlOn THEN Len(htmlBody) ELSE 0]

-----------------------------------------------------------------------------
(* build_root and build_part (parse.rs): a part id is the sequence of the  *)
(* numbers in its dotted IMAP id.  A child that does not exist is skipped, *)
(* and its number with it.                                                 *)

RootId(message) == IF message[1].multipart THEN <<>> ELSE <<1>>

\* The multipart a part is in.
Container(message, k) ==
  CHOOSE p \in DOMAIN message : k \in ToSet(message[p].children)

PartIds(message) ==
  LET Id[k \in DOMAIN message] ==
        IF k = 1 THEN RootId(message)
        ELSE \* a multipart stands before its children
             LET p == Container(message, k)
             IN  Append(Id[p], SelectInSeq(message[p].children, LAMBDA c : c = k))
  IN  Id

\* The ids of the children that exist, in order.
ChildIds(message, ids, children) ==
  LET Found[n \in 0 .. Len(children)] ==
        IF n = 0 THEN <<>>
        ELSE IF children[n] \in DOMAIN message
             THEN Append(Found[n - 1], ids[children[n]])
             ELSE Found[n - 1]
  IN  Found[Len(children)]

TreeOf(message) ==
  LET ids == PartIds(message)
      PartAt(k) == [message[k] EXCEPT !.children = ChildIds(message, ids, @)]
  IN  [id \in ToSet(ids) |-> PartAt(CHOOSE k \in DOMAIN ids : ids[k] = id)]

-----------------------------------------------------------------------------
(* compute_body_structure and parse_structure.                             *)

\* The root is walked as the only part of a multipart/mixed.
Init ==
  /\ textBody = <<>>
  /\ htmlBody = <<>>
  /\ attachments = <<>>
  /\ \E message \in Messages :
       /\ tree = TreeOf(message)
       /\ stack = <<Call(<<RootId(message)>>, "mixed", FALSE, TRUE, TRUE)>>

Running == stack # <<>>
Top == stack[Len(stack)]
Below == SubSeq(stack, 1, Len(stack) - 1)

MorePart == Running /\ Top.next <= Len(Top.parts)
Id == Top.parts[Top.next]
Current == tree[Id]

Passed == [Top EXCEPT !.next = @ + 1]

PushIf(on, list) == IF on THEN Append(list, Id) ELSE list

\* is_inline of a part, as one of the parts of a container of some type.
IsInline(part, first, container) ==
  /\ ~part.attached
  /\ part.type \in {"plain", "html", "media"}
  /\ \/ first
     \/ container # "related" /\ (part.type = "media" \/ ~part.named)

CurrentInline == IsInline(Current, Top.next = 1, Top.type)

-----------------------------------------------------------------------------
\* Faulty variant: the callee's lists are on again.
DescendReenabling ==
  /\ MorePart
  /\ Current.multipart
  /\ stack' = Below \o <<Passed, Call(Current.children, Current.type,
                Top.inAlternative \/ Current.type = "alternative", TRUE, TRUE)>>
  /\ UNCHANGED <<tree, textBody, htmlBody, attachments>>

Descend ==
  /\ MorePart
  /\ Current.multipart
  /\ stack' = Below \o <<Passed, Call(Current.children, Current.type,
                Top.inAlternative \/ Current.type = "alternative",
                Top.textOn, Top.htmlOn)>>
  /\ UNCHANGED <<tree, textBody, htmlBody, attachments>>

Leaf == MorePart /\ ~Current.multipart

\* An inline part directly in a multipart/alternative goes to one list.
ChooseAlternative ==
  /\ Leaf
  /\ CurrentInline
  /\ Top.type = "alternative"
  /\ textBody' = PushIf(Top.textOn /\ Current.type = "plain", textBody)
  /\ htmlBody' = PushIf(Top.htmlOn /\ Current.type = "html", htmlBody)
  /\ attachments' = PushIf(Current.type = "media", attachments)
  /\ stack' = Append(Below, Passed)
  /\ UNCHANGED tree

\* Faulty variant: media is not attached when one of the lists is off.
ShowInlineMediaLost ==
  /\ Leaf
  /\ CurrentInline
  /\ Top.type # "alternative"
  /\ LET textOn == Top.textOn /\ ~(Top.inAlternative /\ Current.type = "html")
         htmlOn == Top.htmlOn /\ ~(Top.inAlternative /\ Current.type = "plain")
     IN  /\ textBody' = PushIf(textOn, textBody)
         /\ htmlBody' = PushIf(htmlOn, htmlBody)
         /\ stack' = Append(Below, [Passed EXCEPT !.textOn = textOn,
                                                  !.htmlOn = htmlOn])
  /\ UNCHANGED <<tree, attachments>>

\* Any other inline part goes to both lists; deeper inside an alternative a
\* text part first switches the opposite list off for the rest of the call.
ShowInline ==
  /\ Leaf
  /\ CurrentInline
  /\ Top.type # "alternative"
  /\ LET textOn == Top.textOn /\ ~(Top.inAlternative /\ Current.type = "html")
         htmlOn == Top.htmlOn /\ ~(Top.inAlternative /\ Current.type = "plain")
     IN  /\ textBody' = PushIf(textOn, textBody)
         /\ htmlBody' = PushIf(htmlOn, htmlBody)
         /\ attachments' = PushIf(Current.type = "media" /\ ~(textOn /\ htmlOn),
                                  attachments)
         /\ stack' = Append(Below, [Passed EXCEPT !.textOn = textOn,
                                                  !.htmlOn = htmlOn])
  /\ UNCHANGED tree

Attach ==
  /\ Leaf
  /\ ~CurrentInline
  /\ attachments' = Append(attachments, Id)
  /\ stack' = Append(Below, Passed)
  /\ UNCHANGED <<tree, textBody, htmlBody>>

From(list, length) == SubSeq(list, length + 1, Len(list))

\* Faulty variant: the whole other list is copied, not what this call added.
ReturnCopyingAll ==
  /\ Running
  /\ ~MorePart
  /\ LET mirror  == Top.type = "alternative" /\ Top.textOn /\ Top.htmlOn
         newText == Len(textBody) # Top.textAtEntry
         newHtml == Len(htmlBody) # Top.htmlAtEntry
     IN  /\ textBody' = IF mirror /\ newHtml /\ ~newText
                        THEN textBody \o htmlBody ELSE textBody
         /\ htmlBody' = IF mirror /\ newText /\ ~newHtml
                        THEN htmlBody \o textBody ELSE htmlBody
  /\ stack' = Below
  /\ UNCHANGED <<tree, attachments>>

\* Faulty variant: an alternative is not mirrored.
ReturnWithoutMirror ==
  /\ Running
  /\ ~MorePart
  /\ stack' = Below
  /\ UNCHANGED <<tree, textBody, htmlBody, attachments>>

\* The end of a call.  What an alternative added to one list only is copied
\* to the other.
Return ==
  /\ Running
  /\ ~MorePart
  /\ LET mirror  == Top.type = "alternative" /\ Top.textOn /\ Top.htmlOn
         newText == From(textBody, Top.textAtEntry)
         newHtml == From(htmlBody, Top.htmlAtEntry)
     IN  /\ textBody' = IF mirror /\ newText = <<>> THEN textBody \o newHtml
                                                    ELSE textBody
         /\ htmlBody' = IF mirror /\ newHtml = <<>> THEN htmlBody \o newText
                                                    ELSE htmlBody
  /\ stack' = Below
  /\ UNCHANGED <<tree, attachments>>

Next == Descend \/ ChooseAlternative \/ ShowInline \/ Attach \/ Return

Spec == Init /\ [][Next]_vars

-----------------------------------------------------------------------------
(* Properties.                                                             *)

Done == ~Running

Ids == DOMAIN tree
Leaves == {id \in Ids : ~tree[id].multipart}
Parent(id) == SubSeq(id, 1, Len(id) - 1)

\* a stands before b in the message (neither contains the other).
Before(a, b) ==
  \E k \in DOMAIN a \cap DOMAIN b :
    SubSeq(a, 1, k - 1) = SubSeq(b, 1, k - 1) /\ a[k] < b[k]

\* Every list shows its parts in message order, none twice, although an
\* alternative is copied into a list after its other parts (walk.rs:225-248).
DocumentOrder ==
  \A list \in {textBody, htmlBody, attachments} :
    \A i, j \in DOMAIN list : i < j => Before(list[i], list[j])

Listed == ToSet(textBody) \cup ToSet(htmlBody) \cup ToSet(attachments)

\* The ids of the multiparts that enclose a part.
Enclosing(id) == {a \in Ids : Len(a) < Len(id) /\ IsPrefix(a, id)}

InsideAlternative(id) ==
  \E a \in Enclosing(id) \cup {id} : tree[a].multipart /\ tree[a].type = "alternative"

\* What IsInline says of a part of a multipart, wherever the walk is.
ShownInline(id) ==
  LET container == tree[Parent(id)]
  IN  IsInline(tree[id], id = container.children[1], container.type)

\* Text q switches the list of the other kind off for the part: it is shown
\* before the part, in a container that also holds the part and that is inside
\* of an alternative without being one.
SwitchesOff(q, id) ==
  /\ tree[q].type \in {"plain", "html"}
  /\ Before(q, id)
  /\ Parent(q) \in Enclosing(id)
  /\ tree[Parent(q)].type # "alternative"
  /\ InsideAlternative(Parent(q))
  /\ ShownInline(q)

Superseded(id) ==
  \E q \in Leaves :
    SwitchesOff(q, id) /\ {tree[q].type, tree[id].type} = {"plain", "html"}

\* No leaf is silently dropped: every one is in some list, except a text
\* part superseded by text of the other kind within one branch of an
\* alternative (walk.rs:197-222).
NothingDropped ==
  Done => \A id \in Leaves : id \in Listed \/ Superseded(id)

\* A message that shows something as HTML shows something as text and vice
\* versa: an alternative with one kind only is mirrored (walk.rs:225-248).
BothOrNeither == Done => (textBody = <<>> <=> htmlBody = <<>>)

\* A list that text switches off is off for what follows in the same container,
\* however deep, and for nothing else (as_child, walk.rs:65-76): media outside
\* of it is shown in both lists and not attached, media in it is attached.
SwitchingScoped ==
  Done => \A id \in {id \in Leaves : Parent(id) \in Ids} :
    tree[id].type = "media" /\ ShownInline(id) /\ tree[Parent(id)].type # "alternative"
      => IF \E q \in Leaves : SwitchesOff(q, id)
         THEN id \in ToSet(attachments)
         ELSE id \in (ToSet(textBody) \cap ToSet(htmlBody)) \ ToSet(attachments)

=============================================================================
