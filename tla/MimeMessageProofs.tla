--------------------------- MODULE MimeMessageProofs ---------------------------
(***************************************************************************)
(* Theorems about MimeMessage and the walk of BodyStructure that is in it, *)
(* for every message, every body and every header value.                   *)
(*                                                                         *)
(* Of the walk: however it is interleaved with its calls, the lists are in *)
(* document order, nothing is dropped, a list that is switched off is off  *)
(* for the rest of its container only, and both body lists are empty or    *)
(* neither is.  The walk is a stack of calls.  The invariants say where in *)
(* the tree every call stands, that what is listed stands before all that  *)
(* is still to come, and that a list of a call is off just when one of the *)
(* parts the open calls have passed switches it off.                       *)
(*                                                                         *)
(* Of the client: a limit only cuts, the preview is a beginning, and the   *)
(* forms of a header value agree.  The invariant says that the preview and *)
(* the answer are of the message that was parsed; the rest are lemmas about*)
(* the decoders and the readers.                                           *)
(***************************************************************************)
EXTENDS MimeMessage, DataFacts, FiniteSetTheorems


-----------------------------------------------------------------------------
(* What is true of the tree of every message.                              *)

Root == IF <<>> \in Ids THEN <<>> ELSE <<1>>

Children(id) == tree[id].children

TreeInv ==
  /\ Ids \subseteq Seq(Nat)
  /\ Root \in Ids
  /\ IF Root = <<>> THEN tree[Root].multipart ELSE Ids = {Root} /\ ~tree[Root].multipart
  /\ \A id \in Ids :
       /\ tree[id].multipart \in BOOLEAN
       /\ tree[id].attached \in BOOLEAN
       /\ tree[id].named \in BOOLEAN
       /\ Children(id) \in Seq(Ids)
       /\ \A c \in DOMAIN Children(id) :
            /\ tree[id].multipart
            /\ Len(Children(id)[c]) = Len(id) + 1
            /\ Parent(Children(id)[c]) = id
       /\ \A c, d \in DOMAIN Children(id) :
            c < d => Children(id)[c][Len(id) + 1] < Children(id)[d][Len(id) + 1]
  /\ \A id \in Ids \ {Root} :
       /\ id # <<>> /\ Parent(id) \in Ids
       /\ \E c \in DOMAIN Children(Parent(id)) : Children(Parent(id))[c] = id

-----------------------------------------------------------------------------
(* Where the calls stand.                                                  *)

\* The types of the multiparts and of the container of the root.
Types == {tree[id].type : id \in Ids} \cup {"mixed"}

Frame ==
  [parts : Seq(Ids), next : Nat \ {0}, type : Types, inAlternative : BOOLEAN,
   textOn : BOOLEAN, htmlOn : BOOLEAN, textAtEntry : Nat, htmlAtEntry : Nat]

Calls == DOMAIN stack

\* The part a call has passed last: the multipart the next call is in.
Passing(i) == stack[i].parts[stack[i].next - 1]

\* Call i walks the parts of the multipart that the call below it passes.
InPlace(i) ==
  /\ stack[i - 1].next > 1
  /\ tree[Passing(i - 1)].multipart
  /\ stack[i].parts = Children(Passing(i - 1))
  /\ stack[i].type = tree[Passing(i - 1)].type
  /\ Len(Passing(i - 1)) = i - 2
  /\ stack[i].inAlternative <=> InsideAlternative(Passing(i - 1))

CallsInv ==
  /\ stack # <<>> => /\ stack[1].parts = <<Root>>
                     /\ stack[1].type = "mixed"
                     /\ ~stack[1].inAlternative
  /\ \A i \in Calls \ {1} : InPlace(i)
  /\ \A i, j \in Calls : i < j =>
       \A k \in DOMAIN stack[j].parts : IsPrefix(Passing(i), stack[j].parts[k])

-----------------------------------------------------------------------------
(* The order of the lists.                                                 *)

Sorted(list) == \A i, j \in DOMAIN list : i < j => Before(list[i], list[j])

\* It stands before all that is still to come.
BeforeRest(x) ==
  \A i \in Calls : \A k \in stack[i].next .. Len(stack[i].parts) :
    Before(x, stack[i].parts[k])

AllBefore(list) == \A x \in DOMAIN list : BeforeRest(list[x])

\* What was there at the entry of a call stands before its parts, the rest
\* belongs to the parts it has passed.
SplitAt(list, atEntry, i) ==
  /\ atEntry <= Len(list)
  /\ \A x \in 1 .. atEntry : \A k \in DOMAIN stack[i].parts :
       Before(list[x], stack[i].parts[k])
  /\ \A x \in atEntry + 1 .. Len(list) : \E k \in 1 .. stack[i].next - 1 :
       IsPrefix(stack[i].parts[k], list[x])

OrderInv ==
  /\ Sorted(textBody) /\ AllBefore(textBody)
  /\ Sorted(htmlBody) /\ AllBefore(htmlBody)
  /\ Sorted(attachments) /\ AllBefore(attachments)
  /\ \A i \in Calls : stack[i].textOn => SplitAt(textBody, stack[i].textAtEntry, i)
  /\ \A i \in Calls : stack[i].htmlOn => SplitAt(htmlBody, stack[i].htmlAtEntry, i)

-----------------------------------------------------------------------------
(* The switching of the lists.                                             *)

\* The part k of call i is text of the kind that switches the other list off.
Switches(i, k, kind) ==
  LET q == stack[i].parts[k]
  IN  /\ ~tree[q].multipart
      /\ tree[q].type = kind
      /\ stack[i].inAlternative
      /\ stack[i].type # "alternative"
      /\ IsInline(tree[q], k = 1, stack[i].type)

OffBy(i, kind) ==
  \E j \in 1 .. i : \E k \in 1 .. stack[j].next - 1 : Switches(j, k, kind)

SwitchInv ==
  \A i \in Calls : /\ stack[i].textOn <=> ~OffBy(i, "html")
                   /\ stack[i].htmlOn <=> ~OffBy(i, "plain")

SwitchedOff(id, kind) == \E q \in Leaves : SwitchesOff(q, id) /\ tree[q].type = kind

ToCome(id) ==
  \E i \in Calls : \E k \in stack[i].next .. Len(stack[i].parts) :
    IsPrefix(stack[i].parts[k], id)

\* Media the walk shows: in a multipart that is not an alternative.
Media(id) ==
  /\ Parent(id) \in Ids
  /\ tree[id].type = "media"
  /\ ShownInline(id)
  /\ tree[Parent(id)].type # "alternative"

SomeOff(id) == \E q \in Leaves : SwitchesOff(q, id)

Settled(id) ==
  /\ id \in Listed \/ Superseded(id)
  /\ Media(id) => IF SomeOff(id) THEN id \in ToSet(attachments)
                  ELSE id \in ToSet(textBody) \cap ToSet(htmlBody)

VisitInv ==
  /\ \A id \in Leaves : ToCome(id) \/ Settled(id)
  /\ \A id \in ToSet(attachments) : Media(id) => SomeOff(id)

-----------------------------------------------------------------------------
(* Alternatives.                                                           *)

Outermost(a) == stack[a].type = "alternative" /\ \A i \in 1 .. a - 1 : ~stack[i].inAlternative

AlternativeInv ==
  /\ \A i \in Calls : stack[i].inAlternative <=> \E j \in 1 .. i : stack[j].type = "alternative"
  /\ \A a \in Calls : Outermost(a) => (stack[a].textAtEntry = 0 <=> stack[a].htmlAtEntry = 0)
  /\ (\A i \in Calls : ~stack[i].inAlternative) => (textBody = <<>> <=> htmlBody = <<>>)

-----------------------------------------------------------------------------
(* Ids are sequences of numbers.  What the walk needs of the two orders on *)
(* them, element by element.                                               *)

LEMMA PrefixIs ==
  ASSUME NEW S, NEW a \in Seq(S), NEW b \in Seq(S)
  PROVE  IsPrefix(a, b) <=> Len(a) <= Len(b) /\ \A j \in 1 .. Len(a) : a[j] = b[j]
<1>. SUFFICES ASSUME Len(a) <= Len(b)
     PROVE  SubSeq(a, 1, Len(a)) = SubSeq(b, 1, Len(a)) <=> \A j \in 1 .. Len(a) : a[j] = b[j]
  BY DEF IsPrefix
<1>1. SubSeq(a, 1, Len(a)) = a
  BY SubSeqFull
<1>. DEFINE p == SubSeq(b, 1, Len(a))
<1>2. Len(a) \in Nat /\ Len(b) \in Nat
  OBVIOUS
<1>3. \A j \in 1 .. Len(a) : b[j] \in S
  BY <1>2
<1>4. /\ p \in Seq(S)
      /\ Len(p) = IF 1 <= Len(a) THEN Len(a) - 1 + 1 ELSE 0
      /\ \A j \in 1 .. Len(a) - 1 + 1 : p[j] = b[1 + j - 1]
  BY <1>2, <1>3, SubSeqProperties
<1>. HIDE DEF p
<1>5. Len(p) = Len(a) /\ \A j \in 1 .. Len(a) : p[j] = b[j]
  BY <1>2, <1>4
<1>6. ASSUME \A j \in 1 .. Len(a) : a[j] = b[j]  PROVE a = p
  BY <1>4, <1>5, <1>6, SeqEqual
<1>. QED
  BY <1>1, <1>5, <1>6 DEF p

\* The first elements of two sequences are the same.
LEMMA SameBeginning ==
  ASSUME NEW S, NEW a \in Seq(S), NEW b \in Seq(S), NEW n \in Nat, n <= Len(a), n <= Len(b)
  PROVE  SubSeq(a, 1, n) = SubSeq(b, 1, n) <=> \A j \in 1 .. n : a[j] = b[j]
<1>. DEFINE p == SubSeq(a, 1, n)
            q == SubSeq(b, 1, n)
<1>1. \A j \in 1 .. n : a[j] \in S /\ b[j] \in S
  OBVIOUS
<1>2. /\ p \in Seq(S) /\ q \in Seq(S)
      /\ Len(p) = IF 1 <= n THEN n - 1 + 1 ELSE 0
      /\ Len(q) = IF 1 <= n THEN n - 1 + 1 ELSE 0
      /\ \A j \in 1 .. n - 1 + 1 : p[j] = a[1 + j - 1] /\ q[j] = b[1 + j - 1]
  BY <1>1, SubSeqProperties
<1>. HIDE DEF p, q
<1>3. Len(p) = n /\ Len(q) = n /\ \A j \in 1 .. n : p[j] = a[j] /\ q[j] = b[j]
  BY <1>2
<1>4. ASSUME \A j \in 1 .. n : a[j] = b[j]  PROVE p = q
  BY <1>2, <1>3, <1>4, SeqEqual
<1>. QED
  BY <1>3, <1>4 DEF p, q

LEMMA BeforeIs ==
  ASSUME NEW a \in Seq(Nat), NEW b \in Seq(Nat)
  PROVE  Before(a, b) <=>
           \E k \in 1 .. Len(a) :
             k <= Len(b) /\ (\A j \in 1 .. k - 1 : a[j] = b[j]) /\ a[k] < b[k]
<1>1. Len(a) \in Nat /\ Len(b) \in Nat
  OBVIOUS
<1>2. ASSUME NEW k \in 1 .. Len(a), k <= Len(b)
      PROVE  SubSeq(a, 1, k - 1) = SubSeq(b, 1, k - 1) <=> \A j \in 1 .. k - 1 : a[j] = b[j]
  <2>1. k - 1 \in Nat /\ k - 1 <= Len(a) /\ k - 1 <= Len(b)
    BY <1>1, <1>2
  <2>. QED
    BY <2>1, SameBeginning
<1>3. \A k : k \in DOMAIN a \cap DOMAIN b <=> k \in 1 .. Len(a) /\ k <= Len(b)
  BY <1>1
<1>. QED
  BY <1>2, <1>3 DEF Before

LEMMA ParentIs ==
  ASSUME NEW a \in Seq(Nat), a # <<>>
  PROVE  /\ Len(a) \in Nat \ {0}
         /\ Parent(a) \in Seq(Nat) /\ Len(Parent(a)) = Len(a) - 1
         /\ \A j \in 1 .. Len(a) - 1 : Parent(a)[j] = a[j]
<1>1. Len(a) \in Nat \ {0}
  BY EmptySeq
<1>2. \A j \in 1 .. Len(a) - 1 : a[j] \in Nat
  BY <1>1
<1>3. /\ Parent(a) \in Seq(Nat)
      /\ Len(Parent(a)) = IF 1 <= Len(a) - 1 THEN Len(a) - 1 - 1 + 1 ELSE 0
      /\ \A j \in 1 .. Len(a) - 1 - 1 + 1 : Parent(a)[j] = a[1 + j - 1]
  BY <1>1, <1>2, SubSeqProperties DEF Parent
<1>4. ASSUME NEW j \in 1 .. Len(a) - 1  PROVE Parent(a)[j] = a[j]
  <2>1. j \in 1 .. Len(a) - 1 - 1 + 1 /\ 1 + j - 1 = j
    BY <1>1
  <2>. QED
    BY <1>3, <2>1
<1>5. Len(Parent(a)) = Len(a) - 1
  <2>1. Len(Parent(a)) = IF 1 <= Len(a) - 1 THEN Len(a) - 1 - 1 + 1 ELSE 0
    BY <1>3
  <2>. DEFINE n == Len(a)
              p == Len(Parent(a))
  <2>2. n \in Nat \ {0} /\ p = IF 1 <= n - 1 THEN n - 1 - 1 + 1 ELSE 0
    BY <1>1, <2>1
  <2>. HIDE DEF n, p
  <2>3. p = n - 1
    BY <2>2
  <2>. QED
    BY <2>3 DEF n, p
<1>. QED
  BY <1>1, <1>3, <1>4, <1>5

\* What stands before a part stands before all that is in it.
LEMMA BeforeInside ==
  ASSUME NEW a \in Seq(Nat), NEW b \in Seq(Nat), NEW c \in Seq(Nat),
         Before(a, b), IsPrefix(b, c)
  PROVE  Before(a, c)
<1>1. PICK k \in 1 .. Len(a) :
        k <= Len(b) /\ (\A j \in 1 .. k - 1 : a[j] = b[j]) /\ a[k] < b[k]
  BY BeforeIs
<1>2. Len(b) <= Len(c) /\ \A j \in 1 .. Len(b) : b[j] = c[j]
  <2>1. IsPrefix(b, c) <=> Len(b) <= Len(c) /\ \A j \in 1 .. Len(b) : b[j] = c[j]
    BY PrefixIs
  <2>. QED
    BY <2>1
<1>3. Len(a) \in Nat /\ Len(b) \in Nat /\ Len(c) \in Nat
  OBVIOUS
<1>4. k \in 1 .. Len(b) /\ k <= Len(c) /\ \A j \in 1 .. k - 1 : j \in 1 .. Len(b)
  BY <1>1, <1>2, <1>3
<1>5. (\A j \in 1 .. k - 1 : a[j] = c[j]) /\ a[k] < c[k]
  BY <1>1, <1>2, <1>4
<1>. QED
  BY <1>4, <1>5, BeforeIs

LEMMA InsideBefore ==
  ASSUME NEW a \in Seq(Nat), NEW b \in Seq(Nat), NEW c \in Seq(Nat),
         Before(a, b), IsPrefix(a, c)
  PROVE  Before(c, b)
<1>1. PICK k \in 1 .. Len(a) :
        k <= Len(b) /\ (\A j \in 1 .. k - 1 : a[j] = b[j]) /\ a[k] < b[k]
  BY BeforeIs
<1>2. Len(a) <= Len(c) /\ \A j \in 1 .. Len(a) : a[j] = c[j]
  <2>1. IsPrefix(a, c) <=> Len(a) <= Len(c) /\ \A j \in 1 .. Len(a) : a[j] = c[j]
    BY PrefixIs
  <2>. QED
    BY <2>1
<1>3. Len(a) \in Nat /\ Len(b) \in Nat /\ Len(c) \in Nat
  OBVIOUS
<1>4. k \in 1 .. Len(c) /\ \A j \in 1 .. k - 1 : j \in 1 .. Len(a)
  BY <1>1, <1>2, <1>3
<1>5. (\A j \in 1 .. k - 1 : c[j] = b[j]) /\ c[k] < b[k]
  BY <1>1, <1>2, <1>4
<1>. QED
  BY <1>1, <1>4, <1>5, BeforeIs

LEMMA PrefixTransitive ==
  ASSUME NEW a \in Seq(Nat), NEW b \in Seq(Nat), NEW c \in Seq(Nat),
         IsPrefix(a, b), IsPrefix(b, c)
  PROVE  IsPrefix(a, c)
<1>1. Len(a) <= Len(b) /\ \A j \in 1 .. Len(a) : a[j] = b[j]
  BY PrefixIs
<1>2. Len(b) <= Len(c) /\ \A j \in 1 .. Len(b) : b[j] = c[j]
  BY PrefixIs
<1>3. Len(a) \in Nat /\ Len(b) \in Nat /\ Len(c) \in Nat
  OBVIOUS
<1>4. Len(a) <= Len(c) /\ \A j \in 1 .. Len(a) : j \in 1 .. Len(b)
  BY <1>1, <1>2, <1>3
<1>5. \A j \in 1 .. Len(a) : a[j] = c[j]
  BY <1>1, <1>2, <1>4
<1>. QED
  BY <1>4, <1>5, PrefixIs

LEMMA PrefixReflexive ==
  ASSUME NEW a \in Seq(Nat)
  PROVE  IsPrefix(a, a)
<1>1. Len(a) \in Nat
  OBVIOUS
<1>. QED
  BY <1>1, PrefixIs

\* A multipart encloses its parts.
LEMMA ParentIsPrefix ==
  ASSUME NEW a \in Seq(Nat), a # <<>>
  PROVE  IsPrefix(Parent(a), a)
<1>1. /\ Len(a) \in Nat \ {0}
      /\ Parent(a) \in Seq(Nat) /\ Len(Parent(a)) = Len(a) - 1
      /\ \A j \in 1 .. Len(a) - 1 : Parent(a)[j] = a[j]
  BY ParentIs
<1>2. Len(Parent(a)) <= Len(a) /\ \A j \in 1 .. Len(Parent(a)) : Parent(a)[j] = a[j]
  BY <1>1
<1>. QED
  BY <1>1, <1>2, PrefixIs

\* Of two parts of a multipart the one with the smaller number comes first, and
\* what comes before something in the multipart has a smaller number.
LEMMA SiblingsBefore ==
  ASSUME NEW a \in Seq(Nat), NEW b \in Seq(Nat), a # <<>>, Len(a) <= Len(b),
         \A j \in 1 .. Len(a) - 1 : a[j] = b[j]
  PROVE  Before(a, b) <=> a[Len(a)] < b[Len(a)]
<1>. DEFINE n == Len(a)
<1>1. n \in Nat \ {0} /\ Len(b) \in Nat /\ n <= Len(b)
  BY EmptySeq
<1>. HIDE DEF n
<1>2. ASSUME NEW k \in 1 .. n, a[k] < b[k]  PROVE k = n
  <2>1. k # n => k \in 1 .. n - 1
    BY <1>1
  <2>2. k # n => a[k] = b[k]
    BY <2>1 DEF n
  <2>3. k \in 1 .. Len(b)
    BY <1>1
  <2>4. a[k] \in Nat /\ b[k] \in Nat
    BY <2>3 DEF n
  <2>. QED
    BY <1>2, <2>2, <2>4
<1>3. n \in 1 .. n /\ \A j \in 1 .. n - 1 : a[j] = b[j]
  BY <1>1 DEF n
<1>4. Before(a, b) <=>
        \E k \in 1 .. n : k <= Len(b) /\ (\A j \in 1 .. k - 1 : a[j] = b[j]) /\ a[k] < b[k]
  BY BeforeIs DEF n
<1>. QED
  BY <1>1, <1>2, <1>3, <1>4 DEF n

-----------------------------------------------------------------------------
(* The tree of a message.                                                  *)

\* The place of part k in the multipart it is in.
Place(message, k) ==
  SelectInSeq(message[Container(message, k)].children, LAMBDA c : c = k)

LEMMA MessageIs ==
  ASSUME NEW message \in Messages
  PROVE  /\ message \in Seq(Part) /\ Len(message) \in Nat \ {0}
         /\ DOMAIN message = 1 .. Len(message)
         /\ \A p \in DOMAIN message : message[p].children \in Seq(Nat)
<1>1. message \in Seq(Part) /\ message # <<>>
  BY MessagesAssumption
<1>2. Len(message) \in Nat \ {0} /\ DOMAIN message = 1 .. Len(message)
  BY <1>1, EmptySeq, LenProperties
<1>3. \A part \in Part : part.children \in Seq(Nat)
  BY DEF Part
<1>. HIDE DEF Part
<1>4. \A p \in DOMAIN message : message[p] \in Part
  BY <1>1, <1>2, ElementOfSeq
<1>. QED
  BY <1>1, <1>2, <1>3, <1>4

LEMMA ContainerIs ==
  ASSUME NEW message \in Messages, NEW k \in 2 .. Len(message)
  PROVE  /\ Container(message, k) \in 1 .. k - 1
         /\ Place(message, k) \in DOMAIN message[Container(message, k)].children
         /\ Place(message, k) \in Nat \ {0}
         /\ \A q \in DOMAIN message : \A m \in DOMAIN message[q].children :
              message[q].children[m] = k
                <=> q = Container(message, k) /\ m = Place(message, k)
<1>1. /\ message \in Seq(Part) /\ Len(message) \in Nat \ {0}
      /\ DOMAIN message = 1 .. Len(message)
      /\ \A p \in DOMAIN message : message[p].children \in Seq(Nat)
  BY MessageIs
<1>2. PICK p \in DOMAIN message : \E n \in DOMAIN message[p].children :
        \A q \in DOMAIN message : \A m \in DOMAIN message[q].children :
          message[q].children[m] = k <=> q = p /\ m = n
  BY MessagesAssumption
<1>3. PICK n \in DOMAIN message[p].children :
        \A q \in DOMAIN message : \A m \in DOMAIN message[q].children :
          message[q].children[m] = k <=> q = p /\ m = n
  BY <1>2
<1>4. \A q \in DOMAIN message : k \in ToSet(message[q].children) <=> q = p
  BY <1>3 DEF ToSet
<1>5. Container(message, k) = p
  BY <1>4 DEF Container
<1>6. DOMAIN message[p].children = 1 .. Len(message[p].children) /\ n \in Nat \ {0}
  BY <1>1
<1>7. Place(message, k) = n
  <2>. DEFINE I == {i \in 1 .. Len(message[p].children) : message[p].children[i] = k}
  <2>1. I = {n}
    BY <1>3, <1>6
  <2>. HIDE DEF I
  <2>2. Min(I) = n
    BY <1>6, <2>1, MinUnique
  <2>3. Place(message, k) = IF I # {} THEN Min(I) ELSE 0
    BY <1>5, Zenon DEF Place, SelectInSeq, I
  <2>. QED
    BY <2>1, <2>2, <2>3
<1>8. message[p].children[n] > p
  BY MessagesAssumption
<1>9. message[p].children[n] = k
  BY <1>3
<1>10. p \in 1 .. k - 1
  BY <1>1, <1>8, <1>9
<1>. QED
  BY <1>3, <1>5, <1>6, <1>7, <1>10

\* The recursion of build_part ends: a part has its id from its multipart.
LEMMA PartIdsSteps ==
  ASSUME NEW message \in Messages
  PROVE  LET ids == PartIds(message)
         IN  /\ ids = [k \in DOMAIN message |-> ids[k]]
             /\ ids[1] = RootId(message)
             /\ \A k \in 2 .. Len(message) :
                  ids[k] = Append(ids[Container(message, k)], Place(message, k))
<1>. DEFINE N == Len(message)
            E(f, k) == IF k = 1 THEN RootId(message)
                       ELSE Append(f[Container(message, k)], Place(message, k))
            Bad == {n \in 1 .. N : ~ \E f : \A k \in 1 .. n : f[k] = E(f, k)}
<1>1. N \in Nat \ {0} /\ DOMAIN message = 1 .. N
  BY MessageIs
<1>2. \A k \in 2 .. N : Container(message, k) \in 1 .. k - 1
  BY ContainerIs
<1>. HIDE DEF N
<1>3. Bad = {}
  <2>. SUFFICES ASSUME Bad # {}  PROVE FALSE
    OBVIOUS
  <2>. DEFINE n == Min(Bad)
  <2>1. n \in Bad /\ \A y \in Bad : n <= y
    <3>1. Bad \in SUBSET Nat
      BY <1>1
    <3>. HIDE DEF Bad
    <3>. QED
      BY <3>1, MinOfNat
  <2>. HIDE DEF n
  <2>2. n \in 1 .. N /\ ~ \E f : \A k \in 1 .. n : f[k] = E(f, k)
    BY <2>1
  <2>3. n # 1
    <3>. SUFFICES ASSUME n = 1  PROVE FALSE
      OBVIOUS
    <3>. DEFINE f == [k \in {1} |-> RootId(message)]
    <3>1. \A k \in 1 .. n : k = 1
      OBVIOUS
    <3>2. f[1] = RootId(message)
      OBVIOUS
    <3>. HIDE DEF f
    <3>3. \A k \in 1 .. n : f[k] = E(f, k)
      BY <3>1, <3>2
    <3>. QED
      BY <2>2, <3>3
  <2>4. n - 1 \in 1 .. N /\ ~(n <= n - 1)
    BY <1>1, <2>2, <2>3
  <2>5. n - 1 \notin Bad
    BY <2>1, <2>4
  <2>6. PICK f : \A k \in 1 .. n - 1 : f[k] = E(f, k)
    BY <2>4, <2>5
  <2>. DEFINE g == [k \in 1 .. n |-> IF k = n THEN E(f, n) ELSE f[k]]
  <2>7. ASSUME NEW k \in 1 .. n  PROVE g[k] = E(g, k)
    <3>1. CASE k = 1
      <4>1. 1 \in 1 .. n - 1 /\ 1 \in 1 .. n /\ 1 # n
        BY <1>1, <2>2, <2>3
      <4>2. g[1] = f[1] /\ f[1] = RootId(message)
        BY <2>6, <4>1
      <4>. QED
        BY <3>1, <4>2
    <3>2. CASE k # 1
      <4>1. k \in 2 .. N
        BY <1>1, <2>2, <3>2
      <4>. DEFINE c == Container(message, k)
      <4>2. c \in 1 .. k - 1
        BY <1>2, <4>1
      <4>. HIDE DEF c
      <4>3. c \in 1 .. n /\ c # n
        BY <2>2, <4>1, <4>2
      <4>4. g[c] = f[c]
        BY <4>3
      <4>5. g[k] = E(f, k)
        <5>1. CASE k = n
          BY <5>1
        <5>2. CASE k # n
          <6>1. k \in 1 .. n - 1
            BY <1>1, <2>2, <5>2
          <6>. QED
            BY <2>6, <5>2, <6>1
        <5>. QED
          BY <5>1, <5>2
      <4>. HIDE DEF g
      <4>. QED
        BY <3>2, <4>4, <4>5 DEF c
    <3>. QED
      BY <3>1, <3>2
  <2>. HIDE DEF g
  <2>. QED
    BY <2>2, <2>7
<1>4. PICK f : \A k \in 1 .. N : f[k] = E(f, k)
  <2>1. N \in 1 .. N
    BY <1>1
  <2>. QED
    BY <1>3, <2>1
<1>. DEFINE v == [k \in DOMAIN message |-> f[k]]
            Step(h) == [k \in DOMAIN message |->
                          IF k = 1 THEN RootId(message)
                          ELSE LET p == Container(message, k)
                               IN  Append(h[p], SelectInSeq(message[p].children, LAMBDA c : c = k))]
            g == CHOOSE h : h = Step(h)
<1>5. v = Step(v)
  <2>1. ASSUME NEW k \in DOMAIN message  PROVE v[k] = Step(v)[k]
    <3>1. CASE k = 1
      BY <1>1, <1>4, <3>1
    <3>2. CASE k # 1
      <4>1. k \in 2 .. N /\ k \in 1 .. N
        BY <1>1, <3>2
      <4>2. Container(message, k) \in 1 .. N
        BY <1>1, <1>2, <4>1
      <4>3. v[k] = f[k] /\ v[Container(message, k)] = f[Container(message, k)]
        BY <1>1, <4>1, <4>2
      <4>4. f[k] = Append(f[Container(message, k)], Place(message, k))
        BY <1>4, <3>2, <4>1
      <4>. HIDE DEF v
      <4>5. Step(v)[k] = Append(v[Container(message, k)], Place(message, k))
        BY <3>2, Zenon DEF Place
      <4>. QED
        BY <4>3, <4>4, <4>5
    <3>. QED
      BY <3>1, <3>2
  <2>. QED
    BY <2>1
<1>6. g = Step(g)
  <2>. HIDE DEF v, Step
  <2>. QED
    BY <1>5, Zenon
<1>7. PartIds(message) = g
  BY Zenon DEF PartIds
<1>8. \A k \in DOMAIN message :
        g[k] = IF k = 1 THEN RootId(message)
               ELSE Append(g[Container(message, k)], Place(message, k))
  <2>. HIDE DEF g
  <2>. QED
    BY <1>6, Zenon DEF Place
<1>9. g = [k \in DOMAIN message |-> g[k]]
  <2>. HIDE DEF g
  <2>. QED
    BY <1>6
<1>. HIDE DEF g, v, Step
<1>10. 1 \in DOMAIN message /\ \A k \in 2 .. N : k \in DOMAIN message /\ k # 1
  BY <1>1
<1>11. g[1] = RootId(message)
  BY <1>8, <1>10
<1>12. \A k \in 2 .. N : g[k] = Append(g[Container(message, k)], Place(message, k))
  BY <1>8, <1>10
<1>. QED
  BY <1>7, <1>9, <1>11, <1>12 DEF N

\* No two parts have the same id.
LEMMA PartIdsAre ==
  ASSUME NEW message \in Messages
  PROVE  LET ids == PartIds(message)
         IN  /\ DOMAIN ids = 1 .. Len(message)
             /\ \A k \in 1 .. Len(message) : ids[k] \in Seq(Nat)
             /\ \A k \in 2 .. Len(message) :
                  /\ Len(ids[k]) = Len(ids[Container(message, k)]) + 1
                  /\ Parent(ids[k]) = ids[Container(message, k)]
                  /\ ids[k][Len(ids[k])] = Place(message, k)
             /\ \A k, l \in 1 .. Len(message) : ids[k] = ids[l] => k = l
<1>. DEFINE N == Len(message)
            ids == PartIds(message)
            C(k) == Container(message, k)
            P(k) == Place(message, k)
<1>1. N \in Nat \ {0} /\ DOMAIN message = 1 .. N
  BY MessageIs
<1>2. ASSUME NEW k \in 2 .. N
      PROVE  /\ C(k) \in 1 .. k - 1 /\ C(k) \in 1 .. N /\ C(k) # k /\ C(k) \in DOMAIN message
             /\ P(k) \in Nat \ {0} /\ P(k) \in DOMAIN message[C(k)].children
             /\ message[C(k)].children[P(k)] = k
  <2>1. C(k) \in 1 .. k - 1 /\ C(k) \in 1 .. N
    BY <1>1, ContainerIs
  <2>2. P(k) \in Nat \ {0} /\ P(k) \in DOMAIN message[C(k)].children
    BY ContainerIs
  <2>3. message[C(k)].children[P(k)] = k
    BY <1>1, <2>1, <2>2, ContainerIs
  <2>4. C(k) # k
    BY <1>1, <2>1
  <2>. QED
    BY <1>1, <2>1, <2>2, <2>3, <2>4
<1>3. /\ ids = [k \in DOMAIN message |-> ids[k]]
      /\ ids[1] = RootId(message)
      /\ \A k \in 2 .. N : ids[k] = Append(ids[C(k)], P(k))
  BY PartIdsSteps
<1>4. RootId(message) \in Seq(Nat)
  BY DEF RootId
<1>. HIDE DEF N, ids, C, P
<1>5. \A k \in 1 .. N : ids[k] \in Seq(Nat)
  <2>. DEFINE Bad == {k \in 1 .. N : ids[k] \notin Seq(Nat)}
  <2>. SUFFICES ASSUME Bad # {}  PROVE FALSE
    OBVIOUS
  <2>1. Bad \in SUBSET Nat
    BY <1>1
  <2>. DEFINE k == Min(Bad)
  <2>. HIDE DEF Bad
  <2>2. k \in Bad /\ \A y \in Bad : k <= y
    BY <2>1, MinOfNat
  <2>. HIDE DEF k
  <2>3. k \in 1 .. N /\ ids[k] \notin Seq(Nat)
    BY <2>2 DEF Bad
  <2>4. k # 1
    BY <1>3, <1>4, <2>3
  <2>5. k \in 2 .. N
    BY <1>1, <2>3, <2>4
  <2>6. C(k) \in 1 .. N /\ ~(k <= C(k))
    BY <1>1, <1>2, <2>5
  <2>7. ids[C(k)] \in Seq(Nat)
    BY <2>2, <2>6 DEF Bad
  <2>8. Append(ids[C(k)], P(k)) \in Seq(Nat)
    BY <1>2, <2>5, <2>7
  <2>. QED
    BY <1>3, <2>3, <2>5, <2>8
<1>6. ASSUME NEW k \in 2 .. N
      PROVE  /\ Len(ids[k]) = Len(ids[C(k)]) + 1
             /\ Parent(ids[k]) = ids[C(k)]
             /\ ids[k][Len(ids[k])] = P(k)
             /\ ids[k] # <<>>
  <2>. DEFINE a == ids[C(k)]
  <2>1. a \in Seq(Nat) /\ P(k) \in Nat /\ ids[k] = Append(a, P(k))
    BY <1>2, <1>3, <1>5
  <2>. HIDE DEF a
  <2>2. /\ Append(a, P(k)) \in Seq(Nat) /\ Append(a, P(k)) # <<>>
        /\ Len(Append(a, P(k))) = Len(a) + 1
        /\ \A i \in 1 .. Len(a) : Append(a, P(k))[i] = a[i]
        /\ Append(a, P(k))[Len(a) + 1] = P(k)
    BY <2>1, AppendProperties
  <2>3. Parent(ids[k]) = a
    <3>. DEFINE b == ids[k]
    <3>1. b \in Seq(Nat) /\ b # <<>> /\ Len(b) = Len(a) + 1 /\ \A i \in 1 .. Len(a) : b[i] = a[i]
      BY <2>1, <2>2
    <3>. HIDE DEF b
    <3>2. /\ Parent(b) \in Seq(Nat) /\ Len(Parent(b)) = Len(b) - 1
          /\ \A j \in 1 .. Len(b) - 1 : Parent(b)[j] = b[j]
      BY <3>1, ParentIs
    <3>3. Len(a) \in Nat /\ Len(b) - 1 = Len(a)
      BY <2>1, <3>1
    <3>4. Len(Parent(b)) = Len(a) /\ \A j \in 1 .. Len(a) : Parent(b)[j] = a[j]
      BY <3>1, <3>2, <3>3
    <3>5. Parent(b) = a
      BY <2>1, <3>2, <3>4, SeqEqual
    <3>. QED
      BY <3>5 DEF b
  <2>. QED
    BY <2>1, <2>2, <2>3 DEF a
<1>7. \A k, l \in 1 .. N : ids[k] = ids[l] => k = l
  <2>. DEFINE Bad == {k \in 1 .. N : \E l \in 1 .. N : ids[k] = ids[l] /\ k # l}
  <2>. SUFFICES ASSUME Bad # {}  PROVE FALSE
    OBVIOUS
  <2>1. Bad \in SUBSET Nat
    BY <1>1
  <2>. DEFINE k == Min(Bad)
  <2>. HIDE DEF Bad
  <2>2. k \in Bad /\ \A y \in Bad : k <= y
    BY <2>1, MinOfNat
  <2>. HIDE DEF k
  <2>3. PICK l \in 1 .. N : ids[k] = ids[l] /\ k # l
    BY <2>2 DEF Bad
  <2>4. k \in 1 .. N
    BY <2>2 DEF Bad
  <2>5. l \in Bad
    BY <2>3, <2>4 DEF Bad
  <2>6. k <= l /\ k \in Nat /\ l \in Nat /\ 1 <= k
    BY <1>1, <2>2, <2>3, <2>4, <2>5
  <2>7. l \in 2 .. N
    BY <1>1, <2>3, <2>6
  <2>8. CASE k = 1
    <3>1. CASE message[1].multipart
      <4>1. ids[1] = <<>>
        BY <1>3, <3>1 DEF RootId
      <4>. QED
        BY <1>6, <2>3, <2>7, <2>8, <4>1
    <3>2. CASE ~message[1].multipart
      \* then it is the only part
      <4>1. 2 \in 2 .. N
        BY <1>1, <2>7
      <4>2. C(2) \in 1 .. 2 - 1 /\ P(2) \in DOMAIN message[C(2)].children
        BY <1>2, <4>1
      <4>3. C(2) = 1 /\ 1 \in DOMAIN message
        BY <1>1, <4>2
      <4>4. message[1].multipart
        BY <4>2, <4>3, MessagesAssumption
      <4>. QED
        BY <3>2, <4>4
    <3>. QED
      BY <3>1, <3>2
  <2>9. CASE k # 1
    <3>1. k \in 2 .. N
      BY <1>1, <2>4, <2>9
    <3>2. ids[C(k)] = ids[C(l)] /\ P(k) = P(l)
      BY <1>6, <2>3, <2>7, <3>1
    <3>3. C(k) \in 1 .. N /\ C(l) \in 1 .. N /\ ~(k <= C(k))
      BY <1>1, <1>2, <2>7, <3>1
    <3>4. C(k) \notin Bad
      BY <2>2, <3>3
    <3>5. C(k) = C(l)
      BY <3>2, <3>3, <3>4 DEF Bad
    <3>6. message[C(k)].children[P(k)] = k /\ message[C(l)].children[P(l)] = l
      BY <1>2, <2>7, <3>1
    <3>. QED
      BY <2>3, <3>2, <3>5, <3>6
  <2>. QED
    BY <2>8, <2>9
<1>8. DOMAIN ids = 1 .. N
  BY <1>1, <1>3
<1>. QED
  BY <1>5, <1>6, <1>7, <1>8 DEF N, ids, C, P

\* The children of a part that exist, each at its place, in their order.
LEMMA ChildIdsAre ==
  ASSUME NEW message, NEW ids, NEW children \in Seq(Nat), NEW S,
         \A n \in DOMAIN children : children[n] \in DOMAIN message => ids[children[n]] \in S
  PROVE  LET r == ChildIds(message, ids, children)
             Here == {n \in DOMAIN children : children[n] \in DOMAIN message}
         IN  /\ r \in Seq(S)
             /\ \A c \in DOMAIN r : \E n \in Here : r[c] = ids[children[n]]
             /\ \A c, d \in DOMAIN r : c < d =>
                  \E m, n \in Here : m < n /\ r[c] = ids[children[m]] /\ r[d] = ids[children[n]]
             /\ \A n \in Here : \E c \in DOMAIN r : r[c] = ids[children[n]]
<1>. DEFINE L == Len(children)
            Here == {n \in DOMAIN children : children[n] \in DOMAIN message}
            Step(v, n) == IF children[n] \in DOMAIN message THEN Append(v, ids[children[n]]) ELSE v
            Fits(v, k) ==
              /\ v \in Seq(S)
              /\ \A c \in DOMAIN v : \E n \in Here : n <= k /\ v[c] = ids[children[n]]
              /\ \A c, d \in DOMAIN v : c < d =>
                   \E m, n \in Here : m < n /\ v[c] = ids[children[m]] /\ v[d] = ids[children[n]]
              /\ \A n \in Here : n <= k => \E c \in DOMAIN v : v[c] = ids[children[n]]
            Chain(f, k) == f[0] = <<>> /\ \A n \in 1 .. k : f[n] = Step(f[n - 1], n)
<1>1. L \in Nat /\ DOMAIN children = 1 .. L
  OBVIOUS
<1>2. \A n \in Here : n \in 1 .. L /\ ids[children[n]] \in S
  BY <1>1
<1>. HIDE DEF L
<1>3. Fits(<<>>, 0)
  <2>1. \A n \in Here : ~(n <= 0)
    BY <1>1, <1>2
  <2>. HIDE DEF Here
  <2>. QED
    BY <2>1
<1>4. ASSUME NEW v, NEW k \in 1 .. L, Fits(v, k - 1)
      PROVE  Fits(Step(v, k), k)
  <2>1. k \in Nat /\ \A n \in Here : n \in Nat /\ (n <= k <=> n <= k - 1 \/ n = k)
    BY <1>1, <1>2
  <2>2. CASE children[k] \notin DOMAIN message
    <3>1. k \notin Here /\ Step(v, k) = v
      BY <2>2
    <3>. HIDE DEF Here, Step
    <3>. QED
      BY <1>4, <2>1, <3>1
  <2>3. CASE children[k] \in DOMAIN message
    <3>. DEFINE x == ids[children[k]]
                w == Append(v, x)
    <3>1. k \in Here /\ Step(v, k) = w /\ x \in S
      BY <1>1, <1>2, <2>3
    <3>2. v \in Seq(S)
      BY <1>4
    <3>3. /\ w \in Seq(S) /\ Len(w) = Len(v) + 1 /\ Len(v) \in Nat
          /\ \A c \in 1 .. Len(v) : w[c] = v[c]
          /\ w[Len(v) + 1] = x
      BY <3>1, <3>2, AppendProperties
    <3>. HIDE DEF w, Here, Step
    <3>4. DOMAIN w = 1 .. Len(v) + 1 /\ DOMAIN v = 1 .. Len(v)
      BY <3>2, <3>3
    <3>5. \A c \in DOMAIN w : c \in DOMAIN v \/ c = Len(v) + 1
      BY <3>3, <3>4
    <3>6. \A c \in DOMAIN v : c \in DOMAIN w /\ w[c] = v[c]
      BY <3>3, <3>4
    <3>7. Len(v) + 1 \in DOMAIN w
      BY <3>3, <3>4
    <3>8. ASSUME NEW c \in DOMAIN w  PROVE \E n \in Here : n <= k /\ w[c] = ids[children[n]]
      <4>1. CASE c \in DOMAIN v
        <5>1. PICK n \in Here : n <= k - 1 /\ v[c] = ids[children[n]]
          BY <1>4, <4>1
        <5>. QED
          BY <2>1, <3>6, <4>1, <5>1
      <4>2. CASE c = Len(v) + 1
        BY <2>1, <3>1, <3>3, <4>2
      <4>. QED
        BY <3>5, <4>1, <4>2
    <3>9. ASSUME NEW c \in DOMAIN w, NEW d \in DOMAIN w, c < d
          PROVE  \E m, n \in Here : m < n /\ w[c] = ids[children[m]] /\ w[d] = ids[children[n]]
      <4>1. c \in DOMAIN v
        BY <3>3, <3>4, <3>9
      <4>2. CASE d \in DOMAIN v
        BY <1>4, <3>6, <3>9, <4>1, <4>2
      <4>3. CASE d = Len(v) + 1
        <5>1. PICK n \in Here : n <= k - 1 /\ v[c] = ids[children[n]]
          BY <1>4, <4>1
        <5>2. n < k
          BY <2>1, <5>1
        <5>. QED
          BY <3>1, <3>3, <3>6, <4>1, <4>3, <5>1, <5>2
      <4>. QED
        BY <3>5, <4>2, <4>3
    <3>10. ASSUME NEW n \in Here, n <= k  PROVE \E c \in DOMAIN w : w[c] = ids[children[n]]
      <4>1. CASE n = k
        BY <3>3, <3>7, <4>1
      <4>2. CASE n <= k - 1
        <5>1. PICK c \in DOMAIN v : v[c] = ids[children[n]]
          BY <1>4, <4>2
        <5>. QED
          BY <3>6, <5>1
      <4>. QED
        BY <2>1, <3>10, <4>1, <4>2
    <3>. QED
      BY <3>1, <3>3, <3>8, <3>9, <3>10
  <2>. QED
    BY <2>2, <2>3
<1>. HIDE DEF Step, Fits, Here
<1>5. \A k \in 0 .. L : \E f : Chain(f, k)
  <2>. DEFINE Bad == {k \in 0 .. L : ~ \E f : Chain(f, k)}
  <2>. SUFFICES ASSUME Bad # {}  PROVE FALSE
    OBVIOUS
  <2>. DEFINE k == Min(Bad)
  <2>1. k \in Bad /\ \A y \in Bad : k <= y
    <3>1. Bad \in SUBSET Nat
      BY <1>1
    <3>. HIDE DEF Bad
    <3>. QED
      BY <3>1, MinOfNat
  <2>. HIDE DEF k
  <2>2. k \in 0 .. L /\ ~ \E f : Chain(f, k)
    BY <2>1
  <2>3. k # 0
    <3>. SUFFICES ASSUME k = 0  PROVE FALSE
      OBVIOUS
    <3>. DEFINE f == [n \in {0} |-> <<>>]
    <3>1. f[0] = <<>> /\ \A n \in 1 .. k : FALSE
      OBVIOUS
    <3>. HIDE DEF f
    <3>. QED
      BY <2>2, <3>1
  <2>4. k \in Nat /\ k - 1 \in 0 .. L /\ ~(k <= k - 1) /\ k \in 1 .. L
    BY <1>1, <2>2, <2>3
  <2>5. PICK f : Chain(f, k - 1)
    BY <2>1, <2>4
  <2>. DEFINE g == [n \in 0 .. k |-> IF n = k THEN Step(f[k - 1], k) ELSE f[n]]
  <2>6. g[0] = <<>>
    <3>1. 0 \in 0 .. k /\ 0 # k
      BY <2>3, <2>4
    <3>. QED
      BY <2>5, <3>1
  <2>7. ASSUME NEW n \in 1 .. k  PROVE g[n] = Step(g[n - 1], n)
    <3>1. n \in 0 .. k /\ n - 1 \in 0 .. k /\ n - 1 # k
      BY <2>4
    <3>2. g[n - 1] = f[n - 1]
      BY <3>1
    <3>3. g[n] = Step(f[n - 1], n)
      <4>1. CASE n = k
        BY <3>1, <4>1
      <4>2. CASE n # k
        <5>1. n \in 1 .. k - 1
          BY <2>4, <4>2
        <5>2. g[n] = f[n]
          BY <3>1, <4>2
        <5>. QED
          BY <2>5, <5>1, <5>2
      <4>. QED
        BY <4>1, <4>2
    <3>. QED
      BY <3>2, <3>3
  <2>. HIDE DEF g
  <2>. QED
    BY <2>2, <2>6, <2>7
<1>6. PICK f : Chain(f, L)
  <2>1. L \in 0 .. L
    BY <1>1
  <2>. QED
    BY <1>5, <2>1
<1>. DEFINE v == [n \in 0 .. Len(children) |-> f[n]]
            All(h) == [n \in 0 .. Len(children) |->
                         IF n = 0 THEN <<>>
                         ELSE IF children[n] \in DOMAIN message
                              THEN Append(h[n - 1], ids[children[n]])
                              ELSE h[n - 1]]
            g == CHOOSE h : h = All(h)
<1>7. v = All(v)
  <2>1. ASSUME NEW n \in 0 .. Len(children)  PROVE v[n] = All(v)[n]
    <3>1. CASE n = 0
      BY <1>6, <3>1
    <3>2. CASE n # 0
      <4>1. n \in 1 .. L /\ n - 1 \in 0 .. Len(children)
        BY <1>1, <3>2 DEF L
      <4>2. v[n] = f[n] /\ v[n - 1] = f[n - 1]
        BY <4>1
      <4>3. f[n] = Step(f[n - 1], n)
        BY <1>6, <4>1
      <4>. HIDE DEF v
      <4>4. All(v)[n] = Step(v[n - 1], n)
        BY <3>2, Zenon DEF Step
      <4>. QED
        BY <4>2, <4>3, <4>4
    <3>. QED
      BY <3>1, <3>2
  <2>. QED
    BY <2>1
<1>8. g = All(g)
  <2>. HIDE DEF v, All
  <2>. QED
    BY <1>7, Zenon
<1>9. ChildIds(message, ids, children) = g[L]
  BY Zenon DEF ChildIds, L
<1>10. \A n \in 0 .. L :
         g[n] = IF n = 0 THEN <<>> ELSE Step(g[n - 1], n)
  <2>. HIDE DEF g
  <2>. QED
    BY <1>8, Zenon DEF Step, L
<1>. HIDE DEF g, v, All
<1>11. Fits(g[L], L)
  <2>. DEFINE Bad == {k \in 0 .. L : ~Fits(g[k], k)}
  <2>1. Bad = {}
    <3>. SUFFICES ASSUME Bad # {}  PROVE FALSE
      OBVIOUS
    <3>1. Bad \in SUBSET Nat
      BY <1>1
    <3>. DEFINE k == Min(Bad)
    <3>. HIDE DEF Bad
    <3>2. k \in Bad /\ \A y \in Bad : k <= y
      BY <3>1, MinOfNat
    <3>. HIDE DEF k
    <3>3. k \in 0 .. L /\ ~Fits(g[k], k)
      BY <3>2 DEF Bad
    <3>4. k # 0
      <4>. SUFFICES ASSUME k = 0  PROVE FALSE
        OBVIOUS
      <4>1. g[0] = <<>>
        BY <1>1, <1>10
      <4>. QED
        BY <1>3, <3>3, <4>1
    <3>5. k \in 1 .. L /\ k - 1 \in 0 .. L /\ ~(k <= k - 1)
      BY <1>1, <3>3, <3>4
    <3>6. Fits(g[k - 1], k - 1)
      BY <3>2, <3>5 DEF Bad
    <3>7. g[k] = Step(g[k - 1], k)
      BY <1>10, <3>3, <3>4
    <3>. QED
      BY <1>4, <3>3, <3>5, <3>6, <3>7
  <2>2. L \in 0 .. L
    BY <1>1
  <2>. QED
    BY <2>1, <2>2
<1>12. \A n \in Here : n <= L
  BY <1>1, <1>2
<1>. QED
  BY <1>9, <1>11, <1>12 DEF Fits, Here

\* The tree of a message is a tree.
LEMMA TreeIsSound ==
  ASSUME NEW message \in Messages, tree = TreeOf(message)
  PROVE  TreeInv /\ Root = RootId(message)
<1>. DEFINE N == Len(message)
            ids == PartIds(message)
            C(k) == Container(message, k)
            P(k) == Place(message, k)
            R(k) == ChildIds(message, ids, message[k].children)
<1>1. /\ message \in Seq(Part) /\ N \in Nat \ {0} /\ DOMAIN message = 1 .. N
      /\ \A p \in 1 .. N : message[p].children \in Seq(Nat)
  BY MessageIs
<1>2. /\ DOMAIN ids = 1 .. N
      /\ \A k \in 1 .. N : ids[k] \in Seq(Nat)
      /\ \A k \in 2 .. N : /\ Len(ids[k]) = Len(ids[C(k)]) + 1
                           /\ Parent(ids[k]) = ids[C(k)]
                           /\ ids[k][Len(ids[k])] = P(k)
      /\ \A k, l \in 1 .. N : ids[k] = ids[l] => k = l
  BY PartIdsAre
<1>3. ids[1] = RootId(message)
  BY PartIdsSteps
<1>4. Ids = {ids[k] : k \in 1 .. N}
  <2>1. ToSet(ids) = {ids[k] : k \in 1 .. N}
    BY <1>2 DEF ToSet
  <2>2. DOMAIN TreeOf(message) = ToSet(ids)
    BY DEF TreeOf
  <2>. QED
    BY <2>1, <2>2 DEF Ids
<1>5. ASSUME NEW k \in 1 .. N
      PROVE  /\ ids[k] \in Ids
             /\ tree[ids[k]].multipart = message[k].multipart
             /\ tree[ids[k]].type = message[k].type
             /\ tree[ids[k]].children = R(k)
             /\ tree[ids[k]].multipart \in BOOLEAN /\ tree[ids[k]].attached \in BOOLEAN
             /\ tree[ids[k]].named \in BOOLEAN
  <2>1. ids[k] \in ToSet(ids)
    BY <1>2 DEF ToSet
  <2>2. tree[ids[k]] = LET j == CHOOSE j \in DOMAIN ids : ids[j] = ids[k]
                       IN  [message[j] EXCEPT !.children = ChildIds(message, ids, @)]
    BY <2>1 DEF TreeOf
  <2>3. (CHOOSE j \in DOMAIN ids : ids[j] = ids[k]) = k
    BY <1>2
  <2>. DEFINE part == message[k]
  <2>4. part \in Part
    BY <1>1, ElementOfSeq
  <2>. HIDE DEF ids
  <2>5. tree[ids[k]] = [message[k] EXCEPT !.children = ChildIds(message, ids, @)]
    BY <2>2, <2>3, Zenon
  <2>. DEFINE r == ChildIds(message, ids, part.children)
  <2>6. tree[ids[k]] = [part EXCEPT !.children = r]
    BY <2>5, Zenon
  <2>. HIDE DEF part, r
  <2>7. LET p == [part EXCEPT !.children = r]
        IN  /\ p.multipart = part.multipart /\ p.type = part.type /\ p.children = r
            /\ p.multipart \in BOOLEAN /\ p.attached \in BOOLEAN
            /\ p.named \in BOOLEAN
    BY <2>4 DEF Part
  <2>8. ids[k] \in Ids
    BY <1>4
  <2>. QED
    BY <2>6, <2>7, <2>8 DEF part, r
<1>6. ASSUME NEW k \in 1 .. N
      PROVE  LET ch == message[k].children
                 Here == {n \in DOMAIN ch : ch[n] \in DOMAIN message}
             IN  /\ R(k) \in Seq(Ids)
                 /\ \A c \in DOMAIN R(k) : \E n \in Here : R(k)[c] = ids[ch[n]]
                 /\ \A c, d \in DOMAIN R(k) : c < d =>
                      \E m, n \in Here : m < n /\ R(k)[c] = ids[ch[m]] /\ R(k)[d] = ids[ch[n]]
                 /\ \A n \in Here : \E c \in DOMAIN R(k) : R(k)[c] = ids[ch[n]]
  <2>. DEFINE ch == message[k].children
  <2>1. ch \in Seq(Nat)
    BY <1>1
  <2>. HIDE DEF ch, ids
  <2>2. \A n \in DOMAIN ch : ch[n] \in DOMAIN message => ids[ch[n]] \in Ids
    BY <1>1, <1>4
  <2>3. LET r == ChildIds(message, ids, ch)
            Here == {n \in DOMAIN ch : ch[n] \in DOMAIN message}
        IN  /\ r \in Seq(Ids)
            /\ \A c \in DOMAIN r : \E n \in Here : r[c] = ids[ch[n]]
            /\ \A c, d \in DOMAIN r : c < d =>
                 \E m, n \in Here : m < n /\ r[c] = ids[ch[m]] /\ r[d] = ids[ch[n]]
            /\ \A n \in Here : \E c \in DOMAIN r : r[c] = ids[ch[n]]
    BY <2>1, <2>2, ChildIdsAre
  <2>. QED
    BY <2>3, Zenon DEF ch
<1>7. ASSUME NEW k \in 1 .. N, NEW n \in DOMAIN message[k].children,
             message[k].children[n] \in DOMAIN message
      PROVE  LET l == message[k].children[n]
             IN  /\ l \in 2 .. N /\ C(l) = k /\ P(l) = n
                 /\ message[k].multipart
  <2>. DEFINE l == message[k].children[n]
  <2>1. message[k].multipart /\ l > k
    BY <1>1, MessagesAssumption
  <2>2. l \in 1 .. N
    BY <1>1, <1>7
  <2>3. l \in 2 .. N
    BY <1>1, <2>1, <2>2
  <2>. HIDE DEF l
  <2>4. C(l) = k /\ P(l) = n
    <3>1. message[k].children[n] = l <=> k = C(l) /\ n = P(l)
      BY <1>1, <2>3, ContainerIs
    <3>. QED
      BY <3>1 DEF l
  <2>. QED
    BY <2>1, <2>3, <2>4 DEF l
<1>8. ASSUME NEW k \in 2 .. N
      PROVE  /\ C(k) \in 1 .. N /\ k \in 1 .. N /\ P(k) \in DOMAIN message[C(k)].children
             /\ message[C(k)].children[P(k)] = k
  <2>1. C(k) \in 1 .. k - 1 /\ P(k) \in DOMAIN message[C(k)].children
    BY ContainerIs
  <2>2. C(k) \in 1 .. N
    BY <1>1, <2>1
  <2>3. message[C(k)].children[P(k)] = k
    BY <1>1, <2>1, <2>2, ContainerIs
  <2>. QED
    BY <1>1, <2>1, <2>2, <2>3
<1>. HIDE DEF N, ids, C, P, R
<1>9. 1 \in 1 .. N
  BY <1>1
<1>10. RootId(message) = IF message[1].multipart THEN <<>> ELSE <<1>>
  BY DEF RootId
<1>11. ~message[1].multipart => N = 1
  <2>. SUFFICES ASSUME N # 1, ~message[1].multipart  PROVE FALSE
    OBVIOUS
  <2>1. 2 \in 2 .. N
    BY <1>1
  <2>2. C(2) \in 1 .. 2 - 1
    BY <2>1, ContainerIs DEF C, N
  <2>3. C(2) = 1
    BY <2>2
  <2>4. P(2) \in DOMAIN message[1].children /\ 1 \in DOMAIN message
    BY <1>1, <1>8, <2>1, <2>3
  <2>5. message[1].multipart
    BY <2>4, MessagesAssumption
  <2>. QED
    BY <2>5
<1>12. ~message[1].multipart => Ids = {<<1>>} /\ ~tree[<<1>>].multipart
  <2>. SUFFICES ASSUME ~message[1].multipart  PROVE Ids = {<<1>>} /\ ~tree[<<1>>].multipart
    OBVIOUS
  <2>1. \A k : k \in 1 .. N <=> k = 1
    BY <1>11
  <2>2. Ids = {ids[1]} /\ ids[1] = <<1>>
    BY <1>3, <1>4, <1>10, <2>1
  <2>. QED
    BY <1>5, <1>9, <2>2
<1>13. Root = RootId(message)
  <2>1. CASE message[1].multipart
    <3>1. ids[1] = <<>> /\ ids[1] \in Ids
      BY <1>3, <1>5, <1>9, <1>10, <2>1
    <3>. QED
      BY <1>10, <2>1, <3>1 DEF Root
  <2>2. CASE ~message[1].multipart
    <3>1. <<>> # <<1>>
      OBVIOUS
    <3>. QED
      BY <1>10, <1>12, <2>2, <3>1 DEF Root
  <2>. QED
    BY <2>1, <2>2
<1>14. Root \in Ids
  BY <1>3, <1>5, <1>9, <1>13
<1>15. IF Root = <<>> THEN tree[Root].multipart ELSE Ids = {Root} /\ ~tree[Root].multipart
  <2>1. CASE message[1].multipart
    <3>1. Root = <<>> /\ ids[1] = Root
      BY <1>3, <1>10, <1>13, <2>1
    <3>. QED
      BY <1>5, <1>9, <2>1, <3>1
  <2>2. CASE ~message[1].multipart
    <3>1. <<>> # <<1>>
      OBVIOUS
    <3>. QED
      BY <1>10, <1>12, <1>13, <2>2, <3>1
  <2>. QED
    BY <2>1, <2>2
<1>16. ASSUME NEW k \in 1 .. N, NEW c \in DOMAIN R(k)
       PROVE  \E n \in DOMAIN message[k].children :
                /\ message[k].children[n] \in 2 .. N
                /\ R(k)[c] = ids[message[k].children[n]]
                /\ message[k].multipart
                /\ Len(R(k)[c]) = Len(ids[k]) + 1
                /\ Parent(R(k)[c]) = ids[k]
  <2>1. PICK n \in DOMAIN message[k].children :
          /\ message[k].children[n] \in DOMAIN message
          /\ R(k)[c] = ids[message[k].children[n]]
    BY <1>6
  <2>2. /\ message[k].children[n] \in 2 .. N /\ C(message[k].children[n]) = k
        /\ message[k].multipart
    BY <1>7, <2>1
  <2>. QED
    BY <1>2, <2>1, <2>2
<1>17. ASSUME NEW k \in 1 .. N, NEW c \in DOMAIN R(k), NEW d \in DOMAIN R(k), c < d
       PROVE  R(k)[c][Len(ids[k]) + 1] < R(k)[d][Len(ids[k]) + 1]
  <2>. DEFINE ch == message[k].children
  <2>1. PICK m \in DOMAIN ch, n \in DOMAIN ch :
          /\ ch[m] \in DOMAIN message /\ ch[n] \in DOMAIN message /\ m < n
          /\ R(k)[c] = ids[ch[m]] /\ R(k)[d] = ids[ch[n]]
    BY <1>6, <1>17
  <2>2. /\ ch[m] \in 2 .. N /\ C(ch[m]) = k /\ P(ch[m]) = m
        /\ ch[n] \in 2 .. N /\ C(ch[n]) = k /\ P(ch[n]) = n
    BY <1>7, <2>1
  <2>. HIDE DEF ch
  <2>3. Len(ids[ch[m]]) = Len(ids[k]) + 1 /\ Len(ids[ch[n]]) = Len(ids[k]) + 1
    BY <1>2, <2>2
  <2>4. ids[ch[m]][Len(ids[k]) + 1] = m /\ ids[ch[n]][Len(ids[k]) + 1] = n
    BY <1>2, <2>2, <2>3
  <2>. QED
    BY <2>1, <2>4
<1>18. ASSUME NEW id \in Ids \ {Root}
       PROVE  /\ id # <<>> /\ Parent(id) \in Ids
              /\ \E c \in DOMAIN Children(Parent(id)) : Children(Parent(id))[c] = id
  <2>1. PICK k \in 1 .. N : id = ids[k]
    BY <1>4
  <2>2. k \in 2 .. N
    <3>1. k # 1
      BY <1>3, <1>13, <2>1
    <3>. QED
      BY <1>1, <3>1
  <2>3. Parent(id) = ids[C(k)] /\ Len(id) = Len(ids[C(k)]) + 1 /\ C(k) \in 1 .. N
    BY <1>2, <1>8, <2>1, <2>2
  <2>4. id # <<>>
    <3>1. Len(ids[C(k)]) \in Nat
      BY <1>2, <2>3
    <3>2. Len(id) # 0
      BY <2>3, <3>1
    <3>. QED
      BY <3>2, EmptySeq
  <2>5. /\ P(k) \in DOMAIN message[C(k)].children
        /\ message[C(k)].children[P(k)] = k /\ k \in DOMAIN message
    BY <1>1, <1>8, <2>1, <2>2
  <2>6. \E c \in DOMAIN R(C(k)) : R(C(k))[c] = ids[k]
    <3>. DEFINE p == C(k)
                n == P(k)
                ch == message[p].children
    <3>1. p \in 1 .. N /\ n \in DOMAIN ch /\ ch[n] \in DOMAIN message /\ ch[n] = k
      BY <2>3, <2>5
    <3>. HIDE DEF p, n
    <3>2. \E c \in DOMAIN R(p) : R(p)[c] = ids[ch[n]]
      BY <1>6, <3>1
    <3>. QED
      BY <3>1, <3>2 DEF p, n
  <2>7. Children(Parent(id)) = R(C(k))
    BY <1>5, <2>3 DEF Children
  <2>. QED
    BY <1>5, <2>1, <2>3, <2>4, <2>6, <2>7
<1>19. Ids \subseteq Seq(Nat)
  BY <1>2, <1>4
<1>20. ASSUME NEW id \in Ids
       PROVE  /\ tree[id].multipart \in BOOLEAN /\ tree[id].attached \in BOOLEAN
              /\ tree[id].named \in BOOLEAN
              /\ Children(id) \in Seq(Ids)
              /\ \A c \in DOMAIN Children(id) :
                   /\ tree[id].multipart
                   /\ Len(Children(id)[c]) = Len(id) + 1
                   /\ Parent(Children(id)[c]) = id
              /\ \A c, d \in DOMAIN Children(id) :
                   c < d => Children(id)[c][Len(id) + 1] < Children(id)[d][Len(id) + 1]
  <2>1. PICK k \in 1 .. N : id = ids[k]
    BY <1>4
  <2>2. Children(id) = R(k)
    BY <1>5, <2>1 DEF Children
  <2>3. R(k) \in Seq(Ids)
    BY <1>6
  <2>4. \A c \in DOMAIN R(k) :
          /\ message[k].multipart
          /\ Len(R(k)[c]) = Len(ids[k]) + 1
          /\ Parent(R(k)[c]) = ids[k]
    BY <1>16
  <2>5. tree[id].multipart = message[k].multipart
    BY <1>5, <2>1
  <2>. QED
    BY <1>5, <1>17, <2>1, <2>2, <2>3, <2>4, <2>5
<1>. QED
  BY <1>13, <1>14, <1>15, <1>18, <1>19, <1>20 DEF TreeInv

-----------------------------------------------------------------------------
(* What the steps do to the stack.                                         *)

\* The call on top passes a part; those below stay as they are.
TopPasses ==
  LET n == Len(stack)
      f == stack[n]
      g == stack'[n]
  IN  /\ stack' \in Seq(Frame)
      /\ \A i \in 1 .. n - 1 : stack'[i] = stack[i]
      /\ g.parts = f.parts /\ g.next = f.next + 1 /\ g.type = f.type
      /\ g.inAlternative = f.inAlternative
      /\ g.textAtEntry = f.textAtEntry /\ g.htmlAtEntry = f.htmlAtEntry

TypeInv ==
  /\ TreeInv
  /\ textBody \in Seq(Ids) /\ htmlBody \in Seq(Ids) /\ attachments \in Seq(Ids)
  /\ stack \in Seq(Frame)
  /\ \A i \in Calls : stack[i].next <= Len(stack[i].parts) + 1

LEMMA FrameIs ==
  ASSUME NEW f \in Frame
  PROVE  /\ f.parts \in Seq(Ids) /\ f.next \in Nat \ {0} /\ f.type \in Types
         /\ f.inAlternative \in BOOLEAN /\ f.textOn \in BOOLEAN /\ f.htmlOn \in BOOLEAN
         /\ f.textAtEntry \in Nat /\ f.htmlAtEntry \in Nat
BY DEF Frame

LEMMA FramePassed ==
  ASSUME NEW f \in Frame
  PROVE  LET g == [f EXCEPT !.next = @ + 1]
         IN  /\ g \in Frame
             /\ g.parts = f.parts /\ g.next = f.next + 1 /\ g.type = f.type
             /\ g.inAlternative = f.inAlternative /\ g.textOn = f.textOn /\ g.htmlOn = f.htmlOn
             /\ g.textAtEntry = f.textAtEntry /\ g.htmlAtEntry = f.htmlAtEntry
BY DEF Frame

LEMMA StackIs ==
  ASSUME TypeInv, Running
  PROVE  /\ Len(stack) \in Nat \ {0} /\ Calls = 1 .. Len(stack)
         /\ Top = stack[Len(stack)] /\ Top \in Frame
         /\ Below \in Seq(Frame) /\ Len(Below) = Len(stack) - 1
         /\ \A i \in 1 .. Len(stack) - 1 : Below[i] = stack[i]
<1>. DEFINE n == Len(stack)
<1>1. stack \in Seq(Frame) /\ stack # <<>>
  BY DEF TypeInv, Running
<1>2. n \in Nat \ {0} /\ Calls = 1 .. n
  BY <1>1, EmptySeq, LenProperties DEF Calls
<1>3. stack[n] \in Frame
  BY <1>1, <1>2, ElementOfSeq
<1>4. \A i \in 1 .. n - 1 : stack[i] \in Frame
  BY <1>1, <1>2, ElementOfSeq
<1>. HIDE DEF n
<1>5. LET s == SubSeq(stack, 1, n - 1)
      IN  /\ s \in Seq(Frame)
          /\ Len(s) = IF 1 <= n - 1 THEN n - 1 - 1 + 1 ELSE 0
          /\ \A i \in 1 .. n - 1 - 1 + 1 : s[i] = stack[1 + i - 1]
  BY <1>2, <1>4, SubSeqProperties
<1>. DEFINE s == SubSeq(stack, 1, n - 1)
            l == Len(s)
<1>6. l = n - 1
  <2>1. l = IF 1 <= n - 1 THEN n - 1 - 1 + 1 ELSE 0
    BY <1>5
  <2>. HIDE DEF l
  <2>. QED
    BY <1>2, <2>1
<1>7. ASSUME NEW i \in 1 .. n - 1  PROVE s[i] = stack[i]
  <2>1. i \in 1 .. n - 1 - 1 + 1 /\ 1 + i - 1 = i
    BY <1>2
  <2>. QED
    BY <1>5, <2>1
<1>. QED
  BY <1>2, <1>3, <1>5, <1>6, <1>7 DEF Top, Below, n

\* A call that stays on top.
LEMMA StackPasses ==
  ASSUME TypeInv, Running, NEW f \in Frame, stack' = Append(Below, f),
         f.parts = Top.parts, f.next = Top.next + 1, f.type = Top.type,
         f.inAlternative = Top.inAlternative,
         f.textAtEntry = Top.textAtEntry, f.htmlAtEntry = Top.htmlAtEntry
  PROVE  TopPasses /\ Len(stack') = Len(stack) /\ stack'[Len(stack)] = f
<1>. DEFINE n == Len(stack)
<1>1. /\ n \in Nat \ {0} /\ Top = stack[n]
      /\ Below \in Seq(Frame) /\ Len(Below) = n - 1
      /\ \A i \in 1 .. n - 1 : Below[i] = stack[i]
  BY StackIs
<1>2. /\ stack' \in Seq(Frame) /\ Len(stack') = Len(Below) + 1
      /\ \A i \in 1 .. Len(Below) : stack'[i] = Below[i]
      /\ stack'[Len(Below) + 1] = f
  BY <1>1, AppendProperties
<1>. HIDE DEF n
<1>3. Len(Below) + 1 = n
  BY <1>1
<1>4. Len(stack') = n /\ stack'[n] = f /\ \A i \in 1 .. n - 1 : stack'[i] = stack[i]
  BY <1>1, <1>2, <1>3
<1>. QED
  BY <1>1, <1>2, <1>4 DEF TopPasses, n

LEMMA ChooseAlternativeStack ==
  ASSUME TypeInv, ChooseAlternative \/ Attach
  PROVE  /\ TopPasses /\ Len(stack') = Len(stack)
         /\ stack'[Len(stack)].textOn = Top.textOn /\ stack'[Len(stack)].htmlOn = Top.htmlOn
<1>1. Running /\ stack' = Append(Below, Passed)
  BY DEF ChooseAlternative, Attach, Leaf, MorePart
<1>2. Top \in Frame
  BY <1>1, StackIs
<1>. DEFINE f == Top
<1>. HIDE DEF f
<1>3. f \in Frame
  BY <1>2 DEF f
<1>4. LET g == [f EXCEPT !.next = @ + 1]
      IN  /\ g \in Frame
          /\ g.parts = f.parts /\ g.next = f.next + 1 /\ g.type = f.type
          /\ g.inAlternative = f.inAlternative /\ g.textOn = f.textOn /\ g.htmlOn = f.htmlOn
          /\ g.textAtEntry = f.textAtEntry /\ g.htmlAtEntry = f.htmlAtEntry
  BY <1>3, FramePassed
<1>5. Passed = [f EXCEPT !.next = @ + 1]
  BY DEF Passed, f
<1>. DEFINE g == Passed
<1>6. /\ g \in Frame
      /\ g.parts = Top.parts /\ g.next = Top.next + 1 /\ g.type = Top.type
      /\ g.inAlternative = Top.inAlternative /\ g.textOn = Top.textOn /\ g.htmlOn = Top.htmlOn
      /\ g.textAtEntry = Top.textAtEntry /\ g.htmlAtEntry = Top.htmlAtEntry
  BY <1>4, <1>5 DEF f
<1>7. stack' = Append(Below, g)
  BY <1>1
<1>. HIDE DEF g
<1>8. TopPasses /\ Len(stack') = Len(stack) /\ stack'[Len(stack)] = g
  BY <1>1, <1>6, <1>7, StackPasses
<1>. QED
  BY <1>6, <1>8

\* The lists that are still on when the current part is shown.
TextStays == Top.textOn /\ ~(Top.inAlternative /\ Current.type = "html")
HtmlStays == Top.htmlOn /\ ~(Top.inAlternative /\ Current.type = "plain")

LEMMA ShowInlineStack ==
  ASSUME TypeInv, ShowInline
  PROVE  /\ TopPasses /\ Len(stack') = Len(stack)
         /\ stack'[Len(stack)].textOn = TextStays /\ stack'[Len(stack)].htmlOn = HtmlStays
<1>1. Running /\ stack' = Append(Below, [Passed EXCEPT !.textOn = TextStays, !.htmlOn = HtmlStays])
  BY Zenon DEF ShowInline, Leaf, MorePart, TextStays, HtmlStays
<1>2. Top \in Frame
  BY <1>1, StackIs
<1>3. TextStays \in BOOLEAN /\ HtmlStays \in BOOLEAN
  BY Zenon DEF TextStays, HtmlStays
<1>. DEFINE f == Top
            p == Passed
            t == TextStays
            h == HtmlStays
<1>4. p = [f EXCEPT !.next = @ + 1]
  BY DEF Passed
<1>5. stack' = Append(Below, [p EXCEPT !.textOn = t, !.htmlOn = h])
  BY <1>1
<1>. HIDE DEF f, p, t, h
<1>6. f \in Frame
  BY <1>2 DEF f
<1>7. /\ p \in Frame
      /\ p.parts = f.parts /\ p.next = f.next + 1 /\ p.type = f.type
      /\ p.inAlternative = f.inAlternative
      /\ p.textAtEntry = f.textAtEntry /\ p.htmlAtEntry = f.htmlAtEntry
  BY <1>4, <1>6, FramePassed
<1>. DEFINE g == [p EXCEPT !.textOn = t, !.htmlOn = h]
<1>8. t \in BOOLEAN /\ h \in BOOLEAN
  BY <1>3 DEF t, h
<1>9. /\ g \in Frame
      /\ g.parts = p.parts /\ g.next = p.next /\ g.type = p.type
      /\ g.inAlternative = p.inAlternative /\ g.textOn = t /\ g.htmlOn = h
      /\ g.textAtEntry = p.textAtEntry /\ g.htmlAtEntry = p.htmlAtEntry
  <2>1. p \in Frame
    BY <1>7
  <2>2. g = [p EXCEPT !.textOn = t, !.htmlOn = h]
    OBVIOUS
  <2>. HIDE DEF g
  <2>. QED
    BY <1>8, <2>1, <2>2 DEF Frame
<1>10. stack' = Append(Below, g)
  BY <1>5
<1>. HIDE DEF g
<1>11. /\ g.parts = Top.parts /\ g.next = Top.next + 1 /\ g.type = Top.type
       /\ g.inAlternative = Top.inAlternative
       /\ g.textAtEntry = Top.textAtEntry /\ g.htmlAtEntry = Top.htmlAtEntry
  BY <1>7, <1>9 DEF f
<1>12. TopPasses /\ Len(stack') = Len(stack) /\ stack'[Len(stack)] = g
  BY <1>1, <1>9, <1>10, <1>11, StackPasses
<1>. QED
  BY <1>9, <1>12 DEF t, h

LEMMA MorePartIs ==
  ASSUME TypeInv, MorePart
  PROVE  /\ Running /\ Top.next \in DOMAIN Top.parts /\ Top.next \in Nat \ {0}
         /\ DOMAIN Top.parts = 1 .. Len(Top.parts) /\ Len(Top.parts) \in Nat
         /\ Id \in Ids /\ Id = Top.parts[Top.next] /\ Id \in Seq(Nat)
<1>1. Running /\ Top.next <= Len(Top.parts)
  BY DEF MorePart
<1>2. Top \in Frame
  BY <1>1, StackIs
<1>3. Top.parts \in Seq(Ids) /\ Top.next \in Nat \ {0}
  BY <1>2, FrameIs
<1>4. Top.next \in 1 .. Len(Top.parts) /\ DOMAIN Top.parts = 1 .. Len(Top.parts) /\ Len(Top.parts) \in Nat
  BY <1>1, <1>3
<1>5. Top.parts[Top.next] \in Ids
  BY <1>3, <1>4
<1>6. Ids \subseteq Seq(Nat)
  BY DEF TypeInv, TreeInv
<1>. QED
  BY <1>1, <1>3, <1>4, <1>5, <1>6 DEF Id

LEMMA DescendStack ==
  ASSUME TypeInv, Descend
  PROVE  LET n == Len(stack)
             g == stack'[n + 1]
         IN  /\ TopPasses /\ Len(stack') = n + 1
             /\ stack'[n].textOn = Top.textOn /\ stack'[n].htmlOn = Top.htmlOn
             /\ g.parts = Children(Id) /\ g.next = 1 /\ g.type = Current.type
             /\ g.inAlternative = (Top.inAlternative \/ Current.type = "alternative")
             /\ g.textOn = Top.textOn /\ g.htmlOn = Top.htmlOn
             /\ g.textAtEntry = (IF Top.textOn THEN Len(textBody) ELSE 0)
             /\ g.htmlAtEntry = (IF Top.htmlOn THEN Len(htmlBody) ELSE 0)
<1>. DEFINE n == Len(stack)
            f == Top
            p == Passed
            inner == Top.inAlternative \/ Current.type = "alternative"
            g == Call(Current.children, Current.type, inner, Top.textOn, Top.htmlOn)
<1>1. MorePart /\ Current.multipart /\ stack' = Below \o <<p, g>>
  BY Zenon DEF Descend
<1>2. /\ Running /\ Id \in Ids
  BY <1>1, MorePartIs
<1>3. /\ n \in Nat \ {0} /\ Top = stack[n] /\ Top \in Frame
      /\ Below \in Seq(Frame) /\ Len(Below) = n - 1
      /\ \A i \in 1 .. n - 1 : Below[i] = stack[i]
  BY <1>2, StackIs
<1>4. /\ f.parts \in Seq(Ids) /\ f.next \in Nat \ {0} /\ f.textOn \in BOOLEAN /\ f.htmlOn \in BOOLEAN
  BY <1>3, FrameIs
<1>5. Current.children = Children(Id) /\ Children(Id) \in Seq(Ids) /\ Current.type \in Types
  BY <1>2 DEF Current, Children, Types, TypeInv, TreeInv
<1>6. Len(textBody) \in Nat /\ Len(htmlBody) \in Nat
  BY DEF TypeInv
<1>7. inner \in BOOLEAN
  BY Zenon
<1>8. /\ g.parts = Children(Id) /\ g.next = 1 /\ g.type = Current.type
      /\ g.inAlternative = inner /\ g.textOn = Top.textOn /\ g.htmlOn = Top.htmlOn
      /\ g.textAtEntry = (IF Top.textOn THEN Len(textBody) ELSE 0)
      /\ g.htmlAtEntry = (IF Top.htmlOn THEN Len(htmlBody) ELSE 0)
  <2>. HIDE DEF inner
  <2>. QED
    BY <1>5 DEF Call
<1>9. g \in Frame
  <2>. DEFINE t == Top.textOn
              h == Top.htmlOn
              c == Current.children
              k == Current.type
              tl == IF t THEN Len(textBody) ELSE 0
              hl == IF h THEN Len(htmlBody) ELSE 0
  <2>1. t \in BOOLEAN /\ h \in BOOLEAN /\ c \in Seq(Ids) /\ k \in Types /\ tl \in Nat /\ hl \in Nat
    BY <1>4, <1>5, <1>6
  <2>2. g = [parts |-> c, next |-> 1, type |-> k, inAlternative |-> inner,
             textOn |-> t, htmlOn |-> h, textAtEntry |-> tl, htmlAtEntry |-> hl]
    BY Zenon DEF Call
  <2>. HIDE DEF t, h, c, k, tl, hl, inner, g
  <2>. QED
    BY <1>7, <2>1, <2>2 DEF Frame
<1>10. /\ p \in Frame
       /\ p.parts = f.parts /\ p.next = f.next + 1 /\ p.type = f.type
       /\ p.inAlternative = f.inAlternative /\ p.textOn = f.textOn /\ p.htmlOn = f.htmlOn
       /\ p.textAtEntry = f.textAtEntry /\ p.htmlAtEntry = f.htmlAtEntry
  <2>1. p = [f EXCEPT !.next = @ + 1]
    BY DEF Passed
  <2>. HIDE DEF f, p
  <2>. QED
    BY <1>3, <2>1, FramePassed DEF f
<1>11. Len(stack') = n + 1 /\ stack'[n] = p /\ stack'[n + 1] = g
       /\ stack' \in Seq(Frame) /\ \A i \in 1 .. n - 1 : stack'[i] = stack[i]
  <2>. HIDE DEF p, g, n
  <2>. DEFINE two == <<p, g>>
  <2>1. two \in Seq(Frame) /\ Len(two) = 2 /\ two[1] = p /\ two[2] = g
    BY <1>9, <1>10
  <2>2. stack' = Below \o two
    BY <1>1
  <2>. HIDE DEF two
  <2>3. /\ stack' \in Seq(Frame) /\ Len(stack') = Len(Below) + Len(two)
        /\ \A i \in 1 .. Len(Below) + Len(two) :
             stack'[i] = IF i <= Len(Below) THEN Below[i] ELSE two[i - Len(Below)]
    BY <1>3, <2>1, <2>2, ConcatProperties
  <2>. DEFINE b == Len(Below)
  <2>4. b = n - 1 /\ n \in Nat \ {0}
    BY <1>3
  <2>5. Len(stack') = b + 2 /\ \A i \in 1 .. b + 2 : stack'[i] = IF i <= b THEN Below[i] ELSE two[i - b]
    BY <2>1, <2>3
  <2>. HIDE DEF b
  <2>6. n \in 1 .. b + 2 /\ ~(n <= b) /\ n - b = 1 /\ n + 1 \in 1 .. b + 2 /\ ~(n + 1 <= b) /\ n + 1 - b = 2
        /\ b + 2 = n + 1
    BY <2>4
  <2>7. \A i \in 1 .. n - 1 : i \in 1 .. b + 2 /\ i <= b
    BY <2>4
  <2>. QED
    BY <1>3, <2>1, <2>3, <2>5, <2>6, <2>7
<1>. QED
  BY <1>3, <1>8, <1>10, <1>11 DEF TopPasses

LEMMA ReturnStack ==
  ASSUME TypeInv, Return
  PROVE  /\ stack' \in Seq(Frame) /\ Len(stack') = Len(stack) - 1
         /\ \A i \in 1 .. Len(stack) - 1 : stack'[i] = stack[i]
<1>1. Running /\ stack' = Below
  BY DEF Return
<1>. QED
  BY <1>1, StackIs

-----------------------------------------------------------------------------
(* Types.                                                                  *)

LEMMA FromIs ==
  ASSUME NEW S, NEW list \in Seq(S), NEW n \in Nat
  PROVE  /\ From(list, n) \in Seq(S)
         /\ n <= Len(list) => Len(From(list, n)) = Len(list) - n
         /\ \A i \in 1 .. Len(From(list, n)) :
              From(list, n)[i] = list[n + i] /\ n + i \in 1 .. Len(list)
<1>. DEFINE l == Len(list)
            r == From(list, n)
            k == Len(r)
<1>1. l \in Nat /\ \A i \in n + 1 .. l : list[i] \in S
  <2>1. l \in Nat /\ \A i \in n + 1 .. l : i \in 1 .. l
    OBVIOUS
  <2>. QED
    BY <2>1
<1>2. /\ r \in Seq(S) /\ k = IF n + 1 <= l THEN l - (n + 1) + 1 ELSE 0
      /\ \A i \in 1 .. l - (n + 1) + 1 : r[i] = list[n + 1 + i - 1]
  BY <1>1, SubSeqProperties DEF From
<1>. HIDE DEF l, r, k
<1>3. k = IF n + 1 <= l THEN l - (n + 1) + 1 ELSE 0
  BY <1>2
<1>4. n <= l => k = l - n
  BY <1>1, <1>3
<1>5. ASSUME NEW i \in 1 .. k  PROVE r[i] = list[n + i] /\ n + i \in 1 .. l
  <2>1. n + 1 <= l
    BY <1>1, <1>3
  <2>2. i \in 1 .. l - (n + 1) + 1 /\ n + 1 + i - 1 = n + i /\ n + i \in 1 .. l
    BY <1>1, <1>3, <2>1
  <2>. QED
    BY <1>2, <2>2
<1>. QED
  BY <1>2, <1>4, <1>5 DEF l, r, k

LEMMA PushIfIs ==
  ASSUME NEW S, NEW list \in Seq(S), Id \in S, NEW on \in BOOLEAN
  PROVE  /\ PushIf(on, list) \in Seq(S)
         /\ on => /\ Len(PushIf(on, list)) = Len(list) + 1
                  /\ \A i \in 1 .. Len(list) : PushIf(on, list)[i] = list[i]
                  /\ PushIf(on, list)[Len(list) + 1] = Id
         /\ ~on => PushIf(on, list) = list
<1>1. CASE on
  BY <1>1, AppendProperties DEF PushIf
<1>2. CASE ~on
  BY <1>2 DEF PushIf
<1>. QED
  BY <1>1, <1>2

LEMMA TypesKept ==
  ASSUME TypeInv, Next
  PROVE  TypeInv' /\ tree' = tree
<1>1. tree' = tree
  BY DEF Next, Descend, ChooseAlternative, ShowInline, Attach, Return
<1>2. TreeInv' /\ Ids' = Ids
  BY <1>1 DEF TypeInv, TreeInv, Ids, Children, Root
<1>3. Seq(Frame)' = Seq(Frame)
  BY <1>1 DEF Frame, Types, Ids
<1>4. textBody \in Seq(Ids) /\ htmlBody \in Seq(Ids) /\ attachments \in Seq(Ids)
  BY DEF TypeInv
<1>. DEFINE Lists == textBody' \in Seq(Ids) /\ htmlBody' \in Seq(Ids) /\ attachments' \in Seq(Ids)
            Bounds == stack' \in Seq(Frame) /\ \A i \in Calls' : stack'[i].next <= Len(stack'[i].parts) + 1
<1>5. ASSUME TopPasses, Len(stack') = Len(stack), MorePart  PROVE Bounds
  <2>1. Len(stack) \in Nat \ {0} /\ Calls = 1 .. Len(stack) /\ Top = stack[Len(stack)] /\ Top \in Frame
    BY <1>5, StackIs, MorePartIs
  <2>2. stack' \in Seq(Frame) /\ Calls' = 1 .. Len(stack)
    BY <1>5, LenProperties DEF TopPasses, Calls
  <2>3. ASSUME NEW i \in 1 .. Len(stack)  PROVE stack'[i].next <= Len(stack'[i].parts) + 1
    <3>1. CASE i = Len(stack)
      <4>1. Top.next <= Len(Top.parts) /\ Top.next \in Nat /\ Len(Top.parts) \in Nat
        BY <1>5, MorePartIs DEF MorePart
      <4>2. stack'[i].next = Top.next + 1 /\ stack'[i].parts = Top.parts
        BY <1>5, <2>1, <3>1 DEF TopPasses
      <4>. QED
        BY <4>1, <4>2
    <3>2. CASE i # Len(stack)
      <4>1. i \in 1 .. Len(stack) - 1 /\ i \in Calls
        BY <2>1, <3>2
      <4>. QED
        BY <1>5, <4>1 DEF TopPasses, TypeInv
    <3>. QED
      BY <3>1, <3>2
  <2>. QED
    BY <2>2, <2>3
<1>6. CASE Descend
  <2>1. MorePart /\ Lists
    BY <1>4, <1>6 DEF Descend
  <2>. DEFINE n == Len(stack)
  <2>2. /\ TopPasses /\ Len(stack') = n + 1
        /\ stack'[n + 1].parts = Children(Id) /\ stack'[n + 1].next = 1
    BY <1>6, DescendStack
  <2>3. n \in Nat \ {0} /\ Calls = 1 .. n /\ Top = stack[n] /\ Top \in Frame
    BY <2>1, StackIs, MorePartIs
  <2>4. stack' \in Seq(Frame) /\ Calls' = 1 .. n + 1
    BY <2>2, LenProperties DEF TopPasses, Calls
  <2>5. ASSUME NEW i \in 1 .. n + 1  PROVE stack'[i].next <= Len(stack'[i].parts) + 1
    <3>1. CASE i = n
      <4>1. Top.next <= Len(Top.parts) /\ Top.next \in Nat /\ Len(Top.parts) \in Nat
        BY <2>1, MorePartIs DEF MorePart
      <4>2. stack'[i].next = Top.next + 1 /\ stack'[i].parts = Top.parts
        BY <2>2, <2>3, <3>1 DEF TopPasses
      <4>. QED
        BY <4>1, <4>2
    <3>2. CASE i = n + 1
      <4>1. Children(Id) \in Seq(Ids)
        BY <2>1, MorePartIs DEF TypeInv, TreeInv
      <4>2. Len(Children(Id)) \in Nat
        BY <4>1
      <4>. QED
        BY <2>2, <3>2, <4>2
    <3>3. CASE i # n /\ i # n + 1
      <4>1. i \in 1 .. n - 1 /\ i \in Calls
        BY <2>3, <3>3
      <4>. QED
        BY <2>2, <4>1 DEF TopPasses, TypeInv
    <3>. QED
      BY <3>1, <3>2, <3>3
  <2>6. Bounds
    BY <2>4, <2>5
  <2>. QED
    BY <1>1, <1>2, <1>3, <2>1, <2>6 DEF TypeInv
<1>7. CASE ChooseAlternative \/ Attach
  <2>1. MorePart
    BY <1>7 DEF ChooseAlternative, Attach, Leaf
  <2>2. Id \in Ids
    BY <2>1, MorePartIs
  <2>3. Lists
    <3>1. CASE ChooseAlternative
      <4>. DEFINE a == Top.textOn /\ Current.type = "plain"
                  b == Top.htmlOn /\ Current.type = "html"
                  c == Current.type = "media"
      <4>1. a \in BOOLEAN /\ b \in BOOLEAN /\ c \in BOOLEAN
        BY Zenon
      <4>2. textBody' = PushIf(a, textBody) /\ htmlBody' = PushIf(b, htmlBody)
            /\ attachments' = PushIf(c, attachments)
        BY <3>1 DEF ChooseAlternative
      <4>. HIDE DEF a, b, c
      <4>. QED
        BY <1>4, <2>2, <4>1, <4>2, PushIfIs
    <3>2. CASE Attach
      BY <1>4, <2>2, <3>2, AppendProperties DEF Attach
    <3>. QED
      BY <1>7, <3>1, <3>2
  <2>4. Bounds
    BY <1>5, <1>7, <2>1, ChooseAlternativeStack
  <2>. QED
    BY <1>1, <1>2, <1>3, <2>3, <2>4 DEF TypeInv
<1>8. CASE ShowInline
  <2>1. MorePart
    BY <1>8 DEF ShowInline, Leaf
  <2>2. Id \in Ids
    BY <2>1, MorePartIs
  <2>3. Lists
    <3>. DEFINE a == TextStays
                b == HtmlStays
                c == Current.type = "media" /\ ~(TextStays /\ HtmlStays)
    <3>1. a \in BOOLEAN /\ b \in BOOLEAN /\ c \in BOOLEAN
      BY Zenon DEF TextStays, HtmlStays
    <3>2. textBody' = PushIf(a, textBody) /\ htmlBody' = PushIf(b, htmlBody)
          /\ attachments' = PushIf(c, attachments)
      BY <1>8, Zenon DEF ShowInline, TextStays, HtmlStays
    <3>. HIDE DEF a, b, c
    <3>. QED
      BY <1>4, <2>2, <3>1, <3>2, PushIfIs
  <2>4. Bounds
    BY <1>5, <1>8, <2>1, ShowInlineStack
  <2>. QED
    BY <1>1, <1>2, <1>3, <2>3, <2>4 DEF TypeInv
<1>9. CASE Return
  <2>1. Running
    BY <1>9 DEF Return
  <2>2. Len(stack) \in Nat \ {0} /\ Calls = 1 .. Len(stack) /\ Top \in Frame
    BY <2>1, StackIs
  <2>3. Lists
    <3>1. Top.textAtEntry \in Nat /\ Top.htmlAtEntry \in Nat
      BY <2>2, FrameIs
    <3>2. From(textBody, Top.textAtEntry) \in Seq(Ids) /\ From(htmlBody, Top.htmlAtEntry) \in Seq(Ids)
      BY <1>4, <3>1, FromIs
    <3>3. /\ \/ textBody' = textBody \o From(htmlBody, Top.htmlAtEntry)
             \/ textBody' = textBody
          /\ \/ htmlBody' = htmlBody \o From(textBody, Top.textAtEntry)
             \/ htmlBody' = htmlBody
          /\ attachments' = attachments
      BY <1>9 DEF Return
    <3>. QED
      BY <1>4, <3>2, <3>3, ConcatProperties
  <2>4. /\ stack' \in Seq(Frame) /\ Len(stack') = Len(stack) - 1
        /\ \A i \in 1 .. Len(stack) - 1 : stack'[i] = stack[i]
    BY <1>9, ReturnStack
  <2>5. Calls' = 1 .. Len(stack) - 1
    BY <2>2, <2>4 DEF Calls
  <2>6. \A i \in Calls' : i \in Calls
    BY <2>2, <2>5
  <2>7. Bounds
    BY <2>4, <2>5, <2>6 DEF TypeInv
  <2>. QED
    BY <1>1, <1>2, <1>3, <2>3, <2>7 DEF TypeInv
<1>. QED
  BY <1>6, <1>7, <1>8, <1>9 DEF Next

-----------------------------------------------------------------------------
(* Where the calls stand.                                                  *)

LEMMA ChildIs ==
  ASSUME TreeInv, NEW id \in Ids, NEW c \in DOMAIN Children(id)
  PROVE  LET x == Children(id)[c]
         IN  /\ x \in Ids /\ x \in Seq(Nat) /\ id \in Seq(Nat) /\ x # <<>>
             /\ Len(x) = Len(id) + 1 /\ Len(id) \in Nat /\ Parent(x) = id
             /\ IsPrefix(id, x) /\ tree[id].multipart
<1>. DEFINE x == Children(id)[c]
<1>1. /\ Ids \subseteq Seq(Nat) /\ Children(id) \in Seq(Ids)
      /\ Len(x) = Len(id) + 1 /\ Parent(x) = id /\ tree[id].multipart
  BY DEF TreeInv
<1>2. x \in Ids
  BY <1>1
<1>. HIDE DEF x
<1>3. x \in Seq(Nat) /\ id \in Seq(Nat) /\ Len(id) \in Nat
  BY <1>1, <1>2
<1>4. x # <<>>
  <2>1. Len(x) # 0
    BY <1>1, <1>3
  <2>. QED
    BY <2>1, EmptySeq
<1>5. IsPrefix(id, x)
  BY <1>1, <1>3, <1>4, ParentIsPrefix
<1>. QED
  BY <1>1, <1>2, <1>3, <1>4, <1>5 DEF x

LEMMA EnclosingChild ==
  ASSUME TreeInv, NEW p \in Ids, NEW id \in Ids, id # <<>>, Parent(id) = p
  PROVE  Enclosing(id) = Enclosing(p) \cup {p}
<1>1. Ids \subseteq Seq(Nat)
  BY DEF TreeInv
<1>2. p \in Seq(Nat) /\ id \in Seq(Nat)
  BY <1>1
<1>3. Len(p) = Len(id) - 1 /\ Len(id) \in Nat \ {0} /\ Len(p) \in Nat
  BY <1>2, ParentIs
<1>4. IsPrefix(p, id)
  BY <1>2, ParentIsPrefix
<1>5. ASSUME NEW a \in Ids
      PROVE  Len(a) < Len(id) /\ IsPrefix(a, id) <=> (Len(a) < Len(p) /\ IsPrefix(a, p)) \/ a = p
  <2>1. a \in Seq(Nat) /\ Len(a) \in Nat
    BY <1>1
  <2>2. ASSUME Len(a) < Len(p), IsPrefix(a, p)  PROVE Len(a) < Len(id) /\ IsPrefix(a, id)
    BY <1>2, <1>3, <1>4, <2>1, <2>2, PrefixTransitive
  <2>3. ASSUME a = p  PROVE Len(a) < Len(id) /\ IsPrefix(a, id)
    BY <1>3, <1>4, <2>3
  <2>4. ASSUME Len(a) < Len(id), IsPrefix(a, id)  PROVE (Len(a) < Len(p) /\ IsPrefix(a, p)) \/ a = p
    <3>1. \A j \in 1 .. Len(a) : a[j] = id[j]
      BY <1>2, <2>1, <2>4, PrefixIs
    <3>2. \A j \in 1 .. Len(id) - 1 : p[j] = id[j]
      BY <1>2, ParentIs
    <3>3. Len(a) <= Len(p) /\ \A j \in 1 .. Len(a) : j \in 1 .. Len(id) - 1
      BY <1>3, <2>1, <2>4
    <3>4. \A j \in 1 .. Len(a) : a[j] = p[j]
      BY <3>1, <3>2, <3>3
    <3>5. IsPrefix(a, p)
      BY <1>2, <2>1, <3>3, <3>4, PrefixIs
    <3>6. CASE Len(a) = Len(p)
      BY <1>2, <2>1, <3>4, <3>6, SeqEqual
    <3>7. CASE Len(a) # Len(p)
      BY <1>3, <2>1, <3>3, <3>5, <3>7
    <3>. QED
      BY <3>6, <3>7
  <2>. QED
    BY <2>2, <2>3, <2>4
<1>. QED
  BY <1>5 DEF Enclosing

\* What a call is on is a part of it.
LEMMA PassingIs ==
  ASSUME TypeInv, NEW i \in Calls, stack[i].next > 1
  PROVE  /\ Passing(i) \in Ids /\ Passing(i) \in Seq(Nat)
         /\ stack[i].next - 1 \in DOMAIN stack[i].parts
<1>1. stack \in Seq(Frame) /\ Ids \subseteq Seq(Nat) /\ stack[i].next <= Len(stack[i].parts) + 1
  BY DEF TypeInv, TreeInv
<1>2. stack[i] \in Frame
  BY <1>1 DEF Calls
<1>3. stack[i].parts \in Seq(Ids) /\ stack[i].next \in Nat
  BY <1>2, FrameIs
<1>4. Len(stack[i].parts) \in Nat
  BY <1>3
<1>5. stack[i].next - 1 \in 1 .. Len(stack[i].parts)
  BY <1>1, <1>3, <1>4
<1>. QED
  BY <1>1, <1>3, <1>5 DEF Passing

LEMMA CallIs ==
  ASSUME TypeInv, NEW i \in Calls
  PROVE  /\ stack[i] \in Frame
         /\ stack[i].parts \in Seq(Ids) /\ stack[i].next \in Nat \ {0}
         /\ DOMAIN stack[i].parts = 1 .. Len(stack[i].parts) /\ Len(stack[i].parts) \in Nat
         /\ \A k \in DOMAIN stack[i].parts : stack[i].parts[k] \in Ids /\ stack[i].parts[k] \in Seq(Nat)
<1>1. stack[i] \in Frame /\ Ids \subseteq Seq(Nat)
  BY DEF TypeInv, TreeInv, Calls
<1>2. stack[i].parts \in Seq(Ids) /\ stack[i].next \in Nat \ {0}
  BY <1>1, FrameIs
<1>. QED
  BY <1>1, <1>2, LenProperties

\* A call below stays where it is.
LEMMA CallsBelow ==
  ASSUME NEW m \in Nat, \A i \in 1 .. m : stack'[i] = stack[i], tree' = tree
  PROVE  /\ \A i \in 1 .. m : Passing(i)' = Passing(i)
         /\ \A i \in 2 .. m : InPlace(i)' <=> InPlace(i)
<1>1. \A i \in 1 .. m : Passing(i)' = Passing(i)
  BY DEF Passing
<1>2. ASSUME NEW i \in 2 .. m  PROVE InPlace(i)' <=> InPlace(i)
  <2>1. i \in 1 .. m /\ i - 1 \in 1 .. m
    BY <1>2
  <2>2. Passing(i - 1)' = Passing(i - 1) /\ stack'[i] = stack[i] /\ stack'[i - 1] = stack[i - 1]
    BY <1>1, <2>1
  <2>3. InsideAlternative(Passing(i - 1))' = InsideAlternative(Passing(i - 1))
    BY <2>2 DEF InsideAlternative, Enclosing, Ids
  <2>4. Children(Passing(i - 1))' = Children(Passing(i - 1))
    BY <2>2 DEF Children
  <2>. QED
    BY <2>2, <2>3, <2>4 DEF InPlace
<1>. QED
  BY <1>1, <1>2

\* The call on top stays where it is.
LEMMA CallsTop ==
  ASSUME TypeInv, CallsInv, MorePart, TopPasses, tree' = tree, Len(stack') >= Len(stack),
         NEW n, n = Len(stack)
  PROVE  /\ n \in Nat \ {0} /\ Calls = 1 .. n
         /\ \A i \in 1 .. n - 1 : Passing(i)' = Passing(i)
         /\ Passing(n)' = Id
         /\ \A i \in 2 .. n : InPlace(i)'
         /\ \A j \in 1 .. n : stack'[j].parts = stack[j].parts
         /\ \A i, j \in 1 .. n : i < j =>
              \A k \in DOMAIN stack[j].parts : IsPrefix(Passing(i)', stack[j].parts[k])
         /\ stack' # <<>> /\ stack'[1].parts = <<Root>> /\ stack'[1].type = "mixed"
         /\ ~stack'[1].inAlternative
<1>1. n \in Nat \ {0} /\ Calls = 1 .. n /\ Top = stack[n] /\ stack # <<>>
  BY StackIs, MorePartIs DEF Running
<1>2. /\ \A i \in 1 .. n - 1 : stack'[i] = stack[i]
      /\ stack'[n].parts = stack[n].parts /\ stack'[n].next = stack[n].next + 1
      /\ stack'[n].type = stack[n].type /\ stack'[n].inAlternative = stack[n].inAlternative
  BY DEF TopPasses
<1>3. Top.next \in Nat /\ Id = Top.parts[Top.next]
  BY MorePartIs
<1>4. n - 1 \in Nat
  BY <1>1
<1>5. /\ \A i \in 1 .. n - 1 : Passing(i)' = Passing(i)
      /\ \A i \in 2 .. n - 1 : InPlace(i)' <=> InPlace(i)
  <2>. DEFINE m == n - 1
  <2>1. m \in Nat /\ \A i \in 1 .. m : stack'[i] = stack[i]
    BY <1>2, <1>4
  <2>. HIDE DEF m
  <2>2. /\ \A i \in 1 .. m : Passing(i)' = Passing(i)
        /\ \A i \in 2 .. m : InPlace(i)' <=> InPlace(i)
    BY <2>1, CallsBelow
  <2>. QED
    BY <2>2 DEF m
<1>6. Passing(n)' = Id
  <2>2. Passing(n)' = stack'[n].parts[stack'[n].next - 1]
    BY DEF Passing
  <2>3. stack'[n].next - 1 = stack[n].next
    <3>1. PICK a, b : a = stack'[n].next /\ b = stack[n].next
      OBVIOUS
    <3>2. stack'[n].next = stack[n].next + 1
      BY <1>2, Zenon
    <3>3. a = b + 1 /\ b \in Nat
      BY <1>1, <1>3, <3>1, <3>2, Zenon
    <3>4. a - 1 = b
      BY <3>3
    <3>. QED
      BY <3>1, <3>4, Zenon
  <2>4. Id = stack[n].parts[stack[n].next]
    BY <1>1, <1>3
  <2>. QED
    BY <1>2, <2>2, <2>3, <2>4, Zenon
<1>7. ASSUME NEW i \in 2 .. n  PROVE InPlace(i)'
  <2>0. i \in Calls \ {1}
    BY <1>1
  <2>1. InPlace(i)
    BY <2>0 DEF CallsInv
  <2>2. CASE i = n
    <3>1. n - 1 \in 1 .. n - 1 /\ n \in 2 .. n
      BY <1>1, <2>2
    <3>2. stack'[n - 1] = stack[n - 1] /\ Passing(n - 1)' = Passing(n - 1)
      BY <1>2, <1>5, <3>1
    <3>3. InsideAlternative(Passing(n - 1))' = InsideAlternative(Passing(n - 1))
      BY <3>2 DEF InsideAlternative, Enclosing, Ids
    <3>4. Children(Passing(n - 1))' = Children(Passing(n - 1))
      BY <3>2 DEF Children
    <3>5. /\ stack'[n - 1].next > 1 /\ tree'[Passing(n - 1)'].multipart
          /\ stack'[n].parts = Children(Passing(n - 1))'
          /\ stack'[n].type = tree'[Passing(n - 1)'].type
          /\ Len(Passing(n - 1)') = n - 2
          /\ stack'[n].inAlternative <=> InsideAlternative(Passing(n - 1))'
      BY <1>2, <2>1, <2>2, <3>2, <3>3, <3>4 DEF InPlace
    <3>6. InPlace(n)'
      BY <3>5 DEF InPlace
    <3>. QED
      BY <2>2, <3>6
  <2>3. CASE i # n
    <3>1. i \in 2 .. n - 1
      BY <1>1, <2>3
    <3>. QED
      BY <1>5, <2>1, <3>1
  <2>. QED
    BY <2>2, <2>3
<1>8. ASSUME NEW j \in 1 .. n  PROVE stack'[j].parts = stack[j].parts
  <2>1. CASE j = n
    BY <1>2, <2>1
  <2>2. CASE j # n
    <3>1. j \in 1 .. n - 1
      BY <1>1, <2>2
    <3>. QED
      BY <1>2, <3>1
  <2>. QED
    BY <2>1, <2>2
<1>9. ASSUME NEW i \in 1 .. n, NEW j \in 1 .. n, i < j, NEW k \in DOMAIN stack[j].parts
      PROVE  IsPrefix(Passing(i)', stack[j].parts[k])
  <2>1. i \in 1 .. n - 1
    BY <1>1, <1>9
  <2>2. Passing(i)' = Passing(i)
    BY <1>5, <2>1
  <2>. QED
    BY <1>1, <1>9, <2>2 DEF CallsInv
<1>10. /\ stack' # <<>> /\ stack'[1].parts = <<Root>> /\ stack'[1].type = "mixed"
       /\ ~stack'[1].inAlternative
  <2>1. stack' # <<>>
    <3>1. Len(stack') # 0
      <4>1. Len(stack') \in Nat
        BY DEF TopPasses
      <4>. QED
        BY <1>1, <4>1
    <3>. QED
      BY <3>1, EmptySeq
  <2>2. stack[1].parts = <<Root>> /\ stack[1].type = "mixed" /\ ~stack[1].inAlternative
    BY <1>1 DEF CallsInv
  <2>3. CASE n = 1
    BY <1>2, <2>1, <2>2, <2>3
  <2>4. CASE n # 1
    <3>1. 1 \in 1 .. n - 1
      BY <1>1, <2>4
    <3>. QED
      BY <1>2, <2>1, <2>2, <3>1
  <2>. QED
    BY <2>3, <2>4
<1>. QED
  BY <1>1, <1>5, <1>6, <1>7, <1>8, <1>9, <1>10

LEMMA CallsKept ==
  ASSUME TypeInv, CallsInv, Next
  PROVE  CallsInv'
<1>. DEFINE First == stack' # <<>> => /\ stack'[1].parts = <<Root>>'
                                      /\ stack'[1].type = "mixed"
                                      /\ ~stack'[1].inAlternative
<1>1. tree' = tree /\ TypeInv'
  BY TypesKept
<1>2. <<Root>>' = <<Root>> /\ TreeInv
  BY <1>1 DEF Root, Ids, TypeInv
<1>3. PICK n : n = Len(stack)
  OBVIOUS
<1>4. ASSUME MorePart, TopPasses, Len(stack') = Len(stack)  PROVE CallsInv'
  <2>1. Len(stack') >= Len(stack)
    <3>1. Len(stack) \in Nat
      BY <1>4, StackIs, MorePartIs
    <3>. QED
      BY <1>4, <3>1
  <2>2. /\ n \in Nat \ {0} /\ Calls = 1 .. n
        /\ \A i \in 2 .. n : InPlace(i)'
        /\ \A j \in 1 .. n : stack'[j].parts = stack[j].parts
        /\ \A i, j \in 1 .. n : i < j =>
             \A k \in DOMAIN stack[j].parts : IsPrefix(Passing(i)', stack[j].parts[k])
        /\ stack' # <<>> /\ stack'[1].parts = <<Root>> /\ stack'[1].type = "mixed"
        /\ ~stack'[1].inAlternative
    BY <1>1, <1>3, <1>4, <2>1, CallsTop
  <2>3. Calls' = 1 .. n
    <3>1. stack' \in Seq(Frame)
      BY <1>4 DEF TopPasses
    <3>. QED
      BY <1>3, <1>4, <3>1, LenProperties DEF Calls
  <2>4. \A i \in Calls' \ {1} : InPlace(i)'
    BY <2>2, <2>3
  <2>5. \A i, j \in Calls' : i < j =>
          \A k \in DOMAIN stack'[j].parts : IsPrefix(Passing(i)', stack'[j].parts[k])
    BY <2>2, <2>3
  <2>. QED
    BY <1>2, <2>2, <2>4, <2>5 DEF CallsInv
<1>5. CASE Descend
  <2>1. MorePart /\ Current.multipart
    BY <1>5 DEF Descend
  <2>. DEFINE g == stack'[n + 1]
  <2>2. /\ TopPasses /\ Len(stack') = n + 1
        /\ g.parts = Children(Id) /\ g.next = 1 /\ g.type = Current.type
        /\ g.inAlternative = (Top.inAlternative \/ Current.type = "alternative")
    BY <1>3, <1>5, DescendStack
  <2>3. /\ Id \in Ids /\ Id = Top.parts[Top.next] /\ Id \in Seq(Nat) /\ Top.next \in DOMAIN Top.parts
        /\ Top.next \in Nat \ {0}
    BY <2>1, MorePartIs
  <2>4. Top = stack[n] /\ Top \in Frame /\ n \in Nat \ {0} /\ Calls = 1 .. n /\ stack # <<>>
    BY <1>3, <2>1, StackIs, MorePartIs DEF Running
  <2>5. Len(stack') >= Len(stack)
    BY <1>3, <2>2, <2>4
  <2>6. /\ \A i \in 1 .. n - 1 : Passing(i)' = Passing(i)
        /\ Passing(n)' = Id
        /\ \A i \in 2 .. n : InPlace(i)'
        /\ \A j \in 1 .. n : stack'[j].parts = stack[j].parts
        /\ \A i, j \in 1 .. n : i < j =>
             \A k \in DOMAIN stack[j].parts : IsPrefix(Passing(i)', stack[j].parts[k])
        /\ stack' # <<>> /\ stack'[1].parts = <<Root>> /\ stack'[1].type = "mixed"
        /\ ~stack'[1].inAlternative
    BY <1>1, <1>3, <2>1, <2>2, <2>5, CallsTop
  <2>7. Calls' = 1 .. n + 1
    <3>1. stack' \in Seq(Frame)
      BY <2>2 DEF TopPasses
    <3>. QED
      BY <2>2, <3>1, LenProperties DEF Calls
  <2>8. Len(Id) = n - 1 /\ (g.inAlternative <=> InsideAlternative(Id))
    <3>1. CASE n = 1
      <4>1. Top.parts = <<Root>> /\ ~Top.inAlternative
        BY <2>4, <3>1 DEF CallsInv
      <4>2. Top.next = 1
        BY <2>3, <4>1
      <4>3. Id = Root
        BY <2>3, <4>1, <4>2
      <4>4. tree[Root].multipart
        BY <2>1, <4>3 DEF Current
      <4>5. Root = <<>>
        BY <1>2, <4>4 DEF TreeInv
      <4>6. Len(Id) = 0
        BY <4>3, <4>5
      <4>7. Enclosing(Id) = {}
        <5>1. \A a \in Ids : Len(a) \in Nat
          BY <1>2 DEF TreeInv
        <5>. QED
          BY <4>6, <5>1 DEF Enclosing
      <4>8. InsideAlternative(Id) <=> Current.type = "alternative"
        BY <2>1, <4>7 DEF InsideAlternative, Current
      <4>9. Len(Id) = n - 1
        BY <3>1, <4>6
      <4>. QED
        BY <2>2, <4>1, <4>8, <4>9, Zenon
    <3>2. CASE n # 1
      <4>. DEFINE p == Passing(n - 1)
      <4>1. n \in Calls \ {1} /\ n - 1 \in Calls
        BY <2>4, <3>2
      <4>2. /\ stack[n - 1].next > 1 /\ tree[p].multipart /\ stack[n].parts = Children(p)
            /\ stack[n].type = tree[p].type /\ Len(p) = n - 2
            /\ stack[n].inAlternative <=> InsideAlternative(p)
        BY <4>1 DEF CallsInv, InPlace
      <4>3. p \in Ids
        BY <4>1, <4>2, PassingIs
      <4>. HIDE DEF p
      <4>4. Top.next \in DOMAIN Children(p) /\ Id = Children(p)[Top.next]
        BY <2>3, <2>4, <4>2
      <4>5. Id # <<>> /\ Len(Id) = Len(p) + 1 /\ Parent(Id) = p
        BY <1>2, <4>3, <4>4, ChildIs
      <4>6. Enclosing(Id) = Enclosing(p) \cup {p}
        BY <1>2, <2>3, <4>3, <4>5, EnclosingChild
      <4>7. InsideAlternative(Id) <=> InsideAlternative(p) \/ Current.type = "alternative"
        BY <2>1, <4>6 DEF InsideAlternative, Current
      <4>8. Len(Id) = n - 1
        BY <2>4, <4>2, <4>5
      <4>. QED
        BY <2>2, <2>4, <4>2, <4>7, <4>8
    <3>. QED
      BY <3>1, <3>2
  <2>9. InPlace(n + 1)'
    <3>1. n + 1 - 1 = n /\ n + 1 - 2 = n - 1
      BY <2>4
    <3>2. stack'[n].next = Top.next + 1 /\ Top.next + 1 > 1
      BY <1>3, <2>2, <2>3, <2>4 DEF TopPasses
    <3>3. Children(Passing(n))' = Children(Id)
      BY <1>1, <2>6 DEF Children
    <3>4. InsideAlternative(Passing(n))' <=> InsideAlternative(Id)
      BY <1>1, <2>6 DEF InsideAlternative, Enclosing, Ids
    <3>5. tree'[Passing(n)'].multipart /\ g.type = tree'[Passing(n)'].type
      BY <1>1, <2>1, <2>2, <2>6 DEF Current
    <3>6. PICK m : m = n + 1
      OBVIOUS
    <3>7. m - 1 = n /\ m - 2 = n - 1
      BY <2>4, <3>6
    <3>8. /\ stack'[n].next > 1
          /\ tree'[Passing(n)'].multipart
          /\ stack'[m].parts = Children(Passing(n))'
          /\ stack'[m].type = tree'[Passing(n)'].type
          /\ Len(Passing(n)') = m - 2
      BY <2>2, <2>6, <2>8, <3>2, <3>3, <3>5, <3>6, <3>7
    <3>9. stack'[m].inAlternative <=> InsideAlternative(Passing(n))'
      BY <2>8, <3>4, <3>6, Zenon
    <3>10. InPlace(m)'
      BY <3>7, <3>8, <3>9, Zenon DEF InPlace
    <3>. QED
      BY <3>6, <3>10
  <2>10. \A i \in Calls' \ {1} : InPlace(i)'
    <3>1. \A i \in 1 .. n + 1 : i # 1 => i \in 2 .. n \/ i = n + 1
      BY <2>4
    <3>. QED
      BY <2>6, <2>7, <2>9, <3>1
  <2>11. ASSUME NEW i \in Calls', NEW j \in Calls', i < j, NEW k \in DOMAIN stack'[j].parts
         PROVE  IsPrefix(Passing(i)', stack'[j].parts[k])
    <3>1. CASE j \in 1 .. n
      <4>1. i \in 1 .. n
        BY <2>4, <2>7, <2>11, <3>1
      <4>. QED
        BY <2>6, <2>11, <3>1, <4>1
    <3>2. CASE j = n + 1
      <4>. DEFINE x == stack'[j].parts[k]
      <4>1. /\ x \in Seq(Nat) /\ IsPrefix(Id, x)
        <5>1. k \in DOMAIN Children(Id) /\ x = Children(Id)[k]
          BY <2>2, <3>2
        <5>. HIDE DEF x
        <5>. QED
          BY <1>2, <2>3, <5>1, ChildIs
      <4>. HIDE DEF x
      <4>2. CASE i = n
        BY <2>6, <4>1, <4>2 DEF x
      <4>3. CASE i # n
        <5>1. i \in 1 .. n - 1 /\ i \in Calls /\ n \in Calls /\ i < n /\ i + 1 \in Calls \ {1}
              /\ i + 1 - 1 = i
          BY <2>4, <2>7, <2>11, <3>2, <4>3
        <5>2. InPlace(i + 1)
          BY <5>1 DEF CallsInv
        <5>3. stack[i].next > 1
          BY <5>1, <5>2 DEF InPlace
        <5>4. Passing(i) \in Seq(Nat)
          BY <5>1, <5>3, PassingIs
        <5>5. IsPrefix(Passing(i), Id)
          BY <2>3, <2>4, <5>1 DEF CallsInv
        <5>6. IsPrefix(Passing(i), x)
          BY <2>3, <4>1, <5>4, <5>5, PrefixTransitive
        <5>. QED
          BY <2>6, <5>1, <5>6 DEF x
      <4>. QED
        BY <4>2, <4>3
    <3>3. j \in 1 .. n \/ j = n + 1
      BY <2>4, <2>7
    <3>. QED
      BY <3>1, <3>2, <3>3
  <2>. QED
    BY <1>2, <2>6, <2>10, <2>11 DEF CallsInv
<1>6. CASE ChooseAlternative \/ Attach
  <2>1. MorePart
    BY <1>6 DEF ChooseAlternative, Attach, Leaf
  <2>. QED
    BY <1>4, <1>6, <2>1, ChooseAlternativeStack
<1>7. CASE ShowInline
  <2>1. MorePart
    BY <1>7 DEF ShowInline, Leaf
  <2>. QED
    BY <1>4, <1>7, <2>1, ShowInlineStack
<1>8. CASE Return
  <2>1. Running
    BY <1>8 DEF Return
  <2>2. n \in Nat \ {0} /\ Calls = 1 .. n /\ stack # <<>>
    BY <1>3, <2>1, StackIs DEF Running
  <2>3. /\ stack' \in Seq(Frame) /\ Len(stack') = n - 1
        /\ \A i \in 1 .. n - 1 : stack'[i] = stack[i]
    BY <1>3, <1>8, ReturnStack
  <2>4. Calls' = 1 .. n - 1
    BY <2>3, LenProperties DEF Calls
  <2>. DEFINE m == n - 1
  <2>5. m \in Nat /\ \A i \in 1 .. m : stack'[i] = stack[i]
    BY <2>2, <2>3
  <2>. HIDE DEF m
  <2>6. /\ \A i \in 1 .. m : Passing(i)' = Passing(i)
        /\ \A i \in 2 .. m : InPlace(i)' <=> InPlace(i)
    BY <1>1, <2>5, CallsBelow
  <2>7. Calls' = 1 .. m /\ \A i \in 1 .. m : i \in Calls /\ (i # 1 => i \in 2 .. m)
    BY <2>2, <2>4, <2>5 DEF m
  <2>8. \A i \in Calls' \ {1} : InPlace(i)'
    BY <2>6, <2>7 DEF CallsInv
  <2>9. \A i, j \in Calls' : i < j =>
          \A k \in DOMAIN stack'[j].parts : IsPrefix(Passing(i)', stack'[j].parts[k])
    BY <2>5, <2>6, <2>7 DEF CallsInv
  <2>10. First
    <3>. SUFFICES ASSUME stack' # <<>>
         PROVE  /\ stack'[1].parts = <<Root>>'
                /\ stack'[1].type = "mixed"
                /\ ~stack'[1].inAlternative
      BY Zenon
    <3>1. 1 \in 1 .. m
      <4>1. Len(stack') \in Nat \ {0}
        BY <2>3, EmptySeq
      <4>. QED
        BY <2>3, <4>1 DEF m
    <3>. QED
      BY <1>2, <2>2, <2>5, <3>1 DEF CallsInv
  <2>. QED
    BY <2>8, <2>9, <2>10 DEF CallsInv
<1>. QED
  BY <1>5, <1>6, <1>7, <1>8 DEF Next

-----------------------------------------------------------------------------
(* The order of the lists.                                                 *)

\* The parts of a call are in order.
LEMMA PartsInOrder ==
  ASSUME TypeInv, CallsInv, NEW i \in Calls,
         NEW k \in DOMAIN stack[i].parts, NEW l \in DOMAIN stack[i].parts, k < l
  PROVE  Before(stack[i].parts[k], stack[i].parts[l])
<1>1. /\ DOMAIN stack[i].parts = 1 .. Len(stack[i].parts) /\ Len(stack[i].parts) \in Nat
      /\ stack \in Seq(Frame) /\ TreeInv
  BY CallIs DEF TypeInv
<1>2. Calls = 1 .. Len(stack) /\ Len(stack) \in Nat
  BY <1>1, LenProperties DEF Calls
<1>3. CASE i = 1
  <2>1. stack # <<>>
    BY <1>2, EmptySeq
  <2>2. stack[i].parts = <<Root>>
    BY <1>3, <2>1 DEF CallsInv
  <2>3. k = 1 /\ l = 1
    BY <2>2
  <2>. QED
    BY <2>3
<1>4. CASE i # 1
  <2>. DEFINE p == Passing(i - 1)
  <2>1. i - 1 \in Calls
    BY <1>2, <1>4
  <2>2. stack[i - 1].next > 1 /\ stack[i].parts = Children(p)
    BY <1>4 DEF CallsInv, InPlace
  <2>3. p \in Ids
    BY <2>1, <2>2, PassingIs
  <2>. HIDE DEF p
  <2>. DEFINE a == Children(p)[k]
              b == Children(p)[l]
  <2>4. k \in DOMAIN Children(p) /\ l \in DOMAIN Children(p)
    BY <2>2
  <2>5. /\ a \in Seq(Nat) /\ a # <<>> /\ Len(a) = Len(p) + 1 /\ Parent(a) = p
        /\ b \in Seq(Nat) /\ b # <<>> /\ Len(b) = Len(p) + 1 /\ Parent(b) = p
        /\ Len(p) \in Nat
    BY <1>1, <2>3, <2>4, ChildIs
  <2>6. a[Len(p) + 1] < b[Len(p) + 1]
    BY <1>1, <2>3, <2>4 DEF TreeInv
  <2>. HIDE DEF a, b
  <2>7. \A j \in 1 .. Len(a) - 1 : a[j] = b[j]
    <3>1. \A j \in 1 .. Len(a) - 1 : p[j] = a[j]
      BY <2>5, ParentIs
    <3>2. \A j \in 1 .. Len(b) - 1 : p[j] = b[j]
      BY <2>5, ParentIs
    <3>. QED
      BY <2>5, <3>1, <3>2
  <2>8. Len(a) <= Len(b)
    BY <2>5
  <2>9. Before(a, b) <=> a[Len(a)] < b[Len(a)]
    BY <2>5, <2>7, <2>8, SiblingsBefore
  <2>10. Before(a, b)
    BY <2>5, <2>6, <2>9
  <2>. QED
    BY <2>2, <2>10 DEF a, b
<1>. QED
  BY <1>3, <1>4

\* What is below a call is under what the calls beneath it pass.
LEMMA PassingBelow ==
  ASSUME TypeInv, CallsInv, NEW i \in Calls, i + 1 \in Calls
  PROVE  /\ stack[i].next > 1 /\ Passing(i) \in Ids /\ Passing(i) \in Seq(Nat)
         /\ stack[i].next - 1 \in DOMAIN stack[i].parts
         /\ tree[Passing(i)].multipart
         /\ Passing(i) = stack[i].parts[stack[i].next - 1]
<1>1. i \in Nat /\ i + 1 # 1 /\ i + 1 - 1 = i
  <2>1. stack \in Seq(Frame)
    BY DEF TypeInv
  <2>2. i \in 1 .. Len(stack)
    BY <2>1, LenProperties DEF Calls
  <2>. QED
    BY <2>1, <2>2
<1>2. InPlace(i + 1)
  BY <1>1 DEF CallsInv
<1>3. stack[i].next > 1 /\ tree[Passing(i)].multipart
  BY <1>1, <1>2 DEF InPlace
<1>. QED
  BY <1>3, PassingIs DEF Passing

\* What was before the rest still is.
LEMMA RestShrinks ==
  ASSUME TypeInv, CallsInv, Next, NEW x \in Ids, BeforeRest(x)
  PROVE  BeforeRest(x)'
<1>1. x \in Seq(Nat) /\ TreeInv
  BY DEF TypeInv, TreeInv
<1>2. PICK n : n = Len(stack)
  OBVIOUS
<1>. DEFINE Fine(i) == \A k \in stack'[i].next .. Len(stack'[i].parts) :
                         Before(x, stack'[i].parts[k])
<1>3. stack' \in Seq(Frame)
  BY TypesKept DEF TypeInv, Frame, Types, Ids
<1>4. Calls' = 1 .. Len(stack')
  BY <1>3, LenProperties DEF Calls
<1>5. ASSUME NEW i \in Calls, stack'[i] = stack[i]  PROVE Fine(i)
  BY <1>5 DEF BeforeRest
<1>6. ASSUME TopPasses, n \in Nat \ {0}, Calls = 1 .. n, NEW i \in 1 .. n  PROVE Fine(i)
  <2>1. CASE i = n
    <3>1. stack'[n].parts = stack[n].parts /\ stack'[n].next = stack[n].next + 1
      BY <1>2, <1>6 DEF TopPasses
    <3>2. n \in Calls
      BY <1>6
    <3>3. stack[n].next \in Nat /\ Len(stack[n].parts) \in Nat
      BY <3>2, CallIs
    <3>4. \A k \in stack[n].next + 1 .. Len(stack[n].parts) :
            k \in stack[n].next .. Len(stack[n].parts)
      BY <3>3
    <3>. QED
      BY <2>1, <3>1, <3>2, <3>4 DEF BeforeRest
  <2>2. CASE i # n
    <3>1. i \in 1 .. n - 1 /\ i \in Calls
      BY <1>6, <2>2
    <3>2. stack'[i] = stack[i]
      BY <1>2, <1>6, <3>1 DEF TopPasses
    <3>. QED
      BY <1>5, <3>1, <3>2
  <2>. QED
    BY <2>1, <2>2
<1>7. CASE Descend
  <2>1. MorePart
    BY <1>7 DEF Descend
  <2>2. /\ TopPasses /\ Len(stack') = n + 1
        /\ stack'[n + 1].parts = Children(Id) /\ stack'[n + 1].next = 1
    BY <1>2, <1>7, DescendStack
  <2>3. n \in Nat \ {0} /\ Calls = 1 .. n /\ Top = stack[n]
    BY <1>2, <2>1, StackIs, MorePartIs
  <2>4. /\ Id \in Ids /\ Id = Top.parts[Top.next] /\ Id \in Seq(Nat)
        /\ Top.next \in DOMAIN Top.parts /\ Top.next \in Nat
        /\ DOMAIN Top.parts = 1 .. Len(Top.parts) /\ Len(Top.parts) \in Nat
    BY <2>1, MorePartIs
  <2>5. Before(x, Id)
    <3>1. n \in Calls /\ stack[n].next \in stack[n].next .. Len(stack[n].parts)
      BY <2>3, <2>4
    <3>. QED
      BY <2>3, <2>4, <3>1 DEF BeforeRest
  <2>6. Fine(n + 1)
    <3>1. ASSUME NEW k \in 1 .. Len(Children(Id))  PROVE Before(x, Children(Id)[k])
      <4>1. Children(Id) \in Seq(Ids)
        BY <1>1, <2>4 DEF TreeInv
      <4>2. k \in DOMAIN Children(Id)
        BY <4>1
      <4>3. Children(Id)[k] \in Seq(Nat) /\ IsPrefix(Id, Children(Id)[k])
        BY <1>1, <2>4, <4>2, ChildIs
      <4>. QED
        BY <1>1, <2>4, <2>5, <4>3, BeforeInside
    <3>. QED
      BY <2>2, <3>1
  <2>7. \A i \in Calls' : i \in 1 .. n \/ i = n + 1
    BY <1>4, <2>2, <2>3
  <2>8. \A i \in Calls' : Fine(i)
    BY <1>6, <2>2, <2>3, <2>6, <2>7
  <2>. QED
    BY <2>8 DEF BeforeRest
<1>8. CASE ChooseAlternative \/ Attach \/ ShowInline
  <2>1. MorePart /\ TopPasses /\ Len(stack') = n
    BY <1>2, <1>8, ChooseAlternativeStack, ShowInlineStack DEF ChooseAlternative, Attach, ShowInline, Leaf
  <2>2. n \in Nat \ {0} /\ Calls = 1 .. n
    BY <1>2, <2>1, StackIs, MorePartIs
  <2>3. \A i \in Calls' : Fine(i)
    BY <1>4, <1>6, <2>1, <2>2
  <2>. QED
    BY <2>3 DEF BeforeRest
<1>9. CASE Return
  <2>1. Len(stack') = n - 1 /\ \A i \in 1 .. n - 1 : stack'[i] = stack[i]
    BY <1>2, <1>9, ReturnStack
  <2>2. n \in Nat \ {0} /\ Calls = 1 .. n
    BY <1>2, <1>9, StackIs DEF Return
  <2>3. \A i \in Calls' : i \in Calls /\ stack'[i] = stack[i]
    BY <1>4, <2>1, <2>2
  <2>4. \A i \in Calls' : Fine(i)
    BY <1>5, <2>3
  <2>. QED
    BY <2>4 DEF BeforeRest
<1>. QED
  BY <1>7, <1>8, <1>9 DEF Next

\* The part that is passed stands before the rest.
LEMMA PassedIsBefore ==
  ASSUME TypeInv, CallsInv, MorePart, TopPasses, Len(stack') = Len(stack),
         NEW id, id = Id
  PROVE  BeforeRest(id)'
<1>1. PICK n : n = Len(stack)
  OBVIOUS
<1>2. n \in Nat \ {0} /\ Calls = 1 .. n /\ Top = stack[n]
  BY <1>1, StackIs, MorePartIs
<1>3. /\ id \in Seq(Nat) /\ id = stack[n].parts[stack[n].next]
      /\ stack[n].next \in DOMAIN stack[n].parts /\ stack[n].next \in Nat
      /\ DOMAIN stack[n].parts = 1 .. Len(stack[n].parts) /\ Len(stack[n].parts) \in Nat
  BY <1>2, MorePartIs
<1>4. stack' \in Seq(Frame)
  BY DEF TopPasses
<1>5. Calls' = 1 .. n
  BY <1>1, <1>4, LenProperties DEF Calls
<1>6. ASSUME NEW i \in 1 .. n, NEW k \in stack'[i].next .. Len(stack'[i].parts)
      PROVE  Before(id, stack'[i].parts[k])
  <2>1. CASE i = n
    <3>1. stack'[n].parts = stack[n].parts /\ stack'[n].next = stack[n].next + 1
      BY <1>1 DEF TopPasses
    <3>2. k \in DOMAIN stack[n].parts /\ stack[n].next < k
      BY <1>3, <1>6, <2>1, <3>1
    <3>3. Before(stack[n].parts[stack[n].next], stack[n].parts[k])
      BY <1>2, <1>3, <3>2, PartsInOrder
    <3>. QED
      BY <1>3, <2>1, <3>1, <3>3
  <2>2. CASE i # n
    <3>1. i \in 1 .. n - 1 /\ i \in Calls /\ i + 1 \in Calls /\ n \in Calls /\ i < n
      BY <1>2, <2>2
    <3>2. stack'[i] = stack[i]
      BY <1>1, <3>1 DEF TopPasses
    <3>3. /\ Passing(i) \in Seq(Nat) /\ stack[i].next - 1 \in DOMAIN stack[i].parts
          /\ Passing(i) = stack[i].parts[stack[i].next - 1]
      BY <3>1, PassingBelow
    <3>4. /\ DOMAIN stack[i].parts = 1 .. Len(stack[i].parts) /\ stack[i].next \in Nat
          /\ Len(stack[i].parts) \in Nat
          /\ \A l \in DOMAIN stack[i].parts : stack[i].parts[l] \in Seq(Nat)
      BY <3>1, CallIs
    <3>5. k \in DOMAIN stack[i].parts /\ stack[i].next - 1 < k
      BY <1>6, <3>2, <3>3, <3>4
    <3>6. Before(Passing(i), stack[i].parts[k])
      BY <3>1, <3>3, <3>5, PartsInOrder
    <3>7. IsPrefix(Passing(i), id)
      BY <1>3, <3>1 DEF CallsInv
    <3>. QED
      BY <1>3, <3>2, <3>3, <3>4, <3>5, <3>6, <3>7, InsideBefore
  <2>. QED
    BY <2>1, <2>2
<1>. QED
  BY <1>5, <1>6 DEF BeforeRest

\* A list is in order after a push if it ends before what is pushed.
LEMMA SortedPush ==
  ASSUME NEW S, NEW list \in Seq(S), NEW id \in S, NEW new \in Seq(S),
         Sorted(list), \A x \in DOMAIN list : Before(list[x], id),
         Len(new) = Len(list) + 1, \A x \in 1 .. Len(list) : new[x] = list[x],
         new[Len(list) + 1] = id
  PROVE  Sorted(new)
<1>. DEFINE l == Len(list)
<1>1. l \in Nat /\ DOMAIN list = 1 .. l /\ DOMAIN new = 1 .. l + 1
  OBVIOUS
<1>. HIDE DEF l
<1>2. ASSUME NEW i \in DOMAIN new, NEW j \in DOMAIN new, i < j  PROVE Before(new[i], new[j])
  <2>1. i \in 1 .. l
    BY <1>1, <1>2
  <2>2. CASE j \in 1 .. l
    BY <1>1, <1>2, <2>1, <2>2 DEF Sorted, l
  <2>3. CASE j = l + 1
    BY <1>1, <2>1, <2>3 DEF l
  <2>. QED
    BY <1>1, <2>2, <2>3
<1>. QED
  BY <1>2 DEF Sorted

\* So it is when another list is put after it.
LEMMA SortedConcat ==
  ASSUME NEW S, NEW s \in Seq(S), NEW t \in Seq(S), Sorted(s), Sorted(t),
         \A x \in DOMAIN s : \A y \in DOMAIN t : Before(s[x], t[y])
  PROVE  Sorted(s \o t)
<1>. DEFINE m == Len(s)
            n == Len(t)
            u == s \o t
<1>1. m \in Nat /\ n \in Nat /\ DOMAIN s = 1 .. m /\ DOMAIN t = 1 .. n
  OBVIOUS
<1>2. /\ u \in Seq(S) /\ Len(u) = m + n
      /\ \A i \in 1 .. m + n : u[i] = IF i <= m THEN s[i] ELSE t[i - m]
  BY ConcatProperties
<1>. HIDE DEF m, n, u
<1>3. DOMAIN u = 1 .. m + n
  BY <1>2, LenProperties
<1>4. ASSUME NEW i \in 1 .. m + n, NEW j \in 1 .. m + n, i < j  PROVE Before(u[i], u[j])
  <2>1. CASE j <= m
    <3>1. i \in DOMAIN s /\ j \in DOMAIN s /\ i <= m
      BY <1>1, <1>4, <2>1
    <3>. QED
      BY <1>2, <1>4, <2>1, <3>1 DEF Sorted
  <2>2. CASE i <= m /\ ~(j <= m)
    <3>1. i \in DOMAIN s /\ j - m \in DOMAIN t
      BY <1>1, <2>2
    <3>. QED
      BY <1>2, <2>2, <3>1
  <2>3. CASE ~(i <= m)
    <3>1. i - m \in DOMAIN t /\ j - m \in DOMAIN t /\ i - m < j - m /\ ~(j <= m)
      BY <1>1, <1>4, <2>3
    <3>. QED
      BY <1>2, <2>3, <3>1 DEF Sorted
  <2>. QED
    BY <1>1, <2>1, <2>2, <2>3
<1>. QED
  BY <1>3, <1>4 DEF Sorted, u

\* The calls go on; what they had passed they have passed.
LEMMA SplitGoesOn ==
  ASSUME NEW S, NEW list \in Seq(S), NEW e \in Nat, NEW i,
         SplitAt(list, e, i), stack'[i].parts = stack[i].parts,
         stack[i].next \in Nat, stack'[i].next \in Nat, stack[i].next <= stack'[i].next
  PROVE  SplitAt(list, e, i)'
<1>1. \A k \in 1 .. stack[i].next - 1 : k \in 1 .. stack'[i].next - 1
  OBVIOUS
<1>2. ASSUME NEW x \in e + 1 .. Len(list)
      PROVE  \E k \in 1 .. stack'[i].next - 1 : IsPrefix(stack'[i].parts[k], list[x])
  <2>1. PICK k \in 1 .. stack[i].next - 1 : IsPrefix(stack[i].parts[k], list[x])
    BY DEF SplitAt
  <2>. QED
    BY <1>1, <2>1
<1>. QED
  BY <1>2 DEF SplitAt

\* What is added to a list below a part that was passed.
LEMMA SplitAdds ==
  ASSUME NEW S, NEW list \in Seq(S), NEW new \in Seq(S), NEW e \in Nat, NEW i,
         SplitAt(list, e, i)', Len(list) <= Len(new),
         \A x \in 1 .. Len(list) : new[x] = list[x],
         \A x \in Len(list) + 1 .. Len(new) : \E k \in 1 .. stack'[i].next - 1 :
           IsPrefix(stack'[i].parts[k], new[x])
  PROVE  SplitAt(new, e, i)'
<1>. DEFINE l == Len(list)
            m == Len(new)
<1>1. l \in Nat /\ m \in Nat /\ e <= l /\ l <= m
  BY DEF SplitAt
<1>2. ASSUME NEW x \in 1 .. e, NEW k \in DOMAIN stack'[i].parts
      PROVE  Before(new[x], stack'[i].parts[k])
  <2>1. x \in 1 .. l
    BY <1>1
  <2>. QED
    BY <2>1 DEF SplitAt
<1>3. ASSUME NEW x \in e + 1 .. m
      PROVE  \E k \in 1 .. stack'[i].next - 1 : IsPrefix(stack'[i].parts[k], new[x])
  <2>1. CASE x <= l
    <3>1. x \in e + 1 .. l /\ x \in 1 .. l
      BY <1>1, <2>1
    <3>2. new[x] = list[x]
      BY <3>1
    <3>. QED
      BY <3>1, <3>2 DEF SplitAt
  <2>2. CASE ~(x <= l)
    <3>1. x \in l + 1 .. m
      BY <1>1, <2>2
    <3>. QED
      BY <3>1
  <2>. QED
    BY <2>1, <2>2
<1>4. e <= m
  BY <1>1
<1>. QED
  BY <1>2, <1>3, <1>4 DEF SplitAt

\* A list when the part on top is passed: it stays or gets the part.
LEMMA ListStep ==
  ASSUME TypeInv, CallsInv, Next, MorePart, TopPasses, Len(stack') = Len(stack),
         NEW list \in Seq(Ids), Sorted(list), AllBefore(list),
         NEW on \in BOOLEAN, NEW new, new = PushIf(on, list)
  PROVE  /\ Sorted(new) /\ AllBefore(new)'
         /\ \A e \in Nat, i \in Calls : SplitAt(list, e, i) => SplitAt(new, e, i)'
<1>1. PICK n, id : n = Len(stack) /\ id = Id
  OBVIOUS
<1>2. n \in Nat \ {0} /\ Calls = 1 .. n /\ Top = stack[n]
  BY <1>1, StackIs, MorePartIs
<1>3. /\ id \in Ids /\ id \in Seq(Nat) /\ id = stack[n].parts[stack[n].next]
      /\ stack[n].next \in DOMAIN stack[n].parts /\ stack[n].next \in Nat \ {0}
      /\ DOMAIN stack[n].parts = 1 .. Len(stack[n].parts)
  BY <1>1, <1>2, MorePartIs
<1>4. /\ new \in Seq(Ids)
      /\ on => /\ Len(new) = Len(list) + 1
               /\ \A x \in 1 .. Len(list) : new[x] = list[x]
               /\ new[Len(list) + 1] = id
      /\ ~on => new = list
  <2>1. Id \in Ids
    BY <1>1, <1>3
  <2>. QED
    BY <1>1, <2>1, PushIfIs
<1>5. Len(list) \in Nat /\ DOMAIN list = 1 .. Len(list)
  OBVIOUS
<1>6. \A x \in DOMAIN list : list[x] \in Ids /\ BeforeRest(list[x])
  BY <1>5 DEF AllBefore
<1>7. Sorted(new)
  <2>1. \A x \in DOMAIN list : Before(list[x], id)
    <3>1. n \in Calls /\ stack[n].next \in stack[n].next .. Len(stack[n].parts)
      BY <1>2, <1>3
    <3>. QED
      BY <1>3, <1>6, <3>1 DEF BeforeRest
  <2>2. CASE on
    <3>1. /\ Len(new) = Len(list) + 1 /\ \A x \in 1 .. Len(list) : new[x] = list[x]
          /\ new[Len(list) + 1] = id
      BY <1>4, <2>2, Zenon
    <3>2. new \in Seq(Ids)
      BY <1>4
    <3>. QED
      BY <1>3, <2>1, <3>1, <3>2, SortedPush
  <2>3. CASE ~on
    BY <1>4, <2>3
  <2>. QED
    BY <2>2, <2>3
<1>8. AllBefore(new)'
  <2>1. \A x \in DOMAIN list : BeforeRest(list[x])'
    <3>1. ASSUME NEW y \in Ids, BeforeRest(y)  PROVE BeforeRest(y)'
      BY <3>1, RestShrinks
    <3>. QED
      BY <1>6, <3>1
  <2>2. BeforeRest(id)'
    BY <1>1, PassedIsBefore
  <2>3. \A x \in DOMAIN new : (x \in DOMAIN list /\ new[x] = list[x]) \/ new[x] = id
    <3>1. CASE on
      <4>0. /\ Len(new) = Len(list) + 1 /\ \A x \in 1 .. Len(list) : new[x] = list[x]
            /\ new[Len(list) + 1] = id
        BY <1>4, <3>1, Zenon
      <4>1. DOMAIN new = 1 .. Len(list) + 1
        BY <1>4, <4>0, LenProperties
      <4>. QED
        BY <1>5, <4>0, <4>1
    <3>2. CASE ~on
      BY <1>4, <3>2
    <3>. QED
      BY <3>1, <3>2
  <2>4. \A x \in DOMAIN new : BeforeRest(new[x])'
    BY <2>1, <2>2, <2>3
  <2>. QED
    BY <2>4 DEF AllBefore
<1>9. ASSUME NEW e \in Nat, NEW i \in Calls, SplitAt(list, e, i)  PROVE SplitAt(new, e, i)'
  <2>1. /\ stack'[i].parts = stack[i].parts /\ stack[i].next \in Nat
        /\ stack'[i].next = IF i = n THEN stack[i].next + 1 ELSE stack[i].next
    <3>1. CASE i = n
      BY <1>1, <1>3, <3>1 DEF TopPasses
    <3>2. CASE i # n
      <4>1. i \in 1 .. n - 1
        BY <1>2, <3>2
      <4>. QED
        BY <1>1, <3>2, <4>1, CallIs DEF TopPasses
    <3>. QED
      BY <3>1, <3>2
  <2>2. stack'[i].next \in Nat /\ stack[i].next <= stack'[i].next
    BY <2>1
  <2>3. SplitAt(list, e, i)'
    BY <1>9, <2>1, <2>2, SplitGoesOn
  <2>4. \E k \in 1 .. stack'[i].next - 1 : IsPrefix(stack'[i].parts[k], id)
    <3>1. CASE i = n
      <4>1. stack[n].next \in 1 .. stack'[i].next - 1
        BY <1>3, <2>1, <3>1
      <4>2. IsPrefix(id, id)
        BY <1>3, PrefixReflexive
      <4>. QED
        BY <1>3, <2>1, <3>1, <4>1, <4>2
    <3>2. CASE i # n
      <4>1. i \in Calls /\ i + 1 \in Calls /\ n \in Calls /\ i < n
        BY <1>2, <3>2
      <4>2. /\ Passing(i) = stack[i].parts[stack[i].next - 1] /\ stack[i].next > 1
        BY <4>1, PassingBelow
      <4>3. IsPrefix(Passing(i), id)
        BY <1>3, <4>1 DEF CallsInv
      <4>4. stack[i].next - 1 \in 1 .. stack'[i].next - 1
        BY <2>1, <3>2, <4>2
      <4>. QED
        BY <2>1, <4>2, <4>3, <4>4
    <3>. QED
      BY <3>1, <3>2
  <2>5. CASE on
    <3>0. /\ Len(new) = Len(list) + 1 /\ \A x \in 1 .. Len(list) : new[x] = list[x]
          /\ new[Len(list) + 1] = id
      BY <1>4, <2>5, Zenon
    <3>1. /\ Len(list) <= Len(new)
          /\ \A x \in Len(list) + 1 .. Len(new) : new[x] = id
      BY <1>5, <3>0
    <3>2. \A x \in Len(list) + 1 .. Len(new) : \E k \in 1 .. stack'[i].next - 1 :
            IsPrefix(stack'[i].parts[k], new[x])
      BY <2>4, <3>1
    <3>. QED
      BY <1>4, <2>3, <3>0, <3>1, <3>2, SplitAdds
  <2>6. CASE ~on
    BY <1>4, <2>3, <2>6
  <2>. QED
    BY <2>5, <2>6
<1>. QED
  BY <1>7, <1>8, <1>9

\* A list that a step leaves alone.
LEMMA ListStays ==
  ASSUME TypeInv, CallsInv, Next, NEW list \in Seq(Ids), AllBefore(list)
  PROVE  AllBefore(list)'
<1>1. \A x \in DOMAIN list : list[x] \in Ids /\ BeforeRest(list[x])
  BY DEF AllBefore
<1>2. ASSUME NEW y \in Ids, BeforeRest(y)  PROVE BeforeRest(y)'
  BY <1>2, RestShrinks
<1>3. \A x \in DOMAIN list : BeforeRest(list[x])'
  BY <1>1, <1>2
<1>. QED
  BY <1>3 DEF AllBefore

\* A list that gets what the other list got in an alternative.
LEMMA ListMirrored ==
  ASSUME TypeInv, CallsInv, Next, Return, NEW n, n = Len(stack),
         NEW list \in Seq(Ids), NEW other \in Seq(Ids), NEW e \in Nat, NEW d \in Nat,
         Sorted(list), AllBefore(list), Sorted(other), AllBefore(other),
         SplitAt(list, e, n), SplitAt(other, d, n), From(list, e) = <<>>,
         NEW new, new = list \o From(other, d)
  PROVE  /\ Sorted(new) /\ AllBefore(new)'
         /\ \A f \in Nat, i \in Calls' : SplitAt(list, f, i) => SplitAt(new, f, i)'
<1>. DEFINE t == From(other, d)
            l == Len(list)
            m == Len(t)
<1>1. n \in Nat \ {0} /\ Calls = 1 .. n
  BY StackIs DEF Return
<1>2. /\ stack' \in Seq(Frame) /\ Len(stack') = n - 1 /\ \A i \in 1 .. n - 1 : stack'[i] = stack[i]
  BY ReturnStack
<1>3. Calls' = 1 .. n - 1
  BY <1>2, LenProperties DEF Calls
<1>4. l \in Nat /\ m \in Nat /\ t \in Seq(Ids) /\ DOMAIN list = 1 .. l /\ DOMAIN t = 1 .. m
  <2>1. t \in Seq(Ids)
    BY FromIs
  <2>. HIDE DEF t
  <2>. QED
    BY <2>1
<1>5. \A y \in 1 .. m : t[y] = other[d + y] /\ d + y \in 1 .. Len(other)
  BY FromIs
<1>6. l = e
  <2>1. e <= l /\ (e <= l => Len(From(list, e)) = l - e) /\ Len(<<>>) = 0
    BY FromIs DEF SplitAt
  <2>. HIDE DEF l
  <2>. QED
    BY <1>4, <2>1
<1>7. /\ new \in Seq(Ids) /\ Len(new) = l + m
      /\ \A i \in 1 .. l + m : new[i] = IF i <= l THEN list[i] ELSE t[i - l]
  BY <1>4, ConcatProperties
<1>8. \A y \in 1 .. m : \E k \in 1 .. stack[n].next - 1 : IsPrefix(stack[n].parts[k], t[y])
  <2>1. d <= Len(other) /\ \A x \in d + 1 .. Len(other) : \E k \in 1 .. stack[n].next - 1 :
          IsPrefix(stack[n].parts[k], other[x])
    BY DEF SplitAt
  <2>2. \A y \in 1 .. m : d + y \in d + 1 .. Len(other)
    BY <1>4, <1>5
  <2>. QED
    BY <1>5, <2>1, <2>2
<1>9. n \in Calls
  BY <1>1
<1>10. /\ DOMAIN stack[n].parts = 1 .. Len(stack[n].parts) /\ Len(stack[n].parts) \in Nat
       /\ stack[n].next \in Nat \ {0} /\ stack[n].next <= Len(stack[n].parts) + 1
       /\ \A k \in DOMAIN stack[n].parts : stack[n].parts[k] \in Seq(Nat)
  BY <1>9, CallIs DEF TypeInv
<1>11. \A k \in 1 .. stack[n].next - 1 : k \in DOMAIN stack[n].parts
  BY <1>10
<1>12. \A x \in 1 .. l : list[x] \in Seq(Nat)
  BY <1>4 DEF TypeInv, TreeInv
<1>13. \A y \in 1 .. m : t[y] \in Seq(Nat) /\ t[y] \in Ids
  <2>1. \A y \in 1 .. m : t[y] \in Ids
    BY <1>4
  <2>. QED
    BY <2>1 DEF TypeInv, TreeInv
<1>. HIDE DEF t, l, m
<1>14. ASSUME NEW x \in 1 .. l, NEW y \in 1 .. m  PROVE Before(list[x], t[y])
  <2>1. PICK k \in 1 .. stack[n].next - 1 : IsPrefix(stack[n].parts[k], t[y])
    BY <1>8
  <2>2. k \in DOMAIN stack[n].parts /\ x \in 1 .. e
    BY <1>6, <1>11
  <2>3. Before(list[x], stack[n].parts[k])
    BY <2>2 DEF SplitAt
  <2>. QED
    BY <1>10, <1>12, <1>13, <2>1, <2>2, <2>3, BeforeInside
<1>15. Sorted(t)
  <2>1. \A i, j \in 1 .. m : i < j => d + i < d + j
    BY <1>4
  <2>2. \A i, j \in 1 .. m : i < j => Before(t[i], t[j])
    <3>1. \A i \in 1 .. m : d + i \in DOMAIN other
      BY <1>5
    <3>. QED
      BY <1>5, <2>1, <3>1 DEF Sorted
  <2>. QED
    BY <1>4, <2>2 DEF Sorted
<1>16. Sorted(new)
  BY <1>4, <1>14, <1>15, SortedConcat DEF t
<1>17. AllBefore(new)'
  <2>1. AllBefore(list)' /\ AllBefore(other)'
    BY ListStays
  <2>2. DOMAIN new = 1 .. l + m
    BY <1>7, LenProperties
  <2>3. ASSUME NEW x \in 1 .. l + m  PROVE BeforeRest(new[x])'
    <3>1. CASE x <= l
      <4>1. x \in DOMAIN list /\ new[x] = list[x]
        BY <1>4, <1>7, <3>1
      <4>. QED
        BY <2>1, <4>1 DEF AllBefore
    <3>2. CASE ~(x <= l)
      <4>1. x - l \in 1 .. m /\ new[x] = t[x - l]
        BY <1>4, <1>7, <3>2
      <4>2. d + (x - l) \in DOMAIN other /\ new[x] = other[d + (x - l)]
        BY <1>5, <4>1
      <4>. QED
        BY <2>1, <4>2 DEF AllBefore
    <3>. QED
      BY <3>1, <3>2
  <2>4. \A x \in DOMAIN new : BeforeRest(new[x])'
    BY <2>2, <2>3
  <2>. QED
    BY <2>4 DEF AllBefore
<1>18. ASSUME NEW f \in Nat, NEW i \in Calls', SplitAt(list, f, i)  PROVE SplitAt(new, f, i)'
  <2>1. i \in 1 .. n - 1 /\ i \in Calls /\ i + 1 \in Calls /\ i < n /\ stack'[i] = stack[i]
    BY <1>1, <1>2, <1>3
  <2>2. stack[i].next \in Nat
    BY <2>1, CallIs
  <2>3. SplitAt(list, f, i)'
    <3>1. /\ stack'[i].parts = stack[i].parts /\ stack'[i].next \in Nat
          /\ stack[i].next <= stack'[i].next
      BY <2>1, <2>2
    <3>. QED
      BY <1>18, <2>2, <3>1, SplitGoesOn
  <2>4. /\ Passing(i) = stack[i].parts[stack[i].next - 1] /\ stack[i].next > 1
        /\ Passing(i) \in Seq(Nat)
    BY <2>1, PassingBelow
  <2>5. stack[i].next - 1 \in 1 .. stack'[i].next - 1
    BY <2>1, <2>2, <2>4
  <2>6. ASSUME NEW x \in l + 1 .. l + m
        PROVE  \E k \in 1 .. stack'[i].next - 1 : IsPrefix(stack'[i].parts[k], new[x])
    <3>1. x - l \in 1 .. m /\ x \in 1 .. l + m /\ ~(x <= l)
      BY <1>4
    <3>2. new[x] = t[x - l]
      BY <1>7, <3>1
    <3>3. PICK k \in 1 .. stack[n].next - 1 : IsPrefix(stack[n].parts[k], t[x - l])
      BY <1>8, <3>1
    <3>4. k \in DOMAIN stack[n].parts
      BY <1>11
    <3>5. IsPrefix(Passing(i), stack[n].parts[k])
      BY <1>9, <2>1, <3>4 DEF CallsInv
    <3>6. IsPrefix(Passing(i), t[x - l])
      BY <1>10, <1>13, <2>4, <3>1, <3>3, <3>4, <3>5, PrefixTransitive
    <3>. QED
      BY <2>1, <2>4, <2>5, <3>2, <3>6
  <2>7. /\ Len(list) <= Len(new) /\ \A x \in 1 .. Len(list) : new[x] = list[x]
    <3>1. l <= l + m /\ \A x \in 1 .. l : x \in 1 .. l + m /\ x <= l
      BY <1>4
    <3>. QED
      BY <1>7, <3>1 DEF l
  <2>8. \A x \in Len(list) + 1 .. Len(new) : \E k \in 1 .. stack'[i].next - 1 :
          IsPrefix(stack'[i].parts[k], new[x])
    BY <1>7, <2>6 DEF l
  <2>. QED
    BY <1>7, <2>3, <2>7, <2>8, SplitAdds
<1>. QED
  BY <1>16, <1>17, <1>18

LEMMA OrderKept ==
  ASSUME TypeInv, CallsInv, OrderInv, Next
  PROVE  OrderInv'
<1>1. /\ textBody \in Seq(Ids) /\ htmlBody \in Seq(Ids) /\ attachments \in Seq(Ids)
      /\ stack \in Seq(Frame)
  BY DEF TypeInv
<1>2. PICK n, text, html, files, text1, html1, files1, calls1 :
        /\ n = Len(stack) /\ text = textBody /\ html = htmlBody /\ files = attachments
        /\ text1 = textBody' /\ html1 = htmlBody' /\ files1 = attachments' /\ calls1 = stack'
  BY Zenon
<1>3. text \in Seq(Ids) /\ html \in Seq(Ids) /\ files \in Seq(Ids)
  BY <1>1, <1>2
<1>4. /\ Sorted(text) /\ AllBefore(text) /\ Sorted(html) /\ AllBefore(html)
      /\ Sorted(files) /\ AllBefore(files)
      /\ \A i \in Calls : stack[i].textOn => SplitAt(text, stack[i].textAtEntry, i)
      /\ \A i \in Calls : stack[i].htmlOn => SplitAt(html, stack[i].htmlAtEntry, i)
  BY <1>2, Zenon DEF OrderInv
<1>. DEFINE Ordered ==
              /\ Sorted(text1) /\ AllBefore(text1)' /\ Sorted(html1) /\ AllBefore(html1)'
              /\ Sorted(files1) /\ AllBefore(files1)'
            Split ==
              /\ \A i \in Calls' : stack'[i].textOn => SplitAt(text1, calls1[i].textAtEntry, i)'
              /\ \A i \in Calls' : stack'[i].htmlOn => SplitAt(html1, calls1[i].htmlAtEntry, i)'
<1>5. ASSUME Ordered, Split  PROVE OrderInv'
  <2>1. \A list : Sorted(list)' <=> Sorted(list)
    BY DEF Sorted
  <2>2. Sorted(textBody)' /\ Sorted(htmlBody)' /\ Sorted(attachments)'
    BY <1>2, <1>5 DEF Sorted
  <2>3. AllBefore(textBody)' /\ AllBefore(htmlBody)' /\ AllBefore(attachments)'
    BY <1>2, <1>5 DEF AllBefore
  <2>4. \A i \in Calls' : stack'[i].textOn => SplitAt(textBody, stack[i].textAtEntry, i)'
    BY <1>2, <1>5 DEF SplitAt
  <2>5. \A i \in Calls' : stack'[i].htmlOn => SplitAt(htmlBody, stack[i].htmlAtEntry, i)'
    BY <1>2, <1>5 DEF SplitAt
  <2>. QED
    BY <2>2, <2>3, <2>4, <2>5 DEF OrderInv
<1>6. \A i \in Calls : stack[i].textAtEntry \in Nat /\ stack[i].htmlAtEntry \in Nat /\ stack[i].next \in Nat
  BY CallIs, FrameIs
<1>7. CASE Descend
  <2>1. MorePart /\ text1 = text /\ html1 = html /\ files1 = files
    BY <1>2, <1>7 DEF Descend
  <2>. DEFINE g == stack'[n + 1]
  <2>2. /\ TopPasses /\ Len(stack') = n + 1
        /\ stack'[n].textOn = Top.textOn /\ stack'[n].htmlOn = Top.htmlOn
        /\ g.parts = Children(Id) /\ g.next = 1
        /\ g.textOn = Top.textOn /\ g.htmlOn = Top.htmlOn
        /\ g.textAtEntry = (IF Top.textOn THEN Len(text) ELSE 0)
        /\ g.htmlAtEntry = (IF Top.htmlOn THEN Len(html) ELSE 0)
    BY <1>2, <1>7, DescendStack
  <2>3. n \in Nat \ {0} /\ Calls = 1 .. n /\ Top = stack[n]
    BY <1>2, <2>1, StackIs, MorePartIs
  <2>4. Calls' = 1 .. n + 1
    BY <2>2, LenProperties DEF TopPasses, Calls
  <2>5. Ordered
    BY <1>3, <1>4, <2>1, ListStays
  <2>6. ASSUME NEW i \in 1 .. n
        PROVE  /\ stack'[i].parts = stack[i].parts /\ stack'[i].next \in Nat
               /\ stack[i].next <= stack'[i].next
               /\ stack'[i].textOn = stack[i].textOn /\ stack'[i].htmlOn = stack[i].htmlOn
               /\ stack'[i].textAtEntry = stack[i].textAtEntry
               /\ stack'[i].htmlAtEntry = stack[i].htmlAtEntry
    <3>1. CASE i = n
      BY <1>2, <1>6, <2>2, <2>3, <3>1 DEF TopPasses
    <3>2. CASE i # n
      <4>1. i \in 1 .. n - 1 /\ i \in Calls
        BY <2>3, <3>2
      <4>2. stack'[i] = stack[i]
        BY <1>2, <2>2, <4>1 DEF TopPasses
      <4>. QED
        BY <1>6, <4>1, <4>2
    <3>. QED
      BY <3>1, <3>2
  <2>7. ASSUME NEW list \in Seq(Ids), AllBefore(list)
        PROVE  SplitAt(list, Len(list), n + 1)'
    <3>1. Id \in Ids /\ Id \in Seq(Nat) /\ Id = stack[n].parts[stack[n].next] /\ TreeInv
          /\ stack[n].next \in stack[n].next .. Len(stack[n].parts) /\ n \in Calls
      BY <2>1, <2>3, MorePartIs DEF TypeInv
    <3>2. Len(list) \in Nat /\ \A x \in 1 .. Len(list) : x \in DOMAIN list
      BY <2>7
    <3>3. ASSUME NEW x \in 1 .. Len(list), NEW k \in DOMAIN Children(Id)
          PROVE  Before(list[x], Children(Id)[k])
      <4>1. Before(list[x], Id)
        BY <2>7, <3>1, <3>2 DEF AllBefore, BeforeRest
      <4>2. Children(Id)[k] \in Seq(Nat) /\ IsPrefix(Id, Children(Id)[k])
        BY <3>1, ChildIs
      <4>3. list[x] \in Seq(Nat)
        BY <2>7, <3>1, <3>2 DEF TreeInv
      <4>. QED
        BY <3>1, <4>1, <4>2, <4>3, BeforeInside
    <3>4. \A x \in Len(list) + 1 .. Len(list) : FALSE
      BY <3>2
    <3>5. \A x \in 1 .. Len(list) : \A k \in DOMAIN stack'[n + 1].parts :
            Before(list[x], stack'[n + 1].parts[k])
      BY <2>2, <3>3
    <3>. QED
      BY <3>2, <3>4, <3>5 DEF SplitAt
  <2>8. \A i \in Calls' : i \in 1 .. n \/ i = n + 1
    BY <2>3, <2>4
  <2>9. ASSUME NEW i \in Calls', stack'[i].textOn
        PROVE  SplitAt(text1, calls1[i].textAtEntry, i)'
    <3>1. CASE i \in 1 .. n
      <4>1. stack[i].textOn /\ i \in Calls
        BY <2>3, <2>6, <2>9, <3>1
      <4>2. PICK e : e = stack[i].textAtEntry
        OBVIOUS
      <4>3. SplitAt(text, e, i) /\ e \in Nat /\ stack[i].next \in Nat
        BY <1>4, <1>6, <4>1, <4>2
      <4>4. SplitAt(text, e, i)'
        BY <1>3, <2>6, <3>1, <4>3, SplitGoesOn
      <4>. QED
        BY <1>2, <2>1, <2>6, <3>1, <4>2, <4>4
    <3>2. CASE i = n + 1
      <4>1. stack'[i].textAtEntry = Len(text)
        BY <2>2, <2>9, <3>2
      <4>. QED
        BY <1>2, <1>3, <1>4, <2>1, <2>7, <3>2, <4>1
    <3>. QED
      BY <2>8, <3>1, <3>2
  <2>10. ASSUME NEW i \in Calls', stack'[i].htmlOn
         PROVE  SplitAt(html1, calls1[i].htmlAtEntry, i)'
    <3>1. CASE i \in 1 .. n
      <4>1. stack[i].htmlOn /\ i \in Calls
        BY <2>3, <2>6, <2>10, <3>1
      <4>2. PICK e : e = stack[i].htmlAtEntry
        OBVIOUS
      <4>3. SplitAt(html, e, i) /\ e \in Nat /\ stack[i].next \in Nat
        BY <1>4, <1>6, <4>1, <4>2
      <4>4. SplitAt(html, e, i)'
        BY <1>3, <2>6, <3>1, <4>3, SplitGoesOn
      <4>. QED
        BY <1>2, <2>1, <2>6, <3>1, <4>2, <4>4
    <3>2. CASE i = n + 1
      <4>1. stack'[i].htmlAtEntry = Len(html)
        BY <2>2, <2>10, <3>2
      <4>. QED
        BY <1>2, <1>3, <1>4, <2>1, <2>7, <3>2, <4>1
    <3>. QED
      BY <2>8, <3>1, <3>2
  <2>. QED
    BY <1>5, <2>5, <2>9, <2>10
<1>8. ASSUME MorePart, TopPasses, Len(stack') = n, NEW a \in BOOLEAN, NEW b \in BOOLEAN, NEW c \in BOOLEAN,
             text1 = PushIf(a, text), html1 = PushIf(b, html), files1 = PushIf(c, files),
             stack'[n].textOn => stack[n].textOn, stack'[n].htmlOn => stack[n].htmlOn
      PROVE  OrderInv'
  <2>1. n \in Nat \ {0} /\ Calls = 1 .. n
    BY <1>2, <1>8, StackIs, MorePartIs
  <2>2. Calls' = Calls
    BY <1>8, <2>1, LenProperties DEF TopPasses, Calls
  <2>3. Len(stack') = Len(stack)
    BY <1>2, <1>8
  <2>4. /\ Sorted(text1) /\ AllBefore(text1)'
        /\ \A e \in Nat, i \in Calls : SplitAt(text, e, i) => SplitAt(text1, e, i)'
    BY <1>3, <1>4, <1>8, <2>3, ListStep
  <2>5. /\ Sorted(html1) /\ AllBefore(html1)'
        /\ \A e \in Nat, i \in Calls : SplitAt(html, e, i) => SplitAt(html1, e, i)'
    BY <1>3, <1>4, <1>8, <2>3, ListStep
  <2>6. Sorted(files1) /\ AllBefore(files1)'
    BY <1>3, <1>4, <1>8, <2>3, ListStep
  <2>7. ASSUME NEW i \in Calls
        PROVE  /\ stack'[i].textOn => stack[i].textOn
               /\ stack'[i].htmlOn => stack[i].htmlOn
               /\ stack'[i].textAtEntry = stack[i].textAtEntry
               /\ stack'[i].htmlAtEntry = stack[i].htmlAtEntry
    <3>1. CASE i = n
      BY <1>2, <1>8, <3>1 DEF TopPasses
    <3>2. CASE i # n
      <4>1. i \in 1 .. n - 1
        BY <2>1, <3>2
      <4>. QED
        BY <1>2, <1>8, <4>1 DEF TopPasses
    <3>. QED
      BY <3>1, <3>2
  <2>8. Split
    BY <1>2, <1>4, <1>6, <2>2, <2>4, <2>5, <2>7
  <2>. QED
    BY <1>5, <2>4, <2>5, <2>6, <2>8
<1>9. CASE ChooseAlternative
  <2>1. MorePart
    BY <1>9 DEF ChooseAlternative, Leaf
  <2>2. /\ TopPasses /\ Len(stack') = n
        /\ stack'[n].textOn = Top.textOn /\ stack'[n].htmlOn = Top.htmlOn
    BY <1>2, <1>9, ChooseAlternativeStack
  <2>3. Top = stack[n]
    BY <1>2 DEF Top
  <2>4. PICK a \in BOOLEAN, b \in BOOLEAN, c \in BOOLEAN :
          text1 = PushIf(a, text) /\ html1 = PushIf(b, html) /\ files1 = PushIf(c, files)
    <3>1. (Top.textOn /\ Current.type = "plain") \in BOOLEAN
      BY Zenon
    <3>2. (Top.htmlOn /\ Current.type = "html") \in BOOLEAN
      BY Zenon
    <3>3. (Current.type = "media") \in BOOLEAN
      BY Zenon
    <3>4. /\ textBody' = PushIf(Top.textOn /\ Current.type = "plain", textBody)
          /\ htmlBody' = PushIf(Top.htmlOn /\ Current.type = "html", htmlBody)
          /\ attachments' = PushIf(Current.type = "media", attachments)
      BY <1>9 DEF ChooseAlternative
    <3>. QED
      BY <1>2, <3>1, <3>2, <3>3, <3>4, Zenon
  <2>. QED
    BY <1>8, <2>1, <2>2, <2>3, <2>4
<1>10. CASE Attach
  <2>1. MorePart
    BY <1>10 DEF Attach, Leaf
  <2>2. /\ TopPasses /\ Len(stack') = n
        /\ stack'[n].textOn = Top.textOn /\ stack'[n].htmlOn = Top.htmlOn
    BY <1>2, <1>10, ChooseAlternativeStack
  <2>3. Top = stack[n]
    BY <1>2 DEF Top
  <2>4. text1 = PushIf(FALSE, text) /\ html1 = PushIf(FALSE, html) /\ files1 = PushIf(TRUE, files)
    BY <1>2, <1>10 DEF Attach, PushIf
  <2>. QED
    BY <1>8, <2>1, <2>2, <2>3, <2>4
<1>11. CASE ShowInline
  <2>1. MorePart
    BY <1>11 DEF ShowInline, Leaf
  <2>2. /\ TopPasses /\ Len(stack') = n
        /\ stack'[n].textOn = TextStays /\ stack'[n].htmlOn = HtmlStays
    BY <1>2, <1>11, ShowInlineStack
  <2>3. Top = stack[n]
    BY <1>2 DEF Top
  <2>4. PICK a \in BOOLEAN, b \in BOOLEAN, c \in BOOLEAN :
          text1 = PushIf(a, text) /\ html1 = PushIf(b, html) /\ files1 = PushIf(c, files)
    <3>1. TextStays \in BOOLEAN /\ HtmlStays \in BOOLEAN
      BY Zenon DEF TextStays, HtmlStays
    <3>2. (Current.type = "media" /\ ~(TextStays /\ HtmlStays)) \in BOOLEAN
      BY Zenon
    <3>3. /\ textBody' = PushIf(TextStays, textBody)
          /\ htmlBody' = PushIf(HtmlStays, htmlBody)
          /\ attachments' = PushIf(Current.type = "media" /\ ~(TextStays /\ HtmlStays), attachments)
      BY <1>11, Zenon DEF ShowInline, TextStays, HtmlStays
    <3>. QED
      BY <1>2, <3>1, <3>2, <3>3, Zenon
  <2>5. (stack'[n].textOn => stack[n].textOn) /\ (stack'[n].htmlOn => stack[n].htmlOn)
    BY <2>2, <2>3, Zenon DEF TextStays, HtmlStays
  <2>. QED
    BY <1>8, <2>1, <2>2, <2>4, <2>5
<1>12. CASE Return
  <2>1. n \in Nat \ {0} /\ Calls = 1 .. n /\ Top = stack[n] /\ n \in Calls
    BY <1>2, <1>12, StackIs DEF Return
  <2>2. /\ stack' \in Seq(Frame) /\ Len(stack') = n - 1 /\ \A i \in 1 .. n - 1 : stack'[i] = stack[i]
    BY <1>2, <1>12, ReturnStack
  <2>3. Calls' = 1 .. n - 1
    BY <2>2, LenProperties DEF Calls
  <2>4. PICK e, d : e = Top.textAtEntry /\ d = Top.htmlAtEntry
    OBVIOUS
  <2>5. e \in Nat /\ d \in Nat
    BY <1>6, <2>1, <2>4
  <2>6. files1 = files /\ Sorted(files1) /\ AllBefore(files1)'
    BY <1>2, <1>3, <1>4, <1>12, ListStays DEF Return
  <2>. DEFINE mirror == Top.type = "alternative" /\ Top.textOn /\ Top.htmlOn
  <2>7. /\ text1 = IF mirror /\ From(text, e) = <<>> THEN text \o From(html, d) ELSE text
        /\ html1 = IF mirror /\ From(html, d) = <<>> THEN html \o From(text, e) ELSE html
    BY <1>2, <1>12, <2>4 DEF Return
  <2>8. mirror => SplitAt(text, e, n) /\ SplitAt(html, d, n)
    BY <1>4, <2>1, <2>4
  <2>. HIDE DEF mirror
  <2>9. ASSUME NEW i \in Calls'
        PROVE  /\ i \in Calls /\ stack'[i] = stack[i] /\ stack[i].next \in Nat
               /\ stack[i].textAtEntry \in Nat /\ stack[i].htmlAtEntry \in Nat
    BY <1>6, <2>1, <2>2, <2>3
  <2>10. /\ Sorted(text1) /\ AllBefore(text1)'
         /\ \A f \in Nat, i \in Calls' : SplitAt(text, f, i) => SplitAt(text1, f, i)'
    <3>1. CASE mirror /\ From(text, e) = <<>>
      <4>1. text1 = text \o From(html, d)
        BY <2>7, <3>1
      <4>. QED
        BY <1>2, <1>3, <1>4, <1>12, <2>5, <2>8, <3>1, <4>1, ListMirrored
    <3>2. CASE ~(mirror /\ From(text, e) = <<>>)
      <4>1. text1 = text
        BY <2>7, <3>2
      <4>2. AllBefore(text)'
        BY <1>3, <1>4, ListStays
      <4>3. ASSUME NEW f \in Nat, NEW i \in Calls', SplitAt(text, f, i)  PROVE SplitAt(text, f, i)'
        <5>1. /\ stack'[i].parts = stack[i].parts /\ stack'[i].next \in Nat
              /\ stack[i].next <= stack'[i].next /\ stack[i].next \in Nat
          BY <2>9
        <5>. QED
          BY <1>3, <4>3, <5>1, SplitGoesOn
      <4>. QED
        BY <1>4, <4>1, <4>2, <4>3
    <3>. QED
      BY <3>1, <3>2
  <2>11. /\ Sorted(html1) /\ AllBefore(html1)'
         /\ \A f \in Nat, i \in Calls' : SplitAt(html, f, i) => SplitAt(html1, f, i)'
    <3>1. CASE mirror /\ From(html, d) = <<>>
      <4>1. html1 = html \o From(text, e)
        BY <2>7, <3>1
      <4>. QED
        BY <1>2, <1>3, <1>4, <1>12, <2>5, <2>8, <3>1, <4>1, ListMirrored
    <3>2. CASE ~(mirror /\ From(html, d) = <<>>)
      <4>1. html1 = html
        BY <2>7, <3>2
      <4>2. AllBefore(html)'
        BY <1>3, <1>4, ListStays
      <4>3. ASSUME NEW f \in Nat, NEW i \in Calls', SplitAt(html, f, i)  PROVE SplitAt(html, f, i)'
        <5>1. /\ stack'[i].parts = stack[i].parts /\ stack'[i].next \in Nat
              /\ stack[i].next <= stack'[i].next /\ stack[i].next \in Nat
          BY <2>9
        <5>. QED
          BY <1>3, <4>3, <5>1, SplitGoesOn
      <4>. QED
        BY <1>4, <4>1, <4>2, <4>3
    <3>. QED
      BY <3>1, <3>2
  <2>12. Split
    BY <1>2, <1>4, <2>9, <2>10, <2>11
  <2>. QED
    BY <1>5, <2>6, <2>10, <2>11, <2>12
<1>. QED
  BY <1>7, <1>9, <1>10, <1>11, <1>12 DEF Next

-----------------------------------------------------------------------------
(* The switching of the lists.                                             *)

\* The part a call passes switches a list off, nothing else does.
LEMMA OffByTop ==
  ASSUME TypeInv, Running, TopPasses, tree' = tree, NEW n, n = Len(stack), NEW kind
  PROVE  /\ \A i \in 1 .. n - 1 : OffBy(i, kind)' <=> OffBy(i, kind)
         /\ OffBy(n, kind)' <=> OffBy(n, kind) \/ Switches(n, Top.next, kind)
<1>1. n \in Nat \ {0} /\ Calls = 1 .. n /\ Top = stack[n]
  BY StackIs
<1>2. \A i \in 1 .. n - 1 : stack'[i] = stack[i]
  BY DEF TopPasses
<1>3. /\ stack'[n].parts = stack[n].parts /\ stack'[n].next = stack[n].next + 1
      /\ stack'[n].type = stack[n].type /\ stack'[n].inAlternative = stack[n].inAlternative
  BY DEF TopPasses
<1>4. stack[n].next \in Nat \ {0}
  BY <1>1, CallIs
<1>5. \A j \in 1 .. n : \A k : Switches(j, k, kind)' <=> Switches(j, k, kind)
  <2>1. ASSUME NEW j \in 1 .. n
        PROVE  /\ stack'[j].parts = stack[j].parts /\ stack'[j].type = stack[j].type
               /\ stack'[j].inAlternative = stack[j].inAlternative
    <3>1. CASE j = n
      BY <1>3, <3>1
    <3>2. CASE j # n
      <4>1. j \in 1 .. n - 1
        BY <1>1, <3>2
      <4>. QED
        BY <1>2, <4>1
    <3>. QED
      BY <3>1, <3>2
  <2>. QED
    BY <2>1 DEF Switches
<1>6. ASSUME NEW i \in 1 .. n - 1  PROVE OffBy(i, kind)' <=> OffBy(i, kind)
  <2>1. \A j \in 1 .. i : j \in 1 .. n /\ stack'[j] = stack[j]
    BY <1>1, <1>2
  <2>. QED
    BY <1>5, <2>1 DEF OffBy
<1>7. OffBy(n, kind)' <=> OffBy(n, kind) \/ Switches(n, Top.next, kind)
  <2>1. ASSUME NEW j \in 1 .. n, j # n  PROVE stack'[j] = stack[j]
    <3>1. j \in 1 .. n - 1
      BY <1>1, <2>1
    <3>. QED
      BY <1>2, <3>1
  <2>2. ASSUME NEW k  PROVE k \in 1 .. stack'[n].next - 1 <=> k \in 1 .. stack[n].next - 1 \/ k = stack[n].next
    <3>1. stack'[n].next - 1 = stack[n].next
      BY <1>3, <1>4
    <3>. QED
      BY <1>4, <3>1
  <2>3. n \in 1 .. n
    BY <1>1
  <2>4. ASSUME OffBy(n, kind)'  PROVE OffBy(n, kind) \/ Switches(n, Top.next, kind)
    <3>1. PICK j \in 1 .. n : \E k \in 1 .. stack'[j].next - 1 : Switches(j, k, kind)'
      BY <2>4 DEF OffBy
    <3>2. PICK k \in 1 .. stack'[j].next - 1 : Switches(j, k, kind)
      BY <1>5, <3>1
    <3>3. CASE j = n
      <4>1. k \in 1 .. stack[n].next - 1 \/ k = stack[n].next
        BY <2>2, <3>2, <3>3
      <4>. QED
        BY <1>1, <2>3, <3>2, <3>3, <4>1 DEF OffBy
    <3>4. CASE j # n
      BY <2>1, <3>2, <3>4 DEF OffBy
    <3>. QED
      BY <3>3, <3>4
  <2>5. ASSUME OffBy(n, kind)  PROVE OffBy(n, kind)'
    <3>1. PICK j \in 1 .. n : \E k \in 1 .. stack[j].next - 1 : Switches(j, k, kind)
      BY <2>5 DEF OffBy
    <3>2. PICK k \in 1 .. stack[j].next - 1 : Switches(j, k, kind)
      BY <3>1
    <3>3. k \in 1 .. stack'[j].next - 1
      <4>1. CASE j = n
        BY <2>2, <3>2, <4>1
      <4>2. CASE j # n
        BY <2>1, <3>2, <4>2
      <4>. QED
        BY <4>1, <4>2
    <3>. QED
      BY <1>5, <3>2, <3>3 DEF OffBy
  <2>6. ASSUME Switches(n, Top.next, kind)  PROVE OffBy(n, kind)'
    <3>1. PICK k : k = stack[n].next
      OBVIOUS
    <3>2. k \in 1 .. stack'[n].next - 1
      BY <1>4, <2>2, <3>1
    <3>3. Switches(n, k, kind)'
      BY <1>1, <1>5, <2>3, <2>6, <3>1
    <3>. QED
      BY <2>3, <3>2, <3>3 DEF OffBy
  <2>. QED
    BY <2>4, <2>5, <2>6
<1>. QED
  BY <1>6, <1>7

\* A list is off for a call just when a part passed has switched it off.
LEMMA SwitchKept ==
  ASSUME TypeInv, SwitchInv, Next
  PROVE  SwitchInv'
<1>1. PICK n : n = Len(stack)
  OBVIOUS
<1>2. tree' = tree
  BY TypesKept
<1>3. \A i \in Calls : /\ stack[i].textOn <=> ~OffBy(i, "html")
                       /\ stack[i].htmlOn <=> ~OffBy(i, "plain")
  BY DEF SwitchInv
<1>4. ASSUME MorePart, TopPasses, Len(stack') = n,
             stack'[n].textOn <=> stack[n].textOn /\ ~Switches(n, Top.next, "html"),
             stack'[n].htmlOn <=> stack[n].htmlOn /\ ~Switches(n, Top.next, "plain")
      PROVE  SwitchInv'
  <2>1. n \in Nat \ {0} /\ Calls = 1 .. n /\ Running
    BY <1>1, <1>4, StackIs, MorePartIs
  <2>2. Calls' = 1 .. n
    BY <1>4, LenProperties DEF TopPasses, Calls
  <2>3. /\ \A i \in 1 .. n - 1 : OffBy(i, "html")' <=> OffBy(i, "html")
        /\ OffBy(n, "html")' <=> OffBy(n, "html") \/ Switches(n, Top.next, "html")
    BY <1>1, <1>2, <1>4, <2>1, OffByTop
  <2>4. /\ \A i \in 1 .. n - 1 : OffBy(i, "plain")' <=> OffBy(i, "plain")
        /\ OffBy(n, "plain")' <=> OffBy(n, "plain") \/ Switches(n, Top.next, "plain")
    BY <1>1, <1>2, <1>4, <2>1, OffByTop
  <2>5. \A i \in 1 .. n - 1 : stack'[i] = stack[i]
    BY <1>1, <1>4 DEF TopPasses
  <2>6. ASSUME NEW i \in 1 .. n
        PROVE  /\ stack'[i].textOn <=> ~OffBy(i, "html")'
               /\ stack'[i].htmlOn <=> ~OffBy(i, "plain")'
    <3>1. CASE i = n
      <4>1. n \in Calls
        BY <2>1
      <4>2. (stack[n].textOn <=> ~OffBy(n, "html")) /\ (stack[n].htmlOn <=> ~OffBy(n, "plain"))
        BY <1>3, <4>1
      <4>. QED
        BY <1>4, <2>3, <2>4, <3>1, <4>2, Zenon
    <3>2. CASE i # n
      <4>1. i \in 1 .. n - 1 /\ i \in Calls
        BY <2>1, <3>2
      <4>2. (stack[i].textOn <=> ~OffBy(i, "html")) /\ (stack[i].htmlOn <=> ~OffBy(i, "plain"))
        BY <1>3, <4>1
      <4>. QED
        BY <2>3, <2>4, <2>5, <4>1, <4>2, Zenon
    <3>. QED
      BY <3>1, <3>2
  <2>. QED
    BY <2>2, <2>6, Zenon DEF SwitchInv
<1>5. CASE Descend
  <2>1. MorePart /\ Current.multipart
    BY <1>5 DEF Descend
  <2>2. n \in Nat \ {0} /\ Calls = 1 .. n /\ Running /\ Top = stack[n]
    BY <1>1, <2>1, StackIs, MorePartIs
  <2>. DEFINE g == stack'[n + 1]
  <2>3. /\ TopPasses /\ Len(stack') = n + 1
        /\ stack'[n].textOn = Top.textOn /\ stack'[n].htmlOn = Top.htmlOn
        /\ g.next = 1 /\ g.textOn = Top.textOn /\ g.htmlOn = Top.htmlOn
    BY <1>1, <1>5, DescendStack
  <2>4. Calls' = 1 .. n + 1
    BY <2>3, LenProperties DEF TopPasses, Calls
  <2>5. \A kind : ~Switches(n, Top.next, kind)
    BY <2>1, <2>2 DEF Switches, Current, Id
  <2>6. ASSUME NEW kind
        PROVE  /\ \A i \in 1 .. n - 1 : OffBy(i, kind)' <=> OffBy(i, kind)
               /\ OffBy(n, kind)' <=> OffBy(n, kind)
               /\ OffBy(n + 1, kind)' <=> OffBy(n, kind)'
    <3>1. /\ \A i \in 1 .. n - 1 : OffBy(i, kind)' <=> OffBy(i, kind)
          /\ OffBy(n, kind)' <=> OffBy(n, kind) \/ Switches(n, Top.next, kind)
      BY <1>1, <1>2, <2>2, <2>3, OffByTop
    <3>2. \A j : j \in 1 .. n + 1 <=> j \in 1 .. n \/ j = n + 1
      BY <2>2
    <3>3. \A k : k \notin 1 .. stack'[n + 1].next - 1
      BY <2>3
    <3>4. OffBy(n + 1, kind)' <=> OffBy(n, kind)'
      BY <3>2, <3>3 DEF OffBy
    <3>. QED
      BY <2>5, <3>1, <3>4
  <2>7. \A i \in 1 .. n - 1 : stack'[i] = stack[i]
    BY <1>1, <2>3 DEF TopPasses
  <2>8. n \in Calls
    BY <2>2
  <2>9. (stack[n].textOn <=> ~OffBy(n, "html")) /\ (stack[n].htmlOn <=> ~OffBy(n, "plain"))
    BY <1>3, <2>8
  <2>10. ASSUME NEW i \in 1 .. n + 1
         PROVE  /\ stack'[i].textOn <=> ~OffBy(i, "html")'
                /\ stack'[i].htmlOn <=> ~OffBy(i, "plain")'
    <3>1. CASE i = n
      BY <2>2, <2>3, <2>6, <2>9, <3>1, Zenon
    <3>2. CASE i = n + 1
      BY <2>2, <2>3, <2>6, <2>9, <3>2, Zenon
    <3>3. CASE i # n /\ i # n + 1
      <4>1. i \in 1 .. n - 1 /\ i \in Calls
        BY <2>2, <3>3
      <4>2. (stack[i].textOn <=> ~OffBy(i, "html")) /\ (stack[i].htmlOn <=> ~OffBy(i, "plain"))
        BY <1>3, <4>1
      <4>. QED
        BY <2>6, <2>7, <4>1, <4>2, Zenon
    <3>. QED
      BY <3>1, <3>2, <3>3
  <2>. QED
    BY <2>4, <2>10, Zenon DEF SwitchInv
<1>6. CASE ChooseAlternative \/ Attach
  <2>1. MorePart /\ (Top.type = "alternative" \/ ~CurrentInline)
    BY <1>6 DEF ChooseAlternative, Attach, Leaf
  <2>2. /\ TopPasses /\ Len(stack') = n /\ Top = stack[n]
        /\ stack'[n].textOn = Top.textOn /\ stack'[n].htmlOn = Top.htmlOn
    BY <1>1, <1>6, ChooseAlternativeStack DEF Top
  <2>3. \A kind : ~Switches(n, Top.next, kind)
    BY <2>1, <2>2 DEF Switches, Current, Id, CurrentInline
  <2>. QED
    BY <1>4, <2>1, <2>2, <2>3
<1>7. CASE ShowInline
  <2>1. MorePart /\ CurrentInline /\ Top.type # "alternative" /\ ~Current.multipart
    BY <1>7 DEF ShowInline, Leaf
  <2>2. /\ TopPasses /\ Len(stack') = n /\ Top = stack[n]
        /\ stack'[n].textOn = TextStays /\ stack'[n].htmlOn = HtmlStays
    BY <1>1, <1>7, ShowInlineStack DEF Top
  <2>3. \A kind : Switches(n, Top.next, kind) <=> Top.inAlternative /\ Current.type = kind
    BY <2>1, <2>2 DEF Switches, Current, Id, CurrentInline
  <2>4. /\ TextStays <=> stack[n].textOn /\ ~Switches(n, Top.next, "html")
        /\ HtmlStays <=> stack[n].htmlOn /\ ~Switches(n, Top.next, "plain")
    BY <2>2, <2>3, Zenon DEF TextStays, HtmlStays
  <2>. QED
    BY <1>4, <2>1, <2>2, <2>4, Zenon
<1>8. CASE Return
  <2>1. n \in Nat \ {0} /\ Calls = 1 .. n
    BY <1>1, <1>8, StackIs DEF Return
  <2>2. /\ stack' \in Seq(Frame) /\ Len(stack') = n - 1 /\ \A i \in 1 .. n - 1 : stack'[i] = stack[i]
    BY <1>1, <1>8, ReturnStack
  <2>3. Calls' = 1 .. n - 1
    BY <2>2, LenProperties DEF Calls
  <2>4. ASSUME NEW i \in 1 .. n - 1, NEW kind  PROVE OffBy(i, kind)' <=> OffBy(i, kind)
    <3>1. \A j \in 1 .. i : stack'[j] = stack[j]
      BY <2>1, <2>2
    <3>. QED
      BY <1>2, <3>1 DEF OffBy, Switches
  <2>5. \A i \in 1 .. n - 1 : i \in Calls
    BY <2>1
  <2>6. ASSUME NEW i \in 1 .. n - 1
        PROVE  /\ stack'[i].textOn <=> ~OffBy(i, "html")'
               /\ stack'[i].htmlOn <=> ~OffBy(i, "plain")'
    <3>1. (stack[i].textOn <=> ~OffBy(i, "html")) /\ (stack[i].htmlOn <=> ~OffBy(i, "plain"))
      BY <1>3, <2>5
    <3>. QED
      BY <2>2, <2>4, <3>1, Zenon
  <2>. QED
    BY <2>3, <2>6, Zenon DEF SwitchInv
<1>. QED
  BY <1>5, <1>6, <1>7, <1>8 DEF Next

-----------------------------------------------------------------------------
(* What switches a list off for the part the walk is at.                   *)

LEMMA PrefixSame ==
  ASSUME NEW a \in Seq(Nat), NEW b \in Seq(Nat), NEW c \in Seq(Nat),
         IsPrefix(a, c), IsPrefix(b, c), Len(a) = Len(b)
  PROVE  a = b
<1>1. \A j \in 1 .. Len(a) : a[j] = c[j]
  BY PrefixIs
<1>2. \A j \in 1 .. Len(b) : b[j] = c[j]
  BY PrefixIs
<1>. QED
  BY <1>1, <1>2, SeqEqual

LEMMA BeforeOneWay ==
  ASSUME NEW a \in Seq(Nat), NEW b \in Seq(Nat), Before(a, b)
  PROVE  ~Before(b, a)
<1>. SUFFICES ASSUME Before(b, a)  PROVE FALSE
  OBVIOUS
<1>1. Len(a) \in Nat /\ Len(b) \in Nat
  OBVIOUS
<1>2. PICK k \in 1 .. Len(a) :
        k <= Len(b) /\ (\A j \in 1 .. k - 1 : a[j] = b[j]) /\ a[k] < b[k]
  BY BeforeIs
<1>3. PICK l \in 1 .. Len(b) :
        l <= Len(a) /\ (\A j \in 1 .. l - 1 : b[j] = a[j]) /\ b[l] < a[l]
  BY BeforeIs
<1>4. /\ k \in 1 .. Len(b) /\ l \in 1 .. Len(a)
      /\ k < l => k \in 1 .. l - 1
      /\ l < k => l \in 1 .. k - 1
  BY <1>1, <1>2, <1>3
<1>5. a[k] \in Nat /\ b[k] \in Nat /\ a[l] \in Nat /\ b[l] \in Nat
  BY <1>4
<1>6. k = l
  <2>1. CASE k < l
    BY <1>2, <1>3, <1>4, <1>5, <2>1
  <2>2. CASE l < k
    BY <1>2, <1>3, <1>4, <1>5, <2>2
  <2>. QED
    BY <2>1, <2>2
<1>. QED
  BY <1>2, <1>3, <1>5, <1>6

\* What is inside of a multipart is inside of one of its parts.
LEMMA InsideChild ==
  ASSUME TreeInv, NEW a \in Ids, NEW id \in Ids, IsPrefix(a, id), a # id
  PROVE  \E c \in DOMAIN Children(a) : IsPrefix(Children(a)[c], id)
<1>. DEFINE T == {b \in Ids : IsPrefix(b, id) /\ Len(b) > Len(a)}
            S == {Len(b) : b \in T}
<1>1. Ids \subseteq Seq(Nat)
  BY DEF TreeInv
<1>2. a \in Seq(Nat) /\ id \in Seq(Nat) /\ Len(a) \in Nat /\ Len(id) \in Nat
  BY <1>1
<1>3. S \in SUBSET Nat
  BY <1>1
<1>4. id \in T
  <2>1. IsPrefix(id, id)
    BY <1>2, PrefixReflexive
  <2>2. Len(a) <= Len(id)
    BY <1>2, PrefixIs
  <2>3. Len(a) # Len(id)
    BY <1>2, <2>1, PrefixSame
  <2>. QED
    BY <1>2, <2>1, <2>2, <2>3
<1>5. PICK m \in S : \A y \in S : m <= y
  <2>1. S # {}
    BY <1>4
  <2>. HIDE DEF S
  <2>. QED
    BY <1>3, <2>1, MinOfNat
<1>6. PICK b \in T : m = Len(b)
  BY <1>5
<1>7. b \in Ids /\ b \in Seq(Nat) /\ IsPrefix(b, id) /\ Len(b) > Len(a) /\ Len(b) \in Nat
  BY <1>1, <1>6
<1>8. b # Root
  <2>1. CASE Root = <<>>
    <3>1. Len(<<>>) = 0
      OBVIOUS
    <3>. QED
      BY <1>2, <1>7, <2>1, <3>1
  <2>2. CASE Root # <<>>
    BY <2>2 DEF TreeInv
  <2>. QED
    BY <2>1, <2>2
<1>9. /\ b # <<>> /\ Parent(b) \in Ids
      /\ \E c \in DOMAIN Children(Parent(b)) : Children(Parent(b))[c] = b
  BY <1>7, <1>8 DEF TreeInv
<1>10. /\ Parent(b) \in Seq(Nat) /\ Len(Parent(b)) = Len(b) - 1 /\ IsPrefix(Parent(b), b)
  BY <1>7, <1>9, ParentIs, ParentIsPrefix
<1>11. IsPrefix(Parent(b), id)
  BY <1>2, <1>7, <1>10, PrefixTransitive
<1>12. Parent(b) \notin T
  <2>1. SUFFICES ASSUME Parent(b) \in T  PROVE FALSE
    OBVIOUS
  <2>2. Len(b) <= Len(Parent(b))
    BY <1>5, <1>6, <2>1
  <2>. QED
    BY <1>7, <1>10, <2>2
<1>13. Len(Parent(b)) = Len(a)
  <2>1. ~(Len(Parent(b)) > Len(a))
    BY <1>9, <1>11, <1>12
  <2>. QED
    BY <1>2, <1>7, <1>10, <2>1
<1>14. Parent(b) = a
  BY <1>2, <1>10, <1>11, <1>13, PrefixSame
<1>. QED
  BY <1>7, <1>9, <1>14

\* A part of a call, as part of the multipart that the call below passes.
LEMMA PartIs ==
  ASSUME TypeInv, CallsInv, NEW j \in Calls, j # 1, NEW k \in DOMAIN stack[j].parts,
         NEW q, q = stack[j].parts[k], NEW p, p = Passing(j - 1)
  PROVE  /\ j \in Nat /\ j - 1 \in Calls /\ j - 1 < j
         /\ p \in Ids /\ p \in Seq(Nat) /\ Len(p) = j - 2
         /\ q \in Ids /\ q \in Seq(Nat) /\ q # <<>> /\ Parent(q) = p /\ Len(q) = j - 1
         /\ stack[j].type = tree[p].type
         /\ stack[j].inAlternative <=> InsideAlternative(p)
         /\ ShownInline(q) <=> IsInline(tree[q], k = 1, stack[j].type)
<1>1. /\ stack \in Seq(Frame) /\ TreeInv
  BY DEF TypeInv
<1>2. Calls = 1 .. Len(stack) /\ Len(stack) \in Nat
  BY <1>1, LenProperties DEF Calls
<1>3. j \in Nat /\ j - 1 \in Calls /\ j - 1 < j /\ j >= 2
  BY <1>2
<1>4. /\ stack[j - 1].next > 1 /\ stack[j].parts = Children(p)
      /\ stack[j].type = tree[p].type /\ Len(p) = j - 2
      /\ stack[j].inAlternative <=> InsideAlternative(p)
  BY DEF CallsInv, InPlace
<1>5. p \in Ids /\ p \in Seq(Nat)
  BY <1>3, <1>4, PassingIs
<1>6. k \in DOMAIN Children(p) /\ q = Children(p)[k]
  BY <1>4
<1>7. q \in Ids /\ q \in Seq(Nat) /\ q # <<>> /\ Parent(q) = p /\ Len(q) = Len(p) + 1
  BY <1>1, <1>5, <1>6, ChildIs
<1>8. q = Children(p)[1] <=> k = 1
  <2>1. Children(p) \in Seq(Ids)
    BY <1>1, <1>5 DEF TreeInv
  <2>2. 1 \in DOMAIN Children(p) /\ (k # 1 => 1 < k)
    BY <1>6, <2>1
  <2>3. ASSUME k # 1, q = Children(p)[1]  PROVE FALSE
    <3>1. Children(p)[1][Len(p) + 1] < Children(p)[k][Len(p) + 1]
      BY <1>1, <1>5, <1>6, <2>2, <2>3 DEF TreeInv
    <3>2. Len(p) + 1 \in 1 .. Len(q)
      BY <1>5, <1>7
    <3>3. q[Len(p) + 1] \in Nat
      BY <1>7, <3>2
    <3>. QED
      BY <1>6, <2>3, <3>1, <3>3
  <2>. QED
    BY <1>6, <2>3
<1>9. ShownInline(q) <=> IsInline(tree[q], q = Children(p)[1], tree[p].type)
  BY <1>7 DEF ShownInline, Children
<1>10. (q = Children(p)[1]) = (k = 1)
  BY <1>8
<1>11. ShownInline(q) <=> IsInline(tree[q], k = 1, stack[j].type)
  BY <1>4, <1>9, <1>10
<1>12. Len(q) = j - 1
  BY <1>3, <1>4, <1>7
<1>. QED
  BY <1>3, <1>4, <1>5, <1>7, <1>11, <1>12

\* A part passed that switches a list off does so for the part the walk is at.
LEMMA OffIsSwitched ==
  ASSUME TypeInv, CallsInv, MorePart, NEW n, n = Len(stack), NEW id, id = Id, NEW kind,
         OffBy(n, kind), kind \in {"plain", "html"}
  PROVE  SwitchedOff(id, kind)
<1>1. n \in Nat \ {0} /\ Calls = 1 .. n /\ Top = stack[n] /\ TreeInv
  BY StackIs, MorePartIs DEF TypeInv
<1>2. id \in Ids /\ id \in Seq(Nat) /\ Top.next \in DOMAIN Top.parts /\ id = stack[n].parts[stack[n].next]
  BY <1>1, MorePartIs
<1>3. PICK j \in 1 .. n : \E k \in 1 .. stack[j].next - 1 : Switches(j, k, kind)
  BY DEF OffBy
<1>4. PICK k \in 1 .. stack[j].next - 1 : Switches(j, k, kind)
  BY <1>3
<1>5. j \in Calls /\ stack # <<>> /\ n \in Calls
  BY <1>1 DEF MorePart, Running
<1>6. /\ stack[j].next \in Nat /\ Len(stack[j].parts) \in Nat
      /\ DOMAIN stack[j].parts = 1 .. Len(stack[j].parts)
      /\ stack[j].next <= Len(stack[j].parts) + 1
  BY <1>5, CallIs DEF TypeInv
<1>7. k \in DOMAIN stack[j].parts
  BY <1>6
<1>8. j # 1
  BY <1>4, <1>5 DEF Switches, CallsInv
<1>9. PICK q, p : q = stack[j].parts[k] /\ p = Passing(j - 1)
  OBVIOUS
<1>10. /\ j \in Nat /\ j - 1 \in Calls /\ j - 1 < j
       /\ p \in Ids /\ p \in Seq(Nat) /\ Len(p) = j - 2
       /\ q \in Ids /\ q \in Seq(Nat) /\ q # <<>> /\ Parent(q) = p
       /\ stack[j].type = tree[p].type
       /\ stack[j].inAlternative <=> InsideAlternative(p)
       /\ ShownInline(q) <=> IsInline(tree[q], k = 1, stack[j].type)
  BY <1>5, <1>7, <1>8, <1>9, PartIs
<1>11. /\ ~tree[q].multipart /\ tree[q].type = kind
       /\ InsideAlternative(p) /\ tree[p].type # "alternative" /\ ShownInline(q)
  BY <1>4, <1>9, <1>10 DEF Switches
<1>12. p \in Enclosing(id)
  <2>1. j - 1 < n
    BY <1>1, <1>10
  <2>2. IsPrefix(p, id)
    BY <1>1, <1>2, <1>5, <1>9, <1>10, <2>1 DEF CallsInv
  <2>3. n # 1
    BY <1>1, <1>8, <1>10
  <2>4. Len(id) = n - 1
    <3>1. PICK k2, p2 : k2 = stack[n].next /\ p2 = Passing(n - 1)
      OBVIOUS
    <3>2. k2 \in DOMAIN stack[n].parts /\ id = stack[n].parts[k2]
      BY <1>1, <1>2, <3>1
    <3>3. n \in Calls /\ n # 1
      BY <1>5, <2>3
    <3>. HIDE DEF Calls, Passing
    <3>. QED
      BY <3>1, <3>2, <3>3, PartIs, SMTT(60)
  <2>5. Len(p) < Len(id)
    BY <1>1, <1>10, <2>4
  <2>. QED
    BY <1>10, <2>2, <2>5 DEF Enclosing
<1>13. Before(q, id)
  <2>1. CASE j = n
    <3>1. k < stack[n].next
      BY <1>6, <2>1
    <3>. QED
      BY <1>1, <1>2, <1>5, <1>7, <1>9, <2>1, <3>1, PartsInOrder
  <2>2. CASE j # n
    <3>1. j + 1 \in Calls /\ j < n
      BY <1>1, <2>2
    <3>2. PICK r : r = Passing(j)
      OBVIOUS
    <3>3. /\ r \in Ids /\ r \in Seq(Nat) /\ tree[r].multipart
          /\ stack[j].next - 1 \in DOMAIN stack[j].parts
          /\ r = stack[j].parts[stack[j].next - 1]
      BY <1>5, <3>1, <3>2, PassingBelow
    <3>4. k # stack[j].next - 1
      BY <1>9, <1>11, <3>3
    <3>5. k < stack[j].next - 1
      BY <1>6, <3>4
    <3>6. Before(q, r)
      BY <1>5, <1>7, <1>9, <3>3, <3>5, PartsInOrder
    <3>7. IsPrefix(r, id)
      BY <1>1, <1>2, <1>5, <3>1, <3>2 DEF CallsInv
    <3>. QED
      BY <1>2, <1>10, <3>3, <3>6, <3>7, BeforeInside
  <2>. QED
    BY <2>1, <2>2
<1>14. q \in Leaves
  BY <1>10, <1>11 DEF Leaves
<1>15. SwitchesOff(q, id)
  BY <1>10, <1>11, <1>12, <1>13 DEF SwitchesOff
<1>. QED
  BY <1>11, <1>14, <1>15 DEF SwitchedOff

\* What switches a list off for the part the walk is at has been passed.
LEMMA SwitchedIsOff ==
  ASSUME TypeInv, CallsInv, MorePart, NEW n, n = Len(stack), NEW id, id = Id, NEW kind,
         SwitchedOff(id, kind)
  PROVE  OffBy(n, kind)
<1>1. n \in Nat \ {0} /\ Calls = 1 .. n /\ Top = stack[n] /\ TreeInv
  BY StackIs, MorePartIs DEF TypeInv
<1>2. id \in Ids /\ id \in Seq(Nat) /\ Top.next \in DOMAIN Top.parts /\ id = stack[n].parts[stack[n].next]
  BY <1>1, MorePartIs
<1>3. stack # <<>> /\ n \in Calls
  BY <1>1 DEF MorePart, Running
<1>4. PICK q \in Leaves : SwitchesOff(q, id) /\ tree[q].type = kind
  BY DEF SwitchedOff
<1>5. PICK p : p = Parent(q)
  OBVIOUS
<1>6. /\ q \in Ids /\ ~tree[q].multipart /\ Before(q, id)
      /\ p \in Ids /\ Len(p) < Len(id) /\ IsPrefix(p, id)
      /\ tree[p].type # "alternative" /\ InsideAlternative(p) /\ ShownInline(q)
  BY <1>4, <1>5 DEF SwitchesOff, Leaves, Enclosing
<1>7. q \in Seq(Nat) /\ p \in Seq(Nat) /\ Len(p) \in Nat
  BY <1>1, <1>6 DEF TreeInv
<1>8. n # 1
  <2>. SUFFICES ASSUME n = 1  PROVE FALSE
    OBVIOUS
  <2>1. stack[1].parts = <<Root>> /\ DOMAIN <<Root>> = {1}
    BY <1>3 DEF CallsInv
  <2>2. id = Root
    BY <1>1, <1>2, <2>1
  <2>3. CASE Root = <<>>
    <3>1. Len(<<>>) = 0
      OBVIOUS
    <3>. QED
      BY <1>6, <1>7, <2>2, <2>3, <3>1
  <2>4. CASE Root # <<>>
    <3>1. p = id
      BY <1>1, <1>6, <2>2, <2>4 DEF TreeInv
    <3>. QED
      BY <1>6, <1>7, <3>1
  <2>. QED
    BY <2>3, <2>4
<1>9. Len(id) = n - 1
  BY <1>1, <1>2, <1>3, <1>8, PartIs
<1>10. q # Root
  <2>1. CASE Root = <<>>
    BY <1>1, <1>6, <2>1 DEF TreeInv
  <2>2. CASE Root # <<>>
    <3>1. p = id
      BY <1>1, <1>2, <1>6, <2>2 DEF TreeInv
    <3>. QED
      BY <1>6, <1>7, <3>1
  <2>. QED
    BY <2>1, <2>2
<1>11. PICK k \in DOMAIN Children(p) : Children(p)[k] = q
  BY <1>1, <1>5, <1>6, <1>10 DEF TreeInv
<1>12. PICK j : j = Len(p) + 2
  OBVIOUS
<1>13. /\ j \in Calls /\ j # 1 /\ j - 1 \in Calls /\ j - 1 < n /\ j - 2 = Len(p) /\ j \in 1 .. n
  BY <1>1, <1>6, <1>7, <1>9, <1>12
<1>14. /\ stack[j - 1].next > 1 /\ stack[j].parts = Children(Passing(j - 1))
       /\ Len(Passing(j - 1)) = j - 2
  BY <1>13 DEF CallsInv, InPlace
<1>15. p = Passing(j - 1)
  <2>1. PICK r : r = Passing(j - 1)
    OBVIOUS
  <2>2. r \in Seq(Nat) /\ Len(r) = Len(p)
    BY <1>13, <1>14, <2>1, PassingIs
  <2>3. IsPrefix(r, id)
    BY <1>1, <1>2, <1>3, <1>13, <2>1 DEF CallsInv
  <2>. QED
    BY <1>2, <1>6, <1>7, <2>1, <2>2, <2>3, PrefixSame
<1>16. k \in DOMAIN stack[j].parts /\ stack[j].parts[k] = q
  BY <1>11, <1>14, <1>15
<1>17. Switches(j, k, kind)
  <2>1. /\ stack[j].type = tree[p].type
        /\ stack[j].inAlternative <=> InsideAlternative(p)
        /\ ShownInline(q) <=> IsInline(tree[q], k = 1, stack[j].type)
    BY <1>13, <1>15, <1>16, PartIs
  <2>. QED
    BY <1>4, <1>6, <1>16, <2>1 DEF Switches
<1>18. /\ DOMAIN stack[j].parts = 1 .. Len(stack[j].parts) /\ Len(stack[j].parts) \in Nat
       /\ stack[j].next \in Nat
  BY <1>13, CallIs
<1>19. k < stack[j].next
  <2>. SUFFICES ASSUME ~(k < stack[j].next)  PROVE FALSE
    OBVIOUS
  <2>1. CASE j = n
    <3>1. CASE k = stack[j].next
      BY <1>2, <1>6, <1>16, <2>1, <3>1, BeforeOneWay
    <3>2. CASE k # stack[j].next
      <4>1. stack[n].next < k
        BY <1>18, <2>1, <3>2
      <4>2. Before(id, q)
        BY <1>1, <1>2, <1>3, <1>16, <2>1, <4>1, PartsInOrder
      <4>. QED
        BY <1>2, <1>6, <1>7, <4>2, BeforeOneWay
    <3>. QED
      BY <3>1, <3>2
  <2>2. CASE j # n
    <3>1. j + 1 \in Calls /\ j < n
      BY <1>1, <1>13, <2>2
    <3>2. PICK r : r = Passing(j)
      OBVIOUS
    <3>3. /\ r \in Seq(Nat) /\ stack[j].next - 1 \in DOMAIN stack[j].parts
          /\ r = stack[j].parts[stack[j].next - 1]
      BY <1>13, <3>1, <3>2, PassingBelow
    <3>4. stack[j].next - 1 < k
      <4>1. k \in Nat
        BY <1>16, <1>18
      <4>. QED
        BY <1>18, <4>1
    <3>5. Before(r, q)
      BY <1>13, <1>16, <3>3, <3>4, PartsInOrder
    <3>6. IsPrefix(r, id)
      BY <1>1, <1>2, <1>3, <1>13, <3>1, <3>2 DEF CallsInv
    <3>7. Before(id, q)
      BY <1>2, <1>7, <3>3, <3>5, <3>6, InsideBefore
    <3>. QED
      BY <1>2, <1>6, <1>7, <3>7, BeforeOneWay
  <2>. QED
    BY <2>1, <2>2
<1>20. k \in 1 .. stack[j].next - 1
  BY <1>16, <1>18, <1>19
<1>. QED
  BY <1>13, <1>17, <1>20 DEF OffBy

\* So for that part a list is on unless text of the other kind switches it off.
LEMMA ListsOn ==
  ASSUME TypeInv, CallsInv, SwitchInv, MorePart, NEW id, id = Id
  PROVE  /\ Top.textOn <=> ~SwitchedOff(id, "html")
         /\ Top.htmlOn <=> ~SwitchedOff(id, "plain")
         /\ SomeOff(id) <=> ~(Top.textOn /\ Top.htmlOn)
<1>1. PICK n : n = Len(stack)
  OBVIOUS
<1>2. n \in Calls /\ Top = stack[n]
  BY <1>1, StackIs, MorePartIs
<1>3. OffBy(n, "html") <=> SwitchedOff(id, "html")
  BY <1>1, OffIsSwitched, SwitchedIsOff
<1>4. OffBy(n, "plain") <=> SwitchedOff(id, "plain")
  BY <1>1, OffIsSwitched, SwitchedIsOff
<1>5. (Top.textOn <=> ~OffBy(n, "html")) /\ (Top.htmlOn <=> ~OffBy(n, "plain"))
  BY <1>2 DEF SwitchInv
<1>6. SomeOff(id) <=> SwitchedOff(id, "html") \/ SwitchedOff(id, "plain")
  BY DEF SomeOff, SwitchedOff, SwitchesOff
<1>. QED
  BY <1>3, <1>4, <1>5, <1>6, Zenon

-----------------------------------------------------------------------------
(* What becomes of the leaves.                                             *)

LEMMA PushIfHolds ==
  ASSUME NEW S, NEW list \in Seq(S), Id \in S, NEW on \in BOOLEAN
  PROVE  ToSet(PushIf(on, list)) = ToSet(list) \cup (IF on THEN {Id} ELSE {})
<1>. DEFINE new == PushIf(on, list)
<1>1. /\ new \in Seq(S)
      /\ on => /\ Len(new) = Len(list) + 1
               /\ \A i \in 1 .. Len(list) : new[i] = list[i]
               /\ new[Len(list) + 1] = Id
      /\ ~on => new = list
  BY PushIfIs
<1>2. Len(list) \in Nat /\ DOMAIN list = 1 .. Len(list) /\ DOMAIN new = 1 .. Len(new)
  BY <1>1, LenProperties
<1>. HIDE DEF new
<1>3. CASE on
  <2>1. \A i : i \in DOMAIN new <=> i \in DOMAIN list \/ i = Len(list) + 1
    BY <1>1, <1>2, <1>3
  <2>2. \A x : x \in ToSet(new) <=> x \in ToSet(list) \/ x = Id
    BY <1>1, <1>2, <1>3, <2>1 DEF ToSet
  <2>. QED
    BY <1>3, <2>2 DEF new
<1>4. CASE ~on
  BY <1>1, <1>4 DEF new
<1>. QED
  BY <1>3, <1>4

LEMMA ConcatHolds ==
  ASSUME NEW S, NEW s \in Seq(S), NEW t \in Seq(S)
  PROVE  ToSet(s) \subseteq ToSet(s \o t)
<1>1. DOMAIN s \subseteq DOMAIN (s \o t) /\ \A i \in DOMAIN s : (s \o t)[i] = s[i]
  <2>1. Len(s) \in Nat /\ Len(t) \in Nat /\ DOMAIN s = 1 .. Len(s)
    OBVIOUS
  <2>2. /\ s \o t \in Seq(S) /\ Len(s \o t) = Len(s) + Len(t)
        /\ \A i \in 1 .. Len(s) + Len(t) : (s \o t)[i] = IF i <= Len(s) THEN s[i] ELSE t[i - Len(s)]
    BY ConcatProperties
  <2>3. DOMAIN (s \o t) = 1 .. Len(s) + Len(t)
    BY <2>2, LenProperties
  <2>. QED
    BY <2>1, <2>2, <2>3
<1>. QED
  BY <1>1 DEF ToSet

\* What a leaf says of its place in the walk.
LEMMA LeafIs ==
  ASSUME TypeInv, CallsInv, Leaf, NEW id, id = Id
  PROVE  /\ id \in Leaves /\ id \in Ids /\ id \in Seq(Nat)
         /\ Media(id) => Current.type = "media" /\ CurrentInline /\ Top.type # "alternative"
         /\ CurrentInline => Current.type \in {"plain", "html", "media"}
<1>1. PICK n : n = Len(stack)
  OBVIOUS
<1>2. /\ n \in Nat \ {0} /\ Calls = 1 .. n /\ Top = stack[n] /\ TreeInv
      /\ stack # <<>> /\ n \in Calls /\ MorePart
  BY <1>1, StackIs, MorePartIs DEF TypeInv, Leaf, MorePart, Running
<1>3. /\ id \in Ids /\ id \in Seq(Nat) /\ Top.next \in DOMAIN Top.parts /\ id = stack[n].parts[stack[n].next]
  BY <1>2, MorePartIs
<1>4. id \in Leaves
  BY <1>3 DEF Leaf, Current, Leaves
<1>5. CurrentInline => Current.type \in {"plain", "html", "media"}
  BY DEF CurrentInline, IsInline
<1>6. ASSUME Media(id)  PROVE Current.type = "media" /\ CurrentInline /\ Top.type # "alternative"
  <2>1. /\ Parent(id) \in Ids /\ tree[id].type = "media" /\ ShownInline(id)
        /\ tree[Parent(id)].type # "alternative"
    BY <1>6 DEF Media
  <2>2. n # 1
    <3>. SUFFICES ASSUME n = 1  PROVE FALSE
      OBVIOUS
    <3>1. stack[1].parts = <<Root>> /\ DOMAIN <<Root>> = {1}
      BY <1>2 DEF CallsInv
    <3>2. id = Root
      BY <1>2, <1>3, <3>1
    <3>3. Root # <<>>
      BY <1>2, <1>4, <3>2 DEF TreeInv, Leaves
    <3>4. Parent(id) = id
      BY <1>2, <2>1, <3>2, <3>3 DEF TreeInv
    <3>5. Len(Parent(id)) = Len(id) - 1 /\ Len(id) \in Nat
      BY <1>3, <3>2, <3>3, ParentIs
    <3>. QED
      BY <3>4, <3>5
  <2>3. PICK p, k : p = Passing(n - 1) /\ k = stack[n].next
    OBVIOUS
  <2>4. k \in DOMAIN stack[n].parts /\ id = stack[n].parts[k]
    BY <1>2, <1>3, <2>3
  <2>5. /\ Parent(id) = p /\ stack[n].type = tree[p].type
        /\ ShownInline(id) <=> IsInline(tree[id], k = 1, stack[n].type)
    BY <1>2, <2>2, <2>3, <2>4, PartIs
  <2>6. IsInline(tree[id], k = 1, stack[n].type)
    BY <2>1, <2>5
  <2>7. CurrentInline
    BY <1>2, <2>3, <2>6 DEF CurrentInline, Current
  <2>. QED
    BY <1>2, <2>1, <2>5, <2>7 DEF Current
<1>. QED
  BY <1>3, <1>4, <1>5, <1>6

\* A leaf that is not the part being passed stays to come.
LEMMA ToComePasses ==
  ASSUME TypeInv, MorePart, TopPasses, Len(stack') >= Len(stack), NEW id, ToCome(id),
         ~IsPrefix(Id, id)
  PROVE  ToCome(id)'
<1>1. PICK n, at : n = Len(stack) /\ at = Id
  OBVIOUS
<1>2. /\ n \in Nat \ {0} /\ Calls = 1 .. n /\ Top = stack[n]
  BY <1>1, StackIs, MorePartIs
<1>3. at = stack[n].parts[stack[n].next]
  BY <1>1, <1>2, MorePartIs
<1>4. PICK i \in 1 .. n : \E k \in stack[i].next .. Len(stack[i].parts) : IsPrefix(stack[i].parts[k], id)
  BY <1>2 DEF ToCome
<1>5. PICK k \in stack[i].next .. Len(stack[i].parts) : IsPrefix(stack[i].parts[k], id)
  BY <1>4
<1>6. i \in Calls'
  <2>1. Calls' = 1 .. Len(stack') /\ Len(stack') \in Nat
    BY LenProperties DEF TopPasses, Calls
  <2>. QED
    BY <1>1, <1>2, <2>1
<1>7. CASE i = n
  <2>1. k # stack[n].next
    BY <1>1, <1>3, <1>5, <1>7
  <2>2. stack'[n].parts = stack[n].parts /\ stack'[n].next = stack[n].next + 1
    BY <1>1 DEF TopPasses
  <2>3. stack[n].next \in Nat
    BY <1>2, CallIs
  <2>4. k \in stack'[n].next .. Len(stack'[n].parts)
    BY <1>5, <1>7, <2>1, <2>2, <2>3
  <2>. QED
    BY <1>5, <1>6, <1>7, <2>2, <2>4 DEF ToCome
<1>8. CASE i # n
  <2>1. i \in 1 .. n - 1
    BY <1>2, <1>8
  <2>2. stack'[i] = stack[i]
    BY <1>1, <2>1 DEF TopPasses
  <2>. QED
    BY <1>5, <1>6, <2>2 DEF ToCome
<1>. QED
  BY <1>7, <1>8

\* What is settled stays so while the lists grow.
LEMMA SettledStays ==
  ASSUME tree' = tree, ToSet(textBody) \subseteq ToSet(textBody'),
         ToSet(htmlBody) \subseteq ToSet(htmlBody'),
         ToSet(attachments) \subseteq ToSet(attachments'), NEW id, Settled(id)
  PROVE  Settled(id)'
<1>1. /\ Superseded(id)' <=> Superseded(id)
      /\ Media(id)' <=> Media(id)
      /\ SomeOff(id)' <=> SomeOff(id)
  BY DEF Superseded, Media, SomeOff, SwitchesOff, ShownInline, InsideAlternative, Enclosing, Leaves, Ids
<1>2. id \in Listed => id \in Listed'
  BY DEF Listed
<1>3. Media(id) => IF SomeOff(id) THEN id \in ToSet(attachments')
                   ELSE id \in ToSet(textBody') \cap ToSet(htmlBody')
  BY DEF Settled
<1>. QED
  BY <1>1, <1>2, <1>3 DEF Settled

LEMMA VisitLeaf ==
  ASSUME TypeInv, CallsInv, VisitInv, Leaf, TopPasses, Len(stack') = Len(stack), tree' = tree,
         ToSet(textBody) \subseteq ToSet(textBody'),
         ToSet(htmlBody) \subseteq ToSet(htmlBody'),
         ToSet(attachments) \subseteq ToSet(attachments'), NEW id, id = Id, Settled(id)',
         \A x \in ToSet(attachments') :
           x \in ToSet(attachments) \/ (x = id /\ (Media(id) => SomeOff(id)))
  PROVE  VisitInv'
<1>1. id \in Leaves /\ id \in Ids /\ MorePart /\ TreeInv
  BY LeafIs DEF Leaf, TypeInv
<1>2. \A x : (Media(x)' <=> Media(x)) /\ (SomeOff(x)' <=> SomeOff(x))
  BY DEF Media, SomeOff, SwitchesOff, ShownInline, InsideAlternative, Enclosing, Leaves, Ids
<1>3. Leaves' = Leaves
  BY DEF Leaves, Ids
<1>4. ASSUME NEW x \in Leaves  PROVE ToCome(x)' \/ Settled(x)'
  <2>1. CASE Settled(x)
    BY <2>1, SettledStays
  <2>2. CASE ToCome(x) /\ ~IsPrefix(id, x)
    <3>1. ~IsPrefix(Id, x) /\ Len(stack') >= Len(stack)
      <4>1. Len(stack) \in Nat
        BY <1>1, StackIs, MorePartIs
      <4>. QED
        BY <2>2, <4>1
    <3>. QED
      BY <1>1, <2>2, <3>1, ToComePasses
  <2>3. CASE IsPrefix(id, x)
    <3>1. x \in Ids /\ ~tree[id].multipart
      BY <1>1 DEF Leaves
    <3>2. x = id
      <4>. SUFFICES ASSUME id # x  PROVE FALSE
        OBVIOUS
      <4>1. PICK c \in DOMAIN Children(id) : IsPrefix(Children(id)[c], x)
        BY <1>1, <2>3, <3>1, InsideChild
      <4>. QED
        BY <1>1, <3>1, ChildIs
    <3>. QED
      BY <3>2
  <2>. QED
    BY <2>1, <2>2, <2>3 DEF VisitInv
<1>5. ASSUME NEW x \in ToSet(attachments'), Media(x)  PROVE SomeOff(x)
  BY <1>5 DEF VisitInv
<1>6. \A x \in Leaves' : ToCome(x)' \/ Settled(x)'
  BY <1>3, <1>4
<1>7. \A x \in ToSet(attachments') : Media(x)' => SomeOff(x)'
  BY <1>2, <1>5
<1>. QED
  BY <1>6, <1>7 DEF VisitInv

\* Every leaf is still to come or where it belongs.
LEMMA VisitKept ==
  ASSUME TypeInv, CallsInv, SwitchInv, VisitInv, Next
  PROVE  VisitInv'
<1>1. PICK n, id : n = Len(stack) /\ id = Id
  OBVIOUS
<1>2. /\ tree' = tree /\ TreeInv
      /\ textBody \in Seq(Ids) /\ htmlBody \in Seq(Ids) /\ attachments \in Seq(Ids)
  BY TypesKept DEF TypeInv
<1>3. /\ Superseded(id)' <=> Superseded(id)
      /\ Media(id)' <=> Media(id)
      /\ SomeOff(id)' <=> SomeOff(id)
  BY <1>2 DEF Superseded, Media, SomeOff, SwitchesOff, ShownInline, InsideAlternative, Enclosing, Leaves, Ids
<1>4. ASSUME Leaf
      PROVE  /\ id \in Leaves /\ id \in Ids /\ Id \in Ids /\ MorePart /\ Current = tree[id]
             /\ Media(id) => Current.type = "media" /\ CurrentInline /\ Top.type # "alternative"
             /\ CurrentInline => Current.type \in {"plain", "html", "media"}
             /\ Top.textOn <=> ~SwitchedOff(id, "html")
             /\ Top.htmlOn <=> ~SwitchedOff(id, "plain")
             /\ SomeOff(id) <=> ~(Top.textOn /\ Top.htmlOn)
             /\ Current.type = "plain" /\ ~Top.textOn => Superseded(id)
             /\ Current.type = "html" /\ ~Top.htmlOn => Superseded(id)
  <2>1. /\ id \in Leaves /\ id \in Ids
        /\ Media(id) => Current.type = "media" /\ CurrentInline /\ Top.type # "alternative"
        /\ CurrentInline => Current.type \in {"plain", "html", "media"}
    BY <1>1, <1>4, LeafIs
  <2>2. /\ Top.textOn <=> ~SwitchedOff(id, "html")
        /\ Top.htmlOn <=> ~SwitchedOff(id, "plain")
        /\ SomeOff(id) <=> ~(Top.textOn /\ Top.htmlOn)
    BY <1>1, <1>4, ListsOn DEF Leaf
  <2>3. Current = tree[id] /\ MorePart
    BY <1>1, <1>4 DEF Current, Leaf
  <2>4. ASSUME Current.type = "plain", SwitchedOff(id, "html")  PROVE Superseded(id)
    BY <2>3, <2>4 DEF SwitchedOff, Superseded
  <2>5. ASSUME Current.type = "html", SwitchedOff(id, "plain")  PROVE Superseded(id)
    <3>1. {"plain", "html"} = {"html", "plain"}
      OBVIOUS
    <3>. QED
      BY <2>3, <2>5, <3>1 DEF SwitchedOff, Superseded
  <2>. QED
    BY <1>1, <2>1, <2>2, <2>3, <2>4, <2>5, Zenon
<1>5. CASE Descend
  <2>1. MorePart /\ Current.multipart /\ textBody' = textBody /\ htmlBody' = htmlBody /\ attachments' = attachments
    BY <1>5 DEF Descend
  <2>2. n \in Nat \ {0} /\ Calls = 1 .. n /\ id \in Ids /\ tree[id].multipart
    BY <1>1, <2>1, StackIs, MorePartIs DEF Current
  <2>3. TopPasses /\ Len(stack') = n + 1 /\ stack'[n + 1].parts = Children(id) /\ stack'[n + 1].next = 1
    BY <1>1, <1>5, DescendStack
  <2>4. n + 1 \in Calls'
    <3>1. Calls' = 1 .. n + 1
      BY <2>3, LenProperties DEF TopPasses, Calls
    <3>. QED
      BY <2>2, <3>1
  <2>5. Leaves' = Leaves
    BY <1>2 DEF Leaves, Ids
  <2>6. ASSUME NEW x \in Leaves  PROVE ToCome(x)' \/ Settled(x)'
    <3>1. CASE Settled(x)
      BY <1>2, <2>1, <3>1, SettledStays
    <3>2. CASE ToCome(x) /\ ~IsPrefix(id, x)
      <4>1. Len(stack') >= Len(stack)
        BY <1>1, <2>2, <2>3
      <4>. QED
        BY <1>1, <2>1, <2>3, <3>2, <4>1, ToComePasses
    <3>3. CASE IsPrefix(id, x)
      <4>1. id # x /\ x \in Ids
        BY <2>2 DEF Leaves
      <4>2. PICK c \in DOMAIN Children(id) : IsPrefix(Children(id)[c], x)
        BY <1>2, <2>2, <3>3, <4>1, InsideChild
      <4>3. c \in 1 .. Len(Children(id)) /\ Children(id) \in Seq(Ids)
        BY <1>2, <2>2, LenProperties DEF TreeInv
      <4>4. c \in stack'[n + 1].next .. Len(stack'[n + 1].parts) /\ IsPrefix(stack'[n + 1].parts[c], x)
        BY <2>3, <4>2, <4>3
      <4>. QED
        BY <2>4, <4>4 DEF ToCome
    <3>. QED
      BY <3>1, <3>2, <3>3 DEF VisitInv
  <2>7. \A x \in ToSet(attachments') : Media(x)' => SomeOff(x)'
    <3>1. \A x : (Media(x)' <=> Media(x)) /\ (SomeOff(x)' <=> SomeOff(x))
      BY <1>2 DEF Media, SomeOff, SwitchesOff, ShownInline, InsideAlternative, Enclosing, Leaves, Ids
    <3>. QED
      BY <2>1, <3>1 DEF VisitInv
  <2>8. \A x \in Leaves' : ToCome(x)' \/ Settled(x)'
    BY <2>5, <2>6
  <2>. QED
    BY <2>7, <2>8 DEF VisitInv
<1>6. CASE ChooseAlternative
  <2>1. Leaf /\ CurrentInline /\ Top.type = "alternative"
    BY <1>6 DEF ChooseAlternative
  <2>. DEFINE t == Top.textOn /\ Current.type = "plain"
              h == Top.htmlOn /\ Current.type = "html"
              m == Current.type = "media"
  <2>2. textBody' = PushIf(t, textBody) /\ htmlBody' = PushIf(h, htmlBody) /\ attachments' = PushIf(m, attachments)
    BY <1>6 DEF ChooseAlternative
  <2>3. t \in BOOLEAN /\ h \in BOOLEAN /\ m \in BOOLEAN
    BY Zenon
  <2>4. TopPasses /\ Len(stack') = Len(stack)
    BY <1>6, ChooseAlternativeStack
  <2>5. /\ Media(id) => FALSE
        /\ t \/ h \/ m \/ Superseded(id)
    BY <1>4, <2>1, Zenon
  <2>. HIDE DEF t, h, m
  <2>6. /\ ToSet(textBody') = ToSet(textBody) \cup (IF t THEN {id} ELSE {})
        /\ ToSet(htmlBody') = ToSet(htmlBody) \cup (IF h THEN {id} ELSE {})
        /\ ToSet(attachments') = ToSet(attachments) \cup (IF m THEN {id} ELSE {})
    BY <1>1, <1>2, <1>4, <2>1, <2>2, <2>3, PushIfHolds
  <2>7. Settled(id)'
    BY <1>3, <2>5, <2>6 DEF Settled, Listed
  <2>8. /\ ToSet(textBody) \subseteq ToSet(textBody') /\ ToSet(htmlBody) \subseteq ToSet(htmlBody')
        /\ ToSet(attachments) \subseteq ToSet(attachments')
        /\ \A x \in ToSet(attachments') :
             x \in ToSet(attachments) \/ (x = id /\ (Media(id) => SomeOff(id)))
    BY <2>5, <2>6
  <2>. QED
    BY <1>1, <1>2, <2>1, <2>4, <2>7, <2>8, VisitLeaf
<1>7. CASE ShowInline
  <2>1. Leaf /\ CurrentInline /\ Top.type # "alternative"
    BY <1>7 DEF ShowInline
  <2>. DEFINE t == TextStays
              h == HtmlStays
              m == Current.type = "media" /\ ~(TextStays /\ HtmlStays)
  <2>2. textBody' = PushIf(t, textBody) /\ htmlBody' = PushIf(h, htmlBody) /\ attachments' = PushIf(m, attachments)
    BY <1>7, Zenon DEF ShowInline, TextStays, HtmlStays
  <2>3. t \in BOOLEAN /\ h \in BOOLEAN /\ m \in BOOLEAN
    BY Zenon DEF TextStays, HtmlStays
  <2>4. TopPasses /\ Len(stack') = Len(stack)
    BY <1>7, ShowInlineStack
  <2>5. CASE Current.type = "media"
    <3>1. "media" # "html" /\ "media" # "plain"
      OBVIOUS
    <3>2. (t <=> Top.textOn) /\ (h <=> Top.htmlOn) /\ (m <=> ~(Top.textOn /\ Top.htmlOn))
      BY <2>5, <3>1, Zenon DEF TextStays, HtmlStays
    <3>3. (m <=> SomeOff(id)) /\ (~m => t /\ h)
      BY <1>4, <2>1, <3>2, Zenon
    <3>. HIDE DEF t, h, m
    <3>4. /\ ToSet(textBody') = ToSet(textBody) \cup (IF t THEN {id} ELSE {})
          /\ ToSet(htmlBody') = ToSet(htmlBody) \cup (IF h THEN {id} ELSE {})
          /\ ToSet(attachments') = ToSet(attachments) \cup (IF m THEN {id} ELSE {})
      BY <1>1, <1>2, <1>4, <2>1, <2>2, <2>3, PushIfHolds
    <3>5. Settled(id)'
      BY <1>3, <3>3, <3>4 DEF Settled, Listed
    <3>6. /\ ToSet(textBody) \subseteq ToSet(textBody') /\ ToSet(htmlBody) \subseteq ToSet(htmlBody')
          /\ ToSet(attachments) \subseteq ToSet(attachments')
          /\ \A x \in ToSet(attachments') :
               x \in ToSet(attachments) \/ (x = id /\ (Media(id) => SomeOff(id)))
      BY <3>3, <3>4
    <3>. QED
      BY <1>1, <1>2, <2>1, <2>4, <3>5, <3>6, VisitLeaf
  <2>6. CASE Current.type # "media"
    <3>1. "plain" # "html"
      OBVIOUS
    <3>2. Current.type = "plain" \/ Current.type = "html"
      BY <1>4, <2>1, <2>6
    <3>3. ~m /\ ~Media(id) /\ (t \/ h \/ Superseded(id))
      <4>1. ~m /\ ~Media(id)
        BY <1>4, <2>1, <2>6
      <4>2. ASSUME Current.type = "plain"  PROVE t \/ Superseded(id)
        BY <1>4, <2>1, <3>1, <4>2, Zenon DEF TextStays
      <4>3. ASSUME Current.type = "html"  PROVE h \/ Superseded(id)
        BY <1>4, <2>1, <3>1, <4>3, Zenon DEF HtmlStays
      <4>. QED
        BY <3>2, <4>1, <4>2, <4>3
    <3>. HIDE DEF t, h, m
    <3>4. /\ ToSet(textBody') = ToSet(textBody) \cup (IF t THEN {id} ELSE {})
          /\ ToSet(htmlBody') = ToSet(htmlBody) \cup (IF h THEN {id} ELSE {})
          /\ ToSet(attachments') = ToSet(attachments) \cup (IF m THEN {id} ELSE {})
      BY <1>1, <1>2, <1>4, <2>1, <2>2, <2>3, PushIfHolds
    <3>5. Settled(id)'
      BY <1>3, <3>3, <3>4 DEF Settled, Listed
    <3>6. /\ ToSet(textBody) \subseteq ToSet(textBody') /\ ToSet(htmlBody) \subseteq ToSet(htmlBody')
          /\ ToSet(attachments) \subseteq ToSet(attachments')
          /\ \A x \in ToSet(attachments') :
               x \in ToSet(attachments) \/ (x = id /\ (Media(id) => SomeOff(id)))
      BY <3>3, <3>4
    <3>. QED
      BY <1>1, <1>2, <2>1, <2>4, <3>5, <3>6, VisitLeaf
  <2>. QED
    BY <2>5, <2>6
<1>8. CASE Attach
  <2>1. Leaf /\ ~CurrentInline /\ textBody' = textBody /\ htmlBody' = htmlBody /\ attachments' = PushIf(TRUE, attachments)
    BY <1>8 DEF Attach, PushIf
  <2>2. TopPasses /\ Len(stack') = Len(stack)
    BY <1>8, ChooseAlternativeStack
  <2>3. ToSet(attachments') = ToSet(attachments) \cup {id}
    <3>1. Id \in Ids /\ TRUE \in BOOLEAN
      BY <1>4, <2>1
    <3>. QED
      BY <1>1, <1>2, <2>1, <3>1, PushIfHolds
  <2>4. ~Media(id)
    BY <1>4, <2>1
  <2>5. Settled(id)'
    BY <1>3, <2>3, <2>4 DEF Settled, Listed
  <2>6. /\ ToSet(textBody) \subseteq ToSet(textBody') /\ ToSet(htmlBody) \subseteq ToSet(htmlBody')
        /\ ToSet(attachments) \subseteq ToSet(attachments')
        /\ \A x \in ToSet(attachments') :
             x \in ToSet(attachments) \/ (x = id /\ (Media(id) => SomeOff(id)))
    BY <2>1, <2>3, <2>4
  <2>. QED
    BY <1>1, <1>2, <2>1, <2>2, <2>5, <2>6, VisitLeaf
<1>9. CASE Return
  <2>1. /\ Running /\ ~MorePart /\ attachments' = attachments
    BY <1>9 DEF Return
  <2>2. n \in Nat \ {0} /\ Calls = 1 .. n /\ Top = stack[n]
    BY <1>1, <2>1, StackIs
  <2>3. /\ stack' \in Seq(Frame) /\ Len(stack') = n - 1 /\ \A i \in 1 .. n - 1 : stack'[i] = stack[i]
    BY <1>1, <1>9, ReturnStack
  <2>4. Calls' = 1 .. n - 1
    BY <2>3, LenProperties DEF Calls
  <2>5. ToSet(textBody) \subseteq ToSet(textBody') /\ ToSet(htmlBody) \subseteq ToSet(htmlBody')
    <3>1. Top.textAtEntry \in Nat /\ Top.htmlAtEntry \in Nat
      BY <2>2, CallIs, FrameIs
    <3>2. PICK a, b : a = From(textBody, Top.textAtEntry) /\ b = From(htmlBody, Top.htmlAtEntry)
      OBVIOUS
    <3>3. a \in Seq(Ids) /\ b \in Seq(Ids)
      BY <1>2, <3>1, <3>2, FromIs
    <3>4. ToSet(textBody) \subseteq ToSet(textBody \o b) /\ ToSet(htmlBody) \subseteq ToSet(htmlBody \o a)
      BY <1>2, <3>3, ConcatHolds
    <3>5. /\ textBody' = textBody \o b \/ textBody' = textBody
          /\ htmlBody' = htmlBody \o a \/ htmlBody' = htmlBody
      BY <1>9, <3>2 DEF Return
    <3>. QED
      BY <3>4, <3>5
  <2>6. Leaves' = Leaves
    BY <1>2 DEF Leaves, Ids
  <2>7. ASSUME NEW x \in Leaves  PROVE ToCome(x)' \/ Settled(x)'
    <3>1. CASE Settled(x)
      BY <1>2, <2>1, <2>5, <3>1, SettledStays
    <3>2. CASE ToCome(x)
      <4>1. PICK i \in Calls : \E k \in stack[i].next .. Len(stack[i].parts) : IsPrefix(stack[i].parts[k], x)
        BY <3>2 DEF ToCome
      <4>2. PICK k \in stack[i].next .. Len(stack[i].parts) : IsPrefix(stack[i].parts[k], x)
        BY <4>1
      <4>3. i # n
        <5>1. stack[i].next \in Nat /\ Len(stack[i].parts) \in Nat
          BY CallIs
        <5>2. stack[i].next <= Len(stack[i].parts)
          BY <4>2, <5>1
        <5>. QED
          BY <2>1, <2>2, <5>2 DEF MorePart
      <4>4. i \in 1 .. n - 1
        BY <2>2, <4>3
      <4>. QED
        BY <2>3, <2>4, <4>2, <4>4 DEF ToCome
    <3>. QED
      BY <3>1, <3>2 DEF VisitInv
  <2>8. \A x \in ToSet(attachments') : Media(x)' => SomeOff(x)'
    <3>1. \A x : (Media(x)' <=> Media(x)) /\ (SomeOff(x)' <=> SomeOff(x))
      BY <1>2 DEF Media, SomeOff, SwitchesOff, ShownInline, InsideAlternative, Enclosing, Leaves, Ids
    <3>. QED
      BY <2>1, <3>1 DEF VisitInv
  <2>9. \A x \in Leaves' : ToCome(x)' \/ Settled(x)'
    BY <2>6, <2>7
  <2>. QED
    BY <2>8, <2>9 DEF VisitInv
<1>. QED
  BY <1>5, <1>6, <1>7, <1>8, <1>9 DEF Next

-----------------------------------------------------------------------------
(* Alternatives.                                                           *)

\* Outside of the alternatives, and directly in one, both lists are on.
LEMMA BothOn ==
  ASSUME TypeInv, SwitchInv, NEW i \in Calls,
         \A j \in 1 .. i : ~stack[j].inAlternative \/ stack[j].type = "alternative"
  PROVE  stack[i].textOn /\ stack[i].htmlOn
<1>1. \A kind : ~OffBy(i, kind)
  BY DEF OffBy, Switches
<1>2. (stack[i].textOn <=> ~OffBy(i, "html")) /\ (stack[i].htmlOn <=> ~OffBy(i, "plain"))
  BY DEF SwitchInv
<1>. QED
  BY <1>1, <1>2

\* An empty list is one of length 0.
LEMMA EmptyIs ==
  ASSUME NEW S, NEW s \in Seq(S)
  PROVE  Len(s) \in Nat /\ (s = <<>> <=> Len(s) = 0)
BY EmptySeq

\* What one call says of the alternatives it is in.
Alternatives(i) == stack[i].inAlternative <=> \E j \in 1 .. i : stack[j].type = "alternative"

EntryEmpty(a) == Outermost(a) => (stack[a].textAtEntry = 0 <=> stack[a].htmlAtEntry = 0)

LEMMA AlternativesStay ==
  ASSUME NEW n \in Nat,
         \A i \in 1 .. n : /\ stack'[i].type = stack[i].type
                           /\ stack'[i].inAlternative = stack[i].inAlternative
                           /\ stack'[i].textAtEntry = stack[i].textAtEntry
                           /\ stack'[i].htmlAtEntry = stack[i].htmlAtEntry
  PROVE  \A i \in 1 .. n : (Alternatives(i)' <=> Alternatives(i)) /\ (EntryEmpty(i)' <=> EntryEmpty(i))
<1>. SUFFICES ASSUME NEW i \in 1 .. n
     PROVE  (Alternatives(i)' <=> Alternatives(i)) /\ (EntryEmpty(i)' <=> EntryEmpty(i))
  OBVIOUS
<1>1. (\A j \in 1 .. i : j \in 1 .. n) /\ (\A j \in 1 .. i - 1 : j \in 1 .. n)
  OBVIOUS
<1>2. Alternatives(i)' <=> Alternatives(i)
  BY <1>1 DEF Alternatives
<1>3. Outermost(i)' <=> Outermost(i)
  BY <1>1 DEF Outermost
<1>. QED
  BY <1>2, <1>3 DEF EntryEmpty

\* The two body lists are empty together wherever no alternative is open.
LEMMA AlternativeKept ==
  ASSUME TypeInv, CallsInv, OrderInv, SwitchInv, AlternativeInv, Next
  PROVE  AlternativeInv'
<1>1. PICK n : n = Len(stack)
  OBVIOUS
<1>2. /\ textBody \in Seq(Ids) /\ htmlBody \in Seq(Ids) /\ stack \in Seq(Frame)
      /\ \A i \in Calls : Alternatives(i) /\ EntryEmpty(i)
      /\ (\A i \in Calls : ~stack[i].inAlternative) => (textBody = <<>> <=> htmlBody = <<>>)
  BY DEF TypeInv, AlternativeInv, Alternatives, EntryEmpty
<1>3. Len(textBody) \in Nat /\ Len(htmlBody) \in Nat
      /\ (textBody = <<>> <=> Len(textBody) = 0) /\ (htmlBody = <<>> <=> Len(htmlBody) = 0)
  BY <1>2, EmptyIs
<1>4. ASSUME \A i \in Calls' : Alternatives(i)' /\ EntryEmpty(i)',
             (\A i \in Calls' : ~stack'[i].inAlternative) => (textBody' = <<>> <=> htmlBody' = <<>>)
      PROVE  AlternativeInv'
  BY <1>4 DEF AlternativeInv, Alternatives, EntryEmpty
<1>5. ASSUME Running, TopPasses
      PROVE  /\ n \in Nat \ {0} /\ Calls = 1 .. n /\ n \in Calls /\ Top = stack[n]
             /\ \A i \in 1 .. n : /\ stack'[i].type = stack[i].type
                                  /\ stack'[i].inAlternative = stack[i].inAlternative
                                  /\ stack'[i].textAtEntry = stack[i].textAtEntry
                                  /\ stack'[i].htmlAtEntry = stack[i].htmlAtEntry
             /\ \A i \in 1 .. n : Alternatives(i)' /\ EntryEmpty(i)'
  <2>1. n \in Nat \ {0} /\ Calls = 1 .. n /\ n \in Calls /\ Top = stack[n]
    BY <1>1, <1>5, StackIs
  <2>2. ASSUME NEW i \in 1 .. n
        PROVE  /\ stack'[i].type = stack[i].type
               /\ stack'[i].inAlternative = stack[i].inAlternative
               /\ stack'[i].textAtEntry = stack[i].textAtEntry
               /\ stack'[i].htmlAtEntry = stack[i].htmlAtEntry
    <3>1. CASE i = n
      BY <1>1, <1>5, <3>1 DEF TopPasses
    <3>2. CASE i # n
      <4>1. i \in 1 .. n - 1
        BY <2>1, <3>2
      <4>. QED
        BY <1>1, <1>5, <4>1 DEF TopPasses
    <3>. QED
      BY <3>1, <3>2
  <2>3. \A i \in 1 .. n : (Alternatives(i)' <=> Alternatives(i)) /\ (EntryEmpty(i)' <=> EntryEmpty(i))
    BY <2>1, <2>2, AlternativesStay
  <2>. QED
    BY <1>2, <2>1, <2>2, <2>3
<1>6. ASSUME Running, \A i \in Calls : ~stack[i].inAlternative  PROVE Top.textOn /\ Top.htmlOn /\ Top.type # "alternative"
  <2>1. n \in Nat \ {0} /\ Calls = 1 .. n /\ n \in Calls /\ Top = stack[n]
    BY <1>1, <1>6, StackIs
  <2>2. Top.textOn /\ Top.htmlOn
    BY <1>6, <2>1, BothOn
  <2>3. Top.type # "alternative"
    <3>1. n \in 1 .. n
      BY <2>1
    <3>. QED
      BY <1>2, <1>6, <2>1, <3>1 DEF Alternatives
  <2>. QED
    BY <2>2, <2>3
<1>7. CASE Descend
  <2>1. MorePart /\ Running /\ textBody' = textBody /\ htmlBody' = htmlBody
    BY <1>7 DEF Descend, MorePart
  <2>. DEFINE g == stack'[n + 1]
  <2>2. /\ TopPasses /\ Len(stack') = n + 1 /\ g.type = Current.type
        /\ g.inAlternative = (Top.inAlternative \/ Current.type = "alternative")
        /\ g.textAtEntry = (IF Top.textOn THEN Len(textBody) ELSE 0)
        /\ g.htmlAtEntry = (IF Top.htmlOn THEN Len(htmlBody) ELSE 0)
    BY <1>1, <1>7, DescendStack
  <2>3. /\ n \in Nat \ {0} /\ Calls = 1 .. n /\ n \in Calls /\ Top = stack[n]
        /\ \A i \in 1 .. n : /\ stack'[i].type = stack[i].type
                             /\ stack'[i].inAlternative = stack[i].inAlternative
        /\ \A i \in 1 .. n : Alternatives(i)' /\ EntryEmpty(i)'
    BY <1>5, <2>1, <2>2
  <2>4. Calls' = 1 .. n + 1 /\ \A i : i \in 1 .. n + 1 <=> i \in 1 .. n \/ i = n + 1
    <3>1. Calls' = 1 .. n + 1
      BY <2>2, LenProperties DEF TopPasses, Calls
    <3>. QED
      BY <2>3, <3>1
  <2>5. Alternatives(n + 1)'
    <3>1. stack[n].inAlternative <=> \E j \in 1 .. n : stack[j].type = "alternative"
      BY <1>2, <2>3 DEF Alternatives
    <3>2. stack'[n + 1].inAlternative <=> \E j \in 1 .. n + 1 : stack'[j].type = "alternative"
      <4>1. g.inAlternative <=> stack[n].inAlternative \/ g.type = "alternative"
        BY <2>2, <2>3, Zenon
      <4>2. (\E j \in 1 .. n + 1 : stack'[j].type = "alternative")
              <=> (\E j \in 1 .. n : stack[j].type = "alternative") \/ g.type = "alternative"
        BY <2>3, <2>4
      <4>. QED
        BY <3>1, <4>1, <4>2
    <3>. QED
      BY <3>2 DEF Alternatives
  <2>6. EntryEmpty(n + 1)'
    <3>1. ASSUME Outermost(n + 1)'  PROVE g.textAtEntry = 0 <=> g.htmlAtEntry = 0
      <4>1. \A i \in 1 .. n : ~stack'[i].inAlternative
        <5>1. PICK m : m = n + 1
          OBVIOUS
        <5>2. Outermost(m)'
          BY <3>1, <5>1
        <5>3. \A i \in 1 .. m - 1 : ~stack'[i].inAlternative
          BY <5>2 DEF Outermost
        <5>4. m - 1 = n
          BY <2>3, <5>1
        <5>. QED
          BY <5>3, <5>4
      <4>2. \A i \in Calls : ~stack[i].inAlternative
        BY <2>3, <4>1
      <4>3. Top.textOn /\ Top.htmlOn /\ (textBody = <<>> <=> htmlBody = <<>>)
        BY <1>2, <1>6, <2>1, <4>2
      <4>. QED
        BY <1>3, <2>2, <4>3
    <3>. QED
      BY <3>1 DEF EntryEmpty
  <2>7. ASSUME \A i \in Calls' : ~stack'[i].inAlternative  PROVE textBody' = <<>> <=> htmlBody' = <<>>
    <3>1. \A i \in Calls : ~stack[i].inAlternative
      BY <2>3, <2>4, <2>7
    <3>. QED
      BY <1>2, <2>1, <3>1
  <2>8. \A i \in Calls' : Alternatives(i)' /\ EntryEmpty(i)'
    BY <2>3, <2>4, <2>5, <2>6
  <2>. QED
    BY <1>4, <2>7, <2>8
<1>8. ASSUME MorePart, TopPasses, Len(stack') = n,
             (\A i \in Calls : ~stack[i].inAlternative) => (textBody' = <<>> <=> htmlBody' = <<>>)
      PROVE  AlternativeInv'
  <2>1. Running
    BY <1>8 DEF MorePart
  <2>2. /\ n \in Nat \ {0} /\ Calls = 1 .. n
        /\ \A i \in 1 .. n : stack'[i].inAlternative = stack[i].inAlternative
        /\ \A i \in 1 .. n : Alternatives(i)' /\ EntryEmpty(i)'
    BY <1>5, <1>8, <2>1
  <2>3. Calls' = 1 .. n
    BY <1>8, LenProperties DEF TopPasses, Calls
  <2>4. (\A i \in Calls' : ~stack'[i].inAlternative) => (textBody' = <<>> <=> htmlBody' = <<>>)
    BY <1>8, <2>2, <2>3
  <2>5. \A i \in Calls' : Alternatives(i)' /\ EntryEmpty(i)'
    BY <2>2, <2>3
  <2>. QED
    BY <1>4, <2>4, <2>5
<1>9. CASE ChooseAlternative
  <2>1. MorePart /\ Running /\ Top.type = "alternative"
    BY <1>9 DEF ChooseAlternative, Leaf, MorePart
  <2>2. TopPasses /\ Len(stack') = n
    BY <1>1, <1>9, ChooseAlternativeStack
  <2>3. ~ \A i \in Calls : ~stack[i].inAlternative
    BY <1>6, <2>1
  <2>. QED
    BY <1>8, <2>1, <2>2, <2>3
<1>10. CASE ShowInline
  <2>1. MorePart /\ Running
    BY <1>10 DEF ShowInline, Leaf, MorePart
  <2>2. TopPasses /\ Len(stack') = n
    BY <1>1, <1>10, ShowInlineStack
  <2>3. ASSUME \A i \in Calls : ~stack[i].inAlternative  PROVE textBody' = <<>> <=> htmlBody' = <<>>
    <3>1. n \in Calls /\ Top = stack[n]
      BY <1>5, <2>1, <2>2
    <3>2. TextStays /\ HtmlStays
      BY <1>6, <2>1, <2>3, <3>1 DEF TextStays, HtmlStays
    <3>3. textBody' = PushIf(TextStays, textBody) /\ htmlBody' = PushIf(HtmlStays, htmlBody)
      BY <1>10, Zenon DEF ShowInline, TextStays, HtmlStays
    <3>4. textBody' = Append(textBody, Id) /\ htmlBody' = Append(htmlBody, Id)
      BY <3>2, <3>3 DEF PushIf
    <3>5. Id \in Ids
      BY <2>1, MorePartIs
    <3>6. /\ textBody' \in Seq(Ids) /\ Len(textBody') = Len(textBody) + 1
          /\ htmlBody' \in Seq(Ids) /\ Len(htmlBody') = Len(htmlBody) + 1
      BY <1>2, <3>4, <3>5, AppendProperties
    <3>7. textBody' # <<>> /\ htmlBody' # <<>>
      BY <1>3, <3>6, EmptyIs
    <3>. QED
      BY <3>7
  <2>. QED
    BY <1>8, <2>1, <2>2, <2>3
<1>11. CASE Attach
  <2>1. MorePart /\ Running /\ textBody' = textBody /\ htmlBody' = htmlBody
    BY <1>11 DEF Attach, Leaf, MorePart
  <2>2. TopPasses /\ Len(stack') = n
    BY <1>1, <1>11, ChooseAlternativeStack
  <2>. QED
    BY <1>2, <1>8, <2>1, <2>2
<1>12. CASE Return
  <2>1. Running
    BY <1>12 DEF Return
  <2>2. n \in Nat \ {0} /\ Calls = 1 .. n /\ n \in Calls /\ Top = stack[n]
    BY <1>1, <2>1, StackIs
  <2>3. /\ stack' \in Seq(Frame) /\ Len(stack') = n - 1 /\ \A i \in 1 .. n - 1 : stack'[i] = stack[i]
    BY <1>1, <1>12, ReturnStack
  <2>4. Calls' = 1 .. n - 1
    BY <2>3, LenProperties DEF Calls
  <2>5. \A i \in 1 .. n - 1 : Alternatives(i)' /\ EntryEmpty(i)'
    <3>1. PICK m : m = n - 1
      OBVIOUS
    <3>2. m \in Nat /\ \A i \in 1 .. m : stack'[i] = stack[i]
      BY <2>2, <2>3, <3>1
    <3>3. \A i \in 1 .. m : (Alternatives(i)' <=> Alternatives(i)) /\ (EntryEmpty(i)' <=> EntryEmpty(i))
      BY <3>2, AlternativesStay
    <3>4. \A i \in 1 .. m : i \in Calls
      BY <2>2, <3>1
    <3>. QED
      BY <1>2, <3>1, <3>3, <3>4
  <2>6. PICK e, d : e = Top.textAtEntry /\ d = Top.htmlAtEntry
    OBVIOUS
  <2>7. e \in Nat /\ d \in Nat
    BY <2>2, <2>6, CallIs, FrameIs
  <2>8. PICK a, b : a = From(textBody, e) /\ b = From(htmlBody, d)
    OBVIOUS
  <2>9. /\ a \in Seq(Ids) /\ (e <= Len(textBody) => Len(a) = Len(textBody) - e)
        /\ b \in Seq(Ids) /\ (d <= Len(htmlBody) => Len(b) = Len(htmlBody) - d)
    BY <1>2, <2>7, <2>8, FromIs
  <2>10. Len(a) \in Nat /\ (a = <<>> <=> Len(a) = 0) /\ Len(b) \in Nat /\ (b = <<>> <=> Len(b) = 0)
    BY <2>9, EmptyIs
  <2>. DEFINE mirror == Top.type = "alternative" /\ Top.textOn /\ Top.htmlOn
  <2>11. /\ textBody' = IF mirror /\ a = <<>> THEN textBody \o b ELSE textBody
         /\ htmlBody' = IF mirror /\ b = <<>> THEN htmlBody \o a ELSE htmlBody
    BY <1>12, <2>6, <2>8 DEF Return
  <2>12. ASSUME \A i \in 1 .. n - 1 : ~stack[i].inAlternative  PROVE textBody' = <<>> <=> htmlBody' = <<>>
    <3>1. ASSUME NEW i \in 1 .. n, i # n  PROVE ~stack[i].inAlternative
      <4>1. i \in 1 .. n - 1
        BY <2>2, <3>1
      <4>. QED
        BY <2>12, <4>1
    <3>2. CASE ~Top.inAlternative
      <4>1. \A i \in Calls : ~stack[i].inAlternative
        BY <2>2, <3>1, <3>2
      <4>2. ~mirror
        BY <1>6, <2>1, <4>1
      <4>. QED
        BY <1>2, <2>11, <4>1, <4>2
    <3>3. CASE Top.inAlternative
      <4>1. stack[n].type = "alternative"
        <5>1. PICK j \in 1 .. n : stack[j].type = "alternative"
          BY <1>2, <2>2, <3>3 DEF Alternatives
        <5>2. CASE j = n
          BY <5>1, <5>2
        <5>3. CASE j # n
          <6>1. j \in Calls /\ j \in 1 .. j
            BY <2>2
          <6>2. stack[j].inAlternative
            BY <1>2, <5>1, <6>1 DEF Alternatives
          <6>. QED
            BY <3>1, <5>3, <6>2
        <5>. QED
          BY <5>2, <5>3
      <4>2. \A j \in 1 .. n : ~stack[j].inAlternative \/ stack[j].type = "alternative"
        BY <3>1, <4>1
      <4>3. mirror
        BY <2>2, <4>1, <4>2, BothOn
      <4>4. Outermost(n)
        BY <2>12, <4>1 DEF Outermost
      <4>5. e = 0 <=> d = 0
        BY <1>2, <2>2, <2>6, <4>4 DEF EntryEmpty
      <4>6. e <= Len(textBody) /\ d <= Len(htmlBody)
        BY <2>2, <2>6, <4>3 DEF OrderInv, SplitAt
      <4>7. Len(a) = Len(textBody) - e /\ Len(b) = Len(htmlBody) - d
        BY <2>9, <4>6
      <4>. HIDE DEF mirror
      <4>8. /\ textBody \o b \in Seq(Ids) /\ Len(textBody \o b) = Len(textBody) + Len(b)
            /\ htmlBody \o a \in Seq(Ids) /\ Len(htmlBody \o a) = Len(htmlBody) + Len(a)
        BY <1>2, <2>9, ConcatProperties
      <4>9. /\ textBody' = IF a = <<>> THEN textBody \o b ELSE textBody
            /\ htmlBody' = IF b = <<>> THEN htmlBody \o a ELSE htmlBody
        BY <2>11, <4>3
      <4>10. textBody' = <<>> <=> Len(textBody) = 0 /\ (Len(a) = 0 => Len(b) = 0)
        <5>1. CASE a = <<>>
          <6>1. textBody \o b = <<>> <=> Len(textBody \o b) = 0
            BY <4>8, EmptyIs
          <6>. QED
            BY <1>3, <2>10, <4>8, <4>9, <5>1, <6>1
        <5>2. CASE a # <<>>
          BY <1>3, <2>10, <4>9, <5>2
        <5>. QED
          BY <5>1, <5>2
      <4>11. htmlBody' = <<>> <=> Len(htmlBody) = 0 /\ (Len(b) = 0 => Len(a) = 0)
        <5>1. CASE b = <<>>
          <6>1. htmlBody \o a = <<>> <=> Len(htmlBody \o a) = 0
            BY <4>8, EmptyIs
          <6>. QED
            BY <1>3, <2>10, <4>8, <4>9, <5>1, <6>1
        <5>2. CASE b # <<>>
          BY <1>3, <2>10, <4>9, <5>2
        <5>. QED
          BY <5>1, <5>2
      <4>. QED
        BY <1>3, <2>7, <2>10, <4>5, <4>6, <4>7, <4>10, <4>11
    <3>. QED
      BY <3>2, <3>3
  <2>13. \A i \in Calls' : Alternatives(i)' /\ EntryEmpty(i)'
    BY <2>4, <2>5
  <2>14. (\A i \in Calls' : ~stack'[i].inAlternative) => (textBody' = <<>> <=> htmlBody' = <<>>)
    BY <2>3, <2>4, <2>12
  <2>. QED
    BY <1>4, <2>13, <2>14
<1>. QED
  BY <1>7, <1>9, <1>10, <1>11, <1>12 DEF Next

-----------------------------------------------------------------------------
(* The theorems.                                                           *)

IInv == TypeInv /\ CallsInv /\ OrderInv /\ SwitchInv /\ VisitInv /\ AlternativeInv

LEMMA InitHolds ==
  ASSUME Init
  PROVE  IInv
<1>1. PICK message \in Messages :
        tree = TreeOf(message) /\ stack = <<Call(<<RootId(message)>>, "mixed", FALSE, TRUE, TRUE)>>
  BY DEF Init
<1>2. TreeInv /\ Root = RootId(message)
  BY <1>1, TreeIsSound
<1>3. textBody = <<>> /\ htmlBody = <<>> /\ attachments = <<>> /\ Len(<<>>) = 0
  BY DEF Init
<1>. DEFINE f == [parts |-> <<Root>>, next |-> 1, type |-> "mixed", inAlternative |-> FALSE,
                  textOn |-> TRUE, htmlOn |-> TRUE, textAtEntry |-> 0, htmlAtEntry |-> 0]
<1>4. stack = <<f>>
  BY <1>1, <1>2, <1>3 DEF Call
<1>5. f \in Frame
  <2>1. Root \in Ids
    BY <1>2 DEF TreeInv
  <2>2. PICK parts : parts = <<Root>>
    OBVIOUS
  <2>3. parts \in Seq(Ids) /\ "mixed" \in Types
    BY <2>1, <2>2 DEF Types
  <2>4. f = [parts |-> parts, next |-> 1, type |-> "mixed", inAlternative |-> FALSE,
             textOn |-> TRUE, htmlOn |-> TRUE, textAtEntry |-> 0, htmlAtEntry |-> 0]
    BY <2>2
  <2>. HIDE DEF f
  <2>. QED
    BY <2>3, <2>4 DEF Frame
<1>6. /\ f.parts = <<Root>> /\ f.next = 1 /\ f.type = "mixed" /\ f.inAlternative = FALSE
      /\ f.textOn = TRUE /\ f.htmlOn = TRUE /\ f.textAtEntry = 0 /\ f.htmlAtEntry = 0
  OBVIOUS
<1>. HIDE DEF f
<1>7. stack \in Seq(Frame) /\ Calls = {1} /\ stack[1] = f /\ stack # <<>> /\ Len(stack) = 1
  <2>1. Len(stack) = 1 /\ stack \in Seq(Frame) /\ stack[1] = f
    BY <1>4, <1>5
  <2>. QED
    BY <2>1, EmptySeq, LenProperties DEF Calls
<1>8. Len(<<Root>>) = 1 /\ <<Root>>[1] = Root /\ DOMAIN <<Root>> = {1}
  OBVIOUS
<1>9. TypeInv
  <2>1. <<>> \in Seq(Ids)
    OBVIOUS
  <2>2. \A i \in Calls : stack[i].next <= Len(stack[i].parts) + 1
    BY <1>6, <1>7, <1>8
  <2>. QED
    BY <1>2, <1>3, <1>7, <2>1, <2>2 DEF TypeInv
<1>10. CallsInv
  BY <1>6, <1>7 DEF CallsInv
<1>11. OrderInv
  <2>1. DOMAIN <<>> = {} /\ 1 .. 0 = {} /\ 0 + 1 .. 0 = {}
    OBVIOUS
  <2>2. Sorted(<<>>) /\ AllBefore(<<>>)
    BY <2>1 DEF Sorted, AllBefore
  <2>3. SplitAt(<<>>, 0, 1)
    BY <1>3, <2>1 DEF SplitAt
  <2>. QED
    BY <1>3, <1>6, <1>7, <2>2, <2>3 DEF OrderInv
<1>12. SwitchInv
  <2>1. \A kind : ~OffBy(1, kind)
    BY <1>6, <1>7 DEF OffBy, Switches
  <2>. QED
    BY <1>6, <1>7, <2>1 DEF SwitchInv
<1>13. VisitInv
  <2>1. ASSUME NEW id \in Leaves  PROVE ToCome(id)
    <3>1. IsPrefix(Root, id)
      <4>1. id \in Ids /\ id \in Seq(Nat) /\ Root \in Seq(Nat)
        BY <1>2 DEF Leaves, TreeInv
      <4>2. CASE Root = <<>>
        <5>1. Len(Root) <= Len(id) /\ \A j \in 1 .. Len(Root) : Root[j] = id[j]
          BY <1>3, <4>1, <4>2
        <5>. QED
          BY <4>1, <5>1, PrefixIs
      <4>3. CASE Root # <<>>
        <5>1. id = Root
          BY <1>2, <4>1, <4>3 DEF TreeInv
        <5>. QED
          BY <4>1, <5>1, PrefixReflexive
      <4>. QED
        BY <4>2, <4>3
    <3>2. 1 \in stack[1].next .. Len(stack[1].parts) /\ stack[1].parts[1] = Root
      BY <1>6, <1>7, <1>8
    <3>. QED
      BY <1>7, <3>1, <3>2 DEF ToCome
  <2>2. ToSet(attachments) = {}
    BY <1>3 DEF ToSet
  <2>. QED
    BY <2>1, <2>2 DEF VisitInv
<1>14. AlternativeInv
  <2>1. ~\E j \in 1 .. 1 : stack[j].type = "alternative"
    BY <1>6, <1>7
  <2>2. ~Outermost(1)
    BY <1>6, <1>7 DEF Outermost
  <2>. QED
    BY <1>3, <1>6, <1>7, <2>1, <2>2 DEF AlternativeInv
<1>. QED
  BY <1>9, <1>10, <1>11, <1>12, <1>13, <1>14 DEF IInv

LEMMA StepHolds ==
  ASSUME IInv, [Next]_vars
  PROVE  IInv'
<1>1. CASE Next
  BY <1>1, TypesKept, CallsKept, OrderKept, SwitchKept, VisitKept, AlternativeKept DEF IInv
<1>2. CASE UNCHANGED vars
  <2>1. tree' = tree /\ stack' = stack /\ textBody' = textBody /\ htmlBody' = htmlBody /\ attachments' = attachments
    BY <1>2 DEF vars
  <2>2. TypeInv'
    <3>1. Ids' = Ids /\ Root' = Root /\ Calls' = Calls /\ \A id : Children(id)' = Children(id)
      BY <2>1 DEF Ids, Root, Calls, Children
    <3>2. TreeInv' <=> TreeInv
      BY <2>1, <3>1 DEF TreeInv
    <3>3. Frame' = Frame
      BY <2>1, <3>1 DEF Frame, Types
    <3>. QED
      BY <2>1, <3>1, <3>2, <3>3 DEF IInv, TypeInv
  <2>3. CallsInv'
    BY <2>1 DEF IInv, CallsInv, InPlace, Passing, Calls, Root, Ids, Children, InsideAlternative, Enclosing
  <2>4. OrderInv'
    <3>1. Calls' = Calls
      BY <2>1 DEF Calls
    <3>2. \A list : AllBefore(list)' <=> AllBefore(list)
      BY <2>1, <3>1 DEF AllBefore, BeforeRest
    <3>3. \A list, e, i : SplitAt(list, e, i)' <=> SplitAt(list, e, i)
      BY <2>1 DEF SplitAt
    <3>4. PICK text, html, files, calls :
            text = textBody /\ html = htmlBody /\ files = attachments /\ calls = stack
      BY Zenon
    <3>5. /\ Sorted(text) /\ AllBefore(text)' /\ Sorted(html) /\ AllBefore(html)'
          /\ Sorted(files) /\ AllBefore(files)'
          /\ \A i \in Calls : calls[i].textOn => SplitAt(text, calls[i].textAtEntry, i)'
          /\ \A i \in Calls : calls[i].htmlOn => SplitAt(html, calls[i].htmlAtEntry, i)'
      BY <3>2, <3>3, <3>4 DEF IInv, OrderInv
    <3>6. Sorted(textBody)' /\ Sorted(htmlBody)' /\ Sorted(attachments)'
      BY <2>1, <3>4, <3>5 DEF Sorted
    <3>7. AllBefore(textBody)' /\ AllBefore(htmlBody)' /\ AllBefore(attachments)'
      BY <2>1, <3>4, <3>5 DEF AllBefore
    <3>8. \A i \in Calls' : stack'[i].textOn => SplitAt(textBody, stack[i].textAtEntry, i)'
      BY <2>1, <3>1, <3>4, <3>5 DEF SplitAt
    <3>9. \A i \in Calls' : stack'[i].htmlOn => SplitAt(htmlBody, stack[i].htmlAtEntry, i)'
      BY <2>1, <3>1, <3>4, <3>5 DEF SplitAt
    <3>. QED
      BY <3>6, <3>7, <3>8, <3>9 DEF OrderInv
  <2>5. SwitchInv'
    BY <2>1 DEF IInv, SwitchInv, OffBy, Switches, Calls
  <2>6. VisitInv'
    <3>1. Leaves' = Leaves /\ Calls' = Calls
      BY <2>1 DEF Leaves, Ids, Calls
    <3>2. \A id : Settled(id) => Settled(id)'
      <4>1. ASSUME NEW id, Settled(id)  PROVE Settled(id)'
        BY <2>1, <4>1, SettledStays
      <4>. QED
        BY <4>1
    <3>3. \A id : ToCome(id)' <=> ToCome(id)
      BY <2>1 DEF ToCome, Calls
    <3>4. \A id : (Media(id)' <=> Media(id)) /\ (SomeOff(id)' <=> SomeOff(id))
      BY <2>1 DEF Media, SomeOff, SwitchesOff, ShownInline, InsideAlternative, Enclosing, Leaves, Ids
    <3>5. \A id \in Leaves' : ToCome(id)' \/ Settled(id)'
      BY <3>1, <3>2, <3>3 DEF IInv, VisitInv
    <3>6. \A id \in ToSet(attachments') : Media(id)' => SomeOff(id)'
      BY <2>1, <3>4 DEF IInv, VisitInv
    <3>. QED
      BY <3>5, <3>6 DEF VisitInv
  <2>7. AlternativeInv'
    BY <2>1 DEF IInv, AlternativeInv, Outermost, Calls
  <2>. QED
    BY <2>2, <2>3, <2>4, <2>5, <2>6, <2>7 DEF IInv
<1>. QED
  BY <1>1, <1>2

\* In every state of the walk over every message the calls stand where
\* parse_structure (walk.rs:119-248) puts them, what is listed stands before
\* what is to come, a list is off just for what text passed in an open call
\* switches it off for, and every leaf is still to come or where it belongs.
THEOREM WalkInvariant == Spec => []IInv
<1>. QED
  BY InitHolds, StepHolds, PTL DEF Spec

\* For every message, each of textBody, htmlBody and attachments is in message
\* order with no part twice, although the end of an alternative copies parts
\* into the other list (walk.rs:225-248).
THEOREM ListsInOrder == Spec => []DocumentOrder
<1>1. IInv => DocumentOrder
  BY Zenon DEF IInv, OrderInv, Sorted, DocumentOrder
<1>. QED
  BY <1>1, WalkInvariant, PTL

\* For every message no leaf is lost: each is listed, or is text superseded by
\* text of the other kind in its branch of an alternative (walk.rs:197-222).
THEOREM LeavesAreListed == Spec => []NothingDropped
<1>1. ASSUME IInv, Done  PROVE \A id \in Leaves : Settled(id)
  <2>1. Calls = {}
    BY <1>1 DEF Done, Running, Calls
  <2>. QED
    BY <1>1, <2>1 DEF IInv, VisitInv, ToCome
<1>2. IInv => NothingDropped
  BY <1>1 DEF NothingDropped, Settled
<1>. QED
  BY <1>2, WalkInvariant, PTL

\* For every message a list that is switched off is so for what follows in the
\* same container and for nothing else (as_child, walk.rs:65-76).
THEOREM SwitchingIsScoped == Spec => []SwitchingScoped
<1>1. ASSUME IInv, Done  PROVE SwitchingScoped
  <2>1. Calls = {}
    BY <1>1 DEF Done, Running, Calls
  <2>2. /\ \A id \in Leaves : Settled(id)
        /\ \A id \in ToSet(attachments) : Media(id) => SomeOff(id)
    BY <1>1, <2>1 DEF IInv, VisitInv, ToCome
  <2>. QED
    BY <2>2 DEF SwitchingScoped, Settled, Media, SomeOff
<1>2. IInv => SwitchingScoped
  BY <1>1 DEF SwitchingScoped
<1>. QED
  BY <1>2, WalkInvariant, PTL

\* For every message both body lists show something or neither does: what an
\* alternative adds to one list only is copied to the other (walk.rs:225-248).
THEOREM BodiesAgree == Spec => []BothOrNeither
<1>1. ASSUME IInv, Done  PROVE textBody = <<>> <=> htmlBody = <<>>
  <2>1. Calls = {}
    BY <1>1 DEF Done, Running, Calls
  <2>. QED
    BY <1>1, <2>1 DEF IInv, AlternativeInv
<1>2. IInv => BothOrNeither
  BY <1>1 DEF BothOrNeither
<1>. QED
  BY <1>2, WalkInvariant, PTL

-----------------------------------------------------------------------------
(* Header values: what the loop over the characters of a value collects.   *)

\* One more character is kept unless it is white space.
LEMMA NotWhiteAppend ==
  ASSUME NEW C, NEW s \in Seq(C), NEW c \in C
  PROVE  /\ NotWhite(s) \in Seq(C)
         /\ NotWhite(Append(s, c)) = IF c \in White THEN NotWhite(s) ELSE Append(NotWhite(s), c)
<1>. DEFINE Kept(t) == [i \in DOMAIN t |-> IF t[i] \in White THEN <<>> ELSE <<t[i]>>]
            last == IF c \in White THEN <<>> ELSE <<c>>
            more == Append(s, c)
<1>1. /\ Len(s) \in Nat /\ DOMAIN s = 1 .. Len(s) /\ \A i \in 1 .. Len(s) : s[i] \in C
      /\ more \in Seq(C) /\ Len(more) = Len(s) + 1 /\ DOMAIN more = 1 .. Len(s) + 1
      /\ more[Len(s) + 1] = c /\ \A i \in 1 .. Len(s) : more[i] = s[i]
  BY AppendProperties, LenProperties
<1>2. last \in Seq(C)
  OBVIOUS
<1>. HIDE DEF more, last
<1>3. Kept(s) \in Seq(Seq(C)) /\ Len(Kept(s)) = Len(s)
  <2>1. \A i \in DOMAIN s : (IF s[i] \in White THEN <<>> ELSE <<s[i]>>) \in Seq(C)
    BY <1>1
  <2>. QED
    BY <1>1, <2>1
<1>4. Kept(more) = Append(Kept(s), last)
  <2>1. Kept(more) \in Seq(Seq(C)) /\ Len(Kept(more)) = Len(s) + 1
    <3>1. \A i \in DOMAIN more : (IF more[i] \in White THEN <<>> ELSE <<more[i]>>) \in Seq(C)
      BY <1>1
    <3>. QED
      BY <1>1, <3>1
  <2>2. /\ Append(Kept(s), last) \in Seq(Seq(C)) /\ Len(Append(Kept(s), last)) = Len(s) + 1
        /\ \A i \in 1 .. Len(s) : Append(Kept(s), last)[i] = Kept(s)[i]
        /\ Append(Kept(s), last)[Len(s) + 1] = last
    <3>. DEFINE k == Kept(s)
    <3>. HIDE DEF k
    <3>1. k \in Seq(Seq(C)) /\ Len(k) = Len(s)
      BY <1>3 DEF k
    <3>2. /\ Append(k, last) \in Seq(Seq(C)) /\ Len(Append(k, last)) = Len(s) + 1
          /\ \A i \in 1 .. Len(s) : Append(k, last)[i] = k[i]
          /\ Append(k, last)[Len(s) + 1] = last
      BY <1>1, <1>2, <3>1, AppendProperties
    <3>. QED
      BY <3>2 DEF k
  <2>3. \A i \in 1 .. Len(s) + 1 : i \in DOMAIN more /\ (i \in DOMAIN s \/ i = Len(s) + 1)
    BY <1>1
  <2>4. ASSUME NEW i \in 1 .. Len(s) + 1  PROVE Kept(more)[i] = Append(Kept(s), last)[i]
    <3>1. CASE i = Len(s) + 1
      <4>1. Kept(more)[i] = last
        BY <1>1, <2>3, <3>1 DEF last
      <4>. QED
        BY <2>2, <3>1, <4>1
    <3>2. CASE i # Len(s) + 1
      <4>1. i \in 1 .. Len(s) /\ i \in DOMAIN s
        BY <1>1, <2>3, <3>2
      <4>2. Kept(more)[i] = Kept(s)[i]
        BY <1>1, <2>3, <4>1
      <4>. QED
        BY <2>2, <4>1, <4>2
    <3>. QED
      BY <3>1, <3>2
  <2>. HIDE DEF Kept
  <2>. QED
    BY <2>1, <2>2, <2>4, SeqEqual
<1>5. NotWhite(s) = FlattenSeq(Kept(s)) /\ NotWhite(more) = FlattenSeq(Kept(more))
  BY Zenon DEF NotWhite
<1>. HIDE DEF Kept
<1>6. FlattenSeq(Kept(s)) \in Seq(C)
  BY <1>3, FlattenTyped
<1>7. FlattenSeq(Kept(more)) = FlattenSeq(Kept(s)) \o last
  BY <1>2, <1>3, <1>4, FlattenAppend
<1>8. CASE c \in White
  <2>1. last = <<>>
    BY <1>8 DEF last
  <2>. QED
    BY <1>5, <1>6, <1>7, <1>8, <2>1, ConcatEmptySeq DEF more
<1>9. CASE c \notin White
  <2>1. last = <<c>>
    BY <1>9 DEF last
  <2>2. FlattenSeq(Kept(s)) \o <<c>> = Append(FlattenSeq(Kept(s)), c)
    BY <1>6
  <2>. QED
    BY <1>5, <1>6, <1>7, <1>9, <2>1, <2>2 DEF more
<1>. QED
  BY <1>8, <1>9

\* Which opening brackets are open behind one more character.
LEMMA OpeningsStep ==
  ASSUME NEW raw, NEW i \in Nat \ {0}
  PROVE  /\ Openings(raw, i - 1) \in SUBSET (1 .. i - 1)
         /\ raw[i] = ">" => Openings(raw, i) = {}
         /\ raw[i] = "<" => Openings(raw, i) = Openings(raw, i - 1) \cup {i}
         /\ raw[i] \notin {"<", ">"} => Openings(raw, i) = Openings(raw, i - 1)
<1>1. Openings(raw, i - 1) \in SUBSET (1 .. i - 1)
  BY DEF Openings
<1>2. \A k : k \in 1 .. i <=> k \in 1 .. i - 1 \/ k = i
  OBVIOUS
<1>3. \A k \in 1 .. i - 1 : \A j : j \in k .. i <=> j \in k .. i - 1 \/ j = i
  OBVIOUS
<1>4. \A j \in i .. i : j = i
  OBVIOUS
<1>5. ASSUME raw[i] = ">"  PROVE Openings(raw, i) = {}
  <2>1. \A k \in 1 .. i : i \in k .. i
    OBVIOUS
  <2>. QED
    BY <1>5, <2>1 DEF Openings
<1>6. ASSUME raw[i] = "<"  PROVE Openings(raw, i) = Openings(raw, i - 1) \cup {i}
  BY <1>2, <1>3, <1>4, <1>6 DEF Openings
<1>7. ASSUME raw[i] \notin {"<", ">"}  PROVE Openings(raw, i) = Openings(raw, i - 1)
  BY <1>2, <1>3, <1>7 DEF Openings
<1>. QED
  BY <1>1, <1>5, <1>6, <1>7

\* What stands in the bracket that is open, character by character.
LEMMA OpenedStep ==
  ASSUME NEW C, NEW raw \in Seq(C), NEW i \in 1 .. Len(raw), raw[i] # ">"
  PROVE  /\ Openings(raw, i - 1) = {} /\ raw[i] = "<" => Opened(raw, i) = <<>>
         /\ Openings(raw, i - 1) # {} =>
              /\ Opened(raw, i - 1) \in Seq(C)
              /\ Opened(raw, i) = IF raw[i] \in White THEN Opened(raw, i - 1)
                                  ELSE Append(Opened(raw, i - 1), raw[i])
<1>1. Len(raw) \in Nat /\ i \in Nat \ {0} /\ i \in Nat /\ i <= Len(raw) /\ raw[i] \in C
  BY LenProperties, ElementOfSeq
<1>2. ASSUME Openings(raw, i - 1) = {}, raw[i] = "<"  PROVE Opened(raw, i) = <<>>
  <2>1. Openings(raw, i) = {i}
    BY <1>1, <1>2, OpeningsStep
  <2>2. Min({i}) = i
    <3>1. {i} \in SUBSET Nat /\ {i} # {}
      BY <1>1
    <3>2. Min({i}) \in {i}
      BY <3>1, MinOfNat
    <3>. QED
      BY <3>2
  <2>3. SubSeq(raw, i + 1, i) = <<>>
    BY <1>1, SubSeqEmpty
  <2>4. NotWhite(<<>>) = <<>>
    <3>1. [k \in DOMAIN <<>> |-> IF <<>>[k] \in White THEN <<>> ELSE <<(<<>>)[k]>>] = <<>>
      OBVIOUS
    <3>. QED
      BY <3>1 DEF NotWhite, FlattenSeq
  <2>. QED
    BY <2>1, <2>2, <2>3, <2>4 DEF Opened
<1>3. ASSUME Openings(raw, i - 1) # {}
      PROVE  /\ Opened(raw, i - 1) \in Seq(C)
             /\ Opened(raw, i) = IF raw[i] \in White THEN Opened(raw, i - 1)
                                 ELSE Append(Opened(raw, i - 1), raw[i])
  <2>. DEFINE before == Openings(raw, i - 1)
              m == Min(before)
              piece == SubSeq(raw, m + 1, i - 1)
  <2>1. before \in SUBSET (1 .. i - 1) /\ before \in SUBSET Nat
    <3>1. before \in SUBSET (1 .. i - 1)
      BY <1>1, OpeningsStep
    <3>. HIDE DEF before
    <3>. QED
      BY <1>1, <3>1
  <2>2. m \in before /\ (\A y \in before : m <= y) /\ m \in 1 .. i - 1
    BY <1>3, <2>1, MinOfNat
  <2>3. Min(Openings(raw, i)) = m
    <3>1. Openings(raw, i) = before \/ Openings(raw, i) = before \cup {i}
      BY <1>1, OpeningsStep
    <3>2. CASE Openings(raw, i) = before
      BY <3>2
    <3>3. CASE Openings(raw, i) = before \cup {i}
      <4>. DEFINE M == before \cup {i}
      <4>1. M \in SUBSET Nat /\ m \in M /\ \A y \in M : m <= y
        BY <1>1, <2>1, <2>2
      <4>. HIDE DEF M, m
      <4>2. Min(M) = m
        BY <4>1, MinUnique
      <4>. QED
        BY <3>3, <4>2 DEF M
    <3>. QED
      BY <3>1, <3>2, <3>3
  <2>. HIDE DEF m, before
  <2>4. piece \in Seq(C)
    BY <1>1, <2>2
  <2>5. SubSeq(raw, m + 1, i) = Append(piece, raw[i])
    <3>1. m + 1 \in Int /\ i \in m + 1 .. Len(raw) /\ m \in 1 .. i - 1
      BY <1>1, <2>2
    <3>. QED
      BY <1>1, <2>2
  <2>6. Opened(raw, i - 1) = NotWhite(piece) /\ Opened(raw, i) = NotWhite(Append(piece, raw[i]))
    BY <2>3, <2>5 DEF Opened, m, before
  <2>. HIDE DEF piece
  <2>. QED
    BY <1>1, <2>4, <2>6, NotWhiteAppend
<1>. QED
  BY <1>2, <1>3

LEMMA ClosedByTyped ==
  ASSUME NEW C, NEW raw \in Seq(C), NEW i \in 1 .. Len(raw)
  PROVE  ClosedBy(raw, i) \in Seq(Seq(C))
<1>1. CASE Openings(raw, i - 1) = {} \/ raw[i] # ">"
  <2>1. ClosedBy(raw, i) = <<>>
    BY <1>1 DEF ClosedBy
  <2>. QED
    BY <2>1
<1>2. CASE Openings(raw, i - 1) # {} /\ raw[i] = ">"
  <2>. DEFINE m == Min(Openings(raw, i - 1))
  <2>1. Len(raw) \in Nat /\ i \in Nat \ {0}
    BY LenProperties
  <2>2. Openings(raw, i - 1) \in SUBSET (1 .. i - 1)
    BY <2>1, OpeningsStep
  <2>3. \A k \in 1 .. i - 1 : k \in Nat
    OBVIOUS
  <2>4. m \in 1 .. i - 1
    <3>1. Openings(raw, i - 1) \in SUBSET Nat
      BY <2>2, <2>3
    <3>. QED
      BY <1>2, <2>2, <3>1, MinOfNat
  <2>. HIDE DEF m
  <2>5. SubSeq(raw, m + 1, i - 1) \in Seq(C)
    BY <2>1, <2>4
  <2>6. NotWhite(SubSeq(raw, m + 1, i - 1)) \in Seq(C)
    <3>1. CASE C = {}
      <4>1. raw[i] \in C
        BY ElementOfSeq
      <4>. QED
        BY <3>1, <4>1
    <3>2. CASE C # {}
      <4>1. PICK c : c \in C
        BY <3>2
      <4>. QED
        BY <2>5, <4>1, NotWhiteAppend
    <3>. QED
      BY <3>1, <3>2
  <2>7. Opened(raw, i - 1) \in Seq(C)
    BY <2>6 DEF Opened, m
  <2>8. ClosedBy(raw, i) = <<>> \/ ClosedBy(raw, i) = <<Opened(raw, i - 1)>>
    BY DEF ClosedBy
  <2>. DEFINE url == Opened(raw, i - 1)
  <2>. HIDE DEF url
  <2>9. url \in Seq(C)
    BY <2>7 DEF url
  <2>10. <<url>> \in Seq(Seq(C)) /\ <<>> \in Seq(Seq(C))
    BY <2>9
  <2>. QED
    BY <2>8, <2>10 DEF url
<1>. QED
  BY <1>1, <1>2

ClosedUpTo(raw, n) == FlattenSeq([k \in 1 .. n |-> ClosedBy(raw, k)])

\* The values closed up to a position, one position after the other.
LEMMA ClosedUpToStep ==
  ASSUME NEW C, NEW raw \in Seq(C)
  PROVE  /\ ClosedUpTo(raw, 0) = <<>>
         /\ \A i \in 1 .. Len(raw) :
              /\ ClosedUpTo(raw, i - 1) \in Seq(Seq(C))
              /\ ClosedUpTo(raw, i) = ClosedUpTo(raw, i - 1) \o ClosedBy(raw, i)
         /\ Bracketed(raw) = ClosedUpTo(raw, Len(raw))
<1>1. Len(raw) \in Nat /\ DOMAIN raw = 1 .. Len(raw)
  BY LenProperties
<1>2. ClosedUpTo(raw, 0) = <<>>
  <2>1. [k \in 1 .. 0 |-> ClosedBy(raw, k)] = <<>>
    OBVIOUS
  <2>. QED
    BY <2>1 DEF ClosedUpTo, FlattenSeq
<1>3. Bracketed(raw) = ClosedUpTo(raw, Len(raw))
  BY <1>1, Zenon DEF Bracketed, ClosedUpTo
<1>4. ASSUME NEW i \in 1 .. Len(raw)
      PROVE  /\ ClosedUpTo(raw, i - 1) \in Seq(Seq(C))
             /\ ClosedUpTo(raw, i) = ClosedUpTo(raw, i - 1) \o ClosedBy(raw, i)
  <2>. DEFINE s == [k \in 1 .. i - 1 |-> ClosedBy(raw, k)]
              t == [k \in 1 .. i |-> ClosedBy(raw, k)]
              last == ClosedBy(raw, i)
  <2>1. i \in Nat /\ i - 1 \in Nat /\ \A k \in 1 .. i : k \in 1 .. Len(raw)
    BY <1>1
  <2>2. \A k \in 1 .. i : ClosedBy(raw, k) \in Seq(Seq(C))
    BY <2>1, ClosedByTyped
  <2>3. s \in Seq(Seq(Seq(C))) /\ Len(s) = i - 1 /\ t \in Seq(Seq(Seq(C))) /\ Len(t) = i
    <3>1. \A k \in 1 .. i - 1 : k \in 1 .. i
      BY <2>1
    <3>. QED
      BY <2>1, <2>2, <3>1
  <2>4. last \in Seq(Seq(C))
    BY <2>1, <2>2
  <2>5. (\A k \in 1 .. i - 1 : t[k] = s[k]) /\ t[i] = last
    BY <2>1
  <2>. HIDE DEF s, t, last
  <2>6. /\ Append(s, last) \in Seq(Seq(Seq(C))) /\ Len(Append(s, last)) = i
        /\ \A k \in 1 .. i - 1 : Append(s, last)[k] = s[k]
        /\ Append(s, last)[i] = last
    BY <2>1, <2>3, <2>4, AppendProperties
  <2>7. \A k \in 1 .. i : k \in 1 .. i - 1 \/ k = i
    BY <2>1
  <2>8. t = Append(s, last)
    BY <2>3, <2>5, <2>6, <2>7, SeqEqual
  <2>9. FlattenSeq(s) \in Seq(Seq(C)) /\ FlattenSeq(t) = FlattenSeq(s) \o last
    BY <2>3, <2>4, <2>8, FlattenTyped, FlattenAppend
  <2>. QED
    BY <2>9 DEF ClosedUpTo, s, t, last
<1>. QED
  BY <1>2, <1>3, <1>4

\* Where the loop over the characters stands.
StateAt(raw, i) ==
  IF Openings(raw, i) = {} THEN Outside(ClosedUpTo(raw, i))
  ELSE Inside(Outside(ClosedUpTo(raw, i)), Opened(raw, i))

LEMMA StateStep ==
  ASSUME NEW C, NEW raw \in Seq(C), NEW i \in 1 .. Len(raw)
  PROVE  StateAt(raw, i) = UrlStep(StateAt(raw, i - 1), raw[i])
<1>. DEFINE c == raw[i]
            urls == ClosedUpTo(raw, i - 1)
            url == Opened(raw, i - 1)
<1>1. /\ i \in Nat \ {0} /\ urls \in Seq(Seq(C))
      /\ ClosedUpTo(raw, i) = urls \o ClosedBy(raw, i)
  BY LenProperties, ClosedUpToStep
<1>. HIDE DEF urls
<1>2. ASSUME c # ">"  PROVE ClosedUpTo(raw, i) = urls
  <2>1. ClosedBy(raw, i) = <<>>
    BY <1>2 DEF ClosedBy
  <2>. QED
    BY <1>1, <2>1, ConcatEmptySeq
<1>3. CASE Openings(raw, i - 1) = {} /\ c = "<"
  <2>1. Openings(raw, i) # {}
    BY <1>1, <1>3, OpeningsStep
  <2>2. Opened(raw, i) = <<>> /\ ClosedUpTo(raw, i) = urls
    BY <1>2, <1>3, OpenedStep
  <2>3. StateAt(raw, i - 1) = Outside(urls) /\ StateAt(raw, i) = Inside(Outside(urls), <<>>)
    BY <1>3, <2>1, <2>2, Zenon DEF StateAt, urls
  <2>. QED
    BY <1>3, <2>3 DEF UrlStep, Outside
<1>4. CASE Openings(raw, i - 1) = {} /\ c # "<"
  <2>1. Openings(raw, i) = {}
    BY <1>1, <1>4, OpeningsStep
  <2>2. ClosedUpTo(raw, i) = urls
    <3>1. ClosedBy(raw, i) = <<>>
      BY <1>4 DEF ClosedBy
    <3>. QED
      BY <1>1, <3>1, ConcatEmptySeq
  <2>3. StateAt(raw, i - 1) = Outside(urls) /\ StateAt(raw, i) = Outside(urls)
    BY <1>4, <2>1, <2>2, Zenon DEF StateAt, urls
  <2>. QED
    BY <1>4, <2>3 DEF UrlStep, Outside
<1>5. CASE Openings(raw, i - 1) # {} /\ c = ">"
  <2>1. Openings(raw, i) = {}
    BY <1>1, <1>5, OpeningsStep
  <2>2. StateAt(raw, i - 1) = Inside(Outside(urls), url) /\ StateAt(raw, i) = Outside(ClosedUpTo(raw, i))
    BY <1>5, <2>1, Zenon DEF StateAt, urls
  <2>3. UrlStep(StateAt(raw, i - 1), c)
          = Outside(IF url = <<>> \/ "bad" \in ToSet(url) THEN urls ELSE Append(urls, url))
    <3>. HIDE DEF url
    <3>. QED
      BY <1>5, <2>2 DEF UrlStep, Outside, Inside, Closed
  <2>4. ClosedBy(raw, i) = IF url = <<>> \/ "bad" \in ToSet(url) THEN <<>> ELSE <<url>>
    BY <1>5, Zenon DEF ClosedBy
  <2>5. CASE url = <<>> \/ "bad" \in ToSet(url)
    BY <1>1, <2>2, <2>3, <2>4, <2>5, ConcatEmptySeq
  <2>6. CASE ~(url = <<>> \/ "bad" \in ToSet(url))
    <3>1. ClosedBy(raw, i) = <<url>> /\ <<url>> \in Seq(Seq(C))
      <4>1. ClosedBy(raw, i) \in Seq(Seq(C))
        BY ClosedByTyped
      <4>. QED
        BY <2>4, <2>6, <4>1
    <3>2. url \in Seq(C)
      <4>. HIDE DEF url
      <4>1. <<url>>[1] \in Seq(C)
        BY <3>1, ElementOfSeq
      <4>. QED
        BY <4>1
    <3>. HIDE DEF url
    <3>3. urls \o <<url>> = Append(urls, url)
      BY <1>1, <3>2
    <3>. QED
      BY <1>1, <2>2, <2>3, <2>6, <3>1, <3>3
  <2>. QED
    BY <2>5, <2>6
<1>6. CASE Openings(raw, i - 1) # {} /\ c # ">"
  <2>1. Openings(raw, i) # {}
    <3>1. c = "<" \/ c \notin {"<", ">"}
      BY <1>6
    <3>. QED
      BY <1>1, <1>6, <3>1, OpeningsStep
  <2>2. Opened(raw, i) = IF c \in White THEN url ELSE Append(url, c)
    BY <1>6, OpenedStep
  <2>3. /\ StateAt(raw, i - 1) = Inside(Outside(urls), url)
        /\ StateAt(raw, i) = Inside(Outside(urls), Opened(raw, i))
    <3>1. ClosedUpTo(raw, i) = urls
      BY <1>2, <1>6
    <3>. QED
      BY <1>6, <2>1, <3>1, Zenon DEF StateAt, urls
  <2>. HIDE DEF url
  <2>. QED
    BY <1>6, <2>2, <2>3 DEF UrlStep, Outside, Inside
<1>. QED
  BY <1>3, <1>4, <1>5, <1>6

\* The loop collects what stands in brackets.
LEMMA ExtractIsBracketed ==
  ASSUME NEW C, NEW raw \in Seq(C)
  PROVE  ExtractBracketedUrls(raw) = Bracketed(raw)
<1>. DEFINE n == Len(raw)
            Loop(f) == [i \in 0 .. n |->
                          IF i = 0 THEN Outside(<<>>) ELSE UrlStep(f[i - 1], raw[i])]
            w == [i \in 0 .. n |-> StateAt(raw, i)]
            g == CHOOSE f : f = Loop(f)
<1>1. n \in Nat
  BY LenProperties
<1>2. StateAt(raw, 0) = Outside(<<>>)
  <2>1. Openings(raw, 0) = {}
    BY DEF Openings
  <2>. QED
    BY <2>1, ClosedUpToStep DEF StateAt
<1>3. ASSUME NEW i \in 1 .. n  PROVE StateAt(raw, i) = UrlStep(StateAt(raw, i - 1), raw[i])
  BY <1>3, StateStep
<1>4. ExtractBracketedUrls(raw) = g[n].urls
  BY Zenon DEF ExtractBracketedUrls
<1>5. w = Loop(w)
  <2>1. ASSUME NEW i \in 0 .. n
        PROVE  w[i] = IF i = 0 THEN Outside(<<>>) ELSE UrlStep(w[i - 1], raw[i])
    <3>1. CASE i = 0
      BY <1>2, <3>1
    <3>2. CASE i # 0
      <4>1. i \in 1 .. n /\ i - 1 \in 0 .. n
        BY <1>1, <3>2
      <4>. QED
        BY <1>3, <3>2, <4>1
    <3>. QED
      BY <3>1, <3>2
  <2>. QED
    BY <2>1
<1>6. g = Loop(g)
  <2>. HIDE DEF w, Loop
  <2>. QED
    BY <1>5, Zenon
<1>7. \A i \in 0 .. n : g[i] = IF i = 0 THEN Outside(<<>>) ELSE UrlStep(g[i - 1], raw[i])
  <2>. HIDE DEF g
  <2>. QED
    BY <1>6
<1>. HIDE DEF g, Loop
<1>. DEFINE Good == {i \in 0 .. n : g[i] = StateAt(raw, i)}
<1>8. 0 \in Good
  <2>1. 0 \in 0 .. n
    BY <1>1
  <2>. QED
    BY <1>2, <1>7, <2>1
<1>9. ASSUME NEW i \in 1 .. n, i - 1 \in Good  PROVE i \in Good
  <2>1. i \in 0 .. n /\ i # 0 /\ g[i - 1] = StateAt(raw, i - 1)
    BY <1>1, <1>9
  <2>2. g[i] = UrlStep(g[i - 1], raw[i])
    BY <1>7, <2>1
  <2>. QED
    BY <1>3, <2>1, <2>2
<1>. HIDE DEF Good
<1>10. n \in Good
  <2>1. n \in 0 .. n
    BY <1>1
  <2>. HIDE DEF n
  <2>2. \A i \in 0 .. n : i \in Good
    BY <1>1, <1>8, <1>9, UpTo
  <2>. QED
    BY <2>1, <2>2
<1>11. g[n] = StateAt(raw, n)
  BY <1>10 DEF Good
<1>12. StateAt(raw, n).urls = ClosedUpTo(raw, n)
  BY DEF StateAt, Outside, Inside
<1>. QED
  BY <1>4, <1>11, <1>12, ClosedUpToStep

\* White space behind a value changes nothing of what its brackets hold.
LEMMA BracketsBeforeWhite ==
  ASSUME NEW C, NEW raw \in Seq(C), NEW w \in White \cap C
  PROVE  /\ Bracketed(Append(raw, w)) = Bracketed(raw)
         /\ HasBracket(Append(raw, w)) <=> HasBracket(raw)
<1>. DEFINE more == Append(raw, w)
            n == Len(raw)
<1>1. /\ n \in Nat /\ more \in Seq(C) /\ Len(more) = n + 1 /\ more[n + 1] = w
      /\ \A i \in 1 .. n : more[i] = raw[i]
      /\ DOMAIN raw = 1 .. n /\ DOMAIN more = 1 .. n + 1
      /\ w # ">" /\ w # "<"
  <2>1. w \in C /\ w \in White
    OBVIOUS
  <2>2. w # ">" /\ w # "<"
    BY <2>1 DEF White
  <2>3. /\ n \in Nat /\ more \in Seq(C) /\ Len(more) = n + 1 /\ more[n + 1] = w
        /\ \A i \in 1 .. n : more[i] = raw[i]
    BY <2>1, AppendProperties, LenProperties
  <2>. HIDE DEF more
  <2>4. DOMAIN raw = 1 .. n /\ DOMAIN more = 1 .. n + 1
    BY <2>3, LenProperties
  <2>. QED
    BY <2>2, <2>3, <2>4
<1>. HIDE DEF more, n
<1>2. ASSUME NEW k \in 0 .. n  PROVE Openings(more, k) = Openings(raw, k)
  <2>1. \A i \in 1 .. k : i \in 1 .. n /\ \A j \in i .. k : j \in 1 .. n
    BY <1>1
  <2>2. \A i \in 1 .. k : more[i] = raw[i] /\ \A j \in i .. k : more[j] = raw[j]
    BY <1>1, <2>1
  <2>. QED
    BY <2>2 DEF Openings
<1>3. ASSUME NEW k \in 0 .. n, Openings(raw, k) # {}  PROVE Opened(more, k) = Opened(raw, k)
  <2>. DEFINE m == Min(Openings(raw, k))
  <2>1. Openings(raw, k) \in SUBSET Nat /\ Openings(raw, k) \in SUBSET (1 .. k)
    BY DEF Openings
  <2>2. m \in 1 .. k
    BY <1>3, <2>1, MinOfNat
  <2>. HIDE DEF m
  <2>3. SubSeq(more, m + 1, k) = SubSeq(raw, m + 1, k)
    <3>1. /\ SubSeq(more, m + 1, k) \in Seq(C) /\ Len(SubSeq(more, m + 1, k)) = k - m
          /\ SubSeq(raw, m + 1, k) \in Seq(C) /\ Len(SubSeq(raw, m + 1, k)) = k - m
      BY <1>1, <2>2 DEF n
    <3>2. ASSUME NEW i \in 1 .. k - m  PROVE SubSeq(more, m + 1, k)[i] = SubSeq(raw, m + 1, k)[i]
      <4>1. m + i \in 1 .. n /\ (m + 1) + i - 1 = m + i
        BY <1>1, <2>2
      <4>2. SubSeq(more, m + 1, k)[i] = more[m + i] /\ SubSeq(raw, m + 1, k)[i] = raw[m + i]
        BY <1>1, <2>2, <4>1 DEF n
      <4>. QED
        BY <1>1, <4>1, <4>2
    <3>. QED
      BY <3>1, <3>2, SeqEqual
  <2>4. Min(Openings(more, k)) = m
    BY <1>2 DEF m
  <2>. QED
    BY <2>3, <2>4 DEF Opened, m
<1>4. ASSUME NEW k \in 1 .. n  PROVE ClosedBy(more, k) = ClosedBy(raw, k)
  <2>1. k - 1 \in 0 .. n /\ more[k] = raw[k]
    BY <1>1
  <2>2. Openings(more, k - 1) = Openings(raw, k - 1)
    BY <1>2, <2>1
  <2>3. CASE Openings(raw, k - 1) = {}
    BY <2>2, <2>3 DEF ClosedBy
  <2>4. CASE Openings(raw, k - 1) # {}
    <3>1. Opened(more, k - 1) = Opened(raw, k - 1)
      BY <1>3, <2>1, <2>4
    <3>. QED
      BY <2>1, <2>2, <3>1 DEF ClosedBy
  <2>. QED
    BY <2>3, <2>4
<1>5. ClosedUpTo(more, n) = ClosedUpTo(raw, n)
  <2>1. [k \in 1 .. n |-> ClosedBy(more, k)] = [k \in 1 .. n |-> ClosedBy(raw, k)]
    BY <1>4
  <2>. QED
    BY <2>1 DEF ClosedUpTo
<1>6. ClosedBy(more, n + 1) = <<>>
  BY <1>1 DEF ClosedBy
<1>7. /\ Bracketed(raw) = ClosedUpTo(raw, n)
      /\ Bracketed(more) = ClosedUpTo(more, n + 1)
      /\ ClosedUpTo(more, n) \in Seq(Seq(C))
      /\ ClosedUpTo(more, n + 1) = ClosedUpTo(more, n) \o ClosedBy(more, n + 1)
  <2>1. n + 1 \in 1 .. Len(more) /\ (n + 1) - 1 = n
    BY <1>1
  <2>2. Bracketed(raw) = ClosedUpTo(raw, n)
    BY ClosedUpToStep DEF n
  <2>3. Bracketed(more) = ClosedUpTo(more, n + 1)
    BY <1>1, ClosedUpToStep
  <2>4. /\ ClosedUpTo(more, (n + 1) - 1) \in Seq(Seq(C))
        /\ ClosedUpTo(more, n + 1) = ClosedUpTo(more, (n + 1) - 1) \o ClosedBy(more, n + 1)
    BY <1>1, <2>1, ClosedUpToStep
  <2>. QED
    BY <2>1, <2>2, <2>3, <2>4
<1>8. Bracketed(more) = Bracketed(raw)
  BY <1>5, <1>6, <1>7, ConcatEmptySeq
<1>9. HasBracket(more) <=> HasBracket(raw)
  <2>1. \A i \in 1 .. n + 1 : i \in 1 .. n \/ i = n + 1
    BY <1>1
  <2>2. \A i \in 1 .. n : i \in 1 .. n + 1
    BY <1>1
  <2>. QED
    BY <1>1, <2>1, <2>2 DEF HasBracket
<1>. QED
  BY <1>8, <1>9 DEF more

\* Without an opening bracket nothing is in brackets.
LEMMA NothingBracketed ==
  ASSUME NEW C, NEW raw \in Seq(C), ~HasBracket(raw)
  PROVE  Bracketed(raw) = <<>>
<1>. DEFINE closed == [i \in DOMAIN raw |-> ClosedBy(raw, i)]
<1>1. Len(raw) \in Nat /\ DOMAIN raw = 1 .. Len(raw)
  BY LenProperties
<1>2. ASSUME NEW i \in 1 .. Len(raw)  PROVE ClosedBy(raw, i) = <<>>
  <2>1. \A k \in 1 .. i - 1 : k \in DOMAIN raw
    BY <1>1
  <2>2. Openings(raw, i - 1) = {}
    BY <2>1 DEF Openings, HasBracket
  <2>. QED
    BY <2>2 DEF ClosedBy
<1>3. closed \in Seq(Seq(C)) /\ \A i \in 1 .. Len(closed) : Len(closed[i]) = 0
  <2>1. closed \in [1 .. Len(raw) -> Seq(C)] /\ \A i \in 1 .. Len(raw) : closed[i] = <<>>
    <3>1. \A i \in 1 .. Len(raw) : closed[i] = <<>>
      BY <1>1, <1>2
    <3>2. <<>> \in Seq(C)
      OBVIOUS
    <3>. QED
      BY <1>1, <3>1, <3>2
  <2>. HIDE DEF closed
  <2>. QED
    BY <1>1, <2>1
<1>. HIDE DEF closed
<1>4. Len(FlattenSeq(closed)) = 0 * Len(closed) /\ FlattenSeq(closed) \in Seq(C)
  BY <1>3, FlattenOfBlocks, FlattenTyped
<1>5. 0 * Len(closed) = 0
  BY <1>3
<1>6. FlattenSeq(closed) = <<>>
  BY <1>4, <1>5, EmptySeq
<1>. QED
  BY <1>6 DEF Bracketed, closed

-----------------------------------------------------------------------------
(* The end of a value.                                                     *)

LEMMA SuffixOfOne ==
  ASSUME NEW C, NEW s \in Seq(C), NEW x
  PROVE  IsSuffix(<<x>>, s) <=> Len(s) > 0 /\ s[Len(s)] = x
<1>1. Len(s) \in Nat
  BY LenProperties
<1>2. /\ Len(Reverse(s)) = Len(s) /\ Len(Reverse(<<x>>)) = 1
      /\ Reverse(<<x>>)[1] = x
  BY <1>1 DEF Reverse
<1>3. CASE Len(s) = 0
  BY <1>2, <1>3 DEF IsSuffix, IsPrefix
<1>4. CASE Len(s) > 0
  <2>1. Reverse(s)[1] = s[Len(s)] /\ Reverse(s) \in Seq(C)
    <3>1. (Len(s) - 1) + 1 = Len(s) /\ 1 \in 1 .. Len(s)
      BY <1>1, <1>4
    <3>2. \A i \in 1 .. Len(s) : (Len(s) - i) + 1 \in 1 .. Len(s)
      BY <1>1
    <3>. QED
      BY <1>1, <3>1, <3>2 DEF Reverse
  <2>2. SubSeq(Reverse(s), 1, 1) = <<s[Len(s)]>>
    BY <1>1, <1>2, <1>4, <2>1, SubSeqOfOne
  <2>3. Reverse(<<x>>) \in Seq({x})
    BY DEF Reverse
  <2>4. SubSeq(Reverse(<<x>>), 1, 1) = <<x>>
    BY <1>2, <2>3, SubSeqOfOne
  <2>. DEFINE r == Reverse(s)
              q == Reverse(<<x>>)
  <2>5. IsSuffix(<<x>>, s) <=> Len(q) <= Len(r) /\ SubSeq(q, 1, Len(q)) = SubSeq(r, 1, Len(q))
    BY Zenon DEF IsSuffix, IsPrefix
  <2>6. Len(q) = 1 /\ Len(r) = Len(s) /\ SubSeq(r, 1, 1) = <<s[Len(s)]>> /\ SubSeq(q, 1, 1) = <<x>>
    BY <1>2, <2>2, <2>4
  <2>. HIDE DEF r, q
  <2>7. IsSuffix(<<x>>, s) <=> <<x>> = <<s[Len(s)]>>
    <3>1. Len(q) <= Len(r)
      BY <1>1, <1>4, <2>6
    <3>. QED
      BY <2>5, <2>6, <3>1, Zenon
  <2>8. \A y : <<x>> = <<y>> <=> x = y
    OBVIOUS
  <2>. QED
    BY <1>4, <2>7, <2>8
<1>. QED
  BY <1>1, <1>3, <1>4

LEMMA SuffixOfTwo ==
  ASSUME NEW C, NEW s \in Seq(C), NEW x, NEW y
  PROVE  IsSuffix(<<x, y>>, s) <=> Len(s) > 1 /\ s[Len(s) - 1] = x /\ s[Len(s)] = y
<1>. DEFINE r == Reverse(s)
            q == Reverse(<<x, y>>)
<1>1. Len(s) \in Nat
  BY LenProperties
<1>2. Len(r) = Len(s) /\ Len(q) = 2 /\ q[1] = y /\ q[2] = x /\ q \in Seq({x, y})
  BY <1>1 DEF Reverse
<1>3. CASE Len(s) < 2
  BY <1>1, <1>2, <1>3 DEF IsSuffix, IsPrefix
<1>4. CASE Len(s) > 1
  <2>1. r[1] = s[Len(s)] /\ r[2] = s[Len(s) - 1] /\ r \in Seq(C)
    <3>1. /\ (Len(s) - 1) + 1 = Len(s) /\ 1 \in 1 .. Len(s)
          /\ (Len(s) - 2) + 1 = Len(s) - 1 /\ 2 \in 1 .. Len(s)
      BY <1>1, <1>4
    <3>2. \A i \in 1 .. Len(s) : (Len(s) - i) + 1 \in 1 .. Len(s)
      BY <1>1
    <3>. QED
      BY <1>1, <3>1, <3>2 DEF Reverse
  <2>2. IsSuffix(<<x, y>>, s) <=> SubSeq(q, 1, 2) = SubSeq(r, 1, 2)
    <3>1. IsSuffix(<<x, y>>, s) <=> Len(q) <= Len(r) /\ SubSeq(q, 1, Len(q)) = SubSeq(r, 1, Len(q))
      BY Zenon DEF IsSuffix, IsPrefix
    <3>. HIDE DEF r, q
    <3>. QED
      BY <1>1, <1>2, <1>4, <3>1
  <2>. HIDE DEF r, q
  <2>3. /\ Len(SubSeq(q, 1, 2)) = 2 /\ SubSeq(q, 1, 2)[1] = y /\ SubSeq(q, 1, 2)[2] = x
        /\ SubSeq(q, 1, 2) \in Seq({x, y})
    BY <1>2
  <2>4. /\ Len(SubSeq(r, 1, 2)) = 2 /\ SubSeq(r, 1, 2)[1] = s[Len(s)]
        /\ SubSeq(r, 1, 2)[2] = s[Len(s) - 1] /\ SubSeq(r, 1, 2) \in Seq(C)
    BY <1>1, <1>2, <1>4, <2>1
  <2>5. SubSeq(q, 1, 2) = SubSeq(r, 1, 2) <=> y = s[Len(s)] /\ x = s[Len(s) - 1]
    <3>1. ASSUME y = s[Len(s)], x = s[Len(s) - 1]  PROVE SubSeq(q, 1, 2) = SubSeq(r, 1, 2)
      <4>1. \A i \in 1 .. 2 : i = 1 \/ i = 2
        OBVIOUS
      <4>2. \A i \in 1 .. 2 : SubSeq(q, 1, 2)[i] = SubSeq(r, 1, 2)[i]
        BY <2>3, <2>4, <3>1, <4>1
      <4>. QED
        BY <2>3, <2>4, <4>2, SeqEqual
    <3>. QED
      BY <2>3, <2>4, <3>1
  <2>. QED
    BY <1>4, <2>2, <2>5
<1>. QED
  BY <1>1, <1>3, <1>4

\* What is appended to a value before mail-parser sees it changes nothing of
\* what its brackets hold.
LEMMA CrlfKeepsBrackets ==
  ASSUME NEW C, NEW raw \in Seq(C)
  PROVE  /\ CrlfTerminated(raw) \in Seq(C \cup White)
         /\ Bracketed(CrlfTerminated(raw)) = Bracketed(raw)
<1>. DEFINE D == C \cup White
<1>1. raw \in Seq(D) /\ "cr" \in White \cap D /\ "lf" \in White \cap D
  <2>1. "cr" \in White /\ "lf" \in White
    BY DEF White
  <2>2. \A i \in 1 .. Len(raw) : raw[i] \in D
    BY ElementOfSeq
  <2>. QED
    BY <2>1, <2>2
<1>. HIDE DEF D
<1>2. ASSUME NEW s \in Seq(D)
      PROVE  s \o CRLF \in Seq(D) /\ Bracketed(s \o CRLF) = Bracketed(s)
  <2>1. Append(s, "cr") \in Seq(D) /\ Append(Append(s, "cr"), "lf") \in Seq(D)
    BY <1>1
  <2>2. s \o CRLF = Append(Append(s, "cr"), "lf")
    BY DEF CRLF
  <2>3. /\ Bracketed(Append(s, "cr")) = Bracketed(s)
        /\ Bracketed(Append(Append(s, "cr"), "lf")) = Bracketed(Append(s, "cr"))
    BY <1>1, <2>1, BracketsBeforeWhite
  <2>. QED
    BY <2>1, <2>2, <2>3
<1>3. CASE IsSuffix(CRLF, raw)
  BY <1>1, <1>3 DEF CrlfTerminated, D
<1>4. CASE ~IsSuffix(CRLF, raw) /\ IsSuffix(<<"lf">>, raw)
  <2>1. Len(raw) > 0 /\ raw[Len(raw)] = "lf" /\ Len(raw) \in Nat
    BY <1>1, <1>4, SuffixOfOne, LenProperties
  <2>2. Front(raw) \in Seq(D) /\ raw = Append(Front(raw), "lf")
    <3>1. Front(raw) \in Seq(D)
      BY <1>1, <2>1 DEF Front
    <3>2. Append(Front(raw), "lf") = raw
      BY <1>1, <2>1 DEF Front
    <3>. QED
      BY <3>1, <3>2
  <2>3. Bracketed(raw) = Bracketed(Front(raw))
    <3>1. Bracketed(Append(Front(raw), "lf")) = Bracketed(Front(raw))
      BY <1>1, <2>2, BracketsBeforeWhite
    <3>. QED
      BY <2>2, <3>1, Zenon
  <2>4. CrlfTerminated(raw) = Front(raw) \o CRLF
    BY <1>4 DEF CrlfTerminated
  <2>. QED
    BY <1>2, <2>2, <2>3, <2>4 DEF D
<1>5. CASE ~IsSuffix(CRLF, raw) /\ ~IsSuffix(<<"lf">>, raw)
  <2>1. CrlfTerminated(raw) = raw \o CRLF
    BY <1>5 DEF CrlfTerminated
  <2>. QED
    BY <1>1, <1>2, <2>1 DEF D
<1>. QED
  BY <1>3, <1>4, <1>5

-----------------------------------------------------------------------------
(* Trimming.                                                               *)

Inked(s) == {i \in 1 .. Len(s) : s[i] \notin White}

LEMMA TrimIs ==
  ASSUME NEW C, NEW s \in Seq(C)
  PROVE  /\ Blank(s) <=> Inked(s) = {}
         /\ Blank(s) => Trim(s) = <<>>
         /\ ~Blank(s) => /\ Trim(s) = SubSeq(s, Min(Inked(s)), Max(Inked(s)))
                         /\ Min(Inked(s)) \in Inked(s) /\ Max(Inked(s)) \in Inked(s)
                         /\ \A i \in Inked(s) : Min(Inked(s)) <= i /\ i <= Max(Inked(s))
<1>1. Len(s) \in Nat /\ DOMAIN s = 1 .. Len(s)
  BY LenProperties
<1>2. Blank(s) <=> Inked(s) = {}
  BY <1>1 DEF Blank, ToSet, Inked
<1>3. ASSUME ~Blank(s)
      PROVE  /\ Trim(s) = SubSeq(s, Min(Inked(s)), Max(Inked(s)))
             /\ Min(Inked(s)) \in Inked(s) /\ Max(Inked(s)) \in Inked(s)
             /\ \A i \in Inked(s) : Min(Inked(s)) <= i /\ i <= Max(Inked(s))
  <2>1. SelectInSeq(s, LAMBDA c : c \notin White) = Min(Inked(s))
    BY <1>2, <1>3, Zenon DEF SelectInSeq, Inked
  <2>2. SelectLastInSeq(s, LAMBDA c : c \notin White) = Max(Inked(s))
    BY <1>2, <1>3, Zenon DEF SelectLastInSeq, Inked
  <2>3. Trim(s) = SubSeq(s, Min(Inked(s)), Max(Inked(s)))
    BY <1>3, <2>1, <2>2, Zenon DEF Trim
  <2>4. Inked(s) \in SUBSET Nat /\ Inked(s) \in SUBSET (0 .. Len(s)) /\ Inked(s) # {}
    BY <1>1, <1>2, <1>3 DEF Inked
  <2>. QED
    BY <1>1, <2>3, <2>4, MinOfNat, MaxOfNat
<1>. QED
  BY <1>2, <1>3 DEF Trim

LEMMA TrimBeforeWhite ==
  ASSUME NEW C, NEW s \in Seq(C), NEW w \in White \cap C
  PROVE  Trim(Append(s, w)) = Trim(s)
<1>. DEFINE t == Append(s, w)
<1>1. w \in C /\ w \in White
  OBVIOUS
<1>2. /\ t \in Seq(C) /\ Len(t) = Len(s) + 1 /\ t[Len(s) + 1] = w /\ Len(s) \in Nat
      /\ \A i \in 1 .. Len(s) : t[i] = s[i]
  BY <1>1, AppendProperties, LenProperties
<1>. HIDE DEF t
<1>3. Inked(t) = Inked(s)
  <2>1. \A i : i \in 1 .. Len(s) + 1 <=> i \in 1 .. Len(s) \/ i = Len(s) + 1
    BY <1>2
  <2>. QED
    BY <1>1, <1>2, <2>1 DEF Inked
<1>4. Blank(t) <=> Blank(s)
  BY <1>2, <1>3, TrimIs
<1>5. CASE Blank(s)
  BY <1>2, <1>4, <1>5, TrimIs DEF t
<1>6. CASE ~Blank(s)
  <2>. DEFINE a == Min(Inked(s))
              b == Max(Inked(s))
  <2>1. Trim(s) = SubSeq(s, a, b) /\ a \in 1 .. Len(s) /\ b \in 1 .. Len(s)
    BY <1>6, TrimIs DEF Inked
  <2>2. Trim(t) = SubSeq(t, a, b)
    BY <1>2, <1>3, <1>4, <1>6, TrimIs
  <2>. HIDE DEF a, b
  <2>3. SubSeq(t, a, b) = SubSeq(s, a, b)
    <3>1. \A i \in a .. b : i \in 1 .. Len(s) /\ i \in 1 .. Len(t)
      BY <1>2, <2>1
    <3>2. /\ SubSeq(t, a, b) \in Seq(C) /\ SubSeq(s, a, b) \in Seq(C)
          /\ Len(SubSeq(t, a, b)) = Len(SubSeq(s, a, b))
          /\ Len(SubSeq(s, a, b)) = IF a <= b THEN b - a + 1 ELSE 0
      BY <1>2, <2>1, <3>1
    <3>3. ASSUME NEW i \in 1 .. Len(SubSeq(t, a, b))
          PROVE  SubSeq(t, a, b)[i] = SubSeq(s, a, b)[i]
      <4>1. i \in 1 .. b - a + 1 /\ a + i - 1 \in 1 .. Len(s)
        BY <2>1, <3>2
      <4>2. SubSeq(t, a, b)[i] = t[a + i - 1] /\ SubSeq(s, a, b)[i] = s[a + i - 1]
        BY <1>2, <2>1, <4>1
      <4>. QED
        BY <1>2, <4>1, <4>2
    <3>. QED
      BY <3>2, <3>3, SeqEqual
  <2>. QED
    BY <2>1, <2>2, <2>3 DEF t
<1>. QED
  BY <1>5, <1>6

\* What is trimmed has no white space at its ends.
LEMMA TrimTwice ==
  ASSUME NEW C, NEW s \in Seq(C), ~Blank(s)
  PROVE  ~Blank(Trim(s)) /\ Trim(Trim(s)) = Trim(s)
<1>. DEFINE a == Min(Inked(s))
            b == Max(Inked(s))
            t == SubSeq(s, a, b)
<1>1. /\ Trim(s) = t /\ a \in Inked(s) /\ b \in Inked(s)
      /\ \A i \in Inked(s) : a <= i /\ i <= b
  BY TrimIs
<1>. HIDE DEF a, b
<1>2. /\ Len(s) \in Nat /\ a \in 1 .. Len(s) /\ b \in 1 .. Len(s) /\ a <= b
      /\ s[a] \notin White /\ s[b] \notin White
  BY <1>1, LenProperties DEF Inked
<1>3. t \in Seq(C) /\ Len(t) = b - a + 1 /\ t[1] = s[a] /\ t[b - a + 1] = s[b]
  <2>1. \A i \in a .. b : i \in 1 .. Len(s)
    BY <1>2
  <2>2. t \in Seq(C) /\ Len(t) = b - a + 1
    BY <1>2, <2>1
  <2>3. /\ 1 \in 1 .. b - a + 1 /\ a + 1 - 1 = a
        /\ b - a + 1 \in 1 .. b - a + 1 /\ a + (b - a + 1) - 1 = b
    BY <1>2
  <2>4. \A i \in 1 .. b - a + 1 : t[i] = s[a + i - 1]
    BY <1>2
  <2>. HIDE DEF t
  <2>. QED
    BY <2>2, <2>3, <2>4
<1>. HIDE DEF t
<1>4. /\ 1 \in Inked(t) /\ Len(t) \in Inked(t) /\ Len(t) \in Nat
      /\ \A i \in Inked(t) : 1 <= i /\ i <= Len(t)
  BY <1>2, <1>3 DEF Inked
<1>5. ~Blank(t)
  BY <1>3, <1>4, TrimIs
<1>6. Min(Inked(t)) = 1 /\ Max(Inked(t)) = Len(t)
  <2>1. /\ Min(Inked(t)) \in Inked(t) /\ Max(Inked(t)) \in Inked(t)
        /\ \A i \in Inked(t) : Min(Inked(t)) <= i /\ i <= Max(Inked(t))
    BY <1>3, <1>5, TrimIs
  <2>2. \A i \in Inked(t) : i \in Nat
    BY DEF Inked
  <2>3. /\ Min(Inked(t)) <= 1 /\ 1 <= Min(Inked(t)) /\ Min(Inked(t)) \in Nat
        /\ Max(Inked(t)) <= Len(t) /\ Len(t) <= Max(Inked(t)) /\ Max(Inked(t)) \in Nat
    BY <1>4, <2>1, <2>2
  <2>. QED
    BY <1>4, <2>3
<1>7. Trim(t) = SubSeq(t, 1, Len(t))
  BY <1>3, <1>5, <1>6, TrimIs
<1>. QED
  BY <1>1, <1>3, <1>5, <1>7, SubSeqFull

LEMMA TrimOrNoneTwice ==
  ASSUME NEW name, name = Nothing \/ name \in Seq(Range(name))
  PROVE  TrimOrNone(TrimOrNone(name)) = TrimOrNone(name)
<1>1. CASE name = Nothing \/ Blank(name)
  BY <1>1 DEF TrimOrNone
<1>2. CASE name # Nothing /\ ~Blank(name)
  <2>1. ~Blank(Trim(name)) /\ Trim(Trim(name)) = Trim(name)
    BY <1>2, TrimTwice
  <2>. QED
    BY <1>2, <2>1 DEF TrimOrNone
<1>. QED
  BY <1>1, <1>2

-----------------------------------------------------------------------------
(* Header values, whatever the form.                                       *)

\* With a line end behind it, a value is the same for every form.
LEMMA LineEndIgnored ==
  ASSUME NEW C, NEW raw \in Seq(C), ~IsSuffix(<<"lf">>, raw), ~IsSuffix(<<"cr">>, raw),
         NEW end \in {<<"lf">>, CRLF}
  PROVE  /\ CrlfTerminated(raw \o end) = CrlfTerminated(raw)
         /\ HasBracket(raw \o end) <=> HasBracket(raw)
         /\ Trim(Lossy(raw \o end)) = Trim(Lossy(raw))
         /\ ExtractBracketedUrls(raw \o end) = ExtractBracketedUrls(raw)
<1>. DEFINE D == C \cup White \cup {Mojibake}
            n == Len(raw)
            cr == Append(raw, "cr")
            lf == Append(raw, "lf")
            crlf == Append(cr, "lf")
<1>1. "cr" \in White \cap D /\ "lf" \in White \cap D
  BY DEF White
<1>2. raw \in Seq(D) /\ n \in Nat
  <2>1. \A i \in 1 .. Len(raw) : raw[i] \in D
    BY ElementOfSeq
  <2>. QED
    BY <2>1, LenProperties
<1>3. "cr" \in D /\ "lf" \in D /\ Mojibake \in D
  BY <1>1
<1>. HIDE DEF D, n
<1>4. /\ cr \in Seq(D) /\ Len(cr) = n + 1 /\ cr[n + 1] = "cr" /\ \A i \in 1 .. n : cr[i] = raw[i]
      /\ lf \in Seq(D) /\ Len(lf) = n + 1 /\ lf[n + 1] = "lf" /\ \A i \in 1 .. n : lf[i] = raw[i]
  BY <1>2, <1>3, AppendProperties DEF n
<1>. HIDE DEF cr, lf
<1>5. /\ crlf \in Seq(D) /\ Len(crlf) = n + 2 /\ crlf[n + 2] = "lf"
      /\ \A i \in 1 .. n + 1 : crlf[i] = cr[i]
  <2>1. /\ Append(cr, "lf") \in Seq(D) /\ Len(Append(cr, "lf")) = Len(cr) + 1
        /\ Append(cr, "lf")[Len(cr) + 1] = "lf" /\ \A i \in 1 .. Len(cr) : Append(cr, "lf")[i] = cr[i]
    BY <1>3, <1>4, AppendProperties
  <2>2. Len(cr) + 1 = n + 2
    BY <1>2, <1>4
  <2>. QED
    BY <1>4, <2>1, <2>2
<1>. HIDE DEF crlf
<1>6. raw \o <<"lf">> = lf /\ raw \o CRLF = crlf
  <2>1. raw \o <<"lf">> = Append(raw, "lf")
    OBVIOUS
  <2>2. raw \o <<"cr", "lf">> = Append(Append(raw, "cr"), "lf")
    OBVIOUS
  <2>. QED
    BY <2>1, <2>2 DEF cr, lf, crlf, CRLF
<1>7. ~IsSuffix(CRLF, raw)
  BY SuffixOfOne, SuffixOfTwo DEF CRLF
<1>8. CrlfTerminated(raw) = crlf
  BY <1>6, <1>7 DEF CrlfTerminated
<1>9. CrlfTerminated(lf) = crlf
  <2>1. IsSuffix(<<"lf">>, lf)
    BY <1>2, <1>4, SuffixOfOne
  <2>2. ~IsSuffix(CRLF, lf)
    <3>1. ASSUME Len(lf) > 1, lf[Len(lf) - 1] = "cr"  PROVE FALSE
      <4>1. n > 0 /\ n \in 1 .. n /\ Len(lf) - 1 = n
        BY <1>2, <1>4, <3>1
      <4>2. raw[n] = "cr"
        BY <1>4, <3>1, <4>1
      <4>. QED
        BY <1>2, <4>1, <4>2, SuffixOfOne DEF n
    <3>. QED
      BY <1>4, <3>1, SuffixOfTwo DEF CRLF
  <2>3. Front(lf) = raw
    <3>1. Front(Append(raw, "lf")) = raw
      BY <1>2, <1>3 DEF Front
    <3>. QED
      BY <3>1 DEF lf
  <2>. QED
    BY <1>6, <2>1, <2>2, <2>3 DEF CrlfTerminated
<1>10. CrlfTerminated(crlf) = crlf
  <2>1. Len(crlf) > 1 /\ crlf[Len(crlf) - 1] = "cr" /\ crlf[Len(crlf)] = "lf"
    <3>1. Len(crlf) - 1 = n + 1 /\ n + 1 \in 1 .. n + 1
      BY <1>2, <1>5
    <3>. QED
      BY <1>2, <1>4, <1>5, <3>1
  <2>2. IsSuffix(CRLF, crlf)
    BY <1>5, <2>1, SuffixOfTwo DEF CRLF
  <2>. QED
    BY <2>2 DEF CrlfTerminated
<1>11. ASSUME NEW s \in Seq(D), NEW w \in White \cap D, w # "bad"
       PROVE  /\ Bracketed(Append(s, w)) = Bracketed(s)
              /\ HasBracket(Append(s, w)) <=> HasBracket(s)
              /\ Trim(Lossy(Append(s, w))) = Trim(Lossy(s))
              /\ Append(s, w) \in Seq(D)
  <2>. DEFINE t == Append(s, w)
  <2>1. Bracketed(Append(s, w)) = Bracketed(s) /\ (HasBracket(Append(s, w)) <=> HasBracket(s))
    BY BracketsBeforeWhite
  <2>2. w \in D
    OBVIOUS
  <2>3. /\ t \in Seq(D) /\ Len(t) = Len(s) + 1 /\ t[Len(s) + 1] = w /\ Len(s) \in Nat
        /\ \A i \in 1 .. Len(s) : t[i] = s[i]
    BY <2>2, AppendProperties, LenProperties
  <2>4. DOMAIN s = 1 .. Len(s)
    BY LenProperties
  <2>. HIDE DEF t
  <2>5. DOMAIN t = 1 .. Len(s) + 1
    BY <2>3, LenProperties
  <2>6. Lossy(s) \in Seq(D) /\ Len(Lossy(s)) = Len(s)
    <3>1. \A i \in 1 .. Len(s) : (IF s[i] = "bad" THEN Mojibake ELSE s[i]) \in D
      BY <1>3, ElementOfSeq
    <3>. QED
      BY <2>3, <2>4, <3>1 DEF Lossy
  <2>7. Lossy(t) \in Seq(D) /\ Len(Lossy(t)) = Len(s) + 1
    <3>1. \A i \in 1 .. Len(s) + 1 : (IF t[i] = "bad" THEN Mojibake ELSE t[i]) \in D
      BY <1>3, <2>3, ElementOfSeq
    <3>. QED
      BY <2>3, <2>5, <3>1 DEF Lossy
  <2>8. Lossy(t) = Append(Lossy(s), w)
    <3>. DEFINE u == Lossy(s)
    <3>1. u \in Seq(D) /\ Len(u) = Len(s) /\ \A i \in 1 .. Len(s) : u[i] = IF s[i] = "bad" THEN Mojibake ELSE s[i]
      BY <2>4, <2>6 DEF Lossy
    <3>. HIDE DEF u
    <3>2. /\ Append(u, w) \in Seq(D) /\ Len(Append(u, w)) = Len(s) + 1 /\ Append(u, w)[Len(s) + 1] = w
          /\ \A i \in 1 .. Len(s) : Append(u, w)[i] = u[i]
      BY <2>2, <3>1, AppendProperties
    <3>3. ASSUME NEW i \in 1 .. Len(s) + 1  PROVE Lossy(t)[i] = Append(u, w)[i]
      <4>1. Lossy(t)[i] = IF t[i] = "bad" THEN Mojibake ELSE t[i]
        BY <2>5 DEF Lossy
      <4>2. i \in 1 .. Len(s) \/ i = Len(s) + 1
        BY <2>3
      <4>3. CASE i \in 1 .. Len(s)
        <5>1. t[i] = s[i] /\ Append(u, w)[i] = IF s[i] = "bad" THEN Mojibake ELSE s[i]
          BY <2>3, <3>1, <3>2, <4>3
        <5>. QED
          BY <4>1, <5>1
      <4>4. CASE i = Len(s) + 1
        BY <1>11, <2>3, <3>2, <4>1, <4>4
      <4>. QED
        BY <4>2, <4>3, <4>4
    <3>4. Lossy(t) = Append(u, w)
      BY <2>7, <3>2, <3>3, SeqEqual
    <3>. QED
      BY <3>4 DEF u
  <2>9. Trim(Append(Lossy(s), w)) = Trim(Lossy(s))
    BY <2>6, TrimBeforeWhite
  <2>. QED
    BY <2>1, <2>3, <2>8, <2>9 DEF t
<1>12. /\ Bracketed(lf) = Bracketed(raw) /\ (HasBracket(lf) <=> HasBracket(raw))
       /\ Trim(Lossy(lf)) = Trim(Lossy(raw))
  BY <1>1, <1>2, <1>11 DEF lf
<1>13. /\ Bracketed(crlf) = Bracketed(raw) /\ (HasBracket(crlf) <=> HasBracket(raw))
       /\ Trim(Lossy(crlf)) = Trim(Lossy(raw))
  <2>1. /\ Bracketed(cr) = Bracketed(raw) /\ (HasBracket(cr) <=> HasBracket(raw))
        /\ Trim(Lossy(cr)) = Trim(Lossy(raw))
    BY <1>1, <1>2, <1>11 DEF cr
  <2>2. /\ Bracketed(crlf) = Bracketed(cr) /\ (HasBracket(crlf) <=> HasBracket(cr))
        /\ Trim(Lossy(crlf)) = Trim(Lossy(cr))
    BY <1>1, <1>4, <1>11 DEF crlf
  <2>. QED
    BY <2>1, <2>2
<1>14. /\ ExtractBracketedUrls(raw) = Bracketed(raw) /\ ExtractBracketedUrls(lf) = Bracketed(lf)
       /\ ExtractBracketedUrls(crlf) = Bracketed(crlf)
  BY <1>2, <1>4, <1>5, ExtractIsBracketed
<1>15. raw \o end = lf \/ raw \o end = crlf
  BY <1>6
<1>. QED
  BY <1>8, <1>9, <1>10, <1>12, <1>13, <1>14, <1>15

LEMMA UrlsAreBracketed ==
  ASSUME NEW raw, raw \in Seq(Range(raw))
  PROVE  ParseHeaderTyped("URLs", raw) = Bracketed(raw)
BY ExtractIsBracketed DEF ParseHeaderTyped

LEMMA MessageIdsAreBracketed ==
  ASSUME NEW raw, raw \in Seq(Range(raw)), HasBracket(raw) => Bracketed(raw) # <<>>
  PROVE  ParseHeaderTyped("MessageIds", raw) = Bracketed(raw)
<1>. DEFINE value == CrlfTerminated(raw)
            ids == Bracketed(raw)
<1>1. value \in Seq(Range(raw) \cup White) /\ Bracketed(value) = ids
  BY CrlfKeepsBrackets
<1>2. ParseHeaderTyped("MessageIds", raw) = ExtractMsgIds(ParseId(value), HasBracket(raw))
  BY DEF ParseHeaderTyped
<1>. HIDE DEF value
<1>3. ExtractBracketedUrls(value) = ids
  BY <1>1, ExtractIsBracketed
<1>4. Len(<<>>) = 0
  OBVIOUS
<1>5. CASE HasBracket(raw)
  <2>1. ids # <<>>
    BY <1>5
  <2>. HIDE DEF ids
  <2>2. ParseId(value).list = ids
    BY <1>3, <2>1 DEF ParseId
  <2>. QED
    BY <1>2, <1>5, <2>2 DEF ExtractMsgIds, ids
<1>6. CASE ~HasBracket(raw)
  <2>1. ids = <<>>
    BY <1>6, NothingBracketed
  <2>. HIDE DEF ids
  <2>2. ParseId(value).is = "text"
    BY <1>3, <1>4, <2>1 DEF ParseId
  <2>. QED
    BY <1>2, <1>6, <2>1, <2>2 DEF ExtractMsgIds, ids
<1>. QED
  BY <1>5, <1>6

LEMMA LineEndsAgree ==
  ASSUME NEW raw, raw \in Seq(Range(raw)), ~IsSuffix(<<"lf">>, raw), ~IsSuffix(<<"cr">>, raw),
         NEW end \in {<<"lf">>, CRLF}, NEW form \in Forms
  PROVE  ParseHeaderTyped(form, raw \o end) = ParseHeaderTyped(form, raw)
<1>. DEFINE more == raw \o end
<1>1. /\ CrlfTerminated(more) = CrlfTerminated(raw)
      /\ HasBracket(more) <=> HasBracket(raw)
      /\ Trim(Lossy(more)) = Trim(Lossy(raw))
      /\ ExtractBracketedUrls(more) = ExtractBracketedUrls(raw)
  BY LineEndIgnored
<1>. HIDE DEF more
<1>2. \A table : Entry(table, more) = Entry(table, raw)
  BY <1>1, Zenon DEF Entry
<1>3. ExtractMsgIds(ParseId(CrlfTerminated(more)), HasBracket(more))
        = ExtractMsgIds(ParseId(CrlfTerminated(raw)), HasBracket(raw))
  <2>1. CASE HasBracket(raw)
    BY <1>1, <2>1 DEF ExtractMsgIds
  <2>2. CASE ~HasBracket(raw)
    BY <1>1, <2>2 DEF ExtractMsgIds
  <2>. QED
    BY <2>1, <2>2
<1>4. ParseHeaderTyped(form, more) = ParseHeaderTyped(form, raw)
  <2>1. CASE form = "Raw"
    BY <1>1, <2>1 DEF ParseHeaderTyped
  <2>2. CASE form = "Text"
    BY <1>2, <2>2 DEF ParseHeaderTyped
  <2>3. CASE form = "URLs"
    BY <1>1, <2>3 DEF ParseHeaderTyped
  <2>4. CASE form = "Addresses"
    <3>1. {FlattenAddresses(p) : p \in Entry(ParsedAddress, more)}
            = {FlattenAddresses(p) : p \in Entry(ParsedAddress, raw)}
      BY <1>2, Zenon
    <3>2. \A v : ParseHeaderTyped("Addresses", v)
                   = Or({FlattenAddresses(p) : p \in Entry(ParsedAddress, v)}, <<>>)
      BY DEF ParseHeaderTyped
    <3>. QED
      BY <2>4, <3>1, <3>2, Zenon
  <2>5. CASE form = "GroupedAddresses"
    <3>1. {GroupAddresses(p) : p \in Entry(ParsedAddress, more)}
            = {GroupAddresses(p) : p \in Entry(ParsedAddress, raw)}
      BY <1>2, Zenon
    <3>2. \A v : ParseHeaderTyped("GroupedAddresses", v)
                   = Or({GroupAddresses(p) : p \in Entry(ParsedAddress, v)}, <<>>)
      BY DEF ParseHeaderTyped
    <3>. QED
      BY <2>5, <3>1, <3>2, Zenon
  <2>6. CASE form = "MessageIds"
    BY <1>3, <2>6 DEF ParseHeaderTyped
  <2>7. CASE form = "Date"
    BY <1>2, <2>7 DEF ParseHeaderTyped
  <2>. QED
    BY <2>1, <2>2, <2>3, <2>4, <2>5, <2>6, <2>7 DEF Forms
<1>. QED
  BY <1>4 DEF more

\* The groups of a value hold its addresses, and their names are trimmed.
LEMMA GroupsHoldAddresses ==
  ASSUME NEW raw
  PROVE  LET groups == ParseHeaderTyped("GroupedAddresses", raw)
         IN  /\ ParseHeaderTyped("Addresses", raw)
                  = FlattenSeq([g \in DOMAIN groups |-> groups[g].addresses])
             /\ \A g \in DOMAIN groups : groups[g].name = TrimOrNone(groups[g].name)
<1>. DEFINE entry == Entry(ParsedAddress, raw)
            groups == ParseHeaderTyped("GroupedAddresses", raw)
            flat == ParseHeaderTyped("Addresses", raw)
            listed == [g \in DOMAIN groups |-> groups[g].addresses]
<1>1. /\ groups = Or({GroupAddresses(p) : p \in entry}, <<>>)
      /\ flat = Or({FlattenAddresses(p) : p \in entry}, <<>>)
  BY DEF ParseHeaderTyped
<1>2. FlattenSeq(<<>>) = <<>>
  BY DEF FlattenSeq
<1>3. CASE entry = {}
  <2>1. groups = <<>> /\ flat = <<>>
    <3>. HIDE DEF groups, flat, entry
    <3>1. {GroupAddresses(p) : p \in entry} = {} /\ {FlattenAddresses(p) : p \in entry} = {}
      BY <1>3
    <3>. QED
      BY <1>1, <3>1, Zenon DEF Or
  <2>. HIDE DEF groups, flat
  <2>2. listed = <<>> /\ DOMAIN groups = {}
    BY <2>1
  <2>. QED
    BY <1>2, <2>1, <2>2 DEF groups, flat
<1>4. CASE entry # {}
  <2>1. PICK value \in DOMAIN ParsedAddress : entry = {ParsedAddress[value]}
    <3>1. entry = {ParsedAddress[v] : v \in DOMAIN ParsedAddress \cap {CrlfTerminated(raw)}}
      BY Zenon DEF Entry
    <3>. HIDE DEF entry
    <3>2. CrlfTerminated(raw) \in DOMAIN ParsedAddress
      BY <1>4, <3>1
    <3>3. DOMAIN ParsedAddress \cap {CrlfTerminated(raw)} = {CrlfTerminated(raw)}
      BY <3>2
    <3>4. entry = {ParsedAddress[CrlfTerminated(raw)]}
      BY <3>1, <3>3
    <3>. QED
      BY <3>2, <3>4
  <2>. DEFINE parsed == ParsedAddress[value]
  <2>2. groups = GroupAddresses(parsed) /\ flat = FlattenAddresses(parsed)
    <3>. HIDE DEF groups, flat, entry, parsed
    <3>1. entry = {parsed}
      BY <2>1 DEF parsed
    <3>2. /\ {GroupAddresses(p) : p \in entry} = {GroupAddresses(parsed)}
          /\ {FlattenAddresses(p) : p \in entry} = {FlattenAddresses(parsed)}
      BY <3>1
    <3>3. \A x, d : Or({x}, d) = x
      BY DEF Or
    <3>. QED
      BY <1>1, <3>2, <3>3
  <2>3. parsed.is # "list" => \A g \in DOMAIN parsed.groups :
          TrimOrNone(TrimOrNone(parsed.groups[g].name)) = TrimOrNone(parsed.groups[g].name)
    <3>. SUFFICES ASSUME parsed.is # "list", NEW g \in DOMAIN parsed.groups
                  PROVE  TrimOrNone(TrimOrNone(parsed.groups[g].name))
                           = TrimOrNone(parsed.groups[g].name)
      OBVIOUS
    <3>. DEFINE name == parsed.groups[g].name
    <3>1. name = Nothing \/ name \in Seq(Range(name))
      BY <2>1, HeadersAssumption
    <3>. HIDE DEF name
    <3>2. TrimOrNone(TrimOrNone(name)) = TrimOrNone(name)
      BY <3>1, TrimOrNoneTwice
    <3>. QED
      BY <3>2 DEF name
  <2>. HIDE DEF groups, flat, parsed
  <2>4. CASE parsed.is = "list" /\ parsed.list = <<>>
    <3>1. groups = <<>>
      BY <2>2, <2>4 DEF GroupAddresses
    <3>2. flat = <<>>
      BY <2>2, <2>4 DEF FlattenAddresses, Converted
    <3>3. listed = <<>> /\ DOMAIN groups = {}
      BY <3>1
    <3>. QED
      BY <1>2, <3>1, <3>2, <3>3 DEF groups, flat
  <2>5. CASE parsed.is = "list" /\ parsed.list # <<>>
    <3>1. groups = <<Group(Nothing, parsed.list)>>
      BY <2>2, <2>5 DEF GroupAddresses
    <3>2. flat = Converted(parsed.list)
      BY <2>2, <2>5 DEF FlattenAddresses
    <3>3. /\ Group(Nothing, parsed.list).addresses = Converted(parsed.list)
          /\ Group(Nothing, parsed.list).name = Nothing
      BY DEF Group
    <3>. DEFINE group == Group(Nothing, parsed.list)
    <3>. HIDE DEF group
    <3>4. DOMAIN groups = 1 .. 1 /\ groups[1] = group
      BY <3>1 DEF group
    <3>. DEFINE single == listed
    <3>5. Len(single) = 1 /\ single[1] = Converted(parsed.list)
      <4>1. group.addresses = Converted(parsed.list)
        BY <3>3 DEF group
      <4>2. single = [g \in 1 .. 1 |-> groups[g].addresses]
        BY <3>4
      <4>. HIDE DEF single
      <4>. QED
        BY <3>4, <4>1, <4>2
    <3>. HIDE DEF single
    <3>6. FlattenSeq(single) = Converted(parsed.list)
      <4>1. Len(single) \in Nat \ {0}
        BY <3>5
      <4>2. \A i \in 2 .. Len(single) : single[i] = single[i - 1] \o single[i]
        BY <3>5
      <4>3. FlattenSeq(single) = single[Len(single)]
        BY <4>1, <4>2, FlattenSteps
      <4>. QED
        BY <3>5, <4>3
    <3>7. TrimOrNone(Nothing) = Nothing
      BY DEF TrimOrNone
    <3>8. \A g \in DOMAIN groups : groups[g].name = TrimOrNone(groups[g].name)
      <4>1. \A g \in DOMAIN groups : groups[g] = group
        BY <3>4
      <4>2. group.name = Nothing
        BY <3>3 DEF group
      <4>. QED
        BY <3>7, <4>1, <4>2
    <3>. QED
      BY <3>2, <3>6, <3>8 DEF groups, flat, single
  <2>6. CASE parsed.is # "list"
    <3>1. groups = [g \in DOMAIN parsed.groups |->
                      Group(TrimOrNone(parsed.groups[g].name), parsed.groups[g].addresses)]
      BY <2>2, <2>6 DEF GroupAddresses
    <3>2. flat = FlattenSeq([g \in DOMAIN parsed.groups |-> Converted(parsed.groups[g].addresses)])
      BY <2>2, <2>6 DEF FlattenAddresses
    <3>3. DOMAIN groups = DOMAIN parsed.groups
      BY <3>1
    <3>4. ASSUME NEW g \in DOMAIN groups
          PROVE  /\ groups[g].addresses = Converted(parsed.groups[g].addresses)
                 /\ groups[g].name = TrimOrNone(parsed.groups[g].name)
      BY <3>1, <3>3 DEF Group
    <3>5. listed = [g \in DOMAIN parsed.groups |-> Converted(parsed.groups[g].addresses)]
      BY <3>3, <3>4
    <3>6. \A g \in DOMAIN groups : groups[g].name = TrimOrNone(groups[g].name)
      BY <2>3, <2>6, <3>3, <3>4
    <3>. QED
      BY <3>2, <3>5, <3>6, Zenon DEF groups, flat
  <2>. QED
    BY <2>4, <2>5, <2>6
<1>. QED
  BY <1>3, <1>4

-----------------------------------------------------------------------------
(* Beginnings.                                                             *)

LEMMA BeginningIs ==
  ASSUME NEW S, NEW s \in Seq(S), NEW n \in Nat
  PROVE  /\ Prefix(s, n) \in Seq(S)
         /\ Len(s) <= n => Prefix(s, n) = s
         /\ n <= Len(s) => Prefix(s, n) = SubSeq(s, 1, n) /\ Len(Prefix(s, n)) = n
         /\ Prefix(Prefix(s, n), n) = Prefix(s, n)
<1>1. Len(s) \in Nat
  BY LenProperties
<1>2. \A a, b \in Nat : a <= b => Min({a, b}) = a /\ Min({b, a}) = a
  <2>. SUFFICES ASSUME NEW a \in Nat, NEW b \in Nat, a <= b
                PROVE  Min({a, b}) = a /\ Min({b, a}) = a
    OBVIOUS
  <2>1. {a, b} \in SUBSET Nat /\ a \in {a, b} /\ \A y \in {a, b} : a <= y
    OBVIOUS
  <2>2. {b, a} = {a, b}
    OBVIOUS
  <2>. QED
    BY <2>1, <2>2, MinUnique
<1>3. ASSUME Len(s) <= n  PROVE Prefix(s, n) = s
  BY <1>1, <1>2, <1>3, SubSeqFull DEF Prefix
<1>4. ASSUME n <= Len(s)
      PROVE  Prefix(s, n) = SubSeq(s, 1, n) /\ Len(Prefix(s, n)) = n /\ Prefix(s, n) \in Seq(S)
  <2>1. Prefix(s, n) = SubSeq(s, 1, n)
    BY <1>1, <1>2, <1>4 DEF Prefix
  <2>. QED
    BY <1>1, <1>4, <2>1
<1>5. Prefix(s, n) \in Seq(S) /\ Len(Prefix(s, n)) <= n
  BY <1>1, <1>3, <1>4
<1>6. Prefix(Prefix(s, n), n) = Prefix(s, n)
  <2>. DEFINE p == Prefix(s, n)
  <2>1. p \in Seq(S) /\ Len(p) <= n /\ Len(p) \in Nat
    BY <1>5, LenProperties
  <2>. HIDE DEF p
  <2>2. Min({n, Len(p)}) = Len(p)
    BY <1>2, <2>1
  <2>3. Prefix(p, n) = p
    BY <2>1, <2>2, SubSeqFull DEF Prefix
  <2>. QED
    BY <2>3 DEF p
<1>. QED
  BY <1>3, <1>4, <1>5, <1>6

\* A sequence begins as the first of its parts does.
LEMMA PrefixOfConcat ==
  ASSUME NEW S, NEW a \in Seq(S), NEW b \in Seq(S), NEW n \in Nat, n <= Len(a)
  PROVE  Prefix(a \o b, n) = Prefix(a, n)
<1>. DEFINE c == a \o b
<1>1. /\ Len(a) \in Nat /\ Len(b) \in Nat
      /\ c \in Seq(S) /\ Len(c) = Len(a) + Len(b) /\ \A i \in 1 .. Len(a) : c[i] = a[i]
  <2>1. Len(a) \in Nat /\ Len(b) \in Nat
    BY LenProperties
  <2>2. /\ c \in Seq(S) /\ Len(c) = Len(a) + Len(b)
        /\ \A i \in 1 .. Len(a) + Len(b) : c[i] = IF i <= Len(a) THEN a[i] ELSE b[i - Len(a)]
    BY ConcatProperties
  <2>3. \A i \in 1 .. Len(a) : i \in 1 .. Len(a) + Len(b) /\ i <= Len(a)
    BY <2>1
  <2>. QED
    BY <2>1, <2>2, <2>3
<1>. HIDE DEF c
<1>2. n <= Len(c)
  BY <1>1
<1>3. Prefix(c, n) = SubSeq(c, 1, n) /\ Prefix(a, n) = SubSeq(a, 1, n)
  BY <1>1, <1>2, BeginningIs
<1>4. /\ SubSeq(c, 1, n) \in Seq(S) /\ SubSeq(a, 1, n) \in Seq(S)
      /\ Len(SubSeq(c, 1, n)) = n /\ Len(SubSeq(a, 1, n)) = n
      /\ \A i \in 1 .. n : SubSeq(c, 1, n)[i] = c[i] /\ SubSeq(a, 1, n)[i] = a[i]
  BY <1>1, <1>2
<1>5. \A i \in 1 .. n : i \in 1 .. Len(a)
  BY <1>1
<1>6. \A i \in 1 .. n : SubSeq(c, 1, n)[i] = SubSeq(a, 1, n)[i]
  BY <1>1, <1>4, <1>5
<1>7. SubSeq(c, 1, n) = SubSeq(a, 1, n)
  BY <1>4, <1>6, SeqEqual
<1>. QED
  BY <1>3, <1>7 DEF c

-----------------------------------------------------------------------------
(* The bytes of a body, and what is in its first units.                    *)

Pieces(units) == [i \in DOMAIN units |-> units[i].bytes]

LEMMA BytesOverOneSet ==
  ASSUME NEW U, NEW units \in Seq(U), AreUnits(units)
  PROVE  \E S : Pieces(units) \in Seq(Seq(S)) /\ Len(Pieces(units)) = Len(units)
<1>1. Len(units) \in Nat /\ DOMAIN units = 1 .. Len(units)
  BY LenProperties
<1>. DEFINE S == UNION {Range(units[i].bytes) : i \in DOMAIN units}
<1>2. ASSUME NEW i \in DOMAIN units  PROVE units[i].bytes \in Seq(S)
  <2>. DEFINE b == units[i].bytes
  <2>1. b \in Seq(Range(b)) /\ Range(b) \in {Range(units[k].bytes) : k \in DOMAIN units}
    BY DEF AreUnits
  <2>2. Range(b) \subseteq S
    BY <2>1
  <2>. HIDE DEF b, S
  <2>3. Len(b) \in Nat /\ b \in [1 .. Len(b) -> Range(b)]
    BY <2>1, LenProperties
  <2>4. b \in [1 .. Len(b) -> S]
    BY <2>2, <2>3
  <2>5. b \in Seq(S)
    BY <2>3, <2>4
  <2>. QED
    BY <2>5 DEF b
<1>. HIDE DEF S
<1>3. Pieces(units) \in [1 .. Len(units) -> Seq(S)]
  BY <1>1, <1>2 DEF Pieces
<1>4. Pieces(units) \in Seq(Seq(S)) /\ Len(Pieces(units)) = Len(units)
  <2>. DEFINE p == Pieces(units)
  <2>. HIDE DEF p
  <2>1. p \in [1 .. Len(units) -> Seq(S)]
    BY <1>3 DEF p
  <2>2. p \in Seq(Seq(S)) /\ Len(p) = Len(units)
    BY <1>1, <2>1
  <2>. QED
    BY <2>2 DEF p
<1>. QED
  BY <1>4

LEMMA BytesOfFirst ==
  ASSUME NEW U, NEW units \in Seq(U), NEW S,
         Pieces(units) \in Seq(Seq(S)), Len(Pieces(units)) = Len(units),
         NEW n \in 0 .. Len(units)
  PROVE  /\ BytesIn(SubSeq(units, 1, n)) = FlattenSeq(SubSeq(Pieces(units), 1, n))
         /\ BytesIn(SubSeq(units, 1, n)) \in Seq(S)
         /\ BytesIn(units) \in Seq(S)
         /\ \E rest \in Seq(S) : BytesIn(units) = BytesIn(SubSeq(units, 1, n)) \o rest
<1>. DEFINE p == Pieces(units)
            u == SubSeq(units, 1, n)
<1>1. /\ Len(units) \in Nat /\ DOMAIN units = 1 .. Len(units) /\ n \in Nat /\ n <= Len(units)
      /\ \A i \in 1 .. Len(units) : p[i] = units[i].bytes
  BY LenProperties DEF Pieces
<1>2. /\ u \in Seq(U) /\ Len(u) = n /\ DOMAIN u = 1 .. n /\ \A i \in 1 .. n : u[i] = units[i]
  <2>1. /\ u \in Seq(U) /\ Len(u) = n /\ \A i \in 1 .. n : u[i] = units[i]
    BY <1>1
  <2>. HIDE DEF u
  <2>. QED
    BY <2>1, LenProperties
<1>. HIDE DEF p, u
<1>3. /\ SubSeq(p, 1, n) \in Seq(Seq(S)) /\ Len(SubSeq(p, 1, n)) = n
      /\ \A i \in 1 .. n : SubSeq(p, 1, n)[i] = p[i]
  BY <1>1 DEF p
<1>4. Pieces(u) = SubSeq(p, 1, n)
  <2>1. DOMAIN Pieces(u) = 1 .. n /\ \A i \in 1 .. n : Pieces(u)[i] = u[i].bytes
    BY <1>2 DEF Pieces
  <2>2. \A i \in 1 .. n : i \in 1 .. Len(units)
    BY <1>1
  <2>3. \A i \in 1 .. n : Pieces(u)[i] = SubSeq(p, 1, n)[i]
    BY <1>1, <1>2, <1>3, <2>1, <2>2
  <2>4. Pieces(u) = [i \in 1 .. n |-> u[i].bytes]
    BY <1>2 DEF Pieces
  <2>5. SubSeq(p, 1, n) = [i \in 1 .. n |-> SubSeq(p, 1, n)[i]]
    BY <1>3
  <2>. QED
    BY <2>1, <2>3, <2>4, <2>5
<1>5. BytesIn(u) = FlattenSeq(Pieces(u)) /\ BytesIn(units) = FlattenSeq(p)
  BY Zenon DEF BytesIn, Pieces, p
<1>6. /\ FlattenSeq(SubSeq(p, 1, Len(units))) \in Seq(S)
      /\ FlattenSeq(SubSeq(p, 1, n)) \in Seq(S)
      /\ FlattenSeq(SubSeq(p, n + 1, Len(units))) \in Seq(S)
      /\ FlattenSeq(SubSeq(p, 1, Len(units)))
           = FlattenSeq(SubSeq(p, 1, n)) \o FlattenSeq(SubSeq(p, n + 1, Len(units)))
  <2>1. p \in Seq(Seq(S)) /\ n \in 0 .. Len(p) /\ Len(units) \in n .. Len(p)
    BY <1>1 DEF p
  <2>. QED
    BY <2>1, FlattenSplit
<1>7. SubSeq(p, 1, Len(units)) = p
  BY <1>1, SubSeqFull DEF p
<1>. QED
  BY <1>4, <1>5, <1>6, <1>7 DEF u, p

-----------------------------------------------------------------------------
(* What a limit cuts.                                                     *)

\* What a decoder returns under a limit, of what it returns without one.
Cuts(decoded, whole, max) ==
  /\ decoded.problem = FALSE
  /\ Prefix(decoded.bytes, max) = Prefix(whole, max)
  /\ (Len(decoded.bytes) > max \/ decoded.limited) <=> Len(whole) > max

LEMMA CutsBeginning ==
  ASSUME NEW S, NEW a \in Seq(S), NEW b \in Seq(S), NEW max \in Nat, NEW limited \in BOOLEAN,
         limited => max <= Len(a) /\ Len(a \o b) > max,
         ~limited => b = <<>>
  PROVE  Cuts(Transferred(a, limited, FALSE), a \o b, max)
<1>. DEFINE d == Transferred(a, limited, FALSE)
<1>1. d.bytes = a /\ d.limited = limited /\ d.problem = FALSE
  BY DEF Transferred
<1>. HIDE DEF d
<1>2. CASE limited
  <2>1. Prefix(a \o b, max) = Prefix(a, max)
    BY <1>2, PrefixOfConcat
  <2>. QED
    BY <1>1, <1>2, <2>1 DEF Cuts, d
<1>3. CASE ~limited
  <2>1. a \o b = a
    BY <1>3, ConcatEmptySeq
  <2>. QED
    BY <1>1, <1>3, <2>1 DEF Cuts, d
<1>. QED
  BY <1>2, <1>3

\* Bytes as they are.
LEMMA IdentityCuts ==
  ASSUME NEW U, NEW body \in Seq(U), Len(body) <= Unlimited, NEW max \in Nat
  PROVE  /\ Identity(body, Unlimited).bytes = body
         /\ Cuts(Identity(body, max), body, max)
<1>1. Unlimited \in Nat /\ Len(body) \in Nat
  BY UnlimitedAssumption, LenProperties
<1>2. Identity(body, Unlimited).bytes = body
  <2>1. Prefix(body, Unlimited) = body
    BY <1>1, BeginningIs
  <2>. QED
    BY <2>1 DEF Identity, Transferred
<1>3. Cuts(Identity(body, max), body, max)
  <2>1. CASE Len(body) <= max
    <3>1. Prefix(body, max) = body
      BY <1>1, <2>1, BeginningIs
    <3>2. ~(Len(body) > max)
      BY <1>1, <2>1
    <3>. QED
      BY <3>1, <3>2 DEF Identity, Transferred, Cuts
  <2>2. CASE Len(body) > max
    <3>1. Prefix(Prefix(body, max), max) = Prefix(body, max)
      BY BeginningIs
    <3>. QED
      BY <2>2, <3>1 DEF Identity, Transferred, Cuts
  <2>. QED
    BY <1>1, <2>1, <2>2
<1>. QED
  BY <1>2, <1>3

-----------------------------------------------------------------------------
(* base64.                                                                 *)

LEMMA MaxCharsIs ==
  ASSUME NEW max \in Nat
  PROVE  \E k \in Nat : MaxChars(max) = 4 * k /\ max <= 3 * k
<1>. DEFINE q == (4 * max + 3 - 1) \div 3
            k == (q + 4 - 1) \div 4
<1>1. q \in Nat /\ 4 * max <= 3 * q
  OBVIOUS
<1>. HIDE DEF q
<1>2. k \in Nat /\ q <= 4 * k
  BY <1>1
<1>3. MaxChars(max) = 4 * k
  BY DEF MaxChars, CeilDiv, k, q
<1>. HIDE DEF k
<1>4. max <= 3 * k
  BY <1>1, <1>2
<1>. QED
  BY <1>2, <1>3, <1>4

LEMMA StrippedIs ==
  ASSUME NEW U, NEW body \in Seq(U), AreUnits(body)
  PROVE  /\ Stripped(body) \in Seq({body[i] : i \in DOMAIN body})
         /\ AreUnits(Stripped(body))
         /\ Len(Stripped(body)) <= Len(body)
<1>. DEFINE V == {body[i] : i \in DOMAIN body}
            kept == [i \in DOMAIN body |-> IF body[i].kind = "break" THEN <<>> ELSE <<body[i]>>]
<1>1. Len(body) \in Nat /\ DOMAIN body = 1 .. Len(body)
  BY LenProperties
<1>2. \A i \in DOMAIN body : body[i] \in V
  OBVIOUS
<1>. HIDE DEF V
<1>3. /\ kept \in Seq(Seq(V)) /\ Len(kept) = Len(body)
      /\ \A i \in 1 .. Len(kept) : Len(kept[i]) <= 1
  <2>1. ASSUME NEW i \in DOMAIN body  PROVE kept[i] \in Seq(V) /\ Len(kept[i]) <= 1
    <3>. DEFINE b == body[i]
    <3>1. kept[i] = <<>> \/ kept[i] = <<b>>
      OBVIOUS
    <3>2. b \in V
      BY <1>2
    <3>. HIDE DEF kept, b
    <3>3. <<b>> \in Seq(V) /\ Len(<<b>>) = 1 /\ <<>> \in Seq(V) /\ Len(<<>>) = 0
      BY <3>2
    <3>4. CASE kept[i] = <<>>
      BY <3>3, <3>4
    <3>5. CASE kept[i] = <<b>>
      BY <3>3, <3>5
    <3>. QED
      BY <3>1, <3>4, <3>5
  <2>2. kept \in [1 .. Len(body) -> Seq(V)]
    <3>1. kept = [i \in 1 .. Len(body) |-> kept[i]]
      BY <1>1
    <3>. HIDE DEF kept
    <3>. QED
      BY <1>1, <2>1, <3>1
  <2>. HIDE DEF kept
  <2>. QED
    BY <1>1, <2>1, <2>2
<1>4. Stripped(body) = FlattenSeq(kept)
  BY Zenon DEF Stripped
<1>. HIDE DEF kept
<1>5. Stripped(body) \in Seq(V) /\ Len(Stripped(body)) <= Len(body)
  BY <1>3, <1>4, FlattenTyped, FlattenShort
<1>6. AreUnits(Stripped(body))
  <2>. DEFINE s == Stripped(body)
  <2>1. \A i \in DOMAIN s : s[i] \in V
    BY <1>5, ElementOfSeq, LenProperties
  <2>2. \A u \in V : u.bytes \in Seq(Range(u.bytes))
    BY DEF V, AreUnits
  <2>. HIDE DEF s
  <2>3. AreUnits(s)
    BY <2>1, <2>2, Zenon DEF AreUnits
  <2>. QED
    BY <2>3 DEF s
<1>. QED
  BY <1>5, <1>6 DEF V

\* How many bytes the first characters have.
LEMMA CharBytes ==
  ASSUME NEW U, NEW s \in Seq(U), NEW S,
         Pieces(s) \in Seq(Seq(S)), Len(Pieces(s)) = Len(s), GroupedBy4(s),
         NEW chars \in 0 .. Len(s), \A i \in 1 .. chars : s[i].kind = "char"
  PROVE  \A n \in 0 .. chars : Len(BytesIn(SubSeq(s, 1, n))) = n - ((n + 3) \div 4)
<1>. DEFINE p == Pieces(s)
            First(n) == FlattenSeq(SubSeq(p, 1, n))
            Good == {n \in 0 .. chars : Len(First(n)) = n - ((n + 3) \div 4)}
<1>1. Len(s) \in Nat /\ chars \in Nat /\ chars <= Len(s) /\ DOMAIN s = 1 .. Len(s)
  BY LenProperties
<1>2. 0 \in Good
  <2>1. SubSeq(p, 1, 0) = <<>>
    BY SubSeqEmpty
  <2>2. First(0) = <<>>
    BY <2>1 DEF FlattenSeq
  <2>3. 0 - ((0 + 3) \div 4) = 0
    OBVIOUS
  <2>. QED
    BY <1>1, <2>2, <2>3
<1>3. ASSUME NEW n \in 1 .. chars, n - 1 \in Good  PROVE n \in Good
  <2>. DEFINE a == SubSeq(p, 1, n - 1)
              e == s[n].bytes
  <2>1. n \in 1 .. Len(s) /\ n \in 0 .. chars /\ n \in DOMAIN s /\ n \in Nat /\ n - 1 \in 0 .. chars
    BY <1>1
  <2>2. Len(e) = IF n % 4 = 1 THEN 0 ELSE 1
    <3>1. \A j \in 1 .. n : s[j].kind = "char"
      BY <1>1
    <3>. QED
      BY <2>1, <3>1 DEF GroupedBy4
  <2>3. e \in Seq(S) /\ p[n] = e
    <3>1. p[n] = e
      BY <2>1 DEF Pieces
    <3>. QED
      BY <2>1, <3>1, ElementOfSeq
  <2>4. a \in Seq(Seq(S)) /\ SubSeq(p, 1, n) = Append(a, e)
    BY <1>1, <2>1, <2>3
  <2>5. Len(FlattenSeq(a)) = (n - 1) - ((n - 1 + 3) \div 4)
    BY <1>3
  <2>. HIDE DEF a, e
  <2>6. First(n) = FlattenSeq(a) \o e /\ FlattenSeq(a) \in Seq(S)
    BY <2>3, <2>4, FlattenAppend, FlattenTyped
  <2>7. Len(FlattenSeq(a) \o e) = Len(FlattenSeq(a)) + Len(e)
    BY <2>3, <2>6, ConcatProperties
  <2>8. (n - 1) - ((n - 1 + 3) \div 4) + (IF n % 4 = 1 THEN 0 ELSE 1) = n - ((n + 3) \div 4)
    <3>. DEFINE q == n \div 4
                r == n % 4
    <3>1. q \in Nat /\ r \in 0 .. 3 /\ n = (4 * q) + r
      BY <2>1
    <3>2. r = 1 <=> n % 4 = 1
      OBVIOUS
    <3>. HIDE DEF q, r
    <3>3. CASE r = 0
      <4>1. n - 1 + 3 = (4 * q) + 2 /\ n + 3 = (4 * q) + 3 /\ n % 4 # 1
        BY <3>1, <3>2, <3>3
      <4>2. ((4 * q) + 2) \div 4 = q /\ ((4 * q) + 3) \div 4 = q
        BY <3>1
      <4>. QED
        BY <3>1, <4>1, <4>2
    <3>4. CASE r = 1
      BY <3>1, <3>2, <3>4
    <3>5. CASE r = 2
      BY <3>1, <3>2, <3>5
    <3>6. CASE r = 3
      <4>1. n - 1 + 3 = (4 * q) + 5 /\ n + 3 = (4 * q) + 6 /\ n % 4 # 1
        BY <3>1, <3>2, <3>6
      <4>2. ((4 * q) + 5) \div 4 = q + 1 /\ ((4 * q) + 6) \div 4 = q + 1
        BY <3>1
      <4>. QED
        BY <3>1, <4>1, <4>2
    <3>. QED
      BY <3>1, <3>3, <3>4, <3>5, <3>6
  <2>9. Len(First(n)) = n - ((n + 3) \div 4)
    BY <2>2, <2>5, <2>6, <2>7, <2>8
  <2>. QED
    BY <2>1, <2>9
<1>4. \A n \in 0 .. chars : n \in Good
  <2>. HIDE DEF Good
  <2>. QED
    BY <1>1, <1>2, <1>3, UpTo
<1>5. \A n \in 0 .. chars : BytesIn(SubSeq(s, 1, n)) = First(n)
  <2>1. \A n \in 0 .. chars : n \in 0 .. Len(s)
    BY <1>1
  <2>. QED
    BY <2>1, BytesOfFirst
<1>. QED
  BY <1>4, <1>5

\* The last group may not be cut: whole groups of a text that decodes decode,
\* to enough bytes, and what is left over has at least one more.
LEMMA Base64Cuts ==
  ASSUME NEW U, NEW body \in Seq(U), AreUnits(body), GroupedBy4(Stripped(body)),
         Len(body) <= Unlimited, NEW max \in Nat, ~Base64(body, Unlimited).problem
  PROVE  /\ \E S : Base64(body, Unlimited).bytes \in Seq(S)
         /\ Cuts(Base64(body, max), Base64(body, Unlimited).bytes, max)
<1>. DEFINE s == Stripped(body)
            V == {body[i] : i \in DOMAIN body}
            whole == BytesIn(s)
<1>1. s \in Seq(V) /\ AreUnits(s) /\ Len(s) <= Len(body) /\ GroupedBy4(s)
  BY StrippedIs
<1>2. /\ Len(s) \in Nat /\ Unlimited \in Nat /\ Len(s) <= Unlimited /\ Len(body) \in Nat
  BY <1>1, UnlimitedAssumption, LenProperties
<1>. HIDE DEF V, s
<1>3. Base64(body, Unlimited).bytes = whole /\ Base64Decodes(s)
  <2>1. PICK u \in Nat : MaxChars(Unlimited) = 4 * u /\ Unlimited <= 3 * u
    BY <1>2, MaxCharsIs
  <2>2. Len(s) <= 4 * u /\ 4 * u \in Nat
    BY <1>2, <2>1
  <2>3. Prefix(s, MaxChars(Unlimited)) = s
    BY <1>1, <2>1, <2>2, BeginningIs
  <2>4. CASE Base64Decodes(s)
    <3>1. Base64(body, Unlimited) = Transferred(whole, Len(s) > MaxChars(Unlimited), FALSE)
      BY <2>3, <2>4, Zenon DEF Base64, s
    <3>. QED
      BY <2>4, <3>1 DEF Transferred
  <2>5. CASE ~Base64Decodes(s)
    <3>1. Base64(body, Unlimited) = Transferred(<<>>, Len(s) > MaxChars(Unlimited), TRUE)
      BY <2>3, <2>5, Zenon DEF Base64, s
    <3>. QED
      BY <3>1 DEF Transferred
  <2>. QED
    BY <2>4, <2>5
<1>4. PICK S : Pieces(s) \in Seq(Seq(S)) /\ Len(Pieces(s)) = Len(s)
  BY <1>1, BytesOverOneSet
<1>5. whole \in Seq(S)
  <2>1. 0 \in 0 .. Len(s)
    BY <1>2
  <2>. QED
    BY <1>1, <1>4, <2>1, BytesOfFirst
<1>6. PICK k \in Nat : MaxChars(max) = 4 * k /\ max <= 3 * k
  BY MaxCharsIs
<1>7. CASE Len(s) <= 4 * k
  <2>1. Prefix(s, 4 * k) = s /\ ~(Len(s) > 4 * k)
    BY <1>1, <1>2, <1>7, BeginningIs
  <2>2. Base64(body, max) = Transferred(whole, Len(s) > 4 * k, FALSE)
    BY <1>3, <1>6, <2>1, Zenon DEF Base64, s
  <2>3. Cuts(Transferred(whole, FALSE, FALSE), whole \o <<>>, max)
    <3>. HIDE DEF whole
    <3>1. <<>> \in Seq(S) /\ FALSE \in BOOLEAN
      OBVIOUS
    <3>. QED
      BY <1>5, <3>1, CutsBeginning
  <2>4. (Len(s) > 4 * k) = FALSE
    BY <2>1
  <2>5. whole \o <<>> = whole
    BY <1>5, ConcatEmptySeq
  <2>6. Transferred(whole, Len(s) > 4 * k, FALSE) = Transferred(whole, FALSE, FALSE)
    BY <2>4
  <2>. QED
    BY <1>3, <1>5, <2>2, <2>3, <2>5, <2>6, Zenon
<1>8. CASE Len(s) > 4 * k
  <2>. DEFINE kept == SubSeq(s, 1, 4 * k)
  <2>1. /\ Prefix(s, 4 * k) = kept /\ kept \in Seq(V) /\ Len(kept) = 4 * k
        /\ \A i \in 1 .. 4 * k : kept[i] = s[i]
    <3>0. 4 * k \in Nat /\ 4 * k <= Len(s)
      BY <1>2, <1>8
    <3>1. Prefix(s, 4 * k) = kept
      BY <1>1, <3>0, BeginningIs
    <3>. QED
      BY <1>1, <1>2, <1>8, <3>1
  <2>2. PICK chars \in 0 .. Len(s) :
          /\ \A i \in 1 .. chars : s[i].kind = "char"
          /\ \A i \in chars + 1 .. Len(s) : s[i].kind = "pad"
          /\ chars > 0 => ~s[chars].spills
          /\ chars < Len(s) => (chars % 4) \in {2, 3} /\ (chars % 4) + Len(s) - chars <= 4
    BY <1>3, Zenon DEF Base64Decodes
  <2>3. 4 * k + 2 <= chars /\ chars \in Nat
    <3>1. chars \in Nat /\ chars <= Len(s)
      BY <1>2
    <3>2. 4 * k < chars
      <4>1. CASE chars = Len(s)
        BY <1>8, <4>1
      <4>2. CASE chars < Len(s)
        <5>1. (chars % 4) >= 2 /\ ((chars % 4) + Len(s)) - chars <= 4 /\ (chars % 4) <= 3
          BY <2>2, <4>2
        <5>2. chars = (4 * (chars \div 4)) + (chars % 4) /\ (chars \div 4) \in Nat
          BY <3>1
        <5>3. Len(s) <= 4 * (chars \div 4) + 4
          BY <1>2, <3>1, <5>1, <5>2
        <5>. QED
          BY <1>8, <3>1, <5>1, <5>2, <5>3
      <4>. QED
        BY <1>2, <3>1, <4>1, <4>2
    <3>3. chars # 4 * k + 1
      <4>1. SUFFICES ASSUME chars = 4 * k + 1  PROVE FALSE
        OBVIOUS
      <4>2. chars % 4 = 1 /\ chars \in DOMAIN s /\ chars > 0
        BY <1>1, <3>1, <4>1, LenProperties
      <4>3. \A j \in 1 .. chars : s[j].kind = "char"
        BY <2>2
      <4>4. s[chars].spills
        BY <1>1, <4>2, <4>3 DEF GroupedBy4
      <4>. QED
        BY <2>2, <4>2, <4>4
    <3>. QED
      BY <3>1, <3>2, <3>3
  <2>4. Base64Decodes(kept)
    <3>. DEFINE c == 4 * k
    <3>1. c \in 0 .. Len(kept) /\ c \in Nat /\ Len(kept) = c
      BY <2>1
    <3>2. \A i \in 1 .. c : kept[i].kind = "char"
      BY <1>2, <2>1, <2>2, <2>3
    <3>3. c > 0 => ~kept[c].spills
      <4>1. SUFFICES ASSUME c > 0  PROVE ~s[c].spills /\ kept[c] = s[c]
        OBVIOUS
      <4>2. c \in DOMAIN s /\ c % 4 = 0 /\ c \in 1 .. 4 * k
        BY <1>1, <1>2, <1>8, <4>1, LenProperties
      <4>3. \A j \in 1 .. c : s[j].kind = "char"
        BY <2>2, <2>3
      <4>. QED
        BY <1>1, <2>1, <4>2, <4>3 DEF GroupedBy4
    <3>. HIDE DEF c, kept
    <3>4. \A i \in c + 1 .. Len(kept) : kept[i].kind = "pad"
      BY <3>1
    <3>. QED
      BY <3>1, <3>2, <3>3, <3>4 DEF Base64Decodes
  <2>5. Base64(body, max) = Transferred(BytesIn(kept), Len(s) > 4 * k, FALSE)
    BY <1>6, <2>1, <2>4, Zenon DEF Base64, s
  <2>6. /\ BytesIn(kept) \in Seq(S)
        /\ \E rest \in Seq(S) : whole = BytesIn(kept) \o rest
    <3>1. 4 * k \in 0 .. Len(s)
      BY <1>2, <1>8
    <3>. QED
      BY <1>1, <1>4, <3>1, BytesOfFirst
  <2>7. PICK rest \in Seq(S) : whole = BytesIn(kept) \o rest
    BY <2>6
  <2>8. Len(BytesIn(kept)) = 3 * k /\ Len(whole) > 3 * k
    <3>1. \A n \in 0 .. chars : Len(BytesIn(SubSeq(s, 1, n))) = n - ((n + 3) \div 4)
      BY <1>1, <1>4, <2>2, CharBytes
    <3>2. 4 * k \in 0 .. chars /\ 4 * k + 2 \in 0 .. chars /\ 4 * k + 2 \in 0 .. Len(s)
      BY <1>2, <2>3
    <3>3. 4 * k - ((4 * k + 3) \div 4) = 3 * k /\ (4 * k + 2) - ((4 * k + 2 + 3) \div 4) = 3 * k + 1
      OBVIOUS
    <3>4. Len(BytesIn(kept)) = 3 * k /\ Len(BytesIn(SubSeq(s, 1, 4 * k + 2))) = 3 * k + 1
      BY <3>1, <3>2, <3>3
    <3>5. PICK more \in Seq(S) : whole = BytesIn(SubSeq(s, 1, 4 * k + 2)) \o more
      BY <1>1, <1>4, <3>2, BytesOfFirst
    <3>6. BytesIn(SubSeq(s, 1, 4 * k + 2)) \in Seq(S)
      BY <1>1, <1>4, <3>2, BytesOfFirst
    <3>7. Len(whole) = 3 * k + 1 + Len(more) /\ Len(more) \in Nat
      <4>. DEFINE a == BytesIn(SubSeq(s, 1, 4 * k + 2))
      <4>1. a \in Seq(S) /\ Len(a) = 3 * k + 1 /\ whole = a \o more
        BY <3>4, <3>5, <3>6
      <4>. HIDE DEF a, whole
      <4>2. Len(a \o more) = Len(a) + Len(more) /\ Len(more) \in Nat
        BY <4>1, ConcatProperties, LenProperties
      <4>. QED
        BY <4>1, <4>2
    <3>. QED
      BY <3>4, <3>7
  <2>9. Cuts(Transferred(BytesIn(kept), TRUE, FALSE), BytesIn(kept) \o rest, max)
    <3>1. max <= Len(BytesIn(kept)) /\ Len(BytesIn(kept) \o rest) > max
      BY <1>6, <2>7, <2>8
    <3>2. TRUE \in BOOLEAN
      OBVIOUS
    <3>. DEFINE a == BytesIn(kept)
    <3>. HIDE DEF a
    <3>3. a \in Seq(S) /\ max <= Len(a) /\ Len(a \o rest) > max
      BY <2>6, <3>1 DEF a
    <3>4. Cuts(Transferred(a, TRUE, FALSE), a \o rest, max)
      BY <3>2, <3>3, CutsBeginning
    <3>. QED
      BY <3>4 DEF a
  <2>10. (Len(s) > 4 * k) = TRUE
    BY <1>8
  <2>11. Base64(body, max) = Transferred(BytesIn(kept), TRUE, FALSE)
    BY <2>5, <2>10
  <2>. QED
    BY <1>3, <1>5, <2>7, <2>9, <2>11, Zenon
<1>. QED
  BY <1>2, <1>7, <1>8

-----------------------------------------------------------------------------
(* quoted-printable.                                                       *)

LEMMA QpLengthIs ==
  /\ QpLength(<<>>) = 0
  /\ \A U : \A units \in Seq(U) : QpLength(units) \in Nat
<1>1. QpLength(<<>>) = 0
  <2>. DEFINE T == {i \in DOMAIN <<>> : <<>>[i].kind \in {"escape", "soft"}}
  <2>1. T = {} /\ Len(<<>>) = 0
    BY LenProperties
  <2>. HIDE DEF T
  <2>2. Cardinality(T) = 0
    BY <2>1, FS_EmptySet
  <2>3. QpLength(<<>>) = Len(<<>>) + 2 * Cardinality(T)
    BY Zenon DEF QpLength, T
  <2>. QED
    BY <2>1, <2>2, <2>3
<1>2. ASSUME NEW U, NEW units \in Seq(U)  PROVE QpLength(units) \in Nat
  <2>. DEFINE T == {i \in DOMAIN units : units[i].kind \in {"escape", "soft"}}
  <2>1. Len(units) \in Nat /\ DOMAIN units = 1 .. Len(units)
    BY LenProperties
  <2>2. T \in SUBSET (1 .. Len(units))
    BY <2>1
  <2>. HIDE DEF T
  <2>3. IsFiniteSet(1 .. Len(units))
    BY <2>1, FS_Interval
  <2>4. IsFiniteSet(T)
    BY <2>2, <2>3, FS_Subset
  <2>5. Cardinality(T) \in Nat
    BY <2>4, FS_CardinalityType
  <2>6. QpLength(units) = Len(units) + 2 * Cardinality(T)
    BY Zenon DEF QpLength, T
  <2>. QED
    BY <2>1, <2>5, <2>6
<1>. QED
  BY <1>1, <1>2

\* The tokens that fit are the first ones, and all of them if they fit.
LEMMA QpCutIs ==
  ASSUME NEW U, NEW body \in Seq(U), NEW length \in Nat
  PROVE  /\ \E c \in 0 .. Len(body) : QpCut(body, length) = SubSeq(body, 1, c)
         /\ ~(QpLength(body) > length) => QpCut(body, length) = body
<1>. DEFINE N == {n \in 0 .. Len(body) : QpLength(Prefix(body, n)) <= length}
            c == Max(N)
<1>1. Len(body) \in Nat
  BY LenProperties
<1>2. 0 \in N
  <2>1. Prefix(body, 0) = SubSeq(body, 1, 0)
    BY <1>1, BeginningIs
  <2>2. Prefix(body, 0) = <<>>
    BY <2>1, SubSeqEmpty
  <2>. QED
    BY <1>1, <2>2, QpLengthIs
<1>3. N \in SUBSET (0 .. Len(body)) /\ N # {}
  BY <1>2
<1>4. QpCut(body, length) = Prefix(body, c)
  BY Zenon DEF QpCut
<1>5. ASSUME ~(QpLength(body) > length)  PROVE Len(body) \in N
  <2>1. QpLength(body) <= length
    BY <1>5, QpLengthIs
  <2>2. Prefix(body, Len(body)) = body
    BY <1>1, BeginningIs
  <2>. QED
    BY <1>1, <2>1, <2>2
<1>. HIDE DEF N
<1>6. c \in N /\ \A y \in N : y <= c
  BY <1>1, <1>3, MaxOfNat
<1>. HIDE DEF c
<1>7. c \in 0 .. Len(body) /\ c \in Nat /\ c <= Len(body)
  BY <1>1, <1>3, <1>6
<1>8. Prefix(body, c) = SubSeq(body, 1, c)
  BY <1>7, BeginningIs
<1>9. ASSUME ~(QpLength(body) > length)  PROVE QpCut(body, length) = body
  <2>1. c = Len(body)
    BY <1>1, <1>5, <1>6, <1>7, <1>9
  <2>. QED
    BY <1>1, <1>4, <1>8, <2>1, SubSeqFull
<1>. QED
  BY <1>4, <1>7, <1>8, <1>9

\* The tokens that fit decode to what a body begins with; when they are too
\* few all of it is decoded.
LEMMA QpCuts ==
  ASSUME NEW U, NEW body \in Seq(U), AreUnits(body), Len(BytesIn(body)) <= Unlimited,
         NEW max \in Nat, ~QpWithLimit(body, Unlimited).problem
  PROVE  /\ \E S : QpWithLimit(body, Unlimited).bytes \in Seq(S)
         /\ Cuts(QpWithLimit(body, max), QpWithLimit(body, Unlimited).bytes, max)
<1>. DEFINE whole == BytesIn(body)
            View(m) == QpDecode(QpCut(body, 4 * m), QpLength(body) > 4 * m)
<1>1. PICK S : Pieces(body) \in Seq(Seq(S)) /\ Len(Pieces(body)) = Len(body)
  BY BytesOverOneSet
<1>2. Len(body) \in Nat /\ Unlimited \in Nat
  BY UnlimitedAssumption, LenProperties
<1>3. whole \in Seq(S) /\ Len(whole) \in Nat
  <2>1. 0 \in 0 .. Len(body)
    BY <1>2
  <2>2. whole \in Seq(S)
    BY <1>1, <2>1, BytesOfFirst
  <2>. HIDE DEF whole
  <2>. QED
    BY <2>2, LenProperties
<1>4. ASSUME NEW m \in Nat
      PROVE  \E c \in 0 .. Len(body), rest \in Seq(S) :
               /\ QpCut(body, 4 * m) = SubSeq(body, 1, c)
               /\ BytesIn(SubSeq(body, 1, c)) \in Seq(S)
               /\ whole = BytesIn(SubSeq(body, 1, c)) \o rest
               /\ (QpLength(body) > 4 * m) = FALSE => QpCut(body, 4 * m) = body
  <2>1. 4 * m \in Nat
    OBVIOUS
  <2>2. PICK c \in 0 .. Len(body) : QpCut(body, 4 * m) = SubSeq(body, 1, c)
    BY <2>1, QpCutIs
  <2>3. (QpLength(body) > 4 * m) = FALSE => QpCut(body, 4 * m) = body
    BY <2>1, QpCutIs
  <2>4. /\ BytesIn(SubSeq(body, 1, c)) \in Seq(S)
        /\ \E rest \in Seq(S) : whole = BytesIn(SubSeq(body, 1, c)) \o rest
    BY <1>1, BytesOfFirst
  <2>. QED
    BY <2>2, <2>3, <2>4
<1>5. ASSUME NEW m \in Nat
      PROVE  QpWithLimit(body, m)
               = IF QpInconclusive(View(m), m) THEN QpDecode(body, FALSE) ELSE View(m)
  BY Zenon DEF QpWithLimit
<1>6. ASSUME NEW units, NEW limited, ~QpDecode(units, limited).problem
      PROVE  /\ ~\E i \in DOMAIN units : units[i].kind = "refused"
             /\ QpDecode(units, limited) = Transferred(BytesIn(units), limited, FALSE)
  <2>1. ~\E i \in DOMAIN units : units[i].kind = "refused"
    <3>. SUFFICES ASSUME \E i \in DOMAIN units : units[i].kind = "refused"  PROVE FALSE
      OBVIOUS
    <3>1. QpDecode(units, limited) = Transferred(<<>>, FALSE, TRUE)
      BY Zenon DEF QpDecode
    <3>. QED
      BY <1>6, <3>1 DEF Transferred
  <2>. QED
    BY <2>1, Zenon DEF QpDecode
<1>7. /\ ~\E i \in DOMAIN body : body[i].kind = "refused"
      /\ QpWithLimit(body, Unlimited).bytes = whole
  <2>. DEFINE u == Unlimited
  <2>1. PICK c \in 0 .. Len(body), rest \in Seq(S) :
               /\ QpCut(body, 4 * u) = SubSeq(body, 1, c)
               /\ BytesIn(SubSeq(body, 1, c)) \in Seq(S)
               /\ whole = BytesIn(SubSeq(body, 1, c)) \o rest
               /\ (QpLength(body) > 4 * u) = FALSE => QpCut(body, 4 * u) = body
    BY <1>2, <1>4
  <2>2. CASE QpInconclusive(View(u), u)
    <3>1. QpWithLimit(body, u) = QpDecode(body, FALSE)
      BY <1>2, <1>5, <2>2
    <3>2. ~QpDecode(body, FALSE).problem
      BY <3>1
    <3>3. /\ ~\E i \in DOMAIN body : body[i].kind = "refused"
          /\ QpDecode(body, FALSE) = Transferred(whole, FALSE, FALSE)
      BY <1>6, <3>2, Zenon
    <3>4. QpDecode(body, FALSE).bytes = whole
      <4>. DEFINE d == QpDecode(body, FALSE)
      <4>1. d = Transferred(whole, FALSE, FALSE)
        BY <3>3, Zenon
      <4>. HIDE DEF whole, d
      <4>2. d.bytes = whole
        BY <4>1 DEF Transferred
      <4>. QED
        BY <4>2 DEF d
    <3>. QED
      BY <3>1, <3>3, <3>4, Zenon
  <2>3. CASE ~QpInconclusive(View(u), u)
    <3>. DEFINE lim == QpLength(body) > 4 * u
                a == BytesIn(SubSeq(body, 1, c))
    <3>1. QpWithLimit(body, u) = View(u)
      BY <1>2, <1>5, <2>3
    <3>2. View(u) = QpDecode(SubSeq(body, 1, c), lim)
      BY <2>1
    <3>. HIDE DEF lim
    <3>3. ~QpDecode(SubSeq(body, 1, c), lim).problem
      BY <3>1, <3>2
    <3>4. /\ ~\E i \in DOMAIN SubSeq(body, 1, c) : SubSeq(body, 1, c)[i].kind = "refused"
          /\ View(u) = Transferred(a, lim, FALSE)
      BY <1>6, <3>2, <3>3, Zenon
    <3>5. ~(lim /\ Len(a) <= u)
      <4>1. View(u).bytes = a /\ View(u).limited = lim
        BY <3>4 DEF Transferred
      <4>. QED
        BY <2>3, <4>1, Zenon DEF QpInconclusive
    <3>6. Len(a) <= u
      <4>. HIDE DEF whole, a
      <4>1. Len(a \o rest) = Len(a) + Len(rest) /\ Len(a) \in Nat /\ Len(rest) \in Nat
        BY <2>1, ConcatProperties, LenProperties DEF a
      <4>2. Len(whole) <= u /\ whole = a \o rest
        BY <2>1 DEF whole, a
      <4>. QED
        BY <1>2, <1>3, <4>1, <4>2
    <3>7. SubSeq(body, 1, c) = body
      BY <2>1, <3>5, <3>6 DEF lim
    <3>8. View(u).bytes = a
      <4>. DEFINE d == View(u)
      <4>1. d = Transferred(a, lim, FALSE)
        BY <3>4, Zenon
      <4>. HIDE DEF a, d
      <4>2. d.bytes = a
        BY <4>1 DEF Transferred
      <4>. QED
        BY <4>2 DEF d
    <3>9. QpWithLimit(body, u).bytes = whole
      BY <3>1, <3>7, <3>8, Zenon
    <3>. QED
      BY <3>4, <3>7, <3>9, Zenon
  <2>. QED
    BY <2>2, <2>3
<1>8. ASSUME NEW limited \in BOOLEAN
      PROVE  QpDecode(body, limited) = Transferred(whole, limited, FALSE)
  BY <1>7, Zenon DEF QpDecode
<1>9. Cuts(Transferred(whole, FALSE, FALSE), whole, max)
  <2>. HIDE DEF whole
  <2>1. <<>> \in Seq(S) /\ FALSE \in BOOLEAN
    OBVIOUS
  <2>2. Cuts(Transferred(whole, FALSE, FALSE), whole \o <<>>, max)
    BY <1>3, <2>1, CutsBeginning
  <2>3. whole \o <<>> = whole
    BY <1>3, ConcatEmptySeq
  <2>. QED
    BY <2>2, <2>3
<1>10. Cuts(QpWithLimit(body, max), whole, max)
  <2>1. PICK c \in 0 .. Len(body), rest \in Seq(S) :
               /\ QpCut(body, 4 * max) = SubSeq(body, 1, c)
               /\ BytesIn(SubSeq(body, 1, c)) \in Seq(S)
               /\ whole = BytesIn(SubSeq(body, 1, c)) \o rest
               /\ (QpLength(body) > 4 * max) = FALSE => QpCut(body, 4 * max) = body
    BY <1>4
  <2>. DEFINE lim == QpLength(body) > 4 * max
              a == BytesIn(SubSeq(body, 1, c))
  <2>2. lim \in BOOLEAN
    OBVIOUS
  <2>3. View(max) = QpDecode(SubSeq(body, 1, c), lim)
    BY <2>1
  <2>. HIDE DEF lim
  <2>4. ~\E i \in DOMAIN SubSeq(body, 1, c) : SubSeq(body, 1, c)[i].kind = "refused"
    <3>. DEFINE cut == SubSeq(body, 1, c)
    <3>1. cut \in Seq(U) /\ Len(cut) = c /\ \A i \in 1 .. c : cut[i] = body[i] /\ i \in 1 .. Len(body)
      BY <1>2
    <3>. HIDE DEF cut
    <3>2. DOMAIN cut = 1 .. c /\ DOMAIN body = 1 .. Len(body)
      BY <3>1, LenProperties
    <3>3. ~\E i \in DOMAIN cut : cut[i].kind = "refused"
      BY <1>7, <3>1, <3>2
    <3>. QED
      BY <3>3 DEF cut
  <2>5. View(max) = Transferred(a, lim, FALSE)
    BY <2>3, <2>4, Zenon DEF QpDecode
  <2>6. View(max).bytes = a /\ View(max).limited = lim
    BY <2>5 DEF Transferred
  <2>7. CASE QpInconclusive(View(max), max)
    <3>1. QpWithLimit(body, max) = QpDecode(body, FALSE)
      BY <1>5, <2>7
    <3>. QED
      BY <1>8, <1>9, <3>1
  <2>8. CASE ~QpInconclusive(View(max), max)
    <3>1. QpWithLimit(body, max) = Transferred(a, lim, FALSE)
      BY <1>5, <2>5, <2>8
    <3>2. ~(lim /\ Len(a) <= max)
      BY <2>6, <2>8, Zenon DEF QpInconclusive
    <3>3. CASE ~lim
      <4>1. SubSeq(body, 1, c) = body /\ lim = FALSE
        BY <2>1, <2>2, <3>3 DEF lim
      <4>2. QpWithLimit(body, max) = Transferred(whole, FALSE, FALSE)
        BY <3>1, <4>1
      <4>. QED
        BY <1>9, <4>2
    <3>4. CASE lim
      <4>. HIDE DEF a, whole
      <4>1. a \in Seq(S) /\ whole = a \o rest
        BY <2>1 DEF a
      <4>2. Len(a \o rest) = Len(a) + Len(rest) /\ Len(a) \in Nat /\ Len(rest) \in Nat
        BY <4>1, ConcatProperties, LenProperties
      <4>3. max <= Len(a) /\ Len(a \o rest) > max
        BY <3>2, <3>4, <4>2
      <4>4. Cuts(Transferred(a, lim, FALSE), a \o rest, max)
        BY <2>2, <3>4, <4>1, <4>3, CutsBeginning
      <4>. QED
        BY <3>1, <4>1, <4>4
    <3>. QED
      BY <3>3, <3>4
  <2>. QED
    BY <2>7, <2>8
<1>. QED
  BY <1>3, <1>7, <1>10

-----------------------------------------------------------------------------
(* uuencode.                                                               *)

\* The line at which the loop over the data lines stops, and the bytes by then.
UuStop(t, begin, m) ==
  IF Stops(t, begin + 1, m) = {} THEN Len(t) + 1 ELSE Min(Stops(t, begin + 1, m))
UuBefore(t, begin, m) == BytesOf(t, begin + 1, UuStop(t, begin, m) - 1)

UuEnded(t, begin, m) ==
  /\ Stops(t, begin + 1, m) # {}
  /\ ~(Len(UuBefore(t, begin, m)) > m)
  /\ DecodesToZero(t[UuStop(t, begin, m)])
  /\ EndsAfter(t, UuStop(t, begin, m))

\* What decode_limited() returns, in terms of the line at which it stops.
LEMMA UuRecord ==
  ASSUME NEW t, NEW begin, NEW m
  PROVE  /\ DecodeFrom(t, begin, m).error = "none"
         /\ Len(UuBefore(t, begin, m)) > m =>
              /\ DecodeFrom(t, begin, m).data = SubSeq(UuBefore(t, begin, m), 1, m)
              /\ DecodeFrom(t, begin, m).limited = TRUE
         /\ UuEnded(t, begin, m) =>
              /\ DecodeFrom(t, begin, m).data = UuBefore(t, begin, m)
              /\ DecodeFrom(t, begin, m).limited = FALSE
              /\ DecodeFrom(t, begin, m).truncated = FALSE
         /\ ~DecodeFrom(t, begin, m).truncated => UuEnded(t, begin, m)
         /\ DecodeFrom(t, begin, m).limited =>
              \/ Len(UuBefore(t, begin, m)) > m
              \/ /\ Stops(t, begin + 1, m) # {}
                 /\ Len(UuBefore(t, begin, m) \o t[UuStop(t, begin, m)].bytes) > m
<1>. DEFINE stops == Stops(t, begin + 1, m)
            stop == UuStop(t, begin, m)
            before == UuBefore(t, begin, m)
            passed == Len(before) > m
            out == IF stops # {} /\ ~passed /\ Undecodable(t[stop])
                   THEN before \o t[stop].bytes ELSE before
            over == Len(out) > m
            data_ == IF over THEN SubSeq(out, 1, m) ELSE out
            ended == /\ stops # {} /\ ~passed
                     /\ DecodesToZero(t[stop])
                     /\ EndsAfter(t, stop)
            d == DecodeFrom(t, begin, m)
<1>1. d = [error |-> "none", data |-> data_, truncated |-> ~ended \/ over, limited |-> over]
  BY Zenon DEF DecodeFrom, UuStop, UuBefore
<1>. HIDE DEF d, data_, ended, over, out, stops, stop, before
<1>2. d.error = "none" /\ d.data = data_ /\ d.truncated = (~ended \/ over) /\ d.limited = over
  BY <1>1
<1>3. passed => out = before /\ over
  BY DEF out, over
<1>4. passed => d.data = SubSeq(before, 1, m) /\ d.limited = TRUE
  <2>. SUFFICES ASSUME passed  PROVE d.data = SubSeq(before, 1, m) /\ d.limited = TRUE
    OBVIOUS
  <2>1. out = before /\ over
    BY <1>3
  <2>2. data_ = SubSeq(before, 1, m)
    BY <2>1, Zenon DEF data_
  <2>3. d.limited = TRUE
    BY <1>2, <2>1
  <2>. QED
    BY <1>2, <2>2, <2>3, Zenon
<1>5. ended => d.data = before /\ d.limited = FALSE /\ d.truncated = FALSE
  <2>. SUFFICES ASSUME ended  PROVE d.data = before /\ d.limited = FALSE /\ d.truncated = FALSE
    OBVIOUS
  <2>1. ~passed /\ DecodesToZero(t[stop])
    BY Zenon DEF ended
  <2>2. ~Undecodable(t[stop])
    BY <2>1 DEF Undecodable
  <2>3. out = before
    BY <2>2, Zenon DEF out
  <2>4. ~over
    BY <2>1, <2>3, Zenon DEF over
  <2>5. data_ = before
    BY <2>3, <2>4, Zenon DEF data_
  <2>6. d.limited = FALSE /\ d.truncated = FALSE
    <3>1. (~ended \/ over) = FALSE /\ over = FALSE
      BY <2>4
    <3>. QED
      BY <1>2, <3>1, Zenon
  <2>. QED
    BY <1>2, <2>5, <2>6, Zenon
<1>6. ~d.truncated => ended
  BY <1>2
<1>7. d.limited => passed \/ (stops # {} /\ Len(before \o t[stop].bytes) > m)
  <2>. SUFFICES ASSUME over, ~passed  PROVE stops # {} /\ Len(before \o t[stop].bytes) > m
    BY <1>2
  <2>1. out # before
    BY Zenon DEF over
  <2>2. stops # {} /\ out = before \o t[stop].bytes
    BY <2>1, Zenon DEF out
  <2>. QED
    BY <2>2, Zenon DEF over
<1>8. ended <=> UuEnded(t, begin, m)
  BY Zenon DEF ended, UuEnded, stops, stop, before
<1>. QED
  BY <1>2, <1>4, <1>5, <1>6, <1>7, <1>8 DEF d, stops, stop, before

BeginsWith(S, s, a) == \E rest \in Seq(S) : s = a \o rest

\* The bytes of the lines from one on, of which there are as many as fit in
\* memory.
LEMMA BytesFrom ==
  ASSUME NEW U, NEW t \in Seq(U), NEW S,
         Pieces(t) \in Seq(Seq(S)), Len(Pieces(t)) = Len(t),
         NEW begin \in 1 .. Len(t), NEW i \in begin .. Len(t), NEW j \in i .. Len(t)
  PROVE  /\ BytesOf(t, begin + 1, i) \in Seq(S)
         /\ BytesOf(t, begin + 1, j) \in Seq(S)
         /\ BeginsWith(S, BytesOf(t, begin + 1, j), BytesOf(t, begin + 1, i))
         /\ i < j =>
              BytesOf(t, begin + 1, j) = BytesOf(t, begin + 1, j - 1) \o t[j].bytes
         /\ Len(BytesOf(t, begin + 1, j)) <= Len(BytesIn(t))
<1>. DEFINE p == Pieces(t)
            q == SubSeq(p, begin + 1, Len(t))
<1>1. /\ Len(t) \in Nat /\ begin \in Nat /\ i \in Nat /\ j \in Nat
      /\ begin <= i /\ i <= j /\ j <= Len(t) /\ 1 <= begin /\ DOMAIN t = 1 .. Len(t)
  BY LenProperties
<1>2. \A n \in 1 .. Len(t) : p[n] = t[n].bytes
  BY <1>1 DEF Pieces
<1>. HIDE DEF p
<1>3. p \in Seq(Seq(S)) /\ Len(p) = Len(t)
  BY DEF p
<1>4. q \in Seq(Seq(S)) /\ Len(q) = Len(t) - begin /\ \A n \in 1 .. Len(t) - begin : q[n] = t[begin + n].bytes
  <2>1. q \in Seq(Seq(S)) /\ Len(q) = Len(t) - begin /\ \A n \in 1 .. Len(t) - begin : q[n] = p[begin + n]
    BY <1>1, <1>3
  <2>2. \A n \in 1 .. Len(t) - begin : begin + n \in 1 .. Len(t)
    BY <1>1
  <2>. QED
    BY <1>2, <2>1, <2>2
<1>. HIDE DEF q
<1>5. ASSUME NEW n \in begin .. Len(t)
      PROVE  BytesOf(t, begin + 1, n) = FlattenSeq(SubSeq(q, 1, n - begin))
  <2>. DEFINE r == [k \in 1 .. n - (begin + 1) + 1 |-> t[begin + 1 + k - 1].bytes]
              f == SubSeq(q, 1, n - begin)
  <2>1. n - (begin + 1) + 1 = n - begin /\ n - begin \in Nat /\ n - begin <= Len(t) - begin
    BY <1>1
  <2>2. f \in Seq(Seq(S)) /\ Len(f) = n - begin /\ \A k \in 1 .. n - begin : f[k] = q[k]
    BY <1>1, <1>4, <2>1
  <2>3. \A k \in 1 .. n - begin : k \in 1 .. Len(t) - begin /\ begin + 1 + k - 1 = begin + k
    BY <1>1, <2>1
  <2>4. DOMAIN r = 1 .. n - begin /\ \A k \in 1 .. n - begin : r[k] = t[begin + k].bytes
    BY <2>1, <2>3
  <2>. HIDE DEF r, f
  <2>5. r = [k \in 1 .. n - begin |-> r[k]]
    <3>1. r = [k \in 1 .. n - (begin + 1) + 1 |-> r[k]]
      BY DEF r
    <3>. QED
      BY <2>1, <3>1
  <2>6. f = [k \in 1 .. n - begin |-> f[k]]
    BY <2>2
  <2>7. \A k \in 1 .. n - begin : r[k] = f[k]
    BY <1>4, <2>2, <2>3, <2>4
  <2>8. r = f
    BY <2>5, <2>6, <2>7
  <2>9. BytesOf(t, begin + 1, n) = FlattenSeq(r)
    BY Zenon DEF BytesOf, r
  <2>. QED
    BY <2>8, <2>9, Zenon DEF f
<1>6. ASSUME NEW a \in begin .. Len(t), NEW b \in a .. Len(t)
      PROVE  /\ BytesOf(t, begin + 1, a) \in Seq(S) /\ BytesOf(t, begin + 1, b) \in Seq(S)
             /\ \E rest \in Seq(S) : BytesOf(t, begin + 1, b) = BytesOf(t, begin + 1, a) \o rest
  <2>1. /\ a - begin \in 0 .. Len(q) /\ b - begin \in a - begin .. Len(q)
        /\ a \in begin .. Len(t) /\ b \in begin .. Len(t)
    BY <1>1, <1>4
  <2>2. /\ FlattenSeq(SubSeq(q, 1, b - begin)) \in Seq(S)
        /\ FlattenSeq(SubSeq(q, 1, a - begin)) \in Seq(S)
        /\ FlattenSeq(SubSeq(q, a - begin + 1, b - begin)) \in Seq(S)
        /\ FlattenSeq(SubSeq(q, 1, b - begin))
             = FlattenSeq(SubSeq(q, 1, a - begin)) \o FlattenSeq(SubSeq(q, a - begin + 1, b - begin))
    BY <1>4, <2>1, FlattenSplit
  <2>3. /\ BytesOf(t, begin + 1, a) = FlattenSeq(SubSeq(q, 1, a - begin))
        /\ BytesOf(t, begin + 1, b) = FlattenSeq(SubSeq(q, 1, b - begin))
    BY <1>5, <2>1
  <2>. QED
    BY <2>2, <2>3
<1>7. Len(BytesOf(t, begin + 1, j)) <= Len(BytesIn(t))
  <2>. DEFINE l == FlattenSeq(SubSeq(p, 1, begin))
              all == BytesOf(t, begin + 1, Len(t))
  <2>1. BytesIn(t) = FlattenSeq(p)
    BY Zenon DEF BytesIn, Pieces, p
  <2>2. begin \in 0 .. Len(p) /\ Len(t) \in begin .. Len(p) /\ Len(t) \in begin .. Len(t)
    BY <1>1, <1>3
  <2>3. /\ l \in Seq(S) /\ FlattenSeq(q) \in Seq(S)
        /\ FlattenSeq(SubSeq(p, 1, Len(t))) = l \o FlattenSeq(q)
    BY <1>3, <2>2, FlattenSplit DEF q
  <2>4. SubSeq(p, 1, Len(t)) = p
    BY <1>3, SubSeqFull
  <2>5. all = FlattenSeq(q)
    <3>1. all = FlattenSeq(SubSeq(q, 1, Len(t) - begin))
      BY <1>5, <2>2
    <3>2. SubSeq(q, 1, Len(t) - begin) = q
      BY <1>4, SubSeqFull
    <3>. QED
      BY <3>1, <3>2
  <2>6. PICK rest \in Seq(S) : all = BytesOf(t, begin + 1, j) \o rest
    <3>1. j \in begin .. Len(t) /\ Len(t) \in j .. Len(t)
      BY <1>1
    <3>. QED
      BY <1>6, <3>1
  <2>7. BytesOf(t, begin + 1, j) \in Seq(S)
    BY <1>1, <1>6
  <2>. DEFINE bj == BytesOf(t, begin + 1, j)
              bt == BytesIn(t)
  <2>8. bt = l \o all /\ all = bj \o rest /\ bj \in Seq(S) /\ all \in Seq(S) /\ l \in Seq(S)
    BY <2>1, <2>3, <2>4, <2>5, <2>6, <2>7
  <2>. HIDE DEF l, all, bj, bt
  <2>9. Len(bt) = Len(l) + Len(all) /\ Len(all) = Len(bj) + Len(rest)
    BY <2>8, ConcatProperties
  <2>10. Len(l) \in Nat /\ Len(all) \in Nat /\ Len(bj) \in Nat /\ Len(rest) \in Nat
    BY <2>8, LenProperties
  <2>11. Len(bj) <= Len(bt)
    BY <2>9, <2>10
  <2>. QED
    BY <2>11 DEF bj, bt
<1>8. i < j => BytesOf(t, begin + 1, j) = BytesOf(t, begin + 1, j - 1) \o t[j].bytes
  <2>. SUFFICES ASSUME i < j  PROVE BytesOf(t, begin + 1, j) = BytesOf(t, begin + 1, j - 1) \o t[j].bytes
    OBVIOUS
  <2>. DEFINE n == j - begin
              a == SubSeq(q, 1, n - 1)
              e == t[j].bytes
  <2>1. n \in 1 .. Len(q) /\ n \in Nat /\ begin + n = j /\ j - 1 - begin = n - 1 /\ j \in begin .. Len(t) /\ j - 1 \in begin .. Len(t)
    BY <1>1, <1>4
  <2>2. q[n] = e
    BY <1>4, <2>1
  <2>3. e \in Seq(S)
    BY <1>4, <2>1, <2>2, ElementOfSeq
  <2>4. a \in Seq(Seq(S)) /\ SubSeq(q, 1, n) = Append(a, e)
    <3>1. Len(q) \in Nat /\ q \in Seq(Seq(S)) /\ n \in 1 .. Len(q)
      BY <1>4, <2>1, LenProperties
    <3>. HIDE DEF n, e
    <3>2. SubSeq(q, 1, n - 1) \in Seq(Seq(S)) /\ SubSeq(q, 1, n) = Append(SubSeq(q, 1, n - 1), q[n])
      BY <3>1
    <3>. QED
      BY <2>2, <3>2
  <2>5. BytesOf(t, begin + 1, j) = FlattenSeq(SubSeq(q, 1, n)) /\ BytesOf(t, begin + 1, j - 1) = FlattenSeq(a)
    BY <1>5, <2>1
  <2>. HIDE DEF a, e, n
  <2>6. FlattenSeq(Append(a, e)) = FlattenSeq(a) \o e
    BY <2>3, <2>4, FlattenAppend
  <2>. QED
    BY <2>4, <2>5, <2>6 DEF e
<1>9. BeginsWith(S, BytesOf(t, begin + 1, j), BytesOf(t, begin + 1, i))
  BY <1>1, <1>6 DEF BeginsWith
<1>. QED
  BY <1>1, <1>6, <1>7, <1>8, <1>9

\* Under a limit the loop over the data lines stops where it does without one,
\* or before that with more bytes than the limit.
LEMMA UuCuts ==
  ASSUME NEW U, NEW body \in Seq(U), AreUnits(body), Len(BytesIn(body)) <= Unlimited,
         NEW max \in Nat, ~DecodeUuencode(body, Unlimited).problem
  PROVE  /\ \E S : DecodeUuencode(body, Unlimited).bytes \in Seq(S)
         /\ Cuts(DecodeUuencode(body, max), DecodeUuencode(body, Unlimited).bytes, max)
<1>. DEFINE begins == {i \in DOMAIN body : body[i].kind \in BeginKinds}
            b == Min(begins)
            FirstBytes(k) == BytesOf(body, b + 1, k)
            StopsFor(m) == Stops(body, b + 1, m)
            StopFor(m) == UuStop(body, b, m)
            Block(m) == DecodeFrom(body, b, m)
            u == Unlimited
            t == StopFor(u)
            s == StopFor(max)
            W == UuBefore(body, b, u)
<1>1. /\ Len(body) \in Nat /\ DOMAIN body = 1 .. Len(body) /\ Unlimited \in Nat
  BY UnlimitedAssumption, LenProperties
<1>2. \A m : DecodeUuencode(body, m)
               = Transferred(DecodeLimited(body, m).data, DecodeLimited(body, m).limited,
                   \/ DecodeLimited(body, m).error # "none"
                   \/ DecodeLimited(body, m).truncated /\ ~DecodeLimited(body, m).limited)
  BY Zenon DEF DecodeUuencode, OfBlock
<1>3. DecodeLimited(body, u).error = "none"
  <2>. DEFINE d == DecodeLimited(body, u)
              problem == d.error # "none" \/ (d.truncated /\ ~d.limited)
  <2>1. DecodeUuencode(body, u) = Transferred(d.data, d.limited, problem)
    BY <1>2
  <2>. HIDE DEF problem, d
  <2>2. ~problem
    BY <2>1 DEF Transferred
  <2>. QED
    BY <2>2, Zenon DEF problem, d
<1>4. begins # {} /\ body[b].kind \notin Base64Begins
  <2>1. ASSUME begins = {}  PROVE FALSE
    <3>1. DecodeLimited(body, u) = UuError("InvalidBeginLine")
      BY <2>1, Zenon DEF DecodeLimited
    <3>. QED
      BY <1>3, <3>1 DEF UuError
  <2>2. ASSUME begins # {}, body[b].kind \in Base64Begins  PROVE FALSE
    <3>1. DecodeLimited(body, u) = UuError("BeginBase64")
      BY <2>2, Zenon DEF DecodeLimited
    <3>. QED
      BY <1>3, <3>1 DEF UuError
  <2>. QED
    BY <2>1, <2>2
<1>5. \A m : DecodeLimited(body, m) = Block(m)
  BY <1>4, Zenon DEF DecodeLimited
<1>6. b \in 1 .. Len(body) /\ b \in Nat
  <2>1. begins \in SUBSET Nat
    BY <1>1
  <2>. HIDE DEF begins
  <2>2. b \in begins
    BY <1>4, <2>1, MinOfNat
  <2>. QED
    BY <1>1, <2>2 DEF begins
<1>. HIDE DEF begins, b
<1>7. PICK S : Pieces(body) \in Seq(Seq(S)) /\ Len(Pieces(body)) = Len(body)
  BY BytesOverOneSet
<1>8. ASSUME NEW j \in b .. Len(body)
      PROVE  FirstBytes(j) \in Seq(S) /\ Len(FirstBytes(j)) \in Nat /\ Len(FirstBytes(j)) <= u
  <2>1. j \in j .. Len(body) /\ j \in b .. Len(body)
    BY <1>1, <1>6
  <2>2. FirstBytes(j) \in Seq(S) /\ Len(FirstBytes(j)) <= Len(BytesIn(body))
    BY <1>6, <1>7, <2>1, BytesFrom
  <2>3. BytesIn(body) \in Seq(S)
    <3>1. 0 \in 0 .. Len(body)
      BY <1>1
    <3>. QED
      BY <1>7, <3>1, BytesOfFirst
  <2>4. Len(BytesIn(body)) \in Nat /\ Len(FirstBytes(j)) \in Nat
    <3>. DEFINE x == FirstBytes(j)
                y == BytesIn(body)
    <3>1. x \in Seq(S) /\ y \in Seq(S)
      BY <2>2, <2>3
    <3>. HIDE DEF x, y
    <3>2. Len(x) \in Nat /\ Len(y) \in Nat
      BY <3>1, LenProperties
    <3>. QED
      BY <3>2 DEF x, y
  <2>. QED
    BY <1>1, <2>2, <2>4
<1>22. W = FirstBytes(t - 1)
  BY DEF UuBefore
<1>9. /\ Block(u).error = "none"
      /\ ~Block(u).truncated => /\ StopsFor(u) # {} /\ ~(Len(W) > u)
                                /\ DecodesToZero(body[t]) /\ EndsAfter(body, t)
      /\ Block(u).limited => Len(W) > u \/ (StopsFor(u) # {} /\ Len(W \o body[t].bytes) > u)
      /\ /\ StopsFor(u) # {} /\ ~(Len(W) > u) /\ DecodesToZero(body[t]) /\ EndsAfter(body, t)
         => Block(u).data = W /\ Block(u).limited = FALSE /\ Block(u).truncated = FALSE
  BY UuRecord DEF UuEnded
<1>10. ASSUME NEW m \in Nat  PROVE StopsFor(m) \in SUBSET Nat /\ StopsFor(m) \subseteq b + 1 .. Len(body)
  BY <1>1, <1>6 DEF Stops
<1>11. ASSUME NEW m \in Nat, StopsFor(m) # {}
       PROVE  /\ StopFor(m) \in StopsFor(m) /\ StopFor(m) \in b + 1 .. Len(body)
              /\ StopFor(m) - 1 \in b .. Len(body)
              /\ \A y \in StopsFor(m) : StopFor(m) <= y
  <2>1. StopFor(m) = Min(StopsFor(m))
    BY <1>11 DEF UuStop
  <2>. HIDE DEF StopsFor
  <2>2. StopFor(m) \in StopsFor(m) /\ \A y \in StopsFor(m) : StopFor(m) <= y
    BY <1>10, <1>11, <2>1, MinOfNat
  <2>. HIDE DEF StopFor
  <2>3. StopFor(m) \in b + 1 .. Len(body)
    BY <1>10, <2>2
  <2>4. StopFor(m) - 1 \in b .. Len(body)
    BY <1>1, <1>6, <2>3
  <2>. QED
    BY <2>2, <2>3, <2>4
<1>12. ~Block(u).limited
  <2>. SUFFICES ASSUME Block(u).limited  PROVE FALSE
    OBVIOUS
  <2>1. t - 1 \in b .. Len(body) /\ t \in Nat
    <3>1. CASE StopsFor(u) = {}
      <4>1. t = Len(body) + 1
        BY <3>1 DEF UuStop
      <4>. QED
        BY <1>1, <1>6, <4>1
    <3>2. CASE StopsFor(u) # {}
      <4>1. t - 1 \in b .. Len(body) /\ t \in b + 1 .. Len(body)
        BY <1>1, <1>11, <3>2
      <4>. HIDE DEF t
      <4>. QED
        BY <1>6, <4>1
    <3>. QED
      BY <3>1, <3>2
  <2>2. Len(W) \in Nat /\ Len(W) <= u
    BY <1>8, <1>22, <2>1
  <2>3. ~(Len(W) > u)
    BY <1>1, <2>2
  <2>4. StopsFor(u) # {} /\ Len(W \o body[t].bytes) > u
    BY <1>9, <2>3
  <2>5. t \in b + 1 .. Len(body)
    BY <1>1, <1>11, <2>4
  <2>. HIDE DEF t
  <2>6. b \in b .. Len(body) /\ t \in b .. Len(body) /\ b < t
    BY <1>1, <1>6, <2>5
  <2>7. FirstBytes(t) = W \o body[t].bytes
    BY <1>6, <1>7, <1>22, <2>6, BytesFrom
  <2>8. Len(FirstBytes(t)) \in Nat /\ Len(FirstBytes(t)) <= u
    BY <1>8, <2>6
  <2>9. Len(W \o body[t].bytes) \in Nat /\ Len(W \o body[t].bytes) <= u
    BY <2>7, <2>8
  <2>. HIDE DEF W
  <2>. QED
    BY <1>1, <2>4, <2>9
<1>13. /\ StopsFor(u) # {} /\ DecodesToZero(body[t]) /\ EndsAfter(body, t)
       /\ DecodeUuencode(body, u).bytes = W
  <2>. DEFINE d == Block(u)
              problem == d.error # "none" \/ (d.truncated /\ ~d.limited)
  <2>1. DecodeUuencode(body, u) = Transferred(d.data, d.limited, problem)
    BY <1>2, <1>5
  <2>. HIDE DEF problem, d
  <2>2. ~problem /\ DecodeUuencode(body, u).bytes = d.data
    BY <2>1 DEF Transferred
  <2>3. ~d.truncated
    BY <1>12, <2>2, Zenon DEF problem, d
  <2>4. /\ StopsFor(u) # {} /\ ~(Len(W) > u)
        /\ DecodesToZero(body[t]) /\ EndsAfter(body, t)
    BY <1>9, <2>3, Zenon DEF d
  <2>5. d.data = W
    BY <1>9, <2>4, Zenon DEF d
  <2>. QED
    BY <2>2, <2>4, <2>5
<1>14. /\ t \in StopsFor(u) /\ t \in b + 1 .. Len(body) /\ t - 1 \in b .. Len(body)
       /\ \A y \in StopsFor(u) : t <= y
  BY <1>1, <1>11, <1>13
<1>15. ~DecodesToBytes(body[t]) /\ t \in StopsFor(max)
  <2>. HIDE DEF t
  <2>1. Len(FirstBytes(t - 1)) \in Nat /\ Len(FirstBytes(t - 1)) <= u
    BY <1>8, <1>14
  <2>2. ~(Len(BytesOf(body, b + 1, t - 1)) > u)
    BY <1>1, <2>1
  <2>3. ~DecodesToBytes(body[t])
    BY <1>14, <2>2, Zenon DEF Stops
  <2>. QED
    BY <1>14, <2>3 DEF Stops
<1>16. /\ s \in StopsFor(max) /\ s \in b + 1 .. Len(body) /\ s - 1 \in b .. Len(body) /\ s <= t
  <2>1. StopsFor(max) # {}
    BY <1>15
  <2>. QED
    BY <1>11, <1>15, <2>1
<1>. DEFINE B == UuBefore(body, b, max)
<1>17. /\ Len(B) > max => Block(max).data = SubSeq(B, 1, max) /\ Block(max).limited = TRUE
       /\ Block(max).error = "none"
       /\ StopsFor(max) # {} /\ ~(Len(B) > max) /\ DecodesToZero(body[s]) /\ EndsAfter(body, s)
         => Block(max).data = B /\ Block(max).limited = FALSE /\ Block(max).truncated = FALSE
  BY UuRecord DEF UuEnded
<1>23. B = FirstBytes(s - 1)
  BY DEF UuBefore
<1>18. W \in Seq(S) /\ B \in Seq(S) /\ \E rest \in Seq(S) : W = B \o rest
  <2>1. ASSUME NEW j \in b .. Len(body), NEW i \in b .. j
        PROVE  /\ FirstBytes(i) \in Seq(S) /\ FirstBytes(j) \in Seq(S)
               /\ \E rest \in Seq(S) : FirstBytes(j) = FirstBytes(i) \o rest
    <3>1. i \in b .. Len(body) /\ j \in i .. Len(body)
      BY <1>1, <1>6
    <3>2. FirstBytes(i) \in Seq(S) /\ FirstBytes(j) \in Seq(S)
      BY <1>6, <1>7, <3>1, BytesFrom
    <3>3. BeginsWith(S, FirstBytes(j), FirstBytes(i))
      BY <1>6, <1>7, <3>1, BytesFrom
    <3>. QED
      BY <3>2, <3>3, Zenon DEF BeginsWith
  <2>2. t - 1 \in b .. Len(body) /\ s - 1 \in b .. t - 1
    <3>. HIDE DEF t, s
    <3>. QED
      BY <1>1, <1>6, <1>14, <1>16
  <2>. HIDE DEF t, s, FirstBytes
  <2>. QED
    BY <1>22, <1>23, <2>1, <2>2
<1>. DEFINE d == Block(max)
            problem == d.error # "none" \/ (d.truncated /\ ~d.limited)
<1>19. DecodeUuencode(body, max) = Transferred(d.data, d.limited, problem)
  BY <1>2, <1>5
<1>20. CASE Len(B) > max
  <2>. HIDE DEF B, W, d, problem
  <2>1. d.data = SubSeq(B, 1, max) /\ d.limited = TRUE /\ d.error = "none"
    BY <1>17, <1>20, Zenon DEF d
  <2>2. problem = FALSE
    BY <2>1 DEF problem
  <2>3. DecodeUuencode(body, max) = Transferred(SubSeq(B, 1, max), TRUE, FALSE)
    BY <1>19, <2>1, <2>2
  <2>4. PICK rest \in Seq(S) : W = B \o rest
    BY <1>18
  <2>5. max <= Len(B) /\ Len(B) \in Nat /\ Len(rest) \in Nat
    BY <1>18, <1>20, LenProperties
  <2>6. Prefix(W, max) = Prefix(B, max) /\ Prefix(B, max) = SubSeq(B, 1, max)
        /\ Prefix(Prefix(B, max), max) = Prefix(B, max)
    BY <1>18, <2>4, <2>5, PrefixOfConcat, BeginningIs
  <2>7. Len(W) > max
    <3>1. Len(W) = Len(B) + Len(rest)
      BY <1>18, <2>4, ConcatProperties
    <3>. QED
      BY <1>20, <2>5, <3>1
  <2>8. Cuts(Transferred(SubSeq(B, 1, max), TRUE, FALSE), W, max)
    BY <2>6, <2>7 DEF Cuts, Transferred
  <2>. QED
    BY <1>13, <1>18, <2>3, <2>8
<1>21. CASE ~(Len(B) > max)
  <2>1. s = t
    <3>. HIDE DEF t, s, b
    <3>1. ~DecodesToBytes(body[s])
      <4>1. ~(Len(BytesOf(body, b + 1, s - 1)) > max)
        BY <1>21, <1>23, Zenon
      <4>. QED
        BY <1>16, <4>1, Zenon DEF Stops
    <3>2. s \in StopsFor(u)
      BY <1>16, <3>1 DEF Stops
    <3>3. s <= t /\ t <= s /\ s \in Nat /\ t \in Nat
      BY <1>6, <1>14, <1>16, <3>2
    <3>. QED
      BY <3>3
  <2>2. B = W /\ StopsFor(max) # {} /\ DecodesToZero(body[s]) /\ EndsAfter(body, s)
    <3>1. B = W
      <4>. HIDE DEF s, t, B, W
      <4>. QED
        BY <1>22, <1>23, <2>1
    <3>2. StopsFor(max) # {}
      BY <1>16
    <3>. QED
      BY <1>13, <2>1, <3>1, <3>2, Zenon
  <2>3. Block(max).data = B /\ Block(max).limited = FALSE /\ Block(max).truncated = FALSE /\ Block(max).error = "none"
    BY <1>17, <1>21, <2>2, Zenon
  <2>. HIDE DEF B, W, d, problem
  <2>4. d.data = W /\ d.limited = FALSE /\ d.truncated = FALSE /\ d.error = "none"
    BY <2>2, <2>3, Zenon DEF d
  <2>5. problem = FALSE
    BY <2>4 DEF problem
  <2>6. DecodeUuencode(body, max) = Transferred(W, FALSE, FALSE)
    BY <1>19, <2>4, <2>5
  <2>7. Cuts(Transferred(W, FALSE, FALSE), W \o <<>>, max)
    <3>1. <<>> \in Seq(S) /\ FALSE \in BOOLEAN
      OBVIOUS
    <3>. QED
      BY <1>18, <3>1, CutsBeginning
  <2>8. W \o <<>> = W
    BY <1>18, ConcatEmptySeq
  <2>. QED
    BY <1>13, <1>18, <2>6, <2>7, <2>8
<1>. QED
  BY <1>20, <1>21

-----------------------------------------------------------------------------
(* The decoders together.                                                  *)

LEMMA MaxWithZero ==
  ASSUME NEW a \in Int
  PROVE  Max({a, 0}) = IF a > 0 THEN a ELSE 0
<1>. DEFINE S == {a, 0}
<1>1. \E x \in S : \A y \in S : x >= y
  <2>1. CASE a >= 0
    BY <2>1
  <2>2. CASE ~(a >= 0)
    BY <2>2
  <2>. QED
    BY <2>1, <2>2
<1>2. Max(S) \in S /\ \A y \in S : Max(S) >= y
  <2>. HIDE DEF S
  <2>. QED
    BY <1>1 DEF Max
<1>3. Max(S) \in Int /\ Max(S) >= 0 /\ Max(S) >= a /\ (Max(S) = a \/ Max(S) = 0)
  BY <1>2
<1>. QED
  BY <1>3

\* What build_part takes for the body is what the header says, and it lies in
\* the message.
LEMMA BodyInRange ==
  ASSUME NEW body, IsBody(body), IsWithin(body)
  PROVE  /\ InRange(body.raw, PartOf(body.header))
         /\ BodyOf(body.raw, PartOf(body.header)) = Carried(body)
         /\ Carried(body) \in Seq(Range(body.raw))
         /\ Len(Carried(body)) <= Unlimited
<1>. DEFINE R == Range(body.raw)
            raw == body.raw
            from == body.header.offset
            to == body.header.end
            o == PartOf(body.header).offset
            n == PartOf(body.header).length
<1>1. raw \in Seq(R) /\ Len(raw) <= Unlimited /\ from \in Nat /\ to \in Nat
  BY Zenon DEF IsBody
<1>2. from <= Len(raw) /\ to <= Len(raw)
  BY DEF IsWithin
<1>3. o = from /\ n = Max({to - from, 0})
  BY DEF PartOf
<1>4. /\ BodyOf(raw, PartOf(body.header)) = SubSeq(raw, o + 1, o + n)
      /\ InRange(raw, PartOf(body.header)) <=> o + n <= Len(raw)
      /\ Carried(body) = SubSeq(raw, from + 1, to)
  BY Zenon DEF BodyOf, InRange, Carried
<1>. HIDE DEF R, raw, from, to, o, n
<1>5. Len(raw) \in Nat /\ Unlimited \in Nat
  BY <1>1, UnlimitedAssumption, LenProperties
<1>6. n = IF from < to THEN to - from ELSE 0
  <2>1. to - from \in Int
    BY <1>1
  <2>2. n = IF to - from > 0 THEN to - from ELSE 0
    BY <1>3, <2>1, MaxWithZero
  <2>. QED
    BY <1>1, <2>2
<1>7. /\ o + n <= Len(raw)
      /\ SubSeq(raw, o + 1, o + n) = SubSeq(raw, from + 1, to)
      /\ SubSeq(raw, from + 1, to) \in Seq(R) /\ Len(SubSeq(raw, from + 1, to)) <= Unlimited
  <2>1. CASE from < to
    <3>1. o + n = to
      BY <1>1, <1>3, <1>6, <2>1
    <3>2. SubSeq(raw, from + 1, to) \in Seq(R) /\ Len(SubSeq(raw, from + 1, to)) <= Unlimited
      BY <1>1, <1>2, <1>5, <2>1
    <3>. QED
      BY <1>2, <1>3, <3>1, <3>2
  <2>2. CASE ~(from < to)
    <3>1. o + n = from
      BY <1>1, <1>3, <1>6, <2>2
    <3>2. SubSeq(raw, from + 1, from) = <<>> /\ SubSeq(raw, from + 1, to) = <<>>
      BY <1>1, <1>2, <1>5, <2>2, SubSeqEmpty
    <3>3. <<>> \in Seq(R) /\ Len(<<>>) = 0 /\ 0 <= Unlimited
      BY <1>5
    <3>4. o + 1 = from + 1
      BY <1>3
    <3>5. SubSeq(raw, o + 1, o + n) = SubSeq(raw, from + 1, to)
      BY <3>1, <3>2, <3>4, Zenon
    <3>6. o + n <= Len(raw)
      BY <1>2, <3>1
    <3>. QED
      BY <3>2, <3>3, <3>5, <3>6, Zenon
  <2>. QED
    BY <2>1, <2>2
<1>. QED
  BY <1>4, <1>7 DEF R, raw

\* Under every transfer encoding a limit cuts what decodes without one.
LEMMA LimitsCut ==
  ASSUME NEW body, IsBody(body), Sound(body), NEW max \in Nat
  PROVE  /\ InRange(body.raw, PartOf(body.header))
         /\ \E S : Original(body) \in Seq(S)
         /\ AreOfCharacters(Original(body))
         /\ Cuts(TransferDecode(BodyOf(body.raw, PartOf(body.header)),
                                PartOf(body.header).encoding, max),
                 Original(body), max)
<1>. DEFINE units == Carried(body)
            enc == MapEncoding(body.header.cte)
<1>1. /\ IsWithin(body)
      /\ ~Whole(body).problem
      /\ Whole(body).bytes = Original(body)
      /\ AreOfCharacters(Original(body))
  <2>1. IsWithin(body) /\ ~Whole(body).problem
    BY Zenon DEF IsBody, Sound
  <2>2. Whole(body).bytes = Original(body)
    BY Zenon DEF IsBody, Original
  <2>3. AreOfCharacters(Whole(body).bytes)
    BY <2>1, Zenon DEF IsBody
  <2>. QED
    BY <2>1, <2>2, <2>3
<1>2. Whole(body) = TransferDecode(units, enc, Unlimited)
  BY Zenon DEF Whole
<1>3. /\ enc # "identity" => AreUnits(units) /\ Len(BytesIn(units)) <= Unlimited
      /\ enc = "base64" => GroupedBy4(Stripped(units))
  BY <1>1, Zenon DEF IsBody
<1>4. enc \in {"base64", "quoted-printable", "x-uuencode", "identity"}
  BY DEF MapEncoding
<1>5. /\ units \in Seq(Range(body.raw)) /\ Len(units) <= Unlimited
      /\ InRange(body.raw, PartOf(body.header))
      /\ BodyOf(body.raw, PartOf(body.header)) = units
  BY <1>1, BodyInRange
<1>8. PartOf(body.header).encoding = enc
  BY DEF PartOf
<1>6. ASSUME NEW m
      PROVE  TransferDecode(units, enc, m)
               = CASE enc = "base64"           -> Base64(units, m)
                   [] enc = "quoted-printable" -> QpWithLimit(units, m)
                   [] enc = "x-uuencode"       -> DecodeUuencode(units, m)
                   [] OTHER                    -> Identity(units, m)
  BY Zenon DEF TransferDecode
<1>. HIDE DEF units, enc
<1>7. /\ \E S : TransferDecode(units, enc, Unlimited).bytes \in Seq(S)
      /\ Cuts(TransferDecode(units, enc, max), TransferDecode(units, enc, Unlimited).bytes, max)
  <2>1. ~TransferDecode(units, enc, Unlimited).problem
    BY <1>1, <1>2
  <2>2. CASE enc = "base64"
    <3>1. \A m : TransferDecode(units, enc, m) = Base64(units, m)
      BY <1>6, <2>2
    <3>2. AreUnits(units) /\ GroupedBy4(Stripped(units))
      BY <1>3, <2>2
    <3>3. ~Base64(units, Unlimited).problem
      BY <2>1, <3>1
    <3>. QED
      BY <1>5, <3>1, <3>2, <3>3, Base64Cuts
  <2>3. CASE enc = "quoted-printable"
    <3>1. \A m : TransferDecode(units, enc, m) = QpWithLimit(units, m)
      BY <1>6, <2>3
    <3>2. AreUnits(units) /\ Len(BytesIn(units)) <= Unlimited
      BY <1>3, <2>3
    <3>3. ~QpWithLimit(units, Unlimited).problem
      BY <2>1, <3>1
    <3>. QED
      BY <1>5, <3>1, <3>2, <3>3, QpCuts
  <2>4. CASE enc = "x-uuencode"
    <3>1. \A m : TransferDecode(units, enc, m) = DecodeUuencode(units, m)
      BY <1>6, <2>4
    <3>2. AreUnits(units) /\ Len(BytesIn(units)) <= Unlimited
      BY <1>3, <2>4
    <3>3. ~DecodeUuencode(units, Unlimited).problem
      BY <2>1, <3>1
    <3>. QED
      BY <1>5, <3>1, <3>2, <3>3, UuCuts
  <2>5. CASE enc = "identity"
    <3>1. \A m : TransferDecode(units, enc, m) = Identity(units, m)
      BY <1>6, <2>5
    <3>. QED
      BY <1>5, <3>1, IdentityCuts
  <2>. QED
    BY <1>4, <2>2, <2>3, <2>4, <2>5
<1>. QED
  BY <1>1, <1>2, <1>5, <1>7, <1>8, Zenon

\* What the client is answered.
LEMMA DecodedIs ==
  ASSUME NEW body, IsBody(body), Sound(body), NEW max \in Nat
  PROVE  LET text == Text(Prefix(Original(body), max), CharsetOf(body.header))
         IN  Decoded(body, max) = [error     |-> "none",
                                   value     |-> text,
                                   truncated |-> Len(Original(body)) > max,
                                   problem   |-> HadErrors(text)]
<1>. DEFINE part == PartOf(body.header)
            d == TransferDecode(BodyOf(body.raw, part), part.encoding, max)
            text == Text(Prefix(Original(body), max), CharsetOf(body.header))
<1>1. InRange(body.raw, part) /\ Cuts(d, Original(body), max)
  BY LimitsCut
<1>2. part.charset = CharsetOf(body.header)
  BY DEF PartOf
<1>3. Decoded(body, max) = CutAndConverted(d, part.charset, max)
  BY <1>1, Zenon DEF Decoded, DecodeBodyValue
<1>. HIDE DEF part, d
<1>4. /\ d.problem = FALSE /\ Prefix(d.bytes, max) = Prefix(Original(body), max)
      /\ (Len(d.bytes) > max \/ d.limited) <=> Len(Original(body)) > max
  BY <1>1 DEF Cuts
<1>5. CutAndConverted(d, part.charset, max)
        = [error     |-> "none",
           value     |-> text,
           truncated |-> Len(d.bytes) > max \/ d.limited,
           problem   |-> d.problem \/ HadErrors(text)]
  BY <1>2, <1>4, Zenon DEF CutAndConverted, BodyValue
<1>6. (d.problem \/ HadErrors(text)) = HadErrors(text)
  BY <1>4 DEF HadErrors
<1>7. (Len(d.bytes) > max \/ d.limited) = (Len(Original(body)) > max)
  BY <1>4
<1>. HIDE DEF text
<1>8. CutAndConverted(d, part.charset, max)
        = [error     |-> "none",
           value     |-> text,
           truncated |-> Len(Original(body)) > max,
           problem   |-> HadErrors(text)]
  BY <1>5, <1>6, <1>7, Zenon
<1>. QED
  BY <1>3, <1>8 DEF text

-----------------------------------------------------------------------------
(* Texts and previews.                                                     *)

\* The characters of a text in UTF-8, position by position.
CharactersOf(bytes) == [i \in DOMAIN bytes |-> CharactersAt(bytes, i)]

LEMMA CharactersAre ==
  ASSUME NEW S, NEW bytes \in Seq(S)
  PROVE  \E T : /\ CharactersOf(bytes) \in Seq(Seq(T)) /\ Len(CharactersOf(bytes)) = Len(bytes)
                /\ \A i \in 1 .. Len(bytes) : CharactersOf(bytes)[i] = CharactersAt(bytes, i)
<1>. DEFINE T == {bytes[i].char : i \in DOMAIN bytes} \cup {Replacement}
            c == CharactersOf(bytes)
<1>1. Len(bytes) \in Nat /\ DOMAIN bytes = 1 .. Len(bytes)
  BY LenProperties
<1>2. ASSUME NEW i \in DOMAIN bytes  PROVE CharactersAt(bytes, i) \in Seq(T)
  <2>. DEFINE x == bytes[i].char
              y == Replacement
  <2>1. x \in T /\ y \in T
    OBVIOUS
  <2>. HIDE DEF T, x, y
  <2>2. <<>> \in Seq(T) /\ <<x>> \in Seq(T) /\ <<y>> \in Seq(T)
    BY <2>1
  <2>3. CharactersAt(bytes, i) \in {<<>>, <<x>>, <<y>>}
    BY DEF CharactersAt, x, y
  <2>. QED
    BY <2>2, <2>3
<1>. HIDE DEF T
<1>3. c \in [1 .. Len(bytes) -> Seq(T)] /\ \A i \in 1 .. Len(bytes) : c[i] = CharactersAt(bytes, i)
  BY <1>1, <1>2 DEF CharactersOf
<1>. HIDE DEF c
<1>4. c \in Seq(Seq(T)) /\ Len(c) = Len(bytes)
  BY <1>1, <1>3
<1>. QED
  BY <1>3, <1>4 DEF c

\* Of 4 bytes one at least begins a character or is replaced, for no character
\* has more.
LEMMA CharactersAreMany ==
  ASSUME NEW S, NEW bytes \in Seq(S), AreOfCharacters(bytes), ~StartsWithMark(bytes),
         NEW T, CharactersOf(bytes) \in Seq(Seq(T)),
         Len(CharactersOf(bytes)) = Len(bytes),
         \A i \in 1 .. Len(bytes) : CharactersOf(bytes)[i] = CharactersAt(bytes, i)
  PROVE  \A m \in 1 .. Len(bytes) : 4 * Len(FlattenSeq(SubSeq(CharactersOf(bytes), 1, m))) >= m
<1>. DEFINE c == CharactersOf(bytes)
            F(m) == FlattenSeq(SubSeq(c, 1, m))
            n == Len(bytes)
            At(i) == bytes[i].at
            Good == {m \in 0 .. n : m = 0 \/ 4 * Len(F(m)) >= m + 4 - At(m)}
<1>1. n \in Nat /\ DOMAIN bytes = 1 .. n
  BY LenProperties
<1>2. \A i \in 1 .. n : At(i) \in Nat /\ At(i) >= 1 /\ At(i) <= 4
  <2>. SUFFICES ASSUME NEW i \in 1 .. n  PROVE At(i) \in Nat /\ At(i) >= 1 /\ At(i) <= 4
    OBVIOUS
  <2>. DEFINE of == bytes[i].of
              at == bytes[i].at
  <2>1. of \in 1 .. 4 /\ at \in 1 .. of
    BY <1>1 DEF AreOfCharacters
  <2>. HIDE DEF of, at
  <2>2. at \in Nat /\ at >= 1 /\ at <= 4
    BY <2>1
  <2>. QED
    BY <2>2 DEF at
<1>3. 0 \in Good
  BY <1>1
<1>4. ASSUME NEW i \in 1 .. n
      PROVE  /\ CharactersAt(bytes, i) \in Seq(T)
             /\ Len(CharactersAt(bytes, i)) = 1
                  \/ (Len(CharactersAt(bytes, i)) = 0 /\ i > 1 /\ At(i - 1) = At(i) - 1)
  <2>. DEFINE e == CharactersAt(bytes, i)
              x == bytes[i].char
              y == Replacement
  <2>1. e \in Seq(T)
    <3>1. e = c[i]
      OBVIOUS
    <3>. HIDE DEF c, e
    <3>. QED
      BY <3>1, ElementOfSeq DEF c
  <2>2. CASE bytes[i].at > 1 /\ Continues(bytes, i)
    <3>1. i > 1 /\ bytes[i - 1] = [bytes[i] EXCEPT !.at = @ - 1]
      BY <2>2 DEF Continues
    <3>2. bytes[i] = [char |-> bytes[i].char, at |-> bytes[i].at, of |-> bytes[i].of]
      BY <1>1 DEF AreOfCharacters
    <3>3. bytes[i - 1].at = bytes[i].at - 1
      BY <3>1, <3>2
    <3>4. e = <<>>
      BY <2>2, Zenon DEF CharactersAt
    <3>. HIDE DEF e
    <3>5. Len(e) = 0
      BY <3>4
    <3>. QED
      BY <2>1, <3>1, <3>3, <3>5 DEF e
  <2>3. CASE ~(bytes[i].at > 1 /\ Continues(bytes, i)) /\ (bytes[i].at > 1 \/ ~Complete(bytes, i))
    <3>1. e = <<y>>
      BY <2>3, Zenon DEF CharactersAt
    <3>. HIDE DEF e, y
    <3>2. Len(e) = 1
      BY <3>1
    <3>. QED
      BY <2>1, <3>2 DEF e
  <2>4. CASE ~(bytes[i].at > 1) /\ Complete(bytes, i)
    <3>1. ~(i = 1 /\ bytes[1].char = ByteOrderMark)
      <4>. SUFFICES ASSUME i = 1, bytes[1].char = ByteOrderMark  PROVE FALSE
        OBVIOUS
      <4>1. /\ bytes[1] = [char |-> bytes[1].char, at |-> bytes[1].at, of |-> bytes[1].of]
            /\ bytes[1].of = 3
        BY <1>1 DEF AreOfCharacters
      <4>2. 3 <= n /\ \A k \in 1 .. 3 : bytes[k] = [bytes[1] EXCEPT !.at = k]
        <5>1. /\ i + bytes[i].of - 1 <= Len(bytes)
              /\ \A k \in 1 .. bytes[i].of : bytes[i + k - 1] = [bytes[i] EXCEPT !.at = k]
          BY <2>4 DEF Complete
        <5>2. \A k \in 1 .. 3 : bytes[1 + k - 1] = [bytes[1] EXCEPT !.at = k]
          BY <4>1, <5>1, Zenon
        <5>3. \A k \in 1 .. 3 : 1 + k - 1 = k
          OBVIOUS
        <5>4. 3 <= n
          BY <4>1, <5>1
        <5>. QED
          BY <5>2, <5>3, <5>4
      <4>3. \A k \in 1 .. 3 : bytes[k] = [char |-> ByteOrderMark, at |-> k, of |-> 3]
        <5>. SUFFICES ASSUME NEW k \in 1 .. 3
                      PROVE  bytes[k] = [char |-> ByteOrderMark, at |-> k, of |-> 3]
          OBVIOUS
        <5>1. bytes[k] = [bytes[1] EXCEPT !.at = k]
          BY <4>2
        <5>2. bytes[1] = [char |-> ByteOrderMark, at |-> bytes[1].at, of |-> 3]
          BY <4>1
        <5>. QED
          BY <5>1, <5>2
      <4>4. Prefix(bytes, 3) = SubSeq(bytes, 1, 3)
        <5>1. 3 \in Nat /\ 3 <= Len(bytes)
          BY <4>2
        <5>. QED
          BY <5>1, BeginningIs
      <4>5. SubSeq(bytes, 1, 3) = [k \in 1 .. 3 |-> bytes[k]]
        BY <1>1, <4>2
      <4>6. Encoded(ByteOrderMark, 3) = [k \in 1 .. 3 |-> [char |-> ByteOrderMark, at |-> k, of |-> 3]]
        BY Zenon DEF Encoded
      <4>7. [k \in 1 .. 3 |-> bytes[k]] = [k \in 1 .. 3 |-> [char |-> ByteOrderMark, at |-> k, of |-> 3]]
        BY <4>3, Zenon
      <4>8. StartsWithMark(bytes)
        BY <4>4, <4>5, <4>6, <4>7, Zenon DEF StartsWithMark
      <4>. QED
        BY <4>8
    <3>2. e = <<x>>
      BY <2>4, <3>1, Zenon DEF CharactersAt
    <3>. HIDE DEF e, x
    <3>3. Len(e) = 1
      BY <3>2
    <3>. QED
      BY <2>1, <3>3 DEF e
  <2>. QED
    BY <2>2, <2>3, <2>4
<1>5. ASSUME NEW i \in 1 .. n, i - 1 \in Good  PROVE i \in Good
  <2>. DEFINE a == SubSeq(c, 1, i - 1)
              e == CharactersAt(bytes, i)
  <2>1. i \in 0 .. n /\ i \in Nat /\ e \in Seq(T) /\ c[i] = e
    BY <1>1, <1>4
  <2>2. a \in Seq(Seq(T)) /\ SubSeq(c, 1, i) = Append(a, e)
    <3>. HIDE DEF c, e, Good
    <3>1. c \in Seq(Seq(T)) /\ Len(c) = n
      BY DEF c
    <3>. QED
      BY <1>1, <2>1, <3>1
  <2>3. F(i - 1) = FlattenSeq(a)
    OBVIOUS
  <2>4. \/ Len(e) = 1
        \/ Len(e) = 0 /\ i > 1 /\ At(i - 1) = At(i) - 1
    BY <1>4
  <2>5. i - 1 = 0 \/ 4 * Len(FlattenSeq(a)) >= (i - 1) + 4 - At(i - 1)
    BY <1>5
  <2>. HIDE DEF a, e, c, Good
  <2>6. F(i) = FlattenSeq(a) \o e /\ FlattenSeq(a) \in Seq(T)
    BY <2>1, <2>2, FlattenAppend, FlattenTyped
  <2>. DEFINE l == Len(FlattenSeq(a))
  <2>7. l \in Nat /\ Len(e) \in Nat /\ Len(F(i)) = l + Len(e)
    <3>. DEFINE f == FlattenSeq(a)
    <3>1. F(i) = f \o e /\ f \in Seq(T)
      BY <2>6
    <3>. HIDE DEF f
    <3>2. Len(f \o e) = Len(f) + Len(e) /\ Len(f) \in Nat /\ Len(e) \in Nat
      BY <2>1, <3>1, ConcatProperties, LenProperties
    <3>. QED
      BY <3>1, <3>2 DEF f
  <2>8. At(i) \in Nat /\ At(i) >= 1 /\ At(i) <= 4
    BY <1>2
  <2>9. i > 1 => At(i - 1) \in Nat /\ At(i - 1) >= 1 /\ At(i - 1) <= 4
    <3>1. i > 1 => i - 1 \in 1 .. n
      BY <1>1
    <3>. QED
      BY <1>2, <3>1
  <2>. DEFINE r == Len(F(i))
              p == At(i - 1)
              q == At(i)
  <2>10. 4 * r >= i + 4 - q
    <3>1. r = l + Len(e) /\ l \in Nat /\ Len(e) \in Nat /\ q \in Nat /\ q >= 1 /\ q <= 4
          /\ (i > 1 => p \in Nat /\ p >= 1 /\ p <= 4)
          /\ (i - 1 = 0 \/ 4 * l >= (i - 1) + 4 - p)
          /\ (Len(e) = 1 \/ (Len(e) = 0 /\ i > 1 /\ p = q - 1))
      BY <2>4, <2>5, <2>7, <2>8, <2>9
    <3>. HIDE DEF r, l, p, q
    <3>2. CASE i = 1
      <4>1. ~(i > 1)
        BY <3>2
      <4>2. Len(e) = 1
        BY <3>1, <4>1
      <4>3. r = l + 1
        BY <3>1, <4>2
      <4>. QED
        BY <3>1, <3>2, <4>3
    <3>3. CASE i > 1 /\ Len(e) = 1
      BY <2>1, <3>1, <3>3
    <3>4. CASE i > 1 /\ Len(e) = 0
      BY <2>1, <3>1, <3>4
    <3>. QED
      BY <2>1, <3>1, <3>2, <3>3, <3>4
  <2>. QED
    BY <2>1, <2>10 DEF Good
<1>6. \A m \in 0 .. n : m \in Good
  <2>. HIDE DEF Good, n
  <2>. QED
    BY <1>1, <1>3, <1>5, UpTo
<1>7. ASSUME NEW m \in 1 .. n  PROVE 4 * Len(F(m)) >= m
  <2>1. m \in 0 .. n /\ m # 0
    BY <1>1
  <2>2. 4 * Len(F(m)) >= m + 4 - At(m)
    BY <1>6, <2>1
  <2>3. Len(F(m)) \in Nat
    <3>1. SubSeq(c, 1, m) \in Seq(Seq(T))
      <4>. HIDE DEF c
      <4>1. c \in Seq(Seq(T)) /\ Len(c) = n
        BY DEF c
      <4>. QED
        BY <1>1, <4>1
    <3>2. F(m) \in Seq(T)
      BY <3>1, FlattenTyped
    <3>. DEFINE f == F(m)
    <3>3. f \in Seq(T)
      BY <3>2
    <3>. HIDE DEF f
    <3>4. Len(f) \in Nat
      BY <3>3, LenProperties
    <3>. QED
      BY <3>4 DEF f
  <2>. HIDE DEF F
  <2>. QED
    BY <1>1, <1>2, <2>2, <2>3
<1>. QED
  BY <1>7

\* The characters of the first bytes are those of a longer text, but for the
\* last 3, which may be cut.
LEMMA CharactersOfFirst ==
  ASSUME NEW S, NEW bytes \in Seq(S), AreOfCharacters(bytes),
         NEW n \in Nat, n <= Len(bytes), NEW i \in 1 .. n - 3
  PROVE  CharactersAt(SubSeq(bytes, 1, n), i) = CharactersAt(bytes, i)
<1>. DEFINE cut == SubSeq(bytes, 1, n)
<1>1. Len(bytes) \in Nat /\ DOMAIN bytes = 1 .. Len(bytes)
  BY LenProperties
<1>2. Len(cut) = n /\ \A j \in 1 .. n : cut[j] = bytes[j]
  BY <1>1
<1>. HIDE DEF cut
<1>3. i \in Nat /\ i \in 1 .. n /\ i \in DOMAIN bytes /\ i + 3 <= n /\ 1 \in 1 .. n
  BY <1>1
<1>4. bytes[i].of \in 1 .. 4
  BY <1>3 DEF AreOfCharacters
<1>5. cut[i] = bytes[i] /\ (i > 1 => cut[i - 1] = bytes[i - 1]) /\ cut[1] = bytes[1]
  <2>1. i > 1 => i - 1 \in 1 .. n
    BY <1>3
  <2>. QED
    BY <1>2, <1>3, <2>1
<1>6. Continues(cut, i) = Continues(bytes, i)
  BY <1>5 DEF Continues
<1>7. Complete(cut, i) = Complete(bytes, i)
  <2>1. i + bytes[i].of - 1 <= Len(cut) /\ i + bytes[i].of - 1 <= Len(bytes)
    BY <1>1, <1>2, <1>3, <1>4
  <2>2. \A k \in 1 .. bytes[i].of : cut[i + k - 1] = bytes[i + k - 1]
    <3>1. \A k \in 1 .. bytes[i].of : i + k - 1 \in 1 .. n
      BY <1>3, <1>4
    <3>. QED
      BY <1>2, <3>1
  <2>. QED
    BY <1>5, <2>1, <2>2 DEF Complete
<1>. QED
  BY <1>5, <1>6, <1>7, Zenon DEF CharactersAt, cut

\* Two texts that begin alike have the same first characters.
LEMMA BeginningsAgree ==
  ASSUME NEW T, NEW x \in Seq(T), NEW a \in Seq(T), NEW b \in Seq(T),
         NEW n \in Nat \ {0}, n <= Len(x)
  PROVE  /\ x \o a # <<>> /\ x \o b # <<>>
         /\ Prefix(x \o a, n) = Prefix(x \o b, n)
<1>1. Len(x \o a) = Len(x) + Len(a) /\ Len(x \o b) = Len(x) + Len(b)
      /\ Len(x) \in Nat /\ Len(a) \in Nat /\ Len(b) \in Nat
  BY ConcatProperties, LenProperties
<1>2. x \o a # <<>> /\ x \o b # <<>>
  BY <1>1
<1>3. Prefix(x \o a, n) = Prefix(x, n) /\ Prefix(x \o b, n) = Prefix(x, n)
  BY PrefixOfConcat
<1>. QED
  BY <1>2, <1>3

\* The first PreviewBytes bytes of a text have its first PreviewChars
\* characters.
LEMMA PreviewReaches ==
  ASSUME NEW S, NEW bytes \in Seq(S), AreOfCharacters(bytes), ~StartsWithMark(bytes), NEW charset
  PROVE  LET text == Text(bytes, charset)
             seen == Text(Prefix(bytes, PreviewBytes), charset)
         IN  /\ seen = <<>> <=> text = <<>>
             /\ Prefix(seen, PreviewChars) = Prefix(text, PreviewChars)
<1>. DEFINE P == PreviewBytes
            C == PreviewChars
            cut == Prefix(bytes, P)
            text == Text(bytes, charset)
            seen == Text(cut, charset)
<1>1. P \in Nat /\ C \in Nat \ {0} /\ P >= 4 * C /\ Len(bytes) \in Nat
  BY PreviewAssumption, LenProperties
<1>. HIDE DEF P, C
<1>2. CASE Len(bytes) <= P
  <2>1. cut = bytes
    BY <1>1, <1>2, BeginningIs
  <2>. QED
    BY <2>1 DEF P, C
<1>3. CASE P < Len(bytes)
  <2>1. cut = SubSeq(bytes, 1, P) /\ cut \in Seq(S) /\ Len(cut) = P
    <3>1. P <= Len(bytes)
      BY <1>1, <1>3
    <3>. QED
      BY <1>1, <3>1, BeginningIs
  <2>2. PICK rest \in Seq(S) : bytes = cut \o rest
    <3>1. 0 \in 0 .. Len(bytes) /\ P \in 0 .. Len(bytes) /\ Len(bytes) \in P .. Len(bytes)
      BY <1>1, <1>3
    <3>2. SubSeq(bytes, 0 + 1, P) \o SubSeq(bytes, P + 1, Len(bytes)) = SubSeq(bytes, 0 + 1, Len(bytes))
      BY <3>1, SubSeqJoin
    <3>3. SubSeq(bytes, 1, Len(bytes)) = bytes /\ 0 + 1 = 1
      BY SubSeqFull
    <3>4. SubSeq(bytes, P + 1, Len(bytes)) \in Seq(S)
      BY <1>1, <1>3
    <3>. QED
      BY <2>1, <3>2, <3>3, <3>4
  <2>. HIDE DEF cut
  <2>3. ~StartsWithMark(cut)
    <3>1. Prefix(cut \o rest, 3) = Prefix(cut, 3)
      <4>1. 3 \in Nat /\ 3 <= Len(cut)
        BY <1>1, <2>1
      <4>. QED
        BY <2>1, <4>1, PrefixOfConcat
    <3>. QED
      BY <2>2, <3>1, Zenon DEF StartsWithMark
  <2>4. CASE charset \in {"us-ascii", "windows-1252"}
    <3>1. text = bytes /\ seen = cut
      BY <2>3, <2>4, Zenon DEF Text
    <3>2. C \in Nat /\ C <= Len(cut) /\ C <= P
      BY <1>1, <2>1
    <3>3. Prefix(cut \o rest, C) = Prefix(cut, C)
      BY <2>1, <3>2, PrefixOfConcat
    <3>4. cut # <<>> /\ bytes # <<>>
      BY <1>1, <1>3, <2>1
    <3>. QED
      BY <2>2, <3>1, <3>3, <3>4 DEF P, C, cut
  <2>5. CASE charset \notin {"us-ascii", "windows-1252"}
    <3>. DEFINE m == P - 3
                c == CharactersOf(bytes)
                d == CharactersOf(cut)
    <3>1. text = FlattenSeq(c) /\ seen = FlattenSeq(d)
      BY <2>5, Zenon DEF Text, CharactersOf
    <3>2. PICK T : /\ c \in Seq(Seq(T)) /\ Len(c) = Len(bytes)
                   /\ \A i \in 1 .. Len(bytes) : c[i] = CharactersAt(bytes, i)
      BY CharactersAre
    <3>3. PICK R : /\ d \in Seq(Seq(R)) /\ Len(d) = Len(cut)
                   /\ \A i \in 1 .. Len(cut) : d[i] = CharactersAt(cut, i)
      BY <2>1, CharactersAre
    <3>4. m \in Nat /\ m \in 1 .. Len(bytes) /\ m <= P /\ m >= 4 * C - 3
      BY <1>1, <1>3
    <3>. DEFINE x == FlattenSeq(SubSeq(c, 1, m))
    <3>5. 4 * Len(x) >= m
      BY <3>2, <3>4, CharactersAreMany
    <3>6. \A i \in 1 .. m : d[i] = c[i]
      <4>. SUFFICES ASSUME NEW i \in 1 .. m  PROVE d[i] = c[i]
        OBVIOUS
      <4>1. i \in 1 .. P - 3 /\ i \in 1 .. Len(bytes) /\ i \in 1 .. Len(cut)
        BY <1>1, <1>3, <2>1
      <4>2. CharactersAt(cut, i) = CharactersAt(bytes, i)
        BY <1>1, <1>3, <2>1, <4>1, CharactersOfFirst
      <4>. HIDE DEF c, d
      <4>. QED
        BY <3>2, <3>3, <4>1, <4>2
    <3>. DEFINE V == T \cup R
    <3>7. c \in Seq(Seq(V)) /\ d \in Seq(Seq(V))
      <4>1. T \subseteq V /\ R \subseteq V
        OBVIOUS
      <4>. HIDE DEF V, c, d
      <4>2. Seq(T) \subseteq Seq(V) /\ Seq(R) \subseteq Seq(V)
        BY <4>1
      <4>3. Seq(Seq(T)) \subseteq Seq(Seq(V)) /\ Seq(Seq(R)) \subseteq Seq(Seq(V))
        BY <4>2
      <4>. QED
        BY <3>2, <3>3, <4>3
    <3>8. SubSeq(d, 1, m) = SubSeq(c, 1, m)
      <4>. HIDE DEF c, d, m, V
      <4>1. Len(c) = Len(bytes) /\ Len(d) = P /\ m <= P /\ m <= Len(bytes) /\ m \in Nat
        BY <1>1, <1>3, <2>1, <3>2, <3>3, <3>4
      <4>2. /\ SubSeq(c, 1, m) \in Seq(Seq(V)) /\ SubSeq(d, 1, m) \in Seq(Seq(V))
            /\ Len(SubSeq(c, 1, m)) = m /\ Len(SubSeq(d, 1, m)) = m
            /\ \A i \in 1 .. m : SubSeq(c, 1, m)[i] = c[i] /\ SubSeq(d, 1, m)[i] = d[i]
        BY <1>1, <1>3, <3>7, <4>1
      <4>3. \A i \in 1 .. m : SubSeq(c, 1, m)[i] = SubSeq(d, 1, m)[i]
        BY <3>6, <4>2
      <4>. QED
        BY <4>2, <4>3, SeqEqual
    <3>9. ASSUME NEW s \in Seq(Seq(V)), m <= Len(s)
          PROVE  /\ FlattenSeq(SubSeq(s, 1, m)) \in Seq(V)
                 /\ \E more \in Seq(V) : FlattenSeq(s) = FlattenSeq(SubSeq(s, 1, m)) \o more
      <4>. HIDE DEF m, V
      <4>1. Len(s) \in Nat
        BY LenProperties
      <4>2. m \in 0 .. Len(s) /\ Len(s) \in m .. Len(s)
        BY <3>4, <3>9, <4>1
      <4>3. /\ FlattenSeq(SubSeq(s, 1, m)) \in Seq(V)
            /\ FlattenSeq(SubSeq(s, m + 1, Len(s))) \in Seq(V)
            /\ FlattenSeq(SubSeq(s, 1, Len(s)))
                 = FlattenSeq(SubSeq(s, 1, m)) \o FlattenSeq(SubSeq(s, m + 1, Len(s)))
        BY <4>2, FlattenSplit
      <4>4. SubSeq(s, 1, Len(s)) = s
        BY SubSeqFull
      <4>. QED
        BY <4>3, <4>4
    <3>10. m <= Len(c) /\ m <= Len(d)
      BY <1>1, <1>3, <2>1, <3>2, <3>3, <3>4
    <3>11. x \in Seq(V) /\ \E more \in Seq(V) : text = x \o more
      BY <3>1, <3>7, <3>9, <3>10
    <3>12. \E more \in Seq(V) : seen = x \o more
      <4>1. \E more \in Seq(V) : FlattenSeq(d) = FlattenSeq(SubSeq(d, 1, m)) \o more
        BY <3>7, <3>9, <3>10
      <4>. QED
        BY <3>1, <3>8, <4>1
    <3>. HIDE DEF x, text, seen, m, V
    <3>13. Len(x) \in Nat /\ C <= Len(x)
      <4>1. Len(x) \in Nat
        BY <3>11, LenProperties
      <4>. QED
        BY <1>1, <3>4, <3>5, <4>1
    <3>14. PICK a \in Seq(V), b \in Seq(V) : text = x \o a /\ seen = x \o b
      BY <3>11, <3>12
    <3>15. text # <<>> /\ seen # <<>> /\ Prefix(text, C) = Prefix(seen, C)
      BY <1>1, <3>11, <3>13, <3>14, BeginningsAgree
    <3>. QED
      BY <3>15 DEF text, seen, P, C, cut
  <2>. QED
    BY <2>4, <2>5
<1>. QED
  BY <1>1, <1>2, <1>3

-----------------------------------------------------------------------------
(* What the preview and the answer are.                                    *)

PreviewTaken(message) ==
  preview # NoPreview =>
    \/ preview = [of |-> Nothing, text |-> Nothing]
    \/ \E body \in BodiesIn(TreeOf(message)) :
         preview = [of |-> body, text |-> PreviewOf(body)]

AnswerGiven(message) ==
  answer # NoAnswer =>
    \E call \in CallsIn(TreeOf(message)) :
      \/ call.op = "body" /\ answer = Answered(call, Decoded(call.body, call.max))
      \/ call.op = "header" /\ answer = Answered(call, ParseHeaderTyped(call.form, call.raw))

\* What the client has been given is of the message that was parsed.
OfTheMessage ==
  \E message \in Messages :
    tree = TreeOf(message) /\ PreviewTaken(message) /\ AnswerGiven(message)

LEMMA MessageInitOf == MessageInit => OfTheMessage
  BY Zenon DEF MessageInit, Init, OfTheMessage, PreviewTaken, AnswerGiven

\* No step changes the tree.
LEMMA TreeStays ==
  ASSUME [Next]_vars
  PROVE  tree' = tree
<1>1. Descend \/ Attach \/ UNCHANGED vars => tree' = tree
  BY Zenon DEF Descend, Attach, vars
<1>2. ChooseAlternative \/ ShowInline \/ Return => tree' = tree
  BY Zenon DEF ChooseAlternative, ShowInline, Return
<1>. QED
  BY <1>1, <1>2, Zenon DEF Next

LEMMA MessageStepOf ==
  ASSUME OfTheMessage, [MessageNext]_messageVars
  PROVE  OfTheMessage'
<1>1. PICK message \in Messages :
        tree = TreeOf(message) /\ PreviewTaken(message) /\ AnswerGiven(message)
  BY Zenon DEF OfTheMessage
<1>2. SUFFICES tree' = tree /\ PreviewTaken(message)' /\ AnswerGiven(message)'
  BY <1>1, Zenon DEF OfTheMessage
<1>3. CASE Walk \/ UNCHANGED messageVars
  <2>1. tree' = tree
    BY <1>3, TreeStays, Zenon DEF Walk, messageVars, vars
  <2>2. preview' = preview /\ answer' = answer
    BY <1>3, Zenon DEF Walk, messageVars
  <2>. QED
    BY <1>1, <2>1, <2>2, Zenon DEF PreviewTaken, AnswerGiven
<1>4. CASE TakePreview
  <2>1. tree' = tree /\ answer' = answer
    BY <1>4, Zenon DEF TakePreview, vars
  <2>2. PreviewTaken(message)'
    BY <1>1, <1>4, Zenon DEF TakePreview, PreviewTaken
  <2>. QED
    BY <1>1, <2>1, <2>2, Zenon DEF AnswerGiven
<1>5. CASE NoTextToPreview
  <2>1. tree' = tree /\ answer' = answer
    BY <1>5, Zenon DEF NoTextToPreview, vars
  <2>2. PreviewTaken(message)'
    BY <1>1, <1>5, Zenon DEF NoTextToPreview, PreviewTaken
  <2>. QED
    BY <1>1, <2>1, <2>2, Zenon DEF AnswerGiven
<1>6. CASE CallOnce
  <2>1. tree' = tree /\ preview' = preview
    BY <1>6, Zenon DEF CallOnce, vars
  <2>2. AnswerGiven(message)'
    BY <1>1, <1>6, Zenon DEF CallOnce, DecodeBody, ReadHeader, AnswerGiven
  <2>. QED
    BY <1>1, <2>1, <2>2, Zenon DEF PreviewTaken
<1>. QED
  BY <1>3, <1>4, <1>5, <1>6, Zenon DEF MessageNext

LEMMA MessageKept == MessageSpec => []OfTheMessage
  BY MessageInitOf, MessageStepOf, PTL DEF MessageSpec

-----------------------------------------------------------------------------
(* The theorems about the client.                                          *)

\* A client reads and decodes beside the walk: what is true of the walk alone
\* is true of the tree and the body lists whatever else is called.
THEOREM ClientWalks == MessageSpec => Spec
<1>1. MessageInit => Init
  BY Zenon DEF MessageInit
<1>2. [MessageNext]_messageVars => [Next]_vars
  BY Zenon DEF MessageNext, Walk, TakePreview, NoTextToPreview, CallOnce, messageVars
<1>. QED
  BY <1>1, <1>2, PTL DEF MessageSpec, Spec

\* What an answer is to a call on a message that is parsed.
LEMMA AnswersAre ==
  ASSUME OfTheMessage, answer # NoAnswer
  PROVE  /\ answer.call.op = "body" =>
              /\ IsBody(answer.call.body) /\ answer.call.max \in Nat
              /\ answer.result = Decoded(answer.call.body, answer.call.max)
         /\ answer.call.op = "header" =>
              /\ answer.call.form \in Forms
              /\ answer.call.raw \in Seq(Range(answer.call.raw))
              /\ answer.result = ParseHeaderTyped(answer.call.form, answer.call.raw)
<1>1. PICK message \in Messages : AnswerGiven(message)
  BY Zenon DEF OfTheMessage
<1>2. PICK call \in CallsIn(TreeOf(message)) :
        \/ call.op = "body" /\ answer = Answered(call, Decoded(call.body, call.max))
        \/ call.op = "header" /\ answer = Answered(call, ParseHeaderTyped(call.form, call.raw))
  BY <1>1, Zenon DEF AnswerGiven
<1>3. \/ call.op = "body" /\ IsBody(call.body) /\ call.max \in Nat
      \/ /\ call.op = "header"
         /\ call.form \in Forms /\ call.raw \in Seq(Range(call.raw))
  BY BodiesAssumption, Zenon
<1>4. ASSUME NEW result, answer = Answered(call, result)
      PROVE  answer.call = call /\ answer.result = result
  BY <1>4 DEF Answered
<1>5. CASE call.op = "body"
  <2>1. "body" # "header"
    OBVIOUS
  <2>2. answer = Answered(call, Decoded(call.body, call.max))
    BY <1>2, <1>5, <2>1, Zenon
  <2>3. answer.call = call /\ answer.result = Decoded(call.body, call.max)
    BY <1>4, <2>2
  <2>. QED
    BY <1>3, <1>5, <2>1, <2>3, Zenon
<1>6. CASE call.op = "header"
  <2>1. "body" # "header"
    OBVIOUS
  <2>2. answer = Answered(call, ParseHeaderTyped(call.form, call.raw))
    BY <1>2, <1>6, <2>1, Zenon
  <2>3. answer.call = call /\ answer.result = ParseHeaderTyped(call.form, call.raw)
    BY <1>4, <2>2
  <2>. QED
    BY <1>3, <1>6, <2>1, <2>3, Zenon
<1>. QED
  BY <1>2, <1>5, <1>6

\* Whatever the limit, it cuts what decodes without one and does nothing else:
\* under no transfer encoding does it lose a byte, hide a problem or make one
\* (decode.rs:62-155).
THEOREM LimitsOnlyCut == MessageSpec => []LimitedIsPrefix
<1>1. OfTheMessage => LimitedIsPrefix
  <2>. SUFFICES ASSUME OfTheMessage, answer # NoAnswer, answer.call.op = "body",
                       Sound(answer.call.body)
                PROVE  LET bytes == Original(answer.call.body)
                           text  == Text(Prefix(bytes, answer.call.max),
                                         CharsetOf(answer.call.body.header))
                       IN  answer.result = [error     |-> "none",
                                            value     |-> text,
                                            truncated |-> Len(bytes) > answer.call.max,
                                            problem   |-> HadErrors(text)]
    BY Zenon DEF LimitedIsPrefix
  <2>1. /\ IsBody(answer.call.body) /\ answer.call.max \in Nat
        /\ answer.result = Decoded(answer.call.body, answer.call.max)
    BY AnswersAre
  <2>. QED
    BY <2>1, DecodedIs
<1>. QED
  BY <1>1, MessageKept, PTL

\* For all the sizes of the two limits, the bytes decoded for a preview have
\* all of its characters (parse.rs:43-56).
THEOREM PreviewsAreBeginnings == MessageSpec => []PreviewIsBeginning
<1>1. OfTheMessage => PreviewIsBeginning
  <2>. DEFINE body == preview.of
              cs == CharsetOf(body.header)
              bytes == Original(body)
              text == Text(bytes, cs)
              seen == Text(Prefix(bytes, PreviewBytes), cs)
              d == Decoded(body, PreviewBytes)
  <2>. SUFFICES ASSUME OfTheMessage, preview # NoPreview, preview.of # Nothing,
                       Sound(preview.of), ~StartsWithMark(Original(preview.of))
                PROVE  preview.text = IF text = <<>> THEN Nothing ELSE Prefix(text, PreviewChars)
    BY Zenon DEF PreviewIsBeginning
  <2>1. PICK message \in Messages : PreviewTaken(message)
    BY Zenon DEF OfTheMessage
  <2>2. preview # [of |-> Nothing, text |-> Nothing]
    <3>. SUFFICES ASSUME preview = [of |-> Nothing, text |-> Nothing]  PROVE preview.of = Nothing
      OBVIOUS
    <3>. QED
      OBVIOUS
  <2>3. PICK taken \in BodiesIn(TreeOf(message)) :
          preview = [of |-> taken, text |-> PreviewOf(taken)]
    BY <2>1, <2>2, Zenon DEF PreviewTaken
  <2>4. body = taken /\ preview.text = PreviewOf(body)
    BY <2>3
  <2>5. IsBody(body)
    BY <2>4, BodiesAssumption, Zenon
  <2>6. /\ AreOfCharacters(bytes) /\ \E S : bytes \in Seq(S)
    <3>1. 0 \in Nat
      OBVIOUS
    <3>. QED
      BY <2>5, <3>1, LimitsCut
  <2>7. (seen = <<>> <=> text = <<>>) /\ Prefix(seen, PreviewChars) = Prefix(text, PreviewChars)
    BY <2>6, PreviewReaches
  <2>8. d = [error     |-> "none",
             value     |-> seen,
             truncated |-> Len(bytes) > PreviewBytes,
             problem   |-> HadErrors(seen)]
    BY <2>5, PreviewAssumption, DecodedIs
  <2>9. preview.text = BeginningOf(d)
    BY <2>4, Zenon DEF PreviewOf
  <2>. HIDE DEF d, seen, text, body
  <2>10. d.error = "none" /\ d.value = seen
    BY <2>8
  <2>11. BeginningOf(d) = IF seen = <<>> THEN Nothing ELSE Prefix(seen, PreviewChars)
    BY <2>10 DEF BeginningOf
  <2>. QED
    BY <2>7, <2>9, <2>11 DEF text, body
<1>. QED
  BY <1>1, MessageKept, PTL

\* However brackets, comments, folds and stray characters are mixed, URLs and
\* message ids are what stands in angle brackets (header_typed.rs:1030-1081).
THEOREM BracketsDecide == MessageSpec => []OnlyBracketsCount
<1>1. OfTheMessage => OnlyBracketsCount
  <2>. SUFFICES ASSUME OfTheMessage, answer # NoAnswer, answer.call.op = "header"
                PROVE  LET raw == answer.call.raw
                       IN  /\ answer.call.form = "URLs" => answer.result = Bracketed(raw)
                           /\ /\ answer.call.form = "MessageIds"
                              /\ (HasBracket(raw) => Bracketed(raw) # <<>>)
                              => answer.result = Bracketed(raw)
    BY Zenon DEF OnlyBracketsCount, HeaderCall
  <2>1. /\ answer.call.raw \in Seq(Range(answer.call.raw))
        /\ answer.result = ParseHeaderTyped(answer.call.form, answer.call.raw)
    BY AnswersAre
  <2>. QED
    BY <2>1, UrlsAreBracketed, MessageIdsAreBracketed
<1>. QED
  BY <1>1, MessageKept, PTL

\* Whatever the parser of the library makes of a value, every form reads it
\* alike with every line end, and the groups hold the addresses
\* (header_typed.rs:702-799, 929-1017).
THEOREM FormsReadAlike == MessageSpec => []FormsAgree
<1>1. OfTheMessage => FormsAgree
  <2>. DEFINE form == answer.call.form
              raw == answer.call.raw
              groups == ParseHeaderTyped("GroupedAddresses", raw)
  <2>. SUFFICES ASSUME OfTheMessage, answer # NoAnswer, answer.call.op = "header"
                PROVE  /\ ~IsSuffix(<<"lf">>, raw) /\ ~IsSuffix(<<"cr">>, raw) =>
                            \A end \in {<<"lf">>, CRLF} :
                              ParseHeaderTyped(form, raw \o end) = answer.result
                       /\ form = "Addresses" =>
                            answer.result = FlattenSeq([g \in DOMAIN groups |-> groups[g].addresses])
                       /\ \A g \in DOMAIN groups : groups[g].name = TrimOrNone(groups[g].name)
    BY Zenon DEF FormsAgree, HeaderCall
  <2>1. form \in Forms /\ raw \in Seq(Range(raw)) /\ answer.result = ParseHeaderTyped(form, raw)
    BY AnswersAre
  <2>2. /\ ParseHeaderTyped("Addresses", raw)
             = FlattenSeq([g \in DOMAIN groups |-> groups[g].addresses])
        /\ \A g \in DOMAIN groups : groups[g].name = TrimOrNone(groups[g].name)
    BY GroupsHoldAddresses, Zenon
  <2>3. ASSUME ~IsSuffix(<<"lf">>, raw), ~IsSuffix(<<"cr">>, raw), NEW end \in {<<"lf">>, CRLF}
        PROVE  ParseHeaderTyped(form, raw \o end) = answer.result
    <3>1. ParseHeaderTyped(form, raw \o end) = ParseHeaderTyped(form, raw)
      BY <2>1, <2>3, LineEndsAgree
    <3>. QED
      BY <2>1, <3>1, Zenon
  <2>. HIDE DEF groups
  <2>. QED
    BY <2>1, <2>2, <2>3, Zenon
<1>. QED
  BY <1>1, MessageKept, PTL

=============================================================================
