----------------------------- MODULE SmimeEnvelope -----------------------------
(***************************************************************************)
(* An encrypted message from sender to reader: encrypt() of SmimeEncrypt,  *)
(* or other software, the way there, and decrypt() of SmimeDecrypt with    *)
(* some key.                                                               *)
(***************************************************************************)
EXTENDS SmimeDecrypt

CONSTANTS
  CertLists,   \* the lists of recipient certificates encrypt() may be given
  Messages     \* the messages of other software

VARIABLES certs, content, infos, call

INSTANCE SmimeEncrypt

(***************************************************************************)
(* What decoding guarantees of any message: a RecipientInfo is of one of   *)
(* these kinds, and where a wrapped key stands there is one.               *)
(***************************************************************************)
WrapsKey(enc) == enc.cek # Nothing

RecipientInfo(entry) ==
  \/ entry.type = "ktri" /\ WrapsKey(entry.enc)
  \/ /\ entry.type = "kari"
     /\ entry.reks \in Seq(Range(entry.reks))
     /\ \A i \in DOMAIN entry.reks : WrapsKey(entry.reks[i].enc)
  \/ entry.type = "other"

Decoded(m) ==
  /\ m.entries \in Seq(Range(m.entries))
  /\ \A i \in DOMAIN m.entries : RecipientInfo(m.entries[i])

ASSUME CertListsAssumption == \A list \in CertLists : list \in Seq(Range(list))

ASSUME MessagesAssumption == \A m \in Messages : Decoded(m)

ASSUME CekAssumption == \A len \in {16, 32} : Cek(len) # Nothing

vars == <<certs, content, infos, call, message, key, next, unsupported, cek, outcome>>

NoMessage == [content |-> NoContent, entries |-> <<>>]

\* encrypt() is called, or the message was written by other software.
Init ==
  /\ \/ certs \in CertLists /\ message = NoMessage
     \/ certs = <<>> /\ message \in Messages
  /\ EncryptInit
  /\ DecryptInit

\* RecipientInfos are a SET OF: their order is up to the encoding.  On the way
\* the message may be damaged.
Send ==
  /\ call = "Ok"
  /\ message = NoMessage
  /\ \E order \in SetToSeqs(DOMAIN infos), intact \in BOOLEAN :
       message' = [content |-> [content EXCEPT !.intact = intact],
                   entries |-> [i \in DOMAIN infos |-> infos[order[i]]]]
  /\ UNCHANGED <<certs, content, infos, call, key, next, unsupported, cek, outcome>>

Encrypt == message = NoMessage /\ EncryptNext /\ UNCHANGED decryptVars

Decrypt == DecryptNext /\ UNCHANGED <<certs, content, infos, call>>

Next == Encrypt \/ Send \/ Decrypt

\* Both calls run to their end.
Spec == Init /\ [][Next]_vars /\ WF_vars(Next)

-----------------------------------------------------------------------------
(***************************************************************************)
(* Properties.                                                             *)
(***************************************************************************)
Decided == outcome # "pending"

Own == call = "Ok" /\ message # NoMessage

\* The key can read what is encrypted for the certificate.
Capable(cert) ==
  CASE cert.key = "RSA"   -> "pkcs1" \in key.rsa
    [] cert.key \in Curves -> key.curve = cert.key
    [] OTHER              -> TRUE

Addressed == {i \in DOMAIN certs : certs[i].rid \in key.ids}

(***************************************************************************)
(* Whatever list of certificates encrypt() accepts, and in whatever order  *)
(* the RecipientInfos arrive, decrypt() gives the owner of each            *)
(* certificate the plaintext, and everyone else the error that fits: it    *)
(* is NoMatchingRecipient only if no certificate is the key's,             *)
(* UnsupportedAlgorithm only if the key cannot read for one that is, and   *)
(* DecryptionFailed only if the message was damaged on the way             *)
(* (encrypt.rs:134-197, decrypt.rs:170-266, 275-317).                      *)
(***************************************************************************)
EveryRecipientReads ==
  Own /\ Decided =>
    \/ Addressed = {} /\ outcome = "NoMatchingRecipient"
    \/ /\ \E i \in Addressed : ~Capable(certs[i])
       /\ outcome = "UnsupportedAlgorithm"
    \/ /\ \E i \in Addressed : Capable(certs[i])
       /\ outcome = IF message.content.intact THEN "plaintext" ELSE "DecryptionFailed"

Names(entry) ==
  \/ entry.type = "ktri" /\ MatchesRecipient(entry.rid)
  \/ entry.type = "kari" /\ MatchingRek(entry) # 0

Result(entry) == IF entry.type = "ktri" THEN KtriResult(entry) ELSE TryDecryptKari(entry)

Named == {i \in DOMAIN message.entries : Names(message.entries[i])}

Readable == {i \in Named : Result(message.entries[i]).error = Nothing}

UnsupportedKaris ==
  {i \in Named : /\ message.entries[i].type = "kari"
                 /\ Result(message.entries[i]).error = "UnsupportedAlgorithm"}

(***************************************************************************)
(* A key agreement that names the key but is not supported never keeps     *)
(* decrypt() from an entry that the key can use, before or behind it, and  *)
(* is never reported as a missing one: NoMatchingRecipient means that no   *)
(* entry names the key (decrypt.rs:279-283, 316).                          *)
(***************************************************************************)
SearchIsExact ==
  Decided /\ ContentTypeKnown =>
    /\ Readable # {} /\ Named = Readable \cup UnsupportedKaris => cek # Nothing
    /\ outcome = "NoMatchingRecipient" <=> Named = {}

(***************************************************************************)
(* Both calls return: no entry of a message keeps the search from moving   *)
(* on (decrypt.rs:286-314).                                                *)
(***************************************************************************)
CallsReturn ==
  /\ message = NoMessage => <>(call \notin {"begun", "wrapping"})
  /\ (message # NoMessage) ~> Decided
=============================================================================
