----------------------------- MODULE SmimeDecrypt -----------------------------
(***************************************************************************)
(* decrypt() of smime-tree: the search for a RecipientInfo that the key    *)
(* can unwrap, and the decryption of the content with what it yields.      *)
(*                                                                         *)
(* The private key is the caller's (trait DecryptionKey).  A key is the    *)
(* recipients it answers for, the RSA algorithms and the curve it can use. *)
(* Entries and contents are records like those SmimeEncrypt builds, with   *)
(* the values other software and damage may give them.  Encoding an issuer *)
(* name that was decoded does not fail, and is left out.                   *)
(***************************************************************************)
EXTENDS Naturals, Sequences, FiniteSets, SequencesExt

CONSTANTS
  Keys,          \* the keys it may be given
  Nothing        \* a value that is not there

VARIABLES
  message,       \* the content and the sequence of RecipientInfos
  key,           \* the caller's key
  next,          \* position of the next RecipientInfo
  unsupported,   \* an UnsupportedAlgorithm error was saved
  cek,           \* the content key, once unwrapped
  outcome        \* "pending", an error, or the plaintext

decryptVars == <<message, key, next, unsupported, cek, outcome>>

\* What decryption may yield: the text that was encrypted, or other bytes.
Plaintexts == {"plaintext", "garbage"}

Errors ==
  {"WrongContentType", "NoMatchingRecipient", "UnsupportedAlgorithm", "MalformedInput",
   "Der", "DecryptionFailed", "Other"}

\* A value that is not there is none of those that may be there.
ASSUME NothingAssumption ==
  Nothing \notin Errors \cup {"P-256", "P-384", "aes128wrap", "aes256wrap"}

(***************************************************************************)
(* Early returns, in order: the error of the first check that fails.       *)
(***************************************************************************)
FirstFailure(checks) ==
  LET i == SelectInSeq(checks, LAMBDA check : ~check[1])
  IN  IF i = 0 THEN Nothing ELSE checks[i][2]

(***************************************************************************)
(* The caller's key.  Unwrapping gives the content key only to its owner   *)
(* and only in the way it was wrapped.  An algorithm the key cannot use is *)
(* UnsupportedAlgorithm, any other failure another error.                  *)
(***************************************************************************)
Unwrap(enc, how) ==
  IF enc.to \in key.ids /\ enc.by = how
  THEN [cek |-> enc.cek, error |-> Nothing]
  ELSE [cek |-> Nothing, error |-> "Other"]

Failure(error) == [cek |-> Nothing, error |-> error]

DecryptCek(enc, alg) ==
  IF alg \in key.rsa THEN Unwrap(enc, alg) ELSE Failure("UnsupportedAlgorithm")

CurveOfKdf ==
  [kdf \in {"sha256kdf", "sha384kdf"} |-> IF kdf = "sha256kdf" THEN "P-256" ELSE "P-384"]

AgreeEcdh(enc, kdf, wrap) ==
  IF key.curve = CurveOfKdf[kdf] THEN Unwrap(enc, <<kdf, wrap>>)
  ELSE Failure("UnsupportedAlgorithm")

MatchesRecipient(rid) == rid \in key.ids

(***************************************************************************)
(* Key transport.                                                          *)
(***************************************************************************)
KtriResult(ktri) ==
  IF ktri.alg \in {"pkcs1", "oaep"} THEN DecryptCek(ktri.enc, ktri.alg)
  ELSE Failure("UnsupportedAlgorithm")

(***************************************************************************)
(* Key agreement.  Only the first recipient key that matches is tried.     *)
(***************************************************************************)
MatchingRek(kari) == SelectInSeq(kari.reks, LAMBDA rek : MatchesRecipient(rek.rid))

OriginatorChecks(kari) ==
  << <<kari.originator # "static", "UnsupportedAlgorithm">>,
     <<kari.originator = "ec", "MalformedInput">>,
     <<kari.curve # Nothing, "MalformedInput">>,
     <<kari.kdf \in DOMAIN CurveOfKdf => kari.curve = CurveOfKdf[kari.kdf],
       "MalformedInput">> >>

AlgorithmChecks(kari) ==
  << <<kari.kdf \in DOMAIN CurveOfKdf, "UnsupportedAlgorithm">>,
     <<kari.wrap # Nothing, "MalformedInput">>,
     <<kari.wrap # "undecodable", "Der">>,
     <<kari.wrap \in {"aes128wrap", "aes256wrap"}, "UnsupportedAlgorithm">> >>

TryDecryptKari(kari) ==
  LET refused == FirstFailure(OriginatorChecks(kari) \o AlgorithmChecks(kari))
  IN  IF refused = Nothing
      THEN AgreeEcdh(kari.reks[MatchingRek(kari)].enc, kari.kdf, kari.wrap)
      ELSE Failure(refused)

(***************************************************************************)
(* find_and_decrypt_cek: one turn of its loop is one action.               *)
(***************************************************************************)
ContentTypeKnown == message.content.type \in {"enveloped", "authEnveloped"}

Searching == outcome = "pending" /\ cek = Nothing /\ ContentTypeKnown

Entry == message.entries[next]

Trying(type) == Searching /\ next <= Len(message.entries) /\ Entry.type = type

Continue == next' = next + 1 /\ UNCHANGED <<cek, outcome>>

Return(result) ==
  /\ cek' = result.cek
  /\ outcome' = IF result.error = Nothing THEN "pending" ELSE result.error
  /\ UNCHANGED <<next, unsupported>>

(***************************************************************************)
(* Faulty variants of the search: an unsupported key agreement ends it; an *)
(* entry of another kind keeps it where it is; what was saved is forgotten *)
(* at its end.                                                             *)
(***************************************************************************)
TryKariAndGiveUp ==
  /\ Trying("kari")
  /\ IF MatchingRek(Entry) = 0 THEN Continue /\ UNCHANGED unsupported
     ELSE Return(TryDecryptKari(Entry))
  /\ UNCHANGED <<message, key>>

SkipOtherWithoutMoving ==
  Trying("other") /\ UNCHANGED decryptVars

NoneLeftForgetting ==
  /\ Searching
  /\ next > Len(message.entries)
  /\ outcome' = "NoMatchingRecipient"
  /\ UNCHANGED <<message, key, next, unsupported, cek>>

TryKtri ==
  /\ Trying("ktri")
  /\ IF MatchesRecipient(Entry.rid)
     THEN Return(KtriResult(Entry))
     ELSE Continue /\ UNCHANGED unsupported
  /\ UNCHANGED <<message, key>>

TryKari ==
  /\ Trying("kari")
  /\ IF MatchingRek(Entry) = 0 THEN Continue /\ UNCHANGED unsupported
     ELSE LET result == TryDecryptKari(Entry)
          IN  IF result.error = "UnsupportedAlgorithm"
              THEN Continue /\ unsupported' = TRUE
              ELSE Return(result)
  /\ UNCHANGED <<message, key>>

\* KEK, password and other kinds of RecipientInfo.
SkipOther ==
  /\ Trying("other")
  /\ Continue
  /\ UNCHANGED <<message, key, unsupported>>

NoneLeft ==
  /\ Searching
  /\ next > Len(message.entries)
  /\ outcome' = IF unsupported THEN "UnsupportedAlgorithm" ELSE "NoMatchingRecipient"
  /\ UNCHANGED <<message, key, next, unsupported, cek>>

RefuseContentType ==
  /\ outcome = "pending"
  /\ message.content.type \in {"undecodable", "unknown"}
  /\ outcome' = IF message.content.type = "unknown" THEN "WrongContentType" ELSE "Der"
  /\ UNCHANGED <<message, key, next, unsupported, cek>>

(***************************************************************************)
(* The content.                                                            *)
(***************************************************************************)
CekLength ==
  [oid \in {"aes128-gcm", "aes128-cbc", "aes256-gcm", "aes256-cbc"} |->
     IF oid \in {"aes128-gcm", "aes128-cbc"} THEN 16 ELSE 32]

GcmFields(c) ==
  << <<c.params # "missing", "MalformedInput">>,
     <<c.params # "undecodable", "Der">>,
     <<c.nonce = 12, "MalformedInput">>,
     <<c.icv = 16, "UnsupportedAlgorithm">>,
     <<c.ct # "missing", "MalformedInput">>,
     <<c.ct # "too large", "MalformedInput">>,
     <<c.mac = 16, "MalformedInput">>,
     <<c.oid \in {"aes128-gcm", "aes256-gcm"}, "UnsupportedAlgorithm">>,
     <<c.oid \in DOMAIN CekLength => cek.len = CekLength[c.oid], "MalformedInput">> >>

\* AES-GCM notices every change of key, nonce, ciphertext and tag.
GcmChecks(c) ==
  Append(GcmFields(c), <<c.intact /\ cek = c.cek, "DecryptionFailed">>)

CbcChecks(c) ==
  << <<c.ct # "missing", "MalformedInput">>,
     <<c.ct # "too large", "MalformedInput">>,
     <<c.oid \in {"aes128-cbc", "aes256-cbc"}, "UnsupportedAlgorithm">>,
     <<c.iv # "missing", "MalformedInput">>,
     <<c.iv # "undecodable", "Der">>,
     <<c.oid \in DOMAIN CekLength => cek.len = CekLength[c.oid], "MalformedInput">>,
     <<c.iv # "wrong length", "MalformedInput">> >>

(***************************************************************************)
(* With a wrong key or a changed ciphertext the bytes that come out are    *)
(* others; AES-CBC notices only if the padding happens to be wrong.        *)
(***************************************************************************)
Outcomes(c) ==
  LET refused == FirstFailure(IF c.type = "authEnveloped" THEN GcmChecks(c) ELSE CbcChecks(c))
  IN  IF refused # Nothing THEN {refused}
      ELSE IF c.intact /\ cek = c.cek THEN {"plaintext"}
      ELSE {"garbage", "DecryptionFailed"}

DecryptContent ==
  /\ outcome = "pending"
  /\ cek # Nothing
  /\ outcome' \in Outcomes(message.content)
  /\ UNCHANGED <<message, key, next, unsupported, cek>>

DecryptInit ==
  /\ key \in Keys
  /\ next = 1
  /\ unsupported = FALSE
  /\ cek = Nothing
  /\ outcome = "pending"

DecryptNext ==
  \/ RefuseContentType \/ TryKtri \/ TryKari \/ SkipOther \/ NoneLeft \/ DecryptContent
=============================================================================
