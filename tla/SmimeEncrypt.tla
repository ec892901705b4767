----------------------------- MODULE SmimeEncrypt -----------------------------
(***************************************************************************)
(* encrypt() of smime-tree: one content key, wrapped for every recipient.  *)
(*                                                                         *)
(* A certificate is what the code asks of it: its issuer and serial number *)
(* (one value), the algorithm and curve of its public key, and whether the *)
(* key itself can be used.  A wrapped key remembers for whom, how and what *)
(* it wraps, which is all that unwrapping depends on.                      *)
(***************************************************************************)
EXTENDS Naturals, Sequences

VARIABLES
  certs,      \* the argument
  content,    \* the encrypted content and its parameters
  infos,      \* the RecipientInfos built so far
  call        \* "begun", "wrapping", "Ok" or the error returned

Curves == {"P-256", "P-384"}

KeyKinds == {"RSA", "OAEP", "other", "no-curve", "other-curve"} \cup Curves

(***************************************************************************)
(* Faulty variant: every curve is announced with the scheme of P-256.      *)
(***************************************************************************)
KdfOfOneScheme == [curve \in Curves |-> "sha256kdf"]

\* The KDF scheme and the key wrap each curve is used with.
KdfOf == [curve \in Curves |-> IF curve = "P-256" THEN "sha256kdf" ELSE "sha384kdf"]
WrapOf == [curve \in Curves |-> IF curve = "P-256" THEN "aes128wrap" ELSE "aes256wrap"]

(***************************************************************************)
(* The content key.                                                        *)
(***************************************************************************)
UseAes256 == \E i \in DOMAIN certs : certs[i].key = "P-384"

Cek(len) == [id |-> "sender's", len |-> len]

GcmContent(len, oid) ==
  [type |-> "authEnveloped", oid |-> oid, params |-> "present", nonce |-> 12,
   icv |-> 16, ct |-> "present", mac |-> 16, cek |-> Cek(len), intact |-> TRUE]

NoContent == [type |-> "none"]

EncryptContent ==
  /\ call = "begun"
  /\ \/ certs = <<>> /\ call' = "NoRecipients" /\ UNCHANGED content
     \/ certs # <<>> /\ call' = "RngFailure" /\ UNCHANGED content
     \/ /\ certs # <<>>
        /\ content' = IF UseAes256 THEN GcmContent(32, "aes256-gcm")
                                   ELSE GcmContent(16, "aes128-gcm")
        /\ call' = "wrapping"
  /\ UNCHANGED <<certs, infos>>

(***************************************************************************)
(* The RecipientInfos.                                                     *)
(***************************************************************************)
Wrapped(cert, how) == [to |-> cert.rid, by |-> how, cek |-> content.cek]

Ktri(cert) ==
  [type |-> "ktri", rid |-> cert.rid, alg |-> "pkcs1", enc |-> Wrapped(cert, "pkcs1")]

Kari(cert) ==
  LET kdf  == KdfOf[cert.key]
      wrap == WrapOf[cert.key]
  IN  [type |-> "kari", originator |-> "ec", curve |-> cert.key, kdf |-> kdf,
       wrap |-> wrap,
       reks |-> <<[rid |-> cert.rid, enc |-> Wrapped(cert, <<kdf, wrap>>)]>>]

\* What is next to be built; it exists while the call runs.
Cert == certs[Len(infos) + 1]

Building == call = "wrapping" /\ Len(infos) < Len(certs)

BuildRsaRecipient ==
  /\ Building
  /\ Cert.key = "RSA"
  /\ \/ Cert.usable /\ infos' = Append(infos, Ktri(Cert)) /\ UNCHANGED call
     \/ call' = "RngFailure" /\ UNCHANGED infos
     \/ ~Cert.usable /\ call' \in {"MalformedInput", "Other"} /\ UNCHANGED infos
  /\ UNCHANGED <<certs, content>>

BuildEcRecipient ==
  /\ Building
  /\ Cert.key \in Curves
  /\ \/ Cert.usable /\ infos' = Append(infos, Kari(Cert)) /\ UNCHANGED call
     \/ Cert.usable /\ call' = "RngFailure" /\ UNCHANGED infos
     \/ ~Cert.usable /\ call' = "MalformedInput" /\ UNCHANGED infos
  /\ UNCHANGED <<certs, content>>

UnsupportedRecipient ==
  /\ Building
  /\ Cert.key \notin {"RSA"} \cup Curves
  /\ call' = "UnsupportedAlgorithm"
  /\ UNCHANGED <<certs, content, infos>>

Encoded ==
  /\ call = "wrapping"
  /\ Len(infos) = Len(certs)
  /\ call' = "Ok"
  /\ UNCHANGED <<certs, content, infos>>

EncryptInit ==
  /\ content = NoContent
  /\ infos = <<>>
  /\ call = "begun"

EncryptNext ==
  EncryptContent \/ BuildRsaRecipient \/ BuildEcRecipient \/ UnsupportedRecipient \/ Encoded
=============================================================================
