------------------------------- MODULE SmimeSign -------------------------------
(***************************************************************************)
(* sign() of smime-tree: one SignerInfo for each key, over the same        *)
(* content.  A key is the caller's (trait SigningKey): its certificate,    *)
(* and the digest it prefers to the one that goes with the certificate.    *)
(***************************************************************************)
EXTENDS Naturals, Sequences

CONSTANTS
  Bytes,     \* the content that is signed
  Nothing    \* a value that is not there

VARIABLES
  keys,      \* the argument
  infos,     \* the SignerInfos built so far
  certs,     \* the certificates that go with them
  micalg,    \* the digests named in the header of the message
  call       \* "signing", "Ok" or the error returned

(***************************************************************************)
(* Algorithms.                                                             *)
(***************************************************************************)
DefaultDigest(cert) ==
  CASE cert.key = "P-384" -> "sha384"
    [] cert.key = "P-521" -> "sha512"
    [] OTHER              -> "sha256"

Digest(key) == IF key.prefers = Nothing THEN DefaultDigest(key.cert) ELSE key.prefers

\* The algorithm identifier; for a curve it does not depend on which one.
SignatureAlgorithm(cert, digest) ==
  CASE cert.key = "RSA" -> <<"RSA", digest>>
    [] cert.key \in {"P-256", "P-384", "P-521"} /\ digest # "sha512" -> <<"ecdsa", digest>>
    [] OTHER -> Nothing

(***************************************************************************)
(* What is signed.                                                         *)
(***************************************************************************)
SignedAttributes(digest) == [contentType |-> "data", digest |-> <<digest, Bytes>>]

\* The key signs what it is given with the digest it is given.
KeySigns(key, digest) ==
  [pub    |-> key.cert.pub,
   scheme |-> <<key.cert.key, digest>>,
   over   |-> SignedAttributes(digest)]

Sids(cert) ==
  {[kind |-> "serial", issuer |-> cert.issuer, serial |-> cert.serial]}
    \cup IF cert.ski = Nothing THEN {} ELSE {[kind |-> "ski", ski |-> cert.ski]}

(***************************************************************************)
(* Faulty variant: the digest in the attributes is the one that goes with  *)
(* the certificate, also when the key prefers another.                     *)
(***************************************************************************)
SignerInfoDefaultDigest(key, sid) ==
  LET digest == Digest(key)
      sig    == KeySigns(key, digest)
      attrs  == SignedAttributes(DefaultDigest(key.cert))
  IN  [sid |-> sid, digest |-> digest, attrs |-> attrs,
       sigAlg |-> SignatureAlgorithm(key.cert, digest), sig |-> [sig EXCEPT !.over = attrs]]

SignerInfo(key, sid) ==
  LET digest == Digest(key)
  IN  [sid |-> sid, digest |-> digest, attrs |-> SignedAttributes(digest),
       sigAlg |-> SignatureAlgorithm(key.cert, digest), sig |-> KeySigns(key, digest)]

(***************************************************************************)
(* One turn of the loop over the keys.                                     *)
(***************************************************************************)
Key == keys[Len(infos) + 1]

Signing == call = "signing" /\ Len(infos) < Len(keys)

Listed(name) == \E i \in DOMAIN micalg : micalg[i] = name

AddSigner ==
  /\ Signing
  /\ SignatureAlgorithm(Key.cert, Digest(Key)) # Nothing
  /\ \E sid \in Sids(Key.cert) : infos' = Append(infos, SignerInfo(Key, sid))
  /\ certs' = certs \cup {Key.cert}
  /\ micalg' = IF Listed(Digest(Key)) THEN micalg ELSE Append(micalg, Digest(Key))
  /\ UNCHANGED <<keys, call>>

\* The signing time is out of range, the key refuses, or no identifier exists.
FailToSign ==
  /\ Signing
  /\ call' \in {"MalformedInput", "Other"}
               \cup IF SignatureAlgorithm(Key.cert, Digest(Key)) = Nothing
                    THEN {"UnsupportedAlgorithm"} ELSE {}
  /\ UNCHANGED <<keys, infos, certs, micalg>>

NoKeys ==
  /\ call = "signing"
  /\ keys = <<>>
  /\ call' = "MalformedInput"
  /\ UNCHANGED <<keys, infos, certs, micalg>>

\* The boundary is random; drawing one may fail, and eight may be in use.
Assemble ==
  /\ call = "signing"
  /\ keys # <<>>
  /\ Len(infos) = Len(keys)
  /\ call' \in {"Ok", "RngFailure", "BoundaryCollision"}
  /\ UNCHANGED <<keys, infos, certs, micalg>>

SignInit ==
  /\ infos = <<>>
  /\ certs = {}
  /\ micalg = <<>>
  /\ call = "signing"

SignNext == AddSigner \/ FailToSign \/ NoKeys \/ Assemble
=============================================================================
