---------------------------- MODULE SmimeSignature ----------------------------
(***************************************************************************)
(* A signed message from signer to reader: sign() of SmimeSign, or other   *)
(* software, the way there, and verify() of SmimeVerify.                   *)
(***************************************************************************)
EXTENDS SmimeVerify

CONSTANTS
  Bytes,      \* the content that is signed
  KeyLists,   \* the keys sign() may be given
  Readers,    \* what verify() may be given besides: anchors, checker, clock
  Foreign     \* the SignedData of other software

\* A key prefers a digest there is, or none.
ASSUME KeyListsAssumption ==
  \A list \in KeyLists :
    /\ list \in Seq(ToSet(list))
    /\ \A i \in DOMAIN list : list[i].prefers \in Digests \cup {Nothing}

\* Attributes are not a value that is not there.
ASSUME AttributesAssumption ==
  \A d \in Digests : [contentType |-> "data", digest |-> <<d, Bytes>>] # Nothing

ASSUME ForeignAssumption ==
  \A m \in Foreign : m.certs \in Seq(ToSet(m.certs)) /\ m.infos \in Seq(ToSet(m.infos))

VARIABLES keys, infos, certs, micalg, call

INSTANCE SmimeSign

signVars == <<keys, infos, certs, micalg, call>>

vars == <<signVars, content, signed, results, verdict,
          bag, anchors, revoked, clockOk, chain, path, asked>>

NoSignature == [type |-> "none", econtent |-> FALSE, certs |-> <<>>, infos |-> <<>>]

Contents == {Bytes, "changed"}

Init ==
  /\ \/ keys \in KeyLists /\ signed = NoSignature
     \/ keys = <<>> /\ signed \in Foreign
  /\ content \in Contents
  /\ bag = Taken(signed.certs)
  /\ \E reader \in Readers :
       /\ anchors = reader.anchors
       /\ revoked = reader.revoked
       /\ clockOk = reader.clockOk
  /\ SignInit
  /\ VerifyInit

Sign ==
  /\ signed = NoSignature
  /\ SignNext
  /\ UNCHANGED <<content, signed, results, verdict, chainArguments, chain, path, asked>>

\* Certificates and SignerInfos are a SET OF: doubles are dropped, and the
\* order is up to the encoding.
Deliver ==
  /\ call = "Ok"
  /\ signed = NoSignature
  /\ \E inOrder \in SetToSeqs(ToSet(infos)), certsInOrder \in SetToSeqs(certs) :
       /\ signed' = [type |-> "data", econtent |-> FALSE, certs |-> certsInOrder,
                     infos |-> inOrder]
       /\ bag' = Taken(certsInOrder)
  /\ UNCHANGED <<keys, infos, certs, micalg, call, content, results, verdict,
                 anchors, revoked, clockOk, chain, path, asked>>

Verify == signed # NoSignature /\ VerifyNext /\ UNCHANGED <<keys, infos, certs, micalg, call>>

Next == Sign \/ Deliver \/ Verify

\* Both calls run to their end.
Spec == Init /\ [][Next]_vars /\ WF_vars(Next)

-----------------------------------------------------------------------------
(***************************************************************************)
(* Properties.                                                             *)
(***************************************************************************)
Decided == verdict # "pending"

Own == call = "Ok" /\ signed # NoSignature

(***************************************************************************)
(* What it means that a signature is good, apart from how verify() finds   *)
(* out: the named certificate's key made it over attributes about this     *)
(* content, and some path of certificates of the message leads from it to  *)
(* an anchor, over signatures of the schemes that count (P-384 chains do,  *)
(* RSA-PSS ones do not), all of them and the anchor being valid now.       *)
(***************************************************************************)
GoodPath(p) ==
  /\ Len(p) <= MaxDepth
  /\ \A i \in DOMAIN p : p[i].valid /\ p[i] \notin revoked
  /\ \A i \in 1 .. Len(p) - 1 : Linked(p[i], p[i + 1])
  /\ \E a \in anchors : a.valid /\ Signed(p[Len(p)], a)

PathsFrom(cert) ==
  UNION {{p \in [1 .. n -> ToSet(bag) \cup {cert}] : p[1] = cert} : n \in 1 .. MaxDepth}

\* What an algorithm identifier may say of a signature made with the scheme.
Names(scheme, digest) ==
  IF scheme[1] = "RSA"
  THEN {scheme} \cup IF scheme[2] = digest THEN {<<"rsaEncryption">>} ELSE {}
  ELSE {<<"ecdsa", scheme[2]>>}

Supports == {"RSA"} \X Digests \cup {<<"P-256", "sha256">>, <<"P-384", "sha384">>}

GoodSignature(cert, info) ==
  /\ info.attrs.contentType = "data"
  /\ info.attrs.digest = <<info.digest, content>>
  /\ info.sig.over = info.attrs
  /\ info.sig.pub = cert.pub
  /\ info.sig.scheme \in Supports
  /\ info.sig.scheme[1] = cert.key
  /\ info.sigAlg \in Names(info.sig.scheme, info.digest)

Good(info) ==
  \E cert \in ToSet(bag) \cup anchors :
    /\ IsNamedBy(cert, info.sid)
    /\ info.digest \in Digests
    /\ info.attrs # Nothing
    /\ GoodSignature(cert, info)
    /\ \E p \in PathsFrom(cert) : GoodPath(p)

(***************************************************************************)
(* A signer is reported as verified only if its own signature is good,     *)
(* whatever else is in the message and whatever became of the signers      *)
(* before it (verify.rs:138-165, 183-248).                                 *)
(***************************************************************************)
VerifiedIsGood ==
  \A i \in DOMAIN results : results[i].verified => Good(signed.infos[i])

(***************************************************************************)
(* And a good signature is reported as verified, if no two certificates    *)
(* at hand bear the same name or identifier: then following names by       *)
(* subject finds the path when there is one (cert.rs:138-187).             *)
(***************************************************************************)
Unambiguous ==
  \A c, d \in ToSet(bag) \cup anchors :
    c # d => /\ c.subject # d.subject
             /\ c.serial # d.serial
             /\ c.ski = Nothing \/ c.ski # d.ski

Clear == Unambiguous /\ clockOk /\ \A c \in ToSet(bag) \cup anchors : c.converts

GoodIsVerified ==
  Clear => \A i \in DOMAIN results : Good(signed.infos[i]) => results[i].verified

(***************************************************************************)
(* What sign() returns, verify() accepts, if it has no more signers than   *)
(* verify() takes: every signer whose key has the digest of its curve, and *)
(* whose certificate an anchor signed, on whichever curve                  *)
(* (sign.rs:57-258, lib.rs:41, tests/smime_tests.rs:1418-1472).            *)
(***************************************************************************)
Supported(key) ==
  CASE key.cert.key = "RSA"   -> TRUE
    [] key.cert.key = "P-256" -> Digest(key) = "sha256"
    [] key.cert.key = "P-384" -> Digest(key) = "sha384"
    [] OTHER                  -> FALSE

SignedIsVerified ==
  /\ Own /\ Decided /\ content = Bytes /\ Clear
  /\ Len(keys) <= MaxSignerInfos /\ Len(keys) <= MaxBagCerts
  /\ \A i \in DOMAIN keys : Supported(keys[i]) /\ GoodPath(<<keys[i].cert>>)
  => verdict = "Ok" /\ AllVerified

(***************************************************************************)
(* The caller's revocation checker, which may ask over the network, is     *)
(* consulted only about certificates of a path whose signatures have been  *)
(* verified, and no signer passes without it (cert.rs:72-91).              *)
(***************************************************************************)
RevocationAfterSignatures ==
  /\ asked > 0 => PathValid
  /\ path = "trusted" => PathValid /\ \A i \in DOMAIN chain : chain[i] \notin revoked

(***************************************************************************)
(* Verification ends although certificates may name each other as issuers  *)
(* (cert.rs:152-184).                                                      *)
(***************************************************************************)
VerifyReturns == (signed # NoSignature) ~> Decided
=============================================================================
