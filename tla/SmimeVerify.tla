------------------------------ MODULE SmimeVerify ------------------------------
(***************************************************************************)
(* verify() of smime-tree: every SignerInfo of a SignedData against the    *)
(* content the caller took from the message.                               *)
(*                                                                         *)
(* A content is a value; a digest is the algorithm and the content, equal  *)
(* only if both are.  A signature is the key, the scheme and the           *)
(* attributes it was made over.                                            *)
(***************************************************************************)
EXTENDS CertChain, SequencesExt

CONSTANTS
  MaxBagCerts,      \* MAX_BAG_CERTS, 100 in the code
  MaxSignerInfos,   \* MAX_SIGNER_INFOS, 32 in the code
  Nothing           \* a value that is not there

ASSUME LimitsAssumption == MaxBagCerts \in Nat /\ MaxSignerInfos \in Nat

VARIABLES
  content,    \* the bytes the caller passes in
  signed,     \* the SignedData
  results,    \* one SignerResult for each SignerInfo checked
  verdict     \* "pending", "Ok" or the error returned

verifyArguments == <<content, signed>>

Digests == {"sha256", "sha384", "sha512"}

\* A value that is not there is none of those that may be there.
ASSUME NothingAssumption ==
  /\ Nothing \notin {"Der", "WrongContentType", "MalformedInput"}
  /\ \A family \in {"RSA", "P-256", "P-384"}, d \in Digests : <<family, d>> # Nothing

FirstFailure(checks) ==
  LET i == SelectInSeq(checks, LAMBDA check : ~check[1])
  IN  IF i = 0 THEN Nothing ELSE checks[i][2]

(***************************************************************************)
(* The SignedData as a whole.                                              *)
(***************************************************************************)
SignedDataChecks ==
  << <<signed.type # "undecodable", "Der">>,
     <<signed.type = "data", "WrongContentType">>,
     <<~signed.econtent, "MalformedInput">>,
     <<Len(signed.infos) <= MaxSignerInfos, "MalformedInput">> >>

Refused == FirstFailure(SignedDataChecks)

Taken(certs) == SubSeq(certs, 1, IF Len(certs) > MaxBagCerts THEN MaxBagCerts ELSE Len(certs))

Refuse ==
  /\ verdict = "pending"
  /\ Refused # Nothing
  /\ verdict' = Refused
  /\ UNCHANGED <<verifyArguments, results, chainArguments, chain, path, asked>>

(***************************************************************************)
(* One SignerInfo, up to its certificate path.                             *)
(***************************************************************************)
Info == signed.infos[Len(results) + 1]

IsNamedBy(cert, sid) ==
  \/ sid.kind = "serial" /\ cert.issuer = sid.issuer /\ cert.serial = sid.serial
  \/ sid.kind = "ski" /\ cert.ski # Nothing /\ cert.ski = sid.ski

\* The first certificate of the message that is named.
FirstInBag(sid) ==
  {bag[i] : i \in {i \in DOMAIN bag : /\ IsNamedBy(bag[i], sid)
                                     /\ \A j \in 1 .. i - 1 : ~IsNamedBy(bag[j], sid)}}

(***************************************************************************)
(* Faulty variant: a certificate the message leaves out is not found.      *)
(***************************************************************************)
FindCertInBag(sid) == FirstInBag(sid)

\* It, else an anchor that is named.
FindCert(sid) ==
  IF FirstInBag(sid) # {} THEN FirstInBag(sid) ELSE {a \in anchors : IsNamedBy(a, sid)}

\* The key and the scheme that verify_sig uses for an algorithm identifier.
SchemeOf(info) ==
  CASE info.sigAlg \in {"RSA"} \X Digests   -> info.sigAlg
    [] info.sigAlg = <<"rsaEncryption">>    -> <<"RSA", info.digest>>
    [] info.sigAlg = <<"ecdsa", "sha256">>  -> <<"P-256", "sha256">>
    [] info.sigAlg = <<"ecdsa", "sha384">>  -> <<"P-384", "sha384">>
    [] OTHER                                -> Nothing

SignatureVerifies(cert, info) ==
  /\ SchemeOf(info) # Nothing
  /\ cert.key = SchemeOf(info)[1]
  /\ info.sig.pub = cert.pub
  /\ info.sig.scheme = SchemeOf(info)
  /\ info.sig.over = info.attrs

(***************************************************************************)
(* Faulty variant: the signature over the attributes is checked, and that  *)
(* they are about this content is not.                                     *)
(***************************************************************************)
MessageDigestMatchesAny(info) == info.attrs.contentType = "data"

MessageDigestMatches(info) ==
  /\ info.attrs.contentType = "data"
  /\ info.attrs.digest = <<info.digest, content>>

SignerSound(cert, info) ==
  /\ info.attrs # Nothing
  /\ MessageDigestMatches(info)
  /\ SignatureVerifies(cert, info)

Checking ==
  verdict = "pending" /\ Refused = Nothing /\ Len(results) < Len(signed.infos)

Result(ok) == [verified |-> ok]

Conclude(ok) ==
  /\ results' = Append(results, Result(ok))
  /\ chain' = <<>>
  /\ path' = "idle"
  /\ asked' = 0
  /\ UNCHANGED <<chainArguments, verifyArguments, verdict>>

Candidates == IF Info.digest \in Digests THEN FindCert(Info.sid) ELSE {}

FailSigner ==
  /\ Checking
  /\ path = "idle"
  /\ \/ Candidates = {}
     \/ \E cert \in Candidates : ~SignerSound(cert, Info)
  /\ Conclude(FALSE)

StartPath ==
  /\ Checking
  /\ path = "idle"
  /\ \E cert \in Candidates : SignerSound(cert, Info) /\ StartChain(cert)
  /\ UNCHANGED <<verifyArguments, results, verdict>>

CheckPath == ValidateChain /\ UNCHANGED <<verifyArguments, results, verdict>>

EndPath ==
  /\ Checking
  /\ path \in ChainErrors \cup {"trusted"}
  /\ Conclude(path = "trusted")

(***************************************************************************)
(* The verdict.                                                            *)
(***************************************************************************)
Verified == {i \in DOMAIN results : results[i].verified}

Return ==
  /\ verdict = "pending"
  /\ Refused = Nothing
  /\ Len(results) = Len(signed.infos)
  /\ verdict' = IF results = <<>> THEN "MalformedInput"
                ELSE IF Verified = {} THEN "AllSignersFailed" ELSE "Ok"
  /\ UNCHANGED <<verifyArguments, results, chainArguments, chain, path, asked>>

AllVerified == results # <<>> /\ Verified = DOMAIN results

VerifyInit ==
  /\ chain = <<>>
  /\ path = "idle"
  /\ asked = 0
  /\ results = <<>>
  /\ verdict = "pending"

VerifyNext ==
  Refuse \/ FailSigner \/ StartPath \/ CheckPath \/ EndPath \/ Return
=============================================================================
