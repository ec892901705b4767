------------------------- MODULE SmimeSignatureProofs -------------------------
(***************************************************************************)
(* Theorems about SmimeSignature, for every list of keys, every message of *)
(* other software and every choice of anchors, checker and clock.          *)
(***************************************************************************)
EXTENDS SmimeSignature, SequenceTheorems, FiniteSetTheorems, DataFacts, TLAPS

(***************************************************************************)
(* What holds of the path of the signer at hand.  The checker is asked     *)
(* about one certificate after the other, and only once the path is valid; *)
(* from then on neither the path nor the anchors change.                   *)
(***************************************************************************)
CheckedPaths == {"validated", "trusted", "Revoked"}

ChainIsSequence == \E S : chain \in Seq(S)

AskedInRange == asked \in Nat /\ asked <= Len(chain)

AskedIfChecked == asked > 0 => path \in CheckedPaths

CheckedIsValid == path \in CheckedPaths => PathValid

NoneRevoked ==
  path \in {"validated", "trusted"} => \A i \in 1 .. asked : chain[i] \notin revoked

TrustedIsDone == path = "trusted" => asked = Len(chain)

PathInv ==
  /\ ChainIsSequence
  /\ AskedInRange
  /\ AskedIfChecked
  /\ CheckedIsValid
  /\ NoneRevoked
  /\ TrustedIsDone

\* The variables PathInv depends on.
pathVars == <<anchors, revoked, chain, path, asked>>

LEMMA PathInvUnchanged == PathInv /\ UNCHANGED pathVars => PathInv'
  BY DEF PathInv, ChainIsSequence, AskedInRange, AskedIfChecked, CheckedIsValid,
         NoneRevoked, TrustedIsDone, PathValid, Signed, Linked, Issuer, pathVars

\* A signer has no path yet, or none any more.
LEMMA PathInvOfNoPath ==
  ASSUME chain' = <<>>, path' = "idle", asked' = 0
  PROVE  PathInv'
<1>1. ChainIsSequence'
  BY DEF ChainIsSequence
<1>2. AskedInRange' /\ AskedIfChecked'
  BY DEF AskedInRange, AskedIfChecked
<1>3. CheckedIsValid' /\ NoneRevoked' /\ TrustedIsDone'
  BY DEF CheckedIsValid, NoneRevoked, TrustedIsDone, CheckedPaths
<1>. QED
  BY <1>1, <1>2, <1>3 DEF PathInv

\* A path that has not been checked carries no obligation but its form.
LEMMA PathInvOfUncheckedPath ==
  ASSUME ChainIsSequence', asked' = 0, path' \notin CheckedPaths
  PROVE  PathInv'
<1>1. Len(chain') \in Nat
  BY DEF ChainIsSequence
<1>2. AskedInRange' /\ AskedIfChecked'
  BY <1>1 DEF AskedInRange, AskedIfChecked
<1>3. CheckedIsValid' /\ NoneRevoked' /\ TrustedIsDone'
  BY DEF CheckedIsValid, NoneRevoked, TrustedIsDone, CheckedPaths
<1>. QED
  BY <1>2, <1>3 DEF PathInv

(***************************************************************************)
(* validate_chain.                                                         *)
(***************************************************************************)
LEMMA StartChainKeepsPathInv ==
  ASSUME PathInv, NEW cert, StartChain(cert)
  PROVE  PathInv'
<1>1. asked' = 0
  BY DEF PathInv, AskedInRange, AskedIfChecked, CheckedPaths, StartChain
<1>2. path' \notin CheckedPaths
  BY DEF StartChain, CheckedPaths
<1>3. ChainIsSequence'
  <2>1. CASE anchors = {}
    BY <2>1 DEF PathInv, ChainIsSequence, StartChain
  <2>2. CASE anchors # {}
    <3>1. chain' \in Seq({cert})
      BY <2>2 DEF StartChain
    <3>. QED
      BY <3>1 DEF ChainIsSequence
  <2>. QED
    BY <2>1, <2>2
<1>. QED
  BY <1>1, <1>2, <1>3, PathInvOfUncheckedPath

LEMMA BuildChainKeepsPathInv ==
  ASSUME PathInv, BuildChain
  PROVE  PathInv'
<1>1. path = "building" /\ asked' = asked
  BY DEF BuildChain, TooDeep, AnchorReached, NoMatchingIssuer, Cycle, PushParent,
         Climbing, Turn, EndBuilding
<1>2. asked' = 0
  BY <1>1 DEF PathInv, AskedInRange, AskedIfChecked, CheckedPaths
<1>3. path' \notin CheckedPaths
  BY <1>1 DEF BuildChain, TooDeep, AnchorReached, NoMatchingIssuer, Cycle, PushParent,
              EndBuilding, CheckedPaths
<1>4. ChainIsSequence'
  <2>1. CASE PushParent
    <3>1. PICK S : chain \in Seq(S)
      BY DEF PathInv, ChainIsSequence
    <3>2. PICK k \in DOMAIN bag : chain' = Append(chain, bag[k])
      BY <2>1 DEF PushParent
    <3>3. chain \in Seq(S \cup {bag[k]})
      BY <3>1
    <3>4. chain' \in Seq(S \cup {bag[k]})
      BY <3>2, <3>3
    <3>. QED
      BY <3>4 DEF ChainIsSequence
  <2>2. CASE ~PushParent
    BY <2>2 DEF BuildChain, TooDeep, AnchorReached, NoMatchingIssuer, Cycle, EndBuilding,
                PathInv, ChainIsSequence
  <2>. QED
    BY <2>1, <2>2
<1>. QED
  BY <1>2, <1>3, <1>4, PathInvOfUncheckedPath

\* The path that the checks accept is the one PathValid speaks about.
LEMMA ValidatePathKeepsPathInv ==
  ASSUME PathInv, ValidatePath
  PROVE  PathInv'
<1>1. path = "built" /\ UNCHANGED <<anchors, revoked, chain, asked>>
  BY DEF ValidatePath, EndBuilding, chainArguments
<1>2. asked = 0
  BY <1>1 DEF PathInv, AskedInRange, AskedIfChecked, CheckedPaths
<1>3. CASE path' = "validated"
  <2>1. PathValid
    BY <1>3 DEF ValidatePath, EndBuilding
  <2>2. PathValid'
    BY <1>1, <2>1 DEF PathValid, Signed, Linked, Issuer
  <2>3. ChainIsSequence' /\ AskedInRange'
    BY <1>1 DEF PathInv, ChainIsSequence, AskedInRange
  <2>4. AskedIfChecked' /\ CheckedIsValid' /\ NoneRevoked' /\ TrustedIsDone'
    BY <1>1, <1>2, <1>3, <2>2
       DEF AskedIfChecked, CheckedIsValid, NoneRevoked, TrustedIsDone, CheckedPaths
  <2>. QED
    BY <2>3, <2>4 DEF PathInv
<1>4. CASE path' # "validated"
  <2>1. path' \notin CheckedPaths
    BY <1>4 DEF ValidatePath, EndBuilding, CheckedPaths
  <2>2. ChainIsSequence'
    BY <1>1 DEF PathInv, ChainIsSequence
  <2>. QED
    BY <1>1, <1>2, <2>1, <2>2, PathInvOfUncheckedPath
<1>. QED
  BY <1>3, <1>4

LEMMA AskRevocationKeepsPathInv ==
  ASSUME PathInv, AskRevocation
  PROVE  PathInv'
<1>1. /\ path = "validated" /\ asked < Len(chain) /\ asked' = asked + 1
      /\ UNCHANGED <<anchors, revoked, chain>>
      /\ path' = IF chain[asked + 1] \in revoked THEN "Revoked" ELSE path
  BY DEF AskRevocation, chainArguments
<1>2. ChainIsSequence' /\ Len(chain) \in Nat
  BY <1>1 DEF PathInv, ChainIsSequence
<1>3. asked \in Nat /\ AskedInRange'
  BY <1>1, <1>2 DEF PathInv, AskedInRange
<1>4. PathValid'
  BY <1>1 DEF PathInv, CheckedIsValid, CheckedPaths, PathValid, Signed, Linked, Issuer
<1>5. AskedIfChecked' /\ CheckedIsValid' /\ TrustedIsDone'
  BY <1>1, <1>4 DEF AskedIfChecked, CheckedIsValid, TrustedIsDone, CheckedPaths
<1>6. NoneRevoked'
  <2>. SUFFICES ASSUME path' \in {"validated", "trusted"}, NEW i \in 1 .. asked + 1
       PROVE  chain[i] \notin revoked
    BY <1>1 DEF NoneRevoked
  <2>1. CASE i = asked + 1
    BY <1>1, <2>1
  <2>2. CASE i # asked + 1
    <3>1. i \in 1 .. asked
      BY <1>3, <2>2
    <3>. QED
      BY <1>1, <3>1 DEF PathInv, NoneRevoked
  <2>. QED
    BY <2>1, <2>2
<1>. QED
  BY <1>2, <1>3, <1>5, <1>6 DEF PathInv

LEMMA AcceptKeepsPathInv ==
  ASSUME PathInv, Accept
  PROVE  PathInv'
<1>1. /\ path = "validated" /\ path' = "trusted" /\ asked = Len(chain)
      /\ UNCHANGED <<anchors, revoked, chain, asked>>
  BY DEF Accept, EndBuilding, chainArguments
<1>2. PathValid'
  BY <1>1 DEF PathInv, CheckedIsValid, CheckedPaths, PathValid, Signed, Linked, Issuer
<1>3. ChainIsSequence' /\ AskedInRange'
  BY <1>1 DEF PathInv, ChainIsSequence, AskedInRange
<1>4. AskedIfChecked' /\ CheckedIsValid' /\ NoneRevoked' /\ TrustedIsDone'
  BY <1>1, <1>2 DEF PathInv, AskedIfChecked, CheckedIsValid, NoneRevoked, TrustedIsDone,
                    CheckedPaths
<1>. QED
  BY <1>3, <1>4 DEF PathInv

-----------------------------------------------------------------------------
(***************************************************************************)
(* The specification.                                                      *)
(***************************************************************************)
LEMMA VerifyKeepsPathInv ==
  ASSUME PathInv, VerifyNext
  PROVE  PathInv'
<1>1. CASE Refuse \/ Return
  BY <1>1, PathInvUnchanged DEF Refuse, Return, pathVars, chainArguments
<1>2. CASE FailSigner \/ EndPath
  BY <1>2, PathInvOfNoPath DEF FailSigner, EndPath, Conclude
<1>3. CASE StartPath
  BY <1>3, StartChainKeepsPathInv DEF StartPath
<1>4. CASE CheckPath
  BY <1>4, BuildChainKeepsPathInv, ValidatePathKeepsPathInv, AskRevocationKeepsPathInv,
     AcceptKeepsPathInv DEF CheckPath, ValidateChain
<1>. QED
  BY <1>1, <1>2, <1>3, <1>4 DEF VerifyNext

LEMMA PathInvInitially == Init => PathInv
<1>. SUFFICES ASSUME Init  PROVE PathInv
  OBVIOUS
<1>1. chain = <<>> /\ path = "idle" /\ asked = 0
  BY DEF Init, VerifyInit
<1>2. ChainIsSequence
  BY <1>1 DEF ChainIsSequence
<1>. QED
  BY <1>1, <1>2 DEF PathInv, AskedInRange, AskedIfChecked, CheckedIsValid, NoneRevoked,
                    TrustedIsDone, CheckedPaths

LEMMA PathInvInductive == PathInv /\ [Next]_vars => PathInv'
<1>. SUFFICES ASSUME PathInv, [Next]_vars  PROVE PathInv'
  OBVIOUS
<1>1. CASE Sign
  BY <1>1, PathInvUnchanged DEF Sign, pathVars, chainArguments
<1>2. CASE Deliver
  BY <1>2, PathInvUnchanged DEF Deliver, pathVars
<1>3. CASE Verify
  BY <1>3, VerifyKeepsPathInv DEF Verify
<1>4. CASE UNCHANGED vars
  BY <1>4, PathInvUnchanged DEF vars, pathVars
<1>. QED
  BY <1>1, <1>2, <1>3, <1>4 DEF Next

(***************************************************************************)
(* The path of every signer keeps PathInv.                                 *)
(***************************************************************************)
THEOREM PathInvariance == Spec => []PathInv
  BY PathInvInitially, PathInvInductive, PTL DEF Spec

(***************************************************************************)
(* The caller's checker is asked only about valid paths, and no signer is  *)
(* trusted one of whose certificates it refuses (cert.rs:72-91).           *)
(***************************************************************************)
THEOREM RevocationComesLast == Spec => []RevocationAfterSignatures
<1>1. PathInv => RevocationAfterSignatures
  <2>. SUFFICES ASSUME PathInv  PROVE RevocationAfterSignatures
    OBVIOUS
  <2>1. DOMAIN chain = 1 .. Len(chain)
    BY DEF PathInv, ChainIsSequence
  <2>2. asked > 0 => PathValid
    BY DEF PathInv, AskedIfChecked, CheckedIsValid
  <2>3. path = "trusted" => PathValid /\ \A i \in DOMAIN chain : chain[i] \notin revoked
    BY <2>1 DEF PathInv, CheckedIsValid, CheckedPaths, NoneRevoked, TrustedIsDone
  <2>. QED
    BY <2>2, <2>3 DEF RevocationAfterSignatures
<1>. QED
  BY <1>1, PathInvariance, PTL

-----------------------------------------------------------------------------
(***************************************************************************)
(* What holds of the signer at hand: the path starts with a certificate    *)
(* that is named by its SignerInfo and whose key made the signature, and   *)
(* goes on in the message.  Together with PathInv this makes every signer  *)
(* that ends up trusted a good one.                                        *)
(***************************************************************************)
NoMessageYet == signed = NoSignature => results = <<>> /\ path = "idle"

ResultsAreSequence == \E S : results \in Seq(S)

SignerAtHand ==
  path \notin {"idle", "NoTrustAnchors"} =>
    /\ chain # <<>>
    /\ chain[1] \in ToSet(bag) \cup anchors
    /\ IsNamedBy(chain[1], Info.sid)
    /\ Info.digest \in Digests
    /\ SignerSound(chain[1], Info)
    /\ \A i \in DOMAIN chain : chain[i] \in ToSet(bag) \cup {chain[1]}

SignerInv ==
  /\ NoMessageYet
  /\ ResultsAreSequence
  /\ SignerAtHand
  /\ VerifiedIsGood

\* What a signer is judged by.
evidence == <<content, signed, bag, anchors, revoked>>

LEMMA FindCertFindsNamed ==
  ASSUME NEW sid, NEW cert \in FindCert(sid)
  PROVE  cert \in ToSet(bag) \cup anchors /\ IsNamedBy(cert, sid)
  BY DEF FindCert, FirstInBag, ToSet

LEMMA SoundIsGood ==
  ASSUME NEW cert, NEW info, SignerSound(cert, info), info.digest \in Digests
  PROVE  GoodSignature(cert, info)
<1>1. /\ info.attrs.contentType = "data"
      /\ info.attrs.digest = <<info.digest, content>>
      /\ SchemeOf(info) # Nothing
      /\ cert.key = SchemeOf(info)[1]
      /\ info.sig.pub = cert.pub
      /\ info.sig.scheme = SchemeOf(info)
      /\ info.sig.over = info.attrs
  BY DEF SignerSound, MessageDigestMatches, SignatureVerifies
<1>2. SchemeOf(info) \in Supports /\ info.sigAlg \in Names(SchemeOf(info), info.digest)
  <2>1. CASE info.sigAlg \in {"RSA"} \X Digests
    <3>1. SchemeOf(info) = info.sigAlg
      BY <2>1 DEF SchemeOf
    <3>. QED
      BY <2>1, <3>1 DEF Supports, Names
  <2>2. CASE info.sigAlg = <<"rsaEncryption">>
    <3>1. SchemeOf(info) = <<"RSA", info.digest>>
      BY <2>2 DEF SchemeOf
    <3>. QED
      BY <2>2, <3>1 DEF Supports, Names
  <2>3. CASE info.sigAlg = <<"ecdsa", "sha256">>
    <3>1. SchemeOf(info) = <<"P-256", "sha256">>
      BY <2>3 DEF SchemeOf
    <3>. QED
      BY <2>3, <3>1 DEF Supports, Names
  <2>4. CASE info.sigAlg = <<"ecdsa", "sha384">>
    <3>1. SchemeOf(info) = <<"P-384", "sha384">>
      BY <2>4 DEF SchemeOf
    <3>. QED
      BY <2>4, <3>1 DEF Supports, Names
  <2>5. CASE /\ info.sigAlg \notin {"RSA"} \X Digests
             /\ info.sigAlg \notin {<<"rsaEncryption">>, <<"ecdsa", "sha256">>,
                                    <<"ecdsa", "sha384">>}
    BY <1>1, <2>5 DEF SchemeOf
  <2>. QED
    BY <2>1, <2>2, <2>3, <2>4, <2>5
<1>. QED
  BY <1>1, <1>2 DEF GoodSignature

\* A trusted path is one that Good asks for.
LEMMA TrustedIsGood ==
  ASSUME PathInv, SignerAtHand, path = "trusted"
  PROVE  Good(Info)
<1>1. /\ chain # <<>>
      /\ chain[1] \in ToSet(bag) \cup anchors
      /\ IsNamedBy(chain[1], Info.sid)
      /\ Info.digest \in Digests
      /\ SignerSound(chain[1], Info)
      /\ \A i \in DOMAIN chain : chain[i] \in ToSet(bag) \cup {chain[1]}
  BY DEF SignerAtHand
<1>2. Info.attrs # Nothing /\ GoodSignature(chain[1], Info)
  BY <1>1, SoundIsGood DEF SignerSound
<1>3. PathValid /\ \A i \in 1 .. Len(chain) : chain[i] \notin revoked
  BY DEF PathInv, CheckedIsValid, CheckedPaths, NoneRevoked, TrustedIsDone
<1>4. Len(chain) \in 1 .. MaxDepth
  BY <1>1, <1>3, MaxDepthAssumption DEF PathInv, ChainIsSequence, PathValid
<1>5. chain \in [1 .. Len(chain) -> ToSet(bag) \cup {chain[1]}]
  BY <1>1 DEF PathInv, ChainIsSequence
<1>6. chain \in PathsFrom(chain[1])
  BY <1>4, <1>5 DEF PathsFrom
<1>7. GoodPath(chain)
  BY <1>3, <1>5 DEF GoodPath, PathValid
<1>. QED
  BY <1>1, <1>2, <1>6, <1>7 DEF Good

LEMMA EvidenceKeepsGood ==
  ASSUME UNCHANGED evidence, NEW info
  PROVE  Good(info)' <=> Good(info)
  BY DEF Good, IsNamedBy, GoodSignature, PathsFrom, GoodPath, Linked, Signed, evidence

LEMMA EvidenceKeepsSignerGood ==
  ASSUME UNCHANGED evidence, NEW i, Good(signed.infos[i])
  PROVE  Good(signed.infos[i])'
<1>1. PICK info : info = signed.infos[i]
  OBVIOUS
<1>2. Good(info)'
  BY <1>1, EvidenceKeepsGood
<1>3. info = signed'.infos[i]
  BY <1>1 DEF evidence
<1>. QED
  BY <1>2, <1>3 DEF Good

LEMMA EvidenceKeepsVerifiedIsGood ==
  ASSUME VerifiedIsGood, UNCHANGED <<evidence, results>>
  PROVE  VerifiedIsGood'
<1>. SUFFICES ASSUME NEW i \in DOMAIN results, results[i].verified
     PROVE  Good(signed.infos[i])'
  BY DEF VerifiedIsGood
<1>. QED
  BY EvidenceKeepsSignerGood DEF VerifiedIsGood

LEMMA SignerInvUnchanged ==
  ASSUME SignerInv, UNCHANGED <<evidence, results, chain, path>>
  PROVE  SignerInv'
<1>1. NoMessageYet' /\ ResultsAreSequence'
  BY DEF SignerInv, NoMessageYet, ResultsAreSequence, evidence, NoSignature
<1>2. SignerAtHand'
  BY DEF SignerInv, SignerAtHand, SignerSound, MessageDigestMatches, SignatureVerifies, SchemeOf,
         IsNamedBy, Info, evidence
<1>3. VerifiedIsGood'
  BY EvidenceKeepsVerifiedIsGood DEF SignerInv
<1>. QED
  BY <1>1, <1>2, <1>3 DEF SignerInv

\* A signer is done with: the ones before it are judged by the same evidence.
LEMMA ConcludeKeepsSignerInv ==
  ASSUME SignerInv, signed # NoSignature, NEW ok, Conclude(ok), ok => Good(Info)
  PROVE  SignerInv'
<1>1. /\ UNCHANGED evidence
      /\ results' = Append(results, Result(ok))
      /\ path' = "idle"
  BY DEF Conclude, evidence, verifyArguments, chainArguments
<1>2. PICK S : results \in Seq(S)
  BY DEF SignerInv, ResultsAreSequence
<1>3. results \in Seq(S \cup {Result(ok)})
  BY <1>2
<1>4. NoMessageYet' /\ ResultsAreSequence' /\ SignerAtHand'
  <2>1. results' \in Seq(S \cup {Result(ok)})
    BY <1>1, <1>3
  <2>. QED
    BY <1>1, <2>1 DEF NoMessageYet, ResultsAreSequence, SignerAtHand, evidence, NoSignature
<1>5. VerifiedIsGood'
  <2>. SUFFICES ASSUME NEW i \in DOMAIN results', results'[i].verified
       PROVE  Good(signed.infos[i])'
    BY DEF VerifiedIsGood
  <2>1. Good(signed.infos[i])
    <3>1. CASE i \in DOMAIN results
      <4>1. results'[i] = results[i]
        BY <1>1, <1>2, <3>1
      <4>2. results[i].verified
        BY <4>1
      <4>. QED
        BY <3>1, <4>2 DEF SignerInv, VerifiedIsGood
    <3>2. CASE i \notin DOMAIN results
      <4>1. i = Len(results) + 1 /\ results'[i] = Result(ok)
        BY <1>1, <1>2, <1>3, <3>2
      <4>2. ok
        BY <4>1 DEF Result
      <4>. QED
        BY <4>1, <4>2 DEF Info
    <3>. QED
      BY <3>1, <3>2
  <2>. QED
    BY <1>1, <2>1, EvidenceKeepsSignerGood
<1>. QED
  BY <1>4, <1>5 DEF SignerInv

LEMMA StartPathKeepsSignerInv ==
  ASSUME SignerInv, signed # NoSignature, StartPath
  PROVE  SignerInv'
<1>1. PICK cert \in Candidates : SignerSound(cert, Info) /\ StartChain(cert)
  BY DEF StartPath
<1>2. UNCHANGED <<evidence, results>>
  BY <1>1 DEF StartPath, StartChain, verifyArguments, chainArguments, evidence
<1>3. Info.digest \in Digests /\ cert \in FindCert(Info.sid)
  BY DEF Candidates
<1>4. cert \in ToSet(bag) \cup anchors /\ IsNamedBy(cert, Info.sid)
  BY <1>3, FindCertFindsNamed
<1>5. SignerAtHand'
  <2>1. CASE anchors = {}
    BY <1>1, <2>1 DEF StartChain, SignerAtHand
  <2>2. CASE anchors # {}
    <3>1. chain' = <<cert>>
      BY <1>1, <2>2 DEF StartChain
    <3>2. chain' # <<>> /\ chain'[1] = cert /\ DOMAIN chain' = {1}
      BY <3>1
    <3>3. Info' = Info
      BY <1>2 DEF Info, evidence
    <3>4. SignerSound(cert, Info) /\ UNCHANGED <<content, signed, results>>
      BY <1>1, <1>2 DEF evidence
    <3>5. SignerSound(chain[1], Info)'
      BY <3>2, <3>3, <3>4
         DEF SignerSound, MessageDigestMatches, SignatureVerifies, SchemeOf
    <3>6. (chain[1] \in ToSet(bag) \cup anchors)' /\ IsNamedBy(chain[1], Info.sid)'
      BY <1>2, <1>4, <3>2, <3>3 DEF IsNamedBy, evidence
    <3>. QED
      BY <1>3, <3>2, <3>3, <3>5, <3>6 DEF SignerAtHand
  <2>. QED
    BY <2>1, <2>2
<1>6. NoMessageYet' /\ ResultsAreSequence' /\ VerifiedIsGood'
  BY <1>2, EvidenceKeepsVerifiedIsGood
     DEF SignerInv, NoMessageYet, ResultsAreSequence, NoSignature, evidence
<1>. QED
  BY <1>5, <1>6 DEF SignerInv

\* The path grows by certificates of the message only.
LEMMA PushParentKeepsSignerInv ==
  ASSUME PathInv, SignerInv, signed # NoSignature, PushParent, UNCHANGED <<content, signed, results>>
  PROVE  SignerInv'
<1>1. path = "building" /\ UNCHANGED <<evidence, results, path>>
  BY DEF PushParent, Climbing, Turn, chainArguments, evidence
<1>2. PICK k \in DOMAIN bag : chain' = Append(chain, bag[k])
  BY DEF PushParent
<1>3. PICK S : chain \in Seq(S)
  BY DEF PathInv, ChainIsSequence
<1>4. chain \in Seq(S \cup {bag[k]})
  BY <1>3
<1>5. chain # <<>> /\ bag[k] \in ToSet(bag)
  BY <1>1 DEF SignerInv, SignerAtHand, ToSet
<1>6. chain' # <<>> /\ chain'[1] = chain[1]
  BY <1>2, <1>4, <1>5
<1>7. \A i \in DOMAIN chain' : chain'[i] \in ToSet(bag) \cup {chain[1]}
  BY <1>1, <1>2, <1>4, <1>5 DEF SignerInv, SignerAtHand
<1>8. SignerAtHand'
  BY <1>1, <1>6, <1>7
     DEF SignerInv, SignerAtHand, SignerSound, MessageDigestMatches, SignatureVerifies, SchemeOf,
         IsNamedBy, Info, evidence
<1>9. NoMessageYet' /\ ResultsAreSequence' /\ VerifiedIsGood'
  BY <1>1, EvidenceKeepsVerifiedIsGood
     DEF SignerInv, NoMessageYet, ResultsAreSequence, NoSignature, evidence
<1>. QED
  BY <1>8, <1>9 DEF SignerInv

\* The other steps of validate_chain leave the path as it is.
LEMMA CheckPathKeepsSignerInv ==
  ASSUME PathInv, SignerInv, signed # NoSignature, CheckPath
  PROVE  SignerInv'
<1>1. UNCHANGED <<content, signed, results>>
  BY DEF CheckPath, verifyArguments
<1>2. CASE PushParent
  BY <1>1, <1>2, PushParentKeepsSignerInv
<1>3. CASE ~PushParent
  <2>1. path \notin {"idle", "NoTrustAnchors"} /\ UNCHANGED <<evidence, results, chain>>
    BY <1>1, <1>3
       DEF CheckPath, ValidateChain, BuildChain, TooDeep, AnchorReached, NoMatchingIssuer, Cycle,
           Climbing, Turn, ValidatePath, AskRevocation, Accept, EndBuilding, chainArguments, evidence
  <2>2. SignerAtHand'
    BY <2>1
       DEF SignerInv, SignerAtHand, SignerSound, MessageDigestMatches, SignatureVerifies, SchemeOf,
           IsNamedBy, Info, evidence
  <2>3. NoMessageYet' /\ ResultsAreSequence' /\ VerifiedIsGood'
    BY <2>1, EvidenceKeepsVerifiedIsGood
     DEF SignerInv, NoMessageYet, ResultsAreSequence, NoSignature, evidence
  <2>. QED
    BY <2>2, <2>3 DEF SignerInv
<1>. QED
  BY <1>2, <1>3

LEMMA VerifyKeepsSignerInv ==
  ASSUME PathInv, SignerInv, signed # NoSignature, VerifyNext
  PROVE  SignerInv'
<1>1. CASE Refuse \/ Return
  BY <1>1, SignerInvUnchanged DEF Refuse, Return, evidence, verifyArguments, chainArguments
<1>2. CASE FailSigner
  BY <1>2, ConcludeKeepsSignerInv DEF FailSigner
<1>3. CASE StartPath
  BY <1>3, StartPathKeepsSignerInv
<1>4. CASE CheckPath
  BY <1>4, CheckPathKeepsSignerInv
<1>5. CASE EndPath
  <2>1. Conclude(path = "trusted") /\ (path = "trusted" => Good(Info))
    BY <1>5, TrustedIsGood DEF EndPath, SignerInv
  <2>. QED
    BY <2>1, ConcludeKeepsSignerInv
<1>. QED
  BY <1>1, <1>2, <1>3, <1>4, <1>5 DEF VerifyNext

LEMMA SignerInvInitially == Init => SignerInv
<1>. SUFFICES ASSUME Init  PROVE SignerInv
  OBVIOUS
<1>1. results = <<>> /\ path = "idle"
  BY DEF Init, VerifyInit
<1>2. ResultsAreSequence
  BY <1>1 DEF ResultsAreSequence
<1>. QED
  BY <1>1, <1>2 DEF SignerInv, NoMessageYet, SignerAtHand, VerifiedIsGood

LEMMA SignerInvInductive == PathInv /\ SignerInv /\ [Next]_vars => SignerInv'
<1>. SUFFICES ASSUME PathInv, SignerInv, [Next]_vars  PROVE SignerInv'
  OBVIOUS
<1>1. CASE Sign
  BY <1>1, SignerInvUnchanged DEF Sign, evidence, chainArguments
<1>2. CASE Deliver
  <2>1. results = <<>> /\ path = "idle" /\ UNCHANGED <<results, path>>
    BY <1>2 DEF Deliver, SignerInv, NoMessageYet
  <2>. QED
    BY <2>1 DEF SignerInv, NoMessageYet, ResultsAreSequence, SignerAtHand, VerifiedIsGood
<1>3. CASE Verify
  BY <1>3, VerifyKeepsSignerInv DEF Verify
<1>4. CASE UNCHANGED vars
  BY <1>4, SignerInvUnchanged DEF vars, evidence
<1>. QED
  BY <1>1, <1>2, <1>3, <1>4 DEF Next

(***************************************************************************)
(* No signer is reported as verified whose signature is not good, whatever *)
(* the message, the anchors and the checker (verify.rs:138-165, 183-248).  *)
(***************************************************************************)
THEOREM VerifiedSignersAreGood == Spec => []VerifiedIsGood
<1>1. SignerInv => VerifiedIsGood
  BY DEF SignerInv
<1>2. Spec => []SignerInv
  BY SignerInvInitially, SignerInvInductive, PathInvariance, PTL DEF Spec
<1>. QED
  BY <1>1, <1>2, PTL

-----------------------------------------------------------------------------
(***************************************************************************)
(* The other direction: a good signature is verified, when names are       *)
(* unambiguous.  The walk then has no choice: the signer's certificate is  *)
(* the only one found, and the path built from it is the beginning of any  *)
(* good path there is.                                                     *)
(***************************************************************************)
Known == ToSet(bag) \cup anchors

BagIsSequence == \E S : bag \in Seq(S)

\* The path built so far is how p begins.
Begins(p) == Len(chain) <= Len(p) /\ \A i \in DOMAIN chain : chain[i] = p[i]

\* Had an anchor issued one of these, the walk had ended there.
NoAnchorPassed == \A i \in 1 .. Len(chain) - 1 : chain[i].issuer \notin SubjectsOf(anchors)

OnTheWay == NoAnchorPassed /\ \E p \in PathsFrom(chain[1]) : GoodPath(p) /\ Begins(p)

PathStands == PathValid /\ \A i \in DOMAIN chain : chain[i] \notin revoked

GoodAtHand ==
  Clear /\ path # "idle" /\ Good(Info) =>
    \/ path = "building" /\ OnTheWay
    \/ path \in {"built", "validated", "trusted"} /\ PathStands

GoodInv == BagIsSequence /\ GoodAtHand /\ GoodIsVerified

(***************************************************************************)
(* Lookups.                                                                *)
(***************************************************************************)
LEMMA SubjectTells ==
  ASSUME Unambiguous, NEW c \in Known, NEW d \in Known, c.subject = d.subject
  PROVE  c = d
  BY DEF Unambiguous, Known

LEMMA NameTells ==
  ASSUME Unambiguous, NEW sid, NEW c \in Known, NEW d \in Known,
         IsNamedBy(c, sid), IsNamedBy(d, sid)
  PROVE  c = d
  BY DEF Unambiguous, Known, IsNamedBy

\* The only certificate with the name is found, wherever it is.
LEMMA NamedIsFound ==
  ASSUME BagIsSequence, Unambiguous, NEW sid, NEW cert \in Known, IsNamedBy(cert, sid)
  PROVE  FindCert(sid) = {cert}
<1>1. \A c \in FindCert(sid) : c = cert
  <2>. SUFFICES ASSUME NEW c \in FindCert(sid)  PROVE c = cert
    OBVIOUS
  <2>. QED
    BY FindCertFindsNamed, NameTells DEF Known
<1>2. FindCert(sid) # {}
  <2>1. CASE cert \in anchors
    BY <2>1 DEF FindCert
  <2>2. CASE cert \in ToSet(bag)
    <3>. DEFINE S == {i \in DOMAIN bag : IsNamedBy(bag[i], sid)}
    <3>1. S \in SUBSET Nat
      BY DEF BagIsSequence
    <3>2. S # {}
      BY <2>2 DEF ToSet
    <3>3. Min(S) \in S /\ \A j \in S : Min(S) <= j
      BY <3>1, <3>2, MinOfNat
    <3>4. \A j \in 1 .. Min(S) - 1 : j \notin S
      BY <3>1, <3>3
    <3>5. \A j \in 1 .. Min(S) - 1 : j \in DOMAIN bag
      BY <3>3 DEF BagIsSequence
    <3>6. bag[Min(S)] \in FirstInBag(sid)
      BY <3>3, <3>4, <3>5 DEF FirstInBag
    <3>. QED
      BY <3>6 DEF FindCert
  <2>. QED
    BY <2>1, <2>2 DEF Known
<1>. QED
  BY <1>1, <1>2

LEMMA GoodIsSound ==
  ASSUME NEW cert, NEW info, info.digest \in Digests, info.attrs # Nothing,
         GoodSignature(cert, info)
  PROVE  SignerSound(cert, info)
<1>. DEFINE scheme == info.sig.scheme
<1>1. /\ scheme \in Supports
      /\ info.sigAlg \in Names(scheme, info.digest)
  BY DEF GoodSignature
<1>2. SchemeOf(info) = scheme
  <2>1. CASE scheme \in {"RSA"} \X Digests /\ info.sigAlg = scheme
    BY <2>1 DEF SchemeOf
  <2>2. CASE scheme \in {"RSA"} \X Digests /\ info.sigAlg # scheme
    <3>1. scheme[2] = info.digest /\ info.sigAlg = <<"rsaEncryption">>
      BY <1>1, <2>2 DEF Names
    <3>2. scheme = <<"RSA", info.digest>>
      BY <2>2, <3>1
    <3>3. info.sigAlg \notin {"RSA"} \X Digests
      BY <3>1
    <3>. QED
      BY <3>1, <3>2, <3>3 DEF SchemeOf
  <2>3. CASE scheme = <<"P-256", "sha256">>
    <3>1. info.sigAlg = <<"ecdsa", "sha256">>
      BY <1>1, <2>3 DEF Names
    <3>2. info.sigAlg \notin {"RSA"} \X Digests /\ info.sigAlg # <<"rsaEncryption">>
      BY <3>1
    <3>. QED
      BY <2>3, <3>1, <3>2 DEF SchemeOf
  <2>4. CASE scheme = <<"P-384", "sha384">>
    <3>1. info.sigAlg = <<"ecdsa", "sha384">>
      BY <1>1, <2>4 DEF Names
    <3>2. /\ info.sigAlg \notin {"RSA"} \X Digests
          /\ info.sigAlg # <<"rsaEncryption">>
          /\ info.sigAlg # <<"ecdsa", "sha256">>
      BY <3>1
    <3>. QED
      BY <2>4, <3>1, <3>2 DEF SchemeOf
  <2>. QED
    BY <1>1, <2>1, <2>2, <2>3, <2>4 DEF Supports
<1>3. scheme # Nothing
  BY <1>1, NothingAssumption DEF Supports, Digests
<1>4. SignatureVerifies(cert, info)
  BY <1>2, <1>3 DEF SignatureVerifies, GoodSignature
<1>. QED
  BY <1>4 DEF SignerSound, MessageDigestMatches, GoodSignature

LEMMA GoodHasOneCandidate ==
  ASSUME BagIsSequence, Unambiguous, Good(Info)
  PROVE  \E cert \in Known : /\ Candidates = {cert}
                             /\ SignerSound(cert, Info)
                             /\ \E p \in PathsFrom(cert) : GoodPath(p)
<1>1. PICK cert \in Known :
        /\ IsNamedBy(cert, Info.sid)
        /\ Info.digest \in Digests
        /\ Info.attrs # Nothing
        /\ GoodSignature(cert, Info)
        /\ \E p \in PathsFrom(cert) : GoodPath(p)
  BY DEF Good, Known
<1>2. Candidates = {cert}
  BY <1>1, NamedIsFound DEF Candidates
<1>3. SignerSound(cert, Info)
  BY <1>1, GoodIsSound
<1>. QED
  BY <1>1, <1>2, <1>3

(***************************************************************************)
(* The walk.                                                               *)
(***************************************************************************)
\* What is known of a path that is being built.
Walking ==
  /\ \E S : chain \in Seq(S)
  /\ chain # <<>>
  /\ chain[1] \in Known
  /\ \A i \in DOMAIN chain : chain[i] \in ToSet(bag) \cup {chain[1]}

LEMMA SignerWalks ==
  ASSUME PathInv, SignerAtHand, path \notin {"idle", "NoTrustAnchors"}
  PROVE  Walking
  BY DEF PathInv, ChainIsSequence, SignerAtHand, Walking, Known

LEMMA ChainIsKnown ==
  ASSUME Walking
  PROVE  /\ Len(chain) \in Nat \ {0}
         /\ DOMAIN chain = 1 .. Len(chain)
         /\ \A i \in DOMAIN chain : chain[i] \in Known
<1>1. PICK S : chain \in Seq(S)
  BY DEF Walking
<1>2. Len(chain) \in Nat /\ DOMAIN chain = 1 .. Len(chain) /\ Len(chain) # 0
  BY <1>1 DEF Walking
<1>3. \A i \in DOMAIN chain : chain[i] \in Known
  BY DEF Walking, Known
<1>. QED
  BY <1>2, <1>3

LEMMA PathIsKnown ==
  ASSUME Walking, NEW p \in PathsFrom(chain[1])
  PROVE  /\ Len(p) \in 1 .. MaxDepth
         /\ DOMAIN p = 1 .. Len(p)
         /\ \A i \in 1 .. Len(p) : p[i] \in ToSet(bag) \cup {chain[1]} /\ p[i] \in Known
<1>1. PICK n \in 1 .. MaxDepth : p \in [1 .. n -> ToSet(bag) \cup {chain[1]}]
  BY DEF PathsFrom
<1>2. n \in Nat
  BY <1>1, MaxDepthAssumption
<1>3. p \in Seq(ToSet(bag) \cup {chain[1]}) /\ Len(p) = n
  BY <1>1, <1>2
<1>4. ToSet(bag) \cup {chain[1]} \subseteq Known
  BY DEF Walking, Known
<1>. QED
  BY <1>1, <1>3, <1>4

\* The anchor that issued the last certificate of a good path.
LEMMA GoodPathEnds ==
  ASSUME NEW p, GoodPath(p)
  PROVE  p[Len(p)].issuer \in SubjectsOf(anchors)
  BY DEF GoodPath, Signed, SubjectsOf

\* A good path goes on where no anchor is reached, with a certificate of the message.
LEMMA GoodPathGoesOn ==
  ASSUME Walking, NEW p \in PathsFrom(chain[1]), GoodPath(p), Begins(p),
         Issuer \notin SubjectsOf(anchors)
  PROVE  /\ Len(chain) + 1 \in 1 .. Len(p)
         /\ p[Len(chain) + 1].subject = Issuer
         /\ p[Len(chain) + 1] \in ToSet(bag)
<1>. DEFINE n == Len(chain)
<1>1. n \in Nat \ {0} /\ Len(p) \in Nat /\ n <= Len(p) /\ n \in DOMAIN chain
  BY ChainIsKnown, PathIsKnown, MaxDepthAssumption DEF Begins
<1>2. p[n] = chain[n]
  BY <1>1 DEF Begins
<1>3. n # Len(p)
  BY <1>2, GoodPathEnds DEF Issuer
<1>4. n + 1 \in 1 .. Len(p) /\ n \in 1 .. Len(p) - 1
  BY <1>1, <1>3
<1>5. p[n + 1].subject = Issuer
  BY <1>2, <1>4 DEF GoodPath, Linked, Signed, Issuer
<1>6. p[n + 1] \in ToSet(bag)
  <2>1. CASE p[n + 1] = chain[1] /\ chain[1] \notin ToSet(bag)
    <3>1. chain[1] \in anchors
      BY <2>1 DEF Walking, Known
    <3>. QED
      BY <1>5, <2>1, <3>1 DEF SubjectsOf
  <2>2. CASE ~(p[n + 1] = chain[1] /\ chain[1] \notin ToSet(bag))
    BY <1>4, <2>2, PathIsKnown
  <2>. QED
    BY <2>1, <2>2
<1>. QED
  BY <1>4, <1>5, <1>6

\* If the walk came back to a certificate, so would every good path, and none
\* of the certificates it goes round was issued by an anchor.
LEMMA GoodPathHasNoCycle ==
  ASSUME Walking, Unambiguous, NoAnchorPassed,
         NEW p \in PathsFrom(chain[1]), GoodPath(p), Begins(p),
         Issuer \notin SubjectsOf(anchors)
  PROVE  ~NoticesCycle
<1>. SUFFICES ASSUME NEW first \in DOMAIN chain, chain[first].subject = Issuer
     PROVE  FALSE
  BY DEF NoticesCycle
<1>. DEFINE n == Len(chain)
            OffChain == {k \in n .. Len(p) : \A j \in DOMAIN chain : p[k] # chain[j]}
<1>1. n \in Nat \ {0} /\ Len(p) \in Nat /\ n <= Len(p)
  BY ChainIsKnown, PathIsKnown, MaxDepthAssumption DEF Begins
<1>d. DOMAIN chain = 1 .. n
  BY ChainIsKnown
<1>2. \A j \in 1 .. n : chain[j].issuer \notin SubjectsOf(anchors)
  <2>. SUFFICES ASSUME NEW j \in 1 .. n  PROVE chain[j].issuer \notin SubjectsOf(anchors)
    OBVIOUS
  <2>1. CASE j = n
    BY <2>1 DEF Issuer
  <2>2. CASE j # n
    BY <1>1, <2>2 DEF NoAnchorPassed
  <2>. QED
    BY <2>1, <2>2
<1>3. OffChain = {}
  <2>. SUFFICES ASSUME OffChain # {}  PROVE FALSE
    OBVIOUS
  <2>1. OffChain \in SUBSET Nat
    BY <1>1
  <2>2. PICK k \in OffChain : \A l \in OffChain : k <= l
    BY <2>1, MinOfNat
  <2>3. p[n] = chain[n]
    BY <1>1, <1>d DEF Begins
  <2>4. k # n /\ k \in n .. Len(p)
    <3>1. n \in DOMAIN chain
      BY <1>1, <1>d
    <3>. QED
      BY <2>2, <2>3, <3>1
  <2>5. k - 1 \in n .. Len(p) /\ k - 1 \in 1 .. Len(p) - 1 /\ k \in 1 .. Len(p) /\ ~(k <= k - 1)
    BY <1>1, <2>4
  <2>6. PICK j \in 1 .. n : p[k - 1] = chain[j]
    BY <1>d, <1>1, <2>2, <2>5
  <2>7. p[k].subject = chain[j].issuer
    <3>1. (k - 1) + 1 = k
      BY <2>5
    <3>2. Linked(p[k - 1], p[(k - 1) + 1])
      BY <2>5 DEF GoodPath
    <3>. QED
      BY <2>6, <3>1, <3>2 DEF Linked, Signed
  <2>8. CASE j = n
    <3>1. p[k].subject = chain[first].subject
      BY <2>7, <2>8 DEF Issuer
    <3>2. p[k] = chain[first]
      BY <2>5, <3>1, SubjectTells, ChainIsKnown, PathIsKnown
    <3>. QED
      BY <2>2, <3>2
  <2>9. CASE j # n
    <3>1. j + 1 \in 1 .. n /\ j \in 1 .. n /\ j \in 1 .. Len(p) - 1
      BY <1>1, <2>9
    <3>2. p[j] = chain[j] /\ p[j + 1] = chain[j + 1]
      BY <1>d, <3>1 DEF Begins
    <3>3. chain[j + 1].subject = chain[j].issuer
      BY <3>1, <3>2 DEF GoodPath, Linked, Signed
    <3>4. p[k] = chain[j + 1]
      BY <1>d, <1>1, <2>5, <2>7, <3>1, <3>3, SubjectTells, ChainIsKnown, PathIsKnown
    <3>. QED
      BY <1>d, <1>1, <2>2, <3>1, <3>4
  <2>. QED
    BY <2>8, <2>9
<1>4. Len(p) \in n .. Len(p)
  BY <1>1
<1>5. PICK j \in 1 .. n : p[Len(p)] = chain[j]
  BY <1>d, <1>1, <1>3, <1>4
<1>. QED
  BY <1>2, <1>5, GoodPathEnds

\* Where an anchor is reached, the path is valid because the good one is.
LEMMA GoodPathReachesAnchor ==
  ASSUME Walking, Unambiguous, NEW p \in PathsFrom(chain[1]), GoodPath(p), Begins(p),
         Issuer \in SubjectsOf(anchors)
  PROVE  PathStands
<1>. DEFINE n == Len(chain)
<1>1. n \in Nat \ {0} /\ Len(p) \in Nat /\ n <= Len(p) /\ n <= MaxDepth
  BY ChainIsKnown, PathIsKnown, MaxDepthAssumption DEF Begins
<1>d. DOMAIN chain = 1 .. n /\ DOMAIN p = 1 .. Len(p)
  BY ChainIsKnown, PathIsKnown
<1>2. \A i \in 1 .. n : chain[i] = p[i] /\ i \in 1 .. Len(p)
  BY <1>1, <1>d DEF Begins
<1>3. \A i \in DOMAIN chain : chain[i].valid /\ chain[i] \notin revoked
  BY <1>d, <1>2 DEF GoodPath
<1>4. \A i \in 1 .. n - 1 : Linked(chain[i], chain[i + 1])
  <2>. SUFFICES ASSUME NEW i \in 1 .. n - 1  PROVE Linked(chain[i], chain[i + 1])
    OBVIOUS
  <2>1. i \in 1 .. n /\ i + 1 \in 1 .. n /\ i \in 1 .. Len(p) - 1
    BY <1>1
  <2>2. chain[i] = p[i] /\ chain[i + 1] = p[i + 1]
    BY <1>2, <2>1
  <2>. QED
    BY <2>1, <2>2 DEF GoodPath
<1>5. \E a \in anchors : a.valid /\ Signed(chain[n], a)
  <2>1. n \in 1 .. n /\ chain[n] = p[n] /\ Issuer = chain[n].issuer
    BY <1>1, <1>2 DEF Issuer
  <2>2. CASE n = Len(p)
    BY <2>1, <2>2 DEF GoodPath
  <2>3. CASE n # Len(p)
    <3>1. PICK a \in anchors : a.subject = Issuer
      BY DEF SubjectsOf
    <3>2. n \in 1 .. Len(p) - 1 /\ n + 1 \in 1 .. Len(p)
      BY <1>1, <2>3
    <3>3. Signed(p[n], p[n + 1])
      BY <3>2 DEF GoodPath, Linked
    <3>4. p[n + 1].subject = a.subject
      BY <2>1, <3>1, <3>3 DEF Signed
    <3>5. p[n + 1] = a
      BY <3>2, <3>4, SubjectTells, PathIsKnown DEF Known
    <3>6. p[n + 1].valid
      BY <3>2, PathIsKnown DEF GoodPath
    <3>. QED
      BY <2>1, <3>1, <3>3, <3>5, <3>6
  <2>. QED
    BY <2>2, <2>3
<1>. QED
  BY <1>1, <1>3, <1>4, <1>5 DEF PathStands, PathValid

(***************************************************************************)
(* What a signer at hand with a good signature may be doing.               *)
(***************************************************************************)
LEMMA EvidenceKeepsClear ==
  ASSUME UNCHANGED <<evidence, clockOk>>
  PROVE  Clear' <=> Clear
  BY DEF Clear, Unambiguous, evidence

\* While the signer at hand stays the same, so does what is asked of the path.
LEMMA EvidenceKeepsQuestion ==
  ASSUME UNCHANGED <<evidence, results, clockOk>>, Clear', Good(Info)'
  PROVE  Clear /\ Good(Info)
<1>1. Info' = Info
  BY DEF Info, evidence
<1>2. PICK info : info = Info
  OBVIOUS
<1>3. Good(info)'
  BY <1>1, <1>2 DEF Good
<1>4. Good(info)
  BY <1>3, EvidenceKeepsGood
<1>. QED
  BY <1>2, <1>4, EvidenceKeepsClear

LEMMA StartPathKeepsGoodAtHand ==
  ASSUME BagIsSequence, StartPath
  PROVE  GoodAtHand'
<1>1. PICK cert \in Candidates : SignerSound(cert, Info) /\ StartChain(cert)
  BY DEF StartPath
<1>2. UNCHANGED <<evidence, results, clockOk>>
  BY <1>1 DEF StartPath, StartChain, verifyArguments, chainArguments, evidence
<1>. SUFFICES ASSUME Clear', Good(Info)'
     PROVE  (path = "building" /\ OnTheWay)'
  BY DEF GoodAtHand
<1>3. Unambiguous /\ Good(Info)
  BY <1>2, EvidenceKeepsQuestion DEF Clear
<1>4. PICK p \in PathsFrom(cert) : GoodPath(p)
  BY <1>1, <1>3, GoodHasOneCandidate
<1>5. anchors # {}
  BY <1>4 DEF GoodPath
<1>6. path' = "building" /\ chain' = <<cert>>
  BY <1>1, <1>5 DEF StartChain
<1>7. /\ Len(chain') = 1 /\ DOMAIN chain' = {1} /\ chain'[1] = cert
  BY <1>6
<1>8. p \in PathsFrom(chain[1])' /\ GoodPath(p)'
  BY <1>2, <1>4, <1>7 DEF PathsFrom, GoodPath, Linked, Signed, evidence
<1>9. Begins(p)'
  <2>1. PICK n \in 1 .. MaxDepth : p \in [1 .. n -> ToSet(bag) \cup {cert}] /\ p[1] = cert
    BY <1>4 DEF PathsFrom
  <2>2. n \in Nat /\ 1 <= n
    BY <2>1, MaxDepthAssumption
  <2>3. Len(p) = n
    BY <2>1, <2>2
  <2>. QED
    BY <1>7, <2>1, <2>2, <2>3 DEF Begins
<1>10. NoAnchorPassed'
  BY <1>7 DEF NoAnchorPassed
<1>. QED
  BY <1>6, <1>8, <1>9, <1>10 DEF OnTheWay

LEMMA PathKeepsStanding ==
  ASSUME PathStands, UNCHANGED <<evidence, chain>>
  PROVE  PathStands'
  BY DEF PathStands, PathValid, Signed, Linked, evidence

LEMMA PushParentKeepsOnTheWay ==
  ASSUME Walking, Unambiguous, OnTheWay, PushParent, UNCHANGED evidence
  PROVE  OnTheWay'
<1>. DEFINE n == Len(chain)
<1>1. Issuer \notin SubjectsOf(anchors)
  BY DEF PushParent, Climbing
<1>2. PICK k \in DOMAIN bag : IsParent(k) /\ chain' = Append(chain, bag[k])
  BY DEF PushParent
<1>3. PICK p \in PathsFrom(chain[1]) : GoodPath(p) /\ Begins(p)
  BY DEF OnTheWay
<1>4. n + 1 \in 1 .. Len(p) /\ p[n + 1] = bag[k]
  <2>1. n + 1 \in 1 .. Len(p) /\ p[n + 1].subject = Issuer /\ p[n + 1] \in ToSet(bag)
    BY <1>1, <1>3, GoodPathGoesOn
  <2>2. bag[k].subject = Issuer /\ bag[k] \in ToSet(bag)
    BY <1>2 DEF IsParent, ToSet
  <2>3. p[n + 1] = bag[k]
    BY <2>1, <2>2, SubjectTells DEF Known
  <2>. QED
    BY <2>1, <2>3
<1>5. n \in Nat \ {0} /\ DOMAIN chain = 1 .. n
  BY ChainIsKnown
<1>6. PICK S : chain \in Seq(S)
  BY DEF Walking
<1>7. chain \in Seq(S \cup {bag[k]})
  BY <1>6
<1>8. /\ Len(chain') = n + 1
      /\ DOMAIN chain' = 1 .. n + 1
      /\ \A i \in 1 .. n : chain'[i] = chain[i]
      /\ chain'[n + 1] = bag[k]
  BY <1>2, <1>5, <1>7
<1>9. Begins(p)'
  <2>1. Len(chain') <= Len(p)
    BY <1>4, <1>8
  <2>2. \A i \in 1 .. n + 1 : chain'[i] = p[i]
    <3>. SUFFICES ASSUME NEW i \in 1 .. n + 1  PROVE chain'[i] = p[i]
      OBVIOUS
    <3>1. CASE i = n + 1
      BY <1>4, <1>8, <3>1
    <3>2. CASE i # n + 1
      <4>1. i \in 1 .. n
        BY <1>5, <3>2
      <4>. QED
        BY <1>3, <1>5, <1>8, <4>1 DEF Begins
    <3>. QED
      BY <3>1, <3>2
  <2>. QED
    BY <1>8, <2>1, <2>2 DEF Begins
<1>10. NoAnchorPassed'
  <2>1. SubjectsOf(anchors)' = SubjectsOf(anchors)
    BY DEF SubjectsOf, evidence
  <2>2. \A i \in 1 .. n : chain[i].issuer \notin SubjectsOf(anchors)
    <3>. SUFFICES ASSUME NEW i \in 1 .. n  PROVE chain[i].issuer \notin SubjectsOf(anchors)
      OBVIOUS
    <3>1. CASE i = n
      BY <1>1, <3>1 DEF Issuer
    <3>2. CASE i # n
      <4>1. i \in 1 .. n - 1
        <5>1. n \in Nat
          BY <1>5
        <5>. QED
          BY <3>2, <5>1
      <4>. QED
        BY <4>1 DEF OnTheWay, NoAnchorPassed
    <3>. QED
      BY <3>1, <3>2
  <2>3. Len(chain') - 1 = n
    BY <1>5, <1>8
  <2>. QED
    BY <1>8, <2>1, <2>2, <2>3 DEF NoAnchorPassed
<1>11. p \in PathsFrom(chain[1])' /\ GoodPath(p)'
  <2>1. chain'[1] = chain[1]
    BY <1>5, <1>8
  <2>. QED
    BY <1>3, <2>1 DEF PathsFrom, GoodPath, Linked, Signed, evidence
<1>. QED
  BY <1>9, <1>10, <1>11 DEF OnTheWay

LEMMA BuildChainKeepsGood ==
  ASSUME Walking, Unambiguous, OnTheWay, BuildChain, UNCHANGED evidence
  PROVE  \/ path' = "building" /\ OnTheWay'
         \/ path' = "built" /\ PathStands'
<1>1. PICK p \in PathsFrom(chain[1]) : GoodPath(p) /\ Begins(p)
  BY DEF OnTheWay
<1>2. ~TooDeep
  <2>1. Len(chain) <= Len(p) /\ Len(p) \in 1 .. MaxDepth /\ Len(chain) \in Nat
    BY <1>1, PathIsKnown, ChainIsKnown DEF Begins
  <2>. QED
    BY <2>1, MaxDepthAssumption DEF TooDeep
<1>3. CASE AnchorReached
  <2>1. PathStands /\ path' = "built" /\ UNCHANGED chain
    BY <1>1, <1>3, GoodPathReachesAnchor DEF AnchorReached, EndBuilding
  <2>. QED
    BY <2>1, PathKeepsStanding
<1>4. ~NoMatchingIssuer
  <2>. SUFFICES ASSUME NoMatchingIssuer  PROVE FALSE
    OBVIOUS
  <2>1. p[Len(chain) + 1].subject = Issuer /\ p[Len(chain) + 1] \in ToSet(bag)
    BY <1>1, GoodPathGoesOn DEF NoMatchingIssuer, Climbing
  <2>. QED
    BY <2>1 DEF NoMatchingIssuer, Bearers, ToSet
<1>5. ~Cycle
  BY <1>1, GoodPathHasNoCycle DEF Cycle, Climbing, OnTheWay
<1>6. CASE PushParent
  BY <1>6, PushParentKeepsOnTheWay DEF PushParent, Climbing, Turn
<1>. QED
  BY <1>2, <1>3, <1>4, <1>5, <1>6 DEF BuildChain

LEMMA CheckPathKeepsGoodAtHand ==
  ASSUME PathInv, SignerInv, GoodAtHand, CheckPath
  PROVE  GoodAtHand'
<1>1. UNCHANGED <<evidence, results, clockOk>>
  BY DEF CheckPath, verifyArguments, ValidateChain, BuildChain, TooDeep, AnchorReached,
         NoMatchingIssuer, Cycle, PushParent, ValidatePath, AskRevocation, Accept, EndBuilding,
         chainArguments, evidence
<1>2. path \in {"building", "built", "validated"}
  BY DEF CheckPath, ValidateChain, BuildChain, TooDeep, AnchorReached, NoMatchingIssuer, Cycle,
         PushParent, Climbing, Turn, ValidatePath, AskRevocation, Accept
<1>. SUFFICES ASSUME Clear', Good(Info)'
     PROVE  \/ path' = "building" /\ OnTheWay'
            \/ path' \in {"built", "validated", "trusted"} /\ PathStands'
  BY DEF GoodAtHand
<1>3. Clear /\ Good(Info)
  BY <1>1, EvidenceKeepsQuestion
<1>4. \/ path = "building" /\ OnTheWay
      \/ path \in {"built", "validated", "trusted"} /\ PathStands
  BY <1>2, <1>3 DEF GoodAtHand
<1>5. Walking
  BY <1>2, SignerWalks DEF SignerInv
<1>6. CASE path = "building"
  <2>1. BuildChain
    BY <1>6 DEF CheckPath, ValidateChain, ValidatePath, AskRevocation, Accept
  <2>. QED
    BY <1>1, <1>3, <1>4, <1>5, <1>6, <2>1, BuildChainKeepsGood DEF Clear
<1>7. CASE path = "built"
  <2>1. ValidatePath
    BY <1>7 DEF CheckPath, ValidateChain, BuildChain, TooDeep, AnchorReached, NoMatchingIssuer,
                Cycle, PushParent, Climbing, Turn, AskRevocation, Accept
  <2>2. Convertible /\ clockOk
    BY <1>3, <1>5, ChainIsKnown DEF Convertible, Clear, Known
  <2>3. PathStands
    BY <1>4, <1>7
  <2>4. path' = "validated" /\ UNCHANGED chain
    BY <2>1, <2>2, <2>3 DEF ValidatePath, EndBuilding, PathStands
  <2>. QED
    BY <1>1, <2>3, <2>4, PathKeepsStanding
<1>8. CASE path = "validated"
  <2>1. AskRevocation \/ Accept
    BY <1>8 DEF CheckPath, ValidateChain, BuildChain, TooDeep, AnchorReached, NoMatchingIssuer,
                Cycle, PushParent, Climbing, Turn, ValidatePath
  <2>2. PathStands
    BY <1>4, <1>8
  <2>3. UNCHANGED chain /\ path' \in {"validated", "trusted"}
    <3>1. CASE Accept
      BY <3>1 DEF Accept, EndBuilding
    <3>2. CASE AskRevocation
      <4>1. asked + 1 \in DOMAIN chain
        BY <1>5, <3>2, ChainIsKnown DEF AskRevocation, PathInv, AskedInRange
      <4>2. chain[asked + 1] \notin revoked
        BY <2>2, <4>1 DEF PathStands
      <4>. QED
        BY <1>8, <3>2, <4>2 DEF AskRevocation
    <3>. QED
      BY <2>1, <3>1, <3>2
  <2>. QED
    BY <1>1, <2>2, <2>3, PathKeepsStanding
<1>. QED
  BY <1>2, <1>6, <1>7, <1>8

\* A signer whose signature is good ends as verified.
LEMMA ConcludeKeepsGood ==
  ASSUME SignerInv, GoodInv, NEW ok \in BOOLEAN, Conclude(ok), Clear /\ Good(Info) => ok
  PROVE  GoodInv'
<1>1. /\ UNCHANGED <<evidence, clockOk>>
      /\ results' = Append(results, Result(ok))
      /\ path' = "idle"
  BY DEF Conclude, evidence, verifyArguments, chainArguments
<1>2. PICK S : results \in Seq(S)
  BY DEF SignerInv, ResultsAreSequence
<1>3. results \in Seq(S \cup {Result(ok)})
  BY <1>2
<1>4. BagIsSequence' /\ GoodAtHand'
  BY <1>1 DEF GoodInv, BagIsSequence, GoodAtHand, evidence
<1>5. GoodIsVerified'
  <2>. SUFFICES ASSUME Clear', NEW i \in DOMAIN results', Good(signed.infos[i])'
       PROVE  results'[i].verified
    BY DEF GoodIsVerified
  <2>1. Clear
    BY <1>1, EvidenceKeepsClear
  <2>2. Good(signed.infos[i])
    <3>1. PICK info : info = signed.infos[i]
      OBVIOUS
    <3>2. info = signed'.infos[i]
      BY <1>1, <3>1 DEF evidence
    <3>3. Good(info)'
      BY <3>2 DEF Good
    <3>4. Good(info)
      BY <1>1, <3>3, EvidenceKeepsGood
    <3>. QED
      BY <3>1, <3>4
  <2>3. CASE i \in DOMAIN results
    <3>1. results'[i] = results[i]
      BY <1>1, <1>2, <2>3
    <3>2. results[i].verified
      BY <2>1, <2>2, <2>3 DEF GoodInv, GoodIsVerified
    <3>. QED
      BY <3>1, <3>2
  <2>4. CASE i \notin DOMAIN results
    <3>1. i = Len(results) + 1 /\ results'[i] = Result(ok)
      BY <1>1, <1>2, <1>3, <2>4
    <3>2. ok
      BY <2>1, <2>2, <3>1 DEF Info
    <3>. QED
      BY <3>1, <3>2 DEF Result
  <2>. QED
    BY <2>3, <2>4
<1>. QED
  BY <1>4, <1>5 DEF GoodInv

\* GoodIsVerified is judged by what it was.
LEMMA EvidenceKeepsGoodIsVerified ==
  ASSUME GoodIsVerified, UNCHANGED <<evidence, results, clockOk>>
  PROVE  GoodIsVerified'
<1>. SUFFICES ASSUME Clear', NEW i \in DOMAIN results', Good(signed.infos[i])'
     PROVE  results'[i].verified
  BY DEF GoodIsVerified
<1>1. PICK info : info = signed.infos[i]
  OBVIOUS
<1>2. info = signed'.infos[i]
  BY <1>1 DEF evidence
<1>3. Good(info)'
  BY <1>2 DEF Good
<1>4. Good(signed.infos[i])
  BY <1>1, <1>3, EvidenceKeepsGood
<1>. QED
  BY <1>4, EvidenceKeepsClear DEF GoodIsVerified

LEMMA GoodInvUnchanged ==
  ASSUME GoodInv, UNCHANGED <<evidence, results, clockOk, chain, path>>
  PROVE  GoodInv'
<1>1. BagIsSequence'
  BY DEF GoodInv, BagIsSequence, evidence
<1>2. GoodAtHand'
  <2>. SUFFICES ASSUME Clear', path # "idle", Good(Info)'
       PROVE  \/ path' = "building" /\ OnTheWay'
              \/ path' \in {"built", "validated", "trusted"} /\ PathStands'
    BY DEF GoodAtHand
  <2>1. \/ path = "building" /\ OnTheWay
        \/ path \in {"built", "validated", "trusted"} /\ PathStands
    BY EvidenceKeepsQuestion DEF GoodInv, GoodAtHand
  <2>2. ASSUME OnTheWay  PROVE OnTheWay'
    <3>1. NoAnchorPassed'
      BY <2>2 DEF OnTheWay, NoAnchorPassed, SubjectsOf, evidence
    <3>2. PICK p \in PathsFrom(chain[1]) : GoodPath(p) /\ Begins(p)
      BY <2>2 DEF OnTheWay
    <3>3. p \in PathsFrom(chain[1])'
      BY <3>2 DEF PathsFrom, evidence
    <3>4. GoodPath(p)' /\ Begins(p)'
      BY <3>2 DEF GoodPath, Begins, Linked, Signed, evidence
    <3>. QED
      BY <3>1, <3>3, <3>4 DEF OnTheWay
  <2>. QED
    BY <2>1, <2>2, PathKeepsStanding
<1>3. GoodIsVerified'
  BY EvidenceKeepsGoodIsVerified DEF GoodInv
<1>. QED
  BY <1>1, <1>2, <1>3 DEF GoodInv

LEMMA VerifyKeepsGoodInv ==
  ASSUME PathInv, SignerInv, GoodInv, VerifyNext
  PROVE  GoodInv'
<1>1. CASE Refuse \/ Return
  BY <1>1, GoodInvUnchanged DEF Refuse, Return, evidence, verifyArguments, chainArguments
<1>2. CASE FailSigner
  <2>1. ~(Clear /\ Good(Info))
    <3>. SUFFICES ASSUME Clear, Good(Info)  PROVE FALSE
      OBVIOUS
    <3>1. PICK cert \in Known : Candidates = {cert} /\ SignerSound(cert, Info)
      BY GoodHasOneCandidate DEF GoodInv, Clear
    <3>. QED
      BY <1>2, <3>1 DEF FailSigner
  <2>. QED
    BY <1>2, <2>1, ConcludeKeepsGood DEF FailSigner
<1>3. CASE StartPath \/ CheckPath
  <2>1. UNCHANGED <<evidence, results, clockOk>>
    BY <1>3
       DEF StartPath, StartChain, CheckPath, verifyArguments, ValidateChain, BuildChain, TooDeep,
           AnchorReached, NoMatchingIssuer, Cycle, PushParent, ValidatePath, AskRevocation, Accept,
           EndBuilding, chainArguments, evidence
  <2>2. BagIsSequence' /\ GoodIsVerified'
    BY <2>1, EvidenceKeepsGoodIsVerified DEF GoodInv, BagIsSequence, evidence
  <2>3. GoodAtHand'
    BY <1>3, StartPathKeepsGoodAtHand, CheckPathKeepsGoodAtHand DEF GoodInv
  <2>. QED
    BY <2>2, <2>3 DEF GoodInv
<1>4. CASE EndPath
  <2>1. Conclude(path = "trusted") /\ path \in ChainErrors \cup {"trusted"}
    BY <1>4 DEF EndPath
  <2>2. Clear /\ Good(Info) => path = "trusted"
    BY <2>1 DEF GoodInv, GoodAtHand, ChainErrors
  <2>. QED
    BY <2>1, <2>2, ConcludeKeepsGood
<1>. QED
  BY <1>1, <1>2, <1>3, <1>4 DEF VerifyNext

\* What is taken from the certificates of a message is a sequence.
LEMMA TakenIsSequence ==
  ASSUME NEW S, NEW s \in Seq(S)
  PROVE  /\ Taken(s) \in Seq(S)
         /\ Len(s) <= MaxBagCerts => Taken(s) = s
<1>. DEFINE n == IF Len(s) > MaxBagCerts THEN MaxBagCerts ELSE Len(s)
<1>1. n \in Nat /\ n <= Len(s) /\ (Len(s) <= MaxBagCerts => n = Len(s))
  BY LimitsAssumption, LenProperties
<1>2. \A i \in 1 .. n : s[i] \in S
  BY <1>1
<1>3. /\ SubSeq(s, 1, n) \in Seq(S)
      /\ Len(SubSeq(s, 1, n)) = IF 1 <= n THEN n - 1 + 1 ELSE 0
      /\ \A i \in 1 .. n - 1 + 1 : SubSeq(s, 1, n)[i] = s[1 + i - 1]
  <2>. HIDE DEF n
  <2>. QED
    BY <1>1, <1>2, SubSeqProperties
<1>4. Taken(s) = SubSeq(s, 1, n)
  BY DEF Taken
<1>5. n = Len(s) => SubSeq(s, 1, n) = s
  <2>. SUFFICES ASSUME n = Len(s)  PROVE SubSeq(s, 1, n) = s
    OBVIOUS
  <2>. HIDE DEF n
  <2>1. Len(SubSeq(s, 1, n)) = Len(s)
    BY <1>1, <1>3
  <2>2. \A i \in 1 .. Len(s) : SubSeq(s, 1, n)[i] = s[i]
    BY <1>1, <1>3
  <2>. QED
    BY <1>3, <2>1, <2>2, SeqEqual
<1>. QED
  BY <1>1, <1>3, <1>4, <1>5

LEMMA GoodInvInitially == Init => GoodInv
<1>. SUFFICES ASSUME Init  PROVE GoodInv
  OBVIOUS
<1>1. results = <<>> /\ path = "idle" /\ bag = Taken(signed.certs)
  BY DEF Init, VerifyInit
<1>2. signed.certs \in Seq(ToSet(signed.certs))
  <2>1. CASE signed = NoSignature
    BY <2>1 DEF NoSignature, ToSet
  <2>2. CASE signed \in Foreign
    BY <2>2, ForeignAssumption
  <2>. QED
    BY <2>1, <2>2 DEF Init
<1>3. BagIsSequence
  BY <1>1, <1>2, TakenIsSequence DEF BagIsSequence
<1>. QED
  BY <1>1, <1>3 DEF GoodInv, GoodAtHand, GoodIsVerified

-----------------------------------------------------------------------------
(***************************************************************************)
(* What sign() has built so far: one SignerInfo for each key it came to,   *)
(* and the certificates of these keys.                                     *)
(***************************************************************************)
KeysAreRead ==
  /\ keys \in Seq(ToSet(keys))
  /\ \A i \in DOMAIN keys : keys[i].prefers \in Digests \cup {Nothing}

SignedSoFar ==
  /\ \E S : infos \in Seq(S)
  /\ Len(infos) <= Len(keys)
  /\ certs = {keys[i].cert : i \in 1 .. Len(infos)}
  /\ \A i \in 1 .. Len(infos) :
       \E sid \in Sids(keys[i].cert) : infos[i] = SignerInfo(keys[i], sid)

AllSigned == call = "Ok" => Len(infos) = Len(keys) /\ keys # <<>>

SignInv == KeysAreRead /\ SignedSoFar /\ AllSigned

LEMMA SignInvInitially == Init => SignInv
<1>. SUFFICES ASSUME Init  PROVE SignInv
  OBVIOUS
<1>1. infos = <<>> /\ certs = {} /\ call = "signing"
  BY DEF Init, SignInit
<1>2. KeysAreRead
  <2>1. CASE keys = <<>>
    BY <2>1 DEF KeysAreRead, ToSet
  <2>2. CASE keys \in KeyLists
    BY <2>2, KeyListsAssumption DEF KeysAreRead
  <2>. QED
    BY <2>1, <2>2 DEF Init
<1>3. SignedSoFar
  <2>1. Len(infos) = 0 /\ \E S : infos \in Seq(S)
    BY <1>1
  <2>2. Len(keys) \in Nat
    BY <1>2 DEF KeysAreRead
  <2>3. certs = {keys[i].cert : i \in 1 .. Len(infos)}
    BY <1>1, <2>1
  <2>. QED
    BY <2>1, <2>2, <2>3 DEF SignedSoFar
<1>. QED
  BY <1>1, <1>2, <1>3 DEF SignInv, AllSigned

LEMMA AddSignerKeepsSignedSoFar ==
  ASSUME SignInv, AddSigner
  PROVE  SignedSoFar'
<1>. DEFINE n == Len(infos)
<1>1. PICK sid \in Sids(Key.cert) : infos' = Append(infos, SignerInfo(Key, sid))
  BY DEF AddSigner
<1>2. Key = keys[n + 1] /\ n < Len(keys) /\ certs' = certs \cup {Key.cert} /\ keys' = keys
  BY DEF AddSigner, Signing, Key
<1>3. PICK S : infos \in Seq(S)
  BY DEF SignInv, SignedSoFar
<1>4. infos \in Seq(S \cup {SignerInfo(Key, sid)})
  BY <1>3
<1>5. n \in Nat /\ Len(keys) \in Nat
  BY <1>3 DEF SignInv, KeysAreRead
<1>6. /\ infos' \in Seq(S \cup {SignerInfo(Key, sid)})
      /\ Len(infos') = n + 1
      /\ \A i \in 1 .. n : infos'[i] = infos[i]
      /\ infos'[n + 1] = SignerInfo(Key, sid)
  BY <1>1, <1>4
<1>7. certs' = {keys[i].cert : i \in 1 .. n + 1}
  <2>1. certs = {keys[i].cert : i \in 1 .. n}
    BY DEF SignInv, SignedSoFar
  <2>. HIDE DEF n
  <2>. QED
    BY <1>2, <1>5, <2>1
<1>8. \A i \in 1 .. n + 1 : \E s \in Sids(keys[i].cert) : infos'[i] = SignerInfo(keys[i], s)
  <2>. SUFFICES ASSUME NEW i \in 1 .. n + 1
       PROVE  \E s \in Sids(keys[i].cert) : infos'[i] = SignerInfo(keys[i], s)
    OBVIOUS
  <2>1. CASE i = n + 1
    <3>1. keys[i] = Key /\ infos'[i] = SignerInfo(Key, sid)
      BY <1>2, <1>6, <2>1
    <3>. QED
      BY <3>1
  <2>2. CASE i # n + 1
    <3>1. i \in 1 .. n
      BY <1>5, <2>2
    <3>. QED
      BY <1>6, <3>1 DEF SignInv, SignedSoFar
  <2>. QED
    BY <2>1, <2>2
<1>9. n + 1 <= Len(keys)
  BY <1>2, <1>5
<1>10. \A i \in 1 .. Len(infos') :
         \E s \in Sids(keys'[i].cert) : infos'[i] = SignerInfo(keys'[i], s)
  BY <1>2, <1>6, <1>8
<1>. QED
  BY <1>2, <1>6, <1>7, <1>9, <1>10 DEF SignedSoFar, SignerInfo, Sids

LEMMA SignInvUnchanged ==
  ASSUME SignInv, UNCHANGED <<keys, infos, certs>>, call' = call \/ call' # "Ok"
  PROVE  SignInv'
  BY DEF SignInv, KeysAreRead, SignedSoFar, AllSigned, SignerInfo, Sids

LEMMA SignInvInductive == SignInv /\ [Next]_vars => SignInv'
<1>. SUFFICES ASSUME SignInv, [Next]_vars  PROVE SignInv'
  OBVIOUS
<1>1. CASE Sign
  <2>1. CASE AddSigner
    <3>1. SignedSoFar'
      BY <2>1, AddSignerKeepsSignedSoFar
    <3>2. KeysAreRead' /\ AllSigned'
      BY <2>1 DEF AddSigner, Signing, SignInv, KeysAreRead, AllSigned
    <3>. QED
      BY <3>1, <3>2 DEF SignInv
  <2>2. CASE FailToSign
    <3>1. call' # "Ok" /\ UNCHANGED <<keys, infos, certs>>
      BY <2>2 DEF FailToSign
    <3>. QED
      BY <3>1, SignInvUnchanged
  <2>3. CASE NoKeys
    BY <2>3, SignInvUnchanged DEF NoKeys
  <2>4. CASE Assemble
    <3>1. keys # <<>> /\ Len(infos) = Len(keys) /\ UNCHANGED <<keys, infos, certs>>
      BY <2>4 DEF Assemble
    <3>2. KeysAreRead' /\ SignedSoFar'
      BY <3>1 DEF SignInv, KeysAreRead, SignedSoFar, SignerInfo, Sids
    <3>. QED
      BY <3>1, <3>2 DEF SignInv, AllSigned
  <2>. QED
    BY <1>1, <2>1, <2>2, <2>3, <2>4 DEF Sign, SignNext
<1>2. CASE ~Sign
  BY <1>2, SignInvUnchanged DEF Next, Deliver, Verify, vars, signVars
<1>. QED
  BY <1>1, <1>2

\* So many values, however many of them are the same.
LEMMA ImageOfSequence ==
  ASSUME NEW n \in Nat, NEW f, DOMAIN f = 1 .. n, f = [i \in 1 .. n |-> f[i]]
  PROVE  /\ IsFiniteSet({f[i] : i \in 1 .. n})
         /\ Cardinality({f[i] : i \in 1 .. n}) \in Nat
         /\ Cardinality({f[i] : i \in 1 .. n}) <= n
<1>. DEFINE T == {f[i] : i \in 1 .. n}
<1>1. f \in [1 .. n -> T] /\ \A t \in T : \E i \in 1 .. n : f[i] = t
  OBVIOUS
<1>2. f \in Surjection(1 .. n, T)
  BY <1>1 DEF Surjection
<1>3. IsFiniteSet(1 .. n) /\ Cardinality(1 .. n) = n
  BY FS_Interval
<1>4. IsFiniteSet(T) /\ Cardinality(T) <= Cardinality(1 .. n)
  <2>. HIDE DEF T
  <2>. QED
    BY <1>2, <1>3, FS_Surjection
<1>. QED
  BY <1>3, <1>4, FS_CardinalityType

LEMMA CertificatesAreFew ==
  ASSUME SignInv
  PROVE  IsFiniteSet(certs) /\ Cardinality(certs) \in Nat /\ Cardinality(certs) <= Len(infos)
<1>. DEFINE n == Len(infos)
            f == [i \in 1 .. n |-> keys[i].cert]
<1>1. n \in Nat
  BY DEF SignInv, SignedSoFar
<1>2. certs = {f[i] : i \in 1 .. n}
  BY DEF SignInv, SignedSoFar
<1>3. DOMAIN f = 1 .. n /\ f = [i \in 1 .. n |-> f[i]]
  OBVIOUS
<1>. HIDE DEF f
<1>. QED
  BY <1>1, <1>2, <1>3, ImageOfSequence

\* An order of a finite set is a sequence of what is in it.
LEMMA OrderIsSequence ==
  ASSUME NEW T, IsFiniteSet(T), NEW s \in SetToSeqs(T)
  PROVE  s \in Seq(T) /\ Len(s) = Cardinality(T) /\ ToSet(s) = T
<1>. DEFINE n == Cardinality(T)
<1>1. n \in Nat
  BY FS_CardinalityType
<1>2. s \in [1 .. n -> T] /\ \A i, j \in 1 .. n : i # j => s[i] # s[j]
  BY DEF SetToSeqs
<1>3. s \in Seq(T) /\ Len(s) = n
  BY <1>1, <1>2
<1>4. s \in Injection(1 .. n, T)
  BY <1>2 DEF Injection, IsInjective
<1>5. s \in Surjection(1 .. n, T)
  <2>1. IsFiniteSet(1 .. n) /\ Cardinality(1 .. n) = n
    BY <1>1, FS_Interval
  <2>. QED
    BY <1>4, <2>1, FS_Injection
<1>6. ToSet(s) = T
  BY <1>2, <1>5 DEF Surjection, ToSet
<1>. QED
  BY <1>3, <1>6

-----------------------------------------------------------------------------
LEMMA DeliveredCertificates ==
  ASSUME SignInv, NEW s \in SetToSeqs(certs)
  PROVE  /\ s \in Seq(certs)
         /\ Taken(s) \in Seq(certs)
         /\ Len(infos) <= MaxBagCerts => ToSet(Taken(s)) = certs
<1>1. s \in Seq(certs) /\ Len(s) <= Len(infos) /\ Len(s) \in Nat /\ ToSet(s) = certs
  BY CertificatesAreFew, OrderIsSequence
<1>2. Len(infos) \in Nat
  BY DEF SignInv, SignedSoFar
<1>3. Len(infos) <= MaxBagCerts => Len(s) <= MaxBagCerts
  BY <1>1, <1>2, LimitsAssumption
<1>. QED
  BY <1>1, <1>3, TakenIsSequence

LEMMA GoodInvInductive == PathInv /\ SignerInv /\ SignInv /\ GoodInv /\ [Next]_vars => GoodInv'
<1>. SUFFICES ASSUME PathInv, SignerInv, SignInv, GoodInv, [Next]_vars  PROVE GoodInv'
  OBVIOUS
<1>1. CASE Sign
  BY <1>1, GoodInvUnchanged DEF Sign, evidence, chainArguments
<1>2. CASE Deliver
  <2>1. results = <<>> /\ path = "idle" /\ UNCHANGED <<results, path>>
    BY <1>2 DEF Deliver, SignerInv, NoMessageYet
  <2>2. BagIsSequence'
    BY <1>2, DeliveredCertificates DEF Deliver, BagIsSequence
  <2>. QED
    BY <2>1, <2>2 DEF GoodInv, GoodAtHand, GoodIsVerified
<1>3. CASE Verify
  BY <1>3, VerifyKeepsGoodInv DEF Verify
<1>4. CASE UNCHANGED vars
  BY <1>4, GoodInvUnchanged DEF vars, evidence
<1>. QED
  BY <1>1, <1>2, <1>3, <1>4 DEF Next

(***************************************************************************)
(* What the three invariants above and what is left of them say together.  *)
(***************************************************************************)
THEOREM SignatureInvariance == Spec => [](PathInv /\ SignerInv /\ SignInv /\ GoodInv)
<1>1. Spec => []SignerInv
  BY SignerInvInitially, SignerInvInductive, PathInvariance, PTL DEF Spec
<1>2. Spec => []SignInv
  BY SignInvInitially, SignInvInductive, PTL DEF Spec
<1>. QED
  BY <1>1, <1>2, GoodInvInitially, GoodInvInductive, PathInvariance, PTL DEF Spec

(***************************************************************************)
(* Every good signature is verified when names are unambiguous, at any     *)
(* depth, behind any number of other signers (cert.rs:138-187).            *)
(***************************************************************************)
THEOREM GoodSignersAreVerified == Spec => []GoodIsVerified
  BY SignatureInvariance, PTL DEF GoodInv

-----------------------------------------------------------------------------
(***************************************************************************)
(* What has been delivered is what was signed, and the verdict is about    *)
(* all of it.                                                              *)
(***************************************************************************)
Delivered ==
  Own =>
    /\ signed.type = "data" /\ ~signed.econtent
    /\ ToSet(signed.infos) = ToSet(infos)
    /\ Len(signed.infos) \in 1 .. Len(keys)
    /\ DOMAIN signed.infos = 1 .. Len(signed.infos)
    /\ Len(keys) <= MaxBagCerts => ToSet(bag) = certs

Concluded ==
  Decided /\ Refused = Nothing =>
    /\ Len(results) = Len(signed.infos)
    /\ verdict = IF results = <<>> THEN "MalformedInput"
                 ELSE IF Verified = {} THEN "AllSignersFailed" ELSE "Ok"

NotDecidedYet == Decided => signed # NoSignature

OutcomeInv == Delivered /\ Concluded /\ NotDecidedYet

LEMMA OutcomeInvInitially == Init => OutcomeInv
  BY DEF Init, SignInit, VerifyInit, OutcomeInv, Delivered, Concluded, NotDecidedYet, Own, Decided

LEMMA OutcomeInvUnchanged ==
  ASSUME OutcomeInv, UNCHANGED <<keys, infos, certs, bag, signed, results, verdict>>,
         call' = call \/ signed = NoSignature
  PROVE  OutcomeInv'
<1>1. Delivered'
  BY DEF OutcomeInv, Delivered, Own, NoSignature
<1>2. Concluded'
  <2>1. Refused' = Refused
    BY Zenon DEF Refused, FirstFailure, SelectInSeq, SignedDataChecks
  <2>. QED
    BY <2>1 DEF OutcomeInv, Concluded, Decided, Verified
<1>3. NotDecidedYet'
  BY DEF OutcomeInv, NotDecidedYet, Decided, NoSignature
<1>. QED
  BY <1>1, <1>2, <1>3 DEF OutcomeInv

LEMMA DeliverKeepsOutcomeInv ==
  ASSUME SignInv, OutcomeInv, Deliver
  PROVE  OutcomeInv'
<1>1. PICK inOrder \in SetToSeqs(ToSet(infos)), certsInOrder \in SetToSeqs(certs) :
        /\ signed' = [type |-> "data", econtent |-> FALSE, certs |-> certsInOrder,
                      infos |-> inOrder]
        /\ bag' = Taken(certsInOrder)
  BY DEF Deliver
<1>2. call = "Ok" /\ signed = NoSignature /\ UNCHANGED <<keys, infos, certs, call, verdict>>
  BY DEF Deliver
<1>3. Len(infos) = Len(keys) /\ keys # <<>>
  BY <1>2 DEF SignInv, AllSigned
<1>4. Len(keys) \in Nat \ {0}
  BY <1>3 DEF SignInv, KeysAreRead
<1>5. IsFiniteSet(ToSet(infos)) /\ Cardinality(ToSet(infos)) \in 1 .. Len(keys)
  <2>1. PICK S : infos \in Seq(S)
    BY DEF SignInv, SignedSoFar
  <2>2. /\ DOMAIN infos = 1 .. Len(keys)
        /\ infos = [i \in 1 .. Len(keys) |-> infos[i]]
    BY <1>3, <2>1
  <2>3. ToSet(infos) = {infos[i] : i \in 1 .. Len(keys)}
    BY <2>2 DEF ToSet
  <2>4. /\ IsFiniteSet(ToSet(infos)) /\ Cardinality(ToSet(infos)) \in Nat
        /\ Cardinality(ToSet(infos)) <= Len(keys)
    <3>1. PICK n \in Nat : n = Len(keys)
      BY <1>4
    <3>. QED
      BY <2>2, <2>3, <3>1, ImageOfSequence
  <2>5. ToSet(infos) # {}
    <3>1. 1 \in 1 .. Len(keys)
      BY <1>4
    <3>. QED
      BY <2>3, <3>1
  <2>6. Cardinality(ToSet(infos)) # 0
    BY <2>4, <2>5, FS_EmptySet
  <2>. QED
    BY <1>4, <2>4, <2>6
<1>6. /\ inOrder \in Seq(ToSet(infos))
      /\ Len(inOrder) \in 1 .. Len(keys)
      /\ ToSet(inOrder) = ToSet(infos)
  BY <1>5, OrderIsSequence
<1>7. DOMAIN inOrder = 1 .. Len(inOrder)
  BY <1>6
<1>8. Len(keys) <= MaxBagCerts => ToSet(bag') = certs
  BY <1>1, <1>3, DeliveredCertificates
<1>9. Delivered'
  BY <1>1, <1>2, <1>6, <1>7, <1>8 DEF Delivered
<1>10. Concluded' /\ NotDecidedYet'
  BY <1>2 DEF OutcomeInv, Concluded, NotDecidedYet, Decided
<1>. QED
  BY <1>9, <1>10 DEF OutcomeInv

LEMMA VerifyKeepsOutcomeInv ==
  ASSUME SignerInv, OutcomeInv, Verify
  PROVE  OutcomeInv'
<1>1. /\ UNCHANGED <<keys, infos, certs, call, bag, signed>>
      /\ signed # NoSignature /\ VerifyNext
  BY DEF Verify, VerifyNext, Refuse, FailSigner, StartPath, StartChain, CheckPath, EndPath, Return,
         Conclude, ValidateChain, BuildChain, TooDeep, AnchorReached, NoMatchingIssuer, Cycle,
         PushParent, ValidatePath, AskRevocation, Accept, EndBuilding, chainArguments,
         verifyArguments
<1>2. Delivered' /\ NotDecidedYet'
  BY <1>1 DEF OutcomeInv, Delivered, NotDecidedYet, Own, NoSignature
<1>3. Refused' = Refused
  BY <1>1, Zenon DEF Refused, FirstFailure, SelectInSeq, SignedDataChecks
<1>4. Concluded'
  <2>1. CASE Refuse
    BY <1>3, <2>1 DEF Refuse, Concluded
  <2>2. CASE FailSigner \/ EndPath
    <3>1. verdict' = "pending"
      BY <2>2 DEF FailSigner, EndPath, Conclude, Checking
    <3>. QED
      BY <3>1 DEF Concluded, Decided
  <2>3. CASE Return
    BY <1>1, <2>3 DEF Return, Concluded, Verified
  <2>4. CASE StartPath \/ CheckPath
    <3>1. UNCHANGED <<results, verdict>>
      BY <2>4 DEF StartPath, CheckPath
    <3>. QED
      BY <1>1, <1>3, <3>1 DEF OutcomeInv, Concluded, Decided, Verified
  <2>. QED
    BY <1>1, <2>1, <2>2, <2>3, <2>4 DEF VerifyNext
<1>. QED
  BY <1>2, <1>4 DEF OutcomeInv

LEMMA OutcomeInvInductive == SignerInv /\ SignInv /\ OutcomeInv /\ [Next]_vars => OutcomeInv'
<1>. SUFFICES ASSUME SignerInv, SignInv, OutcomeInv, [Next]_vars  PROVE OutcomeInv'
  OBVIOUS
<1>1. CASE Sign
  <2>1. signed = NoSignature /\ UNCHANGED <<bag, signed, results, verdict>>
    BY <1>1 DEF Sign, chainArguments
  <2>2. ~Own'
    BY <2>1 DEF Own, NoSignature
  <2>3. ~Decided /\ ~Decided'
    BY <2>1 DEF OutcomeInv, NotDecidedYet, Decided
  <2>. QED
    BY <2>2, <2>3 DEF OutcomeInv, Delivered, Concluded, NotDecidedYet
<1>2. CASE Deliver
  BY <1>2, DeliverKeepsOutcomeInv
<1>3. CASE Verify
  BY <1>3, VerifyKeepsOutcomeInv
<1>4. CASE UNCHANGED vars
  BY <1>4, OutcomeInvUnchanged DEF vars, signVars
<1>. QED
  BY <1>1, <1>2, <1>3, <1>4 DEF Next

(***************************************************************************)
(* What sign() made with a supported key is good for a reader whose anchor *)
(* issued its certificate.                                                 *)
(***************************************************************************)
LEMMA SupportedScheme ==
  ASSUME NEW k, Supported(k), k.prefers \in Digests \cup {Nothing}
  PROVE  /\ Digest(k) \in Digests
         /\ <<k.cert.key, Digest(k)>> \in Supports
         /\ SignatureAlgorithm(k.cert, Digest(k)) \in Names(<<k.cert.key, Digest(k)>>, Digest(k))
<1>1. Digest(k) \in Digests
  <2>1. DefaultDigest(k.cert) \in Digests
    BY Zenon DEF DefaultDigest, Digests
  <2>. QED
    BY <2>1 DEF Digest
<1>2. CASE k.cert.key = "RSA"
  <2>1. SignatureAlgorithm(k.cert, Digest(k)) = <<"RSA", Digest(k)>>
    BY <1>2, Zenon DEF SignatureAlgorithm
  <2>. QED
    BY <1>1, <1>2, <2>1 DEF Supports, Names
<1>3. CASE k.cert.key = "P-256"
  <2>1. Digest(k) = "sha256"
    BY <1>3 DEF Supported
  <2>2. SignatureAlgorithm(k.cert, Digest(k)) = <<"ecdsa", "sha256">>
    BY <1>3, <2>1 DEF SignatureAlgorithm
  <2>. QED
    BY <1>1, <1>3, <2>1, <2>2 DEF Supports, Names
<1>4. CASE k.cert.key = "P-384"
  <2>1. Digest(k) = "sha384"
    BY <1>4 DEF Supported
  <2>2. SignatureAlgorithm(k.cert, Digest(k)) = <<"ecdsa", "sha384">>
    BY <1>4, <2>1 DEF SignatureAlgorithm
  <2>. QED
    BY <1>1, <1>4, <2>1, <2>2 DEF Supports, Names
<1>5. k.cert.key \in {"RSA", "P-256", "P-384"}
  BY DEF Supported
<1>. QED
  BY <1>2, <1>3, <1>4, <1>5

LEMMA SignedIsGood ==
  ASSUME NEW k, NEW sid \in Sids(k.cert), k.cert \in ToSet(bag), content = Bytes,
         k.prefers \in Digests \cup {Nothing}, Supported(k), GoodPath(<<k.cert>>)
  PROVE  Good(SignerInfo(k, sid))
<1>. DEFINE info == SignerInfo(k, sid)
<1>1. /\ info.sid = sid /\ info.digest = Digest(k)
      /\ info.attrs = SignedAttributes(Digest(k))
      /\ info.sigAlg = SignatureAlgorithm(k.cert, Digest(k))
      /\ info.sig = KeySigns(k, Digest(k))
  BY DEF SignerInfo
<1>2. /\ info.sig.pub = k.cert.pub
      /\ info.sig.scheme = <<k.cert.key, Digest(k)>>
      /\ info.sig.over = info.attrs
  BY <1>1 DEF KeySigns
<1>3. info.attrs.contentType = "data" /\ info.attrs.digest = <<info.digest, content>>
  BY <1>1 DEF SignedAttributes
<1>4. info.attrs # Nothing /\ info.digest \in Digests
  BY <1>1, SupportedScheme, AttributesAssumption DEF SignedAttributes
<1>5. IsNamedBy(k.cert, sid)
  BY DEF IsNamedBy, Sids
<1>. HIDE DEF info
<1>6. GoodSignature(k.cert, info)
  BY <1>1, <1>2, <1>3, SupportedScheme DEF GoodSignature
<1>7. <<k.cert>> \in PathsFrom(k.cert)
  <2>1. 1 \in 1 .. MaxDepth
    BY MaxDepthAssumption DEF GoodPath
  <2>2. <<k.cert>> \in [1 .. 1 -> ToSet(bag) \cup {k.cert}] /\ <<k.cert>>[1] = k.cert
    OBVIOUS
  <2>. QED
    BY <2>1, <2>2 DEF PathsFrom
<1>8. Good(info)
  BY <1>1, <1>4, <1>5, <1>6, <1>7 DEF Good
<1>. QED
  BY <1>8 DEF info

LEMMA SelectsNone ==
  ASSUME NEW checks, \A i \in 1 .. Len(checks) : checks[i][1]
  PROVE  FirstFailure(checks) = Nothing
  BY Zenon DEF FirstFailure, SelectInSeq

LEMMA OutcomeMakesSignedVerified ==
  ASSUME SignerInv, SignInv, GoodInv, OutcomeInv
  PROVE  SignedIsVerified
<1>. SUFFICES ASSUME Own, Decided, content = Bytes, Clear,
                     Len(keys) <= MaxSignerInfos, Len(keys) <= MaxBagCerts,
                     \A i \in DOMAIN keys : Supported(keys[i]) /\ GoodPath(<<keys[i].cert>>)
     PROVE  verdict = "Ok" /\ AllVerified
  BY DEF SignedIsVerified
<1>1. /\ signed.type = "data" /\ ~signed.econtent
      /\ ToSet(signed.infos) = ToSet(infos)
      /\ Len(signed.infos) \in 1 .. Len(keys)
      /\ DOMAIN signed.infos = 1 .. Len(signed.infos)
      /\ ToSet(bag) = certs
  BY DEF OutcomeInv, Delivered
<1>2. Len(infos) = Len(keys) /\ Len(keys) \in Nat /\ DOMAIN keys = 1 .. Len(keys)
  BY DEF SignInv, AllSigned, KeysAreRead, Own
<1>3. Refused = Nothing
  <2>1. Len(signed.infos) <= MaxSignerInfos
    BY <1>1, <1>2, LimitsAssumption
  <2>2. \A i \in 1 .. Len(SignedDataChecks) : SignedDataChecks[i][1]
    <3>1. /\ SignedDataChecks[1][1] /\ SignedDataChecks[2][1]
          /\ SignedDataChecks[3][1] /\ SignedDataChecks[4][1]
      BY <1>1, <2>1, Zenon DEF SignedDataChecks
    <3>2. 1 .. Len(SignedDataChecks) = {1, 2, 3, 4}
      BY DEF SignedDataChecks
    <3>. QED
      BY <3>1, <3>2
  <2>. QED
    BY <2>2, SelectsNone DEF Refused
<1>4. \A i \in DOMAIN signed.infos : Good(signed.infos[i])
  <2>. SUFFICES ASSUME NEW i \in DOMAIN signed.infos  PROVE Good(signed.infos[i])
    OBVIOUS
  <2>1. PICK j \in DOMAIN infos : signed.infos[i] = infos[j]
    BY <1>1 DEF ToSet
  <2>2. j \in 1 .. Len(infos)
    BY DEF SignInv, SignedSoFar
  <2>3. PICK sid \in Sids(keys[j].cert) : infos[j] = SignerInfo(keys[j], sid)
    BY <2>2 DEF SignInv, SignedSoFar
  <2>4. keys[j].cert \in ToSet(bag)
    BY <1>1, <2>2 DEF SignInv, SignedSoFar
  <2>5. j \in DOMAIN keys /\ keys[j].prefers \in Digests \cup {Nothing}
    BY <1>2, <2>2 DEF SignInv, KeysAreRead
  <2>. QED
    BY <2>1, <2>3, <2>4, <2>5, SignedIsGood
<1>5. /\ Len(results) = Len(signed.infos)
      /\ verdict = IF results = <<>> THEN "MalformedInput"
                   ELSE IF Verified = {} THEN "AllSignersFailed" ELSE "Ok"
  BY <1>3 DEF OutcomeInv, Concluded
<1>6. DOMAIN results = DOMAIN signed.infos /\ 1 \in DOMAIN results
  <2>1. DOMAIN results = 1 .. Len(results)
    BY DEF SignerInv, ResultsAreSequence
  <2>. QED
    BY <1>1, <1>2, <1>5, <2>1
<1>7. \A i \in DOMAIN results : results[i].verified
  BY <1>4, <1>6 DEF GoodInv, GoodIsVerified
<1>8. Verified = DOMAIN results /\ Verified # {} /\ results # <<>>
  BY <1>6, <1>7 DEF Verified
<1>. QED
  BY <1>5, <1>8 DEF AllVerified

(***************************************************************************)
(* What sign() returns, verify() accepts in full, for any number of keys   *)
(* within its limits (sign.rs:57-258, verify.rs:85-165, lib.rs:41).        *)
(***************************************************************************)
THEOREM SignedMessagesAreVerified == Spec => []SignedIsVerified
<1>1. Spec => []OutcomeInv
  BY OutcomeInvInitially, OutcomeInvInductive, SignatureInvariance, PTL DEF Spec
<1>. QED
  BY <1>1, OutcomeMakesSignedVerified, SignatureInvariance, PTL
=============================================================================
