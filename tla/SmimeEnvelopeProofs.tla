------------------------- MODULE SmimeEnvelopeProofs -------------------------
(***************************************************************************)
(* Theorems about SmimeEnvelope, for every list of certificates, every     *)
(* decoded message of other software and every key.                        *)
(***************************************************************************)
EXTENDS SmimeEnvelope, FiniteSetTheorems, SequenceTheorems, DataFacts, TLAPS

(***************************************************************************)
(* The inductive invariant.                                                *)
(***************************************************************************)
\* While nothing has arrived decrypt() has not begun.
Idle ==
  message = NoMessage =>
    next = 1 /\ unsupported = FALSE /\ cek = Nothing /\ outcome = "pending"

(***************************************************************************)
(* The search has passed over nothing but what does not name the key and   *)
(* unsupported key agreements, and has saved whether there were any.       *)
(***************************************************************************)
Passed ==
  /\ next \in 1 .. Len(message.entries) + 1
  /\ \A i \in 1 .. next - 1 : i \in Named => i \in UnsupportedKaris
  /\ unsupported = (\E i \in 1 .. next - 1 : i \in Named)

\* A content key is the one the entry at hand gives, and what comes out is
\* what the content gives with it.
Unwrapped ==
  cek # Nothing =>
    /\ ContentTypeKnown
    /\ next \in Readable
    /\ cek = Result(message.entries[next]).cek
    /\ Decided => outcome \in Outcomes(message.content)

\* Without one the search has ended at its end or, with the error of that entry,
\* at one that names the key and is neither readable nor passed over.
Failed ==
  cek = Nothing /\ Decided /\ ContentTypeKnown =>
    \/ /\ next = Len(message.entries) + 1
       /\ outcome = IF unsupported THEN "UnsupportedAlgorithm" ELSE "NoMatchingRecipient"
    \/ /\ next \in Named
       /\ next \notin Readable \cup UnsupportedKaris
       /\ outcome \in Errors \ {"NoMatchingRecipient"}
       /\ outcome = Result(message.entries[next]).error

Refused == Decided /\ ~ContentTypeKnown => outcome \in Errors

SearchInv == Passed /\ Unwrapped /\ Failed /\ Refused

\* The RecipientInfo that is built for a certificate.
InfoOf(cert) == IF cert.key = "RSA" THEN Ktri(cert) ELSE Kari(cert)

(***************************************************************************)
(* What encrypt() has built so far.                                        *)
(***************************************************************************)
Built ==
  /\ certs \in Seq(Range(certs))
  /\ infos \in Seq(Range(infos))
  /\ Len(infos) <= Len(certs)
  /\ \A i \in DOMAIN infos :
       certs[i].key \in {"RSA"} \cup Curves /\ infos[i] = InfoOf(certs[i])
  /\ call = "begun" => infos = <<>>
  /\ call \in {"wrapping", "Ok"} =>
       content \in {GcmContent(16, "aes128-gcm"), GcmContent(32, "aes256-gcm")}
  /\ call = "Ok" => Len(infos) = Len(certs)

\* A message is the sender's only if it holds what encrypt() built, each
\* RecipientInfo once and in any order.
Delivered ==
  Own =>
    /\ message.content \in {[content EXCEPT !.intact = intact] : intact \in BOOLEAN}
    /\ \A i \in DOMAIN message.entries : \E j \in DOMAIN infos : message.entries[i] = infos[j]
    /\ \A j \in DOMAIN infos : \E i \in DOMAIN message.entries : message.entries[i] = infos[j]

EnvelopeInv == Idle /\ SearchInv /\ Decoded(message) /\ Built /\ Delivered

-----------------------------------------------------------------------------
(***************************************************************************)
(* The operators of the model.                                             *)
(***************************************************************************)
\* Either every check holds or the error is that of one that fails.
LEMMA FirstFailureCases ==
  ASSUME NEW checks, Len(checks) \in Nat
  PROVE  \/ FirstFailure(checks) = Nothing /\ \A i \in 1 .. Len(checks) : checks[i][1]
         \/ \E i \in 1 .. Len(checks) : ~checks[i][1] /\ FirstFailure(checks) = checks[i][2]
<1>. DEFINE failing == {i \in 1 .. Len(checks) : ~checks[i][1]}
<1>1. CASE failing = {}
  <2>1. FirstFailure(checks) = Nothing
    BY <1>1, Zenon DEF FirstFailure, SelectInSeq
  <2>. QED
    BY <1>1, <2>1
<1>2. CASE failing # {}
  <2>1. failing \in SUBSET Nat
    OBVIOUS
  <2>2. Min(failing) \in failing
    BY <1>2, <2>1, MinOfNat
  <2>3. Min(failing) # 0
    BY <2>2
  <2>4. FirstFailure(checks) = checks[Min(failing)][2]
    BY <1>2, <2>3, Zenon DEF FirstFailure, SelectInSeq
  <2>. QED
    BY <2>2, <2>4
<1>. QED
  BY <1>1, <1>2

LEMMA RefusalIsError ==
  ASSUME NEW checks, Len(checks) \in Nat,
         NEW E, \A i \in 1 .. Len(checks) : checks[i][2] \in E
  PROVE  FirstFailure(checks) \in E \cup {Nothing}
<1>1. CASE FirstFailure(checks) = Nothing
  BY <1>1
<1>2. CASE \E i \in 1 .. Len(checks) : ~checks[i][1] /\ FirstFailure(checks) = checks[i][2]
  BY <1>2
<1>. QED
  BY <1>1, <1>2, FirstFailureCases, Zenon

\* The first recipient key of a key agreement that matches, if there is one.
LEMMA MatchingRekCases ==
  ASSUME NEW kari, Len(kari.reks) \in Nat
  PROVE  \/ /\ MatchingRek(kari) = 0
            /\ \A i \in 1 .. Len(kari.reks) : ~MatchesRecipient(kari.reks[i].rid)
         \/ /\ MatchingRek(kari) \in 1 .. Len(kari.reks)
            /\ MatchesRecipient(kari.reks[MatchingRek(kari)].rid)
<1>. DEFINE matching == {i \in 1 .. Len(kari.reks) : MatchesRecipient(kari.reks[i].rid)}
<1>1. MatchingRek(kari) = IF matching # {} THEN Min(matching) ELSE 0
  BY Zenon DEF MatchingRek, SelectInSeq
<1>2. matching \in SUBSET Nat
  OBVIOUS
<1>3. matching # {} => Min(matching) \in matching
  BY <1>2, MinOfNat
<1>. QED
  BY <1>1, <1>3

\* The errors that decrypting a content may end with.
ContentErrors == {"UnsupportedAlgorithm", "MalformedInput", "Der", "DecryptionFailed"}

LEMMA GcmRefusal ==
  ASSUME NEW c
  PROVE  FirstFailure(GcmChecks(c)) \in ContentErrors \cup {Nothing}
<1>. DEFINE checks == GcmChecks(c)
<1>1. Len(checks) = 10
  BY DEF GcmChecks, GcmFields
<1>2. /\ checks[1][2] \in ContentErrors /\ checks[2][2] \in ContentErrors
      /\ checks[3][2] \in ContentErrors /\ checks[4][2] \in ContentErrors
      /\ checks[5][2] \in ContentErrors /\ checks[6][2] \in ContentErrors
      /\ checks[7][2] \in ContentErrors /\ checks[8][2] \in ContentErrors
      /\ checks[9][2] \in ContentErrors /\ checks[10][2] \in ContentErrors
  BY DEF GcmChecks, GcmFields, ContentErrors
<1>. HIDE DEF checks
<1>3. \A i \in 1 .. Len(checks) : checks[i][2] \in ContentErrors
  BY <1>1, <1>2
<1>4. FirstFailure(checks) \in ContentErrors \cup {Nothing}
  <2>1. Len(checks) \in Nat
    BY <1>1
  <2>. QED
    BY <1>3, <2>1, RefusalIsError, Zenon
<1>. QED
  BY <1>4 DEF checks

LEMMA CbcRefusal ==
  ASSUME NEW c
  PROVE  FirstFailure(CbcChecks(c)) \in ContentErrors \cup {Nothing}
<1>. DEFINE checks == CbcChecks(c)
<1>1. Len(checks) = 7
  BY DEF CbcChecks
<1>2. /\ checks[1][2] \in ContentErrors /\ checks[2][2] \in ContentErrors
      /\ checks[3][2] \in ContentErrors /\ checks[4][2] \in ContentErrors
      /\ checks[5][2] \in ContentErrors /\ checks[6][2] \in ContentErrors
      /\ checks[7][2] \in ContentErrors
  BY DEF CbcChecks, ContentErrors
<1>. HIDE DEF checks
<1>3. \A i \in 1 .. Len(checks) : checks[i][2] \in ContentErrors
  BY <1>1, <1>2
<1>4. FirstFailure(checks) \in ContentErrors \cup {Nothing}
  BY <1>1, <1>3, RefusalIsError
<1>. QED
  BY <1>4 DEF checks

\* Decrypting gives a plaintext or an error.
LEMMA OutcomesSound ==
  ASSUME NEW c, NEW o \in Outcomes(c)
  PROVE  o \in ContentErrors \cup Plaintexts
<1>1. CASE c.type = "authEnveloped"
  BY <1>1, GcmRefusal DEF Outcomes, ContentErrors, Plaintexts
<1>2. CASE c.type # "authEnveloped"
  BY <1>2, CbcRefusal DEF Outcomes, ContentErrors, Plaintexts
<1>. QED
  BY <1>1, <1>2

\* The errors that trying a RecipientInfo may end with.
EntryErrors == {"UnsupportedAlgorithm", "MalformedInput", "Der", "Other"}

KariChecks(kari) == OriginatorChecks(kari) \o AlgorithmChecks(kari)

LEMMA KariRefusal ==
  ASSUME NEW kari
  PROVE  FirstFailure(KariChecks(kari)) \in EntryErrors \cup {Nothing}
<1>. DEFINE checks == KariChecks(kari)
<1>1. Len(checks) = 8
  BY DEF KariChecks, OriginatorChecks, AlgorithmChecks
<1>2. /\ checks[1][2] \in EntryErrors /\ checks[2][2] \in EntryErrors
      /\ checks[3][2] \in EntryErrors /\ checks[4][2] \in EntryErrors
      /\ checks[5][2] \in EntryErrors /\ checks[6][2] \in EntryErrors
      /\ checks[7][2] \in EntryErrors /\ checks[8][2] \in EntryErrors
  BY DEF KariChecks, OriginatorChecks, AlgorithmChecks, EntryErrors
<1>. HIDE DEF checks
<1>3. \A i \in 1 .. Len(checks) : checks[i][2] \in EntryErrors
  BY <1>1, <1>2
<1>4. FirstFailure(checks) \in EntryErrors \cup {Nothing}
  BY <1>1, <1>3, RefusalIsError
<1>. QED
  BY <1>4 DEF checks

\* Trying an entry that names the key gives a content key or an error.
LEMMA ResultSound ==
  ASSUME NEW entry, RecipientInfo(entry), Names(entry)
  PROVE  \/ Result(entry).error = Nothing /\ Result(entry).cek # Nothing
         \/ Result(entry).error \in EntryErrors /\ Result(entry).cek = Nothing
<1>1. ASSUME NEW enc, WrapsKey(enc), NEW how
      PROVE  \/ Unwrap(enc, how).error = Nothing /\ Unwrap(enc, how).cek # Nothing
             \/ Unwrap(enc, how).error \in EntryErrors /\ Unwrap(enc, how).cek = Nothing
  BY <1>1 DEF Unwrap, WrapsKey, EntryErrors
<1>2. ASSUME NEW error \in EntryErrors
      PROVE  Failure(error).error \in EntryErrors /\ Failure(error).cek = Nothing
  BY DEF Failure
<1>3. CASE entry.type = "ktri"
  <2>1. WrapsKey(entry.enc)
    BY <1>3 DEF RecipientInfo
  <2>2. Result(entry) \in {Unwrap(entry.enc, entry.alg), Failure("UnsupportedAlgorithm")}
    BY <1>3 DEF Result, KtriResult, DecryptCek
  <2>3. "UnsupportedAlgorithm" \in EntryErrors
    BY DEF EntryErrors
  <2>. QED
    BY <1>1, <1>2, <2>1, <2>2, <2>3
<1>4. CASE entry.type = "kari"
  <2>. DEFINE enc == entry.reks[MatchingRek(entry)].enc
              how == <<entry.kdf, entry.wrap>>
  <2>1. entry.reks \in Seq(Range(entry.reks)) /\ \A i \in DOMAIN entry.reks : WrapsKey(entry.reks[i].enc)
    BY <1>4 DEF RecipientInfo
  <2>2. MatchingRek(entry) \in 1 .. Len(entry.reks)
    BY <1>4, <2>1, MatchingRekCases DEF Names
  <2>3. WrapsKey(enc)
    BY <2>1, <2>2
  <2>. DEFINE refused == FirstFailure(KariChecks(entry))
  <2>4. Result(entry) \in
          {Unwrap(enc, how), Failure("UnsupportedAlgorithm")}
            \cup IF refused = Nothing THEN {} ELSE {Failure(refused)}
    BY <1>4 DEF Result, TryDecryptKari, AgreeEcdh, KariChecks
  <2>5. refused \in EntryErrors \cup {Nothing}
    BY KariRefusal
  <2>6. "UnsupportedAlgorithm" \in EntryErrors
    BY DEF EntryErrors
  <2>. HIDE DEF refused, enc, how
  <2>. QED
    BY <1>1, <1>2, <2>3, <2>4, <2>5, <2>6
<1>. QED
  BY <1>3, <1>4 DEF Names

-----------------------------------------------------------------------------
(***************************************************************************)
(* The search.  Its message and key do not change, nor what they say.      *)
(***************************************************************************)
LEMMA SameSearch ==
  ASSUME UNCHANGED <<message, key>>
  PROVE  /\ ContentTypeKnown' = ContentTypeKnown
         /\ Named' = Named
         /\ Readable' = Readable
         /\ UnsupportedKaris' = UnsupportedKaris
         /\ \A entry : Result(entry)' = Result(entry)
<1>1. \A rid : MatchesRecipient(rid)' = MatchesRecipient(rid)
  BY DEF MatchesRecipient
<1>2. \A kari : MatchingRek(kari)' = MatchingRek(kari)
  BY Zenon DEF MatchingRek, SelectInSeq, MatchesRecipient
<1>3. \A entry : Result(entry)' = Result(entry)
  BY <1>2 DEF Result, KtriResult, TryDecryptKari, DecryptCek, AgreeEcdh, Unwrap, Failure
<1>4. \A entry : Names(entry)' <=> Names(entry)
  BY <1>1, <1>2 DEF Names
<1>5. Named' = Named
  BY <1>4 DEF Named
<1>6. Readable' = Readable /\ UnsupportedKaris' = UnsupportedKaris
  BY <1>3, <1>5 DEF Readable, UnsupportedKaris
<1>. QED
  BY <1>3, <1>5, <1>6 DEF ContentTypeKnown

LEMMA SameOutcomes ==
  ASSUME UNCHANGED cek
  PROVE  \A c : Outcomes(c)' = Outcomes(c)
<1>1. \A c : GcmChecks(c)' = GcmChecks(c) /\ CbcChecks(c)' = CbcChecks(c)
  BY DEF GcmChecks, GcmFields, CbcChecks
<1>. QED
  BY <1>1 DEF Outcomes

LEMMA SearchInvUnchanged ==
  ASSUME SearchInv, UNCHANGED decryptVars
  PROVE  SearchInv'
<1>1. UNCHANGED <<message, key, next, unsupported, cek, outcome>>
  BY DEF decryptVars
<1>2. Passed'
  BY <1>1, SameSearch DEF SearchInv, Passed
<1>3. Unwrapped'
  BY <1>1, SameSearch, SameOutcomes DEF SearchInv, Unwrapped, Decided
<1>4. Failed' /\ Refused'
  BY <1>1, SameSearch DEF SearchInv, Failed, Refused, Decided
<1>. QED
  BY <1>2, <1>3, <1>4 DEF SearchInv

\* Going on to the next entry, past one that does not name the key or an
\* unsupported key agreement that is saved.
LEMMA ContinueKeepsSearchInv ==
  ASSUME SearchInv, Decoded(message), Searching, next <= Len(message.entries),
         Continue, UNCHANGED <<message, key>>,
         \/ next \notin Named /\ unsupported' = unsupported
         \/ next \in UnsupportedKaris /\ unsupported' = TRUE
  PROVE  SearchInv'
<1>1. Len(message.entries) \in Nat
  BY DEF Decoded
<1>2. next' = next + 1 /\ cek' = Nothing /\ outcome' = "pending"
  BY DEF Continue, Searching
<1>3. next \in 1 .. Len(message.entries)
  BY <1>1 DEF SearchInv, Passed
<1>4. 1 .. next' - 1 = (1 .. next - 1) \cup {next}
  BY <1>2, <1>3
<1>5. UnsupportedKaris \subseteq Named
  BY DEF UnsupportedKaris
<1>6. Passed'
  <2>1. next' \in 1 .. Len(message'.entries) + 1
    BY <1>1, <1>2, <1>3
  <2>2. \A i \in 1 .. next' - 1 : i \in Named => i \in UnsupportedKaris
    BY <1>4 DEF SearchInv, Passed
  <2>3. unsupported' = (\E i \in 1 .. next' - 1 : i \in Named)
    BY <1>4, <1>5 DEF SearchInv, Passed
  <2>. QED
    BY <2>1, <2>2, <2>3, SameSearch DEF Passed
<1>7. Unwrapped' /\ Failed' /\ Refused'
  BY <1>2 DEF Unwrapped, Failed, Refused, Decided
<1>. QED
  BY <1>6, <1>7 DEF SearchInv

\* Returning what an entry gives that names the key and is not passed over.
LEMMA ReturnKeepsSearchInv ==
  ASSUME SearchInv, Decoded(message), Searching,
         next \in Named, next \notin UnsupportedKaris,
         Return(Result(Entry)), UNCHANGED <<message, key>>
  PROVE  SearchInv'
<1>1. UNCHANGED <<next, unsupported>> /\ cek' = Result(Entry).cek
  BY DEF Return
<1>2. RecipientInfo(Entry) /\ Names(Entry)
  BY DEF Decoded, Named, Entry
<1>3. Passed'
  BY <1>1, SameSearch DEF SearchInv, Passed
<1>4. ContentTypeKnown'
  BY SameSearch DEF Searching
<1>5. CASE Result(Entry).error = Nothing /\ Result(Entry).cek # Nothing
  <2>1. outcome' = "pending" /\ cek' # Nothing
    BY <1>1, <1>5 DEF Return
  <2>2. next \in Readable
    BY <1>5 DEF Readable, Entry
  <2>3. Unwrapped'
    BY <1>1, <1>4, <2>1, <2>2, SameSearch DEF Unwrapped, Decided, Entry
  <2>4. Failed' /\ Refused'
    BY <2>1 DEF Failed, Refused, Decided
  <2>. QED
    BY <1>3, <2>3, <2>4 DEF SearchInv
<1>6. CASE Result(Entry).error \in EntryErrors /\ Result(Entry).cek = Nothing
  <2>1. Result(Entry).error # Nothing
    BY <1>6, NothingAssumption DEF EntryErrors, Errors
  <2>2. cek' = Nothing /\ outcome' \in EntryErrors
    BY <1>1, <1>6, <2>1 DEF Return
  <2>3. next \notin Readable
    BY <2>1 DEF Readable, Entry
  <2>4. Unwrapped' /\ Refused'
    BY <1>4, <2>2 DEF Unwrapped, Refused
  <2>5. /\ outcome' \in Errors \ {"NoMatchingRecipient"}
        /\ outcome' = Result(message.entries[next]).error
    BY <2>1, <2>2 DEF EntryErrors, Errors, Return, Entry
  <2>6. Failed'
    BY <1>1, <2>3, <2>5, SameSearch DEF Failed
  <2>. QED
    BY <1>3, <2>4, <2>6 DEF SearchInv
<1>. QED
  BY <1>2, <1>5, <1>6, ResultSound

LEMMA DecryptKeepsSearchInv ==
  ASSUME SearchInv, Decoded(message), DecryptNext
  PROVE  SearchInv'
<1>1. CASE RefuseContentType
  <2>1. /\ UNCHANGED <<message, key, next, unsupported, cek>>
        /\ ~ContentTypeKnown
        /\ outcome' \in Errors
    BY <1>1 DEF RefuseContentType, ContentTypeKnown, Errors
  <2>2. Passed' /\ Failed'
    BY <2>1, SameSearch DEF SearchInv, Passed, Failed
  <2>3. Unwrapped' /\ Refused'
    BY <2>1 DEF SearchInv, Unwrapped, Refused
  <2>. QED
    BY <2>2, <2>3 DEF SearchInv
<1>2. CASE TryKtri
  <2>1. /\ Searching /\ next <= Len(message.entries)
        /\ Entry.type = "ktri" /\ UNCHANGED <<message, key>>
    BY <1>2 DEF TryKtri, Trying
  <2>2. next \in DOMAIN message.entries
    BY <2>1 DEF SearchInv, Passed, Decoded
  <2>3. next \notin UnsupportedKaris
    BY <2>1 DEF UnsupportedKaris, Entry
  <2>4. CASE MatchesRecipient(Entry.rid)
    <3>1. next \in Named
      BY <2>1, <2>2, <2>4 DEF Named, Names, Entry
    <3>2. Return(Result(Entry))
      BY <1>2, <2>1, <2>4 DEF TryKtri, Result
    <3>. QED
      BY <2>1, <2>3, <3>1, <3>2, ReturnKeepsSearchInv
  <2>5. CASE ~MatchesRecipient(Entry.rid)
    <3>1. next \notin Named
      BY <2>1, <2>5 DEF Named, Names, Entry
    <3>. QED
      BY <1>2, <2>1, <2>5, <3>1, ContinueKeepsSearchInv DEF TryKtri
  <2>. QED
    BY <2>4, <2>5
<1>3. CASE TryKari
  <2>1. /\ Searching /\ next <= Len(message.entries)
        /\ Entry.type = "kari" /\ UNCHANGED <<message, key>>
    BY <1>3 DEF TryKari, Trying
  <2>2. next \in DOMAIN message.entries
    BY <2>1 DEF SearchInv, Passed, Decoded
  <2>3. Result(Entry) = TryDecryptKari(Entry)
    BY <2>1 DEF Result
  <2>4. CASE MatchingRek(Entry) = 0
    <3>1. next \notin Named
      BY <2>1, <2>4 DEF Named, Names, Entry
    <3>. QED
      BY <1>3, <2>1, <2>4, <3>1, ContinueKeepsSearchInv DEF TryKari
  <2>5. CASE MatchingRek(Entry) # 0
    <3>1. next \in Named
      BY <2>1, <2>2, <2>5 DEF Named, Names, Entry
    <3>2. CASE Result(Entry).error = "UnsupportedAlgorithm"
      <4>1. next \in UnsupportedKaris
        BY <2>1, <3>1, <3>2 DEF UnsupportedKaris, Entry
      <4>2. Continue /\ unsupported' = TRUE
        BY <1>3, <2>3, <2>5, <3>2 DEF TryKari
      <4>. QED
        BY <2>1, <4>1, <4>2, ContinueKeepsSearchInv
    <3>3. CASE Result(Entry).error # "UnsupportedAlgorithm"
      <4>1. next \notin UnsupportedKaris
        BY <3>3 DEF UnsupportedKaris, Entry
      <4>2. Return(Result(Entry))
        BY <1>3, <2>3, <2>5, <3>3 DEF TryKari
      <4>. QED
        BY <2>1, <3>1, <4>1, <4>2, ReturnKeepsSearchInv
    <3>. QED
      BY <3>2, <3>3
  <2>. QED
    BY <2>4, <2>5
<1>4. CASE SkipOther
  <2>1. /\ Searching /\ next <= Len(message.entries) /\ Entry.type = "other"
        /\ Continue /\ UNCHANGED <<message, key, unsupported>>
    BY <1>4 DEF SkipOther, Trying
  <2>2. next \notin Named
    BY <2>1 DEF Named, Names, Entry
  <2>. QED
    BY <2>1, <2>2, ContinueKeepsSearchInv
<1>5. CASE NoneLeft
  <2>1. /\ UNCHANGED <<message, key, next, unsupported, cek>>
        /\ cek = Nothing /\ ContentTypeKnown /\ next > Len(message.entries)
        /\ outcome' = IF unsupported THEN "UnsupportedAlgorithm" ELSE "NoMatchingRecipient"
    BY <1>5 DEF NoneLeft, Searching
  <2>2. next = Len(message.entries) + 1
    BY <2>1 DEF SearchInv, Passed, Decoded
  <2>3. Passed'
    BY <2>1, SameSearch DEF SearchInv, Passed
  <2>4. Unwrapped' /\ Failed' /\ Refused'
    BY <2>1, <2>2, SameSearch DEF Unwrapped, Failed, Refused
  <2>. QED
    BY <2>3, <2>4 DEF SearchInv
<1>6. CASE DecryptContent
  <2>1. /\ UNCHANGED <<message, key, next, unsupported, cek>>
        /\ cek # Nothing
        /\ outcome' \in Outcomes(message.content)
    BY <1>6 DEF DecryptContent
  <2>2. Passed'
    BY <2>1, SameSearch DEF SearchInv, Passed
  <2>3. Unwrapped'
    BY <2>1, SameSearch, SameOutcomes DEF SearchInv, Unwrapped
  <2>4. Failed' /\ Refused'
    BY <2>1, SameSearch DEF SearchInv, Unwrapped, Failed, Refused
  <2>. QED
    BY <2>2, <2>3, <2>4 DEF SearchInv
<1>. QED
  BY <1>1, <1>2, <1>3, <1>4, <1>5, <1>6 DEF DecryptNext

-----------------------------------------------------------------------------
(***************************************************************************)
(* The sender.                                                             *)
(***************************************************************************)
LEMMA EncryptKeepsBuilt ==
  ASSUME Built, EncryptNext
  PROVE  Built'
<1>. USE DEF Built
<1>1. CASE EncryptContent
  BY <1>1 DEF EncryptContent, UseAes256
<1>2. CASE BuildRsaRecipient \/ BuildEcRecipient
  <2>1. /\ call = "wrapping" /\ Len(infos) < Len(certs)
        /\ UNCHANGED <<certs, content>>
        /\ \/ /\ infos' = Append(infos, InfoOf(Cert)) /\ UNCHANGED call
              /\ Cert.key \in {"RSA"} \cup Curves
           \/ call' \notin {"begun", "wrapping", "Ok"} /\ UNCHANGED infos
    BY <1>2 DEF BuildRsaRecipient, BuildEcRecipient, Building, InfoOf, Curves
  <2>2. CASE UNCHANGED infos
    BY <2>1, <2>2 DEF InfoOf, Ktri, Kari, Wrapped
  <2>3. CASE infos' = Append(infos, InfoOf(Cert)) /\ UNCHANGED call /\ Cert.key \in {"RSA"} \cup Curves
    <3>1. \A cert : InfoOf(cert)' = InfoOf(cert)
      BY <2>1 DEF InfoOf, Ktri, Kari, Wrapped
    <3>2. /\ infos' \in Seq(Range(infos) \cup {InfoOf(Cert)})
          /\ Len(infos') = Len(infos) + 1
          /\ infos'[Len(infos) + 1] = InfoOf(Cert)
          /\ \A i \in DOMAIN infos : infos'[i] = infos[i]
          /\ DOMAIN infos' = DOMAIN infos \cup {Len(infos) + 1}
      BY <2>3
    <3>3. infos' \in Seq(Range(infos'))
      BY <3>2, SeqOfRange
    <3>4. \A i \in DOMAIN infos' :
            certs[i].key \in {"RSA"} \cup Curves /\ infos'[i] = InfoOf(certs[i])
      BY <2>3, <3>2 DEF Cert
    <3>. QED
      BY <2>1, <2>3, <3>1, <3>2, <3>3, <3>4
  <2>. QED
    BY <2>1, <2>2, <2>3
<1>3. CASE UnsupportedRecipient
  BY <1>3 DEF UnsupportedRecipient, InfoOf, Ktri, Kari, Wrapped
<1>4. CASE Encoded
  BY <1>4 DEF Encoded, InfoOf, Ktri, Kari, Wrapped
<1>. QED
  BY <1>1, <1>2, <1>3, <1>4 DEF EncryptNext

LEMMA SameBuilt ==
  ASSUME Built, UNCHANGED <<certs, content, infos, call>>
  PROVE  Built'
  BY DEF Built, InfoOf, Ktri, Kari, Wrapped

\* An order of a sequence's positions has each of them once.
LEMMA OrderIsPermutation ==
  ASSUME NEW n \in Nat, NEW order \in SetToSeqs(1 .. n)
  PROVE  order \in [1 .. n -> 1 .. n] /\ \A j \in 1 .. n : \E i \in 1 .. n : order[i] = j
<1>1. IsFiniteSet(1 .. n) /\ Cardinality(1 .. n) = n
  BY FS_Interval
<1>2. order \in [1 .. n -> 1 .. n] /\ \A i, j \in 1 .. n : i # j => order[i] # order[j]
  BY <1>1 DEF SetToSeqs
<1>3. order \in Injection(1 .. n, 1 .. n)
  BY <1>2 DEF Injection, IsInjective
<1>4. order \in Surjection(1 .. n, 1 .. n)
  BY <1>1, <1>3, FS_Injection
<1>. QED
  BY <1>2, <1>4 DEF Surjection

\* What encrypt() builds is well formed.
LEMMA BuiltIsDecoded ==
  ASSUME Built, call = "Ok", NEW i \in DOMAIN infos
  PROVE  RecipientInfo(infos[i])
<1>1. content.cek # Nothing
  BY CekAssumption DEF Built, GcmContent
<1>2. CASE certs[i].key = "RSA"
  BY <1>1, <1>2 DEF Built, InfoOf, Ktri, Wrapped, RecipientInfo, WrapsKey
<1>3. CASE certs[i].key # "RSA"
  <2>1. infos[i] = Kari(certs[i])
    BY <1>3 DEF Built, InfoOf
  <2>2. /\ infos[i].type = "kari"
        /\ infos[i].reks \in Seq(Range(infos[i].reks))
        /\ \A k \in DOMAIN infos[i].reks : infos[i].reks[k].enc.cek = content.cek
    BY <2>1 DEF Kari, Wrapped, Range
  <2>. QED
    BY <1>1, <2>2 DEF RecipientInfo, WrapsKey
<1>. QED
  BY <1>2, <1>3

\* At its start the search has nothing behind it.
LEMMA SearchInvAtStart ==
  ASSUME next' = 1, unsupported' = FALSE, cek' = Nothing, outcome' = "pending",
         Len(message'.entries) \in Nat
  PROVE  SearchInv'
<1>1. 1 .. next' - 1 = {} /\ next' \in 1 .. Len(message'.entries) + 1
  OBVIOUS
<1>2. Passed'
  BY <1>1 DEF Passed
<1>. QED
  BY <1>2 DEF SearchInv, Unwrapped, Failed, Refused, Decided

LEMMA SendDelivers ==
  ASSUME EnvelopeInv, Send
  PROVE  EnvelopeInv'
<1>1. /\ call = "Ok" /\ message = NoMessage
      /\ UNCHANGED <<certs, content, infos, call, key, next, unsupported, cek, outcome>>
  BY DEF Send
<1>2. /\ next' = 1 /\ unsupported' = FALSE /\ cek' = Nothing /\ outcome' = "pending"
  BY <1>1 DEF EnvelopeInv, Idle
<1>3. Built /\ Built'
  BY <1>1, SameBuilt DEF EnvelopeInv
<1>4. PICK order \in SetToSeqs(DOMAIN infos), intact \in BOOLEAN :
        message' = [content |-> [content EXCEPT !.intact = intact],
                    entries |-> [i \in DOMAIN infos |-> infos[order[i]]]]
  BY DEF Send
<1>. DEFINE n == Len(infos)
<1>5. n \in Nat /\ DOMAIN infos = 1 .. n /\ infos \in Seq(Range(infos))
  BY <1>3 DEF Built
<1>6. /\ order \in [1 .. n -> 1 .. n]
      /\ \A j \in 1 .. n : \E i \in 1 .. n : order[i] = j
  BY <1>4, <1>5, OrderIsPermutation
<1>7. /\ message'.entries = [i \in 1 .. n |-> infos[order[i]]]
      /\ message'.content = [content EXCEPT !.intact = intact]
  BY <1>4, <1>5
<1>8. message'.entries \in Seq(Range(infos)) /\ Len(message'.entries) = n
  <2>1. \A i \in 1 .. n : infos[order[i]] \in Range(infos)
    BY <1>5, <1>6
  <2>. QED
    BY <1>5, <1>7, <2>1
<1>9. Idle'
  BY <1>2 DEF Idle
<1>10. SearchInv'
  BY <1>2, <1>5, <1>8, SearchInvAtStart
<1>11. Decoded(message)'
  <2>1. \A i \in DOMAIN message'.entries : RecipientInfo(message'.entries[i])
    BY <1>1, <1>3, <1>5, <1>6, <1>7, BuiltIsDecoded
  <2>2. message'.entries \in Seq(Range(message'.entries))
    BY <1>8, SeqOfRange
  <2>. QED
    BY <2>1, <2>2 DEF Decoded, RecipientInfo, WrapsKey
<1>12. Delivered'
  <2>1. message'.content \in {[content EXCEPT !.intact = b] : b \in BOOLEAN}
    BY <1>7
  <2>2. \A i \in DOMAIN message'.entries : \E j \in DOMAIN infos : message'.entries[i] = infos[j]
    BY <1>5, <1>6, <1>7
  <2>3. \A j \in DOMAIN infos : \E i \in DOMAIN message'.entries : message'.entries[i] = infos[j]
    BY <1>5, <1>6, <1>7
  <2>. QED
    BY <1>1, <2>1, <2>2, <2>3 DEF Delivered
<1>. QED
  BY <1>3, <1>9, <1>10, <1>11, <1>12 DEF EnvelopeInv

-----------------------------------------------------------------------------
(***************************************************************************)
(* The invariant.                                                          *)
(***************************************************************************)
LEMMA EnvelopeInvInit == Init => EnvelopeInv
<1>. SUFFICES ASSUME Init  PROVE EnvelopeInv
  OBVIOUS
<1>1. /\ next = 1 /\ unsupported = FALSE /\ cek = Nothing /\ outcome = "pending"
      /\ content = NoContent /\ infos = <<>> /\ call = "begun"
  BY DEF Init, EncryptInit, DecryptInit
<1>2. Decoded(message)
  <2>1. CASE message = NoMessage
    <3>1. message.entries = <<>>
      BY <2>1 DEF NoMessage
    <3>. QED
      BY <3>1 DEF Decoded
  <2>2. CASE message \in Messages
    BY <2>2, MessagesAssumption
  <2>. QED
    BY <2>1, <2>2 DEF Init
<1>3. Len(message.entries) \in Nat
  BY <1>2 DEF Decoded
<1>4. SearchInv
  <2>1. 1 .. next - 1 = {} /\ next \in 1 .. Len(message.entries) + 1
    BY <1>1, <1>3
  <2>2. Passed
    BY <1>1, <2>1 DEF Passed
  <2>. QED
    BY <1>1, <2>2 DEF SearchInv, Unwrapped, Failed, Refused, Decided
<1>5. certs \in Seq(Range(certs))
  <2>1. CASE certs = <<>>
    BY <2>1
  <2>2. CASE certs \in CertLists
    BY <2>2, CertListsAssumption
  <2>. QED
    BY <2>1, <2>2 DEF Init
<1>6. Built
  BY <1>1, <1>5 DEF Built, Range
<1>. QED
  BY <1>1, <1>2, <1>4, <1>6 DEF EnvelopeInv, Idle, Delivered, Own

LEMMA EnvelopeInvStep == EnvelopeInv /\ [Next]_vars => EnvelopeInv'
<1>. SUFFICES ASSUME EnvelopeInv, [Next]_vars  PROVE EnvelopeInv'
  OBVIOUS
<1>1. CASE Encrypt
  <2>1. message = NoMessage /\ EncryptNext /\ UNCHANGED decryptVars
    BY <1>1 DEF Encrypt
  <2>2. SearchInv' /\ Built'
    BY <2>1, SearchInvUnchanged, EncryptKeepsBuilt DEF EnvelopeInv
  <2>3. Idle' /\ Decoded(message)' /\ Delivered'
    BY <2>1 DEF EnvelopeInv, Idle, Decoded, RecipientInfo, WrapsKey, Delivered, Own,
                decryptVars, NoMessage
  <2>. QED
    BY <2>2, <2>3 DEF EnvelopeInv
<1>2. CASE Send
  BY <1>2, SendDelivers
<1>3. CASE Decrypt
  <2>1. DecryptNext /\ UNCHANGED <<certs, content, infos, call>>
    BY <1>3 DEF Decrypt
  <2>2. message # NoMessage /\ UNCHANGED <<message, key>>
    BY <2>1 DEF DecryptNext, RefuseContentType, TryKtri, TryKari, SkipOther, NoneLeft,
                DecryptContent, Trying, Searching, ContentTypeKnown, NoMessage, NoContent,
                EnvelopeInv, Idle
  <2>3. SearchInv' /\ Built'
    BY <2>1, DecryptKeepsSearchInv, SameBuilt DEF EnvelopeInv
  <2>4. Idle' /\ Decoded(message)' /\ Delivered'
    BY <2>1, <2>2 DEF EnvelopeInv, Idle, Decoded, RecipientInfo, WrapsKey, Delivered, Own,
                      NoMessage, NoContent
  <2>. QED
    BY <2>3, <2>4 DEF EnvelopeInv
<1>4. CASE UNCHANGED vars
  <2>1. UNCHANGED <<certs, content, infos, call>> /\ UNCHANGED decryptVars
    BY <1>4 DEF vars, decryptVars
  <2>2. SearchInv' /\ Built'
    BY <2>1, SearchInvUnchanged, SameBuilt DEF EnvelopeInv
  <2>3. Idle' /\ Decoded(message)' /\ Delivered'
    BY <2>1 DEF EnvelopeInv, Idle, Decoded, RecipientInfo, WrapsKey, Delivered, Own,
                decryptVars, NoMessage, NoContent
  <2>. QED
    BY <2>2, <2>3 DEF EnvelopeInv
<1>. QED
  BY <1>1, <1>2, <1>3, <1>4 DEF Next

\* Throughout both calls: what encrypt() has built for the certificates passed
\* (encrypt.rs:134-197), that the message holds it, and what the search of
\* decrypt() has passed over, found or refused (decrypt.rs:275-316).
THEOREM EnvelopeInvariant == Spec => []EnvelopeInv
<1>. QED
  BY EnvelopeInvInit, EnvelopeInvStep, PTL DEF Spec

-----------------------------------------------------------------------------
(***************************************************************************)
(* An unsupported key agreement never keeps decrypt() from an entry that   *)
(* the key can use, and NoMatchingRecipient means that no entry names the  *)
(* key, however many entries there are (decrypt.rs:279-283, 316).          *)
(***************************************************************************)
THEOREM Exact == Spec => []SearchIsExact
<1>1. EnvelopeInv => SearchIsExact
  <2>. SUFFICES ASSUME EnvelopeInv, Decided, ContentTypeKnown
                PROVE  /\ Readable # {} /\ Named = Readable \cup UnsupportedKaris
                            => cek # Nothing
                       /\ outcome = "NoMatchingRecipient" <=> Named = {}
    BY DEF SearchIsExact
  <2>1. Passed /\ Unwrapped /\ Failed
    BY DEF EnvelopeInv, SearchInv
  <2>2. Named \subseteq 1 .. Len(message.entries) /\ Len(message.entries) \in Nat
    BY DEF EnvelopeInv, Decoded, Named
  <2>3. Readable \subseteq Named /\ Readable \cap UnsupportedKaris = {}
    BY NothingAssumption DEF Readable, UnsupportedKaris, Errors
  <2>4. CASE cek # Nothing
    <3>1. outcome # "NoMatchingRecipient"
      BY <2>1, <2>4, OutcomesSound DEF Unwrapped, ContentErrors, Plaintexts
    <3>2. next \in Named
      BY <2>1, <2>3, <2>4 DEF Unwrapped
    <3>. QED
      BY <2>4, <3>1, <3>2
  <2>5. CASE cek = Nothing /\ next = Len(message.entries) + 1
    <3>1. next - 1 = Len(message.entries)
      BY <2>2, <2>5
    <3>2. Named \subseteq UnsupportedKaris
      BY <2>1, <2>2, <3>1 DEF Passed
    <3>3. Readable = {}
      BY <2>3, <3>2
    <3>4. next \notin Named
      BY <2>2, <2>5
    <3>5. outcome = IF unsupported THEN "UnsupportedAlgorithm" ELSE "NoMatchingRecipient"
      BY <2>1, <2>5, <3>4 DEF Failed
    <3>6. unsupported = (Named # {})
      BY <2>1, <2>2, <3>1 DEF Passed
    <3>. QED
      BY <3>3, <3>5, <3>6
  <2>6. CASE cek = Nothing /\ next # Len(message.entries) + 1
    <3>1. /\ next \in Named /\ next \notin Readable \cup UnsupportedKaris
          /\ outcome # "NoMatchingRecipient"
      BY <2>1, <2>6 DEF Failed
    <3>. QED
      BY <3>1
  <2>. QED
    BY <2>4, <2>5, <2>6
<1>. QED
  BY <1>1, EnvelopeInvariant, PTL

-----------------------------------------------------------------------------
(***************************************************************************)
(* What encrypt() wraps for a certificate its owner unwraps.               *)
(***************************************************************************)
LEMMA NoFailure ==
  ASSUME NEW checks, Len(checks) \in Nat, \A i \in 1 .. Len(checks) : checks[i][1]
  PROVE  FirstFailure(checks) = Nothing
<1>1. ~\E i \in 1 .. Len(checks) : ~checks[i][1] /\ FirstFailure(checks) = checks[i][2]
  BY Zenon
<1>. QED
  BY <1>1, FirstFailureCases, Zenon

LEMMA KtriIsRead ==
  ASSUME NEW cert, cert.rid \in key.ids
  PROVE  Result(Ktri(cert)) =
           IF "pkcs1" \in key.rsa THEN [cek |-> content.cek, error |-> Nothing]
           ELSE Failure("UnsupportedAlgorithm")
<1>1. Ktri(cert).type = "ktri" /\ Ktri(cert).alg = "pkcs1"
      /\ Ktri(cert).enc = [to |-> cert.rid, by |-> "pkcs1", cek |-> content.cek]
  BY DEF Ktri, Wrapped
<1>2. Result(Ktri(cert)) = IF "pkcs1" \in key.rsa THEN Unwrap(Ktri(cert).enc, "pkcs1")
                            ELSE Failure("UnsupportedAlgorithm")
  BY <1>1 DEF Result, KtriResult, DecryptCek
<1>. QED
  BY <1>1, <1>2 DEF Unwrap

LEMMA KariIsRead ==
  ASSUME NEW cert, cert.key \in Curves, cert.rid \in key.ids
  PROVE  Result(Kari(cert)) =
           IF key.curve = cert.key THEN [cek |-> content.cek, error |-> Nothing]
           ELSE Failure("UnsupportedAlgorithm")
<1>. DEFINE kari == Kari(cert)
            checks == KariChecks(kari)
            how == <<KdfOf[cert.key], WrapOf[cert.key]>>
<1>1. /\ kari.type = "kari" /\ kari.originator = "ec" /\ kari.curve = cert.key
      /\ kari.kdf = KdfOf[cert.key] /\ kari.wrap = WrapOf[cert.key]
      /\ kari.reks = <<[rid |-> cert.rid,
                        enc |-> [to |-> cert.rid, by |-> how, cek |-> content.cek]]>>
  BY DEF Kari, Wrapped
<1>2. /\ KdfOf[cert.key] \in DOMAIN CurveOfKdf
      /\ CurveOfKdf[KdfOf[cert.key]] = cert.key
      /\ WrapOf[cert.key] \in {"aes128wrap", "aes256wrap"}
  BY DEF KdfOf, WrapOf, CurveOfKdf, Curves
<1>3. cert.key # Nothing
  BY NothingAssumption DEF Curves
<1>4. FirstFailure(checks) = Nothing
  <2>1. Len(checks) = 8
    BY DEF KariChecks, OriginatorChecks, AlgorithmChecks
  <2>2. kari.wrap # Nothing
    BY <1>1, <1>2, NothingAssumption
  <2>3. /\ checks[1][1] /\ checks[2][1] /\ checks[3][1] /\ checks[4][1]
        /\ checks[5][1] /\ checks[6][1] /\ checks[7][1] /\ checks[8][1]
    <3>1. /\ checks[1][1] = (kari.originator # "static")
          /\ checks[2][1] = (kari.originator = "ec")
          /\ checks[3][1] = (kari.curve # Nothing)
          /\ checks[4][1] = (kari.kdf \in DOMAIN CurveOfKdf => kari.curve = CurveOfKdf[kari.kdf])
          /\ checks[5][1] = (kari.kdf \in DOMAIN CurveOfKdf)
          /\ checks[6][1] = (kari.wrap # Nothing)
          /\ checks[7][1] = (kari.wrap # "undecodable")
          /\ checks[8][1] = (kari.wrap \in {"aes128wrap", "aes256wrap"})
      BY DEF KariChecks, OriginatorChecks, AlgorithmChecks
    <3>2. /\ kari.originator # "static" /\ kari.originator = "ec" /\ kari.curve # Nothing
          /\ kari.curve = CurveOfKdf[kari.kdf] /\ kari.kdf \in DOMAIN CurveOfKdf
          /\ kari.wrap # "undecodable" /\ kari.wrap \in {"aes128wrap", "aes256wrap"}
      BY <1>1, <1>2, <1>3
    <3>. QED
      BY <2>2, <3>1, <3>2, Zenon
  <2>. HIDE DEF checks
  <2>4. \A i \in 1 .. Len(checks) : checks[i][1]
    BY <2>1, <2>3
  <2>5. Len(checks) \in Nat
    BY <2>1
  <2>. QED
    BY <2>1, <2>4, <2>5, NoFailure, Zenon
<1>5. MatchingRek(kari) = 1
  <2>1. Len(kari.reks) = 1 /\ kari.reks[1].rid = cert.rid
    BY <1>1
  <2>. HIDE DEF kari
  <2>. QED
    BY <2>1, MatchingRekCases DEF MatchesRecipient
<1>6. Result(kari) = IF key.curve = cert.key THEN Unwrap(kari.reks[1].enc, how)
                     ELSE Failure("UnsupportedAlgorithm")
  BY <1>1, <1>2, <1>4, <1>5 DEF Result, TryDecryptKari, AgreeEcdh, KariChecks
<1>. QED
  BY <1>1, <1>6 DEF Unwrap

LEMMA OwnOutcome ==
  ASSUME NEW c, NEW b \in BOOLEAN, cek = c.cek,
         \/ c = [GcmContent(16, "aes128-gcm") EXCEPT !.intact = b]
         \/ c = [GcmContent(32, "aes256-gcm") EXCEPT !.intact = b]
  PROVE  Outcomes(c) = {IF c.intact THEN "plaintext" ELSE "DecryptionFailed"}
<1>. DEFINE checks == GcmChecks(c)
<1>1. /\ c.type = "authEnveloped" /\ c.params = "present" /\ c.nonce = 12 /\ c.icv = 16
      /\ c.ct = "present" /\ c.mac = 16
      /\ \/ c.oid = "aes128-gcm" /\ c.cek.len = 16
         \/ c.oid = "aes256-gcm" /\ c.cek.len = 32
  BY DEF GcmContent, Cek
<1>2. Len(checks) = 10
  BY DEF GcmChecks, GcmFields
<1>3. /\ checks[1][1] = (c.params # "missing")
      /\ checks[2][1] = (c.params # "undecodable")
      /\ checks[3][1] = (c.nonce = 12)
      /\ checks[4][1] = (c.icv = 16)
      /\ checks[5][1] = (c.ct # "missing")
      /\ checks[6][1] = (c.ct # "too large")
      /\ checks[7][1] = (c.mac = 16)
      /\ checks[8][1] = (c.oid \in {"aes128-gcm", "aes256-gcm"})
      /\ checks[9][1] = (c.oid \in DOMAIN CekLength => cek.len = CekLength[c.oid])
      /\ checks[10][1] = (c.intact /\ cek = c.cek)
      /\ checks[10][2] = "DecryptionFailed"
  BY DEF GcmChecks, GcmFields
<1>4. /\ c.params # "missing" /\ c.params # "undecodable" /\ c.ct # "missing"
      /\ c.ct # "too large" /\ c.oid \in {"aes128-gcm", "aes256-gcm"}
      /\ cek.len = CekLength[c.oid]
  BY <1>1 DEF CekLength
<1>5. /\ checks[1][1] /\ checks[2][1] /\ checks[3][1] /\ checks[4][1] /\ checks[5][1]
      /\ checks[6][1] /\ checks[7][1] /\ checks[8][1] /\ checks[9][1]
      /\ checks[10][1] <=> c.intact
  BY <1>1, <1>3, <1>4, Zenon
<1>. HIDE DEF checks
<1>6. CASE c.intact
  <2>1. Len(checks) \in Nat /\ \A i \in 1 .. Len(checks) : checks[i][1]
    BY <1>2, <1>5, <1>6
  <2>2. FirstFailure(checks) = Nothing
    BY <2>1, NoFailure, Zenon
  <2>. QED
    BY <1>1, <1>6, <2>2 DEF Outcomes, checks
<1>7. CASE ~c.intact
  <2>1. Len(checks) \in Nat /\ 10 \in 1 .. Len(checks) /\ ~checks[10][1]
    BY <1>2, <1>5, <1>7
  <2>2. \A i \in 1 .. Len(checks) : ~checks[i][1] => i = 10
    BY <1>2, <1>5
  <2>3. FirstFailure(checks) = "DecryptionFailed"
    <3>1. PICK i \in 1 .. Len(checks) :
                 ~checks[i][1] /\ FirstFailure(checks) = checks[i][2]
      BY <2>1, FirstFailureCases, Zenon
    <3>2. i = 10
      BY <2>2, <3>1, Zenon
    <3>. QED
      BY <1>3, <3>1, <3>2
  <2>4. "DecryptionFailed" # Nothing
    BY NothingAssumption DEF Errors
  <2>. QED
    BY <1>1, <1>7, <2>3, <2>4 DEF Outcomes, checks
<1>. QED
  BY <1>6, <1>7

\* A RecipientInfo of the sender that names the key was built for a certificate
\* of its owner.  Either the key can read it and it gives the sender's content
\* key, or it is refused as unsupported.
LEMMA OwnEntryResult ==
  ASSUME EnvelopeInv, Own, NEW n \in Named
  PROVE  \E j \in Addressed :
           Result(message.entries[n]) =
             IF Capable(certs[j]) THEN [cek |-> content.cek, error |-> Nothing]
             ELSE Failure("UnsupportedAlgorithm")
<1>. DEFINE entry == message.entries[n]
<1>1. Names(entry)
  BY DEF Named
<1>2. PICK j \in DOMAIN infos : entry = infos[j]
  BY DEF EnvelopeInv, Delivered, Named
<1>3. /\ j \in DOMAIN certs /\ certs[j].key \in {"RSA"} \cup Curves
      /\ entry = InfoOf(certs[j])
  BY <1>2 DEF EnvelopeInv, Built
<1>4. CASE certs[j].key = "RSA"
  <2>1. entry = Ktri(certs[j])
    BY <1>3, <1>4 DEF InfoOf
  <2>2. certs[j].rid \in key.ids
    BY <1>1, <2>1 DEF Names, Ktri, MatchesRecipient
  <2>3. j \in Addressed /\ Capable(certs[j]) = ("pkcs1" \in key.rsa)
    BY <1>3, <1>4, <2>2 DEF Addressed, Capable, Curves
  <2>. QED
    BY <2>1, <2>2, <2>3, KtriIsRead
<1>5. CASE certs[j].key \in Curves
  <2>1. entry = Kari(certs[j])
    BY <1>3, <1>5 DEF InfoOf, Curves
  <2>2. Len(entry.reks) = 1 /\ entry.reks[1].rid = certs[j].rid /\ entry.type = "kari"
    BY <2>1 DEF Kari
  <2>3. MatchingRek(entry) # 0
    BY <1>1, <2>2 DEF Names
  <2>4. certs[j].rid \in key.ids
    <3>. HIDE DEF entry
    <3>. QED
      BY <2>2, <2>3, MatchingRekCases DEF MatchesRecipient
  <2>5. j \in Addressed /\ Capable(certs[j]) = (key.curve = certs[j].key)
    BY <1>3, <1>5, <2>4 DEF Addressed, Capable, Curves
  <2>. QED
    BY <1>5, <2>1, <2>4, <2>5, KariIsRead
<1>. QED
  BY <1>3, <1>4, <1>5

\* The RecipientInfo built for an addressed certificate names the key.
LEMMA AddressedIsNamed ==
  ASSUME EnvelopeInv, Own, Addressed # {}
  PROVE  Named # {}
<1>1. PICK j \in DOMAIN certs : certs[j].rid \in key.ids
  BY DEF Addressed
<1>2. j \in DOMAIN infos
  BY DEF EnvelopeInv, Built, Own
<1>3. PICK i \in DOMAIN message.entries : message.entries[i] = infos[j]
  BY <1>2 DEF EnvelopeInv, Delivered
<1>. DEFINE entry == message.entries[i]
<1>4. entry = InfoOf(certs[j])
  BY <1>2, <1>3 DEF EnvelopeInv, Built
<1>5. Names(entry)
  <2>1. CASE certs[j].key = "RSA"
    BY <1>1, <1>4, <2>1 DEF InfoOf, Ktri, Names, MatchesRecipient
  <2>2. CASE certs[j].key # "RSA"
    <3>1. Len(entry.reks) = 1 /\ entry.reks[1].rid = certs[j].rid /\ entry.type = "kari"
      BY <1>4, <2>2 DEF InfoOf, Kari
    <3>. HIDE DEF entry
    <3>2. MatchesRecipient(entry.reks[1].rid)
      BY <1>1, <3>1 DEF MatchesRecipient
    <3>3. MatchingRek(entry) # 0
      BY <3>1, <3>2, MatchingRekCases
    <3>. QED
      BY <3>1, <3>3 DEF Names
  <2>. QED
    BY <2>1, <2>2
<1>. QED
  BY <1>5 DEF Named

(***************************************************************************)
(* Whatever list of certificates encrypt() accepts, however long, and in   *)
(* whatever order the RecipientInfos arrive, decrypt() gives the owner of  *)
(* each certificate the plaintext, and everyone else the error that fits   *)
(* (encrypt.rs:134-197, decrypt.rs:170-266, 275-317).                      *)
(***************************************************************************)
THEOREM EveryoneReads == Spec => []EveryRecipientReads
<1>1. EnvelopeInv => EveryRecipientReads
  <2>. SUFFICES ASSUME EnvelopeInv, Own, Decided
                PROVE  EveryRecipientReads
    BY DEF EveryRecipientReads
  <2>1. Passed /\ Unwrapped /\ Failed /\ Len(message.entries) \in Nat
    BY DEF EnvelopeInv, SearchInv, Decoded
  <2>2. PICK b \in BOOLEAN : message.content = [content EXCEPT !.intact = b]
    BY DEF EnvelopeInv, Delivered
  <2>3. content \in {GcmContent(16, "aes128-gcm"), GcmContent(32, "aes256-gcm")}
    BY DEF EnvelopeInv, Built, Own
  <2>4. ContentTypeKnown /\ message.content.cek = content.cek
    BY <2>2, <2>3 DEF GcmContent, ContentTypeKnown
  <2>5. Failure("UnsupportedAlgorithm").error = "UnsupportedAlgorithm"
        /\ "UnsupportedAlgorithm" # Nothing
    BY NothingAssumption DEF Failure, Errors
  <2>6. ASSUME NEW n \in Named, n \notin Readable
        PROVE  /\ Result(message.entries[n]).error = "UnsupportedAlgorithm"
               /\ \E j \in Addressed : ~Capable(certs[j])
    BY <2>5, <2>6, OwnEntryResult DEF Readable
  <2>7. CASE cek # Nothing
    <3>1. /\ next \in Named /\ Result(message.entries[next]).error = Nothing
          /\ cek = Result(message.entries[next]).cek
          /\ outcome \in Outcomes(message.content)
      BY <2>1, <2>7 DEF Unwrapped, Readable
    <3>2. cek = message.content.cek /\ \E j \in Addressed : Capable(certs[j])
      BY <2>4, <2>5, <3>1, OwnEntryResult
    <3>3. Outcomes(message.content) =
            {IF message.content.intact THEN "plaintext" ELSE "DecryptionFailed"}
      <4>1. CASE content = GcmContent(16, "aes128-gcm")
        BY <2>2, <3>2, <4>1, OwnOutcome, Zenon
      <4>2. CASE content = GcmContent(32, "aes256-gcm")
        BY <2>2, <3>2, <4>2, OwnOutcome, Zenon
      <4>. QED
        BY <2>3, <4>1, <4>2
    <3>. QED
      BY <3>1, <3>2, <3>3 DEF EveryRecipientReads
  <2>8. CASE cek = Nothing /\ next \in Named
    <3>1. /\ next \notin Readable
          /\ outcome = Result(message.entries[next]).error
      <4>1. Named \subseteq 1 .. Len(message.entries)
        BY DEF EnvelopeInv, Decoded, Named
      <4>2. next # Len(message.entries) + 1
        BY <2>1, <2>8, <4>1
      <4>. QED
        BY <2>1, <2>4, <2>8, <4>2 DEF Failed
    <3>. QED
      BY <2>6, <2>8, <3>1 DEF EveryRecipientReads
  <2>9. CASE cek = Nothing /\ next \notin Named
    <3>1. /\ next = Len(message.entries) + 1
          /\ outcome = IF unsupported THEN "UnsupportedAlgorithm" ELSE "NoMatchingRecipient"
      BY <2>1, <2>4, <2>9 DEF Failed
    <3>2. next - 1 = Len(message.entries)
      BY <2>1, <3>1
    <3>3. Named \subseteq 1 .. next - 1
      BY <3>2 DEF EnvelopeInv, Decoded, Named
    <3>4. Named \subseteq UnsupportedKaris /\ unsupported = (Named # {})
      BY <2>1, <3>3 DEF Passed
    <3>5. Named \cap Readable = {}
      BY <2>5, <3>4 DEF Readable, UnsupportedKaris
    <3>6. CASE Named = {}
      BY <3>1, <3>4, <3>6, AddressedIsNamed DEF EveryRecipientReads
    <3>7. CASE Named # {}
      BY <2>6, <3>1, <3>4, <3>5, <3>7 DEF EveryRecipientReads
    <3>. QED
      BY <3>6, <3>7
  <2>. QED
    BY <2>7, <2>8, <2>9
<1>. QED
  BY <1>1, EnvelopeInvariant, PTL
=============================================================================
