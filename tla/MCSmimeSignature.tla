--------------------------- MODULE MCSmimeSignature ---------------------------
(***************************************************************************)
(* SmimeSignature for TLC: certificates of three signers with issuers that *)
(* were renewed, expired, are no CAs, or name each other; signatures that  *)
(* deviate from a good one in one field.                                   *)
(***************************************************************************)
EXTENDS SmimeSignature

CONSTANT MaxIssuers   \* how many issuers a message carries

Certificate(subject, issuer, pub, by, ca) ==
  [subject |-> subject, issuer |-> issuer, serial |-> pub, pub |-> pub, signedBy |-> by,
   scheme |-> <<"RSA", "sha256">>, ca |-> ca, valid |-> TRUE, converts |-> TRUE,
   ski |-> Nothing, key |-> "RSA"]

\* One whose key and signature are on the curve P-384.
Strong(subject, issuer, pub, by, ca) ==
  [Certificate(subject, issuer, pub, by, ca) EXCEPT
     !.key = "P-384", !.scheme = <<"P-384", "sha384">>]

SomePathSchemes == {<<"RSA", "sha256">>, <<"P-256", "sha256">>, <<"P-384", "sha384">>}

Root == Certificate("R", "R", "kR", "kR", TRUE)
StrongRoot == Strong("S", "S", "kS", "kS", TRUE)
ExpiredRoot == [Root EXCEPT !.valid = FALSE]
OtherRoot == Certificate("R", "R", "kR2", "kR2", TRUE)
RareRoot == [Certificate("R3", "R3", "kR3", "kR3", TRUE) EXCEPT !.converts = FALSE]

CaI == Certificate("I", "R", "kI", "kR", TRUE)
CaI2 == Certificate("I", "R", "kI2", "kR", TRUE)
CaJ == Certificate("J", "I", "kJ", "kI", TRUE)
CaK == Certificate("K", "J", "kK", "kJ", TRUE)
CaLoop == Certificate("I", "J", "kI3", "kJ", TRUE)
NotCa == [CaI EXCEPT !.ca = FALSE, !.serial = "other"]
Expired == [CaI EXCEPT !.valid = FALSE, !.serial = "other"]
StrongCa == Strong("T", "S", "kT", "kS", TRUE)
WeakenedCa == [StrongCa EXCEPT !.scheme = <<"P-384", "sha256">>, !.serial = "other"]
PssCa == [CaI EXCEPT !.scheme = <<"RSA-PSS", "sha256">>, !.serial = "other"]

Issuers == {CaI, CaI2, CaJ, CaK, CaLoop, NotCa, Expired}

Ann == Certificate("Ann", "I", "kA", "kI", FALSE)
Bob == [Certificate("Bob", "R", "kB", "kR", FALSE) EXCEPT !.key = "P-256"]
Cid == [Certificate("Cid", "J", "kC", "kJ", FALSE) EXCEPT !.key = "P-384", !.ski = "C"]
Dan == Certificate("Dan", "K", "kD", "kK", FALSE)
Eve == [Certificate("Eve", "R", "kE", "kR", FALSE) EXCEPT !.key = "P-521"]
Fay == Certificate("Fay", "R", "kF", "kR", FALSE)
Gus == [Certificate("Gus", "R", "kG", "kR", FALSE) EXCEPT !.key = "P-384", !.ski = "G"]
Hal == [Strong("Hal", "T", "kH", "kT", FALSE) EXCEPT !.ski = "H"]
Ida == [Strong("Ida", "S", "kD2", "kS", FALSE) EXCEPT !.ski = "D"]

SignerKey(cert, prefers) == [cert |-> cert, prefers |-> prefers]

SomeSignerKeys ==
  {SignerKey(c, d) : c \in {Bob, Fay}, d \in {Nothing, "sha256", "sha384"}}
    \cup {SignerKey(Gus, Nothing), SignerKey(Ida, Nothing), SignerKey(Eve, Nothing), SignerKey(Eve, "sha256"),
          SignerKey(Ann, Nothing)}

SomeKeyLists == UNION {[1 .. n -> SomeSignerKeys] : n \in 0 .. 2}

GoodInfo(cert) ==
  SignerInfo(SignerKey(cert, Nothing), CHOOSE sid \in Sids(cert) : cert.ski = Nothing \/ sid.kind = "ski")

\* Signatures that are wrong in one respect, or good in an unusual one.
Deviations(info) ==
  {info,
   [info EXCEPT !.digest = "md5"],
   [info EXCEPT !.digest = "sha512"],
   [info EXCEPT !.sid = [kind |-> "ski", ski |-> "C"]],
   [info EXCEPT !.sid = [kind |-> "serial", issuer |-> "R", serial |-> "kR"]],
   [info EXCEPT !.attrs = Nothing],
   [info EXCEPT !.attrs.contentType = "other", !.sig.over.contentType = "other"],
   [info EXCEPT !.attrs.digest = Nothing, !.sig.over.digest = Nothing],
   [info EXCEPT !.sigAlg = <<"rsaEncryption">>],
   [info EXCEPT !.sigAlg = <<"ecdsa", "sha384">>],
   [info EXCEPT !.sigAlg = <<"unknown">>],
   [info EXCEPT !.sig.pub = "k?"],
   [info EXCEPT !.sig.over.digest = Nothing]}

SignedBy(list, bagged) ==
  [type |-> "data", econtent |-> FALSE, certs |-> bagged, infos |-> list]

Chains ==
  {SignedBy(<<GoodInfo(leaf)>>, <<leaf>> \o issuers) :
     leaf \in {Ann, Cid, Dan},
     issuers \in UNION {SetToSeqs(s) : s \in {s \in SUBSET Issuers : Cardinality(s) <= MaxIssuers}}}

\* Issuers on P-384, with its digest and another one, and one with RSA-PSS.
StrongChains ==
  {SignedBy(<<GoodInfo(Hal)>>, <<Hal>> \o issuers) :
     issuers \in {<<>>, <<StrongCa>>, <<WeakenedCa>>, <<WeakenedCa, StrongCa>>,
                 <<StrongCa, WeakenedCa>>}}
    \cup {SignedBy(<<GoodInfo(Ann)>>, <<Ann, PssCa>>)}

SomeInfos == Deviations(GoodInfo(Ann)) \cup Deviations(GoodInfo(Bob)) \cup {GoodInfo(Cid)}

Signers ==
  {SignedBy(list, b) : list \in UNION {[1 .. n -> SomeInfos] : n \in 1 .. 2},
                       b \in {<<Ann, CaI, Bob>>}}
    \cup {SignedBy(list, <<Bob>>) : list \in [1 .. 3 -> {GoodInfo(Bob)}]}
    \cup {SignedBy(<<GoodInfo(Ann)>>, b) : b \in {<<>>, <<CaI>>, <<CaI, CaJ, CaK, CaI2, Ann>>}}
    \cup {SignedBy(<<>>, <<>>), [SignedBy(<<>>, <<>>) EXCEPT !.type = "undecodable"]}
    \cup {[SignedBy(<<GoodInfo(Bob)>>, <<Bob>>) EXCEPT !.type = "other"],
          [SignedBy(<<GoodInfo(Bob)>>, <<Bob>>) EXCEPT !.econtent = TRUE]}
    \cup {SignedBy(<<GoodInfo(Root)>>, <<>>)}

SomeForeign == Chains \cup StrongChains \cup Signers

Reader(a, r, c) == [anchors |-> a, revoked |-> r, clockOk |-> c]

SomeReaders ==
  {Reader(a, {}, TRUE) : a \in {{}, {Root}, {OtherRoot}, {Root, OtherRoot}, {Root, RareRoot},
                              {StrongRoot}, {Root, StrongRoot}, {ExpiredRoot},
                              {ExpiredRoot, OtherRoot}, {CaI}}}
    \cup {Reader({Root}, r, TRUE) : r \in {{CaI}, {Ann, Bob}}}
    \cup {Reader({Root}, {}, FALSE)}
=============================================================================
