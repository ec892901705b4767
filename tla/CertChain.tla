------------------------------- MODULE CertChain -------------------------------
(***************************************************************************)
(* validate_chain() of smime-tree: from a signer's certificate through the *)
(* certificates of the message to a trust anchor, then the checks on the   *)
(* path (crate pkix-chain), then the caller's RevocationChecker.           *)
(*                                                                         *)
(* A certificate is a record: the names of its subject and its issuer, its *)
(* key, the key that signed it and with which scheme (a family of keys and *)
(* a digest), whether it is a CA, is valid now, and can be handed to       *)
(* pkix-chain, which uses another version of the parser.                   *)
(* Names of certificates that were decoded can be encoded again: those     *)
(* errors are left out.                                                    *)
(***************************************************************************)
EXTENDS Naturals, Sequences

CONSTANTS
  MaxDepth,     \* MAX_DEPTH, 10 in the code
  PathSchemes   \* the signatures on certificates that pkix-chain verifies

ASSUME MaxDepthAssumption == MaxDepth \in Nat

\* What the crate is used for; it has no RSA-PSS (lib.rs:55-57).
ASSUME PathSchemesAssumption ==
  /\ {<<"RSA", "sha256">>, <<"P-256", "sha256">>, <<"P-384", "sha384">>} \subseteq PathSchemes
  /\ \A s \in PathSchemes : s[1] # "RSA-PSS"

VARIABLES
  bag,       \* the certificates of the message, in the order they are read
  anchors,   \* the caller's trust anchors, a set
  revoked,   \* the certificates the caller's checker refuses
  clockOk,   \* the clock is not before 1970
  chain,     \* the path so far, the signer's certificate first
  path,      \* "idle", "building", "built", "validated", "trusted" or an error
  asked      \* how many certificates the checker has been asked about

chainArguments == <<bag, anchors, revoked, clockOk>>

ChainErrors ==
  {"NoTrustAnchors", "NoMatchingIssuer", "Cycle", "TooDeep", "Other", "Invalid", "Revoked"}

SubjectsOf(certs) == {c.subject : c \in certs}

(***************************************************************************)
(* build_chain: one turn of its loop is one action.  Certificates are      *)
(* looked up by subject; of those with one subject the last one counts.    *)
(***************************************************************************)
Issuer == chain[Len(chain)].issuer

Bearers(name) == {k \in DOMAIN bag : bag[k].subject = name}

IsParent(k) == bag[k].subject = Issuer /\ \A j \in Bearers(Issuer) : j <= k

NoticesCycle == \E i \in DOMAIN chain : chain[i].subject = Issuer

StartChain(cert) ==
  /\ path = "idle"
  /\ \/ anchors = {} /\ path' = "NoTrustAnchors" /\ UNCHANGED chain
     \/ anchors # {} /\ path' = "building" /\ chain' = <<cert>>
  /\ UNCHANGED <<chainArguments, asked>>

EndBuilding(result) ==
  path' = result /\ UNCHANGED <<chainArguments, chain, asked>>

Turn == path = "building" /\ Len(chain) <= MaxDepth

(***************************************************************************)
(* Faulty variant: off by one, a path that the loop left is not refused.   *)
(***************************************************************************)
TooDeepLater == path = "building" /\ Len(chain) > MaxDepth + 1 /\ EndBuilding("TooDeep")

TooDeep == path = "building" /\ Len(chain) > MaxDepth /\ EndBuilding("TooDeep")

AnchorReached == Turn /\ Issuer \in SubjectsOf(anchors) /\ EndBuilding("built")

Climbing == Turn /\ Issuer \notin SubjectsOf(anchors)

NoMatchingIssuer == Climbing /\ Bearers(Issuer) = {} /\ EndBuilding("NoMatchingIssuer")

Cycle == Climbing /\ Bearers(Issuer) # {} /\ NoticesCycle /\ EndBuilding("Cycle")

PushParent ==
  /\ Climbing
  /\ ~NoticesCycle
  /\ \E k \in DOMAIN bag : IsParent(k) /\ chain' = Append(chain, bag[k])
  /\ UNCHANGED <<chainArguments, path, asked>>

BuildChain == TooDeep \/ AnchorReached \/ NoMatchingIssuer \/ Cycle \/ PushParent

(***************************************************************************)
(* The checks of pkix-chain: every certificate is valid now and was signed *)
(* by the next one, which is a CA; an anchor that is valid now and has the *)
(* name the last one asks for signed that one.                             *)
(***************************************************************************)
\* It verifies the schemes it knows, with keys of their family.
Signed(c, issuer) ==
  /\ c.issuer = issuer.subject
  /\ c.signedBy = issuer.pub
  /\ c.scheme[1] = issuer.key
  /\ c.scheme \in PathSchemes

Linked(c, parent) == Signed(c, parent) /\ parent.ca

PathValid ==
  /\ Len(chain) <= MaxDepth
  /\ \A i \in DOMAIN chain : chain[i].valid
  /\ \A i \in 1 .. Len(chain) - 1 : Linked(chain[i], chain[i + 1])
  /\ \E a \in anchors : a.valid /\ Signed(chain[Len(chain)], a)

\* Everything is converted for pkix-chain first, all the anchors too.
Convertible ==
  /\ \A i \in DOMAIN chain : chain[i].converts
  /\ \A a \in anchors : a.converts

(***************************************************************************)
(* Faulty variant: signatures are left to be checked later.                *)
(***************************************************************************)
ValidatePathUnchecked == path = "built" /\ EndBuilding("validated")

ValidatePath ==
  /\ path = "built"
  /\ \/ ~(Convertible /\ clockOk) /\ EndBuilding("Other")
     \/ Convertible /\ clockOk /\ ~PathValid /\ EndBuilding("Invalid")
     \/ Convertible /\ clockOk /\ PathValid /\ EndBuilding("validated")

AskRevocation ==
  /\ path = "validated"
  /\ asked < Len(chain)
  /\ asked' = asked + 1
  /\ path' = IF chain[asked + 1] \in revoked THEN "Revoked" ELSE path
  /\ UNCHANGED <<chainArguments, chain>>

Accept == path = "validated" /\ asked = Len(chain) /\ EndBuilding("trusted")

ValidateChain == BuildChain \/ ValidatePath \/ AskRevocation \/ Accept
=============================================================================
