----------------------------- MODULE FileAssembly -----------------------------
(***************************************************************************)
(* What a reassembler of a file posted in pieces promises, whatever data   *)
(* structure it uses: bytes become known in contiguous ranges, a known     *)
(* byte never changes, and a file is delivered only when every one of its  *)
(* bytes is known, with exactly those bytes.                               *)
(*                                                                         *)
(* yencoding-multi's Assembler is shown to implement this specification    *)
(* (module YencAssembler).                                                 *)
(***************************************************************************)
EXTENDS Integers

CONSTANTS
  Byte,   \* the values of one byte of a file
  None    \* no file being assembled / no file delivered

VARIABLES
  size,       \* length of the file being assembled, or None
  known,      \* the bytes known so far: a partial function on 0 .. size-1
  delivered   \* the last outcome: the complete file, or None

fileVars == <<size, known, delivered>>

NoBytes == [o \in {} |-> None]

Init ==
  /\ size = None
  /\ known = NoBytes
  /\ delivered = None

\* A caller begins to assemble a file of n bytes.
Start ==
  /\ size = None
  /\ size' \in Nat
  /\ known' = NoBytes
  /\ delivered' = None

\* The bytes of one range, none of them known before, become known.
Learn ==
  /\ size # None
  /\ size' = size
  /\ \E lo, hi \in 0 .. size :
       /\ lo <= hi
       /\ \A o \in lo .. hi - 1 : o \notin DOMAIN known
       /\ DOMAIN known' = DOMAIN known \cup (lo .. hi - 1)
       /\ \A o \in lo .. hi - 1 : known'[o] \in Byte
       /\ \A o \in DOMAIN known : known'[o] = known[o]
  /\ UNCHANGED delivered

\* The file is handed over: possible only when all of it is known.
Deliver ==
  /\ size # None
  /\ DOMAIN known = 0 .. size - 1
  /\ delivered' = known
  /\ size' = None
  /\ known' = NoBytes

\* The attempt ends without a file.
Abandon ==
  /\ size # None
  /\ size' = None
  /\ known' = NoBytes
  /\ delivered' = None

Next == Start \/ Learn \/ Deliver \/ Abandon

Spec == Init /\ [][Next]_fileVars

=============================================================================
