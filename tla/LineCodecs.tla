------------------------------ MODULE LineCodecs ------------------------------
(***************************************************************************)
(* The byte level of the two codecs a posting may use, UuCodec and         *)
(* YencCodec, one of them at a time.                                       *)
(***************************************************************************)
EXTENDS UuCodec

CONSTANTS
  YencData,      \* Data of YencCodec
  LineLengths,   \* as in YencCodec
  SliceWidths    \* as in YencCodec

ASSUME YencAssumption ==
  /\ LineLengths \subseteq Nat
  /\ SliceWidths \subseteq Nat \ {0}
  /\ \A d \in YencData : d \in Seq(0 .. 255)

VARIABLES
  codec,         \* "uu" or "yenc"
  lineLength,    \* as in YencCodec, as are the other two
  current,
  pending

yencOnly == <<lineLength, current, pending>>

Yenc == INSTANCE YencCodec WITH Data <- YencData

CodecInit ==
  \/ codec = "uu" /\ UuInit /\ lineLength = 0 /\ current = <<>> /\ pending = FALSE
  \/ codec = "yenc" /\ Yenc!Init /\ complete = FALSE

UuStep == codec = "uu" /\ UuNext /\ UNCHANGED <<codec, yencOnly>>

YencStep == codec = "yenc" /\ Yenc!Next /\ UNCHANGED <<codec, complete>>

CodecNext == UuStep \/ YencStep

CodecSpec == CodecInit /\ [][CodecNext]_<<uuVars, codec, yencOnly>>

-----------------------------------------------------------------------------
(* Properties.                                                             *)

\* What is encoded comes back, whatever the transport does: the pad, strip and
\* end lines of mail (uuencoding/src/decode.rs:206-301), dot-stuffing and
\* slicing through escape pairs (yencoding/src/decode.rs:216-299).
CodecsRoundTrip ==
  /\ codec = "uu" => RoundTrip
  /\ codec = "yenc" => Yenc!RoundTrip

\* Encoders write nothing a transport changes or takes for framing
\* (uuencoding/src/encode.rs:1-12 and 26-57, yencoding/src/encode.rs:128-160).
CodecsWireSafe ==
  /\ codec = "uu" => NothingToStrip
  /\ codec = "yenc" => Yenc!WireSafe

=============================================================================
