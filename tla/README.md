# Verification of crate-mime

TLA+ models of the workspace of six Rust crates in this repository, checked
with TLC, and proofs checked with TLAPS.

The workspace parses mail (`mime-tree`), signs, verifies, encrypts and decrypts
it (`smime-tree`), and decodes the two encodings binary files are posted in,
uuencode (`uuencoding`, `uuencoding-multi`) and yEnc (`yencoding`,
`yencoding-multi`). No code of it runs concurrently: there are no threads, no
locks, no async functions and nothing is persisted. What is hard about it lies
elsewhere:

* the pieces of a file come over a network that loses, repeats, reorders and
  damages them, so that the order of calls on an assembler or a collection is
  whatever happens;
* scanners must find intact blocks between damaged ones, always move on, and
  report where in the message a block lies, in offsets that are relative to a
  body here and to the message there;
* the same format is read by two functions (a decoder and a scanner) that must
  agree;
* one failing item of several (a part, a block, a recipient, a signature) must
  neither hide nor vouch for another;
* boundaries: 1-based inclusive against 0-based half-open ranges, limits that
  are reached exactly, escape pairs at the end of a line.

## 1. Inventory

State is what a component keeps between calls, or between turns of its loop
where it is a single call.

| component | source | state | operations | correct when |
|---|---|---|---|---|
| yEnc assembler | `yencoding-multi/src/assembler.rs` | buffer, total size, covered intervals, expected CRC | `new`, `set_expected_crc32`, `add_part`, `is_complete`, `missing_ranges`, `finish` | intervals disjoint, gaps exact, bytes written once, only a complete file that hashes to its parts' CRC is handed over |
| yEnc decoder | `yencoding/src/decode.rs`, `header.rs` | the rest of the input, pending escape | `decode` | the payload is the one encoded or an error says why not |
| yEnc encoder | `yencoding/src/encode.rs` | column in the line | `encode`, `encode_part` | lines survive NNTP and decode to the data |
| inline yEnc scan | `mime-tree/src/yenc.rs` | position in the body, blocks found | `scan_inline_yencode` | intact articles found, extents right, ends |
| UU decoder | `uuencoding/src/decode.rs` | the rest of the input, bytes so far | `decode`, `decode_limited` | payload or error, limit only cuts |
| UU scanner | `uuencoding/src/scan.rs` | position, block at hand, results | `scan` | agrees with `decode`, damage stays local, ends |
| UU encoder | `uuencoding/src/encode.rs` | none | `encode` | survives mail relays and decodes to the data |
| inline UU scan | `mime-tree/src/uuencode.rs` | none | `scan_inline_uuencode` | extents right in the message |
| part tree | `mime-tree/src/parse.rs`, `part.rs` | part ids, preview | `parse`, `find_by_id` | ids are IMAP section numbers, the preview is how the text begins |
| body structure | `mime-tree/src/walk.rs` | three lists, which of two are on | `compute_body_structure` | message order, nothing dropped, both renderings or none |
| body decoding | `mime-tree/src/decode.rs` | none | `decode_body_value` | a limit only cuts, flags tell truncation from damage |
| typed headers | `mime-tree/src/header_typed.rs` | none | `parse_header_typed` | only what stands in brackets is an id or URL; every line end reads the same |
| UU collection | `uuencoding-multi/src/collection.rs` | parts by number, total | `new`, `with_total`, `add`, `missing_parts`, `is_complete`, `toc_part` | complete exactly when parts 1 to total are there, nothing collected is lost |
| UU reassembly | `uuencoding-multi/src/reassemble.rs` | none | `reassemble` | parts joined in order, what is not the whole file does not pass for it |
| subject and TOC parsers | `uuencoding-multi/src/subject.rs`, `toc.rs` | none | `parse_subject`, `parse_toc` | every article goes to its series, entries are read as meant |
| S/MIME decryption | `smime-tree/src/decrypt.rs`, `key.rs` | saved error, recipient at hand | `decrypt` | a usable key is found wherever it stands |
| S/MIME encryption | `smime-tree/src/encrypt.rs` | content key | `encrypt` | every recipient can decrypt |
| S/MIME verification | `smime-tree/src/verify.rs`, `sig_verify.rs` | none | `verify` | each signer judged by its own data |
| certificate paths | `smime-tree/src/cert.rs` | chain so far | `validate_chain` | ends at a trust anchor or fails, and ends |
| S/MIME signing | `smime-tree/src/sign.rs` | none | `sign` | what it signs, `verify` accepts |

How they interact: there are only calls. `parse` builds the part tree and calls
`compute_body_structure`. `scan_inline_yencode` calls `yencoding::decode` on
slices of a part's body; `scan_inline_uuencode` calls `uuencoding::scan`;
`decode_body_value` calls `uuencoding::decode_limited`. A client fetches
articles, calls `yencoding::decode` on each and hands the parts to an
`Assembler` (`yencoding-multi/src/lib.rs`, quick start). A client of
`uuencoding-multi` reads series and number from the subject, keeps a collection
for each series, and reassembles it when it is complete, which decodes every
body with `uuencoding::decode` (`uuencoding-multi/src/lib.rs`, quick start).
`smime-tree` works on the byte ranges of `mime-tree` and asks the caller's key
objects (traits `DecryptionKey`, `SigningKey`, `RevocationChecker`) for every
private-key operation.

## 2. Modules

| module | models | uses |
|---|---|---|
| `DataFacts` | lemmas the proofs share: minima and maxima, pieces of sequences and sequences put together, induction over a range of numbers | |
| `FileAssembly` | what an assembler of a posted file promises: bytes become known in ranges, once, and only a complete file is delivered | |
| `YencAssembler` | `assembler.rs`, one action per method | refines `FileAssembly` |
| `YencHeader` | `header.rs`, a header line being a sequence of tokens | |
| `YencDecode` | `decode`, an article being a sequence of lines; the two encoders' articles | `YencHeader` |
| `YencPosting` | a posted series, the network, `decode` and the assembler: the client loop of `yencoding-multi/src/lib.rs` | `YencAssembler`, `YencDecode` |
| `YencPostingProofs` | theorems about `YencAssembler` and `YencPosting` | `DataFacts` |
| `YencCodec` | `encode_body` and `decode_line`, byte by byte, with what transports do in between | |
| `InlineYenc` | `scan_inline_yencode` | `YencDecode` |
| `InlineYencProofs` | theorems about `InlineYenc` | `DataFacts` |
| `UuDecode` | `decode_limited`, the input being a sequence of lines | |
| `UuScan` | `scan_impl` and the two block handlers, one action per line and case | `UuDecode` |
| `InlineUu` | `scan_inline_uuencode` | `UuScan` |
| `InlineUuProofs` | theorems about `UuScan` and `InlineUu` | `DataFacts` |
| `UuCodec` | `encode` and `decode_line`, byte by byte, with what mail relays do in between | |
| `LineCodecs` | one of the two codecs at a time | `YencCodec`, `UuCodec` |
| `UuSubject` | `parse_subject`, a subject being a sequence of tokens | |
| `UuToc` | `parse_toc`, a line being a sequence of tokens | |
| `UuCollection` | `PartCollection` and `reassemble` | |
| `SeriesAssembly` | what a reader of a posted series is promised | |
| `UuPosting` | a posted series, the network, and the client loop of `uuencoding-multi/src/lib.rs` | `UuDecode`, `UuSubject`, `UuToc`, `UuCollection`; refines `SeriesAssembly` |
| `PostingProofs` | theorems about `UuPosting` and `LineCodecs` | `DataFacts` |
| `BodyStructure` | `build_root`, `build_part` and `compute_body_structure` | |
| `BodyDecode` | `decode_body_value`: transfer encodings, limits, charsets | `UuDecode` |
| `HeaderTyped` | `parse_header_typed` | |
| `MimeMessage` | `parse` with its preview, then the calls a client makes on a parsed message | `BodyStructure`, `BodyDecode`, `HeaderTyped` |
| `MimeMessageProofs` | theorems about `MimeMessage` and the walk of `BodyStructure` in it | `DataFacts` |
| `SmimeEncrypt` | `encrypt.rs`: the content key, and one entry for each recipient | |
| `SmimeDecrypt` | `decrypt.rs`: the search for an entry the key can use, and the content | |
| `SmimeEnvelope` | a message from `encrypt`, or other software, to `decrypt` with some key | `SmimeEncrypt`, `SmimeDecrypt` |
| `SmimeEnvelopeProofs` | theorems about `SmimeEnvelope` | `DataFacts` |
| `CertChain` | `cert.rs`: `validate_chain`, one action per turn of the walk | |
| `SmimeVerify` | `verify.rs`: every SignerInfo with its certificate path | `CertChain` |
| `SmimeSign` | `sign.rs`: one SignerInfo for each key | |
| `SmimeSignature` | a message from `sign`, or other software, to `verify` with some anchors | `SmimeSign`, `SmimeVerify` |
| `SmimeSignatureProofs` | theorems about `SmimeSignature` | |
| `MC...` | the instances TLC checks | |

Definitions whose comment begins with "Faulty variant" are not part of a model.
Each is the definition below it with a plausible bug, and stands there to show
that the property named for it would notice.

### The correspondence to the code

**YencAssembler.** `totalSize`, `buffer`, `covered` and `expectedCrc` are the
fields of the struct; `covered` is a function from the start of an interval to
its end, as the `BTreeMap` is. `reply` and `output` are what the last call
returned. `carried` is a history variable of the properties: the CRC the caller
set last, and those of the parts accepted since.
`Verdict` lists the early returns of `add_part` in order. The cursor loops of
`is_complete` and `missing_ranges` are `CursorAt`: the end of the interval
visited last, not a maximum. Because `finish` takes `self`, `Finish` closes the
assembler whatever it returns. The parts a caller may pass in are arbitrary
records: the fields of `DecodedPart` are public, and `decode` does not compare
a part's range with its data.

**YencHeader, YencDecode, YencPosting.** The payload of a header line is a
sequence of tokens, each with the separator in front of it, so that where
`name=` begins is decided as in `find_name_param`, and a name may look like
fields. A number is its value and whether it parses. A line is the keyword it
starts with, what is read from the payload behind it, and the bytes
`decode_line` would make of it; a header line in the data region contributes
rubbish bytes. `FinishDecode` keeps the order of the checks, and which CRC is
checked. In `YencPosting` the network makes copies of articles with a line lost,
doubled or exchanged, with the end cut off, or with another article run into
them. Enough of that can put the header of one part before the data and the
trailer of another; such a copy decodes, because the CRC is that of its trailer
and nothing ties the offsets to it. Where a setup excludes the loss of offsets
(`losesOffsets`), it is this that it excludes: a copy that decodes has the offsets
of the part whose trailer it has (`KeepsOffsets`). The client skips what `decode` or `add_part` refuses (the quick start
panics there), and calls `finish` only when `is_complete` says so.

**YencCodec, UuCodec.** The conversions, with wrapping arithmetic on bytes. A
transport step between encoding and decoding doubles leading dots, slices the
encoded stream at a fixed width through escape pairs, pads, trims or changes
line ends.

**InlineYenc, UuScan, InlineUu.** One action is one turn of a loop. Offsets
count lines: every offset in these sources is the start of a line. The
saturating conversions to `u32` are left out: `part.rs:82-84` asks callers to
refuse messages of 4 GiB and more. `begin` and `end` are matched without regard to
case, and `decode_line` takes them for data when they stand in capitals
(`CapitalKinds`): whether such a line is asked about as a keyword or as data is
decided by where it stands, as in `scan.rs:242-294`.

**UuSubject, UuToc, UuCollection, UuPosting.** Subjects and lines of a table of
contents are sequences of tokens; what the regular expressions tell apart is told
apart by the kind of a token. `Marks` and `Precedes` keep the order in which the
five patterns are tried, `ParseToc` the order of the three formats. A collection
is a record of its total and its parts, `Add` the whole of `add` with its answer.
`Receive` is one turn of the client's loop, which makes a collection anew when
the first total is read. `DecodeBody` is `UuDecode`, tabulated for every body
that can be delivered. A table of contents is a list of lines, each with the
entry its poster meant or none; what may stand in such a line is `IsWrittenFor`
and `IsProse`, and the entries in their order are `Listed`. A name with a size in
parentheses that does not fit stands for neither: the code makes it an entry
without a size or none, depending on how large it is. Nor does a line with an
inverted range in front of its name: the code drops it, against its documentation
(section 3).

**BodyStructure.** A message is what mail-parser delivers, a flat sequence of
parts that name their children by position, possibly ones that do not exist.
`TreeOf` numbers them as `build_part` does: a missing child is skipped and keeps
its number. mail-parser's `Multipart` body is taken to go with the type
`multipart/*`, a multipart to stand before its children, and every part but the
first to be the child of one multipart, once (`MessagesAssumption`; a multipart
may name children that are not there). The recursion of `parse_structure` is a stack of calls; whether a
list is on (`AppendTarget`) belongs to the call, the lists themselves are
shared.

**BodyDecode, HeaderTyped, MimeMessage.** A body is a sequence of units that carry
the bytes complete with them: base64 characters, quoted-printable tokens, lines
of uuencode, or bytes. The two decoding libraries are external and stated by what
they accept. A text is a sequence of bytes that know their character, so that a
limit may cut through one. `PartOf` fills in the fields that `build_part` derives
from a header. The tree of a message says nothing of bytes, so `TakePreview` and
`CallOnce` choose them when they are first read; the calls keep no state, and one
of them shows what each can return. What a body should decode to is said of the
bytes its header delimits (`Carried`), whatever `PartOf` makes of them. A header value is a sequence of characters
that may be brackets, white space or no UTF-8; what mail-parser makes of
addresses, dates and text is a table.

**SmimeEncrypt, SmimeDecrypt, SmimeEnvelope.** A certificate is the kind of its
key, whether the key is usable, and its identity. A wrapped key remembers for
whom, how and what it wraps; unwrapping gives it back to the owner in the way it
was wrapped and fails otherwise. The private key is the caller's object: what it
answers to, and which algorithms it can use, are chosen by TLC, with the default
`agree_ecdh` among them. The early returns of a function are a sequence of
checks with their errors, in the order of the code (`FirstFailure`). That AES-GCM
refuses content that is damaged or decrypted with a wrong key, and that AES-CBC may
yield other bytes, is taken from the ciphers (`Outcomes`). RecipientInfos are a SET OF, so `Send` puts them in
any order. Errors of encoding again what was decoded are left out.

**CertChain, SmimeSign, SmimeVerify, SmimeSignature.** A certificate has names,
a key, the key that signed it and the scheme it signed with (a family of keys and
a digest), and is valid now or not; anchors are certificates too. `bag_by_subject` is a `HashMap` collected from
the bag, so of several certificates with one subject the last counts
(`IsParent`). The path check of the crate pkix-chain is external and stated by
what it checks (`PathValid`), and which schemes it verifies is a constant
(`PathSchemes`); revocation is the caller's checker. A digest is the
algorithm and the content, a signature the key, the scheme and the attributes it
was made over. `VerifiedIsGood` and `GoodIsVerified` compare the results with
`Good`, which says what a good signature is without the walk, the lookups or the
algorithm tables of the code.

## 3. What the runs show

| run | bounds | shows |
|---|---|---|
| `YencAssembler` | files of up to 3 bytes, two byte values, two CRC values, all ranges within and around the file, parts that lie about their length or carry a CRC | type, disjointness, exact gaps, CRC provenance, acceptance of needed parts, verified hand-over, refinement of `FileAssembly` |
| `YencPosting` | 4 bytes in 2 parts, 2 damaged copies, setups with and without each CRC, a plain name and one that looks like fields | the client gets the posted file or none (whole-file CRC); every stored byte is right and the file is recovered in the end (part CRCs, offsets kept) |
| `LineCodecs` | yEnc: up to 3 bytes around every critical one, line lengths from 0, slice widths 1 to 3; UU: up to 5 bytes with every bit piece, 4 to a line | decoding inverts encoding through every transport; nothing on the wire is framing or would be stripped |
| `InlineYenc` | bodies of a few lines with intact, cut, nested and damaged articles, header fields in other orders, with tabs and names that look like fields; ranges inside and outside the message | intact articles found with their data, name and numbers, blocks disjoint and articles up to their `=yend` or a bare `=yend` before it, the scan ends |
| `InlineUu` | every body of at most 5 lines of 11 plain lines, and of at most 4 of 17 lines with begin and end lines in capitals | agreement with `decode`, local damage, extents in body and message, the call returns |
| `UuPosting` | 4 bytes in 3 parts, every form of marker, titles that contain another, reply prefixes, three kinds of part 0, 7 articles of others, 1 copy that breaks off, a table with a line of every format | what is missing is known, nothing but a `(0/0)` table is ever lost, the table is read as meant, refinement of `SeriesAssembly`, the file is recovered in the end |
| `MimeMessage` | every message of at most 4 parts of 8 kinds, and of at most 5 parts of 5 kinds; texts of up to 3 characters of 1 and 4 bytes, a long one, cut ones and one with a mark, in every transfer encoding under every name, limits 0 to 9 and none; header values of up to 5 characters with brackets | message order, nothing dropped silently, both renderings or none, switching off is scoped; limits only cut, the preview is how the text begins; only what is in brackets counts, and every line end reads the same |
| `SmimeEnvelope` | up to 3 recipients of every kind of key, every order of entries; messages of other software with up to 3 entries and every deviation of an entry or a content | every recipient reads or gets the error that names what stopped it, unsupported key agreements are passed over, the error says which case it is, both calls return |
| `SmimeSignature` | up to 2 keys; messages with up to 3 of 7 issuer certificates in every order, chains of RSA, P-384 and RSA-PSS, up to 3 signers, 13 deviations of a signature, 13 readers, with expired anchors among theirs; path length 3, 4 certificates, 2 signers as limits | exactly the good signatures are verified, one signer does not stand for another, what `sign` returns `verify` accepts, revocation is asked after signatures, verification ends |

Runs in which TLC finds a sentence of the documentation violated by the code:

| run | sentence | what the code does |
|---|---|---|
| `YencOffsets` | `assembler.rs:125-126`, a part without offsets is `OutOfRange` | it is stored at offset 0, also when it belongs to a series and lost its `=ypart` line |
| `UuScanReturned` | `uuencoding/src/lib.rs:270-271`, valid blocks after a damaged one are returned | a `begin` line that comes where the damaged block's `end` should be is eaten |
| `UuSplitSeries` | `uuencoding-multi/src/lib.rs:5-10`, `23-24` and `99`, the result of one encoding is split, and a complete collection decodes | every body is decoded for itself, so a part that begins inside the block fails |

More of them were seen while modelling, are visible in the definitions, and have
no run of their own:

* a bare `=yend` line ends the extent of an inline yEnc block but not the decoding
  (`mime-tree/src/yenc.rs:324`), so that the extent is not always the complete
  article (`yenc.rs:61-63`): `BlocksAreArticles` says which lines it covers then;
* a yEnc filename is "Preserved verbatim" (`yencoding/src/lib.rs:99-103`), but
  white space at its end is trimmed (`decode.rs:42`), and behind a tab a value
  that holds ` name=` is cut to what follows it (`header.rs:129-146`);
* an accepted empty part (`[0,0)`) makes `add_part` answer `OverlappingPart` to
  every part at offset 0, which overlaps nothing in the sense of
  `assembler.rs:215-216` (`BlockedByEmptyPart` in `NeededPartAccepted`);
* a truncated UU block is a problem and has a length (`uuencode.rs:58`), and its
  `end_offset` is not the end of the input (`uuencoding/src/lib.rs:152-153`);
* `scan` keeps the first bytes of a line that breaks off where `decode` may not
  (`scan.rs:296-298` says they match; `AgreesWithDecode` states what holds);
* `decode` accepts any `begin-` line as a begin line, `scan` does not
  (`decode.rs:51-53`);
* `scan` promises to find every block at true line boundaries
  (`uuencoding/src/lib.rs:262`), but a begin line in capitals inside an open block
  is data to it (`scan.rs:278`): a block without an end, and even a complete one,
  swallows the block behind it up to that one's end (`ReadAsData` in `LossIsLocal`);
* a table line with an inverted range in front of its name has `parts: None`
  (`toc.rs:42-44`, `284-285`), but in the third format the entry is dropped
  (`toc.rs:172-175`; the test at `toc.rs:507` is of the first format): the third
  case of `IsProse`;
* the client loop of `uuencoding-multi/src/lib.rs:85-88` replaces a collection
  when it reads the first total, and with it a table of contents that came as
  `(0/0)` (`GapsAreUndelivered` states it);
* a result that is not truncated is the complete file (`reassemble.rs:30-33`) only
  if the subjects carried a total: one inferred from `(k/0)` markers is the number
  of the last part that has come (`Sized` and `Add`);
* of two copies the first stays, also when it breaks off and the second does not:
  `SeriesRecovered` leaves damaged copies out;
* 1024 bytes do not guarantee 256 characters (`parse.rs:43-45`) behind a byte
  order mark, nor in charsets with escape sequences (`PreviewIsBeginning`);
* a part without charset is taken for UTF-8 (`part.rs:97-102`,
  `mime-tree/src/decode.rs:133-134`), but one without Content-Type for us-ascii,
  that is windows-1252 (`parse.rs:198-204`);
* `Raw` of a header value that is nowhere UTF-8 is not empty, as the table in
  `header_typed.rs:590` has it, but replacement characters (`711-716`);
* that a bracket means a message id (`header_typed.rs:755-769`) holds while every
  bracket is closed and not empty (`OnlyBracketsCount`);
* `decrypt` does not always try all recipients (`key.rs:284-286`): the first key
  transport entry that names the key decides;
* a key without ECDH ends in `UnsupportedAlgorithm`, not in
  `NoMatchingRecipient` (`key.rs:263-268`), and an unsupported key agreement is
  no hard error (`decrypt.rs:433-435`); `SearchIsExact` states what holds;
* `sign` refuses a P-521 key (`sign.rs:42`) only while the key does not prefer
  SHA-256 or SHA-384; with such a preference it returns a message that `verify`
  rejects, as it does for P-256 with SHA-384 and P-384 with SHA-256
  (`Supported` in `SignedIsVerified`);
* two issuer certificates of one name, as after a renewal, hide each other: the
  path goes through the last one in the bag, and a good signature may fail
  (`Unambiguous` in `GoodIsVerified`);
* `sign` sets no limit to the number of keys, `verify` refuses more than 32
  signers (`verify.rs:40`) and more than 100 certificates (`verify.rs:35`): the
  limits in `SignedIsVerified`;
* pkix-chain is said to verify only RSA and P-256 signatures (`cert.rs:36-41`), but
  a chain on P-384 verifies (`tests/smime_tests.rs:1418-1472`, changelog 0.3.2):
  the model goes by the test;
* `sign` embeds the signers' certificates only, so that a reader whose anchors
  did not sign them directly cannot verify (`GoodPath` in `SignedIsVerified`).

**Why the bounds are enough.** An interval bug needs two stored intervals and a
new one, so three bytes and every range over them show it. A scanner's state
depends on the line at hand and on three modes; five lines hold a begin, a
second begin, data, a terminator and an end, in any order. Three parts of a
series leave a gap before, between and behind those that have come, and the
broken copy of one may come first or last. Nine bytes of limit reach past two
groups of base64, and texts of 12 bytes are cut at four times a limit of 2. A
part tree of five parts holds an alternative with a container inside of it that
has text, and another alternative behind that text. Three recipients give an
unsupported, a foreign and a usable entry in every order. Paths of length three
with a limit of three reach the limit, miss it by one and close cycles of two.
Every property was seen to fail under at least one bug of the modelled code
within these bounds.

**Fairness.** A scan is one call and runs to its end, so its next-state relation
is weakly fair; so are `encrypt` and `decrypt`, `sign` and `verify`. In
`YencPosting` the client's loop hands over every article of the series at least
once (`for raw in &raw_articles`), starts, and finishes when complete: weak
fairness on those three, none on the network. In `UuPosting` likewise: weak
fairness on receiving each posted part (`for (subject, body_bytes) in
raw_messages`) and on reassembling what is complete (`for (key, coll) in ...`),
none on the network, on part 0 or on calls the loop does not make. The assembler
itself has none: no caller is obliged to call.

## 4. What is proved

Eight modules hold lemmas and theorems. Each of the theorems below holds for
every value of the constants that satisfies the assumptions the component's
module names, which TLC evaluates on its run; where a theorem has a hypothesis
of its own, it is named here.

**`YencPostingProofs`**, first part, about `YencAssembler`: for every set of
bytes, every CRC function, every size cap and every set of parts, only from the
typing of the constants (`ConstantsAssumption`):

* `TypeCorrect`, `CoverageDisjoint`, `CrcComesFromParts`: the type invariant,
  `IntervalsDisjoint` and `CrcProvenance`;
* `GapReportExact`: `missing_ranges` is exactly the uncovered bytes and
  `is_complete` agrees with it;
* `NeededPartsAccepted`: a sound part whose bytes are missing is accepted;
* `HandedOverFileVerified`: the action property about `finish`;
* `Refinement`: the assembler implements `FileAssembly`.

`IntervalsDisjoint` is not inductive alone: `add_part` compares a new range with
its two neighbours only, and that is enough only if no empty interval stands
between a range and the interval it overlaps. The invariant `Inv` therefore adds
that an empty interval starts at offset 0 (`EmptyOnlyAtZero`), which holds
because a ranged part must not be empty and a part without range starts at 0.
With `Inv` the two neighbour checks exclude every overlap (the lemmas about the
predecessor and the successor), the cursor of the gap loops equals the end of
the covered prefix, and the rest follows. `CrcProvenance` needs that the CRC is
compared before anything is stored.

**`YencPostingProofs`**, second part, about `YencPosting`: for every file, every
way to cut it into parts, every name, every CRC function and any number of
damaged copies (`FileAssumption`, `NamesAssumption`, `NoneIsAbsent`: the ends of
the parts ascend to the end of the file, the tokens of a name begin with `name=`,
and `None` is not a value):

* `FileComesOut`: `OutputIsFile`;
* `BytesStayInPlace`: `BytesInPlace`;
* `PostingRefinement`: the assembler with the client, `decode` and the network
  around it implements `FileAssembly`.

The first two have the hypothesis that no other bytes of their number have the
CRC of the file, or of one of its parts (`CrcTells`); for a CRC of 32 bits that is
what both invariants rest on, and a file for which it fails is delivered wrong.
TLC evaluates it on its instance. `PostingInv` has two sides. The network makes no
lines of its own, so every line in the spool was posted (`SpoolOk`), and what
`decode` accepts was checked against the trailer of one posted part, whatever the
lines before it are (`AcceptedIs`, `DecodedPartIs`): its data has the size of that
part and, with part CRCs, its CRC. Hence what `add_part` is given is a `Part`, and
the invariant `Inv` of the assembler holds under this client too. From it and the
gap report, `finish` is reached with nothing missing, and with whole-file CRCs
every part that was stored carried the CRC of the file (`CrcKept`), which tells the
buffer from everything but the file. `BytesInPlace` needs that the offsets belong
to the data, which is `OffsetsKept`: true of the articles as they were posted
(`PostedKeepsOffsets`), and of every damaged copy by what the setup says.

**`InlineYencProofs`**, for every message, every body range and every CRC
function:

* `BlocksComplete`: `BlocksAreArticles`, without a hypothesis;
* `IntactArticlesFound`: `IntactFound`, if `decode` reads from the articles of
  the instance what their encoder wrote (`WrittenDecodes`), and if a checked CRC
  tells a `=ybegin` line among the data (`CrcTells`). Without the second it is
  not true: a damaged article whose CRC happens to fit swallows the one behind
  it. TLC evaluates `CrcTells` on the messages of its run, and the first is what
  the run shows of a body with a single article.

What `decode` makes of a slice depends only on the lines up to the first `=yend`
it can use (`DecodeOfPrefix`, `NextSlice`), so a block is what its own lines say,
wherever the slice ends. `ScanInv` says that blocks lie one behind the other in
front of the position, and that each is an article; `FoundSoFar` says of every
intact article in front of the position what `IntactFound` says of all of them
in the end. The step is the question what a turn can pass over
(`SwallowedUnchecked`).

**`InlineUuProofs`**, for every message, every body range and every limit
(`MessagesAssumption`, `InputsAssumption`, both by `IsText`: blank and zero-length
lines have no bytes, and no input decodes to more bytes than `Unlimited`, the
`usize::MAX` of the code and 1000 in the runs):

* `ScanInvariance`, `ScanAgreesWithDecode`: for `scan` alone, on any input;
* `BlocksAgreeWithDecode`: `AgreesWithDecode`;
* `DamageStaysLocal`: `LossIsLocal`;
* `SoundBlocksDecode`: `SoundSliceIsBlock`.

`decode` looks for the line at which it stops and the scanner walks to it, so the
proofs meet there: `DecodeStopped` and `DecodeRanOut` say what `decode` returns in
terms of the first line behind the begin line that is not data, and `BlockRead`
says which lines the scanner has passed since that begin line, before and after
the terminator. When the scanner leaves the block, both have the same bytes and
the same verdict (`Agrees`), except that behind the terminator, where `decode` no
longer reads, the scanner keeps what a broken line decoded to. `LossIsLocal` only
speaks of the end of the scan: `PassedSoFar` says of every line passed that a
complete block there is returned, stands in a begin-base64 region, was the line at
which the block before it broke off, was read as data in a block, or belongs to the
block at hand. The last case is
what makes it inductive, and `LeaveBlockKeepsInv` is its step. A block that is not
truncated consists of a begin line, data, a terminator, blank lines and an end
line (`CompleteBlock`), so its slice decodes by itself (`SliceDecodes`), whatever
stands around it in the message.

**`PostingProofs`**, first part, about `UuPosting`: for every file, every way to
cut it into parts, every setup, every set of foreign articles and any number of
broken copies (`PartsAssumption`, `SetupsAssumption`, `StrangersAssumption`: offsets ascend to
the end of the file, a title contains no marker that would count more than that
of the part, the articles of others do not read as parts of this series), and for
every table of contents that lists something (`TableAssumption`):

* `GapsReported`: `GapsAreUndelivered`;
* `TableUnderstood`: `ContentsUnderstood`;
* `SeriesAssembled`: the client's loop implements `SeriesAssembly`, every step
  being one of it or a stutter.

`PostingInv` says that what lies in the spool are articles of others or copies
of posted ones, that the collection of the series holds what was delivered under
its number with the total the subjects carry, that a `(0/0)` table is kept while
nothing else has come, and that a file is handed over only
when every part is there and was delivered whole. It rests on three results
about the operators: `SubjectIsRead` (from the subject of a part `parse_subject`
reads the title, the number and the total, whatever form the marker has and
however many reply prefixes stand in front), `WholeCopyBytes` (a copy that
`decode` reads to its end without truncation has all bytes of its part) and
`ReassembleWhole` with `PartsMakeFile` (parts joined in order are the file). The
body kept as part 0 is the table that was posted, so `ContentsUnderstood` is a
statement about `parse_toc`: the three formats are tried in an order, and of the
first size and the first range behind a name one may be missing or not fit. A line
written for an entry is read as that entry by the format the code tries on it
(`EntryIsRead`), and prose by none of them (`ProseIsSkipped`).

**`PostingProofs`**, second part, about `LineCodecs`: for every data, every yEnc line
length and every UU line of at most 63 bytes (`DataAssumption`, `YencAssumption`,
`MaxLineAssumption`):

* `LinesAreWireSafe`: `CodecsWireSafe`;
* `EncodedComesBack`: `CodecsRoundTrip`.

The invariant of the first says of the lines finished and of the line at hand that they are
`Closed`: no NUL, CR or LF, no dot or tab in front, and no `=` without its second
byte. The line at hand is shorter than the line length, so a plain byte always
fits, and a pair that does not fit starts a new line, which has room for two
because the line length is at least 2 (`Clamped`; without it the theorem is
false). A byte that is written as it is at a column other than 0 may be a dot or
a tab, and after a flush the column is 0: the flush is made only for bytes
that are escaped (`EncodeByteKeepsInv`). For uuencoding all characters lie between 33
and 96, and the length byte between 33 and 95 (`ChunkLine`).

The round trip needs to know what each line on its way stands for (`CodecRead`).
A line of uuencoding stands for a piece of the data, and the pieces follow one
another (`ChunksAs`): the decoder has read the pieces of the lines it has passed,
whatever padding, trimming or line ends the relays added. A line of yEnc does not,
because a transport may slice the stream at any width (`SliceWidths`), through an
escape pair. There the stream keeps count: of its first bytes so many of the data
are complete, and an escape is open or not (`ReadsAs`). Lines are pieces of the
stream (`CutAs`), and at the end of each the decoder has the bytes that are
complete, with `pending` set just if an escape is open, also after a doubled dot
at the beginning of a line was taken away again.

**`MimeMessageProofs`**, first part, about the walk of `BodyStructure`: for every
message (`MessagesAssumption`), of any depth:

* `ListsInOrder`: `DocumentOrder`;
* `LeavesAreListed`: `NothingDropped`;
* `SwitchingIsScoped`: `SwitchingScoped`;
* `BodiesAgree`: `BothOrNeither`.

`TreeIsSound` first shows of `TreeOf`, for any message, that every part but the
root is the child of the part its id names, that ids of siblings ascend, and
that only multiparts have children (`TreeInv`); the two recursive functions that
number the parts are handled by a least counterexample. The invariant of the walk
`IInv` then has five parts besides the types. `CallsInv`: every call of
`parse_structure` walks the children of the part which the call below it passes.
`OrderInv`: a list is sorted, what is listed stands before all that is still to
come, and what was there when a call was entered stands before the parts of
that call, so that the copying at the end of an alternative keeps the order.
`SwitchInv`: a list of a call is off exactly if a part passed in one of the open
calls switches it off; that is a statement about the tree, and the one
`SwitchingScoped` makes when the walk is over. `VisitInv`: every leaf is still to come
or listed where it belongs. `AlternativeInv`: `textBody` and `htmlBody` are empty
together while no alternative is open, and were so at the entry of the outermost
open one.

**`MimeMessageProofs`**, second part, about `MimeMessage`: for every body under
every name of a transfer encoding and in each of the charset classes, every limit,
and every header value:

* `ClientWalks`: a client that decodes and reads headers leaves the walk as it
  is, so that what the first part says holds beside all calls;
* `LimitsOnlyCut`: `LimitedIsPrefix`;
* `PreviewsAreBeginnings`: `PreviewIsBeginning`;
* `BracketsDecide`: `OnlyBracketsCount`;
* `FormsReadAlike`: `FormsAgree`.

What is assumed of the bodies (`BodiesAssumption`, in `IsBody`): a body of an
encoder decodes in full to what was sent, so `LimitsOnlyCut` says what a limit
does to the decoding and not that the external decoders are right; of four
base64 characters the first completes no byte and the last leaves no bits
(`GroupedBy4`); a character has at most four bytes (`AreOfCharacters`); a body is
no longer than `Unlimited`. Of the preview, that the bytes decoded are at least
four for each character wanted, as 1024 are for 256 (`PreviewAssumption`). Of
addresses, only that the names of groups are text (`HeadersAssumption`).

The invariant `OfTheMessage` says that the preview and the answer are of the
message that was parsed; all else is in the operators. For each encoding, what is
decoded under a limit has the same first bytes as what is decoded without one,
reaches the limit if there are more, and is marked just then (`Base64Cuts`,
`QpCuts`, `UuCuts`, `IdentityCuts`, together `LimitsCut`). For base64 that rests on
the rounding of the limit to groups of four characters, for quoted-printable on
the second decoding of everything when the first is short, and for uuencode on the
fact that under a limit the decoder stops at a line that is not behind the one at
which it stops without. `CharactersAreMany` bounds the bytes of a text by four
times its characters, whatever was cut or damaged, which makes the decoded bytes
enough for the preview; a byte order mark is the one exception. The values of
`URLs` and `MessageIds` are what the angle brackets enclose (`ExtractIsBracketed`),
stated without the scan of the code, position by position; the scan is the
recursive function that applies one step (`UrlStep`) per character. `LineEndsAgree` says that
a value with CRLF, LF or nothing behind it is the same to the library.

**`SmimeEnvelopeProofs`**, for every list of certificates, every message of other
software that can be decoded, and every key (`CertListsAssumption`,
`MessagesAssumption`, `CekAssumption`, `NothingAssumption`):

* `Exact`: `SearchIsExact`;
* `EveryoneReads`: `EveryRecipientReads`.

`SearchInv` says what the search has passed over (entries that do not name the
key, and unsupported key agreements), that the saved error tells whether there
were any of the latter, and where it stands when it has ended. `Built` and
`Delivered` say that the message holds one entry for each certificate, whatever
their order. `EveryRecipientReads` says what each of them gets: the content, if the key
can do its algorithms and nothing was altered; the error of the content, if it was;
`UnsupportedAlgorithm`, if the key cannot; and `NoMatchingRecipient`, if nobody
addressed it. It follows because an entry of the sender that names the key gives the
sender's content key or the error of its algorithm (`OwnEntryResult`, from
`KtriIsRead` and `KariIsRead`), because there is one for each recipient
(`AddressedIsNamed`), and because the sender's content passes every check but the
last, which is whether it is intact (`OwnOutcome`).

**`SmimeSignatureProofs`**, for any keys, any message of other software with any
number of certificates and signers, any anchors, checker and clock, and any
limits (`MaxDepthAssumption`, `PathSchemesAssumption`, `LimitsAssumption`,
`KeyListsAssumption`, `ForeignAssumption`; `AttributesAssumption` and `NothingAssumption` only keep
values apart):

* `RevocationComesLast`: the checker is asked about certificates of valid paths
  only, and a path with one it refuses is never trusted;
* `VerifiedSignersAreGood`: a signer is reported as verified only if its
  signature is good;
* `GoodSignersAreVerified`: and every good one is, when names are unambiguous;
* `SignedMessagesAreVerified`: what `sign` returns, `verify` accepts.

`PathInv` says that the checker is asked about the certificates of a path one
after the other, none of those asked about is revoked while the path is still to
be trusted, and all have been asked about when it is; and that path and anchors
do not change after the check of the path. `SignerInv` adds where a path comes
from: its first certificate was found under the name the SignerInfo gives, its
key made the signature, and the rest was taken from the message. It also needs
that nothing has happened before a message is there (`NoMessageYet`), because the
message brings the bag by which the results are judged. A trusted path is then
one that `Good` asks for, with the path itself as the witness (`TrustedIsGood`).

The other direction needs to know where the walk is going. `GoodInv` says that
while the signer at hand is good, its certificate is the one the lookup finds
(`GoodHasOneCandidate`), and the path built so far is the beginning of a good
path and has passed no anchor (`OnTheWay`). With unambiguous names the parent
found next is the next certificate of that path (`GoodPathGoesOn`), which is no
cycle (`GoodPathHasNoCycle`), and the limit is reached only where the good path ends
(`GoodPathReachesAnchor`). `SignInv` says that `sign` has made one SignerInfo for
each key it has passed, and `OutcomeInv` that `verify` refuses a message of `sign` for
none of the reasons it has before it looks at a signer; with at most
`MaxSignerInfos` and `MaxBagCerts` keys every signer is then good
(`SignedIsGood`).

What is assumed of the path check is its definition, `PathValid`, which models
the crate pkix-chain: every certificate of the path is valid now, and so is the
anchor (changelog 0.3.0, `error.rs:103-110`), and each was signed by the next with a
scheme out of `PathSchemes`. Of that set only what this code and its tests say is
assumed (`PathSchemesAssumption`): RSA and P-256 with SHA-256 and P-384 with SHA-384
are in it, and RSA-PSS is not (`smime-tree/src/lib.rs:55-57`). The theorems hold for every such set.
Digests and signatures are taken to be equal only if what
they were made from is.

**Only model-checked.** All liveness (`FileRecovered`, `SeriesRecovered`, the
scans and calls that return): fairness and ENABLED are outside what the prover
does. Every safety invariant that a run checks is a theorem. The library's
induction theorems take an operator and cannot be instantiated here; recursive
functions that are stated by their steps (`FlattenSeq`, `PartIds`, `ChildIds`) are
reasoned about by a least counterexample, or by induction over a set of numbers
(`UpTo` in `DataFacts`).

## 5. Plan

In this order; all of it is done.

1. `YencAssembler`, `FileAssembly`, proofs.
2. `YencHeader`, `YencDecode`, `YencPosting`, `YencCodec`.
3. `InlineYenc`.
4. `UuDecode`, `UuScan`, `InlineUu`, `UuCodec`.
5. `BodyStructure`.
6. `SmimeEncrypt`, `SmimeDecrypt`, `SmimeEnvelope`.
7. `CertChain`, `SmimeVerify`, `SmimeSign`, `SmimeSignature`, proofs.
8. `UuSubject`, `UuToc`, `UuCollection`, `SeriesAssembly`, `UuPosting`.
9. `BodyDecode`, `HeaderTyped`, `MimeMessage`.
10. Proofs: that `UuPosting` keeps what it collected and knows its gaps, disjoint
    blocks and intact articles for `InlineYenc`, message order for
    `BodyStructure`, what `decrypt` returns, that good signatures are verified,
    that a yEnc posting comes out as the file, that the UU scan agrees with
    `decode`, that encoded lines are safe on the wire and decode to the data, that
    limits and previews only cut, that header values are read alike, and that a
    table of contents is read as it was meant.

## 6. Not modelled

* Cryptographic algorithms, ASN.1, MIME tokenising, character sets and the
  decoding libraries: other crates, called from here and stated by what the code
  relies on.
* Regular expressions: subjects and tables of contents are tokens, so what the
  patterns match within a word is not looked at.
* Copying of headers into a `ParsedMessage`, and warnings: `parse` collects them
  and reads neither.
* Modes and file names of UU begin lines, the line length of yEnc headers:
  informational, read by nothing.
* Wording of errors, `Display` and `Debug`, the layout of the MIME parts that
  `sign` and `encrypt` write.
* Offsets that saturate above 4 GiB, and allocation failure.
* `audit/`: records of the development.
