----------------------------- MODULE NixFormats -----------------------------
(***************************************************************************)
(* The formats of Nix that the depot reads and writes: store paths, hash   *)
(* texts, content addresses, the path infos that "nix path-info --json"    *)
(* prints, narinfos and their fingerprints (crates/depot-core).            *)
(*                                                                         *)
(* A path is a sequence of segments, absolute or not; a segment holds the  *)
(* number of its 32-digit hash, 0 when it has none.  A hash is its form (a *)
(* text after a colon or a dash, or a structured value with its format),   *)
(* its algorithm and its digest: bytes in base64 and base16, digits in     *)
(* nix32.  After a dash, and in the formats read as base64, the digest is  *)
(* base64.  The text of a narinfo is, for each field, the sequence of the  *)
(* values of its lines.                                                    *)
(***************************************************************************)
EXTENDS Naturals, Sequences, SequencesExt

CONSTANTS
  Segments,     \* the segments that paths are made of
  StoreDir,     \* the segments of the store directory
  TextOrder,    \* the places of the paths in play in the order of their texts
  DigestBytes,  \* bytes in a sha256 digest: 32
  MaxNarSize    \* the largest i64

Paths == [absolute : BOOLEAN, segments : Seq(Segments)]

ASSUME FormatConstants ==
  /\ StoreDir \in Seq(Segments)
  /\ DOMAIN TextOrder \subseteq Paths
  /\ \A p \in DOMAIN TextOrder : TextOrder[p] \in Nat
  /\ \A p, q \in DOMAIN TextOrder : TextOrder[p] = TextOrder[q] => p = q
  /\ DigestBytes \in Nat \ {0}
  /\ MaxNarSize \in Nat

-----------------------------------------------------------------------------
\* Store paths

NoPath == [absolute |-> FALSE, segments |-> <<>>]  \* no deriver

InStoreDir(path) == path.absolute /\ IsPrefix(StoreDir, path.segments)

DisplayPath(path) ==
  IF InStoreDir(path)
  THEN [absolute |-> FALSE,
        segments |-> SubSeq(path.segments, Len(StoreDir) + 1, Len(path.segments))]
  ELSE path

ExpandDisplayPath(path) ==
  IF InStoreDir(path)
  THEN path
  ELSE [absolute |-> TRUE, segments |-> StoreDir \o path.segments]

StorePathHash(path) == IF path.segments = <<>> THEN 0 ELSE Last(path.segments).hash

IsStorePath(path) == InStoreDir(path) /\ StorePathHash(path) # 0

\* How the members of s come to stand when it is sorted by their ranks.
Sorting(s, rank) ==
  CHOOSE place \in Bijection(DOMAIN s, DOMAIN s) :
    \A i, j \in DOMAIN s : i < j => rank[place[i]] <= rank[place[j]]

SortedBy(s, rank) ==
  LET place == Sorting(s, rank)
  IN  [i \in DOMAIN s |-> s[place[i]]]

InTextOrder(paths) == SortedBy(paths, [i \in DOMAIN paths |-> TextOrder[paths[i]]])

-----------------------------------------------------------------------------
\* Hashes

NixBase32Length(bytes) == IF bytes = 0 THEN 0 ELSE (8 * bytes - 1) \div 5 + 1

\* Digit n counts from the least significant; u8 shifts lose the bits above 8.
NixBase32Digit(bytes, n) ==
  LET i == (5 * n) \div 8
      j == (5 * n) % 8
      low  == IF i < Len(bytes) THEN bytes[i + 1] \div 2^j ELSE 0
      high == IF i + 1 < Len(bytes) /\ j # 0 THEN (bytes[i + 2] * 2^(8 - j)) % 256 ELSE 0
  IN  (low + high) % 32

EncodeNixBase32(bytes) ==
  LET count == NixBase32Length(Len(bytes))
  IN  [k \in 1..count |-> NixBase32Digit(bytes, count - k)]

Base64Forms == {"sri", "base64", "unspecified"}
Nix32Forms == {"colon", "nix32"}
OtherForms == {"bare", "base16"}  \* no separator; a format of another name

Normalizable(hash) ==
  /\ hash.algorithm = "sha256"
  /\ \/ hash.form \in Base64Forms
     \/ /\ hash.form \in Nix32Forms
        /\ hash.digest.alphabet = "nix32"
        /\ Len(hash.digest.data) = NixBase32Length(DigestBytes)

\* A NormalizedNarHash as it is printed.
Normalized(hash) ==
  [form |-> "colon", algorithm |-> hash.algorithm,
   digest |-> [alphabet |-> "nix32",
               data |-> IF hash.form \in Base64Forms
                        THEN EncodeNixBase32(hash.digest.data)
                        ELSE hash.digest.data]]

RenderText(hash) ==
  [hash EXCEPT !.form = CASE hash.form = "nix32" -> "colon"
                          [] hash.form \in {"base64", "unspecified", "base16"} -> "sri"
                          [] OTHER -> hash.form]

NoHash == [form |-> "bare", algorithm |-> "none", digest |-> [alphabet |-> "none", data |-> <<>>]]
NoCa == [raw |-> TRUE, method |-> "none", hash |-> NoHash]

FormatForNarinfo(ca) ==
  IF ca.raw
  THEN ca
  ELSE [raw |-> TRUE, method |-> ca.method,
        hash |-> IF Normalizable(ca.hash) THEN Normalized(ca.hash) ELSE RenderText(ca.hash)]

-----------------------------------------------------------------------------
\* Narinfos that a push client makes, and that the server accepts

Compressions == {"none", "zstd", "xz", "bzip2"}

NarUrl(digits, compression) == [kind |-> "nar", digits |-> digits, compression |-> compression]

IsNarPath(url) ==
  /\ url.kind = "nar"
  /\ Len(url.digits) = NixBase32Length(DigestBytes)
  /\ url.compression \in Compressions

NarCompression(text) == CASE text = "" -> "none" [] text = "bz2" -> "bzip2" [] OTHER -> text

\* What the output of nix leaves out has a default.
ParsePathInfo(entry) ==
  LET Given(field, default) == IF field \in DOMAIN entry THEN entry[field] ELSE default
  IN  [path |-> entry.path, narHash |-> entry.narHash, narSize |-> entry.narSize,
       references |-> Given("references", <<>>), deriver |-> Given("deriver", NoPath),
       signatures |-> Given("signatures", <<>>), ca |-> Given("ca", NoCa)]

NarinfoFromPathInfo(info) ==
  [store_path |-> info.path, url |-> NarUrl(Normalized(info.narHash).digest.data, "zstd"),
   compression |-> "zstd", nar_hash |-> info.narHash, nar_size |-> info.narSize,
   references |-> info.references, deriver |-> info.deriver,
   signatures |-> info.signatures, ca |-> info.ca]

\* A NarInfoPayload and the NarInfo that the server makes of it.
NarinfoPayload(n) ==
  [n EXCEPT !.nar_hash = RenderText(n.nar_hash), !.ca = FormatForNarinfo(n.ca)]

ValidatePublishNarinfo(n) ==
  /\ IsStorePath(n.store_path)
  /\ IsNarPath(n.url)
  /\ NarCompression(n.compression) = n.url.compression
  /\ Normalizable(n.nar_hash)
  /\ n.url.digits = Normalized(n.nar_hash).digest.data
  /\ \A i \in DOMAIN n.references : IsStorePath(n.references[i])
  /\ n.deriver = NoPath \/ IsStorePath(n.deriver)

-----------------------------------------------------------------------------
\* Texts of narinfos, and signatures

SingleFields == {"StorePath", "URL", "Compression", "NarHash", "NarSize", "References"}

\* "malformed": some line has no colon, or the NarSize is no number.
Parses(text) ==
  /\ ~text.malformed
  /\ \A field \in SingleFields : Len(text[field]) = 1
  /\ Len(text.Deriver) <= 1
  /\ Len(text.CA) <= 1

ParseNarinfo(text) ==
  [store_path |-> text.StorePath[1], url |-> text.URL[1], compression |-> text.Compression[1],
   nar_hash |-> text.NarHash[1], nar_size |-> text.NarSize[1],
   references |-> [i \in DOMAIN text.References[1] |-> ExpandDisplayPath(text.References[1][i])],
   deriver |-> IF text.Deriver = <<>> THEN NoPath ELSE ExpandDisplayPath(text.Deriver[1]),
   signatures |-> text.Sig, ca |-> IF text.CA = <<>> THEN NoCa ELSE text.CA[1]]

SortedReferences(n) == InTextOrder(n.references)

RenderNarinfo(n, signatures) ==
  LET refs == SortedReferences(n)
  IN  [StorePath |-> <<n.store_path>>, URL |-> <<n.url>>, Compression |-> <<n.compression>>,
       NarHash |-> <<Normalized(n.nar_hash)>>, NarSize |-> <<n.nar_size>>,
       References |-> << [i \in DOMAIN refs |-> DisplayPath(refs[i])] >>,
       Deriver |-> IF n.deriver = NoPath THEN <<>> ELSE <<DisplayPath(n.deriver)>>,
       Sig |-> SortedBy(signatures, [i \in DOMAIN signatures |-> signatures[i].key]),
       CA |-> IF n.ca = NoCa THEN <<>> ELSE <<FormatForNarinfo(n.ca)>>,
       unknown |-> {}, malformed |-> FALSE]

Fingerprintable(n) ==
  /\ InStoreDir(n.store_path)
  /\ Normalizable(n.nar_hash)
  /\ \A i \in DOMAIN n.references : InStoreDir(n.references[i])

\* Mutant: references in the order in which they were registered.
FingerprintAsListed(n) ==
  [path |-> n.store_path, hash |-> Normalized(n.nar_hash), size |-> n.nar_size,
   references |-> n.references]

Fingerprint(n) ==
  [path |-> n.store_path, hash |-> Normalized(n.nar_hash), size |-> n.nar_size,
   references |-> SortedReferences(n)]

Sign(n, keys) == [i \in DOMAIN keys |-> [key |-> keys[i], over |-> Fingerprint(n)]]

SignedOnlyHere(n, keys) == RenderNarinfo(n, Sign(n, keys))  \* mutant

SignedNarinfo(n, keys) == RenderNarinfo(n, n.signatures \o Sign(n, keys))

=============================================================================
