------------------------------ MODULE Narinfos ------------------------------
(***************************************************************************)
(* The journey of a narinfo: what "nix path-info" printed is made into a   *)
(* payload by a push client, validated and stored by the server, rendered  *)
(* and signed for a reader, and parsed and signed again by another depot   *)
(* that has this one, or a foreign cache, as its upstream.                 *)
(*                                                                         *)
(* One server's table of path infos, the text it served last and the text  *)
(* that a second depot relayed last; rows are never deleted or updated.    *)
(***************************************************************************)
EXTENDS NixFormats

CONSTANTS
  Words,         \* names of algorithms, methods, compressions, kinds of URLs and fields
  PathInfos,     \* entries of the output of nix path-info
  Posted,        \* narinfos that other API clients register
  ForeignTexts,  \* narinfo texts of caches that are no depots
  SigningKeys,   \* sequences of keys with which the server signs for a view
  RelayKeys      \* those of the second depot

VARIABLES
  pathInfos,   \* table path_infos with path_references and path_signatures
  registered,  \* history: the facts of the registrations that were accepted
  served,      \* the text served last, if any
  relayed      \* the text relayed last and its source, if any

vars == <<pathInfos, registered, served, relayed>>

-----------------------------------------------------------------------------
\* How Nix reads the same values: the reference for what follows.

\* Digits count from the most significant, bytes from the least.
Number(base, digits) ==
  LET sum[k \in 0..Len(digits)] == IF k = 0 THEN 0 ELSE base * sum[k - 1] + digits[k]
  IN  sum[Len(digits)]

BytesNumber(bytes) == Number(256, Reverse(bytes))
DigitsNumber(digits) == Number(32, digits)

HashValue(hash) ==
  [algorithm |-> hash.algorithm,
   number |-> IF hash.digest.alphabet = "nix32"
              THEN DigitsNumber(hash.digest.data)
              ELSE BytesNumber(hash.digest.data)]

\* A content address is readable as text only with a colon before the digest.
CaValue(ca) ==
  [method |-> ca.method, hash |-> HashValue(ca.hash),
   readable |-> ~ca.raw \/ ca.method = "none" \/ ca.hash.form = "colon"]

Facts(n) ==
  [path |-> n.store_path, hash |-> HashValue(n.nar_hash), size |-> n.nar_size,
   references |-> ToSet(n.references), deriver |-> n.deriver, ca |-> CaValue(n.ca),
   compression |-> n.compression]

\* The push client always compresses with zstd.
PrintedFacts(entry) ==
  LET info == ParsePathInfo(entry)
  IN  [path |-> info.path, hash |-> HashValue(info.narHash), size |-> info.narSize,
       references |-> ToSet(info.references), deriver |-> info.deriver,
       ca |-> CaValue(info.ca), compression |-> "zstd"]

NixPath(name) ==
  [absolute |-> TRUE,
   segments |-> IF name.absolute THEN name.segments ELSE StoreDir \o name.segments]

\* An empty Compression is bzip2 to Nix, and none to a depot.
Unnamed == ""

NixCompression(name) == IF name = Unnamed THEN "bzip2" ELSE name

NixReads(text) ==
  [path |-> text.StorePath[1], hash |-> HashValue(text.NarHash[1]), size |-> text.NarSize[1],
   references |-> {NixPath(text.References[1][i]) : i \in DOMAIN text.References[1]},
   deriver |-> IF text.Deriver = <<>> THEN NoPath ELSE NixPath(text.Deriver[1]),
   ca |-> CaValue(IF text.CA = <<>> THEN NoCa ELSE text.CA[1]),
   compression |-> NixCompression(text.Compression[1])]

\* What Nix expects to be signed: its sorted set of references, and the hash in nix32.
NixFingerprint(facts) ==
  [path |-> facts.path, hash |-> facts.hash, size |-> facts.size,
   references |-> InTextOrder(SetToSeq(facts.references))]

Verifies(signature, facts) ==
  LET over == signature.over
  IN  NixFingerprint(facts) = [over EXCEPT !.hash = HashValue(over.hash)]

-----------------------------------------------------------------------------
\* What comes from outside, as Nix writes it.

Digests == [alphabet : {"base64", "nix32", "base16", "none"}, data : Seq(Nat)]

HashTexts ==
  {hash \in [form : Base64Forms \cup Nix32Forms \cup OtherForms, algorithm : Words,
             digest : Digests] :
     /\ hash.form \in Base64Forms => hash.digest.alphabet = "base64"
     /\ \A i \in DOMAIN hash.digest.data :
          hash.digest.data[i] < IF hash.digest.alphabet = "nix32" THEN 32 ELSE 256}

Whole(hash) ==
  hash.algorithm = "sha256" /\ hash.form \in Base64Forms => Len(hash.digest.data) = DigestBytes

CaTexts == [raw : BOOLEAN, method : Words, hash : HashTexts]

\* A structured one is not in base16; one with a sha256 is whole, and in nix32 as a text.
IsContentAddress(ca) ==
  \/ ca = NoCa
  \/ /\ ca.hash.algorithm # "none"
     /\ ca.hash.form = "base16" => ca.raw
     /\ ca.hash.algorithm = "sha256" =>
          Normalizable(ca.hash) /\ Whole(ca.hash) /\ (ca.raw => ca.hash.form = "colon")

Urls == [kind : Words, digits : Seq(0..31), compression : Words]

\* References are a set to Nix, which lists each of them once.
ReferenceLists == {refs \in Seq(DOMAIN TextOrder) : IsInjective(refs)}

Signatures ==
  [key : Nat, over : [path : Paths, hash : HashTexts, size : Nat, references : ReferenceLists]]

AllVerify(signatures, facts) == \A i \in DOMAIN signatures : Verifies(signatures[i], facts)

NarInfos ==
  [store_path : Paths, url : Urls, compression : Words, nar_hash : HashTexts, nar_size : Nat,
   references : ReferenceLists, deriver : Paths, signatures : Seq(Signatures), ca : CaTexts]

Texts ==
  [StorePath : Seq(Paths), URL : Seq(Urls), Compression : Seq(Words), NarHash : Seq(HashTexts),
   NarSize : Seq(Nat), References : Seq(Seq(Paths)), Deriver : Seq(Paths),
   Sig : Seq(Signatures), CA : Seq(CaTexts), unknown : SUBSET Words, malformed : BOOLEAN]

\* A path is written as a name in the store directory or in full.
IsName(path) == ~path.absolute \/ InStoreDir(path)

ASSUME InputConstants ==
  /\ Compressions \cup {"sha256", "nar"} \subseteq Words
  /\ SigningKeys \subseteq Seq(Nat) /\ RelayKeys \subseteq Seq(Nat)
  /\ \A entry \in PathInfos :
       LET info == ParsePathInfo(entry)
       IN  /\ info \in [path : Paths, narHash : HashTexts, narSize : Nat,
                        references : ReferenceLists, deriver : Paths,
                        signatures : Seq(Signatures), ca : CaTexts]
           /\ Whole(info.narHash) /\ IsContentAddress(info.ca)
           /\ AllVerify(info.signatures, PrintedFacts(entry))
  /\ \A n \in Posted :
       n \in NarInfos /\ n.ca.raw /\ IsContentAddress(n.ca) /\ AllVerify(n.signatures, Facts(n))
  /\ \A text \in ForeignTexts :
       /\ text \in Texts
       /\ Parses(text) /\ Fingerprintable(ParseNarinfo(text)) =>
            /\ ParseNarinfo(text).references \in ReferenceLists
            /\ \A i \in DOMAIN text.References[1] : IsName(text.References[1][i])
            /\ \A i \in DOMAIN text.Deriver : IsName(text.Deriver[i])
            /\ \A i \in DOMAIN text.CA : text.CA[i].raw
            /\ AllVerify(text.Sig, NixReads(text))

-----------------------------------------------------------------------------
\* The server

StoredAsGiven(n) == n  \* mutant: the hash as the client wrote it

StoredRow(n) ==
  [n EXCEPT !.nar_hash = Normalized(n.nar_hash), !.ca = FormatForNarinfo(n.ca)]

\* Mutants: only the NAR is compared; references are compared in their order.
CompatibleNar(existing, incoming) ==
  /\ existing.store_path = incoming.store_path
  /\ existing.url = incoming.url
  /\ existing.compression = incoming.compression
  /\ existing.nar_size = incoming.nar_size

CompatibleAsListed(existing, incoming) ==
  /\ CompatibleNar(existing, incoming)
  /\ existing.references = incoming.references
  /\ existing.deriver = incoming.deriver
  /\ FormatForNarinfo(existing.ca) = FormatForNarinfo(incoming.ca)

Compatible(existing, incoming) ==
  /\ existing.store_path = incoming.store_path
  /\ existing.url = incoming.url
  /\ existing.compression = incoming.compression
  /\ Normalized(existing.nar_hash) = Normalized(incoming.nar_hash)
  /\ existing.nar_size = incoming.nar_size
  /\ SortedReferences(existing) = SortedReferences(incoming)
  /\ existing.deriver = incoming.deriver
  /\ FormatForNarinfo(existing.ca) = FormatForNarinfo(incoming.ca)

Accepts(n) ==
  /\ ValidatePublishNarinfo(n)
  /\ n.nar_size <= MaxNarSize
  /\ LET hash == StorePathHash(n.store_path)
     IN  hash \in DOMAIN pathInfos => Compatible(pathInfos[hash], n)

UpsertPathInfo(n) ==
  LET hash == StorePathHash(n.store_path)
  IN  pathInfos' = IF hash \in DOMAIN pathInfos
                   THEN pathInfos
                   ELSE [h \in DOMAIN pathInfos \cup {hash} |->
                           IF h = hash THEN StoredRow(n) ELSE pathInfos[h]]

Register(n, facts) ==
  /\ Accepts(n)
  /\ UpsertPathInfo(n)
  /\ registered' = registered \cup {facts}
  /\ UNCHANGED <<served, relayed>>

\* A push: the client refuses what it cannot normalize.
Push(entry) ==
  LET info == ParsePathInfo(entry)
  IN  /\ Normalizable(info.narHash)
      /\ Register(NarinfoPayload(NarinfoFromPathInfo(info)), PrintedFacts(entry))

Serve(hash, keys) ==
  /\ served' = <<SignedNarinfo(pathInfos[hash], keys)>>
  /\ UNCHANGED <<pathInfos, registered, relayed>>

\* A second depot renders what its upstream serves; any error is its answer.
Relay(text, keys) ==
  /\ Parses(text)
  /\ Fingerprintable(ParseNarinfo(text))
  /\ relayed' = <<[source |-> text, text |-> SignedNarinfo(ParseNarinfo(text), keys)]>>
  /\ UNCHANGED <<pathInfos, registered, served>>

Init ==
  /\ pathInfos = <<>>
  /\ registered = {}
  /\ served = <<>>
  /\ relayed = <<>>

Next ==
  \/ \E entry \in PathInfos : Push(entry)
  \/ \E n \in Posted : Register(n, Facts(n))
  \/ \E hash \in DOMAIN pathInfos, keys \in SigningKeys : Serve(hash, keys)
  \/ \E text \in ToSet(served) \cup ForeignTexts, keys \in RelayKeys : Relay(text, keys)

Spec == Init /\ [][Next]_vars

-----------------------------------------------------------------------------
\* Properties

(***************************************************************************)
(* Every row is a narinfo that the server would accept again as it stands, *)
(* under the hash of its store path, with its NAR hash and its content     *)
(* address in the form in which they are compared and served.              *)
(***************************************************************************)
TypeOK ==
  /\ \A hash \in DOMAIN pathInfos :
       LET row == pathInfos[hash]
       IN  /\ StorePathHash(row.store_path) = hash
           /\ ValidatePublishNarinfo(row)
           /\ row.nar_hash = Normalized(row.nar_hash)
           /\ row.ca.raw
  /\ Len(served) <= 1
  /\ Len(relayed) <= 1

\* What is said of a path, whatever it takes to read it.
Content(facts) ==
  [path |-> facts.path, hash |-> facts.hash, size |-> facts.size,
   references |-> facts.references, deriver |-> facts.deriver,
   method |-> facts.ca.method, caHash |-> facts.ca.hash]

\* The content addresses that format_for_narinfo always writes as Nix does: none, or
\* a sha256.  A structured one with another algorithm gets a dash before its digest,
\* which Nix does not read, and in which it differs from the text of an older Nix.
HasUsualCa(facts) == facts.ca.hash.algorithm \in {"none", "sha256"}

(***************************************************************************)
(* Whoever registered a path and was answered without an error finds it    *)
(* served as registered, whatever was registered before or after: the      *)
(* text says the same of the path, of the hash and size of its NAR, its    *)
(* references, deriver and content address, and its URL names the NAR of   *)
(* that hash and compression.  Nix also reads its compression, unless none *)
(* was named, and can read its content address if it is a usual one.       *)
(***************************************************************************)
AcceptedIsServed ==
  \A facts \in registered :
    LET hash == StorePathHash(facts.path)
        text == SignedNarinfo(pathInfos[hash], <<>>)
        read == NixReads(text)
    IN  /\ hash \in DOMAIN pathInfos
        /\ Content(read) = Content(facts)
        /\ facts.compression # Unnamed => read.compression = facts.compression
        /\ HasUsualCa(facts) => read.ca.readable = facts.ca.readable
        /\ DigitsNumber(text.URL[1].digits) = facts.hash.number
        /\ text.URL[1].compression = NarCompression(facts.compression)

(***************************************************************************)
(* A path without content address, or with one of sha256, that was         *)
(* registered can be registered again from any output of Nix that says the *)
(* same of it: another encoding of its hashes, another order of its        *)
(* references or other signatures are no conflict.                         *)
(***************************************************************************)
ReprintIsNoConflict ==
  \A entry \in PathInfos :
    LET info == ParsePathInfo(entry)
        facts == PrintedFacts(entry)
    IN  facts \in registered /\ HasUsualCa(facts) /\ Normalizable(info.narHash)
          => Accepts(NarinfoPayload(NarinfoFromPathInfo(info)))

(***************************************************************************)
(* Every signature in a text that a depot serves or relays, its own or one *)
(* it received, verifies against what Nix reads in that same text.         *)
(***************************************************************************)
SignaturesVerify ==
  \A text \in ToSet(served) \cup {relayed[i].text : i \in DOMAIN relayed} :
    \A i \in DOMAIN text.Sig : Verifies(text.Sig[i], NixReads(text))

(***************************************************************************)
(* Nix reads the same in a relayed narinfo as in the one of the upstream,  *)
(* finds the NAR under the same URL, and finds every signature of the      *)
(* upstream.                                                               *)
(***************************************************************************)
RelayKeepsSource ==
  \A i \in DOMAIN relayed :
    LET source == relayed[i].source
        text == relayed[i].text
    IN  /\ NixReads(text) = NixReads(source)
        /\ text.URL = source.URL
        /\ ToSet(source.Sig) \subseteq ToSet(text.Sig)

(***************************************************************************)
(* What the proofs rest on: a row can be read back field by field, and     *)
(* says what was registered; so can the text that was served.              *)
(***************************************************************************)
Presentable(n) ==
  /\ n \in NarInfos
  /\ Fingerprintable(n)
  /\ n.deriver = NoPath \/ InStoreDir(n.deriver)
  /\ n.ca.raw
  /\ AllVerify(n.signatures, Facts(n))

AsNixReads(facts) == [facts EXCEPT !.compression = NixCompression(@)]

ReadAlike(text) ==
  /\ Presentable(ParseNarinfo(text))
  /\ AsNixReads(Facts(ParseNarinfo(text))) = NixReads(text)
  /\ text.URL = <<ParseNarinfo(text).url>>
  /\ AllVerify(text.Sig, NixReads(text))

RowsPresentable ==
  \A hash \in DOMAIN pathInfos :
    LET row == pathInfos[hash]
    IN  Presentable(row) /\ IsContentAddress(row.ca) /\ row.nar_size <= MaxNarSize

Tells(n, facts) ==
  /\ Content(Facts(n)) = Content(facts)
  /\ n.compression = facts.compression
  /\ HasUsualCa(facts) => CaValue(n.ca).readable = facts.ca.readable

RowsSayWhatWasRegistered ==
  \A facts \in registered :
    LET hash == StorePathHash(facts.path)
    IN  hash \in DOMAIN pathInfos /\ Tells(pathInfos[hash], facts)

NarinfosInv ==
  /\ TypeOK
  /\ RowsPresentable
  /\ RowsSayWhatWasRegistered
  /\ \A i \in DOMAIN served : ReadAlike(served[i])
  /\ \A i \in DOMAIN relayed : AllVerify(relayed[i].text.Sig, NixReads(relayed[i].text))
  /\ RelayKeepsSource

=============================================================================
