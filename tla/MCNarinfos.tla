----------------------------- MODULE MCNarinfos -----------------------------
(***************************************************************************)
(* Constants for TLC: two store paths as several versions of Nix print     *)
(* them, narinfos posted by other clients, and texts of foreign caches.    *)
(* A sha256 digest has 3 bytes, and 5 digits in nix32.                     *)
(***************************************************************************)
EXTENDS Narinfos

Dir(name) == [hash |-> 0, name |-> name]
MCStoreDir == <<Dir("nix"), Dir("store")>>

In(dir, hash, name) == [absolute |-> TRUE, segments |-> dir \o <<[hash |-> hash, name |-> name]>>]
Hello == In(MCStoreDir, 1, "hello")
Glibc == In(MCStoreDir, 2, "glibc")
Drv == In(MCStoreDir, 3, "hello.drv")
NoHashName == In(MCStoreDir, 0, "hello")
Elsewhere == In(<<Dir("opt"), Dir("store")>>, 1, "hello")
Named(hash, name) == [absolute |-> FALSE, segments |-> <<[hash |-> hash, name |-> name]>>]
MCSegments ==
  [hash : 0..3, name : {"nix", "opt", "store", "hello", "glibc", "hello.drv", "unknown-deriver"}]
SortedPaths == <<Hello, Glibc, Drv, NoHashName, Elsewhere>>
MCTextOrder == [p \in ToSet(SortedPaths) |-> CHOOSE i \in DOMAIN SortedPaths : SortedPaths[i] = p]

MCWords == STRING

HelloBytes == <<159, 1, 240>>
GlibcBytes == <<0, 77, 8>>

Hash(form, algorithm, alphabet, data) ==
  [form |-> form, algorithm |-> algorithm, digest |-> [alphabet |-> alphabet, data |-> data]]
Bytes(form, bytes) == Hash(form, "sha256", "base64", bytes)
Digits(form, bytes) == Hash(form, "sha256", "nix32", EncodeNixBase32(bytes))
Hex(form, bytes) == Hash(form, "sha256", "base16", bytes)
Sha512(form) ==
  LET bytes == <<7, 7, 200, 1>>
  IN  IF form = "colon" THEN Hash(form, "sha512", "nix32", EncodeNixBase32(bytes))
      ELSE Hash(form, "sha512", "base64", bytes)

Builder == 9
BuiltHello ==
  [key |-> Builder, over |-> [path |-> Hello, hash |-> Digits("colon", HelloBytes), size |-> 5,
                              references |-> <<Hello, Glibc>>]]

HelloInfo == [path |-> Hello, narHash |-> Bytes("sri", HelloBytes), narSize |-> 5,
              references |-> <<Glibc, Hello>>, deriver |-> Drv, signatures |-> <<BuiltHello>>]
GlibcInfo == [path |-> Glibc, narHash |-> Bytes("base64", GlibcBytes), narSize |-> 9,
              ca |-> [raw |-> FALSE, method |-> "nar", hash |-> Bytes("base64", GlibcBytes)]]

MCPathInfos ==
  {HelloInfo,
   \* the same from another version of Nix, after a collection of the deriver, and rebuilt
   [HelloInfo EXCEPT !.narHash = Digits("nix32", HelloBytes), !.references = <<Hello, Glibc>>,
                     !.signatures = <<>>],
   [HelloInfo EXCEPT !.narHash = Digits("colon", HelloBytes), !.deriver = NoPath],
   [HelloInfo EXCEPT !.narHash = Bytes("unspecified", GlibcBytes), !.signatures = <<>>],
   [HelloInfo EXCEPT !.narHash = Hex("base16", HelloBytes)],
   GlibcInfo,
   [GlibcInfo EXCEPT !.narHash = Digits("colon", GlibcBytes), 
                     !.ca = [raw |-> TRUE, method |-> "nar", hash |-> Digits("colon", GlibcBytes)]],
   \* a content address of another algorithm, as two versions print it
   [GlibcInfo EXCEPT !.ca = [raw |-> FALSE, method |-> "flat", hash |-> Sha512("base64")]],
   [GlibcInfo EXCEPT !.ca = [raw |-> TRUE, method |-> "flat", hash |-> Sha512("colon")]],
   [path |-> Glibc, narHash |-> Bytes("sri", GlibcBytes), narSize |-> 9],
   [GlibcInfo EXCEPT !.narSize = MaxNarSize + 1]}

Plain == [store_path |-> Hello, url |-> NarUrl(EncodeNixBase32(HelloBytes), "none"),
          compression |-> "none", nar_hash |-> Bytes("sri", HelloBytes), nar_size |-> 5,
          references |-> <<Glibc>>, deriver |-> NoPath, signatures |-> <<>>, ca |-> NoCa]
MCPosted ==
  {Plain,
   [Plain EXCEPT !.compression = ""],
   [Plain EXCEPT !.compression = "xz"],
   [Plain EXCEPT !.url = NarUrl(EncodeNixBase32(GlibcBytes), "none")],
   [Plain EXCEPT !.url = [kind |-> "log", digits |-> <<>>, compression |-> ""]],
   [Plain EXCEPT !.nar_hash = Hex("colon", HelloBytes)],
   [Plain EXCEPT !.nar_hash = Hash("sri", "sha512", "base64", HelloBytes)],
   [Plain EXCEPT !.references = <<NoHashName>>],
   [Plain EXCEPT !.deriver = Elsewhere],
   [Plain EXCEPT !.store_path = Elsewhere],
   [Plain EXCEPT !.store_path = NoHashName]}

\* A text as Nix writes it, with the hash and size of the file, and an unknown deriver.
Foreign ==
  [StorePath |-> <<Hello>>, URL |-> <<[kind |-> "foreign", digits |-> <<>>, compression |-> ""]>>, Compression |-> <<"zstd">>,
   NarHash |-> <<Bytes("sri", HelloBytes)>>, NarSize |-> <<5>>,
   References |-> << <<Named(2, "glibc"), Named(1, "hello")>> >>,
   Deriver |-> <<Named(0, "unknown-deriver")>>,
   Sig |-> <<BuiltHello>>, CA |-> <<>>, unknown |-> {"FileHash", "FileSize"}, malformed |-> FALSE]
MCForeignTexts ==
  {Foreign,
   [Foreign EXCEPT !.References = << <<>> >>, !.Deriver = <<>>, !.Sig = <<>>,
                   !.CA = <<[raw |-> TRUE, method |-> "flat", hash |-> Digits("colon", GlibcBytes)]>>],
   [Foreign EXCEPT !.NarHash = <<Hex("colon", HelloBytes)>>],
   [Foreign EXCEPT !.Compression = <<"">>],
   [Foreign EXCEPT !.References = <<>>],
   [Foreign EXCEPT !.Deriver = <<Named(3, "hello.drv"), Named(3, "hello.drv")>>],
   [Foreign EXCEPT !.StorePath = <<Elsewhere>>],
   [Foreign EXCEPT !.malformed = TRUE]}

MCSigningKeys == {<<>>, <<1>>, <<2>>}
MCRelayKeys == {<<>>, <<3>>}
=============================================================================
