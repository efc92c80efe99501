------------------------------ MODULE MCReaders ------------------------------
EXTENDS Readers

MCNames == {"../up", "assets/x", "audit.log", "C:x", "constructor", "content.md",
            "encryption/policy.yaml", "manifest.json", "metadata.yaml", "schema.yaml",
            "signatures/a.sig", "signatures/b.sig"}
MCOrder == <<"../up", "C:x", "assets/x", "audit.log", "constructor", "content.md",
             "encryption/policy.yaml", "manifest.json", "metadata.yaml", "schema.yaml",
             "signatures/a.sig", "signatures/b.sig">>
MCSignatures == {"signatures/a.sig", "signatures/b.sig"}
MCNameBytes  == [n \in MCNames |-> IF n = "../up" THEN 7 ELSE IF n \in MCSignatures THEN 4
                              ELSE IF n = "content.md" THEN 1 ELSE 2]

Text(anchors) == [kind |-> "text", anchors |-> anchors]
Cipher  == [kind |-> "cipher"]
Picture == [kind |-> "asset"]
Log     == [kind |-> "log"]
Titled  == [kind |-> "metadata"]
Section(id, required) == [id |-> id, required |-> required]
Schema(sections, flush) == [kind |-> "schema", sections |-> sections, flush |-> flush]
Sealing(list, flush, attested, bound, recipients) ==
  [kind |-> "policy", list |-> list, flush |-> flush, attested |-> attested, bound |-> bound,
   recipients |-> recipients, method |-> recipients # {}]
Listing(files, algorithm) == [kind |-> "manifest", algorithm |-> algorithm, files |-> files]

\* A folder, its manifest, and the signatures of that manifest.
Without(d, ns) == [n \in DOMAIN d \ ns |-> d[n]]
Sealed(d, unlisted, algorithm, sigs) ==
  LET m == Listing(Without(d, unlisted \union Excluded), algorithm)
  IN  d @@ ("manifest.json" :> m) @@ [f \in DOMAIN sigs |-> sigs[f] @@ [over |-> m]]

Sig(alg, kid, newline) == [kind |-> "signature", alg |-> alg, kid |-> kid, newline |-> newline]
Good == Sig("EdDSA", "EdDSA", FALSE)
Two  == [f \in MCSignatures |-> Good]

Plain  == ("content.md" :> Text({"a"})) @@ ("schema.yaml" :> Schema(<<Section("a", TRUE)>>, FALSE))
Bare   == "content.md" :> Text({})
Hidden(policy, schema) ==
  ("content.md" :> Cipher) @@ (Policy :> policy) @@ ("schema.yaml" :> schema)
Ab == <<Section("a", TRUE), Section("b", FALSE), Section("", TRUE)>>

Folders ==
  { \* a whole document, signed twice
    Sealed(Plain @@ ("assets/x" :> Picture) @@ ("audit.log" :> Log), {}, "sha256", Two),
    \* sections that do not bind, in a list that is and is not indented; nothing is signed
    Sealed(("content.md" :> Text({"b"})) @@ ("schema.yaml" :> Schema(Ab, FALSE)), {}, "sha256", << >>),
    Sealed(("content.md" :> Text({"b"})) @@ ("schema.yaml" :> Schema(Ab, TRUE)), {}, "sha256", << >>),
    \* sealed and attested, in a list that is and is not indented
    Sealed(Hidden(Sealing(<<"content.md">>, FALSE, TRUE, {"a"}, {"good"}), Schema(Ab, FALSE)), {}, "sha256", Two),
    Sealed(Hidden(Sealing(<<"content.md">>, TRUE, TRUE, {"a"}, {"unresolvable"}), Schema(Ab, FALSE)), {}, "sha256", << >>),
    \* sealed without an attestation, and with one nobody can check
    Sealed(Hidden(Sealing(<<"content.md">>, FALSE, FALSE, {}, {}), Schema(Ab, FALSE)), {}, "sha256", << >>),
    Sealed(Hidden(Sealing(<<"content.md", "schema.yaml", "assets/x">>, FALSE, TRUE, {"a"}, {"incomplete"}), Cipher),
           {}, "sha256", << >>),
    \* nothing to attest to, and a policy for a schema.yaml that is plain
    Sealed(Hidden(Sealing(<<"content.md">>, FALSE, FALSE, {}, {}), Schema(<< >>, FALSE)), {}, "sha256", << >>),
    Sealed(("content.md" :> Text({"b"})) @@ ("schema.yaml" :> Schema(Ab, FALSE))
             @@ (Policy :> Sealing(<<"schema.yaml">>, FALSE, FALSE, {}, {"good"})), {}, "sha256", << >>),
    \* a policy for members that are not content.md, and an empty one
    Sealed(Bare @@ ("metadata.yaml" :> Cipher) @@ (Policy :> Sealing(<<"metadata.yaml">>, FALSE, TRUE, {}, {"good"})),
           {}, "sha256", << >>),
    Sealed(Bare @@ ("metadata.yaml" :> Titled) @@ (Policy :> Sealing(<< >>, FALSE, FALSE, {}, {"good"})), {}, "md5", << >>),
    \* signatures that do not verify, each in its way
    Sealed(Bare, {}, "sha256", [f \in MCSignatures |->
             IF f = "signatures/a.sig" THEN Sig("EdDSA", "no point", FALSE) ELSE Sig("EdDSA", "EdDSA", TRUE)]),
    Sealed(Bare, {}, "sha256", [f \in MCSignatures |->
             IF f = "signatures/a.sig" THEN Sig("ES256", "EdDSA", FALSE) ELSE Sig("none", "EdDSA", FALSE)]),
    Sealed(Bare, {}, "sha256", [f \in MCSignatures |->
             IF f = "signatures/a.sig" THEN Sig("EdDSA", "no did:key", FALSE) ELSE Sig("ES256", "no base58", FALSE)]),
    \* members no manifest lists
    Sealed(Bare @@ ("constructor" :> Picture) @@ ("assets/x" :> Picture), {"constructor", "assets/x"}, "sha256", << >>),
    \* paths that leave the container, and a schema that does not parse
    Sealed(Bare @@ ("../up" :> Picture), {}, "sha256", << >>),
    Sealed(Bare @@ ("C:x" :> Picture), {}, "sha256", << >>),
    Sealed(Bare @@ ("schema.yaml" :> Picture), {}, "sha256", << >>)
  }

\* A content is the number of what it parses to, the smaller ones first.
Additions  == {<<"content.md", Text({"a", "b"})>>, <<"assets/x", Picture>>}
Bytes(v)   == CASE v.kind \in {"text", "manifest"} -> 4
                [] v.kind \in {"cipher", "policy", "schema"} -> 3
                [] v.kind = "log" -> 0
                [] OTHER -> 2
Values     == UNION {{d[n] : n \in DOMAIN d} : d \in Folders} \union {e[2] : e \in Additions}
Meanings   == FoldLeft(LAMBDA all, size : FoldSet(LAMBDA v, seq : Append(seq, v), all, {v \in Values : Bytes(v) = size}),
                       << >>, <<0, 2, 3, 4>>)
MCGarbage  == 0
MCMeaning  == [c \in DOMAIN Meanings \union {MCGarbage} |->
                 IF c = MCGarbage THEN [kind |-> "garbage"] ELSE Meanings[c]]
MCSize     == [c \in 1 .. 42 |-> IF c <= 1 THEN 0 ELSE IF c <= 11 THEN 2 ELSE IF c <= 23 THEN 3 ELSE 4]

\* Contents and their sizes are given as numbers; they are those of Meanings.
ASSUME MCContents == Contents = DOMAIN Meanings /\ \A c \in Contents : Size[c] = Bytes(Meanings[c])
Number(v)  == CHOOSE c \in DOMAIN Meanings : Meanings[c] = v

MCDocuments == {[n \in DOMAIN d |-> Number(d[n])] : d \in Folders} \union {<< >>}
\* Arenas: not even for the reader; for one entry and no name; for some entries; and what is
\* published for the first folder.
MCRooms == {4, 7, 20, 45}

MCExtras    == {<<e[1], Number(e[2])>> : e \in Additions}
=============================================================================
