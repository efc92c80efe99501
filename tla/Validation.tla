------------------------------ MODULE Validation ------------------------------
(***************************************************************************)
(* The profile ladder, three times over: validate.cpp of the C++ library,  *)
(* validate.ts of the TypeScript engine, and what the C reader evaluates   *)
(* of it (validate.c, verify.c).  Each is a function from a container, a   *)
(* mapping of names to values, to its set of issues: a code and what it is *)
(* about.                                                                  *)
(*                                                                         *)
(* A value is a record of its kind.  The parsers are not modelled: a value *)
(* of the wrong kind does not parse, except that anything is Markdown, and *)
(* that the C reader's line scanners take what they do not recognise for   *)
(* nothing.  The digest of a value is the value.                           *)
(***************************************************************************)
EXTENDS Naturals, Sequences, SequencesExt

CONSTANTS
  Signatures, \* names of the form signatures/*.sig
  Inherited   \* names every JavaScript object has, such as constructor

Policy == "encryption/policy.yaml"

\* What the parsers give: of a did:key the algorithm, or where its decoding stops.
Kids == {"EdDSA", "ES256", "no did:key", "no type of key", "no base58", "no point"}
WellTyped(v) ==
  /\ v.kind = "policy"    => v.list \in Seq(ToSet(v.list)) /\ {v.flush, v.attested, v.method} \subseteq BOOLEAN
  /\ v.kind = "schema"    => v.sections \in Seq(ToSet(v.sections)) /\ v.flush \in BOOLEAN
  /\ v.kind = "signature" => v.kid \in Kids /\ v.newline \in BOOLEAN

Has(c, n)      == n \in DOMAIN c
Is(c, n, kind) == Has(c, n) /\ c[n].kind = kind

Levels == <<"core", "integrity", "signed", "encrypted", "render">>
AtLeast(level, floor) ==
  \E i, j \in DOMAIN Levels : Levels[i] = level /\ Levels[j] = floor /\ i >= j

Excluded == {"manifest.json", "audit.log", "audit.checkpoint"} \union Signatures

\* The anchors of the top-level headings of content.md, which binds to nothing if it is none.
Anchors(c) == IF Is(c, "content.md", "text") THEN c["content.md"].anchors ELSE {}

Missing(sections, bound) ==
  {<<IF s.required THEN "E_REQUIRED_SECTION_MISSING" ELSE "E_SCHEMA_UNBOUND", s.id>> :
     s \in {t \in ToSet(sections) : t.id # "" /\ t.id \notin bound}}

----------------------------------------------------------------------------
(* The C++ library. *)

\* sealed_members: nothing, if the policy does not parse.
CppSealed(c) == IF Is(c, Policy, "policy") THEN ToSet(c[Policy].list) ELSE {}

\* Mutant: ciphertext has to parse.
CppLoadsPlain(c) ==
  \A f \in {<<"metadata.yaml", "metadata">>, <<"schema.yaml", "schema">>,
             <<"manifest.json", "manifest">>} : Has(c, f[1]) => c[f[1]].kind = f[2]

\* load_document: a member that has to parse and does not fails the load.
CppLoads(c) ==
  /\ \A f \in {<<"metadata.yaml", "metadata">>, <<"schema.yaml", "schema">>} :
       Has(c, f[1]) /\ f[1] \notin CppSealed(c) => c[f[1]].kind = f[2]
  /\ Has(c, "manifest.json") => c["manifest.json"].kind = "manifest"

CppCore(c) ==
  LET sealed  == "content.md" \in CppSealed(c)
      unknown == ~Is(c, Policy, "policy") \/ ~c[Policy].attested
      bound   == IF sealed THEN c[Policy].bound ELSE Anchors(c)
  IN  (IF Has(c, "content.md") THEN {} ELSE {<<"E_MISSING_CONTENT", "content.md">>})
        \union
      (IF ~Has(c, "schema.yaml") \/ "schema.yaml" \in CppSealed(c) THEN {}
       ELSE IF sealed /\ unknown THEN {<<"E_POLICY_INVALID", Policy>>}
       ELSE Missing(c["schema.yaml"].sections, bound))

\* check_integrity and verify_manifest.
CppIntegrity(c) ==
  IF ~Has(c, "manifest.json") THEN {<<"E_MISSING_MANIFEST", "manifest.json">>}
  ELSE IF c["manifest.json"].algorithm # "sha256" THEN {<<"E_ALGO_NOT_ALLOWED", "manifest.json">>}
  ELSE LET files == c["manifest.json"].files
       IN  {<<"E_MANIFEST_MISSING_FILE", n>> : n \in DOMAIN files \ DOMAIN c}
             \union {<<"E_MANIFEST_HASH_MISMATCH", n>> :
                       n \in {m \in DOMAIN files \intersect DOMAIN c : c[m] # files[m]}}
             \union {<<"E_MANIFEST_EXTRA_FILE", n>> : n \in (DOMAIN c \ DOMAIN files) \ Excluded}

\* jws_verify_detached: what is wrong, in the order it looks; the code is found again from
\* the words of the error, which for a key that does not decode say nothing of did:key.
CppSignature(v, manifest) ==
  IF v.kind # "signature" THEN "E_SIG_INVALID"
  ELSE IF v.alg \notin {"EdDSA", "ES256"} THEN "E_SIG_ALG_NOT_ALLOWED"
  ELSE IF v.kid \in {"no did:key", "no type of key"} THEN "E_KID_UNRESOLVABLE"
  ELSE IF v.kid \in {"no base58", "no point"} THEN "E_SIG_INVALID"
  ELSE IF v.kid # v.alg THEN "E_SIG_ALG_MISMATCH"
  ELSE IF v.newline \/ v.over # manifest THEN "E_SIG_INVALID"
  ELSE "valid"

\* Mutant: nothing signed is nothing wrong.
CppSignedIfAny(c) ==
  {<<"E_SIG_INVALID", f>> : f \in
     {g \in DOMAIN c \intersect Signatures : CppSignature(c[g], c["manifest.json"]) # "valid"}}

CppSigned(c) ==
  LET files == DOMAIN c \intersect Signatures
  IN  IF ~Has(c, "manifest.json") THEN {<<"E_IO", "manifest.json">>}
      ELSE IF files = {} THEN {<<"E_SIG_MISSING", "signatures">>}
      ELSE {<<CppSignature(c[f], c["manifest.json"]), f>> :
              f \in {g \in files : CppSignature(c[g], c["manifest.json"]) # "valid"}}

\* check_encrypted: each branch an issue of its own.
CppEncrypted(c) ==
  IF ~Has(c, Policy) THEN {}
  ELSE IF c[Policy].kind # "policy" THEN {<<"E_POLICY_INVALID", "unparseable">>}
  ELSE LET p      == c[Policy]
           sealed == CppSealed(c)
           issue(code, subject, when) == IF when THEN {<<code, subject>>} ELSE {}
       IN  issue("E_ALGO_NOT_ALLOWED", "method", ~p.method)
             \union issue("E_POLICY_INVALID", "no files", p.list = << >>)
             \union {<<"E_POLICY_INVALID", f>> : f \in {g \in ToSet(p.list) : ~Has(c, g)}}
             \union issue("E_POLICY_INVALID", "no recipients", p.recipients = {})
             \union issue("E_POLICY_INVALID", "not encrypted", p.attested /\ "content.md" \notin sealed)
             \union issue("E_POLICY_INVALID", "no schema", p.attested /\ "content.md" \in sealed
                            /\ ("schema.yaml" \in sealed \/ ~Has(c, "schema.yaml")))
             \union issue("E_POLICY_INVALID", "incomplete", "incomplete" \in p.recipients)
             \union issue("E_KID_UNRESOLVABLE", "recipient", "unresolvable" \in p.recipients)

\* render needs content.md and nothing else; what it cannot parse it does without.
CppRender(c) ==
  IF "content.md" \in CppSealed(c) \/ Has(c, "content.md") THEN {}
  ELSE {<<"E_IO", "html">>, <<"E_IO", "text">>}

CppValidate(c, level) ==
  CppCore(c)
    \union (IF AtLeast(level, "integrity") THEN CppIntegrity(c) ELSE {})
    \union (IF AtLeast(level, "signed")    THEN CppSigned(c)    ELSE {})
    \union (IF AtLeast(level, "encrypted") THEN CppEncrypted(c) ELSE {})
    \union (IF AtLeast(level, "render")    THEN CppRender(c)    ELSE {})

----------------------------------------------------------------------------
(* The TypeScript engine. *)

\* readEncryptionPolicy and encryptedMembers.
TsSealed(c) == IF Is(c, Policy, "policy") THEN ToSet(c[Policy].list) ELSE {}

\* loadDocument, whose parsers throw.
TsLoads(c) ==
  LET open(n) == Has(c, n) /\ n \notin TsSealed(c)
  IN  /\ open("schema.yaml") => c["schema.yaml"].kind = "schema"
      /\ open("metadata.yaml") => c["metadata.yaml"].kind = "metadata"
      /\ Has(c, "manifest.json") => c["manifest.json"].kind = "manifest"

TsCore(c) ==
  LET content == IF Has(c, "content.md") THEN {} ELSE {<<"E_MISSING_CONTENT", "content.md">>}
      schema  == Has(c, "schema.yaml") /\ "schema.yaml" \notin TsSealed(c)
      issues  == CASE ~schema -> {}
                   [] schema /\ "content.md" \notin TsSealed(c) ->
                        Missing(c["schema.yaml"].sections, Anchors(c))
                   [] schema /\ "content.md" \in TsSealed(c) ->
                        IF c[Policy].attested
                        THEN Missing(c["schema.yaml"].sections, c[Policy].bound)
                        ELSE {<<"E_POLICY_INVALID", Policy>>}
  IN  content \union issues

\* checkIntegrity and verifyManifest; "in" finds what an object inherits too.
TsIntegrity(c) ==
  IF ~Has(c, "manifest.json") THEN {<<"E_MISSING_MANIFEST", "manifest.json">>}
  ELSE IF c["manifest.json"].algorithm # "sha256" THEN {<<"E_ALGO_NOT_ALLOWED", "manifest.json">>}
  ELSE LET files    == c["manifest.json"].files
           verdict(n) == IF ~Has(c, n) THEN "E_MANIFEST_MISSING_FILE" ELSE "E_MANIFEST_HASH_MISMATCH"
           listed(n)  == n \in DOMAIN files \/ n \in Inherited
       IN  {<<verdict(n), n>> : n \in {m \in DOMAIN files : ~(Has(c, m) /\ c[m] = files[m])}}
             \union {<<"E_MANIFEST_EXTRA_FILE", n>> : n \in {m \in DOMAIN c \ Excluded : ~listed(m)}}

\* jwsVerifyDetached, which trims what it reads and carries the code along.
TsSignature(v, manifest) ==
  IF v.kind # "signature" THEN "E_SIG_INVALID"
  ELSE IF v.alg \notin {"EdDSA", "ES256"} THEN "E_SIG_ALG_NOT_ALLOWED"
  ELSE IF v.kid \notin {"EdDSA", "ES256"} THEN "E_KID_UNRESOLVABLE"
  ELSE IF v.kid # v.alg THEN "E_SIG_ALG_MISMATCH"
  ELSE IF v.over # manifest THEN "E_SIG_INVALID"
  ELSE "valid"

\* checkSigned: a missing manifest was reported before.
TsSigned(c) ==
  LET files == {f \in Signatures : Has(c, f)}
      bad   == {f \in files : TsSignature(c[f], c["manifest.json"]) # "valid"}
  IN  IF ~Has(c, "manifest.json") THEN {}
      ELSE IF files = {} THEN {<<"E_SIG_MISSING", "signatures">>}
      ELSE {<<TsSignature(c[f], c["manifest.json"]), f>> : f \in bad}

\* checkEncrypted.
TsEncrypted(c) ==
  LET p         == c[Policy]
      invalid   == {<<"E_POLICY_INVALID", what>> : what \in
                      {w \in {"no files", "no recipients", "not encrypted", "no schema", "incomplete"} :
                         \/ w = "no files"      /\ Len(p.list) = 0
                         \/ w = "no recipients" /\ p.recipients = {}
                         \/ w = "incomplete"    /\ "incomplete" \in p.recipients
                         \/ w = "not encrypted" /\ p.attested /\ "content.md" \notin TsSealed(c)
                         \/ w = "no schema"     /\ p.attested /\ "content.md" \in TsSealed(c)
                                               /\ (Has(c, "schema.yaml") => "schema.yaml" \in TsSealed(c))}}
      missing   == {<<"E_POLICY_INVALID", p.list[i]>> : i \in {j \in DOMAIN p.list : ~Has(c, p.list[j])}}
      method    == {<<"E_ALGO_NOT_ALLOWED", w>> : w \in {x \in {"method"} : ~p.method}}
      recipient == {<<"E_KID_UNRESOLVABLE", "recipient">> : r \in p.recipients \intersect {"unresolvable"}}
  IN  IF ~Has(c, Policy) THEN {}
      ELSE IF p.kind # "policy" THEN {<<"E_POLICY_INVALID", "unparseable">>}
      ELSE invalid \union missing \union method \union recipient

\* checkRender and renderCanonical.
TsRender(c) ==
  {<<"E_IO", format>> : format \in
     {f \in {"html", "text"} : "content.md" \notin TsSealed(c) /\ ~Has(c, "content.md")}}

TsValidate(c, level) ==
  LET checks == [core |-> TsCore(c), integrity |-> TsIntegrity(c), signed |-> TsSigned(c),
                 encrypted |-> TsEncrypted(c), render |-> TsRender(c)]
  IN  UNION {checks[l] : l \in {k \in DOMAIN checks : AtLeast(level, k)}}

----------------------------------------------------------------------------
(* The C reader: core and integrity. *)

\* mcdf_micro_is_sealed sees a list that is indented under its key.
MicroSealed(c, n) == Is(c, Policy, "policy") /\ ~c[Policy].flush /\ n \in ToSet(c[Policy].list)

\* mm_schema_walk sees the sections of a list that is indented.
MicroSections(c) ==
  IF Is(c, "schema.yaml", "schema") /\ ~c["schema.yaml"].flush THEN c["schema.yaml"].sections ELSE << >>

\* mcdf_micro_validate_core: it does not read the attestation, and says so.
MicroCore(c) ==
  (IF Has(c, "content.md") THEN {} ELSE {<<"E_MISSING_CONTENT", "content.md">>})
    \union
  (IF MicroSections(c) = << >> THEN {}
   ELSE IF MicroSealed(c, "content.md") THEN {<<"E_UNIMPLEMENTED", "schema binding">>}
   ELSE Missing(MicroSections(c), Anchors(c)))

\* The manifest is read as a stream, key by key; the reader stops at what is no JSON string
\* or object where one has to be.
MicroReadable(m)  == m.kind = "manifest"
MicroAlgorithm(m) == IF MicroReadable(m) THEN m.algorithm ELSE "hash_algorithm is unreadable"
\* mm_files_walk.
MicroListed(m)    == m.files

\* mcdf_micro_verify_manifest: stops at a manifest it cannot read, then listed files in turn,
\* then members in turn.
MicroIntegrity(c) ==
  IF ~Has(c, "manifest.json") THEN {<<"E_MISSING_MANIFEST", "manifest.json">>}
  ELSE IF MicroAlgorithm(c["manifest.json"]) # "sha256" THEN {<<"E_ALGO_NOT_ALLOWED", "manifest.json">>}
  ELSE LET files == MicroListed(c["manifest.json"])
       IN  {<<IF Has(c, n) THEN "E_MANIFEST_HASH_MISMATCH" ELSE "E_MANIFEST_MISSING_FILE", n>> :
              n \in {m \in DOMAIN files : Has(c, m) => c[m] # files[m]}}
             \union {<<"E_MANIFEST_EXTRA_FILE", n>> :
                       n \in {m \in DOMAIN c : m \notin Excluded /\ m \notin DOMAIN files}}
=============================================================================
