----------------------------- MODULE McdfFolder -----------------------------
(***************************************************************************)
(* A container folder on disk, the commands that seal and open it in place *)
(* (src/src/core/encrypt_ops.cpp), and a Studio window that has it open    *)
(* and saves into it (src/apps/studio/core/studio_core.cpp).               *)
(*                                                                         *)
(* Nothing locks the folder and nothing is written atomically as a whole:  *)
(* each member is rewritten in place, then encryption/policy.yaml, then    *)
(* manifest.json.  Another command, a save in Studio or a crash may come   *)
(* between any two of these writes, and a crash inside one leaves the file *)
(* being written truncated.                                                *)
(*                                                                         *)
(* A member's bytes are a plaintext under zero or more layers of           *)
(* encryption, named by the content key of each.  Keys are ideal, and are  *)
(* numbered as they are drawn.  Digests are ideal, so a manifest is the    *)
(* bytes it was built over.  Recipients are left out: a command started    *)
(* with a key that is not a recipient's returns before it writes anything. *)
(***************************************************************************)
EXTENDS Naturals, Sequences, Functions

CONSTANTS
  Procs,      \* mcdf commands, and Studio's worker when it seals or opens
  Others,     \* members besides content.md and schema.yaml
  Texts,      \* what a member can say
  Empty,      \* the text a truncated file is left with
  Sections,   \* Sections[t]: the section ids a schema.yaml saying t declares
  Anchors,    \* Anchors[t]: the top-level heading ids of a content.md saying t
  Requests,   \* the --file lists a command may be given
  MaxSeals,   \* bound: encryptions begun
  MaxCrashes, \* bound: crashes
  MaxSaves    \* bound: saves from Studio

Content == "content.md"
Schema  == "schema.yaml"
Members == {Content, Schema} \union Others

ASSUME TextsAssumption ==
  /\ Empty \in Texts
  /\ DOMAIN Sections = Texts /\ Sections[Empty] = << >>
  /\ DOMAIN Anchors = Texts /\ Anchors[Empty] = {}

ASSUME RequestsAssumption == Requests \subseteq Seq(Members) \ {<< >>}

ASSUME FolderBounds == MaxSeals \in Nat /\ MaxCrashes \in Nat /\ MaxSaves \in Nat

VARIABLES
  files,      \* the members' bytes
  policy,     \* encryption/policy.yaml
  manifest,   \* manifest.json
  op,         \* what each process is in the middle of
  studio,     \* what the Studio window remembers of its last load
  seals, crashes, saves,   \* counters, for the bounds
  orphaned,   \* history: content keys dropped before a policy wrapped them
  raced,      \* history: some encryption began while another was under way
  before,     \* history: the folder as the latest encryption found it
  disturbed   \* history: since then, something else than one command at a time

vars == <<files, policy, manifest, op, studio, seals, crashes, saves,
          orphaned, raced, before, disturbed>>

history == <<orphaned, raced, before>>

-----------------------------------------------------------------------------
(* Bytes, policies and manifests.                                          *)

Absent      == [absent |-> TRUE]
Truncated   == [truncated |-> TRUE]    \* a file that does not parse
NoStructure == [attested |-> FALSE]
Idle        == [kind |-> "idle"]
Closed      == [open |-> FALSE]

Keys  == 1..MaxSeals
Bytes == [text : Texts, layers : Seq(Keys)]

Plain(t) == [text |-> t, layers |-> << >>]

IsPlain(b) == b # Absent /\ b.layers = << >>

\* parse_headings; ciphertext has none to offer.
HeadingIds(content) == IF content.layers = << >> THEN Anchors[content.text] ELSE {}

Within(sections, ids) == SelectSeq(sections, LAMBDA id : id \in ids)

\* bound_sections: the declared sections that have a heading, in schema order.
BoundSections(schema, content) == Within(Sections[schema.text], HeadingIds(content))

Attested(schema, content) ==
  [attested |-> TRUE, bound |-> BoundSections(schema, content)]

Structure == {NoStructure} \union {Attested(Plain(s), Plain(c)) : s, c \in Texts}

Policy == [files : Requests, cek : Keys, structure : Structure]

Listed(pol) == Range(pol.files)

\* The policy is there and parses.
PolicyKnown == policy \notin {Absent, Truncated}

Manifest == [files : [Members -> Bytes \union {Absent}],
             policy : Policy \union {Absent, Truncated}]

\* Mutant: encryption/policy.yaml is left out of the manifest.
ManifestWithoutPolicy(fs, pol) == [files |-> fs]

\* build_manifest, and what verify_manifest compares with.
ManifestOf(fs, pol) == [files |-> fs, policy |-> pol]

-----------------------------------------------------------------------------
(* What a command starts from.                                             *)

Init ==
  /\ files \in [Members -> {Plain(t) : t \in Texts} \union {Absent}]
  /\ files[Content] # Absent
  /\ policy = Absent
  /\ manifest \in {Absent, ManifestOf(files, Absent)}
  /\ op = [p \in Procs |-> Idle]
  /\ studio = Closed
  /\ seals = 0 /\ crashes = 0 /\ saves = 0
  /\ orphaned = {}
  /\ raced = FALSE
  /\ before = ManifestOf(files, Absent)
  /\ disturbed = TRUE

Busy == \E q \in Procs : op[q] # Idle
Encrypting(p) == op[p].kind = "encrypt"
Decrypting(p) == op[p].kind = "decrypt"

\* The member a command is about to rewrite, until it has done them all.
MoreFiles(p) == op[p].next <= Len(op[p].policy.files)
NextFile(p)  == op[p].policy.files[op[p].next]

-----------------------------------------------------------------------------
(* encrypt_container.                                                      *)

\* Mutant: encrypting an encrypted container is allowed.
AlwaysEncryptable == TRUE

NotEncrypted == policy = Absent

\* Mutant: a schema that is itself to be sealed is attested too.
SchemaPresent(list) == Content \in Range(list) /\ files[Schema] # Absent

\* attestation_required, up to the schema's having sections.
SchemaPublishes(list) ==
  /\ Content \in Range(list)
  /\ Schema \notin Range(list)
  /\ files[Schema] # Absent

AttestationDue(list) ==
  SchemaPublishes(list) /\ Sections[files[Schema].text] # << >>

\* A schema that is still ciphertext does not parse; an attestation needs the
\* content it is about.
CanAttest(list) ==
  /\ SchemaPublishes(list) => IsPlain(files[Schema])
  /\ AttestationDue(list) => files[Content] # Absent

AttestationFor(list) ==
  IF AttestationDue(list) THEN Attested(files[Schema], files[Content]) ELSE NoStructure

EncryptBegin(p, list) ==
  /\ op[p] = Idle
  /\ NotEncrypted
  /\ CanAttest(list)
  /\ seals < MaxSeals
  /\ seals' = seals + 1
  /\ op' = [op EXCEPT ![p] =
              [kind   |-> "encrypt",
               next   |-> 1,
               policy |-> [files     |-> list,
                           cek       |-> seals',
                           structure |-> AttestationFor(list)]]]
  /\ raced' = (raced \/ \E q \in Procs : Encrypting(q))
  /\ before' = ManifestOf(files, policy)
  /\ disturbed' = Busy
  /\ UNCHANGED <<files, policy, manifest, studio, crashes, saves, orphaned>>

SealFile(p) ==
  /\ Encrypting(p) /\ MoreFiles(p)
  /\ files[NextFile(p)] # Absent
  /\ files' = [files EXCEPT ![NextFile(p)].layers = Append(@, op[p].policy.cek)]
  /\ op' = [op EXCEPT ![p].next = @ + 1]
  /\ UNCHANGED <<policy, manifest, studio, seals, crashes, saves, history, disturbed>>

\* "no such file": the members already sealed stay so, and the key is dropped.
EncryptFails(p) ==
  /\ Encrypting(p) /\ MoreFiles(p)
  /\ files[NextFile(p)] = Absent
  /\ op' = [op EXCEPT ![p] = Idle]
  /\ orphaned' = orphaned \union {op[p].policy.cek}
  /\ disturbed' = TRUE
  /\ UNCHANGED <<files, policy, manifest, studio, seals, crashes, saves, raced, before>>

\* Mutant: the manifest is rebuilt before the policy is written.
PolicyAfterManifest(p) ==
  /\ Encrypting(p) /\ ~MoreFiles(p)
  /\ manifest' = ManifestOf(files, policy)
  /\ policy' = op[p].policy
  /\ op' = [op EXCEPT ![p] = Idle]
  /\ UNCHANGED <<files, studio, seals, crashes, saves, history, disturbed>>

WritePolicy(p) ==
  /\ Encrypting(p) /\ ~MoreFiles(p)
  /\ policy' = op[p].policy
  /\ op' = [op EXCEPT ![p] = [kind |-> "rebuild"]]
  /\ UNCHANGED <<files, manifest, studio, seals, crashes, saves, history, disturbed>>

\* Mutant: manifest.json is not rewritten.
ManifestKept(p) ==
  /\ op[p].kind = "rebuild"
  /\ op' = [op EXCEPT ![p] = Idle]
  /\ UNCHANGED <<files, policy, manifest, studio, seals, crashes, saves, history, disturbed>>

\* rebuild_manifest, the last write of both commands.
RebuildManifest(p) ==
  /\ op[p].kind = "rebuild"
  /\ manifest' = ManifestOf(files, policy)
  /\ op' = [op EXCEPT ![p] = Idle]
  /\ UNCHANGED <<files, policy, studio, seals, crashes, saves, history, disturbed>>

-----------------------------------------------------------------------------
(* decrypt_container.                                                      *)

DecryptBegin(p) ==
  /\ op[p] = Idle
  /\ PolicyKnown
  /\ op' = [op EXCEPT ![p] = [kind |-> "decrypt", next |-> 1, policy |-> policy]]
  /\ disturbed' = (disturbed \/ Busy)
  /\ UNCHANGED <<files, policy, manifest, studio, seals, crashes, saves, history>>

\* The tag only authenticates under the outermost layer's key.
Opens(b, cek) ==
  /\ b # Absent
  /\ b.layers # << >>
  /\ b.layers[Len(b.layers)] = cek

OpenFile(p) ==
  /\ Decrypting(p) /\ MoreFiles(p)
  /\ Opens(files[NextFile(p)], op[p].policy.cek)
  /\ files' = [files EXCEPT ![NextFile(p)].layers = SubSeq(@, 1, Len(@) - 1)]
  /\ op' = [op EXCEPT ![p].next = @ + 1]
  /\ UNCHANGED <<policy, manifest, studio, seals, crashes, saves, history, disturbed>>

OpenFails(p) ==
  /\ Decrypting(p) /\ MoreFiles(p)
  /\ ~Opens(files[NextFile(p)], op[p].policy.cek)
  /\ op' = [op EXCEPT ![p] = Idle]
  /\ UNCHANGED <<files, policy, manifest, studio, seals, crashes, saves, history, disturbed>>

\* Mutant: a policy without an attestation is held to an empty one.
StructureOrNone(structure) ==
  \/ files[Schema] = Absent \/ files[Content] = Absent
  \/ IsPlain(files[Schema]) /\ Attested(files[Schema], files[Content]) = structure

\* The recorded structure against the headings as they now are.
StructureHolds(structure) ==
  \/ structure = NoStructure
  \/ files[Schema] = Absent \/ files[Content] = Absent
  \/ IsPlain(files[Schema]) /\ Attested(files[Schema], files[Content]) = structure

RemovePolicy(p) ==
  /\ Decrypting(p) /\ ~MoreFiles(p)
  /\ StructureHolds(op[p].policy.structure)
  /\ policy' = Absent
  /\ op' = [op EXCEPT ![p] = [kind |-> "rebuild"]]
  /\ UNCHANGED <<files, manifest, studio, seals, crashes, saves, history, disturbed>>

\* E_STRUCTURE_ATTESTATION_INVALID: the plaintext has been written already.
AttestationFails(p) ==
  /\ Decrypting(p) /\ ~MoreFiles(p)
  /\ ~StructureHolds(op[p].policy.structure)
  /\ op' = [op EXCEPT ![p] = Idle]
  /\ UNCHANGED <<files, policy, manifest, studio, seals, crashes, saves, history, disturbed>>

-----------------------------------------------------------------------------
(* Crashes.                                                                *)

\* A content key lives in the memory of the command that drew it.
Dies(p) ==
  /\ op[p] # Idle
  /\ crashes < MaxCrashes
  /\ crashes' = crashes + 1
  /\ orphaned' = IF Encrypting(p) THEN orphaned \union {op[p].policy.cek} ELSE orphaned
  /\ disturbed' = TRUE
  /\ op' = [op EXCEPT ![p] = Idle]
  /\ UNCHANGED <<studio, seals, saves, raced, before>>

CrashBetweenWrites(p) == Dies(p) /\ UNCHANGED <<files, policy, manifest>>

\* DirectoryContainer::write truncates the file before it writes it.
CrashInMember(p) ==
  /\ Dies(p)
  /\ Encrypting(p) \/ Decrypting(p)
  /\ MoreFiles(p)
  /\ files[NextFile(p)] # Absent
  /\ Decrypting(p) => Opens(files[NextFile(p)], op[p].policy.cek)
  /\ files' = [files EXCEPT ![NextFile(p)] = Plain(Empty)]
  /\ UNCHANGED <<policy, manifest>>

CrashInPolicy(p) ==
  /\ Dies(p)
  /\ Encrypting(p) /\ ~MoreFiles(p)
  /\ policy' = Truncated
  /\ UNCHANGED <<files, manifest>>

CrashInManifest(p) ==
  /\ Dies(p)
  /\ op[p].kind = "rebuild"
  /\ manifest' = Truncated
  /\ UNCHANGED <<files, policy>>

-----------------------------------------------------------------------------
(* Studio, with the folder open in folder mode.                            *)

\* load_from_workdir: remember which members are ciphertext, and whether a
\* schema.yaml was read that saving is to write back.  A policy that does not
\* parse is remembered as none; a document that does not load has no schema.
StudioLoad ==
  LET sealed == IF PolicyKnown THEN Listed(policy) ELSE {}
      loads  == manifest # Truncated /\ IsPlain(files[Schema])
  IN  /\ studio' = [sealed |-> sealed, schema |-> loads /\ Schema \notin sealed]
      /\ UNCHANGED <<files, policy, manifest, op, seals, crashes, saves, history, disturbed>>

\* write_members, with the texts the user has in the editors by now.
Written(m, content, schema) ==
  CASE m = Content /\ Content \notin studio.sealed -> Plain(content)
    [] m = Schema /\ studio.schema                -> Plain(schema)
    [] OTHER                                      -> files[m]

\* flush_working_copy: its writes follow one another at once.  A plain save
\* leaves a folder without a manifest as it is.
StudioSave(content, schema, ensureManifest) ==
  /\ studio # Closed
  /\ saves < MaxSaves
  /\ saves' = saves + 1
  /\ files' = [m \in Members |-> Written(m, content, schema)]
  /\ manifest' = IF ensureManifest \/ manifest # Absent
                 THEN ManifestOf(files', policy) ELSE manifest
  /\ disturbed' = TRUE
  /\ UNCHANGED <<policy, op, studio, seals, crashes, history>>

-----------------------------------------------------------------------------
Encrypt(p) ==
  \/ \E list \in Requests : EncryptBegin(p, list)
  \/ SealFile(p) \/ EncryptFails(p) \/ WritePolicy(p) \/ RebuildManifest(p)

Decrypt(p) ==
  DecryptBegin(p) \/ OpenFile(p) \/ OpenFails(p) \/ RemovePolicy(p) \/ AttestationFails(p)

Crash(p) ==
  CrashBetweenWrites(p) \/ CrashInMember(p) \/ CrashInPolicy(p) \/ CrashInManifest(p)

Studio ==
  \/ StudioLoad
  \/ \E content, schema \in Texts, ensure \in BOOLEAN : StudioSave(content, schema, ensure)

Next == (\E p \in Procs : Encrypt(p) \/ Decrypt(p) \/ Crash(p)) \/ Studio

Spec == Init /\ [][Next]_vars

-----------------------------------------------------------------------------
Task ==
  {Idle} \union [kind : {"rebuild"}]
         \union [kind : {"encrypt", "decrypt"}, next : Nat \ {0}, policy : Policy]

\* Members, policy, manifest, pending commands and memories are of their kinds.
TypeOK ==
  /\ files \in [Members -> Bytes \union {Absent}]
  /\ policy \in Policy \union {Absent, Truncated}
  /\ manifest \in Manifest \union {Absent, Truncated}
  /\ op \in [Procs -> Task]
  /\ studio \in [sealed : SUBSET Members, schema : BOOLEAN] \union {Closed}
  /\ seals \in 0..MaxSeals /\ crashes \in 0..MaxCrashes /\ saves \in 0..MaxSaves
  /\ orphaned \subseteq Keys
  /\ raced \in BOOLEAN
  /\ before \in Manifest
  /\ disturbed \in BOOLEAN

\* The policy on disk gives the key to this layer of this member.
Wrapped(m, cek) ==
  /\ PolicyKnown
  /\ policy.cek = cek
  /\ m \in Listed(policy)

\* An encryption still under way has the key and is going to wrap it.
Pending(m, cek) ==
  \E p \in Procs : /\ Encrypting(p)
                   /\ op[p].policy.cek = cek
                   /\ m \in Listed(op[p].policy)

\* No key is lost but by an encryption that was cut short: as long as two
\* encryptions do not overlap, every layer on every member is under a key that
\* the policy on disk wraps, or that a running command is about to wrap,
\* whatever decryptions, saves from Studio and crashes come between.
Recoverable ==
  ~raced =>
    \A m \in Members :
      files[m] # Absent =>
        \A i \in 1..Len(files[m].layers) :
          LET cek == files[m].layers[i]
          IN  cek \in orphaned \/ Wrapped(m, cek) \/ Pending(m, cek)

\* encrypt then decrypt, one command at a time and with nothing else touching
\* the folder, gives back the very container that was encrypted, so that the
\* signatures it had verify again.
RoundTrip ==
  ~disturbed /\ ~Busy /\ policy = Absent =>
    files = before.files /\ manifest = before

\* While sealed, the same folder verifies without the key.
IntegrityWithoutKey ==
  ~disturbed /\ ~Busy => manifest = ManifestOf(files, policy)

\* The attestation in the policy says what a reader of the plaintext would
\* find, and is there exactly when content.md is sealed and schema.yaml, left
\* readable, declares sections (spec 5.2.1).
AttestationTruthful ==
  ~disturbed /\ PolicyKnown /\ IsPlain(before.files[Content]) =>
    policy.structure =
      IF /\ Content \in Listed(policy) /\ Schema \notin Listed(policy)
         /\ before.files[Schema] # Absent
         /\ Sections[before.files[Schema].text] # << >>
      THEN Attested(files[Schema], Plain(files[Content].text))
      ELSE NoStructure

\* A decryption that is the only thing to touch a sealed folder never gives up.
UndisturbedDecryptSucceeds ==
  [][~disturbed => \A p \in Procs : ~OpenFails(p) /\ ~AttestationFails(p)]_vars

\* encrypt_ops.cpp refuses a second encryption because "Sealing twice would
\* encrypt ciphertext under a second key and leave the first policy unopenable
\* - a silent way to destroy a document."
NeverSealedTwice ==
  \A m \in Members :
    files[m] # Absent =>
      \A i, j \in 1..Len(files[m].layers) : files[m].layers[i] = files[m].layers[j]

\* include/mcdf/core/sealed.hpp calls encrypted_files "Which members are
\* ciphertext right now": a decryption that fails leaves them so.
FailedDecryptStaysSealed ==
  [][\A p \in Procs : AttestationFails(p) =>
        \A m \in Listed(op[p].policy) : files'[m] # Absent => ~IsPlain(files'[m])]_vars

\* studio_core.cpp: "Members encrypted at rest must never be overwritten from
\* the (stale or ciphertext-holding) UI models - decrypt first."
SealedNeverOverwritten ==
  [][saves' # saves /\ PolicyKnown =>
       \A m \in Listed(policy) : files[m] # Absent /\ ~IsPlain(files[m]) => files'[m] = files[m]]_vars
=============================================================================
