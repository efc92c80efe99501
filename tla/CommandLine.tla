----------------------------- MODULE CommandLine -----------------------------
(***************************************************************************)
(* The mcdf command, one run at a time, over a document folder, the        *)
(* archive and the staging folder beside it, a key file and a rendered     *)
(* page.  A command is the list of the changes it still has to make; each  *)
(* change is a step, may fail, fail unnoticed, or be the last before a     *)
(* crash; and between two of them an editor may save content.md and the    *)
(* shell may run `mcdf manifest doc > doc/manifest.json`.  encrypt and     *)
(* decrypt are McdfFolder's, audit --append and --checkpoint AuditLog's.   *)
(***************************************************************************)
EXTENDS Naturals, SequencesExt

CONSTANTS
  None,        \* nothing there
  Torn,        \* a file that was truncated and not written to its end
  Occupied,    \* a file where a folder was meant to be
  Missing,     \* an asset that cannot be read
  Texts,       \* what content.md may hold
  Canonical,   \* canonicalize_content: from the texts of source files to Texts
  Pictures,    \* what assets/a may hold
  Imports,     \* what may be imported: [verb, text, asset], text None if there is nothing to read
  Worlds,      \* what may be on the disk before the first command
  MaxCommands, \* bounds of the instance: commands that change something,
  MaxTroubles  \* failing writes, crashes, saves by the editor and manifests rebuilt by the shell

\* A folder's members in the order in which they are listed, packed and unpacked.
Order == <<"assets/a", "audit.log", "content.md", "manifest.json", "metadata.yaml",
           "schema.yaml", "signatures/author.sig">>
Content == "content.md"
Manifest == "manifest.json"
Signature == "signatures/author.sig"
Excluded == {Manifest, "audit.log", Signature}

\* What the disk may hold.  A manifest lists what it covers, and a signature is over a manifest.
Names    == ToSet(Order)
Values   == Texts \union Pictures \union {Torn}
Views    == UNION {[ns -> Values] : ns \in SUBSET (Names \ Excluded)}
Bytes(n) == CASE n = Manifest    -> Views \union {Torn}
              [] n = Signature   -> [over : Views] \union {Torn}
              [] n = "audit.log" -> Nat \union {Torn}
              [] n \notin Excluded -> Values
IsContainer(c) ==
  /\ DOMAIN c \subseteq Names /\ c = [n \in DOMAIN c |-> c[n]]
  /\ \A n \in DOMAIN c : c[n] \in Bytes(n)
Pages == [text : Values, source : Views \union {None}]
Archived(c, readable) == [members |-> c, readable |-> readable]
IsArchive(a) == /\ a = Archived(a.members, a.readable)
                /\ IsContainer(a.members) /\ a.readable \in BOOLEAN
IsDisk(d) ==
  /\ d = [folder |-> d.folder, staging |-> d.staging, archive |-> d.archive, key |-> d.key, page |-> d.page]
  /\ d.folder \in {None, Occupied} \/ IsContainer(d.folder)
  /\ d.staging = None \/ IsContainer(d.staging)
  /\ d.archive = None \/ IsArchive(d.archive)
  /\ d.key \in {None, Torn, "ed25519", "x25519"}
  /\ d.page \in Pages \union {None, Torn}

ASSUME CommandLineConstants ==
  /\ MaxCommands \in Nat /\ MaxTroubles \in Nat
  /\ \A t \in DOMAIN Canonical : Canonical[t] \in Texts
  /\ \A i \in Imports : /\ i.verb \in {"import-epub", "import-html"}
                        /\ i.text \in DOMAIN Canonical \union {None}
                        /\ i.asset \in Pictures \union {None, Missing}
  /\ None \notin DOMAIN Canonical /\ None # Missing /\ {None, Missing} \intersect Pictures = {}
  /\ None # Occupied /\ None # Torn /\ None \notin Texts
  /\ \A ns \in SUBSET Names : {None, Occupied} \intersect [ns -> UNION {Bytes(n) : n \in Names}] = {}
  /\ Torn \notin [over : Views] \union Views \union Nat
ASSUME WorldsAssumption == \A d \in Worlds : IsDisk(d)

VARIABLES
  disk,     \* folder, staging, archive, key, page
  cmd,      \* the command that is running
  redirect, \* `mcdf manifest doc > doc/manifest.json`: None, Torn once the shell has opened the
            \* file, or what is printed
  last,     \* the command that ended last, with its exit code
  past,     \* history: the disk and the views of the folder since it began, and what went wrong
  spent     \* the bounds used up

vars == <<disk, cmd, redirect, last, past, spent>>

----------------------------------------------------------------------------
\* Containers.
Empty == << >>
IsFolder(d) == d \notin {None, Occupied}
Has(c, n) == n \in DOMAIN c
Put(c, n, v) == [m \in DOMAIN c \union {n} |-> IF m = n THEN v ELSE c[m]]
Only(c, ns) == [m \in DOMAIN c \intersect ns |-> c[m]]
Covered(c) == [m \in DOMAIN c \ Excluded |-> c[m]]

ManifestOK(c) == Has(c, Manifest) /\ c[Manifest] = Covered(c)
SignatureOK(c) == Has(c, Signature) /\ Has(c, Manifest) /\ c[Manifest] # Torn
                    /\ c[Signature] = [over |-> c[Manifest]]

\* An archive that is not written to its end: the members before the cut, and whether
\* tar_read takes it for a shorter one or refuses it.
Packed(c) == Archived(c, TRUE)
Cuts(c)   == {Archived(Only(c, ToSet(SubSeq(Order, 1, k))), r) : k \in {0, 3, 5}, r \in BOOLEAN}

\* What open_container finds at a path: the members of a folder, or of an archive.
Source(from) ==
  IF from = "archive" THEN IF disk.archive # None /\ disk.archive.readable
                           THEN disk.archive.members ELSE None
                      ELSE IF IsFolder(disk.folder) THEN disk.folder ELSE None

----------------------------------------------------------------------------
\* How a command goes on and ends.
Ends(exit) == /\ cmd' = None
              /\ last' = [verb |-> cmd.verb, exit |-> exit, at |-> cmd.at,
                          text |-> cmd.text, asset |-> cmd.asset]

Goes(todo) == IF todo = << >> THEN Ends(0)
              ELSE cmd' = [cmd EXCEPT !.todo = todo] /\ UNCHANGED last

\* unpack passes over the members that the archive has not got.
Archive == disk.archive.members
Present(names) ==
  LET here == {i \in DOMAIN names : Has(Archive, names[i])}
  IN  IF here = {} THEN << >>
      ELSE SubSeq(names, CHOOSE i \in here : \A j \in here : i <= j, Len(names))
Advance == Goes(IF cmd.verb = "unpack" THEN Present(Tail(cmd.todo)) ELSE Tail(cmd.todo))

\* A command that fails leaves what it has written.  Only the importers clear away their
\* staging folder, and only while they convert: `create` and finish_archive leave theirs.
Tidied(d) == IF cmd.verb \in {"import-epub", "import-html"} /\ cmd.at = "staging"
                  /\ cmd.todo[1] \notin {"audit.log", "archive", "clean"}
             THEN [d EXCEPT !.staging = None] ELSE d

\* The disk becomes d, by a change that was made, failed, or was the last before a crash.
Becomes(d, how) ==
  \/ how \in {"made", "unnoticed"} /\ disk' = d /\ Advance
  \/ how = "failed" /\ disk' = Tidied(d) /\ Ends(1)
  \/ how = "crash" /\ disk' = d /\ cmd' = None /\ last' = None

\* Nothing is remembered of what happened before the last command's end.
Unwatched == [past EXCEPT !.before = None, !.trouble = "none", !.edited = FALSE, !.views = {}]

\* Every change may go wrong, within the bound.
Faultless(d) ==
  /\ Becomes(d, "made") /\ UNCHANGED spent
  /\ past' = IF cmd.verb = "sign" /\ Len(cmd.todo) = 1
             THEN [past EXCEPT !.signed = @ \union past.views] ELSE past
Faulty(d, how) ==
  /\ spent.troubles < MaxTroubles /\ Becomes(d, how)
  /\ past' = IF how = "crash" THEN Unwatched
             ELSE [past EXCEPT !.trouble = IF how = "unnoticed" THEN "silent" ELSE "told"]
  /\ spent' = [spent EXCEPT !.troubles = @ + 1]
Fails == Becomes(disk, "failed") /\ UNCHANGED <<past, spent>>

\* DirectoryContainer::write: opened with truncation, so a write that fails leaves a torn
\* member; and one that fails when the stream is closed is not noticed.
WriteMember(n, v) ==
  LET holding(x) == [disk EXCEPT ![cmd.at] = Put(@, n, x)]
  IN  \/ Faultless(holding(v))
      \/ Faulty(disk, "failed")
      \/ \E how \in {"failed", "unnoticed", "crash"} : Faulty(holding(Torn), how)

\* The files outside a container are written to a stream nobody asks whether it went well.
WriteFile(file, v, torn) ==
  LET holding(x) == [disk EXCEPT ![file] = x]
  IN  \/ Faultless(holding(v))
      \/ Faulty(disk, "failed")
      \/ \E x \in torn, how \in {"unnoticed", "crash"} : Faulty(holding(x), how)

----------------------------------------------------------------------------
\* Beginning a command.
Ready == cmd = None /\ spent.commands < MaxCommands

Begun(verb, at, todo, text, asset) ==
  /\ cmd' = [verb |-> verb, at |-> at, todo |-> todo, text |-> text, asset |-> asset, seen |-> None]
  /\ last' = None
  /\ past' = [past EXCEPT !.before = disk, !.trouble = "none", !.edited = FALSE,
                          !.views = IF verb = "sign" /\ IsFolder(disk.folder)
                                    THEN {Covered(disk.folder)} ELSE {}]
  /\ spent' = [spent EXCEPT !.commands = @ + 1]
  /\ UNCHANGED redirect

\* The folder a document is made in: the one asked for, or one beside the archive, which is
\* cleared of what an earlier run left there.
\* Mutant: what an earlier run left in the staging folder stays there.
PreparedOver(at) == [disk EXCEPT ![at] = IF @ = None THEN Empty ELSE @]
Prepared(at) ==
  IF at = "folder" THEN [disk EXCEPT !.folder = IF @ = None THEN Empty ELSE @]
                   ELSE [disk EXCEPT !.staging = Empty]

\* What create_document and audit_append write, and finish_archive does.
Document == <<Content, "metadata.yaml", Manifest>>
Finish(at) == <<"audit.log">> \o (IF at = "staging" THEN <<"archive", "clean">> ELSE << >>)

Create(source, asset, at) ==
  /\ Ready /\ disk' = Prepared(at)
  /\ Begun("create", at, (IF asset = None THEN << >> ELSE <<"assets">>) \o Document \o Finish(at),
           Canonical[source], asset)

Import(i, at) ==
  /\ Ready /\ disk' = Prepared(at)
  /\ Begun(i.verb, at,
           <<"convert", "image">> \o Document
             \o (IF i.verb = "import-epub" THEN <<"schema.yaml">> ELSE << >>)
             \o <<Manifest>> \o Finish(at),
           IF i.text = None THEN None ELSE Canonical[i.text], i.asset)

Unpack     == Ready /\ Begun("unpack", "folder", <<"unarchive">>, None, None) /\ UNCHANGED disk
Pack(from) == Ready /\ Begun("pack", from, <<"archive">>, None, None) /\ UNCHANGED disk
Sign       == Ready /\ Begun("sign", "folder", <<"read", "compare", "sign">>, None, None) /\ UNCHANGED disk
Keygen(k)  == Ready /\ Begun("keygen", None, <<"key">>, k, None) /\ UNCHANGED disk
Render(from) == Ready /\ Begun("render -o", from, <<"page">>, None, None) /\ UNCHANGED disk

----------------------------------------------------------------------------
\* The steps.
Step(name) == cmd # None /\ cmd.todo[1] = name /\ UNCHANGED redirect
Target == disk[cmd.at]

\* create copies the assets before it looks whether a document is there.
CopyAssets ==
  /\ Step("assets")
  /\ IF ~IsFolder(Target) \/ cmd.asset = Missing THEN Fails
     ELSE \/ Faultless([disk EXCEPT ![cmd.at] = Put(@, "assets/a", cmd.asset)])
          \/ Faulty(disk, "failed")
          \/ \E how \in {"failed", "crash"} :
               Faulty([disk EXCEPT ![cmd.at] = Put(@, "assets/a", Torn)], how)

\* import_epub and import_html look first, and read their source to the end.
\* Mutant: only create_document looks whether a document is there.
ConvertBlind ==
  /\ Step("convert")
  /\ IF ~IsFolder(Target) \/ cmd.text = None THEN Fails ELSE Faultless(disk)
Convert ==
  /\ Step("convert")
  /\ IF ~IsFolder(Target) \/ Has(Target, Content) \/ cmd.text = None
     THEN Fails ELSE Faultless(disk)

\* An image that cannot be read or written is passed over.
CopyImage ==
  /\ Step("image")
  /\ IF cmd.asset \in {None, Missing} THEN Faultless(disk)
     ELSE \/ Faultless([disk EXCEPT ![cmd.at] = Put(@, "assets/a", cmd.asset)])
          \/ Faulty(disk, "unnoticed")
          \/ \E how \in {"unnoticed", "crash"} :
               Faulty([disk EXCEPT ![cmd.at] = Put(@, "assets/a", Torn)], how)

WriteContent ==
  /\ Step(Content) /\ cmd.verb # "unpack"
  /\ IF ~IsFolder(Target) \/ Has(Target, Content) THEN Fails ELSE WriteMember(Content, cmd.text)

\* Metadata and schema are made from the text, the manifest from the folder as it is.
WriteDerived ==
  /\ cmd # None /\ cmd.verb # "unpack"
  /\ \/ \E n \in {"metadata.yaml", "schema.yaml"} : Step(n) /\ WriteMember(n, cmd.text)
     \/ Step(Manifest) /\ WriteMember(Manifest, Covered(Target))

\* Whatever becomes of the entry, the command goes on.
AppendAudit ==
  /\ Step("audit.log") /\ cmd.verb # "unpack"
  /\ LET log == IF Has(Target, "audit.log") THEN Target["audit.log"] ELSE 0
         holding(x) == [disk EXCEPT ![cmd.at] = Put(@, "audit.log", x)]
     IN  IF log = Torn THEN Faultless(disk)
         ELSE \/ Faultless(holding(log + 1))
              \/ Faulty(disk, "unnoticed")
              \/ \E how \in {"unnoticed", "crash"} : Faulty(holding(Torn), how)

\* unpack reads the archive whole before it writes the first member.
ReadArchive ==
  /\ Step("unarchive")
  /\ IF Source("archive") = None THEN Fails
     ELSE Goes(Present(Order)) /\ UNCHANGED <<disk, past, spent>>

UnpackMember ==
  /\ cmd # None /\ cmd.verb = "unpack" /\ cmd.todo[1] # "unarchive" /\ UNCHANGED redirect
  /\ LET n == cmd.todo[1]
         holding(x) == [disk EXCEPT !.folder = Put(IF @ = None THEN Empty ELSE @, n, x)]
     IN  IF disk.folder = Occupied THEN Fails
         ELSE \/ Faultless(holding(Archive[n]))
              \/ Faulty(disk, "failed")
              \/ \E how \in {"failed", "unnoticed", "crash"} : Faulty(holding(Torn), how)

\* pack, and the end of create and of the importers.
WriteArchive ==
  /\ Step("archive")
  /\ LET c == IF cmd.verb = "pack" THEN Source(cmd.at) ELSE disk.staging
     IN  IF c = None THEN Fails ELSE WriteFile("archive", Packed(c), Cuts(c))

RemoveStaging ==
  /\ Step("clean")
  /\ \/ Faultless([disk EXCEPT !.staging = None])
     \/ Faulty(disk, "unnoticed")

\* sign reads the manifest, compares the folder with what it read, and then has
\* sign_container read it again.
ReadManifest ==
  /\ Step("read")
  /\ IF ~IsFolder(Target) \/ ~Has(Target, Manifest) \/ Target[Manifest] = Torn THEN Fails
     ELSE /\ cmd' = [cmd EXCEPT !.seen = Target[Manifest], !.todo = Tail(@)]
          /\ UNCHANGED <<disk, last, past, spent>>

\* Mutant: sign does not compare the folder with the manifest.
CompareNothing == Step("compare") /\ Faultless(disk)
CompareFolder ==
  /\ Step("compare")
  /\ IF cmd.seen # Covered(Target) THEN Fails ELSE Faultless(disk)

SignManifest ==
  /\ Step("sign")
  /\ IF disk.key # "ed25519" \/ ~Has(Target, Manifest) \/ Target[Manifest] = Torn THEN Fails
     ELSE WriteMember(Signature, [over |-> Target[Manifest]])

WriteKey == Step("key") /\ WriteFile("key", cmd.text, {Torn})

\* A page is made of content.md and names the manifest it was rendered from.
WritePage ==
  /\ Step("page")
  /\ LET c == Source(cmd.at)
     IN  IF c = None THEN Fails
         ELSE IF ~Has(c, Content) THEN Fails
         ELSE WriteFile("page", [text |-> c[Content],
                                 source |-> IF Has(c, Manifest) /\ c[Manifest] # Torn
                                            THEN c[Manifest] ELSE None], {Torn})

Crash ==
  /\ cmd # None /\ spent.troubles < MaxTroubles
  /\ cmd' = None /\ last' = None
  /\ spent' = [spent EXCEPT !.troubles = @ + 1]
  /\ past' = Unwatched
  /\ UNCHANGED <<disk, redirect>>

----------------------------------------------------------------------------
\* What else happens to the folder: an editor, and the shell that writes a manifest.
Edited(f, seen) ==
  /\ disk' = [disk EXCEPT !.folder = f]
  /\ last' = None
  /\ past' = IF cmd = None THEN Unwatched
             ELSE [past EXCEPT !.edited = TRUE,
                     !.views = IF cmd.verb = "sign" THEN @ \union seen ELSE @]
  /\ UNCHANGED cmd
Spends == spent.troubles < MaxTroubles /\ spent' = [spent EXCEPT !.troubles = @ + 1]

EditContent(t) ==
  /\ IsFolder(disk.folder) /\ Has(disk.folder, Content) /\ disk.folder[Content] # t
  /\ Spends /\ LET f == Put(disk.folder, Content, t) IN Edited(f, {Covered(f)})
  /\ UNCHANGED redirect

OpenRedirect ==
  /\ redirect = None /\ IsFolder(disk.folder)
  /\ Spends /\ Edited(Put(disk.folder, Manifest, Torn), {}) /\ redirect' = Torn
BuildManifest ==
  /\ redirect = Torn /\ redirect' = Covered(disk.folder)
  /\ UNCHANGED <<disk, cmd, last, past, spent>>
\* The output goes over what may have been written to the file since it was opened.
WriteRedirect ==
  /\ redirect \notin {None, Torn} /\ redirect' = None
  /\ \E v \in IF disk.folder[Manifest] = Torn THEN {redirect} ELSE {redirect, Torn} :
       Edited(Put(disk.folder, Manifest, v), {redirect})
  /\ UNCHANGED spent

----------------------------------------------------------------------------
\* The commands that only report, by their exit codes.  A member that is torn may still
\* parse as YAML or as a log, but not as JSON; a schema binds the headings of its own text.
Parses(c) == ~Has(c, Manifest) \/ c[Manifest] # Torn
Doubted(c) ==
  (IF \E n \in {"metadata.yaml", "schema.yaml"} : Has(c, n) /\ c[n] = Torn
    THEN {"inspect", "validate"} ELSE {})
  \union (IF Has(c, "schema.yaml") /\ Has(c, Content) /\ c["schema.yaml"] # c[Content]
          THEN {"validate"} ELSE {})
  \union (IF Has(c, "audit.log") /\ c["audit.log"] = Torn THEN {"audit"} ELSE {})
Report(c) ==
  [inspect  |-> Parses(c),
   manifest |-> TRUE,
   check    |-> ManifestOK(c),
   validate |-> Parses(c) /\ Has(c, Content) /\ ManifestOK(c),
   verify   |-> ManifestOK(c) /\ SignatureOK(c),
   audit    |-> TRUE,
   render   |-> Has(c, Content)]
\* So do the commands that are misused, or whose source cannot be read.
Verbs == {"inspect", "manifest", "check", "validate", "verify", "audit", "render"}
Exit(c, doubted, verb) ==
  CASE verb = "misused"    -> 2
    [] verb = "unreadable" -> 1
    [] verb \in Verbs -> IF c = None \/ verb \in doubted \/ ~Report(c)[verb] THEN 1 ELSE 0
Reports(from) ==
  /\ cmd = None
  /\ LET c == Source(from)
     IN  \E doubted \in SUBSET (IF c = None THEN {} ELSE Doubted(c)) :
           last' = [verb |-> "reports", at |-> from, text |-> None, asset |-> None,
                    exit |-> [verb \in Verbs \union {"misused", "unreadable"} |->
                                Exit(c, doubted, verb)]]
  /\ past' = Unwatched
  /\ UNCHANGED <<disk, cmd, redirect, spent>>

Begin ==
  \/ \E at \in {"folder", "staging"} :
       \/ \E source \in DOMAIN Canonical, asset \in Pictures \union {None, Missing} : Create(source, asset, at)
       \/ \E i \in Imports : Import(i, at)
  \/ \E from \in {"folder", "archive"} : Pack(from) \/ Render(from)
  \/ \E k \in {"ed25519", "x25519"} : Keygen(k)
  \/ Sign \/ Unpack
  \/ \E from \in {"folder", "archive"} : Reports(from)

Continue ==
  \/ CopyAssets \/ Convert \/ CopyImage \/ WriteContent \/ WriteDerived \/ AppendAudit
  \/ ReadArchive \/ UnpackMember \/ WriteArchive \/ RemoveStaging
  \/ ReadManifest \/ CompareFolder \/ SignManifest \/ WriteKey \/ WritePage
  \/ Crash

Others == \/ \E t \in Texts : EditContent(t)
          \/ OpenRedirect \/ BuildManifest \/ WriteRedirect

\* The documents on a disk, and what their signatures are over.
Found(d) == ({d.folder, d.staging} \union (IF d.archive = None THEN {} ELSE {d.archive.members}))
              \ {None, Occupied}
Signed(c) == Has(c, Signature) /\ c[Signature] # Torn

Init ==
  /\ disk \in Worlds
  /\ cmd = None /\ redirect = None /\ last = None
  /\ past = [before |-> None, trouble |-> "none", edited |-> FALSE, views |-> {},
             signed |-> {c[Signature].over : c \in {c \in Found(disk) : Signed(c)}}]
  /\ spent = [commands |-> 0, troubles |-> 0]
Next == Begin \/ Continue \/ Others
Spec == Init /\ [][Next]_vars

----------------------------------------------------------------------------
TypeOK ==
  /\ IsDisk(disk)
  /\ cmd # None => cmd.todo # << >> /\ last = None
  /\ last # None /\ last.verb # "reports" => last.exit \in {0, 1, 2}
  /\ spent.commands <= MaxCommands /\ spent.troubles <= MaxTroubles

\* A command that exits with 0 has done what it was asked for, unless something failed that
\* it does not look at, or somebody changed the folder meanwhile.  A document that was made
\* verifies and holds the text and the asset; an archive holds that and nothing an earlier
\* run left behind.
Wanted == {Content, "metadata.yaml", Manifest, "audit.log"}
            \union (IF last.verb = "import-epub" THEN {"schema.yaml"} ELSE {})
            \union (IF last.asset \in Pictures THEN {"assets/a"} ELSE {})
MadeOf(c) == /\ ManifestOK(c) /\ c[Content] = last.text
             /\ last.asset \in Pictures => c["assets/a"] = last.asset
Delivered ==
  IF last.verb = "pack" THEN
    disk.archive = IF last.at = "archive" THEN past.before.archive ELSE Packed(disk.folder)
  ELSE IF last.verb = "unpack" THEN
    \A n \in DOMAIN disk.archive.members : disk.folder[n] = disk.archive.members[n]
  ELSE IF last.verb = "sign" THEN ManifestOK(disk.folder) /\ SignatureOK(disk.folder)
  ELSE IF last.verb = "keygen" THEN disk.key = last.text
  ELSE IF last.verb = "render -o" THEN disk.page.text = Source(last.at)[Content]
  ELSE IF last.verb \notin {"create", "import-epub", "import-html"} THEN TRUE
  ELSE IF last.at = "folder" THEN MadeOf(disk.folder)
  ELSE /\ disk.archive.readable /\ DOMAIN disk.archive.members = Wanted
       /\ MadeOf(disk.archive.members) /\ disk.staging = None
Finished == last # None /\ past.before # None
SuccessDelivers ==
  Finished /\ last.exit = 0 /\ past.trouble # "silent" /\ ~past.edited => Delivered

\* A command that fails without a write having failed leaves the folder, the archive, the
\* key and the page as they were.  Excepted is `create --assets` over a document, which
\* copies the assets and then refuses.
Emptied(d) == [d EXCEPT !.folder = IF @ = None THEN Empty ELSE @, !.staging = None]
FailureKeepsDocument ==
  Finished /\ last.exit # 0 /\ past.trouble = "none" /\ ~past.edited =>
    \/ Emptied(disk) = Emptied(past.before)
    \/ last.verb = "create" /\ last.at = "folder" /\ last.asset \in Pictures

\* What `mcdf verify` calls OK, in the folder or in an archive, whatever was packed, cut,
\* unpacked, edited and rebuilt in between, is what stood in the folder while a command
\* signed it, or what a rebuilt manifest said that was written there meanwhile, although
\* sign reads the manifest twice and compares the folder with the first only.
VerifiedWasSigned ==
  last # None /\ last.verb = "reports" /\ last.exit["verify"] = 0 =>
    Covered(Source(last.at)) \in past.signed
=============================================================================
