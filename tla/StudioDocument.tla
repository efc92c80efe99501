--------------------------- MODULE StudioDocument ---------------------------
(***************************************************************************)
(* One open document of MCDF Studio: its working copy on disk, the .mcdf   *)
(* it may have come from, the document engine's memory of both             *)
(* (apps/studio/core/studio_core.cpp), and the window around them: the     *)
(* editor with its undo stack, the metadata and schema forms, and the      *)
(* panels, which show what they last computed until a revision number says *)
(* it is out of date (apps/studio/main.cpp).                               *)
(*                                                                         *)
(* An operation is one step, although it runs on the worker thread: while  *)
(* it does, the window draws neither the editor nor a panel of this        *)
(* document (StudioJobs has the threads).  Sealing and opening are one     *)
(* step too (McdfFolder has their parts).                                  *)
(*                                                                         *)
(* Bytes are values, and Canonical says what a writer makes of the value a *)
(* parser read: canonicalize_content for content.md, metadata_to_yaml and  *)
(* schema_to_yaml for the forms.  Digests are ideal: the manifest of a     *)
(* folder is what it lists, and a signature is the manifest it was made    *)
(* over.                                                                   *)
(***************************************************************************)
EXTENDS Naturals, Sequences

CONSTANTS
  Values,     \* what a member, the editor or a form can say
  Canonical,  \* Canonical[v]: what is written for a value read as v
  Blank,      \* an empty editor, and a form nobody has filled in
  Cipher,     \* what the editor shows of a sealed content.md
  None,       \* no member, no file, nothing computed yet
  Archives,   \* the .mcdf files a window may open
  Folders,    \* and the folders
  Imports,    \* and what may be imported: [text, meta, schema, images]
  Layouts,    \* the sets of panels the window may show (g_show_manifest, ...)
  Typeable,   \* what may be typed into the editor
  Fillable,   \* what may be put into a form
  Tickable,   \* the sets of files that may be ticked for Encrypt
  Faults,     \* what may go wrong: "members", "manifest", "archive", "copy", "seal"
  MaxEdits,   \* bound: length of the editor's undo stack
  MaxForms,   \* bound: length of the forms' undo history
  MaxImages,  \* bound: images in the working copy
  MaxLog,     \* bound: entries of its audit log
  MaxSeals,   \* bound: encryptions
  MaxFaults,  \* bound: faults
  MaxInputs,  \* bound: things done in the editor and the forms
  MaxSteps    \* bound: those and the operations

Content == "content.md"
Forms   == {"metadata.yaml", "schema.yaml"}
Members == {Content} \union Forms

\* What disk_rev guards, and what the editor's undo index guards.
Caches   == {"hashes", "sigs", "audit", "conformance", "diff"}
Watchers == {"hashes", "outline", "diff", "saved"}
Never    == MaxEdits + 1   \* static_cast<std::size_t>(-1)

ASSUME ValuesAssumption ==
  /\ {Blank, Cipher} \subseteq Values /\ None \notin Values
  /\ Canonical \in [Values -> Values]
  /\ \A v \in Values : Canonical[Canonical[v]] = Canonical[v]
  /\ Typeable \subseteq Values /\ Fillable \subseteq Values
  /\ Tickable \subseteq (SUBSET Members) \ {{}}

ASSUME DocumentBounds ==
  /\ MaxEdits \in Nat /\ MaxForms \in Nat /\ MaxImages \in Nat
  /\ MaxLog \in Nat /\ MaxSeals \in Nat /\ MaxFaults \in Nat
  /\ MaxInputs \in Nat /\ MaxSteps \in Nat

VARIABLES
  disk,    \* the working copy
  file,    \* the .mcdf of a document in archive mode, None when it is torn
  doc,     \* the engine's memory of the working copy
  ed,      \* the window: editor, forms, and what the panels were computed at
  shown,   \* the panels it shows
  ghost,   \* history
  inputs, jobs   \* counters, for the bounds

vars == <<disk, file, doc, ed, shown, ghost, inputs, jobs>>

-----------------------------------------------------------------------------
(* Containers.                                                             *)

\* What build_manifest covers: the members, in the clear or sealed, and the
\* assets; not the audit log, the signatures or the manifest itself.
Listing(x) == [val |-> x.val, sealed |-> x.sealed, seal |-> x.seal,
               images |-> x.images]

\* Only what is there is sealed, and only what is sealed has a ciphertext.
WellFormed(x) == /\ \A m \in x.sealed : x.val[m] # None
                 /\ x.sealed = {} => x.seal = 0

Listings == {x \in [val : [Members -> Values \union {None}], sealed : SUBSET Members,
                    seal : 0..MaxSeals, images : 0..MaxImages] : WellFormed(x)}

Containers ==
  {x \in [val : [Members -> Values \union {None}], sealed : SUBSET Members,
          seal : 0..MaxSeals, images : 0..MaxImages, log : Nat,
          manifest : Listings \union {None}, sig : Listings \union {None}] : WellFormed(x)}

\* What refresh_disk_hashes keeps.
Scans == [val : [Members -> Values \union {None}], sealed : SUBSET Members,
          seal : 0..MaxSeals, images : 0..MaxImages, extra : BOOLEAN]

ASSUME DocumentsAssumption ==
  /\ Archives \subseteq Containers /\ Folders \subseteq Containers
  /\ Imports \subseteq [text : Values, meta : Values, schema : Values \union {None},
                        images : 0..MaxImages]
  /\ None \notin Listings \union Containers \union Scans

\* verify_container: the signature is over this manifest.json.
SigValid(x) == x.sig # None /\ x.sig = x.manifest

\* What load_document can read: a sealed member is not parsed.
Readable(x, m) == x.val[m] # None /\ m \notin x.sealed

-----------------------------------------------------------------------------
(* The document engine.                                                    *)

\* Mutants: the hashes are not cleared; disk_rev stays as it was.
ReloadedKeepingHashes(d, x) == [d EXCEPT !.manifest = x.manifest, !.fresh = {}]
ReloadedWithoutRev(d, x) == [d EXCEPT !.manifest = x.manifest]

\* reload_manifest: forget the view of manifest.json and of the hashes, and
\* outdate every cache.
Reloaded(d, x) == [d EXCEPT !.manifest = x.manifest, !.cur = None, !.fresh = {}]

\* load_from_workdir.
Loaded(mode, x) ==
  [mode |-> mode, policy |-> x.sealed,
   form |-> [m \in Forms |-> IF Readable(x, m) THEN x.val[m] ELSE Blank],
   write |-> {m \in Forms : Readable(x, m)},
   manifest |-> x.manifest, cur |-> None, fresh |-> {}, verify |-> "none"]

\* d.content after it, which SetText puts into the editor.
LoadedText(x) == IF Content \in x.sealed THEN Cipher
                 ELSE IF x.val[Content] = None THEN Blank ELSE x.val[Content]

\* A Document's own fields, as it is created.
NewWindow ==
  [hist |-> <<Blank>>, pos |-> 0, dirty |-> FALSE, forms |-> << >>, fpos |-> 0,
   at |-> [w \in Watchers |-> IF w = "saved" THEN 0 ELSE Never],
   seen |-> [w \in Watchers |-> IF w = "saved" THEN Blank ELSE None],
   formsSeen |-> FALSE]

\* Mutant: what was computed from the text before is kept.
SyncedKeeping(e, text) ==
  [e EXCEPT !.hist = <<text>>, !.pos = 0, !.dirty = FALSE, !.forms = << >>,
            !.fpos = 0, !.at["saved"] = 0, !.seen["saved"] = text]

\* sync_editor on a document that was reloaded: a new undo stack, no form
\* history, and nothing computed from the text before.
Synced(e, text) ==
  [NewWindow EXCEPT !.hist = <<text>>, !.seen["saved"] = text]

Text == ed.hist[ed.pos + 1]
Dirty == ed.dirty \/ ed.pos # ed.at["saved"]
ContentEncrypted == Content \in doc.policy

\* Mutant: the forms are forgotten.
WrittenContent(d) == {Content} \ d.policy

\* The members write_members writes, in its order.
Written(d) == ({Content} \union d.write) \ d.policy
Order == <<Content, "metadata.yaml", "schema.yaml">>

Put(x, d, text, ms) ==
  [x EXCEPT !.val = [m \in Members |->
                       IF m \notin ms THEN @[m]
                       ELSE IF m = Content THEN Canonical[text]
                       ELSE Canonical[d.form[m]]],
            !.sealed = @ \ ms]

Rebuilt(x) == [x EXCEPT !.manifest = Listing(x)]

\* write_members: the members in memory over those on disk, except the ones
\* the remembered policy seals, and manifest.json if there is to be one.
WriteMembers(x, d, text, ensure) ==
  LET y == Put(x, d, text, Written(d))
  IN  IF ensure \/ x.manifest # None THEN Rebuilt(y) ELSE y

CanFail(f) == f \in Faults /\ ghost.faults < MaxFaults

\* What write_members can leave behind.  A member that cannot be written ends
\* it; a manifest that cannot be written is not reported.
Flushes(x, d, text, ensure) ==
  LET Done(y, ok, n) == [disk |-> y, ok |-> ok, cost |-> n]
      full == WriteMembers(x, d, text, ensure)
  IN  {Done(full, TRUE, 0)}
      \union {Done([full EXCEPT !.manifest = x.manifest], TRUE, 1) :
                f \in {f \in {"manifest"} : CanFail(f)}}
      \union {Done(Put(x, d, text, Written(d) \intersect {Order[i] : i \in 1..n}),
                   FALSE, 1) :
                n \in {n \in 0..2 : CanFail("members")}}

\* History.  stale: the disk is not any more what was cached; unnoticed: it
\* changed and disk_rev did not; lost: the undo entry an index stood for was
\* dropped; unmarked: the editor was written and the document not marked saved,
\* or it was re-seeded, which marks it, and the .mcdf not written.
Touched(g, cost, noticed) ==
  [g EXCEPT !.faults = @ + cost,
            !.stale = IF disk' # disk THEN doc'.fresh ELSE @ \intersect doc'.fresh,
            !.unnoticed = IF noticed THEN FALSE ELSE @ \/ disk' # disk]
Unmarked(g) == [g EXCEPT !.unmarked = TRUE]

\* The completion of a save: the undo index and the text of its submission.
Marked(e) == [e EXCEPT !.at["saved"] = e.pos, !.seen["saved"] = Text, !.dirty = FALSE]
Saved(g) == [g EXCEPT !.lost = @ \ {"saved"}, !.unmarked = FALSE]
Reseeded(g, archived) == [g EXCEPT !.lost = {}, !.unmarked = ~archived]

\* A flush that fails: d.status, and what it had written by then.
FlushFails(f) ==
  /\ ~f.ok
  /\ disk' = f.disk
  /\ UNCHANGED <<file, doc, ed>>
  /\ ghost' = Unmarked(Touched(ghost, f.cost, FALSE))

-----------------------------------------------------------------------------
(* The window starts from an opened, created or imported document.         *)

\* An empty folder.
Nothing == [val |-> [m \in Members |-> None], sealed |-> {}, seal |-> 0, images |-> 0,
            log |-> 0, manifest |-> None, sig |-> None]

OpenArchive(x) == [mode |-> "archive", disk |-> x]
OpenFolder(x)  == [mode |-> "folder", disk |-> x]

\* init_blank: an empty content.md and a manifest.
InitBlank == [mode |-> "untitled",
              disk |-> Rebuilt([Nothing EXCEPT !.val[Content] = Blank])]

\* create_document: content.md as a save would write it, metadata.yaml and the
\* manifest; an imported book has a schema, and the log says IMPORTED.
Imported(i) ==
  [mode |-> "untitled",
   disk |-> [Rebuilt([Nothing EXCEPT !.val[Content] = Canonical[i.text],
                                   !.val["metadata.yaml"] = i.meta,
                                   !.val["schema.yaml"] = i.schema,
                                   !.images = i.images])
             EXCEPT !.log = 1]]

Init ==
  /\ \E o \in {InitBlank} \union {OpenArchive(x) : x \in Archives}
             \union {OpenFolder(x) : x \in Folders} \union {Imported(i) : i \in Imports} :
       /\ disk = o.disk
       /\ file = IF o.mode = "archive" THEN o.disk ELSE None
       /\ doc = Loaded(o.mode, o.disk)
       /\ ed = Synced(NewWindow, LoadedText(o.disk))
  /\ shown \in Layouts
  /\ inputs = 0 /\ jobs = 0
  /\ ghost = [faults |-> 0, seals |-> 0, stale |-> {}, unnoticed |-> FALSE,
              lost |-> {}, unmarked |-> FALSE]

-----------------------------------------------------------------------------
(* The editor and the forms.                                               *)

\* A transaction of the editor: whatever could be redone is dropped, and the
\* index goes on from there.
Pushed(e, t) ==
  [e EXCEPT !.hist = Append(SubSeq(@, 1, e.pos + 1), t), !.pos = @ + 1]

Edited(g) ==
  [g EXCEPT !.lost = @ \union {w \in Watchers : ed.at[w] \in (ed.pos + 1)..MaxEdits}]

Type(t) ==
  /\ ~ContentEncrypted /\ ed.pos < MaxEdits /\ t # Text
  /\ ed' = Pushed(ed, t)
  /\ ghost' = Edited(ghost)
  /\ UNCHANGED <<disk, file, doc>>

Undo ==
  /\ ~ContentEncrypted /\ ed.pos > 0
  /\ ed' = [ed EXCEPT !.pos = @ - 1]
  /\ UNCHANGED <<disk, file, doc, ghost>>

Redo ==
  /\ ~ContentEncrypted /\ ed.pos + 1 < Len(ed.hist)
  /\ ed' = [ed EXCEPT !.pos = @ + 1]
  /\ UNCHANGED <<disk, file, doc, ghost>>

\* insert_image: copies the picture into assets/ and types its link; disk_rev
\* stays as it was.
InsertImage(t) ==
  /\ disk.images < MaxImages /\ ed.pos < MaxEdits /\ t # Text
  /\ disk' = [disk EXCEPT !.images = @ + 1]
  /\ ed' = Pushed(ed, t)
  /\ UNCHANGED <<file, doc>>
  /\ ghost' = Edited(Touched(ghost, 0, FALSE))

\* props_record: the forms before the edit, unless the keystroke comes within a
\* second of the one before and joins its undo step.
Recorded(e, before) ==
  {e : h \in {h \in {e.forms} : e.fpos = Len(h) /\ h # << >>}}
  \union {[e EXCEPT !.forms = Append(SubSeq(@, 1, e.fpos), before), !.fpos = @ + 1] :
             n \in {n \in {e.fpos} : n < MaxForms}}

\* A field of the Metadata or the Schema panel.
EditForm(m, v) ==
  /\ v # doc.form[m]
  /\ doc' = [doc EXCEPT !.form[m] = v, !.write = @ \union {m}]
  /\ \E e \in Recorded(ed, doc.form) :
       ed' = [e EXCEPT !.dirty = TRUE, !.formsSeen = FALSE]
  /\ UNCHANGED <<disk, file, ghost>>

\* props_apply: both forms as they were, and both of them to be written.
ApplyForms(s) == doc' = [doc EXCEPT !.form = s, !.write = Forms]

UndoForm ==
  /\ ed.fpos > 0
  /\ LET h == IF ed.fpos = Len(ed.forms) THEN Append(ed.forms, doc.form) ELSE ed.forms
     IN  /\ ApplyForms(h[ed.fpos])
         /\ ed' = [ed EXCEPT !.forms = h, !.fpos = @ - 1, !.dirty = TRUE,
                             !.formsSeen = FALSE]
  /\ UNCHANGED <<disk, file, ghost>>

RedoForm ==
  /\ ed.fpos + 1 < Len(ed.forms)
  /\ ApplyForms(ed.forms[ed.fpos + 2])
  /\ ed' = [ed EXCEPT !.fpos = @ + 1, !.dirty = TRUE, !.formsSeen = FALSE]
  /\ UNCHANGED <<disk, file, ghost>>

-----------------------------------------------------------------------------
(* The operations a job runs.                                              *)

Save ==
  /\ doc.mode # "untitled"
  /\ \E f \in Flushes(disk, doc, Text, FALSE) :
       \/ FlushFails(f)
       \/ /\ f.ok
          /\ disk' = f.disk
          /\ doc' = Reloaded(doc, f.disk)
          /\ \/ /\ file' = IF doc.mode = "archive" THEN f.disk ELSE file
                /\ ed' = Marked(ed)
                /\ ghost' = Saved(Touched(ghost, f.cost, TRUE))
             \/ /\ doc.mode = "archive" /\ f.cost = 0 /\ CanFail("archive")
                /\ file' = None
                /\ ed' = ed
                /\ ghost' = Touched(ghost, 1, TRUE)

\* Mutant: files that are not in the manifest are not copied.
StagedWithoutLog(x) == {[disk |-> [x EXCEPT !.log = 0], cost |-> 0]}

\* When fs::copy stops at once, it leaves nothing in the staging folder; the
\* error code is not looked at.
Staged(x) == {[disk |-> x, cost |-> 0]}
             \union {[disk |-> Nothing, cost |-> 1] : f \in {f \in {"copy"} : CanFail(f)}}

\* save_as: copy, write the members, pack, and point the document at the new
\* archive.  d is untouched when one of the steps that are looked at fails; the
\* file, which may be the document's own, is torn when its write does.
SaveAs ==
  \/ \E c \in Staged(disk) :
       LET y == WriteMembers(c.disk, doc, Text, FALSE)
       IN  /\ disk' = y /\ file' = y
           /\ doc' = Loaded("archive", y)
           /\ ed' = Synced(ed, LoadedText(y))
           /\ ghost' = Reseeded(Touched(ghost, c.cost, TRUE), TRUE)
  \/ /\ doc.mode = "archive" /\ CanFail("archive")
     /\ file' = None
     /\ UNCHANGED <<disk, doc, ed>>
     /\ ghost' = Touched(ghost, 1, FALSE)

\* Mutant: the completion does not ask where the document is kept.
FlushAlwaysSaves(d) == TRUE

\* In folder mode a flush is the save; an archive is still to be written.
FlushSaves(d) == d.mode # "archive"

\* rebuild_manifest, and its completion.
Rebuild ==
  \E f \in Flushes(disk, doc, Text, TRUE) :
    \/ FlushFails(f)
    \/ /\ f.ok
       /\ disk' = f.disk
       /\ doc' = [Reloaded(doc, f.disk) EXCEPT !.verify = "none"]
       /\ IF FlushSaves(doc)
          THEN /\ ed' = Marked(ed)
               /\ ghost' = Saved(Touched(ghost, f.cost, TRUE))
          ELSE /\ ed' = [ed EXCEPT !.dirty = FALSE]
               /\ ghost' = Touched(ghost, f.cost, TRUE)
       /\ UNCHANGED file

\* sign_document, and its completion: the signature is over the manifest.json
\* that is there after the flush.
Sign ==
  \E f \in Flushes(disk, doc, Text, TRUE) :
    \/ FlushFails(f)
    \/ /\ f.ok
       /\ IF f.disk.manifest = None
          THEN /\ disk' = f.disk
               /\ doc' = Reloaded(doc, disk')
               /\ ghost' = Unmarked(Touched(ghost, f.cost, TRUE))
               /\ ed' = ed
          ELSE /\ disk' = [f.disk EXCEPT !.sig = f.disk.manifest]
               /\ doc' = [Reloaded(doc, disk') EXCEPT !.verify = "none"]
               /\ IF FlushSaves(doc)
                  THEN /\ ed' = Marked(ed)
                       /\ ghost' = Saved(Touched(ghost, f.cost, TRUE))
                  ELSE /\ ed' = [ed EXCEPT !.dirty = FALSE]
                       /\ ghost' = Touched(ghost, f.cost, TRUE)
       /\ UNCHANGED file

RemoveSignature ==
  /\ disk.sig # None
  /\ disk' = [disk EXCEPT !.sig = None]
  /\ doc' = Reloaded(doc, disk')
  /\ ghost' = Touched(ghost, 0, TRUE)
  /\ UNCHANGED <<file, ed>>

\* run_verify: the disk against the manifest in memory.
Verify ==
  /\ doc.manifest # None
  /\ doc' = [doc EXCEPT !.verify = IF Listing(disk) = doc.manifest THEN "ok"
                                   ELSE "failed"]
  /\ UNCHANGED <<disk, file, ed, ghost>>

\* The Encryption panel: Encrypt with the files that are ticked when nothing is
\* sealed, Decrypt when something is.
EncryptOffered(ms) == doc.policy = {} /\ \A m \in ms : disk.val[m] # None

\* encrypt_document.  When sealing fails, what was flushed stays.
Encrypt(ms) ==
  /\ EncryptOffered(ms) /\ ghost.seals < MaxSeals
  /\ \E f \in Flushes(disk, doc, Text, TRUE) :
       \/ FlushFails(f)
       \/ /\ f.ok
          /\ \/ LET y == Rebuilt([f.disk EXCEPT !.sealed = ms,
                                                !.seal = ghost.seals + 1])
                IN  /\ disk' = y
                    /\ doc' = Loaded(doc.mode, y)
                    /\ ed' = Synced(ed, LoadedText(y))
                    /\ ghost' = Reseeded(Touched([ghost EXCEPT !.seals = @ + 1],
                                                 f.cost, TRUE),
                                         doc.mode # "archive")
             \/ /\ f.cost = 0 /\ CanFail("seal")
                /\ disk' = f.disk
                /\ doc' = Reloaded(doc, f.disk)
                /\ ghost' = Unmarked(Touched(ghost, 1, TRUE))
                /\ ed' = ed
          /\ UNCHANGED file

\* decrypt_document: what the editor and the forms hold is not written first.
Decrypt ==
  /\ doc.policy # {}
  /\ LET y == Rebuilt([disk EXCEPT !.sealed = {}, !.seal = 0])
     IN  /\ disk' = y
         /\ doc' = Loaded(doc.mode, y)
         /\ ed' = Synced(ed, LoadedText(y))
         /\ ghost' = Reseeded(Touched(ghost, 0, TRUE), doc.mode # "archive")
  /\ UNCHANGED file

\* audit_append_entry; audit_make_checkpoint does the same to the caches.
Audit ==
  /\ disk.log < MaxLog
  /\ disk' = [disk EXCEPT !.log = @ + 1]
  /\ doc' = Reloaded(doc, disk')
  /\ ghost' = Touched(ghost, 0, TRUE)
  /\ UNCHANGED <<file, ed>>

\* export_render: what is rendered is what the user sees, so it is written.
Export ==
  \E f \in Flushes(disk, doc, Text, FALSE) :
    \/ FlushFails(f)
    \/ /\ f.ok
       /\ disk' = f.disk
       /\ doc' = Reloaded(doc, f.disk)
       /\ ghost' = Unmarked(Touched(ghost, f.cost, TRUE))
       /\ UNCHANGED <<file, ed>>

-----------------------------------------------------------------------------
(* The panels: what each recomputes when it is drawn.                      *)

Computed(d, c) == [d EXCEPT !.fresh = @ \union {c}]
RefreshSignatures(d)  == Computed(d, "sigs")
RefreshAudit(d)       == Computed(d, "audit")
RefreshConformance(d) == Computed(d, "conformance")
Current(g, c)  == [g EXCEPT !.stale = @ \ {c}]

\* refresh_disk_hashes: the members and the images as they are on disk, and
\* whether a member is not listed.
Scan(d) == [val |-> disk.val, sealed |-> disk.sealed, seal |-> disk.seal,
            images |-> disk.images,
            extra |-> \E m \in Members : disk.val[m] # None /\ d.manifest.val[m] = None]

\* Mutant: the text is hashed when the disk is.
LiveOnScan(d, m) == /\ "hashes" \notin d.fresh
                    /\ m \in ({Content} \ d.policy) \union d.write

\* Which members are overlaid: the text when its undo index moved, and the forms
\* when their revision did, and both over a new scan.
LiveMember(d, m) ==
  IF m = Content
  THEN /\ Content \notin d.policy
       /\ "hashes" \notin d.fresh \/ ed.at["hashes"] # ed.pos
  ELSE m \in d.write /\ ("hashes" \notin d.fresh \/ ~ed.formsSeen)

\* update_live_content_hash and update_live_props_hash: what a save would write.
Hashed(d, m, text) == IF m = Content THEN Canonical[text] ELSE Canonical[d.form[m]]

Hashes(d, text) ==
  [(IF "hashes" \in d.fresh THEN d.cur ELSE Scan(d)) EXCEPT
     !.val = [m \in Members |-> IF LiveMember(d, m) THEN Hashed(d, m, text) ELSE @[m]],
     !.sealed = {m \in @ : ~LiveMember(d, m)}]

\* refresh_manifest_view, and the undo index it was at.
ManifestView(d) ==
  IF d.manifest = None THEN d
  ELSE [Computed(d, "hashes") EXCEPT !.cur = Hashes(d, Text)]

HashesText(d) == "hashes" \notin d.fresh \/ ed.at["hashes"] # ed.pos

ManifestSeen(d) ==
  IF d.manifest = None THEN ed
  ELSE [ed EXCEPT !.at["hashes"] = ed.pos, !.formsSeen = TRUE,
                  !.seen["hashes"] = IF HashesText(d) THEN Text ELSE @]

ManifestCurrent(d, g) ==
  IF d.manifest = None THEN g
  ELSE [g EXCEPT !.lost = IF HashesText(d) THEN @ \ {"hashes"} ELSE @,
                 !.stale = IF "hashes" \in d.fresh THEN @ ELSE @ \ {"hashes"}]

ManifestPanel ==
  /\ doc' = ManifestView(doc)
  /\ ed' = ManifestSeen(doc)
  /\ ghost' = ManifestCurrent(doc, ghost)
  /\ UNCHANGED <<disk, file>>

\* The signers, checked once per state of the disk.
TrustPanel ==
  /\ doc' = RefreshSignatures(ManifestView(doc))
  /\ ed' = ManifestSeen(doc)
  /\ ghost' = IF "sigs" \in doc.fresh THEN ManifestCurrent(doc, ghost)
              ELSE Current(ManifestCurrent(doc, ghost), "sigs")
  /\ UNCHANGED <<disk, file>>

AuditPanel ==
  /\ "audit" \notin doc.fresh
  /\ doc' = RefreshAudit(doc)
  /\ ghost' = Current(ghost, "audit")
  /\ UNCHANGED <<disk, file, ed>>

ConformancePanel ==
  /\ "conformance" \notin doc.fresh
  /\ doc' = RefreshConformance(doc)
  /\ ghost' = Current(ghost, "conformance")
  /\ UNCHANGED <<disk, file, ed>>

\* What was computed from the editor at this undo index.
Watched(w) == [ed EXCEPT !.at[w] = ed.pos, !.seen[w] = Text]

StructurePanel ==
  /\ ed.at["outline"] # ed.pos
  /\ ed' = Watched("outline")
  /\ ghost' = [ghost EXCEPT !.lost = @ \ {"outline"}]
  /\ UNCHANGED <<disk, file, doc>>

DiffPanel ==
  /\ ed.at["diff"] # ed.pos \/ "diff" \notin doc.fresh
  /\ ed' = Watched("diff")
  /\ doc' = Computed(doc, "diff")
  /\ ghost' = [Current(ghost, "diff") EXCEPT !.lost = @ \ {"diff"}]
  /\ UNCHANGED <<disk, file>>

-----------------------------------------------------------------------------
Editing == \/ \E t \in Typeable : Type(t) \/ InsertImage(t)
           \/ Undo \/ Redo
           \/ \E m \in Forms, v \in Fillable : EditForm(m, v)
           \/ UndoForm \/ RedoForm

Jobs == \/ Save \/ SaveAs \/ Rebuild \/ Sign \/ RemoveSignature \/ Verify
        \/ \E ms \in Tickable : Encrypt(ms)
        \/ Decrypt \/ Audit \/ Export

Panels == \/ "manifest" \in shown /\ ManifestPanel
          \/ "trust" \in shown /\ TrustPanel
          \/ "audit" \in shown /\ AuditPanel
          \/ "conformance" \in shown /\ ConformancePanel
          \/ "structure" \in shown /\ StructurePanel
          \/ "diff" \in shown /\ DiffPanel

\* Every input and every operation counts.
Counted(n) == /\ inputs + jobs < MaxSteps
              /\ inputs' = inputs + n /\ jobs' = jobs + (1 - n)

Next ==
  \/ inputs < MaxInputs /\ Counted(1) /\ Editing /\ UNCHANGED shown
  \/ Counted(0) /\ Jobs /\ UNCHANGED shown
  \/ Panels /\ UNCHANGED <<shown, inputs, jobs>>

Spec == Init /\ [][Next]_vars

-----------------------------------------------------------------------------
(* What the panels show.                                                   *)

\* manifest_drift over the hashes last computed: a listed file that differs or is
\* missing, or a file on disk that is not listed.
Drift == \/ doc.cur.extra
         \/ doc.cur.images # doc.manifest.images
         \/ \E m \in Members :
              /\ doc.manifest.val[m] # None
              /\ \/ doc.cur.val[m] # doc.manifest.val[m]
                 \/ (m \in doc.cur.sealed) # (m \in doc.manifest.sealed)
                 \/ m \in doc.cur.sealed /\ doc.cur.seal # doc.manifest.seal

\* The Trust panel is drawn and up to date with the window.
TrustShown == /\ doc.manifest # None /\ {"hashes", "sigs"} \subseteq doc.fresh
              /\ ed.at["hashes"] = ed.pos /\ ed.formsSeen

Green  == TrustShown /\ SigValid(disk) /\ ~Drift
Broken == TrustShown /\ SigValid(disk) /\ Drift

\* What the document says now: the disk, with the editor and the forms over it.
Live == Listing(WriteMembers(disk, doc, Text, FALSE))

\* The document as it was last saved, which the Diff panel compares with
\* (baseline_content).
Baseline == IF doc.mode = "archive" THEN file ELSE disk

-----------------------------------------------------------------------------
(* Properties.                                                             *)

Engines == [mode : {"untitled", "folder", "archive"}, policy : SUBSET Members,
            form : [Forms -> Values], write : SUBSET Forms,
            manifest : Listings \union {None}, cur : Scans \union {None},
            fresh : SUBSET Caches, verify : {"none", "ok", "failed"}]

Windows == [hist : Seq(Values), pos : Nat, dirty : BOOLEAN,
            forms : Seq([Forms -> Values]), fpos : Nat, at : [Watchers -> 0..Never],
            seen : [Watchers -> Values \union {None}], formsSeen : BOOLEAN]

Ghosts == [faults : Nat, seals : 0..MaxSeals, stale : SUBSET Caches, unnoticed : BOOLEAN,
           lost : SUBSET Watchers, unmarked : BOOLEAN]

TypeOK ==
  /\ disk \in Containers
  /\ file \in Containers \union {None}
  /\ doc \in Engines /\ ("hashes" \in doc.fresh <=> doc.cur # None)
  /\ ed \in Windows /\ Len(ed.hist) <= MaxEdits + 1
  /\ ed.pos + 1 \in 1..Len(ed.hist) /\ ed.fpos \in 0..Len(ed.forms)
  /\ ghost \in Ghosts

\* A cache the panels take for current is what is on disk, and so are the
\* manifest and the policy in memory, as long as no image was copied in and no
\* flush failed part way since (studio_core.hpp: disk_rev is bumped whenever
\* the working copy changes).
ViewsAreCurrent ==
  /\ doc.manifest = disk.manifest /\ doc.policy = disk.sealed
  /\ ~ghost.unnoticed => doc.fresh \intersect ghost.stale = {}

Reseeds == /\ Len(ed.hist) > Len(ed'.hist) \/ Len(ed.forms) > Len(ed'.forms)
           /\ Len(ed'.hist) = 1 /\ ed'.forms = << >>

\* Whatever re-seeds the editor has written it first, and the forms, except
\* Decrypt, and except for members that are sealed.
EditsSurvive ==
  [][Reseeds /\ ~Decrypt =>
       /\ Content \notin doc.policy => disk'.val[Content] = Canonical[Text]
       /\ \A m \in doc.write \ doc.policy : disk'.val[m] = Canonical[doc.form[m]]]_vars

\* A document shown without the star is saved: the archive or the folder says
\* what the editor says and the working copy what the forms say.  Except when the
\* undo entry of the save was typed over, when the editor was written without the
\* document being marked or the other way round, and when the archive is torn.
CleanIsSaved ==
  ~Dirty /\ "saved" \notin ghost.lost /\ ~ghost.unmarked =>
    /\ Content \notin doc.policy /\ Baseline # None /\ Baseline.val[Content] # None =>
         Canonical[Baseline.val[Content]] = Canonical[Text]
    /\ \A m \in doc.write \ doc.policy :
         disk.val[m] # None /\ Canonical[disk.val[m]] = Canonical[doc.form[m]]

\* A green signature covers the document as the window shows it, as long as no
\* image was copied in, no entry of the undo stack that the hashes were computed
\* at was typed over, and the editor and no form is about a member the manifest
\* does not list, or not as sealed.
GreenIsCovered ==
  (/\ Green /\ ~ghost.unnoticed /\ "hashes" \notin ghost.lost
   /\ \A m \in Written(doc) \union doc.write : doc.manifest.val[m] # None
   /\ doc.write \intersect doc.policy \subseteq doc.manifest.sealed)
  => disk.sig = Live

\* "BROKEN - the document was edited since signing" is said of nothing else than
\* a document a save would change, an image behind the manifest, a manifest that
\* could not be written, hashes of a dropped undo entry, and a form about a sealed
\* member, which no save writes.
BrokenIsExplained ==
  Broken /\ ghost.faults = 0 =>
    \/ Live # Listing(disk) \/ disk.images > doc.manifest.images
    \/ "hashes" \in ghost.lost \/ doc.write \intersect doc.policy # {}

\* An OK of Verify stays true for as long as it is shown, whatever is saved,
\* signed or exported meanwhile, as long as the manifest could be written and no
\* image has been copied in behind it.
VerifiedHolds ==
  doc.verify = "ok" /\ ghost.faults = 0 =>
    \/ disk.manifest = Listing(disk)
    \/ disk.images > disk.manifest.images

\* The verdicts of the Trust panel are right whichever they are: green for nothing but what
\* was signed (studio_core's check of signatures and hashes against the window), broken for
\* nothing but a change, and OK for a manifest that still holds.
VerdictIsRight == GreenIsCovered /\ BrokenIsExplained /\ VerifiedHolds

\* The outline and the diff belong to the text in the editor when their undo index
\* says so, except when the entry of that index was typed over.
WatchedTextIsCurrent ==
  \A w \in Watchers : ed.at[w] = ed.pos /\ w \notin ghost.lost => ed.seen[w] = Text

\* Whatever becomes of the archive, it is torn or it holds all of the working
\* copy: the images, the audit log, the sealed members, the signature.
ArchiveKeepsAll ==
  [][file' # file /\ file' # None =>
       /\ file'.images = disk.images /\ file'.log = disk.log
       /\ file'.sealed = disk.sealed /\ file'.sig = disk.sig
       /\ \A m \in Members : disk.val[m] # None => file'.val[m] # None]_vars
=============================================================================
