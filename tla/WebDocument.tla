----------------------------- MODULE WebDocument -----------------------------
(***************************************************************************)
(* The web client's one document: the DocumentStore (state/document.svelte *)
(* .ts), the window that opens, saves and imports into it (App.svelte,     *)
(* platform/files.ts, platform/import.ts) and the mcdf-ts operations the   *)
(* panels call on it.                                                      *)
(*                                                                         *)
(* JavaScript runs one piece of code at a time, from an event or a settled *)
(* promise to the next await.  Such a piece is a step here, and what is    *)
(* awaited is a task: a picker, a read, a write, a conversion, a cipher.   *)
(* Between the two the user goes on, and tasks end in any order.           *)
(*                                                                         *)
(* Bytes are values; Canonical says what the store writes for the value it *)
(* read.  A digest is what it is a digest of, a signature the manifest it  *)
(* was made over.  A sealed content.md keeps its plaintext in the model    *)
(* and is told apart by the number of its ciphertext.                      *)
(***************************************************************************)
EXTENDS Naturals, Sequences

CONSTANTS
  Texts,      \* what content.md can say
  Forms,      \* what schema.yaml can say
  Canonical,  \* Canonical[v]: what is written for v, a text or a form
  Anchors,    \* Anchors[t]: the sections the top-level headings of t name
  Declared,   \* Declared[f]: the sequence of sections f declares
  Pictured,   \* Pictured[t]: t with a reference to an image appended
  Empty,      \* the text ''
  EmptyForm,  \* emptySchema()
  None,
  Fresh,      \* createDocument(): a container
  Converted,  \* what an importer makes: a container
  Disk,       \* Disk[f]: the .mcdf a file holds at first
  Typeable,   \* what may be typed
  Fillable,   \* what may be put into the schema's form
  Droppable,  \* the files that may be dropped on the window
  MaxTasks,   \* bound: tasks at once
  MaxAssets,  \* bound: assets of a container
  MaxLog,     \* bound: entries of its audit log
  MaxSeals,   \* bound: encryptions
  MaxInputs,  \* bound: things typed and filled in
  MaxSteps    \* bound: those and the operations

Files == DOMAIN Disk
Docs  == {Disk[f].doc : f \in Files} \union {Fresh.doc, Converted.doc}

ASSUME WebValues ==
  /\ None \notin Texts \union Forms \union Files
  /\ Empty \in Texts /\ EmptyForm \in Forms /\ Declared[EmptyForm] = << >>
  /\ Canonical \in [Texts \union Forms -> Texts \union Forms]
  /\ \A v \in Texts \union Forms : Canonical[Canonical[v]] = Canonical[v]
  /\ \A t \in Texts : Canonical[t] \in Texts /\ Anchors[Canonical[t]] = Anchors[t]
  /\ \A f \in Forms : Canonical[f] \in Forms /\ Declared[Canonical[f]] = Declared[f]
  /\ Pictured \in [Texts -> Texts] /\ Typeable \subseteq Texts /\ Fillable \subseteq Forms
  /\ Droppable \subseteq Files

ASSUME WebBounds ==
  /\ MaxTasks \in Nat /\ MaxAssets \in Nat /\ MaxLog \in Nat
  /\ MaxSeals \in Nat /\ MaxInputs \in Nat /\ MaxSteps \in Nat

VARIABLES
  base,     \* #base: the container as last opened, saved or adopted
  live,     \* the edit buffers and flags: [text, form, sealed, stored, unsaved]
  handle,   \* the file Save writes back to, or None
  files,    \* what the files hold
  tasks,    \* what is awaited, in the order it was started
  waiting,  \* pendingImport: the conversion whose report is shown, or None
  ghost,    \* history
  inputs, steps   \* counters, for the bounds

vars == <<base, live, handle, files, tasks, waiting, ghost, inputs, steps>>

-----------------------------------------------------------------------------
(* Containers.                                                             *)

Among(sections, anchors) == SelectSeq(sections, LAMBDA s : s \in anchors)

\* boundSections, in the order of the schema.
BoundSections(form, text) == Among(Declared[form], Anchors[text])

\* buildManifest: not the audit log, its checkpoint, the signatures or the
\* manifest itself.
Listing(c) == [text |-> c.text, sealed |-> c.sealed, seal |-> c.seal,
               form |-> c.form, claim |-> c.claim, assets |-> c.assets]

Bound  == {BoundSections(f, t) : f \in Forms, t \in Texts}
Claims == {None} \union Bound
Listings == [text : Texts, sealed : BOOLEAN, seal : 0..MaxSeals,
             form : Forms \union {None}, claim : Claims, assets : 0..MaxAssets]
Containers ==
  [doc : Docs, text : Texts, sealed : BOOLEAN, seal : 0..MaxSeals,
   form : Forms \union {None}, claim : Claims, assets : 0..MaxAssets,
   log : 0..MaxLog, mark : 0..MaxLog,
   manifest : Listings \union {None}, sig : Listings \union {None}]

ASSUME WebContainers ==
  /\ Fresh \in Containers /\ Converted \in Containers /\ Disk \in [Files -> Containers]
  /\ ~Fresh.sealed /\ None \notin Bound \union Listings \union Containers

Rebuilt(c) == [c EXCEPT !.manifest = Listing(c)]

\* verifyContainer: the signature is over this manifest.
SigValid(c) == c.sig # None /\ c.sig = c.manifest

\* Everything but manifest.json, which dirty does not look at.
Rest(c) == [c EXCEPT !.manifest = None]

\* attestationRequired: schema.yaml, which the panel never offers to seal,
\* declares a section.
AttestationRequired(c) == c.form # None /\ Declared[c.form] # << >>

\* Mutant: attested once content.md has become ciphertext, which has no headings.
SealedLate(c, n) ==
  Rebuilt([c EXCEPT !.sealed = TRUE, !.seal = n,
                    !.claim = IF AttestationRequired(c) THEN << >> ELSE None])

\* encryptContainer, of content.md.
Sealed(c, n) ==
  Rebuilt([c EXCEPT !.sealed = TRUE, !.seal = n,
                    !.claim = IF AttestationRequired(c)
                              THEN BoundSections(c.form, c.text) ELSE None])

\* decryptContainer: the claim has to be what the opened content says.
AttestationHolds(c) ==
  c.claim # None /\ c.form # None => BoundSections(c.form, c.text) = c.claim
Opened(c) == Rebuilt([c EXCEPT !.sealed = FALSE, !.seal = 0, !.claim = None])

-----------------------------------------------------------------------------
(* The store.                                                              *)

\* reset: the buffers of a container, and a clean document.
Buffers(c) == [text |-> IF c.sealed THEN Empty ELSE c.text, form |-> c.form,
               sealed |-> c.sealed, stored |-> c.manifest, unsaved |-> FALSE]

\* working: the container as it would be written right now.
Working ==
  [base EXCEPT !.text = IF live.sealed THEN @ ELSE Canonical[live.text],
               !.form = IF live.form = None THEN @ ELSE Canonical[live.form]]

HasManifest == live.stored # None

\* Mutant: only the text is compared.
DirtyText == live.unsaved \/ Working.text # base.text
Dirty == live.unsaved \/ Rest(Working) # Rest(base)

\* The container pack() adopts and hands over.
Packed == IF HasManifest THEN Rebuilt(Working) ELSE Working

\* Mutant: checked against the manifest that is stored.
ShownValidStored == base.manifest # None /\ base.sig # None /\ base.sig = live.stored
\* signedAndValid: the signature against liveManifest.
ShownValid == base.manifest # None /\ base.sig # None /\ base.sig = Listing(Working)

-----------------------------------------------------------------------------
(* History.  turn: flips when the document is replaced.  consent: of the   *)
(* last replacement, that the user was asked.  out: what was last read     *)
(* from or written to a place outside the tab.  loose: the baseline has    *)
(* adopted something since.  late: a result was applied over changes made since  *)
(* it was started.  crossed: over another document.  overlap: two writes   *)
(* at once.  reformed: the schema was edited while content.md was sealed,   *)
(* here or before the document was opened.                                 *)

Leaving == {"write", "pick"}
IsLeaving(t) == t.kind \in Leaving

\* Every task under way sees the store change.
Later(ts) == [i \in DOMAIN ts |-> [ts[i] EXCEPT !.late = TRUE]]

\* ... and after a replacement another document.
Elsewhere(t) == [t EXCEPT !.late = TRUE, !.here = FALSE]
Behind(ts)   == [i \in DOMAIN ts |-> Elsewhere(ts[i])]

Task(kind, to, box, asked) ==
  [kind |-> kind, to |-> to, box |-> box, asked |-> asked,
   late |-> FALSE, here |-> TRUE]

Without(i) == SubSeq(tasks, 1, i - 1) \o SubSeq(tasks, i + 1, Len(tasks))

\* An operation of the user.  The import's report is a modal dialog.
Step == steps < MaxSteps /\ steps' = steps + 1
AtPanel == Step /\ waiting = None /\ UNCHANGED inputs
Start(t) == Len(tasks) < MaxTasks /\ tasks' = Append(tasks, t)

\* The document is replaced by c.
Replace(c, unsaved, asked, out) ==
  /\ base' = c
  /\ live' = [Buffers(c) EXCEPT !.unsaved = unsaved]
  /\ ghost' = [ghost EXCEPT !.turn = ~@, !.consent = asked, !.out = out, !.loose = FALSE,
                            !.late = FALSE, !.crossed = FALSE, !.overlap = FALSE,
                            !.reformed = ~AttestationHolds(c)]

\* The baseline becomes c, an edited clone of the working container.
Adopt(c) ==
  /\ base' = c
  /\ ghost' = [ghost EXCEPT !.loose = TRUE]

-----------------------------------------------------------------------------
(* The editor, and the forms of the panels.                                *)

Init ==
  /\ base = Fresh /\ live = Buffers(Fresh)
  /\ handle = None /\ files = Disk /\ tasks = << >> /\ waiting = None
  /\ ghost = [turn |-> FALSE, consent |-> FALSE, out |-> Fresh, loose |-> FALSE,
              late |-> FALSE, crossed |-> FALSE, overlap |-> FALSE, reformed |-> FALSE,
              seals |-> 0]
  /\ inputs = 0 /\ steps = 0

Input ==
  /\ Step /\ inputs < MaxInputs /\ inputs' = inputs + 1 /\ waiting = None
  /\ tasks' = Later(tasks)
  /\ UNCHANGED <<base, handle, files, waiting>>

\* No editor is shown over a sealed content.md.  bindSection edits the text too.
Type(t) ==
  /\ Input /\ ~live.sealed
  /\ live' = [live EXCEPT !.text = t]
  /\ UNCHANGED ghost

\* The schema's fields, addSection, removeSection, moveSection and
\* adoptSchemaFromContent; they stay enabled while content.md is sealed.
Fill(f) ==
  /\ Input /\ live.form # None
  /\ live' = [live EXCEPT !.form = f]
  /\ ghost' = [ghost EXCEPT !.reformed = @ \/ live.sealed]

AddSchema ==
  /\ Input /\ live.form = None
  /\ live' = [live EXCEPT !.form = EmptyForm]
  /\ ghost' = [ghost EXCEPT !.reformed = @ \/ live.sealed]

-----------------------------------------------------------------------------
(* New, Open, Drop and Import.                                             *)

\* Mutants: the user is never asked; the handle of the last document is kept.
AskedNever == FALSE
NoHandleKept == handle

\* The confirm(): shown when the store is dirty.  Declined, nothing happens.
Asked == Dirty

\* What New, a dropped or an accepted document leaves Save to write back to.
NoHandle == None

New ==
  /\ AtPanel
  /\ Replace(Fresh, FALSE, Asked, Fresh)
  /\ handle' = NoHandle /\ tasks' = Behind(tasks)
  /\ UNCHANGED <<files, waiting>>

Open ==
  /\ AtPanel /\ Start(Task("open", None, None, Asked))
  /\ UNCHANGED <<base, live, handle, files, waiting, ghost>>

\* The picker was cancelled, the file is no archive, an import or a cipher
\* failed: the store is as it was.
Fails(i) ==
  /\ tasks[i].kind \in {"open", "drop", "convert", "seal", "attach"}
  /\ tasks' = Without(i)
  /\ UNCHANGED <<base, live, handle, files, waiting, ghost, inputs, steps>>

\* The file is read and replaces the document; a browser that refuses the
\* handle leaves an <input>, which has none.
OpenDone(i, f, h) ==
  /\ tasks[i].kind = "open" /\ h \in {f, None}
  /\ Replace(files[f], FALSE, tasks[i].asked \/ tasks[i].late, files[f])
  /\ handle' = h /\ tasks' = Behind(Without(i))
  /\ waiting' = IF waiting = None THEN None ELSE Elsewhere(waiting)
  /\ UNCHANGED <<files, inputs, steps>>

\* Dropping works under the import's dialog as well.
Drop(f) ==
  /\ Step /\ Start(Task("drop", None, files[f], FALSE))
  /\ UNCHANGED <<base, live, handle, files, waiting, ghost, inputs>>

\* Once it is read, an archive replaces the document.
DropDone(i) ==
  /\ tasks[i].kind = "drop"
  /\ Replace(tasks[i].box, FALSE, Asked, tasks[i].box)
  /\ handle' = NoHandle /\ tasks' = Behind(Without(i))
  /\ waiting' = IF waiting = None THEN None ELSE Elsewhere(waiting)
  /\ UNCHANGED <<files, inputs, steps>>

\* The button, or a foreign file that was dropped, which works under the dialog.
Import ==
  /\ Step /\ Start(Task("convert", None, Converted, Asked))
  /\ UNCHANGED <<base, live, handle, files, waiting, ghost, inputs>>

\* The outcome waits for its report to be read.  It keeps its task's history.
ConvertDone(i) ==
  /\ tasks[i].kind = "convert"
  /\ waiting' = tasks[i] /\ tasks' = Without(i)
  /\ UNCHANGED <<base, live, handle, files, ghost, inputs, steps>>

AcceptImport ==
  /\ Step /\ waiting # None
  /\ waiting' = None
  /\ Replace(waiting.box, TRUE,
             waiting.asked \/ waiting.late, None)
  /\ handle' = NoHandle /\ tasks' = Behind(tasks)
  /\ UNCHANGED <<files, inputs>>

CancelImport ==
  /\ Step /\ waiting # None /\ waiting' = None
  /\ UNCHANGED <<base, live, handle, files, tasks, ghost, inputs>>

-----------------------------------------------------------------------------
(* Save and Save As.                                                       *)

\* pack: the baseline is what is about to be written.
Pack ==
  /\ base' = Packed
  /\ live' = [live EXCEPT !.stored = Packed.manifest, !.unsaved = FALSE]
  /\ ghost' = [ghost EXCEPT !.loose = FALSE,
                            !.overlap = @ \/ \E i \in DOMAIN tasks : IsLeaving(tasks[i])]

\* The button and Ctrl+S, which works under the import's dialog.
Save ==
  /\ Step /\ Pack
  /\ Start(IF handle # None THEN Task("write", handle, Packed, FALSE)
                            ELSE Task("pick", None, Packed, FALSE))
  /\ UNCHANGED <<handle, files, waiting, inputs>>

SaveAs ==
  /\ AtPanel /\ Pack
  /\ Start(Task("pick", None, Packed, FALSE))
  /\ UNCHANGED <<handle, files, waiting>>

\* The bytes of t are outside the tab, and what the await resumes may be
\* another document.
Left(t) == [ghost EXCEPT !.out = IF t.here THEN t.box ELSE @,
                         !.crossed = @ \/ ~t.here]

WriteDone(i) ==
  /\ tasks[i].kind = "write"
  /\ files' = [files EXCEPT ![tasks[i].to] = tasks[i].box]
  /\ ghost' = Left(tasks[i]) /\ tasks' = Without(i)
  /\ UNCHANGED <<base, live, handle, waiting, inputs, steps>>

\* The platform refuses: the handle is given up, whose ever it is by now, and
\* the same bytes go to Save As.
WriteFails(i) ==
  /\ tasks[i].kind = "write"
  /\ handle' = None
  /\ tasks' = [tasks EXCEPT ![i].kind = "pick", ![i].to = None]
  /\ ghost' = [ghost EXCEPT !.crossed = @ \/ ~tasks[i].here]
  /\ UNCHANGED <<base, live, files, waiting, inputs, steps>>

PickDone(i, f) ==
  /\ tasks[i].kind = "pick"
  /\ files' = [files EXCEPT ![f] = tasks[i].box]
  /\ handle' = f
  /\ ghost' = Left(tasks[i]) /\ tasks' = Without(i)
  /\ UNCHANGED <<base, live, waiting, inputs, steps>>

\* No picker, or it or the write was refused: the bytes are downloaded.
PickDownloads(i) ==
  /\ tasks[i].kind = "pick"
  /\ ghost' = Left(tasks[i]) /\ tasks' = Without(i)
  /\ UNCHANGED <<base, live, handle, files, waiting, inputs, steps>>

PickCancelled(i) ==
  /\ tasks[i].kind = "pick"
  /\ ghost' = [ghost EXCEPT !.loose = TRUE]
  /\ tasks' = Without(i)
  /\ UNCHANGED <<base, live, handle, files, waiting, inputs, steps>>

-----------------------------------------------------------------------------
(* The panels.                                                             *)

\* Mutant: the flag and the view of manifest.json are left as they were.
SignsUnseen == live
\* storedManifest and hasManifest after the manifest was rebuilt.
ManifestSeen == [live EXCEPT !.stored = Listing(Working)]

PanelEdit(c) ==
  /\ AtPanel /\ Adopt(c) /\ tasks' = Later(tasks)
  /\ UNCHANGED <<handle, files, waiting>>

AddManifest ==
  /\ live' = ManifestSeen
  /\ PanelEdit(Rebuilt(Working))

\* The manifest is rebuilt first.
Sign ==
  /\ live' = ManifestSeen
  /\ PanelEdit([Rebuilt(Working) EXCEPT !.sig = Listing(Working)])

RemoveSignature ==
  /\ base.sig # None
  /\ PanelEdit([Working EXCEPT !.sig = None]) /\ UNCHANGED live

AppendAudit ==
  /\ base.log < MaxLog
  /\ PanelEdit([Working EXCEPT !.log = @ + 1]) /\ UNCHANGED live

\* The checkpoint commits to the head there is.
WriteCheckpoint ==
  /\ PanelEdit([Working EXCEPT !.mark = base.log]) /\ UNCHANGED live

\* The Encryption panel is busy until its own task is done; it offers Encrypt
\* while there is no policy, and Decrypt while there is one.
Ciphers == {"seal", "unseal"}
Idle == \A i \in DOMAIN tasks : tasks[i].kind \notin Ciphers

\* Mutant: from the container as it was opened or saved.
Snapshot == base
\* What encrypt and decrypt work on: a clone of the working container.
Clone == Working

Encrypt ==
  /\ AtPanel /\ Idle /\ ~base.sealed /\ ghost.seals < MaxSeals
  /\ Start(Task("seal", None, Clone, FALSE))
  /\ ghost' = [ghost EXCEPT !.seals = @ + 1]
  /\ UNCHANGED <<base, live, handle, files, waiting>>

Decrypt ==
  /\ AtPanel /\ Idle /\ base.sealed
  /\ Start(Task("unseal", None, Clone, FALSE))
  /\ UNCHANGED <<base, live, handle, files, waiting, ghost>>

\* reset() with the result, over whatever the store holds by then.
Resume(i, c) ==
  /\ base' = c /\ live' = Buffers(c)
  /\ ghost' = [ghost EXCEPT !.loose = TRUE, !.late = @ \/ tasks[i].late,
                            !.crossed = @ \/ ~tasks[i].here,
                            !.reformed = @ /\ c.sealed /\ tasks[i].late]
  /\ tasks' = Later(Without(i))
  /\ waiting' = IF waiting = None THEN None ELSE [waiting EXCEPT !.late = TRUE]
  /\ UNCHANGED <<handle, files, inputs, steps>>

EncryptDone(i) ==
  /\ tasks[i].kind = "seal"
  /\ Resume(i, Sealed(tasks[i].box, ghost.seals))

DecryptDone(i) ==
  /\ tasks[i].kind = "unseal" /\ AttestationHolds(tasks[i].box)
  /\ Resume(i, Opened(tasks[i].box))

\* E_STRUCTURE_ATTESTATION_INVALID: nothing is adopted.
DecryptRefused(i) ==
  /\ tasks[i].kind = "unseal" /\ ~AttestationHolds(tasks[i].box)
  /\ tasks' = Without(i)
  /\ UNCHANGED <<base, live, handle, files, waiting, ghost, inputs, steps>>

Attach ==
  /\ AtPanel /\ base.assets < MaxAssets
  /\ Start(Task("attach", None, None, FALSE))
  /\ UNCHANGED <<base, live, handle, files, waiting, ghost>>

\* The image under a name of its own, and a reference to it in the buffer,
\* into whatever document is open by now.
AttachDone(i) ==
  /\ tasks[i].kind = "attach" /\ base.assets < MaxAssets
  /\ Adopt([Working EXCEPT !.assets = @ + 1])
  /\ live' = [live EXCEPT !.text = Pictured[@]]
  /\ tasks' = Later(Without(i))
  /\ waiting' = IF waiting = None THEN None ELSE [waiting EXCEPT !.late = TRUE]
  /\ UNCHANGED <<handle, files, inputs, steps>>

-----------------------------------------------------------------------------
Panels ==
  \/ AddManifest \/ Sign \/ RemoveSignature \/ AppendAudit \/ WriteCheckpoint
  \/ Encrypt \/ Decrypt \/ Attach

Window ==
  \/ New \/ Open \/ Import \/ AcceptImport \/ CancelImport \/ Save \/ SaveAs
  \/ \E f \in Droppable : Drop(f)

Settles(i) ==
  \/ Fails(i) \/ DropDone(i) \/ ConvertDone(i)
  \/ WriteDone(i) \/ WriteFails(i) \/ PickDownloads(i) \/ PickCancelled(i)
  \/ EncryptDone(i) \/ DecryptDone(i) \/ DecryptRefused(i) \/ AttachDone(i)
  \/ \E f \in Files : PickDone(i, f) \/ \E h \in {f, None} : OpenDone(i, f, h)

Next ==
  \/ \E t \in Typeable : Type(t)
  \/ \E f \in Fillable : Fill(f)
  \/ AddSchema \/ Panels \/ Window
  \/ \E i \in DOMAIN tasks : Settles(i)

Spec == Init /\ [][Next]_vars

-----------------------------------------------------------------------------
Kinds == Leaving \union Ciphers \union {"open", "drop", "convert", "attach"}

Tasks == [kind : Kinds, to : Files \union {None}, box : Containers \union {None},
          asked : BOOLEAN, late : BOOLEAN, here : BOOLEAN]

Lives == [text : Texts, form : Forms \union {None}, sealed : BOOLEAN,
          stored : Listings \union {None}, unsaved : BOOLEAN]

Ghosts == [turn : BOOLEAN, consent : BOOLEAN, out : Containers \union {None},
           loose : BOOLEAN, late : BOOLEAN, crossed : BOOLEAN, overlap : BOOLEAN,
           reformed : BOOLEAN, seals : 0..MaxSeals]

\* The variables keep their types, and the flags say what the baseline is: what
\* is sealed, and that there is a manifest (hasManifest, sealed: document.svelte.ts).
TypeOK ==
  /\ base \in Containers
  /\ live \in Lives
  /\ live.sealed = base.sealed /\ live.stored = base.manifest
  /\ handle \in Files \union {None}
  /\ files \in [Files -> Containers]
  /\ tasks \in Seq(Tasks) /\ Len(tasks) <= MaxTasks
  /\ waiting \in Tasks \union {None}
  /\ ghost \in Ghosts
  /\ inputs \in 0..MaxInputs /\ steps \in 0..MaxSteps

\* The document would be lost if it were replaced now: something was changed
\* since the baseline, or it is an import that never left the tab.
AtRisk ==
  \/ ~live.sealed /\ Canonical[live.text] # base.text
  \/ live.form # None /\ (base.form = None \/ Canonical[live.form] # base.form)
  \/ live.unsaved

\* Changed work is never replaced by another document unless the user was asked,
\* or changed it while the other was being read or converted.
DiscardsAsked ==
  [][ghost'.turn # ghost.turn /\ AtRisk => ghost'.consent]_vars

\* A document that looks clean has left the tab as it is or came from outside
\* as it is, manifest aside -- unless the baseline has adopted what a panel did
\* or a save that was cancelled, two writes overlapped, or the document was
\* switched under an await.
CleanIsWritten ==
  ~Dirty /\ ~ghost.loose /\ ~ghost.overlap /\ ~ghost.crossed
         /\ (\A i \in DOMAIN tasks : ~IsLeaving(tasks[i]))
    => ghost.out # None /\ Rest(ghost.out) = Rest(Working)

\* Save writes back to a file that holds this document, unless the document was
\* switched while something was awaited.
HandleIsThisDocument ==
  handle # None /\ ~ghost.crossed => files[handle].doc = base.doc

\* The Trust panel's verdict is the one a reader gives on what Save would write.
VerdictIsOfTheSave == base.sig # None => (ShownValid = SigValid(Packed))

\* As long as nobody edits the schema over sealed content, decrypt does not
\* refuse what this program sealed.
StaysOpenable ==
  base.sealed /\ ~ghost.reformed /\ ~ghost.crossed => AttestationHolds(Working)

\* Within a document, only a result applied over later changes takes anything
\* away: the audit log and its checkpoint, assets, the manifest, what content.md
\* and the schema say, however it is spelled, but for what the user puts there.
\* A new checkpoint is one of the whole log.
Says == [text |-> Canonical[Working.text], form |-> Working.form]
OnlyLateResultsLose ==
  [][ghost'.turn = ghost.turn /\ ~ghost'.late /\ ~ghost'.crossed =>
       /\ base'.log >= base.log /\ (base'.mark >= base.mark \/ base'.mark = base.log)
       /\ base'.assets >= base.assets
       /\ (base.manifest # None => base'.manifest # None)
       /\ (inputs' = inputs =>
             Says' \in {Says, [Says EXCEPT !.text = Canonical[Pictured[live.text]]]})]_vars
=============================================================================
