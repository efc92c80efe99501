# A verification project for MCDF

MCDF is a document format, a folder or a `.mcdf` tar archive of Markdown, YAML and assets with
a manifest, signatures, encryption at rest and an audit log, and the programs that read and
write it. This directory holds TLA+ models of the parts whose behaviour is hard to test, the TLC
configurations that check them and the TLAPS proofs of what matters most. Paths below are
relative to the repository's root.

## The system

| Part | Where | State | Operations | Hard behaviour |
|---|---|---|---|---|
| Container folder | `src/container/directory_container.cpp` | files | read, write (truncates first), append, remove, list | nothing is locked or atomic |
| Manifest | `src/core/manifest_ops.cpp` | `manifest.json` | build, verify | stale after any later write |
| Signing | `src/core/sign_ops.cpp`, `src/crypto/jws.cpp` | `signatures/*.sig` | sign, verify | sign reads the manifest twice |
| Encryption at rest | `src/core/encrypt_ops.cpp`, `sealed.cpp` | member bytes, `encryption/policy.yaml` | encrypt, decrypt in place | failure part way, crashes, a second command |
| Audit log | `src/core/audit_ops.cpp`, `src/serialize/audit_log.cpp` | `audit.log`, `audit.checkpoint` | append, verify, checkpoint, verify checkpoint | read-then-append, torn lines, tampering |
| Validation | `src/core/validate.cpp` | none | four levels of checks | what to skip when members are sealed |
| Archives | `src/container/tar*.cpp`, `src/core/pack_ops.cpp` | none | pack, unpack, read | readers disagree on duplicates |
| CLI | `apps/cli/main.cpp` | a folder, an archive, the staging folder beside it | the operations above, one per process; create, import, keygen, render | processes on one folder; failing part way; a document already there |
| Studio core | `apps/studio/core/studio_core.cpp` | a document: working copy, edit buffers, the policy and manifest as last loaded, caches | open, save, save as, sign, encrypt, decrypt, audit, verify | what it remembers goes stale |
| Studio windows | `apps/studio/main.cpp` | open documents, job queues | submit, run, drain, reap, shut down | a worker thread and a UI thread |
| Web | `apps/web/packages/app/src` | document store, keyring | edit, encrypt, save, refresh | state used across awaits |
| TypeScript engine | `apps/web/packages/mcdf-ts/src` | none | a second implementation | |
| micro reader (C99) | `micro/src` | one arena | open, read, verify, validate | fixed memory |
| Rendering | `src/serialize/render.cpp`, `micro/render`, TypeScript `serialize` | none; a walk over windows | HTML, text, events | three implementations of one text; windows |
| Importers | `src/core/*_import.cpp`, `html_normalize.hpp`, `xhtml_md.hpp` | none | a page or a book to a document | tag soup, names that collide |
| Parsers, crypto | rest of `src/` | none | conversions | |

How they interact: the CLI, Studio's worker thread and other programs share a folder through the
file system only. Studio calls the library in process and keeps copies of what it last read. An
audit append, an encryption or a decryption is a sequence of separate reads and writes of files,
so another program's step, a failure or a crash can fall between any two of them.

What makes each part correct:

- *Audit log*: an append by anybody keeps a good log good; a bad one never looks good again; a
  checkpoint reported valid pins the history the signer saw.
- *Encryption*: no content is ever left under a key nobody has; encrypt then decrypt restores the
  very folder; the sealed folder verifies without the key; the attestation is true.
- *Studio*: never writes from stale memory, never loses an edit silently, never uses a document
  that is gone, runs every job it accepted.
- *Signing*: what is reported valid is what the signer saw verified.
- *micro reader*: never leaves its arena, refuses rather than truncates.

`PROJECT.json` lists every hazard with its line and the properties aimed at it.

## The modules

### `AuditLog`

`audit.log` and `audit.checkpoint` of one folder. Several processes (`Procs`) append, checkpoint
and crash; anything else may edit, remove or swap entries and rewrite the checkpoint.

| Model | Code |
|---|---|
| `lines`, `tail` | `audit.log`: its terminated lines, and what follows the last newline |
| `checkpoint` | `audit.checkpoint`: the head, and the head its signature was made over |
| `Readable`, `Entries`, `CurrentHead` | `parse_audit_log`, `read_audit_log`, `current_head` |
| `ReadHead(p, e)`, `AppendLine(p)` | the two halves of `audit_append` |
| `ReadForCheckpoint(p)`, `WriteCheckpoint(p)` | the two halves of `audit_checkpoint` |
| `AuditVerifies`, `CheckpointValid` | `audit_verify`, `audit_verify_checkpoint` |
| `TearAppend`, `TearCheckpoint`, `Crash` | a write cut short; a process that dies |
| `EditEntry`, `RemoveEntry`, `SwapEntries`, `EditCheckpoint` | other programs |

Hashes and signatures are ideal. A digest is taken of a line that holds its predecessor's digest,
so it stands for the sequence of events of the chain leading to it: a digest *is* that sequence,
and genesis (64 zeros) is the empty one. `tail` matters because the parser accepts a last line
without a newline, and an append then glues to it (`Glued`): two whole entries glued make seven
fields and the log unreadable, while a stub glued to an entry can come out as four fields. A write cut short
(`Partial`) may stop short of a field, inside the last hash, or just before the newline, also on top
of what an earlier one left. `EditEntry` rewrites an entry's event and its `prev_hash`, the latter
with any digest found in the log, so an edit may try to link up again.

### `McdfFolder`

A folder on disk, the library's `encrypt_container` and `decrypt_container` in separate steps, and
a Studio window that has the folder open.

| Model | Code |
|---|---|
| `files[m]` | a member's bytes: a text under layers of encryption, each named by its content key |
| `policy` | `encryption/policy.yaml`, absent, truncated, or list, key and attestation |
| `manifest` | `manifest.json`, as the bytes it was built over |
| `op[p]` | where a command is: which member is next, the policy it will write or has read |
| `studio` | `d.policy`'s list and `d.write_schema` as of the last load |
| `EncryptBegin`, `SealFile`, `EncryptFails`, `WritePolicy`, `RebuildManifest` | `encrypt_container` |
| `DecryptBegin`, `OpenFile`, `OpenFails`, `RemovePolicy`, `AttestationFails`, `RebuildManifest` | `decrypt_container` |
| `CrashBetweenWrites`, `CrashInMember`, `CrashInPolicy`, `CrashInManifest` | a crash, with the file being written truncated |
| `StudioLoad`, `StudioSave` | `load_from_workdir`, `flush_working_copy` with `write_members` |

`Sections` and `Anchors` say what a text means to `parse_schema_yaml` and to the heading parser;
they are all the attestation is computed from. A `--file` list (`Requests`) may name a member that
is missing, or one twice: the code checks neither before it begins. The variables `seals`,
`crashes` and `saves` bound the instance; `orphaned`, `raced`, `before` and `disturbed` are history
that only the properties read.

### `StudioJobs` and `DocumentJobs`

The two threads of `src/apps/studio/main.cpp`. The UI thread goes round a frame (`ui`: drain, keys,
menus, dialog, windows, reap), the worker looks at the queue, works, and queues the result. The mutexes
make each look, push and pop one step; between them the threads interleave freely.

| Model | Code |
|---|---|
| `documents`, `open`, `titled`, `loaded` | `g_documents`; a document's `open` flag, its path, its content |
| `active`, `target`, `pending` | `g_active`, `g_target_doc`, `g_pending` |
| `busy`, `jobs`, `doneJobs`, `workerQuit` | the `busy` flags, `g_jobs`, `g_done_jobs`, `g_worker_quit` |
| `worker`, `running` | `worker_main`: at its check, asleep on the condition variable, at work, returned |
| `Submit(d, kind)` | `submit_job`, which wakes the worker (`Woken`) |
| `ApplyDone`, `Drained` | `drain_done_jobs` |
| `Keys`, `Menus`, `Dialog`, `Windows` | `handle_shortcuts`, `draw_menu_bar`, the file dialog, document windows and panels |
| `Reap` | the loop that erases closed documents that are not busy, and moves the focus |
| `Shutdown`, `Join`, `CloseAll` | the end of `main` |
| `DanglingPick` | a file picked for a document that was reaped while the dialog was open |

A document is the pointer to it: the number it got when it was opened, never used again. The user
does at most one thing in each part of a frame. While the file dialog is open it is modal, so menus,
windows and panels take no input; shortcuts are read from the keyboard and still work, which is
how a document can change under an open dialog. A closed document is drawn once more and takes no
click, because a click takes two frames. `DanglingPick` is undefined behaviour; the model follows the
program no further.

`DocumentJobs` is what a document may expect: `unopened`, then `idle`, `accepted`, `worked` and `idle`
again for each operation, and `gone` only from `idle`; and an accepted operation is applied in the
end. `StudioJobs!Expected` maps `g_jobs`, the job in hand and `g_done_jobs` to those stages
(`KeepsExpectations`). Its `Misuse` step is where `DanglingPick` goes.

What the engine's operations do to the files is in `McdfFolder`; here an operation either repoints the
document (`save_as`) or does not. `draw_document_window` reads a document's path for the title
before it looks at the busy flag, while a Save As on the worker may be assigning it: the model
reaches the two steps together, and no property speaks of the title.

### `StudioDocument`

One open document of Studio with everything that remembers something about it: the working copy, the
`.mcdf` it came from, the engine's copy of the manifest, the policy and the forms, the editor's undo
stack, the forms' undo history, and what each panel last computed.

| Model | Code |
|---|---|
| `disk`, `file` | the working copy; the archive of a document in archive mode, `None` when its write failed |
| `doc` | `OpenDoc`: `mode`, the policy's list, `metadata`/`schema` and their write flags, `manifest`, the hashes (`cur`), and `fresh`, the caches whose revision is `disk_rev` |
| `ed` | `Document` of `main.cpp`: undo stack and index, `props_dirty`, the forms' history, and the undo index at which the hashes, outline, diff and last save were taken (`at`; `seen` is the text of then) |
| `Loaded`, `Reloaded` | `load_from_workdir`, `reload_manifest` |
| `Flushes`, `WriteMembers` | `flush_working_copy`, `write_members`, and what they leave when a write fails |
| `Save`, `SaveAs`, `Rebuild`, `Sign`, `RemoveSignature`, `Verify`, `Encrypt`, `Decrypt`, `Audit`, `Export` | the operations of `studio_core.cpp` with their completions in `main.cpp` |
| `Type`, `Undo`, `Redo`, `InsertImage`, `EditForm`, `UndoForm`, `RedoForm` | the editor and `props_record`, `props_apply`, `props_undo`, `props_redo` |
| `ManifestPanel`, `TrustPanel`, ... | `refresh_manifest_view` and the other caches, when their panel is drawn |

An operation is one step although it runs on the worker: while it does, no editor and no panel of this
document is drawn (that it is so is `StudioJobs`' `OneOwner`). An undo index stands for a text only as
long as nothing is typed after an undo; `ghost.lost` names the watchers whose index was typed over, and
`CleanIsSaved`, `WatchedTextIsCurrent` and `VerdictIsRight` hold but for those. The other exceptions, each needed:
`unnoticed` (inserting an image, or a flush that fails, changes the disk and not `disk_rev`),
`unmarked` (an operation wrote the editor and left the star, or re-seeded the editor, which takes the
star away, with the archive unwritten), and `Decrypt`, which reloads without writing first.

A verdict of Verify is `"none"`, `"ok"` or `"failed"` (`verify_summary` and `verify_ok`), and `Nothing` the working copy of a
document that was reset (`reset_views`). `Drift` is `manifest_drift`: a listed file that differs or is missing, images
included, or a file that is not listed. `GreenIsCovered`, the first part of `VerdictIsRight`, excepts a document whose
manifest does not list what the editor or a form is about, or lists it otherwise than the policy in memory has it: there the
overlay of the live hashes (`main.cpp:1755`) and a save do not agree.

### `WebDocument`

The web client's store (`state/document.svelte.ts`) with the window that opens, saves and imports into
it. JavaScript runs one piece of code at a time, from an event or a settled promise to the next
`await`. Such a piece is a step, and what is awaited is a task, settled in any order with the user's
further actions in between.

| Model | Code |
|---|---|
| `base`, `live`, `handle` | `#base`; the edit buffers, `sealed`, `storedManifest`, `#unsaved`; the file handle in `App.svelte` |
| `files`, `tasks`, `waiting` | the files themselves; the promises under way; `pendingImport` |
| `Open`/`OpenDone`, `Drop`/`DropDone`, `Import`/`ConvertDone`/`AcceptImport` | `App.svelte`, before and after each await |
| `Save`/`WriteDone`/`WriteFails`, `SaveAs`/`PickDone`/`PickDownloads`/`PickCancelled` | `save`, `saveAs`, `platform/files.ts` |
| `Encrypt`/`EncryptDone`, `Decrypt`/`DecryptDone`/`DecryptRefused`, `Attach`/`AttachDone` | the store's asynchronous operations |
| `Sign`, `AddManifest`, `AppendAudit`, ... | its synchronous ones (signing awaits nothing the model could interleave with) |

The history says why something may be otherwise: `loose` (the baseline adopted what a panel did, so
the document looks clean although it never left the tab), `late` (a result was applied over changes
made since it was started), `crossed` (over another document), `overlap` (two writes at once),
`reformed` (the schema was edited under a sealed `content.md`, after which decrypt refuses).
What is lost within a document is judged by what the text and the schema say (`Canonical`): a container that is
packed spells them anew. Of the audit checkpoint, `OnlyLateResultsLose` admits that it is replaced by one of the whole log.

### `Tar`, `MicroReader`, `Validation`, `Readers`

One packed document and its three readers. `Tar` is the archive as a sequence of blocks: what
`tar_write` makes of the members, what a cut transfer, `tar -r`, tar's own header records or a bad
block make of that, and what `tar_read` finds; the C++ library keeps the first of two members of one
name (`CppOpen`), `mcdf unpack`, Studio and TypeScript the last (`CppUnpack`, `TsOpen`). `Written` is the archive up to the
k-th of all paths and `TarFrom` what is read from any block on: the same loops, taken part way.

`MicroReader` is the C reader step by step. Its walk of the archive pushes entries from the front of the
caller's arena and names from the back (`IndexMember`, `IndexSkip`, `IndexFull`, ...); members are read
through a cursor and its window (`CursorFill`, `CursorNext`) or at an offset (`ReadAt`). `asked` is what it last
asked the source for, and the source may fail.

`Validation` is the profile ladder three times over, as functions from a container to its issues:
`CppValidate` (`validate.cpp`), `TsValidate` (`validate.ts`), `MicroCore` and `MicroIntegrity` (`micro/src`). A
value has a kind, and a value of the wrong kind is one that does not parse. The C reader's line
scanners see a YAML list only when it is indented under its key (`flush`).

`Readers` composes them: `Pack`, up to `MaxDamage` kinds of damage, and the C reader at any point of its
walk, with the verdict of the other two on the same archive. `VerdictsAgree` excepts what the code does
differently: a `did:key` that does not decode, where C++ finds the code again in the words of the error
(`validate.cpp:121-131`); a signature file that ends in a newline, which TypeScript trims (both `Odd`); a
missing manifest, which C++ reports once more at Signed; a member called like something every
JavaScript object has (`Inherited`: `manifest.ts` asks `path in manifest.files`); lists that are not
indented; and, of the C reader's core, a schema that the policy names as sealed and is plain (`SealedInName`), and a sealed
`content.md` whose schema has no section to attest (`NothingToBind`). `TruncationNoticed` speaks of documents that were signed: an archive cut between two members is a
shorter archive to C++ and TypeScript, and nothing but the manifest and its signatures can tell. The C
reader refuses an archive without a terminator, which the other two accept.

### `Headings`, `Windows`

Which headings of `content.md` bind a section of the schema, by the C reader's scan of single lines
(`mm_anchor_walk`) and by the blocks md4c makes of the same lines (`md_analyze_line`,
`parse_headings`). A line is its indent, at most one quote or list mark, and one of ten bodies; the model follows
both over every document of up to `MaxLines` such lines. `AnchorsAgree` excepts marks of quotes and lists,
raw HTML, a fence with text behind it inside a fence, and an indented line that continues a paragraph;
each is needed, and each is over once both are between two blocks again.

`Windows` adds the C renderer's cut of `content.md` into windows (`mm_window_end`): wherever it may cut, a
document that starts there reads as the rest of the whole one did (`WindowsExact`). Excepted, and each a
difference between the comment at `mcdf_micro_render.h:248` ("never inside one, so a list, block quote or
fenced code block is never split") and the code: a line that is indented into an open list item
(`- a`, blank, `  b`, blank, `c` is cut inside the item), a window that shows the number of an
ordered item without its dot, and fences that only one of the two sees. Both modules were compared with the
compiled code on random documents of the same lines.

### `RenderWalk`, `HeadingIds`, `TextBlocks`

The rest of what is made of `content.md`, by blocks where `Windows` goes by lines.

| Model | Code |
|---|---|
| `RenderWalk`: `page`, `iter`, `told` | the document, `mcdf_micro_render_iter`, and the events a caller has been told |
| `RenderBegin`, `RenderNext`, `ParseStops`, ... | `mcdf_micro_render_begin`, `mcdf_micro_render_next`; the definitions `mm_collect_refs` carries into every window |
| `HeadingIds`: `heads`; `CppHtmlIds`, `TsHtmlIds`, `EventIds`, `ScanIds` | the ids `render.cpp`, `markdown.ts`, `render.c` and `anchors.c` give to the same headings |
| `TextBlocks`: `prose` | `markdown_to_text` over md4c's callbacks and `renderText` over micromark's tokens, block by block |

`WalkTellsTheWhole`: in as many windows as the buffer needs, the walk tells what parsing it whole does. `IdsAreTheirs`: the id of
a heading is the one written in it, in every rendering. `TextBlocksAgree`: both texts have the same blocks. What each
excepts is said at the property and below, under the differences.

### `HtmlNormalize`, `HtmlImport`, `EpubImport`

`HtmlNormalize` writes a page tag by tag, with the end tags that HTML lets an author leave out left out or not, as the author
means it (`meant`) and as `normalize_html` reads it (`soup`), which is the same tree (`SoupIsMeant`). `HtmlImport` extends it with
what the page becomes: `Markdown` is what `xhtml_md.hpp` makes of the tree.
`KeepsText` says that every text of the page comes out once, in its place, in a line of its own paragraph. `EpubImport` adds
chapters and images to a book, and `Book` is what `import_epub` makes of it: the ids of the headings, the sections of the schema
and the names of the assets (`BookIsBound`). The steps that write what is imported are those of `CommandLine`.
`Markdown` is recursive over trees, so no theorem reaches it; the half before it, `HtmlNormalize`, is proved.

### `CommandLine`

The `mcdf` command, one run after another, over everything on the disk that outlives a run. A command is the
list of the changes it still has to make (`cmd.todo`); each change is a step that may succeed, fail,
fail without being noticed, or be cut short by a crash. `encrypt` and `decrypt` are taken apart in `McdfFolder`, `audit
--append` and `--checkpoint` in `AuditLog`.

| Model | Code |
|---|---|
| `disk` | the document folder, `<out>.staging`, the archive, the key file, the rendered page |
| `cmd`, `last` | the command that runs, with the manifest `sign` has read; the exit code of the one that ended |
| `redirect` | `mcdf manifest doc > doc/manifest.json`: the shell truncates the file before the command reads the folder |
| `Create`, `Import`, `CopyAssets`, `Convert`, `CopyImage`, `WriteContent`, `WriteDerived`, `AppendAudit` | `cmd_create`, `create_document`, `import_epub`, `import_html` |
| `WriteArchive`, `RemoveStaging` | `pack_container`, `finish_archive` |
| `Unpack`, `ReadArchive`, `UnpackMember` | `cmd_unpack`, `unpack_archive` |
| `Sign`, `ReadManifest`, `CompareFolder`, `SignManifest` | `cmd_sign` and `sign_container`, which reads the manifest again |
| `Keygen`, `WriteKey`, `Render`, `WritePage` | `cmd_keygen`, `cmd_render` |
| `Reports` | the commands that only report, by their exit codes |
| `EditContent`, `OpenRedirect`, `BuildManifest`, `WriteRedirect` | an editor and the shell, between any two steps |

`SuccessDelivers` is what exit code 0 promises, `FailureKeepsDocument` what another exit code promises, and
`VerifiedWasSigned` what "verify: OK" means through any number of commands. `past` is history that only the properties
read: the disk when the command began, whether a write went wrong unnoticed, and the states of the folder a
signature may have been given to. A folder written by `manifest >` while `sign` is between its two reads is signed
unverified; the property admits what such a manifest says, and nothing else.

### What is left out of all

The bytes of YAML and JSON, inline Markdown, timestamps as such, error texts; recipients (a key that is
not a recipient's returns before anything is written); a write that fails for lack of space without
being reported, because the code does not flush the stream before it says so
(`directory_container.cpp:76`).

## The runs

| Run | Result | What it shows |
|---|---|---|
| `audit` | passes | `CheckpointCommits`, `SerialAppendsVerify`, `BrokenStaysBroken`, `InnerChangeBreaks` |
| `folder` | passes | `Recoverable`, `RoundTrip`, `IntegrityWithoutKey`, `AttestationTruthful`, `UndisturbedDecryptSucceeds` |
| `folder_twice` | violates `NeverSealedTwice` | an encryption that failed half way lets the next one seal ciphertext |
| `folder_stuck` | violates `FailedDecryptStaysSealed` | a refused attestation leaves plaintext that is listed as sealed |
| `studio_jobs` | passes | `OneOwner`, `QuitEnds`, and the refinement `KeepsExpectations` |
| `studio_target` | violates `TargetIsThere` | the document a dialog acts on is reaped under it |
| `folder_stale` | violates `SealedNeverOverwritten` | Studio overwrites what was sealed since it loaded |
| `studio_document` | passes | `ViewsAreCurrent`, `CleanIsSaved`, `VerdictIsRight`, `WatchedTextIsCurrent`, `EditsSurvive`, `ArchiveKeepsAll` |
| `web_document` | passes | `CleanIsWritten`, `HandleIsThisDocument`, `VerdictIsOfTheSave`, `StaysOpenable`, `DiscardsAsked`, `OnlyLateResultsLose` |
| `readers` | passes | `ArenaLayout`, `ArenaSuffices`, `ReadsInside`, `SameMembers`, `TruncationNoticed`, `VerdictsAgree` |
| `commands` | passes | `SuccessDelivers`, `FailureKeepsDocument`, `VerifiedWasSigned` |
| `formats` | passes | `AnchorsAgree`, `WindowsExact`, `WalkTellsTheWhole`, `IdsAreTheirs`, `TextBlocksAgree`, `KeepsText`, `BookIsBound` |

Every violation is a finding in `PROJECT.json`, with the sentence of the repository it contradicts.
They shape what the passing properties can say: `SerialAppendsVerify` needs that appends did not
overlap; `InnerChangeBreaks` needs that the last entry is unchanged; `Recoverable` excepts the keys
of encryptions that were cut short (`orphaned`) and overlapping encryptions (`raced`); `RoundTrip`
and its companions speak of one command at a time on an otherwise untouched folder (`~disturbed`),
while the same runs explore the disturbed ones for `Recoverable`.

Bounds. `audit`: two processes, two events, three lines, one damage. Two processes are enough for
any overlap of a read and a write; three lines have a first, an inner and a last entry; any number
of damages, of which one may try to hide another, is what the proofs below cover.
`folder`: two commands, two encryptions, one crash, one save, two texts. Two keys tell a layer under
the right key from one under the wrong one; a third command or key only repeats a role. The two
starting folders of `MCInit` are a document with schema and manifest whose asset is missing, and
a bare `content.md` with an asset; the request lists cover a missing member, a sealed schema and
a member named twice. Processes (and events) are interchangeable, so symmetry is used.
`studio_jobs`: two documents and two jobs, 195 000 states. Two documents are enough for one to be
reaped while the other is worked on or takes the focus; two jobs for one to wait, run or be finished
while the other is; the proofs below lift both bounds.

`studio_document`: four steps of which three in the editor and the forms, an undo stack of two, one
step of form history, one fault of four kinds, 1.49 million states; one document per layout of panels. Two entries are
enough for an index to be typed over and to come to stand for another text; a text in two spellings
(`a`, `aRaw`) tells what was written from what is meant. Four steps are an edit, an operation, an edit or an
undo, and a second operation. The failed copy of `save_as` (`"copy"` in `Faults`) is left out of the
instance: it breaks `ArchiveKeepsAll` at once, which the hazard at `studio_core.cpp:576` says.
`web_document`: two tasks at once, two inputs, five steps, one of the two files also dropped on the window, 1.5 million states. Two tasks are enough for
results to come out of order and for a write to overtake another; the files' documents differ, so a handle
on the wrong one is seen.
`readers`: 19 documents, one of them empty, any two kinds of damage at any place, four arenas of which one is
of exactly the published size, 225 000 states; a block of three bytes and a window of two, so that contents take
less than, exactly and more than one of each. The arena's constants keep the relations the build asserts
(`MicroConstants`).

`formats`: seven modules that have only the document in common, followed one at a time, 955 000 states. `Headings` and `Windows`: up to
four lines over three indents (none, an item's, code's); six lines were looked at apart and give no difference that is not
excepted. `RenderWalk`: three blocks, six lengths of buffer from one that holds no block to one that holds all. `HeadingIds`: three
headings of three pieces. `TextBlocks`: five blocks two deep around three texts, enough for a text before, in and behind a nested
block. `HtmlNormalize` and `HtmlImport`: five vocabularies of up to seven elements, so that an omitted end tag meets every kind of next tag. `EpubImport`:
four chapters and images, whose names collide with each other and with the numbers given to others.

`commands`: two commands that change something, any number that report, two troubles (a failing write, a crash, an
edit, a manifest rebuilt by the shell), 694 000 states, from four disks: an empty one, one with a file where the folder
should be, a document with a key, and a signed document with an asset. Two commands are enough for one to leave what
the next one finds; an archive that does not verify or was cut takes one trouble, and a manifest that changes under
`sign` takes two.

`audit`, `folder`, `studio_document`, `web_document`, `readers`, `commands` and `formats` check invariants and action properties only, without fairness, and with
`CHECK_DEADLOCK FALSE`: the bounds, a folder nobody uses and a document nobody edits let those systems stop. `StudioJobs` must
not stop: deadlock is checked, with stuttering allowed only after the end (`Ended`), and its two
liveness properties assume weak fairness of `Frame` and of `Worker`. Frames follow each other whatever
the user does, since `glfwWaitEventsTimeout` is bounded and nothing in a frame waits for the worker;
`Join` does wait, and only it. The worker is scheduled by the system, and the library's operations
return. Nothing is assumed of the user: a quit has to end even if nothing else is ever clicked.

Differences between the code and what is written about it that no run of its own shows, each an exception
a passing property has to make:

- A line scan and md4c do not bind the same headings. `conformance/GUIDE.md:50` says that finding
  top-level headings is a line scan, and `micro/README.md:83` that the scanner "does not look inside block
  quotes or list items"; the continuation of an item, as in `- a`, blank, `  # H {#x}`, is bound by the C
  reader and by nobody else (`AnchorsAgree`).
- A windowed render is not "exact, not an approximation" (`mcdf_micro_render.h:48`): see `WindowsExact`. Nor is it in what it
  carries: a line that looks like a definition and is none (`[Note]: see below`) is put in front of every window and told again in
  each (`render.c:604-608` says that it "contributes no events either"), and a definition in a quote, or one longer than the line
  buffer, is not carried, so that links to it are none. Of an empty `content.md` the walk tells nothing, not even the document;
  and `*done` is set after the last window that told something (`render.c:744`), not only when nothing was.
- A heading inside a raw HTML block is one more in the page and none in the list of ids, so every id behind it is on the wrong
  heading, which the comment at `render.cpp:219` means to rule out (`IdsAreTheirs`).
- An HTML page loses what follows a script that ends in `</SCRIPT>`; a heading equal to the title is taken out wherever it stands,
  although the comment says "a leading heading" (`KeepsText`). A chapter of a book that cannot be read is skipped without a note.
- Of two members of one name C++ verifies the first, and unpacks and edits the last (`SameMembers`).
- `E_ASSET_PATH_ESCAPE` is raised by TypeScript when it opens an archive and by `mcdf unpack`; `mcdf verify` and the C reader
  say nothing of such a path (`CppOpen`, `CppUnpack`, `TsOpen`).
- Studio calls a signature green although an image was inserted since, and a document saved when its undo
  index came to stand for another text (`VerdictIsRight`, `CleanIsSaved`).
- `conformance/GUIDE.md:219` says that truncation breaks the audit chain, but nothing follows the last entry to vouch
  for it: a log that is cut at its end, or whose last entry is rewritten, verifies (`audit_ops.cpp:61`), and only a checkpoint
  tells. `InnerChangeBreaks` therefore needs an unchanged last entry.
- `create_ops.hpp:18` says that a document is never overwritten; that holds of `create_document`, but `mcdf create --assets`
  has copied the assets over the document's own before it gets there and refuses (`FailureKeepsDocument`). `create` and
  `finish_archive` leave their staging folder behind when they fail.
- The web client's document looks clean after Attach, Sign or an audit entry (`CleanIsWritten`), and an
  encryption that ends late resets what was typed meanwhile (`OnlyLateResultsLose`).

Each property has a mutant in its module, a small change of the code such as verifying only the
last link or rebuilding the manifest before the policy is written, under which the property fails.

## The proofs

Eight modules (`..._proofs`) hold theorems for every value of the constants. Each strengthened invariant was first checked by TLC.

- `AuditLog_proofs!TypeCorrect`, `McdfFolder_proofs!TypeCorrect`: `Spec => []TypeOK`.
- `AuditLog_proofs!CheckpointCommitsCorrect`: `Spec => []CheckpointCommits`. The property is not
  inductive: it says nothing of a checkpoint that is being made. `SignedHistory` adds that if the
  chain verified when the head was read, then the head recorded (or about to be signed) spells
  exactly the events the log held. No step touches that relation, because only `WriteCheckpoint`
  sets a signature. From a signature that is intact, a valid checkpoint gives a `k` such that the
  chain verifies through entry `k` and that entry's digest is the head; `ChainSpells`, by the least
  counterexample (`LeastNat`) rather than by induction, says that an intact chain's digest at `k` is
  the sequence of its first `k` events. So the first `k` events of the log are the signer's.
- `AuditLog_proofs!InnerChangeCaught`: `Spec => InnerChangeBreaks`. Two logs that verify and end in
  the same entry have the same digest of the last entry, hence the same events and the same
  predecessors (`LastEntryDecides`): they are equal.

- `AuditLog_proofs!BrokenStaysBrokenCorrect`: `Spec => BrokenStaysBroken`. A program's step changes the
  log only behind its last newline. A break before that place outlives the step (`PrefixKept`); a
  break at an unterminated last entry either stays, or the line it is glued into makes the log
  unreadable; and a hash cut short links nothing (`CutLinksNothing`, where `CutIsNoEvent` is used).
- `AuditLog_proofs!SerialAppendsVerifyCorrect`: `Spec => []SerialAppendsVerify`. Not inductive: a
  pending append might hold a head that is no longer the last. `Serial` adds that without overlap
  and damage there is at most one append under way, that every line is terminated, and that the head
  it holds is still `CurrentHead`.

- `McdfFolder_proofs!RecoverableCorrect`: `Spec => []Recoverable`. The property says nothing of how many layers a member has
  under one key, so it is lost when a decryption takes one off. `KeysInv` counts: as long as encryptions do not overlap
  (`Alone`), the list that carries a key, of the policy on disk or of a command under way, names a member at least as often
  (`Times`) as the member has layers under that key (`Depth`), less what a decryption has done. A decryption that has been through its list
  has therefore left no layer, and may remove the policy. A key is newer than every layer there is when it is made (`Drawn`), and a
  decryption whose policy is gone has nothing left to open (`Retired`).
- `RoundTripCorrect`, `IntegrityCorrect`, `AttestationCorrect`, `DecryptSucceeds`: from one invariant, `CalmInv`, about a folder nothing
  else has touched. It is always what the encryption found, plus so many layers of one key on each member, and it is in one
  of four phases: at rest and plain, being sealed, at rest and sealed, being opened; how many layers follows from the phase and from how
  far the command has got. Checked by TLC on 1.86 million states of a variant with a member listed twice.
- `StudioJobs_proofs!TypeCorrect`, `OneOwnerCorrect`, `ActiveIsThereCorrect`: one inductive invariant,
  `Inv`. `OneOwner` is restated of the three places of a job (`Owners`, by `OneOwnerIsOwners`), so that
  each step moves one document between sets. `HandsInv` says the worker holds a job exactly while it
  works, without which taking a job could drop one; `QuitInv` orders the shutdown, so that when the
  documents are closed nothing is queued, in hand or finished; `RefsInv` keeps what the user can act
  on among the documents that are there. The four parts of a frame that take input do one of three
  things to all this (`InputEffect`): choose, add a document, or submit a job.
- `StudioJobs_proofs!KeepsSteps`: the safety half of `KeepsExpectations`, `Expected!Init` and
  `[][Expected!Next]`, by which each step moves one document one stage or none (`StepRefines`).

- `Readers_proofs!MicroTypes`, `MicroArena`, `MicroSuffices`, `MicroReads`: `MicroSpec => []MicroTypeOK`, `[]ArenaLayout`,
  `[]ArenaSuffices` and `[]ReadsInside`, for any archive, any block, window and entry size, and any arena. One invariant,
  `MicroInv`. A step leaves no index, an empty one, the one there was, or one with a member more
  (`IndexMoves`), and only `mm_push` has arithmetic to it (`MemberAdded`). `ArenaSuffices` speaks of an arena that did not suffice; `ArenaUsed` says
  of one in use that what is taken of it is within the published cost of the blocks seen so far (`CostTo`). That such sums
  exist and never fall is shown by the least place where they would not (`SumsExist`, `CostGrows`). `ReadsInside` needs that the
  index lies inside the archive (`EntriesInside`, the check of `h.size`), that a call in progress has an
  open reader and an entry that is there (`CursorHome`), and that the bytes in its window are the last
  ones asked for (`CursorWindow`). `WholeCovers` turns "the block is inside the bytes" into "the block is
  in the sequence". In `Readers` the archive changes only while the reader is closed (`AtRest`), so that the same holds through
  any damage between two openings (`ReadersTypes`, `ReaderAlwaysSafe`).
- `Readers_proofs!VerdictsAlwaysAgree`: `Spec => []VerdictsAgree`. The profiles are compared check by check for any container
  whose members are of their kinds (`CoreSame`, `IntegritySame`, `SignedSame`, `EncryptedSame`, `RenderSame`, and `MicroIntegritySame`
  for the C reader), and `LevelsAre` puts them together; what tar makes of any archive is such a container (`ReadsTyped`).
  The recursion of `tar_read` is a function from the block it stands before; that it exists, and what type it has, is shown
  backwards from the end of the bytes (`TarReads`, `TarTypes`).
- `Readers_proofs!MembersAlwaysSame`: `Spec => []SameMembers`. The C reader walks forward and `tar_read` is given by what it
  reads from a block on, so the invariant `ReadersInv` relates them at every step: what `tar_read` finds is what the index shows so far,
  followed by what it finds from the reader's next block on (`Agrees`, `WalkStep`). An archive that was never cut has its terminator, and no
  header in it claims more than is there (`Complete`, `Uncut`): so a walk of it ends in `E_PARSE` only where `tar_read` refuses as
  well. Two members of one name come from `tar -r`, because a packed document names each once (`NamesKept`, `Placed`). Each way
  an archive changes keeps `Complete` (`CompletePack`, `CompleteAdded`, `CompleteForeword`, `CompleteRotten`).
- `Readers_proofs!TruncationAlwaysNoticed`: `Spec => []TruncationNoticed`. `Sourced` keeps what a cut archive was cut from. `CutTells`:
  what is read of it is the members up to some path, each as it was packed, and all of them if a zero block was reached, which the C reader
  insists on; shown backwards over the paths, from what is read behind the last member. If the manifest is among what is left and
  verifies, everything it lists is there (`CppVouches`, `TsVouches`); what the whole document had besides is excluded from the manifest,
  and of that the audit log and its checkpoint come before it in the order of the paths (`OnlySignatures`).
- `Formats_proofs`: the properties of `formats` but `KeepsText`, for documents of any length. The models read a document line by line, block by
  block or piece by piece, so what is said of any document is an invariant of its reading. `AnchorsAlwaysAgree`
  (`HeadingsInv`): as long as none of the named constructs is open, the C reader and md4c have the same fence open and agree whether the
  lines so far may become an underlined heading with an id (`Alike`). `WindowsAlwaysExact` (`WindowsInv`): the scan that
  cuts knows the fence md4c is in (`Fenced`), and behind a blank line md4c is between two blocks unless in an item, code or a fence; from
  there, a line that may start a window does to md4c what it does at the start of a document. `TextBlocksAlwaysAgree`
  (`ProseInv`): inside a leaf the pending block of the C++ text is the leaf's own text, outside it is only what a tight item said last
  (`CppAlike`). `IdsAreAlwaysTheirs`: the three ways to find an id at the end of a heading are compared for headings of any number
  of pieces (`HeadingAgrees`). `WalkAlwaysTellsTheWhole` (`WalkInv`): before each window, what was told is what the document says up to the
  block the iterator stands before (`WalkStands`), for which the folds over blocks have to be taken apart at any block. `BookAlwaysBound`:
  `BookIsBound` looks at the whole book, so the invariant is only about the types of the spine (`SpineInv`), and the book is taken
  apart by its chapters (`BookSteps`) and a chapter by its images (`RegisterSteps`). No image is there twice and no name of one, and an image
  keeps its name while others are added (`GoodImages`, `StillRegistered`); a numbered name is free because more of them are tried than
  names are taken (`OneIsFree`). `SoupAlwaysMeant` is the half of `KeepsText` before the Markdown: for pages of any size and depth, what
  `normalize_html` has open is, with what was left without an end left, what the author means (`SoupInv`, `Means`). What may stand in
  what falls from the outside inwards (`Rank`, `RanksFall`), so what may follow an element whose end was left out ends exactly
  the elements left so (`EndedIs`), and an end tag finds its own element (`MatchIs`). That several elements may be left one after another, in
  one go or in two (`LeavesMore`, `LeavesSum`), is shown of the fold itself (`LeavingExists`): a stack of trees is in no set to fold over.
  `SoupIsMeant` was checked by TLC on the states of the run before it was proved; the run checks `KeepsText`, which rests on it.

- `WebDocument_proofs`: every property of the run `web_document`. One invariant, `Inv`, about each task under way and the store
  (`FitTo`, `TasksFit`, `OutIsBase`): what a write carries out of the tab holds the baseline it was packed from; what a cipher
  works on is the working container unless the store has changed since (`late`) or the document has (`crossed`); whoever opens over
  changes was asked, or the changes came later; the handle's file is of the document shown unless a switch was crossed. None of the
  properties is inductive without it, because each speaks of the store and is broken, or kept, when a task ends.
  `VerdictCorrect` needs that what a form was filled with and what it shows are the same (`FormShown`).
- `StudioDocument_proofs`: every property of the run `studio_document`. The invariant `Fits` relates the working copy, the archive,
  the engine's memory, the window and the history: the engine's manifest and policy are the disk's, and what is fresh is not stale
  (`InStep`); what was taken at an undo index is the text of that entry (`Tracked`); what the document is kept in says the text of
  the last save, and the working copy what the forms say (`TextKept`, `FormsKept`); the hashes in memory are those of the disk with
  the text of their index and the forms over it (`HashesFit`); and only a fault or an inserted image comes between the working copy and
  its manifest (`Upheld`). `CleanIsSaved` and `VerdictIsRight` speak of the text and the forms of now; they follow from what
  holds at the index of then. Every operation ends in one of two ways, a reload that leaves the window alone or a load that
  re-seeds it (`ReloadFits`, `LoadFits`), so the conjuncts are proved for these two and each operation is led back to them.
  `VerdictCorrect` is proved for documents that are what their manifest lists when they are opened (`Intact`): of a document that came with a
  manifest of something else, BROKEN is said without an edit. `ArchiveCorrect` is for faults other than the failed copy
  of `save_as`, whose error the code does not look at (`studio_core.cpp:576`).
- `CommandLine_proofs!SuccessAlwaysDelivers`, `FailureAlwaysKeepsDocument`, `VerifiedAlwaysWasSigned`, `TypeCorrect`: every property of the
  run `commands`, whatever is on the disk to begin with, for any number of commands and troubles. The first two speak only of a
  command that has ended, so `Inv` says what the disk holds at each place on the way there. A command is known by what is left
  of it (`Left`), a number that only falls; `Making` gives, for the commands that make a document, the members written by then
  and what the old document still is, as long as nothing has gone wrong (`Undisturbed`); `Taking` says that the others leave the disk as
  they found it until their last step, that `unpack` has written each member it no longer lists, and that the manifest `sign` holds is the
  one in the folder. `SignedInv` is about troubles as well: every signature on the disk is over something a command
  signed, and what `sign` is about to sign was in the folder since it began, or in what `manifest >` wrote there. `VerifiedWasSigned` needs
  it because a signature outlives commands, archives and cuts. A step does one of three things, goes wrong, goes well or ends the
  command with an error (`FaultyKeeps`, `FaultlessKeeps`, `FailsKeeps`), so for each action only what it writes remains to be shown. Checked by TLC
  first, on the 694 000 states of the run.

The assumptions are the modules' own `ASSUME`s: the mark of a cut hash is no event; bounds are
natural numbers, a block and an entry at least one byte; `Sections` and `Anchors` are functions on `Texts` that give the empty text no
sections and no headings; a request is a nonempty list of members; the documents a window may open are well-formed
containers (`DocumentsAssumption`, `WebContainers`), a canonical spelling is its own (`ValuesAssumption`, `WebValues`); what the commands find on
the disk has its type, and the marks for a torn, a missing and an occupied file are no texts, pictures or members
(`WorldsAssumption`, `CommandLineConstants`); every path has its one place in the byte order, in which `audit.log` and
`audit.checkpoint` come before `manifest.json`, and of no bytes there is one content (`OrderConstants`, `ReadersConstants`); what a content
parses to has the fields of its kind (`WellTyped`); a title and the stem of an image's name are sequences (`EpubImportConstants`). Ideal hashes and ciphers are
part of the models.

The type invariants of `AuditLog`, `McdfFolder`, `StudioJobs`, `StudioDocument`, `WebDocument`, `CommandLine`, `MicroReader` and `Readers`,
and `ActiveIsThere`, are proved and not among the properties of the runs. Proved is every property of the runs `audit`, `folder`,
`studio_document`, `web_document`, `readers` and `commands`, the safety properties of `studio_jobs`, and those of `formats` but
`KeepsText`. Only model-checked: `QuitEnds` and `DocumentJobs!Served`, which need fairness; and of `KeepsText` the part from the tree to its text, because
`Markdown` recurses over trees and the provers reach no theorem behind a recursive operator. `EventsOf`, the digests, `Written` and `TarFrom` are
functions, over sequences or numbers, so no recursive operator stands between the other models and the provers.

## The plan

Done: `AuditLog`, `McdfFolder`, `StudioJobs`, `StudioDocument`, `WebDocument`, `CommandLine`, `Tar`, `MicroReader`, `Validation`,
`Readers`, `Headings`, `Windows`, `RenderWalk`, `HeadingIds`, `TextBlocks`, `HtmlNormalize` and `EpubImport` with the proofs of their safety properties;
`HtmlImport`, model-checked. What is left: the lists the YAML scanners of the C reader find (`yaml_min.c`).

## Not modelled

- The web keyring (`state/keyring.svelte.ts`): a list read again from IndexedDB after every change. The database
  orders the requests of a tab, so the last answer is the newest list; what could go wrong is outside.
- The web editor's undo history, which is not reset when another document is opened (`CodeMirror.svelte:97`);
  Studio's numbering of working copies in a shared temporary directory (`studio_core.cpp:36`); its title, drawn from a
  path the worker may be assigning (`main.cpp:2444`); the line diff's limit of a million cells
  (`studio_core.cpp:867`).
- A path split over `name` and `prefix`, and base-256 sizes, in a tar header; zip; the metadata of what is imported, and how a
  paragraph of it is marked up.
- Inline Markdown, HTML output, YAML and JSON syntax, base64 and JWS bytes, the primitives of cryptography
  (ideal here). They keep no state and are covered by the repository's conformance corpus and fuzzers.
- Drawing, dialogs' contents, packaging, the build.

## Checking it

    tlc -workers 2 -config MCAuditLog.cfg MCAuditLog
    tlc -workers 2 -config MCMcdfFolder.cfg MCMcdfFolder
    tlc -workers 2 -config MCStudioJobs.cfg MCStudioJobs
    tlc -workers 2 -config MCStudioDocument.cfg MCStudioDocument
    tlc -workers 2 -config MCWebDocument.cfg MCWebDocument
    tlc -workers 2 -config MCReaders.cfg MCReaders
    tlc -workers 2 -config MCCommandLine.cfg MCCommandLine
    tlc -workers 2 -config MCFormats.cfg MCFormats
    tlapm AuditLog_proofs.tla
    tlapm McdfFolder_proofs.tla
    tlapm StudioJobs_proofs.tla
    tlapm Readers_proofs.tla
    tlapm WebDocument_proofs.tla
    tlapm StudioDocument_proofs.tla
    tlapm CommandLine_proofs.tla
    tlapm Formats_proofs.tla

The other configurations run the first three `MC` modules.
