----------------------------- MODULE StudioJobs -----------------------------
(***************************************************************************)
(* The two threads of Studio (src/apps/studio/main.cpp).                   *)
(*                                                                         *)
(* The UI thread runs frames: apply finished jobs, shortcuts, menus, the   *)
(* file dialog, document windows and panels, then reap closed documents.   *)
(* Operations on a document become jobs for the one worker thread, which   *)
(* sleeps on a condition variable.  Quitting waits for the worker to run   *)
(* the queue dry, applies what it left, and closes the documents.          *)
(*                                                                         *)
(* The user does at most one thing in each part of a frame.  The file      *)
(* dialog is modal: menus, windows and panels take no input under it, but  *)
(* shortcuts are read from the keyboard all the same.  A document stands   *)
(* for the pointer to it; documents are numbered as they are opened, so    *)
(* the last of g_documents is the one with the largest number.             *)
(***************************************************************************)
EXTENDS Naturals, Sequences, FiniteSets

CONSTANTS
  MaxDocs,  \* bound: documents opened
  MaxJobs   \* bound: jobs submitted

ASSUME JobsBounds == MaxDocs \in Nat /\ MaxJobs \in Nat

Docs   == 1..MaxDocs
Nobody == 0

VARIABLES
  documents,  \* g_documents
  open,       \* those whose window has not been closed
  titled,     \* those with a path
  loaded,     \* those with content (has_content)
  nextDoc,    \* g_next_doc_id
  active,     \* g_active
  target,     \* g_target_doc
  pending,    \* g_pending: what the file dialog is open for
  busy,       \* documents whose busy flag is set
  jobs,       \* g_jobs
  accepted,   \* jobs submitted so far, for the bound
  worker,     \* where the worker thread is
  running,    \* the job it is working on
  doneJobs,   \* g_done_jobs
  workerQuit, \* g_worker_quit
  quit,       \* g_quit, or the main window was closed
  ui          \* where the UI thread is

docVars    == <<documents, open, titled, loaded, nextDoc>>
focusVars  == <<active, target, pending>>
submitVars == <<busy, jobs, accepted, worker>>
resultVars == <<running, doneJobs, workerQuit>>

vars == <<docVars, focusVars, submitVars, resultVars, quit, ui>>

NoJob == [doc |-> Nobody, kind |-> "none"]
Job   == [doc : Docs, kind : {"save_as", "other"}]

Init ==
  /\ documents = {} /\ open = {} /\ titled = {} /\ loaded = {}
  /\ nextDoc = 1
  /\ active = Nobody /\ target = Nobody /\ pending = "none"
  /\ busy = {} /\ jobs = << >> /\ accepted = 0
  /\ worker = "looking" /\ running = NoJob /\ doneJobs = << >>
  /\ workerQuit = FALSE
  /\ quit = FALSE
  /\ ui = "drain"

-----------------------------------------------------------------------------
(* What a user's request comes down to.                                    *)

Modal == pending # "none"

Nothing == UNCHANGED <<docVars, focusVars, submitVars, quit>>

Woken == IF worker = "asleep" THEN "looking" ELSE worker

\* Mutant: a document may be given a second job.
AnyDocument(d) == TRUE

\* The check at the top of every operation on a document.
NotBusy(d) == d \notin busy

\* submit_job.  The queue is locked while the job is pushed; the worker
\* checks it under the same lock before it sleeps.
Submit(d, kind) ==
  /\ NotBusy(d)
  /\ accepted < MaxJobs
  /\ accepted' = accepted + 1
  /\ busy' = busy \union {d}
  /\ jobs' = Append(jobs, [doc |-> d, kind |-> kind])
  /\ worker' = Woken

NextId == nextDoc + 1

\* new_document, filled from a path or blank.
AddDocument(hasPath, hasContent) ==
  /\ nextDoc <= MaxDocs
  /\ nextDoc' = NextId
  /\ documents' = documents \union {nextDoc}
  /\ open' = open \union {nextDoc}
  /\ titled' = IF hasPath THEN titled \union {nextDoc} ELSE titled
  /\ loaded' = IF hasContent THEN loaded \union {nextDoc} ELSE loaded
  /\ active' = nextDoc
  /\ UNCHANGED <<submitVars, quit>>

NewDocument == AddDocument(FALSE, TRUE) /\ UNCHANGED <<target, pending>>

\* Open and Import: the target of an earlier dialog is left as it is.
AskForDocument ==
  /\ pending' = "open"
  /\ UNCHANGED <<docVars, active, target, submitVars, quit>>

\* open_save_as_dialog, open_insert_image_dialog, open_export_render_dialog.
AskFor(what, d) ==
  /\ d \in loaded
  /\ active' = d /\ target' = d /\ pending' = what
  /\ UNCHANGED <<docVars, submitVars, quit>>

Operate(d, kind) == Submit(d, kind) /\ UNCHANGED <<docVars, focusVars, quit>>

\* save: an untitled document is asked a path first.
Save(d) ==
  /\ NotBusy(d)
  /\ \/ d \in titled /\ Operate(d, "other")
     \/ d \notin titled /\ AskFor("save_as", d)

Quit == quit' = TRUE /\ UNCHANGED <<docVars, focusVars, submitVars>>

-----------------------------------------------------------------------------
(* A frame.                                                                *)

Phase(from, to) == ui = from /\ ui' = to

\* drain_done_jobs: one finished job.
ApplyDone ==
  /\ ui \in {"drain", "last_drain"}
  /\ doneJobs # << >>
  /\ doneJobs' = Tail(doneJobs)
  /\ busy' = busy \ {Head(doneJobs).doc}
  /\ UNCHANGED <<docVars, focusVars, jobs, accepted, worker, running, workerQuit, quit, ui>>

Drained ==
  /\ doneJobs = << >>
  /\ Phase("drain", "keys") \/ Phase("last_drain", "close")
  /\ Nothing
  /\ UNCHANGED resultVars

\* handle_shortcuts.
Keys ==
  /\ Phase("keys", "menus")
  /\ UNCHANGED resultVars
  /\ \/ Nothing
     \/ active \in loaded /\ Save(active)
     \/ active \in loaded /\ AskFor("save_as", active)
     \/ NewDocument
     \/ AskForDocument
     \/ Quit

\* draw_menu_bar.
Menus ==
  /\ Phase("menus", "dialog")
  /\ UNCHANGED resultVars
  /\ \/ Nothing
     \/ /\ ~Modal
        /\ \/ NewDocument
           \/ AskForDocument
           \/ \E hasContent \in BOOLEAN :
                AddDocument(TRUE, hasContent) /\ UNCHANGED <<target, pending>>
           \/ active \in loaded \ busy /\ Save(active)
           \/ active \in loaded \ busy /\ AskFor("save_as", active)
           \/ active \in loaded /\ AskFor("insert_image", active)
           \/ Quit

DialogAnswered == pending' = "none" /\ target' = Nobody

\* Picked, for a document: save_as and export_render submit a job unless the
\* document is busy; insert_image works on this thread.
PickedFor(d) ==
  IF pending = "insert_image" \/ ~NotBusy(d)
  THEN UNCHANGED submitVars
  ELSE Submit(d, IF pending = "save_as" THEN "save_as" ELSE "other")

Dialog ==
  /\ Phase("dialog", "windows")
  /\ UNCHANGED resultVars
  /\ \/ Nothing
     \/ Modal /\ DialogAnswered /\ UNCHANGED <<docVars, active, submitVars, quit>>
     \/ /\ pending = "open"
        /\ DialogAnswered
        /\ \E hasPath, hasContent \in BOOLEAN : AddDocument(hasPath, hasContent)
     \/ /\ pending \in {"save_as", "insert_image", "export"}
        /\ target \in documents
        /\ DialogAnswered
        /\ PickedFor(target)
        /\ UNCHANGED <<docVars, active, quit>>

\* The document was reaped while the dialog was open: its pointer dangles, and
\* the model follows the program no further.
DanglingPick ==
  /\ Phase("dialog", "undefined")
  /\ pending \in {"save_as", "insert_image", "export"}
  /\ target \notin documents
  /\ Nothing
  /\ UNCHANGED resultVars

\* The operations of the panels, for the document panel_target gives them.
Panel(d) ==
  /\ d \in loaded \ busy
  /\ \/ Operate(d, "other")
     \/ Save(d)
     \/ \E what \in {"save_as", "export"} : AskFor(what, d)

\* draw_document_window for each document, then the panels.  A closed document
\* is drawn as busy until the one frame that reaps it, and a click takes two.
Windows ==
  /\ Phase("windows", "reap")
  /\ UNCHANGED resultVars
  /\ \/ Nothing
     \/ /\ ~Modal
        /\ \/ \E d \in documents :
                active' = d /\ UNCHANGED <<docVars, target, pending, submitVars, quit>>
           \/ \E d \in open :
                /\ open' = open \ {d}
                /\ UNCHANGED <<documents, titled, loaded, nextDoc, focusVars, submitVars, quit>>
           \/ \E d \in open \ busy : AskFor("insert_image", d)
           \/ active \in open /\ Panel(active)

\* Mutant: a document is reaped with a job still to come.
ReapEvenBusy == documents \ open

\* "never reap under a worker job"
Reapable == (documents \ open) \ busy

Back(ds) == CHOOSE d \in ds : \A e \in ds : e <= d

FocusAfter(left) ==
  CASE active \in left -> active
    [] left # {}       -> Back(left)
    [] OTHER           -> Nobody

Reap ==
  /\ Phase("reap", IF quit THEN "shutdown" ELSE "drain")
  /\ documents' = documents \ Reapable
  /\ titled' = titled \ Reapable
  /\ loaded' = loaded \ Reapable
  /\ active' = FocusAfter(documents')
  /\ UNCHANGED <<open, nextDoc, target, pending, submitVars, resultVars, quit>>

-----------------------------------------------------------------------------
(* After the last frame.                                                   *)

\* Mutant: the worker is not notified.
ShutdownUnnotified ==
  /\ Phase("shutdown", "join")
  /\ workerQuit' = TRUE
  /\ UNCHANGED <<docVars, focusVars, submitVars, running, doneJobs, quit>>

Shutdown ==
  /\ Phase("shutdown", "join")
  /\ workerQuit' = TRUE
  /\ worker' = Woken
  /\ UNCHANGED <<docVars, focusVars, busy, jobs, accepted, running, doneJobs, quit>>

Join ==
  /\ Phase("join", "last_drain")
  /\ worker = "stopped"
  /\ Nothing
  /\ UNCHANGED resultVars

CloseAll ==
  /\ Phase("close", "exited")
  /\ documents' = {}
  /\ UNCHANGED <<open, titled, loaded, nextDoc, focusVars, submitVars, resultVars, quit>>

-----------------------------------------------------------------------------
(* worker_main.                                                            *)

\* The worker's look at the queue, under its lock.
Look ==
  /\ worker = "looking"
  /\ \/ /\ jobs # << >>
        /\ worker' = "working" /\ running' = Head(jobs) /\ jobs' = Tail(jobs)
     \/ /\ jobs = << >>
        /\ worker' = IF workerQuit THEN "stopped" ELSE "asleep"
        /\ UNCHANGED <<running, jobs>>
  /\ UNCHANGED <<docVars, doneJobs>>

\* The job is done: a Save As that succeeded has repointed the document.
Finish ==
  /\ worker = "working"
  /\ worker' = "looking"
  /\ doneJobs' = Append(doneJobs, running)
  /\ running' = NoJob
  /\ \/ UNCHANGED titled
     \/ running.kind = "save_as" /\ titled' = titled \union {running.doc}
  /\ UNCHANGED <<documents, open, loaded, nextDoc, jobs>>

Worker ==
  /\ ui # "undefined"
  /\ Look \/ Finish
  /\ UNCHANGED <<focusVars, busy, accepted, workerQuit, quit, ui>>

Frame ==
  \/ ApplyDone \/ Drained \/ Keys \/ Menus \/ Dialog \/ DanglingPick \/ Windows \/ Reap
  \/ Shutdown \/ Join \/ CloseAll

Ended == ui \in {"exited", "undefined"}

Next == Frame \/ Worker \/ (Ended /\ UNCHANGED vars)

\* Frames follow one another whatever the user does, and operations of the
\* library return.
Fairness == WF_vars(Frame) /\ WF_vars(Worker)

Spec == Init /\ [][Next]_vars /\ Fairness

-----------------------------------------------------------------------------
Opened == 1..(nextDoc - 1)

\* Every variable is of its kind, and documents are among those opened so far.
TypeOK ==
  /\ nextDoc \in 1..(MaxDocs + 1)
  /\ documents \subseteq Opened /\ open \subseteq Opened
  /\ titled \subseteq Opened /\ loaded \subseteq Opened
  /\ active \in Docs \union {Nobody} /\ target \in Docs \union {Nobody}
  /\ pending \in {"none", "open", "save_as", "insert_image", "export"}
  /\ busy \subseteq Docs
  /\ jobs \in Seq(Job) /\ doneJobs \in Seq(Job)
  /\ accepted \in 0..MaxJobs
  /\ worker \in {"looking", "asleep", "working", "stopped"}
  /\ running \in Job \union {NoJob}
  /\ workerQuit \in BOOLEAN /\ quit \in BOOLEAN
  /\ ui \in {"drain", "keys", "menus", "dialog", "windows", "reap", "undefined",
             "shutdown", "join", "last_drain", "close", "exited"}

InHand == IF running = NoJob THEN << >> ELSE <<running>>

\* Jobs accepted and not yet applied, in any of their three places.
Owed == (doneJobs \o InHand) \o jobs

DocsOf(js) == {js[i].doc : i \in 1..Len(js)}

\* "One job owns a document at a time", and busy says whether one does; a job
\* never outlives its document.
OneOwner ==
  /\ \A i, j \in 1..Len(Owed) : i # j => Owed[i].doc # Owed[j].doc
  /\ busy = DocsOf(Owed)
  /\ busy \subseteq documents

\* The document the menus and panels act on is always one that is there.
ActiveIsThere == ui # "exited" => active \in documents \union {Nobody}

\* Quitting ends the program: the worker is never left asleep with the UI
\* thread waiting for it, whatever is queued, working or finished by then.
QuitEnds == quit ~> Ended

\* How far a document is, for what it may expect.
StageOf(d) ==
  CASE d \in documents /\ d \in DocsOf(doneJobs)                -> "worked"
    [] d \in documents /\ d \in DocsOf(Owed) \ DocsOf(doneJobs) -> "accepted"
    [] d \in documents /\ d \notin DocsOf(Owed)                 -> "idle"
    [] d \in Opened \ documents                                 -> "gone"
    [] OTHER                                                    -> "unopened"

Expected == INSTANCE DocumentJobs
  WITH stage <- [d \in Docs |-> StageOf(d)], defined <- ui # "undefined"

\* The two threads together keep what a document may expect of them: no second
\* operation before the first is applied, none lost or applied twice, also by
\* quitting, and no document discarded under one.
KeepsExpectations == Expected!Spec

\* main.cpp calls g_target_doc the "document a Save As / Insert dialog acts on":
\* there is one for as long as the dialog is open.
TargetIsThere ==
  pending \in {"save_as", "insert_image", "export"} /\ ui # "exited" => target \in documents
=============================================================================
