-------------------------- MODULE StudioJobs_proofs --------------------------
(***************************************************************************)
(* What Studio's two threads guarantee for any number of documents and     *)
(* jobs.                                                                   *)
(***************************************************************************)
EXTENDS StudioJobs, SequenceTheorems, NaturalsInduction, WellFoundedInduction, TLAPS

-----------------------------------------------------------------------------
(* Data.                                                                   *)

LEMMA NoJobIsNone == NoJob \notin Job /\ \A j \in Job : j.doc \in Docs
BY DEF NoJob, Job, Docs, Nobody

\* Adding a job at the end of a queue adds its document.
LEMMA AppendDocs ==
  ASSUME NEW js \in Seq(Job), NEW j \in Job
  PROVE  /\ Append(js, j) \in Seq(Job)
         /\ DocsOf(Append(js, j)) = DocsOf(js) \union {j.doc}
<1>1. /\ Append(js, j) \in Seq(Job)
      /\ Len(Append(js, j)) = Len(js) + 1 /\ Len(js) \in Nat
      /\ \A i \in 1..Len(js) : Append(js, j)[i] = js[i]
      /\ Append(js, j)[Len(js) + 1] = j
  BY AppendProperties, LenProperties
<1> QED BY <1>1 DEF DocsOf

\* No document is named twice.
Single(js) == \A i, k \in 1..Len(js) : i # k => js[i].doc # js[k].doc

LEMMA AppendSingle ==
  ASSUME NEW js \in Seq(Job), NEW j \in Job, Single(js), j.doc \notin DocsOf(js)
  PROVE  Single(Append(js, j))
<1>1. /\ Len(Append(js, j)) = Len(js) + 1 /\ Len(js) \in Nat
      /\ \A i \in 1..Len(js) : Append(js, j)[i] = js[i]
      /\ Append(js, j)[Len(js) + 1] = j
  BY AppendProperties, LenProperties
<1>2. \A i \in 1..Len(js) : js[i].doc # j.doc
  BY DEF DocsOf
<1> QED BY <1>1, <1>2 DEF Single

\* Taking the first job of a queue without repetitions takes its document.
LEMMA TailDocs ==
  ASSUME NEW js \in Seq(Job), js # << >>
  PROVE  /\ Head(js) \in Job /\ Tail(js) \in Seq(Job)
         /\ DocsOf(js) = {Head(js).doc} \union DocsOf(Tail(js))
         /\ Single(js) => Single(Tail(js)) /\ Head(js).doc \notin DocsOf(Tail(js))
<1>1. /\ Head(js) \in Job /\ Tail(js) \in Seq(Job)
      /\ Len(js) \in Nat \ {0} /\ Len(Tail(js)) = Len(js) - 1
      /\ \A i \in 1..Len(Tail(js)) : Tail(js)[i] = js[i + 1]
      /\ Head(js) = js[1]
  BY HeadTailProperties, EmptySeq, LenProperties
<1>2. \A i \in 1..Len(js) : i = 1 \/ (i - 1 \in 1..Len(Tail(js)) /\ js[i] = Tail(js)[i - 1])
  BY <1>1
<1>3. DocsOf(js) = {Head(js).doc} \union DocsOf(Tail(js))
  <2>1. DocsOf(js) \subseteq {Head(js).doc} \union DocsOf(Tail(js))
    BY <1>1, <1>2 DEF DocsOf
  <2>2. {Head(js).doc} \union DocsOf(Tail(js)) \subseteq DocsOf(js)
    BY <1>1 DEF DocsOf
  <2> QED BY <2>1, <2>2
<1>4. ASSUME Single(js)
      PROVE  Single(Tail(js)) /\ Head(js).doc \notin DocsOf(Tail(js))
  BY <1>1, <1>4 DEF Single, DocsOf
<1> QED BY <1>1, <1>3, <1>4

\* A set of document numbers that is not empty has a largest member.
LEMMA BackIsLast ==
  ASSUME NEW N \in Nat, NEW ds \in SUBSET (1..N), ds # {}
  PROVE  Back(ds) \in ds
<1> DEFINE Bounds == {n \in Nat : \A e \in ds : e <= n}
           Below == {pair \in Nat \X Nat : pair[1] < pair[2]}
<1>1. IsWellFoundedOn(Below, Nat)
  BY NatLessThanWellFounded DEF OpToRel
<1>2. N \in Bounds /\ Bounds \subseteq Nat
  OBVIOUS
<1>3. \E n \in Bounds : \A y \in Bounds : ~(<<y, n>> \in Below)
  <2> HIDE DEF Bounds, Below
  <2> QED BY <1>1, <1>2, WFMin, Zenon
<1>4. PICK n \in Bounds : \A y \in Bounds : ~(y < n)
  BY <1>3
<1>5. n \in ds
  <2> SUFFICES ASSUME n \notin ds PROVE FALSE
    OBVIOUS
  <2>1. PICK e \in ds : TRUE
    OBVIOUS
  <2>2. n - 1 \in Nat
    BY <2>1
  <2>3. \A d \in ds : d <= n - 1
    OBVIOUS
  <2>4. n - 1 \in Bounds
    BY <2>2, <2>3
  <2> QED BY <2>4, <1>4
<1>6. \E d \in ds : \A e \in ds : e <= d
  BY <1>5
<1> QED BY <1>6 DEF Back

-----------------------------------------------------------------------------
(* Where the threads are in relation to each other.                        *)

DocDialogs == {"save_as", "insert_image", "export"}

\* The worker has a job in hand exactly while it works.
HandsInv == worker = "working" <=> running # NoJob

\* Until the documents are closed, content belongs to documents that are there;
\* the target of a dialog is a document that was.
RefsInv ==
  /\ ui # "exited" => loaded \subseteq documents
  /\ pending \in DocDialogs => target \in Opened

\* The worker stops once it is told to and the queue is empty; it has stopped
\* when the last results are applied, and all are when the documents close.
QuitInv ==
  /\ workerQuit => ui \in {"join", "last_drain", "close", "exited"}
  /\ worker = "stopped" => workerQuit /\ jobs = << >>
  /\ ui \in {"last_drain", "close", "exited"} => worker = "stopped"
  /\ ui \in {"close", "exited"} => doneJobs = << >>

-----------------------------------------------------------------------------
(* The four parts of a frame that take input do one of three things.       *)

Input == Keys \/ Menus \/ Dialog \/ Windows

InputPhases == {"keys", "menus", "dialog", "windows", "reap"}

\* The documents and their jobs stay as they are, but a window may be closed.
Chosen ==
  /\ UNCHANGED <<documents, titled, loaded, nextDoc, submitVars>>
  /\ open' \subseteq open
  /\ active' \in documents \union {active}

Added == \E hasPath, hasContent \in BOOLEAN : AddDocument(hasPath, hasContent)

Submitted ==
  /\ UNCHANGED <<docVars, active>>
  /\ \E d \in documents, kind \in {"save_as", "other"} : Submit(d, kind)

LEMMA InputEffect ==
  ASSUME TypeOK, RefsInv, ActiveIsThere, Input
  PROVE  /\ ui \in InputPhases \ {"reap"} /\ ui' \in InputPhases
         /\ UNCHANGED resultVars
         /\ Chosen \/ Added \/ Submitted
         /\ target' \in documents \union {target, Nobody}
         /\ pending' \in DocDialogs \union {"none", "open"}
         /\ pending' \in DocDialogs =>
              target' \in documents \/ (pending \in DocDialogs /\ target' = target)
         /\ quit' \in BOOLEAN
<1> DEFINE Goal ==
         /\ Chosen \/ Added \/ Submitted
         /\ target' \in documents \union {target, Nobody}
         /\ pending' \in DocDialogs \union {"none", "open"}
         /\ pending' \in DocDialogs =>
              target' \in documents \/ (pending \in DocDialogs /\ target' = target)
         /\ quit' \in BOOLEAN
<1>1. /\ ui \in InputPhases \ {"reap"} /\ ui' \in InputPhases
      /\ UNCHANGED resultVars
  BY DEF Input, Keys, Menus, Dialog, Windows, Phase, InputPhases
<1>2. ui # "exited" /\ loaded \subseteq documents
  BY <1>1 DEF InputPhases, RefsInv
<1>3. Nothing => Goal
  BY DEF Nothing, Chosen, TypeOK, docVars, focusVars, DocDialogs
<1>4. Quit => Goal
  BY DEF Quit, Chosen, TypeOK, docVars, focusVars, DocDialogs
<1>5. NewDocument => Goal
  BY DEF NewDocument, Added, AddDocument, TypeOK, DocDialogs
<1>6. AskForDocument => Goal
  BY DEF AskForDocument, Chosen, docVars, TypeOK, DocDialogs
<1>7. ASSUME NEW what \in DocDialogs, NEW d, AskFor(what, d)
      PROVE  Goal
  BY <1>2, <1>7 DEF AskFor, Chosen, docVars, TypeOK
<1>8. ASSUME NEW d \in documents, NEW kind \in {"save_as", "other"}, Operate(d, kind)
      PROVE  Goal
  BY <1>8 DEF Operate, Submitted, focusVars, TypeOK, DocDialogs
<1>9. ASSUME NEW d \in documents, Save(d)
      PROVE  Goal
  BY <1>9, <1>7, <1>8 DEF Save, DocDialogs
<1>10. ASSUME NEW hasPath \in BOOLEAN, NEW hasContent \in BOOLEAN,
              AddDocument(hasPath, hasContent),
              UNCHANGED <<target, pending>> \/ DialogAnswered
       PROVE  Goal
  BY <1>10 DEF Added, AddDocument, TypeOK, DocDialogs, DialogAnswered
<1>11. CASE Keys
  BY <1>1, <1>2, <1>3, <1>4, <1>5, <1>6, <1>7, <1>9, <1>11 DEF Keys, DocDialogs
<1>12. CASE Menus
  BY <1>1, <1>2, <1>3, <1>4, <1>5, <1>6, <1>7, <1>9, <1>10, <1>12 DEF Menus, DocDialogs
<1>13. CASE Dialog
  <2>1. CASE Modal /\ DialogAnswered /\ UNCHANGED <<docVars, active, submitVars, quit>>
    BY <1>1, <2>1 DEF DialogAnswered, Chosen, docVars, DocDialogs, TypeOK
  <2>2. CASE /\ target \in documents /\ DialogAnswered /\ PickedFor(target)
             /\ UNCHANGED <<docVars, active, quit>>
    BY <1>1, <2>2 DEF DialogAnswered, PickedFor, Chosen, Submitted, docVars, DocDialogs, TypeOK
  <2> QED BY <1>1, <1>3, <1>10, <1>13, <2>1, <2>2 DEF Dialog
<1>14. CASE Windows
  <2>1. ASSUME NEW d \in documents,
               active' = d /\ UNCHANGED <<docVars, target, pending, submitVars, quit>>
        PROVE  Goal
    BY <2>1 DEF Chosen, docVars, DocDialogs, TypeOK
  <2>2. ASSUME NEW d \in open, open' = open \ {d},
               UNCHANGED <<documents, titled, loaded, nextDoc, focusVars, submitVars, quit>>
        PROVE  Goal
    BY <2>2 DEF Chosen, focusVars, DocDialogs, TypeOK
  <2>3. ASSUME Panel(active)
        PROVE  Goal
    BY <1>2, <2>3, <1>7, <1>8, <1>9 DEF Panel, DocDialogs
  <2> QED BY <1>1, <1>3, <1>7, <1>14, <2>1, <2>2, <2>3 DEF Windows, DocDialogs
<1> QED BY <1>11, <1>12, <1>13, <1>14 DEF Input

-----------------------------------------------------------------------------
(* OneOwner, said of the three places a job can be in.                     *)

\* Queues one after the other name the documents both name.
LEMMA ConcatDocs ==
  ASSUME NEW js \in Seq(Job), NEW ks \in Seq(Job)
  PROVE  /\ js \o ks \in Seq(Job)
         /\ DocsOf(js \o ks) = DocsOf(js) \union DocsOf(ks)
         /\ Single(js \o ks) <=>
              Single(js) /\ Single(ks) /\ DocsOf(js) \intersect DocsOf(ks) = {}
<1> DEFINE n == Len(js)
           m == Len(ks)
           both == js \o ks
<1>1. /\ both \in Seq(Job) /\ n \in Nat /\ m \in Nat /\ Len(both) = n + m
      /\ \A i \in 1..(n + m) : both[i] = IF i <= n THEN js[i] ELSE ks[i - n]
  BY ConcatProperties, LenProperties
<1> HIDE DEF both, n, m
<1>2. /\ \A i \in 1..n : i \in 1..(n + m) /\ both[i] = js[i]
      /\ \A i \in 1..m : i + n \in 1..(n + m) /\ both[i + n] = ks[i]
      /\ \A i \in 1..(n + m) : i \in 1..n \/ (\E k \in 1..m : i = k + n)
  <2>1. \A i \in 1..n : i \in 1..(n + m) /\ i <= n
    BY <1>1
  <2>2. ASSUME NEW i \in 1..m
        PROVE  i + n \in 1..(n + m) /\ ~(i + n <= n) /\ (i + n) - n = i
    BY <1>1
  <2>3. ASSUME NEW i \in 1..(n + m), i \notin 1..n
        PROVE  i - n \in 1..m /\ i = (i - n) + n
    BY <1>1, <2>3
  <2>4. \A i \in 1..n : both[i] = js[i]
    BY <1>1, <2>1
  <2>5. ASSUME NEW i \in 1..m PROVE both[i + n] = ks[i]
    BY <1>1, <2>2
  <2>6. ASSUME NEW i \in 1..(n + m), i \notin 1..n PROVE \E k \in 1..m : i = k + n
    BY <2>3, <2>6
  <2> QED BY <2>1, <2>2, <2>4, <2>5, <2>6
<1>3. DocsOf(both) = DocsOf(js) \union DocsOf(ks)
  <2>1. ASSUME NEW d \in DocsOf(both) PROVE d \in DocsOf(js) \union DocsOf(ks)
    <3>1. PICK i \in 1..(n + m) : d = both[i].doc
      BY <1>1 DEF DocsOf
    <3>2. CASE i \in 1..n
      BY <1>2, <3>1, <3>2 DEF DocsOf, n
    <3>3. CASE \E k \in 1..m : i = k + n
      BY <1>2, <3>1, <3>3 DEF DocsOf, m
    <3> QED BY <1>2, <3>2, <3>3
  <2>2. ASSUME NEW d \in DocsOf(js) PROVE d \in DocsOf(both)
    BY <1>1, <1>2 DEF DocsOf, n
  <2>3. ASSUME NEW d \in DocsOf(ks) PROVE d \in DocsOf(both)
    <3>1. PICK i \in 1..m : d = ks[i].doc
      BY DEF DocsOf, m
    <3> QED BY <1>1, <1>2, <3>1 DEF DocsOf
  <2> QED BY <2>1, <2>2, <2>3
<1>4. ASSUME Single(both)
      PROVE  Single(js) /\ Single(ks) /\ DocsOf(js) \intersect DocsOf(ks) = {}
  <2> USE <1>1, <1>2
  <2>1. Single(js)
    BY <1>4 DEF Single, n
  <2>2. ASSUME NEW i \in 1..m, NEW k \in 1..m, i # k PROVE ks[i].doc # ks[k].doc
    <3>1. i + n # k + n /\ i + n \in 1..(n + m) /\ k + n \in 1..(n + m)
      BY <2>2
    <3>2. both[i + n].doc # both[k + n].doc
      BY <1>4, <3>1 DEF Single
    <3> QED BY <3>2
  <2>3. ASSUME NEW i \in 1..n, NEW k \in 1..m PROVE js[i].doc # ks[k].doc
    <3>1. i # k + n /\ i \in 1..(n + m) /\ k + n \in 1..(n + m)
      OBVIOUS
    <3>2. both[i].doc # both[k + n].doc
      BY <1>4, <3>1 DEF Single
    <3> QED BY <3>2
  <2>4. DocsOf(js) \intersect DocsOf(ks) = {}
    BY <2>3 DEF DocsOf, n, m
  <2>5. Single(ks)
    BY <2>2 DEF Single, m
  <2> QED BY <2>1, <2>4, <2>5
<1>5. ASSUME Single(js), Single(ks), DocsOf(js) \intersect DocsOf(ks) = {}
      PROVE  Single(both)
  <2>1. \A i \in 1..n, k \in 1..m : js[i].doc # ks[k].doc
    BY <1>5 DEF DocsOf, n, m
  <2>2. ASSUME NEW i \in 1..(n + m), NEW k \in 1..(n + m), i # k
        PROVE  both[i].doc # both[k].doc
    <3>1. CASE i \in 1..n /\ k \in 1..n
      BY <1>2, <1>5, <2>2, <3>1 DEF Single, n
    <3>2. CASE i \in 1..n /\ \E l \in 1..m : k = l + n
      <4>1. PICK l \in 1..m : k = l + n
        BY <3>2
      <4>2. both[i] = js[i] /\ both[k] = ks[l]
        BY <1>2, <3>2, <4>1
      <4> QED BY <2>1, <3>2, <4>2
    <3>3. CASE k \in 1..n /\ \E l \in 1..m : i = l + n
      <4>1. PICK l \in 1..m : i = l + n
        BY <3>3
      <4>2. both[k] = js[k] /\ both[i] = ks[l]
        BY <1>2, <3>3, <4>1
      <4> QED BY <2>1, <3>3, <4>2
    <3>4. CASE (\E l \in 1..m : i = l + n) /\ (\E l \in 1..m : k = l + n)
      <4>1. PICK l1 \in 1..m : i = l1 + n
        BY <3>4
      <4>2. PICK l2 \in 1..m : k = l2 + n
        BY <3>4
      <4>3. l1 # l2 /\ both[i] = ks[l1] /\ both[k] = ks[l2]
        BY <1>2, <2>2, <4>1, <4>2
      <4> QED BY <1>5, <4>3 DEF Single, m
    <3> QED BY <1>2, <3>1, <3>2, <3>3, <3>4
  <2> QED BY <1>1, <2>2 DEF Single
<1> QED BY <1>1, <1>3, <1>4, <1>5 DEF both

\* The documents of the job in hand, if there is one.
HandDocs == IF running = NoJob THEN {} ELSE {running.doc}

Disjoint(A, B) == A \intersect B = {}

\* What OneOwner says of finished, running and queued jobs.
Owners ==
  /\ Single(doneJobs) /\ Single(jobs)
  /\ Disjoint(DocsOf(doneJobs), HandDocs)
  /\ Disjoint(DocsOf(doneJobs), DocsOf(jobs))
  /\ Disjoint(HandDocs, DocsOf(jobs))
  /\ busy = (DocsOf(doneJobs) \union HandDocs) \union DocsOf(jobs)
  /\ busy \subseteq documents

LEMMA OneOwnerIsOwners ==
  ASSUME TypeOK
  PROVE  /\ OneOwner <=> Owners
         /\ DocsOf(Owed) = (DocsOf(doneJobs) \union HandDocs) \union DocsOf(jobs)
<1>1. doneJobs \in Seq(Job) /\ jobs \in Seq(Job) /\ running \in Job \union {NoJob}
  BY DEF TypeOK
<1>2. InHand \in Seq(Job) /\ DocsOf(InHand) = HandDocs /\ Single(InHand)
  BY <1>1 DEF InHand, HandDocs, DocsOf, Single
<1>3. /\ doneJobs \o InHand \in Seq(Job)
      /\ DocsOf(doneJobs \o InHand) = DocsOf(doneJobs) \union HandDocs
      /\ Single(doneJobs \o InHand) <=>
           Single(doneJobs) /\ Disjoint(DocsOf(doneJobs), HandDocs)
  BY <1>1, <1>2, ConcatDocs DEF Disjoint
<1>4. /\ DocsOf(Owed) = DocsOf(doneJobs \o InHand) \union DocsOf(jobs)
      /\ Single(Owed) <=>
           /\ Single(doneJobs \o InHand) /\ Single(jobs)
           /\ Disjoint(DocsOf(doneJobs \o InHand), DocsOf(jobs))
  BY <1>1, <1>3, ConcatDocs DEF Owed, Disjoint
<1>5. OneOwner <=> Single(Owed) /\ busy = DocsOf(Owed) /\ busy \subseteq documents
  BY DEF OneOwner, Single
<1> QED BY <1>3, <1>4, <1>5 DEF Owners, Disjoint

-----------------------------------------------------------------------------
(* The invariant.                                                          *)

Inv == TypeOK /\ HandsInv /\ RefsInv /\ QuitInv /\ Owners /\ ActiveIsThere

LEMMA OpenedDocs ==
  ASSUME TypeOK
  PROVE  Opened \subseteq Docs /\ documents \subseteq Docs
<1>1. nextDoc \in Nat /\ nextDoc - 1 <= MaxDocs /\ documents \subseteq Opened
  BY JobsBounds DEF TypeOK
<1> QED BY <1>1, JobsBounds DEF Opened, Docs

LEMMA InitInv == Init => Inv
<1> SUFFICES ASSUME Init PROVE Inv
  OBVIOUS
<1>1. DocsOf(<< >>) = {} /\ Single(<< >>) /\ << >> \in Seq(Job)
  BY DEF DocsOf, Single
<1>2. TypeOK
  <2>1. nextDoc \in 1..(MaxDocs + 1) /\ accepted \in 0..MaxJobs
    BY JobsBounds DEF Init
  <2>2. jobs \in Seq(Job) /\ doneJobs \in Seq(Job) /\ workerQuit \in BOOLEAN /\ quit \in BOOLEAN
    BY <1>1 DEF Init
  <2> QED BY <2>1, <2>2 DEF Init, TypeOK
<1>3. Owners
  BY <1>1 DEF Init, Owners, Disjoint, HandDocs
<1>4. HandsInv /\ RefsInv /\ QuitInv /\ ActiveIsThere
  BY DEF Init, HandsInv, RefsInv, QuitInv, ActiveIsThere, DocDialogs
<1> QED BY <1>2, <1>3, <1>4 DEF Inv

\* A step that moves no job only has to keep the busy documents.
LEMMA SameOwners ==
  ASSUME Owners, UNCHANGED <<busy, jobs, running, doneJobs>>, busy \subseteq documents'
  PROVE  Owners'
<1>1. /\ DocsOf(doneJobs)' = DocsOf(doneJobs) /\ Single(doneJobs)' = Single(doneJobs)
      /\ DocsOf(jobs)' = DocsOf(jobs) /\ Single(jobs)' = Single(jobs)
      /\ HandDocs' = HandDocs
  BY DEF DocsOf, HandDocs, Single
<1> QED BY <1>1 DEF Owners, Disjoint

\* Submitting a job makes its document busy with that one job.
LEMMA SubmitOwners ==
  ASSUME TypeOK, Owners, NEW d \in documents, NEW kind \in {"save_as", "other"},
         Submit(d, kind), UNCHANGED <<documents, running, doneJobs>>
  PROVE  Owners' /\ jobs' \in Seq(Job) /\ busy' \subseteq Docs /\ accepted' \in 0..MaxJobs
<1> DEFINE job == [doc |-> d, kind |-> kind]
<1>1. d \in Docs /\ job \in Job /\ job.doc = d
  <2>1. d \in Docs
    BY JobsBounds DEF TypeOK, Opened, Docs
  <2> QED BY <2>1 DEF Job
<1>2. /\ d \notin busy /\ busy' = busy \union {d}
      /\ jobs' = Append(jobs, job) /\ accepted' \in 0..MaxJobs
  BY JobsBounds DEF Submit, NotBusy, TypeOK
<1>3. jobs \in Seq(Job) /\ d \notin DocsOf(jobs) /\ Single(jobs)
  BY <1>2 DEF TypeOK, Owners
<1> HIDE DEF job
<1>4. jobs' \in Seq(Job) /\ DocsOf(jobs') = DocsOf(jobs) \union {d} /\ Single(jobs')
  BY <1>1, <1>2, <1>3, AppendDocs, AppendSingle
<1>5. DocsOf(doneJobs)' = DocsOf(doneJobs) /\ HandDocs' = HandDocs /\ Single(doneJobs)' = Single(doneJobs)
  BY DEF DocsOf, HandDocs, Single
<1> QED BY <1>1, <1>2, <1>4, <1>5 DEF Owners, Disjoint, TypeOK

\* What the user does.
LEMMA InputInv ==
  ASSUME Inv, Input
  PROVE  Inv'
<1> USE DEF Inv
<1>1. /\ ui \in InputPhases \ {"reap"} /\ ui' \in InputPhases
      /\ UNCHANGED resultVars
      /\ Chosen \/ Added \/ Submitted
      /\ target' \in documents \union {target, Nobody}
      /\ pending' \in DocDialogs \union {"none", "open"}
      /\ pending' \in DocDialogs =>
           target' \in documents \/ (pending \in DocDialogs /\ target' = target)
      /\ quit' \in BOOLEAN
  BY InputEffect
<1>2. ~workerQuit /\ worker # "stopped"
  BY <1>1 DEF QuitInv, InputPhases
<1>3. documents \subseteq documents' /\ Opened \subseteq Opened'
  BY <1>1, JobsBounds DEF Chosen, Added, AddDocument, NextId, Submitted, docVars, TypeOK, Opened
<1>4. RefsInv'
  <2>1. loaded' \subseteq documents'
    BY <1>1 DEF Chosen, Added, AddDocument, Submitted, docVars, RefsInv, InputPhases
  <2>2. pending' \in DocDialogs => target' \in Opened'
    BY <1>1, <1>3 DEF RefsInv, TypeOK
  <2> QED BY <2>1, <2>2 DEF RefsInv
<1>5. QuitInv' /\ HandsInv'
  BY <1>1, <1>2 DEF Chosen, Added, AddDocument, Submitted, Submit, Woken, submitVars,
     resultVars, QuitInv, HandsInv, InputPhases
<1>6. ActiveIsThere'
  BY <1>1 DEF Chosen, Added, AddDocument, Submitted, docVars, ActiveIsThere, InputPhases
<1>7. Owners' /\ jobs' \in Seq(Job) /\ busy' \subseteq Docs /\ accepted' \in 0..MaxJobs
  <2>1. CASE Submitted
    BY <1>1, <2>1, SubmitOwners DEF Submitted, docVars, resultVars
  <2>2. CASE Chosen \/ Added
    <3>1. UNCHANGED <<busy, jobs, accepted, running, doneJobs>> /\ documents \subseteq documents'
      BY <1>1, <1>3, <2>2 DEF Chosen, Added, AddDocument, submitVars, resultVars
    <3>2. Owners'
      BY <3>1, SameOwners DEF Owners
    <3> QED BY <3>1, <3>2 DEF TypeOK
  <2> QED BY <1>1, <2>1, <2>2
<1>8. TypeOK'
  <2>1. /\ nextDoc' \in 1..(MaxDocs + 1)
        /\ documents' \subseteq Opened' /\ open' \subseteq Opened'
        /\ titled' \subseteq Opened' /\ loaded' \subseteq Opened'
    <3>1. CASE Chosen \/ Submitted
      BY <3>1 DEF Chosen, Submitted, docVars, TypeOK, Opened
    <3>2. CASE Added
      <4>1. /\ nextDoc' = nextDoc + 1 /\ nextDoc \in 1..MaxDocs
            /\ documents' \subseteq documents \union {nextDoc}
            /\ open' \subseteq open \union {nextDoc}
            /\ titled' \subseteq titled \union {nextDoc}
            /\ loaded' \subseteq loaded \union {nextDoc}
        BY <3>2, JobsBounds DEF Added, AddDocument, NextId, TypeOK
      <4>2. nextDoc \in Opened'
        BY <4>1 DEF Opened
      <4> QED BY <1>3, <4>1, <4>2, JobsBounds DEF TypeOK
    <3> QED BY <1>1, <3>1, <3>2
  <2>2. Opened \subseteq Docs
    BY JobsBounds DEF TypeOK, Opened, Docs
  <2>3. active' \in Docs \union {Nobody}
    <3>1. CASE Chosen \/ Submitted
      BY <2>2, <3>1 DEF Chosen, Submitted, TypeOK
    <3>2. CASE Added
      <4>1. active' = nextDoc /\ nextDoc \in 1..MaxDocs
        BY <3>2, JobsBounds DEF Added, AddDocument, TypeOK
      <4> QED BY <4>1 DEF Docs
    <3> QED BY <1>1, <3>1, <3>2
  <2>4. target' \in Docs \union {Nobody}
    BY <1>1, <2>2 DEF TypeOK
  <2>5. worker' \in {"looking", "asleep", "working", "stopped"}
    BY <1>1 DEF Chosen, Added, AddDocument, Submitted, Submit, Woken, submitVars, TypeOK
  <2>6. ui' \in {"drain", "keys", "menus", "dialog", "windows", "reap", "undefined",
                "shutdown", "join", "last_drain", "close", "exited"}
    BY <1>1 DEF InputPhases
  <2> QED BY <1>1, <1>7, <2>1, <2>3, <2>4, <2>5, <2>6 DEF TypeOK, DocDialogs, resultVars
<1> QED BY <1>4, <1>5, <1>6, <1>7, <1>8

\* Applying a finished job frees its document.
LEMMA ApplyInv ==
  ASSUME Inv, ApplyDone
  PROVE  Inv'
<1> USE DEF Inv
<1> DEFINE d == Head(doneJobs).doc
<1>1. /\ doneJobs # << >> /\ doneJobs' = Tail(doneJobs) /\ busy' = busy \ {d}
      /\ UNCHANGED <<docVars, focusVars, jobs, accepted, worker, running, workerQuit, quit, ui>>
      /\ ui \in {"drain", "last_drain"}
  BY DEF ApplyDone
<1>2. /\ doneJobs' \in Seq(Job)
      /\ DocsOf(doneJobs) = {d} \union DocsOf(doneJobs)'
      /\ Single(doneJobs)' /\ d \notin DocsOf(doneJobs)'
  <2>1. doneJobs \in Seq(Job) /\ Single(doneJobs)
    BY DEF TypeOK, Owners
  <2>2. /\ Tail(doneJobs) \in Seq(Job) /\ Single(Tail(doneJobs))
        /\ DocsOf(doneJobs) = {d} \union DocsOf(Tail(doneJobs))
        /\ d \notin DocsOf(Tail(doneJobs))
    BY <1>1, <2>1, TailDocs
  <2>3. DocsOf(doneJobs)' = DocsOf(Tail(doneJobs)) /\ Single(doneJobs)' = Single(Tail(doneJobs))
    BY <1>1 DEF DocsOf, Single
  <2> QED BY <1>1, <2>2, <2>3
<1>3. DocsOf(jobs)' = DocsOf(jobs) /\ Single(jobs)' = Single(jobs) /\ HandDocs' = HandDocs
  BY <1>1 DEF DocsOf, Single, HandDocs
<1> HIDE DEF d
<1>4. Owners'
  BY <1>1, <1>2, <1>3 DEF Owners, Disjoint, docVars
<1>5. TypeOK'
  BY <1>1, <1>2 DEF TypeOK, docVars, focusVars, Opened
<1>6. HandsInv' /\ RefsInv' /\ QuitInv' /\ ActiveIsThere'
  BY <1>1 DEF HandsInv, RefsInv, QuitInv, ActiveIsThere, Opened, docVars, focusVars
<1> QED BY <1>4, <1>5, <1>6

\* Reaping takes no document a job is for, and leaves the focus on one.
LEMMA ReapInv ==
  ASSUME Inv, Reap
  PROVE  Inv'
<1> USE DEF Inv
<1>1. /\ ui = "reap" /\ ui' \in {"shutdown", "drain"}
      /\ documents' = documents \ Reapable
      /\ titled' = titled \ Reapable /\ loaded' = loaded \ Reapable
      /\ active' = FocusAfter(documents')
      /\ UNCHANGED <<open, nextDoc, target, pending, submitVars, resultVars, quit>>
  BY DEF Reap, Phase
<1>2. busy \subseteq documents'
  BY <1>1 DEF Reapable, Owners
<1>3. Owners'
  BY <1>1, <1>2, SameOwners DEF submitVars, resultVars
<1>4. active' \in documents' \union {Nobody}
  <2>1. MaxDocs \in Nat /\ documents' \subseteq 1..MaxDocs
    BY <1>1, OpenedDocs, JobsBounds DEF Docs
  <2>2. documents' # {} => Back(documents') \in documents'
    BY <2>1, BackIsLast
  <2> QED BY <1>1, <2>2 DEF FocusAfter
<1>5. documents' \subseteq Docs
  BY <1>1, OpenedDocs
<1>6. TypeOK'
  BY <1>1, <1>4, <1>5 DEF TypeOK, submitVars, resultVars, Opened
<1>7. HandsInv' /\ RefsInv' /\ QuitInv' /\ ActiveIsThere'
  BY <1>1, <1>4 DEF HandsInv, RefsInv, QuitInv, ActiveIsThere, Opened, submitVars, resultVars
<1> QED BY <1>3, <1>6, <1>7

\* The steps of the UI thread that touch no job.
LEMMA OtherInv ==
  ASSUME Inv, Drained \/ DanglingPick \/ Shutdown \/ Join \/ CloseAll \/ UNCHANGED vars
  PROVE  Inv'
<1> USE DEF Inv
<1> USE DEF Phase, Nothing, vars, docVars, focusVars, submitVars, resultVars
<1>1. UNCHANGED <<busy, jobs, running, doneJobs, accepted>>
  BY DEF Drained, DanglingPick, Shutdown, Join, CloseAll
<1>2. CloseAll => busy = {}
  <2>1. ASSUME CloseAll
        PROVE  DocsOf(doneJobs) = {} /\ HandDocs = {} /\ DocsOf(jobs) = {}
    <3>1. ui = "close"
      BY <2>1 DEF CloseAll
    <3>2. jobs = << >> /\ doneJobs = << >> /\ running = NoJob
      BY <3>1 DEF QuitInv, HandsInv
    <3> QED BY <3>2 DEF DocsOf, HandDocs
  <2> QED BY <2>1 DEF Owners
<1>3. /\ busy \subseteq documents'
      /\ UNCHANGED <<open, titled, loaded, nextDoc, active, target, pending, quit>>
      /\ documents' \subseteq documents
      /\ ui' # "exited" => documents' = documents
  BY <1>2 DEF Drained, DanglingPick, Shutdown, Join, CloseAll, Owners
<1>4. Owners'
  BY <1>1, <1>3, SameOwners
<1>5. HandsInv' /\ QuitInv'
  BY DEF Drained, DanglingPick, Shutdown, Join, CloseAll, Woken, HandsInv, QuitInv
<1>6. RefsInv' /\ ActiveIsThere'
  BY <1>3 DEF Drained, DanglingPick, Shutdown, Join, CloseAll, RefsInv, ActiveIsThere, Opened
<1>7. /\ worker' \in {"looking", "asleep", "working", "stopped"}
      /\ workerQuit' \in BOOLEAN
      /\ ui' \in {"drain", "keys", "menus", "dialog", "windows", "reap", "undefined",
                  "shutdown", "join", "last_drain", "close", "exited"}
  BY DEF Drained, DanglingPick, Shutdown, Join, CloseAll, Woken, TypeOK
<1>8. TypeOK'
  BY <1>1, <1>3, <1>7 DEF TypeOK, Opened
<1> QED BY <1>4, <1>5, <1>6, <1>8

\* The worker takes the first job of the queue, or finds none.
LEMMA LookInv ==
  ASSUME Inv, Worker, Look
  PROVE  Inv'
<1> USE DEF Inv
<1>1. /\ worker = "looking" /\ running = NoJob
      /\ UNCHANGED <<docVars, doneJobs, focusVars, busy, accepted, workerQuit, quit, ui>>
  BY DEF Look, Worker, HandsInv
<1>2. ui \notin {"last_drain", "close", "exited"}
  BY <1>1 DEF QuitInv
<1>3. CASE jobs = << >>
  <2>1. /\ UNCHANGED <<running, jobs>> /\ worker' \in {"stopped", "asleep"}
        /\ worker' = "stopped" => workerQuit
    BY <1>3 DEF Look
  <2>2. Owners'
    BY <1>1, <2>1, SameOwners DEF Owners, docVars
  <2>3. TypeOK'
    BY <1>1, <2>1 DEF TypeOK, docVars, focusVars, Opened
  <2>4. HandsInv' /\ QuitInv'
    BY <1>1, <1>2, <1>3, <2>1 DEF HandsInv, QuitInv
  <2>5. RefsInv' /\ ActiveIsThere'
    BY <1>1 DEF RefsInv, ActiveIsThere, Opened, docVars, focusVars
  <2> QED BY <2>2, <2>3, <2>4, <2>5
<1>4. CASE jobs # << >>
  <2>1. worker' = "working" /\ running' = Head(jobs) /\ jobs' = Tail(jobs)
    BY <1>4 DEF Look
  <2>2. /\ Head(jobs) \in Job /\ Tail(jobs) \in Seq(Job) /\ Single(Tail(jobs))
        /\ DocsOf(jobs) = {Head(jobs).doc} \union DocsOf(Tail(jobs))
        /\ Head(jobs).doc \notin DocsOf(Tail(jobs))
    BY <1>4, TailDocs DEF TypeOK, Owners
  <2>3. /\ DocsOf(jobs)' = DocsOf(Tail(jobs)) /\ Single(jobs)' = Single(Tail(jobs))
        /\ DocsOf(doneJobs)' = DocsOf(doneJobs) /\ Single(doneJobs)' = Single(doneJobs)
    BY <1>1, <2>1 DEF DocsOf, Single
  <2>4. HandDocs = {} /\ HandDocs' = {Head(jobs).doc} /\ running' # NoJob
    BY <1>1, <2>1, <2>2, NoJobIsNone DEF HandDocs
  <2>5. Owners'
    BY <1>1, <2>2, <2>3, <2>4 DEF Owners, Disjoint, docVars
  <2>6. TypeOK'
    BY <1>1, <2>1, <2>2 DEF TypeOK, docVars, focusVars, Opened
  <2>7. HandsInv' /\ QuitInv'
    BY <1>1, <1>2, <2>1, <2>4 DEF HandsInv, QuitInv
  <2>8. RefsInv' /\ ActiveIsThere'
    BY <1>1 DEF RefsInv, ActiveIsThere, Opened, docVars, focusVars
  <2> QED BY <2>5, <2>6, <2>7, <2>8
<1> QED BY <1>3, <1>4

\* The job in hand joins the finished ones.
LEMMA FinishInv ==
  ASSUME Inv, Worker, Finish
  PROVE  Inv'
<1> USE DEF Inv
<1>1. /\ worker = "working" /\ worker' = "looking" /\ running \in Job
      /\ doneJobs' = Append(doneJobs, running) /\ running' = NoJob
      /\ titled' \subseteq titled \union {running.doc}
      /\ UNCHANGED <<documents, open, loaded, nextDoc, jobs>>
      /\ UNCHANGED <<focusVars, busy, accepted, workerQuit, quit, ui>>
  BY DEF Finish, Worker, HandsInv, TypeOK
<1>2. ui \notin {"last_drain", "close", "exited"}
  BY <1>1 DEF QuitInv
<1>3. HandDocs = {running.doc} /\ HandDocs' = {}
  BY <1>1, NoJobIsNone DEF HandDocs
<1>4. running.doc \notin DocsOf(doneJobs) /\ running.doc \in Opened
  BY <1>3 DEF Owners, Disjoint, TypeOK
<1>5. /\ Append(doneJobs, running) \in Seq(Job) /\ Single(Append(doneJobs, running))
      /\ DocsOf(Append(doneJobs, running)) = DocsOf(doneJobs) \union {running.doc}
  BY <1>1, <1>4, AppendDocs, AppendSingle DEF TypeOK, Owners
<1>6. /\ DocsOf(doneJobs)' = DocsOf(doneJobs) \union {running.doc} /\ Single(doneJobs)'
      /\ DocsOf(jobs)' = DocsOf(jobs) /\ Single(jobs)' = Single(jobs)
  BY <1>1, <1>5 DEF DocsOf, Single
<1>7. Owners'
  BY <1>1, <1>3, <1>6 DEF Owners, Disjoint
<1>8. TypeOK'
  BY <1>1, <1>4, <1>5 DEF TypeOK, focusVars, Opened
<1>9. HandsInv' /\ QuitInv' /\ RefsInv' /\ ActiveIsThere'
  BY <1>1, <1>2 DEF HandsInv, QuitInv, RefsInv, ActiveIsThere, Opened, focusVars
<1> QED BY <1>7, <1>8, <1>9

LEMMA StepInv == Inv /\ [Next]_vars => Inv'
<1> SUFFICES ASSUME Inv, [Next]_vars PROVE Inv'
  OBVIOUS
<1>1. CASE Input
  BY <1>1, InputInv
<1>2. CASE ApplyDone
  BY <1>2, ApplyInv
<1>3. CASE Reap
  BY <1>3, ReapInv
<1>4. CASE Worker
  BY <1>4, LookInv, FinishInv DEF Worker
<1>5. CASE Drained \/ DanglingPick \/ Shutdown \/ Join \/ CloseAll \/ UNCHANGED vars
  BY <1>5, OtherInv
<1> QED BY <1>1, <1>2, <1>3, <1>4, <1>5 DEF Next, Frame, Input

LEMMA InvAlways == Spec => []Inv
<1>1. Init => Inv
  BY InitInv
<1>2. Inv /\ [Next]_vars => Inv'
  BY StepInv
<1> QED BY <1>1, <1>2, PTL DEF Spec

-----------------------------------------------------------------------------
(* What follows.                                                           *)

\* Every variable stays of its kind, whatever the user does and however the
\* two threads interleave.
THEOREM TypeCorrect == Spec => []TypeOK
BY InvAlways, PTL DEF Inv

\* "One job owns a document at a time": no document is named by two accepted
\* jobs, its busy flag says whether one is, and it is not reaped under one.
THEOREM OneOwnerCorrect == Spec => []OneOwner
<1>1. Inv => OneOwner
  BY OneOwnerIsOwners DEF Inv
<1> QED BY <1>1, InvAlways, PTL

\* g_active is always a document that is there, or none.
THEOREM ActiveIsThereCorrect == Spec => []ActiveIsThere
BY InvAlways, PTL DEF Inv

-----------------------------------------------------------------------------
(* Every step is one that DocumentJobs has, or changes nothing there.      *)

\* Where a document is, from the queues.
StagesAre ==
  \A d \in Docs :
    /\ d \in DocsOf(doneJobs) => StageOf(d) = "worked"
    /\ d \in busy \ DocsOf(doneJobs) => StageOf(d) = "accepted"
    /\ d \in documents \ busy => StageOf(d) = "idle"
    /\ d \in Opened \ documents => StageOf(d) = "gone"
    /\ d \notin Opened => StageOf(d) = "unopened"

LEMMA StageIs == Inv => StagesAre
<1> SUFFICES ASSUME Inv, NEW d \in Docs
             PROVE  /\ d \in DocsOf(doneJobs) => StageOf(d) = "worked"
                    /\ d \in busy \ DocsOf(doneJobs) => StageOf(d) = "accepted"
                    /\ d \in documents \ busy => StageOf(d) = "idle"
                    /\ d \in Opened \ documents => StageOf(d) = "gone"
                    /\ d \notin Opened => StageOf(d) = "unopened"
  BY DEF StagesAre
<1>1. /\ DocsOf(doneJobs) \subseteq busy /\ busy \subseteq documents
      /\ documents \subseteq Opened /\ DocsOf(Owed) = busy
  BY OneOwnerIsOwners DEF Inv, Owners, TypeOK
<1> QED BY <1>1 DEF StageOf

LEMMA StageIsThen == Inv' => StagesAre'
BY StageIs, PTL

\* One document moves on and the others stay.
LEMMA AdvanceOne ==
  ASSUME NEW d \in Docs, NEW from, NEW to, StageOf(d) = from, StageOf(d)' = to,
         \A e \in Docs : e # d => StageOf(e)' = StageOf(e),
         ui # "undefined", ui' # "undefined"
  PROVE  Expected!Advance(d, from, to)
BY DEF Expected!Advance

\* No document moves.
LEMMA NoneMoves ==
  ASSUME \A e \in Docs : StageOf(e)' = StageOf(e), (ui # "undefined") = (ui' # "undefined")
  PROVE  UNCHANGED Expected!vars
BY DEF Expected!vars

\* The sets the stages are read from decide them.
LEMMA SameStages ==
  ASSUME Inv, Inv', NEW d \in Docs,
         (d \in DocsOf(doneJobs)) <=> (d \in DocsOf(doneJobs)'),
         (d \in busy) <=> (d \in busy'), (d \in documents) <=> (d \in documents'),
         (d \in Opened) <=> (d \in Opened')
  PROVE  StageOf(d)' = StageOf(d)
<1>1. /\ DocsOf(doneJobs) \subseteq busy /\ busy \subseteq documents /\ documents \subseteq Opened
      /\ DocsOf(doneJobs)' \subseteq busy' /\ busy' \subseteq documents' /\ documents' \subseteq Opened'
  BY DEF Inv, Owners, TypeOK
<1> QED BY <1>1, StageIs, StageIsThen DEF StagesAre

\* The steps of DocumentJobs and what they take here.
LEMMA StepRefines == Inv /\ Inv' /\ [Next]_vars => [Expected!Next]_(Expected!vars)
<1> SUFFICES ASSUME Inv, Inv', [Next]_vars
             PROVE  [Expected!Next]_(Expected!vars)
  OBVIOUS
<1> USE DEF Expected!Next, Expected!Open, Expected!Accept, Expected!Work, Expected!Apply
<1>1. StagesAre /\ StagesAre'
  BY StageIs, StageIsThen
<1>2. /\ busy = (DocsOf(doneJobs) \union HandDocs) \union DocsOf(jobs) /\ busy \subseteq documents
      /\ documents \subseteq Opened /\ Opened \subseteq Docs
      /\ Disjoint(DocsOf(doneJobs), HandDocs)
  BY OpenedDocs DEF Inv, Owners, TypeOK
<1>3. /\ busy' \subseteq documents' /\ documents' \subseteq Opened'
  BY DEF Inv, Owners, TypeOK
<1>4. CASE Input
  <2>1. /\ ui # "undefined" /\ ui' # "undefined" /\ UNCHANGED resultVars
        /\ Chosen \/ Added \/ Submitted
    BY <1>4, InputEffect DEF Inv, InputPhases
  <2>2. DocsOf(doneJobs)' = DocsOf(doneJobs)
    BY <2>1 DEF resultVars, DocsOf
  <2>3. CASE Chosen
    <3>1. \A e \in Docs : StageOf(e)' = StageOf(e)
      BY <2>2, <2>3, SameStages DEF Chosen, submitVars, Opened
    <3> QED BY <2>1, <3>1, NoneMoves
  <2>4. CASE Added
    <3>1. PICK d \in Docs : d = nextDoc
      BY <2>4, JobsBounds DEF Added, AddDocument, Inv, TypeOK, Docs
    <3>2. /\ nextDoc' = d + 1 /\ d \notin Opened /\ Opened' = Opened \union {d}
          /\ documents' = documents \union {d} /\ busy' = busy
      BY <2>4, <3>1 DEF Added, AddDocument, NextId, submitVars, Docs, Opened
    <3>3. StageOf(d) = "unopened" /\ StageOf(d)' = "idle"
      BY <1>1, <1>2, <3>2 DEF StagesAre
    <3>4. \A e \in Docs : e # d => StageOf(e)' = StageOf(e)
      BY <2>2, <3>2, SameStages
    <3>5. Expected!Advance(d, "unopened", "idle")
      BY <2>1, <3>3, <3>4, AdvanceOne
    <3> QED BY <2>1, <3>5
  <2>5. CASE Submitted
    <3>1. PICK d \in documents, kind \in {"save_as", "other"} : Submit(d, kind)
      BY <2>5 DEF Submitted
    <3>2. /\ d \notin busy /\ busy' = busy \union {d} /\ UNCHANGED <<documents, nextDoc>>
          /\ d \in Docs /\ d \notin DocsOf(doneJobs)
      BY <1>2, <2>5, <3>1 DEF Submitted, Submit, NotBusy, docVars
    <3>3. StageOf(d) = "idle" /\ StageOf(d)' = "accepted"
      BY <1>1, <2>2, <3>2 DEF StagesAre
    <3>4. \A e \in Docs : e # d => StageOf(e)' = StageOf(e)
      BY <2>2, <3>2, SameStages DEF Opened
    <3>5. Expected!Advance(d, "idle", "accepted")
      BY <2>1, <3>2, <3>3, <3>4, AdvanceOne
    <3> QED BY <2>1, <3>2, <3>5
  <2> QED BY <2>1, <2>3, <2>4, <2>5
<1>5. CASE ApplyDone
  <2>1. /\ doneJobs # << >> /\ doneJobs' = Tail(doneJobs) /\ busy' = busy \ {Head(doneJobs).doc}
        /\ UNCHANGED <<documents, nextDoc>> /\ ui # "undefined" /\ ui' # "undefined"
    BY <1>5 DEF ApplyDone, docVars
  <2>2. /\ Head(doneJobs) \in Job
        /\ DocsOf(doneJobs) = {Head(doneJobs).doc} \union DocsOf(Tail(doneJobs))
        /\ Head(doneJobs).doc \notin DocsOf(Tail(doneJobs))
    BY <2>1, TailDocs DEF Inv, TypeOK, Owners
  <2>3. PICK d \in Docs : d = Head(doneJobs).doc
    BY <2>2, NoJobIsNone
  <2>4. DocsOf(doneJobs)' = DocsOf(Tail(doneJobs))
    BY <2>1 DEF DocsOf
  <2>5. StageOf(d) = "worked" /\ StageOf(d)' = "idle"
    BY <1>1, <1>2, <2>1, <2>2, <2>3, <2>4 DEF StagesAre
  <2>6. \A e \in Docs : e # d => StageOf(e)' = StageOf(e)
    BY <2>1, <2>2, <2>3, <2>4, SameStages DEF Opened
  <2>7. Expected!Advance(d, "worked", "idle")
    BY <2>1, <2>5, <2>6, AdvanceOne
  <2> QED BY <2>1, <2>7
<1>6. CASE Worker /\ Finish
  <2>1. /\ running \in Job /\ doneJobs' = Append(doneJobs, running)
        /\ UNCHANGED <<documents, nextDoc, busy>> /\ ui # "undefined" /\ ui' # "undefined"
    BY <1>6 DEF Worker, Finish, Inv, HandsInv, TypeOK
  <2>2. PICK d \in Docs : d = running.doc
    BY <2>1, NoJobIsNone
  <2>3. DocsOf(Append(doneJobs, running)) = DocsOf(doneJobs) \union {d}
    BY <2>1, <2>2, AppendDocs DEF Inv, TypeOK
  <2>4. DocsOf(doneJobs)' = DocsOf(doneJobs) \union {d}
    BY <2>1, <2>3 DEF DocsOf
  <2>5. d \in busy \ DocsOf(doneJobs)
    BY <1>2, <2>1, <2>2, NoJobIsNone DEF HandDocs, Disjoint
  <2>6. StageOf(d) = "accepted" /\ StageOf(d)' = "worked"
    BY <1>1, <2>4, <2>5 DEF StagesAre
  <2>7. \A e \in Docs : e # d => StageOf(e)' = StageOf(e)
    BY <2>1, <2>4, SameStages DEF Opened
  <2>8. Expected!Advance(d, "accepted", "worked")
    BY <2>1, <2>6, <2>7, AdvanceOne
  <2> QED BY <2>1, <2>8
<1>7. CASE Reap \/ CloseAll
  <2> DEFINE ds == documents \ documents'
  <2>1. /\ UNCHANGED <<nextDoc, busy, doneJobs>> /\ ui # "undefined" /\ ui' # "undefined"
        /\ documents' \subseteq documents
    BY <1>7 DEF Reap, CloseAll, Phase, submitVars, resultVars
  <2>2. DocsOf(doneJobs)' = DocsOf(doneJobs) /\ Opened' = Opened
    BY <2>1 DEF DocsOf, Opened
  <2>3. \A e \in ds : e \in Docs /\ StageOf(e) = "idle" /\ StageOf(e)' = "gone"
    BY <1>1, <1>2, <1>3, <2>1, <2>2 DEF StagesAre
  <2>4. \A e \in Docs \ ds : StageOf(e)' = StageOf(e)
    BY <2>1, <2>2, SameStages
  <2> HIDE DEF ds
  <2>5. ds \in SUBSET Docs
    BY <2>3
  <2>6. Expected!Discard(ds)
    BY <2>1, <2>3, <2>4 DEF Expected!Discard
  <2> QED BY <2>1, <2>5, <2>6
<1>8. CASE DanglingPick
  <2>1. /\ target \in Opened \ documents /\ target \in Docs
        /\ ui # "undefined" /\ ui' = "undefined"
        /\ UNCHANGED <<documents, nextDoc, busy, doneJobs>>
    BY <1>2, <1>8 DEF DanglingPick, Phase, Nothing, docVars, submitVars, resultVars,
       Inv, RefsInv, DocDialogs
  <2>2. StageOf(target) = "gone"
    BY <1>1, <2>1 DEF StagesAre
  <2>3. \A e \in Docs : StageOf(e)' = StageOf(e)
    BY <2>1, SameStages DEF DocsOf, Opened
  <2>4. Expected!Misuse
    BY <2>1, <2>2, <2>3 DEF Expected!Misuse
  <2> QED BY <2>1, <2>4
<1>9. CASE Drained \/ Shutdown \/ Join \/ (Worker /\ Look) \/ UNCHANGED vars
  <2>1. /\ UNCHANGED <<documents, nextDoc, busy, doneJobs>>
        /\ (ui # "undefined") <=> (ui' # "undefined")
    BY <1>9 DEF Drained, Shutdown, Join, Worker, Look, Phase, Nothing, vars, docVars,
       submitVars, resultVars
  <2>2. \A e \in Docs : StageOf(e)' = StageOf(e)
    BY <2>1, SameStages DEF DocsOf, Opened
  <2> QED BY <2>1, <2>2, NoneMoves
<1> QED BY <1>4, <1>5, <1>6, <1>7, <1>8, <1>9 DEF Next, Frame, Input, Worker

\* The two threads keep what DocumentJobs says of every step: a document has
\* one operation at a time, worked on and applied once each and in that order,
\* and is not discarded under one.
THEOREM KeepsSteps == Spec => Expected!Init /\ [][Expected!Next]_(Expected!vars)
<1>1. Init => Expected!Init
  <2> SUFFICES ASSUME Init PROVE Expected!Init
    OBVIOUS
  <2>1. StagesAre
    BY InitInv, StageIs
  <2>2. Opened = {} /\ ui # "undefined"
    BY DEF Init, Opened
  <2>3. \A d \in Docs : StageOf(d) = "unopened"
    BY <2>1, <2>2 DEF StagesAre
  <2> QED BY <2>2, <2>3 DEF Expected!Init
<1>2. Inv /\ Inv' /\ [Next]_vars => [Expected!Next]_(Expected!vars)
  BY StepRefines
<1> QED BY <1>1, <1>2, InvAlways, PTL DEF Spec
=============================================================================
