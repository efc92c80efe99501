--------------------------- MODULE AuditLog_proofs ---------------------------
(***************************************************************************)
(* What the hash chain and the checkpoint of module AuditLog guarantee for *)
(* any processes, any events and any amount of outside editing.            *)
(***************************************************************************)
EXTENDS AuditLog, SequenceTheorems, NaturalsInduction,
        WellFoundedInduction, TLAPS

\* An entry's digest is a digest, and is longer by one than the one it links to.
LEMMA EntryHashType ==
  ASSUME NEW e \in Entry
  PROVE  /\ EntryHash(e) \in Digest
         /\ Len(EntryHash(e)) = Len(e.prev) + 1
         /\ EntryHash(e)[Len(e.prev) + 1] = e.event
         /\ \A j \in 1..Len(e.prev) : EntryHash(e)[j] = e.prev[j]
BY AppendProperties DEF Entry, Digest, EntryHash

\* Every non-empty set of natural numbers has a least element.
Below == {pair \in Nat \X Nat : pair[1] < pair[2]}

LEMMA BelowWellFounded == IsWellFoundedOn(Below, Nat)
BY NatLessThanWellFounded DEF OpToRel, Below

LEMMA LeastNat ==
  ASSUME NEW T, T \subseteq Nat, T # {}
  PROVE  \E x \in T : \A y \in T : x <= y
<1>1. \E x \in T : \A y \in T : ~(<<y, x>> \in Below)
  BY BelowWellFounded, WFMin, Zenon
<1>2. PICK x \in T : \A y \in T : ~(<<y, x>> \in Below)
  BY <1>1
<1>3. \A y \in T : ~(y < x)
  BY <1>2 DEF Below
<1> QED BY <1>3

\* The digest of an entry on an intact chain spells out the events of the chain
\* up to it.  By the least entry that would be an exception.
Spells(es, i) ==
  /\ Len(EntryHash(es[i])) = i
  /\ \A j \in 1..i : EntryHash(es[i])[j] = es[j].event

LEMMA ChainSpells ==
  ASSUME NEW es \in Seq(Entry), NEW n \in Nat, n <= Len(es), LinkedThrough(es, n)
  PROVE  \A i \in 1..n : Spells(es, i)
<1> DEFINE Bad == {m \in 1..n : ~Spells(es, m)}
<1>1. SUFFICES ASSUME Bad # {}
               PROVE  FALSE
  OBVIOUS
<1>2. PICK i \in Bad : \A m \in Bad : i <= m
  <2>1. Bad \subseteq Nat
    OBVIOUS
  <2> HIDE DEF Bad
  <2> QED BY <1>1, <2>1, LeastNat
<1>3. i \in 1..n /\ i \in 1..Len(es) /\ ~Spells(es, i)
  BY <1>2, LenProperties
<1>4. es[i] \in Entry /\ es[i].prev = Expected(es, i)
  BY <1>3, ElementOfSeq DEF LinkedThrough
<1>5. /\ Len(EntryHash(es[i])) = Len(es[i].prev) + 1
      /\ EntryHash(es[i])[Len(es[i].prev) + 1] = es[i].event
      /\ \A j \in 1..Len(es[i].prev) : EntryHash(es[i])[j] = es[i].prev[j]
  BY <1>4, EntryHashType
<1>6. CASE i = 1
  <2>1. es[i].prev = << >>
    BY <1>4, <1>6 DEF Expected, Genesis
  <2> QED BY <1>3, <1>5, <1>6, <2>1 DEF Spells
<1>7. CASE i # 1
  <2>1. i - 1 \in 1..n /\ ~(i - 1 \in Bad)
    BY <1>2, <1>3, <1>7
  <2>2. Spells(es, i - 1)
    BY <2>1
  <2>3. es[i].prev = EntryHash(es[i - 1])
    BY <1>4, <1>7 DEF Expected
  <2>4. Len(es[i].prev) = i - 1 /\ \A j \in 1..(i - 1) : es[i].prev[j] = es[j].event
    BY <2>2, <2>3 DEF Spells
  <2> QED BY <1>3, <1>5, <2>4 DEF Spells
<1> QED BY <1>6, <1>7

-----------------------------------------------------------------------------
(* Types.                                                                  *)

\* The markers are none of the things they stand beside.
LEMMA Markers ==
  /\ Garbled \notin Entry
  /\ NoTail \notin Entry
  /\ Stub \notin Entry
  /\ NoTail # Stub
  /\ Garbled \notin {NoTail, Stub}
  /\ NoCheckpoint \notin Checkpoint
  /\ Torn \notin Checkpoint
<1>1. \A e \in Entry : DOMAIN e = {"event", "prev"}
  BY DEF Entry
<1>2. \A c \in Checkpoint : DOMAIN c = {"head", "signed"}
  BY DEF Checkpoint
<1>3. /\ DOMAIN Garbled = {"garbled"}
      /\ DOMAIN NoTail = {"ends"}
      /\ DOMAIN Stub = {"ends"}
      /\ DOMAIN NoCheckpoint = {"absent"}
      /\ DOMAIN Torn = {"torn"}
  BY DEF Garbled, NoTail, Stub, NoCheckpoint, Torn
<1>4. NoTail # Stub
  BY DEF NoTail, Stub
<1> QED BY <1>1, <1>2, <1>3, <1>4

\* A log that parses is a sequence of entries, and its head is a digest.
LEMMA EntriesType ==
  ASSUME TypeOK, Readable
  PROVE  /\ Entries \in Seq(Entry)
         /\ CurrentHead \in Digest
         /\ EventsOf(Entries) \in Seq(Events)
<1>1. lines \in Seq(Entry)
  BY SeqDef DEF TypeOK, Readable, Line
<1>2. tail \in Entry => Append(lines, tail) \in Seq(Entry)
  BY <1>1, AppendProperties
<1>3. Entries \in Seq(Entry)
  BY <1>1, <1>2 DEF Entries
<1>4. CurrentHead \in Digest
  <2>1. CASE Entries = << >>
    BY <2>1 DEF CurrentHead, Genesis, Digest
  <2>2. CASE Entries # << >>
    <3>1. Entries[Len(Entries)] \in Entry
      BY <1>3, <2>2, EmptySeq, ElementOfSeq, LenProperties
    <3> QED BY <2>2, <3>1, EntryHashType DEF CurrentHead
  <2> QED BY <2>1, <2>2
<1>5. EventsOf(Entries) \in Seq(Events)
  <2>1. \A i \in 1..Len(Entries) : Entries[i].event \in Events
    <3>1. \A i \in 1..Len(Entries) : Entries[i] \in Entry
      BY <1>3, ElementOfSeq
    <3> QED BY <3>1 DEF Entry
  <2>2. EventsOf(Entries) \in [1..Len(Entries) -> Events]
    BY <2>1 DEF EventsOf
  <2> QED BY <1>3, <2>2, LenProperties, SeqDef
<1> QED BY <1>3, <1>4, <1>5

\* Part of a new line, alone or after what a cut write has left, is a fragment.
LEMMA PartialType ==
  ASSUME NEW entry \in Entry, tail \in Fragment
  PROVE  Partial(entry) \subseteq Fragment
<1>1. Cut \in Digest
  BY DEF Cut, Digest
<1>2. [entry EXCEPT !.prev = Cut] \in Entry
  BY <1>1 DEF Entry
<1>3. tail \in Entry => [tail EXCEPT !.prev = Cut] \in Entry
  BY <1>1 DEF Entry
<1>4. [event : Events, prev : {Cut, entry.prev}] \subseteq Entry
  BY <1>1 DEF Entry
<1>5. tail = NoTail \/ tail = Stub \/ tail \in Entry \/ tail = Garbled
  BY DEF Fragment, Line
<1> QED BY <1>2, <1>3, <1>4, <1>5, Markers DEF Partial, Fragment, Line

LEMMA HeadsType == HeadsInLog \subseteq Digest
<1>1. Genesis \in Digest
  BY DEF Genesis, Digest
<1>2. \A i \in {k \in 1..Len(lines) : lines[k] \in Entry} : EntryHash(lines[i]) \in Digest
  BY EntryHashType
<1> QED BY <1>1, <1>2, Zenon DEF HeadsInLog

LEMMA InitType == Init => TypeOK
<1> SUFFICES ASSUME Init
             PROVE  TypeOK
  OBVIOUS
<1>1. lines \in Seq(Line) /\ tail \in Fragment
  BY DEF Init, Fragment
<1>2. op \in [Procs -> Op]
  BY DEF Init, Op
<1>3. witness \in [events : Seq(Events), intact : BOOLEAN]
  <2>1. << >> \in Seq(Events)
    OBVIOUS
  <2> QED BY <2>1 DEF Init
<1>4. checkpoint \in Checkpoint \union {NoCheckpoint, Torn}
  BY DEF Init
<1>5. raced \in BOOLEAN
  BY Zenon DEF Init
<1>6. damage \in 0..MaxDamage
  <2>1. damage = 0
    BY DEF Init
  <2> QED BY <2>1, AuditBounds
<1> QED BY <1>1, <1>2, <1>3, <1>4, <1>5, <1>6 DEF TypeOK

LEMMA StepType ==
  ASSUME TypeOK, [Next]_vars
  PROVE  TypeOK'
<1> USE DEF TypeOK
<1>1. ASSUME NEW p \in Procs, NEW e \in Events, ReadHead(p, e)
      PROVE  TypeOK'
  <2>1. CurrentHead \in Digest
    BY <1>1, EntriesType DEF ReadHead
  <2>2. [kind |-> "append", event |-> e, head |-> CurrentHead] \in Op
    BY <2>1 DEF Op
  <2>3. op' \in [Procs -> Op]
    BY <1>1, <2>2 DEF ReadHead
  <2>4. raced' \in BOOLEAN
    BY <1>1 DEF ReadHead, AppendUnderWay
  <2> QED BY <1>1, <2>3, <2>4 DEF ReadHead
<1>2. ASSUME NEW p \in Procs, op[p].kind = "append"
      PROVE  NewEntry(p) \in Entry
  BY <1>2 DEF NewEntry, Entry, Op, Idle
<1>3. Idle \in Op
  BY DEF Op
<1>4. ASSUME NEW p \in Procs, AppendLine(p)
      PROVE  TypeOK'
  <2>1. PICK line \in Glued(NewEntry(p)) : lines' = Append(lines, line)
    BY <1>4 DEF AppendLine
  <2>2. NewEntry(p) \in Entry
    BY <1>2, <1>4 DEF AppendLine
  <2>3. line \in Line
    <3>1. \A e \in Events : [NewEntry(p) EXCEPT !.event = e] \in Entry
      BY <2>2 DEF Entry
    <3> QED BY <2>1, <2>2, <3>1 DEF Glued, Line
  <2>4. lines' \in Seq(Line)
    BY <2>1, <2>3, AppendProperties
  <2> QED BY <1>3, <1>4, <2>4 DEF AppendLine, Fragment
<1>5. ASSUME NEW p \in Procs, TearAppend(p)
      PROVE  TypeOK'
  <2>1. NewEntry(p) \in Entry
    BY <1>2, <1>5 DEF TearAppend
  <2>2. Partial(NewEntry(p)) \subseteq Fragment
    BY <2>1, PartialType
  <2> QED BY <1>3, <1>5, <2>2, AuditBounds DEF TearAppend
<1>6. ASSUME NEW p \in Procs, ReadForCheckpoint(p)
      PROVE  TypeOK'
  <2>1. [kind   |-> "sign",
         head   |-> CurrentHead,
         events |-> IF AuditVerifies THEN EventsOf(Entries) ELSE << >>,
         intact |-> AuditVerifies] \in Op
    <3>1. CurrentHead \in Digest /\ EventsOf(Entries) \in Seq(Events)
      BY <1>6, EntriesType DEF ReadForCheckpoint
    <3>2. AuditVerifies \in BOOLEAN
      BY DEF AuditVerifies, Readable, LinkedThrough
    <3> QED BY <3>1, <3>2 DEF Op
  <2> QED BY <1>6, <2>1 DEF ReadForCheckpoint
<1>7. ASSUME NEW p \in Procs, WriteCheckpoint(p)
      PROVE  TypeOK'
  <2>1. op[p].head \in Digest /\ op[p].events \in Seq(Events) /\ op[p].intact \in BOOLEAN
    BY <1>7 DEF WriteCheckpoint, Op, Idle
  <2> QED BY <1>3, <1>7, <2>1 DEF WriteCheckpoint, Checkpoint
<1>8. ASSUME NEW p \in Procs, TearCheckpoint(p)
      PROVE  TypeOK'
  BY <1>3, <1>8, AuditBounds DEF TearCheckpoint
<1>9. ASSUME NEW p \in Procs, Crash(p)
      PROVE  TypeOK'
  BY <1>3, <1>9 DEF Crash
<1>10. ASSUME NEW i \in 1..Len(lines), NEW e \in Events, NEW head \in HeadsInLog,
              EditEntry(i, e, head)
       PROVE  TypeOK'
  <2>1. [event |-> e, prev |-> head] \in Line
    BY HeadsType DEF Line, Entry
  <2>2. lines' \in Seq(Line)
    BY <1>10, <2>1, ExceptSeq DEF EditEntry
  <2> QED BY <1>10, <2>2, AuditBounds DEF EditEntry, Outside
<1>11. ASSUME NEW i \in 1..Len(lines), RemoveEntry(i)
       PROVE  TypeOK'
  <2>1. Len(lines) - 1 \in Nat
    BY <1>11, LenProperties
  <2>2. \A k \in 1..(Len(lines) - 1) : (IF k < i THEN lines[k] ELSE lines[k + 1]) \in Line
    BY <2>1, ElementOfSeq, LenProperties
  <2>3. lines' \in Seq(Line)
    BY <1>11, <2>1, <2>2, SeqDef DEF RemoveEntry
  <2> QED BY <1>11, <2>3, AuditBounds DEF RemoveEntry, Outside
<1>12. ASSUME NEW i \in 1..Len(lines), NEW j \in 1..Len(lines), SwapEntries(i, j)
       PROVE  TypeOK'
  <2>1. lines[i] \in Line /\ lines[j] \in Line
    BY ElementOfSeq
  <2>2. lines' \in Seq(Line)
    BY <1>12, <2>1, ExceptSeq DEF SwapEntries
  <2> QED BY <1>12, <2>2, AuditBounds DEF SwapEntries, Outside
<1>13. ASSUME EditCheckpoint
       PROVE  TypeOK'
  <2>1. PICK head \in HeadsInLog : checkpoint' = [checkpoint EXCEPT !.head = head]
    BY <1>13 DEF EditCheckpoint
  <2>3. checkpoint' \in Checkpoint
    BY <1>13, <2>1, HeadsType DEF EditCheckpoint, Checkpoint
  <2> QED BY <1>13, <2>3, AuditBounds DEF EditCheckpoint, Outside
<1>14. CASE UNCHANGED vars
  BY <1>14 DEF vars
<1> HIDE DEF TypeOK
<1> QED
  BY <1>1, <1>4, <1>5, <1>6, <1>7, <1>8, <1>9, <1>10, <1>11, <1>12, <1>13, <1>14
     DEF Next, ProgramStep, OutsideStep

\* Whatever the processes, events and damage, the two files and the pending
\* operations keep their types.
THEOREM TypeCorrect == Spec => []TypeOK
BY InitType, StepType, PTL DEF Spec

-----------------------------------------------------------------------------
(* The checkpoint.                                                         *)

\* Why CheckpointCommits holds at every moment: what a signer is about to sign,
\* and what the recorded signature covers, is the whole list of events of a log
\* whose chain verified.
SignedHistory ==
  /\ checkpoint \in Checkpoint /\ witness.intact => checkpoint.signed = witness.events
  /\ \A p \in Procs : op[p].kind = "sign" /\ op[p].intact => op[p].head = op[p].events

\* The head of a log whose chain verifies is the list of its events.
LEMMA HeadIsHistory ==
  ASSUME TypeOK, AuditVerifies
  PROVE  CurrentHead = EventsOf(Entries)
<1>1. Entries \in Seq(Entry) /\ CurrentHead \in Digest /\ EventsOf(Entries) \in Digest
  <2>1. Seq(Events) \subseteq Digest
    BY SeqDef DEF Digest
  <2> QED BY <2>1, EntriesType DEF AuditVerifies
<1>2. Len(EventsOf(Entries)) = Len(Entries)
  <2>1. DOMAIN EventsOf(Entries) = 1..Len(Entries)
    BY DEF EventsOf
  <2> QED BY <1>1, <2>1, LenProperties
<1>3. CASE Entries = << >>
  <2>1. Len(CurrentHead) = 0
    BY <1>3 DEF CurrentHead, Genesis
  <2> QED BY <1>1, <1>2, <1>3, <2>1, SeqEqual DEF Digest
<1>4. CASE Entries # << >>
  <2>1. Len(Entries) \in Nat /\ Len(Entries) # 0
    BY <1>1, <1>4, EmptySeq, LenProperties
  <2>2. Spells(Entries, Len(Entries))
    BY <1>1, <2>1, ChainSpells DEF AuditVerifies
  <2>3. CurrentHead = EntryHash(Entries[Len(Entries)])
    BY <1>4 DEF CurrentHead
  <2>4. Len(CurrentHead) = Len(Entries)
    BY <2>2, <2>3 DEF Spells
  <2>5. \A j \in 1..Len(Entries) : CurrentHead[j] = EventsOf(Entries)[j]
    BY <2>2, <2>3 DEF Spells, EventsOf
  <2> QED BY <1>1, <1>2, <2>4, <2>5, SeqEqual DEF Digest
<1> QED BY <1>3, <1>4

LEMMA InitSigned == Init => SignedHistory
BY Markers DEF Init, SignedHistory, Idle

LEMMA StepSigned ==
  ASSUME TypeOK, SignedHistory, [Next]_vars
  PROVE  SignedHistory'
<1> DEFINE Pending(p) == op[p].kind = "sign" /\ op[p].intact => op[p].head = op[p].events
<1>1. \A p \in Procs : Pending(p)
  BY DEF SignedHistory
<1>2. DOMAIN op = Procs
  BY DEF TypeOK
<1>3. Idle.kind # "sign"
  BY DEF Idle
\* A process that gives up its operation, or starts an append.
<1>4. ASSUME NEW p \in Procs, NEW o, o.kind # "sign", op' = [op EXCEPT ![p] = o],
             UNCHANGED <<checkpoint, witness>>
      PROVE  SignedHistory'
  BY <1>1, <1>2, <1>4 DEF SignedHistory
<1>5. ASSUME NEW p \in Procs, NEW e \in Events, ReadHead(p, e)
      PROVE  SignedHistory'
  <2>1. [kind |-> "append", event |-> e, head |-> CurrentHead].kind # "sign"
    OBVIOUS
  <2> QED BY <1>4, <1>5, <2>1 DEF ReadHead
<1>6. ASSUME NEW p \in Procs, AppendLine(p) \/ TearAppend(p) \/ Crash(p)
      PROVE  SignedHistory'
  BY <1>3, <1>4, <1>6 DEF AppendLine, TearAppend, Crash
<1>7. ASSUME NEW p \in Procs, ReadForCheckpoint(p)
      PROVE  SignedHistory'
  <2>1. AuditVerifies => CurrentHead = EventsOf(Entries)
    BY HeadIsHistory
  <2>2. Pending(p)'
    <3>1. op'[p] = [kind   |-> "sign",
                    head   |-> CurrentHead,
                    events |-> IF AuditVerifies THEN EventsOf(Entries) ELSE << >>,
                    intact |-> AuditVerifies]
      BY <1>2, <1>7 DEF ReadForCheckpoint
    <3>2. op'[p].head = CurrentHead
      BY <3>1
    <3>3. op'[p].events = IF AuditVerifies THEN EventsOf(Entries) ELSE << >>
      BY <3>1
    <3>4. op'[p].intact = AuditVerifies
      BY <3>1
    <3> QED BY <2>1, <3>2, <3>3, <3>4, Zenon
  <2>3. \A q \in Procs \ {p} : op'[q] = op[q]
    BY <1>2, <1>7 DEF ReadForCheckpoint
  <2> QED BY <1>1, <1>7, <2>2, <2>3 DEF ReadForCheckpoint, SignedHistory
<1>8. ASSUME NEW p \in Procs, WriteCheckpoint(p)
      PROVE  SignedHistory'
  <2>1. checkpoint'.signed = op[p].head
    BY <1>8 DEF WriteCheckpoint
  <2>2. witness'.events = op[p].events
    BY <1>8 DEF WriteCheckpoint
  <2>3. witness'.intact = op[p].intact
    BY <1>8, Zenon DEF WriteCheckpoint
  <2>4. op[p].kind = "sign"
    BY <1>8 DEF WriteCheckpoint
  <2>5. witness'.intact => checkpoint'.signed = witness'.events
    BY <1>1, <2>1, <2>2, <2>3, <2>4, Zenon
  <2>6. \A q \in Procs : Pending(q)'
    <3>1. op'[p] = Idle /\ \A q \in Procs \ {p} : op'[q] = op[q]
      BY <1>2, <1>8 DEF WriteCheckpoint
    <3> QED BY <1>1, <1>3, <3>1
  <2> QED BY <2>5, <2>6 DEF SignedHistory
<1>9. ASSUME NEW p \in Procs, TearCheckpoint(p)
      PROVE  SignedHistory'
  <2>1. checkpoint' \notin Checkpoint
    BY <1>9, Markers DEF TearCheckpoint, Checkpoint
  <2>2. op'[p] = Idle /\ \A q \in Procs \ {p} : op'[q] = op[q]
    BY <1>2, <1>9 DEF TearCheckpoint
  <2> QED BY <1>1, <1>3, <2>1, <2>2 DEF SignedHistory, Checkpoint
<1>10. ASSUME OutsideStep
       PROVE  SignedHistory'
  <2>1. UNCHANGED <<op, witness>>
    BY <1>10 DEF OutsideStep, Outside, EditEntry, RemoveEntry, SwapEntries, EditCheckpoint
  <2>2. checkpoint' = checkpoint \/ (checkpoint \in Checkpoint /\ checkpoint'.signed = checkpoint.signed)
    <3>1. CASE EditCheckpoint
      BY <3>1 DEF EditCheckpoint, Checkpoint
    <3>2. CASE ~EditCheckpoint
      BY <1>10, <3>2 DEF OutsideStep, EditEntry, RemoveEntry, SwapEntries
    <3> QED BY <3>1, <3>2
  <2> QED BY <2>1, <2>2 DEF SignedHistory, Checkpoint
<1>11. CASE UNCHANGED vars
  BY <1>11 DEF vars, SignedHistory, Checkpoint
<1> QED BY <1>5, <1>6, <1>7, <1>8, <1>9, <1>10, <1>11 DEF Next, ProgramStep

LEMMA SignedCommits ==
  ASSUME TypeOK, SignedHistory
  PROVE  CheckpointCommits
<1> SUFFICES ASSUME CheckpointValid, witness.intact
             PROVE  /\ Len(witness.events) <= Len(Entries)
                    /\ \A i \in 1..Len(witness.events) : Entries[i].event = witness.events[i]
  BY DEF CheckpointCommits
<1>1. HeadIntact(witness.events)
  BY DEF CheckpointValid, SignedHistory
<1>2. Entries \in Seq(Entry) /\ Len(Entries) \in Nat
  BY EntriesType, LenProperties DEF CheckpointValid
<1>3. CASE witness.events = Genesis
  BY <1>2, <1>3 DEF Genesis
<1>4. CASE witness.events # Genesis
  <2>1. PICK k \in 1..Len(Entries) :
          LinkedThrough(Entries, k) /\ EntryHash(Entries[k]) = witness.events
    BY <1>1, <1>4 DEF HeadIntact
  <2>2. Spells(Entries, k)
    BY <1>2, <2>1, ChainSpells
  <2> QED BY <1>2, <2>1, <2>2 DEF Spells
<1> QED BY <1>3, <1>4

\* A checkpoint that verifies stands for the very history its signer saw, for
\* any number of processes, lines and outside changes.
THEOREM CheckpointCommitsCorrect == Spec => []CheckpointCommits
<1>1. Init => TypeOK /\ SignedHistory
  BY InitType, InitSigned
<1>2. TypeOK /\ SignedHistory /\ [Next]_vars => (TypeOK /\ SignedHistory)'
  BY StepType, StepSigned
<1>3. TypeOK /\ SignedHistory => CheckpointCommits
  BY SignedCommits
<1> QED BY <1>1, <1>2, <1>3, PTL DEF Spec

-----------------------------------------------------------------------------
(* The chain.                                                              *)

\* Entry i of an intact chain: its predecessor's digest spells the events before.
LEMMA ChainLinks ==
  ASSUME NEW es \in Seq(Entry), LinkedThrough(es, Len(es)), NEW i \in 1..Len(es)
  PROVE  /\ es[i] \in Entry
         /\ Spells(es, i)
         /\ Len(es[i].prev) = i - 1
         /\ \A j \in 1..(i - 1) : es[i].prev[j] = es[j].event
<1>1. Spells(es, i)
  BY ChainSpells, LenProperties
<1>2. es[i] \in Entry
  BY ElementOfSeq
<1>3. /\ Len(EntryHash(es[i])) = Len(es[i].prev) + 1
      /\ \A j \in 1..Len(es[i].prev) : EntryHash(es[i])[j] = es[i].prev[j]
  BY <1>2, EntryHashType
<1>4. Len(es[i].prev) \in Nat
  BY <1>2, LenProperties DEF Entry, Digest
<1>5. /\ Len(EntryHash(es[i])) = i
      /\ \A j \in 1..i : EntryHash(es[i])[j] = es[j].event
  BY <1>1 DEF Spells
<1>6. i \in Nat /\ Len(es[i].prev) = i - 1
  <2>1. i \in Nat
    BY LenProperties
  <2> QED BY <1>3, <1>4, <1>5, <2>1
<1>7. ASSUME NEW j \in 1..(i - 1)
      PROVE  es[i].prev[j] = es[j].event
  <2>1. j \in 1..i /\ j \in 1..Len(es[i].prev)
    BY <1>6
  <2> QED BY <1>3, <1>5, <2>1
<1> QED BY <1>1, <1>2, <1>6, <1>7

\* Two intact chains that end in the same entry are the same chain.
LEMMA LastEntryDecides ==
  ASSUME NEW es \in Seq(Entry), LinkedThrough(es, Len(es)), es # << >>,
         NEW fs \in Seq(Entry), LinkedThrough(fs, Len(fs)), fs # << >>,
         es[Len(es)] = fs[Len(fs)]
  PROVE  es = fs
<1>1. Len(es) \in Nat \ {0} /\ Len(fs) \in Nat \ {0}
  BY EmptySeq, LenProperties
<1>2. Spells(es, Len(es)) /\ Spells(fs, Len(fs))
  BY <1>1, ChainLinks
<1>3. Len(es) = Len(fs)
  BY <1>2 DEF Spells
<1>4. \A j \in 1..Len(es) : es[j].event = fs[j].event
  BY <1>2, <1>3 DEF Spells
<1>5. ASSUME NEW i \in 1..Len(es)
      PROVE  es[i] = fs[i]
  <2>1. /\ es[i] \in Entry
        /\ Len(es[i].prev) = i - 1
        /\ \A j \in 1..(i - 1) : es[i].prev[j] = es[j].event
    BY ChainLinks
  <2>2. /\ fs[i] \in Entry
        /\ Len(fs[i].prev) = i - 1
        /\ \A j \in 1..(i - 1) : fs[i].prev[j] = fs[j].event
    BY <1>3, ChainLinks
  <2>3. es[i].prev = fs[i].prev
    <3>1. es[i].prev \in Digest /\ fs[i].prev \in Digest
      BY <2>1, <2>2 DEF Entry
    <3>2. \A j \in 1..(i - 1) : es[i].prev[j] = fs[i].prev[j]
      BY <1>1, <1>4, <2>1, <2>2
    <3> QED BY <2>1, <2>2, <3>1, <3>2, SeqEqual DEF Digest
  <2>4. \A e \in Entry, f \in Entry : e.event = f.event /\ e.prev = f.prev => e = f
    BY DEF Entry
  <2>5. es[i].event = fs[i].event
    BY <1>4
  <2> QED BY <2>1, <2>2, <2>3, <2>4, <2>5, Zenon
<1> QED BY <1>3, <1>5, SeqEqual

\* Nothing but the last entry has to be trusted for the log to be trusted: an
\* outside change that leaves it alone cannot pass audit_verify.
THEOREM InnerChangeCaught == Spec => InnerChangeBreaks
<1> DEFINE IntactLog == Entries \in Seq(Entry) /\ LinkedThrough(Entries, Len(Entries))
<1>0. TypeOK /\ AuditVerifies => IntactLog
  BY EntriesType DEF AuditVerifies
<1>1. ASSUME TypeOK, TypeOK'
      PROVE  /\ AuditVerifies /\ AuditVerifies' /\ OutsideStep
             /\ Entries # << >> /\ Entries' # << >>
             /\ Entries[Len(Entries)] = Entries'[Len(Entries')]
             => Entries' = Entries
  <2>1. SUFFICES ASSUME AuditVerifies, AuditVerifies', Entries # << >>, Entries' # << >>,
                        Entries[Len(Entries)] = Entries'[Len(Entries')]
                 PROVE  Entries' = Entries
    OBVIOUS
  <2>2. IntactLog
    BY <1>0, <1>1, <2>1
  <2>3. (TypeOK /\ AuditVerifies => IntactLog)'
    BY <1>0, PTL
  <2> QED BY <1>1, <2>1, <2>2, <2>3, LastEntryDecides
<1> QED BY <1>1, TypeCorrect, PTL DEF InnerChangeBreaks

-----------------------------------------------------------------------------
(* Appending.                                                              *)

\* Appending an entry changes nothing of the links before it.
LEMMA PrefixKept ==
  ASSUME NEW es \in Seq(Entry), NEW e \in Entry, NEW i \in 1..Len(es)
  PROVE  Append(es, e)[i] = es[i] /\ Expected(Append(es, e), i) = Expected(es, i)
<1>1. \A k \in 1..Len(es) : Append(es, e)[k] = es[k]
  BY AppendProperties
<1>2. i # 1 => i - 1 \in 1..Len(es)
  BY LenProperties
<1> QED BY <1>1, <1>2 DEF Expected

\* A hash that is not whole is no entry's digest, nor genesis.
LEMMA CutLinksNothing ==
  /\ Genesis # Cut
  /\ \A e \in Entry : EntryHash(e) # Cut
<1>1. Len(Cut) = 1 /\ Cut[1] = "cut"
  BY DEF Cut
<1>2. Genesis # Cut
  BY <1>1 DEF Genesis
<1>3. ASSUME NEW e \in Entry, EntryHash(e) = Cut
      PROVE  FALSE
  <2>1. Len(e.prev) \in Nat /\ e.event \in Events
    BY LenProperties DEF Entry, Digest
  <2>2. Len(e.prev) + 1 = 1 /\ Cut[Len(e.prev) + 1] = e.event
    BY <1>1, <1>3, EntryHashType
  <2> QED BY <1>1, <2>1, <2>2, CutIsNoEvent
<1> QED BY <1>2, <1>3

\* A log without a fragment of an entry at its end is its lines.
LEMMA WholeLines == tail = NoTail => Entries = lines
BY Markers DEF Entries

LEMMA StaysBroken ==
  ASSUME TypeOK, Readable, ~AuditVerifies, ProgramStep
  PROVE  ~AuditVerifies'
<1> SUFFICES ASSUME AuditVerifies'
             PROVE  FALSE
  OBVIOUS
<1>1. Entries \in Seq(Entry)
  BY EntriesType
<1>2. PICK i \in 1..Len(Entries) : Entries[i].prev # Expected(Entries, i)
  BY DEF AuditVerifies, LinkedThrough
<1>3. lines \in Seq(Entry) /\ (tail = NoTail \/ tail \in Entry)
  BY SeqDef DEF TypeOK, Readable, Line, Fragment
<1>4. ~ UNCHANGED <<lines, tail>>
  <2>1. UNCHANGED <<lines, tail>> => Entries' = Entries
    BY DEF Entries
  <2>2. LinkedThrough(Entries', Len(Entries'))
    BY DEF AuditVerifies
  <2> QED BY <1>2, <2>1, <2>2 DEF LinkedThrough
\* The break at i outlives one more entry.
<1>5. ASSUME NEW e \in Entry, tail = NoTail, Entries' = Append(lines, e)
      PROVE  FALSE
  <2>1. Entries = lines
    BY <1>5, WholeLines
  <2>2. Len(Entries') = Len(lines) + 1
    BY <1>3, <1>5, AppendProperties
  <2>3. i \in 1..Len(Entries') /\ i \in 1..Len(lines)
    BY <1>2, <1>3, <2>1, <2>2, LenProperties
  <2>4. Entries'[i].prev = Expected(Entries', i)
    BY <2>3 DEF AuditVerifies, LinkedThrough
  <2> QED BY <1>2, <1>3, <1>5, <2>1, <2>3, <2>4, PrefixKept
<1>6. ASSUME NEW p \in Procs, op[p].kind = "append"
      PROVE  NewEntry(p) \in Entry
  BY <1>6 DEF TypeOK, NewEntry, Entry, Op, Idle
<1>7. ASSUME NEW p \in Procs, AppendLine(p)
      PROVE  FALSE
  <2>1. PICK line \in Glued(NewEntry(p)) : lines' = Append(lines, line)
    BY <1>7 DEF AppendLine
  <2>2. CASE tail = NoTail
    <3>1. line = NewEntry(p) /\ line \in Entry
      <4>1. Glued(NewEntry(p)) = {NewEntry(p)}
        BY <2>2, Markers DEF Glued
      <4> QED BY <1>6, <1>7, <2>1, <4>1 DEF AppendLine
    <3>2. Entries' = Append(lines, line)
      BY <1>7, <2>1, Markers DEF AppendLine, Entries
    <3> QED BY <1>5, <2>2, <3>1, <3>2
  <2>3. CASE tail \in Entry
    <3>1. line = Garbled
      BY <2>1, <2>3, Markers DEF Glued
    <3>2. Len(lines) + 1 \in 1..Len(lines') /\ lines'[Len(lines) + 1] = Garbled
      <4>1. lines \in Seq(Line) /\ Garbled \in Line
        BY DEF TypeOK, Line
      <4>2. Len(lines) \in Nat
        BY <4>1, LenProperties
      <4> QED BY <2>1, <3>1, <4>1, <4>2, AppendProperties
    <3> QED BY <3>2 DEF AuditVerifies, Readable
  <2> QED BY <1>3, <2>2, <2>3
<1>8. ASSUME NEW p \in Procs, TearAppend(p)
      PROVE  FALSE
  <2>1. tail' \in Partial(NewEntry(p)) /\ lines' = lines
    BY <1>8 DEF TearAppend
  <2>2. NewEntry(p) \in Entry
    BY <1>6, <1>8 DEF TearAppend
  <2>3. tail' \notin {Stub, Garbled}
    BY DEF AuditVerifies, Readable
  <2>4. tail' \in Entry
    <3>1. Partial(NewEntry(p)) \subseteq Fragment
      BY <2>2, PartialType DEF TypeOK
    <3>2. tail' # NoTail
      <4>1. CASE tail = NoTail
        BY <1>4, <2>1, <4>1
      <4>2. CASE tail \in Entry
        <5>1. [tail EXCEPT !.prev = Cut] \in Entry
          <6>1. Cut \in Digest
            BY DEF Cut, Digest
          <6> QED BY <4>2, <6>1 DEF Entry
        <5> QED BY <2>1, <4>2, <5>1, Markers DEF Partial
      <4> QED BY <1>3, <4>1, <4>2
    <3> QED BY <2>1, <2>3, <3>1, <3>2 DEF Fragment, Line
  <2>5. Entries' = Append(lines, tail')
    BY <2>1, <2>4 DEF Entries
  <2>6. CASE tail = NoTail
    BY <1>5, <2>4, <2>5, <2>6
  <2>7. CASE tail \in Entry
    <3>1. tail' = [tail EXCEPT !.prev = Cut]
      BY <2>1, <2>3, <2>7, Markers DEF Partial
    <3>2. tail'.prev = Cut
      BY <2>7, <3>1 DEF Entry
    <3>3. /\ Len(lines) \in Nat
          /\ Len(Entries') = Len(lines) + 1
          /\ Entries'[Len(lines) + 1] = tail'
      BY <1>3, <2>4, <2>5, AppendProperties, LenProperties
    <3>4. Cut = Expected(Entries', Len(lines) + 1)
      <4>1. Len(lines) + 1 \in 1..Len(Entries')
        BY <3>3
      <4> QED BY <3>2, <3>3, <4>1 DEF AuditVerifies, LinkedThrough
    <3>5. CASE Len(lines) = 0
      BY <3>4, <3>5, CutLinksNothing DEF Expected
    <3>6. CASE Len(lines) # 0
      <4>1. Len(lines) \in 1..Len(lines)
        BY <3>3, <3>6
      <4>2. Entries'[Len(lines)] = lines[Len(lines)] /\ lines[Len(lines)] \in Entry
        BY <1>3, <2>4, <2>5, <4>1, AppendProperties, ElementOfSeq
      <4>3. Expected(Entries', Len(lines) + 1) = EntryHash(lines[Len(lines)])
        BY <3>3, <3>6, <4>2 DEF Expected
      <4> QED BY <3>4, <4>2, <4>3, CutLinksNothing
    <3> QED BY <3>5, <3>6
  <2> QED BY <1>3, <2>6, <2>7
<1>9. ASSUME NEW p \in Procs,
             \/ \E e \in Events : ReadHead(p, e)
             \/ ReadForCheckpoint(p)
             \/ WriteCheckpoint(p)
             \/ TearCheckpoint(p)
             \/ Crash(p)
      PROVE  FALSE
  BY <1>4, <1>9 DEF ReadHead, ReadForCheckpoint, WriteCheckpoint, TearCheckpoint, Crash
<1> QED BY <1>7, <1>8, <1>9 DEF ProgramStep

\* No sequence of appends, checkpoints, torn writes and crashes makes a broken
\* log pass audit_verify.
THEOREM BrokenStaysBrokenCorrect == Spec => BrokenStaysBroken
<1>1. ASSUME TypeOK
      PROVE  [Readable /\ ~AuditVerifies /\ ProgramStep => ~AuditVerifies']_vars
  BY <1>1, StaysBroken
<1> QED BY <1>1, TypeCorrect, PTL DEF BrokenStaysBroken

\* Why appends that take turns keep the log whole: a pending one, and there is
\* only one, holds the digest of the entry that is still the last.
Serial ==
  ~raced /\ damage = 0 =>
    /\ AuditVerifies
    /\ tail = NoTail
    /\ \A p \in Procs : op[p].kind = "append" => op[p].head = CurrentHead
    /\ \A p, q \in Procs : op[p].kind = "append" /\ op[q].kind = "append" => p = q

LEMMA InitSerial == Init => Serial
<1> SUFFICES ASSUME Init
             PROVE  Serial
  OBVIOUS
<1>1. Entries = << >>
  BY WholeLines DEF Init
<1>2. AuditVerifies
  <2>1. Readable
    BY Markers DEF Init, Readable, NoTail, Stub, Garbled
  <2> QED BY <1>1, <2>1 DEF AuditVerifies, LinkedThrough
<1> QED BY <1>2 DEF Init, Serial, Idle

LEMMA StepSerial ==
  ASSUME TypeOK, Serial, [Next]_vars
  PROVE  Serial'
<1> SUFFICES ASSUME ~raced', damage' = 0
             PROVE  /\ AuditVerifies'
                    /\ tail' = NoTail
                    /\ \A p \in Procs : op'[p].kind = "append" => op'[p].head = CurrentHead'
                    /\ \A p, q \in Procs :
                         op'[p].kind = "append" /\ op'[q].kind = "append" => p = q
  BY DEF Serial
<1> DEFINE Others(p) == \A q \in Procs \ {p} : op'[q] = op[q]
<1>1. damage \in Nat /\ DOMAIN op = Procs
  BY AuditBounds DEF TypeOK
<1>2. Idle.kind # "append"
  BY DEF Idle
\* The log stays as it is, and nobody starts an append.
<1>3. ASSUME UNCHANGED <<lines, tail>>, ~raced, damage = 0,
             \A p \in Procs : op'[p].kind = "append" => op'[p] = op[p]
      PROVE  Serial'
  <2>1. Entries' = Entries
    BY <1>3 DEF Entries
  <2>2. CurrentHead' = CurrentHead
    BY <2>1 DEF CurrentHead
  <2>3. AuditVerifies'
    BY <1>3, <2>1 DEF Serial, AuditVerifies, Readable
  <2> QED BY <1>3, <2>2, <2>3 DEF Serial
<1>4. ASSUME NEW p \in Procs, NEW e \in Events, ReadHead(p, e)
      PROVE  Serial'
  <2>1. ~raced /\ ~AppendUnderWay /\ damage = 0
    BY <1>4 DEF ReadHead
  <2>2. \A q \in Procs : op[q].kind # "append"
    BY <2>1 DEF AppendUnderWay
  <2>3. op'[p].head = CurrentHead /\ Others(p)
    BY <1>1, <1>4 DEF ReadHead
  <2>4. UNCHANGED <<lines, tail>>
    BY <1>4 DEF ReadHead
  <2>5. Entries' = Entries
    BY <2>4 DEF Entries
  <2>6. CurrentHead' = CurrentHead
    BY <2>5 DEF CurrentHead
  <2>7. AuditVerifies' /\ tail' = NoTail
    BY <2>1, <2>4, <2>5 DEF Serial, AuditVerifies, Readable
  <2> QED BY <2>2, <2>3, <2>6, <2>7 DEF Serial
<1>5. ASSUME NEW p \in Procs, AppendLine(p)
      PROVE  Serial'
  <2>1. ~raced /\ damage = 0 /\ op[p].kind = "append"
    BY <1>5 DEF AppendLine
  <2>2. /\ AuditVerifies /\ tail = NoTail
        /\ op[p].head = CurrentHead
        /\ \A q \in Procs : op[q].kind = "append" => q = p
    BY <2>1 DEF Serial
  <2> DEFINE new == NewEntry(p)
  <2>3. new \in Entry /\ new.prev = CurrentHead
    BY <2>1, <2>2 DEF TypeOK, NewEntry, Entry, Op, Idle
  <2>4. Entries = lines /\ lines \in Seq(Entry) /\ Len(lines) \in Nat
    BY <2>2, WholeLines, EntriesType, LenProperties DEF AuditVerifies
  <2>5. lines' = Append(lines, new) /\ tail' = NoTail
    <3>1. Glued(new) = {new}
      BY <2>2, Markers DEF Glued
    <3> QED BY <1>5, <3>1 DEF AppendLine
  <2>6. Entries' = lines'
    BY <2>5, Markers DEF Entries
  <2> HIDE DEF new
  <2>7. lines' \in Seq(Entry) /\ Len(lines') = Len(lines) + 1 /\ lines'[Len(lines) + 1] = new
    BY <2>3, <2>4, <2>5, AppendProperties
  <2>8. Readable'
    <3>1. \A i \in 1..Len(lines') : lines'[i] # Garbled
      BY <2>7, ElementOfSeq, Markers
    <3> QED BY <2>5, <3>1, Markers DEF Readable
  <2>9. ASSUME NEW i \in 1..Len(lines')
        PROVE  lines'[i].prev = Expected(lines', i)
    <3>1. CASE i \in 1..Len(lines)
      <4>1. lines[i].prev = Expected(lines, i)
        BY <2>2, <2>4, <3>1 DEF AuditVerifies, LinkedThrough
      <4> QED BY <2>3, <2>4, <2>5, <3>1, <4>1, PrefixKept
    <3>2. CASE i = Len(lines) + 1
      <4>1. lines'[i].prev = CurrentHead
        BY <2>3, <2>7, <3>2
      <4>2. CASE lines = << >>
        <5>1. i = 1
          BY <3>2, <4>2
        <5> QED BY <2>4, <4>1, <4>2, <5>1 DEF CurrentHead, Expected
      <4>3. CASE lines # << >>
        <5>1. Len(lines) # 0
          BY <2>4, <4>3, EmptySeq
        <5>2. lines'[Len(lines)] = lines[Len(lines)]
          BY <2>3, <2>4, <2>5, <5>1, AppendProperties
        <5>3. Expected(lines', i) = EntryHash(lines[Len(lines)])
          BY <2>4, <3>2, <5>1, <5>2 DEF Expected
        <5> QED BY <2>4, <4>1, <4>3, <5>3 DEF CurrentHead
      <4> QED BY <4>2, <4>3
    <3> QED BY <2>4, <2>7, <3>1, <3>2
  <2>10. AuditVerifies'
    BY <2>6, <2>8, <2>9 DEF AuditVerifies, LinkedThrough
  <2>11. \A q \in Procs : op'[q].kind # "append"
    BY <1>1, <1>2, <1>5, <2>2 DEF AppendLine
  <2> QED BY <2>5, <2>10, <2>11 DEF Serial
<1>6. ASSUME NEW p \in Procs, TearAppend(p) \/ TearCheckpoint(p)
      PROVE  FALSE
  BY <1>1, <1>6 DEF TearAppend, TearCheckpoint
<1>7. ASSUME NEW p \in Procs, ReadForCheckpoint(p)
      PROVE  Serial'
  <2>1. op'[p].kind = "sign" /\ Others(p)
    BY <1>1, <1>7 DEF ReadForCheckpoint
  <2> QED BY <1>3, <1>7, <2>1 DEF ReadForCheckpoint
<1>8. ASSUME NEW p \in Procs, WriteCheckpoint(p) \/ Crash(p)
      PROVE  Serial'
  <2>1. op'[p] = Idle /\ Others(p)
    BY <1>1, <1>8 DEF WriteCheckpoint, Crash
  <2> QED BY <1>2, <1>3, <1>8, <2>1 DEF WriteCheckpoint, Crash
<1>9. ASSUME OutsideStep
      PROVE  FALSE
  BY <1>1, <1>9 DEF OutsideStep, EditEntry, RemoveEntry, SwapEntries, EditCheckpoint, Outside
<1>10. ASSUME UNCHANGED vars
       PROVE  Serial'
  <2>1. ~raced
    BY <1>10, Zenon DEF vars
  <2> QED BY <1>3, <1>10, <2>1 DEF vars
<1>11. Serial'
  BY <1>4, <1>5, <1>6, <1>7, <1>8, <1>9, <1>10 DEF Next, ProgramStep
<1> QED BY <1>11 DEF Serial

\* Appends by any number of processes that take turns keep audit_verify passing,
\* with checkpoints and crashes between them.
THEOREM SerialAppendsVerifyCorrect == Spec => []SerialAppendsVerify
<1>1. Serial => SerialAppendsVerify
  BY DEF Serial, SerialAppendsVerify
<1>2. Spec => []Serial
  BY InitSerial, StepSerial, TypeCorrect, PTL DEF Spec
<1> QED BY <1>1, <1>2, PTL
=============================================================================
