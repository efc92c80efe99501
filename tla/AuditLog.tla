------------------------------ MODULE AuditLog ------------------------------
(***************************************************************************)
(* audit.log and audit.checkpoint of one container folder, and the         *)
(* programs that append to, checkpoint and verify them                     *)
(* (src/src/core/audit_ops.cpp, src/src/serialize/audit_log.cpp).          *)
(*                                                                         *)
(* Several processes work on the same folder: the CLI and Studio do not    *)
(* lock it.  An append reads the log to find the head, then appends one    *)
(* line; another process may write between the two, and a process may die  *)
(* at any point, with its line half written.                               *)
(*                                                                         *)
(* Hashes are ideal.  A digest identifies the line it was taken of, and    *)
(* that line holds its predecessor's digest, so a digest stands for the    *)
(* sequence of events of the chain that leads to it: the genesis digest    *)
(* (64 zeros) is the empty sequence.                                       *)
(***************************************************************************)
EXTENDS Naturals, Sequences

CONSTANTS
  Procs,      \* processes that have the folder open
  Events,     \* what an entry says: its timestamp, action and actor
  MaxLines,   \* bound: lines an append may take the log to
  MaxDamage   \* bound: torn writes and outside edits of the two files

ASSUME CutIsNoEvent == "cut" \notin Events

ASSUME AuditBounds == MaxLines \in Nat /\ MaxDamage \in Nat

VARIABLES
  lines,      \* the newline-terminated lines of audit.log
  tail,       \* what follows the last newline
  checkpoint, \* audit.checkpoint
  op,         \* what each process is in the middle of
  witness,    \* history: what the log held, if it verified, when the checkpoint's
              \* head was read
  raced,      \* history: some append began while another was under way
  damage      \* history: torn writes and outside edits so far

vars == <<lines, tail, checkpoint, op, witness, raced, damage>>

-----------------------------------------------------------------------------
(* Entries, digests and the parsed log.                                    *)

Genesis == << >>
Cut     == <<"cut">>   \* a prev_hash with characters missing or added: nobody's digest
Digest  == Seq(Events \union {"cut"})
Entry   == [event : Events, prev : Digest]

EntryHash(e) == Append(e.prev, e.event)

Garbled      == [garbled |-> TRUE]   \* a line that is not four fields
NoTail       == [ends |-> "newline"]
Stub         == [ends |-> "stub"]    \* a line begun, short of four fields
NoCheckpoint == [absent |-> TRUE]
Torn         == [torn |-> TRUE]      \* a checkpoint that is not JSON
Idle         == [kind |-> "idle"]

Line == Entry \union {Garbled}
Fragment == Line \union {NoTail, Stub}

Checkpoint == [head : Digest, signed : Digest]

\* parse_audit_log fails as a whole on one malformed line.
Readable == tail \notin {Stub, Garbled} /\ \A i \in 1..Len(lines) : lines[i] # Garbled

\* A last entry without its newline is parsed like any other.
Entries == IF tail \in Entry THEN Append(lines, tail) ELSE lines

\* Mutant: the first entry is taken for the last.
FirstHead == IF Entries = << >> THEN Genesis ELSE EntryHash(Entries[1])

CurrentHead ==
  IF Entries = << >> THEN Genesis ELSE EntryHash(Entries[Len(Entries)])

\* The prev_hash the walk expects of entry i.
Expected(es, i) == IF i = 1 THEN Genesis ELSE EntryHash(es[i - 1])

\* Mutant: only the last link is looked at.
LastLinked(es, n) == n > 0 => es[n].prev = Expected(es, n)

\* Mutant: the first entry's prev_hash is not compared with genesis.
LinkedFromSecond(es, n) == \A i \in 2..n : es[i].prev = Expected(es, i)

LinkedThrough(es, n) == \A i \in 1..n : es[i].prev = Expected(es, i)

AuditVerifies == Readable /\ LinkedThrough(Entries, Len(Entries))

\* Mutant: the committed entry is there, whatever precedes it.
HeadPresent(head) ==
  head = Genesis \/ \E k \in 1..Len(Entries) : EntryHash(Entries[k]) = head

\* The entry the checkpoint committed to is reached along an intact chain.
HeadIntact(head) ==
  \/ head = Genesis
  \/ \E k \in 1..Len(Entries) :
       /\ LinkedThrough(Entries, k)
       /\ EntryHash(Entries[k]) = head

CheckpointValid ==
  /\ checkpoint \in Checkpoint
  /\ Readable
  /\ checkpoint.signed = checkpoint.head
  /\ HeadIntact(checkpoint.head)

EventsOf(es) == [i \in 1..Len(es) |-> es[i].event]

-----------------------------------------------------------------------------
(* The programs.                                                           *)

Init ==
  /\ lines = << >>
  /\ tail = NoTail
  /\ checkpoint = NoCheckpoint
  /\ op = [p \in Procs |-> Idle]
  /\ witness = [events |-> << >>, intact |-> TRUE]
  /\ raced = FALSE
  /\ damage = 0

AppendUnderWay == \E q \in Procs : op[q].kind = "append"

\* audit_append, first half: a log that does not parse refuses the append.
ReadHead(p, e) ==
  /\ op[p] = Idle
  /\ Readable
  /\ op' = [op EXCEPT ![p] = [kind |-> "append", event |-> e, head |-> CurrentHead]]
  /\ raced' = (raced \/ AppendUnderWay)
  /\ UNCHANGED <<lines, tail, checkpoint, witness, damage>>

\* What the new line becomes when it is written after what is there: a line of
\* its own, or glued to an unterminated one.  A whole entry glued to another
\* has seven fields; a stub glued to one may still come out as four.
Glued(entry) ==
  CASE tail = NoTail -> {entry}
    [] tail = Stub   -> {Garbled} \union {[entry EXCEPT !.event = e] : e \in Events}
    [] OTHER         -> {Garbled}

NewEntry(p) == [event |-> op[p].event, prev |-> op[p].head]

\* audit_append, second half: DirectoryContainer::append.
AppendLine(p) ==
  /\ op[p].kind = "append"
  /\ Len(lines) < MaxLines
  /\ \E line \in Glued(NewEntry(p)) : lines' = Append(lines, line)
  /\ tail' = NoTail
  /\ op' = [op EXCEPT ![p] = Idle]
  /\ UNCHANGED <<checkpoint, witness, raced, damage>>

\* What follows the last newline when only part of the new line is written: it
\* may stop short of a field, within the hash, or before the newline.
Partial(entry) ==
  CASE tail = NoTail   -> {Stub, [entry EXCEPT !.prev = Cut], entry}
    [] tail = Stub     -> {Stub, Garbled} \union [event : Events, prev : {Cut, entry.prev}]
    [] tail \in Entry  -> {Garbled, [tail EXCEPT !.prev = Cut]}
    [] tail = Garbled  -> {Garbled}

\* The process or the machine stops with the line partly on disk.
TearAppend(p) ==
  /\ op[p].kind = "append"
  /\ Len(lines) < MaxLines
  /\ damage < MaxDamage
  /\ tail' \in Partial(NewEntry(p))
  /\ damage' = damage + 1
  /\ op' = [op EXCEPT ![p] = Idle]
  /\ UNCHANGED <<lines, checkpoint, witness, raced>>

\* audit_checkpoint, first half.  The chain itself is not verified here.
ReadForCheckpoint(p) ==
  /\ op[p] = Idle
  /\ Readable
  /\ op' = [op EXCEPT ![p] = [kind   |-> "sign",
                              head   |-> CurrentHead,
                              events |-> IF AuditVerifies THEN EventsOf(Entries) ELSE << >>,
                              intact |-> AuditVerifies]]
  /\ UNCHANGED <<lines, tail, checkpoint, witness, raced, damage>>

\* audit_checkpoint, second half: sign the head and write {head, signature}.
WriteCheckpoint(p) ==
  /\ op[p].kind = "sign"
  /\ checkpoint' = [head |-> op[p].head, signed |-> op[p].head]
  /\ witness' = [events |-> op[p].events, intact |-> op[p].intact]
  /\ op' = [op EXCEPT ![p] = Idle]
  /\ UNCHANGED <<lines, tail, raced, damage>>

\* The file is truncated before it is written.
TearCheckpoint(p) ==
  /\ op[p].kind = "sign"
  /\ damage < MaxDamage
  /\ checkpoint' = Torn
  /\ damage' = damage + 1
  /\ op' = [op EXCEPT ![p] = Idle]
  /\ UNCHANGED <<lines, tail, witness, raced>>

Crash(p) ==
  /\ op[p] # Idle
  /\ op' = [op EXCEPT ![p] = Idle]
  /\ UNCHANGED <<lines, tail, checkpoint, witness, raced, damage>>

-----------------------------------------------------------------------------
(* Changes made to the files by something other than these programs: what  *)
(* the chain and the checkpoint are there to show.                         *)

Outside ==
  /\ damage < MaxDamage
  /\ damage' = damage + 1
  /\ UNCHANGED <<tail, op, witness, raced>>

HeadsInLog ==
  {Genesis} \union {EntryHash(lines[i]) : i \in {k \in 1..Len(lines) : lines[k] \in Entry}}

EditEntry(i, e, head) ==
  /\ Outside
  /\ lines' = [lines EXCEPT ![i] = [event |-> e, prev |-> head]]
  /\ UNCHANGED checkpoint

RemoveEntry(i) ==
  /\ Outside
  /\ lines' = [k \in 1..(Len(lines) - 1) |-> IF k < i THEN lines[k] ELSE lines[k + 1]]
  /\ UNCHANGED checkpoint

SwapEntries(i, j) ==
  /\ Outside
  /\ lines' = [lines EXCEPT ![i] = lines[j], ![j] = lines[i]]
  /\ UNCHANGED checkpoint

\* The recorded head is rewritten; the signature over the old one stays.
EditCheckpoint ==
  /\ Outside
  /\ checkpoint \in Checkpoint
  /\ \E head \in HeadsInLog : checkpoint' = [checkpoint EXCEPT !.head = head]
  /\ UNCHANGED lines

-----------------------------------------------------------------------------
ProgramStep ==
  \E p \in Procs :
    \/ \E e \in Events : ReadHead(p, e)
    \/ AppendLine(p)
    \/ TearAppend(p)
    \/ ReadForCheckpoint(p)
    \/ WriteCheckpoint(p)
    \/ TearCheckpoint(p)
    \/ Crash(p)

OutsideStep ==
  \/ \E i \in 1..Len(lines), e \in Events, head \in HeadsInLog : EditEntry(i, e, head)
  \/ \E i \in 1..Len(lines) : RemoveEntry(i)
  \/ \E i, j \in 1..Len(lines) : i < j /\ SwapEntries(i, j)
  \/ EditCheckpoint

Next == ProgramStep \/ OutsideStep

Spec == Init /\ [][Next]_vars

-----------------------------------------------------------------------------
Op ==
  {Idle} \union [kind : {"append"}, event : Events, head : Digest]
         \union [kind : {"sign"}, head : Digest, events : Seq(Events), intact : BOOLEAN]

\* Every line, tail, checkpoint and pending operation is of its kind.
TypeOK ==
  /\ lines \in Seq(Line)
  /\ tail \in Fragment
  /\ checkpoint \in Checkpoint \union {NoCheckpoint, Torn}
  /\ op \in [Procs -> Op]
  /\ witness \in [events : Seq(Events), intact : BOOLEAN]
  /\ raced \in BOOLEAN
  /\ damage \in 0..MaxDamage

\* audit_verify_checkpoint reports VALID only over the history the signer saw:
\* if the chain verified when its head was signed then, whatever was done to
\* the files since, the log still begins with the very events it held then.
CheckpointCommits ==
  CheckpointValid /\ witness.intact =>
    /\ Len(witness.events) <= Len(Entries)
    /\ \A i \in 1..Len(witness.events) : Entries[i].event = witness.events[i]

\* audit_append keeps audit_verify passing as long as appends do not overlap
\* and the files are left alone: checkpoints, crashes before the write and
\* any number of processes taking turns do not matter.
SerialAppendsVerify == ~raced /\ damage = 0 => AuditVerifies

\* A broken chain cannot be mended, or hidden, by using the programs: no
\* append or checkpoint makes audit_verify pass again.
BrokenStaysBroken ==
  [][Readable /\ ~AuditVerifies /\ ProgramStep => ~AuditVerifies']_vars

\* The last line answers for every line before it: an outside change that
\* leaves the last entry as it was and anything else different is caught by
\* audit_verify, whatever was edited, removed or moved.
InnerChangeBreaks ==
  [][/\ AuditVerifies /\ AuditVerifies' /\ OutsideStep
     /\ Entries # << >> /\ Entries' # << >>
     /\ Entries[Len(Entries)] = Entries'[Len(Entries')]
     => Entries' = Entries]_vars
=============================================================================
