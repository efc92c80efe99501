----------------------------- MODULE MicroReader -----------------------------
(***************************************************************************)
(* The C reader for small devices (micro/src/index.c, ustar.c): it walks   *)
(* an archive once, header by header, and keeps an index in an arena the   *)
(* caller owns; members are read afterwards through a cursor with a small  *)
(* window, or at an offset.                                                *)
(*                                                                         *)
(*   0         HeaderBytes      head          tail            room         *)
(*   | reader  | entry | entry  |   free      | name | name  |             *)
(*                                                                         *)
(* Entries grow from the front, names from the back.  Offsets in the arena *)
(* are from its aligned base, of which skew bytes were lost to alignment.  *)
(* Every step that asks the source for bytes records what it asked for.    *)
(***************************************************************************)
EXTENDS Tar

CONSTANTS
  NameBytes,   \* NameBytes[n]: bytes of a path, without its NUL
  ReaderBytes, \* sizeof(struct mcdf_micro_reader)
  EntryBytes,  \* sizeof(struct mm_entry)
  Align,       \* MM_ALIGN
  Overhead,    \* MCDF_MICRO_ARENA_OVERHEAD
  EntrySize,   \* MCDF_MICRO_ENTRY_SIZE
  Window,      \* MM_WINDOW
  Rooms,       \* bound: the arenas a caller offers, in bytes
  Spans        \* bound: the offsets and lengths a caller asks for

Aligned(n) == IF n % Align = 0 THEN n ELSE n + (Align - (n % Align))
HeaderBytes == Aligned(ReaderBytes)

\* What the build asserts of the published constants.
ASSUME MicroConstants ==
  /\ NameBytes \in [Names -> Nat] /\ Rooms \subseteq Nat /\ Spans \subseteq Nat
  /\ ReaderBytes \in Nat /\ EntryBytes \in Nat \ {0}
  /\ Align \in Nat \ {0} /\ Window \in Nat \ {0}
  /\ Overhead \in Nat /\ EntrySize \in Nat
  /\ EntryBytes <= EntrySize
  /\ ReaderBytes + 2 * Align <= Overhead

VARIABLES
  archive, \* the bytes of the source
  reader,  \* the reader: status, index and arena
  cursor,  \* the cursor of the call under way
  asked    \* what the call under way last asked the source for

microVars == <<archive, reader, cursor, asked>>

Entries == [name : Names, from : Nat, size : Nat, nameAt : Nat]

Closed == [status |-> "closed", entries |-> << >>, head |-> 0, tail |-> 0,
           room |-> 0, offered |-> 0, next |-> 0]
Idle   == [on |-> FALSE, entry |-> 0, pos |-> 0, have |-> 0, at |-> 0, start |-> 0, given |-> 0]
Nothing == [from |-> 0, len |-> 0, within |-> 0]

\* A request to the source; within is the entry it is for, 0 for the walk of the archive.
Ask(from, len, entry) == asked' = [from |-> from, len |-> len, within |-> entry]

----------------------------------------------------------------------------
(* mcdf_micro_open. *)

\* It returns without a reader.
Ends(status, offered) == reader' = [Closed EXCEPT !.status = status, !.offered = offered]

\* A whole number of blocks, at least the terminator's two, and an arena that holds the
\* reader itself; skew is what aligning its base costs.
Open(offered, skew) ==
  /\ reader.status = "closed"
  /\ IF archive.bytes < 2 * Block \/ archive.bytes % Block # 0 THEN Ends("E_PARSE", offered)
     ELSE IF offered <= skew \/ offered - skew < HeaderBytes THEN Ends("E_ARENA", offered)
     ELSE reader' = [Closed EXCEPT !.status = "opening", !.offered = offered, !.room = offered - skew,
                                   !.head = HeaderBytes, !.tail = offered - skew]
  /\ UNCHANGED <<archive, cursor, asked>>

\* The walk is at a block that is there; the header is read whole.
AtBlock ==
  /\ reader.status = "opening"
  /\ (reader.next + 1) * Block <= archive.bytes
  /\ Ask(reader.next * Block, Block, 0)

Here     == archive.blocks[reader.next + 1]
DataFrom == (reader.next + 1) * Block

\* Mutant: the checksum is not looked at.
HeaderUnsummed == Here.kind = "header"

\* mm_header_parse accepts it, and its size is inside what remains.
HeaderGood == Here.kind = "header" /\ Here.sum
SizeFits   == Here.size <= archive.bytes - DataFrom

\* Mutants: the NUL is forgotten; names lie on aligned offsets; the entry alone has to fit.
NeedTailBare    == NameBytes[Here.name]
NeedTailAligned == Aligned(NameBytes[Here.name] + 1)
FitsEntry       == reader.head + EntryBytes <= reader.tail

\* mm_push: room for the entry in front and for the name with its NUL behind.
NeedTail == NameBytes[Here.name] + 1
Fits == reader.tail >= NeedTail /\ reader.head + EntryBytes <= reader.tail - NeedTail

Past == reader.next + 1 + Whole(Here.size)

IndexMember ==
  /\ AtBlock /\ Here # Zero /\ HeaderGood /\ SizeFits /\ Here.type = "file" /\ Fits
  /\ reader' = [reader EXCEPT
       !.entries = Append(@, [name |-> Here.name, from |-> DataFrom, size |-> Here.size,
                              nameAt |-> reader.tail - NeedTail]),
       !.head = @ + EntryBytes, !.tail = @ - NeedTail, !.next = Past]
  /\ UNCHANGED <<archive, cursor>>

\* Directories, links and extension records are passed over.
IndexSkip ==
  /\ AtBlock /\ Here # Zero /\ HeaderGood /\ SizeFits /\ Here.type # "file"
  /\ reader' = [reader EXCEPT !.next = Past]
  /\ UNCHANGED <<archive, cursor>>

\* The index does not fit: nothing is handed out.
IndexFull ==
  /\ AtBlock /\ Here # Zero /\ HeaderGood /\ SizeFits /\ Here.type = "file" /\ ~Fits
  /\ Ends("E_ARENA", reader.offered)
  /\ UNCHANGED <<archive, cursor>>

\* The terminator: the reader is handed out.
IndexDone ==
  /\ AtBlock /\ Here = Zero
  /\ reader' = [reader EXCEPT !.status = "open"]
  /\ UNCHANGED <<archive, cursor>>

IndexRefuses ==
  /\ AtBlock /\ Here # Zero /\ ~(HeaderGood /\ SizeFits)
  /\ Ends("E_PARSE", reader.offered)
  /\ UNCHANGED <<archive, cursor>>

IndexFails ==
  /\ AtBlock
  /\ Ends("E_IO", reader.offered)
  /\ UNCHANGED <<archive, cursor>>

\* The bytes ran out before a terminator.
IndexRunsOut ==
  /\ reader.status = "opening" /\ (reader.next + 1) * Block > archive.bytes
  /\ Ends("E_PARSE", reader.offered)
  /\ UNCHANGED <<archive, cursor, asked>>

----------------------------------------------------------------------------
(* Reading members.  A call that walks one holds the cursor until it ends. *)

Usable == reader.status = "open" /\ ~cursor.on

\* mm_find: the first entry of a name.
Found(n) == CHOOSE i \in DOMAIN reader.entries :
              reader.entries[i].name = n /\ \A j \in 1 .. i - 1 : reader.entries[j].name # n
Indexed  == {reader.entries[i].name : i \in DOMAIN reader.entries}

CursorOpen(n) ==
  /\ Usable
  /\ cursor' = [Idle EXCEPT !.on = TRUE, !.entry = Found(n)]
  /\ asked' = Nothing
  /\ UNCHANGED <<archive, reader>>

\* Mutant: a whole window at the end of a member, too.
WantWindow == Window

Of   == reader.entries[cursor.entry]
Want == IF Of.size - cursor.pos < Window THEN Of.size - cursor.pos ELSE Window

\* mm_cursor_next with bytes left in the window ...
CursorNext ==
  /\ cursor.on /\ cursor.pos < Of.size /\ cursor.at < cursor.have
  /\ cursor' = [cursor EXCEPT !.given = cursor.start + cursor.at, !.at = @ + 1, !.pos = @ + 1]
  /\ UNCHANGED <<archive, reader, asked>>

\* ... and with none: the window is filled from where the cursor stands.
CursorFill ==
  /\ cursor.on /\ cursor.pos < Of.size /\ cursor.at >= cursor.have
  /\ Ask(Of.from + cursor.pos, Want, cursor.entry)
  /\ cursor' = [cursor EXCEPT !.start = Of.from + cursor.pos, !.have = Want, !.at = 1,
                              !.given = Of.from + cursor.pos, !.pos = @ + 1]
  /\ UNCHANGED <<archive, reader>>

\* The call returns: at the end of the member, where it found what it wanted, or E_IO.
CursorDone ==
  /\ cursor.on
  /\ cursor' = Idle /\ asked' = Nothing
  /\ UNCHANGED <<archive, reader>>

\* mcdf_micro_read_at, which mcdf_micro_hash_member calls window by window; E_RANGE asks
\* for nothing.
ReadAt(n, off, len) ==
  /\ Usable
  /\ LET e == reader.entries[Found(n)]
     IN  /\ off <= e.size /\ len <= e.size - off /\ len # 0
         /\ Ask(e.from + off, len, Found(n))
  /\ UNCHANGED <<archive, reader, cursor>>

Close ==
  /\ Usable
  /\ reader' = Closed /\ asked' = Nothing
  /\ UNCHANGED <<archive, cursor>>

----------------------------------------------------------------------------
MicroInit == reader = Closed /\ cursor = Idle /\ asked = Nothing

MicroNext ==
  \/ \E offered \in Rooms, skew \in 0 .. Align - 1 : Open(offered, skew)
  \/ IndexMember \/ IndexSkip \/ IndexFull \/ IndexDone
  \/ IndexRefuses \/ IndexFails \/ IndexRunsOut
  \/ \E n \in Indexed : CursorOpen(n)
  \/ CursorNext \/ CursorFill \/ CursorDone
  \/ \E n \in Indexed, off, len \in Spans : ReadAt(n, off, len)
  \/ Close

MicroSpec == MicroInit /\ archive \in Archives /\ [][MicroNext]_microVars

----------------------------------------------------------------------------
Statuses == {"closed", "opening", "open", "E_PARSE", "E_ARENA", "E_IO"}

MicroTypeOK ==
  /\ archive \in Archives
  /\ reader \in [status : Statuses, entries : Seq(Entries), head : Nat, tail : Nat,
                 room : Nat, offered : Nat, next : Nat]
  /\ cursor \in [on : BOOLEAN, entry : Nat, pos : Nat, have : Nat, at : Nat,
                 start : Nat, given : Nat]
  /\ asked \in [from : Nat, len : Nat, within : Nat]

\* The entry table and the names stay inside the arena and out of each other's way: the
\* table ends where head says, below tail, and each name with its NUL ends where the one
\* before it begins (mm_push, index.c).
EndOfName(i) == IF i = 1 THEN reader.room ELSE reader.entries[i - 1].nameAt
ArenaLayout ==
  reader.status \in {"opening", "open"} =>
    /\ reader.head = HeaderBytes + Len(reader.entries) * EntryBytes
    /\ reader.head <= reader.tail
    /\ reader.tail = EndOfName(Len(reader.entries) + 1)
    /\ \A i \in DOMAIN reader.entries :
         reader.entries[i].nameAt + NameBytes[reader.entries[i].name] + 1 = EndOfName(i)

\* An arena of the published size always holds the index, wherever it lies and however the
\* names are spread: MCDF_MICRO_ARENA_SIZE of the archive's members and their paths.
Cost(b) == IF b.kind = "header" /\ b.type = "file" THEN EntrySize + NameBytes[b.name] + 1 ELSE 0
CostTo[i \in 0 .. Len(archive.blocks)] ==
  IF i = 0 THEN 0 ELSE CostTo[i - 1] + Cost(archive.blocks[i])
Published     == Overhead + CostTo[Len(archive.blocks)]
ArenaSuffices == reader.status = "E_ARENA" => reader.offered < Published

\* Every request is for bytes the source has, and one made for a member for bytes of that
\* member, whatever sizes the headers claim; and what a cursor hands out, across every refill
\* of its window, is that member's bytes one after the other, each of them one that was read
\* (index.c: the check of h.size, read_at, mm_cursor_next).
ReadsInside ==
  /\ asked.from + asked.len <= archive.bytes
  /\ asked.within # 0 /\ reader.status = "open" =>
       /\ asked.within \in DOMAIN reader.entries
       /\ LET e == reader.entries[asked.within]
          IN  e.from <= asked.from /\ asked.from + asked.len <= e.from + e.size
  /\ cursor.on /\ cursor.pos > 0 =>
       /\ cursor.given = Of.from + cursor.pos - 1
       /\ asked.from <= cursor.given /\ cursor.given < asked.from + asked.len

=============================================================================
