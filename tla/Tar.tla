--------------------------------- MODULE Tar ---------------------------------
(***************************************************************************)
(* The single-file form of a document, a USTAR archive: what tar_write and *)
(* tarWrite make of its members, what other programs and cut transfers     *)
(* make of that, and what the C++ library and the TypeScript engine read   *)
(* in it.  The C reader is in MicroReader.                                 *)
(*                                                                         *)
(* An archive is a sequence of blocks, of which the last may be cut short: *)
(* a header, a part of some content, or zeros.  A header stands for the    *)
(* fields the readers act on; sum says whether the checksum is right.      *)
(***************************************************************************)
EXTENDS Integers, Sequences, SequencesExt

CONSTANTS
  Block,     \* bytes of a block (512)
  Names,     \* member paths
  PathOrder, \* all of them, in byte order
  Contents,  \* what a member can hold
  Size,      \* Size[c]: its bytes
  Garbage,   \* bytes that are no content's
  Escaping,  \* paths that are absolute or contain ..
  Foreign    \* paths with a backslash or a drive letter, which are none on POSIX

Whole(n) == (n + Block - 1) \div Block   \* the blocks n bytes take

ASSUME TarConstants ==
  /\ Block \in Nat \ {0}
  /\ Size \in [Contents -> Nat] /\ Garbage \notin Contents
  /\ PathOrder \in Seq(Names)
  /\ Escaping \subseteq Names /\ Foreign \subseteq Names

\* There are names, each once in their order; and no bytes are one content.
ASSUME OrderConstants ==
  /\ Names # {} /\ ToSet(PathOrder) = Names
  /\ \A i, j \in DOMAIN PathOrder : PathOrder[i] = PathOrder[j] => i = j
  /\ \A c, d \in Contents : Size[c] = 0 /\ Size[d] = 0 => c = d

Kinds == {"file", "directory", "pax"}   \* typeflags '0' and NUL, '5', 'x' and 'g'

Headers == [kind : {"header"}, name : Names, size : Nat, type : Kinds, sum : BOOLEAN]
Parts   == [kind : {"data"}, of : Contents \union {Garbage}, part : Nat]
Zeros   == [kind : {"zero"}]
Zero    == [kind |-> "zero"]

Archives == {a \in [blocks : Seq(Headers \union Parts \union Zeros), bytes : Nat] :
               Len(a.blocks) = Whole(a.bytes)}

----------------------------------------------------------------------------
(* Writing. *)

Header(n, size, type) ==
  [kind |-> "header", name |-> n, size |-> size, type |-> type, sum |-> TRUE]

\* A member: its header, and its bytes padded to a whole block.
Member(n, c) ==
  <<Header(n, Size[c], "file")>>
    \o [i \in 1 .. Whole(Size[c]) |-> [kind |-> "data", of |-> c, part |-> i]]

Archive(blocks) == [blocks |-> blocks, bytes |-> Block * Len(blocks)]

\* pack: the members in the order of their paths, up to the k-th of all paths, then two zero blocks.
Written(members) ==
  LET first[k \in 0 .. Len(PathOrder)] ==
        IF k = 0 THEN << >>
        ELSE IF PathOrder[k] \in DOMAIN members
             THEN first[k - 1] \o Member(PathOrder[k], members[PathOrder[k]])
             ELSE first[k - 1]
  IN  first
Pack(members) == Archive(Written(members)[Len(PathOrder)] \o <<Zero, Zero>>)

----------------------------------------------------------------------------
(* What happens to an archive outside these programs. *)

\* A download or a copy that ends early.
Truncated(a, n) == [blocks |-> SubSeq(a.blocks, 1, Whole(n)), bytes |-> n]

\* tar -r: over the terminator, a further member and a new terminator.
Added(a, n, c) == Archive(SubSeq(a.blocks, 1, Len(a.blocks) - 2) \o Member(n, c) \o <<Zero, Zero>>)

\* An archive made by tar itself starts with the directory, or with a pax record.
Foreword(a, type) ==
  LET record == IF type = "pax" THEN <<[kind |-> "data", of |-> Garbage, part |-> 1]>> ELSE << >>
  IN  Archive(<<Header(PathOrder[1], Block * Len(record), type)>> \o record \o a.blocks)

\* A block that went bad: a header whose checksum fails, or bytes that are no content's.
Rotten(a, i) ==
  [a EXCEPT !.blocks[i] =
     IF a.blocks[i].kind = "data" THEN [kind |-> "data", of |-> Garbage, part |-> 0]
                                  ELSE [Header(PathOrder[1], 0, "file") EXCEPT !.sum = FALSE]]

----------------------------------------------------------------------------
(* Reading. *)

\* The content in the size bytes behind block p.
Value(a, p, size) ==
  LET is(c) == /\ Size[c] = size
               /\ \A i \in 1 .. Whole(size) :
                    a.blocks[p + i] = [kind |-> "data", of |-> c, part |-> i]
  IN  IF \E c \in Contents : is(c) THEN CHOOSE c \in Contents : is(c) ELSE Garbage

Refused == [ok |-> FALSE, members |-> << >>]

\* tar_read: the members in archive order, here from any block on.  A zero block or the end of
\* the bytes ends it, with or without a terminator; a size is held against the bytes only for a
\* regular file.
TarFrom(a) ==
  LET read[p \in Nat] ==
        IF (p + 1) * Block > a.bytes \/ a.blocks[p + 1] = Zero
        THEN [ok |-> TRUE, members |-> << >>]
        ELSE LET h    == a.blocks[p + 1]
                 rest == read[p + 1 + Whole(h.size)]
             IN  IF h.kind # "header" \/ ~h.sum THEN Refused
                 ELSE IF h.type # "file" THEN rest
                 ELSE IF (p + 1) * Block + h.size > a.bytes \/ ~rest.ok THEN Refused
                 ELSE [ok |-> TRUE, members |->
                         <<[name |-> h.name, value |-> Value(a, p + 1, h.size)]>> \o rest.members]
  IN  read
TarRead(a) == TarFrom(a)[0]

NamesIn(ms) == {ms[i].name : i \in DOMAIN ms}

\* Of two members of one name, map.emplace keeps the first, an overwrite the last.
FirstOf(ms) ==
  [n \in NamesIn(ms) |-> ms[CHOOSE i \in DOMAIN ms : ms[i].name = n /\ \A j \in 1 .. i - 1 : ms[j].name # n].value]
LastOf(ms) ==
  [n \in NamesIn(ms) |-> ms[CHOOSE i \in DOMAIN ms : ms[i].name = n /\ \A j \in i + 1 .. Len(ms) : ms[j].name # n].value]

Opened(r, members) == IF r.ok THEN [ok |-> TRUE, members |-> members] ELSE Refused

\* TarContainer::from_bytes: verify, validate and render of the command line, and Studio's
\* baseline for its diff.
CppOpen(a) == LET r == TarRead(a) IN Opened(r, FirstOf(r.members))

\* unpack_archive: mcdf unpack, and every archive Studio opens.
CppUnpack(a) ==
  LET r == TarRead(a)
  IN  IF NamesIn(r.members) \intersect Escaping # {} THEN Refused
                                                      ELSE Opened(r, LastOf(r.members))

\* MemoryContainer.fromTar, which writes each member and refuses an unsafe path.
TsOpen(a) ==
  LET r == TarRead(a)
  IN  IF NamesIn(r.members) \intersect (Escaping \union Foreign) # {} THEN Refused
                                                                       ELSE Opened(r, LastOf(r.members))
=============================================================================
