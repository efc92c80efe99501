--------------------------- MODULE Readers_proofs ---------------------------
(***************************************************************************)
(* What modules MicroReader and Readers guarantee: the C reader on any     *)
(* archive, with any arena and any sizes of a block, an entry and a        *)
(* window; the three implementations of the ladder on any container; and   *)
(* every reader of every document, whatever has become of its archive.     *)
(***************************************************************************)
EXTENDS Readers, FiniteSetTheorems, SequenceTheorems, NaturalsInduction, WellFoundedInduction, TLAPS

----------------------------------------------------------------------------
(* Arithmetic. *)

LEMMA NextBlock ==
  ASSUME NEW n \in Nat, NEW b \in Nat
  PROVE  n * b \in Nat /\ (n + 1) * b \in Nat /\ (n + 1) * b = n * b + b
OBVIOUS

\* What is a whole number of blocks into n bytes is that far into the blocks of n bytes.
LEMMA WholeCovers ==
  ASSUME NEW n \in Nat, NEW k \in Nat, k * Block <= n
  PROVE  Whole(n) \in Nat /\ k <= Whole(n)
<1> DEFINE q == Whole(n)
<1>1. q \in Int /\ (q + 1) * Block > n + Block - 1 /\ q * Block <= n + Block - 1
  BY TarConstants DEF Whole
<1> HIDE DEF q
<1>2. (q + 1) * Block = q * Block + Block
  BY <1>1, TarConstants
<1>3. q * Block > n - 1
  BY <1>1, <1>2, TarConstants
<1>4. k <= q
  <2>1. SUFFICES ASSUME q + 1 <= k
                 PROVE  FALSE
    BY <1>1
  <2>2. (q + 1) * Block <= k * Block
    BY <2>1, <1>1, TarConstants
  <2> QED BY <1>1, <2>2, <1>2, <1>3, TarConstants
<1>5. q \in Nat
  BY <1>1, <1>4
<1> QED BY <1>4, <1>5 DEF q

LEMMA WholeType ==
  ASSUME NEW n \in Nat
  PROVE  Whole(n) \in Nat
<1>1. 0 * Block <= n
  BY TarConstants
<1> QED BY <1>1, WholeCovers

LEMMA HeaderBytesType == HeaderBytes \in Nat
BY MicroConstants DEF HeaderBytes, Aligned

LEMMA OneMore ==
  ASSUME NEW n \in Nat
  PROVE  HeaderBytes + (n + 1) * EntryBytes = HeaderBytes + n * EntryBytes + EntryBytes
BY HeaderBytesType, MicroConstants

----------------------------------------------------------------------------
(* What the walk finds at a block, and mm_find in the index. *)

LEMMA HereType ==
  ASSUME MicroTypeOK, AtBlock, HeaderGood
  PROVE  Here \in Headers /\ Here.name \in Names /\ Here.size \in Nat
<1>1. reader.next \in Nat /\ archive.bytes \in Nat
  BY DEF MicroTypeOK, Archives
<1>2. reader.next + 1 <= Whole(archive.bytes)
  BY <1>1, WholeCovers DEF AtBlock
<1>3. /\ archive.blocks \in Seq(Headers \union Parts \union Zeros)
      /\ Len(archive.blocks) = Whole(archive.bytes)
  BY DEF MicroTypeOK, Archives
<1>4. reader.next + 1 \in 1 .. Len(archive.blocks)
  BY <1>1, <1>2, <1>3
<1>5. Here \in Headers \union Parts \union Zeros
  BY <1>3, <1>4, ElementOfSeq DEF Here
<1>6. Here \in Headers
  BY <1>5 DEF HeaderGood, Headers, Parts, Zeros
<1> QED BY <1>6 DEF Headers

Below == {pair \in Nat \X Nat : pair[1] < pair[2]}

LEMMA BelowWellFounded == IsWellFoundedOn(Below, Nat)
BY NatLessThanWellFounded DEF OpToRel, Below

\* Where there is one there is a first, which CHOOSE finds.
LEMMA LeastNat ==
  ASSUME NEW T, T \subseteq Nat, T # {}
  PROVE  \E x \in T : \A y \in T : x <= y
<1>1. \E x \in T : \A y \in T : ~(<<y, x>> \in Below)
  BY BelowWellFounded, WFMin, Zenon
<1>2. PICK x \in T : \A y \in T : ~(<<y, x>> \in Below)
  BY <1>1
<1>3. \A y \in T : ~(y < x)
  BY <1>2 DEF Below
<1> QED BY <1>3

LEMMA FoundInIndex ==
  ASSUME MicroTypeOK, NEW n \in Indexed
  PROVE  Found(n) \in DOMAIN reader.entries
<1> DEFINE Named == {i \in DOMAIN reader.entries : reader.entries[i].name = n}
<1>1. DOMAIN reader.entries = 1 .. Len(reader.entries) /\ Len(reader.entries) \in Nat
  BY LenProperties DEF MicroTypeOK
<1>2. Named # {} /\ Named \subseteq Nat
  BY <1>1 DEF Indexed
<1>3. PICK i \in Named : \A j \in Named : i <= j
  <2> HIDE DEF Named
  <2> QED BY <1>2, LeastNat
<1>4. \A j \in 1 .. i - 1 : reader.entries[j].name # n
  BY <1>1, <1>3
<1> QED BY <1>1, <1>3, <1>4 DEF Found

----------------------------------------------------------------------------
(* Types. *)

ReaderType == [status : Statuses, entries : Seq(Entries), head : Nat, tail : Nat,
               room : Nat, offered : Nat, next : Nat]
CursorType == [on : BOOLEAN, entry : Nat, pos : Nat, have : Nat, at : Nat,
               start : Nat, given : Nat]
AskedType  == [from : Nat, len : Nat, within : Nat]

TypesAfter == archive' = archive /\ reader' \in ReaderType /\ cursor' \in CursorType
              /\ asked' \in AskedType

\* The fields a step changes keep their types.
LEMMA ReaderEnds ==
  ASSUME NEW r \in ReaderType, NEW status \in Statuses, NEW offered \in Nat
  PROVE  [r EXCEPT !.status = status, !.offered = offered] \in ReaderType
BY DEF ReaderType

LEMMA ReaderOpens ==
  ASSUME NEW r \in ReaderType, NEW status \in Statuses, NEW offered \in Nat, NEW room \in Nat,
         NEW head \in Nat, NEW tail \in Nat
  PROVE  [r EXCEPT !.status = status, !.offered = offered, !.room = room,
                   !.head = head, !.tail = tail] \in ReaderType
BY DEF ReaderType

LEMMA ReaderTakes ==
  ASSUME NEW r \in ReaderType, NEW entries \in Seq(Entries), NEW head \in Nat, NEW tail \in Nat,
         NEW next \in Nat
  PROVE  [r EXCEPT !.entries = entries, !.head = head, !.tail = tail, !.next = next] \in ReaderType
BY DEF ReaderType

LEMMA CursorSteps ==
  ASSUME NEW c \in CursorType, NEW given \in Nat, NEW at \in Nat, NEW pos \in Nat
  PROVE  [c EXCEPT !.given = given, !.at = at, !.pos = pos] \in CursorType
BY DEF CursorType

LEMMA CursorFills ==
  ASSUME NEW c \in CursorType, NEW start \in Nat, NEW have \in Nat, NEW at \in Nat,
         NEW given \in Nat, NEW pos \in Nat
  PROVE  [c EXCEPT !.start = start, !.have = have, !.at = at, !.given = given,
                   !.pos = pos] \in CursorType
BY DEF CursorType

LEMMA RestTypes == Closed \in ReaderType /\ Idle \in CursorType /\ Nothing \in AskedType
<1>1. << >> \in Seq(Entries)
  BY EmptySeq
<1> QED BY <1>1 DEF Closed, Idle, Nothing, Statuses, ReaderType, CursorType, AskedType

Step == MicroNext \/ UNCHANGED microVars

\* A call's cursor is on an entry of an open reader.
CursorHome == cursor.on => reader.status = "open" /\ cursor.entry \in DOMAIN reader.entries

LEMMA TypeParts ==
  MicroTypeOK <=> /\ archive \in Archives /\ reader \in ReaderType
                  /\ cursor \in CursorType /\ asked \in AskedType
BY DEF MicroTypeOK, ReaderType, CursorType, AskedType

LEMMA OfEntry ==
  ASSUME MicroTypeOK, CursorHome, cursor.on
  PROVE  Of \in Entries /\ Of.from \in Nat /\ Of.size \in Nat
<1>1. Of \in Entries
  BY ElementOfSeq, LenProperties DEF MicroTypeOK, CursorHome, Of
<1> QED BY <1>1 DEF Entries

LEMMA FoundEntry ==
  ASSUME MicroTypeOK, NEW n \in Indexed
  PROVE  /\ Found(n) \in DOMAIN reader.entries /\ Found(n) \in Nat \ {0}
         /\ reader.entries[Found(n)] \in Entries
<1>1. Found(n) \in DOMAIN reader.entries
  BY FoundInIndex
<1> QED BY <1>1, ElementOfSeq, LenProperties DEF MicroTypeOK

LEMMA MicroStepType == MicroTypeOK /\ CursorHome /\ Step => MicroTypeOK'
<1> SUFFICES ASSUME MicroTypeOK, CursorHome, Step
             PROVE  TypesAfter
  BY TypeParts DEF TypesAfter, MicroTypeOK, ReaderType, CursorType, AskedType
<1>1. archive \in Archives /\ reader \in ReaderType /\ cursor \in CursorType /\ asked \in AskedType
  BY TypeParts
<1>2. Block \in Nat /\ Align \in Nat \ {0} /\ EntryBytes \in Nat /\ Window \in Nat
  BY TarConstants, MicroConstants
<1>3. /\ reader.status \in Statuses /\ reader.entries \in Seq(Entries) /\ reader.head \in Nat
      /\ reader.tail \in Nat /\ reader.offered \in Nat /\ reader.next \in Nat
  BY <1>1 DEF ReaderType
<1>4. /\ cursor.pos \in Nat /\ cursor.start \in Nat /\ cursor.at \in Nat /\ cursor.have \in Nat
      /\ cursor.entry \in Nat
  BY <1>1 DEF CursorType
<1>5. ASSUME NEW status \in Statuses, NEW offered \in Nat, Ends(status, offered)
      PROVE  reader' \in ReaderType
  BY <1>5, RestTypes, ReaderEnds DEF Ends
<1>6. AtBlock => asked' \in AskedType /\ DataFrom \in Nat
  BY <1>2, <1>3, NextBlock DEF AtBlock, Ask, DataFrom, AskedType
<1>7. Statuses = {"closed", "opening", "open", "E_PARSE", "E_ARENA", "E_IO"}
  BY DEF Statuses
<1>10. ASSUME NEW offered \in Rooms, NEW skew \in 0 .. Align - 1, Open(offered, skew)
       PROVE  TypesAfter
  <2>1. offered \in Nat /\ skew \in Nat /\ HeaderBytes \in Nat
    BY MicroConstants, HeaderBytesType
  <2>2. CASE Ends("E_PARSE", offered) \/ Ends("E_ARENA", offered)
    BY <1>1, <1>5, <1>7, <1>10, <2>1, <2>2 DEF Open, TypesAfter
  <2>3. CASE /\ offered > skew
             /\ reader' = [Closed EXCEPT !.status = "opening", !.offered = offered,
                                         !.room = offered - skew, !.head = HeaderBytes,
                                         !.tail = offered - skew]
    <3>1. offered - skew \in Nat
      BY <2>1, <2>3
    <3>2. reader' \in ReaderType
      BY <1>7, <2>1, <2>3, <3>1, RestTypes, ReaderOpens
    <3> QED BY <1>1, <1>10, <3>2 DEF Open, TypesAfter
  <2> QED BY <1>10, <2>1, <2>2, <2>3 DEF Open
<1>11. CASE IndexMember
  <2>1. Here.name \in Names /\ Here.size \in Nat /\ NeedTail \in Nat
    BY <1>11, HereType, MicroConstants DEF IndexMember, NeedTail
  <2>2. reader.tail - NeedTail \in Nat /\ reader.head + EntryBytes \in Nat
    BY <1>2, <1>3, <1>11, <2>1 DEF IndexMember, Fits
  <2>3. [name |-> Here.name, from |-> DataFrom, size |-> Here.size,
         nameAt |-> reader.tail - NeedTail] \in Entries
    BY <1>6, <1>11, <2>1, <2>2 DEF IndexMember, Entries
  <2>4. Past \in Nat
    <3>1. Whole(Here.size) \in Nat
      BY <2>1, WholeType
    <3> QED BY <1>3, <3>1 DEF Past
  <2>5. Append(reader.entries, [name |-> Here.name, from |-> DataFrom, size |-> Here.size,
                                nameAt |-> reader.tail - NeedTail]) \in Seq(Entries)
    BY <1>3, <2>3, AppendProperties
  <2>6. reader' \in ReaderType
    BY <1>1, <1>11, <2>2, <2>4, <2>5, ReaderTakes DEF IndexMember
  <2> QED BY <1>1, <1>6, <1>11, <2>6 DEF IndexMember, TypesAfter
<1>12. CASE IndexSkip
  <2>1. Past \in Nat
    BY <1>3, <1>12, HereType, WholeType DEF IndexSkip, Past
  <2>2. reader' \in ReaderType
    BY <1>1, <1>12, <2>1 DEF IndexSkip, ReaderType
  <2> QED BY <1>1, <1>6, <1>12, <2>2 DEF IndexSkip, TypesAfter
<1>13. CASE IndexFull
  BY <1>1, <1>3, <1>5, <1>6, <1>7, <1>13 DEF IndexFull, TypesAfter
<1>14. CASE IndexDone
  <2>1. reader' \in ReaderType
    BY <1>1, <1>7, <1>14 DEF IndexDone, ReaderType
  <2> QED BY <1>1, <1>6, <1>14, <2>1 DEF IndexDone, TypesAfter
<1>15. CASE IndexRefuses
  BY <1>1, <1>3, <1>5, <1>6, <1>7, <1>15 DEF IndexRefuses, TypesAfter
<1>16. CASE IndexFails
  BY <1>1, <1>3, <1>5, <1>6, <1>7, <1>16 DEF IndexFails, TypesAfter
<1>17. CASE IndexRunsOut
  BY <1>1, <1>3, <1>5, <1>7, <1>17 DEF IndexRunsOut, TypesAfter
<1>20. ASSUME NEW n \in Indexed, CursorOpen(n)
       PROVE  TypesAfter
  <2>1. cursor' \in CursorType
    <3>1. Found(n) \in Nat
      BY FoundEntry
    <3> QED BY <1>20, <3>1, RestTypes DEF CursorOpen, CursorType
  <2> QED BY <1>1, <1>20, <2>1, RestTypes DEF CursorOpen, TypesAfter
<1>21. CASE CursorNext
  <2>1. cursor.start + cursor.at \in Nat /\ cursor.at + 1 \in Nat /\ cursor.pos + 1 \in Nat
    BY <1>4
  <2>2. cursor' \in CursorType
    BY <1>1, <1>21, <2>1, CursorSteps DEF CursorNext
  <2> QED BY <1>1, <1>21, <2>2 DEF CursorNext, TypesAfter
<1>22. CASE CursorFill
  <2>1. Of.from \in Nat /\ Of.size \in Nat
    BY <1>22, OfEntry DEF CursorFill
  <2>2. Want \in Nat /\ Of.from + cursor.pos \in Nat /\ cursor.pos + 1 \in Nat
    BY <1>2, <1>4, <1>22, <2>1 DEF CursorFill, Want
  <2>3. asked' \in AskedType
    BY <1>4, <1>22, <2>2 DEF CursorFill, Ask, AskedType
  <2>4. cursor' \in CursorType
    BY <1>1, <1>22, <2>2, CursorFills DEF CursorFill
  <2> QED BY <1>1, <1>22, <2>3, <2>4 DEF CursorFill, TypesAfter
<1>23. CASE CursorDone
  BY <1>1, <1>23, RestTypes DEF CursorDone, TypesAfter
<1>24. ASSUME NEW n \in Indexed, NEW off \in Spans, NEW len \in Spans, ReadAt(n, off, len)
       PROVE  TypesAfter
  <2>1. off \in Nat /\ len \in Nat
    BY MicroConstants
  <2>2. Found(n) \in Nat /\ reader.entries[Found(n)].from \in Nat
    BY FoundEntry DEF Entries
  <2>3. asked' \in AskedType
    BY <1>24, <2>1, <2>2 DEF ReadAt, Ask, AskedType
  <2> QED BY <1>1, <1>24, <2>3 DEF ReadAt, TypesAfter
<1>25. CASE Close
  BY <1>1, <1>25, RestTypes DEF Close, TypesAfter
<1>26. CASE UNCHANGED microVars
  BY <1>1, <1>26 DEF microVars, TypesAfter
<1> QED
  BY <1>10, <1>11, <1>12, <1>13, <1>14, <1>15, <1>16, <1>17, <1>20, <1>21, <1>22, <1>23, <1>24,
     <1>25, <1>26 DEF Step, MicroNext

----------------------------------------------------------------------------
(* The arena. *)

\* A step leaves no index, an empty one, the one there was, or one with a member more.
NoIndex    == reader'.status \notin {"opening", "open"}
EmptyIndex == /\ reader'.entries = << >> /\ reader'.head = HeaderBytes
              /\ reader'.tail = reader'.room /\ reader'.head <= reader'.room
SameIndex  == /\ reader.status \in {"opening", "open"}
              /\ reader'.entries = reader.entries /\ reader'.head = reader.head
              /\ reader'.tail = reader.tail /\ reader'.room = reader.room

LEMMA IndexMoves ==
  ASSUME MicroTypeOK, Step
  PROVE  /\ archive' = archive
         /\ reader' = reader \/ NoIndex \/ EmptyIndex \/ SameIndex \/ IndexMember
<1>1. reader \in ReaderType
  BY TypeParts
<1>2. ASSUME NEW status, NEW offered, Ends(status, offered), status \notin {"opening", "open"}
      PROVE  NoIndex
  BY <1>2 DEF Ends, Closed, NoIndex
<1>3. ASSUME NEW offered \in Rooms, NEW skew \in 0 .. Align - 1, Open(offered, skew)
      PROVE  archive' = archive /\ (NoIndex \/ EmptyIndex)
  <2>1. CASE Ends("E_PARSE", offered) \/ Ends("E_ARENA", offered)
    BY <1>2, <1>3, <2>1 DEF Open
  <2>2. CASE /\ ~(offered <= skew \/ offered - skew < HeaderBytes)
             /\ reader' = [Closed EXCEPT !.status = "opening", !.offered = offered,
                                         !.room = offered - skew, !.head = HeaderBytes,
                                         !.tail = offered - skew]
    <3>1. offered \in Nat /\ skew \in Nat /\ HeaderBytes \in Nat
      BY MicroConstants, HeaderBytesType
    <3>2. HeaderBytes <= offered - skew
      BY <2>2, <3>1
    <3>3. EmptyIndex
      BY <2>2, <3>2 DEF EmptyIndex, Closed
    <3> QED BY <1>3, <3>3 DEF Open
  <2> QED BY <1>3, <2>1, <2>2 DEF Open
<1>4. IndexMember \/ IndexSkip \/ IndexFull \/ IndexDone \/ IndexRefuses \/ IndexFails \/ IndexRunsOut
      => archive' = archive
  BY DEF IndexMember, IndexSkip, IndexFull, IndexDone, IndexRefuses, IndexFails, IndexRunsOut
<1>5. IndexFull \/ IndexRefuses \/ IndexFails \/ IndexRunsOut => NoIndex
  BY <1>2 DEF IndexFull, IndexRefuses, IndexFails, IndexRunsOut
<1>6. IndexSkip \/ IndexDone => SameIndex
  BY <1>1 DEF IndexSkip, IndexDone, AtBlock, SameIndex, ReaderType
<1>7. ASSUME \/ \E n \in Indexed : CursorOpen(n)
             \/ CursorNext \/ CursorFill \/ CursorDone
             \/ \E n \in Indexed, off, len \in Spans : ReadAt(n, off, len)
             \/ UNCHANGED microVars
      PROVE  archive' = archive /\ reader' = reader
  BY <1>7 DEF CursorOpen, CursorNext, CursorFill, CursorDone, ReadAt, microVars
<1>8. Close => archive' = archive /\ NoIndex
  BY DEF Close, Closed, NoIndex
<1> QED BY <1>3, <1>4, <1>5, <1>6, <1>7, <1>8 DEF Step, MicroNext

\* What mm_push does to the index.
LEMMA MemberAdded ==
  ASSUME MicroTypeOK, IndexMember
  PROVE  LET e == [name |-> Here.name, from |-> DataFrom, size |-> Here.size,
                   nameAt |-> reader.tail - NeedTail]
         IN  /\ reader.status = "opening" /\ NeedTail \in Nat /\ Here.size \in Nat
             /\ reader.head + EntryBytes <= reader.tail - NeedTail
             /\ DataFrom \in Nat /\ DataFrom + Here.size <= archive.bytes
             /\ NeedTail = NameBytes[Here.name] + 1
             /\ reader'.entries = Append(reader.entries, e)
             /\ DOMAIN reader'.entries = 1 .. Len(reader.entries) + 1
             /\ Len(reader'.entries) = Len(reader.entries) + 1
             /\ \A i \in DOMAIN reader.entries : reader'.entries[i] = reader.entries[i]
             /\ reader'.entries[Len(reader.entries) + 1] = e
             /\ reader'.head = reader.head + EntryBytes
             /\ reader'.tail = reader.tail - NeedTail
             /\ reader'.room = reader.room
<1> DEFINE e == [name |-> Here.name, from |-> DataFrom, size |-> Here.size,
                 nameAt |-> reader.tail - NeedTail]
<1>1. /\ reader \in ReaderType /\ reader.entries \in Seq(Entries) /\ reader.tail \in Nat
      /\ reader.head \in Nat /\ reader.next \in Nat
  BY TypeParts DEF ReaderType
<1>2. Here.name \in Names /\ Here.size \in Nat /\ NeedTail \in Nat
  BY HereType, MicroConstants DEF IndexMember, NeedTail
<1>3. archive.bytes \in Nat /\ DataFrom \in Nat
  BY <1>1, NextBlock, TarConstants DEF MicroTypeOK, Archives, DataFrom
<1>4. DataFrom + Here.size <= archive.bytes
  BY <1>2, <1>3 DEF IndexMember, SizeFits
<1>5. reader.head + EntryBytes <= reader.tail - NeedTail
  BY DEF IndexMember, Fits
<1>6. e \in Entries
  BY <1>1, <1>2, <1>3, <1>5, MicroConstants DEF Entries
<1>7. /\ reader'.entries = Append(reader.entries, e) /\ reader'.head = reader.head + EntryBytes
      /\ reader'.tail = reader.tail - NeedTail /\ reader'.room = reader.room
  BY <1>1 DEF IndexMember, ReaderType
<1> HIDE DEF e
<1>8. /\ Append(reader.entries, e) \in Seq(Entries)
      /\ Len(Append(reader.entries, e)) = Len(reader.entries) + 1
      /\ \A i \in 1 .. Len(reader.entries) : Append(reader.entries, e)[i] = reader.entries[i]
      /\ Append(reader.entries, e)[Len(reader.entries) + 1] = e
  BY <1>1, <1>6, AppendProperties
<1>9. /\ DOMAIN reader.entries = 1 .. Len(reader.entries)
      /\ DOMAIN reader'.entries = 1 .. Len(reader.entries) + 1
  BY <1>1, <1>7, <1>8, LenProperties
<1>10. reader.status = "opening"
  BY DEF IndexMember, AtBlock
<1> QED
  BY <1>2, <1>3, <1>4, <1>5, <1>7, <1>8, <1>9, <1>10 DEF NeedTail, e

LEMMA StepArena == MicroTypeOK /\ ArenaLayout /\ Step => ArenaLayout'
<1> SUFFICES ASSUME MicroTypeOK, ArenaLayout, Step
             PROVE  ArenaLayout'
  OBVIOUS
<1>1. reader' = reader \/ NoIndex \/ EmptyIndex \/ SameIndex \/ IndexMember
  BY IndexMoves
<1>2. CASE reader' = reader
  BY <1>2 DEF ArenaLayout, EndOfName
<1>3. CASE NoIndex
  BY <1>3 DEF ArenaLayout, NoIndex
<1>4. CASE EmptyIndex
  <2>1. Len(reader'.entries) = 0 /\ DOMAIN reader'.entries = {}
    BY <1>4 DEF EmptyIndex
  <2>2. EndOfName(1)' = reader'.room
    BY DEF EndOfName
  <2>3. HeaderBytes + 0 * EntryBytes = HeaderBytes
    BY HeaderBytesType, MicroConstants
  <2> QED BY <1>4, <2>1, <2>2, <2>3 DEF ArenaLayout, EmptyIndex
<1>5. CASE SameIndex
  BY <1>5 DEF ArenaLayout, SameIndex, EndOfName
<1>6. CASE IndexMember
  <2>0. PICK n \in Nat : n = Len(reader.entries)
    BY LenProperties, TypeParts DEF ReaderType
  <2>1. /\ n \in Nat /\ DOMAIN reader.entries = 1 .. n /\ reader.tail \in Nat
        /\ reader.head \in Nat
    BY <2>0, LenProperties, TypeParts DEF ReaderType
  <2>2. /\ reader.status = "opening" /\ NeedTail \in Nat
        /\ reader.head + EntryBytes <= reader.tail - NeedTail
        /\ NeedTail = NameBytes[Here.name] + 1 /\ Here.name \in Names
        /\ Len(reader'.entries) = n + 1
        /\ \A i \in 1 .. n : reader'.entries[i] = reader.entries[i]
        /\ reader'.entries[n + 1].name = Here.name
        /\ reader'.entries[n + 1].nameAt = reader.tail - NeedTail
        /\ reader'.head = reader.head + EntryBytes
        /\ reader'.tail = reader.tail - NeedTail
        /\ reader'.room = reader.room
    BY <1>6, <2>0, <2>1, MemberAdded, HereType DEF IndexMember
  <2>3. DOMAIN reader'.entries = 1 .. n + 1
    BY <1>6, <2>0, MemberAdded
  <2>4. /\ reader.head = HeaderBytes + n * EntryBytes
        /\ reader.tail = EndOfName(n + 1)
        /\ \A i \in 1 .. n : reader.entries[i].nameAt + NameBytes[reader.entries[i].name] + 1 = EndOfName(i)
    BY <2>0, <2>1, <2>2 DEF ArenaLayout
  <2>5. reader'.head = HeaderBytes + (n + 1) * EntryBytes
    BY <2>1, <2>2, <2>4, OneMore
  <2>6. \A i \in 1 .. n + 1 : EndOfName(i)' = EndOfName(i)
    BY <2>1, <2>2 DEF EndOfName
  <2>7. reader'.tail = EndOfName(n + 2)'
    BY <2>1, <2>2 DEF EndOfName
  <2>8. \A i \in 1 .. n + 1 :
          reader'.entries[i].nameAt + NameBytes[reader'.entries[i].name] + 1 = EndOfName(i)'
    <3>1. TAKE i \in 1 .. n + 1
    <3>2. CASE i \in 1 .. n
      BY <2>2, <2>4, <2>6, <3>2
    <3>3. CASE i = n + 1
      <4>1. NameBytes[Here.name] \in Nat
        BY <2>2, MicroConstants
      <4> QED BY <2>1, <2>2, <2>4, <2>6, <3>3, <4>1
    <3> QED BY <2>1, <3>2, <3>3
  <2>9. reader'.head <= reader'.tail
    BY <2>2
  <2> QED BY <2>2, <2>3, <2>5, <2>7, <2>8, <2>9, <2>1 DEF ArenaLayout
<1> QED BY <1>1, <1>2, <1>3, <1>4, <1>5, <1>6

----------------------------------------------------------------------------
(* The size of the arena. *)

\* Numbers can be summed up to each of them.  By the least place up to which they cannot.
LEMMA SumsExist ==
  ASSUME NEW n \in Nat, NEW c
  PROVE  \E f : f = [i \in 0 .. n |-> IF i = 0 THEN 0 ELSE f[i - 1] + c[i]]
<1> DEFINE Sums(f, k) == f = [i \in 0 .. k |-> IF i = 0 THEN 0 ELSE f[i - 1] + c[i]]
           Bad == {k \in Nat : ~\E f : Sums(f, k)}
<1>1. SUFFICES ASSUME Bad # {}
               PROVE  FALSE
  OBVIOUS
<1>2. PICK k \in Bad : \A m \in Bad : k <= m
  <2>1. Bad \subseteq Nat
    OBVIOUS
  <2> HIDE DEF Bad
  <2> QED BY <1>1, <2>1, LeastNat
<1>3. CASE k = 0
  <2>1. Sums([i \in 0 .. 0 |-> 0], 0)
    OBVIOUS
  <2> QED BY <1>2, <1>3, <2>1
<1>4. CASE k # 0
  <2>1. k - 1 \in Nat /\ ~(k - 1 \in Bad)
    <3>1. k \in Nat
      BY <1>2
    <3> HIDE DEF Bad
    <3> QED BY <1>2, <1>4, <3>1
  <2>2. PICK f : Sums(f, k - 1)
    BY <2>1
  <2> DEFINE g == [i \in 0 .. k |-> IF i = k THEN f[k - 1] + c[k] ELSE f[i]]
  <2>3. ASSUME NEW i \in 0 .. k
        PROVE  g[i] = IF i = 0 THEN 0 ELSE g[i - 1] + c[i]
    <3>1. \A j \in 0 .. k - 1 : f[j] = IF j = 0 THEN 0 ELSE f[j - 1] + c[j]
      BY <2>2
    <3>2. CASE i = k
      BY <1>2, <1>4, <3>2
    <3>3. CASE i # k
      BY <1>2, <1>4, <3>1, <3>3
    <3> QED BY <3>2, <3>3
  <2>4. Sums(g, k)
    BY <2>3
  <2> QED BY <1>2, <2>4
<1> QED BY <1>3, <1>4

LEMMA CostType ==
  ASSUME archive \in Archives, NEW i \in 1 .. Len(archive.blocks)
  PROVE  Cost(archive.blocks[i]) \in Nat
<1>1. archive.blocks[i] \in Headers \union Parts \union Zeros
  BY ElementOfSeq DEF Archives
<1>2. CASE archive.blocks[i].kind = "header"
  <2>1. archive.blocks[i] \in Headers
    BY <1>1, <1>2 DEF Headers, Parts, Zeros
  <2>2. NameBytes[archive.blocks[i].name] \in Nat
    BY <2>1, MicroConstants DEF Headers
  <2> QED BY <2>2, MicroConstants DEF Cost
<1>3. CASE archive.blocks[i].kind # "header"
  BY <1>3 DEF Cost
<1> QED BY <1>2, <1>3

\* What CostTo is.
LEMMA CostSums ==
  ASSUME archive \in Archives
  PROVE  /\ Len(archive.blocks) \in Nat
         /\ CostTo[0] = 0
         /\ \A i \in 1 .. Len(archive.blocks) : CostTo[i] = CostTo[i - 1] + Cost(archive.blocks[i])
<1> DEFINE n == Len(archive.blocks)
           c == [i \in 1 .. n |-> Cost(archive.blocks[i])]
<1>1. n \in Nat
  BY LenProperties DEF Archives
<1>2. PICK f : f = [i \in 0 .. n |-> IF i = 0 THEN 0 ELSE f[i - 1] + c[i]]
  <2> HIDE DEF c
  <2> QED BY <1>1, SumsExist
<1>3. f = [i \in 0 .. n |-> IF i = 0 THEN 0 ELSE f[i - 1] + Cost(archive.blocks[i])]
  <2>1. \A i \in 0 .. n : i # 0 => c[i] = Cost(archive.blocks[i])
    BY <1>1
  <2> HIDE DEF c
  <2> QED BY <1>1, <1>2, <2>1
<1>4. CostTo = [i \in 0 .. n |-> IF i = 0 THEN 0 ELSE CostTo[i - 1] + Cost(archive.blocks[i])]
  BY <1>3 DEF CostTo
<1> QED BY <1>1, <1>4

\* It never falls.  By the least place where it does.
LEMMA CostGrows ==
  ASSUME archive \in Archives
  PROVE  \A j \in 0 .. Len(archive.blocks) : CostTo[j] \in Nat /\ \A i \in 0 .. j : CostTo[i] <= CostTo[j]
<1> DEFINE Fine(j) == CostTo[j] \in Nat /\ \A i \in 0 .. j : CostTo[i] <= CostTo[j]
           Bad == {j \in 0 .. Len(archive.blocks) : ~Fine(j)}
<1>1. SUFFICES ASSUME Bad # {}
               PROVE  FALSE
  OBVIOUS
<1>2. PICK j \in Bad : \A m \in Bad : j <= m
  <2>1. Bad \subseteq Nat
    BY CostSums
  <2> HIDE DEF Bad
  <2> QED BY <1>1, <2>1, LeastNat
<1>3. Len(archive.blocks) \in Nat /\ j \in 0 .. Len(archive.blocks) /\ j \in Nat /\ ~Fine(j)
  BY <1>2, CostSums
<1>4. CASE j = 0
  BY <1>3, <1>4, CostSums
<1>5. CASE j # 0
  <2>1. j - 1 \in 0 .. Len(archive.blocks) /\ ~(j - 1 \in Bad)
    BY <1>2, <1>3, <1>5
  <2>2. Fine(j - 1)
    BY <2>1
  <2>3. CostTo[j] = CostTo[j - 1] + Cost(archive.blocks[j]) /\ Cost(archive.blocks[j]) \in Nat
    BY <1>3, <1>5, CostSums, CostType
  <2>4. CostTo[j] \in Nat /\ CostTo[j - 1] <= CostTo[j]
    BY <2>2, <2>3
  <2>5. ASSUME NEW i \in 0 .. j
        PROVE  CostTo[i] <= CostTo[j]
    <3>1. CASE i = j
      BY <2>4, <3>1
    <3>2. CASE i # j
      <4>1. i \in 0 .. j - 1 /\ i \in 0 .. Len(archive.blocks)
        BY <1>3, <3>2
      <4>2. CostTo[i] <= CostTo[j - 1]
        BY <2>2, <4>1
      <4>3. CostTo[i] \in Nat
        BY <1>2, <1>3, <1>5, <4>1
      <4> QED BY <2>2, <2>4, <4>2, <4>3
    <3> QED BY <3>1, <3>2
  <2> QED BY <1>3, <2>4, <2>5
<1> QED BY <1>4, <1>5

\* While the index is built it takes no more than what the blocks seen so far cost, of an arena
\* of which alignment took less than Align.
ArenaUsed ==
  reader.status = "opening" =>
    /\ reader.offered < reader.room + Align
    /\ \E k \in 0 .. Len(archive.blocks) :
         k <= reader.next /\ reader.head + reader.room <= reader.tail + HeaderBytes + CostTo[k]

\* A member more: what it takes of the arena is within what its block costs.
LEMMA TakesMore ==
  ASSUME NEW head \in Nat, NEW room \in Nat, NEW tail \in Nat, NEW hb \in Nat, NEW at \in Nat,
         NEW before \in Nat, NEW after \in Nat, NEW entry \in Nat, NEW name \in Nat,
         head + room <= tail + hb + at, at <= before, entry + name + before <= after
  PROVE  /\ head + entry + room <= (tail - name) + hb + after
         /\ tail < head + entry + name => room < hb + after
OBVIOUS

LEMMA HeaderBytesSmall == HeaderBytes < ReaderBytes + Align
BY MicroConstants DEF HeaderBytes, Aligned

\* The published size of what is at the block of the walk.
LEMMA HereCosts ==
  ASSUME MicroTypeOK, AtBlock, HeaderGood, Here.type = "file"
  PROVE  /\ reader.next \in Nat /\ reader.next + 1 \in 1 .. Len(archive.blocks) /\ NeedTail \in Nat
         /\ CostTo[reader.next + 1] \in Nat /\ CostTo[reader.next] \in Nat
         /\ EntryBytes + NeedTail + CostTo[reader.next] <= CostTo[reader.next + 1]
<1>1. archive \in Archives /\ reader.next \in Nat /\ archive.bytes \in Nat /\ Len(archive.blocks) = Whole(archive.bytes)
  BY DEF MicroTypeOK, Archives
<1>2. reader.next + 1 <= Whole(archive.bytes)
  BY <1>1, WholeCovers DEF AtBlock
<1>3. reader.next + 1 \in 1 .. Len(archive.blocks) /\ reader.next \in 0 .. Len(archive.blocks)
  BY <1>1, <1>2, CostSums
<1>4. CostTo[reader.next + 1] \in Nat /\ CostTo[reader.next] \in Nat
  BY <1>1, <1>3, CostGrows, CostSums
<1>5. CostTo[reader.next + 1] = CostTo[reader.next] + Cost(Here)
  BY <1>1, <1>3, CostSums DEF Here
<1>6. NameBytes[Here.name] \in Nat
  BY HereType, MicroConstants
<1>7. Cost(Here) = EntrySize + NameBytes[Here.name] + 1
  BY DEF Cost, HeaderGood
<1>8. NeedTail \in Nat /\ NeedTail = NameBytes[Here.name] + 1
  BY <1>6 DEF NeedTail
<1>9. EntryBytes + NeedTail + CostTo[reader.next] <= CostTo[reader.next + 1]
  <2>1. EntryBytes \in Nat /\ EntrySize \in Nat /\ EntryBytes <= EntrySize
    BY MicroConstants
  <2>2. EntryBytes + NeedTail <= Cost(Here) /\ Cost(Here) \in Nat
    BY <1>6, <1>7, <1>8, <2>1
  <2> QED BY <1>4, <1>5, <1>8, <2>1, <2>2
<1> QED BY <1>1, <1>3, <1>4, <1>8, <1>9

LEMMA StepSuffices == MicroTypeOK /\ ArenaUsed /\ ArenaSuffices /\ Step => ArenaUsed' /\ ArenaSuffices'
<1> SUFFICES ASSUME MicroTypeOK, ArenaUsed, ArenaSuffices, Step
             PROVE  ArenaUsed' /\ ArenaSuffices'
  OBVIOUS
<1>1. /\ archive \in Archives /\ archive' = archive /\ reader \in ReaderType
      /\ reader.head \in Nat /\ reader.tail \in Nat /\ reader.room \in Nat /\ reader.offered \in Nat
      /\ reader.next \in Nat
  BY TypeParts, IndexMoves DEF ReaderType
<1>2. CostTo' = CostTo /\ Published' = Published
  BY <1>1 DEF CostTo, Published
<1>3. /\ Len(archive.blocks) \in Nat /\ CostTo[Len(archive.blocks)] \in Nat
      /\ CostTo[0] = 0
  BY <1>1, CostSums, CostGrows
<1>4. /\ ReaderBytes \in Nat /\ Align \in Nat /\ Overhead \in Nat /\ ReaderBytes + 2 * Align <= Overhead
      /\ HeaderBytes \in Nat /\ HeaderBytes < ReaderBytes + Align /\ EntryBytes \in Nat
  BY MicroConstants, HeaderBytesType, HeaderBytesSmall
<1>5. ASSUME NEW status, NEW offered, Ends(status, offered), status \notin {"opening", "E_ARENA"}
      PROVE  ArenaUsed' /\ ArenaSuffices'
  BY <1>5 DEF Ends, Closed, ArenaUsed, ArenaSuffices
<1>6. ASSUME reader'.status = reader.status, reader'.offered = reader.offered, reader'.room = reader.room,
             reader'.head = reader.head, reader'.tail = reader.tail, reader'.next \in Nat,
             reader.next <= reader'.next
      PROVE  ArenaUsed' /\ ArenaSuffices'
  <2>1. ArenaSuffices'
    BY <1>2, <1>6 DEF ArenaSuffices
  <2>2. ArenaUsed'
    BY <1>1, <1>2, <1>3, <1>6 DEF ArenaUsed
  <2> QED BY <2>1, <2>2
<1>7. ASSUME NEW offered \in Rooms, NEW skew \in 0 .. Align - 1, Open(offered, skew)
      PROVE  ArenaUsed' /\ ArenaSuffices'
  <2>1. offered \in Nat /\ skew \in Nat /\ skew < Align
    BY <1>4, MicroConstants
  <2>2. CASE Ends("E_PARSE", offered)
    BY <1>5, <2>2
  <2>3. CASE Ends("E_ARENA", offered) /\ (offered <= skew \/ offered - skew < HeaderBytes)
    <3>1. reader'.status = "E_ARENA" /\ reader'.offered = offered
      BY <2>3 DEF Ends, Closed
    <3>2. offered < Published
      BY <1>3, <1>4, <2>1, <2>3 DEF Published
    <3> QED BY <1>2, <3>1, <3>2 DEF ArenaUsed, ArenaSuffices
  <2>4. CASE /\ ~(offered <= skew \/ offered - skew < HeaderBytes)
             /\ reader' = [Closed EXCEPT !.status = "opening", !.offered = offered,
                                         !.room = offered - skew, !.head = HeaderBytes,
                                         !.tail = offered - skew]
    <3>1. /\ reader'.status = "opening" /\ reader'.offered = offered /\ reader'.room = offered - skew
          /\ reader'.head = HeaderBytes /\ reader'.tail = offered - skew /\ reader'.next = 0
      BY <2>4 DEF Closed
    <3>2. ArenaUsed'
      BY <1>1, <1>2, <1>3, <1>4, <2>1, <3>1 DEF ArenaUsed
    <3> QED BY <3>1, <3>2 DEF ArenaSuffices
  <2> QED BY <1>7, <2>2, <2>3, <2>4 DEF Open
<1>8. CASE IndexMember
  <2>1. /\ reader.next + 1 \in 1 .. Len(archive.blocks) /\ NeedTail \in Nat
        /\ CostTo[reader.next + 1] \in Nat /\ CostTo[reader.next] \in Nat
        /\ EntryBytes + NeedTail + CostTo[reader.next] <= CostTo[reader.next + 1]
        /\ Here.size \in Nat
    BY <1>8, HereCosts, HereType DEF IndexMember
  <2>2. /\ reader'.status = "opening" /\ reader.status = "opening" /\ reader'.offered = reader.offered
        /\ reader'.room = reader.room /\ reader'.head = reader.head + EntryBytes
        /\ reader'.tail = reader.tail - NeedTail /\ reader'.next = Past
    BY <1>1, <1>8 DEF IndexMember, AtBlock, ReaderType
  <2>3. Past \in Nat /\ reader.next + 1 <= Past
    <3>1. Whole(Here.size) \in Nat
      BY <2>1, WholeType
    <3> QED BY <1>1, <3>1 DEF Past
  <2>4. PICK k \in 0 .. Len(archive.blocks) :
          k <= reader.next /\ reader.head + reader.room <= reader.tail + HeaderBytes + CostTo[k]
    BY <2>2 DEF ArenaUsed
  <2>5. CostTo[k] \in Nat /\ CostTo[k] <= CostTo[reader.next]
    <3>1. k \in 0 .. reader.next /\ reader.next \in 0 .. Len(archive.blocks)
      BY <1>1, <1>3, <2>1, <2>4
    <3> QED BY <1>1, <3>1, <2>4, CostGrows
  <2>6. reader'.head + reader'.room <= reader'.tail + HeaderBytes + CostTo[reader.next + 1]
    <3>1. PICK before \in Nat : before = CostTo[reader.next]
      BY <2>1
    <3>2. PICK after \in Nat : after = CostTo[reader.next + 1]
      BY <2>1
    <3>3. PICK at \in Nat : at = CostTo[k]
      BY <2>5
    <3>4. PICK name \in Nat : name = NeedTail
      BY <2>1
    <3>5. /\ at <= before /\ EntryBytes + name + before <= after
          /\ reader.head + reader.room <= reader.tail + HeaderBytes + at
      BY <2>1, <2>4, <2>5, <3>1, <3>2, <3>3, <3>4
    <3>6. (reader.head + EntryBytes) + reader.room <= (reader.tail - name) + HeaderBytes + after
      BY <1>1, <1>4, <3>5, TakesMore
    <3> QED BY <2>2, <3>2, <3>4, <3>6
  <2>7. reader.next + 1 \in 0 .. Len(archive.blocks)
    BY <2>1, <1>3
  <2>8. ArenaUsed'
    BY <1>1, <1>2, <2>2, <2>3, <2>6, <2>7 DEF ArenaUsed
  <2> QED BY <2>2, <2>8 DEF ArenaSuffices
<1>9. CASE IndexSkip
  <2>1. Past \in Nat /\ reader.next <= Past
    <3>1. Whole(Here.size) \in Nat
      BY <1>9, HereType, WholeType DEF IndexSkip
    <3> QED BY <1>1, <3>1 DEF Past
  <2> QED BY <1>1, <1>6, <1>9, <2>1 DEF IndexSkip, ReaderType
<1>10. CASE IndexFull
  <2>1. /\ reader.next + 1 \in 1 .. Len(archive.blocks) /\ NeedTail \in Nat
        /\ CostTo[reader.next + 1] \in Nat /\ CostTo[reader.next] \in Nat
        /\ EntryBytes + NeedTail + CostTo[reader.next] <= CostTo[reader.next + 1]
    BY <1>10, HereCosts DEF IndexFull
  <2>2. /\ reader.status = "opening" /\ reader.offered < reader.room + Align
    BY <1>10 DEF IndexFull, AtBlock, ArenaUsed
  <2>3. PICK k \in 0 .. Len(archive.blocks) :
          k <= reader.next /\ reader.head + reader.room <= reader.tail + HeaderBytes + CostTo[k]
    BY <2>2 DEF ArenaUsed
  <2>4. CostTo[k] \in Nat /\ CostTo[k] <= CostTo[reader.next]
    <3>1. k \in 0 .. reader.next /\ reader.next \in 0 .. Len(archive.blocks)
      BY <1>1, <1>3, <2>1, <2>3
    <3> QED BY <1>1, <3>1, <2>3, CostGrows
  <2>5. CostTo[reader.next + 1] <= CostTo[Len(archive.blocks)]
    <3>1. reader.next + 1 \in 0 .. Len(archive.blocks) /\ Len(archive.blocks) \in 0 .. Len(archive.blocks)
      BY <2>1, <1>3
    <3> QED BY <1>1, <3>1, CostGrows
  <2>6. reader.tail < reader.head + EntryBytes + NeedTail
    <3>1. ~(reader.tail >= NeedTail /\ reader.head + EntryBytes <= reader.tail - NeedTail)
      BY <1>10 DEF IndexFull, Fits
    <3>2. PICK head \in Nat, tail \in Nat, entry \in Nat, name \in Nat :
            head = reader.head /\ tail = reader.tail /\ entry = EntryBytes /\ name = NeedTail
      BY <1>1, <1>4, <2>1
    <3>3. ~(tail >= name /\ head + entry <= tail - name)
      BY <3>1, <3>2
    <3>4. tail < head + entry + name
      BY <3>3
    <3> QED BY <3>2, <3>4
  <2>7. reader.room < HeaderBytes + CostTo[Len(archive.blocks)]
    <3>1. PICK before \in Nat : before = CostTo[reader.next]
      BY <2>1
    <3>2. PICK after \in Nat : after = CostTo[reader.next + 1]
      BY <2>1
    <3>3. PICK at \in Nat : at = CostTo[k]
      BY <2>4
    <3>4. PICK name \in Nat : name = NeedTail
      BY <2>1
    <3>5. /\ at <= before /\ EntryBytes + name + before <= after
          /\ reader.head + reader.room <= reader.tail + HeaderBytes + at
      BY <2>1, <2>3, <2>4, <3>1, <3>2, <3>3, <3>4
    <3>6. reader.room < HeaderBytes + after
      <4>1. /\ reader.head \in Nat /\ reader.room \in Nat /\ reader.tail \in Nat
            /\ HeaderBytes \in Nat /\ EntryBytes \in Nat
        BY <1>1, <1>4
      <4>2. reader.tail < reader.head + EntryBytes + name
        BY <2>6, <3>4
      <4> QED BY <3>5, <4>1, <4>2, TakesMore
    <3> QED BY <1>1, <1>3, <1>4, <2>5, <3>2, <3>6
  <2>8. reader.offered < Published
    <3>1. PICK cost \in Nat, head \in Nat, room \in Nat, offered \in Nat :
            cost = CostTo[Len(archive.blocks)] /\ head = HeaderBytes /\ room = reader.room /\ offered = reader.offered
      BY <1>1, <1>3, <1>4
    <3>2. offered < room + Align /\ room < head + cost
      BY <2>2, <2>7, <3>1
    <3>3. Published = Overhead + cost
      BY <3>1 DEF Published
    <3>4. PICK align \in Nat, over \in Nat : align = Align /\ over = Overhead /\ head + align - 1 <= over
      BY <1>4, <3>1
    <3>5. offered < over + cost
      BY <3>2, <3>4
    <3> QED BY <3>1, <3>3, <3>4, <3>5
  <2>9. reader'.status = "E_ARENA" /\ reader'.offered = reader.offered
    BY <1>10 DEF IndexFull, Ends, Closed
  <2> QED BY <1>2, <2>8, <2>9 DEF ArenaUsed, ArenaSuffices
<1>11. CASE IndexDone
  BY <1>1, <1>11 DEF IndexDone, ReaderType, ArenaUsed, ArenaSuffices
<1>12. CASE IndexRefuses \/ IndexFails \/ IndexRunsOut
  BY <1>5, <1>12 DEF IndexRefuses, IndexFails, IndexRunsOut
<1>13. ASSUME \/ \E n \in Indexed : CursorOpen(n)
              \/ CursorNext \/ CursorFill \/ CursorDone
              \/ \E n \in Indexed, off, len \in Spans : ReadAt(n, off, len)
              \/ UNCHANGED microVars
       PROVE  ArenaUsed' /\ ArenaSuffices'
  <2>1. reader' = reader
    BY <1>13 DEF CursorOpen, CursorNext, CursorFill, CursorDone, ReadAt, microVars
  <2> QED BY <1>1, <1>6, <2>1
<1>14. CASE Close
  BY <1>14 DEF Close, Closed, ArenaUsed, ArenaSuffices
<1> QED
  BY <1>7, <1>8, <1>9, <1>10, <1>11, <1>12, <1>13, <1>14 DEF Step, MicroNext

----------------------------------------------------------------------------
(* What the source is asked for. *)

\* Every member in the index lies inside the archive.
EntriesInside ==
  reader.status \in {"opening", "open"} =>
    \A i \in DOMAIN reader.entries :
      reader.entries[i].from + reader.entries[i].size <= archive.bytes

LEMMA StepEntries == MicroTypeOK /\ EntriesInside /\ Step => EntriesInside'
<1> SUFFICES ASSUME MicroTypeOK, EntriesInside, Step
             PROVE  EntriesInside'
  OBVIOUS
<1>1. /\ archive' = archive
      /\ reader' = reader \/ NoIndex \/ EmptyIndex \/ SameIndex \/ IndexMember
  BY IndexMoves
<1>2. CASE reader' = reader
  BY <1>1, <1>2 DEF EntriesInside
<1>3. CASE NoIndex
  BY <1>3 DEF EntriesInside, NoIndex
<1>4. CASE EmptyIndex
  BY <1>4 DEF EntriesInside, EmptyIndex
<1>5. CASE SameIndex
  BY <1>1, <1>5 DEF EntriesInside, SameIndex
<1>6. CASE IndexMember
  <2>0. PICK n \in Nat : n = Len(reader.entries)
    BY LenProperties, TypeParts DEF ReaderType
  <2>1. n \in Nat /\ DOMAIN reader.entries = 1 .. n
    BY <2>0, LenProperties, TypeParts DEF ReaderType
  <2>2. /\ reader.status = "opening" /\ DataFrom + Here.size <= archive.bytes
        /\ Len(reader'.entries) = n + 1
        /\ \A i \in 1 .. n : reader'.entries[i] = reader.entries[i]
        /\ reader'.entries[n + 1].from = DataFrom
        /\ reader'.entries[n + 1].size = Here.size
    BY <1>6, <2>0, <2>1, MemberAdded
  <2>3. DOMAIN reader'.entries = 1 .. n + 1
    BY <1>6, <2>0, MemberAdded
  <2>4. \A i \in 1 .. n + 1 : i \in 1 .. n \/ i = n + 1
    BY <2>1
  <2> QED BY <1>1, <2>1, <2>2, <2>3, <2>4 DEF EntriesInside
<1> QED BY <1>1, <1>2, <1>3, <1>4, <1>5, <1>6

\* A cursor that has given nothing has no window; else the window is what was last asked for,
\* the byte given is the one before the cursor's place, and the next lies at the window's at.
CursorWindow ==
  cursor.on =>
    \/ cursor.pos = 0 /\ cursor.at = 0 /\ cursor.have = 0
    \/ /\ cursor.pos > 0 /\ 1 <= cursor.at /\ cursor.at <= cursor.have
       /\ asked.from = cursor.start /\ asked.len = cursor.have
       /\ cursor.start + cursor.at = Of.from + cursor.pos
       /\ cursor.given = Of.from + cursor.pos - 1

\* The request that was made last.
AskedInside ==
  /\ asked.from + asked.len <= archive.bytes
  /\ asked.within # 0 /\ reader.status = "open" =>
       /\ asked.within \in DOMAIN reader.entries
       /\ reader.entries[asked.within].from <= asked.from
       /\ asked.from + asked.len
            <= reader.entries[asked.within].from + reader.entries[asked.within].size

Reading == CursorHome /\ CursorWindow /\ AskedInside

MicroInv == MicroTypeOK /\ ArenaLayout /\ ArenaUsed /\ ArenaSuffices /\ EntriesInside /\ Reading

\* Without a call under way, a step of the walk asks for a block that is there.
LEMMA WalkReads ==
  ASSUME MicroTypeOK, Reading, AtBlock, archive' = archive, cursor' = cursor
  PROVE  Reading'
<1>1. ~cursor.on
  BY DEF Reading, CursorHome, AtBlock
<1>2. asked' = [from |-> reader.next * Block, len |-> Block, within |-> 0]
  BY DEF AtBlock, Ask
<1>3. reader.next \in Nat /\ Block \in Nat
  BY TarConstants DEF MicroTypeOK
<1>4. asked'.from + asked'.len <= archive.bytes
  BY <1>2, <1>3, NextBlock DEF AtBlock
<1> QED BY <1>1, <1>2, <1>4 DEF Reading, CursorHome, CursorWindow, AskedInside

\* A request for part of a member in the index.
LEMMA MemberReads ==
  ASSUME MicroTypeOK, EntriesInside, reader.status = "open",
         NEW i \in DOMAIN reader.entries, NEW off \in Nat, NEW len \in Nat,
         off + len <= reader.entries[i].size,
         asked' = [from |-> reader.entries[i].from + off, len |-> len, within |-> i],
         archive' = archive, reader' = reader
  PROVE  AskedInside'
<1>1. reader.entries[i] \in Entries
  BY ElementOfSeq, LenProperties DEF MicroTypeOK
<1>2. reader.entries[i].from \in Nat /\ reader.entries[i].size \in Nat
  BY <1>1 DEF Entries
<1>3. reader.entries[i].from + reader.entries[i].size <= archive.bytes
  BY DEF EntriesInside
<1>4. archive.bytes \in Nat
  BY DEF MicroTypeOK, Archives
<1> QED BY <1>2, <1>3, <1>4 DEF AskedInside

LEMMA StepReading == MicroTypeOK /\ EntriesInside /\ Reading /\ Step => Reading'
<1> SUFFICES ASSUME MicroTypeOK, EntriesInside, Reading, Step
             PROVE  Reading'
  OBVIOUS
<1>1. /\ cursor.pos \in Nat /\ cursor.start \in Nat /\ cursor.at \in Nat /\ cursor.have \in Nat
      /\ cursor \in CursorType /\ reader \in ReaderType /\ archive.bytes \in Nat
  BY TypeParts DEF CursorType, Archives
<1>2. CursorHome /\ CursorWindow /\ AskedInside
  BY DEF Reading
<1>3. Nothing.from + Nothing.len <= archive.bytes /\ Nothing.within = 0
  BY <1>1 DEF Nothing
<1>4. ASSUME NEW offered \in Rooms, NEW skew \in 0 .. Align - 1, Open(offered, skew)
      PROVE  Reading'
  <2>1. ~cursor.on
    BY <1>2, <1>4 DEF Open, CursorHome
  <2>2. reader'.status # "open"
    BY <1>4 DEF Open, Ends, Closed
  <2> QED
    BY <1>2, <1>4, <2>1, <2>2 DEF Open, Reading, CursorHome, CursorWindow, AskedInside
<1>5. CASE IndexMember \/ IndexSkip \/ IndexFull \/ IndexDone \/ IndexRefuses \/ IndexFails
  BY <1>5, WalkReads DEF IndexMember, IndexSkip, IndexFull, IndexDone, IndexRefuses, IndexFails
<1>6. CASE IndexRunsOut
  <2>1. ~cursor.on
    BY <1>2, <1>6 DEF IndexRunsOut, CursorHome
  <2>2. reader'.status # "open"
    BY <1>6 DEF IndexRunsOut, Ends, Closed
  <2> QED
    BY <1>2, <1>6, <2>1, <2>2 DEF IndexRunsOut, Reading, CursorHome, CursorWindow, AskedInside
<1>7. ASSUME NEW n \in Indexed, CursorOpen(n)
      PROVE  Reading'
  <2>1. Found(n) \in DOMAIN reader.entries
    BY FoundEntry
  <2>2. /\ cursor'.on /\ cursor'.entry = Found(n)
        /\ cursor'.pos = 0 /\ cursor'.at = 0 /\ cursor'.have = 0
    BY <1>7 DEF CursorOpen, Idle
  <2> QED
    BY <1>3, <1>7, <2>1, <2>2
    DEF CursorOpen, Usable, Reading, CursorHome, CursorWindow, AskedInside
<1>8. CASE CursorNext
  <2>1. /\ archive' = archive /\ reader' = reader /\ asked' = asked /\ cursor.on
        /\ cursor'.on = cursor.on /\ cursor'.entry = cursor.entry /\ cursor'.start = cursor.start
        /\ cursor'.have = cursor.have /\ cursor'.at = cursor.at + 1 /\ cursor'.pos = cursor.pos + 1
        /\ cursor'.given = cursor.start + cursor.at /\ cursor.at < cursor.have
    BY <1>1, <1>8 DEF CursorNext, CursorType
  <2>2. Of' = Of /\ Of.from \in Nat
    BY <1>2, <2>1, OfEntry DEF Of
  <2>3. /\ 1 <= cursor.at /\ asked.from = cursor.start /\ asked.len = cursor.have
        /\ cursor.start + cursor.at = Of.from + cursor.pos
    BY <1>1, <1>2, <2>1 DEF CursorWindow
  <2>4. CursorWindow'
    BY <1>1, <2>1, <2>2, <2>3 DEF CursorWindow
  <2> QED BY <1>2, <2>1, <2>4 DEF Reading, CursorHome, AskedInside
<1>9. CASE CursorFill
  <2>1. /\ archive' = archive /\ reader' = reader /\ cursor.on /\ cursor.pos < Of.size
        /\ asked' = [from |-> Of.from + cursor.pos, len |-> Want, within |-> cursor.entry]
        /\ cursor'.on = cursor.on /\ cursor'.entry = cursor.entry
        /\ cursor'.start = Of.from + cursor.pos /\ cursor'.have = Want /\ cursor'.at = 1
        /\ cursor'.pos = cursor.pos + 1 /\ cursor'.given = Of.from + cursor.pos
    BY <1>1, <1>9 DEF CursorFill, CursorType, Ask
  <2>2. Of' = Of /\ Of.from \in Nat /\ Of.size \in Nat
    BY <1>2, <2>1, OfEntry DEF Of
  <2>3. Want \in Nat /\ 1 <= Want /\ cursor.pos + Want <= Of.size
    BY <1>1, <2>1, <2>2, MicroConstants DEF Want
  <2>4. CursorWindow'
    BY <1>1, <2>1, <2>2, <2>3 DEF CursorWindow
  <2>5. AskedInside'
    BY <1>1, <1>2, <2>1, <2>3, MemberReads DEF CursorHome, Of
  <2> QED BY <1>2, <2>1, <2>4, <2>5 DEF Reading, CursorHome
<1>10. CASE CursorDone
  BY <1>3, <1>10 DEF CursorDone, Idle, Reading, CursorHome, CursorWindow, AskedInside
<1>11. ASSUME NEW n \in Indexed, NEW off \in Spans, NEW len \in Spans, ReadAt(n, off, len)
       PROVE  Reading'
  <2>1. off \in Nat /\ len \in Nat /\ Found(n) \in DOMAIN reader.entries
    BY MicroConstants, FoundEntry
  <2>2. reader.entries[Found(n)].size \in Nat
    BY FoundEntry DEF Entries
  <2>3. /\ reader.status = "open" /\ ~cursor.on /\ off + len <= reader.entries[Found(n)].size
        /\ archive' = archive /\ reader' = reader /\ cursor' = cursor
        /\ asked' = [from |-> reader.entries[Found(n)].from + off, len |-> len, within |-> Found(n)]
    BY <1>11, <2>1, <2>2 DEF ReadAt, Usable, Ask
  <2>4. AskedInside'
    BY <2>1, <2>3, MemberReads
  <2> QED BY <2>3, <2>4 DEF Reading, CursorHome, CursorWindow
<1>12. CASE Close
  BY <1>3, <1>12 DEF Close, Usable, Closed, Reading, CursorHome, CursorWindow, AskedInside
<1>13. CASE UNCHANGED microVars
  BY <1>2, <1>13 DEF microVars, Reading, CursorHome, CursorWindow, AskedInside, Of
<1> QED
  BY <1>4, <1>5, <1>6, <1>7, <1>8, <1>9, <1>10, <1>11, <1>12, <1>13 DEF Step, MicroNext

----------------------------------------------------------------------------
(* The theorems. *)

LEMMA MicroInvInit == MicroInit /\ archive \in Archives => MicroInv
<1> SUFFICES ASSUME MicroInit, archive \in Archives
             PROVE  MicroInv
  OBVIOUS
<1>1. MicroTypeOK
  BY RestTypes, TypeParts DEF MicroInit
<1>2. archive.bytes \in Nat
  BY DEF Archives
<1> QED
  BY <1>1, <1>2 DEF MicroInit, MicroInv, ArenaLayout, ArenaUsed, ArenaSuffices, EntriesInside, Reading, CursorHome,
                    CursorWindow, AskedInside, Closed, Idle, Nothing

LEMMA MicroInvStep == MicroInv /\ [MicroNext]_microVars => MicroInv'
<1> SUFFICES ASSUME MicroInv, [MicroNext]_microVars
             PROVE  MicroInv'
  OBVIOUS
<1>1. Step
  BY DEF Step
<1> QED
  BY <1>1, MicroStepType, StepArena, StepSuffices, StepEntries, StepReading DEF MicroInv, Reading

LEMMA MicroInvariant == MicroSpec => []MicroInv
BY MicroInvInit, MicroInvStep, PTL DEF MicroSpec

\* The reader, its index, its cursor and every request stay well-formed, whatever the archive
\* says (micro/src/index.c).
THEOREM MicroTypes == MicroSpec => []MicroTypeOK
<1>1. MicroInv => MicroTypeOK
  BY DEF MicroInv
<1> QED BY <1>1, MicroInvariant, PTL

\* The entry table and the names share the arena without touching, for any sizes of an entry,
\* a name and an arena (mm_push, index.c).
THEOREM MicroArena == MicroSpec => []ArenaLayout
<1>1. MicroInv => ArenaLayout
  BY DEF MicroInv
<1> QED BY <1>1, MicroInvariant, PTL

\* A caller who offers an arena of the published size is never told that it is too small, for any
\* archive, any alignment and any sizes the build's assertions allow (MCDF_MICRO_ARENA_SIZE,
\* mcdf_micro.h; mm_push, index.c).
THEOREM MicroSuffices == MicroSpec => []ArenaSuffices
<1>1. MicroInv => ArenaSuffices
  BY DEF MicroInv
<1> QED BY <1>1, MicroInvariant, PTL

LEMMA InvReads == MicroInv => ReadsInside
<1> SUFFICES ASSUME MicroInv
             PROVE  ReadsInside
  OBVIOUS
<1>1. MicroTypeOK /\ CursorHome /\ CursorWindow /\ AskedInside
  BY DEF MicroInv, Reading
<1>2. ASSUME cursor.on, cursor.pos > 0
      PROVE  /\ cursor.given = Of.from + cursor.pos - 1
             /\ asked.from <= cursor.given /\ cursor.given < asked.from + asked.len
  <2>1. Of.from \in Nat
    BY <1>1, <1>2, OfEntry
  <2>2. /\ cursor.pos \in Nat /\ cursor.start \in Nat /\ cursor.at \in Nat
        /\ cursor.have \in Nat
    BY <1>1 DEF MicroTypeOK
  <2> QED BY <1>1, <1>2, <2>1, <2>2 DEF CursorWindow
<1> QED BY <1>1, <1>2 DEF AskedInside, ReadsInside

\* No header can make the reader ask for bytes the source does not have, and a cursor gives a
\* member's bytes in order, for any block and window (index.c: the check of h.size, read_at,
\* mm_cursor_next).
THEOREM MicroReads == MicroSpec => []ReadsInside
BY InvReads, MicroInvariant, PTL

----------------------------------------------------------------------------
(* What tar_read is, as a function of the block it reads from. *)

\* Downwards from where it holds.
LEMMA Backwards ==
  ASSUME NEW P, NEW n \in Nat, \A p \in Nat : p >= n => p \in P,
         \A p \in Nat : (\A q \in Nat : q > p => q \in P) => p \in P
  PROVE  \A p \in Nat : p \in P
<1> DEFINE Bad == {k \in Nat : \E p \in Nat : p \notin P /\ k + p = n}
<1> SUFFICES ASSUME NEW p \in Nat, p \notin P
             PROVE  FALSE
  OBVIOUS
<1>1. n - p \in Nat /\ (n - p) + p = n
  OBVIOUS
<1>2. n - p \in Bad
  BY <1>1
<1>3. Bad \subseteq Nat /\ Bad # {}
  BY <1>2
<1>4. PICK k \in Bad : \A j \in Bad : k <= j
  <2> HIDE DEF Bad
  <2> QED BY <1>3, LeastNat
<1>5. k \in Nat
  BY <1>3
<1>6. PICK q \in Nat : q \notin P /\ k + q = n
  BY <1>4
<1>7. ASSUME NEW r \in Nat, r > q, r \notin P
      PROVE  FALSE
  <2>1. n - r \in Nat /\ (n - r) + r = n
    BY <1>7
  <2>2. n - r \in Bad
    BY <1>7, <2>1
  <2>3. k <= n - r
    BY <1>4, <2>2
  <2> QED BY <1>5, <1>6, <1>7, <2>1, <2>3
<1> QED BY <1>6, <1>7

TarBody(a, f, p) ==
  IF (p + 1) * Block > a.bytes \/ a.blocks[p + 1] = Zero
  THEN [ok |-> TRUE, members |-> << >>]
  ELSE LET h    == a.blocks[p + 1]
           rest == f[p + 1 + Whole(h.size)]
       IN  IF h.kind # "header" \/ ~h.sum THEN Refused
           ELSE IF h.type # "file" THEN rest
           ELSE IF (p + 1) * Block + h.size > a.bytes \/ ~rest.ok THEN Refused
           ELSE [ok |-> TRUE, members |->
                   <<[name |-> h.name, value |-> Value(a, p + 1, h.size)]>> \o rest.members]

Blocks == Headers \union Parts \union Zeros

\* A block that is inside the bytes is there, and a header's fields have their types.
LEMMA BlockThere ==
  ASSUME NEW a \in Archives, NEW p \in Nat, (p + 1) * Block <= a.bytes
  PROVE  /\ p + 1 \in 1 .. Len(a.blocks) /\ Len(a.blocks) \in Nat
         /\ a.blocks[p + 1] \in Blocks
         /\ a.blocks[p + 1].kind = "header" => a.blocks[p + 1] \in Headers
<1>1. a.bytes \in Nat /\ a.blocks \in Seq(Blocks) /\ Len(a.blocks) = Whole(a.bytes)
  BY DEF Archives, Blocks
<1>2. p + 1 <= Whole(a.bytes) /\ Whole(a.bytes) \in Nat
  BY <1>1, WholeCovers
<1>3. p + 1 \in 1 .. Len(a.blocks)
  BY <1>1, <1>2
<1>4. a.blocks[p + 1] \in Blocks
  BY <1>1, <1>3, ElementOfSeq
<1>5. a.blocks[p + 1].kind = "header" => a.blocks[p + 1] \in Headers
  BY <1>4 DEF Blocks, Headers, Parts, Zeros
<1> QED BY <1>1, <1>2, <1>3, <1>4, <1>5

LEMMA TarLocal ==
  ASSUME NEW a \in Archives, NEW p \in Nat, NEW f, NEW g, \A q \in Nat : q > p => f[q] = g[q]
  PROVE  TarBody(a, f, p) = TarBody(a, g, p)
<1>1. CASE (p + 1) * Block > a.bytes \/ a.blocks[p + 1] = Zero
  BY <1>1 DEF TarBody
<1>2. CASE ~((p + 1) * Block > a.bytes \/ a.blocks[p + 1] = Zero) /\ a.blocks[p + 1].kind # "header"
  BY <1>2 DEF TarBody
<1>3. CASE ~((p + 1) * Block > a.bytes \/ a.blocks[p + 1] = Zero) /\ a.blocks[p + 1].kind = "header"
  <2>1. (p + 1) * Block <= a.bytes
    <3>1. (p + 1) * Block \in Nat /\ a.bytes \in Nat
      BY TarConstants, NextBlock DEF Archives
    <3> QED BY <1>3, <3>1
  <2>2. a.blocks[p + 1].size \in Nat
    BY <1>3, <2>1, BlockThere DEF Headers
  <2>3. Whole(a.blocks[p + 1].size) \in Nat
    BY <2>2, WholeType
  <2>4. f[p + 1 + Whole(a.blocks[p + 1].size)] = g[p + 1 + Whole(a.blocks[p + 1].size)]
    BY <2>3
  <2> QED BY <1>3, <2>4 DEF TarBody
<1> QED BY <1>1, <1>2, <1>3

\* The function exists: it is right from the end of the bytes on, and once it is right behind a
\* block it can be made right there.
LEMMA TarReads ==
  ASSUME NEW a \in Archives
  PROVE  \A p \in Nat : TarFrom(a)[p] = TarBody(a, TarFrom(a), p)
<1> DEFINE Right(f, n) == f = [p \in Nat |-> f[p]] /\ \A p \in Nat : p >= n => f[p] = TarBody(a, f, p)
           Given == {n \in Nat : \E f : Right(f, n)}
<1>1. a.bytes \in Nat
  BY DEF Archives
<1>2. \A n \in Nat : n >= a.bytes => n \in Given
  <2> SUFFICES ASSUME NEW n \in Nat, n >= a.bytes
               PROVE  \E f : Right(f, n)
    OBVIOUS
  <2> DEFINE g == [p \in Nat |-> [ok |-> TRUE, members |-> << >>]]
  <2>1. ASSUME NEW p \in Nat, p >= n
        PROVE  g[p] = TarBody(a, g, p)
    <3>1. (p + 1) * Block > a.bytes
      <4>1. PICK b \in Nat : b = Block /\ b > 0
        BY TarConstants
      <4>2. (p + 1) * b >= p + 1
        BY <4>1
      <4> QED BY <1>1, <2>1, <4>1, <4>2
    <3> QED BY <3>1 DEF TarBody
  <2>2. g = [p \in Nat |-> g[p]]
    OBVIOUS
  <2> HIDE DEF g
  <2> QED BY <2>1, <2>2
<1>3. ASSUME NEW n \in Nat, n + 1 \in Given
      PROVE  n \in Given
  <2>1. PICK f : Right(f, n + 1)
    BY <1>3
  <2> DEFINE g == [p \in Nat |-> IF p = n THEN TarBody(a, f, n) ELSE f[p]]
  <2>2. g = [p \in Nat |-> g[p]]
    OBVIOUS
  <2>3. \A p \in Nat : p # n => g[p] = f[p]
    OBVIOUS
  <2>4. g[n] = TarBody(a, f, n)
    OBVIOUS
  <2> HIDE DEF g
  <2>5. ASSUME NEW p \in Nat, p >= n
        PROVE  g[p] = TarBody(a, g, p)
    <3>1. \A q \in Nat : q > p => f[q] = g[q]
      BY <2>3, <2>5
    <3>2. TarBody(a, f, p) = TarBody(a, g, p)
      BY <3>1, TarLocal
    <3>3. CASE p = n
      BY <2>4, <3>2, <3>3
    <3>4. CASE p # n
      <4>1. p >= n + 1
        BY <2>5, <3>4
      <4> QED BY <2>1, <2>3, <3>2, <3>4, <4>1
    <3> QED BY <3>3, <3>4
  <2>6. Right(g, n)
    BY <2>2, <2>5
  <2> QED BY <2>6
<1>4. 0 \in Given
  <2> HIDE DEF Given
  <2>1. \A p \in Nat : (\A q \in Nat : q > p => q \in Given) => p \in Given
    <3> SUFFICES ASSUME NEW p \in Nat, \A q \in Nat : q > p => q \in Given
                 PROVE  p \in Given
      OBVIOUS
    <3>1. p + 1 \in Given
      OBVIOUS
    <3> QED BY <1>3, <3>1
  <2>2. \A p \in Nat : p \in Given
    BY <1>1, <1>2, <2>1, Backwards
  <2> QED BY <2>2
<1>5. PICK f : Right(f, 0)
  BY <1>4
<1>6. f = [p \in Nat |-> TarBody(a, f, p)]
  <2>1. \A p \in Nat : f[p] = TarBody(a, f, p)
    BY <1>5
  <2> QED BY <1>5, <2>1
<1>7. TarFrom(a) = [p \in Nat |-> TarBody(a, TarFrom(a), p)]
  BY <1>6 DEF TarFrom, TarBody
<1> QED BY <1>7

Told  == [name : Names, value : Contents \union {Garbage}]
Tells == [ok : BOOLEAN, members : Seq(Told)]

LEMMA ValueType ==
  ASSUME NEW a, NEW p, NEW size
  PROVE  Value(a, p, size) \in Contents \union {Garbage}
BY DEF Value

\* Whatever the archive, what is read has its type.
LEMMA TarTypes ==
  ASSUME NEW a \in Archives
  PROVE  \A p \in Nat : TarFrom(a)[p] \in Tells
<1> DEFINE P == {p \in Nat : TarFrom(a)[p] \in Tells}
<1>1. a.bytes \in Nat
  BY DEF Archives
<1>2. << >> \in Seq(Told)
  BY EmptySeq
<1>3. Refused \in Tells /\ [ok |-> TRUE, members |-> << >>] \in Tells
  BY <1>2 DEF Refused, Tells
<1>4. ASSUME NEW p \in Nat, (p + 1) * Block > a.bytes
      PROVE  p \in P
  <2>1. TarFrom(a)[p] = [ok |-> TRUE, members |-> << >>]
    BY <1>4, TarReads DEF TarBody
  <2> QED BY <1>3, <2>1
<1>5. ASSUME NEW p \in Nat, \A q \in Nat : q > p => q \in P
      PROVE  p \in P
  <2> DEFINE h    == a.blocks[p + 1]
             rest == TarFrom(a)[p + 1 + Whole(h.size)]
  <2>1. CASE (p + 1) * Block > a.bytes \/ h = Zero
    BY <1>3, <2>1, TarReads DEF TarBody
  <2>2. CASE ~((p + 1) * Block > a.bytes \/ h = Zero) /\ (h.kind # "header" \/ ~h.sum)
    BY <1>3, <2>2, TarReads DEF TarBody
  <2>3. CASE ~((p + 1) * Block > a.bytes \/ h = Zero) /\ ~(h.kind # "header" \/ ~h.sum)
    <3>1. (p + 1) * Block <= a.bytes
      <4>1. (p + 1) * Block \in Nat
        BY TarConstants, NextBlock
      <4> QED BY <1>1, <2>3, <4>1
    <3>2. h.size \in Nat /\ h.name \in Names
      BY <2>3, <3>1, BlockThere DEF Headers
    <3>3. p + 1 + Whole(h.size) \in Nat /\ p + 1 + Whole(h.size) > p
      BY <3>2, WholeType
    <3>4. rest \in Tells
      BY <1>5, <3>3
    <3>5. TarFrom(a)[p] = IF h.type # "file" THEN rest
                          ELSE IF (p + 1) * Block + h.size > a.bytes \/ ~rest.ok THEN Refused
                          ELSE [ok |-> TRUE, members |->
                                  <<[name |-> h.name, value |-> Value(a, p + 1, h.size)]>> \o rest.members]
      BY <2>3, TarReads DEF TarBody
    <3> HIDE DEF h, rest
    <3>6. [name |-> h.name, value |-> Value(a, p + 1, h.size)] \in Told
      BY <3>2, ValueType DEF Told
    <3>7. <<[name |-> h.name, value |-> Value(a, p + 1, h.size)]>> \in Seq(Told)
      BY <3>6
    <3>8. <<[name |-> h.name, value |-> Value(a, p + 1, h.size)]>> \o rest.members \in Seq(Told)
      <4>1. rest.members \in Seq(Told)
        BY <3>4 DEF Tells
      <4> QED BY <3>7, <4>1, ConcatProperties
    <3>9. [ok |-> TRUE, members |-> <<[name |-> h.name, value |-> Value(a, p + 1, h.size)]>> \o rest.members] \in Tells
      BY <3>8 DEF Tells
    <3> QED BY <1>3, <3>4, <3>5, <3>9
  <2> QED BY <2>1, <2>2, <2>3
<1>6. \A p \in Nat : p >= a.bytes => p \in P
  <2> SUFFICES ASSUME NEW p \in Nat, p >= a.bytes
               PROVE  (p + 1) * Block > a.bytes
    BY <1>4
  <2>1. PICK b \in Nat : b = Block /\ b > 0
    BY TarConstants
  <2>2. (p + 1) * b >= p + 1
    BY <2>1
  <2> QED BY <1>1, <2>1, <2>2
<1> HIDE DEF P
<1>7. \A p \in Nat : p \in P
  BY <1>1, <1>5, <1>6, Backwards
<1> QED BY <1>7 DEF P

\* Of the members of a name, the first and the last are among them.
LEMMA FirstIs ==
  ASSUME NEW ms \in Seq(Told), NEW n \in NamesIn(ms)
  PROVE  \E i \in DOMAIN ms : ms[i].name = n /\ FirstOf(ms)[n] = ms[i].value
<1> DEFINE First(i) == ms[i].name = n /\ \A j \in 1 .. i - 1 : ms[j].name # n
           Named == {i \in DOMAIN ms : ms[i].name = n}
<1>1. Named \subseteq Nat /\ Named # {}
  BY LenProperties DEF NamesIn
<1>2. PICK i \in Named : \A j \in Named : i <= j
  <2> HIDE DEF Named
  <2> QED BY <1>1, LeastNat
<1>3. \A j \in 1 .. i - 1 : ms[j].name # n
  BY <1>1, <1>2, LenProperties
<1>4. \E k \in DOMAIN ms : First(k)
  BY <1>2, <1>3
<1>5. /\ (CHOOSE k \in DOMAIN ms : First(k)) \in DOMAIN ms
      /\ First(CHOOSE k \in DOMAIN ms : First(k))
  BY <1>4
<1> QED BY <1>5 DEF FirstOf

LEMMA LastIs ==
  ASSUME NEW ms \in Seq(Told), NEW n \in NamesIn(ms)
  PROVE  \E i \in DOMAIN ms : ms[i].name = n /\ LastOf(ms)[n] = ms[i].value
<1> DEFINE Final(i) == ms[i].name = n /\ \A j \in i + 1 .. Len(ms) : ms[j].name # n
           Behind == {k \in Nat : \E i \in DOMAIN ms : ms[i].name = n /\ i + k = Len(ms)}
<1>1. Behind \subseteq Nat /\ Behind # {}
  <2>1. PICK i \in DOMAIN ms : ms[i].name = n
    BY DEF NamesIn
  <2>2. i \in 1 .. Len(ms) /\ Len(ms) \in Nat
    BY LenProperties
  <2>3. Len(ms) - i \in Nat /\ i + (Len(ms) - i) = Len(ms)
    BY <2>2
  <2>4. Len(ms) - i \in Behind
    BY <2>1, <2>3
  <2> QED BY <2>4
<1>2. PICK k \in Behind : \A j \in Behind : k <= j
  <2> HIDE DEF Behind
  <2> QED BY <1>1, LeastNat
<1>3. PICK i \in DOMAIN ms : ms[i].name = n /\ i + k = Len(ms)
  BY <1>2
<1>4. ASSUME NEW j \in i + 1 .. Len(ms), ms[j].name = n
      PROVE  FALSE
  <2>1. i \in 1 .. Len(ms) /\ Len(ms) \in Nat /\ k \in Nat
    BY <1>2, LenProperties
  <2>2. j \in DOMAIN ms /\ Len(ms) - j \in Nat /\ j + (Len(ms) - j) = Len(ms)
    BY <2>1, LenProperties
  <2>3. Len(ms) - j \in Behind
    BY <1>4, <2>2
  <2>4. k <= Len(ms) - j
    BY <1>2, <2>3
  <2> QED BY <1>3, <2>1, <2>4
<1>5. \E l \in DOMAIN ms : Final(l)
  BY <1>3, <1>4
<1>6. /\ (CHOOSE l \in DOMAIN ms : Final(l)) \in DOMAIN ms
      /\ Final(CHOOSE l \in DOMAIN ms : Final(l))
  BY <1>5
<1> QED BY <1>6 DEF LastOf

----------------------------------------------------------------------------
(* What pack writes. *)

\* Forwards up to n.
LEMMA Forwards ==
  ASSUME NEW P, NEW n \in Nat, NEW m \in 0 .. n, m \in P, \A k \in m .. n - 1 : k \in P => k + 1 \in P
  PROVE  \A k \in m .. n : k \in P
<1> DEFINE Bad == {k \in m .. n : k \notin P}
<1> SUFFICES ASSUME Bad # {}
             PROVE  FALSE
  OBVIOUS
<1>1. Bad \subseteq Nat
  OBVIOUS
<1>2. PICK k \in Bad : \A j \in Bad : k <= j
  <2> HIDE DEF Bad
  <2> QED BY <1>1, LeastNat
<1>3. k \in m .. n /\ k \notin P /\ k # m
  BY <1>2
<1>4. k - 1 \in m .. n - 1 /\ ~(k <= k - 1) /\ (k - 1) + 1 = k
  BY <1>3
<1>5. k - 1 \in P
  BY <1>2, <1>4
<1> QED BY <1>3, <1>4, <1>5

More(d, w, k) == IF PathOrder[k] \in DOMAIN d THEN w \o Member(PathOrder[k], d[PathOrder[k]]) ELSE w

LEMMA WrittenExists ==
  ASSUME NEW d, NEW n \in Nat
  PROVE  \E f : f = [k \in 0 .. n |-> IF k = 0 THEN << >> ELSE More(d, f[k - 1], k)]
<1> DEFINE Made(f, m) == f = [k \in 0 .. m |-> IF k = 0 THEN << >> ELSE More(d, f[k - 1], k)]
           P == {m \in Nat : \E f : Made(f, m)}
<1>1. 0 \in P
  <2>1. Made([k \in 0 .. 0 |-> << >>], 0)
    OBVIOUS
  <2> QED BY <2>1
<1>2. ASSUME NEW m \in Nat, m \in P
      PROVE  m + 1 \in P
  <2>1. PICK f : Made(f, m)
    BY <1>2
  <2> DEFINE g == [k \in 0 .. m + 1 |-> IF k = m + 1 THEN More(d, f[m], m + 1) ELSE f[k]]
  <2>2. ASSUME NEW k \in 0 .. m + 1
        PROVE  g[k] = IF k = 0 THEN << >> ELSE More(d, g[k - 1], k)
    <3>1. \A j \in 0 .. m : f[j] = IF j = 0 THEN << >> ELSE More(d, f[j - 1], j)
      BY <2>1
    <3>2. CASE k = m + 1
      BY <3>2
    <3>3. CASE k # m + 1
      BY <3>1, <3>3
    <3> QED BY <3>2, <3>3
  <2>3. Made(g, m + 1)
    BY <2>2
  <2>4. m + 1 \in Nat
    OBVIOUS
  <2>5. \E h : Made(h, m + 1)
    <3> HIDE DEF g, Made
    <3> QED BY <2>3
  <2> QED BY <2>4, <2>5
<1>3. \A k \in 0 .. n : k \in P
  <2> HIDE DEF P
  <2>1. 0 \in 0 .. n /\ \A k \in 0 .. n - 1 : k \in P => k + 1 \in P
    BY <1>2
  <2> QED BY <1>1, <2>1, Forwards
<1> QED BY <1>3

LEMMA WrittenSteps ==
  ASSUME NEW d
  PROVE  /\ Len(PathOrder) \in Nat /\ Written(d)[0] = << >>
         /\ \A k \in 1 .. Len(PathOrder) : Written(d)[k] = More(d, Written(d)[k - 1], k)
<1>1. Len(PathOrder) \in Nat
  BY TarConstants, LenProperties
<1>2. PICK f : f = [k \in 0 .. Len(PathOrder) |-> IF k = 0 THEN << >> ELSE More(d, f[k - 1], k)]
  BY <1>1, WrittenExists
<1>3. Written(d) = [k \in 0 .. Len(PathOrder) |-> IF k = 0 THEN << >> ELSE More(d, Written(d)[k - 1], k)]
  BY <1>2 DEF Written, More
<1> QED BY <1>1, <1>3

----------------------------------------------------------------------------
(* The ladder, for every container whose members are well-typed. *)

TypedContainer(c) == \A n \in DOMAIN c : WellTyped(c[n])

LEMMA SealedSame == \A c : TsSealed(c) = CppSealed(c)
BY DEF TsSealed, CppSealed

LEMMA LoadsSame == \A c : CppLoads(c) <=> TsLoads(c)
BY SealedSame DEF CppLoads, TsLoads

LEMMA CoreSame ==
  ASSUME NEW c, TypedContainer(c), CppLoads(c)
  PROVE  TsCore(c) = CppCore(c)
<1>1. TsSealed(c) = CppSealed(c)
  BY SealedSame
<1>2. "content.md" \in CppSealed(c) => Is(c, Policy, "policy") /\ c[Policy].attested \in BOOLEAN
  BY DEF CppSealed, TypedContainer, WellTyped, Is, Has
<1>3. CASE ~Has(c, "schema.yaml") \/ "schema.yaml" \in CppSealed(c)
  BY <1>1, <1>3 DEF TsCore, CppCore
<1>4. CASE Has(c, "schema.yaml") /\ "schema.yaml" \notin CppSealed(c) /\ "content.md" \notin CppSealed(c)
  BY <1>1, <1>4 DEF TsCore, CppCore
<1>5. CASE Has(c, "schema.yaml") /\ "schema.yaml" \notin CppSealed(c) /\ "content.md" \in CppSealed(c)
  BY <1>1, <1>2, <1>5 DEF TsCore, CppCore
<1> QED BY <1>3, <1>4, <1>5

LEMMA IntegritySame ==
  ASSUME NEW c
  PROVE  /\ TsIntegrity(c) \subseteq CppIntegrity(c)
         /\ CppIntegrity(c) \ TsIntegrity(c) \subseteq {<<"E_MANIFEST_EXTRA_FILE", n>> : n \in Inherited}
<1>1. CASE ~Has(c, "manifest.json") \/ c["manifest.json"].algorithm # "sha256"
  BY <1>1 DEF TsIntegrity, CppIntegrity
<1>2. CASE Has(c, "manifest.json") /\ c["manifest.json"].algorithm = "sha256"
  <2> DEFINE files == c["manifest.json"].files
             missing == {<<"E_MANIFEST_MISSING_FILE", n>> : n \in DOMAIN files \ DOMAIN c}
             wrong == {<<"E_MANIFEST_HASH_MISMATCH", n>> : n \in {m \in DOMAIN files \intersect DOMAIN c : c[m] # files[m]}}
             extra == {<<"E_MANIFEST_EXTRA_FILE", n>> : n \in (DOMAIN c \ DOMAIN files) \ Excluded}
             verdict(n) == IF ~Has(c, n) THEN "E_MANIFEST_MISSING_FILE" ELSE "E_MANIFEST_HASH_MISMATCH"
             bad == {<<verdict(n), n>> : n \in {m \in DOMAIN files : ~(Has(c, m) /\ c[m] = files[m])}}
             more == {<<"E_MANIFEST_EXTRA_FILE", n>> : n \in {m \in DOMAIN c \ Excluded : ~(m \in DOMAIN files \/ m \in Inherited)}}
  <2>1. CppIntegrity(c) = (missing \union wrong) \union extra
    BY <1>2 DEF CppIntegrity
  <2>2. TsIntegrity(c) = bad \union more
    BY <1>2 DEF TsIntegrity
  <2> HIDE DEF files
  <2>3. bad = missing \union wrong
    <3>1. ASSUME NEW n \in DOMAIN files, ~(Has(c, n) /\ c[n] = files[n])
          PROVE  <<verdict(n), n>> \in missing \union wrong
      BY <3>1 DEF Has
    <3>2. bad \subseteq missing \union wrong
      BY <3>1
    <3>3. missing \subseteq bad
      BY DEF Has
    <3>4. wrong \subseteq bad
      BY DEF Has
    <3> QED BY <3>2, <3>3, <3>4
  <2>4. more \subseteq extra /\ extra \ more \subseteq {<<"E_MANIFEST_EXTRA_FILE", n>> : n \in Inherited}
    OBVIOUS
  <2> HIDE DEF missing, wrong, extra, bad, more
  <2> QED BY <2>1, <2>2, <2>3, <2>4
<1> QED BY <1>1, <1>2

LEMMA SignatureSame ==
  ASSUME NEW v, WellTyped(v), NEW manifest
  PROVE  LET odd == v.kind = "signature" /\ (v.newline \/ v.kid \in {"no base58", "no point"})
         IN  /\ ~odd => TsSignature(v, manifest) = CppSignature(v, manifest)
             /\ odd => /\ CppSignature(v, manifest) \in {"E_SIG_INVALID", "E_SIG_ALG_NOT_ALLOWED", "E_SIG_ALG_MISMATCH", "E_KID_UNRESOLVABLE"}
                       /\ TsSignature(v, manifest) # CppSignature(v, manifest) =>
                            /\ CppSignature(v, manifest) = "E_SIG_INVALID"
                            /\ TsSignature(v, manifest) \in {"E_KID_UNRESOLVABLE", "valid"}
BY DEF TsSignature, CppSignature, WellTyped, Kids

\* The signatures that fail, and only those.
LEMMA SignedSame ==
  ASSUME NEW c, TypedContainer(c)
  PROVE  /\ \A x \in CppSigned(c) : \/ x \in TsSigned(c)
                                    \/ x = <<"E_IO", "manifest.json">> /\ ~Has(c, "manifest.json")
                                    \/ \E f \in Odd(c) : x = <<"E_SIG_INVALID", f>>
         /\ \A x \in TsSigned(c) : \/ x \in CppSigned(c)
                                   \/ \E f \in Odd(c) : x = <<"E_KID_UNRESOLVABLE", f>> /\ <<"E_SIG_INVALID", f>> \in CppSigned(c)
<1> DEFINE files == DOMAIN c \intersect Signatures
           m == c["manifest.json"]
           cpp(f) == CppSignature(c[f], m)
           ts(f) == TsSignature(c[f], m)
<1>1. CASE ~Has(c, "manifest.json")
  BY <1>1 DEF CppSigned, TsSigned
<1>2. CASE Has(c, "manifest.json") /\ files = {}
  <2>1. {f \in Signatures : Has(c, f)} = {}
    BY <1>2 DEF Has
  <2> QED BY <1>2, <2>1 DEF CppSigned, TsSigned
<1>3. CASE Has(c, "manifest.json") /\ files # {}
  <2>1. {f \in Signatures : Has(c, f)} = files
    BY DEF Has
  <2>2. CppSigned(c) = {<<cpp(f), f>> : f \in {g \in files : cpp(g) # "valid"}}
    BY <1>3 DEF CppSigned
  <2>3. TsSigned(c) = {<<ts(f), f>> : f \in {g \in files : ts(g) # "valid"}}
    BY <1>3, <2>1 DEF TsSigned
  <2>4. \A f \in files : /\ f \notin Odd(c) => ts(f) = cpp(f)
                         /\ cpp(f) # ts(f) => /\ f \in Odd(c) /\ cpp(f) = "E_SIG_INVALID"
                                              /\ ts(f) \in {"E_KID_UNRESOLVABLE", "valid"}
    BY SignatureSame DEF Odd, Is, Has, TypedContainer
  <2> HIDE DEF files, cpp, ts
  <2>5. ASSUME NEW x \in CppSigned(c)
        PROVE  x \in TsSigned(c) \/ \E f \in Odd(c) : x = <<"E_SIG_INVALID", f>>
    <3>1. PICK f \in files : x = <<cpp(f), f>> /\ cpp(f) # "valid"
      BY <2>2
    <3>2. CASE cpp(f) = ts(f)
      BY <2>3, <3>1, <3>2
    <3>3. CASE cpp(f) # ts(f)
      BY <2>4, <3>1, <3>3
    <3> QED BY <3>2, <3>3
  <2>6. ASSUME NEW x \in TsSigned(c)
        PROVE  \/ x \in CppSigned(c)
               \/ \E f \in Odd(c) : x = <<"E_KID_UNRESOLVABLE", f>> /\ <<"E_SIG_INVALID", f>> \in CppSigned(c)
    <3>1. PICK f \in files : x = <<ts(f), f>> /\ ts(f) # "valid"
      BY <2>3
    <3>2. CASE cpp(f) = ts(f)
      BY <2>2, <3>1, <3>2
    <3>3. CASE cpp(f) # ts(f)
      <4>1. f \in Odd(c) /\ cpp(f) = "E_SIG_INVALID" /\ ts(f) = "E_KID_UNRESOLVABLE"
        BY <2>4, <3>1, <3>3
      <4>2. <<cpp(f), f>> \in CppSigned(c)
        BY <2>2, <4>1
      <4> QED BY <3>1, <4>1, <4>2
    <3> QED BY <3>2, <3>3
  <2> QED BY <2>5, <2>6
<1> QED BY <1>1, <1>2, <1>3

LEMMA EncryptedSame ==
  ASSUME NEW c, TypedContainer(c)
  PROVE  TsEncrypted(c) = CppEncrypted(c)
<1> DEFINE p == c[Policy]
           sealed == CppSealed(c)
           issue(code, subject, when) == IF when THEN {<<code, subject>>} ELSE {}
           files == issue("E_POLICY_INVALID", "no files", p.list = << >>)
           nobody == issue("E_POLICY_INVALID", "no recipients", p.recipients = {})
           open == issue("E_POLICY_INVALID", "not encrypted", p.attested /\ "content.md" \notin sealed)
           noschema == issue("E_POLICY_INVALID", "no schema", p.attested /\ "content.md" \in sealed
                             /\ ("schema.yaml" \in sealed \/ ~Has(c, "schema.yaml")))
           partial == issue("E_POLICY_INVALID", "incomplete", "incomplete" \in p.recipients)
           method == issue("E_ALGO_NOT_ALLOWED", "method", ~p.method)
           missing == {<<"E_POLICY_INVALID", f>> : f \in {g \in ToSet(p.list) : ~Has(c, g)}}
           recipient == issue("E_KID_UNRESOLVABLE", "recipient", "unresolvable" \in p.recipients)
           whats == {w \in {"no files", "no recipients", "not encrypted", "no schema", "incomplete"} :
                         \/ w = "no files"      /\ Len(p.list) = 0
                         \/ w = "no recipients" /\ p.recipients = {}
                         \/ w = "incomplete"    /\ "incomplete" \in p.recipients
                         \/ w = "not encrypted" /\ p.attested /\ "content.md" \notin TsSealed(c)
                         \/ w = "no schema"     /\ p.attested /\ "content.md" \in TsSealed(c)
                                               /\ (Has(c, "schema.yaml") => "schema.yaml" \in TsSealed(c))}
           tsinvalid == {<<"E_POLICY_INVALID", what>> : what \in whats}
           tsmissing == {<<"E_POLICY_INVALID", p.list[i]>> : i \in {j \in DOMAIN p.list : ~Has(c, p.list[j])}}
           tsmethod == {<<"E_ALGO_NOT_ALLOWED", w>> : w \in {x \in {"method"} : ~p.method}}
           tsrecipient == {<<"E_KID_UNRESOLVABLE", "recipient">> : r \in p.recipients \intersect {"unresolvable"}}
<1>1. CASE ~Has(c, Policy) \/ p.kind # "policy"
  BY <1>1 DEF TsEncrypted, CppEncrypted
<1>2. CASE Has(c, Policy) /\ p.kind = "policy"
  <2>1. p.list \in Seq(ToSet(p.list)) /\ p.attested \in BOOLEAN /\ p.method \in BOOLEAN
    BY <1>2 DEF TypedContainer, WellTyped, Has
  <2>2. CppEncrypted(c) = method \union files \union missing \union nobody \union open \union noschema
                            \union partial \union recipient
    BY <1>2 DEF CppEncrypted
  <2>3. TsEncrypted(c) = tsinvalid \union tsmissing \union tsmethod \union tsrecipient
    BY <1>2 DEF TsEncrypted
  <2>4. Len(p.list) = 0 <=> p.list = << >>
    <3>1. PICK S : S = ToSet(p.list)
      OBVIOUS
    <3>3. PICK l \in Seq(S) : l = p.list
      BY <2>1, <3>1
    <3>2. Len(l) = 0 <=> l = << >>
      BY EmptySeq, LenProperties
    <3> QED BY <3>2, <3>3
  <2>5. TsSealed(c) = sealed
    BY SealedSame
  <2>6. ToSet(p.list) = {p.list[i] : i \in DOMAIN p.list}
    BY DEF ToSet
  <2>7. tsmissing = missing
    BY <2>6
  <2>8. tsmethod = method
    OBVIOUS
  <2>9. tsrecipient = recipient
    OBVIOUS
  <2>10. tsinvalid = files \union nobody \union open \union noschema \union partial
    <3> HIDE DEF p, sealed
    <3>1. whats = {w \in {"no files"} : p.list = << >>} \union {w \in {"no recipients"} : p.recipients = {}}
                  \union {w \in {"not encrypted"} : p.attested /\ "content.md" \notin sealed}
                  \union {w \in {"no schema"} : p.attested /\ "content.md" \in sealed
                             /\ ("schema.yaml" \in sealed \/ ~Has(c, "schema.yaml"))}
                  \union {w \in {"incomplete"} : "incomplete" \in p.recipients}
      BY <2>4, <2>5
    <3> HIDE DEF whats
    <3>2. tsinvalid = {<<"E_POLICY_INVALID", what>> : what \in whats}
      OBVIOUS
    <3> HIDE DEF tsinvalid
    <3> QED BY <3>1, <3>2
  <2> HIDE DEF method, files, missing, nobody, open, noschema, partial, recipient, tsinvalid, tsmissing, tsmethod, tsrecipient
  <2> QED BY <2>2, <2>3, <2>7, <2>8, <2>9, <2>10
<1> QED BY <1>1, <1>2

LEMMA RenderSame == ASSUME NEW c PROVE TsRender(c) = CppRender(c)
BY SealedSame DEF TsRender, CppRender

LEMMA LevelsAre ==
  ASSUME NEW c, NEW level
  PROVE  /\ CppValidate(c, level) = {x \in CppCore(c) \union CppIntegrity(c) \union CppSigned(c)
                                            \union CppEncrypted(c) \union CppRender(c) :
              \/ x \in CppCore(c)
              \/ x \in CppIntegrity(c) /\ AtLeast(level, "integrity")
              \/ x \in CppSigned(c) /\ AtLeast(level, "signed")
              \/ x \in CppEncrypted(c) /\ AtLeast(level, "encrypted")
              \/ x \in CppRender(c) /\ AtLeast(level, "render")}
         /\ \A x : x \in TsValidate(c, level) <=>
              \/ x \in TsCore(c) /\ AtLeast(level, "core")
              \/ x \in TsIntegrity(c) /\ AtLeast(level, "integrity")
              \/ x \in TsSigned(c) /\ AtLeast(level, "signed")
              \/ x \in TsEncrypted(c) /\ AtLeast(level, "encrypted")
              \/ x \in TsRender(c) /\ AtLeast(level, "render")
<1>1. CppValidate(c, level) = {x \in CppCore(c) \union CppIntegrity(c) \union CppSigned(c)
                                            \union CppEncrypted(c) \union CppRender(c) :
              \/ x \in CppCore(c)
              \/ x \in CppIntegrity(c) /\ AtLeast(level, "integrity")
              \/ x \in CppSigned(c) /\ AtLeast(level, "signed")
              \/ x \in CppEncrypted(c) /\ AtLeast(level, "encrypted")
              \/ x \in CppRender(c) /\ AtLeast(level, "render")}
  BY DEF CppValidate
<1> DEFINE checks == [core |-> TsCore(c), integrity |-> TsIntegrity(c), signed |-> TsSigned(c),
                      encrypted |-> TsEncrypted(c), render |-> TsRender(c)]
<1>2. TsValidate(c, level) = UNION {checks[l] : l \in {k \in DOMAIN checks : AtLeast(level, k)}}
  BY DEF TsValidate
<1>3. DOMAIN checks = {"core", "integrity", "signed", "encrypted", "render"}
  OBVIOUS
<1>4. /\ checks["core"] = TsCore(c) /\ checks["integrity"] = TsIntegrity(c) /\ checks["signed"] = TsSigned(c)
      /\ checks["encrypted"] = TsEncrypted(c) /\ checks["render"] = TsRender(c)
  OBVIOUS
<1> HIDE DEF checks
<1>5. \A x : x \in TsValidate(c, level) <=> \E l \in DOMAIN checks : x \in checks[l] /\ AtLeast(level, l)
  BY <1>2
<1>6. \A x : (\E l \in DOMAIN checks : x \in checks[l] /\ AtLeast(level, l)) <=>
              \/ x \in TsCore(c) /\ AtLeast(level, "core")
              \/ x \in TsIntegrity(c) /\ AtLeast(level, "integrity")
              \/ x \in TsSigned(c) /\ AtLeast(level, "signed")
              \/ x \in TsEncrypted(c) /\ AtLeast(level, "encrypted")
              \/ x \in TsRender(c) /\ AtLeast(level, "render")
  BY <1>3, <1>4
<1> QED BY <1>1, <1>5, <1>6

LEMMA LevelsAll == \A level \in ToSet(Levels) : AtLeast(level, "core")
<1>1. /\ DOMAIN Levels = 1 .. 5 /\ Levels[1] = "core"
      /\ ToSet(Levels) = {Levels[i] : i \in 1 .. 5}
  BY DEF Levels, ToSet
<1> SUFFICES ASSUME NEW i \in 1 .. 5 PROVE AtLeast(Levels[i], "core")
  BY <1>1
<1> QED BY <1>1 DEF AtLeast

LEMMA TsAgreesAlways ==
  ASSUME NEW c, TypedContainer(c)
  PROVE  TsAgrees(c)
<1> SUFFICES ASSUME CppLoads(c), NEW level \in ToSet(Levels)
             PROVE  LET cpp == CppValidate(c, level)  ts == TsValidate(c, level)
                    IN  /\ cpp \ ts \subseteq {<<"E_IO", "manifest.json">>}
                                   \union {<<"E_SIG_INVALID", f>> : f \in Odd(c)}
                                   \union {<<"E_MANIFEST_EXTRA_FILE", n>> : n \in Inherited}
                        /\ ts \ cpp \subseteq {<<"E_KID_UNRESOLVABLE", f>> : f \in Odd(c)}
                        /\ ts \ cpp # {} => cpp # {}
  BY LoadsSame DEF TsAgrees
<1>1. TsCore(c) = CppCore(c) /\ TsEncrypted(c) = CppEncrypted(c) /\ TsRender(c) = CppRender(c) /\ AtLeast(level, "core")
  BY CoreSame, EncryptedSame, RenderSame, LevelsAll
<1> DEFINE cpp == CppValidate(c, level)
           ts == TsValidate(c, level)
<1>2. \A x : x \in cpp <=>
              \/ x \in CppCore(c)
              \/ x \in CppIntegrity(c) /\ AtLeast(level, "integrity")
              \/ x \in CppSigned(c) /\ AtLeast(level, "signed")
              \/ x \in CppEncrypted(c) /\ AtLeast(level, "encrypted")
              \/ x \in CppRender(c) /\ AtLeast(level, "render")
  BY LevelsAre
<1>3. \A x : x \in ts <=>
              \/ x \in CppCore(c)
              \/ x \in TsIntegrity(c) /\ AtLeast(level, "integrity")
              \/ x \in TsSigned(c) /\ AtLeast(level, "signed")
              \/ x \in CppEncrypted(c) /\ AtLeast(level, "encrypted")
              \/ x \in CppRender(c) /\ AtLeast(level, "render")
  BY <1>1, LevelsAre
<1> HIDE DEF cpp, ts
<1>4. ASSUME NEW x \in cpp, x \notin ts
      PROVE  x = <<"E_IO", "manifest.json">> \/ (\E f \in Odd(c) : x = <<"E_SIG_INVALID", f>>)
             \/ (\E n \in Inherited : x = <<"E_MANIFEST_EXTRA_FILE", n>>)
  <2>1. (x \in CppIntegrity(c) /\ x \notin TsIntegrity(c)) \/ (x \in CppSigned(c) /\ x \notin TsSigned(c))
    BY <1>2, <1>3, <1>4
  <2>2. CASE x \in CppIntegrity(c) /\ x \notin TsIntegrity(c)
    BY <2>2, IntegritySame
  <2>3. CASE x \in CppSigned(c) /\ x \notin TsSigned(c)
    BY <2>3, SignedSame
  <2> QED BY <2>1, <2>2, <2>3
<1>5. ASSUME NEW x \in ts, x \notin cpp
      PROVE  (\E f \in Odd(c) : x = <<"E_KID_UNRESOLVABLE", f>>) /\ cpp # {}
  <2>1. (x \in TsIntegrity(c) /\ x \notin CppIntegrity(c)) \/ (x \in TsSigned(c) /\ x \notin CppSigned(c) /\ AtLeast(level, "signed"))
    BY <1>2, <1>3, <1>5
  <2>2. x \in TsSigned(c) /\ x \notin CppSigned(c) /\ AtLeast(level, "signed")
    BY <2>1, IntegritySame
  <2>3. PICK f \in Odd(c) : x = <<"E_KID_UNRESOLVABLE", f>> /\ <<"E_SIG_INVALID", f>> \in CppSigned(c)
    BY <2>2, SignedSame
  <2>4. <<"E_SIG_INVALID", f>> \in cpp
    BY <1>2, <2>2, <2>3
  <2> QED BY <2>3, <2>4
<1>6. cpp \ ts \subseteq {<<"E_IO", "manifest.json">>} \union {<<"E_SIG_INVALID", f>> : f \in Odd(c)}
                                   \union {<<"E_MANIFEST_EXTRA_FILE", n>> : n \in Inherited}
  BY <1>4
<1>7. ts \ cpp \subseteq {<<"E_KID_UNRESOLVABLE", f>> : f \in Odd(c)} /\ (ts \ cpp # {} => cpp # {})
  BY <1>5
<1> QED BY <1>6, <1>7 DEF cpp, ts

LEMMA MicroIntegritySame ==
  ASSUME NEW c, CppLoads(c)
  PROVE  MicroIntegrity(c) = CppIntegrity(c)
<1>1. CASE ~Has(c, "manifest.json") \/ c["manifest.json"].algorithm # "sha256"
  BY <1>1 DEF MicroIntegrity, CppIntegrity, CppLoads, MicroAlgorithm, MicroReadable
<1>2. CASE Has(c, "manifest.json") /\ c["manifest.json"].algorithm = "sha256"
  <2> DEFINE files == c["manifest.json"].files
             missing == {<<"E_MANIFEST_MISSING_FILE", n>> : n \in DOMAIN files \ DOMAIN c}
             wrong == {<<"E_MANIFEST_HASH_MISMATCH", n>> : n \in {m \in DOMAIN files \intersect DOMAIN c : c[m] # files[m]}}
             extra == {<<"E_MANIFEST_EXTRA_FILE", n>> : n \in (DOMAIN c \ DOMAIN files) \ Excluded}
             bad == {<<IF Has(c, n) THEN "E_MANIFEST_HASH_MISMATCH" ELSE "E_MANIFEST_MISSING_FILE", n>> :
                       n \in {m \in DOMAIN files : Has(c, m) => c[m] # files[m]}}
             more == {<<"E_MANIFEST_EXTRA_FILE", n>> : n \in {m \in DOMAIN c : m \notin Excluded /\ m \notin DOMAIN files}}
  <2>1. CppIntegrity(c) = (missing \union wrong) \union extra
    BY <1>2 DEF CppIntegrity
  <2>2. MicroIntegrity(c) = bad \union more
    BY <1>2 DEF MicroIntegrity, CppLoads, MicroAlgorithm, MicroReadable, MicroListed
  <2> HIDE DEF files
  <2>3. bad = missing \union wrong
    <3>1. ASSUME NEW n \in DOMAIN files, Has(c, n) => c[n] # files[n]
          PROVE  <<IF Has(c, n) THEN "E_MANIFEST_HASH_MISMATCH" ELSE "E_MANIFEST_MISSING_FILE", n>> \in missing \union wrong
      BY <3>1 DEF Has
    <3>2. bad \subseteq missing \union wrong
      BY <3>1
    <3>3. missing \subseteq bad
      BY DEF Has
    <3>4. wrong \subseteq bad
      BY DEF Has
    <3> QED BY <3>2, <3>3, <3>4
  <2>4. more = extra
    OBVIOUS
  <2> HIDE DEF missing, wrong, extra, bad, more
  <2> QED BY <2>1, <2>2, <2>3, <2>4
<1> QED BY <1>1, <1>2

LEMMA MicroAgreesAlways ==
  ASSUME NEW c, TypedContainer(c)
  PROVE  MicroAgrees(c)
<1> SUFFICES ASSUME CppLoads(c)
             PROVE  /\ MicroIntegrity(c) = CppIntegrity(c)
                    /\ ~Flush(c) /\ ~SealedInName(c) /\ "content.md" \notin CppSealed(c) => MicroCore(c) = CppCore(c)
                    /\ MicroCore(c) \union MicroIntegrity(c) = {} /\ CppValidate(c, "integrity") # {} =>
                         Flush(c) \/ NothingToBind(c)
  BY DEF MicroAgrees
<1>1. MicroIntegrity(c) = CppIntegrity(c)
  BY MicroIntegritySame
<1> DEFINE schema == c["schema.yaml"]
<1>2. Has(c, "schema.yaml") /\ "schema.yaml" \notin CppSealed(c) => Is(c, "schema.yaml", "schema")
  BY DEF CppLoads, Is
<1>3. ASSUME ~Flush(c)
      PROVE  MicroSealed(c, "content.md") <=> "content.md" \in CppSealed(c)
  BY <1>3 DEF MicroSealed, CppSealed, Flush, Is, Has
<1>4. ASSUME ~Flush(c), Is(c, "schema.yaml", "schema")
      PROVE  MicroSections(c) = schema.sections
  BY <1>4 DEF MicroSections, Flush, Is
<1>5. \A bound : Missing(<< >>, bound) = {}
  BY DEF Missing, ToSet
<1>6. ASSUME ~Flush(c), ~SealedInName(c), "content.md" \notin CppSealed(c)
      PROVE  MicroCore(c) = CppCore(c)
  <2>1. CASE Is(c, "schema.yaml", "schema")
    <3>1. "schema.yaml" \notin CppSealed(c) /\ Has(c, "schema.yaml")
      BY <1>6, <2>1 DEF SealedInName, Is
    <3> QED BY <1>3, <1>4, <1>5, <1>6, <2>1, <3>1 DEF MicroCore, CppCore
  <2>2. CASE ~Is(c, "schema.yaml", "schema")
    <3>1. ~Has(c, "schema.yaml") \/ "schema.yaml" \in CppSealed(c)
      BY <1>2, <2>2
    <3>2. MicroSections(c) = << >>
      BY <2>2 DEF MicroSections
    <3> QED BY <3>1, <3>2 DEF MicroCore, CppCore
  <2> QED BY <2>1, <2>2
<1>7. ASSUME MicroCore(c) \union MicroIntegrity(c) = {}, CppValidate(c, "integrity") # {}, ~Flush(c)
      PROVE  NothingToBind(c)
  <2>1. AtLeast("integrity", "integrity") /\ ~AtLeast("integrity", "signed")
        /\ ~AtLeast("integrity", "encrypted") /\ ~AtLeast("integrity", "render")
    BY DEF AtLeast, Levels
  <2>2. CppValidate(c, "integrity") = CppCore(c) \union CppIntegrity(c)
    BY <2>1 DEF CppValidate
  <2>3. CppCore(c) # {} /\ Has(c, "content.md")
    BY <1>1, <1>7, <2>2 DEF MicroCore
  <2>4. Has(c, "schema.yaml") /\ "schema.yaml" \notin CppSealed(c) /\ Is(c, "schema.yaml", "schema")
    BY <1>2, <2>3 DEF CppCore
  <2>5. CASE "content.md" \notin CppSealed(c)
    <3>1. ~SealedInName(c)
      BY <2>4 DEF SealedInName
    <3> QED BY <1>6, <1>7, <2>3, <2>5, <3>1
  <2>6. CASE "content.md" \in CppSealed(c)
    <3>1. MicroSealed(c, "content.md")
      BY <1>3, <1>7, <2>6
    <3>2. MicroSections(c) = << >>
      BY <1>7, <3>1 DEF MicroCore
    <3> QED BY <1>4, <1>7, <2>4, <2>6, <3>2 DEF NothingToBind
  <2> QED BY <2>5, <2>6
<1> QED BY <1>1, <1>6, <1>7

----------------------------------------------------------------------------
(* Archives are archives, whatever happens to them. *)

LEMMA WholeBlocks ==
  ASSUME NEW n \in Nat
  PROVE  Whole(Block * n) = n /\ Block * n \in Nat
<1>1. PICK b \in Nat : b = Block /\ b > 0
  BY TarConstants
<1>2. PICK m \in Nat : m = b * n
  BY <1>1
<1>3. PICK q \in Int : q = Whole(Block * n) /\ q * b <= m + b - 1 /\ (q + 1) * b > m + b - 1
  <2>1. Whole(Block * n) = (m + b - 1) \div b
    BY <1>1, <1>2 DEF Whole
  <2>2. m + b - 1 \in Int
    BY <1>1, <1>2
  <2> QED BY <1>1, <2>1, <2>2
<1>4. ~(q > n)
  <2> SUFFICES ASSUME q >= n + 1
               PROVE  FALSE
    BY <1>3
  <2>1. q * b >= (n + 1) * b
    BY <1>1, <1>3
  <2>2. (n + 1) * b = m + b
    BY <1>1, <1>2
  <2> QED BY <1>1, <1>2, <1>3, <2>1, <2>2
<1>5. ~(q < n)
  <2> SUFFICES ASSUME q + 1 <= n
               PROVE  FALSE
    BY <1>3
  <2>1. (q + 1) * b <= n * b
    BY <1>1, <1>3
  <2>2. n * b = m
    BY <1>1, <1>2
  <2> QED BY <1>1, <1>2, <1>3, <2>1, <2>2
<1>6. q = n
  BY <1>3, <1>4, <1>5
<1>7. Block * n \in Nat
  BY <1>1, <1>2
<1> QED BY <1>3, <1>6, <1>7

LEMMA WholeBounds ==
  ASSUME NEW n \in Nat
  PROVE  /\ Whole(n) \in Nat
         /\ Whole(n) * Block <= n + Block - 1 /\ (Whole(n) + 1) * Block > n + Block - 1
<1>1. PICK b \in Nat : b = Block /\ b > 0
  BY TarConstants
<1>2. PICK q \in Nat : q = Whole(n)
  BY WholeType
<1>3. PICK m \in Int : m = n + b - 1
  BY <1>1
<1>4. q = m \div b
  BY <1>1, <1>2, <1>3 DEF Whole
<1>5. q * b <= m /\ (q + 1) * b > m
  BY <1>1, <1>3, <1>4
<1> QED BY <1>1, <1>2, <1>3, <1>5

LEMMA WholeGrows ==
  ASSUME NEW n \in Nat, NEW m \in Nat, n <= m
  PROVE  Whole(n) <= Whole(m)
<1>1. PICK b \in Nat : b = Block /\ b > 0
  BY TarConstants
<1>2. PICK q \in Nat : q = Whole(m) /\ (q + 1) * b > m + b - 1
  BY <1>1, WholeBounds
<1>3. PICK w \in Nat : w = Whole(n) /\ w * b <= n + b - 1
  BY <1>1, WholeBounds
<1>4. ASSUME w >= q + 1
      PROVE  FALSE
  <2>1. w * b >= (q + 1) * b
    BY <1>1, <1>2, <1>3, <1>4
  <2> QED BY <1>1, <1>2, <1>3, <2>1
<1> QED BY <1>2, <1>3, <1>4

LEMMA ArchiveType ==
  ASSUME NEW b \in Seq(Blocks)
  PROVE  Archive(b) \in Archives
<1>1. Len(b) \in Nat
  BY LenProperties
<1>2. Block * Len(b) \in Nat /\ Whole(Block * Len(b)) = Len(b)
  BY <1>1, WholeBlocks
<1> QED BY <1>2 DEF Archive, Archives, Blocks

LEMMA ZerosType == <<Zero, Zero>> \in Seq(Blocks) /\ Zero \in Blocks /\ Len(<<Zero, Zero>>) = 2
<1>1. Zero \in Blocks
  BY DEF Blocks, Zeros, Zero
<1> HIDE DEF Zero
<1> QED BY <1>1

LEMMA HeaderType ==
  ASSUME NEW n \in Names, NEW size \in Nat, NEW type \in Kinds
  PROVE  Header(n, size, type) \in Blocks
BY DEF Header, Blocks, Headers

LEMMA MemberType ==
  ASSUME NEW n \in Names, NEW c \in Contents
  PROVE  /\ Member(n, c) \in Seq(Blocks) /\ Size[c] \in Nat /\ Whole(Size[c]) \in Nat
         /\ Len(Member(n, c)) = 1 + Whole(Size[c])
         /\ Member(n, c)[1] = Header(n, Size[c], "file")
         /\ \A i \in 1 .. Whole(Size[c]) :
              Member(n, c)[1 + i] = [kind |-> "data", of |-> c, part |-> i]
<1>1. Size[c] \in Nat
  BY TarConstants
<1>2. PICK w \in Nat : w = Whole(Size[c])
  BY <1>1, WholeType
<1> DEFINE parts == [i \in 1 .. w |-> [kind |-> "data", of |-> c, part |-> i]]
<1>3. parts \in Seq(Blocks) /\ Len(parts) = w
  <2>1. \A i \in 1 .. w : [kind |-> "data", of |-> c, part |-> i] \in Blocks
    BY DEF Blocks, Parts
  <2> QED BY <1>2, <2>1
<1>4. PICK h \in Blocks : h = Header(n, Size[c], "file")
  BY <1>1, HeaderType DEF Kinds
<1>5. <<h>> \in Seq(Blocks) /\ Len(<<h>>) = 1 /\ <<h>>[1] = h
  BY <1>4
<1>6. Member(n, c) = <<h>> \o parts
  BY <1>2, <1>4 DEF Member
<1>7. \A i \in 1 .. w : parts[i] = [kind |-> "data", of |-> c, part |-> i]
  OBVIOUS
<1> HIDE DEF parts
<1>8. PICK s \in Seq(Blocks) : s = <<h>>
  BY <1>5
<1>9. /\ s \o parts \in Seq(Blocks) /\ Len(s \o parts) = 1 + w
      /\ \A i \in 1 .. 1 + w : (s \o parts)[i] = IF i <= 1 THEN s[i] ELSE parts[i - 1]
  BY <1>2, <1>3, <1>5, <1>8, ConcatProperties
<1>10. (s \o parts)[1] = h
  BY <1>2, <1>5, <1>8, <1>9
<1>11. ASSUME NEW i \in 1 .. w
       PROVE  (s \o parts)[1 + i] = [kind |-> "data", of |-> c, part |-> i]
  <2>1. 1 + i \in 1 .. 1 + w /\ ~(1 + i <= 1) /\ (1 + i) - 1 = i
    BY <1>2
  <2> QED BY <1>7, <1>9, <2>1
<1> QED BY <1>1, <1>2, <1>4, <1>6, <1>8, <1>9, <1>10, <1>11

LEMMA DocumentNames ==
  ASSUME NEW d \in Documents
  PROVE  DOMAIN d \subseteq Names /\ \A n \in DOMAIN d : d[n] \in Contents
BY ReadersConstants

LEMMA OrderNames == \A k \in 1 .. Len(PathOrder) : PathOrder[k] \in Names
BY TarConstants, ElementOfSeq

LEMMA WrittenType ==
  ASSUME NEW d \in Documents
  PROVE  \A k \in 0 .. Len(PathOrder) : Written(d)[k] \in Seq(Blocks)
<1> DEFINE P == {k \in Nat : Written(d)[k] \in Seq(Blocks)}
<1>1. 0 \in P
  BY WrittenSteps, EmptySeq
<1>2. Len(PathOrder) \in Nat
  BY WrittenSteps
<1>3. ASSUME NEW k \in 0 .. Len(PathOrder) - 1, k \in P
      PROVE  k + 1 \in P
  <2>1. k + 1 \in 1 .. Len(PathOrder) /\ (k + 1) - 1 = k /\ k + 1 \in Nat
    BY <1>2
  <2>2. Written(d)[k + 1] = More(d, Written(d)[k], k + 1)
    BY <2>1, WrittenSteps
  <2>3. CASE PathOrder[k + 1] \in DOMAIN d
    <3>1. Member(PathOrder[k + 1], d[PathOrder[k + 1]]) \in Seq(Blocks)
      BY <2>3, DocumentNames, MemberType
    <3> QED BY <1>3, <2>1, <2>2, <2>3, <3>1, ConcatProperties DEF More
  <2>4. CASE PathOrder[k + 1] \notin DOMAIN d
    BY <1>3, <2>1, <2>2, <2>4 DEF More
  <2> QED BY <2>3, <2>4
<1> HIDE DEF P
<1>4. \A k \in 0 .. Len(PathOrder) : k \in P
  <2>1. 0 \in 0 .. Len(PathOrder)
    BY <1>2
  <2> QED BY <1>1, <1>2, <1>3, <2>1, Forwards
<1> QED BY <1>4 DEF P

LEMMA PackType ==
  ASSUME NEW d \in Documents
  PROVE  Pack(d) \in Archives
<1>1. Len(PathOrder) \in 0 .. Len(PathOrder)
  BY WrittenSteps
<1>2. Written(d)[Len(PathOrder)] \in Seq(Blocks)
  BY <1>1, WrittenType
<1> QED BY <1>2, ZerosType, ConcatProperties, ArchiveType DEF Pack

LEMMA TruncatedType ==
  ASSUME NEW a \in Archives, NEW n \in Nat, n < a.bytes
  PROVE  /\ Truncated(a, n) \in Archives
         /\ \A i \in 1 .. Whole(n) : Truncated(a, n).blocks[i] = a.blocks[i]
<1>1. a.blocks \in Seq(Blocks) /\ a.bytes \in Nat /\ Len(a.blocks) = Whole(a.bytes)
  BY DEF Archives, Blocks
<1>2. PICK w \in Nat : w = Whole(n)
  BY WholeType
<1>3. w <= Len(a.blocks) /\ Len(a.blocks) \in Nat
  BY <1>1, <1>2, WholeGrows, WholeType
<1>4. \A i \in 1 .. w : a.blocks[i] \in Blocks
  BY <1>1, <1>3, ElementOfSeq
<1>5. /\ SubSeq(a.blocks, 1, w) \in Seq(Blocks)
      /\ Len(SubSeq(a.blocks, 1, w)) = w
      /\ \A i \in 1 .. w : SubSeq(a.blocks, 1, w)[i] = a.blocks[i]
  BY <1>2, <1>4, SubSeqProperties
<1> QED BY <1>2, <1>5 DEF Truncated, Archives, Blocks

\* One sequence of blocks of length m behind another of length n.
IsJoin(u, s, m, t, n) ==
  /\ u \in Seq(Blocks) /\ Len(u) = m + n
  /\ \A i \in 1 .. m : u[i] = s[i]
  /\ \A i \in 1 .. n : u[m + i] = t[i]

LEMMA Joined ==
  ASSUME NEW s \in Seq(Blocks), NEW t \in Seq(Blocks), NEW m \in Nat, NEW n \in Nat,
         m = Len(s), n = Len(t)
  PROVE  IsJoin(s \o t, s, m, t, n)
<1>1. s \o t \in Seq(Blocks) /\ Len(s \o t) = m + n
  BY ConcatProperties
<1>2. \A i \in 1 .. m + n : (s \o t)[i] = IF i <= m THEN s[i] ELSE t[i - m]
  BY ConcatProperties
<1>3. ASSUME NEW i \in 1 .. m
      PROVE  (s \o t)[i] = s[i]
  <2>1. i \in 1 .. m + n /\ i <= m
    OBVIOUS
  <2> QED BY <1>2, <2>1
<1>4. ASSUME NEW i \in 1 .. n
      PROVE  (s \o t)[m + i] = t[i]
  <2>1. m + i \in 1 .. m + n /\ ~(m + i <= m) /\ (m + i) - m = i
    OBVIOUS
  <2> QED BY <1>2, <2>1
<1> QED BY <1>1, <1>3, <1>4 DEF IsJoin

\* What tar -r makes of an archive of whole blocks.
LEMMA AddedIs ==
  ASSUME NEW a \in Archives, NEW n \in Names, NEW c \in Contents,
         Len(a.blocks) >= 2
  PROVE  /\ Added(a, n, c) \in Archives
         /\ Added(a, n, c).bytes = Block * Len(Added(a, n, c).blocks)
         /\ Len(Added(a, n, c).blocks) = Len(a.blocks) + 1 + Whole(Size[c])
         /\ \A i \in 1 .. Len(a.blocks) - 2 : Added(a, n, c).blocks[i] = a.blocks[i]
         /\ Added(a, n, c).blocks[Len(a.blocks) - 1] = Header(n, Size[c], "file")
         /\ \A i \in Len(a.blocks) .. Len(a.blocks) + 1 + Whole(Size[c]) :
              Added(a, n, c).blocks[i].kind # "header"
<1>1. a.blocks \in Seq(Blocks)
  BY DEF Archives, Blocks
<1>2. PICK l \in Nat : l + 2 = Len(a.blocks)
  <2>1. Len(a.blocks) - 2 \in Nat /\ (Len(a.blocks) - 2) + 2 = Len(a.blocks)
    BY <1>1, LenProperties
  <2> QED BY <2>1
<1>3. PICK w \in Nat : w = Whole(Size[c])
  BY MemberType
<1>4. PICK m \in Seq(Blocks) : m = Member(n, c)
  BY MemberType
<1>5. /\ Len(m) = 1 + w /\ m[1] = Header(n, Size[c], "file")
      /\ \A i \in 1 .. w : m[1 + i].kind # "header"
  <2>1. Len(m) = 1 + w /\ m[1] = Header(n, Size[c], "file")
    BY <1>3, <1>4, MemberType
  <2>2. \A i \in 1 .. w : m[1 + i] = [kind |-> "data", of |-> c, part |-> i]
    BY <1>3, <1>4, MemberType
  <2>3. \A i \in 1 .. w : m[1 + i].kind # "header"
    <3> TAKE i \in 1 .. w
    <3>1. m[1 + i] = [kind |-> "data", of |-> c, part |-> i]
      BY <2>2
    <3> QED BY <3>1
  <2> QED BY <2>1, <2>3
<1> DEFINE s == SubSeq(a.blocks, 1, l)
<1>6. s \in Seq(Blocks) /\ Len(s) = l /\ \A i \in 1 .. l : s[i] = a.blocks[i]
  <2>1. \A i \in 1 .. l : a.blocks[i] \in Blocks
    BY <1>1, <1>2, ElementOfSeq
  <2>2. s \in Seq(Blocks)
    BY <1>2, <2>1, SubSeqProperties
  <2>3. Len(s) = l
    BY <1>2, <2>1, SubSeqProperties
  <2>4. \A i \in 1 .. l : s[i] = a.blocks[i]
    BY <1>2, <2>1, SubSeqProperties
  <2> QED BY <2>2, <2>3, <2>4
<1> HIDE DEF s
<1> DEFINE z == <<Zero, Zero>>
<1>7. z \in Seq(Blocks) /\ Len(z) = 2 /\ z[1].kind # "header" /\ z[2].kind # "header"
  <2>1. Zero.kind # "header"
    BY DEF Zero
  <2> HIDE DEF Zero
  <2> QED BY <2>1, ZerosType
<1> HIDE DEF z
<1> DEFINE sm == s \o m
<1>8. /\ sm \in Seq(Blocks) /\ Len(sm) = l + (1 + w)
      /\ \A i \in 1 .. l : sm[i] = s[i]
      /\ \A i \in 1 .. 1 + w : sm[l + i] = m[i]
  <2>1. IsJoin(sm, s, l, m, 1 + w)
    BY <1>5, <1>6, Joined
  <2> QED BY <2>1 DEF IsJoin
<1> HIDE DEF sm
<1> DEFINE b == sm \o z
<1>9. /\ b \in Seq(Blocks) /\ Len(b) = l + (1 + w) + 2
      /\ \A i \in 1 .. l + (1 + w) : b[i] = sm[i]
      /\ \A i \in 1 .. 2 : b[l + (1 + w) + i] = z[i]
  <2>0. l + (1 + w) \in Nat
    OBVIOUS
  <2>1. IsJoin(b, sm, l + (1 + w), z, 2)
    BY <1>7, <1>8, <2>0, Joined
  <2> QED BY <2>1 DEF IsJoin
<1> HIDE DEF b
<1>10. Added(a, n, c) = Archive(b)
  <2>1. l = Len(a.blocks) - 2
    BY <1>2
  <2> QED BY <1>4, <2>1 DEF Added, b, sm, s, z
<1>11. \A i \in 1 .. l : b[i] = a.blocks[i]
  BY <1>6, <1>8, <1>9
<1>12. b[l + 1] = Header(n, Size[c], "file")
  <2>1. l + 1 \in 1 .. l + (1 + w) /\ 1 \in 1 .. 1 + w
    OBVIOUS
  <2> QED BY <1>5, <1>8, <1>9, <2>1
<1>13. ASSUME NEW i \in l + 2 .. l + 3 + w
       PROVE  b[i].kind # "header"
  <2>1. CASE i <= l + (1 + w)
    <3>1. PICK j \in 1 .. w : i = l + (1 + j)
      <4>1. i - l - 1 \in 1 .. w /\ i = l + (1 + (i - l - 1))
        BY <2>1
      <4> QED BY <4>1
    <3>2. i \in 1 .. l + (1 + w) /\ 1 + j \in 1 .. 1 + w
      BY <2>1
    <3>3. b[i] = sm[i] /\ sm[i] = m[1 + j]
      BY <1>8, <1>9, <3>1, <3>2
    <3> QED BY <1>5, <3>3
  <2>2. CASE i = l + (1 + w) + 1
    <3>1. b[i] = z[1]
      BY <1>9, <2>2
    <3> QED BY <1>7, <3>1
  <2>3. CASE i = l + (1 + w) + 2
    <3>1. b[i] = z[2]
      BY <1>9, <2>3
    <3> QED BY <1>7, <3>1
  <2> QED BY <2>1, <2>2, <2>3
<1>14. Archive(b).blocks = b /\ Archive(b).bytes = Block * Len(b) /\ Archive(b) \in Archives
  BY <1>9, ArchiveType DEF Archive
<1>15. /\ Len(a.blocks) - 2 = l /\ Len(a.blocks) - 1 = l + 1 /\ Len(a.blocks) = l + 2
       /\ Len(a.blocks) + 1 + w = l + 3 + w /\ l + (1 + w) + 2 = l + 3 + w
  BY <1>2
<1> QED BY <1>3, <1>9, <1>10, <1>11, <1>12, <1>13, <1>14, <1>15

LEMMA FirstName == PathOrder[1] \in Names
<1>1. Len(PathOrder) \in Nat /\ DOMAIN PathOrder = 1 .. Len(PathOrder)
  BY TarConstants, LenProperties
<1>2. \E i \in 1 .. Len(PathOrder) : TRUE
  BY <1>1, OrderConstants DEF ToSet
<1> QED BY <1>1, <1>2, OrderNames

\* A directory's header, or a pax header with its record, before everything else.
OpensWith(f, k, type, a) ==
  /\ f \in Archives /\ f.bytes = Block * Len(f.blocks) /\ Len(f.blocks) = Len(a.blocks) + k
  /\ f.blocks[1] = Header(PathOrder[1], Block * (k - 1), type)
  /\ k = 2 => f.blocks[2].kind # "header"
  /\ \A i \in 1 .. Len(a.blocks) : f.blocks[k + i] = a.blocks[i]

LEMMA ForewordIs ==
  ASSUME NEW a \in Archives, NEW type \in Kinds \ {"file"}
  PROVE  OpensWith(Foreword(a, type), 1, type, a) \/ OpensWith(Foreword(a, type), 2, type, a)
<1> DEFINE rec == IF type = "pax" THEN <<[kind |-> "data", of |-> Garbage, part |-> 1]>> ELSE << >>
<1>1. a.blocks \in Seq(Blocks)
  BY DEF Archives, Blocks
<1>2. PICK l \in Nat : l = Len(a.blocks)
  BY <1>1, LenProperties
<1>3. rec \in Seq(Blocks) /\ Len(rec) \in {0, 1} /\ (Len(rec) = 1 => rec[1].kind # "header")
  <2> DEFINE x == [kind |-> "data", of |-> Garbage, part |-> 1]
  <2>0. x \in Blocks /\ x.kind # "header"
    BY DEF Blocks, Parts
  <2>1. PICK g \in Blocks : g = x /\ g.kind # "header"
    <3> HIDE DEF x
    <3> QED BY <2>0
  <2>2. CASE type = "pax"
    <3>1. rec = <<g>>
      BY <2>1, <2>2
    <3> HIDE DEF rec
    <3> QED BY <2>1, <3>1
  <2>3. CASE type # "pax"
    <3>1. rec = << >>
      BY <2>3
    <3> HIDE DEF rec
    <3> QED BY <3>1, EmptySeq
  <2> QED BY <2>2, <2>3
<1>4. Foreword(a, type) = Archive(<<Header(PathOrder[1], Block * Len(rec), type)>> \o rec \o a.blocks)
  BY DEF Foreword
<1> HIDE DEF rec
<1>5. PICK e \in Nat : e = Len(rec) /\ (e = 0 \/ e = 1)
  BY <1>3
<1> DEFINE h == Header(PathOrder[1], Block * e, type)
<1>6. h \in Blocks
  <2>1. Block * e \in Nat
    BY <1>5, WholeBlocks
  <2> QED BY <2>1, FirstName, HeaderType
<1> HIDE DEF h
<1> DEFINE s == <<h>>
<1>7. s \in Seq(Blocks) /\ Len(s) = 1 /\ s[1] = h
  BY <1>6
<1> HIDE DEF s
<1> DEFINE sr == s \o rec
<1>8. /\ sr \in Seq(Blocks) /\ Len(sr) = 1 + e
      /\ \A i \in 1 .. 1 : sr[i] = s[i]
      /\ \A i \in 1 .. e : sr[1 + i] = rec[i]
  <2>1. IsJoin(sr, s, 1, rec, e)
    BY <1>3, <1>5, <1>7, Joined
  <2> QED BY <2>1 DEF IsJoin
<1> HIDE DEF sr
<1> DEFINE b == sr \o a.blocks
<1>9. /\ b \in Seq(Blocks) /\ Len(b) = (1 + e) + l
      /\ \A i \in 1 .. 1 + e : b[i] = sr[i]
      /\ \A i \in 1 .. l : b[(1 + e) + i] = a.blocks[i]
  <2>1. IsJoin(b, sr, 1 + e, a.blocks, l)
    BY <1>1, <1>2, <1>8, Joined
  <2> QED BY <2>1 DEF IsJoin
<1>10. Foreword(a, type) = Archive(b)
  BY <1>4, <1>5 DEF sr, s, h
<1> HIDE DEF b
<1>11. b[1] = h
  BY <1>7, <1>8, <1>9
<1>12. ASSUME e = 1
       PROVE  b[2].kind # "header"
  <2>1. 2 \in 1 .. 1 + e /\ 1 \in 1 .. e /\ 1 + 1 = 2
    BY <1>12
  <2>2. b[2] = sr[2] /\ sr[2] = rec[1]
    BY <1>8, <1>9, <2>1
  <2> QED BY <1>3, <1>5, <1>12, <2>2
<1>13. Archive(b).blocks = b /\ Archive(b).bytes = Block * Len(b) /\ Archive(b) \in Archives
  BY <1>9, ArchiveType DEF Archive
<1>14. CASE e = 0
  <2>1. 1 - 1 = e /\ (1 + e) + l = l + 1 /\ 1 + e = 1
    BY <1>14
  <2>2. h = Header(PathOrder[1], Block * (1 - 1), type)
    BY <2>1 DEF h
  <2> HIDE DEF h
  <2>3. \A i \in 1 .. Len(a.blocks) : Archive(b).blocks[1 + i] = a.blocks[i]
    BY <1>2, <1>9, <1>13, <2>1
  <2>4. Archive(b).blocks[1] = Header(PathOrder[1], Block * (1 - 1), type)
    BY <1>11, <1>13, <2>2
  <2>5. /\ Archive(b) \in Archives /\ Archive(b).bytes = Block * Len(Archive(b).blocks)
        /\ Len(Archive(b).blocks) = Len(a.blocks) + 1
    BY <1>2, <1>9, <1>13, <2>1
  <2>6. 1 # 2
    OBVIOUS
  <2>7. OpensWith(Archive(b), 1, type, a)
    BY <2>3, <2>4, <2>5, <2>6, Zenon DEF OpensWith
  <2> QED BY <1>10, <2>7
<1>15. CASE e = 1
  <2>1. 2 - 1 = e /\ (1 + e) + l = l + 2 /\ 1 + e = 2
    BY <1>15
  <2>2. h = Header(PathOrder[1], Block * (2 - 1), type)
    BY <2>1 DEF h
  <2> HIDE DEF h
  <2>3. b[2].kind # "header"
    BY <1>12, <1>15
  <2>4. OpensWith(Archive(b), 2, type, a)
    BY <1>2, <1>9, <1>11, <1>13, <2>1, <2>2, <2>3 DEF OpensWith
  <2> QED BY <1>10, <2>4
<1> QED BY <1>5, <1>14, <1>15

LEMMA RottenIs ==
  ASSUME NEW a \in Archives, NEW i \in DOMAIN a.blocks
  PROVE  /\ Rotten(a, i) \in Archives
         /\ Rotten(a, i).bytes = a.bytes
         /\ Len(Rotten(a, i).blocks) = Len(a.blocks) /\ DOMAIN Rotten(a, i).blocks = DOMAIN a.blocks
         /\ \A j \in DOMAIN a.blocks : j # i => Rotten(a, i).blocks[j] = a.blocks[j]
         /\ ~(Rotten(a, i).blocks[i].kind = "header" /\ Rotten(a, i).blocks[i].sum)
<1>1. a.blocks \in Seq(Blocks) /\ DOMAIN a.blocks = 1 .. Len(a.blocks)
  <2>1. a.blocks \in Seq(Blocks)
    BY DEF Archives, Blocks
  <2> QED BY <2>1, LenProperties
<1> DEFINE bad == IF a.blocks[i].kind = "data" THEN [kind |-> "data", of |-> Garbage, part |-> 0]
                  ELSE [Header(PathOrder[1], 0, "file") EXCEPT !.sum = FALSE]
<1>2. bad \in Blocks /\ ~(bad.kind = "header" /\ bad.sum)
  <2>1. CASE a.blocks[i].kind = "data"
    BY <2>1 DEF Blocks, Parts
  <2>2. CASE a.blocks[i].kind # "data"
    <3>1. bad = [kind |-> "header", name |-> PathOrder[1], size |-> 0, type |-> "file", sum |-> FALSE]
      BY <2>2 DEF Header
    <3> HIDE DEF bad
    <3> QED BY <3>1, FirstName DEF Blocks, Headers, Kinds
  <2> QED BY <2>1, <2>2
<1>3. Rotten(a, i) = [a EXCEPT !.blocks = [@ EXCEPT ![i] = bad]]
  BY DEF Rotten
<1> HIDE DEF bad
<1> DEFINE b == [a.blocks EXCEPT ![i] = bad]
<1>4. /\ b \in Seq(Blocks) /\ Len(b) = Len(a.blocks)
      /\ \A j \in 1 .. Len(a.blocks) : b[j] = IF j = i THEN bad ELSE a.blocks[j]
  <2>1. i \in 1 .. Len(a.blocks)
    BY <1>1
  <2> QED BY <1>1, <1>2, <2>1, ExceptSeq
<1>5. Rotten(a, i) = [blocks |-> b, bytes |-> a.bytes]
  BY <1>3 DEF Archives
<1> HIDE DEF b
<1>6. DOMAIN b = 1 .. Len(b)
  BY <1>4, LenProperties
<1>7. Rotten(a, i) \in Archives
  BY <1>4, <1>5 DEF Archives, Blocks
<1> QED BY <1>1, <1>2, <1>4, <1>5, <1>6, <1>7

----------------------------------------------------------------------------
(* The archive changes only between readers, and stays an archive. *)

\* Between readers nothing is asked for and no call is under way.
AtRest == reader.status = "closed" => reader = Closed /\ asked = Nothing /\ ~cursor.on

\* As many blocks as the bytes are, the terminator's two among them, and no member reaches over
\* what is behind it into the terminator.
GoodHeader(a, i) == i \in DOMAIN a.blocks /\ a.blocks[i].kind = "header" /\ a.blocks[i].sum
Complete(a) ==
  /\ a.bytes = Block * Len(a.blocks) /\ Len(a.blocks) >= 2
  /\ \A i \in DOMAIN a.blocks :
       GoodHeader(a, i) => i + Whole(a.blocks[i].size) <= Len(a.blocks) - 2
Uncut == "cut" \notin damage => Complete(archive)

Sources == packed \in Documents /\ damage \subseteq {"cut", "added", "foreword", "rotten"}
Sound == Sources /\ MicroInv /\ AtRest

LEMMA RestStep == MicroTypeOK /\ CursorHome /\ AtRest /\ Step => AtRest'
<1> SUFFICES ASSUME MicroTypeOK, CursorHome, AtRest, Step
             PROVE  AtRest'
  OBVIOUS
<1>1. ASSUME NEW status, NEW offered, Ends(status, offered), status # "closed"
      PROVE  AtRest'
  BY <1>1 DEF Ends, Closed, AtRest
<1>2. ASSUME NEW offered \in Rooms, NEW skew \in 0 .. Align - 1, Open(offered, skew)
      PROVE  AtRest'
  <2>1. CASE reader'.status = "opening"
    BY <2>1 DEF AtRest
  <2>2. CASE reader'.status # "opening"
    <3>1. Ends("E_PARSE", offered) \/ Ends("E_ARENA", offered)
      BY <1>2, <2>2 DEF Open, Closed
    <3> QED BY <1>1, <3>1
  <2> QED BY <2>1, <2>2
<1>3. reader \in ReaderType
  BY TypeParts
<1>4. CASE IndexMember \/ IndexSkip \/ IndexDone
  <2>1. reader.status = "opening"
    BY <1>4 DEF IndexMember, IndexSkip, IndexDone, AtBlock
  <2>2. reader'.status # "closed"
    BY <1>3, <1>4, <2>1 DEF IndexMember, IndexSkip, IndexDone, ReaderType
  <2> QED BY <2>2 DEF AtRest
<1>5. CASE IndexFull \/ IndexRefuses \/ IndexFails \/ IndexRunsOut
  BY <1>1, <1>5 DEF IndexFull, IndexRefuses, IndexFails, IndexRunsOut
<1>6. CASE \/ \E n \in Indexed : CursorOpen(n)
           \/ CursorNext \/ CursorFill \/ CursorDone
           \/ \E n \in Indexed, off, len \in Spans : ReadAt(n, off, len)
  <2>1. reader.status = "open" /\ reader' = reader
    BY <1>6 DEF CursorOpen, CursorNext, CursorFill, CursorDone, ReadAt, Usable, CursorHome
  <2> QED BY <2>1 DEF AtRest
<1>7. CASE Close
  BY <1>7 DEF Close, Usable, AtRest
<1>8. CASE UNCHANGED microVars
  BY <1>8 DEF microVars, AtRest
<1> QED BY <1>2, <1>4, <1>5, <1>6, <1>7, <1>8 DEF Step, MicroNext

\* Whatever archive takes the place of this one, the closed reader is sound.
LEMMA BecomesSound ==
  ASSUME MicroInv, AtRest, NEW a \in Archives, NEW kind, Becomes(a, kind)
  PROVE  MicroInv' /\ AtRest'
<1>1. /\ reader = Closed /\ reader' = reader /\ cursor' = cursor /\ asked' = asked /\ archive' = a
  BY DEF Becomes
<1>2. asked = Nothing /\ ~cursor.on
  BY <1>1 DEF AtRest, Closed
<1>3. AtRest'
  BY <1>1, <1>2 DEF AtRest
<1>4. MicroTypeOK'
  BY <1>1 DEF MicroInv, MicroTypeOK
<1>5. a.bytes \in Nat
  BY DEF Archives
<1>6. ArenaLayout' /\ ArenaUsed' /\ ArenaSuffices' /\ EntriesInside'
  BY <1>1 DEF Closed, ArenaLayout, ArenaUsed, ArenaSuffices, EntriesInside
<1>7. Reading'
  BY <1>1, <1>2, <1>5 DEF Nothing, Reading, CursorHome, CursorWindow, AskedInside
<1> QED BY <1>3, <1>4, <1>6, <1>7 DEF MicroInv

LEMMA PackedBlocks ==
  ASSUME NEW d \in Documents
  PROVE  \E b \in Seq(Blocks) :
           /\ b = Written(d)[Len(PathOrder)]
           /\ Pack(d).blocks \in Seq(Blocks) /\ Len(Pack(d).blocks) = Len(b) + 2
           /\ Pack(d).bytes = Block * Len(Pack(d).blocks)
           /\ \A i \in 1 .. Len(b) : Pack(d).blocks[i] = b[i]
           /\ Pack(d).blocks[Len(b) + 1] = Zero /\ Pack(d).blocks[Len(b) + 2] = Zero
<1>1. Len(PathOrder) \in 0 .. Len(PathOrder)
  BY WrittenSteps
<1>2. PICK b \in Seq(Blocks), l \in Nat : b = Written(d)[Len(PathOrder)] /\ l = Len(b)
  <2>1. Written(d)[Len(PathOrder)] \in Seq(Blocks)
    BY <1>1, WrittenType
  <2> QED BY <2>1, LenProperties
<1> DEFINE z == <<Zero, Zero>>
<1>3. z \in Seq(Blocks) /\ Len(z) = 2 /\ z[1] = Zero /\ z[2] = Zero
  <2> HIDE DEF Zero
  <2> QED BY ZerosType
<1>4. Pack(d) = Archive(b \o z)
  BY <1>2 DEF Pack
<1> HIDE DEF z
<1> DEFINE bz == b \o z
<1>5. IsJoin(bz, b, l, z, 2)
  BY <1>2, <1>3, Joined
<1> HIDE DEF bz
<1>6. /\ bz \in Seq(Blocks) /\ Len(bz) = l + 2
      /\ \A i \in 1 .. l : bz[i] = b[i]
      /\ \A i \in 1 .. 2 : bz[l + i] = z[i]
  BY <1>5 DEF IsJoin
<1>7. Pack(d).blocks = bz /\ Pack(d).bytes = Block * Len(bz)
  BY <1>4 DEF Archive, bz
<1>8. bz[l + 1] = Zero /\ bz[l + 2] = Zero
  BY <1>3, <1>6
<1> QED BY <1>2, <1>6, <1>7, <1>8

----------------------------------------------------------------------------
(* Which headers an archive has after each kind of damage. *)

LEMMA BlocksOf ==
  ASSUME NEW a \in Archives
  PROVE  /\ a.blocks \in Seq(Blocks) /\ Len(a.blocks) \in Nat /\ DOMAIN a.blocks = 1 .. Len(a.blocks)
         /\ \A i \in DOMAIN a.blocks : a.blocks[i] \in Blocks
         /\ \A i \in DOMAIN a.blocks : a.blocks[i].kind = "header" =>
              /\ a.blocks[i] \in Headers /\ a.blocks[i].size \in Nat /\ a.blocks[i].name \in Names
              /\ Whole(a.blocks[i].size) \in Nat
<1>1. a.blocks \in Seq(Blocks)
  BY DEF Archives, Blocks
<1>2. Len(a.blocks) \in Nat /\ DOMAIN a.blocks = 1 .. Len(a.blocks)
  BY <1>1, LenProperties
<1>3. \A i \in DOMAIN a.blocks : a.blocks[i] \in Blocks
  BY <1>1, <1>2, ElementOfSeq
<1>4. ASSUME NEW i \in DOMAIN a.blocks, a.blocks[i].kind = "header"
      PROVE  /\ a.blocks[i] \in Headers /\ a.blocks[i].size \in Nat /\ a.blocks[i].name \in Names
             /\ Whole(a.blocks[i].size) \in Nat
  <2>1. a.blocks[i] \in Headers
    BY <1>3, <1>4 DEF Blocks, Headers, Parts, Zeros
  <2>2. a.blocks[i].size \in Nat /\ a.blocks[i].name \in Names
    BY <2>1 DEF Headers
  <2> QED BY <2>1, <2>2, WholeType
<1> QED BY <1>1, <1>2, <1>3, <1>4

LEMMA RottenHeader ==
  ASSUME NEW a \in Archives, NEW i \in DOMAIN a.blocks, NEW j, GoodHeader(Rotten(a, i), j)
  PROVE  GoodHeader(a, j) /\ Rotten(a, i).blocks[j] = a.blocks[j]
BY RottenIs DEF GoodHeader

LEMMA TruncatedHeader ==
  ASSUME NEW a \in Archives, NEW n \in Nat, n < a.bytes, NEW j, GoodHeader(Truncated(a, n), j)
  PROVE  GoodHeader(a, j) /\ Truncated(a, n).blocks[j] = a.blocks[j]
<1>1. Truncated(a, n) \in Archives /\ Truncated(a, n).bytes = n
  BY TruncatedType DEF Truncated
<1>2. Len(Truncated(a, n).blocks) = Whole(n) /\ Len(a.blocks) = Whole(a.bytes) /\ a.bytes \in Nat
  BY <1>1 DEF Archives
<1>3. Whole(n) <= Whole(a.bytes) /\ Whole(n) \in Nat /\ Whole(a.bytes) \in Nat
  BY <1>2, WholeGrows, WholeType
<1>4. j \in 1 .. Whole(n)
  BY <1>1, <1>2, BlocksOf DEF GoodHeader
<1>5. j \in DOMAIN a.blocks
  BY <1>2, <1>3, <1>4, BlocksOf
<1> QED BY <1>4, <1>5, TruncatedType DEF GoodHeader

LEMMA ForewordHeader ==
  ASSUME NEW a \in Archives, NEW f, NEW k \in {1, 2}, NEW type \in Kinds \ {"file"}, OpensWith(f, k, type, a),
         NEW j, GoodHeader(f, j)
  PROVE  \/ j = 1 /\ f.blocks[j] = Header(PathOrder[1], Block * (k - 1), type)
         \/ /\ j > k /\ j \in Nat /\ GoodHeader(a, j - k) /\ f.blocks[j] = a.blocks[j - k]
<1>1. PICK l \in Nat : l = Len(a.blocks) /\ DOMAIN a.blocks = 1 .. l
  BY BlocksOf
<1>2. f \in Archives /\ Len(f.blocks) = l + k
  BY <1>1 DEF OpensWith
<1>3. j \in 1 .. l + k
  BY <1>2, BlocksOf DEF GoodHeader
<1>4. CASE j = 1
  BY <1>4 DEF OpensWith
<1>5. CASE j # 1 /\ j <= k
  <2>1. j = 2 /\ k = 2
    BY <1>3, <1>5
  <2> QED BY <2>1 DEF OpensWith, GoodHeader
<1>6. CASE j > k
  <2>1. j - k \in 1 .. l /\ k + (j - k) = j
    BY <1>3, <1>6
  <2>2. f.blocks[k + (j - k)] = a.blocks[j - k]
    BY <1>1, <2>1 DEF OpensWith
  <2>3. f.blocks[j] = a.blocks[j - k]
    BY <2>1, <2>2
  <2> QED BY <1>1, <1>3, <1>6, <2>1, <2>3 DEF GoodHeader
<1> QED BY <1>3, <1>4, <1>5, <1>6

LEMMA AddedHeader ==
  ASSUME NEW a \in Archives, NEW n \in Names, NEW c \in Contents, Len(a.blocks) >= 2,
         NEW j, GoodHeader(Added(a, n, c), j)
  PROVE  \/ j = Len(a.blocks) - 1 /\ Added(a, n, c).blocks[j] = Header(n, Size[c], "file")
         \/ /\ j \in 1 .. Len(a.blocks) - 2 /\ GoodHeader(a, j) /\ Added(a, n, c).blocks[j] = a.blocks[j]
<1>1. PICK l \in Nat : l = Len(a.blocks) /\ DOMAIN a.blocks = 1 .. l
  BY BlocksOf
<1>2. PICK w \in Nat : w = Whole(Size[c])
  BY MemberType
<1>3. Added(a, n, c) \in Archives /\ Len(Added(a, n, c).blocks) = l + 1 + w
  BY <1>1, <1>2, AddedIs
<1>4. j \in 1 .. l + 1 + w
  BY <1>3, BlocksOf DEF GoodHeader
<1>5. CASE j <= l - 2
  <2>1. j \in 1 .. l - 2 /\ j \in DOMAIN a.blocks
    BY <1>1, <1>4, <1>5
  <2>2. Added(a, n, c).blocks[j] = a.blocks[j]
    BY <1>1, <2>1, AddedIs
  <2> QED BY <1>1, <2>1, <2>2 DEF GoodHeader
<1>6. CASE j = l - 1
  BY <1>1, <1>6, AddedIs
<1>7. CASE j >= l
  <2>1. j \in l .. l + 1 + w
    BY <1>4, <1>7
  <2> QED BY <1>1, <1>2, <2>1, AddedIs DEF GoodHeader
<1> QED BY <1>1, <1>4, <1>5, <1>6, <1>7

----------------------------------------------------------------------------
(* Complete archives. *)

LEMMA CompleteRotten ==
  ASSUME NEW a \in Archives, Complete(a), NEW i \in DOMAIN a.blocks
  PROVE  Complete(Rotten(a, i))
<1>1. Len(Rotten(a, i).blocks) = Len(a.blocks) /\ Rotten(a, i).bytes = a.bytes /\ DOMAIN Rotten(a, i).blocks = DOMAIN a.blocks
  BY RottenIs
<1> QED BY <1>1, RottenHeader DEF Complete, GoodHeader

LEMMA CompleteForeword ==
  ASSUME NEW a \in Archives, Complete(a), NEW type \in Kinds \ {"file"}
  PROVE  Foreword(a, type) \in Archives /\ Complete(Foreword(a, type))
<1> DEFINE f == Foreword(a, type)
<1>1. PICK k \in {1, 2} : OpensWith(f, k, type, a)
  BY ForewordIs
<1> HIDE DEF f
<1>2. PICK l \in Nat : l = Len(a.blocks) /\ l >= 2
  BY BlocksOf DEF Complete
<1>3. f \in Archives /\ f.bytes = Block * Len(f.blocks) /\ Len(f.blocks) = l + k
  BY <1>1, <1>2 DEF OpensWith
<1>4. ASSUME NEW j \in DOMAIN f.blocks, GoodHeader(f, j)
      PROVE  j + Whole(f.blocks[j].size) <= l + k - 2
  <2>1. CASE j = 1 /\ f.blocks[j] = Header(PathOrder[1], Block * (k - 1), type)
    <3>1. f.blocks[j].size = Block * (k - 1) /\ k - 1 \in Nat
      BY <2>1 DEF Header
    <3>2. Whole(f.blocks[j].size) = k - 1
      BY <3>1, WholeBlocks
    <3> QED BY <1>2, <2>1, <3>2
  <2>2. CASE j > k /\ j \in Nat /\ GoodHeader(a, j - k) /\ f.blocks[j] = a.blocks[j - k]
    <3>1. PICK w \in Nat : w = Whole(a.blocks[j - k].size)
      BY <2>2, BlocksOf DEF GoodHeader
    <3>2. (j - k) + w <= l - 2
      BY <1>2, <2>2, <3>1 DEF Complete, GoodHeader
    <3> QED BY <1>2, <2>2, <3>1, <3>2
  <2> QED BY <1>1, <1>4, <2>1, <2>2, ForewordHeader
<1> QED BY <1>2, <1>3, <1>4 DEF Complete, f

LEMMA CompleteAdded ==
  ASSUME NEW a \in Archives, Complete(a), NEW n \in Names, NEW c \in Contents
  PROVE  Added(a, n, c) \in Archives /\ Complete(Added(a, n, c))
<1> DEFINE f == Added(a, n, c)
<1>1. PICK l \in Nat : l = Len(a.blocks) /\ l >= 2
  BY BlocksOf DEF Complete
<1>2. PICK w \in Nat : w = Whole(Size[c])
  BY MemberType
<1>3. f \in Archives /\ f.bytes = Block * Len(f.blocks) /\ Len(f.blocks) = l + 1 + w
  BY <1>1, <1>2, AddedIs
<1>4. ASSUME NEW j \in DOMAIN f.blocks, GoodHeader(f, j)
      PROVE  j + Whole(f.blocks[j].size) <= l + 1 + w - 2
  <2> HIDE DEF f
  <2>1. CASE j = l - 1 /\ f.blocks[j] = Header(n, Size[c], "file")
    <3>1. f.blocks[j].size = Size[c]
      BY <2>1 DEF Header
    <3> QED BY <1>1, <1>2, <2>1, <3>1
  <2>2. CASE j \in 1 .. l - 2 /\ GoodHeader(a, j) /\ f.blocks[j] = a.blocks[j]
    <3>1. PICK v \in Nat : v = Whole(a.blocks[j].size)
      BY <2>2, BlocksOf DEF GoodHeader
    <3>2. j + v <= l - 2
      BY <1>1, <2>2, <3>1 DEF Complete, GoodHeader
    <3> QED BY <1>1, <1>2, <2>2, <3>1, <3>2
  <2> QED BY <1>1, <1>4, <2>1, <2>2, AddedHeader DEF f
<1> HIDE DEF f
<1>5. Complete(f)
  BY <1>1, <1>2, <1>3, <1>4 DEF Complete
<1> QED BY <1>3, <1>5 DEF f

----------------------------------------------------------------------------
(* The headers that pack writes: one for each member, in the order of their paths. *)

\* b holds members of d, of the first k paths, each once, and no part of a member more.
Lists(b, d, k) ==
  \A i \in 1 .. Len(b) : b[i].kind = "header" =>
    /\ i + Whole(b[i].size) <= Len(b) /\ b[i].name \in DOMAIN d
    /\ \E m \in 1 .. k : PathOrder[m] = b[i].name
    /\ \A j \in 1 .. Len(b) : b[j].kind = "header" /\ b[j].name = b[i].name => j = i

\* A path comes once in their order.
LEMMA OrderOnce ==
  ASSUME NEW i \in 1 .. Len(PathOrder), NEW j \in 1 .. Len(PathOrder), PathOrder[i] = PathOrder[j]
  PROVE  i = j
<1>1. DOMAIN PathOrder = 1 .. Len(PathOrder)
  BY TarConstants, LenProperties
<1> QED BY <1>1, OrderConstants

LEMMA ListsMore ==
  ASSUME NEW d \in Documents, NEW k \in Nat, k + 1 \in 1 .. Len(PathOrder), NEW b \in Seq(Blocks), Lists(b, d, k),
         PathOrder[k + 1] \in DOMAIN d
  PROVE  Lists(b \o Member(PathOrder[k + 1], d[PathOrder[k + 1]]), d, k + 1)
<1>1. PICK n \in Names : n = PathOrder[k + 1] /\ n \in DOMAIN d /\ d[n] \in Contents
  BY DocumentNames
<1>2. PICK l \in Nat : l = Len(b)
  BY LenProperties
<1>3. PICK w \in Nat : w = Whole(Size[d[n]])
  BY <1>1, MemberType
<1> DEFINE m == Member(n, d[n])
<1>4. m \in Seq(Blocks) /\ Len(m) = 1 + w /\ m[1] = Header(n, Size[d[n]], "file")
  BY <1>1, <1>3, MemberType
<1>5. \A i \in 1 .. w : m[1 + i] = [kind |-> "data", of |-> d[n], part |-> i]
  BY <1>1, <1>3, MemberType
<1> HIDE DEF m
<1> DEFINE u == b \o m
<1>6. IsJoin(u, b, l, m, 1 + w)
  BY <1>2, <1>3, <1>4, Joined
<1> HIDE DEF u
<1>7. /\ u \in Seq(Blocks) /\ Len(u) = l + (1 + w)
      /\ \A i \in 1 .. l : u[i] = b[i]
      /\ \A i \in 1 .. 1 + w : u[l + i] = m[i]
  BY <1>6 DEF IsJoin
<1>8. ASSUME NEW i \in 1 .. l + (1 + w), u[i].kind = "header", i > l
      PROVE  i = l + 1
  <2> SUFFICES ASSUME i # l + 1
               PROVE  FALSE
    OBVIOUS
  <2>1. i - l - 1 \in 1 .. w /\ l + (1 + (i - l - 1)) = i /\ 1 + (i - l - 1) \in 1 .. 1 + w
    BY <1>8
  <2>2. u[l + (1 + (i - l - 1))] = m[1 + (i - l - 1)]
    BY <1>7, <2>1
  <2>3. m[1 + (i - l - 1)] = [kind |-> "data", of |-> d[n], part |-> i - l - 1]
    BY <1>5, <2>1
  <2>4. u[i] = [kind |-> "data", of |-> d[n], part |-> i - l - 1]
    BY <2>1, <2>2, <2>3
  <2> QED BY <1>8, <2>4
<1>9. u[l + 1] = Header(n, Size[d[n]], "file")
  BY <1>4, <1>7
<1>10. u[l + 1].name = n /\ u[l + 1].size = Size[d[n]]
  BY <1>9 DEF Header
<1>11. ASSUME NEW i \in 1 .. l, b[i].name = n, b[i].kind = "header"
       PROVE  FALSE
  <2>1. PICK q \in 1 .. k : PathOrder[q] = n
    BY <1>2, <1>11 DEF Lists
  <2>2. q \in 1 .. Len(PathOrder) /\ q # k + 1
    OBVIOUS
  <2> QED BY <1>1, <2>1, <2>2, OrderOnce
<1>12. ASSUME NEW i \in 1 .. l + (1 + w), u[i].kind = "header"
       PROVE  /\ i + Whole(u[i].size) <= l + (1 + w) /\ u[i].name \in DOMAIN d
              /\ \E q \in 1 .. k + 1 : PathOrder[q] = u[i].name
              /\ \A j \in 1 .. l + (1 + w) : u[j].kind = "header" /\ u[j].name = u[i].name => j = i
  <2>1. CASE i > l
    <3>1. i = l + 1
      BY <1>8, <1>12, <2>1
    <3>2. i + Whole(u[i].size) <= l + (1 + w) /\ u[i].name \in DOMAIN d
      BY <1>1, <1>3, <1>10, <3>1
    <3>3. k + 1 \in 1 .. k + 1 /\ PathOrder[k + 1] = u[i].name
      BY <1>1, <1>10, <3>1
    <3>4. ASSUME NEW j \in 1 .. l + (1 + w), u[j].kind = "header", u[j].name = u[i].name
          PROVE  j = i
      <4>1. CASE j > l
        BY <1>8, <3>1, <3>4, <4>1
      <4>2. CASE j <= l
        <5>1. j \in 1 .. l /\ u[j] = b[j]
          BY <1>7, <3>4, <4>2
        <5> QED BY <1>10, <1>11, <3>1, <3>4, <5>1
      <4> QED BY <4>1, <4>2
    <3> QED BY <3>2, <3>3, <3>4
  <2>2. CASE i <= l
    <3>1. i \in 1 .. l /\ u[i] = b[i]
      BY <1>7, <1>12, <2>2
    <3>2. /\ i + Whole(b[i].size) <= l /\ b[i].name \in DOMAIN d
          /\ \E q \in 1 .. k : PathOrder[q] = b[i].name
          /\ \A j \in 1 .. l : b[j].kind = "header" /\ b[j].name = b[i].name => j = i
      BY <1>2, <1>12, <3>1 DEF Lists
    <3>3. b[i].size \in Nat
      <4>1. b[i] \in Blocks
        BY <1>2, <3>1, ElementOfSeq
      <4> QED BY <1>12, <3>1, <4>1 DEF Blocks, Headers, Parts, Zeros
    <3>4. i + Whole(u[i].size) <= l + (1 + w)
      <4>1. PICK v \in Nat : v = Whole(b[i].size)
        BY <3>3, WholeType
      <4> QED BY <3>1, <3>2, <4>1
    <3>5. \E q \in 1 .. k + 1 : PathOrder[q] = u[i].name
      BY <3>1, <3>2
    <3>6. ASSUME NEW j \in 1 .. l + (1 + w), u[j].kind = "header", u[j].name = u[i].name
          PROVE  j = i
      <4>1. CASE j > l
        <5>1. j = l + 1
          BY <1>8, <3>6, <4>1
        <5>2. b[i].name = n
          BY <1>10, <3>1, <3>6, <5>1
        <5> QED BY <1>11, <1>12, <3>1, <5>2
      <4>2. CASE j <= l
        <5>1. j \in 1 .. l /\ u[j] = b[j]
          BY <1>7, <3>6, <4>2
        <5> QED BY <3>1, <3>2, <3>6, <5>1
      <4> QED BY <4>1, <4>2
    <3> QED BY <3>1, <3>2, <3>4, <3>5, <3>6
  <2> QED BY <1>12, <2>1, <2>2
<1>13. Lists(u, d, k + 1)
  BY <1>7, <1>12 DEF Lists
<1> QED BY <1>1, <1>13 DEF u, m

LEMMA WrittenLists ==
  ASSUME NEW d \in Documents
  PROVE  \A k \in 0 .. Len(PathOrder) : Lists(Written(d)[k], d, k)
<1> DEFINE P == {k \in Nat : Lists(Written(d)[k], d, k)}
<1>1. Len(PathOrder) \in Nat /\ Written(d)[0] = << >>
  BY WrittenSteps
<1>2. 0 \in P
  <2>1. Len(Written(d)[0]) = 0
    BY <1>1, EmptySeq
  <2> QED BY <2>1 DEF Lists
<1>3. ASSUME NEW k \in 0 .. Len(PathOrder) - 1, k \in P
      PROVE  k + 1 \in P
  <2>1. k + 1 \in 1 .. Len(PathOrder) /\ (k + 1) - 1 = k /\ k + 1 \in Nat /\ k \in 0 .. Len(PathOrder) /\ k \in Nat
    BY <1>1
  <2>2. Written(d)[k + 1] = More(d, Written(d)[k], k + 1)
    BY <2>1, WrittenSteps
  <2>3. Written(d)[k] \in Seq(Blocks) /\ Lists(Written(d)[k], d, k)
    BY <1>3, <2>1, WrittenType
  <2>4. CASE PathOrder[k + 1] \in DOMAIN d
    BY <2>1, <2>2, <2>3, <2>4, ListsMore DEF More
  <2>5. CASE PathOrder[k + 1] \notin DOMAIN d
    <3>1. Written(d)[k + 1] = Written(d)[k]
      BY <2>2, <2>5 DEF More
    <3>2. Lists(Written(d)[k], d, k + 1)
      <4>1. \A q \in 1 .. k : q \in 1 .. k + 1
        BY <2>1
      <4> QED BY <2>3, <4>1 DEF Lists
    <3> QED BY <2>1, <3>1, <3>2
  <2> QED BY <2>4, <2>5
<1> HIDE DEF P
<1>4. \A k \in 0 .. Len(PathOrder) : k \in P
  <2>1. 0 \in 0 .. Len(PathOrder)
    BY <1>1
  <2> QED BY <1>1, <1>2, <1>3, <2>1, Forwards
<1> QED BY <1>4 DEF P

\* The headers of a member of an archive.
FileAt(a, i) == GoodHeader(a, i) /\ a.blocks[i].type = "file"

\* Only what was packed is there, and each member once, until a program adds one.
NamesKept ==
  /\ "added" \notin damage => \A i : FileAt(archive, i) => archive.blocks[i].name \in DOMAIN packed
  /\ \A i, j : FileAt(archive, i) /\ FileAt(archive, j) /\ archive.blocks[i].name = archive.blocks[j].name /\ i # j =>
       "added" \in damage /\ archive.blocks[i].name \in DOMAIN packed

LEMMA PackedHeader ==
  ASSUME NEW d \in Documents, NEW j, GoodHeader(Pack(d), j)
  PROVE  /\ j + Whole(Pack(d).blocks[j].size) <= Len(Pack(d).blocks) - 2
         /\ Pack(d).blocks[j].name \in DOMAIN d
         /\ \A i : GoodHeader(Pack(d), i) /\ Pack(d).blocks[i].name = Pack(d).blocks[j].name => i = j
<1>1. PICK b \in Seq(Blocks) :
           /\ b = Written(d)[Len(PathOrder)]
           /\ Pack(d).blocks \in Seq(Blocks) /\ Len(Pack(d).blocks) = Len(b) + 2
           /\ \A i \in 1 .. Len(b) : Pack(d).blocks[i] = b[i]
           /\ Pack(d).blocks[Len(b) + 1] = Zero /\ Pack(d).blocks[Len(b) + 2] = Zero
  BY PackedBlocks
<1>2. PICK l \in Nat : l = Len(b)
  BY LenProperties
<1>3. DOMAIN Pack(d).blocks = 1 .. l + 2
  BY <1>1, <1>2, LenProperties
<1>4. Lists(b, d, Len(PathOrder))
  <2>1. Len(PathOrder) \in 0 .. Len(PathOrder)
    BY WrittenSteps
  <2> QED BY <1>1, <2>1, WrittenLists
<1>5. ASSUME NEW i, GoodHeader(Pack(d), i)
      PROVE  i \in 1 .. l /\ Pack(d).blocks[i] = b[i] /\ b[i].kind = "header"
  <2>1. i \in 1 .. l + 2 /\ Pack(d).blocks[i].kind = "header"
    BY <1>3, <1>5 DEF GoodHeader
  <2>2. i # l + 1 /\ i # l + 2
    BY <1>1, <1>2, <2>1 DEF Zero
  <2>3. i \in 1 .. l
    BY <2>1, <2>2
  <2> QED BY <1>1, <1>2, <2>1, <2>3
<1>6. j \in 1 .. l /\ Pack(d).blocks[j] = b[j] /\ b[j].kind = "header"
  BY <1>5
<1>7. /\ j + Whole(b[j].size) <= l /\ b[j].name \in DOMAIN d
      /\ \A i \in 1 .. l : b[i].kind = "header" /\ b[i].name = b[j].name => i = j
  BY <1>2, <1>4, <1>6 DEF Lists
<1>8. l = Len(Pack(d).blocks) - 2
  BY <1>1, <1>2
<1> QED BY <1>5, <1>6, <1>7, <1>8

LEMMA CompletePack ==
  ASSUME NEW d \in Documents
  PROVE  Complete(Pack(d))
<1>1. PICK l \in Nat : Len(Pack(d).blocks) = l + 2 /\ Pack(d).bytes = Block * Len(Pack(d).blocks)
  <2>1. PICK b \in Seq(Blocks) : Len(Pack(d).blocks) = Len(b) + 2 /\ Pack(d).bytes = Block * Len(Pack(d).blocks)
    BY PackedBlocks
  <2>2. Len(b) \in Nat
    BY LenProperties
  <2> QED BY <2>1, <2>2
<1> QED BY <1>1, PackedHeader DEF Complete

----------------------------------------------------------------------------
(* What a step of the whole system is. *)

LEMMA Changes ==
  ASSUME Next
  PROVE  \/ Step /\ packed' = packed /\ damage' = damage
         \/ \E n \in Nat : n < archive.bytes /\ Becomes(Truncated(archive, n), "cut")
         \/ \E n \in Names, c \in Contents : "cut" \notin damage /\ Becomes(Added(archive, n, c), "added")
         \/ \E type \in Kinds \ {"file"} : "cut" \notin damage /\ Becomes(Foreword(archive, type), "foreword")
         \/ \E i \in DOMAIN archive.blocks : Becomes(Rotten(archive, i), "rotten")
<1>1. ASSUME NEW n \in 0 .. archive.bytes, Cut(n)
      PROVE  n \in Nat /\ n < archive.bytes /\ Becomes(Truncated(archive, n), "cut")
  BY <1>1 DEF Cut
<1>2. ASSUME NEW e \in Extras, AddTo(e[1], e[2])
      PROVE  \E n \in Names, c \in Contents : "cut" \notin damage /\ Becomes(Added(archive, n, c), "added")
  <2>1. e[1] \in Names /\ e[2] \in Contents
    <3>1. e \in Names \X Contents
      BY ReadersConstants
    <3> QED BY <3>1
  <2> QED BY <1>2, <2>1 DEF AddTo
<1>3. ASSUME NEW type \in Kinds \ {"file"}, Wrap(type)
      PROVE  "cut" \notin damage /\ Becomes(Foreword(archive, type), "foreword")
  BY <1>3 DEF Wrap
<1>4. ASSUME NEW i \in DOMAIN archive.blocks, Rot(i)
      PROVE  Becomes(Rotten(archive, i), "rotten")
  BY <1>4 DEF Rot
<1>5. ASSUME MicroNext, UNCHANGED <<packed, damage>>
      PROVE  Step /\ packed' = packed /\ damage' = damage
  BY <1>5 DEF Step
<1> QED BY <1>1, <1>2, <1>3, <1>4, <1>5 DEF Next

LEMMA SoundInit == Init => Sound /\ Uncut /\ NamesKept
<1> SUFFICES ASSUME Init
             PROVE  Sound /\ Uncut /\ NamesKept
  OBVIOUS
<1>1. packed \in Documents /\ damage = {} /\ archive = Pack(packed) /\ MicroInit
  BY DEF Init
<1>2. archive \in Archives /\ Complete(archive)
  BY <1>1, PackType, CompletePack
<1>3. MicroInv
  BY <1>1, <1>2, MicroInvInit
<1>4. AtRest
  BY <1>1 DEF MicroInit, AtRest, Idle
<1>5. NamesKept
  BY <1>1, PackedHeader DEF NamesKept, FileAt
<1> QED BY <1>1, <1>2, <1>3, <1>4, <1>5 DEF Sound, Sources, Uncut

LEMMA SoundStep == Sound /\ Uncut /\ [Next]_vars => Sound' /\ Uncut'
<1> SUFFICES ASSUME Sound, Uncut, [Next]_vars
             PROVE  Sound' /\ Uncut'
  OBVIOUS
<1>1. archive \in Archives /\ Sources /\ MicroInv /\ AtRest /\ MicroTypeOK /\ CursorHome
  BY DEF Sound, MicroInv, MicroTypeOK, Reading
<1>2. ASSUME Step, packed' = packed, damage' = damage
      PROVE  Sound' /\ Uncut'
  <2>1. MicroInv' /\ AtRest'
    BY <1>1, <1>2, RestStep, MicroStepType, StepArena, StepSuffices, StepEntries, StepReading DEF MicroInv, Reading
  <2>2. archive' = archive
    BY <1>1, <1>2, IndexMoves
  <2> QED BY <1>1, <1>2, <2>1, <2>2 DEF Sound, Sources, Uncut
<1>3. ASSUME NEW a \in Archives, NEW kind \in {"cut", "added", "foreword", "rotten"}, Becomes(a, kind),
             kind # "cut" /\ "cut" \notin damage => Complete(a)
      PROVE  Sound' /\ Uncut'
  <2>1. MicroInv' /\ AtRest'
    BY <1>1, <1>3, BecomesSound
  <2>2. archive' = a /\ damage' = damage \union {kind} /\ packed' = packed
    BY <1>3 DEF Becomes
  <2> QED BY <1>1, <1>3, <2>1, <2>2 DEF Sound, Sources, Uncut
<1>4. ASSUME NEW n \in Nat, n < archive.bytes, Becomes(Truncated(archive, n), "cut")
      PROVE  Sound' /\ Uncut'
  BY <1>1, <1>3, <1>4, TruncatedType
<1>5. ASSUME NEW n \in Names, NEW c \in Contents, "cut" \notin damage, Becomes(Added(archive, n, c), "added")
      PROVE  Sound' /\ Uncut'
  BY <1>1, <1>3, <1>5, CompleteAdded DEF Uncut
<1>6. ASSUME NEW type \in Kinds \ {"file"}, "cut" \notin damage, Becomes(Foreword(archive, type), "foreword")
      PROVE  Sound' /\ Uncut'
  BY <1>1, <1>3, <1>6, CompleteForeword DEF Uncut
<1>7. ASSUME NEW i \in DOMAIN archive.blocks, Becomes(Rotten(archive, i), "rotten")
      PROVE  Sound' /\ Uncut'
  BY <1>1, <1>3, <1>7, CompleteRotten, RottenIs DEF Uncut
<1>8. CASE UNCHANGED vars
  BY <1>2, <1>8 DEF vars, Step, microVars
<1> QED BY <1>2, <1>4, <1>5, <1>6, <1>7, <1>8, Changes

LEMMA NamesStep == Sound /\ Uncut /\ NamesKept /\ [Next]_vars => NamesKept'
<1> SUFFICES ASSUME Sound, Uncut, NamesKept, [Next]_vars
             PROVE  NamesKept'
  OBVIOUS
<1>1. archive \in Archives /\ MicroTypeOK
  BY DEF Sound, MicroInv, MicroTypeOK
<1>2. ASSUME Step, packed' = packed, damage' = damage
      PROVE  NamesKept'
  <2>1. archive' = archive
    BY <1>1, <1>2, IndexMoves
  <2> QED BY <1>2, <2>1 DEF NamesKept
\* Where every header of a member was one before, and no two were the same.
<1>3. ASSUME NEW a, NEW kind, Becomes(a, kind), NEW shift \in Nat,
             \A j : FileAt(a, j) => j \in Nat /\ FileAt(archive, j - shift) /\ a.blocks[j] = archive.blocks[j - shift]
      PROVE  NamesKept'
  <2>1. archive' = a /\ damage' = damage \union {kind} /\ packed' = packed
    BY <1>3 DEF Becomes
  <2>2. ASSUME "added" \notin damage', NEW i, FileAt(a, i)
        PROVE  a.blocks[i].name \in DOMAIN packed
    <3>1. "added" \notin damage
      BY <2>1, <2>2
    <3> QED BY <1>3, <2>2, <3>1 DEF NamesKept
  <2>3. ASSUME NEW i, NEW j, FileAt(a, i), FileAt(a, j), a.blocks[i].name = a.blocks[j].name, i # j
        PROVE  "added" \in damage' /\ a.blocks[i].name \in DOMAIN packed
    <3>1. i \in Nat /\ j \in Nat /\ i - shift # j - shift
      BY <1>3, <2>3
    <3>2. /\ FileAt(archive, i - shift) /\ FileAt(archive, j - shift)
          /\ a.blocks[i] = archive.blocks[i - shift] /\ a.blocks[j] = archive.blocks[j - shift]
      BY <1>3, <2>3
    <3> QED BY <2>1, <2>3, <3>1, <3>2 DEF NamesKept
  <2> QED BY <2>1, <2>2, <2>3 DEF NamesKept
<1>4. ASSUME NEW n \in Nat, n < archive.bytes, Becomes(Truncated(archive, n), "cut")
      PROVE  NamesKept'
  <2>1. ASSUME NEW j, FileAt(Truncated(archive, n), j)
        PROVE  j \in Nat /\ FileAt(archive, j - 0) /\ Truncated(archive, n).blocks[j] = archive.blocks[j - 0]
    <3>1. GoodHeader(archive, j) /\ Truncated(archive, n).blocks[j] = archive.blocks[j]
      BY <1>1, <1>4, <2>1, TruncatedHeader DEF FileAt
    <3>2. j \in Nat /\ j - 0 = j
      BY <1>1, <3>1, BlocksOf DEF GoodHeader
    <3> QED BY <2>1, <3>1, <3>2 DEF FileAt
  <2> QED BY <1>3, <1>4, <2>1
<1>5. ASSUME NEW i \in DOMAIN archive.blocks, Becomes(Rotten(archive, i), "rotten")
      PROVE  NamesKept'
  <2>1. ASSUME NEW j, FileAt(Rotten(archive, i), j)
        PROVE  j \in Nat /\ FileAt(archive, j - 0) /\ Rotten(archive, i).blocks[j] = archive.blocks[j - 0]
    <3>1. GoodHeader(archive, j) /\ Rotten(archive, i).blocks[j] = archive.blocks[j]
      BY <1>1, <2>1, RottenHeader DEF FileAt
    <3>2. j \in Nat /\ j - 0 = j
      BY <1>1, <3>1, BlocksOf DEF GoodHeader
    <3> QED BY <2>1, <3>1, <3>2 DEF FileAt
  <2> QED BY <1>3, <1>5, <2>1
<1>6. ASSUME NEW type \in Kinds \ {"file"}, Becomes(Foreword(archive, type), "foreword")
      PROVE  NamesKept'
  <2>1. PICK k \in {1, 2} : OpensWith(Foreword(archive, type), k, type, archive)
    BY <1>1, ForewordIs
  <2>2. ASSUME NEW j, FileAt(Foreword(archive, type), j)
        PROVE  j \in Nat /\ FileAt(archive, j - k) /\ Foreword(archive, type).blocks[j] = archive.blocks[j - k]
    <3>1. ~(j = 1 /\ Foreword(archive, type).blocks[j] = Header(PathOrder[1], Block * (k - 1), type))
      BY <2>2 DEF FileAt, Header
    <3>2. j > k /\ j \in Nat /\ GoodHeader(archive, j - k) /\ Foreword(archive, type).blocks[j] = archive.blocks[j - k]
      BY <1>1, <2>1, <2>2, <3>1, ForewordHeader DEF FileAt
    <3> QED BY <2>2, <3>2 DEF FileAt
  <2> QED BY <1>3, <1>6, <2>1, <2>2
<1>7. ASSUME NEW n \in Names, NEW c \in Contents, "cut" \notin damage, Becomes(Added(archive, n, c), "added")
      PROVE  NamesKept'
  <2> DEFINE a == Added(archive, n, c)
  <2>1. archive' = a /\ damage' = damage \union {"added"} /\ packed' = packed /\ "added" \notin damage
    BY <1>7 DEF Becomes
  <2>2. PICK l \in Nat : l = Len(archive.blocks) /\ l >= 2
    BY <1>1, <1>7, BlocksOf DEF Uncut, Complete
  <2>3. ASSUME NEW j, FileAt(a, j)
        PROVE  \/ j = l - 1 /\ a.blocks[j].name = n
               \/ j # l - 1 /\ FileAt(archive, j) /\ a.blocks[j] = archive.blocks[j]
    <3> HIDE DEF a
    <3>1. \/ j = l - 1 /\ a.blocks[j] = Header(n, Size[c], "file")
          \/ /\ j \in 1 .. l - 2 /\ GoodHeader(archive, j) /\ a.blocks[j] = archive.blocks[j]
      BY <1>1, <2>2, <2>3, AddedHeader DEF FileAt, a
    <3>2. CASE j = l - 1 /\ a.blocks[j] = Header(n, Size[c], "file")
      BY <3>2 DEF Header
    <3>3. CASE j \in 1 .. l - 2 /\ GoodHeader(archive, j) /\ a.blocks[j] = archive.blocks[j]
      BY <2>2, <2>3, <3>3 DEF FileAt
    <3> QED BY <3>1, <3>2, <3>3
  <2> HIDE DEF a
  <2>4. ASSUME NEW i, NEW j, FileAt(a, i), FileAt(a, j), a.blocks[i].name = a.blocks[j].name, i # j
        PROVE  a.blocks[i].name \in DOMAIN packed
    <3>1. CASE i # l - 1
      BY <2>1, <2>3, <2>4, <3>1 DEF NamesKept
    <3>2. CASE j # l - 1
      BY <2>1, <2>3, <2>4, <3>2 DEF NamesKept
    <3> QED BY <2>4, <3>1, <3>2
  <2> QED BY <2>1, <2>4 DEF NamesKept
<1>8. CASE UNCHANGED vars
  BY <1>2, <1>8 DEF vars, Step, microVars
<1> QED BY <1>2, <1>4, <1>5, <1>6, <1>7, <1>8, Changes

----------------------------------------------------------------------------
(* The verdicts. *)

\* Whatever is read, its parsed form is well-typed.
LEMMA ReadsTyped ==
  ASSUME NEW a \in Archives, NEW r \in {CppOpen(a), TsOpen(a)}, r.ok
  PROVE  TypedContainer(Parsed(r.members))
<1> DEFINE ms == TarRead(a).members
<1>1. TarRead(a) \in Tells
  BY TarTypes DEF TarRead
<1>2. ms \in Seq(Told)
  BY <1>1 DEF Tells
<1>3. r.members = FirstOf(ms) \/ r.members = LastOf(ms)
  BY DEF CppOpen, TsOpen, Opened, Refused
<1> HIDE DEF ms
<1>4. DOMAIN FirstOf(ms) = NamesIn(ms) /\ DOMAIN LastOf(ms) = NamesIn(ms)
  BY DEF FirstOf, LastOf
<1>5. \A i \in DOMAIN ms : ms[i].value \in Contents \union {Garbage}
  <2> TAKE i \in DOMAIN ms
  <2>1. i \in 1 .. Len(ms)
    BY <1>2, LenProperties
  <2>2. ms[i] \in Told
    BY <1>2, <2>1, ElementOfSeq
  <2> QED BY <2>2 DEF Told
<1>6. \A n \in DOMAIN r.members : r.members[n] \in Contents \union {Garbage}
  BY <1>2, <1>3, <1>4, <1>5, FirstIs, LastIs
<1>7. \A c \in Contents \union {Garbage} : WellTyped(Meaning[c])
  BY ReadersConstants
<1> QED BY <1>6, <1>7 DEF TypedContainer, Parsed

\* The ladder of the three implementations gives the same issues, but for what TsAgrees and
\* MicroAgrees name, for every document, every archive that becomes of it, and whatever its
\* contents mean (validate.cpp, validate.ts, validate.c, verify.c).
THEOREM VerdictsAlwaysAgree == Spec => []VerdictsAgree
<1>1. Sound => VerdictsAgree
  <2> SUFFICES ASSUME Sound, NEW r \in {s \in {CppOpen(archive), TsOpen(archive)} : s.ok}
               PROVE  TsAgrees(Parsed(r.members)) /\ MicroAgrees(Parsed(r.members))
    BY DEF VerdictsAgree
  <2>1. archive \in Archives
    BY DEF Sound, MicroInv, MicroTypeOK
  <2>2. TypedContainer(Parsed(r.members))
    BY <2>1, ReadsTyped
  <2> QED BY <2>2, TsAgreesAlways, MicroAgreesAlways
<1> QED BY <1>1, SoundInit, SoundStep, PTL DEF Spec

----------------------------------------------------------------------------
(* The walk of the C reader and tar_read, side by side. *)

Row(a, e) == [name |-> e.name, value |-> Value(a, e.from \div Block, e.size)]
Shown(a, entries) == [i \in DOMAIN entries |-> Row(a, entries[i])]

LEMMA RowType ==
  ASSUME NEW a, NEW e \in Entries
  PROVE  Row(a, e) \in Told
<1>1. e.name \in Names
  BY DEF Entries
<1> QED BY <1>1, ValueType DEF Row, Told

LEMMA ShownType ==
  ASSUME NEW a, NEW es \in Seq(Entries)
  PROVE  Shown(a, es) \in Seq(Told) /\ Len(Shown(a, es)) = Len(es) /\ DOMAIN Shown(a, es) = DOMAIN es
<1>1. PICK n \in Nat : n = Len(es) /\ DOMAIN es = 1 .. n
  BY LenProperties
<1>2. \A i \in 1 .. n : es[i] \in Entries
  BY <1>1, ElementOfSeq
<1>3. \A i \in 1 .. n : Row(a, es[i]) \in Told
  BY <1>2, RowType
<1> DEFINE s == [i \in 1 .. n |-> Row(a, es[i])]
<1>4. s \in Seq(Told) /\ Len(s) = n
  BY <1>1, <1>3
<1>5. Shown(a, es) = s
  BY <1>1 DEF Shown
<1> HIDE DEF s
<1> QED BY <1>1, <1>4, <1>5, LenProperties

LEMMA ShownMore ==
  ASSUME NEW a, NEW es \in Seq(Entries), NEW e \in Entries
  PROVE  Shown(a, Append(es, e)) = Shown(a, es) \o <<Row(a, e)>>
<1>1. PICK n \in Nat : n = Len(es) /\ DOMAIN es = 1 .. n
  BY LenProperties
<1>2. PICK fs \in Seq(Entries) : fs = Append(es, e) /\ Len(fs) = n + 1 /\ fs[n + 1] = e /\ \A i \in 1 .. n : fs[i] = es[i]
  <2>1. Append(es, e) \in Seq(Entries) /\ Len(Append(es, e)) = n + 1 /\ Append(es, e)[n + 1] = e
    BY <1>1
  <2>2. \A i \in 1 .. n : Append(es, e)[i] = es[i]
    BY <1>1
  <2> QED BY <2>1, <2>2
<1>3. PICK x \in Told : x = Row(a, e)
  BY RowType
<1> DEFINE one == <<x>>
<1>4. one \in Seq(Told) /\ Len(one) = 1 /\ one[1] = x
  BY <1>3
<1> HIDE DEF one
<1>5. DOMAIN fs = 1 .. n + 1
  BY <1>2, LenProperties
<1> DEFINE s == Shown(a, es) \o one
<1>6. /\ s \in Seq(Told) /\ Len(s) = n + 1
      /\ \A i \in 1 .. n + 1 : s[i] = IF i <= n THEN Shown(a, es)[i] ELSE one[i - n]
  <2>1. PICK sh \in Seq(Told) : sh = Shown(a, es) /\ Len(sh) = n
    BY <1>1, ShownType
  <2>2. sh \o one \in Seq(Told)
    BY <1>4, <2>1, ConcatProperties
  <2>3. Len(sh \o one) = Len(sh) + Len(one)
    BY <1>4, <2>1, ConcatProperties
  <2>4. \A i \in 1 .. Len(sh) + Len(one) : (sh \o one)[i] = IF i <= Len(sh) THEN sh[i] ELSE one[i - Len(sh)]
    BY <1>4, <2>1, ConcatProperties
  <2> QED BY <1>4, <2>1, <2>2, <2>3, <2>4
<1>7. Shown(a, fs) \in Seq(Told) /\ Len(Shown(a, fs)) = n + 1
  BY <1>2, ShownType
<1> HIDE DEF s
<1>8. ASSUME NEW i \in 1 .. n + 1
      PROVE  Shown(a, fs)[i] = s[i]
  <2>1. Shown(a, fs)[i] = Row(a, fs[i])
    BY <1>5 DEF Shown
  <2>2. CASE i = n + 1
    <3>1. ~(i <= n) /\ i - n = 1
      BY <2>2
    <3> QED BY <1>2, <1>3, <1>4, <1>6, <2>1, <2>2, <3>1
  <2>3. CASE i # n + 1
    <3>1. i \in 1 .. n /\ i <= n
      BY <2>3
    <3>2. Shown(a, es)[i] = Row(a, es[i])
      BY <1>1, <3>1 DEF Shown
    <3> QED BY <1>2, <1>6, <2>1, <3>1, <3>2
  <2> QED BY <2>2, <2>3
<1>9. Shown(a, fs) = s
  BY <1>6, <1>7, <1>8, SeqEqual
<1> QED BY <1>2, <1>3, <1>4, <1>9 DEF s, one

\* What is left for tar_read, behind what the walk has indexed.
Agrees == reader.status \in {"opening", "open"} =>
  /\ TarRead(archive).ok <=> TarFrom(archive)[reader.next].ok
  /\ TarFrom(archive)[reader.next].ok =>
       TarRead(archive).members = Shown(archive, reader.entries) \o TarFrom(archive)[reader.next].members

\* Where each entry comes from.
Placed == reader.status \in {"opening", "open"} =>
  /\ \A i \in DOMAIN reader.entries : \E p \in 1 .. reader.next :
       /\ reader.entries[i].from = p * Block /\ FileAt(archive, p)
       /\ archive.blocks[p].name = reader.entries[i].name
  /\ \A i, j \in DOMAIN reader.entries : i # j => reader.entries[i].from # reader.entries[j].from

AtEnd == reader.status = "open" =>
  (reader.next + 1) * Block <= archive.bytes /\ archive.blocks[reader.next + 1] = Zero

InTime == reader.status = "opening" /\ "cut" \notin damage => reader.next <= Len(archive.blocks) - 2

NotParsed == reader.status = "E_PARSE" => ~TarRead(archive).ok \/ "cut" \in damage

Walk == Agrees /\ Placed /\ AtEnd /\ InTime /\ NotParsed

LEMMA WholeMultiple ==
  ASSUME NEW n \in Nat
  PROVE  (Block * n) % Block = 0
<1>1. PICK b \in Nat : b = Block /\ b > 0
  BY TarConstants
<1>2. PICK m \in Nat : m = b * n
  BY <1>1
<1>3. PICK q \in Int, r \in Int : r = m % b /\ m = b * q + r /\ 0 <= r /\ r < b
  <2>1. m = b * (m \div b) + (m % b) /\ m \div b \in Int /\ m % b \in Int /\ 0 <= m % b /\ m % b < b
    BY <1>1
  <2> QED BY <2>1
<1>4. ~(q > n)
  <2> SUFFICES ASSUME q >= n + 1
               PROVE  FALSE
    BY <1>3
  <2>1. b * q >= b * (n + 1) /\ b * (n + 1) = m + b
    BY <1>1, <1>2, <1>3
  <2> QED BY <1>1, <1>2, <1>3, <2>1
<1>5. ~(q < n)
  <2> SUFFICES ASSUME q + 1 <= n
               PROVE  FALSE
    BY <1>3
  <2>1. b * (q + 1) <= b * n /\ b * (q + 1) = b * q + b
    BY <1>1, <1>2, <1>3
  <2> QED BY <1>1, <1>2, <1>3, <2>1
<1>6. q = n
  BY <1>3, <1>4, <1>5
<1> QED BY <1>1, <1>2, <1>3, <1>6

\* In a complete archive, what a good header claims is there.
LEMMA ClaimsFit ==
  ASSUME NEW a \in Archives, Complete(a), NEW i \in Nat, GoodHeader(a, i)
  PROVE  i * Block + a.blocks[i].size <= a.bytes
<1>1. PICK l \in Nat : l = Len(a.blocks)
  BY BlocksOf
<1>2. PICK s \in Nat, w \in Nat : s = a.blocks[i].size /\ w = Whole(s)
  BY BlocksOf DEF GoodHeader
<1>3. i + w <= l
  <2>1. i + w <= l - 2
    BY <1>1, <1>2 DEF Complete, GoodHeader
  <2> QED BY <1>1, <2>1
<1>4. PICK b \in Nat : b = Block /\ b > 0 /\ (w + 1) * b > s + b - 1
  <2>1. (w + 1) * Block > s + Block - 1
    BY <1>2, WholeBounds
  <2> QED BY <2>1, TarConstants
<1>5. a.bytes = b * l
  BY <1>1, <1>4 DEF Complete
<1>6. (i + w) * b <= l * b /\ (i + w) * b = i * b + w * b /\ (w + 1) * b = w * b + b /\ l * b = b * l
  BY <1>3, <1>4
<1>7. i * b \in Nat /\ w * b \in Nat /\ b * l \in Nat
  BY <1>4
<1> QED BY <1>2, <1>4, <1>5, <1>6, <1>7

LEMMA WalkStep == Sound /\ Uncut /\ Walk /\ Step /\ packed' = packed /\ damage' = damage => Walk'
<1> SUFFICES ASSUME Sound, Uncut, Walk, Step, damage' = damage
             PROVE  Walk'
  OBVIOUS
<1>1. /\ archive \in Archives /\ MicroTypeOK /\ CursorHome /\ reader \in ReaderType
      /\ reader.entries \in Seq(Entries) /\ reader.next \in Nat
  <2>1. MicroTypeOK /\ CursorHome
    BY DEF Sound, MicroInv, Reading
  <2> QED BY <2>1, TypeParts DEF ReaderType
<1>2. archive' = archive
  BY <1>1, IndexMoves
<1>3. PICK L \in Nat : L = Len(archive.blocks) /\ DOMAIN archive.blocks = 1 .. L
  BY <1>1, BlocksOf
<1>4. PICK b \in Nat : b = Block /\ b > 0
  BY TarConstants
<1>5. "cut" \notin damage => Complete(archive)
  BY DEF Uncut
<1>6. archive.bytes \in Nat
  BY <1>1 DEF Archives
\* A reader that is none.
<1>7. ASSUME NEW status, NEW offered, Ends(status, offered), status \notin {"opening", "open"},
             status = "E_PARSE" => ~TarRead(archive).ok \/ "cut" \in damage
      PROVE  Walk'
  <2>1. reader'.status = status
    BY <1>7 DEF Ends, Closed
  <2> QED BY <1>2, <1>7, <2>1 DEF Walk, Agrees, Placed, AtEnd, InTime, NotParsed
<1>8. ASSUME NEW offered \in Rooms, NEW skew \in 0 .. Align - 1, Open(offered, skew)
      PROVE  Walk'
  <2>1. CASE archive.bytes < 2 * Block \/ archive.bytes % Block # 0
    <3>1. Ends("E_PARSE", offered)
      BY <1>8, <2>1 DEF Open
    <3>2. ASSUME "cut" \notin damage
          PROVE  FALSE
      <4>1. archive.bytes = Block * L /\ L >= 2
        BY <1>3, <1>5, <3>2 DEF Complete
      <4>2. archive.bytes % Block = 0
        BY <4>1, WholeMultiple
      <4>3. b * L >= b * 2
        BY <1>4, <4>1
      <4> QED BY <1>4, <2>1, <4>1, <4>2, <4>3
    <3> QED BY <1>7, <3>1, <3>2
  <2>2. CASE ~(archive.bytes < 2 * Block \/ archive.bytes % Block # 0)
    <3>1. CASE offered <= skew \/ offered - skew < HeaderBytes
      <4>1. Ends("E_ARENA", offered)
        BY <1>8, <2>2, <3>1 DEF Open
      <4> QED BY <1>7, <4>1
    <3>2. CASE ~(offered <= skew \/ offered - skew < HeaderBytes)
      <4>1. reader'.status = "opening" /\ reader'.entries = << >> /\ reader'.next = 0
        BY <1>8, <2>2, <3>2 DEF Open, Closed
      <4>2. TarFrom(archive)[0] \in Tells
        BY <1>1, TarTypes
      <4>3. TarFrom(archive)[0].members \in Seq(Told)
        BY <4>2 DEF Tells
      <4>4. << >> \in Seq(Entries) /\ Len(<< >>) = 0
        BY EmptySeq
      <4>5. Shown(archive, << >>) \in Seq(Told) /\ Len(Shown(archive, << >>)) = 0
        BY <4>4, ShownType
      <4>6. Shown(archive, << >>) = << >>
        BY <4>5, EmptySeq
      <4>7. << >> \o TarFrom(archive)[0].members = TarFrom(archive)[0].members
        BY <4>3, ConcatEmptySeq
      <4>8. Agrees'
        BY <1>2, <4>1, <4>6, <4>7 DEF Agrees, TarRead
      <4>9. Placed' /\ AtEnd' /\ NotParsed'
        BY <4>1 DEF Placed, AtEnd, NotParsed
      <4>10. InTime'
        <5>1. "cut" \notin damage => L >= 2
          BY <1>3, <1>5 DEF Complete
        <5> QED BY <1>2, <1>3, <4>1, <5>1 DEF InTime
      <4> QED BY <4>8, <4>9, <4>10 DEF Walk
    <3> QED BY <3>1, <3>2
  <2> QED BY <2>1, <2>2
\* The walk is at a block.
<1>9. ASSUME AtBlock, Here # Zero
      PROVE  /\ ~((reader.next + 1) * Block > archive.bytes \/ archive.blocks[reader.next + 1] = Zero)
             /\ reader.next + 1 \in 1 .. L /\ reader.status = "opening"
             /\ Here = archive.blocks[reader.next + 1]
             /\ (HeaderGood <=> GoodHeader(archive, reader.next + 1))
  <2>1. (reader.next + 1) * Block <= archive.bytes /\ reader.status = "opening"
    BY <1>9 DEF AtBlock
  <2>2. reader.next + 1 \in 1 .. L
    BY <1>1, <1>3, <2>1, BlockThere
  <2>3. (reader.next + 1) * Block \in Nat
    BY <1>1, NextBlock, TarConstants
  <2> QED BY <1>3, <1>6, <1>9, <2>1, <2>2, <2>3 DEF Here, HeaderGood, GoodHeader
<1>10. ASSUME AtBlock, Here # Zero, HeaderGood
       PROVE  /\ Here.size \in Nat /\ Here.name \in Names /\ Whole(Here.size) \in Nat /\ Past \in Nat
              /\ Past > reader.next
              /\ "cut" \notin damage => Past <= L - 2
  <2>1. Here.size \in Nat /\ Here.name \in Names
    BY <1>1, <1>10, HereType
  <2>2. PICK w \in Nat : w = Whole(Here.size)
    BY <2>1, WholeType
  <2>3. ASSUME "cut" \notin damage
        PROVE  reader.next + 1 + w <= L - 2
    BY <1>3, <1>5, <1>9, <1>10, <2>2, <2>3 DEF Complete
  <2> QED BY <1>1, <2>1, <2>2, <2>3 DEF Past
<1>11. ASSUME AtBlock, Here # Zero, HeaderGood
       PROVE  DataFrom \in Nat /\ DataFrom = (reader.next + 1) * Block /\ DataFrom \div Block = reader.next + 1
  <2>1. (reader.next + 1) * Block \in Nat
    BY <1>1, NextBlock, TarConstants
  <2>2. PICK p \in Nat : p = reader.next + 1
    BY <1>1
  <2>3. (p * b) \div b = p
    BY <1>4, <2>2
  <2> QED BY <1>4, <2>1, <2>2, <2>3 DEF DataFrom
<1>12. CASE IndexMember
  <2> DEFINE e == [name |-> Here.name, from |-> DataFrom, size |-> Here.size, nameAt |-> reader.tail - NeedTail]
             rest == TarFrom(archive)[Past]
  <2>1. AtBlock /\ Here # Zero /\ HeaderGood /\ SizeFits /\ Here.type = "file"
    BY <1>12 DEF IndexMember
  <2>2. /\ reader.status = "opening" /\ NeedTail \in Nat
        /\ reader'.entries = Append(reader.entries, e)
        /\ DOMAIN reader'.entries = 1 .. Len(reader.entries) + 1
        /\ \A i \in DOMAIN reader.entries : reader'.entries[i] = reader.entries[i]
        /\ reader'.entries[Len(reader.entries) + 1] = e
        /\ reader.head + EntryBytes <= reader.tail - NeedTail /\ DataFrom + Here.size <= archive.bytes
    BY <1>1, <1>12, MemberAdded
  <2>3. reader'.status = "opening" /\ reader'.next = Past
    BY <1>1, <1>12, <2>2 DEF IndexMember, ReaderType
  <2>4. e \in Entries
    <3>1. reader.tail - NeedTail \in Nat
      BY <1>1, <2>2, MicroConstants DEF ReaderType
    <3> QED BY <1>10, <1>11, <2>1, <3>1 DEF Entries
  <2>5. e.from = DataFrom /\ e.name = Here.name /\ e.size = Here.size
    OBVIOUS
  <2> HIDE DEF e
  <2>6. Row(archive, e) = [name |-> Here.name, value |-> Value(archive, reader.next + 1, Here.size)]
    BY <1>11, <2>1, <2>5 DEF Row
  <2>7. TarFrom(archive)[reader.next] =
           IF ~rest.ok THEN Refused
           ELSE [ok |-> TRUE, members |-> <<Row(archive, e)>> \o rest.members]
    <3>1. ~((reader.next + 1) * Block + Here.size > archive.bytes)
      <4>1. (reader.next + 1) * Block + Here.size <= archive.bytes /\ (reader.next + 1) * Block + Here.size \in Nat
        BY <1>10, <1>11, <2>1, <2>2
      <4> QED BY <1>6, <4>1
    <3>2. ~(Here.kind # "header" \/ ~Here.sum) /\ ~(Here.type # "file")
      BY <2>1 DEF HeaderGood
    <3>3. TarFrom(archive)[reader.next] = TarBody(archive, TarFrom(archive), reader.next)
      BY <1>1, TarReads
    <3>4. ~((reader.next + 1) * Block > archive.bytes \/ archive.blocks[reader.next + 1] = Zero)
          /\ Here = archive.blocks[reader.next + 1]
      BY <1>9, <2>1
    <3> QED BY <2>6, <3>1, <3>2, <3>3, <3>4 DEF TarBody, Past
  <2>8. rest \in Tells
    BY <1>1, <1>10, <2>1, TarTypes
  <2>9. rest.ok \in BOOLEAN /\ rest.members \in Seq(Told)
    BY <2>8 DEF Tells
  <2> HIDE DEF rest
  <2>10. TarFrom(archive)[reader.next].ok <=> rest.ok
    BY <2>7, <2>9 DEF Refused
  <2>11. ASSUME rest.ok
         PROVE  TarRead(archive).members = Shown(archive, reader'.entries) \o rest.members
    <3>1. TarFrom(archive)[reader.next].members = <<Row(archive, e)>> \o rest.members
      BY <2>7, <2>11
    <3>2. TarRead(archive).members = Shown(archive, reader.entries) \o (<<Row(archive, e)>> \o rest.members)
      BY <2>2, <2>10, <2>11, <3>1 DEF Walk, Agrees
    <3>3. Shown(archive, reader.entries) \in Seq(Told)
      BY <1>1, ShownType
    <3>4. <<Row(archive, e)>> \in Seq(Told)
      BY <2>4, RowType
    <3>5. Shown(archive, reader.entries) \o (<<Row(archive, e)>> \o rest.members)
            = (Shown(archive, reader.entries) \o <<Row(archive, e)>>) \o rest.members
      <4>1. PICK x \in Seq(Told), y \in Seq(Told), z \in Seq(Told) :
              x = Shown(archive, reader.entries) /\ y = <<Row(archive, e)>> /\ z = rest.members
        BY <2>9, <3>3, <3>4
      <4>2. x \o (y \o z) = (x \o y) \o z
        BY ConcatAssociative
      <4> QED BY <4>1, <4>2
    <3>6. Shown(archive, reader'.entries) = Shown(archive, reader.entries) \o <<Row(archive, e)>>
      BY <1>1, <2>2, <2>4, ShownMore
    <3> QED BY <3>2, <3>5, <3>6
  <2>12. Agrees'
    <3>1. TarRead(archive).ok <=> rest.ok
      BY <2>2, <2>10 DEF Walk, Agrees
    <3> QED BY <1>2, <2>3, <2>11, <3>1 DEF Agrees, rest
  <2>13. Placed'
    <3>1. PICK n \in Nat : n = Len(reader.entries) /\ DOMAIN reader.entries = 1 .. n
      BY <1>1, LenProperties
    <3>2. /\ \A i \in 1 .. n : reader'.entries[i] = reader.entries[i]
          /\ reader'.entries[n + 1] = e /\ DOMAIN reader'.entries = 1 .. n + 1
      BY <2>2, <3>1
    <3>3. FileAt(archive, reader.next + 1)
      BY <1>9, <2>1 DEF FileAt
    <3>4. PICK k \in Nat, past \in Nat : k = reader.next /\ past = Past /\ past > k
      BY <1>1, <1>10, <2>1
    <3>5. \A i \in 1 .. n : \E p \in 1 .. k :
            /\ reader.entries[i].from = p * b /\ FileAt(archive, p)
            /\ archive.blocks[p].name = reader.entries[i].name
      BY <1>4, <2>2, <3>1, <3>4 DEF Walk, Placed
    <3>6. e.from = (k + 1) * b /\ archive.blocks[k + 1].name = e.name
      BY <1>4, <1>9, <1>11, <2>1, <2>5, <3>4
    <3>7. ASSUME NEW i \in 1 .. n
          PROVE  reader.entries[i].from # e.from
      <4>1. PICK p \in 1 .. k : reader.entries[i].from = p * b
        BY <3>5
      <4>2. p * b <= k * b /\ (k + 1) * b = k * b + b /\ p * b \in Nat /\ k * b \in Nat
        BY <1>4, <3>4
      <4> QED BY <1>4, <3>6, <4>1, <4>2
    <3>8. ASSUME NEW i \in 1 .. n + 1
          PROVE  \E p \in 1 .. past :
                   /\ reader'.entries[i].from = p * b /\ FileAt(archive, p)
                   /\ archive.blocks[p].name = reader'.entries[i].name
      <4>1. CASE i = n + 1
        <5>1. k + 1 \in 1 .. past
          BY <3>4
        <5> QED BY <3>2, <3>3, <3>4, <3>6, <4>1, <5>1
      <4>2. CASE i # n + 1
        <5>1. i \in 1 .. n
          BY <4>2
        <5>2. PICK p \in 1 .. k : /\ reader.entries[i].from = p * b /\ FileAt(archive, p)
                                  /\ archive.blocks[p].name = reader.entries[i].name
          BY <3>5, <5>1
        <5>3. p \in 1 .. past
          BY <3>4
        <5> QED BY <3>2, <5>1, <5>2, <5>3
      <4> QED BY <4>1, <4>2
    <3>9. ASSUME NEW i \in 1 .. n + 1, NEW j \in 1 .. n + 1, i # j
          PROVE  reader'.entries[i].from # reader'.entries[j].from
      <4>1. CASE i = n + 1
        <5>1. j \in 1 .. n
          BY <3>9, <4>1
        <5> QED BY <3>2, <3>7, <4>1, <5>1
      <4>2. CASE j = n + 1
        <5>1. i \in 1 .. n
          BY <3>9, <4>2
        <5> QED BY <3>2, <3>7, <4>2, <5>1
      <4>3. CASE i # n + 1 /\ j # n + 1
        <5>1. i \in 1 .. n /\ j \in 1 .. n
          BY <4>3
        <5> QED BY <2>2, <3>1, <3>2, <3>9, <5>1 DEF Walk, Placed
      <4> QED BY <4>1, <4>2, <4>3
    <3>10. Block' = Block /\ archive' = archive /\ reader'.next = past
      BY <1>2, <2>3, <3>4
    <3> QED BY <1>4, <3>2, <3>8, <3>9, <3>10 DEF Placed, FileAt, GoodHeader
  <2>14. InTime'
    BY <1>2, <1>3, <1>10, <2>1, <2>3 DEF InTime
  <2>15. AtEnd' /\ NotParsed'
    BY <2>3 DEF AtEnd, NotParsed
  <2> QED BY <2>12, <2>13, <2>14, <2>15 DEF Walk
<1>13. CASE IndexSkip
  <2>1. AtBlock /\ Here # Zero /\ HeaderGood /\ SizeFits /\ Here.type # "file"
    BY <1>13 DEF IndexSkip
  <2>2. reader.status = "opening" /\ reader'.status = "opening" /\ reader'.next = Past /\ reader'.entries = reader.entries
    BY <1>1, <1>13 DEF IndexSkip, AtBlock, ReaderType
  <2>3. TarFrom(archive)[reader.next] = TarFrom(archive)[Past]
    <3>1. ~(Here.kind # "header" \/ ~Here.sum) /\ Here.type # "file"
      BY <2>1 DEF HeaderGood
    <3>2. TarFrom(archive)[reader.next] = TarBody(archive, TarFrom(archive), reader.next)
      BY <1>1, TarReads
    <3>3. ~((reader.next + 1) * Block > archive.bytes \/ archive.blocks[reader.next + 1] = Zero)
          /\ Here = archive.blocks[reader.next + 1]
      BY <1>9, <2>1
    <3> QED BY <3>1, <3>2, <3>3 DEF TarBody, Past
  <2>4. Agrees'
    BY <1>2, <2>2, <2>3 DEF Walk, Agrees
  <2>5. Placed'
    <3>1. PICK k \in Nat, past \in Nat : k = reader.next /\ past = Past /\ past > k
      BY <1>1, <1>10, <2>1
    <3>2. \A p \in 1 .. k : p \in 1 .. past
      BY <3>1
    <3>3. \A i \in DOMAIN reader.entries : \E p \in 1 .. past :
            /\ reader.entries[i].from = p * Block /\ FileAt(archive, p)
            /\ archive.blocks[p].name = reader.entries[i].name
      BY <2>2, <3>1, <3>2 DEF Walk, Placed
    <3> QED BY <1>2, <2>2, <3>1, <3>3 DEF Walk, Placed, FileAt, GoodHeader
  <2>6. InTime'
    BY <1>2, <1>3, <1>10, <2>1, <2>2 DEF InTime
  <2>7. AtEnd' /\ NotParsed'
    BY <2>2 DEF AtEnd, NotParsed
  <2> QED BY <2>4, <2>5, <2>6, <2>7 DEF Walk
<1>14. CASE IndexFull \/ IndexFails
  BY <1>7, <1>14 DEF IndexFull, IndexFails
<1>15. CASE IndexDone
  <2>1. /\ reader.status = "opening" /\ reader'.status = "open" /\ reader'.next = reader.next
        /\ reader'.entries = reader.entries
    BY <1>1, <1>15 DEF IndexDone, AtBlock, ReaderType
  <2>2. (reader.next + 1) * Block <= archive.bytes /\ archive.blocks[reader.next + 1] = Zero
    BY <1>15 DEF IndexDone, AtBlock, Here
  <2>3. Agrees'
    BY <1>2, <2>1 DEF Walk, Agrees
  <2>4. Placed'
    BY <1>2, <2>1 DEF Walk, Placed, FileAt, GoodHeader
  <2>5. AtEnd'
    BY <1>2, <2>1, <2>2 DEF AtEnd
  <2>6. InTime' /\ NotParsed'
    BY <2>1 DEF InTime, NotParsed
  <2> QED BY <2>3, <2>4, <2>5, <2>6 DEF Walk
<1>16. CASE IndexRefuses
  <2>1. AtBlock /\ Here # Zero /\ ~(HeaderGood /\ SizeFits) /\ Ends("E_PARSE", reader.offered)
    BY <1>16 DEF IndexRefuses
  <2>2. reader.status = "opening"
    BY <2>1 DEF AtBlock
  <2>3. CASE ~HeaderGood
    <3>1. Here.kind # "header" \/ ~Here.sum
      BY <2>3 DEF HeaderGood
    <3>2. TarFrom(archive)[reader.next] = TarBody(archive, TarFrom(archive), reader.next)
      BY <1>1, TarReads
    <3>3. ~((reader.next + 1) * Block > archive.bytes \/ archive.blocks[reader.next + 1] = Zero)
          /\ Here = archive.blocks[reader.next + 1]
      BY <1>9, <2>1
    <3>4. TarFrom(archive)[reader.next] = Refused
      BY <3>1, <3>2, <3>3 DEF TarBody
    <3>5. ~TarRead(archive).ok
      BY <2>2, <3>4 DEF Walk, Agrees, Refused
    <3> QED BY <1>7, <2>1, <3>5
  <2>4. CASE HeaderGood /\ ~SizeFits
    <3>1. ASSUME "cut" \notin damage
          PROVE  FALSE
      <4>1. reader.next + 1 \in Nat /\ GoodHeader(archive, reader.next + 1) /\ Here = archive.blocks[reader.next + 1]
        BY <1>9, <2>1, <2>4
      <4>2. (reader.next + 1) * Block + Here.size <= archive.bytes
        BY <1>1, <1>5, <3>1, <4>1, ClaimsFit
      <4> QED BY <1>6, <1>10, <1>11, <2>1, <2>4, <4>2 DEF SizeFits
    <3> QED BY <1>7, <2>1, <3>1
  <2> QED BY <2>1, <2>3, <2>4
<1>17. CASE IndexRunsOut
  <2>1. reader.status = "opening" /\ (reader.next + 1) * Block > archive.bytes /\ Ends("E_PARSE", reader.offered)
    BY <1>17 DEF IndexRunsOut
  <2>2. ASSUME "cut" \notin damage
        PROVE  FALSE
    <3>1. reader.next <= L - 2 /\ archive.bytes = b * L
      BY <1>3, <1>4, <1>5, <2>1, <2>2 DEF Walk, InTime, Complete
    <3>2. (reader.next + 1) * b <= L * b /\ L * b = b * L /\ b * L \in Nat /\ (reader.next + 1) * b \in Nat
      BY <1>1, <1>4, <3>1
    <3> QED BY <1>4, <2>1, <3>1, <3>2
  <2> QED BY <1>7, <2>1, <2>2
<1>18. CASE \/ \E n \in Indexed : CursorOpen(n)
            \/ CursorNext \/ CursorFill \/ CursorDone
            \/ \E n \in Indexed, off, len \in Spans : ReadAt(n, off, len)
            \/ UNCHANGED microVars
  <2>1. reader' = reader
    BY <1>18 DEF CursorOpen, CursorNext, CursorFill, CursorDone, ReadAt, microVars
  <2> QED BY <1>2, <2>1 DEF Walk, Agrees, Placed, AtEnd, InTime, NotParsed, FileAt, GoodHeader
<1>19. CASE Close
  BY <1>19 DEF Close, Closed, Walk, Agrees, Placed, AtEnd, InTime, NotParsed
<1> QED BY <1>8, <1>12, <1>13, <1>14, <1>15, <1>16, <1>17, <1>18, <1>19 DEF Step, MicroNext

LEMMA WalkBecomes ==
  ASSUME NEW a, NEW kind, Becomes(a, kind)
  PROVE  Walk'
<1>1. reader'.status = "closed"
  BY DEF Becomes, Closed
<1> QED BY <1>1 DEF Walk, Agrees, Placed, AtEnd, InTime, NotParsed

ReadersInv == Sound /\ Uncut /\ NamesKept /\ Walk

LEMMA WalkInit == Init => Walk
BY DEF Init, MicroInit, Closed, Walk, Agrees, Placed, AtEnd, InTime, NotParsed

LEMMA ReadersInvariant == Spec => []ReadersInv
<1>1. Init => ReadersInv
  BY SoundInit, WalkInit DEF ReadersInv
<1>2. ReadersInv /\ [Next]_vars => ReadersInv'
  <2> SUFFICES ASSUME ReadersInv, [Next]_vars
               PROVE  ReadersInv'
    OBVIOUS
  <2>1. Sound' /\ Uncut' /\ NamesKept'
    BY SoundStep, NamesStep DEF ReadersInv
  <2>2. ASSUME Step, packed' = packed, damage' = damage
        PROVE  Walk'
    BY <2>2, WalkStep DEF ReadersInv
  <2>3. ASSUME UNCHANGED vars
        PROVE  Walk'
    BY <2>2, <2>3 DEF vars, Step, microVars
  <2>4. ASSUME Next
        PROVE  Walk'
    BY <2>2, <2>4, Changes, WalkBecomes
  <2> QED BY <2>1, <2>3, <2>4 DEF ReadersInv
<1> QED BY <1>1, <1>2, PTL DEF Spec

\* Only as much happens to an archive as the bound allows.
DamageBound == IsFiniteSet(damage) /\ Cardinality(damage) <= MaxDamage

LEMMA DamageStep == DamageBound /\ [Next]_vars => DamageBound'
<1> SUFFICES ASSUME DamageBound, [Next]_vars
             PROVE  DamageBound'
  OBVIOUS
<1>1. ASSUME NEW a, NEW kind, Becomes(a, kind)
      PROVE  DamageBound'
  <2>1. damage' = damage \union {kind} /\ kind \notin damage /\ Cardinality(damage) < MaxDamage
    BY <1>1 DEF Becomes
  <2>2. IsFiniteSet(damage') /\ Cardinality(damage') = Cardinality(damage) + 1
    BY <2>1, FS_AddElement DEF DamageBound
  <2>3. Cardinality(damage) \in Nat /\ MaxDamage \in Nat
    BY FS_CardinalityType, ReadersConstants DEF DamageBound
  <2> QED BY <2>1, <2>2, <2>3 DEF DamageBound
<1>2. ASSUME damage' = damage
      PROVE  DamageBound'
  BY <1>2 DEF DamageBound
<1>3. CASE UNCHANGED vars
  BY <1>2, <1>3 DEF vars
<1>4. CASE Next
  BY <1>1, <1>2, <1>4, Changes
<1> QED BY <1>3, <1>4

\* The archive stays an archive and its readers well-formed, whatever happens to it between them.
THEOREM ReadersTypes == Spec => []TypeOK
<1>1. Init => DamageBound
  <2>1. IsFiniteSet({}) /\ Cardinality({}) = 0 /\ MaxDamage \in Nat
    BY FS_EmptySet, ReadersConstants
  <2> QED BY <2>1 DEF Init, DamageBound
<1>2. Spec => []DamageBound
  BY <1>1, DamageStep, PTL DEF Spec
<1>3. ReadersInv /\ DamageBound => TypeOK
  BY DEF ReadersInv, Sound, Sources, MicroInv, DamageBound, TypeOK
<1> QED BY <1>2, <1>3, ReadersInvariant, PTL

\* What holds of one opening of one archive holds while archives are cut, added to, wrapped and go
\* bad between openings: the arena's halves do not touch, an arena of the published size is never too
\* small, and no request leaves the source or its member (index.c).
THEOREM ReaderAlwaysSafe == Spec => [](ArenaLayout /\ ArenaSuffices /\ ReadsInside)
<1>1. ReadersInv => ArenaLayout /\ ArenaSuffices /\ ReadsInside
  BY InvReads DEF ReadersInv, Sound, MicroInv
<1> QED BY <1>1, ReadersInvariant, PTL

\* What tar_read finds when the C reader has just been opened.
LEMMA OpenReads ==
  ASSUME ReadersInv, JustOpen
  PROVE  /\ TarRead(archive).ok = TRUE
         /\ TarRead(archive).members = Shown(archive, reader.entries)
         /\ TarRead(archive).members \in Seq(Told)
<1>1. /\ archive \in Archives /\ reader.entries \in Seq(Entries) /\ reader.next \in Nat /\ reader.status = "open"
  <2>1. MicroTypeOK
    BY DEF ReadersInv, Sound, MicroInv
  <2> QED BY <2>1, TypeParts DEF ReaderType, JustOpen
<1>2. TarFrom(archive)[reader.next] = [ok |-> TRUE, members |-> << >>]
  <2>1. archive.blocks[reader.next + 1] = Zero
    BY <1>1 DEF ReadersInv, Walk, AtEnd
  <2> QED BY <1>1, <2>1, TarReads DEF TarBody
<1>3. TarFrom(archive)[reader.next].ok /\ TarFrom(archive)[reader.next].members = << >>
  BY <1>2
<1>4. /\ TarRead(archive).ok
      /\ TarRead(archive).members = Shown(archive, reader.entries) \o TarFrom(archive)[reader.next].members
  BY <1>1, <1>3 DEF ReadersInv, Walk, Agrees
<1>5. Shown(archive, reader.entries) \in Seq(Told)
  BY <1>1, ShownType
<1>6. Shown(archive, reader.entries) \o << >> = Shown(archive, reader.entries)
  BY <1>5, ConcatEmptySeq
<1>7. TarRead(archive).ok \in BOOLEAN
  BY <1>1, TarTypes DEF TarRead, Tells
<1>8. TarRead(archive).members = Shown(archive, reader.entries)
  BY <1>3, <1>4, <1>6
<1> QED BY <1>4, <1>5, <1>7, <1>8

\* Where the first and the last of a name are two, a program has added one.
LEMMA TwiceAdded ==
  ASSUME ReadersInv, JustOpen, NEW n \in NamesIn(TarRead(archive).members),
         LastOf(TarRead(archive).members)[n] # FirstOf(TarRead(archive).members)[n]
  PROVE  "added" \in damage /\ n \in DOMAIN packed
<1> DEFINE ms == TarRead(archive).members
<1>1. ms \in Seq(Told) /\ ms = Shown(archive, reader.entries)
  BY OpenReads
<1> HIDE DEF ms
<1>2. reader.entries \in Seq(Entries) /\ reader.status = "open"
  <2>1. MicroTypeOK
    BY DEF ReadersInv, Sound, MicroInv
  <2> QED BY <2>1, TypeParts DEF ReaderType, JustOpen
<1>3. DOMAIN ms = DOMAIN reader.entries /\ \A i \in DOMAIN ms : ms[i] = Row(archive, reader.entries[i])
  BY <1>1 DEF Shown
<1>4. PICK i \in DOMAIN ms : ms[i].name = n /\ FirstOf(ms)[n] = ms[i].value
  BY <1>1, FirstIs DEF ms
<1>5. PICK j \in DOMAIN ms : ms[j].name = n /\ LastOf(ms)[n] = ms[j].value
  BY <1>1, LastIs DEF ms
<1>6. i # j
  BY <1>4, <1>5 DEF ms
<1>7. reader.entries[i].name = n /\ reader.entries[j].name = n
  <2>1. \A k \in DOMAIN ms : ms[k].name = reader.entries[k].name
    <3> TAKE k \in DOMAIN ms
    <3>1. ms[k] = Row(archive, reader.entries[k])
      BY <1>3
    <3>2. Row(archive, reader.entries[k]).name = reader.entries[k].name
      BY DEF Row
    <3> QED BY <3>1, <3>2
  <2> QED BY <1>4, <1>5, <2>1
<1>8. /\ \A k \in DOMAIN reader.entries : \E p \in 1 .. reader.next :
           /\ reader.entries[k].from = p * Block /\ FileAt(archive, p)
           /\ archive.blocks[p].name = reader.entries[k].name
      /\ reader.entries[i].from # reader.entries[j].from
  BY <1>2, <1>3, <1>6 DEF ReadersInv, Walk, Placed
<1>9. PICK p : /\ reader.entries[i].from = p * Block /\ FileAt(archive, p)
               /\ archive.blocks[p].name = n
  BY <1>3, <1>7, <1>8
<1>10. PICK q : /\ reader.entries[j].from = q * Block /\ FileAt(archive, q)
                /\ archive.blocks[q].name = n
  BY <1>3, <1>7, <1>8
<1>11. p # q
  BY <1>8, <1>9, <1>10
<1> QED BY <1>9, <1>10, <1>11 DEF ReadersInv, NamesKept

\* One archive, one document: for every document, every archive that becomes of it, every size of a
\* block and any arena, what the C reader opens the other two open with the same members, but for
\* unsafe paths and members that are there twice; and what it alone refuses to parse was cut (ustar.c,
\* index.c, tar.cpp, tar.ts).
THEOREM MembersAlwaysSame == Spec => []SameMembers
<1>1. ReadersInv => SameMembers
  <2> SUFFICES ASSUME ReadersInv
               PROVE  SameMembers
    OBVIOUS
  <2> DEFINE r == TarRead(archive)
             ms == r.members
  <2>1. archive \in Archives
    BY DEF ReadersInv, Sound, MicroInv, MicroTypeOK
  <2>2. DOMAIN FirstOf(ms) = NamesIn(ms) /\ DOMAIN LastOf(ms) = NamesIn(ms)
    BY DEF FirstOf, LastOf
  <2>3. ASSUME JustOpen
        PROVE  LET cpp == CppOpen(archive)  unpacked == CppUnpack(archive)  ts == TsOpen(archive)
               IN  /\ cpp.ok /\ cpp.members = MicroMembers
                   /\ unpacked.ok <=> DOMAIN cpp.members \intersect Escaping = {}
                   /\ ts.ok <=> DOMAIN cpp.members \intersect (Escaping \union Foreign) = {}
                   /\ ts.ok => ts.members = unpacked.members
                   /\ unpacked.ok =>
                        /\ DOMAIN unpacked.members = DOMAIN cpp.members
                        /\ \A n \in DOMAIN cpp.members : unpacked.members[n] # cpp.members[n] =>
                             "added" \in damage /\ n \in DOMAIN packed
    <3>1. r.ok = TRUE /\ ms = Shown(archive, reader.entries)
      BY <2>3, OpenReads
    <3>2. MicroMembers = FirstOf(ms)
      BY <3>1 DEF MicroMembers, Shown, Row
    <3>3. CppOpen(archive) = [ok |-> TRUE, members |-> FirstOf(ms)]
      BY <3>1 DEF CppOpen, Opened
    <3>4. CppUnpack(archive) = IF NamesIn(ms) \intersect Escaping # {} THEN Refused
                               ELSE [ok |-> TRUE, members |-> LastOf(ms)]
      BY <3>1 DEF CppUnpack, Opened
    <3>5. TsOpen(archive) = IF NamesIn(ms) \intersect (Escaping \union Foreign) # {} THEN Refused
                            ELSE [ok |-> TRUE, members |-> LastOf(ms)]
      BY <3>1 DEF TsOpen, Opened
    <3>6. \A n \in NamesIn(ms) : LastOf(ms)[n] # FirstOf(ms)[n] => "added" \in damage /\ n \in DOMAIN packed
      BY <2>3, TwiceAdded
    <3> HIDE DEF r, ms
    <3>7. CASE NamesIn(ms) \intersect Escaping # {}
      <4>1. CppUnpack(archive) = Refused /\ TsOpen(archive) = Refused
        BY <3>4, <3>5, <3>7
      <4> QED BY <2>2, <3>2, <3>3, <3>7, <4>1 DEF Refused
    <3>8. CASE NamesIn(ms) \intersect Escaping = {}
      <4>1. CppUnpack(archive) = [ok |-> TRUE, members |-> LastOf(ms)]
        BY <3>4, <3>8
      <4>2. CASE NamesIn(ms) \intersect (Escaping \union Foreign) # {}
        <5>1. TsOpen(archive) = Refused
          BY <3>5, <4>2
        <5> QED BY <2>2, <3>2, <3>3, <3>6, <3>8, <4>1, <4>2, <5>1 DEF Refused
      <4>3. CASE NamesIn(ms) \intersect (Escaping \union Foreign) = {}
        <5>1. TsOpen(archive) = [ok |-> TRUE, members |-> LastOf(ms)]
          BY <3>5, <4>3
        <5> QED BY <2>2, <3>2, <3>3, <3>6, <3>8, <4>1, <4>3, <5>1
      <4> QED BY <4>2, <4>3
    <3> QED BY <3>7, <3>8
  <2>4. ASSUME reader.status = "E_PARSE", CppOpen(archive).ok
        PROVE  "cut" \in damage
    <3>1. TarRead(archive).ok
      BY <2>4 DEF CppOpen, Opened, Refused
    <3> QED BY <2>4, <3>1 DEF ReadersInv, Walk, NotParsed
  <2> QED BY <2>3, <2>4 DEF SameMembers
<1> QED BY <1>1, ReadersInvariant, PTL

----------------------------------------------------------------------------
(* What a cut leaves to be read. *)

\* A member more, or none.
LEMMA WrittenMore ==
  ASSUME NEW d \in Documents, NEW k \in Nat, k + 1 \in 1 .. Len(PathOrder)
  PROVE  /\ PathOrder[k + 1] \notin DOMAIN d => Written(d)[k + 1] = Written(d)[k]
         /\ PathOrder[k + 1] \in DOMAIN d =>
              IsJoin(Written(d)[k + 1], Written(d)[k], Len(Written(d)[k]), Member(PathOrder[k + 1], d[PathOrder[k + 1]]),
                     1 + Whole(Size[d[PathOrder[k + 1]]]))
<1>1. (k + 1) - 1 = k /\ k \in 0 .. Len(PathOrder)
  BY WrittenSteps
<1>2. Written(d)[k + 1] = More(d, Written(d)[k], k + 1)
  BY <1>1, WrittenSteps
<1>3. PICK b \in Seq(Blocks), l \in Nat : b = Written(d)[k] /\ l = Len(b)
  BY <1>1, WrittenType, LenProperties
<1>4. ASSUME PathOrder[k + 1] \in DOMAIN d
      PROVE  IsJoin(Written(d)[k + 1], b, l, Member(PathOrder[k + 1], d[PathOrder[k + 1]]),
                    1 + Whole(Size[d[PathOrder[k + 1]]]))
  <2>1. PICK n \in Names : n = PathOrder[k + 1] /\ d[n] \in Contents
    BY <1>4, DocumentNames
  <2>2. PICK w \in Nat : w = Whole(Size[d[n]])
    BY <2>1, MemberType
  <2>3. Member(n, d[n]) \in Seq(Blocks) /\ Len(Member(n, d[n])) = 1 + w
    BY <2>1, <2>2, MemberType
  <2>4. IsJoin(b \o Member(n, d[n]), b, l, Member(n, d[n]), 1 + w)
    BY <1>3, <2>2, <2>3, Joined
  <2>5. Written(d)[k + 1] = b \o Member(n, d[n])
    BY <1>2, <1>3, <1>4, <2>1 DEF More
  <2> QED BY <2>1, <2>2, <2>4, <2>5
<1>5. PathOrder[k + 1] \notin DOMAIN d => Written(d)[k + 1] = Written(d)[k]
  BY <1>2 DEF More
<1> QED BY <1>3, <1>4, <1>5

\* b is what u begins with.
Begins(b, u) == Len(b) <= Len(u) /\ \A i \in 1 .. Len(b) : u[i] = b[i]

LEMMA WrittenBegins ==
  ASSUME NEW d \in Documents, NEW k \in 0 .. Len(PathOrder), NEW m \in k .. Len(PathOrder)
  PROVE  Begins(Written(d)[k], Written(d)[m])
<1>1. Len(PathOrder) \in Nat
  BY WrittenSteps
<1>2. PICK b \in Seq(Blocks), l \in Nat : b = Written(d)[k] /\ l = Len(b)
  BY WrittenType, LenProperties
<1> DEFINE P == {q \in Nat : Begins(b, Written(d)[q])}
<1>3. k \in P
  BY <1>1, <1>2 DEF Begins
<1>4. ASSUME NEW q \in k .. Len(PathOrder) - 1, q \in P
      PROVE  q + 1 \in P
  <2>1. q \in Nat /\ q + 1 \in 1 .. Len(PathOrder) /\ q \in 0 .. Len(PathOrder) /\ q + 1 \in Nat
    BY <1>1
  <2>2. PICK u \in Seq(Blocks), n \in Nat : u = Written(d)[q] /\ n = Len(u)
    BY <2>1, WrittenType, LenProperties
  <2>3. l <= n /\ \A i \in 1 .. l : u[i] = b[i]
    BY <1>2, <1>4, <2>2 DEF Begins
  <2>4. CASE PathOrder[q + 1] \notin DOMAIN d
    <3>1. Written(d)[q + 1] = Written(d)[q]
      BY <2>1, <2>4, WrittenMore
    <3> QED BY <1>4, <2>1, <3>1
  <2>5. CASE PathOrder[q + 1] \in DOMAIN d
    <3>1. PICK w \in Nat : w = Whole(Size[d[PathOrder[q + 1]]])
      BY <2>5, DocumentNames, MemberType
    <3>2. IsJoin(Written(d)[q + 1], u, n, Member(PathOrder[q + 1], d[PathOrder[q + 1]]), 1 + w)
      BY <2>1, <2>2, <2>5, <3>1, WrittenMore
    <3>3. Len(Written(d)[q + 1]) = n + (1 + w) /\ \A i \in 1 .. n : Written(d)[q + 1][i] = u[i]
      BY <3>2 DEF IsJoin
    <3>4. l <= n + (1 + w) /\ \A i \in 1 .. l : i \in 1 .. n
      BY <2>3
    <3>5. \A i \in 1 .. l : Written(d)[q + 1][i] = b[i]
      BY <2>3, <3>3, <3>4
    <3>6. Begins(b, Written(d)[q + 1])
      BY <1>2, <3>3, <3>4, <3>5 DEF Begins
    <3> QED BY <2>1, <3>6
  <2> QED BY <2>4, <2>5
<1> HIDE DEF P
<1>5. \A q \in k .. Len(PathOrder) : q \in P
  BY <1>1, <1>3, <1>4, Forwards
<1> QED BY <1>2, <1>5 DEF P

\* There are no zero blocks among the members.
LEMMA WrittenNoZero ==
  ASSUME NEW d \in Documents
  PROVE  \A k \in 0 .. Len(PathOrder) : \A i \in 1 .. Len(Written(d)[k]) : Written(d)[k][i] # Zero
<1> DEFINE P == {k \in Nat : \A i \in 1 .. Len(Written(d)[k]) : Written(d)[k][i] # Zero}
<1>1. Len(PathOrder) \in Nat /\ Written(d)[0] = << >>
  BY WrittenSteps
<1>2. 0 \in P
  <2>1. Len(Written(d)[0]) = 0
    BY <1>1, EmptySeq
  <2> QED BY <2>1
<1>3. ASSUME NEW k \in 0 .. Len(PathOrder) - 1, k \in P
      PROVE  k + 1 \in P
  <2>1. k \in Nat /\ k + 1 \in 1 .. Len(PathOrder) /\ k \in 0 .. Len(PathOrder) /\ k + 1 \in Nat
    BY <1>1
  <2>2. PICK u \in Seq(Blocks), n \in Nat : u = Written(d)[k] /\ n = Len(u)
    BY <2>1, WrittenType, LenProperties
  <2>3. CASE PathOrder[k + 1] \notin DOMAIN d
    <3>1. Written(d)[k + 1] = Written(d)[k]
      BY <2>1, <2>3, WrittenMore
    <3> QED BY <1>3, <2>1, <3>1
  <2>4. CASE PathOrder[k + 1] \in DOMAIN d
    <3>1. PICK p \in Names : p = PathOrder[k + 1] /\ d[p] \in Contents
      BY <2>4, DocumentNames
    <3>2. PICK w \in Nat : w = Whole(Size[d[p]])
      BY <3>1, MemberType
    <3> DEFINE m == Member(p, d[p])
    <3>a. m[1] = Header(p, Size[d[p]], "file")
      BY <3>1, MemberType
    <3>b. \A i \in 1 .. w : m[1 + i] = [kind |-> "data", of |-> d[p], part |-> i]
      BY <3>1, <3>2, MemberType
    <3>3. m[1] = Header(p, Size[d[p]], "file") /\ \A i \in 1 .. w : m[1 + i] = [kind |-> "data", of |-> d[p], part |-> i]
      BY <3>a, <3>b
    <3>4. IsJoin(Written(d)[k + 1], u, n, m, 1 + w)
      BY <2>1, <2>2, <2>4, <3>1, <3>2, WrittenMore
    <3> HIDE DEF m
    <3>5. /\ Len(Written(d)[k + 1]) = n + (1 + w)
          /\ \A i \in 1 .. n : Written(d)[k + 1][i] = u[i]
          /\ \A i \in 1 .. 1 + w : Written(d)[k + 1][n + i] = m[i]
      BY <3>4 DEF IsJoin
    <3>6. ASSUME NEW i \in 1 .. n + (1 + w)
          PROVE  Written(d)[k + 1][i] # Zero
      <4>1. CASE i <= n
        <5>1. i \in 1 .. n
          BY <4>1
        <5> QED BY <1>3, <2>2, <3>5, <5>1
      <4>2. CASE i = n + 1
        <5>a. 1 \in 1 .. 1 + w /\ n + 1 = i
          BY <4>2
        <5>b. Written(d)[k + 1][n + 1] = m[1]
          BY <3>5, <5>a
        <5>1. Written(d)[k + 1][i] = Header(p, Size[d[p]], "file")
          BY <3>3, <5>a, <5>b
        <5> QED BY <5>1 DEF Header, Zero
      <4>3. CASE i > n + 1
        <5>1. i - n - 1 \in 1 .. w /\ 1 + (i - n - 1) \in 1 .. 1 + w /\ n + (1 + (i - n - 1)) = i
          BY <4>3
        <5>2. Written(d)[k + 1][n + (1 + (i - n - 1))] = m[1 + (i - n - 1)]
          BY <3>5, <5>1
        <5>3. m[1 + (i - n - 1)] = [kind |-> "data", of |-> d[p], part |-> i - n - 1]
          BY <3>3, <5>1
        <5>4. Written(d)[k + 1][i] = [kind |-> "data", of |-> d[p], part |-> i - n - 1]
          BY <5>1, <5>2, <5>3
        <5> QED BY <5>4 DEF Zero
      <4> QED BY <4>1, <4>2, <4>3
    <3> QED BY <2>1, <3>5, <3>6
  <2> QED BY <2>3, <2>4
<1> HIDE DEF P
<1>4. \A k \in 0 .. Len(PathOrder) : k \in P
  <2>1. 0 \in 0 .. Len(PathOrder)
    BY <1>1
  <2> QED BY <1>1, <1>2, <1>3, <2>1, Forwards
<1> QED BY <1>4 DEF P

LEMMA WholeSum ==
  ASSUME NEW p \in Nat, NEW size \in Nat
  PROVE  p * Block + size \in Nat /\ Whole(p * Block + size) = p + Whole(size)
<1>1. PICK b \in Nat : b = Block /\ b > 0
  BY TarConstants
<1>2. PICK m \in Nat : m = p * b + size
  <2>1. p * b \in Nat
    BY <1>1
  <2> QED BY <2>1
<1>3. PICK w \in Nat : w = Whole(size) /\ w * b <= size + b - 1 /\ (w + 1) * b > size + b - 1
  BY <1>1, WholeBounds
<1>4. PICK q \in Nat : q = Whole(m) /\ q * b <= m + b - 1 /\ (q + 1) * b > m + b - 1
  BY <1>1, WholeBounds
<1>5. ~(q >= p + w + 1)
  <2> SUFFICES ASSUME q >= p + w + 1
               PROVE  FALSE
    OBVIOUS
  <2>1. q * b >= (p + w + 1) * b
    BY <1>1
  <2>2. (p + w + 1) * b = p * b + (w + 1) * b /\ p * b \in Nat /\ (w + 1) * b \in Nat /\ q * b \in Nat
    BY <1>1
  <2> QED BY <1>1, <1>2, <1>3, <1>4, <2>1, <2>2
<1>6. ~(q + 1 <= p + w)
  <2> SUFFICES ASSUME q + 1 <= p + w
               PROVE  FALSE
    OBVIOUS
  <2>1. (q + 1) * b <= (p + w) * b
    BY <1>1
  <2>2. (p + w) * b = p * b + w * b /\ p * b \in Nat /\ w * b \in Nat /\ (q + 1) * b \in Nat
    BY <1>1
  <2> QED BY <1>1, <1>2, <1>3, <1>4, <2>1, <2>2
<1>7. q = p + w
  BY <1>5, <1>6
<1> QED BY <1>1, <1>2, <1>3, <1>4, <1>7

\* The bytes of a content are no other content's.
LEMMA ValueThere ==
  ASSUME NEW a, NEW p \in Nat, NEW c \in Contents,
         \A i \in 1 .. Whole(Size[c]) : a.blocks[p + i] = [kind |-> "data", of |-> c, part |-> i]
  PROVE  Value(a, p, Size[c]) = c
<1>1. PICK s \in Nat, w \in Nat : s = Size[c] /\ w = Whole(s)
  BY TarConstants, WholeType
<1> DEFINE is(x) == /\ Size[x] = s
                    /\ \A i \in 1 .. Whole(s) : a.blocks[p + i] = [kind |-> "data", of |-> x, part |-> i]
<1>2. is(c)
  BY <1>1
<1>3. ASSUME NEW x \in Contents, is(x)
      PROVE  x = c
  <2>1. CASE w = 0
    <3>1. (w + 1) * Block > s + Block - 1 /\ Block \in Nat /\ (0 + 1) * Block = Block
      BY <1>1, WholeBounds, TarConstants
    <3>2. s = 0
      BY <2>1, <3>1
    <3> QED BY <1>1, <1>3, <3>2, OrderConstants
  <2>2. CASE w # 0
    <3>1. 1 \in 1 .. w
      BY <2>2
    <3>2. a.blocks[p + 1] = [kind |-> "data", of |-> x, part |-> 1]
      BY <1>1, <1>3, <3>1
    <3>3. a.blocks[p + 1] = [kind |-> "data", of |-> c, part |-> 1]
      BY <1>1, <3>1
    <3> QED BY <3>2, <3>3
  <2> QED BY <2>1, <2>2
<1>4. (\E x \in Contents : is(x)) /\ (CHOOSE x \in Contents : is(x)) = c
  <2> HIDE DEF is
  <2> QED BY <1>2, <1>3
<1>5. Value(a, p, s) = IF \E x \in Contents : is(x) THEN CHOOSE x \in Contents : is(x) ELSE Garbage
  BY DEF Value
<1> HIDE DEF is
<1> QED BY <1>1, <1>4, <1>5

\* The beginning of a document, up to the j-th of all paths.
Beginning(d, j) == {PathOrder[i] : i \in 1 .. j} \intersect DOMAIN d

\* r holds the members of d of the paths behind the k-th, up to the j-th.
HoldsIn(m, d, k, j) ==
  /\ \A i \in DOMAIN m : m[i].name \in DOMAIN d /\ m[i].value = d[m[i].name]
  /\ NamesIn(m) = {PathOrder[i] : i \in k + 1 .. j} \intersect DOMAIN d
Holds(r, d, k, j) == HoldsIn(r.members, d, k, j)

\* What tar_read tells from the end of the k-th path's member on, cut or not.
TellsRest(r, d, k, n, reached) ==
  r.ok => \E j \in k .. n : Holds(r, d, k, j) /\ (reached => j = n)

LEMMA HoldsNone ==
  ASSUME NEW r, NEW d, NEW k \in Nat, r.members = << >>
  PROVE  Holds(r, d, k, k)
<1>1. DOMAIN r.members = {}
  OBVIOUS
<1>2. NamesIn(r.members) = {}
  BY <1>1 DEF NamesIn
<1>3. {PathOrder[i] : i \in k + 1 .. k} = {}
  OBVIOUS
<1> QED BY <1>1, <1>2, <1>3 DEF Holds, HoldsIn

LEMMA HoldsMore ==
  ASSUME NEW d, NEW k \in Nat, NEW j \in Nat, k + 1 <= j, NEW m \in Seq(Told), NEW x \in Told,
         PathOrder[k + 1] \in DOMAIN d, x.name = PathOrder[k + 1], x.value = d[PathOrder[k + 1]],
         HoldsIn(m, d, k + 1, j), NEW s, s = <<x>> \o m
  PROVE  HoldsIn(s, d, k, j)
<1>a. /\ \A i \in DOMAIN m : m[i].name \in DOMAIN d /\ m[i].value = d[m[i].name]
      /\ NamesIn(m) = {PathOrder[i] : i \in k + 2 .. j} \intersect DOMAIN d
  <2>1. (k + 1) + 1 = k + 2
    OBVIOUS
  <2> QED BY <2>1 DEF HoldsIn
<1>1. PICK n \in Nat : n = Len(m) /\ DOMAIN m = 1 .. n
  BY LenProperties
<1> DEFINE one == <<x>>
<1>2. one \in Seq(Told) /\ Len(one) = 1 /\ one[1] = x
  OBVIOUS
<1>3. s = one \o m
  OBVIOUS
<1> HIDE DEF one
<1>4. s \in Seq(Told)
  BY <1>2, <1>3, ConcatProperties
<1>5. Len(s) = 1 + n
  BY <1>1, <1>2, <1>3, ConcatProperties
<1>6. \A i \in 1 .. 1 + n : s[i] = IF i <= 1 THEN one[i] ELSE m[i - 1]
  BY <1>1, <1>2, <1>3, ConcatProperties
<1>7. DOMAIN s = 1 .. 1 + n
  BY <1>4, <1>5, LenProperties
<1>8. s[1] = x
  BY <1>1, <1>2, <1>6
<1>9. \A i \in 1 .. n : s[1 + i] = m[i]
  <2> TAKE i \in 1 .. n
  <2>1. 1 + i \in 1 .. 1 + n /\ ~(1 + i <= 1) /\ (1 + i) - 1 = i
    OBVIOUS
  <2> QED BY <1>6, <2>1
<1>10. \A i \in 1 .. 1 + n : i = 1 \/ (i - 1 \in 1 .. n /\ 1 + (i - 1) = i)
  BY <1>1
<1>11. \A i \in DOMAIN s : s[i].name \in DOMAIN d /\ s[i].value = d[s[i].name]
  BY <1>a, <1>1, <1>7, <1>8, <1>9, <1>10
<1>12. NamesIn(s) = {x.name} \union NamesIn(m)
  <2>1. ASSUME NEW y \in NamesIn(s)
        PROVE  y \in {x.name} \union NamesIn(m)
    <3>1. PICK i \in 1 .. 1 + n : y = s[i].name
      BY <1>7 DEF NamesIn
    <3> QED BY <1>1, <1>8, <1>9, <1>10, <3>1 DEF NamesIn
  <2>2. x.name \in NamesIn(s)
    <3>1. 1 \in DOMAIN s
      BY <1>1, <1>7
    <3> QED BY <1>8, <3>1 DEF NamesIn
  <2>3. ASSUME NEW y \in NamesIn(m)
        PROVE  y \in NamesIn(s)
    <3>1. PICK i \in 1 .. n : y = m[i].name
      BY <1>1 DEF NamesIn
    <3>2. 1 + i \in DOMAIN s
      BY <1>1, <1>7
    <3> QED BY <1>9, <3>1, <3>2 DEF NamesIn
  <2> QED BY <2>1, <2>2, <2>3
<1>13. {x.name} \union ({PathOrder[i] : i \in k + 2 .. j} \intersect DOMAIN d)
          = {PathOrder[i] : i \in k + 1 .. j} \intersect DOMAIN d
  <2>1. k + 1 \in k + 1 .. j /\ \A i \in k + 1 .. j : i = k + 1 \/ i \in k + 2 .. j
    OBVIOUS
  <2>2. \A i \in k + 2 .. j : i \in k + 1 .. j
    OBVIOUS
  <2> QED BY <2>1, <2>2
<1> QED BY <1>a, <1>11, <1>12, <1>13 DEF HoldsIn

\* What tar_read makes of a packed document that was cut: a beginning of it, or nothing.
LEMMA CutTells ==
  ASSUME NEW d \in Documents, NEW t \in Archives, Whole(t.bytes) <= Len(Pack(d).blocks),
         \A i \in DOMAIN t.blocks : t.blocks[i] = Pack(d).blocks[i], TarFrom(t)[0].ok
  PROVE  \E j \in 0 .. Len(PathOrder) :
           /\ Holds(TarFrom(t)[0], d, 0, j)
           /\ (\E p \in Nat : (p + 1) * Block <= t.bytes /\ t.blocks[p + 1] = Zero) => j = Len(PathOrder)
<1>1. PICK N \in Nat : N = Len(PathOrder)
  BY WrittenSteps
<1>2. PICK full \in Seq(Blocks), top \in Nat :
        /\ full = Written(d)[N] /\ top = Len(full)
        /\ Pack(d).blocks \in Seq(Blocks) /\ Len(Pack(d).blocks) = top + 2
        /\ \A i \in 1 .. top : Pack(d).blocks[i] = full[i]
        /\ Pack(d).blocks[top + 1] = Zero /\ Pack(d).blocks[top + 2] = Zero
  <2>1. PICK full \in Seq(Blocks) :
        /\ full = Written(d)[N]
        /\ Pack(d).blocks \in Seq(Blocks) /\ Len(Pack(d).blocks) = Len(full) + 2
        /\ \A i \in 1 .. Len(full) : Pack(d).blocks[i] = full[i]
        /\ Pack(d).blocks[Len(full) + 1] = Zero /\ Pack(d).blocks[Len(full) + 2] = Zero
    BY <1>1, PackedBlocks
  <2>2. PICK top \in Nat : top = Len(full)
    BY LenProperties
  <2> QED BY <2>1, <2>2
<1>3. PICK b \in Nat : b = Block /\ b > 0
  BY TarConstants
<1>4. t.bytes \in Nat /\ Len(t.blocks) = Whole(t.bytes) /\ DOMAIN t.blocks = 1 .. Whole(t.bytes) /\ Whole(t.bytes) \in Nat
  BY BlocksOf DEF Archives
<1> DEFINE Reached == top * b < t.bytes
           Off(k) == Len(Written(d)[k])
           P == {k \in Nat : k <= N /\ TellsRest(TarFrom(t)[Off(k)], d, k, N, Reached)}
<1>5. Off(N) = top /\ Off(0) = 0
  BY <1>2, WrittenSteps, EmptySeq
<1>6. N \in P
  <2>1. TarFrom(t)[top] = [ok |-> TRUE, members |-> << >>]
    <3>1. CASE (top + 1) * Block > t.bytes
      BY <3>1, TarReads DEF TarBody
    <3>2. CASE ~((top + 1) * Block > t.bytes)
      <4>1. (top + 1) * Block \in Nat /\ (top + 1) * Block <= t.bytes
        <5>1. (top + 1) * Block \in Nat
          BY <1>3
        <5> QED BY <1>4, <3>2, <5>1
      <4>2. top + 1 \in DOMAIN t.blocks
        BY <1>2, <1>4, <4>1, BlockThere
      <4>3. t.blocks[top + 1] = Zero
        BY <1>2, <4>2
      <4> QED BY <4>3, TarReads DEF TarBody
    <3> QED BY <3>1, <3>2
  <2>2. Holds(TarFrom(t)[top], d, N, N)
    <3>1. TarFrom(t)[top].members = << >>
      BY <2>1
    <3> QED BY <3>1, HoldsNone
  <2>3. N \in N .. N
    BY <1>1
  <2> HIDE DEF Reached, Off
  <2>4. TellsRest(TarFrom(t)[Off(N)], d, N, N, Reached)
    BY <1>5, <2>2, <2>3 DEF TellsRest
  <2> QED BY <1>1, <2>4
<1>7. ASSUME NEW k \in Nat, k + 1 \in P
      PROVE  k \in P
  <2>1. /\ k + 1 \in 1 .. Len(PathOrder) /\ k \in 0 .. Len(PathOrder) /\ k <= N /\ k + 1 \in 0 .. Len(PathOrder)
        /\ N \in k + 1 .. Len(PathOrder)
    BY <1>1, <1>7
  <2>2. TarFrom(t)[Off(k + 1)].ok =>
          \E j \in k + 1 .. N : Holds(TarFrom(t)[Off(k + 1)], d, k + 1, j) /\ (Reached => j = N)
    <3> HIDE DEF Reached, Off
    <3> QED BY <1>7 DEF TellsRest
  <2>3. CASE PathOrder[k + 1] \notin DOMAIN d
    <3>1. Off(k + 1) = Off(k)
      BY <2>1, <2>3, WrittenMore
    <3> HIDE DEF Off, Reached
    <3>q. TellsRest(TarFrom(t)[Off(k)], d, k, N, Reached) => k \in P
      BY <2>1
    <3> HIDE DEF P
    <3> SUFFICES ASSUME TarFrom(t)[Off(k)].ok
                 PROVE  \E j \in k .. N : Holds(TarFrom(t)[Off(k)], d, k, j) /\ (Reached => j = N)
      BY <3>q DEF TellsRest
    <3>2. PICK j \in k + 1 .. N : Holds(TarFrom(t)[Off(k)], d, k + 1, j) /\ (Reached => j = N)
      BY <2>2, <3>1
    <3>3. {PathOrder[i] : i \in (k + 1) + 1 .. j} \intersect DOMAIN d = {PathOrder[i] : i \in k + 1 .. j} \intersect DOMAIN d
      <4>1. /\ \A i \in k + 1 .. j : i = k + 1 \/ i \in (k + 1) + 1 .. j
            /\ \A i \in (k + 1) + 1 .. j : i \in k + 1 .. j
        BY <1>1
      <4> QED BY <2>3, <4>1
    <3>4. Holds(TarFrom(t)[Off(k)], d, k, j)
      BY <3>2, <3>3 DEF Holds, HoldsIn
    <3>5. j \in k .. N
      BY <1>1
    <3> QED BY <3>2, <3>4, <3>5
  <2>4. CASE PathOrder[k + 1] \in DOMAIN d
    <3>1. PICK n \in Names, c \in Contents : n = PathOrder[k + 1] /\ c = d[n]
      BY <2>4, DocumentNames
    <3>2. PICK size \in Nat, w \in Nat : size = Size[c] /\ w = Whole(size)
      BY MemberType
    <3>3. PICK u \in Seq(Blocks), p \in Nat : u = Written(d)[k] /\ p = Len(u)
      BY <2>1, WrittenType, LenProperties
    <3> DEFINE m == Member(n, c)
    <3>4. m[1] = Header(n, size, "file")
      BY <3>2, MemberType
    <3>5. \A i \in 1 .. w : m[1 + i] = [kind |-> "data", of |-> c, part |-> i]
      BY <3>2, MemberType
    <3>6. IsJoin(Written(d)[k + 1], u, p, m, 1 + w)
      BY <2>1, <2>4, <3>1, <3>2, <3>3, WrittenMore
    <3> HIDE DEF m
    <3>7. Len(Written(d)[k + 1]) = p + (1 + w) /\ \A i \in 1 .. 1 + w : Written(d)[k + 1][p + i] = m[i]
      BY <3>6 DEF IsJoin
    <3>8. Begins(Written(d)[k + 1], full)
      BY <1>1, <1>2, <2>1, WrittenBegins
    <3>9. p + (1 + w) <= top /\ \A i \in 1 .. 1 + w : Pack(d).blocks[p + i] = m[i]
      <4>1. p + (1 + w) <= top /\ \A i \in 1 .. p + (1 + w) : full[i] = Written(d)[k + 1][i]
        BY <1>2, <3>7, <3>8 DEF Begins
      <4>2. ASSUME NEW i \in 1 .. 1 + w
            PROVE  Pack(d).blocks[p + i] = m[i]
        <5>1. p + i \in 1 .. p + (1 + w) /\ p + i \in 1 .. top
          BY <4>1
        <5> QED BY <1>2, <3>7, <4>1, <5>1
      <4> QED BY <4>1, <4>2
    <3>10. Off(k) = p /\ Off(k + 1) = p + 1 + w
      <4>1. p + 1 + w = p + (1 + w)
        OBVIOUS
      <4>2. Off(k) = p
        BY <3>3
      <4>3. Off(k + 1) = p + (1 + w)
        BY <3>7
      <4> QED BY <4>1, <4>2, <4>3
    <3>14. Reached <=> top * b < t.bytes
      OBVIOUS
    <3> HIDE DEF Off, Reached
    <3>q. TellsRest(TarFrom(t)[p], d, k, N, Reached) => k \in P
      BY <2>1, <3>10
    <3> HIDE DEF P
    <3> SUFFICES ASSUME TarFrom(t)[p].ok
                 PROVE  \E j \in k .. N : Holds(TarFrom(t)[p], d, k, j) /\ (Reached => j = N)
      BY <3>q DEF TellsRest
    <3>11. (p + 1) * Block \in Nat
      BY <1>3
    <3>12. CASE (p + 1) * Block > t.bytes
      <4>1. TarFrom(t)[p] = [ok |-> TRUE, members |-> << >>]
        BY <3>12, TarReads DEF TarBody
      <4>2. Holds(TarFrom(t)[p], d, k, k)
        <5>1. TarFrom(t)[p].members = << >>
          BY <4>1
        <5> QED BY <5>1, HoldsNone
      <4>3. ~Reached
        <5>1. (p + 1) * b <= top * b /\ top * b \in Nat
          BY <1>3, <3>9
        <5> QED BY <1>3, <1>4, <3>11, <3>12, <3>14, <5>1
      <4>4. k \in k .. N
        BY <1>1, <2>1
      <4> QED BY <4>2, <4>3, <4>4
    <3>13. CASE ~((p + 1) * Block > t.bytes)
      <4>1. (p + 1) * Block <= t.bytes
        BY <1>4, <3>11, <3>13
      <4>2. p + 1 \in DOMAIN t.blocks
        BY <1>4, <4>1, BlockThere
      <4>3. t.blocks[p + 1] = Header(n, size, "file")
        <5>a. 1 \in 1 .. 1 + w
          OBVIOUS
        <5>b. t.blocks[p + 1] = Pack(d).blocks[p + 1]
          BY <4>2
        <5>1. t.blocks[p + 1] = m[1]
          BY <3>9, <5>a, <5>b
        <5> QED BY <3>4, <5>1
      <4> DEFINE h == t.blocks[p + 1]
                 rest == TarFrom(t)[p + 1 + w]
      <4>4. h.kind = "header" /\ h.sum = TRUE /\ h.type = "file" /\ h.name = n /\ h.size = size /\ h # Zero
        BY <4>3 DEF Header, Zero
      <4>5. TarFrom(t)[p] = TarBody(t, TarFrom(t), p)
        BY TarReads
      <4> HIDE DEF h
      <4>6. TarBody(t, TarFrom(t), p) =
              IF (p + 1) * Block + size > t.bytes \/ ~rest.ok THEN Refused
              ELSE [ok |-> TRUE, members |-> <<[name |-> n, value |-> Value(t, p + 1, size)]>> \o rest.members]
        BY <3>2, <3>13, <4>4 DEF TarBody, h
      <4>7. rest \in Tells
        <5>1. p + 1 + w \in Nat
          OBVIOUS
        <5> QED BY <5>1, TarTypes
      <4> HIDE DEF rest
      <4>8. ~((p + 1) * Block + size > t.bytes \/ ~rest.ok)
        <5>1. ~Refused.ok
          BY DEF Refused
        <5> QED BY <4>5, <4>6, <5>1
      <4>9. (p + 1) * Block + size <= t.bytes /\ rest.ok
        <5>1. (p + 1) * Block + size \in Nat
          BY <3>11
        <5>2. rest.ok \in BOOLEAN
          BY <4>7 DEF Tells
        <5> QED BY <1>4, <4>8, <5>1, <5>2
      <4>10. p + 1 + w <= Whole(t.bytes)
        <5>a. p + 1 \in Nat
          OBVIOUS
        <5>b. (p + 1) * Block + size \in Nat /\ Whole((p + 1) * Block + size) = (p + 1) + Whole(size)
          BY <5>a, WholeSum
        <5>1. Whole((p + 1) * Block + size) = p + 1 + w /\ (p + 1) * Block + size \in Nat
          BY <3>2, <5>b
        <5> QED BY <1>4, <4>9, <5>1, WholeGrows
      <4>11. Value(t, p + 1, size) = c
        <5>1. ASSUME NEW i \in 1 .. w
              PROVE  t.blocks[(p + 1) + i] = [kind |-> "data", of |-> c, part |-> i]
          <6>a. PICK whole \in Nat : whole = Whole(t.bytes) /\ p + 1 + w <= whole
            BY <1>4, <4>10
          <6>b. p + (1 + i) \in 1 .. whole
            BY <6>a
          <6>c. p + (1 + i) = (p + 1) + i /\ 1 + i \in 1 .. 1 + w
            OBVIOUS
          <6>1. p + (1 + i) = (p + 1) + i /\ 1 + i \in 1 .. 1 + w /\ p + (1 + i) \in 1 .. Whole(t.bytes)
            BY <6>a, <6>b, <6>c
          <6>2. t.blocks[p + (1 + i)] = Pack(d).blocks[p + (1 + i)]
            BY <1>4, <6>1
          <6> QED BY <3>5, <3>9, <6>1, <6>2
        <5>2. p + 1 \in Nat
          OBVIOUS
        <5>3. \A i \in 1 .. Whole(Size[c]) : t.blocks[(p + 1) + i] = [kind |-> "data", of |-> c, part |-> i]
          BY <3>2, <5>1
        <5>4. Value(t, p + 1, Size[c]) = c
          BY <5>2, <5>3, ValueThere
        <5> QED BY <3>2, <5>4
      <4> DEFINE x == [name |-> n, value |-> c]
      <4>12. x \in Told /\ x.name = n /\ x.value = c
        BY DEF Told
      <4>13. TarFrom(t)[p] = [ok |-> TRUE, members |-> <<x>> \o rest.members]
        BY <4>5, <4>6, <4>8, <4>11
      <4> HIDE DEF x
      <4>14. PICK j \in k + 1 .. N : Holds(rest, d, k + 1, j) /\ (Reached => j = N)
        BY <2>2, <3>10, <4>9 DEF rest
      <4>15. PICK ms \in Seq(Told) : ms = rest.members
        BY <4>7 DEF Tells
      <4>16. PICK s : s = <<x>> \o ms
        OBVIOUS
      <4>17. HoldsIn(ms, d, k + 1, j)
        BY <4>14, <4>15 DEF Holds
      <4>18. j \in Nat /\ k + 1 <= j /\ j \in k .. N
        BY <1>1
      <4>19. HoldsIn(s, d, k, j)
        BY <2>4, <3>1, <4>12, <4>16, <4>17, <4>18, HoldsMore
      <4>20. TarFrom(t)[p].members = s
        BY <4>13, <4>15, <4>16
      <4>21. Holds(TarFrom(t)[p], d, k, j)
        BY <4>19, <4>20 DEF Holds
      <4> QED BY <4>14, <4>18, <4>21
    <3> QED BY <3>12, <3>13
  <2> QED BY <2>3, <2>4
<1>8. 0 \in P
  <2> HIDE DEF P
  <2> DEFINE Q == {q \in Nat : q <= N => N - q \in P}
  <2>1. 0 \in Q
    BY <1>1, <1>6
  <2>2. ASSUME NEW q \in 0 .. N - 1, q \in Q
        PROVE  q + 1 \in Q
    <3>1. N - (q + 1) \in Nat /\ (N - (q + 1)) + 1 = N - q /\ q <= N /\ q + 1 \in Nat
      BY <1>1
    <3> QED BY <1>7, <2>2, <3>1
  <2> HIDE DEF Q
  <2>3. 0 \in 0 .. N
    BY <1>1
  <2>4. \A q \in 0 .. N : q \in Q
    BY <1>1, <2>1, <2>2, <2>3, Forwards
  <2>5. N \in Q
    BY <1>1, <2>4
  <2>6. N - N = 0
    BY <1>1
  <2> QED BY <1>1, <2>5, <2>6 DEF Q
<1>9. PICK j \in 0 .. N : Holds(TarFrom(t)[0], d, 0, j) /\ (Reached => j = N)
  <2> HIDE DEF Reached, Off
  <2>1. TellsRest(TarFrom(t)[Off(0)], d, 0, N, Reached)
    BY <1>8
  <2> QED BY <1>5, <2>1 DEF TellsRest
<1>10. ASSUME NEW p \in Nat, (p + 1) * Block <= t.bytes, t.blocks[p + 1] = Zero
       PROVE  Reached
  <2>1. p + 1 \in DOMAIN t.blocks
    BY <1>4, <1>10, BlockThere
  <2>2. Pack(d).blocks[p + 1] = Zero
    BY <1>10, <2>1
  <2>3. ~(p + 1 \in 1 .. top)
    <3>1. N \in 0 .. Len(PathOrder)
      BY <1>1
    <3> QED BY <1>2, <2>2, <3>1, WrittenNoZero
  <2>4. p >= top
    BY <1>2, <2>3
  <2>5. (p + 1) * b >= (top + 1) * b /\ (top + 1) * b = top * b + b /\ top * b \in Nat /\ (p + 1) * b \in Nat
    BY <1>3, <2>4
  <2>6. (p + 1) * b <= t.bytes
    BY <1>3, <1>10
  <2>7. top * b < t.bytes
    BY <1>3, <1>4, <2>5, <2>6
  <2> QED BY <2>7
<1> QED BY <1>1, <1>9, <1>10

----------------------------------------------------------------------------
(* A beginning passes for no whole. *)

\* Until anything else happens to it, the archive is what was packed, whole or cut.
CutOnly(a, d) == \E n \in Nat : n < Pack(d).bytes /\ a = Truncated(Pack(d), n)
Sourced ==
  /\ damage = {} => archive = Pack(packed)
  /\ damage = {"cut"} => CutOnly(archive, packed)

LEMMA SourcedStep == Sound /\ Sourced /\ [Next]_vars => Sourced'
<1> SUFFICES ASSUME Sound, Sourced, [Next]_vars
             PROVE  Sourced'
  OBVIOUS
<1>1. archive \in Archives /\ MicroTypeOK
  BY DEF Sound, MicroInv, MicroTypeOK
<1>2. ASSUME Step, packed' = packed, damage' = damage
      PROVE  Sourced'
  <2>1. archive' = archive
    BY <1>1, <1>2, IndexMoves
  <2> QED BY <1>2, <2>1 DEF Sourced
<1>3. ASSUME NEW n \in Nat, n < archive.bytes, Becomes(Truncated(archive, n), "cut")
      PROVE  Sourced'
  <2>1. /\ "cut" \notin damage /\ damage' = damage \union {"cut"} /\ packed' = packed
        /\ archive' = Truncated(archive, n)
    BY <1>3 DEF Becomes
  <2>2. ASSUME damage' = {"cut"}
        PROVE  CutOnly(archive', packed')
    <3>1. damage = {}
      BY <2>1, <2>2
    <3>2. archive = Pack(packed)
      BY <3>1 DEF Sourced
    <3> QED BY <1>3, <2>1, <3>2 DEF CutOnly
  <2>3. damage' # {}
    BY <2>1
  <2> QED BY <2>2, <2>3 DEF Sourced
<1>4. ASSUME NEW a, NEW kind, kind # "cut", Becomes(a, kind)
      PROVE  Sourced'
  <2>1. kind \in damage'
    BY <1>4 DEF Becomes
  <2>2. damage' # {} /\ damage' # {"cut"}
    BY <1>4, <2>1
  <2> QED BY <2>2 DEF Sourced
<1>5. "added" # "cut" /\ "foreword" # "cut" /\ "rotten" # "cut"
  OBVIOUS
<1>6. CASE UNCHANGED vars
  BY <1>2, <1>6 DEF vars, Step, microVars
<1>7. CASE Next
  BY <1>2, <1>3, <1>4, <1>5, <1>7, Changes
<1> QED BY <1>6, <1>7

\* What every reader keeps of a document that was cut: its beginning, as it was.
Begun(g, d, j) == DOMAIN g = Beginning(d, j) /\ \A n \in DOMAIN g : g[n] = d[n]

LEMMA Remains ==
  ASSUME ReadersInv, Sourced, damage = {"cut"}, TarRead(archive).ok
  PROVE  \E j \in 0 .. Len(PathOrder) :
           /\ Begun(FirstOf(TarRead(archive).members), packed, j)
           /\ Begun(LastOf(TarRead(archive).members), packed, j)
           /\ (\E p \in Nat : (p + 1) * Block <= archive.bytes /\ archive.blocks[p + 1] = Zero) => j = Len(PathOrder)
<1>1. packed \in Documents /\ archive \in Archives
  BY DEF ReadersInv, Sound, Sources, MicroInv, MicroTypeOK
<1>2. PICK n \in Nat : n < Pack(packed).bytes /\ archive = Truncated(Pack(packed), n)
  BY DEF Sourced, CutOnly
<1>3. Pack(packed) \in Archives
  BY <1>1, PackType
<1>4. archive.bytes = n
  BY <1>2 DEF Truncated
<1>5. Pack(packed).bytes \in Nat /\ Len(Pack(packed).blocks) = Whole(Pack(packed).bytes)
  BY <1>3 DEF Archives
<1>6. Whole(archive.bytes) <= Len(Pack(packed).blocks)
  BY <1>2, <1>4, <1>5, WholeGrows
<1>7. \A i \in DOMAIN archive.blocks : archive.blocks[i] = Pack(packed).blocks[i]
  <2>1. DOMAIN archive.blocks = 1 .. Len(archive.blocks) /\ Len(archive.blocks) = Whole(n)
    BY <1>1, <1>4, BlocksOf DEF Archives
  <2>2. \A i \in 1 .. Whole(n) : Truncated(Pack(packed), n).blocks[i] = Pack(packed).blocks[i]
    BY <1>2, <1>3, TruncatedType
  <2> QED BY <1>2, <2>1, <2>2
<1>8. PICK j \in 0 .. Len(PathOrder) :
        /\ Holds(TarRead(archive), packed, 0, j)
        /\ (\E p \in Nat : (p + 1) * Block <= archive.bytes /\ archive.blocks[p + 1] = Zero) => j = Len(PathOrder)
  <2>1. TarFrom(archive)[0].ok
    BY DEF TarRead
  <2> QED BY <1>1, <1>6, <1>7, <2>1, CutTells DEF TarRead
<1> DEFINE ms == TarRead(archive).members
<1>9. ms \in Seq(Told)
  BY <1>1, TarTypes DEF TarRead, Tells
<1>10. HoldsIn(ms, packed, 0, j)
  BY <1>8 DEF Holds
<1> HIDE DEF ms
<1>11. NamesIn(ms) = Beginning(packed, j)
  BY <1>10 DEF HoldsIn, Beginning
<1>12. \A i \in DOMAIN ms : ms[i].value = packed[ms[i].name]
  BY <1>10 DEF HoldsIn
<1>13. DOMAIN FirstOf(ms) = NamesIn(ms) /\ DOMAIN LastOf(ms) = NamesIn(ms)
  BY DEF FirstOf, LastOf
<1>14. ASSUME NEW m \in NamesIn(ms)
       PROVE  FirstOf(ms)[m] = packed[m]
  <2>1. PICK i \in DOMAIN ms : ms[i].name = m /\ FirstOf(ms)[m] = ms[i].value
    BY <1>9, FirstIs
  <2> QED BY <1>12, <2>1
<1>15. ASSUME NEW m \in NamesIn(ms)
       PROVE  LastOf(ms)[m] = packed[m]
  <2>1. PICK i \in DOMAIN ms : ms[i].name = m /\ LastOf(ms)[m] = ms[i].value
    BY <1>9, LastIs
  <2> QED BY <1>12, <2>1
<1>16. Begun(FirstOf(ms), packed, j)
  BY <1>11, <1>13, <1>14 DEF Begun
<1>17. Begun(LastOf(ms), packed, j)
  BY <1>11, <1>13, <1>15 DEF Begun
<1> QED BY <1>8, <1>16, <1>17 DEF ms

\* A manifest that verifies: all it lists is there, and what it does not list is excluded.
LEMMA CppVouches ==
  ASSUME NEW c, CppIntegrity(c) = {}
  PROVE  /\ Has(c, "manifest.json")
         /\ \A n \in DOMAIN c["manifest.json"].files : n \in DOMAIN c
         /\ \A n \in DOMAIN c : n \in DOMAIN c["manifest.json"].files \/ n \in Excluded
<1>1. Has(c, "manifest.json")
  BY DEF CppIntegrity
<1>2. c["manifest.json"].algorithm = "sha256"
  BY <1>1 DEF CppIntegrity
<1> DEFINE files == c["manifest.json"].files
<1>3. /\ {<<"E_MANIFEST_MISSING_FILE", n>> : n \in DOMAIN files \ DOMAIN c} = {}
      /\ {<<"E_MANIFEST_EXTRA_FILE", n>> : n \in (DOMAIN c \ DOMAIN files) \ Excluded} = {}
  BY <1>1, <1>2 DEF CppIntegrity
<1> HIDE DEF files
<1>4. \A n \in DOMAIN files : n \in DOMAIN c
  BY <1>3
<1>5. \A n \in DOMAIN c : n \in DOMAIN files \/ n \in Excluded
  BY <1>3
<1> QED BY <1>1, <1>4, <1>5 DEF files

LEMMA TsVouches ==
  ASSUME NEW c, TsIntegrity(c) = {}
  PROVE  /\ Has(c, "manifest.json")
         /\ \A n \in DOMAIN c["manifest.json"].files : n \in DOMAIN c
<1>1. Has(c, "manifest.json")
  BY DEF TsIntegrity
<1>2. c["manifest.json"].algorithm = "sha256"
  BY <1>1 DEF TsIntegrity
<1> DEFINE files == c["manifest.json"].files
           verdict(n) == IF ~Has(c, n) THEN "E_MANIFEST_MISSING_FILE" ELSE "E_MANIFEST_HASH_MISMATCH"
           bad == {m \in DOMAIN files : ~(Has(c, m) /\ c[m] = files[m])}
<1>3. {<<verdict(n), n>> : n \in bad} = {}
  BY <1>1, <1>2 DEF TsIntegrity
<1>4. bad = {}
  <2> HIDE DEF verdict, bad
  <2> QED BY <1>3
<1>5. \A n \in DOMAIN files : Has(c, n)
  BY <1>4
<1> QED BY <1>1, <1>5 DEF Has

\* What is signed and verifies has a signature.
LEMMA CppSigns ==
  ASSUME NEW c, CppSigned(c) = {}
  PROVE  DOMAIN c \intersect Signatures # {}
BY DEF CppSigned

LEMMA TsSigns ==
  ASSUME NEW c, TsSigned(c) = {}, Has(c, "manifest.json")
  PROVE  DOMAIN c \intersect Signatures # {}
<1>1. {f \in Signatures : Has(c, f)} # {}
  BY DEF TsSigned
<1> QED BY <1>1 DEF Has

LEMMA SignedProfile == AtLeast("signed", "integrity") /\ AtLeast("signed", "signed")
<1>1. DOMAIN Levels = 1 .. 5 /\ Levels[2] = "integrity" /\ Levels[3] = "signed"
  BY DEF Levels
<1>2. 2 \in DOMAIN Levels /\ 3 \in DOMAIN Levels
  BY <1>1
<1> QED BY <1>1, <1>2 DEF AtLeast

\* The Signed profile evaluates the manifest and the signatures.
LEMMA NoIssues ==
  ASSUME NEW c
  PROVE  /\ CppValidate(c, "signed") = {} => CppIntegrity(c) = {} /\ CppSigned(c) = {}
         /\ TsValidate(c, "signed") = {} => TsIntegrity(c) = {} /\ TsSigned(c) = {}
<1>1. \A x : x \in CppIntegrity(c) \/ x \in CppSigned(c) => x \in CppValidate(c, "signed")
  BY LevelsAre, SignedProfile
<1>2. \A x : x \in TsIntegrity(c) \/ x \in TsSigned(c) => x \in TsValidate(c, "signed")
  BY LevelsAre, SignedProfile
<1> QED BY <1>1, <1>2

\* Of a beginning that has its manifest, and all that this lists, only signatures are lost.
LEMMA OnlySignatures ==
  ASSUME packed \in Documents, CppIntegrity(Parsed(packed)) = {},
         NEW j \in 0 .. Len(PathOrder), NEW g, Begun(g, packed, j),
         Has(Parsed(g), "manifest.json"),
         \A n \in DOMAIN Parsed(g)["manifest.json"].files : n \in DOMAIN Parsed(g)
  PROVE  Lost(g) \subseteq Signatures
<1> SUFFICES ASSUME NEW n \in Lost(g)
             PROVE  n \in Signatures
  OBVIOUS
<1>1. DOMAIN Parsed(g) = DOMAIN g /\ DOMAIN Parsed(packed) = DOMAIN packed
  BY DEF Parsed
<1>2. DOMAIN g = Beginning(packed, j) /\ \A m \in DOMAIN g : g[m] = packed[m]
  BY DEF Begun
<1>3. n \in DOMAIN packed /\ n \notin DOMAIN g
  BY <1>2 DEF Lost, Has
<1>4. "manifest.json" \in DOMAIN g /\ "manifest.json" \in DOMAIN packed
  BY <1>1, <1>2 DEF Has, Beginning
<1>5. Parsed(g)["manifest.json"] = Parsed(packed)["manifest.json"]
  BY <1>2, <1>4 DEF Parsed
<1>6. n \notin DOMAIN Parsed(packed)["manifest.json"].files
  BY <1>1, <1>3, <1>5
<1>7. n \in Excluded
  BY <1>1, <1>3, <1>6, CppVouches
<1>8. n \notin {"audit.log", "audit.checkpoint"}
  <2> SUFFICES ASSUME n \in {"audit.log", "audit.checkpoint"}
               PROVE  FALSE
    OBVIOUS
  <2>1. PICK k \in 1 .. j : PathOrder[k] = "manifest.json"
    BY <1>2, <1>4 DEF Beginning
  <2>2. Len(PathOrder) \in Nat /\ DOMAIN PathOrder = 1 .. Len(PathOrder)
    BY TarConstants, LenProperties
  <2>3. PICK i \in DOMAIN PathOrder : PathOrder[i] = n
    <3>1. n \in Names
      BY <1>3, DocumentNames
    <3> QED BY <3>1, OrderConstants DEF ToSet
  <2>4. k \in DOMAIN PathOrder
    BY <2>1, <2>2
  <2>5. i < k
    BY <2>1, <2>3, <2>4, ReadersConstants
  <2>6. i \in 1 .. j
    BY <2>1, <2>2, <2>3, <2>5
  <2>7. n \in Beginning(packed, j)
    BY <1>3, <2>3, <2>6 DEF Beginning
  <2> QED BY <1>2, <1>3, <2>7
<1>9. n # "manifest.json"
  BY <1>3, <1>4
<1> QED BY <1>7, <1>8, <1>9 DEF Excluded

\* Of a document that was complete, signed and verified, no beginning passes for the whole: for every
\* document, every length it is cut to, every size of a block, and whatever its contents mean
\* (tar.cpp, tar.ts, validate.cpp, validate.ts, index.c).
THEOREM TruncationAlwaysNoticed == Spec => []TruncationNoticed
<1>1. ReadersInv /\ Sourced => TruncationNoticed
  <2> SUFFICES ASSUME ReadersInv, Sourced, damage = {"cut"}, CppLoads(Parsed(packed)),
                      CppValidate(Parsed(packed), "signed") = {}
               PROVE  LET cpp == CppOpen(archive)  ts == TsOpen(archive)
                          passes(loads, issues, c) ==
                            loads /\ issues = {} => Lost(c) \subseteq Signatures /\ DOMAIN c \intersect Signatures # {}
                      IN  /\ cpp.ok => LET c == Parsed(cpp.members)
                                       IN  passes(CppLoads(c), CppValidate(c, "signed"), cpp.members)
                          /\ ts.ok  => LET c == Parsed(ts.members)
                                       IN  passes(TsLoads(c), TsValidate(c, "signed"), ts.members)
                          /\ JustOpen => MicroMembers = packed
    BY DEF TruncationNoticed
  <2>1. packed \in Documents /\ archive \in Archives
    BY DEF ReadersInv, Sound, Sources, MicroInv, MicroTypeOK
  <2>2. CppIntegrity(Parsed(packed)) = {}
    BY NoIssues
  <2>3. ASSUME CppOpen(archive).ok, CppValidate(Parsed(CppOpen(archive).members), "signed") = {}
        PROVE  /\ Lost(CppOpen(archive).members) \subseteq Signatures
               /\ DOMAIN CppOpen(archive).members \intersect Signatures # {}
    <3>1. TarRead(archive).ok /\ CppOpen(archive).members = FirstOf(TarRead(archive).members)
      BY <2>3 DEF CppOpen, Opened, Refused
    <3> DEFINE g == CppOpen(archive).members
    <3>2. PICK j \in 0 .. Len(PathOrder) : Begun(g, packed, j)
      BY <3>1, Remains
    <3> HIDE DEF g
    <3>3. CppIntegrity(Parsed(g)) = {} /\ CppSigned(Parsed(g)) = {}
      BY <2>3, NoIssues DEF g
    <3>4. DOMAIN Parsed(g) = DOMAIN g
      BY DEF Parsed
    <3>5. Lost(g) \subseteq Signatures
      BY <2>1, <2>2, <3>2, <3>3, CppVouches, OnlySignatures
    <3>6. DOMAIN g \intersect Signatures # {}
      BY <3>3, <3>4, CppSigns
    <3> QED BY <3>5, <3>6 DEF g
  <2>4. ASSUME TsOpen(archive).ok, TsValidate(Parsed(TsOpen(archive).members), "signed") = {}
        PROVE  /\ Lost(TsOpen(archive).members) \subseteq Signatures
               /\ DOMAIN TsOpen(archive).members \intersect Signatures # {}
    <3>1. TarRead(archive).ok /\ TsOpen(archive).members = LastOf(TarRead(archive).members)
      BY <2>4 DEF TsOpen, Opened, Refused
    <3> DEFINE g == TsOpen(archive).members
    <3>2. PICK j \in 0 .. Len(PathOrder) : Begun(g, packed, j)
      BY <3>1, Remains
    <3> HIDE DEF g
    <3>3. TsIntegrity(Parsed(g)) = {} /\ TsSigned(Parsed(g)) = {}
      BY <2>4, NoIssues DEF g
    <3>4. DOMAIN Parsed(g) = DOMAIN g
      BY DEF Parsed
    <3>5. Lost(g) \subseteq Signatures
      BY <2>1, <2>2, <3>2, <3>3, TsVouches, OnlySignatures
    <3>6. DOMAIN g \intersect Signatures # {}
      BY <3>3, <3>4, TsVouches, TsSigns
    <3> QED BY <3>5, <3>6 DEF g
  <2>5. ASSUME JustOpen
        PROVE  MicroMembers = packed
    <3>1. TarRead(archive).ok /\ TarRead(archive).members = Shown(archive, reader.entries)
      BY <2>5, OpenReads
    <3>2. MicroMembers = FirstOf(TarRead(archive).members)
      BY <3>1 DEF MicroMembers, Shown, Row
    <3>3. /\ reader.next \in Nat
          /\ (reader.next + 1) * Block <= archive.bytes /\ archive.blocks[reader.next + 1] = Zero
      <4>1. MicroTypeOK
        BY DEF ReadersInv, Sound, MicroInv
      <4> QED BY <2>5, <4>1, TypeParts DEF ReaderType, JustOpen, ReadersInv, Walk, AtEnd
    <3>4. Begun(MicroMembers, packed, Len(PathOrder))
      BY <3>1, <3>2, <3>3, Remains
    <3>5. Beginning(packed, Len(PathOrder)) = DOMAIN packed
      <4>1. DOMAIN PathOrder = 1 .. Len(PathOrder)
        BY TarConstants, LenProperties
      <4>2. Names = {PathOrder[i] : i \in 1 .. Len(PathOrder)}
        BY <4>1, OrderConstants DEF ToSet
      <4>3. DOMAIN packed \subseteq Names
        BY <2>1, DocumentNames
      <4> QED BY <4>2, <4>3 DEF Beginning
    <3>6. DOMAIN MicroMembers = DOMAIN packed /\ \A n \in DOMAIN packed : MicroMembers[n] = packed[n]
      BY <3>4, <3>5 DEF Begun
    <3>7. packed \in [DOMAIN packed -> Contents]
      BY <2>1, ReadersConstants
    <3>8. MicroMembers = [n \in DOMAIN packed |-> MicroMembers[n]]
      <4>1. MicroMembers = [n \in DOMAIN MicroMembers |-> MicroMembers[n]]
        BY <3>2 DEF FirstOf
      <4> QED BY <3>6, <4>1
    <3> QED BY <3>6, <3>7, <3>8
  <2> QED BY <2>3, <2>4, <2>5
<1>2. Init => Sourced
  BY DEF Init, Sourced
<1>3. ReadersInv /\ Sourced /\ [Next]_vars => Sourced'
  BY SourcedStep DEF ReadersInv
<1> QED BY <1>1, <1>2, <1>3, ReadersInvariant, PTL DEF Spec
=============================================================================
