------------------------- MODULE CommandLine_proofs -------------------------
(***************************************************************************)
(* The mcdf command, proved for every set of texts, pictures and imports,  *)
(* for whatever is on the disk to begin with, and for any number of        *)
(* commands, failing writes, crashes, saves and rebuilt manifests.         *)
(*                                                                         *)
(* A command is known by what it has still to do (Does, Left).  What       *)
(* carries the properties is what the disk holds at each place of a script *)
(* as long as nothing went wrong (Making, Taking), and, whatever went      *)
(* wrong, where the signatures on the disk come from (SignedInv).          *)
(***************************************************************************)
EXTENDS CommandLine, SequenceTheorems, NaturalsInduction,
        WellFoundedInduction, TLAPS

-----------------------------------------------------------------------------
(* The scripts.                                                            *)

Importers == {"import-epub", "import-html"}
Makers    == {"create"} \union Importers
Signers   == {"pack", "sign", "keygen", "render -o"}

\* Where the scripts of the makers write content.md, and the importers look for one, counted
\* from the last step.
ContentAt(verb) == CASE verb = "create" -> 6 [] verb = "import-html" -> 7 [] verb = "import-epub" -> 8
EntryAt(verb)   == CASE verb = "create" -> 6 [] verb = "import-html" -> 9 [] verb = "import-epub" -> 10

\* What a command does when it has k steps left.
Does(verb, k, name) ==
  \/ name = "assets"        /\ verb = "create" /\ k = 7
  \/ name = "convert"       /\ verb \in Importers /\ k = EntryAt(verb)
  \/ name = "image"         /\ verb \in Importers /\ k = ContentAt(verb) + 1
  \/ name = Content         /\ verb \in Makers /\ k = ContentAt(verb)
  \/ name = "metadata.yaml" /\ verb \in Makers /\ k = ContentAt(verb) - 1
  \/ name = Manifest        /\ verb \in Makers /\ (k = 4 \/ k = ContentAt(verb) - 2)
  \/ name = "schema.yaml"   /\ verb = "import-epub" /\ k = 5
  \/ name = "audit.log"     /\ verb \in Makers /\ k = 3
  \/ name = "archive"       /\ ((verb \in Makers /\ k = 2) \/ (verb = "pack" /\ k = 1))
  \/ name = "clean"         /\ verb \in Makers /\ k = 1
  \/ name = "read"          /\ verb = "sign" /\ k = 3
  \/ name = "compare"       /\ verb = "sign" /\ k = 2
  \/ name = "sign"          /\ verb = "sign" /\ k = 1
  \/ name = "key"           /\ verb = "keygen" /\ k = 1
  \/ name = "page"          /\ verb = "render -o" /\ k = 1

\* What a command may still have to do.
StepNames ==
  Names \union {"assets", "convert", "image", "archive", "clean", "read", "compare", "sign", "key", "page"}

\* How much of its script a command has left; one that makes a folder leaves out the last two.
Shift(c) == IF c.verb \in Makers /\ c.at = "folder" THEN 2 ELSE 0
Left(c)  == Shift(c) + Len(c.todo)

OnScript(c) ==
  /\ c.todo \in Seq(StepNames) /\ Len(c.todo) > 0
  /\ \A i \in 1..Len(c.todo) : Does(c.verb, Left(c) - i + 1, c.todo[i])

IsCommand(c) ==
  /\ c = [verb |-> c.verb, at |-> c.at, todo |-> c.todo, text |-> c.text, asset |-> c.asset, seen |-> c.seen]
  /\ c.verb \in Makers \union Signers \union {"unpack"}
  /\ c.verb # "unpack" => OnScript(c)
  /\ c.verb \in Makers =>
       /\ c.at \in {"folder", "staging"}
       /\ c.text \in Texts \/ (c.text = None /\ c.verb \in Importers /\ Left(c) = EntryAt(c.verb))
       /\ c.asset \in Pictures \union {None, Missing} /\ (Left(c) = 7 /\ c.verb = "create" => c.asset # None)
  /\ c.verb \in {"pack", "render -o"} => c.at \in {"folder", "archive"}
  /\ c.verb = "sign" => c.at = "folder"
  /\ c.verb = "keygen" => c.text \in {"ed25519", "x25519"}

-----------------------------------------------------------------------------
(* Types.                                                                  *)

\* A command finds the folder it began with.
Placed(d, c) ==
  /\ c.verb \in Makers /\ c.at = "staging" => d.staging # None
  /\ c.verb \in Makers /\ Left(c) < EntryAt(c.verb) => IsFolder(d[c.at])
  /\ c.verb = "sign" /\ Left(c) < 3 => IsFolder(d.folder)
  /\ c.verb = "unpack" =>
       \/ c.todo = <<"unarchive">>
       \/ /\ c.todo \in Seq(Names) /\ c.todo # << >>
          /\ d.archive # None /\ c.todo[1] \in DOMAIN d.archive.members

Typed ==
  /\ IsDisk(disk)
  /\ cmd = None \/ (IsCommand(cmd) /\ Placed(disk, cmd) /\ last = None)
  /\ last = None \/ last = [verb |-> last.verb, exit |-> last.exit, at |-> last.at,
                            text |-> last.text, asset |-> last.asset]
  /\ last # None /\ last.verb # "reports" => last.exit \in {0, 1}
  /\ redirect \in Views \union {None, Torn} /\ (redirect # None => IsFolder(disk.folder))
  /\ past = [before |-> past.before, trouble |-> past.trouble, edited |-> past.edited,
             views |-> past.views, signed |-> past.signed]
  /\ past.trouble \in {"none", "told", "silent"} /\ past.edited \in BOOLEAN
  /\ cmd # None => past.trouble # "told"
  /\ spent \in [commands : 0..MaxCommands, troubles : 0..MaxTroubles]

-----------------------------------------------------------------------------
(* Signatures.                                                             *)

\* Every signature on the disk is over what a command signed; and what sign is about to sign was
\* in the folder, or in a manifest written to it, since the command began.
SignedInv ==
  /\ \A c \in Found(disk) : Signed(c) => c[Signature].over \in past.signed
  /\ cmd # None /\ cmd.verb = "sign" /\ IsFolder(disk.folder) =>
       /\ Covered(disk.folder) \in past.views
       /\ Left(cmd) < 3 /\ Has(disk.folder, Manifest) /\ disk.folder[Manifest] # Torn =>
            disk.folder[Manifest] \in past.views \union (IF Left(cmd) = 2 THEN {cmd.seen} ELSE {})

-----------------------------------------------------------------------------
(* A command to which nothing has happened.                                *)

Undisturbed == past.trouble = "none" /\ ~past.edited

\* The members that are written when k steps of the script are left.
MadeBy(verb, asset, k) ==
  (IF asset \in Pictures /\ k <= ContentAt(verb) THEN {"assets/a"} ELSE {})
  \union (IF k < ContentAt(verb) THEN {Content} ELSE {})
  \union (IF k < ContentAt(verb) - 1 THEN {"metadata.yaml"} ELSE {})
  \union (IF k < ContentAt(verb) - 2 THEN {Manifest} ELSE {})
  \union (IF verb = "import-epub" /\ k < 5 THEN {"schema.yaml"} ELSE {})
  \union (IF k < 3 THEN {"audit.log"} ELSE {})

\* What a command that makes a document has made of it so far.
Holds(c, verb, text, asset, k) ==
  /\ k < ContentAt(verb) => Has(c, Content) /\ c[Content] = text
  /\ k <= ContentAt(verb) /\ asset \in Pictures => Has(c, "assets/a") /\ c["assets/a"] = asset
  /\ k < 4 => ManifestOK(c)

Kept(d, c, before) ==
  \/ Emptied(d) = Emptied(before)
  \/ c.verb = "create" /\ c.at = "folder" /\ c.asset \in Pictures

\* The disk d, when command c, begun on another, has k steps left.
MadeAt(d, c, before, k) ==
  /\ Holds(IF c.at = "staging" /\ k = 0 THEN d.archive.members ELSE d[c.at], c.verb, c.text, c.asset, k)
  /\ c.at = "folder" /\ k >= ContentAt(c.verb) =>
       IF c.verb \in Importers /\ k < EntryAt(c.verb) THEN ~Has(d.folder, Content) ELSE Kept(d, c, before)
  /\ c.at = "staging" =>
       /\ k > 0 => DOMAIN d.staging = MadeBy(c.verb, c.asset, k)
       /\ k > 1 => Emptied(d) = Emptied(before)
       /\ k = 1 => d.archive = Packed(d.staging)
       /\ k = 0 => /\ d.archive.readable /\ DOMAIN d.archive.members = MadeBy(c.verb, c.asset, k)
                   /\ d.staging = None

Making == cmd # None /\ cmd.verb \in Makers /\ Undisturbed => MadeAt(disk, cmd, past.before, Left(cmd))

\* The other commands change nothing but with their last step, unpack excepted.
Taking ==
  cmd # None /\ Undisturbed =>
    /\ cmd.verb \in Signers => disk = past.before
    /\ cmd.verb = "sign" /\ Left(cmd) < 3 =>
         /\ IsFolder(disk.folder) /\ Has(disk.folder, Manifest)
         /\ cmd.seen = disk.folder[Manifest] /\ cmd.seen # Torn
         /\ Left(cmd) = 1 => cmd.seen = Covered(disk.folder)
    /\ cmd.verb = "unpack" =>
         /\ disk = past.before \/ IsFolder(disk.folder)
         /\ cmd.todo = <<"unarchive">> => disk = past.before
         /\ cmd.todo # <<"unarchive">> => \A n \in DOMAIN disk.archive.members :
              n \in ToSet(cmd.todo) \/ (IsFolder(disk.folder) /\ Has(disk.folder, n)
                                         /\ disk.folder[n] = disk.archive.members[n])

Inv == /\ Typed /\ SignedInv /\ Making /\ Taking
       /\ SuccessDelivers /\ FailureKeepsDocument /\ VerifiedWasSigned

-----------------------------------------------------------------------------
(* Containers.                                                             *)

\* What a place for a folder holds is a folder, or it is empty, or a file is there.
LEMMA ContainerIs ==
  ASSUME NEW c, IsContainer(c)
  PROVE  /\ c \notin {None, Occupied}
         /\ Covered(c) \in Views
         /\ Covered(c) # Torn
         /\ Has(c, Manifest) => c[Manifest] \in Views \union {Torn}
         /\ Has(c, Signature) => c[Signature] \in [over : Views] \union {Torn}
         /\ Has(c, "audit.log") => c["audit.log"] \in Nat \union {Torn}
<1>1. c \in [DOMAIN c -> UNION {Bytes(n) : n \in Names}]
  BY DEF IsContainer
<1>2. DOMAIN c \in SUBSET Names
  BY DEF IsContainer
<1>3. c \notin {None, Occupied}
  BY <1>1, <1>2, CommandLineConstants
<1>4. \A n \in DOMAIN c \ Excluded : c[n] \in Values
  BY DEF IsContainer, Bytes
<1>5. Covered(c) \in Views
  <2>1. DOMAIN c \ Excluded \in SUBSET (Names \ Excluded)
    BY <1>2
  <2>2. Covered(c) \in [DOMAIN c \ Excluded -> Values]
    BY <1>4 DEF Covered
  <2> QED
    BY <2>1, <2>2 DEF Views
<1>6. Covered(c) # Torn
  BY <1>5, CommandLineConstants
<1> QED
  BY <1>3, <1>5, <1>6 DEF IsContainer, Has, Bytes, Manifest, Signature, Excluded

\* A member put into a folder.
LEMMA PutIs ==
  ASSUME NEW c, NEW n, NEW v
  PROVE  /\ DOMAIN Put(c, n, v) = DOMAIN c \union {n}
         /\ Put(c, n, v)[n] = v
         /\ \A m \in DOMAIN c : m # n => Put(c, n, v)[m] = c[m]
BY DEF Put

\* A container stays one when a member of its kind is put into it.
LEMMA PutTyped ==
  ASSUME NEW c, IsContainer(c), NEW n \in Names, NEW v \in Bytes(n)
  PROVE  IsContainer(Put(c, n, v))
<1>1. Put(c, n, v) = [m \in DOMAIN Put(c, n, v) |-> Put(c, n, v)[m]]
  BY DEF Put
<1>2. \A m \in DOMAIN Put(c, n, v) : Put(c, n, v)[m] \in Bytes(m)
  BY DEF IsContainer, Put
<1>3. DOMAIN Put(c, n, v) \subseteq Names
  BY DEF IsContainer, Put
<1> QED
  BY <1>1, <1>2, <1>3 DEF IsContainer

\* One that the manifest does not cover is put beside it.
LEMMA PutBeside ==
  ASSUME NEW c, NEW n \in Excluded, NEW v
  PROVE  Covered(Put(c, n, v)) = Covered(c)
<1>1. DOMAIN Put(c, n, v) \ Excluded = DOMAIN c \ Excluded
  BY DEF Put
<1>2. \A m \in DOMAIN c \ Excluded : Put(c, n, v)[m] = c[m]
  BY DEF Put
<1> QED
  BY <1>1, <1>2 DEF Covered

\* The empty folder is a container.
LEMMA EmptyIs == IsContainer(Empty) /\ DOMAIN Empty = {}
BY DEF IsContainer, Empty

\* So is what is left of a container.
LEMMA OnlyTyped ==
  ASSUME NEW c, IsContainer(c), NEW ns
  PROVE  IsContainer(Only(c, ns))
BY DEF IsContainer, Only

\* An archive, whole or cut off, holds members of what was packed.
LEMMA PackedTyped ==
  ASSUME NEW c, IsContainer(c), NEW a \in {Packed(c)} \union Cuts(c)
  PROVE  /\ IsArchive(a)
         /\ Has(a.members, Signature) => Has(c, Signature) /\ a.members[Signature] = c[Signature]
<1>1. CASE a = Packed(c)
  BY <1>1 DEF Packed, Archived, IsArchive
<1>2. CASE a \in Cuts(c)
  <2>1. PICK k \in {0, 3, 5}, r \in BOOLEAN : a = Archived(Only(c, ToSet(SubSeq(Order, 1, k))), r)
    BY <1>2 DEF Cuts
  <2> DEFINE ns == ToSet(SubSeq(Order, 1, k))
  <2> HIDE DEF ns
  <2>2. a = Archived(Only(c, ns), r)
    BY <2>1 DEF ns
  <2> QED
    BY <2>2, OnlyTyped DEF Archived, IsArchive, Only, Has
<1> QED
  BY <1>1, <1>2

-----------------------------------------------------------------------------
(* Scripts.                                                                *)

\* A command stands where its script says.
LEMMA LeftIs ==
  ASSUME NEW c, IsCommand(c), c.verb # "unpack"
  PROVE  /\ c.todo \in Seq(StepNames) /\ c.todo # << >> /\ Len(c.todo) \in Nat /\ Len(c.todo) > 0
         /\ Shift(c) \in {0, 2} /\ Left(c) = Shift(c) + Len(c.todo) /\ Left(c) \in Nat
         /\ Does(c.verb, Left(c), c.todo[1])
         /\ c.verb \in Makers \union Signers
<1>1. OnScript(c) /\ c.verb \in Makers \union Signers
  BY DEF IsCommand
<1>3. Len(c.todo) \in Nat /\ Shift(c) \in {0, 2} /\ Len(c.todo) >= 1
  BY <1>1 DEF OnScript, Shift
<1>4. Left(c) = Shift(c) + Len(c.todo) /\ Left(c) \in Nat /\ Left(c) - 1 + 1 = Left(c)
  BY <1>3 DEF Left
<1>5. Does(c.verb, Left(c) - 1 + 1, c.todo[1])
  BY <1>1, <1>3 DEF OnScript
<1>6. Does(c.verb, Left(c), c.todo[1])
  BY <1>4, <1>5
<1> QED
  BY <1>1, <1>3, <1>4, <1>6 DEF OnScript

\* A command that goes on has one step less to do.
Onward(c, c2) ==
  /\ c2.verb = c.verb /\ c2.at = c.at /\ c2.text = c.text /\ c2.asset = c.asset
  /\ c2.todo = Tail(c.todo)
  /\ c2 = [verb |-> c2.verb, at |-> c2.at, todo |-> c2.todo, text |-> c2.text, asset |-> c2.asset, seen |-> c2.seen]

\* A command that goes on is a command, one place further.
LEMMA OnwardIs ==
  ASSUME NEW c, IsCommand(c), c.verb # "unpack", Tail(c.todo) # << >>,
         c.verb \in Makers => c.text \in Texts,
         NEW c2, Onward(c, c2)
  PROVE  IsCommand(c2) /\ Left(c2) = Left(c) - 1
<1>1. OnScript(c) /\ Shift(c2) = Shift(c) /\ Shift(c) \in {0, 2}
  BY LeftIs DEF IsCommand, Onward, Shift
<1>2. c2.todo \in Seq(StepNames) /\ Len(c2.todo) = Len(c.todo) - 1 /\ Len(c2.todo) > 0
  <2> DEFINE s == c.todo
  <2>1. s \in Seq(StepNames) /\ s # << >> /\ Tail(s) # << >> /\ c2.todo = Tail(s)
    BY LeftIs DEF Onward
  <2> HIDE DEF s
  <2>2. Tail(s) \in Seq(StepNames) /\ Len(Tail(s)) = Len(s) - 1
    BY <2>1
  <2>3. Len(Tail(s)) > 0
    BY <2>1, <2>2
  <2> QED
    BY <2>1, <2>2, <2>3 DEF s
<1>3. \A i \in 1..Len(c2.todo) : c2.todo[i] = c.todo[i + 1]
  BY <1>1, <1>2 DEF Onward, OnScript
<1>4. Left(c2) = Left(c) - 1
  BY <1>1, <1>2, LeftIs DEF Left
<1>5. OnScript(c2)
  <2>2. ASSUME NEW i \in 1..Len(c2.todo)
        PROVE  Does(c2.verb, Left(c2) - i + 1, c2.todo[i])
    <3>1. i + 1 \in 1..Len(c.todo) /\ i \in Nat
      BY <1>2, LeftIs
    <3>2. Does(c.verb, Left(c) - (i + 1) + 1, c.todo[i + 1])
      BY <3>1, <1>1 DEF OnScript
    <3>3. Left(c) \in Nat
      BY LeftIs
    <3>4. Left(c) - (i + 1) + 1 = Left(c2) - i + 1
      BY <1>4, <3>1, <3>3
    <3> QED
      BY <1>3, <3>2, <3>4 DEF Onward
  <2> QED
    BY <1>2, <2>2 DEF OnScript
<1>6. ~(c2.verb = "create" /\ Left(c2) = 7)
  <2>2. Left(c) \in Nat
    BY LeftIs
  <2>3. c.verb = "create" => ContentAt(c.verb) = 6
    BY DEF ContentAt
  <2>4. Does(c.verb, Left(c), c.todo[1])
    BY LeftIs
  <2>1. c.verb = "create" => Left(c) <= 7
    BY <2>2, <2>3, <2>4 DEF Does, Importers
  <2> QED
    BY <1>4, <2>1, <2>2 DEF Onward
<1> QED
  BY <1>4, <1>5, <1>6 DEF IsCommand, Onward

-----------------------------------------------------------------------------
(* A step, whatever it writes.                                             *)

\* The disk with one thing on it changed.
ChangedTo(d, e, at, x) ==
  /\ e = [folder |-> e.folder, staging |-> e.staging, archive |-> e.archive, key |-> e.key, page |-> e.page]
  /\ e.folder  = IF at = "folder"  THEN x ELSE d.folder
  /\ e.staging = IF at = "staging" THEN x ELSE d.staging
  /\ e.archive = IF at = "archive" THEN x ELSE d.archive
  /\ e.key     = IF at = "key"     THEN x ELSE d.key
  /\ e.page    = IF at = "page"    THEN x ELSE d.page

\* Changing one thing on the disk changes nothing else.
LEMMA ExceptIs ==
  ASSUME NEW d, IsDisk(d), NEW at \in {"folder", "staging", "archive", "key", "page"}, NEW x,
         NEW e, e = [d EXCEPT ![at] = x]
  PROVE  ChangedTo(d, e, at, x)
<1>1. d = [folder |-> d.folder, staging |-> d.staging, archive |-> d.archive, key |-> d.key, page |-> d.page]
  BY DEF IsDisk
<1>2. CASE at = "folder"  BY <1>1, <1>2 DEF ChangedTo
<1>3. CASE at = "staging" BY <1>1, <1>3 DEF ChangedTo
<1>4. CASE at = "archive" BY <1>1, <1>4 DEF ChangedTo
<1>5. CASE at = "key"     BY <1>1, <1>5 DEF ChangedTo
<1>6. CASE at = "page"    BY <1>1, <1>6 DEF ChangedTo
<1> QED
  BY <1>2, <1>3, <1>4, <1>5, <1>6

\* What may become of the disk by a step of the running command that says it went well.
Traced(d, S) == \A c \in Found(d) : Signed(c) => c[Signature].over \in S
Follows(d, S) ==
  /\ IsDisk(d) /\ Traced(d, S)
  /\ IsFolder(disk.folder) => IsFolder(d.folder)
  /\ Tail(cmd.todo) # << >> =>
       /\ cmd.verb = "sign" => d = disk /\ Left(cmd) = 2 /\ (IsFolder(d.folder) => cmd.seen \in past.views)
       /\ cmd.verb \in Makers => cmd.text \in Texts /\ IsFolder(d[cmd.at])
  /\ cmd.verb = "unpack" => d.archive = disk.archive /\ cmd.todo # <<"unarchive">>

\* The command goes on, or was at its end.
GoesOn ==
  /\ IsCommand(cmd') /\ Placed(disk', cmd') /\ last' = None
  /\ cmd' = [cmd EXCEPT !.todo = cmd'.todo]
  /\ cmd.verb # "unpack" => cmd'.todo = Tail(cmd.todo) /\ Left(cmd') = Left(cmd) - 1
  /\ cmd.verb = "unpack" =>
       /\ cmd'.todo # <<"unarchive">>
       /\ \A n \in DOMAIN Archive : n \in ToSet(Tail(cmd.todo)) => n \in ToSet(cmd'.todo)
EndsHere ==
  /\ Ends(0)
  /\ cmd.verb # "unpack" => Left(cmd) = Shift(cmd) + 1
  /\ cmd.verb = "unpack" => \A n \in DOMAIN Archive : n \notin ToSet(Tail(cmd.todo))

\* The order of the natural numbers is well-founded.
Below == {pair \in Nat \X Nat : pair[1] < pair[2]}

LEMMA BelowWellFounded == IsWellFoundedOn(Below, Nat)
BY NatLessThanWellFounded DEF OpToRel, Below

\* Every non-empty set of natural numbers has a least element.
LEMMA LeastNat ==
  ASSUME NEW T, T \subseteq Nat, T # {}
  PROVE  \E x \in T : \A y \in T : x <= y
<1>1. \E x \in T : \A y \in T : ~(<<y, x>> \in Below)
  BY BelowWellFounded, WFMin, Zenon
<1>2. PICK x \in T : \A y \in T : ~(<<y, x>> \in Below)
  BY <1>1
<1>3. \A y \in T : ~(y < x)
  BY <1>2 DEF Below
<1> QED
  BY <1>3

\* A sequence with an empty tail has one element.
LEMMA TailIs ==
  ASSUME NEW T, NEW s \in Seq(T), s # << >>, Tail(s) = << >>
  PROVE  Len(s) = 1
<1>1. Len(Tail(s)) = Len(s) - 1
  OBVIOUS
<1> QED
  BY <1>1

\* What unpack passes over is not in the archive.
LEMMA PresentIs ==
  ASSUME NEW names \in Seq(Names)
  PROVE  /\ Present(names) \in Seq(Names)
         /\ Present(names) # << >> => Present(names)[1] \in DOMAIN Archive
         /\ \A n \in DOMAIN Archive : n \in ToSet(names) => Present(names) # << >> /\ n \in ToSet(Present(names))
<1> DEFINE here == {i \in DOMAIN names : Has(Archive, names[i])}
<1>1. CASE here = {}
  <2>1. Present(names) = << >>
    BY <1>1 DEF Present
  <2> QED
    BY <1>1, <2>1 DEF ToSet, Has
<1>2. CASE here # {}
  <2>1. here \subseteq Nat
    OBVIOUS
  <2> DEFINE first == CHOOSE i \in here : \A j \in here : i <= j
  <2>2. first \in here /\ \A j \in here : first <= j
    <3>1. \E i \in here : \A j \in here : i <= j
      BY <1>2, <2>1, LeastNat
    <3> QED
      BY <3>1
  <2>3. Present(names) = SubSeq(names, first, Len(names))
    BY <1>2 DEF Present
  <2> HIDE DEF first
  <2>4. first \in 1..Len(names) /\ Has(Archive, names[first])
    BY <2>2
  <2> DEFINE rest == SubSeq(names, first, Len(names))
  <2>5. /\ rest \in Seq(Names)
        /\ Len(rest) = Len(names) - first + 1
        /\ \A i \in 1..(Len(names) - first + 1) : rest[i] = names[first + i - 1]
    BY <2>4
  <2> HIDE DEF rest
  <2>6. Present(names) = rest /\ rest[1] = names[first] /\ rest # << >>
    <3>1. 1 \in 1..(Len(names) - first + 1) /\ first + 1 - 1 = first /\ Len(rest) > 0
      BY <2>4, <2>5
    <3>2. rest[1] = names[first + 1 - 1]
      BY <2>5, <3>1
    <3>3. rest # << >>
      BY <2>5, <3>1
    <3> QED
      BY <2>3, <3>1, <3>2, <3>3 DEF rest
  <2>7. ASSUME NEW n \in DOMAIN Archive, n \in ToSet(names)
        PROVE  n \in ToSet(Present(names))
    <3>1. PICK i \in DOMAIN names : names[i] = n
      BY <2>7 DEF ToSet
    <3>2. i \in here /\ first <= i /\ i \in 1..Len(names)
      BY <3>1, <2>2, <2>7 DEF Has
    <3>3. i - first + 1 \in 1..(Len(names) - first + 1) /\ first + (i - first + 1) - 1 = i
      BY <3>2, <2>4
    <3>4. rest[i - first + 1] = n
      BY <3>1, <3>3, <2>5
    <3> QED
      BY <3>3, <3>4, <2>6, <2>5 DEF ToSet
  <2> QED
    BY <2>4, <2>5, <2>6, <2>7 DEF Has
<1> QED
  BY <1>1, <1>2

\* Advance goes on or ends, and what is left to do is on the script.
LEMMA AdvanceIs ==
  ASSUME Typed, cmd # None, NEW S, Follows(disk', S), Advance
  PROVE  GoesOn \/ EndsHere
<1> USE DEF Typed
<1>1. IsCommand(cmd) /\ Placed(disk, cmd) /\ last = None
  OBVIOUS
<1> DEFINE todo == IF cmd.verb = "unpack" THEN Present(Tail(cmd.todo)) ELSE Tail(cmd.todo)
<1>2. IF todo = << >> THEN Ends(0) ELSE cmd' = [cmd EXCEPT !.todo = todo] /\ last' = last
  BY DEF Advance, Goes
<1>3. CASE cmd.verb = "unpack"
  <2>1. Tail(cmd.todo) \in Seq(Names) /\ disk'.archive = disk.archive
    <3>1. cmd.todo \in Seq(Names) /\ cmd.todo # << >>
      BY <1>1, <1>3 DEF Placed, Follows
    <3> QED
      BY <1>3, <3>1 DEF Follows
  <2>2. todo \in Seq(Names) /\ (todo # << >> => todo[1] \in DOMAIN Archive)
    BY <1>3, <2>1, PresentIs
  <2>3. \A n \in DOMAIN Archive : n \in ToSet(Tail(cmd.todo)) => todo # << >> /\ n \in ToSet(todo)
    BY <1>3, <2>1, PresentIs
  <2>4. CASE todo = << >>
    BY <1>2, <1>3, <2>3, <2>4 DEF EndsHere
  <2>5. CASE todo # << >>
    <3>1. cmd' = [cmd EXCEPT !.todo = todo] /\ last' = None
      BY <1>1, <1>2, <2>5
    <3> HIDE DEF todo
    <3>2. /\ cmd'.verb = "unpack" /\ cmd'.todo = todo
          /\ cmd' = [verb |-> cmd'.verb, at |-> cmd'.at, todo |-> cmd'.todo, text |-> cmd'.text,
                     asset |-> cmd'.asset, seen |-> cmd'.seen]
      BY <1>1, <1>3, <3>1 DEF IsCommand
    <3>3. IsCommand(cmd')
      BY <3>2 DEF IsCommand, Makers, Importers, Signers
    <3>4. disk'.archive # None /\ disk'.archive = disk.archive
      BY <1>1, <1>3, <2>1 DEF Placed, Follows
    <3>5. Placed(disk', cmd')
      BY <3>2, <3>4, <2>2, <2>5 DEF Placed, Makers, Importers, Archive, todo
    <3>6. todo # <<"unarchive">>
      <4>1. "unarchive" \notin Names
        BY DEF Names, Order, ToSet
      <4>2. todo[1] \in Names
        BY <2>2, <2>5
      <4> QED
        BY <4>1, <4>2
    <3> QED
      BY <1>3, <3>1, <3>2, <3>3, <3>5, <3>6, <2>3 DEF GoesOn
  <2> QED
    BY <2>4, <2>5
<1>4. CASE cmd.verb # "unpack"
  <2>1. todo = Tail(cmd.todo)
    BY <1>4
  <2>2. CASE todo = << >>
    <3>1. Len(cmd.todo) = 1
      <4>1. cmd.todo \in Seq(StepNames) /\ cmd.todo # << >> /\ Tail(cmd.todo) = << >>
        BY <1>1, <1>4, <2>1, <2>2, LeftIs
      <4> QED
        BY <4>1, TailIs
    <3> QED
      BY <1>1, <1>2, <1>4, <2>2, <3>1, LeftIs DEF EndsHere
  <2>3. CASE todo # << >>
    <3>1. cmd' = [cmd EXCEPT !.todo = Tail(cmd.todo)] /\ last' = None /\ Tail(cmd.todo) # << >>
      BY <1>1, <1>2, <2>1, <2>3
    <3>2. Onward(cmd, cmd')
      BY <1>1, <3>1 DEF Onward, IsCommand
    <3>3. cmd.verb \in Makers => cmd.text \in Texts /\ IsFolder(disk'[cmd.at])
      BY <3>1 DEF Follows
    <3>4. IsCommand(cmd') /\ Left(cmd') = Left(cmd) - 1
      BY <1>1, <1>4, <3>1, <3>2, <3>3, OnwardIs
    <3>7. cmd.verb = "sign" => IsFolder(disk'.folder)
      <4>1. cmd.verb = "sign" => disk' = disk /\ Left(cmd) = 2
        BY <3>1 DEF Follows
      <4> QED
        BY <1>1, <4>1 DEF Placed
    <3>5. Placed(disk', cmd')
      BY <1>4, <3>2, <3>3, <3>7, <1>1 DEF Placed, Onward, IsFolder, IsCommand
    <3>6. cmd' = [cmd EXCEPT !.todo = cmd'.todo] /\ cmd'.todo = Tail(cmd.todo)
      BY <3>1, <3>2 DEF Onward
    <3> QED
      BY <1>4, <3>1, <3>4, <3>5, <3>6 DEF GoesOn
  <2> QED
    BY <2>2, <2>3
<1> QED
  BY <1>3, <1>4

\* What is known of a command that runs.
Running ==
  /\ IsCommand(cmd) /\ Placed(disk, cmd) /\ last = None
  /\ cmd.verb \in Makers \union Signers \union {"unpack"}

\* The command has ended, with this exit code.
LEMMA EndsIs ==
  ASSUME Typed, cmd # None, NEW x, Ends(x)
  PROVE  /\ cmd' = None
         /\ last' = [verb |-> last'.verb, exit |-> last'.exit, at |-> last'.at,
                     text |-> last'.text, asset |-> last'.asset]
         /\ last'.verb = cmd.verb /\ last'.exit = x /\ last'.at = cmd.at
         /\ last'.text = cmd.text /\ last'.asset = cmd.asset
         /\ last'.verb # "reports" /\ VerifiedWasSigned'
<1>1. cmd.verb \in Makers \union Signers \union {"unpack"}
  BY DEF Typed, IsCommand
<1>2. cmd.verb # "reports"
  BY <1>1 DEF Makers, Importers, Signers
<1> QED
  BY <1>2 DEF Ends, VerifiedWasSigned

\* A failing command's tidying leaves everything as it is but its own staging folder.
LEMMA TidiedIs ==
  ASSUME NEW d, IsDisk(d), NEW S, Traced(d, S)
  PROVE  /\ IsDisk(Tidied(d)) /\ Traced(Tidied(d), S)
         /\ Tidied(d).folder = d.folder /\ Emptied(Tidied(d)) = Emptied(d)
<1>1. CASE Tidied(d) = d
  BY <1>1
<1>2. CASE Tidied(d) = [d EXCEPT !.staging = None]
  <2> DEFINE e == Tidied(d)
  <2>1. ChangedTo(d, e, "staging", None)
    BY <1>2, ExceptIs
  <2> HIDE DEF e
  <2>2. IsDisk(e)
    BY <2>1 DEF IsDisk, ChangedTo
  <2>3. Found(e) \subseteq Found(d)
    BY <2>1 DEF ChangedTo, Found
  <2>4. Traced(e, S)
    BY <2>3 DEF Traced
  <2>5. Emptied(e) = Emptied(d)
    BY <2>1 DEF Emptied, ChangedTo, IsDisk
  <2> QED
    BY <2>1, <2>2, <2>4, <2>5 DEF e, ChangedTo
<1> QED
  BY <1>1, <1>2 DEF Tidied

\* A step that goes on signs nothing.
LEMMA SignedFollows ==
  ASSUME Typed, SignedInv, cmd # None, NEW S, Follows(disk', S), GoesOn,
         Traced(disk', past'.signed), past'.views = past.views
  PROVE  SignedInv'
<1>1. /\ cmd'.verb = cmd.verb /\ cmd'.seen = cmd.seen
      /\ cmd.verb = "sign" => Left(cmd') = Left(cmd) - 1
  BY DEF GoesOn, Typed, IsCommand
<1>2. ASSUME cmd.verb = "sign"
      PROVE  disk' = disk /\ Left(cmd) = 2 /\ (IsFolder(disk.folder) => cmd.seen \in past.views)
  <2>1. cmd'.todo = Tail(cmd.todo) /\ cmd'.todo # << >>
    BY <1>1, <1>2, LeftIs DEF GoesOn
  <2> QED
    BY <1>2, <2>1 DEF Follows
<1>3. \A c \in Found(disk') : Signed(c) => c[Signature].over \in past'.signed
  BY DEF Traced
<1>4. CASE cmd.verb # "sign"
  BY <1>1, <1>3, <1>4 DEF SignedInv
<1>5. CASE cmd.verb = "sign"
  <2>1. Left(cmd') = 1
    BY <1>1, <1>2, <1>5
  <2>2. IsFolder(disk.folder) =>
          /\ Covered(disk.folder) \in past.views
          /\ Has(disk.folder, Manifest) /\ disk.folder[Manifest] # Torn => disk.folder[Manifest] \in past.views
    BY <1>2, <1>5 DEF SignedInv
  <2> QED
    BY <1>2, <1>3, <1>5, <2>1, <2>2 DEF SignedInv
<1> QED
  BY <1>4, <1>5

\* A change that went wrong, noticed or not, or was the last before a crash keeps the invariant: the
\* properties of success and failure say nothing of it, and Torn is no signature.
LEMMA FaultyKeeps ==
  ASSUME Inv, cmd # None, NEW d, Follows(d, past.signed),
         NEW how \in {"failed", "unnoticed", "crash"}, Faulty(d, how), UNCHANGED redirect
  PROVE  Inv'
<1>1. spent' \in [commands : 0..MaxCommands, troubles : 0..MaxTroubles]
  BY CommandLineConstants DEF Inv, Typed, Faulty
<1> DEFINE past2 == [past EXCEPT !.trouble = IF how = "unnoticed" THEN "silent" ELSE "told"]
<1>2. past' = IF how = "crash" THEN Unwatched ELSE past2
  BY DEF Faulty
<1>3. /\ past' = [before |-> past'.before, trouble |-> past'.trouble, edited |-> past'.edited,
                  views |-> past'.views, signed |-> past'.signed]
      /\ past'.signed = past.signed /\ past'.edited \in BOOLEAN
      /\ past'.trouble \in {"none", "told", "silent"}
      /\ how = "unnoticed" => past'.trouble = "silent" /\ past'.views = past.views
      /\ how = "failed" => past'.trouble = "told"
  BY <1>2 DEF Unwatched, Inv, Typed
<1>4. IsDisk(d) /\ Traced(d, past.signed) /\ (IsFolder(disk.folder) => IsFolder(d.folder))
  BY DEF Follows
<1>5. redirect' \in Views \union {None, Torn} /\ (redirect' # None => IsFolder(d.folder))
  BY <1>4 DEF Inv, Typed
<1>6. CASE how = "unnoticed"
  <2>1. disk' = d /\ Advance
    BY <1>6 DEF Faulty, Becomes
  <2>2. GoesOn \/ EndsHere
    BY <2>1, AdvanceIs DEF Inv
  <2>3. past'.trouble = "silent"
    BY <1>3, <1>6
  <2>4. CASE GoesOn
    <3>1. Typed'
      BY <1>1, <1>3, <1>4, <1>5, <2>1, <2>3, <2>4 DEF Typed, GoesOn
    <3>2. SignedInv'
      BY <1>3, <1>4, <1>6, <2>1, <2>4, SignedFollows DEF Inv
    <3>3. Making' /\ Taking' /\ SuccessDelivers' /\ FailureKeepsDocument' /\ VerifiedWasSigned'
      BY <2>3, <2>4 DEF GoesOn, Making, Taking, Undisturbed, SuccessDelivers, FailureKeepsDocument,
        VerifiedWasSigned, Finished
    <3> QED
      BY <3>1, <3>2, <3>3 DEF Inv
  <2>5. CASE EndsHere
    <3>1. Ends(0)
      BY <2>5 DEF EndsHere
    <3>2. Typed'
      BY <1>1, <1>3, <1>4, <1>5, <2>1, <3>1, EndsIs DEF Typed, Inv
    <3>3. SignedInv'
      BY <1>3, <1>4, <2>1, <3>1 DEF SignedInv, Traced, Ends
    <3>4. Making' /\ Taking' /\ SuccessDelivers' /\ FailureKeepsDocument' /\ VerifiedWasSigned'
      BY <2>3, <3>1, EndsIs DEF Making, Taking, SuccessDelivers, FailureKeepsDocument, Inv
    <3> QED
      BY <3>2, <3>3, <3>4 DEF Inv
  <2> QED
    BY <2>2, <2>4, <2>5
<1>7. CASE how = "failed"
  <2>1. disk' = Tidied(d) /\ Ends(1)
    BY <1>7 DEF Faulty, Becomes
  <2>2. IsDisk(disk') /\ Traced(disk', past.signed) /\ disk'.folder = d.folder
    BY <1>4, <2>1, TidiedIs
  <2>3. Typed'
    BY <1>1, <1>3, <1>5, <2>2, <2>1, EndsIs DEF Typed, Inv
  <2>4. SignedInv'
    BY <1>3, <2>2, <2>1 DEF SignedInv, Traced, Ends
  <2>5. Making' /\ Taking' /\ SuccessDelivers' /\ FailureKeepsDocument' /\ VerifiedWasSigned'
    BY <1>3, <1>7, <2>1, EndsIs DEF Making, Taking, SuccessDelivers, FailureKeepsDocument, Inv
  <2> QED
    BY <2>3, <2>4, <2>5 DEF Inv
<1>8. CASE how = "crash"
  <2>1. disk' = d /\ cmd' = None /\ last' = None
    BY <1>8 DEF Faulty, Becomes
  <2>2. Typed'
    BY <1>1, <1>3, <1>4, <1>5, <2>1 DEF Typed
  <2>3. SignedInv'
    BY <1>3, <1>4, <2>1 DEF SignedInv, Traced
  <2>4. Making' /\ Taking' /\ SuccessDelivers' /\ FailureKeepsDocument' /\ VerifiedWasSigned'
    BY <2>1 DEF Making, Taking, SuccessDelivers, FailureKeepsDocument, VerifiedWasSigned, Finished
  <2> QED
    BY <2>2, <2>3, <2>4 DEF Inv
<1> QED
  BY <1>6, <1>7, <1>8

\* What signed grows by with the step sign ends with.
Signs == IF cmd.verb = "sign" /\ Len(cmd.todo) = 1 THEN past.signed \union past.views ELSE past.signed

\* One that goes well keeps what does not depend on what it wrote.
LEMMA FaultlessKeeps ==
  ASSUME Inv, cmd # None, NEW d, Follows(d, Signs), Faultless(d), UNCHANGED redirect
  PROVE  /\ disk' = d /\ (GoesOn \/ EndsHere)
         /\ Typed' /\ SignedInv' /\ VerifiedWasSigned' /\ FailureKeepsDocument'
         /\ past'.before = past.before /\ Undisturbed' = Undisturbed
         /\ past'.trouble = past.trouble /\ past'.edited = past.edited
<1>1. disk' = d /\ Advance /\ spent' = spent
  BY DEF Faultless, Becomes
<1>2. GoesOn \/ EndsHere
  BY <1>1, AdvanceIs DEF Inv
<1>3. past' = IF cmd.verb = "sign" /\ Len(cmd.todo) = 1
              THEN [past EXCEPT !.signed = @ \union past.views] ELSE past
  BY DEF Faultless
<1>4. /\ past' = [before |-> past'.before, trouble |-> past'.trouble, edited |-> past'.edited,
                  views |-> past'.views, signed |-> past'.signed]
      /\ past'.signed = Signs /\ past'.edited = past.edited /\ past'.before = past.before
      /\ past'.trouble = past.trouble /\ past'.views = past.views
  BY <1>3 DEF Inv, Typed, Signs
<1>5. IsDisk(d) /\ Traced(d, past'.signed) /\ (IsFolder(disk.folder) => IsFolder(d.folder))
  BY <1>4 DEF Follows
<1>6. CASE GoesOn
  <2>1. Typed'
    BY <1>1, <1>4, <1>5, <1>6 DEF Typed, GoesOn, Inv
  <2>2. SignedInv'
    BY <1>1, <1>4, <1>5, <1>6, SignedFollows DEF Inv
  <2>3. VerifiedWasSigned' /\ FailureKeepsDocument'
    BY <1>6 DEF GoesOn, FailureKeepsDocument, VerifiedWasSigned, Finished
  <2> QED
    BY <1>1, <1>4, <1>6, <2>1, <2>2, <2>3 DEF Undisturbed
<1>7. CASE EndsHere
  <2>1. Ends(0)
    BY <1>7 DEF EndsHere
  <2>2. Typed'
    BY <1>1, <1>4, <1>5, <2>1, EndsIs DEF Typed, Inv
  <2>3. SignedInv'
    BY <1>1, <1>5, <2>1 DEF SignedInv, Traced, Ends
  <2>4. VerifiedWasSigned' /\ FailureKeepsDocument'
    BY <2>1, EndsIs DEF FailureKeepsDocument, Inv
  <2> QED
    BY <1>1, <1>4, <1>7, <2>2, <2>3, <2>4 DEF Undisturbed
<1> QED
  BY <1>2, <1>6, <1>7

\* One that fails of itself has written nothing that mattered.
LEMMA FailsKeeps ==
  ASSUME Inv, cmd # None, Undisturbed => Kept(disk, cmd, past.before), Fails, UNCHANGED redirect
  PROVE  Inv'
<1>1. disk' = Tidied(disk) /\ Ends(1) /\ UNCHANGED <<past, spent>>
  BY DEF Fails, Becomes
<1>2. /\ IsDisk(disk') /\ Traced(disk', past.signed) /\ disk'.folder = disk.folder
      /\ Emptied(disk') = Emptied(disk)
  <2>1. IsDisk(disk) /\ Traced(disk, past.signed)
    BY DEF Inv, Typed, SignedInv, Traced
  <2> QED
    BY <1>1, <2>1, TidiedIs
<1>3. Typed'
  BY <1>1, <1>2, EndsIs DEF Typed, Inv
<1>4. SignedInv'
  BY <1>1, <1>2 DEF SignedInv, Traced, Ends
<1>5. Making' /\ Taking' /\ SuccessDelivers' /\ VerifiedWasSigned'
  BY <1>1, EndsIs DEF Making, Taking, SuccessDelivers, Inv
<1>6. FailureKeepsDocument'
  BY <1>1, <1>2, EndsIs DEF FailureKeepsDocument, Kept, Undisturbed, Inv
<1> QED
  BY <1>3, <1>4, <1>5, <1>6 DEF Inv

-----------------------------------------------------------------------------
(* The commands that make a document.                                      *)

\* One that goes well is as far as it ought to be.
LEMMA MakerKeeps ==
  ASSUME Inv, cmd # None, cmd.verb \in Makers, NEW d, Follows(d, past.signed),
         Faultless(d), UNCHANGED redirect,
         Undisturbed => MadeAt(d, cmd, past.before, Left(cmd) - 1)
  PROVE  Inv'
<1>1. cmd.verb \notin Signers /\ cmd.verb # "unpack" /\ cmd.verb # "sign"
  BY DEF Makers, Importers, Signers
<1>2. Signs = past.signed
  BY <1>1 DEF Signs
<1>3. /\ disk' = d /\ (GoesOn \/ EndsHere)
      /\ Typed' /\ SignedInv' /\ VerifiedWasSigned' /\ FailureKeepsDocument'
      /\ past'.before = past.before /\ Undisturbed' = Undisturbed
      /\ past'.trouble = past.trouble /\ past'.edited = past.edited
  BY <1>2, FaultlessKeeps
<1>4. CASE GoesOn
  <2>1. /\ cmd'.verb = cmd.verb /\ cmd'.at = cmd.at /\ cmd'.text = cmd.text /\ cmd'.asset = cmd.asset
        /\ Left(cmd') = Left(cmd) - 1 /\ last' = None
    BY <1>1, <1>4 DEF GoesOn, Inv, Typed, IsCommand
  <2>2. MadeAt(d, cmd, past.before, Left(cmd) - 1) => MadeAt(disk', cmd', past'.before, Left(cmd'))
    BY <1>3, <2>1 DEF MadeAt, Kept
  <2>3. Making' /\ Taking' /\ SuccessDelivers'
    BY <1>1, <1>3, <2>1, <2>2 DEF Making, Taking, SuccessDelivers, Finished
  <2> QED
    BY <1>3, <2>3 DEF Inv
<1>5. CASE EndsHere
  <2>1. Left(cmd) = Shift(cmd) + 1 /\ Ends(0) /\ cmd.at \in {"folder", "staging"}
    BY <1>1, <1>5 DEF EndsHere, Inv, Typed, IsCommand
  <2>2. cmd.at = "folder" => Left(cmd) - 1 = 2
    BY <2>1 DEF Shift
  <2>3. cmd.at = "staging" => Left(cmd) - 1 = 0
    BY <2>1 DEF Shift
  <2>4. /\ last'.verb = cmd.verb /\ last'.at = cmd.at /\ last'.text = cmd.text /\ last'.asset = cmd.asset
    BY <2>1, EndsIs DEF Inv
  <2>5. ContentAt(cmd.verb) \in {6, 7, 8}
    BY DEF ContentAt, Makers, Importers
  <2>6. MadeAt(d, cmd, past.before, Left(cmd) - 1) => Delivered'
    <3> SUFFICES ASSUME MadeAt(d, cmd, past.before, Left(cmd) - 1) PROVE Delivered'
      OBVIOUS
    <3> DEFINE c == IF cmd.at = "staging" THEN d.archive.members ELSE d.folder
    <3>1. Holds(c, cmd.verb, cmd.text, cmd.asset, Left(cmd) - 1)
      BY <2>1, <2>2, <2>3 DEF MadeAt
    <3>2. ManifestOK(c) /\ c[Content] = last'.text /\ (last'.asset \in Pictures => c["assets/a"] = last'.asset)
      BY <2>1, <2>2, <2>3, <2>4, <2>5, <3>1 DEF Holds
    <3>3. CASE cmd.at = "folder"
      BY <1>1, <1>3, <2>4, <3>2, <3>3 DEF Delivered, MadeOf, Signers, Makers, Importers
    <3>4. CASE cmd.at = "staging"
      <4>1. d.staging = None /\ d.archive.readable /\ DOMAIN d.archive.members = MadeBy(cmd.verb, cmd.asset, 0)
        BY <2>3, <3>4 DEF MadeAt
      <4>2. Wanted' = MadeBy(cmd.verb, cmd.asset, 0)
        BY <2>4, <2>5 DEF Wanted, MadeBy
      <4>3. disk'.staging = None /\ disk'.archive.readable /\ DOMAIN disk'.archive.members = Wanted' /\ disk'.archive.members = c
        BY <1>3, <3>4, <4>1, <4>2
      <4>4. MadeOf(disk.archive.members)'
        BY <3>2, <4>3 DEF MadeOf
      <4>5. last'.at = "staging" /\ last'.verb \in Makers
        BY <2>4, <3>4
      <4> QED
        BY <4>3, <4>4, <4>5 DEF Delivered, Makers, Importers
    <3> QED
      BY <2>1, <3>3, <3>4
  <2>7. SuccessDelivers'
    BY <1>3, <2>6, <2>1, EndsIs DEF SuccessDelivers, Undisturbed, Inv, Typed
  <2>8. Making' /\ Taking'
    BY <2>1 DEF Making, Taking, Ends
  <2> QED
    BY <1>3, <2>7, <2>8 DEF Inv
<1> QED
  BY <1>3, <1>4, <1>5

\* What is known of a command that makes a document.
LEMMA MakerIs ==
  ASSUME Inv, cmd # None, cmd.verb \in Makers
  PROVE  /\ cmd.at \in {"folder", "staging"} /\ IsDisk(disk) /\ IsCommand(cmd)
         /\ cmd.verb \notin Signers /\ cmd.verb # "unpack" /\ cmd.verb # "sign"
         /\ Left(cmd) \in Nat /\ Does(cmd.verb, Left(cmd), cmd.todo[1])
         /\ Left(cmd) < EntryAt(cmd.verb) => IsFolder(disk[cmd.at])
         /\ Left(cmd) # EntryAt(cmd.verb) \/ cmd.verb = "create" => cmd.text \in Texts
         /\ cmd.asset \in Pictures \union {None, Missing}
         /\ Traced(disk, past.signed)
         /\ Undisturbed => MadeAt(disk, cmd, past.before, Left(cmd))
<1>1. cmd.verb \notin Signers /\ cmd.verb # "unpack" /\ cmd.verb # "sign"
  BY DEF Makers, Importers, Signers
<1>2. IsDisk(disk) /\ IsCommand(cmd) /\ Placed(disk, cmd)
  BY DEF Inv, Typed
<1>3. Left(cmd) \in Nat /\ Does(cmd.verb, Left(cmd), cmd.todo[1])
  BY <1>1, <1>2, LeftIs
<1>4. cmd.verb = "create" => cmd.verb \notin Importers
  BY DEF Importers
<1> QED
  BY <1>1, <1>2, <1>3, <1>4 DEF Inv, Making, SignedInv, Traced, IsCommand, Placed

\* The places of the scripts.
LEMMA EntryIs ==
  ASSUME NEW verb, verb \in Makers
  PROVE  /\ ContentAt(verb) \in {6, 7, 8} /\ EntryAt(verb) \in {6, 9, 10}
         /\ verb = "create" => ContentAt(verb) = 6 /\ EntryAt(verb) = 6
         /\ verb = "import-html" => ContentAt(verb) = 7 /\ EntryAt(verb) = 9
         /\ verb = "import-epub" => ContentAt(verb) = 8 /\ EntryAt(verb) = 10
         /\ verb \in Importers => EntryAt(verb) = ContentAt(verb) + 2
BY DEF ContentAt, EntryAt, Makers, Importers

\* The members a maker writes in the folder it makes.
LEMMA MakerPut ==
  ASSUME Inv, cmd # None, cmd.verb \in Makers, cmd.text \in Texts, IsFolder(disk[cmd.at]),
         NEW n \in Names \ {Signature}, NEW v \in Bytes(n),
         NEW d, d = [disk EXCEPT ![cmd.at] = Put(@, n, v)]
  PROVE  /\ Follows(d, past.signed) /\ IsContainer(disk[cmd.at])
         /\ d[cmd.at] = Put(disk[cmd.at], n, v)
         /\ cmd.at = "staging" => Emptied(d) = Emptied(disk) /\ d.archive = disk.archive
<1> DEFINE c == disk[cmd.at]
           e == Put(c, n, v)
<1>1. cmd.at \in {"folder", "staging"} /\ IsDisk(disk) /\ Traced(disk, past.signed)
  BY MakerIs
<1>2. IsContainer(c)
  BY <1>1 DEF IsDisk, IsFolder
<1>3. IsContainer(e)
  BY <1>2, PutTyped
<1>4. IsFolder(e)
  BY <1>3, ContainerIs DEF IsFolder
<1>5. Signed(e) => Signed(c) /\ e[Signature] = c[Signature]
  BY DEF Signed, Put, Has
<1> HIDE DEF e
<1>6. ChangedTo(disk, d, cmd.at, e)
  <2>1. d = [disk EXCEPT ![cmd.at] = e]
    BY DEF e
  <2>2. cmd.at \in {"folder", "staging", "archive", "key", "page"} /\ IsDisk(disk)
    BY <1>1
  <2> QED
    BY <2>1, <2>2, ExceptIs, Zenon
<1>7. d[cmd.at] = e
  BY <1>1, <1>6 DEF ChangedTo
<1>8. IsDisk(d)
  BY <1>1, <1>3, <1>6 DEF IsDisk, ChangedTo
<1>9. Traced(d, past.signed)
  <2>1. Found(d) \subseteq Found(disk) \union {e}
    BY <1>1, <1>6 DEF Found, ChangedTo
  <2>2. c \in Found(disk)
    BY <1>1, <1>2, ContainerIs DEF Found
  <2> QED
    BY <1>1, <1>5, <2>1, <2>2 DEF Traced
<1>10. IsFolder(disk.folder) => IsFolder(d.folder)
  BY <1>1, <1>4, <1>6 DEF ChangedTo
<1>11. Follows(d, past.signed)
  BY <1>4, <1>7, <1>8, <1>9, <1>10, MakerIs DEF Follows
<1>12. cmd.at = "staging" => Emptied(d) = Emptied(disk) /\ d.archive = disk.archive
  <2> SUFFICES ASSUME cmd.at = "staging" PROVE Emptied(d) = Emptied(disk) /\ d.archive = disk.archive
    OBVIOUS
  <2> QED
    BY <1>1, <1>6 DEF Emptied, ChangedTo, IsDisk
<1> QED
  BY <1>2, <1>7, <1>11, <1>12 DEF e

\* A step that writes nothing.
LEMMA MakerSame ==
  ASSUME Inv, cmd # None, cmd.verb \in Makers, cmd.text \in Texts, IsFolder(disk[cmd.at])
  PROVE  Follows(disk, past.signed)
BY MakerIs DEF Follows

Written == {Content, "metadata.yaml", Manifest, "schema.yaml", "audit.log"}

\* A member that is written is made one step later.
LEMMA MadeByStep ==
  ASSUME NEW verb, verb \in Makers, NEW asset, NEW k, k \in Nat, NEW n, n \in Written, Does(verb, k, n)
  PROVE  MadeBy(verb, asset, k - 1) = MadeBy(verb, asset, k) \union {n}
<1> DEFINE a == ContentAt(verb)
<1>1. /\ a \in {6, 7, 8} /\ (verb = "import-epub" <=> a = 8)
  BY EntryIs DEF Makers, Importers
<1>2. \/ n = Content /\ k = a
      \/ n = "metadata.yaml" /\ k = a - 1
      \/ n = Manifest /\ (k = 4 \/ k = a - 2)
      \/ n = "schema.yaml" /\ k = 5 /\ a = 8
      \/ n = "audit.log" /\ k = 3
  BY <1>1 DEF Does, Written, Content, Manifest
<1> HIDE DEF a
<1>3. \A i \in Int : MadeBy(verb, asset, i) =
        (IF asset \in Pictures /\ i <= a THEN {"assets/a"} ELSE {})
        \union (IF i < a THEN {Content} ELSE {})
        \union (IF i < a - 1 THEN {"metadata.yaml"} ELSE {})
        \union (IF i < a - 2 THEN {Manifest} ELSE {})
        \union (IF a = 8 /\ i < 5 THEN {"schema.yaml"} ELSE {})
        \union (IF i < 3 THEN {"audit.log"} ELSE {})
  BY <1>1 DEF MadeBy, a
<1>4. k \in Int /\ k - 1 \in Int
  OBVIOUS
<1>5. CASE a = 6
  BY <1>2, <1>3, <1>4, <1>5
<1>6. CASE a = 7
  BY <1>2, <1>3, <1>4, <1>6
<1>7. CASE a = 8
  BY <1>2, <1>3, <1>4, <1>7
<1> QED
  BY <1>1, <1>5, <1>6, <1>7

\* What a document holds stays as it is while the next member is written.
LEMMA HoldsStep ==
  ASSUME NEW verb, verb \in Makers, NEW asset, NEW text, NEW k \in Nat, NEW n \in Written, Does(verb, k, n),
         NEW c, Holds(c, verb, text, asset, k), NEW v, n = Content => v = text, n = Manifest => v = Covered(c)
  PROVE  Holds(Put(c, n, v), verb, text, asset, k - 1)
<1> DEFINE a == ContentAt(verb)
           e == Put(c, n, v)
<1>1. /\ a \in {6, 7, 8} /\ (verb = "import-epub" <=> a = 8)
  BY EntryIs DEF Makers, Importers
<1>2. \/ n = Content /\ k = a
      \/ n = "metadata.yaml" /\ k = a - 1
      \/ n = Manifest /\ (k = 4 \/ k = a - 2)
      \/ n = "schema.yaml" /\ k = 5 /\ a = 8
      \/ n = "audit.log" /\ k = 3
  BY <1>1 DEF Does, Written, Content, Manifest
<1> HIDE DEF a
<1>3. k - 1 < a => Has(e, Content) /\ e[Content] = text
  BY <1>1, <1>2 DEF Holds, Put, Has, Content, Manifest, a
<1>4. k - 1 <= a /\ asset \in Pictures => Has(e, "assets/a") /\ e["assets/a"] = asset
  BY <1>1, <1>2 DEF Holds, Put, Has, Content, Manifest, a
<1>5. k - 1 < 4 => ManifestOK(e)
  <2>1. k - 1 < 4 => n \in Excluded /\ (n = Manifest \/ (n = "audit.log" /\ ManifestOK(c)))
    BY <1>1, <1>2 DEF Holds, Excluded
  <2>2. n \in Excluded => Covered(e) = Covered(c)
    BY PutBeside
  <2>3. n = Manifest => Has(e, Manifest) /\ e[Manifest] = Covered(c)
    BY DEF Put, Has
  <2>4. n = "audit.log" /\ ManifestOK(c) => Has(e, Manifest) /\ e[Manifest] = Covered(c)
    BY DEF Put, Has, ManifestOK, Manifest
  <2> QED
    BY <2>1, <2>2, <2>3, <2>4 DEF ManifestOK
<1> QED
  BY <1>3, <1>4, <1>5 DEF Holds, a

\* The names a document's members have.
LEMMA NamesIs ==
  /\ Written \subseteq Names \ {Signature} /\ "assets/a" \in Names \ {Signature} /\ Signature \in Names
  /\ Content \in Names \ Excluded /\ "assets/a" \in Names \ Excluded
BY DEF Written, Names, Order, ToSet, Content, Manifest, Signature, Excluded

\* What may be written to them.
LEMMA BytesIs ==
  /\ \A n \in Names : Torn \in Bytes(n)
  /\ \A n \in {Content, "metadata.yaml", "schema.yaml"}, t \in Texts : t \in Bytes(n)
  /\ \A a \in Pictures : a \in Bytes("assets/a")
  /\ \A w \in Views : w \in Bytes(Manifest)
  /\ \A i \in Nat : i \in Bytes("audit.log")
  /\ \A w \in Views : [over |-> w] \in Bytes(Signature)
<1>1. /\ Bytes(Manifest) = Views \union {Torn}
      /\ Bytes(Signature) = [over : Views] \union {Torn}
      /\ Bytes("audit.log") = Nat \union {Torn}
  BY DEF Bytes, Manifest, Signature, Excluded
<1>2. \A n : n \notin Excluded => Bytes(n) = Values
  BY DEF Bytes, Manifest, Signature, Excluded
<1>3. \A n : Torn \in Bytes(n)
  BY <1>1, <1>2 DEF Excluded, Values
<1>4. {Content, "metadata.yaml", "schema.yaml", "assets/a"} \intersect Excluded = {}
  BY DEF Content, Manifest, Signature, Excluded
<1> QED
  BY <1>1, <1>2, <1>3, <1>4 DEF Values

\* What a maker writes is what it ought to have next.
LEMMA MakerWrites ==
  ASSUME Inv, cmd # None, cmd.verb \in Makers, IsFolder(disk[cmd.at]), cmd.text \in Texts,
         NEW n \in Written, Does(cmd.verb, Left(cmd), n),
         NEW v, n = Content => v = cmd.text, n = Manifest => v = Covered(disk[cmd.at]), v \in Bytes(n),
         NEW d, d = [disk EXCEPT ![cmd.at] = Put(@, n, v)]
  PROVE  /\ Follows(d, past.signed)
         /\ Undisturbed => MadeAt(d, cmd, past.before, Left(cmd) - 1)
<1> DEFINE c == disk[cmd.at]
           k == Left(cmd)
<1>1. /\ Follows(d, past.signed) /\ d[cmd.at] = Put(c, n, v) /\ cmd.at \in {"folder", "staging"}
      /\ cmd.at = "staging" => Emptied(d) = Emptied(disk)
  <2>1. n \in Names \ {Signature}
    BY NamesIs
  <2> QED
    BY <2>1, MakerIs, MakerPut
<1>2. k \in Nat /\ 3 <= k /\ k <= ContentAt(cmd.verb)
  <2>1. k \in Nat /\ ContentAt(cmd.verb) \in {6, 7, 8} /\ (cmd.verb = "import-epub" => ContentAt(cmd.verb) = 8)
    BY MakerIs, EntryIs
  <2>2. Does(cmd.verb, k, n)
    OBVIOUS
  <2> HIDE DEF k
  <2>3. \/ n = Content /\ k = ContentAt(cmd.verb)
        \/ n = "metadata.yaml" /\ k = ContentAt(cmd.verb) - 1
        \/ n = Manifest /\ (k = 4 \/ k = ContentAt(cmd.verb) - 2)
        \/ n = "schema.yaml" /\ k = 5 /\ cmd.verb = "import-epub"
        \/ n = "audit.log" /\ k = 3
    BY <2>2 DEF Does, Written, Content, Manifest
  <2> QED
    BY <2>1, <2>3
<1>3. Does(cmd.verb, k, n)
  OBVIOUS
<1> HIDE DEF k
<1>4. ASSUME Undisturbed
      PROVE  MadeAt(d, cmd, past.before, k - 1)
  <2>1. MadeAt(disk, cmd, past.before, k)
    BY <1>4, MakerIs DEF k
  <2>2. Holds(c, cmd.verb, cmd.text, cmd.asset, k)
    BY <1>1, <1>2, <2>1 DEF MadeAt
  <2>3. Holds(Put(c, n, v), cmd.verb, cmd.text, cmd.asset, k - 1)
    BY <1>2, <1>3, <2>2, HoldsStep
  <2>4. ~(k - 1 >= ContentAt(cmd.verb)) /\ k - 1 > 1
    <3>1. ContentAt(cmd.verb) \in {6, 7, 8}
      BY EntryIs
    <3> QED
      BY <1>2, <3>1
  <2>5. cmd.at = "staging" => /\ DOMAIN d.staging = MadeBy(cmd.verb, cmd.asset, k - 1)
                              /\ Emptied(d) = Emptied(past.before)
    <3> SUFFICES ASSUME cmd.at = "staging" PROVE /\ DOMAIN d.staging = MadeBy(cmd.verb, cmd.asset, k - 1)
                                                 /\ Emptied(d) = Emptied(past.before)
      OBVIOUS
    <3>1. DOMAIN disk.staging = MadeBy(cmd.verb, cmd.asset, k) /\ Emptied(disk) = Emptied(past.before)
      BY <1>2, <2>1 DEF MadeAt
    <3>2. MadeBy(cmd.verb, cmd.asset, k - 1) = MadeBy(cmd.verb, cmd.asset, k) \union {n}
      <4>1. k \in Nat /\ n \in Written /\ cmd.verb \in Makers /\ Does(cmd.verb, k, n)
        BY <1>2, <1>3
      <4> QED
        BY <4>1, MadeByStep
    <3>3. DOMAIN d.staging = DOMAIN disk.staging \union {n}
      BY <1>1 DEF Put
    <3> QED
      BY <1>1, <3>1, <3>2, <3>3
  <2> QED
    BY <1>1, <2>3, <2>4, <2>5 DEF MadeAt
<1> QED
  BY <1>1, <1>4 DEF k

\* Writing a member of a document, well or not.
LEMMA MakerMember ==
  ASSUME Inv, cmd # None, cmd.verb \in Makers, IsFolder(disk[cmd.at]), cmd.text \in Texts,
         NEW n \in Written, Does(cmd.verb, Left(cmd), n),
         NEW v, n = Content => v = cmd.text, n = Manifest => v = Covered(disk[cmd.at]), v \in Bytes(n),
         WriteMember(n, v), UNCHANGED redirect
  PROVE  Inv'
<1> DEFINE holding(x) == [disk EXCEPT ![cmd.at] = Put(@, n, x)]
<1>1. \/ Faultless(holding(v))
      \/ Faulty(disk, "failed")
      \/ \E how \in {"failed", "unnoticed", "crash"} : Faulty(holding(Torn), how)
  BY DEF WriteMember
<1>2. CASE Faultless(holding(v))
  <2> DEFINE d == holding(v)
  <2>1. Follows(d, past.signed) /\ (Undisturbed => MadeAt(d, cmd, past.before, Left(cmd) - 1))
    BY MakerWrites
  <2> HIDE DEF d
  <2>2. Faultless(d)
    BY <1>2 DEF d
  <2> QED
    BY <2>1, <2>2, MakerKeeps
<1>3. CASE Faulty(disk, "failed")
  BY <1>3, MakerSame, FaultyKeeps
<1>4. CASE \E how \in {"failed", "unnoticed", "crash"} : Faulty(holding(Torn), how)
  <2> DEFINE d == holding(Torn)
  <2>1. Follows(d, past.signed)
    <3>1. n \in Names \ {Signature} /\ Torn \in Bytes(n)
      BY NamesIs, BytesIs
    <3> QED
      BY <3>1, MakerPut
  <2> HIDE DEF d
  <2>2. PICK how \in {"failed", "unnoticed", "crash"} : Faulty(d, how)
    BY <1>4 DEF d
  <2> QED
    BY <2>1, <2>2, FaultyKeeps
<1> QED
  BY <1>1, <1>2, <1>3, <1>4

\* Each step of a command keeps the invariant: first those that make a document.
LEMMA WriteContentKeeps ==
  ASSUME Inv, WriteContent
  PROVE  Inv'
<1>1. cmd # None /\ cmd.todo[1] = Content /\ cmd.verb # "unpack" /\ UNCHANGED redirect
  BY DEF WriteContent, Step
<1>2. IsCommand(cmd)
  BY <1>1 DEF Inv, Typed
<1>3. Does(cmd.verb, Left(cmd), Content)
  BY <1>1, <1>2, LeftIs
<1>4. cmd.verb \in Makers /\ Left(cmd) = ContentAt(cmd.verb)
  BY <1>3 DEF Does, Content, Manifest
<1>5. cmd.text \in Texts
  BY <1>1, <1>4, EntryIs, MakerIs DEF Makers
<1>6. CASE ~IsFolder(Target) \/ Has(Target, Content)
  <2>1. Fails
    BY <1>6 DEF WriteContent
  <2>2. ASSUME Undisturbed PROVE Kept(disk, cmd, past.before)
    <3>1. MadeAt(disk, cmd, past.before, Left(cmd))
      BY <1>1, <1>4, <2>2, MakerIs
    <3>2. CASE cmd.at = "staging"
      <4>1. Left(cmd) > 1
        BY <1>4, EntryIs
      <4> QED
        BY <3>1, <3>2, <4>1 DEF MadeAt, Kept
    <3>3. CASE cmd.at = "folder" /\ cmd.verb \in Importers
      <4>1. Left(cmd) < EntryAt(cmd.verb) /\ Left(cmd) >= ContentAt(cmd.verb)
        BY <1>4, <3>3, EntryIs
      <4>2. IsFolder(Target) /\ ~Has(Target, Content)
        BY <1>1, <1>4, <3>1, <3>3, <4>1, MakerIs DEF MadeAt, Target
      <4> QED
        BY <1>6, <4>2
    <3>4. CASE cmd.at = "folder" /\ cmd.verb \notin Importers
      <4>1. Left(cmd) >= ContentAt(cmd.verb)
        BY <1>4, EntryIs
      <4> QED
        BY <3>1, <3>4, <4>1 DEF MadeAt
    <3> QED
      BY <1>1, <1>4, <3>2, <3>3, <3>4, MakerIs
  <2> QED
    BY <1>1, <2>1, <2>2, FailsKeeps
<1>7. CASE IsFolder(Target) /\ ~Has(Target, Content)
  <2>1. WriteMember(Content, cmd.text)
    BY <1>7 DEF WriteContent
  <2>2. cmd.text \in Bytes(Content) /\ Content \in Written /\ Content # Manifest
    BY <1>5, BytesIs DEF Written, Content, Manifest
  <2> QED
    BY <1>1, <1>3, <1>4, <1>5, <1>7, <2>1, <2>2, MakerMember DEF Target
<1> QED
  BY <1>6, <1>7

\* Metadata, schema and manifest are written over whatever an editor left; only an undisturbed one counts.
LEMMA WriteDerivedKeeps ==
  ASSUME Inv, WriteDerived
  PROVE  Inv'
<1>1. cmd # None /\ cmd.verb # "unpack" /\ UNCHANGED redirect
  BY DEF WriteDerived, Step
<1>2. PICK n \in {"metadata.yaml", "schema.yaml", Manifest} :
        /\ cmd.todo[1] = n
        /\ \/ n # Manifest /\ WriteMember(n, cmd.text)
           \/ n = Manifest /\ WriteMember(n, Covered(disk[cmd.at]))
  <2>1. CASE \E n \in {"metadata.yaml", "schema.yaml"} : Step(n) /\ WriteMember(n, cmd.text)
    BY <2>1 DEF Step, Manifest
  <2>2. CASE Step(Manifest) /\ WriteMember(Manifest, Covered(Target))
    BY <2>2 DEF Step, Target
  <2> QED
    BY <2>1, <2>2 DEF WriteDerived
<1>3. IsCommand(cmd)
  BY <1>1 DEF Inv, Typed
<1>4. Does(cmd.verb, Left(cmd), n)
  BY <1>1, <1>2, <1>3, LeftIs
<1>5. /\ cmd.verb \in Makers
      /\ \/ n = "metadata.yaml" /\ Left(cmd) = ContentAt(cmd.verb) - 1
         \/ n = Manifest /\ (Left(cmd) = 4 \/ Left(cmd) = ContentAt(cmd.verb) - 2)
         \/ n = "schema.yaml" /\ Left(cmd) = 5 /\ cmd.verb = "import-epub"
  BY <1>2, <1>4 DEF Does, Content, Manifest, Makers, Importers
<1>6. Left(cmd) < EntryAt(cmd.verb)
  <2>1. /\ ContentAt(cmd.verb) \in {6, 7, 8} /\ EntryAt(cmd.verb) \in {6, 9, 10}
        /\ cmd.verb = "create" => ContentAt(cmd.verb) = 6 /\ EntryAt(cmd.verb) = 6
        /\ cmd.verb \in Importers => EntryAt(cmd.verb) = ContentAt(cmd.verb) + 2
    BY <1>5, EntryIs
  <2> QED
    BY <1>5, <2>1 DEF Makers, Importers
<1>7. IsFolder(disk[cmd.at]) /\ cmd.text \in Texts
  BY <1>1, <1>5, <1>6, MakerIs, EntryIs
<1>8. n \in Written /\ n # Content
  BY <1>2 DEF Written, Content, Manifest
<1>9. CASE n # Manifest
  <2>1. cmd.text \in Bytes(n) /\ WriteMember(n, cmd.text)
    BY <1>2, <1>7, <1>9, BytesIs
  <2> QED
    BY <1>1, <1>4, <1>5, <1>7, <1>8, <1>9, <2>1, MakerMember
<1>10. CASE n = Manifest
  <2> DEFINE v == Covered(disk[cmd.at])
  <2>1. v \in Bytes(n) /\ WriteMember(n, v)
    <3>1. IsContainer(disk[cmd.at])
      BY <1>1, <1>5, <1>7, MakerIs DEF IsDisk, IsFolder
    <3> QED
      BY <1>2, <1>10, <3>1, ContainerIs, BytesIs
  <2> QED
    BY <1>1, <1>4, <1>5, <1>7, <1>8, <1>10, <2>1, MakerMember
<1> QED
  BY <1>9, <1>10

\* The audit log is beside what the manifest covers, so the manifest stays right.
LEMMA AppendAuditKeeps ==
  ASSUME Inv, AppendAudit
  PROVE  Inv'
<1> DEFINE log == IF Has(Target, "audit.log") THEN Target["audit.log"] ELSE 0
           holding(x) == [disk EXCEPT ![cmd.at] = Put(@, "audit.log", x)]
<1>1. cmd # None /\ cmd.todo[1] = "audit.log" /\ cmd.verb # "unpack" /\ UNCHANGED redirect
  BY DEF AppendAudit, Step
<1>2. IsCommand(cmd)
  BY <1>1 DEF Inv, Typed
<1>3. Does(cmd.verb, Left(cmd), "audit.log")
  BY <1>1, <1>2, LeftIs
<1>4. cmd.verb \in Makers /\ Left(cmd) = 3
  BY <1>3 DEF Does, Content, Manifest
<1>5. cmd.text \in Texts /\ IsFolder(disk[cmd.at])
  <2>1. Left(cmd) < EntryAt(cmd.verb)
    BY <1>4, EntryIs
  <2> QED
    BY <1>1, <1>4, <2>1, MakerIs
<1>6. IsContainer(disk[cmd.at])
  BY <1>1, <1>4, <1>5, MakerIs DEF IsDisk, IsFolder
<1>7. "audit.log" \in Written /\ "audit.log" \notin {Content, Manifest} /\ "audit.log" \in Names \ {Signature}
  BY NamesIs DEF Written, Content, Manifest
<1>8. log \in Nat \union {Torn}
  BY <1>6, ContainerIs DEF Target
<1>9. Follows(disk, past.signed)
  BY <1>1, <1>4, <1>5, MakerSame
<1>10. CASE log = Torn
  <2>1. Faultless(disk)
    BY <1>10 DEF AppendAudit
  <2>2. ASSUME Undisturbed PROVE MadeAt(disk, cmd, past.before, Left(cmd) - 1)
    <3>1. MadeAt(disk, cmd, past.before, 3)
      BY <1>1, <1>4, <2>2, MakerIs
    <3>2. ContentAt(cmd.verb) \in {6, 7, 8} /\ cmd.at \in {"folder", "staging"}
      BY <1>1, <1>4, EntryIs, MakerIs
    <3>3. Has(Target, "audit.log")
      BY <1>10, CommandLineConstants
    <3>4. cmd.at = "folder"
      <4>1. "audit.log" \notin MadeBy(cmd.verb, cmd.asset, 3)
        BY DEF MadeBy, Content, Manifest
      <4>2. cmd.at = "staging" => DOMAIN disk.staging = MadeBy(cmd.verb, cmd.asset, 3)
        BY <3>1 DEF MadeAt
      <4> QED
        BY <3>2, <3>3, <4>1, <4>2 DEF Has, Target
    <3>5. Holds(disk[cmd.at], cmd.verb, cmd.text, cmd.asset, 3)
      BY <3>1, <3>4 DEF MadeAt
    <3>6. Holds(disk[cmd.at], cmd.verb, cmd.text, cmd.asset, 2)
      BY <3>2, <3>5 DEF Holds
    <3>7. MadeAt(disk, cmd, past.before, 2)
      BY <3>2, <3>4, <3>6 DEF MadeAt
    <3> QED
      BY <1>4, <3>7
  <2> QED
    BY <1>1, <1>4, <1>9, <2>1, <2>2, MakerKeeps
<1>11. CASE log # Torn
  <2>1. \/ Faultless(holding(log + 1))
        \/ Faulty(disk, "unnoticed")
        \/ \E how \in {"unnoticed", "crash"} : Faulty(holding(Torn), how)
    BY <1>11 DEF AppendAudit
  <2>2. CASE Faultless(holding(log + 1))
    <3> DEFINE d == holding(log + 1)
    <3>1. log + 1 \in Bytes("audit.log")
      BY <1>8, <1>11, BytesIs
    <3> HIDE DEF log
    <3>2. Follows(d, past.signed) /\ (Undisturbed => MadeAt(d, cmd, past.before, Left(cmd) - 1))
      BY <1>1, <1>3, <1>4, <1>5, <1>7, <3>1, MakerWrites
    <3> HIDE DEF d
    <3>3. Faultless(d)
      BY <2>2 DEF d
    <3> QED
      BY <1>1, <1>4, <3>2, <3>3, MakerKeeps
  <2>3. CASE Faulty(disk, "unnoticed")
    BY <1>1, <1>9, <2>3, FaultyKeeps
  <2>4. CASE \E how \in {"unnoticed", "crash"} : Faulty(holding(Torn), how)
    <3> DEFINE d == holding(Torn)
    <3>1. Follows(d, past.signed)
      <4>1. Torn \in Bytes("audit.log")
        BY <1>7, BytesIs
      <4> QED
        BY <1>1, <1>4, <1>5, <1>7, <4>1, MakerPut
    <3> HIDE DEF d
    <3>2. PICK how \in {"unnoticed", "crash"} : Faulty(d, how)
      BY <2>4 DEF d
    <3> QED
      BY <1>1, <3>1, <3>2, FaultyKeeps
  <2> QED
    BY <2>1, <2>2, <2>3, <2>4
<1> QED
  BY <1>10, <1>11

\* A step that is not a member's is a scripted one.
LEMMA ScriptedStep ==
  ASSUME Inv, NEW name, name \notin Names \union {"unarchive"}, Step(name)
  PROVE  /\ cmd # None /\ cmd.verb # "unpack" /\ UNCHANGED redirect
         /\ IsCommand(cmd) /\ Does(cmd.verb, Left(cmd), name)
<1>1. cmd # None /\ cmd.todo[1] = name /\ UNCHANGED redirect
  BY DEF Step
<1>2. IsCommand(cmd) /\ Placed(disk, cmd)
  BY <1>1 DEF Inv, Typed
<1>3. cmd.verb # "unpack"
  <2>1. CASE cmd.verb = "unpack"
    <3>1. \/ cmd.todo = <<"unarchive">>
          \/ cmd.todo \in Seq(Names) /\ cmd.todo # << >>
      BY <1>2, <2>1 DEF Placed
    <3>2. cmd.todo[1] \in Names \union {"unarchive"}
      BY <3>1
    <3> QED
      BY <1>1, <3>2
  <2> QED
    BY <2>1
<1> QED
  BY <1>1, <1>2, <1>3, LeftIs

\* create --assets may write before it fails, which is why Kept excepts it.
LEMMA CopyAssetsKeeps ==
  ASSUME Inv, CopyAssets
  PROVE  Inv'
<1> DEFINE holding(x) == [disk EXCEPT ![cmd.at] = Put(@, "assets/a", x)]
           k == Left(cmd)
<1>1. /\ cmd # None /\ cmd.verb # "unpack" /\ UNCHANGED redirect
      /\ IsCommand(cmd) /\ Does(cmd.verb, k, "assets")
  <2>1. "assets" \notin Names \union {"unarchive"}
    BY DEF Names, Order, ToSet
  <2> QED
    BY <2>1, ScriptedStep DEF CopyAssets
<1>2. cmd.verb = "create" /\ k = 7 /\ cmd.verb \in Makers /\ ContentAt(cmd.verb) = 6 /\ cmd.verb \notin Importers
  <2>1. cmd.verb = "create" /\ k = 7
    BY <1>1 DEF Does, Content, Manifest
  <2> QED
    BY <2>1, EntryIs DEF Makers, Importers
<1>3. cmd.text \in Texts /\ cmd.asset # None /\ cmd.at \in {"folder", "staging"}
  BY <1>1, <1>2 DEF IsCommand
<1>4. Undisturbed => MadeAt(disk, cmd, past.before, 7)
  BY <1>1, <1>2, MakerIs
<1>5. CASE ~IsFolder(Target) \/ cmd.asset = Missing
  <2>1. Fails
    BY <1>5 DEF CopyAssets
  <2>2. Undisturbed => Kept(disk, cmd, past.before)
    BY <1>2, <1>3, <1>4 DEF MadeAt, Kept
  <2> QED
    BY <1>1, <2>1, <2>2, FailsKeeps
<1>6. CASE IsFolder(Target) /\ cmd.asset # Missing
  <2>1. \/ Faultless(holding(cmd.asset))
        \/ Faulty(disk, "failed")
        \/ \E how \in {"failed", "crash"} : Faulty(holding(Torn), how)
    BY <1>6 DEF CopyAssets
  <2>2. cmd.asset \in Pictures /\ IsFolder(disk[cmd.at])
    BY <1>1, <1>2, <1>3, <1>6, MakerIs DEF Target
  <2>3. "assets/a" \in Names \ {Signature} /\ cmd.asset \in Bytes("assets/a") /\ Torn \in Bytes("assets/a")
    BY <2>2, NamesIs, BytesIs
  <2>4. CASE Faultless(holding(cmd.asset))
    <3> DEFINE d == holding(cmd.asset)
    <3>1. /\ Follows(d, past.signed)
          /\ d[cmd.at] = Put(disk[cmd.at], "assets/a", cmd.asset)
          /\ cmd.at = "staging" => Emptied(d) = Emptied(disk)
      BY <1>1, <1>2, <1>3, <2>2, <2>3, MakerPut
    <3> HIDE DEF d
    <3>2. Undisturbed => MadeAt(d, cmd, past.before, 6)
      <4>1. Holds(d[cmd.at], cmd.verb, cmd.text, cmd.asset, 6)
        BY <1>2, <3>1 DEF Holds, Put, Has
      <4>2. cmd.at = "folder" => Kept(d, cmd, past.before)
        BY <1>2, <2>2 DEF Kept
      <4>3. Undisturbed /\ cmd.at = "staging" =>
              DOMAIN d.staging = MadeBy(cmd.verb, cmd.asset, 6) /\ Emptied(d) = Emptied(past.before)
        <5>1. MadeBy(cmd.verb, cmd.asset, 7) = {} /\ MadeBy(cmd.verb, cmd.asset, 6) = {"assets/a"}
          BY <1>2, <2>2 DEF MadeBy
        <5> QED
          BY <1>4, <3>1, <5>1 DEF MadeAt, Put
      <4> QED
        BY <1>2, <1>3, <4>1, <4>2, <4>3 DEF MadeAt
    <3>3. Faultless(d) /\ Left(cmd) - 1 = 6
      BY <1>2, <2>4 DEF d
    <3> QED
      BY <1>1, <1>2, <3>1, <3>2, <3>3, MakerKeeps
  <2>5. CASE Faulty(disk, "failed")
    <3>1. Follows(disk, past.signed)
      BY <1>1, <1>2, <1>3, <2>2, MakerSame
    <3> QED
      BY <1>1, <2>5, <3>1, FaultyKeeps
  <2>6. CASE \E how \in {"failed", "crash"} : Faulty(holding(Torn), how)
    <3> DEFINE d == holding(Torn)
    <3>1. Follows(d, past.signed)
      BY <1>1, <1>2, <1>3, <2>2, <2>3, MakerPut
    <3> HIDE DEF d
    <3>2. PICK how \in {"failed", "crash"} : Faulty(d, how)
      BY <2>6 DEF d
    <3> QED
      BY <1>1, <3>1, <3>2, FaultyKeeps
  <2> QED
    BY <2>1, <2>4, <2>5, <2>6
<1> QED
  BY <1>5, <1>6

\* The importers look for a document before they write, so that failing here leaves it.
LEMMA ConvertKeeps ==
  ASSUME Inv, Convert
  PROVE  Inv'
<1> DEFINE k == Left(cmd)
           a == ContentAt(cmd.verb)
<1>1. /\ cmd # None /\ cmd.verb # "unpack" /\ UNCHANGED redirect
      /\ IsCommand(cmd) /\ Does(cmd.verb, k, "convert")
  <2>1. "convert" \notin Names \union {"unarchive"}
    BY DEF Names, Order, ToSet
  <2> QED
    BY <2>1, ScriptedStep DEF Convert
<1>2. /\ cmd.verb \in Importers /\ cmd.verb \in Makers /\ cmd.verb # "create"
      /\ a \in {7, 8} /\ k = a + 2 /\ EntryAt(cmd.verb) = a + 2
  <2>1. cmd.verb \in Importers /\ k = EntryAt(cmd.verb)
    BY <1>1 DEF Does, Content, Manifest
  <2>2. cmd.verb \in Makers /\ cmd.verb # "create"
    BY <2>1 DEF Makers, Importers
  <2>3. a \in {7, 8}
    BY <2>1, EntryIs DEF Makers, Importers
  <2> QED
    BY <2>1, <2>2, <2>3, EntryIs
<1> HIDE DEF a
<1>3. cmd.at \in {"folder", "staging"}
  BY <1>1, <1>2 DEF IsCommand
<1>4. Undisturbed => MadeAt(disk, cmd, past.before, a + 2)
  BY <1>1, <1>2, MakerIs
<1>5. CASE ~IsFolder(Target) \/ Has(Target, Content) \/ cmd.text = None
  <2>1. Fails
    BY <1>5 DEF Convert
  <2>2. Undisturbed => Kept(disk, cmd, past.before)
    BY <1>2, <1>3, <1>4 DEF MadeAt, Kept, a
  <2> QED
    BY <1>1, <2>1, <2>2, FailsKeeps
<1>6. CASE IsFolder(Target) /\ ~Has(Target, Content) /\ cmd.text # None
  <2>1. Faultless(disk)
    BY <1>6 DEF Convert
  <2>2. cmd.text \in Texts /\ IsFolder(disk[cmd.at])
    BY <1>1, <1>2, <1>6 DEF IsCommand, Target
  <2>3. Follows(disk, past.signed)
    BY <1>1, <1>2, <2>2, MakerSame
  <2>4. Undisturbed => MadeAt(disk, cmd, past.before, a + 1)
    <3>1. Holds(disk[cmd.at], cmd.verb, cmd.text, cmd.asset, a + 1)
      BY <1>2 DEF Holds, a
    <3>2. MadeBy(cmd.verb, cmd.asset, a + 2) = {} /\ MadeBy(cmd.verb, cmd.asset, a + 1) = {}
      BY <1>2 DEF MadeBy, a
    <3> QED
      BY <1>2, <1>3, <1>4, <1>6, <3>1, <3>2 DEF MadeAt, Target, a
  <2>5. Left(cmd) - 1 = a + 1
    BY <1>2
  <2> QED
    BY <1>1, <1>2, <2>1, <2>3, <2>4, <2>5, MakerKeeps
<1> QED
  BY <1>5, <1>6

\* An image is written, passed over, or torn without notice.
LEMMA CopyImageKeeps ==
  ASSUME Inv, CopyImage
  PROVE  Inv'
<1> DEFINE holding(x) == [disk EXCEPT ![cmd.at] = Put(@, "assets/a", x)]
           k == Left(cmd)
           a == ContentAt(cmd.verb)
<1>1. /\ cmd # None /\ cmd.verb # "unpack" /\ UNCHANGED redirect
      /\ IsCommand(cmd) /\ Does(cmd.verb, k, "image")
  <2>1. "image" \notin Names \union {"unarchive"}
    BY DEF Names, Order, ToSet
  <2> QED
    BY <2>1, ScriptedStep DEF CopyImage
<1>2. /\ cmd.verb \in Importers /\ cmd.verb \in Makers /\ cmd.verb # "create"
      /\ a \in {7, 8} /\ k = a + 1 /\ EntryAt(cmd.verb) = a + 2 /\ (cmd.verb = "import-epub" => a = 8)
  <2>1. cmd.verb \in Importers /\ k = a + 1
    BY <1>1 DEF Does, Content, Manifest
  <2>2. cmd.verb \in Makers /\ cmd.verb # "create"
    BY <2>1 DEF Makers, Importers
  <2>3. a \in {7, 8} /\ (cmd.verb = "import-epub" => a = 8)
    BY <2>1, EntryIs DEF Makers, Importers
  <2> QED
    BY <2>1, <2>2, <2>3, EntryIs
<1> HIDE DEF a
<1>3. cmd.at \in {"folder", "staging"} /\ cmd.text \in Texts /\ IsFolder(disk[cmd.at])
  BY <1>1, <1>2, MakerIs
<1>4. Undisturbed => MadeAt(disk, cmd, past.before, a + 1)
  BY <1>1, <1>2, MakerIs
<1>5. Follows(disk, past.signed)
  BY <1>1, <1>2, <1>3, MakerSame
<1>6. Left(cmd) - 1 = a
  BY <1>2
<1>7. MadeBy(cmd.verb, cmd.asset, a + 1) = {}
  BY <1>2 DEF MadeBy, a
<1>8. CASE cmd.asset \in {None, Missing}
  <2>1. Faultless(disk)
    BY <1>8 DEF CopyImage
  <2>2. cmd.asset \notin Pictures
    BY <1>8, CommandLineConstants
  <2>3. Undisturbed => MadeAt(disk, cmd, past.before, a)
    <3>1. Holds(disk[cmd.at], cmd.verb, cmd.text, cmd.asset, a)
      BY <1>2, <2>2 DEF Holds, a
    <3>2. MadeBy(cmd.verb, cmd.asset, a) = {}
      BY <1>2, <2>2 DEF MadeBy, a
    <3> QED
      BY <1>2, <1>3, <1>4, <1>7, <3>1, <3>2 DEF MadeAt, a
  <2> QED
    BY <1>1, <1>2, <1>5, <1>6, <2>1, <2>3, MakerKeeps
<1>9. CASE cmd.asset \notin {None, Missing}
  <2>1. \/ Faultless(holding(cmd.asset))
        \/ Faulty(disk, "unnoticed")
        \/ \E how \in {"unnoticed", "crash"} : Faulty(holding(Torn), how)
    BY <1>9 DEF CopyImage
  <2>2. cmd.asset \in Pictures
    BY <1>1, <1>2, <1>9, MakerIs
  <2>3. "assets/a" \in Names \ {Signature} /\ cmd.asset \in Bytes("assets/a") /\ Torn \in Bytes("assets/a")
    BY <2>2, NamesIs, BytesIs
  <2>4. CASE Faultless(holding(cmd.asset))
    <3> DEFINE d == holding(cmd.asset)
    <3>1. /\ Follows(d, past.signed)
          /\ d[cmd.at] = Put(disk[cmd.at], "assets/a", cmd.asset)
          /\ cmd.at = "staging" => Emptied(d) = Emptied(disk)
      BY <1>1, <1>2, <1>3, <2>3, MakerPut
    <3> HIDE DEF d
    <3>2. Undisturbed => MadeAt(d, cmd, past.before, a)
      <4>1. Holds(d[cmd.at], cmd.verb, cmd.text, cmd.asset, a)
        BY <1>2, <3>1 DEF Holds, Put, Has, a
      <4>2. Undisturbed /\ cmd.at = "folder" => ~Has(d.folder, Content)
        <5>1. Undisturbed /\ cmd.at = "folder" => ~Has(disk.folder, Content)
          BY <1>2, <1>4 DEF MadeAt, a
        <5> QED
          BY <3>1, <5>1 DEF Has, Put, Content
      <4>3. Undisturbed /\ cmd.at = "staging" =>
              DOMAIN d.staging = MadeBy(cmd.verb, cmd.asset, a) /\ Emptied(d) = Emptied(past.before)
        <5>1. MadeBy(cmd.verb, cmd.asset, a) = {"assets/a"}
          BY <1>2, <2>2 DEF MadeBy, a
        <5>2. Undisturbed /\ cmd.at = "staging" => DOMAIN disk.staging = {} /\ Emptied(disk) = Emptied(past.before)
          BY <1>2, <1>4, <1>7 DEF MadeAt
        <5> QED
          BY <3>1, <5>1, <5>2 DEF Put
      <4> QED
        BY <1>2, <1>3, <4>1, <4>2, <4>3 DEF MadeAt, a
    <3>3. Faultless(d)
      BY <2>4 DEF d
    <3> QED
      BY <1>1, <1>2, <1>6, <3>1, <3>2, <3>3, MakerKeeps
  <2>5. CASE Faulty(disk, "unnoticed")
    BY <1>1, <1>5, <2>5, FaultyKeeps
  <2>6. CASE \E how \in {"unnoticed", "crash"} : Faulty(holding(Torn), how)
    <3> DEFINE d == holding(Torn)
    <3>1. Follows(d, past.signed)
      BY <1>1, <1>2, <1>3, <2>3, MakerPut
    <3> HIDE DEF d
    <3>2. PICK how \in {"unnoticed", "crash"} : Faulty(d, how)
      BY <2>6 DEF d
    <3> QED
      BY <1>1, <3>1, <3>2, FaultyKeeps
  <2> QED
    BY <2>1, <2>4, <2>5, <2>6
<1> QED
  BY <1>8, <1>9

\* A source that can be read is a folder or an archive on the disk.
LEMMA SourceIs ==
  ASSUME IsDisk(disk), NEW from, Source(from) # None
  PROVE  /\ IsContainer(Source(from)) /\ Source(from) \in Found(disk)
         /\ from = "archive" => Packed(Source(from)) = disk.archive
         /\ from # "archive" => Source(from) = disk.folder
<1>1. CASE from = "archive"
  <2>1. /\ disk.archive # None /\ disk.archive.readable /\ Source(from) = disk.archive.members
        /\ IsArchive(disk.archive)
    BY <1>1 DEF Source, IsDisk
  <2>2. IsContainer(Source(from))
    BY <2>1 DEF IsArchive
  <2>3. disk.archive = Archived(disk.archive.members, TRUE)
    BY <2>1 DEF IsArchive
  <2> QED
    BY <1>1, <2>1, <2>2, <2>3, ContainerIs DEF Packed, Found
<1>2. CASE from # "archive"
  <2>1. IsFolder(disk.folder) /\ Source(from) = disk.folder
    BY <1>2 DEF Source
  <2> QED
    BY <1>2, <2>1 DEF IsDisk, IsFolder, Found
<1> QED
  BY <1>1, <1>2

\* An archive written from one of them.
LEMMA ArchiveIs ==
  ASSUME IsDisk(disk), Traced(disk, past.signed), NEW c, IsContainer(c), c \in Found(disk),
         NEW x, x \in {Packed(c)} \union Cuts(c), NEW d, d = [disk EXCEPT !.archive = x]
  PROVE  ChangedTo(disk, d, "archive", x) /\ IsDisk(d) /\ Traced(d, past.signed)
<1>1. ChangedTo(disk, d, "archive", x)
  BY ExceptIs
<1>2. IsArchive(x) /\ (Has(x.members, Signature) => Has(c, Signature) /\ x.members[Signature] = c[Signature])
  BY PackedTyped
<1>3. IsDisk(d)
  BY <1>1, <1>2 DEF IsDisk, ChangedTo
<1>4. Traced(d, past.signed)
  <2>1. Found(d) \subseteq Found(disk) \union {x.members}
    BY <1>1 DEF Found, ChangedTo
  <2>2. Signed(x.members) => Signed(c) /\ x.members[Signature] = c[Signature]
    BY <1>2 DEF Signed
  <2> QED
    BY <2>1, <2>2 DEF Traced
<1> QED
  BY <1>1, <1>3, <1>4

-----------------------------------------------------------------------------
(* The other commands.                                                     *)

\* The last step is the last.
LEMMA LastIs ==
  ASSUME NEW c, IsCommand(c), c.verb # "unpack", Shift(c) = 0, Left(c) = 1
  PROVE  Tail(c.todo) = << >>
<1> DEFINE s == c.todo
<1>1. s \in Seq(StepNames) /\ s # << >> /\ Len(s) = 1
  <2>1. s \in Seq(StepNames) /\ s # << >> /\ Len(s) \in Nat /\ Left(c) = Shift(c) + Len(s)
    BY LeftIs
  <2> QED
    BY <2>1
<1> HIDE DEF s
<1>2. Tail(s) \in Seq(StepNames) /\ Len(Tail(s)) = 0
  BY <1>1
<1>3. Tail(s) = << >>
  BY <1>2, EmptySeq
<1> QED
  BY <1>3 DEF s

\* The last step of a command that went well.
LEMMA LastKeeps ==
  ASSUME Inv, cmd # None, cmd.verb \in Signers, Left(cmd) = 1, NEW d, Follows(d, Signs),
         Faultless(d), UNCHANGED redirect
  PROVE  /\ disk' = d /\ past'.before = past.before
         /\ last'.verb = cmd.verb /\ last'.at = cmd.at /\ last'.text = cmd.text
         /\ (Undisturbed => Delivered') => Inv'
<1>1. cmd.verb \notin Makers /\ cmd.verb # "unpack" /\ IsCommand(cmd)
  BY DEF Makers, Importers, Signers, Inv, Typed
<1>2. /\ disk' = d /\ (GoesOn \/ EndsHere)
      /\ Typed' /\ SignedInv' /\ VerifiedWasSigned' /\ FailureKeepsDocument'
      /\ past'.before = past.before /\ Undisturbed' = Undisturbed
      /\ past'.trouble = past.trouble /\ past'.edited = past.edited
  BY FaultlessKeeps
<1>3. Shift(cmd) = 0
  BY <1>1 DEF Shift
<1>4. EndsHere
  <2>1. Tail(cmd.todo) = << >>
    BY <1>1, <1>3, LastIs
  <2>2. ~GoesOn
    <3>1. ASSUME GoesOn PROVE FALSE
      <4>1. cmd'.todo = << >> /\ IsCommand(cmd') /\ cmd'.verb = cmd.verb
        BY <1>1, <2>1, <3>1 DEF GoesOn, IsCommand
      <4>2. cmd'.todo # << >>
        BY <1>1, <4>1, LeftIs
      <4> QED
        BY <4>1, <4>2
    <3> QED
      BY <3>1
  <2> QED
    BY <1>2, <2>2
<1>5. Ends(0)
  BY <1>4 DEF EndsHere
<1>6. /\ last'.verb = cmd.verb /\ last'.at = cmd.at /\ last'.text = cmd.text
      /\ cmd' = None /\ last'.exit = 0
  BY <1>5, EndsIs DEF Inv
<1>7. (Undisturbed => Delivered') => SuccessDelivers'
  BY <1>2, <1>6 DEF SuccessDelivers, Undisturbed, Inv, Typed
<1>8. Making' /\ Taking'
  BY <1>6 DEF Making, Taking
<1> QED
  BY <1>2, <1>6, <1>7, <1>8 DEF Inv

\* What is known of the other commands.
LEMMA TakerIs ==
  ASSUME Inv, cmd # None
  PROVE  /\ IsDisk(disk) /\ Traced(disk, past.signed) /\ IsCommand(cmd) /\ last = None
         /\ Undisturbed /\ cmd.verb \in Signers => disk = past.before
         /\ cmd.verb \in Signers /\ Undisturbed => Kept(disk, cmd, past.before)
BY DEF Inv, Typed, SignedInv, Traced, Taking, Kept

\* pack, and the end of create and of the importers.
LEMMA WriteArchiveKeeps ==
  ASSUME Inv, WriteArchive
  PROVE  Inv'
<1> DEFINE k == Left(cmd)
           c == IF cmd.verb = "pack" THEN Source(cmd.at) ELSE disk.staging
           holding(x) == [disk EXCEPT !.archive = x]
<1>1. /\ cmd # None /\ cmd.verb # "unpack" /\ UNCHANGED redirect
      /\ IsCommand(cmd) /\ Does(cmd.verb, k, "archive")
  <2>1. "archive" \notin Names \union {"unarchive"}
    BY DEF Names, Order, ToSet
  <2> QED
    BY <2>1, ScriptedStep DEF WriteArchive
<1>2. \/ cmd.verb \in Makers /\ k = 2 /\ cmd.verb # "pack"
      \/ cmd.verb = "pack" /\ k = 1 /\ cmd.verb \in Signers
  BY <1>1 DEF Does, Content, Manifest, Makers, Importers, Signers
<1>3. cmd.verb \in Makers => cmd.at = "staging" /\ IsFolder(disk.staging) /\ cmd.text \in Texts
  <2> SUFFICES ASSUME cmd.verb \in Makers PROVE cmd.at = "staging" /\ IsFolder(disk.staging) /\ cmd.text \in Texts
    OBVIOUS
  <2>1. k = 2 /\ k < EntryAt(cmd.verb)
    <3>1. k = 2
      BY <1>2 DEF Signers, Makers, Importers
    <3>2. EntryAt(cmd.verb) \in {6, 9, 10}
      BY EntryIs
    <3> QED
      BY <3>1, <3>2
  <2>2. cmd.at \in {"folder", "staging"} /\ IsFolder(disk[cmd.at]) /\ cmd.text \in Texts
    BY <1>1, <2>1, MakerIs, EntryIs
  <2>3. k > Shift(cmd)
    BY <1>1, LeftIs
  <2>4. cmd.at # "folder"
    BY <2>1, <2>3 DEF Shift
  <2> QED
    BY <2>2, <2>4
<1>4. IsDisk(disk) /\ Traced(disk, past.signed)
  BY <1>1, TakerIs
<1>5. CASE c = None
  <2>1. Fails
    BY <1>5 DEF WriteArchive
  <2>2. cmd.verb = "pack"
    <3>1. CASE cmd.verb \in Makers
      BY <1>2, <1>3, <1>5, <3>1 DEF IsFolder
    <3> QED
      BY <1>2, <3>1
  <2> QED
    BY <1>1, <2>1, <2>2, TakerIs, FailsKeeps DEF Signers
<1>6. CASE c # None
  <2>1. WriteFile("archive", Packed(c), Cuts(c))
    BY <1>6 DEF WriteArchive
  <2>2. IsContainer(c) /\ c \in Found(disk)
    <3>1. CASE cmd.verb = "pack"
      BY <1>4, <1>6, <3>1, SourceIs
    <3>2. CASE cmd.verb # "pack"
      <4>1. c = disk.staging /\ IsFolder(disk.staging)
        BY <1>2, <1>3, <3>2
      <4> QED
        BY <1>4, <4>1 DEF IsDisk, IsFolder, Found
    <3> QED
      BY <3>1, <3>2
  <2>3. cmd.verb # "sign" /\ cmd.verb # "unpack" /\ Signs = past.signed
    BY <1>1, <1>2 DEF Makers, Importers, Signs
  <2> HIDE DEF c
  <2>4. ASSUME NEW x, x \in {Packed(c)} \union Cuts(c), NEW d, d = holding(x)
        PROVE  ChangedTo(disk, d, "archive", x) /\ Follows(d, past.signed)
    <3>1. ChangedTo(disk, d, "archive", x) /\ IsDisk(d) /\ Traced(d, past.signed)
      BY <1>4, <2>2, <2>4, ArchiveIs
    <3> QED
      BY <1>3, <2>3, <3>1 DEF Follows, ChangedTo
  <2>5. Follows(disk, past.signed)
    BY <1>3, <1>4, <2>3 DEF Follows
  <2>6. CASE Faultless(holding(Packed(c)))
    <3> DEFINE d == holding(Packed(c))
    <3>1. ChangedTo(disk, d, "archive", Packed(c)) /\ Follows(d, past.signed)
      BY <2>4
    <3> HIDE DEF d
    <3>2. Faultless(d)
      BY <2>6 DEF d
    <3>3. CASE cmd.verb \in Makers
      <4>1. k = 2 /\ cmd.at = "staging" /\ c = disk.staging /\ ContentAt(cmd.verb) \in {6, 7, 8}
        BY <1>2, <1>3, <3>3, EntryIs DEF Makers, Importers, Signers, c
      <4>2. ASSUME Undisturbed PROVE MadeAt(d, cmd, past.before, 1)
        <5>1. MadeAt(disk, cmd, past.before, 2)
          BY <1>1, <3>3, <4>1, <4>2, MakerIs
        <5>2. d.staging = disk.staging /\ d[cmd.at] = disk[cmd.at] /\ d.archive = Packed(d.staging)
          BY <3>1, <4>1 DEF ChangedTo
        <5>3. Holds(d[cmd.at], cmd.verb, cmd.text, cmd.asset, 2)
          BY <4>1, <5>1, <5>2 DEF MadeAt
        <5>4. Holds(d[cmd.at], cmd.verb, cmd.text, cmd.asset, 1)
          BY <4>1, <5>3 DEF Holds
        <5>5. "audit.log" \in MadeBy(cmd.verb, cmd.asset, 2)
          BY DEF MadeBy
        <5>6. MadeBy(cmd.verb, cmd.asset, 1) = MadeBy(cmd.verb, cmd.asset, 2)
          BY <4>1 DEF MadeBy
        <5> QED
          BY <4>1, <5>1, <5>2, <5>4, <5>6 DEF MadeAt
      <4>3. Left(cmd) - 1 = 1
        BY <4>1
      <4> QED
        BY <1>1, <3>1, <3>2, <3>3, <4>2, <4>3, MakerKeeps
    <3>4. CASE cmd.verb = "pack"
      <4>1. k = 1 /\ cmd.verb \in Signers
        BY <1>2, <3>4 DEF Makers, Importers
      <4>2. /\ disk' = d /\ past'.before = past.before /\ last'.verb = cmd.verb /\ last'.at = cmd.at
            /\ (Undisturbed => Delivered') => Inv'
        BY <1>1, <2>3, <3>1, <3>2, <4>1, LastKeeps
      <4>3. c = Source(cmd.at) /\ c # None
        BY <1>6, <3>4 DEF c
      <4>4. Undisturbed => Delivered'
        <5>1. Undisturbed => disk = past.before
          BY <1>1, <4>1, TakerIs
        <5>2. cmd.at = "archive" => Packed(c) = disk.archive
          BY <1>4, <4>3, SourceIs
        <5>3. cmd.at # "archive" => c = disk.folder
          BY <1>4, <4>3, SourceIs
        <5> QED
          BY <3>1, <3>4, <4>2, <5>1, <5>2, <5>3 DEF Delivered, ChangedTo, Packed
      <4> QED
        BY <4>2, <4>4
    <3> QED
      BY <1>2, <3>3, <3>4
  <2>7. CASE Faulty(disk, "failed")
    BY <1>1, <2>5, <2>7, FaultyKeeps
  <2>8. CASE \E x \in Cuts(c), how \in {"unnoticed", "crash"} : Faulty(holding(x), how)
    <3>1. PICK x \in Cuts(c), how \in {"unnoticed", "crash"} : Faulty(holding(x), how)
      BY <2>8
    <3> DEFINE d == holding(x)
    <3>2. Follows(d, past.signed)
      BY <2>4
    <3> HIDE DEF d
    <3>3. Faulty(d, how)
      BY <3>1 DEF d
    <3> QED
      BY <1>1, <3>2, <3>3, FaultyKeeps
  <2> QED
    BY <2>1, <2>6, <2>7, <2>8 DEF WriteFile
<1> QED
  BY <1>5, <1>6

\* The staging folder is removed last, when the archive holds the document.
LEMMA RemoveStagingKeeps ==
  ASSUME Inv, RemoveStaging
  PROVE  Inv'
<1> DEFINE k == Left(cmd)
           d == [disk EXCEPT !.staging = None]
<1>1. /\ cmd # None /\ cmd.verb # "unpack" /\ UNCHANGED redirect
      /\ IsCommand(cmd) /\ Does(cmd.verb, k, "clean")
  <2>1. "clean" \notin Names \union {"unarchive"}
    BY DEF Names, Order, ToSet
  <2> QED
    BY <2>1, ScriptedStep DEF RemoveStaging
<1>2. cmd.verb \in Makers /\ k = 1
  BY <1>1 DEF Does, Content, Manifest
<1>3. cmd.at = "staging" /\ Shift(cmd) = 0 /\ cmd.verb # "sign" /\ cmd.text \in Texts
  <2>1. k > Shift(cmd) /\ cmd.at \in {"folder", "staging"} /\ cmd.verb # "sign"
    BY <1>1, <1>2, LeftIs, MakerIs
  <2>2. k # EntryAt(cmd.verb)
    BY <1>2, EntryIs
  <2> QED
    BY <1>1, <1>2, <2>1, <2>2, MakerIs DEF Shift
<1>4. Tail(cmd.todo) = << >>
  BY <1>1, <1>2, <1>3, LastIs
<1>5. IsDisk(disk) /\ Traced(disk, past.signed)
  BY <1>1, TakerIs
<1>6. Faultless(d) \/ Faulty(disk, "unnoticed")
  BY DEF RemoveStaging
<1>7. ChangedTo(disk, d, "staging", None)
  BY <1>5, ExceptIs
<1> HIDE DEF d
<1>8. Follows(d, past.signed)
  <2>1. IsDisk(d)
    BY <1>5, <1>7 DEF IsDisk, ChangedTo
  <2>2. Traced(d, past.signed)
    BY <1>5, <1>7 DEF Traced, Found, ChangedTo
  <2> QED
    BY <1>1, <1>4, <1>7, <2>1, <2>2 DEF Follows, ChangedTo
<1>9. Undisturbed => MadeAt(d, cmd, past.before, 0)
  <2> SUFFICES ASSUME Undisturbed PROVE MadeAt(d, cmd, past.before, 0)
    OBVIOUS
  <2>1. MadeAt(disk, cmd, past.before, 1)
    BY <1>1, <1>2, MakerIs
  <2>2. /\ Holds(disk.staging, cmd.verb, cmd.text, cmd.asset, 1)
        /\ DOMAIN disk.staging = MadeBy(cmd.verb, cmd.asset, 1) /\ disk.archive = Packed(disk.staging)
    BY <1>3, <2>1 DEF MadeAt
  <2>3. d.archive.members = disk.staging /\ d.archive.readable /\ d.staging = None
    BY <1>7, <2>2 DEF ChangedTo, Packed, Archived
  <2>4. ContentAt(cmd.verb) \in {6, 7, 8}
    BY <1>2, EntryIs
  <2>5. Holds(disk.staging, cmd.verb, cmd.text, cmd.asset, 0)
    BY <2>2, <2>4 DEF Holds
  <2>6. MadeBy(cmd.verb, cmd.asset, 0) = MadeBy(cmd.verb, cmd.asset, 1)
    BY <2>4 DEF MadeBy
  <2> QED
    BY <1>3, <2>2, <2>3, <2>5, <2>6 DEF MadeAt
<1>10. CASE Faultless(d)
  <2>1. Left(cmd) - 1 = 0
    BY <1>2
  <2> QED
    BY <1>1, <1>2, <1>8, <1>9, <1>10, <2>1, MakerKeeps
<1>11. CASE Faulty(disk, "unnoticed")
  <2>1. Follows(disk, past.signed)
    BY <1>1, <1>4, <1>5 DEF Follows
  <2> QED
    BY <1>1, <1>11, <2>1, FaultyKeeps
<1> QED
  BY <1>6, <1>10, <1>11

\* sign remembers the manifest that it read.
LEMMA ReadManifestKeeps ==
  ASSUME Inv, ReadManifest
  PROVE  Inv'
<1>1. /\ cmd # None /\ cmd.verb # "unpack" /\ UNCHANGED redirect
      /\ IsCommand(cmd) /\ Does(cmd.verb, Left(cmd), "read")
  <2>1. "read" \notin Names \union {"unarchive"}
    BY DEF Names, Order, ToSet
  <2> QED
    BY <2>1, ScriptedStep DEF ReadManifest
<1>2. cmd.verb = "sign" /\ Left(cmd) = 3 /\ cmd.verb \in Signers /\ cmd.verb \notin Makers
  BY <1>1 DEF Does, Content, Manifest, Signers, Makers, Importers
<1>3. cmd.at = "folder" /\ Target = disk.folder
  BY <1>1, <1>2 DEF IsCommand, Target
<1>4. CASE ~IsFolder(Target) \/ ~Has(Target, Manifest) \/ Target[Manifest] = Torn
  <2>1. Fails
    BY <1>4 DEF ReadManifest
  <2> QED
    BY <1>1, <1>2, <2>1, TakerIs, FailsKeeps
<1>5. CASE IsFolder(Target) /\ Has(Target, Manifest) /\ Target[Manifest] # Torn
  <2>1. cmd' = [cmd EXCEPT !.seen = Target[Manifest], !.todo = Tail(@)] /\ UNCHANGED <<disk, last, past, spent>>
    BY <1>5 DEF ReadManifest
  <2>2. Onward(cmd, cmd') /\ cmd'.seen = Target[Manifest]
    BY <1>1, <2>1 DEF Onward, IsCommand
  <2>3. Tail(cmd.todo) # << >>
    <3>1. cmd.todo \in Seq(StepNames) /\ cmd.todo # << >> /\ Left(cmd) = Shift(cmd) + Len(cmd.todo)
      BY <1>1, LeftIs
    <3>2. Shift(cmd) = 0
      BY <1>2 DEF Shift
    <3>3. Tail(cmd.todo) = << >> => Len(cmd.todo) = 1
      BY <3>1, TailIs
    <3>4. Len(cmd.todo) \in Nat
      BY <3>1
    <3>5. Len(cmd.todo) = 3
      BY <1>2, <3>1, <3>2, <3>4
    <3> QED
      BY <3>3, <3>5
  <2>4. IsCommand(cmd') /\ Left(cmd') = 2
    BY <1>1, <1>2, <2>2, <2>3, OnwardIs
  <2>5. cmd'.verb = "sign" /\ cmd'.verb \notin Makers \union {"unpack"}
    BY <1>1, <1>2, <2>2 DEF Onward
  <2>6. Placed(disk', cmd')
    BY <1>3, <1>5, <2>1, <2>5 DEF Placed
  <2>7. Typed'
    BY <1>1, <2>1, <2>4, <2>6 DEF Inv, Typed
  <2>8. SignedInv'
    BY <1>1, <1>2, <1>3, <2>1, <2>2, <2>4 DEF Inv, SignedInv
  <2>9. Taking'
    BY <1>1, <1>2, <1>3, <1>5, <2>1, <2>2, <2>4, <2>5 DEF Inv, Taking, Undisturbed
  <2>10. Making' /\ SuccessDelivers' /\ FailureKeepsDocument' /\ VerifiedWasSigned'
    BY <1>1, <2>1, <2>5, TakerIs DEF Making, SuccessDelivers, FailureKeepsDocument, VerifiedWasSigned, Finished
  <2> QED
    BY <2>7, <2>8, <2>9, <2>10 DEF Inv
<1> QED
  BY <1>4, <1>5

\* Compared, the manifest that sign read is what the folder holds.
LEMMA CompareFolderKeeps ==
  ASSUME Inv, CompareFolder
  PROVE  Inv'
<1>1. /\ cmd # None /\ cmd.verb # "unpack" /\ UNCHANGED redirect
      /\ IsCommand(cmd) /\ Does(cmd.verb, Left(cmd), "compare")
  <2>1. "compare" \notin Names \union {"unarchive"}
    BY DEF Names, Order, ToSet
  <2> QED
    BY <2>1, ScriptedStep DEF CompareFolder
<1>2. cmd.verb = "sign" /\ Left(cmd) = 2 /\ cmd.verb \in Signers /\ cmd.verb \notin Makers
  BY <1>1 DEF Does, Content, Manifest, Signers, Makers, Importers
<1>3. cmd.at = "folder" /\ Target = disk.folder /\ IsFolder(disk.folder)
  BY <1>1, <1>2 DEF IsCommand, Target, Inv, Typed, Placed
<1>4. CASE cmd.seen # Covered(Target)
  <2>1. Fails
    BY <1>4 DEF CompareFolder
  <2> QED
    BY <1>1, <1>2, <2>1, TakerIs, FailsKeeps
<1>5. CASE cmd.seen = Covered(Target)
  <2>1. Faultless(disk)
    BY <1>5 DEF CompareFolder
  <2>2. cmd.seen \in past.views
    BY <1>1, <1>2, <1>3, <1>5 DEF Inv, SignedInv
  <2>3. Follows(disk, Signs)
    BY <1>1, <1>2, <2>2, TakerIs DEF Follows, Traced, Signs
  <2>4. /\ disk' = disk /\ (GoesOn \/ EndsHere)
        /\ Typed' /\ SignedInv' /\ VerifiedWasSigned' /\ FailureKeepsDocument'
        /\ past'.before = past.before /\ Undisturbed' = Undisturbed
    BY <1>1, <2>1, <2>3, FaultlessKeeps
  <2>5. GoesOn
    <3>1. Shift(cmd) = 0
      BY <1>2 DEF Shift
    <3> QED
      BY <1>1, <1>2, <2>4, <3>1 DEF EndsHere
  <2>6. /\ cmd'.verb = cmd.verb /\ cmd'.at = cmd.at /\ cmd'.seen = cmd.seen /\ last' = None
        /\ Left(cmd') = 1
    <3>1. cmd' = [cmd EXCEPT !.todo = cmd'.todo] /\ last' = None /\ Left(cmd') = Left(cmd) - 1
      BY <1>1, <2>5 DEF GoesOn
    <3>2. Left(cmd') = 1
      BY <1>2, <3>1
    <3>3. cmd'.verb = cmd.verb /\ cmd'.at = cmd.at /\ cmd'.seen = cmd.seen
      BY <1>1, <3>1 DEF IsCommand
    <3> QED
      BY <3>1, <3>2, <3>3
  <2>7. Taking'
    BY <1>1, <1>2, <1>3, <1>5, <2>4, <2>6 DEF Inv, Taking
  <2>8. Making' /\ SuccessDelivers'
    BY <1>2, <2>6 DEF Making, SuccessDelivers, Finished
  <2> QED
    BY <2>4, <2>7, <2>8 DEF Inv
<1> QED
  BY <1>4, <1>5

\* The key file and the page hold nothing a signature could be in.
LEMMA FileIs ==
  ASSUME IsDisk(disk), Traced(disk, past.signed), NEW file \in {"key", "page"}, NEW x,
         file = "key" => x \in {None, Torn, "ed25519", "x25519"},
         file = "page" => x \in Pages \union {None, Torn},
         NEW d, d = [disk EXCEPT ![file] = x]
  PROVE  ChangedTo(disk, d, file, x) /\ IsDisk(d) /\ Traced(d, past.signed)
<1>1. ChangedTo(disk, d, file, x)
  <2>1. file \in {"folder", "staging", "archive", "key", "page"}
    OBVIOUS
  <2> QED
    BY <2>1, ExceptIs, Zenon
<1>2. IsDisk(d)
  BY <1>1 DEF IsDisk, ChangedTo
<1>3. Found(d) = Found(disk)
  BY <1>1 DEF Found, ChangedTo
<1> QED
  BY <1>1, <1>2, <1>3 DEF Traced

\* Writing a file outside a container.
LEMMA FileKeeps ==
  ASSUME Inv, cmd # None, UNCHANGED redirect, cmd.verb \in Signers \ {"sign"}, Left(cmd) = 1,
         NEW file \in {"key", "page"}, NEW v,
         file = "key" => v \in {"ed25519", "x25519"}, file = "page" => v \in Pages,
         WriteFile(file, v, {Torn}),
         NEW d, d = [disk EXCEPT ![file] = v],
         ChangedTo(disk, d, file, v) /\ disk' = d /\ last'.verb = cmd.verb /\ last'.at = cmd.at
           /\ last'.text = cmd.text => Delivered'
  PROVE  Inv'
<1> DEFINE holding(x) == [disk EXCEPT ![file] = x]
<1>1. /\ cmd.verb \in Signers /\ cmd.verb # "sign" /\ cmd.verb # "unpack" /\ cmd.verb \notin Makers
      /\ IsDisk(disk) /\ Traced(disk, past.signed) /\ IsCommand(cmd) /\ Signs = past.signed
  BY TakerIs DEF Signers, Makers, Importers, Signs
<1>2. ASSUME NEW x \in {v, Torn}, NEW e, e = holding(x)
      PROVE  ChangedTo(disk, e, file, x) /\ Follows(e, past.signed)
  <2>1. ChangedTo(disk, e, file, x) /\ IsDisk(e) /\ Traced(e, past.signed)
    BY <1>1, <1>2, FileIs
  <2> QED
    BY <1>1, <2>1 DEF Follows, ChangedTo
<1>3. Follows(disk, past.signed)
  BY <1>1 DEF Follows
<1>4. CASE Faultless(holding(v))
  <2>1. ChangedTo(disk, d, file, v) /\ Follows(d, Signs) /\ Faultless(d)
    BY <1>1, <1>2, <1>4
  <2> QED
    BY <1>1, <2>1, LastKeeps
<1>5. CASE Faulty(disk, "failed")
  BY <1>3, <1>5, FaultyKeeps
<1>6. CASE \E x \in {Torn}, how \in {"unnoticed", "crash"} : Faulty(holding(x), how)
  <2>1. PICK how \in {"unnoticed", "crash"} : Faulty(holding(Torn), how)
    BY <1>6
  <2> DEFINE e == holding(Torn)
  <2>2. Follows(e, past.signed)
    BY <1>2
  <2> HIDE DEF e
  <2>3. Faulty(e, how)
    BY <2>1 DEF e
  <2> QED
    BY <2>2, <2>3, FaultyKeeps
<1> QED
  BY <1>4, <1>5, <1>6 DEF WriteFile

\* keygen.
LEMMA WriteKeyKeeps ==
  ASSUME Inv, WriteKey
  PROVE  Inv'
<1> DEFINE d == [disk EXCEPT !["key"] = cmd.text]
<1>1. /\ cmd # None /\ cmd.verb # "unpack" /\ UNCHANGED redirect
      /\ IsCommand(cmd) /\ Does(cmd.verb, Left(cmd), "key")
  <2>1. "key" \notin Names \union {"unarchive"}
    BY DEF Names, Order, ToSet
  <2> QED
    BY <2>1, ScriptedStep DEF WriteKey
<1>2. cmd.verb = "keygen" /\ Left(cmd) = 1 /\ cmd.verb \in Signers \ {"sign"}
  BY <1>1 DEF Does, Content, Manifest, Signers
<1>3. cmd.text \in {"ed25519", "x25519"} /\ WriteFile("key", cmd.text, {Torn})
  BY <1>1, <1>2 DEF IsCommand, WriteKey
<1> HIDE DEF d
<1>4. ChangedTo(disk, d, "key", cmd.text) /\ disk' = d /\ last'.verb = cmd.verb /\ last'.at = cmd.at
        /\ last'.text = cmd.text => Delivered'
  BY <1>2 DEF Delivered, ChangedTo
<1> QED
  BY <1>1, <1>2, <1>3, <1>4, FileKeeps DEF d

\* render -o.
LEMMA WritePageKeeps ==
  ASSUME Inv, WritePage
  PROVE  Inv'
<1> DEFINE c == Source(cmd.at)
           v == [text |-> c[Content],
                 source |-> IF Has(c, Manifest) /\ c[Manifest] # Torn THEN c[Manifest] ELSE None]
           d == [disk EXCEPT !["page"] = v]
<1>1. /\ cmd # None /\ cmd.verb # "unpack" /\ UNCHANGED redirect
      /\ IsCommand(cmd) /\ Does(cmd.verb, Left(cmd), "page")
  <2>1. "page" \notin Names \union {"unarchive"}
    BY DEF Names, Order, ToSet
  <2> QED
    BY <2>1, ScriptedStep DEF WritePage
<1>2. cmd.verb = "render -o" /\ Left(cmd) = 1 /\ cmd.verb \in Signers \ {"sign"} /\ cmd.verb \in Signers
  BY <1>1 DEF Does, Content, Manifest, Signers
<1>3. CASE c = None \/ ~Has(c, Content)
  <2>1. Fails
    BY <1>3 DEF WritePage
  <2> QED
    BY <1>1, <1>2, <2>1, TakerIs, FailsKeeps
<1>4. CASE c # None /\ Has(c, Content)
  <2>1. WriteFile("page", v, {Torn})
    BY <1>4 DEF WritePage
  <2>2. IsContainer(c)
    BY <1>1, <1>4, TakerIs, SourceIs
  <2> HIDE DEF c
  <2>3. v \in Pages
    <3>1. c[Content] \in Values
      <4>1. Content \in DOMAIN c \ Excluded
        BY <1>4, NamesIs DEF Has
      <4> QED
        BY <2>2, <4>1, BytesIs DEF IsContainer, Bytes
    <3>2. Has(c, Manifest) => c[Manifest] \in Views \union {Torn}
      BY <2>2, ContainerIs
    <3> QED
      BY <3>1, <3>2 DEF Pages
  <2>4. v.text = c[Content]
    OBVIOUS
  <2> HIDE DEF v, d
  <2>5. ChangedTo(disk, d, "page", v) /\ disk' = d /\ last'.verb = cmd.verb /\ last'.at = cmd.at
          /\ last'.text = cmd.text => Delivered'
    <3> SUFFICES ASSUME ChangedTo(disk, d, "page", v), disk' = d, last'.verb = cmd.verb, last'.at = cmd.at
                 PROVE  Delivered'
      OBVIOUS
    <3>1. disk'.page = v /\ disk'.archive = disk.archive /\ disk'.folder = disk.folder
      BY DEF ChangedTo
    <3>2. Source(last.at)' = c
      BY <3>1 DEF Source, c
    <3> QED
      BY <1>2, <2>4, <3>1, <3>2 DEF Delivered
  <2> QED
    BY <1>1, <1>2, <2>1, <2>3, <2>5, FileKeeps DEF d
<1> QED
  BY <1>3, <1>4

\* The manifest that is signed is one that was in the folder since sign began: the one compared, or one
\* that was put there after it was read.
LEMMA SignManifestKeeps ==
  ASSUME Inv, SignManifest
  PROVE  Inv'
<1> DEFINE m == disk.folder[Manifest]
           holding(x) == [disk EXCEPT ![cmd.at] = Put(@, Signature, x)]
<1>1. /\ cmd # None /\ cmd.verb # "unpack" /\ UNCHANGED redirect
      /\ IsCommand(cmd) /\ Does(cmd.verb, Left(cmd), "sign")
  <2>1. "sign" \notin Names \union {"unarchive"}
    BY DEF Names, Order, ToSet
  <2> QED
    BY <2>1, ScriptedStep DEF SignManifest
<1>2. cmd.verb = "sign" /\ Left(cmd) = 1 /\ cmd.verb \in Signers /\ cmd.verb \notin Makers
  BY <1>1 DEF Does, Content, Manifest, Signers, Makers, Importers
<1>3. cmd.at = "folder" /\ Target = disk.folder /\ IsFolder(disk.folder)
  BY <1>1, <1>2 DEF IsCommand, Target, Inv, Typed, Placed
<1>4. IsDisk(disk) /\ Traced(disk, past.signed) /\ IsContainer(disk.folder) /\ disk.folder \in Found(disk)
  BY <1>1, <1>3, TakerIs DEF IsDisk, IsFolder, Found
<1>5. Tail(cmd.todo) = << >> /\ Signs = past.signed \union past.views
  <2>1. Shift(cmd) = 0
    BY <1>2 DEF Shift
  <2>2. Tail(cmd.todo) = << >>
    BY <1>1, <1>2, <2>1, LastIs
  <2>3. Len(cmd.todo) = 1
    BY <1>1, <2>2, LeftIs, TailIs
  <2> QED
    BY <1>2, <2>2, <2>3 DEF Signs
<1>6. CASE disk.key # "ed25519" \/ ~Has(Target, Manifest) \/ Target[Manifest] = Torn
  <2>1. Fails
    BY <1>6 DEF SignManifest
  <2> QED
    BY <1>1, <1>2, <2>1, TakerIs, FailsKeeps
<1>7. CASE ~(disk.key # "ed25519" \/ ~Has(Target, Manifest) \/ Target[Manifest] = Torn)
  <2>1. WriteMember(Signature, [over |-> m]) /\ Has(disk.folder, Manifest) /\ m # Torn
    BY <1>3, <1>7 DEF SignManifest
  <2>2. m \in Views /\ m \in past.views
    <3>1. m \in Views
      BY <1>4, <2>1, ContainerIs
    <3> QED
      BY <1>1, <1>2, <1>3, <2>1, <3>1 DEF Inv, SignedInv
  <2> HIDE DEF m
  <2>3. ASSUME NEW x, NEW S, \/ x = Torn /\ S = past.signed
                             \/ x = [over |-> m] /\ S = Signs,
               NEW d, d = holding(x)
        PROVE  ChangedTo(disk, d, "folder", Put(disk.folder, Signature, x)) /\ Follows(d, S)
    <3> DEFINE e == Put(disk.folder, Signature, x)
    <3>1. x \in Bytes(Signature)
      BY <2>2, <2>3, NamesIs, BytesIs
    <3>2. IsContainer(e)
      BY <1>4, <3>1, NamesIs, PutTyped
    <3>3. IsFolder(e)
      BY <3>2, ContainerIs DEF IsFolder
    <3>4. e[Signature] = x
      BY DEF Put
    <3>5. Signed(e) => e[Signature].over \in S
      BY <1>5, <2>2, <2>3, <3>4 DEF Signed
    <3> HIDE DEF e
    <3>6. d = [disk EXCEPT !["folder"] = e]
      BY <1>3, <2>3 DEF e
    <3>7. ChangedTo(disk, d, "folder", e)
      BY <1>4, <3>6, ExceptIs
    <3>8. IsDisk(d)
      BY <1>4, <3>2, <3>7 DEF IsDisk, ChangedTo
    <3>9. Traced(d, S)
      <4>1. Found(d) \subseteq Found(disk) \union {e}
        BY <3>7 DEF Found, ChangedTo
      <4>2. Traced(disk, S)
        BY <1>4, <1>5, <2>3 DEF Traced
      <4> QED
        BY <3>5, <4>1, <4>2 DEF Traced
    <3> QED
      BY <1>1, <1>5, <3>3, <3>7, <3>8, <3>9 DEF Follows, ChangedTo, e
  <2>4. Follows(disk, past.signed)
    BY <1>1, <1>4, <1>5 DEF Follows
  <2>5. CASE Faultless(holding([over |-> m]))
    <3> DEFINE d == holding([over |-> m])
               e == Put(disk.folder, Signature, [over |-> m])
    <3>1. ChangedTo(disk, d, "folder", e) /\ Follows(d, Signs)
      BY <2>3
    <3> HIDE DEF d
    <3>2. Faultless(d)
      BY <2>5 DEF d
    <3>3. /\ disk' = d /\ last'.verb = cmd.verb
          /\ (Undisturbed => Delivered') => Inv'
      BY <1>1, <1>2, <3>1, <3>2, LastKeeps
    <3>4. Undisturbed => Delivered'
      <4> SUFFICES ASSUME Undisturbed PROVE Delivered'
        OBVIOUS
      <4>1. Has(disk.folder, Manifest) /\ m = Covered(disk.folder)
        BY <1>1, <1>2 DEF Inv, Taking, m
      <4>2. Covered(e) = Covered(disk.folder)
        BY PutBeside DEF Excluded
      <4>3. Has(e, Manifest) /\ e[Manifest] = m /\ Has(e, Signature) /\ e[Signature] = [over |-> m]
        BY <4>1 DEF Put, Has, Manifest, Signature, m
      <4> HIDE DEF e
      <4>4. ManifestOK(e) /\ SignatureOK(e)
        BY <2>1, <4>1, <4>2, <4>3 DEF ManifestOK, SignatureOK
      <4>5. disk'.folder = e
        BY <3>1, <3>3 DEF ChangedTo
      <4>6. ManifestOK(disk'.folder) /\ SignatureOK(disk'.folder)
        BY <4>4, <4>5
      <4> QED
        BY <1>2, <3>3, <4>6 DEF Delivered
    <3> QED
      BY <3>3, <3>4
  <2>6. CASE Faulty(disk, "failed")
    BY <1>1, <2>4, <2>6, FaultyKeeps
  <2>7. CASE \E how \in {"failed", "unnoticed", "crash"} : Faulty(holding(Torn), how)
    <3>1. PICK how \in {"failed", "unnoticed", "crash"} : Faulty(holding(Torn), how)
      BY <2>7
    <3> DEFINE d == holding(Torn)
    <3>2. Follows(d, past.signed)
      BY <2>3
    <3> HIDE DEF d
    <3>3. Faulty(d, how)
      BY <3>1 DEF d
    <3> QED
      BY <1>1, <3>2, <3>3, FaultyKeeps
  <2> QED
    BY <2>1, <2>5, <2>6, <2>7 DEF WriteMember
<1> QED
  BY <1>6, <1>7

\* The order in which members are unpacked names every member.
LEMMA OrderIs == Order \in Seq(Names) /\ ToSet(Order) = Names
<1>1. Order \in Seq(ToSet(Order))
  BY DEF Order, ToSet
<1> QED
  BY <1>1 DEF Names

\* unpack begins with the first member that the archive has.
LEMMA ReadArchiveKeeps ==
  ASSUME Inv, ReadArchive
  PROVE  Inv'
<1>1. cmd # None /\ cmd.todo[1] = "unarchive" /\ UNCHANGED redirect
  BY DEF ReadArchive, Step
<1>2. IsDisk(disk) /\ IsCommand(cmd) /\ Placed(disk, cmd) /\ last = None
  BY <1>1 DEF Inv, Typed
<1>3. cmd.verb = "unpack"
  <2>1. CASE cmd.verb # "unpack"
    <3>1. Does(cmd.verb, Left(cmd), "unarchive")
      BY <1>1, <1>2, <2>1, LeftIs
    <3> QED
      BY <3>1 DEF Does, Content, Manifest
  <2> QED
    BY <2>1
<1>4. cmd.todo = <<"unarchive">>
  <2>1. "unarchive" \notin Names
    BY DEF Names, Order, ToSet
  <2> QED
    BY <1>1, <1>2, <1>3, <2>1 DEF Placed
<1>5. Undisturbed => disk = past.before
  BY <1>1, <1>3, <1>4 DEF Inv, Taking
<1>6. cmd.verb \notin Makers \union Signers /\ cmd.verb # "sign"
  BY <1>3 DEF Makers, Importers, Signers
<1>7. CASE Source("archive") = None
  <2>1. Fails
    BY <1>7 DEF ReadArchive
  <2>2. Undisturbed => Kept(disk, cmd, past.before)
    BY <1>5 DEF Kept
  <2> QED
    BY <1>1, <2>1, <2>2, FailsKeeps
<1>8. CASE Source("archive") # None
  <2> DEFINE todo == Present(Order)
  <2>1. Goes(todo) /\ UNCHANGED <<disk, past, spent>>
    BY <1>8 DEF ReadArchive
  <2>2. disk.archive # None /\ IsContainer(Archive)
    BY <1>2, <1>8, SourceIs DEF Source, Archive
  <2>3. /\ todo \in Seq(Names) /\ (todo # << >> => todo[1] \in DOMAIN Archive)
        /\ \A n \in DOMAIN Archive : todo # << >> /\ n \in ToSet(todo)
    BY <2>2, OrderIs, PresentIs DEF IsContainer
  <2> HIDE DEF todo
  <2>4. CASE todo = << >>
    <3>1. Ends(0)
      BY <2>1, <2>4 DEF Goes
    <3>2. /\ cmd' = None /\ last'.verb = "unpack" /\ VerifiedWasSigned' /\ last'.exit = 0
          /\ last' = [verb |-> last'.verb, exit |-> last'.exit, at |-> last'.at,
                      text |-> last'.text, asset |-> last'.asset]
      BY <1>1, <1>3, <3>1, EndsIs DEF Inv
    <3>3. Typed'
      BY <1>1, <2>1, <3>2 DEF Inv, Typed
    <3>4. SignedInv'
      BY <2>1, <3>2 DEF Inv, SignedInv
    <3>5. Delivered'
      <4>1. DOMAIN Archive = {}
        BY <2>3, <2>4
      <4> QED
        BY <2>1, <3>2, <4>1 DEF Delivered, Archive
    <3>6. Making' /\ Taking' /\ SuccessDelivers' /\ FailureKeepsDocument'
      BY <3>2, <3>5 DEF Making, Taking, SuccessDelivers, FailureKeepsDocument
    <3> QED
      BY <3>2, <3>3, <3>4, <3>6 DEF Inv
  <2>5. CASE todo # << >>
    <3>1. cmd' = [cmd EXCEPT !.todo = todo] /\ last' = None
      BY <1>2, <2>1, <2>5 DEF Goes
    <3>2. /\ cmd'.verb = "unpack" /\ cmd'.todo = todo
          /\ cmd' = [verb |-> cmd'.verb, at |-> cmd'.at, todo |-> cmd'.todo, text |-> cmd'.text,
                     asset |-> cmd'.asset, seen |-> cmd'.seen]
      BY <1>2, <1>3, <3>1 DEF IsCommand
    <3>3. IsCommand(cmd')
      BY <3>2 DEF IsCommand, Makers, Importers, Signers
    <3>4. Placed(disk', cmd')
      BY <2>1, <2>2, <2>3, <2>5, <3>2 DEF Placed, Makers, Importers, Archive
    <3>5. Typed'
      BY <1>1, <2>1, <3>1, <3>3, <3>4 DEF Inv, Typed
    <3>6. SignedInv'
      BY <2>1, <3>2 DEF Inv, SignedInv
    <3>7. todo # <<"unarchive">>
      <4>1. "unarchive" \notin Names
        BY DEF Names, Order, ToSet
      <4>2. todo[1] \in Names
        BY <2>3, <2>5
      <4> QED
        BY <4>1, <4>2
    <3>8. Taking'
      <4>1. Undisturbed' => disk' = past'.before
        BY <1>5, <2>1 DEF Undisturbed
      <4> QED
        BY <2>1, <2>3, <3>2, <3>7, <4>1 DEF Taking, Archive, Signers
    <3>9. Making' /\ SuccessDelivers' /\ FailureKeepsDocument' /\ VerifiedWasSigned'
      BY <3>1, <3>2 DEF Making, SuccessDelivers, FailureKeepsDocument, VerifiedWasSigned, Finished,
        Makers, Importers
    <3> QED
      BY <3>5, <3>6, <3>8, <3>9 DEF Inv
  <2> QED
    BY <2>4, <2>5
<1> QED
  BY <1>7, <1>8

\* A member that was unpacked stays as it is in the archive while the others are.
LEMMA UnpackMemberKeeps ==
  ASSUME Inv, UnpackMember
  PROVE  Inv'
<1> DEFINE n == cmd.todo[1]
           f == IF disk.folder = None THEN Empty ELSE disk.folder
           holding(x) == [disk EXCEPT !.folder = Put(IF @ = None THEN Empty ELSE @, n, x)]
<1>1. cmd # None /\ cmd.verb = "unpack" /\ n # "unarchive" /\ UNCHANGED redirect
  BY DEF UnpackMember
<1>2. IsDisk(disk) /\ IsCommand(cmd) /\ Placed(disk, cmd) /\ last = None /\ Traced(disk, past.signed)
  BY <1>1 DEF Inv, Typed, SignedInv, Traced
<1>3. cmd.verb \notin Makers \union Signers /\ cmd.verb # "sign" /\ Signs = past.signed
  BY <1>1 DEF Makers, Importers, Signers, Signs
<1>4. /\ cmd.todo \in Seq(Names) /\ cmd.todo # << >> /\ cmd.todo # <<"unarchive">>
      /\ disk.archive # None /\ n \in DOMAIN Archive /\ n \in Names
  <2>1. cmd.todo # <<"unarchive">>
    BY <1>1
  <2>2. cmd.todo \in Seq(Names) /\ cmd.todo # << >> /\ disk.archive # None /\ n \in DOMAIN Archive
    BY <1>1, <1>2, <2>1 DEF Placed, Archive
  <2> QED
    BY <2>1, <2>2
<1>5. IsContainer(Archive) /\ Archive \in Found(disk) /\ Archive[n] \in Bytes(n)
  <2>1. IsContainer(Archive)
    BY <1>2, <1>4 DEF IsDisk, IsArchive, Archive
  <2> QED
    BY <1>4, <2>1, ContainerIs DEF Found, Archive, IsContainer
<1>6. CASE disk.folder = Occupied
  <2>1. Fails
    BY <1>6 DEF UnpackMember
  <2>2. Undisturbed => disk = past.before
    BY <1>1, <1>6 DEF Inv, Taking, IsFolder
  <2> QED
    BY <1>1, <2>1, <2>2, FailsKeeps DEF Kept
<1>7. CASE disk.folder # Occupied
  <2>1. IsContainer(f)
    BY <1>2, <1>7, EmptyIs DEF IsDisk
  <2>2. Signed(f) => disk.folder \in Found(disk) /\ f = disk.folder
    BY <1>7, EmptyIs DEF Signed, Has, Found
  <2> HIDE DEF n
  <2>3. ASSUME NEW x, x = Archive[n] \/ x = Torn, NEW d, d = holding(x)
        PROVE  ChangedTo(disk, d, "folder", Put(f, n, x)) /\ Follows(d, past.signed) /\ IsFolder(d.folder)
    <3> DEFINE e == Put(f, n, x)
    <3>1. x \in Bytes(n)
      BY <1>4, <1>5, <2>3, BytesIs
    <3>2. IsContainer(e)
      BY <1>4, <2>1, <3>1, PutTyped
    <3>3. IsFolder(e)
      BY <3>2, ContainerIs DEF IsFolder
    <3>4. Signed(e) => e[Signature].over \in past.signed
      <4>1. CASE n = Signature
        <5>1. e[Signature] = x
          BY <4>1 DEF Put
        <5>2. Signed(e) => Signed(Archive) /\ e[Signature] = Archive[Signature]
          BY <1>4, <2>3, <4>1, <5>1 DEF Signed, Has
        <5> QED
          BY <1>2, <1>5, <5>2 DEF Traced
      <4>2. CASE n # Signature
        <5>1. Signed(e) => Signed(f) /\ e[Signature] = f[Signature]
          BY <4>2 DEF Signed, Put, Has
        <5> QED
          BY <1>2, <2>2, <5>1 DEF Traced
      <4> QED
        BY <4>1, <4>2
    <3> HIDE DEF e
    <3>5. d = [disk EXCEPT !["folder"] = e]
      BY <2>3 DEF e
    <3> HIDE DEF f
    <3>6. ChangedTo(disk, d, "folder", e)
      BY <1>2, <3>5, ExceptIs
    <3>7. IsDisk(d)
      BY <1>2, <3>2, <3>6 DEF IsDisk, ChangedTo
    <3>8. Traced(d, past.signed)
      <4>1. Found(d) \subseteq Found(disk) \union {e}
        BY <3>6 DEF Found, ChangedTo
      <4> QED
        BY <1>2, <3>4, <4>1 DEF Traced
    <3> QED
      BY <1>3, <1>4, <3>3, <3>6, <3>7, <3>8 DEF Follows, ChangedTo, e
  <2>4. Follows(disk, past.signed)
    BY <1>2, <1>3, <1>4 DEF Follows
  <2>5. CASE Faultless(holding(Archive[n]))
    <3> DEFINE d == holding(Archive[n])
               e == Put(f, n, Archive[n])
    <3>1. ChangedTo(disk, d, "folder", e) /\ Follows(d, past.signed) /\ IsFolder(d.folder)
      BY <2>3
    <3> HIDE DEF d
    <3>2. Faultless(d)
      BY <2>5 DEF d
    <3>3. /\ disk' = d /\ (GoesOn \/ EndsHere)
          /\ Typed' /\ SignedInv' /\ VerifiedWasSigned' /\ FailureKeepsDocument'
          /\ past'.before = past.before /\ Undisturbed' = Undisturbed
          /\ past'.trouble = past.trouble /\ past'.edited = past.edited
      BY <1>1, <1>3, <3>1, <3>2, FaultlessKeeps
    <3>4. disk'.folder = e /\ disk'.archive = disk.archive /\ IsFolder(disk'.folder)
      BY <3>1, <3>3 DEF ChangedTo
    <3>5. ASSUME Undisturbed, NEW m \in DOMAIN Archive, m \notin ToSet(Tail(cmd.todo))
          PROVE  Has(e, m) /\ e[m] = Archive[m]
      <4>1. CASE m = n
        BY <4>1 DEF Put, Has
      <4>2. CASE m # n
        <5>1. m \notin ToSet(cmd.todo)
          <6>1. ASSUME m \in ToSet(cmd.todo) PROVE FALSE
            <7>1. PICK i \in 1..Len(cmd.todo) : cmd.todo[i] = m
              BY <1>4, <6>1 DEF ToSet
            <7>2. i # 1
              BY <4>2, <7>1 DEF n
            <7>3. i - 1 \in 1..Len(Tail(cmd.todo)) /\ Tail(cmd.todo)[i - 1] = m
              BY <1>4, <7>1, <7>2
            <7>4. Tail(cmd.todo) \in Seq(Names)
              BY <1>4
            <7> QED
              BY <3>5, <7>3, <7>4 DEF ToSet
          <6> QED
            BY <6>1
        <5>2. IsFolder(disk.folder) /\ Has(disk.folder, m) /\ disk.folder[m] = Archive[m]
          BY <1>1, <1>4, <3>5, <5>1 DEF Inv, Taking, Archive
        <5>3. f = disk.folder
          BY <5>2 DEF IsFolder
        <5> QED
          BY <4>2, <5>2, <5>3 DEF Put, Has
      <4> QED
        BY <4>1, <4>2
    <3> HIDE DEF e, f
    <3>6. CASE GoesOn
      <4>1. /\ cmd'.verb = "unpack" /\ last' = None /\ cmd'.todo # <<"unarchive">>
            /\ \A m \in DOMAIN Archive : m \in ToSet(Tail(cmd.todo)) => m \in ToSet(cmd'.todo)
        <5>1. cmd' = [cmd EXCEPT !.todo = cmd'.todo]
          BY <3>6 DEF GoesOn
        <5>2. cmd'.verb = "unpack"
          BY <1>1, <1>2, <5>1 DEF IsCommand
        <5> QED
          BY <1>1, <3>6, <5>2 DEF GoesOn
      <4>2. Undisturbed => \A m \in DOMAIN Archive :
              m \in ToSet(cmd'.todo) \/ (Has(e, m) /\ e[m] = Archive[m])
        BY <3>5, <4>1
      <4>3. Taking'
        BY <1>1, <3>3, <3>4, <4>1, <4>2 DEF Taking, Archive, Signers
      <4>4. Making' /\ SuccessDelivers'
        BY <4>1 DEF Making, SuccessDelivers, Finished, Makers, Importers
      <4> QED
        BY <3>3, <4>3, <4>4 DEF Inv
    <3>7. CASE EndsHere
      <4>1. Ends(0) /\ \A m \in DOMAIN Archive : m \notin ToSet(Tail(cmd.todo))
        BY <1>1, <3>7 DEF EndsHere
      <4>2. cmd' = None /\ last'.verb = "unpack" /\ last'.exit = 0
        BY <1>1, <4>1, EndsIs DEF Inv
      <4>3. Undisturbed => \A m \in DOMAIN Archive : e[m] = Archive[m]
        BY <3>5, <4>1
      <4>4. Undisturbed => Delivered'
        BY <3>4, <4>2, <4>3 DEF Delivered, Archive
      <4>5. past.trouble \in {"none", "silent"}
        BY <1>1 DEF Inv, Typed
      <4>6. SuccessDelivers'
        BY <3>3, <4>2, <4>4, <4>5 DEF SuccessDelivers, Undisturbed
      <4>7. Making' /\ Taking'
        BY <4>2 DEF Making, Taking
      <4> QED
        BY <3>3, <4>6, <4>7 DEF Inv
    <3> QED
      BY <3>3, <3>6, <3>7
  <2>6. CASE Faulty(disk, "failed")
    BY <1>1, <2>4, <2>6, FaultyKeeps
  <2>7. CASE \E how \in {"failed", "unnoticed", "crash"} : Faulty(holding(Torn), how)
    <3>1. PICK how \in {"failed", "unnoticed", "crash"} : Faulty(holding(Torn), how)
      BY <2>7
    <3> DEFINE d == holding(Torn)
    <3>2. Follows(d, past.signed)
      BY <2>3
    <3> HIDE DEF d
    <3>3. Faulty(d, how)
      BY <3>1 DEF d
    <3> QED
      BY <1>1, <3>2, <3>3, FaultyKeeps
  <2> QED
    BY <1>7, <2>5, <2>6, <2>7 DEF UnpackMember, n
<1> QED
  BY <1>6, <1>7

-----------------------------------------------------------------------------
(* Beginning a command.                                                    *)

\* The sequence s is what a command does from where it has k steps left.
Fits(verb, k, s) ==
  s \in Seq(StepNames) /\ \A i \in 1..Len(s) : Does(verb, k - i + 1, s[i])

\* Two sequences that follow each other on a script are one.
LEMMA FitsJoin ==
  ASSUME NEW verb, NEW k, k \in Nat, NEW s, NEW t, NEW rest, rest = k - Len(s),
         Fits(verb, k, s), Fits(verb, rest, t), NEW u, u = s \o t
  PROVE  Fits(verb, k, u) /\ Len(u) = Len(s) + Len(t)
<1>1. s \in Seq(StepNames) /\ t \in Seq(StepNames) /\ Len(s) \in Nat /\ Len(t) \in Nat
  BY DEF Fits
<1>2. s \o t \in Seq(StepNames) /\ Len(s \o t) = Len(s) + Len(t)
  BY <1>1
<1>3. ASSUME NEW i \in 1..Len(s \o t) PROVE Does(verb, k - i + 1, (s \o t)[i])
  <2>1. CASE i <= Len(s)
    <3>1. i \in 1..Len(s) /\ (s \o t)[i] = s[i]
      BY <1>1, <1>2, <2>1
    <3> QED
      BY <3>1 DEF Fits
  <2>2. CASE i > Len(s)
    <3> DEFINE j == i - Len(s)
    <3>1. j \in 1..Len(t) /\ rest - j + 1 = k - i + 1
      BY <1>1, <1>2, <2>2
    <3>2. (s \o t)[i] = t[j]
      BY <1>1, <1>2, <2>2
    <3>3. Does(verb, rest - j + 1, t[j])
      BY <3>1 DEF Fits
    <3> QED
      BY <3>1, <3>2, <3>3
  <2> QED
    BY <1>1, <1>2, <2>1, <2>2
<1> QED
  BY <1>2, <1>3 DEF Fits

\* Short sequences, by their elements.
LEMMA FitsShort ==
  ASSUME NEW verb, NEW k \in Nat
  PROVE  /\ Fits(verb, k, << >>)
         /\ \A a \in StepNames : Does(verb, k, a) => Fits(verb, k, <<a>>)
         /\ \A a, b \in StepNames :
              Does(verb, k, a) /\ Does(verb, k - 1, b) => Fits(verb, k, <<a, b>>)
         /\ \A a, b, c \in StepNames :
              Does(verb, k, a) /\ Does(verb, k - 1, b) /\ Does(verb, k - 2, c) => Fits(verb, k, <<a, b, c>>)
<1>1. Fits(verb, k, << >>)
  BY DEF Fits
<1>2. ASSUME NEW a \in StepNames, Does(verb, k, a) PROVE Fits(verb, k, <<a>>)
  <2>1. <<a>> \in Seq(StepNames) /\ Len(<<a>>) = 1 /\ <<a>>[1] = a
    OBVIOUS
  <2>2. k - 1 + 1 = k
    OBVIOUS
  <2> QED
    BY <1>2, <2>1, <2>2 DEF Fits
<1>3. ASSUME NEW a \in StepNames, NEW b \in StepNames, Does(verb, k, a), Does(verb, k - 1, b)
      PROVE  Fits(verb, k, <<a, b>>)
  <2>1. <<a, b>> \in Seq(StepNames) /\ Len(<<a, b>>) = 2 /\ <<a, b>>[1] = a /\ <<a, b>>[2] = b
    OBVIOUS
  <2>2. k - 1 + 1 = k /\ k - 2 + 1 = k - 1
    OBVIOUS
  <2>3. \A i \in 1..2 : i = 1 \/ i = 2
    OBVIOUS
  <2> QED
    BY <1>3, <2>1, <2>2, <2>3 DEF Fits
<1>4. ASSUME NEW a \in StepNames, NEW b \in StepNames, NEW c \in StepNames,
             Does(verb, k, a), Does(verb, k - 1, b), Does(verb, k - 2, c)
      PROVE  Fits(verb, k, <<a, b, c>>)
  <2>1. /\ <<a, b, c>> \in Seq(StepNames) /\ Len(<<a, b, c>>) = 3
        /\ <<a, b, c>>[1] = a /\ <<a, b, c>>[2] = b /\ <<a, b, c>>[3] = c
    OBVIOUS
  <2>2. k - 1 + 1 = k /\ k - 2 + 1 = k - 1 /\ k - 3 + 1 = k - 2
    OBVIOUS
  <2>3. \A i \in 1..3 : i = 1 \/ i = 2 \/ i = 3
    OBVIOUS
  <2> QED
    BY <1>4, <2>1, <2>2, <2>3 DEF Fits
<1> QED
  BY <1>1, <1>2, <1>3, <1>4

\* What create and the importers do ends in the same way.
LEMMA FinishFits ==
  ASSUME NEW verb, verb \in Makers, NEW at, at \in {"folder", "staging"}
  PROVE  /\ Fits(verb, 3, Finish(at)) /\ Len(Finish(at)) = IF at = "folder" THEN 1 ELSE 3
         /\ Fits(verb, ContentAt(verb), Document) /\ Len(Document) = 3
<1>1. /\ Does(verb, 3, "audit.log") /\ Does(verb, 2, "archive") /\ Does(verb, 1, "clean")
      /\ {"audit.log", "archive", "clean", Content, "metadata.yaml", Manifest} \subseteq StepNames
  BY NamesIs DEF Does, StepNames, Written
<1> DEFINE entry == <<"audit.log">>
<1>2. Fits(verb, 3, entry) /\ Len(entry) = 1
  <2>1. Fits(verb, 3, entry)
    BY <1>1, FitsShort
  <2> QED
    BY <2>1
<1> HIDE DEF entry
<1>3. Fits(verb, 2, << >>) /\ Len(<< >>) = 0
  BY FitsShort
<1>4. Fits(verb, 2, <<"archive", "clean">>) /\ Len(<<"archive", "clean">>) = 2
  <2>1. 2 - 1 = 1 /\ 2 \in Nat /\ Len(<<"archive", "clean">>) = 2
    OBVIOUS
  <2>2. Does(verb, 2 - 1, "clean")
    BY <1>1, <2>1
  <2> QED
    BY <1>1, <2>1, <2>2, FitsShort
<1> DEFINE rest == IF at = "staging" THEN <<"archive", "clean">> ELSE << >>
<1>5. Fits(verb, 2, rest) /\ Len(rest) = IF at = "folder" THEN 0 ELSE 2
  BY <1>3, <1>4
<1> HIDE DEF rest
<1>6. Finish(at) = entry \o rest
  BY DEF Finish, entry, rest
<1>7. Fits(verb, 3, Finish(at)) /\ Len(Finish(at)) = IF at = "folder" THEN 1 ELSE 3
  <2>1. 2 = 3 - Len(entry) /\ 3 \in Nat
    BY <1>2
  <2>2. Fits(verb, 3, entry) /\ Fits(verb, 2, rest)
    BY <1>2, <1>5
  <2>3. Fits(verb, 3, Finish(at))
    BY <1>6, <2>1, <2>2, FitsJoin
  <2>4. Len(Finish(at)) = Len(entry) + Len(rest)
    BY <1>6, <2>1, <2>2, FitsJoin
  <2> QED
    BY <1>2, <1>5, <2>3, <2>4
<1>8. Fits(verb, ContentAt(verb), Document) /\ Len(Document) = 3
  <2> DEFINE k == ContentAt(verb)
  <2>1. k \in Nat
    BY EntryIs
  <2>2. Does(verb, k, Content) /\ Does(verb, k - 1, "metadata.yaml") /\ Does(verb, k - 2, Manifest)
    BY DEF Does
  <2> HIDE DEF k
  <2>3. Fits(verb, k, <<Content, "metadata.yaml", Manifest>>)
    BY <1>1, <2>1, <2>2, FitsShort
  <2> QED
    BY <2>3 DEF Document, k
<1> QED
  BY <1>7, <1>8

\* A command that has begun, on a disk that is ready for it.
LEMMA BegunKeeps ==
  ASSUME Inv, Ready, NEW verb, NEW at, NEW todo, NEW text, NEW asset,
         Begun(verb, at, todo, text, asset),
         NEW c, c = [verb |-> verb, at |-> at, todo |-> todo, text |-> text, asset |-> asset, seen |-> None],
         IsCommand(c), Placed(disk', c),
         IsDisk(disk'), Traced(disk', past.signed), IsFolder(disk.folder) => IsFolder(disk'.folder),
         verb \in Makers => MadeAt(disk', c, disk, Left(c)),
         verb \notin Makers => disk' = disk,
         verb = "sign" => Left(c) = 3,
         verb = "unpack" => todo = <<"unarchive">>
  PROVE  Inv'
<1>1. cmd' = c /\ last' = None /\ UNCHANGED redirect /\ c.verb = verb /\ c.todo = todo
  BY DEF Begun
<1>2. spent' \in [commands : 0..MaxCommands, troubles : 0..MaxTroubles]
  BY CommandLineConstants DEF Begun, Ready, Inv, Typed
<1>3. /\ past' = [before |-> past'.before, trouble |-> past'.trouble, edited |-> past'.edited,
                  views |-> past'.views, signed |-> past'.signed]
      /\ past'.before = disk /\ past'.trouble = "none" /\ past'.edited = FALSE
      /\ past'.signed = past.signed
      /\ verb = "sign" /\ IsFolder(disk.folder) => past'.views = {Covered(disk.folder)}
  BY DEF Begun, Inv, Typed
<1>4. Typed'
  BY <1>1, <1>2, <1>3 DEF Typed, Inv
<1>5. SignedInv'
  <2>1. \A d \in Found(disk') : Signed(d) => d[Signature].over \in past'.signed
    BY <1>3 DEF Traced
  <2>2. verb = "sign" => disk' = disk
    BY DEF Makers, Importers
  <2> QED
    BY <1>1, <1>3, <2>1, <2>2 DEF SignedInv
<1>6. Making'
  BY <1>1, <1>3 DEF Making
<1>7. Taking'
  <2>1. verb \in Signers => disk' = disk /\ verb # "unpack"
    BY DEF Makers, Importers, Signers
  <2>2. verb = "unpack" => disk' = disk /\ verb \notin Signers
    BY DEF Makers, Importers, Signers
  <2>3. verb = "sign" => verb \in Signers
    BY DEF Signers
  <2> QED
    BY <1>1, <1>3, <2>1, <2>2, <2>3 DEF Taking
<1>8. SuccessDelivers' /\ FailureKeepsDocument' /\ VerifiedWasSigned'
  BY <1>1 DEF SuccessDelivers, FailureKeepsDocument, VerifiedWasSigned, Finished
<1> QED
  BY <1>4, <1>5, <1>6, <1>7, <1>8 DEF Inv

\* The disk a document is made on: nothing is on it that the command has not made.
LEMMA PreparedIs ==
  ASSUME Inv, NEW at, at \in {"folder", "staging"}, NEW d, d = Prepared(at)
  PROVE  /\ IsDisk(d) /\ Traced(d, past.signed) /\ (IsFolder(disk.folder) => IsFolder(d.folder))
         /\ Emptied(d) = Emptied(disk)
         /\ at = "staging" => d.staging = Empty
<1>1. IsDisk(disk) /\ Traced(disk, past.signed)
  BY DEF Inv, Typed, SignedInv, Traced
<1>2. IsFolder(Empty) /\ ~Signed(Empty) /\ Empty # None
  BY EmptyIs, ContainerIs DEF IsFolder, Signed, Has
<1> DEFINE f == IF disk.folder = None THEN Empty ELSE disk.folder
<1>3. CASE at = "folder"
  <2>1. d = [disk EXCEPT !["folder"] = f]
    BY <1>3 DEF Prepared
  <2>2. IsContainer(f) \/ f = Occupied
    BY <1>1, EmptyIs DEF IsDisk
  <2>3. f \in Found(disk) \union {Occupied, Empty}
    BY <1>1 DEF IsDisk, Found
  <2>4. (IsFolder(disk.folder) => IsFolder(f)) /\ f # None
    BY <1>2 DEF IsFolder
  <2>5. (IF disk.folder = None THEN Empty ELSE disk.folder) = f /\ (IF f = None THEN Empty ELSE f) = f
    BY <1>2
  <2> HIDE DEF f
  <2>6. ChangedTo(disk, d, "folder", f)
    BY <1>1, <2>1, ExceptIs
  <2>7. IsDisk(d)
    BY <1>1, <2>2, <2>6 DEF IsDisk, ChangedTo
  <2>8. Traced(d, past.signed)
    <3>1. Found(d) \subseteq Found(disk) \union {Empty}
      BY <2>3, <2>6 DEF Found, ChangedTo
    <3> QED
      BY <1>1, <1>2, <3>1 DEF Traced
  <2>9. Emptied(d) = Emptied(disk)
    BY <1>1, <2>5, <2>6 DEF Emptied, ChangedTo, IsDisk
  <2> QED
    BY <1>3, <2>4, <2>6, <2>7, <2>8, <2>9 DEF ChangedTo
<1>4. CASE at = "staging"
  <2>1. d = [disk EXCEPT !["staging"] = Empty]
    BY <1>4 DEF Prepared
  <2>2. ChangedTo(disk, d, "staging", Empty)
    BY <1>1, <2>1, ExceptIs
  <2>3. IsDisk(d)
    BY <1>1, <2>2, EmptyIs DEF IsDisk, ChangedTo
  <2>4. Traced(d, past.signed)
    <3>1. Found(d) \subseteq Found(disk) \union {Empty}
      BY <2>2 DEF Found, ChangedTo
    <3> QED
      BY <1>1, <1>2, <3>1 DEF Traced
  <2>5. Emptied(d) = Emptied(disk)
    BY <1>1, <2>2 DEF Emptied, ChangedTo, IsDisk
  <2> QED
    BY <1>4, <2>2, <2>3, <2>4, <2>5 DEF ChangedTo
<1> QED
  BY <1>3, <1>4

\* What create and the importers begin with.
LEMMA MakerBegins ==
  ASSUME Inv, Ready, NEW verb, verb \in Makers, NEW at, at \in {"folder", "staging"},
         disk' = Prepared(at), NEW todo, NEW k, k \in {6, 7, 9, 10}, Fits(verb, k, todo),
         Len(todo) = k - (IF at = "folder" THEN 2 ELSE 0),
         k = EntryAt(verb) \/ (verb = "create" /\ k = 7),
         NEW text, text \in Texts \/ (text = None /\ verb \in Importers),
         NEW asset, asset \in Pictures \union {None, Missing}, k = 7 => asset # None,
         verb = "create" /\ k = 6 => asset = None,
         Begun(verb, at, todo, text, asset)
  PROVE  Inv'
<1> DEFINE c == [verb |-> verb, at |-> at, todo |-> todo, text |-> text, asset |-> asset, seen |-> None]
<1>1. /\ c.verb = verb /\ c.at = at /\ c.todo = todo /\ c.text = text /\ c.asset = asset
      /\ c = [verb |-> c.verb, at |-> c.at, todo |-> c.todo, text |-> c.text, asset |-> c.asset, seen |-> c.seen]
  OBVIOUS
<1>2. /\ verb \notin Signers /\ verb # "unpack" /\ verb # "sign" /\ verb # "render -o" /\ verb # "pack"
      /\ verb # "keygen"
  BY DEF Makers, Importers, Signers
<1>3. /\ IsDisk(disk') /\ Traced(disk', past.signed) /\ (IsFolder(disk.folder) => IsFolder(disk'.folder))
      /\ Emptied(disk') = Emptied(disk)
      /\ at = "staging" => disk'.staging = Empty
  BY PreparedIs
<1> HIDE DEF c
<1>4. Left(c) = k /\ k >= EntryAt(verb)
  <2>1. Shift(c) = IF at = "folder" THEN 2 ELSE 0
    BY <1>1 DEF Shift
  <2> QED
    BY <1>1, <2>1, EntryIs DEF Left
<1>5. OnScript(c)
  <2>1. Len(todo) \in Nat /\ Len(todo) > 0
    BY DEF Fits
  <2> QED
    BY <1>1, <1>4, <2>1 DEF OnScript, Fits
<1>6. IsCommand(c)
  <2>1. text = None => verb \in Importers /\ k = EntryAt(verb)
    BY CommandLineConstants DEF Importers
  <2> QED
    BY <1>1, <1>2, <1>4, <1>5, <2>1 DEF IsCommand
<1>7. Placed(disk', c)
  <2>1. at = "staging" => disk'.staging # None
    BY <1>3, EmptyIs, ContainerIs
  <2>2. ~(Left(c) < EntryAt(verb))
    BY <1>4, EntryIs
  <2> QED
    BY <1>1, <1>2, <2>1, <2>2 DEF Placed
<1>8. MadeAt(disk', c, disk, Left(c))
  <2>1. k > 4 /\ k >= ContentAt(verb) /\ ~(verb \in Importers /\ k < EntryAt(verb))
        /\ (asset \in Pictures => k > ContentAt(verb))
        /\ ContentAt(verb) > 5
    BY <1>4, EntryIs, CommandLineConstants DEF Makers, Importers
  <2>2. Holds(IF at = "staging" /\ k = 0 THEN disk'.archive.members ELSE disk'[at], verb, text, asset, k)
    BY <2>1, EntryIs DEF Holds
  <2>3. at = "folder" => Kept(disk', c, disk)
    BY <1>3 DEF Kept
  <2>4. MadeBy(verb, asset, k) = {}
    BY <2>1, EntryIs DEF MadeBy
  <2>5. at = "staging" => DOMAIN disk'.staging = {} /\ k # 0 /\ k # 1
    BY <1>3, EmptyIs
  <2> QED
    BY <1>1, <1>3, <1>4, <2>1, <2>2, <2>3, <2>4, <2>5 DEF MadeAt
<1>9. Begun(verb, at, todo, text, asset)
  OBVIOUS
<1> QED
  BY <1>2, <1>3, <1>6, <1>7, <1>8, BegunKeeps DEF c

\* create begins on its script.
LEMMA CreateKeeps ==
  ASSUME Inv, NEW source \in DOMAIN Canonical, NEW asset \in Pictures \union {None, Missing},
         NEW at, at \in {"folder", "staging"}, Create(source, asset, at)
  PROVE  Inv'
<1> DEFINE first == IF asset = None THEN << >> ELSE <<"assets">>
           k == IF asset = None THEN 6 ELSE 7
           todo == first \o Document \o Finish(at)
           text == Canonical[source]
<1>1. Ready /\ disk' = Prepared(at) /\ Begun("create", at, todo, text, asset)
  BY DEF Create
<1>2. text \in Texts
  BY CommandLineConstants
<1>3. "create" \in Makers /\ ContentAt("create") = 6 /\ EntryAt("create") = 6
  BY EntryIs DEF Makers
<1>4. /\ Fits("create", 3, Finish(at)) /\ Len(Finish(at)) = IF at = "folder" THEN 1 ELSE 3
      /\ Fits("create", 6, Document) /\ Len(Document) = 3
  BY <1>3, FinishFits
<1>5. Fits("create", k, first) /\ Len(first) = k - 6
  <2>1. Does("create", 7, "assets") /\ "assets" \in StepNames
    BY DEF Does, StepNames
  <2>2. CASE asset = None
    BY <2>2, FitsShort
  <2>3. CASE asset # None
    <3>1. Fits("create", 7, <<"assets">>)
      BY <2>1, FitsShort
    <3> QED
      BY <2>3, <3>1
  <2> QED
    BY <2>2, <2>3
<1> HIDE DEF first, text
<1>6. k \in {6, 7} /\ k - (k - 6) = 6 /\ 6 - 3 = 3 /\ k \in Nat
  OBVIOUS
<1> DEFINE begin == first \o Document
<1>7. Fits("create", k, begin) /\ Len(begin) = k - 3
  <2>1. 6 = k - Len(first) /\ begin = first \o Document
    BY <1>5, <1>6
  <2> HIDE DEF begin, k
  <2>2. Fits("create", k, first) /\ Fits("create", 6, Document) /\ k \in Nat
    BY <1>4, <1>5, <1>6
  <2>3. Fits("create", k, begin)
    BY <2>1, <2>2, FitsJoin
  <2>4. Len(begin) = Len(first) + Len(Document)
    BY <2>1, <2>2, FitsJoin
  <2> QED
    BY <1>4, <1>5, <1>6, <2>3, <2>4
<1>8. todo = begin \o Finish(at)
  OBVIOUS
<1> HIDE DEF begin, todo, k
<1>9. Fits("create", k, todo) /\ Len(todo) = k - (IF at = "folder" THEN 2 ELSE 0)
  <2>1. 3 = k - Len(begin)
    BY <1>6, <1>7
  <2>2. Fits("create", k, begin) /\ Fits("create", 3, Finish(at)) /\ k \in Nat
    BY <1>4, <1>6, <1>7
  <2>3. Fits("create", k, todo)
    BY <1>8, <2>1, <2>2, FitsJoin
  <2>4. Len(todo) = Len(begin) + Len(Finish(at))
    BY <1>8, <2>1, <2>2, FitsJoin
  <2> QED
    BY <1>4, <1>6, <1>7, <2>3, <2>4
<1>10. /\ k = EntryAt("create") \/ k = 7
       /\ k = 7 => asset # None
       /\ k = 6 => asset = None
  BY <1>3 DEF k
<1> QED
  BY <1>1, <1>2, <1>3, <1>6, <1>9, <1>10, MakerBegins

\* So do the importers.
LEMMA ImportKeeps ==
  ASSUME Inv, NEW i \in Imports, NEW at, at \in {"folder", "staging"}, Import(i, at)
  PROVE  Inv'
<1> DEFINE verb == i.verb
           a == ContentAt(verb)
           k == EntryAt(verb)
           m == IF verb = "import-epub" THEN 5 ELSE 4
           first == <<"convert", "image">>
           schema == IF verb = "import-epub" THEN <<"schema.yaml">> ELSE << >>
           again == <<Manifest>>
           text == IF i.text = None THEN None ELSE Canonical[i.text]
           todo == first \o Document \o schema \o again \o Finish(at)
<1>1. Ready /\ disk' = Prepared(at) /\ Begun(verb, at, todo, text, i.asset)
  BY DEF Import
<1>2. /\ text \in Texts \union {None} /\ i.asset \in Pictures \union {None, Missing}
      /\ verb \in Importers
  BY CommandLineConstants DEF Importers
<1>3. /\ verb \in Makers /\ verb # "create" /\ k = a + 2 /\ a \in {7, 8} /\ k \in {9, 10} /\ k \in Nat
      /\ m = a - 3 /\ m \in Nat
  BY <1>2, EntryIs DEF Makers, Importers
<1>4. /\ Fits(verb, 3, Finish(at)) /\ Len(Finish(at)) = IF at = "folder" THEN 1 ELSE 3
      /\ Fits(verb, a, Document) /\ Len(Document) = 3
  BY <1>3, FinishFits
<1> HIDE DEF verb, text
<1>5. Fits(verb, k, first) /\ Len(first) = 2
  <2>1. Does(verb, k, "convert") /\ Does(verb, k - 1, "image")
    BY <1>2, <1>3 DEF Does
  <2>2. {"convert", "image"} \subseteq StepNames
    BY DEF StepNames
  <2> HIDE DEF k
  <2>3. Fits(verb, k, first)
    BY <1>3, <2>1, <2>2, FitsShort
  <2> QED
    BY <2>3
<1>6. Fits(verb, m, schema) /\ Len(schema) = a - 7
  <2>1. CASE verb = "import-epub"
    <3>1. Does(verb, 5, "schema.yaml") /\ "schema.yaml" \in StepNames
      BY <2>1, NamesIs DEF Does, StepNames, Written
    <3>2. Fits(verb, 5, <<"schema.yaml">>)
      BY <3>1, FitsShort
    <3> QED
      BY <1>3, <2>1, <3>2
  <2>2. CASE verb # "import-epub"
    <3>1. Fits(verb, 4, << >>)
      BY FitsShort
    <3> QED
      BY <1>3, <2>2, <3>1
  <2> QED
    BY <2>1, <2>2
<1>7. Fits(verb, 4, again) /\ Len(again) = 1
  <2>1. Does(verb, 4, Manifest) /\ Manifest \in StepNames
    BY <1>3, NamesIs DEF Does, StepNames, Written
  <2>2. Fits(verb, 4, again)
    BY <2>1, FitsShort
  <2> QED
    BY <2>2
<1> HIDE DEF first, schema, again, a, k, m
<1> DEFINE s == first \o Document
<1>8. Fits(verb, k, s) /\ Len(s) = 5
  <2>1. a = k - Len(first) /\ s = first \o Document
    BY <1>3, <1>5
  <2> HIDE DEF s
  <2>2. Fits(verb, k, first) /\ Fits(verb, a, Document) /\ k \in Nat
    BY <1>3, <1>5, <1>4
  <2>3. Fits(verb, k, s)
    BY <2>1, <2>2, FitsJoin
  <2>4. Len(s) = Len(first) + Len(Document)
    BY <2>1, <2>2, FitsJoin
  <2> QED
    BY <1>3, <1>5, <1>4, <2>3, <2>4
<1> HIDE DEF s
<1> DEFINE t == s \o schema
<1>9. Fits(verb, k, t) /\ Len(t) = a - 2
  <2>1. m = k - Len(s) /\ t = s \o schema
    BY <1>3, <1>8
  <2> HIDE DEF t
  <2>2. Fits(verb, k, s) /\ Fits(verb, m, schema) /\ k \in Nat
    BY <1>3, <1>8, <1>6
  <2>3. Fits(verb, k, t)
    BY <2>1, <2>2, FitsJoin
  <2>4. Len(t) = Len(s) + Len(schema)
    BY <2>1, <2>2, FitsJoin
  <2> QED
    BY <1>3, <1>8, <1>6, <2>3, <2>4
<1> HIDE DEF t
<1> DEFINE u == t \o again
<1>10. Fits(verb, k, u) /\ Len(u) = a - 1
  <2>1. 4 = k - Len(t) /\ u = t \o again
    BY <1>3, <1>9
  <2> HIDE DEF u
  <2>2. Fits(verb, k, t) /\ Fits(verb, 4, again) /\ k \in Nat
    BY <1>3, <1>9, <1>7
  <2>3. Fits(verb, k, u)
    BY <2>1, <2>2, FitsJoin
  <2>4. Len(u) = Len(t) + Len(again)
    BY <2>1, <2>2, FitsJoin
  <2> QED
    BY <1>3, <1>9, <1>7, <2>3, <2>4
<1> HIDE DEF u
<1>11. todo = u \o Finish(at)
  BY DEF s, t, u
<1> HIDE DEF todo
<1>12. Fits(verb, k, todo) /\ Len(todo) = k - (IF at = "folder" THEN 2 ELSE 0)
  <2>1. 3 = k - Len(u)
    BY <1>3, <1>10
  <2>2. Fits(verb, k, u) /\ Fits(verb, 3, Finish(at)) /\ k \in Nat
    BY <1>3, <1>4, <1>10
  <2>3. Fits(verb, k, todo)
    BY <1>11, <2>1, <2>2, FitsJoin
  <2>4. Len(todo) = Len(u) + Len(Finish(at))
    BY <1>11, <2>1, <2>2, FitsJoin
  <2> QED
    BY <1>3, <1>4, <1>10, <2>3, <2>4
<1>13. k \in {6, 7, 9, 10} /\ k = EntryAt(verb) /\ k # 7
  BY <1>3 DEF k
<1> QED
  BY <1>1, <1>2, <1>3, <1>12, <1>13, MakerBegins

\* So do the commands that make no document.
LEMMA TakerScript ==
  ASSUME NEW c, c.verb \in Signers, NEW n, n \in {1, 3}, Len(c.todo) = n, Fits(c.verb, n, c.todo)
  PROVE  OnScript(c) /\ Left(c) = n
<1>1. c.verb \notin Makers
  BY DEF Makers, Importers, Signers
<1>2. Shift(c) = 0
  BY <1>1 DEF Shift
<1>3. Left(c) = n
  BY <1>2 DEF Left
<1> QED
  BY <1>3 DEF OnScript, Fits

\* Beginning one of them changes nothing on the disk.
LEMMA TakerBegins ==
  ASSUME Inv, Ready, NEW verb, verb \in Signers \union {"unpack"}, NEW at, NEW todo, NEW text,
         NEW n, n \in {1, 3}, verb # "unpack" => Len(todo) = n /\ Fits(verb, n, todo),
         verb = "sign" => n = 3,
         verb = "unpack" => todo = <<"unarchive">>,
         verb \in {"pack", "render -o"} => at \in {"folder", "archive"},
         verb = "sign" => at = "folder", verb = "keygen" => text \in {"ed25519", "x25519"},
         Begun(verb, at, todo, text, None), UNCHANGED disk
  PROVE  Inv'
<1> DEFINE c == [verb |-> verb, at |-> at, todo |-> todo, text |-> text, asset |-> None, seen |-> None]
<1>1. /\ c.verb = verb /\ c.at = at /\ c.todo = todo /\ c.text = text
      /\ c = [verb |-> c.verb, at |-> c.at, todo |-> c.todo, text |-> c.text, asset |-> c.asset, seen |-> c.seen]
  OBVIOUS
<1> HIDE DEF c
<1>2. verb \notin Makers
  BY DEF Makers, Importers, Signers
<1>3. verb # "unpack" => OnScript(c) /\ Left(c) = n
  <2>1. ASSUME verb # "unpack" PROVE OnScript(c) /\ Left(c) = n
    <3>1. verb \in Signers /\ Len(todo) = n /\ Fits(verb, n, todo)
      BY <2>1
    <3>2. c.verb \in Signers /\ Len(c.todo) = n /\ Fits(c.verb, n, c.todo)
      BY <1>1, <3>1
    <3> QED
      BY <3>2, TakerScript
  <2> QED
    BY <2>1
<1>4. IsCommand(c)
  BY <1>1, <1>2, <1>3 DEF IsCommand
<1>5. Placed(disk', c)
  <2>1. verb = "sign" => ~(Left(c) < 3)
    BY <1>3
  <2> QED
    BY <1>1, <1>2, <2>1 DEF Placed
<1>6. IsDisk(disk') /\ Traced(disk', past.signed)
  BY DEF Inv, Typed, SignedInv, Traced
<1>7. Begun(verb, at, todo, text, None) /\ c = [verb |-> verb, at |-> at, todo |-> todo, text |-> text,
                                               asset |-> None, seen |-> None]
  BY DEF c
<1>8. (verb = "sign" => Left(c) = 3) /\ (verb = "sign" => verb # "unpack")
  BY <1>3
<1> QED
  BY <1>2, <1>4, <1>5, <1>6, <1>7, <1>8, BegunKeeps

\* pack, render, keygen, sign and unpack begin.
LEMMA TakersBegin ==
  ASSUME Inv
  PROVE  /\ \A from \in {"folder", "archive"} : Pack(from) \/ Render(from) => Inv'
         /\ \A k \in {"ed25519", "x25519"} : Keygen(k) => Inv'
         /\ Sign \/ Unpack => Inv'
<1>1. /\ {"archive", "page", "key", "read", "compare", "sign"} \subseteq StepNames
      /\ Does("pack", 1, "archive") /\ Does("render -o", 1, "page") /\ Does("keygen", 1, "key")
      /\ Does("sign", 3, "read") /\ Does("sign", 3 - 1, "compare") /\ Does("sign", 3 - 2, "sign")
  BY DEF Does, StepNames
<1>2. ASSUME NEW verb, verb \in {"pack", "render -o", "keygen"}, NEW name, name \in StepNames, Does(verb, 1, name),
             NEW todo, todo = <<name>>, NEW at, NEW text,
             verb \in {"pack", "render -o"} => at \in {"folder", "archive"},
             verb = "keygen" => text \in {"ed25519", "x25519"},
             Ready, Begun(verb, at, todo, text, None), UNCHANGED disk
      PROVE  Inv'
  <2>1. Len(todo) = 1
    BY <1>2
  <2>2. Fits(verb, 1, todo)
    BY <1>2, FitsShort
  <2>3. verb \in Signers \union {"unpack"} /\ verb # "unpack" /\ verb # "sign"
    BY <1>2 DEF Signers
  <2>4. 1 \in {1, 3}
    OBVIOUS
  <2> QED
    BY <1>2, <2>1, <2>2, <2>3, <2>4, TakerBegins
<1>3. ASSUME NEW from \in {"folder", "archive"}, Pack(from) PROVE Inv'
  <2>1. Ready /\ Begun("pack", from, <<"archive">>, None, None) /\ UNCHANGED disk
    BY <1>3 DEF Pack
  <2> QED
    BY <1>1, <1>2, <2>1
<1>4. ASSUME NEW from \in {"folder", "archive"}, Render(from) PROVE Inv'
  <2>1. Ready /\ Begun("render -o", from, <<"page">>, None, None) /\ UNCHANGED disk
    BY <1>4 DEF Render
  <2> QED
    BY <1>1, <1>2, <2>1
<1>5. ASSUME NEW k \in {"ed25519", "x25519"}, Keygen(k) PROVE Inv'
  <2>1. Ready /\ Begun("keygen", None, <<"key">>, k, None) /\ UNCHANGED disk
    BY <1>5 DEF Keygen
  <2> QED
    BY <1>1, <1>2, <2>1
<1>6. ASSUME Sign PROVE Inv'
  <2> DEFINE todo == <<"read", "compare", "sign">>
  <2>1. Ready /\ Begun("sign", "folder", todo, None, None) /\ UNCHANGED disk
    BY <1>6 DEF Sign
  <2>2. Fits("sign", 3, todo)
    BY <1>1, FitsShort
  <2>3. Len(todo) = 3 /\ 3 \in {1, 3}
    OBVIOUS
  <2> HIDE DEF todo
  <2>4. "sign" \in Signers \union {"unpack"}
    BY DEF Signers
  <2> QED
    BY <2>1, <2>2, <2>3, <2>4, TakerBegins
<1>7. ASSUME Unpack PROVE Inv'
  <2>1. Ready /\ Begun("unpack", "folder", <<"unarchive">>, None, None) /\ UNCHANGED disk
    BY <1>7 DEF Unpack
  <2>2. 1 \in {1, 3}
    OBVIOUS
  <2> QED
    BY <2>1, <2>2, TakerBegins
<1> QED
  BY <1>3, <1>4, <1>5, <1>6, <1>7

\* What is forgotten.
LEMMA UnwatchedIs ==
  ASSUME Typed, NEW u, u = Unwatched
  PROVE  /\ u = [before |-> u.before, trouble |-> u.trouble, edited |-> u.edited,
                 views |-> u.views, signed |-> u.signed]
         /\ u.before = None /\ u.trouble = "none" /\ u.edited = FALSE
         /\ u.views = {} /\ u.signed = past.signed
<1>1. past = [before |-> past.before, trouble |-> past.trouble, edited |-> past.edited,
              views |-> past.views, signed |-> past.signed]
  BY DEF Typed
<1>2. u = [before |-> u.before, trouble |-> u.trouble, edited |-> u.edited,
           views |-> u.views, signed |-> u.signed]
  BY <1>1 DEF Unwatched
<1>3. u.before = None /\ u.trouble = "none" /\ u.views = {}
  BY <1>1 DEF Unwatched
<1>4. u.edited = FALSE
  BY <1>1 DEF Unwatched
<1>5. u.signed = past.signed
  BY <1>1 DEF Unwatched
<1> QED
  BY <1>2, <1>3, <1>4, <1>5

\* A report tells what is there: a signature that verifies is on the disk, and so was made by sign.
LEMMA ReportsKeep ==
  ASSUME Inv, NEW from \in {"folder", "archive"}, Reports(from)
  PROVE  Inv'
<1> DEFINE c == Source(from)
<1>1. cmd = None /\ cmd' = None /\ past' = Unwatched /\ UNCHANGED <<disk, redirect, spent>>
  BY DEF Reports
<1>2. PICK doubted \in SUBSET (IF c = None THEN {} ELSE Doubted(c)) :
        last' = [verb |-> "reports", at |-> from, text |-> None, asset |-> None,
                 exit |-> [verb \in Verbs \union {"misused", "unreadable"} |-> Exit(c, doubted, verb)]]
  BY DEF Reports
<1>3. /\ last' = [verb |-> last'.verb, exit |-> last'.exit, at |-> last'.at,
                  text |-> last'.text, asset |-> last'.asset]
      /\ last'.at = from /\ last'.verb = "reports"
  BY <1>2
<1>4. last'.exit["verify"] = Exit(c, doubted, "verify")
  BY <1>2 DEF Verbs
<1>5. Typed'
  BY <1>1, <1>3, UnwatchedIs DEF Inv, Typed
<1>6. SignedInv'
  BY <1>1, UnwatchedIs DEF SignedInv, Inv
<1>7. VerifiedWasSigned'
  <2>1. ASSUME Exit(c, doubted, "verify") = 0 PROVE Covered(c) \in past.signed
    <3>1. c # None /\ Report(c)["verify"]
      BY <2>1 DEF Exit, Verbs
    <3>2. ManifestOK(c) /\ SignatureOK(c)
      BY <3>1 DEF Report
    <3>3. IsDisk(disk) /\ c \in Found(disk)
      BY <3>1, SourceIs DEF Inv, Typed
    <3>4. c[Signature] = [over |-> Covered(c)] /\ Has(c, Signature) /\ c[Manifest] = Covered(c)
      BY <3>2 DEF ManifestOK, SignatureOK
    <3>5. IsContainer(c)
      BY <3>1, SourceIs DEF Inv, Typed
    <3>6. c[Signature] # Torn
      BY <3>4, <3>5, ContainerIs, CommandLineConstants
    <3>7. Signed(c) /\ c[Signature].over = Covered(c)
      BY <3>4, <3>6 DEF Signed
    <3> QED
      BY <3>3, <3>7 DEF Inv, SignedInv
  <2>2. Source(from)' = Source(from)
    BY <1>1 DEF Source
  <2>3. past'.signed = past.signed
    BY <1>1, UnwatchedIs DEF Inv
  <2> QED
    BY <1>3, <1>4, <2>1, <2>2, <2>3 DEF VerifiedWasSigned
<1>8. Making' /\ Taking' /\ SuccessDelivers' /\ FailureKeepsDocument'
  BY <1>1, UnwatchedIs DEF Making, Taking, SuccessDelivers, FailureKeepsDocument, Finished, Inv
<1> QED
  BY <1>5, <1>6, <1>7, <1>8 DEF Inv

\* A crash leaves the disk as it is, and nothing is claimed of the command.
LEMMA CrashKeeps ==
  ASSUME Inv, Crash
  PROVE  Inv'
<1>1. cmd' = None /\ last' = None /\ past' = Unwatched /\ UNCHANGED <<disk, redirect>>
  BY DEF Crash
<1>2. spent' \in [commands : 0..MaxCommands, troubles : 0..MaxTroubles]
  BY CommandLineConstants DEF Inv, Typed, Crash
<1>3. Typed' /\ SignedInv'
  BY <1>1, <1>2, UnwatchedIs DEF Inv, Typed, SignedInv
<1>4. Making' /\ Taking' /\ SuccessDelivers' /\ FailureKeepsDocument' /\ VerifiedWasSigned'
  BY <1>1 DEF Making, Taking, SuccessDelivers, FailureKeepsDocument, VerifiedWasSigned, Finished
<1> QED
  BY <1>3, <1>4 DEF Inv

-----------------------------------------------------------------------------
(* What else happens to the folder.                                        *)

\* A save by somebody else is remembered: the properties of success and failure are off, and sign's
\* views grow by what was written.
LEMMA EditedKeeps ==
  ASSUME Inv, IsFolder(disk.folder), NEW n \in Names \ {Signature}, NEW v \in Bytes(n),
         NEW seen, NEW f, f = Put(disk.folder, n, v),
         Covered(f) \in seen \union past.views \/ Covered(f) = Covered(disk.folder),
         n = Manifest => v \in seen \union {Torn},
         Edited(f, seen), spent' \in [commands : 0..MaxCommands, troubles : 0..MaxTroubles],
         redirect' \in Views \union {None, Torn}
  PROVE  Inv'
<1>1. disk' = [disk EXCEPT !["folder"] = f] /\ last' = None /\ cmd' = cmd
  BY DEF Edited
<1>2. IsDisk(disk) /\ IsContainer(disk.folder) /\ Traced(disk, past.signed)
  BY DEF Inv, Typed, SignedInv, Traced, IsDisk, IsFolder
<1>3. IsContainer(f)
  BY <1>2, PutTyped
<1>4. IsFolder(f)
  BY <1>3, ContainerIs DEF IsFolder
<1>5. ChangedTo(disk, disk', "folder", f)
  BY <1>1, <1>2, ExceptIs
<1>6. IsDisk(disk')
  BY <1>2, <1>3, <1>5 DEF IsDisk, ChangedTo
<1>7. Signed(f) => Signed(disk.folder) /\ f[Signature] = disk.folder[Signature]
  BY DEF Signed, Put, Has
<1>8. Traced(disk', past.signed)
  <2>1. Found(disk') \subseteq Found(disk) \union {f}
    BY <1>5 DEF Found, ChangedTo
  <2>2. disk.folder \in Found(disk)
    BY DEF Found, IsFolder
  <2> QED
    BY <1>2, <1>7, <2>1, <2>2 DEF Traced
<1>9. /\ past' = [before |-> past'.before, trouble |-> past'.trouble, edited |-> past'.edited,
                  views |-> past'.views, signed |-> past'.signed]
      /\ past'.signed = past.signed /\ past'.trouble \in {past.trouble, "none"} /\ past'.edited \in BOOLEAN
      /\ cmd # None => past'.edited = TRUE /\ past'.trouble = past.trouble
      /\ cmd # None /\ cmd.verb = "sign" => past'.views = past.views \union seen
  <2>1. CASE cmd = None
    BY <2>1, UnwatchedIs DEF Edited, Inv
  <2>2. CASE cmd # None
    BY <2>2 DEF Edited, Inv, Typed
  <2> QED
    BY <2>1, <2>2
<1>10. disk'.folder = f /\ disk'.staging = disk.staging /\ disk'.archive = disk.archive
  BY <1>5 DEF ChangedTo
<1>11. cmd # None => Placed(disk', cmd)
  <2>1. ASSUME cmd # None PROVE Placed(disk', cmd)
    <3>1. Placed(disk, cmd) /\ IsCommand(cmd)
      BY <2>1 DEF Inv, Typed
    <3>2. cmd.verb \in Makers => cmd.at \in {"folder", "staging"}
      BY <3>1 DEF IsCommand
    <3>3. cmd.verb \in Makers /\ Left(cmd) < EntryAt(cmd.verb) => IsFolder(disk'[cmd.at])
      BY <1>4, <1>10, <3>1, <3>2 DEF Placed
    <3> QED
      BY <1>4, <1>10, <3>1, <3>3 DEF Placed
  <2> QED
    BY <2>1
<1>12. Typed'
  BY <1>1, <1>4, <1>6, <1>9, <1>10, <1>11 DEF Typed, Inv
<1>13. SignedInv'
  <2>1. \A c \in Found(disk') : Signed(c) => c[Signature].over \in past'.signed
    BY <1>8, <1>9 DEF Traced
  <2>2. ASSUME cmd # None, cmd.verb = "sign"
        PROVE  /\ Covered(f) \in past'.views
               /\ Left(cmd) < 3 /\ Has(f, Manifest) /\ f[Manifest] # Torn =>
                    f[Manifest] \in past'.views \union (IF Left(cmd) = 2 THEN {cmd.seen} ELSE {})
    <3>1. past'.views = past.views \union seen
      BY <1>9, <2>2
    <3>2. Covered(disk.folder) \in past.views
      BY <2>2 DEF Inv, SignedInv
    <3>3. CASE n = Manifest
      BY <3>1, <3>2, <3>3 DEF Put
    <3>4. CASE n # Manifest
      <4>1. Has(f, Manifest) => Has(disk.folder, Manifest) /\ f[Manifest] = disk.folder[Manifest]
        BY <3>4 DEF Put, Has
      <4> QED
        BY <2>2, <3>1, <3>2, <4>1 DEF Inv, SignedInv
    <3> QED
      BY <3>3, <3>4
  <2> QED
    BY <1>1, <1>10, <2>1, <2>2 DEF SignedInv
<1>14. Making' /\ Taking' /\ SuccessDelivers' /\ FailureKeepsDocument' /\ VerifiedWasSigned'
  BY <1>1, <1>9 DEF Making, Taking, Undisturbed, SuccessDelivers, FailureKeepsDocument,
    VerifiedWasSigned, Finished
<1> QED
  BY <1>12, <1>13, <1>14 DEF Inv

\* The bound on troubles is kept.
LEMMA SpendsIs ==
  ASSUME Inv, Spends
  PROVE  spent' \in [commands : 0..MaxCommands, troubles : 0..MaxTroubles]
BY CommandLineConstants DEF Inv, Typed, Spends

\* The editor and the shell.
LEMMA OthersKeep ==
  ASSUME Inv, Others
  PROVE  Inv'
<1> DEFINE f(n, v) == Put(disk.folder, n, v)
<1>1. ASSUME NEW t \in Texts, EditContent(t) PROVE Inv'
  <2>1. /\ IsFolder(disk.folder) /\ Edited(f(Content, t), {Covered(f(Content, t))}) /\ Spends
        /\ UNCHANGED redirect
    BY <1>1 DEF EditContent
  <2>2. Content \in Names \ {Signature} /\ Content # Manifest /\ t \in Bytes(Content)
    BY NamesIs, BytesIs DEF Written, Content, Manifest
  <2>3. spent' \in [commands : 0..MaxCommands, troubles : 0..MaxTroubles]
    BY <2>1, SpendsIs
  <2>4. redirect' \in Views \union {None, Torn}
    BY <2>1 DEF Inv, Typed
  <2> QED
    BY <2>1, <2>2, <2>3, <2>4, EditedKeeps
<1>2. ASSUME OpenRedirect PROVE Inv'
  <2>1. IsFolder(disk.folder) /\ Edited(f(Manifest, Torn), {}) /\ Spends /\ redirect' = Torn
    BY <1>2 DEF OpenRedirect
  <2>2. Manifest \in Names \ {Signature} /\ Torn \in Bytes(Manifest)
    BY NamesIs, BytesIs DEF Written
  <2>3. spent' \in [commands : 0..MaxCommands, troubles : 0..MaxTroubles]
    BY <2>1, SpendsIs
  <2>4. Covered(f(Manifest, Torn)) = Covered(disk.folder)
    BY PutBeside DEF Excluded
  <2> QED
    BY <2>1, <2>2, <2>3, <2>4, EditedKeeps
<1>3. ASSUME BuildManifest PROVE Inv'
  <2>1. redirect = Torn /\ redirect' = Covered(disk.folder) /\ UNCHANGED <<disk, cmd, last, past, spent>>
    BY <1>3 DEF BuildManifest
  <2>2. IsFolder(disk.folder) /\ Covered(disk.folder) \in Views
    <3>1. IsFolder(disk.folder) /\ IsDisk(disk)
      BY <2>1, CommandLineConstants DEF Inv, Typed
    <3> QED
      BY <3>1, ContainerIs DEF IsDisk, IsFolder
  <2>3. Typed'
    BY <2>1, <2>2 DEF Inv, Typed
  <2>4. SignedInv' /\ Making' /\ Taking'
    BY <2>1 DEF Inv, SignedInv, Making, Taking, Undisturbed
  <2>5. SuccessDelivers' /\ FailureKeepsDocument' /\ VerifiedWasSigned'
    BY <2>1 DEF Inv, SuccessDelivers, FailureKeepsDocument, VerifiedWasSigned, Finished, Delivered,
      MadeOf, Wanted, Source
  <2> QED
    BY <2>3, <2>4, <2>5 DEF Inv
<1>4. ASSUME WriteRedirect PROVE Inv'
  <2>1. redirect \notin {None, Torn} /\ redirect' = None /\ UNCHANGED spent
    BY <1>4 DEF WriteRedirect
  <2>2. PICK v \in {redirect, Torn} : Edited(f(Manifest, v), {redirect})
    BY <1>4 DEF WriteRedirect
  <2>3. IsFolder(disk.folder) /\ redirect \in Views
    BY <2>1 DEF Inv, Typed
  <2>4. Manifest \in Names \ {Signature} /\ v \in Bytes(Manifest)
    BY <2>2, <2>3, NamesIs, BytesIs DEF Written
  <2>5. spent' \in [commands : 0..MaxCommands, troubles : 0..MaxTroubles]
    BY <2>1 DEF Inv, Typed
  <2>6. Covered(f(Manifest, v)) = Covered(disk.folder)
    BY PutBeside DEF Excluded
  <2> QED
    BY <2>1, <2>2, <2>3, <2>4, <2>5, <2>6, EditedKeeps
<1> QED
  BY <1>1, <1>2, <1>3, <1>4 DEF Others

-----------------------------------------------------------------------------
(* The theorems.                                                           *)

\* The invariant holds of every disk to begin with.
LEMMA InitInv == Init => Inv
<1> SUFFICES ASSUME Init PROVE Inv
  OBVIOUS
<1>1. cmd = None /\ last = None /\ redirect = None /\ IsDisk(disk)
  BY WorldsAssumption DEF Init
<1>2. Typed
  BY <1>1, CommandLineConstants DEF Init, Typed
<1>3. \A c \in Found(disk) : Signed(c) => c[Signature].over \in past.signed
  BY DEF Init
<1>4. SignedInv /\ Making /\ Taking
  BY <1>1, <1>3 DEF SignedInv, Making, Taking
<1>5. SuccessDelivers /\ FailureKeepsDocument /\ VerifiedWasSigned
  BY <1>1 DEF SuccessDelivers, FailureKeepsDocument, VerifiedWasSigned, Finished
<1> QED
  BY <1>2, <1>4, <1>5 DEF Inv

\* Every step keeps the invariant.
LEMMA StepInv == Inv /\ [Next]_vars => Inv'
<1> SUFFICES ASSUME Inv, [Next]_vars PROVE Inv'
  OBVIOUS
<1>1. CASE Begin
  <2>1. ASSUME NEW at \in {"folder", "staging"}, NEW source \in DOMAIN Canonical,
               NEW asset \in Pictures \union {None, Missing}, Create(source, asset, at)
        PROVE  Inv'
    BY <2>1, CreateKeeps
  <2>2. ASSUME NEW at \in {"folder", "staging"}, NEW i \in Imports, Import(i, at) PROVE Inv'
    BY <2>2, ImportKeeps
  <2>3. ASSUME NEW from \in {"folder", "archive"}, Reports(from) PROVE Inv'
    BY <2>3, ReportsKeep
  <2> QED
    BY <1>1, <2>1, <2>2, <2>3, TakersBegin DEF Begin
<1>2. CASE Continue
  <2>1. CASE CopyAssets
    BY <2>1, CopyAssetsKeeps
  <2>2. CASE Convert
    BY <2>2, ConvertKeeps
  <2>3. CASE CopyImage
    BY <2>3, CopyImageKeeps
  <2>4. CASE WriteContent
    BY <2>4, WriteContentKeeps
  <2>5. CASE WriteDerived
    BY <2>5, WriteDerivedKeeps
  <2>6. CASE AppendAudit
    BY <2>6, AppendAuditKeeps
  <2>7. CASE ReadArchive
    BY <2>7, ReadArchiveKeeps
  <2>8. CASE UnpackMember
    BY <2>8, UnpackMemberKeeps
  <2>9. CASE WriteArchive
    BY <2>9, WriteArchiveKeeps
  <2>10. CASE RemoveStaging
    BY <2>10, RemoveStagingKeeps
  <2>11. CASE ReadManifest
    BY <2>11, ReadManifestKeeps
  <2>12. CASE CompareFolder
    BY <2>12, CompareFolderKeeps
  <2>13. CASE SignManifest
    BY <2>13, SignManifestKeeps
  <2>14. CASE WriteKey
    BY <2>14, WriteKeyKeeps
  <2>15. CASE WritePage
    BY <2>15, WritePageKeeps
  <2>16. CASE Crash
    BY <2>16, CrashKeeps
  <2> QED
    BY <1>2, <2>1, <2>2, <2>3, <2>4, <2>5, <2>6, <2>7, <2>8, <2>9, <2>10, <2>11, <2>12, <2>13,
       <2>14, <2>15, <2>16 DEF Continue
<1>3. CASE Others
  BY <1>3, OthersKeep
<1>4. CASE UNCHANGED vars
  <2>1. UNCHANGED <<disk, cmd, redirect, last, past, spent>>
    BY <1>4 DEF vars
  <2>2. Typed' /\ SignedInv' /\ Making' /\ Taking'
    BY <2>1 DEF Inv, Typed, SignedInv, Making, Taking, Undisturbed
  <2>3. SuccessDelivers' /\ FailureKeepsDocument' /\ VerifiedWasSigned'
    BY <2>1 DEF Inv, SuccessDelivers, FailureKeepsDocument, VerifiedWasSigned, Finished, Delivered,
      MadeOf, Wanted, Source
  <2> QED
    BY <2>2, <2>3 DEF Inv
<1> QED
  BY <1>1, <1>2, <1>3, <1>4 DEF Next

\* What is on the disk, what a command has made of it and where its signatures come from are as
\* the invariant says, whatever is typed, fails or is edited, in whatever order.
THEOREM Invariant == Spec => []Inv
<1>1. Init => Inv
  BY InitInv
<1>2. Inv /\ [Next]_vars => Inv'
  BY StepInv
<1> QED
  BY <1>1, <1>2, PTL DEF Spec

\* A command that exits with 0 has done what it was asked for, whatever was on the disk before,
\* unless a write failed that the code does not look at, or somebody changed the folder meanwhile.
THEOREM SuccessAlwaysDelivers == Spec => []SuccessDelivers
<1>1. Inv => SuccessDelivers
  BY DEF Inv
<1> QED
  BY <1>1, Invariant, PTL

\* A command that fails of itself leaves the document, the archive, the key and the page alone,
\* `create --assets` over a document excepted.
THEOREM FailureAlwaysKeepsDocument == Spec => []FailureKeepsDocument
<1>1. Inv => FailureKeepsDocument
  BY DEF Inv
<1> QED
  BY <1>1, Invariant, PTL

\* What `mcdf verify` accepts was in the folder while a command signed it, whatever was packed,
\* cut off, unpacked, torn, edited or rebuilt since.
THEOREM VerifiedAlwaysWasSigned == Spec => []VerifiedWasSigned
<1>1. Inv => VerifiedWasSigned
  BY DEF Inv
<1> QED
  BY <1>1, Invariant, PTL

\* What is on the disk has its type, a command that runs has something left to do, one that has
\* ended has a proper exit code, and no more happens than the bounds allow.
THEOREM TypeCorrect == Spec => []TypeOK
<1>1. Inv => TypeOK
  <2> SUFFICES ASSUME Inv PROVE TypeOK
    OBVIOUS
  <2>1. cmd # None => cmd.todo # << >> /\ last = None
    <3>1. ASSUME cmd # None PROVE cmd.todo # << >> /\ last = None
      <4>1. IsCommand(cmd) /\ Placed(disk, cmd) /\ last = None
        BY <3>1 DEF Inv, Typed
      <4>2. CASE cmd.verb = "unpack"
        <5>1. <<"unarchive">> # << >>
          OBVIOUS
        <5>2. cmd.todo = <<"unarchive">> \/ cmd.todo # << >>
          BY <4>1, <4>2 DEF Placed
        <5> QED
          BY <4>1, <5>1, <5>2
      <4>3. CASE cmd.verb # "unpack"
        BY <4>1, <4>3, LeftIs
      <4> QED
        BY <4>1, <4>2, <4>3
    <3> QED
      BY <3>1
  <2>2. spent.commands <= MaxCommands /\ spent.troubles <= MaxTroubles
    BY CommandLineConstants DEF Inv, Typed
  <2> QED
    BY <2>1, <2>2 DEF Inv, Typed, TypeOK
<1> QED
  BY <1>1, Invariant, PTL

=============================================================================
