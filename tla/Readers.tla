------------------------------- MODULE Readers -------------------------------
(***************************************************************************)
(* One packed document on its way to its readers.  Pack writes it; a       *)
(* transfer cuts it short, another program adds to it, a block goes bad;   *)
(* the C reader opens it step by step, and at every moment the C++ library *)
(* and the TypeScript engine could open it too.                            *)
(***************************************************************************)
EXTENDS MicroReader, Validation, FiniteSetsExt

CONSTANTS
  Documents, \* the documents packed: each a mapping of names to contents
  Meaning,   \* Meaning[c]: what a content parses to
  Extras,    \* what tar -r may add: <<name, content>>
  MaxDamage  \* bound: kinds of damage to one archive

ASSUME ReadersConstants ==
  /\ MaxDamage \in Nat /\ Extras \subseteq Names \X Contents
  /\ \A c \in Contents \union {Garbage} : WellTyped(Meaning[c])
  /\ \A d \in Documents : DOMAIN d \subseteq Names /\ d \in [DOMAIN d -> Contents]
  \* What byte order says of the names that no manifest lists.
  /\ \A i, j \in DOMAIN PathOrder :
       PathOrder[i] \in {"audit.log", "audit.checkpoint"} /\ PathOrder[j] = "manifest.json" => i < j

\* A container as the ladder sees it.
Parsed(members) == [n \in DOMAIN members |-> Meaning[members[n]]]

VARIABLES
  packed,  \* the document as packed
  damage   \* what has happened to the archive since

vars == <<archive, reader, cursor, asked, packed, damage>>

Init ==
  /\ packed \in Documents /\ damage = {}
  /\ archive = Pack(packed)
  /\ MicroInit

\* The archive changes between readers, in each way at most once.
Becomes(a, kind) ==
  /\ reader = Closed /\ kind \notin damage /\ Cardinality(damage) < MaxDamage
  /\ archive' = a /\ damage' = damage \union {kind}
  /\ UNCHANGED <<reader, cursor, asked, packed>>

Ended == archive.bytes % Block = 0 /\ TarRead(archive).ok
           /\ \A i \in {Len(archive.blocks) - 1, Len(archive.blocks)} : archive.blocks[i] = Zero

Cut(n)      == n < archive.bytes /\ Becomes(Truncated(archive, n), "cut")
AddTo(n, c) == "cut" \notin damage /\ Ended /\ Becomes(Added(archive, n, c), "added")
Wrap(type)  == "cut" \notin damage /\ Becomes(Foreword(archive, type), "foreword")
Rot(i)      == Becomes(Rotten(archive, i), "rotten")

Next ==
  \/ \E n \in 0 .. archive.bytes : Cut(n)
  \/ \E e \in Extras : AddTo(e[1], e[2])
  \/ \E type \in Kinds \ {"file"} : Wrap(type)
  \/ \E i \in DOMAIN archive.blocks : Rot(i)
  \/ MicroNext /\ UNCHANGED <<packed, damage>>

Spec == Init /\ [][Next]_vars

----------------------------------------------------------------------------
TypeOK ==
  /\ MicroTypeOK
  /\ packed \in Documents
  /\ damage \subseteq {"cut", "added", "foreword", "rotten"} /\ Cardinality(damage) <= MaxDamage

\* The C reader has just been opened.
JustOpen == reader.status = "open" /\ ~cursor.on /\ asked.within = 0

MicroMembers ==
  FirstOf([i \in DOMAIN reader.entries |->
             [name  |-> reader.entries[i].name,
              value |-> Value(archive, reader.entries[i].from \div Block, reader.entries[i].size)]])

\* One archive, one document: what the C reader opens, the C++ library opens with the same
\* members; unpacking it, and the TypeScript engine, differ only in refusing unsafe paths
\* and, for a member that is there twice, in taking the other one.  What the C reader alone
\* refuses was cut (ustar.c, mm_checksum: two implementations must not disagree about which
\* bytes are a document).
SameMembers ==
  LET cpp == CppOpen(archive)  unpacked == CppUnpack(archive)  ts == TsOpen(archive)
  IN  /\ JustOpen =>
           /\ cpp.ok /\ cpp.members = MicroMembers
           /\ unpacked.ok <=> DOMAIN cpp.members \intersect Escaping = {}
           /\ ts.ok <=> DOMAIN cpp.members \intersect (Escaping \union Foreign) = {}
           /\ ts.ok => ts.members = unpacked.members
           /\ unpacked.ok =>
                /\ DOMAIN unpacked.members = DOMAIN cpp.members
                /\ \A n \in DOMAIN cpp.members : unpacked.members[n] # cpp.members[n] =>
                     "added" \in damage /\ n \in DOMAIN packed
      /\ reader.status = "E_PARSE" /\ cpp.ok => "cut" \in damage

\* Of a document that was complete, signed and verified, no beginning passes for the whole:
\* it does not open, or does not load, or the Signed profile reports it, unless only
\* signatures are missing, and not all of them.  The C reader opens it only if nothing is
\* lost.  The order of the members decides this: what the manifest vouches for lies on both
\* sides of it.
Lost(c) == {n \in DOMAIN packed : ~Has(c, n) \/ c[n] # packed[n]}
TruncationNoticed ==
  damage = {"cut"} /\ CppLoads(Parsed(packed)) /\ CppValidate(Parsed(packed), "signed") = {} =>
    LET cpp == CppOpen(archive)  ts == TsOpen(archive)
        passes(loads, issues, c) ==
          loads /\ issues = {} => Lost(c) \subseteq Signatures /\ DOMAIN c \intersect Signatures # {}
    IN  /\ cpp.ok => LET c == Parsed(cpp.members)
                     IN  passes(CppLoads(c), CppValidate(c, "signed"), cpp.members)
        /\ ts.ok  => LET c == Parsed(ts.members)
                     IN  passes(TsLoads(c), TsValidate(c, "signed"), ts.members)
        /\ JustOpen => MicroMembers = packed

\* The signatures whose failure the two implementations name differently: a key that does
\* not decode (the C++ library looks for did:key in an error that does not say it), and a
\* file that ends in a newline (which only the TypeScript engine trims).
Odd(c) == {f \in DOMAIN c \intersect Signatures :
             Is(c, f, "signature") /\ (c[f].newline \/ c[f].kid \in {"no base58", "no point"})}

\* validate.cpp and validate.ts report the same issues at every profile, but for those, for
\* a missing manifest, which C++ reports once more at Signed, and for an extra member whose
\* name every JavaScript object has.
TsAgrees(c) ==
  /\ CppLoads(c) <=> TsLoads(c)
  /\ CppLoads(c) => \A level \in ToSet(Levels) :
       LET cpp == CppValidate(c, level)  ts == TsValidate(c, level)
       IN  /\ cpp \ ts \subseteq {<<"E_IO", "manifest.json">>}
                                   \union {<<"E_SIG_INVALID", f>> : f \in Odd(c)}
                                   \union {<<"E_MANIFEST_EXTRA_FILE", n>> : n \in Inherited}
           /\ ts \ cpp \subseteq {<<"E_KID_UNRESOLVABLE", f>> : f \in Odd(c)}
           /\ ts \ cpp # {} => cpp # {}

\* What the C reader evaluates of the ladder it evaluates as the C++ library does: Integrity
\* always, Core unless content.md is sealed, a list is not indented under its key, or the policy
\* names a schema.yaml that is plain.  It passes nothing the C++ library loads and fails, but
\* for sections it cannot see, and for a sealed document with a schema of no sections, which the
\* C++ library wants attested.
Flush(c) == \E n \in {Policy, "schema.yaml"} : Has(c, n) /\ c[n].kind \in {"policy", "schema"} /\ c[n].flush
SealedInName(c) == "schema.yaml" \in CppSealed(c) /\ Is(c, "schema.yaml", "schema")
NothingToBind(c) == "content.md" \in CppSealed(c) /\ Is(c, "schema.yaml", "schema") /\ c["schema.yaml"].sections = << >>
MicroAgrees(c) ==
  CppLoads(c) =>
    /\ MicroIntegrity(c) = CppIntegrity(c)
    /\ ~Flush(c) /\ ~SealedInName(c) /\ "content.md" \notin CppSealed(c) => MicroCore(c) = CppCore(c)
    /\ MicroCore(c) \union MicroIntegrity(c) = {} /\ CppValidate(c, "integrity") # {} => Flush(c) \/ NothingToBind(c)

\* The three implementations of the ladder agree on whatever becomes of a document.
VerdictsAgree ==
  reader = Closed =>
    LET cpp == CppOpen(archive)  ts == TsOpen(archive)
    IN  \A r \in {s \in {cpp, ts} : s.ok} :
          TsAgrees(Parsed(r.members)) /\ MicroAgrees(Parsed(r.members))
=============================================================================
