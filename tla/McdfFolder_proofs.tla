-------------------------- MODULE McdfFolder_proofs --------------------------
(***************************************************************************)
(* What module McdfFolder guarantees for any processes, members, texts and *)
(* file lists, and any number of encryptions, crashes and saves.           *)
(***************************************************************************)
EXTENDS McdfFolder, SequenceTheorems, FiniteSetTheorems, TLAPS

-----------------------------------------------------------------------------
(* Types.                                                                  *)

\* The markers are not what they stand beside.
LEMMA Markers ==
  /\ Absent \notin Bytes /\ Absent \notin Policy /\ Truncated \notin Policy
  /\ Absent # Truncated
  /\ NoStructure \notin {Attested(Plain(s), Plain(c)) : s, c \in Texts}
<1>1. \A b \in Bytes : DOMAIN b = {"text", "layers"}
  BY DEF Bytes
<1>2. \A pol \in Policy : DOMAIN pol = {"files", "cek", "structure"}
  BY DEF Policy
<1>3. DOMAIN Absent = {"absent"} /\ DOMAIN Truncated = {"truncated"}
  BY DEF Absent, Truncated
<1>4. \A s, c : DOMAIN Attested(s, c) = {"attested", "bound"}
  BY DEF Attested
<1>5. DOMAIN NoStructure = {"attested"}
  BY DEF NoStructure
<1> QED BY <1>1, <1>2, <1>3, <1>4, <1>5

\* A list of files, as a command may be given one.
LEMMA RequestType ==
  ASSUME NEW list \in Requests
  PROVE  /\ list \in Seq(Members) /\ list # << >>
         /\ Len(list) \in Nat \ {0}
         /\ Range(list) \subseteq Members
<1>1. list \in Seq(Members) /\ list # << >>
  BY RequestsAssumption
<1>2. Len(list) \in Nat \ {0}
  BY <1>1, EmptySeq, LenProperties
<1>3. Range(list) \subseteq Members
  BY <1>1, ElementOfSeq, LenProperties DEF Range
<1> QED BY <1>1, <1>2, <1>3

\* What the attestation records is what some two texts bind: headings in
\* ciphertext are none, as in an empty file.
LEMMA AttestedType ==
  ASSUME NEW s \in Bytes, NEW c \in Bytes
  PROVE  Attested(s, c) \in Structure
<1> DEFINE t == IF c.layers = << >> THEN c.text ELSE Empty
<1>1. t \in Texts /\ s.text \in Texts
  BY TextsAssumption DEF Bytes
<1>2. Plain(s.text).text = s.text /\ Plain(t).text = t /\ Plain(t).layers = << >>
  BY DEF Plain
<1>3. HeadingIds(c) = HeadingIds(Plain(t))
  BY <1>2, TextsAssumption DEF HeadingIds
<1>4. BoundSections(s, c) = BoundSections(Plain(s.text), Plain(t))
  BY <1>2, <1>3 DEF BoundSections
<1>5. Attested(s, c) = Attested(Plain(s.text), Plain(t))
  BY <1>4 DEF Attested
<1> QED BY <1>1, <1>5 DEF Structure

LEMMA InitType == Init => TypeOK
<1> SUFFICES ASSUME Init
             PROVE  TypeOK
  OBVIOUS
<1>1. files \in [Members -> Bytes \union {Absent}]
  <2>1. \A t \in Texts : Plain(t) \in Bytes
    BY DEF Plain, Bytes
  <2> QED BY <2>1 DEF Init
<1>2. policy \in Policy \union {Absent, Truncated}
  BY DEF Init
<1>3. ManifestOf(files, Absent) \in Manifest
  BY <1>1 DEF ManifestOf, Manifest
<1>4. manifest \in Manifest \union {Absent, Truncated} /\ before \in Manifest
  BY <1>3 DEF Init
<1>5. op \in [Procs -> Task]
  BY DEF Init, Task
<1>6. studio \in [sealed : SUBSET Members, schema : BOOLEAN] \union {Closed}
  BY DEF Init
<1>7. seals \in 0..MaxSeals /\ crashes \in 0..MaxCrashes /\ saves \in 0..MaxSaves
  BY FolderBounds DEF Init
<1>8. orphaned \subseteq Keys
  BY DEF Init
<1>9. raced \in BOOLEAN /\ disturbed \in BOOLEAN
  BY Zenon DEF Init
<1> QED BY <1>1, <1>2, <1>4, <1>5, <1>6, <1>7, <1>8, <1>9 DEF TypeOK

\* A command between its first and last step, and the member it is at.
LEMMA TaskType ==
  ASSUME TypeOK, NEW p \in Procs, Encrypting(p) \/ Decrypting(p)
  PROVE  /\ op[p] \in [kind : {"encrypt", "decrypt"}, next : Nat \ {0}, policy : Policy]
         /\ op[p].policy \in Policy
         /\ op[p].policy.files \in Requests
         /\ op[p].policy.cek \in Keys
         /\ op[p].next \in Nat \ {0}
         /\ MoreFiles(p) => NextFile(p) \in Members
<1>1. op[p] \in [kind : {"encrypt", "decrypt"}, next : Nat \ {0}, policy : Policy]
  BY DEF TypeOK, Task, Idle, Encrypting, Decrypting
<1>2. op[p].policy.files \in Requests /\ op[p].policy.cek \in Keys
  BY <1>1 DEF Policy
<1>3. MoreFiles(p) => NextFile(p) \in Members
  BY <1>1, <1>2, RequestType, ElementOfSeq DEF MoreFiles, NextFile
<1> QED BY <1>1, <1>2, <1>3

LEMMA SnapshotType == TypeOK => ManifestOf(files, policy) \in Manifest
BY DEF TypeOK, ManifestOf, Manifest

\* One step of a command that has begun moves on to the next member.
LEMMA AdvanceType ==
  ASSUME TypeOK, NEW p \in Procs, Encrypting(p) \/ Decrypting(p)
  PROVE  /\ [op EXCEPT ![p].next = @ + 1] \in [Procs -> Task]
         /\ [op EXCEPT ![p] = Idle] \in [Procs -> Task]
         /\ [op EXCEPT ![p] = [kind |-> "rebuild"]] \in [Procs -> Task]
<1>1. [op[p] EXCEPT !.next = op[p].next + 1]
        \in [kind : {"encrypt", "decrypt"}, next : Nat \ {0}, policy : Policy]
  BY TaskType
<1>2. Idle \in Task /\ [kind |-> "rebuild"] \in Task
  BY DEF Task
<1>3. [op EXCEPT ![p].next = @ + 1] = [op EXCEPT ![p] = [op[p] EXCEPT !.next = op[p].next + 1]]
  BY DEF TypeOK
<1> QED BY <1>1, <1>2, <1>3 DEF TypeOK, Task

LEMMA StepType ==
  ASSUME TypeOK, [Next]_vars
  PROVE  TypeOK'
<1> USE DEF TypeOK
<1>1. ASSUME NEW p \in Procs, NEW list \in Requests, EncryptBegin(p, list)
      PROVE  TypeOK'
  <2>1. seals' = seals + 1 /\ seals' \in Keys
    BY <1>1, FolderBounds DEF EncryptBegin, Keys
  <2>2. AttestationFor(list) \in Structure
    <3>1. AttestationDue(list) => files[Schema] \in Bytes /\ files[Content] \in Bytes
      BY <1>1 DEF EncryptBegin, CanAttest, AttestationDue, SchemaPublishes, Members
    <3>2. NoStructure \in Structure
      BY DEF Structure
    <3> QED BY <3>1, <3>2, AttestedType DEF AttestationFor
  <2>3. [files |-> list, cek |-> seals', structure |-> AttestationFor(list)] \in Policy
    BY <2>1, <2>2 DEF Policy
  <2>4. op' \in [Procs -> Task]
    BY <1>1, <2>3 DEF EncryptBegin, Task
  <2>5. before' \in Manifest
    BY <1>1, SnapshotType DEF EncryptBegin
  <2>6. raced' \in BOOLEAN /\ disturbed' \in BOOLEAN
    BY <1>1, Zenon DEF EncryptBegin, Busy
  <2>7. seals' \in 0..MaxSeals
    BY <2>1, FolderBounds DEF Keys
  <2> QED BY <1>1, <2>4, <2>5, <2>6, <2>7 DEF EncryptBegin
<1>2. ASSUME NEW p \in Procs, SealFile(p)
      PROVE  TypeOK'
  <2> DEFINE m == NextFile(p)
             b == [files[m] EXCEPT !.layers = Append(files[m].layers, op[p].policy.cek)]
  <2>1. m \in Members /\ files[m] \in Bytes /\ op[p].policy.cek \in Keys
    BY <1>2, TaskType DEF SealFile
  <2>2. Append(files[m].layers, op[p].policy.cek) \in Seq(Keys)
    BY <2>1, AppendProperties DEF Bytes
  <2>3. b \in Bytes
    BY <2>1, <2>2 DEF Bytes
  <2>4. files' = [files EXCEPT ![m] = b]
    BY <1>2, <2>1 DEF SealFile
  <2>5. files' \in [Members -> Bytes \union {Absent}]
    BY <2>3, <2>4
  <2>6. op' \in [Procs -> Task]
    BY <1>2, AdvanceType DEF SealFile
  <2> QED BY <1>2, <2>5, <2>6 DEF SealFile, history
<1>3. ASSUME NEW p \in Procs, EncryptFails(p)
      PROVE  TypeOK'
  BY <1>3, TaskType, AdvanceType DEF EncryptFails
<1>4. ASSUME NEW p \in Procs, WritePolicy(p)
      PROVE  TypeOK'
  BY <1>4, TaskType, AdvanceType DEF WritePolicy, history
<1>5. ASSUME NEW p \in Procs, RebuildManifest(p)
      PROVE  TypeOK'
  <2>1. Idle \in Task
    BY DEF Task
  <2> QED BY <1>5, <2>1, SnapshotType DEF RebuildManifest, history
<1>6. ASSUME NEW p \in Procs, DecryptBegin(p)
      PROVE  TypeOK'
  <2>1. [kind |-> "decrypt", next |-> 1, policy |-> policy] \in Task
    BY <1>6 DEF DecryptBegin, PolicyKnown, Task
  <2>2. disturbed' \in BOOLEAN
    BY <1>6, Zenon DEF DecryptBegin, Busy
  <2> QED BY <1>6, <2>1, <2>2 DEF DecryptBegin, history
<1>7. ASSUME NEW p \in Procs, OpenFile(p)
      PROVE  TypeOK'
  <2> DEFINE m == NextFile(p)
             layers == SubSeq(files[m].layers, 1, Len(files[m].layers) - 1)
             b == [files[m] EXCEPT !.layers = layers]
  <2>1. m \in Members /\ files[m] \in Bytes
    BY <1>7, TaskType DEF OpenFile, Opens
  <2>2. layers \in Seq(Keys)
    BY <2>1, LenProperties DEF Bytes
  <2>3. b \in Bytes
    BY <2>1, <2>2 DEF Bytes
  <2>4. files' = [files EXCEPT ![m] = b]
    BY <1>7, <2>1 DEF OpenFile
  <2>5. files' \in [Members -> Bytes \union {Absent}]
    BY <2>3, <2>4
  <2>6. op' \in [Procs -> Task]
    BY <1>7, AdvanceType DEF OpenFile
  <2> QED BY <1>7, <2>5, <2>6 DEF OpenFile, history
<1>8. ASSUME NEW p \in Procs, OpenFails(p) \/ RemovePolicy(p) \/ AttestationFails(p)
      PROVE  TypeOK'
  BY <1>8, AdvanceType DEF OpenFails, RemovePolicy, AttestationFails, history
<1>9. ASSUME NEW p \in Procs, Dies(p)
      PROVE  /\ op' \in [Procs -> Task]
             /\ studio' = studio /\ seals' = seals /\ saves' = saves
             /\ raced' = raced /\ before' = before
             /\ crashes' \in 0..MaxCrashes
             /\ orphaned' \subseteq Keys
             /\ disturbed' \in BOOLEAN
  <2>1. Idle \in Task
    BY DEF Task
  <2>2. crashes' \in 0..MaxCrashes
    BY <1>9, FolderBounds DEF Dies
  <2>3. Encrypting(p) => op[p].policy.cek \in Keys
    BY TaskType
  <2> QED BY <1>9, <2>1, <2>2, <2>3 DEF Dies
<1>10. ASSUME NEW p \in Procs, Crash(p)
       PROVE  TypeOK'
  <2>1. Plain(Empty) \in Bytes
    BY TextsAssumption DEF Plain, Bytes
  <2>2. Dies(p)
    BY <1>10 DEF Crash, CrashBetweenWrites, CrashInMember, CrashInPolicy, CrashInManifest
  <2>3. files' \in [Members -> Bytes \union {Absent}]
    BY <1>10, <2>1
       DEF Crash, CrashBetweenWrites, CrashInMember, CrashInPolicy, CrashInManifest
  <2>4. policy' \in Policy \union {Absent, Truncated}
    BY <1>10 DEF Crash, CrashBetweenWrites, CrashInMember, CrashInPolicy, CrashInManifest
  <2>5. manifest' \in Manifest \union {Absent, Truncated}
    BY <1>10 DEF Crash, CrashBetweenWrites, CrashInMember, CrashInPolicy, CrashInManifest
  <2> QED BY <1>9, <2>2, <2>3, <2>4, <2>5
<1>11. ASSUME StudioLoad
       PROVE  TypeOK'
  <2>1. PolicyKnown => Listed(policy) \subseteq Members
    BY RequestType DEF PolicyKnown, Policy, Listed
  <2>2. (manifest # Truncated /\ IsPlain(files[Schema])) \in BOOLEAN
    BY DEF IsPlain
  <2>3. studio' \in [sealed : SUBSET Members, schema : BOOLEAN]
    BY <1>11, <2>1, <2>2 DEF StudioLoad
  <2> QED BY <1>11, <2>3 DEF StudioLoad, history
<1>12. ASSUME NEW content \in Texts, NEW schema \in Texts, NEW ensure \in BOOLEAN,
              StudioSave(content, schema, ensure)
       PROVE  TypeOK'
  <2>1. Plain(content) \in Bytes /\ Plain(schema) \in Bytes
    BY DEF Plain, Bytes
  <2>2. \A m \in Members : Written(m, content, schema) \in Bytes \union {Absent}
    BY <2>1 DEF Written
  <2>3. files' \in [Members -> Bytes \union {Absent}]
    BY <1>12, <2>2 DEF StudioSave
  <2>4. ManifestOf(files', policy) \in Manifest
    BY <2>3 DEF ManifestOf, Manifest
  <2>5. manifest' \in Manifest \union {Absent, Truncated}
    BY <1>12, <2>4 DEF StudioSave
  <2>6. saves' \in 0..MaxSaves
    BY <1>12, FolderBounds DEF StudioSave
  <2> QED BY <1>12, <2>3, <2>5, <2>6 DEF StudioSave, history
<1>13. CASE UNCHANGED vars
  BY <1>13 DEF vars
<1> HIDE DEF TypeOK
<1> QED
  BY <1>1, <1>2, <1>3, <1>4, <1>5, <1>6, <1>7, <1>8, <1>10, <1>11, <1>12, <1>13
     DEF Next, Encrypt, Decrypt, Studio

\* Members, policy, manifest, pending commands and Studio's memory keep their
\* types, whatever the processes, lists and interruptions.
THEOREM TypeCorrect == Spec => []TypeOK
BY InitType, StepType, PTL DEF Spec

-----------------------------------------------------------------------------
(* The invariant behind Recoverable.  A member's layers are counted per    *)
(* key: a policy or a command in the middle of its list names a member at  *)
(* least as often as the member has layers under its key, so that a        *)
(* decryption that comes to the end of the list has left none.             *)

\* How many of the first n elements of s are x.
Times(s, n, x) == Cardinality({i \in 1..n : s[i] = x})

\* How many layers of a member are under a key.
Depth(b, cek) == IF b = Absent THEN 0 ELSE Times(b.layers, Len(b.layers), cek)

\* The keys a command in the middle of its list is using, and how often it has dealt with a
\* member by now.
Working(o)   == o.kind \in {"encrypt", "decrypt"}
Done(o, m)   == Times(o.policy.files, o.next - 1, m)
All(list, m) == Times(list, Len(list), m)

\* Keys are drawn in turn, and a command stops at the end of its list.
Drawn ==
  /\ \A m \in Members : files[m] # Absent =>
       \A i \in 1..Len(files[m].layers) : files[m].layers[i] <= seals
  /\ PolicyKnown => policy.cek <= seals
  /\ \A p \in Procs : Working(op[p]) =>
       op[p].policy.cek <= seals /\ op[p].next <= Len(op[p].policy.files) + 1

\* A key belongs to one policy, and while it is encrypting it is nobody else's.
OnePolicy ==
  /\ \A p \in Procs :
       Decrypting(p) /\ PolicyKnown /\ policy.cek = op[p].policy.cek => op[p].policy = policy
  /\ \A p, q \in Procs :
       Decrypting(p) /\ Decrypting(q) /\ op[p].policy.cek = op[q].policy.cek =>
         op[p].policy = op[q].policy
  /\ \A p \in Procs : Encrypting(p) =>
       /\ PolicyKnown => policy.cek # op[p].policy.cek
       /\ \A q \in Procs \ {p} : Working(op[q]) => op[q].policy.cek # op[p].policy.cek

\* No member has more layers under a key than the list that carries the key names it: no
\* more than an encryption has come to, and no more than decryptions have not undone, each
\* of them and any two together.
SealedAtMost ==
  \A p \in Procs, m \in Members :
    Encrypting(p) => Depth(files[m], op[p].policy.cek) <= Done(op[p], m)
WrappedAtMost ==
  PolicyKnown => \A m \in Members : Depth(files[m], policy.cek) <= All(policy.files, m)
LeftAtMost ==
  \A p \in Procs, m \in Members :
    Decrypting(p) => Depth(files[m], op[p].policy.cek) + Done(op[p], m) <= All(op[p].policy.files, m)
LeftByTwo ==
  \A p, q \in Procs, m \in Members :
    Decrypting(p) /\ Decrypting(q) /\ p # q /\ op[p].policy.cek = op[q].policy.cek =>
      Depth(files[m], op[p].policy.cek) + Done(op[p], m) + Done(op[q], m) <= All(op[p].policy.files, m)

\* Without overlap, an encryption is the only one, and there is no policy as long as it runs.
Alone ==
  ~raced => \A p \in Procs : Encrypting(p) =>
    policy = Absent /\ \A q \in Procs : Encrypting(q) => p = q

\* A decryption whose policy is gone is at its first member, and nothing is left under its key.
Retired ==
  ~raced => \A p \in Procs : Decrypting(p) =>
    \/ PolicyKnown /\ policy.cek = op[p].policy.cek
    \/ op[p].next = 1 /\ \A m \in Members : Depth(files[m], op[p].policy.cek) = 0

KeysInv ==
  /\ Drawn /\ OnePolicy /\ SealedAtMost /\ WrappedAtMost /\ LeftAtMost /\ LeftByTwo
  /\ Alone /\ Retired

-----------------------------------------------------------------------------
(* Counting.                                                               *)

LEMMA TimesType ==
  ASSUME NEW s, NEW n \in Nat, NEW x
  PROVE  /\ IsFiniteSet({i \in 1..n : s[i] = x})
         /\ Times(s, n, x) \in Nat
         /\ Times(s, n, x) = 0 <=> \A i \in 1..n : s[i] # x
<1>1. IsFiniteSet(1..n)
  BY FS_Interval
<1>2. IsFiniteSet({i \in 1..n : s[i] = x})
  BY <1>1, FS_Subset, Zenon
<1>3. Times(s, n, x) \in Nat
  BY <1>2, FS_CardinalityType DEF Times
<1>4. Times(s, n, x) = 0 <=> {i \in 1..n : s[i] = x} = {}
  BY <1>2, FS_EmptySet DEF Times
<1> QED BY <1>2, <1>3, <1>4

LEMMA TimesZero == ASSUME NEW s, NEW x PROVE Times(s, 0, x) = 0
<1>1. {i \in 1..0 : s[i] = x} = {}
  OBVIOUS
<1> QED BY <1>1, FS_EmptySet DEF Times

LEMMA TimesStep ==
  ASSUME NEW s, NEW n \in Nat, NEW x
  PROVE  Times(s, n + 1, x) = Times(s, n, x) + IF s[n + 1] = x THEN 1 ELSE 0
<1> DEFINE S == {i \in 1..n : s[i] = x}
           T == {i \in 1..(n + 1) : s[i] = x}
<1>1. IsFiniteSet(S) /\ Cardinality(S) \in Nat
  BY TimesType DEF Times
<1>2. n + 1 \notin S
  OBVIOUS
<1>3. CASE s[n + 1] = x
  <2>1. T = S \union {n + 1}
    BY <1>3
  <2> QED BY <1>1, <1>2, <1>3, <2>1, FS_AddElement DEF Times
<1>4. CASE s[n + 1] # x
  <2>1. T = S
    BY <1>4
  <2> QED BY <1>1, <1>4, <2>1 DEF Times
<1> QED BY <1>3, <1>4

LEMMA TimesSame ==
  ASSUME NEW s, NEW t, NEW n \in Nat, NEW x, \A i \in 1..n : s[i] = t[i]
  PROVE  Times(s, n, x) = Times(t, n, x)
<1>1. {i \in 1..n : s[i] = x} = {i \in 1..n : t[i] = x}
  OBVIOUS
<1> QED BY <1>1 DEF Times

LEMMA DepthType ==
  ASSUME NEW b \in Bytes \union {Absent}, NEW cek
  PROVE  /\ Depth(b, cek) \in Nat
         /\ b # Absent => (Depth(b, cek) = 0 <=> \A i \in 1..Len(b.layers) : b.layers[i] # cek)
<1>1. CASE b = Absent
  BY <1>1 DEF Depth
<1>2. CASE b # Absent
  <2>1. Len(b.layers) \in Nat
    BY <1>2, LenProperties DEF Bytes
  <2> QED BY <1>2, <2>1, TimesType DEF Depth
<1> QED BY <1>1, <1>2

\* One layer more.
LEMMA DepthSeal ==
  ASSUME NEW b \in Bytes, NEW c \in Keys, NEW cek
  PROVE  LET s == [b EXCEPT !.layers = Append(b.layers, c)]
         IN  /\ s \in Bytes
             /\ Depth(s, cek) = Depth(b, cek) + IF c = cek THEN 1 ELSE 0
<1> DEFINE n == Len(b.layers)
           t == Append(b.layers, c)
           s == [b EXCEPT !.layers = t]
<1>1. b.layers \in Seq(Keys) /\ n \in Nat /\ b # Absent
  BY LenProperties, Markers DEF Bytes
<1>2. /\ t \in Seq(Keys) /\ Len(t) = n + 1 /\ t[n + 1] = c
      /\ \A i \in 1..n : t[i] = b.layers[i]
  BY <1>1, AppendProperties
<1>3. s \in Bytes /\ s.layers = t
  BY <1>2 DEF Bytes
<1>4. Times(t, n + 1, cek) = Times(b.layers, n, cek) + IF c = cek THEN 1 ELSE 0
  <2> HIDE DEF n, t
  <2>1. Times(t, n + 1, cek) = Times(t, n, cek) + IF t[n + 1] = cek THEN 1 ELSE 0
    BY <1>1, TimesStep
  <2>2. n \in Nat /\ \A i \in 1..n : t[i] = b.layers[i]
    BY <1>1, <1>2
  <2>3. Times(t, n, cek) = Times(b.layers, n, cek)
    BY <2>2, TimesSame
  <2> QED BY <1>2, <2>1, <2>3
<1>5. s # Absent
  BY <1>3, Markers
<1> QED BY <1>1, <1>2, <1>3, <1>4, <1>5 DEF Depth

\* The outermost layer less.
LEMMA DepthOpen ==
  ASSUME NEW b \in Bytes, b.layers # << >>, NEW cek
  PROVE  LET s == [b EXCEPT !.layers = SubSeq(b.layers, 1, Len(b.layers) - 1)]
         IN  /\ s \in Bytes
             /\ Len(s.layers) = Len(b.layers) - 1
             /\ \A i \in 1..Len(s.layers) : s.layers[i] = b.layers[i]
             /\ Depth(b, cek) = Depth(s, cek) + IF b.layers[Len(b.layers)] = cek THEN 1 ELSE 0
<1> DEFINE n == Len(b.layers) - 1
           t == SubSeq(b.layers, 1, n)
           s == [b EXCEPT !.layers = t]
<1>1. b.layers \in Seq(Keys) /\ Len(b.layers) \in Nat \ {0} /\ b # Absent
  BY EmptySeq, Markers DEF Bytes
<1>2. n \in Nat /\ Len(b.layers) = n + 1
  BY <1>1
<1>3. /\ t \in Seq(Keys) /\ Len(t) = n
      /\ \A i \in 1..n : t[i] = b.layers[i]
  <2>1. \A i \in 1..n : b.layers[i] \in Keys
    BY <1>1, <1>2, ElementOfSeq
  <2> HIDE DEF n
  <2> QED BY <1>2, <2>1, SubSeqProperties
<1>4. s \in Bytes /\ s.layers = t /\ s # Absent
  <2> HIDE DEF t
  <2> QED BY <1>3, Markers DEF Bytes
<1>5. Times(b.layers, n + 1, cek) = Times(t, n, cek) + IF b.layers[n + 1] = cek THEN 1 ELSE 0
  <2> HIDE DEF n, t
  <2>1. Times(b.layers, n + 1, cek)
          = Times(b.layers, n, cek) + IF b.layers[n + 1] = cek THEN 1 ELSE 0
    BY <1>2, TimesStep
  <2>2. Times(t, n, cek) = Times(b.layers, n, cek)
    BY <1>2, <1>3, TimesSame
  <2> QED BY <2>1, <2>2
<1> QED BY <1>1, <1>2, <1>3, <1>4, <1>5 DEF Depth

-----------------------------------------------------------------------------
(* Keys.                                                                   *)

LEMMA KeysInit == Init => KeysInv /\ Recoverable
<1> SUFFICES ASSUME Init
             PROVE  KeysInv /\ Recoverable
  OBVIOUS
<1>1. \A p \in Procs : ~Encrypting(p) /\ ~Decrypting(p) /\ ~Working(op[p])
  BY DEF Init, Idle, Encrypting, Decrypting, Working
<1>2. ~PolicyKnown
  BY DEF Init, PolicyKnown
<1>3. \A m \in Members : files[m] # Absent => files[m].layers = << >> /\ Len(files[m].layers) = 0
  BY DEF Init, Plain
<1> QED BY <1>1, <1>2, <1>3
        DEF KeysInv, Drawn, OnePolicy, SealedAtMost, WrappedAtMost, LeftAtMost, LeftByTwo,
            Alone, Retired, Recoverable

\* Counts are numbers.
LEMMA WorkType ==
  ASSUME TypeOK, NEW p \in Procs, Working(op[p])
  PROVE  /\ op[p].policy \in Policy
         /\ op[p].policy.cek \in Keys
         /\ op[p].policy.files \in Seq(Members)
         /\ Len(op[p].policy.files) \in Nat \ {0}
         /\ op[p].next \in Nat \ {0}
         /\ \A m : Done(op[p], m) \in Nat /\ All(op[p].policy.files, m) \in Nat
<1>1. op[p].policy.files \in Requests /\ op[p].next \in Nat \ {0} /\ op[p].policy \in Policy
      /\ op[p].policy.cek \in Keys
  BY TaskType DEF Working, Encrypting, Decrypting
<1>2. Len(op[p].policy.files) \in Nat \ {0} /\ op[p].policy.files \in Seq(Members)
  BY <1>1, RequestType
<1>3. op[p].next - 1 \in Nat
  BY <1>1
<1>4. \A m : Done(op[p], m) \in Nat
  BY <1>3, TimesType DEF Done
<1>5. \A m : All(op[p].policy.files, m) \in Nat
  BY <1>2, TimesType DEF All
<1> QED BY <1>1, <1>2, <1>4, <1>5

\* A member of the list done.
LEMMA DoneStep ==
  ASSUME TypeOK, NEW p \in Procs, Working(op[p]), MoreFiles(p),
         NEW o, o.policy = op[p].policy, o.next = op[p].next + 1
  PROVE  \A m : /\ Done(op[p], m) \in Nat
                /\ Done(o, m) = Done(op[p], m) + IF m = NextFile(p) THEN 1 ELSE 0
<1> TAKE m
<1> DEFINE list == op[p].policy.files
           k == op[p].next - 1
<1>1. k \in Nat /\ k + 1 = op[p].next
  BY WorkType
<1>2. k + 1 = o.next - 1 /\ list[k + 1] = NextFile(p) /\ o.policy.files = list
  BY <1>1 DEF NextFile
<1>3. Times(list, k + 1, m) = Times(list, k, m) + IF list[k + 1] = m THEN 1 ELSE 0
  <2> HIDE DEF list, k
  <2> QED BY <1>1, TimesStep
<1>4. Done(op[p], m) \in Nat
  BY WorkType
<1> QED BY <1>1, <1>2, <1>3, <1>4 DEF Done

LEMMA PolicyType ==
  ASSUME TypeOK, PolicyKnown
  PROVE  /\ policy \in Policy
         /\ policy.cek \in Keys
         /\ policy.files \in Seq(Members)
         /\ Len(policy.files) \in Nat \ {0}
         /\ \A m : All(policy.files, m) \in Nat
<1>1. policy \in Policy /\ policy.files \in Requests /\ policy.cek \in Keys
  BY DEF TypeOK, PolicyKnown, Policy
<1>2. Len(policy.files) \in Nat \ {0} /\ policy.files \in Seq(Members)
  BY <1>1, RequestType
<1> QED BY <1>1, <1>2, TimesType DEF All

\* A member that is lost or made plain has no layers.
LEMMA DepthShrinks ==
  ASSUME NEW b \in Bytes \union {Absent}, NEW c \in Bytes \union {Absent}, NEW cek,
         c = b \/ c = Absent \/ c.layers = << >>
  PROVE  Depth(b, cek) \in Nat /\ Depth(c, cek) \in Nat /\ Depth(c, cek) <= Depth(b, cek)
<1>1. Depth(b, cek) \in Nat /\ Depth(c, cek) \in Nat
  BY DepthType
<1>2. CASE c = b
  BY <1>1, <1>2
<1>3. CASE c = Absent
  BY <1>1, <1>3 DEF Depth
<1>4. CASE c # Absent /\ c.layers = << >>
  <2>1. Depth(c, cek) = 0
    BY <1>4, DepthType
  <2> QED BY <1>1, <2>1
<1> QED BY <1>2, <1>3, <1>4

LEMMA DepthsShrink ==
  ASSUME TypeOK, TypeOK',
         \A m \in Members : files'[m] = files[m] \/ files'[m] = Absent \/ files'[m].layers = << >>
  PROVE  \A m \in Members : \A cek :
           /\ Depth(files'[m], cek) \in Nat /\ Depth(files[m], cek) \in Nat
           /\ Depth(files'[m], cek) <= Depth(files[m], cek)
BY DepthShrinks DEF TypeOK

\* A step that seals nothing, leaves the policy alone and at most ends commands: members
\* stay as they are, are lost or are plain from then on.
LEMMA KeysFrame ==
  ASSUME TypeOK, TypeOK', KeysInv,
         policy' = policy, seals' = seals, raced' = raced,
         \A m \in Members : files'[m] = files[m] \/ files'[m] = Absent \/ files'[m].layers = << >>,
         \A p \in Procs : op'[p] = op[p] \/ ~Working(op'[p])
  PROVE  KeysInv'
<1>1. \A m \in Members : \A cek : /\ Depth(files'[m], cek) \in Nat /\ Depth(files[m], cek) \in Nat
                                  /\ Depth(files'[m], cek) <= Depth(files[m], cek)
  BY DepthsShrink
<1>2. \A p \in Procs : /\ op'[p].kind = "encrypt" => op[p].kind = "encrypt" /\ op'[p] = op[p]
                       /\ op'[p].kind = "decrypt" => op[p].kind = "decrypt" /\ op'[p] = op[p]
  BY DEF Working
<1>3. (PolicyKnown' <=> PolicyKnown)
  BY DEF PolicyKnown
<1> USE DEF Encrypting, Decrypting
<1>4. Drawn'
  BY <1>3 DEF KeysInv, Drawn
<1>5. OnePolicy'
  BY <1>2, <1>3 DEF KeysInv, OnePolicy, Working
<1>6. SealedAtMost'
  <2> SUFFICES ASSUME NEW p \in Procs, NEW m \in Members, op'[p].kind = "encrypt"
               PROVE  Depth(files'[m], op'[p].policy.cek) <= Done(op'[p], m)
    BY DEF SealedAtMost
  <2>1. Depth(files[m], op[p].policy.cek) <= Done(op[p], m) /\ Done(op[p], m) \in Nat
    BY <1>2, WorkType DEF KeysInv, SealedAtMost, Working
  <2> DEFINE d == Depth(files[m], op[p].policy.cek)
             e == Depth(files'[m], op[p].policy.cek)
             x == Done(op[p], m)
  <2>2. d \in Nat /\ e \in Nat /\ e <= d /\ d <= x /\ x \in Nat
    BY <1>1, <2>1
  <2>3. e <= x
    <3> HIDE DEF d, e, x
    <3> QED BY <2>2
  <2> QED BY <1>2, <2>3
<1>7. WrappedAtMost'
  <2> SUFFICES ASSUME PolicyKnown, NEW m \in Members
               PROVE  Depth(files'[m], policy.cek) <= All(policy.files, m)
    BY <1>3 DEF WrappedAtMost
  <2>1. Depth(files[m], policy.cek) <= All(policy.files, m) /\ All(policy.files, m) \in Nat
    BY PolicyType DEF KeysInv, WrappedAtMost
  <2> QED BY <1>1, <2>1
<1>8. LeftAtMost'
  <2> SUFFICES ASSUME NEW p \in Procs, NEW m \in Members, op'[p].kind = "decrypt"
               PROVE  Depth(files'[m], op'[p].policy.cek) + Done(op'[p], m) <= All(op'[p].policy.files, m)
    BY DEF LeftAtMost
  <2>1. /\ Depth(files[m], op[p].policy.cek) + Done(op[p], m) <= All(op[p].policy.files, m)
        /\ Done(op[p], m) \in Nat /\ All(op[p].policy.files, m) \in Nat
    BY <1>2, WorkType DEF KeysInv, LeftAtMost, Working
  <2> DEFINE d == Depth(files[m], op[p].policy.cek)
             e == Depth(files'[m], op[p].policy.cek)
             x == Done(op[p], m)
             n == All(op[p].policy.files, m)
  <2>2. d \in Nat /\ e \in Nat /\ e <= d /\ x \in Nat /\ n \in Nat /\ d + x <= n
    BY <1>1, <2>1
  <2>3. e + x <= n
    <3> HIDE DEF d, e, x, n
    <3> QED BY <2>2
  <2> QED BY <1>2, <2>3
<1>9. LeftByTwo'
  <2> SUFFICES ASSUME NEW p \in Procs, NEW q \in Procs, NEW m \in Members,
                      op'[p].kind = "decrypt", op'[q].kind = "decrypt", p # q,
                      op'[p].policy.cek = op'[q].policy.cek
               PROVE  Depth(files'[m], op'[p].policy.cek) + Done(op'[p], m) + Done(op'[q], m)
                        <= All(op'[p].policy.files, m)
    BY DEF LeftByTwo
  <2>1. op'[p] = op[p] /\ op'[q] = op[q]
    BY <1>2
  <2>2. Depth(files[m], op[p].policy.cek) + Done(op[p], m) + Done(op[q], m) <= All(op[p].policy.files, m)
    BY <2>1 DEF KeysInv, LeftByTwo
  <2>3. Done(op[p], m) \in Nat /\ Done(op[q], m) \in Nat /\ All(op[p].policy.files, m) \in Nat
    BY <2>1, WorkType DEF Working
  <2> DEFINE d == Depth(files[m], op[p].policy.cek)
             e == Depth(files'[m], op[p].policy.cek)
             x == Done(op[p], m)
             y == Done(op[q], m)
             n == All(op[p].policy.files, m)
  <2>4. /\ d \in Nat /\ e \in Nat /\ e <= d /\ d + x + y <= n
        /\ x \in Nat /\ y \in Nat /\ n \in Nat
    BY <1>1, <2>2, <2>3
  <2>5. e + x + y <= n
    <3> HIDE DEF d, e, x, y, n
    <3> QED BY <2>4
  <2> QED BY <2>1, <2>5
<1>10. Alone'
  BY <1>2 DEF KeysInv, Alone
<1>11. Retired'
  <2> SUFFICES ASSUME ~raced, NEW p \in Procs, op'[p].kind = "decrypt",
                      ~(PolicyKnown /\ policy.cek = op'[p].policy.cek)
               PROVE  op'[p].next = 1 /\ \A m \in Members : Depth(files'[m], op'[p].policy.cek) = 0
    BY <1>3 DEF Retired
  <2>1. op[p].next = 1 /\ \A m \in Members : Depth(files[m], op[p].policy.cek) = 0
    BY <1>2 DEF KeysInv, Retired
  <2> QED BY <1>1, <1>2, <2>1
<1> QED BY <1>4, <1>5, <1>6, <1>7, <1>8, <1>9, <1>10, <1>11 DEF KeysInv

\* A new key is under no member and in no command's or policy's hands.
LEMMA KeysEncryptBegin ==
  ASSUME TypeOK, TypeOK', KeysInv, NEW p \in Procs, NEW list \in Requests, EncryptBegin(p, list)
  PROVE  KeysInv'
<1> DEFINE key == seals + 1
<1>1. /\ files' = files /\ policy' = policy /\ seals' = key /\ seals \in Nat
      /\ raced' = (raced \/ \E q \in Procs : Encrypting(q))
      /\ op'[p].kind = "encrypt" /\ op'[p].next = 1
      /\ op'[p].policy.cek = key /\ op'[p].policy.files = list
      /\ \A q \in Procs : q # p => op'[q] = op[q]
      /\ policy = Absent
  BY FolderBounds DEF EncryptBegin, NotEncrypted, TypeOK
<1> HIDE DEF key
<1>2. \A m \in Members : Depth(files[m], key) = 0
  <2> TAKE m \in Members
  <2>1. CASE files[m] = Absent
    BY <2>1 DEF Depth
  <2>2. CASE files[m] # Absent
    <3>1. files[m].layers \in Seq(Keys) /\ Len(files[m].layers) \in Nat
      BY <2>2, LenProperties DEF TypeOK, Bytes
    <3>2. \A i \in 1..Len(files[m].layers) : files[m].layers[i] \in Nat /\ files[m].layers[i] <= seals
      <4>1. \A i \in 1..Len(files[m].layers) : files[m].layers[i] \in Keys
        BY <3>1, ElementOfSeq
      <4> QED BY <2>2, <4>1, FolderBounds DEF KeysInv, Drawn, Keys
    <3>3. \A i \in 1..Len(files[m].layers) : files[m].layers[i] # key
      BY <1>1, <3>2 DEF key
    <3> QED BY <2>2, <3>3, DepthType DEF TypeOK
  <2> QED BY <2>1, <2>2
<1>3. \A m \in Members : Done(op'[p], m) = 0
  <2>1. op'[p].next - 1 = 0
    BY <1>1
  <2> QED BY <2>1, TimesZero DEF Done
<1>4. \A q \in Procs : Working(op[q]) => op[q].policy.cek \in Nat /\ op[q].policy.cek < key
  BY <1>1, WorkType DEF KeysInv, Drawn, key, Keys
<1>5. ~PolicyKnown /\ ~PolicyKnown'
  BY <1>1 DEF PolicyKnown
<1> USE DEF Encrypting, Decrypting
<1>6. Drawn'
  <2>1. \A m \in Members : files[m] # Absent =>
          \A i \in 1..Len(files[m].layers) : files[m].layers[i] <= key
    <3> SUFFICES ASSUME NEW m \in Members, files[m] # Absent, NEW i \in 1..Len(files[m].layers)
                 PROVE  files[m].layers[i] <= key
      OBVIOUS
    <3>1. files[m].layers[i] \in Keys
      BY ElementOfSeq DEF TypeOK, Bytes
    <3> QED BY <1>1, <3>1 DEF KeysInv, Drawn, key, Keys
  <2>2. ASSUME NEW q \in Procs, Working(op'[q])
        PROVE  op'[q].policy.cek <= key /\ op'[q].next <= Len(op'[q].policy.files) + 1
    <3>1. CASE q = p
      BY <1>1, <3>1, RequestType DEF key
    <3>2. CASE q # p
      <4>1. op'[q] = op[q]
        BY <1>1, <3>2
      <4>2. op[q].policy.cek \in Nat /\ op[q].policy.cek < key /\ key \in Nat
        BY <1>1, <1>4, <2>2, <4>1 DEF key
      <4>3. op[q].next <= Len(op[q].policy.files) + 1
        BY <2>2, <4>1 DEF KeysInv, Drawn
      <4> QED BY <4>1, <4>2, <4>3
    <3> QED BY <3>1, <3>2
  <2> QED BY <1>1, <1>5, <2>1, <2>2 DEF Drawn
<1>7. OnePolicy'
  <2>1. \A q, r \in Procs : op'[q].kind = "decrypt" /\ op'[r].kind = "decrypt" =>
          q # p /\ r # p /\ op'[q] = op[q] /\ op'[r] = op[r]
    BY <1>1
  <2>2. \A q \in Procs : op'[q].kind = "encrypt" =>
          \A r \in Procs \ {q} : Working(op'[r]) => op'[r].policy.cek # op'[q].policy.cek
    <3> SUFFICES ASSUME NEW q \in Procs, op'[q].kind = "encrypt", NEW r \in Procs \ {q}, Working(op'[r])
                 PROVE  op'[r].policy.cek # op'[q].policy.cek
      OBVIOUS
    <3>1. CASE q # p /\ r # p
      BY <1>1, <3>1 DEF KeysInv, OnePolicy
    <3>2. CASE q = p
      BY <1>1, <1>4, <3>2 DEF key
    <3>3. CASE r = p
      BY <1>1, <1>4, <3>3 DEF key, Working
    <3> QED BY <3>1, <3>2, <3>3
  <2> QED BY <1>5, <2>1, <2>2 DEF OnePolicy, KeysInv
<1>8. SealedAtMost'
  <2> SUFFICES ASSUME NEW q \in Procs, NEW m \in Members, op'[q].kind = "encrypt"
               PROVE  Depth(files'[m], op'[q].policy.cek) <= Done(op'[q], m)
    BY DEF SealedAtMost
  <2>1. CASE q = p
    BY <1>1, <1>2, <1>3, <2>1
  <2>2. CASE q # p
    BY <1>1, <2>2 DEF KeysInv, SealedAtMost
  <2> QED BY <2>1, <2>2
<1>9. WrappedAtMost'
  BY <1>5 DEF WrappedAtMost
<1>10. \A q \in Procs : op'[q].kind = "decrypt" => op'[q] = op[q]
  BY <1>1
<1>11. LeftAtMost' /\ LeftByTwo'
  BY <1>1, <1>10 DEF KeysInv, LeftAtMost, LeftByTwo
<1>12. Alone'
  BY <1>1 DEF Alone
<1>13. Retired'
  BY <1>1, <1>5, <1>10 DEF KeysInv, Retired
<1> QED BY <1>6, <1>7, <1>8, <1>9, <1>11, <1>12, <1>13 DEF KeysInv

\* What a decryption that has come to its end has left: nothing.
LEMMA NothingLeft ==
  ASSUME TypeOK, KeysInv, NEW p \in Procs, Decrypting(p), ~MoreFiles(p)
  PROVE  /\ \A m \in Members : Depth(files[m], op[p].policy.cek) = 0
         /\ op[p].next # 1
         /\ \A q \in Procs : Decrypting(q) /\ q # p /\ op[q].policy.cek = op[p].policy.cek => op[q].next = 1
<1> DEFINE list == op[p].policy.files
<1>1. /\ op[p].next \in Nat \ {0} /\ Len(list) \in Nat \ {0} /\ list \in Seq(Members)
      /\ \A m : All(list, m) \in Nat
      /\ op[p].next <= Len(list) + 1
  BY WorkType DEF Working, Decrypting, KeysInv, Drawn
<1>2. op[p].next - 1 = Len(list)
  BY <1>1 DEF MoreFiles
<1>3. \A m : Done(op[p], m) = All(list, m)
  BY <1>2 DEF Done, All
<1>4. \A m \in Members : Depth(files[m], op[p].policy.cek) \in Nat
  BY DepthType DEF TypeOK
<1>5. \A m \in Members : Depth(files[m], op[p].policy.cek) + All(list, m) <= All(list, m)
  BY <1>3 DEF KeysInv, LeftAtMost
<1>6. \A m \in Members : Depth(files[m], op[p].policy.cek) = 0
  BY <1>1, <1>4, <1>5
<1>7. ASSUME NEW q \in Procs, Decrypting(q), q # p, op[q].policy.cek = op[p].policy.cek
      PROVE  op[q].next = 1
  <2> DEFINE m == list[1]
             d == Depth(files[m], op[p].policy.cek)
             x == All(list, m)
             y == Done(op[q], m)
  <2>1. m \in Members
    BY <1>1, ElementOfSeq
  <2>2. op[q].policy.files = list
    BY <1>7 DEF KeysInv, OnePolicy
  <2>3. d + x + y <= x
    BY <1>3, <1>7, <2>1 DEF KeysInv, LeftByTwo
  <2>4. op[q].next \in Nat \ {0} /\ y \in Nat
    BY <1>7, WorkType DEF Working, Decrypting
  <2>5. d = 0 /\ x \in Nat
    BY <1>1, <1>6, <2>1
  <2>6. y = 0
    <3> HIDE DEF d, x, y
    <3> QED BY <2>3, <2>4, <2>5
  <2>7. \A i \in 1..(op[q].next - 1) : list[i] # m
    <3>1. op[q].next - 1 \in Nat
      BY <2>4
    <3>2. Times(list, op[q].next - 1, m) = 0
      BY <2>2, <2>6 DEF Done
    <3> HIDE DEF m
    <3> QED BY <3>1, <3>2, TimesType
  <2> QED BY <2>4, <2>7
<1> QED BY <1>1, <1>2, <1>6, <1>7

\* What sealing a file does to the depths.
LEMMA SealFileDepth ==
  ASSUME TypeOK, NEW p \in Procs, SealFile(p)
  PROVE  \A m \in Members : \A cek :
           /\ Depth(files[m], cek) \in Nat
           /\ Depth(files'[m], cek) = Depth(files[m], cek)
                + IF m = NextFile(p) /\ cek = op[p].policy.cek THEN 1 ELSE 0
<1> DEFINE n   == NextFile(p)
           key == op[p].policy.cek
           more(m, cek) == IF m = n /\ cek = key THEN 1 ELSE 0
<1>1. n \in Members /\ files[n] \in Bytes /\ key \in Keys
  BY TaskType DEF SealFile, TypeOK
<1>2. files' = [files EXCEPT ![n] = [files[n] EXCEPT !.layers = Append(files[n].layers, key)]]
  BY <1>1 DEF SealFile, TypeOK
<1>3. \A m \in Members : \A cek : /\ Depth(files[m], cek) \in Nat
                                  /\ Depth(files'[m], cek) = Depth(files[m], cek) + more(m, cek)
  <2> TAKE m \in Members
  <2> TAKE cek
  <2>1. Depth(files[m], cek) \in Nat
    BY DepthType DEF TypeOK
  <2>2. CASE m = n
    <3>1. files'[n] = [files[n] EXCEPT !.layers = Append(files[n].layers, key)]
      BY <1>1, <1>2 DEF TypeOK
    <3>2. Depth([files[n] EXCEPT !.layers = Append(files[n].layers, key)], cek)
            = Depth(files[n], cek) + IF key = cek THEN 1 ELSE 0
      <4> HIDE DEF n, key
      <4> QED BY <1>1, DepthSeal
    <3> QED BY <2>1, <2>2, <3>1, <3>2
  <2>3. CASE m # n
    BY <1>2, <2>1, <2>3 DEF TypeOK
  <2> QED BY <2>2, <2>3
<1> QED BY <1>3

\* One layer more, under the key of the only one that has it, on a member of its list.
LEMMA KeysSealFile ==
  ASSUME TypeOK, TypeOK', KeysInv, NEW p \in Procs, SealFile(p)
  PROVE  KeysInv'
<1> DEFINE n   == NextFile(p)
           key == op[p].policy.cek
           more(m, cek) == IF m = n /\ cek = key THEN 1 ELSE 0
<1>1. /\ Encrypting(p) /\ MoreFiles(p) /\ Working(op[p])
      /\ n \in Members /\ files[n] \in Bytes /\ key \in Keys
      /\ op[p].next \in Nat \ {0} /\ op[p].policy.files \in Seq(Members)
      /\ op[p].next <= Len(op[p].policy.files)
  BY TaskType, WorkType DEF SealFile, TypeOK, MoreFiles, Working, Encrypting
<1>2. /\ files' = [files EXCEPT ![n] = [files[n] EXCEPT !.layers = Append(files[n].layers, key)]]
      /\ policy' = policy /\ seals' = seals /\ raced' = raced
      /\ op'[p] = [op[p] EXCEPT !.next = op[p].next + 1]
      /\ \A q \in Procs : q # p => op'[q] = op[q]
  BY <1>1 DEF SealFile, TypeOK, history
<1>3. /\ op'[p].kind = "encrypt" /\ op'[p].policy = op[p].policy /\ op'[p].next = op[p].next + 1
      /\ \A q \in Procs : op'[q].kind = op[q].kind /\ op'[q].policy = op[q].policy
      /\ \A q \in Procs : Working(op'[q]) <=> Working(op[q])
  <2>1. op[p] \in [kind : {"encrypt", "decrypt"}, next : Nat \ {0}, policy : Policy]
    BY <1>1, TaskType
  <2> QED BY <1>1, <1>2, <2>1 DEF Encrypting, Working
<1>4. \A m \in Members : \A cek : /\ Depth(files[m], cek) \in Nat
                                  /\ Depth(files'[m], cek) = Depth(files[m], cek) + more(m, cek)
  BY SealFileDepth
<1>5. \A m : Done(op[p], m) \in Nat /\ Done(op'[p], m) = Done(op[p], m) + more(m, key)
  BY <1>1, <1>3, DoneStep
<1>6. PolicyKnown' <=> PolicyKnown
  BY <1>2 DEF PolicyKnown
<1>7. /\ PolicyKnown => policy.cek # key
      /\ \A q \in Procs : q # p /\ Working(op[q]) => op[q].policy.cek # key
  BY <1>1 DEF KeysInv, OnePolicy
<1>7a. \A m \in Members : \A cek : cek # key => Depth(files'[m], cek) = Depth(files[m], cek)
  <2> SUFFICES ASSUME NEW m \in Members, NEW cek, cek # key
               PROVE  Depth(files'[m], cek) = Depth(files[m], cek)
    OBVIOUS
  <2>1. Depth(files'[m], cek) = Depth(files[m], cek) + 0 /\ Depth(files[m], cek) \in Nat
    BY <1>4
  <2> QED BY <2>1
<1> USE DEF Encrypting, Decrypting
<1>8. Drawn'
  <2>1. ASSUME NEW m \in Members, files'[m] # Absent, NEW i \in 1..Len(files'[m].layers)
        PROVE  files'[m].layers[i] <= seals
    <3>1. CASE m = n
      <4>1. files[n].layers \in Seq(Keys) /\ files[n] # Absent /\ Len(files[n].layers) \in Nat
        BY <1>1, LenProperties, Markers DEF Bytes
      <4>2. files'[n].layers = Append(files[n].layers, key)
        BY <1>1, <1>2 DEF TypeOK, Bytes
      <4>3. /\ Len(files'[n].layers) = Len(files[n].layers) + 1
            /\ \A j \in 1..Len(files[n].layers) : files'[n].layers[j] = files[n].layers[j]
            /\ files'[n].layers[Len(files[n].layers) + 1] = key
        BY <1>1, <4>1, <4>2, AppendProperties
      <4>4. key <= seals
        BY <1>1 DEF KeysInv, Drawn
      <4>5. \A j \in 1..Len(files[n].layers) : files[n].layers[j] <= seals
        BY <1>1, <4>1 DEF KeysInv, Drawn
      <4>6. i \in 1..Len(files[n].layers) \/ i = Len(files[n].layers) + 1
        BY <2>1, <3>1, <4>1, <4>3
      <4> QED BY <3>1, <4>3, <4>4, <4>5, <4>6
    <3>2. CASE m # n
      BY <1>2, <2>1, <3>2 DEF KeysInv, Drawn, TypeOK
    <3> QED BY <3>1, <3>2
  <2>2. ASSUME NEW q \in Procs, Working(op'[q])
        PROVE  op'[q].policy.cek <= seals /\ op'[q].next <= Len(op'[q].policy.files) + 1
    <3>1. CASE q = p
      <4>1. key <= seals /\ Len(op[p].policy.files) \in Nat
        BY <1>1, LenProperties DEF KeysInv, Drawn
      <4> QED BY <1>1, <1>3, <3>1, <4>1
    <3>2. CASE q # p
      BY <1>2, <2>2, <3>2 DEF KeysInv, Drawn
    <3> QED BY <3>1, <3>2
  <2> QED BY <1>2, <1>6, <2>1, <2>2 DEF KeysInv, Drawn
<1>9. OnePolicy'
  BY <1>2, <1>3, <1>6 DEF KeysInv, OnePolicy
<1>10. SealedAtMost'
  <2> SUFFICES ASSUME NEW q \in Procs, NEW m \in Members, op'[q].kind = "encrypt"
               PROVE  Depth(files'[m], op'[q].policy.cek) <= Done(op'[q], m)
    BY DEF SealedAtMost
  <2>1. CASE q = p
    <3> DEFINE d == Depth(files[m], key)
               x == Done(op[p], m)
               y == more(m, key)
    <3>1. d <= x
      BY <1>1 DEF KeysInv, SealedAtMost
    <3>2. d \in Nat /\ x \in Nat /\ y \in Nat
      BY <1>4, <1>5
    <3>3. d + y <= x + y
      <4> HIDE DEF d, x, y
      <4> QED BY <3>1, <3>2
    <3> QED BY <1>3, <1>4, <1>5, <2>1, <3>3
  <2>2. CASE q # p
    <3>1. Depth(files'[m], op[q].policy.cek) = Depth(files[m], op[q].policy.cek)
      BY <1>7a, <1>3, <1>7, <2>2 DEF Working
    <3> QED BY <1>2, <2>2, <3>1 DEF KeysInv, SealedAtMost
  <2> QED BY <2>1, <2>2
<1>11. WrappedAtMost'
  <2> SUFFICES ASSUME PolicyKnown, NEW m \in Members
               PROVE  Depth(files'[m], policy.cek) <= All(policy.files, m)
    BY <1>2, <1>6 DEF WrappedAtMost
  <2>1. Depth(files'[m], policy.cek) = Depth(files[m], policy.cek)
    BY <1>7, <1>7a
  <2> QED BY <2>1 DEF KeysInv, WrappedAtMost
<1>12. \A q \in Procs : op'[q].kind = "decrypt" =>
         /\ op'[q] = op[q]
         /\ \A m \in Members : Depth(files'[m], op[q].policy.cek) = Depth(files[m], op[q].policy.cek)
  BY <1>7a, <1>1, <1>2, <1>3, <1>7 DEF Working
<1>13. LeftAtMost'
  BY <1>12 DEF KeysInv, LeftAtMost
<1>14. LeftByTwo'
  BY <1>12 DEF KeysInv, LeftByTwo
<1>15. Alone'
  BY <1>2, <1>3 DEF KeysInv, Alone
<1>16. Retired'
  <2> SUFFICES ASSUME ~raced, NEW q \in Procs, op'[q].kind = "decrypt",
                      ~(PolicyKnown /\ policy.cek = op'[q].policy.cek)
               PROVE  op'[q].next = 1 /\ \A m \in Members : Depth(files'[m], op'[q].policy.cek) = 0
    BY <1>2, <1>6 DEF Retired
  <2>1. op[q].next = 1 /\ \A m \in Members : Depth(files[m], op[q].policy.cek) = 0
    BY <1>12 DEF KeysInv, Retired
  <2> QED BY <1>12, <2>1
<1> QED BY <1>8, <1>9, <1>10, <1>11, <1>13, <1>14, <1>15, <1>16 DEF KeysInv

\* The key leaves the command that drew it for the policy, which there was none of before.
LEMMA KeysWritePolicy ==
  ASSUME TypeOK, TypeOK', KeysInv, NEW p \in Procs, WritePolicy(p)
  PROVE  KeysInv'
<1> DEFINE key == op[p].policy.cek
           list == op[p].policy.files
<1>1. /\ Encrypting(p) /\ ~MoreFiles(p) /\ Working(op[p]) /\ op[p].policy \in Policy
      /\ op[p].next \in Nat \ {0} /\ Len(list) \in Nat /\ op[p].next <= Len(list) + 1
  BY WorkType DEF WritePolicy, Working, Encrypting, KeysInv, Drawn
<1>2. /\ files' = files /\ policy' = op[p].policy /\ seals' = seals /\ raced' = raced
      /\ op'[p] = [kind |-> "rebuild"]
      /\ \A q \in Procs : q # p => op'[q] = op[q]
  BY DEF WritePolicy, TypeOK, history
<1>3. PolicyKnown' /\ op'[p].kind = "rebuild" /\ ~Working(op'[p])
  BY <1>1, <1>2, Markers DEF PolicyKnown, Working
<1>4. \A m : Done(op[p], m) = All(list, m)
  <2>1. op[p].next - 1 = Len(list)
    BY <1>1 DEF MoreFiles
  <2> QED BY <2>1 DEF Done, All
<1>5. \A q \in Procs : q # p /\ Working(op[q]) => op[q].policy.cek # key
  BY <1>1 DEF KeysInv, OnePolicy
<1>6. \A q \in Procs : Working(op'[q]) => q # p /\ op'[q] = op[q]
  BY <1>2, <1>3
<1> USE DEF Encrypting, Decrypting
<1>7. Drawn'
  BY <1>1, <1>2, <1>3, <1>6 DEF KeysInv, Drawn
<1>8. OnePolicy'
  BY <1>2, <1>3, <1>5, <1>6 DEF KeysInv, OnePolicy, Working
<1>9. SealedAtMost'
  BY <1>2, <1>6 DEF KeysInv, SealedAtMost, Working
<1>10. WrappedAtMost'
  BY <1>1, <1>2, <1>4 DEF KeysInv, SealedAtMost, WrappedAtMost
<1>11. LeftAtMost'
  BY <1>2, <1>6 DEF KeysInv, LeftAtMost, Working
<1>12. LeftByTwo'
  BY <1>2, <1>6 DEF KeysInv, LeftByTwo, Working
<1>13. Alone'
  BY <1>1, <1>2, <1>6 DEF KeysInv, Alone, Working
<1>14. Retired'
  <2> SUFFICES ASSUME ~raced, NEW q \in Procs, op'[q].kind = "decrypt"
               PROVE  op'[q].next = 1 /\ \A m \in Members : Depth(files[m], op'[q].policy.cek) = 0
    BY <1>2 DEF Retired
  <2>1. policy = Absent /\ ~PolicyKnown
    BY <1>1 DEF KeysInv, Alone, PolicyKnown
  <2> QED BY <1>6, <2>1 DEF KeysInv, Retired, Working
<1> QED BY <1>7, <1>8, <1>9, <1>10, <1>11, <1>12, <1>13, <1>14 DEF KeysInv

\* Another command takes the policy's key.
LEMMA KeysDecryptBegin ==
  ASSUME TypeOK, TypeOK', KeysInv, NEW p \in Procs, DecryptBegin(p)
  PROVE  KeysInv'
<1>1. /\ files' = files /\ policy' = policy /\ seals' = seals /\ raced' = raced
      /\ op'[p] = [kind |-> "decrypt", next |-> 1, policy |-> policy]
      /\ \A q \in Procs : q # p => op'[q] = op[q]
      /\ op[p] = Idle /\ PolicyKnown /\ PolicyKnown'
  BY DEF DecryptBegin, TypeOK, history, PolicyKnown
<1>2. /\ op'[p].kind = "decrypt" /\ op'[p].next = 1 /\ op'[p].policy = policy
  BY <1>1
<1>3. /\ policy.cek \in Keys /\ Len(policy.files) \in Nat \ {0}
      /\ \A m : All(policy.files, m) \in Nat
  BY <1>1, PolicyType
<1>4. \A m : Done(op'[p], m) = 0
  <2>1. op'[p].next - 1 = 0
    BY <1>2
  <2> QED BY <2>1, TimesZero DEF Done
<1> USE DEF Encrypting, Decrypting
<1>5. \A q \in Procs : op'[q].kind = "encrypt" => q # p /\ op'[q] = op[q]
  BY <1>1, <1>2
<1>6. \A m \in Members : Depth(files[m], policy.cek) \in Nat
                         /\ Depth(files[m], policy.cek) <= All(policy.files, m)
  BY <1>1, DepthType DEF KeysInv, WrappedAtMost, TypeOK
<1>7. Drawn'
  <2>1. ASSUME NEW q \in Procs, Working(op'[q])
        PROVE  op'[q].policy.cek <= seals /\ op'[q].next <= Len(op'[q].policy.files) + 1
    <3>1. CASE q = p
      BY <1>1, <1>2, <1>3, <3>1 DEF KeysInv, Drawn
    <3>2. CASE q # p
      BY <1>1, <2>1, <3>2 DEF KeysInv, Drawn
    <3> QED BY <3>1, <3>2
  <2> QED BY <1>1, <2>1 DEF KeysInv, Drawn
<1>8. OnePolicy'
  <2>1. \A q \in Procs : op'[q].kind = "decrypt" /\ policy.cek = op'[q].policy.cek =>
          op'[q].policy = policy
    BY <1>1, <1>2 DEF KeysInv, OnePolicy
  <2>2. ASSUME NEW q \in Procs, NEW r \in Procs, op'[q].kind = "decrypt", op'[r].kind = "decrypt",
               op'[q].policy.cek = op'[r].policy.cek
        PROVE  op'[q].policy = op'[r].policy
    <3>1. CASE q = p \/ r = p
      BY <1>2, <2>1, <2>2, <3>1
    <3>2. CASE q # p /\ r # p
      BY <1>1, <2>2, <3>2 DEF KeysInv, OnePolicy
    <3> QED BY <3>1, <3>2
  <2>3. ASSUME NEW q \in Procs, op'[q].kind = "encrypt"
        PROVE  /\ policy.cek # op'[q].policy.cek
               /\ \A r \in Procs \ {q} : Working(op'[r]) => op'[r].policy.cek # op'[q].policy.cek
    <3>1. q # p /\ op'[q] = op[q] /\ policy.cek # op[q].policy.cek
      BY <1>1, <1>5, <2>3 DEF KeysInv, OnePolicy
    <3>2. ASSUME NEW r \in Procs \ {q}, Working(op'[r])
          PROVE  op'[r].policy.cek # op'[q].policy.cek
      <4>1. CASE r = p
        BY <1>2, <3>1, <4>1
      <4>2. CASE r # p
        BY <1>1, <2>3, <3>1, <3>2, <4>2 DEF KeysInv, OnePolicy
      <4> QED BY <4>1, <4>2
    <3> QED BY <3>1, <3>2
  <2> QED BY <1>1, <2>1, <2>2, <2>3 DEF OnePolicy
<1>9. SealedAtMost'
  BY <1>1, <1>5 DEF KeysInv, SealedAtMost
<1>10. WrappedAtMost'
  BY <1>1 DEF KeysInv, WrappedAtMost
<1>11. LeftAtMost'
  <2> SUFFICES ASSUME NEW q \in Procs, NEW m \in Members, op'[q].kind = "decrypt"
               PROVE  Depth(files[m], op'[q].policy.cek) + Done(op'[q], m) <= All(op'[q].policy.files, m)
    BY <1>1 DEF LeftAtMost
  <2>1. CASE q = p
    BY <1>2, <1>4, <1>6, <2>1
  <2>2. CASE q # p
    BY <1>1, <2>2 DEF KeysInv, LeftAtMost
  <2> QED BY <2>1, <2>2
<1>12. ASSUME NEW q \in Procs, NEW m \in Members, q # p, op[q].kind = "decrypt",
              op[q].policy.cek = policy.cek
       PROVE  Depth(files[m], policy.cek) + Done(op[q], m) <= All(policy.files, m)
  <2>1. op[q].policy = policy
    BY <1>1, <1>12 DEF KeysInv, OnePolicy
  <2> QED BY <1>12, <2>1 DEF KeysInv, LeftAtMost
<1>13. \A q \in Procs, m \in Members : op[q].kind = "decrypt" => Done(op[q], m) \in Nat
  BY WorkType DEF Working
<1>14. LeftByTwo'
  <2> SUFFICES ASSUME NEW q \in Procs, NEW r \in Procs, NEW m \in Members, q # r,
                      op'[q].kind = "decrypt", op'[r].kind = "decrypt",
                      op'[q].policy.cek = op'[r].policy.cek
               PROVE  Depth(files[m], op'[q].policy.cek) + Done(op'[q], m) + Done(op'[r], m)
                        <= All(op'[q].policy.files, m)
    BY <1>1 DEF LeftByTwo
  <2>1. CASE q = p
    <3>1. op'[r] = op[r] /\ op[r].kind = "decrypt" /\ op[r].policy.cek = policy.cek
      BY <1>1, <1>2, <2>1
    <3>2. Depth(files[m], policy.cek) + Done(op[r], m) <= All(policy.files, m)
      BY <1>12, <2>1, <3>1
    <3> QED BY <1>2, <1>4, <1>6, <1>13, <2>1, <3>1, <3>2
  <2>2. CASE r = p
    <3>1. op'[q] = op[q] /\ op[q].kind = "decrypt" /\ op[q].policy.cek = policy.cek
      BY <1>1, <1>2, <2>2
    <3>2. Depth(files[m], policy.cek) + Done(op[q], m) <= All(policy.files, m)
      BY <1>12, <2>2, <3>1
    <3>3. op[q].policy = policy
      BY <1>1, <3>1 DEF KeysInv, OnePolicy
    <3> QED BY <1>4, <1>6, <1>13, <2>2, <3>1, <3>2, <3>3
  <2>3. CASE q # p /\ r # p
    BY <1>1, <2>3 DEF KeysInv, LeftByTwo
  <2> QED BY <2>1, <2>2, <2>3
<1>15. Alone'
  BY <1>1, <1>5 DEF KeysInv, Alone, PolicyKnown
<1>16. Retired'
  <2> SUFFICES ASSUME ~raced, NEW q \in Procs, op'[q].kind = "decrypt",
                      policy.cek # op'[q].policy.cek
               PROVE  op'[q].next = 1 /\ \A m \in Members : Depth(files[m], op'[q].policy.cek) = 0
    BY <1>1 DEF Retired
  <2>1. q # p /\ op'[q] = op[q]
    BY <1>1, <1>2
  <2> QED BY <2>1 DEF KeysInv, Retired
<1> QED BY <1>7, <1>8, <1>9, <1>10, <1>11, <1>14, <1>15, <1>16 DEF KeysInv

\* A policy goes when a decryption has come to its end, and nothing is left under its key.
LEMMA KeysRemovePolicy ==
  ASSUME TypeOK, TypeOK', KeysInv, NEW p \in Procs, RemovePolicy(p)
  PROVE  KeysInv'
<1> DEFINE key == op[p].policy.cek
<1>1. /\ Decrypting(p) /\ ~MoreFiles(p)
      /\ files' = files /\ policy' = Absent /\ seals' = seals /\ raced' = raced
      /\ op'[p] = [kind |-> "rebuild"]
      /\ \A q \in Procs : q # p => op'[q] = op[q]
  BY DEF RemovePolicy, TypeOK, history
<1>2. /\ \A m \in Members : Depth(files[m], key) = 0
      /\ op[p].next # 1
      /\ \A q \in Procs : Decrypting(q) /\ q # p /\ op[q].policy.cek = key => op[q].next = 1
  BY <1>1, NothingLeft
<1>3. ~PolicyKnown' /\ op'[p].kind = "rebuild"
  BY <1>1 DEF PolicyKnown
<1> USE DEF Encrypting, Decrypting
<1>4. \A q \in Procs : Working(op'[q]) => q # p /\ op'[q] = op[q] /\ Working(op[q])
  BY <1>1, <1>3 DEF Working
<1>5. Drawn'
  BY <1>1, <1>3, <1>4 DEF KeysInv, Drawn
<1>6. OnePolicy'
  BY <1>3, <1>4 DEF KeysInv, OnePolicy, Working
<1>7. SealedAtMost' /\ WrappedAtMost'
  BY <1>1, <1>3, <1>4 DEF KeysInv, SealedAtMost, WrappedAtMost, Working
<1>8. LeftAtMost' /\ LeftByTwo'
  BY <1>1, <1>4 DEF KeysInv, LeftAtMost, LeftByTwo, Working
<1>9. Alone'
  BY <1>1, <1>4 DEF KeysInv, Alone, Working
<1>10. Retired'
  <2> SUFFICES ASSUME ~raced, NEW q \in Procs, op'[q].kind = "decrypt"
               PROVE  op'[q].next = 1 /\ \A m \in Members : Depth(files[m], op'[q].policy.cek) = 0
    BY <1>1 DEF Retired
  <2>1. q # p /\ op'[q] = op[q] /\ op[q].kind = "decrypt"
    BY <1>4 DEF Working
  <2>2. PolicyKnown /\ policy.cek = key
    BY <1>1, <1>2 DEF KeysInv, Retired
  <2>3. CASE op[q].policy.cek = key
    BY <1>2, <2>1, <2>3
  <2>4. CASE op[q].policy.cek # key
    BY <2>1, <2>2, <2>4 DEF KeysInv, Retired
  <2> QED BY <2>3, <2>4
<1> QED BY <1>5, <1>6, <1>7, <1>8, <1>9, <1>10 DEF KeysInv

\* A policy.yaml cut short wraps nothing; there was none before.
LEMMA KeysCrashInPolicy ==
  ASSUME TypeOK, TypeOK', KeysInv, NEW p \in Procs, CrashInPolicy(p)
  PROVE  KeysInv'
<1>1. /\ Encrypting(p)
      /\ files' = files /\ policy' = Truncated /\ seals' = seals /\ raced' = raced
      /\ op'[p] = Idle
      /\ \A q \in Procs : q # p => op'[q] = op[q]
  BY DEF CrashInPolicy, Dies, TypeOK
<1>2. ~PolicyKnown' /\ op'[p].kind = "idle"
  BY <1>1 DEF PolicyKnown, Idle
<1> USE DEF Encrypting, Decrypting
<1>3. \A q \in Procs : Working(op'[q]) => q # p /\ op'[q] = op[q] /\ Working(op[q])
  BY <1>1, <1>2 DEF Working
<1>4. Drawn'
  BY <1>1, <1>2, <1>3 DEF KeysInv, Drawn
<1>5. OnePolicy'
  BY <1>2, <1>3 DEF KeysInv, OnePolicy, Working
<1>6. SealedAtMost' /\ WrappedAtMost'
  BY <1>1, <1>2, <1>3 DEF KeysInv, SealedAtMost, WrappedAtMost, Working
<1>7. LeftAtMost' /\ LeftByTwo'
  BY <1>1, <1>3 DEF KeysInv, LeftAtMost, LeftByTwo, Working
<1>8. Alone'
  <2> SUFFICES ASSUME ~raced, NEW q \in Procs, op'[q].kind = "encrypt"
               PROVE  FALSE
    BY <1>1 DEF Alone
  <2> QED BY <1>1, <1>3 DEF KeysInv, Alone, Working
<1>9. Retired'
  <2> SUFFICES ASSUME ~raced, NEW q \in Procs, op'[q].kind = "decrypt"
               PROVE  op'[q].next = 1 /\ \A m \in Members : Depth(files[m], op'[q].policy.cek) = 0
    BY <1>1 DEF Retired
  <2>1. op'[q] = op[q] /\ op[q].kind = "decrypt"
    BY <1>3 DEF Working
  <2>2. ~PolicyKnown
    BY <1>1 DEF KeysInv, Alone, PolicyKnown
  <2> QED BY <2>1, <2>2 DEF KeysInv, Retired
<1> QED BY <1>4, <1>5, <1>6, <1>7, <1>8, <1>9 DEF KeysInv

\* What opening a file does to the member and the depths.
LEMMA OpenFileDepth ==
  ASSUME TypeOK, TypeOK', NEW p \in Procs, OpenFile(p)
  PROVE  LET n   == NextFile(p)
             key == op[p].policy.cek
         IN  /\ Len(files'[n].layers) = Len(files[n].layers) - 1
             /\ \A i \in 1..Len(files'[n].layers) : files'[n].layers[i] = files[n].layers[i]
             /\ \A m \in Members : \A cek :
                  /\ Depth(files'[m], cek) \in Nat
                  /\ Depth(files[m], cek) = Depth(files'[m], cek)
                       + IF m = n /\ cek = key THEN 1 ELSE 0
<1> DEFINE n   == NextFile(p)
           key == op[p].policy.cek
           less(m, cek) == IF m = n /\ cek = key THEN 1 ELSE 0
           inner == SubSeq(files[n].layers, 1, Len(files[n].layers) - 1)
<1>1. /\ n \in Members /\ files[n] \in Bytes /\ key \in Keys
      /\ files[n].layers # << >> /\ files[n].layers[Len(files[n].layers)] = key
  BY TaskType DEF OpenFile, Opens, TypeOK
<1>2. files' = [files EXCEPT ![n] = [files[n] EXCEPT !.layers = inner]]
  BY <1>1 DEF OpenFile, TypeOK
<1>3. /\ files'[n] = [files[n] EXCEPT !.layers = inner] /\ files'[n] \in Bytes
      /\ Len(files'[n].layers) = Len(files[n].layers) - 1
      /\ \A i \in 1..Len(files'[n].layers) : files'[n].layers[i] = files[n].layers[i]
      /\ \A cek : Depth(files[n], cek) = Depth(files'[n], cek) + IF key = cek THEN 1 ELSE 0
  <2>1. files'[n] = [files[n] EXCEPT !.layers = inner]
    BY <1>1, <1>2 DEF TypeOK
  <2> DEFINE b == files[n]
             s == [b EXCEPT !.layers = SubSeq(b.layers, 1, Len(b.layers) - 1)]
  <2>2. \A cek : /\ s \in Bytes
                 /\ Len(s.layers) = Len(b.layers) - 1
                 /\ \A i \in 1..Len(s.layers) : s.layers[i] = b.layers[i]
                 /\ Depth(b, cek) = Depth(s, cek) + IF b.layers[Len(b.layers)] = cek THEN 1 ELSE 0
    <3>1. b \in Bytes /\ b.layers # << >>
      BY <1>1
    <3> HIDE DEF b
    <3> QED BY <3>1, DepthOpen
  <2> QED BY <1>1, <2>1, <2>2
<1>4. \A m \in Members : \A cek : /\ Depth(files'[m], cek) \in Nat
                                  /\ Depth(files[m], cek) = Depth(files'[m], cek) + less(m, cek)
  <2> TAKE m \in Members
  <2> TAKE cek
  <2>1. Depth(files'[m], cek) \in Nat
    BY DepthType DEF TypeOK
  <2>2. CASE m = n
    BY <1>3, <2>1, <2>2
  <2>3. CASE m # n
    BY <1>2, <2>1, <2>3 DEF TypeOK
  <2> QED BY <2>2, <2>3
<1> QED BY <1>3, <1>4

\* One layer less, and the command that took it off counts one more.
LEMMA KeysOpenFile ==
  ASSUME TypeOK, TypeOK', KeysInv, NEW p \in Procs, OpenFile(p)
  PROVE  KeysInv'
<1> DEFINE n   == NextFile(p)
           key == op[p].policy.cek
           less(m, cek) == IF m = n /\ cek = key THEN 1 ELSE 0
           inner == SubSeq(files[n].layers, 1, Len(files[n].layers) - 1)
<1>1. /\ Decrypting(p) /\ MoreFiles(p) /\ Working(op[p])
      /\ n \in Members /\ files[n] \in Bytes /\ key \in Keys
      /\ op[p].next \in Nat \ {0} /\ op[p].policy.files \in Seq(Members)
      /\ op[p].next <= Len(op[p].policy.files)
      /\ files[n].layers # << >> /\ files[n].layers[Len(files[n].layers)] = key
  BY TaskType, WorkType DEF OpenFile, Opens, TypeOK, MoreFiles, Working, Decrypting
<1>2. /\ files' = [files EXCEPT ![n] = [files[n] EXCEPT !.layers = inner]]
      /\ policy' = policy /\ seals' = seals /\ raced' = raced
      /\ op'[p] = [op[p] EXCEPT !.next = op[p].next + 1]
      /\ \A q \in Procs : q # p => op'[q] = op[q]
  BY <1>1 DEF OpenFile, TypeOK, history
<1>3. /\ op'[p].kind = "decrypt" /\ op'[p].policy = op[p].policy /\ op'[p].next = op[p].next + 1
      /\ \A q \in Procs : op'[q].kind = op[q].kind /\ op'[q].policy = op[q].policy
      /\ \A q \in Procs : Working(op'[q]) <=> Working(op[q])
  <2>1. op[p] \in [kind : {"encrypt", "decrypt"}, next : Nat \ {0}, policy : Policy]
    BY <1>1, TaskType
  <2> QED BY <1>1, <1>2, <2>1 DEF Decrypting, Working
<1>4. /\ Len(files'[n].layers) = Len(files[n].layers) - 1
      /\ \A i \in 1..Len(files'[n].layers) : files'[n].layers[i] = files[n].layers[i]
      /\ \A m \in Members : \A cek : /\ Depth(files'[m], cek) \in Nat
                                    /\ Depth(files[m], cek) = Depth(files'[m], cek) + less(m, cek)
  BY OpenFileDepth
<1>5. \A m \in Members : \A cek : /\ Depth(files'[m], cek) \in Nat
                                  /\ Depth(files[m], cek) = Depth(files'[m], cek) + less(m, cek)
  BY <1>4
<1>6. \A m : Done(op[p], m) \in Nat /\ Done(op'[p], m) = Done(op[p], m) + less(m, key)
  BY <1>1, <1>3, DoneStep
<1>7. PolicyKnown' <=> PolicyKnown
  BY <1>2 DEF PolicyKnown
<1>8. \A m \in Members : \A cek : /\ Depth(files'[m], cek) \in Nat /\ Depth(files[m], cek) \in Nat
                                  /\ Depth(files'[m], cek) <= Depth(files[m], cek)
  BY <1>5
<1> USE DEF Encrypting, Decrypting
<1>9. \A q \in Procs : q # p => op'[q] = op[q]
  BY <1>2
<1>10. \A q \in Procs, m \in Members : op[q].kind = "decrypt" =>
         Done(op[q], m) \in Nat /\ All(op[q].policy.files, m) \in Nat
  BY WorkType DEF Working
<1>11. Drawn'
  <2>1. ASSUME NEW m \in Members, files'[m] # Absent, NEW i \in 1..Len(files'[m].layers)
        PROVE  files'[m].layers[i] <= seals
    <3>1. CASE m = n
      <4>1. Len(files[n].layers) \in Nat /\ files[n] # Absent
        BY <1>1, LenProperties, Markers DEF Bytes
      <4> DEFINE a == Len(files[n].layers)
                 b == Len(files'[n].layers)
      <4>2. i \in 1..b /\ files'[n].layers[i] = files[n].layers[i]
        BY <1>4, <2>1, <3>1
      <4>3. a \in Nat /\ b = a - 1
        BY <1>4, <4>1
      <4>4. i \in 1..a
        <5> HIDE DEF a, b
        <5> QED BY <4>2, <4>3
      <4> QED BY <1>1, <3>1, <4>1, <4>2, <4>4 DEF KeysInv, Drawn
    <3>2. CASE m # n
      BY <1>2, <2>1, <3>2 DEF KeysInv, Drawn, TypeOK
    <3> QED BY <3>1, <3>2
  <2>2. ASSUME NEW q \in Procs, Working(op'[q])
        PROVE  op'[q].policy.cek <= seals /\ op'[q].next <= Len(op'[q].policy.files) + 1
    <3>1. CASE q = p
      <4>1. key <= seals /\ Len(op[p].policy.files) \in Nat
        BY <1>1, LenProperties DEF KeysInv, Drawn
      <4> QED BY <1>1, <1>3, <3>1, <4>1
    <3>2. CASE q # p
      BY <1>2, <2>2, <3>2 DEF KeysInv, Drawn
    <3> QED BY <3>1, <3>2
  <2> QED BY <1>2, <1>7, <2>1, <2>2 DEF KeysInv, Drawn
<1>12. OnePolicy'
  BY <1>2, <1>3, <1>7 DEF KeysInv, OnePolicy
<1>13. SealedAtMost'
  <2> SUFFICES ASSUME NEW q \in Procs, NEW m \in Members, op'[q].kind = "encrypt"
               PROVE  Depth(files'[m], op'[q].policy.cek) <= Done(op'[q], m)
    BY DEF SealedAtMost
  <2>1. q # p /\ op'[q] = op[q]
    BY <1>3, <1>9
  <2>2. Depth(files[m], op[q].policy.cek) <= Done(op[q], m) /\ Done(op[q], m) \in Nat
    BY <2>1, WorkType DEF KeysInv, SealedAtMost, Working
  <2> QED BY <1>8, <2>1, <2>2
<1>14. WrappedAtMost'
  <2> SUFFICES ASSUME PolicyKnown, NEW m \in Members
               PROVE  Depth(files'[m], policy.cek) <= All(policy.files, m)
    BY <1>2, <1>7 DEF WrappedAtMost
  <2>1. Depth(files[m], policy.cek) <= All(policy.files, m) /\ All(policy.files, m) \in Nat
    BY PolicyType DEF KeysInv, WrappedAtMost
  <2> QED BY <1>8, <2>1
<1>15. LeftAtMost'
  <2> SUFFICES ASSUME NEW q \in Procs, NEW m \in Members, op'[q].kind = "decrypt"
               PROVE  Depth(files'[m], op'[q].policy.cek) + Done(op'[q], m) <= All(op'[q].policy.files, m)
    BY DEF LeftAtMost
  <2> DEFINE c == op[q].policy.cek
             d == Depth(files[m], c)
             e == Depth(files'[m], c)
             x == Done(op[q], m)
             y == less(m, c)
             a == All(op[q].policy.files, m)
  <2>1. d + x <= a /\ x \in Nat /\ a \in Nat
    BY <1>3, <1>10 DEF KeysInv, LeftAtMost
  <2>2. e \in Nat /\ y \in Nat /\ d = e + y
    BY <1>5
  <2>3. e + x <= a /\ e + (x + y) <= a
    <3> HIDE DEF d, e, x, y, a
    <3> QED BY <2>1, <2>2
  <2>4. CASE q = p
    BY <1>3, <1>6, <2>3, <2>4
  <2>5. CASE q # p
    BY <1>9, <2>3, <2>5
  <2> QED BY <2>4, <2>5
<1>16. LeftByTwo'
  <2> SUFFICES ASSUME NEW q \in Procs, NEW r \in Procs, NEW m \in Members, q # r,
                      op'[q].kind = "decrypt", op'[r].kind = "decrypt",
                      op'[q].policy.cek = op'[r].policy.cek
               PROVE  Depth(files'[m], op'[q].policy.cek) + Done(op'[q], m) + Done(op'[r], m)
                        <= All(op'[q].policy.files, m)
    BY DEF LeftByTwo
  <2> DEFINE c == op[q].policy.cek
             d == Depth(files[m], c)
             e == Depth(files'[m], c)
             x == Done(op[q], m)
             z == Done(op[r], m)
             y == less(m, c)
             a == All(op[q].policy.files, m)
  <2>1. op[q].kind = "decrypt" /\ op[r].kind = "decrypt" /\ c = op[r].policy.cek
    BY <1>3
  <2>2. d + x + z <= a /\ x \in Nat /\ z \in Nat /\ a \in Nat
    BY <1>10, <2>1 DEF KeysInv, LeftByTwo
  <2>3. e \in Nat /\ y \in Nat /\ d = e + y
    BY <1>5
  <2>4. e + x + z <= a /\ e + (x + y) + z <= a /\ e + x + (z + y) <= a
    <3> HIDE DEF d, e, x, y, z, a
    <3> QED BY <2>2, <2>3
  <2>5. CASE q = p
    BY <1>3, <1>6, <1>9, <2>4, <2>5
  <2>6. CASE r = p
    <3>1. c = key /\ op'[q] = op[q]
      BY <1>9, <2>1, <2>6
    <3>2. Done(op'[r], m) = z + y
      BY <1>6, <2>6, <3>1
    <3> QED BY <2>4, <3>1, <3>2
  <2>7. CASE q # p /\ r # p
    BY <1>9, <2>4, <2>7
  <2> QED BY <2>5, <2>6, <2>7
<1>17. Alone'
  BY <1>2, <1>3 DEF KeysInv, Alone
<1>18. Retired'
  <2> SUFFICES ASSUME ~raced, NEW q \in Procs, op'[q].kind = "decrypt",
                      ~(PolicyKnown /\ policy.cek = op'[q].policy.cek)
               PROVE  op'[q].next = 1 /\ \A m \in Members : Depth(files'[m], op'[q].policy.cek) = 0
    BY <1>2, <1>7 DEF Retired
  <2>1. op[q].next = 1 /\ \A m \in Members : Depth(files[m], op[q].policy.cek) = 0
    BY <1>3 DEF KeysInv, Retired
  <2>2. q # p
    <3> SUFFICES ASSUME q = p PROVE FALSE
      OBVIOUS
    <3> DEFINE d == Depth(files[n], key)
               e == Depth(files'[n], key)
    <3>1. d = 0 /\ d = e + 1
      BY <1>1, <1>4, <2>1
    <3>2. e \in Nat
      BY <1>1, <1>8
    <3> HIDE DEF d, e
    <3> QED BY <3>1, <3>2
  <2> QED BY <1>8, <1>9, <2>1, <2>2
<1> QED BY <1>11, <1>12, <1>13, <1>14, <1>15, <1>16, <1>17, <1>18 DEF KeysInv

LEMMA KeysStep ==
  ASSUME TypeOK, TypeOK', KeysInv, [Next]_vars
  PROVE  KeysInv'
<1>1. ASSUME NEW p \in Procs, EncryptFails(p) \/ RebuildManifest(p) \/ OpenFails(p) \/ AttestationFails(p)
      PROVE  KeysInv'
  <2>1. /\ policy' = policy /\ seals' = seals /\ raced' = raced /\ files' = files
        /\ op'[p] = Idle /\ \A q \in Procs : q # p => op'[q] = op[q]
    BY <1>1 DEF EncryptFails, RebuildManifest, OpenFails, AttestationFails, history, TypeOK
  <2>2. ~Working(op'[p])
    BY <2>1 DEF Working, Idle
  <2> QED BY <2>1, <2>2, KeysFrame
<1>2. ASSUME NEW p \in Procs, CrashBetweenWrites(p) \/ CrashInMember(p) \/ CrashInManifest(p)
      PROVE  KeysInv'
  <2>1. /\ policy' = policy /\ seals' = seals /\ raced' = raced
        /\ op'[p] = Idle /\ \A q \in Procs : q # p => op'[q] = op[q]
    BY <1>2 DEF CrashBetweenWrites, CrashInMember, CrashInManifest, Dies, TypeOK
  <2>2. ~Working(op'[p])
    BY <2>1 DEF Working, Idle
  <2>3. \A m \in Members : files'[m] = files[m] \/ files'[m] = Plain(Empty)
    BY <1>2 DEF CrashBetweenWrites, CrashInMember, CrashInManifest, TypeOK
  <2>4. \A m \in Members : files'[m] = files[m] \/ files'[m] = Absent \/ files'[m].layers = << >>
    BY <2>3 DEF Plain
  <2> QED BY <2>1, <2>2, <2>4, KeysFrame
<1>3. CASE StudioLoad \/ UNCHANGED vars
  <2>1. /\ policy' = policy /\ seals' = seals /\ raced' = raced /\ files' = files /\ op' = op
    BY <1>3 DEF StudioLoad, vars, history
  <2> QED BY <2>1, KeysFrame
<1>4. ASSUME NEW content \in Texts, NEW schema \in Texts, NEW ensure \in BOOLEAN,
             StudioSave(content, schema, ensure)
      PROVE  KeysInv'
  <2>1. policy' = policy /\ seals' = seals /\ raced' = raced /\ op' = op
    BY <1>4 DEF StudioSave, history
  <2>2. \A m \in Members :
          files'[m] = files[m] \/ files'[m] = Plain(content) \/ files'[m] = Plain(schema)
    BY <1>4 DEF StudioSave, Written
  <2>3. \A m \in Members : files'[m] = files[m] \/ files'[m] = Absent \/ files'[m].layers = << >>
    BY <2>2 DEF Plain
  <2> QED BY <2>1, <2>3, KeysFrame
<1> QED
  BY <1>1, <1>2, <1>3, <1>4, KeysEncryptBegin, KeysSealFile, KeysWritePolicy, KeysDecryptBegin,
     KeysOpenFile, KeysRemovePolicy, KeysCrashInPolicy
     DEF Next, Encrypt, Decrypt, Crash, Studio

-----------------------------------------------------------------------------
(* Nothing is lost.                                                        *)

LEMMA AtMostZero == \A d, e \in Nat : e <= d => (e # 0 => d # 0)
OBVIOUS

\* The key of a layer is with somebody.
Kept(cek, m) == cek \in orphaned \/ Wrapped(m, cek) \/ Pending(m, cek)

\* A member with a layer under a key has some depth under it, and the other way round.
LEMMA LayersAndDepth ==
  ASSUME TypeOK, NEW m \in Members, NEW cek
  PROVE  Depth(files[m], cek) # 0 <=>
           files[m] # Absent /\ \E i \in 1..Len(files[m].layers) : files[m].layers[i] = cek
BY DepthType DEF TypeOK, Depth

\* No key that a member is under is lost.
LEMMA RecoverableDepth ==
  ASSUME TypeOK
  PROVE  Recoverable <=>
           (~raced => \A m \in Members : \A cek : Depth(files[m], cek) # 0 => Kept(cek, m))
<1>1. ASSUME Recoverable, ~raced, NEW m \in Members, NEW cek, Depth(files[m], cek) # 0
      PROVE  Kept(cek, m)
  <2>1. PICK i \in 1..Len(files[m].layers) : files[m] # Absent /\ files[m].layers[i] = cek
    BY <1>1, LayersAndDepth
  <2> QED BY <1>1, <2>1 DEF Recoverable, Kept
<1>2. ASSUME ~raced, \A m \in Members : \A cek : Depth(files[m], cek) # 0 => Kept(cek, m),
             NEW m \in Members, files[m] # Absent, NEW i \in 1..Len(files[m].layers)
      PROVE  Kept(files[m].layers[i], m)
  <2>1. Depth(files[m], files[m].layers[i]) # 0
    BY <1>2, LayersAndDepth
  <2> QED BY <1>2, <2>1
<1>3. Recoverable <=>
        (~raced => \A m \in Members : files[m] # Absent =>
                     \A i \in 1..Len(files[m].layers) : Kept(files[m].layers[i], m))
  BY DEF Recoverable, Kept
<1> QED BY <1>1, <1>2, <1>3

LEMMA RecoverableDepthNext ==
  ASSUME TypeOK'
  PROVE  Recoverable' <=>
           (~raced' => \A m \in Members : \A cek :
                         Depth(files'[m], cek) # 0 => Kept(cek, m)')
<1>1. (TypeOK =>
        (Recoverable <=>
           (~raced => \A m \in Members : \A cek : Depth(files[m], cek) # 0 => Kept(cek, m))))'
  BY RecoverableDepth, PTL
<1> QED BY <1>1

\* A step that adds no layer, leaves a policy that is there alone, and ends an encryption
\* only by writing its policy or by dropping its key.
LEMMA NothingLost ==
  ASSUME TypeOK, TypeOK', Recoverable,
         raced => raced', orphaned \subseteq orphaned',
         \A m \in Members : \A cek : Depth(files'[m], cek) # 0 => Depth(files[m], cek) # 0,
         ~raced => (PolicyKnown => policy' = policy),
         \A p \in Procs : Encrypting(p) =>
           \/ op'[p].kind = "encrypt" /\ op'[p].policy = op[p].policy
           \/ op[p].policy.cek \in orphaned'
           \/ policy' = op[p].policy
  PROVE  Recoverable'
<1> SUFFICES ASSUME ~raced', NEW m \in Members, NEW cek, Depth(files'[m], cek) # 0
             PROVE  Kept(cek, m)'
  BY RecoverableDepthNext
<1>1. ~raced /\ Kept(cek, m)
  BY RecoverableDepth
<1>2. CASE cek \in orphaned
  BY <1>2 DEF Kept
<1>3. CASE Wrapped(m, cek)
  BY <1>1, <1>3 DEF Kept, Wrapped, PolicyKnown
<1>4. CASE Pending(m, cek)
  <2>1. PICK p \in Procs : Encrypting(p) /\ op[p].policy.cek = cek /\ m \in Listed(op[p].policy)
    BY <1>4 DEF Pending
  <2>2. CASE op'[p].kind = "encrypt" /\ op'[p].policy = op[p].policy
    BY <2>1, <2>2 DEF Kept, Pending, Encrypting
  <2>3. CASE op[p].policy.cek \in orphaned'
    BY <2>1, <2>3 DEF Kept
  <2>4. CASE policy' = op[p].policy
    <3>1. policy' \in Policy
      BY <2>1, <2>4, TaskType
    <3> QED BY <2>1, <2>4, <3>1, Markers DEF Kept, Wrapped, PolicyKnown
  <2> QED BY <2>1, <2>2, <2>3, <2>4
<1> QED BY <1>1, <1>2, <1>3, <1>4 DEF Kept

LEMMA RecoverableStep ==
  ASSUME TypeOK, TypeOK', KeysInv, Recoverable, [Next]_vars
  PROVE  Recoverable'
<1>1. ASSUME NEW p \in Procs, NEW list \in Requests, EncryptBegin(p, list)
      PROVE  Recoverable'
  <2>1. \A q \in Procs : Encrypting(q) => q # p /\ op'[q] = op[q]
    BY <1>1 DEF EncryptBegin, TypeOK, Encrypting, Idle
  <2> QED BY <1>1, <2>1, NothingLost DEF EncryptBegin, Encrypting
<1>2. ASSUME NEW p \in Procs, SealFile(p)
      PROVE  Recoverable'
  <2> SUFFICES ASSUME ~raced', NEW m \in Members, NEW cek, Depth(files'[m], cek) # 0
               PROVE  Kept(cek, m)'
    BY RecoverableDepthNext
  <2>1. /\ Encrypting(p) /\ MoreFiles(p) /\ ~raced
        /\ policy' = policy /\ orphaned' = orphaned
        /\ op' = [op EXCEPT ![p] = [op[p] EXCEPT !.next = op[p].next + 1]]
    BY <1>2 DEF SealFile, history, TypeOK
  <2>2. op[p] \in [kind : {"encrypt", "decrypt"}, next : Nat \ {0}, policy : Policy]
    BY <2>1, TaskType
  <2>3. \A q \in Procs : op'[q].kind = op[q].kind /\ op'[q].policy = op[q].policy
    BY <2>1, <2>2 DEF TypeOK
  <2>4. CASE m = NextFile(p) /\ cek = op[p].policy.cek
    <3>1. NextFile(p) \in Listed(op[p].policy)
      <4>1. /\ op[p].policy.files \in Seq(Members) /\ op[p].next \in Nat \ {0}
            /\ op[p].next <= Len(op[p].policy.files)
        BY <2>1, TaskType, RequestType DEF MoreFiles
      <4>2. op[p].next \in DOMAIN op[p].policy.files
        BY <4>1, LenProperties
      <4> QED BY <4>2 DEF Listed, Range, NextFile
    <3> QED BY <2>1, <2>3, <2>4, <3>1 DEF Kept, Pending, Encrypting
  <2>5. CASE ~(m = NextFile(p) /\ cek = op[p].policy.cek)
    <3>1. Depth(files'[m], cek) = Depth(files[m], cek) + 0 /\ Depth(files[m], cek) \in Nat
      BY <1>2, <2>5, SealFileDepth
    <3>2. Kept(cek, m)
      BY <2>1, <3>1, RecoverableDepth
    <3> QED BY <2>1, <2>3, <3>2 DEF Kept, Wrapped, PolicyKnown, Pending, Encrypting
  <2> QED BY <2>4, <2>5
<1>3. ASSUME NEW p \in Procs, EncryptFails(p)
      PROVE  Recoverable'
  BY <1>3, NothingLost DEF EncryptFails, TypeOK, Encrypting
<1>4. ASSUME NEW p \in Procs, WritePolicy(p)
      PROVE  Recoverable'
  <2>1. ~raced => ~PolicyKnown
    BY <1>4 DEF KeysInv, Alone, WritePolicy, PolicyKnown
  <2> QED BY <1>4, <2>1, NothingLost DEF WritePolicy, history, TypeOK, Encrypting
<1>5. ASSUME NEW p \in Procs,
             RebuildManifest(p) \/ DecryptBegin(p) \/ OpenFails(p) \/ AttestationFails(p)
      PROVE  Recoverable'
  <2>1. /\ ~Encrypting(p) /\ files' = files /\ policy' = policy
        /\ orphaned' = orphaned /\ raced' = raced
        /\ \A q \in Procs : q # p => op'[q] = op[q]
    BY <1>5 DEF RebuildManifest, DecryptBegin, OpenFails, AttestationFails, history, TypeOK,
                Encrypting, Decrypting, Idle
  <2> QED BY <2>1, NothingLost DEF Encrypting
<1>6. ASSUME NEW p \in Procs, OpenFile(p)
      PROVE  Recoverable'
  <2>1. /\ ~Encrypting(p) /\ policy' = policy
        /\ orphaned' = orphaned /\ raced' = raced
        /\ \A q \in Procs : q # p => op'[q] = op[q]
    BY <1>6 DEF OpenFile, history, TypeOK, Encrypting, Decrypting
  <2>2. \A m \in Members : \A cek : /\ Depth(files'[m], cek) \in Nat
                                    /\ \E y \in {0, 1} : Depth(files[m], cek) = Depth(files'[m], cek) + y
    BY <1>6, OpenFileDepth
  <2>3. \A m \in Members : \A cek : Depth(files'[m], cek) # 0 => Depth(files[m], cek) # 0
    <3>1. \A d : \A e \in Nat : (\E y \in {0, 1} : d = e + y) => (e # 0 => d # 0)
      OBVIOUS
    <3> QED BY <2>2, <3>1, Zenon
  <2> QED BY <2>1, <2>3, NothingLost DEF Encrypting
<1>7. ASSUME NEW p \in Procs, RemovePolicy(p)
      PROVE  Recoverable'
  <2> SUFFICES ASSUME ~raced', NEW m \in Members, NEW cek, Depth(files'[m], cek) # 0
               PROVE  Kept(cek, m)'
    BY RecoverableDepthNext
  <2>1. /\ Decrypting(p) /\ ~MoreFiles(p) /\ ~raced
        /\ files' = files /\ orphaned' = orphaned
        /\ \A q \in Procs : q # p => op'[q] = op[q]
    BY <1>7 DEF RemovePolicy, history, TypeOK
  <2>2. Kept(cek, m)
    BY <2>1, RecoverableDepth
  <2>3. ~Wrapped(m, cek)
    <3>1. Depth(files[m], op[p].policy.cek) = 0 /\ op[p].next # 1
      BY <2>1, NothingLeft
    <3>2. PolicyKnown /\ policy.cek = op[p].policy.cek
      BY <2>1, <3>1 DEF KeysInv, Retired
    <3> QED BY <2>1, <3>1, <3>2 DEF Wrapped
  <2>4. Pending(m, cek) => Pending(m, cek)'
    BY <2>1 DEF Pending, Encrypting, Decrypting
  <2> QED BY <2>1, <2>2, <2>3, <2>4 DEF Kept
<1>8. ASSUME NEW p \in Procs, Dies(p),
             ~raced => (PolicyKnown => policy' = policy),
             \A m \in Members : files'[m] = files[m] \/ files'[m] = Plain(Empty)
      PROVE  Recoverable'
  <2>1. /\ raced' = raced /\ orphaned \subseteq orphaned'
        /\ Encrypting(p) => op[p].policy.cek \in orphaned'
        /\ \A q \in Procs : q # p => op'[q] = op[q]
    BY <1>8 DEF Dies, TypeOK
  <2>2. \A m \in Members : files'[m] = files[m] \/ files'[m] = Absent \/ files'[m].layers = << >>
    BY <1>8 DEF Plain
  <2>3. \A m \in Members : \A cek : Depth(files'[m], cek) # 0 => Depth(files[m], cek) # 0
    BY <2>2, DepthsShrink, AtMostZero
  <2> QED BY <1>8, <2>1, <2>3, NothingLost DEF Encrypting
<1>9. ASSUME NEW p \in Procs, Crash(p)
      PROVE  Recoverable'
  <2>1. Dies(p)
    BY <1>9 DEF Crash, CrashBetweenWrites, CrashInMember, CrashInPolicy, CrashInManifest
  <2>2. ~raced => (PolicyKnown => policy' = policy)
    BY <1>9 DEF Crash, CrashBetweenWrites, CrashInMember, CrashInPolicy, CrashInManifest,
                KeysInv, Alone, PolicyKnown
  <2>3. \A m \in Members : files'[m] = files[m] \/ files'[m] = Plain(Empty)
    BY <1>9 DEF Crash, CrashBetweenWrites, CrashInMember, CrashInPolicy, CrashInManifest, TypeOK
  <2> QED BY <1>8, <2>1, <2>2, <2>3
<1>10. CASE StudioLoad \/ UNCHANGED vars
  BY <1>10, NothingLost DEF StudioLoad, vars, history, Encrypting
<1>11. ASSUME NEW content \in Texts, NEW schema \in Texts, NEW ensure \in BOOLEAN,
              StudioSave(content, schema, ensure)
       PROVE  Recoverable'
  <2>1. policy' = policy /\ raced' = raced /\ orphaned' = orphaned /\ op' = op
    BY <1>11 DEF StudioSave, history
  <2>2. \A m \in Members :
          files'[m] = files[m] \/ files'[m] = Plain(content) \/ files'[m] = Plain(schema)
    BY <1>11 DEF StudioSave, Written
  <2>3. \A m \in Members : files'[m] = files[m] \/ files'[m] = Absent \/ files'[m].layers = << >>
    BY <2>2 DEF Plain
  <2>4. \A m \in Members : \A cek : Depth(files'[m], cek) # 0 => Depth(files[m], cek) # 0
    BY <2>3, DepthsShrink, AtMostZero
  <2> QED BY <2>1, <2>4, NothingLost DEF Encrypting
<1> QED
  BY <1>1, <1>2, <1>3, <1>4, <1>5, <1>6, <1>7, <1>9, <1>10, <1>11 DEF Next, Encrypt, Decrypt, Studio

\* Under any interleaving of commands, saves and crashes, no layer's key is lost but by an
\* encryption that was cut short, as long as two encryptions do not overlap.
THEOREM RecoverableCorrect == Spec => []Recoverable
<1>1. Init => TypeOK /\ KeysInv /\ Recoverable
  BY InitType, KeysInit
<1>2. TypeOK /\ KeysInv /\ Recoverable /\ [Next]_vars => (TypeOK /\ KeysInv /\ Recoverable)'
  BY StepType, KeysStep, RecoverableStep
<1> QED BY <1>1, <1>2, PTL DEF Spec

-----------------------------------------------------------------------------
(* The invariant behind the properties of an undisturbed folder: what it   *)
(* holds, step by step of the two commands, in terms of what the           *)
(* encryption found.                                                       *)

\* A member's bytes with n more layers under a key.
Under(b, n, cek) ==
  IF b = Absent THEN Absent
  ELSE [text |-> b.text, layers |-> b.layers \o [i \in 1..n |-> cek]]

\* What the latest encryption found calls for an attestation.
DueBefore(list) ==
  /\ Content \in Range(list)
  /\ Schema \notin Range(list)
  /\ before.files[Schema] # Absent
  /\ Sections[before.files[Schema].text] # << >>

\* The attestation is the one of the folder as the encryption found it.
AttestsBefore(pol) ==
  IF DueBefore(pol.files)
  THEN /\ IsPlain(before.files[Schema]) /\ before.files[Content] # Absent
       /\ pol.structure = Attested(before.files[Schema], before.files[Content])
  ELSE pol.structure = NoStructure

\* The first n members of a list are there.
There(list, n) == \A i \in 1..n : before.files[list[i]] # Absent

\* The folder as the encryption found it, but for the layers its command has come to ...
Sealing(p) ==
  /\ Encrypting(p) /\ policy = Absent
  /\ AttestsBefore(op[p].policy)
  /\ There(op[p].policy.files, op[p].next - 1)
  /\ \A m \in Members : files[m] = Under(before.files[m], Done(op[p], m), op[p].policy.cek)

\* ... for all of them ...
Sealed ==
  /\ PolicyKnown
  /\ AttestsBefore(policy)
  /\ There(policy.files, Len(policy.files))
  /\ \A m \in Members : files[m] = Under(before.files[m], All(policy.files, m), policy.cek)

\* ... for those a decryption has not come to ...
Opening(p) ==
  /\ Decrypting(p) /\ PolicyKnown /\ op[p].policy = policy
  /\ AttestsBefore(policy)
  /\ There(policy.files, Len(policy.files))
  /\ \A m \in Members :
       files[m] = Under(before.files[m], All(policy.files, m) - Done(op[p], m), policy.cek)

\* ... and as it was.
Opened == policy = Absent /\ files = before.files

\* As long as nothing but one command at a time touches the folder, it is in one of these
\* four, and its manifest is the one of the members and the policy between two commands.
CalmInv ==
  ~disturbed =>
    /\ before = ManifestOf(before.files, Absent)
    /\ \/ \E p \in Procs :
            /\ \A q \in Procs : q # p => op[q] = Idle
            /\ \/ Sealing(p)
               \/ Opening(p)
               \/ op[p].kind = "rebuild" /\ (Sealed \/ Opened)
       \/ /\ \A q \in Procs : op[q] = Idle
          /\ manifest = ManifestOf(files, policy)
          /\ Sealed \/ Opened

-----------------------------------------------------------------------------
(* Layers put on and taken off.                                            *)

LEMMA UnderLayers ==
  ASSUME NEW b \in Bytes, NEW n \in Nat, NEW cek \in Keys
  PROVE  /\ Under(b, n, cek) \in Bytes /\ Under(b, n, cek) # Absent
         /\ Under(b, n, cek).text = b.text
         /\ Len(b.layers) \in Nat
         /\ Len(Under(b, n, cek).layers) = Len(b.layers) + n
         /\ \A i \in 1..(Len(b.layers) + n) :
              Under(b, n, cek).layers[i] = IF i <= Len(b.layers) THEN b.layers[i] ELSE cek
<1> DEFINE more == [i \in 1..n |-> cek]
           l == Len(b.layers)
<1>1. b # Absent /\ b.layers \in Seq(Keys) /\ l \in Nat
  BY Markers, LenProperties DEF Bytes
<1>2. more \in Seq(Keys) /\ Len(more) = n
  BY SeqDef
<1>3. \A i \in 1..n : more[i] = cek
  OBVIOUS
<1>4. Under(b, n, cek) = [text |-> b.text, layers |-> b.layers \o more]
  BY <1>1 DEF Under
<1> HIDE DEF more
<1>5. /\ b.layers \o more \in Seq(Keys) /\ Len(b.layers \o more) = l + n
      /\ \A i \in 1..(l + n) : (b.layers \o more)[i] = IF i <= l THEN b.layers[i] ELSE more[i - l]
  BY <1>1, <1>2, ConcatProperties
<1>6. \A i \in 1..(l + n) : ~(i <= l) => i - l \in 1..n
  BY <1>1
<1>7. Under(b, n, cek) \in Bytes
  BY <1>4, <1>5 DEF Bytes
<1>8. \A i \in 1..(l + n) : (b.layers \o more)[i] = IF i <= l THEN b.layers[i] ELSE cek
  <2> TAKE i \in 1..(l + n)
  <2>1. CASE i <= l
    BY <1>5, <2>1
  <2>2. CASE ~(i <= l)
    <3>1. more[i - l] = cek
      BY <1>3, <1>6, <2>2
    <3> QED BY <1>5, <2>2, <3>1
  <2> QED BY <2>1, <2>2
<1>9. Under(b, n, cek).text = b.text /\ Under(b, n, cek).layers = b.layers \o more
  BY <1>4
<1>10. Under(b, n, cek) # Absent
  BY <1>7, Markers
<1> QED BY <1>1, <1>5, <1>7, <1>8, <1>9, <1>10, Zenon

\* Bytes are their text and their layers.
LEMMA BytesEqual ==
  ASSUME NEW b \in Bytes, NEW c \in Bytes, b.text = c.text, Len(b.layers) = Len(c.layers),
         \A i \in 1..Len(b.layers) : b.layers[i] = c.layers[i]
  PROVE  b = c
<1>1. b.layers \in Seq(Keys) /\ c.layers \in Seq(Keys)
  BY DEF Bytes
<1>2. b.layers = c.layers
  BY <1>1, SeqEqual
<1> QED BY <1>2 DEF Bytes

LEMMA UnderNone ==
  ASSUME NEW b \in Bytes \union {Absent}, NEW cek \in Keys
  PROVE  Under(b, 0, cek) = b
<1>1. CASE b = Absent
  BY <1>1 DEF Under
<1>2. CASE b \in Bytes
  <2> DEFINE c == Under(b, 0, cek)
  <2>1. /\ c \in Bytes /\ c.text = b.text /\ Len(b.layers) \in Nat
        /\ Len(c.layers) = Len(b.layers) + 0
        /\ \A i \in 1..(Len(b.layers) + 0) : c.layers[i] = IF i <= Len(b.layers) THEN b.layers[i] ELSE cek
    <3>1. 0 \in Nat
      OBVIOUS
    <3> QED BY <1>2, <3>1, UnderLayers, Zenon
  <2> HIDE DEF c
  <2>2. Len(c.layers) = Len(b.layers) /\ \A i \in 1..Len(c.layers) : c.layers[i] = b.layers[i]
    BY <2>1
  <2>3. c = b
    BY <1>2, <2>1, <2>2, BytesEqual
  <2> QED BY <2>3 DEF c
<1> QED BY <1>1, <1>2

LEMMA UnderMore ==
  ASSUME NEW b \in Bytes, NEW n \in Nat, NEW cek \in Keys
  PROVE  [Under(b, n, cek) EXCEPT !.layers = Append(Under(b, n, cek).layers, cek)]
           = Under(b, n + 1, cek)
<1> DEFINE c == Under(b, n, cek)
           d == Under(b, n + 1, cek)
           e == [c EXCEPT !.layers = Append(c.layers, cek)]
           l == Len(b.layers)
<1>1. /\ c \in Bytes /\ c.text = b.text /\ l \in Nat /\ Len(c.layers) = l + n
      /\ \A i \in 1..(l + n) : c.layers[i] = IF i <= l THEN b.layers[i] ELSE cek
  BY UnderLayers
<1>2. /\ d \in Bytes /\ d.text = b.text /\ Len(d.layers) = l + (n + 1)
      /\ \A i \in 1..(l + (n + 1)) : d.layers[i] = IF i <= l THEN b.layers[i] ELSE cek
  <2>1. \A k \in Nat :
          LET u == Under(b, k, cek)
          IN  /\ u \in Bytes /\ u # Absent /\ u.text = b.text /\ l \in Nat /\ Len(u.layers) = l + k
              /\ \A i \in 1..(l + k) : u.layers[i] = IF i <= l THEN b.layers[i] ELSE cek
    BY UnderLayers
  <2>2. n + 1 \in Nat
    OBVIOUS
  <2> HIDE DEF l
  <2> QED BY <2>1, <2>2, Zenon
<1> HIDE DEF c, d
<1>3. /\ Append(c.layers, cek) \in Seq(Keys) /\ Len(Append(c.layers, cek)) = Len(c.layers) + 1
      /\ \A i \in 1..Len(c.layers) : Append(c.layers, cek)[i] = c.layers[i]
      /\ Append(c.layers, cek)[Len(c.layers) + 1] = cek
  <2>1. c.layers \in Seq(Keys)
    BY <1>1 DEF Bytes
  <2> QED BY <2>1, AppendProperties
<1>4. e \in Bytes /\ e.text = b.text /\ e.layers = Append(c.layers, cek)
  BY <1>1, <1>3 DEF Bytes
<1>5. Len(e.layers) = Len(d.layers)
  BY <1>1, <1>2, <1>3, <1>4
<1>6. \A i \in 1..Len(e.layers) : e.layers[i] = d.layers[i]
  <2> TAKE i \in 1..Len(e.layers)
  <2> HIDE DEF l, e
  <2>1. i \in 1..(l + (n + 1)) /\ (i \in 1..(l + n) \/ i = l + n + 1)
    BY <1>1, <1>2, <1>5
  <2> QED BY <1>1, <1>2, <1>3, <1>4, <2>1
<1>7. e = d
  <2> HIDE DEF e
  <2> QED BY <1>2, <1>4, <1>5, <1>6, BytesEqual
<1> QED BY <1>7 DEF c, d

LEMMA UnderLess ==
  ASSUME NEW b \in Bytes, NEW n \in Nat, NEW cek \in Keys
  PROVE  LET c == Under(b, n + 1, cek)
         IN  /\ Opens(c, cek)
             /\ [c EXCEPT !.layers = SubSeq(c.layers, 1, Len(c.layers) - 1)] = Under(b, n, cek)
<1> DEFINE c == Under(b, n + 1, cek)
           d == Under(b, n, cek)
           e == [c EXCEPT !.layers = SubSeq(c.layers, 1, Len(c.layers) - 1)]
           l == Len(b.layers)
<1>1. /\ c \in Bytes /\ c # Absent /\ c.text = b.text /\ l \in Nat /\ Len(c.layers) = l + (n + 1)
      /\ \A i \in 1..(l + (n + 1)) : c.layers[i] = IF i <= l THEN b.layers[i] ELSE cek
  <2>1. \A k \in Nat :
          LET u == Under(b, k, cek)
          IN  /\ u \in Bytes /\ u # Absent /\ u.text = b.text /\ l \in Nat /\ Len(u.layers) = l + k
              /\ \A i \in 1..(l + k) : u.layers[i] = IF i <= l THEN b.layers[i] ELSE cek
    BY UnderLayers
  <2>2. n + 1 \in Nat
    OBVIOUS
  <2> HIDE DEF l
  <2> QED BY <2>1, <2>2, Zenon
<1>2. /\ d \in Bytes /\ d.text = b.text /\ Len(d.layers) = l + n
      /\ \A i \in 1..(l + n) : d.layers[i] = IF i <= l THEN b.layers[i] ELSE cek
  BY UnderLayers
<1> HIDE DEF c, d, l
<1>3. c.layers # << >> /\ c.layers \in Seq(Keys)
  BY <1>1, EmptySeq DEF Bytes
<1>4. c.layers[Len(c.layers)] = cek
  <2>1. l + (n + 1) \in 1..(l + (n + 1)) /\ ~(l + (n + 1) <= l)
    BY <1>1
  <2> QED BY <1>1, <2>1
<1>5. Opens(c, cek)
  BY <1>1, <1>3, <1>4 DEF Opens
<1>6. /\ e \in Bytes /\ Len(e.layers) = Len(c.layers) - 1
      /\ \A i \in 1..Len(e.layers) : e.layers[i] = c.layers[i]
  BY <1>1, <1>3, DepthOpen
<1>7. e.text = b.text
  BY <1>1 DEF Bytes
<1> HIDE DEF e
<1>8. Len(e.layers) = Len(d.layers)
  BY <1>1, <1>2, <1>6
<1>9. \A i \in 1..Len(e.layers) : e.layers[i] = d.layers[i]
  <2> TAKE i \in 1..Len(e.layers)
  <2>1. i \in 1..(l + n) /\ i \in 1..(l + (n + 1))
    BY <1>1, <1>2, <1>8
  <2> QED BY <1>1, <1>2, <1>6, <2>1
<1>10. e = d
  BY <1>2, <1>6, <1>7, <1>8, <1>9, BytesEqual
<1> QED BY <1>5, <1>10 DEF c, d, e

\* A longer stretch of a list names a member at least as often.
LEMMA TimesGrow ==
  ASSUME NEW s, NEW j \in Nat, NEW n \in Nat, j <= n, NEW x
  PROVE  Times(s, j, x) <= Times(s, n, x)
<1> DEFINE S == {i \in 1..j : s[i] = x}
           T == {i \in 1..n : s[i] = x}
<1>1. IsFiniteSet(T)
  BY TimesType
<1>2. S \in SUBSET T
  OBVIOUS
<1>3. Cardinality(S) <= Cardinality(T)
  <2> HIDE DEF S, T
  <2> QED BY <1>1, <1>2, FS_Subset
<1> QED BY <1>3 DEF Times

\* How far a command has come.
LEMMA DoneAtMost ==
  ASSUME TypeOK, KeysInv, NEW p \in Procs, Working(op[p])
  PROVE  /\ \A m : /\ Done(op[p], m) \in Nat /\ All(op[p].policy.files, m) \in Nat
                   /\ Done(op[p], m) <= All(op[p].policy.files, m)
         /\ MoreFiles(p) =>
              Done(op[p], NextFile(p)) + 1 <= All(op[p].policy.files, NextFile(p))
         /\ ~MoreFiles(p) =>
              /\ op[p].next - 1 = Len(op[p].policy.files)
              /\ \A m : Done(op[p], m) = All(op[p].policy.files, m)
<1> DEFINE list == op[p].policy.files
           k == op[p].next - 1
           l == Len(list)
<1>1. /\ k \in Nat /\ k + 1 = op[p].next /\ l \in Nat /\ k <= l
      /\ MoreFiles(p) => k + 1 <= l
      /\ ~MoreFiles(p) => k = l
  <2>1. op[p].next \in Nat \ {0} /\ l \in Nat
    BY WorkType
  <2>2. op[p].next <= l + 1 /\ (MoreFiles(p) <=> op[p].next <= l)
    BY DEF KeysInv, Drawn, MoreFiles
  <2> HIDE DEF l
  <2> QED BY <2>1, <2>2
<1>2. \A m : /\ Done(op[p], m) \in Nat /\ All(list, m) \in Nat
             /\ Done(op[p], m) = Times(list, k, m) /\ All(list, m) = Times(list, l, m)
  BY WorkType DEF Done, All
<1> HIDE DEF list, k, l
<1>3. \A m : Times(list, k, m) <= Times(list, l, m)
  BY <1>1, TimesGrow
<1>4. ASSUME MoreFiles(p)
      PROVE  Times(list, k, NextFile(p)) + 1 <= Times(list, l, NextFile(p))
  <2>1. list[k + 1] = NextFile(p)
    BY <1>1 DEF NextFile, list
  <2>2. Times(list, k + 1, NextFile(p)) = Times(list, k, NextFile(p)) + 1
    BY <1>1, <2>1, TimesStep
  <2>3. k + 1 \in Nat /\ k + 1 <= l
    BY <1>1, <1>4
  <2>4. Times(list, k + 1, NextFile(p)) <= Times(list, l, NextFile(p))
    <3> HIDE DEF k
    <3> QED BY <1>1, <2>3, TimesGrow
  <2> QED BY <2>2, <2>4
<1>5. ASSUME ~MoreFiles(p)
      PROVE  k = l /\ \A m : Done(op[p], m) = All(list, m)
  BY <1>1, <1>2, <1>5
<1> QED BY <1>2, <1>3, <1>4, <1>5 DEF list, k, l

-----------------------------------------------------------------------------
(* One command at a time.                                                  *)

LEMMA BeforeType ==
  ASSUME TypeOK
  PROVE  before.files \in [Members -> Bytes \union {Absent}]
BY DEF TypeOK, Manifest

\* The command that is running has the folder to itself.
LEMMA Acting ==
  ASSUME CalmInv, ~disturbed, NEW p \in Procs, op[p] # Idle
  PROVE  /\ \A q \in Procs : q # p => op[q] = Idle
         /\ Sealing(p) \/ Opening(p) \/ (op[p].kind = "rebuild" /\ (Sealed \/ Opened))
         /\ before = ManifestOf(before.files, Absent)
<1>1. PICK r \in Procs :
        /\ \A q \in Procs : q # r => op[q] = Idle
        /\ Sealing(r) \/ Opening(r) \/ (op[r].kind = "rebuild" /\ (Sealed \/ Opened))
  BY DEF CalmInv
<1>2. r = p
  BY <1>1
<1> QED BY <1>1, <1>2 DEF CalmInv

LEMMA Resting ==
  ASSUME CalmInv, ~disturbed, ~Busy
  PROVE  manifest = ManifestOf(files, policy) /\ (Sealed \/ Opened)
<1>1. \A p \in Procs : op[p] = Idle
  BY DEF Busy
<1>2. \A p \in Procs : op[p].kind = "idle"
  BY <1>1 DEF Idle
<1> QED BY <1>2 DEF CalmInv, Sealing, Opening, Encrypting, Decrypting

LEMMA CalmEncryptBegin ==
  ASSUME TypeOK, TypeOK', NEW p \in Procs, NEW list \in Requests, EncryptBegin(p, list)
  PROVE  CalmInv'
<1> SUFFICES ASSUME ~disturbed'
             PROVE  CalmInv'
  BY DEF CalmInv
<1>1. /\ \A q \in Procs : op[q] = Idle
      /\ policy = Absent /\ policy' = Absent /\ files' = files
      /\ before' = ManifestOf(files, Absent) /\ before'.files = files
      /\ op' = [op EXCEPT ![p] =
                [kind |-> "encrypt", next |-> 1,
                 policy |-> [files |-> list, cek |-> seals', structure |-> AttestationFor(list)]]]
  BY DEF EncryptBegin, Busy, NotEncrypted, ManifestOf
<1>2. /\ op'[p].kind = "encrypt" /\ op'[p].next = 1 /\ op'[p].policy.files = list
      /\ op'[p].policy.structure = AttestationFor(list)
      /\ \A q \in Procs : q # p => op'[q] = Idle
  BY <1>1 DEF TypeOK
<1>3. op'[p].policy.cek \in Keys
  <2>1. seals' \in Keys
    BY FolderBounds DEF EncryptBegin, Keys, TypeOK
  <2> QED BY <1>1, <2>1 DEF TypeOK
<1>4. \A m \in Members : files'[m] = Under(before'.files[m], Done(op'[p], m), op'[p].policy.cek)
  <2> TAKE m \in Members
  <2>1. op'[p].next - 1 = 0
    BY <1>2
  <2>2. Done(op'[p], m) = 0
    BY <2>1, TimesZero DEF Done
  <2>3. Under(files[m], 0, op'[p].policy.cek) = files[m]
    BY <1>3, UnderNone DEF TypeOK
  <2> QED BY <1>1, <2>2, <2>3
<1>5. There(op[p].policy.files, op[p].next - 1)'
  BY <1>2 DEF There
<1>6. AttestsBefore(op[p].policy)'
  <2>1. DueBefore(list)' <=> AttestationDue(list)
    BY <1>1 DEF DueBefore, AttestationDue, SchemaPublishes
  <2>2. AttestationDue(list) => IsPlain(files[Schema]) /\ files[Content] # Absent
    BY DEF EncryptBegin, CanAttest, AttestationDue
  <2> QED BY <1>1, <1>2, <2>1, <2>2 DEF AttestsBefore, AttestationFor
<1>7. Sealing(p)'
  BY <1>1, <1>2, <1>4, <1>5, <1>6 DEF Sealing, Encrypting
<1>8. before' = ManifestOf(before.files, Absent)'
  BY <1>1 DEF ManifestOf
<1> QED BY <1>2, <1>7, <1>8 DEF CalmInv

LEMMA CalmSealFile ==
  ASSUME TypeOK, TypeOK', KeysInv, CalmInv, NEW p \in Procs, SealFile(p)
  PROVE  CalmInv'
<1> SUFFICES ASSUME ~disturbed'
             PROVE  CalmInv'
  BY DEF CalmInv
<1> DEFINE n    == NextFile(p)
           key  == op[p].policy.cek
           list == op[p].policy.files
<1>1. /\ ~disturbed /\ policy' = policy /\ before' = before
      /\ op' = [op EXCEPT ![p] = [op[p] EXCEPT !.next = op[p].next + 1]]
      /\ Encrypting(p) /\ MoreFiles(p) /\ Working(op[p]) /\ op[p] # Idle
  BY DEF SealFile, history, TypeOK, Encrypting, Working, Idle
<1>2. /\ \A q \in Procs : q # p => op[q] = Idle
      /\ Sealing(p)
      /\ before = ManifestOf(before.files, Absent)
  BY <1>1, Acting DEF Opening, Encrypting, Decrypting
<1>3. /\ op[p] \in [kind : {"encrypt", "decrypt"}, next : Nat \ {0}, policy : Policy]
      /\ n \in Members /\ files[n] \in Bytes /\ key \in Keys
      /\ op[p].next \in Nat \ {0}
  BY <1>1, TaskType DEF SealFile, TypeOK
<1>4. /\ op'[p].kind = "encrypt" /\ op'[p].policy = op[p].policy /\ op'[p].next = op[p].next + 1
      /\ \A q \in Procs : q # p => op'[q] = Idle
  BY <1>1, <1>2, <1>3 DEF TypeOK, Encrypting
<1>5. files' = [files EXCEPT ![n] = [files[n] EXCEPT !.layers = Append(files[n].layers, key)]]
  BY <1>3 DEF SealFile, TypeOK
<1>6. \A m : /\ Done(op[p], m) \in Nat
             /\ Done(op'[p], m) = Done(op[p], m) + IF m = n THEN 1 ELSE 0
  BY <1>1, <1>4, DoneStep
<1>7. \A m \in Members : files[m] = Under(before.files[m], Done(op[p], m), key)
  BY <1>2 DEF Sealing
<1>8. before.files[n] \in Bytes
  BY <1>3, <1>7, BeforeType, Markers DEF Under
<1>9. \A m \in Members : files'[m] = Under(before.files[m], Done(op'[p], m), key)
  <2> TAKE m \in Members
  <2>1. CASE m = n
    <3>1. files'[n] = [files[n] EXCEPT !.layers = Append(files[n].layers, key)]
      BY <1>3, <1>5 DEF TypeOK
    <3>2. files[n] = Under(before.files[n], Done(op[p], n), key)
      BY <1>3, <1>7
    <3>3. Done(op[p], n) \in Nat /\ Done(op'[p], n) = Done(op[p], n) + 1
      BY <1>6
    <3>4. files'[n] = Under(before.files[n], Done(op[p], n) + 1, key)
      <4> DEFINE b == before.files[n]
                 d == Done(op[p], n)
      <4>1. b \in Bytes /\ d \in Nat /\ key \in Keys
        BY <1>3, <1>8, <3>3
      <4>2. files'[n] = [Under(b, d, key) EXCEPT !.layers = Append(Under(b, d, key).layers, key)]
        BY <3>1, <3>2
      <4> HIDE DEF b, d, key
      <4>3. files'[n] = Under(b, d + 1, key)
        BY <4>1, <4>2, UnderMore
      <4> QED BY <4>3 DEF b, d
    <3> QED BY <2>1, <3>3, <3>4
  <2>2. CASE m # n
    <3>1. files'[m] = files[m]
      BY <1>5, <2>2 DEF TypeOK
    <3>2. Done(op'[p], m) = Done(op[p], m)
      BY <1>6, <2>2
    <3> QED BY <1>7, <3>1, <3>2
  <2> QED BY <2>1, <2>2
<1>10. \A i \in 1..(op[p].next + 1 - 1) : before.files[list[i]] # Absent
  <2>1. \A i \in 1..(op[p].next - 1) : before.files[list[i]] # Absent
    BY <1>2 DEF Sealing, There
  <2>2. \A i \in 1..(op[p].next + 1 - 1) : i \in 1..(op[p].next - 1) \/ i = op[p].next
    BY <1>3
  <2>3. before.files[list[op[p].next]] # Absent
    BY <1>8, Markers DEF NextFile
  <2> QED BY <2>1, <2>2, <2>3
<1>11. There(op[p].policy.files, op[p].next - 1)'
  <2>1. op'[p].next - 1 = op[p].next + 1 - 1
    BY <1>3, <1>4
  <2>2. op'[p].policy.files = list
    BY <1>4
  <2> QED BY <1>1, <1>10, <2>1, <2>2 DEF There
<1>12. AttestsBefore(op[p].policy)'
  BY <1>1, <1>2, <1>4 DEF Sealing, AttestsBefore, DueBefore
<1>13. Sealing(p)'
  BY <1>1, <1>2, <1>4, <1>9, <1>11, <1>12 DEF Sealing, Encrypting
<1> QED BY <1>1, <1>2, <1>4, <1>13 DEF CalmInv, ManifestOf

LEMMA CalmWritePolicy ==
  ASSUME TypeOK, TypeOK', KeysInv, CalmInv, NEW p \in Procs, WritePolicy(p)
  PROVE  CalmInv'
<1> SUFFICES ASSUME ~disturbed'
             PROVE  CalmInv'
  BY DEF CalmInv
<1>1. /\ ~disturbed /\ policy' = op[p].policy /\ before' = before /\ files' = files
      /\ op' = [op EXCEPT ![p] = [kind |-> "rebuild"]]
      /\ Encrypting(p) /\ ~MoreFiles(p) /\ Working(op[p]) /\ op[p] # Idle
  BY DEF WritePolicy, history, Encrypting, Working, Idle
<1>2. /\ \A q \in Procs : q # p => op[q] = Idle
      /\ Sealing(p)
      /\ before = ManifestOf(before.files, Absent)
  BY <1>1, Acting DEF Opening, Encrypting, Decrypting
<1>3. op'[p].kind = "rebuild" /\ \A q \in Procs : q # p => op'[q] = Idle
  BY <1>1, <1>2 DEF TypeOK
<1>4. PolicyKnown'
  BY <1>1, TaskType, Markers DEF PolicyKnown
<1>5. /\ op[p].next - 1 = Len(op[p].policy.files)
      /\ \A m : Done(op[p], m) = All(op[p].policy.files, m)
  BY <1>1, DoneAtMost
<1>6. There(policy.files, Len(policy.files))'
  BY <1>1, <1>2, <1>5 DEF Sealing, There
<1>7. \A m \in Members : files'[m] = Under(before'.files[m], All(policy'.files, m), policy'.cek)
  BY <1>1, <1>2, <1>5 DEF Sealing
<1>8. AttestsBefore(policy)'
  BY <1>1, <1>2 DEF Sealing, AttestsBefore, DueBefore
<1>9. Sealed'
  BY <1>4, <1>6, <1>7, <1>8 DEF Sealed
<1> QED BY <1>1, <1>2, <1>3, <1>9 DEF CalmInv, ManifestOf

LEMMA CalmRebuildManifest ==
  ASSUME TypeOK, TypeOK', CalmInv, NEW p \in Procs, RebuildManifest(p)
  PROVE  CalmInv'
<1> SUFFICES ASSUME ~disturbed'
             PROVE  CalmInv'
  BY DEF CalmInv
<1>1. /\ ~disturbed /\ policy' = policy /\ before' = before /\ files' = files
      /\ op' = [op EXCEPT ![p] = Idle] /\ manifest' = ManifestOf(files, policy)
      /\ op[p].kind = "rebuild" /\ op[p] # Idle
  BY DEF RebuildManifest, history, Idle
<1>2. /\ \A q \in Procs : q # p => op[q] = Idle
      /\ Sealed \/ Opened
      /\ before = ManifestOf(before.files, Absent)
  BY <1>1, Acting DEF Sealing, Opening, Encrypting, Decrypting
<1>3. \A q \in Procs : op'[q] = Idle
  BY <1>1, <1>2 DEF TypeOK
<1>4. (Sealed \/ Opened)'
  BY <1>1, <1>2 DEF Sealed, Opened, PolicyKnown, There, AttestsBefore, DueBefore
<1> QED BY <1>1, <1>2, <1>3, <1>4 DEF CalmInv, ManifestOf

LEMMA CalmDecryptBegin ==
  ASSUME TypeOK, TypeOK', CalmInv, NEW p \in Procs, DecryptBegin(p)
  PROVE  CalmInv'
<1> SUFFICES ASSUME ~disturbed'
             PROVE  CalmInv'
  BY DEF CalmInv
<1>1. /\ ~disturbed /\ ~Busy /\ PolicyKnown
      /\ policy' = policy /\ before' = before /\ files' = files
      /\ op' = [op EXCEPT ![p] = [kind |-> "decrypt", next |-> 1, policy |-> policy]]
  BY DEF DecryptBegin, history
<1>2. Sealed /\ before = ManifestOf(before.files, Absent)
  BY <1>1, Resting DEF Opened, PolicyKnown, CalmInv
<1>3. /\ op'[p].kind = "decrypt" /\ op'[p].next = 1 /\ op'[p].policy = policy
      /\ \A q \in Procs : q # p => op'[q] = Idle
  BY <1>1 DEF TypeOK, Busy
<1>4. \A m : Done(op'[p], m) = 0 /\ All(policy.files, m) \in Nat
  <2>1. op'[p].next - 1 = 0
    BY <1>3
  <2> QED BY <1>1, <2>1, TimesZero, PolicyType DEF Done
<1>5. \A m : All(policy.files, m) - Done(op'[p], m) = All(policy.files, m)
  BY <1>4
<1>6. \A m \in Members :
        files'[m] = Under(before'.files[m], All(policy'.files, m) - Done(op'[p], m), policy'.cek)
  BY <1>1, <1>2, <1>5 DEF Sealed
<1>7. AttestsBefore(policy)' /\ There(policy.files, Len(policy.files))' /\ PolicyKnown'
  BY <1>1, <1>2 DEF Sealed, AttestsBefore, DueBefore, There, PolicyKnown
<1>8. Opening(p)'
  BY <1>1, <1>3, <1>6, <1>7 DEF Opening, Decrypting
<1> QED BY <1>1, <1>2, <1>3, <1>8 DEF CalmInv, ManifestOf

\* What is left under the key before and after a file is opened.
LEMMA CalmOpen ==
  ASSUME TypeOK, KeysInv, NEW p \in Procs, Opening(p), MoreFiles(p)
  PROVE  LET n   == NextFile(p)
             key == policy.cek
             d   == All(policy.files, n) - Done(op[p], n) - 1
         IN  /\ n \in Members /\ key \in Keys /\ d \in Nat
             /\ before.files[n] \in Bytes
             /\ files[n] = Under(before.files[n], d + 1, key)
             /\ Opens(files[n], key)
<1> DEFINE n   == NextFile(p)
           key == policy.cek
           x   == Done(op[p], n)
           a   == All(policy.files, n)
           d   == a - x - 1
           b   == before.files[n]
<1>1. Working(op[p]) /\ Decrypting(p) /\ op[p].policy = policy
  BY DEF Opening, Working, Decrypting
<1>2. n \in Members /\ key \in Keys
  BY <1>1, TaskType
<1>3. x \in Nat /\ a \in Nat /\ x + 1 <= a
  BY <1>1, DoneAtMost
<1>4. d \in Nat /\ d + 1 = a - x
  <2> HIDE DEF x, a
  <2> QED BY <1>3
<1>5. op[p].next \in 1..Len(policy.files)
  BY <1>1, WorkType DEF MoreFiles
<1>6. b \in Bytes
  <2>1. b # Absent
    BY <1>1, <1>5 DEF Opening, There, NextFile
  <2> QED BY <1>2, <2>1, BeforeType
<1>7. files[n] = Under(b, a - x, key)
  BY <1>2 DEF Opening
<1>8. files[n] = Under(b, d + 1, key)
  BY <1>4, <1>7
<1>9. Opens(files[n], key)
  <2> HIDE DEF b, d, key
  <2> QED BY <1>2, <1>4, <1>6, <1>8, UnderLess
<1> QED BY <1>2, <1>4, <1>6, <1>8, <1>9

LEMMA CalmOpenFile ==
  ASSUME TypeOK, TypeOK', KeysInv, CalmInv, NEW p \in Procs, OpenFile(p)
  PROVE  CalmInv'
<1> SUFFICES ASSUME ~disturbed'
             PROVE  CalmInv'
  BY DEF CalmInv
<1> DEFINE n   == NextFile(p)
           key == policy.cek
           d   == All(policy.files, n) - Done(op[p], n) - 1
<1>1. /\ ~disturbed /\ policy' = policy /\ before' = before
      /\ op' = [op EXCEPT ![p] = [op[p] EXCEPT !.next = op[p].next + 1]]
      /\ Decrypting(p) /\ MoreFiles(p) /\ Working(op[p]) /\ op[p] # Idle
  BY DEF OpenFile, history, TypeOK, Decrypting, Working, Idle
<1>2. /\ \A q \in Procs : q # p => op[q] = Idle
      /\ Opening(p) /\ op[p].policy = policy
      /\ before = ManifestOf(before.files, Absent)
  BY <1>1, Acting DEF Opening, Sealing, Encrypting, Decrypting
<1>3. /\ n \in Members /\ key \in Keys /\ d \in Nat
      /\ before.files[n] \in Bytes
      /\ files[n] = Under(before.files[n], d + 1, key)
  BY <1>1, <1>2, CalmOpen
<1>4. /\ op'[p].kind = "decrypt" /\ op'[p].policy = op[p].policy /\ op'[p].next = op[p].next + 1
      /\ \A q \in Procs : q # p => op'[q] = Idle
  <2>1. op[p] \in [kind : {"encrypt", "decrypt"}, next : Nat \ {0}, policy : Policy]
    BY <1>1, TaskType
  <2> QED BY <1>1, <1>2, <2>1 DEF TypeOK, Decrypting
<1>5. files' = [files EXCEPT ![n] =
                 [files[n] EXCEPT !.layers = SubSeq(files[n].layers, 1, Len(files[n].layers) - 1)]]
  BY <1>3 DEF OpenFile, TypeOK
<1>6. \A m : /\ Done(op[p], m) \in Nat /\ All(policy.files, m) \in Nat
             /\ Done(op'[p], m) = Done(op[p], m) + IF m = n THEN 1 ELSE 0
  <2>1. \A m : /\ Done(op[p], m) \in Nat
               /\ Done(op'[p], m) = Done(op[p], m) + IF m = n THEN 1 ELSE 0
    BY <1>1, <1>4, DoneStep
  <2>2. \A m : All(policy.files, m) \in Nat
    BY <1>1, <1>2, DoneAtMost
  <2> QED BY <2>1, <2>2
<1>7. \A m \in Members :
        files'[m] = Under(before.files[m], All(policy.files, m) - Done(op'[p], m), key)
  <2> TAKE m \in Members
  <2>1. CASE m = n
    <3> DEFINE b == before.files[n]
    <3>1. files'[n] = [files[n] EXCEPT !.layers = SubSeq(files[n].layers, 1, Len(files[n].layers) - 1)]
      BY <1>3, <1>5 DEF TypeOK
    <3>2. All(policy.files, n) - Done(op'[p], n) = d
      BY <1>6
    <3>3. files'[n] = Under(b, d, key)
      <4> HIDE DEF b, d, key, n
      <4> QED BY <1>3, <3>1, UnderLess DEF b
    <3> QED BY <2>1, <3>2, <3>3
  <2>2. CASE m # n
    <3>1. files'[m] = files[m]
      BY <1>5, <2>2 DEF TypeOK
    <3>2. Done(op'[p], m) = Done(op[p], m)
      BY <1>6, <2>2
    <3> QED BY <1>2, <3>1, <3>2 DEF Opening
  <2> QED BY <2>1, <2>2
<1>8. AttestsBefore(policy)' /\ There(policy.files, Len(policy.files))' /\ PolicyKnown'
  BY <1>1, <1>2 DEF Opening, AttestsBefore, DueBefore, There, PolicyKnown
<1>9. Opening(p)'
  BY <1>1, <1>2, <1>4, <1>7, <1>8 DEF Opening, Decrypting
<1> QED BY <1>1, <1>2, <1>4, <1>9 DEF CalmInv, ManifestOf

\* When the last file is open, the folder is what it was, and its structure as recorded.
LEMMA CalmOpened ==
  ASSUME TypeOK, KeysInv, NEW p \in Procs, Opening(p), ~MoreFiles(p)
  PROVE  files = before.files /\ StructureHolds(op[p].policy.structure)
<1>1. Working(op[p]) /\ op[p].policy = policy /\ PolicyKnown
  BY DEF Opening, Working, Decrypting
<1>2. policy.cek \in Keys
  BY <1>1, PolicyType
<1>3. \A m : All(policy.files, m) - Done(op[p], m) = 0
  <2>1. \A m : Done(op[p], m) = All(policy.files, m) /\ All(policy.files, m) \in Nat
    BY <1>1, DoneAtMost
  <2> QED BY <2>1
<1>4. \A m \in Members : files[m] = before.files[m]
  <2> TAKE m \in Members
  <2>1. files[m] = Under(before.files[m], 0, policy.cek)
    BY <1>3 DEF Opening
  <2> QED BY <1>2, <2>1, BeforeType, UnderNone
<1>5. files = before.files
  BY <1>4, BeforeType DEF TypeOK
<1> QED BY <1>1, <1>5 DEF Opening, AttestsBefore, StructureHolds

LEMMA CalmRemovePolicy ==
  ASSUME TypeOK, TypeOK', KeysInv, CalmInv, NEW p \in Procs, RemovePolicy(p)
  PROVE  CalmInv'
<1> SUFFICES ASSUME ~disturbed'
             PROVE  CalmInv'
  BY DEF CalmInv
<1>1. /\ ~disturbed /\ policy' = Absent /\ before' = before /\ files' = files
      /\ op' = [op EXCEPT ![p] = [kind |-> "rebuild"]]
      /\ Decrypting(p) /\ ~MoreFiles(p) /\ op[p] # Idle
  BY DEF RemovePolicy, history, Decrypting, Idle
<1>2. /\ \A q \in Procs : q # p => op[q] = Idle
      /\ Opening(p)
      /\ before = ManifestOf(before.files, Absent)
  BY <1>1, Acting DEF Opening, Sealing, Encrypting, Decrypting
<1>3. op'[p].kind = "rebuild" /\ \A q \in Procs : q # p => op'[q] = Idle
  BY <1>1, <1>2 DEF TypeOK
<1>4. Opened'
  BY <1>1, <1>2, CalmOpened DEF Opened
<1> QED BY <1>1, <1>2, <1>3, <1>4 DEF CalmInv, ManifestOf

LEMMA CalmStep ==
  ASSUME TypeOK, TypeOK', KeysInv, CalmInv, [Next]_vars
  PROVE  CalmInv'
<1>1. ASSUME NEW p \in Procs, EncryptFails(p) \/ Crash(p)
      PROVE  CalmInv'
  BY <1>1 DEF EncryptFails, Crash, CrashBetweenWrites, CrashInMember, CrashInPolicy,
              CrashInManifest, Dies, CalmInv
<1>2. ASSUME NEW content \in Texts, NEW schema \in Texts, NEW ensure \in BOOLEAN,
             StudioSave(content, schema, ensure)
      PROVE  CalmInv'
  BY <1>2 DEF StudioSave, CalmInv
<1>3. ASSUME NEW p \in Procs, OpenFails(p) \/ AttestationFails(p)
      PROVE  CalmInv'
  <2>1. disturbed' = disturbed /\ Decrypting(p) /\ op[p] # Idle
    BY <1>3 DEF OpenFails, AttestationFails, Decrypting, Idle
  <2>2. ASSUME ~disturbed PROVE FALSE
    <3>1. Opening(p) /\ op[p].policy = policy
      BY <2>1, <2>2, Acting DEF Opening, Sealing, Encrypting, Decrypting
    <3> QED BY <1>3, <3>1, CalmOpen, CalmOpened DEF OpenFails, AttestationFails
  <2> QED BY <2>1, <2>2 DEF CalmInv
<1>4. CASE StudioLoad \/ UNCHANGED vars
  BY <1>4 DEF StudioLoad, vars, history, CalmInv, Sealing, Opening, Sealed, Opened, Encrypting,
              Decrypting, PolicyKnown, AttestsBefore, DueBefore, There
<1> QED
  BY <1>1, <1>2, <1>3, <1>4, CalmEncryptBegin, CalmSealFile, CalmWritePolicy, CalmRebuildManifest,
     CalmDecryptBegin, CalmOpenFile, CalmRemovePolicy
     DEF Next, Encrypt, Decrypt, Studio

LEMMA CalmCorrect == Spec => [](TypeOK /\ KeysInv /\ CalmInv)
<1>1. Init => TypeOK /\ KeysInv /\ CalmInv
  BY InitType, KeysInit DEF Init, CalmInv
<1>2. TypeOK /\ KeysInv /\ CalmInv /\ [Next]_vars => (TypeOK /\ KeysInv /\ CalmInv)'
  BY StepType, KeysStep, CalmStep
<1> QED BY <1>1, <1>2, PTL DEF Spec

\* Encrypting and decrypting, with nothing else touching the folder, gives back the members
\* and the manifest that were encrypted.
THEOREM RoundTripCorrect == Spec => []RoundTrip
<1>1. CalmInv => RoundTrip
  BY Resting DEF RoundTrip, CalmInv, Sealed, Opened, PolicyKnown
<1> QED BY <1>1, CalmCorrect, PTL

\* Sealed or opened by one command at a time, the folder verifies against its manifest.
THEOREM IntegrityCorrect == Spec => []IntegrityWithoutKey
<1>1. CalmInv => IntegrityWithoutKey
  BY Resting DEF IntegrityWithoutKey
<1> QED BY <1>1, CalmCorrect, PTL

\* The attestation in the policy is the one of the plaintext, at every step of the commands.
THEOREM AttestationCorrect == Spec => []AttestationTruthful
<1>1. ASSUME TypeOK, KeysInv, CalmInv, ~disturbed, PolicyKnown, IsPlain(before.files[Content])
      PROVE  policy.structure =
               IF /\ Content \in Listed(policy) /\ Schema \notin Listed(policy)
                  /\ before.files[Schema] # Absent
                  /\ Sections[before.files[Schema].text] # << >>
               THEN Attested(files[Schema], Plain(files[Content].text))
               ELSE NoStructure
  <2>1. /\ AttestsBefore(policy)
        /\ \A m \in Members : \E n \in Int :
             /\ files[m] = Under(before.files[m], n, policy.cek)
             /\ m \notin Listed(policy) => n = 0
    <3>1. \A m : m \notin Listed(policy) => All(policy.files, m) = 0
      <4>1. /\ Len(policy.files) \in Nat
            /\ \A i \in 1..Len(policy.files) : policy.files[i] \in Listed(policy)
        BY <1>1, PolicyType, LenProperties DEF Listed, Range
      <4> QED BY <4>1, TimesType DEF All
    <3>2. CASE Sealed
      BY <1>1, <3>1, <3>2, PolicyType DEF Sealed
    <3>3. CASE \E p \in Procs : Opening(p)
      <4>1. PICK p \in Procs : Opening(p)
        BY <3>3
      <4>2. /\ op[p].policy = policy /\ AttestsBefore(policy)
            /\ \A m : /\ Done(op[p], m) \in Nat /\ All(policy.files, m) \in Nat
                      /\ Done(op[p], m) <= All(policy.files, m)
        BY <1>1, <4>1, DoneAtMost DEF Opening, Decrypting, Working
      <4>3. \A m : /\ All(policy.files, m) - Done(op[p], m) \in Int
                   /\ m \notin Listed(policy) => All(policy.files, m) - Done(op[p], m) = 0
        BY <3>1, <4>2
      <4> QED BY <4>1, <4>2, <4>3 DEF Opening
    <3> QED BY <1>1, <3>2, <3>3 DEF CalmInv, Sealing, Opened, PolicyKnown
  <2>2. Content \in Members /\ Schema \in Members /\ before.files[Content] # Absent
    BY <1>1 DEF Members, IsPlain
  <2>3. files[Content].text = before.files[Content].text
    <3>1. PICK n \in Int : files[Content] = Under(before.files[Content], n, policy.cek)
      BY <2>1, <2>2
    <3> QED BY <2>2, <3>1 DEF Under
  <2>4. before.files[Content] = Plain(before.files[Content].text)
    <3>1. before.files[Content] \in Bytes
      BY <1>1, <2>2, BeforeType
    <3>2. before.files[Content].layers = << >>
      BY <1>1 DEF IsPlain
    <3> QED BY <3>1, <3>2 DEF Plain, Bytes
  <2>5. Schema \notin Listed(policy) => files[Schema] = before.files[Schema]
    <3>1. Schema \notin Listed(policy) => files[Schema] = Under(before.files[Schema], 0, policy.cek)
      BY <2>1, <2>2
    <3>2. Under(before.files[Schema], 0, policy.cek) = before.files[Schema]
      <4>1. policy.cek \in Keys /\ before.files[Schema] \in Bytes \union {Absent}
        BY <1>1, <2>2, PolicyType, BeforeType
      <4> QED BY <4>1, UnderNone
    <3> QED BY <3>1, <3>2
  <2> QED BY <2>1, <2>3, <2>4, <2>5 DEF AttestsBefore, DueBefore, Listed
<1>2. TypeOK /\ KeysInv /\ CalmInv => AttestationTruthful
  BY <1>1 DEF AttestationTruthful
<1> QED BY <1>2, CalmCorrect, PTL

\* A decryption that has the sealed folder to itself never gives up.
THEOREM DecryptSucceeds == Spec => UndisturbedDecryptSucceeds
<1>1. TypeOK /\ KeysInv /\ CalmInv /\ [Next]_vars =>
        [~disturbed => \A p \in Procs : ~OpenFails(p) /\ ~AttestationFails(p)]_vars
  <2> SUFFICES ASSUME TypeOK, KeysInv, CalmInv, ~disturbed, NEW p \in Procs,
                      OpenFails(p) \/ AttestationFails(p)
               PROVE  FALSE
    OBVIOUS
  <2>1. Decrypting(p) /\ op[p] # Idle
    BY DEF OpenFails, AttestationFails, Decrypting, Idle
  <2>2. Opening(p) /\ op[p].policy = policy
    BY <2>1, Acting DEF Opening, Sealing, Encrypting, Decrypting
  <2> QED BY <2>2, CalmOpen, CalmOpened DEF OpenFails, AttestationFails
<1> QED BY <1>1, CalmCorrect, PTL DEF Spec, UndisturbedDecryptSucceeds
=============================================================================
