------------------------ MODULE StudioDocument_proofs ------------------------
(***************************************************************************)
(* The document of MCDF Studio, proved for every set of values, documents  *)
(* and panels and for every bound.                                         *)
(*                                                                         *)
(* What carries the properties is what the engine and the window keep about*)
(* the working copy (Fits): the engine's manifest and policy are the disk's;*)
(* what was computed at an undo index belongs to the text of that entry;   *)
(* what is marked saved was written; and the hashes of a panel are those of*)
(* the disk with the text and the forms they were computed from over it.   *)
(***************************************************************************)
EXTENDS StudioDocument, SequenceTheorems, TLAPS

\* Every document that is opened with a manifest is what the manifest lists.
Intact == \A x \in Archives \union Folders : x.manifest # None => x.manifest = Listing(x)

\* A manifest, and what the container may have on top of it: images copied in.
Matches(x) == /\ x.manifest.val = x.val /\ x.manifest.sealed = x.sealed
              /\ x.manifest.seal = x.seal /\ x.manifest.images <= x.images

\* The types, of a working copy x, a file f, an engine d, a window e, a history g.
Typed(x, f, d, e, g) ==
  /\ x \in Containers
  /\ f \in Containers \union {None}
  /\ d \in Engines /\ ("hashes" \in d.fresh <=> d.cur # None)
  /\ e \in Windows /\ Len(e.hist) <= MaxEdits + 1
  /\ e.pos + 1 \in 1..Len(e.hist) /\ e.fpos \in 0..Len(e.forms)
  /\ g \in Ghosts

\* The engine's views of the working copy.
InStep(x, d, g) ==
  /\ d.manifest = x.manifest /\ d.policy = x.sealed
  /\ ~g.unnoticed => d.fresh \intersect g.stale = {}

\* What was computed at an undo index is about the text that is there.
Tracked(e, g) ==
  \A w \in Watchers \ g.lost : e.at[w] # Never =>
    e.at[w] + 1 \in 1..Len(e.hist) /\ e.seen[w] = e.hist[e.at[w] + 1]

\* What a document marked as saved is kept in (k) says the text that was saved,
\* and the working copy the forms.
TextKept(k, d, e, g) ==
  ~g.unmarked /\ "saved" \notin g.lost /\ Content \notin d.policy
  /\ k # None /\ k.val[Content] # None =>
    Canonical[k.val[Content]] = Canonical[e.seen["saved"]]

FormsKept(x, d, e, g) ==
  ~e.dirty /\ ~g.unmarked =>
    \A m \in d.write \ d.policy :
      x.val[m] # None /\ Canonical[x.val[m]] = Canonical[d.form[m]]

\* The hashes of member m, as on disk and as a save would write it.
AsOnDisk(x, d, m)   == d.cur.val[m] = x.val[m] /\ (m \in d.cur.sealed <=> m \in x.sealed)
Overlaid(d, m, text) == d.cur.val[m] = Canonical[text] /\ m \notin d.cur.sealed

\* The hashes the panels have: of the disk, with the text they were computed
\* from over it, and the forms when they were seen.
HashesFit(x, d, e, g) ==
  "hashes" \in d.fresh /\ ~g.unnoticed =>
    /\ d.manifest # None
    /\ d.cur.seal = x.seal /\ d.cur.images = x.images
    /\ d.cur.extra = \E m \in Members : x.val[m] # None /\ d.manifest.val[m] = None
    /\ IF Content \in d.policy THEN AsOnDisk(x, d, Content)
       ELSE e.seen["hashes"] # None /\ Overlaid(d, Content, e.seen["hashes"])
    /\ \A m \in Forms \ d.write : AsOnDisk(x, d, m)
    /\ e.formsSeen => \A m \in d.write : Overlaid(d, m, d.form[m])

\* Nothing but a fault comes between a working copy and its manifest, and an
\* image that was copied in.
Upheld(x, d, g) ==
  /\ d.verify = "ok" => d.manifest # None
  /\ g.faults = 0 /\ d.manifest # None /\ (Intact \/ d.verify = "ok") => Matches(x)
  /\ Intact /\ g.unnoticed /\ g.faults = 0 /\ d.manifest # None =>
       x.images > d.manifest.images

Fits(x, f, d, e, g) ==
  /\ Typed(x, f, d, e, g)
  /\ InStep(x, d, g)
  /\ Tracked(e, g)
  /\ TextKept(IF d.mode = "archive" THEN f ELSE x, d, e, g)
  /\ FormsKept(x, d, e, g)
  /\ HashesFit(x, d, e, g)
  /\ Upheld(x, d, g)

Inv == Fits(disk, file, doc, ed, ghost)

-----------------------------------------------------------------------------
(* Containers, and what writes them.                                       *)

LEMMA ListingIs ==
  ASSUME NEW x \in Containers
  PROVE  Listing(x) \in Listings /\ Listing(x) # None /\ x # None
<1>1. Listing(x) \in Listings
  BY DEF Listing, Listings, Containers, WellFormed
<1> QED BY <1>1, DocumentsAssumption

LEMMA RebuiltIs ==
  ASSUME NEW x \in Containers
  PROVE  /\ Rebuilt(x) \in Containers
         /\ Rebuilt(x).val = x.val /\ Rebuilt(x).sealed = x.sealed
         /\ Rebuilt(x).seal = x.seal /\ Rebuilt(x).images = x.images
         /\ Rebuilt(x).log = x.log /\ Rebuilt(x).sig = x.sig
         /\ Rebuilt(x).manifest = Listing(x) /\ Rebuilt(x).manifest # None
         /\ Matches(Rebuilt(x))
<1> DEFINE l == Listing(x)
<1>1. /\ l \in Listings /\ l # None
      /\ l.val = x.val /\ l.sealed = x.sealed /\ l.seal = x.seal /\ l.images = x.images
  BY ListingIs DEF Listing
<1>2. Rebuilt(x) = [x EXCEPT !.manifest = l]
  BY DEF Rebuilt
<1> HIDE DEF l
<1>3. [x EXCEPT !.manifest = l] \in Containers
  BY <1>1 DEF Containers, WellFormed
<1>4. /\ [x EXCEPT !.manifest = l].val = x.val
      /\ [x EXCEPT !.manifest = l].sealed = x.sealed
      /\ [x EXCEPT !.manifest = l].seal = x.seal
      /\ [x EXCEPT !.manifest = l].images = x.images
      /\ [x EXCEPT !.manifest = l].log = x.log
      /\ [x EXCEPT !.manifest = l].sig = x.sig
      /\ [x EXCEPT !.manifest = l].manifest = l
  BY DEF Containers
<1>5. x.images \in Nat
  BY DocumentBounds DEF Containers
<1>6. Matches(Rebuilt(x))
  BY <1>1, <1>2, <1>4, <1>5 DEF Matches
<1> QED BY <1>1, <1>2, <1>3, <1>4, <1>6 DEF l

\* What a save writes for member m.
Says(d, text, m) == IF m = Content THEN Canonical[text] ELSE Canonical[d.form[m]]

LEMMA SaysIs ==
  ASSUME NEW d \in Engines, NEW text \in Values, NEW m \in Members
  PROVE  Says(d, text, m) \in Values /\ Says(d, text, m) # None
<1>1. m # Content => d.form[m] \in Values
  BY DEF Engines, Members
<1> QED BY <1>1, ValuesAssumption DEF Says

\* Members that are not sealed are written, and the rest is left alone.
LEMMA PutIs ==
  ASSUME NEW x \in Containers, NEW d \in Engines, NEW text \in Values,
         NEW ms \in SUBSET Members, ms \intersect x.sealed = {}
  PROVE  /\ Put(x, d, text, ms) \in Containers
         /\ \A m \in Members : Put(x, d, text, ms).val[m] =
              IF m \in ms THEN Says(d, text, m) ELSE x.val[m]
         /\ Put(x, d, text, ms).sealed = x.sealed /\ Put(x, d, text, ms).seal = x.seal
         /\ Put(x, d, text, ms).images = x.images /\ Put(x, d, text, ms).log = x.log
         /\ Put(x, d, text, ms).manifest = x.manifest /\ Put(x, d, text, ms).sig = x.sig
<1> DEFINE v == [m \in Members |-> IF m \in ms THEN Says(d, text, m) ELSE x.val[m]]
<1>1. v \in [Members -> Values \union {None}]
  BY SaysIs DEF Containers
<1>2. x.sealed \ ms = x.sealed
  OBVIOUS
<1>3. Put(x, d, text, ms) = [x EXCEPT !.val = v, !.sealed = x.sealed]
  <2>1. Put(x, d, text, ms) =
          [x EXCEPT !.val = [m \in Members |->
                               IF m \notin ms THEN x.val[m]
                               ELSE IF m = Content THEN Canonical[text]
                               ELSE Canonical[d.form[m]]],
                    !.sealed = x.sealed \ ms]
    BY DEF Put, Containers
  <2>2. [m \in Members |-> IF m \notin ms THEN x.val[m]
                           ELSE IF m = Content THEN Canonical[text]
                           ELSE Canonical[d.form[m]]] = v
    BY DEF Says
  <2> QED BY <2>1, <2>2, <1>2
<1>4. \A m \in x.sealed : v[m] # None
  BY DEF Containers, WellFormed
<1>5. \A m \in Members : v[m] = IF m \in ms THEN Says(d, text, m) ELSE x.val[m]
  OBVIOUS
<1> HIDE DEF v
<1>6. [x EXCEPT !.val = v, !.sealed = x.sealed] \in Containers
  BY <1>1, <1>4 DEF Containers, WellFormed
<1>7. /\ [x EXCEPT !.val = v, !.sealed = x.sealed].val = v
      /\ [x EXCEPT !.val = v, !.sealed = x.sealed].sealed = x.sealed
      /\ [x EXCEPT !.val = v, !.sealed = x.sealed].seal = x.seal
      /\ [x EXCEPT !.val = v, !.sealed = x.sealed].images = x.images
      /\ [x EXCEPT !.val = v, !.sealed = x.sealed].log = x.log
      /\ [x EXCEPT !.val = v, !.sealed = x.sealed].manifest = x.manifest
      /\ [x EXCEPT !.val = v, !.sealed = x.sealed].sig = x.sig
  BY DEF Containers
<1> QED BY <1>3, <1>5, <1>6, <1>7

LEMMA WrittenIs ==
  ASSUME NEW d \in Engines
  PROVE  /\ Written(d) \subseteq Members /\ Written(d) \intersect d.policy = {}
         /\ d.write \ d.policy \subseteq Written(d)
         /\ Content \notin d.policy => Content \in Written(d)
BY DEF Written, Engines, Members

\* y is the working copy x with the members in memory over it.
WrittenOver(x, d, text, y, ms) ==
  /\ \A m \in Members : y.val[m] = IF m \in ms THEN Says(d, text, m) ELSE x.val[m]
  /\ y.sealed = x.sealed /\ y.seal = x.seal /\ y.images = x.images
  /\ y.log = x.log /\ y.sig = x.sig

LEMMA WriteMembersIs ==
  ASSUME NEW x \in Containers, NEW d \in Engines, NEW text \in Values,
         NEW ensure \in BOOLEAN, x.sealed \subseteq d.policy
  PROVE  LET y == WriteMembers(x, d, text, ensure)
         IN  /\ y \in Containers
             /\ WrittenOver(x, d, text, y, Written(d))
             /\ IF ensure \/ x.manifest # None
                THEN y.manifest = Listing(y) /\ y.manifest # None /\ Matches(y)
                ELSE y.manifest = None
<1> DEFINE p == Put(x, d, text, Written(d))
<1>1. Written(d) \in SUBSET Members /\ Written(d) \intersect x.sealed = {}
  BY WrittenIs
<1>2. p \in Containers /\ WrittenOver(x, d, text, p, Written(d))
      /\ p.manifest = x.manifest
  BY <1>1, PutIs DEF WrittenOver
<1>3. WriteMembers(x, d, text, ensure) =
        IF ensure \/ x.manifest # None THEN Rebuilt(p) ELSE p
  BY DEF WriteMembers
<1> HIDE DEF p
<1>4. CASE ensure \/ x.manifest # None
  <2>1. Listing(Rebuilt(p)) = Listing(p)
    BY <1>2, RebuiltIs DEF Listing
  <2>2. WrittenOver(x, d, text, Rebuilt(p), Written(d))
    BY <1>2, RebuiltIs DEF WrittenOver
  <2> QED BY <1>2, <1>3, <1>4, <2>1, <2>2, RebuiltIs
<1>5. CASE ~(ensure \/ x.manifest # None)
  BY <1>2, <1>3, <1>5
<1> QED BY <1>4, <1>5

\* What a flush leaves: the members it came to, and a manifest unless it failed.
Flushed(x, d, text, ensure, f) ==
  /\ f.disk \in Containers /\ f.cost \in {0, 1}
  /\ \E ms \in SUBSET Written(d) : /\ WrittenOver(x, d, text, f.disk, ms)
                                   /\ f.ok => ms = Written(d)
  /\ f.disk.manifest \in {x.manifest, Listing(f.disk)}
  /\ f.cost = 0 /\ (ensure \/ x.manifest # None) =>
       f.disk.manifest # None /\ Matches(f.disk)
  /\ f.cost = 0 /\ ~ensure /\ x.manifest = None => f.disk.manifest = None
  /\ ~f.ok => f.cost = 1 /\ f.disk.manifest = x.manifest

LEMMA FlushIs ==
  ASSUME NEW x \in Containers, NEW d \in Engines, NEW text \in Values,
         NEW ensure \in BOOLEAN, x.sealed \subseteq d.policy,
         NEW f \in Flushes(x, d, text, ensure)
  PROVE  Flushed(x, d, text, ensure, f)
<1> DEFINE full == WriteMembers(x, d, text, ensure)
           cut  == [full EXCEPT !.manifest = x.manifest]
           Part(n) == Written(d) \intersect {Order[i] : i \in 1..n}
<1>1. \/ f = [disk |-> full, ok |-> TRUE, cost |-> 0]
      \/ f = [disk |-> cut, ok |-> TRUE, cost |-> 1]
      \/ \E n \in 0..2 : f = [disk |-> Put(x, d, text, Part(n)), ok |-> FALSE, cost |-> 1]
  BY DEF Flushes
<1>2. /\ full \in Containers /\ WrittenOver(x, d, text, full, Written(d))
      /\ IF ensure \/ x.manifest # None
         THEN full.manifest = Listing(full) /\ full.manifest # None /\ Matches(full)
         ELSE full.manifest = None
  BY WriteMembersIs
<1>3. x.manifest \in Listings \union {None}
  BY DEF Containers
<1> HIDE DEF full
<1>4. CASE f = [disk |-> full, ok |-> TRUE, cost |-> 0]
  <2>1. full.manifest \in {x.manifest, Listing(full)}
    BY <1>2
  <2> QED BY <1>2, <1>4, <2>1 DEF Flushed
<1>5. CASE f = [disk |-> cut, ok |-> TRUE, cost |-> 1]
  <2>1. /\ cut.val = full.val /\ cut.sealed = full.sealed /\ cut.seal = full.seal
        /\ cut.images = full.images /\ cut.log = full.log /\ cut.sig = full.sig
        /\ cut.manifest = x.manifest
    BY <1>2 DEF Containers
  <2>2. cut \in Containers
    BY <1>2, <1>3 DEF Containers, WellFormed
  <2> HIDE DEF cut
  <2>3. WrittenOver(x, d, text, cut, Written(d))
    BY <1>2, <2>1 DEF WrittenOver
  <2> QED BY <1>5, <2>1, <2>2, <2>3 DEF Flushed
<1>6. ASSUME NEW n \in 0..2,
             f = [disk |-> Put(x, d, text, Part(n)), ok |-> FALSE, cost |-> 1]
      PROVE  Flushed(x, d, text, ensure, f)
  <2>1. Part(n) \in SUBSET Written(d) /\ Part(n) \in SUBSET Members
        /\ Part(n) \intersect x.sealed = {}
    BY WrittenIs
  <2> HIDE DEF Part
  <2> DEFINE p == Put(x, d, text, Part(n))
  <2>2. p \in Containers /\ p.manifest = x.manifest
        /\ WrittenOver(x, d, text, p, Part(n))
    BY <2>1, PutIs DEF WrittenOver
  <2> HIDE DEF p
  <2>3. f.disk = p /\ f.cost = 1 /\ f.ok = FALSE
    BY <1>6 DEF p
  <2>4. \E ms \in SUBSET Written(d) : /\ WrittenOver(x, d, text, f.disk, ms)
                                      /\ f.ok => ms = Written(d)
    BY <2>1, <2>2, <2>3
  <2>5. f.disk \in Containers /\ f.disk.manifest = x.manifest
    BY <2>2, <2>3
  <2>6. f.cost \in {0, 1} /\ f.cost # 0
    BY <2>3
  <2> QED BY <2>3, <2>4, <2>5, <2>6, Zenon DEF Flushed
<1> QED BY <1>1, <1>4, <1>5, <1>6

-----------------------------------------------------------------------------
(* The engine and the window after an operation.                           *)

LEMMA ReloadedIs ==
  ASSUME NEW d \in Engines, NEW x \in Containers, NEW e,
         e = Reloaded(d, x) \/ e = [Reloaded(d, x) EXCEPT !.verify = "none"]
  PROVE  /\ e \in Engines /\ e.manifest = x.manifest /\ e.cur = None /\ e.fresh = {}
         /\ e.mode = d.mode /\ e.policy = d.policy /\ e.form = d.form
         /\ e.write = d.write /\ (e.verify = d.verify \/ e.verify = "none")
<1> DEFINE r == [d EXCEPT !.manifest = x.manifest, !.cur = None, !.fresh = {}]
<1>1. Reloaded(d, x) = r
  BY DEF Reloaded
<1>2. /\ r \in Engines /\ r.manifest = x.manifest /\ r.cur = None /\ r.fresh = {}
      /\ r.mode = d.mode /\ r.policy = d.policy /\ r.form = d.form
      /\ r.write = d.write /\ r.verify = d.verify
  BY DEF Engines, Containers
<1> HIDE DEF r
<1> QED BY <1>1, <1>2 DEF Engines

LEMMA LoadedIs ==
  ASSUME NEW x \in Containers, NEW mode \in {"untitled", "folder", "archive"}
  PROVE  /\ Loaded(mode, x) \in Engines
         /\ Loaded(mode, x).mode = mode /\ Loaded(mode, x).policy = x.sealed
         /\ Loaded(mode, x).manifest = x.manifest
         /\ Loaded(mode, x).cur = None /\ Loaded(mode, x).fresh = {}
         /\ Loaded(mode, x).verify = "none"
         /\ \A m \in Loaded(mode, x).write :
              x.val[m] # None /\ Loaded(mode, x).form[m] = x.val[m]
<1> DEFINE fm == [m \in Forms |-> IF Readable(x, m) THEN x.val[m] ELSE Blank]
           wr == {m \in Forms : Readable(x, m)}
<1>1. fm \in [Forms -> Values]
  BY ValuesAssumption DEF Readable, Containers, Members
<1>2. wr \in SUBSET Forms /\ \A m \in wr : x.val[m] # None /\ fm[m] = x.val[m]
  BY DEF Readable
<1>3. Loaded(mode, x) =
        [mode |-> mode, policy |-> x.sealed, form |-> fm, write |-> wr,
         manifest |-> x.manifest, cur |-> None, fresh |-> {}, verify |-> "none"]
  BY DEF Loaded
<1> HIDE DEF fm, wr
<1>4. x.sealed \in SUBSET Members /\ x.manifest \in Listings \union {None}
  BY DEF Containers
<1> DEFINE r == Loaded(mode, x)
<1>5. /\ r.mode = mode /\ r.policy = x.sealed /\ r.form = fm /\ r.write = wr
      /\ r.manifest = x.manifest /\ r.cur = None /\ r.fresh = {} /\ r.verify = "none"
  BY <1>3
<1>6. Loaded(mode, x) \in Engines
  BY <1>1, <1>2, <1>3, <1>4 DEF Engines
<1> HIDE DEF r
<1> QED BY <1>2, <1>5, <1>6 DEF r

LEMMA LoadedTextIs ==
  ASSUME NEW x \in Containers
  PROVE  /\ LoadedText(x) \in Values
         /\ Content \notin x.sealed /\ x.val[Content] # None =>
              LoadedText(x) = x.val[Content]
BY ValuesAssumption DEF LoadedText, Containers, Members

\* A window that has just been given a text.
OnText(s, text) ==
  /\ s \in Windows /\ s.hist = <<text>> /\ Len(s.hist) = 1 /\ s.pos = 0
  /\ s.dirty = FALSE /\ s.forms = << >> /\ s.fpos = 0
  /\ s.at = [w \in Watchers |-> IF w = "saved" THEN 0 ELSE Never]
  /\ s.seen = [w \in Watchers |-> IF w = "saved" THEN text ELSE None]
  /\ s.formsSeen = FALSE

LEMMA SyncedIs ==
  ASSUME NEW e, NEW text \in Values
  PROVE  OnText(Synced(e, text), text)
<1> DEFINE a  == [w \in Watchers |-> IF w = "saved" THEN 0 ELSE Never]
           s0 == [w \in Watchers |-> IF w = "saved" THEN Blank ELSE None]
           sn == [w \in Watchers |-> IF w = "saved" THEN text ELSE None]
           s  == [hist |-> <<text>>, pos |-> 0, dirty |-> FALSE, forms |-> << >>,
                  fpos |-> 0, at |-> a, seen |-> sn, formsSeen |-> FALSE]
<1>1. [s0 EXCEPT !["saved"] = text] = sn
  BY DEF Watchers
<1> HIDE DEF s0, sn
<1>2. Synced(e, text) = s
  <2>1. Synced(e, text) = [NewWindow EXCEPT !.hist = <<text>>, !.seen["saved"] = text]
    BY DEF Synced
  <2>2. NewWindow = [hist |-> <<Blank>>, pos |-> 0, dirty |-> FALSE, forms |-> << >>,
                     fpos |-> 0, at |-> a, seen |-> s0, formsSeen |-> FALSE]
    BY DEF NewWindow, s0
  <2> HIDE DEF a
  <2> QED BY <1>1, <2>1, <2>2
<1>3. Never \in Nat /\ 0 \in 0..Never /\ Never \in 0..Never
  BY DocumentBounds DEF Never
<1>4. a \in [Watchers -> 0..Never]
  BY <1>3
<1>5. sn \in [Watchers -> Values \union {None}]
  BY DEF sn
<1>6. <<text>> \in Seq(Values) /\ << >> \in Seq([Forms -> Values]) /\ Len(<<text>>) = 1
  OBVIOUS
<1> HIDE DEF a
<1>7. s \in Windows
  BY <1>4, <1>5, <1>6 DEF Windows
<1> QED BY <1>2, <1>6, <1>7 DEF OnText, a, sn

LEMMA TouchedIs ==
  ASSUME NEW g \in Ghosts, NEW n \in {0, 1}, doc'.fresh \subseteq Caches
  PROVE  /\ Touched(g, n, TRUE) \in Ghosts
         /\ Touched(g, n, TRUE).faults = g.faults + n
         /\ Touched(g, n, TRUE).seals = g.seals /\ Touched(g, n, TRUE).lost = g.lost
         /\ Touched(g, n, TRUE).unmarked = g.unmarked
         /\ Touched(g, n, TRUE).unnoticed = FALSE
         /\ Touched(g, n, TRUE).stale \subseteq doc'.fresh
<1> DEFINE st == IF disk' # disk THEN doc'.fresh ELSE g.stale \intersect doc'.fresh
           r  == [g EXCEPT !.faults = g.faults + n, !.stale = st, !.unnoticed = FALSE]
<1>1. st \in SUBSET Caches /\ st \subseteq doc'.fresh
  OBVIOUS
<1>2. Touched(g, n, TRUE) = r
  BY DEF Touched, Ghosts
<1> HIDE DEF st
<1>3. g.faults + n \in Nat
  BY DEF Ghosts
<1>4. r \in Ghosts
  BY <1>1, <1>3 DEF Ghosts
<1>5. /\ r.faults = g.faults + n /\ r.seals = g.seals /\ r.lost = g.lost
      /\ r.unmarked = g.unmarked /\ r.unnoticed = FALSE /\ r.stale = st
  BY DEF Ghosts
<1> HIDE DEF r
<1> QED BY <1>1, <1>2, <1>4, <1>5

LEMMA TouchedQuietly ==
  ASSUME NEW g \in Ghosts, NEW n \in {0, 1}, doc'.fresh \subseteq Caches
  PROVE  /\ Touched(g, n, FALSE) \in Ghosts
         /\ Touched(g, n, FALSE).faults = g.faults + n
         /\ Touched(g, n, FALSE).seals = g.seals /\ Touched(g, n, FALSE).lost = g.lost
         /\ Touched(g, n, FALSE).unmarked = g.unmarked
         /\ Touched(g, n, FALSE).unnoticed <=> (g.unnoticed \/ disk' # disk)
         /\ disk' = disk => Touched(g, n, FALSE).stale = g.stale \intersect doc'.fresh
<1> DEFINE st == IF disk' # disk THEN doc'.fresh ELSE g.stale \intersect doc'.fresh
           un == g.unnoticed \/ disk' # disk
           r  == [g EXCEPT !.faults = g.faults + n, !.stale = st, !.unnoticed = un]
<1>1. st \in SUBSET Caches
  OBVIOUS
<1>2. Touched(g, n, FALSE) = r
  BY DEF Touched, Ghosts
<1>3. un \in BOOLEAN
  BY DEF Ghosts
<1>a. disk' = disk => st = g.stale \intersect doc'.fresh
  OBVIOUS
<1>b. un <=> (g.unnoticed \/ disk' # disk)
  OBVIOUS
<1> HIDE DEF st, un
<1>4. g.faults + n \in Nat
  BY DEF Ghosts
<1>5. r \in Ghosts
  BY <1>1, <1>3, <1>4 DEF Ghosts
<1>6. /\ r.faults = g.faults + n /\ r.seals = g.seals /\ r.lost = g.lost
      /\ r.unmarked = g.unmarked /\ r.stale = st
  BY DEF Ghosts
<1>7. r.unnoticed = un
  BY DEF Ghosts
<1> HIDE DEF r
<1>8. Touched(g, n, FALSE).unnoticed = un
  BY <1>2, <1>7, Zenon
<1> QED BY <1>a, <1>b, <1>2, <1>5, <1>6, <1>8

\* The text in the editor, and what marking the document saved leaves alone.
LEMMA TextIs ==
  ASSUME ed \in Windows, ed.pos + 1 \in 1..Len(ed.hist)
  PROVE  Text \in Values
BY DEF Windows, Text

LEMMA MarkedIs ==
  ASSUME ed \in Windows, Len(ed.hist) <= MaxEdits + 1, ed.pos + 1 \in 1..Len(ed.hist)
  PROVE  LET e == Marked(ed)
         IN  /\ e \in Windows /\ e.hist = ed.hist /\ e.pos = ed.pos /\ e.dirty = FALSE
             /\ e.forms = ed.forms /\ e.fpos = ed.fpos /\ e.formsSeen = ed.formsSeen
             /\ \A w \in Watchers : e.at[w] = IF w = "saved" THEN ed.pos ELSE ed.at[w]
             /\ \A w \in Watchers : e.seen[w] = IF w = "saved" THEN Text ELSE ed.seen[w]
<1> DEFINE a == [ed.at EXCEPT !["saved"] = ed.pos]
           s == [ed.seen EXCEPT !["saved"] = Text]
           r == [ed EXCEPT !.at = a, !.seen = s, !.dirty = FALSE]
<1>1. ed.pos \in 0..Never
  BY DocumentBounds DEF Never, Windows
<1>2. a \in [Watchers -> 0..Never] /\ s \in [Watchers -> Values \union {None}]
  BY <1>1, TextIs DEF Windows
<1>3. /\ \A w \in Watchers : a[w] = IF w = "saved" THEN ed.pos ELSE ed.at[w]
      /\ \A w \in Watchers : s[w] = IF w = "saved" THEN Text ELSE ed.seen[w]
  BY DEF Windows, Watchers
<1>4. Marked(ed) = r
  BY DEF Marked, Windows
<1> HIDE DEF a, s
<1>5. r \in Windows
  BY <1>2 DEF Windows
<1>6. /\ r.hist = ed.hist /\ r.pos = ed.pos /\ r.dirty = FALSE /\ r.forms = ed.forms
      /\ r.fpos = ed.fpos /\ r.formsSeen = ed.formsSeen /\ r.at = a /\ r.seen = s
  BY DEF Windows
<1> HIDE DEF r
<1> QED BY <1>3, <1>4, <1>5, <1>6

\* What the history says when a document was marked, or was not.
LEMMA MarksAre ==
  ASSUME NEW g \in Ghosts
  PROVE  /\ Saved(g) \in Ghosts /\ Saved(g).lost = g.lost \ {"saved"}
         /\ Saved(g).unmarked = FALSE /\ Saved(g).faults = g.faults
         /\ Saved(g).stale = g.stale /\ Saved(g).unnoticed = g.unnoticed
         /\ Unmarked(g) \in Ghosts /\ Unmarked(g).lost = g.lost
         /\ Unmarked(g).unmarked = TRUE /\ Unmarked(g).faults = g.faults
         /\ Unmarked(g).stale = g.stale /\ Unmarked(g).unnoticed = g.unnoticed
<1>1. /\ Saved(g) \in Ghosts /\ Saved(g).lost = g.lost \ {"saved"}
      /\ Saved(g).unmarked = FALSE /\ Saved(g).faults = g.faults
      /\ Saved(g).stale = g.stale
  BY DEF Saved, Ghosts
<1>2. Saved(g).unnoticed = g.unnoticed
  BY DEF Saved, Ghosts
<1>3. /\ Unmarked(g) \in Ghosts /\ Unmarked(g).lost = g.lost
      /\ Unmarked(g).unmarked = TRUE /\ Unmarked(g).faults = g.faults
      /\ Unmarked(g).stale = g.stale
  BY DEF Unmarked, Ghosts
<1>4. Unmarked(g).unnoticed = g.unnoticed
  BY DEF Unmarked, Ghosts
<1> QED BY <1>1, <1>2, <1>3, <1>4

-----------------------------------------------------------------------------
(* The two ways an operation ends, and what each keeps of Fits.            *)

\* Where a document is kept.
Kept(x, f, d) == IF d.mode = "archive" THEN f ELSE x

LEMMA InvIs ==
  Inv' <=> /\ Typed(disk', file', doc', ed', ghost')
           /\ InStep(disk', doc', ghost') /\ Tracked(ed', ghost')
           /\ TextKept(Kept(disk', file', doc'), doc', ed', ghost')
           /\ FormsKept(disk', doc', ed', ghost')
           /\ HashesFit(disk', doc', ed', ghost') /\ Upheld(disk', doc', ghost')
BY DEF Inv, Fits, Kept

LEMMA TypesAre ==
  Inv => /\ disk \in Containers /\ doc \in Engines /\ ed \in Windows /\ ghost \in Ghosts
         /\ file \in Containers \union {None}
         /\ Len(ed.hist) <= MaxEdits + 1 /\ ed.pos + 1 \in 1..Len(ed.hist)
         /\ ed.fpos \in 0..Len(ed.forms) /\ Text \in Values
         /\ doc.manifest = disk.manifest /\ doc.policy = disk.sealed
         /\ ed.pos \in 0..MaxEdits
<1>1. Inv => ed.pos \in 0..MaxEdits
  BY DocumentBounds DEF Inv, Fits, Typed, Windows
<1> QED BY <1>1, TextIs DEF Inv, Fits, Typed, InStep

\* After an operation that leaves the window alone but for the saved mark.
LEMMA ReloadFits ==
  ASSUME Inv, NEW y \in Containers, NEW n \in {0, 1}, NEW g, disk' = y,
         y.sealed = disk.sealed,
         doc' = Reloaded(doc, y) \/ doc' = [Reloaded(doc, y) EXCEPT !.verify = "none"],
         g = Touched(ghost, n, TRUE),
         \/ ghost' \in {g, Unmarked(g)} /\ ed' \in {ed, [ed EXCEPT !.dirty = FALSE]}
         \/ ghost' \in {g, Saved(g), Unmarked(g)} /\ ed' = Marked(ed),
         file' \in Containers \union {None},
         disk.manifest # None => y.manifest # None,
         n = 0 /\ y.manifest # None =>
           Matches(y) \/ (disk.manifest # None /\ (Matches(disk) => Matches(y))),
         TextKept(Kept(y, file', doc), doc, ed', ghost'),
         FormsKept(y, doc, ed', ghost')
  PROVE  Inv'
<1>1. /\ doc' \in Engines /\ doc'.manifest = y.manifest /\ doc'.cur = None
      /\ doc'.fresh = {} /\ doc'.mode = doc.mode /\ doc'.policy = doc.policy
      /\ doc'.form = doc.form /\ doc'.write = doc.write
      /\ (doc'.verify = doc.verify \/ doc'.verify = "none")
  BY TypesAre, ReloadedIs
<1>2. /\ g \in Ghosts /\ g.faults = ghost.faults + n /\ g.lost = ghost.lost
      /\ g.unmarked = ghost.unmarked /\ g.unnoticed = FALSE /\ g.stale = {}
  BY <1>1, TypesAre, TouchedIs
<1>3. /\ ghost' \in Ghosts /\ ghost'.faults = ghost.faults + n
      /\ ghost'.unnoticed = FALSE /\ ghost'.stale = {}
      /\ ghost'.lost \in {ghost.lost, ghost.lost \ {"saved"}}
      /\ ghost'.lost # ghost.lost => ed' = Marked(ed)
  <2>1. CASE ghost' = g
    BY <1>2, <2>1
  <2>2. CASE ghost' = Unmarked(g)
    BY <1>2, <2>2, MarksAre
  <2>3. CASE ghost' = Saved(g) /\ ed' = Marked(ed)
    BY <1>2, <2>3, MarksAre
  <2> QED BY <2>1, <2>2, <2>3
<1>4. /\ ed' \in Windows /\ ed'.hist = ed.hist /\ ed'.pos = ed.pos
      /\ ed'.forms = ed.forms /\ ed'.fpos = ed.fpos
      /\ \/ ed'.at = ed.at /\ ed'.seen = ed.seen
         \/ /\ ed' = Marked(ed)
            /\ \A w \in Watchers : ed'.at[w] = IF w = "saved" THEN ed.pos ELSE ed.at[w]
            /\ \A w \in Watchers : ed'.seen[w] = IF w = "saved" THEN Text ELSE ed.seen[w]
  <2>1. CASE ed' = ed
    BY <2>1, TypesAre
  <2>2. CASE ed' = [ed EXCEPT !.dirty = FALSE]
    BY <2>2, TypesAre DEF Windows
  <2>3. CASE ed' = Marked(ed)
    BY <2>3, TypesAre, MarkedIs
  <2> QED BY <2>1, <2>2, <2>3
<1>5. Typed(disk', file', doc', ed', ghost')
  BY <1>1, <1>3, <1>4, TypesAre DEF Typed
<1>6. InStep(disk', doc', ghost')
  BY <1>1, <1>3, TypesAre DEF InStep
<1>7. Tracked(ed', ghost')
  <2> SUFFICES ASSUME NEW w \in Watchers \ ghost'.lost, ed'.at[w] # Never
               PROVE  ed'.at[w] + 1 \in 1..Len(ed.hist)
                      /\ ed'.seen[w] = ed.hist[ed'.at[w] + 1]
    BY <1>4 DEF Tracked
  <2>1. Tracked(ed, ghost)
    BY DEF Inv, Fits
  <2>2. CASE ed'.at[w] = ed.at[w] /\ ed'.seen[w] = ed.seen[w] /\ w \notin ghost.lost
    BY <2>1, <2>2 DEF Tracked
  <2>3. CASE w = "saved" /\ ed' = Marked(ed) /\ ed'.at[w] = ed.pos /\ ed'.seen[w] = Text
    BY <2>3, TypesAre DEF Text
  <2>4. w \notin ghost.lost \/ (w = "saved" /\ ed' = Marked(ed))
    BY <1>3
  <2>5. w = "saved" /\ ed' = Marked(ed) => ed'.at[w] = ed.pos /\ ed'.seen[w] = Text
    BY TypesAre, MarkedIs
  <2>6. ~(w = "saved" /\ ed' = Marked(ed)) =>
          ed'.at[w] = ed.at[w] /\ ed'.seen[w] = ed.seen[w]
    BY <1>4
  <2> QED BY <2>2, <2>3, <2>4, <2>5, <2>6
<1>8. TextKept(Kept(disk', file', doc'), doc', ed', ghost')
  BY <1>1 DEF TextKept, Kept
<1>9. FormsKept(disk', doc', ed', ghost')
  BY <1>1 DEF FormsKept
<1>10. HashesFit(disk', doc', ed', ghost')
  BY <1>1 DEF HashesFit
<1>11. Upheld(disk', doc', ghost')
  <2>1. Upheld(disk, doc, ghost) /\ doc.manifest = disk.manifest
    BY TypesAre DEF Inv, Fits
  <2>2. ghost'.faults = 0 => n = 0 /\ ghost.faults = 0
    BY <1>3, TypesAre DEF Ghosts
  <2>3. doc'.verify = "ok" => doc.verify = "ok"
    BY <1>1
  <2> QED BY <1>1, <1>3, <2>1, <2>2, <2>3 DEF Upheld
<1> QED BY <1>5, <1>6, <1>7, <1>8, <1>9, <1>10, <1>11, InvIs

\* After an operation that loads the document again.
LEMMA LoadFits ==
  ASSUME Inv, NEW y \in Containers, NEW n \in {0, 1}, NEW h \in Ghosts, NEW a \in BOOLEAN,
         NEW mode \in {"untitled", "folder", "archive"}, disk' = y,
         doc' = Loaded(mode, y), ed' = Synced(ed, LoadedText(y)),
         h.faults = ghost.faults, ghost' = Reseeded(Touched(h, n, TRUE), a),
         file' \in Containers \union {None},
         a => Kept(y, file', doc') = y,
         n = 0 /\ ghost.faults = 0 /\ y.manifest # None /\ Intact => Matches(y)
  PROVE  Inv'
<1> DEFINE text == LoadedText(y)
<1>1. /\ doc' \in Engines /\ doc'.mode = mode /\ doc'.policy = y.sealed
      /\ doc'.manifest = y.manifest /\ doc'.cur = None /\ doc'.fresh = {}
      /\ doc'.verify = "none"
      /\ \A m \in doc'.write : y.val[m] # None /\ doc'.form[m] = y.val[m]
  BY LoadedIs
<1>2. /\ text \in Values
      /\ Content \notin y.sealed /\ y.val[Content] # None => text = y.val[Content]
  BY LoadedTextIs
<1> HIDE DEF text
<1>3. /\ ed' \in Windows /\ ed'.hist = <<text>> /\ Len(ed'.hist) = 1 /\ ed'.pos = 0
      /\ ed'.forms = << >> /\ ed'.fpos = 0
      /\ ed'.at = [w \in Watchers |-> IF w = "saved" THEN 0 ELSE Never]
      /\ ed'.seen = [w \in Watchers |-> IF w = "saved" THEN text ELSE None]
  <2>1. OnText(Synced(ed, text), text)
    BY <1>2, SyncedIs
  <2>2. ed' = Synced(ed, text)
    BY DEF text
  <2>3. OnText(ed', text)
    BY <2>1, <2>2
  <2> QED BY <2>3 DEF OnText
<1> DEFINE t == Touched(h, n, TRUE)
<1>4. /\ t \in Ghosts /\ t.faults = ghost.faults + n /\ t.unnoticed = FALSE
      /\ t.stale = {}
  <2>1. doc'.fresh \subseteq Caches
    BY <1>1
  <2>2. /\ t \in Ghosts /\ t.faults = h.faults + n /\ t.unnoticed = FALSE
        /\ t.stale \subseteq doc'.fresh
    BY <2>1, TouchedIs
  <2> HIDE DEF t
  <2> QED BY <1>1, <2>2
<1> DEFINE u == ~a
<1>5. ghost' = [t EXCEPT !.lost = {}, !.unmarked = u] /\ u \in BOOLEAN
  BY DEF Reseeded
<1>6. u <=> ~a
  OBVIOUS
<1> HIDE DEF t, u
<1>c. /\ ghost' \in Ghosts /\ ghost'.lost = {} /\ ghost'.faults = ghost.faults + n
      /\ ghost'.stale = {}
  BY <1>4, <1>5 DEF Ghosts
<1>a. ghost'.unmarked = u
  BY <1>4, <1>5 DEF Ghosts
<1>b. ghost'.unnoticed = FALSE
  BY <1>4, <1>5 DEF Ghosts
<1>7. Typed(disk', file', doc', ed', ghost')
  <2>1. Len(ed'.hist) <= MaxEdits + 1 /\ ed'.pos + 1 \in 1..Len(ed'.hist)
    BY <1>3, DocumentBounds
  <2>2. ed'.fpos \in 0..Len(ed'.forms)
    BY <1>3
  <2> QED BY <1>1, <1>3, <1>c, <2>1, <2>2 DEF Typed
<1>8. InStep(disk', doc', ghost')
  BY <1>1 DEF InStep
<1>9. Tracked(ed', ghost')
  BY <1>3, DocumentBounds DEF Tracked, Never
<1>10. TextKept(Kept(disk', file', doc'), doc', ed', ghost')
  <2>1. ed'.seen["saved"] = text
    BY <1>3 DEF Watchers
  <2> QED BY <1>1, <1>2, <1>6, <1>a, <2>1 DEF TextKept
<1>11. FormsKept(disk', doc', ed', ghost')
  BY <1>1 DEF FormsKept
<1>12. HashesFit(disk', doc', ed', ghost')
  BY <1>1 DEF HashesFit
<1>13. Upheld(disk', doc', ghost')
  <2>2. ghost.faults \in Nat
    BY TypesAre DEF Ghosts
  <2>3. \A i \in Nat, j \in {0, 1} : i + j = 0 => i = 0 /\ j = 0
    OBVIOUS
  <2>1. ghost'.faults = 0 => n = 0 /\ ghost.faults = 0
    BY <1>c, <2>2, <2>3, Zenon
  <2> QED BY <1>1, <1>b, <2>1 DEF Upheld
<1> QED BY <1>7, <1>8, <1>9, <1>10, <1>11, <1>12, <1>13, InvIs

-----------------------------------------------------------------------------
(* The operations.                                                         *)

\* What is written from memory is what memory says, in its canonical spelling.
LEMMA WriteKeeps ==
  ASSUME NEW x \in Containers, NEW d \in Engines, NEW text \in Values, NEW y,
         WrittenOver(x, d, text, y, Written(d))
  PROVE  /\ \A e, g : FormsKept(y, d, e, g)
         /\ Content \notin d.policy =>
              /\ y.val[Content] = Canonical[text]
              /\ Canonical[y.val[Content]] = Canonical[text]
         /\ \A m \in d.write \ d.policy : y.val[m] = Canonical[d.form[m]]
         /\ \A m \in Members : x.val[m] # None => y.val[m] # None
<1>1. \A m \in Written(d) : y.val[m] = Says(d, text, m)
  BY WrittenIs DEF WrittenOver
<1>2. Content \notin d.policy => y.val[Content] = Canonical[text]
  BY <1>1, WrittenIs DEF Says
<1>3. \A m \in d.write \ d.policy :
        y.val[m] = Canonical[d.form[m]] /\ d.form[m] \in Values
  <2> TAKE m \in d.write \ d.policy
  <2>1. m \in Written(d) /\ m \in Forms /\ m # Content
    BY WrittenIs DEF Engines, Forms, Content
  <2> QED BY <1>1, <2>1 DEF Says, Engines
<1>4. \A e, g : FormsKept(y, d, e, g)
  BY <1>3, ValuesAssumption DEF FormsKept
<1>5. \A m \in Members : x.val[m] # None => y.val[m] # None
  BY SaysIs DEF WrittenOver
<1> QED BY <1>2, <1>3, <1>4, <1>5, ValuesAssumption

LEMMA FlushOk ==
  ASSUME Inv, NEW ensure \in BOOLEAN, NEW f \in Flushes(disk, doc, Text, ensure), f.ok
  PROVE  /\ f.disk \in Containers /\ f.cost \in {0, 1}
         /\ WrittenOver(disk, doc, Text, f.disk, Written(doc))
         /\ f.disk.sealed = disk.sealed /\ f.disk.sig = disk.sig
         /\ disk.manifest # None => f.disk.manifest # None
         /\ f.cost = 0 /\ f.disk.manifest # None => Matches(f.disk)
         /\ \A e, g : FormsKept(f.disk, doc, e, g)
         /\ Content \notin doc.policy => Canonical[f.disk.val[Content]] = Canonical[Text]
<1>1. Flushed(disk, doc, Text, ensure, f)
  BY TypesAre, FlushIs
<1>2. /\ f.disk \in Containers /\ f.cost \in {0, 1}
      /\ WrittenOver(disk, doc, Text, f.disk, Written(doc))
  BY <1>1 DEF Flushed
<1>3. f.disk.sealed = disk.sealed /\ f.disk.sig = disk.sig
  BY <1>2 DEF WrittenOver
<1>4. disk.manifest # None => f.disk.manifest # None
  <2>1. Listing(f.disk) # None
    BY <1>2, ListingIs
  <2> QED BY <1>1, <2>1 DEF Flushed
<1>5. f.cost = 0 /\ f.disk.manifest # None => Matches(f.disk)
  <2>1. CASE ensure \/ disk.manifest # None
    BY <1>1, <2>1 DEF Flushed
  <2>2. CASE ~ensure /\ disk.manifest = None
    BY <1>1, <2>2 DEF Flushed
  <2> QED BY <2>1, <2>2
<1>6. \A e, g : FormsKept(f.disk, doc, e, g)
  BY <1>2, TypesAre, WriteKeeps
<1>7. Content \notin doc.policy => Canonical[f.disk.val[Content]] = Canonical[Text]
  BY <1>2, TypesAre, WriteKeeps
<1> QED BY <1>2, <1>3, <1>4, <1>5, <1>6, <1>7

LEMMA FlushFailsInv ==
  ASSUME Inv, NEW ensure \in BOOLEAN, NEW f \in Flushes(disk, doc, Text, ensure),
         FlushFails(f)
  PROVE  Inv'
<1>1. Flushed(disk, doc, Text, ensure, f)
  BY TypesAre, FlushIs
<1>2. /\ f.disk \in Containers /\ f.cost = 1 /\ f.disk.manifest = disk.manifest
      /\ f.disk.sealed = disk.sealed
  BY <1>1 DEF FlushFails, Flushed, WrittenOver
<1>3. /\ disk' = f.disk /\ file' = file /\ doc' = doc /\ ed' = ed
      /\ ghost' = Unmarked(Touched(ghost, 1, FALSE))
  BY <1>2 DEF FlushFails
<1>4. doc.fresh \subseteq Caches
  BY TypesAre DEF Engines
<1> DEFINE t == Touched(ghost, 1, FALSE)
<1>5. /\ t \in Ghosts /\ t.faults = ghost.faults + 1 /\ t.lost = ghost.lost
      /\ (t.unnoticed <=> (ghost.unnoticed \/ disk' # disk))
      /\ disk' = disk => t.stale = ghost.stale \intersect doc.fresh
  BY <1>3, <1>4, TypesAre, TouchedQuietly
<1> HIDE DEF t
<1>6. ghost' = Unmarked(t)
  BY <1>3 DEF t
<1>7. /\ ghost' \in Ghosts /\ ghost'.faults = ghost.faults + 1 /\ ghost'.lost = ghost.lost
      /\ ghost'.unmarked = TRUE /\ ghost'.unnoticed = t.unnoticed
      /\ ghost'.stale = t.stale
  BY <1>5, <1>6, MarksAre
<1>8. Fits(disk, file, doc, ed, ghost)
  BY DEF Inv
<1>9. ghost'.faults # 0
  BY <1>7, TypesAre DEF Ghosts
<1>10. Typed(disk', file', doc', ed', ghost')
  BY <1>2, <1>3, <1>7, <1>8 DEF Typed, Fits
<1>11. InStep(disk', doc', ghost')
  BY <1>2, <1>3, <1>5, <1>7, <1>8 DEF InStep, Fits
<1>12. Tracked(ed', ghost')
  BY <1>3, <1>7, <1>8 DEF Tracked, Fits
<1>13. TextKept(Kept(disk', file', doc'), doc', ed', ghost')
       /\ FormsKept(disk', doc', ed', ghost')
  BY <1>7 DEF TextKept, FormsKept
<1>14. HashesFit(disk', doc', ed', ghost')
  BY <1>3, <1>5, <1>7, <1>8 DEF HashesFit, Fits
<1>15. Upheld(disk', doc', ghost')
  BY <1>3, <1>8, <1>9 DEF Upheld, Fits
<1> QED BY <1>10, <1>11, <1>12, <1>13, <1>14, <1>15, InvIs

\* What a container's signature or log leaves alone.
LEMMA BesideIs ==
  ASSUME NEW x \in Containers, NEW y,
         \/ \E s \in Listings \union {None} : y = [x EXCEPT !.sig = s]
         \/ \E n \in Nat : y = [x EXCEPT !.log = n]
  PROVE  /\ y \in Containers /\ y.val = x.val /\ y.sealed = x.sealed /\ y.seal = x.seal
         /\ y.images = x.images /\ y.manifest = x.manifest
         /\ Matches(y) <=> Matches(x)
<1>1. /\ y \in Containers /\ y.val = x.val /\ y.sealed = x.sealed /\ y.seal = x.seal
      /\ y.images = x.images /\ y.manifest = x.manifest
  BY DEF Containers, WellFormed
<1> QED BY <1>1 DEF Matches

\* An operation that writes the members, and perhaps signs, and keeps the window.
LEMMA FlushReload ==
  ASSUME Inv, NEW ensure \in BOOLEAN, NEW f \in Flushes(disk, doc, Text, ensure), f.ok,
         NEW y, y \in {f.disk, [f.disk EXCEPT !.sig = f.disk.manifest]}, disk' = y,
         doc' = Reloaded(doc, y) \/ doc' = [Reloaded(doc, y) EXCEPT !.verify = "none"],
         NEW n \in {f.cost, 1}, NEW g, g = Touched(ghost, n, TRUE),
         \/ ghost' \in {g, Unmarked(g)} /\ ed' \in {ed, [ed EXCEPT !.dirty = FALSE]}
         \/ ghost' \in {g, Saved(g), Unmarked(g)} /\ ed' = Marked(ed),
         file' \in Containers \union {None},
         TextKept(Kept(y, file', doc), doc, ed', ghost')
  PROVE  Inv'
<1>1. /\ f.disk \in Containers /\ f.cost \in {0, 1}
      /\ f.disk.sealed = disk.sealed
      /\ disk.manifest # None => f.disk.manifest # None
      /\ f.cost = 0 /\ f.disk.manifest # None => Matches(f.disk)
      /\ \A e, h : FormsKept(f.disk, doc, e, h)
  BY FlushOk
<1>2. /\ y \in Containers /\ y.val = f.disk.val /\ y.sealed = f.disk.sealed
      /\ y.manifest = f.disk.manifest /\ (Matches(y) <=> Matches(f.disk))
  <2>1. CASE y = f.disk
    BY <1>1, <2>1
  <2>2. CASE y = [f.disk EXCEPT !.sig = f.disk.manifest]
    <3>1. f.disk.manifest \in Listings \union {None}
      BY <1>1 DEF Containers
    <3> QED BY <1>1, <2>2, <3>1, BesideIs
  <2> QED BY <2>1, <2>2
<1>3. FormsKept(y, doc, ed', ghost')
  <2>1. FormsKept(f.disk, doc, ed', ghost')
    BY <1>1
  <2> QED BY <1>2, <2>1 DEF FormsKept
<1>4. n \in {0, 1} /\ (n = 0 => f.cost = 0)
  BY <1>1
<1>5. n = 0 /\ y.manifest # None => Matches(y)
  BY <1>1, <1>2, <1>4
<1>6. disk.manifest # None => y.manifest # None
  BY <1>1, <1>2
<1>7. y.sealed = disk.sealed
  BY <1>1, <1>2
<1> QED BY <1>2, <1>3, <1>4, <1>5, <1>6, <1>7, ReloadFits

\* The history of an operation is marked or not as it says.
LEMMA TouchedMarks ==
  ASSUME Inv, NEW n \in {0, 1}, doc'.fresh = {}
  PROVE  LET g == Touched(ghost, n, TRUE)
         IN  /\ g.lost = ghost.lost /\ g.unmarked = ghost.unmarked
             /\ Unmarked(g).unmarked = TRUE
<1> DEFINE g == Touched(ghost, n, TRUE)
<1>1. g \in Ghosts /\ g.lost = ghost.lost /\ g.unmarked = ghost.unmarked
  BY TypesAre, TouchedIs
<1> HIDE DEF g
<1> QED BY <1>1, MarksAre DEF g

\* The text is kept where it was just written, and where nothing was claimed.
LEMMA TextIsKept ==
  ASSUME Inv, NEW k, NEW g
  PROVE  /\ Content \notin doc.policy => Canonical[k.val[Content]] = Canonical[Text]
         => TextKept(k, doc, Marked(ed), g)
<1>1. Marked(ed).seen["saved"] = Text
  BY TypesAre, MarkedIs DEF Watchers
<1> QED BY <1>1 DEF TextKept

LEMMA SaveInv == Inv /\ Save => Inv'
<1> SUFFICES ASSUME Inv, Save PROVE Inv'
  OBVIOUS
<1> PICK f \in Flushes(disk, doc, Text, FALSE) :
       \/ FlushFails(f)
       \/ /\ f.ok
          /\ disk' = f.disk
          /\ doc' = Reloaded(doc, f.disk)
          /\ \/ /\ file' = IF doc.mode = "archive" THEN f.disk ELSE file
                /\ ed' = Marked(ed)
                /\ ghost' = Saved(Touched(ghost, f.cost, TRUE))
             \/ /\ doc.mode = "archive" /\ f.cost = 0 /\ CanFail("archive")
                /\ file' = None
                /\ ed' = ed
                /\ ghost' = Touched(ghost, 1, TRUE)
  BY Zenon DEF Save
<1>1. CASE FlushFails(f)
  BY <1>1, FlushFailsInv
<1>2. CASE /\ f.ok /\ disk' = f.disk /\ doc' = Reloaded(doc, f.disk)
           /\ file' = (IF doc.mode = "archive" THEN f.disk ELSE file)
           /\ ed' = Marked(ed) /\ ghost' = Saved(Touched(ghost, f.cost, TRUE))
  <2>1. f.disk \in Containers
        /\ (Content \notin doc.policy => Canonical[f.disk.val[Content]] = Canonical[Text])
    BY <1>2, FlushOk
  <2>2. file' \in Containers \union {None} /\ Kept(f.disk, file', doc) = f.disk
    BY <1>2, <2>1, TypesAre DEF Kept
  <2>3. TextKept(Kept(f.disk, file', doc), doc, ed', ghost')
    BY <1>2, <2>1, <2>2, TextIsKept
  <2> QED BY <1>2, <2>2, <2>3, FlushReload
<1>3. CASE /\ f.ok /\ disk' = f.disk /\ doc' = Reloaded(doc, f.disk)
           /\ doc.mode = "archive" /\ file' = None /\ ed' = ed
           /\ ghost' = Touched(ghost, 1, TRUE)
  <2>1. TextKept(Kept(f.disk, file', doc), doc, ed', ghost')
    BY <1>3 DEF TextKept, Kept
  <2> QED BY <1>3, <2>1, FlushReload
<1> QED BY <1>1, <1>2, <1>3

\* The rest of a rebuild, and of a signature.
LEMMA CompletionInv ==
  ASSUME Inv, NEW f \in Flushes(disk, doc, Text, TRUE), f.ok,
         NEW y, y \in {f.disk, [f.disk EXCEPT !.sig = f.disk.manifest]}, disk' = y,
         doc' = [Reloaded(doc, y) EXCEPT !.verify = "none"], file' = file,
         IF FlushSaves(doc)
         THEN ed' = Marked(ed) /\ ghost' = Saved(Touched(ghost, f.cost, TRUE))
         ELSE ed' = [ed EXCEPT !.dirty = FALSE] /\ ghost' = Touched(ghost, f.cost, TRUE)
  PROVE  Inv'
<1>1. /\ f.disk \in Containers /\ f.cost \in {0, 1}
      /\ (Content \notin doc.policy => Canonical[f.disk.val[Content]] = Canonical[Text])
  BY FlushOk
<1>2. y \in Containers /\ y.val = f.disk.val
  <2>1. f.disk.manifest \in Listings \union {None}
    BY <1>1 DEF Containers
  <2> QED BY <1>1, <2>1, BesideIs
<1>3. file' \in Containers \union {None}
  BY TypesAre
<1>4. CASE doc.mode # "archive"
  <2>1. Kept(y, file', doc) = y /\ ed' = Marked(ed)
        /\ ghost' = Saved(Touched(ghost, f.cost, TRUE))
    BY <1>4 DEF Kept, FlushSaves
  <2>2. TextKept(Kept(y, file', doc), doc, ed', ghost')
    BY <1>1, <1>2, <2>1, TextIsKept
  <2> QED BY <1>3, <2>1, <2>2, FlushReload
<1>5. CASE doc.mode = "archive"
  <2>1. Kept(y, file', doc) = file /\ ed' = [ed EXCEPT !.dirty = FALSE]
        /\ ghost' = Touched(ghost, f.cost, TRUE)
    BY <1>5 DEF Kept, FlushSaves
  <2>2. doc'.fresh = {}
    BY <1>2, TypesAre, ReloadedIs
  <2>3. ghost'.lost = ghost.lost /\ ghost'.unmarked = ghost.unmarked
    BY <1>1, <2>1, <2>2, TouchedMarks
  <2>4. ed'.seen = ed.seen
    BY <2>1, TypesAre DEF Windows
  <2>5. TextKept(file, doc, ed, ghost)
    BY <1>5 DEF Inv, Fits
  <2>6. TextKept(Kept(y, file', doc), doc, ed', ghost')
    BY <2>1, <2>3, <2>4, <2>5 DEF TextKept
  <2> QED BY <1>3, <2>1, <2>6, FlushReload
<1> QED BY <1>4, <1>5

LEMMA RebuildInv == Inv /\ Rebuild => Inv'
<1> SUFFICES ASSUME Inv, NEW f \in Flushes(disk, doc, Text, TRUE),
                    \/ FlushFails(f)
                    \/ /\ f.ok
                       /\ disk' = f.disk
                       /\ doc' = [Reloaded(doc, f.disk) EXCEPT !.verify = "none"]
                       /\ IF FlushSaves(doc)
                          THEN /\ ed' = Marked(ed)
                               /\ ghost' = Saved(Touched(ghost, f.cost, TRUE))
                          ELSE /\ ed' = [ed EXCEPT !.dirty = FALSE]
                               /\ ghost' = Touched(ghost, f.cost, TRUE)
                       /\ UNCHANGED file
             PROVE  Inv'
  BY Zenon DEF Rebuild
<1>1. CASE FlushFails(f)
  BY <1>1, FlushFailsInv
<1>2. CASE ~FlushFails(f)
  BY <1>2, CompletionInv
<1> QED BY <1>1, <1>2

\* After an operation that wrote the editor and marks nothing.
LEMMA UnmarkedInv ==
  ASSUME Inv, NEW ensure \in BOOLEAN, NEW f \in Flushes(disk, doc, Text, ensure), f.ok,
         disk' = f.disk, doc' = Reloaded(doc, f.disk), ed' = ed, file' = file,
         NEW n \in {f.cost, 1}, ghost' = Unmarked(Touched(ghost, n, TRUE))
  PROVE  Inv'
<1>1. f.disk \in Containers /\ f.cost \in {0, 1}
  BY FlushOk
<1>2. doc'.fresh = {}
  BY <1>1, TypesAre, ReloadedIs
<1>3. ghost'.unmarked = TRUE
  BY <1>1, <1>2, TouchedMarks
<1>4. TextKept(Kept(f.disk, file', doc), doc, ed', ghost')
  BY <1>3 DEF TextKept
<1>5. file' \in Containers \union {None}
  BY TypesAre
<1> QED BY <1>4, <1>5, FlushReload

LEMMA SignInv == Inv /\ Sign => Inv'
<1> SUFFICES ASSUME Inv, NEW f \in Flushes(disk, doc, Text, TRUE),
                    \/ FlushFails(f)
                    \/ /\ f.ok
                       /\ IF f.disk.manifest = None
                          THEN /\ disk' = f.disk
                               /\ doc' = Reloaded(doc, disk')
                               /\ ghost' = Unmarked(Touched(ghost, f.cost, TRUE))
                               /\ ed' = ed
                          ELSE /\ disk' = [f.disk EXCEPT !.sig = f.disk.manifest]
                               /\ doc' = [Reloaded(doc, disk') EXCEPT !.verify = "none"]
                               /\ IF FlushSaves(doc)
                                  THEN /\ ed' = Marked(ed)
                                       /\ ghost' = Saved(Touched(ghost, f.cost, TRUE))
                                  ELSE /\ ed' = [ed EXCEPT !.dirty = FALSE]
                                       /\ ghost' = Touched(ghost, f.cost, TRUE)
                       /\ UNCHANGED file
             PROVE  Inv'
  BY Zenon DEF Sign
<1>1. CASE FlushFails(f)
  BY <1>1, FlushFailsInv
<1>2. CASE ~FlushFails(f) /\ f.disk.manifest = None
  BY <1>2, UnmarkedInv
<1>3. CASE ~FlushFails(f) /\ f.disk.manifest # None
  <2> DEFINE y == [f.disk EXCEPT !.sig = f.disk.manifest]
  <2>1. /\ f.ok /\ disk' = y /\ doc' = [Reloaded(doc, y) EXCEPT !.verify = "none"]
        /\ file' = file
        /\ IF FlushSaves(doc)
           THEN ed' = Marked(ed) /\ ghost' = Saved(Touched(ghost, f.cost, TRUE))
           ELSE ed' = [ed EXCEPT !.dirty = FALSE] /\ ghost' = Touched(ghost, f.cost, TRUE)
    BY <1>3
  <2>2. y \in {f.disk, [f.disk EXCEPT !.sig = f.disk.manifest]}
    OBVIOUS
  <2> HIDE DEF y
  <2> QED BY <2>1, <2>2, CompletionInv
<1> QED BY <1>1, <1>2, <1>3

LEMMA ExportInv == Inv /\ Export => Inv'
<1> SUFFICES ASSUME Inv, NEW f \in Flushes(disk, doc, Text, FALSE),
                    \/ FlushFails(f)
                    \/ /\ f.ok
                       /\ disk' = f.disk
                       /\ doc' = Reloaded(doc, f.disk)
                       /\ ghost' = Unmarked(Touched(ghost, f.cost, TRUE))
                       /\ UNCHANGED <<file, ed>>
             PROVE  Inv'
  BY Zenon DEF Export
<1>1. CASE FlushFails(f)
  BY <1>1, FlushFailsInv
<1>2. CASE ~FlushFails(f)
  BY <1>2, UnmarkedInv
<1> QED BY <1>1, <1>2

\* After an operation on a file that no view of the members depends on.
LEMMA BesideInv ==
  ASSUME Inv, NEW y \in Containers, disk' = y, y.val = disk.val,
         y.sealed = disk.sealed, y.manifest = disk.manifest,
         Matches(y) <=> Matches(disk),
         doc' = Reloaded(doc, y), ghost' = Touched(ghost, 0, TRUE),
         file' = file, ed' = ed
  PROVE  Inv'
<1>1. doc'.fresh = {}
  BY TypesAre, ReloadedIs
<1>2. ghost'.lost = ghost.lost /\ ghost'.unmarked = ghost.unmarked
  BY <1>1, TouchedMarks
<1>3. TextKept(Kept(disk, file, doc), doc, ed, ghost) /\ FormsKept(disk, doc, ed, ghost)
  BY DEF Inv, Fits, Kept
<1>4. TextKept(Kept(y, file', doc), doc, ed', ghost')
  BY <1>2, <1>3, DocumentsAssumption, TypesAre DEF TextKept, Kept
<1>5. FormsKept(y, doc, ed', ghost')
  BY <1>2, <1>3 DEF FormsKept
<1>6. file' \in Containers \union {None}
  BY TypesAre
<1> QED BY <1>4, <1>5, <1>6, ReloadFits

LEMMA RemoveSignatureInv == Inv /\ RemoveSignature => Inv'
<1> SUFFICES ASSUME Inv, RemoveSignature PROVE Inv'
  OBVIOUS
<1> DEFINE y == [disk EXCEPT !.sig = None]
<1>1. /\ y \in Containers /\ y.val = disk.val /\ y.sealed = disk.sealed
      /\ y.manifest = disk.manifest /\ (Matches(y) <=> Matches(disk))
  BY TypesAre, BesideIs
<1>2. disk' = y /\ doc' = Reloaded(doc, y) /\ ghost' = Touched(ghost, 0, TRUE)
      /\ file' = file /\ ed' = ed
  BY DEF RemoveSignature
<1> HIDE DEF y
<1> QED BY <1>1, <1>2, BesideInv

LEMMA AuditInv == Inv /\ Audit => Inv'
<1> SUFFICES ASSUME Inv, Audit PROVE Inv'
  OBVIOUS
<1> DEFINE n == disk.log + 1
           y == [disk EXCEPT !.log = n]
<1>1. n \in Nat
  BY TypesAre DEF Containers
<1>2. disk' = y /\ doc' = Reloaded(doc, y) /\ ghost' = Touched(ghost, 0, TRUE)
      /\ file' = file /\ ed' = ed
  BY DEF Audit
<1> HIDE DEF n
<1>3. /\ y \in Containers /\ y.val = disk.val /\ y.sealed = disk.sealed
      /\ y.manifest = disk.manifest /\ (Matches(y) <=> Matches(disk))
  BY <1>1, TypesAre, BesideIs
<1> HIDE DEF y
<1> QED BY <1>2, <1>3, BesideInv

LEMMA VerifyInv == Inv /\ Verify => Inv'
<1> SUFFICES ASSUME Inv, Verify PROVE Inv'
  OBVIOUS
<1> DEFINE v == IF Listing(disk) = doc.manifest THEN "ok" ELSE "failed"
<1>1. doc' = [doc EXCEPT !.verify = v] /\ disk' = disk /\ file' = file /\ ed' = ed
      /\ ghost' = ghost /\ doc.manifest # None
  BY DEF Verify
<1>2. v \in {"none", "ok", "failed"} /\ (v = "ok" => doc.manifest = Listing(disk))
  OBVIOUS
<1> HIDE DEF v
<1>3. /\ doc' \in Engines /\ doc'.mode = doc.mode /\ doc'.policy = doc.policy
      /\ doc'.form = doc.form /\ doc'.write = doc.write /\ doc'.manifest = doc.manifest
      /\ doc'.cur = doc.cur /\ doc'.fresh = doc.fresh /\ doc'.verify = v
  BY <1>1, <1>2, TypesAre DEF Engines
<1>4. Fits(disk, file, doc, ed, ghost)
  BY DEF Inv
<1>5. v = "ok" => Matches(disk)
  <2>1. disk.images \in Nat
    BY TypesAre, DocumentBounds DEF Containers
  <2> QED BY <1>2, <2>1, TypesAre DEF Matches, Listing
<1>6. Typed(disk', file', doc', ed', ghost')
  BY <1>1, <1>3, <1>4 DEF Typed, Fits
<1>7. InStep(disk', doc', ghost') /\ Tracked(ed', ghost')
  BY <1>1, <1>3, <1>4 DEF Fits, InStep
<1>8. TextKept(Kept(disk', file', doc'), doc', ed', ghost')
  BY <1>1, <1>3, <1>4 DEF Fits, TextKept, Kept
<1>9. FormsKept(disk', doc', ed', ghost')
  BY <1>1, <1>3, <1>4 DEF Fits, FormsKept
<1>10. HashesFit(disk', doc', ed', ghost')
  <2>1. \A m : AsOnDisk(disk, doc', m) <=> AsOnDisk(disk, doc, m)
    BY <1>3 DEF AsOnDisk
  <2>2. \A m, text : Overlaid(doc', m, text) <=> Overlaid(doc, m, text)
    BY <1>3 DEF Overlaid
  <2>3. HashesFit(disk, doc, ed, ghost)
    BY <1>4 DEF Fits
  <2> QED BY <1>1, <1>3, <2>1, <2>2, <2>3 DEF HashesFit
<1>11. Upheld(disk', doc', ghost')
  BY <1>1, <1>3, <1>4, <1>5 DEF Fits, Upheld
<1> QED BY <1>6, <1>7, <1>8, <1>9, <1>10, <1>11, InvIs

LEMMA NothingIs ==
  Nothing \in Containers /\ Nothing.sealed = {} /\ Nothing.manifest = None
BY DocumentBounds DEF Nothing, Containers, WellFormed

LEMMA SaveAsInv == Inv /\ SaveAs => Inv'
<1> SUFFICES ASSUME Inv, SaveAs PROVE Inv'
  OBVIOUS
<1>1. ASSUME NEW c \in Staged(disk), NEW y, y = WriteMembers(c.disk, doc, Text, FALSE),
             disk' = y, file' = y, doc' = Loaded("archive", y),
             ed' = Synced(ed, LoadedText(y)),
             ghost' = Reseeded(Touched(ghost, c.cost, TRUE), TRUE)
      PROVE  Inv'
  <2>1. /\ c.disk \in Containers /\ c.disk.sealed \subseteq doc.policy
        /\ c.cost \in {0, 1}
    BY NothingIs, TypesAre DEF Staged
  <2>2. y \in Containers /\ (y.manifest # None => Matches(y))
    BY <1>1, <2>1, TypesAre, WriteMembersIs
  <2>3. Kept(y, file', doc') = y
    BY <1>1 DEF Kept
  <2>4. file' \in Containers \union {None}
    BY <1>1, <2>2
  <2>5. ghost \in Ghosts /\ TRUE \in BOOLEAN
        /\ "archive" \in {"untitled", "folder", "archive"}
    BY TypesAre
  <2> QED BY <1>1, <2>1, <2>2, <2>3, <2>4, <2>5, LoadFits
<1>2. ASSUME doc.mode = "archive", file' = None, disk' = disk, doc' = doc, ed' = ed,
             ghost' = Touched(ghost, 1, FALSE)
      PROVE  Inv'
  <2>1. doc'.fresh \subseteq Caches
    BY <1>2, TypesAre DEF Engines
  <2>2. /\ ghost' \in Ghosts /\ ghost'.faults = ghost.faults + 1
        /\ ghost'.lost = ghost.lost /\ ghost'.unmarked = ghost.unmarked
        /\ (ghost'.unnoticed <=> ghost.unnoticed)
        /\ ghost'.stale = ghost.stale \intersect doc.fresh
    BY <1>2, <2>1, TypesAre, TouchedQuietly
  <2>3. Fits(disk, file, doc, ed, ghost)
    BY DEF Inv
  <2>4. ghost'.faults # 0
    BY <2>2, TypesAre DEF Ghosts
  <2>5. Typed(disk', file', doc', ed', ghost')
    BY <1>2, <2>2, <2>3 DEF Typed, Fits
  <2>6. InStep(disk', doc', ghost') /\ Tracked(ed', ghost')
    BY <1>2, <2>2, <2>3 DEF Fits, InStep, Tracked
  <2>7. TextKept(Kept(disk', file', doc'), doc', ed', ghost')
    BY <1>2 DEF TextKept, Kept
  <2>8. FormsKept(disk', doc', ed', ghost')
    BY <1>2, <2>2, <2>3 DEF Fits, FormsKept
  <2>9. HashesFit(disk', doc', ed', ghost')
    BY <1>2, <2>2, <2>3 DEF Fits, HashesFit
  <2>10. Upheld(disk', doc', ghost')
    BY <1>2, <2>3, <2>4 DEF Fits, Upheld
  <2> QED BY <2>5, <2>6, <2>7, <2>8, <2>9, <2>10, InvIs
<1>3. \/ \E c \in Staged(disk) :
           LET y == WriteMembers(c.disk, doc, Text, FALSE)
           IN  /\ disk' = y /\ file' = y
               /\ doc' = Loaded("archive", y)
               /\ ed' = Synced(ed, LoadedText(y))
               /\ ghost' = Reseeded(Touched(ghost, c.cost, TRUE), TRUE)
      \/ /\ doc.mode = "archive" /\ file' = None /\ disk' = disk /\ doc' = doc /\ ed' = ed
         /\ ghost' = Touched(ghost, 1, FALSE)
  BY DEF SaveAs
<1>4. \/ \E c \in Staged(disk) : \E y :
           /\ y = WriteMembers(c.disk, doc, Text, FALSE)
           /\ disk' = y /\ file' = y
           /\ doc' = Loaded("archive", y)
           /\ ed' = Synced(ed, LoadedText(y))
           /\ ghost' = Reseeded(Touched(ghost, c.cost, TRUE), TRUE)
      \/ /\ doc.mode = "archive" /\ file' = None /\ disk' = disk /\ doc' = doc /\ ed' = ed
         /\ ghost' = Touched(ghost, 1, FALSE)
  BY <1>3, Zenon
<1> QED BY <1>1, <1>2, <1>4, Zenon

\* Sealing and opening.
LEMMA SealedIs ==
  ASSUME NEW x \in Containers, NEW ms \in SUBSET Members, NEW n \in 0..MaxSeals,
         \A m \in ms : x.val[m] # None, ms = {} => n = 0,
         NEW z, z = [x EXCEPT !.sealed = ms, !.seal = n]
  PROVE  /\ Rebuilt(z) \in Containers /\ Matches(Rebuilt(z))
         /\ Rebuilt(z).val = x.val /\ Rebuilt(z).sealed = ms
<1>1. z \in Containers
  BY DEF Containers, WellFormed
<1>2. z.val = x.val /\ z.sealed = ms
  BY DEF Containers
<1> QED BY <1>1, <1>2, RebuiltIs

LEMMA EncryptInv == \A ms \in Tickable : Inv /\ Encrypt(ms) => Inv'
<1> SUFFICES ASSUME NEW ms \in Tickable, Inv, Encrypt(ms) PROVE Inv'
  OBVIOUS
<1>1. ms \in SUBSET Members /\ ms # {}
  BY ValuesAssumption
<1>2. (\A m \in ms : disk.val[m] # None) /\ ghost.seals < MaxSeals
  BY DEF Encrypt, EncryptOffered
<1> DEFINE Y(f) == Rebuilt([f.disk EXCEPT !.sealed = ms, !.seal = ghost.seals + 1])
<1> PICK f \in Flushes(disk, doc, Text, TRUE) :
       \/ FlushFails(f)
       \/ /\ f.ok
          /\ \/ LET y == Rebuilt([f.disk EXCEPT !.sealed = ms,
                                                !.seal = ghost.seals + 1])
                IN  /\ disk' = y
                    /\ doc' = Loaded(doc.mode, y)
                    /\ ed' = Synced(ed, LoadedText(y))
                    /\ ghost' = Reseeded(Touched([ghost EXCEPT !.seals = @ + 1],
                                                 f.cost, TRUE),
                                         doc.mode # "archive")
             \/ /\ f.cost = 0 /\ CanFail("seal")
                /\ disk' = f.disk
                /\ doc' = Reloaded(doc, f.disk)
                /\ ghost' = Unmarked(Touched(ghost, 1, TRUE))
                /\ ed' = ed
          /\ UNCHANGED file
  BY Zenon DEF Encrypt
<1>3. CASE FlushFails(f)
  BY <1>3, FlushFailsInv
<1>4. CASE /\ f.ok /\ disk' = f.disk /\ doc' = Reloaded(doc, f.disk)
           /\ ghost' = Unmarked(Touched(ghost, 1, TRUE)) /\ ed' = ed /\ file' = file
  BY <1>4, UnmarkedInv
<1>5. CASE /\ f.ok /\ disk' = Y(f) /\ doc' = Loaded(doc.mode, Y(f))
           /\ ed' = Synced(ed, LoadedText(Y(f))) /\ file' = file
           /\ ghost' = Reseeded(Touched([ghost EXCEPT !.seals = @ + 1], f.cost, TRUE),
                                doc.mode # "archive")
  <2> DEFINE n == ghost.seals + 1
             y == Y(f)
             h == [ghost EXCEPT !.seals = n]
             ar == doc.mode # "archive"
  <2>1. f.disk \in Containers /\ f.cost \in {0, 1}
        /\ \A m \in Members : disk.val[m] # None => f.disk.val[m] # None
    <3>1. /\ f.disk \in Containers /\ f.cost \in {0, 1}
          /\ WrittenOver(disk, doc, Text, f.disk, Written(doc))
      BY <1>5, FlushOk
    <3> QED BY <3>1, TypesAre, WriteKeeps
  <2>2. n \in 0..MaxSeals
    <3>1. ghost.seals \in 0..MaxSeals
      BY TypesAre DEF Ghosts
    <3> QED BY <1>2, <3>1, DocumentBounds
  <2>3. /\ disk' = y /\ doc' = Loaded(doc.mode, y) /\ ed' = Synced(ed, LoadedText(y))
        /\ file' = file /\ ghost' = Reseeded(Touched(h, f.cost, TRUE), ar)
    BY <1>5
  <2> DEFINE x == f.disk
             z == [x EXCEPT !.sealed = ms, !.seal = n]
  <2>4. y = Rebuilt(z)
    OBVIOUS
  <2>5. ar \in BOOLEAN /\ (ar <=> doc.mode # "archive")
    OBVIOUS
  <2> HIDE DEF n, y, ar
  <2>6. y \in Containers /\ Matches(y)
    <3>1. /\ x \in Containers /\ ms \in SUBSET Members
          /\ \A m \in ms : x.val[m] # None
          /\ ms = {} => n = 0
      BY <1>1, <1>2, <2>1
    <3> HIDE DEF x
    <3>2. z = [x EXCEPT !.sealed = ms, !.seal = n]
      OBVIOUS
    <3> HIDE DEF z
    <3>3. Rebuilt(z) \in Containers /\ Matches(Rebuilt(z))
      BY <2>2, <3>1, <3>2, SealedIs
    <3> QED BY <2>4, <3>3 DEF z
  <2>7. h \in Ghosts /\ h.faults = ghost.faults
    BY <2>2, TypesAre DEF Ghosts
  <2> HIDE DEF h
  <2>8. doc.mode \in {"untitled", "folder", "archive"}
    BY TypesAre DEF Engines
  <2>9. ar => Kept(y, file', doc') = y
    BY <2>3, <2>5, <2>6, <2>8, LoadedIs DEF Kept
  <2>10. file' \in Containers \union {None}
    BY <2>3, TypesAre
  <2> QED BY <2>1, <2>3, <2>5, <2>6, <2>7, <2>8, <2>9, <2>10, LoadFits
<1> QED BY <1>3, <1>4, <1>5, Zenon

LEMMA DecryptInv == Inv /\ Decrypt => Inv'
<1> SUFFICES ASSUME Inv, Decrypt PROVE Inv'
  OBVIOUS
<1> DEFINE u == [disk EXCEPT !.sealed = {}, !.seal = 0]
           y == Rebuilt(u)
           ar == doc.mode # "archive"
<1>1. /\ disk' = y /\ doc' = Loaded(doc.mode, y) /\ ed' = Synced(ed, LoadedText(y))
      /\ file' = file /\ ghost' = Reseeded(Touched(ghost, 0, TRUE), ar)
  BY DEF Decrypt
<1>2. y \in Containers /\ Matches(y)
  <2>1. 0 \in 0..MaxSeals /\ {} \in SUBSET Members /\ disk \in Containers
        /\ \A m \in {} : disk.val[m] # None
    BY DocumentBounds, TypesAre
  <2>2. Rebuilt(u) \in Containers /\ Matches(Rebuilt(u))
    BY <2>1, SealedIs
  <2> HIDE DEF u
  <2> QED BY <2>2
<1>3. ar \in BOOLEAN /\ (ar <=> doc.mode # "archive")
  OBVIOUS
<1> HIDE DEF u, y, ar
<1>4. doc.mode \in {"untitled", "folder", "archive"}
  BY TypesAre DEF Engines
<1>5. ar => Kept(y, file', doc') = y
  BY <1>1, <1>2, <1>3, <1>4, LoadedIs DEF Kept
<1>6. file' \in Containers \union {None} /\ ghost \in Ghosts
  BY <1>1, TypesAre
<1> QED BY <1>1, <1>2, <1>3, <1>4, <1>5, <1>6, LoadFits

-----------------------------------------------------------------------------
(* The editor, the forms and the panels.                                   *)

\* A change of the window that keeps what is known of the saved text and of the
\* hashes.
LEMMA WindowFits ==
  ASSUME NEW x, NEW f, NEW d, NEW e, NEW g, Fits(x, f, d, e, g),
         NEW e2 \in Windows, NEW g2 \in Ghosts,
         Len(e2.hist) <= MaxEdits + 1, e2.pos + 1 \in 1..Len(e2.hist),
         e2.fpos \in 0..Len(e2.forms), Tracked(e2, g2),
         e2.seen["saved"] = e.seen["saved"], e2.seen["hashes"] = e.seen["hashes"],
         e2.dirty = e.dirty, e2.formsSeen = e.formsSeen,
         g2.faults = g.faults, g2.unmarked = g.unmarked, g2.unnoticed = g.unnoticed,
         g2.stale = g.stale, "saved" \in g.lost => "saved" \in g2.lost
  PROVE  Fits(x, f, d, e2, g2)
<1> DEFINE k == IF d.mode = "archive" THEN f ELSE x
<1>1. Typed(x, f, d, e2, g2)
  BY DEF Fits, Typed
<1>2. InStep(x, d, g2)
  BY DEF Fits, InStep
<1>3. TextKept(k, d, e, g)
  BY DEF Fits
<1> HIDE DEF k
<1>4. TextKept(k, d, e2, g2)
  BY <1>3 DEF TextKept
<1>5. FormsKept(x, d, e2, g2)
  BY DEF Fits, FormsKept
<1>6. HashesFit(x, d, e, g)
  BY DEF Fits
<1>7. HashesFit(x, d, e2, g2)
  BY <1>6 DEF HashesFit
<1>8. Upheld(x, d, g2)
  BY DEF Fits, Upheld
<1> QED BY <1>1, <1>2, <1>4, <1>5, <1>7, <1>8 DEF Fits, k

\* A cache other than the hashes is computed.
LEMMA ComputedFits ==
  ASSUME NEW x, NEW f, NEW d, NEW e, NEW g, Fits(x, f, d, e, g),
         NEW c \in Caches \ {"hashes"}
  PROVE  Fits(x, f, Computed(d, c), e, Current(g, c))
<1> DEFINE d2 == Computed(d, c)
           g2 == Current(g, c)
<1>0. d \in Engines /\ g \in Ghosts
  BY DEF Fits, Typed
<1>1. /\ d2 \in Engines /\ d2.mode = d.mode /\ d2.policy = d.policy /\ d2.form = d.form
      /\ d2.write = d.write /\ d2.manifest = d.manifest /\ d2.cur = d.cur
      /\ d2.fresh = d.fresh \union {c} /\ d2.verify = d.verify
  BY <1>0 DEF Computed, Engines
<1>2. /\ g2 \in Ghosts /\ g2.faults = g.faults /\ g2.lost = g.lost
      /\ g2.stale = g.stale \ {c}
      /\ g2.unmarked = g.unmarked /\ g2.unnoticed = g.unnoticed
  BY <1>0 DEF Current, Ghosts
<1> HIDE DEF d2, g2
<1>3. Typed(x, f, d2, e, g2)
  BY <1>1, <1>2 DEF Fits, Typed
<1>4. InStep(x, d2, g2)
  BY <1>1, <1>2 DEF Fits, InStep
<1>5. Tracked(e, g2)
  BY <1>2 DEF Fits, Tracked
<1>6. TextKept(IF d2.mode = "archive" THEN f ELSE x, d2, e, g2)
  BY <1>1, <1>2 DEF Fits, TextKept
<1>7. FormsKept(x, d2, e, g2)
  BY <1>1, <1>2 DEF Fits, FormsKept
<1>8. HashesFit(x, d2, e, g2)
  <2>1. \A m : AsOnDisk(x, d2, m) <=> AsOnDisk(x, d, m)
    BY <1>1 DEF AsOnDisk
  <2>2. \A m, text : Overlaid(d2, m, text) <=> Overlaid(d, m, text)
    BY <1>1 DEF Overlaid
  <2>3. HashesFit(x, d, e, g)
    BY DEF Fits
  <2> QED BY <1>1, <1>2, <2>1, <2>2, <2>3 DEF HashesFit
<1>9. Upheld(x, d2, g2)
  BY <1>1, <1>2 DEF Fits, Upheld
<1> QED BY <1>3, <1>4, <1>5, <1>6, <1>7, <1>8, <1>9 DEF Fits, d2, g2

LEMMA UndoRedoInv == Inv /\ (Undo \/ Redo) => Inv'
<1> SUFFICES ASSUME Inv, Undo \/ Redo PROVE Inv'
  OBVIOUS
<1>1. PICK n \in {ed.pos - 1, ed.pos + 1} :
        ed' = [ed EXCEPT !.pos = n] /\ n \in Nat /\ n + 1 \in 1..Len(ed.hist)
  <2>1. ed.pos \in Nat /\ Len(ed.hist) \in Nat /\ ed.pos + 1 \in 1..Len(ed.hist)
    BY TypesAre DEF Windows
  <2>2. CASE Undo
    BY <2>1, <2>2 DEF Undo
  <2>3. CASE Redo
    BY <2>1, <2>3 DEF Redo
  <2> QED BY <2>2, <2>3
<1>2. disk' = disk /\ file' = file /\ doc' = doc /\ ghost' = ghost
  BY DEF Undo, Redo
<1>3. /\ ed' \in Windows /\ ed'.pos = n /\ ed'.hist = ed.hist /\ ed'.at = ed.at
      /\ ed'.seen = ed.seen /\ ed'.dirty = ed.dirty /\ ed'.formsSeen = ed.formsSeen
      /\ ed'.forms = ed.forms /\ ed'.fpos = ed.fpos
  BY <1>1, TypesAre DEF Windows
<1>4. Tracked(ed', ghost)
  BY <1>3 DEF Inv, Fits, Tracked
<1>5. Fits(disk, file, doc, ed', ghost)
  BY <1>1, <1>3, <1>4, TypesAre, WindowFits DEF Inv
<1> QED BY <1>2, <1>5 DEF Inv

\* A text is typed over whatever could be redone.
LEMMA PushedIs ==
  ASSUME Inv, NEW t \in Values, ed.pos < MaxEdits, ed' = Pushed(ed, t),
         NEW g2, g2.lost = ghost.lost \union
                   {w \in Watchers : ed.at[w] \in (ed.pos + 1)..MaxEdits}
  PROVE  /\ ed' \in Windows /\ ed'.pos = ed.pos + 1 /\ ed'.at = ed.at
         /\ ed'.seen = ed.seen /\ ed'.dirty = ed.dirty /\ ed'.formsSeen = ed.formsSeen
         /\ ed'.forms = ed.forms /\ ed'.fpos = ed.fpos
         /\ Len(ed'.hist) <= MaxEdits + 1 /\ ed'.pos + 1 \in 1..Len(ed'.hist)
         /\ Tracked(ed', g2)
<1> DEFINE s == SubSeq(ed.hist, 1, ed.pos + 1)
           h == Append(s, t)
           p == ed.pos + 1
<1>1. /\ ed.hist \in Seq(Values) /\ ed.pos \in Nat /\ Len(ed.hist) \in Nat
      /\ p \in 1..Len(ed.hist)
  BY TypesAre DEF Windows
<1>2. /\ s \in Seq(Values) /\ Len(s) = p /\ \A i \in 1..p : s[i] = ed.hist[i]
  BY <1>1
<1> HIDE DEF s
<1>3. /\ h \in Seq(Values) /\ Len(h) = p + 1 /\ h[p + 1] = t
      /\ \A i \in 1..p : h[i] = ed.hist[i]
  BY <1>1, <1>2
<1>4. ed' = [ed EXCEPT !.hist = h, !.pos = p]
  BY TypesAre DEF Pushed, Windows, s
<1> HIDE DEF h
<1>5. p \in Nat /\ p <= MaxEdits
  BY <1>1, DocumentBounds
<1> HIDE DEF p
<1>6. /\ ed' \in Windows /\ ed'.pos = p /\ ed'.hist = h /\ ed'.at = ed.at
      /\ ed'.seen = ed.seen /\ ed'.dirty = ed.dirty /\ ed'.formsSeen = ed.formsSeen
      /\ ed'.forms = ed.forms /\ ed'.fpos = ed.fpos
  BY <1>3, <1>4, <1>5, TypesAre DEF Windows
<1>7. Len(ed'.hist) <= MaxEdits + 1 /\ ed'.pos + 1 \in 1..Len(ed'.hist)
  BY <1>3, <1>5, <1>6, DocumentBounds
<1>8. Tracked(ed', g2)
  <2> SUFFICES ASSUME NEW w \in Watchers \ g2.lost, ed.at[w] # Never
               PROVE  ed.at[w] + 1 \in 1..Len(h) /\ ed.seen[w] = h[ed.at[w] + 1]
    BY <1>6 DEF Tracked
  <2>1. w \notin ghost.lost /\ ed.at[w] \notin (ed.pos + 1)..MaxEdits
    OBVIOUS
  <2>2. ed.at[w] + 1 \in 1..Len(ed.hist) /\ ed.seen[w] = ed.hist[ed.at[w] + 1]
    BY <2>1 DEF Inv, Fits, Tracked
  <2> DEFINE n == ed.at[w]
  <2>3. n \in 0..(MaxEdits + 1) /\ n # MaxEdits + 1 /\ n \notin p..MaxEdits
    BY <2>1, TypesAre DEF Windows, Never, p
  <2> HIDE DEF n
  <2>4. n + 1 \in 1..p
    BY <2>3, <1>5, DocumentBounds
  <2>5. n + 1 \in 1..Len(h)
    BY <1>3, <1>5, <2>4
  <2>6. ed.seen[w] = h[n + 1]
    BY <1>3, <2>2, <2>4 DEF n
  <2> QED BY <2>5, <2>6 DEF n
<1> QED BY <1>6, <1>7, <1>8 DEF p

LEMMA EditedIs ==
  ASSUME NEW g \in Ghosts
  PROVE  /\ Edited(g) \in Ghosts
         /\ Edited(g).lost = g.lost \union
              {w \in Watchers : ed.at[w] \in (ed.pos + 1)..MaxEdits}
         /\ Edited(g).faults = g.faults /\ Edited(g).stale = g.stale
         /\ Edited(g).unmarked = g.unmarked /\ Edited(g).unnoticed = g.unnoticed
<1> DEFINE l == g.lost \union {w \in Watchers : ed.at[w] \in (ed.pos + 1)..MaxEdits}
<1>1. l \in SUBSET Watchers
  BY DEF Ghosts
<1>2. Edited(g) = [g EXCEPT !.lost = l]
  BY DEF Edited, Ghosts
<1> HIDE DEF l
<1>3. /\ [g EXCEPT !.lost = l] \in Ghosts /\ [g EXCEPT !.lost = l].lost = l
      /\ [g EXCEPT !.lost = l].faults = g.faults /\ [g EXCEPT !.lost = l].stale = g.stale
      /\ [g EXCEPT !.lost = l].unmarked = g.unmarked
      /\ [g EXCEPT !.lost = l].unnoticed = g.unnoticed
  BY <1>1 DEF Ghosts
<1> QED BY <1>2, <1>3 DEF l

LEMMA TypeInv == \A t \in Typeable : Inv /\ Type(t) => Inv'
<1> SUFFICES ASSUME NEW t \in Typeable, Inv, Type(t) PROVE Inv'
  OBVIOUS
<1>1. /\ t \in Values /\ ed.pos < MaxEdits /\ ed' = Pushed(ed, t)
      /\ ghost' = Edited(ghost) /\ disk' = disk /\ file' = file /\ doc' = doc
  BY ValuesAssumption DEF Type
<1>2. /\ ghost' \in Ghosts
      /\ ghost'.lost = ghost.lost \union
           {w \in Watchers : ed.at[w] \in (ed.pos + 1)..MaxEdits}
      /\ ghost'.faults = ghost.faults /\ ghost'.stale = ghost.stale
      /\ ghost'.unmarked = ghost.unmarked /\ ghost'.unnoticed = ghost.unnoticed
  BY <1>1, TypesAre, EditedIs
<1>3. /\ ed' \in Windows /\ ed'.seen = ed.seen /\ ed'.dirty = ed.dirty
      /\ ed'.formsSeen = ed.formsSeen /\ ed'.fpos \in 0..Len(ed'.forms)
      /\ Len(ed'.hist) <= MaxEdits + 1 /\ ed'.pos + 1 \in 1..Len(ed'.hist)
      /\ Tracked(ed', ghost')
  BY <1>1, <1>2, TypesAre, PushedIs
<1>4. Fits(disk, file, doc, ed', ghost')
  BY <1>2, <1>3, WindowFits DEF Inv
<1> QED BY <1>1, <1>4 DEF Inv

LEMMA InsertImageInv == \A t \in Typeable : Inv /\ InsertImage(t) => Inv'
<1> SUFFICES ASSUME NEW t \in Typeable, Inv, InsertImage(t) PROVE Inv'
  OBVIOUS
<1> DEFINE n == disk.images + 1
           g == Touched(ghost, 0, FALSE)
<1>1. /\ t \in Values /\ ed.pos < MaxEdits /\ ed' = Pushed(ed, t)
      /\ ghost' = Edited(g) /\ disk' = [disk EXCEPT !.images = n]
      /\ file' = file /\ doc' = doc /\ disk.images < MaxImages
  BY ValuesAssumption DEF InsertImage
<1>2. disk.images \in 0..MaxImages /\ n \in 0..MaxImages /\ n > disk.images
  <2>1. disk.images \in 0..MaxImages
    BY TypesAre DEF Containers
  <2> QED BY <1>1, <2>1, DocumentBounds
<1> HIDE DEF n
<1>3. /\ disk' \in Containers /\ disk'.val = disk.val /\ disk'.sealed = disk.sealed
      /\ disk'.seal = disk.seal /\ disk'.manifest = disk.manifest /\ disk'.images = n
  BY <1>1, <1>2, TypesAre DEF Containers, WellFormed
<1>4. disk' # disk
  BY <1>2, <1>3
<1>5. doc'.fresh \subseteq Caches
  BY <1>1, TypesAre DEF Engines
<1>6. /\ g \in Ghosts /\ g.faults = ghost.faults + 0 /\ g.lost = ghost.lost
      /\ g.unmarked = ghost.unmarked /\ g.unnoticed
  BY <1>4, <1>5, TypesAre, TouchedQuietly
<1> HIDE DEF g
<1>7. /\ ghost' \in Ghosts /\ ghost'.faults = ghost.faults
      /\ ghost'.lost = ghost.lost \union
           {w \in Watchers : ed.at[w] \in (ed.pos + 1)..MaxEdits}
      /\ ghost'.unmarked = ghost.unmarked /\ ghost'.unnoticed
  <2>1. ghost.faults + 0 = ghost.faults
    BY TypesAre DEF Ghosts
  <2>2. ghost'.unnoticed = g.unnoticed
    BY <1>1, <1>6, EditedIs
  <2> QED BY <1>1, <1>6, <2>1, <2>2, EditedIs
<1>8. /\ ed' \in Windows /\ ed'.seen = ed.seen /\ ed'.dirty = ed.dirty
      /\ ed'.fpos \in 0..Len(ed'.forms)
      /\ Len(ed'.hist) <= MaxEdits + 1 /\ ed'.pos + 1 \in 1..Len(ed'.hist)
      /\ Tracked(ed', ghost')
  BY <1>1, <1>7, TypesAre, PushedIs
<1>9. Fits(disk, file, doc, ed, ghost)
  BY DEF Inv
<1>10. Typed(disk', file', doc', ed', ghost')
  BY <1>1, <1>3, <1>7, <1>8, <1>9 DEF Typed, Fits
<1>11. InStep(disk', doc', ghost')
  BY <1>1, <1>3, <1>7, <1>9 DEF InStep, Fits
<1>12. TextKept(Kept(disk', file', doc'), doc', ed', ghost')
  <2>1. TextKept(Kept(disk, file, doc), doc, ed, ghost) /\ disk # None
    BY <1>9, TypesAre, DocumentsAssumption DEF Fits, Kept
  <2> QED BY <1>1, <1>3, <1>7, <1>8, <2>1 DEF TextKept, Kept
<1>13. FormsKept(disk', doc', ed', ghost')
  BY <1>1, <1>3, <1>7, <1>8, <1>9 DEF Fits, FormsKept
<1>14. HashesFit(disk', doc', ed', ghost')
  BY <1>7 DEF HashesFit
<1>15. Upheld(disk', doc', ghost')
  <2>1. Upheld(disk, doc, ghost)
    BY <1>9 DEF Fits
  <2>2. doc.manifest # None => doc.manifest.images \in Nat
    BY TypesAre, DocumentBounds DEF Engines, Listings
  <2>3. doc.manifest # None /\ Matches(disk) => Matches(disk') /\ n > doc.manifest.images
    <3>1. \A i \in Nat, j \in 0..MaxImages : i <= j /\ j < n => i <= n /\ n > i
      BY <1>2, DocumentBounds
    <3> QED BY <1>2, <1>3, <2>2, <3>1, TypesAre DEF Matches
  <2> QED BY <1>1, <1>3, <1>7, <2>1, <2>3 DEF Upheld
<1> QED BY <1>8, <1>10, <1>11, <1>12, <1>13, <1>14, <1>15, InvIs

\* A form is edited, undone or redone: it is to be written, and not hashed yet.
LEMMA FormsInv ==
  ASSUME Inv, NEW s \in [Forms -> Values], NEW wr \in SUBSET Forms, doc.write \subseteq wr,
         doc' = [doc EXCEPT !.form = s, !.write = wr],
         NEW fs \in Seq([Forms -> Values]), NEW n \in Nat, n \in 0..Len(fs),
         ed' = [ed EXCEPT !.forms = fs, !.fpos = n, !.dirty = TRUE, !.formsSeen = FALSE],
         disk' = disk, file' = file, ghost' = ghost
  PROVE  Inv'
<1>1. /\ doc' \in Engines /\ doc'.mode = doc.mode /\ doc'.policy = doc.policy
      /\ doc'.manifest = doc.manifest /\ doc'.cur = doc.cur /\ doc'.fresh = doc.fresh
      /\ doc'.write = wr /\ doc'.verify = doc.verify
  BY TypesAre DEF Engines
<1>2. ed' \in Windows /\ ed'.hist = ed.hist /\ ed'.pos = ed.pos
  BY TypesAre DEF Windows
<1>3. ed'.at = ed.at /\ ed'.seen = ed.seen /\ ed'.forms = fs /\ ed'.fpos = n
  BY TypesAre DEF Windows
<1>4. ed'.dirty = TRUE /\ ed'.formsSeen = FALSE
  BY TypesAre DEF Windows
<1>5. Fits(disk, file, doc, ed, ghost)
  BY DEF Inv
<1>6. Typed(disk', file', doc', ed', ghost')
  BY <1>1, <1>2, <1>3, <1>5 DEF Typed, Fits
<1>7. InStep(disk', doc', ghost') /\ Tracked(ed', ghost')
  BY <1>1, <1>2, <1>3, <1>5 DEF Fits, InStep, Tracked
<1>8. TextKept(Kept(disk', file', doc'), doc', ed', ghost')
  BY <1>1, <1>3, <1>5 DEF Fits, TextKept, Kept
<1>9. FormsKept(disk', doc', ed', ghost')
  BY <1>4 DEF FormsKept
<1>10. HashesFit(disk', doc', ed', ghost')
  <2>1. \A m : AsOnDisk(disk, doc', m) <=> AsOnDisk(disk, doc, m)
    BY <1>1 DEF AsOnDisk
  <2>2. \A m, text : Overlaid(doc', m, text) <=> Overlaid(doc, m, text)
    BY <1>1 DEF Overlaid
  <2>3. HashesFit(disk, doc, ed, ghost)
    BY <1>5 DEF Fits
  <2> SUFFICES ASSUME "hashes" \in doc.fresh, ~ghost.unnoticed
               PROVE  HashesFit(disk, doc', ed', ghost)
    BY <1>1 DEF HashesFit
  <2>4. /\ doc.manifest # None
        /\ doc.cur.seal = disk.seal /\ doc.cur.images = disk.images
        /\ doc.cur.extra =
             \E m \in Members : disk.val[m] # None /\ doc.manifest.val[m] = None
        /\ IF Content \in doc.policy THEN AsOnDisk(disk, doc, Content)
           ELSE ed.seen["hashes"] # None /\ Overlaid(doc, Content, ed.seen["hashes"])
        /\ \A m \in Forms \ doc.write : AsOnDisk(disk, doc, m)
    BY <2>3 DEF HashesFit
  <2>5. \A m \in Forms \ wr : AsOnDisk(disk, doc', m)
    BY <2>1, <2>4
  <2> QED BY <1>1, <1>3, <1>4, <2>1, <2>2, <2>4, <2>5 DEF HashesFit
<1>11. Upheld(disk', doc', ghost')
  BY <1>1, <1>5 DEF Fits, Upheld
<1> QED BY <1>6, <1>7, <1>8, <1>9, <1>10, <1>11, InvIs

LEMMA FormTypes ==
  Inv => /\ doc.form \in [Forms -> Values] /\ doc.write \in SUBSET Forms
         /\ ed.forms \in Seq([Forms -> Values]) /\ Len(ed.forms) \in Nat
         /\ ed.fpos \in Nat /\ ed.fpos <= Len(ed.forms)
BY TypesAre DEF Engines, Windows

LEMMA EditFormInv == \A m \in Forms, v \in Fillable : Inv /\ EditForm(m, v) => Inv'
<1> SUFFICES ASSUME NEW m \in Forms, NEW v \in Fillable, Inv, EditForm(m, v) PROVE Inv'
  OBVIOUS
<1> DEFINE s  == [doc.form EXCEPT ![m] = v]
           wr == doc.write \union {m}
           c  == SubSeq(ed.forms, 1, ed.fpos)
           a  == Append(c, doc.form)
           n  == ed.fpos + 1
<1>1. s \in [Forms -> Values] /\ wr \in SUBSET Forms /\ doc.write \subseteq wr
  BY FormTypes, ValuesAssumption
<1>2. doc' = [doc EXCEPT !.form = s, !.write = wr]
      /\ disk' = disk /\ file' = file /\ ghost' = ghost
  BY TypesAre DEF EditForm, Engines
<1>3. c \in Seq([Forms -> Values]) /\ Len(c) = ed.fpos
  BY FormTypes
<1> HIDE DEF c
<1>4. a \in Seq([Forms -> Values]) /\ Len(a) = n /\ n \in Nat
  BY <1>3, FormTypes
<1>5. PICK e \in Recorded(ed, doc.form) :
        ed' = [e EXCEPT !.dirty = TRUE, !.formsSeen = FALSE]
  BY DEF EditForm
<1>6. e = ed \/ e = [ed EXCEPT !.forms = a, !.fpos = n]
  BY TypesAre DEF Recorded, Windows, c
<1> HIDE DEF s, wr, a, n
<1>7. CASE e = ed
  <2>1. ed' = [ed EXCEPT !.forms = ed.forms, !.fpos = ed.fpos, !.dirty = TRUE,
                         !.formsSeen = FALSE]
    BY <1>5, <1>7, TypesAre DEF Windows
  <2>2. ed.fpos \in 0..Len(ed.forms)
    BY TypesAre
  <2> QED BY <1>1, <1>2, <2>1, <2>2, FormTypes, FormsInv
<1>8. CASE e = [ed EXCEPT !.forms = a, !.fpos = n]
  <2>1. ed' = [ed EXCEPT !.forms = a, !.fpos = n, !.dirty = TRUE, !.formsSeen = FALSE]
    BY <1>5, <1>8, TypesAre DEF Windows
  <2>2. n \in 0..Len(a)
    BY <1>4
  <2> QED BY <1>1, <1>2, <1>4, <2>1, <2>2, FormsInv
<1> QED BY <1>6, <1>7, <1>8

LEMMA UndoFormInv == Inv /\ UndoForm => Inv'
<1> SUFFICES ASSUME Inv, UndoForm PROVE Inv'
  OBVIOUS
<1> DEFINE h == IF ed.fpos = Len(ed.forms) THEN Append(ed.forms, doc.form) ELSE ed.forms
           n == ed.fpos - 1
           s == h[ed.fpos]
<1>1. /\ doc' = [doc EXCEPT !.form = s, !.write = Forms]
      /\ ed' = [ed EXCEPT !.forms = h, !.fpos = n, !.dirty = TRUE, !.formsSeen = FALSE]
      /\ disk' = disk /\ file' = file /\ ghost' = ghost
  BY TypesAre DEF UndoForm, ApplyForms, Windows, Engines
<1>2. h \in Seq([Forms -> Values]) /\ ed.fpos \in 1..Len(h) /\ n \in 0..Len(h) /\ n \in Nat
  <2>1. ed.fpos > 0
    BY DEF UndoForm
  <2> QED BY <2>1, FormTypes
<1> HIDE DEF h, n
<1>3. s \in [Forms -> Values]
  BY <1>2
<1> HIDE DEF s
<1>4. Forms \in SUBSET Forms /\ doc.write \subseteq Forms
  BY FormTypes
<1> QED BY <1>1, <1>2, <1>3, <1>4, FormsInv

LEMMA RedoFormInv == Inv /\ RedoForm => Inv'
<1> SUFFICES ASSUME Inv, RedoForm PROVE Inv'
  OBVIOUS
<1> DEFINE n == ed.fpos + 1
           s == ed.forms[ed.fpos + 2]
<1>1. /\ doc' = [doc EXCEPT !.form = s, !.write = Forms]
      /\ ed' = [ed EXCEPT !.forms = ed.forms, !.fpos = n, !.dirty = TRUE,
                          !.formsSeen = FALSE]
      /\ disk' = disk /\ file' = file /\ ghost' = ghost
  BY TypesAre DEF RedoForm, ApplyForms, Windows, Engines
<1>2. ed.fpos + 2 \in 1..Len(ed.forms) /\ n \in 0..Len(ed.forms) /\ n \in Nat
  <2>1. ed.fpos + 1 < Len(ed.forms)
    BY DEF RedoForm
  <2> QED BY <2>1, FormTypes
<1> HIDE DEF n
<1>3. s \in [Forms -> Values]
  BY <1>2, FormTypes
<1> HIDE DEF s
<1>4. Forms \in SUBSET Forms /\ doc.write \subseteq Forms
  BY FormTypes
<1> QED BY <1>1, <1>2, <1>3, <1>4, FormTypes, FormsInv

\* The Manifest and the Trust panel: the hashes, with what is live over them.
LEMMA LiveIs ==
  ASSUME Inv, doc.manifest # None
  PROVE  LET c == Hashes(doc, Text)
             k == IF "hashes" \in doc.fresh THEN doc.cur ELSE Scan(doc)
         IN  /\ c \in Scans /\ c # None
             /\ c.seal = k.seal /\ c.images = k.images /\ c.extra = k.extra
             /\ \A m \in Members : IF LiveMember(doc, m)
                                   THEN /\ c.val[m] = Hashed(doc, m, Text)
                                        /\ m \notin c.sealed
                                   ELSE /\ c.val[m] = k.val[m]
                                        /\ m \in c.sealed <=> m \in k.sealed
<1> DEFINE k == IF "hashes" \in doc.fresh THEN doc.cur ELSE Scan(doc)
           v == [m \in Members |-> IF LiveMember(doc, m) THEN Hashed(doc, m, Text)
                                   ELSE k.val[m]]
           s == {m \in k.sealed : ~LiveMember(doc, m)}
<1>1. k \in Scans
  <2>1. "hashes" \in doc.fresh => doc.cur \in Scans
    BY DEF Inv, Fits, Typed, Engines
  <2>2. Scan(doc) \in Scans
    <3> DEFINE x == \E m \in Members : disk.val[m] # None /\ doc.manifest.val[m] = None
    <3>1. x \in BOOLEAN /\ Scan(doc) = [val |-> disk.val, sealed |-> disk.sealed,
                                        seal |-> disk.seal, images |-> disk.images,
                                        extra |-> x]
      BY DEF Scan
    <3> HIDE DEF x
    <3> QED BY <3>1, TypesAre DEF Scans, Containers
  <2> QED BY <2>1, <2>2
<1>2. \A m \in Members : Hashed(doc, m, Text) \in Values
  BY FormTypes, TypesAre, ValuesAssumption DEF Hashed, Members
<1>3. Hashes(doc, Text) = [k EXCEPT !.val = v, !.sealed = s]
  <2> HIDE DEF k
  <2>1. Hashes(doc, Text) =
          [k EXCEPT !.val = [m \in Members |-> IF LiveMember(doc, m)
                                               THEN Hashed(doc, m, Text) ELSE @[m]],
                    !.sealed = {m \in @ : ~LiveMember(doc, m)}]
    BY DEF Hashes, k
  <2> QED BY <1>1, <2>1 DEF Scans
<1> HIDE DEF k
<1>4. v \in [Members -> Values \union {None}] /\ s \in SUBSET Members
  BY <1>1, <1>2 DEF Scans
<1>5. \A m \in Members : IF LiveMember(doc, m)
                         THEN v[m] = Hashed(doc, m, Text) /\ m \notin s
                         ELSE v[m] = k.val[m] /\ (m \in s <=> m \in k.sealed)
  OBVIOUS
<1> HIDE DEF v, s
<1> DEFINE c == [k EXCEPT !.val = v, !.sealed = s]
<1>6. /\ c \in Scans /\ c.val = v /\ c.sealed = s /\ c.seal = k.seal
      /\ c.images = k.images
  BY <1>1, <1>4 DEF Scans
<1>7. c.extra = k.extra
  BY <1>1 DEF Scans
<1>8. c # None
  BY <1>6, DocumentsAssumption
<1> HIDE DEF c
<1>9. Hashes(doc, Text) = c
  BY <1>3 DEF c
<1> QED BY <1>5, <1>6, <1>7, <1>8, <1>9 DEF k

LEMMA ManifestFits ==
  Inv => Fits(disk, file, ManifestView(doc), ManifestSeen(doc), ManifestCurrent(doc, ghost))
<1> SUFFICES ASSUME Inv
             PROVE  Fits(disk, file, ManifestView(doc), ManifestSeen(doc),
                         ManifestCurrent(doc, ghost))
  OBVIOUS
<1>1. CASE doc.manifest = None
  BY <1>1 DEF Inv, ManifestView, ManifestSeen, ManifestCurrent
<1>2. CASE doc.manifest # None
  <2> DEFINE c  == Hashes(doc, Text)
             k  == IF "hashes" \in doc.fresh THEN doc.cur ELSE Scan(doc)
             fr == doc.fresh \union {"hashes"}
             a  == [ed.at EXCEPT !["hashes"] = ed.pos]
             s  == [ed.seen EXCEPT !["hashes"] = IF HashesText(doc) THEN Text
                                                 ELSE ed.seen["hashes"]]
             l  == IF HashesText(doc) THEN ghost.lost \ {"hashes"} ELSE ghost.lost
             st == IF "hashes" \in doc.fresh THEN ghost.stale ELSE ghost.stale \ {"hashes"}
             d2 == ManifestView(doc)
             e2 == ManifestSeen(doc)
             g2 == ManifestCurrent(doc, ghost)
  <2>1. d2 = [doc EXCEPT !.fresh = fr, !.cur = c]
    BY <1>2, TypesAre DEF ManifestView, Computed, Engines
  <2>2. e2 = [ed EXCEPT !.at = a, !.formsSeen = TRUE, !.seen = s]
    BY <1>2, TypesAre DEF ManifestSeen, Windows
  <2>3. g2 = [ghost EXCEPT !.lost = l, !.stale = st]
    BY <1>2, TypesAre DEF ManifestCurrent, Ghosts
  <2>4. /\ c \in Scans /\ c # None
        /\ c.seal = k.seal /\ c.images = k.images /\ c.extra = k.extra
        /\ \A m \in Members : IF LiveMember(doc, m)
                              THEN /\ c.val[m] = Hashed(doc, m, Text) /\ m \notin c.sealed
                              ELSE c.val[m] = k.val[m] /\ (m \in c.sealed <=> m \in k.sealed)
    BY <1>2, LiveIs
  <2>5. "hashes" \notin doc.fresh =>
          /\ k.val = disk.val /\ k.sealed = disk.sealed /\ k.seal = disk.seal
          /\ k.images = disk.images
          /\ k.extra = \E m \in Members : disk.val[m] # None /\ doc.manifest.val[m] = None
    BY DEF Scan
  <2>6. "hashes" \in doc.fresh => k = doc.cur
    OBVIOUS
  <2> HIDE DEF c, k
  <2>7. fr \in SUBSET Caches /\ "hashes" \in fr
    BY TypesAre DEF Engines, Caches
  <2>8. /\ a \in [Watchers -> 0..Never]
        /\ \A w \in Watchers : a[w] = IF w = "hashes" THEN ed.pos ELSE ed.at[w]
    <3>1. ed.pos \in 0..Never
      BY TypesAre, DocumentBounds DEF Never
    <3> QED BY <3>1, TypesAre DEF Windows, Watchers
  <2>9. /\ s \in [Watchers -> Values \union {None}]
        /\ \A w \in Watchers : s[w] = IF w = "hashes" /\ HashesText(doc) THEN Text
                                      ELSE ed.seen[w]
    BY TypesAre DEF Windows, Watchers
  <2>10. l \in SUBSET Watchers /\ ghost.lost \ {"hashes"} \subseteq l /\ l \subseteq ghost.lost
         /\ (~HashesText(doc) => l = ghost.lost)
         /\ st \in SUBSET Caches
         /\ ("hashes" \in doc.fresh => st = ghost.stale)
         /\ ("hashes" \notin doc.fresh => st = ghost.stale \ {"hashes"})
    BY TypesAre DEF Ghosts
  <2> HIDE DEF fr, a, s, l, st
  <2>11. /\ d2 \in Engines /\ d2.mode = doc.mode /\ d2.policy = doc.policy
         /\ d2.form = doc.form /\ d2.write = doc.write /\ d2.manifest = doc.manifest
         /\ d2.cur = c /\ d2.fresh = fr /\ d2.verify = doc.verify
    BY <2>1, <2>4, <2>7, TypesAre DEF Engines
  <2>12. /\ e2 \in Windows /\ e2.hist = ed.hist /\ e2.pos = ed.pos /\ e2.at = a
         /\ e2.seen = s /\ e2.forms = ed.forms /\ e2.fpos = ed.fpos
    BY <2>2, <2>8, <2>9, TypesAre DEF Windows
  <2>13. e2.dirty = ed.dirty /\ e2.formsSeen = TRUE
    BY <2>2, TypesAre DEF Windows
  <2>14. /\ g2 \in Ghosts /\ g2.faults = ghost.faults /\ g2.lost = l /\ g2.stale = st
    BY <2>3, <2>10, TypesAre DEF Ghosts
  <2>15. g2.unmarked = ghost.unmarked /\ g2.unnoticed = ghost.unnoticed
    BY <2>3, TypesAre DEF Ghosts
  <2> HIDE DEF d2, e2, g2
  <2>16. Fits(disk, file, doc, ed, ghost)
    BY DEF Inv
  <2>17. Typed(disk, file, d2, e2, g2)
    BY <2>4, <2>7, <2>11, <2>12, <2>14, <2>16 DEF Fits, Typed
  <2>18. InStep(disk, d2, g2)
    BY <2>10, <2>11, <2>14, <2>15, <2>16 DEF Fits, InStep, fr
  <2>19. Tracked(e2, g2)
    <3> SUFFICES ASSUME NEW w \in Watchers \ l, a[w] # Never
                 PROVE  a[w] + 1 \in 1..Len(ed.hist) /\ s[w] = ed.hist[a[w] + 1]
      BY <2>12, <2>14 DEF Tracked
    <3>1. CASE w = "hashes" /\ HashesText(doc)
      BY <2>8, <2>9, <3>1, TypesAre DEF Text
    <3>2. CASE ~(w = "hashes" /\ HashesText(doc))
      <4>1. w \notin ghost.lost /\ s[w] = ed.seen[w]
        BY <2>9, <2>10, <3>2
      <4>2. a[w] = ed.at[w]
        BY <2>8, <3>2 DEF HashesText
      <4> QED BY <2>16, <4>1, <4>2 DEF Fits, Tracked
    <3> QED BY <3>1, <3>2
  <2>20. TextKept(IF d2.mode = "archive" THEN file ELSE disk, d2, e2, g2)
    <3>1. s["saved"] = ed.seen["saved"] /\ ("saved" \notin l => "saved" \notin ghost.lost)
      BY <2>9, <2>10 DEF Watchers
    <3> QED BY <2>11, <2>12, <2>14, <2>15, <2>16, <3>1 DEF Fits, TextKept
  <2>21. FormsKept(disk, d2, e2, g2)
    BY <2>11, <2>13, <2>15, <2>16 DEF Fits, FormsKept
  <2>22. HashesFit(disk, d2, e2, g2)
    <3> SUFFICES ASSUME ~ghost.unnoticed
                 PROVE  HashesFit(disk, d2, e2, g2)
      BY <2>15 DEF HashesFit
    <3> DEFINE old == "hashes" \in doc.fresh
    <3>1. old =>
            /\ doc.cur.seal = disk.seal /\ doc.cur.images = disk.images
            /\ doc.cur.extra =
                 \E m \in Members : disk.val[m] # None /\ doc.manifest.val[m] = None
            /\ IF Content \in doc.policy THEN AsOnDisk(disk, doc, Content)
               ELSE ed.seen["hashes"] # None /\ Overlaid(doc, Content, ed.seen["hashes"])
            /\ \A m \in Forms \ doc.write : AsOnDisk(disk, doc, m)
            /\ ed.formsSeen => \A m \in doc.write : Overlaid(doc, m, doc.form[m])
      <4>1. HashesFit(disk, doc, ed, ghost)
        BY <2>16 DEF Fits
      <4> QED BY <4>1 DEF HashesFit
    <3>2. /\ c.seal = disk.seal /\ c.images = disk.images
          /\ c.extra = \E m \in Members : disk.val[m] # None /\ doc.manifest.val[m] = None
      BY <2>4, <2>5, <2>6, <3>1
    <3>3. \A m \in Members : ~LiveMember(doc, m) =>
            c.val[m] = k.val[m] /\ (m \in c.sealed <=> m \in k.sealed)
      BY <2>4
    <3>4. \A m \in Members : LiveMember(doc, m) =>
            c.val[m] = Hashed(doc, m, Text) /\ m \notin c.sealed
      BY <2>4
    <3>5. Content \in Members /\ Forms \subseteq Members /\ Content \notin Forms
      BY DEF Members, Forms, Content
    <3>6. ASSUME Content \in doc.policy
          PROVE  AsOnDisk(disk, d2, Content)
      <4>1. ~LiveMember(doc, Content)
        BY <3>6 DEF LiveMember
      <4>2. k.val[Content] = disk.val[Content] /\ (Content \in k.sealed <=> Content \in disk.sealed)
        BY <2>5, <2>6, <3>1, <3>6 DEF AsOnDisk
      <4> QED BY <2>11, <3>3, <3>5, <3>6, <4>1, <4>2 DEF AsOnDisk
    <3>7. ASSUME Content \notin doc.policy
          PROVE  e2.seen["hashes"] # None /\ Overlaid(d2, Content, e2.seen["hashes"])
      <4>1. CASE HashesText(doc)
        <5>1. LiveMember(doc, Content) /\ s["hashes"] = Text /\ Text # None
          BY <2>9, <3>7, <4>1, TypesAre, ValuesAssumption DEF LiveMember, HashesText, Watchers
        <5> QED BY <2>11, <2>12, <3>4, <3>5, <5>1 DEF Overlaid, Hashed
      <4>2. CASE ~HashesText(doc)
        <5>1. ~LiveMember(doc, Content) /\ s["hashes"] = ed.seen["hashes"] /\ old
          BY <2>9, <4>2 DEF LiveMember, HashesText, Watchers
        <5>2. ed.seen["hashes"] # None /\ Overlaid(doc, Content, ed.seen["hashes"])
          BY <3>1, <3>7, <5>1
        <5>3. k = doc.cur
          BY <2>6, <5>1
        <5> QED BY <2>11, <2>12, <3>3, <3>5, <5>1, <5>2, <5>3 DEF Overlaid
      <4> QED BY <4>1, <4>2
    <3>8. \A m \in Forms \ doc.write : AsOnDisk(disk, d2, m)
      <4> TAKE m \in Forms \ doc.write
      <4>1. ~LiveMember(doc, m) /\ m \in Members
        BY <3>5 DEF LiveMember
      <4>2. k.val[m] = disk.val[m] /\ (m \in k.sealed <=> m \in disk.sealed)
        BY <2>5, <2>6, <3>1 DEF AsOnDisk
      <4> QED BY <2>11, <3>3, <4>1, <4>2 DEF AsOnDisk
    <3>9. \A m \in doc.write : Overlaid(d2, m, doc.form[m])
      <4> TAKE m \in doc.write
      <4>1. m \in Forms /\ m \in Members /\ m # Content
        BY <3>5, FormTypes
      <4>2. CASE LiveMember(doc, m)
        BY <2>11, <3>4, <4>1, <4>2 DEF Overlaid, Hashed
      <4>3. CASE ~LiveMember(doc, m)
        <5>1. old /\ ed.formsSeen
          BY <4>1, <4>3 DEF LiveMember
        <5>2. Overlaid(doc, m, doc.form[m]) /\ k = doc.cur
          BY <2>6, <3>1, <5>1
        <5> QED BY <2>11, <3>3, <4>1, <4>3, <5>2 DEF Overlaid
      <4> QED BY <4>2, <4>3
    <3>10. IF Content \in doc.policy THEN AsOnDisk(disk, d2, Content)
           ELSE e2.seen["hashes"] # None /\ Overlaid(d2, Content, e2.seen["hashes"])
      BY <3>6, <3>7
    <3> QED BY <1>2, <2>11, <3>2, <3>8, <3>9, <3>10 DEF HashesFit
  <2>23. Upheld(disk, d2, g2)
    BY <2>11, <2>14, <2>15, <2>16 DEF Fits, Upheld
  <2>24. Fits(disk, file, d2, e2, g2)
    BY <2>17, <2>18, <2>19, <2>20, <2>21, <2>22, <2>23 DEF Fits
  <2> QED BY <2>24 DEF d2, e2, g2
<1> QED BY <1>1, <1>2

LEMMA PanelsInv == Inv /\ Panels => Inv'
<1> SUFFICES ASSUME Inv, Panels PROVE Inv'
  OBVIOUS
<1>0. Fits(disk, file, doc, ed, ghost)
  BY DEF Inv
<1>1. CASE ManifestPanel
  BY <1>1, ManifestFits DEF ManifestPanel, Inv
<1>2. CASE TrustPanel
  <2> DEFINE d == ManifestView(doc)
             e == ManifestSeen(doc)
             g == ManifestCurrent(doc, ghost)
  <2>1. Fits(disk, file, d, e, g)
    BY ManifestFits
  <2>2. doc' = Computed(d, "sigs") /\ ed' = e /\ disk' = disk /\ file' = file
        /\ ghost' = IF "sigs" \in doc.fresh THEN g ELSE Current(g, "sigs")
    BY <1>2 DEF TrustPanel, RefreshSignatures
  <2>3. "sigs" \in doc.fresh => "sigs" \in d.fresh
    <3>1. doc.manifest # None => d.fresh = doc.fresh \union {"hashes"}
      BY TypesAre DEF ManifestView, Computed, Engines
    <3>2. doc.manifest = None => d = doc
      BY DEF ManifestView
    <3> QED BY <3>1, <3>2
  <2> HIDE DEF d, e, g
  <2>4. CASE "sigs" \notin doc.fresh
    <3>1. "sigs" \in Caches \ {"hashes"}
      BY DEF Caches
    <3>2. Fits(disk, file, Computed(d, "sigs"), e, Current(g, "sigs"))
      BY <2>1, <3>1, ComputedFits
    <3> QED BY <2>2, <2>4, <3>2 DEF Inv
  <2>5. CASE "sigs" \in doc.fresh
    <3>1. d \in Engines
      BY <2>1 DEF Fits, Typed
    <3>2. Computed(d, "sigs") = d
      <4>1. d.fresh \union {"sigs"} = d.fresh
        BY <2>3, <2>5
      <4>2. [d EXCEPT !.fresh = d.fresh] = d
        BY <3>1 DEF Engines
      <4>3. Computed(d, "sigs") = [d EXCEPT !.fresh = d.fresh \union {"sigs"}]
        BY <3>1 DEF Computed, Engines
      <4> QED BY <4>1, <4>2, <4>3
    <3> QED BY <2>1, <2>2, <2>5, <3>2 DEF Inv
  <2> QED BY <2>4, <2>5
<1>3. CASE AuditPanel
  <2>1. "audit" \in Caches \ {"hashes"}
    BY DEF Caches
  <2> QED BY <1>0, <1>3, <2>1, ComputedFits DEF AuditPanel, RefreshAudit, Inv
<1>4. CASE ConformancePanel
  <2>1. "conformance" \in Caches \ {"hashes"}
    BY DEF Caches
  <2> QED BY <1>0, <1>4, <2>1, ComputedFits DEF ConformancePanel, RefreshConformance, Inv
<1>5. ASSUME NEW w \in {"outline", "diff"}
      PROVE  Fits(disk, file, doc, Watched(w), [ghost EXCEPT !.lost = @ \ {w}])
  <2> DEFINE a == [ed.at EXCEPT ![w] = ed.pos]
             s == [ed.seen EXCEPT ![w] = Text]
             e == [ed EXCEPT !.at = a, !.seen = s]
             l == ghost.lost \ {w}
             g == [ghost EXCEPT !.lost = l]
  <2>1. Watched(w) = e /\ [ghost EXCEPT !.lost = @ \ {w}] = g
    BY TypesAre DEF Watched, Windows, Ghosts
  <2>2. a \in [Watchers -> 0..Never] /\ s \in [Watchers -> Values \union {None}]
    <3>1. ed.pos \in 0..Never
      BY TypesAre, DocumentBounds DEF Never
    <3> QED BY <3>1, TypesAre DEF Windows
  <2>3. /\ \A v \in Watchers : a[v] = IF v = w THEN ed.pos ELSE ed.at[v]
        /\ \A v \in Watchers : s[v] = IF v = w THEN Text ELSE ed.seen[v]
    BY TypesAre DEF Windows, Watchers
  <2>4. l \in SUBSET Watchers
    BY TypesAre DEF Ghosts
  <2>5. \A v \in Watchers \ l : v # w => v \notin ghost.lost
    OBVIOUS
  <2>6. "saved" \in ghost.lost => "saved" \in l
    OBVIOUS
  <2>7. s["saved"] = ed.seen["saved"] /\ s["hashes"] = ed.seen["hashes"]
    BY <2>3 DEF Watchers
  <2> HIDE DEF a, s, l
  <2>8. /\ e \in Windows /\ e.hist = ed.hist /\ e.pos = ed.pos /\ e.at = a /\ e.seen = s
        /\ e.dirty = ed.dirty /\ e.formsSeen = ed.formsSeen
        /\ e.forms = ed.forms /\ e.fpos = ed.fpos
    BY <2>2, TypesAre DEF Windows
  <2>9. /\ g \in Ghosts /\ g.lost = l /\ g.faults = ghost.faults /\ g.stale = ghost.stale
        /\ g.unmarked = ghost.unmarked /\ g.unnoticed = ghost.unnoticed
    BY <2>4, TypesAre DEF Ghosts
  <2> HIDE DEF e, g
  <2>10. Tracked(e, g)
    <3> SUFFICES ASSUME NEW v \in Watchers \ l, a[v] # Never
                 PROVE  a[v] + 1 \in 1..Len(ed.hist) /\ s[v] = ed.hist[a[v] + 1]
      BY <2>8, <2>9 DEF Tracked
    <3>1. CASE v = w
      BY <2>3, <3>1, TypesAre DEF Text
    <3>2. CASE v # w
      BY <1>0, <2>3, <2>5, <3>2 DEF Fits, Tracked
    <3> QED BY <3>1, <3>2
  <2>11. /\ Len(e.hist) <= MaxEdits + 1 /\ e.pos + 1 \in 1..Len(e.hist)
         /\ e.fpos \in 0..Len(e.forms)
         /\ e.seen["saved"] = ed.seen["saved"] /\ e.seen["hashes"] = ed.seen["hashes"]
    BY <2>7, <2>8, TypesAre
  <2>12. Fits(disk, file, doc, e, g)
    BY <1>0, <2>6, <2>8, <2>9, <2>10, <2>11, WindowFits
  <2> QED BY <2>1, <2>12
<1>6. CASE StructurePanel
  <2>1. /\ disk' = disk /\ file' = file /\ doc' = doc /\ ed' = Watched("outline")
        /\ ghost' = [ghost EXCEPT !.lost = @ \ {"outline"}]
    BY <1>6 DEF StructurePanel
  <2> QED BY <1>5, <2>1 DEF Inv
<1>7. CASE DiffPanel
  <2> DEFINE g == [ghost EXCEPT !.lost = @ \ {"diff"}]
  <2>1. Fits(disk, file, doc, Watched("diff"), g)
    BY <1>5
  <2>2. "diff" \in Caches \ {"hashes"}
    BY DEF Caches
  <2>3. Current(g, "diff") = [Current(ghost, "diff") EXCEPT !.lost = @ \ {"diff"}]
    BY TypesAre DEF Current, Ghosts
  <2> HIDE DEF g
  <2>4. Fits(disk, file, Computed(doc, "diff"), Watched("diff"), Current(g, "diff"))
    BY <2>1, <2>2, ComputedFits
  <2>5. /\ disk' = disk /\ file' = file /\ doc' = Computed(doc, "diff")
        /\ ed' = Watched("diff") /\ ghost' = Current(g, "diff")
    BY <1>7, <2>3 DEF DiffPanel
  <2> QED BY <2>4, <2>5 DEF Inv
<1> QED BY <1>1, <1>2, <1>3, <1>4, <1>6, <1>7 DEF Panels

LEMMA EditingInv == Inv /\ Editing => Inv'
BY TypeInv, InsertImageInv, UndoRedoInv, EditFormInv, UndoFormInv, RedoFormInv DEF Editing

LEMMA JobsInv == Inv /\ Jobs => Inv'
BY SaveInv, SaveAsInv, RebuildInv, SignInv, RemoveSignatureInv, VerifyInv, EncryptInv,
   DecryptInv, AuditInv, ExportInv DEF Jobs

LEMMA NextInv == Inv /\ [Next]_vars => Inv'
<1>1. CASE UNCHANGED vars
  BY <1>1 DEF vars, Inv
<1>2. Inv /\ Next => Inv'
  BY EditingInv, JobsInv, PanelsInv DEF Next
<1> QED BY <1>1, <1>2

-----------------------------------------------------------------------------
(* The documents the window starts from.                                   *)

LEMMA StartIs ==
  ASSUME NEW o \in {InitBlank} \union {OpenArchive(x) : x \in Archives}
             \union {OpenFolder(x) : x \in Folders} \union {Imported(i) : i \in Imports}
  PROVE  /\ o.disk \in Containers /\ o.mode \in {"untitled", "folder", "archive"}
         /\ o.disk.manifest # None /\ Intact => Matches(o.disk)
<1>1. Nothing \in [val : [Members -> Values \union {None}], sealed : {{}}, seal : {0},
                   images : 0..MaxImages, log : Nat,
                   manifest : Listings \union {None}, sig : Listings \union {None}]
  BY DocumentBounds DEF Nothing
<1>2. CASE o = InitBlank
  <2> DEFINE v == [Nothing.val EXCEPT ![Content] = Blank]
             z == [Nothing EXCEPT !.val = v]
  <2>1. v \in [Members -> Values \union {None}]
    BY <1>1, ValuesAssumption DEF Members
  <2>2. o = [mode |-> "untitled", disk |-> Rebuilt(z)]
    BY <1>1, <1>2 DEF InitBlank
  <2> HIDE DEF v
  <2>3. z \in Containers
    BY <1>1, <2>1, DocumentBounds DEF Containers, WellFormed
  <2> HIDE DEF z
  <2> QED BY <2>2, <2>3, RebuiltIs
<1>3. ASSUME NEW x \in Archives \union Folders,
             o = OpenArchive(x) \/ o = OpenFolder(x)
      PROVE  /\ o.disk \in Containers /\ o.mode \in {"untitled", "folder", "archive"}
             /\ o.disk.manifest # None /\ Intact => Matches(o.disk)
  <2>1. o.disk = x /\ o.mode \in {"folder", "archive"} /\ x \in Containers
    BY <1>3, DocumentsAssumption DEF OpenArchive, OpenFolder
  <2>2. x.manifest # None /\ Intact => x.manifest = Listing(x)
    BY DEF Intact
  <2>3. x.images \in Nat
    BY <2>1, DocumentBounds DEF Containers
  <2>4. x.manifest = Listing(x) => Matches(x)
    BY <2>3 DEF Matches, Listing
  <2> QED BY <2>1, <2>2, <2>4
<1>4. ASSUME NEW i \in Imports, o = Imported(i)
      PROVE  /\ o.disk \in Containers /\ o.mode \in {"untitled", "folder", "archive"}
             /\ Matches(o.disk)
  <2> DEFINE c == Canonical[i.text]
             v == [[[Nothing.val EXCEPT ![Content] = c]
                      EXCEPT !["metadata.yaml"] = i.meta]
                      EXCEPT !["schema.yaml"] = i.schema]
             n == i.images
             z == [Nothing EXCEPT !.val = v, !.images = n]
             y == Rebuilt(z)
  <2>1. /\ i.text \in Values /\ i.meta \in Values /\ i.schema \in Values \union {None}
        /\ n \in 0..MaxImages
    BY DocumentsAssumption
  <2>2. c \in Values
    BY <2>1, ValuesAssumption
  <2>3. o.mode = "untitled" /\ o.disk = [y EXCEPT !.log = 1]
    <3> HIDE DEF c, n
    <3>1. Imported(i) =
            [mode |-> "untitled",
             disk |-> [Rebuilt([Nothing EXCEPT !.val[Content] = c,
                                               !.val["metadata.yaml"] = i.meta,
                                               !.val["schema.yaml"] = i.schema,
                                               !.images = n])
                       EXCEPT !.log = 1]]
      BY DEF Imported, c, n
    <3>2. [Nothing EXCEPT !.val[Content] = c, !.val["metadata.yaml"] = i.meta,
                          !.val["schema.yaml"] = i.schema, !.images = n] = z
      BY <1>1
    <3> HIDE DEF z
    <3> QED BY <1>4, <3>1, <3>2
  <2> HIDE DEF c, n
  <2>4. v \in [Members -> Values \union {None}]
    BY <1>1, <2>1, <2>2 DEF Members
  <2> HIDE DEF v
  <2>5. z \in Containers
    <3>1. z.sealed = {} /\ z.seal = 0
      BY <1>1
    <3> DEFINE S == [val : [Members -> Values \union {None}], sealed : SUBSET Members,
                     seal : 0..MaxSeals, images : 0..MaxImages, log : Nat,
                     manifest : Listings \union {None}, sig : Listings \union {None}]
    <3>2. Nothing \in S
      BY NothingIs DEF Containers
    <3>3. z \in S
      BY <2>1, <2>4, <3>2
    <3> HIDE DEF z
    <3> QED BY <3>1, <3>3 DEF Containers, WellFormed
  <2> HIDE DEF z
  <2>6. y \in Containers /\ Matches(y)
    BY <2>5, RebuiltIs
  <2> HIDE DEF y
  <2>7. o.disk \in Containers /\ Matches(o.disk)
    BY <2>3, <2>6, BesideIs
  <2> QED BY <2>3, <2>7
<1> QED BY <1>2, <1>3, <1>4

LEMMA InitInv == Init => Inv
<1> SUFFICES ASSUME Init PROVE Inv
  OBVIOUS
<1> PICK o \in {InitBlank} \union {OpenArchive(x) : x \in Archives}
             \union {OpenFolder(x) : x \in Folders} \union {Imported(i) : i \in Imports} :
       /\ disk = o.disk
       /\ file = IF o.mode = "archive" THEN o.disk ELSE None
       /\ doc = Loaded(o.mode, o.disk)
       /\ ed = Synced(NewWindow, LoadedText(o.disk))
  BY DEF Init
<1> DEFINE text == LoadedText(disk)
           mode == o.mode
<1>1. /\ disk \in Containers /\ mode \in {"untitled", "folder", "archive"}
      /\ disk.manifest # None /\ Intact => Matches(disk)
  BY StartIs
<1>2. /\ file = (IF mode = "archive" THEN disk ELSE None)
      /\ doc = Loaded(mode, disk) /\ ed = Synced(NewWindow, text)
  OBVIOUS
<1> HIDE DEF mode
<1>3. /\ doc \in Engines /\ doc.mode = mode /\ doc.policy = disk.sealed
      /\ doc.manifest = disk.manifest /\ doc.cur = None /\ doc.fresh = {}
      /\ doc.verify = "none"
      /\ \A m \in doc.write : disk.val[m] # None /\ doc.form[m] = disk.val[m]
  BY <1>1, <1>2, LoadedIs
<1>4. /\ text \in Values
      /\ Content \notin disk.sealed /\ disk.val[Content] # None => text = disk.val[Content]
  BY <1>1, LoadedTextIs
<1> HIDE DEF text
<1>5. /\ ed \in Windows /\ ed.hist = <<text>> /\ Len(ed.hist) = 1 /\ ed.pos = 0
      /\ ed.forms = << >> /\ ed.fpos = 0
      /\ ed.at = [w \in Watchers |-> IF w = "saved" THEN 0 ELSE Never]
      /\ ed.seen = [w \in Watchers |-> IF w = "saved" THEN text ELSE None]
  <2>1. OnText(Synced(NewWindow, text), text)
    BY <1>4, SyncedIs
  <2>2. OnText(ed, text)
    BY <1>2, <2>1
  <2> QED BY <2>2 DEF OnText
<1>6. /\ ghost \in Ghosts /\ ghost.faults = 0 /\ ghost.lost = {} /\ ghost.stale = {}
      /\ ghost.unnoticed = FALSE /\ ghost.unmarked = FALSE
  <2>1. ghost = [faults |-> 0, seals |-> 0, stale |-> {}, unnoticed |-> FALSE,
                 lost |-> {}, unmarked |-> FALSE]
    BY DEF Init
  <2>2. 0 \in 0..MaxSeals
    BY DocumentBounds
  <2>3. ghost \in Ghosts
    BY <2>1, <2>2 DEF Ghosts
  <2>4. ghost.faults = 0 /\ ghost.lost = {} /\ ghost.stale = {}
    BY <2>1
  <2>5. ghost.unnoticed = FALSE
    BY <2>1
  <2>6. ghost.unmarked = FALSE
    BY <2>1
  <2> QED BY <2>3, <2>4, <2>5, <2>6
<1>7. Typed(disk, file, doc, ed, ghost)
  <2>1. Len(ed.hist) <= MaxEdits + 1 /\ ed.pos + 1 \in 1..Len(ed.hist)
    BY <1>5, DocumentBounds
  <2>2. ed.fpos \in 0..Len(ed.forms)
    BY <1>5
  <2>3. file \in Containers \union {None}
    BY <1>1, <1>2
  <2> QED BY <1>1, <1>3, <1>5, <1>6, <2>1, <2>2, <2>3 DEF Typed
<1>8. InStep(disk, doc, ghost)
  BY <1>3 DEF InStep
<1>9. Tracked(ed, ghost)
  BY <1>5, DocumentBounds DEF Tracked, Never
<1>10. TextKept(IF doc.mode = "archive" THEN file ELSE disk, doc, ed, ghost)
  <2>1. ed.seen["saved"] = text
    BY <1>5 DEF Watchers
  <2> QED BY <1>2, <1>3, <1>4, <2>1 DEF TextKept
<1>11. FormsKept(disk, doc, ed, ghost)
  BY <1>3 DEF FormsKept
<1>12. HashesFit(disk, doc, ed, ghost)
  BY <1>3 DEF HashesFit
<1>13. Upheld(disk, doc, ghost)
  BY <1>1, <1>3, <1>6 DEF Upheld
<1> QED BY <1>7, <1>8, <1>9, <1>10, <1>11, <1>12, <1>13 DEF Fits, Inv

-----------------------------------------------------------------------------
(* The theorems.                                                           *)

\* What the engine and the window keep about the working copy, in every state.
THEOREM Invariance == Spec => []Inv
<1>1. Init => Inv
  BY InitInv
<1>2. Inv /\ [Next]_vars => Inv'
  BY NextInv
<1> QED BY <1>1, <1>2, PTL DEF Spec

\* The variables have their types (apps/studio/core/studio_core.hpp, main.cpp).
THEOREM TypeCorrect == Spec => []TypeOK
<1>1. Inv => TypeOK
  BY DEF Inv, Fits, Typed, TypeOK
<1> QED BY <1>1, Invariance, PTL

\* disk_rev keeps its promise: whatever a panel takes for current is current.
THEOREM ViewsCorrect == Spec => []ViewsAreCurrent
<1>1. Inv => ViewsAreCurrent
  BY DEF Inv, Fits, InStep, ViewsAreCurrent
<1> QED BY <1>1, Invariance, PTL

\* An undo index that was computed at tells the text, until it is typed over.
THEOREM WatchedCorrect == Spec => []WatchedTextIsCurrent
<1>1. Inv => WatchedTextIsCurrent
  <2> SUFFICES ASSUME Inv, NEW w \in Watchers, ed.at[w] = ed.pos, w \notin ghost.lost
               PROVE  ed.seen[w] = Text
    BY DEF WatchedTextIsCurrent
  <2>1. ed.at[w] # Never
    BY TypesAre, DocumentBounds DEF Never
  <2> QED BY <2>1 DEF Inv, Fits, Tracked, Text
<1> QED BY <1>1, Invariance, PTL

\* A document without the star is saved.
THEOREM CleanCorrect == Spec => []CleanIsSaved
<1>1. Inv => CleanIsSaved
  <2> SUFFICES ASSUME Inv, ~Dirty, "saved" \notin ghost.lost, ~ghost.unmarked
               PROVE  /\ Content \notin doc.policy /\ Baseline # None
                           /\ Baseline.val[Content] # None =>
                           Canonical[Baseline.val[Content]] = Canonical[Text]
                      /\ \A m \in doc.write \ doc.policy :
                           /\ disk.val[m] # None
                           /\ Canonical[disk.val[m]] = Canonical[doc.form[m]]
    BY DEF CleanIsSaved
  <2>1. ed.pos = ed.at["saved"] /\ ~ed.dirty
    BY DEF Dirty
  <2>2. ed.seen["saved"] = Text
    <3>1. "saved" \in Watchers /\ ed.at["saved"] # Never
      BY <2>1, TypesAre, DocumentBounds DEF Never, Watchers
    <3> QED BY <2>1, <3>1 DEF Inv, Fits, Tracked, Text
  <2>3. TextKept(Baseline, doc, ed, ghost) /\ FormsKept(disk, doc, ed, ghost)
    BY DEF Inv, Fits, Baseline
  <2> QED BY <2>1, <2>2, <2>3 DEF TextKept, FormsKept
<1> QED BY <1>1, Invariance, PTL

\* What a save would leave.
LEMMA LiveListing ==
  ASSUME Inv
  PROVE  /\ \A m \in Members : Live.val[m] = IF m \in Written(doc) THEN Says(doc, Text, m)
                                             ELSE disk.val[m]
         /\ Live.sealed = disk.sealed /\ Live.seal = disk.seal /\ Live.images = disk.images
         /\ Live \in Listings
<1> DEFINE y == WriteMembers(disk, doc, Text, FALSE)
<1>1. y \in Containers /\ WrittenOver(disk, doc, Text, y, Written(doc))
  BY TypesAre, WriteMembersIs
<1>2. Live = Listing(y)
  BY DEF Live
<1> HIDE DEF y
<1>3. /\ Live.val = y.val /\ Live.sealed = y.sealed /\ Live.seal = y.seal
      /\ Live.images = y.images
  BY <1>2 DEF Listing
<1> QED BY <1>1, <1>2, <1>3, ListingIs DEF WrittenOver

\* Two listings are the same when their fields are.
LEMMA SameListing ==
  ASSUME NEW k \in Listings, NEW l \in Listings,
         \A m \in Members : k.val[m] = l.val[m],
         \A m \in Members : m \in k.sealed <=> m \in l.sealed,
         k.seal = l.seal, k.images = l.images
  PROVE  k = l
<1>1. k.val = l.val
  BY DEF Listings
<1>2. k.sealed = l.sealed
  BY DEF Listings
<1> QED BY <1>1, <1>2 DEF Listings

\* The hashes of an up-to-date Trust panel are those of what a save would leave,
\* except for a form about a sealed member.
LEMMA ShownHashes ==
  ASSUME Inv, TrustShown, ~ghost.unnoticed, "hashes" \notin ghost.lost
  PROVE  /\ doc.cur.seal = disk.seal /\ doc.cur.images = disk.images
         /\ doc.cur.extra =
              \E m \in Members : disk.val[m] # None /\ doc.manifest.val[m] = None
         /\ \A m \in Written(doc) : Overlaid(doc, m, IF m = Content THEN Text ELSE doc.form[m])
         /\ \A m \in Members \ (Written(doc) \union doc.write) : AsOnDisk(disk, doc, m)
         /\ \A m \in doc.write : m \notin doc.cur.sealed
<1>1. /\ doc.manifest # None /\ "hashes" \in doc.fresh
      /\ ed.at["hashes"] = ed.pos /\ ed.formsSeen
  BY DEF TrustShown
<1>2. ed.seen["hashes"] = Text
  <2>1. "hashes" \in Watchers /\ ed.at["hashes"] # Never
    BY <1>1, TypesAre, DocumentBounds DEF Never, Watchers
  <2> QED BY <1>1, <2>1 DEF Inv, Fits, Tracked, Text
<1>3. /\ doc.cur.seal = disk.seal /\ doc.cur.images = disk.images
      /\ doc.cur.extra =
           \E m \in Members : disk.val[m] # None /\ doc.manifest.val[m] = None
      /\ IF Content \in doc.policy THEN AsOnDisk(disk, doc, Content)
         ELSE ed.seen["hashes"] # None /\ Overlaid(doc, Content, ed.seen["hashes"])
      /\ \A m \in Forms \ doc.write : AsOnDisk(disk, doc, m)
      /\ \A m \in doc.write : Overlaid(doc, m, doc.form[m])
  BY <1>1 DEF Inv, Fits, HashesFit
<1>4. \A m \in doc.write : m \in Forms /\ m # Content
  BY FormTypes DEF Forms, Content
<1>5. \A m \in Written(doc) : Overlaid(doc, m, IF m = Content THEN Text ELSE doc.form[m])
  <2> TAKE m \in Written(doc)
  <2>1. m \notin doc.policy /\ (m = Content \/ m \in doc.write)
    BY DEF Written
  <2>2. CASE m = Content
    BY <1>2, <1>3, <2>1, <2>2
  <2>3. CASE m # Content
    BY <1>3, <2>1, <2>3
  <2> QED BY <2>2, <2>3
<1>6. \A m \in Members \ (Written(doc) \union doc.write) : AsOnDisk(disk, doc, m)
  <2> TAKE m \in Members \ (Written(doc) \union doc.write)
  <2>1. CASE m = Content
    <3>1. Content \in doc.policy
      BY <2>1 DEF Written
    <3> QED BY <1>3, <2>1, <3>1
  <2>2. CASE m # Content
    BY <1>3, <2>2 DEF Members
  <2> QED BY <2>1, <2>2
<1>7. \A m \in doc.write : m \notin doc.cur.sealed
  BY <1>3 DEF Overlaid
<1> QED BY <1>3, <1>5, <1>6, <1>7

LEMMA GreenHolds == Inv => GreenIsCovered
<1> SUFFICES ASSUME Inv, Green, ~ghost.unnoticed, "hashes" \notin ghost.lost,
                    \A m \in Written(doc) \union doc.write : doc.manifest.val[m] # None,
                    doc.write \intersect doc.policy \subseteq doc.manifest.sealed
             PROVE  disk.sig = Live
  BY DEF GreenIsCovered
<1> DEFINE M == doc.manifest
           c == doc.cur
<1>1. /\ TrustShown /\ disk.sig = M /\ M \in Listings /\ ~Drift
      /\ doc.policy = disk.sealed
  BY TypesAre DEF Green, SigValid, Engines, TrustShown
<1>2. /\ c.seal = disk.seal /\ c.images = disk.images
      /\ c.extra = \E m \in Members : disk.val[m] # None /\ M.val[m] = None
      /\ \A m \in Written(doc) : Overlaid(doc, m, IF m = Content THEN Text ELSE doc.form[m])
      /\ \A m \in Members \ (Written(doc) \union doc.write) : AsOnDisk(disk, doc, m)
      /\ \A m \in doc.write : m \notin c.sealed
  BY <1>1, ShownHashes
<1>3. /\ ~c.extra /\ c.images = M.images
      /\ \A m \in Members : M.val[m] # None =>
           /\ c.val[m] = M.val[m] /\ (m \in c.sealed <=> m \in M.sealed)
           /\ m \in c.sealed => c.seal = M.seal
  BY <1>1 DEF Drift
<1>4. \A m \in Members : M.val[m] = None => disk.val[m] = None
  BY <1>2, <1>3
<1>5. /\ \A m \in M.sealed : m \in Members /\ M.val[m] # None
      /\ M.sealed = {} => M.seal = 0
  BY <1>1 DEF Listings, WellFormed
<1>6. /\ \A m \in disk.sealed : m \in Members /\ disk.val[m] # None
      /\ disk.sealed = {} => disk.seal = 0
  BY TypesAre DEF Containers, WellFormed
<1>7. Written(doc) \subseteq Members /\ Written(doc) \intersect disk.sealed = {}
      /\ doc.write \ disk.sealed \subseteq Written(doc)
  BY <1>1, TypesAre, WrittenIs
<1>8. \A m \in doc.write : m \notin disk.sealed
  <2> SUFFICES ASSUME NEW m \in doc.write, m \in disk.sealed PROVE FALSE
    OBVIOUS
  <2>1. m \in M.sealed /\ m \notin c.sealed /\ M.val[m] # None /\ m \in Members
    BY <1>1, <1>2, <1>5
  <2> QED BY <1>3, <2>1
<1>9. ASSUME NEW m \in Members
      PROVE  M.val[m] = Live.val[m] /\ (m \in M.sealed <=> m \in disk.sealed)
             /\ (m \in M.sealed => m \in c.sealed)
  <2>1. Live.val[m] = IF m \in Written(doc) THEN Says(doc, Text, m) ELSE disk.val[m]
    BY LiveListing
  <2>2. CASE m \in Written(doc)
    <3>1. /\ M.val[m] # None /\ m \notin disk.sealed /\ m \notin c.sealed
          /\ c.val[m] = Says(doc, Text, m)
      BY <1>2, <1>7, <2>2 DEF Overlaid, Says
    <3> QED BY <1>3, <2>1, <2>2, <3>1
  <2>3. CASE m \notin Written(doc)
    <3>1. m \notin doc.write
      BY <1>7, <1>8, <2>3
    <3>2. c.val[m] = disk.val[m] /\ (m \in c.sealed <=> m \in disk.sealed)
      BY <1>2, <2>3, <3>1 DEF AsOnDisk
    <3>3. CASE M.val[m] = None
      BY <1>4, <1>5, <1>6, <2>1, <2>3, <3>3
    <3>4. CASE M.val[m] # None
      BY <1>3, <2>1, <2>3, <3>2, <3>4
    <3> QED BY <3>3, <3>4
  <2> QED BY <2>2, <2>3
<1>10. M.seal = disk.seal
  <2>1. CASE M.sealed = {}
    BY <1>5, <1>6, <1>9, <2>1
  <2>2. CASE M.sealed # {}
    BY <1>2, <1>3, <1>5, <1>9, <2>2
  <2> QED BY <2>1, <2>2
<1>11. Live.sealed = disk.sealed /\ Live.seal = disk.seal /\ Live.images = disk.images
       /\ Live \in Listings
  BY LiveListing
<1>12. M = Live
  BY <1>1, <1>2, <1>3, <1>9, <1>10, <1>11, SameListing
<1> QED BY <1>1, <1>12

\* A green signature is over what a save would leave
\* (refresh_signatures, manifest_drift).
THEOREM GreenCorrect == Spec => []GreenIsCovered
BY GreenHolds, Invariance, PTL

LEMMA BrokenHolds == Inv /\ Intact => BrokenIsExplained
<1> SUFFICES ASSUME Inv, Intact, Broken, ghost.faults = 0, Live = Listing(disk),
                    ~(disk.images > doc.manifest.images), "hashes" \notin ghost.lost,
                    doc.write \intersect doc.policy = {}
             PROVE  FALSE
  BY DEF BrokenIsExplained
<1> DEFINE M == doc.manifest
           c == doc.cur
<1>1. TrustShown /\ M # None /\ M \in Listings /\ doc.policy = disk.sealed /\ Drift
      /\ M = disk.manifest
  BY TypesAre DEF Broken, TrustShown, Engines
<1>2. Matches(disk)
  BY <1>1 DEF Inv, Fits, Upheld
<1>3. ~ghost.unnoticed
  BY <1>1 DEF Inv, Fits, Upheld
<1>4. M.val = disk.val /\ M.sealed = disk.sealed /\ M.seal = disk.seal
      /\ M.images = disk.images
  <2>1. M.images \in Nat /\ disk.images \in Nat
    BY <1>1, TypesAre, DocumentBounds DEF Listings, Containers
  <2> QED BY <1>1, <1>2, <2>1 DEF Matches
<1>5. /\ c.seal = disk.seal /\ c.images = disk.images
      /\ c.extra = \E m \in Members : disk.val[m] # None /\ M.val[m] = None
      /\ \A m \in Written(doc) : Overlaid(doc, m, IF m = Content THEN Text ELSE doc.form[m])
      /\ \A m \in Members \ (Written(doc) \union doc.write) : AsOnDisk(disk, doc, m)
  BY <1>1, <1>3, ShownHashes
<1>6. Written(doc) \intersect disk.sealed = {} /\ doc.write \subseteq Written(doc)
  BY <1>1, TypesAre, WrittenIs
<1>7. ASSUME NEW m \in Members
      PROVE  c.val[m] = M.val[m] /\ (m \in c.sealed <=> m \in M.sealed)
  <2>1. CASE m \in Written(doc)
    <3>1. c.val[m] = Says(doc, Text, m) /\ m \notin c.sealed
      BY <1>5, <2>1 DEF Overlaid, Says
    <3>2. Live.val[m] = Says(doc, Text, m) /\ Live.val[m] = disk.val[m]
      BY <2>1, LiveListing DEF Listing
    <3> QED BY <1>4, <1>6, <2>1, <3>1, <3>2
  <2>2. CASE m \notin Written(doc)
    BY <1>4, <1>5, <1>6, <2>2 DEF AsOnDisk
  <2> QED BY <2>1, <2>2
<1>8. ~c.extra
  BY <1>4, <1>5
<1> QED BY <1>1, <1>4, <1>5, <1>7, <1>8 DEF Drift

LEMMA VerifiedStays == Inv => VerifiedHolds
<1> SUFFICES ASSUME Inv, doc.verify = "ok", ghost.faults = 0,
                    ~(disk.images > disk.manifest.images)
             PROVE  disk.manifest = Listing(disk)
  BY DEF VerifiedHolds
<1>1. disk.manifest # None /\ Matches(disk)
  BY TypesAre DEF Inv, Fits, Upheld
<1>2. disk.manifest \in Listings /\ Listing(disk) \in Listings
  BY <1>1, TypesAre, ListingIs DEF Containers
<1>3. disk.manifest.images \in Nat /\ disk.images \in Nat
  BY <1>2, TypesAre, DocumentBounds DEF Listings, Containers
<1>4. /\ disk.manifest.val = disk.val /\ disk.manifest.sealed = disk.sealed
      /\ disk.manifest.seal = disk.seal /\ disk.manifest.images = disk.images
  BY <1>1, <1>3 DEF Matches
<1> HIDE DEF Listings
<1>5. /\ Listing(disk).val = disk.val /\ Listing(disk).sealed = disk.sealed
      /\ Listing(disk).seal = disk.seal /\ Listing(disk).images = disk.images
  BY DEF Listing
<1> QED BY <1>2, <1>4, <1>5, SameListing

\* The Trust panel's verdicts are right, whatever is opened that was not changed
\* behind its manifest before.
THEOREM VerdictCorrect == Intact => (Spec => []VerdictIsRight)
<1>1. Inv /\ Intact => VerdictIsRight
  BY GreenHolds, BrokenHolds, VerifiedStays DEF VerdictIsRight
<1> SUFFICES ASSUME Intact PROVE Spec => []VerdictIsRight
  OBVIOUS
<1>2. Inv => VerdictIsRight
  BY <1>1
<1> QED BY <1>2, Invariance, PTL

-----------------------------------------------------------------------------
(* What no step may do.                                                    *)

\* The window keeps its undo stack and its forms, or grows them.
LEMMA EditingGrows == Inv /\ Editing => ~Reseeds
<1> SUFFICES ASSUME Inv, Editing PROVE ~Reseeds
  OBVIOUS
<1>1. ASSUME NEW t, ed' = Pushed(ed, t) PROVE ~Reseeds
  <2> DEFINE s == SubSeq(ed.hist, 1, ed.pos + 1)
  <2>1. ed.hist \in Seq(Values) /\ ed.pos \in Nat /\ ed.pos + 1 \in 1..Len(ed.hist)
    BY TypesAre DEF Windows
  <2>2. s \in Seq(Values) /\ Len(s) = ed.pos + 1
    BY <2>1
  <2>3. ed'.hist = Append(s, t)
    BY <1>1, TypesAre DEF Pushed, Windows
  <2>4. Len(Append(s, t)) = Len(s) + 1
    BY <2>2
  <2> HIDE DEF s
  <2>5. Len(ed'.hist) # 1
    BY <2>1, <2>2, <2>3, <2>4
  <2> QED BY <2>5 DEF Reseeds
<1>2. ASSUME NEW fs, ed'.hist = ed.hist, ed'.forms = fs,
             fs = ed.forms \/ fs # << >>
      PROVE  ~Reseeds
  BY <1>2, FormTypes, TypesAre DEF Reseeds, Windows
<1>3. CASE \E t \in Typeable : Type(t) \/ InsertImage(t)
  BY <1>1, <1>3 DEF Type, InsertImage
<1>4. CASE Undo \/ Redo
  <2>1. ed'.hist = ed.hist /\ ed'.forms = ed.forms
    BY <1>4, TypesAre DEF Undo, Redo, Windows
  <2> QED BY <1>2, <2>1
<1>5. ASSUME NEW m \in Forms, NEW v \in Fillable, EditForm(m, v) PROVE ~Reseeds
  <2> DEFINE c  == SubSeq(ed.forms, 1, ed.fpos)
             a  == Append(c, doc.form)
             n  == ed.fpos + 1
  <2>1. c \in Seq([Forms -> Values])
    BY FormTypes
  <2>2. PICK e \in Recorded(ed, doc.form) :
          ed' = [e EXCEPT !.dirty = TRUE, !.formsSeen = FALSE]
    BY <1>5 DEF EditForm
  <2>3. e = ed \/ e = [ed EXCEPT !.forms = a, !.fpos = n]
    BY TypesAre DEF Recorded, Windows
  <2> HIDE DEF c
  <2>4. a # << >>
    BY <2>1, FormTypes
  <2> HIDE DEF a, n
  <2>5. ed'.hist = ed.hist /\ ed'.forms \in {ed.forms, a}
    BY <2>2, <2>3, TypesAre DEF Windows
  <2> QED BY <1>2, <2>4, <2>5
<1>6. CASE UndoForm
  <2> DEFINE h == IF ed.fpos = Len(ed.forms) THEN Append(ed.forms, doc.form) ELSE ed.forms
  <2>1. ed'.hist = ed.hist /\ ed'.forms = h
    BY <1>6, TypesAre DEF UndoForm, Windows
  <2>2. h = ed.forms \/ h # << >>
    <3> DEFINE c == ed.forms
               d == doc.form
    <3>1. c \in Seq([Forms -> Values]) /\ d \in [Forms -> Values]
      BY FormTypes
    <3> HIDE DEF c, d
    <3>2. Append(c, d) # << >>
      BY <3>1
    <3> QED BY <3>2 DEF c, d
  <2> QED BY <1>2, <2>1, <2>2
<1>7. CASE RedoForm
  <2>1. ed'.hist = ed.hist /\ ed'.forms = ed.forms
    BY <1>7, TypesAre DEF RedoForm, Windows
  <2> QED BY <1>2, <2>1
<1> QED BY <1>3, <1>4, <1>5, <1>6, <1>7 DEF Editing

\* Nothing but what loads the document again changes the undo stack.
LEMMA StackKept ==
  ASSUME Inv, \/ ed' \in {ed, Marked(ed), [ed EXCEPT !.dirty = FALSE], ManifestSeen(doc)}
              \/ \E w \in Watchers : ed' = Watched(w)
  PROVE  ~Reseeds
<1>1. ed'.hist = ed.hist /\ ed'.forms = ed.forms
  <2>1. CASE ed' = Marked(ed)
    BY <2>1, TypesAre, MarkedIs
  <2>2. CASE ed' = ManifestSeen(doc)
    BY <2>2, TypesAre DEF ManifestSeen, Windows
  <2>3. CASE \E w \in Watchers : ed' = Watched(w)
    BY <2>3, TypesAre DEF Watched, Windows
  <2>4. CASE ed' \in {ed, [ed EXCEPT !.dirty = FALSE]}
    BY <2>4, TypesAre DEF Windows
  <2> QED BY <2>1, <2>2, <2>3, <2>4
<1> QED BY <1>1, FormTypes, TypesAre DEF Reseeds, Windows

\* What the editor and the forms say is on disk after the step.
Survives == /\ Content \notin doc.policy => disk'.val[Content] = Canonical[Text]
            /\ \A m \in doc.write \ doc.policy : disk'.val[m] = Canonical[doc.form[m]]

LEMMA SaveAsSurvives ==
  Inv /\ SaveAs => Survives \/ ~Reseeds
<1> SUFFICES ASSUME Inv, SaveAs PROVE Survives \/ ~Reseeds
  OBVIOUS
<1>1. CASE ed' = ed
  BY <1>1, StackKept
<1>2. ASSUME NEW c \in Staged(disk), disk' = WriteMembers(c.disk, doc, Text, FALSE)
      PROVE  Survives
  <2>1. /\ c.disk \in Containers /\ c.disk.sealed \subseteq doc.policy
    BY NothingIs, TypesAre DEF Staged
  <2>2. WrittenOver(c.disk, doc, Text, disk', Written(doc))
    BY <1>2, <2>1, TypesAre, WriteMembersIs
  <2> QED BY <2>1, <2>2, TypesAre, WriteKeeps DEF Survives
<1>3. (\E c \in Staged(disk) : disk' = WriteMembers(c.disk, doc, Text, FALSE)) \/ ed' = ed
  BY DEF SaveAs
<1> QED BY <1>1, <1>2, <1>3

LEMMA EncryptSurvives ==
  \A ms \in Tickable : Inv /\ Encrypt(ms) => Survives \/ ~Reseeds
<1> SUFFICES ASSUME NEW ms \in Tickable, Inv, Encrypt(ms) PROVE Survives \/ ~Reseeds
  OBVIOUS
<1> DEFINE n == ghost.seals + 1
<1>1. PICK f \in Flushes(disk, doc, Text, TRUE) :
        \/ ed' = ed
        \/ f.ok /\ disk' = Rebuilt([f.disk EXCEPT !.sealed = ms, !.seal = n])
  BY DEF Encrypt, FlushFails
<1>2. CASE ed' = ed
  BY <1>2, StackKept
<1>3. CASE f.ok /\ disk' = Rebuilt([f.disk EXCEPT !.sealed = ms, !.seal = n])
  <2>1. f.disk \in Containers /\ WrittenOver(disk, doc, Text, f.disk, Written(doc))
        /\ \A m \in Members : disk.val[m] # None => f.disk.val[m] # None
    <3>1. f.disk \in Containers /\ WrittenOver(disk, doc, Text, f.disk, Written(doc))
      BY <1>3, FlushOk
    <3> QED BY <3>1, TypesAre, WriteKeeps
  <2>2. n \in 0..MaxSeals
    <3>1. ghost.seals \in 0..MaxSeals
      BY TypesAre DEF Ghosts
    <3> QED BY <3>1, DocumentBounds DEF Encrypt
  <2>3. ms \in SUBSET Members /\ ms # {} /\ \A m \in ms : f.disk.val[m] # None
    BY <2>1, ValuesAssumption DEF Encrypt, EncryptOffered
  <2> HIDE DEF n
  <2> DEFINE x == f.disk
             z == [x EXCEPT !.sealed = ms, !.seal = n]
  <2>6. Rebuilt(z).val = f.disk.val
    <3>1. x \in Containers /\ x = f.disk
      BY <2>1
    <3> HIDE DEF x
    <3> QED BY <3>1 DEF Rebuilt, Containers
  <2>7. disk' = Rebuilt(z)
    BY <1>3
  <2> HIDE DEF z
  <2>4. disk'.val = f.disk.val
    BY <2>6, <2>7
  <2>5. /\ Content \notin doc.policy => f.disk.val[Content] = Canonical[Text]
        /\ \A m \in doc.write \ doc.policy : f.disk.val[m] = Canonical[doc.form[m]]
    BY <2>1, TypesAre, WriteKeeps
  <2> QED BY <2>4, <2>5 DEF Survives
<1> QED BY <1>1, <1>2, <1>3

LEMMA SurviveStep == Inv /\ [Next]_vars => (Reseeds /\ ~Decrypt => Survives)
<1> SUFFICES ASSUME Inv, [Next]_vars, Reseeds, ~Decrypt PROVE Survives
  OBVIOUS
<1>1. ed' # ed
  BY StackKept
<1>2. Next
  BY <1>1 DEF vars
<1>3. ~Editing
  BY EditingGrows
<1>4. ~Panels
  <2>1. "outline" \in Watchers /\ "diff" \in Watchers
    BY DEF Watchers
  <2> QED BY <1>1, <2>1, StackKept DEF Panels, ManifestPanel, TrustPanel, AuditPanel,
             ConformancePanel, StructurePanel, DiffPanel
<1>5. ~Save /\ ~Rebuild /\ ~Sign /\ ~RemoveSignature /\ ~Verify /\ ~Audit /\ ~Export
  <2>1. ed' # Marked(ed) /\ ed' # [ed EXCEPT !.dirty = FALSE]
    BY StackKept
  <2>2. ~Save
    BY <1>1, <2>1 DEF Save, FlushFails
  <2>3. ~Rebuild /\ ~Sign
    BY <1>1, <2>1 DEF Rebuild, Sign, FlushFails
  <2>4. ~RemoveSignature /\ ~Verify /\ ~Audit /\ ~Export
    BY <1>1 DEF RemoveSignature, Verify, Audit, Export, FlushFails
  <2> QED BY <2>2, <2>3, <2>4
<1>6. SaveAs \/ \E ms \in Tickable : Encrypt(ms)
  BY <1>2, <1>3, <1>4, <1>5 DEF Next, Jobs
<1> QED BY <1>6, SaveAsSurvives, EncryptSurvives

\* Whatever re-seeds the editor has written it first, except Decrypt.
THEOREM EditsCorrect == Spec => EditsSurvive
<1>1. Inv /\ [Next]_vars =>
        [Reseeds /\ ~Decrypt =>
           /\ Content \notin doc.policy => disk'.val[Content] = Canonical[Text]
           /\ \A m \in doc.write \ doc.policy :
                disk'.val[m] = Canonical[doc.form[m]]]_vars
  BY SurviveStep DEF Survives
<1> QED BY <1>1, Invariance, PTL DEF Spec, EditsSurvive

\* The new archive holds all of the working copy.
Holds(x) == /\ x.images = disk.images /\ x.log = disk.log
            /\ x.sealed = disk.sealed /\ x.sig = disk.sig
            /\ \A m \in Members : disk.val[m] # None => x.val[m] # None

LEMMA ArchiveStep ==
  "copy" \notin Faults /\ Inv /\ [Next]_vars => (file' # file /\ file' # None => Holds(file'))
<1> SUFFICES ASSUME "copy" \notin Faults, Inv, [Next]_vars, file' # file, file' # None
             PROVE  Holds(file')
  OBVIOUS
<1>1. ASSUME NEW y, WrittenOver(disk, doc, Text, y, Written(doc)) PROVE Holds(y)
  BY <1>1, TypesAre, WriteKeeps DEF Holds, WrittenOver
<1>2. Next
  BY DEF vars
<1>3. ~Editing /\ ~Panels
  BY DEF Editing, Type, InsertImage, Undo, Redo, EditForm, UndoForm, RedoForm, Panels,
         ManifestPanel, TrustPanel, AuditPanel, ConformancePanel, StructurePanel, DiffPanel
<1>4. ~Rebuild /\ ~Sign /\ ~RemoveSignature /\ ~Verify /\ ~Audit /\ ~Export /\ ~Decrypt
      /\ \A ms \in Tickable : ~Encrypt(ms)
  BY DEF Rebuild, Sign, RemoveSignature, Verify, Audit, Export, Decrypt, Encrypt, FlushFails
<1>5. Save \/ SaveAs
  BY <1>2, <1>3, <1>4 DEF Next, Jobs
<1>6. CASE Save
  <2>1. PICK f \in Flushes(disk, doc, Text, FALSE) : f.ok /\ file' = f.disk
    BY <1>6 DEF Save, FlushFails
  <2>2. WrittenOver(disk, doc, Text, f.disk, Written(doc))
    BY <2>1, FlushOk
  <2> QED BY <1>1, <2>1, <2>2
<1>7. CASE SaveAs
  <2>1. PICK c \in Staged(disk) : file' = WriteMembers(c.disk, doc, Text, FALSE)
    BY <1>7 DEF SaveAs
  <2>2. c.disk = disk
    BY DEF Staged, CanFail
  <2>3. WrittenOver(disk, doc, Text, file', Written(doc))
    BY <2>1, <2>2, TypesAre, WriteMembersIs
  <2> QED BY <1>1, <2>3
<1> QED BY <1>5, <1>6, <1>7

\* Whatever becomes of the archive, it is torn or it holds all of the working copy,
\* as long as the copy that save_as does not check comes through.
THEOREM ArchiveCorrect == "copy" \notin Faults => (Spec => ArchiveKeepsAll)
<1> SUFFICES ASSUME "copy" \notin Faults PROVE Spec => ArchiveKeepsAll
  OBVIOUS
<1>1. Inv /\ [Next]_vars =>
        [file' # file /\ file' # None =>
           /\ file'.images = disk.images /\ file'.log = disk.log
           /\ file'.sealed = disk.sealed /\ file'.sig = disk.sig
           /\ \A m \in Members : disk.val[m] # None => file'.val[m] # None]_vars
  BY ArchiveStep DEF Holds
<1> QED BY <1>1, Invariance, PTL DEF Spec, ArchiveKeepsAll
=============================================================================
